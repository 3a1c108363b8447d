---------------------------- MODULE CheckoutLedger ----------------------------
(***************************************************************************)
(* Checkout as an implementation of Ledger.  An order's items are owed to  *)
(* the stock from the moment it exists.  They stay owed for ever when the  *)
(* checkout fails before it has written them off, and when they are of     *)
(* another tenant than the order.                                          *)
(***************************************************************************)
EXTENDS Checkout

Stock == [p \in Products |-> product[p].stock]
Sold == [r \in Requests |-> IF r \in Ordered THEN order[r].items ELSE NoLines]

OwedBy(r) ==
    {p \in DOMAIN order[r].items : p \in todo[r] \/ Home[p] # order[r].tenant}
Owed == UNION {{r} \X OwedBy(r) : r \in Ordered}

Shop == INSTANCE Ledger WITH
    Orders <- Requests, stock <- Stock, owed <- Owed, sold <- Sold, edits <- admin

\* The checkout r writes a stock it has read and that has changed since.
LostUpdate(r) ==
    /\ At(r, "writeStock") /\ pc'[r] \notin {"writeStock", "failed"}
    /\ product[read[r].product].stock # read[r].stock

\* However requests overlap, and wherever they are interrupted, the stock of a
\* product changes only when an order's item of the same tenant is written off,
\* once and by the amount ordered, when an administrator sets it, or by a lost
\* update, which is the write of one item over a stock that was changed since
\* it was read.
LedgerButForLostUpdates ==
    [][\/ Shop!Next
       \/ \E r \in Requests : /\ LostUpdate(r)
                              /\ Shop!MisWrite(r, read[r].product)
      ]_<<Stock, Owed, Sold, admin>>

\* Without lost updates Checkout implements the ledger.
ImplementsLedger == Shop!Spec
==============================================================================

-------------------------------- MODULE Ledger --------------------------------
(***************************************************************************)
(* What checkout promises of stock, without carts, statements, coupons or  *)
(* tenants: an order owes the stock of each of its products the amount     *)
(* ordered; the stock changes only when an order pays one of its debts,    *)
(* once and exactly, or when it is set by hand; an order's items never     *)
(* change.  That every debt is paid is not promised.                       *)
(***************************************************************************)
EXTENDS Integers

CONSTANTS Orders, Products

VARIABLES
    stock,  \* units of each product
    owed,   \* the order and product of each amount not yet written off
    sold,   \* the items of each order placed so far
    edits   \* edits made by administrators so far

IsItems(items) ==
    DOMAIN items \subseteq Products /\ items \in [DOMAIN items -> Int]
Nothing == [p \in {} |-> 0]

Init ==
    /\ owed = {}
    /\ sold = [o \in Orders |-> Nothing]
    /\ edits = 0

Sell(o) ==
    /\ sold[o] = Nothing
    /\ IsItems(sold'[o]) /\ sold'[o] # Nothing
    /\ sold' = [sold EXCEPT ![o] = sold'[o]]
    /\ owed' = owed \cup ({o} \X DOMAIN sold'[o])
    /\ UNCHANGED <<stock, edits>>

WriteOff(o, p) ==
    /\ <<o, p>> \in owed
    /\ owed' = owed \ {<<o, p>>}
    /\ stock' = [stock EXCEPT ![p] = @ - sold[o][p]]
    /\ UNCHANGED <<sold, edits>>

\* One product's stock, or something that is not stock.
EditByHand ==
    /\ edits' = edits + 1
    /\ \/ \E p \in Products : stock' = [stock EXCEPT ![p] = stock'[p]]
       \/ stock' = stock
    /\ UNCHANGED <<owed, sold>>

Next ==
    \/ \E o \in Orders : Sell(o) \/ \E p \in Products : WriteOff(o, p)
    \/ EditByHand

Spec == Init /\ [][Next]_<<stock, owed, sold, edits>>

------------------------------------------------------------------------------
\* No step of the ledger, but one an implementation may fall back on: the
\* debt is crossed off and the stock of its product becomes anything.
MisWrite(o, p) ==
    /\ <<o, p>> \in owed
    /\ owed' = owed \ {<<o, p>>}
    /\ stock' = [stock EXCEPT ![p] = stock'[p]]
    /\ UNCHANGED <<sold, edits>>
==============================================================================

---------------------------- MODULE CheckoutProofs ----------------------------
(***************************************************************************)
(* Theorems about Checkout and its ledger, for any number of requests,      *)
(* customers, tenants and products, any stock and any amounts.              *)
(***************************************************************************)
EXTENDS CheckoutLedger, Sums

USE DEF At

------------------------------------------------------------------------------
(* Requests *)

CartKinds == {"create", "clear", "checkout", "add", "change", "remove"}
LineKinds == {"add", "change", "remove"}
StatusKinds == {"changeStatus", "updateOrder"}

\* What a request of each kind says.
WellFormed(q) ==
    /\ q.kind \in CartKinds => q.user \in Users
    /\ q.kind \in LineKinds => q.product \in Products
    /\ q.kind \in {"add", "change"} => q.amount \in Int
    /\ q.kind \in {"add", "checkout"} \cup StatusKinds => q.tenant \in Tenants
    /\ q.kind = "checkout" => q.coupon \in BOOLEAN
    /\ q.kind \in StatusKinds => q.order \in Requests /\ q.status \in OrderStatus

AllRequests == AddRequest \cup ChangeRequest \cup CartRequest \cup RemoveRequest
               \cup CheckoutRequest \cup StatusRequest \cup {NoRequest}

\* All inputs say what their kind does.
LEMMA RequestsAreWellFormed == \A q \in AllRequests : WellFormed(q)
<1> SUFFICES ASSUME NEW q \in AllRequests PROVE WellFormed(q)
  OBVIOUS
<1> USE CheckoutConstants DEF WellFormed, CartKinds, LineKinds, StatusKinds
<1>1. CASE q \in AddRequest
  BY <1>1 DEF AddRequest
<1>2. CASE q \in ChangeRequest
  BY <1>2 DEF ChangeRequest
<1>3. CASE q \in CartRequest
  BY <1>3 DEF CartRequest
<1>4. CASE q \in RemoveRequest
  BY <1>4 DEF RemoveRequest
<1>5. CASE q \in CheckoutRequest
  BY <1>5 DEF CheckoutRequest
<1>6. CASE q \in StatusRequest
  BY <1>6 DEF StatusRequest
<1>7. CASE q = NoRequest
  BY <1>7 DEF NoRequest
<1> QED BY <1>1, <1>2, <1>3, <1>4, <1>5, <1>6, <1>7 DEF AllRequests

------------------------------------------------------------------------------
(* The invariant.  TypeOK says of each variable what its values are; that a *)
(* request finds what its statement needs is a matter of its place.         *)

\* What is true of a request at each of its statements.
Placed(r) ==
    LET q == req[r] IN
    /\ pc[r] = "findCart" => q.kind \in {"add", "change", "remove", "clear", "checkout"}
    /\ pc[r] = "createCart" => q.kind \in {"create", "add"}
    /\ pc[r] \in {"findProduct", "addItem"} => q.kind = "add" /\ q.user \in hasCart
    /\ pc[r] = "updateItem" => q.kind \in {"add", "change"}
    /\ pc[r] = "removeItem" => q.kind = "remove"
    /\ pc[r] = "clearItems" => q.kind \in {"clear", "checkout"}
    /\ pc[r] \in {"getCart", "createOrder", "incrementUsage", "readStock", "writeStock"} =>
          q.kind = "checkout"
    /\ pc[r] = "findOrder" => q.kind = "changeStatus" /\ q.order \in Ordered
    /\ pc[r] = "writeStatus" =>
          /\ q.kind \in StatusKinds /\ q.order \in Ordered
          /\ q.kind = "changeStatus" => canTransitionTo(old[r], q.status)

\* How a checkout stands to its order: what it has yet to write off is what
\* the order says, and it has an order only once it has made one.
Owes(r) ==
    /\ todo[r] # {} =>
          /\ pc[r] \in {"incrementUsage", "readStock", "writeStock", "failed"}
          /\ r \in Ordered /\ order[r].items = lines[r] /\ todo[r] \subseteq DOMAIN lines[r]
    /\ pc[r] = "createOrder" => lines[r] # NoLines
    /\ pc[r] = "writeStock" =>
          /\ read[r] # NoRead /\ read[r].product \in todo[r]
          /\ Home[read[r].product] = req[r].tenant
    /\ /\ pc[r] \in {"incrementUsage", "readStock", "writeStock", "findCart", "clearItems"}
       /\ req[r].kind = "checkout"
       => r \in Ordered /\ order[r].items = lines[r]
    /\ r \in Ordered =>
          /\ pc[r] \in {"incrementUsage", "readStock", "writeStock", "findCart", "clearItems",
                        "done", "failed"}
          /\ req[r].kind = "checkout" /\ order[r].tenant = req[r].tenant

Tables ==
    /\ product \in [Products -> [present: BOOLEAN, stock: Int]]
    /\ hasCart \subseteq Users
    /\ cart = [u \in Users |-> cart[u]]
    /\ \A u \in Users : IsLines(cart[u]) /\ (cart[u] # NoLines => u \in hasCart)
    /\ order = [o \in Requests |-> order[o]]
    /\ \A o \in Ordered : IsOrder(order[o])
    /\ \A o \in Ordered : \A p \in DOMAIN order[o].items : product[p].present
    /\ coupon \in [present: BOOLEAN, usage: Nat]
    /\ restocked \subseteq Products
    /\ since \in [Requests -> SUBSET Products]
    /\ admin \in Nat

Locals ==
    /\ req \in [Requests -> AllRequests]
    /\ pc \in [Requests -> Steps \cup AtRest]
    /\ lines = [r \in Requests |-> lines[r]]
    /\ \A r \in Requests : IsLines(lines[r])
    /\ todo \in [Requests -> SUBSET Products]
    /\ read \in [Requests -> [product: Products, stock: Int] \cup {NoRead}]
    /\ old \in [Requests -> OrderStatus \cup {"none"}]

Inv == Tables /\ Locals /\ \A r \in Requests : Placed(r) /\ Owes(r)

\* It says all that the two invariants do.
LEMMA InvSuffices == Inv => TypeOK /\ CheckoutsAreConsistent
<1> SUFFICES ASSUME Inv PROVE TypeOK /\ CheckoutsAreConsistent
  OBVIOUS
<1>1. TypeOK
  BY DEF Inv, Tables, Locals, TypeOK, AllRequests
<1>2. CheckoutsAreConsistent
  BY DEF Inv, Tables, Owes, CheckoutsAreConsistent
<1> QED BY <1>1, <1>2

------------------------------------------------------------------------------
(* Every step keeps the invariant. *)

\* In the beginning nobody has asked for anything.
LEMMA InitInv == Init => Inv
<1> SUFFICES ASSUME Init PROVE Inv
  OBVIOUS
<1> USE CheckoutConstants DEF Init
<1>1. Ordered = {}
  BY DEF Ordered
<1>2. Tables
  <2>1. cart = [u \in Users |-> cart[u]]
    OBVIOUS
  <2>2. \A u \in Users : IsLines(cart[u]) /\ (cart[u] # NoLines => u \in hasCart)
    BY DEF IsLines
  <2> QED BY <1>1, <2>1, <2>2 DEF Tables
<1>3. Locals
  BY DEF Locals, AllRequests, AtRest, IsLines, NoLines
<1>4. \A r \in Requests : Placed(r) /\ Owes(r)
  BY <1>1 DEF Placed, Owes
<1> QED BY <1>2, <1>3, <1>4 DEF Inv

\* The step leaves request s where it is.
Still(s) ==
    /\ req'[s] = req[s] /\ pc'[s] = pc[s] /\ lines'[s] = lines[s]
    /\ todo'[s] = todo[s] /\ read'[s] = read[s] /\ old'[s] = old[s]

\* The step keeps every order and its items.
OrdersStay ==
    /\ Ordered \subseteq Ordered'
    /\ \A o \in Ordered : /\ order'[o].items = order[o].items
                         /\ order'[o].tenant = order[o].tenant

\* A step that moves one request at most leaves the others as they were.
LEMMA OthersStay ==
    ASSUME Inv, hasCart \subseteq hasCart', OrdersStay, NEW r,
           Ordered' \subseteq Ordered \cup {r},
           \A s \in Requests \ {r} : Still(s)
    PROVE  \A s \in Requests \ {r} : Placed(s)' /\ Owes(s)'
<1> SUFFICES ASSUME NEW s \in Requests \ {r} PROVE Placed(s)' /\ Owes(s)'
  OBVIOUS
<1>1. Placed(s) /\ Owes(s)
  BY DEF Inv
<1>2. Placed(s)'
  BY <1>1 DEF Placed, Still, OrdersStay
<1>3. Owes(s)'
  BY <1>1 DEF Owes, Still, OrdersStay
<1> QED BY <1>2, <1>3

\* What the steps of carts need: they write no order.
LEMMA CartStepKeeps ==
    ASSUME Inv, NEW r \in Requests, hasCart \subseteq hasCart',
           order' = order, product' = product, coupon' = coupon,
           restocked' = restocked, admin' = admin, since' \in [Requests -> SUBSET Products],
           \A s \in Requests \ {r} : Still(s),
           Locals', Placed(r)', Owes(r)',
           hasCart' \subseteq Users, cart' = [u \in Users |-> cart'[u]],
           \A u \in Users : IsLines(cart'[u]) /\ (cart'[u] # NoLines => u \in hasCart')
    PROVE  Inv'
<1>1. Ordered' = Ordered
  BY DEF Ordered
<1>2. OrdersStay
  BY <1>1 DEF OrdersStay
<1>3. Tables'
  BY <1>1 DEF Inv, Tables
<1> QED BY <1>1, <1>2, <1>3, OthersStay DEF Inv

\* Arriving, a request has not read or written anything.
LEMMA StartKeeps == ASSUME Inv, NEW r \in Requests, Start(r) PROVE Inv'
<1>1. PICK input \in AllRequests, first \in Steps :
         /\ Begin(r, input, first)
         /\ \/ input.kind \in {"add", "change", "remove", "clear"} /\ first = "findCart"
            \/ input.kind = "create" /\ first = "createCart"
            \/ input.kind = "checkout" /\ first = "getCart"
            \/ input.kind = "changeStatus" /\ input.order \in Ordered /\ first = "findOrder"
            \/ input.kind = "updateOrder" /\ input.order \in Ordered /\ first = "writeStatus"
  <2>1. CASE StartCartRequest(r)
    BY <2>1 DEF StartCartRequest, AllRequests, AddRequest, ChangeRequest, RemoveRequest,
              CartRequest, Steps
  <2>2. CASE StartCheckout(r)
    BY <2>2 DEF StartCheckout, AllRequests, CheckoutRequest, Steps
  <2>3. CASE StartStatusChange(r)
    BY <2>3 DEF StartStatusChange, AllRequests, StatusRequest, Steps
  <2> QED BY <2>1, <2>2, <2>3 DEF Start
<1> USE <1>1 DEF Begin, locals, history
<1>2. /\ req' = [req EXCEPT ![r] = input] /\ pc' = [pc EXCEPT ![r] = first]
      /\ \A s \in Requests \ {r} : Still(s)
  BY DEF Inv, Locals, Goto, Still
<1>3. WellFormed(input) /\ Placed(r) /\ Owes(r)
  BY RequestsAreWellFormed DEF Inv
<1>4. Ordered' = Ordered
  BY DEF Ordered
<1>5. Locals'
  BY <1>2 DEF Inv, Locals
<1>6. Placed(r)'
  BY <1>2, <1>3, <1>4 DEF Inv, Locals, Placed, WellFormed, StatusKinds
<1>7. Owes(r)'
  BY <1>2, <1>3, <1>4 DEF Inv, Locals, Owes
<1> QED BY <1>2, <1>5, <1>6, <1>7, CartStepKeeps DEF Inv, Tables

\* The statements of the cart use cases.
LEMMA AfterFindCart ==
    /\ NextAfterFindCart("add") = "findProduct"
    /\ NextAfterFindCart("change") = "updateItem"
    /\ NextAfterFindCart("remove") = "removeItem"
    /\ NextAfterFindCart("clear") = "clearItems"
    /\ NextAfterFindCart("checkout") = "clearItems"
BY DEF NextAfterFindCart

\* Where findCart leads, and with which lines in hand.
LEMMA FindCartCases ==
    ASSUME Inv, NEW r \in Requests, FindCart(r)
    PROVE  \E next \in Steps \cup AtRest :
              /\ pc' = [pc EXCEPT ![r] = next]
              /\ lines' = IF next = "findProduct" THEN [lines EXCEPT ![r] = cart[req[r].user]]
                          ELSE lines
              /\ \/ next = "findProduct" /\ req[r].kind = "add" /\ req[r].user \in hasCart
                 \/ next = "updateItem" /\ req[r].kind = "change"
                 \/ next = "removeItem" /\ req[r].kind = "remove"
                 \/ next = "clearItems" /\ req[r].kind \in {"clear", "checkout"}
                 \/ next = "createCart" /\ req[r].kind = "add"
                 \/ next = "failed"
<1> USE DEF FindCart, Goto
<1>1. req[r].kind \in {"add", "change", "remove", "clear", "checkout"}
  BY DEF Placed, Inv
<1> DEFINE next == IF req[r].user \in hasCart THEN NextAfterFindCart(req[r].kind)
                   ELSE IF req[r].kind = "add" THEN "createCart" ELSE "failed"
<1>2. /\ Goto(r, next)
      /\ lines' = IF next = "findProduct" THEN [lines EXCEPT ![r] = cart[req[r].user]]
                  ELSE lines
  BY Zenon
<1>3. /\ next \in Steps \cup AtRest
      /\ \/ next = "findProduct" /\ req[r].kind = "add" /\ req[r].user \in hasCart
         \/ next = "updateItem" /\ req[r].kind = "change"
         \/ next = "removeItem" /\ req[r].kind = "remove"
         \/ next = "clearItems" /\ req[r].kind \in {"clear", "checkout"}
         \/ next = "createCart" /\ req[r].kind = "add"
         \/ next = "failed"
  BY <1>1, AfterFindCart DEF Steps, AtRest
<1> HIDE DEF next
<1> QED BY <1>2, <1>3

\* Whoever goes on after findCart has found a cart.
LEMMA FindCartKeeps == ASSUME Inv, NEW r \in Requests, FindCart(r) PROVE Inv'
<1>1. Placed(r) /\ Owes(r) /\ WellFormed(req[r])
  BY RequestsAreWellFormed DEF Inv, Locals
<1>2. PICK next \in Steps \cup AtRest :
         /\ pc' = [pc EXCEPT ![r] = next]
         /\ lines' = IF next = "findProduct" THEN [lines EXCEPT ![r] = cart[req[r].user]]
                     ELSE lines
         /\ \/ next = "findProduct" /\ req[r].kind = "add" /\ req[r].user \in hasCart
            \/ next = "updateItem" /\ req[r].kind = "change"
            \/ next = "removeItem" /\ req[r].kind = "remove"
            \/ next = "clearItems" /\ req[r].kind \in {"clear", "checkout"}
            \/ next = "createCart" /\ req[r].kind = "add"
            \/ next = "failed"
  BY FindCartCases
<1> USE DEF FindCart, history
<1>3. \A s \in Requests \ {r} : Still(s)
  BY <1>2 DEF Inv, Locals, Still
<1>4. Ordered' = Ordered
  BY DEF Ordered
<1>5. Locals'
  BY <1>1, <1>2 DEF Inv, Tables, Locals, IsLines, WellFormed, CartKinds, Placed
<1>6. Placed(r)'
  BY <1>1, <1>4, <1>2 DEF Inv, Locals, Placed
<1>7. Owes(r)'
  BY <1>1, <1>4, <1>2 DEF Inv, Locals, Owes, Placed
<1> QED BY <1>3, <1>5, <1>6, <1>7, CartStepKeeps DEF Inv, Tables

\* An empty cart is well formed.
LEMMA NoLinesIsLines == IsLines(NoLines)
BY DEF IsLines, NoLines

\* A cart is created for a user who has none, and is empty.
LEMMA CreateCartKeeps == ASSUME Inv, NEW r \in Requests, CreateCart(r) PROVE Inv'
<1> USE DEF CreateCart, Goto, history
<1>1. Placed(r) /\ Owes(r) /\ WellFormed(req[r])
  BY RequestsAreWellFormed DEF Inv, Locals
<1>2. \A s \in Requests \ {r} : Still(s)
  BY DEF Inv, Locals, Still
<1>3. Ordered' = Ordered /\ req[r].user \in Users
  BY <1>1 DEF Ordered, Placed, WellFormed, CartKinds
<1>4. Locals'
  <2>1. lines' = [s \in Requests |-> lines'[s]] /\ \A s \in Requests : IsLines(lines'[s])
    BY NoLinesIsLines DEF Inv, Locals
  <2>2. pc' \in [Requests -> Steps \cup AtRest]
    BY DEF Inv, Locals, Steps, AtRest
  <2> QED BY <2>1, <2>2 DEF Inv, Locals
<1>5. Placed(r)'
  BY <1>1, <1>3 DEF Inv, Locals, Placed
<1>6. Owes(r)'
  BY <1>1, <1>3 DEF Inv, Locals, Owes, Placed
<1>7. hasCart \subseteq hasCart' /\ hasCart' \subseteq Users
  BY <1>3 DEF Inv, Tables
<1> QED BY <1>2, <1>4, <1>5, <1>6, <1>7, CartStepKeeps DEF Inv, Tables

\* The product is read for its price and its presence; nothing is written.
LEMMA FindProductKeeps == ASSUME Inv, NEW r \in Requests, FindProduct(r) PROVE Inv'
<1> USE DEF FindProduct, Goto, locals, history
<1>1. Placed(r) /\ Owes(r)
  BY DEF Inv
<1>2. \A s \in Requests \ {r} : Still(s)
  BY DEF Inv, Locals, Still
<1>3. Ordered' = Ordered
  BY DEF Ordered
<1>4. Locals'
  BY DEF Inv, Locals, Steps, AtRest
<1>5. Placed(r)' /\ Owes(r)'
  BY <1>1, <1>3 DEF Inv, Locals, Placed, Owes
<1> QED BY <1>2, <1>4, <1>5, CartStepKeeps DEF Inv, Tables

\* A line set, removed or with all its cart cleared leaves lines of users
\* who have a cart.
LEMMA SetLineKeeps ==
    ASSUME Inv, NEW u \in hasCart, NEW p \in Products, NEW n \in Int, SetLine(u, p, n)
    PROVE  /\ cart' = [v \in Users |-> cart'[v]]
           /\ \A v \in Users : IsLines(cart'[v]) /\ (cart'[v] # NoLines => v \in hasCart)
           /\ since' \in [Requests -> SUBSET Products]
<1>1. since' \in [Requests -> SUBSET Products]
  BY DEF Inv, Tables, SetLine
<1>2. /\ cart' = [v \in Users |-> cart'[v]]
      /\ \A v \in Users : IsLines(cart'[v]) /\ (cart'[v] # NoLines => v \in hasCart)
  BY DEF Inv, Tables, SetLine, IsLines
<1> QED BY <1>1, <1>2

\* Giving a user who has a cart any lines keeps lines in carts.
LEMMA LinesOnlyInCarts ==
    ASSUME Inv, NEW u \in Users, NEW ls, IsLines(ls), ls # NoLines => u \in hasCart,
           cart' = [cart EXCEPT ![u] = ls]
    PROVE  /\ cart' = [v \in Users |-> cart'[v]]
           /\ \A v \in Users : IsLines(cart'[v]) /\ (cart'[v] # NoLines => v \in hasCart)
BY DEF Inv, Tables

\* Taking a line away leaves lines.
LEMMA WithoutIsLines ==
    ASSUME NEW ls, IsLines(ls), NEW p
    PROVE  IsLines(Without(ls, p)) /\ (Without(ls, p) # NoLines => ls # NoLines)
BY DEF IsLines, Without, NoLines

\* The amount is stored in a line that is there.
LEMMA UpdateItemKeeps == ASSUME Inv, NEW r \in Requests, UpdateItem(r) PROVE Inv'
<1> USE DEF UpdateItem, Goto, locals, history
<1>1. Placed(r) /\ Owes(r) /\ WellFormed(req[r])
  BY RequestsAreWellFormed DEF Inv, Locals
<1>2. \A s \in Requests \ {r} : Still(s)
  BY DEF Inv, Locals, Still
<1>3. Ordered' = Ordered
  BY DEF Ordered
<1>4. Locals'
  BY DEF Inv, Locals, Steps, AtRest
<1>5. Placed(r)' /\ Owes(r)'
  BY <1>1, <1>3 DEF Inv, Locals, Placed, Owes
<1>6. /\ cart' = [v \in Users |-> cart'[v]]
      /\ \A v \in Users : IsLines(cart'[v]) /\ (cart'[v] # NoLines => v \in hasCart)
      /\ since' \in [Requests -> SUBSET Products]
  <2>1. CASE req[r].product \in DOMAIN cart[req[r].user]
    <3>1. req[r].user \in Users /\ req[r].product \in Products /\ req[r].amount \in Int
      BY <1>1 DEF WellFormed, Placed, CartKinds, LineKinds
    <3>2. req[r].user \in hasCart
      BY <2>1, <3>1 DEF Inv, Tables, NoLines
    <3>3. Wanted(r) \in Int
      BY <3>1 DEF Wanted, AlreadyInCart, Inv, Locals, IsLines
    <3> QED BY <2>1, <3>1, <3>2, <3>3, SetLineKeeps
  <2>2. CASE req[r].product \notin DOMAIN cart[req[r].user]
    BY <2>2 DEF Inv, Tables
  <2> QED BY <2>1, <2>2
<1> QED BY <1>2, <1>4, <1>5, <1>6, CartStepKeeps DEF Inv, Tables

\* A line is inserted for a product that is there.
LEMMA AddItemKeeps == ASSUME Inv, NEW r \in Requests, AddItem(r) PROVE Inv'
<1> USE DEF AddItem, Goto, locals, history
<1>1. Placed(r) /\ Owes(r) /\ WellFormed(req[r])
  BY RequestsAreWellFormed DEF Inv, Locals
<1>2. \A s \in Requests \ {r} : Still(s)
  BY DEF Inv, Locals, Still
<1>3. Ordered' = Ordered
  BY DEF Ordered
<1>4. Locals'
  BY DEF Inv, Locals, Steps, AtRest
<1>5. Placed(r)' /\ Owes(r)'
  BY <1>1, <1>3 DEF Inv, Locals, Placed, Owes
<1>6. /\ cart' = [v \in Users |-> cart'[v]]
      /\ \A v \in Users : IsLines(cart'[v]) /\ (cart'[v] # NoLines => v \in hasCart)
      /\ since' \in [Requests -> SUBSET Products]
  <2>1. /\ req[r].product \in Products /\ req[r].amount \in Int
        /\ req[r].user \in hasCart
    BY <1>1 DEF WellFormed, Placed, CartKinds, LineKinds
  <2> QED BY <2>1, SetLineKeeps DEF Inv, Tables
<1> QED BY <1>2, <1>4, <1>5, <1>6, CartStepKeeps DEF Inv, Tables

\* A line is removed whether or not it is there.
LEMMA RemoveItemKeeps == ASSUME Inv, NEW r \in Requests, RemoveItem(r) PROVE Inv'
<1> USE DEF RemoveItem, Goto, locals, history
<1>1. Placed(r) /\ Owes(r) /\ WellFormed(req[r])
  BY RequestsAreWellFormed DEF Inv, Locals
<1>2. \A s \in Requests \ {r} : Still(s)
  BY DEF Inv, Locals, Still
<1>3. Ordered' = Ordered
  BY DEF Ordered
<1>4. Locals'
  BY DEF Inv, Locals, Steps, AtRest
<1>5. Placed(r)' /\ Owes(r)'
  BY <1>1, <1>3 DEF Inv, Locals, Placed, Owes
<1> DEFINE u == req[r].user
           ls == Without(cart[u], req[r].product)
<1>6. u \in Users
  BY <1>1 DEF WellFormed, Placed, CartKinds
<1>7. IsLines(ls) /\ (ls # NoLines => u \in hasCart)
  BY <1>6, WithoutIsLines DEF Inv, Tables
<1>8. cart' = [cart EXCEPT ![u] = ls]
  BY <1>6 DEF Inv, Tables
<1> HIDE DEF u, ls
<1> QED BY <1>2, <1>4, <1>5, <1>6, <1>7, <1>8, LinesOnlyInCarts, CartStepKeeps DEF Inv, Tables

\* A cart that is cleared is empty, and stays.
LEMMA ClearItemsKeeps == ASSUME Inv, NEW r \in Requests, ClearItems(r) PROVE Inv'
<1> USE DEF ClearItems, Goto, locals, history
<1>1. Placed(r) /\ Owes(r) /\ WellFormed(req[r])
  BY RequestsAreWellFormed DEF Inv, Locals
<1>2. \A s \in Requests \ {r} : Still(s)
  BY DEF Inv, Locals, Still
<1>3. Ordered' = Ordered
  BY DEF Ordered
<1>4. Locals'
  BY DEF Inv, Locals, Steps, AtRest
<1>5. Placed(r)' /\ Owes(r)'
  BY <1>1, <1>3 DEF Inv, Locals, Placed, Owes
<1>6. req[r].user \in Users
  BY <1>1 DEF WellFormed, Placed, CartKinds
<1> QED BY <1>2, <1>4, <1>5, <1>6, NoLinesIsLines, LinesOnlyInCarts, CartStepKeeps
        DEF Inv, Tables

\* The statements of a checkout.
LEMMA GetCartKeeps == ASSUME Inv, NEW r \in Requests, GetCart(r) PROVE Inv'
<1> USE DEF GetCart, Goto, history
<1>1. Placed(r) /\ Owes(r) /\ WellFormed(req[r])
  BY RequestsAreWellFormed DEF Inv, Locals
<1>2. \A s \in Requests \ {r} : Still(s)
  BY DEF Inv, Locals, Still
<1>3. Ordered' = Ordered
  BY DEF Ordered
<1>4. req[r].user \in Users
  BY <1>1 DEF WellFormed, Placed, CartKinds
<1>5. Locals'
  <2>1. lines' = [s \in Requests |-> lines'[s]] /\ \A s \in Requests : IsLines(lines'[s])
    BY <1>4 DEF Inv, Tables, Locals
  <2>2. pc' \in [Requests -> Steps \cup AtRest]
    BY DEF Inv, Locals, Steps, AtRest
  <2> QED BY <2>1, <2>2 DEF Inv, Locals
<1>6. Placed(r)' /\ Owes(r)'
  BY <1>1, <1>3 DEF Inv, Locals, Placed, Owes
<1> QED BY <1>2, <1>5, <1>6, CartStepKeeps DEF Inv, Tables

\* The order a checkout inserts.
NewOrder(r) == [user |-> req[r].user, tenant |-> req[r].tenant, items |-> lines[r],
                coupon |-> req[r].coupon, status |-> "PENDIENTE"]

\* It is an order.
LEMMA NewOrderIsOrder ==
    ASSUME Inv, NEW r \in Requests, req[r].kind = "checkout"
    PROVE  IsOrder(NewOrder(r)) /\ NewOrder(r) # NoOrder
<1>1. WellFormed(req[r])
  BY RequestsAreWellFormed DEF Inv, Locals
<1> QED BY <1>1 DEF Inv, Locals, IsOrder, NewOrder, NoOrder, OrderStatus, WellFormed, CartKinds

\* An order is inserted whole, or the checkout fails.
LEMMA CreateOrderCases ==
    ASSUME Inv, NEW r \in Requests, CreateOrder(r)
    PROVE  \/ /\ order' = [order EXCEPT ![r] = NewOrder(r)]
              /\ todo' = [todo EXCEPT ![r] = DOMAIN lines[r]]
              /\ pc' = [pc EXCEPT ![r] = IF req[r].coupon THEN "incrementUsage"
                                         ELSE "readStock"]
              /\ Ordered' = Ordered \cup {r}
              /\ req[r].coupon => coupon.present
              /\ \A p \in DOMAIN lines[r] : product[p].present
           \/ /\ order' = order /\ todo' = todo
              /\ pc' = [pc EXCEPT ![r] = "failed"]
<1>1. req[r].kind = "checkout"
  BY DEF Inv, Placed, CreateOrder
<1> USE DEF CreateOrder, Goto, NewOrder
<1>2. CASE order' = [order EXCEPT ![r] = NewOrder(r)]
  <2>1. Ordered' = Ordered \cup {r}
    BY <1>1, <1>2, NewOrderIsOrder DEF Inv, Tables, Ordered
  <2> QED BY <1>2, <2>1
<1> QED BY <1>2

\* A new order has the lines its checkout has read and has yet to write off.
LEMMA CreateOrderKeeps == ASSUME Inv, NEW r \in Requests, CreateOrder(r) PROVE Inv'
<1>1. Placed(r) /\ Owes(r) /\ req[r].kind = "checkout"
  BY DEF Inv, CreateOrder, Placed
<1>2. /\ \A s \in Requests \ {r} : Still(s)
      /\ UNCHANGED <<product, hasCart, cart, coupon, req, lines, read, old, history>>
  BY DEF Inv, Locals, Still, CreateOrder, Goto
<1> USE DEF history
<1>3. CASE order' = order /\ todo' = todo /\ pc' = [pc EXCEPT ![r] = "failed"]
  <2>1. Ordered' = Ordered
    BY <1>3 DEF Ordered
  <2>2. Locals'
    BY <1>2, <1>3 DEF Inv, Locals, AtRest
  <2>3. Placed(r)' /\ Owes(r)'
    BY <1>1, <1>2, <1>3, <2>1 DEF Inv, Locals, Placed, Owes, CreateOrder
  <2> QED BY <1>2, <1>3, <2>2, <2>3, CartStepKeeps DEF Inv, Tables
<1>4. CASE /\ order' = [order EXCEPT ![r] = NewOrder(r)]
           /\ todo' = [todo EXCEPT ![r] = DOMAIN lines[r]]
           /\ pc' = [pc EXCEPT ![r] = IF req[r].coupon THEN "incrementUsage" ELSE "readStock"]
           /\ Ordered' = Ordered \cup {r}
           /\ \A p \in DOMAIN lines[r] : product[p].present
  <2>1. /\ order'[r] = NewOrder(r) /\ NewOrder(r).items = lines[r] /\ IsOrder(NewOrder(r))
        /\ NewOrder(r).tenant = req[r].tenant
    BY <1>1, <1>4, NewOrderIsOrder DEF Inv, Tables, NewOrder
  <2>2. r \notin Ordered /\ \A o \in Ordered : order'[o] = order[o]
    BY <1>1, <1>4 DEF Inv, Tables, Owes, CreateOrder
  <2>3. Tables'
    <3>1. \A o \in Ordered' : /\ IsOrder(order'[o])
                              /\ \A p \in DOMAIN order'[o].items : product[p].present
      BY <1>2, <1>4, <2>1, <2>2 DEF Inv, Tables
    <3>2. order' = [o \in Requests |-> order'[o]]
      BY <1>4 DEF Inv, Tables
    <3> QED BY <1>2, <3>1, <3>2 DEF Inv, Tables
  <2>4. Locals'
    <3>1. DOMAIN lines[r] \in SUBSET Products
      BY DEF Inv, Locals, IsLines
    <3> QED BY <1>2, <1>4, <3>1 DEF Inv, Locals, Steps
  <2>5. Placed(r)'
    BY <1>1, <1>2, <1>4 DEF Inv, Locals, Placed
  <2>6. Owes(r)'
    BY <1>1, <1>2, <1>4, <2>1 DEF Inv, Locals, Owes
  <2>7. OrdersStay
    BY <1>4, <2>2 DEF OrdersStay
  <2> QED BY <1>2, <1>4, <2>3, <2>4, <2>5, <2>6, <2>7, OthersStay DEF Inv
<1> QED BY <1>3, <1>4, CreateOrderCases

\* A use of the coupon is counted, if there is one in the tenant.
LEMMA IncrementUsageCases ==
    ASSUME Inv, NEW r \in Requests, IncrementUsage(r)
    PROVE  /\ pc[r] = "incrementUsage"
           /\ UNCHANGED <<product, hasCart, cart, order, req, locals, history>>
           /\ \/ /\ coupon.present /\ pc' = [pc EXCEPT ![r] = "readStock"]
                 /\ coupon'.present /\ coupon'.usage = coupon.usage + 1
                 /\ coupon' \in [present: BOOLEAN, usage: Nat]
              \/ pc' = [pc EXCEPT ![r] = "failed"] /\ coupon' = coupon
<1>1. coupon \in [present: BOOLEAN, usage: Nat]
  BY DEF Inv, Tables
<1> QED BY <1>1 DEF IncrementUsage, Goto

\* Counting a use of the coupon touches nothing but its row.
LEMMA IncrementUsageKeeps == ASSUME Inv, NEW r \in Requests, IncrementUsage(r) PROVE Inv'
<1> USE DEF locals, history
<1>1. /\ Placed(r) /\ Owes(r) /\ pc[r] = "incrementUsage"
      /\ UNCHANGED <<product, hasCart, cart, order, req, locals, history>>
      /\ coupon' \in [present: BOOLEAN, usage: Nat]
      /\ \E next \in {"readStock", "failed"} : pc' = [pc EXCEPT ![r] = next]
  BY IncrementUsageCases DEF Inv, Tables
<1>2. \A s \in Requests \ {r} : Still(s)
  BY <1>1 DEF Inv, Locals, Still
<1>3. Ordered' = Ordered
  BY <1>1 DEF Ordered
<1>4. OrdersStay
  BY <1>1, <1>3 DEF OrdersStay
<1>5. Locals'
  BY <1>1 DEF Inv, Locals, Steps, AtRest
<1>6. Placed(r)'
  BY <1>1, <1>3 DEF Inv, Locals, Placed
<1>7. Owes(r)'
  BY <1>1, <1>3 DEF Inv, Locals, Owes, Placed
<1>8. Tables'
  BY <1>1, <1>3 DEF Inv, Tables
<1> QED BY <1>1, <1>2, <1>3, <1>4, <1>5, <1>6, <1>7, <1>8, OthersStay DEF Inv

\* The next item is found, and its stock is read, or it is passed over.
LEMMA ReadStockCases ==
    ASSUME Inv, NEW r \in Requests, ReadStock(r)
    PROVE  \E p \in todo[r] :
              \/ /\ Found(req[r].tenant, p) /\ todo' = todo
                 /\ pc' = [pc EXCEPT ![r] = "writeStock"]
                 /\ read' = [read EXCEPT ![r] = [product |-> p, stock |-> product[p].stock]]
              \/ /\ ~Found(req[r].tenant, p) /\ todo' = [todo EXCEPT ![r] = @ \ {p}]
                 /\ pc' = [pc EXCEPT ![r] = IF todo[r] = {p} THEN "findCart"
                                            ELSE "readStock"]
                 /\ read' = read
BY DEF ReadStock, Goto, AfterItem

\* A stock is read of a product that is still to be written off.
LEMMA ReadStockKeeps == ASSUME Inv, NEW r \in Requests, ReadStock(r) PROVE Inv'
<1>1. Placed(r) /\ Owes(r) /\ pc[r] = "readStock"
  BY DEF Inv, ReadStock
<1>2. UNCHANGED <<product, hasCart, cart, order, coupon, req, lines, old, history>>
  BY DEF ReadStock
<1>3. Ordered' = Ordered
  BY <1>2 DEF Ordered
<1>4. PICK p \in todo[r] :
              \/ /\ Found(req[r].tenant, p) /\ todo' = todo
                 /\ pc' = [pc EXCEPT ![r] = "writeStock"]
                 /\ read' = [read EXCEPT ![r] = [product |-> p, stock |-> product[p].stock]]
              \/ /\ ~Found(req[r].tenant, p) /\ todo' = [todo EXCEPT ![r] = @ \ {p}]
                 /\ pc' = [pc EXCEPT ![r] = IF todo[r] = {p} THEN "findCart"
                                            ELSE "readStock"]
                 /\ read' = read
  BY ReadStockCases
<1>5. p \in Products /\ product[p].stock \in Int
  BY DEF Inv, Locals, Tables
<1> USE DEF history
<1>6. \A s \in Requests \ {r} : Still(s)
  BY <1>2, <1>4 DEF Inv, Locals, Still
<1>7. Locals'
  BY <1>2, <1>4, <1>5 DEF Inv, Locals, Steps
<1>8. Placed(r)'
  BY <1>1, <1>2, <1>3, <1>4 DEF Inv, Locals, Placed
<1>9. Owes(r)'
  <2>1. CASE Found(req[r].tenant, p)
    <3>1. /\ todo' = todo /\ pc'[r] = "writeStock" /\ Home[p] = req[r].tenant
          /\ read'[r] = [product |-> p, stock |-> product[p].stock]
      BY <1>4, <2>1 DEF Inv, Locals, Found
    <3>2. read'[r] # NoRead /\ read'[r].product = p
      BY <3>1 DEF NoRead
    <3> HIDE DEF NoRead
    <3> QED BY <1>1, <1>2, <1>3, <3>1, <3>2 DEF Owes, Placed
  <2>2. CASE ~Found(req[r].tenant, p)
    <3>1. todo'[r] = todo[r] \ {p} /\ pc'[r] \in {"findCart", "readStock"}
      BY <1>4, <2>2 DEF Inv, Locals
    <3>2. pc'[r] = "findCart" => todo'[r] = {}
      BY <1>4, <2>2, <3>1 DEF Inv, Locals
    <3> QED BY <1>1, <1>2, <1>3, <3>1, <3>2 DEF Owes, Placed
  <2> QED BY <2>1, <2>2
<1> QED BY <1>2, <1>6, <1>7, <1>8, <1>9, CartStepKeeps DEF Inv, Tables

\* What a stock write finds: the product it read, still to be written off.
LEMMA WhatIsRead ==
    ASSUME Inv, NEW r \in Requests, pc[r] = "writeStock"
    PROVE  /\ read[r].product \in todo[r] /\ read[r].product \in Products
           /\ read[r].stock \in Int
           /\ read[r].product \in DOMAIN lines[r] /\ lines[r][read[r].product] \in Int
           /\ r \in Ordered /\ order[r].items = lines[r]
           /\ Home[read[r].product] = order[r].tenant
<1>1. Placed(r) /\ Owes(r)
  BY DEF Inv
<1> QED BY <1>1 DEF Inv, Locals, Placed, Owes, IsLines

\* What is written off is no longer to be written off.
LEMMA WriteStockKeeps == ASSUME Inv, NEW r \in Requests, WriteStock(r) PROVE Inv'
<1> USE DEF WriteStock, Goto, AfterItem, history
<1> DEFINE p == read[r].product
           n == read[r].stock - lines[r][p]
<1>1. Placed(r) /\ Owes(r)
  BY DEF Inv
<1>2. \A s \in Requests \ {r} : Still(s)
  BY DEF Inv, Locals, Still
<1>3. Ordered' = Ordered
  BY DEF Ordered
<1>4. OrdersStay
  BY <1>3 DEF OrdersStay
<1>5. p \in Products /\ n \in Int
  BY WhatIsRead
<1>6. product' = [product EXCEPT ![p].stock = n]
  OBVIOUS
<1>7. Tables'
  <2> HIDE DEF p, n
  <2>1. /\ product' \in [Products -> [present: BOOLEAN, stock: Int]]
        /\ \A q \in Products : product'[q].present = product[q].present
    <3> DEFINE row == [product[p] EXCEPT !.stock = n]
    <3>1. row \in [present: BOOLEAN, stock: Int] /\ row.present = product[p].present
      BY <1>5 DEF Inv, Tables
    <3>2. product' = [product EXCEPT ![p] = row]
      BY <1>6
    <3>3. product \in [Products -> [present: BOOLEAN, stock: Int]]
      BY DEF Inv, Tables
    <3> HIDE DEF row, WriteStock, Goto
    <3> QED BY <1>5, <3>1, <3>2, <3>3
  <2>2. \A o \in Ordered : DOMAIN order[o].items \subseteq Products
    BY DEF Inv, Tables, IsOrder, IsLines
  <2>3. \A o \in Ordered' : /\ IsOrder(order'[o])
                            /\ \A q \in DOMAIN order'[o].items : product'[q].present
    BY <1>3, <2>1, <2>2 DEF Inv, Tables
  <2> QED BY <1>3, <2>1, <2>3 DEF Inv, Tables
<1>8. Locals'
  BY DEF Inv, Locals, Steps
<1>9. Placed(r)'
  BY <1>1, <1>3 DEF Inv, Locals, Placed
<1>10. Owes(r)'
  <2>1. req[r].kind = "checkout" /\ pc[r] = "writeStock"
    BY <1>1 DEF Placed
  <2>2. /\ todo'[r] = todo[r] \ {p} /\ pc'[r] \in {"findCart", "readStock"}
        /\ pc'[r] = "findCart" => todo'[r] = {}
    BY DEF Inv, Locals
  <2>3. order' = order /\ lines' = lines /\ req' = req
    OBVIOUS
  <2> HIDE DEF WriteStock, p, n
  <2> QED BY <1>1, <1>3, <2>1, <2>2, <2>3 DEF Owes
<1> QED BY <1>2, <1>3, <1>4, <1>7, <1>8, <1>9, <1>10, OthersStay DEF Inv

\* The two ways to change an order's status.
LEMMA FindOrderKeeps == ASSUME Inv, NEW r \in Requests, FindOrder(r) PROVE Inv'
<1> USE DEF FindOrder, Goto, history
<1>1. Placed(r) /\ Owes(r) /\ req[r].kind = "changeStatus" /\ req[r].order \in Ordered
  BY DEF Inv, Placed
<1>2. \A s \in Requests \ {r} : Still(s)
  BY DEF Inv, Locals, Still
<1>3. Ordered' = Ordered
  BY DEF Ordered
<1>4. order[req[r].order].status \in OrderStatus
  BY <1>1 DEF Inv, Tables, IsOrder
<1>5. Locals'
  BY <1>4 DEF Inv, Locals, Steps, AtRest
<1>6. Placed(r)'
  BY <1>1, <1>3 DEF Inv, Locals, Placed, StatusKinds
<1>7. Owes(r)'
  BY <1>1, <1>3 DEF Inv, Locals, Owes
<1> QED BY <1>2, <1>5, <1>6, <1>7, CartStepKeeps DEF Inv, Tables

\* A new status leaves an order an order, with its items.
LEMMA StatusIsWritten ==
    ASSUME Inv, NEW o \in Ordered, NEW st \in OrderStatus,
           order' = [order EXCEPT ![o].status = st]
    PROVE  /\ Ordered' = Ordered /\ order' = [s \in Requests |-> order'[s]]
           /\ \A s \in Requests \ {o} : order'[s] = order[s]
           /\ IsOrder(order'[o]) /\ order'[o].items = order[o].items
           /\ order'[o].tenant = order[o].tenant
           /\ order'[o].coupon = order[o].coupon /\ order'[o].status = st
<1> DEFINE row == [order[o] EXCEPT !.status = st]
<1>1. IsOrder(order[o]) /\ o \in Requests
  BY DEF Inv, Tables, Ordered
<1>2. order' = [order EXCEPT ![o] = row]
  OBVIOUS
<1>3. /\ row.items = order[o].items /\ row.tenant = order[o].tenant /\ row.coupon = order[o].coupon /\ row.status = st
      /\ IsOrder(row)
  BY <1>1 DEF IsOrder
<1>4. row # NoOrder
  BY <1>3 DEF NoOrder, OrderStatus
<1> HIDE DEF row
<1>5. order = [s \in Requests |-> order[s]]
  BY DEF Inv, Tables
<1>6. order' = [s \in Requests |-> order'[s]] /\ \A s \in Requests \ {o} : order'[s] = order[s]
  BY <1>2, <1>5
<1>7. order'[o] = row
  BY <1>1, <1>2, <1>5
<1>8. Ordered' = Ordered
  BY <1>4, <1>6, <1>7 DEF Ordered
<1> QED BY <1>3, <1>6, <1>7, <1>8

\* A status is written to an order that exists, or not at all.
LEMMA WriteStatusCases ==
    ASSUME Inv, NEW r \in Requests, WriteStatus(r)
    PROVE  /\ req[r].kind \in StatusKinds /\ req[r].order \in Ordered
           /\ req[r].status \in OrderStatus
           /\ req[r].kind = "changeStatus" => canTransitionTo(old[r], req[r].status)
           /\ pc[r] = "writeStatus"
           /\ UNCHANGED <<product, hasCart, cart, coupon, req, locals, history>>
           /\ \/ /\ order' = [order EXCEPT ![req[r].order].status = req[r].status]
                 /\ pc' = [pc EXCEPT ![r] = "done"]
              \/ order' = order /\ pc' = [pc EXCEPT ![r] = "failed"]
<1>1. Placed(r) /\ WellFormed(req[r]) /\ pc[r] = "writeStatus"
  BY RequestsAreWellFormed DEF Inv, Locals, WriteStatus
<1> QED BY <1>1 DEF Placed, WellFormed, WriteStatus, Goto

\* It changes nothing else.
LEMMA StatusChangesOnly ==
    ASSUME Inv, NEW r \in Requests, WriteStatus(r)
    PROVE  /\ Ordered' = Ordered /\ order' = [s \in Requests |-> order'[s]] /\ OrdersStay
           /\ \A s \in Ordered : IsOrder(order'[s]) /\ order'[s].coupon = order[s].coupon
           /\ \A s \in Requests \ {req[r].order} : order'[s] = order[s]
<1> DEFINE o == req[r].order
<1>1. CASE order' = order
  BY <1>1 DEF Inv, Tables, OrdersStay, Ordered
<1>2. CASE order' = [order EXCEPT ![o].status = req[r].status]
  <2>1. /\ Ordered' = Ordered /\ order' = [s \in Requests |-> order'[s]]
        /\ \A s \in Requests \ {o} : order'[s] = order[s]
        /\ IsOrder(order'[o]) /\ order'[o].items = order[o].items
        /\ order'[o].tenant = order[o].tenant /\ order'[o].coupon = order[o].coupon
    BY <1>2, WriteStatusCases, StatusIsWritten
  <2> HIDE DEF o
  <2>2. \A s \in Ordered : IsOrder(order[s]) /\ s \in Requests
    BY DEF Inv, Tables, Ordered
  <2>3. \A s \in Ordered : /\ IsOrder(order'[s]) /\ order'[s].items = order[s].items
                          /\ order'[s].tenant = order[s].tenant
                          /\ order'[s].coupon = order[s].coupon
    BY <2>1, <2>2
  <2> QED BY <2>1, <2>3 DEF OrdersStay, o
<1> QED BY <1>1, <1>2, WriteStatusCases

\* So a status change keeps the invariant.
LEMMA WriteStatusKeeps == ASSUME Inv, NEW r \in Requests, WriteStatus(r) PROVE Inv'
<1> USE DEF locals, history
<1>1. /\ Placed(r) /\ Owes(r)
      /\ req[r].kind \in StatusKinds /\ req[r].order \in Ordered
      /\ req[r].status \in OrderStatus
      /\ UNCHANGED <<product, hasCart, cart, coupon, req, locals, history>>
      /\ \E end \in {"done", "failed"} : pc' = [pc EXCEPT ![r] = end]
  BY WriteStatusCases DEF Inv
<1>2. /\ Ordered' = Ordered /\ order' = [s \in Requests |-> order'[s]] /\ OrdersStay
      /\ \A s \in Ordered : IsOrder(order'[s])
  BY StatusChangesOnly
<1>3. \A s \in Requests \ {r} : Still(s)
  BY <1>1 DEF Inv, Locals, Still
<1>4. Locals'
  BY <1>1 DEF Inv, Locals, AtRest
<1>5. Placed(r)'
  BY <1>1, <1>2 DEF Inv, Locals, Placed
<1>6. Owes(r)'
  BY <1>1, <1>2 DEF Inv, Locals, Owes, StatusKinds, CheckoutTail
<1>7. Tables'
  <2>1. \A s \in Ordered' : /\ IsOrder(order'[s])
                            /\ \A q \in DOMAIN order'[s].items : product'[q].present
    BY <1>1, <1>2 DEF Inv, Tables, OrdersStay
  <2> QED BY <1>1, <1>2, <2>1 DEF Inv, Tables
<1> QED BY <1>1, <1>2, <1>3, <1>4, <1>5, <1>6, <1>7, OthersStay DEF Inv

\* An interrupted request keeps what it has not done.
LEMMA InterruptKeeps == ASSUME Inv, NEW r \in Requests, Interrupt(r) PROVE Inv'
<1> USE DEF Interrupt, Goto, locals, history
<1>1. Placed(r) /\ Owes(r)
  BY DEF Inv
<1>2. \A s \in Requests \ {r} : Still(s)
  BY DEF Inv, Locals, Still
<1>3. Ordered' = Ordered
  BY DEF Ordered
<1>4. Locals'
  BY DEF Inv, Locals, AtRest
<1>5. Placed(r)' /\ Owes(r)'
  BY <1>1, <1>3 DEF Inv, Locals, Placed, Owes, InFlight, AtRest, Steps
<1> QED BY <1>2, <1>4, <1>5, CartStepKeeps DEF Inv, Tables

\* What an administrator edits.
LEMMA EditKeeps ==
    ASSUME Inv, Edit, OrdersStay, Ordered' = Ordered, Tables'
    PROVE  Inv'
<1>1. Locals' /\ \A s \in Requests : Still(s)
  BY DEF Edit, locals, Inv, Locals, Still
<1>2. \A s \in Requests : Placed(s)' /\ Owes(s)'
  <2> SUFFICES ASSUME NEW s \in Requests PROVE Placed(s)' /\ Owes(s)'
    OBVIOUS
  <2>1. Placed(s) /\ Owes(s)
    BY DEF Inv
  <2>2. hasCart' = hasCart
    BY DEF Edit
  <2>3. Placed(s)'
    BY <1>1, <2>1, <2>2 DEF Placed, Still
  <2>4. Owes(s)'
    BY <1>1, <2>1 DEF Owes, Still, OrdersStay
  <2> QED BY <2>3, <2>4
<1> QED BY <1>1, <1>2 DEF Inv

\* An administrator may set any stock.
LEMMA SetStockKeeps == ASSUME Inv, NEW p \in Products, SetStock(p) PROVE Inv'
<1>1. PICK n \in Int : product' = [product EXCEPT ![p].stock = n]
  BY CheckoutConstants DEF SetStock
<1>2. Ordered' = Ordered /\ order' = order
  BY DEF SetStock, Ordered
<1> DEFINE row == [product[p] EXCEPT !.stock = n]
<1>3. product \in [Products -> [present: BOOLEAN, stock: Int]]
  BY DEF Inv, Tables
<1>4. row \in [present: BOOLEAN, stock: Int] /\ row.present = product[p].present
  BY <1>3
<1>5. product' = [product EXCEPT ![p] = row]
  BY <1>1
<1> HIDE DEF row
<1>6. /\ product' \in [Products -> [present: BOOLEAN, stock: Int]]
      /\ \A q \in Products : product'[q].present = product[q].present
  BY <1>3, <1>4, <1>5
<1>7. \A o \in Ordered' : /\ IsOrder(order'[o])
                          /\ \A q \in DOMAIN order'[o].items : product'[q].present
  BY <1>2, <1>6 DEF Inv, Tables, IsOrder, IsLines
<1>8. Tables'
  <2>1. restocked' \subseteq Products /\ since' = since /\ admin' \in Nat
    BY DEF Inv, Tables, SetStock, Edit
  <2>2. cart' = cart /\ hasCart' = hasCart /\ coupon' = coupon
    BY DEF SetStock, Edit
  <2> QED BY <1>2, <1>6, <1>7, <2>1, <2>2 DEF Inv, Tables
<1> QED BY <1>2, <1>8, EditKeeps DEF OrdersStay, SetStock

\* A product on an order cannot be deleted; its cart lines go with it.
LEMMA DeleteProductKeeps == ASSUME Inv, NEW p \in Products, DeleteProduct(p) PROVE Inv'
<1>1. Ordered' = Ordered /\ order' = order
  BY DEF DeleteProduct, Ordered
<1> DEFINE row == [product[p] EXCEPT !.present = FALSE]
<1>2. product \in [Products -> [present: BOOLEAN, stock: Int]]
  BY DEF Inv, Tables
<1>3. row \in [present: BOOLEAN, stock: Int]
  BY <1>2
<1>4. product' = [product EXCEPT ![p] = row]
  BY DEF DeleteProduct
<1> HIDE DEF row
<1>5. /\ product' \in [Products -> [present: BOOLEAN, stock: Int]]
      /\ \A q \in Products \ {p} : product'[q] = product[q]
  BY <1>2, <1>3, <1>4
<1>6. \A o \in Ordered' : /\ IsOrder(order'[o])
                          /\ \A q \in DOMAIN order'[o].items : product'[q].present
  <2> SUFFICES ASSUME NEW o \in Ordered
               PROVE  /\ IsOrder(order[o])
                      /\ \A q \in DOMAIN order[o].items : product'[q].present
    BY <1>1
  <2>1. p \notin DOMAIN order[o].items
    BY DEF DeleteProduct
  <2>2. /\ IsOrder(order[o]) /\ DOMAIN order[o].items \subseteq Products
        /\ \A q \in DOMAIN order[o].items : product[q].present
    BY DEF Inv, Tables, IsOrder, IsLines
  <2> QED BY <1>5, <2>1, <2>2
<1>7. /\ cart' = [u \in Users |-> cart'[u]]
      /\ \A u \in Users : IsLines(cart'[u]) /\ (cart'[u] # NoLines => u \in hasCart)
  BY WithoutIsLines DEF Inv, Tables, DeleteProduct
<1>8. Tables'
  <2>1. restocked' \subseteq Products /\ since' = since /\ admin' \in Nat
    BY DEF Inv, Tables, DeleteProduct, Edit
  <2>2. hasCart' = hasCart /\ coupon' = coupon
    BY DEF DeleteProduct, Edit
  <2> QED BY <1>1, <1>5, <1>6, <1>7, <2>1, <2>2 DEF Inv, Tables
<1> QED BY <1>1, <1>8, EditKeeps DEF OrdersStay, DeleteProduct

\* Orders lose a deleted coupon and keep everything else.
LEMMA DeleteCouponOrders ==
    ASSUME Inv, DeleteCoupon
    PROVE  /\ Ordered' = Ordered /\ order' = [o \in Requests |-> order'[o]]
           /\ \A o \in Ordered : /\ IsOrder(order'[o])
                                 /\ order'[o].items = order[o].items
                                 /\ order'[o].tenant = order[o].tenant
                                 /\ order'[o].status = order[o].status
<1>1. order' = [o \in Requests |-> IF o \in Ordered THEN [order[o] EXCEPT !.coupon = FALSE]
                                   ELSE NoOrder]
  BY DEF DeleteCoupon
<1>2. \A o \in Ordered : /\ IsOrder(order'[o])
                         /\ order'[o].items = order[o].items
                         /\ order'[o].tenant = order[o].tenant
                         /\ order'[o].status = order[o].status
  <2> SUFFICES ASSUME NEW o \in Ordered
               PROVE  /\ IsOrder(order'[o])
                      /\ order'[o].items = order[o].items
                      /\ order'[o].tenant = order[o].tenant
                      /\ order'[o].status = order[o].status
    OBVIOUS
  <2>1. order'[o] = [order[o] EXCEPT !.coupon = FALSE]
    BY <1>1 DEF Ordered
  <2>2. IsOrder(order[o])
    BY DEF Inv, Tables
  <2> QED BY <2>1, <2>2 DEF IsOrder
<1>3. \A o \in Ordered : order'[o] # NoOrder
  BY <1>2 DEF IsOrder, NoOrder, OrderStatus
<1> QED BY <1>1, <1>2, <1>3 DEF Ordered

\* Deleting the coupon keeps the orders well formed.
LEMMA DeleteCouponKeeps == ASSUME Inv, DeleteCoupon PROVE Inv'
<1>1. OrdersStay /\ Ordered' = Ordered
  BY DeleteCouponOrders DEF OrdersStay
<1>2. \A o \in Ordered' : /\ IsOrder(order'[o])
                          /\ \A q \in DOMAIN order'[o].items : product'[q].present
  BY DeleteCouponOrders DEF Inv, Tables, DeleteCoupon
<1>3. coupon' \in [present: BOOLEAN, usage: Nat]
  BY DEF Inv, Tables, DeleteCoupon
<1>4. Tables'
  <2>1. restocked' \subseteq Products /\ since' = since /\ admin' \in Nat
    BY DEF Inv, Tables, DeleteCoupon, Edit
  <2>2. product' = product /\ cart' = cart /\ hasCart' = hasCart
    BY DEF DeleteCoupon, Edit
  <2> QED BY <1>1, <1>2, <1>3, <2>1, <2>2, DeleteCouponOrders DEF Inv, Tables
<1> QED BY <1>1, <1>4, EditKeeps DEF DeleteCoupon

\* Together.
LEMMA NextInv == ASSUME Inv, [Next]_vars PROVE Inv'
<1>1. ASSUME NEW r \in Requests, Progress(r) PROVE Inv'
  BY <1>1, FindCartKeeps, CreateCartKeeps, FindProductKeeps, UpdateItemKeeps, AddItemKeeps,
     RemoveItemKeeps, ClearItemsKeeps, GetCartKeeps, CreateOrderKeeps, IncrementUsageKeeps,
     ReadStockKeeps, WriteStockKeeps, FindOrderKeeps, WriteStatusKeeps
     DEF Progress, CartStep, OrderStep
<1>2. ASSUME Environment PROVE Inv'
  BY <1>2, SetStockKeeps, DeleteProductKeeps, DeleteCouponKeeps DEF Environment
<1>3. ASSUME UNCHANGED vars PROVE Inv'
  <2> USE <1>3 DEF vars, locals, history
  <2>1. Ordered' = Ordered
    BY DEF Ordered
  <2>2. Tables'
    BY <2>1 DEF Inv, Tables
  <2>3. Locals'
    BY DEF Inv, Locals
  <2>4. ASSUME NEW r \in Requests PROVE Placed(r)' /\ Owes(r)'
    BY <2>1 DEF Inv, Placed, Owes
  <2> QED BY <2>2, <2>3, <2>4 DEF Inv
<1> QED BY <1>1, <1>2, <1>3, StartKeeps, InterruptKeeps DEF Next

\* The invariant of every behaviour.
THEOREM CheckoutInv == Spec => []Inv
<1> QED BY InitInv, NextInv, PTL DEF Spec

\* Type correctness: no use case writes anything of the wrong kind, whatever
\* amounts, statuses and stock levels clients and administrators send.
THEOREM CheckoutTypes == Spec => []TypeOK
<1> QED BY CheckoutInv, InvSuffices, PTL

\* Only users with a cart have lines, and what a checkout has yet to write
\* off the stock is in its order, of products that are still there.
THEOREM ConsistentCheckouts == Spec => []CheckoutsAreConsistent
<1> QED BY CheckoutInv, InvSuffices, PTL

\* Most steps touch neither orders nor stock nor the coupon.
Quiet ==
    /\ UNCHANGED <<product, order, coupon, todo, read, restocked>>
    /\ \A r \in Requests : pc'[r] \in {"incrementUsage", "writeStock"} => pc'[r] = pc[r]
    /\ \A r \in Requests : todo[r] # {} => lines'[r] = lines[r]

\* These do.
Loud(r) ==
    \/ CreateOrder(r) \/ IncrementUsage(r) \/ ReadStock(r) \/ WriteStock(r) \/ WriteStatus(r)

\* A request that reads a cart owes nothing.
LEMMA ReadersOweNothing ==
    ASSUME Inv, NEW r \in Requests, pc[r] \in {"findCart", "createCart", "getCart"}
    PROVE  todo[r] = {}
BY DEF Inv, Owes

\* There are no others.
LEMMA QuietOrLoud ==
    ASSUME Inv, [Next]_vars
    PROVE  \/ Quiet
           \/ \E r \in Requests : Loud(r)
           \/ Environment
<1> USE DEF Quiet, Goto, locals, history, Inv, Locals
<1>1. ASSUME NEW r \in Requests, Start(r) PROVE Quiet
  <2>1. PICK input, first : Begin(r, input, first) /\ first \notin {"incrementUsage", "writeStock"}
    <3>1. CASE StartCartRequest(r)
      <4>1. CASE \E input : Begin(r, input, "findCart")
        BY <4>1
      <4>2. CASE \E input : Begin(r, input, IF input.kind = "clear" THEN "findCart"
                                            ELSE "createCart")
        BY <4>2
      <4> HIDE DEF Goto, locals, history
      <4> QED BY <3>1, <4>1, <4>2 DEF StartCartRequest
    <3>2. CASE StartCheckout(r)
      BY <3>2 DEF StartCheckout
    <3>3. CASE StartStatusChange(r)
      BY <3>3 DEF StartStatusChange
    <3> QED BY <1>1, <3>1, <3>2, <3>3 DEF Start
  <2> QED BY <2>1 DEF Begin
<1>2. ASSUME NEW r \in Requests, CartStep(r) PROVE Quiet
  <2>1. CASE FindCart(r)
    <3>1. PICK next : /\ next \notin {"incrementUsage", "writeStock"}
                      /\ pc' = [pc EXCEPT ![r] = next]
                      /\ \A s \in Requests \ {r} : lines'[s] = lines[s]
      BY <2>1, FindCartCases
    <3> QED BY <2>1, <3>1, ReadersOweNothing DEF FindCart
  <2>2. CASE CreateCart(r)
    BY <2>2, ReadersOweNothing DEF CreateCart
  <2>3. CASE FindProduct(r)
    BY <2>3 DEF FindProduct
  <2>4. CASE UpdateItem(r)
    BY <2>4 DEF UpdateItem
  <2>5. CASE AddItem(r)
    BY <2>5 DEF AddItem
  <2>6. CASE RemoveItem(r) \/ ClearItems(r)
    BY <2>6 DEF RemoveItem, ClearItems
  <2> QED BY <1>2, <2>1, <2>2, <2>3, <2>4, <2>5, <2>6 DEF CartStep
<1>3. ASSUME NEW r \in Requests, GetCart(r) \/ FindOrder(r) \/ Interrupt(r) PROVE Quiet
  BY <1>3, ReadersOweNothing DEF GetCart, FindOrder, Interrupt
<1>4. ASSUME UNCHANGED vars PROVE Quiet
  BY <1>4 DEF vars
<1> QED BY <1>1, <1>2, <1>3, <1>4 DEF Next, Progress, OrderStep, Loud

\* Orders stay whatever happens, and only creating one adds one.
LEMMA OrdersOnlyGrow ==
    ASSUME Inv, [Next]_vars
    PROVE  /\ OrdersStay
           /\ \A o \in Ordered' \ Ordered : o \in Requests /\ CreateOrder(o)
<1>1. CASE order' = order
  BY <1>1 DEF OrdersStay, Ordered
<1>2. ASSUME NEW r \in Requests, CreateOrder(r)
      PROVE  OrdersStay /\ \A o \in Ordered' \ Ordered : o = r
  <2>1. Owes(r)
    BY DEF Inv
  <2>2. r \notin Ordered
    BY <1>2, <2>1 DEF Owes, CreateOrder
  <2>3. \/ order' = order
        \/ order' = [order EXCEPT ![r] = NewOrder(r)] /\ Ordered' = Ordered \cup {r}
    BY <1>2, CreateOrderCases
  <2>4. CASE order' = [order EXCEPT ![r] = NewOrder(r)] /\ Ordered' = Ordered \cup {r}
    <3>1. \A o \in Ordered : order'[o] = order[o]
      BY <2>2, <2>4 DEF Inv, Tables
    <3> QED BY <2>4, <3>1 DEF OrdersStay
  <2>5. CASE order' = order
    BY <1>1, <2>5 DEF Ordered
  <2> QED BY <2>3, <2>4, <2>5
<1>3. ASSUME NEW r \in Requests, WriteStatus(r) PROVE OrdersStay /\ Ordered' = Ordered
  BY <1>3, StatusChangesOnly
<1>4. ASSUME DeleteCoupon PROVE OrdersStay /\ Ordered' = Ordered
  BY <1>4, DeleteCouponOrders DEF OrdersStay
<1>5. CASE Quiet
  BY <1>1, <1>5 DEF Quiet
<1>6. CASE Environment
  <2>1. CASE DeleteCoupon
    BY <1>4, <2>1
  <2>2. CASE \E p \in Products : SetStock(p) \/ DeleteProduct(p)
    BY <1>1, <2>2 DEF SetStock, DeleteProduct
  <2> QED BY <1>6, <2>1, <2>2 DEF Environment
<1>7. ASSUME NEW r \in Requests, Loud(r)
      PROVE  OrdersStay /\ \A o \in Ordered' \ Ordered : o \in Requests /\ CreateOrder(o)
  <2>1. CASE CreateOrder(r)
    BY <1>2, <2>1
  <2>2. CASE WriteStatus(r)
    BY <1>3, <2>2
  <2>3. CASE IncrementUsage(r) \/ ReadStock(r) \/ WriteStock(r)
    BY <1>1, <2>3 DEF IncrementUsage, ReadStock, WriteStock
  <2> QED BY <1>7, <2>1, <2>2, <2>3 DEF Loud
<1> QED BY <1>5, <1>6, <1>7, QuietOrLoud

------------------------------------------------------------------------------
(* Statuses *)

\* The table that changeStatus consults is the chain.
LEMMA TransitionsAreTheChain ==
    ASSUME NEW from, NEW to, canTransitionTo(from, to)
    PROVE  NextInChain(from, to)
<1>1. Len(Chain) = 4 /\ 1 .. 3 = {1, 2, 3}
  BY DEF Chain
<1>2. PICK i \in {1, 2, 3} : from = Chain[i] /\ to = Chain[i + 1]
  BY DEF canTransitionTo, Chain
<1> QED BY <1>1, <1>2 DEF NextInChain

\* An order's status leaves the chain only by an update that does not look at
\* it, or by a change that another one overtook.
THEOREM JumpsAreExplained == Spec => StatusJumpExplained
<1> DEFINE Explained(o) ==
        LET from == order[o].status
            to == order'[o].status
        IN  from # to /\ ~NextInChain(from, to) =>
               \E r \in Requests :
                   /\ At(r, "writeStatus") /\ pc'[r] = "done"
                   /\ req[r].order = o
                   /\ req[r].kind = "updateOrder" \/ old[r] # from
<1>1. ASSUME Inv, [Next]_vars, NEW o \in Ordered PROVE Explained(o)
  <2> USE <1>1
  <2>1. CASE order'[o].status = order[o].status
    BY <2>1
  <2>2. ASSUME NEW r \in Requests, WriteStatus(r) PROVE Explained(o)
    <3>1. /\ req[r].kind \in StatusKinds /\ req[r].order \in Ordered
          /\ req[r].status \in OrderStatus /\ pc[r] = "writeStatus"
          /\ req[r].kind = "changeStatus" => canTransitionTo(old[r], req[r].status)
          /\ \/ /\ order' = [order EXCEPT ![req[r].order].status = req[r].status]
                /\ pc' = [pc EXCEPT ![r] = "done"]
             \/ order' = order
      BY <2>2, WriteStatusCases
    <3>2. CASE order' = order
      BY <2>1, <3>2
    <3> SUFFICES ASSUME order' = [order EXCEPT ![req[r].order].status = req[r].status],
                        pc' = [pc EXCEPT ![r] = "done"]
                 PROVE  Explained(o)
      BY <3>1, <3>2
    <3>3. pc'[r] = "done"
      BY DEF Inv, Locals
    <3>4. \A s \in Requests \ {req[r].order} : order'[s] = order[s]
      BY <3>1, StatusIsWritten
    <3>5. order'[req[r].order].status = req[r].status
      BY <3>1, StatusIsWritten
    <3>6. CASE o # req[r].order
      BY <2>1, <3>4, <3>6 DEF Ordered
    <3>7. CASE o = req[r].order /\ req[r].kind = "updateOrder"
      BY <3>1, <3>3, <3>7
    <3>8. CASE o = req[r].order /\ req[r].kind = "changeStatus"
      <4>1. NextInChain(old[r], order'[o].status)
        BY <3>1, <3>5, <3>8, TransitionsAreTheChain
      <4> QED BY <3>1, <3>3, <3>8, <4>1
    <3> QED BY <3>1, <3>6, <3>7, <3>8 DEF StatusKinds
  <2>3. ASSUME NEW r \in Requests, CreateOrder(r) PROVE order'[o] = order[o]
    <3>1. Owes(r)
      BY DEF Inv
    <3>2. r \notin Ordered
      BY <2>3, <3>1 DEF Owes, CreateOrder
    <3>3. order' = order \/ order' = [order EXCEPT ![r] = NewOrder(r)]
      BY <2>3, CreateOrderCases
    <3> QED BY <3>2, <3>3 DEF Inv, Tables, Ordered
  <2>4. CASE DeleteCoupon
    BY <2>1, <2>4, DeleteCouponOrders
  <2>5. CASE order' = order
    BY <2>1, <2>5
  <2> HIDE DEF Explained
  <2>6. CASE Quiet
    BY <2>5, <2>6 DEF Quiet
  <2>7. CASE Environment
    BY <2>4, <2>5, <2>7 DEF Environment, SetStock, DeleteProduct
  <2>8. ASSUME NEW r \in Requests, Loud(r) PROVE Explained(o)
    BY <2>1, <2>2, <2>3, <2>5, <2>8 DEF Loud, IncrementUsage, ReadStock, WriteStock
  <2> QED BY <2>6, <2>7, <2>8, QuietOrLoud
<1>2. Inv /\ [Next]_vars => [\A o \in Ordered : Explained(o)]_vars
  BY <1>1
<1> QED BY <1>2, CheckoutInv, PTL DEF Spec, StatusJumpExplained

------------------------------------------------------------------------------
(* The coupon *)

\* Orders whose checkout has counted the coupon, or failed to.
Counted == {o \in Ordered : order[o].coupon /\ pc[o] # "incrementUsage"}

\* No more uses than those, and a checkout that is about to count the coupon
\* has its order.
CouponInv ==
    /\ coupon.present => coupon.usage <= Cardinality(Counted)
    /\ \A r \in Requests : pc[r] = "incrementUsage" =>
          r \in Ordered /\ (coupon.present => order[r].coupon)

\* There are finitely many.
LEMMA CountedIsFinite == IsFiniteSet(Counted) /\ Cardinality(Counted) \in Nat
<1>1. Counted \in SUBSET Requests
  BY DEF Counted, Ordered
<1> QED BY <1>1, CheckoutConstants, FS_Subset, FS_CardinalityType

\* A step that writes neither the coupon's row nor the coupon of an order
\* there is uncounts nothing.
LEMMA CouponStays ==
    ASSUME Inv, CouponInv, coupon' = coupon, Ordered \subseteq Ordered',
           \A o \in Ordered : order'[o].coupon = order[o].coupon,
           \A r \in Requests : pc'[r] = "incrementUsage" =>
              \/ pc[r] = "incrementUsage"
              \/ r \in Ordered' \ Ordered /\ order'[r].coupon
    PROVE  CouponInv'
<1>1. Counted \subseteq Counted'
  BY DEF Counted, Ordered
<1>2. IsFiniteSet(Counted)' /\ (Cardinality(Counted) \in Nat)'
  BY CountedIsFinite, PTL
<1>3. Cardinality(Counted) <= Cardinality(Counted')
  BY <1>1, <1>2, FS_Subset
<1>4. coupon.usage \in Nat /\ Cardinality(Counted) \in Nat
  BY CountedIsFinite DEF Inv, Tables
<1>5. coupon'.present => coupon'.usage <= Cardinality(Counted)'
  BY <1>2, <1>3, <1>4 DEF CouponInv
<1>6. \A r \in Requests : pc'[r] = "incrementUsage" =>
         r \in Ordered' /\ (coupon'.present => order'[r].coupon)
  BY DEF CouponInv
<1> QED BY <1>5, <1>6 DEF CouponInv

\* Every step keeps the coupon's count.
LEMMA NextCouponInv == ASSUME Inv, CouponInv, [Next]_vars PROVE CouponInv'
<1>1. CASE Quiet
  <2>1. Ordered' = Ordered
    BY <1>1 DEF Quiet, Ordered
  <2> QED BY <1>1, <2>1, CouponStays DEF Quiet
<1>2. ASSUME NEW r \in Requests, Loud(r) PROVE CouponInv'
  <2>1. CASE CreateOrder(r)
    <3>1. \A s \in Requests \ {r} : pc'[s] = pc[s]
      BY <2>1 DEF CreateOrder, Goto, Inv, Locals
    <3>2. coupon' = coupon
      BY <2>1 DEF CreateOrder
    <3>3. CASE order' = order /\ pc' = [pc EXCEPT ![r] = "failed"]
      <4>1. Ordered' = Ordered
        BY <3>3 DEF Ordered
      <4>2. pc'[r] = "failed"
        BY <3>3 DEF Inv, Locals
      <4> QED BY <3>1, <3>2, <3>3, <4>1, <4>2, CouponStays
    <3>4. CASE /\ order' = [order EXCEPT ![r] = NewOrder(r)] /\ Ordered' = Ordered \cup {r}
               /\ pc' = [pc EXCEPT ![r] = IF req[r].coupon THEN "incrementUsage"
                                          ELSE "readStock"]
      <4>1. r \notin Ordered
        BY <2>1 DEF Inv, Owes, CreateOrder
      <4>2. \A o \in Ordered : order'[o] = order[o]
        BY <3>4, <4>1 DEF Inv, Tables
      <4>3. order'[r].coupon = req[r].coupon
        BY <3>4 DEF NewOrder, Inv, Tables
      <4>4. pc'[r] = "incrementUsage" => req[r].coupon
        BY <3>4 DEF Inv, Locals
      <4> QED BY <3>1, <3>2, <3>4, <4>1, <4>2, <4>3, <4>4, CouponStays
    <3> QED BY <2>1, <3>3, <3>4, CreateOrderCases
  <2>2. CASE IncrementUsage(r)
    <3>1. /\ pc[r] = "incrementUsage" /\ order' = order
          /\ \/ /\ coupon.present /\ pc' = [pc EXCEPT ![r] = "readStock"]
                /\ coupon'.present /\ coupon'.usage = coupon.usage + 1
             \/ pc' = [pc EXCEPT ![r] = "failed"] /\ coupon' = coupon
      BY <2>2, IncrementUsageCases
    <3>2. Ordered' = Ordered
      BY <3>1 DEF Ordered
    <3>3. CASE pc' = [pc EXCEPT ![r] = "failed"] /\ coupon' = coupon
      BY <3>1, <3>2, <3>3, CouponStays DEF Inv, Locals
    <3>4. CASE /\ coupon.present /\ pc' = [pc EXCEPT ![r] = "readStock"]
               /\ coupon'.present /\ coupon'.usage = coupon.usage + 1
      <4>1. r \in Ordered /\ order[r].coupon
        BY <3>1, <3>4 DEF CouponInv
      <4>2. Counted' = Counted \cup {r} /\ r \notin Counted
        BY <3>1, <3>2, <3>4, <4>1 DEF Counted, Ordered, Inv, Locals
      <4>3. Cardinality(Counted') = Cardinality(Counted) + 1
        BY <4>2, CountedIsFinite, FS_AddElement
      <4>4. coupon.usage \in Nat /\ Cardinality(Counted) \in Nat
        BY CountedIsFinite DEF Inv, Tables
      <4>5. coupon'.usage <= Cardinality(Counted')
        BY <3>4, <4>3, <4>4 DEF CouponInv
      <4>6. \A s \in Requests : pc'[s] = "incrementUsage" =>
               s \in Ordered' /\ (coupon'.present => order'[s].coupon)
        BY <3>1, <3>2, <3>4 DEF CouponInv, Inv, Locals
      <4> QED BY <4>5, <4>6 DEF CouponInv
    <3> QED BY <3>1, <3>3, <3>4
  <2>3. CASE ReadStock(r) \/ WriteStock(r)
    <3>1. Ordered' = Ordered /\ order' = order /\ coupon' = coupon
      BY <2>3 DEF ReadStock, WriteStock, Ordered
    <3>2. \A s \in Requests : pc'[s] = "incrementUsage" => pc[s] = "incrementUsage"
      BY <2>3 DEF ReadStock, WriteStock, Goto, AfterItem, Inv, Locals
    <3> QED BY <3>1, <3>2, CouponStays
  <2>4. CASE WriteStatus(r)
    <3>1. /\ coupon' = coupon
          /\ \E end \in {"done", "failed"} : pc' = [pc EXCEPT ![r] = end]
      BY <2>4, WriteStatusCases
    <3>2. Ordered' = Ordered /\ \A o \in Ordered : order'[o].coupon = order[o].coupon
      BY <2>4, StatusChangesOnly
    <3>3. \A s \in Requests : pc'[s] = "incrementUsage" => pc[s] = "incrementUsage"
      BY <3>1 DEF Inv, Locals
    <3> QED BY <3>1, <3>2, <3>3, CouponStays
  <2> QED BY <1>2, <2>1, <2>2, <2>3, <2>4 DEF Loud
<1>3. CASE DeleteCoupon
  <2>1. ~coupon'.present /\ Ordered' = Ordered /\ pc' = pc
    BY <1>3, DeleteCouponOrders DEF DeleteCoupon, Edit, Inv, Tables
  <2> QED BY <2>1 DEF CouponInv
<1>4. ASSUME NEW p \in Products, SetStock(p) \/ DeleteProduct(p) PROVE CouponInv'
  <2>1. Ordered' = Ordered /\ order' = order /\ coupon' = coupon /\ pc' = pc
    BY <1>4 DEF SetStock, DeleteProduct, Edit, Ordered
  <2> QED BY <2>1, CouponStays
<1> QED BY <1>1, <1>2, <1>3, <1>4, QuietOrLoud DEF Environment

\* Whatever fails between an order and its coupon's increment, and whatever
\* other checkouts do meanwhile, no use is counted that no order stands for.
THEOREM UsesHaveOrders == Spec => []UsageNeverExceedsOrders
<1>1. Init => CouponInv
  <2> SUFFICES ASSUME Init PROVE CouponInv
    OBVIOUS
  <2>1. coupon.usage = 0 /\ \A r \in Requests : pc[r] # "incrementUsage"
    BY DEF Init
  <2> QED BY <2>1, CountedIsFinite DEF CouponInv
<1>2. Inv /\ CouponInv => UsageNeverExceedsOrders
  <2> SUFFICES ASSUME Inv, CouponInv, coupon.present PROVE UsageNeverExceedsOrders
    BY DEF UsageNeverExceedsOrders
  <2> DEFINE Using == {o \in Ordered : order[o].coupon}
  <2>1. Counted \subseteq Using /\ Using \in SUBSET Requests
    BY DEF Counted, Ordered
  <2>2. IsFiniteSet(Using) /\ Cardinality(Counted) <= Cardinality(Using)
    BY <2>1, CheckoutConstants, FS_Subset
  <2>3. Cardinality(Using) \in Nat
    BY <2>2, FS_CardinalityType
  <2>4. coupon.usage \in Nat /\ Cardinality(Counted) \in Nat
    BY CountedIsFinite DEF Inv, Tables
  <2> QED BY <2>2, <2>3, <2>4 DEF CouponInv, UsageNeverExceedsOrders
<1> QED BY <1>1, <1>2, CheckoutInv, NextCouponInv, PTL DEF Spec

------------------------------------------------------------------------------
(* The stock *)

\* The units of p in each order, and the orders that have written them off.
Amounts(p) == [o \in OrdersOf(p) |-> order[o].items[p]]
WrittenOff(p) == {o \in OrdersOf(p) : p \notin todo[o]}
OnlyPositive(p) == \A o \in OrdersOf(p) : order[o].items[p] > 0

\* Neither the stock of p nor what a checkout has read of it is below what
\* the orders that have written it off leave.
LeastStock(p) == InitialStock - Sum(Amounts(p), WrittenOff(p))
StockOf(p) ==
    /\ product[p].stock >= LeastStock(p)
    /\ \A r \in Requests :
          pc[r] = "writeStock" /\ read[r].product = p => read[r].stock >= LeastStock(p)
StockInv == \A p \in Products \ restocked : OnlyPositive(p) => StockOf(p)

\* There are finitely many orders, of whole numbers of units.
LEMMA OrdersAreFinite ==
    ASSUME Inv, NEW p \in Products
    PROVE  /\ IsFiniteSet(OrdersOf(p)) /\ IsFiniteSet(WrittenOff(p))
           /\ WrittenOff(p) \subseteq OrdersOf(p)
           /\ \A o \in OrdersOf(p) : Amounts(p)[o] \in Int
           /\ LeastStock(p) \in Int
<1>1. OrdersOf(p) \in SUBSET Requests /\ WrittenOff(p) \in SUBSET Requests
  BY DEF OrdersOf, Ordered, WrittenOff
<1>2. IsFiniteSet(OrdersOf(p)) /\ IsFiniteSet(WrittenOff(p))
  BY <1>1, CheckoutConstants, FS_Subset
<1>3. WrittenOff(p) \subseteq OrdersOf(p)
  BY DEF WrittenOff
<1>4. \A o \in OrdersOf(p) : Amounts(p)[o] \in Int
  BY DEF OrdersOf, Amounts, Inv, Tables, IsOrder, IsLines
<1>5. Sum(Amounts(p), WrittenOff(p)) \in Int
  BY <1>2, <1>3, <1>4, SumType
<1> QED BY <1>2, <1>3, <1>4, <1>5, CheckoutConstants DEF LeastStock

\* What is written off stays so while orders keep their items and checkouts
\* what they have to do.
LEMMA LeastStockStays ==
    ASSUME Inv, OrdersStay, NEW p \in Products,
           \A o \in Ordered : p \in todo'[o] <=> p \in todo[o],
           \A o \in Ordered' \ Ordered : todo'[o] = DOMAIN order'[o].items
    PROVE  LeastStock(p)' = LeastStock(p) /\ (OnlyPositive(p)' => OnlyPositive(p))
<1>1. WrittenOff(p)' = WrittenOff(p)
  BY DEF WrittenOff, OrdersOf, OrdersStay
<1>2. \A o \in OrdersOf(p) : o \in OrdersOf(p)' /\ order'[o].items = order[o].items
  BY DEF OrdersOf, OrdersStay
<1>3. \A o \in WrittenOff(p) : Amounts(p)[o] = Amounts(p)'[o]
  BY <1>2 DEF WrittenOff, Amounts
<1>4. Sum(Amounts(p), WrittenOff(p)) = Sum(Amounts(p)', WrittenOff(p))
  BY <1>3, OrdersAreFinite, SumSame
<1>5. LeastStock(p)' = LeastStock(p)
  BY <1>1, <1>4 DEF LeastStock
<1>6. OnlyPositive(p)' => OnlyPositive(p)
  BY <1>2 DEF OnlyPositive
<1> QED BY <1>5, <1>6

\* So a step that changes neither a stock nor a reading of one keeps them.
LEMMA StockStays ==
    ASSUME Inv, StockInv, OrdersStay,
           restocked \subseteq restocked',
           \A p \in Products \ restocked' : product'[p].stock = product[p].stock,
           \A o \in Ordered : todo'[o] = todo[o],
           \A o \in Ordered' \ Ordered : todo'[o] = DOMAIN order'[o].items,
           \A r \in Requests : pc'[r] = "writeStock" => pc[r] = "writeStock" /\ read'[r] = read[r]
    PROVE  StockInv'
<1> SUFFICES ASSUME NEW p \in Products \ restocked', OnlyPositive(p)' PROVE StockOf(p)'
  BY DEF StockInv
<1>1. LeastStock(p)' = LeastStock(p) /\ OnlyPositive(p)
  BY LeastStockStays
<1>2. StockOf(p)
  BY <1>1 DEF StockInv
<1> QED BY <1>1, <1>2 DEF StockOf

\* A stock write moves the least stock and the stock by the same amount.
LEMMA WriteStockStock ==
    ASSUME Inv, StockInv, NEW r \in Requests, WriteStock(r)
    PROVE  StockInv'
<1> DEFINE q == read[r].product
<1>1. pc[r] = "writeStock" /\ Ordered' = Ordered /\ order' = order /\ restocked' = restocked
  BY DEF WriteStock, Ordered, history
<1>2. OrdersStay
  BY <1>1 DEF OrdersStay
<1>3. /\ q \in todo[r] /\ q \in Products /\ read[r].stock \in Int
      /\ q \in DOMAIN lines[r] /\ lines[r][q] \in Int
      /\ r \in Ordered /\ order[r].items = lines[r]
  BY <1>1, WhatIsRead
<1>4. /\ product'[q].stock = read[r].stock - lines[r][q]
      /\ \A p \in Products \ {q} : product'[p].stock = product[p].stock
  BY <1>3 DEF WriteStock, Inv, Tables
<1>5. /\ todo'[r] = todo[r] \ {q}
      /\ \A s \in Requests \ {r} : todo'[s] = todo[s] /\ read'[s] = read[s] /\ pc'[s] = pc[s]
  BY DEF WriteStock, Goto, Inv, Locals
<1>6. pc'[r] # "writeStock"
  BY DEF WriteStock, Goto, AfterItem, Inv, Locals
<1> SUFFICES ASSUME NEW p \in Products \ restocked, OnlyPositive(p)' PROVE StockOf(p)'
  BY <1>1 DEF StockInv
<1>7. CASE p # q
  <2>1. \A o \in Ordered : p \in todo'[o] <=> p \in todo[o]
    BY <1>5, <1>7 DEF Ordered
  <2>2. LeastStock(p)' = LeastStock(p) /\ OnlyPositive(p)
    BY <1>1, <1>2, <2>1, LeastStockStays
  <2> QED BY <1>4, <1>5, <1>6, <1>7, <2>2 DEF StockInv, StockOf
<1>8. CASE p = q
  <2>1. OrdersOf(p)' = OrdersOf(p) /\ Amounts(p)' = Amounts(p)
    BY <1>1 DEF OrdersOf, Amounts
  <2>2. OnlyPositive(p)
    BY <1>1, <2>1 DEF OnlyPositive
  <2>3. StockOf(p)
    BY <2>2 DEF StockInv
  <2>4. r \in OrdersOf(p) /\ r \notin WrittenOff(p) /\ Amounts(p)[r] = lines[r][q]
    BY <1>3, <1>8 DEF OrdersOf, WrittenOff, Amounts
  <2>5. WrittenOff(p)' = WrittenOff(p) \cup {r}
    BY <1>5, <1>8, <2>1, <2>4 DEF WrittenOff, OrdersOf, Ordered
  <2>6. Sum(Amounts(p), WrittenOff(p) \cup {r}) = lines[r][q] + Sum(Amounts(p), WrittenOff(p))
    BY <2>4, OrdersAreFinite, SumAdd
  <2>7. Sum(Amounts(p), WrittenOff(p)) \in Int
    BY OrdersAreFinite, SumType
  <2>8. LeastStock(p)' = LeastStock(p) - lines[r][q]
    BY <1>3, <2>1, <2>5, <2>6, <2>7, CheckoutConstants DEF LeastStock
  <2>9. lines[r][q] > 0 /\ LeastStock(p) \in Int
    BY <2>2, <2>4, OrdersAreFinite DEF OnlyPositive, Amounts
  <2>10. read[r].stock >= LeastStock(p)
    BY <1>1, <1>8, <2>3 DEF StockOf
  <2>11. product'[p].stock >= LeastStock(p)'
    BY <1>3, <1>4, <1>8, <2>8, <2>9, <2>10
  <2>12. ASSUME NEW s \in Requests, pc'[s] = "writeStock", read'[s].product = p
         PROVE  read'[s].stock >= LeastStock(p)'
    <3>1. s # r /\ pc[s] = "writeStock" /\ read[s].product = p /\ read'[s] = read[s]
      BY <1>5, <1>6, <2>12
    <3>2. read[s].stock >= LeastStock(p) /\ read[s].stock \in Int
      BY <2>3, <3>1, WhatIsRead DEF StockOf
    <3> QED BY <1>3, <2>8, <2>9, <3>1, <3>2
  <2> QED BY <2>11, <2>12 DEF StockOf
<1> QED BY <1>7, <1>8

\* An order whose item is passed over counts as having written it off: the
\* least stock falls, and the stock stays.
LEMMA WrittenOffGrows ==
    ASSUME Inv, NEW p \in Products, NEW r \in Ordered, p \in DOMAIN order[r].items,
           p \in todo[r], order' = order, OnlyPositive(p),
           todo' = [todo EXCEPT ![r] = @ \ {p}]
    PROVE  LeastStock(p)' <= LeastStock(p) /\ LeastStock(p)' \in Int
<1>1. OrdersOf(p)' = OrdersOf(p) /\ Amounts(p)' = Amounts(p)
  BY DEF OrdersOf, Amounts, Ordered
<1>2. r \in OrdersOf(p) /\ r \notin WrittenOff(p)
  BY DEF OrdersOf, WrittenOff
<1>3. WrittenOff(p)' = WrittenOff(p) \cup {r}
  BY <1>1, <1>2 DEF WrittenOff, OrdersOf, Ordered, Inv, Locals
<1>4. Sum(Amounts(p), WrittenOff(p) \cup {r}) = Amounts(p)[r] + Sum(Amounts(p), WrittenOff(p))
  BY <1>2, OrdersAreFinite, SumAdd
<1>5. Amounts(p)[r] > 0 /\ Amounts(p)[r] \in Int
  BY <1>2, OrdersAreFinite DEF OnlyPositive, Amounts
<1>6. Sum(Amounts(p), WrittenOff(p)) \in Int
  BY OrdersAreFinite, SumType
<1> QED BY <1>1, <1>3, <1>4, <1>5, <1>6, CheckoutConstants DEF LeastStock

\* What is read is the stock, and what is passed over lowers no stock.
LEMMA ReadStockStock ==
    ASSUME Inv, StockInv, NEW r \in Requests, ReadStock(r)
    PROVE  StockInv'
<1>1. /\ product' = product /\ restocked' = restocked /\ order' = order /\ Ordered' = Ordered
      /\ OrdersStay
  BY DEF ReadStock, Ordered, OrdersStay, history
<1>2. PICK q \in todo[r] :
              \/ /\ Found(req[r].tenant, q) /\ todo' = todo
                 /\ pc' = [pc EXCEPT ![r] = "writeStock"]
                 /\ read' = [read EXCEPT ![r] = [product |-> q, stock |-> product[q].stock]]
              \/ /\ ~Found(req[r].tenant, q) /\ todo' = [todo EXCEPT ![r] = @ \ {q}]
                 /\ pc' = [pc EXCEPT ![r] = IF todo[r] = {q} THEN "findCart"
                                            ELSE "readStock"]
                 /\ read' = read
  BY ReadStockCases
<1>3. q \in Products /\ r \in Ordered /\ q \in DOMAIN order[r].items
  BY DEF Inv, Locals, Owes
<1> SUFFICES ASSUME NEW p \in Products \ restocked', OnlyPositive(p)' PROVE StockOf(p)'
  BY DEF StockInv
<1>4. OnlyPositive(p) /\ StockOf(p)
  <2>1. OnlyPositive(p)
    BY <1>1 DEF OnlyPositive, OrdersOf
  <2> QED BY <1>1, <2>1 DEF StockInv
<1>5. CASE todo' = todo /\ read' = [read EXCEPT ![r] = [product |-> q, stock |-> product[q].stock]]
  <2>1. LeastStock(p)' = LeastStock(p)
    BY <1>1, <1>5, LeastStockStays
  <2>2. \A s \in Requests \ {r} : pc'[s] = pc[s] /\ read'[s] = read[s]
    BY <1>2, <1>5 DEF Inv, Locals
  <2>3. read'[r].product = q /\ read'[r].stock = product[q].stock
    BY <1>5 DEF Inv, Locals
  <2> QED BY <1>1, <1>4, <2>1, <2>2, <2>3 DEF StockOf
<1>6. CASE /\ todo' = [todo EXCEPT ![r] = @ \ {q}] /\ read' = read
           /\ pc' = [pc EXCEPT ![r] = IF todo[r] = {q} THEN "findCart" ELSE "readStock"]
  <2>1. LeastStock(p)' <= LeastStock(p) /\ LeastStock(p)' \in Int
    <3>1. CASE p = q
      BY <1>1, <1>3, <1>4, <1>6, <3>1, WrittenOffGrows
    <3>2. CASE p # q
      <4>1. \A o \in Ordered : p \in todo'[o] <=> p \in todo[o]
        BY <1>6, <3>2 DEF Inv, Locals, Ordered
      <4>2. LeastStock(p)' = LeastStock(p)
        BY <1>1, <4>1, LeastStockStays
      <4> QED BY <4>2, OrdersAreFinite
    <3> QED BY <3>1, <3>2
  <2>2. LeastStock(p) \in Int
    BY OrdersAreFinite
  <2>3. \A s \in Requests : pc'[s] = "writeStock" => pc[s] = "writeStock" /\ s # r
    BY <1>6 DEF Inv, Locals, ReadStock
  <2>4. product[p].stock \in Int
    BY DEF Inv, Tables
  <2>5. \A s \in Requests : pc'[s] = "writeStock" => read[s].stock \in Int
    BY <2>3, WhatIsRead
  <2>6. product'[p].stock >= LeastStock(p)'
    BY <1>1, <1>4, <2>1, <2>2, <2>4 DEF StockOf
  <2>7. ASSUME NEW s \in Requests, pc'[s] = "writeStock", read'[s].product = p
        PROVE  read'[s].stock >= LeastStock(p)'
    BY <1>4, <1>6, <2>1, <2>2, <2>3, <2>5, <2>7 DEF StockOf
  <2> QED BY <2>6, <2>7 DEF StockOf
<1> QED BY <1>2, <1>5, <1>6

\* Every step keeps the stock's bound.
LEMMA NextStockInv == ASSUME Inv, StockInv, [Next]_vars PROVE StockInv'
<1>1. OrdersStay
  BY OrdersOnlyGrow
<1>2. CASE Quiet
  BY <1>1, <1>2, StockStays DEF Quiet, Ordered
<1>3. ASSUME NEW r \in Requests, Loud(r) PROVE StockInv'
  <2>1. CASE CreateOrder(r)
    <3>1. product' = product /\ restocked' = restocked /\ read' = read
      BY <2>1 DEF CreateOrder, history
    <3>2. \A s \in Requests : pc'[s] = "writeStock" => pc[s] = "writeStock"
      BY <2>1 DEF CreateOrder, Goto, Inv, Locals
    <3>3. r \notin Ordered
      BY <2>1 DEF Inv, Owes, CreateOrder
    <3>4. CASE order' = order /\ todo' = todo
      BY <1>1, <3>1, <3>2, <3>4, StockStays DEF Ordered
    <3>5. CASE /\ order' = [order EXCEPT ![r] = NewOrder(r)] /\ Ordered' = Ordered \cup {r}
               /\ todo' = [todo EXCEPT ![r] = DOMAIN lines[r]]
      <4>1. \A o \in Ordered : todo'[o] = todo[o]
        BY <3>3, <3>5 DEF Inv, Locals, Ordered
      <4>2. todo'[r] = DOMAIN order'[r].items
        BY <3>5 DEF NewOrder, Inv, Locals, Tables
      <4> QED BY <1>1, <3>1, <3>2, <3>5, <4>1, <4>2, StockStays
    <3> QED BY <2>1, <3>4, <3>5, CreateOrderCases
  <2>2. CASE IncrementUsage(r) \/ WriteStatus(r)
    <3>1. \A s \in Requests : pc'[s] = "writeStock" => pc[s] = "writeStock"
      BY <2>2 DEF IncrementUsage, WriteStatus, Goto, Inv, Locals
    <3>2. product' = product /\ restocked' = restocked /\ read' = read /\ todo' = todo
      BY <2>2 DEF IncrementUsage, WriteStatus, locals, history
    <3>3. Ordered' \subseteq Ordered
      <4>1. CASE IncrementUsage(r)
        BY <4>1 DEF IncrementUsage, Ordered
      <4>2. CASE WriteStatus(r)
        BY <4>2, StatusChangesOnly
      <4> QED BY <2>2, <4>1, <4>2
    <3> QED BY <1>1, <3>1, <3>2, <3>3, StockStays
  <2>3. CASE ReadStock(r)
    BY <2>3, ReadStockStock
  <2>4. CASE WriteStock(r)
    BY <2>4, WriteStockStock
  <2> QED BY <1>3, <2>1, <2>2, <2>3, <2>4 DEF Loud
<1>4. CASE Environment
  <2>1. pc' = pc /\ read' = read /\ todo' = todo
    BY <1>4 DEF Environment, SetStock, DeleteProduct, DeleteCoupon, Edit, locals
  <2>2. Ordered' \subseteq Ordered
    <3>1. CASE DeleteCoupon
      BY <3>1, DeleteCouponOrders
    <3>2. CASE \E p \in Products : SetStock(p) \/ DeleteProduct(p)
      BY <3>2 DEF SetStock, DeleteProduct, Ordered
    <3> QED BY <1>4, <3>1, <3>2 DEF Environment
  <2>3. /\ restocked \subseteq restocked'
        /\ \A p \in Products \ restocked' : product'[p].stock = product[p].stock
    <3>1. CASE DeleteCoupon
      BY <3>1 DEF DeleteCoupon
    <3>2. ASSUME NEW q \in Products, DeleteProduct(q) PROVE <2>3!:
      <4>1. /\ restocked' = restocked
            /\ product' = [product EXCEPT ![q].present = FALSE]
        BY <3>2 DEF DeleteProduct
      <4> QED BY <4>1 DEF Inv, Tables
    <3>3. ASSUME NEW q \in Products, SetStock(q) PROVE <2>3!:
      <4>1. PICK n : product' = [product EXCEPT ![q].stock = n]
        BY <3>3 DEF SetStock
      <4>2. restocked' = restocked \cup {q}
        BY <3>3 DEF SetStock
      <4> QED BY <4>1, <4>2 DEF Inv, Tables
    <3> QED BY <1>4, <3>1, <3>2, <3>3 DEF Environment
  <2> QED BY <1>1, <2>1, <2>2, <2>3, StockStays
<1> QED BY <1>2, <1>3, <1>4, QuietOrLoud

\* Checkouts that overwrite each other's stock, or fail half way, leave it
\* too high and never too low.
THEOREM StockIsNeverUnderstated == Spec => []StockNeverUnderstated
<1>1. Init => StockInv
  <2> SUFFICES ASSUME Init, NEW p \in Products PROVE StockOf(p)
    BY DEF StockInv
  <2>1. WrittenOff(p) = {} /\ IsFiniteSet({})
    BY FS_EmptySet DEF Init, WrittenOff, OrdersOf, Ordered
  <2>2. Sum(Amounts(p), {}) = 0
    BY <2>1, SumStep
  <2> QED BY <2>1, <2>2, CheckoutConstants DEF Init, StockOf, LeastStock
<1>2. Inv /\ StockInv => StockNeverUnderstated
  <2> SUFFICES ASSUME Inv, StockInv, NEW p \in Products \ restocked,
                      \A o \in Ordered : p \in DOMAIN order[o].items => order[o].items[p] > 0
               PROVE  product[p].stock >= InitialStock - UnitsOrdered(p)
    BY DEF StockNeverUnderstated
  <2>1. OnlyPositive(p)
    BY DEF OnlyPositive, OrdersOf
  <2>2. product[p].stock >= LeastStock(p) /\ product[p].stock \in Int
    BY <2>1 DEF StockInv, StockOf, Inv, Tables
  <2>3. UnitsOrdered(p) = Sum(Amounts(p), OrdersOf(p))
    BY DEF UnitsOrdered, SumFunction, Sum, Amounts
  <2>4. \A o \in OrdersOf(p) \ WrittenOff(p) : Amounts(p)[o] >= 0
    BY <2>1, OrdersAreFinite DEF OnlyPositive, Amounts
  <2>5. Sum(Amounts(p), WrittenOff(p)) <= Sum(Amounts(p), OrdersOf(p))
    BY <2>4, OrdersAreFinite, SumMore
  <2>6. Sum(Amounts(p), WrittenOff(p)) \in Int /\ Sum(Amounts(p), OrdersOf(p)) \in Int
    BY OrdersAreFinite, SumType
  <2> QED BY <2>2, <2>3, <2>5, <2>6, CheckoutConstants DEF LeastStock
<1> QED BY <1>1, <1>2, CheckoutInv, NextStockInv, PTL DEF Spec

------------------------------------------------------------------------------
(* The ledger *)

\* The stock, the debts and the sales as Ledger sees them, in steps that
\* touch none of the rows they are made of.
LEMMA OwedStays ==
    ASSUME Ordered' = Ordered, OrdersStay, \A o \in Ordered : todo'[o] = todo[o]
    PROVE  Owed' = Owed /\ Sold' = Sold
<1>1. \A o \in Ordered : OwedBy(o)' = OwedBy(o)
  BY DEF OwedBy, OrdersStay
<1>2. Owed' = Owed
  BY <1>1 DEF Owed
<1> QED BY <1>2 DEF Sold, OrdersStay

\* The stock is that of the products' rows.
LEMMA StockStaysSame ==
    ASSUME \A p \in Products : product'[p].stock = product[p].stock
    PROVE  Stock' = Stock
BY DEF Stock

\* A new order sells what it says, owes all of it, and nothing else moves.
LEMMA CreateOrderSells ==
    ASSUME Inv, NEW r \in Requests, CreateOrder(r)
    PROVE  Shop!Sell(r) \/ UNCHANGED <<Stock, Owed, Sold, admin>>
<1>1. /\ product' = product /\ lines' = lines /\ admin' = admin
      /\ lines[r] # NoLines /\ IsLines(lines[r])
  BY DEF CreateOrder, history, Inv, Owes, Locals
<1>2. Stock' = Stock
  BY <1>1 DEF Stock
<1>3. CASE order' = order /\ todo' = todo
  <2>1. Ordered' = Ordered /\ OrdersStay
    BY <1>3 DEF Ordered, OrdersStay
  <2> QED BY <1>1, <1>2, <1>3, <2>1, OwedStays
<1>4. CASE /\ order' = [order EXCEPT ![r] = NewOrder(r)]
           /\ todo' = [todo EXCEPT ![r] = DOMAIN lines[r]] /\ Ordered' = Ordered \cup {r}
  <2>1. r \notin Ordered
    BY DEF Inv, Owes, CreateOrder
  <2>2. /\ \A o \in Requests : o # r => order'[o] = order[o] /\ todo'[o] = todo[o]
                                      /\ (o \in Ordered' <=> o \in Ordered)
        /\ order'[r].items = lines[r] /\ todo'[r] = DOMAIN lines[r] /\ r \in Ordered'
    BY <1>4 DEF Inv, Tables, Locals, NewOrder
  <2>3. Sold[r] = NoLines /\ Sold' = [Sold EXCEPT ![r] = lines[r]] /\ Sold'[r] = lines[r]
    BY <2>1, <2>2 DEF Sold
  <2>4. \A o \in Ordered : o \in Requests /\ o # r /\ OwedBy(o)' = OwedBy(o)
    BY <2>1, <2>2 DEF OwedBy, Ordered
  <2>5. OwedBy(r)' = DOMAIN lines[r]
    BY <2>2 DEF OwedBy
  <2>6. Owed' = Owed \cup ({r} \X DOMAIN lines[r])
    <3> DEFINE debts(o) == {o} \X OwedBy(o)
    <3>1. Owed = UNION {debts(o) : o \in Ordered} /\ Owed' = UNION {debts(o)' : o \in Ordered'}
      BY DEF Owed
    <3>2. debts(r)' = {r} \X DOMAIN lines[r] /\ \A o \in Ordered : debts(o)' = debts(o)
      BY <2>4, <2>5
    <3> HIDE DEF debts
    <3> QED BY <1>4, <3>1, <3>2
  <2> QED BY <1>1, <1>2, <2>3, <2>6 DEF Shop!Sell, Shop!IsItems, Shop!Nothing, NoLines, IsLines
<1> QED BY <1>3, <1>4, CreateOrderCases

\* An item that is passed over belongs to another tenant and stays owed.
LEMMA ReadStockPaysNothing ==
    ASSUME Inv, NEW r \in Requests, ReadStock(r)
    PROVE  UNCHANGED <<Stock, Owed, Sold, admin>>
<1>1. UNCHANGED <<product, order, admin>> /\ Ordered' = Ordered
  BY DEF ReadStock, Ordered, history
<1>2. PICK q \in todo[r] :
              \/ todo' = todo
              \/ ~Found(req[r].tenant, q) /\ todo' = [todo EXCEPT ![r] = @ \ {q}]
  BY ReadStockCases
<1>3. /\ r \in Ordered /\ order[r].tenant = req[r].tenant
      /\ todo[r] \subseteq DOMAIN order[r].items
      /\ \A p \in todo[r] : product[p].present
  BY DEF Inv, Tables, Owes
<1>4. CASE todo' = todo
  BY <1>1, <1>4, OwedStays, StockStaysSame DEF OrdersStay
<1>5. CASE ~Found(req[r].tenant, q) /\ todo' = [todo EXCEPT ![r] = @ \ {q}]
  <2>1. Home[q] # order[r].tenant
    BY <1>3, <1>5 DEF Found
  <2>2. todo'[r] = todo[r] \ {q} /\ \A o \in Ordered \ {r} : todo'[o] = todo[o]
    BY <1>5 DEF Inv, Locals, Ordered
  <2>3. \A o \in Ordered : OwedBy(o)' = OwedBy(o)
    BY <1>1, <1>3, <2>1, <2>2 DEF OwedBy
  <2>4. Owed' = Owed
    BY <1>1, <2>3 DEF Owed
  <2>5. Sold' = Sold
    BY <1>1 DEF Sold
  <2> QED BY <1>1, <2>4, <2>5, StockStaysSame
<1> QED BY <1>2, <1>4, <1>5

\* A write of the stock crosses off the debt of the item; it is exact unless
\* the stock has changed since it was read.
LEMMA WriteStockPays ==
    ASSUME Inv, NEW r \in Requests, WriteStock(r)
    PROVE  LET q == read[r].product IN
           q \in Products /\ (Shop!WriteOff(r, q) \/ (LostUpdate(r) /\ Shop!MisWrite(r, q)))
<1> DEFINE q == read[r].product
<1>1. /\ pc[r] = "writeStock" /\ order' = order /\ lines' = lines /\ admin' = admin
      /\ Ordered' = Ordered
  BY DEF WriteStock, history, Ordered
<1>2. /\ q \in todo[r] /\ q \in Products /\ q \in DOMAIN lines[r]
      /\ r \in Ordered /\ order[r].items = lines[r] /\ Home[q] = order[r].tenant
  BY <1>1, WhatIsRead
<1>3. /\ product'[q].stock = read[r].stock - lines[r][q]
      /\ \A p \in Products \ {q} : product'[p].stock = product[p].stock
  BY <1>2 DEF WriteStock, Inv, Tables
<1>4. todo'[r] = todo[r] \ {q} /\ \A o \in Ordered \ {r} : todo'[o] = todo[o]
  BY DEF WriteStock, Inv, Locals, Ordered
<1>5. pc'[r] \notin {"writeStock", "failed"}
  BY DEF WriteStock, Goto, AfterItem, Inv, Locals
<1> HIDE DEF q
<1>6. OwedBy(r)' = OwedBy(r) \ {q} /\ q \in OwedBy(r)
  BY <1>1, <1>2, <1>4 DEF OwedBy
<1>7. \A o \in Ordered \ {r} : OwedBy(o)' = OwedBy(o)
  BY <1>1, <1>4 DEF OwedBy
<1>8. Owed' = Owed \ {<<r, q>>} /\ <<r, q>> \in Owed
  <2>1. ASSUME NEW o, NEW p
        PROVE  /\ <<o, p>> \in Owed <=> o \in Ordered /\ p \in OwedBy(o)
               /\ <<o, p>> \in Owed' <=> o \in Ordered /\ p \in OwedBy(o)'
    BY <1>1 DEF Owed
  <2>2. \A d \in Owed \cup Owed' : \E o, p : d = <<o, p>>
    BY DEF Owed
  <2>3. ASSUME NEW o, NEW p PROVE <<o, p>> \in Owed' <=> <<o, p>> \in Owed \ {<<r, q>>}
    <3>1. CASE o = r
      BY <1>2, <1>6, <2>1, <3>1
    <3>2. CASE o # r
      BY <1>7, <2>1, <3>2
    <3> QED BY <3>1, <3>2
  <2>4. <<r, q>> \in Owed
    BY <1>2, <1>6, <2>1
  <2> QED BY <2>2, <2>3, <2>4
<1>9. Stock' = [Stock EXCEPT ![q] = read[r].stock - lines[r][q]]
  BY <1>2, <1>3 DEF Stock
<1>10. Sold' = Sold /\ Sold[r] = lines[r]
  BY <1>1, <1>2 DEF Sold
<1>11. CASE product[q].stock = read[r].stock
  <2>1. Stock' = [Stock EXCEPT ![q] = @ - Sold[r][q]]
    BY <1>2, <1>9, <1>10, <1>11 DEF Stock
  <2>2. Shop!WriteOff(r, q)
    BY <1>1, <1>8, <1>10, <2>1 DEF Shop!WriteOff
  <2> QED BY <1>2, <2>2 DEF q
<1>12. CASE product[q].stock # read[r].stock
  <2>1. LostUpdate(r)
    BY <1>1, <1>5, <1>12 DEF LostUpdate, q
  <2>2. Stock' = [Stock EXCEPT ![q] = Stock'[q]]
    BY <1>2, <1>9 DEF Stock
  <2>3. Shop!MisWrite(r, q)
    BY <1>1, <1>8, <1>10, <2>2 DEF Shop!MisWrite
  <2> QED BY <1>2, <2>1, <2>3 DEF q
<1> QED BY <1>11, <1>12

\* Edits are edits.
LEMMA EnvironmentEdits ==
    ASSUME Inv, Environment PROVE Shop!EditByHand
<1>1. PICK p : \/ p \in Products /\ (SetStock(p) \/ DeleteProduct(p))
               \/ DeleteCoupon
  BY DEF Environment
<1>2. Edit
  BY <1>1 DEF SetStock, DeleteProduct, DeleteCoupon
<1>3. admin' = admin + 1 /\ todo' = todo
  BY <1>2 DEF Edit, locals
<1>4. Owed' = Owed /\ Sold' = Sold
  <2>1. CASE DeleteCoupon
    BY <1>3, <2>1, DeleteCouponOrders, OwedStays DEF OrdersStay
  <2>2. CASE order' = order
    BY <1>3, <2>2, OwedStays DEF Ordered, OrdersStay
  <2> QED BY <1>1, <2>1, <2>2 DEF SetStock, DeleteProduct
<1>5. CASE \A q \in Products : product'[q].stock = product[q].stock
  BY <1>3, <1>4, <1>5, StockStaysSame DEF Shop!EditByHand
<1>6. CASE p \in Products /\ SetStock(p)
  <2>1. \A q \in Products \ {p} : product'[q].stock = product[q].stock
    BY <1>6 DEF SetStock, Inv, Tables
  <2>2. Stock' = [Stock EXCEPT ![p] = Stock'[p]]
    BY <2>1 DEF Stock
  <2> QED BY <1>3, <1>4, <1>6, <2>2 DEF Shop!EditByHand
<1>7. CASE p \in Products /\ DeleteProduct(p)
  <2>1. \A q \in Products : product'[q].stock = product[q].stock
    BY <1>7 DEF DeleteProduct, Inv, Tables
  <2> QED BY <1>5, <2>1
<1>8. CASE DeleteCoupon
  BY <1>5, <1>8 DEF DeleteCoupon
<1> QED BY <1>1, <1>6, <1>7, <1>8

\* Every step of Checkout is one of Ledger, none, or a lost update.
LEMMA LedgerStep ==
    ASSUME Inv, [Next]_vars
    PROVE  \/ [Shop!Next]_<<Stock, Owed, Sold, admin>>
           \/ \E r \in Requests : LostUpdate(r) /\ Shop!MisWrite(r, read[r].product)
<1>1. CASE Quiet
  <2>1. Stock' = Stock /\ Owed' = Owed /\ Sold' = Sold
    BY <1>1, StockStaysSame, OwedStays DEF Quiet, Ordered, OrdersStay
  <2>2. Environment \/ admin' = admin
    BY DEF Next, Progress, vars, history, Start, StartCartRequest, StartCheckout,
       StartStatusChange, Begin, Interrupt, CartStep, OrderStep, FindCart, CreateCart,
       FindProduct, UpdateItem, AddItem, RemoveItem, ClearItems, GetCart, CreateOrder,
       IncrementUsage, ReadStock, WriteStock, FindOrder, WriteStatus
  <2> QED BY <2>1, <2>2, EnvironmentEdits DEF Shop!Next
<1>2. ASSUME NEW r \in Requests, Loud(r)
      PROVE  \/ Shop!Sell(r) \/ UNCHANGED <<Stock, Owed, Sold, admin>>
             \/ \E p \in Products : Shop!WriteOff(r, p)
             \/ LostUpdate(r) /\ Shop!MisWrite(r, read[r].product)
  <2>1. CASE CreateOrder(r)
    BY <2>1, CreateOrderSells
  <2>2. CASE WriteStock(r)
    BY <2>2, WriteStockPays
  <2>3. CASE ReadStock(r)
    BY <2>3, ReadStockPaysNothing
  <2>4. CASE IncrementUsage(r)
    BY <2>4, IncrementUsageCases, StockStaysSame, OwedStays
       DEF Ordered, OrdersStay, locals, history
  <2>5. CASE WriteStatus(r)
    BY <2>5, WriteStatusCases, StatusChangesOnly, StockStaysSame, OwedStays DEF locals, history
  <2> QED BY <1>2, <2>1, <2>2, <2>3, <2>4, <2>5 DEF Loud
<1> QED BY <1>1, <1>2, EnvironmentEdits, QuietOrLoud DEF Shop!Next

\* However many checkouts overlap, and wherever they are interrupted, stock
\* moves as in the ledger, but for the write of one item whose stock has
\* changed since it was read.
THEOREM CheckoutIsLedgerButForLostUpdates == Spec => LedgerButForLostUpdates
<1>1. Inv /\ [Next]_vars
      => [\/ Shop!Next
          \/ \E r \in Requests : /\ LostUpdate(r)
                                 /\ Shop!MisWrite(r, read[r].product)]_<<Stock, Owed, Sold, admin>>
  BY LedgerStep
<1> QED BY <1>1, CheckoutInv, PTL DEF Spec, LedgerButForLostUpdates

\* So lost updates are all that stands between Checkout and the ledger: a
\* behaviour without one implements it.
THEOREM CheckoutImplementsLedger ==
    Spec /\ [][\A r \in Requests : ~LostUpdate(r)]_vars => ImplementsLedger
<1>1. Init => Shop!Init
  <2> SUFFICES ASSUME Init PROVE Shop!Init
    OBVIOUS
  <2>1. Ordered = {} /\ admin = 0
    BY DEF Init, Ordered
  <2> QED BY <2>1 DEF Shop!Init, Sold, Owed, NoLines, Shop!Nothing
<1>2. Inv /\ [Next]_vars /\ [\A r \in Requests : ~LostUpdate(r)]_vars
      => [Shop!Next]_<<Stock, Owed, Sold, admin>>
  <2> SUFFICES ASSUME Inv, [Next]_vars, [\A r \in Requests : ~LostUpdate(r)]_vars
               PROVE  [Shop!Next]_<<Stock, Owed, Sold, admin>>
    OBVIOUS
  <2>1. ASSUME NEW r \in Requests, LostUpdate(r) PROVE pc' # pc
    BY <2>1 DEF LostUpdate
  <2>2. ASSUME NEW r \in Requests PROVE ~LostUpdate(r)
    BY <2>1, <2>2 DEF vars
  <2> QED BY <2>2, LedgerStep
<1> QED BY <1>1, <1>2, CheckoutInv, PTL DEF Spec, ImplementsLedger, Shop!Spec

------------------------------------------------------------------------------
(* Lines of carts *)

\* A checkout holds the lines that its customer's cart had, except those set
\* since.
HoldsCart(r) ==
    r \in CheckingOut(req[r].user) =>
        \A p \in DOMAIN cart[req[r].user] \ since[r] :
            p \in DOMAIN lines[r] /\ lines[r][p] = cart[req[r].user][p]

\* A checkout gets to the statements after getCart by it, and keeps its lines.
LEMMA HoldersStay ==
    ASSUME Inv, [Next]_vars, NEW s \in Requests, pc'[s] \in CheckoutTail,
           req'[s].kind = "checkout"
    PROVE  \/ GetCart(s)
           \/ pc[s] \in CheckoutTail /\ req'[s] = req[s] /\ lines'[s] = lines[s]
<1> DEFINE Stays == pc[s] \in CheckoutTail /\ req'[s] = req[s] /\ lines'[s] = lines[s]
<1> USE DEF Goto, locals, Inv, Locals, CheckoutTail
<1>1. Placed(s)
  OBVIOUS
<1>2. ASSUME NEW r \in Requests, Start(r) PROVE Stays
  <2>1. PICK input, first : /\ Begin(r, input, first)
                            /\ first \in CheckoutTail => input.kind # "checkout"
    <3>1. CASE StartCartRequest(r)
      BY <3>1 DEF StartCartRequest, AddRequest, ChangeRequest, RemoveRequest, CartRequest
    <3>2. CASE StartCheckout(r)
      BY <3>2 DEF StartCheckout
    <3>3. CASE StartStatusChange(r)
      BY <3>3 DEF StartStatusChange, StatusRequest
    <3> QED BY <1>2, <3>1, <3>2, <3>3 DEF Start
  <2> QED BY <2>1 DEF Begin
<1>3. ASSUME NEW r \in Requests, CartStep(r) PROVE Stays
  <2>1. CASE FindCart(r)
    <3>1. PICK next : /\ pc' = [pc EXCEPT ![r] = next]
                      /\ lines' = IF next = "findProduct"
                                  THEN [lines EXCEPT ![r] = cart[req[r].user]] ELSE lines
      BY <2>1, FindCartCases
    <3>2. req' = req /\ pc[r] = "findCart"
      BY <2>1 DEF FindCart
    <3> HIDE DEF Goto
    <3> QED BY <3>1, <3>2
  <2>2. CASE CreateCart(r)
    BY <1>1, <2>2 DEF CreateCart, Placed
  <2>3. CASE FindProduct(r)
    BY <2>3 DEF FindProduct
  <2>4. CASE UpdateItem(r)
    BY <2>4 DEF UpdateItem
  <2>5. CASE AddItem(r)
    BY <2>5 DEF AddItem
  <2>6. CASE RemoveItem(r) \/ ClearItems(r)
    BY <2>6 DEF RemoveItem, ClearItems
  <2> QED BY <1>3, <2>1, <2>2, <2>3, <2>4, <2>5, <2>6 DEF CartStep
<1>4. ASSUME NEW r \in Requests, GetCart(r) PROVE GetCart(s) \/ Stays
  BY <1>4 DEF GetCart
<1>5. ASSUME NEW r \in Requests,
             \/ CreateOrder(r) \/ IncrementUsage(r) \/ ReadStock(r) \/ WriteStock(r)
             \/ FindOrder(r) \/ WriteStatus(r) \/ Interrupt(r)
      PROVE  Stays
  BY <1>5 DEF CreateOrder, IncrementUsage, ReadStock, WriteStock, FindOrder, WriteStatus,
     Interrupt
<1>6. CASE Environment
  BY <1>6 DEF Environment, SetStock, DeleteProduct, DeleteCoupon, Edit
<1>7. CASE UNCHANGED vars
  BY <1>7 DEF vars
<1> QED BY <1>2, <1>3, <1>4, <1>5, <1>6, <1>7 DEF Next, Progress, OrderStep

\* The steps that write lines of carts.
LEMMA CartWrites ==
    ASSUME Inv, [Next]_vars
    PROVE  \/ cart' = cart /\ since' = since
           \/ \E v \in Users, q \in Products, n \in Int : SetLine(v, q, n)
           \/ \E r \in Requests : RemoveItem(r) \/ ClearItems(r)
           \/ \E q \in Products : DeleteProduct(q)
<1>1. ASSUME NEW r \in Requests, UpdateItem(r) \/ AddItem(r)
      PROVE  \/ cart' = cart /\ since' = since
             \/ \E v \in Users, q \in Products, n \in Int : SetLine(v, q, n)
  <2>1. req[r].kind \in {"add", "change"} /\ WellFormed(req[r])
    BY <1>1, RequestsAreWellFormed DEF Inv, Placed, Locals, UpdateItem, AddItem
  <2>2. req[r].user \in Users /\ req[r].product \in Products /\ req[r].amount \in Int
    BY <2>1 DEF WellFormed, CartKinds, LineKinds
  <2>3. Wanted(r) \in Int
    BY <2>2 DEF Wanted, AlreadyInCart, Inv, Locals, IsLines
  <2> QED BY <1>1, <2>2, <2>3 DEF UpdateItem, AddItem
<1>2. \/ cart' = cart /\ since' = since
      \/ \E r \in Requests : UpdateItem(r) \/ AddItem(r) \/ RemoveItem(r) \/ ClearItems(r)
      \/ \E q \in Products : DeleteProduct(q)
  <2> USE DEF history
  <2>1. ASSUME NEW r \in Requests, Start(r) PROVE cart' = cart /\ since' = since
    BY <2>1 DEF Start, StartCartRequest, StartCheckout, StartStatusChange, Begin
  <2>2. ASSUME NEW r \in Requests, Interrupt(r) \/ OrderStep(r)
        PROVE  cart' = cart /\ since' = since
    BY <2>2 DEF Interrupt, OrderStep, GetCart, CreateOrder, IncrementUsage, ReadStock,
       WriteStock, FindOrder, WriteStatus
  <2>3. ASSUME NEW r \in Requests, FindCart(r) \/ CreateCart(r) \/ FindProduct(r)
        PROVE  cart' = cart /\ since' = since
    BY <2>3 DEF FindCart, CreateCart, FindProduct
  <2>4. ASSUME DeleteCoupon \/ \E q \in Products : SetStock(q)
        PROVE  cart' = cart /\ since' = since
    BY <2>4 DEF DeleteCoupon, SetStock, Edit
  <2>5. ASSUME UNCHANGED vars PROVE cart' = cart /\ since' = since
    BY <2>5 DEF vars
  <2> QED BY <2>1, <2>2, <2>3, <2>4, <2>5 DEF Next, Progress, CartStep, Environment
<1> QED BY <1>1, <1>2

\* While a checkout holds a cart, a line that is there was there before, with
\* the same amount, or is noted as set since.
LEMMA CartsUnderCheckout ==
    ASSUME Inv, [Next]_vars, NEW s \in Requests, NEW u \in Users, s \in CheckingOut(u)
    PROVE  \A p \in DOMAIN cart'[u] \ since'[s] :
              p \in DOMAIN cart[u] \ since[s] /\ cart'[u][p] = cart[u][p]
<1> USE DEF Inv, Tables
<1>1. CASE cart' = cart /\ since' = since
  BY <1>1
<1>2. ASSUME NEW v \in Users, NEW q \in Products, NEW n \in Int, SetLine(v, q, n)
      PROVE  \A p \in DOMAIN cart'[u] \ since'[s] :
                p \in DOMAIN cart[u] \ since[s] /\ cart'[u][p] = cart[u][p]
  <2>1. CASE u = v
    <3>1. since'[s] = since[s] \cup {q}
      BY <1>2, <2>1 DEF SetLine
    <3>2. cart'[u] = [p \in DOMAIN cart[u] \cup {q} |-> IF p = q THEN n ELSE cart[u][p]]
      BY <1>2, <2>1 DEF SetLine
    <3> QED BY <3>1, <3>2
  <2>2. CASE u # v
    BY <1>2, <2>2 DEF SetLine
  <2> QED BY <2>1, <2>2
<1>3. ASSUME NEW r \in Requests, RemoveItem(r)
      PROVE  \A p \in DOMAIN cart'[u] \ since'[s] :
                p \in DOMAIN cart[u] \ since[s] /\ cart'[u][p] = cart[u][p]
  BY <1>3 DEF RemoveItem, Without, history
<1>4. ASSUME NEW r \in Requests, ClearItems(r)
      PROVE  \A p \in DOMAIN cart'[u] \ since'[s] :
                p \in DOMAIN cart[u] \ since[s] /\ cart'[u][p] = cart[u][p]
  BY <1>4 DEF ClearItems, NoLines, history
<1>5. ASSUME NEW q \in Products, DeleteProduct(q)
      PROVE  \A p \in DOMAIN cart'[u] \ since'[s] :
                p \in DOMAIN cart[u] \ since[s] /\ cart'[u][p] = cart[u][p]
  BY <1>5 DEF DeleteProduct, Edit, Without
<1> QED BY <1>1, <1>2, <1>3, <1>4, <1>5, CartWrites

\* So checkouts hold their carts.
LEMMA NextHoldsCart ==
    ASSUME Inv, \A r \in Requests : HoldsCart(r), [Next]_vars
    PROVE  \A r \in Requests : HoldsCart(r)'
<1> SUFFICES ASSUME NEW s \in Requests, pc'[s] \in CheckoutTail, req'[s].kind = "checkout",
                    NEW p \in DOMAIN cart'[req'[s].user] \ since'[s]
             PROVE  p \in DOMAIN lines'[s] /\ lines'[s][p] = cart'[req'[s].user][p]
  BY DEF HoldsCart, CheckingOut
<1>1. CASE GetCart(s)
  BY <1>1 DEF GetCart, Goto, CheckoutTail, Inv, Locals
<1>2. CASE pc[s] \in CheckoutTail /\ req'[s] = req[s] /\ lines'[s] = lines[s]
  <2>1. s \in CheckingOut(req[s].user)
    BY <1>2 DEF CheckingOut
  <2>2. req[s].user \in Users
    BY <1>2, RequestsAreWellFormed DEF Inv, Locals, WellFormed, CartKinds
  <2>3. /\ p \in DOMAIN cart[req[s].user] \ since[s]
        /\ cart'[req[s].user][p] = cart[req[s].user][p]
    BY <1>2, <2>1, <2>2, CartsUnderCheckout
  <2> QED BY <1>2, <2>1, <2>3 DEF HoldsCart
<1> QED BY <1>1, <1>2, HoldersStay

\* However requests overlap, a line leaves a cart only because it was removed,
\* was ordered in just that amount, or lost its product; or because it was set
\* while a checkout was under way that then cleared the cart.
THEOREM LinesLeaveWithReason == Spec => LinesLeaveForAReason
<1> DEFINE Explained(u, p) == p \notin DOMAIN cart'[u] =>
               \/ ~product'[p].present
               \/ \E r \in Requests : TakesLine(r, u, p) \/ WipesLine(r, u, p)
           Holds == \A r \in Requests : HoldsCart(r)
<1>1. ASSUME Inv, Holds, [Next]_vars, NEW u \in Users, NEW p \in DOMAIN cart[u]
      PROVE  Explained(u, p)
  <2> USE <1>1
  <2>1. ASSUME NEW r \in Requests, RemoveItem(r) PROVE Explained(u, p)
    <3>1. /\ cart' = [cart EXCEPT ![req[r].user] = Without(cart[req[r].user], req[r].product)]
          /\ pc[r] = "removeItem" /\ pc'[r] = "done"
      BY <2>1 DEF RemoveItem, Goto, Inv, Locals, Tables
    <3>2. CASE req[r].user = u /\ req[r].product = p
      BY <3>1, <3>2 DEF TakesLine
    <3>3. CASE req[r].user # u \/ req[r].product # p
      BY <3>1, <3>3 DEF Without, Inv, Tables
    <3> QED BY <3>2, <3>3
  <2>2. ASSUME NEW r \in Requests, ClearItems(r) PROVE Explained(u, p)
    <3>1. /\ cart' = [cart EXCEPT ![req[r].user] = NoLines]
          /\ pc[r] = "clearItems" /\ pc'[r] = "done"
      BY <2>2 DEF ClearItems, Goto, Inv, Locals
    <3>2. CASE req[r].user = u /\ req[r].kind = "clear"
      BY <3>1, <3>2 DEF TakesLine
    <3>3. CASE req[r].user = u /\ req[r].kind = "checkout" /\ p \in since[r]
      BY <3>1, <3>3 DEF WipesLine
    <3>4. CASE req[r].user = u /\ req[r].kind = "checkout" /\ p \notin since[r]
      <4>1. r \in CheckingOut(u)
        BY <3>1, <3>4 DEF CheckingOut, CheckoutTail
      <4>2. p \in DOMAIN lines[r] /\ lines[r][p] = cart[u][p]
        BY <3>4, <4>1 DEF HoldsCart
      <4>3. r \in Ordered /\ order[r].items = lines[r]
        BY <3>1, <3>4 DEF Inv, Owes
      <4>4. TakesLine(r, u, p)
        BY <3>1, <3>4, <4>2, <4>3 DEF TakesLine
      <4> QED BY <4>4
    <3>5. CASE req[r].user # u
      BY <3>1, <3>5 DEF Inv, Tables
    <3>6. req[r].kind \in {"clear", "checkout"}
      BY <3>1 DEF Inv, Placed
    <3> QED BY <3>2, <3>3, <3>4, <3>5, <3>6
  <2>3. ASSUME NEW q \in Products, DeleteProduct(q) PROVE Explained(u, p)
    <3>1. cart'[u] = Without(cart[u], q)
      BY <2>3 DEF DeleteProduct
    <3>2. ~product'[q].present
      BY <2>3 DEF DeleteProduct, Inv, Tables
    <3> QED BY <3>1, <3>2 DEF Without
  <2>4. ASSUME NEW v \in Users, NEW q \in Products, NEW n \in Int, SetLine(v, q, n)
        PROVE  Explained(u, p)
    BY <2>4 DEF SetLine, Inv, Tables
  <2> QED BY <2>1, <2>2, <2>3, <2>4, CartWrites
<1>2. Inv /\ Holds /\ [Next]_vars
      => [\A u \in Users : \A p \in DOMAIN cart[u] : Explained(u, p)]_vars
  BY <1>1
<1>3. Init => Holds
  BY DEF Init, HoldsCart, CheckingOut, CheckoutTail
<1>4. Inv /\ Holds /\ [Next]_vars => Holds'
  BY NextHoldsCart
<1> QED BY <1>2, <1>3, <1>4, CheckoutInv, PTL DEF Spec, LinesLeaveForAReason
===============================================================================

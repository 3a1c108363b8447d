------------------------------- MODULE Checkout -------------------------------
(***************************************************************************)
(* Carts, stock, orders and an order coupon, as the cart and order use     *)
(* cases change them.  Each HTTP request is an actor that runs one use     *)
(* case; every await is one action, nothing runs in a database             *)
(* transaction.  The count that validateCartTenant runs before a cart is   *)
(* written looks at no tenant and always finds the cart (carts are never   *)
(* deleted), so it is part of the write it guards.                         *)
(*                                                                         *)
(* A customer has one cart in all tenants.  Products, orders and the       *)
(* coupon belong to a tenant, and a request is made in one: a lookup       *)
(* misses the rows of the others.                                          *)
(*                                                                         *)
(* An order is named by the request that created it.                       *)
(***************************************************************************)
EXTENDS Integers, Sequences, FiniteSets, FiniteSetsExt

CONSTANTS
    Requests,       \* HTTP requests; each runs one use case, once
    Users,          \* customers; each has at most one cart
    Tenants,        \* shops that share the database
    Products,       \* products of all of them
    Home,           \* the tenant each product belongs to
    CouponHome,     \* the tenant the coupon belongs to
    Kinds,          \* bound: the kinds of request that arrive
    InitialStock,   \* units of each product in the beginning
    LineAmounts,    \* amounts in carts filled before
    AddAmounts,     \* amounts clients send to POST /cart/add
    NewAmounts,     \* amounts clients send to change a cart line
    StockInputs,    \* stock levels an administrator sets
    Coupons,        \* whether a checkout sends a coupon: subset of BOOLEAN
    StatusInputs,   \* order statuses administrators send
    MaxInFlight,    \* bound: requests in progress at the same time
    MaxAdmin        \* bound: edits of products and of the coupon

OrderStatus == {"PENDIENTE", "PAGADO", "ENVIADO", "ENTREGADO"}

RequestKinds == {"create", "add", "change", "remove", "clear", "checkout",
                 "changeStatus", "updateOrder"}

ASSUME CheckoutConstants ==
    /\ IsFiniteSet(Requests) /\ IsFiniteSet(Products)
    /\ Home \in [Products -> Tenants] /\ CouponHome \in Tenants
    /\ Kinds \subseteq RequestKinds
    /\ InitialStock \in Nat
    /\ LineAmounts \subseteq Int /\ AddAmounts \subseteq Int
    /\ NewAmounts \subseteq Int /\ StockInputs \subseteq Int
    /\ Coupons \subseteq BOOLEAN
    /\ StatusInputs \subseteq OrderStatus
    /\ MaxInFlight \in Nat \ {0} /\ MaxAdmin \in Nat

VARIABLES
    product,    \* rows of the products table: present, stock
    hasCart,    \* users with a row in the carts table
    cart,       \* the lines of each user's cart: amount by product
    order,      \* orders, by the request that created them
    coupon,     \* the coupon: present, usageCount
    req,        \* what each request asks for
    pc,         \* the statement each request runs next
    lines,      \* local: the cart lines a request has read
    todo,       \* local: ordered products whose stock is still to be written
    read,       \* local: the product row a checkout has read
    old,        \* local: the order status findById returned
    restocked,  \* history: products whose stock an administrator has set
    since,      \* history: lines others set in the cart a checkout has read
    admin       \* number of administrative edits so far

locals == <<lines, todo, read, old>>
history == <<restocked, since, admin>>
vars == <<product, hasCart, cart, order, coupon, req, pc, locals, history>>

------------------------------------------------------------------------------
(* Data *)

\* Lines of a cart, or items of an order: the amount by product.
IsLines(ls) == DOMAIN ls \subseteq Products /\ ls \in [DOMAIN ls -> Int]
NoLines == [p \in {} |-> 0]

IsOrder(o) ==
    /\ IsLines(o.items)
    /\ o \in [user: Users, tenant: Tenants, items: {o.items}, coupon: BOOLEAN,
              status: OrderStatus]
NoOrder == [status |-> "none"]
Ordered == {o \in Requests : order[o] # NoOrder}

NoRead == [stock |-> 0]

\* Only the statements on products, orders and the coupon look at the tenant.
AddRequest == [kind: {"add"}, user: Users, tenant: Tenants, product: Products,
               amount: AddAmounts]
ChangeRequest == [kind: {"change"}, user: Users, product: Products,
                  amount: NewAmounts]
CartRequest == [kind: {"create", "clear"}, user: Users]
RemoveRequest == [kind: {"remove"}, user: Users, product: Products]
CheckoutRequest == [kind: {"checkout"}, user: Users, tenant: Tenants,
                    coupon: Coupons]
StatusRequest == [kind: {"changeStatus", "updateOrder"}, tenant: Tenants,
                  order: Requests, status: StatusInputs]
NoRequest == [kind |-> "none"]

AtRest == {"idle", "done", "failed"}
Steps == {"findCart", "createCart", "findProduct", "addItem", "updateItem",
          "removeItem", "clearItems", "getCart", "createOrder",
          "incrementUsage", "readStock", "writeStock", "findOrder",
          "writeStatus"}

InFlight == {r \in Requests : pc[r] \notin AtRest}

\* The statements of a checkout that has read its customer's cart.
CheckoutTail == {"createOrder", "incrementUsage", "readStock", "writeStock",
                 "findCart", "clearItems"}
CheckingOut(u) == {r \in Requests : /\ pc[r] \in CheckoutTail
                                   /\ req[r].kind = "checkout"
                                   /\ req[r].user = u}

At(r, step) == pc[r] = step
Goto(r, step) == pc' = [pc EXCEPT ![r] = step]

\* order.entity.ts
canTransitionToAny(from, to) == TRUE   \* variant: the table is not consulted
canTransitionTo(from, to) ==
    <<from, to>> \in {<<"PENDIENTE", "PAGADO">>, <<"PAGADO", "ENVIADO">>,
                      <<"ENVIADO", "ENTREGADO">>}

------------------------------------------------------------------------------
(* A request arrives. *)

Begin(r, input, first) ==
    /\ At(r, "idle")
    /\ input.kind \in Kinds
    /\ Goto(r, first)
    /\ Cardinality(InFlight) < MaxInFlight
    /\ req' = [req EXCEPT ![r] = input]
    /\ UNCHANGED <<product, hasCart, cart, order, coupon, locals, history>>

\* PUT /cart/:id refuses an amount below 1 before it reads anything; /add
\* does not look at the amount it is sent.
StartCartRequest(r) ==
    \/ \E input \in AddRequest \cup RemoveRequest : Begin(r, input, "findCart")
    \/ \E input \in ChangeRequest :
          input.amount >= 1 /\ Begin(r, input, "findCart")
    \/ \E input \in CartRequest :
          Begin(r, input,
                IF input.kind = "clear" THEN "findCart" ELSE "createCart")

StartCheckout(r) == \E input \in CheckoutRequest : Begin(r, input, "getCart")

\* updateOrder writes the status without reading the order.
StartStatusChange(r) ==
    \E input \in StatusRequest :
        /\ input.order \in Ordered
        /\ Begin(r, input, IF input.kind = "changeStatus"
                           THEN "findOrder" ELSE "writeStatus")

------------------------------------------------------------------------------
(* The cart use cases.  A checkout ends with ClearCartUseCase, so it runs   *)
(* FindCart and ClearItems too.                                             *)

NextAfterFindCart(kind) ==
    CASE kind = "add" -> "findProduct"
      [] kind = "change" -> "updateItem"
      [] kind = "remove" -> "removeItem"
      [] OTHER -> "clearItems"

FindCart(r) ==
    LET u == req[r].user
        next == IF u \in hasCart THEN NextAfterFindCart(req[r].kind)
                ELSE IF req[r].kind = "add" THEN "createCart" ELSE "failed"
    IN  /\ At(r, "findCart")
        /\ Goto(r, next)
        /\ lines' = IF next = "findProduct" THEN [lines EXCEPT ![r] = cart[u]]
                    ELSE lines
        /\ UNCHANGED <<product, hasCart, cart, order, coupon, req, todo, read,
                       old, history>>

\* A user has one cart: a second insert violates the unique key and throws.
CreateCart(r) ==
    LET u == req[r].user IN
    /\ At(r, "createCart")
    /\ \/ /\ u \notin hasCart
          /\ Goto(r, IF req[r].kind = "add" THEN "findProduct" ELSE "done")
          /\ hasCart' = hasCart \cup {u}
          /\ lines' = [lines EXCEPT ![r] = NoLines]
       \/ /\ u \in hasCart
          /\ Goto(r, "failed")
          /\ UNCHANGED <<hasCart, lines>>
    /\ UNCHANGED <<product, cart, order, coupon, req, todo, read, old, history>>

AlreadyInCart(r) == req[r].product \in DOMAIN lines[r]

\* The amount the line is to have: for add, on top of the amount read.
Wanted(r) ==
    IF req[r].kind = "add" /\ AlreadyInCart(r)
    THEN lines[r][req[r].product] + req[r].amount
    ELSE req[r].amount

\* product.prisma-repository.ts findById: no product of another tenant.
Found(tenant, p) == product[p].present /\ Home[p] = tenant

FindProductRetry(r) ==   \* variant: wait until there is enough stock
    LET p == req[r].product IN
    /\ At(r, "findProduct")
    /\ IF Found(req[r].tenant, p) /\ product[p].stock >= Wanted(r)
       THEN Goto(r, IF AlreadyInCart(r) THEN "updateItem" ELSE "addItem")
       ELSE UNCHANGED pc
    /\ UNCHANGED <<product, hasCart, cart, order, coupon, req, locals, history>>

FindProduct(r) ==
    LET p == req[r].product
        enough == Found(req[r].tenant, p) /\ product[p].stock >= Wanted(r)
    IN  /\ At(r, "findProduct")
        /\ \/ enough /\ AlreadyInCart(r) /\ Goto(r, "updateItem")
           \/ enough /\ ~AlreadyInCart(r) /\ Goto(r, "addItem")
           \/ ~enough /\ Goto(r, "failed")
        /\ UNCHANGED <<product, hasCart, cart, order, coupon, req, locals,
                       history>>

SetLine(u, p, n) ==
    /\ cart' = [cart EXCEPT ![u] = [q \in DOMAIN cart[u] \cup {p} |->
                                       IF q = p THEN n ELSE cart[u][q]]]
    /\ since' = [r \in Requests |-> IF r \in CheckingOut(u)
                                    THEN since[r] \cup {p} ELSE since[r]]

\* update by the key (cart, product): throws when the line is gone.
UpdateItem(r) ==
    LET u == req[r].user
        p == req[r].product
    IN  /\ At(r, "updateItem")
        /\ \/ /\ p \in DOMAIN cart[u]
              /\ Goto(r, "done")
              /\ SetLine(u, p, Wanted(r))
           \/ /\ p \notin DOMAIN cart[u]
              /\ Goto(r, "failed")
              /\ UNCHANGED <<cart, since>>
        /\ UNCHANGED <<product, hasCart, order, coupon, req, locals,
                       restocked, admin>>

\* create: throws when the line exists by now, or the product does not.
AddItem(r) ==
    LET u == req[r].user
        p == req[r].product
        ok == p \notin DOMAIN cart[u] /\ product[p].present
    IN  /\ At(r, "addItem")
        /\ \/ /\ ok
              /\ Goto(r, "done")
              /\ SetLine(u, p, req[r].amount)
           \/ /\ ~ok
              /\ Goto(r, "failed")
              /\ UNCHANGED <<cart, since>>
        /\ UNCHANGED <<product, hasCart, order, coupon, req, locals,
                       restocked, admin>>

Without(ls, p) == [q \in DOMAIN ls \ {p} |-> ls[q]]

\* A line that is not there is no error.
RemoveItem(r) ==
    LET u == req[r].user IN
    /\ At(r, "removeItem")
    /\ Goto(r, "done")
    /\ cart' = [cart EXCEPT ![u] = Without(@, req[r].product)]
    /\ UNCHANGED <<product, hasCart, order, coupon, req, locals, history>>

ClearItemsEverywhere(r) ==   \* variant: deleteMany without the cart's id
    /\ At(r, "clearItems")
    /\ Goto(r, "done")
    /\ cart' = [u \in Users |-> NoLines]
    /\ UNCHANGED <<product, hasCart, order, coupon, req, locals, history>>

ClearItems(r) ==
    /\ At(r, "clearItems")
    /\ Goto(r, "done")
    /\ cart' = [cart EXCEPT ![req[r].user] = NoLines]
    /\ UNCHANGED <<product, hasCart, order, coupon, req, locals, history>>

------------------------------------------------------------------------------
(* POST /order: read the cart, create the order, count the coupon, write    *)
(* off the stock item by item, clear the cart.                              *)

GetCart(r) ==
    LET ls == cart[req[r].user] IN
    /\ At(r, "getCart")
    /\ \/ /\ ls # NoLines
          /\ Goto(r, "createOrder")
          /\ lines' = [lines EXCEPT ![r] = ls]
       \/ /\ ls = NoLines   \* also when there is no cart
          /\ Goto(r, "failed")
          /\ UNCHANGED lines
    /\ UNCHANGED <<product, hasCart, cart, order, coupon, req, todo, read, old,
                   history>>

CreateOrderSwallowing(r) ==   \* variant: a failed insert is not noticed
    /\ At(r, "createOrder")
    /\ Goto(r, IF req[r].coupon THEN "incrementUsage" ELSE "readStock")
    /\ IF \A p \in DOMAIN lines[r] : product[p].present
       THEN order' = [order EXCEPT ![r] =
                        [user |-> req[r].user, tenant |-> req[r].tenant,
                         items |-> lines[r], coupon |-> req[r].coupon,
                         status |-> "PENDIENTE"]]
       ELSE UNCHANGED order
    /\ todo' = [todo EXCEPT ![r] = DOMAIN lines[r]]
    /\ UNCHANGED <<product, hasCart, cart, coupon, req, lines, read, old, history>>

\* One insert of the order and its items, which throws when the coupon's row
\* or an item's product is gone.  Stock, the coupon's limit and the tenants
\* of coupon and products are not looked at.
CreateOrder(r) ==
    LET in == req[r]
        items == lines[r]
        referencesExist == /\ in.coupon => coupon.present
                           /\ \A p \in DOMAIN items : product[p].present
    IN  /\ At(r, "createOrder")
        /\ \/ /\ referencesExist
              /\ Goto(r, IF in.coupon THEN "incrementUsage" ELSE "readStock")
              /\ order' = [order EXCEPT ![r] =
                              [user |-> in.user, tenant |-> in.tenant,
                               items |-> items, coupon |-> in.coupon,
                               status |-> "PENDIENTE"]]
              /\ todo' = [todo EXCEPT ![r] = DOMAIN items]
           \/ /\ ~referencesExist
              /\ Goto(r, "failed")
              /\ UNCHANGED <<order, todo>>
        /\ UNCHANGED <<product, hasCart, cart, coupon, req, lines, read, old,
                       history>>

IncrementUsageDown(r) ==   \* variant: the wrong sign
    /\ At(r, "incrementUsage")
    /\ Goto(r, "readStock")
    /\ coupon' = [coupon EXCEPT !.usage = @ - 1]
    /\ UNCHANGED <<product, hasCart, cart, order, req, locals, history>>

\* An atomic increment, which throws when the coupon's row is gone or another
\* tenant's: the order then exists, with its stock not written off and the
\* cart still full.
IncrementUsage(r) ==
    LET found == coupon.present /\ req[r].tenant = CouponHome IN
    /\ At(r, "incrementUsage")
    /\ \/ /\ found
          /\ Goto(r, "readStock")
          /\ coupon' = [coupon EXCEPT !.usage = @ + 1]
       \/ /\ ~found
          /\ Goto(r, "failed")
          /\ UNCHANGED coupon
    /\ UNCHANGED <<product, hasCart, cart, order, req, locals, history>>

AfterItem(left) == IF left = {} THEN "findCart" ELSE "readStock"

\* The next item of the cart, in whatever order the database returned them.
\* A product that is not found is passed over in silence: it is still there,
\* for the order item refers to it, but may be another tenant's.
ReadStock(r) ==
    /\ At(r, "readStock")
    /\ \E p \in todo[r] :
          \/ /\ Found(req[r].tenant, p)
             /\ Goto(r, "writeStock")
             /\ read' = [read EXCEPT ![r] = [product |-> p,
                                             stock |-> product[p].stock]]
             /\ UNCHANGED todo
          \/ /\ ~Found(req[r].tenant, p)
             /\ Goto(r, AfterItem(todo[r] \ {p}))
             /\ todo' = [todo EXCEPT ![r] = @ \ {p}]
             /\ UNCHANGED read
    /\ UNCHANGED <<product, hasCart, cart, order, coupon, req, lines, old, history>>

WriteStockAgain(r) ==   \* variant: the item stays on the list
    LET p == read[r].product IN
    /\ At(r, "writeStock")
    /\ Goto(r, "readStock")
    /\ product' = [product EXCEPT ![p].stock = read[r].stock - lines[r][p]]
    /\ read' = [read EXCEPT ![r] = NoRead]
    /\ UNCHANGED <<hasCart, cart, order, coupon, req, lines, todo, old, history>>

\* Written absolutely, from the stock read one statement ago.
WriteStock(r) ==
    LET p == read[r].product
        left == todo[r] \ {p}
    IN  /\ At(r, "writeStock")
        /\ product' = [product EXCEPT ![p].stock = read[r].stock - lines[r][p]]
        /\ todo' = [todo EXCEPT ![r] = left]
        /\ read' = [read EXCEPT ![r] = NoRead]
        /\ Goto(r, AfterItem(left))
        /\ UNCHANGED <<hasCart, cart, order, coupon, req, lines, old, history>>

------------------------------------------------------------------------------
(* PUT /order/changeStatus and PUT /order/:id *)

\* Neither route finds an order of another tenant.
OwnOrder(r) == order[req[r].order].tenant = req[r].tenant

FindOrder(r) ==
    LET st == order[req[r].order].status
        ok == OwnOrder(r) /\ canTransitionTo(st, req[r].status)
    IN  /\ At(r, "findOrder")
        /\ \/ /\ ok
              /\ Goto(r, "writeStatus")
              /\ old' = [old EXCEPT ![r] = st]
           \/ /\ ~ok
              /\ Goto(r, "failed")
              /\ UNCHANGED old
        /\ UNCHANGED <<product, hasCart, cart, order, coupon, req, lines, todo,
                       read, history>>

\* Orders are never deleted, so the update of an own order finds its row.
WriteStatus(r) ==
    /\ At(r, "writeStatus")
    /\ \/ /\ OwnOrder(r)
          /\ Goto(r, "done")
          /\ order' = [order EXCEPT ![req[r].order].status = req[r].status]
       \/ /\ ~OwnOrder(r)
          /\ Goto(r, "failed")
          /\ UNCHANGED order
    /\ UNCHANGED <<product, hasCart, cart, coupon, req, locals, history>>

------------------------------------------------------------------------------
\* A statement rejects or the process dies: what was written stays.
Interrupt(r) ==
    /\ r \in InFlight
    /\ Goto(r, "failed")
    /\ UNCHANGED <<product, hasCart, cart, order, coupon, req, locals, history>>

(* Edits by administrators, one statement each. *)

Edit ==
    /\ admin < MaxAdmin
    /\ Cardinality(InFlight) < MaxInFlight
    /\ admin' = admin + 1
    /\ UNCHANGED <<hasCart, req, pc, locals, since>>

SetStock(p) ==
    /\ Edit
    /\ product[p].present
    /\ \E n \in StockInputs : product' = [product EXCEPT ![p].stock = n]
    /\ restocked' = restocked \cup {p}
    /\ UNCHANGED <<cart, order, coupon>>

DeleteProductAnyway(p) ==   \* variant: order items do not restrict it
    /\ Edit
    /\ product[p].present
    /\ product' = [product EXCEPT ![p].present = FALSE]
    /\ cart' = [u \in Users |-> Without(cart[u], p)]
    /\ UNCHANGED <<order, coupon, restocked>>

\* Order items refer to their product, which then cannot be deleted; cart
\* lines go with it.
DeleteProduct(p) ==
    /\ Edit
    /\ product[p].present
    /\ \A o \in Ordered : p \notin DOMAIN order[o].items
    /\ product' = [product EXCEPT ![p].present = FALSE]
    /\ cart' = [u \in Users |-> Without(cart[u], p)]
    /\ UNCHANGED <<order, coupon, restocked>>

\* Orders that refer to the coupon are left without one.
DeleteCoupon ==
    /\ Edit
    /\ coupon.present
    /\ coupon' = [coupon EXCEPT !.present = FALSE]
    /\ order' = [o \in Requests |-> IF o \in Ordered
                                    THEN [order[o] EXCEPT !.coupon = FALSE]
                                    ELSE NoOrder]
    /\ UNCHANGED <<product, cart, restocked>>

------------------------------------------------------------------------------
\* Carts may have been filled before, within the stock.
Init ==
    /\ product = [p \in Products |-> [present |-> TRUE, stock |-> InitialStock]]
    /\ hasCart \in SUBSET Users
    /\ cart \in [Users -> UNION {[P -> {n \in LineAmounts : n <= InitialStock}] :
                                    P \in SUBSET Products}]
    /\ \A u \in Users \ hasCart : cart[u] = NoLines
    /\ order = [r \in Requests |-> NoOrder]
    /\ coupon = [present |-> TRUE, usage |-> 0]
    /\ req = [r \in Requests |-> NoRequest]
    /\ pc = [r \in Requests |-> "idle"]
    /\ lines = [r \in Requests |-> NoLines]
    /\ todo = [r \in Requests |-> {}]
    /\ read = [r \in Requests |-> NoRead]
    /\ old = [r \in Requests |-> "none"]
    /\ restocked = {}
    /\ since = [r \in Requests |-> {}]
    /\ admin = 0

Start(r) == StartCartRequest(r) \/ StartCheckout(r) \/ StartStatusChange(r)

CartStep(r) ==
    \/ FindCart(r) \/ CreateCart(r) \/ FindProduct(r) \/ UpdateItem(r)
    \/ AddItem(r) \/ RemoveItem(r) \/ ClearItems(r)

OrderStep(r) ==
    \/ GetCart(r) \/ CreateOrder(r) \/ IncrementUsage(r) \/ ReadStock(r)
    \/ WriteStock(r) \/ FindOrder(r) \/ WriteStatus(r)

Progress(r) == CartStep(r) \/ OrderStep(r)

Environment == (\E p \in Products : SetStock(p) \/ DeleteProduct(p)) \/ DeleteCoupon

Next ==
    \/ \E r \in Requests : Start(r) \/ Progress(r) \/ Interrupt(r)
    \/ Environment

Spec == Init /\ [][Next]_vars

\* Node runs the continuation of every settled await, so a request that can
\* take its next step eventually takes it; arrivals, edits and failures are
\* up to others.
FairSpec == Spec /\ \A r \in Requests : WF_vars(Progress(r))

------------------------------------------------------------------------------
(* Properties *)

TypeOK ==
    /\ product \in [Products -> [present: BOOLEAN, stock: Int]]
    /\ hasCart \subseteq Users
    /\ DOMAIN cart = Users /\ \A u \in Users : IsLines(cart[u])
    /\ DOMAIN order = Requests /\ \A o \in Ordered : IsOrder(order[o])
    /\ coupon \in [present: BOOLEAN, usage: Nat]
    /\ req \in [Requests -> AddRequest \cup ChangeRequest \cup CartRequest
                            \cup RemoveRequest \cup CheckoutRequest
                            \cup StatusRequest \cup {NoRequest}]
    /\ pc \in [Requests -> Steps \cup AtRest]
    /\ DOMAIN lines = Requests /\ \A r \in Requests : IsLines(lines[r])
    /\ todo \in [Requests -> SUBSET Products]
    /\ read \in [Requests -> [product: Products, stock: Int] \cup {NoRead}]
    /\ old \in [Requests -> OrderStatus \cup {"none"}]
    /\ restocked \subseteq Products
    /\ since \in [Requests -> SUBSET Products]
    /\ admin \in Nat

\* Only users with a cart have lines, and a checkout that still has stock to
\* write off has read those products' amounts and stored them in its order.
CheckoutsAreConsistent ==
    /\ \A u \in Users : cart[u] # NoLines => u \in hasCart
    /\ \A r \in Requests : todo[r] # {} =>
          /\ r \in Ordered /\ order[r].items = lines[r]
          /\ \A p \in DOMAIN lines[r] : product[p].present

OrdersOf(p) == {o \in Ordered : p \in DOMAIN order[o].items}
UnitsOrdered(p) == SumFunction([o \in OrdersOf(p) |-> order[o].items[p]])

\* Checkouts that overwrite each other's stock (or fail half way) only ever
\* leave it too high: what was there in the beginning, less the units of all
\* orders, is never more than the stock the shop shows.  A product whose
\* stock was set by hand, or ordered in a negative amount, is exempt.
StockNeverUnderstated ==
    \A p \in Products \ restocked :
        (\A o \in Ordered : p \in DOMAIN order[o].items => order[o].items[p] > 0)
        => product[p].stock >= InitialStock - UnitsOrdered(p)

\* A checkout counts the coupon after its order exists, and once: whatever
\* fails in between, no use is counted that no order stands for.
UsageNeverExceedsOrders ==
    coupon.present =>
        coupon.usage <= Cardinality({o \in Ordered : order[o].coupon})

Chain == <<"PENDIENTE", "PAGADO", "ENVIADO", "ENTREGADO">>
NextInChain(from, to) ==
    \E i \in 1 .. Len(Chain) - 1 : from = Chain[i] /\ to = Chain[i + 1]

\* An order's status moves other than one step along the chain only by
\* updateOrder, which never looks at it, or by a changeStatus that another
\* request overtook between its read and its write.
StatusJumpExplained ==
    [][\A o \in Ordered :
         LET from == order[o].status
             to == order'[o].status
         IN  from # to /\ ~NextInChain(from, to) =>
                \E r \in Requests :
                    /\ At(r, "writeStatus") /\ pc'[r] = "done"
                    /\ req[r].order = o
                    /\ req[r].kind = "updateOrder" \/ old[r] # from]_vars

\* The request r takes the line of p out of u's cart with a reason to.
TakesLine(r, u, p) ==
    /\ pc'[r] = "done" /\ req[r].user = u
    /\ \/ At(r, "removeItem") /\ req[r].product = p
       \/ At(r, "clearItems") /\ req[r].kind = "clear"
       \/ /\ At(r, "clearItems") /\ r \in Ordered
          /\ p \in DOMAIN order[r].items
          /\ order[r].items[p] = cart[u][p]

\* The checkout r wipes a line that was set after it had read the cart.
WipesLine(r, u, p) ==
    /\ At(r, "clearItems") /\ pc'[r] = "done"
    /\ req[r].kind = "checkout" /\ req[r].user = u
    /\ p \in since[r]

\* A line leaves a cart only because it was removed, was ordered in just that
\* amount, or lost its product; or unordered, because it was set while a
\* checkout of the same customer was between reading and clearing the cart.
LinesLeaveForAReason ==
    [][\A u \in Users : \A p \in DOMAIN cart[u] :
         p \notin DOMAIN cart'[u] =>
            \/ ~product'[p].present
            \/ \E r \in Requests : TakesLine(r, u, p) \/ WipesLine(r, u, p)]_vars

\* Every request is answered, checkouts' loop over the items of the cart
\* included: it ends in success or in an error.
EveryRequestEnds == \A r \in Requests : r \in InFlight ~> pc[r] \in AtRest

\* The rest is promised by the code and broken by it: see the README.

\* "Price and stock must be non-negative", "Insufficient stock": no product's
\* stock falls below zero.
StockNeverNegative == \A p \in Products : product[p].stock >= 0
==============================================================================

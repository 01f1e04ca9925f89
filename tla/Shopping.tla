------------------------------ MODULE Shopping ------------------------------
(***************************************************************************)
(* A customer's cart, the coupon on it and the order made of it:           *)
(* CartService, the coupons of CouponsService, and what                    *)
(* CheckoutService.createOrder and confirmPayment do to carts and coupons. *)
(*                                                                         *)
(* Every handler of CartService opens the active cart, works on what it    *)
(* read of it, and opens the cart again to answer.  Nothing is held in     *)
(* between: opening takes up to four statements, and the work is a write   *)
(* that does not ask whether the cart is still ACTIVE.  The transactions   *)
(* of createOrder and confirmPayment are one step here; Inventory has      *)
(* their statements.                                                       *)
(***************************************************************************)
EXTENDS Integers, FiniteSets
LOCAL INSTANCE FiniteSetsExt

CONSTANTS
  Users,         \* customers
  Variants,      \* product variants
  InitialStock,  \* InitialStock[v]: units of v on the shelf
  Coupons,       \* coupons
  Limit,         \* Limit[k]: usageLimit of coupon k, or Undefined for null
  LimitPerUser,  \* LimitPerUser[k]: usageLimitPerUser, or Undefined
  Quantities,    \* quantities a customer asks for
  Requests,      \* requests that can be under way at once
  MaxCarts,      \* bound on the carts of a customer
  MaxAsked,      \* bound on the units of a variant a customer asks for
  Undefined      \* a reference that is null

ASSUME StockAssumption == InitialStock \in [Variants -> Nat]
ASSUME QuantitiesAssumption == Quantities \subseteq Nat \ {0}
ASSUME LimitAssumption ==
  /\ Undefined \notin Nat
  /\ Limit \in [Coupons -> Nat \cup {Undefined}]
  /\ LimitPerUser \in [Coupons -> Nat \cup {Undefined}]

\* A cart is named by its customer and a number.
Carts == Users \X (1 .. MaxCarts)
Owner(c) == c[1]

ASSUME CartsAssumption == Undefined \notin Carts

\* Quantities of the variants; 0 where the cart has no such item: a cart has
\* one item of a variant at most.
Items == [Variants -> Nat]
NoItems == [v \in Variants |-> 0]

CartStatus == {"NONE", "ACTIVE", "CHECKED_OUT"}
VariantStatus == {"ACTIVE", "INACTIVE", "OUT_OF_STOCK"}
\* A deleted coupon is INACTIVE too; that it stays so is left out.
CouponStatus == {"ACTIVE", "INACTIVE"}

\* made: how many items of each variant were created in the cart; it stands for
\* the id of the last of them, which is the one that is there, if any.
Cart == [status: CartStatus, items: Items, made: Items, coupon: Coupons \cup {Undefined}]

\* listed: the variant's product is ACTIVE and not deleted.
Variant == [stock: Nat, status: VariantStatus, listed: BOOLEAN]

\* coupon: what the total was discounted with; paid: confirmed online.
Order == [items: Items, coupon: Coupons \cup {Undefined}, paid: BOOLEAN]

ASSUME OrderAssumption == Undefined \notin Order

VARIABLES
  cart,     \* cart[c]: status NONE until the row is created
  active,   \* active[u]: User.activeCartId
  variant,  \* variant[v]: the variant's row, as far as the cart looks at it
  coupon,   \* coupon[k]: the coupon's status
  order,    \* order[c]: the order made of cart c, at most one by its key
  usage,    \* usage[c]: the coupon of the order's CouponUsage row, if any
  request,  \* request[r]: what the handler under way has read, if any
  asked,    \* asked[c][v]: units of v that requests have put in cart c
  crossed   \* customers who have had two requests under way at once

vars == <<cart, active, variant, coupon, order, usage, request, asked, crossed>>

NoRequest == [op |-> "none"]

\* stage: "open" and "reopen" look for a cart, "new" and "renew" create one,
\* "point" and "repoint" store it in the user, "work" and "place" write.
\* getCart, clearCart and removeCoupon open the cart alike and use nothing that
\* they have read of it: a "get" is any of them, and shows which by what it does.
Request ==
  {NoRequest}
  \cup [op: {"get", "add", "update", "remove", "apply", "unapply",
             "checkout"},
        user: Users, variant: Variants, quantity: Quantities,
        coupon: Coupons \cup {Undefined},
        stage: {"open", "new", "point", "work", "place",
                "reopen", "renew", "repoint"},
        cart: Carts \cup {Undefined}, seen: Cart]

TypeOK ==
  /\ cart \in [Carts -> Cart]
  /\ active \in [Users -> Carts \cup {Undefined}]
  /\ variant \in [Variants -> Variant]
  /\ coupon \in [Coupons -> CouponStatus]
  /\ order \in [Carts -> Order \cup {Undefined}]
  /\ usage \in [Carts -> Coupons \cup {Undefined}]
  /\ request \in [Requests -> Request]
  /\ asked \in [Carts -> Items]
  /\ crossed \in SUBSET Users

NoCart == [status |-> "NONE", items |-> NoItems, made |-> NoItems, coupon |-> Undefined]
EmptyCart == [NoCart EXCEPT !.status = "ACTIVE"]

Init ==
  /\ cart = [c \in Carts |-> NoCart]
  /\ active = [u \in Users |-> Undefined]
  /\ variant = [v \in Variants |->
                  [stock |-> InitialStock[v], status |-> "ACTIVE", listed |-> TRUE]]
  /\ coupon = [k \in Coupons |-> "ACTIVE"]
  /\ order = [c \in Carts |-> Undefined]
  /\ usage = [c \in Carts |-> Undefined]
  /\ request = [r \in Requests |-> NoRequest]
  /\ asked = [c \in Carts |-> NoItems]
  /\ crossed = {}

ActiveCarts(u) == {c \in Carts : Owner(c) = u /\ cart[c].status = "ACTIVE"}

\* Mutant: a search that passes over empty carts.
FilledCarts(u) == {c \in ActiveCarts(u) : cart[c].items # NoItems}

\* The carts that getOrCreateActiveCart finds when activeCartId does not lead
\* to one.
FoundCarts(u) == ActiveCarts(u)

\* The cart that activeCartId points to can be used.
PointsToActive(u) == active[u] # Undefined /\ cart[active[u]].status = "ACTIVE"

shop == <<variant, coupon, order, usage>>

-----------------------------------------------------------------------------
(* Requests, and getOrCreateActiveCart.                                    *)

\* What a handler goes on to use of cart row c, as it has read it: an order is
\* made of it, and to add an item or to apply a coupon the items are asked.  The
\* handlers that write one item have its id.
Kept(op, c) ==
  CASE op = "checkout" -> [c EXCEPT !.made = NoItems]
    [] op = "add" -> [c EXCEPT !.coupon = Undefined]
    [] op = "apply" -> [c EXCEPT !.coupon = Undefined, !.made = NoItems]
    [] op \in {"update", "remove"} -> [NoCart EXCEPT !.made = c.made]
    [] OTHER -> NoCart

\* The request goes on: at stage s, with cart c as it is now.
Hold(r, s, c) ==
  request' = [request EXCEPT ![r].stage = s, ![r].cart = c,
                             ![r].seen = Kept(request[r].op, cart[c])]

At(r, stages) == request[r] # NoRequest /\ request[r].stage \in stages

End(r) == request' = [request EXCEPT ![r] = NoRequest]

Start(r, u, op, v, q, k, stage) ==
  /\ request[r] = NoRequest
  /\ request' = [request EXCEPT ![r] =
       [op |-> op, user |-> u, variant |-> v, quantity |-> q, coupon |-> k,
        stage |-> stage, cart |-> Undefined, seen |-> NoCart]]
  /\ crossed' = IF \E s \in Requests : request[s] # NoRequest /\ request[s].user = u
                THEN crossed \cup {u} ELSE crossed
  /\ UNCHANGED <<cart, active, asked, shop>>

\* getShippingRates: the cart is opened, as it is to answer.
OpenForRates(r, u, v, q) == Start(r, u, "get", v, q, Undefined, "reopen")

\* The checkout does not look at activeCartId.
Forced(op) == op = "checkout"

\* updateItem and removeItem look for the item alone, in an active cart.
SeeksItem(op) == op \in {"update", "remove"}

\* activeCartId leads to the cart.
OpenPointed(r) ==
  LET q == request[r]
  IN /\ At(r, {"open"})
     /\ ~Forced(q.op) /\ ~SeeksItem(q.op)
     /\ PointsToActive(q.user)
     /\ Hold(r, "work", active[q.user])
  /\ UNCHANGED <<cart, active, asked, crossed, shop>>

\* The search: an active cart, to be pointed to.  Which of several is the one
\* updated last is left open.
FindCart(r) ==
  LET q == request[r]
  IN /\ \/ At(r, {"open"}) /\ ~SeeksItem(q.op) /\ (Forced(q.op) \/ ~PointsToActive(q.user))
        \/ At(r, {"reopen"})
     /\ IF FoundCarts(q.user) = {}
        THEN request' = [request EXCEPT ![r].stage =
                           IF q.stage = "open" THEN "new" ELSE "renew"]
        ELSE \E c \in FoundCarts(q.user) :
               Hold(r, IF q.stage = "open" THEN "point" ELSE "repoint", c)
  /\ UNCHANGED <<cart, active, asked, crossed, shop>>

\* The search found none, some time ago.
CreateCart(r) ==
  /\ At(r, {"new", "renew"})
  /\ LET q == request[r]
     IN \E n \in 1 .. MaxCarts :
          LET c == <<q.user, n>>
          IN /\ cart[c].status = "NONE"
             /\ \A m \in 1 .. n - 1 : cart[<<q.user, m>>].status # "NONE"
             /\ cart' = [cart EXCEPT ![c] = EmptyCart]
             /\ request' = [request EXCEPT
                  ![r].stage = IF q.stage = "new" THEN "point" ELSE "repoint",
                  ![r].cart = c, ![r].seen = Kept(q.op, EmptyCart)]
  /\ UNCHANGED <<active, asked, crossed, shop>>

\* The cart is stored in the user; a handler that was answering is done.
PointToCart(r) ==
  /\ At(r, {"point", "repoint"})
  /\ LET q == request[r]
     IN /\ active' = [active EXCEPT ![q.user] = q.cart]
        /\ IF q.stage = "repoint" THEN End(r)
           ELSE request' = [request EXCEPT ![r].stage = "work"]
  /\ UNCHANGED <<cart, asked, crossed, shop>>

\* The work is done and the cart is opened again, to answer: what the request
\* was about does not matter any more.
Answer(r) ==
  request' = [request EXCEPT ![r] =
    [@ EXCEPT !.op = "get", !.coupon = Undefined, !.stage = "reopen",
              !.cart = Undefined, !.seen = NoCart]]

\* updateItem and removeItem: without such an item there is nothing to do.
FindItem(r) ==
  /\ At(r, {"open"})
  /\ LET q == request[r]
         found == {c \in ActiveCarts(q.user) : cart[c].items[q.variant] > 0}
     IN /\ SeeksItem(q.op)
        /\ IF found = {}
           THEN Answer(r)
           ELSE \E c \in found : Hold(r, "work", c)
  /\ UNCHANGED <<cart, active, asked, crossed, shop>>

\* A handler that throws, or whose statement fails.
GiveUp(r) ==
  /\ request[r] # NoRequest
  /\ End(r)
  /\ UNCHANGED <<cart, active, asked, crossed, shop>>

Working(r, op) == At(r, {"work"}) /\ request[r].op = op

-----------------------------------------------------------------------------
(* CartService.                                                            *)

\* ensureVariantCanBePurchased, with a quantity.
Purchasable(v, quantity) ==
  /\ variant[v].status = "ACTIVE"
  /\ variant[v].listed
  /\ variant[v].stock > 0
  /\ variant[v].stock >= quantity

SetItem(c, v, n) == cart' = [cart EXCEPT ![c].items[v] = n]

\* The units of v that u's requests have put in carts.
AskedOf(u, v) ==
  MapThenSumSet(LAMBDA c : asked[c][v], {c \in Carts : Owner(c) = u})

\* The units a request puts in cart c; capped to keep the instance finite.
Ask(c, v, n) ==
  /\ AskedOf(Owner(c), v) + n <= MaxAsked
  /\ asked' = [asked EXCEPT ![c][v] = @ + n]

\* The item that the request has read is still there: one taken out and put
\* back, or put in when the cart was emptied, has another id.
SameItem(q) ==
  /\ cart[q.cart].items[q.variant] > 0
  /\ cart[q.cart].made[q.variant] = q.seen.made[q.variant]

\* A cart has one item of a variant at most.
CreateItem(c, v, n) ==
  /\ cart[c].items[v] = 0
  /\ cart' = [cart EXCEPT ![c].items[v] = n, ![c].made[v] = @ + 1]

\* getCart: removeUnavailableItems.
DropUnavailable(r) ==
  /\ Working(r, "get")
  /\ LET c == request[r].cart
         kept == [v \in Variants |->
                    IF variant[v].status = "ACTIVE" /\ variant[v].listed
                    THEN cart[c].items[v] ELSE 0]
     IN cart' = [cart EXCEPT ![c].items = kept]
  /\ Answer(r)
  /\ UNCHANGED <<active, asked, crossed, shop>>

\* addItem: the quantity is computed from the cart as it was read.  An item
\* that was there is updated, and one that was not is created; either fails
\* when that has changed.
AddItem(r) ==
  /\ Working(r, "add")
  /\ LET q == request[r]
         v == q.variant
         next == q.seen.items[v] + q.quantity
     IN /\ Purchasable(v, next)
        /\ IF q.seen.items[v] > 0 THEN SameItem(q) /\ SetItem(q.cart, v, next)
           ELSE CreateItem(q.cart, v, next)
        /\ Ask(q.cart, v, q.quantity)
  /\ Answer(r)
  /\ UNCHANGED <<active, crossed, shop>>

UpdateItem(r) ==
  /\ Working(r, "update")
  /\ LET q == request[r]
     IN /\ Purchasable(q.variant, q.quantity)
        /\ SameItem(q)
        /\ SetItem(q.cart, q.variant, q.quantity)
        /\ Ask(q.cart, q.variant, q.quantity)
  /\ Answer(r)
  /\ UNCHANGED <<active, crossed, shop>>

RemoveItem(r) ==
  /\ Working(r, "remove")
  /\ SameItem(request[r])
  /\ SetItem(request[r].cart, request[r].variant, 0)
  /\ Answer(r)
  /\ UNCHANGED <<active, asked, crossed, shop>>

\* clearCart: the items, and in a second statement the coupon.
ClearItems(r) ==
  /\ Working(r, "get")
  /\ cart' = [cart EXCEPT ![request[r].cart].items = NoItems]
  /\ request' = [request EXCEPT ![r].op = "unapply"]
  /\ UNCHANGED <<active, asked, crossed, shop>>

\* The end of clearCart, and removeCoupon.
RemoveCoupon(r) ==
  /\ Working(r, "get") \/ Working(r, "unapply")
  /\ cart' = [cart EXCEPT ![request[r].cart].coupon = Undefined]
  /\ Answer(r)
  /\ UNCHANGED <<active, asked, crossed, shop>>

UsesOf(k) == {c \in Carts : usage[c] = k}

Below(n, limit) == limit # Undefined => n < limit

\* assertCouponValid; times and amounts are left to Pricing.
CouponUsable(k, u) ==
  /\ coupon[k] = "ACTIVE"
  /\ Below(Cardinality(UsesOf(k)), Limit[k])
  /\ Below(Cardinality({c \in UsesOf(k) : Owner(c) = u}), LimitPerUser[k])

ApplyCoupon(r) ==
  /\ Working(r, "apply")
  /\ LET q == request[r]
     IN /\ q.seen.items # NoItems
        /\ CouponUsable(q.coupon, q.user)
        /\ cart' = [cart EXCEPT ![q.cart].coupon = q.coupon]
  /\ Answer(r)
  /\ UNCHANGED <<active, asked, crossed, shop>>

-----------------------------------------------------------------------------
(* CheckoutService.                                                        *)

\* validateCartForCheckout, and the search for an order of the cart: one that
\* is found is the answer.
ValidateCart(r) ==
  /\ Working(r, "checkout")
  /\ LET q == request[r]
     IN /\ q.seen.items # NoItems
        /\ \A v \in Variants : q.seen.items[v] > 0 => Purchasable(v, q.seen.items[v])
        /\ q.seen.coupon # Undefined => CouponUsable(q.seen.coupon, q.user)
        /\ IF order[q.cart] # Undefined THEN End(r)
           ELSE request' = [request EXCEPT ![r].stage = "place"]
  /\ UNCHANGED <<cart, active, asked, crossed, shop>>

\* Mutant: the cart is left as it was.
Untouched(c) == cart[c]

\* The cart of an order: its items are deleted and its coupon is taken off.
Closed(c) ==
  [cart[c] EXCEPT !.status = "CHECKED_OUT", !.items = NoItems, !.coupon = Undefined]

\* Mutant: the user goes on pointing to the cart.
CloseOnly(c) ==
  /\ cart' = [cart EXCEPT ![c] = Closed(c)]
  /\ UNCHANGED active

\* An order takes the cart: it is closed, and no longer the user's.
CloseCart(c) ==
  /\ cart' = [cart EXCEPT ![c] = Closed(c)]
  /\ active' = [active EXCEPT ![Owner(c)] = IF @ = c THEN Undefined ELSE @]

Deducted(row, n) ==
  [row EXCEPT !.stock = @ - n,
              !.status = IF n = 0 THEN @ ELSE IF row.stock = n THEN "OUT_OF_STOCK" ELSE @]

Deduct(items) ==
  variant' = [v \in Variants |-> Deducted(variant[v], items[v])]

\* The transaction: the order is made of what was read, the cart is emptied of
\* what is there now.  The product is not asked again.
PlaceOrder(r) ==
  /\ At(r, {"place"})
  /\ LET q == request[r]
         c == q.cart
     IN /\ order[c] = Undefined
        /\ \A v \in Variants :
             q.seen.items[v] > 0 =>
               variant[v].status = "ACTIVE" /\ variant[v].stock >= q.seen.items[v]
        /\ order' = [order EXCEPT ![c] =
             [items |-> q.seen.items, coupon |-> q.seen.coupon, paid |-> FALSE]]
        /\ Deduct(q.seen.items)
        /\ CloseCart(c)
  /\ End(r)
  /\ UNCHANGED <<coupon, usage, asked, crossed>>

\* Mutant: a use is recorded again, whatever the cart says.
UsageOfOrder(c) == order[c].coupon

\* The coupon that confirmPayment finds on the order's cart.
UsageOfCart(c) == IF cart[c].coupon # Undefined THEN cart[c].coupon ELSE usage[c]

\* Mutant: the stock is not asked.
NotInactive(v, n) == variant[v].status # "INACTIVE"

\* What confirmPayment asks of the variant, whose stock has been reduced for
\* the order already.
StillThere(v, n) == variant[v].status # "INACTIVE" /\ variant[v].stock >= n

\* confirmPayment, of a payment made for the order later: the items are
\* deducted, and the cart is closed, once more.
ConfirmOrder(c) ==
  /\ order[c] # Undefined
  /\ ~order[c].paid
  /\ \A v \in Variants :
       order[c].items[v] > 0 => StillThere(v, order[c].items[v])
  /\ order' = [order EXCEPT ![c].paid = TRUE]
  /\ usage' = [usage EXCEPT ![c] = UsageOfCart(c)]
  /\ Deduct(order[c].items)
  /\ CloseCart(c)
  /\ UNCHANGED <<coupon, request, asked, crossed>>

-----------------------------------------------------------------------------
(* The admins, and the catalogue.                                          *)

\* CouponsService.update and delete, when they change the status.
SetCoupon(k, s) ==
  /\ coupon[k] # s
  /\ coupon' = [coupon EXCEPT ![k] = s]
  /\ UNCHANGED <<cart, active, variant, order, usage, request, asked, crossed>>

\* A variant goes off sale and comes back, or its product does.
ToggleVariant(v) ==
  /\ \/ /\ variant[v].status \in {"ACTIVE", "INACTIVE"}
        /\ variant' = [variant EXCEPT ![v].status =
                         IF @ = "ACTIVE" THEN "INACTIVE" ELSE "ACTIVE"]
     \/ variant' = [variant EXCEPT ![v].listed = ~@]
  /\ UNCHANGED <<cart, active, coupon, order, usage, request, asked, crossed>>

-----------------------------------------------------------------------------
StartStep(r) ==
  \E u \in Users, v \in Variants, q \in Quantities :
    \/ \E op \in {"get", "add", "update", "remove", "checkout"} :
         Start(r, u, op, v, q, Undefined, "open")
    \/ \E k \in Coupons : Start(r, u, "apply", v, q, k, "open")
    \/ OpenForRates(r, u, v, q)

OpenStep(r) ==
  \/ OpenPointed(r)
  \/ FindCart(r)
  \/ CreateCart(r)
  \/ PointToCart(r)
  \/ FindItem(r)

WorkStep(r) ==
  \/ DropUnavailable(r)
  \/ AddItem(r)
  \/ UpdateItem(r)
  \/ RemoveItem(r)
  \/ ClearItems(r)
  \/ RemoveCoupon(r)
  \/ ApplyCoupon(r)
  \/ ValidateCart(r)
  \/ PlaceOrder(r)

Next ==
  \/ \E r \in Requests : StartStep(r) \/ OpenStep(r) \/ WorkStep(r) \/ GiveUp(r)
  \/ \E c \in Carts : ConfirmOrder(c)
  \/ \E k \in Coupons, s \in CouponStatus : SetCoupon(k, s)
  \/ \E v \in Variants : ToggleVariant(v)

Spec == Init /\ [][Next]_vars

-----------------------------------------------------------------------------
(* Properties.                                                             *)

\* Units of v in the cart c and in the order made of it.
Held(c, v) ==
  cart[c].items[v] + (IF order[c] = Undefined THEN 0 ELSE order[c].items[v])

\* Nothing is ordered twice: whatever requests of a customer interleave, the
\* units in a cart and its order are units the customer put there.
NothingOrderedTwice == \A c \in Carts, v \in Variants : Held(c, v) <= asked[c][v]

\* A customer whose requests come one after the other has one active cart: the
\* goods are not spread over two, of which the shop shows one.
OneActiveCart ==
  \A u \in Users \ crossed : \A c, d \in ActiveCarts(u) : c = d

\* The cart of an order stays empty, without a coupon, and is nobody's active
\* cart, for such a customer: nothing of theirs is put where they cannot see it.
OrderedCartStaysClosed ==
  \A c \in Carts :
    order[c] # Undefined /\ Owner(c) \notin crossed =>
      cart[c] = Closed(c) /\ active[Owner(c)] # c

\* Coupon usage limit has been reached: a coupon discounts no more orders than
\* its limit says.
UsageLimitKept ==
  \A k \in Coupons :
    Limit[k] # Undefined =>
      Cardinality({c \in Carts : order[c] # Undefined /\ order[c].coupon = k}) <= Limit[k]
=============================================================================

--------------------------- MODULE ShoppingProofs ---------------------------
(***************************************************************************)
(* Carts and orders, for any customers, variants, coupons, requests and    *)
(* bounds.                                                                 *)
(***************************************************************************)
EXTENDS Shopping, TLAPS

(***************************************************************************)
(* What a request knows of the carts.  Of a customer whose requests have   *)
(* not crossed, it is true still: nobody else works on their carts.        *)
(***************************************************************************)

\* The stages at which a request has a cart.
Holding == {"point", "work", "place", "repoint"}

\* The cart it holds is its customer's and is not ordered; a search that found
\* no cart would find none.
Knows(q) ==
  /\ q.stage \in Holding => q.cart \in Carts /\ Owner(q.cart) = q.user
  /\ q.user \notin crossed =>
       /\ q.stage \in Holding => order[q.cart] = Undefined
       /\ q.stage \in {"new", "renew"} => ActiveCarts(q.user) = {}

RequestsSound == \A r \in Requests : request[r] # NoRequest => Knows(request[r])

\* Requests of a customer that has not crossed come one after the other.
Alone ==
  \A r, s \in Requests :
    /\ request[r] # NoRequest /\ request[s] # NoRequest
    /\ request[r].user = request[s].user /\ request[r].user \notin crossed
    => r = s

\* A customer points to a cart of their own.
PointersSound ==
  \A u \in Users : active[u] # Undefined => active[u] \in Carts /\ Owner(active[u]) = u

CartsSound ==
  RequestsSound /\ Alone /\ PointersSound /\ OneActiveCart /\ OrderedCartStaysClosed

IInv == TypeOK /\ CartsSound

-----------------------------------------------------------------------------
(* Types.                                                                  *)

LEMMA Constants ==
  /\ NoRequest \in Request /\ NoCart \in Cart /\ EmptyCart \in Cart /\ NoItems \in Items
  /\ \A c \in Carts : Owner(c) \in Users /\ c # Undefined
  /\ \A u \in Users, n \in 1 .. MaxCarts : <<u, n>> \in Carts /\ Owner(<<u, n>>) = u
  /\ EmptyCart.status = "ACTIVE" /\ NoCart.status = "NONE"
  BY CartsAssumption
  DEF NoRequest, Request, NoCart, EmptyCart, Cart, CartStatus, NoItems, Items, Carts, Owner

LEMMA ClosedCart ==
  ASSUME TypeOK, NEW c \in Carts
  PROVE  /\ Closed(c) \in Cart /\ Closed(c).status = "CHECKED_OUT" /\ Closed(c).items = NoItems
         /\ Closed(c).made = cart[c].made
  BY Constants DEF TypeOK, Closed, Cart, CartStatus

\* A request under way is as its fields are.
LEMMA RequestFields ==
  ASSUME TypeOK, NEW r \in Requests, request[r] # NoRequest
  PROVE  /\ request[r] \in Request
         /\ request[r].op \in {"get", "add", "update", "remove", "apply", "unapply",
                               "checkout"}
         /\ request[r].user \in Users /\ request[r].variant \in Variants
         /\ request[r].quantity \in Quantities /\ request[r].quantity \in Nat \ {0}
         /\ request[r].coupon \in Coupons \cup {Undefined}
         /\ request[r].cart \in Carts \cup {Undefined} /\ request[r].seen \in Cart
  BY QuantitiesAssumption DEF TypeOK, Request, NoRequest

LEMMA KeptIsCart == ASSUME NEW op, NEW c \in Cart PROVE Kept(op, c) \in Cart
  BY Constants DEF Kept, Cart

\* Request r turns into w.
Turn(q, op, stage, c, seen) ==
  [q EXCEPT !.op = op, !.stage = stage, !.cart = c, !.seen = seen]

IsTurn(r, w, op, stage, c, seen) ==
  /\ op \in {request[r].op, "unapply"}
  /\ stage \in {"open", "new", "point", "work", "place",
                "reopen", "renew", "repoint"}
  /\ c \in Carts \cup {Undefined}
  /\ seen \in Cart
  /\ w = Turn(request[r], op, stage, c, seen)

LEMMA Turned ==
  ASSUME TypeOK, NEW r \in Requests, request[r] # NoRequest,
         NEW op, NEW stage, NEW c, NEW seen, NEW w, IsTurn(r, w, op, stage, c, seen)
  PROVE  /\ w \in Request /\ w # NoRequest
         /\ w.user = request[r].user /\ w.stage = stage /\ w.cart = c
  <1>1. w \in Request /\ w.op # "none"
    BY RequestFields DEF Request, NoRequest, Turn, IsTurn
  <1>2. w.user = request[r].user /\ w.stage = stage /\ w.cart = c
    BY RequestFields DEF Request, NoRequest, Turn, IsTurn
  <1> QED BY <1>1, <1>2 DEF NoRequest

-----------------------------------------------------------------------------
(* How requests and carts change.                                          *)

\* A request turns into w, and nothing is done to carts of other customers.
LEMMA RequestTurns ==
  ASSUME IInv, NEW r \in Requests, request[r] # NoRequest, NEW w \in Request,
         request' = [request EXCEPT ![r] = w], UNCHANGED crossed,
         w # NoRequest => w.user = request[r].user /\ Knows(w)',
         \A c \in Carts : Owner(c) # request[r].user => order'[c] = order[c] /\ cart'[c] = cart[c]
  PROVE  RequestsSound' /\ Alone' /\ request' \in [Requests -> Request]
  <1>1. /\ request' \in [Requests -> Request] /\ request'[r] = w
        /\ \A j \in Requests : j # r => request'[j] = request[j]
    BY DEF IInv, TypeOK
  <1>2. Alone'
    BY <1>1 DEF IInv, CartsSound, Alone
  <1>3. ASSUME NEW j \in Requests, j # r, request[j] # NoRequest PROVE Knows(request[j])'
    <2> DEFINE q == request[j]
    <2>1. Knows(q) /\ UNCHANGED q /\ UNCHANGED crossed
      BY <1>1, <1>3 DEF IInv, CartsSound, RequestsSound
    <2>2. q.user \notin crossed => q.user # request[r].user
      BY <1>3 DEF IInv, CartsSound, Alone
    <2>3. q.user # request[r].user => ActiveCarts(q.user)' = ActiveCarts(q.user)
      BY <2>1 DEF ActiveCarts
    <2> QED BY <2>1, <2>2, <2>3 DEF Knows
  <1> QED BY <1>1, <1>2, <1>3 DEF RequestsSound

\* A write to a cart that is not ordered keeps the statuses.
LEMMA StatusStays ==
  ASSUME IInv, UNCHANGED <<order, active, crossed>>,
         \A c \in Carts : cart'[c].status = cart[c].status,
         \A c \in Carts : order[c] # Undefined /\ Owner(c) \notin crossed => cart'[c] = cart[c]
  PROVE  /\ OneActiveCart' /\ OrderedCartStaysClosed' /\ PointersSound'
         /\ \A u \in Users : ActiveCarts(u)' = ActiveCarts(u)
  <1>1. \A u \in Users : ActiveCarts(u)' = ActiveCarts(u)
    BY DEF ActiveCarts
  <1>2. OneActiveCart'
    BY <1>1 DEF IInv, CartsSound, OneActiveCart
  <1>3. OrderedCartStaysClosed'
    BY DEF IInv, CartsSound, OrderedCartStaysClosed, Closed
  <1>4. PointersSound'
    BY DEF IInv, CartsSound, PointersSound
  <1> QED BY <1>1, <1>2, <1>3, <1>4

\* Steps that change a request only.
LEMMA OnlyRequest ==
  ASSUME IInv, NEW r \in Requests, request[r] # NoRequest, NEW w \in Request,
         request' = [request EXCEPT ![r] = w],
         UNCHANGED <<cart, active, asked, crossed, shop>>,
         w # NoRequest => w.user = request[r].user /\ Knows(w)
  PROVE  IInv'
  <1>1. UNCHANGED <<cart, active, asked, crossed, variant, coupon, order, usage>>
    BY DEF shop
  <1>2. w # NoRequest => Knows(w)'
    BY <1>1 DEF Knows, ActiveCarts
  <1>3. RequestsSound' /\ Alone' /\ request' \in [Requests -> Request]
    BY <1>1, <1>2, RequestTurns
  <1>4. OneActiveCart' /\ OrderedCartStaysClosed' /\ PointersSound'
    BY <1>1, StatusStays
  <1>5. TypeOK'
    BY <1>1, <1>3 DEF IInv, TypeOK
  <1> QED BY <1>3, <1>4, <1>5 DEF IInv, CartsSound

\* An active cart of a customer that has not crossed is not ordered.
LEMMA ActiveIsOpen ==
  ASSUME IInv, NEW u \in Users, NEW c \in ActiveCarts(u)
  PROVE  /\ c \in Carts /\ Owner(c) = u /\ cart[c] \in Cart
         /\ u \notin crossed => order[c] = Undefined
  <1>1. c \in Carts /\ Owner(c) = u /\ cart[c].status = "ACTIVE" /\ cart[c] \in Cart
    BY DEF ActiveCarts, IInv, TypeOK
  <1> QED BY <1>1, ClosedCart DEF IInv, CartsSound, OrderedCartStaysClosed

-----------------------------------------------------------------------------
(* The steps.                                                              *)

LEMMA StartKeeps ==
  ASSUME IInv, NEW r \in Requests, StartStep(r)
  PROVE  IInv'
  <1>1. PICK u \in Users, v \in Variants, n \in Quantities,
             op \in {"get", "add", "update", "remove", "apply", "unapply",
                     "checkout"},
             k \in Coupons \cup {Undefined}, stage \in {"open", "reopen"} :
               Start(r, u, op, v, n, k, stage)
    BY DEF StartStep, OpenForRates
  <1>2. PICK w \in Request :
          /\ w = [op |-> op, user |-> u, variant |-> v, quantity |-> n, coupon |-> k,
                  stage |-> stage, cart |-> Undefined, seen |-> NoCart]
          /\ w # NoRequest /\ w.user = u /\ w.stage = stage
    <2> DEFINE w == [op |-> op, user |-> u, variant |-> v, quantity |-> n, coupon |-> k,
                     stage |-> stage, cart |-> Undefined, seen |-> NoCart]
    <2>1. w \in Request
      BY Constants DEF Request
    <2>2. w # NoRequest
      <3>1. w.op # NoRequest.op
        BY DEF NoRequest
      <3> QED BY <3>1
    <2> QED BY <2>1, <2>2
  <1>3. /\ request[r] = NoRequest
        /\ request' = [request EXCEPT ![r] = w]
        /\ crossed' = IF \E s \in Requests : request[s] # NoRequest /\ request[s].user = u
                      THEN crossed \cup {u} ELSE crossed
        /\ UNCHANGED <<cart, active, asked, variant, coupon, order, usage>>
    BY <1>1, <1>2 DEF Start, shop
  <1>4. /\ request' \in [Requests -> Request] /\ request'[r] = w
        /\ \A j \in Requests : j # r => request'[j] = request[j]
    BY <1>3 DEF IInv, TypeOK
  <1>5. crossed \subseteq crossed' /\ crossed' \in SUBSET Users
    BY <1>3 DEF IInv, TypeOK
  <1>6. TypeOK'
    BY <1>3, <1>4, <1>5 DEF IInv, TypeOK
  <1>7. Alone'
    <2>1. ASSUME NEW j \in Requests, j # r, request[j] # NoRequest, request[j].user = u
          PROVE  u \in crossed'
      BY <1>3, <2>1
    <2> QED BY <1>2, <1>4, <1>5, <2>1 DEF IInv, CartsSound, Alone
  <1>8. RequestsSound'
    <2>1. Knows(w)'
      BY <1>2 DEF Knows, Holding
    <2>2. ASSUME NEW j \in Requests, j # r, request[j] # NoRequest PROVE Knows(request[j])'
      BY <1>3, <1>4, <1>5, <2>2 DEF IInv, CartsSound, RequestsSound, Knows, ActiveCarts
    <2> QED BY <1>4, <2>1, <2>2 DEF RequestsSound
  <1>9. OneActiveCart' /\ OrderedCartStaysClosed' /\ PointersSound'
    <2>1. \A c \in Carts : Closed(c)' = Closed(c)
      BY <1>3 DEF Closed
    <2> QED BY <1>3, <1>5, <2>1
        DEF IInv, CartsSound, OneActiveCart, OrderedCartStaysClosed, PointersSound, ActiveCarts
  <1> QED BY <1>6, <1>7, <1>8, <1>9 DEF IInv, CartsSound

\* A request that has found an active cart of its customer.
LEMMA HoldKeeps ==
  ASSUME IInv, NEW r \in Requests, request[r] # NoRequest, NEW c \in ActiveCarts(request[r].user),
         NEW s \in {"point", "work", "repoint"}, Hold(r, s, c),
         UNCHANGED <<cart, active, asked, crossed, shop>>
  PROVE  IInv'
  <1> DEFINE q == request[r]
  <1>1. PICK seen : seen = Kept(q.op, cart[c])
    OBVIOUS
  <1>2. /\ c \in Carts /\ Owner(c) = q.user /\ seen \in Cart
        /\ q.user \notin crossed => order[c] = Undefined
    BY <1>1, ActiveIsOpen, RequestFields, KeptIsCart DEF IInv
  <1>3. PICK w : w = Turn(q, q.op, s, c, seen)
    OBVIOUS
  <1>4. w \in Request /\ w # NoRequest /\ w.user = q.user /\ w.stage = s /\ w.cart = c
    <2>1. IsTurn(r, w, q.op, s, c, seen)
      BY <1>2, <1>3 DEF IsTurn
    <2> QED BY <2>1, Turned DEF IInv
  <1>5. request' = [request EXCEPT ![r] = w]
    BY <1>1, <1>3, RequestFields DEF Hold, IInv, TypeOK, Request, Turn
  <1>6. Knows(w)
    BY <1>2, <1>4 DEF Knows, Holding
  <1> QED BY <1>4, <1>5, <1>6, OnlyRequest

\* A handler that answers opens the cart again.
LEMMA Answered ==
  ASSUME TypeOK, NEW r \in Requests, request[r] # NoRequest, Answer(r)
  PROVE  \E w \in Request : /\ request' = [request EXCEPT ![r] = w]
                            /\ w # NoRequest /\ w.user = request[r].user /\ w.stage = "reopen"
  <1>1. PICK w : w = [request[r] EXCEPT !.op = "get", !.coupon = Undefined, !.stage = "reopen",
                                        !.cart = Undefined, !.seen = NoCart]
    OBVIOUS
  <1>2. w \in Request /\ w # NoRequest /\ w.user = request[r].user /\ w.stage = "reopen"
    BY <1>1, RequestFields, Constants DEF Request, NoRequest
  <1>3. request' = [request EXCEPT ![r] = w]
    BY <1>1 DEF Answer, TypeOK
  <1> QED BY <1>2, <1>3

LEMMA OpenKeeps ==
  ASSUME IInv, NEW r \in Requests, OpenPointed(r) \/ FindCart(r) \/ FindItem(r)
  PROVE  IInv'
  <1> DEFINE q == request[r]
  <1>0. q # NoRequest /\ q.user \in Users /\ UNCHANGED <<cart, active, asked, crossed, shop>>
    BY RequestFields DEF IInv, OpenPointed, FindCart, FindItem, At
  <1>1. CASE OpenPointed(r)
    <2>1. active[q.user] \in Carts /\ cart[active[q.user]].status = "ACTIVE"
      BY <1>0, <1>1 DEF OpenPointed, PointsToActive, IInv, TypeOK
    <2>2. Owner(active[q.user]) = q.user
      BY <1>0, <1>1, <2>1 DEF OpenPointed, PointsToActive, IInv, CartsSound, PointersSound
    <2>3. active[q.user] \in ActiveCarts(q.user)
      BY <2>1, <2>2 DEF ActiveCarts
    <2> QED BY <1>0, <1>1, <2>3, HoldKeeps DEF OpenPointed
  <1>2. CASE FindCart(r)
    <2>1. CASE request' = [request EXCEPT ![r].stage = IF q.stage = "open" THEN "new" ELSE "renew"]
               /\ ActiveCarts(q.user) = {}
      <3> DEFINE s == IF q.stage = "open" THEN "new" ELSE "renew"
      <3>1. PICK w : w = Turn(q, q.op, s, q.cart, q.seen)
        OBVIOUS
      <3>2. w \in Request /\ w # NoRequest /\ w.user = q.user /\ w.stage = s
        <4>1. IsTurn(r, w, q.op, s, q.cart, q.seen)
          BY <1>0, <3>1, RequestFields DEF IInv, IsTurn
        <4> QED BY <1>0, <4>1, Turned DEF IInv
      <3>3. request' = [request EXCEPT ![r] = w]
        BY <1>0, <2>1, <3>1, RequestFields DEF IInv, TypeOK, Request, Turn
      <3>4. Knows(w)
        BY <2>1, <3>2 DEF Knows, Holding
      <3> QED BY <1>0, <3>2, <3>3, <3>4, OnlyRequest
    <2>2. ASSUME NEW c \in ActiveCarts(q.user),
                 Hold(r, IF q.stage = "open" THEN "point" ELSE "repoint", c)
          PROVE  IInv'
      BY <1>0, <2>2, HoldKeeps
    <2> QED BY <1>2, <2>1, <2>2 DEF FindCart, FoundCarts
  <1>3. CASE FindItem(r)
    <2>1. CASE Answer(r)
      <3>1. PICK w \in Request : /\ request' = [request EXCEPT ![r] = w]
                                 /\ w # NoRequest /\ w.user = q.user /\ w.stage = "reopen"
        BY <1>0, <2>1, Answered DEF IInv
      <3>2. Knows(w)
        BY <3>1 DEF Knows, Holding
      <3> QED BY <1>0, <3>1, <3>2, OnlyRequest
    <2>2. ASSUME NEW c \in ActiveCarts(q.user), Hold(r, "work", c) PROVE IInv'
      BY <1>0, <2>2, HoldKeeps
    <2> QED BY <1>3, <2>1, <2>2 DEF FindItem
  <1> QED BY <1>1, <1>2, <1>3

\* The search found no active cart, and none has come since.
LEMMA CreateKeeps ==
  ASSUME IInv, NEW r \in Requests, CreateCart(r)
  PROVE  IInv'
  <1> DEFINE q == request[r]
  <1>0. q # NoRequest /\ q.stage \in {"new", "renew"} /\ q.user \in Users
        /\ UNCHANGED <<active, asked, crossed, variant, coupon, order, usage>>
    BY RequestFields DEF IInv, CreateCart, At, shop
  <1>1. PICK n \in 1 .. MaxCarts :
          /\ cart[<<q.user, n>>].status = "NONE"
          /\ cart' = [cart EXCEPT ![<<q.user, n>>] = EmptyCart]
          /\ request' = [request EXCEPT
               ![r].stage = IF q.stage = "new" THEN "point" ELSE "repoint",
               ![r].cart = <<q.user, n>>,
               ![r].seen = Kept(q.op, EmptyCart)]
    BY DEF CreateCart
  <1>2. PICK c, s, seen : /\ c = <<q.user, n>>
                          /\ s = IF q.stage = "new" THEN "point" ELSE "repoint"
                          /\ seen = Kept(q.op, EmptyCart)
    OBVIOUS
  <1>3. PICK w : w = Turn(q, q.op, s, c, seen)
    OBVIOUS
  <1>4. c \in Carts /\ Owner(c) = q.user /\ seen \in Cart /\ s \in {"point", "repoint"}
    BY <1>0, <1>2, Constants, KeptIsCart
  <1>5. w \in Request /\ w # NoRequest /\ w.user = q.user /\ w.stage = s /\ w.cart = c
    <2>1. IsTurn(r, w, q.op, s, c, seen)
      BY <1>3, <1>4 DEF IsTurn
    <2> QED BY <1>0, <2>1, Turned DEF IInv
  <1>6. request' = [request EXCEPT ![r] = w]
    BY <1>0, <1>1, <1>2, <1>3, RequestFields DEF IInv, TypeOK, Request, Turn
  <1>7. cart' \in [Carts -> Cart] /\ cart'[c] = EmptyCart
        /\ \A d \in Carts : d # c => cart'[d] = cart[d]
    BY <1>1, <1>2, <1>4, Constants DEF IInv, TypeOK
  <1>8. q.user \notin crossed => order[c] = Undefined /\ ActiveCarts(q.user) = {}
    <2>1. cart[c].status # "CHECKED_OUT"
      BY <1>1, <1>2
    <2> QED BY <1>0, <1>4, <2>1, ClosedCart
        DEF IInv, CartsSound, RequestsSound, Knows, OrderedCartStaysClosed
  <1>9. Knows(w)'
    BY <1>0, <1>4, <1>5, <1>8 DEF Knows, Holding
  <1>10. RequestsSound' /\ Alone' /\ request' \in [Requests -> Request]
    BY <1>0, <1>4, <1>5, <1>6, <1>7, <1>9, RequestTurns
  <1>11. OneActiveCart'
    <2>1. ASSUME NEW u \in Users \ crossed PROVE \A a, b \in ActiveCarts(u)' : a = b
      <3>1. CASE u = q.user
        <4>1. ActiveCarts(u)' \subseteq {c}
          BY <1>7, <1>8, <2>1, <3>1 DEF ActiveCarts
        <4> QED BY <4>1
      <3>2. CASE u # q.user
        <4>1. ActiveCarts(u)' \subseteq ActiveCarts(u)
          BY <1>4, <1>7, <3>2 DEF ActiveCarts
        <4> QED BY <2>1, <4>1 DEF IInv, CartsSound, OneActiveCart
      <3> QED BY <3>1, <3>2
    <2> QED BY <1>0, <2>1 DEF OneActiveCart
  <1>12. OrderedCartStaysClosed'
    <2>1. \A d \in Carts : d # c => Closed(d)' = Closed(d)
      BY <1>7 DEF Closed
    <2> QED BY <1>0, <1>4, <1>7, <1>8, <2>1 DEF IInv, CartsSound, OrderedCartStaysClosed
  <1>13. PointersSound'
    BY <1>0 DEF IInv, CartsSound, PointersSound
  <1>14. TypeOK'
    BY <1>0, <1>7, <1>10 DEF IInv, TypeOK
  <1> QED BY <1>10, <1>11, <1>12, <1>13, <1>14 DEF IInv, CartsSound

\* The cart that a request holds.
LEMMA HeldCart ==
  ASSUME IInv, NEW r \in Requests, request[r] # NoRequest, request[r].stage \in Holding
  PROVE  /\ request[r].cart \in Carts /\ Owner(request[r].cart) = request[r].user
         /\ request[r].user \in Users /\ request[r].cart # Undefined
         /\ cart[request[r].cart] \in Cart
         /\ request[r].user \notin crossed => order[request[r].cart] = Undefined
  <1>1. Knows(request[r]) /\ request[r].user \in Users
    BY RequestFields DEF IInv, CartsSound, RequestsSound
  <1> QED BY <1>1, Constants DEF Knows, IInv, TypeOK

\* A request is over, with nothing else done.
LEMMA EndKeeps ==
  ASSUME IInv, NEW r \in Requests, request[r] # NoRequest, End(r),
         UNCHANGED <<cart, active, asked, crossed, shop>>
  PROVE  IInv'
  BY OnlyRequest, Constants DEF End

LEMMA PointKeeps ==
  ASSUME IInv, NEW r \in Requests, PointToCart(r)
  PROVE  IInv'
  <1> DEFINE q == request[r]
             c == q.cart
  <1>0. /\ q # NoRequest /\ q.stage \in {"point", "repoint"}
        /\ active' = [active EXCEPT ![q.user] = c]
        /\ UNCHANGED <<cart, asked, crossed, variant, coupon, order, usage>>
    BY DEF PointToCart, At, shop
  <1>1. /\ c \in Carts /\ Owner(c) = q.user /\ q.user \in Users /\ c # Undefined
        /\ q.user \notin crossed => order[c] = Undefined
    BY <1>0, HeldCart DEF Holding
  <1>2. active' \in [Users -> Carts \cup {Undefined}] /\ active'[q.user] = c
        /\ \A u \in Users : u # q.user => active'[u] = active[u]
    BY <1>0, <1>1 DEF IInv, TypeOK
  <1>3. PICK w \in Request : /\ request' = [request EXCEPT ![r] = w]
                             /\ w = NoRequest \/ (w.user = q.user /\ w.stage = "work" /\ w.cart = c)
    <2>1. CASE request' = [request EXCEPT ![r].stage = "work"]
      <3>1. PICK w : w = Turn(q, q.op, "work", c, q.seen)
        OBVIOUS
      <3>2. IsTurn(r, w, q.op, "work", c, q.seen)
        BY <1>0, <1>1, <3>1, RequestFields DEF IInv, IsTurn
      <3>3. w \in Request /\ w.user = q.user /\ w.stage = "work" /\ w.cart = c
        BY <1>0, <3>2, Turned DEF IInv
      <3>4. request' = [request EXCEPT ![r] = w]
        BY <1>0, <2>1, <3>1, RequestFields DEF IInv, TypeOK, Request, Turn
      <3> QED BY <3>3, <3>4
    <2>2. CASE End(r)
      BY <2>2, Constants DEF End
    <2> QED BY <2>1, <2>2 DEF PointToCart
  <1>4. w # NoRequest => w.user = q.user /\ Knows(w)'
    BY <1>0, <1>1, <1>3 DEF Knows, Holding
  <1>5. RequestsSound' /\ Alone' /\ request' \in [Requests -> Request]
    BY <1>0, <1>3, <1>4, RequestTurns
  <1>6. OneActiveCart'
    BY <1>0 DEF IInv, CartsSound, OneActiveCart, ActiveCarts
  <1>7. OrderedCartStaysClosed'
    <2>1. ASSUME NEW d \in Carts, order[d] # Undefined, Owner(d) \notin crossed
          PROVE  cart[d] = Closed(d) /\ active'[Owner(d)] # d
      <3>1. cart[d] = Closed(d) /\ active[Owner(d)] # d /\ Owner(d) \in Users
        BY <2>1, Constants DEF IInv, CartsSound, OrderedCartStaysClosed
      <3> QED BY <1>1, <1>2, <2>1, <3>1
    <2> QED BY <1>0, <2>1 DEF OrderedCartStaysClosed, Closed
  <1>8. PointersSound'
    BY <1>1, <1>2 DEF IInv, CartsSound, PointersSound
  <1>9. TypeOK'
    BY <1>0, <1>2, <1>5 DEF IInv, TypeOK
  <1> QED BY <1>5, <1>6, <1>7, <1>8, <1>9 DEF IInv, CartsSound

\* Work on the cart that a request holds.
LEMMA WriteKeeps ==
  ASSUME IInv, NEW r \in Requests, request[r] # NoRequest, request[r].stage = "work",
         NEW x \in Cart, x.status = cart[request[r].cart].status,
         cart' = [cart EXCEPT ![request[r].cart] = x],
         NEW w \in Request, request' = [request EXCEPT ![r] = w], w # NoRequest,
         w.user = request[r].user,
         w.stage = "reopen" \/ (w.stage = "work" /\ w.cart = request[r].cart),
         asked' \in [Carts -> Items], UNCHANGED <<active, crossed, shop>>
  PROVE  IInv'
  <1> DEFINE q == request[r]
             c == q.cart
  <1>0. UNCHANGED <<active, crossed, variant, coupon, order, usage>>
    BY DEF shop
  <1>1. /\ c \in Carts /\ Owner(c) = q.user
        /\ q.user \notin crossed => order[c] = Undefined
    BY HeldCart DEF Holding
  <1>2. /\ cart' \in [Carts -> Cart] /\ cart'[c] = x
        /\ \A d \in Carts : d # c => cart'[d] = cart[d]
    BY <1>1 DEF IInv, TypeOK
  <1>3. Knows(w)'
    BY <1>0, <1>1 DEF Knows, Holding
  <1>4. RequestsSound' /\ Alone' /\ request' \in [Requests -> Request]
    BY <1>0, <1>1, <1>2, <1>3, RequestTurns
  <1>5. OneActiveCart' /\ OrderedCartStaysClosed' /\ PointersSound'
    <2>1. \A d \in Carts : cart'[d].status = cart[d].status
      BY <1>2
    <2>2. \A d \in Carts : order[d] # Undefined /\ Owner(d) \notin crossed => cart'[d] = cart[d]
      BY <1>1, <1>2
    <2> QED BY <1>0, <2>1, <2>2, StatusStays
  <1>6. TypeOK'
    BY <1>0, <1>2, <1>4 DEF IInv, TypeOK
  <1> QED BY <1>4, <1>5, <1>6 DEF IInv, CartsSound

\* A handler of CartService that writes its cart and answers.
LEMMA WorkAnswered ==
  ASSUME IInv, NEW r \in Requests, request[r] # NoRequest, request[r].stage = "work",
         NEW x \in Cart, x.status = cart[request[r].cart].status,
         cart' = [cart EXCEPT ![request[r].cart] = x],
         Answer(r), asked' \in [Carts -> Items], UNCHANGED <<active, crossed, shop>>
  PROVE  IInv'
  <1>1. PICK w \in Request : /\ request' = [request EXCEPT ![r] = w]
                             /\ w # NoRequest /\ w.user = request[r].user /\ w.stage = "reopen"
    BY Answered DEF IInv
  <1> QED BY <1>1, WriteKeeps

\* The item of a variant is set.
LEMMA ItemSet ==
  ASSUME IInv, NEW r \in Requests, request[r] # NoRequest, request[r].stage = "work",
         NEW n \in Nat, SetItem(request[r].cart, request[r].variant, n),
         Answer(r), asked' \in [Carts -> Items], UNCHANGED <<active, crossed, shop>>
  PROVE  IInv'
  <1> DEFINE c == request[r].cart
             v == request[r].variant
  <1>1. c \in Carts /\ cart[c] \in Cart /\ v \in Variants
    BY HeldCart, RequestFields DEF Holding, IInv
  <1>2. PICK x : x = [cart[c] EXCEPT !.items[v] = n]
    OBVIOUS
  <1>3. x \in Cart /\ x.status = cart[c].status
    BY <1>1, <1>2 DEF Cart, Items
  <1>4. cart' = [cart EXCEPT ![c] = x]
    BY <1>1, <1>2 DEF SetItem, IInv, TypeOK
  <1> QED BY <1>3, <1>4, WorkAnswered

\* An item is created.
LEMMA ItemCreated ==
  ASSUME IInv, NEW r \in Requests, request[r] # NoRequest, request[r].stage = "work",
         NEW n \in Nat, CreateItem(request[r].cart, request[r].variant, n),
         Answer(r), asked' \in [Carts -> Items], UNCHANGED <<active, crossed, shop>>
  PROVE  IInv'
  <1> DEFINE c == request[r].cart
             v == request[r].variant
  <1>1. c \in Carts /\ cart[c] \in Cart /\ v \in Variants
    BY HeldCart, RequestFields DEF Holding, IInv
  <1>2. PICK x : x = [cart[c] EXCEPT !.items[v] = n, !.made[v] = @ + 1]
    OBVIOUS
  <1>3. x \in Cart /\ x.status = cart[c].status
    <2>1. PICK i, m : /\ i = [cart[c].items EXCEPT ![v] = n]
                      /\ m = [cart[c].made EXCEPT ![v] = cart[c].made[v] + 1]
      OBVIOUS
    <2>2. i \in Items /\ m \in Items
      BY <1>1, <2>1 DEF Cart, Items
    <2>3. x = [cart[c] EXCEPT !.items = i, !.made = m]
      BY <1>1, <1>2, <2>1 DEF Cart
    <2> QED BY <1>1, <2>2, <2>3 DEF Cart
  <1>4. cart' = [cart EXCEPT ![c] = x]
    BY <1>1, <1>2 DEF CreateItem, IInv, TypeOK
  <1> QED BY <1>3, <1>4, WorkAnswered

LEMMA AskTyped ==
  ASSUME TypeOK, NEW c \in Carts, NEW v \in Variants, NEW n \in Nat, Ask(c, v, n)
  PROVE  asked' \in [Carts -> Items]
  BY DEF Ask, TypeOK, Items

\* A coupon is put on the cart, or taken off.
LEMMA CouponSet ==
  ASSUME IInv, NEW r \in Requests, request[r] # NoRequest, request[r].stage = "work",
         NEW k \in Coupons \cup {Undefined},
         cart' = [cart EXCEPT ![request[r].cart].coupon = k],
         Answer(r), UNCHANGED <<active, asked, crossed, shop>>
  PROVE  IInv'
  <1> DEFINE c == request[r].cart
  <1>1. c \in Carts /\ cart[c] \in Cart
    BY HeldCart DEF Holding
  <1>2. PICK x : x = [cart[c] EXCEPT !.coupon = k]
    OBVIOUS
  <1>3. x \in Cart /\ x.status = cart[c].status
    BY <1>1, <1>2 DEF Cart
  <1>4. cart' = [cart EXCEPT ![c] = x]
    BY <1>1, <1>2 DEF IInv, TypeOK
  <1>5. asked' \in [Carts -> Items]
    BY DEF IInv, TypeOK
  <1> QED BY <1>3, <1>4, <1>5, WorkAnswered

LEMMA CartServiceKeeps ==
  ASSUME IInv, NEW r \in Requests,
         \/ DropUnavailable(r) \/ AddItem(r) \/ UpdateItem(r) \/ RemoveItem(r)
         \/ ClearItems(r) \/ RemoveCoupon(r) \/ ApplyCoupon(r)
  PROVE  IInv'
  <1> DEFINE q == request[r]
             c == q.cart
  <1>0. /\ q # NoRequest /\ q.stage = "work"
        /\ UNCHANGED <<active, crossed, shop>>
    BY DEF DropUnavailable, AddItem, UpdateItem, RemoveItem, ClearItems, RemoveCoupon, ApplyCoupon,
           Working, At
  <1>1. /\ c \in Carts /\ cart[c] \in Cart /\ asked \in [Carts -> Items]
        /\ q.user \in Users /\ q.variant \in Variants /\ q.quantity \in Nat /\ q.seen \in Cart
    BY <1>0, HeldCart, RequestFields DEF Holding, IInv, TypeOK
  <1>2. CASE DropUnavailable(r)
    <2>1. PICK kept : kept = [v \in Variants |->
                                IF variant[v].status = "ACTIVE" /\ variant[v].listed
                                THEN cart[c].items[v] ELSE 0]
      OBVIOUS
    <2>2. PICK x : x = [cart[c] EXCEPT !.items = kept]
      OBVIOUS
    <2>3. x \in Cart /\ x.status = cart[c].status
      <3>1. kept \in Items
        BY <1>1, <2>1 DEF Cart, Items
      <3> QED BY <1>1, <2>2, <3>1 DEF Cart
    <2>4. cart' = [cart EXCEPT ![c] = x] /\ Answer(r) /\ UNCHANGED asked
      BY <1>1, <1>2, <2>1, <2>2 DEF DropUnavailable, IInv, TypeOK
    <2> QED BY <1>0, <1>1, <2>3, <2>4, WorkAnswered
  <1>3. CASE AddItem(r)
    <2>1. q.seen.items[q.variant] + q.quantity \in Nat
      BY <1>1 DEF Cart, Items
    <2>2. Answer(r) /\ asked' \in [Carts -> Items]
      BY <1>1, <1>3, AskTyped DEF AddItem, IInv
    <2>3. \/ SetItem(c, q.variant, q.seen.items[q.variant] + q.quantity)
          \/ CreateItem(c, q.variant, q.seen.items[q.variant] + q.quantity)
      BY <1>3 DEF AddItem
    <2> QED BY <1>0, <2>1, <2>2, <2>3, ItemSet, ItemCreated
  <1>4. CASE UpdateItem(r)
    BY <1>0, <1>1, <1>4, AskTyped, ItemSet DEF UpdateItem, Working, At, IInv
  <1>5. CASE RemoveItem(r)
    BY <1>0, <1>1, <1>5, ItemSet DEF RemoveItem, Working, At
  <1>6. CASE ClearItems(r)
    <2>1. PICK x : x = [cart[c] EXCEPT !.items = NoItems]
      OBVIOUS
    <2>2. x \in Cart /\ x.status = cart[c].status
      BY <1>1, <2>1, Constants DEF Cart
    <2>3. cart' = [cart EXCEPT ![c] = x]
      BY <1>1, <1>6, <2>1 DEF ClearItems, IInv, TypeOK
    <2>4. PICK w : w = Turn(q, "unapply", "work", c, q.seen)
      OBVIOUS
    <2>5. IsTurn(r, w, "unapply", "work", c, q.seen)
      BY <1>1, <2>4 DEF IsTurn
    <2>6. w \in Request /\ w # NoRequest /\ w.user = q.user /\ w.stage = "work" /\ w.cart = c
      BY <1>0, <2>5, Turned DEF IInv
    <2>7. request' = [request EXCEPT ![r] = w] /\ UNCHANGED asked
      <3>1. w = [q EXCEPT !.op = "unapply"]
        BY <1>0, <2>4, RequestFields DEF IInv, Request, Turn
      <3> QED BY <1>6, <3>1 DEF ClearItems, IInv, TypeOK
    <2> QED BY <1>0, <1>1, <2>2, <2>3, <2>6, <2>7, WriteKeeps
  <1>7. CASE RemoveCoupon(r)
    BY <1>0, <1>7, CouponSet DEF RemoveCoupon
  <1>8. CASE ApplyCoupon(r)
    BY <1>0, <1>8, RequestFields, CouponSet DEF ApplyCoupon, IInv
  <1> QED BY <1>2, <1>3, <1>4, <1>5, <1>6, <1>7, <1>8

LEMMA ValidateKeeps ==
  ASSUME IInv, NEW r \in Requests, ValidateCart(r)
  PROVE  IInv'
  <1> DEFINE q == request[r]
  <1>0. q # NoRequest /\ q.stage = "work" /\ UNCHANGED <<cart, active, asked, crossed, shop>>
    BY DEF ValidateCart, Working, At
  <1>1. CASE End(r)
    BY <1>0, <1>1, EndKeeps
  <1>2. CASE request' = [request EXCEPT ![r].stage = "place"]
    <2>1. PICK w : w = Turn(q, q.op, "place", q.cart, q.seen)
      OBVIOUS
    <2>2. IsTurn(r, w, q.op, "place", q.cart, q.seen)
      BY <1>0, <2>1, RequestFields DEF IsTurn, IInv
    <2>3. w \in Request /\ w # NoRequest /\ w.user = q.user /\ w.stage = "place" /\ w.cart = q.cart
      BY <1>0, <2>2, Turned DEF IInv
    <2>4. request' = [request EXCEPT ![r] = w]
      BY <1>0, <1>2, <2>1, RequestFields DEF IInv, TypeOK, Request, Turn
    <2>5. Knows(w)
      BY <1>0, <2>3, HeldCart DEF Knows, Holding
    <2> QED BY <1>0, <2>3, <2>4, <2>5, OnlyRequest
  <1> QED BY <1>1, <1>2 DEF ValidateCart

-----------------------------------------------------------------------------
(* Orders.                                                                 *)

\* The stock that an order needs is there.
LEMMA DeductTyped ==
  ASSUME TypeOK, NEW items \in Items,
         \A v \in Variants : items[v] > 0 => variant[v].stock >= items[v],
         Deduct(items)
  PROVE  variant' \in [Variants -> Variant]
  <1>1. ASSUME NEW v \in Variants PROVE Deducted(variant[v], items[v]) \in Variant
    <2>1. variant[v] \in Variant /\ items[v] \in Nat /\ variant[v].stock \in Nat
      BY DEF TypeOK, Variant, Items
    <2>2. variant[v].stock - items[v] \in Nat
      BY <2>1
    <2> QED BY <2>1, <2>2 DEF Deducted, Variant, VariantStatus
  <1> QED BY <1>1 DEF Deduct

\* A cart is closed.
LEMMA CartClosed ==
  ASSUME IInv, NEW c \in Carts, CloseCart(c), UNCHANGED crossed,
         \A d \in Carts : d # c => order'[d] = order[d]
  PROVE  /\ cart' \in [Carts -> Cart] /\ active' \in [Users -> Carts \cup {Undefined}]
         /\ \A d \in Carts : d # c => cart'[d] = cart[d]
         /\ \A u \in Users : ActiveCarts(u)' \subseteq ActiveCarts(u)
         /\ OneActiveCart' /\ OrderedCartStaysClosed' /\ PointersSound'
  <1>1. Closed(c) \in Cart /\ Closed(c).status = "CHECKED_OUT" /\ c # Undefined /\ Owner(c) \in Users
    BY Constants, ClosedCart DEF IInv
  <1>2. /\ cart' \in [Carts -> Cart] /\ cart'[c] = Closed(c)
        /\ \A d \in Carts : d # c => cart'[d] = cart[d]
    BY <1>1 DEF CloseCart, IInv, TypeOK
  <1>3. /\ active' \in [Users -> Carts \cup {Undefined}] /\ active'[Owner(c)] # c
        /\ \A u \in Users : active'[u] \in {active[u], Undefined}
    BY <1>1 DEF CloseCart, IInv, TypeOK
  <1>4. \A u \in Users : ActiveCarts(u)' \subseteq ActiveCarts(u)
    BY <1>1, <1>2 DEF ActiveCarts
  <1>5. OneActiveCart'
    BY <1>4 DEF IInv, CartsSound, OneActiveCart
  <1>6. OrderedCartStaysClosed'
    <2>1. ASSUME NEW d \in Carts, order'[d] # Undefined, Owner(d) \notin crossed
          PROVE  cart'[d] = Closed(d) /\ active'[Owner(d)] # d
      <3>1. CASE d = c
        BY <1>2, <1>3, <3>1
      <3>2. CASE d # c
        <4>1. cart[d] = Closed(d) /\ active[Owner(d)] # d /\ Owner(d) \in Users /\ d # Undefined
          BY <2>1, <3>2, Constants DEF IInv, CartsSound, OrderedCartStaysClosed
        <4> QED BY <1>2, <1>3, <3>2, <4>1
      <3> QED BY <3>1, <3>2
    <2> QED BY <2>1 DEF OrderedCartStaysClosed, Closed
  <1>7. PointersSound'
    BY <1>3 DEF IInv, CartsSound, PointersSound
  <1> QED BY <1>2, <1>3, <1>4, <1>5, <1>6, <1>7

LEMMA PlaceKeeps ==
  ASSUME IInv, NEW r \in Requests, PlaceOrder(r)
  PROVE  IInv'
  <1> DEFINE q == request[r]
             c == q.cart
  <1>0. /\ q # NoRequest /\ q.stage = "place" /\ End(r) /\ CloseCart(c)
        /\ UNCHANGED <<coupon, usage, asked, crossed>>
    BY DEF PlaceOrder, At
  <1>1. c \in Carts /\ Owner(c) = q.user /\ q.seen \in Cart
    BY <1>0, HeldCart, RequestFields DEF Holding, IInv
  <1>2. PICK o : o = [items |-> q.seen.items, coupon |-> q.seen.coupon, paid |-> FALSE]
    OBVIOUS
  <1>3. o \in Order
    BY <1>1, <1>2 DEF Order, Cart
  <1>4. /\ order' = [order EXCEPT ![c] = o]
        /\ \A d \in Carts : d # c => order'[d] = order[d]
        /\ order' \in [Carts -> Order \cup {Undefined}]
    BY <1>1, <1>2, <1>3 DEF PlaceOrder, IInv, TypeOK
  <1>5. variant' \in [Variants -> Variant]
    <2>1. q.seen.items \in Items
      BY <1>1 DEF Cart
    <2> QED BY <2>1, DeductTyped DEF PlaceOrder, IInv
  <1>6. /\ cart' \in [Carts -> Cart] /\ active' \in [Users -> Carts \cup {Undefined}]
        /\ \A d \in Carts : d # c => cart'[d] = cart[d]
        /\ OneActiveCart' /\ OrderedCartStaysClosed' /\ PointersSound'
    BY <1>0, <1>1, <1>4, CartClosed
  <1>7. RequestsSound' /\ Alone' /\ request' \in [Requests -> Request]
    BY <1>0, <1>1, <1>4, <1>6, Constants, RequestTurns DEF End
  <1>8. TypeOK'
    BY <1>0, <1>4, <1>5, <1>6, <1>7 DEF IInv, TypeOK
  <1> QED BY <1>6, <1>7, <1>8 DEF IInv, CartsSound

LEMMA ConfirmKeeps ==
  ASSUME IInv, NEW c \in Carts, ConfirmOrder(c)
  PROVE  IInv'
  <1>0. /\ order[c] # Undefined /\ order[c] \in Order /\ CloseCart(c)
        /\ UNCHANGED <<coupon, request, asked, crossed>>
    BY DEF ConfirmOrder, IInv, TypeOK
  <1>1. PICK o : o = [order[c] EXCEPT !.paid = TRUE]
    OBVIOUS
  <1>2. o \in Order
    BY <1>0, <1>1 DEF Order
  <1>3. /\ \A d \in Carts : d # c => order'[d] = order[d]
        /\ order' \in [Carts -> Order \cup {Undefined}]
    BY <1>1, <1>2 DEF ConfirmOrder, IInv, TypeOK
  <1>4. variant' \in [Variants -> Variant]
    <2>1. order[c].items \in Items
      BY <1>0 DEF Order
    <2> QED BY <2>1, DeductTyped DEF ConfirmOrder, StillThere, IInv
  <1>5. usage' \in [Carts -> Coupons \cup {Undefined}]
    <2>1. UsageOfCart(c) \in Coupons \cup {Undefined}
      BY DEF UsageOfCart, IInv, TypeOK, Cart
    <2> QED BY <2>1 DEF ConfirmOrder, IInv, TypeOK
  <1>6. /\ cart' \in [Carts -> Cart] /\ active' \in [Users -> Carts \cup {Undefined}]
        /\ \A u \in Users : ActiveCarts(u)' \subseteq ActiveCarts(u)
        /\ OneActiveCart' /\ OrderedCartStaysClosed' /\ PointersSound'
    BY <1>0, <1>3, CartClosed
  <1>7. RequestsSound' /\ Alone'
    <2>1. ASSUME NEW r \in Requests, request[r] # NoRequest PROVE Knows(request[r])'
      <3>1. Knows(request[r]) /\ request[r].user \in Users
        BY <2>1, RequestFields DEF IInv, CartsSound, RequestsSound
      <3>2. PICK u \in Users : u = request[r].user
        BY <3>1
      <3>3. ActiveCarts(u)' \subseteq ActiveCarts(u)
        BY <1>6
      <3> QED BY <1>0, <1>3, <3>1, <3>2, <3>3 DEF Knows
    <2> QED BY <1>0, <2>1 DEF RequestsSound, Alone, IInv, CartsSound
  <1>8. TypeOK'
    BY <1>0, <1>3, <1>4, <1>5, <1>6 DEF IInv, TypeOK
  <1> QED BY <1>6, <1>7, <1>8 DEF IInv, CartsSound

\* What admins change does not touch carts.
LEMMA AdminKeeps ==
  ASSUME IInv,
         \/ \E k \in Coupons, s \in CouponStatus : SetCoupon(k, s)
         \/ \E v \in Variants : ToggleVariant(v)
         \/ UNCHANGED vars
  PROVE  IInv'
  <1>1. UNCHANGED <<cart, active, order, usage, request, asked, crossed>>
    BY DEF SetCoupon, ToggleVariant, vars
  <1>2. CartsSound'
    <2>1. \A c \in Carts : Closed(c)' = Closed(c)
      BY <1>1 DEF Closed
    <2> QED BY <1>1, <2>1
        DEF IInv, CartsSound, RequestsSound, Knows, Alone, PointersSound, OneActiveCart,
            OrderedCartStaysClosed, ActiveCarts
  <1>3. coupon' \in [Coupons -> CouponStatus]
    BY DEF SetCoupon, ToggleVariant, vars, IInv, TypeOK
  <1>4. variant' \in [Variants -> Variant]
    <2>1. ASSUME NEW v \in Variants, ToggleVariant(v) PROVE variant' \in [Variants -> Variant]
      <3>1. PICK row : variant' = [variant EXCEPT ![v] = row] /\ row \in Variant
        <4>1. variant[v] \in Variant /\ variant \in [Variants -> Variant]
          BY DEF IInv, TypeOK
        <4>2. CASE variant' = [variant EXCEPT ![v].listed = ~@]
          <5>1. [variant[v] EXCEPT !.listed = ~@] \in Variant
            BY <4>1 DEF Variant
          <5> QED BY <4>1, <4>2, <5>1
        <4>3. CASE variant' = [variant EXCEPT ![v].status =
                                 IF @ = "ACTIVE" THEN "INACTIVE" ELSE "ACTIVE"]
          <5>1. [variant[v] EXCEPT !.status = IF @ = "ACTIVE" THEN "INACTIVE" ELSE "ACTIVE"] \in Variant
            BY <4>1 DEF Variant, VariantStatus
          <5> QED BY <4>1, <4>3, <5>1
        <4> QED BY <2>1, <4>2, <4>3 DEF ToggleVariant
      <3> QED BY <3>1 DEF IInv, TypeOK
    <2> QED BY <2>1 DEF SetCoupon, vars, IInv, TypeOK
  <1>5. TypeOK'
    BY <1>1, <1>3, <1>4 DEF IInv, TypeOK
  <1> QED BY <1>2, <1>5 DEF IInv

-----------------------------------------------------------------------------
LEMMA IInvFirst ==
  ASSUME Init
  PROVE  IInv
  <1>1. TypeOK
    <2>1. variant \in [Variants -> Variant]
      BY StockAssumption DEF Init, Variant, VariantStatus
    <2>2. coupon \in [Coupons -> CouponStatus]
      BY DEF Init, CouponStatus
    <2>3. cart \in [Carts -> Cart] /\ request \in [Requests -> Request] /\ asked \in [Carts -> Items]
      BY Constants DEF Init
    <2>4. /\ active \in [Users -> Carts \cup {Undefined}]
          /\ order \in [Carts -> Order \cup {Undefined}]
          /\ usage \in [Carts -> Coupons \cup {Undefined}]
          /\ crossed \in SUBSET Users
      BY DEF Init
    <2> QED BY <2>1, <2>2, <2>3, <2>4 DEF TypeOK
  <1>2. \A u \in Users : ActiveCarts(u) = {}
    BY Constants DEF Init, ActiveCarts
  <1>3. CartsSound
    BY <1>2
    DEF Init, CartsSound, RequestsSound, Alone, PointersSound, OneActiveCart, OrderedCartStaysClosed
  <1> QED BY <1>1, <1>3 DEF IInv

LEMMA IInvKept ==
  ASSUME IInv, [Next]_vars
  PROVE  IInv'
  <1>1. ASSUME NEW r \in Requests, OpenStep(r) \/ WorkStep(r) PROVE IInv'
    BY <1>1, OpenKeeps, CreateKeeps, PointKeeps, CartServiceKeeps, ValidateKeeps, PlaceKeeps
    DEF OpenStep, WorkStep
  <1>2. ASSUME NEW r \in Requests, GiveUp(r) PROVE IInv'
    BY <1>2, EndKeeps DEF GiveUp
  <1> QED BY <1>1, <1>2, StartKeeps, ConfirmKeeps, AdminKeeps DEF Next

LEMMA IInvAlways == Spec => []IInv
  BY IInvFirst, IInvKept, PTL DEF Spec

\* Carts, orders and requests keep to their types: no cart holds a negative
\* number of a variant, and no order takes stock below zero.
THEOREM TypeCorrect == Spec => []TypeOK
  <1>1. IInv => TypeOK
    BY DEF IInv
  <1> QED BY <1>1, IInvAlways, PTL

\* A customer whose requests come one after the other has one active cart,
\* however many carts they had and wherever a handler of theirs failed.
THEOREM ActiveCartCorrect == Spec => []OneActiveCart
  <1>1. IInv => OneActiveCart
    BY DEF IInv, CartsSound
  <1> QED BY <1>1, IInvAlways, PTL

\* Of such a customer, a cart that was ordered stays empty and is not used again.
THEOREM OrderedCartCorrect == Spec => []OrderedCartStaysClosed
  <1>1. IInv => OrderedCartStaysClosed
    BY DEF IInv, CartsSound
  <1> QED BY <1>1, IInvAlways, PTL

-----------------------------------------------------------------------------
(***************************************************************************)
(* What is in a cart and in its order.  Here requests cross as they like:  *)
(* what keeps an item from being ordered twice is its id, which a handler  *)
(* that has read the item before the order has and the cart then has not.  *)
(***************************************************************************)

\* Units of v in the order of cart c.
Ordered(c, v) == IF order[c] = Undefined THEN 0 ELSE order[c].items[v]

\* What request q has read of its cart, and may write again: items that were
\* asked for, which the cart has no more, or by another id, once it is ordered.
Sees(q) ==
  /\ cart[q.cart].status # "NONE"
  /\ \A v \in Variants :
       /\ q.seen.made[v] <= cart[q.cart].made[v]
       /\ q.seen.items[v] <= asked[q.cart][v]
       /\ order[q.cart] # Undefined /\ cart[q.cart].items[v] > 0 /\ q.seen.items[v] > 0
          => q.seen.made[v] < cart[q.cart].made[v]

Holds(r) == request[r] # NoRequest /\ request[r].stage \in Holding

RequestsSee == \A r \in Requests : Holds(r) => Sees(request[r])

\* An order closes its cart, for good.
OrdersClose == \A c \in Carts : order[c] # Undefined => cart[c].status = "CHECKED_OUT"

ItemsCounted == NothingOrderedTwice /\ OrdersClose /\ RequestsSee

\* What a step may do to cart c without a request missing it.
Advances(c) ==
  cart[c].status # "NONE" =>
    /\ cart'[c].status # "NONE"
    /\ \A v \in Variants :
         /\ cart[c].made[v] <= cart'[c].made[v]
         /\ asked[c][v] <= asked'[c][v]
         /\ order'[c] # Undefined /\ cart'[c].items[v] > 0
            => \/ order[c] # Undefined /\ cart[c].items[v] > 0
               \/ cart[c].made[v] < cart'[c].made[v]

\* What a step may do to request r: it has read its cart again, or knows what
\* it knew.
Follows(r) ==
  Holds(r)' =>
    \/ Sees(request[r])'
    \/ Holds(r) /\ request'[r].cart = request[r].cart /\ request'[r].seen = request[r].seen

\* The numbers of a cart are numbers.
LEMMA CartNumbers ==
  ASSUME TypeOK, NEW c \in Carts, NEW v \in Variants
  PROVE  /\ cart[c].items[v] \in Nat /\ cart[c].made[v] \in Nat /\ asked[c][v] \in Nat
         /\ Ordered(c, v) \in Nat
  <1>1. cart[c] \in Cart /\ asked[c] \in Items /\ order[c] \in Order \cup {Undefined}
    BY DEF TypeOK
  <1>2. cart[c].items \in Items /\ cart[c].made \in Items
    BY <1>1 DEF Cart
  <1>3. order[c] # Undefined => order[c].items \in Items
    BY <1>1 DEF Order
  <1> QED BY <1>1, <1>2, <1>3 DEF Items, Ordered

LEMMA HeldIsOrdered ==
  ASSUME NEW c, NEW v
  PROVE  Held(c, v) = cart[c].items[v] + Ordered(c, v)
  BY DEF Held, Ordered

LEMMA RequestsSeeKept ==
  ASSUME IInv, IInv', RequestsSee, \A c \in Carts : Advances(c), \A r \in Requests : Follows(r)
  PROVE  RequestsSee'
  <1>1. SUFFICES ASSUME NEW r \in Requests, Holds(r), Sees(request[r]),
                        request'[r].cart = request[r].cart, request'[r].seen = request[r].seen
                 PROVE  Sees(request[r])'
    BY DEF RequestsSee, Follows
  <1> DEFINE c == request[r].cart
             seen == request[r].seen
  <1>2. c \in Carts /\ seen \in Cart
    BY <1>1, HeldCart, RequestFields DEF Holds, IInv
  <1>3. cart[c].status # "NONE" /\ Advances(c)
    BY <1>1, <1>2 DEF Sees
  <1>4. cart'[c].status # "NONE"
    BY <1>3 DEF Advances
  <1>5. ASSUME NEW v \in Variants
        PROVE  /\ seen.made[v] <= cart'[c].made[v]
               /\ seen.items[v] <= asked'[c][v]
               /\ order'[c] # Undefined /\ cart'[c].items[v] > 0 /\ seen.items[v] > 0
                  => seen.made[v] < cart'[c].made[v]
    <2>1. /\ cart[c].made[v] \in Nat /\ asked[c][v] \in Nat
          /\ cart'[c].made[v] \in Nat /\ asked'[c][v] \in Nat
      <3>1. cart[c].made[v] \in Nat /\ asked[c][v] \in Nat
        BY <1>2, CartNumbers DEF IInv
      <3>2. (cart[c].made[v] \in Nat)' /\ (asked[c][v] \in Nat)'
        <4>1. cart' \in [Carts -> Cart] /\ asked' \in [Carts -> Items]
          BY DEF IInv, TypeOK
        <4>2. cart'[c] \in Cart /\ asked'[c] \in Items
          BY <1>2, <4>1
        <4>3. cart'[c].made[v] \in Nat /\ asked'[c][v] \in Nat
          BY <4>2 DEF Cart, Items
        <4> QED BY <1>1, <4>3
      <3> QED BY <1>1, <3>1, <3>2
    <2>2. seen.made[v] \in Nat /\ seen.items[v] \in Nat
      BY <1>2 DEF Cart, Items
    <2>3. /\ seen.made[v] <= cart[c].made[v] /\ seen.items[v] <= asked[c][v]
          /\ order[c] # Undefined /\ cart[c].items[v] > 0 /\ seen.items[v] > 0
             => seen.made[v] < cart[c].made[v]
      BY <1>1 DEF Sees
    <2>4. /\ cart[c].made[v] <= cart'[c].made[v] /\ asked[c][v] <= asked'[c][v]
          /\ order'[c] # Undefined /\ cart'[c].items[v] > 0
             => \/ order[c] # Undefined /\ cart[c].items[v] > 0
                \/ cart[c].made[v] < cart'[c].made[v]
      BY <1>3 DEF Advances
    <2> QED BY <2>1, <2>2, <2>3, <2>4
  <1> QED BY <1>1, <1>4, <1>5 DEF Sees

\* The other requests follow a step of one.
LEMMA OthersFollow ==
  ASSUME TypeOK, NEW r \in Requests, NEW w, request' = [request EXCEPT ![r] = w],
         \/ w = NoRequest
         \/ w.stage \notin Holding
         \/ Sees(request[r])'
         \/ Holds(r) /\ w.cart = request[r].cart /\ w.seen = request[r].seen
  PROVE  \A s \in Requests : Follows(s)
  <1>1. request'[r] = w /\ \A s \in Requests : s # r => request'[s] = request[s]
    BY DEF TypeOK
  <1>2. Follows(r)
    BY <1>1 DEF Follows, Holds
  <1>3. ASSUME NEW s \in Requests, s # r PROVE Follows(s)
    <2>1. request'[s] = request[s]
      BY <1>1, <1>3
    <2> QED BY <2>1 DEF Follows, Holds
  <1> QED BY <1>2, <1>3

\* Steps that leave carts and orders as they are.
LEMMA CartsAsTheyAre ==
  ASSUME IInv, IInv', ItemsCounted, UNCHANGED <<cart, order, asked>>,
         \A r \in Requests : Follows(r)
  PROVE  ItemsCounted'
  <1>1. \A c \in Carts : Advances(c)
    <2>1. ASSUME NEW c \in Carts, NEW v \in Variants
          PROVE  cart[c].made[v] \in Nat /\ asked[c][v] \in Nat
      BY CartNumbers DEF IInv
    <2> QED BY <2>1 DEF Advances
  <1>2. RequestsSee'
    BY <1>1, RequestsSeeKept DEF ItemsCounted
  <1>3. NothingOrderedTwice' /\ OrdersClose'
    BY DEF ItemsCounted, NothingOrderedTwice, OrdersClose, Held
  <1> QED BY <1>2, <1>3 DEF ItemsCounted

-----------------------------------------------------------------------------
(* Requests that read a cart.                                              *)

LEMMA KeptLess ==
  ASSUME NEW op, NEW c \in Cart, NEW v \in Variants
  PROVE  Kept(op, c).items[v] <= c.items[v] /\ Kept(op, c).made[v] <= c.made[v]
  <1>1. c.items[v] \in Nat /\ c.made[v] \in Nat
    BY DEF Cart, Items
  <1>2. Kept(op, c).items \in {c.items, NoItems} /\ Kept(op, c).made \in {c.made, NoItems}
    BY DEF Kept, Cart, NoCart
  <1> QED BY <1>1, <1>2 DEF NoItems

\* A cart that can be read is not ordered.
LEMMA HoldSees ==
  ASSUME IInv, IInv', ItemsCounted, NEW r \in Requests, request[r] # NoRequest,
         NEW c \in ActiveCarts(request[r].user), NEW s, Hold(r, s, c),
         UNCHANGED <<cart, active, asked, crossed, shop>>
  PROVE  ItemsCounted'
  <1> DEFINE seen == Kept(request[r].op, cart[c])
             w == [request[r] EXCEPT !.stage = s, !.cart = c, !.seen = seen]
  <1>1. /\ c \in Carts /\ cart[c].status = "ACTIVE" /\ cart[c] \in Cart /\ order[c] = Undefined
    <2>1. c \in Carts /\ cart[c].status = "ACTIVE" /\ cart[c] \in Cart
      BY DEF ActiveCarts, IInv, TypeOK
    <2> QED BY <2>1 DEF ItemsCounted, OrdersClose
  <1>2. request' = [request EXCEPT ![r] = w]
    BY DEF Hold, IInv, TypeOK
  <1>3. w.cart = c /\ w.seen = seen
    BY RequestFields DEF IInv, Request
  <1>4. request'[r] = w
    BY <1>2 DEF IInv, TypeOK
  <1>5. ASSUME NEW v \in Variants
        PROVE  seen.made[v] <= cart[c].made[v] /\ seen.items[v] <= asked[c][v]
    <2>1. seen.items[v] <= cart[c].items[v] /\ seen.made[v] <= cart[c].made[v]
      BY <1>1, KeptLess
    <2>2. cart[c].items[v] + Ordered(c, v) <= asked[c][v]
      BY <1>1, HeldIsOrdered DEF ItemsCounted, NothingOrderedTwice
    <2>3. /\ cart[c].items[v] \in Nat /\ asked[c][v] \in Nat /\ Ordered(c, v) \in Nat
          /\ seen.items[v] \in Nat
      <3>1. seen \in Cart
        BY <1>1, KeptIsCart
      <3>2. seen.items[v] \in Nat
        BY <3>1 DEF Cart, Items
      <3> QED BY <1>1, <3>2, CartNumbers DEF IInv
    <2>4. seen.items[v] <= asked[c][v]
      BY <2>1, <2>2, <2>3
    <2> QED BY <2>1, <2>4
  <1>6. UNCHANGED <<cart, order, asked>>
    BY DEF shop
  <1> HIDE DEF seen, w
  <1>7. Sees(request[r])'
    BY <1>1, <1>3, <1>4, <1>5, <1>6 DEF Sees
  <1>8. \A t \in Requests : Follows(t)
    BY <1>2, <1>7, OthersFollow DEF IInv
  <1> QED BY <1>6, <1>8, CartsAsTheyAre

\* Request r goes on without having read a cart.
LEMMA RequestGoesOn ==
  ASSUME IInv, IInv', ItemsCounted, NEW r \in Requests, NEW w, request' = [request EXCEPT ![r] = w],
         \/ w = NoRequest
         \/ w.stage \notin Holding
         \/ Holds(r) /\ w.cart = request[r].cart /\ w.seen = request[r].seen,
         UNCHANGED <<cart, order, asked>>
  PROVE  ItemsCounted'
  BY OthersFollow, CartsAsTheyAre DEF IInv

LEMMA AnswerTurns ==
  ASSUME TypeOK, NEW r \in Requests, request[r] # NoRequest, Answer(r)
  PROVE  \A s \in Requests : Follows(s)
  <1>1. PICK w \in Request : request' = [request EXCEPT ![r] = w] /\ w.stage = "reopen"
    BY Answered
  <1> QED BY <1>1, OthersFollow DEF Holding

LEMMA OpenCounts ==
  ASSUME IInv, IInv', ItemsCounted, NEW r \in Requests, OpenPointed(r) \/ FindCart(r) \/ FindItem(r)
  PROVE  ItemsCounted'
  <1> DEFINE q == request[r]
  <1>0. /\ q # NoRequest /\ q.user \in Users /\ q \in Request
        /\ UNCHANGED <<cart, active, asked, crossed, shop>>
    BY RequestFields DEF IInv, OpenPointed, FindCart, FindItem, At
  <1>1. UNCHANGED <<cart, order, asked>>
    BY <1>0 DEF shop
  <1>2. CASE OpenPointed(r)
    <2>1. active[q.user] \in ActiveCarts(q.user)
      BY <1>0, <1>2
      DEF OpenPointed, PointsToActive, ActiveCarts, IInv, CartsSound, PointersSound
    <2> QED BY <1>0, <1>2, <2>1, HoldSees DEF OpenPointed
  <1>3. CASE FindCart(r)
    <2>1. CASE request' = [request EXCEPT ![r].stage = IF q.stage = "open" THEN "new" ELSE "renew"]
      <3> DEFINE s == IF q.stage = "open" THEN "new" ELSE "renew"
      <3>1. PICK w : w = [q EXCEPT !.stage = s]
        OBVIOUS
      <3>2. request' = [request EXCEPT ![r] = w]
        BY <2>1, <3>1 DEF IInv, TypeOK
      <3>3. w.stage = s
        BY <1>0, <3>1 DEF Request
      <3> QED BY <1>1, <3>2, <3>3, RequestGoesOn DEF Holding
    <2>2. ASSUME NEW c \in ActiveCarts(q.user),
                 Hold(r, IF q.stage = "open" THEN "point" ELSE "repoint", c)
          PROVE  ItemsCounted'
      BY <1>0, <2>2, HoldSees
    <2> QED BY <1>3, <2>1, <2>2 DEF FindCart, FoundCarts
  <1>4. CASE FindItem(r)
    <2>1. CASE Answer(r)
      BY <1>0, <1>1, <2>1, AnswerTurns, CartsAsTheyAre DEF IInv
    <2>2. ASSUME NEW c \in ActiveCarts(q.user), Hold(r, "work", c)
          PROVE  ItemsCounted'
      BY <1>0, <2>2, HoldSees
    <2> QED BY <1>4, <2>1, <2>2 DEF FindItem
  <1> QED BY <1>2, <1>3, <1>4

LEMMA StartCounts ==
  ASSUME IInv, IInv', ItemsCounted, NEW r \in Requests, StartStep(r)
  PROVE  ItemsCounted'
  <1>1. PICK u \in Users, v \in Variants, n \in Quantities,
             op \in {"get", "add", "update", "remove", "apply", "unapply", "checkout"},
             k \in Coupons \cup {Undefined}, stage \in {"open", "reopen"} :
               Start(r, u, op, v, n, k, stage)
    BY DEF StartStep, OpenForRates
  <1>2. PICK w : w = [op |-> op, user |-> u, variant |-> v, quantity |-> n, coupon |-> k,
                      stage |-> stage, cart |-> Undefined, seen |-> NoCart]
    OBVIOUS
  <1>3. request' = [request EXCEPT ![r] = w] /\ w.stage = stage
        /\ UNCHANGED <<cart, order, asked>>
    BY <1>1, <1>2 DEF Start, shop
  <1> QED BY <1>3, RequestGoesOn DEF Holding

LEMMA PointCounts ==
  ASSUME IInv, IInv', ItemsCounted, NEW r \in Requests, PointToCart(r)
  PROVE  ItemsCounted'
  <1> DEFINE q == request[r]
  <1>1. /\ q # NoRequest /\ q.stage \in Holding /\ q \in Request
        /\ UNCHANGED <<cart, order, asked>>
    BY RequestFields DEF PointToCart, At, shop, Holding, IInv
  <1>2. CASE End(r)
    BY <1>1, <1>2, RequestGoesOn DEF End
  <1>3. CASE request' = [request EXCEPT ![r].stage = "work"]
    <2>1. PICK w : w = [q EXCEPT !.stage = "work"]
      OBVIOUS
    <2>2. request' = [request EXCEPT ![r] = w] /\ w.cart = q.cart /\ w.seen = q.seen
      BY <1>1, <1>3, <2>1 DEF IInv, TypeOK, Request
    <2> QED BY <1>1, <2>2, RequestGoesOn DEF Holds
  <1> QED BY <1>2, <1>3 DEF PointToCart

LEMMA ValidateCounts ==
  ASSUME IInv, IInv', ItemsCounted, NEW r \in Requests, ValidateCart(r)
  PROVE  ItemsCounted'
  <1> DEFINE q == request[r]
  <1>1. /\ q # NoRequest /\ q.stage \in Holding /\ q \in Request
        /\ UNCHANGED <<cart, order, asked>>
    BY RequestFields DEF ValidateCart, Working, At, shop, Holding, IInv
  <1>2. CASE End(r)
    BY <1>1, <1>2, RequestGoesOn DEF End
  <1>3. CASE request' = [request EXCEPT ![r].stage = "place"]
    <2>1. PICK w : w = [q EXCEPT !.stage = "place"]
      OBVIOUS
    <2>2. request' = [request EXCEPT ![r] = w] /\ w.cart = q.cart /\ w.seen = q.seen
      BY <1>1, <1>3, <2>1 DEF IInv, TypeOK, Request
    <2> QED BY <1>1, <2>2, RequestGoesOn DEF Holds
  <1> QED BY <1>2, <1>3 DEF ValidateCart

-----------------------------------------------------------------------------
(* Steps that write carts.                                                 *)

\* A row is written for cart c, whose order stays as it is: an item is taken
\* out or stays, is written over, or is created; it is asked for.
LEMMA Written ==
  ASSUME IInv, IInv', ItemsCounted, NEW c \in Carts, NEW x \in Cart, x.status = cart[c].status,
         cart' = [cart EXCEPT ![c] = x], UNCHANGED order,
         \A d \in Carts, v \in Variants : asked[d][v] <= asked'[d][v],
         \A v \in Variants :
           \/ x.items[v] <= cart[c].items[v] /\ x.made[v] = cart[c].made[v]
           \/ /\ cart[c].items[v] > 0 /\ x.made[v] = cart[c].made[v]
              /\ x.items[v] + Ordered(c, v) <= asked'[c][v]
           \/ /\ x.made[v] = cart[c].made[v] + 1
              /\ x.items[v] + Ordered(c, v) <= asked'[c][v],
         \A r \in Requests : Follows(r)
  PROVE  ItemsCounted'
  <1>1. cart'[c] = x /\ \A d \in Carts : d # c => cart'[d] = cart[d]
    BY DEF IInv, TypeOK
  <1>2. ASSUME NEW d \in Carts, NEW v \in Variants
        PROVE  /\ cart[d].items[v] \in Nat /\ cart[d].made[v] \in Nat /\ Ordered(d, v) \in Nat
               /\ asked[d][v] \in Nat /\ asked'[d][v] \in Nat
               /\ x.items[v] \in Nat /\ x.made[v] \in Nat
    <2>1. asked'[d][v] \in Nat
      BY DEF IInv, TypeOK, Items
    <2>2. x.items[v] \in Nat /\ x.made[v] \in Nat
      BY DEF Cart, Items
    <2> QED BY <2>1, <2>2, CartNumbers DEF IInv
  <1>3. ASSUME NEW d \in Carts PROVE Advances(d)
    <2>1. CASE d = c
      <3>1. ASSUME NEW v \in Variants
            PROVE  /\ cart[c].made[v] <= x.made[v] /\ asked[c][v] <= asked'[c][v]
                   /\ x.items[v] > 0 => cart[c].items[v] > 0 \/ cart[c].made[v] < x.made[v]
        BY <1>2
      <3> QED BY <1>1, <2>1, <3>1 DEF Advances
    <2>2. CASE d # c
      <3>1. ASSUME NEW v \in Variants
            PROVE  cart[d].made[v] <= cart[d].made[v] /\ asked[d][v] <= asked'[d][v]
        BY <1>2
      <3> QED BY <1>1, <2>2, <3>1 DEF Advances
    <2> QED BY <2>1, <2>2
  <1>4. RequestsSee'
    BY <1>3, RequestsSeeKept DEF ItemsCounted
  <1>5. NothingOrderedTwice'
    <2>1. ASSUME NEW d \in Carts, NEW v \in Variants
          PROVE  cart'[d].items[v] + Ordered(d, v) <= asked'[d][v]
      <3>1. cart[d].items[v] + Ordered(d, v) <= asked[d][v]
        BY HeldIsOrdered DEF ItemsCounted, NothingOrderedTwice
      <3>2. asked[d][v] <= asked'[d][v]
        OBVIOUS
      <3>3. CASE d = c
        <4>1. \/ x.items[v] <= cart[c].items[v]
              \/ x.items[v] + Ordered(c, v) <= asked'[c][v]
          OBVIOUS
        <4> QED BY <1>1, <1>2, <3>1, <3>2, <3>3, <4>1
      <3>4. CASE d # c
        BY <1>1, <1>2, <3>1, <3>2, <3>4
      <3> QED BY <3>3, <3>4
    <2>2. \A d \in Carts, v \in Variants : Held(d, v)' = cart'[d].items[v] + Ordered(d, v)
      BY DEF Held, Ordered
    <2> QED BY <2>1, <2>2 DEF NothingOrderedTwice
  <1>6. OrdersClose'
    BY <1>1 DEF ItemsCounted, OrdersClose
  <1> QED BY <1>4, <1>5, <1>6 DEF ItemsCounted

\* What is asked for counts.
LEMMA AskCounts ==
  ASSUME TypeOK, NEW c \in Carts, NEW v \in Variants, NEW n \in Nat, Ask(c, v, n)
  PROVE  /\ asked'[c][v] = asked[c][v] + n
         /\ \A d \in Carts, w \in Variants : asked[d][w] <= asked'[d][w]
  <1>1. asked \in [Carts -> Items] /\ asked' = [asked EXCEPT ![c] = [asked[c] EXCEPT ![v] = asked[c][v] + n]]
    BY DEF Ask, TypeOK
  <1>2. asked[c] \in Items
    BY <1>1
  <1>3. ASSUME NEW d \in Carts PROVE asked'[d] = IF d = c THEN [asked[c] EXCEPT ![v] = asked[c][v] + n] ELSE asked[d]
    BY <1>1
  <1>4. \A w \in Variants : [asked[c] EXCEPT ![v] = asked[c][v] + n][w] = IF w = v THEN asked[c][v] + n ELSE asked[c][w]
    BY <1>2 DEF Items
  <1>5. ASSUME NEW d \in Carts, NEW w \in Variants PROVE asked[d][w] <= asked'[d][w]
    <2>1. asked[d][w] \in Nat
      BY <1>1 DEF Items
    <2>2. asked'[d][w] \in {asked[d][w], asked[d][w] + n}
      BY <1>3, <1>4
    <2> QED BY <2>1, <2>2
  <1> QED BY <1>3, <1>4, <1>5

\* Item v of a cart is written: the row of the cart.
LEMMA ItemWritten ==
  ASSUME TypeOK, NEW c \in Carts, NEW v \in Variants, NEW n \in Nat, SetItem(c, v, n)
  PROVE  \E x \in Cart :
           /\ cart' = [cart EXCEPT ![c] = x] /\ x.status = cart[c].status
           /\ x.items[v] = n /\ x.made = cart[c].made
           /\ \A w \in Variants : w # v => x.items[w] = cart[c].items[w]
  <1>1. cart[c] \in Cart /\ cart[c].items \in Items /\ cart[c].made \in Items
    BY DEF TypeOK, Cart
  <1>2. PICK i : i = [cart[c].items EXCEPT ![v] = n]
    OBVIOUS
  <1>3. PICK x : x = [cart[c] EXCEPT !.items = i]
    OBVIOUS
  <1>4. i \in Items /\ i[v] = n /\ \A w \in Variants : w # v => i[w] = cart[c].items[w]
    BY <1>1, <1>2 DEF Items
  <1>5. x \in Cart /\ x.items = i /\ x.made = cart[c].made /\ x.status = cart[c].status
    BY <1>1, <1>3, <1>4 DEF Cart
  <1>6. cart' = [cart EXCEPT ![c] = x]
    BY <1>1, <1>2, <1>3 DEF SetItem, TypeOK
  <1> QED BY <1>4, <1>5, <1>6

\* Item v of a cart is created, with an id that no item had.
LEMMA ItemMade ==
  ASSUME TypeOK, NEW c \in Carts, NEW v \in Variants, NEW n \in Nat, CreateItem(c, v, n)
  PROVE  \E x \in Cart :
           /\ cart' = [cart EXCEPT ![c] = x] /\ x.status = cart[c].status
           /\ x.items[v] = n /\ x.made[v] = cart[c].made[v] + 1
           /\ \A w \in Variants :
                w # v => x.items[w] = cart[c].items[w] /\ x.made[w] = cart[c].made[w]
  <1>1. cart[c] \in Cart /\ cart[c].items \in Items /\ cart[c].made \in Items
    BY DEF TypeOK, Cart
  <1>2. PICK i, m : /\ i = [cart[c].items EXCEPT ![v] = n]
                    /\ m = [cart[c].made EXCEPT ![v] = cart[c].made[v] + 1]
    OBVIOUS
  <1>3. PICK x : x = [cart[c] EXCEPT !.items = i, !.made = m]
    OBVIOUS
  <1>4. i \in Items /\ i[v] = n /\ \A w \in Variants : w # v => i[w] = cart[c].items[w]
    BY <1>1, <1>2 DEF Items
  <1>5. /\ m \in Items /\ m[v] = cart[c].made[v] + 1
        /\ \A w \in Variants : w # v => m[w] = cart[c].made[w]
    BY <1>1, <1>2 DEF Items
  <1>6. x \in Cart /\ x.items = i /\ x.made = m /\ x.status = cart[c].status
    BY <1>1, <1>3, <1>4, <1>5 DEF Cart
  <1>7. cart' = [cart EXCEPT ![c] = [cart[c] EXCEPT !.items[v] = n, !.made[v] = @ + 1]]
    BY DEF CreateItem, TypeOK
  <1>8. [cart[c] EXCEPT !.items[v] = n, !.made[v] = @ + 1] = x
    BY <1>1, <1>2, <1>3 DEF Cart
  <1> QED BY <1>4, <1>5, <1>6, <1>7, <1>8

\* A request that holds a cart has seen it.
LEMMA HolderSees ==
  ASSUME IInv, ItemsCounted, NEW r \in Requests, request[r] # NoRequest, request[r].stage \in Holding
  PROVE  /\ request[r].cart \in Carts /\ cart[request[r].cart] \in Cart /\ Sees(request[r])
         /\ request[r].seen \in Cart /\ request[r].variant \in Variants
         /\ request[r].quantity \in Nat \ {0}
  BY HeldCart, RequestFields DEF ItemsCounted, RequestsSee, Holds, IInv

\* Item v of the request's cart is set, and no more is asked for than n needs.
LEMMA SetCounts ==
  ASSUME IInv, IInv', ItemsCounted, NEW c \in Carts, NEW v \in Variants, NEW n \in Nat,
         SetItem(c, v, n), UNCHANGED order,
         cart[c].items[v] > 0,
         n + Ordered(c, v) <= asked'[c][v],
         \A d \in Carts, w \in Variants : asked[d][w] <= asked'[d][w],
         \A s \in Requests : Follows(s)
  PROVE  ItemsCounted'
  <1>1. PICK x \in Cart :
          /\ cart' = [cart EXCEPT ![c] = x] /\ x.status = cart[c].status
          /\ x.items[v] = n /\ x.made = cart[c].made
          /\ \A w \in Variants : w # v => x.items[w] = cart[c].items[w]
    BY ItemWritten DEF IInv
  <1>2. \A w \in Variants :
          \/ x.items[w] <= cart[c].items[w] /\ x.made[w] = cart[c].made[w]
          \/ /\ cart[c].items[w] > 0 /\ x.made[w] = cart[c].made[w]
             /\ x.items[w] + Ordered(c, w) <= asked'[c][w]
    <2>1. ASSUME NEW w \in Variants, w # v PROVE x.items[w] <= cart[c].items[w]
      BY <1>1, <2>1, CartNumbers DEF IInv
    <2> QED BY <1>1, <2>1
  <1> QED BY <1>1, <1>2, Written

LEMMA AddCounts ==
  ASSUME IInv, IInv', ItemsCounted, NEW r \in Requests, AddItem(r)
  PROVE  ItemsCounted'
  <1> DEFINE q == request[r]
             c == q.cart
             v == q.variant
             n == q.seen.items[v] + q.quantity
  <1>1. /\ q # NoRequest /\ q.stage \in Holding /\ Answer(r) /\ Ask(c, v, q.quantity)
        /\ UNCHANGED order
    BY DEF AddItem, Working, At, Holding, shop
  <1>2. /\ c \in Carts /\ Sees(q) /\ q.seen \in Cart /\ v \in Variants /\ q.quantity \in Nat \ {0}
    BY <1>1, HolderSees
  <1>3. /\ cart[c].items[v] \in Nat /\ asked[c][v] \in Nat /\ Ordered(c, v) \in Nat
        /\ q.seen.items[v] \in Nat /\ q.seen.made[v] \in Nat /\ cart[c].made[v] \in Nat
    <2>1. q.seen.items[v] \in Nat /\ q.seen.made[v] \in Nat
      BY <1>2 DEF Cart, Items
    <2> QED BY <1>2, <2>1, CartNumbers DEF IInv
  <1>4. /\ asked'[c][v] = asked[c][v] + q.quantity
        /\ \A d \in Carts, w \in Variants : asked[d][w] <= asked'[d][w]
    BY <1>1, <1>2, AskCounts DEF IInv
  <1>5. \A s \in Requests : Follows(s)
    BY <1>1, AnswerTurns DEF IInv
  <1>6. cart[c].items[v] + Ordered(c, v) <= asked[c][v] /\ q.seen.items[v] <= asked[c][v]
    BY <1>2, HeldIsOrdered DEF ItemsCounted, NothingOrderedTwice, Sees
  <1>7. CASE q.seen.items[v] > 0
    <2>1. SameItem(q) /\ SetItem(c, v, n)
      BY <1>7 DEF AddItem
    <2>2. cart[c].items[v] > 0 /\ cart[c].made[v] = q.seen.made[v]
      BY <2>1 DEF SameItem
    <2>3. order[c] = Undefined
      BY <1>2, <1>3, <1>7, <2>2 DEF Sees
    <2>4. n \in Nat /\ n + Ordered(c, v) <= asked'[c][v]
      BY <1>2, <1>3, <1>4, <1>6, <2>3 DEF Ordered
    <2> HIDE DEF n
    <2> QED BY <1>1, <1>2, <1>4, <1>5, <2>1, <2>2, <2>4, SetCounts
  <1>8. CASE ~(q.seen.items[v] > 0)
    <2>1. CreateItem(c, v, n) /\ cart[c].items[v] = 0
      BY <1>8 DEF AddItem, CreateItem
    <2>2. n = q.quantity /\ n \in Nat
      BY <1>2, <1>3, <1>8
    <2> HIDE DEF n
    <2>3. PICK x \in Cart :
            /\ cart' = [cart EXCEPT ![c] = x] /\ x.status = cart[c].status
            /\ x.items[v] = n /\ x.made[v] = cart[c].made[v] + 1
            /\ \A w \in Variants :
                 w # v => x.items[w] = cart[c].items[w] /\ x.made[w] = cart[c].made[w]
      BY <1>2, <2>1, <2>2, ItemMade DEF IInv
    <2>4. x.items[v] + Ordered(c, v) <= asked'[c][v]
      BY <1>2, <1>3, <1>4, <1>6, <2>2, <2>3
    <2>5. ASSUME NEW w \in Variants, w # v PROVE x.items[w] <= cart[c].items[w]
      BY <1>2, <2>3, <2>5, CartNumbers DEF IInv
    <2>6. \A w \in Variants :
            \/ x.items[w] <= cart[c].items[w] /\ x.made[w] = cart[c].made[w]
            \/ x.made[w] = cart[c].made[w] + 1 /\ x.items[w] + Ordered(c, w) <= asked'[c][w]
      BY <2>3, <2>4, <2>5
    <2> QED BY <1>1, <1>2, <1>4, <1>5, <2>3, <2>6, Written
  <1> QED BY <1>7, <1>8

LEMMA UpdateCounts ==
  ASSUME IInv, IInv', ItemsCounted, NEW r \in Requests, UpdateItem(r)
  PROVE  ItemsCounted'
  <1> DEFINE q == request[r]
             c == q.cart
             v == q.variant
  <1>1. /\ q # NoRequest /\ q.stage \in Holding /\ Answer(r) /\ Ask(c, v, q.quantity)
        /\ SetItem(c, v, q.quantity) /\ cart[c].items[v] > 0 /\ UNCHANGED order
    BY DEF UpdateItem, SameItem, Working, At, Holding, shop
  <1>2. c \in Carts /\ v \in Variants /\ q.quantity \in Nat
    BY <1>1, HolderSees
  <1>3. /\ asked'[c][v] = asked[c][v] + q.quantity
        /\ \A d \in Carts, w \in Variants : asked[d][w] <= asked'[d][w]
    BY <1>1, <1>2, AskCounts DEF IInv
  <1>4. q.quantity + Ordered(c, v) <= asked'[c][v]
    <2>1. cart[c].items[v] + Ordered(c, v) <= asked[c][v]
      BY <1>2, HeldIsOrdered DEF ItemsCounted, NothingOrderedTwice
    <2>2. cart[c].items[v] \in Nat /\ asked[c][v] \in Nat /\ Ordered(c, v) \in Nat
      BY <1>2, CartNumbers DEF IInv
    <2> QED BY <1>2, <1>3, <2>1, <2>2
  <1>5. \A s \in Requests : Follows(s)
    BY <1>1, AnswerTurns DEF IInv
  <1> QED BY <1>1, <1>2, <1>3, <1>4, <1>5, SetCounts

LEMMA RemoveCounts ==
  ASSUME IInv, IInv', ItemsCounted, NEW r \in Requests, RemoveItem(r)
  PROVE  ItemsCounted'
  <1> DEFINE q == request[r]
             c == q.cart
             v == q.variant
  <1>1. /\ q # NoRequest /\ q.stage \in Holding /\ Answer(r)
        /\ SetItem(c, v, 0) /\ cart[c].items[v] > 0 /\ UNCHANGED <<order, asked>>
    BY DEF RemoveItem, SameItem, Working, At, Holding, shop
  <1>2. c \in Carts /\ v \in Variants
    BY <1>1, HolderSees
  <1>3. \A d \in Carts, w \in Variants : asked[d][w] <= asked'[d][w]
    <2>1. \A d \in Carts, w \in Variants : asked[d][w] \in Nat
      BY CartNumbers DEF IInv
    <2> QED BY <1>1, <2>1
  <1>4. 0 + Ordered(c, v) <= asked'[c][v]
    <2>1. cart[c].items[v] + Ordered(c, v) <= asked[c][v]
      BY <1>2, HeldIsOrdered DEF ItemsCounted, NothingOrderedTwice
    <2>2. cart[c].items[v] \in Nat /\ asked[c][v] \in Nat /\ Ordered(c, v) \in Nat
      BY <1>2, CartNumbers DEF IInv
    <2> QED BY <1>1, <2>1, <2>2
  <1>5. \A s \in Requests : Follows(s)
    BY <1>1, AnswerTurns DEF IInv
  <1> QED BY <1>1, <1>2, <1>3, <1>4, <1>5, SetCounts

\* Items are taken out of a cart, or its coupon changes.
LEMMA LessCounts ==
  ASSUME IInv, IInv', ItemsCounted, NEW c \in Carts, NEW x \in Cart, x.status = cart[c].status,
         cart' = [cart EXCEPT ![c] = x], UNCHANGED <<order, asked>>,
         x.made = cart[c].made, \A v \in Variants : x.items[v] \in {0, cart[c].items[v]},
         \A s \in Requests : Follows(s)
  PROVE  ItemsCounted'
  <1>1. \A d \in Carts, v \in Variants : asked[d][v] <= asked'[d][v]
    <2>1. \A d \in Carts, v \in Variants : asked[d][v] \in Nat
      BY CartNumbers DEF IInv
    <2> QED BY <2>1
  <1>2. ASSUME NEW v \in Variants PROVE x.items[v] <= cart[c].items[v]
    <2>1. cart[c].items[v] \in Nat
      BY CartNumbers DEF IInv
    <2> QED BY <2>1
  <1>3. \A v \in Variants : x.items[v] <= cart[c].items[v] /\ x.made[v] = cart[c].made[v]
    BY <1>2
  <1> QED BY <1>1, <1>3, Written

LEMMA EmptyingCounts ==
  ASSUME IInv, IInv', ItemsCounted, NEW r \in Requests,
         DropUnavailable(r) \/ ClearItems(r) \/ RemoveCoupon(r) \/ ApplyCoupon(r)
  PROVE  ItemsCounted'
  <1> DEFINE q == request[r]
             c == q.cart
  <1>1. q # NoRequest /\ q.stage \in Holding /\ UNCHANGED <<order, asked>>
    BY DEF DropUnavailable, ClearItems, RemoveCoupon, ApplyCoupon, Working, At, Holding, shop
  <1>2. c \in Carts /\ cart[c] \in Cart /\ q \in Request /\ q.coupon \in Coupons \cup {Undefined}
    BY <1>1, HolderSees, RequestFields DEF IInv
  <1>3. CASE DropUnavailable(r)
    <2>1. PICK kept : kept = [v \in Variants |->
                                IF variant[v].status = "ACTIVE" /\ variant[v].listed
                                THEN cart[c].items[v] ELSE 0]
      OBVIOUS
    <2>2. PICK x : x = [cart[c] EXCEPT !.items = kept]
      OBVIOUS
    <2>3. kept \in Items /\ \A v \in Variants : kept[v] \in {0, cart[c].items[v]}
      BY <1>2, <2>1 DEF Cart, Items
    <2>4. x \in Cart /\ x.status = cart[c].status /\ x.made = cart[c].made /\ x.items = kept
      BY <1>2, <2>2, <2>3 DEF Cart
    <2>5. cart' = [cart EXCEPT ![c] = x] /\ Answer(r)
      BY <1>2, <1>3, <2>1, <2>2 DEF DropUnavailable, IInv, TypeOK
    <2>6. \A s \in Requests : Follows(s)
      BY <1>1, <2>5, AnswerTurns DEF IInv
    <2> QED BY <1>1, <1>2, <2>3, <2>4, <2>5, <2>6, LessCounts
  <1>4. CASE ClearItems(r)
    <2>1. PICK x : x = [cart[c] EXCEPT !.items = NoItems]
      OBVIOUS
    <2>2. /\ x \in Cart /\ x.status = cart[c].status /\ x.made = cart[c].made
          /\ \A v \in Variants : x.items[v] \in {0, cart[c].items[v]}
      BY <1>2, <2>1, Constants DEF Cart, NoItems
    <2>3. cart' = [cart EXCEPT ![c] = x]
      BY <1>2, <1>4, <2>1 DEF ClearItems, IInv, TypeOK
    <2>4. PICK w : w = [q EXCEPT !.op = "unapply"]
      OBVIOUS
    <2>5. request' = [request EXCEPT ![r] = w] /\ w.cart = q.cart /\ w.seen = q.seen
      BY <1>2, <1>4, <2>4 DEF ClearItems, IInv, TypeOK, Request
    <2>6. \A s \in Requests : Follows(s)
      BY <1>1, <2>5, OthersFollow DEF IInv, Holds
    <2> QED BY <1>1, <1>2, <2>2, <2>3, <2>6, LessCounts
  <1>5. CASE RemoveCoupon(r) \/ ApplyCoupon(r)
    <2>1. PICK k \in Coupons \cup {Undefined} : cart' = [cart EXCEPT ![c].coupon = k] /\ Answer(r)
      BY <1>2, <1>5 DEF RemoveCoupon, ApplyCoupon
    <2>2. PICK x : x = [cart[c] EXCEPT !.coupon = k]
      OBVIOUS
    <2>3. /\ x \in Cart /\ x.status = cart[c].status /\ x.made = cart[c].made
          /\ \A v \in Variants : x.items[v] \in {0, cart[c].items[v]}
      BY <1>2, <2>2 DEF Cart
    <2>4. cart' = [cart EXCEPT ![c] = x]
      BY <1>2, <2>1, <2>2 DEF IInv, TypeOK
    <2>5. \A s \in Requests : Follows(s)
      BY <1>1, <2>1, AnswerTurns DEF IInv
    <2> QED BY <1>1, <1>2, <2>3, <2>4, <2>5, LessCounts
  <1> QED BY <1>3, <1>4, <1>5

\* A cart is created that nothing holds.
LEMMA CreateCounts ==
  ASSUME IInv, IInv', ItemsCounted, NEW r \in Requests, CreateCart(r)
  PROVE  ItemsCounted'
  <1> DEFINE q == request[r]
  <1>1. /\ q # NoRequest /\ q.user \in Users /\ q \in Request
        /\ UNCHANGED <<order, asked>>
    BY RequestFields DEF CreateCart, At, shop, IInv
  <1>2. PICK n \in 1 .. MaxCarts :
          /\ cart[<<q.user, n>>].status = "NONE"
          /\ cart' = [cart EXCEPT ![<<q.user, n>>] = EmptyCart]
          /\ request' = [request EXCEPT
               ![r].stage = IF q.stage = "new" THEN "point" ELSE "repoint",
               ![r].cart = <<q.user, n>>, ![r].seen = Kept(q.op, EmptyCart)]
    BY DEF CreateCart
  <1>3. PICK c \in Carts : c = <<q.user, n>>
    BY <1>1, Constants
  <1>4. PICK seen : seen = Kept(q.op, EmptyCart)
    OBVIOUS
  <1>5. PICK w : w = [q EXCEPT !.stage = IF q.stage = "new" THEN "point" ELSE "repoint",
                               !.cart = c, !.seen = seen]
    OBVIOUS
  <1>6. request' = [request EXCEPT ![r] = w] /\ w.cart = c /\ w.seen = seen
    BY <1>1, <1>2, <1>3, <1>4, <1>5 DEF IInv, TypeOK, Request
  <1>7. /\ cart'[c] = EmptyCart /\ \A d \in Carts : d # c => cart'[d] = cart[d]
        /\ cart[c].status = "NONE" /\ order[c] = Undefined
    BY <1>2, <1>3 DEF IInv, TypeOK, ItemsCounted, OrdersClose
  <1>8. \A v \in Variants : EmptyCart.items[v] = 0 /\ EmptyCart.made[v] = 0
    BY DEF EmptyCart, NoCart, NoItems
  <1>9. \A v \in Variants : seen.items[v] <= 0 /\ seen.made[v] <= 0
    BY <1>4, <1>8, KeptLess, Constants
  <1>10. \A d \in Carts, v \in Variants : asked[d][v] \in Nat /\ cart[d].made[v] \in Nat
    BY CartNumbers DEF IInv
  <1>11. Sees(request[r])'
    <2>1. request'[r] = w
      BY <1>6 DEF IInv, TypeOK
    <2>2. \A v \in Variants : seen.items[v] <= asked[c][v]
      <3>1. ASSUME NEW v \in Variants PROVE seen.items[v] <= asked[c][v]
        <4>1. seen \in Cart
          BY <1>4, KeptIsCart, Constants
        <4>2. seen.items[v] \in Nat
          BY <4>1 DEF Cart, Items
        <4> QED BY <1>9, <1>10, <4>2
      <3> QED BY <3>1
    <2> QED BY <1>1, <1>6, <1>7, <1>8, <1>9, <2>1, <2>2, Constants DEF Sees
  <1>12. \A s \in Requests : Follows(s)
    BY <1>6, <1>11, OthersFollow DEF IInv
  <1>13. ASSUME NEW d \in Carts PROVE Advances(d)
    BY <1>1, <1>7, <1>10 DEF Advances
  <1>14. RequestsSee'
    BY <1>12, <1>13, RequestsSeeKept DEF ItemsCounted
  <1>15. NothingOrderedTwice'
    <2>1. ASSUME NEW d \in Carts, NEW v \in Variants
          PROVE  cart'[d].items[v] + Ordered(d, v) <= asked[d][v]
      <3>1. cart[d].items[v] + Ordered(d, v) <= asked[d][v]
        BY HeldIsOrdered DEF ItemsCounted, NothingOrderedTwice
      <3>2. cart[d].items[v] \in Nat /\ Ordered(d, v) \in Nat
        BY CartNumbers DEF IInv
      <3> QED BY <1>7, <1>8, <1>10, <3>1, <3>2
    <2>2. \A d \in Carts, v \in Variants : Held(d, v)' = cart'[d].items[v] + Ordered(d, v)
      BY <1>1 DEF Held, Ordered
    <2> QED BY <1>1, <2>1, <2>2 DEF NothingOrderedTwice
  <1>16. OrdersClose'
    BY <1>1, <1>7 DEF ItemsCounted, OrdersClose
  <1> QED BY <1>14, <1>15, <1>16 DEF ItemsCounted

\* A cart is closed for an order of items that were asked for.
LEMMA ClosingCounts ==
  ASSUME IInv, IInv', ItemsCounted, NEW c \in Carts, CloseCart(c), UNCHANGED asked,
         \A d \in Carts : d # c => order'[d] = order[d],
         order'[c] # Undefined, \A v \in Variants : order'[c].items[v] <= asked[c][v],
         \A s \in Requests : Follows(s)
  PROVE  ItemsCounted'
  <1>1. /\ cart'[c] = Closed(c) /\ \A d \in Carts : d # c => cart'[d] = cart[d]
    BY DEF CloseCart, IInv, TypeOK
  <1>2. /\ cart'[c].status = "CHECKED_OUT" /\ cart'[c].made = cart[c].made
        /\ \A v \in Variants : cart'[c].items[v] = 0
    BY <1>1, ClosedCart DEF IInv, NoItems
  <1>3. \A d \in Carts, v \in Variants : asked[d][v] \in Nat /\ cart[d].made[v] \in Nat
    BY CartNumbers DEF IInv
  <1>4. ASSUME NEW d \in Carts PROVE Advances(d)
    BY <1>1, <1>2, <1>3 DEF Advances
  <1>5. RequestsSee'
    BY <1>4, RequestsSeeKept DEF ItemsCounted
  <1>6. NothingOrderedTwice'
    <2>1. ASSUME NEW d \in Carts, NEW v \in Variants PROVE Held(d, v)' <= asked[d][v]
      <3>1. CASE d = c
        <4>1. order'[c].items[v] \in Nat
          <5>1. order'[c] \in Order
            BY DEF IInv, TypeOK
          <5> QED BY <5>1 DEF Order, Items
        <4>2. Held(d, v)' = order'[c].items[v]
          BY <1>2, <3>1, <4>1 DEF Held
        <4> QED BY <3>1, <4>2
      <3>2. CASE d # c
        <4>1. Held(d, v)' = Held(d, v)
          BY <1>1, <3>2 DEF Held
        <4> QED BY <4>1 DEF ItemsCounted, NothingOrderedTwice
      <3> QED BY <3>1, <3>2
    <2> QED BY <2>1 DEF NothingOrderedTwice
  <1>7. OrdersClose'
    BY <1>1, <1>2 DEF ItemsCounted, OrdersClose
  <1> QED BY <1>5, <1>6, <1>7 DEF ItemsCounted

LEMMA PlaceCounts ==
  ASSUME IInv, IInv', ItemsCounted, NEW r \in Requests, PlaceOrder(r)
  PROVE  ItemsCounted'
  <1> DEFINE q == request[r]
             c == q.cart
  <1>1. /\ q # NoRequest /\ q.stage \in Holding /\ End(r) /\ CloseCart(c) /\ UNCHANGED asked
    BY DEF PlaceOrder, At, Holding
  <1>2. c \in Carts /\ Sees(q) /\ q.seen \in Cart
    BY <1>1, HolderSees
  <1>3. PICK o : o = [items |-> q.seen.items, coupon |-> q.seen.coupon, paid |-> FALSE]
    OBVIOUS
  <1>4. order' = [order EXCEPT ![c] = o]
    BY <1>3 DEF PlaceOrder
  <1>5. order'[c] = o /\ \A d \in Carts : d # c => order'[d] = order[d]
    BY <1>2, <1>4 DEF IInv, TypeOK
  <1>6. o # Undefined
    <2>1. o \in Order
      BY <1>2, <1>3 DEF Cart, Order
    <2> QED BY <2>1, OrderAssumption
  <1>7. \A v \in Variants : order'[c].items[v] <= asked[c][v]
    BY <1>2, <1>3, <1>5 DEF Sees
  <1>8. \A s \in Requests : Follows(s)
    BY <1>1, OthersFollow DEF End, IInv
  <1> QED BY <1>1, <1>2, <1>5, <1>6, <1>7, <1>8, ClosingCounts

LEMMA ConfirmCounts ==
  ASSUME IInv, IInv', ItemsCounted, NEW c \in Carts, ConfirmOrder(c)
  PROVE  ItemsCounted'
  <1>1. /\ order[c] # Undefined /\ order[c] \in Order /\ CloseCart(c)
        /\ UNCHANGED <<request, asked>>
    BY DEF ConfirmOrder, IInv, TypeOK
  <1>2. PICK o : o = [order[c] EXCEPT !.paid = TRUE]
    OBVIOUS
  <1>3. o \in Order /\ o.items = order[c].items
    BY <1>1, <1>2 DEF Order
  <1>4. order'[c] = o /\ \A d \in Carts : d # c => order'[d] = order[d]
    BY <1>2 DEF ConfirmOrder, IInv, TypeOK
  <1>5. o # Undefined
    BY <1>3, OrderAssumption
  <1>6. ASSUME NEW v \in Variants PROVE o.items[v] <= asked[c][v]
    <2>1. cart[c].items[v] + Ordered(c, v) <= asked[c][v]
      BY HeldIsOrdered DEF ItemsCounted, NothingOrderedTwice
    <2>2. cart[c].items[v] \in Nat /\ asked[c][v] \in Nat /\ Ordered(c, v) \in Nat
      BY CartNumbers DEF IInv
    <2>3. Ordered(c, v) = o.items[v]
      BY <1>1, <1>3 DEF Ordered
    <2> QED BY <2>1, <2>2, <2>3
  <1>7. \A s \in Requests : Follows(s)
    BY <1>1 DEF Follows, Holds
  <1> QED BY <1>1, <1>4, <1>5, <1>6, <1>7, ClosingCounts

LEMMA ItemsCountedKept ==
  ASSUME IInv, IInv', ItemsCounted, [Next]_vars
  PROVE  ItemsCounted'
  <1>1. ASSUME NEW r \in Requests, StartStep(r) \/ OpenStep(r) \/ WorkStep(r) \/ GiveUp(r)
        PROVE  ItemsCounted'
    <2>1. CASE GiveUp(r)
      <3>1. End(r) /\ UNCHANGED <<cart, order, asked>>
        BY <2>1 DEF GiveUp, shop
      <3> QED BY <3>1, RequestGoesOn DEF End
    <2>2. CASE OpenStep(r)
      BY <2>2, OpenCounts, CreateCounts, PointCounts DEF OpenStep
    <2>3. CASE WorkStep(r)
      BY <2>3, AddCounts, UpdateCounts, RemoveCounts, EmptyingCounts, ValidateCounts, PlaceCounts
      DEF WorkStep
    <2> QED BY <1>1, <2>1, <2>2, <2>3, StartCounts
  <1>2. ASSUME UNCHANGED <<cart, order, asked, request>> PROVE ItemsCounted'
    BY <1>2, CartsAsTheyAre DEF Follows, Holds
  <1>3. ASSUME \/ \E k \in Coupons, s \in CouponStatus : SetCoupon(k, s)
               \/ \E v \in Variants : ToggleVariant(v)
               \/ UNCHANGED vars
        PROVE  UNCHANGED <<cart, order, asked, request>>
    BY <1>3 DEF SetCoupon, ToggleVariant, vars
  <1> QED BY <1>1, <1>2, <1>3, ConfirmCounts DEF Next

LEMMA ItemsCountedFirst ==
  ASSUME Init
  PROVE  ItemsCounted
  <1>1. /\ \A c \in Carts : order[c] = Undefined /\ cart[c] = NoCart
        /\ \A c \in Carts, v \in Variants : asked[c][v] = 0
        /\ \A r \in Requests : request[r] = NoRequest
    BY DEF Init, NoItems
  <1>2. \A v \in Variants : NoCart.items[v] = 0
    BY DEF NoCart, NoItems
  <1>3. \A c \in Carts, v \in Variants : Held(c, v) = 0
    BY <1>1, <1>2 DEF Held
  <1> QED BY <1>1, <1>3 DEF ItemsCounted, NothingOrderedTwice, OrdersClose, RequestsSee, Holds

\* Nothing is ordered twice: however the requests of a customer cross, at one
\* cart or another, and wherever they fail, the units in a cart and in its order
\* are units that requests have put in that cart.
THEOREM OrderedOnce == Spec => []NothingOrderedTwice
  <1>1. Init => ItemsCounted
    BY ItemsCountedFirst
  <1>2. IInv /\ IInv' /\ ItemsCounted /\ [Next]_vars => ItemsCounted'
    BY ItemsCountedKept
  <1>3. ItemsCounted => NothingOrderedTwice
    BY DEF ItemsCounted
  <1> QED BY <1>1, <1>2, <1>3, IInvAlways, PTL DEF Spec

\* The cart of an order is closed, for good: whatever requests were under way
\* when the order was made, none of them makes it active again.
THEOREM OrdersCloseCorrect == Spec => []OrdersClose
  <1>1. Init => ItemsCounted
    BY ItemsCountedFirst
  <1>2. IInv /\ IInv' /\ ItemsCounted /\ [Next]_vars => ItemsCounted'
    BY ItemsCountedKept
  <1>3. ItemsCounted => OrdersClose
    BY DEF ItemsCounted
  <1> QED BY <1>1, <1>2, <1>3, IInvAlways, PTL DEF Spec

=============================================================================

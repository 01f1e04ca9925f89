------------------------------ MODULE Accounts ------------------------------
(***************************************************************************)
(* What a customer has beside carts and orders: an account with a session, *)
(* a wishlist, reviews and notifications.                                  *)
(*                                                                         *)
(*  - AuthService for customers, and the storefront's customerRequest,     *)
(*    which answers a 401 with one refresh of its tokens and one retry.    *)
(*    The calls of a page run at once and share the tokens in the          *)
(*    browser's storage.                                                   *)
(*  - WishlistService, ReviewsService and NotificationsService, whose      *)
(*    handlers read, and write later with nothing held in between.         *)
(*                                                                         *)
(* Orders appear as far as these ask for them.                             *)
(***************************************************************************)
CONSTANTS
  Users,      \* email addresses, each of a customer to be
  Devices,    \* browsers
  UserOf,     \* UserOf[d]: whose browser d is
  Products,
  Calls,      \* calls of browsers, each made once
  Requests,   \* requests of admins, each made once
  Statuses,   \* statuses an admin gives a review
  Undefined   \* null

ASSUME UserOfAssumption == UserOf \in [Devices -> Users]
ASSUME StatusesAssumption == Statuses \subseteq {"PENDING", "APPROVED", "REJECTED"}

\* A refresh token is named by the sign-in or the call that it was minted for,
\* an item of a wishlist by the call that added it.
Tokens == Devices \cup Calls

ASSUME UndefinedAssumption == Undefined \notin Tokens \cup Users

\* The orders of a customer with a product: none, one at least that is CONFIRMED,
\* PROCESSING, SHIPPED or DELIVERED, or CANCELLED, RETURNED and REFUNDED ones only.
OrderStatus == {"NONE", "CONFIRMED", "CANCELLED"}

Review == [status: {"NONE", "PENDING", "APPROVED", "REJECTED"},
           verified: BOOLEAN, deleted: BOOLEAN]

VARIABLES
  account,  \* customers whose account is there
  blocked,  \* those whose account is no longer ACTIVE, or was deleted
  hash,     \* hash[u]: the refresh token User.refreshTokenHash was made of
  form,     \* form[d]: how far the sign-in of browser d is
  store,    \* store[d]: the refresh token in the storage of browser d, with the
            \* access token that was minted with it
  call,     \* call[c]: how far call c is
  left,     \* customers who have signed out on a browser
  lists,    \* customers with a wishlist
  wished,   \* the items of the wishlists
  review,   \* review[u][p]
  sent,     \* the notifications, by request and customer
  seen,     \* those marked as read
  request,  \* request[r]: how far request r of an admin is
  order     \* order[u][p]: what the orders of u with p in them are

signing == <<account, blocked, hash, form, store, left>>
wishing == <<lists, wished>>
vars == <<signing, call, wishing, review, sent, seen, request, order>>

New == [stage |-> "new"]
Done == [stage |-> "done"]

Ops == {"wish", "unwish", "wishes", "review", "read", "logout"}
Stages == {"sent", "denied", "refresh", "rotate", "rotated", "handle", "list",
           "create", "listed", "bought", "ok", "conflict", "failed", "unauthorized"}

\* retry: a 401 may still be retried; held: the refresh token being exchanged;
\* item: the item of a wishlist at hand; verified: the product was bought.
Call ==
  {New} \cup
  [stage: Stages, dev: Devices, op: Ops, target: Products \cup Requests \cup {Undefined},
   retry: BOOLEAN, held: Tokens \cup {Undefined},
   item: Calls \cup {Undefined}, verified: BOOLEAN]

Request ==
  {New, Done}
  \cup [stage: {"status"}, user: Users, product: Products, status: Statuses]
  \cup [stage: {"delete"}, user: Users, product: Products]
  \cup [stage: {"notify"}, users: SUBSET Users]

TypeOK ==
  /\ account \in SUBSET Users
  /\ blocked \in SUBSET account
  /\ hash \in [Users -> Tokens \cup {Undefined}]
  /\ form \in [Devices -> {"out", "register", "mint", "answer", "in"}]
  /\ store \in [Devices -> Tokens \cup {Undefined}]
  /\ call \in [Calls -> Call]
  /\ left \in SUBSET account
  /\ lists \in SUBSET account
  /\ wished \in SUBSET (lists \X Products \X Calls)
  /\ review \in [Users -> [Products -> Review]]
  /\ sent \in SUBSET (Requests \X account)
  /\ seen \in SUBSET sent
  /\ request \in [Requests -> Request]
  /\ order \in [Users -> [Products -> OrderStatus]]

Init ==
  /\ account = {}
  /\ blocked = {}
  /\ hash = [u \in Users |-> Undefined]
  /\ form = [d \in Devices |-> "out"]
  /\ store = [d \in Devices |-> Undefined]
  /\ call = [c \in Calls |-> New]
  /\ left = {}
  /\ lists = {}
  /\ wished = {}
  /\ review = [u \in Users |-> [p \in Products |->
                 [status |-> "NONE", verified |-> FALSE, deleted |-> FALSE]]]
  /\ sent = {}
  /\ seen = {}
  /\ request = [r \in Requests |-> New]
  /\ order = [u \in Users |-> [p \in Products |-> "NONE"]]

-----------------------------------------------------------------------------
(* Signing in: the login and the register page, registerCustomer and       *)
(* loginCustomer.                                                          *)

SignInAt(d, at) == form' = [form EXCEPT ![d] = at]

StartRegister(d) ==
  /\ form[d] = "out"
  /\ UserOf[d] \notin account
  /\ SignInAt(d, "register")
  /\ UNCHANGED <<account, blocked, hash, store, left, call, wishing, review, sent, seen, request, order>>

\* The unique email refuses a second account.
Register(d) ==
  /\ form[d] = "register"
  /\ SignInAt(d, IF UserOf[d] \in account THEN "out" ELSE "mint")
  /\ account' = account \cup {UserOf[d]}
  /\ UNCHANGED <<blocked, hash, store, left, call, wishing, review, sent, seen, request, order>>

\* An account that is not active is refused.
Login(d) ==
  /\ form[d] = "out"
  /\ UserOf[d] \in account \ blocked
  /\ SignInAt(d, "mint")
  /\ UNCHANGED <<account, blocked, hash, store, left, call, wishing, review, sent, seen, request, order>>

\* storeCustomerRefreshToken: one hash for all the browsers of a customer.
StoreRefreshToken(d) ==
  /\ form[d] = "mint"
  /\ SignInAt(d, "answer")
  /\ hash' = [hash EXCEPT ![UserOf[d]] = d]
  /\ UNCHANGED <<account, blocked, store, left, call, wishing, review, sent, seen, request, order>>

TakeTokens(d) ==
  /\ form[d] = "answer"
  /\ SignInAt(d, "in")
  /\ store' = [store EXCEPT ![d] = d]
  /\ UNCHANGED <<account, blocked, hash, left, call, wishing, review, sent, seen, request, order>>

-----------------------------------------------------------------------------
(* customerRequest and JwtAuthGuard.                                       *)

Goes(c, stage) == call' = [call EXCEPT ![c].stage = stage]

Who(c) == UserOf[call[c].dev]

At(c, stage, ops) == call[c].stage = stage /\ call[c].op \in ops

NewCall(d, op, target) ==
  [stage |-> "sent", dev |-> d, op |-> op, target |-> target,
   retry |-> TRUE, held |-> Undefined,
   item |-> Undefined, verified |-> FALSE]

Send(c, d, op, target) ==
  /\ call[c] = New
  /\ store[d] # Undefined
  /\ call' = [call EXCEPT ![c] = NewCall(d, op, target)]
  /\ UNCHANGED <<signing, wishing, review, sent, seen, request, order>>

\* signOut sends the logout and does not wait for the answer; the customer may
\* sign in again.
SignOut(c, d) ==
  /\ call[c] = New
  /\ store[d] # Undefined
  /\ call' = [call EXCEPT ![c] = NewCall(d, "logout", Undefined)]
  /\ store' = [store EXCEPT ![d] = Undefined]
  /\ left' = left \cup {UserOf[d]}
  /\ SignInAt(d, "out")
  /\ UNCHANGED <<account, blocked, hash, wishing, review, sent, seen, request, order>>

\* An access token lives for minutes, which may be over at any call but the one
\* that is retried with a new one.
Guard(c) ==
  /\ call[c].stage = "sent"
  /\ \/ Who(c) \notin blocked /\ Goes(c, "handle")
     \/ (Who(c) \in blocked \/ call[c].retry) /\ Goes(c, "denied")
  /\ UNCHANGED <<signing, wishing, review, sent, seen, request, order>>

\* Mutant: the tokens are taken out of the storage, lest they are used twice.
TakeRefresh(c) ==
  /\ call[c].stage = "denied"
  /\ LET token == store[call[c].dev]
     IN IF call[c].retry /\ token # Undefined
        THEN /\ call' = [call EXCEPT ![c].stage = "refresh", ![c].held = token]
             /\ store' = [store EXCEPT ![call[c].dev] = Undefined]
        ELSE Goes(c, "unauthorized") /\ UNCHANGED store
  /\ UNCHANGED <<account, blocked, hash, form, left, wishing, review, sent, seen, request, order>>

\* The 401 has come: the refresh token in the storage, if there is one still,
\* is sent in exchange for new tokens.
AskRefresh(c) ==
  /\ call[c].stage = "denied"
  /\ LET token == store[call[c].dev]
     IN call' = IF call[c].retry /\ token # Undefined
                THEN [call EXCEPT ![c].stage = "refresh", ![c].held = token]
                ELSE [call EXCEPT ![c].stage = "unauthorized"]
  /\ UNCHANGED <<signing, wishing, review, sent, seen, request, order>>

\* The refresh token's thirty days are over, the refresh is over the limit of
\* requests, or it fails before or after the new hash is stored: the call fails
\* with the 401 that it had.
RefreshFails(c) ==
  /\ call[c].stage \in {"refresh", "rotate", "rotated"}
  /\ Goes(c, "failed")
  /\ UNCHANGED <<signing, wishing, review, sent, seen, request, order>>

\* bcrypt reads the first 72 bytes of what it is given, and the refresh tokens
\* of a customer begin alike: a stored hash matches each of them.
Matches(token, hashed) == hashed # Undefined

\* refreshCustomerToken: the user as read now.
CompareHash(c) ==
  /\ call[c].stage = "refresh"
  /\ Goes(c, IF Who(c) \notin blocked /\ Matches(call[c].held, hash[Who(c)])
             THEN "rotate" ELSE "unauthorized")
  /\ UNCHANGED <<signing, wishing, review, sent, seen, request, order>>

\* Its storeCustomerRefreshToken, whatever the row has become.
Rotate(c) ==
  /\ call[c].stage = "rotate"
  /\ hash' = [hash EXCEPT ![Who(c)] = c]
  /\ Goes(c, "rotated")
  /\ UNCHANGED <<account, blocked, form, store, left, wishing, review, sent, seen, request, order>>

\* setAuthTokens, though the customer may have signed out; then the retry.
Retry(c) ==
  /\ call[c].stage = "rotated"
  /\ store' = [store EXCEPT ![call[c].dev] = c]
  /\ call' = [call EXCEPT ![c].stage = "sent", ![c].retry = FALSE]
  /\ UNCHANGED <<account, blocked, hash, form, left, wishing, review, sent, seen, request, order>>

Logout(c) ==
  /\ At(c, "handle", {"logout"})
  /\ hash' = [hash EXCEPT ![Who(c)] = Undefined]
  /\ Goes(c, "ok")
  /\ UNCHANGED <<account, blocked, form, store, left, wishing, review, sent, seen, request, order>>

-----------------------------------------------------------------------------
(* The wishlist.                                                           *)

\* A product is looked up before it is wished for or reviewed: it may be ACTIVE
\* and not deleted, or not.
FindProduct(c) ==
  /\ At(c, "handle", {"wish", "review"})
  /\ Goes(c, "list") \/ Goes(c, "failed")
  /\ UNCHANGED <<signing, wishing, review, sent, seen, request, order>>

\* The item of a customer's wishlist that is product p, if any.
ItemOf(u, p) ==
  IF \E i \in Calls : <<u, p, i>> \in wished
  THEN CHOOSE i \in Calls : <<u, p, i>> \in wished ELSE Undefined

\* getOrCreate: find the list with its items, or create it.
FindList(c) ==
  /\ At(c, "list", {"wish"}) \/ At(c, "handle", {"unwish", "wishes"})
  /\ call' = IF Who(c) \in lists
             THEN [call EXCEPT ![c].stage = "listed",
                               ![c].item = ItemOf(Who(c), call[c].target)]
             ELSE [call EXCEPT ![c].stage = "create"]
  /\ UNCHANGED <<signing, wishing, review, sent, seen, request, order>>

\* Mutant: a failure to create the list is taken for one to create the item.
ListRefused == "conflict"

\* What a handler answers when the list it creates has come to be there.
ListTaken == "failed"

CreateList(c) ==
  /\ call[c].stage = "create"
  /\ Goes(c, IF Who(c) \in lists THEN ListTaken ELSE "listed")
  /\ lists' = lists \cup {Who(c)}
  /\ UNCHANGED <<signing, wished, review, sent, seen, request, order>>

AddItem(c) ==
  /\ At(c, "listed", {"wish"})
  /\ IF ItemOf(Who(c), call[c].target) # Undefined
     THEN Goes(c, "conflict") /\ UNCHANGED wished
     ELSE Goes(c, "ok") /\ wished' = wished \cup {<<Who(c), call[c].target, c>>}
  /\ UNCHANGED <<signing, lists, review, sent, seen, request, order>>

\* The item is the one that was read: it may be gone.
RemoveItem(c) ==
  /\ At(c, "listed", {"unwish"})
  /\ LET item == <<Who(c), call[c].target, call[c].item>>
     IN /\ Goes(c, IF item \in wished THEN "ok" ELSE "failed")
        /\ wished' = wished \ {item}
  /\ UNCHANGED <<signing, lists, review, sent, seen, request, order>>

ShowList(c) ==
  /\ At(c, "listed", {"wishes"})
  /\ Goes(c, "ok")
  /\ UNCHANGED <<signing, wishing, review, sent, seen, request, order>>

-----------------------------------------------------------------------------
(* Reviews.                                                                *)

\* Mutant: the null of findFirst is taken for an order item.
NotUndefined(u, p) == TRUE

\* The order item that verifies a review, in any order.
HasBought(u, p) == order[u][p] = "CONFIRMED"

FindPurchase(c) ==
  /\ At(c, "list", {"review"})
  /\ call' = [call EXCEPT ![c].stage = "bought",
                          ![c].verified = HasBought(Who(c), call[c].target)]
  /\ UNCHANGED <<signing, wishing, review, sent, seen, request, order>>

\* One review of a product by a customer, deleted or not.
CreateReview(c) ==
  /\ call[c].stage = "bought"
  /\ LET u == Who(c)
         p == call[c].target
     IN IF review[u][p].status # "NONE"
        THEN Goes(c, "conflict") /\ UNCHANGED review
        ELSE /\ Goes(c, "ok")
             /\ review' = [review EXCEPT ![u][p] =
                  [status |-> "PENDING", verified |-> call[c].verified, deleted |-> FALSE]]
  /\ UNCHANGED <<signing, wishing, sent, seen, request, order>>

Ask(r, next) ==
  /\ request[r] = New
  /\ request' = [request EXCEPT ![r] = next]
  /\ UNCHANGED <<signing, call, wishing, review, sent, seen, order>>

Answer(r) == request' = [request EXCEPT ![r] = Done]

\* adminGet.
ReviewThere(u, p) == review[u][p].status # "NONE" /\ ~review[u][p].deleted

CheckReview(r, u, p, status) ==
  /\ ReviewThere(u, p)
  /\ Ask(r, [stage |-> "status", user |-> u, product |-> p, status |-> status])

UpdateStatus(r) ==
  /\ request[r].stage = "status"
  /\ review' = [review EXCEPT ![request[r].user][request[r].product].status =
                  request[r].status]
  /\ Answer(r)
  /\ UNCHANGED <<signing, call, wishing, sent, seen, order>>

CheckReviewToDelete(r, u, p) ==
  /\ ReviewThere(u, p)
  /\ Ask(r, [stage |-> "delete", user |-> u, product |-> p])

DeleteReview(r) ==
  /\ request[r].stage = "delete"
  /\ review' = [review EXCEPT ![request[r].user][request[r].product] =
                  [@ EXCEPT !.status = "REJECTED", !.deleted = TRUE]]
  /\ Answer(r)
  /\ UNCHANGED <<signing, call, wishing, sent, seen, order>>

\* Mutant: the status alone is asked for.
Approved(u, p) == review[u][p].status = "APPROVED"

\* publicProductReviews shows the review of p by u.
Shown(u, p) == review[u][p].status = "APPROVED" /\ ~review[u][p].deleted

-----------------------------------------------------------------------------
(* Notifications.                                                          *)

\* To one customer, or to all there are now.
FindUsers(r, users) ==
  /\ users = account \/ \E u \in account : users = {u}
  /\ Ask(r, [stage |-> "notify", users |-> users])

\* Mutant: written to all customers, not to those the row is for.
ToAll(r) == sent \cup ({r} \X Users)

\* The rows after the createMany of request r.
Notified(r) == sent \cup ({r} \X request[r].users)

CreateNotifications(r) ==
  /\ request[r].stage = "notify"
  /\ sent' = Notified(r)
  /\ Answer(r)
  /\ UNCHANGED <<signing, call, wishing, review, seen, order>>

MarkRead(c) ==
  /\ At(c, "handle", {"read"})
  /\ LET note == <<call[c].target, Who(c)>>
     IN /\ Goes(c, IF note \in sent THEN "ok" ELSE "failed")
        /\ seen' = IF note \in sent THEN seen \cup {note} ELSE seen
  /\ UNCHANGED <<signing, wishing, review, sent, request, order>>

-----------------------------------------------------------------------------
(* What the rest of the system does meanwhile.                             *)

\* Nothing in the backend blocks a customer: it is done in the database, for good.
Block(u) ==
  /\ u \in account \ blocked
  /\ blocked' = blocked \cup {u}
  /\ UNCHANGED <<account, hash, form, store, left, call, wishing, review, sent, seen, request, order>>

\* The first order with the product; the last that was CONFIRMED is not any more;
\* one is revived, or there is another.
OrderGoes(u, p, from, to) ==
  /\ u \in account
  /\ order[u][p] = from
  /\ order' = [order EXCEPT ![u][p] = to]
  /\ UNCHANGED <<signing, call, wishing, review, sent, seen, request>>

OrderStep(u, p) ==
  \/ OrderGoes(u, p, "NONE", "CONFIRMED")
  \/ OrderGoes(u, p, "CONFIRMED", "CANCELLED")
  \/ OrderGoes(u, p, "CANCELLED", "CONFIRMED")

-----------------------------------------------------------------------------
SignInStep(d) ==
  \/ StartRegister(d)
  \/ Register(d)
  \/ Login(d)
  \/ StoreRefreshToken(d)
  \/ TakeTokens(d)

ClientStep(c) ==
  \/ \E d \in Devices :
       \/ \E p \in Products, op \in {"wish", "unwish", "review"} : Send(c, d, op, p)
       \/ Send(c, d, "wishes", Undefined)
       \/ \E r \in Requests : Send(c, d, "read", r)
       \/ SignOut(c, d)
  \/ AskRefresh(c)
  \/ RefreshFails(c)
  \/ Retry(c)

ServerStep(c) ==
  \/ Guard(c)
  \/ CompareHash(c)
  \/ Rotate(c)
  \/ Logout(c)
  \/ FindProduct(c)
  \/ FindList(c)
  \/ CreateList(c)
  \/ AddItem(c)
  \/ RemoveItem(c)
  \/ ShowList(c)
  \/ FindPurchase(c)
  \/ CreateReview(c)
  \/ MarkRead(c)

AdminStep(r) ==
  \/ \E u \in Users, p \in Products :
       \/ \E status \in Statuses : CheckReview(r, u, p, status)
       \/ CheckReviewToDelete(r, u, p)
  \/ \E users \in SUBSET Users : FindUsers(r, users)
  \/ UpdateStatus(r)
  \/ DeleteReview(r)
  \/ CreateNotifications(r)

Next ==
  \/ \E d \in Devices : SignInStep(d)
  \/ \E c \in Calls : ClientStep(c) \/ ServerStep(c)
  \/ \E r \in Requests : AdminStep(r)
  \/ \E u \in Users : Block(u) \/ \E p \in Products : OrderStep(u, p)

Spec == Init /\ [][Next]_vars

-----------------------------------------------------------------------------
(* Properties.                                                             *)

\* No call turns away another: when the calls of a page, or two browsers, refresh
\* one session at once, each is served by its one retry, unless the customer has
\* signed out somewhere or was blocked, the refresh token's thirty days are over,
\* or the refresh itself is not answered.
ServedWhileSignedIn ==
  \A c \in Calls : call[c].stage = "unauthorized" => Who(c) \in left \cup blocked

\* A customer is told that the product is on the wishlist, or was reviewed
\* already, only when it is so, however two calls cross.
ConflictIsTrue ==
  [][\A c \in Calls :
       /\ call[c].stage \notin {"new", "conflict"}
       /\ call'[c].stage = "conflict"
       => LET u == Who(c)
              p == call[c].target
          IN IF call[c].op = "review" THEN review[u][p].status # "NONE"
             ELSE \E i \in Calls : <<u, p, i>> \in wished]_vars

\* A review is marked as a verified purchase only for a customer who has ordered
\* the product, if only to cancel the order between the check and the review.
VerifiedWasBought ==
  \A u \in Users, p \in Products : review[u][p].verified => order[u][p] # "NONE"

\* A deleted review is never shown again, although an approval that was checked
\* before makes it APPROVED after.
DeletedReviewStaysHidden ==
  [][\A u \in Users, p \in Products : review[u][p].deleted => ~Shown(u, p)']_vars
=============================================================================

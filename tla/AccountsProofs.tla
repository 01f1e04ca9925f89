--------------------------- MODULE AccountsProofs ---------------------------
(***************************************************************************)
(* Sessions, wishlists and reviews of any number of customers, browsers,   *)
(* calls and admins.                                                       *)
(***************************************************************************)
EXTENDS Accounts, TLAPS

\* A call that was sent.
Sent ==
  [stage: Stages, dev: Devices, op: Ops, target: Products \cup Requests \cup {Undefined},
   retry: BOOLEAN, held: Tokens \cup {Undefined},
   item: Calls \cup {Undefined}, verified: BOOLEAN]

\* What is true of a call k, for customers acc with lists li, hashes h, browsers'
\* storage s and orders ord, of whom le have signed out and
\* bl are blocked.
CallIn(k, acc, h, s, le, bl, li, ord) ==
  k # New =>
    LET u == UserOf[k.dev]
    IN /\ u \in acc
       /\ k.op \in {"wish", "unwish", "review"} => k.target \in Products
       /\ k.stage = "bought" => k.op = "review"
       /\ k.stage = "listed" => u \in li
       /\ k.stage = "denied" => k.retry \/ u \in bl
       /\ k.op = "logout" => u \in le
       /\ u \in le \/ (h[u] # Undefined /\ s[k.dev] # Undefined)
       /\ k.stage = "unauthorized" => u \in le \cup bl
       /\ k.verified => k.op = "review" /\ ord[u][k.target] # "NONE"

CallsSound == \A c \in Calls : CallIn(call[c], account, hash, store, left, blocked, lists, order)

\* A browser that signs in, or has, is of a customer that is there, and its
\* session can be refreshed until the customer signs out somewhere.
BrowsersSound ==
  \A d \in Devices :
    /\ form[d] \in {"mint", "answer", "in"} \/ store[d] # Undefined => UserOf[d] \in account
    /\ form[d] = "answer" \/ store[d] # Undefined =>
         hash[UserOf[d]] # Undefined \/ UserOf[d] \in left

NoticesSound == \A r \in Requests : request[r].stage = "notify" => request[r].users \subseteq account

IInv == TypeOK /\ BrowsersSound /\ CallsSound /\ NoticesSound /\ VerifiedWasBought

-----------------------------------------------------------------------------
LEMMA CallIsSent == Call = {New} \cup Sent /\ New \notin Sent
  BY DEF Call, Sent, New, Stages

LEMMA SentStage ==
  ASSUME TypeOK, NEW c \in Calls, call[c].stage \in Stages PROVE call[c] \in Sent /\ call[c] # New
  BY CallIsSent DEF TypeOK, New, Stages

\* A call goes on to stage s, and nothing else of it changes.
LEMMA StageChanges ==
  ASSUME NEW k \in Sent, NEW s \in Stages
  PROVE  LET n == [k EXCEPT !.stage = s]
         IN /\ n \in Sent
            /\ n.stage = s /\ n.dev = k.dev /\ n.op = k.op /\ n.target = k.target
            /\ n.retry = k.retry /\ n.verified = k.verified
  BY DEF Sent

LEMMA InitIInv == Init => IInv
  BY UserOfAssumption DEF Init, IInv, TypeOK, BrowsersSound, CallsSound, CallIn, NoticesSound,
     VerifiedWasBought, New, Done, Call, Request, Review, OrderStatus

\* The calls that are elsewhere, when the world moves on.
LEMMA OthersSound ==
  ASSUME TypeOK, CallsSound,
         account \subseteq account', left \subseteq left', blocked \subseteq blocked', lists \subseteq lists',
         \A u \in Users, p \in Products : order[u][p] # "NONE" => order'[u][p] # "NONE",
         \A u \in Users : u \in left' \/ (hash[u] # Undefined => hash'[u] # Undefined),
         \A d \in Devices :
           UserOf[d] \in left' \/ (store[d] # Undefined => store'[d] # Undefined)
  PROVE  \A c \in Calls : CallIn(call[c], account', hash', store', left', blocked', lists', order')
  <1> SUFFICES ASSUME NEW c \in Calls, call[c] # New
               PROVE  CallIn(call[c], account', hash', store', left', blocked', lists', order')
    BY DEF CallIn
  <1>1. CallIn(call[c], account, hash, store, left, blocked, lists, order)
    BY DEF CallsSound
  <1>2. call[c].dev \in Devices
    BY CallIsSent DEF TypeOK, Sent
  <1>3. UserOf[call[c].dev] \in Users
    BY <1>2, UserOfAssumption
  <1>4. call[c].verified => order'[UserOf[call[c].dev]][call[c].target] # "NONE"
    BY <1>1, <1>3 DEF CallIn
  <1> QED BY <1>1, <1>2, <1>3, <1>4 DEF CallIn

\* One call becomes k.
LEMMA CallsKept ==
  ASSUME TypeOK, NEW c \in Calls, NEW k,
         call' = [call EXCEPT ![c] = k],
         \A j \in Calls : CallIn(call[j], account', hash', store', left', blocked', lists', order'),
         CallIn(k, account', hash', store', left', blocked', lists', order')
  PROVE  CallsSound'
  BY DEF TypeOK, CallsSound

-----------------------------------------------------------------------------
(* Steps that only move a call on.                                         *)

\* The call goes to stage s, for which it is ready.
LEMMA MoveKeeps ==
  ASSUME IInv, NEW c \in Calls, call[c].stage \in Stages, NEW s \in Stages,
         Goes(c, s),
         UNCHANGED <<signing, wishing, review, sent, seen, request, order>>,
         s = "bought" => call[c].op = "review",
         s = "listed" => Who(c) \in lists,
         s = "denied" => call[c].retry \/ Who(c) \in blocked,
         s = "unauthorized" => Who(c) \in left \cup blocked
  PROVE  IInv'
  <1>1. call[c] \in Sent /\ call[c] # New
    BY SentStage DEF IInv
  <1> DEFINE k == [call[c] EXCEPT !.stage = s]
  <1>2. /\ k \in Sent
        /\ k.stage = s /\ k.dev = call[c].dev /\ k.op = call[c].op /\ k.target = call[c].target
        /\ k.retry = call[c].retry /\ k.verified = call[c].verified
    BY <1>1, StageChanges
  <1>3. call' = [call EXCEPT ![c] = k]
    BY DEF Goes
  <1>4. TypeOK'
    <2>1. call' \in [Calls -> Call]
      BY <1>2, <1>3, CallIsSent DEF IInv, TypeOK
    <2> QED BY <2>1 DEF IInv, TypeOK, signing, wishing
  <1>5. CallIn(call[c], account, hash, store, left, blocked, lists, order)
    BY DEF IInv, CallsSound
  <1>6. CallIn(k, account, hash, store, left, blocked, lists, order)
    BY <1>1, <1>2, <1>5 DEF CallIn, Who
  <1>7. CallsSound'
    <2>1. \A j \in Calls : CallIn(call[j], account', hash', store', left', blocked', lists', order')
      BY DEF IInv, CallsSound, signing, wishing
    <2>2. CallIn(k, account', hash', store', left', blocked', lists', order')
      BY <1>6 DEF signing, wishing
    <2> HIDE DEF k
    <2> QED BY <1>3, <2>1, <2>2, CallsKept DEF IInv
  <1> QED BY <1>4, <1>7 DEF IInv, BrowsersSound, NoticesSound, VerifiedWasBought,
       signing, wishing

-----------------------------------------------------------------------------
(* The storefront.                                                         *)

LEMMA NewCallSent ==
  ASSUME TypeOK, NEW d \in Devices, store[d] # Undefined, NEW op \in Ops,
         NEW target \in Products \cup Requests \cup {Undefined}
  PROVE  NewCall(d, op, target) \in Sent
  BY DEF TypeOK, NewCall, Sent, Stages

\* A call of a signed-in browser is sound, and so is a logout once the customer
\* counts as having left.
LEMMA NewCallSound ==
  ASSUME IInv, NEW d \in Devices, store[d] # Undefined, NEW op \in Ops,
         NEW target \in Products \cup Requests \cup {Undefined},
         op \in {"wish", "unwish", "review"} => target \in Products,
         NEW s, NEW le,
         left \subseteq le,
         UserOf[d] \in le \/ (op # "logout" /\ s[d] # Undefined)
  PROVE  CallIn(NewCall(d, op, target), account, hash, s, le, blocked, lists, order)
  BY DEF IInv, BrowsersSound, CallIn, NewCall

LEMMA SendKeeps ==
  ASSUME IInv, NEW c \in Calls, NEW d \in Devices, NEW op \in Ops \ {"logout"},
         NEW target \in Products \cup Requests \cup {Undefined},
         op \in {"wish", "unwish", "review"} => target \in Products,
         Send(c, d, op, target)
  PROVE  IInv'
  <1>1. NewCall(d, op, target) \in Sent
    BY NewCallSent DEF IInv, Send
  <1>2. TypeOK'
    <2>1. call' \in [Calls -> Call]
      BY <1>1, CallIsSent DEF IInv, TypeOK, Send
    <2> QED BY <2>1 DEF Send, IInv, TypeOK, signing, wishing
  <1>3. CallsSound'
    <2>1. \A j \in Calls : CallIn(call[j], account', hash', store', left', blocked', lists', order')
      BY DEF Send, IInv, CallsSound, signing, wishing
    <2>2. CallIn(NewCall(d, op, target), account, hash, store, left, blocked, lists, order)
      BY NewCallSound DEF Send
    <2>3. CallIn(NewCall(d, op, target), account', hash', store', left', blocked', lists', order')
      BY <2>2 DEF Send, signing, wishing
    <2>4. call' = [call EXCEPT ![c] = NewCall(d, op, target)]
      BY DEF Send
    <2> QED BY <2>1, <2>3, <2>4, CallsKept DEF IInv
  <1> QED BY <1>2, <1>3 DEF Send, IInv, BrowsersSound, NoticesSound, VerifiedWasBought,
       signing, wishing

LEMMA SignOutKeeps ==
  ASSUME IInv, NEW c \in Calls, NEW d \in Devices, SignOut(c, d)
  PROVE  IInv'
  <1> DEFINE k == NewCall(d, "logout", Undefined)
  <1>0. /\ store[d] # Undefined
        /\ call' = [call EXCEPT ![c] = k]
        /\ store' = [store EXCEPT ![d] = Undefined]
        /\ left' = left \cup {UserOf[d]}
        /\ form' = [form EXCEPT ![d] = "out"]
        /\ UNCHANGED <<account, blocked, hash, lists, wished, review, sent, seen, request, order>>
    BY DEF SignOut, SignInAt, wishing
  <1>1. k \in Sent
    BY <1>0, NewCallSent DEF IInv, Ops
  <1>2. UserOf[d] \in account
    BY <1>0 DEF IInv, BrowsersSound
  <1>3. TypeOK'
    <2>1. call' \in [Calls -> Call]
      BY <1>0, <1>1, CallIsSent DEF IInv, TypeOK
    <2>2. store' \in [Devices -> Tokens \cup {Undefined}] /\ left' \in SUBSET account
      BY <1>0, <1>2 DEF IInv, TypeOK
    <2>3. form' \in [Devices -> {"out", "register", "mint", "answer", "in"}]
      BY <1>0 DEF IInv, TypeOK
    <2> QED BY <1>0, <2>1, <2>2, <2>3 DEF IInv, TypeOK
  <1>4. CallsSound'
    <2>1. \A e \in Devices : UserOf[e] \in left' \/ (store[e] # Undefined => store'[e] # Undefined)
      BY <1>0 DEF IInv, TypeOK
    <2>2. \A j \in Calls : CallIn(call[j], account', hash', store', left', blocked', lists', order')
      BY <1>0, <2>1, OthersSound DEF IInv
    <2>3. CallIn(k, account, hash, store', left', blocked, lists, order)
      BY <1>0, NewCallSound DEF Ops
    <2>4. CallIn(k, account', hash', store', left', blocked', lists', order')
      BY <1>0, <2>3
    <2> HIDE DEF k
    <2> QED BY <1>0, <2>2, <2>4, CallsKept DEF IInv
  <1>5. BrowsersSound'
    BY <1>0 DEF IInv, TypeOK, BrowsersSound
  <1> QED BY <1>0, <1>3, <1>4, <1>5 DEF IInv, NoticesSound, VerifiedWasBought

LEMMA AskRefreshKeeps ==
  ASSUME IInv, NEW c \in Calls, AskRefresh(c) PROVE IInv'
  <1> DEFINE token == store[call[c].dev]
  <1>1. call[c] \in Sent /\ call[c] # New
    BY SentStage DEF AskRefresh, IInv, Stages
  <1>2. CallIn(call[c], account, hash, store, left, blocked, lists, order)
    BY DEF IInv, CallsSound
  <1>3. call[c].retry \/ Who(c) \in blocked
    BY <1>1, <1>2 DEF AskRefresh, CallIn, Who
  <1>4. CASE ~(call[c].retry /\ token # Undefined)
    <2>1. Goes(c, "unauthorized") /\ Who(c) \in left \cup blocked
      BY <1>1, <1>2, <1>3, <1>4 DEF AskRefresh, Goes, CallIn, Who
    <2> QED BY <2>1, MoveKeeps DEF AskRefresh, Stages
  <1>5. CASE call[c].retry /\ token # Undefined
    <2> DEFINE k == [call[c] EXCEPT !.stage = "refresh", !.held = token]
    <2>1. call' = [call EXCEPT ![c] = k]
      BY <1>5 DEF AskRefresh
    <2>2. token \in Tokens
      BY <1>1, <1>5 DEF IInv, TypeOK, Sent
    <2>3. /\ k \in Sent
          /\ k.stage = "refresh" /\ k.dev = call[c].dev /\ k.op = call[c].op
          /\ k.target = call[c].target
          /\ k.retry = call[c].retry /\ k.verified = call[c].verified
      BY <1>1, <2>2 DEF Sent, Stages
    <2>4. TypeOK'
      <3>1. call' \in [Calls -> Call]
        BY <2>1, <2>3, CallIsSent DEF IInv, TypeOK
      <3> QED BY <3>1 DEF AskRefresh, IInv, TypeOK, signing, wishing
    <2>5. CallIn(k, account, hash, store, left, blocked, lists, order)
      BY <1>1, <1>2, <2>3 DEF CallIn
    <2>6. CallIn(k, account', hash', store', left', blocked', lists', order')
      BY <2>5 DEF AskRefresh, signing, wishing
    <2>7. \A j \in Calls : CallIn(call[j], account', hash', store', left', blocked', lists', order')
      BY DEF AskRefresh, IInv, CallsSound, signing, wishing
    <2> HIDE DEF k
    <2>8. CallsSound'
      BY <2>1, <2>6, <2>7, CallsKept DEF IInv
    <2> QED BY <2>4, <2>8 DEF AskRefresh, IInv, BrowsersSound, NoticesSound, VerifiedWasBought,
         signing, wishing
  <1> QED BY <1>4, <1>5

LEMMA RetryKeeps ==
  ASSUME IInv, NEW c \in Calls, Retry(c) PROVE IInv'
  <1> DEFINE d == call[c].dev
             k == [call[c] EXCEPT !.stage = "sent", !.retry = FALSE]
  <1>0. /\ store' = [store EXCEPT ![d] = c]
        /\ call' = [call EXCEPT ![c] = k]
        /\ UNCHANGED <<account, blocked, hash, form, left, lists, wished, review, sent, seen,
                       request, order>>
    BY DEF Retry, wishing
  <1>1. call[c] \in Sent /\ call[c] # New
    BY SentStage DEF Retry, IInv, Stages
  <1>2. d \in Devices
    BY <1>1 DEF Sent
  <1>3. c \in Tokens /\ c # Undefined
    BY UndefinedAssumption DEF Tokens
  <1>4. /\ k \in Sent
        /\ k.stage = "sent" /\ k.dev = d /\ k.op = call[c].op
        /\ k.target = call[c].target /\ k.verified = call[c].verified
    BY <1>1 DEF Sent, Stages
  <1>5. CallIn(call[c], account, hash, store, left, blocked, lists, order)
    BY DEF IInv, CallsSound
  <1>6. TypeOK'
    <2>1. call' \in [Calls -> Call]
      BY <1>0, <1>4, CallIsSent DEF IInv, TypeOK
    <2>2. store' \in [Devices -> Tokens \cup {Undefined}]
      BY <1>0, <1>3 DEF IInv, TypeOK
    <2> QED BY <1>0, <2>1, <2>2 DEF IInv, TypeOK
  <1>7. store'[d] # Undefined /\ \A e \in Devices : store[e] # Undefined => store'[e] # Undefined
    BY <1>0, <1>2, <1>3 DEF IInv, TypeOK
  <1>8. CallsSound'
    <2>1. \A j \in Calls : CallIn(call[j], account', hash', store', left', blocked', lists', order')
      BY <1>0, <1>7, OthersSound DEF IInv
    <2>2. CallIn(k, account, hash, store', left, blocked, lists, order)
      BY <1>1, <1>4, <1>5, <1>7 DEF CallIn
    <2>3. CallIn(k, account', hash', store', left', blocked', lists', order')
      BY <1>0, <2>2
    <2> HIDE DEF k
    <2> QED BY <1>0, <2>1, <2>3, CallsKept DEF IInv
  <1>9. BrowsersSound'
    <2> SUFFICES ASSUME NEW e \in Devices, store'[e] # Undefined, store[e] = Undefined
                 PROVE  UserOf[e] \in account /\ (hash[UserOf[e]] # Undefined \/ UserOf[e] \in left)
      BY <1>0 DEF IInv, BrowsersSound
    <2>1. e = d
      BY <1>0, <1>2 DEF IInv, TypeOK
    <2> QED BY <1>1, <1>5, <2>1 DEF CallIn
  <1> QED BY <1>0, <1>6, <1>8, <1>9 DEF IInv, NoticesSound, VerifiedWasBought

-----------------------------------------------------------------------------
(* Signing in.                                                             *)

\* A sign-in changes no call: the calls are sound if the customers are still
\* there and their sessions as good as before.
LEMMA SignInSound ==
  ASSUME IInv, NEW d \in Devices,
         NEW at \in {"out", "register", "mint", "answer", "in"}, SignInAt(d, at),
         UNCHANGED <<blocked, left, call, lists, wished, review, sent, seen, request, order>>,
         account' = account \/ account' = account \cup {UserOf[d]},
         hash' \in [Users -> Tokens \cup {Undefined}],
         \A u \in Users : hash[u] # Undefined => hash'[u] # Undefined,
         store' \in [Devices -> Tokens \cup {Undefined}],
         \A e \in Devices : store[e] # Undefined => store'[e] # Undefined
  PROVE  /\ TypeOK' /\ CallsSound' /\ NoticesSound' /\ VerifiedWasBought'
         /\ form'[d] = at /\ \A e \in Devices \ {d} : form'[e] = form[e]
  <1>1. account \subseteq account' /\ account' \subseteq Users
    BY UserOfAssumption DEF IInv, TypeOK
  <1>2. form' \in [Devices -> {"out", "register", "mint", "answer", "in"}]
        /\ form'[d] = at /\ \A e \in Devices \ {d} : form'[e] = form[e]
    BY DEF IInv, TypeOK, SignInAt
  <1>3. TypeOK'
    <2>1. lists' \in SUBSET account' /\ left' \in SUBSET account'
          /\ sent' \in SUBSET (Requests \X account')
      BY <1>1 DEF IInv, TypeOK
    <2> QED BY <1>1, <1>2, <2>1 DEF IInv, TypeOK
  <1>4. CallsSound'
    <2>1. \A c \in Calls : CallIn(call[c], account', hash', store', left', blocked', lists', order')
      BY <1>1, OthersSound DEF IInv
    <2> QED BY <2>1 DEF CallsSound
  <1> QED BY <1>1, <1>2, <1>3, <1>4 DEF IInv, NoticesSound, VerifiedWasBought

LEMMA SignInKeeps == ASSUME IInv, NEW d \in Devices, SignInStep(d) PROVE IInv'
  <1>0. UserOf[d] \in Users
    BY UserOfAssumption
  <1> USE <1>0 DEF IInv, wishing
  <1>1. CASE StartRegister(d)
    BY <1>1, SignInSound DEF StartRegister, TypeOK, BrowsersSound
  <1>2. CASE Register(d)
    BY <1>2, SignInSound DEF Register, TypeOK, BrowsersSound
  <1>3. CASE Login(d)
    BY <1>3, SignInSound DEF Login, TypeOK, BrowsersSound
  <1>4. CASE StoreRefreshToken(d)
    <2>1. d \in Tokens /\ d # Undefined
      BY UndefinedAssumption DEF Tokens
    <2>2. hash' \in [Users -> Tokens \cup {Undefined}] /\ hash'[UserOf[d]] # Undefined
          /\ \A u \in Users : hash[u] # Undefined => hash'[u] # Undefined
      BY <1>4, <2>1 DEF StoreRefreshToken, TypeOK
    <2>3. /\ TypeOK' /\ CallsSound' /\ NoticesSound' /\ VerifiedWasBought'
          /\ form'[d] = "answer" /\ \A e \in Devices \ {d} : form'[e] = form[e]
      BY <1>4, <2>2, SignInSound DEF StoreRefreshToken, TypeOK
    <2>4. BrowsersSound'
      BY <1>4, <2>2, <2>3, UserOfAssumption DEF StoreRefreshToken, BrowsersSound, TypeOK
    <2> QED BY <2>3, <2>4
  <1>5. CASE TakeTokens(d)
    <2>1. d \in Tokens /\ d # Undefined
      BY UndefinedAssumption DEF Tokens
    <2>2. store' = [store EXCEPT ![d] = d]
      BY <1>5 DEF TakeTokens
    <2>3. store' \in [Devices -> Tokens \cup {Undefined}]
          /\ (\A e \in Devices : store[e] # Undefined => store'[e] # Undefined)
          /\ \A e \in Devices \ {d} : store'[e] = store[e]
      BY <2>1, <2>2 DEF TypeOK
    <2>4. /\ TypeOK' /\ CallsSound' /\ NoticesSound' /\ VerifiedWasBought'
          /\ form'[d] = "in" /\ \A e \in Devices \ {d} : form'[e] = form[e]
      BY <1>5, <2>3, SignInSound DEF TakeTokens, TypeOK
    <2>5. BrowsersSound'
      BY <1>5, <2>3, <2>4 DEF TakeTokens, BrowsersSound
    <2> QED BY <2>4, <2>5
  <1> QED BY <1>1, <1>2, <1>3, <1>4, <1>5 DEF SignInStep

-----------------------------------------------------------------------------
(* The handlers.                                                           *)

\* A handler writes, and its call goes on to stage s.
LEMMA AnswerSound ==
  ASSUME IInv, NEW c \in Calls, call[c].stage \in Stages,
         NEW s \in Stages \ {"bought", "denied", "unauthorized"},
         Goes(c, s),
         UNCHANGED <<account, blocked, store, left, order>>,
         lists \subseteq lists',
         \A u \in Users : u \in left \/ (hash[u] # Undefined => hash'[u] # Undefined),
         s = "listed" => Who(c) \in lists'
  PROVE  CallsSound' /\ call' \in [Calls -> Call]
  <1>1. call[c] \in Sent /\ call[c] # New
    BY SentStage DEF IInv
  <1> DEFINE k == [call[c] EXCEPT !.stage = s]
  <1>2. /\ k \in Sent
        /\ k.stage = s /\ k.dev = call[c].dev /\ k.op = call[c].op /\ k.target = call[c].target
        /\ k.retry = call[c].retry /\ k.verified = call[c].verified
    BY <1>1, StageChanges
  <1>3. call' = [call EXCEPT ![c] = k]
    BY DEF Goes
  <1>4. \A j \in Calls : CallIn(call[j], account', hash', store', left', blocked', lists', order')
    BY OthersSound DEF IInv
  <1>5. CallIn(k, account', hash', store', left', blocked', lists', order')
    <2>1. CallIn(call[c], account', hash', store', left', blocked', lists', order')
      BY <1>4
    <2> QED BY <1>1, <1>2, <2>1 DEF CallIn, Who
  <1>6. call' \in [Calls -> Call]
    BY <1>2, <1>3, CallIsSent DEF IInv, TypeOK
  <1> HIDE DEF k
  <1> QED BY <1>3, <1>4, <1>5, <1>6, CallsKept DEF IInv

LEMMA WhoThere ==
  ASSUME IInv, NEW c \in Calls, call[c].stage \in Stages
  PROVE  /\ call[c] \in Sent
         /\ Who(c) \in Users /\ Who(c) \in account
         /\ CallIn(call[c], account, hash, store, left, blocked, lists, order)
         /\ call[c] # New
         /\ call[c].op \in {"wish", "unwish", "review"} => call[c].target \in Products
  <1>1. call[c] \in Sent /\ call[c] # New
    BY SentStage DEF IInv
  <1>2. CallIn(call[c], account, hash, store, left, blocked, lists, order)
    BY DEF IInv, CallsSound
  <1> QED BY <1>1, <1>2, UserOfAssumption DEF CallIn, Sent, Who

LEMMA SessionKeeps ==
  ASSUME IInv, NEW c \in Calls, Guard(c) \/ CompareHash(c) \/ Rotate(c) \/ Logout(c)
  PROVE  IInv'
  <1>0. call[c].stage \in Stages
    BY DEF Guard, CompareHash, Rotate, Logout, At, Stages
  <1>1. /\ call[c] \in Sent /\ Who(c) \in Users /\ Who(c) \in account
        /\ CallIn(call[c], account, hash, store, left, blocked, lists, order) /\ call[c] # New
    BY <1>0, WhoThere
  <1>2. CASE Guard(c)
    <2>1. CASE Goes(c, "handle")
      BY <1>0, <1>2, <2>1, MoveKeeps DEF Guard, Stages
    <2>2. CASE (Who(c) \in blocked \/ call[c].retry) /\ Goes(c, "denied")
      BY <1>0, <1>2, <2>2, MoveKeeps DEF Guard, Stages
    <2> QED BY <1>2, <2>1, <2>2 DEF Guard
  <1>3. CASE CompareHash(c)
    <2>1. CASE Who(c) \notin blocked /\ hash[Who(c)] # Undefined
      BY <1>0, <1>3, <2>1, MoveKeeps DEF CompareHash, Matches, Stages
    <2>2. CASE ~(Who(c) \notin blocked /\ hash[Who(c)] # Undefined)
      <3>1. Who(c) \in left \cup blocked
        BY <1>1, <2>2 DEF CallIn, Who
      <3> QED BY <1>0, <1>3, <2>2, <3>1, MoveKeeps DEF CompareHash, Matches, Stages
    <2> QED BY <2>1, <2>2
  <1>4. CASE Rotate(c)
    <2>1. c \in Tokens /\ c # Undefined
      BY UndefinedAssumption DEF Tokens
    <2>2. /\ hash' \in [Users -> Tokens \cup {Undefined}]
          /\ \A u \in Users : hash[u] # Undefined => hash'[u] # Undefined
      BY <1>4, <2>1 DEF Rotate, IInv, TypeOK
    <2>3. CallsSound' /\ call' \in [Calls -> Call]
      BY <1>0, <1>4, <2>2, AnswerSound DEF Rotate, wishing, Stages
    <2> QED BY <1>4, <2>2, <2>3, UserOfAssumption
         DEF Rotate, IInv, TypeOK, BrowsersSound, NoticesSound, VerifiedWasBought, wishing
  <1>5. CASE Logout(c)
    <2>1. Who(c) \in left
      BY <1>1, <1>5 DEF Logout, At, CallIn, Who
    <2>2. /\ hash' \in [Users -> Tokens \cup {Undefined}]
          /\ \A u \in Users : u \in left \/ (hash[u] # Undefined => hash'[u] # Undefined)
      BY <1>5, <2>1 DEF Logout, IInv, TypeOK
    <2>3. CallsSound' /\ call' \in [Calls -> Call]
      BY <1>0, <1>5, <2>2, AnswerSound DEF Logout, wishing, Stages
    <2> QED BY <1>5, <2>2, <2>3, UserOfAssumption
         DEF Logout, IInv, TypeOK, BrowsersSound, NoticesSound, VerifiedWasBought, wishing
  <1> QED BY <1>2, <1>3, <1>4, <1>5

\* The item at hand changes, or what is known of the purchase does.
LEMMA FindListKeeps ==
  ASSUME IInv, NEW c \in Calls, FindList(c) PROVE IInv'
  <1>0. call[c].stage \in Stages
    BY DEF FindList, At, Stages
  <1>1. /\ call[c] \in Sent /\ Who(c) \in Users
        /\ CallIn(call[c], account, hash, store, left, blocked, lists, order) /\ call[c] # New
    BY <1>0, WhoThere
  <1>2. CASE Who(c) \notin lists
    BY <1>0, <1>2, MoveKeeps DEF FindList, Goes, Stages
  <1>3. CASE Who(c) \in lists
    <2> DEFINE i == ItemOf(Who(c), call[c].target)
               k == [call[c] EXCEPT !.stage = "listed", !.item = i]
    <2>1. i \in Calls \cup {Undefined}
      BY DEF ItemOf
    <2>2. /\ k \in Sent
          /\ k.stage = "listed" /\ k.dev = call[c].dev /\ k.op = call[c].op
          /\ k.target = call[c].target
          /\ k.retry = call[c].retry /\ k.verified = call[c].verified
      <3> HIDE DEF i
      <3> QED BY <1>1, <2>1 DEF Sent, Stages
    <2>3. call' = [call EXCEPT ![c] = k]
      BY <1>3 DEF FindList
    <2>4. CallIn(k, account, hash, store, left, blocked, lists, order)
      <3> HIDE DEF k
      <3> QED BY <1>1, <1>3, <2>2 DEF CallIn, Who
    <2> HIDE DEF k
    <2>5. CallsSound'
      <3>1. \A j \in Calls : CallIn(call[j], account', hash', store', left', blocked', lists', order')
        BY DEF FindList, IInv, CallsSound, signing, wishing
      <3>2. CallIn(k, account', hash', store', left', blocked', lists', order')
        BY <2>4 DEF FindList, signing, wishing
      <3> QED BY <2>3, <3>1, <3>2, CallsKept DEF IInv
    <2>6. call' \in [Calls -> Call]
      BY <2>2, <2>3, CallIsSent DEF IInv, TypeOK
    <2> QED BY <2>5, <2>6 DEF FindList, IInv, TypeOK, BrowsersSound, NoticesSound,
         VerifiedWasBought, signing, wishing
  <1> QED BY <1>2, <1>3

LEMMA FindPurchaseKeeps ==
  ASSUME IInv, NEW c \in Calls, FindPurchase(c) PROVE IInv'
  <1> DEFINE b == HasBought(Who(c), call[c].target)
             k == [call[c] EXCEPT !.stage = "bought", !.verified = b]
  <1>0. call[c].stage \in Stages
    BY DEF FindPurchase, At, Stages
  <1>1. /\ call[c] \in Sent /\ Who(c) \in Users
        /\ CallIn(call[c], account, hash, store, left, blocked, lists, order) /\ call[c] # New
    BY <1>0, WhoThere
  <1>2. b \in BOOLEAN /\ (b => order[Who(c)][call[c].target] # "NONE")
    BY DEF HasBought
  <1>3. call[c].op = "review" /\ call' = [call EXCEPT ![c] = k]
    BY DEF FindPurchase, At
  <1>4. /\ k \in Sent
        /\ k.stage = "bought" /\ k.dev = call[c].dev /\ k.op = call[c].op
        /\ k.target = call[c].target
        /\ k.retry = call[c].retry /\ k.verified = b
    <2> HIDE DEF b
    <2> QED BY <1>1, <1>2 DEF Sent, Stages
  <1>5. CallIn(k, account, hash, store, left, blocked, lists, order)
    <2> HIDE DEF k, b
    <2> QED BY <1>1, <1>2, <1>3, <1>4 DEF CallIn, Who
  <1> HIDE DEF k
  <1>6. CallsSound'
    <2>1. \A j \in Calls : CallIn(call[j], account', hash', store', left', blocked', lists', order')
      BY DEF FindPurchase, IInv, CallsSound, signing, wishing
    <2>2. CallIn(k, account', hash', store', left', blocked', lists', order')
      BY <1>5 DEF FindPurchase, signing, wishing
    <2> QED BY <1>3, <2>1, <2>2, CallsKept DEF IInv
  <1>7. call' \in [Calls -> Call]
    BY <1>3, <1>4, CallIsSent DEF IInv, TypeOK
  <1> QED BY <1>6, <1>7 DEF FindPurchase, IInv, TypeOK, BrowsersSound, NoticesSound,
       VerifiedWasBought, signing, wishing

LEMMA WishlistKeeps ==
  ASSUME IInv, NEW c \in Calls,
         FindProduct(c) \/ CreateList(c) \/ AddItem(c) \/ RemoveItem(c) \/ ShowList(c)
  PROVE  IInv'
  <1>0. call[c].stage \in Stages
    BY DEF FindProduct, CreateList, AddItem, RemoveItem, ShowList, At, Stages
  <1>1. /\ call[c] \in Sent /\ Who(c) \in Users /\ Who(c) \in account
        /\ CallIn(call[c], account, hash, store, left, blocked, lists, order) /\ call[c] # New
        /\ call[c].op \in {"wish", "unwish", "review"} => call[c].target \in Products
    BY <1>0, WhoThere
  <1>2. CASE FindProduct(c)
    <2>1. CASE Goes(c, "list")
      BY <1>0, <1>2, <2>1, MoveKeeps DEF FindProduct, Stages
    <2>2. CASE Goes(c, "failed")
      BY <1>0, <1>2, <2>2, MoveKeeps DEF FindProduct, Stages
    <2> QED BY <1>2, <2>1, <2>2 DEF FindProduct
  <1>3. CASE CreateList(c)
    <2> DEFINE s == IF Who(c) \in lists THEN ListTaken ELSE "listed"
    <2>1. s \in Stages \ {"bought", "denied", "unauthorized"}
      BY DEF ListTaken, Stages
    <2>2. /\ Goes(c, s) /\ lists' = lists \cup {Who(c)}
          /\ UNCHANGED <<account, blocked, hash, form, store, left, wished, review, sent, seen,
                         request, order>>
      BY <1>3 DEF CreateList, signing
    <2> HIDE DEF s
    <2>3. CallsSound' /\ call' \in [Calls -> Call]
      BY <1>0, <2>1, <2>2, AnswerSound
    <2>4. lists' \in SUBSET account' /\ wished' \in SUBSET (lists' \X Products \X Calls)
      BY <1>1, <2>2 DEF IInv, TypeOK
    <2> QED BY <2>2, <2>3, <2>4
         DEF IInv, TypeOK, BrowsersSound, NoticesSound, VerifiedWasBought
  <1>4. CASE AddItem(c)
    <2>1. call[c].op = "wish" /\ call[c].stage = "listed"
      BY <1>4 DEF AddItem, At
    <2>2. Who(c) \in lists /\ call[c].target \in Products
      BY <1>1, <2>1 DEF CallIn, Who
    <2>3. \E s \in {"conflict", "ok"} : Goes(c, s)
      BY <1>4 DEF AddItem
    <2>4. CallsSound' /\ call' \in [Calls -> Call]
      BY <1>0, <1>4, <2>3, AnswerSound DEF AddItem, signing, Stages
    <2>5. wished' \in SUBSET (lists' \X Products \X Calls)
      BY <1>4, <2>2 DEF AddItem, IInv, TypeOK
    <2> QED BY <1>4, <2>4, <2>5
         DEF AddItem, IInv, TypeOK, BrowsersSound, NoticesSound, VerifiedWasBought, signing
  <1>5. CASE RemoveItem(c)
    <2>1. \E s \in {"failed", "ok"} : Goes(c, s)
      BY <1>5 DEF RemoveItem
    <2>2. CallsSound' /\ call' \in [Calls -> Call]
      BY <1>0, <1>5, <2>1, AnswerSound DEF RemoveItem, signing, Stages
    <2>3. wished' \subseteq wished
      BY <1>5 DEF RemoveItem
    <2> QED BY <1>5, <2>2, <2>3
         DEF RemoveItem, IInv, TypeOK, BrowsersSound, NoticesSound, VerifiedWasBought,
             signing
  <1>6. CASE ShowList(c)
    BY <1>0, <1>6, MoveKeeps DEF ShowList, Stages
  <1> QED BY <1>2, <1>3, <1>4, <1>5, <1>6

\* A review is written or changed: the review of p by u becomes v.
LEMMA ReviewSound ==
  ASSUME IInv, NEW u \in Users, NEW p \in Products, NEW v \in Review,
         review' = [review EXCEPT ![u][p] = v],
         v.verified => order[u][p] # "NONE"
  PROVE  /\ review' \in [Users -> [Products -> Review]]
         /\ \A w \in Users, q \in Products : review'[w][q].verified => order[w][q] # "NONE"
  <1>1. review' \in [Users -> [Products -> Review]]
    BY DEF IInv, TypeOK
  <1>2. ASSUME NEW w \in Users, NEW q \in Products
        PROVE  review'[w][q] = IF w = u /\ q = p THEN v ELSE review[w][q]
    BY DEF IInv, TypeOK
  <1> QED BY <1>1, <1>2 DEF IInv, VerifiedWasBought

LEMMA CreateReviewKeeps ==
  ASSUME IInv, NEW c \in Calls, CreateReview(c) PROVE IInv'
  <1> DEFINE u == Who(c)
             p == call[c].target
             v == [status |-> "PENDING", verified |-> call[c].verified, deleted |-> FALSE]
  <1>0. call[c].stage \in Stages /\ call[c].stage = "bought"
    BY DEF CreateReview, Stages
  <1>1. /\ call[c] \in Sent /\ u \in Users
        /\ CallIn(call[c], account, hash, store, left, blocked, lists, order) /\ call[c] # New
        /\ call[c].op \in {"wish", "unwish", "review"} => p \in Products
    BY <1>0, WhoThere
  <1>2. CASE review[u][p].status # "NONE"
    BY <1>0, <1>2, MoveKeeps DEF CreateReview, Stages, wishing, signing
  <1>3. CASE review[u][p].status = "NONE"
    <2>1. p \in Products /\ (call[c].verified => order[u][p] # "NONE")
      BY <1>0, <1>1 DEF CallIn, Who
    <2>2. v \in Review /\ v.verified = call[c].verified
      BY <1>1 DEF Review, Sent
    <2>3. Goes(c, "ok") /\ review' = [review EXCEPT ![u][p] = v]
          /\ UNCHANGED <<signing, wishing, sent, seen, request, order>>
      BY <1>3 DEF CreateReview
    <2> HIDE DEF v, u, p
    <2>4. review' \in [Users -> [Products -> Review]]
          /\ \A w \in Users, q \in Products : review'[w][q].verified => order[w][q] # "NONE"
      BY <1>1, <2>1, <2>2, <2>3, ReviewSound
    <2>5. CallsSound' /\ call' \in [Calls -> Call]
      BY <1>0, <2>3, AnswerSound DEF signing, wishing, Stages
    <2> QED BY <2>3, <2>4, <2>5
         DEF IInv, TypeOK, BrowsersSound, NoticesSound, VerifiedWasBought, signing, wishing
  <1> QED BY <1>2, <1>3

LEMMA MarkReadKeeps ==
  ASSUME IInv, NEW c \in Calls, MarkRead(c) PROVE IInv'
  <1>0. call[c].stage \in Stages
    BY DEF MarkRead, At, Stages
  <1>1. \E s \in {"ok", "failed"} : Goes(c, s)
    BY DEF MarkRead
  <1>2. CallsSound' /\ call' \in [Calls -> Call]
    BY <1>0, <1>1, AnswerSound DEF MarkRead, signing, wishing, Stages
  <1>3. seen' \in SUBSET sent
    BY DEF MarkRead, IInv, TypeOK
  <1> QED BY <1>2, <1>3 DEF MarkRead, IInv, TypeOK, BrowsersSound, NoticesSound,
       VerifiedWasBought, signing, wishing

-----------------------------------------------------------------------------
(* The admins, and the rest of the system.                                 *)

\* The calls are sound when nothing they rest on changes.
LEMMA CallsRest ==
  ASSUME IInv, UNCHANGED <<signing, call, wishing, order>>
  PROVE  CallsSound' /\ BrowsersSound'
  BY DEF IInv, CallsSound, BrowsersSound, signing, wishing

LEMMA AskKeeps ==
  ASSUME IInv, NEW r \in Requests, NEW next \in Request, Ask(r, next),
         next.stage = "notify" => next.users \subseteq account
  PROVE  IInv'
  <1>1. /\ request' = [request EXCEPT ![r] = next]
        /\ UNCHANGED <<signing, call, wishing, review, sent, seen, order>>
    BY DEF Ask
  <1>2. CallsSound' /\ BrowsersSound'
    BY <1>1, CallsRest
  <1> QED BY <1>1, <1>2 DEF IInv, TypeOK, NoticesSound, VerifiedWasBought,
       signing, wishing

LEMMA AdminKeeps == ASSUME IInv, NEW r \in Requests, AdminStep(r) PROVE IInv'
  <1> DEFINE q == request[r]
  <1>0. request \in [Requests -> Request] /\ Done \in Request /\ Done.stage = "done"
    BY DEF IInv, TypeOK, Request, Done
  <1>1. ASSUME NEW u \in Users, NEW p \in Products, NEW status \in Statuses,
               CheckReview(r, u, p, status)
        PROVE  IInv'
    <2> DEFINE n == [stage |-> "status", user |-> u, product |-> p, status |-> status]
    <2>1. n \in Request /\ n.stage # "notify" /\ Ask(r, n)
      BY <1>1 DEF CheckReview, Request
    <2> HIDE DEF n
    <2> QED BY <2>1, AskKeeps
  <1>2. ASSUME NEW u \in Users, NEW p \in Products, CheckReviewToDelete(r, u, p)
        PROVE  IInv'
    <2> DEFINE n == [stage |-> "delete", user |-> u, product |-> p]
    <2>1. n \in Request /\ n.stage # "notify" /\ Ask(r, n)
      BY <1>2 DEF CheckReviewToDelete, Request
    <2> HIDE DEF n
    <2> QED BY <2>1, AskKeeps
  <1>3. ASSUME NEW users \in SUBSET Users, FindUsers(r, users)
        PROVE  IInv'
    <2> DEFINE n == [stage |-> "notify", users |-> users]
    <2>1. n \in Request /\ n.users \subseteq account /\ Ask(r, n)
      BY <1>3 DEF FindUsers, Request, IInv, TypeOK
    <2> HIDE DEF n
    <2> QED BY <2>1, AskKeeps
  <1>4. CASE UpdateStatus(r)
    <2>1. q.user \in Users /\ q.product \in Products /\ q.status \in Statuses
      BY <1>0, <1>4 DEF UpdateStatus, Request, New, Done
    <2> DEFINE v == [review[q.user][q.product] EXCEPT !.status = q.status]
    <2>2. review[q.user][q.product] \in Review
      BY <2>1 DEF IInv, TypeOK
    <2>3. v \in Review /\ v.verified = review[q.user][q.product].verified
      BY <2>1, <2>2, StatusesAssumption DEF Review
    <2>4. review' = [review EXCEPT ![q.user][q.product] = v]
      BY <1>4 DEF UpdateStatus
    <2>5. v.verified => order[q.user][q.product] # "NONE"
      BY <2>1, <2>3 DEF IInv, VerifiedWasBought
    <2> HIDE DEF v
    <2>6. /\ review' \in [Users -> [Products -> Review]]
          /\ \A w \in Users, o \in Products : review'[w][o].verified => order[w][o] # "NONE"
      BY <2>1, <2>3, <2>4, <2>5, ReviewSound
    <2>7. CallsSound' /\ BrowsersSound'
      BY <1>4, CallsRest DEF UpdateStatus
    <2> QED BY <1>0, <1>4, <2>6, <2>7 DEF UpdateStatus, Answer, IInv, TypeOK, NoticesSound,
         VerifiedWasBought, signing, wishing
  <1>5. CASE DeleteReview(r)
    <2>1. q.user \in Users /\ q.product \in Products
      BY <1>0, <1>5 DEF DeleteReview, Request, New, Done
    <2> DEFINE v == [review[q.user][q.product] EXCEPT !.status = "REJECTED", !.deleted = TRUE]
    <2>2. review[q.user][q.product] \in Review
      BY <2>1 DEF IInv, TypeOK
    <2>3. v \in Review /\ v.verified = review[q.user][q.product].verified
      BY <2>1, <2>2 DEF Review
    <2>4. review' = [review EXCEPT ![q.user][q.product] = v]
      BY <1>5 DEF DeleteReview
    <2>5. v.verified => order[q.user][q.product] # "NONE"
      BY <2>1, <2>3 DEF IInv, VerifiedWasBought
    <2> HIDE DEF v
    <2>6. /\ review' \in [Users -> [Products -> Review]]
          /\ \A w \in Users, o \in Products : review'[w][o].verified => order[w][o] # "NONE"
      BY <2>1, <2>3, <2>4, <2>5, ReviewSound
    <2>7. CallsSound' /\ BrowsersSound'
      BY <1>5, CallsRest DEF DeleteReview
    <2> QED BY <1>0, <1>5, <2>6, <2>7 DEF DeleteReview, Answer, IInv, TypeOK, NoticesSound,
         VerifiedWasBought, signing, wishing
  <1>6. CASE CreateNotifications(r)
    <2>1. q.stage = "notify"
      BY <1>6 DEF CreateNotifications
    <2>2. q.users \subseteq account
      BY <2>1 DEF IInv, NoticesSound
    <2>3. sent' \in SUBSET (Requests \X account) /\ sent \subseteq sent'
      BY <1>6, <2>2 DEF CreateNotifications, Notified, IInv, TypeOK
    <2>4. CallsSound' /\ BrowsersSound'
      BY <1>6, CallsRest DEF CreateNotifications
    <2> QED BY <1>0, <1>6, <2>3, <2>4 DEF CreateNotifications, Answer, IInv, TypeOK,
         NoticesSound, VerifiedWasBought, signing, wishing
  <1> QED BY <1>1, <1>2, <1>3, <1>4, <1>5, <1>6 DEF AdminStep

LEMMA BlockKeeps == ASSUME IInv, NEW u \in Users, Block(u) PROVE IInv'
  <1>1. CallsSound'
    <2>1. \A c \in Calls : CallIn(call[c], account', hash', store', left', blocked', lists', order')
      BY OthersSound DEF Block, IInv, wishing
    <2> QED BY <2>1 DEF Block, CallsSound
  <1> QED BY <1>1 DEF Block, IInv, TypeOK, BrowsersSound, NoticesSound, VerifiedWasBought, wishing

LEMMA OrderKeeps ==
  ASSUME IInv, NEW u \in Users, NEW p \in Products, OrderStep(u, p) PROVE IInv'
  <1>1. PICK to \in {"CONFIRMED", "CANCELLED"} :
          /\ order' = [order EXCEPT ![u][p] = to]
          /\ UNCHANGED <<signing, call, wishing, review, sent, seen, request>>
    BY DEF OrderStep, OrderGoes
  <1>2. order' \in [Users -> [Products -> OrderStatus]]
    BY <1>1 DEF IInv, TypeOK, OrderStatus
  <1>3. ASSUME NEW w \in Users, NEW q \in Products, order[w][q] # "NONE"
        PROVE  order'[w][q] # "NONE"
    BY <1>1, <1>3 DEF IInv, TypeOK
  <1>4. CallsSound'
    <2>1. \A c \in Calls : CallIn(call[c], account', hash', store', left', blocked', lists', order')
      BY <1>1, <1>3, OthersSound DEF IInv, signing, wishing
    <2> QED BY <1>1, <2>1 DEF CallsSound
  <1> QED BY <1>1, <1>2, <1>3, <1>4 DEF IInv, TypeOK, BrowsersSound, NoticesSound,
       VerifiedWasBought, signing, wishing

-----------------------------------------------------------------------------
LEMMA ClientKeeps == ASSUME IInv, NEW c \in Calls, ClientStep(c) PROVE IInv'
  <1>1. ASSUME NEW d \in Devices, NEW p \in Products, NEW op \in {"wish", "unwish", "review"},
               Send(c, d, op, p)
        PROVE  IInv'
    BY <1>1, SendKeeps DEF Ops
  <1>2. ASSUME NEW d \in Devices, Send(c, d, "wishes", Undefined)
        PROVE  IInv'
    BY <1>2, SendKeeps DEF Ops
  <1>3. ASSUME NEW d \in Devices, NEW r \in Requests, Send(c, d, "read", r)
        PROVE  IInv'
    BY <1>3, SendKeeps DEF Ops
  <1>4. CASE RefreshFails(c)
    BY <1>4, MoveKeeps DEF RefreshFails, Stages
  <1> QED BY <1>1, <1>2, <1>3, <1>4, SignOutKeeps, AskRefreshKeeps, RetryKeeps DEF ClientStep

LEMMA ServerKeeps == ASSUME IInv, NEW c \in Calls, ServerStep(c) PROVE IInv'
  BY SessionKeeps, FindListKeeps, FindPurchaseKeeps, WishlistKeeps, CreateReviewKeeps,
     MarkReadKeeps DEF ServerStep

LEMMA StepKeepsIInv == IInv /\ [Next]_vars => IInv'
  <1> SUFFICES ASSUME IInv, [Next]_vars PROVE IInv'
    OBVIOUS
  <1>1. CASE UNCHANGED vars
    BY <1>1 DEF IInv, TypeOK, BrowsersSound, CallsSound, NoticesSound, VerifiedWasBought,
       vars, signing, wishing
  <1>2. CASE Next
    BY <1>2, SignInKeeps, ClientKeeps, ServerKeeps, AdminKeeps, BlockKeeps, OrderKeeps DEF Next
  <1> QED BY <1>1, <1>2

LEMMA SpecIInv == Spec => []IInv
  BY InitIInv, StepKeepsIInv, PTL DEF Spec

\* Every variable of Accounts keeps to its type.
THEOREM TypeCorrect == Spec => []TypeOK
  <1>1. IInv => TypeOK
    BY DEF IInv
  <1> QED BY <1>1, SpecIInv, PTL

\* Only a customer who has signed out or was blocked is turned away: AuthService.
\* refreshCustomerToken and customerRequest, for any number of calls at once.
THEOREM ServedCorrect == Spec => []ServedWhileSignedIn
  <1>1. IInv => ServedWhileSignedIn
    <2> SUFFICES ASSUME IInv, NEW c \in Calls, call[c].stage = "unauthorized"
                 PROVE  Who(c) \in left \cup blocked
      BY DEF ServedWhileSignedIn
    <2> QED BY WhoThere DEF CallIn, Who, Stages
  <1> QED BY <1>1, SpecIInv, PTL

\* Only what was ordered is marked as bought: ReviewsService.create.
THEOREM VerifiedCorrect == Spec => []VerifiedWasBought
  <1>1. IInv => VerifiedWasBought
    BY DEF IInv
  <1> QED BY <1>1, SpecIInv, PTL

-----------------------------------------------------------------------------
(* What a call is told.                                                    *)

\* Two handlers answer that something is there already.
LEMMA ConflictSteps ==
  ASSUME IInv, Next, NEW c \in Calls, call[c].stage \notin {"new", "conflict"},
         call'[c].stage = "conflict"
  PROVE  AddItem(c) \/ CreateReview(c)
  <1>1. call[c].stage # call'[c].stage
    OBVIOUS
  <1>2. ASSUME NEW e \in Calls, NEW k, call' = [call EXCEPT ![e] = k]
        PROVE  e = c /\ k.stage = "conflict"
    BY <1>1, <1>2 DEF IInv, TypeOK
  <1>3. ASSUME NEW e \in Calls, NEW s, Goes(e, s), e = c => call[e].stage \in Stages
        PROVE  e = c /\ s = "conflict"
    <2>1. call' = [call EXCEPT ![e] = [call[e] EXCEPT !.stage = s]]
      BY <1>3 DEF Goes
    <2>2. e = c /\ [call[e] EXCEPT !.stage = s].stage = "conflict"
      BY <1>2, <2>1
    <2>3. call[e] \in Sent
      BY <1>3, <2>2, SentStage DEF IInv
    <2> QED BY <2>2, <2>3 DEF Sent
  <1>4. call' # call
    BY <1>1
  <1>5. \A d \in Devices : ~SignInStep(d)
    BY <1>4 DEF SignInStep, StartRegister, Register, Login, StoreRefreshToken, TakeTokens
  <1>6. \A r \in Requests : ~AdminStep(r)
    BY <1>4 DEF AdminStep, CheckReview, CheckReviewToDelete, FindUsers, Ask, UpdateStatus,
       DeleteReview, CreateNotifications
  <1>7. \A u \in Users : ~Block(u) /\ \A p \in Products : ~OrderStep(u, p)
    BY <1>4 DEF Block, OrderStep, OrderGoes
  <1>8. PICK e \in Calls : ClientStep(e) \/ ServerStep(e)
    BY <1>5, <1>6, <1>7 DEF Next
  <1>9. ASSUME NEW d, NEW op, NEW target PROVE ~Send(e, d, op, target) /\ ~SignOut(e, d)
    <2>1. ASSUME NEW o, NEW t PROVE NewCall(d, o, t).stage = "sent"
      BY DEF NewCall
    <2> QED BY <1>2, <2>1 DEF Send, SignOut
  <1>10. ~AskRefresh(e) /\ ~Retry(e) /\ ~RefreshFails(e)
    <2>1. SUFFICES ASSUME AskRefresh(e) \/ Retry(e) \/ RefreshFails(e) PROVE FALSE
      OBVIOUS
    <2>2. call[e] \in Sent
      BY <2>1, SentStage DEF AskRefresh, Retry, RefreshFails, Stages, IInv
    <2> QED BY <1>2, <2>1, <2>2 DEF AskRefresh, Retry, RefreshFails, Goes, Sent
  <1>11. ServerStep(e)
    BY <1>8, <1>9, <1>10 DEF ClientStep
  <1>12. ~FindPurchase(e) /\ ~FindList(e)
    <2>1. SUFFICES ASSUME FindPurchase(e) \/ FindList(e) PROVE FALSE
      OBVIOUS
    <2>2. call[e] \in Sent
      BY <2>1, SentStage DEF FindPurchase, FindList, At, Stages, IInv
    <2> QED BY <1>2, <2>1, <2>2 DEF FindPurchase, FindList, Sent
  <1>13. ASSUME Guard(e) \/ CompareHash(e) \/ Rotate(e) \/ Logout(e) \/ FindProduct(e)
                \/ CreateList(e) \/ RemoveItem(e) \/ ShowList(e) \/ MarkRead(e)
         PROVE  FALSE
    <2>1. call[e].stage \in Stages
      BY <1>13 DEF Guard, CompareHash, Rotate, Logout, FindProduct, CreateList, RemoveItem,
         ShowList, MarkRead, At, Stages
    <2>2. \E s \in Stages \ {"conflict"} : Goes(e, s)
      BY <1>13 DEF Guard, CompareHash, Rotate, Logout, FindProduct, CreateList, RemoveItem,
         ShowList, MarkRead, ListTaken, Stages
    <2> QED BY <1>3, <2>1, <2>2
  <1>14. e = c
    <2>1. AddItem(e) \/ CreateReview(e)
      BY <1>11, <1>12, <1>13 DEF ServerStep
    <2>2. call[e].stage \in Stages
      BY <2>1 DEF AddItem, CreateReview, At, Stages
    <2>3. \E s \in Stages : Goes(e, s)
      BY <2>1 DEF AddItem, CreateReview, Stages
    <2> QED BY <1>3, <2>2, <2>3
  <1> QED BY <1>11, <1>12, <1>13, <1>14 DEF ServerStep

\* The answer "already there" is true: WishlistService.add and
\* ReviewsService.create, when a call is between its read and its write.
THEOREM ConflictCorrect == Spec => ConflictIsTrue
  <1> DEFINE True(c) ==
        /\ call[c].stage \notin {"new", "conflict"}
        /\ call'[c].stage = "conflict"
        => LET u == Who(c)
               p == call[c].target
           IN IF call[c].op = "review" THEN review[u][p].status # "NONE"
              ELSE \E i \in Calls : <<u, p, i>> \in wished
  <1>1. ASSUME IInv, Next, NEW c \in Calls PROVE True(c)
    <2> SUFFICES ASSUME call[c].stage \notin {"new", "conflict"}, call'[c].stage = "conflict"
                 PROVE  LET u == Who(c)
                            p == call[c].target
                        IN IF call[c].op = "review" THEN review[u][p].status # "NONE"
                           ELSE \E i \in Calls : <<u, p, i>> \in wished
      OBVIOUS
    <2>1. CASE AddItem(c)
      <3>1. call[c].op = "wish" /\ call[c].stage \in Stages
        BY <2>1 DEF AddItem, At, Stages
      <3>2. call[c] \in Sent
        BY <1>1, <3>1, WhoThere
      <3>3. ItemOf(Who(c), call[c].target) # Undefined
        <4>1. SUFFICES ASSUME ItemOf(Who(c), call[c].target) = Undefined PROVE FALSE
          OBVIOUS
        <4>2. Goes(c, "ok")
          BY <2>1, <4>1 DEF AddItem
        <4> QED BY <1>1, <3>2, <4>2 DEF Goes, Sent, IInv, TypeOK
      <3> QED BY <3>1, <3>3 DEF ItemOf
    <2>2. CASE CreateReview(c)
      <3>1. call[c].stage = "bought" /\ call[c].stage \in Stages
        BY <2>2 DEF CreateReview, Stages
      <3>2. call[c] \in Sent /\ call[c].op = "review"
        BY <1>1, <3>1, WhoThere DEF CallIn
      <3>3. review[Who(c)][call[c].target].status # "NONE"
        <4>1. SUFFICES ASSUME review[Who(c)][call[c].target].status = "NONE" PROVE FALSE
          OBVIOUS
        <4>2. Goes(c, "ok")
          BY <2>2, <4>1 DEF CreateReview
        <4> QED BY <1>1, <3>2, <4>2 DEF Goes, Sent, IInv, TypeOK
      <3> QED BY <3>2, <3>3
    <2> QED BY <1>1, <2>1, <2>2, ConflictSteps
  <1>2. IInv /\ [Next]_vars => [\A c \in Calls : True(c)]_vars
    BY <1>1
  <1> QED BY <1>2, SpecIInv, PTL DEF Spec, ConflictIsTrue

-----------------------------------------------------------------------------
(* Deleted reviews.                                                        *)

\* A review that was deleted had been there.
DeletedIsThere ==
  \A u \in Users, p \in Products : review[u][p].deleted => review[u][p].status # "NONE"

\* A deleted review stays deleted.
LEMMA StaysDeleted ==
  ASSUME IInv, DeletedIsThere, [Next]_vars
  PROVE  /\ DeletedIsThere'
         /\ \A u \in Users, p \in Products : review[u][p].deleted => review'[u][p].deleted
  <1>1. CASE UNCHANGED review
    BY <1>1 DEF DeletedIsThere
  <1>2. ASSUME NEW u \in Users, NEW p \in Products, NEW v \in Review,
               review' = [review EXCEPT ![u][p] = v],
               v.deleted => v.status # "NONE",
               review[u][p].deleted => v.deleted
        PROVE  /\ DeletedIsThere'
               /\ \A w \in Users, q \in Products : review[w][q].deleted => review'[w][q].deleted
    <2>1. ASSUME NEW w \in Users, NEW q \in Products
          PROVE  review'[w][q] = IF w = u /\ q = p THEN v ELSE review[w][q]
      BY <1>2 DEF IInv, TypeOK
    <2> QED BY <1>2, <2>1 DEF DeletedIsThere
  <1>3. ASSUME NEW c \in Calls, CreateReview(c), ~UNCHANGED review
        PROVE  /\ DeletedIsThere'
               /\ \A u \in Users, p \in Products : review[u][p].deleted => review'[u][p].deleted
    <2> DEFINE u == Who(c)
               p == call[c].target
               v == [status |-> "PENDING", verified |-> call[c].verified, deleted |-> FALSE]
    <2>1. call[c] \in Sent /\ u \in Users /\ p \in Products
      BY <1>3, WhoThere DEF CreateReview, Stages, CallIn
    <2>2. review[u][p].status = "NONE" /\ review' = [review EXCEPT ![u][p] = v]
      BY <1>3 DEF CreateReview
    <2>3. v \in Review /\ ~v.deleted
      BY <2>1 DEF Review, Sent
    <2>4. ~review[u][p].deleted
      BY <2>1, <2>2 DEF DeletedIsThere
    <2> HIDE DEF u, p, v
    <2> QED BY <1>2, <2>1, <2>2, <2>3, <2>4
  <1>4. ASSUME NEW r \in Requests, UpdateStatus(r) \/ DeleteReview(r)
        PROVE  /\ DeletedIsThere'
               /\ \A u \in Users, p \in Products : review[u][p].deleted => review'[u][p].deleted
    <2> DEFINE q == request[r]
    <2>0. request \in [Requests -> Request]
      BY DEF IInv, TypeOK
    <2>1. q.user \in Users /\ q.product \in Products
          /\ (UpdateStatus(r) => q.status \in Statuses)
      BY <1>4, <2>0 DEF UpdateStatus, DeleteReview, Request, New, Done
    <2>2. review[q.user][q.product] \in Review
      BY <2>1 DEF IInv, TypeOK
    <2>3. PICK v \in Review :
            /\ review' = [review EXCEPT ![q.user][q.product] = v]
            /\ v.status # "NONE"
            /\ review[q.user][q.product].deleted => v.deleted
      <3>1. CASE UpdateStatus(r)
        <4> DEFINE n == [review[q.user][q.product] EXCEPT !.status = q.status]
        <4>1. n \in Review /\ n.status = q.status /\ n.status # "NONE"
              /\ n.deleted = review[q.user][q.product].deleted
          BY <2>1, <2>2, <3>1, StatusesAssumption DEF Review
        <4>2. review' = [review EXCEPT ![q.user][q.product] = n]
          BY <3>1 DEF UpdateStatus
        <4> HIDE DEF n
        <4> QED BY <4>1, <4>2
      <3>2. CASE DeleteReview(r)
        <4> DEFINE n == [review[q.user][q.product] EXCEPT !.status = "REJECTED", !.deleted = TRUE]
        <4>1. n \in Review /\ n.status # "NONE" /\ n.deleted
          BY <2>2 DEF Review
        <4>2. review' = [review EXCEPT ![q.user][q.product] = n]
          BY <3>2 DEF DeleteReview
        <4> HIDE DEF n
        <4> QED BY <4>1, <4>2
      <3> QED BY <1>4, <3>1, <3>2
    <2> HIDE DEF q
    <2> QED BY <1>2, <2>1, <2>3
  <1>5. CASE Next /\ ~UNCHANGED review
    <2>1. \A d \in Devices : ~SignInStep(d)
      BY <1>5 DEF SignInStep, StartRegister, Register, Login, StoreRefreshToken, TakeTokens
    <2>2. \A u \in Users : ~Block(u) /\ \A p \in Products : ~OrderStep(u, p)
      BY <1>5 DEF Block, OrderStep, OrderGoes
    <2>3. \A c \in Calls : ~ClientStep(c)
      BY <1>5 DEF ClientStep, Send, SignOut, AskRefresh, RefreshFails, Retry
    <2>4. \A c \in Calls : ServerStep(c) => CreateReview(c)
      BY <1>5 DEF ServerStep, Guard, CompareHash, Rotate, Logout, FindProduct, FindList,
         CreateList, AddItem, RemoveItem, ShowList, FindPurchase, MarkRead
    <2>5. \A r \in Requests : AdminStep(r) => UpdateStatus(r) \/ DeleteReview(r)
      BY <1>5 DEF AdminStep, CheckReview, CheckReviewToDelete, FindUsers, Ask, CreateNotifications
    <2>6. \/ \E c \in Calls : CreateReview(c)
          \/ \E r \in Requests : UpdateStatus(r) \/ DeleteReview(r)
      BY <1>5, <2>1, <2>2, <2>3, <2>4, <2>5 DEF Next
    <2> QED BY <1>3, <1>4, <1>5, <2>6
  <1> QED BY <1>1, <1>5 DEF vars

\* A deleted review is never shown again: ReviewsService.delete against an
\* updateStatus that had its check before.
THEOREM DeletedReviewCorrect == Spec => DeletedReviewStaysHidden
  <1> DEFINE Hidden == \A u \in Users, p \in Products : review[u][p].deleted => ~Shown(u, p)'
  <1>1. Init => DeletedIsThere
    BY DEF Init, DeletedIsThere
  <1>2. IInv /\ DeletedIsThere /\ [Next]_vars => DeletedIsThere'
    BY StaysDeleted
  <1>3. IInv /\ DeletedIsThere /\ [Next]_vars => [Hidden]_vars
    BY StaysDeleted DEF Shown
  <1> QED BY <1>1, <1>2, <1>3, SpecIInv, PTL DEF Spec, DeletedReviewStaysHidden
=============================================================================

-------------------------- MODULE PublicCacheProofs --------------------------
(***************************************************************************)
(* The pages in Redis, for any processes, requests, writes and faults.     *)
(***************************************************************************)
EXTENDS PublicCache, FiniteSetTheorems, TLAPS

(***************************************************************************)
(* What a request looks like.                                              *)
(***************************************************************************)

\* A reader: the keys it has and what it has seen, step by step.
Reader(q) ==
  /\ q.op \in Served
  /\ q.page = PageOf(q.op) \/ (q.op = "homepage" /\ q.page = "banners")
  /\ q.step \notin {"write", "invalidate"}
  /\ q.left = <<>>
  /\ \A p \in Pages : q.key[p] # None => p \in {q.page, PageOf(q.op)}
  /\ q.step \in {"version", "nx"} => q.key[q.page] = None
  /\ q.step \in {"get", "join", "load", "collect", "store"} => q.key[q.page] # None
  /\ q.page # PageOf(q.op) =>
       q.key["homepage"] # None /\ q.step \notin {"join", "collect", "answered"}
  /\ q.step \in {"version", "nx", "get", "join", "load"} =>
       \A d \in Shows(q.page) : q.seen[d] = None
  /\ q.step \in {"store", "answered"} => \A d \in Shows(q.page) : q.seen[d] # None
  /\ q.step \in {"join", "collect"} => q.op = "homepage"
  /\ q.step = "load" => q.page # "homepage"
  /\ q.step = "collect" => \A d \in Shows("banners") : q.seen[d] # None
  /\ q.seen["catalog"] # None => q.seen["images"] # None

\* A writer, for the database db: what it has written, and what is left of the
\* namespaces it has to increment.
Writer(q, db) ==
  /\ q.op = "write"
  /\ q.page \in Data
  /\ q.key = NoKeys
  /\ q.step \in {"write", "invalidate"}
  /\ q.step = "write" => q.left = <<>>
  /\ q.step = "invalidate" => q.seen[q.page] # None /\ q.seen[q.page] <= db[q.page]
  /\ q.left \in {<<>>, <<"homepage">>, <<q.page>>, Invalidated(q.page)}

RequestsSound ==
  \A r \in Requests : request[r] # None => Reader(request[r]) \/ Writer(request[r], database)

\* What is stored of a page is all that it shows.
EntriesWhole ==
  \A p \in Kept, n \in Versions : entry[p][n] # Nothing =>
    \A d \in Parts : entry[p][n][d] # None <=> d \in Shows(p)

\* What was answered, and what a request may count on, was written.
FinishedSound ==
  \A d \in Data :
    /\ finished[d] <= database[d]
    /\ \A r \in Requests : request[r] # None => request[r].floor[d] <= finished[d]

-----------------------------------------------------------------------------
(* The versions: each write increments a namespace once.                   *)

Number(n) == IF n = None THEN 1 ELSE n

\* Namespace p is among what is left to increment.
Among(p, left) == \E i \in DOMAIN left : left[i] = p

\* The requests that will increment the version of p.
Pending(p) == {r \in Requests : request[r] # None /\ Among(p, request[r].left)}

VersionsCounted ==
  /\ \A p \in Pages : Number(version[p]) + Cardinality(Pending(p)) <= Writes + 1
  /\ Writes <= MaxWrites

Shape == TypeOK /\ RequestsSound /\ EntriesWhole /\ FinishedSound /\ VersionsCounted

-----------------------------------------------------------------------------
(* Types of the parts.                                                     *)

LEMMA Constants ==
  /\ Kept \subseteq Pages
  /\ Data \subseteq Pages
  /\ "homepage" \in Pages
  /\ \A op \in Served : PageOf(op) \in Kept /\ op \in Pages \cup {"shipping"}
  /\ "homepage" \in Served => "banners" \in Kept
  /\ Data \subseteq Stored /\ Stored \subseteq Parts /\ "images" \in Stored
  /\ \A d \in Parts : Of(d) \in Stored
  /\ \A d \in Stored : Of(d) = d
  /\ \A p \in Pages : Shows(p) \subseteq Parts
  /\ NoKeys \in [Pages -> Versions \cup {None}]
  /\ Nothing \in Contents
  /\ 1 \in Versions /\ Versions \subseteq Nat \ {0}
  /\ None \notin Nat
  BY ServedAssumption, NoneAssumption
  DEF Kept, PageOf, Pages, Data, Stored, Parts, Of, Shows, NoKeys, Nothing, Contents, Versions

\* What each page shows.
LEMMA ShownParts ==
  /\ Shows("banners") = {"banners", "collection"}
  /\ Shows("catalog") = {"catalog", "images"}
  /\ Shows("settings") = {"settings"}
  /\ Shows("homepage") = {"banners", "collection", "catalog", "images"}
  BY DEF Shows

\* A request is as its fields are.
LEMMA RequestFields ==
  ASSUME NEW q \in Request
  PROVE  /\ q.process \in Processes
         /\ q.op \in Pages \cup {"write", "shipping"}
         /\ q.page \in Pages
         /\ q.key \in [Pages -> Versions \cup {None}]
         /\ q.seen \in Contents
         /\ q.floor \in [Data -> Nat]
  BY DEF Request

\* What is left of the namespaces of a writer.
LEMMA LeftHolds ==
  ASSUME NEW q, NEW db, Writer(q, db)
  PROVE  /\ q.left # <<>> => /\ Head(q.left) \in Pages
                             /\ Tail(q.left) \in {<<>>, <<"homepage">>}
                             /\ <<Head(q.left)>> \in {<<"homepage">>, <<q.page>>}
                             /\ Len(q.left) \in {1, 2}
         /\ Len(q.left) = 1 => Tail(q.left) = <<>>
         /\ Len(q.left) > 1 => q.left = <<q.page, "homepage">>
         /\ q.left \in {<<>>} \cup {<<p>> : p \in Pages} \cup Pages \X Pages
  <1>1. q.page \in Pages /\ "homepage" \in Pages
    BY Constants DEF Writer
  <1>2. q.left \in {<<>>, <<"homepage">>, <<q.page>>, <<q.page, "homepage">>}
    BY DEF Writer, Invalidated
  <1>3. CASE q.left = <<>>
    BY <1>1, <1>3
  <1>4. CASE q.left \in {<<"homepage">>, <<q.page>>}
    <2>1. PICK p \in {"homepage", q.page} : q.left = <<p>>
      BY <1>4
    <2>2. Head(q.left) = p /\ Tail(q.left) = <<>> /\ Len(q.left) = 1
      BY <2>1
    <2> QED BY <1>1, <2>1, <2>2
  <1>5. CASE q.left = <<q.page, "homepage">>
    <2>1. Head(q.left) = q.page /\ Tail(q.left) = <<"homepage">> /\ Len(q.left) = 2
      BY <1>5
    <2>2. q.left \in Pages \X Pages
      BY <1>1, <1>5
    <2> QED BY <1>1, <2>1, <2>2, <1>5
  <1> QED BY <1>2, <1>3, <1>4, <1>5

-----------------------------------------------------------------------------
(* How requests change.                                                    *)

DatabaseGrows ==
  database' \in [Stored -> Nat] /\ \A d \in Stored : database[d] <= database'[d]

\* Where content m of part d may come from, for a request with key n of p: the
\* database, the entry, or a request that has the same key.
Source(p, n, d, m) ==
  \/ m = database[Of(d)]
  \/ entry[p][n] # Nothing /\ m = entry[p][n][d]
  \/ \E j \in Requests : /\ request[j] # None
                         /\ request[j].key[p] = n
                         /\ request[j].seen[d] # None
                         /\ m = request[j].seen[d]

\* The key of p that q has, or will have as soon as the version is there.
HasKey(q, p, n) == q.key[p] = n \/ (q.step = "nx" /\ q.page = p /\ n = 1)

\* A key is kept, dropped, or had from Redis, for a page nothing is seen of.
KeysTurn(q, w) ==
  /\ \A p \in Pages :
       \/ w.key[p] \in {q.key[p], None}
       \/ /\ p = q.page /\ q.key[p] = None /\ w.seen = q.seen
          /\ \A d \in Shows(p) : q.seen[d] = None
          /\ \/ q.step = "version" /\ w.key[p] = version'[p] /\ UNCHANGED version
             \/ q.step = "nx" /\ w.key[p] = 1 /\ version'[p] # None
  /\ w.step = "nx" =>
       /\ w.page = q.page
       /\ q.step = "nx" \/ (version[q.page] = None /\ UNCHANGED version)

\* What is seen is seen in the database, in the entry of the page at hand, the
\* key of which is dropped, or is the answer.
SeenTurns(q, w) ==
  \A d \in Parts :
    \/ w.seen[d] \in {q.seen[d], database'[Of(d)]}
    \/ w.key = NoKeys
    \/ /\ d \in Shows(q.page)
       /\ q.key[q.page] # None /\ w.key[q.page] = None
       /\ entry[q.page][q.key[q.page]] # Nothing
       /\ w.seen[d] = entry[q.page][q.key[q.page]][d]

Answers(q, w) ==
  w.step = "answered" =>
    /\ w.page = q.page
    /\ \/ q.step = "answered" /\ w.seen = q.seen
       \/ /\ q.key[q.page] # None
          /\ \A d \in Shows(q.page) : Source(q.page, q.key[q.page], d, w.seen[d])

\* A writer writes, or goes on with the versions in their order.
Invalidates(q, w) ==
  w.step = "invalidate" =>
    /\ w.page = q.page
    /\ \/ q.step = "write" /\ w.left = Invalidated(w.page)
       \/ q.step = "invalidate" /\ w.seen = q.seen /\ w.left = q.left
       \/ /\ q.step = "invalidate" /\ w.seen = q.seen
          /\ q.left # <<>> /\ w.left = Tail(q.left)
          /\ version'[Head(q.left)] # version[Head(q.left)]

\* What is left gets less, or was just written.
Leaves(q, w) ==
  \/ \A p \in Pages : Among(p, w.left) => Among(p, q.left)
  \/ q.step = "write" /\ database' # database

Turn(q, w) == KeysTurn(q, w) /\ SeenTurns(q, w) /\ Answers(q, w) /\ Invalidates(q, w)

\* A request starts with nothing, or goes on.
RequestsMove ==
  /\ request' \in [Requests -> Request \cup {None}]
  /\ \A j \in Requests : request'[j] # None =>
       /\ \/ Reader(request'[j])
          \/ /\ Writer(request'[j], database')
             /\ request[j] # None => Leaves(request[j], request'[j])
       /\ IF request[j] = None
          THEN /\ request'[j].floor = finished
               /\ request'[j].key = NoKeys /\ request'[j].left = <<>>
               /\ request'[j].step \in {"version", "write"}
          ELSE /\ request'[j].floor = request[j].floor
               /\ ~failed' => Turn(request[j], request'[j])

\* Request r turns into w.
TurnsTo(r, w) ==
  /\ request' = [request EXCEPT ![r] = w]
  /\ w \in Request
  /\ Reader(w) \/ (Writer(w, database') /\ Leaves(request[r], w))
  /\ w.floor = request[r].floor
  /\ ~failed' => Turn(request[r], w)

LEMMA StaysSound ==
  ASSUME Shape, DatabaseGrows, NEW j \in Requests, request[j] # None
  PROVE  /\ request[j] \in Request
         /\ Reader(request[j]) \/ Writer(request[j], database')
         /\ Turn(request[j], request[j])
         /\ Leaves(request[j], request[j])
  <1>1. request[j] \in Request
    BY DEF Shape, TypeOK
  <1>2. Reader(request[j]) \/ Writer(request[j], database)
    BY DEF Shape, RequestsSound
  <1>3. Writer(request[j], database) => Writer(request[j], database')
    <2>1. ASSUME Writer(request[j], database), request[j].step = "invalidate"
          PROVE  request[j].seen[request[j].page] <= database'[request[j].page]
      <3>1. request[j].page \in Data /\ request[j].seen[request[j].page] \in Nat
        BY <1>1, <2>1, RequestFields, Constants DEF Writer, Contents
      <3>2. database[request[j].page] \in Nat /\ request[j].page \in Stored
        BY <3>1, NoneAssumption, Constants DEF Shape, TypeOK
      <3> QED BY <2>1, <3>1, <3>2 DEF Writer, DatabaseGrows
    <2> QED BY <2>1 DEF Writer
  <1>4. Turn(request[j], request[j])
    BY DEF Turn, KeysTurn, SeenTurns, Answers, Invalidates
  <1>5. Leaves(request[j], request[j])
    BY DEF Leaves
  <1> QED BY <1>1, <1>2, <1>3, <1>4, <1>5

LEMMA OneMoves ==
  ASSUME Shape, DatabaseGrows, NEW r \in Requests, NEW w, request[r] # None, TurnsTo(r, w)
  PROVE  RequestsMove
  <1>1. request' \in [Requests -> Request \cup {None}]
    BY DEF TurnsTo, Shape, TypeOK
  <1>2. ASSUME NEW j \in Requests, j # r PROVE request'[j] = request[j]
    BY <1>2 DEF TurnsTo, Shape, TypeOK
  <1>3. request'[r] = w
    BY DEF TurnsTo, Shape, TypeOK
  <1> QED BY <1>1, <1>2, <1>3, StaysSound DEF RequestsMove, TurnsTo

LEMMA NoneMoves ==
  ASSUME Shape, DatabaseGrows, NEW J \in SUBSET Requests,
         request' = [j \in Requests |-> IF j \in J THEN None ELSE request[j]]
  PROVE  RequestsMove
  <1>1. request' \in [Requests -> Request \cup {None}]
    BY DEF Shape, TypeOK
  <1>2. \A j \in Requests : request'[j] \in {None, request[j]}
    OBVIOUS
  <1> QED BY <1>1, <1>2, StaysSound DEF RequestsMove

LEMMA NothingMoves ==
  ASSUME Shape, DatabaseGrows, UNCHANGED request
  PROVE  RequestsMove
  BY StaysSound DEF RequestsMove, Shape, TypeOK

-----------------------------------------------------------------------------
(* How each step changes a request.                                        *)

LEMMA DatabaseStays ==
  ASSUME Shape, UNCHANGED database
  PROVE  DatabaseGrows
  BY NoneAssumption DEF Shape, TypeOK, DatabaseGrows

\* A reader and a writer are told apart by their steps.
LEMMA WhoIsAt ==
  ASSUME Shape, NEW r \in Requests, NEW step, At(r, step)
  PROVE  /\ request[r] # None /\ request[r] \in Request /\ request[r].step = step
         /\ step \in {"version", "nx", "get", "join", "load", "collect", "store", "answered"} =>
              Reader(request[r]) /\ request[r].page \in Kept
         /\ step \in {"write", "invalidate"} => Writer(request[r], database)
  <1>1. request[r] # None /\ request[r] \in Request /\ request[r].step = step
    BY DEF At, Shape, TypeOK
  <1>2. Reader(request[r]) \/ Writer(request[r], database)
    BY <1>1 DEF Shape, RequestsSound
  <1>3. Reader(request[r]) => request[r].page \in Kept
    BY Constants DEF Reader
  <1> QED BY <1>1, <1>2, <1>3 DEF Reader, Writer

LEMMA ConnectMoves ==
  ASSUME Shape, NEW r \in Requests, Connect(r)
  PROVE  RequestsMove /\ DatabaseGrows
  <1> DEFINE q == request[r]
             w == [q EXCEPT !.left = IF Len(q.left) > 1 THEN <<Head(q.left)>> ELSE q.left]
  <1>0. DatabaseGrows
    BY DatabaseStays DEF Connect
  <1>1. request' = [request EXCEPT ![r] = w] /\ failed' = (failed \/ Len(q.left) > 1)
    BY DEF Connect
  <1>2. q # None /\ q \in Request /\ (Reader(q) \/ Writer(q, database'))
    BY StaysSound, WhoIsAt, <1>0 DEF Connect
  <1>3. CASE Len(q.left) > 1
    <2>1. ~Reader(q)
      BY <1>3 DEF Reader
    <2>2. Writer(q, database') /\ <<Head(q.left)>> \in {<<"homepage">>, <<q.page>>}
                             /\ Head(q.left) \in Pages
      BY <1>2, <1>3, <2>1, LeftHolds
    <2>3. w \in Request
      BY <1>2, <1>3, <2>2 DEF Request
    <2>4. w.step = "invalidate"
      BY <1>2, <1>3, <2>2 DEF Writer
    <2>5. Writer(w, database')
      BY <1>2, <1>3, <2>2, <2>3 DEF Writer, Request
    <2>6. failed'
      BY <1>1, <1>3
    <2>7. w.floor = q.floor /\ w.left = <<Head(q.left)>>
      BY <1>2, <1>3 DEF Request
    <2>8. q.left = <<q.page, "homepage">>
      BY <1>3, <2>2, LeftHolds
    <2>9. Leaves(q, w)
      BY <2>7, <2>8 DEF Leaves, Among
    <2> QED BY <1>0, <1>1, <1>2, <2>3, <2>5, <2>6, <2>7, <2>9, OneMoves DEF TurnsTo
  <1>4. CASE ~(Len(q.left) > 1)
    <2>1. w = q
      BY <1>2, <1>4 DEF Request
    <2> QED BY <1>0, <1>1, <1>2, <2>1, StaysSound, OneMoves DEF TurnsTo
  <1> QED BY <1>0, <1>3, <1>4

LEMMA GetVersionMoves ==
  ASSUME Shape, NEW r \in Requests, GetVersion(r)
  PROVE  RequestsMove /\ DatabaseGrows
  <1> DEFINE q == request[r]
             p == q.page
  <1>0. DatabaseGrows
    BY DatabaseStays DEF GetVersion
  <1>1. /\ q # None /\ q \in Request /\ Reader(q) /\ q.step = "version"
        /\ p \in Pages /\ q.key \in [Pages -> Versions \cup {None}]
    BY WhoIsAt, RequestFields DEF GetVersion
  <1>2. /\ UNCHANGED version
        /\ \/ version[p] = None /\ Goes(r, "nx")
           \/ version[p] # None /\ request' = [request EXCEPT ![r].step = "get", ![r].key[p] = version[p]]
           \/ failed' /\ Goes(r, "nx")
    BY DEF GetVersion, Fails, redis
  <1>3. CASE (version[p] = None \/ failed') /\ Goes(r, "nx")
    <2> DEFINE w == [q EXCEPT !.step = "nx"]
    <2>1. request' = [request EXCEPT ![r] = w]
      BY <1>3 DEF Goes
    <2>2. w \in Request /\ w.floor = q.floor
      BY <1>1 DEF Request
    <2>3. Reader(w)
      BY <1>1 DEF Reader, Request
    <2>4. /\ w.key = q.key /\ w.step = "nx" /\ w.seen = q.seen /\ w.page = q.page
      BY <1>1 DEF Request
    <2>6. Turn(q, w) \/ failed'
      BY <1>1, <1>3, <1>2, <2>4 DEF Turn, KeysTurn, SeenTurns, Answers, Invalidates
    <2> QED BY <1>0, <1>1, <2>1, <2>2, <2>3, <2>6, OneMoves DEF TurnsTo
  <1>4. CASE version[p] # None /\ request' = [request EXCEPT ![r].step = "get", ![r].key[p] = version[p]]
    <2> DEFINE w == [q EXCEPT !.step = "get", !.key[p] = version[p]]
    <2>1. request' = [request EXCEPT ![r] = w]
      BY <1>4 DEF Shape, TypeOK
    <2>2. version[p] \in Versions /\ version' = version
      BY <1>1, <1>4, <1>2 DEF Shape, TypeOK
    <2>3. w \in Request /\ w.floor = q.floor
      BY <1>1, <2>2 DEF Request
    <2>4. /\ w.key = [q.key EXCEPT ![p] = version[p]] /\ w.step = "get"
          /\ w.seen = q.seen /\ w.page = q.page /\ w.op = q.op /\ w.left = q.left
      BY <1>1 DEF Request
    <2>5. Reader(w)
      BY <1>1, <1>4, <2>4, Constants DEF Reader
    <2>6. Turn(q, w)
      BY <1>1, <2>2, <2>4 DEF Turn, KeysTurn, SeenTurns, Answers, Invalidates, Reader
    <2> QED BY <1>0, <1>1, <2>1, <2>3, <2>5, <2>6, OneMoves DEF TurnsTo
  <1> QED BY <1>0, <1>2, <1>3, <1>4

LEMMA SetVersionMoves ==
  ASSUME Shape, NEW r \in Requests, SetVersion(r)
  PROVE  RequestsMove /\ DatabaseGrows
  <1> DEFINE q == request[r]
             p == q.page
             w == [q EXCEPT !.step = "get", !.key[p] = 1]
  <1>0. DatabaseGrows
    BY DatabaseStays DEF SetVersion
  <1>1. /\ q # None /\ q \in Request /\ Reader(q) /\ q.step = "nx"
        /\ p \in Pages /\ q.key \in [Pages -> Versions \cup {None}]
    BY WhoIsAt, RequestFields DEF SetVersion
  <1>2. request' = [request EXCEPT ![r] = w]
    BY DEF SetVersion, Shape, TypeOK
  <1>3. w \in Request /\ w.floor = q.floor
    BY <1>1, Constants DEF Request
  <1>4. /\ w.key = [q.key EXCEPT ![p] = 1] /\ w.step = "get"
        /\ w.seen = q.seen /\ w.page = q.page /\ w.op = q.op /\ w.left = q.left
    BY <1>1 DEF Request
  <1>5. Reader(w)
    BY <1>1, <1>4, Constants DEF Reader
  <1>6. Turn(q, w) \/ failed'
    <2>1. failed' \/ version'[p] # None
      BY <1>1, NoneAssumption DEF SetVersion, Executes, Fails, Shape, TypeOK
    <2> QED BY <1>1, <1>4, <2>1 DEF Turn, KeysTurn, SeenTurns, Answers, Invalidates, Reader
  <1> QED BY <1>0, <1>1, <1>2, <1>3, <1>5, <1>6, OneMoves DEF TurnsTo

\* What a request has found, in the entry or by storing it.
LEMMA HasMoves ==
  ASSUME Shape, DatabaseGrows, NEW r \in Requests, NEW content, Has(r, content),
         \/ /\ At(r, "get")
            /\ content = entry[request[r].page][Key(r)] /\ content # Nothing
         \/ At(r, "store") /\ content = Nothing /\ request[r].page # "homepage"
  PROVE  RequestsMove
  <1> DEFINE q == request[r]
             p == q.page
             k == q.key[p]
             building == q.op = "homepage" /\ q.page = "banners"
             seen == Found(r, content)
             w == [q EXCEPT !.seen = seen,
                            !.page = IF building THEN "homepage" ELSE p,
                            !.key = IF building THEN [q.key EXCEPT !["banners"] = None] ELSE NoKeys,
                            !.step = IF building THEN "collect" ELSE "answered"]
  <1>1. /\ q # None /\ q \in Request /\ Reader(q) /\ q.step \in {"get", "store"}
        /\ p \in Kept /\ p \in Pages /\ k \in Versions /\ q.key[p] # None
        /\ q.key \in [Pages -> Versions \cup {None}] /\ q.seen \in Contents
        /\ Shows(p) \subseteq Parts
    <2>1. Reader(q) => (q.step \in {"get", "store"} => q.key[p] # None)
      BY DEF Reader
    <2> QED BY <2>1, WhoIsAt, RequestFields, Constants
  <1>2. request' = [request EXCEPT ![r] = w]
    BY DEF Has, Shape, TypeOK
  <1>3. content \in Contents
    <2>1. content \in {entry[p][k], Nothing}
      BY DEF Key
    <2>2. entry[p][k] \in Contents
      BY <1>1 DEF Shape, TypeOK
    <2> QED BY <2>1, <2>2, Constants
  <1>4. seen \in Contents
    BY <1>1, <1>3 DEF Contents, Found
  <1>5. \A d \in Parts : seen[d] = IF content[d] = None THEN q.seen[d] ELSE content[d]
    BY DEF Found
  <1>6. /\ \A d \in Parts \ Shows(p) : seen[d] = q.seen[d]
        /\ \A d \in Shows(p) :
             /\ seen[d] # None
             /\ \/ seen[d] = q.seen[d]
                \/ entry[p][k] # Nothing /\ seen[d] = entry[p][k][d]
    <2>1. CASE content = Nothing /\ q.step = "store"
      BY <1>1, <1>5, <2>1 DEF Nothing, Reader
    <2>2. CASE content = entry[p][k] /\ content # Nothing
      <3>1. \A d \in Parts : content[d] # None <=> d \in Shows(p)
        BY <1>1, <2>2 DEF Shape, EntriesWhole
      <3> QED BY <1>1, <1>5, <2>2, <3>1
    <2> QED BY <2>1, <2>2, WhoIsAt DEF Key
  <1>10. seen["catalog"] # None => seen["images"] # None
    <2>1. /\ "catalog" \in Parts /\ "images" \in Parts
          /\ q.seen["catalog"] # None => q.seen["images"] # None
      BY <1>1 DEF Parts, Stored, Data, Reader
    <2>2. "catalog" \in Shows(p) <=> "images" \in Shows(p)
      BY <1>1, ShownParts DEF Pages
    <2> QED BY <1>6, <2>1, <2>2
  <1>7. w \in Request /\ w.floor = q.floor
    <2>1. NoKeys \in [Pages -> Versions \cup {None}]
      BY Constants
    <2>2. (IF building THEN [q.key EXCEPT !["banners"] = None] ELSE NoKeys)
            \in [Pages -> Versions \cup {None}]
      BY <1>1, <2>1
    <2> QED BY <1>1, <1>4, <2>2, Constants DEF Request
  <1>8. CASE building
    <2>1. /\ w.key = [q.key EXCEPT !["banners"] = None] /\ w.step = "collect" /\ w.seen = seen
          /\ w.page = "homepage" /\ w.op = "homepage" /\ w.left = q.left
      BY <1>1, <1>8 DEF Request
    <2>2. p = "banners" /\ "banners" \in Pages
      BY <1>1, <1>8 DEF Pages
    <2>3. q.key["homepage"] # None
      BY <1>1, <1>8 DEF Reader, PageOf
    <2>4. Reader(w)
      BY <1>1, <1>6, <1>8, <1>10, <2>1, <2>2, <2>3 DEF Reader, PageOf
    <2>5. KeysTurn(q, w)
      BY <1>1, <2>1 DEF KeysTurn
    <2>6. SeenTurns(q, w)
      BY <1>1, <1>6, <1>8, <2>1, <2>2 DEF SeenTurns
    <2>7. Turn(q, w)
      BY <2>1, <2>5, <2>6 DEF Turn, Answers, Invalidates
    <2> QED BY <1>1, <1>2, <1>7, <2>4, <2>7, OneMoves DEF TurnsTo
  <1>9. CASE ~building
    <2>1. /\ w.key = NoKeys /\ w.step = "answered" /\ w.seen = seen
          /\ w.page = p /\ w.op = q.op /\ w.left = q.left
      BY <1>1, <1>9 DEF Request
    <2>2. \A n \in Pages : w.key[n] = None
      BY <2>1 DEF NoKeys
    <2>3. p = PageOf(q.op)
      BY <1>1, <1>9 DEF Reader
    <2>4. Reader(w)
      BY <1>1, <1>6, <1>10, <2>1, <2>2, <2>3 DEF Reader
    <2>5. ASSUME NEW d \in Shows(p) PROVE Source(p, k, d, seen[d])
      BY <1>1, <1>6, <2>5 DEF Source
    <2>6. Turn(q, w)
      BY <1>1, <2>1, <2>2, <2>5 DEF Turn, KeysTurn, SeenTurns, Answers, Invalidates
    <2> QED BY <1>1, <1>2, <1>7, <2>4, <2>6, OneMoves DEF TurnsTo
  <1> QED BY <1>8, <1>9

LEMMA MissesMoves ==
  ASSUME Shape, DatabaseGrows, NEW r \in Requests, At(r, "get"), Misses(r)
  PROVE  RequestsMove
  <1> DEFINE q == request[r]
             p == q.page
  <1>1. /\ q # None /\ q \in Request /\ Reader(q) /\ q.step = "get" /\ p \in Pages
        /\ q.key \in [Pages -> Versions \cup {None}] /\ p \in Kept
    BY WhoIsAt, RequestFields
  <1>2. ASSUME NEW s \in {"load", "join"}, Goes(r, s), s = "load" <=> p # "homepage"
        PROVE  RequestsMove
    <2> DEFINE w == [q EXCEPT !.step = s]
    <2>1. request' = [request EXCEPT ![r] = w]
      BY <1>2 DEF Goes
    <2>2. w \in Request /\ w.floor = q.floor
      BY <1>1 DEF Request
    <2>3. /\ w.key = q.key /\ w.step = s /\ w.seen = q.seen
          /\ w.page = p /\ w.op = q.op /\ w.left = q.left
      BY <1>1 DEF Request
    <2>4. p = "homepage" => q.op = "homepage"
      BY <1>1 DEF Reader, PageOf
    <2>5. Reader(w)
      BY <1>1, <1>2, <2>3, <2>4 DEF Reader, PageOf
    <2>6. Turn(q, w)
      BY <1>1, <1>2, <2>3 DEF Turn, KeysTurn, SeenTurns, Answers, Invalidates
    <2> QED BY <1>1, <2>1, <2>2, <2>5, <2>6, OneMoves DEF TurnsTo
  <1>3. CASE p = "homepage" /\ request' = [request EXCEPT ![r].page = "banners", ![r].step = "version"]
    <2> DEFINE w == [q EXCEPT !.page = "banners", !.step = "version"]
    <2>1. request' = [request EXCEPT ![r] = w]
      BY <1>3 DEF Shape, TypeOK
    <2>2. w \in Request /\ w.floor = q.floor
      BY <1>1 DEF Request, Pages
    <2>3. /\ w.key = q.key /\ w.step = "version" /\ w.seen = q.seen
          /\ w.page = "banners" /\ w.op = q.op /\ w.left = q.left
      BY <1>1 DEF Request
    <2>4. q.op = "homepage" /\ Shows("banners") \subseteq Shows("homepage") /\ "banners" \in Pages
      BY <1>1, <1>3, ShownParts DEF Reader, PageOf, Pages
    <2>5. Reader(w)
      BY <1>1, <1>3, <2>3, <2>4 DEF Reader, PageOf
    <2>6. Turn(q, w)
      BY <1>1, <2>3 DEF Turn, KeysTurn, SeenTurns, Answers, Invalidates
    <2> QED BY <1>1, <2>1, <2>2, <2>5, <2>6, OneMoves DEF TurnsTo
  <1> QED BY <1>2, <1>3 DEF Misses

LEMMA GetEntryMoves ==
  ASSUME Shape, NEW r \in Requests, GetEntry(r)
  PROVE  RequestsMove /\ DatabaseGrows
  <1>0. DatabaseGrows
    BY DatabaseStays DEF GetEntry
  <1> QED BY <1>0, HasMoves, MissesMoves DEF GetEntry

\* What a request sees of the parts that it reads, and of the others.
LEMMA ReadSees ==
  ASSUME Shape, NEW r \in Requests, request[r] # None, request[r] \in Request,
         NEW parts \in SUBSET Parts
  PROVE  /\ Read(r, parts) \in Contents
         /\ \A d \in parts : /\ Read(r, parts)[d] = database[Of(d)]
                              /\ Read(r, parts)[d] # None
         /\ \A d \in Parts \ parts : Read(r, parts)[d] = request[r].seen[d]
  <1>1. \A d \in Parts : database[Of(d)] \in Nat /\ database[Of(d)] # None
    BY Constants, NoneAssumption DEF Shape, TypeOK
  <1>2. request[r].seen \in [Parts -> Nat \cup {None}]
    BY RequestFields DEF Contents
  <1> QED BY <1>1, <1>2 DEF Read, Contents

LEMMA LoadPageMoves ==
  ASSUME Shape, NEW r \in Requests, LoadPage(r)
  PROVE  RequestsMove /\ DatabaseGrows
  <1> DEFINE q == request[r]
             p == q.page
             s == IF q.op = "shipping" THEN "answered" ELSE "store"
             seen == Read(r, Shows(p))
             w == [q EXCEPT !.seen = seen, !.step = s]
  <1>0. DatabaseGrows /\ UNCHANGED database
    BY DatabaseStays DEF LoadPage
  <1>1. /\ q # None /\ q \in Request /\ Reader(q) /\ q.step = "load" /\ p \in Pages
        /\ q.key \in [Pages -> Versions \cup {None}] /\ q.seen \in Contents
        /\ p \in Kept /\ q.key[p] # None /\ p # "homepage"
    <2>1. Reader(q) => (q.step = "load" => q.key[p] # None /\ p # "homepage")
      BY DEF Reader
    <2> QED BY <2>1, WhoIsAt, RequestFields DEF LoadPage
  <1>2. /\ Shows(p) \subseteq Parts /\ seen \in Contents
        /\ \A d \in Shows(p) : seen[d] = database[Of(d)] /\ seen[d] # None
        /\ \A d \in Parts \ Shows(p) : seen[d] = q.seen[d]
    BY <1>1, Constants, ReadSees
  <1>3. request' = [request EXCEPT ![r] = w]
    BY DEF LoadPage, Shape, TypeOK
  <1>4. w \in Request /\ w.floor = q.floor
    BY <1>1, <1>2 DEF Request
  <1>5. /\ w.key = q.key /\ w.step = s /\ w.seen = seen
        /\ w.page = p /\ w.op = q.op /\ w.left = q.left
    BY <1>1 DEF Request
  <1>6. q.op = "shipping" => p = PageOf(q.op)
    BY <1>1 DEF Reader
  <1>7. seen["catalog"] # None => seen["images"] # None
    <2>1. /\ "catalog" \in Parts /\ "images" \in Parts
          /\ q.seen["catalog"] # None => q.seen["images"] # None
      BY <1>1 DEF Parts, Stored, Data, Reader
    <2>2. "catalog" \in Shows(p) <=> "images" \in Shows(p)
      BY <1>1, ShownParts DEF Pages
    <2> QED BY <1>2, <2>1, <2>2
  <1>8. Reader(w)
    BY <1>1, <1>2, <1>5, <1>6, <1>7 DEF Reader
  <1>9. ASSUME NEW d \in Shows(p) PROVE Source(p, q.key[p], d, w.seen[d])
    BY <1>2, <1>5, <1>9 DEF Source
  <1>10. Turn(q, w)
    BY <1>0, <1>1, <1>2, <1>5, <1>9 DEF Turn, KeysTurn, SeenTurns, Answers, Invalidates
  <1> QED BY <1>0, <1>1, <1>3, <1>4, <1>8, <1>10, OneMoves DEF TurnsTo

LEMMA LoadCollectionsMoves ==
  ASSUME Shape, NEW r \in Requests, LoadCollections(r)
  PROVE  RequestsMove /\ DatabaseGrows
  <1> DEFINE q == request[r]
             seen == Read(r, Shows("catalog"))
             w == [q EXCEPT !.seen = seen]
  <1>0. DatabaseGrows /\ UNCHANGED database
    BY DatabaseStays DEF LoadCollections
  <1>1. /\ q # None /\ q \in Request /\ q.op = "homepage" /\ q.seen["catalog"] = None
        /\ q.page = "banners" \/ q.step \in {"collect", "store"}
        /\ q.seen \in Contents /\ q.key \in [Pages -> Versions \cup {None}]
    BY RequestFields DEF LoadCollections, Building, Shape, TypeOK
  <1>2. Reader(q)
    BY <1>1 DEF Shape, RequestsSound, Writer
  <1>3. /\ seen \in Contents /\ seen["images"] # None /\ seen["catalog"] # None
        /\ \A d \in Shows("catalog") : seen[d] = database[Of(d)]
        /\ \A d \in Parts \ {"catalog", "images"} : seen[d] = q.seen[d]
        /\ "banners" \in Parts /\ "collection" \in Parts
    <2>1. Shows("catalog") \in SUBSET Parts /\ "banners" \in Parts /\ "collection" \in Parts
      BY ShownParts DEF Parts, Stored, Data
    <2> QED BY <1>1, <2>1, ReadSees, ShownParts
  <1>4. request' = [request EXCEPT ![r] = w]
    BY DEF LoadCollections, Shape, TypeOK
  <1>5. w \in Request /\ w.floor = q.floor
    BY <1>1, <1>3 DEF Request
  <1>6. /\ w.key = q.key /\ w.step = q.step /\ w.page = q.page /\ w.op = q.op /\ w.left = q.left
        /\ w.seen = seen
    BY <1>1 DEF Request
  <1>7. q.page = "banners" \/ q.page = "homepage"
    BY <1>1, <1>2 DEF Reader, PageOf
  <1>9. q.step \notin {"answered", "invalidate"}
    BY <1>1, <1>2 DEF Reader, PageOf
  <1>10. \A d \in Shows("banners") : seen[d] = q.seen[d]
    BY <1>3, ShownParts
  <1>11. /\ w.step \in {"version", "nx", "get", "join", "load"} => \A d \in Shows(w.page) : w.seen[d] = None
         /\ w.step \in {"store", "answered"} => \A d \in Shows(w.page) : w.seen[d] # None
    BY <1>1, <1>2, <1>3, <1>6, <1>7, <1>10, ShownParts DEF Reader, PageOf
  <1>12. Reader(w)
    BY <1>2, <1>3, <1>6, <1>10, <1>11 DEF Reader
  <1>13. SeenTurns(q, w)
    BY <1>0, <1>3, <1>6, ShownParts DEF SeenTurns
  <1>14. Turn(q, w)
    BY <1>0, <1>6, <1>9, <1>13 DEF Turn, KeysTurn, Answers, Invalidates
  <1> QED BY <1>0, <1>1, <1>4, <1>5, <1>12, <1>14, OneMoves DEF TurnsTo

LEMMA CollectMoves ==
  ASSUME Shape, NEW r \in Requests, Collect(r)
  PROVE  RequestsMove /\ DatabaseGrows
  <1> DEFINE q == request[r]
             w == [q EXCEPT !.step = "store"]
  <1>0. DatabaseGrows
    BY DatabaseStays DEF Collect
  <1>1. q # None /\ q \in Request /\ Reader(q) /\ q.step = "collect" /\ q.seen["catalog"] # None
    BY WhoIsAt DEF Collect
  <1>2. request' = [request EXCEPT ![r] = w]
    BY DEF Collect, Goes
  <1>3. w \in Request /\ w.floor = q.floor
    BY <1>1 DEF Request
  <1>4. /\ w.key = q.key /\ w.step = "store" /\ w.seen = q.seen
        /\ w.page = q.page /\ w.op = q.op /\ w.left = q.left
    BY <1>1 DEF Request
  <1>5. q.page = "homepage"
    BY <1>1 DEF Reader, PageOf
  <1>6. Reader(w)
    BY <1>1, <1>4, <1>5, ShownParts DEF Reader
  <1>7. Turn(q, w)
    BY <1>4 DEF Turn, KeysTurn, SeenTurns, Answers, Invalidates
  <1> QED BY <1>0, <1>1, <1>2, <1>3, <1>6, <1>7, OneMoves DEF TurnsTo

\* The homepage is the answer of all that wait for it.
LEMMA HomepageMoves ==
  ASSUME Shape, DatabaseGrows, NEW r \in Requests, At(r, "store"), request[r].page = "homepage",
         request' = [j \in Requests |->
           IF j \in {r} \cup Waiting(r)
           THEN [request[j] EXCEPT !.step = "answered", !.key = NoKeys, !.seen = request[r].seen]
           ELSE request[j]]
  PROVE  RequestsMove
  <1>1. /\ request[r] # None /\ request[r] \in Request /\ Reader(request[r])
        /\ request[r].step = "store" /\ request[r].seen \in Contents
        /\ request[r].key \in [Pages -> Versions \cup {None}] /\ request[r].page = "homepage"
    BY WhoIsAt, RequestFields
  <1>2. /\ request[r].key["homepage"] # None /\ Shows("homepage") \subseteq Parts
        /\ \A d \in Shows("homepage") : request[r].seen[d] # None
    BY <1>1, Constants DEF Reader
  <1>3. ASSUME NEW j \in {r} \cup Waiting(r)
        PROVE  /\ j \in Requests /\ request[j] # None /\ request[j] \in Request /\ Reader(request[j])
               /\ request[j].page = "homepage" /\ request[j].op = "homepage"
               /\ request[j].key["homepage"] = request[r].key["homepage"]
    <2>1. ASSUME j \in Waiting(r)
          PROVE  /\ j \in Requests /\ request[j] # None /\ request[j] \in Request
                 /\ Reader(request[j]) /\ request[j].step = "join"
                 /\ request[r].key["homepage"] = request[j].key[request[j].page]
      BY <2>1, WhoIsAt DEF Waiting, InFlight, Key
    <2>2. j \in Waiting(r) => request[j].page = "homepage" /\ request[j].op = "homepage"
      BY <2>1 DEF Reader, PageOf
    <2>3. request[r].op = "homepage"
      BY <1>1 DEF Reader, PageOf
    <2> QED BY <1>1, <1>3, <2>1, <2>2, <2>3
  <1>4. ASSUME NEW j \in {r} \cup Waiting(r)
        PROVE  /\ request'[j] \in Request /\ Reader(request'[j])
               /\ request'[j].floor = request[j].floor /\ Turn(request[j], request'[j])
    <2> DEFINE q == request[j]
               seen == request[r].seen
               w == [q EXCEPT !.step = "answered", !.key = NoKeys, !.seen = seen]
    <2>0. /\ q # None /\ q \in Request /\ Reader(q) /\ q.page = "homepage" /\ q.op = "homepage"
          /\ q.key["homepage"] = request[r].key["homepage"]
      BY <1>3, <1>4
    <2>1. request'[j] = w
      BY <1>3, <1>4
    <2>2. NoKeys \in [Pages -> Versions \cup {None}]
      BY Constants
    <2>3. w \in Request /\ w.floor = q.floor
      BY <1>1, <2>0, <2>2 DEF Request
    <2>4. /\ w.key = NoKeys /\ w.step = "answered" /\ w.seen = seen
          /\ w.page = "homepage" /\ w.op = "homepage" /\ w.left = q.left
      BY <2>0 DEF Request
    <2>5. \A p \in Pages : w.key[p] = None
      BY <2>4 DEF NoKeys
    <2>6. Reader(w)
      BY <1>2, <2>0, <2>4, <2>5, ShownParts DEF Reader, PageOf
    <2>7. ASSUME NEW d \in Shows("homepage")
          PROVE  Source("homepage", q.key["homepage"], d, w.seen[d])
      BY <1>1, <1>2, <2>0, <2>4 DEF Source
    <2>8. Answers(q, w)
      BY <1>2, <2>0, <2>4, <2>7 DEF Answers
    <2>9. Turn(q, w)
      BY <2>4, <2>5, <2>8 DEF Turn, KeysTurn, SeenTurns, Invalidates
    <2> QED BY <2>1, <2>3, <2>6, <2>9
  <1>5. ASSUME NEW j \in Requests, j \notin {r} \cup Waiting(r) PROVE request'[j] = request[j]
    BY <1>5
  <1>6. request' \in [Requests -> Request \cup {None}]
    <2>1. \A j \in Requests : request'[j] \in Request \cup {None}
      BY <1>4, <1>5 DEF Shape, TypeOK
    <2>2. DOMAIN request' = Requests /\ request' = [j \in Requests |-> request'[j]]
      OBVIOUS
    <2> QED BY <2>1, <2>2
  <1>7. ASSUME NEW j \in Requests, request'[j] # None
        PROVE  /\ Reader(request'[j]) \/ (Writer(request'[j], database') /\ Leaves(request[j], request'[j]))
               /\ request[j] # None
               /\ request'[j].floor = request[j].floor
               /\ Turn(request[j], request'[j])
    <2>1. CASE j \in {r} \cup Waiting(r)
      BY <1>3, <1>4, <2>1
    <2>2. CASE j \notin {r} \cup Waiting(r)
      BY <1>5, <1>7, <2>2, StaysSound
    <2> QED BY <2>1, <2>2
  <1> QED BY <1>6, <1>7 DEF RequestsMove

LEMMA StorePageMoves ==
  ASSUME Shape, NEW r \in Requests, StorePage(r)
  PROVE  RequestsMove /\ DatabaseGrows
  <1>0. DatabaseGrows
    BY DatabaseStays DEF StorePage
  <1>1. CASE request[r].page # "homepage"
    BY <1>0, <1>1, HasMoves DEF StorePage
  <1>2. CASE request[r].page = "homepage"
    BY <1>0, <1>2, HomepageMoves DEF StorePage
  <1> QED BY <1>0, <1>1, <1>2

LEMMA DatabaseWritten ==
  ASSUME Shape, NEW d \in Stored, Writes < MaxWrites, database' = [database EXCEPT ![d] = @ + 1]
  PROVE  /\ DatabaseGrows
         /\ database' \in [Stored -> 0 .. MaxWrites]
         /\ Writes' = Writes + 1
  <1>1. /\ database \in [Stored -> 0 .. MaxWrites] /\ MaxWrites \in Nat
        /\ Stored = {"banners", "catalog", "settings", "images"}
    BY NoneAssumption DEF Shape, TypeOK, Stored, Data
  <1>2. \A b \in Stored : database[b] \in Nat /\ database'[b] = IF b = d THEN database[b] + 1 ELSE database[b]
    BY <1>1
  <1>3. /\ database["banners"] \in Nat /\ database["catalog"] \in Nat
        /\ database["settings"] \in Nat /\ database["images"] \in Nat
    BY <1>1
  <1>4. Writes' = Writes + 1
    <2>1. CASE d = "banners"
      BY <1>1, <1>2, <1>3, <2>1 DEF Writes
    <2>2. CASE d = "catalog"
      BY <1>1, <1>2, <1>3, <2>2 DEF Writes
    <2>3. CASE d = "settings"
      BY <1>1, <1>2, <1>3, <2>3 DEF Writes
    <2>4. CASE d = "images"
      BY <1>1, <1>2, <1>3, <2>4 DEF Writes
    <2> QED BY <1>1, <2>1, <2>2, <2>3, <2>4
  <1>5. database[d] < MaxWrites
    <2>1. database[d] <= Writes
      BY <1>1, <1>3 DEF Writes
    <2> QED BY <1>1, <1>3, <2>1 DEF Writes
  <1>6. database' \in [Stored -> 0 .. MaxWrites]
    BY <1>1, <1>5
  <1> QED BY <1>1, <1>2, <1>4, <1>6 DEF DatabaseGrows

LEMMA WriteMoves ==
  ASSUME Shape, NEW r \in Requests, Write(r)
  PROVE  RequestsMove /\ DatabaseGrows
  <1> DEFINE q == request[r]
             d == q.page
             w == [q EXCEPT !.step = "invalidate", !.left = Invalidated(d),
                            !.seen[d] = database[d] + 1]
  <1>1. /\ q # None /\ q \in Request /\ Writer(q, database) /\ q.step = "write"
        /\ d \in Data /\ q.seen \in Contents /\ d \in Pages
        /\ d \in Stored /\ d \in Parts /\ Of(d) = d
    BY WhoIsAt, RequestFields, Constants DEF Write, Writer
  <1>2. DatabaseGrows /\ database' = [database EXCEPT ![d] = @ + 1]
    BY <1>1, DatabaseWritten DEF Write
  <1>3. database[d] \in Nat /\ database'[d] = database[d] + 1 /\ database[d] + 1 # None
    BY <1>1, <1>2, NoneAssumption DEF Shape, TypeOK
  <1>4. CASE request' = [request EXCEPT ![r] = None]
    <2>1. request' = [j \in Requests |-> IF j \in {r} THEN None ELSE request[j]]
      BY <1>4 DEF Shape, TypeOK
    <2> QED BY <1>2, <2>1, NoneMoves
  <1>5. CASE request' = [request EXCEPT ![r].step = "invalidate", ![r].left = Invalidated(d),
                                        ![r].seen[d] = database[d] + 1]
    <2>1. request' = [request EXCEPT ![r] = w]
      BY <1>5 DEF Shape, TypeOK
    <2>2. /\ Invalidated(d) \in {<<>>} \cup {<<p>> : p \in Pages} \cup Pages \X Pages
          /\ Invalidated(d) \in {<<>>, <<"homepage">>, <<d>>, Invalidated(d)}
      BY <1>1, Constants DEF Invalidated
    <2>3. [q.seen EXCEPT ![d] = database[d] + 1] \in Contents
      BY <1>1, <1>3 DEF Contents
    <2>4. PICK left : left = Invalidated(d)
      OBVIOUS
    <2>5. PICK seen : seen = [q.seen EXCEPT ![d] = database[d] + 1]
      OBVIOUS
    <2>6. w = [q EXCEPT !.step = "invalidate", !.left = left, !.seen = seen]
      BY <1>1, <2>4, <2>5 DEF Request
    <2>7. w \in Request /\ w.floor = q.floor
      BY <1>1, <2>2, <2>3, <2>4, <2>5, <2>6 DEF Request
    <2>8. /\ w.key = q.key /\ w.step = "invalidate" /\ w.page = d /\ w.op = q.op
          /\ w.left = Invalidated(d)
          /\ w.seen = [q.seen EXCEPT ![d] = database[d] + 1]
          /\ w.seen[d] = database[d] + 1
          /\ \A b \in Parts : b # d => w.seen[b] = q.seen[b]
      BY <1>1 DEF Request, Contents
    <2>9. Writer(w, database')
      BY <1>1, <1>3, <2>2, <2>8 DEF Writer
    <2>10. Turn(q, w)
      BY <1>1, <1>3, <2>8 DEF Turn, KeysTurn, SeenTurns, Answers, Invalidates
    <2>11. Leaves(q, w)
      BY <1>1, <1>3 DEF Leaves
    <2> QED BY <1>1, <1>2, <2>1, <2>7, <2>9, <2>10, <2>11, OneMoves DEF TurnsTo
  <1> QED BY <1>2, <1>4, <1>5 DEF Write

LEMMA InvalidateMoves ==
  ASSUME Shape, NEW r \in Requests, Invalidate(r)
  PROVE  RequestsMove /\ DatabaseGrows
  <1> DEFINE q == request[r]
             p == Head(q.left)
  <1>0. DatabaseGrows /\ UNCHANGED database
    BY DatabaseStays DEF Invalidate
  <1>1. /\ q # None /\ q \in Request /\ Writer(q, database) /\ q.step = "invalidate"
        /\ q.left # <<>> /\ p \in Pages
        /\ Tail(q.left) \in {<<>>, <<"homepage">>} /\ "homepage" \in Pages
    BY WhoIsAt, LeftHolds, Constants DEF Invalidate
  <1>2. ASSUME NEW left \in {<<>>, <<"homepage">>}, request' = [request EXCEPT ![r].left = left],
               \/ failed' /\ left = <<>>
               \/ left = Tail(q.left) /\ version'[p] # version[p]
        PROVE  RequestsMove
    <2> DEFINE w == [q EXCEPT !.left = left]
    <2>1. request' = [request EXCEPT ![r] = w]
      BY <1>2 DEF Shape, TypeOK
    <2>2. w \in Request /\ w.floor = q.floor
      BY <1>1, <1>2 DEF Request
    <2>3. /\ w.key = q.key /\ w.step = "invalidate" /\ w.seen = q.seen
          /\ w.page = q.page /\ w.op = q.op /\ w.left = left
      BY <1>1 DEF Request
    <2>4. Writer(w, database')
      BY <1>0, <1>1, <1>2, <2>3 DEF Writer
    <2>5. ~failed' => Turn(q, w)
      BY <1>1, <1>2, <2>3 DEF Turn, KeysTurn, SeenTurns, Answers, Invalidates
    <2>6. Leaves(q, w)
      <3>1. left # <<>> => left = <<"homepage">> /\ Len(q.left) = 2 /\ q.left[2] = "homepage"
        <4>1. left # <<>> => left = <<"homepage">> /\ Tail(q.left) # <<>> /\ q.left # <<>>
          BY <1>1, <1>2
        <4>2. Len(q.left) = 1 => Tail(q.left) = <<>>
          BY <1>1, LeftHolds
        <4>3. q.left # <<>> => Len(q.left) \in {1, 2}
          BY <1>1, LeftHolds
        <4>4. Len(q.left) > 1 => q.left = <<q.page, "homepage">>
          BY <1>1, LeftHolds
        <4> QED BY <4>1, <4>2, <4>3, <4>4
      <3>2. q.left \in {<<>>} \cup {<<n>> : n \in Pages} \cup Pages \X Pages
        BY <1>1, LeftHolds
      <3>3. CASE left = <<>>
        BY <2>3, <3>3 DEF Leaves, Among
      <3>4. CASE left # <<>>
        <4>1. q.left = <<q.page, "homepage">>
          BY <1>1, <3>1, <3>4, LeftHolds
        <4> QED BY <2>3, <3>1, <3>4, <4>1 DEF Leaves, Among
      <3> QED BY <3>3, <3>4
    <2> QED BY <1>0, <1>1, <2>1, <2>2, <2>4, <2>5, <2>6, OneMoves DEF TurnsTo
  <1>3. CASE Executes(r) /\ version' = [version EXCEPT ![p] = Increment(@)]
    <2>1. version'[p] # version[p]
      <3>1. version[p] \in Nat \cup {None} /\ version'[p] = Increment(version[p])
        BY <1>1, <1>3, Constants DEF Shape, TypeOK
      <3> QED BY <3>1, NoneAssumption DEF Increment
    <2>2. request' = [request EXCEPT ![r].left = Tail(q.left)]
      BY <1>1, <1>3, <2>1 DEF Invalidate, Shape, TypeOK
    <2> QED BY <1>0, <1>1, <1>2, <2>1, <2>2
  <1>4. CASE Fails(r) /\ request' = [request EXCEPT ![r].left = <<>>]
    BY <1>0, <1>2, <1>4 DEF Fails
  <1> QED BY <1>0, <1>3, <1>4 DEF Invalidate

LEMMA GoneMoves ==
  ASSUME Shape, NEW r \in Requests, Finish(r) \/ End(r)
  PROVE  RequestsMove /\ DatabaseGrows
  <1>1. UNCHANGED database /\ request' = [request EXCEPT ![r] = None]
    BY DEF Finish, End
  <1>2. request' = [j \in Requests |-> IF j \in {r} THEN None ELSE request[j]]
    BY <1>1 DEF Shape, TypeOK
  <1> QED BY <1>1, <1>2, DatabaseStays, NoneMoves

LEMMA LostMoves ==
  ASSUME Shape, (\E r \in Requests : LoadFails(r)) \/ (\E x \in Processes : Restart(x))
  PROVE  RequestsMove /\ DatabaseGrows
  <1>1. ASSUME NEW r \in Requests, LoadFails(r) PROVE RequestsMove /\ DatabaseGrows
    <2>1. {r} \cup Waiting(r) \in SUBSET Requests
      BY DEF Waiting
    <2> QED BY <1>1, <2>1, DatabaseStays, NoneMoves DEF LoadFails
  <1>2. ASSUME NEW x \in Processes, Restart(x) PROVE RequestsMove /\ DatabaseGrows
    <2> DEFINE J == {r \in Requests : request[r] # None /\ request[r].process = x}
    <2>1. request' = [r \in Requests |-> IF r \in J THEN None ELSE request[r]]
      BY <1>2 DEF Restart
    <2> QED BY <1>2, <2>1, DatabaseStays, NoneMoves DEF Restart
  <1> QED BY <1>1, <1>2

LEMMA StartMoves ==
  ASSUME Shape, NEW r \in Requests, NEW x \in Processes, StartRead(r, x) \/ StartWrite(r, x)
  PROVE  RequestsMove /\ DatabaseGrows
  <1>1. PICK op, page, step :
          /\ Start(r, x, op, page, step)
          /\ \/ op \in Served /\ page = PageOf(op) /\ step = "version"
             \/ op = "write" /\ page \in Written /\ step = "write"
    BY DEF StartRead, StartWrite
  <1> DEFINE w == [process |-> x, op |-> op, page |-> page, step |-> step,
                   key |-> NoKeys, seen |-> Nothing, floor |-> finished, left |-> <<>>]
  <1>2. DatabaseGrows
    BY <1>1, DatabaseStays DEF Start
  <1>3. request[r] = None /\ request' = [request EXCEPT ![r] = w]
    BY <1>1 DEF Start
  <1>4. /\ op \in Pages \cup {"write", "shipping"} /\ page \in Pages /\ step \in {"version", "write"}
        /\ op = "write" => page \in Data
    BY <1>1, Constants, ServedAssumption DEF Pages, Data
  <1>5. w \in Request
    <2>1. finished \in [Data -> Nat]
      BY NoneAssumption DEF Shape, TypeOK
    <2> QED BY <1>4, <2>1, Constants DEF Request
  <1>6. Reader(w) \/ Writer(w, database')
    <2>1. CASE op \in Served /\ page = PageOf(op) /\ step = "version"
      <3>1. \A d \in Shows(page) : Nothing[d] = None
        BY <1>4, Constants DEF Nothing
      <3>2. (\A p \in Pages : NoKeys[p] = None) /\ Nothing["catalog"] = None
        BY DEF NoKeys, Nothing, Parts, Stored, Data
      <3> QED BY <1>4, <2>1, <3>1, <3>2 DEF Reader
    <2>2. CASE op = "write" /\ page \in Written /\ step = "write"
      BY <1>4, <2>2 DEF Writer
    <2> QED BY <1>1, <2>1, <2>2
  <1>7. request' \in [Requests -> Request \cup {None}] /\ request'[r] = w
    BY <1>3, <1>5 DEF Shape, TypeOK
  <1>8. \A j \in Requests : j # r => request'[j] = request[j]
    BY <1>3 DEF Shape, TypeOK
  <1>9. /\ request'[r].floor = finished /\ request'[r].key = NoKeys
        /\ request'[r].left = <<>> /\ request'[r].step \in {"version", "write"}
    BY <1>4, <1>7
  <1>10. ASSUME NEW j \in Requests, request'[j] # None, j # r
         PROVE  /\ request[j] # None /\ request'[j] = request[j]
                /\ Reader(request[j]) \/ Writer(request[j], database')
                /\ Turn(request[j], request[j]) /\ Leaves(request[j], request[j])
    BY <1>2, <1>8, <1>10, StaysSound
  <1> QED BY <1>2, <1>3, <1>6, <1>7, <1>9, <1>10 DEF RequestsMove

\* Every step moves the requests so.
LEMMA StepMoves ==
  ASSUME Shape, [Next]_vars
  PROVE  RequestsMove /\ DatabaseGrows
  <1>1. ASSUME NEW r \in Requests, Step(r) PROVE RequestsMove /\ DatabaseGrows
    BY <1>1, ConnectMoves, GetVersionMoves, SetVersionMoves, GetEntryMoves, LoadPageMoves,
       LoadCollectionsMoves, CollectMoves, StorePageMoves, WriteMoves, InvalidateMoves, GoneMoves
    DEF Step
  <1>2. ASSUME UNCHANGED <<request, database>> PROVE RequestsMove /\ DatabaseGrows
    BY <1>2, DatabaseStays, NothingMoves
  <1>3. ASSUME NEW x \in Processes, Connected(x) \/ Lose(x) PROVE RequestsMove /\ DatabaseGrows
    BY <1>2, <1>3 DEF Connected, Lose
  <1>4. ASSUME NEW p \in Kept, NEW n \in Versions, Expire(p, n) PROVE RequestsMove /\ DatabaseGrows
    BY <1>2, <1>4 DEF Expire
  <1>5. ASSUME NEW d \in Written, Seed(d) PROVE RequestsMove /\ DatabaseGrows
    <2>1. d \in Stored
      BY ServedAssumption, Constants
    <2>2. DatabaseGrows
      BY <1>5, <2>1, DatabaseWritten DEF Seed
    <2> QED BY <1>5, <2>2, NothingMoves DEF Seed
  <1>6. ASSUME WriteImages PROVE RequestsMove /\ DatabaseGrows
    <2>1. DatabaseGrows
      BY <1>6, Constants, DatabaseWritten DEF WriteImages
    <2> QED BY <1>6, <2>1, NothingMoves DEF WriteImages
  <1>7. CASE UNCHANGED vars
    BY <1>2, <1>7 DEF vars
  <1> QED BY <1>1, <1>3, <1>4, <1>5, <1>6, <1>7, LostMoves, StartMoves DEF Next

-----------------------------------------------------------------------------
(* How Redis changes, and what was answered.                               *)

VersionRises(p) ==
  \/ version'[p] = version[p]
  \/ version'[p] # None /\ (version[p] = None \/ version[p] < version'[p])

\* An entry stays, goes, or is what a request with its key has seen.
EntryMoves(p, n) ==
  \/ entry'[p][n] \in {entry[p][n], Nothing}
  \/ \E j \in Requests :
       /\ request[j] # None /\ request[j].key[p] = n
       /\ \A d \in Shows(p) : /\ request[j].seen[d] # None
                              /\ entry'[p][n][d] = request[j].seen[d]

RedisMoves ==
  /\ \A p \in Pages : VersionRises(p)
  /\ \A p \in Kept, n \in Versions : EntryMoves(p, n)
  /\ entry' \in [Kept -> [Versions -> Contents]]
  /\ EntriesWhole'
  /\ version' \in [Pages -> (Nat \ {0}) \cup {None}]

LEMMA RedisStays ==
  ASSUME Shape, UNCHANGED redis
  PROVE  RedisMoves
  <1>1. version' = version /\ entry' = entry
    BY DEF redis
  <1>2. /\ \A p \in Pages : VersionRises(p)
        /\ \A p \in Kept, n \in Versions : EntryMoves(p, n)
    BY <1>1 DEF VersionRises, EntryMoves
  <1>3. EntriesWhole'
    BY <1>1 DEF Shape, EntriesWhole
  <1> QED BY <1>1, <1>2, <1>3, Constants DEF RedisMoves, Shape, TypeOK

LEMMA SetVersionRedis ==
  ASSUME Shape, NEW r \in Requests, SetVersion(r)
  PROVE  RedisMoves
  <1>1. request[r].page \in Pages
    BY WhoIsAt, RequestFields DEF SetVersion
  <1>2. UNCHANGED entry
    BY DEF SetVersion
  <1>3. /\ \A p \in Pages : VersionRises(p)
        /\ version' \in [Pages -> (Nat \ {0}) \cup {None}]
    BY <1>1, Constants DEF SetVersion, VersionRises, Shape, TypeOK
  <1> QED BY <1>2, <1>3 DEF RedisMoves, EntryMoves, Shape, TypeOK, EntriesWhole

LEMMA InvalidateRedis ==
  ASSUME Shape, NEW r \in Requests, Invalidate(r)
  PROVE  RedisMoves
  <1>1. Head(request[r].left) \in Pages
    BY WhoIsAt, LeftHolds DEF Invalidate
  <1>2. UNCHANGED entry
    BY DEF Invalidate
  <1>3. /\ \A p \in Pages : VersionRises(p)
        /\ version' \in [Pages -> (Nat \ {0}) \cup {None}]
    <2>1. CASE UNCHANGED version
      BY <2>1, Constants DEF VersionRises, Shape, TypeOK
    <2>2. ASSUME NEW h \in Pages, version' = [version EXCEPT ![h] = Increment(@)]
          PROVE  /\ \A p \in Pages : VersionRises(p)
                 /\ version' \in [Pages -> (Nat \ {0}) \cup {None}]
      <3>1. version \in [Pages -> (Nat \ {0}) \cup {None}]
        BY Constants DEF Shape, TypeOK
      <3>2. PICK n \in Nat \ {0} : n = Increment(version[h])
        BY <3>1, NoneAssumption DEF Increment
      <3>3. version[h] = None \/ version[h] < n
        BY <3>1, <3>2, NoneAssumption DEF Increment
      <3>4. version' = [version EXCEPT ![h] = n]
        BY <2>2, <3>1, <3>2
      <3>5. \A p \in Pages : VersionRises(p)
        BY <3>1, <3>3, <3>4, NoneAssumption DEF VersionRises
      <3> QED BY <3>1, <3>4, <3>5
    <2> QED BY <1>1, <2>1, <2>2 DEF Invalidate
  <1> QED BY <1>2, <1>3 DEF RedisMoves, EntryMoves, Shape, TypeOK, EntriesWhole

LEMMA ExpireRedis ==
  ASSUME Shape, NEW p \in Kept, NEW n \in Versions, Expire(p, n)
  PROVE  RedisMoves
  <1>1. UNCHANGED version
    BY DEF Expire
  <1>2. entry' \in [Kept -> [Versions -> Contents]]
    BY Constants DEF Expire, Shape, TypeOK
  <1>3. ASSUME NEW q \in Kept, NEW m \in Versions PROVE entry'[q][m] \in {entry[q][m], Nothing}
    BY DEF Expire, Shape, TypeOK
  <1>4. EntriesWhole'
    BY <1>3 DEF EntriesWhole, Shape
  <1> QED BY <1>1, <1>2, <1>3, <1>4, Constants
      DEF RedisMoves, VersionRises, EntryMoves, Shape, TypeOK

LEMMA StorePageRedis ==
  ASSUME Shape, NEW r \in Requests, StorePage(r)
  PROVE  RedisMoves
  <1> DEFINE q == request[r]
             p == q.page
             k == q.key[p]
             content == Content(r, p)
  <1>1. /\ q # None /\ q \in Request /\ Reader(q) /\ q.step = "store"
        /\ p \in Kept /\ p \in Pages /\ q.seen \in Contents
        /\ q.key \in [Pages -> Versions \cup {None}] /\ Shows(p) \subseteq Parts
    BY WhoIsAt, RequestFields, Constants DEF StorePage
  <1>2. k \in Versions /\ \A d \in Shows(p) : q.seen[d] # None
    BY <1>1 DEF Reader
  <1>3. UNCHANGED version
    BY DEF StorePage
  <1>4. content \in Contents /\ \A d \in Parts : content[d] = IF d \in Shows(p) THEN q.seen[d] ELSE None
    BY <1>1 DEF Content, Contents
  <1>5. CASE UNCHANGED entry
    BY <1>3, <1>5, RedisStays DEF redis
  <1>6. CASE entry' = [entry EXCEPT ![p][k] = content]
    <2>1. entry' \in [Kept -> [Versions -> Contents]]
      BY <1>1, <1>2, <1>4, <1>6 DEF Shape, TypeOK
    <2>2. /\ entry'[p][k] = content
          /\ \A x \in Kept, n \in Versions : <<x, n>> # <<p, k>> => entry'[x][n] = entry[x][n]
      BY <1>1, <1>2, <1>6 DEF Shape, TypeOK
    <2>3. ASSUME NEW x \in Kept, NEW n \in Versions PROVE EntryMoves(x, n)
      BY <1>1, <1>2, <1>4, <2>2 DEF EntryMoves
    <2>4. EntriesWhole'
      <3>1. ASSUME NEW x \in Kept, NEW n \in Versions, entry'[x][n] # Nothing, NEW d \in Parts
            PROVE  entry'[x][n][d] # None <=> d \in Shows(x)
        <4>1. CASE <<x, n>> = <<p, k>>
          BY <1>2, <1>4, <2>2, <4>1
        <4>2. CASE <<x, n>> # <<p, k>>
          BY <2>2, <3>1, <4>2 DEF Shape, EntriesWhole
        <4> QED BY <4>1, <4>2
      <3> QED BY <3>1 DEF EntriesWhole
    <2> QED BY <1>3, <2>1, <2>3, <2>4, Constants DEF RedisMoves, VersionRises, Shape, TypeOK
  <1> QED BY <1>5, <1>6 DEF StorePage, Key

LEMMA StepRedis ==
  ASSUME Shape, [Next]_vars
  PROVE  RedisMoves
  <1>1. ASSUME NEW r \in Requests, Step(r) PROVE RedisMoves
    <2>1. CASE SetVersion(r) \/ Invalidate(r) \/ StorePage(r)
      BY <2>1, SetVersionRedis, InvalidateRedis, StorePageRedis
    <2>2. CASE Connect(r) \/ GetVersion(r) \/ GetEntry(r) \/ LoadPage(r) \/ LoadCollections(r)
               \/ Collect(r) \/ Write(r) \/ Finish(r) \/ End(r)
      BY <2>2, RedisStays
      DEF Connect, GetVersion, GetEntry, LoadPage, LoadCollections, Collect, Write, Finish, End
    <2> QED BY <1>1, <2>1, <2>2 DEF Step
  <1>2. ASSUME NEW r \in Requests, LoadFails(r) PROVE RedisMoves
    BY <1>2, RedisStays DEF LoadFails
  <1>3. ASSUME NEW r \in Requests, NEW x \in Processes, StartRead(r, x) \/ StartWrite(r, x)
        PROVE  RedisMoves
    BY <1>3, RedisStays DEF StartRead, StartWrite, Start
  <1>4. ASSUME NEW x \in Processes, Connected(x) \/ Lose(x) \/ Restart(x) PROVE RedisMoves
    BY <1>4, RedisStays DEF Connected, Lose, Restart
  <1>5. ASSUME NEW d \in Written, Seed(d) PROVE RedisMoves
    BY <1>5, RedisStays DEF Seed
  <1>6. ASSUME WriteImages PROVE RedisMoves
    BY <1>6, RedisStays DEF WriteImages
  <1>7. CASE UNCHANGED vars
    BY <1>7, RedisStays DEF vars, redis
  <1> QED BY <1>1, <1>2, <1>3, <1>4, <1>5, <1>6, <1>7, ExpireRedis DEF Next

\* What was answered stays so, or is a write that has incremented its versions.
FinishedMoves ==
  /\ finished' \in [Data -> Nat]
  /\ \A d \in Data :
       \/ finished'[d] = finished[d]
       \/ \E r \in Requests :
            /\ At(r, "invalidate") /\ request[r].left = <<>> /\ request[r].page = d
            /\ finished[d] < request[r].seen[d] /\ finished'[d] = request[r].seen[d]
            /\ UNCHANGED version

LEMMA StepFinished ==
  ASSUME Shape, [Next]_vars
  PROVE  FinishedMoves
  <1>1. finished \in [Data -> Nat]
    BY NoneAssumption DEF Shape, TypeOK
  <1>2. ASSUME NEW r \in Requests, Finish(r) PROVE FinishedMoves
    <2> DEFINE q == request[r]
    <2>1. /\ q.page \in Data /\ q.seen[q.page] \in Nat
      <3>1. Writer(q, database) /\ q.step = "invalidate" /\ q.seen \in Contents
        BY <1>2, WhoIsAt, RequestFields DEF Finish
      <3> QED BY <3>1, Constants DEF Writer, Contents
    <2> QED BY <1>1, <1>2, <2>1 DEF Finish, FinishedMoves, redis
  <1>3. ASSUME UNCHANGED finished PROVE FinishedMoves
    BY <1>1, <1>3 DEF FinishedMoves
  <1>4. ASSUME NEW r \in Requests, Step(r) PROVE FinishedMoves
    BY <1>2, <1>3, <1>4
    DEF Step, Connect, GetVersion, SetVersion, GetEntry, LoadPage, LoadCollections, Collect,
        StorePage, Write, Invalidate, End
  <1>5. ASSUME NEW r \in Requests, LoadFails(r) PROVE FinishedMoves
    BY <1>3, <1>5 DEF LoadFails
  <1>6. ASSUME NEW r \in Requests, NEW x \in Processes, StartRead(r, x) \/ StartWrite(r, x)
        PROVE  FinishedMoves
    BY <1>3, <1>6 DEF StartRead, StartWrite, Start
  <1>7. ASSUME NEW x \in Processes, Connected(x) \/ Lose(x) \/ Restart(x) PROVE FinishedMoves
    BY <1>3, <1>7 DEF Connected, Lose, Restart
  <1>8. ASSUME NEW p \in Kept, NEW n \in Versions, Expire(p, n) PROVE FinishedMoves
    BY <1>3, <1>8 DEF Expire
  <1>9. ASSUME NEW d \in Written, Seed(d) PROVE FinishedMoves
    BY <1>3, <1>9 DEF Seed
  <1>10. ASSUME WriteImages PROVE FinishedMoves
    BY <1>3, <1>10 DEF WriteImages
  <1>11. CASE UNCHANGED vars
    BY <1>3, <1>11 DEF vars
  <1> QED BY <1>4, <1>5, <1>6, <1>7, <1>8, <1>9, <1>10, <1>11 DEF Next

LEMMA FinishedStaysSound ==
  ASSUME Shape, RequestsMove, DatabaseGrows, FinishedMoves
  PROVE  FinishedSound' /\ \A d \in Data : finished[d] <= finished'[d]
  <1>1. finished \in [Data -> Nat] /\ finished' \in [Data -> Nat]
        /\ database \in [Stored -> Nat] /\ database' \in [Stored -> Nat]
    BY NoneAssumption DEF Shape, TypeOK, FinishedMoves, DatabaseGrows
  <1>2. ASSUME NEW d \in Data
        PROVE  finished'[d] <= database[d] /\ finished[d] <= finished'[d]
    <2>1. CASE finished'[d] = finished[d]
      BY <1>1, <2>1 DEF Shape, FinishedSound
    <2>2. ASSUME NEW r \in Requests, At(r, "invalidate"), request[r].page = d,
                 finished[d] < request[r].seen[d], finished'[d] = request[r].seen[d]
          PROVE  finished'[d] <= database[d] /\ finished[d] <= finished'[d]
      <3>1. request[r].seen[d] <= database[d]
        BY <2>2, WhoIsAt DEF Writer
      <3> QED BY <1>1, <2>2, <3>1, Constants
    <2> QED BY <2>1, <2>2 DEF FinishedMoves
  <1>3. ASSUME NEW d \in Data PROVE finished'[d] <= database'[d]
    BY <1>1, <1>2, Constants DEF DatabaseGrows
  <1>4. ASSUME NEW d \in Data, NEW r \in Requests, request'[r] # None
        PROVE  request'[r].floor[d] <= finished'[d]
    <2>1. CASE request[r] = None
      BY <1>1, <1>2, <1>4, <2>1 DEF RequestsMove
    <2>2. CASE request[r] # None
      <3>1. request'[r].floor = request[r].floor /\ request[r].floor[d] <= finished[d]
        BY <1>4, <2>2 DEF RequestsMove, Shape, FinishedSound
      <3>2. request[r].floor[d] \in Nat
        BY <2>2, RequestFields DEF Shape, TypeOK
      <3> QED BY <1>1, <1>2, <3>1, <3>2
    <2> QED BY <2>1, <2>2
  <1> QED BY <1>2, <1>3, <1>4 DEF FinishedSound

-----------------------------------------------------------------------------
(* The versions stay within Versions.                                      *)

LEMMA PendingFinite ==
  ASSUME NEW p
  PROVE  IsFiniteSet(Pending(p)) /\ Cardinality(Pending(p)) \in Nat
  BY RequestsAssumption, FS_Subset, FS_CardinalityType DEF Pending

LEMMA PendingPrimeFinite ==
  ASSUME NEW p
  PROVE  IsFiniteSet(Pending(p)') /\ Cardinality(Pending(p)') \in Nat
  BY RequestsAssumption, FS_Subset, FS_CardinalityType DEF Pending

LEMMA PendingLess ==
  ASSUME NEW p, Pending(p)' \subseteq Pending(p)
  PROVE  Cardinality(Pending(p)') <= Cardinality(Pending(p))
  BY PendingFinite, FS_Subset

LEMMA PendingMore ==
  ASSUME NEW p, NEW r, Pending(p)' \subseteq Pending(p) \cup {r}
  PROVE  Cardinality(Pending(p)') <= Cardinality(Pending(p)) + 1
  <1>1. /\ IsFiniteSet(Pending(p) \cup {r})
        /\ Cardinality(Pending(p) \cup {r}) \in Nat
        /\ Cardinality(Pending(p) \cup {r}) <= Cardinality(Pending(p)) + 1
    BY PendingFinite, FS_AddElement, FS_CardinalityType
  <1>2. Cardinality(Pending(p)') <= Cardinality(Pending(p) \cup {r})
    BY <1>1, FS_Subset
  <1> QED BY <1>1, <1>2, PendingFinite, PendingPrimeFinite

LEMMA PendingOneLess ==
  ASSUME NEW p, NEW r \in Pending(p), Pending(p)' \subseteq Pending(p) \ {r}
  PROVE  Cardinality(Pending(p)') <= Cardinality(Pending(p)) - 1
  <1>1. /\ IsFiniteSet(Pending(p) \ {r})
        /\ Cardinality(Pending(p) \ {r}) = Cardinality(Pending(p)) - 1
    BY PendingFinite, FS_RemoveElement
  <1>2. Cardinality(Pending(p)') <= Cardinality(Pending(p) \ {r})
    BY <1>1, FS_Subset
  <1> QED BY <1>1, <1>2

LEMMA PendingStays ==
  ASSUME Shape, RequestsMove, UNCHANGED database, NEW p \in Pages
  PROVE  Pending(p)' \subseteq Pending(p)
  <1>1. ASSUME NEW j \in Requests, request'[j] # None, Among(p, request'[j].left)
        PROVE  request[j] # None /\ Among(p, request[j].left)
    <2>1. ~Among(p, <<>>)
      BY DEF Among
    <2>2. ~Reader(request'[j])
      BY <1>1, <2>1 DEF Reader
    <2>3. request[j] # None
      BY <1>1, <2>1 DEF RequestsMove
    <2> QED BY <1>1, <2>2, <2>3 DEF RequestsMove, Leaves
  <1> QED BY <1>1 DEF Pending, Among

\* The bound, once versions, database and pending increments are weighed.
LEMMA Counted ==
  ASSUME Shape, NEW p \in Pages, NEW gain \in {0, 1},
         Writes' = Writes + gain,
         \/ /\ Number(version'[p]) = Number(version[p])
            /\ Cardinality(Pending(p)') <= Cardinality(Pending(p)) + gain
         \/ /\ Number(version'[p]) <= Number(version[p]) + 1
            /\ Number(version'[p]) \in Nat
            /\ Cardinality(Pending(p)') <= Cardinality(Pending(p)) - 1
  PROVE  Number(version'[p]) + Cardinality(Pending(p)') <= Writes' + 1
  <1>1. Number(version[p]) + Cardinality(Pending(p)) <= Writes + 1
    BY DEF Shape, VersionsCounted
  <1>2. Cardinality(Pending(p)) \in Nat /\ Cardinality(Pending(p)') \in Nat
    BY PendingFinite, PendingPrimeFinite
  <1>3. Number(version[p]) \in Nat
    BY Constants DEF Shape, TypeOK, Number
  <1>4. Writes \in Nat
    BY NoneAssumption DEF Shape, TypeOK, Stored, Data, Writes
  <1> QED BY <1>1, <1>2, <1>3, <1>4

LEMMA InvalidateCounted ==
  ASSUME Shape, NEW r \in Requests, Invalidate(r), RequestsMove, NEW p \in Pages
  PROVE  Number(version'[p]) + Cardinality(Pending(p)') <= Writes' + 1
  <1> DEFINE q == request[r]
             h == Head(q.left)
  <1>0. UNCHANGED database /\ Writes' = Writes + 0
    <2>1. UNCHANGED database
      BY DEF Invalidate
    <2>2. Writes \in Nat
      BY NoneAssumption DEF Shape, TypeOK, Stored, Data, Writes
    <2> QED BY <2>1, <2>2 DEF Writes
  <1>1. Cardinality(Pending(p)') <= Cardinality(Pending(p)) /\ Cardinality(Pending(p)) \in Nat
    BY <1>0, PendingStays, PendingLess, PendingFinite
  <1>2. /\ q # None /\ Writer(q, database) /\ q.left # <<>> /\ h \in Pages
    BY WhoIsAt, LeftHolds DEF Invalidate
  <1>3. CASE Number(version'[p]) = Number(version[p])
    BY <1>0, <1>1, <1>3, Counted
  <1>4. CASE /\ p = h /\ version' = [version EXCEPT ![h] = Increment(@)]
             /\ request' = [request EXCEPT ![r].left = Tail(@)]
    <2>1. Among(p, q.left) /\ ~Among(p, Tail(q.left))
      <3>1. q.left \in {<<"homepage">>, <<q.page>>, <<q.page, "homepage">>}
        BY <1>2 DEF Writer, Invalidated
      <3>2. q.page # "homepage"
        BY <1>2 DEF Writer, Data
      <3>3. CASE q.left \in {<<"homepage">>, <<q.page>>}
        <4>1. PICK n \in {"homepage", q.page} : q.left = <<n>>
          BY <3>3
        <4>2. Tail(q.left) = <<>> /\ h = n
          BY <4>1
        <4> QED BY <1>4, <4>1, <4>2 DEF Among
      <3>4. CASE q.left = <<q.page, "homepage">>
        <4>1. Tail(q.left) = <<"homepage">> /\ h = q.page
          BY <3>4
        <4> QED BY <1>4, <3>2, <3>4, <4>1 DEF Among
      <3> QED BY <3>1, <3>3, <3>4
    <2>2. r \in Pending(p)
      BY <1>2, <2>1 DEF Pending
    <2>3. request'[r].left = Tail(q.left)
      BY <1>2, <1>4, WhoIsAt DEF Shape, TypeOK, Request, Invalidate
    <2>4. Pending(p)' \subseteq Pending(p) \ {r}
      <3>1. r \notin Pending(p)'
        BY <2>1, <2>3 DEF Pending, Among
      <3> QED BY <1>0, <3>1, PendingStays
    <2>5. Cardinality(Pending(p)') <= Cardinality(Pending(p)) - 1
      BY <2>2, <2>4, PendingOneLess
    <2>6. version[p] \in Nat \cup {None} /\ version'[p] = Increment(version[p])
      BY <1>4, Constants DEF Shape, TypeOK
    <2>7. Number(version'[p]) <= Number(version[p]) + 1 /\ Number(version'[p]) \in Nat
      BY <2>6, NoneAssumption DEF Increment, Number
    <2> QED BY <1>0, <2>5, <2>7, Counted
  <1>5. version'[p] = version[p] \/ p = h
    BY <1>2 DEF Invalidate, Shape, TypeOK
  <1> QED BY <1>3, <1>4, <1>5 DEF Invalidate

LEMMA WritesBounded ==
  ASSUME Shape, [Next]_vars
  PROVE  /\ database' \in [Stored -> 0 .. MaxWrites] /\ Writes' <= MaxWrites
         /\ \/ UNCHANGED database
            \/ \E r \in Requests : Write(r)
            \/ Writes' = Writes + 1 /\ UNCHANGED <<request, version>>
  <1>0. Writes \in Nat /\ MaxWrites \in Nat /\ Writes <= MaxWrites
    BY NoneAssumption DEF Shape, TypeOK, Stored, Data, Writes, VersionsCounted
  <1>1. ASSUME UNCHANGED database PROVE database' \in [Stored -> 0 .. MaxWrites] /\ Writes' <= MaxWrites
    BY <1>0, <1>1 DEF Shape, TypeOK, Writes
  <1>2. ASSUME NEW r \in Requests, Write(r)
        PROVE  database' \in [Stored -> 0 .. MaxWrites] /\ Writes' <= MaxWrites
    <2>1. request[r].page \in Stored
      BY <1>2, WhoIsAt, Constants DEF Write, Writer
    <2>2. Writes < MaxWrites /\ database' = [database EXCEPT ![request[r].page] = @ + 1]
      BY <1>2 DEF Write
    <2>3. Writes' = Writes + 1 /\ database' \in [Stored -> 0 .. MaxWrites]
      BY <2>1, <2>2, DatabaseWritten
    <2> QED BY <1>0, <2>2, <2>3
  <1>3. ASSUME NEW d \in Written, Seed(d)
        PROVE  /\ database' \in [Stored -> 0 .. MaxWrites] /\ Writes' <= MaxWrites
               /\ Writes' = Writes + 1 /\ UNCHANGED <<request, version>>
    <2>1. d \in Stored
      BY ServedAssumption, Constants
    <2>2. Writes < MaxWrites /\ database' = [database EXCEPT ![d] = @ + 1]
      BY <1>3 DEF Seed
    <2>3. Writes' = Writes + 1 /\ database' \in [Stored -> 0 .. MaxWrites]
      BY <2>1, <2>2, DatabaseWritten
    <2> QED BY <1>0, <1>3, <2>2, <2>3 DEF Seed, redis
  <1>4. ASSUME NEW r \in Requests, Step(r) PROVE Write(r) \/ UNCHANGED database
    BY <1>4
    DEF Step, Connect, GetVersion, SetVersion, GetEntry, LoadPage, LoadCollections, Collect,
        StorePage, Invalidate, Finish, End
  <1>5. ASSUME NEW r \in Requests, LoadFails(r) PROVE UNCHANGED database
    BY <1>5 DEF LoadFails
  <1>6. ASSUME NEW r \in Requests, NEW x \in Processes, StartRead(r, x) \/ StartWrite(r, x)
        PROVE  UNCHANGED database
    BY <1>6 DEF StartRead, StartWrite, Start
  <1>7. ASSUME NEW x \in Processes, Connected(x) \/ Lose(x) \/ Restart(x) PROVE UNCHANGED database
    BY <1>7 DEF Connected, Lose, Restart
  <1>8. ASSUME NEW p \in Kept, NEW n \in Versions, Expire(p, n) PROVE UNCHANGED database
    BY <1>8 DEF Expire
  <1>9. ASSUME WriteImages
        PROVE  /\ database' \in [Stored -> 0 .. MaxWrites] /\ Writes' <= MaxWrites
               /\ Writes' = Writes + 1 /\ UNCHANGED <<request, version>>
    <2>1. Writes < MaxWrites /\ database' = [database EXCEPT !["images"] = @ + 1]
      BY <1>9 DEF WriteImages
    <2>2. Writes' = Writes + 1 /\ database' \in [Stored -> 0 .. MaxWrites]
      BY <2>1, Constants, DatabaseWritten
    <2> QED BY <1>0, <1>9, <2>1, <2>2 DEF WriteImages, redis
  <1>10. CASE UNCHANGED vars
    BY <1>1, <1>10 DEF vars
  <1> QED BY <1>1, <1>2, <1>3, <1>4, <1>5, <1>6, <1>7, <1>8, <1>9, <1>10 DEF Next

\* The increments that are left never exceed the writes.
LEMMA CountKept ==
  ASSUME Shape, [Next]_vars
  PROVE  VersionsCounted'
  <1>1. RequestsMove /\ Writes \in Nat
    BY StepMoves, NoneAssumption DEF Shape, TypeOK, Stored, Data, Writes
  <1>2. ASSUME NEW p \in Pages
        PROVE  Number(version'[p]) + Cardinality(Pending(p)') <= Writes' + 1
    <2>1. ASSUME UNCHANGED database, Number(version'[p]) = Number(version[p])
          PROVE  Number(version'[p]) + Cardinality(Pending(p)') <= Writes' + 1
      <3>1. Writes' = Writes + 0
        BY <1>1, <2>1 DEF Writes
      <3>2. Cardinality(Pending(p)') <= Cardinality(Pending(p)) + 0
        BY <1>1, <1>2, <2>1, PendingStays, PendingLess, PendingFinite, PendingPrimeFinite
      <3> QED BY <1>2, <2>1, <3>1, <3>2, Counted
    <2>2. ASSUME NEW r \in Requests, Write(r)
          PROVE  Number(version'[p]) + Cardinality(Pending(p)') <= Writes' + 1
      <3>1. UNCHANGED version /\ Writes' = Writes + 1
        <4>1. request[r].page \in Stored
          BY <2>2, WhoIsAt, Constants DEF Write, Writer
        <4> QED BY <2>2, <4>1, DatabaseWritten DEF Write, redis
      <3>2. Pending(p)' \subseteq Pending(p) \cup {r}
        BY <2>2 DEF Write, Pending, Among, Shape, TypeOK
      <3>3. Cardinality(Pending(p)') <= Cardinality(Pending(p)) + 1
        BY <3>2, PendingMore
      <3> QED BY <1>2, <3>1, <3>3, Counted
    <2>3. ASSUME UNCHANGED <<request, version>>, Writes' = Writes + 1
          PROVE  Number(version'[p]) + Cardinality(Pending(p)') <= Writes' + 1
      <3>1. Pending(p)' \subseteq Pending(p)
        BY <2>3 DEF Pending, Among
      <3>2. Cardinality(Pending(p)') <= Cardinality(Pending(p)) + 1
        BY <3>1, PendingLess, PendingFinite, PendingPrimeFinite
      <3> QED BY <1>2, <2>3, <3>2, Counted
    <2>4. ASSUME NEW r \in Requests, SetVersion(r)
          PROVE  UNCHANGED database /\ Number(version'[p]) = Number(version[p])
      BY <1>2, <2>4 DEF SetVersion, Number, Shape, TypeOK
    <2>5. ASSUME NEW r \in Requests, Step(r)
          PROVE  Write(r) \/ SetVersion(r) \/ Invalidate(r) \/ UNCHANGED <<database, version>>
      BY <2>5
      DEF Step, Connect, GetVersion, GetEntry, LoadPage, LoadCollections, Collect, StorePage,
          Finish, End, redis
    <2>6. ASSUME NEW r \in Requests, Step(r)
          PROVE  Number(version'[p]) + Cardinality(Pending(p)') <= Writes' + 1
      BY <1>1, <1>2, <2>1, <2>2, <2>4, <2>5, <2>6, InvalidateCounted
    <2>7. ASSUME NEW r \in Requests, LoadFails(r) PROVE UNCHANGED <<database, version>>
      BY <2>7 DEF LoadFails, redis
    <2>8. ASSUME NEW r \in Requests, NEW x \in Processes, StartRead(r, x) \/ StartWrite(r, x)
          PROVE  UNCHANGED <<database, version>>
      BY <2>8 DEF StartRead, StartWrite, Start, redis
    <2>9. ASSUME NEW x \in Processes, Connected(x) \/ Lose(x) \/ Restart(x)
          PROVE  UNCHANGED <<database, version>>
      BY <2>9 DEF Connected, Lose, Restart, redis
    <2>10. ASSUME NEW x \in Kept, NEW n \in Versions, Expire(x, n) PROVE UNCHANGED <<database, version>>
      BY <2>10 DEF Expire
    <2>11. ASSUME NEW d \in Written, Seed(d) PROVE UNCHANGED <<request, version>> /\ Writes' = Writes + 1
      <3>1. d \in Stored
        BY ServedAssumption, Constants
      <3> QED BY <2>11, <3>1, DatabaseWritten DEF Seed, redis
    <2>12. ASSUME WriteImages PROVE UNCHANGED <<request, version>> /\ Writes' = Writes + 1
      BY <2>12, Constants, DatabaseWritten DEF WriteImages, redis
    <2>13. CASE UNCHANGED vars
      BY <2>1, <2>13 DEF vars
    <2> QED BY <2>1, <2>3, <2>6, <2>7, <2>8, <2>9, <2>10, <2>11, <2>12, <2>13 DEF Next
  <1> QED BY <1>2, WritesBounded DEF VersionsCounted

\* The connections, the failures and the faults keep to their types.
LEMMA ConnectionsTyped ==
  ASSUME Shape, [Next]_vars
  PROVE  /\ connection' \in [Processes -> {"wait", "ready", "end"} \cup Requests]
         /\ failed' \in BOOLEAN
         /\ faults' \in 0 .. MaxFaults
  <1> DEFINE Goal == /\ connection' \in [Processes -> {"wait", "ready", "end"} \cup Requests]
                     /\ failed' \in BOOLEAN
                     /\ faults' \in 0 .. MaxFaults
  <1>0. /\ connection \in [Processes -> {"wait", "ready", "end"} \cup Requests]
        /\ failed \in BOOLEAN
        /\ faults \in 0 .. MaxFaults /\ MaxFaults \in Nat
    BY NoneAssumption DEF Shape, TypeOK
  <1>1. ASSUME UNCHANGED <<connection, faults>>, failed' \in {failed, TRUE} PROVE Goal
    BY <1>0, <1>1
  <1>2. ASSUME NEW r \in Requests, Step(r) PROVE Goal
    <2>1. CASE Connect(r)
      BY <1>0, <2>1 DEF Connect
    <2>2. CASE GetVersion(r) \/ SetVersion(r) \/ GetEntry(r) \/ StorePage(r) \/ Invalidate(r)
      BY <1>1, <2>2 DEF GetVersion, SetVersion, GetEntry, StorePage, Invalidate, Executes, Fails
    <2>3. CASE LoadPage(r) \/ LoadCollections(r) \/ Collect(r) \/ Write(r) \/ Finish(r) \/ End(r)
      BY <1>1, <2>3 DEF LoadPage, LoadCollections, Collect, Write, Finish, End
    <2> QED BY <1>2, <2>1, <2>2, <2>3 DEF Step
  <1>3. ASSUME NEW r \in Requests, LoadFails(r) PROVE Goal
    BY <1>1, <1>3 DEF LoadFails
  <1>4. ASSUME NEW r \in Requests, NEW x \in Processes, StartRead(r, x) \/ StartWrite(r, x)
        PROVE  Goal
    BY <1>1, <1>4 DEF StartRead, StartWrite, Start
  <1>5. ASSUME NEW x \in Processes, Connected(x) \/ Lose(x) \/ Restart(x) PROVE Goal
    BY <1>0, <1>5 DEF Connected, Lose, Restart
  <1>6. ASSUME NEW p \in Kept, NEW n \in Versions, Expire(p, n) PROVE Goal
    BY <1>1, <1>6 DEF Expire
  <1>7. ASSUME NEW d \in Written, Seed(d) PROVE Goal
    BY <1>1, <1>7 DEF Seed
  <1>8. ASSUME WriteImages PROVE Goal
    BY <1>1, <1>8 DEF WriteImages
  <1>9. CASE UNCHANGED vars
    BY <1>1, <1>9 DEF vars
  <1> QED BY <1>2, <1>3, <1>4, <1>5, <1>6, <1>7, <1>8, <1>9 DEF Next

LEMMA ShapeKept ==
  ASSUME Shape, [Next]_vars
  PROVE  Shape'
  <1>1. RequestsMove /\ DatabaseGrows /\ RedisMoves /\ FinishedMoves
    BY StepMoves, StepRedis, StepFinished
  <1>2. VersionsCounted' /\ FinishedSound'
    BY <1>1, CountKept, FinishedStaysSound
  <1>3. RequestsSound'
    BY <1>1 DEF RequestsMove, RequestsSound
  <1>4. database' \in [Stored -> 0 .. MaxWrites] /\ Writes' \in Nat /\ MaxWrites \in Nat
    BY WritesBounded, NoneAssumption DEF Writes, Stored, Data
  <1>5. version' \in [Pages -> Versions \cup {None}]
    <2>1. ASSUME NEW p \in Pages, version'[p] # None PROVE version'[p] \in Versions
      <3>1. version'[p] \in Nat \ {0} /\ Number(version'[p]) = version'[p]
        BY <1>1, <2>1 DEF RedisMoves, Number
      <3>2. version'[p] + Cardinality(Pending(p)') <= Writes' + 1 /\ Writes' <= MaxWrites
        BY <1>2, <3>1 DEF VersionsCounted
      <3>3. Cardinality(Pending(p)') \in Nat
        BY PendingPrimeFinite
      <3> QED BY <1>4, <3>1, <3>2, <3>3 DEF Versions
    <2> QED BY <1>1, <2>1 DEF RedisMoves
  <1>6. finished' \in [Data -> 0 .. MaxWrites]
    <2>1. ASSUME NEW d \in Data PROVE finished'[d] \in 0 .. MaxWrites
      BY <1>1, <1>2, <1>4, <2>1, Constants DEF FinishedMoves, FinishedSound
    <2> QED BY <1>1, <2>1 DEF FinishedMoves
  <1>7. TypeOK'
    BY <1>1, <1>4, <1>5, <1>6, ConnectionsTyped DEF TypeOK, RequestsMove, RedisMoves
  <1> QED BY <1>1, <1>2, <1>3, <1>7 DEF Shape, RedisMoves

LEMMA ShapeFirst ==
  ASSUME Init
  PROVE  Shape
  <1>1. TypeOK
    <2>1. entry \in [Kept -> [Versions -> Contents]]
      BY Constants DEF Init
    <2>2. database \in [Stored -> 0 .. MaxWrites] /\ finished \in [Data -> 0 .. MaxWrites]
      <3>1. 0 \in 0 .. MaxWrites
        BY NoneAssumption
      <3> QED BY <3>1 DEF Init
    <2>3. connection \in [Processes -> {"wait", "ready", "end"} \cup Requests]
      BY DEF Init
    <2>4. /\ version \in [Pages -> Versions \cup {None}]
          /\ request \in [Requests -> Request \cup {None}]
      BY DEF Init
    <2>5. failed \in BOOLEAN
      BY DEF Init
    <2>6. faults \in 0 .. MaxFaults
      BY NoneAssumption DEF Init
    <2> QED BY <2>1, <2>2, <2>3, <2>4, <2>5, <2>6 DEF TypeOK
  <1>2. RequestsSound
    BY DEF Init, RequestsSound
  <1>3. EntriesWhole
    <2>1. \A p \in Kept, n \in Versions : entry[p][n] = Nothing
      BY DEF Init
    <2> QED BY <2>1 DEF EntriesWhole
  <1>4. FinishedSound
    BY Constants DEF Init, FinishedSound
  <1>5. VersionsCounted
    <2>1. Writes = 0
      BY DEF Init, Writes, Stored, Data
    <2>2. ASSUME NEW p \in Pages
          PROVE  Number(version[p]) = 1 /\ Cardinality(Pending(p)) = 0
      BY <2>2, FS_EmptySet DEF Init, Number, Pending
    <2> QED BY <2>1, <2>2, NoneAssumption DEF VersionsCounted
  <1> QED BY <1>1, <1>2, <1>3, <1>4, <1>5 DEF Shape

LEMMA ShapeAlways == Spec => []Shape
  BY ShapeFirst, ShapeKept, PTL DEF Spec

\* The state keeps to its types: the versions in Redis, one for each write at
\* most, too, however requests invalidate them at once, fail and stop.
THEOREM TypeCorrect == Spec => []TypeOK
  <1>1. Shape => TypeOK
    BY DEF Shape
  <1> QED BY <1>1, ShapeAlways, PTL

-----------------------------------------------------------------------------
(* What a key can give.                                                    *)

\* What each page promises to show is some of what it shows, and data.
LEMMA PromisedParts ==
  /\ Promised("banners") = {"banners"}
  /\ Promised("catalog") = {"catalog"}
  /\ Promised("settings") = {"settings"}
  /\ Promised("homepage") = {"banners", "catalog"}
  /\ \A p \in Pages : Promised(p) \subseteq Shows(p) /\ Promised(p) \subseteq Data
  /\ \A p \in Pages : \A d \in Promised(p) : Of(d) = d /\ d \in Stored /\ d \in Parts
  /\ \A p \in Pages : "banners" \in Promised(p) => p \in {"banners", "homepage"}
  <1>1. \A p \in Pages : Promised(p) \subseteq Shows(p) /\ Promised(p) \subseteq Data
    BY DEF Promised
  <1>2. \A d \in Data : Of(d) = d /\ d \in Stored /\ d \in Parts
    BY Constants
  <1>3. /\ Promised("banners") = {"banners"}
        /\ Promised("catalog") = {"catalog"}
        /\ Promised("settings") = {"settings"}
        /\ Promised("homepage") = {"banners", "catalog"}
    BY ShownParts DEF Promised, Data
  <1> QED BY <1>1, <1>2, <1>3 DEF Pages

\* Versions only rise: what is stored, and what a request looks for, is under
\* the version of now or an earlier one.
KeysCurrent ==
  \A p \in Kept, n \in Versions :
    \/ entry[p][n] # Nothing
    \/ \E r \in Requests : request[r] # None /\ request[r].key[p] = n
    => version[p] # None /\ n <= version[p]

Unused(p, n) ==
  /\ entry[p][n] = Nothing
  /\ \A r \in Requests : request[r] # None => request[r].key[p] # n

\* Of datum d, nothing older than m is under key n of p, nor on its way there.
Under(p, n, d, m) ==
  /\ entry[p][n] # Nothing => entry[p][n][d] >= m
  /\ \A r \in Requests :
       request[r] # None /\ request[r].key[p] = n /\ request[r].seen[d] # None
         => request[r].seen[d] >= m

Latest(p, d, m) ==
  \A n \in Versions : version[p] = n => Under(p, n, d, m)

\* The banners that a homepage under key n will find are not older than m.
BannersToo(n, m) ==
  /\ Latest("banners", "banners", m)
  /\ \A r \in Requests, k \in Versions :
       /\ request[r] # None
       /\ request[r].key["homepage"] = n
       /\ HasKey(request[r], "banners", k)
       => Under("banners", k, "banners", m)

Shown(p, n, d, m) ==
  /\ Under(p, n, d, m)
  /\ p = "homepage" /\ d = "banners" => BannersToo(n, m)

\* A step, as far as the freshness of pages goes.
Moves ==
  /\ Shape /\ Shape'
  /\ RequestsMove /\ DatabaseGrows /\ RedisMoves /\ FinishedMoves
  /\ ~failed'

\* A request before and after a step.
LEMMA Moving ==
  ASSUME Moves, NEW j \in Requests, request'[j] # None
  PROVE  /\ IF request[j] = None
            THEN /\ \A p \in Pages : request'[j].key[p] = None
                 /\ request'[j].step \in {"version", "write"}
            ELSE /\ Turn(request[j], request'[j])
                 /\ request'[j].floor = request[j].floor
                 /\ request[j] \in Request
                 /\ Reader(request[j]) \/ Writer(request[j], database)
         /\ request'[j] \in Request
  BY DEF Moves, RequestsMove, NoKeys, Shape, TypeOK, RequestsSound

\* A key is of a reader, of its page or of the homepage that it builds.
LEMMA KeyOwner ==
  ASSUME Shape, NEW j \in Requests, request[j] # None, NEW p \in Pages, request[j].key[p] # None
  PROVE  /\ Reader(request[j]) /\ request[j] \in Request
         /\ p \in {request[j].page, PageOf(request[j].op)}
         /\ p # request[j].page =>
              p = "homepage" /\ request[j].op = "homepage" /\ request[j].page = "banners"
  <1>1. Reader(request[j]) \/ Writer(request[j], database)
    BY DEF Shape, RequestsSound
  <1>2. ~Writer(request[j], database)
    BY DEF Writer, NoKeys
  <1> QED BY <1>1, <1>2 DEF Reader, PageOf, Shape, TypeOK

\* How a key comes about.
LEMMA KeyTurns ==
  ASSUME Moves, NEW j \in Requests, request'[j] # None, NEW p \in Pages, NEW n \in Versions,
         request'[j].key[p] = n
  PROVE  /\ request[j] # None
         /\ \/ request[j].key[p] = n
            \/ /\ p = request[j].page /\ request[j].key[p] = None
               /\ request'[j].seen = request[j].seen
               /\ \A d \in Promised(p) : request[j].seen[d] = None
               /\ \/ request[j].step = "version" /\ version'[p] = n /\ UNCHANGED version
                  \/ request[j].step = "nx" /\ n = 1 /\ version'[p] # None
  <1>1. n # None
    BY Constants
  <1>2. request[j] # None
    BY <1>1, Moving
  <1>3. KeysTurn(request[j], request'[j])
    BY <1>2, Moving DEF Turn
  <1> QED BY <1>1, <1>2, <1>3, PromisedParts DEF KeysTurn

LEMMA KeysStayCurrent ==
  ASSUME Moves, KeysCurrent
  PROVE  KeysCurrent'
  <1> SUFFICES ASSUME NEW p \in Kept, NEW n \in Versions,
                      \/ entry'[p][n] # Nothing
                      \/ \E r \in Requests : request'[r] # None /\ request'[r].key[p] = n
               PROVE  version'[p] # None /\ n <= version'[p]
    BY DEF KeysCurrent
  <1>0. p \in Pages /\ n \in Nat /\ n > 0 /\ n # None /\ VersionRises(p) /\ EntryMoves(p, n)
    BY Constants DEF Moves, RedisMoves
  <1>1. version[p] \in Nat \cup {None} /\ version'[p] \in (Nat \ {0}) \cup {None}
    BY <1>0, Constants DEF Moves, Shape, TypeOK, RedisMoves
  <1>2. ASSUME version[p] # None /\ n <= version[p]
        PROVE  version'[p] # None /\ n <= version'[p]
    BY <1>0, <1>1, <1>2 DEF VersionRises
  <1>3. ASSUME entry'[p][n] # Nothing PROVE version[p] # None /\ n <= version[p]
    <2>1. entry[p][n] # Nothing \/ \E j \in Requests : request[j] # None /\ request[j].key[p] = n
      BY <1>0, <1>3 DEF EntryMoves
    <2> QED BY <2>1 DEF KeysCurrent
  <1>4. ASSUME NEW r \in Requests, request'[r] # None, request'[r].key[p] = n
        PROVE  version'[p] # None /\ n <= version'[p]
    <2>1. CASE request[r] # None /\ request[r].key[p] = n
      BY <1>2, <2>1 DEF KeysCurrent
    <2>2. CASE version'[p] = n
      BY <1>0, <2>2
    <2>3. CASE n = 1 /\ version'[p] # None
      BY <1>1, <2>3
    <2> QED BY <1>0, <1>4, <2>1, <2>2, <2>3, KeyTurns
  <1> QED BY <1>2, <1>3, <1>4

\* A version that is new, and 1 where there is none, is a key nobody has.
LEMMA NewIsUnused ==
  ASSUME Moves, KeysCurrent, NEW p \in Kept, NEW n \in Versions,
         (version'[p] = n /\ version[p] # n) \/ (version[p] = None /\ n = 1)
  PROVE  Unused(p, n)
  <1>1. p \in Pages /\ n \in Nat /\ n # None /\ VersionRises(p) /\ version[p] \in Nat \cup {None}
    BY Constants DEF Moves, RedisMoves, Shape, TypeOK
  <1>2. version[p] = None \/ version[p] < n
    BY <1>1 DEF VersionRises
  <1>3. ~(version[p] # None /\ n <= version[p])
    BY <1>1, <1>2
  <1> QED BY <1>3 DEF KeysCurrent, Unused

LEMMA UnusedUnder ==
  ASSUME Moves, NEW p \in Kept, NEW n \in Versions, Unused(p, n), NEW d \in Promised(p), NEW m
  PROVE  Under(p, n, d, m)'
  <1>0. p \in Pages /\ EntryMoves(p, n)
    BY Constants DEF Moves, RedisMoves
  <1>1. entry'[p][n] = Nothing
    BY <1>0 DEF EntryMoves, Unused
  <1>2. ASSUME NEW r \in Requests, request'[r] # None, request'[r].key[p] = n
        PROVE  request'[r].seen[d] = None
    BY <1>0, <1>2, KeyTurns DEF Unused
  <1> QED BY <1>1, <1>2 DEF Under

\* What is not older than m stays so while m is not newer than the database.
LEMMA UnderStays ==
  ASSUME Moves, NEW p \in Kept, NEW n \in Versions, NEW d \in Promised(p),
         NEW m \in Nat, m <= database[d], Under(p, n, d, m),
         p = "homepage" /\ d = "banners" =>
           \A r \in Requests, k \in Versions :
             /\ request[r] # None
             /\ request[r].key["homepage"] = n /\ request[r].key["banners"] = k
             => Under("banners", k, "banners", m)
  PROVE  Under(p, n, d, m)'
  <1>0. /\ p \in Pages /\ d \in Data /\ n # None /\ EntryMoves(p, n)
        /\ Of(d) = d /\ d \in Stored /\ d \in Parts /\ d \in Shows(p)
    BY Constants, PromisedParts DEF Moves, RedisMoves
  <1>1. entry'[p][n] # Nothing => entry'[p][n][d] >= m
    BY <1>0 DEF EntryMoves, Under
  <1>2. ASSUME NEW r \in Requests, request'[r] # None, request'[r].key[p] = n,
               request'[r].seen[d] # None
        PROVE  request'[r].seen[d] >= m
    <2> DEFINE q == request[r]
               w == request'[r]
    <2>1. q # None /\ q.key[p] = n
      BY <1>0, <1>2, KeyTurns
    <2>2. SeenTurns(q, w)
      BY <1>2, <2>1, Moving DEF Turn
    <2>3. CASE w.seen[d] = q.seen[d]
      BY <1>2, <2>1, <2>3 DEF Under
    <2>4. CASE w.seen[d] = database'[d]
      <3>1. database[d] \in Nat /\ database'[d] \in Nat /\ database[d] <= database'[d]
        BY <1>0, NoneAssumption DEF Moves, Shape, TypeOK, DatabaseGrows
      <3> QED BY <2>4, <3>1
    <2>5. w.key # NoKeys
      BY <1>0, <1>2 DEF NoKeys
    <2>6. ASSUME d \in Shows(q.page), q.key[q.page] # None, w.key[q.page] = None,
                 entry[q.page][q.key[q.page]] # Nothing,
                 w.seen[d] = entry[q.page][q.key[q.page]][d]
          PROVE  w.seen[d] >= m
      <3>1. p # q.page
        BY <1>0, <1>2, <2>6
      <3>2. p = "homepage" /\ q.page = "banners" /\ q \in Request /\ Shape
        BY <1>0, <2>1, <3>1, KeyOwner DEF Moves
      <3>3. d = "banners" /\ q.key["banners"] \in Versions
        <4>0. d \in Shows("banners")
          BY <2>6, <3>2
        <4>1. d \in {"banners", "collection"} /\ d \in {"banners", "catalog", "settings"}
          BY <1>0, <4>0, ShownParts DEF Data
        <4>2. q.key["banners"] \in Versions \cup {None} /\ q.key["banners"] # None
          BY <2>6, <3>2, RequestFields DEF Pages
        <4> QED BY <4>1, <4>2
      <3>4. Under("banners", q.key["banners"], "banners", m)
        BY <2>1, <3>2, <3>3
      <3> QED BY <2>6, <3>2, <3>3, <3>4 DEF Under
    <2>7. \/ w.seen[d] \in {q.seen[d], database'[Of(d)]}
          \/ w.key = NoKeys
          \/ /\ d \in Shows(q.page)
             /\ q.key[q.page] # None /\ w.key[q.page] = None
             /\ entry[q.page][q.key[q.page]] # Nothing
             /\ w.seen[d] = entry[q.page][q.key[q.page]][d]
      BY <1>0, <2>2 DEF SeenTurns
    <2>8. w.seen[d] \in {q.seen[d], database'[Of(d)]} => w.seen[d] \in {q.seen[d], database'[d]}
      BY <1>0
    <2>9. CASE w.seen[d] \in {q.seen[d], database'[Of(d)]}
      BY <2>3, <2>4, <2>8, <2>9
    <2>10. CASE /\ d \in Shows(q.page)
                /\ q.key[q.page] # None /\ w.key[q.page] = None
                /\ entry[q.page][q.key[q.page]] # Nothing
                /\ w.seen[d] = entry[q.page][q.key[q.page]][d]
      BY <2>6, <2>10
    <2> QED BY <2>5, <2>7, <2>9, <2>10
  <1> QED BY <1>1, <1>2 DEF Under

LEMMA LatestStays ==
  ASSUME Moves, KeysCurrent, "banners" \in Kept, NEW m \in Nat, m <= database["banners"],
         Latest("banners", "banners", m)
  PROVE  Latest("banners", "banners", m)'
  <1> SUFFICES ASSUME NEW n \in Versions, version'["banners"] = n
               PROVE  Under("banners", n, "banners", m)'
    BY DEF Latest
  <1>0. "banners" \in Promised("banners")
    BY PromisedParts
  <1>1. CASE version["banners"] = n
    BY <1>0, <1>1, UnderStays DEF Latest
  <1>2. CASE version["banners"] # n
    BY <1>0, <1>2, NewIsUnused, UnusedUnder
  <1> QED BY <1>1, <1>2

\* The key of the banners that a homepage will find, or the version they have.
LEMMA BannersFound ==
  ASSUME Moves, KeysCurrent, "banners" \in Kept, NEW m \in Nat, m <= database["banners"],
         NEW r \in Requests, NEW n \in Versions, NEW k \in Versions,
         request'[r] # None, request'[r].key["homepage"] = n, HasKey(request'[r], "banners", k),
         Latest("banners", "banners", m),
         request[r] # None /\ request[r].key["homepage"] = n /\ HasKey(request[r], "banners", k)
           => Under("banners", k, "banners", m)
  PROVE  /\ Under("banners", k, "banners", m)'
         /\ request[r] # None /\ request[r].key["homepage"] = n
  <1> DEFINE q == request[r]
             w == request'[r]
  <1>0. /\ "banners" \in Promised("banners") /\ "homepage" \in Pages /\ "banners" \in Pages
        /\ n # None /\ k # None /\ Shape
    BY Constants, PromisedParts DEF Pages, Moves
  <1>1. q # None
    BY <1>0, KeyTurns
  <1>2. KeysTurn(q, w) /\ (Reader(q) \/ Writer(q, database)) /\ q \in Request
    BY <1>1, Moving DEF Turn
  <1>3. CASE q.key["homepage"] = n
    <2>1. ASSUME HasKey(q, "banners", k) PROVE Under("banners", k, "banners", m)'
      BY <1>0, <1>1, <1>3, <2>1, UnderStays
    <2>2. CASE w.key["banners"] = k
      <3>1. CASE q.key["banners"] = k \/ (q.step = "nx" /\ q.page = "banners" /\ k = 1)
        BY <1>1, <1>3, <2>1, <3>1 DEF HasKey
      <3>2. CASE version'["banners"] = k /\ UNCHANGED version
        BY <1>0, <1>1, <1>3, <3>2, UnderStays DEF Latest
      <3> QED BY <1>0, <2>2, <3>1, <3>2, KeyTurns
    <2>3. CASE w.step = "nx" /\ w.page = "banners" /\ k = 1
      <3>1. q.page = "banners"
        BY <1>2, <2>3 DEF KeysTurn
      <3>2. CASE q.step = "nx"
        BY <1>1, <1>3, <2>1, <2>3, <3>1, <3>2 DEF HasKey
      <3>3. CASE version["banners"] = None
        BY <1>0, <1>1, <1>3, <2>3, <3>3, NewIsUnused, UnusedUnder
      <3> QED BY <1>2, <2>3, <3>1, <3>2, <3>3 DEF KeysTurn
    <2> QED BY <1>1, <1>3, <2>2, <2>3 DEF HasKey
  <1>4. CASE q.key["homepage"] # n
    <2>1. q.page = "homepage" /\ q.key["homepage"] = None /\ q.step \in {"version", "nx"}
      BY <1>0, <1>4, KeyTurns
    <2>2. q.key["banners"] = None
      BY <1>0, <1>1, <2>1, KeyOwner DEF PageOf
    <2>3. w.key["banners"] = None
      BY <1>0, <1>2, <2>1, <2>2 DEF KeysTurn
    <2>4. w.step = "nx" => w.page = "homepage"
      BY <1>2, <2>1 DEF KeysTurn
    <2> QED BY <1>0, <2>3, <2>4 DEF HasKey
  <1> QED BY <1>3, <1>4

LEMMA BannersStay ==
  ASSUME Moves, KeysCurrent, "banners" \in Kept, NEW n \in Versions,
         NEW m \in Nat, m <= database["banners"], BannersToo(n, m)
  PROVE  BannersToo(n, m)'
  <1>1. Latest("banners", "banners", m)'
    BY LatestStays DEF BannersToo
  <1>2. ASSUME NEW r \in Requests, NEW k \in Versions, request'[r] # None,
               request'[r].key["homepage"] = n, HasKey(request'[r], "banners", k)
        PROVE  Under("banners", k, "banners", m)'
    BY <1>2, BannersFound DEF BannersToo
  <1> QED BY <1>1, <1>2 DEF BannersToo, HasKey

LEMMA ShownStays ==
  ASSUME Moves, KeysCurrent, NEW p \in Kept, NEW n \in Versions, NEW d \in Promised(p),
         NEW m \in Nat, m <= database[d], Shown(p, n, d, m)
  PROVE  Shown(p, n, d, m)'
  <1>1. p = "homepage" => "banners" \in Kept
    BY Constants DEF Kept, PageOf
  <1>2. Under(p, n, d, m)'
    BY UnderStays DEF Shown, BannersToo, HasKey
  <1>3. p = "homepage" /\ d = "banners" => BannersToo(n, m)'
    BY <1>1, BannersStay DEF Shown
  <1> QED BY <1>2, <1>3 DEF Shown

LEMMA UnusedShown ==
  ASSUME Moves, KeysCurrent, NEW p \in Kept, NEW n \in Versions, NEW d \in Promised(p),
         NEW m \in Nat, m <= database[d], Unused(p, n),
         p = "homepage" /\ d = "banners" => Latest("banners", "banners", m)
  PROVE  Shown(p, n, d, m)'
  <1>1. p = "homepage" => "banners" \in Kept
    BY Constants DEF Kept, PageOf
  <1>2. Under(p, n, d, m)'
    BY UnusedUnder
  <1>3. ASSUME p = "homepage", d = "banners" PROVE BannersToo(n, m)'
    <2>1. Latest("banners", "banners", m)'
      BY <1>1, <1>3, LatestStays
    <2>2. ASSUME NEW r \in Requests, NEW k \in Versions, request'[r] # None,
                 request'[r].key["homepage"] = n, HasKey(request'[r], "banners", k)
          PROVE  FALSE
      <3>1. request[r] # None => request[r].key["homepage"] # n
        BY <1>3 DEF Unused
      <3> QED BY <1>1, <1>3, <2>2, <3>1, BannersFound
    <2> QED BY <2>1, <2>2 DEF BannersToo, HasKey
  <1> QED BY <1>2, <1>3 DEF Shown

\* What is not older than m is not older than what m is newer than.
LEMMA UnderLess ==
  ASSUME Shape, NEW p \in Kept, NEW n \in Versions, NEW d \in Promised(p),
         NEW m \in Nat, NEW l \in Nat, l <= m, Under(p, n, d, m)
  PROVE  Under(p, n, d, l)
  <1>0. p \in Pages /\ d \in Data /\ d \in Parts /\ d \in Shows(p)
    BY Constants, PromisedParts
  <1>1. ASSUME entry[p][n] # Nothing PROVE entry[p][n][d] >= l
    <2>1. entry[p][n][d] \in Nat
      BY <1>0, <1>1 DEF Shape, TypeOK, EntriesWhole, Contents
    <2> QED BY <1>1, <2>1 DEF Under
  <1>2. ASSUME NEW r \in Requests, request[r] # None, request[r].key[p] = n,
               request[r].seen[d] # None
        PROVE  request[r].seen[d] >= l
    <2>1. request[r].seen[d] \in Nat
      BY <1>0, <1>2, RequestFields DEF Shape, TypeOK, Contents
    <2> QED BY <1>2, <2>1 DEF Under
  <1> QED BY <1>1, <1>2 DEF Under

LEMMA ShownLess ==
  ASSUME Shape, NEW p \in Kept, NEW n \in Versions, NEW d \in Promised(p),
         NEW m \in Nat, NEW l \in Nat, l <= m, Shown(p, n, d, m)
  PROVE  Shown(p, n, d, l)
  <1>1. Under(p, n, d, l)
    BY UnderLess DEF Shown
  <1>2. ASSUME p = "homepage", d = "banners" PROVE BannersToo(n, l)
    <2>1. "banners" \in Kept /\ "banners" \in Promised("banners")
      BY <1>2, PromisedParts, Constants DEF Kept, PageOf
    <2>2. BannersToo(n, m)
      BY <1>2 DEF Shown
    <2>3. \A k \in Versions : Under("banners", k, "banners", m) => Under("banners", k, "banners", l)
      BY <2>1, UnderLess
    <2> QED BY <2>2, <2>3 DEF BannersToo, Latest
  <1> QED BY <1>1, <1>2 DEF Shown

-----------------------------------------------------------------------------
(* What a page shows.                                                      *)

LatestShown(p, d, m) == \A n \in Versions : version[p] = n => Shown(p, n, d, m)

\* Under its version of now, a page shows what was answered.
FinishedShown == \A p \in Kept : \A d \in Promised(p) : LatestShown(p, d, finished[d])

\* Under the key that a request has, it shows what the request may count on.
FloorsShown ==
  \A r \in Requests, p \in Kept, n \in Versions :
    request[r] # None /\ HasKey(request[r], p, n) =>
      \A d \in Promised(p) : Shown(p, n, d, request[r].floor[d])

\* A writer increments the namespaces in their order.
WritersInOrder ==
  \A r \in Requests : At(r, "invalidate") =>
    request[r].left \in {<<>>, <<"homepage">>, Invalidated(request[r].page)}

\* The pages that a writer has put out of reach show what it wrote.
InvalidatedShown ==
  \A r \in Requests : At(r, "invalidate") =>
    \A p \in Kept :
      request[r].page \in Promised(p) /\ ~Among(p, request[r].left) =>
        LatestShown(p, request[r].page, request[r].seen[request[r].page])

FreshInvariant ==
  ~failed => /\ KeysCurrent /\ WritersInOrder
             /\ FinishedShown /\ FloorsShown /\ InvalidatedShown /\ Fresh

\* A page goes on to show m of d under its version, be it a new one.
LEMMA LatestShownStays ==
  ASSUME Moves, KeysCurrent, NEW p \in Kept, NEW d \in Promised(p), NEW m \in Nat, m <= database[d],
         LatestShown(p, d, m) \/ (\A n \in Versions : version'[p] = n => version[p] # n),
         p = "homepage" /\ d = "banners" => LatestShown("banners", "banners", m)
  PROVE  LatestShown(p, d, m)'
  <1> SUFFICES ASSUME NEW n \in Versions, version'[p] = n
               PROVE  Shown(p, n, d, m)'
    BY DEF LatestShown
  <1>1. CASE version[p] = n
    BY <1>1, ShownStays DEF LatestShown
  <1>2. CASE version[p] # n
    <2>1. Unused(p, n)
      BY <1>2, NewIsUnused
    <2>2. p = "homepage" /\ d = "banners" => Latest("banners", "banners", m)
      BY DEF LatestShown, Latest, Shown
    <2> QED BY <2>1, <2>2, UnusedShown
  <1> QED BY <1>1, <1>2

\* Numbers of writes.
LEMMA Numbers ==
  ASSUME Shape, NEW d \in Data
  PROVE  /\ database[d] \in Nat /\ finished[d] \in Nat /\ finished[d] <= database[d]
         /\ \A r \in Requests : request[r] # None =>
              /\ request[r].floor[d] \in Nat /\ request[r].floor[d] <= finished[d]
              /\ request[r].seen[d] # None => request[r].seen[d] \in Nat
         /\ \A r \in Requests : At(r, "invalidate") /\ request[r].page = d =>
              request[r].seen[d] \in Nat /\ request[r].seen[d] <= database[d]
  <1>0. d \in Stored /\ d \in Parts
    BY Constants
  <1>1. database[d] \in Nat /\ finished[d] \in Nat /\ finished[d] <= database[d]
    BY <1>0, NoneAssumption DEF Shape, TypeOK, FinishedSound
  <1>2. ASSUME NEW r \in Requests, request[r] # None
        PROVE  /\ request[r].floor[d] \in Nat /\ request[r].floor[d] <= finished[d]
               /\ request[r].seen[d] # None => request[r].seen[d] \in Nat
    BY <1>0, <1>2, RequestFields DEF Shape, TypeOK, FinishedSound, Contents
  <1>3. ASSUME NEW r \in Requests, At(r, "invalidate"), request[r].page = d
        PROVE  request[r].seen[d] \in Nat /\ request[r].seen[d] <= database[d]
    BY <1>2, <1>3, WhoIsAt DEF Writer
  <1> QED BY <1>1, <1>2, <1>3

\* Every page shows what was answered before the step; with the answer of a
\* write, what it wrote.
LEMMA FinishedShownStays ==
  ASSUME Moves, KeysCurrent, FinishedShown, InvalidatedShown
  PROVE  FinishedShown'
  <1>0. Shape
    BY DEF Moves
  <1> SUFFICES ASSUME NEW p \in Kept, NEW d \in Promised(p), NEW m \in Nat, finished'[d] = m
               PROVE  LatestShown(p, d, m)'
    <2>1. \A p \in Kept : \A d \in Promised(p) : finished'[d] \in Nat
      BY Constants, PromisedParts DEF Moves, FinishedMoves
    <2> QED BY <2>1 DEF FinishedShown, LatestShown
  <1>1. d \in Data /\ (p = "homepage" => "banners" \in Kept) /\ "banners" \in Promised("banners")
    BY PromisedParts, Constants DEF Kept, PageOf
  <1>2. CASE finished'[d] = finished[d]
    BY <1>0, <1>1, <1>2, Numbers, LatestShownStays DEF FinishedShown
  <1>3. ASSUME NEW r \in Requests, At(r, "invalidate"), request[r].left = <<>>,
               request[r].page = d, m = request[r].seen[d]
        PROVE  LatestShown(p, d, m)'
    <2>1. \A x \in Kept : d \in Promised(x) => LatestShown(x, d, m)
      BY <1>3 DEF InvalidatedShown, Among
    <2> QED BY <1>0, <1>1, <1>3, <2>1, Numbers, LatestShownStays
  <1> QED BY <1>1, <1>2, <1>3 DEF Moves, FinishedMoves

LEMMA FloorsShownStay ==
  ASSUME Moves, KeysCurrent, FinishedShown, FloorsShown
  PROVE  FloorsShown'
  <1>0. Shape
    BY DEF Moves
  <1> SUFFICES ASSUME NEW r \in Requests, NEW p \in Kept, NEW n \in Versions,
                      request'[r] # None, HasKey(request'[r], p, n),
                      NEW d \in Promised(p), NEW m, request'[r].floor[d] = m
               PROVE  Shown(p, n, d, m)'
    BY DEF FloorsShown, HasKey
  <1> DEFINE q == request[r]
             w == request'[r]
  <1>1. /\ p \in Pages /\ d \in Data /\ n # None
        /\ p = "homepage" => "banners" \in Kept
        /\ "banners" \in Promised("banners")
    BY PromisedParts, Constants DEF Kept, PageOf
  <1>2. q # None
    BY <1>1, Moving DEF HasKey
  <1>3. KeysTurn(q, w) /\ q.floor[d] = m /\ m \in Nat /\ m <= finished[d] /\ m <= database[d]
        /\ finished[d] \in Nat
    BY <1>0, <1>1, <1>2, Moving, Numbers DEF Turn
  <1>4. CASE HasKey(q, p, n)
    BY <1>1, <1>2, <1>3, <1>4, ShownStays DEF FloorsShown
  <1>5. CASE version[p] = n
    <2>1. Shown(p, n, d, m)
      BY <1>0, <1>1, <1>3, <1>5, ShownLess DEF FinishedShown, LatestShown
    <2> QED BY <1>1, <1>3, <2>1, ShownStays
  <1>6. CASE version[p] = None /\ n = 1
    <2>1. Unused(p, n)
      BY <1>6, NewIsUnused
    <2>2. ASSUME p = "homepage", d = "banners" PROVE Latest("banners", "banners", m)
      <3>1. ASSUME NEW k \in Versions, version["banners"] = k
            PROVE  Shown("banners", k, "banners", m)
        BY <1>0, <1>1, <1>3, <2>2, <3>1, ShownLess DEF FinishedShown, LatestShown
      <3> QED BY <3>1 DEF Shown, Latest
    <2> QED BY <1>3, <2>1, <2>2, UnusedShown
  <1>7. CASE w.key[p] = n
    <2>1. q.key[p] = n \/ (q.step = "nx" /\ p = q.page /\ n = 1) => HasKey(q, p, n)
      BY DEF HasKey
    <2> QED BY <1>1, <1>4, <1>5, <1>7, <2>1, KeyTurns
  <1>8. CASE w.step = "nx" /\ w.page = p /\ n = 1
    BY <1>3, <1>4, <1>6, <1>8 DEF KeysTurn, HasKey
  <1> QED BY <1>7, <1>8 DEF HasKey

LEMMA InvalidatedShownStays ==
  ASSUME Moves, KeysCurrent, WritersInOrder, InvalidatedShown
  PROVE  InvalidatedShown' /\ WritersInOrder'
  <1>0. Shape /\ Shape'
    BY DEF Moves
  <1>1. ASSUME NEW r \in Requests, request'[r] # None, request'[r].step = "invalidate"
        PROVE  /\ request[r] # None /\ request'[r].page = request[r].page
               /\ request[r].page \in Data
               /\ \/ request'[r].left = Invalidated(request[r].page)
                  \/ /\ At(r, "invalidate") /\ request'[r].seen = request[r].seen
                     /\ \/ request'[r].left = request[r].left
                        \/ /\ request[r].left # <<>> /\ request'[r].left = Tail(request[r].left)
                           /\ version'[Head(request[r].left)] # version[Head(request[r].left)]
    <2>1. request[r] # None /\ Invalidates(request[r], request'[r])
      BY <1>1, Moving DEF Turn
    <2>2. request'[r].page \in Data
      BY <1>1 DEF Moves, RequestsMove, Reader, Writer
    <2> QED BY <1>1, <2>1, <2>2 DEF Invalidates, At
  <1>2. ASSUME NEW d \in Data
        PROVE  /\ Invalidated(d) # <<>> /\ Invalidated(d) # <<"homepage">>
               /\ Tail(Invalidated(d)) \in {<<>>, <<"homepage">>}
               /\ Head(Invalidated(d)) = d
               /\ d # "homepage"
               /\ \A p \in Kept : d \in Promised(p) =>
                    /\ Among(p, Invalidated(d))
                    /\ p # d => p = "homepage" /\ Invalidated(d) = <<d, "homepage">>
    <2>1. d # "homepage"
      BY DEF Data
    <2>2. CASE d = "settings"
      <3>1. Invalidated(d) = <<d>> /\ \A p \in Kept : d \in Promised(p) => p = d
        BY <2>2, PromisedParts, Constants DEF Invalidated, Pages
      <3>2. Among(d, <<d>>) /\ Head(<<d>>) = d /\ Tail(<<d>>) = <<>>
        BY DEF Among
      <3> QED BY <2>1, <3>1, <3>2
    <2>3. CASE d # "settings"
      <3>1. Invalidated(d) = <<d, "homepage">> /\ \A p \in Kept : d \in Promised(p) => p \in {d, "homepage"}
        BY <1>2, <2>3, PromisedParts, Constants DEF Invalidated, Pages, Data
      <3>2. /\ Among(d, <<d, "homepage">>) /\ Among("homepage", <<d, "homepage">>)
            /\ Head(<<d, "homepage">>) = d /\ Tail(<<d, "homepage">>) = <<"homepage">>
        BY DEF Among
      <3> QED BY <2>1, <3>1, <3>2
    <2> QED BY <2>2, <2>3
  <1>3. Head(<<"homepage">>) = "homepage" /\ Tail(<<"homepage">>) = <<>>
    OBVIOUS
  <1>4. WritersInOrder'
    <2>1. ASSUME NEW r \in Requests, request'[r] # None, request'[r].step = "invalidate"
          PROVE  request'[r].left \in {<<>>, <<"homepage">>, Invalidated(request'[r].page)}
      <3> DEFINE q == request[r]
                 w == request'[r]
                 d == q.page
      <3>1. w.page = d /\ d \in Data
        BY <1>1, <2>1
      <3>2. CASE w.left = Invalidated(d)
        BY <3>1, <3>2
      <3>3. CASE At(r, "invalidate") /\ w.left = q.left
        BY <3>1, <3>3 DEF WritersInOrder
      <3>4. CASE At(r, "invalidate") /\ q.left # <<>> /\ w.left = Tail(q.left)
        <4>1. q.left = <<"homepage">> \/ q.left = Invalidated(d)
          BY <3>4 DEF WritersInOrder
        <4> QED BY <1>2, <1>3, <3>1, <3>4, <4>1
      <3> QED BY <1>1, <2>1, <3>2, <3>3, <3>4
    <2> QED BY <2>1 DEF WritersInOrder, At
  <1>5. ASSUME NEW r \in Requests, request'[r] # None, request'[r].step = "invalidate",
               NEW p \in Kept, request'[r].page \in Promised(p), ~Among(p, request'[r].left),
               NEW d, d = request'[r].page, NEW m, m = request'[r].seen[d]
        PROVE  LatestShown(p, d, m)'
    <2> DEFINE q == request[r]
               w == request'[r]
    <2>1. /\ d = q.page /\ d \in Data /\ At(r, "invalidate") /\ m = q.seen[d]
          /\ \/ w.left = q.left
             \/ /\ q.left # <<>> /\ w.left = Tail(q.left)
                /\ version'[Head(q.left)] # version[Head(q.left)]
      BY <1>1, <1>2, <1>5
    <2>2. m \in Nat /\ m <= database[d]
      BY <1>0, <2>1, Numbers
    <2>3. q.left \in {<<>>, <<"homepage">>, Invalidated(d)}
      BY <2>1 DEF WritersInOrder
    <2>4. ~Among(p, q.left) => LatestShown(p, d, m)
      BY <1>5, <2>1 DEF InvalidatedShown
    <2>5. Among(p, q.left) => \A n \in Versions : version'[p] = n => version[p] # n
      <3>1. ASSUME Among(p, q.left) PROVE p = Head(q.left) /\ w.left = Tail(q.left) /\ q.left # <<>>
        <4>1. w.left = Tail(q.left) /\ q.left # <<>>
          BY <1>5, <2>1, <3>1
        <4>2. CASE q.left = <<"homepage">>
          BY <1>3, <3>1, <4>1, <4>2 DEF Among
        <4>3. CASE q.left = Invalidated(d)
          <5>1. p = d \/ (p = "homepage" /\ Invalidated(d) = <<d, "homepage">>)
            BY <1>2, <1>5, <2>1
          <5>2. ASSUME Invalidated(d) = <<d, "homepage">> PROVE Among("homepage", Tail(Invalidated(d)))
            BY <5>2 DEF Among
          <5> QED BY <1>2, <1>5, <2>1, <4>1, <4>3, <5>1, <5>2
        <4> QED BY <2>3, <4>1, <4>2, <4>3
      <3>2. Among(p, q.left) => version'[p] # version[p]
        BY <1>5, <2>1, <3>1
      <3> QED BY <3>2
    <2>6. ASSUME p = "homepage", d = "banners" PROVE LatestShown("banners", "banners", m)
      <3>1. "banners" \in Kept /\ "banners" \in Promised("banners")
        BY <2>6, PromisedParts, Constants DEF Kept, PageOf
      <3>2. Invalidated("banners") = <<"banners", "homepage">>
        BY DEF Invalidated
      <3>3. q.left # Invalidated("banners")
        <4>1. ASSUME q.left = Invalidated("banners") PROVE Among("homepage", w.left)
          <5>1. Tail(<<"banners", "homepage">>) = <<"homepage">>
            OBVIOUS
          <5>2. w.left = <<"banners", "homepage">> \/ w.left = <<"homepage">>
            BY <2>1, <3>2, <4>1, <5>1
          <5> QED BY <5>2 DEF Among
        <4> QED BY <1>5, <2>6, <4>1
      <3>4. ~Among("banners", q.left)
        BY <2>3, <2>6, <3>3 DEF Among
      <3> QED BY <2>1, <2>6, <3>1, <3>4 DEF InvalidatedShown
    <2> QED BY <1>5, <2>1, <2>2, <2>4, <2>5, <2>6, LatestShownStays
  <1>6. InvalidatedShown'
    BY <1>5 DEF InvalidatedShown, At, LatestShown
  <1> QED BY <1>4, <1>6

\* An answer is from the database, or from where the request's key leads.
LEMMA FreshStays ==
  ASSUME Moves, FloorsShown, Fresh, ~failed
  PROVE  Fresh'
  <1>0. Shape /\ Shape'
    BY DEF Moves
  <1>1. ASSUME NEW r \in Requests, request'[r] # None, request'[r].step = "answered",
               NEW d \in Promised(request'[r].page)
        PROVE  request'[r].seen[d] >= request'[r].floor[d]
    <2> DEFINE q == request[r]
               w == request'[r]
    <2>1. /\ q # None /\ Answers(q, w) /\ w.floor = q.floor /\ q \in Request
          /\ w.page = q.page /\ q.page \in Pages /\ d \in Data
      <3>1. q # None /\ Answers(q, w) /\ w.floor = q.floor /\ q \in Request
        BY <1>1, Moving DEF Turn
      <3> QED BY <1>1, <3>1, RequestFields, PromisedParts DEF Answers
    <2>2. CASE q.step = "answered" /\ w.seen = q.seen
      BY <1>1, <2>1, <2>2 DEF Fresh, At
    <2>3. CASE q.key[q.page] # None /\ Source(q.page, q.key[q.page], d, w.seen[d])
      <3> DEFINE p == q.page
                 k == q.key[p]
      <3>1. p \in Kept /\ k \in Versions
        BY <1>0, <2>1, <2>3, KeyOwner, RequestFields, Constants DEF Reader
      <3>2. Under(p, k, d, q.floor[d])
        BY <1>1, <2>1, <3>1 DEF FloorsShown, HasKey, Shown
      <3>3. database[d] \in Nat /\ q.floor[d] \in Nat /\ database[d] >= q.floor[d]
        <4>1. /\ database[d] \in Nat /\ finished[d] \in Nat /\ finished[d] <= database[d]
              /\ q.floor[d] \in Nat /\ q.floor[d] <= finished[d]
          BY <1>0, <2>1, Numbers
        <4> QED BY <4>1
      <3>4. Of(d) = d
        BY <2>1, Constants
      <3> QED BY <2>1, <2>3, <3>2, <3>3, <3>4 DEF Source, Under
    <2>4. d \in Shows(q.page)
      BY <1>1, <2>1, PromisedParts
    <2> QED BY <1>1, <2>1, <2>2, <2>3, <2>4 DEF Answers
  <1> QED BY <1>1 DEF Fresh, At

\* A command that failed has failed.
LEMMA FailedStays ==
  ASSUME Shape, [Next]_vars, ~failed'
  PROVE  ~failed
  <1>1. ASSUME NEW r \in Requests, Step(r) PROVE ~failed
    BY <1>1
    DEF Step, Connect, GetVersion, SetVersion, GetEntry, LoadPage, LoadCollections, Collect,
        StorePage, Write, Invalidate, Finish, End, Executes, Fails
  <1>2. ASSUME NEW r \in Requests, LoadFails(r) PROVE ~failed
    BY <1>2 DEF LoadFails
  <1>3. ASSUME NEW r \in Requests, NEW x \in Processes, StartRead(r, x) \/ StartWrite(r, x)
        PROVE  ~failed
    BY <1>3 DEF StartRead, StartWrite, Start
  <1>4. ASSUME NEW x \in Processes, Connected(x) \/ Lose(x) \/ Restart(x) PROVE ~failed
    BY <1>4 DEF Connected, Lose, Restart
  <1>5. ASSUME NEW p \in Kept, NEW n \in Versions, Expire(p, n) PROVE ~failed
    BY <1>5 DEF Expire
  <1>6. ASSUME NEW d \in Written, Seed(d) PROVE ~failed
    BY <1>6 DEF Seed
  <1>7. ASSUME WriteImages PROVE ~failed
    BY <1>7 DEF WriteImages
  <1>8. CASE UNCHANGED vars
    BY <1>8 DEF vars
  <1> QED BY <1>1, <1>2, <1>3, <1>4, <1>5, <1>6, <1>7, <1>8 DEF Next

LEMMA FreshInvariantKept ==
  ASSUME Shape, FreshInvariant, [Next]_vars
  PROVE  FreshInvariant'
  <1> SUFFICES ASSUME ~failed'
               PROVE  /\ KeysCurrent' /\ WritersInOrder'
                      /\ FinishedShown' /\ FloorsShown' /\ InvalidatedShown' /\ Fresh'
    BY DEF FreshInvariant
  <1>1. Moves
    BY StepMoves, StepRedis, StepFinished, ShapeKept DEF Moves
  <1>2. /\ ~failed
        /\ KeysCurrent /\ WritersInOrder
        /\ FinishedShown /\ FloorsShown /\ InvalidatedShown /\ Fresh
    BY FailedStays DEF FreshInvariant
  <1> QED BY <1>1, <1>2, KeysStayCurrent, FinishedShownStays, FloorsShownStay,
             InvalidatedShownStays, FreshStays

LEMMA FreshInvariantFirst ==
  ASSUME Init
  PROVE  FreshInvariant
  <1>1. \A r \in Requests : request[r] = None
    BY DEF Init
  <1>2. /\ \A p \in Pages, n \in Versions : version[p] # n
        /\ \A p \in Kept, n \in Versions : entry[p][n] = Nothing
    BY Constants DEF Init
  <1>3. KeysCurrent
    BY <1>1, <1>2 DEF KeysCurrent
  <1>4. FinishedShown
    BY <1>2, Constants DEF FinishedShown, LatestShown
  <1>5. FloorsShown /\ InvalidatedShown /\ WritersInOrder /\ Fresh
    BY <1>1 DEF FloorsShown, InvalidatedShown, WritersInOrder, Fresh, At
  <1> QED BY <1>3, <1>4, <1>5 DEF FreshInvariant

\* While no command to Redis has failed, a page that is asked for after a write
\* was answered shows it, if it promises to, whatever the readers in between
\* store, and wherever the processes stop.
THEOREM FreshCorrect == Spec => []Fresh
  <1>1. Init => Shape /\ FreshInvariant
    BY ShapeFirst, FreshInvariantFirst
  <1>2. Shape /\ FreshInvariant /\ [Next]_vars => (Shape /\ FreshInvariant)'
    BY ShapeKept, FreshInvariantKept
  <1>3. FreshInvariant => Fresh
    BY DEF FreshInvariant, Fresh
  <1> QED BY <1>1, <1>2, <1>3, PTL DEF Spec

=============================================================================

---------------------------- MODULE PublicCache ----------------------------
(***************************************************************************)
(* The pages of the shop that are kept in Redis, and the writes that make  *)
(* them out of date: RedisService, and what CatalogService, BannersService *)
(* and SettingsService do with it.                                         *)
(*                                                                         *)
(* A page is stored under a key that holds the version of its namespace,   *)
(* and a write increments the versions.  Nothing is deleted: an entry that *)
(* is out of reach expires.  A reader asks for the version, then for the   *)
(* entry, then the database, and stores what it found; other requests run  *)
(* between any two of these, and Redis may go at any time.                 *)
(*                                                                         *)
(* The content of a page is the number of writes it shows, for each of the *)
(* parts it is made of.                                                    *)
(***************************************************************************)
EXTENDS Naturals, Sequences, FiniteSets

CONSTANTS
  Processes,  \* processes that run the backend
  Requests,   \* requests that can be under way at once
  Served,     \* what is asked for: pages, and "shipping" for its rates
  Written,    \* the data that are written
  MaxWrites,  \* bound on the writes
  MaxFaults,  \* bound on restarts and lost connections
  None        \* no content, no version, no request

\* What handlers write and then invalidate; and the images and the reviews of
\* the products, which UploadsService and ReviewsService write.
Data == {"banners", "catalog", "settings"}
Stored == Data \cup {"images"}
Pages == {"banners", "catalog", "settings", "homepage"}

\* The page that a request is about: ShippingService looks at the settings.
PageOf(op) == IF op = "shipping" THEN "settings" ELSE op

\* The pages that come to be in Redis.
Kept == {PageOf(op) : op \in Served} \cup (IF "homepage" \in Served THEN {"banners"} ELSE {})

\* The parts of a page, by the data they show: a banner has a collection, and a
\* product its images and the number of its reviews.  The homepage takes the
\* banners from their own page.
Parts == Stored \cup {"collection"}
Of(part) == IF part = "collection" THEN "catalog" ELSE part

Shows(page) ==
  CASE page = "banners" -> {"banners", "collection"}
    [] page = "catalog" -> {"catalog", "images"}
    [] page = "settings" -> {"settings"}
    [] page = "homepage" -> {"banners", "collection", "catalog", "images"}

ASSUME ServedAssumption == Served \subseteq Pages \cup {"shipping"} /\ Written \subseteq Data
ASSUME RequestsAssumption == IsFiniteSet(Requests)
ASSUME NoneAssumption == None \notin Nat /\ MaxWrites \in Nat /\ MaxFaults \in Nat

Versions == 1 .. MaxWrites + 1
Contents == [Parts -> Nat \cup {None}]
Nothing == [d \in Parts |-> None]

VARIABLES
  database,    \* database[d]: the writes of d
  version,     \* version[p]: the version of p's namespace in Redis, or None
  entry,       \* entry[p][n]: what Redis has of page p under version n
  connection,  \* connection[x]: the status of the client of process x; while
               \* it is connecting, the request that waits for it
  request,     \* request[r]: the request under way, if any
  finished,    \* finished[d]: the writes of d that were answered
  failed,      \* a command has failed: the errors that RedisService counts
  faults       \* restarts and lost connections so far

vars == <<database, version, entry, connection, request, finished, failed, faults>>
redis == <<version, entry>>

\* page: the page at hand, "banners" too while a homepage asks for them, and
\* the data of a write; key: the versions in the keys; seen: what was found;
\* floor: the writes that were finished when the request started; left: the
\* namespaces still to be incremented.
Request ==
  [process: Processes, op: Pages \cup {"write", "shipping"}, page: Pages,
   step: {"version", "nx", "get", "join", "load", "collect", "store",
          "answered", "write", "invalidate"},
   key: [Pages -> Versions \cup {None}], seen: Contents, floor: [Data -> Nat],
   left: {<<>>} \cup {<<p>> : p \in Pages} \cup Pages \X Pages]

TypeOK ==
  /\ database \in [Stored -> 0 .. MaxWrites]
  /\ version \in [Pages -> Versions \cup {None}]
  /\ entry \in [Kept -> [Versions -> Contents]]
  /\ connection \in [Processes -> {"wait", "ready", "end"} \cup Requests]
  /\ request \in [Requests -> Request \cup {None}]
  /\ finished \in [Data -> 0 .. MaxWrites]
  /\ failed \in BOOLEAN
  /\ faults \in 0 .. MaxFaults

Init ==
  /\ database = [d \in Stored |-> 0]
  /\ version = [p \in Pages |-> None]
  /\ entry = [p \in Kept |-> [n \in Versions |-> Nothing]]
  /\ connection = [x \in Processes |-> "wait"]
  /\ request = [r \in Requests |-> None]
  /\ finished = [d \in Data |-> 0]
  /\ failed = FALSE
  /\ faults = 0

At(r, step) == request[r] # None /\ request[r].step = step
Connection(r) == connection[request[r].process]
Key(r) == request[r].key[request[r].page]

Goes(r, step) == request' = [request EXCEPT ![r].step = step]

-----------------------------------------------------------------------------
(* RedisService.                                                           *)

\* execute, with a connection.
Executes(r) == Connection(r) = "ready" /\ UNCHANGED failed

\* execute, without: nothing is queued while another request connects, and
\* nothing connects again.  The command fails, and the caller is given null.
Fails(r) ==
  /\ Connection(r) \in {"end"} \cup (Requests \ {r})
  /\ failed' = TRUE

\* The first command of a process connects.  Of two commands that are sent
\* together, the second finds it connecting and fails.
Connect(r) ==
  /\ \/ At(r, "version")
     \/ At(r, "invalidate") /\ request[r].left # <<>>
  /\ Connection(r) = "wait"
  /\ connection' = [connection EXCEPT ![request[r].process] = r]
  /\ LET left == request[r].left
     IN /\ request' = [request EXCEPT ![r].left = IF Len(left) > 1
                                                         THEN <<Head(left)>> ELSE left]
        /\ failed' = (failed \/ Len(left) > 1)
  /\ UNCHANGED <<database, redis, finished, faults>>

Connected(x) ==
  /\ connection[x] \in Requests
  /\ connection' = [connection EXCEPT ![x] = "ready"]
  /\ UNCHANGED <<database, redis, request, finished, failed, faults>>

\* The connection is lost, or is not made at all.
Lose(x) ==
  /\ connection[x] \in {"ready"} \cup Requests
  /\ faults < MaxFaults
  /\ faults' = faults + 1
  /\ connection' = [connection EXCEPT ![x] = "end"]
  /\ UNCHANGED <<database, redis, request, finished, failed>>

\* getVersion: a version that is missing is made 1, if it is missing still,
\* and so is one that Redis did not give.
GetVersion(r) ==
  /\ At(r, "version")
  /\ LET p == request[r].page
     IN \/ /\ Executes(r)
           /\ IF version[p] = None THEN Goes(r, "nx")
              ELSE request' = [request EXCEPT ![r].step = "get",
                                              ![r].key[p] = version[p]]
        \/ Fails(r) /\ Goes(r, "nx")
  /\ UNCHANGED <<database, redis, connection, finished, faults>>

SetVersion(r) ==
  /\ At(r, "nx")
  /\ LET p == request[r].page
     IN /\ \/ Executes(r) /\ version' = [version EXCEPT ![p] = IF @ = None THEN 1 ELSE @]
           \/ Fails(r) /\ UNCHANGED version
        /\ request' = [request EXCEPT ![r].step = "get", ![r].key[p] = 1]
  /\ UNCHANGED <<database, entry, connection, finished, faults>>

\* Mutant: set without 'EX'.
Keep(p, n) ==
  /\ entry[p][n] # Nothing
  /\ UNCHANGED vars

\* set with 'EX': an entry is gone after two minutes, or up to half an hour.
Expire(p, n) ==
  /\ entry[p][n] # Nothing
  /\ entry' = [entry EXCEPT ![p][n] = Nothing]
  /\ UNCHANGED <<database, version, connection, request, finished, failed, faults>>

-----------------------------------------------------------------------------
(* Readers.                                                                *)

\* A homepage that is being built, and the one that builds it under r's key:
\* what inFlight has.
Building(r) ==
  /\ request[r] # None
  /\ request[r].op = "homepage"
  /\ request[r].page = "banners" \/ request[r].step \in {"collect", "store"}
InFlight(r) ==
  {b \in Requests : /\ Building(b)
                    /\ request[b].process = request[r].process
                    /\ request[b].key["homepage"] = Key(r)}

NoKeys == [p \in Pages |-> None]

Found(r, content) ==
  [d \in Parts |-> IF content[d] = None THEN request[r].seen[d] ELSE content[d]]

\* The page is found: the request is answered, or has the banners of the
\* homepage that it builds.
Has(r, content) ==
  LET q == request[r]
      building == q.op = "homepage" /\ q.page = "banners"
  IN request' = [request EXCEPT
       ![r].seen = Found(r, content),
       ![r].page = IF building THEN "homepage" ELSE @,
       ![r].key = IF building THEN [@ EXCEPT !["banners"] = None] ELSE NoKeys,
       ![r].step = IF building THEN "collect" ELSE "answered"]

\* The entry is not there.  remember: a homepage that is being built is waited
\* for, and if none is this one is built, beginning with the banners.
Misses(r) ==
  IF request[r].page # "homepage" THEN Goes(r, "load")
  ELSE IF InFlight(r) # {} THEN Goes(r, "join")
  ELSE request' = [request EXCEPT ![r].page = "banners", ![r].step = "version"]

GetEntry(r) ==
  /\ At(r, "get")
  /\ LET content == entry[request[r].page][Key(r)]
     IN \/ Executes(r) /\ IF content = Nothing THEN Misses(r) ELSE Has(r, content)
        \/ Fails(r) /\ Misses(r)
  /\ UNCHANGED <<database, redis, connection, finished, faults>>

\* What r has seen, when it reads parts in the database.
Read(r, parts) ==
  [d \in Parts |-> IF d \in parts THEN database[Of(d)] ELSE request[r].seen[d]]

\* The page is made of what the database has.  ShippingService looks for the
\* settings in their page, but does not store it.
LoadPage(r) ==
  /\ At(r, "load")
  /\ LET p == request[r].page
     IN request' = [request EXCEPT
          ![r].seen = Read(r, Shows(p)),
          ![r].step = IF request[r].op = "shipping" THEN "answered" ELSE "store"]
  /\ UNCHANGED <<database, redis, connection, finished, failed, faults>>

\* The collections of a homepage are read while its banners are asked for.
LoadCollections(r) ==
  /\ Building(r)
  /\ request[r].seen["catalog"] = None
  /\ request' = [request EXCEPT ![r].seen = Read(r, Shows("catalog"))]
  /\ UNCHANGED <<database, redis, connection, finished, failed, faults>>

Collect(r) ==
  /\ At(r, "collect")
  /\ request[r].seen["catalog"] # None
  /\ Goes(r, "store")
  /\ UNCHANGED <<database, redis, connection, finished, failed, faults>>

\* What is stored of page p.
Content(r, p) == [d \in Parts |-> IF d \in Shows(p) THEN request[r].seen[d] ELSE None]

\* The requests that wait for the homepage of r.
Waiting(r) == {j \in Requests : At(j, "join") /\ r \in InFlight(j)}

\* The page is stored, or is not, and answered; a homepage that was waited for
\* is the answer of those that wait, too.
StorePage(r) ==
  /\ At(r, "store")
  /\ LET p == request[r].page
     IN /\ \/ Executes(r) /\ entry' = [entry EXCEPT ![p][Key(r)] = Content(r, p)]
           \/ Fails(r) /\ UNCHANGED entry
        /\ IF p # "homepage" THEN Has(r, Nothing)
           ELSE request' = [j \in Requests |->
                  IF j \in {r} \cup Waiting(r)
                  THEN [request[j] EXCEPT !.step = "answered", !.key = NoKeys,
                                          !.seen = request[r].seen]
                  ELSE request[j]]
  /\ UNCHANGED <<database, version, connection, finished, faults>>

-----------------------------------------------------------------------------
(* Writers.                                                                *)

\* Mutant: the homepage is out of reach before the banners are.
HomepageFirst(d) == IF d = "settings" THEN <<d>> ELSE <<"homepage", d>>

\* Mutant: the homepage is invalidated for what it shows and for itself.
HomepageTwice(d) == <<d, "homepage", "homepage">>

\* The namespaces that a write of d makes out of date, in this order.
Invalidated(d) == IF d = "settings" THEN <<d>> ELSE <<d, "homepage">>

Writes == database["banners"] + database["catalog"] + database["settings"] + database["images"]

\* The database is written.  If the audit log then is not, or the next of
\* several settings, nothing is invalidated.
Write(r) ==
  /\ At(r, "write")
  /\ Writes < MaxWrites
  /\ LET d == request[r].page
     IN /\ database' = [database EXCEPT ![d] = @ + 1]
        /\ \/ request' = [request EXCEPT ![r].step = "invalidate",
                                         ![r].left = Invalidated(d),
                                         ![r].seen[d] = database[d] + 1]
           \/ request' = [request EXCEPT ![r] = None]
  /\ UNCHANGED <<redis, connection, finished, failed, faults>>

\* prisma/seed.ts, run beside the backend, writes the banners, the settings and
\* the catalogue, and knows no cache.
Seed(d) ==
  /\ Writes < MaxWrites
  /\ database' = [database EXCEPT ![d] = @ + 1]
  /\ UNCHANGED <<redis, connection, request, finished, failed, faults>>

\* UploadsService and ReviewsService, which invalidate nothing.
WriteImages ==
  /\ Writes < MaxWrites
  /\ database' = [database EXCEPT !["images"] = @ + 1]
  /\ UNCHANGED <<redis, connection, request, finished, failed, faults>>

\* INCR takes a key that is missing for 0.
Increment(n) == IF n = None THEN 1 ELSE n + 1

\* invalidate.  The commands are sent together: the next fails with this one.
Invalidate(r) ==
  /\ At(r, "invalidate")
  /\ request[r].left # <<>>
  /\ \/ /\ Executes(r)
        /\ version' = [version EXCEPT ![Head(request[r].left)] = Increment(@)]
        /\ request' = [request EXCEPT ![r].left = Tail(@)]
     \/ /\ Fails(r)
        /\ UNCHANGED version
        /\ request' = [request EXCEPT ![r].left = <<>>]
  /\ UNCHANGED <<database, entry, connection, finished, faults>>

\* The write is answered.
Finish(r) ==
  /\ At(r, "invalidate")
  /\ request[r].left = <<>>
  /\ LET d == request[r].page
     IN finished' = [finished EXCEPT ![d] = IF @ < request[r].seen[d]
                                            THEN request[r].seen[d] ELSE @]
  /\ request' = [request EXCEPT ![r] = None]
  /\ UNCHANGED <<database, redis, connection, failed, faults>>

-----------------------------------------------------------------------------
(* Requests come and go.                                                   *)

\* Which of the free requests is taken does not matter.
Start(r, x, op, page, step) ==
  /\ request[r] = None
  /\ r = CHOOSE j \in Requests : request[j] = None
  /\ request' = [request EXCEPT ![r] =
       [process |-> x, op |-> op, page |-> page, step |-> step,
        key |-> NoKeys, seen |-> Nothing, floor |-> finished,
        left |-> <<>>]]
  /\ UNCHANGED <<database, redis, connection, finished, failed, faults>>

StartRead(r, x) == \E op \in Served : Start(r, x, op, PageOf(op), "version")

StartWrite(r, x) ==
  Writes < MaxWrites /\ \E d \in Written : Start(r, x, "write", d, "write")

End(r) ==
  /\ \/ At(r, "answered")
     \/ At(r, "write") /\ Writes = MaxWrites
  /\ request' = [request EXCEPT ![r] = None]
  /\ UNCHANGED <<database, redis, connection, finished, failed, faults>>

\* The database does not answer; a homepage fails for those who wait as well.
LoadFails(r) ==
  /\ \/ At(r, "load")
     \/ At(r, "collect") /\ request[r].seen["catalog"] = None
  /\ request' = [j \in Requests |->
       IF j \in {r} \cup Waiting(r) THEN None ELSE request[j]]
  /\ UNCHANGED <<database, redis, connection, finished, failed, faults>>

\* The process stops, wherever its requests are, and starts again.
Restart(x) ==
  /\ faults < MaxFaults
  /\ faults' = faults + 1
  /\ connection' = [connection EXCEPT ![x] = "wait"]
  /\ request' = [r \in Requests |->
       IF request[r] # None /\ request[r].process = x THEN None ELSE request[r]]
  /\ UNCHANGED <<database, redis, finished, failed>>

-----------------------------------------------------------------------------
Step(r) ==
  \/ Connect(r)
  \/ GetVersion(r)
  \/ SetVersion(r)
  \/ GetEntry(r)
  \/ LoadPage(r)
  \/ LoadCollections(r)
  \/ Collect(r)
  \/ StorePage(r)
  \/ Write(r)
  \/ Invalidate(r)
  \/ Finish(r)
  \/ End(r)

Next ==
  \/ \E r \in Requests : Step(r) \/ LoadFails(r)
  \/ \E r \in Requests, x \in Processes : StartRead(r, x) \/ StartWrite(r, x)
  \/ \E x \in Processes : Connected(x) \/ Lose(x) \/ Restart(x)
  \/ \E p \in Kept, n \in Versions : Expire(p, n)
  \/ \E d \in Written : Seed(d)
  \/ WriteImages

Spec == Init /\ [][Next]_vars

\* Entries expire, and a request that is answered is over.  Nothing is asked of
\* the requests that are under way: one may stop for good anywhere.
Fairness ==
  /\ \A p \in Kept : WF_vars(\E n \in Versions : Expire(p, n))
  /\ \A r \in Requests : WF_vars(End(r))

LiveSpec == Spec /\ Fairness

-----------------------------------------------------------------------------
(* Properties.                                                             *)

\* What a page promises to show: what is written by handlers that invalidate it.
\* The collection of a banner, the images and the reviews are not.
Promised(page) == Shows(page) \cap Data

\* A page that is asked for after a write was answered shows that write, if it
\* promises to, whatever ran in between, if no command to Redis has failed: also
\* when a process restarts between the write and the invalidation of another.
Fresh ==
  ~failed => \A r \in Requests : At(r, "answered") =>
    \A d \in Promised(request[r].page) : request[r].seen[d] >= request[r].floor[d]

\* However writes and invalidations were lost or left out, in the end, when
\* nothing is written any more, the pages show all that the database has.
Settles ==
  <>[](\A r \in Requests : At(r, "answered") =>
         \A d \in Shows(request[r].page) : request[r].seen[d] >= database[Of(d)])
=============================================================================

---------------------------- MODULE AmountsProofs ----------------------------
(***************************************************************************)
(* Proofs about Returns and Pricing, for any orders, returns, requests,    *)
(* prices, coupons and settings: what is paid back, and what an order      *)
(* costs.  Both add amounts up, so the proofs begin with sums.             *)
(***************************************************************************)
EXTENDS Returns, Pricing, FiniteSetTheorems, WellFoundedInduction, TLAPS

-----------------------------------------------------------------------------
(* Sums over a finite set, by induction on its subsets.                    *)

\* A family F that has each subset of S all whose smaller subsets it has, has S.
LEMMA SubsetInduction ==
  ASSUME NEW S, IsFiniteSet(S), NEW F,
         \A T \in SUBSET S : (\A U \in SUBSET T : U # T => U \in F) => T \in F
  PROVE  S \in F
  <1> DEFINE Bad == {T \in SUBSET S : T \notin F}
  <1>1. IsWellFoundedOn(StrictSubsetOrdering(S), SUBSET S)
    BY FS_StrictSubsetOrderingWellFounded, FS_FiniteSubsetsOfFinite
  <1>2. ASSUME Bad # {} PROVE FALSE
    <2>1. Bad \subseteq SUBSET S
      OBVIOUS
    <2> HIDE DEF Bad
    <2>2. PICK T \in Bad : \A U \in Bad : <<U, T>> \notin StrictSubsetOrdering(S)
      BY <1>1, <1>2, <2>1, WFMin
    <2> USE DEF Bad
    <2>3. \A U \in SUBSET T : U # T => U \in F
      BY <2>2 DEF StrictSubsetOrdering
    <2> QED BY <2>2, <2>3
  <1> QED BY <1>2

\* The function that the sum over S is computed with.
Sums(h, S, g) == g = [s \in SUBSET S |->
  IF s = {} THEN 0 ELSE LET x == CHOOSE x \in s : TRUE IN h[x] + g[s \ {x}]]

LEMMA TotalIs ==
  ASSUME NEW h, NEW S
  PROVE  Total(h, S) = (CHOOSE g : Sums(h, S, g))[S]
  BY DEF Total, SumFunctionOnSet, FoldFunctionOnSet, MapThenFoldSet, Sums

LEMMA Chosen ==
  ASSUME NEW h, NEW S, NEW g, Sums(h, S, g)
  PROVE  Sums(h, S, CHOOSE k : Sums(h, S, k))
  OBVIOUS

\* Two such functions agree on the whole of S.
LEMMA SumsUnique ==
  ASSUME NEW h, NEW S, IsFiniteSet(S), NEW f, Sums(h, S, f), NEW g, Sums(h, S, g)
  PROVE  f[S] = g[S]
  <1> DEFINE F == {T \in SUBSET S : f[T] = g[T]}
  <1>1. ASSUME NEW T \in SUBSET S, \A U \in SUBSET T : U # T => U \in F PROVE T \in F
    <2> DEFINE x == CHOOSE x \in T : TRUE
    <2>1. CASE T = {}
      BY <2>1 DEF Sums
    <2>2. CASE T # {}
      <3>1. x \in T /\ T \ {x} \in SUBSET T /\ T \ {x} # T
        BY <2>2
      <3>2. f[T \ {x}] = g[T \ {x}]
        BY <1>1, <3>1
      <3>3. f[T] = h[x] + f[T \ {x}] /\ g[T] = h[x] + g[T \ {x}]
        BY <2>2 DEF Sums
      <3> QED BY <3>2, <3>3
    <2> QED BY <2>1, <2>2
  <1> HIDE DEF F
  <1>2. S \in F
    BY <1>1, SubsetInduction
  <1> QED BY <1>2 DEF F

\* What it gives for a subset does not depend on S.
LEMMA SumsRestrict ==
  ASSUME NEW h, NEW S, NEW g, Sums(h, S, g), NEW U \in SUBSET S
  PROVE  Sums(h, U, [s \in SUBSET U |-> g[s]])
  <1> DEFINE k == [s \in SUBSET U |-> g[s]]
             c(s) == CHOOSE x \in s : TRUE
  <1>1. ASSUME NEW s \in SUBSET U PROVE k[s] = IF s = {} THEN 0 ELSE h[c(s)] + k[s \ {c(s)}]
    <2>1. s \in SUBSET S /\ s \ {c(s)} \in SUBSET U
      OBVIOUS
    <2>2. g[s] = IF s = {} THEN 0 ELSE h[c(s)] + g[s \ {c(s)}]
      BY <2>1 DEF Sums
    <2> QED BY <2>1, <2>2
  <1> QED BY <1>1 DEF Sums

LEMMA TotalOf ==
  ASSUME NEW h, NEW S, IsFiniteSet(S), NEW g, Sums(h, S, g), NEW U \in SUBSET S
  PROVE  Total(h, U) = g[U]
  <1> DEFINE k == [s \in SUBSET U |-> g[s]]
             m == CHOOSE n : Sums(h, U, n)
  <1>1. Sums(h, U, k)
    BY SumsRestrict
  <1>2. Sums(h, U, m)
    BY <1>1, Chosen
  <1>3. IsFiniteSet(U)
    BY FS_Subset
  <1>4. k[U] = g[U]
    OBVIOUS
  <1> HIDE DEF k, m
  <1>5. m[U] = k[U]
    BY <1>1, <1>2, <1>3, SumsUnique
  <1> QED BY <1>4, <1>5, TotalIs DEF m

\* There is one for every finite set.
LEMMA SumsExist ==
  ASSUME NEW h, NEW S, IsFiniteSet(S)
  PROVE  \E g : Sums(h, S, g)
  <1> DEFINE F == {T \in SUBSET S : \E g : Sums(h, T, g)}
             c(s) == CHOOSE x \in s : TRUE
  <1>1. ASSUME NEW T \in SUBSET S, \A U \in SUBSET T : U # T => U \in F PROVE T \in F
    <2> DEFINE g == [s \in SUBSET T |-> IF s = {} THEN 0 ELSE h[c(s)] + Total(h, s \ {c(s)})]
    <2>1. ASSUME NEW U \in SUBSET T, U # T PROVE Total(h, U) = g[U]
      <3>1. PICK k : Sums(h, U, k)
        BY <1>1, <2>1
      <3>2. IsFiniteSet(U)
        BY FS_Subset
      <3>3. Total(h, U) = k[U] /\ Total(h, U \ {c(U)}) = k[U \ {c(U)}]
        BY <3>1, <3>2, TotalOf
      <3>4. k[U] = IF U = {} THEN 0 ELSE h[c(U)] + k[U \ {c(U)}]
        BY <3>1 DEF Sums
      <3> QED BY <3>3, <3>4
    <2>2. ASSUME NEW s \in SUBSET T PROVE g[s] = IF s = {} THEN 0 ELSE h[c(s)] + g[s \ {c(s)}]
      <3>1. CASE s = {}
        BY <3>1
      <3>2. CASE s # {}
        <4>1. c(s) \in s
          BY <3>2
        <4>2. s \ {c(s)} \in SUBSET T /\ s \ {c(s)} # T
          BY <4>1
        <4>3. Total(h, s \ {c(s)}) = g[s \ {c(s)}]
          BY <2>1, <4>2
        <4> QED BY <3>2, <4>3
      <3> QED BY <3>1, <3>2
    <2>3. Sums(h, T, g)
      BY <2>2 DEF Sums
    <2> QED BY <2>3
  <1> HIDE DEF F
  <1>2. S \in F
    BY <1>1, SubsetInduction
  <1> QED BY <1>2 DEF F

\* A sum is nothing, or that of all elements but one and that one.
LEMMA TotalStep ==
  ASSUME NEW h, NEW S, IsFiniteSet(S)
  PROVE  /\ Total(h, {}) = 0
         /\ S # {} => \E x \in S : Total(h, S) = h[x] + Total(h, S \ {x})
  <1>1. PICK g : Sums(h, S, g)
    BY SumsExist
  <1>2. \A U \in SUBSET S : Total(h, U) = g[U]
    BY <1>1, TotalOf
  <1> DEFINE x == CHOOSE x \in S : TRUE
  <1>3. \A s \in SUBSET S :
          g[s] = IF s = {} THEN 0 ELSE LET y == CHOOSE y \in s : TRUE IN h[y] + g[s \ {y}]
    BY <1>1 DEF Sums
  <1>4. {} \in SUBSET S /\ S \in SUBSET S /\ S \ {x} \in SUBSET S
    OBVIOUS
  <1>5. g[{}] = 0
    BY <1>3, <1>4
  <1>6. ASSUME S # {} PROVE x \in S /\ g[S] = h[x] + g[S \ {x}]
    BY <1>3, <1>4, <1>6
  <1> HIDE DEF x
  <1> QED BY <1>2, <1>4, <1>5, <1>6

LEMMA TotalNat ==
  ASSUME NEW S, IsFiniteSet(S), NEW h, \A x \in S : h[x] \in Nat
  PROVE  Total(h, S) \in Nat
  <1> DEFINE F == {T \in SUBSET S : Total(h, T) \in Nat}
  <1>1. ASSUME NEW T \in SUBSET S, \A U \in SUBSET T : U # T => U \in F PROVE T \in F
    <2>1. IsFiniteSet(T)
      BY FS_Subset
    <2>2. CASE T # {}
      <3>1. PICK x \in T : Total(h, T) = h[x] + Total(h, T \ {x})
        BY <2>1, <2>2, TotalStep
      <3>2. T \ {x} \in F
        BY <1>1
      <3> QED BY <3>1, <3>2
    <2>3. Total(h, {}) = 0
      BY <2>1, TotalStep
    <2> QED BY <2>2, <2>3
  <1> HIDE DEF F
  <1>2. S \in F
    BY <1>1, SubsetInduction
  <1> QED BY <1>2 DEF F

\* Functions that agree on S have one sum over it.
LEMMA TotalAgrees ==
  ASSUME NEW S, IsFiniteSet(S), NEW h, NEW k, \A x \in S : h[x] = k[x]
  PROVE  Total(h, S) = Total(k, S)
  <1>1. PICK g : Sums(h, S, g)
    BY SumsExist
  <1>2. ASSUME NEW s \in SUBSET S
        PROVE  g[s] = IF s = {} THEN 0 ELSE LET x == CHOOSE x \in s : TRUE IN k[x] + g[s \ {x}]
    <2> DEFINE x == CHOOSE x \in s : TRUE
    <2>1. g[s] = IF s = {} THEN 0 ELSE h[x] + g[s \ {x}]
      BY <1>1 DEF Sums
    <2>2. s # {} => h[x] = k[x]
      OBVIOUS
    <2> QED BY <2>1, <2>2
  <1>3. g = [s \in SUBSET S |-> g[s]]
    BY <1>1 DEF Sums
  <1>4. Sums(k, S, g)
    BY <1>2, <1>3 DEF Sums
  <1> QED BY <1>1, <1>4, TotalOf

\* The element taken out may be any.
LEMMA TotalAny ==
  ASSUME NEW S, IsFiniteSet(S), NEW h, \A x \in S : h[x] \in Nat, NEW x \in S
  PROVE  Total(h, S) = h[x] + Total(h, S \ {x})
  <1> DEFINE F == {T \in SUBSET S : \A y \in T : Total(h, T) = h[y] + Total(h, T \ {y})}
  <1>1. ASSUME NEW T \in SUBSET S, \A U \in SUBSET T : U # T => U \in F PROVE T \in F
    <2>1. IsFiniteSet(T)
      BY FS_Subset
    <2>2. ASSUME NEW y \in T PROVE Total(h, T) = h[y] + Total(h, T \ {y})
      <3>1. PICK z \in T : Total(h, T) = h[z] + Total(h, T \ {z})
        BY <2>1, TotalStep
      <3>2. CASE y # z
        <4>1. T \ {z} \in F /\ T \ {y} \in F /\ y \in T \ {z} /\ z \in T \ {y}
          BY <1>1, <3>2
        <4>2. (T \ {z}) \ {y} = (T \ {y}) \ {z}
          OBVIOUS
        <4>3. /\ Total(h, T \ {z}) = h[y] + Total(h, (T \ {z}) \ {y})
              /\ Total(h, T \ {y}) = h[z] + Total(h, (T \ {y}) \ {z})
          BY <4>1
        <4>4. Total(h, (T \ {y}) \ {z}) \in Nat
          <5>1. IsFiniteSet((T \ {y}) \ {z})
            BY <2>1, FS_Subset
          <5> QED BY <5>1, TotalNat
        <4>5. h[y] \in Nat /\ h[z] \in Nat
          OBVIOUS
        <4> HIDE DEF F
        <4> QED BY <3>1, <4>2, <4>3, <4>4, <4>5
      <3> QED BY <3>1, <3>2
    <2> QED BY <2>2
  <1> HIDE DEF F
  <1>2. S \in F
    BY <1>1, SubsetInduction
  <1> QED BY <1>2 DEF F

\* A product, for the provers.
LEMMA ProductNat ==
  ASSUME NEW m \in Nat, NEW n \in Nat
  PROVE  m * n \in Nat
  OBVIOUS

LEMMA ProductGrows ==
  ASSUME NEW m \in Nat, NEW n \in Nat, m <= n, NEW r \in Nat
  PROVE  m * r <= n * r
  <1> DEFINE less == m * r
             more == (n - m) * r
  <1>1. n - m \in Nat
    OBVIOUS
  <1>2. less \in Nat /\ more \in Nat
    BY <1>1, ProductNat
  <1>3. n * r = less + more
    OBVIOUS
  <1> HIDE DEF less, more
  <1>4. less <= less + more
    BY <1>2
  <1> QED BY <1>3, <1>4 DEF less

-----------------------------------------------------------------------------
(* A return is paid back once.                                             *)

\* What matters here of a task's type: neither the payment it picked nor what
\* it read of its refunds.
WellFormed(t) ==
  /\ t.op \in {"none", "create", "open", "pay"}
  /\ t.op # "none" => t.order \in Orders
  /\ t.op = "create" => t.lines \in Seq(Line)
  /\ t.op \in {"open", "pay"} => t.return \in Nat

ReturnsType ==
  /\ returns \in [Orders -> Seq(Return)]
  /\ task = [r \in Requests |-> task[r]]
  /\ \A r \in Requests : WellFormed(task[r])

Pays(t, o, k) == t.op = "pay" /\ t.order = o /\ t.return = k

\* A handler is at work on a return that is there, and the one that holds its
\* row, to pay it back, is the only one, and nobody has paid it back.
Held(t) ==
  /\ t.op \in {"open", "pay"} => t.return \in DOMAIN returns[t.order]
  /\ t.op = "pay" => returns[t.order][t.return].refunds = 0

RowsHeld ==
  /\ \A r \in Requests : Held(task[r])
  /\ \A o \in Orders, k \in Nat : \A r, s \in Requests :
       Pays(task[r], o, k) /\ Pays(task[s], o, k) => r = s

PaidInv == ReturnsType /\ RowsHeld /\ PaidBackOnce

-----------------------------------------------------------------------------
LEMMA InitPaid == Init => PaidInv
  BY DEF Init, PaidInv, ReturnsType, RowsHeld, PaidBackOnce, Held, Pays, NoTask, WellFormed

\* No step but those of returns disturbs any of it.
LEMMA UnchangedKeeps ==
  ASSUME PaidInv, UNCHANGED <<returns, task>> PROVE PaidInv'
  BY DEF PaidInv, ReturnsType, RowsHeld, PaidBackOnce, Held, Pays

\* A task that pays nothing takes the place of another.
LEMMA TaskKeeps ==
  ASSUME PaidInv, NEW r \in Requests, NEW t, WellFormed(t), t.op # "pay",
         t.op = "open" => t.return \in DOMAIN returns[t.order],
         task' = [task EXCEPT ![r] = t], UNCHANGED returns
  PROVE  PaidInv'
  <1>1. ReturnsType'
    BY DEF PaidInv, ReturnsType
  <1>2. \A s \in Requests : task'[s] = IF s = r THEN t ELSE task[s]
    BY DEF PaidInv, ReturnsType
  <1>3. RowsHeld'
    <2>1. ASSUME NEW s \in Requests PROVE Held(task[s])'
      <3>1. CASE s = r
        BY <1>2, <3>1 DEF Held
      <3>2. CASE s # r
        BY <1>2, <3>2 DEF PaidInv, RowsHeld, Held
      <3> QED BY <3>1, <3>2
    <2>2. ASSUME NEW o \in Orders, NEW k \in Nat, NEW s \in Requests, NEW u \in Requests,
                 Pays(task'[s], o, k), Pays(task'[u], o, k)
          PROVE  s = u
      <3>1. s # r /\ u # r
        BY <1>2, <2>2 DEF Pays
      <3>2. Pays(task[s], o, k) /\ Pays(task[u], o, k)
        BY <1>2, <2>2, <3>1
      <3> QED BY <3>2 DEF PaidInv, RowsHeld
    <2> QED BY <2>1, <2>2 DEF RowsHeld, Pays
  <1>4. PaidBackOnce'
    BY DEF PaidInv, PaidBackOnce
  <1> QED BY <1>1, <1>3, <1>4 DEF PaidInv

LEMMA NothingToDo == WellFormed(NoTask) /\ NoTask.op = "none"
  BY DEF NoTask, WellFormed

-----------------------------------------------------------------------------
(* createCustomerReturn.                                                   *)

LEMMA CreateReadKeeps ==
  ASSUME PaidInv, NEW r \in Requests, NEW o \in Orders, NEW lines \in Forms,
         CreateRead(r, o, lines)
  PROVE  PaidInv'
  <1> DEFINE t == [op |-> "create", order |-> o, lines |-> lines]
  <1>1. lines \in Seq(Line)
    BY FormsAssumption
  <1>2. WellFormed(t) /\ t.op = "create"
    BY <1>1 DEF WellFormed
  <1>3. task' = [task EXCEPT ![r] = t] /\ UNCHANGED returns
    BY DEF CreateRead, Begin
  <1> HIDE DEF t
  <1> QED BY <1>2, <1>3, TaskKeeps

\* A return more changes none of those that are there.
LEMMA CreateWriteKeeps ==
  ASSUME PaidInv, NEW r \in Requests, CreateWrite(r)
  PROVE  PaidInv'
  <1> DEFINE o == task[r].order
             new == [lines |-> task[r].lines, status |-> "REQUESTED", refunds |-> 0]
  <1>1. o \in Orders /\ task[r].lines \in Seq(Line)
    BY DEF PaidInv, ReturnsType, CreateWrite, WellFormed
  <1>2. new \in Return /\ new.refunds = 0 /\ new.status = "REQUESTED"
    BY <1>1 DEF Return, ReturnStatus
  <1>3. returns' = [returns EXCEPT ![o] = Append(returns[o], new)]
    BY DEF CreateWrite
  <1>4. task' = [task EXCEPT ![r] = NoTask]
    BY DEF CreateWrite, End
  <1> HIDE DEF o, new
  <1>5. returns[o] \in Seq(Return)
    BY <1>1 DEF PaidInv, ReturnsType
  <1>6. Append(returns[o], new) \in Seq(Return)
    BY <1>2, <1>5
  <1>7. ASSUME NEW p \in Orders
        PROVE  /\ DOMAIN returns[p] \subseteq DOMAIN returns'[p]
               /\ \A k \in DOMAIN returns[p] : returns'[p][k] = returns[p][k]
               /\ \A k \in DOMAIN returns'[p] :
                    returns'[p][k] = new \/ k \in DOMAIN returns[p]
    <2>1. CASE p = o
      <3>1. returns'[p] = Append(returns[o], new)
        BY <1>3, <2>1 DEF PaidInv, ReturnsType
      <3> QED BY <1>2, <1>5, <2>1, <3>1
    <2>2. CASE p # o
      BY <1>3, <2>2 DEF PaidInv, ReturnsType
    <2> QED BY <2>1, <2>2
  <1>8. ReturnsType'
    BY <1>1, <1>3, <1>4, <1>6, NothingToDo DEF PaidInv, ReturnsType
  <1>9. \A s \in Requests : task'[s] = IF s = r THEN NoTask ELSE task[s]
    BY <1>4 DEF PaidInv, ReturnsType
  <1>10. RowsHeld'
    <2>1. ASSUME NEW s \in Requests PROVE Held(task[s])'
      <3>1. CASE s = r
        BY <1>9, <3>1, NothingToDo DEF Held
      <3>2. CASE s # r
        <4>1. Held(task[s]) /\ task'[s] = task[s]
          BY <1>9, <3>2 DEF PaidInv, RowsHeld
        <4>2. task[s].op \in {"open", "pay"} => task[s].order \in Orders
          BY DEF PaidInv, ReturnsType, WellFormed
        <4> QED BY <1>7, <4>1, <4>2 DEF Held
      <3> QED BY <3>1, <3>2
    <2>2. ASSUME NEW p \in Orders, NEW k \in Nat, NEW s \in Requests, NEW u \in Requests,
                 Pays(task'[s], p, k), Pays(task'[u], p, k)
          PROVE  s = u
      <3>1. s # r /\ u # r
        BY <1>9, <2>2, NothingToDo DEF Pays
      <3>2. Pays(task[s], p, k) /\ Pays(task[u], p, k)
        BY <1>9, <2>2, <3>1
      <3> QED BY <3>2 DEF PaidInv, RowsHeld
    <2> QED BY <2>1, <2>2 DEF RowsHeld, Pays
  <1>11. PaidBackOnce'
    BY <1>2, <1>7 DEF PaidInv, PaidBackOnce
  <1> QED BY <1>8, <1>10, <1>11 DEF PaidInv

-----------------------------------------------------------------------------
(* updateReturnStatus.                                                     *)

\* What a step that changes one return does to the function of all of them.
LEMMA OneReturn ==
  ASSUME PaidInv, NEW o \in Orders, NEW k \in DOMAIN returns[o], NEW new \in Return,
         returns' = [returns EXCEPT ![o] = [returns[o] EXCEPT ![k] = new]]
  PROVE  /\ returns' \in [Orders -> Seq(Return)]
         /\ \A p \in Orders : DOMAIN returns'[p] = DOMAIN returns[p]
         /\ \A p \in Orders : \A j \in DOMAIN returns[p] :
              returns'[p][j] = IF p = o /\ j = k THEN new ELSE returns[p][j]
  <1>1. returns \in [Orders -> Seq(Return)]
    BY DEF PaidInv, ReturnsType
  <1>2. returns[o] \in Seq(Return)
    BY <1>1
  <1>3. /\ [returns[o] EXCEPT ![k] = new] \in Seq(Return)
        /\ DOMAIN [returns[o] EXCEPT ![k] = new] = DOMAIN returns[o]
    BY <1>2
  <1>4. \A p \in Orders :
          returns'[p] = IF p = o THEN [returns[o] EXCEPT ![k] = new] ELSE returns[p]
    BY <1>1
  <1>5. returns' \in [Orders -> Seq(Return)]
    BY <1>1, <1>3
  <1> QED BY <1>2, <1>3, <1>4, <1>5

\* A status that is not REFUNDED; no return that is being paid back changes.
LEMMA DecideKeeps ==
  ASSUME PaidInv, NEW o \in Orders, NEW k \in DOMAIN returns[o], NEW to \in Decisions,
         Decide(o, k, to)
  PROVE  PaidInv'
  <1> DEFINE old == returns[o][k]
             new == [old EXCEPT !.status = to]
  <1>1. returns[o] \in Seq(Return) /\ k \in Nat
    BY DEF PaidInv, ReturnsType
  <1>2. old \in Return
    BY <1>1
  <1>3. to \in ReturnStatus /\ to # "REFUNDED"
    BY DecisionsAssumption
  <1>4. new \in Return /\ new.status = to /\ new.refunds = old.refunds
    BY <1>2, <1>3 DEF Return
  <1>5. returns' = [returns EXCEPT ![o] = [returns[o] EXCEPT ![k] = new]]
    BY DEF Decide, PaidInv, ReturnsType
  <1>6. task' = task
    BY DEF Decide
  <1>7. old.refunds <= 1
    BY DEF PaidInv, PaidBackOnce
  <1> HIDE DEF old, new
  <1>8. /\ returns' \in [Orders -> Seq(Return)]
        /\ \A p \in Orders : DOMAIN returns'[p] = DOMAIN returns[p]
        /\ \A p \in Orders : \A j \in DOMAIN returns[p] :
             returns'[p][j] = IF p = o /\ j = k THEN new ELSE returns[p][j]
    BY <1>4, <1>5, OneReturn
  <1>9. ReturnsType'
    BY <1>6, <1>8 DEF PaidInv, ReturnsType
  <1>10. RowsHeld'
    <2>1. ASSUME NEW s \in Requests PROVE Held(task[s])'
      <3>1. Held(task[s]) /\ task'[s] = task[s]
        BY <1>6 DEF PaidInv, RowsHeld
      <3>2. task[s].op \in {"open", "pay"} => task[s].order \in Orders
        BY DEF PaidInv, ReturnsType, WellFormed
      <3>3. old = returns[o][k]
        BY DEF old
      <3> QED BY <1>4, <1>8, <3>1, <3>2, <3>3 DEF Held
    <2> QED BY <1>6, <2>1 DEF PaidInv, RowsHeld, Pays
  <1>11. PaidBackOnce'
    BY <1>3, <1>4, <1>7, <1>8 DEF PaidInv, PaidBackOnce
  <1> QED BY <1>9, <1>10, <1>11 DEF PaidInv

LEMMA OpenReturnKeeps ==
  ASSUME PaidInv, NEW r \in Requests, NEW o \in Orders, NEW k \in DOMAIN returns[o],
         OpenReturn(r, o, k)
  PROVE  PaidInv'
  <1> DEFINE t == [op |-> "open", order |-> o, return |-> k]
  <1>1. k \in Nat
    BY DEF PaidInv, ReturnsType
  <1>2. WellFormed(t) /\ t.op = "open" /\ t.order = o /\ t.return = k
    BY <1>1 DEF WellFormed
  <1>3. task' = [task EXCEPT ![r] = t] /\ UNCHANGED returns
    BY DEF OpenReturn, Begin
  <1> HIDE DEF t
  <1> QED BY <1>2, <1>3, TaskKeeps

LEMMA GiveUpKeeps ==
  ASSUME PaidInv, NEW r \in Requests, GiveUp(r)
  PROVE  PaidInv'
  <1>1. task' = [task EXCEPT ![r] = NoTask] /\ UNCHANGED returns
    BY DEF GiveUp, End
  <1> QED BY <1>1, NothingToDo, TaskKeeps

\* The row that is locked was not, and its return is unpaid.
LEMMA LockReturnKeeps ==
  ASSUME PaidInv, NEW r \in Requests, LockReturn(r)
  PROVE  PaidInv'
  <1> DEFINE o == task[r].order
             k == task[r].return
  <1>1. o \in Orders /\ k \in Nat /\ k \in DOMAIN returns[o]
    BY DEF PaidInv, ReturnsType, RowsHeld, Held, LockReturn, WellFormed
  <1>2. ~ReturnLocked(o, k) /\ returns[o][k].refunds = 0
    BY DEF LockReturn, Unpaid
  <1>3. PICK i \in Lifecycle!PaymentsIn(o, {"PAID"}) :
          task' = [task EXCEPT ![r] =
                     [op |-> "pay", order |-> o, return |-> k, payment |-> i,
                      already |-> payments[o][i].refunded]]
    BY DEF LockReturn
  <1> DEFINE t == [op |-> "pay", order |-> o, return |-> k, payment |-> i,
                   already |-> payments[o][i].refunded]
  <1>5. WellFormed(t) /\ t.op = "pay" /\ t.order = o /\ t.return = k
    BY <1>1 DEF WellFormed
  <1>6. task' = [task EXCEPT ![r] = t] /\ UNCHANGED returns
    BY <1>3 DEF LockReturn
  <1>7. \A s \in Requests : ~Pays(task[s], o, k)
    BY <1>2 DEF ReturnLocked, Pays
  <1> HIDE DEF o, k, t
  <1>8. \A s \in Requests : task'[s] = IF s = r THEN t ELSE task[s]
    BY <1>6 DEF PaidInv, ReturnsType
  <1>9. ReturnsType'
    BY <1>5, <1>6 DEF PaidInv, ReturnsType
  <1>10. RowsHeld'
    <2>1. ASSUME NEW s \in Requests PROVE Held(task[s])'
      <3>1. CASE s = r
        BY <1>1, <1>2, <1>5, <1>6, <1>8, <3>1 DEF Held
      <3>2. CASE s # r
        BY <1>6, <1>8, <3>2 DEF PaidInv, RowsHeld, Held
      <3> QED BY <3>1, <3>2
    <2>2. ASSUME NEW p \in Orders, NEW j \in Nat, NEW s \in Requests, NEW u \in Requests,
                 Pays(task'[s], p, j), Pays(task'[u], p, j)
          PROVE  s = u
      <3>1. CASE s # r /\ u # r
        BY <1>8, <2>2, <3>1 DEF PaidInv, RowsHeld
      <3>2. CASE s = r \/ u = r
        <4>1. p = o /\ j = k
          BY <1>5, <1>8, <2>2, <3>2 DEF Pays
        <4> QED BY <1>7, <1>8, <2>2, <4>1
      <3> QED BY <3>1, <3>2
    <2> QED BY <2>1, <2>2 DEF RowsHeld, Pays
  <1>11. PaidBackOnce'
    BY <1>6 DEF PaidInv, PaidBackOnce
  <1> QED BY <1>9, <1>10, <1>11 DEF PaidInv

\* The return that is paid back is unpaid until then, and nobody else holds it.
LEMMA PayBackKeeps ==
  ASSUME PaidInv, NEW r \in Requests, PayBack(r)
  PROVE  PaidInv'
  <1> DEFINE o == task[r].order
             k == task[r].return
             old == returns[o][k]
             new == PaidBack(old)
  <1>1. /\ o \in Orders /\ k \in Nat /\ k \in DOMAIN returns[o] /\ old.refunds = 0
        /\ Pays(task[r], o, k)
    BY DEF PaidInv, ReturnsType, RowsHeld, Held, PayBack, WellFormed, Pays
  <1>2. returns[o] \in Seq(Return) /\ old \in Return
    BY <1>1 DEF PaidInv, ReturnsType
  <1>3. new \in Return /\ new.status = "REFUNDED" /\ new.refunds = 1
    BY <1>1, <1>2 DEF Return, ReturnStatus, PaidBack
  <1>4. returns' = [returns EXCEPT ![o] = [returns[o] EXCEPT ![k] = new]]
    BY <1>1, <1>2 DEF PayBack, PaidInv, ReturnsType
  <1>5. task' = [task EXCEPT ![r] = NoTask]
    BY DEF PayBack, End
  <1>6. \A s \in Requests : s # r => ~Pays(task[s], o, k)
    BY <1>1 DEF PaidInv, RowsHeld
  <1> HIDE DEF o, k, old, new
  <1>7. /\ returns' \in [Orders -> Seq(Return)]
        /\ \A p \in Orders : DOMAIN returns'[p] = DOMAIN returns[p]
        /\ \A p \in Orders : \A j \in DOMAIN returns[p] :
             returns'[p][j] = IF p = o /\ j = k THEN new ELSE returns[p][j]
    BY <1>1, <1>3, <1>4, OneReturn
  <1>8. \A s \in Requests : task'[s] = IF s = r THEN NoTask ELSE task[s]
    BY <1>5 DEF PaidInv, ReturnsType
  <1>9. ReturnsType'
    BY <1>5, <1>7, <1>8, NothingToDo DEF PaidInv, ReturnsType
  <1>10. RowsHeld'
    <2>1. ASSUME NEW s \in Requests PROVE Held(task[s])'
      <3>1. CASE s = r
        BY <1>8, <3>1, NothingToDo DEF Held
      <3>2. CASE s # r
        <4>1. Held(task[s]) /\ task'[s] = task[s]
          BY <1>8, <3>2 DEF PaidInv, RowsHeld
        <4>2. task[s].op \in {"open", "pay"} => task[s].order \in Orders
          BY DEF PaidInv, ReturnsType, WellFormed
        <4>3. ~Pays(task[s], o, k)
          BY <1>6, <3>2
        <4> QED BY <1>7, <4>1, <4>2, <4>3 DEF Held, Pays
      <3> QED BY <3>1, <3>2
    <2>2. ASSUME NEW p \in Orders, NEW j \in Nat, NEW s \in Requests, NEW u \in Requests,
                 Pays(task'[s], p, j), Pays(task'[u], p, j)
          PROVE  s = u
      <3>1. s # r /\ u # r
        BY <1>8, <2>2, NothingToDo DEF Pays
      <3> QED BY <1>8, <2>2, <3>1 DEF PaidInv, RowsHeld
    <2> QED BY <2>1, <2>2 DEF RowsHeld, Pays
  <1>11. PaidBackOnce'
    BY <1>3, <1>7 DEF PaidInv, PaidBackOnce
  <1> QED BY <1>9, <1>10, <1>11 DEF PaidInv

-----------------------------------------------------------------------------
LEMMA PaidKept == PaidInv /\ [Next]_vars => PaidInv'
  <1> SUFFICES ASSUME PaidInv, [Next]_vars PROVE PaidInv'
    OBVIOUS
  <1>1. CASE LifecycleStep
    BY <1>1, UnchangedKeeps DEF LifecycleStep
  <1>2. ASSUME NEW o \in Orders, ReturnStep(o) PROVE PaidInv'
    BY <1>2, DecideKeeps, OpenReturnKeeps DEF ReturnStep
  <1>3. ASSUME NEW r \in Requests, TaskStep(r) PROVE PaidInv'
    BY <1>3, CreateReadKeeps, CreateWriteKeeps, LockReturnKeeps, PayBackKeeps, GiveUpKeeps
    DEF TaskStep
  <1>4. CASE UNCHANGED vars
    BY <1>4, UnchangedKeeps DEF vars
  <1> QED BY <1>1, <1>2, <1>3, <1>4 DEF Next

\* Whatever admins and the other services do meanwhile, a return is paid back at
\* most once, and one that is REFUNDED was.
THEOREM PaidBackCorrect == Spec => []PaidBackOnce
  <1>1. PaidInv => PaidBackOnce
    BY DEF PaidInv
  <1> QED BY <1>1, InitPaid, PaidKept, PTL DEF Spec

-----------------------------------------------------------------------------
(* Returns beside OrderLifecycle: the payments.                            *)

LP == INSTANCE OrderLifecycleProofs

\* The proofs are instantiated beside the module, so that each definition is
\* there twice: the two are one.
LEMMA LifecycleAssumptions ==
  LP!AmountAssumption /\ LP!RefundAmountsAssumption /\ LP!UndefinedAssumption
    /\ LP!UpdatesAssumption
  BY AmountAssumption, RefundAmountsAssumption, UndefinedAssumption, UpdatesAssumption
  DEF ShipmentStatus, LP!ShipmentStatus

LEMMA SameTerms ==
  /\ Lifecycle!TypeOK <=> LP!TypeOK
  /\ Lifecycle!NoRequest = LP!NoRequest
  /\ Lifecycle!CancelledNotPaid <=> LP!CancelledNotPaid
  /\ \A o \in Orders : \A S : Lifecycle!PaymentsIn(o, S) = LP!PaymentsIn(o, S)
  BY DEF Lifecycle!TypeOK, LP!TypeOK, Lifecycle!Payment, LP!Payment, Lifecycle!PaymentMethod,
         LP!PaymentMethod, Lifecycle!PaymentStatus, LP!PaymentStatus, Lifecycle!ShipmentStatus,
         LP!ShipmentStatus, Lifecycle!OrderStatus, LP!OrderStatus, Lifecycle!Request, LP!Request,
         Lifecycle!NoRequest, LP!NoRequest, Lifecycle!CancelledNotPaid, LP!CancelledNotPaid,
         Lifecycle!PaymentsIn, LP!PaymentsIn

LEMMA SameInit == Lifecycle!Init => LP!Init
  BY DEF Lifecycle!Init, LP!Init, Lifecycle!NoRequest, LP!NoRequest

LEMMA SameOrderSteps ==
  \A o \in Orders : Lifecycle!OrderStep(o) <=> LP!OrderStep(o)
  BY DEF Lifecycle!OrderStep, LP!OrderStep, Lifecycle!CreateOrder, LP!CreateOrder,
         Lifecycle!Cancel, LP!Cancel, Lifecycle!Collect, LP!Collect, Lifecycle!UpdateShipment,
         LP!UpdateShipment, Lifecycle!Placed, LP!Placed, Lifecycle!PaymentsIn, LP!PaymentsIn,
         Lifecycle!Settled, LP!Settled, Lifecycle!Settle, LP!Settle, Lifecycle!NewPayment,
         LP!NewPayment, Lifecycle!Collectable, LP!Collectable, Lifecycle!Cancellable,
         LP!Cancellable, Lifecycle!Refundable, LP!Refundable

LEMMA SameReadSteps ==
  \A r \in Requests, o \in Orders : Lifecycle!ReadStep(r, o) <=> LP!ReadStep(r, o)
  BY DEF Lifecycle!ReadStep, LP!ReadStep, Lifecycle!ConfirmRead, LP!ConfirmRead,
         Lifecycle!StatusRead, LP!StatusRead, Lifecycle!CreateRead, LP!CreateRead,
         Lifecycle!RefundRead, LP!RefundRead, Lifecycle!Placed, LP!Placed, Lifecycle!PaymentsIn,
         LP!PaymentsIn, Lifecycle!Begin, LP!Begin, Lifecycle!NoRequest, LP!NoRequest,
         Lifecycle!Confirmable, LP!Confirmable, Lifecycle!Admissible, LP!Admissible,
         Lifecycle!Transitions, LP!Transitions, Lifecycle!Reusable, LP!Reusable,
         Lifecycle!Refundable, LP!Refundable, Lifecycle!OrderStatus, LP!OrderStatus

LEMMA SameWriteSteps ==
  \A r \in Requests : Lifecycle!WriteStep(r) <=> LP!WriteStep(r)
  BY DEF Lifecycle!WriteStep, LP!WriteStep, Lifecycle!ConfirmPaid, LP!ConfirmPaid,
         Lifecycle!ConfirmFailed, LP!ConfirmFailed, Lifecycle!StatusWrite, LP!StatusWrite,
         Lifecycle!CreateWrite, LP!CreateWrite, Lifecycle!RefundWrite, LP!RefundWrite,
         Lifecycle!Abandon, LP!Abandon, Lifecycle!Settled, LP!Settled, Lifecycle!Settle,
         LP!Settle, Lifecycle!End, LP!End, Lifecycle!NoRequest, LP!NoRequest,
         Lifecycle!NewPayment, LP!NewPayment, Lifecycle!Full, LP!Full, Lifecycle!PaymentMethod,
         LP!PaymentMethod

LEMMA SameSettle ==
  ASSUME NEW o, NEW i, NEW s, NEW n
  PROVE  Lifecycle!Settle(o, i, s, n) <=> LP!Settle(o, i, s, n)
  BY DEF Lifecycle!Settle, LP!Settle, Lifecycle!Settled, LP!Settled

\* A step is one of the other services', or pays a return back, or leaves their
\* state alone.
OtherStep == LP!Next /\ UNCHANGED <<returns, task>>

LEMMA StepIs ==
  ASSUME [Next]_vars
  PROVE  \/ OtherStep
         \/ \E r \in Requests : PayBack(r)
         \/ UNCHANGED lifecycleVars
  <1>1. LifecycleStep => OtherStep
    BY SameOrderSteps, SameReadSteps, SameWriteSteps DEF LifecycleStep, OtherStep, LP!Next
  <1>2. ASSUME NEW o \in Orders, ReturnStep(o) PROVE UNCHANGED lifecycleVars
    BY <1>2 DEF ReturnStep, Decide, OpenReturn, Begin
  <1>3. ASSUME NEW r \in Requests, TaskStep(r), ~PayBack(r) PROVE UNCHANGED lifecycleVars
    BY <1>3 DEF TaskStep, CreateRead, CreateWrite, LockReturn, GiveUp, Begin
  <1>4. UNCHANGED vars => UNCHANGED lifecycleVars
    BY DEF vars, lifecycleVars
  <1> QED BY <1>1, <1>2, <1>3, <1>4 DEF Next

\* A list of lines is worth something.
LEMMA QuantityNat ==
  ASSUME NEW lines \in Seq(Line), NEW i
  PROVE  Quantity(lines, i) \in Nat
  <1> DEFINE h == [k \in DOMAIN lines |-> lines[k].quantity]
             S == {k \in DOMAIN lines : lines[k].item = i}
  <1>1. IsFiniteSet(S)
    <2>1. Len(lines) \in Nat /\ DOMAIN lines = 1 .. Len(lines)
      OBVIOUS
    <2>2. IsFiniteSet(1 .. Len(lines))
      BY <2>1, FS_Interval
    <2> QED BY <2>1, <2>2, FS_Subset
  <1>2. ASSUME NEW k \in S PROVE h[k] \in Nat
    <2>1. lines[k] \in Line
      OBVIOUS
    <2> QED BY <2>1 DEF Line
  <1>3. Quantity(lines, i) = Total(h, S)
    BY DEF Quantity
  <1> HIDE DEF h, S
  <1> QED BY <1>1, <1>2, <1>3, TotalNat

LEMMA ValueNat ==
  ASSUME NEW lines \in Seq(Line)
  PROVE  Value(lines) \in Nat
  <1> DEFINE h == [k \in DOMAIN lines |-> UnitPrice[lines[k].item] * lines[k].quantity]
  <1>1. IsFiniteSet(DOMAIN lines)
    <2>1. Len(lines) \in Nat /\ DOMAIN lines = 1 .. Len(lines)
      OBVIOUS
    <2> QED BY <2>1, FS_Interval
  <1>2. ASSUME NEW k \in DOMAIN lines PROVE h[k] \in Nat
    <2>1. lines[k] \in Line
      OBVIOUS
    <2>2. UnitPrice[lines[k].item] \in Nat /\ lines[k].quantity \in Nat
      BY <2>1, UnitPriceAssumption DEF Line
    <2> QED BY <2>2, ProductNat
  <1>3. Value(lines) = Total(h, DOMAIN lines)
    BY DEF Value
  <1> HIDE DEF h
  <1> QED BY <1>1, <1>2, <1>3, TotalNat

\* The payment that a return is to be paid back with is there, and at least as
\* much of it is refunded as was read.
PayAgrees(t) ==
  t.op = "pay" =>
    /\ t.payment \in DOMAIN payments[t.order]
    /\ t.already \in Nat
    /\ t.already <= payments[t.order][t.payment].refunded

TasksAgree == \A r \in Requests : PayAgrees(task[r])

MoneyInv ==
  /\ PaidInv
  /\ LP!Core
  /\ task \in [Requests -> Task]
  /\ TasksAgree

LEMMA InitMoney == Init => MoneyInv
  <1> SUFFICES ASSUME Init PROVE MoneyInv
    OBVIOUS
  <1>1. LP!Core
    BY SameInit, LifecycleAssumptions, LP!InitCore DEF Init
  <1>2. task \in [Requests -> Task] /\ TasksAgree
    BY DEF Init, Task, TasksAgree, PayAgrees, NoTask
  <1> QED BY <1>1, <1>2, InitPaid DEF MoneyInv

\* Tasks still agree when payments stay in place, and what is refunded grows.
LEMMA AgreeKept ==
  ASSUME MoneyInv,
         \A o \in Orders : \A i \in DOMAIN payments[o] : LP!Grown(o, i),
         \A r \in Requests : task'[r] \in {task[r], NoTask}
  PROVE  TasksAgree'
  <1>1. ASSUME NEW r \in Requests PROVE PayAgrees(task[r])'
    <2>1. CASE task'[r] = task[r] /\ task[r].op = "pay"
      <3> DEFINE o == task[r].order
                 i == task[r].payment
      <3>1. o \in Orders
        BY <2>1 DEF MoneyInv, PaidInv, ReturnsType, WellFormed
      <3>2. /\ i \in DOMAIN payments[o] /\ task[r].already \in Nat
            /\ task[r].already <= payments[o][i].refunded
        BY <2>1 DEF MoneyInv, TasksAgree, PayAgrees
      <3>3. /\ i \in DOMAIN payments'[o] /\ payments'[o][i].refunded \in Nat
            /\ payments'[o][i].refunded >= payments[o][i].refunded
        BY <3>1, <3>2 DEF LP!Grown
      <3>4. payments[o][i].refunded \in Nat
        BY <3>1, <3>2, LifecycleAssumptions, LP!RefundedNat DEF MoneyInv
      <3>5. task[r].already <= payments'[o][i].refunded
        BY <3>2, <3>3, <3>4
      <3> QED BY <2>1, <3>2, <3>3, <3>5 DEF PayAgrees
    <2>2. CASE task'[r].op # "pay"
      BY <2>2 DEF PayAgrees
    <2> QED BY <2>1, <2>2, NothingToDo
  <1> QED BY <1>1 DEF TasksAgree

\* The task that pays a return back.
LEMMA PayTask ==
  ASSUME MoneyInv, NEW r \in Requests, task[r].op = "pay"
  PROVE  /\ task[r].order \in Orders
         /\ task[r].return \in DOMAIN returns[task[r].order]
         /\ task[r].payment \in DOMAIN payments[task[r].order]
         /\ task[r].already \in Nat
         /\ Value(returns[task[r].order][task[r].return].lines) \in Nat
  <1>1. task[r].order \in Orders /\ task[r].return \in DOMAIN returns[task[r].order]
    BY DEF MoneyInv, PaidInv, ReturnsType, WellFormed, RowsHeld, Held
  <1>2. task[r].payment \in DOMAIN payments[task[r].order] /\ task[r].already \in Nat
    BY DEF MoneyInv, TasksAgree, PayAgrees
  <1>3. returns[task[r].order][task[r].return] \in Return
    BY <1>1 DEF MoneyInv, PaidInv, ReturnsType
  <1>4. returns[task[r].order][task[r].return].lines \in Seq(Line)
    BY <1>3 DEF Return
  <1> QED BY <1>1, <1>2, <1>4, ValueNat

\* What paying a return back does to the order and its payments.
PaidWith(o, i, already, value, s) ==
  /\ LP!Settle(o, i, s, value)
  /\ s \in {"REFUNDED", "PARTIALLY_REFUNDED"}
  /\ s = "REFUNDED" => already + value >= Amount
  /\ status' = [status EXCEPT ![o] = IF s = "REFUNDED" THEN "REFUNDED" ELSE "RETURNED"]
  /\ UNCHANGED <<shipment, request>>

LEMMA PayBackIs ==
  ASSUME MoneyInv, NEW r \in Requests, PayBack(r)
  PROVE  \E o \in Orders : \E i \in DOMAIN payments[o], k \in DOMAIN returns[o],
             s \in {"REFUNDED", "PARTIALLY_REFUNDED"} :
           /\ task[r].op = "pay" /\ task[r].order = o /\ task[r].payment = i /\ task[r].return = k
           /\ PaidWith(o, i, task[r].already, Value(returns[o][k].lines), s)
  <1> DEFINE o == task[r].order
             i == task[r].payment
             k == task[r].return
             value == Value(returns[o][k].lines)
             full == Full(value, task[r].already)
             s == IF full THEN "REFUNDED" ELSE "PARTIALLY_REFUNDED"
  <1>1. task[r].op = "pay"
    BY DEF PayBack
  <1>2. o \in Orders /\ i \in DOMAIN payments[o] /\ k \in DOMAIN returns[o]
    BY <1>1, PayTask
  <1>3. LP!Settle(o, i, s, value)
    BY DEF PayBack, Lifecycle!Settle, LP!Settle, Lifecycle!Settled, LP!Settled
  <1>4. /\ status' = [status EXCEPT ![o] = IF full THEN "REFUNDED" ELSE "RETURNED"]
        /\ UNCHANGED <<shipment, request>>
    BY DEF PayBack
  <1>5. s = "REFUNDED" => task[r].already + value >= Amount
    BY DEF Full
  <1>6. PaidWith(o, i, task[r].already, value, s)
    BY <1>3, <1>4, <1>5 DEF PaidWith
  <1> QED BY <1>1, <1>2, <1>6

LEMMA PayBackCore ==
  ASSUME MoneyInv, NEW r \in Requests, PayBack(r)
  PROVE  LP!Core' /\ \A o \in Orders : \A i \in DOMAIN payments[o] : LP!Grown(o, i)
  <1>1. PICK o \in Orders : \E i \in DOMAIN payments[o], k \in DOMAIN returns[o],
             s \in {"REFUNDED", "PARTIALLY_REFUNDED"} :
           /\ task[r].op = "pay" /\ task[r].order = o /\ task[r].payment = i /\ task[r].return = k
           /\ PaidWith(o, i, task[r].already, Value(returns[o][k].lines), s)
    BY PayBackIs
  <1>2. PICK i \in DOMAIN payments[o], k \in DOMAIN returns[o],
             s \in {"REFUNDED", "PARTIALLY_REFUNDED"}, n \in Nat :
           /\ task[r].op = "pay" /\ task[r].order = o /\ task[r].payment = i /\ task[r].return = k
           /\ PaidWith(o, i, task[r].already, n, s)
    BY <1>1, PayTask
  <1>3. LP!Core /\ LP!TypeOK /\ TasksAgree
    BY DEF MoneyInv, LP!Core
  <1>4. s \in LP!PaymentStatus /\ LP!Settle(o, i, s, n)
    BY <1>2 DEF PaidWith, LP!PaymentStatus
  <1>5. payments[o][i] \in LP!Payment /\ payments[o][i].refunded \in Nat
    BY <1>3, LifecycleAssumptions, LP!RefundedNat
  <1>6. LP!Sound(LP!Settled(payments[o][i], s, n))
    <2>1. /\ LP!Settled(payments[o][i], s, n).status = s
          /\ LP!Settled(payments[o][i], s, n).refunded = payments[o][i].refunded + n
      <3>1. \A p \in LP!Payment :
              /\ LP!Settled(p, s, n).status = s
              /\ LP!Settled(p, s, n).refunded = p.refunded + n
        BY <1>4, LifecycleAssumptions, LP!SettledPayment
      <3> QED BY <1>5, <3>1
    <2>2. task[r].already \in Nat /\ task[r].already <= payments[o][i].refunded
      BY <1>2, <1>3 DEF TasksAgree, PayAgrees
    <2>3. s = "REFUNDED" => task[r].already + n >= Amount
      BY <1>2 DEF PaidWith
    <2>4. s = "REFUNDED" => payments[o][i].refunded + n >= Amount
      BY <1>5, <2>2, <2>3, AmountAssumption
    <2> QED BY <2>1, <2>4 DEF LP!Sound
  <1>7. LP!Placed(o)
    <2>1. payments[o] # <<>>
      BY <1>2, <1>3 DEF LP!TypeOK
    <2> QED BY <1>3, <2>1 DEF LP!Core, LP!PaidOnPlacing
  <1>8. \A p \in Orders : status'[p] = IF p = o THEN (IF s = "REFUNDED" THEN "REFUNDED" ELSE "RETURNED")
                                        ELSE status[p]
    BY <1>2, <1>3 DEF PaidWith, LP!TypeOK
  <1>9. \A p \in Orders : LP!Placed(p) <=> LP!Placed(p)'
    BY <1>7, <1>8 DEF LP!Placed
  <1>10. request' = request /\ shipment' = shipment
    BY <1>2 DEF PaidWith
  <1>11. /\ payments' \in [Orders -> Seq(LP!Payment)]
         /\ LP!PaymentsSound'
         /\ LP!RequestsAgree'
         /\ \A p \in Orders : payments'[p] # <<>> <=> payments[p] # <<>>
         /\ \A p \in Orders : p # o => payments'[p] = payments[p]
    BY <1>3, <1>4, <1>6, <1>9, <1>10, LifecycleAssumptions, LP!SettleKeeps
  <1>12. LP!TypeOK'
    BY <1>2, <1>3, <1>10, <1>11 DEF LP!TypeOK, PaidWith, LP!OrderStatus
  <1>13. LP!PaidOnPlacing'
    BY <1>3, <1>9, <1>11 DEF LP!Core, LP!PaidOnPlacing
  <1>14. LP!CancelledNotPaid'
    BY <1>3, <1>8, <1>11 DEF LP!Core, LP!CancelledNotPaid, LP!PaymentsIn
  <1>15. ASSUME NEW p \in Orders, NEW j \in DOMAIN payments[p] PROVE LP!Grown(p, j)
    BY <1>3, <1>4, LifecycleAssumptions, LP!SettleGrows
  <1> QED BY <1>11, <1>12, <1>13, <1>14, <1>15 DEF LP!Core

LEMMA MoneyKept ==
  ASSUME MoneyInv, [Next]_vars
  PROVE  MoneyInv'
  <1>1. PaidInv'
    BY PaidKept DEF MoneyInv
  <1>2. LP!Core' /\ \A o \in Orders : \A i \in DOMAIN payments[o] : LP!Grown(o, i)
    <2>1. CASE OtherStep
      BY <2>1, LifecycleAssumptions, LP!StepKeeps, LP!PaymentsGrow
      DEF OtherStep, MoneyInv, LP!lifecycleVars
    <2>2. CASE \E r \in Requests : PayBack(r)
      BY <2>2, PayBackCore
    <2>3. CASE UNCHANGED lifecycleVars
      BY <2>3, LifecycleAssumptions, LP!StepKeeps, LP!PaymentsGrow
      DEF MoneyInv, lifecycleVars, LP!lifecycleVars
    <2> QED BY <2>1, <2>2, <2>3, StepIs
  <1>3. ASSUME \A r \in Requests : task'[r] \in {task[r], NoTask},
               task' = [r \in Requests |-> task'[r]]
        PROVE  task' \in [Requests -> Task] /\ TasksAgree'
    <2>1. \A r \in Requests : task'[r] \in Task
      BY <1>3 DEF MoneyInv, Task
    <2> QED BY <1>2, <1>3, <2>1, AgreeKept
  <1>4. ASSUME NEW r \in Requests, NEW t \in Task, task' = [task EXCEPT ![r] = t],
               PayAgrees(t), UNCHANGED payments
        PROVE  task' \in [Requests -> Task] /\ TasksAgree'
    <2>1. \A s \in Requests : task'[s] = IF s = r THEN t ELSE task[s]
      BY <1>4 DEF MoneyInv
    <2> QED BY <1>4, <2>1 DEF MoneyInv, TasksAgree, PayAgrees
  <1>5. UNCHANGED task => task' \in [Requests -> Task] /\ TasksAgree'
    BY <1>3 DEF MoneyInv
  <1>6. ASSUME NEW r \in Requests, End(r) PROVE task' \in [Requests -> Task] /\ TasksAgree'
    BY <1>3, <1>6 DEF End, MoneyInv
  <1>7. ASSUME NEW o \in Orders, ReturnStep(o) PROVE task' \in [Requests -> Task] /\ TasksAgree'
    <2>1. ASSUME NEW r \in Requests, NEW k \in DOMAIN returns[o], OpenReturn(r, o, k)
          PROVE  task' \in [Requests -> Task] /\ TasksAgree'
      <3> DEFINE t == [op |-> "open", order |-> o, return |-> k]
      <3>1. k \in Nat
        BY DEF MoneyInv, PaidInv, ReturnsType
      <3>2. t \in Task /\ PayAgrees(t)
        BY <3>1 DEF Task, PayAgrees
      <3>3. task' = [task EXCEPT ![r] = t] /\ UNCHANGED payments
        BY <2>1 DEF OpenReturn, Begin, lifecycleVars
      <3> QED BY <1>4, <3>2, <3>3
    <2> QED BY <1>5, <1>7, <2>1 DEF ReturnStep, Decide
  <1>8. ASSUME NEW r \in Requests, TaskStep(r) PROVE task' \in [Requests -> Task] /\ TasksAgree'
    <2>1. ASSUME NEW o \in Orders, NEW lines \in Forms, CreateRead(r, o, lines)
          PROVE  task' \in [Requests -> Task] /\ TasksAgree'
      <3> DEFINE t == [op |-> "create", order |-> o, lines |-> lines]
      <3>1. t \in Task /\ PayAgrees(t)
        BY FormsAssumption DEF Task, PayAgrees
      <3>2. task' = [task EXCEPT ![r] = t] /\ UNCHANGED payments
        BY <2>1 DEF CreateRead, Begin, lifecycleVars
      <3> QED BY <1>4, <3>1, <3>2
    <2>2. CASE LockReturn(r)
      <3>1. task[r].op = "open" /\ UNCHANGED payments
        BY <2>2 DEF LockReturn, lifecycleVars
      <3>2. PICK o \in Orders, k \in Nat : o = task[r].order /\ k = task[r].return
        BY <3>1 DEF MoneyInv, PaidInv, ReturnsType, WellFormed
      <3>3. PICK i \in DOMAIN payments[o] :
              task' = [task EXCEPT ![r] =
                         [op |-> "pay", order |-> o, return |-> k, payment |-> i,
                          already |-> payments[o][i].refunded]]
        BY <2>2, <3>2 DEF LockReturn, Lifecycle!PaymentsIn
      <3> DEFINE t == [op |-> "pay", order |-> o, return |-> k, payment |-> i,
                       already |-> payments[o][i].refunded]
      <3>4. payments[o][i].refunded \in Nat /\ i \in Nat
        BY LifecycleAssumptions, LP!RefundedNat DEF MoneyInv, LP!Core, LP!TypeOK
      <3>5. t \in Task /\ PayAgrees(t)
        BY <3>4 DEF Task, PayAgrees
      <3> HIDE DEF t
      <3> QED BY <1>4, <3>1, <3>3, <3>5 DEF t
    <2> QED BY <1>6, <1>8, <2>1, <2>2 DEF TaskStep, CreateWrite, PayBack, GiveUp
  <1>9. task' \in [Requests -> Task] /\ TasksAgree'
    BY <1>5, <1>7, <1>8 DEF Next, LifecycleStep, vars
  <1> QED BY <1>1, <1>2, <1>9 DEF MoneyInv

LEMMA MoneyCorrect == Spec => []MoneyInv
  BY InitMoney, MoneyKept, PTL DEF Spec

\* Orders, payments, returns and the requests under way keep their types.
THEOREM ReturnsTypeCorrect == Spec => []TypeOK
  <1>1. MoneyInv => TypeOK
    BY SameTerms DEF MoneyInv, LP!Core, PaidInv, ReturnsType, TypeOK
  <1> QED BY <1>1, MoneyCorrect, PTL

\* A payment that is REFUNDED was paid back in full, with returns paid back
\* beside the other services' refunds, and no cancelled order has a PAID one.
THEOREM PaymentsCorrect == Spec => []PaymentsSound
  <1>1. LP!Core => Lifecycle!RefundedIsFull
    BY DEF LP!Core, LP!PaymentsSound, LP!Sound, Lifecycle!RefundedIsFull, Lifecycle!PaymentsIn
  <1>2. MoneyInv => PaymentsSound
    BY <1>1, SameTerms DEF MoneyInv, LP!Core, PaymentsSound
  <1> QED BY <1>2, MoneyCorrect, PTL

-----------------------------------------------------------------------------
(* What overlapping refunds can pay back too much.                         *)

\* Of n refunded of a payment and what the requests in B are yet to pay back of
\* it, owed[r] each: either n is within the amounts of the requests not in B, or
\* what one of B owes was read to be within one amount more.
Budgeted(n, B, owed) ==
  LET idle == Cardinality(Requests \ B)
  IN \/ n <= idle * Amount
     \/ \E r \in B : n + owed[r] <= (idle + 1) * Amount

Owing == [Requests -> 0 .. Amount]

LEMMA IdleCounts ==
  ASSUME NEW B \in SUBSET Requests
  PROVE  /\ Cardinality(Requests \ B) \in Nat
         /\ Cardinality(Requests) \in Nat
         /\ Cardinality(Requests \ B) <= Cardinality(Requests)
         /\ B # {} => Cardinality(Requests \ B) + 1 <= Cardinality(Requests)
         /\ \A r \in B : Cardinality(Requests \ (B \ {r})) = Cardinality(Requests \ B) + 1
  <1>1. IsFiniteSet(Requests \ B) /\ IsFiniteSet(Requests)
    BY RequestsAssumption, FS_Subset
  <1>2. /\ Cardinality(Requests \ B) \in Nat /\ Cardinality(Requests) \in Nat
        /\ Cardinality(Requests \ B) <= Cardinality(Requests)
    BY <1>1, FS_CardinalityType, FS_Subset
  <1>3. B # {} => Cardinality(Requests \ B) # Cardinality(Requests)
    <2>1. B # {} => Requests \ B # Requests
      OBVIOUS
    <2> QED BY <1>1, <2>1, FS_Subset
  <1>4. ASSUME NEW r \in B
        PROVE  Cardinality(Requests \ (B \ {r})) = Cardinality(Requests \ B) + 1
    <2>1. Requests \ (B \ {r}) = (Requests \ B) \cup {r} /\ r \notin Requests \ B
      OBVIOUS
    <2> QED BY <1>1, <2>1, FS_AddElement
  <1>5. B # {} => Cardinality(Requests \ B) + 1 <= Cardinality(Requests)
    BY <1>2, <1>3
  <1> QED BY <1>2, <1>4, <1>5

LEMMA AmountsAdd ==
  ASSUME NEW n \in Nat
  PROVE  (n + 1) * Amount = n * Amount + Amount /\ n * Amount \in Nat
  <1> QED BY AmountAssumption, ProductNat

\* A payment never gives back more than an amount for each request.
LEMMA BudgetEnough ==
  ASSUME NEW n \in Nat, NEW B \in SUBSET Requests, NEW owed \in Owing, Budgeted(n, B, owed)
  PROVE  n <= Cardinality(Requests) * Amount
  <1> DEFINE idle == Cardinality(Requests \ B)
             all == Cardinality(Requests)
  <1>1. idle \in Nat /\ all \in Nat /\ idle <= all /\ (B # {} => idle + 1 <= all)
    BY IdleCounts
  <1>2. n <= idle * Amount \/ \E r \in B : n + owed[r] <= (idle + 1) * Amount
    BY DEF Budgeted
  <1> HIDE DEF idle, all
  <1> DEFINE few == idle * Amount
             more == (idle + 1) * Amount
             most == all * Amount
  <1>3. few <= most /\ few \in Nat /\ most \in Nat
    BY <1>1, AmountAssumption, ProductGrows, ProductNat
  <1>4. ASSUME B # {} PROVE more <= most /\ more \in Nat
    <2>1. idle + 1 \in Nat /\ idle + 1 <= all
      BY <1>1, <1>4
    <2> QED BY <1>1, <2>1, AmountAssumption, ProductGrows, ProductNat
  <1>5. n <= few \/ \E r \in B : n + owed[r] <= more
    BY <1>2
  <1>6. \A r \in B : owed[r] \in Nat
    BY AmountAssumption DEF Owing
  <1> HIDE DEF few, more, most, Owing
  <1>7. n <= most
    BY <1>3, <1>4, <1>5, <1>6
  <1> QED BY <1>7 DEF most, all

\* Nothing refunded is within any budget.
LEMMA BudgetNone ==
  ASSUME NEW B \in SUBSET Requests, NEW owed PROVE Budgeted(0, B, owed)
  <1>1. Cardinality(Requests \ B) * Amount \in Nat
    BY IdleCounts, AmountsAdd
  <1> QED BY <1>1 DEF Budgeted

\* Only what the requests of B owe matters.
LEMMA BudgetSame ==
  ASSUME NEW n, NEW B, NEW owed, NEW owed2, \A r \in B : owed2[r] = owed[r],
         Budgeted(n, B, owed)
  PROVE  Budgeted(n, B, owed2)
  BY DEF Budgeted

\* A request reads what remains, and is to pay back no more.
LEMMA BudgetRead ==
  ASSUME NEW n \in Nat, NEW B \in SUBSET Requests, NEW r \in B, NEW owed \in Owing,
         n + owed[r] <= Amount
  PROVE  Budgeted(n, B, owed)
  <1> DEFINE idle == Cardinality(Requests \ B)
  <1>1. idle \in Nat
    BY IdleCounts
  <1>2. owed[r] \in Nat
    BY AmountAssumption DEF Owing
  <1> HIDE DEF idle, Owing
  <1> DEFINE least == idle * Amount
  <1>3. (idle + 1) * Amount = least + Amount /\ least \in Nat
    BY <1>1, AmountsAdd
  <1> HIDE DEF least
  <1>4. n + owed[r] <= least + Amount
    BY <1>2, <1>3, AmountAssumption
  <1> QED BY <1>3, <1>4 DEF Budgeted, idle

\* A request ends, having paid back what it owed, or nothing.
LEMMA BudgetEnd ==
  ASSUME NEW n \in Nat, NEW B \in SUBSET Requests, NEW r \in B, NEW owed \in Owing,
         Budgeted(n, B, owed), NEW m \in {n, n + owed[r]}
  PROVE  Budgeted(m, B \ {r}, owed)
  <1> DEFINE idle == Cardinality(Requests \ B)
             idle2 == Cardinality(Requests \ (B \ {r}))
  <1>1. idle \in Nat /\ idle2 = idle + 1
    BY IdleCounts
  <1>2. \A s \in B : owed[s] \in Nat /\ owed[s] <= Amount
    BY AmountAssumption DEF Owing
  <1>3. n <= idle * Amount \/ \E s \in B : n + owed[s] <= (idle + 1) * Amount
    BY DEF Budgeted
  <1> HIDE DEF idle, idle2, Owing
  <1> DEFINE least == idle * Amount
  <1>4. /\ (idle + 1) * Amount = least + Amount /\ least \in Nat
        /\ idle2 * Amount = least + Amount
        /\ (idle2 + 1) * Amount = least + Amount + Amount
    <2>1. (idle2 + 1) * Amount = idle2 * Amount + Amount
      BY <1>1, AmountsAdd
    <2> QED BY <1>1, <2>1, AmountsAdd
  <1>5. n <= least \/ \E s \in B : n + owed[s] <= least + Amount
    BY <1>3, <1>4
  <1> HIDE DEF least
  <1>6. m \in Nat /\ m <= n + Amount /\ m <= n + owed[r]
    BY <1>2, AmountAssumption
  <1>7. CASE n <= least
    <2>1. m <= least + Amount
      BY <1>4, <1>6, <1>7, AmountAssumption
    <2> QED BY <1>4, <2>1 DEF Budgeted, idle2
  <1>8. CASE n + owed[r] <= least + Amount
    <2>1. m <= least + Amount
      BY <1>2, <1>4, <1>6, <1>8, AmountAssumption
    <2> QED BY <1>4, <2>1 DEF Budgeted, idle2
  <1>9. ASSUME NEW s \in B, s # r, n + owed[s] <= least + Amount
        PROVE  Budgeted(m, B \ {r}, owed)
    <2>1. m + owed[s] <= least + Amount + Amount
      BY <1>2, <1>4, <1>6, <1>9, AmountAssumption
    <2> QED BY <1>4, <1>9, <2>1 DEF Budgeted, idle2
  <1> QED BY <1>5, <1>7, <1>8, <1>9

\* A request is served by one of the two handlers.
OneHandler == \A r \in Requests : Free(r) \/ request[r] = LP!NoRequest \/ task[r] = NoTask

LEMMA FreeIs == \A r \in Requests : Free(r) <=> request[r] = LP!NoRequest /\ task[r] = NoTask
  BY SameTerms DEF Free

\* Tasks that are not there are not of a kind, nor requests.
LEMMA TaskIs ==
  ASSUME MoneyInv, NEW r \in Requests
  PROVE  /\ task[r] = NoTask <=> task[r].op = "none"
         /\ request[r] = LP!NoRequest <=> request[r].op = "none"
  BY DEF MoneyInv, Task, NoTask, LP!Core, LP!TypeOK, LP!Request, LP!NoRequest

LEMMA OneHandlerKept ==
  ASSUME MoneyInv, OneHandler, [Next]_vars
  PROVE  OneHandler'
  <1> USE SameTerms
  <1>1. CASE LifecycleStep
    <2>1. task' = task
      BY <1>1 DEF LifecycleStep
    <2>2. ASSUME NEW r \in Requests, request'[r] # request[r], request'[r] # LP!NoRequest
          PROVE  task[r] = NoTask
      <3>1. PICK s \in Requests, o \in Orders : Free(s) /\ LP!ReadStep(s, o)
        <4>1. ASSUME NEW o \in Orders, LP!OrderStep(o) PROVE FALSE
          BY <2>2, <4>1 DEF LP!OrderStep, LP!CreateOrder, LP!Cancel, LP!Collect, LP!UpdateShipment
        <4>2. ASSUME NEW s \in Requests, LP!WriteStep(s) PROVE FALSE
          <5>1. LP!End(s)
            BY <4>2 DEF LP!WriteStep, LP!ConfirmPaid, LP!ConfirmFailed, LP!StatusWrite,
               LP!CreateWrite, LP!RefundWrite, LP!Abandon
          <5> QED BY <2>2, <5>1 DEF LP!End, MoneyInv, LP!Core, LP!TypeOK
        <4> QED BY <1>1, <4>1, <4>2, SameOrderSteps, SameReadSteps, SameWriteSteps
                DEF LifecycleStep
      <3>2. \E q : request' = [request EXCEPT ![s] = q]
        BY <3>1 DEF LP!ReadStep, LP!ConfirmRead, LP!StatusRead, LP!CreateRead, LP!RefundRead,
           LP!Begin
      <3>3. r = s
        BY <2>2, <3>2 DEF MoneyInv, LP!Core, LP!TypeOK
      <3> QED BY <3>1, <3>3 DEF Free
    <2>3. \A r \in Requests : request'[r] = LP!NoRequest \/ task'[r] = NoTask
      BY <2>1, <2>2, FreeIs DEF OneHandler
    <2> QED BY <2>3 DEF OneHandler
  <1>2. ASSUME UNCHANGED request,
               \A r \in Requests : task'[r] \in {task[r], NoTask} \/ request[r] = LP!NoRequest
        PROVE  OneHandler'
    <2>1. \A r \in Requests : request'[r] = LP!NoRequest \/ task'[r] = NoTask
      BY <1>2, FreeIs DEF OneHandler
    <2> QED BY <2>1 DEF OneHandler
  <1>3. ASSUME NEW r \in Requests, NEW t, Begin(r, t) PROVE OneHandler'
    <2>1. UNCHANGED request /\ request[r] = LP!NoRequest
          /\ \A s \in Requests : s # r => task'[s] = task[s]
      BY <1>3 DEF Begin, Free, lifecycleVars, MoneyInv
    <2> QED BY <1>2, <2>1
  <1>4. ASSUME NEW r \in Requests, UNCHANGED request, End(r) PROVE OneHandler'
    BY <1>2, <1>4 DEF End, MoneyInv
  <1>5. ASSUME NEW o \in Orders, ReturnStep(o) PROVE OneHandler'
    <2>1. ASSUME NEW k \in DOMAIN returns[o], NEW to \in Decisions, Decide(o, k, to)
          PROVE  OneHandler'
      BY <1>2, <2>1 DEF Decide, lifecycleVars
    <2> QED BY <1>3, <1>5, <2>1 DEF ReturnStep, OpenReturn
  <1>6. ASSUME NEW r \in Requests, TaskStep(r) PROVE OneHandler'
    <2>1. CASE LockReturn(r)
      <3>1. request[r] = LP!NoRequest
        BY <2>1, TaskIs, FreeIs DEF LockReturn, OneHandler
      <3>2. UNCHANGED request /\ \A s \in Requests : s # r => task'[s] = task[s]
        BY <2>1 DEF LockReturn, lifecycleVars, MoneyInv
      <3> QED BY <1>2, <3>1, <3>2
    <2>2. CASE CreateWrite(r) \/ GiveUp(r)
      BY <1>4, <2>2 DEF CreateWrite, GiveUp, lifecycleVars
    <2>3. CASE PayBack(r)
      BY <1>4, <2>3 DEF PayBack
    <2> QED BY <1>3, <1>6, <2>1, <2>2, <2>3 DEF TaskStep, CreateRead
  <1>7. CASE UNCHANGED vars
    BY <1>2, <1>7 DEF vars
  <1> QED BY <1>1, <1>5, <1>6, <1>7 DEF Next

\* No step changes the lines of a return.
LEMMA LinesStay ==
  ASSUME MoneyInv, [Next]_vars, NEW o \in Orders, NEW k \in DOMAIN returns[o]
  PROVE  k \in DOMAIN returns'[o] /\ returns'[o][k].lines = returns[o][k].lines
  <1> DEFINE Stays == k \in DOMAIN returns'[o] /\ returns'[o][k].lines = returns[o][k].lines
  <1>1. returns \in [Orders -> Seq(Return)] /\ returns[o][k] \in Return
    BY DEF MoneyInv, PaidInv, ReturnsType
  <1>2. UNCHANGED returns => Stays
    OBVIOUS
  <1>3. CASE LifecycleStep \/ UNCHANGED vars
    BY <1>2, <1>3 DEF LifecycleStep, vars
  <1>4. ASSUME NEW p \in Orders, ReturnStep(p) PROVE Stays
    <2>1. ASSUME NEW j \in DOMAIN returns[p], NEW to \in Decisions, Decide(p, j, to) PROVE Stays
      <3>1. returns' = [returns EXCEPT ![p] = [returns[p] EXCEPT ![j] =
                          [returns[p][j] EXCEPT !.status = to]]]
        BY <2>1 DEF Decide
      <3>2. returns'[o] = IF o = p THEN [returns[p] EXCEPT ![j] =
                                          [returns[p][j] EXCEPT !.status = to]]
                          ELSE returns[o]
        BY <1>1, <3>1
      <3>3. [returns[o][k] EXCEPT !.status = to].lines = returns[o][k].lines
        BY <1>1 DEF Return
      <3>4. DOMAIN returns'[o] = DOMAIN returns[o]
        BY <1>1, <3>2
      <3>5. CASE o = p /\ j = k
        BY <3>2, <3>3, <3>4, <3>5
      <3>6. CASE o # p \/ j # k
        BY <3>2, <3>4, <3>6
      <3> QED BY <3>5, <3>6
    <2> QED BY <1>2, <1>4, <2>1 DEF ReturnStep, OpenReturn, Begin
  <1>5. ASSUME NEW r \in Requests, TaskStep(r) PROVE Stays
    <2>1. CASE CreateWrite(r)
      <3>1. PICK p, new : returns' = [returns EXCEPT ![p] = Append(returns[p], new)]
        BY <2>1 DEF CreateWrite
      <3>2. returns'[o] = IF o = p THEN Append(returns[o], new) ELSE returns[o]
        BY <1>1, <3>1
      <3>3. returns[o] \in Seq(Return)
        BY <1>1
      <3>4. k \in 1 .. Len(returns[o]) /\ Len(returns[o]) \in Nat
        BY <3>3
      <3>5. /\ DOMAIN Append(returns[o], new) = 1 .. Len(returns[o]) + 1
            /\ Append(returns[o], new)[k] = returns[o][k]
        BY <3>3, <3>4
      <3> QED BY <3>2, <3>4, <3>5
    <2>2. CASE PayBack(r)
      <3>1. PICK p, j : returns' = [returns EXCEPT ![p] = [returns[p] EXCEPT ![j] =
                                      PaidBack(returns[p][j])]]
        BY <2>2 DEF PayBack
      <3>2. returns'[o] = IF o = p THEN [returns[p] EXCEPT ![j] = PaidBack(returns[p][j])]
                          ELSE returns[o]
        BY <1>1, <3>1
      <3>3. PaidBack(returns[o][k]).lines = returns[o][k].lines
        BY DEF PaidBack
      <3>4. DOMAIN returns'[o] = DOMAIN returns[o]
        BY <1>1, <3>2
      <3>5. CASE o = p /\ j = k
        BY <3>2, <3>3, <3>4, <3>5
      <3>6. CASE o # p \/ j # k
        BY <3>2, <3>4, <3>6
      <3> QED BY <3>5, <3>6
    <2> QED BY <1>2, <1>5, <2>1, <2>2 DEF TaskStep, CreateRead, LockReturn, GiveUp, Begin
  <1> QED BY <1>3, <1>4, <1>5 DEF Next

\* Request r is to pay back some of payment i of order o, as a refund or for a
\* return; and how much.
Owes(r, o, i) ==
  \/ request[r].op = "refund" /\ request[r].order = o /\ request[r].payment = i
  \/ task[r].op = "pay" /\ task[r].order = o /\ task[r].payment = i

Owed(r) ==
  IF request[r].op = "refund" THEN request[r].amount
  ELSE IF task[r].op = "pay" THEN Value(returns[task[r].order][task[r].return].lines)
  ELSE 0

Owers(o, i) == {r \in Requests : Owes(r, o, i)}

Debts == [r \in Requests |-> Owed(r)]

BudgetInv ==
  /\ OneHandler
  /\ Debts \in Owing
  /\ \A o \in Orders : \A i \in DOMAIN payments[o] :
       Budgeted(payments[o][i].refunded, Owers(o, i), Debts)

\* A request that owes nothing; and one that owes what it did.
Clear(r) == Owed(r) = 0 /\ \A o, i : ~Owes(r, o, i)

Still(r) == Owed(r)' = Owed(r) /\ \A o, i : Owes(r, o, i)' <=> Owes(r, o, i)

LEMMA ClearIs ==
  ASSUME NEW r \in Requests
  PROVE  /\ request[r].op # "refund" /\ task[r].op # "pay" => Clear(r)
         /\ request'[r].op # "refund" /\ task'[r].op # "pay" => Clear(r)'
  BY DEF Clear, Owed, Owes

LEMMA StillIs ==
  ASSUME MoneyInv, [Next]_vars, NEW r \in Requests,
         request'[r] = request[r], task'[r] = task[r]
  PROVE  Still(r)
  <1>1. ASSUME task[r].op = "pay"
        PROVE  returns'[task[r].order][task[r].return].lines
                 = returns[task[r].order][task[r].return].lines
    BY <1>1, PayTask, LinesStay
  <1>2. Owed(r)' = Owed(r)
    BY <1>1 DEF Owed
  <1>3. \A o, i : Owes(r, o, i)' <=> Owes(r, o, i)
    BY DEF Owes
  <1> QED BY <1>2, <1>3 DEF Still

LEMMA DebtsAre ==
  /\ \A r \in Requests : Debts[r] = Owed(r) /\ Debts'[r] = Owed(r)'
  /\ (\A r \in Requests : Owed(r) \in 0 .. Amount) <=> Debts \in Owing
  /\ (\A r \in Requests : Owed(r)' \in 0 .. Amount) <=> Debts' \in Owing
  <1>1. (\A r \in Requests : Owed(r) \in 0 .. Amount) <=> Debts \in Owing
    BY DEF Debts, Owing
  <1>2. (\A r \in Requests : Owed(r)' \in 0 .. Amount) <=> Debts' \in Owing
    BY DEF Debts, Owing
  <1> QED BY <1>1, <1>2 DEF Debts

\* Nothing is paid back, and no request starts to owe.
LEMMA QuietKeeps ==
  ASSUME MoneyInv, BudgetInv, OneHandler', LP!RefundedSame, NEW r,
         \A s \in Requests : Still(s) \/ (s = r /\ Clear(s)')
  PROVE  BudgetInv'
  <1>1. Debts' \in Owing
    <2>1. \A s \in Requests : Owed(s) \in 0 .. Amount
      BY DebtsAre DEF BudgetInv
    <2>2. \A s \in Requests : Owed(s)' \in 0 .. Amount
      BY <2>1, AmountAssumption DEF Still, Clear
    <2> QED BY <2>2, DebtsAre
  <1>2. ASSUME NEW o \in Orders, NEW i \in DOMAIN payments'[o]
        PROVE  Budgeted(payments'[o][i].refunded, Owers(o, i)', Debts')
    <2>1. CASE i \notin DOMAIN payments[o]
      <3>1. payments'[o][i].refunded = 0
        BY <2>1 DEF LP!RefundedSame
      <3>2. Owers(o, i)' \in SUBSET Requests
        BY DEF Owers
      <3> QED BY <3>1, <3>2, BudgetNone
    <2>2. CASE i \in DOMAIN payments[o]
      <3> DEFINE n == payments[o][i].refunded
                 B == Owers(o, i)
                 B2 == Owers(o, i)'
      <3>1. payments'[o][i].refunded = n /\ n \in Nat
        BY <2>2, LifecycleAssumptions, LP!RefundedNat DEF LP!RefundedSame, MoneyInv
      <3>2. B \in SUBSET Requests
        BY DEF Owers
      <3>3. Budgeted(n, B, Debts) /\ Debts \in Owing
        BY <2>2 DEF BudgetInv
      <3>4. \A s \in Requests : Still(s) => (s \in B2 <=> s \in B) /\ Debts'[s] = Debts[s]
        BY DebtsAre DEF Owers, Still
      <3>5. \A s \in Requests : Clear(s)' => s \notin B2
        BY DEF Owers, Clear
      <3>6. B2 \in SUBSET Requests
        BY DEF Owers
      <3> HIDE DEF n, B, B2
      <3>7. B2 \in {B, B \ {r}} /\ \A s \in B2 : Debts'[s] = Debts[s]
        BY <3>2, <3>4, <3>5, <3>6
      <3>8. Budgeted(n, B2, Debts)
        <4>1. CASE r \in B
          <5>1. Budgeted(n, B \ {r}, Debts)
            BY <3>1, <3>2, <3>3, <4>1, BudgetEnd
          <5> QED BY <3>3, <3>7, <5>1
        <4>2. CASE r \notin B
          BY <3>3, <3>7, <4>2
        <4> QED BY <4>1, <4>2
      <3>9. Budgeted(n, B2, Debts')
        BY <3>7, <3>8, BudgetSame
      <3> QED BY <3>1, <3>9 DEF B2
    <2> QED BY <2>1, <2>2
  <1> QED BY <1>1, <1>2 DEF BudgetInv

\* A request reads that as much as it is to pay back remains.
LEMMA StartKeeps ==
  ASSUME MoneyInv, BudgetInv, OneHandler', UNCHANGED payments,
         NEW r \in Requests, NEW q \in Orders, NEW j \in DOMAIN payments[q],
         \A o, i : ~Owes(r, o, i), \A o, i : Owes(r, o, i)' <=> o = q /\ i = j,
         Owed(r)' \in Nat, payments[q][j].refunded + Owed(r)' <= Amount,
         \A s \in Requests : s # r => Still(s)
  PROVE  BudgetInv'
  <1>1. Debts' \in Owing
    <2>1. \A s \in Requests : Owed(s) \in 0 .. Amount
      BY DebtsAre DEF BudgetInv
    <2>2. payments[q][j].refunded \in Nat
      BY LifecycleAssumptions, LP!RefundedNat DEF MoneyInv
    <2>3. Owed(r)' \in 0 .. Amount
      BY <2>2, AmountAssumption
    <2>4. \A s \in Requests : Owed(s)' \in 0 .. Amount
      BY <2>1, <2>3 DEF Still
    <2> QED BY <2>4, DebtsAre
  <1>2. ASSUME NEW o \in Orders, NEW i \in DOMAIN payments'[o]
        PROVE  Budgeted(payments'[o][i].refunded, Owers(o, i)', Debts')
    <2> DEFINE n == payments[o][i].refunded
               B == Owers(o, i)
               B2 == Owers(o, i)'
    <2>1. i \in DOMAIN payments[o] /\ n \in Nat /\ payments'[o][i].refunded = n
      BY LifecycleAssumptions, LP!RefundedNat DEF MoneyInv
    <2>2. B \in SUBSET Requests /\ B2 \in SUBSET Requests /\ r \notin B
      BY DEF Owers
    <2>3. Budgeted(n, B, Debts)
      BY <2>1 DEF BudgetInv
    <2>4. \A s \in Requests : s # r => (s \in B2 <=> s \in B) /\ Debts'[s] = Debts[s]
      BY DebtsAre DEF Owers, Still
    <2>5. r \in B2 <=> o = q /\ i = j
      BY DEF Owers
    <2>6. CASE o = q /\ i = j
      <3>1. r \in B2 /\ n + Debts'[r] <= Amount
        BY <2>5, <2>6, DebtsAre
      <3> HIDE DEF n, B2
      <3>2. Budgeted(n, B2, Debts')
        BY <1>1, <2>1, <2>2, <3>1, BudgetRead
      <3> QED BY <2>1, <3>2 DEF B2
    <2>7. CASE ~(o = q /\ i = j)
      <3> HIDE DEF n, B, B2
      <3>1. B2 = B
        <4>1. \A s \in Requests : s \in B2 <=> s \in B
          BY <2>2, <2>4, <2>5, <2>7
        <4> QED BY <2>2, <4>1
      <3>2. \A s \in B : Debts'[s] = Debts[s]
        BY <2>2, <2>4
      <3>3. Budgeted(n, B, Debts')
        BY <2>3, <3>2, BudgetSame
      <3> QED BY <2>1, <3>1, <3>3 DEF B2
    <2> QED BY <2>6, <2>7
  <1> QED BY <1>1, <1>2 DEF BudgetInv

\* A request pays back what it owes.
LEMMA RepaidKeeps ==
  ASSUME MoneyInv, BudgetInv, OneHandler',
         NEW r \in Requests, NEW q \in Orders, NEW j \in DOMAIN payments[q],
         \A o, i : Owes(r, o, i) <=> o = q /\ i = j, Clear(r)',
         NEW s \in LP!PaymentStatus, LP!Settle(q, j, s, Owed(r)),
         \A t \in Requests : t # r => Still(t)
  PROVE  BudgetInv'
  <1>1. \A t \in Requests : Owed(t) \in 0 .. Amount
    BY DebtsAre DEF BudgetInv
  <1>2. Debts' \in Owing
    <2>1. \A t \in Requests : Owed(t)' \in 0 .. Amount
      BY <1>1, AmountAssumption DEF Still, Clear
    <2> QED BY <2>1, DebtsAre
  <1>3. PICK n \in Nat : n = Owed(r)
    BY <1>1, AmountAssumption
  <1>4. /\ \A o \in Orders : DOMAIN payments'[o] = DOMAIN payments[o]
        /\ payments'[q][j] = LP!Settled(payments[q][j], s, n)
        /\ \A o \in Orders : \A i \in DOMAIN payments[o] :
             <<o, i>> # <<q, j>> => payments'[o][i] = payments[o][i]
    BY <1>3, LifecycleAssumptions, LP!SettleEffect DEF MoneyInv, LP!Core
  <1>5. payments'[q][j].refunded = payments[q][j].refunded + n
    <2>1. \A p \in LP!Payment : LP!Settled(p, s, n).refunded = p.refunded + n
      BY LifecycleAssumptions, LP!SettledPayment
    <2>2. payments[q][j] \in LP!Payment
      BY LifecycleAssumptions, LP!RefundedNat DEF MoneyInv
    <2> QED BY <1>4, <2>1, <2>2
  <1>6. ASSUME NEW o \in Orders, NEW i \in DOMAIN payments'[o]
        PROVE  Budgeted(payments'[o][i].refunded, Owers(o, i)', Debts')
    <2> DEFINE m == payments[o][i].refunded
               B == Owers(o, i)
               B2 == Owers(o, i)'
    <2>1. i \in DOMAIN payments[o]
      BY <1>4
    <2>2. m \in Nat
      BY <2>1, LifecycleAssumptions, LP!RefundedNat DEF MoneyInv
    <2>3. B \in SUBSET Requests /\ B2 \in SUBSET Requests /\ r \notin B2
      BY DEF Owers, Clear
    <2>4. Budgeted(m, B, Debts) /\ Debts \in Owing
      BY <2>1 DEF BudgetInv
    <2>5. \A t \in Requests : t # r => (t \in B2 <=> t \in B) /\ Debts'[t] = Debts[t]
      BY DebtsAre DEF Owers, Still
    <2>6. r \in B <=> o = q /\ i = j
      BY DEF Owers
    <2>7. Debts[r] = n
      BY <1>3, DebtsAre
    <2>8. B2 = B \ {r} /\ \A t \in B2 : Debts'[t] = Debts[t]
      <3> HIDE DEF B, B2
      <3> QED BY <2>3, <2>5
    <2>9. CASE o = q /\ i = j
      <3>1. payments'[o][i].refunded = m + Debts[r]
        BY <1>5, <2>7, <2>9
      <3> HIDE DEF m, B, B2
      <3>2. Budgeted(m + Debts[r], B \ {r}, Debts)
        BY <2>2, <2>3, <2>4, <2>6, <2>9, BudgetEnd
      <3>3. Budgeted(m + Debts[r], B2, Debts')
        BY <2>8, <3>2, BudgetSame
      <3> QED BY <3>1, <3>3 DEF B2
    <2>10. CASE ~(o = q /\ i = j)
      <3>1. payments'[o][i].refunded = m
        BY <1>4, <2>1, <2>10
      <3> HIDE DEF m, B, B2
      <3>2. B2 = B
        BY <2>6, <2>8, <2>10
      <3>3. Budgeted(m, B2, Debts')
        BY <2>4, <2>8, <3>2, BudgetSame
      <3> QED BY <3>1, <3>3 DEF B2
    <2> QED BY <2>9, <2>10
  <1> QED BY <1>2, <1>6 DEF BudgetInv

\* A request of the other services has no task, and a task no request.
LEMMA HandledOnce ==
  ASSUME MoneyInv, OneHandler, OneHandler', NEW r \in Requests
  PROVE  /\ request[r].op # "none" => task[r] = NoTask /\ task[r].op = "none"
         /\ task[r].op # "none" => request[r] = LP!NoRequest /\ request[r].op = "none"
         /\ request'[r].op # "none" => task'[r] = NoTask /\ task'[r].op = "none"
  <1>1. NoTask.op = "none" /\ LP!NoRequest.op = "none"
    BY DEF NoTask, LP!NoRequest
  <1>2. request[r] = LP!NoRequest \/ task[r] = NoTask
    BY FreeIs DEF OneHandler
  <1>3. request'[r] = LP!NoRequest \/ task'[r] = NoTask
    <2>1. Free(r)' => task'[r] = NoTask
      BY DEF Free
    <2> QED BY <2>1 DEF OneHandler
  <1> QED BY <1>1, <1>2, <1>3

LEMMA RefundReads ==
  ASSUME MoneyInv, BudgetInv, OneHandler', [Next]_vars, UNCHANGED <<returns, task>>,
         NEW r \in Requests, NEW q \in Orders, NEW j \in DOMAIN payments[q],
         NEW amount \in RefundAmounts \cup {Undefined}, LP!RefundRead(r, q, j, amount)
  PROVE  BudgetInv'
  <1> DEFINE already == payments[q][j].refunded
             refund == IF amount = Undefined THEN Amount - already ELSE amount
             new == [op |-> "refund", order |-> q, payment |-> j,
                     already |-> already, amount |-> refund]
  <1>1. already \in Nat
    BY LifecycleAssumptions, LP!RefundedNat DEF MoneyInv
  <1>2. refund \in Int
    BY <1>1, AmountAssumption, RefundAmountsAssumption
  <1>3. refund > 0 /\ refund <= Amount - already /\ LP!Begin(r, new)
    BY DEF LP!RefundRead, LP!Admissible
  <1>4. /\ payments' = payments
        /\ \A s \in Requests : request'[s] = IF s = r THEN new ELSE request[s]
    BY <1>3, LifecycleAssumptions, LP!BeginIs DEF MoneyInv
  <1>5. request[r].op = "none"
    BY <1>3 DEF LP!Begin, LP!NoRequest
  <1>6. new.op = "refund" /\ new.order = q /\ new.payment = j /\ new.amount = refund
    OBVIOUS
  <1> HIDE DEF new, refund
  <1>7. task[r].op = "none" /\ task'[r] = task[r]
    BY <1>4, <1>6, HandledOnce DEF BudgetInv
  <1>8. \A o, i : ~Owes(r, o, i)
    BY <1>5, <1>7 DEF Owes
  <1>9. (\A o, i : Owes(r, o, i)' <=> o = q /\ i = j) /\ Owed(r)' = refund
    BY <1>4, <1>6, <1>7 DEF Owes, Owed
  <1>10. refund \in Nat /\ already + refund <= Amount
    BY <1>1, <1>2, <1>3, AmountAssumption
  <1>11. \A s \in Requests : s # r => Still(s)
    BY <1>4, StillIs
  <1> QED BY <1>4, <1>8, <1>9, <1>10, <1>11, StartKeeps

LEMMA RefundWrites ==
  ASSUME MoneyInv, BudgetInv, OneHandler', [Next]_vars, UNCHANGED <<returns, task>>,
         NEW r \in Requests, LP!RefundWrite(r)
  PROVE  BudgetInv'
  <1>1. PICK s \in {"REFUNDED", "PARTIALLY_REFUNDED"} :
          /\ request[r].op = "refund" /\ LP!End(r)
          /\ LP!Settle(request[r].order, request[r].payment, s, request[r].amount)
    BY DEF LP!RefundWrite
  <1> DEFINE q == request[r].order
             j == request[r].payment
  <1>2. q \in Orders /\ j \in DOMAIN payments[q]
    BY <1>1, LifecycleAssumptions, LP!RefundOf DEF MoneyInv
  <1>3. task[r].op = "none" /\ task'[r].op = "none"
    BY <1>1, HandledOnce DEF BudgetInv
  <1>4. (\A o, i : Owes(r, o, i) <=> o = q /\ i = j) /\ Owed(r) = request[r].amount
    BY <1>1, <1>2, <1>3 DEF Owes, Owed
  <1>5. /\ request'[r] = LP!NoRequest
        /\ \A t \in Requests : t # r => request'[t] = request[t]
    BY <1>1 DEF LP!End, MoneyInv, LP!Core, LP!TypeOK
  <1>6. Clear(r)'
    BY <1>3, <1>5, ClearIs DEF LP!NoRequest
  <1>7. \A t \in Requests : t # r => Still(t)
    BY <1>5, StillIs
  <1>8. s \in LP!PaymentStatus
    BY DEF LP!PaymentStatus
  <1> QED BY <1>1, <1>2, <1>4, <1>6, <1>7, <1>8, RepaidKeeps

LEMMA ReturnLocks ==
  ASSUME MoneyInv, BudgetInv, OneHandler', [Next]_vars, NEW r \in Requests, LockReturn(r)
  PROVE  BudgetInv'
  <1>1. task[r].op = "open" /\ UNCHANGED <<lifecycleVars, returns>>
    BY DEF LockReturn
  <1>2. UNCHANGED <<payments, request, returns>>
    BY <1>1 DEF lifecycleVars
  <1>3. PICK q \in Orders : task[r].order = q /\ task[r].return \in DOMAIN returns[q]
    BY <1>1 DEF MoneyInv, PaidInv, ReturnsType, WellFormed, RowsHeld, Held
  <1>4. PICK k \in DOMAIN returns[q] : task[r].return = k
    BY <1>3
  <1>5. PICK j \in DOMAIN payments[q] :
          /\ Covered(Value(returns[q][k].lines), payments[q][j].refunded)
          /\ task' = [task EXCEPT ![r] =
                        [op |-> "pay", order |-> q, return |-> k, payment |-> j,
                         already |-> payments[q][j].refunded]]
    BY <1>3, <1>4 DEF LockReturn, Lifecycle!PaymentsIn
  <1> DEFINE value == Value(returns[q][k].lines)
  <1>6. value \in Nat
    <2>1. returns[q][k] \in Return
      BY DEF MoneyInv, PaidInv, ReturnsType
    <2>2. returns[q][k].lines \in Seq(Line)
      BY <2>1 DEF Return
    <2> QED BY <2>2, ValueNat
  <1>7. payments[q][j].refunded + value <= Amount
    <2>1. payments[q][j].refunded \in Nat
      BY LifecycleAssumptions, LP!RefundedNat DEF MoneyInv
    <2> QED BY <1>5, <1>6, <2>1, AmountAssumption DEF Covered
  <1>8. /\ task'[r].op = "pay" /\ task'[r].order = q /\ task'[r].return = k
        /\ task'[r].payment = j
        /\ \A s \in Requests : s # r => task'[s] = task[s]
    BY <1>5 DEF MoneyInv
  <1>9. request[r].op = "none"
    BY <1>1, HandledOnce DEF BudgetInv
  <1>10. \A o, i : ~Owes(r, o, i)
    BY <1>1, <1>9 DEF Owes
  <1>11. (\A o, i : Owes(r, o, i)' <=> o = q /\ i = j) /\ Owed(r)' = value
    BY <1>2, <1>8, <1>9 DEF Owes, Owed
  <1>12. \A s \in Requests : s # r => Still(s)
    BY <1>2, <1>8, StillIs
  <1> HIDE DEF value
  <1> QED BY <1>2, <1>6, <1>7, <1>10, <1>11, <1>12, StartKeeps

LEMMA ReturnPays ==
  ASSUME MoneyInv, BudgetInv, OneHandler', [Next]_vars, NEW r \in Requests, PayBack(r)
  PROVE  BudgetInv'
  <1>1. PICK q \in Orders : \E j \in DOMAIN payments[q], k \in DOMAIN returns[q],
             s \in {"REFUNDED", "PARTIALLY_REFUNDED"} :
           /\ task[r].op = "pay" /\ task[r].order = q /\ task[r].payment = j /\ task[r].return = k
           /\ PaidWith(q, j, task[r].already, Value(returns[q][k].lines), s)
    BY PayBackIs
  <1>2. PICK j \in DOMAIN payments[q], k \in DOMAIN returns[q],
             s \in {"REFUNDED", "PARTIALLY_REFUNDED"} :
           /\ task[r].op = "pay" /\ task[r].order = q /\ task[r].payment = j /\ task[r].return = k
           /\ PaidWith(q, j, task[r].already, Value(returns[q][k].lines), s)
    BY <1>1
  <1>3. request[r].op = "none" /\ UNCHANGED request
    BY <1>2, HandledOnce DEF BudgetInv, PaidWith
  <1>4. (\A o, i : Owes(r, o, i) <=> o = q /\ i = j) /\ Owed(r) = Value(returns[q][k].lines)
    BY <1>2, <1>3 DEF Owes, Owed
  <1>5. task'[r] = NoTask /\ \A t \in Requests : t # r => task'[t] = task[t]
    BY DEF PayBack, End, MoneyInv
  <1>6. Clear(r)'
    BY <1>3, <1>5, NothingToDo, ClearIs
  <1>7. \A t \in Requests : t # r => Still(t)
    BY <1>3, <1>5, StillIs
  <1>8. s \in LP!PaymentStatus /\ LP!Settle(q, j, s, Value(returns[q][k].lines))
    BY <1>2 DEF PaidWith, LP!PaymentStatus
  <1> QED BY <1>4, <1>6, <1>7, <1>8, RepaidKeeps

LEMMA BudgetKept ==
  ASSUME MoneyInv, BudgetInv, [Next]_vars
  PROVE  BudgetInv'
  <1>1. OneHandler'
    BY OneHandlerKept DEF BudgetInv
  <1>2. ASSUME NEW r, LP!RefundedSame,
               \A s \in Requests :
                 \/ request'[s] = request[s] /\ task'[s] = task[s]
                 \/ s = r /\ request'[r].op # "refund" /\ task'[r].op # "pay"
        PROVE  BudgetInv'
    BY <1>1, <1>2, StillIs, ClearIs, QuietKeeps
  <1>3. CASE OtherStep
    <2>1. UNCHANGED <<returns, task>>
      BY <1>3 DEF OtherStep
    <2>2. CASE \E r \in Requests : LP!RefundWrite(r)
      BY <1>1, <2>1, <2>2, RefundWrites
    <2>3. CASE \A r \in Requests : ~LP!RefundWrite(r)
      <3>1. LP!RefundedSame
        BY <1>3, <2>3, LifecycleAssumptions, LP!RefundedStays DEF OtherStep, MoneyInv
      <3>2. ASSUME UNCHANGED request PROVE BudgetInv'
        BY <1>2, <2>1, <3>1, <3>2
      <3>3. ASSUME NEW o \in Orders, LP!OrderStep(o) PROVE BudgetInv'
        BY <3>2, <3>3 DEF LP!OrderStep, LP!CreateOrder, LP!Cancel, LP!Collect, LP!UpdateShipment
      <3>4. ASSUME NEW r \in Requests, NEW new, new.op \notin {"refund", "none"},
                   LP!Begin(r, new)
            PROVE  BudgetInv'
        <4>1. \A s \in Requests : request'[s] = IF s = r THEN new ELSE request[s]
          BY <3>4, LifecycleAssumptions, LP!BeginIs DEF MoneyInv
        <4>2. task'[r].op = "none"
          BY <1>1, <3>4, <4>1, HandledOnce DEF BudgetInv
        <4>3. request'[r].op # "refund" /\ task'[r].op # "pay"
          BY <3>4, <4>1, <4>2
        <4> QED BY <1>2, <2>1, <3>1, <4>1, <4>3
      <3>5. ASSUME NEW r \in Requests, NEW o \in Orders, LP!ReadStep(r, o) PROVE BudgetInv'
        <4>1. ASSUME NEW i \in DOMAIN payments[o], NEW amount \in RefundAmounts \cup {Undefined},
                     LP!RefundRead(r, o, i, amount)
              PROVE  BudgetInv'
          BY <1>1, <2>1, <4>1, RefundReads
        <4>2. CASE LP!ConfirmRead(r, o)
          <5> DEFINE new == [op |-> "confirm", order |-> o, payment |-> Len(payments[o])]
          <5>1. LP!Begin(r, new) /\ new.op = "confirm"
            BY <4>2 DEF LP!ConfirmRead
          <5> HIDE DEF new
          <5> QED BY <3>4, <5>1
        <4>3. ASSUME NEW to \in LP!OrderStatus, LP!StatusRead(r, o, to) PROVE BudgetInv'
          <5> DEFINE new == [op |-> "status", order |-> o, to |-> to]
          <5>1. LP!Begin(r, new) /\ new.op = "status"
            BY <4>3 DEF LP!StatusRead
          <5> HIDE DEF new
          <5> QED BY <3>4, <5>1
        <4>4. CASE LP!CreateRead(r, o)
          <5> DEFINE new == [op |-> "create", order |-> o]
          <5>1. LP!Begin(r, new) /\ new.op = "create"
            BY <4>4 DEF LP!CreateRead
          <5> HIDE DEF new
          <5> QED BY <3>4, <5>1
        <4> QED BY <3>5, <4>1, <4>2, <4>3, <4>4 DEF LP!ReadStep
      <3>6. ASSUME NEW r \in Requests, LP!WriteStep(r) PROVE BudgetInv'
        <4>1. LP!End(r) /\ request[r] # LP!NoRequest
          BY <2>3, <3>6 DEF LP!WriteStep, LP!ConfirmPaid, LP!ConfirmFailed, LP!StatusWrite,
             LP!CreateWrite, LP!Abandon, LP!NoRequest
        <4>2. /\ request'[r] = LP!NoRequest
              /\ \A s \in Requests : s # r => request'[s] = request[s]
          BY <4>1 DEF LP!End, MoneyInv, LP!Core, LP!TypeOK
        <4>3. request'[r].op = "none" /\ task'[r].op = "none"
          BY <1>1, <2>1, <4>1, <4>2, TaskIs, HandledOnce DEF BudgetInv, LP!NoRequest
        <4> QED BY <1>2, <2>1, <3>1, <4>2, <4>3
      <3> QED BY <1>3, <3>2, <3>3, <3>5, <3>6 DEF OtherStep, LP!Next
    <2> QED BY <2>2, <2>3
  <1>4. ASSUME NEW r \in Requests, PayBack(r) PROVE BudgetInv'
    BY <1>1, <1>4, ReturnPays
  <1>5. CASE UNCHANGED lifecycleVars
    <2>1. LP!RefundedSame /\ UNCHANGED request
      BY <1>5 DEF LP!RefundedSame, lifecycleVars
    <2>2. ASSUME UNCHANGED task PROVE BudgetInv'
      BY <1>2, <2>1, <2>2
    <2>3. ASSUME NEW r \in Requests, NEW t, t.op # "pay", Begin(r, t) PROVE BudgetInv'
      <3>1. \A s \in Requests : task'[s] = IF s = r THEN t ELSE task[s]
        BY <2>3 DEF Begin, MoneyInv
      <3>2. request'[r].op # "refund" /\ task'[r].op # "pay"
        BY <2>1, <2>3, <3>1, FreeIs DEF Begin, LP!NoRequest
      <3> QED BY <1>2, <2>1, <3>1, <3>2
    <2>4. ASSUME NEW r \in Requests, End(r), task[r] # NoTask PROVE BudgetInv'
      <3>1. \A s \in Requests : task'[s] = IF s = r THEN NoTask ELSE task[s]
        BY <2>4 DEF End, MoneyInv
      <3>2. request'[r].op # "refund" /\ task'[r].op # "pay"
        BY <1>1, <2>1, <2>4, <3>1, TaskIs, HandledOnce, NothingToDo DEF BudgetInv
      <3> QED BY <1>2, <2>1, <3>1, <3>2
    <2>5. ASSUME NEW o \in Orders, ReturnStep(o) PROVE BudgetInv'
      <3>1. ASSUME NEW k \in DOMAIN returns[o], NEW r \in Requests, OpenReturn(r, o, k)
            PROVE  BudgetInv'
        <4> DEFINE t == [op |-> "open", order |-> o, return |-> k]
        <4>1. Begin(r, t) /\ t.op = "open"
          BY <3>1 DEF OpenReturn
        <4> HIDE DEF t
        <4> QED BY <2>3, <4>1
      <3> QED BY <2>2, <2>5, <3>1 DEF ReturnStep, Decide
    <2>6. ASSUME NEW r \in Requests, TaskStep(r) PROVE BudgetInv'
      <3>1. ASSUME NEW o \in Orders, NEW lines \in Forms, CreateRead(r, o, lines)
            PROVE  BudgetInv'
        <4> DEFINE t == [op |-> "create", order |-> o, lines |-> lines]
        <4>1. Begin(r, t) /\ t.op = "create"
          BY <3>1 DEF CreateRead
        <4> HIDE DEF t
        <4> QED BY <2>3, <4>1
      <3>2. CASE CreateWrite(r)
        BY <2>4, <3>2, NothingToDo DEF CreateWrite
      <3>3. CASE GiveUp(r)
        BY <2>4, <3>3 DEF GiveUp
      <3>4. CASE LockReturn(r)
        BY <1>1, <3>4, ReturnLocks
      <3> QED BY <1>4, <2>6, <3>1, <3>2, <3>3, <3>4 DEF TaskStep
    <2> QED BY <2>2, <2>5, <2>6 DEF Next, LifecycleStep, vars
  <1> QED BY <1>3, <1>4, <1>5, StepIs

\* However refunds and returns overlap, a payment gives back no more than what
\* was paid for each request that can be under way: a request that reads a
\* payment finds what it owes within the amount paid, whatever was paid back
\* beyond it, and until it writes only the others can add to that, each once.
THEOREM RefundsCorrect == Spec => []RefundsBounded
  <1>1. Init => BudgetInv
    <2> SUFFICES ASSUME Init PROVE BudgetInv
      OBVIOUS
    <2>1. LP!Init
      BY SameInit DEF Init
    <2>2. \A r \in Requests : request[r].op = "none" /\ task[r].op = "none"
      BY <2>1, NothingToDo DEF Init, LP!Init, LP!NoRequest
    <2>3. Debts \in Owing
      <3>1. \A r \in Requests : Owed(r) = 0
        BY <2>2 DEF Owed
      <3> QED BY <3>1, DebtsAre, AmountAssumption
    <2>4. OneHandler
      BY DEF Init, OneHandler
    <2>5. ASSUME NEW o \in Orders, NEW i \in DOMAIN payments[o] PROVE FALSE
      <3>1. payments[o] = <<>>
        BY <2>1 DEF LP!Init
      <3> QED BY <3>1
    <2> QED BY <2>3, <2>4, <2>5 DEF BudgetInv
  <1>2. MoneyInv /\ BudgetInv => RefundsBounded
    <2> SUFFICES ASSUME MoneyInv, BudgetInv, NEW o \in Orders, NEW i \in DOMAIN payments[o]
                 PROVE  payments[o][i].refunded <= Cardinality(Requests) * Amount
      BY DEF RefundsBounded
    <2>1. payments[o][i].refunded \in Nat
      BY LifecycleAssumptions, LP!RefundedNat DEF MoneyInv
    <2>2. Budgeted(payments[o][i].refunded, Owers(o, i), Debts) /\ Debts \in Owing
      BY DEF BudgetInv
    <2>3. Owers(o, i) \in SUBSET Requests
      BY DEF Owers
    <2> QED BY <2>1, <2>2, <2>3, BudgetEnough
  <1> QED BY <1>1, <1>2, MoneyCorrect, BudgetKept, PTL DEF Spec

-----------------------------------------------------------------------------
(* What a cart costs.                                                      *)

LEMMA MaxOfTwo ==
  ASSUME NEW a \in Int, NEW b \in Int
  PROVE  Max({a, b}) = IF a >= b THEN a ELSE b
  BY DEF Max

LEMMA MinOfTwo ==
  ASSUME NEW a \in Int, NEW b \in Int
  PROVE  Min({a, b}) = IF a <= b THEN a ELSE b
  BY DEF Min

\* Rounding keeps amounts in their order, and leaves whole cents alone.
LEMMA MoneyRounds ==
  /\ \A n \in Nat : Money(n, 100) \in Nat /\ Money(n, 10000) \in Nat
  /\ \A m, n \in Nat :
       m <= n => Money(m, 100) <= Money(n, 100) /\ Money(m, 10000) <= Money(n, 10000)
  /\ \A n \in Nat : Money(100 * n, 100) = n
  BY DEF Money

\* A price is there, on sale or not.
LEMMA PriceNat ==
  ASSUME NEW r \in PriceRow PROVE PriceOf(r) \in Nat
  BY PricesAssumption DEF PriceRow, PriceOf, Optional

LEMMA SubtotalNat ==
  ASSUME NEW rows \in [Variants -> PriceRow], NEW quantity \in [Variants -> Quantities]
  PROVE  Subtotal(rows, quantity) \in Nat
  <1> DEFINE h == [v \in Variants |-> PriceOf(rows[v]) * quantity[v]]
  <1>1. ASSUME NEW v \in Variants PROVE h[v] \in Nat
    <2>1. PriceOf(rows[v]) \in Nat /\ quantity[v] \in Nat
      BY PriceNat, PricesAssumption
    <2> QED BY <2>1, ProductNat
  <1>2. DOMAIN h = Variants
    OBVIOUS
  <1>3. Subtotal(rows, quantity) = Total(h, DOMAIN h)
    BY DEF Subtotal, SumFunction, Total
  <1> HIDE DEF h
  <1> QED BY <1>1, <1>2, <1>3, TotalNat, VariantsAssumption

\* No rate is negative, whatever the setting says.
LEMMA SettingsRead ==
  ASSUME setting \in Setting
  PROVE  /\ CheckoutSettings.fee \in Int
         /\ CheckoutSettings.fee = ReadNumber(setting.fee)
         /\ CheckoutSettings.threshold \in Int
         /\ CheckoutSettings.taxRate \in Nat
  <1>1. /\ setting.fee \in Optional(Int)
        /\ setting.threshold \in Optional(Int) /\ setting.rate \in Optional(Int)
    <2>1. setting.fee \in Fees /\ setting.threshold \in Thresholds /\ setting.rate \in Rates
      BY DEF Setting
    <2> QED BY <2>1, SettingsAssumption
  <1>2. \A value \in Optional(Int) : ReadNumber(value) \in Int
    BY DEF ReadNumber, Optional
  <1>3. \A value \in Int : NormalizeTaxRate(value) \in Nat
    BY MaxOfTwo DEF NormalizeTaxRate
  <1> QED BY <1>1, <1>2, <1>3 DEF CheckoutSettings

\* A coupon gives something, and never more than the goods cost.
LEMMA DiscountWithin ==
  ASSUME NEW k \in CouponRow, NEW s \in Nat
  PROVE  CouponDiscount(k, s) \in Nat /\ CouponDiscount(k, s) <= s
  <1> DEFINE raw == RawDiscount(k, s)
             capped == Capped(k, raw)
             given == Min({capped, 100 * s})
  <1>1. raw \in Nat
    <2>1. k.value \in Nat
      BY DEF CouponRow
    <2>2. s * k.value \in Nat /\ 100 * k.value \in Nat
      BY <2>1, ProductNat
    <2> QED BY <2>2 DEF RawDiscount
  <1> HIDE DEF raw
  <1>2. capped \in Nat
    <2>1. k.maxDiscountAmount # Null => k.maxDiscountAmount \in Nat
      BY DEF CouponRow, Optional, Amounts
    <2> QED BY <1>1, <2>1, MinOfTwo DEF Capped
  <1> HIDE DEF capped
  <1>3. given \in Nat /\ given <= 100 * s
    BY <1>2, MinOfTwo
  <1> HIDE DEF given
  <1>4. Money(given, 100) \in Nat /\ Money(given, 100) <= s
    <2>1. Money(given, 100) <= Money(100 * s, 100)
      BY <1>3, MoneyRounds
    <2> QED BY <1>3, <2>1, MoneyRounds
  <1>5. CouponDiscount(k, s) = IF k.type = "FREE_SHIPPING" THEN 0 ELSE Money(given, 100)
    BY DEF CouponDiscount, given, capped, raw
  <1> QED BY <1>4, <1>5

\* A coupon leaves the shipping as it is or makes it free.
LEMMA ShippingIs ==
  ASSUME setting \in Setting, NEW s \in Nat, NEW free \in BOOLEAN, NEW method \in Methods
  PROVE  LET c == CheckoutSettings
         IN /\ ShippingEstimate(s, c, free)[method] \in Int
            /\ ShippingEstimate(s, c, free)[method]
                 \in {ShippingEstimate(s, c, FALSE)[method], 0}
            /\ c.fee >= 0 => ShippingEstimate(s, c, FALSE)[method] >= 0
  <1> DEFINE c == CheckoutSettings
  <1>1. c.fee \in Int /\ c.threshold \in Int
    BY SettingsRead
  <1> HIDE DEF c
  <1>2. Max({c.fee * 2, 0}) \in Nat
    BY <1>1, MaxOfTwo
  <1>3. /\ ShippingEstimate(s, c, free)[method] \in Int
        /\ ShippingEstimate(s, c, free)[method] \in {ShippingEstimate(s, c, FALSE)[method], 0}
        /\ c.fee >= 0 => ShippingEstimate(s, c, FALSE)[method] >= 0
    BY <1>1, <1>2 DEF ShippingEstimate, Methods
  <1> QED BY <1>3 DEF c

\* The amounts of a cart, by name.
Usable(k, subtotal) == k # Null /\ CouponUsable(k, subtotal)
DiscountOf(k, subtotal) == IF Usable(k, subtotal) THEN CouponDiscount(k, subtotal) ELSE 0
ShippingOf(k, subtotal, method) ==
  ShippingEstimate(subtotal, CheckoutSettings,
                   Usable(k, subtotal) /\ k.type = "FREE_SHIPPING")[method]
TaxOf(taxable) == Money(taxable * CheckoutSettings.taxRate, 10000)

LEMMA AmountsOf ==
  ASSUME setting \in Setting, NEW s \in Nat, NEW k \in Optional(CouponRows),
         NEW method \in Methods
  PROVE  /\ DiscountOf(k, s) \in Nat /\ DiscountOf(k, s) <= s
         /\ ShippingOf(k, s, method) \in Int
         /\ ShippingOf(k, s, method)
              \in {ShippingEstimate(s, CheckoutSettings, FALSE)[method], 0}
  <1>1. Usable(k, s) => k \in CouponRow
    BY CouponsAssumption DEF Usable, Optional
  <1>2. DiscountOf(k, s) \in Nat /\ DiscountOf(k, s) <= s
    BY <1>1, DiscountWithin DEF DiscountOf
  <1> DEFINE free == Usable(k, s) /\ k.type = "FREE_SHIPPING"
  <1>3. free \in BOOLEAN
    BY DEF Usable, CouponUsable
  <1> HIDE DEF free
  <1>4. /\ ShippingEstimate(s, CheckoutSettings, free)[method] \in Int
        /\ ShippingEstimate(s, CheckoutSettings, free)[method]
             \in {ShippingEstimate(s, CheckoutSettings, FALSE)[method], 0}
    BY <1>3, ShippingIs
  <1> QED BY <1>2, <1>4 DEF ShippingOf, free

LEMMA TaxNat ==
  ASSUME setting \in Setting, NEW m \in Nat, NEW n \in Nat, m <= n
  PROVE  TaxOf(m) \in Nat /\ TaxOf(m) <= TaxOf(n)
  <1> DEFINE rate == CheckoutSettings.taxRate
  <1>1. rate \in Nat
    BY SettingsRead
  <1> HIDE DEF rate
  <1>2. m * rate \in Nat /\ n * rate \in Nat /\ m * rate <= n * rate
    BY <1>1, ProductNat, ProductGrows
  <1>3. Money(m * rate, 10000) \in Nat /\ Money(m * rate, 10000) <= Money(n * rate, 10000)
    BY <1>2, MoneyRounds
  <1> QED BY <1>3 DEF TaxOf, rate

\* What toCartResponse adds up is the subtotal less the discount, with shipping
\* and tax; only the shipping may be negative, and the total with it.
LEMMA TotalsAre ==
  ASSUME setting \in Setting, NEW rows \in [Variants -> PriceRow],
         NEW quantity \in [Variants -> Quantities],
         NEW k \in Optional(CouponRows), NEW method \in Methods
  PROVE  LET t == CartTotals(rows, quantity, k, method)
             s == Subtotal(rows, quantity)
         IN /\ t \in Totals
            /\ t.subtotal = s
            /\ t.discount = DiscountOf(k, s) /\ t.discount <= s
            /\ t.shipping = ShippingOf(k, s, method)
            /\ t.tax = TaxOf(s - DiscountOf(k, s))
            /\ t.total = s - DiscountOf(k, s) + t.shipping + t.tax
  <1> DEFINE s == Subtotal(rows, quantity)
             d == DiscountOf(k, s)
             f == ShippingOf(k, s, method)
             x == TaxOf(Max({s - d, 0}))
  <1>1. s \in Nat
    BY SubtotalNat
  <1>2. CartTotals(rows, quantity, k, method)
          = [subtotal |-> s, discount |-> d, shipping |-> f, tax |-> x,
             total |-> Max({s - d, 0}) + f + x]
    BY DEF CartTotals, DiscountOf, ShippingOf, TaxOf, Usable
  <1> HIDE DEF s
  <1>3. d \in Nat /\ d <= s /\ f \in Int
    BY <1>1, AmountsOf
  <1> HIDE DEF d, f
  <1>4. Max({s - d, 0}) = s - d /\ s - d \in Nat
    BY <1>1, <1>3, MaxOfTwo
  <1>5. x = TaxOf(s - d) /\ x \in Nat
    BY <1>4, TaxNat
  <1> HIDE DEF x
  <1>6. s - d + f + x \in Int
    BY <1>3, <1>4, <1>5
  <1>7. CartTotals(rows, quantity, k, method) \in Totals
    BY <1>1, <1>2, <1>3, <1>4, <1>5, <1>6 DEF Totals, Amounts
  <1> QED BY <1>2, <1>3, <1>4, <1>5, <1>7 DEF s, d, f

-----------------------------------------------------------------------------
(* The quotes, the page and the order.                                     *)

\* Amounts that add up, of the goods in quantity at the prices in rows.
AddUp(t, rows, quantity) ==
  /\ t.subtotal = Subtotal(rows, quantity)
  /\ t.discount <= t.subtotal
  /\ t.total = t.subtotal - t.discount + t.shipping + t.tax

\* The amounts of the cart as it is, for each way of shipping.
Shown == {CartTotals(row, items, coupon, method) : method \in Methods}

\* What was validated adds up, and so does the order; until something is
\* changed, both are of the cart as it is.
ValidatedAsShown ==
  validated # Null =>
    /\ AddUp(validated.totals, validated.cart.rows, validated.cart.items)
    /\ edits = 0 => validated.cart = [rows |-> row, items |-> items] /\ validated.totals \in Shown

OrderAsShown ==
  order # Null /\ edits = 0 => order.lines = ItemsShown /\ order.totals \in Shown

PricingInv == PricingTypeOK /\ ValidatedAsShown /\ OrderHoldsTogether /\ OrderAsShown

LEMMA PricingInitInv == PricingInit => PricingInv
  <1>1. 0 \in 0 .. MaxEdits
    BY MaxEditsAssumption
  <1> QED BY <1>1 DEF PricingInit, PricingInv, PricingTypeOK, ValidatedAsShown, OrderHoldsTogether,
              OrderAsShown, Optional

LEMMA ShownStays ==
  ASSUME UNCHANGED <<row, items, setting, coupon>>
  PROVE  Shown' = Shown /\ ItemsShown' = ItemsShown
  BY DEF Shown, ItemsShown, CartTotals, CheckoutSettings

\* The cart is read once, and what is read adds up.
LEMMA ValidateKeeps ==
  ASSUME PricingInv, NEW method \in Methods, ValidateCart(method)
  PROVE  PricingInv'
  <1> DEFINE t == CartTotals(row, items, coupon, method)
             c == [rows |-> row, items |-> items]
  <1>1. /\ row \in [Variants -> PriceRow] /\ items \in [Variants -> Quantities]
        /\ setting \in Setting /\ coupon \in Optional(CouponRows)
    BY DEF PricingInv, PricingTypeOK
  <1>2. validated' = [cart |-> c, totals |-> t]
    BY DEF ValidateCart
  <1>3. UNCHANGED <<row, items, setting, cached, coupon, order, edits>>
    BY DEF ValidateCart
  <1>4. t \in Totals /\ AddUp(t, row, items)
    BY <1>1, TotalsAre DEF AddUp
  <1>5. t \in Shown
    BY DEF Shown
  <1> HIDE DEF t
  <1>6. c \in Cart /\ c.rows = row /\ c.items = items
    BY <1>1 DEF Cart
  <1>7. PricingTypeOK'
    BY <1>2, <1>3, <1>4, <1>6 DEF PricingInv, PricingTypeOK, Optional
  <1>8. ValidatedAsShown'
    <2>1. validated'.totals = t /\ validated'.cart = c
      BY <1>2
    <2> QED BY <1>3, <1>4, <1>5, <1>6, <2>1, ShownStays DEF ValidatedAsShown
  <1>9. OrderHoldsTogether' /\ OrderAsShown'
    BY <1>3, ShownStays DEF PricingInv, OrderHoldsTogether, OrderAsShown
  <1> QED BY <1>7, <1>8, <1>9 DEF PricingInv

\* The lines of an order add up to the subtotal of its cart.
LEMMA LinesAddUp ==
  ASSUME NEW cart
  PROVE  SumFunction([v \in Variants |-> OrderLines(cart)[v].subtotal])
           = Subtotal(cart.rows, cart.items)
  <1>1. [v \in Variants |-> OrderLines(cart)[v].subtotal]
          = [v \in Variants |-> PriceOf(cart.rows[v]) * cart.items[v]]
    BY DEF OrderLines
  <1> QED BY <1>1 DEF Subtotal

LEMMA LinesTyped ==
  ASSUME NEW cart \in Cart
  PROVE  OrderLines(cart) \in [Variants -> OrderLine]
  <1>1. ASSUME NEW v \in Variants
        PROVE  [unitPrice |-> PriceOf(cart.rows[v]), quantity |-> cart.items[v],
                subtotal |-> PriceOf(cart.rows[v]) * cart.items[v]] \in OrderLine
    <2>1. PriceOf(cart.rows[v]) \in Nat /\ cart.items[v] \in Nat
      BY PriceNat, PricesAssumption DEF Cart
    <2>2. PriceOf(cart.rows[v]) * cart.items[v] \in Nat
      BY <2>1, ProductNat
    <2> QED BY <2>1, <2>2 DEF OrderLine, Amounts
  <1> QED BY <1>1 DEF OrderLines

\* The order is made of what was validated, not of the cart as it is now.
LEMMA CreateOrderKeeps ==
  ASSUME PricingInv, CreateOrder
  PROVE  PricingInv'
  <1> DEFINE cart == validated.cart
             t == validated.totals
             lines == OrderLines(cart)
  <1>1. validated # Null /\ validated' = Null /\ order' = [lines |-> lines, totals |-> t]
    BY DEF CreateOrder
  <1>2. UNCHANGED <<row, items, setting, cached, coupon, edits>>
    BY DEF CreateOrder
  <1>3. cart \in Cart /\ t \in Totals
    BY <1>1 DEF PricingInv, PricingTypeOK, Optional
  <1>4. AddUp(t, cart.rows, cart.items)
    BY <1>1 DEF PricingInv, ValidatedAsShown
  <1>5. edits = 0 => cart = [rows |-> row, items |-> items] /\ t \in Shown
    BY <1>1 DEF PricingInv, ValidatedAsShown
  <1>6. lines \in [Variants -> OrderLine]
    BY <1>3, LinesTyped
  <1>7. SumFunction([v \in Variants |-> lines[v].subtotal]) = Subtotal(cart.rows, cart.items)
    BY LinesAddUp
  <1>8. cart = [rows |-> row, items |-> items] => lines = ItemsShown
    BY DEF OrderLines, ItemsShown
  <1> HIDE DEF lines, t, cart
  <1>9. order'.lines = lines /\ order'.totals = t
    BY <1>1
  <1>10. PricingTypeOK'
    BY <1>1, <1>2, <1>3, <1>6 DEF PricingInv, PricingTypeOK, Optional
  <1>11. ValidatedAsShown'
    BY <1>1 DEF ValidatedAsShown
  <1>12. OrderHoldsTogether'
    BY <1>4, <1>7, <1>9 DEF OrderHoldsTogether, AddUp
  <1>13. OrderAsShown'
    BY <1>2, <1>5, <1>8, <1>9, ShownStays DEF OrderAsShown
  <1> QED BY <1>10, <1>11, <1>12, <1>13 DEF PricingInv

\* A change spoils nothing of what was validated or ordered before.
LEMMA EditKeeps ==
  ASSUME PricingInv, UpdateSettings \/ \E v \in Variants : UpdatePrice(v)
  PROVE  PricingInv'
  <1>1. /\ edits < MaxEdits /\ edits' = edits + 1
        /\ UNCHANGED <<items, cached, coupon, validated, order>>
    BY DEF UpdateSettings, UpdatePrice, Edit
  <1>2. edits' \in 0 .. MaxEdits /\ edits' # 0
    BY <1>1, MaxEditsAssumption DEF PricingInv, PricingTypeOK
  <1>3. row' \in [Variants -> PriceRow] /\ setting' \in Setting
    BY DEF PricingInv, PricingTypeOK, UpdateSettings, UpdatePrice
  <1>4. PricingTypeOK'
    BY <1>1, <1>2, <1>3 DEF PricingInv, PricingTypeOK
  <1>5. ValidatedAsShown' /\ OrderHoldsTogether' /\ OrderAsShown'
    BY <1>1, <1>2 DEF PricingInv, ValidatedAsShown, OrderHoldsTogether, OrderAsShown
  <1> QED BY <1>4, <1>5 DEF PricingInv

\* What is in Redis changes no order.
LEMMA CopyKeeps ==
  ASSUME PricingInv, DropSettings \/ StoreSettings
  PROVE  PricingInv'
  <1>1. UNCHANGED <<row, items, setting, coupon, validated, order, edits>>
    BY DEF DropSettings, StoreSettings
  <1>2. Public(setting) \in PublicSetting
    BY DEF PricingInv, PricingTypeOK, Setting, PublicSetting, Public
  <1>3. cached' \in Optional(PublicSetting)
    BY <1>2 DEF DropSettings, StoreSettings, Optional
  <1>4. PricingTypeOK'
    BY <1>1, <1>3 DEF PricingInv, PricingTypeOK
  <1>5. ValidatedAsShown' /\ OrderHoldsTogether' /\ OrderAsShown'
    BY <1>1, ShownStays DEF PricingInv, ValidatedAsShown, OrderHoldsTogether, OrderAsShown
  <1> QED BY <1>4, <1>5 DEF PricingInv

LEMMA PricingKept == PricingInv /\ [PricingNext]_pricingVars => PricingInv'
  <1>1. ASSUME PricingInv, UNCHANGED pricingVars PROVE PricingInv'
    BY <1>1, ShownStays DEF pricingVars, PricingInv, PricingTypeOK, ValidatedAsShown,
       OrderHoldsTogether, OrderAsShown
  <1> QED BY <1>1, ValidateKeeps, CreateOrderKeeps, EditKeeps, CopyKeeps DEF PricingNext

LEMMA PricingCorrect == PricingSpec => []PricingInv
  BY PricingInitInv, PricingKept, PTL DEF PricingSpec

\* Goods, discount and tax are never negative, for any prices, rates and coupons
\* and any settings, whatever is changed in between: only a fee below zero makes
\* an amount negative, the shipping and the total.
THEOREM AmountsCorrect == PricingSpec => []PricingTypeOK
  <1>1. PricingInv => PricingTypeOK
    BY DEF PricingInv
  <1> QED BY <1>1, PricingCorrect, PTL

\* The lines of an order add up to its subtotal, its discount is within it, and
\* its amounts add up to its total, although prices and settings are changed
\* while it is made.
THEOREM OrderCorrect == PricingSpec => []OrderHoldsTogether
  <1>1. PricingInv => OrderHoldsTogether
    BY DEF PricingInv
  <1> QED BY <1>1, PricingCorrect, PTL

\* Subtotal and discount do not depend on the way of shipping, so the page can
\* add the shipping to them.
LEMMA PageAddsUp ==
  ASSUME PricingInv, NEW method \in Methods
  PROVE  LET t == CartTotals(row, items, coupon, method)
         IN t.shipping = ShippingRate(method) /\ t.total = PageTotal(method) + t.tax
  <1> DEFINE s == Subtotal(row, items)
             t == CartTotals(row, items, coupon, method)
             u == CartTotals(row, items, coupon, "standard")
  <1>1. /\ row \in [Variants -> PriceRow] /\ items \in [Variants -> Quantities]
        /\ setting \in Setting /\ coupon \in Optional(CouponRows)
    BY DEF PricingInv, PricingTypeOK
  <1>2. "standard" \in Methods
    BY DEF Methods
  <1>3. /\ t.total = s - DiscountOf(coupon, s) + t.shipping + t.tax
        /\ u.subtotal = s /\ u.discount = DiscountOf(coupon, s)
    BY <1>1, <1>2, TotalsAre
  <1>4. PageTotal(method) = s - DiscountOf(coupon, s) + t.shipping
    BY <1>3 DEF PageTotal, ShippingRate
  <1> HIDE DEF s, t, u
  <1>5. t.total = PageTotal(method) + t.tax
    BY <1>3, <1>4
  <1> QED BY <1>5 DEF t, ShippingRate

\* Until something is changed an order has the lines of the checkout page, and
\* its total is that of the page and the tax, which the page leaves out.
THEOREM PageAndTaxCorrect == PricingSpec => []ChargedPageAndTax
  <1>1. PricingInv => ChargedPageAndTax
    BY PageAddsUp DEF PricingInv, OrderAsShown, Shown, ChargedPageAndTax
  <1> QED BY <1>1, PricingCorrect, PTL

LEMMA CouponSaves == PricingInv => CouponNeverCosts
  <1> SUFFICES ASSUME PricingInv, coupon # Null, NEW method \in Methods
               PROVE  LET with == CartTotals(row, items, coupon, method)
                          without == CartTotals(row, items, Null, method)
                      IN /\ with.discount <= with.subtotal
                         /\ with.total - with.shipping <= without.total - without.shipping
                         /\ with.shipping \in {without.shipping, 0}
                         /\ ReadNumber(setting.fee) >= 0 => with.total <= without.total
    BY DEF CouponNeverCosts
  <1> DEFINE s == Subtotal(row, items)
             d == DiscountOf(coupon, s)
             t == CartTotals(row, items, coupon, method)
             u == CartTotals(row, items, Null, method)
  <1>1. /\ row \in [Variants -> PriceRow] /\ items \in [Variants -> Quantities]
        /\ setting \in Setting
        /\ coupon \in Optional(CouponRows) /\ Null \in Optional(CouponRows)
    BY DEF PricingInv, PricingTypeOK, Optional
  <1>2. s \in Nat
    BY <1>1, SubtotalNat
  <1>3. /\ DiscountOf(Null, s) = 0
        /\ ShippingOf(Null, s, method) = ShippingEstimate(s, CheckoutSettings, FALSE)[method]
    BY DEF DiscountOf, ShippingOf, Usable
  <1>4. /\ t.subtotal = s /\ t.discount = d /\ t.shipping = ShippingOf(coupon, s, method)
        /\ t.tax = TaxOf(s - d) /\ t.total = s - d + t.shipping + t.tax
    BY <1>1, TotalsAre
  <1>5. /\ u.shipping = ShippingOf(Null, s, method)
        /\ u.tax = TaxOf(s - 0) /\ u.total = s - 0 + u.shipping + u.tax
    BY <1>1, <1>3, TotalsAre
  <1> HIDE DEF s, t, u
  <1>6. d \in Nat /\ d <= s /\ t.shipping \in Int /\ t.shipping \in {u.shipping, 0}
    BY <1>1, <1>2, <1>3, <1>4, <1>5, AmountsOf
  <1>7. u.shipping \in Int
    BY <1>1, <1>2, <1>5, AmountsOf
  <1>8. ReadNumber(setting.fee) >= 0 => u.shipping >= 0
    BY <1>1, <1>2, <1>3, <1>5, SettingsRead, ShippingIs
  <1> HIDE DEF d
  <1>9. s - d \in Nat /\ s - d <= s /\ s - 0 = s
    BY <1>2, <1>6
  <1>10. TaxOf(s - d) \in Nat /\ TaxOf(s) \in Nat /\ TaxOf(s - d) <= TaxOf(s)
    BY <1>1, <1>2, <1>9, TaxNat
  <1>11. /\ t.total - t.shipping = s - d + TaxOf(s - d)
         /\ u.total - u.shipping = s + TaxOf(s)
    BY <1>2, <1>4, <1>5, <1>6, <1>7, <1>9, <1>10
  <1>12. t.total - t.shipping <= u.total - u.shipping
    BY <1>9, <1>10, <1>11, <1>2
  <1>13. ASSUME ReadNumber(setting.fee) >= 0 PROVE t.total <= u.total
    <2>1. t.shipping <= u.shipping
      BY <1>6, <1>7, <1>8, <1>13
    <2> QED BY <1>2, <1>4, <1>5, <1>6, <1>7, <1>9, <1>10, <2>1
  <1> QED BY <1>4, <1>6, <1>12, <1>13 DEF t, u

\* Whatever a coupon is worth it never gives more than the goods cost and never
\* makes goods and tax dearer, and the shipping stays or is free: no order is
\* dearer for its coupon unless the fee is below zero.
THEOREM CouponCorrect == PricingSpec => []CouponNeverCosts
  BY CouponSaves, PricingCorrect, PTL

\* The coupon's quote and the shipping quote compute what the cart computes.
LEMMA QuotesAgree == PricingInv => QuoteAgrees
  <1> SUFFICES ASSUME PricingInv PROVE QuoteAgrees
    OBVIOUS
  <1> DEFINE s == Subtotal(row, items)
  <1>1. /\ row \in [Variants -> PriceRow] /\ items \in [Variants -> Quantities]
        /\ setting \in Setting
        /\ coupon \in Optional(CouponRows) /\ Null \in Optional(CouponRows)
    BY DEF PricingInv, PricingTypeOK, Optional
  <1>2. s \in Nat
    BY <1>1, SubtotalNat
  <1>3. ASSUME coupon # Null
        PROVE  Quote(coupon, s, coupon.usedByUser)
                 = IF CouponUsable(coupon, s)
                   THEN CartTotals(row, items, coupon, "standard").discount ELSE Null
    <2>1. CartTotals(row, items, coupon, "standard").discount = DiscountOf(coupon, s)
      BY <1>1, TotalsAre DEF Methods
    <2>2. coupon \in CouponRow
      BY <1>1, <1>3, CouponsAssumption DEF Optional
    <2> HIDE DEF s
    <2>3. QuoteUsable(coupon, s, coupon.usedByUser) <=> CouponUsable(coupon, s)
      <3>1. /\ coupon.used \in Nat /\ coupon.usedByUser \in Nat
            /\ coupon.minOrderAmount # Null => coupon.minOrderAmount \in Nat
            /\ coupon.usageLimit # Null => coupon.usageLimit \in Nat
            /\ coupon.usageLimitPerUser # Null => coupon.usageLimitPerUser \in Nat
        BY <2>2 DEF CouponRow, Optional, Amounts
      <3> QED BY <1>2, <3>1 DEF QuoteUsable, CouponUsable, Within
    <2>4. QuoteDiscount(coupon, s) = CouponDiscount(coupon, s)
      BY DEF QuoteDiscount, CouponDiscount, Capped, RawDiscount
    <2> QED BY <1>3, <2>1, <2>3, <2>4 DEF Quote, DiscountOf, Usable
  <1>4. ASSUME SettingsCurrent
        PROVE  Calculate(s)
                 = [method \in Methods |-> CartTotals(row, items, Null, method).shipping]
    <2>0. ShippingSettings.fee = setting.fee /\ ShippingSettings.threshold = setting.threshold
      BY <1>4 DEF SettingsCurrent, ShippingSettings, Public
    <2> DEFINE f == Calculate(s)
    <2>1. ASSUME NEW method \in Methods
          PROVE  CartTotals(row, items, Null, method).shipping = f[method]
      <3>1. CartTotals(row, items, Null, method).shipping = ShippingOf(Null, s, method)
        BY <1>1, TotalsAre
      <3>2. ShippingOf(Null, s, method)
              = ShippingEstimate(s, CheckoutSettings, FALSE)[method]
        BY DEF ShippingOf, Usable
      <3>3. ShippingEstimate(s, CheckoutSettings, FALSE) = f
        BY <2>0 DEF ShippingEstimate, CheckoutSettings, Calculate
      <3> QED BY <3>1, <3>2, <3>3
    <2>2. f = [method \in Methods |-> f[method]]
      BY DEF Calculate, Methods
    <2> HIDE DEF f, s
    <2> QED BY <2>1, <2>2 DEF f, s
  <1> QED BY <1>3, <1>4 DEF QuoteAgrees

\* What a customer is quoted is what the cart charges: for a coupon always, for
\* the shipping unless Redis has settings that were changed since.
THEOREM QuoteCorrect == PricingSpec => []QuoteAgrees
  BY QuotesAgree, PricingCorrect, PTL
=============================================================================

---------------------------- MODULE StockLedger ----------------------------
(***************************************************************************)
(* What the shop promises of its stock: an order reserves all its items in *)
(* one step, from units that are there, and a cancelled order gives all of *)
(* them back in one step, once.                                            *)
(***************************************************************************)
EXTENDS Integers

CONSTANTS Variants, Orders, Items, InitialStock

VARIABLES
  available,    \* available[v]: units of v that can be reserved
  reservation   \* reservation[o]: what has become of order o's items

Reservations == {"none", "reserved", "released"}

Init ==
  /\ available = InitialStock
  /\ reservation = [o \in Orders |-> "none"]

Reserve(o) ==
  /\ reservation[o] = "none"
  /\ \A v \in Variants : Items[o][v] <= available[v]
  /\ available' = [v \in Variants |-> available[v] - Items[o][v]]
  /\ reservation' = [reservation EXCEPT ![o] = "reserved"]

Release(o) ==
  /\ reservation[o] = "reserved"
  /\ available' = [v \in Variants |-> available[v] + Items[o][v]]
  /\ reservation' = [reservation EXCEPT ![o] = "released"]

Next == \E o \in Orders : Reserve(o) \/ Release(o)

Spec == Init /\ [][Next]_<<available, reservation>>
=============================================================================

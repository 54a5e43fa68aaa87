---------------------------- MODULE SafeSwitching ----------------------------
(***************************************************************************)
(* What switching a line off and on again promises whoever works on it,    *)
(* with no mention of plans, statuses, transactions and handsets           *)
(* (domain/plannedOutage.js): points of isolation open one after the other *)
(* and close one after the other, nothing is taken back, a crew gets a     *)
(* permit only over a line that is wholly isolated, and nothing is closed  *)
(* while anyone asks for a permit or holds one.                            *)
(***************************************************************************)
CONSTANTS Permits

VARIABLES
  isolated, restored,  \* how far: "no", "partly" or "wholly"
  permit               \* the state of each permit

vars == <<isolated, restored, permit>>

NobodyAllowed == \A p \in Permits : permit[p] \notin {"requested", "issued"}

Init ==
  /\ isolated = "no" /\ restored = "no"
  /\ permit = [p \in Permits |-> "none"]

Isolate ==
  /\ restored = "no" /\ isolated # "wholly"
  /\ isolated' \in {"partly", "wholly"}
  /\ UNCHANGED <<restored, permit>>

Restore ==
  /\ isolated = "wholly" /\ restored # "wholly"
  /\ NobodyAllowed
  /\ restored' \in {"partly", "wholly"}
  /\ UNCHANGED <<isolated, permit>>

Moves(p, from, to) ==
  /\ permit[p] = from
  /\ permit' = [permit EXCEPT ![p] = to]
  /\ UNCHANGED <<isolated, restored>>

Request(p) == isolated # "no" /\ restored = "no" /\ Moves(p, "none", "requested")
Issue(p)   == isolated = "wholly" /\ restored = "no" /\ Moves(p, "requested", "issued")
Turn(p)    == Moves(p, "requested", "refused") \/ Moves(p, "requested", "withdrawn")
Return(p)  == Moves(p, "issued", "returned")

Next ==
  \/ Isolate \/ Restore
  \/ \E p \in Permits : Request(p) \/ Issue(p) \/ Turn(p) \/ Return(p)

Spec == Init /\ [][Next]_vars
=============================================================================

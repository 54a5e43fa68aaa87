---------------------------- MODULE IntakePromise ----------------------------
(***************************************************************************)
(* What the durable intake queue promises its callers, with no mention of  *)
(* rows, leases, claims or workers (backend/src/infra/intakeQueue.js,      *)
(* header comment, and decision D2: nothing accepted is ever lost).        *)
(*                                                                         *)
(* An event arrives, is accepted (or refused when the producer's           *)
(* transaction fails), and is later settled exactly once: its work is      *)
(* stored, or it is moved to the dead letters.  Events of one tag are      *)
(* settled in the order they were accepted; only repeats of the same state *)
(* may be settled together, as one.                                        *)
(***************************************************************************)
EXTENDS FiniteSets

CONSTANTS
  Events,   \* everything a producer may ever hand over
  NoTag     \* the tag of an event that is ordered with nothing (a complaint)

VARIABLES
  fate,     \* what has become of each event
  before    \* the events already accepted when this one arrived

vars == <<fate, before>>

Fates == {"unsent", "arriving", "accepted", "stored", "dead", "refused"}

TypeOK ==
  /\ fate \in [Events -> Fates]
  /\ before \in [Events -> SUBSET Events]

SameTag(e, f) == e.tag = f.tag /\ e.tag # NoTag

With(f) == {e \in Events : fate[e] = f}

\* Acceptance is what later arrivals are ordered after.
AcceptedEver == {e \in Events : fate[e] \in {"accepted", "stored", "dead"}}

Init ==
  /\ fate = [e \in Events |-> "unsent"]
  /\ before = [e \in Events |-> {}]

Arrive(e) ==
  /\ fate[e] = "unsent"
  /\ \E f \in {"arriving", "accepted"} : fate' = [fate EXCEPT ![e] = f]
  /\ before' = [before EXCEPT ![e] = AcceptedEver]

Decide(e) ==
  /\ fate[e] = "arriving"
  /\ \E f \in {"accepted", "refused"} : fate' = [fate EXCEPT ![e] = f]
  /\ UNCHANGED before

\* Every event accepted before one of S on the same tag is settled already,
\* or is a repeat of the same state that is settled with it.
InTurn(S) ==
  \A e \in S : \A p \in before[e] :
    SameTag(p, e) /\ fate[p] = "accepted" => p \in S /\ p.state = e.state

Settle(S) ==
  /\ S # {}
  /\ InTurn(S)
  /\ \E f \in {"stored", "dead"} :
       fate' = [e \in Events |-> IF e \in S THEN f ELSE fate[e]]
  /\ UNCHANGED before

Next ==
  \/ \E e \in Events : Arrive(e) \/ Decide(e)
  \/ \E S \in SUBSET With("accepted") : Settle(S)

Spec == Init /\ [][Next]_vars
=============================================================================

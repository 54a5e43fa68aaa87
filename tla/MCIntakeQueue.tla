---------------------------- MODULE MCIntakeQueue ----------------------------
(* Instances of IntakeQueue for TLC. *)
EXTENDS IntakeQueue, TLC

CONSTANTS l1, l2   \* two worker loops

Scada(n, tag, state) ==
  [n |-> n, kind |-> "scada", tag |-> tag, state |-> state, feeder |-> "f1"]
Complaint(n) ==
  [n |-> n, kind |-> "complaint", tag |-> NoTag, state |-> "none", feeder |-> NoFeeder]

\* A breaker trips, recloses and trips again.
OneBreaker == {Scada(1, "cb1", "trip"), Scada(2, "cb1", "reclose"), Scada(3, "cb1", "trip")}

\* The same beside another breaker of the feeder: the order of a tag, what may be
\* coalesced into what, group transactions and their one-by-one fallback.
OneFeeder == OneBreaker \cup {Scada(4, "cb2", "trip")}

\* A trip that may turn out to be poison and the reclose it holds back, and a
\* complaint in the other lane.
Mixed == {Scada(1, "cb1", "trip"), Scada(2, "cb1", "reclose"), Complaint(3)}

TwoLoops == {l1, l2}
SecondLoop == {l2}
Claims == 1 .. 5

Interchangeable == Permutations(TwoLoops)
=============================================================================

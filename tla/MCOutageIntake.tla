--------------------------- MODULE MCOutageIntake ---------------------------
(* Instances of OutageIntake for TLC. *)
EXTENDS OutageIntake

CONSTANTS d1, S, f1

Trip(n, cbs, feeder) ==
  [n |-> n, kind |-> "trip", tags |-> cbs, feeder |-> feeder, substation |-> S,
   cause |-> "trip"]
Reclose(n, tag) ==
  [n |-> n, kind |-> "reclose", tags |-> {tag}, feeder |-> NoFeeder,
   substation |-> NoSubstation, cause |-> "trip"]
Complaint(n, feeder, cause) ==
  [n |-> n, kind |-> "complaint", tags |-> {}, feeder |-> feeder,
   substation |-> S, cause |-> cause]

\* Two breakers of one feeder trip as one group and reclose on their own, beside
\* a complaint that could be placed no nearer than the substation and, later,
\* another trip of the feeder.
Storm == {Trip(1, {"cb1", "cb2"}, f1), Reclose(2, "cb1"), Reclose(3, "cb2"),
          Complaint(4, NoFeeder, "supply"), Trip(5, {"cb1"}, f1)}

\* A reclose of one breaker while the other breaker of its feeder trips.
SecondTrip == {Trip(1, {"cb1"}, f1), Reclose(2, "cb1"), Trip(3, {"cb2"}, f1)}

\* Both breakers of a group reclose.
BothReclose == {Trip(1, {"cb1", "cb2"}, f1), Reclose(2, "cb1"), Reclose(3, "cb2")}

NoDesk == {}
OneDesk == {d1}
=============================================================================

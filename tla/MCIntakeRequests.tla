--------------------------- MODULE MCIntakeRequests ---------------------------
EXTENDS IntakeRequests

Event(n, tag, key) == [n |-> n, tag |-> tag, key |-> key]

\* A breaker trips and recloses; another one reports without a key.
TwoBreakers == {Event(1, "cb1", "k1"), Event(2, "cb1", "k2"), Event(1, "cb2", NoKey)}

\* One breaker trips and recloses.
OneBreaker == {Event(1, "cb1", "k1"), Event(2, "cb1", "k2")}
=============================================================================

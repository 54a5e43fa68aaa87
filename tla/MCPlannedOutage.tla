--------------------------- MODULE MCPlannedOutage ---------------------------
(* Instances of PlannedOutage for TLC. *)
EXTENDS PlannedOutage, TLC

CONSTANTS a, b,   \* two crews
          j1, j2  \* two jobs

SomeJobs == {j1, j2}
\* Jobs are only ever compared.
JobSymmetry == Permutations(SomeJobs)

Step(phase, seq, crew) == [phase |-> phase, seq |-> seq, crew |-> crew]

\* The control room opens, the crew earths; the control room closes again.
\* Another draft leaves the crew nothing to switch and closes in two steps.
Earthed == {Step("isolate", 1, NoCrew), Step("isolate", 2, a), Step("restore", 1, NoCrew)}
TwoEnds == {Step("isolate", 1, NoCrew), Step("restore", 1, NoCrew), Step("restore", 2, a)}

OneDraft    == {Earthed}
TwoEndsOnly == {TwoEnds}

BothCrews == {a, b}

\* One dispatcher assigns crew a, another crew b.
ForA == {[n |-> 1, crew |-> a]}
ForEach == {[n |-> 1, crew |-> a], [n |-> 2, crew |-> b]}
=============================================================================

--------------------------- MODULE IncidentOpening ---------------------------
(***************************************************************************)
(* What the scopes of infra/intake.js promise the incidents, with no       *)
(* mention of locks, transactions and rows: of the works that could report *)
(* one fault, one at a time is between looking for an incident to join and *)
(* opening its own; what it opens is beside nothing it could have joined   *)
(* and did not see; and a work that has been served opens nothing again.   *)
(***************************************************************************)
EXTENDS Naturals

CONSTANTS
  Works, Incidents, NoWork,
  OneFault(_, _)   \* would work w join an active incident that work v opened

VARIABLES
  opener,   \* [incident -> the work that opened it, or NoWork]
  looking,  \* works that found nothing to join and have not opened theirs
  seen,     \* [work -> incidents there were when it looked]
  served

vars == <<opener, looking, seen, served>>

Opened == {i \in Incidents : opener[i] # NoWork}

Init ==
  /\ opener = [i \in Incidents |-> NoWork]
  /\ looking = {}
  /\ seen = [w \in Works |-> {}]
  /\ served = {}

Look(w) ==
  /\ w \notin looking \cup served
  /\ \A v \in looking : ~OneFault(v, w) /\ ~OneFault(w, v)
  /\ looking' = looking \cup {w}
  /\ seen' = [seen EXCEPT ![w] = Opened]
  /\ UNCHANGED <<opener, served>>

Open(w, i) ==
  /\ w \in looking
  /\ i \notin Opened /\ \A j \in Incidents \ Opened : i <= j
  /\ \A j \in Opened : OneFault(w, opener[j]) => j \in seen[w]
  /\ opener' = [opener EXCEPT ![i] = w]
  /\ looking' = looking \ {w}
  /\ seen' = [seen EXCEPT ![w] = {}]
  /\ served' = served \cup {w}

\* It joined an incident, or had none to open.
Serve(w) ==
  /\ w \notin looking \cup served
  /\ served' = served \cup {w}
  /\ UNCHANGED <<opener, looking, seen>>

\* It will look again.
Forget(w) ==
  /\ w \in looking
  /\ looking' = looking \ {w}
  /\ seen' = [seen EXCEPT ![w] = {}]
  /\ UNCHANGED <<opener, served>>

Next ==
  \E w \in Works :
    \/ Look(w) \/ Serve(w) \/ Forget(w)
    \/ \E i \in Incidents : Open(w, i)

Spec == Init /\ [][Next]_vars
=============================================================================

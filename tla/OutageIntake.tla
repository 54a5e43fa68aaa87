---------------------------- MODULE OutageIntake ----------------------------
(***************************************************************************)
(* From queued events to incidents: how SCADA trips (realtime/scada.js)    *)
(* and customer complaints (realtime/complaintIntake.js) create or join an *)
(* incident under the scope locks of infra/intake.js, and how a reclose,   *)
(* which runs outside any transaction, restores it, while the control room *)
(* changes statuses by read, check and unconditional write (routes/api.js).*)
(*                                                                         *)
(* A work item is what the intake queue hands to a worker: it is retried   *)
(* until it is done, items of one tag one after the other (module          *)
(* IntakeQueue).  A trip item carries the tags of the feeder group that    *)
(* runs as one transaction, usually one.                                   *)
(***************************************************************************)
EXTENDS Naturals, FiniteSets

CONSTANTS
  Works,        \* records [n, kind, tags, feeder, substation, cause]
  Desks,        \* requests of the control room
  NoWork, NoFeeder, NoSubstation,
  MaxIncidents, \* bound: incidents ever created
  MayAge,       \* bound: the incidents that may outlive the merge window
  MaxFaults     \* bound: transactions rolled back and recloses cut short

ASSUME WorksAssumption ==
  /\ \A w \in Works : w.kind \in {"trip", "complaint", "reclose"}
  /\ \A w \in Works : w.kind = "complaint" => w.tags = {}
  /\ \A w \in Works : w.kind = "reclose" => \E tag \in w.tags : w.tags = {tag}
  /\ NoWork \notin Works

ASSUME BoundsAssumption == MaxIncidents \in Nat /\ MaxFaults \in Nat

Incidents == 1 .. MaxIncidents
Tags == UNION {w.tags : w \in Works}

VARIABLES
  \* incidents
  creator,    \* the work that created incident i: its scope and its cause
  status,     \* status column
  tags,       \* open_trip_tags column
  restoredBy, \* restored_by column
  aged,       \* incidents opened more than 240 minutes ago
  \* workers and control room
  pc, pick, touched, closing, desk,
  \* history and bounds
  passed,     \* incidents a creating work saw, and could not join
  tripped,    \* incidents a trip has ever been recorded on
  dropped,    \* incidents a reclose emptied and then failed to restore
  stale,      \* incidents the desk wrote over a status it had not read
  faults

incidents == <<creator, status, tags, restoredBy, aged>>
history   == <<passed, tripped, dropped, stale>>
vars      == <<incidents, pc, pick, touched, closing, desk, history, faults>>

Statuses == {"none", "open", "dispatched", "in_progress", "pending",
             "resolved", "closed", "cancelled"}
PcStates == {"waiting", "substation", "scoped", "merge", "create",
             "reclosing", "done"}

NoRequest == [at |-> "idle", inc |-> 0, from |-> "none", to |-> "none"]

TypeOK ==
  /\ creator \in [Incidents -> Works \cup {NoWork}]
  /\ status \in [Incidents -> Statuses]
  /\ tags \in [Incidents -> SUBSET Tags]
  /\ restoredBy \in [Incidents -> {"none", "SCADA"}]
  /\ aged \subseteq Incidents
  /\ pc \in [Works -> PcStates]
  /\ pick \in [Works -> Incidents \cup {0}]
  /\ touched \in [Works -> SUBSET Incidents]
  /\ closing \in [Works -> Incidents \cup {0}]
  /\ desk \in [Desks -> [at : {"idle", "read", "done"}, inc : Incidents \cup {0},
                         from : Statuses, to : Statuses]]
  /\ \A w \in Works : pc[w] = "merge" => pick[w] # 0
  /\ \A d \in Desks : desk[d].at = "read" => desk[d].inc # 0
  /\ passed \in [Works -> SUBSET Incidents]
  /\ tripped \subseteq Incidents
  /\ dropped \subseteq Incidents
  /\ stale \subseteq Incidents
  /\ faults \in 0 .. MaxFaults

-----------------------------------------------------------------------------
(* Incidents and scopes *)

Created == {i \in Incidents : creator[i] # NoWork}
Over    == {"resolved", "closed", "cancelled"}
Active  == {i \in Created : status[i] \notin Over}

\* Same feeder, or the same substation when either feeder is unknown.
SameScope(w, c) ==
  IF w.feeder # NoFeeder
  THEN \/ c.feeder = w.feeder
       \/ c.feeder = NoFeeder /\ c.substation = w.substation
                              /\ w.substation # NoSubstation
  ELSE c.substation = w.substation /\ w.substation # NoSubstation

InScope(w, i) == SameScope(w, creator[i])

\* A trip joins whatever is open; a complaint of a lost supply joins an outage
\* (category Other opens one, too: CATEGORY_TYPE), another complaint only an
\* incident opened for the same cause.
SameCause(w, c) ==
  \/ w.kind = "trip"
  \/ w.cause = "supply" /\ c.cause \in {"trip", "supply", "other"}
  \/ w.cause = c.cause

Joins(w, i) == SameCause(w, creator[i])

Candidates(w) == {i \in Active \ aged : InScope(w, i) /\ Joins(w, i)}

\* Same feeder first, then the most recent.
SameFeeder(w, i) == creator[i].feeder = w.feeder
Best(w, i) ==
  \A j \in Candidates(w) :
    \/ SameFeeder(w, i) /\ ~SameFeeder(w, j)
    \/ (SameFeeder(w, i) <=> SameFeeder(w, j)) /\ j <= i

-----------------------------------------------------------------------------
(* The scope locks: held from the step that takes them to the end of the     *)
(* transaction.                                                              *)

Exclusive(w) == w.feeder = NoFeeder

HasSubstation(w) == pc[w] \in {"substation", "scoped", "merge", "create"}
                    /\ w.substation # NoSubstation
HasFeeder_Mutant(w) == pc[w] \in {"scoped", "merge", "create", "done"} /\ w.feeder # NoFeeder
HasFeeder(w) == pc[w] \in {"scoped", "merge", "create"} /\ w.feeder # NoFeeder

\* The queue hands the items of a tag to the workers one at a time.
Due(w) ==
  /\ pc[w] = "waiting"
  /\ \A v \in Works : v.n < w.n /\ v.tags \cap w.tags # {} => pc[v] = "done"

\* Shared on the substation when the feeder is known, else exclusive.
LockSubstation_Mutant(w) ==
  /\ w.kind # "reclose"
  /\ Due(w)
  /\ pc' = [pc EXCEPT ![w] = "substation"]
  /\ UNCHANGED <<incidents, pick, touched, closing, desk, history, faults>>
LockSubstation(w) ==
  /\ w.kind # "reclose"
  /\ Due(w)
  /\ \A v \in Works :
       v # w /\ HasSubstation(v) /\ v.substation = w.substation
         => ~Exclusive(v) /\ ~Exclusive(w)
  /\ pc' = [pc EXCEPT ![w] = "substation"]
  /\ UNCHANGED <<incidents, pick, touched, closing, desk, history, faults>>

LockFeeder(w) ==
  /\ pc[w] = "substation"
  /\ \A v \in Works : v # w /\ HasFeeder(v) => v.feeder # w.feeder
  /\ pc' = [pc EXCEPT ![w] = "scoped"]
  /\ UNCHANGED <<incidents, pick, touched, closing, desk, history, faults>>

-----------------------------------------------------------------------------
(* Trips and complaints *)

\* The look-up of open incidents in scope, on what is committed.
Found(w, i) ==
  /\ pc[w] = "scoped"
  /\ i \in Candidates(w)
  /\ Best(w, i)
  /\ pick' = [pick EXCEPT ![w] = i]
  /\ pc' = [pc EXCEPT ![w] = "merge"]
  /\ UNCHANGED <<incidents, touched, closing, desk, history, faults>>

FoundNone(w) ==
  /\ pc[w] = "scoped"
  /\ Candidates(w) = {}
  /\ pc' = [pc EXCEPT ![w] = "create"]
  /\ passed' = [passed EXCEPT ![w] = Created]
  /\ UNCHANGED <<incidents, pick, touched, closing, desk, tripped, dropped, stale, faults>>

\* A complaint of a lost supply inside a planned outage's window is noted on
\* that outage; planned outages themselves are not part of this module.
Attach(w) ==
  /\ pc[w] = "scoped"
  /\ w.kind = "complaint" /\ w.cause = "supply"
  /\ pc' = [pc EXCEPT ![w] = "done"]
  /\ UNCHANGED <<incidents, pick, touched, closing, desk, history, faults>>

\* The writes to the incident's row and the COMMIT: the row lock keeps every
\* other writer out in between, so they are one step.
Merge(w) ==
  /\ pc[w] = "merge"
  /\ tags' = [tags EXCEPT ![pick[w]] = @ \cup w.tags]
  /\ tripped' = IF w.tags # {} THEN tripped \cup {pick[w]} ELSE tripped
  /\ pc' = [pc EXCEPT ![w] = "done"]
  /\ UNCHANGED <<creator, status, restoredBy, aged, pick, touched, closing, desk,
                 passed, dropped, stale, faults>>

Create(w) ==
  /\ pc[w] = "create"
  /\ \E i \in Incidents \ Created :
       /\ \A j \in Incidents \ Created : i <= j
       /\ creator' = [creator EXCEPT ![i] = w]
       /\ status' = [status EXCEPT ![i] = "open"]
       /\ tags' = [tags EXCEPT ![i] = w.tags]
       /\ tripped' = IF w.tags # {} THEN tripped \cup {i} ELSE tripped
  /\ pc' = [pc EXCEPT ![w] = "done"]
  /\ UNCHANGED <<restoredBy, aged, pick, touched, closing, desk, passed, dropped,
                 stale, faults>>

Fault == faults < MaxFaults /\ faults' = faults + 1

\* The transaction rolls back, its locks with it, and is run again.
Abort(w) ==
  /\ pc[w] \in {"substation", "scoped", "merge", "create"}
  /\ Fault
  /\ pc' = [pc EXCEPT ![w] = "waiting"]
  /\ pick' = [pick EXCEPT ![w] = 0]
  /\ passed' = [passed EXCEPT ![w] = {}]
  /\ UNCHANGED <<incidents, touched, closing, desk, tripped, dropped, stale>>

-----------------------------------------------------------------------------
(* Recloses: each statement commits on its own *)

\* removeTripTag, then the loop over the incidents it returned: one that has
\* other devices open is only noted.
Emptied(w, i) == w.tags \subseteq tags[i] /\ tags[i] \ w.tags = {}

\* Supply is back wherever the incident is in the crew workflow.
CanScadaRestore_Mutant(s) == s = "open"
CanScadaRestore(s) == s \in {"open", "dispatched", "in_progress", "pending"}

RemoveTag(w) ==
  /\ w.kind = "reclose"
  /\ Due(w)
  /\ tags' = [i \in Incidents |-> IF i \in Active THEN tags[i] \ w.tags ELSE tags[i]]
  /\ touched' = [touched EXCEPT ![w] = {i \in Active : Emptied(w, i) /\ CanScadaRestore(status[i])}]
  /\ pc' = [pc EXCEPT ![w] = "reclosing"]
  /\ UNCHANGED <<creator, status, restoredBy, aged, pick, closing, desk, history, faults>>

\* The status was read with the tags; the write is unconditional.
Restore(w, i) ==
  /\ pc[w] = "reclosing"
  /\ closing[w] = 0
  /\ i \in touched[w]
  /\ status' = [status EXCEPT ![i] = "resolved"]
  /\ restoredBy' = [restoredBy EXCEPT ![i] = "SCADA"]
  /\ touched' = [touched EXCEPT ![w] = @ \ {i}]
  /\ \E momentary \in BOOLEAN :
       closing' = [closing EXCEPT ![w] = IF momentary THEN i ELSE 0]
  /\ UNCHANGED <<creator, tags, aged, pc, pick, desk, history, faults>>

CloseMomentary(w) ==
  /\ closing[w] # 0
  /\ status' = [status EXCEPT ![closing[w]] = "closed"]
  /\ closing' = [closing EXCEPT ![w] = 0]
  /\ UNCHANGED <<creator, tags, restoredBy, aged, pc, pick, touched, desk, history, faults>>

FinishReclose(w) ==
  /\ pc[w] = "reclosing"
  /\ closing[w] = 0
  /\ touched[w] = {}
  /\ pc' = [pc EXCEPT ![w] = "done"]
  /\ UNCHANGED <<incidents, pick, touched, closing, desk, history, faults>>

\* A statement fails, the process dies, or the queue's own transaction does
\* not commit: the item is run again, what the reclose wrote stays.
FailReclose(w) ==
  /\ pc[w] = "reclosing"
  /\ Fault
  /\ dropped' = dropped \cup touched[w]
  /\ touched' = [touched EXCEPT ![w] = {}]
  /\ closing' = [closing EXCEPT ![w] = 0]
  /\ pc' = [pc EXCEPT ![w] = "waiting"]
  /\ UNCHANGED <<incidents, pick, desk, passed, tripped, stale>>

-----------------------------------------------------------------------------
(* The control room *)

Transitions(from) ==
  CASE from = "open"        -> {"dispatched", "cancelled"}
    [] from = "dispatched"  -> {"in_progress", "open", "cancelled"}
    [] from = "in_progress" -> {"pending", "cancelled"}
    [] from = "pending"     -> {"resolved", "in_progress"}
    [] from = "resolved"    -> {"closed"}
    [] OTHER                -> {}

\* Assigning a crew writes the status back, dispatched instead of open.
Assigned_Mutant(from) == IF from = "open" THEN "assigned" ELSE from
Assigned(from) == IF from = "open" THEN "dispatched" ELSE from

DeskRead(d, i) ==
  /\ desk[d].at = "idle"
  /\ i \in Created
  /\ \E to \in Transitions(status[i]) \cup {Assigned(status[i])} :
       desk' = [desk EXCEPT ![d] = [at |-> "read", inc |-> i, from |-> status[i], to |-> to]]
  /\ UNCHANGED <<incidents, pc, pick, touched, closing, history, faults>>

DeskWrite(d) ==
  LET i == desk[d].inc
  IN /\ desk[d].at = "read"
     /\ status' = [status EXCEPT ![i] = desk[d].to]
     /\ stale' = IF status[i] # desk[d].from THEN stale \cup {i} ELSE stale
     /\ desk' = [desk EXCEPT ![d].at = "done"]
     /\ UNCHANGED <<creator, tags, restoredBy, aged, pc, pick, touched, closing,
                    passed, tripped, dropped, faults>>

\* An incident leaves the merge window.
Age(i) ==
  /\ i \in (Created \cap MayAge) \ aged
  /\ aged' = aged \cup {i}
  /\ UNCHANGED <<creator, status, tags, restoredBy, pc, pick, touched, closing,
                 desk, history, faults>>

-----------------------------------------------------------------------------
Init ==
  /\ creator = [i \in Incidents |-> NoWork]
  /\ status = [i \in Incidents |-> "none"]
  /\ tags = [i \in Incidents |-> {}]
  /\ restoredBy = [i \in Incidents |-> "none"]
  /\ aged = {}
  /\ pc = [w \in Works |-> "waiting"]
  /\ pick = [w \in Works |-> 0]
  /\ touched = [w \in Works |-> {}]
  /\ closing = [w \in Works |-> 0]
  /\ desk = [d \in Desks |-> NoRequest]
  /\ passed = [w \in Works |-> {}]
  /\ tripped = {}
  /\ dropped = {}
  /\ stale = {}
  /\ faults = 0

\* What a worker does with an item when nothing fails.
WorkStep(w) ==
  \/ LockSubstation(w)
  \/ LockFeeder(w)
  \/ \E i \in Incidents : Found(w, i)
  \/ FoundNone(w)
  \/ Attach(w)
  \/ Merge(w)
  \/ Create(w)
  \/ RemoveTag(w)
  \/ \E i \in Incidents : Restore(w, i)
  \/ CloseMomentary(w)
  \/ FinishReclose(w)

Failure(w) == Abort(w) \/ FailReclose(w)

ControlRoom == \E d \in Desks : DeskWrite(d) \/ \E i \in Incidents : DeskRead(d, i)

Next ==
  \/ \E w \in Works : WorkStep(w) \/ Failure(w)
  \/ ControlRoom
  \/ \E i \in Incidents : Age(i)

Spec == Init /\ [][Next]_vars

\* The queue keeps handing out what is not done (EverythingSettles).
FairSpec == Spec /\ \A w \in Works : WF_vars(WorkStep(w))

-----------------------------------------------------------------------------
(* Properties *)

\* An incident is opened only by a work that saw every earlier incident it
\* could have joined, and found it over: two events of one scope "can never
\* both see no open incident and both create one" (infra/intake.js:5).
OneIncidentPerFault ==
  \A i, j \in Created :
    i < j /\ InScope(creator[j], i) /\ Joins(creator[j], i)
      => i \in passed[creator[j]]

\* Once the last tripped device of an incident has reclosed, the incident is
\* restored by the reclose that emptied it, which is still at work; an active
\* incident is left behind without one only by a reclose that failed half way
\* or by a control room write over a status it had not read.
EmptiedIsRestored ==
  \A i \in (Active \cap tripped) \ (dropped \cup stale) :
    tags[i] = {} => \E w \in Works : i \in touched[w]

\* A reclose is idempotent (scada.js:283): cut short and run again, it still
\* restores the incident whose last tripped device it reported.
RecloseIsIdempotent ==
  (\A w \in Works : pc[w] = "done")
    => \A i \in (Active \cap tripped) \ stale : tags[i] # {}

\* "an incident is restored only once no tripped device remains open on it"
\* (scada.js:218).
RestoredWhenAllClosed ==
  \A i \in Created : restoredBy[i] = "SCADA" /\ status[i] = "resolved" => tags[i] = {}

\* It does hold when both unconditional writes look again: a trip joins an
\* incident that is still active and in no reclose's hands, and the control
\* room writes a status only over the one it read.
LooksAgain ==
  /\ \A w \in Works : pc[w] = "merge" /\ pc'[w] = "done" /\ w.tags # {}
       => pick[w] \in Active /\ \A v \in Works : pick[w] \notin touched[v]
  /\ stale' = stale

RecheckedSpec == Init /\ [][Next /\ LooksAgain]_vars

\* However workers interleave, fail and retry, and whatever recloses and the
\* control room write, incidents are opened as IncidentOpening says: of works
\* that could report one fault, one at a time decides that there is no incident
\* to join and opens one (lockScope, infra/intake.js:4).
OneFault(w, c) == SameScope(w, c) /\ SameCause(w, c)
Creating == {w \in Works : pc[w] = "create"}
Done     == {w \in Works : pc[w] = "done"}
Opening == INSTANCE IncidentOpening WITH
             opener <- creator, looking <- Creating,
             seen <- [w \in Works |-> IF w \in Creating THEN passed[w] ELSE {}],
             served <- Done
OpensOnce == Opening!Spec

\* Every item is done in the end: the scope locks never leave two workers
\* waiting for each other, and none is left behind by a failed transaction.
EveryWorkServed == \A w \in Works : <>(pc[w] = "done")
=============================================================================

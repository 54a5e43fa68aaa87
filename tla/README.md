# Outage Management System: specifications, model checking and proofs

This directory specifies the server of the outage management system (`src/backend/src`)
in TLA+. The modules are read from the code, not from its documents; `PROJECT.json` maps
every definition to the lines it stands for. Model checking is done with TLC on small
instances, the central invariants are proved with TLAPS for every value of the constants.

## 1. The system and its parts

Events (SCADA trips and recloses, customer complaints) are accepted into a durable queue.
Workers, in any number of processes, take them from there and create, join or restore
*incidents*. The control room assigns crews, moves incidents through their status, plans
outages and issues permits to work. Crews report from an app that works off line.
Background jobs tell the DMS, the escalation list and the customers what happened.

| component | state it keeps | operations | hard behaviours | what makes it correct |
|---|---|---|---|---|
| durable intake queue `infra/intakeQueue.js` | `intake_queue`, `intake_dead_letter`, per loop: claim token, claimed rows, held leases | enqueue or coalesce, claim (two lanes, groups), heartbeat, process one / a group, fail, dead-letter, effects | ids before visibility, coalescing into a row somebody holds, stalled workers, lost COMMIT answers, crashes, poison items | nothing lost, stored exactly once, order per tag, only the holder settles, everything settles |
| intake transactions `infra/intake.js`, `realtime/intakeWorker.js` | advisory locks per substation, feeder, external id | lock scope, retry a transaction, answer a complaint synchronously | lock order, retry of what was done, answer racing the worker | one incident per fault, no deadlock, the answer is the stored one |
| complaints `realtime/complaintIntake.js` | complaints, trouble calls, incidents | match, merge, create, attach to a planned outage | duplicate submissions, redelivery, a caller whose process dies | one call per external id |
| SCADA ingest `infra/scadaIntake.js`, `infra/ids.js` | alarm rows with their event key, queue rows, memory buffer | gather, write a batch, answer each request | batches that overlap, lost COMMIT answers, resends to another process, deadlock of two batches | each event stored and queued once, true answers, order |
| trips and recloses `realtime/scada.js` | `open_trip_tags`, status, `restored_by` | trip, group of trips, reclose, restore, close as momentary | the reclose runs outside the scope locks and outside one transaction | restored only when all devices are closed, and then restored |
| incident lifecycle `domain/lifecycle.js`, `infra/repo.js`, `routes/api.js` | status, crew, jobs | status PATCH, assign, reassign, call desk | unconditional writes after a read | no illegal or lost transition |
| planned outages and permits `routes/plannedOutages.js`, `domain/plannedOutage.js` | plan, steps, permits, automatic status | submit, approve, confirm a step, request / issue / return a permit, reschedule, cancel | several screens on one plan, job status outside the plan's lock | no line is energised while a permit is out |
| crew jobs `domain/jobWorkflow.js`, `routes/api.js` | job status, holder, completion forms, newest update | status update, form, undo, reassign, return for correction, cancel | a handler is many statements; replays from the phone, two requests for one update, the control room in between | each update takes effect once, by the crew that holds the job, never backwards |
| crew app queue `src/src/lib/offlineQueue.js` | queued updates, forms not delivered | queue, send at once, flush, drop refused | lost answers, time-outs, the app killed in mid-flush | no form lost, the queue drains |
| workload rebalancing `domain/rebalance.js` | proposals | propose, apply, reject | jobs moved on meanwhile | only unstarted jobs move |
| exclusive jobs `infra/jobs.js` | session advisory locks | try, lose, re-take, exit | dropped database session | two runners only while one has lost its session; one in the end |
| restoration `realtime/restoration.js` | process memory, audit rows | hear, look, post with retries, record | a look before an await, lost answers, a row among the newest 50 | one command per restoration |
| escalation `realtime/escalation.js`, notices `realtime/plannedNotices.js` | claim rows, the notified mark | scan, claim, send, record; mark, skip, move the window, publish | crash or failed statement between claim and record, mark and publication; lossy bus | each level's SMS at most once; each window's notice once |
| bus, relay, caches, notifier | nothing durable | publish, fan out | lossy | none on their own |
| network model, prediction, KPIs, reports, importers, map proxies, screens | read-only or derived | queries | none concurrent | functional |

How they interact: routes and the SCADA ingest *enqueue* (and may wait for) queue rows; a
queue worker *calls* the SCADA and complaint handlers inside the transaction that deletes
the row and *runs* their effects (bus publishes) after the commit; the bus *calls back*
restoration, escalation, notices and the notifier; incidents are *shared state* between
the workers, the control room's routes, the crew's routes and the planned outage plan.

The hazards the code is exposed to, each at its line, are listed in `PROJECT.json`.

## 2. The modules and how they follow the code

| module | kind | models |
|---|---|---|
| `IntakePromise` | abstract specification | what the queue promises its callers |
| `IncidentOpening` | abstract specification | what the scope locks promise the incidents |
| `SafeSwitching` | abstract specification | what switching promises whoever works on the line |
| `CrewLedger` | abstract specification | what the job endpoints promise crews and control room |
| `JobOwnership` | abstract specification | what exclusive jobs are: one owner at a time, strays apart |
| `IntakeQueue` | component | `infra/intakeQueue.js`, with the producer's transaction of `infra/scadaIntake.js` |
| `OutageIntake` | component | `realtime/scada.js`, `realtime/complaintIntake.js`, `infra/intake.js`, the status writes of `routes/api.js` |
| `PlannedOutage` | component | `domain/plannedOutage.js`, the plan transactions of `infra/repo.js`, `routes/plannedOutages.js`, the assign request of `routes/api.js` |
| `CrewJobs` | component | the job endpoints of `routes/api.js` with `domain/jobWorkflow.js`, `domain/lifecycle.js`, `domain/rebalance.js` |
| `OfflineQueue` | component | `src/src/lib/offlineQueue.js` and its callers in `NativeApp.jsx` |
| `FieldWork` | composition | phones and server: requests, answers, time-outs, resends |
| `ScadaBatch` | component | `infra/scadaIntake.js`, `infra/ids.js` |
| `ComplaintIntake` | component | `realtime/intakeWorker.js` and the transaction of `realtime/complaintIntake.js` |
| `IntakeRequests` | composition | both, with the processes that serve them and die |
| `ExclusiveJobs` | component | `infra/jobs.js` |
| `RestorationCommand`, `PlannedNotice`, `Escalation` | components, extend `ExclusiveJobs` | `realtime/restoration.js`, `realtime/plannedNotices.js`, `realtime/escalation.js` |
| `BackgroundJobs` | composition | the three, as the work of exclusive jobs |
| `MC...` | instances | the events, works, crews, drafts and updates TLC enumerates |
| `...Proofs` | proofs | theorems about every instance |

In all modules an action is what the database makes atomic: one SQL statement outside a
transaction, or the locked part of a transaction seen at its commit. Everything between
two actions may be interleaved with any other actor. Row locks, sequences, advisory locks
and READ COMMITTED visibility are taken from PostgreSQL as documented. Time, wording,
severity, customer counts and audit rows are abstracted. A definition `X_Mutant` before
an `X` is the same code with a plausible mistake; it is used by no specification and only
serves to show that a property notices it (`PROJECT.json`, "mutants").

### IntakeQueue and IntakePromise

A row is *inserting* between its INSERT (which draws the id) and the producer's COMMIT,
then *queued*, then *gone*; an aborted producer leaves it *rolledback*. This difference
between drawing an id and being visible is the reason for most of the module.

| code | action |
|---|---|
| `enqueue` INSERT, commit or failure of the producer's transaction | `Insert`, `CommitInsert`, `RollbackInsert` |
| `enqueue`, the coalescing UPDATE of the tail row | `Coalesce` |
| `claimHeads`, `claimGroups` (`FOR UPDATE SKIP LOCKED`) | `Claim`, through `Head`, `Lane`, `Groups`, `Unlocked`, `Pick` |
| `heartbeat`; lease running out under a live claim; back-off passing | `Heartbeat`, `LeaseRunsOut`, `ComesDue` |
| `exhausted` (claimed more often than allowed) | `DropExhausted` |
| `processOne`, `processGroup`: lock and check the rows, work and DELETE, COMMIT | `Begin`, `Commit` |
| an error in them: back to one by one, or to `failed` | `Abort` |
| COMMIT done but its answer lost | `CommitUnanswered` |
| `IntakeRejected`, its dead letter | `Reject`, `DeadLetterRejected` |
| `failed`: back off or dead-letter | `Fail` |
| `runEffects`, the end of a claim | `RunEffects`, `Finish` |
| a process that dies | `Crash` |

Complaints and SCADA rows use separate lanes as in the code; the order of a group inside
a transaction is its id order and is not told apart further. `IntakePromise` knows only
the fate of each event (*unsent, arriving, accepted, stored, dead, refused*) and, for each
event, what had been accepted when it arrived. `Fate` maps the tables to it; `KeepsPromise`
is the statement that the queue implements it.

### OutageIntake

A *work* is an item a queue worker is running; the tags of a trip are those of the feeder
group that runs as one transaction. `LockSubstation` and `LockFeeder` are `lockScope`
(substation first; shared when a feeder is known). `Found` and `FoundNone` are the look-up
of `activeIncidentsInScope` with its ordering (`SameScope`, `SameCause`), `Merge`, `Create` and `Attach` the commit
that follows (a look-up and its write are separate steps: the write is unconditional).
`Abort` is a rolled-back transaction, which the queue runs again.

A reclose has no transaction and no scope lock: `RemoveTag` (one UPDATE), `Restore` and
`CloseMomentary` (each its own commit), `FinishReclose`; `FailReclose` stops it anywhere
between. The control room's PATCH is `DeskRead` and `DeskWrite`: the transition is checked
on the row read, the write is unconditional; `assign` writes through the same pair.
`Age` moves an incident out of the 240 minute merge window.

What it takes from the queue: undone items are handed out again, and items of one tag one
at a time (`Due`). The queue module shows this for events accepted one after the other
(`HeldBackByTag`); the exception it found (`OneInFlightPerTag`) is not repeated here.
Merging into a planned outage is `Attach` only; the status writes that follow a crew's
progress are in `CrewJobs`.

`IncidentOpening` has no locks, transactions or rows: works *look* and find nothing, *open* an
incident, *are served* otherwise, or *forget*. Of works that could report one fault only one may be
between looking and opening, and it opens nothing beside an incident it could have joined
and had not seen. `Opening` maps the tables to it: who created an incident, who is at
`create` with what in its snapshot, who is done. `OpensOnce` states that the intake implements it.

### PlannedOutage

Every plan and permit change is `withPlan`: lock the plan's row, load the outage, check a
rule, write, apply `nextAutomaticStatus` up to six times, commit. The lock makes these
transactions one after the other, so a transaction is `Begin` (the status it loaded is
`seen`), then its one change ending in `End`, or `Rollback`. The incident row is *not*
locked: the assign request (`AssignRead`, `AssignStatus`, `AssignJob`) may come between,
and so may the crew's handset, which reads the permit or the job first and writes later
(`AskStatus`, `WriteStatus`, `AskPermit`, `RequestPermit`, `GiveUp`). `Settled` is the six rounds.

| code | action |
|---|---|
| `replaceDraftSteps`, `approvePlan`, `unapprovePlan`, `confirmSwitchingStep` | `ReplaceSteps`, `Approve`, `Unapprove`, `Confirm` |
| `markNotified`, `reschedulePlannedOutage`, `cancelPlannedOutage`, `closePlannedOutage` | `Notify`, `Reschedule`, `Cancel`, `Close` |
| `requestPermit`, `issuePermit`, `refusePermit` / `withdrawPermit`, `returnPermit` | `RequestPermit`, `Issue`, `RefuseOrWithdraw`, `Return` |
| crew reports, window extensions, answered requests sent again | `Touch` (no plan change, but the automatic status runs) |
| reassignment requests and their dismissal | `AskReassignment`, `DismissReassignment` |

Who may call an action is in the caller's hands, so any crew or operator does. The window and
the customers' notices are left out here (the notices are `PlannedNotice`'s). Which of several active jobs an assign looks at
depends on their times: any. `atWork` and `overwritten` are history: crews that
started and have not declared the line clear, and whether an assign wrote a status the
outage had left.

`SafeSwitching` knows how far the line is isolated and restored (*no, partly, wholly*) and the
state of each permit, and no plan, status or transaction. Nothing in it goes backwards; a permit
is issued only over a wholly isolated line; nothing is closed while one is asked for or held.
`Switching` maps the confirmed steps and the permits to it; `KeepsSwitching` is the refinement (it compares
only steps that touch the tables the line is computed from, which saves TLC half its time).

### CrewJobs, OfflineQueue and FieldWork

`CrewJobs` is the server with one incident and its jobs. A handler is as many actions as it
has awaited statements, so anything may come between its reads and its writes; `req[s]` is
what the handler in slot `s` has in hand, `desk[d]` what an order of the control room has.

| code | action |
|---|---|
| `PATCH /mobile/jobs/:id/status`: checks and `decideStatus` | `Receive`, through `NotYours`, `Locked`, `Decision` |
| its conditional write, the miss and up to three tries | `Land`, `Miss` |
| `addJobUpdate`; the incident's status that follows | `Log`, `Progress` |
| the same on a crew's behalf, without the phone | `OnBehalf` |
| `POST .../completion`, `POST .../reopen` | `InsertForm`; `AskReopen`, `Reopen` |
| `assign`: reads, incident, job | `AssignRead`, `AssignIncident`, `AssignJob` |
| `return-for-correction` | `ReturnRead`, `ReturnJob`, `ReturnIncident` |
| `PATCH /incidents/:id/status`, the jobs of a cancelled incident | `StatusRead`, `StatusWrite`, `CancelJobs`, `CancelJob` |
| reassignment requests | `AskReassign`, `Dismiss` |
| a workload proposal saved, applied in one transaction, put aside | `Propose`, `ApplyProposal`, `CloseProposal` |
| the undo window; a reclose; a handler or an order cut short | `WindowCloses`, `ScadaRestores`, `Cut`, `CutDesk` |

`OfflineQueue` is a phone: `TapSend` and `TapQueue` (at once, or behind what waits), `FlushSend`
and `FlushAnswered` (oldest first, `Breaks` on a refusal that is none), `DirectAnswered`, `Keep`
and `Clear` for forms not delivered, `Kill`. `FieldWork` puts the request of the one into a
slot of the other: `TapOnline`, `SendNext`, `DirectBack`, `FlushBack`. A phone that stops
waiting (`DirectTimeout`, `FlushTimeout`) leaves the handler at work; the update it sends
again is a second request for the same update. `Orphan` drops an answer nobody waits for.

`landed`, `revived`, `overlap` and `unsure` are history: updates applied since their job
last came back, a finished job that came back beside another, two decisions of the
control room at work at once, and an incident left behind by a cut or a stale write.

`CrewLedger` is the same service with no requests, reads and retries: an update takes effect as one
step on the job as it is, by the crew that holds it, up the ladder, and not again until the job
comes back; a proposal moves a job as it was when it was made. `Ledger` maps the tables
to it (`landed` is what the ledger has `applied`); `KeepsLedger` is the refinement. It says of each write what
`OnlyTheHolderUpdates` and `ProposalsMoveUnstarted` say, and that no other write exists.

### ExclusiveJobs, its three jobs and BackgroundJobs

| code | action |
|---|---|
| `attempt`; the lock connection opened | `Attempts`, `Connects` |
| the session ends; `lost` is told; the locks re-taken, or exit | `SessionDies`, `Notices`, `Retakes`, `Exits` |
| a crash, a container restart | `Crashes`, `Boots` |
| `startRestorationPublisher`, `alreadyPublished`, `postWithRetry`, the audit row | `Hears`, `Looks`, `Posts`, `PostFails`, `Audits` |
| its SELECT or its audit INSERT fails while the process lives on | `LookFails`, `AuditFails` |
| fifty newer audit rows | `Buries` |
| the lead time begins; `sendDueNotices`, `publishNotice`, the bus and relay, the notifier | `ComesDue`; `Scans`, `Marks`, `Publishes` (`Airs`), `Tells` |
| `markNotified` or a statement of the notifier fails, or the answer of a COMMIT is lost | `MarkFails` (`MarkIsLost`), `TellFails` |
| the operator's `POST .../notify`, with `skip` or without | `OperatorSkips`, `OperatorMarks`, `OperatorPublishes` |
| `PATCH /planned-outages/:id`: a new window; the second notification if customers had the first | `Reschedules`; `OperatorMarks` or `OperatorIsLate`, `OperatorPublishes` |
| one of the operator's transactions fails, or the control room's process ends | `OperatorFails` |
| `scanEscalations`, `escalate`: claim, SMS, outcome; an hour of breach | `Looked`, `Claims`, `Sends`, `Records`; `Ages` |
| the claim's INSERT or the outcome's UPDATE fails, done or not | `ClaimFails`, `RecordFails` |

A process that ends takes along what was at work in it (`Gone`). The three jobs share only the
processes, so a behaviour has work for one of them (`Parts`). `lapse`, `missed`, `doubled`
and `cut` are history, and name why a command, notice or outcome may be repeated or missing.

A notice belongs to a *round*, one per window the outage has had: a new window clears the mark,
so a second notice is then intended, and `told` counts round by round. An SMS has an outcome: the
gateway may refuse it without an exception (*failed*, never tried again), and a level without a number
sends none (*skipped-no-contact*); `sms` counts what was handed to the gateway.

`JobOwnership` has no sessions and locks: a job is run *in good standing* by at most one process;
processes fall out of standing and run on as *strays*, get a job back only while nobody else has
it, or stop. `Ownership` maps the lock table to it (who holds the lock is in standing, who runs
without it strays); `KeepsOwnership` is the refinement.

### ScadaBatch, ComplaintIntake and IntakeRequests

Requests are numbered in the order they arrive. A batch is written statement by statement:
`InsertAlarm` is one row of the multi-row INSERT, because each row may have to wait for the
open transaction that wrote its key (`Holders`); `InsertItems`, `Commit`, `Answer` follow.
`CommitUnanswered`, `RollBack`, `BreakDeadlock` (PostgreSQL ends one of a circle) and `Dies`
are its ends. Rows of open transactions are in `alarms` but not `Stored`. `Flush` starts
a batch whether or not the one before it has ended, as the code does.

| code | action |
|---|---|
| `submitComplaint`: look up, enqueue, wait, find, why not | `Submits`, `Enqueues`, `Finds`, `AsksWhy` |
| the worker: claim, `lockExternalId`, look, store with DELETE | `Begins`, `Locks`, `Decides`, `Commits` |
| the retried savepoint, a failure, exhaustion, a death | `Retries`, `Fails`, `Exhausted`, `WorkerDies` |
| the caller's process dies | `ChannelDies` |

A sender that was not told of its alarm, and a caller that got no answer, may send again to
any process. What the queue does between is taken from `IntakeQueue`: one worker per item.

## 3. Runs

| run | instance and bounds | shows |
|---|---|---|
| `queue_store` | a breaker trips, recloses, trips, another of the feeder trips; 2 loops, 3 rows, 1 fault (380,248 states) | nothing lost to coalescing, order per tag, stored once, effects follow commits, only the holder settles, implements `IntakePromise` |
| `queue_live` | a trip and its reclose, a complaint in its own lane, 1 fault, `FairSpec` | types; everything accepted settles |
| `queue_in_flight` | one breaker, no faults | **violated**: two items of one tag in flight |
| `outage_intake` | a group trips, both breakers reclose, one trips again, a substation-wide complaint, 1 control room request, 1 failure, 3 incidents, `FairSpec` (29,590 states) | one incident per fault, implements `IncidentOpening`, emptied incidents are restored, every work is served |
| `outage_restored` | a second breaker trips while the first recloses | **violated**: resolved with a device open |
| `outage_idempotent` | both breakers reclose, 1 failure | **violated**: a retried reclose restores nothing |
| `planned_outage` | 2 crews, 2 jobs, 2 permits, 2 assign requests, a plan of 3 steps | no switch closed under a permit, order of switching, status follows the plan, implements `SafeSwitching` |
| `planned_live_line` | 2 crews, 1 job, 1 permit | **violated**: supply restored with a crew at work |
| `field_work` | 2 jobs, 2 crews, 1 phone with a form and *Work Complete*, 3 requests and 2 orders at once, 2 orders, requests of others (*On Site*, *Work Started*) and faults, `FairSpec` (196,621 states) | implements `CrewLedger`; updates land once, never backwards; no form lost; one active job; every update is answered |
| `background` | 2 processes, 2 jobs, 2 troubles, 2 handlers, 2 events, 2 levels, 2 windows, `FairSpec` (302,968 states) | implements `JobOwnership`; one command, one notice per window, one try per level with its outcome on record, except for the named lapses |
| `intake_requests` | a breaker's trip and reclose in 4 requests and batches of 2, or 2 submissions for 2 workers; 5 requests and troubles together, `FairSpec` (226,519 states) | stored once, true answers, order, everybody is answered |
| `scada_order` | 2 requests, one process | **violated**: the reclose stands before the trip |

*Bounds.* `MaxId` (3) rows and three events let a row be coalesced into, held and followed; two
loops suffice for every race of a holder with a successor. `MaxAttempts = 2` reaches a
retry, the last attempt and one claim too many; `BatchMax`, `GroupMax` and `ClaimScan` of 2
give groups, their fallback and a scan that is cut off. `Claims` is five tokens: three
rows and the other loop use at most four, so a loop always finds one that is free (`FreshTokens`).
`MaxFaults` bounds crashes, stalls and lost answers *together*. `MaxIncidents = 3`
exceeds the scopes by two, so a duplicate and its duplicate fit; `MayAge = {1}` lets the
first incident leave the window. Three steps give an isolation with an order and
a restoration; two crews and two jobs give a hand-over.

`field_work`: the two updates are the end of the ladder with its form; the steps before come
from the control room on the crew's behalf (`Marks`), through the same conditional write. Three slots
let a resent update, its first request and one of those meet; two desks let orders overlap. `Budget` counts
orders, proposals, recloses, requests of others and faults together: two are enough for a
decision to fall into another, or for two time-outs, kills or cuts (`MaxFaults = 2`). Three updates of the
phone at once are four times the states; the theorems of section 5 are for any number. `background`:
a trouble is a lost session, a crash or a failed call: two lose a session and then a call, or
a call and then the process that knew of it; two handlers overlap; with two windows a
process may still hold the notice of the first when the second is announced. Each
exception in section 4 was seen to occur by itself, none being left to another.
`intake_requests`: four requests make two batches of two with both keys, enough for a copy within a
batch, a copy in another, and two batches in opposite order that deadlock; a resend after a
death arrives at the restarted process, which for the database is another one. `Budget = 5`
leaves one trouble with four requests, three with two; two submissions
leave three.

`SYMMETRY` is over loops (no property or choice names one; it is off in `queue_live`, which
has liveness and two lanes) and over jobs, which are only compared for equality.

Deadlock is checked in `PlannedOutage`, where people may always act, and in
`planned_live_line`. It is off elsewhere: these systems rest when everything is settled
and the bounds are used up, and liveness takes its place.

*Fairness.* The queue: weak fairness of each loop's own step (a loop is a `for(;;)` that
survives its errors), of time passing (`ComesDue`), and of the database deciding a producer's
open transaction. Producers, crashes, heartbeats and stalls have none. The intake: weak
fairness of a work's own steps, because the queue hands undone work out again; none for
failures, for the control room or for time. Planned outages: none, people act. Field work: each
handler goes on until it has answered and the answer is taken (`Serving`), and a phone
with something queued sends it (`Syncing`: the app syncs on a timer, on reconnection and
after each press); nobody has to press a button and no order has to end. Background jobs:
timers come again, awaited calls return, containers restart (`Goes`, `Exits`, `Scans`,
`Marks`, `Publishes`, `Escalates`). Intake requests: the batch timer, statements of a transaction, PostgreSQL
ending a deadlock, callers and loops (`Gathers`, `Batch`, `Caller`, `Lane`); none for senders,
failures or deaths.

## 4. What the violated runs show

Five statements made in comments do not hold of the code; each is quoted in
`PROJECT.json`, "findings".

1. *At most one item per tag is in flight* (`intakeQueue.js:226`): ids are drawn before rows become
   visible. What does hold, and is proved, is `HeldBackByTag`. With rows of a tag that become
   visible in the order of their ids (`OrderedSpec`) the statement is true: `InFlightWhenOrdered`.
2. *An incident is restored only once no tripped device remains open* (`scada.js:218`): a trip of
   another breaker joins between the reclose's UPDATE and its unconditional write. It is true when
   a trip joins only an incident still active and in no reclose's hands, and the
   control room writes only over the status it read (`RecheckedSpec`): `RestoredWhenRechecked`.
3. *A reclose is idempotent* (`scada.js:283`): once its tag is removed, a retry finds no incident.
   `EmptiedIsRestored` shows this and a stale control room write are the only ways an
   emptied incident stays active, and `WholeReclosesAreIdempotent` that the statement is true
   while no reclose has failed between its commits.
4. *Work Started needs the permit issued* (`plannedOutages.js:90`): read before, written
   after a return and a restore step. Making check and write one step leaves a second way:
   after a hand-over the job's latest permit is the old crew's. One step *and* a check
   by crew (`PermitCheckedSpec`) are enough: `NobodyWorksLiveWhenChecked`.
5. *Queue items are inserted in arrival order, so the queue's per-tag ordering is the order the
   requests arrived in* (`scadaIntake.js:16`): two batches of one process are written side by side.
   `OrderKept` is what holds; when a process flushes only after its last batch has ended
   (`SerialSpec`) the statement is true: `ArrivalOrderWhenSerial`.

The conditions named here are not in the code. Each is a restriction of the specification, stated
beside the property it concerns (`...Spec == Init /\ [][Next /\ ...]_vars`; for the third the property itself is
qualified), and says what the finding hinges on: with it the statement holds for every value of the
constants. Before they were proved, the restricted specifications were checked with the
configuration of the violated run, its SPECIFICATION exchanged.

Where a statement made in the code holds but for some cases, the property names the cases
and the checks show that the model has no others:

| statement | property | the cases |
|---|---|---|
| the only way out of a planned outage is through restoring (`lifecycle.js:17`) | `StatusTellsThePlan` | an assign request writes back the status it read (`overwritten`) |
| "One active job per incident. ... A started job never moves" (`api.js:452`) | `OneActiveJob`, `NeverBack` | two decisions of the control room at once, an assign beside a proposal being applied (`overlap`); a finished job reopened or returned beside its successor (`revived`) |
| an incident whose job is finished awaits verification | `FinishedIsPending` | a handler cut short, a slow *On Site* or a hand-written status (`unsure`) |
| "Kept until delivered so a form is never lost" (`offlineQueue.js:20`) | `FormNotLost` | refused, another crew's job, replaced by a later form, the app killed while it was first sent (`waived`) |
| never "sends the same restoration command twice" (`restoration.js`) | `CommandedOnce` | overlapping handlers, a lost answer, a crash before the audit row, an audit INSERT that failed, a row no longer among the newest 50 (`lapse`) |
| "a restart never loses or repeats a notice" (`plannedNotices.js:4`) | `NoticeOnce` | a crash between mark and publication, a COMMIT whose answer is lost, no listener, a loss in the relay, a failing notifier (`missed`), two notifiers (`doubled`). By window: one skipped or moved before it was sent is not announced, and a new window gets its own |
| "Each level's SMS goes out once" (`escalation.js`) | `EscalatedOnce` | none for "at most once". What the row says agrees with the one try (*sent*, *failed*) or with none (*skipped-no-contact*), but a claimant that ended or whose UPDATE failed leaves *sending*, with an SMS or without (`cut`) |

Behaviour met on the way that no property forbids: a crew's *Work Complete* sets an incident
back to *pending* though it was resolved or closed (`api.js:1401`); a resent *Work Complete*
may finish a job that was returned for correction in between; a reassignment request counts as
the crew's newest update, so older queued ones become late; a PATCH on a resolved
incident publishes it as resolved again; events without an identity are stored as often as
they are sent, as `ids.js` says; two batches with the same keys in opposite order
deadlock, and every request of one is answered with an error.

## 5. Proofs

Everything below holds for every value of the constants that meets the `ASSUME`s of the
component's module (sizes are naturals, complaints have no tag, a reclose has one, sentinel
values are outside their sets). TLC evaluates these assumptions in every passing run.
The proofs use no fairness.

**Queue** (`IntakeQueueProofs`). `TypeCorrect` is inductive by itself. The rest is built in layers:

- `ExactlyOnce` needs `OnceInv`: ids not yet drawn have no row, and rows not yet committed no claim (`FreshIds`).
- `NothingLost` and `OnlyTheHolderSettles` need `ClaimInv`: a loop at work has a token
  (`HasToken`), a row with a claim has been counted (`Counted`), and what a loop has
  read of a row it still holds is everything the row carries (`SnapHeld`). The last one
  is why coalescing is safe: it only touches rows with `attempts = 0`.
- `PublishedAfterCommit` needs `EffectsInv`: effects `Pending` in a loop belong to commits not yet published.
- `HeldBackByTag` needs `OrderInv`: events accepted before another have smaller ids
  (`BeforeOlder`), are committed (`BeforeCommitted`), and hold the later row back (`HeldBack`).

`InFlightWhenOrdered` uses `TurnInv`: `ClaimInv`, that a loop has rows in hand only while its claim
names them (`HandsFree`), and that a row still undecided or unsettled keeps every later row of its tag
unclaimed (`TurnKept`).

**Refinement of the queue** (`IntakeRefinementProofs`). `QueueKeepsPromise`: with `PromiseInv` (an event
with a row, rows whose events are alike, a row alone while inserting, stored rows gone) every
step is an arrival, a decision, a settlement in turn, or a stutter.

**Intake** (`OutageIntakeProofs`). `ScopeLocksHold` uses `LockInv`: who holds which scope
(`SubstationHeld`, `FeederHeld`), that a work that found nothing has seen every candidate
(`Settled`), the order of creation (`InOrder`) and that creators are done (`CreatorsDone`);
`CreatorsExcludeEachOther` is the heart of it. `EmptiedIncidentsAreRestored` uses `RestInv`, which
adds what each reclose has in hand (`Joined`, `InHand`) and what a desk may have read (`DeskLegal`).
`IncidentsOpenOnce`, the refinement, needs `LockInv` for the two guards of the abstract specification: who
looks holds the scope, so nobody who could report the same fault does (*look*), and
has seen every candidate (*open*). `WholeReclosesAreIdempotent` follows from `RestInv`;
`RestoredWhenRechecked` from `RechInv`, which adds `SafelyRestored`: nothing is open on what a reclose holds or
has restored.

**Planned outage** (`PlannedOutageProofs`). A stale assign may write any status, so
safety cannot rest on the status. `SwitchInv` rests on the mark a confirmed step leaves:
permits exist only under switching (`PermitsUnderSwitching`), switching only in an approved
plan (`ApprovedOnceMarked`). From it follow `LineStaysDead` and `StepsFollowThePlan`.
`StatusFollowsThePlan` uses `StatusInv` (`InTouch`: the status a transaction loaded is the
current one unless overwritten) and the lemma `SixRounds`: from every status six rounds are enough.
`LineIsSwitchedSafely`, the refinement, goes through the actions with `SwitchInv` and `ApprovedIsolates` (an approved
plan has something to isolate, so *wholly isolated* is never empty). `NobodyWorksLiveWhenChecked`
uses `AtWorkHoldPermit`: who is at work holds an issued permit, so no restore step is confirmed.

**Field work** (`FieldWorkProofs`). `Inv` says what a handler may have in hand (`GoodRequest`: a
write is for the crew it checked, up the ladder), what an order may have (`GoodOrder`), and
of each phone that every form it made is safe or in flight (`PhoneOK`). From it follow
`OnlyTheHolderUpdates`, `ProposalsMoveUnstarted`, `FormsAreNotLost` and `JobsNeverGoBack`. `UpdatesLandOnce`
adds `LandedOK` (the job of a landed update has not fallen below it), `OneActiveJobHolds` adds
`OneDecision` (who may be between reading and writing while no decision overlaps), and
`FinishedJobsAreReported` adds `Reported`: while a job is finished, the incident awaits
verification, is over, or some request is still on its way to say so. `JobsKeepLedger`, the refinement,
has one lemma per handler action: the write of a handler that checked crew and status
(`GoodRequest`) is an abstract update, an order's write (`GoodOrder`) an assignment, a cancellation or a job that
comes back, and every read, answer, time-out and resend a stutter.

**Background jobs** (`BackgroundJobsProofs`). `JobsInv` ties the lock table to what runs, which is also what the refinement
`JobsKeepOwnership` rests on: a lock that is free has no owner in standing. `CommandInv`,
`NoticeInv` and `EscalationInv` say what is in whose hand when nothing has lapsed. Of each round
(`RoundInv`): while it is not on record as sent nobody holds it and nobody was told; once it is, one
process or the desk holds it, a notifier has it, or customers were told, unless it is `missed`, and
only one of these unless it is `doubled`. Of each level (`LevelInv`): the row, the claimant's place
and the number of tries (`Tries`) agree.

**Intake requests** (`IntakeRequestsProofs`). `ScadaInv`: a request of an open batch has its alarm, will
have it, or a copy has it (`Represented`), keys are unique over all rows, committed or not
(`KeysUnique`), items are those of alarms and numbered in order (`ItemsOrdered`, with the lemma
`NumbersInOrder`). A roll-back and a death are one lemma, `EndsKeeps`: whole batches end and take only
uncommitted rows with them. `ComplaintInv`: the lock on an external id has one owner, and
what it saw stays so (`IdLocked`). `ArrivalOrderWhenSerial` uses `SerialInv`, which adds that requests
are numbered as they arrive (`Numbered`) and that of one process an earlier batch has ended, with
smaller ids, before a later one is written (`InTurn`).

*Only model-checked:* liveness (`EverythingSettles`, `EveryWorkServed`, `EveryUpdateAnswered`,
`RunsInOne`, `DueIsDone`, `EverybodyIsAnswered`), because fairness and ENABLED are outside what
the prover supports. Every invariant and every action property of a passing run, the
five refinements among them, is proved. The five violated properties are counterexamples, each with the theorem
above on what it hinges on. No recursion over data is needed in these modules.

## 6. What is not modelled

`PROJECT.json` lists every component with its reason. In short:

- *Screens, reports, KPIs, importers, map proxies and simulators* are most of the repository's
  lines. They compute or show what is stored elsewhere and have no concurrent protocol of
  their own; a model of them would restate them. This is why the map covers a small
  share of all lines, while it covers nearly all code that changes an incident, a job, a plan,
  a queue row or a command.
- *The network model* (`networkGraph.js`, `topology.js`, `sectionalize.js`, `supplyTrace.js`,
  `prediction.js`): pure functions over a graph, which could be checked against a definition by
  reachability. Not done.
- *The bus, the relay and the caches* are lossy by design and enter the models of their listeners
  as channels that may lose an event.
- *Data in modelled components*: photos, scans, checklists and work orders wait in the phone's queue as
  forms do; the engine that computes a workload proposal; the call desk's verdicts; the
  window and the customers' texts of a planned outage.
- *Several reads as one*: the reads a handler makes one after the other before its first write are
  one step where they read rows of one job or permit (`AskStatus`, `AssignRead`, `Receive`), and `Log` joins
  a crew's log entry with the read of the incident that follows it. Orders by a clock
  (`opened_at`, `requested_at`) are orders of commit (`Best`, `Latest`), and of the items of one tag
  `OutageIntake` works on one at a time (`Due`), which is stronger than the queue gives (section 4).
- *Connections the server takes for alive*: a dead process's transaction rolls back, and a lost session frees its
  locks, at once. Were the server to notice later, others would wait longer, and a process
  that asks for its own old lock would exit, as it does when another process has it.
- *An approved plan taken back* while its notice is on the way, and notices of cancelled and extended
  windows: `PlannedNotice` keeps the plan approved.
- *Fault plans*: a fault incident's own switching plan runs through `PlannedOutage`'s rules
  without permits.

## 7. Plan

Done: `IntakeQueue` with `IntakePromise`, `OutageIntake` with `IncidentOpening`, `PlannedOutage` with
`SafeSwitching`, `FieldWork` with `CrewJobs`, `OfflineQueue` and `CrewLedger`, `BackgroundJobs` with its four
components and `JobOwnership`, `IntakeRequests` with `ScadaBatch` and `ComplaintIntake`. Left, in the order of importance:

| what | properties aimed at |
|---|---|
| fault plan: `PlannedOutage` with no permits and `incidentStatusAfterStep` | the incident moves only on its last restore step |
| network trace: sectionalising and supply tracing as recursive functions over a small graph | the isolating devices found cut the fault off from every source; what is restored is what is reachable |
| abstract specification of `IntakeRequests` | what its senders and callers are promised: an answer is final and about their own event |
| composition of `OutageIntake` with the queue | that it needs no more than `HeldBackByTag`, by replacing `Due` with the weaker order the queue gives |

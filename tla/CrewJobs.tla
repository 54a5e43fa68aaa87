------------------------------- MODULE CrewJobs -------------------------------
(***************************************************************************)
(* The server side of a crew's work on one fault incident: the job         *)
(* endpoints of the crew app (status, completion form, undo, reassignment  *)
(* request) and the control room's assign, return for correction, incident *)
(* status and workload proposals (backend/src/routes/api.js,               *)
(* domain/jobWorkflow.js, domain/rebalance.js, infra/repo.js).             *)
(*                                                                         *)
(* A handler is a chain of statements without a transaction: every await   *)
(* between two of them is a step, so that requests interleave, and a       *)
(* handler may be cut short after any of them.  What keeps the job right   *)
(* is one conditional UPDATE (updateJobIf); the incident has no such guard.*)
(*                                                                         *)
(* Crews' shifts, skills, loads and positions are data: a proposal may     *)
(* turn out stale, and a phone be found too far away, at any time.         *)
(***************************************************************************)
EXTENDS Naturals, FiniteSets

CONSTANTS
  Jobs,      \* job rows that can be created for the incident
  Crews, NoCrew,
  Slots,     \* job requests at work at once
  Desks,     \* requests of the control room on the incident at work at once
  Made,      \* what crews send: update number n is Made[n]
  FirstJob, FirstCrew, \* the job assigned already, and its crew
  Marks,     \* statuses the control room sets for a crew
  Budget,    \* bound: requests other than the updates, and faults, together
  MaxFaults  \* bound: the faults among them

CrewStatuses == {"Acknowledged", "En Route", "On Site", "Work Started", "Work Complete"}
JobStatuses  == {"none", "Requires Revisit", "Cancelled"} \cup CrewStatuses

ASSUME CrewsAssumption == NoCrew \notin Crews
ASSUME SlotsAssumption == Slots \subseteq Nat \ {0} /\ Desks \subseteq Nat
ASSUME JobsAssumption == 0 \notin Jobs /\ FirstJob \in Jobs /\ FirstCrew \in Crews
ASSUME UpdatesAssumption ==
  /\ DOMAIN Made \subseteq Nat \ {0}
  /\ \A n \in DOMAIN Made :
       Made[n] \in [kind : {"status", "form"}, job : Jobs, crew : Crews, to : CrewStatuses]
ASSUME CrewBoundsAssumption == Marks \subseteq CrewStatuses /\ Budget \in Nat /\ MaxFaults \in Nat

Updates  == DOMAIN Made
NoUpdate == 0

VARIABLES
  \* the tables
  jobStatus,   \* jobs.status, "none" before the row exists
  holder,      \* jobs.crew_id
  undo,        \* finished jobs whose undo window (completed_at) is open
  crewTs,      \* newest job_updates.ts with source 'crew', 0 if none
  asked,       \* jobs with an open reassign request
  forms,       \* job_completions, by client_request_id
  incident,    \* incidents.status and crew_id
  proposal,    \* the newest rebalance proposal
  \* requests at work, and the time
  req, desk, now,
  \* history and bounds
  landed,      \* updates applied since their job last came back
  revived,     \* a finished job came back while another one was active
  overlap,     \* two decisions of the control room were at work at once
  unsure,      \* the incident was left behind by a cut or a stale write
  spent, faults

jobVars    == <<jobStatus, holder, undo, crewTs, asked, forms>>
history    == <<landed, revived, overlap, unsure>>
bounds     == <<now, spent, faults>>
serverVars == <<jobVars, incident, proposal, req, desk, history, bounds>>

-----------------------------------------------------------------------------
(* The status ladder (domain/jobWorkflow.js) *)

\* Cancelled (and a job that is not there) has no rank.
OnLadder(s) == s \in CrewStatuses \cup {"Requires Revisit"}
Rank(s) ==
  CASE s = "En Route"      -> 1
    [] s = "On Site"       -> 2
    [] s = "Work Started"  -> 3
    [] s = "Work Complete" -> 4
    [] OTHER               -> 0

IsActive(s)  == s \notin {"none", "Work Complete", "Cancelled"}
\* Nobody has started on it: a job sent back for correction does not move.
IsMovable(s) == s = "Acknowledged"

ActiveJobs == {j \in Jobs : IsActive(jobStatus[j])}

\* decideStatus: what an update would do to a job now at `from`.
Late(from, to, ts, latest) == ts < latest \/ ~OnLadder(from) \/ Rank(to) < Rank(from)
Decision_Mutant(from, to, ts, latest) ==
  IF Late(from, to, ts, latest) THEN "late" ELSE "apply"
Decision(from, to, ts, latest) ==
  CASE from = to                                     -> "already"
    [] from # to /\ Late(from, to, ts, latest)       -> "late"
    [] OTHER                                         -> "apply"

\* undoOpenUntil, isLocked, lockInfo
UndoOpen(j) == jobStatus[j] = "Work Complete" /\ j \in undo /\ incident.status = "pending"
Locked(j) ==
  \/ jobStatus[j] = "Cancelled"
  \/ jobStatus[j] = "Work Complete" /\ ~UndoOpen(j)

IncidentStatuses == {"open", "dispatched", "in_progress", "pending", "resolved",
                     "closed", "cancelled"}
OverStatuses     == {"resolved", "closed", "cancelled"}

-----------------------------------------------------------------------------
(* Requests about a job *)

Free == [at |-> "free", u |-> NoUpdate, kind |-> "status", job |-> 0, crew |-> NoCrew,
         to |-> "none", ts |-> 0, saw |-> NoCrew, from |-> "none", tries |-> 0,
         answer |-> "none"]

SetReq(s, r) == req' = [req EXCEPT ![s] = r]

\* Slots are interchangeable: a request takes the first free one.
NextSlot(s) == req[s].at = "free" /\ \A t \in Slots : req[t].at = "free" => s <= t

\* A request answered: the slot is kept until the phone takes the answer.
Answer(s, a) ==
  SetReq(s, IF req[s].u = NoUpdate THEN Free
            ELSE [Free EXCEPT !.at = "answered", !.u = req[s].u, !.answer = a])

Spend == spent < Budget /\ spent' = spent + 1
Order == Spend /\ UNCHANGED faults
Fault == Spend /\ faults < MaxFaults /\ faults' = faults + 1

\* An update of a crew is on its way; ts = 0 is one sent as it was made.  The
\* caller says whether time has passed.
Arrive(s, u, ts) ==
  /\ NextSlot(s)
  /\ SetReq(s, [Free EXCEPT !.at = "sent", !.u = u, !.kind = Made[u].kind,
                            !.job = Made[u].job, !.crew = Made[u].crew, !.to = Made[u].to,
                            !.ts = ts])
  /\ UNCHANGED <<jobVars, incident, proposal, desk, history, spent, faults>>

\* The control room updates a job for its crew; a crew asks for the job it
\* finished back.  Both are made online, on the spot.
OnBehalf(s, j, to) ==
  /\ NextSlot(s) /\ IsActive(jobStatus[j])
  /\ Order
  /\ SetReq(s, [Free EXCEPT !.at = "sent", !.job = j, !.to = to])
  /\ UNCHANGED <<jobVars, incident, proposal, desk, history, now>>

AskReopen(s, j) ==
  /\ NextSlot(s) /\ UndoOpen(j)
  /\ Order
  /\ SetReq(s, [Free EXCEPT !.at = "sent", !.kind = "reopen", !.job = j, !.crew = holder[j],
                            !.to = "Work Started"])
  /\ UNCHANGED <<jobVars, incident, proposal, desk, history, now>>

ByCrew(r) == r.crew # NoCrew
NotYours(r) == holder[r.job] = NoCrew \/ (ByCrew(r) /\ r.crew # holder[r.job])

\* What decideStatus makes of a request on the job as it is now: a request
\* that applies goes on to the write.
Decide(s, tries) ==
  LET r  == req[s]
      j  == r.job
      ts == IF r.ts = 0 THEN now ELSE r.ts
      d  == Decision(jobStatus[j], r.to, ts, crewTs[j])
  IN IF d = "apply"
     THEN SetReq(s, [r EXCEPT !.at = "write", !.ts = ts, !.tries = tries,
                              !.saw = holder[j], !.from = jobStatus[j]])
     ELSE Answer(s, d)

\* The job, the incident and the crew's newest update as first read, and the
\* early returns on them: whose job it is, the lock, the site check, the
\* conditions of form and undo.  The reads are one step: what may change
\* between them the conditional write looks at again.
Receive(s) ==
  LET r == req[s]
      j == r.job
      started == jobStatus[j] \in {"Work Started", "Work Complete"}
      onSite  == ByCrew(r) /\ r.to \in {"On Site", "Work Started"}
  IN /\ r.at = "sent"
     /\ \/ NotYours(r) /\ Answer(s, "notyours")
        \/ ~NotYours(r) /\ Locked(j) /\ Answer(s, "late")
        \/ ~NotYours(r) /\ ~Locked(j) /\
             \/ r.kind = "status" /\ Decide(s, 0)
             \/ r.kind = "status" /\ onSite /\ Answer(s, "refused")
             \/ r.kind = "form" /\
                  IF started THEN SetReq(s, [r EXCEPT !.at = "insert"]) ELSE Answer(s, "late")
             \/ r.kind = "reopen" /\
                  IF UndoOpen(j)
                  THEN SetReq(s, [r EXCEPT !.at = "undo", !.ts = now, !.saw = holder[j],
                                           !.from = jobStatus[j]])
                  ELSE Answer(s, "late")
     /\ UNCHANGED <<jobVars, incident, proposal, desk, history, bounds>>

\* updateJobIf: WHERE id AND crew_id AND status are as they were read.
NoCrewCheck_Mutant(r) == jobStatus[r.job] = r.from
NoStatusCheck_Mutant(r) == holder[r.job] = r.saw
Unchanged(r) == holder[r.job] = r.saw /\ jobStatus[r.job] = r.from

Land(s) ==
  LET r == req[s]
  IN /\ r.at = "write" /\ Unchanged(r)
     /\ jobStatus' = [jobStatus EXCEPT ![r.job] = r.to]
     /\ undo' = IF r.to = "Work Complete" THEN undo \cup {r.job} ELSE undo
     /\ landed' = landed \cup ({r.u} \ {NoUpdate})
     /\ SetReq(s, [r EXCEPT !.at = "log", !.saw = NoCrew, !.from = "none", !.tries = 0])
     /\ UNCHANGED <<holder, crewTs, asked, forms, incident, proposal, desk,
                    revived, overlap, unsure, bounds>>

\* The write missed: decide again on the job as it is now, three times.
Miss(s) ==
  LET r == req[s]
      j == r.job
  IN /\ r.at = "write" /\ ~Unchanged(r)
     /\ CASE holder[j] # r.saw                 -> Answer(s, "notyours")
          [] holder[j] = r.saw /\ r.tries = 2  -> Answer(s, "error")
          [] OTHER                             -> Decide(s, r.tries + 1)
     /\ UNCHANGED <<jobVars, incident, proposal, desk, history, bounds>>

\* addJobUpdate: only the crew's own rows count as its newest update.  Then
\* On Site and Work Started look whether the incident is in progress already.
Log(s) ==
  LET r == req[s]
      awaited == incident.status \in {"open", "dispatched"}
      writes  == \/ r.kind = "reopen" \/ r.to = "Work Complete"
                 \/ r.to \in {"On Site", "Work Started"} /\ awaited
  IN /\ r.at = "log"
     /\ crewTs' = [crewTs EXCEPT ![r.job] = IF ByCrew(r) /\ r.ts > @ THEN r.ts ELSE @]
     /\ IF writes
        THEN SetReq(s, [Free EXCEPT !.at = "progress", !.u = r.u, !.to = r.to])
        ELSE Answer(s, "applied")
     /\ UNCHANGED <<jobStatus, holder, undo, asked, forms, incident, proposal, desk, history,
                    bounds>>

\* The incident's status is written whatever it has become meanwhile.
Implied_Mutant(r) == "in_progress"
Implied_Raw(r) == r.to
Implied(r) == IF r.to = "Work Complete" THEN "pending" ELSE "in_progress"

\* The write undoes what is true by now: a finished job's "pending".
Finished       == {j \in Jobs : jobStatus[j] = "Work Complete"}
Overwrites(to) == to = "in_progress" /\ Finished # {}

Progress(s) ==
  LET to == Implied(req[s])
  IN /\ req[s].at = "progress"
     /\ incident' = [incident EXCEPT !.status = to]
     /\ unsure' = (unsure \/ (req[s].to # "Work Complete" /\ Overwrites(to)))
     /\ Answer(s, "applied")
     /\ UNCHANGED <<jobVars, proposal, desk, landed, revived, overlap, bounds>>

\* INSERT ... ON CONFLICT (client_request_id) DO NOTHING
InsertForm(s) ==
  /\ req[s].at = "insert"
  /\ forms' = forms \cup {req[s].u}
  /\ Answer(s, "applied")
  /\ UNCHANGED <<jobStatus, holder, undo, crewTs, asked, incident, proposal, desk, history,
                 bounds>>

\* The job is to be done again: what was applied to it is past.
StartsAgain(j) == landed' = {u \in landed : Made[u].job # j}

\* A finished job comes back, whether or not another was assigned since, or
\* is being assigned.
Busy == \E d \in Desks : desk[d].at # "idle"
ComesBack(j) ==
  /\ StartsAgain(j)
  /\ revived' = (revived \/ ActiveJobs \ {j} # {} \/ \E d \in Desks : desk[d].at \in {"assign", "move"})

\* The undo: Work Complete -> Work Started, conditional like every job write.
Reopen(s) ==
  LET r == req[s]
      j == r.job
  IN /\ r.at = "undo"
     /\ IF Unchanged(r)
        THEN /\ jobStatus' = [jobStatus EXCEPT ![j] = "Work Started"]
             /\ undo' = undo \ {j}
             /\ ComesBack(j)
             /\ SetReq(s, [r EXCEPT !.at = "log", !.saw = NoCrew, !.from = "none", !.tries = 0])
        ELSE Answer(s, "late") /\ UNCHANGED <<jobStatus, undo, landed, revived>>
     /\ UNCHANGED <<holder, crewTs, asked, forms, incident, proposal, desk, overlap, unsure,
                    bounds>>

\* The request to be taken off the job is a row of the crew's own, too.
AskReassign(j) ==
  /\ holder[j] # NoCrew /\ IsActive(jobStatus[j])
  /\ j \notin asked
  /\ Order
  /\ asked' = asked \cup {j}
  /\ crewTs' = [crewTs EXCEPT ![j] = now]
  /\ UNCHANGED <<jobStatus, holder, undo, forms, incident, proposal, req, desk, history,
                 now>>

Dismiss(j) ==
  /\ j \in asked
  /\ asked' = asked \ {j}
  /\ UNCHANGED <<jobStatus, holder, undo, crewTs, forms, incident, proposal, req, desk,
                 history, bounds>>

-----------------------------------------------------------------------------
(* The control room *)

Idle == [at |-> "idle", crew |-> NoCrew, job |-> 0, from |-> "none", to |-> "none",
         list |-> {}]

SetDesk(d, r) == desk' = [desk EXCEPT ![d] = r]

\* A request of the control room starts (on the first desk that is idle).
Take(d, r) ==
  /\ desk[d].at = "idle" /\ \A e \in Desks : desk[e].at = "idle" => d <= e
  /\ Order
  /\ SetDesk(d, r)
  /\ overlap' = (overlap \/ Busy)
  /\ UNCHANGED <<jobVars, incident, proposal, req, landed, revived, unsure, now>>

\* assign: the job that moves to crew c, 0 for a new one; nothing to do when
\* c is on the job already, 409 when another crew has started and not asked.
Fresh      == {j \in Jobs : jobStatus[j] = "none"}
Started(j) == j \in ActiveJobs /\ holder[j] # NoCrew /\ ~IsMovable(jobStatus[j])
Targets_Mutant(c) == {0}
Targets(c) ==
  LET mine    == {j \in ActiveJobs : holder[j] = c}
      started == {j \in ActiveJobs : Started(j)}
      loose   == {j \in ActiveJobs : holder[j] = NoCrew}
  IN CASE mine # {}                    -> mine \ started
       [] mine = {} /\ started # {}    -> started \cap asked
       [] mine = {} /\ started = {} /\ ActiveJobs # {} ->
            IF loose # {} THEN loose ELSE ActiveJobs
       [] OTHER                        -> {0}

AssignRead(d, c) ==
  \E j \in Targets(c) :
    /\ j = 0 => Fresh # {}
    /\ Take(d, [Idle EXCEPT !.at = "assign", !.crew = c, !.job = j, !.from = incident.status,
                  !.to = IF j \notin Jobs \/ Started(j) THEN "Acknowledged" ELSE "none"])

\* open becomes dispatched; any other status is written back as it was read.
AssignIncident(d) ==
  LET r == desk[d]
  IN /\ r.at = "assign"
     /\ incident' = [status |-> IF r.from = "open" THEN "dispatched" ELSE r.from,
                     crew |-> r.crew]
     /\ unsure' = (unsure \/ incident.status # r.from)
     /\ SetDesk(d, [r EXCEPT !.at = "move"])
     /\ UNCHANGED <<jobVars, proposal, req, landed, revived, overlap, bounds>>

\* reassignJob (one transaction, unconditional), or createJob under a new id.
\* A job handed over on request starts again, and the request is resolved.
AssignJob(d) ==
  LET r == desk[d]
  IN /\ r.at = "move"
     /\ \E j \in IF r.job = 0 THEN Fresh ELSE {r.job} :
          /\ holder' = [holder EXCEPT ![j] = r.crew]
          /\ jobStatus' = [jobStatus EXCEPT ![j] = IF r.to = "none" THEN @ ELSE r.to]
          /\ IF r.to = "Acknowledged"
             THEN asked' = asked \ {j} /\ undo' = undo \ {j} /\ StartsAgain(j)
             ELSE UNCHANGED <<asked, undo, landed>>
     /\ SetDesk(d, Idle)
     /\ UNCHANGED <<crewTs, forms, incident, proposal, req, revived, overlap, unsure, bounds>>

ReturnRead(d, j) ==
  /\ incident.status = "pending"
  /\ jobStatus[j] = "Work Complete" /\ holder[j] # NoCrew
  /\ Take(d, [Idle EXCEPT !.at = "return", !.job = j, !.crew = holder[j]])

ReturnJob(d) ==
  LET r == desk[d]
      j == r.job
  IN /\ r.at = "return"
     /\ IF Unchanged([job |-> j, saw |-> r.crew, from |-> "Work Complete"])
        THEN /\ jobStatus' = [jobStatus EXCEPT ![j] = "Requires Revisit"]
             /\ undo' = undo \ {j}
             /\ ComesBack(j)
             /\ SetDesk(d, [r EXCEPT !.at = "returned"])
        ELSE SetDesk(d, Idle) /\ UNCHANGED <<jobStatus, undo, landed, revived>>
     /\ UNCHANGED <<holder, crewTs, asked, forms, incident, proposal, req, overlap, unsure,
                    bounds>>

ReturnIncident(d) ==
  /\ desk[d].at = "returned"
  /\ incident' = [incident EXCEPT !.status = "in_progress"]
  /\ unsure' = (unsure \/ Overwrites("in_progress"))
  /\ SetDesk(d, Idle)
  /\ UNCHANGED <<jobVars, proposal, req, landed, revived, overlap, bounds>>

\* TRANSITIONS (domain/lifecycle.js)
Allowed(from) ==
  CASE from = "open"        -> {"dispatched", "cancelled"}
    [] from = "dispatched"  -> {"in_progress", "open", "cancelled"}
    [] from = "in_progress" -> {"pending", "cancelled"}
    [] from = "pending"     -> {"resolved", "in_progress"}
    [] from = "resolved"    -> {"closed"}
    [] OTHER                -> {}

StatusRead(d) ==
  \E to \in Allowed(incident.status) :
    Take(d, [Idle EXCEPT !.at = "status", !.from = incident.status, !.to = to])

\* Moved by hand, the incident need not follow its job any more.
StatusWrite(d) ==
  LET r == desk[d]
  IN /\ r.at = "status"
     /\ incident' = [incident EXCEPT !.status = r.to]
     /\ unsure' = (unsure \/ r.to \notin OverStatuses \cup {"pending"})
     /\ SetDesk(d, IF r.to = "cancelled" THEN [r EXCEPT !.at = "cancel"] ELSE Idle)
     /\ UNCHANGED <<jobVars, proposal, req, landed, revived, overlap, bounds>>

\* The unfinished jobs of a cancelled incident are listed, then written one
\* after the other, over whatever they have become since.
CancelJobs(d) ==
  /\ desk[d].at = "cancel"
  /\ SetDesk(d, IF ActiveJobs = {} THEN Idle
                ELSE [desk[d] EXCEPT !.at = "cancelling", !.list = ActiveJobs])
  /\ UNCHANGED <<jobVars, incident, proposal, req, history, bounds>>

CancelJob(d) ==
  \E j \in desk[d].list :
     /\ desk[d].at = "cancelling"
     /\ jobStatus' = [jobStatus EXCEPT ![j] = "Cancelled"]
     /\ undo' = undo \ {j}
     /\ asked' = asked \ {j}
     /\ SetDesk(d, IF desk[d].list = {j} THEN Idle ELSE [desk[d] EXCEPT !.list = @ \ {j}])
     /\ UNCHANGED <<holder, crewTs, forms, incident, proposal, req, history, bounds>>

\* The tripped device reports closed (module OutageIntake).
ScadaRestores ==
  /\ incident.status \in {"open", "dispatched", "in_progress", "pending"}
  /\ Order
  /\ incident' = [incident EXCEPT !.status = "resolved"]
  /\ UNCHANGED <<jobVars, proposal, req, desk, history, now>>

-----------------------------------------------------------------------------
(* Workload proposals (domain/rebalance.js) *)

NoProposal == [open |-> FALSE, job |-> 0, from |-> NoCrew, to |-> NoCrew]

\* A new proposal supersedes an open one.  The engine looks at the jobs before
\* it saves; what changes in between shows when the proposal is applied.
Propose(j, c) ==
  /\ IsMovable(jobStatus[j])
  /\ c # holder[j]
  /\ Order
  /\ proposal' = [open |-> TRUE, job |-> j, from |-> holder[j], to |-> c]
  /\ UNCHANGED <<jobVars, incident, req, desk, history, now>>

\* validateProposal, on rows the transaction has locked.
StillValid(p) ==
  /\ incident.status \notin OverStatuses
  /\ IsMovable(jobStatus[p.job])
  /\ holder[p.job] = p.from

ApplyProposal ==
  LET p == proposal
      status == CASE p.to # NoCrew /\ incident.status = "open"       -> "dispatched"
                  [] p.to = NoCrew /\ incident.status = "dispatched" -> "open"
                  [] OTHER -> incident.status
      follows == incident.crew = p.from \/ (p.to # NoCrew /\ incident.crew = NoCrew)
  IN /\ p.open /\ StillValid(p)
     /\ holder' = [holder EXCEPT ![p.job] = p.to]
     /\ incident' = IF follows THEN [status |-> status, crew |-> p.to] ELSE incident
     /\ proposal' = NoProposal
     /\ overlap' = (overlap \/ Busy)
     /\ UNCHANGED <<jobStatus, undo, crewTs, asked, forms, req, desk, landed, revived, unsure,
                    bounds>>

\* Stale, rejected, or superseded because nothing is out of balance any more.
CloseProposal ==
  /\ proposal.open
  /\ proposal' = NoProposal
  /\ UNCHANGED <<jobVars, incident, req, desk, history, bounds>>

-----------------------------------------------------------------------------
(* The undo window, and failures *)

\* JOB_UNDO_WINDOW_MIN after completed_at
WindowCloses(j) ==
  /\ j \in undo
  /\ undo' = undo \ {j}
  /\ UNCHANGED <<jobStatus, holder, crewTs, asked, forms, incident, proposal, req, desk,
                 history, bounds>>

\* The process dies or a statement fails: what was written stays written.
Cut(s) ==
  /\ req[s].at \in {"write", "log", "progress", "insert", "undo"}
  /\ Fault
  /\ unsure' = (unsure \/ req[s].at \in {"log", "progress"})
  /\ Answer(s, "error")
  /\ UNCHANGED <<jobVars, incident, proposal, desk, landed, revived, overlap, now>>

CutDesk(d) ==
  /\ desk[d].at # "idle"
  /\ Fault
  /\ SetDesk(d, Idle)
  /\ UNCHANGED <<jobVars, incident, proposal, req, history, now>>

\* Nobody waits for the answer any more.
Forget(s) ==
  /\ req[s].at = "answered"
  /\ SetReq(s, Free)
  /\ UNCHANGED <<jobVars, incident, proposal, desk, history, bounds>>

-----------------------------------------------------------------------------
InitServer ==
  /\ jobStatus = [j \in Jobs |-> IF j = FirstJob THEN "Acknowledged" ELSE "none"]
  /\ holder = [j \in Jobs |-> IF j = FirstJob THEN FirstCrew ELSE NoCrew]
  /\ undo = {}
  /\ crewTs = [j \in Jobs |-> 0]
  /\ asked = {}
  /\ forms = {}
  /\ incident = [status |-> "dispatched", crew |-> FirstCrew]
  /\ proposal = NoProposal
  /\ req = [s \in Slots |-> Free]
  /\ desk = [d \in Desks |-> Idle]
  /\ now = 1
  /\ landed = {}
  /\ revived = FALSE
  /\ overlap = FALSE
  /\ unsure = FALSE
  /\ spent = 0
  /\ faults = 0

\* A job request at work.
Handle(s) ==
  \/ Receive(s) \/ Land(s) \/ Miss(s) \/ Log(s)
  \/ Progress(s) \/ InsertForm(s) \/ Reopen(s)

\* Requests made on the spot, without the phone's queue.
Online(s) ==
  \E j \in Jobs : AskReopen(s, j) \/ \E to \in Marks : OnBehalf(s, j, to)

ControlRoom(d) ==
  \/ \E c \in Crews : AssignRead(d, c)
  \/ AssignIncident(d) \/ AssignJob(d)
  \/ \E j \in Jobs : ReturnRead(d, j)
  \/ ReturnJob(d) \/ ReturnIncident(d)
  \/ StatusRead(d) \/ StatusWrite(d) \/ CancelJobs(d) \/ CancelJob(d)
  \/ CutDesk(d)

Workload ==
  \/ \E j \in Jobs, c \in Crews \cup {NoCrew} : Propose(j, c)
  \/ ApplyProposal
  \/ CloseProposal

Elsewhere ==
  \/ ScadaRestores
  \/ \E j \in Jobs : AskReassign(j) \/ Dismiss(j) \/ WindowCloses(j)

Serve ==
  \/ \E s \in Slots : Handle(s) \/ Online(s) \/ Cut(s)
  \/ \E d \in Desks : ControlRoom(d)
  \/ Workload
  \/ Elsewhere

-----------------------------------------------------------------------------
Requests ==
  [at : {"free", "sent", "write", "log", "progress", "insert", "undo",
         "answered"},
   u : Updates \cup {NoUpdate}, kind : {"status", "form", "reopen"}, job : Jobs \cup {0},
   crew : Crews \cup {NoCrew}, to : JobStatuses, ts : Nat, saw : Crews \cup {NoCrew},
   from : JobStatuses, tries : 0..2,
   answer : {"none", "applied", "already", "late", "refused", "notyours", "error"}]

Orders ==
  [at : {"idle", "assign", "move", "return", "returned", "status", "cancel", "cancelling"},
   crew : Crews \cup {NoCrew}, job : Jobs \cup {0}, from : IncidentStatuses \cup {"none"},
   to : JobStatuses \cup IncidentStatuses, list : SUBSET Jobs]

\* The tables and the requests hold what their columns and fields may hold.
ServerTypeOK ==
  /\ jobStatus \in [Jobs -> JobStatuses]
  /\ holder \in [Jobs -> Crews \cup {NoCrew}]
  /\ undo \subseteq Jobs /\ asked \subseteq Jobs
  /\ crewTs \in [Jobs -> Nat]
  /\ forms \subseteq Updates /\ landed \subseteq Updates
  /\ incident \in [status : IncidentStatuses, crew : Crews \cup {NoCrew}]
  /\ proposal \in [open : BOOLEAN, job : Jobs \cup {0}, from : Crews \cup {NoCrew},
                   to : Crews \cup {NoCrew}]
  /\ req \in [Slots -> Requests]
  /\ desk \in [Desks -> Orders]
  /\ now \in Nat /\ spent \in 0..Budget /\ faults \in 0..MaxFaults
  /\ {revived, overlap, unsure} \subseteq BOOLEAN
=============================================================================

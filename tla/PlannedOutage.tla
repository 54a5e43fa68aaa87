---------------------------- MODULE PlannedOutage ----------------------------
(***************************************************************************)
(* A planned outage (OMS-01): its switching plan, the work permits issued  *)
(* under it, the crews' jobs on it and the status that follows from them   *)
(* (backend/src/domain/plannedOutage.js, infra/repo.js,                    *)
(* routes/plannedOutages.js), beside the dispatcher's assign request       *)
(* (routes/api.js), which knows nothing of the plan.                       *)
(*                                                                         *)
(* Every change of the plan or a permit is a transaction that first locks  *)
(* the plan's row, so these run one after the other.  The incident's row   *)
(* is not locked: Begin takes the plan's lock and loads the outage, and an *)
(* assign may write the status before the transaction ends.  An assign     *)
(* whose write falls between the load and a move of the status is          *)
(* overwritten, as if it had read the status after the load.               *)
(***************************************************************************)
EXTENDS Naturals, FiniteSets

CONSTANTS
  Crews, NoCrew,   \* NoCrew: a step of the control room
  Jobs, NoJob,     \* bound: crew jobs ever created on the outage
  Drafts,          \* the sets of steps [phase, seq, crew] an operator may save
  Desks,           \* assign requests [n, crew] of the dispatchers
  MaxPermits       \* bound: permits ever requested

ASSUME DraftsAssumption ==
  \A D \in Drafts : \A s \in D :
    s.phase \in {"isolate", "restore"} /\ s.seq \in Nat /\ s.crew \in Crews \cup {NoCrew}

ASSUME NamesAssumption ==
  /\ NoCrew \notin Crews
  /\ NoJob \notin Jobs
  /\ \A d \in Desks : d.crew \in Crews

ASSUME PermitsAssumption == MaxPermits \in Nat

Permits == 1 .. MaxPermits

VARIABLES
  status,     \* of the outage's incident
  plan,       \* state of the switching plan
  steps, confirmed,
  permit,     \* work_permits, in the order of their request
  seen,       \* the status the open plan transaction loaded ("none": none open)
  job,        \* the crew jobs on the incident
  asked,      \* jobs whose crew asked to be taken off
  request,    \* what a crew's handset has asked and the server not answered
  desk,       \* assign requests
  \* history
  atWork,     \* crews that started work and have not declared the line clear
  overwritten \* an assign wrote a status the outage had left meanwhile

switching == <<plan, steps, confirmed, permit>>
crewSide  == <<job, asked, request, desk, atWork>>
vars      == <<status, seen, switching, crewSide, overwritten>>

Statuses == {"scheduled", "notified", "isolating", "in_progress", "restoring",
             "resolved", "closed", "cancelled"}
PermitStates == {"none", "requested", "issued", "returned", "refused", "withdrawn"}
JobStatuses  == {"none", "Acknowledged", "Work Started", "Work Complete"}

TypeOK ==
  /\ status \in Statuses
  /\ plan \in {"draft", "approved"}
  /\ steps \in Drafts \cup {{}}
  /\ confirmed \subseteq steps
  /\ permit \in [Permits -> [state : PermitStates, job : Jobs \cup {NoJob},
                             crew : Crews \cup {NoCrew}]]
  /\ seen \in Statuses \cup {"none"}
  /\ job \in [Jobs -> [crew : Crews \cup {NoCrew}, status : JobStatuses]]
  /\ asked \subseteq Jobs
  /\ request \in [Crews -> [at : {"idle", "status", "permit"}, job : Jobs \cup {NoJob},
                            to : JobStatuses]]
  /\ \A c \in Crews : request[c].at # "idle" => request[c].job # NoJob
  /\ desk \in [Desks -> [at : {"idle", "read", "written", "done"}, from : Statuses,
                         job : Jobs \cup {NoJob}]]
  /\ atWork \subseteq Crews
  /\ overwritten \in BOOLEAN

Silent   == [at |-> "idle", job |-> NoJob, to |-> "none"]
Answered == [at |-> "done", from |-> "scheduled", job |-> NoJob]

-----------------------------------------------------------------------------
(* The rules *)

Phase(ph)        == {s \in steps : s.phase = ph}
AnyConfirmed(ph) == Phase(ph) \cap confirmed # {}
AllConfirmed(ph) == Phase(ph) \subseteq confirmed

OpenPermits == {p \in Permits : permit[p].state \in {"requested", "issued"}}
InState(st) == {p \in Permits : permit[p].state = st}

\* The status the plan and the permits now imply, one step on.
Implied(s) ==
  CASE s = "notified" /\ AnyConfirmed("isolate") -> "isolating"
    [] s = "isolating" /\ AnyConfirmed("restore") -> "restoring"
    [] s = "isolating" /\ ~AnyConfirmed("restore")
         /\ AllConfirmed("isolate") /\ InState("issued") # {} -> "in_progress"
    [] s = "in_progress" /\ OpenPermits = {}
         /\ (InState("returned") # {} \/ AnyConfirmed("restore")) -> "restoring"
    [] s = "restoring" /\ Phase("restore") # {} /\ AllConfirmed("restore") -> "resolved"
    [] OTHER -> s

\* withPlan applies it until it says nothing new, at most six times.
Settled_Mutant(s) == Implied(s)
Settled(s) ==
  LET next == [t \in Statuses |-> Implied(t)]
  IN next[next[next[next[next[next[s]]]]]]

\* The end of a plan transaction that leaves the incident in status s itself.
End(s) ==
  /\ seen # "none"
  /\ seen' = "none"
  /\ \E t \in Statuses : t = s /\ status' = Settled(t)'

Begin ==
  /\ seen = "none"
  /\ seen' = status
  /\ UNCHANGED <<status, switching, crewSide, overwritten>>

\* Refused by a rule, or failed and rolled back.
Rollback ==
  /\ seen # "none"
  /\ seen' = "none"
  /\ UNCHANGED <<status, switching, crewSide, overwritten>>

-----------------------------------------------------------------------------
(* The switching plan *)

ReplaceSteps(D) ==
  /\ plan = "draft"
  /\ steps' = D
  /\ confirmed' = {}
  /\ UNCHANGED <<plan, permit, crewSide, overwritten>>
  /\ End(status)

Approve ==
  /\ plan = "draft"
  /\ Phase("isolate") # {} /\ Phase("restore") # {}
  /\ plan' = "approved"
  /\ UNCHANGED <<steps, confirmed, permit, crewSide, overwritten>>
  /\ End(status)

Unapprove_Mutant ==
  /\ plan = "approved"
  /\ plan' = "draft"
  /\ UNCHANGED <<steps, confirmed, permit, crewSide, overwritten>>
  /\ End(status)
Unapprove ==
  /\ plan = "approved"
  /\ confirmed = {}
  /\ plan' = "draft"
  /\ UNCHANGED <<steps, confirmed, permit, crewSide, overwritten>>
  /\ End(status)

SwitchingPhase(ph) ==
  IF ph = "isolate" THEN {"notified", "isolating"}
                    ELSE {"isolating", "in_progress", "restoring"}

\* The crew a step belongs to confirms it, or an operator on its behalf.
MayConfirm_Mutant(s) ==
  /\ plan = "approved"
  /\ seen \in SwitchingPhase(s.phase)
  /\ \A t \in Phase(s.phase) : t.seq < s.seq => t \in confirmed
  /\ s.phase = "restore" => AllConfirmed("isolate") /\ InState("issued") = {}
MayConfirm(s) ==
  /\ plan = "approved"
  /\ seen \in SwitchingPhase(s.phase)
  /\ \A t \in Phase(s.phase) : t.seq < s.seq => t \in confirmed
  /\ s.phase = "restore" => AllConfirmed("isolate") /\ OpenPermits = {}

Confirm(s) ==
  /\ s \in steps \ confirmed
  /\ MayConfirm(s)
  /\ confirmed' = confirmed \cup {s}
  /\ UNCHANGED <<plan, steps, permit, crewSide, overwritten>>
  /\ End(status)

\* An answered request sent again, a crew's report, an extended window: the
\* plan is as it was, but the automatic status is worked out again.
Touch ==
  /\ UNCHANGED <<switching, crewSide, overwritten>>
  /\ End(status)

-----------------------------------------------------------------------------
(* The outage *)

Notify ==
  /\ seen = "scheduled"
  /\ plan = "approved"
  /\ UNCHANGED <<switching, crewSide, overwritten>>
  /\ End("notified")

NotStarted == seen \in {"scheduled", "notified"} /\ confirmed = {}

Reschedule ==
  /\ NotStarted
  /\ UNCHANGED <<switching, crewSide, overwritten>>
  /\ End(IF seen = "notified" THEN "scheduled" ELSE status)

Cancel ==
  /\ NotStarted
  /\ UNCHANGED <<switching, crewSide, overwritten>>
  /\ End("cancelled")

\* Open crew jobs only ask for a reason.
Close ==
  /\ seen = "resolved"
  /\ UNCHANGED <<switching, crewSide, overwritten>>
  /\ End("closed")

-----------------------------------------------------------------------------
(* Work permits *)

OwnIsolation(c) == {s \in Phase("isolate") : s.crew = c}

MayRequest(c, j) ==
  /\ \A p \in OpenPermits : permit[p].job # j
  /\ seen \in {"isolating", "in_progress"}
  /\ ~AnyConfirmed("restore")
  /\ OwnIsolation(c) \subseteq confirmed

\* The job was read before the transaction: it may be another crew's by now.
RequestPermit(c) ==
  LET j == request[c].job
  IN /\ request[c].at = "permit"
     /\ MayRequest(c, j)
     /\ \E p \in InState("none") :
          /\ \A q \in InState("none") : p <= q
          /\ permit' = [permit EXCEPT ![p] = [state |-> "requested", job |-> j, crew |-> c]]
     /\ request' = [request EXCEPT ![c] = Silent]
     /\ UNCHANGED <<plan, steps, confirmed, job, asked, desk, atWork, overwritten>>
     /\ End(status)

Moves(p, from, to) ==
  /\ permit[p].state = from
  /\ permit' = [permit EXCEPT ![p].state = to]

MayIssue == AllConfirmed("isolate") /\ ~AnyConfirmed("restore")

Issue(p) ==
  /\ Moves(p, "requested", "issued")
  /\ MayIssue
  /\ UNCHANGED <<plan, steps, confirmed, crewSide, overwritten>>
  /\ End(status)

\* Refused by the control room or withdrawn by its crew.
RefuseOrWithdraw_Mutant(p) ==
  /\ Moves(p, "requested", "cancelled")
  /\ UNCHANGED <<plan, steps, confirmed, crewSide, overwritten>>
  /\ End(status)
RefuseOrWithdraw(p) ==
  /\ Moves(p, "requested", "refused") \/ Moves(p, "requested", "withdrawn")
  /\ UNCHANGED <<plan, steps, confirmed, crewSide, overwritten>>
  /\ End(status)

\* The declaration that all men are withdrawn, by the crew that holds the
\* permit or by an operator on its behalf.
Return(p) ==
  /\ Moves(p, "issued", "returned")
  /\ atWork' = atWork \ {permit[p].crew}
  /\ UNCHANGED <<plan, steps, confirmed, job, asked, request, desk, overwritten>>
  /\ End(status)

-----------------------------------------------------------------------------
(* The crew's handset: outside the plan's lock *)

Latest(j, p) == permit[p].job = j /\ \A q \in Permits : permit[q].job = j => q <= p

NoOpenPermit(j) == \A p \in Permits : Latest(j, p) => p \notin OpenPermits

\* Work starts under an issued permit, and is complete once it is returned or
\* the outage is over without one.
Gate(j, to) ==
  CASE to = "Work Started"  -> \E p \in InState("issued") : Latest(j, p)
    [] to = "Work Complete" ->
         \/ \E p \in InState("returned") : Latest(j, p)
         \/ NoOpenPermit(j) /\ status \in {"restoring", "resolved", "closed", "cancelled"}
    [] OTHER -> TRUE

AskStatus(c, j, to) ==
  /\ request[c].at = "idle"
  /\ job[j].crew = c
  /\ Gate(j, to)
  /\ request' = [request EXCEPT ![c] = [at |-> "status", job |-> j, to |-> to]]
  /\ UNCHANGED <<status, seen, switching, job, asked, desk, atWork, overwritten>>

\* Only if the job is still the crew's.
WriteStatus(c) ==
  LET j == request[c].job
  IN /\ request[c].at = "status"
     /\ request' = [request EXCEPT ![c] = Silent]
     /\ IF job[j].crew = c
        THEN /\ job' = [job EXCEPT ![j].status = request[c].to]
             /\ atWork' = CASE request[c].to = "Work Started"  -> atWork \cup {c}
                            [] request[c].to = "Work Complete" -> atWork \ {c}
                            [] OTHER -> atWork
        ELSE UNCHANGED <<job, atWork>>
     /\ UNCHANGED <<status, seen, switching, asked, desk, overwritten>>

AskPermit(c, j) ==
  /\ request[c].at = "idle"
  /\ job[j].crew = c
  /\ request' = [request EXCEPT ![c] = [at |-> "permit", job |-> j, to |-> "none"]]
  /\ UNCHANGED <<status, seen, switching, job, asked, desk, atWork, overwritten>>

\* The request is refused, or the connection lost before the server acts on it.
GiveUp(c) ==
  /\ request[c].at # "idle"
  /\ request' = [request EXCEPT ![c] = Silent]
  /\ UNCHANGED <<status, seen, switching, job, asked, desk, atWork, overwritten>>

ActiveJobs == {j \in Jobs : job[j].status \notin {"none", "Work Complete"}}

AskReassignment(j) ==
  /\ j \in ActiveJobs \ asked
  /\ asked' = asked \cup {j}
  /\ UNCHANGED <<status, seen, switching, job, request, desk, atWork, overwritten>>

DismissReassignment(j) ==
  /\ j \in asked
  /\ asked' = asked \ {j}
  /\ UNCHANGED <<status, seen, switching, job, request, desk, atWork, overwritten>>

-----------------------------------------------------------------------------
(* POST /incidents/:id/assign: read, write the status back, move the job *)

\* A planned job moves only when its crew asked for it.  Which of several
\* active jobs is looked at follows from their times: any.
AssignRead(d) ==
  /\ desk[d].at = "idle"
  /\ \A j \in ActiveJobs : job[j].crew # d.crew
  /\ \E j \in Jobs \cup {NoJob} :
       /\ IF ActiveJobs = {} THEN j = NoJob ELSE j \in ActiveJobs \cap asked
       /\ desk' = [desk EXCEPT ![d] = [at |-> "read", from |-> status, job |-> j]]
  /\ UNCHANGED <<status, seen, switching, job, asked, request, atWork, overwritten>>

AssignStatus(d) ==
  /\ desk[d].at = "read"
  /\ desk' = [desk EXCEPT ![d].at = "written"]
  /\ status' = desk[d].from
  /\ overwritten' = (overwritten \/ status # desk[d].from)
  /\ UNCHANGED <<seen, switching, job, asked, request, atWork>>

Unused == {j \in Jobs : job[j].status = "none"}

AssignJob(d) ==
  /\ desk[d].at = "written"
  /\ desk' = [desk EXCEPT ![d] = Answered]
  /\ \E j \in Jobs :
       /\ IF desk[d].job = NoJob THEN j \in Unused ELSE j = desk[d].job
       /\ job' = [job EXCEPT ![j] = [crew |-> d.crew, status |-> "Acknowledged"]]
       /\ asked' = asked \ {j}
  /\ UNCHANGED <<status, seen, switching, request, atWork, overwritten>>

-----------------------------------------------------------------------------
Init ==
  /\ status = "scheduled"
  /\ plan = "draft"
  /\ steps = {}
  /\ confirmed = {}
  /\ permit = [p \in Permits |-> [state |-> "none", job |-> NoJob, crew |-> NoCrew]]
  /\ seen = "none"
  /\ job = [j \in Jobs |-> [crew |-> NoCrew, status |-> "none"]]
  /\ asked = {}
  /\ request = [c \in Crews |-> Silent]
  /\ desk = [d \in Desks |-> [at |-> "idle", from |-> "scheduled", job |-> NoJob]]
  /\ atWork = {}
  /\ overwritten = FALSE

PlanChange ==
  \/ \E D \in Drafts : ReplaceSteps(D)
  \/ Approve
  \/ Unapprove
  \/ \E s \in steps : Confirm(s)
  \/ Touch

OutageChange == Notify \/ Reschedule \/ Cancel \/ Close

PermitChange ==
  \/ \E c \in Crews : RequestPermit(c)
  \/ \E p \in Permits : Issue(p) \/ RefuseOrWithdraw(p) \/ Return(p)

CrewStep ==
  \/ \E c \in Crews, j \in Jobs : AskPermit(c, j)
  \/ \E c \in Crews, j \in Jobs, to \in JobStatuses \ {"none"} : AskStatus(c, j, to)
  \/ \E c \in Crews : WriteStatus(c) \/ GiveUp(c)
  \/ \E j \in Jobs : AskReassignment(j) \/ DismissReassignment(j)

DispatchStep == \E d \in Desks : AssignRead(d) \/ AssignStatus(d) \/ AssignJob(d)

Next ==
  Begin \/ Rollback \/ PlanChange \/ OutageChange \/ PermitChange \/ CrewStep \/ DispatchStep

Spec == Init /\ [][Next]_vars

-----------------------------------------------------------------------------
(* Properties *)

\* While any crew asks for or holds a permit no switch has been closed again,
\* and a crew that holds one has every point of isolation behind it
\* (repo.js: "Restore steps stay blocked until every permit for the outage is
\* returned").
PermitKeepsLineDead ==
  \A p \in OpenPermits :
    /\ ~AnyConfirmed("restore")
    /\ permit[p].state = "issued" => AllConfirmed("isolate")

\* Steps are done in the order of the approved plan, restoration after the
\* whole isolation, whatever was edited, unapproved, rescheduled or moved back
\* before and in between.
Precedes(t, s) == \/ t.phase = s.phase /\ t.seq < s.seq
                  \/ t.phase = "isolate" /\ s.phase = "restore"

SwitchedInOrder ==
  \A s \in confirmed :
    plan = "approved" /\ \A t \in steps : Precedes(t, s) => t \in confirmed

\* What the outage's status tells customers and the control room is what the
\* plan and the permits say, unless an assign wrote over it: nothing was
\* switched before it says so, nothing is left to switch back once it is
\* resolved, and it is never behind the plan.
StatusTellsThePlan ==
  ~overwritten =>
    /\ Implied(status) = status
    /\ status \in {"scheduled", "notified", "cancelled"} => confirmed = {}
    /\ status \in {"resolved", "closed"} => confirmed = steps /\ OpenPermits = {}

\* Supply is switched back on only when every crew that started work has
\* declared the line clear: "Work Started needs the permit issued, Work
\* Complete needs it returned" (routes/plannedOutages.js:90).
NobodyOnALiveLine == AnyConfirmed("restore") => atWork = {}

\* It does hold when a crew starts work only while it holds an issued permit
\* itself: check and write as one step, and by crew, not by job.
StartsUnderOwnPermit ==
  \A c \in Crews : c \in atWork' \ atWork => \E p \in InState("issued") : permit[p].crew = c

PermitCheckedSpec == Init /\ [][Next /\ StartsUnderOwnPermit]_vars

HowFar(ph) ==
  CASE ~AnyConfirmed(ph)                      -> "no"
    [] AnyConfirmed(ph) /\ ~AllConfirmed(ph)  -> "partly"
    [] OTHER                                  -> "wholly"

Switching == INSTANCE SafeSwitching WITH
  isolated <- HowFar("isolate"),
  restored <- HowFar("restore"),
  permit   <- [p \in Permits |-> permit[p].state]

\* Plans edited and unapproved, statuses read stale or written over, permits
\* asked for by handsets: the line is switched as SafeSwitching says.
\* (Steps that leave plan, confirmations and permits alone leave the line alone.)
KeepsSwitching ==
  /\ Switching!Init
  /\ [][switching' # switching => Switching!Next \/ UNCHANGED Switching!vars]_vars
=============================================================================

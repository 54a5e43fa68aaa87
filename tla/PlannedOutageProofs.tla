------------------------ MODULE PlannedOutageProofs ------------------------
(***************************************************************************)
(* Proofs about PlannedOutage for any crews, jobs, drafts, dispatchers and *)
(* number of permits.                                                      *)
(*                                                                         *)
(* The rules of switching look at the status, and the status may be stale  *)
(* or written over, so neither safety property follows from it.  What they *)
(* rest on is that switching leaves a mark nobody can remove: once a step  *)
(* is confirmed the plan stays approved and its steps stay what they are   *)
(* (SwitchInv).                                                            *)
(***************************************************************************)
EXTENDS PlannedOutage, TLAPS

UnderWay == {"isolating", "in_progress", "restoring", "resolved", "closed"}

-----------------------------------------------------------------------------
(* The automatic status *)

\* Six rounds of a function that moves only along the planned lifecycle end
\* where another round says nothing new (withPlan's loop).
LEMMA SixRounds ==
  ASSUME NEW f \in [Statuses -> Statuses], NEW s \in Statuses,
         f["notified"] \in {"notified", "isolating"},
         f["isolating"] \in {"isolating", "in_progress", "restoring"},
         f["in_progress"] \in {"in_progress", "restoring"},
         f["restoring"] \in {"restoring", "resolved"},
         \A t \in {"scheduled", "resolved", "closed", "cancelled"} : f[t] = t
  PROVE  LET r == f[f[f[f[f[f[s]]]]]]
         IN /\ r \in Statuses
            /\ f[r] = r
            /\ r \in UnderWay /\ s \notin UnderWay => f["notified"] = "isolating"
            /\ r = "resolved" /\ s # "resolved" => f["restoring"] = "resolved"
            /\ r \in {"scheduled", "notified", "cancelled", "closed"} => r = s
<1>1. CASE s \in {"scheduled", "resolved", "closed", "cancelled"}
  BY <1>1 DEF Statuses, UnderWay
<1>2. CASE s = "restoring"
  BY <1>2 DEF Statuses, UnderWay
<1>3. CASE s = "in_progress"
  BY <1>3 DEF Statuses, UnderWay
<1>4. CASE s = "isolating"
  BY <1>4 DEF Statuses, UnderWay
<1>5. CASE s = "notified"
  BY <1>5 DEF Statuses, UnderWay
<1> QED
  BY <1>1, <1>2, <1>3, <1>4, <1>5 DEF Statuses

\* What the end of a plan transaction leaves in the status.
LEMMA EndSettles ==
  ASSUME NEW s \in Statuses, End(s)
  PROVE  /\ status' \in Statuses
         /\ seen' = "none"
         /\ Implied(status)' = status'
         /\ status' \in UnderWay /\ s \notin UnderWay => AnyConfirmed("isolate")'
         /\ status' = "resolved" /\ s # "resolved" =>
              Phase("restore")' # {} /\ AllConfirmed("restore")'
         /\ status' \in {"scheduled", "notified", "cancelled", "closed"} => status' = s
<1> DEFINE f == [t \in Statuses |-> Implied(t)']
<1>1. /\ f \in [Statuses -> Statuses]
      /\ f["notified"] \in {"notified", "isolating"}
      /\ f["isolating"] \in {"isolating", "in_progress", "restoring"}
      /\ f["in_progress"] \in {"in_progress", "restoring"}
      /\ f["restoring"] \in {"restoring", "resolved"}
      /\ \A t \in {"scheduled", "resolved", "closed", "cancelled"} : f[t] = t
  BY DEF Implied, Statuses
<1>2. /\ f["notified"] = "isolating" => AnyConfirmed("isolate")'
      /\ f["restoring"] = "resolved" => Phase("restore")' # {} /\ AllConfirmed("restore")'
  BY DEF Implied, Statuses
<1>3. status' = f[f[f[f[f[f[s]]]]]]
  BY DEF End, Settled
<1>4. \A t \in Statuses : f[t] = Implied(t)'
  OBVIOUS
<1> HIDE DEF f
<1>5. /\ status' \in Statuses
      /\ f[status'] = status'
      /\ status' \in UnderWay /\ s \notin UnderWay => f["notified"] = "isolating"
      /\ status' = "resolved" /\ s # "resolved" => f["restoring"] = "resolved"
      /\ status' \in {"scheduled", "notified", "cancelled", "closed"} => status' = s
  BY <1>1, <1>3, SixRounds
<1>6. f[status'] = Implied(status)'
  BY <1>4, <1>5 DEF Implied
<1> QED
  BY <1>2, <1>5, <1>6 DEF End

-----------------------------------------------------------------------------
(* Types *)

\* The variables a plan transaction leaves alone keep their types.
LEMMA TypesOfPlanChange ==
  ASSUME TypeOK, PlanChange \/ OutageChange
  PROVE  TypeOK'
<1> USE DEF TypeOK, crewSide
<1>1. ASSUME NEW s \in Statuses, End(s)
      PROVE  status' \in Statuses /\ seen' \in Statuses \cup {"none"}
  BY <1>1, EndSettles
<1>2. ASSUME NEW D \in Drafts, ReplaceSteps(D)
      PROVE  TypeOK'
  BY <1>1, <1>2 DEF ReplaceSteps
<1>3. CASE Approve
  BY <1>1, <1>3 DEF Approve
<1>4. CASE Unapprove
  BY <1>1, <1>4 DEF Unapprove
<1>5. ASSUME NEW s \in steps, Confirm(s)
      PROVE  TypeOK'
  BY <1>1, <1>5 DEF Confirm
<1>6. CASE Touch
  BY <1>1, <1>6 DEF Touch, switching
<1>7. CASE Notify
  BY <1>1, <1>7 DEF Notify, switching, Statuses
<1>8. CASE Reschedule
  BY <1>1, <1>8 DEF Reschedule, switching, Statuses
<1>9. CASE Cancel
  BY <1>1, <1>9 DEF Cancel, switching, Statuses
<1>10. CASE Close
  BY <1>1, <1>10 DEF Close, switching, Statuses
<1> QED
  BY <1>2, <1>3, <1>4, <1>5, <1>6, <1>7, <1>8, <1>9, <1>10 DEF PlanChange, OutageChange

LEMMA TypesOfPermitChange ==
  ASSUME TypeOK, PermitChange
  PROVE  TypeOK'
<1> USE DEF TypeOK, crewSide, PermitStates
<1>1. End(status) => status' \in Statuses /\ seen' \in Statuses \cup {"none"}
  BY EndSettles
<1>2. ASSUME NEW c \in Crews, RequestPermit(c)
      PROVE  TypeOK'
  <2>1. PICK p \in Permits : permit' =
          [permit EXCEPT ![p] = [state |-> "requested", job |-> request[c].job, crew |-> c]]
    BY <1>2 DEF RequestPermit, InState
  <2>2. permit' \in [Permits -> [state : PermitStates, job : Jobs \cup {NoJob},
                                 crew : Crews \cup {NoCrew}]]
    BY <2>1
  <2>3. /\ request' = [request EXCEPT ![c] = Silent]
        /\ UNCHANGED <<plan, steps, confirmed, job, asked, desk, atWork, overwritten>>
        /\ End(status)
    BY <1>2 DEF RequestPermit
  <2>4. /\ request' \in [Crews -> [at : {"idle", "status", "permit"}, job : Jobs \cup {NoJob},
                                   to : JobStatuses]]
        /\ \A e \in Crews : request'[e].at # "idle" => request'[e].job # NoJob
    BY <2>3 DEF JobStatuses, Silent
  <2> QED
    BY <1>1, <2>2, <2>3, <2>4
<1>3. ASSUME NEW p \in Permits, NEW from, NEW to \in PermitStates, Moves(p, from, to)
      PROVE  permit' \in [Permits -> [state : PermitStates, job : Jobs \cup {NoJob},
                                      crew : Crews \cup {NoCrew}]]
  <2> HIDE DEF PermitStates
  <2>1. [permit[p] EXCEPT !.state = to]
          \in [state : PermitStates, job : Jobs \cup {NoJob}, crew : Crews \cup {NoCrew}]
    OBVIOUS
  <2> QED
    BY <1>3, <2>1 DEF Moves
<1>4. ASSUME NEW p \in Permits, Issue(p)
      PROVE  TypeOK'
  BY <1>1, <1>3, <1>4 DEF Issue
<1>5. ASSUME NEW p \in Permits, RefuseOrWithdraw(p)
      PROVE  TypeOK'
  BY <1>1, <1>3, <1>5 DEF RefuseOrWithdraw
<1>6. ASSUME NEW p \in Permits, Return(p)
      PROVE  TypeOK'
  BY <1>1, <1>3, <1>6 DEF Return
<1> QED
  BY <1>2, <1>4, <1>5, <1>6 DEF PermitChange

LEMMA TypesOfCrewStep ==
  ASSUME TypeOK, CrewStep
  PROVE  TypeOK'
<1> USE NamesAssumption DEF TypeOK, switching, JobStatuses, Silent
<1>1. ASSUME NEW c \in Crews, NEW j \in Jobs, AskPermit(c, j)
      PROVE  TypeOK'
  BY <1>1 DEF AskPermit
<1>2. ASSUME NEW c \in Crews, NEW j \in Jobs, NEW to \in JobStatuses \ {"none"},
             AskStatus(c, j, to)
      PROVE  TypeOK'
  BY <1>2 DEF AskStatus
<1>3. ASSUME NEW c \in Crews, WriteStatus(c)
      PROVE  TypeOK'
  <2>1. /\ request' = [request EXCEPT ![c] = Silent]
        /\ UNCHANGED <<status, seen, switching, asked, desk, overwritten>>
    BY <1>3 DEF WriteStatus
  <2>2. CASE job[request[c].job].crew = c
    <3>1. job' = [job EXCEPT ![request[c].job].status = request[c].to]
      BY <1>3, <2>2 DEF WriteStatus
    <3>2. atWork' = CASE request[c].to = "Work Started"  -> atWork \cup {c}
                      [] request[c].to = "Work Complete" -> atWork \ {c}
                      [] OTHER -> atWork
      BY <1>3, <2>2 DEF WriteStatus
    <3>3. atWork' \subseteq Crews
      <4>1. CASE request[c].to = "Work Started"
        BY <3>2, <4>1
      <4>2. CASE request[c].to = "Work Complete"
        BY <3>2, <4>2
      <4>3. CASE request[c].to \notin {"Work Started", "Work Complete"}
        BY <3>2, <4>3
      <4> QED
        BY <4>1, <4>2, <4>3
    <3>4. request[c].job \in Jobs /\ request[c].to \in JobStatuses
      BY <1>3 DEF WriteStatus
    <3>5. job' \in [Jobs -> [crew : Crews \cup {NoCrew}, status : JobStatuses]]
      <4> HIDE DEF JobStatuses
      <4> DEFINE j == request[c].job
      <4>1. [job[j] EXCEPT !.status = request[c].to]
              \in [crew : Crews \cup {NoCrew}, status : JobStatuses]
        BY <3>4
      <4> QED
        BY <3>1, <3>4, <4>1
    <3> QED
      BY <2>1, <3>3, <3>5
  <2>3. CASE job[request[c].job].crew # c
    <3>1. UNCHANGED <<job, atWork>>
      BY <1>3, <2>3 DEF WriteStatus
    <3> QED
      BY <2>1, <3>1
  <2> QED
    BY <2>2, <2>3
<1>4. ASSUME NEW c \in Crews, GiveUp(c)
      PROVE  TypeOK'
  BY <1>4 DEF GiveUp
<1>5. ASSUME NEW j \in Jobs, AskReassignment(j) \/ DismissReassignment(j)
      PROVE  TypeOK'
  BY <1>5 DEF AskReassignment, DismissReassignment
<1> QED
  BY <1>1, <1>2, <1>3, <1>4, <1>5 DEF CrewStep

LEMMA TypesOfDispatchStep ==
  ASSUME TypeOK, DispatchStep
  PROVE  TypeOK'
<1> USE NamesAssumption DEF TypeOK, switching
<1> PICK d \in Desks : AssignRead(d) \/ AssignStatus(d) \/ AssignJob(d)
  BY DEF DispatchStep
<1>1. CASE AssignRead(d)
  <2>1. PICK j \in Jobs \cup {NoJob} :
          desk' = [desk EXCEPT ![d] = [at |-> "read", from |-> status, job |-> j]]
    BY <1>1 DEF AssignRead
  <2>2. desk' \in [Desks -> [at : {"idle", "read", "written", "done"}, from : Statuses,
                             job : Jobs \cup {NoJob}]]
    BY <2>1
  <2> QED
    BY <1>1, <2>2 DEF AssignRead
<1>2. CASE AssignStatus(d)
  <2>1. /\ desk' = [desk EXCEPT ![d].at = "written"]
        /\ status' = desk[d].from
        /\ overwritten' \in BOOLEAN
        /\ UNCHANGED <<seen, switching, job, asked, request, atWork>>
    BY <1>2 DEF AssignStatus
  <2>2. desk' \in [Desks -> [at : {"idle", "read", "written", "done"}, from : Statuses,
                             job : Jobs \cup {NoJob}]]
    <3>1. [desk[d] EXCEPT !.at = "written"]
            \in [at : {"idle", "read", "written", "done"}, from : Statuses,
                 job : Jobs \cup {NoJob}]
      OBVIOUS
    <3> QED
      BY <2>1, <3>1
  <2> QED
    BY <2>1, <2>2
<1>3. CASE AssignJob(d)
  <2>1. PICK j \in Jobs :
          /\ job' = [job EXCEPT ![j] = [crew |-> d.crew, status |-> "Acknowledged"]]
          /\ asked' = asked \ {j}
    BY <1>3 DEF AssignJob
  <2>2. job' \in [Jobs -> [crew : Crews \cup {NoCrew}, status : JobStatuses]]
    BY <2>1 DEF JobStatuses
  <2>3. desk' \in [Desks -> [at : {"idle", "read", "written", "done"}, from : Statuses,
                             job : Jobs \cup {NoJob}]]
    BY <1>3 DEF AssignJob, Answered, Statuses
  <2> QED
    BY <1>3, <2>1, <2>2, <2>3 DEF AssignJob
<1> QED
  BY <1>1, <1>2, <1>3

\* Every variable of the planned outage keeps its type, with handsets and
\* dispatchers that hold what they read.
THEOREM PlannedTypeCorrect == Spec => []TypeOK
<1>1. Init => TypeOK
  <2> SUFFICES ASSUME Init
               PROVE  TypeOK
    OBVIOUS
  <2> USE DEF Init, Statuses, PermitStates, JobStatuses, Silent
  <2>1. permit \in [Permits -> [state : PermitStates, job : Jobs \cup {NoJob},
                                crew : Crews \cup {NoCrew}]]
    OBVIOUS
  <2>2. /\ request \in [Crews -> [at : {"idle", "status", "permit"}, job : Jobs \cup {NoJob},
                                  to : JobStatuses]]
        /\ \A c \in Crews : request[c].at # "idle" => request[c].job # NoJob
    OBVIOUS
  <2>3. job \in [Jobs -> [crew : Crews \cup {NoCrew}, status : JobStatuses]]
    OBVIOUS
  <2>4. desk \in [Desks -> [at : {"idle", "read", "written", "done"}, from : Statuses,
                            job : Jobs \cup {NoJob}]]
    OBVIOUS
  <2> QED
    BY <2>1, <2>2, <2>3, <2>4 DEF TypeOK
<1>2. TypeOK /\ [Next]_vars => TypeOK'
  <2> SUFFICES ASSUME TypeOK, [Next]_vars
               PROVE  TypeOK'
    OBVIOUS
  <2>1. CASE Begin
    BY <2>1 DEF Begin, TypeOK, switching, crewSide
  <2>2. CASE Rollback
    BY <2>2 DEF Rollback, TypeOK, switching, crewSide
  <2>3. CASE UNCHANGED vars
    BY <2>3 DEF TypeOK, vars, switching, crewSide
  <2> QED
    BY <2>1, <2>2, <2>3, TypesOfPlanChange, TypesOfPermitChange, TypesOfCrewStep,
       TypesOfDispatchStep DEF Next
<1> QED
  BY <1>1, <1>2, PTL DEF Spec

-----------------------------------------------------------------------------
(* The line stays dead, and steps are done in order *)

\* Whatever status anyone has read or written back, switching has begun if it
\* says so.
Begun ==
  \/ status \in UnderWay
  \/ seen \in UnderWay
  \/ \E d \in Desks : desk[d].from \in UnderWay

MarkedOnceBegun == Begun => confirmed # {}

PermitsUnderSwitching == OpenPermits # {} => confirmed # {}

ApprovedOnceMarked == confirmed # {} => plan = "approved"

SwitchInv ==
  /\ MarkedOnceBegun
  /\ PermitsUnderSwitching
  /\ ApprovedOnceMarked
  /\ PermitKeepsLineDead
  /\ SwitchedInOrder

\* The status is also what the last plan transaction saw, while nobody writes
\* over it.
InTouch == ~overwritten /\ seen # "none" => seen = status

LEMMA SwitchInvInit == Init => SwitchInv
<1> SUFFICES ASSUME Init
             PROVE  SwitchInv
  OBVIOUS
<1>1. ~Begun
  BY DEF Init, Begun, UnderWay
<1>2. OpenPermits = {}
  BY DEF Init, OpenPermits
<1> QED
  BY <1>1, <1>2 DEF Init, SwitchInv, MarkedOnceBegun, PermitsUnderSwitching,
     ApprovedOnceMarked, PermitKeepsLineDead, SwitchedInOrder

\* A plan transaction ends in a status under way only if it was, or a step is
\* confirmed now.
LEMMA EndKeepsMark ==
  ASSUME TypeOK, MarkedOnceBegun, NEW s \in Statuses, End(s), UNCHANGED desk,
         s \in UnderWay => confirmed # {},
         confirmed # {} => confirmed' # {}
  PROVE  MarkedOnceBegun'
<1>1. status' \in UnderWay => confirmed' # {}
  <2>1. AnyConfirmed("isolate")' => confirmed' # {}
    BY DEF AnyConfirmed
  <2> QED
    BY <2>1, EndSettles
<1>2. seen' \notin UnderWay
  BY EndSettles DEF UnderWay
<1>3. (\E d \in Desks : desk[d].from \in UnderWay)' => confirmed' # {}
  BY DEF MarkedOnceBegun, Begun
<1> QED
  BY <1>1, <1>2, <1>3 DEF MarkedOnceBegun, Begun

\* A step that touches neither plan nor permits keeps the invariant.
LEMMA OtherStepKeepsSwitchInv ==
  ASSUME SwitchInv, UNCHANGED switching, MarkedOnceBegun'
  PROVE  SwitchInv'
BY DEF SwitchInv, switching, PermitsUnderSwitching, ApprovedOnceMarked, PermitKeepsLineDead,
   SwitchedInOrder, OpenPermits, AnyConfirmed, AllConfirmed, Phase

LEMMA OutageChangeKeepsSwitchInv ==
  ASSUME TypeOK, SwitchInv, OutageChange \/ Touch
  PROVE  SwitchInv'
<1>1. PICK s \in Statuses : /\ End(s)
                            /\ s \in UnderWay => s = status \/ seen = "resolved"
                            /\ UNCHANGED <<switching, crewSide, overwritten>>
  BY DEF OutageChange, Notify, Reschedule, Cancel, Close, Touch, TypeOK, Statuses, UnderWay
<1>2. s \in UnderWay => confirmed # {}
  BY <1>1 DEF SwitchInv, MarkedOnceBegun, Begun, UnderWay
<1>3. UNCHANGED desk /\ UNCHANGED confirmed
  BY <1>1 DEF crewSide, switching
<1>4. MarkedOnceBegun'
  BY <1>1, <1>2, <1>3, EndKeepsMark DEF SwitchInv
<1> QED
  BY <1>1, <1>4, OtherStepKeepsSwitchInv

LEMMA PlanChangeKeepsSwitchInv ==
  ASSUME TypeOK, SwitchInv, PlanChange
  PROVE  SwitchInv'
<1> USE DEF SwitchInv
<1>1. status \in Statuses /\ (status \in UnderWay => confirmed # {})
  BY DEF TypeOK, MarkedOnceBegun, Begun
<1>2. ASSUME NEW D \in Drafts, ReplaceSteps(D)
      PROVE  SwitchInv'
  <2>1. confirmed = {} /\ confirmed' = {} /\ UNCHANGED <<plan, permit, desk>> /\ End(status)
    BY <1>2 DEF ReplaceSteps, ApprovedOnceMarked, crewSide
  <2>2. OpenPermits' = {}
    BY <2>1 DEF PermitsUnderSwitching, OpenPermits
  <2>3. MarkedOnceBegun'
    BY <1>1, <2>1, EndKeepsMark
  <2> QED
    BY <2>1, <2>2, <2>3 DEF PermitsUnderSwitching, ApprovedOnceMarked, PermitKeepsLineDead,
       SwitchedInOrder
<1>3. ASSUME Approve \/ Unapprove
      PROVE  SwitchInv'
  <2>1. confirmed = {} /\ UNCHANGED <<steps, confirmed, permit, desk>> /\ End(status)
    BY <1>3 DEF Approve, Unapprove, ApprovedOnceMarked, crewSide
  <2>2. OpenPermits' = {}
    BY <2>1 DEF PermitsUnderSwitching, OpenPermits
  <2>3. MarkedOnceBegun'
    BY <1>1, <2>1, EndKeepsMark
  <2> QED
    BY <2>1, <2>2, <2>3 DEF PermitsUnderSwitching, ApprovedOnceMarked, PermitKeepsLineDead,
       SwitchedInOrder
<1>4. ASSUME NEW s \in steps, Confirm(s)
      PROVE  SwitchInv'
  <2>1. /\ MayConfirm(s)
        /\ confirmed' = confirmed \cup {s}
        /\ UNCHANGED <<plan, steps, permit, desk>>
        /\ End(status)
    BY <1>4 DEF Confirm, crewSide
  <2>2. MarkedOnceBegun'
    BY <1>1, <2>1, EndKeepsMark
  <2>3. confirmed' # {} /\ plan' = "approved"
    BY <2>1 DEF MayConfirm
  <2>4. OpenPermits' = OpenPermits
    BY <2>1 DEF OpenPermits
  <2>5. AllConfirmed("isolate") => AllConfirmed("isolate")'
    BY <2>1 DEF AllConfirmed, Phase
  <2>6. PermitKeepsLineDead'
    <3>1. CASE s.phase = "restore"
      BY <2>1, <2>4, <3>1 DEF MayConfirm, PermitKeepsLineDead
    <3>2. CASE s.phase # "restore"
      <4>1. AnyConfirmed("restore")' => AnyConfirmed("restore")
        BY <2>1, <3>2 DEF AnyConfirmed, Phase
      <4> QED
        BY <2>1, <2>4, <2>5, <4>1 DEF PermitKeepsLineDead
    <3> QED
      BY <3>1, <3>2
  <2>7. SwitchedInOrder'
    <3>1. ASSUME NEW t \in steps, Precedes(t, s)
          PROVE  t \in confirmed
      BY <2>1, <3>1 DEF Precedes, MayConfirm, Phase, AllConfirmed
    <3> QED
      BY <2>1, <2>3, <3>1 DEF SwitchedInOrder
  <2> QED
    BY <2>2, <2>3, <2>6, <2>7 DEF PermitsUnderSwitching, ApprovedOnceMarked
<1>5. CASE Touch
  BY <1>5, OutageChangeKeepsSwitchInv
<1> QED
  BY <1>2, <1>3, <1>4, <1>5 DEF PlanChange

LEMMA PermitChangeKeepsSwitchInv ==
  ASSUME TypeOK, SwitchInv, PermitChange
  PROVE  SwitchInv'
<1> USE DEF SwitchInv
<1>1. UNCHANGED <<plan, steps, confirmed, desk>> /\ End(status)
  BY DEF PermitChange, RequestPermit, Issue, RefuseOrWithdraw, Return, crewSide
<1>2. MarkedOnceBegun'
  <2>1. status \in Statuses /\ (status \in UnderWay => confirmed # {})
    BY DEF TypeOK, MarkedOnceBegun, Begun
  <2> QED
    BY <1>1, <2>1, EndKeepsMark
<1>3. ApprovedOnceMarked' /\ SwitchedInOrder'
  BY <1>1 DEF ApprovedOnceMarked, SwitchedInOrder
<1>4. UNCHANGED <<AnyConfirmed("restore"), AllConfirmed("isolate")>>
  BY <1>1 DEF AnyConfirmed, AllConfirmed, Phase
<1>5. permit \in [Permits -> [state : PermitStates, job : Jobs \cup {NoJob},
                              crew : Crews \cup {NoCrew}]]
  BY DEF TypeOK
<1>6. ASSUME NEW c \in Crews, RequestPermit(c)
      PROVE  PermitsUnderSwitching' /\ PermitKeepsLineDead'
  <2>1. PICK p \in Permits : permit' =
          [permit EXCEPT ![p] = [state |-> "requested", job |-> request[c].job, crew |-> c]]
    BY <1>6 DEF RequestPermit, InState
  <2>2. seen \in UnderWay /\ ~AnyConfirmed("restore")
    BY <1>6 DEF RequestPermit, MayRequest, UnderWay
  <2>3. confirmed # {}
    BY <2>2 DEF MarkedOnceBegun, Begun
  <2>4. \A q \in OpenPermits' : permit'[q].state = "issued" => q \in OpenPermits /\ permit[q].state = "issued"
    BY <1>5, <2>1 DEF OpenPermits
  <2> QED
    BY <1>1, <1>4, <2>2, <2>3, <2>4 DEF PermitsUnderSwitching, PermitKeepsLineDead
<1>7. ASSUME NEW p \in Permits, Issue(p) \/ RefuseOrWithdraw(p) \/ Return(p)
      PROVE  PermitsUnderSwitching' /\ PermitKeepsLineDead'
  <2>1. PICK to \in {"issued", "refused", "withdrawn", "returned"} :
          /\ permit[p].state \in {"requested", "issued"}
          /\ permit' = [permit EXCEPT ![p].state = to]
          /\ to = "issued" => MayIssue
    BY <1>7 DEF Issue, RefuseOrWithdraw, Return, Moves
  <2>2. OpenPermits' \subseteq OpenPermits /\ OpenPermits \subseteq Permits
    BY <1>5, <2>1 DEF OpenPermits
  <2>3. \A q \in Permits : permit'[q].state = "issued" => permit[q].state = "issued" \/ MayIssue
    BY <1>5, <2>1
  <2> QED
    BY <1>1, <1>4, <2>2, <2>3 DEF PermitsUnderSwitching, PermitKeepsLineDead, MayIssue
<1> QED
  BY <1>2, <1>3, <1>6, <1>7 DEF PermitChange

\* Everything that happens beside the plan's transactions, and their start.
LEMMA OutsideStepKeepsSwitchInv ==
  ASSUME TypeOK, SwitchInv, Begin \/ Rollback \/ CrewStep \/ DispatchStep \/ UNCHANGED vars
  PROVE  SwitchInv'
<1>1. UNCHANGED switching
  BY DEF Begin, Rollback, CrewStep, AskPermit, AskStatus, WriteStatus, GiveUp, AskReassignment,
     DismissReassignment, DispatchStep, AssignRead, AssignStatus, AssignJob, vars
<1>2. Begun' => Begun
  <2>1. CASE Begin \/ Rollback
    BY <2>1 DEF Begin, Rollback, Begun, UnderWay, crewSide
  <2>2. CASE CrewStep \/ UNCHANGED vars
    BY <2>2 DEF CrewStep, AskPermit, AskStatus, WriteStatus, GiveUp, AskReassignment,
       DismissReassignment, vars, crewSide, Begun
  <2>3. CASE DispatchStep
    <3> PICK d \in Desks : AssignRead(d) \/ AssignStatus(d) \/ AssignJob(d)
      BY <2>3 DEF DispatchStep
    <3>1. /\ status' \in {status, desk[d].from}
          /\ seen' = seen
          /\ \A e \in Desks : desk'[e].from \in {desk[e].from, status, "scheduled"}
      BY DEF TypeOK, AssignRead, AssignStatus, AssignJob, Answered
    <3> QED
      BY <3>1 DEF Begun, UnderWay
  <2> QED
    BY <2>1, <2>2, <2>3
<1>3. MarkedOnceBegun'
  BY <1>1, <1>2 DEF SwitchInv, MarkedOnceBegun, switching
<1> QED
  BY <1>1, <1>3, OtherStepKeepsSwitchInv

LEMMA SwitchInvHolds == Spec => []SwitchInv
<1>1. TypeOK /\ SwitchInv /\ [Next]_vars => SwitchInv'
  BY OutageChangeKeepsSwitchInv, PlanChangeKeepsSwitchInv, PermitChangeKeepsSwitchInv,
     OutsideStepKeepsSwitchInv DEF Next
<1> QED
  BY <1>1, SwitchInvInit, PlannedTypeCorrect, PTL DEF Spec

\* No interleaving of control room, crews and assigns closes a switch while a
\* crew asks for or holds a permit, nor leaves a crew with a permit over an
\* isolation that is not complete.
THEOREM LineStaysDead == Spec => []PermitKeepsLineDead
BY SwitchInvHolds, PTL DEF SwitchInv

\* What is confirmed is always a beginning of the approved plan: isolation in
\* order, and restoration in order after all of it.
THEOREM StepsFollowThePlan == Spec => []SwitchedInOrder
BY SwitchInvHolds, PTL DEF SwitchInv

-----------------------------------------------------------------------------
(* The status tells the plan *)

StatusInv == InTouch /\ StatusTellsThePlan

\* What a plan transaction must ensure itself; the automatic loop does the rest.
LEMMA EndTells ==
  ASSUME TypeOK', SwitchInv', NEW s \in Statuses, End(s),
         s \in {"scheduled", "notified", "cancelled"} /\ status' = s => confirmed' = {},
         s \in {"resolved", "closed"} => confirmed' = steps' /\ OpenPermits' = {}
  PROVE  StatusInv'
<1>1. seen' = "none" /\ Implied(status)' = status'
  BY EndSettles
<1>2. status' \in {"scheduled", "notified", "cancelled"} => confirmed' = {}
  BY EndSettles
<1>3. ASSUME status' \in {"resolved", "closed"}, s \notin {"resolved", "closed"}
      PROVE  confirmed' = steps' /\ OpenPermits' = {}
  <2>1. Phase("restore")' # {} /\ AllConfirmed("restore")'
    BY <1>3, EndSettles
  <2>2. PICK r \in steps' : r.phase = "restore" /\ r \in confirmed'
    BY <2>1 DEF Phase, AllConfirmed
  <2>3. AnyConfirmed("restore")'
    BY <2>2 DEF AnyConfirmed, Phase
  <2>4. \A t \in steps' : t.phase \in {"isolate", "restore"}
    BY DraftsAssumption DEF TypeOK
  <2>5. \A t \in steps' : t \in confirmed'
    <3> SUFFICES ASSUME NEW t \in steps'
                 PROVE  t \in confirmed'
      OBVIOUS
    <3>1. CASE t.phase = "restore"
      BY <2>1, <3>1 DEF Phase, AllConfirmed
    <3>2. CASE t.phase = "isolate"
      BY <2>2, <3>2 DEF SwitchInv, SwitchedInOrder, Precedes
    <3> QED
      BY <2>4, <3>1, <3>2
  <2> QED
    BY <2>3, <2>5 DEF SwitchInv, PermitKeepsLineDead, TypeOK
<1> QED
  BY <1>1, <1>2, <1>3 DEF StatusInv, InTouch, StatusTellsThePlan

LEMMA StatusInvInit == Init => StatusInv
<1> SUFFICES ASSUME Init
             PROVE  StatusInv
  OBVIOUS
<1>1. Implied(status) = status
  BY DEF Init, Implied
<1> QED
  BY <1>1 DEF Init, StatusInv, InTouch, StatusTellsThePlan

LEMMA TransactionKeepsStatusInv ==
  ASSUME TypeOK, SwitchInv, StatusInv, TypeOK', SwitchInv',
         PlanChange \/ OutageChange \/ PermitChange
  PROVE  StatusInv'
<1>1. overwritten' = overwritten /\ \E s \in Statuses : End(s)
  BY DEF PlanChange, ReplaceSteps, Approve, Unapprove, Confirm, Touch, OutageChange, Notify,
     Reschedule, Cancel, Close, PermitChange, RequestPermit, Issue, RefuseOrWithdraw, Return,
     TypeOK, Statuses
<1>2. CASE overwritten
  <2>1. seen' = "none"
    BY <1>1, EndSettles
  <2> QED
    BY <1>1, <1>2, <2>1 DEF StatusInv, InTouch, StatusTellsThePlan
<1>3. CASE ~overwritten
  <2>1. /\ seen = status
        /\ status \in Statuses
        /\ status \in {"scheduled", "notified", "cancelled"} => confirmed = {}
        /\ status \in {"resolved", "closed"} =>
             confirmed = steps /\ OpenPermits = {} /\ confirmed # {} /\ plan = "approved"
    BY <1>1, <1>3 DEF StatusInv, InTouch, StatusTellsThePlan, End, TypeOK, SwitchInv,
       MarkedOnceBegun, Begun, UnderWay, ApprovedOnceMarked
  <2>2. ASSUME NEW s \in Statuses, End(s), UNCHANGED switching,
               s \in {"scheduled", "notified", "cancelled"} => confirmed = {},
               s \in {"resolved", "closed"} => status \in {"resolved", "closed"}
        PROVE  StatusInv'
    <3>1. UNCHANGED <<steps, confirmed, OpenPermits>>
      BY <2>2 DEF switching, OpenPermits
    <3> QED
      BY <2>1, <2>2, <3>1, EndTells
  <2>3. CASE Touch
    BY <2>1, <2>2, <2>3 DEF Touch
  <2>4. CASE OutageChange
    <3>1. CASE Notify
      BY <2>1, <2>2, <3>1 DEF Notify, Statuses
    <3>2. CASE Reschedule
      BY <2>1, <2>2, <3>2 DEF Reschedule, NotStarted, Statuses
    <3>3. CASE Cancel
      BY <2>1, <2>2, <3>3 DEF Cancel, NotStarted, Statuses
    <3>4. CASE Close
      BY <2>1, <2>2, <3>4 DEF Close, Statuses
    <3> QED
      BY <2>4, <3>1, <3>2, <3>3, <3>4 DEF OutageChange
  <2>5. ASSUME Approve \/ Unapprove \/ \E D \in Drafts : ReplaceSteps(D)
        PROVE  StatusInv'
    <3>1. confirmed = {} /\ confirmed' = {} /\ End(status)
      BY <2>5 DEF Approve, Unapprove, ReplaceSteps, SwitchInv, ApprovedOnceMarked
    <3> QED
      BY <2>1, <3>1, EndTells
  <2>6. ASSUME NEW c \in steps, Confirm(c)
        PROVE  StatusInv'
    <3>1. /\ c \in steps \ confirmed
          /\ status \in SwitchingPhase(c.phase)
          /\ confirmed' = confirmed \cup {c}
          /\ steps' = steps
          /\ End(status)
      BY <2>1, <2>6 DEF Confirm, MayConfirm
    <3>2. c.phase \in {"isolate", "restore"}
      BY DraftsAssumption DEF TypeOK
    <3>3. status \notin {"resolved", "closed"}
      BY <2>1, <3>1
    <3>4. status \in {"scheduled", "notified", "cancelled"} => status' # status
      <4> SUFFICES ASSUME status \in {"scheduled", "notified", "cancelled"}, status' = status
                   PROVE  FALSE
        OBVIOUS
      <4>1. status' = "notified" /\ c.phase = "isolate"
        BY <3>1, <3>2 DEF SwitchingPhase
      <4>2. AnyConfirmed("isolate")'
        BY <3>1, <4>1 DEF AnyConfirmed, Phase
      <4>3. Implied(status)' = "isolating"
        BY <4>1, <4>2 DEF Implied
      <4> QED
        BY <2>1, <3>1, <4>1, <4>3, EndSettles
    <3> QED
      BY <2>1, <3>1, <3>3, <3>4, EndTells
  <2>7. CASE PermitChange
    <3>1. UNCHANGED <<steps, confirmed>> /\ End(status)
      BY <2>7 DEF PermitChange, RequestPermit, Issue, RefuseOrWithdraw, Return
    <3>2. status \in {"resolved", "closed"} => OpenPermits' = {}
      <4> SUFFICES ASSUME status \in {"resolved", "closed"}
                   PROVE  OpenPermits' = {}
        OBVIOUS
      <4>1. PICK p \in Permits : Issue(p) \/ RefuseOrWithdraw(p) \/ Return(p)
        BY <2>1, <2>7 DEF PermitChange, RequestPermit, MayRequest
      <4>2. p \in OpenPermits
        BY <4>1 DEF Issue, RefuseOrWithdraw, Return, Moves, OpenPermits
      <4> QED
        BY <2>1, <4>2
    <3> QED
      BY <2>1, <3>1, <3>2, EndTells
  <2> QED
    BY <2>3, <2>4, <2>5, <2>6, <2>7 DEF PlanChange
<1> QED
  BY <1>2, <1>3

LEMMA OutsideStepKeepsStatusInv ==
  ASSUME TypeOK, StatusInv, Begin \/ Rollback \/ CrewStep \/ DispatchStep \/ UNCHANGED vars
  PROVE  StatusInv'
<1>1. UNCHANGED switching
  BY DEF Begin, Rollback, CrewStep, AskPermit, AskStatus, WriteStatus, GiveUp, AskReassignment,
     DismissReassignment, DispatchStep, AssignRead, AssignStatus, AssignJob, vars
<1>2. ~overwritten' => ~overwritten /\ status' = status /\ seen' \in {"none", seen, status}
  BY DEF TypeOK, Begin, Rollback, CrewStep, AskPermit, AskStatus, WriteStatus, GiveUp,
     AskReassignment, DismissReassignment, DispatchStep, AssignRead, AssignStatus, AssignJob, vars
<1>3. status' = status => Implied(status)' = Implied(status)
  BY <1>1 DEF Implied, switching, AnyConfirmed, AllConfirmed, Phase, InState, OpenPermits
<1>4. UNCHANGED <<steps, confirmed, OpenPermits>>
  BY <1>1 DEF switching, OpenPermits
<1> QED
  BY <1>2, <1>3, <1>4 DEF StatusInv, InTouch, StatusTellsThePlan

\* Unless an assign writes a status back over it, the outage's status is the
\* one the plan and the permits imply, through every edit, notice, reschedule,
\* confirmation and permit.
THEOREM StatusFollowsThePlan == Spec => []StatusTellsThePlan
<1>1. TypeOK /\ SwitchInv /\ StatusInv /\ TypeOK' /\ SwitchInv' /\ [Next]_vars => StatusInv'
  BY TransactionKeepsStatusInv, OutsideStepKeepsStatusInv DEF Next
<1>2. StatusInv => StatusTellsThePlan
  BY DEF StatusInv
<1> QED
  BY <1>1, <1>2, StatusInvInit, PlannedTypeCorrect, SwitchInvHolds, PTL DEF Spec

-----------------------------------------------------------------------------
(* Safe switching *)

\* A plan that is approved isolates something.
ApprovedIsolates == plan = "approved" => Phase("isolate") # {}

LEMMA ApprovedIsolatesStep ==
  ASSUME ApprovedIsolates, [Next]_vars
  PROVE  ApprovedIsolates'
<1>1. UNCHANGED <<plan, steps>> \/ Approve \/ Unapprove \/ \E D \in Drafts : ReplaceSteps(D)
  BY DEF Next, Begin, Rollback, PlanChange, Confirm, Touch, OutageChange, Notify, Reschedule,
     Cancel, Close, PermitChange, RequestPermit, Issue, RefuseOrWithdraw, Return, CrewStep,
     AskPermit, AskStatus, WriteStatus, GiveUp, AskReassignment, DismissReassignment,
     DispatchStep, AssignRead, AssignStatus, AssignJob, vars, switching
<1>2. CASE UNCHANGED <<plan, steps>>
  BY <1>2 DEF ApprovedIsolates, Phase
<1>3. CASE Approve
  BY <1>3 DEF Approve, ApprovedIsolates, Phase
<1>4. ASSUME Unapprove \/ \E D \in Drafts : ReplaceSteps(D)
      PROVE  plan' # "approved"
  BY <1>4 DEF Unapprove, ReplaceSteps
<1> QED
  BY <1>1, <1>2, <1>3, <1>4 DEF ApprovedIsolates

LEMMA HowFarFacts ==
  ASSUME NEW ph
  PROVE  /\ HowFar(ph) = "no" <=> ~AnyConfirmed(ph)
         /\ HowFar(ph) = "partly" <=> AnyConfirmed(ph) /\ ~AllConfirmed(ph)
         /\ HowFar(ph) = "wholly" <=> AnyConfirmed(ph) /\ AllConfirmed(ph)
         /\ HowFar(ph) \in {"no", "partly", "wholly"}
BY DEF HowFar

LEMMA SameSteps ==
  ASSUME UNCHANGED <<steps, confirmed>>, NEW ph
  PROVE  HowFar(ph)' = HowFar(ph)
BY DEF HowFar, AnyConfirmed, AllConfirmed, Phase

\* What is confirmed begins with a point of isolation.
LEMMA FirstIsIsolation ==
  ASSUME TypeOK, SwitchInv, ApprovedIsolates, confirmed # {}
  PROVE  AnyConfirmed("isolate")
<1>1. PICK s \in confirmed : s \in steps /\ s.phase \in {"isolate", "restore"}
  BY DraftsAssumption DEF TypeOK
<1>2. CASE s.phase = "isolate"
  BY <1>1, <1>2 DEF AnyConfirmed, Phase
<1>3. CASE s.phase = "restore"
  <2>1. PICK t \in steps : t.phase = "isolate"
    BY DEF SwitchInv, ApprovedOnceMarked, ApprovedIsolates, Phase
  <2>2. t \in confirmed
    BY <1>1, <1>3, <2>1 DEF SwitchInv, SwitchedInOrder, Precedes
  <2> QED
    BY <2>1, <2>2 DEF AnyConfirmed, Phase
<1> QED
  BY <1>1, <1>2, <1>3

\* A step of the plan confirmed: the line is isolated further, or restored.
LEMMA ConfirmSwitches ==
  ASSUME TypeOK, SwitchInv, ApprovedIsolates, NEW s \in steps, Confirm(s)
  PROVE  Switching!Next
<1>1. /\ s \in steps /\ s \notin confirmed /\ MayConfirm(s)
      /\ confirmed' = confirmed \cup {s} /\ UNCHANGED <<steps, permit>>
  BY DEF Confirm
<1>2. s.phase \in {"isolate", "restore"}
  BY DraftsAssumption DEF TypeOK
<1>3. CASE s.phase = "isolate"
  <2>1. ~AllConfirmed("isolate") /\ ~AnyConfirmed("restore")
    BY <1>1, <1>3 DEF AllConfirmed, AnyConfirmed, Phase, SwitchInv, SwitchedInOrder, Precedes
  <2>2. AnyConfirmed("isolate")' /\ ~AnyConfirmed("restore")'
    BY <1>1, <1>3, <2>1 DEF AnyConfirmed, Phase
  <2>3. HowFar("restore") = "no" /\ HowFar("isolate") # "wholly"
    BY <2>1, HowFarFacts
  <2>4. HowFar("restore")' = "no" /\ HowFar("isolate")' \in {"partly", "wholly"}
    BY <2>2 DEF HowFar
  <2>5. Switching!Isolate
    BY <1>1, <2>3, <2>4 DEF Switching!Isolate
  <2> QED
    BY <2>5 DEF Switching!Next
<1>4. CASE s.phase = "restore"
  <2>1. AllConfirmed("isolate") /\ OpenPermits = {} /\ plan = "approved"
    BY <1>1, <1>4 DEF MayConfirm
  <2>2. AnyConfirmed("isolate") /\ ~AllConfirmed("restore")
    BY <1>1, <1>4, <2>1 DEF AnyConfirmed, AllConfirmed, ApprovedIsolates, Phase
  <2>3. AnyConfirmed("isolate")' /\ AllConfirmed("isolate")' /\ AnyConfirmed("restore")'
    BY <1>1, <1>4, <2>1, <2>2 DEF AnyConfirmed, AllConfirmed, Phase
  <2>4. HowFar("isolate") = "wholly" /\ HowFar("restore") # "wholly"
    BY <2>1, <2>2, HowFarFacts
  <2>5. HowFar("isolate")' = "wholly" /\ HowFar("restore")' \in {"partly", "wholly"}
    BY <2>3 DEF HowFar
  <2>6. Switching!NobodyAllowed
    BY <2>1 DEF Switching!NobodyAllowed, OpenPermits
  <2>7. Switching!Restore
    BY <1>1, <2>4, <2>5, <2>6 DEF Switching!Restore
  <2> QED
    BY <2>7 DEF Switching!Next
<1> QED
  BY <1>2, <1>3, <1>4

LEMMA PermitSwitches ==
  ASSUME TypeOK, SwitchInv, ApprovedIsolates, PermitChange
  PROVE  Switching!Next
<1>0. /\ permit \in [Permits -> [state : PermitStates, job : Jobs \cup {NoJob},
                                 crew : Crews \cup {NoCrew}]]
      /\ UNCHANGED <<HowFar("isolate"), HowFar("restore")>>
  <2>1. UNCHANGED <<steps, confirmed>>
    BY DEF PermitChange, RequestPermit, Issue, RefuseOrWithdraw, Return
  <2> QED
    BY <2>1, SameSteps DEF TypeOK
<1>1. ASSUME NEW c \in Crews, RequestPermit(c)
      PROVE  Switching!Next
  <2>1. PICK p \in Permits :
          /\ permit[p].state = "none"
          /\ permit' =
               [permit EXCEPT ![p] = [state |-> "requested", job |-> request[c].job, crew |-> c]]
    BY <1>1 DEF RequestPermit, InState
  <2>2. confirmed # {} /\ ~AnyConfirmed("restore")
    BY <1>1 DEF RequestPermit, MayRequest, SwitchInv, MarkedOnceBegun, Begun, UnderWay
  <2>3. HowFar("isolate") # "no" /\ HowFar("restore") = "no"
    BY <2>2, FirstIsIsolation, HowFarFacts
  <2>4. [q \in Permits |-> permit'[q].state]
          = [[q \in Permits |-> permit[q].state] EXCEPT ![p] = "requested"]
    BY <1>0, <2>1
  <2>5. Switching!Request(p)
    BY <1>0, <2>1, <2>3, <2>4 DEF Switching!Request, Switching!Moves
  <2> QED
    BY <2>5 DEF Switching!Next
<1>2. ASSUME NEW p \in Permits, NEW from, NEW to, Moves(p, from, to)
      PROVE  Switching!Moves(p, from, to)
  <2>1. [q \in Permits |-> permit'[q].state]
          = [[q \in Permits |-> permit[q].state] EXCEPT ![p] = to]
    BY <1>0, <1>2 DEF Moves
  <2> QED
    BY <1>0, <1>2, <2>1 DEF Moves, Switching!Moves
<1>3. ASSUME NEW p \in Permits, Issue(p)
      PROVE  Switching!Next
  <2>1. p \in OpenPermits
    BY <1>3 DEF Issue, Moves, OpenPermits
  <2>2. /\ AllConfirmed("isolate") /\ ~AnyConfirmed("restore") /\ confirmed # {}
    BY <1>3, <2>1 DEF Issue, MayIssue, SwitchInv, PermitsUnderSwitching
  <2>3. HowFar("isolate") = "wholly" /\ HowFar("restore") = "no"
    BY <2>2, FirstIsIsolation, HowFarFacts
  <2>4. Switching!Issue(p)
    BY <1>2, <1>3, <2>3 DEF Issue, Switching!Issue
  <2> QED
    BY <2>4 DEF Switching!Next
<1>4. ASSUME NEW p \in Permits, RefuseOrWithdraw(p)
      PROVE  Switching!Next
  BY <1>2, <1>4 DEF RefuseOrWithdraw, Switching!Turn, Switching!Next
<1>5. ASSUME NEW p \in Permits, Return(p)
      PROVE  Switching!Next
  BY <1>2, <1>5 DEF Return, Switching!Return, Switching!Next
<1> QED
  BY <1>1, <1>3, <1>4, <1>5 DEF PermitChange

\* The steps the line does not see: plans rewritten before anything is
\* switched, and everything about the outage, its jobs and its crews.
LEMMA UnseenSwitches ==
  ASSUME TypeOK, SwitchInv, [Next]_vars, ~PermitChange, \A s \in steps : ~Confirm(s)
  PROVE  UNCHANGED Switching!vars
<1>1. UNCHANGED <<steps, confirmed, permit>> \/ \E D \in Drafts : ReplaceSteps(D)
  BY DEF Next, Begin, Rollback, PlanChange, Approve, Unapprove, Touch, OutageChange, Notify,
     Reschedule, Cancel, Close, CrewStep, AskPermit, AskStatus, WriteStatus, GiveUp,
     AskReassignment, DismissReassignment, DispatchStep, AssignRead, AssignStatus, AssignJob,
     vars, switching
<1>2. CASE UNCHANGED <<steps, confirmed, permit>>
  BY <1>2, SameSteps DEF Switching!vars
<1>3. CASE \E D \in Drafts : ReplaceSteps(D)
  <2>1. confirmed = {} /\ confirmed' = {} /\ permit' = permit
    BY <1>3 DEF ReplaceSteps, SwitchInv, ApprovedOnceMarked
  <2>2. ASSUME NEW ph
        PROVE  HowFar(ph)' = HowFar(ph)
    BY <2>1 DEF HowFar, AnyConfirmed
  <2> QED
    BY <2>1, <2>2 DEF Switching!vars
<1> QED
  BY <1>1, <1>2, <1>3

\* Plans edited and unapproved, statuses read stale or written over, permits
\* asked for by handsets: the line is isolated, handed to crews and restored
\* as SafeSwitching says (confirmStep, requestPermit, issuePermit).
THEOREM LineIsSwitchedSafely == Spec => KeepsSwitching
<1>1. Init => Switching!Init
  <2> SUFFICES ASSUME Init
               PROVE  Switching!Init
    OBVIOUS
  <2>1. ASSUME NEW ph
        PROVE  HowFar(ph) = "no"
    BY DEF Init, HowFar, AnyConfirmed
  <2>2. [p \in Permits |-> permit[p].state] = [p \in Permits |-> "none"]
    BY DEF Init
  <2> QED
    BY <2>1, <2>2 DEF Switching!Init
<1>2. Init => ApprovedIsolates
  BY DEF Init, ApprovedIsolates
<1>3. ApprovedIsolates /\ [Next]_vars => ApprovedIsolates'
  BY ApprovedIsolatesStep
<1>4. TypeOK /\ SwitchInv /\ ApprovedIsolates /\ [Next]_vars
        => [switching' # switching => Switching!Next \/ UNCHANGED Switching!vars]_vars
  BY ConfirmSwitches, PermitSwitches, UnseenSwitches
<1> QED
  BY <1>1, <1>2, <1>3, <1>4, PlannedTypeCorrect, SwitchInvHolds, PTL DEF Spec, KeepsSwitching

-----------------------------------------------------------------------------
(* What would keep everybody off a live line: whoever is at work holds an   *)
(* issued permit, and while one is issued the line is dead.                 *)

AtWorkHoldPermit ==
  \A c \in atWork : \E p \in InState("issued") : permit[p].crew = c

LEMMA PermitChangeKeepsHolders ==
  ASSUME TypeOK, AtWorkHoldPermit, PermitChange
  PROVE  AtWorkHoldPermit'
<1> USE DEF AtWorkHoldPermit, InState
<1>1. permit \in [Permits -> [state : PermitStates, job : Jobs \cup {NoJob},
                              crew : Crews \cup {NoCrew}]]
  BY DEF TypeOK
<1>2. ASSUME NEW c \in Crews, RequestPermit(c)
      PROVE  AtWorkHoldPermit'
  <2>1. PICK p \in InState("none") : permit' =
          [permit EXCEPT ![p] = [state |-> "requested", job |-> request[c].job, crew |-> c]]
    BY <1>2 DEF RequestPermit
  <2>2. \A q \in InState("issued") : q \in Permits /\ permit'[q] = permit[q]
    BY <1>1, <2>1
  <2> QED
    BY <1>2, <2>2 DEF RequestPermit
<1>3. ASSUME NEW p \in Permits, Issue(p) \/ RefuseOrWithdraw(p)
      PROVE  AtWorkHoldPermit'
  <2>1. PICK to \in {"issued", "refused", "withdrawn"} :
          permit[p].state = "requested" /\ permit' = [permit EXCEPT ![p].state = to]
    BY <1>3 DEF Issue, RefuseOrWithdraw, Moves
  <2>2. \A q \in InState("issued") : q \in Permits /\ permit'[q] = permit[q]
    BY <1>1, <2>1
  <2> QED
    BY <1>3, <2>2 DEF Issue, RefuseOrWithdraw, crewSide
<1>4. ASSUME NEW p \in Permits, Return(p)
      PROVE  AtWorkHoldPermit'
  <2>1. /\ permit' = [permit EXCEPT ![p].state = "returned"]
        /\ atWork' = atWork \ {permit[p].crew}
    BY <1>4 DEF Return, Moves
  <2>2. \A q \in InState("issued") \ {p} : q \in Permits /\ permit'[q] = permit[q]
    BY <1>1, <2>1
  <2> QED
    BY <2>1, <2>2
<1> QED
  BY <1>2, <1>3, <1>4 DEF PermitChange

LEMMA OtherStepsKeepHolders ==
  ASSUME TypeOK, AtWorkHoldPermit, StartsUnderOwnPermit \/ UNCHANGED vars,
         \/ Begin \/ Rollback \/ PlanChange \/ OutageChange \/ CrewStep \/ DispatchStep
         \/ UNCHANGED vars
  PROVE  AtWorkHoldPermit'
<1>1. permit' = permit
  BY DEF Begin, Rollback, PlanChange, ReplaceSteps, Approve, Unapprove, Confirm, Touch,
     OutageChange, Notify, Reschedule, Cancel, Close, CrewStep, AskPermit, AskStatus,
     WriteStatus, GiveUp, AskReassignment, DismissReassignment, DispatchStep, AssignRead,
     AssignStatus, AssignJob, vars, switching
<1>2. atWork' \subseteq Crews
  <2>1. atWork \subseteq Crews
    BY DEF TypeOK
  <2>2. ASSUME NEW c \in Crews, WriteStatus(c)
        PROVE  atWork' \subseteq Crews
    BY <2>1, <2>2 DEF WriteStatus
  <2>3. CASE atWork' = atWork
    BY <2>1, <2>3
  <2>4. CASE CrewStep
    BY <2>2, <2>3, <2>4 DEF CrewStep, AskPermit, AskStatus, GiveUp, AskReassignment,
       DismissReassignment
  <2>5. CASE Begin \/ Rollback \/ PlanChange \/ OutageChange \/ DispatchStep \/ UNCHANGED vars
    BY <2>3, <2>5 DEF Begin, Rollback, PlanChange, ReplaceSteps, Approve, Unapprove, Confirm,
       Touch, OutageChange, Notify, Reschedule, Cancel, Close, DispatchStep, AssignRead,
       AssignStatus, AssignJob, vars, crewSide
  <2> QED
    BY <2>4, <2>5
<1>3. StartsUnderOwnPermit
  BY DEF StartsUnderOwnPermit, vars, crewSide
<1> QED
  BY <1>1, <1>2, <1>3 DEF AtWorkHoldPermit, StartsUnderOwnPermit, InState

\* The finding about a live line has two causes and this is what they have in
\* common: a crew's status was written without a permit of its own still
\* issued.  With the check that updateJobForCrew lacks, nobody is at work once
\* a switch is closed again, whatever else interleaves.
THEOREM NobodyWorksLiveWhenChecked == PermitCheckedSpec => []NobodyOnALiveLine
<1>1. Init => AtWorkHoldPermit
  BY DEF Init, AtWorkHoldPermit
<1>2. TypeOK /\ AtWorkHoldPermit /\ [Next /\ StartsUnderOwnPermit]_vars => AtWorkHoldPermit'
  BY PermitChangeKeepsHolders, OtherStepsKeepHolders DEF Next
<1>3. PermitCheckedSpec => Spec
  <2>1. [Next /\ StartsUnderOwnPermit]_vars => [Next]_vars
    OBVIOUS
  <2> QED
    BY <2>1, PTL DEF PermitCheckedSpec, Spec
<1>4. SwitchInv /\ AtWorkHoldPermit => NobodyOnALiveLine
  BY DEF SwitchInv, PermitKeepsLineDead, AtWorkHoldPermit, NobodyOnALiveLine, OpenPermits, InState
<1> QED
  BY <1>1, <1>2, <1>3, <1>4, PlannedTypeCorrect, SwitchInvHolds, PTL DEF PermitCheckedSpec
=============================================================================

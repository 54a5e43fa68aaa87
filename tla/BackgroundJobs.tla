---------------------------- MODULE BackgroundJobs ----------------------------
(***************************************************************************)
(* Exclusive jobs and what is done in them: a process that loses its lock  *)
(* connection goes on commanding the DMS, announcing planned outages and   *)
(* escalating beside the process that took its job over.                   *)
(*                                                                         *)
(* The three share nothing but the processes, so a behaviour has work for  *)
(* one of them.                                                            *)
(***************************************************************************)
EXTENDS RestorationCommand, PlannedNotice, Escalation

CONSTANT Parts

VARIABLE part  \* the work of this behaviour

workVars == <<restVars, noticeVars, escVars>>
vars     == <<part, jobVars, workVars>>

Init ==
  /\ part \in Parts
  /\ InitJobs
  /\ InitRestoration(part = "restoration")
  /\ InitNotice(part = "notice")
  /\ InitEscalation

\* A process that ends takes along what was at work in it.
Gone(p) == Forgets(p) /\ Drops(p) /\ Leaves(p)

Process(p) ==
  \/ (Goes(p) \/ SessionDies(p)) /\ UNCHANGED workVars
  \/ (Exits(p) \/ Crashes(p)) /\ Gone(p)

Command ==
  /\ \/ /\ \/ \E h \in Handlers : Serves(h) \/ \E p \in Processes : Hears(p, h)
           \/ Buries
        /\ UNCHANGED jobVars
     \/ \E h \in Handlers : LookFails(h) \/ PostFails(h) \/ AuditFails(h)
  /\ UNCHANGED <<noticeVars, escVars>>

Operator ==
  \/ OperatorMarks \/ OperatorIsLate \/ OperatorSkips \/ Reschedules

Notice ==
  /\ \/ /\ \/ \E p \in Processes : Scans(p) \/ Marks(p) \/ Tells(p)
           \/ ComesDue \/ Operator
        /\ UNCHANGED jobVars
     \/ \E p \in Processes : Publishes(p) \/ MarkFails(p) \/ TellFails(p)
     \/ OperatorPublishes \/ OperatorFails
  /\ UNCHANGED <<restVars, escVars>>

Breach ==
  /\ \/ /\ \/ part = "escalation" /\ Ages
           \/ \E p \in Processes : Escalates(p)
        /\ UNCHANGED jobVars
     \/ \E p \in Processes : ClaimFails(p) \/ RecordFails(p)
  /\ UNCHANGED <<restVars, noticeVars>>

Next ==
  /\ (\E p \in Processes : Process(p)) \/ Command \/ Notice \/ Breach
  /\ UNCHANGED part

Spec == Init /\ [][Next]_vars

\* Timers fire again and again, awaited calls return, containers restart.
\* Nothing makes an operator act, a breach grow or a session die.
Fairness ==
  \A p \in Processes :
    /\ WF_vars(Goes(p) /\ UNCHANGED <<part, workVars>>)
    /\ WF_vars(Exits(p) /\ Gone(p) /\ UNCHANGED part)
    /\ WF_vars(Scans(p) /\ UNCHANGED <<part, jobVars, restVars, escVars>>)
    /\ WF_vars(Marks(p) /\ UNCHANGED <<part, jobVars, restVars, escVars>>)
    /\ WF_vars(Publishes(p) /\ UNCHANGED <<part, restVars, escVars>>)
    /\ WF_vars(Escalates(p) /\ UNCHANGED <<part, jobVars, restVars, noticeVars>>)

FairSpec == Spec /\ Fairness

-----------------------------------------------------------------------------
(* Properties *)

TypeOK == JobsTypeOK /\ RestorationTypeOK /\ NoticeTypeOK /\ EscalationTypeOK

\* Whatever process dies or loses its session, each job comes to run in
\* exactly one process again (the retry timer, the container's restart, and
\* the exit of a process that lost a job to another).
RunsInOne == \A j \in Jobs : []<>(Cardinality(Runners(j)) = 1)

\* A notice that is due is marked, and a breach is escalated at the level it
\* has reached, whatever happens to the process that was about to do it.
DueIsDone ==
  /\ []<>(notice # "due")
  /\ []<>(over > 0 => row[over] # "none")
=============================================================================

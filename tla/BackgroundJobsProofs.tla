------------------------- MODULE BackgroundJobsProofs -------------------------
(***************************************************************************)
(* Proofs about BackgroundJobs for any processes, jobs, handlers, rounds,  *)
(* levels and number of troubles.                                          *)
(*                                                                         *)
(* A job that runs is either a job whose lock its process holds or one its *)
(* process is about to re-take or exit for (RunnersHold); the effects rest *)
(* on where the one token of each - the command, the notice of a round, the*)
(* row of a level - may be.                                                *)
(***************************************************************************)
EXTENDS BackgroundJobs, TLAPS

-----------------------------------------------------------------------------
(* Locks and jobs *)

JobsInv ==
  /\ JobsTypeOK
  /\ RunnersHold
  /\ \A p \in Processes : retaking[p] \subseteq running[p]

\* Ending a process frees its locks and stops its jobs.
LEMMA EndsKeeps ==
  ASSUME JobsInv, NEW p \in Processes, Ends(p), troubles' \in 0 .. MaxTroubles
  PROVE  JobsInv'
BY NobodyAssumption
   DEF JobsInv, JobsTypeOK, RunnersHold, Adrift, Ends, Freed

LEMMA GoesKeeps ==
  ASSUME JobsInv, NEW p \in Processes, Goes(p)
  PROVE  JobsInv'
<1> USE NobodyAssumption DEF JobsInv, JobsTypeOK, RunnersHold, Adrift
<1>1. CASE Boots(p)
  BY <1>1 DEF Boots
<1>2. CASE Connects(p)
  BY <1>2 DEF Connects
<1>3. CASE Notices(p)
  BY <1>3 DEF Notices
<1>4. ASSUME NEW j \in Jobs, Attempts(p, j)
      PROVE  JobsInv'
  BY <1>4 DEF Attempts
<1>5. ASSUME NEW j \in Jobs, Retakes(p, j)
      PROVE  JobsInv'
  BY <1>5 DEF Retakes
<1> QED
  BY <1>1, <1>2, <1>3, <1>4, <1>5 DEF Goes

LEMMA ProcessKeeps ==
  ASSUME JobsInv, NEW p \in Processes, Process(p)
  PROVE  JobsInv'
<1>1. CASE Goes(p)
  BY <1>1, GoesKeeps
<1>2. CASE SessionDies(p)
  BY <1>2, NobodyAssumption, TroublesAssumption
     DEF SessionDies, Trouble, Freed, JobsInv, JobsTypeOK, RunnersHold, Adrift
<1>3. CASE Exits(p)
  <2>1. Ends(p) /\ troubles' \in 0 .. MaxTroubles
    BY <1>3 DEF Exits, JobsInv, JobsTypeOK
  <2> QED
    BY <2>1, EndsKeeps
<1>4. CASE Crashes(p)
  <2>1. Ends(p) /\ troubles' \in 0 .. MaxTroubles
    BY <1>4, TroublesAssumption DEF Crashes, Trouble, JobsInv, JobsTypeOK
  <2> QED
    BY <2>1, EndsKeeps
<1> QED
  BY <1>1, <1>2, <1>3, <1>4 DEF Process

\* What is at work in the processes changes nothing about their locks.
LEMMA WorkKeeps ==
  ASSUME JobsInv,
         UNCHANGED <<up, conn, locks, running, retaking>>,
         troubles' \in 0 .. MaxTroubles
  PROVE  JobsInv'
BY DEF JobsInv, JobsTypeOK, RunnersHold, Adrift

\* What each kind of step may do to the processes' variables.
LEMMA WorkFrame ==
  ASSUME JobsInv, Command \/ Notice \/ Breach
  PROVE  UNCHANGED <<up, conn, locks, running, retaking>> /\ troubles' \in 0 .. MaxTroubles
<1> USE TroublesAssumption DEF JobsInv, JobsTypeOK, jobVars, Trouble
<1> DEFINE Frame == UNCHANGED <<up, conn, locks, running, retaking>> /\ troubles' \in 0 .. MaxTroubles
<1>1. CASE Command
  <2>1. ASSUME NEW h \in Handlers, LookFails(h) \/ PostFails(h) \/ AuditFails(h)
        PROVE  Frame
    BY <2>1 DEF LookFails, PostFails, AuditFails, sessionVars
  <2> QED
    BY <1>1, <2>1 DEF Command
<1>2. CASE Notice
  <2>1. ASSUME NEW p \in Processes, Publishes(p) \/ MarkFails(p) \/ TellFails(p)
        PROVE  Frame
    BY <2>1 DEF Publishes, MarkFails, TellFails, sessionVars
  <2>2. CASE OperatorPublishes \/ OperatorFails
    BY <2>2 DEF OperatorPublishes, OperatorFails, sessionVars
  <2> QED
    BY <1>2, <2>1, <2>2 DEF Notice
<1>3. CASE Breach
  <2>1. ASSUME NEW p \in Processes, ClaimFails(p) \/ RecordFails(p)
        PROVE  Frame
    BY <2>1 DEF ClaimFails, RecordFails, sessionVars
  <2> QED
    BY <1>3, <2>1 DEF Breach
<1> QED
  BY <1>1, <1>2, <1>3

\* The invariant of locks and jobs, for every step of the whole.
LEMMA JobsInductive ==
  Spec => []JobsInv
<1>1. Init => JobsInv
  BY NobodyAssumption, TroublesAssumption
     DEF Init, InitJobs, JobsInv, JobsTypeOK, RunnersHold, Adrift
<1>2. JobsInv /\ [Next]_vars => JobsInv'
  <2> SUFFICES ASSUME JobsInv, [Next]_vars PROVE JobsInv'
    OBVIOUS
  <2>1. ASSUME NEW p \in Processes, Process(p) PROVE JobsInv'
    BY <2>1, ProcessKeeps
  <2>2. CASE Command \/ Notice \/ Breach
    BY <2>2, WorkFrame, WorkKeeps
  <2>3. CASE UNCHANGED vars
    BY <2>3 DEF vars, jobVars, JobsInv, JobsTypeOK, RunnersHold, Adrift
  <2> QED
    BY <2>1, <2>2, <2>3 DEF Next
<1> QED
  BY <1>1, <1>2, PTL DEF Spec

\* A running job's lock is held by its process, or its process has lost its
\* session and has not re-taken it yet (infra/jobs.js attempt, lost).
THEOREM RunnersHoldTheirLock ==
  Spec => []RunnersHold
<1>1. JobsInv => RunnersHold
  BY DEF JobsInv
<1> QED
  BY <1>1, JobsInductive, PTL

\* "So it never runs twice": of two processes that run one job, one has lost
\* its session (infra/jobs.js:9-11).
THEOREM JobsRunOnce ==
  Spec => []RunsOnce
<1>1. JobsInv => RunsOnce
  BY NobodyAssumption DEF JobsInv, JobsTypeOK, RunnersHold, RunsOnce
<1> QED
  BY <1>1, JobsInductive, PTL

-----------------------------------------------------------------------------
(* The jobs see what JobOwnership says *)

Standing(j) == Runners(j) \ Strays(j)

LEMMA StandingHolds ==
  ASSUME JobsInv, NEW j \in Jobs, NEW p \in Processes
  PROVE  /\ p \in Standing(j) <=> locks[j] = p
         /\ p \in Strays(j) <=> j \in running[p] /\ Adrift(p, j)
BY DEF JobsInv, RunnersHold, Standing, Strays, Runners

LEMMA StandingSame ==
  ASSUME NEW j \in Jobs,
         \A p \in Processes : (j \in running'[p] <=> j \in running[p]) /\ (Adrift(p, j)' <=> Adrift(p, j))
  PROVE  Standing(j)' = Standing(j) /\ Strays(j)' = Strays(j)
BY DEF Standing, Strays, Runners

\* Nothing changes for the jobs.
LEMMA OwnershipStutters ==
  ASSUME \A j \in Jobs : Standing(j)' = Standing(j) /\ Strays(j)' = Strays(j)
  PROVE  UNCHANGED Ownership!vars
BY DEF Ownership!vars, Standing

\* One job changes hands.
LEMMA OwnershipMoves ==
  ASSUME NEW p \in Processes, NEW j \in Jobs, Standing(j) = {}, Standing(j)' = {p},
         \A k \in Jobs \ {j} : Standing(k)' = Standing(k) /\ Strays(k)' = Strays(k),
         \/ p \notin Strays(j) /\ Strays(j)' = Strays(j)
         \/ p \in Strays(j) /\ Strays(j)' = Strays(j) \ {p}
  PROVE  Ownership!Next
<1> DEFINE standing == [k \in Jobs |-> Standing(k)]
           strays   == [k \in Jobs |-> Strays(k)]
<1>1. standing' = [standing EXCEPT ![j] = {p}]
  OBVIOUS
<1>2. CASE p \notin Strays(j) /\ Strays(j)' = Strays(j)
  <2>1. strays' = strays
    BY <1>2
  <2>2. Ownership!Start(p, j)
    BY <1>1, <1>2, <2>1 DEF Ownership!Start, Standing
  <2> QED
    BY <2>2 DEF Ownership!Next
<1>3. CASE p \in Strays(j) /\ Strays(j)' = Strays(j) \ {p}
  <2>1. strays' = [strays EXCEPT ![j] = @ \ {p}]
    BY <1>3
  <2>2. Ownership!Resume(p, j)
    BY <1>1, <1>3, <2>1 DEF Ownership!Resume, Standing
  <2> QED
    BY <2>2 DEF Ownership!Next
<1> QED
  BY <1>2, <1>3

LEMMA EndsStops ==
  ASSUME JobsInv, JobsInv', NEW p \in Processes, Ends(p)
  PROVE  Ownership!Next
<1>1. ASSUME NEW j \in Jobs
      PROVE  Standing(j)' = Standing(j) \ {p} /\ Strays(j)' = Strays(j) \ {p}
  BY <1>1 DEF Ends, JobsInv, JobsTypeOK, Standing, Strays, Runners, Adrift
<1>2. Ownership!Stop(p)
  BY <1>1 DEF Ownership!Stop, Standing
<1> QED
  BY <1>2 DEF Ownership!Next

LEMMA SessionDiesStrays ==
  ASSUME JobsInv, NEW p \in Processes, SessionDies(p)
  PROVE  Ownership!Next
<1>1. ASSUME NEW j \in Jobs
      PROVE  /\ Standing(j)' = Standing(j) \ {p}
             /\ Strays(j)' = IF p \in Standing(j) THEN Strays(j) \cup {p} ELSE Strays(j)
  BY <1>1 DEF SessionDies, JobsInv, JobsTypeOK, Standing, Strays, Runners, Adrift
<1>2. Ownership!Stray(p)
  BY <1>1 DEF Ownership!Stray, Standing
<1> QED
  BY <1>2 DEF Ownership!Next

LEMMA GoesOwns ==
  ASSUME JobsInv, JobsInv', NEW p \in Processes, Goes(p)
  PROVE  [Ownership!Next]_Ownership!vars
<1> USE DEF JobsInv, JobsTypeOK
<1>1. CASE Boots(p) \/ Connects(p) \/ Notices(p)
  <2>1. ASSUME NEW j \in Jobs, NEW q \in Processes
        PROVE  (j \in running'[q] <=> j \in running[q]) /\ (j \in running[q] => (Adrift(q, j)' <=> Adrift(q, j)))
    BY <1>1 DEF Boots, Connects, Notices, Adrift
  <2>2. \A j \in Jobs : Standing(j)' = Standing(j) /\ Strays(j)' = Strays(j)
    BY <2>1 DEF Standing, Strays, Runners
  <2> QED
    BY <2>2, OwnershipStutters
<1>2. ASSUME NEW j \in Jobs, Attempts(p, j) \/ Retakes(p, j)
      PROVE  [Ownership!Next]_Ownership!vars
  <2>1. locks'[j] = p /\ \A k \in Jobs \ {j} : locks'[k] = locks[k]
    BY <1>2 DEF Attempts, Retakes
  <2>2. locks[j] = Nobody
    <3>1. CASE Attempts(p, j)
      BY <3>1 DEF Attempts
    <3>2. CASE Retakes(p, j)
      BY <3>2 DEF Retakes, RunnersHold, Adrift
    <3> QED
      BY <1>2, <3>1, <3>2
  <2>3. Standing(j) = {} /\ Standing(j)' = {p}
    BY <2>1, <2>2, StandingHolds, NobodyAssumption DEF Standing, Runners, RunnersHold, Strays
  <2>4. ASSUME NEW k \in Jobs \ {j}
        PROVE  Standing(k)' = Standing(k) /\ Strays(k)' = Strays(k)
    <3>1. \A q \in Processes : (k \in running'[q] <=> k \in running[q]) /\ (Adrift(q, k)' <=> Adrift(q, k))
      BY <1>2, <2>4 DEF Attempts, Retakes, Adrift
    <3> QED
      BY <3>1, StandingSame
  <2>5. CASE Attempts(p, j)
    <3>1. p \notin Strays(j) /\ Strays(j)' = Strays(j)
      BY <2>5 DEF Attempts, Strays, Runners, Adrift
    <3> QED
      BY <2>3, <2>4, <3>1, OwnershipMoves
  <2>6. CASE Retakes(p, j)
    <3>1. p \in Strays(j) /\ Strays(j)' = Strays(j) \ {p}
      BY <2>6 DEF Retakes, Strays, Runners, Adrift
    <3> QED
      BY <2>3, <2>4, <3>1, OwnershipMoves
  <2> QED
    BY <1>2, <2>5, <2>6
<1> QED
  BY <1>1, <1>2 DEF Goes

\* The processes with their sessions and locks implement JobOwnership, whatever
\* is at work in them (infra/jobs.js attempt, lost).
THEOREM JobsKeepOwnership ==
  Spec => KeepsOwnership
<1>1. Init => Ownership!Init
  BY DEF Init, InitJobs, Ownership!Init, Runners, Strays
<1>2. JobsInv /\ JobsInv' /\ [Next]_vars => [Ownership!Next]_Ownership!vars
  <2> SUFFICES ASSUME JobsInv, JobsInv', [Next]_vars
               PROVE  [Ownership!Next]_Ownership!vars
    OBVIOUS
  <2>1. ASSUME NEW p \in Processes, Process(p)
        PROVE  [Ownership!Next]_Ownership!vars
    <3>1. \/ Goes(p) \/ SessionDies(p)
          \/ Ends(p)
      BY <2>1 DEF Process, Exits, Crashes
    <3> QED
      BY <3>1, GoesOwns, SessionDiesStrays, EndsStops
  <2>2. CASE (Command \/ Notice \/ Breach) \/ UNCHANGED vars
    <3>1. UNCHANGED <<conn, running, retaking>>
      BY <2>2, WorkFrame DEF vars, jobVars
    <3>2. \A j \in Jobs : Standing(j)' = Standing(j) /\ Strays(j)' = Strays(j)
      BY <3>1, StandingSame DEF Adrift
    <3> QED
      BY <3>2, OwnershipStutters
  <2> QED
    BY <2>1, <2>2 DEF Next
<1> QED
  BY <1>1, <1>2, JobsInductive, PTL DEF Spec, KeepsOwnership, Ownership!Spec

-----------------------------------------------------------------------------
(* The restoration command *)

\* As long as nothing excuses a second command, at most one handler is at work,
\* and once the command is sent the audit row is there or about to be.
CommandInv ==
  /\ RestorationTypeOK
  /\ \A h \in Handlers :
       handlers[h].at # "off" => handlers[h].p \in Processes
  /\ lapse = {} =>
       /\ \A g, h \in AtWork : g = h
       /\ commands = 0 => audited = "none" /\ \A h \in Handlers : handlers[h].at # "audit"
       /\ commands # 0 =>
            /\ commands = 1
            /\ \A h \in Handlers : handlers[h].at # "post"
            /\ audited # "none" \/ \E h \in Handlers : handlers[h].at = "audit"

HandlerRec == [at : {"off", "look", "post", "audit"}, p : Processes \cup {Nobody},
               tries : 0 .. MAX_RETRIES - 1]

\* One handler, of process p, moves to a place `at`.
Moved(h, at, p) ==
  /\ handlers' \in [Handlers -> HandlerRec]
  /\ handlers'[h].at = at /\ handlers'[h].p = p
  /\ \A g \in Handlers \ {h} : handlers'[g] = handlers[g]

LEMMA HandlerUpdates ==
  ASSUME NEW r \in HandlerRec
  PROVE  /\ [r EXCEPT !.at = "post"] \in HandlerRec
         /\ [r EXCEPT !.at = "post"].at = "post" /\ [r EXCEPT !.at = "post"].p = r.p
         /\ [r EXCEPT !.at = "audit"] \in HandlerRec
         /\ [r EXCEPT !.at = "audit"].at = "audit"
         /\ [r EXCEPT !.at = "audit"].p = r.p
         /\ r.tries + 1 # MAX_RETRIES =>
              /\ [r EXCEPT !.tries = @ + 1] \in HandlerRec
              /\ [r EXCEPT !.tries = @ + 1].at = r.at
              /\ [r EXCEPT !.tries = @ + 1].p = r.p
<1>1. /\ [r EXCEPT !.at = "post"] \in HandlerRec
      /\ [r EXCEPT !.at = "post"].at = "post" /\ [r EXCEPT !.at = "post"].p = r.p
  BY DEF HandlerRec
<1>2. /\ [r EXCEPT !.at = "audit"] \in HandlerRec
      /\ [r EXCEPT !.at = "audit"].at = "audit"
      /\ [r EXCEPT !.at = "audit"].p = r.p
  BY DEF HandlerRec, MAX_RETRIES
<1>3. ASSUME r.tries + 1 # MAX_RETRIES
      PROVE  /\ [r EXCEPT !.tries = @ + 1] \in HandlerRec
             /\ [r EXCEPT !.tries = @ + 1].at = r.at
             /\ [r EXCEPT !.tries = @ + 1].p = r.p
  <2>1. r.tries + 1 \in 0 .. MAX_RETRIES - 1
    BY <1>3 DEF HandlerRec, MAX_RETRIES
  <2> QED
    BY <2>1 DEF HandlerRec
<1> QED
  BY <1>1, <1>2, <1>3

LEMMA HandlerMoves ==
  ASSUME handlers \in [Handlers -> HandlerRec], NEW h \in Handlers, NEW r \in HandlerRec,
         SetHandler(h, r)
  PROVE  Moved(h, r.at, r.p)
BY DEF SetHandler, Moved

LEMMA CommandSteps ==
  ASSUME CommandInv, Command
  PROVE  CommandInv'
<1> USE EventsAssumption DEF CommandInv, RestorationTypeOK, AtWork
<1>0. /\ handlers \in [Handlers -> HandlerRec]
      /\ Off \in HandlerRec /\ Off.at = "off"
  BY DEF HandlerRec, Off, MAX_RETRIES
<1>1. ASSUME NEW p \in Processes, NEW h \in Handlers, Hears(p, h)
      PROVE  CommandInv'
  <2>1. CASE UNCHANGED <<handlers, lapse>>
    BY <1>1, <2>1 DEF Hears
  <2>2. CASE /\ SetHandler(h, [at |-> "look", p |-> p, tries |-> 0])
             /\ lapse' = IF AtWork # {} THEN lapse \cup {"overlap"} ELSE lapse
    <3>1. Moved(h, "look", p)
      <4> DEFINE r == [at |-> "look", p |-> p, tries |-> 0]
      <4>1. r \in HandlerRec
        BY DEF HandlerRec, MAX_RETRIES
      <4> QED
        BY <1>0, <2>2, <4>1, HandlerMoves
    <3> QED
      BY <1>0, <1>1, <2>2, <3>1 DEF Hears, Moved, HandlerRec
  <2> QED
    BY <1>1, <2>1, <2>2 DEF Hears
<1>2. ASSUME NEW h \in Handlers, Looks(h)
      PROVE  CommandInv'
  <2>1. \/ Known /\ Moved(h, "off", Nobody)
        \/ ~Known /\ Moved(h, "post", handlers[h].p)
    <3> DEFINE r == IF Known THEN Off ELSE [handlers[h] EXCEPT !.at = "post"]
    <3>1. /\ r \in HandlerRec
          /\ Known => r.at = "off" /\ r.p = Nobody
          /\ ~Known => r.at = "post" /\ r.p = handlers[h].p
      BY <1>0, HandlerUpdates DEF Off
    <3> QED
      BY <1>0, <1>2, <3>1, HandlerMoves DEF Looks
  <2>2. lapse' = {} => lapse = {} /\ audited # "buried"
    BY <1>2 DEF Looks
  <2>3. lapse = {} => \A g \in Handlers \ {h} : handlers[g].at = "off"
    BY <1>2 DEF Looks
  <2>4. lapse = {} /\ audited = "none" => commands = 0
    BY <1>2, <2>3 DEF Looks
  <2> QED
    BY <1>0, <1>2, <2>1, <2>2, <2>3, <2>4 DEF Looks, Known, Moved, HandlerRec
<1>3. ASSUME NEW h \in Handlers, Posts(h)
      PROVE  CommandInv'
  <2>1. Moved(h, "audit", handlers[h].p)
    <3> DEFINE r == [handlers[h] EXCEPT !.at = "audit"]
    <3>1. r \in HandlerRec /\ r.at = "audit" /\ r.p = handlers[h].p
      BY <1>0, HandlerUpdates
    <3> QED
      BY <1>0, <1>3, <3>1, HandlerMoves DEF Posts
  <2>2. published' \subseteq Processes
    BY <1>0, <1>3 DEF Posts, HandlerRec
  <2> QED
    BY <1>0, <1>3, <2>1, <2>2 DEF Posts, Moved, HandlerRec
<1>4. ASSUME NEW h \in Handlers, PostFails(h)
      PROVE  CommandInv'
  <2>1. Moved(h, "off", Nobody) \/ Moved(h, "post", handlers[h].p)
    <3> DEFINE r == IF handlers[h].tries + 1 = MAX_RETRIES THEN Off
                    ELSE [handlers[h] EXCEPT !.tries = @ + 1]
    <3>1. /\ r \in HandlerRec
          /\ \/ r.at = "off" /\ r.p = Nobody
             \/ r.at = "post" /\ r.p = handlers[h].p
      <4>1. handlers[h] \in HandlerRec /\ handlers[h].at = "post"
        BY <1>0, <1>4 DEF PostFails
      <4>2. CASE handlers[h].tries + 1 = MAX_RETRIES
        BY <1>0, <4>2 DEF Off
      <4>3. CASE handlers[h].tries + 1 # MAX_RETRIES
        <5> DEFINE q == [handlers[h] EXCEPT !.tries = @ + 1]
        <5>1. q \in HandlerRec /\ q.at = handlers[h].at /\ q.p = handlers[h].p
          BY <4>1, <4>3, HandlerUpdates
        <5>2. r = q
          BY <4>3
        <5> HIDE DEF q, r
        <5> QED
          BY <4>1, <5>1, <5>2
      <4> QED
        BY <4>2, <4>3
    <3> QED
      BY <1>0, <1>4, <3>1, HandlerMoves DEF PostFails
  <2>2. /\ commands' \in {commands, commands + 1}
        /\ lapse' \subseteq lapse \cup {"answer"} /\ lapse \subseteq lapse'
        /\ lapse' = {} => commands' = commands
    BY <1>4 DEF PostFails
  <2>3. lapse = {} => commands = 0 /\ \A g \in Handlers \ {h} : handlers[g].at = "off"
    BY <1>4 DEF PostFails
  <2>4. UNCHANGED <<events, published, audited>> /\ handlers[h].at = "post"
    BY <1>4 DEF PostFails
  <2> QED
    BY <1>0, <2>1, <2>2, <2>3, <2>4 DEF Moved, HandlerRec
<1>5. ASSUME NEW h \in Handlers, Audits(h)
      PROVE  CommandInv'
  <2>1. Moved(h, "off", Nobody)
    BY <1>0, <1>5, HandlerMoves DEF Audits, Off
  <2> QED
    BY <1>0, <1>5, <2>1 DEF Audits, Moved, HandlerRec
<1>6. CASE Buries
  BY <1>6 DEF Buries
<1>7. ASSUME NEW h \in Handlers, LookFails(h) \/ AuditFails(h)
      PROVE  CommandInv'
  <2>1. Moved(h, "off", Nobody)
    BY <1>0, <1>7, HandlerMoves DEF LookFails, AuditFails, Off
  <2>2. /\ UNCHANGED <<events, published, commands>>
        /\ handlers[h].at \in {"look", "audit"}
        /\ \/ handlers[h].at = "look" /\ UNCHANGED <<audited, lapse>>
           \/ handlers[h].at = "audit" /\ audited' = "shown" /\ UNCHANGED lapse
           \/ UNCHANGED audited /\ lapse' = lapse \cup {"unrecorded"}
    BY <1>7 DEF LookFails, AuditFails
  <2>3. lapse = {} => \A g \in Handlers \ {h} : handlers[g].at = "off"
    BY <2>2
  <2>4. RestorationTypeOK' /\ \A g \in Handlers : handlers'[g].at # "off" => handlers'[g].p \in Processes
    BY <1>0, <2>1, <2>2 DEF Moved, HandlerRec
  <2>5. CASE handlers[h].at = "look" /\ UNCHANGED <<audited, lapse>>
    BY <2>1, <2>2, <2>3, <2>4, <2>5 DEF Moved
  <2>6. CASE handlers[h].at = "audit" /\ audited' = "shown" /\ UNCHANGED lapse
    BY <2>1, <2>2, <2>3, <2>4, <2>6 DEF Moved
  <2>7. CASE UNCHANGED audited /\ lapse' = lapse \cup {"unrecorded"}
    BY <2>4, <2>7
  <2> QED
    BY <2>2, <2>5, <2>6, <2>7
<1> QED
  BY <1>1, <1>2, <1>3, <1>4, <1>5, <1>6, <1>7 DEF Command, Serves

\* A process that ends takes its handlers along; one that had sent the command
\* and not yet written the audit row leaves an excuse.
LEMMA CommandForgets ==
  ASSUME CommandInv, NEW p \in Processes, Forgets(p)
  PROVE  CommandInv'
BY DEF CommandInv, RestorationTypeOK, AtWork, Forgets, Off, MAX_RETRIES

LEMMA CommandInductive ==
  Spec => []CommandInv
<1>1. Init => CommandInv
  BY EventsAssumption
     DEF Init, InitRestoration, CommandInv, RestorationTypeOK, AtWork, Off, MAX_RETRIES
<1>2. CommandInv /\ [Next]_vars => CommandInv'
  <2> SUFFICES ASSUME CommandInv, [Next]_vars PROVE CommandInv'
    OBVIOUS
  <2>1. CASE UNCHANGED restVars
    BY <2>1 DEF restVars, CommandInv, RestorationTypeOK, AtWork
  <2>2. ASSUME NEW p \in Processes, Process(p)
        PROVE  CommandInv'
    BY <2>1, <2>2, CommandForgets DEF Process, Gone, workVars
  <2>3. CASE Command
    BY <2>3, CommandSteps
  <2>4. CASE Notice \/ Breach \/ UNCHANGED vars
    BY <2>1, <2>4 DEF Notice, Breach, vars, workVars
  <2> QED
    BY <2>2, <2>3, <2>4 DEF Next
<1> QED
  BY <1>1, <1>2, PTL DEF Spec

\* "Never sends the same restoration command twice", with its exceptions:
\* overlapping handlers, a lost answer, an end before the audit row or a row
\* that could not be written (realtime/restoration.js:86, 91), a row that is no
\* longer among the newest (32-42).
THEOREM RestorationCommandedOnce ==
  Spec => []CommandedOnce
<1>1. CommandInv => CommandedOnce
  BY DEF CommandInv, RestorationTypeOK, CommandedOnce
<1> QED
  BY <1>1, CommandInductive, PTL

-----------------------------------------------------------------------------
(* The advance notice *)

DeskHas(r) == desk.at = "marked" /\ desk.round = r
Held(r)    == DeskHas(r) \/ \E p \in Processes : Holder(p, r)
Aired(r)   == \E p \in Processes : <<p, r>> \in airing

\* Between the mark and the customers the notice of a round is in one place:
\* with whoever marked it, or in the notifiers that heard it.
RoundInv(r) ==
  /\ r \notin marked => told[r] = 0 /\ ~Held(r) /\ ~Aired(r)
  /\ Held(r) => told[r] = 0 /\ ~Aired(r)
  /\ \A p, q \in Processes : Holder(p, r) /\ Holder(q, r) => p = q
  /\ DeskHas(r) => \A p \in Processes : ~Holder(p, r)
  /\ r \notin doubled =>
       /\ told[r] <= 1
       /\ \A p, q \in Processes : <<p, r>> \in airing /\ <<q, r>> \in airing => p = q
       /\ Aired(r) => told[r] = 0
  /\ r \in marked /\ r \notin missed => Held(r) \/ Aired(r) \/ told[r] > 0

\* No round is marked before it has begun, nor twice.
NoticeInv ==
  /\ NoticeTypeOK
  /\ \A r \in marked : r <= round
  /\ MayMark => round \notin marked
  /\ desk.at = "marked" => desk.round \in Rounds
  /\ \A p \in Processes : scanning[p].at = "marked" => scanning[p].round \in Rounds
  /\ \A r \in Rounds : RoundInv(r)

\* What a step does to one round: nothing that matters to it ...
LEMMA RoundSame ==
  ASSUME NEW r \in Rounds, RoundInv(r),
         \A p \in Processes : /\ Holder(p, r)' <=> Holder(p, r)
                              /\ <<p, r>> \in airing' <=> <<p, r>> \in airing,
         DeskHas(r)' <=> DeskHas(r),
         told'[r] = told[r],
         r \in marked' <=> r \in marked, r \in missed => r \in missed', r \in doubled => r \in doubled'
  PROVE  RoundInv(r)'
<1>1. (Held(r)' <=> Held(r)) /\ (Aired(r)' <=> Aired(r))
  BY DEF Held, Aired
<1> QED
  BY <1>1 DEF RoundInv

\* ... a mark, with the notice in one hand or lost ...
LEMMA RoundTaken ==
  ASSUME NEW r \in Rounds, RoundInv(r), r \notin marked, r \in marked',
         \A p \in Processes : <<p, r>> \in airing' <=> <<p, r>> \in airing,
         \A p, q \in Processes : Holder(p, r)' /\ Holder(q, r)' => p = q,
         DeskHas(r)' => \A p \in Processes : ~Holder(p, r)',
         Held(r)' \/ r \in missed',
         told'[r] = told[r]
  PROVE  RoundInv(r)'
<1>1. told'[r] = 0 /\ ~Aired(r)'
  BY DEF RoundInv, Aired
<1>2. \A p, q \in Processes : <<p, r>> \in airing' /\ <<q, r>> \in airing' => p = q
  BY DEF RoundInv, Aired
<1> QED
  BY <1>1, <1>2 DEF RoundInv

\* ... a publication, heard by some ...
LEMMA RoundPublished ==
  ASSUME NEW r \in Rounds, RoundInv(r), Held(r), NEW heard \in SUBSET Processes,
         \A p \in Processes : <<p, r>> \in airing' <=> p \in heard \/ <<p, r>> \in airing,
         ~Held(r)',
         told'[r] = told[r], r \in marked' <=> r \in marked,
         heard = {} => r \in missed',
         (\E p, q \in heard : p # q) => r \in doubled'
  PROVE  RoundInv(r)'
<1>1. r \in marked' /\ told'[r] = 0
  BY DEF RoundInv
<1>2. \A p \in Processes : <<p, r>> \in airing' <=> p \in heard
  BY DEF RoundInv, Aired
<1>3. \A p \in Processes : ~Holder(p, r)' /\ ~DeskHas(r)'
  BY DEF Held
<1>4. heard # {} => Aired(r)'
  BY <1>2 DEF Aired
<1>5. ~DeskHas(r)'
  BY DEF Held
<1> QED
  BY <1>1, <1>2, <1>3, <1>4, <1>5 DEF RoundInv

\* ... a notifier that sends it out or fails to.
LEMMA RoundSent ==
  ASSUME NEW r \in Rounds, RoundInv(r), told[r] \in Nat, NEW p \in Processes, <<p, r>> \in airing,
         \A q \in Processes : /\ Holder(q, r)' <=> Holder(q, r)
                              /\ <<q, r>> \in airing' <=> q # p /\ <<q, r>> \in airing,
         DeskHas(r)' <=> DeskHas(r),
         told'[r] = told[r] + 1 \/ (told'[r] = told[r] /\ r \in missed'),
         r \in marked' <=> r \in marked, r \in doubled => r \in doubled'
  PROVE  RoundInv(r)'
<1>1. Aired(r) /\ ~Held(r) /\ r \in marked
  BY DEF Aired, RoundInv
<1>2. ~Held(r)'
  BY <1>1 DEF Held
<1>3. r \notin doubled => told[r] = 0 /\ ~Aired(r)'
  BY <1>1 DEF RoundInv, Aired
<1>4. \A q, s \in Processes : Holder(q, r)' /\ Holder(s, r)' => q = s
  BY DEF RoundInv
<1>5. DeskHas(r)' => \A q \in Processes : ~Holder(q, r)'
  BY DEF RoundInv
<1>6. r \notin doubled' => \A q, s \in Processes : <<q, r>> \in airing' /\ <<s, r>> \in airing' => q = s
  BY <1>3 DEF Aired
<1> QED
  BY <1>1, <1>2, <1>3, <1>4, <1>5, <1>6 DEF RoundInv

CheckRec == [at : {"off", "read", "marked"}, round : 0 .. MaxRounds]

LEMMA IdleIs ==
  Idle \in CheckRec /\ Idle.at = "off"
BY RoundsAssumption DEF Idle, CheckRec

\* One check of the database moves.
LEMMA CheckMoves ==
  ASSUME scanning \in [Processes -> CheckRec], NEW p \in Processes, NEW c \in CheckRec,
         SetScanning(p, c)
  PROVE  /\ scanning' \in [Processes -> CheckRec]
         /\ \A q \in Processes : scanning'[q] = IF q = p THEN c ELSE scanning[q]
         /\ \A r : Holder(p, r)' <=> c.at = "marked" /\ c.round = r
         /\ \A q \in Processes \ {p} : \A r : Holder(q, r)' <=> Holder(q, r)
BY DEF SetScanning, Holder

\* A mark, and the hands it leaves the notice in.
LEMMA MarkKeeps ==
  ASSUME NoticeInv, MayMark, Mark, UNCHANGED <<round, airing, told, doubled>>,
         missed \subseteq missed', missed' \subseteq Rounds,
         scanning' \in [Processes -> CheckRec],
         desk' \in [at : {"off", "again", "marked"}, round : 0 .. MaxRounds],
         \A r \in Rounds \ {round} : /\ \A p \in Processes : Holder(p, r)' <=> Holder(p, r)
                                     /\ DeskHas(r)' <=> DeskHas(r),
         \A p, q \in Processes : Holder(p, round)' /\ Holder(q, round)' => p = q,
         DeskHas(round)' => \A p \in Processes : ~Holder(p, round)',
         Held(round)' \/ round \in missed',
         desk'.at = "marked" => desk'.round \in Rounds,
         \A p \in Processes : scanning'[p].at = "marked" => scanning'[p].round \in Rounds
  PROVE  NoticeInv'
<1>1. /\ round \in Rounds /\ round \notin marked
      /\ marked' = marked \cup {round} /\ notice' = "sent"
  BY DEF NoticeInv, NoticeTypeOK, Mark
<1>2. NoticeTypeOK' /\ ~MayMark'
  BY <1>1 DEF NoticeInv, NoticeTypeOK, CheckRec, MayMark
<1>3. ASSUME NEW r \in Rounds
      PROVE  RoundInv(r)'
  <2>1. RoundInv(r)
    BY DEF NoticeInv
  <2>2. CASE r = round
    BY <1>1, <2>1, <2>2, RoundTaken
  <2>3. CASE r # round
    BY <1>1, <2>1, <2>3, RoundSame
  <2> QED
    BY <2>2, <2>3
<1>4. \A r \in marked' : r <= round'
  BY <1>1 DEF NoticeInv, Rounds
<1> QED
  BY <1>2, <1>3, <1>4 DEF NoticeInv

LEMMA Marking ==
  ASSUME NoticeInv, NEW p \in Processes, Marks(p) \/ MarkFails(p)
  PROVE  NoticeInv'
<1>0. scanning \in [Processes -> CheckRec] /\ scanning[p].at = "read" /\ \A r : ~Holder(p, r)
  BY DEF NoticeInv, NoticeTypeOK, CheckRec, Marks, MarkFails, Holder
<1>1. CASE MayMark /\ Marks(p)
  <2> DEFINE c == [at |-> "marked", round |-> round]
  <2>1. c \in CheckRec /\ round \in Rounds
    BY DEF NoticeInv, NoticeTypeOK, CheckRec, Rounds
  <2>2. /\ scanning' \in [Processes -> CheckRec]
        /\ \A q \in Processes : scanning'[q] = IF q = p THEN c ELSE scanning[q]
        /\ \A r : Holder(p, r)' <=> r = round
        /\ \A q \in Processes \ {p} : \A r : Holder(q, r)' <=> Holder(q, r)
    BY <1>0, <1>1, <2>1, CheckMoves DEF Marks
  <2>3. Mark /\ UNCHANGED <<round, desk, airing, told, missed, doubled>>
    BY <1>1 DEF Marks
  <2>4. ~Held(round) /\ round \notin marked
    BY <1>1, <2>1 DEF NoticeInv, RoundInv
  <2>5. ~DeskHas(round) /\ \A q \in Processes : ~Holder(q, round)
    BY <2>4 DEF Held
  <2>6. \A r : DeskHas(r)' <=> DeskHas(r)
    BY <2>3 DEF DeskHas
  <2>7. Held(round)'
    BY <2>2, <2>3 DEF Held
  <2>8. \A q, s \in Processes : Holder(q, round)' /\ Holder(s, round)' => q = s
    BY <2>2, <2>3, <2>5
  <2>9. \A q \in Processes : scanning'[q].at = "marked" => scanning'[q].round \in Rounds
    BY <2>1, <2>2 DEF NoticeInv
  <2>10. missed' \subseteq Rounds /\ desk' \in [at : {"off", "again", "marked"}, round : 0 .. MaxRounds]
         /\ (desk'.at = "marked" => desk'.round \in Rounds)
    BY <2>3 DEF NoticeInv, NoticeTypeOK
  <2>11. \A r \in Rounds \ {round} : \A q \in Processes : Holder(q, r)' <=> Holder(q, r)
    BY <1>0, <2>2
  <2> HIDE DEF c
  <2> QED
    BY <1>1, <2>2, <2>3, <2>5, <2>6, <2>7, <2>8, <2>9, <2>10, <2>11, MarkKeeps
<1>2. CASE ~(MayMark /\ Marks(p))
  <2>1. SetScanning(p, Idle) /\ UNCHANGED <<round, desk, airing, told, doubled>>
    BY <1>2 DEF Marks, MarkFails
  <2>2. /\ scanning' \in [Processes -> CheckRec]
        /\ \A q \in Processes : scanning'[q] = IF q = p THEN Idle ELSE scanning[q]
        /\ \A q \in Processes : \A r : Holder(q, r)' <=> Holder(q, r)
    BY <1>0, <2>1, IdleIs, CheckMoves
  <2>3. \A r : DeskHas(r)' <=> DeskHas(r)
    BY <2>1 DEF DeskHas
  <2>4. \A q \in Processes : scanning'[q].at = "marked" => scanning'[q].round \in Rounds
    BY <2>2, IdleIs DEF NoticeInv
  <2>5. desk' \in [at : {"off", "again", "marked"}, round : 0 .. MaxRounds]
        /\ (desk'.at = "marked" => desk'.round \in Rounds)
    BY <2>1 DEF NoticeInv, NoticeTypeOK
  <2>6. CASE UNCHANGED <<notice, marked, missed>>
    <3>1. \A r \in Rounds : RoundInv(r)'
      BY <2>1, <2>2, <2>3, <2>6, RoundSame DEF NoticeInv
    <3> QED
      BY <2>1, <2>2, <2>4, <2>5, <2>6, <3>1 DEF NoticeInv, NoticeTypeOK, CheckRec, MayMark
  <2>7. CASE MarkIsLost
    <3>1. /\ MayMark /\ Mark /\ missed' = missed \cup {round} /\ round \in Rounds
          /\ missed' \subseteq Rounds
      BY <2>7 DEF MarkIsLost, NoticeInv, NoticeTypeOK
    <3>2. ~Held(round)
      BY <3>1 DEF NoticeInv, RoundInv
    <3>3. ~DeskHas(round) /\ \A q \in Processes : ~Holder(q, round)
      BY <3>2 DEF Held
    <3> QED
      BY <2>1, <2>2, <2>3, <2>4, <2>5, <3>1, <3>3, MarkKeeps
  <2> QED
    BY <1>2, <2>6, <2>7 DEF Marks, MarkFails
<1> QED
  BY <1>1, <1>2

\* Publishing hands the notice on: to nobody, to one notifier, or to several.
LEMMA AirsKeeps ==
  ASSUME NoticeInv, NEW s \in Rounds, NEW lost, Airs(s, lost), Held(s), ~Held(s)',
         scanning' \in [Processes -> CheckRec],
         desk' \in [at : {"off", "again", "marked"}, round : 0 .. MaxRounds],
         \A r \in Rounds \ {s} : /\ \A p \in Processes : Holder(p, r)' <=> Holder(p, r)
                                 /\ DeskHas(r)' <=> DeskHas(r),
         desk'.at = "marked" => desk'.round \in Rounds,
         \A p \in Processes : scanning'[p].at = "marked" => scanning'[p].round \in Rounds
  PROVE  NoticeInv'
<1> DEFINE heard == Listening \ lost
<1>1. heard \in SUBSET Processes
  BY DEF Listening
<1>2. /\ UNCHANGED <<notice, round, marked, told>>
      /\ airing' = airing \cup (heard \X {s})
      /\ missed' = IF heard = {} THEN missed \cup {s} ELSE missed
      /\ doubled' = IF \E p, q \in heard : p # q THEN doubled \cup {s} ELSE doubled
  BY DEF Airs
<1> HIDE DEF heard
<1>3. NoticeTypeOK'
  <2>1. airing' \subseteq Processes \X Rounds
    BY <1>1, <1>2 DEF NoticeInv, NoticeTypeOK
  <2>2. {marked, missed, doubled}' \subseteq SUBSET Rounds
    BY <1>2 DEF NoticeInv, NoticeTypeOK
  <2> QED
    BY <1>2, <2>1, <2>2 DEF NoticeInv, NoticeTypeOK, CheckRec
<1>4. ASSUME NEW r \in Rounds
      PROVE  RoundInv(r)'
  <2>1. RoundInv(r)
    BY DEF NoticeInv
  <2>2. CASE r = s
    <3>1. \A p \in Processes : <<p, r>> \in airing' <=> p \in heard \/ <<p, r>> \in airing
      BY <1>2, <2>2
    <3> QED
      BY <1>1, <1>2, <2>1, <2>2, <3>1, RoundPublished
  <2>3. CASE r # s
    <3>1. \A p \in Processes : <<p, r>> \in airing' <=> <<p, r>> \in airing
      BY <1>2, <2>3
    <3> QED
      BY <1>2, <2>1, <2>3, <3>1, RoundSame
  <2> QED
    BY <2>2, <2>3
<1> QED
  BY <1>2, <1>3, <1>4 DEF NoticeInv, MayMark

LEMMA Publishing ==
  ASSUME NoticeInv, NEW p \in Processes, Publishes(p)
  PROVE  NoticeInv'
<1>0. scanning[p].at = "marked" /\ scanning[p].round \in Rounds
  BY DEF NoticeInv, Publishes
<1>1. PICK s \in Rounds : s = scanning[p].round
  BY <1>0
<1>2. Holder(p, s) /\ \A r \in Rounds \ {s} : ~Holder(p, r)
  BY <1>0, <1>1 DEF Holder
<1>3. PICK lost : Airs(s, lost)
  BY <1>1 DEF Publishes
<1>4. /\ SetScanning(p, Idle) /\ UNCHANGED desk
      /\ scanning \in [Processes -> CheckRec]
  BY DEF Publishes, NoticeInv, NoticeTypeOK, CheckRec
<1>5. /\ scanning' \in [Processes -> CheckRec]
      /\ \A q \in Processes : scanning'[q] = IF q = p THEN Idle ELSE scanning[q]
      /\ \A r : ~Holder(p, r)'
      /\ \A q \in Processes \ {p} : \A r : Holder(q, r)' <=> Holder(q, r)
  BY <1>4, IdleIs, CheckMoves
<1>6. \A r : DeskHas(r)' <=> DeskHas(r)
  BY <1>4 DEF DeskHas
<1>7. ~DeskHas(s) /\ \A q \in Processes \ {p} : ~Holder(q, s)
  BY <1>1, <1>2 DEF NoticeInv, RoundInv
<1>8. Held(s) /\ ~Held(s)'
  BY <1>2, <1>5, <1>6, <1>7 DEF Held
<1>9. \A r \in Rounds \ {s} : \A q \in Processes : Holder(q, r)' <=> Holder(q, r)
  BY <1>2, <1>5
<1>10. \A q \in Processes : scanning'[q].at = "marked" => scanning'[q].round \in Rounds
  BY <1>5, IdleIs DEF NoticeInv
<1>11. desk' \in [at : {"off", "again", "marked"}, round : 0 .. MaxRounds]
       /\ (desk'.at = "marked" => desk'.round \in Rounds)
  BY <1>4 DEF NoticeInv, NoticeTypeOK
<1> QED
  BY <1>1, <1>3, <1>5, <1>6, <1>8, <1>9, <1>10, <1>11, AirsKeeps

\* The control room's requests leave the checks alone.
LEMMA AtTheDesk ==
  ASSUME NoticeInv, Operator \/ OperatorPublishes \/ OperatorFails
  PROVE  NoticeInv'
<1>1. scanning' = scanning /\ scanning \in [Processes -> CheckRec]
  BY DEF Operator, OperatorMarks, OperatorIsLate, OperatorSkips, Reschedules, OperatorPublishes,
         OperatorFails, NoticeInv, NoticeTypeOK, CheckRec
<1>2. /\ \A q \in Processes : \A r : Holder(q, r)' <=> Holder(q, r)
      /\ \A q \in Processes : scanning'[q].at = "marked" => scanning'[q].round \in Rounds
  BY <1>1 DEF Holder, NoticeInv
<1>3. round \in Rounds /\ round \in 0 .. MaxRounds /\ 0 \in 0 .. MaxRounds
  BY RoundsAssumption DEF NoticeInv, NoticeTypeOK, Rounds
<1>4. MayMark => ~DeskHas(round) /\ \A q \in Processes : ~Holder(q, round)
  BY <1>3 DEF NoticeInv, RoundInv, Held
<1>5. CASE OperatorMarks
  <2>1. MayMark /\ Mark /\ UNCHANGED <<round, scanning, airing, told, missed, doubled>>
    BY <1>5 DEF OperatorMarks
  <2>2. desk' = [at |-> "marked", round |-> round] /\ desk.at # "marked"
    BY <1>5 DEF OperatorMarks
  <2>3. \A r : (DeskHas(r)' <=> r = round) /\ ~DeskHas(r)
    BY <2>2 DEF DeskHas
  <2>4. Held(round)'
    BY <2>1, <2>3 DEF Held
  <2>5. missed' \subseteq Rounds
    BY <2>1 DEF NoticeInv, NoticeTypeOK
  <2>6. desk' \in [at : {"off", "again", "marked"}, round : 0 .. MaxRounds] /\ desk'.round \in Rounds
    BY <1>3, <2>2
  <2> QED
    BY <1>1, <1>2, <1>4, <2>1, <2>3, <2>4, <2>5, <2>6, MarkKeeps
<1>6. CASE OperatorIsLate \/ OperatorSkips
  <2>1. /\ UNCHANGED <<round, airing, marked, told, missed, doubled>>
        /\ notice' = notice \/ notice' = "skipped"
    BY <1>6 DEF OperatorIsLate, OperatorSkips
  <2>2. /\ desk' \in [at : {"off", "again", "marked"}, round : 0 .. MaxRounds]
        /\ desk'.at = "off" /\ desk.at # "marked"
    BY <1>3, <1>6 DEF OperatorIsLate, OperatorSkips, Idle, NoticeInv, NoticeTypeOK
  <2>3. \A r : DeskHas(r)' <=> DeskHas(r)
    BY <2>2 DEF DeskHas
  <2>4. \A r \in Rounds : RoundInv(r)'
    BY <1>2, <2>1, <2>3, RoundSame DEF NoticeInv
  <2> QED
    BY <1>1, <1>2, <2>1, <2>2, <2>4 DEF NoticeInv, NoticeTypeOK, MayMark
<1>7. CASE Reschedules
  <2>1. /\ UNCHANGED <<airing, marked, told, missed, doubled>>
        /\ round' = round + 1 /\ round' \in Rounds /\ notice' = "waiting"
    BY <1>3, <1>7, RoundsAssumption DEF Reschedules, Rounds
  <2>2. /\ desk' \in [at : {"off", "again", "marked"}, round : 0 .. MaxRounds]
        /\ desk'.at # "marked" /\ desk.at # "marked"
    BY <1>3, <1>7 DEF Reschedules, Idle
  <2>3. \A r : DeskHas(r)' <=> DeskHas(r)
    BY <2>2 DEF DeskHas
  <2>4. \A r \in Rounds : RoundInv(r)'
    BY <1>2, <2>1, <2>3, RoundSame DEF NoticeInv
  <2>5. /\ \A r \in marked' : r \in Rounds /\ r <= round'
        /\ round' \notin marked'
    <3>1. \A r \in marked : r \in Rounds /\ r <= round
      BY DEF NoticeInv, NoticeTypeOK
    <3> QED
      BY <1>3, <2>1, <3>1 DEF Rounds
  <2> QED
    BY <1>1, <1>2, <2>1, <2>2, <2>4, <2>5 DEF NoticeInv, NoticeTypeOK
<1>8. CASE OperatorPublishes
  <2>0. desk.at = "marked" /\ desk.round \in Rounds /\ desk' = Idle
    BY <1>8 DEF OperatorPublishes, NoticeInv
  <2>1. PICK s \in Rounds : s = desk.round
    BY <2>0
  <2>2. PICK lost : Airs(s, lost)
    BY <1>8, <2>1 DEF OperatorPublishes
  <2>3. DeskHas(s) /\ \A r : ~DeskHas(r)' /\ (r # s => ~DeskHas(r))
    BY <2>0, <2>1, IdleIs DEF DeskHas
  <2>4. \A q \in Processes : ~Holder(q, s)
    BY <2>1, <2>3 DEF NoticeInv, RoundInv
  <2>5. Held(s) /\ ~Held(s)'
    BY <1>2, <2>3, <2>4 DEF Held
  <2>6. desk' \in [at : {"off", "again", "marked"}, round : 0 .. MaxRounds] /\ desk'.at # "marked"
    BY <1>3, <2>0 DEF Idle
  <2> QED
    BY <1>1, <1>2, <2>1, <2>2, <2>3, <2>5, <2>6, AirsKeeps
<1>9. CASE OperatorFails
  <2>1. /\ UNCHANGED <<round, airing, told, doubled>>
        /\ desk' = Idle
    BY <1>9 DEF OperatorFails
  <2>2. /\ desk' \in [at : {"off", "again", "marked"}, round : 0 .. MaxRounds]
        /\ desk'.at # "marked"
        /\ \A r : ~DeskHas(r)'
    BY <1>3, <2>1 DEF Idle, DeskHas
  <2>3. CASE desk.at = "marked" /\ missed' = missed \cup {desk.round} /\ UNCHANGED <<notice, marked>>
    <3>1. desk.round \in Rounds
      BY <2>3 DEF NoticeInv
    <3>2. ASSUME NEW r \in Rounds
          PROVE  RoundInv(r)'
      <4>1. RoundInv(r)
        BY DEF NoticeInv
      <4>2. CASE r = desk.round
        <5>1. DeskHas(r) /\ r \in missed'
          BY <2>3, <4>2 DEF DeskHas
        <5>2. Held(r) /\ \A q \in Processes : ~Holder(q, r)
          BY <4>1, <5>1 DEF Held, RoundInv
        <5>3. ~Held(r)'
          BY <1>2, <2>2, <5>2 DEF Held
        <5>4. \A q \in Processes : <<q, r>> \in airing' <=> q \in {} \/ <<q, r>> \in airing
          BY <2>1
        <5>5. {} \in SUBSET Processes
          OBVIOUS
        <5> QED
          BY <2>1, <2>3, <4>1, <5>1, <5>2, <5>3, <5>4, <5>5, RoundPublished
      <4>3. CASE r # desk.round
        <5>1. ~DeskHas(r)
          BY <4>3 DEF DeskHas
        <5> QED
          BY <1>2, <2>1, <2>2, <2>3, <4>1, <5>1, RoundSame
      <4> QED
        BY <4>2, <4>3
    <3>3. NoticeTypeOK'
      BY <1>1, <2>1, <2>2, <2>3, <3>1 DEF NoticeInv, NoticeTypeOK
    <3> QED
      BY <1>2, <2>1, <2>2, <2>3, <3>2, <3>3 DEF NoticeInv, MayMark
  <2>4. CASE desk.at = "again" /\ UNCHANGED <<notice, marked, missed>>
    <3>1. \A r : DeskHas(r)' <=> DeskHas(r)
      BY <2>2, <2>4 DEF DeskHas
    <3>2. \A r \in Rounds : RoundInv(r)'
      BY <1>2, <2>1, <2>4, <3>1, RoundSame DEF NoticeInv
    <3> QED
      BY <1>1, <1>2, <2>1, <2>2, <2>4, <3>2 DEF NoticeInv, NoticeTypeOK, MayMark
  <2>5. CASE desk.at # "marked" /\ MarkIsLost
    <3>1. \A r : DeskHas(r)' <=> DeskHas(r)
      BY <2>2, <2>5 DEF DeskHas
    <3>2. MayMark /\ Mark /\ missed' = missed \cup {round} /\ missed' \subseteq Rounds
      BY <1>3, <2>5 DEF MarkIsLost, NoticeInv, NoticeTypeOK
    <3> QED
      BY <1>1, <1>2, <1>4, <2>1, <2>2, <3>1, <3>2, MarkKeeps
  <2> QED
    BY <1>9, <2>3, <2>4, <2>5 DEF OperatorFails
<1> QED
  BY <1>5, <1>6, <1>7, <1>8, <1>9 DEF Operator

LEMMA Sending ==
  ASSUME NoticeInv, NEW p \in Processes, Tells(p) \/ TellFails(p)
  PROVE  NoticeInv'
<1>1. PICK s \in Rounds : /\ <<p, s>> \in airing /\ airing' = airing \ {<<p, s>>}
                          /\ \/ Sent(s) /\ missed \subseteq missed' /\ missed' \subseteq missed \cup {s}
                             \/ UNCHANGED told /\ missed' = missed \cup {s}
  BY DEF Tells, TellFails
<1>2. UNCHANGED <<notice, round, scanning, desk, marked, doubled>>
  BY DEF Tells, TellFails
<1>3. told \in [Rounds -> Nat]
  BY DEF NoticeInv, NoticeTypeOK
<1>4. /\ told' \in [Rounds -> Nat]
      /\ told'[s] = told[s] + 1 \/ (told'[s] = told[s] /\ s \in missed')
      /\ \A r \in Rounds \ {s} : told'[r] = told[r]
  BY <1>1, <1>3 DEF Sent
<1>5. \A q \in Processes : \A r : (Holder(q, r)' <=> Holder(q, r)) /\ (DeskHas(r)' <=> DeskHas(r))
  BY <1>2 DEF Holder, DeskHas
<1>6. \A r : DeskHas(r)' <=> DeskHas(r)
  BY <1>2 DEF DeskHas
<1>7. ASSUME NEW r \in Rounds
      PROVE  RoundInv(r)'
  <2>1. RoundInv(r)
    BY DEF NoticeInv
  <2>2. CASE r = s
    <3>1. \A q \in Processes : <<q, r>> \in airing' <=> q # p /\ <<q, r>> \in airing
      BY <1>1, <2>2
    <3> QED
      BY <1>1, <1>2, <1>3, <1>4, <1>5, <1>6, <2>1, <2>2, <3>1, RoundSent
  <2>3. CASE r # s
    <3>1. \A q \in Processes : <<q, r>> \in airing' <=> <<q, r>> \in airing
      BY <1>1, <2>3
    <3> QED
      BY <1>1, <1>2, <1>4, <1>5, <1>6, <2>1, <2>3, <3>1, RoundSame
  <2> QED
    BY <2>2, <2>3
<1>8. missed' \subseteq Rounds /\ airing' \subseteq Processes \X Rounds
  BY <1>1 DEF NoticeInv, NoticeTypeOK
<1> QED
  BY <1>2, <1>4, <1>7, <1>8 DEF NoticeInv, NoticeTypeOK, MayMark

LEMMA NoticeSteps ==
  ASSUME NoticeInv, Notice
  PROVE  NoticeInv'
<1>1. ASSUME NEW p \in Processes, Scans(p)
      PROVE  NoticeInv'
  <2> DEFINE c == [at |-> "read", round |-> 0]
  <2>1. c \in CheckRec /\ scanning \in [Processes -> CheckRec]
    BY RoundsAssumption DEF CheckRec, NoticeInv, NoticeTypeOK
  <2>2. SetScanning(p, c) /\ scanning[p].at = "off"
    BY <1>1 DEF Scans
  <2>3. /\ scanning' \in [Processes -> CheckRec]
        /\ \A q \in Processes : scanning'[q] = IF q = p THEN c ELSE scanning[q]
        /\ \A r : Holder(p, r)' <=> c.at = "marked" /\ c.round = r
        /\ \A q \in Processes \ {p} : \A r : Holder(q, r)' <=> Holder(q, r)
    BY <2>1, <2>2, CheckMoves
  <2>4. \A q \in Processes : \A r : Holder(q, r)' <=> Holder(q, r)
    BY <2>2, <2>3 DEF Holder
  <2>5. UNCHANGED <<notice, round, desk, airing, marked, told, missed, doubled>>
    BY <1>1 DEF Scans
  <2>6. \A r : DeskHas(r)' <=> DeskHas(r)
    BY <2>5 DEF DeskHas
  <2>7. \A r \in Rounds : RoundInv(r)'
    BY <2>4, <2>5, <2>6, RoundSame DEF NoticeInv
  <2>8. \A q \in Processes : scanning'[q].at = "marked" => scanning'[q].round \in Rounds
    BY <2>3 DEF NoticeInv
  <2> QED
    BY <2>3, <2>5, <2>7, <2>8 DEF NoticeInv, NoticeTypeOK, CheckRec, MayMark
<1>2. CASE ComesDue
  <2>1. /\ UNCHANGED <<round, scanning, desk, airing, marked, told, missed, doubled>>
        /\ notice = "waiting" /\ notice' = "due"
    BY <1>2 DEF ComesDue
  <2>2. \A r : (DeskHas(r)' <=> DeskHas(r)) /\ \A p \in Processes : Holder(p, r)' <=> Holder(p, r)
    BY <2>1 DEF DeskHas, Holder
  <2>3. \A r \in Rounds : RoundInv(r)'
    BY <2>1, <2>2, RoundSame DEF NoticeInv
  <2> QED
    BY <2>1, <2>3 DEF NoticeInv, NoticeTypeOK, MayMark
<1> QED
  BY <1>1, <1>2, Marking, Sending, Publishing, AtTheDesk DEF Notice

\* A process that ends with the notice in hand loses it.
LEMMA NoticeDrops ==
  ASSUME NoticeInv, NEW p \in Processes, Drops(p)
  PROVE  NoticeInv'
<1>1. scanning \in [Processes -> CheckRec]
  BY DEF NoticeInv, NoticeTypeOK, CheckRec
<1>2. /\ scanning' \in [Processes -> CheckRec]
      /\ \A q \in Processes : scanning'[q] = IF q = p THEN Idle ELSE scanning[q]
      /\ \A r : ~Holder(p, r)'
      /\ \A q \in Processes \ {p} : \A r : Holder(q, r)' <=> Holder(q, r)
  BY <1>1, IdleIs, CheckMoves DEF Drops
<1>3. /\ UNCHANGED <<notice, round, desk, marked, told, doubled>>
      /\ airing' = airing \ ({p} \X Rounds)
      /\ missed' = missed \cup InHandOf(p)
  BY DEF Drops
<1>4. \A r : DeskHas(r)' <=> DeskHas(r)
  BY <1>3 DEF DeskHas
<1>5. ASSUME NEW r \in Rounds
      PROVE  RoundInv(r)'
  <2>1. RoundInv(r) /\ told[r] \in Nat
    BY DEF NoticeInv, NoticeTypeOK
  <2>2. \A q \in Processes : <<q, r>> \in airing' <=> q # p /\ <<q, r>> \in airing
    BY <1>3
  <2>3. Holder(p, r) \/ <<p, r>> \in airing <=> r \in InHandOf(p)
    BY DEF InHandOf
  <2>4. CASE <<p, r>> \in airing
    <3>1. ~Held(r)
      BY <2>1, <2>4 DEF RoundInv, Aired
    <3>2. \A q \in Processes : Holder(q, r)' <=> Holder(q, r)
      BY <1>2, <3>1 DEF Held
    <3> QED
      BY <1>3, <1>4, <2>1, <2>2, <2>3, <2>4, <3>2, RoundSent
  <2>5. CASE Holder(p, r)
    <3>1. Held(r) /\ ~DeskHas(r) /\ \A q \in Processes \ {p} : ~Holder(q, r)
      BY <2>1, <2>5 DEF Held, RoundInv
    <3>2. ~Held(r)'
      BY <1>2, <1>4, <3>1 DEF Held
    <3>3. \A q \in Processes : <<q, r>> \in airing' <=> q \in {} \/ <<q, r>> \in airing
      BY <2>1, <2>2, <3>1 DEF RoundInv, Aired
    <3>4. {} \in SUBSET Processes
      OBVIOUS
    <3> QED
      BY <1>3, <2>1, <2>3, <2>5, <3>1, <3>2, <3>3, <3>4, RoundPublished
  <2>6. CASE ~Holder(p, r) /\ <<p, r>> \notin airing
    BY <1>2, <1>3, <1>4, <2>1, <2>2, <2>6, RoundSame
  <2> QED
    BY <2>4, <2>5, <2>6
<1>6. missed' \subseteq Rounds /\ airing' \subseteq Processes \X Rounds
  BY <1>3 DEF InHandOf, NoticeInv, NoticeTypeOK
<1>7. \A q \in Processes : scanning'[q].at = "marked" => scanning'[q].round \in Rounds
  BY <1>2, IdleIs DEF NoticeInv
<1> QED
  BY <1>2, <1>3, <1>5, <1>6, <1>7 DEF NoticeInv, NoticeTypeOK, CheckRec, MayMark

LEMMA NoticeInductive ==
  Spec => []NoticeInv
<1>1. Init => NoticeInv
  <2> SUFFICES ASSUME Init PROVE NoticeInv
    OBVIOUS
  <2>1. /\ notice \in {"none", "waiting"} /\ round = 1
        /\ scanning = [p \in Processes |-> Idle]
        /\ desk = Idle /\ airing = {} /\ marked = {} /\ missed = {} /\ doubled = {}
        /\ told = [r \in Rounds |-> 0]
    BY DEF Init, InitNotice
  <2>2. 1 \in Rounds
    BY RoundsAssumption DEF Rounds
  <2>3. NoticeTypeOK
    BY <2>1, <2>2, IdleIs DEF NoticeTypeOK, CheckRec, Idle
  <2>4. \A r \in Rounds : /\ ~DeskHas(r) /\ ~Aired(r) /\ told[r] = 0
                          /\ \A p \in Processes : ~Holder(p, r)
    BY <2>1, IdleIs DEF DeskHas, Holder, Aired
  <2>5. \A r \in Rounds : RoundInv(r)
    BY <2>1, <2>4 DEF RoundInv, Held
  <2> QED
    BY <2>1, <2>3, <2>5, IdleIs DEF NoticeInv
<1>2. NoticeInv /\ [Next]_vars => NoticeInv'
  <2> SUFFICES ASSUME NoticeInv, [Next]_vars PROVE NoticeInv'
    OBVIOUS
  <2>1. CASE UNCHANGED noticeVars
    <3>1. /\ \A r : DeskHas(r)' <=> DeskHas(r)
          /\ \A r : \A p \in Processes : Holder(p, r)' <=> Holder(p, r)
      BY <2>1 DEF noticeVars, DeskHas, Holder
    <3>2. \A r \in Rounds : RoundInv(r)'
      BY <2>1, <3>1, RoundSame DEF noticeVars, NoticeInv
    <3> QED
      BY <2>1, <3>2 DEF noticeVars, NoticeInv, NoticeTypeOK, MayMark
  <2>2. ASSUME NEW p \in Processes, Process(p)
        PROVE  NoticeInv'
    BY <2>1, <2>2, NoticeDrops DEF Process, Gone, workVars
  <2>3. CASE Notice
    BY <2>3, NoticeSteps
  <2>4. CASE Command \/ Breach \/ UNCHANGED vars
    BY <2>1, <2>4 DEF Command, Breach, vars, workVars
  <2> QED
    BY <2>2, <2>3, <2>4 DEF Next
<1> QED
  BY <1>1, <1>2, PTL DEF Spec

\* "A restart never loses or repeats a notice", window by window and with its
\* exceptions: repeated only by two notifiers; lost only with a process that
\* ended or a statement that failed on the way, in the relay, or where no
\* notifier listens; and nobody is told of a window whose notice was skipped
\* (realtime/plannedNotices.js:1-4, routes/plannedOutages.js:176-188, 269-274).
THEOREM NoticeSentOnce ==
  Spec => []NoticeOnce
<1>1. NoticeInv => NoticeOnce
  <2> SUFFICES ASSUME NoticeInv, NEW r \in Rounds
               PROVE  /\ told[r] > 1 => r \in doubled
                      /\ r \in marked /\ ~InHand(r) => told[r] > 0 \/ r \in missed
                      /\ told[r] > 0 => r \in marked
    BY DEF NoticeOnce
  <2>1. RoundInv(r) /\ told[r] \in Nat
    BY DEF NoticeInv, NoticeTypeOK
  <2>2. Held(r) \/ Aired(r) => InHand(r)
    BY DEF Held, Aired, DeskHas, InHand, InHandOf
  <2> QED
    BY <2>1, <2>2 DEF RoundInv
<1> QED
  BY <1>1, NoticeInductive, PTL

-----------------------------------------------------------------------------
(* Escalation *)

ScanRec == [at : {"off", "claim", "send", "record"}, level : 0 .. Levels,
            status : {"sending"} \cup Outcomes]

\* One scan holds a level's row, and how far it has come, with what outcome, is
\* how often the gateway was tried.
Tries(status) == IF status \in {"sent", "failed"} THEN 1 ELSE 0
LevelInv(l) ==
  /\ sms[l] <= 1
  /\ row[l] # "sending" => sms[l] = Tries(row[l]) /\ \A p \in Processes : ~Holds(p, l)
  /\ \A p, q \in Processes : Holds(p, l) /\ Holds(q, l) => p = q
  /\ \A p \in Processes : Holds(p, l) =>
       sms[l] = IF scan[p].at = "send" THEN 0 ELSE Tries(scan[p].status)
  /\ row[l] = "sending" /\ (\A p \in Processes : ~Holds(p, l)) => l \in cut

EscalationInv ==
  /\ EscalationTypeOK
  /\ \A p \in Processes : scan[p].at # "off" => scan[p].level \in 1 .. Levels
  /\ \A p \in Processes : scan[p].at = "record" => scan[p].status \in Outcomes
  /\ \A l \in 1 .. Levels : LevelInv(l)

\* One scan moves.
ScanMoved(p, r) ==
  /\ scan' \in [Processes -> ScanRec]
  /\ scan'[p] = r
  /\ \A q \in Processes \ {p} : scan'[q] = scan[q]

LEMMA ScanSets ==
  ASSUME scan \in [Processes -> ScanRec], NEW p \in Processes, NEW r \in ScanRec, SetScan(p, r)
  PROVE  ScanMoved(p, r)
BY DEF SetScan, ScanMoved

LEMMA NoScanOff ==
  NoScan \in ScanRec /\ NoScan.at = "off"
BY LevelsAssumption DEF NoScan, ScanRec

\* What a step does to one level: nothing that matters to it ...
LEMMA LevelSame ==
  ASSUME NEW l \in 1 .. Levels, LevelInv(l),
         \A q \in Processes : /\ Holds(q, l)' <=> Holds(q, l)
                              /\ Holds(q, l) => scan'[q] = scan[q],
         row'[l] = row[l], sms'[l] = sms[l], l \in cut => l \in cut'
  PROVE  LevelInv(l)'
BY DEF LevelInv

\* ... or its scan ends, with the row as it stands or with the outcome.
LEMMA LevelLeft ==
  ASSUME NEW l \in 1 .. Levels, LevelInv(l), NEW p \in Processes, Holds(p, l),
         \A q \in Processes : ~Holds(q, l)',
         sms'[l] = sms[l], sms[l] \in Nat,
         \/ row'[l] = row[l] /\ l \in cut'
         \/ scan[p].at = "record" /\ scan[p].status \in Outcomes /\ row'[l] = scan[p].status
  PROVE  LevelInv(l)'
<1>1. row[l] = "sending"
  BY DEF LevelInv
<1> QED
  BY <1>1 DEF LevelInv, Outcomes

\* The other levels do not see a scan move.
LEMMA OthersSame ==
  ASSUME NEW p \in Processes, NEW r \in ScanRec, ScanMoved(p, r), NEW l \in 1 .. Levels,
         ~Holds(p, l), r.at \in {"send", "record"} => r.level # l
  PROVE  \A q \in Processes : /\ Holds(q, l)' <=> Holds(q, l)
                              /\ Holds(q, l) => scan'[q] = scan[q]
BY DEF ScanMoved, Holds

\* A scan looks at an incident, or gives up on a row that is not its own.
LEMMA ScanAside ==
  ASSUME EscalationInv, NEW p \in Processes, NEW r \in ScanRec, ScanMoved(p, r),
         scan[p].at \in {"off", "claim"}, r.at \in {"off", "claim"},
         r.at = "claim" => r.level \in 1 .. Levels,
         UNCHANGED <<over, row, sms, cut>>
  PROVE  EscalationInv'
<1>1. \A l \in 1 .. Levels : ~Holds(p, l)
  BY DEF Holds
<1>2. ASSUME NEW l \in 1 .. Levels PROVE LevelInv(l)'
  <2>1. \A q \in Processes : /\ Holds(q, l)' <=> Holds(q, l)
                             /\ Holds(q, l) => scan'[q] = scan[q]
    BY <1>1, OthersSame
  <2> QED
    BY <2>1, LevelSame DEF EscalationInv
<1> QED
  BY <1>2 DEF EscalationInv, EscalationTypeOK, ScanMoved, ScanRec

\* A scan that claimed a row ends.
LEMMA ScanLeaves ==
  ASSUME EscalationInv, NEW p \in Processes, NEW l \in 1 .. Levels, Holds(p, l),
         ScanMoved(p, NoScan), UNCHANGED <<over, sms>>,
         row' \in [1 .. Levels -> {"none", "sending"} \cup Outcomes],
         \A k \in (1 .. Levels) \ {l} : row'[k] = row[k],
         cut \subseteq cut', cut' \subseteq 1 .. Levels,
         \/ row'[l] = row[l] /\ l \in cut'
         \/ scan[p].at = "record" /\ row'[l] = scan[p].status
  PROVE  EscalationInv'
<1>1. ASSUME NEW k \in 1 .. Levels PROVE LevelInv(k)'
  <2>1. LevelInv(k) /\ sms[k] \in Nat
    BY DEF EscalationInv, EscalationTypeOK
  <2>2. CASE k = l
    <3>1. \A q \in Processes : ~Holds(q, k)'
      BY <2>1, <2>2, NoScanOff DEF LevelInv, ScanMoved, Holds
    <3>2. scan[p].at = "record" => scan[p].status \in Outcomes
      BY DEF EscalationInv
    <3> QED
      BY <2>1, <2>2, <3>1, <3>2, LevelLeft
  <2>3. CASE k # l
    <3>1. ~Holds(p, k)
      BY <2>3 DEF Holds
    <3>2. \A q \in Processes : /\ Holds(q, k)' <=> Holds(q, k)
                               /\ Holds(q, k) => scan'[q] = scan[q]
      BY <3>1, NoScanOff, OthersSame
    <3> QED
      BY <2>1, <2>3, <3>2, LevelSame
  <2> QED
    BY <2>2, <2>3
<1> QED
  BY <1>1, NoScanOff DEF EscalationInv, EscalationTypeOK, ScanMoved, ScanRec

LEMMA Claiming ==
  ASSUME EscalationInv, NEW p \in Processes, Claims(p) \/ ClaimFails(p)
  PROVE  EscalationInv'
<1>0. /\ scan \in [Processes -> ScanRec]
      /\ row \in [1 .. Levels -> {"none", "sending"} \cup Outcomes]
      /\ cut \subseteq 1 .. Levels
  BY DEF EscalationInv, EscalationTypeOK, ScanRec
<1>1. PICK l \in 1 .. Levels : scan[p].level = l /\ scan[p].at = "claim"
  BY DEF Claims, ClaimFails, EscalationInv
<1>2. UNCHANGED <<over, sms>> /\ \A k \in 1 .. Levels : ~Holds(p, k)
  BY <1>1 DEF Claims, ClaimFails, Holds
<1>3. CASE UNCHANGED <<row, cut>> /\ SetScan(p, NoScan)
  BY <1>0, <1>1, <1>2, <1>3, ScanSets, ScanAside, NoScanOff
<1>4. CASE /\ Claimable(l)
           /\ row' = [row EXCEPT ![l] = "sending"]
           /\ \/ SetScan(p, [scan[p] EXCEPT !.at = "send"]) /\ UNCHANGED cut
              \/ SetScan(p, NoScan) /\ cut' = cut \cup {l}
  <2>1. PICK r \in ScanRec : /\ ScanMoved(p, r)
                             /\ \/ r.at = "send" /\ r.level = l /\ UNCHANGED cut
                                \/ r.at = "off" /\ cut' = cut \cup {l}
    <3>1. CASE SetScan(p, [scan[p] EXCEPT !.at = "send"]) /\ UNCHANGED cut
      <4> DEFINE r == [scan[p] EXCEPT !.at = "send"]
      <4>1. r \in ScanRec /\ r.at = "send" /\ r.level = l
        BY <1>0, <1>1 DEF ScanRec
      <4> QED
        BY <1>0, <3>1, <4>1, ScanSets
    <3>2. CASE SetScan(p, NoScan) /\ cut' = cut \cup {l}
      BY <1>0, <3>2, ScanSets, NoScanOff
    <3> QED
      BY <1>4, <3>1, <3>2
  <2>2. /\ row[l] = "none" /\ row'[l] = "sending"
        /\ row' \in [1 .. Levels -> {"none", "sending"} \cup Outcomes]
        /\ \A k \in (1 .. Levels) \ {l} : row'[k] = row[k]
    BY <1>0, <1>4 DEF Claimable
  <2>3. ASSUME NEW k \in 1 .. Levels PROVE LevelInv(k)'
    <3>1. LevelInv(k)
      BY DEF EscalationInv
    <3>2. CASE k # l
      <4>1. \A q \in Processes : /\ Holds(q, k)' <=> Holds(q, k)
                                 /\ Holds(q, k) => scan'[q] = scan[q]
        BY <1>2, <2>1, <3>2, OthersSame
      <4> QED
        BY <1>2, <2>1, <2>2, <3>1, <3>2, <4>1, LevelSame
    <3>3. CASE k = l
      <4>1. sms[l] = 0 /\ \A q \in Processes : ~Holds(q, l)
        BY <2>2, <3>1, <3>3 DEF LevelInv, Tries
      <4>2. \A q \in Processes \ {p} : ~Holds(q, l)'
        BY <2>1, <4>1 DEF ScanMoved, Holds
      <4>3. CASE r.at = "send" /\ r.level = l
        <5>1. Holds(p, l)' /\ scan'[p].at = "send"
          BY <2>1, <4>3 DEF ScanMoved, Holds
        <5> QED
          BY <1>2, <2>2, <3>3, <4>1, <4>2, <5>1 DEF LevelInv
      <4>4. CASE r.at = "off" /\ cut' = cut \cup {l}
        <5>1. ~Holds(p, l)'
          BY <2>1, <4>4 DEF ScanMoved, Holds
        <5> QED
          BY <1>2, <2>2, <3>3, <4>1, <4>2, <4>4, <5>1 DEF LevelInv
      <4> QED
        BY <2>1, <4>3, <4>4
    <3> QED
      BY <3>2, <3>3
  <2> QED
    BY <1>0, <1>2, <2>1, <2>2, <2>3 DEF EscalationInv, EscalationTypeOK, ScanMoved, ScanRec
<1> QED
  BY <1>1, <1>3, <1>4 DEF Claims, ClaimFails

LEMMA SendingSms ==
  ASSUME EscalationInv, NEW p \in Processes, Sends(p)
  PROVE  EscalationInv'
<1>0. /\ scan \in [Processes -> ScanRec]
      /\ sms \in [1 .. Levels -> Nat]
  BY DEF EscalationInv, EscalationTypeOK, ScanRec
<1>1. PICK l \in 1 .. Levels : scan[p].level = l /\ scan[p].at = "send"
  BY DEF Sends, EscalationInv
<1>2. PICK status \in Outcomes :
        /\ SetScan(p, [scan[p] EXCEPT !.at = "record", !.status = status])
        /\ sms' = IF status = "skipped-no-contact" THEN sms ELSE [sms EXCEPT ![l] = @ + 1]
  BY <1>1 DEF Sends
<1>3. UNCHANGED <<over, row, cut>>
  BY DEF Sends
<1> DEFINE r == [scan[p] EXCEPT !.at = "record", !.status = status]
<1>4. r \in ScanRec /\ r.at = "record" /\ r.level = l /\ r.status = status
  BY <1>0, <1>1 DEF ScanRec
<1>5. ScanMoved(p, r)
  BY <1>0, <1>2, <1>4, ScanSets
<1> HIDE DEF r
<1>6. Holds(p, l) /\ sms[l] = 0 /\ row[l] = "sending"
  BY <1>1 DEF Holds, EscalationInv, LevelInv
<1>7. /\ sms' \in [1 .. Levels -> Nat]
      /\ sms'[l] = Tries(status)
      /\ \A k \in (1 .. Levels) \ {l} : sms'[k] = sms[k]
  BY <1>0, <1>2, <1>6 DEF Tries, Outcomes
<1>8. ASSUME NEW k \in 1 .. Levels PROVE LevelInv(k)'
  <2>1. LevelInv(k)
    BY DEF EscalationInv
  <2>2. CASE k = l
    <3>1. \A q \in Processes : Holds(q, l)' <=> q = p
      BY <1>4, <1>5, <1>6, <2>1, <2>2 DEF LevelInv, ScanMoved, Holds
    <3>2. scan'[p].at = "record" /\ scan'[p].status = status
      BY <1>4, <1>5 DEF ScanMoved
    <3>3. sms'[l] <= 1
      BY <1>7 DEF Tries
    <3> QED
      BY <1>3, <1>6, <1>7, <2>2, <3>1, <3>2, <3>3 DEF LevelInv
  <2>3. CASE k # l
    <3>1. ~Holds(p, k)
      BY <1>1, <2>3 DEF Holds
    <3>2. \A q \in Processes : /\ Holds(q, k)' <=> Holds(q, k)
                               /\ Holds(q, k) => scan'[q] = scan[q]
      BY <1>4, <1>5, <2>3, <3>1, OthersSame
    <3> QED
      BY <1>3, <1>7, <2>1, <2>3, <3>2, LevelSame
  <2> QED
    BY <2>2, <2>3
<1> QED
  BY <1>3, <1>4, <1>5, <1>7, <1>8 DEF EscalationInv, EscalationTypeOK, ScanMoved, ScanRec

LEMMA Recording ==
  ASSUME EscalationInv, NEW p \in Processes, Records(p) \/ RecordFails(p)
  PROVE  EscalationInv'
<1>0. /\ scan \in [Processes -> ScanRec]
      /\ row \in [1 .. Levels -> {"none", "sending"} \cup Outcomes]
      /\ cut \subseteq 1 .. Levels
  BY DEF EscalationInv, EscalationTypeOK, ScanRec
<1>1. PICK l \in 1 .. Levels : scan[p].level = l /\ scan[p].at = "record"
  BY DEF Records, RecordFails, EscalationInv
<1>2. Holds(p, l) /\ scan[p].status \in Outcomes
  BY <1>1 DEF Holds, EscalationInv
<1>3. ScanMoved(p, NoScan) /\ UNCHANGED <<over, sms>>
  BY <1>0, ScanSets, NoScanOff DEF Records, RecordFails
<1>4. \/ UNCHANGED row /\ cut' = cut \cup {l}
      \/ UNCHANGED cut /\ row' = [row EXCEPT ![l] = scan[p].status]
  BY <1>1 DEF Records, RecordFails, RecordsRow
<1>5. /\ row' \in [1 .. Levels -> {"none", "sending"} \cup Outcomes]
      /\ \A k \in (1 .. Levels) \ {l} : row'[k] = row[k]
      /\ cut \subseteq cut' /\ cut' \subseteq 1 .. Levels
      /\ \/ row'[l] = row[l] /\ l \in cut'
         \/ scan[p].at = "record" /\ row'[l] = scan[p].status
  BY <1>0, <1>1, <1>2, <1>4
<1> QED
  BY <1>2, <1>3, <1>5, ScanLeaves

LEMMA LevelSteps ==
  ASSUME EscalationInv, NEW p \in Processes, Escalates(p) \/ ClaimFails(p) \/ RecordFails(p)
  PROVE  EscalationInv'
<1>1. CASE Looked(p)
  <2> DEFINE r == [at |-> "claim", level |-> LevelFor, status |-> "sending"]
  <2>1. r \in ScanRec /\ r.at = "claim" /\ r.level \in 1 .. Levels
    <3>1. LevelFor \in 1 .. Levels /\ LevelFor \in 0 .. Levels
      BY <1>1, LevelsAssumption DEF Looked, LevelFor, EscalationInv, EscalationTypeOK
    <3> QED
      BY <3>1 DEF ScanRec
  <2>2. scan \in [Processes -> ScanRec]
    BY DEF EscalationInv, EscalationTypeOK, ScanRec
  <2>3. ScanMoved(p, r) /\ UNCHANGED <<over, row, sms, cut>> /\ scan[p].at = "off"
    BY <1>1, <2>1, <2>2, ScanSets DEF Looked
  <2> HIDE DEF r
  <2> QED
    BY <2>1, <2>3, ScanAside
<1> QED
  BY <1>1, Claiming, SendingSms, Recording DEF Escalates

\* The row of a process that ends with it stays as it was.
LEMMA LevelLeaves ==
  ASSUME EscalationInv, NEW p \in Processes, Leaves(p)
  PROVE  EscalationInv'
<1>0. scan \in [Processes -> ScanRec]
  BY DEF EscalationInv, EscalationTypeOK, ScanRec
<1>1. /\ ScanMoved(p, NoScan) /\ UNCHANGED <<over, row, sms>>
      /\ cut' = cut \cup {l \in 1 .. Levels : Holds(p, l)}
  BY <1>0, ScanSets, NoScanOff DEF Leaves
<1>2. /\ row \in [1 .. Levels -> {"none", "sending"} \cup Outcomes]
      /\ cut \subseteq cut' /\ cut' \subseteq 1 .. Levels
  BY <1>1 DEF EscalationInv, EscalationTypeOK
<1>3. ASSUME NEW l \in 1 .. Levels, Holds(p, l)
      PROVE  EscalationInv'
  BY <1>1, <1>2, <1>3, ScanLeaves
<1>4. CASE \A l \in 1 .. Levels : ~Holds(p, l)
  <2>1. scan[p].at \in {"off", "claim"}
    BY <1>0, <1>4 DEF Holds, ScanRec, EscalationInv
  <2>2. UNCHANGED cut
    BY <1>1, <1>4
  <2> QED
    BY <1>1, <2>1, <2>2, NoScanOff, ScanAside
<1> QED
  BY <1>3, <1>4

LEMMA EscalationInductive ==
  Spec => []EscalationInv
<1>1. Init => EscalationInv
  BY LevelsAssumption
     DEF Init, InitEscalation, NoScan, EscalationInv, EscalationTypeOK, LevelInv, Holds, Tries
<1>2. EscalationInv /\ [Next]_vars => EscalationInv'
  <2> SUFFICES ASSUME EscalationInv, [Next]_vars PROVE EscalationInv'
    OBVIOUS
  <2>1. CASE UNCHANGED escVars
    BY <2>1 DEF escVars, EscalationInv, EscalationTypeOK, LevelInv, Holds
  <2>2. ASSUME NEW p \in Processes, Process(p)
        PROVE  EscalationInv'
    BY <2>1, <2>2, LevelLeaves DEF Process, Gone, workVars
  <2>3. CASE Ages
    BY <2>3, LevelsAssumption
       DEF Ages, EscalationInv, EscalationTypeOK, LevelInv, Holds
  <2>4. CASE Breach
    BY <2>3, <2>4, LevelSteps DEF Breach
  <2>5. CASE Command \/ Notice \/ UNCHANGED vars
    BY <2>1, <2>5 DEF Command, Notice, vars, workVars
  <2> QED
    BY <2>2, <2>4, <2>5 DEF Next
<1> QED
  BY <1>1, <1>2, PTL DEF Spec

\* "Each level's SMS goes out once per incident ... a restart or a second
\* backend never resends" (realtime/escalation.js:6-8): one try at most, whose
\* outcome is on record, and a row stuck at "sending" only after a claimant
\* ended or lost a statement on the way.
THEOREM LevelEscalatedOnce ==
  Spec => []EscalatedOnce
<1>1. EscalationInv => EscalatedOnce
  BY DEF EscalationInv, EscalationTypeOK, LevelInv, Tries, EscalatedOnce
<1> QED
  BY <1>1, EscalationInductive, PTL

-----------------------------------------------------------------------------
\* Every variable keeps its type.
THEOREM TypeCorrect ==
  Spec => []TypeOK
<1>1. JobsInv /\ CommandInv /\ NoticeInv /\ EscalationInv => TypeOK
  BY DEF JobsInv, CommandInv, NoticeInv, EscalationInv, TypeOK
<1> QED
  BY <1>1, JobsInductive, CommandInductive, NoticeInductive, EscalationInductive, PTL
=============================================================================

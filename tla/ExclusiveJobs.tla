----------------------------- MODULE ExclusiveJobs -----------------------------
(***************************************************************************)
(* One process per background job (backend/src/infra/jobs.js): a job runs  *)
(* in the process whose connection holds its session advisory lock.  All   *)
(* locks of a process are on one connection; PostgreSQL frees them when    *)
(* the session ends, which the process notices only later.  Until it has   *)
(* re-taken them its jobs go on running; if one was taken by another       *)
(* process meanwhile, it exits.                                            *)
(*                                                                         *)
(* A statement that fails although its session goes on is left out: on     *)
(* this connection nothing is sent but pg_try_advisory_lock, which neither *)
(* waits nor fails by itself.                                              *)
(***************************************************************************)
EXTENDS Naturals, FiniteSets

CONSTANTS
  Processes,   \* the processes that run background jobs (RUNS_JOBS)
  Jobs,        \* the jobs, by name
  Nobody,
  MaxTroubles  \* bound: lost sessions, crashes, failed calls of the jobs

ASSUME NobodyAssumption == Nobody \notin Processes
ASSUME TroublesAssumption == MaxTroubles \in Nat

VARIABLES
  up,        \* [process -> it is running]
  conn,      \* [process -> its lock connection; "dead" is not noticed yet]
  locks,     \* pg_locks: [job -> the process whose session holds the lock]
  running,   \* [process -> jobs started in it (job.running)]
  retaking,  \* [process -> jobs whose lock it still has to re-take]
  troubles

sessionVars == <<up, conn, locks, running, retaking>>
jobVars     == <<up, conn, locks, running, retaking, troubles>>

-----------------------------------------------------------------------------
Freed_Mutant(p) == locks
Freed(p) == [j \in Jobs |-> IF locks[j] = p THEN Nobody ELSE locks[j]]

\* The process ends, and with it the session and what runs in it.
Ends(p) ==
  /\ up' = [up EXCEPT ![p] = FALSE]
  /\ conn' = [conn EXCEPT ![p] = "none"]
  /\ locks' = Freed(p)
  /\ running' = [running EXCEPT ![p] = {}]
  /\ retaking' = [retaking EXCEPT ![p] = {}]

Trouble == troubles < MaxTroubles /\ troubles' = troubles + 1

\* The container starts the process (again).
Boots(p) ==
  /\ ~up[p]
  /\ up' = [up EXCEPT ![p] = TRUE]
  /\ UNCHANGED <<conn, locks, running, retaking, troubles>>

\* connection(): on the next use, when there is none.
Connects(p) ==
  /\ up[p] /\ conn[p] = "none"
  /\ conn' = [conn EXCEPT ![p] = "open"]
  /\ UNCHANGED <<up, locks, running, retaking, troubles>>

\* attempt, at registration and every JOB_LOCK_RETRY_MS: the lock is free, the
\* job starts.  One that is taken changes nothing, nor does a try on a dead
\* session.
Attempts(p, j) ==
  /\ up[p] /\ conn[p] = "open"
  /\ j \notin running[p]
  /\ locks[j] = Nobody
  /\ locks' = [locks EXCEPT ![j] = p]
  /\ running' = [running EXCEPT ![p] = @ \cup {j}]
  /\ UNCHANGED <<up, conn, retaking, troubles>>

\* The server ends the session (restart, network): its locks are free at once.
SessionDies(p) ==
  /\ conn[p] = "open"
  /\ Trouble
  /\ conn' = [conn EXCEPT ![p] = "dead"]
  /\ locks' = Freed(p)
  /\ UNCHANGED <<up, running, retaking>>

\* lost: every running job's lock is to be taken again.
Notices(p) ==
  /\ conn[p] = "dead"
  /\ conn' = [conn EXCEPT ![p] = "none"]
  /\ retaking' = [retaking EXCEPT ![p] = running[p]]
  /\ UNCHANGED <<up, locks, running, troubles>>

\* A lock of its own session is granted again; one that another process has
\* got is fatal.
Retakes_Mutant(p, j) ==
  /\ up[p] /\ conn[p] = "open" /\ j \in retaking[p]
  /\ locks' = [locks EXCEPT ![j] = IF @ = Nobody THEN p ELSE @]
  /\ retaking' = [retaking EXCEPT ![p] = @ \ {j}]
  /\ UNCHANGED <<up, conn, running, troubles>>
Retakes(p, j) ==
  /\ up[p] /\ conn[p] = "open" /\ j \in retaking[p]
  /\ locks[j] \in {Nobody, p}
  /\ locks' = [locks EXCEPT ![j] = p]
  /\ retaking' = [retaking EXCEPT ![p] = @ \ {j}]
  /\ UNCHANGED <<up, conn, running, troubles>>

Exits_Mutant(p) == FALSE /\ Ends(p) /\ UNCHANGED troubles
Exits(p) ==
  /\ up[p] /\ conn[p] = "open"
  /\ \E j \in retaking[p] : locks[j] \notin {Nobody, p}
  /\ Ends(p)
  /\ UNCHANGED troubles

Crashes(p) == up[p] /\ Trouble /\ Ends(p)

InitJobs ==
  /\ up = [p \in Processes |-> FALSE]
  /\ conn = [p \in Processes |-> "none"]
  /\ locks = [j \in Jobs |-> Nobody]
  /\ running = [p \in Processes |-> {}]
  /\ retaking = [p \in Processes |-> {}]
  /\ troubles = 0

\* What a process does by itself as long as nothing happens to it.
Goes(p) ==
  \/ Boots(p) \/ Connects(p) \/ Notices(p)
  \/ \E j \in Jobs : Attempts(p, j) \/ Retakes(p, j)

NextJobs == \E p \in Processes : Goes(p) \/ SessionDies(p) \/ Exits(p) \/ Crashes(p)

JobsSpec == InitJobs /\ [][NextJobs]_jobVars

-----------------------------------------------------------------------------
(* Properties *)

JobsTypeOK ==
  /\ up \in [Processes -> BOOLEAN]
  /\ conn \in [Processes -> {"none", "open", "dead"}]
  /\ locks \in [Jobs -> Processes \cup {Nobody}]
  /\ running \in [Processes -> SUBSET Jobs]
  /\ retaking \in [Processes -> SUBSET Jobs]
  /\ troubles \in 0 .. MaxTroubles

\* p has lost its session and has not yet got the lock of j back.
Adrift(p, j) == conn[p] = "dead" \/ j \in retaking[p]

\* "So it never runs twice": two processes run one job only while all of them
\* but one have lost their session and will, for this job, exit.
RunsOnce ==
  \A p, q \in Processes : \A j \in running[p] \cap running[q] :
    p # q => Adrift(p, j) \/ Adrift(q, j)

\* A job a process runs in good standing is a job whose lock it holds, and a
\* lock that is held is held for a job that runs.
RunnersHold ==
  \A p \in Processes : \A j \in Jobs :
    locks[j] = p <=> j \in running[p] /\ ~Adrift(p, j)

Runners(j) == {p \in Processes : j \in running[p]}

Strays(j) == {p \in Runners(j) : Adrift(p, j)}

Ownership == INSTANCE JobOwnership WITH
  standing <- [j \in Jobs |-> Runners(j) \ Strays(j)],
  strays   <- [j \in Jobs |-> Strays(j)]

\* However sessions end and come back, the jobs see what JobOwnership says.
KeepsOwnership == Ownership!Spec
=============================================================================

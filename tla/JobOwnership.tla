----------------------------- MODULE JobOwnership -----------------------------
(***************************************************************************)
(* What infra/jobs.js promises the background jobs, with no mention of     *)
(* sessions, locks and reconnects: a job runs in good standing in at most  *)
(* one process.  A process may fall out of standing and go on running its  *)
(* jobs, as a stray; it gets a job back only while nobody else has it, and *)
(* otherwise stops with everything it runs.                                *)
(***************************************************************************)
CONSTANTS Processes, Jobs

VARIABLES
  standing,  \* [job -> processes that run it in good standing]
  strays     \* [job -> processes that run it and do not know whether they may]

vars == <<standing, strays>>

TypeOK ==
  /\ standing \in [Jobs -> SUBSET Processes]
  /\ strays \in [Jobs -> SUBSET Processes]

Init ==
  /\ standing = [j \in Jobs |-> {}]
  /\ strays = [j \in Jobs |-> {}]

Start(p, j) ==
  /\ standing[j] = {} /\ p \notin strays[j]
  /\ standing' = [standing EXCEPT ![j] = {p}]
  /\ UNCHANGED strays

\* The process falls out of standing, for all its jobs at once.
Stray(p) ==
  /\ strays' = [j \in Jobs |-> IF p \in standing[j] THEN strays[j] \cup {p} ELSE strays[j]]
  /\ standing' = [j \in Jobs |-> standing[j] \ {p}]

Resume(p, j) ==
  /\ p \in strays[j] /\ standing[j] = {}
  /\ standing' = [standing EXCEPT ![j] = {p}]
  /\ strays' = [strays EXCEPT ![j] = @ \ {p}]

Stop(p) ==
  /\ standing' = [j \in Jobs |-> standing[j] \ {p}]
  /\ strays' = [j \in Jobs |-> strays[j] \ {p}]

Next ==
  \E p \in Processes :
    \/ \E j \in Jobs : Start(p, j) \/ Resume(p, j)
    \/ Stray(p)
    \/ Stop(p)

Spec == Init /\ [][Next]_vars
=============================================================================

--------------------------- MODULE ComplaintIntake ---------------------------
(***************************************************************************)
(* How a complaint is submitted, stored once and answered: the caller's    *)
(* request (backend/src/realtime/intakeWorker.js submitComplaint) queues   *)
(* it and waits, a queue worker stores it or finds it stored already       *)
(* (realtime/complaintIntake.js), under a lock on its external id.         *)
(*                                                                         *)
(* Submission s draws query id s and makes queue item s.  Which incident a *)
(* complaint joins is the business of module OutageIntake; that one worker *)
(* at a time runs an item, that of IntakeQueue.  The sequence behind the   *)
(* query ids never hands one out twice, so that the check for a query id   *)
(* somebody else used (IntakeRejected) finds none.  complaints.external_id *)
(* has no unique index here: the server starts without it when old rows    *)
(* already break it.                                                       *)
(***************************************************************************)
EXTENDS Naturals, FiniteSets

CONSTANTS
  Submissions, \* bound: submissions, a channel's repetitions included
  ExternalIds, NoExternalId,
  Channels,    \* the processes that serve them
  NoChannel,
  Workers,     \* loops of the complaint lane
  MaxAttempts  \* QUEUE_MAX_ATTEMPTS

ASSUME SubmissionsAssumption == Submissions \subseteq Nat \ {0} /\ MaxAttempts \in Nat
ASSUME NoExternalIdAssumption == NoExternalId \notin ExternalIds
ASSUME NoChannelAssumption == NoChannel \notin Channels

VARIABLES
  ext,      \* external id of submission s
  via,      \* the process that serves it
  caller,   \* what that process is doing for it
  row,      \* where its item is: queued, or its verdict
  attempts, \* intake_queue.attempts
  worker,   \* what each loop is doing, with which item
  reply     \* HTTP status of the answer, and whose complaint it shows

complaintVars == <<ext, via, caller, row, attempts, worker, reply>>

Verdicts     == {"stored", "duplicate", "dead"}
CallerStates == {"none", "enqueue", "waiting", "asking", "answered", "lost"}

NoReply == [status |-> 0, shows |-> 0]
Idle    == [at |-> "idle", item |-> 0]

ComplaintTypeOK ==
  /\ ext \in [Submissions -> ExternalIds \cup {NoExternalId}]
  /\ via \in [Submissions -> Channels \cup {NoChannel}]
  /\ caller \in [Submissions -> CallerStates]
  /\ row \in [Submissions -> {"none", "queued"} \cup Verdicts]
  /\ attempts \in [Submissions -> 0 .. MaxAttempts]
  /\ worker \in [Workers -> [at : {"idle", "begun", "locked", "duplicate", "store"},
                             item : Submissions \cup {0}]]
  /\ reply \in [Submissions -> [status : {0, 200, 201, 202, 409}, shows : Submissions \cup {0}]]

-----------------------------------------------------------------------------
(* The caller *)

SameId(s, t) == ext[s] # NoExternalId /\ ext[s] = ext[t]

\* complaintByExternalId, or the complaint this very item stored.
StoredCopies(s) == {t \in Submissions : row[t] = "stored" /\ SameId(s, t)}
Mine(s) ==
  IF ext[s] # NoExternalId THEN StoredCopies(s) ELSE {t \in {s} : row[t] = "stored"}

Replies(s, status, shows) ==
  /\ reply' = [reply EXCEPT ![s] = [status |-> status, shows |-> shows]]
  /\ caller' = [caller EXCEPT ![s] = "answered"]

\* submitComplaint looks for the external id before anything else.
Submits(c, s, x) ==
  /\ caller[s] = "none" /\ \A t \in Submissions : t < s => caller[t] # "none"
  /\ ext' = [ext EXCEPT ![s] = x]
  /\ via' = [via EXCEPT ![s] = c]
  /\ LET known == {t \in Submissions : row[t] = "stored" /\ x # NoExternalId /\ ext[t] = x}
     IN IF known = {}
        THEN caller' = [caller EXCEPT ![s] = "enqueue"] /\ UNCHANGED reply
        ELSE \E t \in known : Replies(s, 200, t)
  /\ UNCHANGED <<row, attempts, worker>>

Enqueues(s) ==
  /\ caller[s] = "enqueue"
  /\ caller' = [caller EXCEPT ![s] = "waiting"]
  /\ row' = [row EXCEPT ![s] = "queued"]
  /\ UNCHANGED <<ext, via, attempts, worker, reply>>

\* waitForDone ends with the notice, a poll or its timeout, whatever is first.
Status_Mutant(s, t) == 201
Status(s, t) == IF t = s THEN 201 ELSE 200
Finds(s) ==
  /\ caller[s] = "waiting"
  /\ IF Mine(s) = {}
     THEN caller' = [caller EXCEPT ![s] = "asking"] /\ UNCHANGED reply
     ELSE \E t \in Mine(s) : Replies(s, Status(s, t), t)
  /\ UNCHANGED <<ext, via, row, attempts, worker>>

\* Nothing found: rejected if its dead letter is there, else still queued.
AsksWhy(s) ==
  /\ caller[s] = "asking"
  /\ Replies(s, IF row[s] = "dead" THEN 409 ELSE 202, 0)
  /\ UNCHANGED <<ext, via, row, attempts, worker>>

\* The process that serves the callers dies.
ChannelDies(c) ==
  /\ caller' = [s \in Submissions |->
       IF via[s] = c /\ caller[s] # "answered" THEN "lost" ELSE caller[s]]
  /\ UNCHANGED <<ext, via, row, attempts, worker, reply>>

-----------------------------------------------------------------------------
(* The worker: one transaction per item *)

Held(s) == \E w \in Workers : worker[w].item = s
Sets(w, state) == worker' = [worker EXCEPT ![w].at = state]

Begins_Mutant(w, s) ==
  /\ worker[w] = Idle /\ row[s] = "queued" /\ ~Held(s)
  /\ attempts' = [attempts EXCEPT ![s] = @ + 1]
  /\ worker' = [worker EXCEPT ![w] = [at |-> "begun", item |-> s]]
  /\ UNCHANGED <<ext, via, caller, row, reply>>
Begins(w, s) ==
  /\ worker[w] = Idle /\ row[s] = "queued" /\ ~Held(s)
  /\ attempts[s] < MaxAttempts
  /\ attempts' = [attempts EXCEPT ![s] = @ + 1]
  /\ worker' = [worker EXCEPT ![w] = [at |-> "begun", item |-> s]]
  /\ UNCHANGED <<ext, via, caller, row, reply>>

\* lockExternalId: held to the end of the transaction.
HasLock_Mutant(v) == worker[v].at \in {"duplicate", "store"}
HasLock(v) == worker[v].at \in {"locked", "duplicate", "store"}
Locks(w) ==
  /\ worker[w].at = "begun"
  /\ \A v \in Workers : HasLock(v) => ~SameId(worker[v].item, worker[w].item)
  /\ Sets(w, "locked")
  /\ UNCHANGED <<ext, via, caller, row, attempts, reply>>

\* complaintTx: decided by the submission's own key.
Decides(w) ==
  /\ worker[w].at = "locked"
  /\ Sets(w, IF StoredCopies(worker[w].item) = {} THEN "store" ELSE "duplicate")
  /\ UNCHANGED <<ext, via, caller, row, attempts, reply>>

\* The complaint, or the duplicate's record, with the DELETE of the item.  A
\* lost answer changes nothing: the item is gone when the worker looks again.
Commits(w) ==
  /\ worker[w].at \in {"store", "duplicate"}
  /\ row' = [row EXCEPT ![worker[w].item] =
               IF worker[w].at = "store" THEN "stored" ELSE "duplicate"]
  /\ worker' = [worker EXCEPT ![w] = Idle]
  /\ UNCHANGED <<ext, via, caller, attempts, reply>>

\* withRetry: the savepoint is rolled back, with the lock, and run again.
Retries(w) ==
  /\ HasLock(w)
  /\ Sets(w, "begun")
  /\ UNCHANGED <<ext, via, caller, row, attempts, reply>>

\* The item fails: later again, or a dead letter.
Fails(w) ==
  LET s == worker[w].item
  IN /\ worker[w] # Idle
     /\ row' = [row EXCEPT ![s] = IF attempts[s] = MaxAttempts THEN "dead" ELSE @]
     /\ worker' = [worker EXCEPT ![w] = Idle]
     /\ UNCHANGED <<ext, via, caller, attempts, reply>>

WorkerDies(w) ==
  /\ worker[w] # Idle
  /\ worker' = [worker EXCEPT ![w] = Idle]
  /\ UNCHANGED <<ext, via, caller, row, attempts, reply>>

\* An item that used up its attempts is not run again when next claimed.
Exhausted(w, s) ==
  /\ worker[w] = Idle /\ row[s] = "queued" /\ ~Held(s)
  /\ attempts[s] = MaxAttempts
  /\ row' = [row EXCEPT ![s] = "dead"]
  /\ UNCHANGED <<ext, via, caller, attempts, worker, reply>>

-----------------------------------------------------------------------------

InitComplaints ==
  /\ ext = [s \in Submissions |-> NoExternalId]
  /\ via = [s \in Submissions |-> NoChannel]
  /\ caller = [s \in Submissions |-> "none"]
  /\ row = [s \in Submissions |-> "none"]
  /\ attempts = [s \in Submissions |-> 0]
  /\ worker = [w \in Workers |-> Idle]
  /\ reply = [s \in Submissions |-> NoReply]

Serves(s) == Enqueues(s) \/ Finds(s) \/ AsksWhy(s)
Takes(w)  == \E s \in Submissions : Begins(w, s) \/ Exhausted(w, s)
Works(w)  == Locks(w) \/ Decides(w) \/ Commits(w)
ComplaintFails(w) == Retries(w) \/ Fails(w) \/ WorkerDies(w)

-----------------------------------------------------------------------------
(* Properties *)

\* However often a channel repeats a submission, and whoever stores which copy
\* when: one complaint per external id, and a copy is only put aside as a
\* duplicate of one that is stored.
OneCallPerExternalId ==
  /\ \A s, t \in Submissions : row[s] = "stored" /\ row[t] = "stored" /\ SameId(s, t) => s = t
  /\ \A s \in Submissions : row[s] = "duplicate" => StoredCopies(s) # {}

\* What a caller is told is so, and stays so: 201 of its own complaint, 200 of
\* another copy, 409 of a dead letter, 202 of an item that was queued.
RepliesHold ==
  \A s \in Submissions :
    LET t == reply[s].shows
    IN /\ reply[s].status = 201 => t = s /\ row[s] = "stored"
       /\ reply[s].status = 200 => t \in StoredCopies(s) \ {s} /\ row[s] # "stored"
       /\ reply[s].status = 409 => row[s] = "dead"
       /\ reply[s].status = 202 => row[s] # "none"
=============================================================================

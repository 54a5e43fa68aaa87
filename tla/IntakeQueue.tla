----------------------------- MODULE IntakeQueue -----------------------------
(***************************************************************************)
(* The durable intake queue (backend/src/infra/intakeQueue.js): producers  *)
(* insert or coalesce events into the intake_queue table; the worker loops *)
(* of any number of processes claim rows under a lease, process them in a  *)
(* transaction that also deletes the row, and retry or dead-letter what    *)
(* fails.  One action is one SQL statement or one transaction boundary:    *)
(* everything between two of them can be interleaved with other workers,   *)
(* interrupted by a crash, or overtaken by a lease running out.            *)
(*                                                                         *)
(* Time is abstract: a row is "ready" when its available_at has passed.  A *)
(* lease may run out under a live but stalled worker, whatever the         *)
(* heartbeat does.                                                         *)
(***************************************************************************)
EXTENDS Naturals, FiniteSets

CONSTANTS
  Events,       \* records [n, kind, tag, state, feeder]: what producers send
  Loops,        \* worker loops, over all processes
  ComplaintLane,\* the loops that claim complaints only
  Tokens,       \* claim tokens (consumerId:claimSeq); see FreshTokens
  NoTag, NoFeeder, NoLoop, NoToken,
  MaxAttempts,  \* QUEUE_MAX_ATTEMPTS
  BatchMax,     \* QUEUE_BATCH_MAX
  GroupMax,     \* QUEUE_GROUP_MAX
  ClaimScan,    \* QUEUE_CLAIM_SCAN: the heads the main lane looks at
  MaxId,        \* bound: rows ever inserted
  MaxFaults     \* bound: crashes, lost COMMIT answers and leases that run out
                \* under a live claim, together

ASSUME EventsAssumption ==
  \A e \in Events : e.kind \in {"scada", "complaint"}
                    /\ (e.kind = "complaint" => e.tag = NoTag /\ e.feeder = NoFeeder)

ASSUME SizesAssumption ==
  /\ MaxAttempts \in Nat \ {0}
  /\ BatchMax \in Nat \ {0}
  /\ GroupMax \in Nat \ {0}
  /\ ClaimScan \in Nat /\ ClaimScan >= BatchMax
  /\ MaxId \in Nat
  /\ MaxFaults \in Nat

ASSUME NamesAssumption ==
  /\ ComplaintLane \subseteq Loops
  /\ NoLoop \notin Loops
  /\ NoToken \notin Tokens

Ids == 1 .. MaxId

VARIABLES
  \* the tables
  nextId,       \* the BIGSERIAL behind intake_queue.id
  row,          \* is row i absent, inserted but not committed, queued, gone?
  attempts,     \* attempts column, saturating one above MaxAttempts
  ready,        \* available_at <= now()
  claimedBy,    \* claimed_by column
  lockedBy,     \* the loop whose open transaction holds the row lock
  dead,         \* intake_dead_letter
  stored,       \* how often row i's work has been committed
  storedEvents, \* the events whose work has been committed
  item,         \* the row that carries an event (0: none)
  \* the worker loops
  pc, token, todo, solo, cur, snap,
  published,    \* how often row i's post-commit effects have run
  \* history and bounds
  before, faults

tables  == <<nextId, row, attempts, ready, claimedBy, lockedBy, dead,
             stored, storedEvents, item>>
workers == <<pc, token, todo, solo, cur, snap, published>>
vars    == <<tables, workers, before, faults>>

RowStates == {"none", "inserting", "queued", "gone", "rolledback"}
PcStates  == {"idle", "work", "tx", "effects", "fail", "reject"}

TypeOK ==
  /\ nextId \in 1 .. (MaxId + 1)
  /\ row \in [Ids -> RowStates]
  /\ attempts \in [Ids -> 0 .. (MaxAttempts + 1)]
  /\ ready \in [Ids -> BOOLEAN]
  /\ claimedBy \in [Ids -> Tokens \cup {NoToken}]
  /\ lockedBy \in [Ids -> Loops \cup {NoLoop}]
  /\ dead \subseteq Ids
  /\ stored \in [Ids -> Nat]
  /\ storedEvents \subseteq Events
  /\ item \in [Events -> {0} \cup Ids]
  /\ pc \in [Loops -> PcStates]
  /\ token \in [Loops -> Tokens \cup {NoToken}]
  /\ todo \in [Loops -> SUBSET Ids]
  /\ solo \in [Loops -> SUBSET Ids]
  /\ cur \in [Loops -> SUBSET Ids]
  /\ snap \in [Loops -> SUBSET Events]
  /\ published \in [Ids -> Nat]
  /\ before \in [Events -> SUBSET Events]
  /\ faults \in 0 .. MaxFaults

-----------------------------------------------------------------------------
(* What the rows carry *)

Carried(i) == {e \in Events : item[e] = i}
Queued     == {i \in Ids : row[i] = "queued"}

\* order_key, kind and feeder of a row are those of any event it carries:
\* only events that agree on all three are ever coalesced.
SameTag(e, f) == e.tag = f.tag /\ e.tag # NoTag
SameKey(i, j) == \E e \in Carried(i), f \in Carried(j) : SameTag(e, f)
IsComplaint(i) == \E e \in Carried(i) : e.kind = "complaint"
\* coalesce_key: source, tag and state (a reclose never absorbs a trip).
SameState(i, e) == \E f \in Carried(i) : SameTag(e, f) /\ f.state = e.state
\* The feeder a row names; an item that names none is a group of its own.
SameGroup(i, j) ==
  i = j \/ \E e \in Carried(i), f \in Carried(j) :
             e.kind = f.kind /\ e.feeder = f.feeder /\ e.feeder # NoFeeder
\* canBatchScada: a trip; a reclose always runs on its own.
CanBatch(i) == \A e \in Carried(i) : e.kind = "scada" /\ e.state # "reclose"

Committed == {e \in Events : item[e] # 0 /\ row[item[e]] \in {"queued", "gone"}}

-----------------------------------------------------------------------------
(* Producers *)

\* Events are numbered in the order they arrive.
NextToSend(e) == item[e] = 0 /\ \A f \in Events : f.n < e.n => item[f] # 0

\* INSERT INTO intake_queue inside a producer's transaction: the id is taken
\* from the sequence now, the row becomes visible at COMMIT.  It needs no
\* failed Coalesce first: INTAKE_COALESCE may be off, and a batch of alarms
\* (scadaIntake.js) always inserts.
Insert(e) ==
  /\ NextToSend(e)
  /\ nextId <= MaxId
  /\ nextId' = nextId + 1
  /\ row' = [row EXCEPT ![nextId] = "inserting"]
  /\ item' = [item EXCEPT ![e] = nextId]
  /\ before' = [before EXCEPT ![e] = Committed]
  /\ UNCHANGED <<attempts, ready, claimedBy, lockedBy, dead, stored,
                 storedEvents, workers, faults>>

CommitInsert(i) ==
  /\ row[i] = "inserting"
  /\ row' = [row EXCEPT ![i] = "queued"]
  /\ ready' = [ready EXCEPT ![i] = TRUE]
  /\ UNCHANGED <<nextId, attempts, claimedBy, lockedBy, dead, stored,
                 storedEvents, item, workers, before, faults>>

\* The transaction fails and its caller is told so: the id is burnt.
RollbackInsert(i) ==
  /\ row[i] = "inserting"
  /\ row' = [row EXCEPT ![i] = "rolledback"]
  /\ UNCHANGED <<nextId, attempts, ready, claimedBy, lockedBy, dead, stored,
                 storedEvents, item, workers, before, faults>>

\* The newest queued row of the event's tag.
IsTail_Mutant(i, e) == i \in Queued /\ \E f \in Carried(i) : SameTag(e, f)
IsTail(i, e) ==
  /\ i \in Queued
  /\ \E f \in Carried(i) : SameTag(e, f)
  /\ \A j \in Queued : (\E f \in Carried(j) : SameTag(e, f)) => j <= i

\* No worker has been handed the row's payload yet.
Unclaimed_Mutant(i) == TRUE
Unclaimed(i) == attempts[i] = 0

\* The coalescing UPDATE of enqueue(): the tail absorbs a repeat of its own
\* state while nobody has claimed it; a locked tail is left alone (NOWAIT).
Coalesce(e, i) ==
  /\ NextToSend(e)
  /\ IsTail(i, e)
  /\ lockedBy[i] = NoLoop
  /\ SameState(i, e)
  /\ Unclaimed(i)
  /\ item' = [item EXCEPT ![e] = i]
  /\ before' = [before EXCEPT ![e] = Committed]
  /\ UNCHANGED <<nextId, row, attempts, ready, claimedBy, lockedBy, dead,
                 stored, storedEvents, workers, faults>>

-----------------------------------------------------------------------------
(* Claiming *)

\* Only the oldest queued row of a tag may be claimed.
Head_Mutant(i) == TRUE
Head(i) == \A j \in Queued : SameKey(j, i) => i <= j

Lane(l) == {i \in Queued : IsComplaint(i) <=> l \in ComplaintLane}

Claimable(l) == {i \in Lane(l) : ready[i] /\ Head(i)}

Scanned(H) == {i \in H : Cardinality({j \in H : j < i}) < ClaimScan}

\* claimGroups: whole feeder groups, the group with the oldest head first, at
\* most GroupMax of one group and BatchMax in all.
Groups(H) ==
  LET Mates(i)     == {j \in H : SameGroup(i, j)}
      Older(i, j)  == \* i's group (then i itself) comes before j's
        \/ SameGroup(i, j) /\ i < j
        \/ ~SameGroup(i, j) /\ \E k \in Mates(i) : \A m \in Mates(j) : k < m
      ranked       == {i \in H : Cardinality({j \in Mates(i) : j < i}) < GroupMax}
  IN {i \in ranked : Cardinality({j \in ranked : Older(j, i)}) < BatchMax}

Unlocked(S) == {i \in S : lockedBy[i] = NoLoop}

\* claimHeads skips locked rows before its LIMIT 1, claimGroups after picking.
Pick(l) ==
  IF l \in ComplaintLane
  THEN {i \in Unlocked(Claimable(l)) : \A j \in Unlocked(Claimable(l)) : i <= j}
  ELSE Unlocked(Groups(Scanned(Claimable(l))))

\* consumerId:claimSeq is new for every claim: no row and no loop refers to it.
FreshTokens == Tokens \ ({claimedBy[i] : i \in Queued} \cup {token[l] : l \in Loops})

\* attempts + 1; beyond MaxAttempts + 1 the count makes no difference.
Up_Mutant(n) == IF n > MaxAttempts THEN n ELSE n + 2
Up(n) == IF n > MaxAttempts THEN n ELSE n + 1

NewToken == CHOOSE tk \in FreshTokens : TRUE

Claim(l) ==
  /\ pc[l] = "idle"
  /\ Pick(l) # {}
  /\ FreshTokens # {}
  /\ token' = [token EXCEPT ![l] = NewToken]
  /\ claimedBy' = [i \in Ids |-> IF i \in Pick(l) THEN NewToken ELSE claimedBy[i]]
  /\ attempts' = [i \in Ids |-> IF i \in Pick(l) THEN Up(attempts[i]) ELSE attempts[i]]
  /\ ready' = [i \in Ids |-> ready[i] /\ i \notin Pick(l)]
  /\ pc' = [pc EXCEPT ![l] = "work"]
  /\ todo' = [todo EXCEPT ![l] = Pick(l)]
  /\ snap' = [snap EXCEPT ![l] = {e \in Events : item[e] \in Pick(l)}]
  /\ UNCHANGED <<nextId, row, lockedBy, dead, stored, storedEvents, item,
                 solo, cur, published, before, faults>>

\* Every leaseMs / 3: the leases of the claim this loop still works on are
\* pushed forward, except of rows a transaction has locked (SKIP LOCKED).
Heartbeat(l) ==
  LET mine == {i \in Queued : claimedBy[i] = token[l] /\ lockedBy[i] = NoLoop}
  IN /\ token[l] # NoToken
     /\ \E i \in mine : ready[i]
     /\ ready' = [i \in Ids |-> ready[i] /\ i \notin mine]
     /\ UNCHANGED <<nextId, row, attempts, claimedBy, lockedBy, dead, stored,
                    storedEvents, item, workers, before, faults>>

\* The bound on everything that goes wrong outside the handlers.
Fault == faults < MaxFaults /\ faults' = faults + 1

HeldLive(i) == \E l \in Loops : token[l] # NoToken /\ token[l] = claimedBy[i]

\* A lease runs out although the loop that claimed the row is alive.
LeaseRunsOut(i) ==
  /\ i \in Queued
  /\ ~ready[i]
  /\ HeldLive(i)
  /\ Fault
  /\ ready' = [ready EXCEPT ![i] = TRUE]
  /\ UNCHANGED <<nextId, row, attempts, claimedBy, lockedBy, dead, stored,
                 storedEvents, item, workers, before>>

\* A back-off, or the lease of a claim nobody works on any more, is over.
ComesDue(i) ==
  /\ i \in Queued
  /\ ~ready[i]
  /\ ~HeldLive(i)
  /\ ready' = [ready EXCEPT ![i] = TRUE]
  /\ UNCHANGED <<nextId, row, attempts, claimedBy, lockedBy, dead, stored,
                 storedEvents, item, workers, before, faults>>

-----------------------------------------------------------------------------
(* Processing *)

\* The row is there and the claim on it is still this loop's.
Holds_Mutant(l, i) == i \in Queued
Holds(l, i) == i \in Queued /\ claimedBy[i] = token[l]

\* DELETE FROM intake_queue: the columns go with the row.
Delete(S) ==
  /\ row' = [i \in Ids |-> IF i \in S THEN "gone" ELSE row[i]]
  /\ attempts' = [i \in Ids |-> IF i \in S THEN 0 ELSE attempts[i]]
  /\ ready' = [i \in Ids |-> ready[i] /\ i \notin S]
  /\ claimedBy' = [i \in Ids |-> IF i \in S THEN NoToken ELSE claimedBy[i]]

\* deadLetter(): under the row lock, only for the claim that holds the row.
DeadLetter(l, i) ==
  LET S == {j \in {i} : Holds(l, j)} IN dead' = dead \cup S /\ Delete(S)

\* SELECT ... FOR UPDATE, or an UPDATE, waits for another loop's row lock.
CanLock(i) == i \in Queued => lockedBy[i] = NoLoop

\* The code reads item.attempts, the count its own claim returned.  The column
\* differs from it only once another claim holds the row (or it is gone), and
\* then neither deadLetter() nor failed() touches it.
Exhausted(i) == attempts[i] > MaxAttempts

DropExhausted(l, i) ==
  /\ pc[l] = "work"
  /\ i \in todo[l]
  /\ Exhausted(i)
  /\ CanLock(i)
  /\ DeadLetter(l, i)
  /\ todo' = [todo EXCEPT ![l] = @ \ {i}]
  /\ solo' = [solo EXCEPT ![l] = @ \ {i}]
  /\ UNCHANGED <<nextId, lockedBy, stored, storedEvents, item, pc, token, cur,
                 snap, published, before, faults>>

\* processClaimed: groups of two or more first, then single rows by id; the
\* rows of a group that failed run on their own before anything else.
Batches(l) ==
  {G \in SUBSET todo[l] :
     /\ Cardinality(G) > 1
     /\ \E i \in G : G = {j \in todo[l] : CanBatch(j) /\ SameGroup(i, j)}}

Unit(l, G) ==
  \/ solo[l] # {} /\ \E i \in solo[l] : G = {i}
  \/ solo[l] = {} /\ G \in Batches(l)
  \/ /\ solo[l] = {}
     /\ Batches(l) = {}
     /\ \E i \in todo[l] : G = {i} /\ \A j \in todo[l] : i <= j

\* processOne / processGroup open their transaction and lock the rows of the
\* unit that are still there (in id order, so the wait is never circular).
Begin(l) ==
  /\ pc[l] = "work"
  /\ \A i \in todo[l] : ~Exhausted(i)
  /\ \E G \in SUBSET todo[l] :
       /\ Unit(l, G)
       /\ \A i \in G : CanLock(i)
       /\ lockedBy' = [i \in Ids |-> IF i \in G \cap Queued THEN l ELSE lockedBy[i]]
       /\ cur' = [cur EXCEPT ![l] = G]
       /\ todo' = [todo EXCEPT ![l] = @ \ G]
       /\ solo' = [solo EXCEPT ![l] = @ \ G]
  /\ pc' = [pc EXCEPT ![l] = "tx"]
  /\ UNCHANGED <<nextId, row, attempts, ready, claimedBy, dead, stored,
                 storedEvents, item, token, snap, published, before, faults>>

\* The rows of the unit that are still there and still this claim's: the
\* others were finished, or claimed again, by somebody else meanwhile.
Mine_Mutant(l) == cur[l]
Mine(l) == {i \in cur[l] : lockedBy[i] = l /\ Holds(l, i)}

Released(l) == [i \in Ids |-> IF lockedBy[i] = l THEN NoLoop ELSE lockedBy[i]]

\* The handler's work and the DELETE of the rows, in one transaction.
Store(l) ==
  /\ pc[l] = "tx"
  /\ stored' = [i \in Ids |-> IF i \in Mine(l) THEN stored[i] + 1 ELSE stored[i]]
  /\ storedEvents' = storedEvents \cup {e \in snap[l] : item[e] \in Mine(l)}
  /\ Delete(Mine(l))
  /\ lockedBy' = Released(l)

Commit(l) ==
  /\ Store(l)
  /\ cur' = [cur EXCEPT ![l] = Mine(l)]
  /\ pc' = [pc EXCEPT ![l] = "effects"]
  /\ UNCHANGED <<nextId, dead, item, token, todo, solo, snap, published,
                 before, faults>>

\* Where an error inside the transaction leads: a group is run row by row, a
\* single row goes to failed().
AfterError_Mutant(l) ==
  pc' = [pc EXCEPT ![l] = "effects"] /\ UNCHANGED <<todo, solo, cur>>
AfterError(l) ==
  IF Cardinality(cur[l]) > 1
  THEN /\ todo' = [todo EXCEPT ![l] = @ \cup cur[l]]
       /\ solo' = [solo EXCEPT ![l] = @ \cup cur[l]]
       /\ cur' = [cur EXCEPT ![l] = {}]
       /\ pc' = [pc EXCEPT ![l] = "work"]
  ELSE /\ pc' = [pc EXCEPT ![l] = "fail"]
       /\ UNCHANGED <<todo, solo, cur>>

\* COMMIT took effect but its answer was lost with the connection.
CommitUnanswered(l) ==
  /\ Fault
  /\ Store(l)
  /\ AfterError(l)
  /\ UNCHANGED <<nextId, dead, item, token, snap, published, before>>

\* The handler, or a statement, throws: everything in the transaction rolls back.
Abort(l) ==
  /\ pc[l] = "tx"
  /\ lockedBy' = Released(l)
  /\ AfterError(l)
  /\ UNCHANGED <<nextId, row, attempts, ready, claimedBy, dead, stored,
                 storedEvents, item, token, snap, published, before, faults>>

\* The handler throws IntakeRejected (a complaint whose qid is taken).
Reject(l) ==
  /\ pc[l] = "tx"
  /\ Mine(l) # {}
  /\ \A i \in cur[l] : IsComplaint(i)
  /\ lockedBy' = Released(l)
  /\ pc' = [pc EXCEPT ![l] = "reject"]
  /\ UNCHANGED <<nextId, row, attempts, ready, claimedBy, dead, stored,
                 storedEvents, item, token, todo, solo, cur, snap, published,
                 before, faults>>

DeadLetterRejected(l) ==
  /\ pc[l] = "reject"
  /\ \E i \in cur[l] : CanLock(i) /\ DeadLetter(l, i)
  /\ cur' = [cur EXCEPT ![l] = {}]
  /\ pc' = [pc EXCEPT ![l] = "work"]
  /\ UNCHANGED <<nextId, lockedBy, stored, storedEvents, item, token, todo,
                 solo, snap, published, before, faults>>

\* failed(): dead letter at the last attempt, else back off and let go.
BackOff(l, i) ==
  LET S == {j \in {i} : Holds(l, j)}
  IN /\ ready' = [j \in Ids |-> ready[j] /\ j \notin S]
     /\ claimedBy' = [j \in Ids |-> IF j \in S THEN NoToken ELSE claimedBy[j]]

LastAttempt(i) == attempts[i] >= MaxAttempts

Fail(l) ==
  /\ pc[l] = "fail"
  /\ \E i \in cur[l] :
       /\ CanLock(i)
       /\ IF LastAttempt(i)
          THEN DeadLetter(l, i)
          ELSE BackOff(l, i) /\ UNCHANGED <<dead, row, attempts>>
  /\ cur' = [cur EXCEPT ![l] = {}]
  /\ pc' = [pc EXCEPT ![l] = "work"]
  /\ UNCHANGED <<nextId, lockedBy, stored, storedEvents, item, token, todo,
                 solo, snap, published, before, faults>>

\* Bus publishes and cache drops of what was just committed.
RunEffects(l) ==
  /\ pc[l] = "effects"
  /\ published' = [i \in Ids |-> IF i \in cur[l] THEN published[i] + 1 ELSE published[i]]
  /\ cur' = [cur EXCEPT ![l] = {}]
  /\ pc' = [pc EXCEPT ![l] = "work"]
  /\ UNCHANGED <<tables, token, todo, solo, snap, before, faults>>

\* held.delete(token): the claim is dealt with, its lease no longer renewed.
LetGo_Mutant(l) ==
  /\ pc' = [pc EXCEPT ![l] = "idle"]
  /\ snap' = [snap EXCEPT ![l] = {}]
  /\ UNCHANGED token
LetGo(l) ==
  /\ pc' = [pc EXCEPT ![l] = "idle"]
  /\ token' = [token EXCEPT ![l] = NoToken]
  /\ snap' = [snap EXCEPT ![l] = {}]

Finish(l) ==
  /\ pc[l] = "work"
  /\ todo[l] = {}
  /\ LetGo(l)
  /\ UNCHANGED <<tables, todo, solo, cur, published, before, faults>>

\* The process dies, or processClaimed throws out of the loop body: the open
\* transaction rolls back, the claimed rows keep their token and lease.
Crash(l) ==
  /\ pc[l] # "idle"
  /\ Fault
  /\ lockedBy' = Released(l)
  /\ LetGo(l)
  /\ todo' = [todo EXCEPT ![l] = {}]
  /\ solo' = [solo EXCEPT ![l] = {}]
  /\ cur' = [cur EXCEPT ![l] = {}]
  /\ UNCHANGED <<nextId, row, attempts, ready, claimedBy, dead, stored,
                 storedEvents, item, published, before>>

-----------------------------------------------------------------------------
Init ==
  /\ nextId = 1
  /\ row = [i \in Ids |-> "none"]
  /\ attempts = [i \in Ids |-> 0]
  /\ ready = [i \in Ids |-> FALSE]
  /\ claimedBy = [i \in Ids |-> NoToken]
  /\ lockedBy = [i \in Ids |-> NoLoop]
  /\ dead = {}
  /\ stored = [i \in Ids |-> 0]
  /\ storedEvents = {}
  /\ item = [e \in Events |-> 0]
  /\ pc = [l \in Loops |-> "idle"]
  /\ token = [l \in Loops |-> NoToken]
  /\ todo = [l \in Loops |-> {}]
  /\ solo = [l \in Loops |-> {}]
  /\ cur = [l \in Loops |-> {}]
  /\ snap = [l \in Loops |-> {}]
  /\ published = [i \in Ids |-> 0]
  /\ before = [e \in Events |-> {}]
  /\ faults = 0

Producer ==
  \/ \E e \in Events : Insert(e)
  \/ \E e \in Events, i \in Ids : Coalesce(e, i)
  \/ \E i \in Ids : CommitInsert(i)
  \/ \E i \in Ids : RollbackInsert(i)

\* The steps a running loop takes of its own accord.
LoopStep(l) ==
  \/ Claim(l)
  \/ \E i \in Ids : DropExhausted(l, i)
  \/ Begin(l)
  \/ Commit(l)
  \/ Abort(l)
  \/ Reject(l)
  \/ DeadLetterRejected(l)
  \/ Fail(l)
  \/ RunEffects(l)
  \/ Finish(l)

Clock ==
  \/ \E l \in Loops : Heartbeat(l)
  \/ \E i \in Ids : LeaseRunsOut(i)
  \/ \E i \in Ids : ComesDue(i)

Failure == \E l \in Loops : CommitUnanswered(l) \/ Crash(l)

Next == Producer \/ (\E l \in Loops : LoopStep(l)) \/ Clock \/ Failure

Spec == Init /\ [][Next]_vars

\* A running loop keeps taking steps, time passes, and the database decides
\* every open producer transaction.  Producers owe nobody an event, and no
\* loop has to crash or stall.
Fairness ==
  /\ \A l \in Loops : WF_vars(LoopStep(l))
  /\ \A i \in Ids : WF_vars(ComesDue(i))
  /\ \A i \in Ids : WF_vars(CommitInsert(i) \/ RollbackInsert(i))

FairSpec == Spec /\ Fairness

-----------------------------------------------------------------------------
(* Properties *)

\* A row is in the table until its work is stored or it is dead-lettered, and
\* only one of the two ever happens, once: "an item's work and the DELETE of
\* its queue row commit in ONE transaction" (intakeQueue.js:8).
ExactlyOnce ==
  \A i \in Ids :
    stored[i] + (IF i \in dead THEN 1 ELSE 0) = (IF row[i] = "gone" THEN 1 ELSE 0)

\* Whatever a producer was told is accepted is still queued, was part of the
\* payload a worker stored, or can be read in the dead letters (decision D2):
\* no event is absorbed into a row whose payload a worker already holds.
NothingLost ==
  \A e \in Committed :
    \/ item[e] \in Queued
    \/ e \in storedEvents
    \/ item[e] \in dead

\* While an event of a tag is queued, no worker has been handed a later event
\* of that tag: the later row has never been claimed.
HeldBackByTag ==
  \A e \in Committed : \A p \in before[e] :
    SameTag(p, e) /\ item[p] \in Queued /\ item[p] # item[e]
      => item[e] \in Queued /\ attempts[item[e]] = 0

\* Live screens are told at most once, and only of work that is committed.
PublishedAfterCommit == \A i \in Ids : published[i] <= stored[i]

\* A row is taken out of the table by the claim that holds it and by nobody
\* else: a worker that stalled past its lease cannot fail, dead-letter or
\* finish what another worker has claimed since (decision D3).
Steps(l) == pc'[l] # pc[l] \/ todo'[l] # todo[l]

LetsGoOf(i) == row'[i] # "queued" \/ claimedBy'[i] = NoToken

OnlyTheHolderSettles ==
  [][\A i \in Queued :
       claimedBy[i] # NoToken /\ LetsGoOf(i)
         => \E l \in Loops : token[l] = claimedBy[i] /\ Steps(l)]_vars

\* Two transactions never work on two rows of one tag at a time.  The code
\* claims it ("only the head of each order_key (a SCADA tag) is ever claimed,
\* so at most one item per tag is in flight", intakeQueue.js:226), but ids are
\* handed out before rows become visible.
OneInFlightPerTag ==
  \A l, m \in Loops : \A i \in Mine(l), j \in Mine(m) :
    SameKey(i, j) => i = j

\* It does hold while the rows of a tag become visible in the order of their
\* ids: senders that await each answer before they report a tag again.
InTagOrder ==
  \A i \in Ids :
    row[i] = "inserting" /\ row'[i] = "queued"
      => \A j \in Ids : j < i /\ SameKey(j, i) => row[j] # "inserting"

OrderedSpec == Init /\ [][Next /\ InTagOrder]_vars

\* Every accepted event is settled in the end, whatever fails on the way: a
\* poison event is dead-lettered instead of holding back its tag for ever.
Unsettled == {e \in Committed : row[item[e]] # "gone"}

EverythingSettles == []<>(Unsettled = {})

\* The queue implements its promise.
SettledAs(e) ==
  IF e \in storedEvents THEN "stored" ELSE IF item[e] \in dead THEN "dead" ELSE "lost"

Fate(e) ==
  IF item[e] = 0 THEN "unsent"
  ELSE CASE row[item[e]] = "inserting"  -> "arriving"
         [] row[item[e]] = "rolledback" -> "refused"
         [] row[item[e]] = "queued"     -> "accepted"
         [] OTHER                       -> SettledAs(e)

Promise == INSTANCE IntakePromise WITH fate <- [e \in Events |-> Fate(e)]

KeepsPromise == Promise!Spec
=============================================================================

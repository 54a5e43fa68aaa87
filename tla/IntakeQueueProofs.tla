-------------------------- MODULE IntakeQueueProofs --------------------------
(* Proofs about IntakeQueue. *)
EXTENDS IntakeQueue, TLAPS

-----------------------------------------------------------------------------
(* What the helpers return *)

\* A claim takes queued rows of the table, all of them due.
LEMMA PickQueued == ASSUME NEW l \in Loops PROVE Pick(l) \subseteq Queued
  BY DEF Pick, Unlocked, Groups, Scanned, Claimable, Lane

LEMMA QueuedIds == Queued \subseteq Ids
  BY DEF Queued

\* A claim's token is none that a queued row or a loop refers to.
LEMMA NewTokenFresh ==
  ASSUME FreshTokens # {}
  PROVE  NewToken \in FreshTokens
  BY DEF NewToken

LEMMA UpType ==
  ASSUME NEW n \in 0 .. (MaxAttempts + 1)
  PROVE  Up(n) \in 1 .. (MaxAttempts + 1)
  BY SizesAssumption DEF Up

-----------------------------------------------------------------------------
(* Type correctness *)

LEMMA TypeInit == Init => TypeOK
  BY SizesAssumption DEF Init, TypeOK, Ids, RowStates, PcStates

LEMMA TypeProducer ==
  ASSUME TypeOK, Producer
  PROVE  TypeOK'
<1> USE SizesAssumption DEF TypeOK, workers, Ids, RowStates
<1>1. ASSUME NEW e \in Events, Insert(e) PROVE TypeOK'
  <2>1. nextId \in Ids /\ nextId' \in 1 .. (MaxId + 1)
    BY <1>1 DEF Insert
  <2>2. Committed \subseteq Events
    BY DEF Committed
  <2> QED BY <1>1, <2>1, <2>2 DEF Insert
<1>2. ASSUME NEW e \in Events, NEW i \in Ids, Coalesce(e, i) PROVE TypeOK'
  <2>1. Committed \subseteq Events
    BY DEF Committed
  <2> QED BY <1>2, <2>1 DEF Coalesce
<1>3. ASSUME NEW i \in Ids, CommitInsert(i) PROVE TypeOK'
  BY <1>3 DEF CommitInsert
<1>4. ASSUME NEW i \in Ids, RollbackInsert(i) PROVE TypeOK'
  BY <1>4 DEF RollbackInsert
<1> QED BY <1>1, <1>2, <1>3, <1>4 DEF Producer

LEMMA TypeClock ==
  ASSUME TypeOK, Clock
  PROVE  TypeOK'
<1> USE SizesAssumption DEF TypeOK, workers
<1>1. ASSUME NEW l \in Loops, Heartbeat(l) PROVE TypeOK'
  BY <1>1 DEF Heartbeat
<1>2. ASSUME NEW i \in Ids, LeaseRunsOut(i) PROVE TypeOK'
  BY <1>2 DEF LeaseRunsOut, Fault
<1>3. ASSUME NEW i \in Ids, ComesDue(i) PROVE TypeOK'
  BY <1>3 DEF ComesDue
<1> QED BY <1>1, <1>2, <1>3 DEF Clock

\* Deleting rows of the table keeps the columns' types.
LEMMA TypeDelete ==
  ASSUME TypeOK, NEW S, Delete(S)
  PROVE  /\ row' \in [Ids -> RowStates]
         /\ attempts' \in [Ids -> 0 .. (MaxAttempts + 1)]
         /\ ready' \in [Ids -> BOOLEAN]
         /\ claimedBy' \in [Ids -> Tokens \cup {NoToken}]
  BY SizesAssumption DEF TypeOK, Delete, RowStates

LEMMA TypeDeadLetter ==
  ASSUME TypeOK, NEW l \in Loops, NEW i \in Ids, DeadLetter(l, i)
  PROVE  /\ dead' \subseteq Ids
         /\ row' \in [Ids -> RowStates]
         /\ attempts' \in [Ids -> 0 .. (MaxAttempts + 1)]
         /\ ready' \in [Ids -> BOOLEAN]
         /\ claimedBy' \in [Ids -> Tokens \cup {NoToken}]
<1> DEFINE S == {j \in {i} : Holds(l, j)}
<1>1. dead' = dead \cup S /\ Delete(S)
  BY DEF DeadLetter
<1>2. dead' \subseteq Ids
  BY <1>1 DEF TypeOK
<1> HIDE DEF S
<1> QED BY <1>1, <1>2, TypeDelete

\* An error in a transaction keeps the worker's variables well typed.
LEMMA TypeAfterError ==
  ASSUME TypeOK, NEW l \in Loops, AfterError(l)
  PROVE  /\ pc' \in [Loops -> PcStates]
         /\ todo' \in [Loops -> SUBSET Ids]
         /\ solo' \in [Loops -> SUBSET Ids]
         /\ cur' \in [Loops -> SUBSET Ids]
<1>1. CASE Cardinality(cur[l]) > 1
  BY <1>1 DEF TypeOK, AfterError, PcStates
<1>2. CASE ~(Cardinality(cur[l]) > 1)
  BY <1>2 DEF TypeOK, AfterError, PcStates
<1> QED BY <1>1, <1>2

LEMMA TypeStore ==
  ASSUME TypeOK, NEW l \in Loops, Store(l)
  PROVE  /\ stored' \in [Ids -> Nat]
         /\ storedEvents' \subseteq Events
         /\ row' \in [Ids -> RowStates]
         /\ attempts' \in [Ids -> 0 .. (MaxAttempts + 1)]
         /\ ready' \in [Ids -> BOOLEAN]
         /\ claimedBy' \in [Ids -> Tokens \cup {NoToken}]
         /\ lockedBy' \in [Ids -> Loops \cup {NoLoop}]
<1>1. Delete(Mine(l))
  BY DEF Store
<1>2. stored' \in [Ids -> Nat] /\ storedEvents' \subseteq Events
  BY DEF Store, TypeOK
<1>3. lockedBy' \in [Ids -> Loops \cup {NoLoop}]
  BY DEF Store, Released, TypeOK
<1> QED BY <1>1, <1>2, <1>3, TypeDelete

LEMMA TypeLoopStep ==
  ASSUME TypeOK, NEW l \in Loops, LoopStep(l)
  PROVE  TypeOK'
<1>1. CASE Claim(l)
  <2>1. Pick(l) \subseteq Ids
    BY PickQueued, QueuedIds
  <2>2. NewToken \in Tokens
    BY <1>1, NewTokenFresh DEF Claim, FreshTokens
  <2>3. attempts' \in [Ids -> 0 .. (MaxAttempts + 1)]
    BY <1>1, UpType, SizesAssumption DEF Claim, TypeOK
  <2> QED BY <1>1, <2>1, <2>2, <2>3 DEF Claim, TypeOK, PcStates
<1>2. ASSUME NEW i \in Ids, DropExhausted(l, i) PROVE TypeOK'
  BY <1>2, TypeDeadLetter DEF DropExhausted, TypeOK
<1>3. CASE Begin(l)
  BY <1>3 DEF Begin, TypeOK, PcStates
<1>4. CASE Commit(l)
  <2>1. Store(l) /\ Mine(l) \subseteq Ids
    BY <1>4 DEF Commit, Mine, TypeOK
  <2> QED BY <1>4, <2>1, TypeStore DEF Commit, TypeOK, PcStates
<1>5. CASE Abort(l)
  <2>1. lockedBy' \in [Ids -> Loops \cup {NoLoop}]
    BY <1>5 DEF Abort, Released, TypeOK
  <2> QED BY <1>5, <2>1, TypeAfterError DEF Abort, TypeOK
<1>6. CASE Reject(l)
  <2>1. lockedBy' \in [Ids -> Loops \cup {NoLoop}]
    BY <1>6 DEF Reject, Released, TypeOK
  <2> QED BY <1>6, <2>1 DEF Reject, TypeOK, PcStates
<1>7. CASE DeadLetterRejected(l)
  <2>1. PICK i \in cur[l] : DeadLetter(l, i)
    BY <1>7 DEF DeadLetterRejected
  <2>2. i \in Ids
    BY <2>1 DEF TypeOK
  <2> QED BY <1>7, <2>1, <2>2, TypeDeadLetter DEF DeadLetterRejected, TypeOK, PcStates
<1>8. CASE Fail(l)
  <2>1. PICK i \in cur[l] :
          IF LastAttempt(i)
          THEN DeadLetter(l, i)
          ELSE BackOff(l, i) /\ UNCHANGED <<dead, row, attempts>>
    BY <1>8 DEF Fail
  <2>2. i \in Ids
    BY <2>1 DEF TypeOK
  <2>3. CASE LastAttempt(i)
    BY <1>8, <2>1, <2>2, <2>3, TypeDeadLetter DEF Fail, TypeOK, PcStates
  <2>4. CASE ~LastAttempt(i)
    BY <1>8, <2>1, <2>2, <2>4 DEF Fail, BackOff, TypeOK, PcStates
  <2> QED BY <2>3, <2>4
<1>9. CASE RunEffects(l)
  BY <1>9 DEF RunEffects, TypeOK, PcStates, tables
<1>10. CASE Finish(l)
  BY <1>10 DEF Finish, LetGo, TypeOK, PcStates, tables
<1> QED BY <1>1, <1>2, <1>3, <1>4, <1>5, <1>6, <1>7, <1>8, <1>9, <1>10 DEF LoopStep

LEMMA TypeFailure ==
  ASSUME TypeOK, NEW l \in Loops, CommitUnanswered(l) \/ Crash(l)
  PROVE  TypeOK'
<1>1. CASE CommitUnanswered(l)
  BY <1>1, TypeStore, TypeAfterError, SizesAssumption
  DEF CommitUnanswered, Fault, TypeOK
<1>2. CASE Crash(l)
  <2>1. lockedBy' \in [Ids -> Loops \cup {NoLoop}]
    BY <1>2 DEF Crash, Released, TypeOK
  <2> QED BY <1>2, <2>1, SizesAssumption DEF Crash, LetGo, Fault, TypeOK, PcStates
<1> QED BY <1>1, <1>2

LEMMA TypeStep == TypeOK /\ [Next]_vars => TypeOK'
<1> SUFFICES ASSUME TypeOK, [Next]_vars PROVE TypeOK'
  OBVIOUS
<1>1. CASE UNCHANGED vars
  BY <1>1 DEF TypeOK, vars, tables, workers
<1> QED BY <1>1, TypeProducer, TypeLoopStep, TypeClock, TypeFailure DEF Next, Failure

\* Every variable keeps its type: a column of the tables, a field of a worker.
THEOREM TypeCorrect == Spec => []TypeOK
  BY TypeInit, TypeStep, PTL DEF Spec

-----------------------------------------------------------------------------
(* Exactly once.  ExactlyOnce alone is not inductive: Insert writes the row  *)
(* at nextId, which must not be one that is already settled.                 *)

\* Ids the sequence has not handed out yet have no row, and no worker has seen
\* a row before its insert committed.
FreshIds ==
  \A i \in Ids :
    /\ i >= nextId => row[i] = "none"
    /\ row[i] \in {"none", "inserting"} => claimedBy[i] = NoToken /\ attempts[i] = 0

OnceInv == TypeOK /\ FreshIds /\ ExactlyOnce

\* A row taken out of the table: how often it was stored or dead-lettered.
LEMMA StoreOnce ==
  ASSUME OnceInv, NEW l \in Loops, Store(l), dead' = dead
  PROVE  ExactlyOnce'
<1>1. Mine(l) \subseteq Queued /\ Queued \subseteq Ids
  BY DEF Mine, Holds, Queued
<1> SUFFICES ASSUME NEW i \in Ids
             PROVE  stored'[i] + (IF i \in dead' THEN 1 ELSE 0)
                      = (IF row'[i] = "gone" THEN 1 ELSE 0)
  BY DEF ExactlyOnce
<1>2. stored[i] \in Nat
  BY DEF OnceInv, TypeOK
<1>3. stored[i] + (IF i \in dead THEN 1 ELSE 0) = (IF row[i] = "gone" THEN 1 ELSE 0)
  BY DEF OnceInv, ExactlyOnce
<1>4. CASE i \in Mine(l)
  <2>1. row[i] = "queued"
    BY <1>1, <1>4 DEF Queued
  <2>2. row'[i] = "gone" /\ stored'[i] = stored[i] + 1
    BY <1>4 DEF Store, Delete
  <2> QED BY <1>2, <1>3, <2>1, <2>2
<1>5. CASE i \notin Mine(l)
  <2>1. row'[i] = row[i] /\ stored'[i] = stored[i]
    BY <1>5 DEF Store, Delete
  <2> QED BY <1>3, <2>1
<1> QED BY <1>4, <1>5

LEMMA DeadLetterOnce ==
  ASSUME OnceInv, NEW l \in Loops, NEW i \in Ids, DeadLetter(l, i), stored' = stored
  PROVE  ExactlyOnce'
<1> DEFINE S == {j \in {i} : Holds(l, j)}
<1>1. dead' = dead \cup S /\ Delete(S)
  BY DEF DeadLetter
<1>2. \A j \in S : row[j] = "queued"
  BY DEF Holds, Queued
<1> HIDE DEF S
<1> SUFFICES ASSUME NEW j \in Ids
             PROVE  stored'[j] + (IF j \in dead' THEN 1 ELSE 0)
                      = (IF row'[j] = "gone" THEN 1 ELSE 0)
  BY DEF ExactlyOnce
<1>3. stored[j] \in Nat
  BY DEF OnceInv, TypeOK
<1>4. stored[j] + (IF j \in dead THEN 1 ELSE 0) = (IF row[j] = "gone" THEN 1 ELSE 0)
  BY DEF OnceInv, ExactlyOnce
<1>5. row'[j] = IF j \in S THEN "gone" ELSE row[j]
  BY <1>1 DEF Delete
<1> QED BY <1>1, <1>2, <1>3, <1>4, <1>5

\* Rows that are there are not fresh, and stay below the sequence.
LEMMA FreshKept ==
  ASSUME OnceInv, nextId' = nextId,
         \A i \in Ids : row[i] = "none" => row'[i] = "none",
         \A i \in Ids : row'[i] \in {"none", "inserting"} =>
           /\ row[i] \in {"none", "inserting"}
           /\ claimedBy'[i] = claimedBy[i]
           /\ attempts'[i] = attempts[i]
  PROVE  FreshIds'
  BY DEF OnceInv, FreshIds

LEMMA DeleteFresh ==
  ASSUME OnceInv, NEW S, S \subseteq Queued, Delete(S), nextId' = nextId
  PROVE  FreshIds'
<1>1. \A i \in Ids : i \in S => row[i] = "queued"
  BY DEF Queued
<1> QED BY <1>1, FreshKept DEF Delete, OnceInv, TypeOK

LEMMA DeadLetterFresh ==
  ASSUME OnceInv, NEW l \in Loops, NEW i \in Ids, DeadLetter(l, i), nextId' = nextId
  PROVE  FreshIds'
<1> DEFINE S == {j \in {i} : Holds(l, j)}
<1>1. Delete(S) /\ S \subseteq Queued
  BY DEF DeadLetter, Holds
<1> HIDE DEF S
<1> QED BY <1>1, DeleteFresh

LEMMA StoreFresh ==
  ASSUME OnceInv, NEW l \in Loops, Store(l), nextId' = nextId
  PROVE  FreshIds'
  BY DeleteFresh DEF Store, Mine, Holds

LEMMA OnceProducer ==
  ASSUME OnceInv, Producer
  PROVE  FreshIds' /\ ExactlyOnce'
<1>1. ASSUME NEW e \in Events, Insert(e) PROVE FreshIds' /\ ExactlyOnce'
  <2>1. nextId \in Ids /\ row[nextId] = "none"
    BY <1>1 DEF Insert, OnceInv, FreshIds, TypeOK, Ids
  <2>2. FreshIds'
    BY <1>1, <2>1 DEF Insert, OnceInv, FreshIds, TypeOK, Ids
  <2>3. ExactlyOnce'
    BY <1>1, <2>1 DEF Insert, OnceInv, ExactlyOnce, TypeOK
  <2> QED BY <2>2, <2>3
<1>2. ASSUME NEW e \in Events, NEW i \in Ids, Coalesce(e, i)
      PROVE  FreshIds' /\ ExactlyOnce'
  BY <1>2 DEF Coalesce, OnceInv, FreshIds, ExactlyOnce
<1>3. ASSUME NEW i \in Ids, CommitInsert(i) \/ RollbackInsert(i)
      PROVE  FreshIds' /\ ExactlyOnce'
  <2>1. FreshIds'
    BY <1>3, FreshKept DEF CommitInsert, RollbackInsert, OnceInv, TypeOK
  <2>2. ExactlyOnce'
    BY <1>3 DEF CommitInsert, RollbackInsert, OnceInv, ExactlyOnce, TypeOK
  <2> QED BY <2>1, <2>2
<1> QED BY <1>1, <1>2, <1>3 DEF Producer

LEMMA OnceLoopStep ==
  ASSUME OnceInv, NEW l \in Loops, LoopStep(l)
  PROVE  FreshIds' /\ ExactlyOnce'
<1>1. CASE Claim(l)
  <2>1. \A i \in Ids : i \in Pick(l) => row[i] = "queued"
    BY PickQueued DEF Queued
  <2>2. FreshIds'
    BY <1>1, <2>1, FreshKept DEF Claim
  <2> QED BY <1>1, <2>2 DEF Claim, OnceInv, ExactlyOnce
<1>2. ASSUME NEW i \in Ids, DropExhausted(l, i) PROVE FreshIds' /\ ExactlyOnce'
  BY <1>2, DeadLetterFresh, DeadLetterOnce DEF DropExhausted
<1>3. CASE Commit(l)
  BY <1>3, StoreFresh, StoreOnce DEF Commit
<1>4. CASE DeadLetterRejected(l)
  BY <1>4, DeadLetterFresh, DeadLetterOnce DEF DeadLetterRejected, OnceInv, TypeOK
<1>5. CASE Fail(l)
  <2>1. PICK i \in cur[l] :
          IF LastAttempt(i)
          THEN DeadLetter(l, i)
          ELSE BackOff(l, i) /\ UNCHANGED <<dead, row, attempts>>
    BY <1>5 DEF Fail
  <2>2. i \in Ids
    BY DEF OnceInv, TypeOK
  <2>3. CASE LastAttempt(i)
    BY <1>5, <2>1, <2>2, <2>3, DeadLetterFresh, DeadLetterOnce DEF Fail
  <2>4. CASE ~LastAttempt(i)
    <3>1. \A j \in Ids : row[j] # "queued" => claimedBy'[j] = claimedBy[j]
      BY <2>1, <2>4 DEF BackOff, Holds, Queued
    <3>2. FreshIds'
      BY <1>5, <2>1, <2>4, <3>1, FreshKept DEF Fail
    <3> QED BY <1>5, <2>1, <2>4, <3>2 DEF Fail, OnceInv, ExactlyOnce
  <2> QED BY <2>3, <2>4
<1>6. CASE Begin(l) \/ Abort(l) \/ Reject(l)
  BY <1>6 DEF Begin, Abort, Reject, OnceInv, FreshIds, ExactlyOnce
<1>7. CASE RunEffects(l) \/ Finish(l)
  BY <1>7 DEF RunEffects, Finish, tables, OnceInv, FreshIds, ExactlyOnce
<1> QED BY <1>1, <1>2, <1>3, <1>4, <1>5, <1>6, <1>7 DEF LoopStep

LEMMA OnceStep == OnceInv /\ [Next]_vars => OnceInv'
<1> SUFFICES ASSUME OnceInv, [Next]_vars PROVE OnceInv'
  OBVIOUS
<1>1. TypeOK'
  BY TypeStep DEF OnceInv
<1>2. CASE UNCHANGED vars
  BY <1>1, <1>2 DEF OnceInv, FreshIds, ExactlyOnce, vars, tables
<1>3. CASE Clock
  BY <1>1, <1>3
  DEF Clock, Heartbeat, LeaseRunsOut, ComesDue, OnceInv, FreshIds, ExactlyOnce
<1>4. ASSUME NEW l \in Loops, CommitUnanswered(l) PROVE OnceInv'
  BY <1>1, <1>4, StoreFresh, StoreOnce DEF CommitUnanswered, OnceInv
<1>5. ASSUME NEW l \in Loops, Crash(l) PROVE OnceInv'
  BY <1>1, <1>5 DEF Crash, OnceInv, FreshIds, ExactlyOnce
<1> QED BY <1>1, <1>2, <1>3, <1>4, <1>5, OnceProducer, OnceLoopStep
        DEF Next, Failure, OnceInv

LEMMA OnceInit == Init => OnceInv
  BY TypeInit DEF Init, OnceInv, FreshIds, ExactlyOnce

LEMMA OnceInvariant == Spec => []OnceInv
  BY OnceInit, OnceStep, PTL DEF Spec

\* A row's work is committed once or the row is dead-lettered once, never both
\* and never twice, whatever crashes, lost answers and re-claims happen: the
\* DELETE is part of the transaction that stores (processOne, processGroup).
THEOREM QueueExactlyOnce == Spec => []ExactlyOnce
  BY OnceInvariant, PTL DEF OnceInv

-----------------------------------------------------------------------------
(* Nothing lost.  Why a worker's payload is never stale: a row anybody holds *)
(* has been counted, so nothing is coalesced into it any more.               *)

\* A loop that is working has a claim.
HasToken == \A l \in Loops : pc[l] # "idle" => token[l] # NoToken

\* Every claim counted an attempt.
Counted == \A i \in Queued : claimedBy[i] # NoToken => attempts[i] > 0

\* The payload a loop was handed holds everything its rows carry.
SnapHeld ==
  \A l \in Loops, e \in Events :
    /\ token[l] # NoToken
    /\ item[e] \in Queued
    /\ claimedBy[item[e]] = token[l]
    => e \in snap[l]

ClaimInv == OnceInv /\ HasToken /\ Counted /\ SnapHeld

\* A step that takes no claim and adds no row keeps all three.
LEMMA ClaimKept ==
  ASSUME ClaimInv,
         item' = item,
         \A l \in Loops : pc[l] = "idle" => pc'[l] = "idle",
         \A l \in Loops : \/ token'[l] = token[l] /\ snap'[l] = snap[l]
                          \/ token'[l] = NoToken /\ pc'[l] = "idle",
         Queued' \subseteq Queued,
         \A i \in Queued' : /\ claimedBy'[i] \in {claimedBy[i], NoToken}
                            /\ attempts'[i] = attempts[i]
  PROVE  HasToken' /\ Counted' /\ SnapHeld'
<1>1. HasToken'
  BY DEF ClaimInv, HasToken
<1>2. Counted'
  BY DEF ClaimInv, Counted
<1>3. SnapHeld'
  BY DEF ClaimInv, SnapHeld
<1> QED BY <1>1, <1>2, <1>3

\* Deleting rows is such a step.
LEMMA DeleteLeaves ==
  ASSUME OnceInv, NEW S, Delete(S)
  PROVE  /\ Queued' \subseteq Queued
         /\ \A i \in Queued' : /\ claimedBy'[i] \in {claimedBy[i], NoToken}
                               /\ attempts'[i] = attempts[i]
  BY DEF Delete, Queued

LEMMA DeadLetterLeaves ==
  ASSUME OnceInv, NEW l \in Loops, NEW i \in Ids, DeadLetter(l, i)
  PROVE  /\ Queued' \subseteq Queued
         /\ \A j \in Queued' : /\ claimedBy'[j] \in {claimedBy[j], NoToken}
                               /\ attempts'[j] = attempts[j]
<1> DEFINE S == {j \in {i} : Holds(l, j)}
<1>1. Delete(S)
  BY DEF DeadLetter
<1> HIDE DEF S
<1> QED BY <1>1, DeleteLeaves

LEMMA ClaimProducer ==
  ASSUME ClaimInv, Producer
  PROVE  HasToken' /\ Counted' /\ SnapHeld'
<1>1. HasToken'
  BY DEF Producer, Insert, Coalesce, CommitInsert, RollbackInsert, workers,
         ClaimInv, HasToken
<1>2. ASSUME NEW e \in Events, Insert(e) PROVE Counted' /\ SnapHeld'
  <2>1. Queued' = Queued /\ nextId \notin Queued
    BY <1>2 DEF Insert, ClaimInv, OnceInv, FreshIds, TypeOK, Ids, Queued
  <2>2. Counted'
    BY <1>2, <2>1 DEF Insert, ClaimInv, Counted
  <2>3. SnapHeld'
    BY <1>2, <2>1 DEF Insert, ClaimInv, SnapHeld, OnceInv, TypeOK, workers
  <2> QED BY <2>2, <2>3
<1>3. ASSUME NEW e \in Events, NEW i \in Ids, Coalesce(e, i) PROVE Counted' /\ SnapHeld'
  <2>1. Queued' = Queued /\ i \in Queued /\ claimedBy[i] = NoToken
    BY <1>3, SizesAssumption
    DEF Coalesce, IsTail, Unclaimed, ClaimInv, Counted, OnceInv, TypeOK, Queued
  <2>2. Counted'
    BY <1>3, <2>1 DEF Coalesce, ClaimInv, Counted
  <2>3. SnapHeld'
    BY <1>3, <2>1 DEF Coalesce, ClaimInv, SnapHeld, OnceInv, TypeOK, workers
  <2> QED BY <2>2, <2>3
<1>4. ASSUME NEW i \in Ids, CommitInsert(i) PROVE Counted' /\ SnapHeld'
  <2>1. Queued' = Queued \cup {i} /\ claimedBy[i] = NoToken
    BY <1>4 DEF CommitInsert, ClaimInv, OnceInv, FreshIds, TypeOK, Queued
  <2> QED BY <1>4, <2>1 DEF CommitInsert, ClaimInv, Counted, SnapHeld, workers
<1>5. ASSUME NEW i \in Ids, RollbackInsert(i) PROVE Counted' /\ SnapHeld'
  <2>1. Queued' = Queued
    BY <1>5 DEF RollbackInsert, ClaimInv, OnceInv, TypeOK, Queued
  <2> QED BY <1>5, <2>1 DEF RollbackInsert, ClaimInv, Counted, SnapHeld, workers
<1> QED BY <1>1, <1>2, <1>3, <1>4, <1>5 DEF Producer

LEMMA ClaimClaim ==
  ASSUME ClaimInv, NEW l \in Loops, Claim(l)
  PROVE  HasToken' /\ Counted' /\ SnapHeld'
<1>1. NewToken \in Tokens /\ (\A i \in Queued : claimedBy[i] # NewToken)
      /\ (\A m \in Loops : token[m] # NewToken)
  BY NewTokenFresh DEF Claim, FreshTokens
<1>2. Queued' = Queued /\ item' = item
  BY DEF Claim, Queued
<1>3. HasToken'
  BY <1>1, NamesAssumption DEF Claim, ClaimInv, HasToken, OnceInv, TypeOK
<1>4. Counted'
  <2> SUFFICES ASSUME NEW i \in Queued', claimedBy'[i] # NoToken
               PROVE  attempts'[i] > 0
    BY DEF Counted
  <2>1. i \in Ids /\ i \in Queued
    BY <1>2 DEF Queued
  <2>2. CASE i \in Pick(l)
    <3>1. attempts'[i] = Up(attempts[i])
      BY <2>1, <2>2 DEF Claim
    <3>2. attempts[i] \in 0 .. (MaxAttempts + 1)
      BY <2>1 DEF ClaimInv, OnceInv, TypeOK
    <3> QED BY <3>1, <3>2, UpType, SizesAssumption
  <2>3. CASE i \notin Pick(l)
    BY <2>1, <2>3 DEF Claim, ClaimInv, Counted
  <2> QED BY <2>2, <2>3
<1>5. SnapHeld'
  <2> SUFFICES ASSUME NEW m \in Loops, NEW e \in Events,
                      token'[m] # NoToken, item'[e] \in Queued',
                      claimedBy'[item'[e]] = token'[m]
               PROVE  e \in snap'[m]
    BY DEF SnapHeld
  <2>1. item[e] \in Ids /\ item[e] \in Queued
    BY <1>2 DEF Queued
  <2>2. CASE m = l
    <3>1. token'[l] = NewToken /\ snap'[l] = {f \in Events : item[f] \in Pick(l)}
      BY DEF Claim, ClaimInv, OnceInv, TypeOK
    <3>2. item[e] \in Pick(l)
      BY <1>1, <1>2, <2>1, <2>2, <3>1 DEF Claim
    <3> QED BY <2>2, <3>1, <3>2
  <2>3. CASE m # l
    <3>1. token'[m] = token[m] /\ snap'[m] = snap[m]
      BY <2>3 DEF Claim, ClaimInv, OnceInv, TypeOK
    <3>2. claimedBy'[item[e]] # NewToken
      BY <1>1, <1>2, <3>1
    <3>3. claimedBy'[item[e]] = claimedBy[item[e]]
      BY <2>1, <3>2 DEF Claim
    <3> QED BY <1>2, <2>1, <3>1, <3>3 DEF ClaimInv, SnapHeld
  <2> QED BY <2>2, <2>3
<1> QED BY <1>3, <1>4, <1>5

LEMMA ClaimLoopStep ==
  ASSUME ClaimInv, NEW l \in Loops, LoopStep(l)
  PROVE  HasToken' /\ Counted' /\ SnapHeld'
<1>t. OnceInv /\ TypeOK
  BY DEF ClaimInv, OnceInv
<1>1. ASSUME NEW i \in Ids, DropExhausted(l, i) PROVE HasToken' /\ Counted' /\ SnapHeld'
  BY <1>t, <1>1, DeadLetterLeaves, ClaimKept DEF DropExhausted
<1>2. CASE Commit(l)
  <2>1. Delete(Mine(l))
    BY <1>2 DEF Commit, Store
  <2>2. \A m \in Loops : pc[m] = "idle" => pc'[m] = "idle"
    BY <1>t, <1>2 DEF Commit, Store, TypeOK
  <2> QED BY <1>t, <1>2, <2>1, <2>2, DeleteLeaves, ClaimKept DEF Commit
<1>3. CASE DeadLetterRejected(l)
  <2>1. PICK i \in Ids : DeadLetter(l, i)
    BY <1>t, <1>3 DEF DeadLetterRejected, TypeOK
  <2>2. \A m \in Loops : pc[m] = "idle" => pc'[m] = "idle"
    BY <1>t, <1>3 DEF DeadLetterRejected, TypeOK
  <2> QED BY <1>t, <1>3, <2>1, <2>2, DeadLetterLeaves, ClaimKept DEF DeadLetterRejected
<1>4. CASE Fail(l)
  <2>1. PICK i \in Ids :
          IF LastAttempt(i)
          THEN DeadLetter(l, i)
          ELSE BackOff(l, i) /\ UNCHANGED <<dead, row, attempts>>
    BY <1>t, <1>4 DEF Fail, TypeOK
  <2>2. /\ Queued' \subseteq Queued
        /\ \A j \in Queued' : /\ claimedBy'[j] \in {claimedBy[j], NoToken}
                              /\ attempts'[j] = attempts[j]
    <3>1. CASE LastAttempt(i)
      BY <1>t, <2>1, <3>1, DeadLetterLeaves
    <3>2. CASE ~LastAttempt(i)
      BY <2>1, <3>2 DEF BackOff, Queued
    <3> QED BY <3>1, <3>2
  <2>3. \A m \in Loops : pc[m] = "idle" => pc'[m] = "idle"
    BY <1>t, <1>4 DEF Fail, TypeOK
  <2> QED BY <1>4, <2>2, <2>3, ClaimKept DEF Fail
<1>5. CASE Begin(l) \/ Abort(l) \/ Reject(l)
  <2>1. \A m \in Loops : pc[m] = "idle" => pc'[m] = "idle"
    BY <1>t, <1>5 DEF Begin, Abort, Reject, AfterError, TypeOK
  <2>2. Queued' = Queued
    BY <1>5 DEF Begin, Abort, Reject, Queued
  <2> QED BY <1>5, <2>1, <2>2, ClaimKept DEF Begin, Abort, Reject
<1>6. CASE RunEffects(l)
  <2>1. \A m \in Loops : pc[m] = "idle" => pc'[m] = "idle"
    BY <1>t, <1>6 DEF RunEffects, TypeOK
  <2> QED BY <1>6, <2>1, ClaimKept DEF RunEffects, tables, Queued
<1>7. CASE Finish(l)
  <2>1. \A m \in Loops : pc[m] = "idle" => pc'[m] = "idle"
    BY <1>t, <1>7 DEF Finish, LetGo, TypeOK
  <2>2. \A m \in Loops : \/ token'[m] = token[m] /\ snap'[m] = snap[m]
                         \/ token'[m] = NoToken /\ pc'[m] = "idle"
    BY <1>t, <1>7 DEF Finish, LetGo, TypeOK
  <2> QED BY <1>7, <2>1, <2>2, ClaimKept DEF Finish, tables, Queued
<1> QED BY <1>1, <1>2, <1>3, <1>4, <1>5, <1>6, <1>7, ClaimClaim DEF LoopStep

LEMMA ClaimStep == ClaimInv /\ [Next]_vars => ClaimInv'
<1> SUFFICES ASSUME ClaimInv, [Next]_vars PROVE ClaimInv'
  OBVIOUS
<1>1. OnceInv' /\ OnceInv /\ TypeOK
  BY OnceStep DEF ClaimInv, OnceInv
<1>2. CASE UNCHANGED vars
  BY <1>1, <1>2 DEF ClaimInv, HasToken, Counted, SnapHeld, Queued, vars, tables, workers
<1>3. CASE Clock
  BY <1>1, <1>3
  DEF Clock, Heartbeat, LeaseRunsOut, ComesDue, ClaimInv, HasToken, Counted, SnapHeld,
      Queued, workers
<1>4. ASSUME NEW l \in Loops, CommitUnanswered(l) PROVE ClaimInv'
  <2>1. Delete(Mine(l))
    BY <1>4 DEF CommitUnanswered, Store
  <2>2. \A m \in Loops : pc[m] = "idle" => pc'[m] = "idle"
    BY <1>1, <1>4 DEF CommitUnanswered, Store, AfterError, TypeOK
  <2> QED BY <1>1, <1>4, <2>1, <2>2, DeleteLeaves, ClaimKept DEF CommitUnanswered, ClaimInv
<1>5. ASSUME NEW l \in Loops, Crash(l) PROVE ClaimInv'
  <2>1. \A m \in Loops : pc[m] = "idle" => pc'[m] = "idle"
    BY <1>1, <1>5 DEF Crash, LetGo, TypeOK
  <2>2. \A m \in Loops : \/ token'[m] = token[m] /\ snap'[m] = snap[m]
                         \/ token'[m] = NoToken /\ pc'[m] = "idle"
    BY <1>1, <1>5 DEF Crash, LetGo, TypeOK
  <2> QED BY <1>1, <1>5, <2>1, <2>2, ClaimKept DEF Crash, Queued, ClaimInv
<1> QED BY <1>1, <1>2, <1>3, <1>4, <1>5, ClaimProducer, ClaimLoopStep
        DEF Next, Failure, ClaimInv

LEMMA ClaimInit == Init => ClaimInv
  BY OnceInit DEF Init, ClaimInv, HasToken, Counted, SnapHeld, Queued

\* Every row leaves the table with its events stored or as a dead letter.
LEMMA DeadLetterLoses ==
  ASSUME ClaimInv, NothingLost, NEW l \in Loops, NEW i \in Ids, DeadLetter(l, i),
         item' = item, storedEvents' = storedEvents
  PROVE  NothingLost'
<1> DEFINE S == {j \in {i} : Holds(l, j)}
<1>1. dead' = dead \cup S /\ Delete(S) /\ \A j \in S : row[j] = "queued"
  BY DEF DeadLetter, Holds, Queued
<1> HIDE DEF S
<1> SUFFICES ASSUME NEW e \in Committed'
             PROVE  item[e] \in Queued' \/ e \in storedEvents \/ item[e] \in dead'
  BY DEF NothingLost
<1>2. e \in Events /\ item[e] \in Ids /\ row'[item[e]] \in {"queued", "gone"}
  BY DEF Committed, ClaimInv, OnceInv, TypeOK
<1>3. CASE item[e] \in S
  BY <1>1, <1>3
<1>4. CASE item[e] \notin S
  <2>1. row'[item[e]] = row[item[e]]
    BY <1>1, <1>2, <1>4 DEF Delete
  <2>2. e \in Committed
    BY <1>2, <2>1 DEF Committed, Ids
  <2> QED BY <1>1, <1>2, <2>1, <2>2 DEF NothingLost, Queued
<1> QED BY <1>3, <1>4

\* What a worker deletes it was handed in full.
LEMMA StoreLoses ==
  ASSUME ClaimInv, NothingLost, NEW l \in Loops, Store(l), item' = item, dead' = dead
  PROVE  NothingLost'
<1>1. Mine(l) \subseteq Queued /\ token[l] # NoToken
      /\ \A i \in Mine(l) : claimedBy[i] = token[l]
  BY DEF Mine, Holds, Store, ClaimInv, HasToken
<1> SUFFICES ASSUME NEW e \in Committed'
             PROVE  item[e] \in Queued' \/ e \in storedEvents' \/ item[e] \in dead
  BY DEF NothingLost
<1>2. e \in Events /\ item[e] \in Ids /\ row'[item[e]] \in {"queued", "gone"}
  BY DEF Committed, ClaimInv, OnceInv, TypeOK
<1>3. CASE item[e] \in Mine(l)
  <2>1. e \in snap[l]
    BY <1>1, <1>2, <1>3 DEF ClaimInv, SnapHeld
  <2> QED BY <1>3, <2>1 DEF Store
<1>4. CASE item[e] \notin Mine(l)
  <2>1. row'[item[e]] = row[item[e]] /\ storedEvents \subseteq storedEvents'
    BY <1>2, <1>4 DEF Store, Delete
  <2>2. e \in Committed
    BY <1>2, <2>1 DEF Committed, Ids
  <2> QED BY <1>2, <2>1, <2>2 DEF NothingLost, Queued
<1> QED BY <1>3, <1>4

LEMMA LosesProducer ==
  ASSUME ClaimInv, NothingLost, Producer
  PROVE  NothingLost'
<1>1. ASSUME NEW e \in Events, Insert(e) PROVE NothingLost'
  <2> SUFFICES ASSUME NEW f \in Committed'
               PROVE  item'[f] \in Queued' \/ f \in storedEvents' \/ item'[f] \in dead'
    BY DEF NothingLost
  <2>1. nextId \in Ids /\ row[nextId] = "none"
    BY <1>1 DEF Insert, ClaimInv, OnceInv, FreshIds, TypeOK, Ids
  <2>2. f \in Events /\ item'[f] # 0 /\ row'[item'[f]] \in {"queued", "gone"}
    BY DEF Committed
  <2>3. row'[nextId] = "inserting"
    BY <1>1, <2>1 DEF Insert, ClaimInv, OnceInv, TypeOK
  <2>4. f # e /\ item'[f] = item[f] /\ item[f] # nextId
    BY <1>1, <2>2, <2>3 DEF Insert, ClaimInv, OnceInv, TypeOK
  <2>5. row'[item[f]] = row[item[f]]
    BY <1>1, <2>2, <2>4 DEF Insert, ClaimInv, OnceInv, TypeOK
  <2>6. f \in Committed
    BY <2>2, <2>4, <2>5 DEF Committed
  <2> QED BY <1>1, <2>4, <2>5, <2>6 DEF Insert, NothingLost, Queued
<1>2. ASSUME NEW e \in Events, NEW i \in Ids, Coalesce(e, i) PROVE NothingLost'
  BY <1>2 DEF Coalesce, IsTail, NothingLost, Committed, Queued, ClaimInv, OnceInv, TypeOK
<1>3. ASSUME NEW i \in Ids, CommitInsert(i) \/ RollbackInsert(i) PROVE NothingLost'
  BY <1>3
  DEF CommitInsert, RollbackInsert, NothingLost, Committed, Queued, ClaimInv, OnceInv, TypeOK
<1> QED BY <1>1, <1>2, <1>3 DEF Producer

LEMMA LosesStep == ClaimInv /\ NothingLost /\ [Next]_vars => NothingLost'
<1> SUFFICES ASSUME ClaimInv, NothingLost, [Next]_vars PROVE NothingLost'
  OBVIOUS
<1>t. TypeOK
  BY DEF ClaimInv, OnceInv
<1>1. CASE UNCHANGED <<row, item, storedEvents, dead>>
  BY <1>1 DEF NothingLost, Committed, Queued
<1>2. ASSUME NEW l \in Loops, NEW i \in Ids, DropExhausted(l, i) PROVE NothingLost'
  BY <1>2, DeadLetterLoses DEF DropExhausted
<1>3. ASSUME NEW l \in Loops, Commit(l) \/ CommitUnanswered(l) PROVE NothingLost'
  BY <1>3, StoreLoses DEF Commit, CommitUnanswered
<1>4. ASSUME NEW l \in Loops, DeadLetterRejected(l) PROVE NothingLost'
  BY <1>t, <1>4, DeadLetterLoses DEF DeadLetterRejected, TypeOK
<1>5. ASSUME NEW l \in Loops, Fail(l) PROVE NothingLost'
  <2>1. PICK i \in Ids :
          IF LastAttempt(i)
          THEN DeadLetter(l, i)
          ELSE BackOff(l, i) /\ UNCHANGED <<dead, row, attempts>>
    BY <1>t, <1>5 DEF Fail, TypeOK
  <2> QED BY <1>1, <1>5, <2>1, DeadLetterLoses DEF Fail
<1>6. ASSUME NEW l \in Loops,
             \/ Claim(l) \/ Begin(l) \/ Abort(l) \/ Reject(l)
             \/ RunEffects(l) \/ Finish(l) \/ Crash(l)
      PROVE  NothingLost'
  BY <1>1, <1>6 DEF Claim, Begin, Abort, Reject, RunEffects, Finish, Crash, tables
<1>7. CASE Clock
  BY <1>1, <1>7 DEF Clock, Heartbeat, LeaseRunsOut, ComesDue
<1>8. CASE UNCHANGED vars
  BY <1>1, <1>8 DEF vars, tables
<1> QED BY <1>2, <1>3, <1>4, <1>5, <1>6, <1>7, <1>8, LosesProducer
        DEF Next, LoopStep, Failure

LEMMA ClaimInvariant == Spec => [](ClaimInv /\ NothingLost)
<1>1. Init => ClaimInv /\ NothingLost
  BY ClaimInit DEF Init, NothingLost, Committed
<1>2. ClaimInv /\ NothingLost /\ [Next]_vars => (ClaimInv /\ NothingLost)'
  BY ClaimStep, LosesStep
<1> QED BY <1>1, <1>2, PTL DEF Spec

\* Nothing accepted is ever lost: it is queued, or it was part of the payload a
\* worker stored, or it can be read in the dead letters.  The coalescing UPDATE
\* keeps to it because it leaves alone every row a claim has counted.
THEOREM NothingIsLost == Spec => []NothingLost
  BY ClaimInvariant, PTL

-----------------------------------------------------------------------------
(* Only the claim that holds a row takes it out of the table.                *)

\* deadLetter() and failed() touch only a row whose claim is still the loop's.
LEMMA DeadLetterByHolder ==
  ASSUME NEW l \in Loops, NEW i \in Ids, DeadLetter(l, i),
         NEW j \in Queued, LetsGoOf(j), claimedBy[j] # NoToken
  PROVE  token[l] = claimedBy[j] /\ j = i
<1> DEFINE S == {k \in {i} : Holds(l, k)}
<1>1. Delete(S) /\ \A k \in S : k = i /\ claimedBy[k] = token[l]
  BY DEF DeadLetter, Holds
<1> HIDE DEF S
<1>2. j \in S
  BY <1>1 DEF Delete, LetsGoOf, Queued
<1> QED BY <1>1, <1>2

LEMMA StoreByHolder ==
  ASSUME NEW l \in Loops, Store(l),
         NEW j \in Queued, LetsGoOf(j), claimedBy[j] # NoToken
  PROVE  token[l] = claimedBy[j]
<1>1. j \in Mine(l)
  BY DEF Store, Delete, LetsGoOf, Queued
<1> QED BY <1>1 DEF Mine, Holds

LEMMA HolderStep ==
  ASSUME ClaimInv, [Next]_vars,
         NEW j \in Queued, claimedBy[j] # NoToken, LetsGoOf(j)
  PROVE  \E l \in Loops : token[l] = claimedBy[j] /\ Steps(l)
<1>t. TypeOK /\ j \in Ids
  BY DEF ClaimInv, OnceInv, Queued
<1>1. ASSUME NEW l \in Loops, NEW i \in Ids, DropExhausted(l, i)
      PROVE  token[l] = claimedBy[j] /\ Steps(l)
  BY <1>t, <1>1, DeadLetterByHolder DEF DropExhausted, Steps, TypeOK
<1>2. ASSUME NEW l \in Loops, Commit(l) PROVE token[l] = claimedBy[j] /\ Steps(l)
  BY <1>t, <1>2, StoreByHolder DEF Commit, Store, Steps, TypeOK
<1>3. ASSUME NEW l \in Loops, CommitUnanswered(l)
      PROVE  token[l] = claimedBy[j] /\ Steps(l)
  <2>1. Steps(l)
    BY <1>t, <1>3 DEF CommitUnanswered, Store, AfterError, Steps, TypeOK
  <2> QED BY <1>3, <2>1, StoreByHolder DEF CommitUnanswered
<1>4. ASSUME NEW l \in Loops, DeadLetterRejected(l)
      PROVE  token[l] = claimedBy[j] /\ Steps(l)
  BY <1>t, <1>4, DeadLetterByHolder DEF DeadLetterRejected, Steps, TypeOK
<1>5. ASSUME NEW l \in Loops, Fail(l) PROVE token[l] = claimedBy[j] /\ Steps(l)
  <2>1. PICK i \in Ids :
          IF LastAttempt(i)
          THEN DeadLetter(l, i)
          ELSE BackOff(l, i) /\ UNCHANGED <<dead, row, attempts>>
    BY <1>t, <1>5 DEF Fail, TypeOK
  <2>2. Steps(l)
    BY <1>t, <1>5 DEF Fail, Steps, TypeOK
  <2>3. CASE LastAttempt(i)
    BY <2>1, <2>2, <2>3, DeadLetterByHolder
  <2>4. CASE ~LastAttempt(i)
    BY <1>t, <2>1, <2>2, <2>4 DEF BackOff, Holds, LetsGoOf, Queued
  <2> QED BY <2>3, <2>4
<1>6. ASSUME NEW l \in Loops, Claim(l) PROVE FALSE
  <2>1. NewToken # NoToken
    BY <1>6, NewTokenFresh, NamesAssumption DEF Claim, FreshTokens
  <2> QED BY <1>t, <1>6, <2>1 DEF Claim, LetsGoOf, Queued
<1>7. ASSUME NEW e \in Events, Insert(e) PROVE FALSE
  <2>1. row[nextId] = "none"
    BY <1>7 DEF Insert, ClaimInv, OnceInv, FreshIds, TypeOK, Ids
  <2> QED BY <1>t, <1>7, <2>1 DEF Insert, LetsGoOf, Queued, TypeOK
<1>8. ASSUME NEW i \in Ids, CommitInsert(i) \/ RollbackInsert(i) PROVE FALSE
  BY <1>t, <1>8 DEF CommitInsert, RollbackInsert, LetsGoOf, Queued, TypeOK
<1>9. CASE UNCHANGED <<row, claimedBy>>
  BY <1>t, <1>9 DEF LetsGoOf, Queued
<1>10. ASSUME NEW l \in Loops,
              Begin(l) \/ Abort(l) \/ Reject(l) \/ RunEffects(l) \/ Finish(l) \/ Crash(l)
       PROVE  UNCHANGED <<row, claimedBy>>
  BY <1>10 DEF Begin, Abort, Reject, RunEffects, Finish, Crash, tables
<1>11. ASSUME NEW e \in Events, NEW i \in Ids, Coalesce(e, i)
       PROVE  UNCHANGED <<row, claimedBy>>
  BY <1>11 DEF Coalesce
<1>12. ASSUME Clock PROVE UNCHANGED <<row, claimedBy>>
  BY <1>12 DEF Clock, Heartbeat, LeaseRunsOut, ComesDue
<1>13. CASE UNCHANGED vars
  BY <1>9, <1>13 DEF vars, tables
<1> QED BY <1>1, <1>2, <1>3, <1>4, <1>5, <1>6, <1>7, <1>8, <1>9, <1>10, <1>11, <1>12, <1>13
        DEF Next, Producer, LoopStep, Failure

\* A claimed row is finished, failed or dead-lettered by a step of the loop
\* whose claim it is; a loop that stalled past its lease changes nothing any
\* more (the claimed_by checks of processOne, processGroup, failed, deadLetter).
THEOREM HolderSettles == Spec => OnlyTheHolderSettles
<1>1. ClaimInv /\ [Next]_vars =>
        [\A i \in Queued :
           claimedBy[i] # NoToken /\ LetsGoOf(i)
             => \E l \in Loops : token[l] = claimedBy[i] /\ Steps(l)]_vars
  BY HolderStep
<1> QED BY <1>1, ClaimInvariant, PTL DEF Spec, OnlyTheHolderSettles

-----------------------------------------------------------------------------
(* Effects after the commit, once.                                           *)

\* Rows whose effects are still to run are stored, unpublished and one loop's.
Pending ==
  \A l \in Loops : pc[l] = "effects" =>
    \A i \in cur[l] :
      /\ row[i] = "gone"
      /\ published[i] < stored[i]
      /\ \A m \in Loops : m # l /\ pc[m] = "effects" => i \notin cur[m]

EffectsInv == OnceInv /\ PublishedAfterCommit /\ Pending

LEMMA EffectsCommit ==
  ASSUME EffectsInv, NEW l \in Loops, Commit(l)
  PROVE  PublishedAfterCommit' /\ Pending'
<1>t. TypeOK
  BY DEF EffectsInv, OnceInv
<1>1. \A i \in Mine(l) : i \in Ids /\ row[i] = "queued"
  BY DEF Mine, Holds, Queued
<1>2. \A i \in Mine(l) : published[i] = 0 /\ stored[i] = 0
  <2> SUFFICES ASSUME NEW i \in Mine(l) PROVE published[i] = 0 /\ stored[i] = 0
    OBVIOUS
  <2>1. i \in Ids /\ stored[i] \in Nat /\ published[i] \in Nat /\ published[i] <= stored[i]
    BY <1>1, <1>t DEF EffectsInv, PublishedAfterCommit, TypeOK
  <2>2. stored[i] + (IF i \in dead THEN 1 ELSE 0) = 0
    BY <1>1 DEF EffectsInv, OnceInv, ExactlyOnce
  <2> QED BY <2>1, <2>2
<1>3. \A i \in Ids : stored'[i] = IF i \in Mine(l) THEN stored[i] + 1 ELSE stored[i]
  BY <1>2, <1>t DEF Commit, Store, TypeOK
<1>4. \A i \in Ids : row'[i] = IF i \in Mine(l) THEN "gone" ELSE row[i]
  BY DEF Commit, Store, Delete
<1>5. PublishedAfterCommit'
  <2> SUFFICES ASSUME NEW i \in Ids PROVE published[i] <= stored'[i]
    BY DEF PublishedAfterCommit, Commit
  <2> QED BY <1>3, <1>t DEF EffectsInv, PublishedAfterCommit, TypeOK
<1>6. Pending'
  <2> SUFFICES ASSUME NEW m \in Loops, pc'[m] = "effects", NEW i \in cur'[m]
               PROVE  /\ row'[i] = "gone"
                      /\ published'[i] < stored'[i]
                      /\ \A k \in Loops : k # m /\ pc'[k] = "effects" => i \notin cur'[k]
    BY DEF Pending
  <2>1. published' = published /\ cur' = [cur EXCEPT ![l] = Mine(l)]
        /\ pc' = [pc EXCEPT ![l] = "effects"]
    BY DEF Commit
  <2>2. \A k \in Loops : k # l => cur'[k] = cur[k] /\ pc'[k] = pc[k]
    BY <2>1, <1>t DEF TypeOK
  <2>3. \A k \in Loops : \A j \in cur[k] : k # l /\ pc[k] = "effects" => j \notin Mine(l)
    BY <1>1 DEF EffectsInv, Pending
  <2>4. CASE m = l
    <3>1. i \in Mine(l) /\ i \in Ids
      BY <2>1, <2>4, <1>1, <1>t DEF TypeOK
    <3> QED BY <1>2, <1>3, <1>4, <2>1, <2>2, <2>3, <2>4, <3>1
  <2>5. CASE m # l
    <3>1. i \in cur[m] /\ i \in Ids /\ i \notin Mine(l) /\ pc[m] = "effects"
      BY <2>2, <2>3, <2>5, <1>t DEF TypeOK
    <3>2. cur'[l] = Mine(l)
      BY <2>1, <1>t DEF TypeOK
    <3> QED BY <1>3, <1>4, <2>1, <2>2, <2>5, <3>1, <3>2 DEF EffectsInv, Pending
  <2> QED BY <2>4, <2>5
<1> QED BY <1>5, <1>6

LEMMA EffectsRun ==
  ASSUME EffectsInv, NEW l \in Loops, RunEffects(l)
  PROVE  PublishedAfterCommit' /\ Pending'
<1>t. TypeOK
  BY DEF EffectsInv, OnceInv
<1>1. \A i \in Ids : published'[i] = IF i \in cur[l] THEN published[i] + 1 ELSE published[i]
  BY DEF RunEffects
<1>2. UNCHANGED <<row, stored>>
  BY DEF RunEffects, tables
<1>3. \A i \in cur[l] : i \in Ids /\ published[i] < stored[i]
  BY <1>t DEF RunEffects, EffectsInv, Pending, TypeOK
<1>4. PublishedAfterCommit'
  <2> SUFFICES ASSUME NEW i \in Ids PROVE published'[i] <= stored[i]
    BY <1>2 DEF PublishedAfterCommit
  <2>1. published[i] \in Nat /\ stored[i] \in Nat /\ published[i] <= stored[i]
    BY <1>t DEF EffectsInv, PublishedAfterCommit, TypeOK
  <2> QED BY <1>1, <1>3, <2>1
<1>5. Pending'
  <2>1. \A m \in Loops : IF m = l THEN pc'[m] = "work"
                         ELSE pc'[m] = pc[m] /\ cur'[m] = cur[m]
    BY <1>t DEF RunEffects, TypeOK
  <2> SUFFICES ASSUME NEW m \in Loops, m # l, pc[m] = "effects", NEW i \in cur[m]
               PROVE  /\ row[i] = "gone"
                      /\ published'[i] < stored[i]
                      /\ \A k \in Loops : k # m /\ k # l /\ pc[k] = "effects" => i \notin cur[k]
    BY <1>2, <2>1 DEF Pending
  <2>2. i \in Ids /\ i \notin cur[l]
    BY <1>t DEF RunEffects, EffectsInv, Pending, TypeOK
  <2>3. published'[i] = published[i]
    BY <1>1, <2>2
  <2> QED BY <2>3 DEF EffectsInv, Pending
<1> QED BY <1>4, <1>5

\* A step that starts no effects and undoes no store.
LEMMA EffectsKept ==
  ASSUME EffectsInv, TypeOK',
         published' = published,
         \A i \in Ids : stored'[i] >= stored[i],
         \A i \in Ids : row[i] = "gone" => row'[i] = "gone",
         \A l \in Loops : pc'[l] = "effects" => pc[l] = "effects" /\ cur'[l] = cur[l]
  PROVE  PublishedAfterCommit' /\ Pending'
<1>t. TypeOK
  BY DEF EffectsInv, OnceInv
<1>1. \A i \in Ids : published[i] \in Nat /\ stored[i] \in Nat /\ stored'[i] \in Nat
  BY <1>t DEF TypeOK
<1>2. PublishedAfterCommit'
  BY <1>1 DEF EffectsInv, PublishedAfterCommit
<1>3. \A l \in Loops : cur[l] \subseteq Ids
  BY <1>t DEF TypeOK
<1>4. Pending'
  <2> SUFFICES ASSUME NEW l \in Loops, pc'[l] = "effects", NEW i \in cur'[l]
               PROVE  /\ row'[i] = "gone"
                      /\ published'[i] < stored'[i]
                      /\ \A m \in Loops : m # l /\ pc'[m] = "effects" => i \notin cur'[m]
    BY DEF Pending
  <2>1. pc[l] = "effects" /\ i \in cur[l] /\ i \in Ids
    BY <1>3
  <2>2. row[i] = "gone" /\ published[i] < stored[i]
    BY <2>1 DEF EffectsInv, Pending
  <2>3. row'[i] = "gone" /\ published'[i] < stored'[i]
    BY <1>1, <2>1, <2>2
  <2>4. \A m \in Loops : m # l /\ pc'[m] = "effects" => i \notin cur'[m]
    BY <2>1 DEF EffectsInv, Pending
  <2> QED BY <2>3, <2>4
<1> QED BY <1>2, <1>4

LEMMA StoreGrows ==
  ASSUME TypeOK, NEW l \in Loops, Store(l)
  PROVE  /\ \A i \in Ids : stored'[i] >= stored[i]
         /\ \A i \in Ids : row[i] = "gone" => row'[i] = "gone"
<1>1. \A i \in Ids : stored[i] \in Nat
  BY DEF TypeOK
<1> QED BY <1>1 DEF Store, Delete

LEMMA EffectsStep == EffectsInv /\ [Next]_vars => EffectsInv'
<1> SUFFICES ASSUME EffectsInv, [Next]_vars PROVE EffectsInv'
  OBVIOUS
<1>t. TypeOK /\ TypeOK' /\ OnceInv /\ OnceInv'
  BY OnceStep DEF EffectsInv, OnceInv
<1>n. \A i \in Ids : stored[i] \in Nat
  BY <1>t DEF TypeOK
<1>1. ASSUME NEW l \in Loops, Commit(l) \/ RunEffects(l) PROVE EffectsInv'
  BY <1>t, <1>1, EffectsCommit, EffectsRun DEF EffectsInv
<1>2. ASSUME NEW l \in Loops, CommitUnanswered(l) PROVE EffectsInv'
  <2>1. \A m \in Loops : pc'[m] = "effects" => pc[m] = "effects" /\ cur'[m] = cur[m]
    BY <1>t, <1>2 DEF CommitUnanswered, AfterError, TypeOK
  <2> QED BY <1>t, <1>2, <2>1, StoreGrows, EffectsKept DEF CommitUnanswered, EffectsInv
<1>3. ASSUME NEW l \in Loops, Begin(l) \/ Abort(l) \/ Reject(l) PROVE EffectsInv'
  <2>1. \A m \in Loops : pc'[m] = "effects" => pc[m] = "effects" /\ cur'[m] = cur[m]
    BY <1>t, <1>3 DEF Begin, Abort, Reject, AfterError, TypeOK
  <2> QED BY <1>t, <1>n, <1>3, <2>1, EffectsKept DEF Begin, Abort, Reject, EffectsInv
<1>4. ASSUME NEW l \in Loops, Claim(l) \/ Finish(l) \/ Crash(l) PROVE EffectsInv'
  <2>1. \A m \in Loops : pc'[m] = "effects" => pc[m] = "effects" /\ cur'[m] = cur[m]
    BY <1>t, <1>4 DEF Claim, Finish, Crash, LetGo, TypeOK
  <2>2. UNCHANGED <<published, stored, row>>
    BY <1>4 DEF Claim, Finish, Crash, tables
  <2> QED BY <1>t, <1>n, <2>1, <2>2, EffectsKept DEF EffectsInv
<1>5. ASSUME NEW l \in Loops, NEW i \in Ids, DropExhausted(l, i) PROVE EffectsInv'
  <2>1. \A j \in Ids : row[j] = "gone" => row'[j] = "gone"
    BY <1>5 DEF DropExhausted, DeadLetter, Delete
  <2> QED BY <1>t, <1>n, <1>5, <2>1, EffectsKept DEF DropExhausted, EffectsInv
<1>6. ASSUME NEW l \in Loops, DeadLetterRejected(l) \/ Fail(l) PROVE EffectsInv'
  <2>1. \A j \in Ids : row[j] = "gone" => row'[j] = "gone"
    BY <1>6 DEF DeadLetterRejected, Fail, DeadLetter, Delete
  <2>2. \A m \in Loops : pc'[m] = "effects" => pc[m] = "effects" /\ cur'[m] = cur[m]
    BY <1>t, <1>6 DEF DeadLetterRejected, Fail, TypeOK
  <2> QED BY <1>t, <1>n, <1>6, <2>1, <2>2, EffectsKept DEF DeadLetterRejected, Fail, EffectsInv
<1>7. CASE Producer
  <2>1. \A j \in Ids : row[j] = "gone" => row'[j] = "gone"
    BY <1>t, <1>7 DEF Producer, Insert, Coalesce, CommitInsert, RollbackInsert, TypeOK,
                      OnceInv, FreshIds, Ids
  <2>2. UNCHANGED <<published, stored, pc, cur>>
    BY <1>7 DEF Producer, Insert, Coalesce, CommitInsert, RollbackInsert, workers
  <2> QED BY <1>t, <1>n, <2>1, <2>2, EffectsKept DEF EffectsInv
<1>8. CASE Clock \/ UNCHANGED vars
  <2>1. UNCHANGED <<published, stored, row, pc, cur>>
    BY <1>8 DEF Clock, Heartbeat, LeaseRunsOut, ComesDue, vars, tables, workers
  <2> QED BY <1>t, <1>n, <2>1, EffectsKept DEF EffectsInv
<1> QED BY <1>1, <1>2, <1>3, <1>4, <1>5, <1>6, <1>7, <1>8 DEF Next, LoopStep, Failure

\* Bus publishes and cache drops run for committed work only, at most once per
\* row, however often the row was claimed (runEffects after pool.tx).
THEOREM EffectsFollowCommit == Spec => []PublishedAfterCommit
<1>1. Init => EffectsInv
  BY OnceInit, SizesAssumption DEF Init, EffectsInv, PublishedAfterCommit, Pending
<1> QED BY <1>1, EffectsStep, PTL DEF Spec, EffectsInv

-----------------------------------------------------------------------------
(* Order within a tag.  What an event was accepted after stays at or before  *)
(* it in the table; the head rule then keeps workers off the event's row.    *)

\* The events accepted before e arrived are rows of the table, or were.
BeforeCommitted ==
  \A e \in Events : \A p \in before[e] : p \in Committed /\ item[e] # 0

\* Ids follow the order of arrival within a tag.
BeforeOlder ==
  \A e \in Events : \A p \in before[e] :
    SameTag(p, e) /\ item[p] \in Queued => item[p] <= item[e]

\* While p waits, nobody has claimed the later row of its tag.
HeldBack ==
  \A e \in Events : \A p \in before[e] :
    SameTag(p, e) /\ item[p] \in Queued /\ item[p] # item[e]
      => row[item[e]] \in {"inserting", "queued", "rolledback"} /\ attempts[item[e]] = 0

OrderInv == ClaimInv /\ BeforeCommitted /\ BeforeOlder /\ HeldBack

LEMMA OrderHeld == OrderInv => HeldBackByTag
<1> SUFFICES ASSUME OrderInv, NEW e \in Committed, NEW p \in before[e],
                    SameTag(p, e), item[p] \in Queued, item[p] # item[e]
             PROVE  item[e] \in Queued /\ attempts[item[e]] = 0
  BY DEF HeldBackByTag
<1>1. e \in Events /\ row[item[e]] \in {"queued", "gone"} /\ item[e] \in Ids
  BY DEF Committed, OrderInv, ClaimInv, OnceInv, TypeOK
<1> QED BY <1>1 DEF OrderInv, HeldBack, Queued

\* A row a worker may delete is not one that is held back.
LEMMA HeldNotClaimed ==
  ASSUME OrderInv, NEW l \in Loops, pc[l] # "idle", NEW i \in Ids, Holds(l, i)
  PROVE  \A e \in Events : \A p \in before[e] :
           item[e] = i /\ SameTag(p, e) /\ item[p] \in Queued => item[p] = i
<1>1. i \in Queued /\ claimedBy[i] # NoToken
  BY DEF Holds, OrderInv, ClaimInv, HasToken
<1>2. attempts[i] > 0
  BY <1>1 DEF OrderInv, ClaimInv, Counted
<1> QED BY <1>2 DEF OrderInv, HeldBack

\* Rows only leave the table, and what stays keeps its count.
LEMMA OrderKept ==
  ASSUME OrderInv, item' = item, before' = before,
         \A i \in Ids : row[i] \in {"queued", "gone"} => row'[i] \in {"queued", "gone"},
         Queued' \subseteq Queued,
         \A e \in Events : \A p \in before[e] :
           SameTag(p, e) /\ item[p] \in Queued' /\ item[p] # item[e]
             => row'[item[e]] = row[item[e]] /\ attempts'[item[e]] = attempts[item[e]]
  PROVE  BeforeCommitted' /\ BeforeOlder' /\ HeldBack'
<1>t. item \in [Events -> {0} \cup Ids]
  BY DEF OrderInv, ClaimInv, OnceInv, TypeOK
<1>1. BeforeCommitted'
  BY <1>t DEF OrderInv, BeforeCommitted, Committed
<1>2. BeforeOlder'
  BY DEF OrderInv, BeforeOlder
<1>3. HeldBack'
  BY DEF OrderInv, HeldBack
<1> QED BY <1>1, <1>2, <1>3

LEMMA OrderDelete ==
  ASSUME OrderInv, item' = item, before' = before,
         NEW l \in Loops, pc[l] # "idle",
         NEW S, S \subseteq {i \in Ids : Holds(l, i)}, Delete(S)
  PROVE  BeforeCommitted' /\ BeforeOlder' /\ HeldBack'
<1>1. Queued' \subseteq Queued /\ Queued' \cap S = {}
  BY DEF Delete, Queued
<1>2. ASSUME NEW e \in Events, NEW p \in before[e],
             SameTag(p, e), item[p] \in Queued', item[p] # item[e]
      PROVE  row'[item[e]] = row[item[e]] /\ attempts'[item[e]] = attempts[item[e]]
  <2>1. item[e] \in Ids
    BY DEF OrderInv, BeforeCommitted, ClaimInv, OnceInv, TypeOK
  <2>2. item[e] \notin S
    BY <1>1, <1>2, <2>1, HeldNotClaimed
  <2> QED BY <2>1, <2>2 DEF Delete
<1> QED BY <1>1, <1>2, OrderKept DEF Delete

LEMMA OrderDeadLetter ==
  ASSUME OrderInv, item' = item, before' = before,
         NEW l \in Loops, pc[l] # "idle", NEW i \in Ids, DeadLetter(l, i)
  PROVE  BeforeCommitted' /\ BeforeOlder' /\ HeldBack'
<1> DEFINE S == {j \in {i} : Holds(l, j)}
<1>1. Delete(S) /\ S \subseteq {j \in Ids : Holds(l, j)}
  BY DEF DeadLetter
<1> HIDE DEF S
<1> QED BY <1>1, OrderDelete

LEMMA OrderInsert ==
  ASSUME OrderInv, NEW e \in Events, Insert(e)
  PROVE  BeforeCommitted' /\ BeforeOlder' /\ HeldBack'
<1>t. TypeOK
  BY DEF OrderInv, ClaimInv, OnceInv
<1>1. nextId \in Ids /\ row[nextId] = "none" /\ attempts[nextId] = 0
  BY <1>t DEF Insert, OrderInv, ClaimInv, OnceInv, FreshIds, TypeOK, Ids
<1>2. Queued' = Queued /\ \A i \in Ids : i # nextId => row'[i] = row[i]
  BY <1>t, <1>1 DEF Insert, TypeOK, Queued
<1>3. \A f \in Events : IF f = e THEN item'[f] = nextId /\ before'[f] = Committed
                        ELSE item'[f] = item[f] /\ before'[f] = before[f]
  BY <1>t DEF Insert, TypeOK
<1>4. \A f \in Committed : f # e /\ item[f] \in Ids /\ item[f] < nextId
  <2> SUFFICES ASSUME NEW f \in Committed PROVE f # e /\ item[f] \in Ids /\ item[f] < nextId
    OBVIOUS
  <2>1. f \in Events /\ item[f] \in Ids /\ row[item[f]] \in {"queued", "gone"}
    BY <1>t DEF Committed, TypeOK
  <2>2. f # e
    BY <2>1 DEF Insert, NextToSend, Ids
  <2>3. ~(item[f] >= nextId)
    BY <2>1 DEF OrderInv, ClaimInv, OnceInv, FreshIds
  <2> QED BY <1>1, <2>1, <2>2, <2>3 DEF Ids
<1>5. Committed \subseteq Committed'
  <2>1. \A f \in Committed : item[f] # nextId /\ item'[f] = item[f]
    BY <1>1, <1>3, <1>4 DEF Committed, Ids
  <2> QED BY <1>2, <1>4, <2>1 DEF Committed
<1>6. BeforeCommitted'
  <2> SUFFICES ASSUME NEW f \in Events, NEW p \in before'[f]
               PROVE  p \in Committed' /\ item'[f] # 0
    BY DEF BeforeCommitted
  <2>1. CASE f = e
    BY <1>1, <1>3, <1>5, <2>1 DEF Ids
  <2>2. CASE f # e
    BY <1>3, <1>5, <2>2 DEF OrderInv, BeforeCommitted
  <2> QED BY <2>1, <2>2
<1>7. \A f \in Events : \A p \in before'[f] : p \in Committed /\ item'[p] = item[p]
  <2> SUFFICES ASSUME NEW f \in Events, NEW p \in before'[f] PROVE p \in Committed
    BY <1>3, <1>4 DEF Committed
  <2> QED BY <1>3 DEF OrderInv, BeforeCommitted
<1>8. BeforeOlder'
  <2> SUFFICES ASSUME NEW f \in Events, NEW p \in before'[f],
                      SameTag(p, f), item[p] \in Queued
               PROVE  item[p] <= item'[f]
    BY <1>2, <1>7 DEF BeforeOlder
  <2>1. CASE f = e
    BY <1>1, <1>3, <1>4, <1>7, <2>1 DEF Ids
  <2>2. CASE f # e
    BY <1>3, <2>2 DEF OrderInv, BeforeOlder
  <2> QED BY <2>1, <2>2
<1>9. HeldBack'
  <2> SUFFICES ASSUME NEW f \in Events, NEW p \in before'[f],
                      SameTag(p, f), item[p] \in Queued, item[p] # item'[f]
               PROVE  row'[item'[f]] \in {"inserting", "queued", "rolledback"}
                      /\ attempts[item'[f]] = 0
    BY <1>2, <1>7 DEF HeldBack, Insert
  <2>1. CASE f = e
    BY <1>t, <1>1, <1>3, <2>1 DEF Insert, TypeOK
  <2>2. CASE f # e
    <3>1. item[f] \in Ids /\ row[item[f]] \in {"inserting", "queued", "rolledback"}
          /\ attempts[item[f]] = 0
      BY <1>t, <1>3, <2>2 DEF OrderInv, HeldBack, BeforeCommitted, TypeOK
    <3> QED BY <1>1, <1>2, <1>3, <2>2, <3>1
  <2> QED BY <2>1, <2>2
<1> QED BY <1>6, <1>8, <1>9

LEMMA OrderCoalesce ==
  ASSUME OrderInv, NEW e \in Events, NEW i \in Ids, Coalesce(e, i)
  PROVE  BeforeCommitted' /\ BeforeOlder' /\ HeldBack'
<1>t. TypeOK
  BY DEF OrderInv, ClaimInv, OnceInv
<1>1. i \in Queued /\ row[i] = "queued" /\ attempts[i] = 0 /\ item[e] = 0 /\ i # 0
  BY DEF Coalesce, IsTail, Unclaimed, NextToSend, Queued, Ids
<1>2. Queued' = Queued /\ UNCHANGED <<row, attempts>>
  BY DEF Coalesce, Queued
<1>3. \A f \in Events : IF f = e THEN item'[f] = i /\ before'[f] = Committed
                        ELSE item'[f] = item[f] /\ before'[f] = before[f]
  BY <1>t DEF Coalesce, TypeOK
<1>4. e \notin Committed
  BY <1>1 DEF Committed
<1>5. Committed \subseteq Committed'
  BY <1>2, <1>3, <1>4 DEF Committed
<1>6. BeforeCommitted'
  BY <1>1, <1>3, <1>5 DEF OrderInv, BeforeCommitted
<1>7. \A f \in Events : \A p \in before'[f] : p \in Committed /\ item'[p] = item[p]
  <2> SUFFICES ASSUME NEW f \in Events, NEW p \in before'[f] PROVE p \in Committed
    BY <1>3, <1>4 DEF Committed
  <2> QED BY <1>3 DEF OrderInv, BeforeCommitted
<1>8. BeforeOlder'
  <2> SUFFICES ASSUME NEW f \in Events, NEW p \in before'[f],
                      SameTag(p, f), item[p] \in Queued
               PROVE  item[p] <= item'[f]
    BY <1>2, <1>7 DEF BeforeOlder
  <2>1. CASE f = e
    <3>1. p \in Carried(item[p]) /\ SameTag(e, p)
      BY <1>7, <2>1 DEF Carried, Committed, SameTag
    <3> QED BY <1>3, <2>1, <3>1 DEF Coalesce, IsTail
  <2>2. CASE f # e
    BY <1>3, <2>2 DEF OrderInv, BeforeOlder
  <2> QED BY <2>1, <2>2
<1>9. HeldBack'
  <2> SUFFICES ASSUME NEW f \in Events, NEW p \in before'[f],
                      SameTag(p, f), item[p] \in Queued, item[p] # item'[f]
               PROVE  row[item'[f]] \in {"inserting", "queued", "rolledback"}
                      /\ attempts[item'[f]] = 0
    BY <1>2, <1>7 DEF HeldBack
  <2>1. CASE f = e
    BY <1>1, <1>3, <2>1
  <2>2. CASE f # e
    BY <1>3, <2>2 DEF OrderInv, HeldBack
  <2> QED BY <2>1, <2>2
<1> QED BY <1>6, <1>8, <1>9

LEMMA OrderDecided ==
  ASSUME OrderInv, NEW i \in Ids, CommitInsert(i) \/ RollbackInsert(i)
  PROVE  BeforeCommitted' /\ BeforeOlder' /\ HeldBack'
<1>t. TypeOK /\ item' = item /\ before' = before /\ attempts' = attempts
  BY DEF CommitInsert, RollbackInsert, OrderInv, ClaimInv, OnceInv
<1>1. /\ row[i] = "inserting" /\ row'[i] \in {"queued", "rolledback"}
      /\ \A j \in Ids : j # i => row'[j] = row[j]
  BY <1>t DEF CommitInsert, RollbackInsert, TypeOK
<1>2. Committed \subseteq Committed'
  BY <1>t, <1>1 DEF Committed, TypeOK
<1>3. \A e \in Events : \A p \in before[e] :
        p \in Events /\ item[p] \in Ids /\ item[e] \in Ids /\ item[p] # i
  BY <1>t, <1>1 DEF OrderInv, BeforeCommitted, Committed, TypeOK
<1>4. \A e \in Events : \A p \in before[e] : item[p] \in Queued' => item[p] \in Queued
  BY <1>1, <1>3 DEF Queued
<1>5. BeforeCommitted' /\ BeforeOlder'
  BY <1>t, <1>2, <1>4 DEF OrderInv, BeforeCommitted, BeforeOlder
<1>6. HeldBack'
  BY <1>t, <1>1, <1>3, <1>4 DEF OrderInv, HeldBack
<1> QED BY <1>5, <1>6

\* The head rule: a row with an older one of its tag is not picked.
LEMMA OrderClaim ==
  ASSUME OrderInv, NEW l \in Loops, Claim(l)
  PROVE  BeforeCommitted' /\ BeforeOlder' /\ HeldBack'
<1>1. Queued' = Queued /\ UNCHANGED <<row, item, before>>
  BY DEF Claim, Queued
<1>2. ASSUME NEW e \in Events, NEW p \in before[e],
             SameTag(p, e), item[p] \in Queued, item[p] # item[e]
      PROVE  row'[item[e]] = row[item[e]] /\ attempts'[item[e]] = attempts[item[e]]
  <2>1. item[e] \in Ids /\ item[p] \in Ids /\ item[p] < item[e] /\ p \in Events
    BY <1>2 DEF OrderInv, BeforeCommitted, BeforeOlder, Committed, ClaimInv, OnceInv,
                TypeOK, Ids
  <2>2. SameKey(item[p], item[e])
    BY <1>2, <2>1 DEF SameKey, Carried
  <2>3. ~Head(item[e])
    BY <1>2, <2>1, <2>2 DEF Head, Ids
  <2>4. item[e] \notin Pick(l)
    BY <2>3 DEF Pick, Unlocked, Groups, Scanned, Claimable
  <2> QED BY <1>1, <2>1, <2>4 DEF Claim
<1> QED BY <1>1, <1>2, OrderKept

LEMMA OrderStep == OrderInv /\ [Next]_vars => OrderInv'
<1> SUFFICES ASSUME OrderInv, [Next]_vars PROVE OrderInv'
  OBVIOUS
<1>t. ClaimInv' /\ TypeOK
  BY ClaimStep DEF OrderInv, ClaimInv, OnceInv
<1>1. CASE Producer
  BY <1>t, <1>1, OrderInsert, OrderCoalesce, OrderDecided DEF Producer, OrderInv
<1>2. ASSUME NEW l \in Loops, Claim(l) PROVE OrderInv'
  BY <1>t, <1>2, OrderClaim DEF OrderInv
<1>3. ASSUME NEW l \in Loops, NEW i \in Ids, DropExhausted(l, i) PROVE OrderInv'
  BY <1>t, <1>3, OrderDeadLetter DEF DropExhausted, OrderInv
<1>4. ASSUME NEW l \in Loops, Commit(l) \/ CommitUnanswered(l) PROVE OrderInv'
  <2>1. Delete(Mine(l)) /\ Mine(l) \subseteq {i \in Ids : Holds(l, i)}
    BY <1>t, <1>4 DEF Commit, CommitUnanswered, Store, Mine, TypeOK
  <2>2. pc[l] # "idle" /\ item' = item /\ before' = before
    BY <1>4 DEF Commit, CommitUnanswered, Store
  <2> HIDE DEF OrderInv
  <2>3. BeforeCommitted' /\ BeforeOlder' /\ HeldBack'
    BY <2>1, <2>2, OrderDelete
  <2> QED BY <1>t, <2>3 DEF OrderInv
<1>5. ASSUME NEW l \in Loops, DeadLetterRejected(l) PROVE OrderInv'
  BY <1>t, <1>5, OrderDeadLetter DEF DeadLetterRejected, OrderInv, TypeOK
<1>6. CASE UNCHANGED <<row, attempts, item, before>>
  BY <1>t, <1>6 DEF OrderInv, BeforeCommitted, BeforeOlder, HeldBack, Committed, Queued
<1>7. ASSUME NEW l \in Loops, Fail(l) PROVE OrderInv'
  <2>1. PICK i \in Ids :
          IF LastAttempt(i)
          THEN DeadLetter(l, i)
          ELSE BackOff(l, i) /\ UNCHANGED <<dead, row, attempts>>
    BY <1>t, <1>7 DEF Fail, TypeOK
  <2>2. CASE LastAttempt(i)
    BY <1>t, <1>7, <2>1, <2>2, OrderDeadLetter DEF Fail, OrderInv
  <2>3. CASE ~LastAttempt(i)
    BY <1>6, <1>7, <2>1, <2>3 DEF Fail
  <2> QED BY <2>2, <2>3
<1>8. ASSUME NEW l \in Loops,
             \/ Begin(l) \/ Abort(l) \/ Reject(l) \/ RunEffects(l) \/ Finish(l) \/ Crash(l)
      PROVE  OrderInv'
  BY <1>6, <1>8 DEF Begin, Abort, Reject, RunEffects, Finish, Crash, tables
<1>9. CASE Clock \/ UNCHANGED vars
  BY <1>6, <1>9 DEF Clock, Heartbeat, LeaseRunsOut, ComesDue, vars, tables
<1> QED BY <1>1, <1>2, <1>3, <1>4, <1>5, <1>7, <1>8, <1>9 DEF Next, LoopStep, Failure

LEMMA OrderInvariant == Spec => []OrderInv
<1>1. Init => OrderInv
  BY ClaimInit DEF Init, OrderInv, BeforeCommitted, BeforeOlder, HeldBack
<1> QED BY <1>1, OrderStep, PTL DEF Spec

\* While an event of a tag is queued, no worker has been handed a later one of
\* the same tag: a failing trip holds back its own reclose (claimHeads and
\* claimGroups claim the head of an order_key only).
THEOREM TagsHeldBack == Spec => []HeldBackByTag
  BY OrderInvariant, OrderHeld, PTL

-----------------------------------------------------------------------------
(* One item per tag in flight.  When the rows of a tag become visible in     *)
(* order, a row that is still to be decided or settled keeps every later row *)
(* of its tag unclaimed; so no two transactions hold rows of one tag.        *)

\* Only a loop that has opened a transaction has rows in hand.
HandsFree == \A l \in Loops : pc[l] \in {"idle", "work"} => cur[l] = {}

TurnKept ==
  \A i, j \in Ids : i < j /\ SameKey(i, j) =>
    /\ row[i] = "inserting" => row[j] # "queued"
    /\ row[i] \in {"inserting", "queued"} => row[j] # "gone" /\ attempts[j] = 0

TurnInv == ClaimInv /\ HandsFree /\ TurnKept

LEMMA TurnTyped ==
  TurnInv => /\ item \in [Events -> {0} \cup Ids]
             /\ row \in [Ids -> RowStates]
             /\ attempts \in [Ids -> 0 .. (MaxAttempts + 1)]
             /\ pc \in [Loops -> PcStates] /\ cur \in [Loops -> SUBSET Ids]
             /\ nextId \in 1 .. (MaxId + 1)
  BY DEF TurnInv, ClaimInv, OnceInv, TypeOK

LEMMA TurnShows == TurnInv => OneInFlightPerTag
<1> SUFFICES ASSUME TurnInv, NEW l \in Loops, NEW m \in Loops,
                    NEW i \in Mine(l), NEW j \in Mine(m), SameKey(i, j), i # j
             PROVE  FALSE
  BY DEF OneInFlightPerTag
<1>1. i \in Ids /\ j \in Ids /\ SameKey(j, i)
  BY TurnTyped DEF Mine, SameKey, SameTag
<1>2. ASSUME NEW n \in Loops, NEW k \in Mine(n)
      PROVE  row[k] = "queued" /\ attempts[k] > 0
  <2>1. pc[n] # "idle" /\ k \in Queued /\ claimedBy[k] = token[n]
    BY DEF Mine, Holds, TurnInv, HandsFree
  <2> QED BY <2>1 DEF TurnInv, ClaimInv, HasToken, Counted, Queued
<1>3. i < j \/ j < i
  BY <1>1 DEF Ids
<1> QED BY <1>1, <1>2, <1>3 DEF TurnInv, TurnKept

LEMMA HandsStep ==
  ASSUME TurnInv, [Next]_vars
  PROVE  HandsFree'
<1> USE TurnTyped DEF TurnInv, HandsFree, PcStates
<1>1. CASE Producer \/ Clock \/ UNCHANGED vars
  BY <1>1 DEF Producer, Insert, Coalesce, CommitInsert, RollbackInsert, Clock, Heartbeat,
              LeaseRunsOut, ComesDue, vars, workers
<1>2. ASSUME NEW l \in Loops,
             \/ Claim(l) \/ Begin(l) \/ Commit(l) \/ Reject(l) \/ DeadLetterRejected(l)
             \/ Fail(l) \/ RunEffects(l) \/ Finish(l) \/ Crash(l)
             \/ \E i \in Ids : DropExhausted(l, i)
      PROVE  HandsFree'
  BY <1>2 DEF Claim, Begin, Commit, Store, Reject, DeadLetterRejected, Fail, RunEffects,
              Finish, Crash, LetGo, DropExhausted
<1>3. ASSUME NEW l \in Loops, Abort(l) \/ CommitUnanswered(l) PROVE HandsFree'
  BY <1>3 DEF Abort, CommitUnanswered, Store, AfterError
<1> QED BY <1>1, <1>2, <1>3 DEF Next, LoopStep, Failure

LEMMA TurnInsert ==
  ASSUME TurnInv, NEW e \in Events, Insert(e)
  PROVE  TurnKept'
<1>1. /\ nextId \in Ids /\ item[e] = 0
      /\ row' = [row EXCEPT ![nextId] = "inserting"]
      /\ item' = [item EXCEPT ![e] = nextId] /\ attempts' = attempts
  BY TurnTyped DEF Insert, NextToSend, Ids
<1>2. \A j \in Ids : j >= nextId => row[j] = "none" /\ attempts[j] = 0
  BY DEF TurnInv, ClaimInv, OnceInv, FreshIds
<1> SUFFICES ASSUME NEW i \in Ids, NEW j \in Ids, i < j, SameKey(i, j)'
             PROVE  /\ row'[i] = "inserting" => row'[j] # "queued"
                    /\ row'[i] \in {"inserting", "queued"} => row'[j] # "gone" /\ attempts'[j] = 0
  BY DEF TurnKept
<1>3. CASE j >= nextId
  BY <1>1, <1>2, <1>3, TurnTyped
<1>4. CASE j < nextId
  <2>1. i # nextId /\ j # nextId /\ row'[i] = row[i] /\ row'[j] = row[j]
    BY <1>1, <1>4, TurnTyped DEF Ids
  <2>2. Carried(i)' = Carried(i) /\ Carried(j)' = Carried(j)
    BY <1>1, <2>1, TurnTyped DEF Carried, Ids
  <2> QED BY <1>1, <2>1, <2>2 DEF TurnInv, TurnKept, SameKey
<1> QED BY <1>3, <1>4, <1>1 DEF Ids

LEMMA TurnCoalesce ==
  ASSUME TurnInv, NEW e \in Events, NEW k \in Ids, Coalesce(e, k)
  PROVE  TurnKept'
<1>1. /\ item[e] = 0 /\ item' = [item EXCEPT ![e] = k]
      /\ UNCHANGED <<row, attempts>>
  BY DEF Coalesce, NextToSend
<1>2. PICK f \in Carried(k) : SameTag(e, f)
  BY DEF Coalesce, IsTail
<1>3. ASSUME NEW i \in Ids, NEW d \in Carried(i)'
      PROVE  \E c \in Carried(i) : c.tag = d.tag
  <2>1. d \in Events /\ item'[d] = i
    BY <1>3 DEF Carried
  <2>2. CASE d = e
    BY <1>1, <1>2, <2>1, <2>2, TurnTyped DEF SameTag
  <2>3. CASE d # e
    BY <1>1, <2>1, <2>3, TurnTyped DEF Carried
  <2> QED BY <2>2, <2>3
<1>4. ASSUME NEW i \in Ids, NEW j \in Ids, SameKey(i, j)'
      PROVE  SameKey(i, j)
  <2>1. PICK c \in Carried(i)', d \in Carried(j)' : c.tag = d.tag /\ c.tag # NoTag
    BY <1>4 DEF SameKey, SameTag
  <2> QED BY <1>3, <2>1 DEF SameKey, SameTag
<1> QED BY <1>1, <1>4 DEF TurnInv, TurnKept

LEMMA TurnDecided ==
  ASSUME TurnInv, InTagOrder, NEW k \in Ids, CommitInsert(k) \/ RollbackInsert(k)
  PROVE  TurnKept'
<1>1. /\ row[k] = "inserting" /\ row'[k] \in {"queued", "rolledback"}
      /\ \A j \in Ids : j # k => row'[j] = row[j]
      /\ UNCHANGED <<item, attempts>>
  BY TurnTyped DEF CommitInsert, RollbackInsert
<1>2. attempts[k] = 0
  BY <1>1 DEF TurnInv, ClaimInv, OnceInv, FreshIds
<1> SUFFICES ASSUME NEW i \in Ids, NEW j \in Ids, i < j, SameKey(i, j)
             PROVE  /\ row'[i] = "inserting" => row'[j] # "queued"
                    /\ row'[i] \in {"inserting", "queued"} => row'[j] # "gone" /\ attempts[j] = 0
  BY <1>1 DEF TurnKept, SameKey, Carried
<1>3. i # j
  BY DEF Ids
<1>4. CASE j = k
  BY <1>1, <1>2, <1>3, <1>4 DEF InTagOrder
<1>5. CASE j # k
  BY <1>1, <1>5 DEF TurnInv, TurnKept
<1> QED BY <1>4, <1>5

LEMMA TurnClaim ==
  ASSUME TurnInv, NEW l \in Loops, Claim(l)
  PROVE  TurnKept'
<1>1. /\ UNCHANGED <<row, item>>
      /\ \A j \in Ids : j \notin Pick(l) => attempts'[j] = attempts[j]
  BY DEF Claim
<1>2. ASSUME NEW i \in Ids, NEW j \in Pick(l), i < j, SameKey(i, j)
      PROVE  row[i] \notin {"inserting", "queued"}
  <2>1. j \in Queued /\ Head(j) /\ j \in Ids
    BY DEF Pick, Unlocked, Groups, Scanned, Claimable, Lane, Queued
  <2>2. i \notin Queued
    BY <1>2, <2>1 DEF Head, Ids
  <2> QED BY <1>2, <2>1, <2>2 DEF TurnInv, TurnKept, Queued
<1>3. \A i, j \in Ids : SameKey(i, j)' <=> SameKey(i, j)
  BY <1>1 DEF SameKey, Carried
<1> QED BY <1>1, <1>2, <1>3 DEF TurnInv, TurnKept

\* What a claim's holder takes out of the table has nothing before it.
LEMMA TurnDelete ==
  ASSUME TurnInv, item' = item, NEW l \in Loops, pc[l] # "idle",
         NEW S, S \subseteq {i \in Ids : Holds(l, i)}, Delete(S)
  PROVE  TurnKept'
<1>1. \A j \in S : j \in Ids /\ row[j] = "queued" /\ attempts[j] > 0
  BY DEF Holds, Queued, TurnInv, ClaimInv, HasToken, Counted
<1>2. \A j \in Ids : /\ row'[j] = IF j \in S THEN "gone" ELSE row[j]
                     /\ j \notin S => attempts'[j] = attempts[j]
  BY DEF Delete
<1>3. \A i, j \in Ids : SameKey(i, j)' <=> SameKey(i, j)
  BY DEF SameKey, Carried
<1> SUFFICES ASSUME NEW i \in Ids, NEW j \in Ids, i < j, SameKey(i, j)
             PROVE  /\ row'[i] = "inserting" => row'[j] # "queued"
                    /\ row'[i] \in {"inserting", "queued"} => row'[j] # "gone" /\ attempts'[j] = 0
  BY <1>3 DEF TurnKept
<1>4. CASE i \in S
  BY <1>2, <1>4
<1>5. CASE i \notin S /\ j \in S
  <2>1. attempts[j] # 0
    BY <1>1, <1>5, TurnTyped
  <2> QED BY <1>2, <1>5, <2>1 DEF TurnInv, TurnKept
<1>6. CASE i \notin S /\ j \notin S
  BY <1>2, <1>6 DEF TurnInv, TurnKept
<1> QED BY <1>4, <1>5, <1>6

LEMMA TurnDeadLetter ==
  ASSUME TurnInv, item' = item, NEW l \in Loops, pc[l] # "idle",
         NEW i \in Ids, DeadLetter(l, i)
  PROVE  TurnKept'
<1> DEFINE S == {j \in {i} : Holds(l, j)}
<1>1. Delete(S) /\ S \subseteq {j \in Ids : Holds(l, j)}
  BY DEF DeadLetter
<1> HIDE DEF S
<1> QED BY <1>1, TurnDelete

LEMMA TurnStep == TurnInv /\ [Next /\ InTagOrder]_vars => TurnInv'
<1> SUFFICES ASSUME TurnInv, [Next /\ InTagOrder]_vars PROVE TurnInv'
  OBVIOUS
<1>1. [Next]_vars /\ ClaimInv' /\ HandsFree'
  BY ClaimStep, HandsStep DEF TurnInv
<1> SUFFICES TurnKept'
  BY <1>1 DEF TurnInv
<1>2. CASE UNCHANGED <<row, attempts, item>>
  BY <1>2 DEF TurnInv, TurnKept, SameKey, Carried
<1>3. CASE Producer /\ InTagOrder
  BY <1>3, TurnInsert, TurnCoalesce, TurnDecided DEF Producer
<1>4. ASSUME NEW l \in Loops, Commit(l) \/ CommitUnanswered(l) PROVE TurnKept'
  <2>1. Delete(Mine(l)) /\ Mine(l) \subseteq {i \in Ids : Holds(l, i)}
    BY <1>4, TurnTyped DEF Commit, CommitUnanswered, Store, Mine
  <2>2. pc[l] # "idle" /\ item' = item
    BY <1>4 DEF Commit, CommitUnanswered, Store
  <2> QED BY <2>1, <2>2, TurnDelete
<1>5. ASSUME NEW l \in Loops, NEW i \in Ids, DropExhausted(l, i) PROVE TurnKept'
  BY <1>5, TurnDeadLetter DEF DropExhausted
<1>6. ASSUME NEW l \in Loops, DeadLetterRejected(l) PROVE TurnKept'
  BY <1>6, TurnDeadLetter, TurnTyped DEF DeadLetterRejected
<1>7. ASSUME NEW l \in Loops, Fail(l) PROVE TurnKept'
  <2>1. PICK i \in Ids :
          IF LastAttempt(i)
          THEN DeadLetter(l, i)
          ELSE BackOff(l, i) /\ UNCHANGED <<dead, row, attempts>>
    BY <1>7, TurnTyped DEF Fail
  <2>2. CASE LastAttempt(i)
    BY <1>7, <2>1, <2>2, TurnDeadLetter DEF Fail
  <2>3. CASE ~LastAttempt(i)
    BY <1>2, <1>7, <2>1, <2>3 DEF Fail
  <2> QED BY <2>2, <2>3
<1>8. ASSUME NEW l \in Loops,
             \/ Begin(l) \/ Abort(l) \/ Reject(l) \/ RunEffects(l) \/ Finish(l) \/ Crash(l)
      PROVE  TurnKept'
  BY <1>2, <1>8 DEF Begin, Abort, Reject, RunEffects, Finish, Crash, tables
<1>9. CASE Clock \/ UNCHANGED vars
  BY <1>2, <1>9 DEF Clock, Heartbeat, LeaseRunsOut, ComesDue, vars, tables
<1> QED BY <1>3, <1>4, <1>5, <1>6, <1>7, <1>8, <1>9, TurnClaim DEF Next, LoopStep, Failure

\* "At most one item per tag is in flight" (intakeQueue.js:226) holds for any
\* workers, crashes, stalls and retries as long as the rows of a tag become
\* visible in the order of their ids; overtaking inserts are all that breaks it.
THEOREM InFlightWhenOrdered == OrderedSpec => []OneInFlightPerTag
<1>1. Init => TurnInv
  BY ClaimInit DEF Init, TurnInv, HandsFree, TurnKept
<1> QED BY <1>1, TurnStep, TurnShows, PTL DEF OrderedSpec
=============================================================================

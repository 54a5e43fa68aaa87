----------------------- MODULE IntakeRefinementProofs ------------------------
(***************************************************************************)
(* The queue implements IntakePromise: an insert or a coalescing UPDATE is *)
(* an arrival, the end of a producer's transaction decides it, a worker's  *)
(* COMMIT or a dead letter settles the events of the rows it deletes, and  *)
(* every other step (claims, leases, locks, back-offs, crashes) is a       *)
(* stutter.                                                                *)
(***************************************************************************)
EXTENDS IntakeQueueProofs

\* Only repeats of one state of one tag share a row.
Alike ==
  \A e, f \in Events :
    item[e] = item[f] /\ item[e] # 0 => e = f \/ (SameTag(e, f) /\ e.state = f.state)

\* Nothing is coalesced into a row before its insert commits.
AloneWhileInserting ==
  \A e, f \in Events :
    item[e] = item[f] /\ item[e] # 0 /\ row[item[e]] = "inserting" => e = f

\* An event is stored when its row is deleted.
StoredGone == \A e \in Events : e \in storedEvents => item[e] # 0 /\ row[item[e]] = "gone"

\* An event's row has been inserted.
HasRow == \A e \in Events : item[e] # 0 => row[item[e]] # "none"

Shape == HasRow /\ Alike /\ AloneWhileInserting /\ StoredGone

PromiseInv == OrderInv /\ NothingLost /\ Shape

LEMMA FateUnsent == ASSUME NEW e \in Events, item[e] = 0 PROVE Fate(e) = "unsent"
  BY DEF Fate

LEMMA FateArriving ==
  ASSUME NEW e \in Events, item[e] # 0, row[item[e]] = "inserting"
  PROVE  Fate(e) = "arriving"
  BY DEF Fate

LEMMA FateRefused ==
  ASSUME NEW e \in Events, item[e] # 0, row[item[e]] = "rolledback"
  PROVE  Fate(e) = "refused"
  BY DEF Fate

LEMMA FateAccepted ==
  ASSUME NEW e \in Events, item[e] # 0, row[item[e]] = "queued"
  PROVE  Fate(e) = "accepted"
  BY DEF Fate

LEMMA FateSettled ==
  ASSUME NEW e \in Events, item[e] # 0, row[item[e]] = "gone"
  PROVE  Fate(e) = SettledAs(e)
  BY DEF Fate

LEMMA FateSame ==
  ASSUME NEW e \in Events, item'[e] = item[e],
         item[e] # 0 => row'[item[e]] = row[item[e]] /\ (item[e] \in dead' <=> item[e] \in dead),
         e \in storedEvents' <=> e \in storedEvents
  PROVE  Fate(e)' = Fate(e)
<1>1. SettledAs(e)' = SettledAs(e) \/ item[e] = 0
  BY DEF SettledAs
<1> QED BY <1>1 DEF Fate

-----------------------------------------------------------------------------
(* What a step does to the tables, as far as the promise can tell *)

Quiet == UNCHANGED <<row, item, before, storedEvents, dead>>

Stores(l) == pc[l] # "idle" /\ Store(l) /\ UNCHANGED <<item, before, dead>>

Buries(l, i) ==
  pc[l] # "idle" /\ DeadLetter(l, i) /\ UNCHANGED <<item, before, storedEvents>>

LEMMA StepKinds ==
  ASSUME TypeOK, [Next]_vars
  PROVE  \/ Producer
         \/ \E l \in Loops : Stores(l)
         \/ \E l \in Loops, i \in Ids : Buries(l, i)
         \/ Quiet
<1>1. ASSUME NEW l \in Loops, Commit(l) \/ CommitUnanswered(l) PROVE Stores(l)
  BY <1>1 DEF Commit, CommitUnanswered, Store, Stores
<1>2. ASSUME NEW l \in Loops, NEW i \in Ids, DropExhausted(l, i) PROVE Buries(l, i)
  BY <1>2 DEF DropExhausted, Buries
<1>3. ASSUME NEW l \in Loops, DeadLetterRejected(l) PROVE \E i \in Ids : Buries(l, i)
  BY <1>3 DEF DeadLetterRejected, Buries, TypeOK
<1>4. ASSUME NEW l \in Loops, Fail(l) PROVE Quiet \/ \E i \in Ids : Buries(l, i)
  <2>1. PICK i \in Ids :
          IF LastAttempt(i)
          THEN DeadLetter(l, i)
          ELSE BackOff(l, i) /\ UNCHANGED <<dead, row, attempts>>
    BY <1>4 DEF Fail, TypeOK
  <2> QED BY <1>4, <2>1 DEF Fail, Buries, Quiet
<1>5. ASSUME NEW l \in Loops,
             \/ Claim(l) \/ Begin(l) \/ Abort(l) \/ Reject(l)
             \/ RunEffects(l) \/ Finish(l) \/ Crash(l)
      PROVE  Quiet
  BY <1>5 DEF Claim, Begin, Abort, Reject, RunEffects, Finish, Crash, tables, Quiet
<1>6. ASSUME Clock \/ UNCHANGED vars PROVE Quiet
  BY <1>6 DEF Clock, Heartbeat, LeaseRunsOut, ComesDue, vars, tables, Quiet
<1> QED BY <1>1, <1>2, <1>3, <1>4, <1>5, <1>6 DEF Next, LoopStep, Failure

\* The rows a settling step deletes were queued, and held by the loop.
LEMMA StoreRows ==
  ASSUME TypeOK, NEW l \in Loops, Stores(l)
  PROVE  /\ \A i \in Mine(l) : i \in Ids /\ row[i] = "queued" /\ row'[i] = "gone" /\ Holds(l, i)
         /\ \A i \in Ids : i \notin Mine(l) => row'[i] = row[i]
<1>1. \A i \in Mine(l) : i \in Ids /\ row[i] = "queued" /\ Holds(l, i)
  BY DEF Mine, Holds, Queued
<1> QED BY <1>1 DEF Stores, Store, Delete

LEMMA BuryRows ==
  ASSUME TypeOK, NEW l \in Loops, NEW i \in Ids, Buries(l, i)
  PROVE  /\ Holds(l, i) => row[i] = "queued" /\ row'[i] = "gone" /\ dead' = dead \cup {i}
         /\ ~Holds(l, i) => row'[i] = row[i] /\ dead' = dead
         /\ \A j \in Ids : j # i => row'[j] = row[j]
<1> DEFINE S == {j \in {i} : Holds(l, j)}
<1>1. dead' = dead \cup S /\ \A j \in Ids : row'[j] = IF j \in S THEN "gone" ELSE row[j]
  BY DEF Buries, DeadLetter, Delete
<1>2. Holds(l, i) => row[i] = "queued"
  BY DEF Holds, Queued
<1> QED BY <1>1, <1>2

-----------------------------------------------------------------------------
(* The shape of the tables *)

LEMMA ShapeProducer ==
  ASSUME PromiseInv, Producer
  PROVE  Shape'
<1>t. TypeOK
  BY DEF PromiseInv, OrderInv, ClaimInv, OnceInv
<1>1. ASSUME NEW e \in Events, Insert(e) PROVE Shape'
  <2>1. nextId \in Ids /\ row[nextId] = "none" /\ nextId # 0
    BY <1>t, <1>1 DEF Insert, PromiseInv, OrderInv, ClaimInv, OnceInv, FreshIds, TypeOK, Ids
  <2>2. \A f \in Events : IF f = e THEN item'[f] = nextId /\ item[f] = 0
                          ELSE item'[f] = item[f] /\ item[f] # nextId
    BY <1>t, <1>1, <2>1 DEF Insert, NextToSend, PromiseInv, Shape, HasRow, TypeOK
  <2>3. \A i \in Ids : row'[i] = IF i = nextId THEN "inserting" ELSE row[i]
    BY <1>t, <1>1 DEF Insert, TypeOK
  <2>4. \A f \in Events : item[f] \in {0} \cup Ids
    BY <1>t DEF TypeOK
  <2>5. storedEvents' = storedEvents
    BY <1>1 DEF Insert
  <2>6. HasRow'
    BY <2>1, <2>2, <2>3, <2>4 DEF PromiseInv, Shape, HasRow
  <2>7. Alike'
    BY <2>1, <2>2 DEF PromiseInv, Shape, Alike
  <2>8. AloneWhileInserting'
    BY <2>1, <2>2, <2>3, <2>4 DEF PromiseInv, Shape, AloneWhileInserting
  <2>9. StoredGone'
    BY <2>1, <2>2, <2>3, <2>4, <2>5 DEF PromiseInv, Shape, StoredGone
  <2> QED BY <2>6, <2>7, <2>8, <2>9 DEF Shape
<1>2. ASSUME NEW e \in Events, NEW i \in Ids, Coalesce(e, i) PROVE Shape'
  <2>1. row[i] = "queued" /\ UNCHANGED <<row, storedEvents>> /\ i # 0
    BY <1>2 DEF Coalesce, IsTail, Queued, Ids
  <2>2. \A f \in Events : IF f = e THEN item'[f] = i /\ item[f] = 0
                          ELSE item'[f] = item[f]
    BY <1>t, <1>2 DEF Coalesce, NextToSend, TypeOK
  <2>3. PICK g \in Events : item[g] = i /\ SameTag(g, e) /\ g.state = e.state
    BY <1>2 DEF Coalesce, SameState, SameTag, Carried
  <2>4. \A f \in Events : item[f] = i => SameTag(f, e) /\ f.state = e.state
    BY <2>1, <2>3 DEF PromiseInv, Shape, Alike, SameTag
  <2>5. Alike'
    BY <2>2, <2>4 DEF PromiseInv, Shape, Alike, SameTag
  <2>6. HasRow' /\ AloneWhileInserting' /\ StoredGone'
    BY <2>1, <2>2 DEF PromiseInv, Shape, HasRow, AloneWhileInserting, StoredGone
  <2> QED BY <2>5, <2>6 DEF Shape
<1>3. ASSUME NEW i \in Ids, CommitInsert(i) \/ RollbackInsert(i) PROVE Shape'
  <2>1. UNCHANGED <<item, storedEvents>> /\ row[i] = "inserting"
        /\ row'[i] \in {"queued", "rolledback"}
        /\ \A j \in Ids : j # i => row'[j] = row[j]
    BY <1>t, <1>3 DEF CommitInsert, RollbackInsert, TypeOK
  <2>2. \A f \in Events : item[f] \in {0} \cup Ids
    BY <1>t DEF TypeOK
  <2>3. HasRow' /\ Alike'
    BY <2>1, <2>2 DEF PromiseInv, Shape, HasRow, Alike
  <2>4. AloneWhileInserting' /\ StoredGone'
    BY <2>1, <2>2 DEF PromiseInv, Shape, AloneWhileInserting, StoredGone
  <2> QED BY <2>3, <2>4 DEF Shape
<1> QED BY <1>1, <1>2, <1>3 DEF Producer

LEMMA PromiseInvStep == PromiseInv /\ [Next]_vars => PromiseInv'
<1> SUFFICES ASSUME PromiseInv, [Next]_vars PROVE PromiseInv'
  OBVIOUS
<1>t. TypeOK /\ OrderInv' /\ NothingLost'
  BY OrderStep, LosesStep DEF PromiseInv, OrderInv, ClaimInv, OnceInv
<1>i. \A e \in Events : item[e] \in {0} \cup Ids
  BY <1>t DEF TypeOK
<1>1. CASE Producer
  BY <1>t, <1>1, ShapeProducer DEF PromiseInv
<1>2. ASSUME NEW l \in Loops, Stores(l) PROVE PromiseInv'
  <2>1. item' = item /\ storedEvents' = storedEvents \cup {e \in snap[l] : item[e] \in Mine(l)}
    BY <1>2 DEF Stores, Store
  <2>2. /\ \A i \in Mine(l) : i \in Ids /\ row[i] = "queued" /\ row'[i] = "gone"
        /\ \A i \in Ids : i \notin Mine(l) => row'[i] = row[i]
    BY <1>t, <1>2, StoreRows
  <2>3. Shape'
    BY <1>i, <2>1, <2>2
    DEF PromiseInv, Shape, HasRow, Alike, AloneWhileInserting, StoredGone, Ids
  <2> QED BY <1>t, <2>3 DEF PromiseInv
<1>3. ASSUME NEW l \in Loops, NEW i \in Ids, Buries(l, i) PROVE PromiseInv'
  <2>1. UNCHANGED <<item, storedEvents>>
    BY <1>3 DEF Buries
  <2>2. \A j \in Ids : row'[j] = row[j] \/ row'[j] = "gone"
    BY <1>t, <1>3, BuryRows
  <2>3. Shape'
    BY <1>i, <2>1, <2>2
    DEF PromiseInv, Shape, HasRow, Alike, AloneWhileInserting, StoredGone
  <2> QED BY <1>t, <2>3 DEF PromiseInv
<1>4. CASE Quiet
  BY <1>t, <1>4
  DEF Quiet, PromiseInv, Shape, HasRow, Alike, AloneWhileInserting, StoredGone
<1> QED BY <1>t, <1>1, <1>2, <1>3, <1>4, StepKinds

LEMMA PromiseInvariant == Spec => []PromiseInv
<1>1. Init => PromiseInv
  BY ClaimInit
  DEF Init, PromiseInv, OrderInv, BeforeCommitted, BeforeOlder, HeldBack, NothingLost,
      Committed, Shape, HasRow, Alike, AloneWhileInserting, StoredGone
<1> QED BY <1>1, PromiseInvStep, PTL DEF Spec

-----------------------------------------------------------------------------
(* The steps of the promise *)

\* A deleted row is never in doubt: stored or dead.
LEMMA FateGone ==
  ASSUME PromiseInv, NEW e \in Events, item[e] # 0, row[item[e]] = "gone"
  PROVE  Fate(e) \in {"stored", "dead"}
<1>1. e \in Committed /\ item[e] \notin Queued
  BY DEF Committed, Queued
<1>2. e \in storedEvents \/ item[e] \in dead
  BY <1>1 DEF PromiseInv, NothingLost
<1> QED BY <1>2, FateSettled DEF SettledAs

\* The promise's "accepted before" is the queue's committed.
LEMMA AcceptedCommitted ==
  ASSUME PromiseInv
  PROVE  Promise!AcceptedEver = Committed
<1>1. ASSUME NEW e \in Events
      PROVE  Fate(e) \in {"accepted", "stored", "dead"} <=> e \in Committed
  <2>1. CASE item[e] = 0
    BY <2>1, FateUnsent DEF Committed
  <2>2. CASE item[e] # 0
    <3>1. row[item[e]] \in RowStates \ {"none"}
      BY <2>2 DEF PromiseInv, Shape, HasRow, OrderInv, ClaimInv, OnceInv, TypeOK
    <3> QED BY <2>2, <3>1, FateArriving, FateRefused, FateAccepted, FateGone
            DEF Committed, RowStates
  <2> QED BY <2>1, <2>2
<1> QED BY <1>1 DEF Promise!AcceptedEver, Committed

LEMMA PromiseInit == Init => Promise!Init
<1> SUFFICES ASSUME Init PROVE Promise!Init
  OBVIOUS
<1>1. \A e \in Events : Fate(e) = "unsent"
  BY FateUnsent DEF Init
<1> QED BY <1>1 DEF Init, Promise!Init

LEMMA QuietStutters ==
  ASSUME \A e \in Events : Fate(e)' = Fate(e), before' = before
  PROVE  UNCHANGED Promise!vars
  BY DEF Promise!vars

\* An arrival: e gets a row of its own, or joins one that is queued.
LEMMA ArriveStep ==
  ASSUME PromiseInv, NEW e \in Events, item[e] = 0,
         Fate(e)' \in {"arriving", "accepted"},
         \A f \in Events : f # e => Fate(f)' = Fate(f),
         before' = [before EXCEPT ![e] = Committed]
  PROVE  Promise!Arrive(e)
<1>1. [f \in Events |-> Fate(f)]' = [[f \in Events |-> Fate(f)] EXCEPT ![e] = Fate(e)']
  OBVIOUS
<1>2. Fate(e) = "unsent"
  BY FateUnsent
<1> QED BY <1>1, <1>2, AcceptedCommitted DEF Promise!Arrive

LEMMA DecideStep ==
  ASSUME NEW e \in Events, Fate(e) = "arriving",
         Fate(e)' \in {"accepted", "refused"},
         \A f \in Events : f # e => Fate(f)' = Fate(f),
         before' = before
  PROVE  Promise!Decide(e)
<1>1. [f \in Events |-> Fate(f)]' = [[f \in Events |-> Fate(f)] EXCEPT ![e] = Fate(e)']
  OBVIOUS
<1> QED BY <1>1 DEF Promise!Decide

LEMMA SettleStep ==
  ASSUME NEW S, S \subseteq Events, S # {},
         \A e \in S : Fate(e) = "accepted",
         NEW to \in {"stored", "dead"},
         \A e \in Events : Fate(e)' = IF e \in S THEN to ELSE Fate(e),
         \A e \in S : \A p \in before[e] :
           SameTag(p, e) /\ Fate(p) = "accepted" => p \in S /\ p.state = e.state,
         \A e \in S : before[e] \subseteq Events,
         before' = before
  PROVE  \E R \in SUBSET Promise!With("accepted") : Promise!Settle(R)
<1>1. S \in SUBSET Promise!With("accepted")
  BY DEF Promise!With
<1>2. Promise!InTurn(S)
  BY DEF Promise!InTurn, Promise!SameTag, SameTag
<1>3. [f \in Events |-> Fate(f)]'
        = [e \in Events |-> IF e \in S THEN to ELSE [f \in Events |-> Fate(f)][e]]
  OBVIOUS
<1>4. Promise!Settle(S)
  BY <1>2, <1>3 DEF Promise!Settle
<1> QED BY <1>1, <1>4

\* The head rule, seen from the promise: what a loop holds is in turn.
LEMMA HeldInTurn ==
  ASSUME PromiseInv, NEW l \in Loops, pc[l] # "idle",
         NEW e \in Events, NEW i \in Ids, Holds(l, i), item[e] = i,
         NEW p \in before[e], SameTag(p, e), Fate(p) = "accepted"
  PROVE  item[p] = i /\ p.state = e.state
<1>1. p \in Events /\ item[p] # 0 /\ row[item[p]] \in {"queued", "gone"} /\ item[p] \in Ids
  BY DEF PromiseInv, OrderInv, BeforeCommitted, Committed, ClaimInv, OnceInv, TypeOK
<1>2. row[item[p]] = "queued"
  BY <1>1, FateGone
<1>3. item[p] \in Queued
  BY <1>1, <1>2 DEF Queued
<1>4. item[p] = i
  BY <1>3, HeldNotClaimed DEF PromiseInv
<1> QED BY <1>1, <1>4 DEF PromiseInv, Shape, Alike

LEMMA ProducerKeepsPromise ==
  ASSUME PromiseInv, PromiseInv', Producer
  PROVE  [Promise!Next]_Promise!vars
<1>t. TypeOK
  BY DEF PromiseInv, OrderInv, ClaimInv, OnceInv
<1>1. ASSUME NEW e \in Events, Insert(e) PROVE Promise!Arrive(e)
  <2>1. nextId \in Ids /\ row[nextId] = "none" /\ nextId # 0
    BY <1>t, <1>1 DEF Insert, PromiseInv, OrderInv, ClaimInv, OnceInv, FreshIds, TypeOK, Ids
  <2>2. item[e] = 0 /\ before' = [before EXCEPT ![e] = Committed]
        /\ UNCHANGED <<dead, storedEvents>>
    BY <1>1 DEF Insert, NextToSend
  <2>3. item'[e] = nextId /\ row'[nextId] = "inserting"
    BY <1>t, <1>1, <2>1 DEF Insert, TypeOK
  <2>4. (item[e] # 0 /\ row[item[e]] = "inserting")'
    BY <2>1, <2>3
  <2>5. Fate(e)' = "arriving"
    BY <2>4 DEF Fate
  <2>6. ASSUME NEW f \in Events, f # e PROVE Fate(f)' = Fate(f)
    <3>1. item'[f] = item[f]
      BY <1>t, <1>1, <2>6 DEF Insert, TypeOK
    <3>2. item[f] # 0 => row'[item[f]] = row[item[f]]
      BY <1>t, <1>1, <2>1 DEF Insert, PromiseInv, Shape, HasRow, TypeOK
    <3> QED BY <2>2, <3>1, <3>2, FateSame
  <2> QED BY <2>2, <2>5, <2>6, ArriveStep
<1>2. ASSUME NEW e \in Events, NEW i \in Ids, Coalesce(e, i) PROVE Promise!Arrive(e)
  <2>1. /\ item[e] = 0 /\ before' = [before EXCEPT ![e] = Committed]
        /\ UNCHANGED <<row, dead, storedEvents>>
        /\ row[i] = "queued" /\ i # 0
    BY <1>2 DEF Coalesce, IsTail, NextToSend, Queued, Ids
  <2>2. (item[e] # 0 /\ row[item[e]] = "queued")'
    BY <1>t, <1>2, <2>1 DEF Coalesce, TypeOK
  <2>3. Fate(e)' = "accepted"
    BY <2>2 DEF Fate
  <2>4. ASSUME NEW f \in Events, f # e PROVE Fate(f)' = Fate(f)
    <3>1. item'[f] = item[f]
      BY <1>t, <1>2, <2>4 DEF Coalesce, TypeOK
    <3> QED BY <2>1, <3>1, FateSame
  <2> QED BY <2>1, <2>3, <2>4, ArriveStep
<1>3. ASSUME NEW i \in Ids, CommitInsert(i) \/ RollbackInsert(i)
      PROVE  UNCHANGED Promise!vars \/ \E e \in Events : Promise!Decide(e)
  <2>1. UNCHANGED <<item, dead, storedEvents, before>> /\ row[i] = "inserting"
        /\ row'[i] \in {"queued", "rolledback"}
        /\ \A j \in Ids : j # i => row'[j] = row[j]
    BY <1>t, <1>3 DEF CommitInsert, RollbackInsert, TypeOK
  <2>2. ASSUME NEW f \in Events, item[f] # i PROVE Fate(f)' = Fate(f)
    <3>1. item[f] # 0 => row'[item[f]] = row[item[f]]
      BY <1>t, <2>1, <2>2 DEF TypeOK
    <3> QED BY <2>1, <3>1, FateSame
  <2>3. CASE \A f \in Events : item[f] # i
    BY <2>1, <2>2, <2>3, QuietStutters
  <2>4. ASSUME NEW e \in Events, item[e] = i PROVE Promise!Decide(e)
    <3>1. item[e] # 0 /\ row[item[e]] = "inserting"
      BY <2>1, <2>4 DEF Ids
    <3>2. Fate(e) = "arriving"
      BY <3>1, FateArriving
    <3>3. (item[e] # 0 /\ row[item[e]] \in {"queued", "rolledback"})'
      BY <2>1, <2>4, <3>1
    <3>4. Fate(e)' \in {"accepted", "refused"}
      BY <3>3 DEF Fate
    <3>5. \A f \in Events : f # e => Fate(f)' = Fate(f)
      BY <2>2, <2>4, <3>1 DEF PromiseInv, Shape, AloneWhileInserting
    <3> QED BY <2>1, <3>2, <3>4, <3>5, DecideStep
  <2> QED BY <2>3, <2>4
<1> QED BY <1>1, <1>2, <1>3 DEF Producer, Promise!Next

LEMMA StoresKeepsPromise ==
  ASSUME PromiseInv, PromiseInv', NEW l \in Loops, Stores(l)
  PROVE  [Promise!Next]_Promise!vars
<1>t. TypeOK
  BY DEF PromiseInv, OrderInv, ClaimInv, OnceInv
<1> DEFINE S == {e \in Events : item[e] \in Mine(l)}
<1>1. /\ \A i \in Mine(l) : i \in Ids /\ row[i] = "queued" /\ row'[i] = "gone" /\ Holds(l, i)
      /\ \A i \in Ids : i \notin Mine(l) => row'[i] = row[i]
  BY <1>t, StoreRows
<1>2. /\ pc[l] # "idle" /\ UNCHANGED <<item, before, dead>>
      /\ storedEvents' = storedEvents \cup {e \in snap[l] : item[e] \in Mine(l)}
  BY DEF Stores, Store
<1>3. ASSUME NEW e \in Events PROVE Fate(e)' = IF e \in S THEN "stored" ELSE Fate(e)
  <2>1. CASE e \in S
    <3>1. e \in snap[l]
      BY <1>1, <1>2, <2>1
      DEF Holds, PromiseInv, OrderInv, ClaimInv, HasToken, SnapHeld
    <3>2. (item[e] # 0 /\ row[item[e]] = "gone" /\ e \in storedEvents)'
      BY <1>1, <1>2, <2>1, <3>1 DEF Ids
    <3>3. Fate(e)' = "stored"
      BY <3>2 DEF Fate, SettledAs
    <3> QED BY <2>1, <3>3
  <2>2. CASE e \notin S
    <3>1. item[e] # 0 => row'[item[e]] = row[item[e]]
      BY <1>t, <1>1, <2>2 DEF TypeOK
    <3>2. e \in storedEvents' <=> e \in storedEvents
      BY <1>2, <2>2
    <3> QED BY <1>2, <2>2, <3>1, <3>2, FateSame
  <2> QED BY <2>1, <2>2
<1>4. CASE S = {}
  BY <1>2, <1>3, <1>4, QuietStutters
<1>5. CASE S # {}
  <2>1. \A e \in S : Fate(e) = "accepted"
    BY <1>1, FateAccepted DEF Ids
  <2>2. ASSUME NEW e \in S, NEW p \in before[e], SameTag(p, e), Fate(p) = "accepted"
        PROVE  p \in S /\ p.state = e.state
    <3>1. p \in Events
      BY <1>t DEF TypeOK
    <3>2. item[p] = item[e] /\ p.state = e.state
      BY <1>1, <1>2, <2>2, HeldInTurn
    <3> QED BY <3>1, <3>2
  <2>3. \A e \in S : before[e] \subseteq Events
    BY <1>t DEF TypeOK
  <2> HIDE DEF S
  <2>4. \E R \in SUBSET Promise!With("accepted") : Promise!Settle(R)
    <3>1. S \subseteq Events
      BY DEF S
    <3> QED BY <1>2, <1>3, <1>5, <2>1, <2>2, <2>3, <3>1, SettleStep
  <2> QED BY <2>4 DEF Promise!Next
<1> QED BY <1>4, <1>5

LEMMA BuriesKeepsPromise ==
  ASSUME PromiseInv, PromiseInv', NEW l \in Loops, NEW i \in Ids, Buries(l, i)
  PROVE  [Promise!Next]_Promise!vars
<1>t. TypeOK
  BY DEF PromiseInv, OrderInv, ClaimInv, OnceInv
<1> DEFINE S == {e \in Events : item[e] = i /\ Holds(l, i)}
<1>1. /\ Holds(l, i) => row[i] = "queued" /\ row'[i] = "gone" /\ dead' = dead \cup {i}
      /\ ~Holds(l, i) => row'[i] = row[i] /\ dead' = dead
      /\ \A j \in Ids : j # i => row'[j] = row[j]
  BY <1>t, BuryRows
<1>2. pc[l] # "idle" /\ UNCHANGED <<item, before, storedEvents>>
  BY DEF Buries
<1>3. ASSUME NEW e \in Events PROVE Fate(e)' = IF e \in S THEN "dead" ELSE Fate(e)
  <2>1. CASE e \in S
    <3>1. item[e] # 0 /\ row[item[e]] = "queued"
      BY <1>1, <2>1 DEF Ids
    <3>2. e \notin storedEvents
      BY <3>1 DEF PromiseInv, Shape, StoredGone
    <3>3. (item[e] # 0 /\ row[item[e]] = "gone" /\ e \notin storedEvents /\ item[e] \in dead)'
      BY <1>1, <1>2, <2>1, <3>1, <3>2
    <3>4. Fate(e)' = "dead"
      BY <3>3 DEF Fate, SettledAs
    <3> QED BY <2>1, <3>4
  <2>2. CASE e \notin S
    <3>1. item[e] # 0 => row'[item[e]] = row[item[e]] /\ (item[e] \in dead' <=> item[e] \in dead)
      BY <1>t, <1>1, <2>2 DEF TypeOK
    <3> QED BY <1>2, <2>2, <3>1, FateSame
  <2> QED BY <2>1, <2>2
<1>4. CASE S = {}
  BY <1>2, <1>3, <1>4, QuietStutters
<1>5. CASE S # {}
  <2>1. \A e \in S : Fate(e) = "accepted"
    BY <1>1, FateAccepted DEF Ids
  <2>2. ASSUME NEW e \in S, NEW p \in before[e], SameTag(p, e), Fate(p) = "accepted"
        PROVE  p \in S /\ p.state = e.state
    <3>1. p \in Events
      BY <1>t DEF TypeOK
    <3>2. item[p] = item[e] /\ p.state = e.state
      BY <1>1, <1>2, <2>2, HeldInTurn
    <3> QED BY <3>1, <3>2
  <2>3. \A e \in S : before[e] \subseteq Events
    BY <1>t DEF TypeOK
  <2>4. S \subseteq Events
    OBVIOUS
  <2> HIDE DEF S
  <2>5. \E R \in SUBSET Promise!With("accepted") : Promise!Settle(R)
    BY <1>2, <1>3, <1>5, <2>1, <2>2, <2>3, <2>4, SettleStep
  <2> QED BY <2>5 DEF Promise!Next
<1> QED BY <1>4, <1>5

\* The queue keeps its promise: what a producer handed over is accepted or
\* refused, settled once, and in turn within its tag, whatever the leases,
\* retries, crashes and lost answers between.
THEOREM QueueKeepsPromise == Spec => KeepsPromise
<1>1. PromiseInv /\ PromiseInv' /\ [Next]_vars => [Promise!Next]_Promise!vars
  <2> SUFFICES ASSUME PromiseInv, PromiseInv', [Next]_vars
               PROVE  [Promise!Next]_Promise!vars
    OBVIOUS
  <2>1. ASSUME Quiet PROVE UNCHANGED Promise!vars
    BY <2>1, FateSame, QuietStutters DEF Quiet
  <2>2. TypeOK
    BY DEF PromiseInv, OrderInv, ClaimInv, OnceInv
  <2> QED BY <2>1, <2>2, StepKinds, ProducerKeepsPromise, StoresKeepsPromise,
             BuriesKeepsPromise
<1> QED BY <1>1, PromiseInit, PromiseInvariant, PTL
        DEF Spec, KeepsPromise, Promise!Spec
=============================================================================

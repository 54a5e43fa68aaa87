------------------------- MODULE OutageIntakeProofs -------------------------
(***************************************************************************)
(* Proofs about OutageIntake, for any works, desks and bounds: its types,  *)
(* that the scope locks are held by compatible works, and that no work     *)
(* opens an incident beside one it could have joined.                      *)
(***************************************************************************)
EXTENDS OutageIntake, TLAPS

-----------------------------------------------------------------------------
(* Types *)

LEMMA InitTyped == Init => TypeOK
BY BoundsAssumption, SMT DEF Init, TypeOK, NoRequest, Statuses, PcStates

LEMMA NextTyped == TypeOK /\ [Next]_vars => TypeOK'
<1> SUFFICES ASSUME TypeOK, [Next]_vars PROVE TypeOK'
    OBVIOUS
<1> USE DEF TypeOK, PcStates
<1>1. CASE UNCHANGED vars
      BY <1>1 DEF vars, incidents, history
<1>2. ASSUME NEW w \in Works, LockSubstation(w) PROVE TypeOK'
      BY <1>2 DEF LockSubstation, incidents, history
<1>3. ASSUME NEW w \in Works, LockFeeder(w) PROVE TypeOK'
      BY <1>3 DEF LockFeeder, incidents, history
<1>4. ASSUME NEW w \in Works, NEW i \in Incidents, Found(w, i) PROVE TypeOK'
      <2>1. i # 0
            BY BoundsAssumption DEF Incidents
      <2> QED
            BY <1>4, <2>1 DEF Found, incidents, history
<1>4a. ASSUME NEW w \in Works, FoundNone(w) PROVE TypeOK'
      BY <1>4a DEF FoundNone, Created, incidents
<1>5. ASSUME NEW w \in Works, Attach(w) PROVE TypeOK'
      BY <1>5 DEF Attach, incidents, history
<1>6. ASSUME NEW w \in Works, Merge(w) PROVE TypeOK'
      <2>1. w.tags \subseteq Tags
            BY DEF Tags
      <2>2. pick[w] \in Incidents
            BY <1>6 DEF Merge
      <2>3. tags' \in [Incidents -> SUBSET Tags]
            BY <1>6, <2>1 DEF Merge
      <2> QED
            BY <1>6, <2>2, <2>3 DEF Merge
<1>7. ASSUME NEW w \in Works, Create(w) PROVE TypeOK'
      <2>1. w.tags \subseteq Tags
            BY DEF Tags
      <2> QED
            BY <1>7, <2>1 DEF Create, Created, Statuses
<1>8. ASSUME NEW w \in Works, RemoveTag(w) PROVE TypeOK'
      BY <1>8 DEF RemoveTag, Active, Created, history
<1>9. ASSUME NEW w \in Works, NEW i \in Incidents, Restore(w, i) PROVE TypeOK'
      BY <1>9 DEF Restore, Statuses, history
<1>10. ASSUME NEW w \in Works, CloseMomentary(w) PROVE TypeOK'
      BY <1>10 DEF CloseMomentary, Statuses, history
<1>11. ASSUME NEW w \in Works, FinishReclose(w) PROVE TypeOK'
      BY <1>11 DEF FinishReclose, incidents, history
<1>12. ASSUME NEW w \in Works, Abort(w) PROVE TypeOK'
      BY <1>12, BoundsAssumption DEF Abort, Fault, incidents
<1>13. ASSUME NEW w \in Works, FailReclose(w) PROVE TypeOK'
      BY <1>13, BoundsAssumption DEF FailReclose, Fault, incidents
<1>14. ASSUME NEW d \in Desks, DeskWrite(d) PROVE TypeOK'
      <2>1. /\ desk[d].inc \in Incidents
            /\ desk[d].to \in Statuses
            BY <1>14 DEF DeskWrite
      <2>2. /\ status' \in [Incidents -> Statuses]
            /\ stale' \subseteq Incidents
            BY <1>14, <2>1 DEF DeskWrite
      <2>3. /\ desk' \in [Desks -> [at : {"idle", "read", "done"}, inc : Incidents \cup {0},
                                    from : Statuses, to : Statuses]]
            /\ \A e \in Desks : desk'[e].at = "read" => desk'[e].inc # 0
            BY <1>14 DEF DeskWrite
      <2> QED
            BY <1>14, <2>2, <2>3 DEF DeskWrite
<1>15. ASSUME NEW d \in Desks, NEW i \in Incidents, DeskRead(d, i) PROVE TypeOK'
      <2>1. \A s \in Statuses : Transitions(s) \cup {Assigned(s)} \subseteq Statuses
            BY DEF Transitions, Assigned, Statuses
      <2>2. i # 0
            BY BoundsAssumption DEF Incidents
      <2>3. status[i] \in Statuses
            OBVIOUS
      <2>4. PICK to \in Statuses :
              desk' = [desk EXCEPT ![d] = [at |-> "read", inc |-> i, from |-> status[i], to |-> to]]
            BY <1>15, <2>1, <2>3 DEF DeskRead
      <2> QED
            BY <1>15, <2>2, <2>3, <2>4 DEF DeskRead, incidents, history
<1>16. ASSUME NEW i \in Incidents, Age(i) PROVE TypeOK'
      BY <1>16 DEF Age, history
<1> QED
      BY <1>1, <1>2, <1>3, <1>4, <1>4a, <1>5, <1>6, <1>7, <1>8, <1>9, <1>10, <1>11,
         <1>12, <1>13, <1>14, <1>15, <1>16
      DEF Next, WorkStep, Failure, ControlRoom

\* Every variable of the intake keeps its type.
THEOREM IntakeTypeCorrect == Spec => []TypeOK
<1>1. QED
      BY InitTyped, NextTyped, PTL DEF Spec

-----------------------------------------------------------------------------
(* One incident per fault.  The locks that are held are compatible; a work   *)
(* that found nothing to join still has nothing to join that it did not see  *)
(* (Settled); ids are handed out in order, by works that are done after it.  *)

SubstationHeld ==
  \A v, w \in Works :
    v # w /\ HasSubstation(v) /\ HasSubstation(w) /\ v.substation = w.substation
      => ~Exclusive(v) /\ ~Exclusive(w)

FeederHeld ==
  \A v, w \in Works : v # w /\ HasFeeder(v) /\ HasFeeder(w) => v.feeder # w.feeder

Joinable(w, i) == InScope(w, i) /\ Joins(w, i)

Settled ==
  \A w \in Works : pc[w] = "create"
    => \A i \in Created : Joinable(w, i) => i \in passed[w]

InOrder == \A i, j \in Incidents : i < j /\ j \in Created => i \in Created

CreatorsDone == \A i \in Created : pc[creator[i]] = "done"

LockInv == SubstationHeld /\ FeederHeld /\ Settled /\ InOrder /\ CreatorsDone
             /\ OneIncidentPerFault

\* What the argument rests on does not change: no incident is created, no lock
\* is taken, and no work that found nothing looks again.
Calm ==
  /\ creator' = creator
  /\ \A v \in Works :
       /\ \/ pc'[v] = pc[v]
          \/ pc'[v] \in {"waiting", "reclosing", "done"}
          \/ pc[v] = "scoped" /\ pc'[v] = "merge"
       /\ pc[v] = "done" => pc'[v] = "done"
       /\ pc'[v] # "waiting" => passed'[v] = passed[v]

LEMMA CalmKeepsLockInv ==
  ASSUME TypeOK, LockInv, Calm
  PROVE  LockInv'
<1> USE DEF LockInv
<1>1. Created' = Created
      BY DEF Calm, Created
<1>2. \A v \in Works : HasSubstation(v)' => HasSubstation(v)
      BY DEF Calm, HasSubstation
<1>3. \A v \in Works : HasFeeder(v)' => HasFeeder(v)
      BY DEF Calm, HasFeeder
<1>4. SubstationHeld'
      BY <1>2 DEF SubstationHeld, Exclusive
<1>5. FeederHeld'
      BY <1>3 DEF FeederHeld
<1>6. \A v \in Works, i \in Incidents : Joinable(v, i)' <=> Joinable(v, i)
      BY DEF Calm, Joinable, InScope, SameScope, Joins, SameCause
<1>7. Settled'
      <2>1. \A v \in Works : pc'[v] = "create" => pc[v] = "create" /\ passed'[v] = passed[v]
            BY DEF Calm
      <2> QED
            BY <1>1, <1>6, <2>1 DEF Settled, Created
<1>8. InOrder'
      BY <1>1 DEF InOrder
<1>9. \A i \in Created : creator[i] \in Works /\ pc[creator[i]] = "done"
      BY DEF CreatorsDone, Created, TypeOK
<1>10. CreatorsDone'
      BY <1>1, <1>9 DEF CreatorsDone, Calm
<1>11. OneIncidentPerFault'
      <2>1. \A i \in Created : passed'[creator[i]] = passed[creator[i]]
            BY <1>9 DEF Calm
      <2>2. \A i, j \in Created : Joinable(creator[j], i) => InScope(creator[j], i) /\ Joins(creator[j], i)
            BY DEF Joinable
      <2>3. SUFFICES ASSUME NEW i \in Created, NEW j \in Created, i < j,
                            Joinable(creator[j], i)'
                     PROVE  i \in passed[creator[j]]
            BY <1>1, <2>1 DEF OneIncidentPerFault, Joinable, Calm
      <2>4. Joinable(creator[j], i)
            BY <1>6, <1>9, <2>3 DEF Calm, Created
      <2> QED
            BY <2>2, <2>3, <2>4 DEF OneIncidentPerFault
<1> QED
      BY <1>4, <1>5, <1>7, <1>8, <1>10, <1>11

LEMMA CalmSteps ==
  ASSUME TypeOK, NEW w \in Works,
         \/ \E i \in Incidents : Found(w, i) \/ Restore(w, i)
         \/ Attach(w) \/ Merge(w) \/ RemoveTag(w) \/ CloseMomentary(w)
         \/ FinishReclose(w) \/ Abort(w) \/ FailReclose(w)
  PROVE  Calm
<1> USE DEF TypeOK, incidents, history, Calm
<1>1. ASSUME NEW i \in Incidents, Found(w, i) PROVE Calm
      BY <1>1 DEF Found
<1>2. CASE Attach(w)
      BY <1>2 DEF Attach
<1>3. CASE Merge(w)
      BY <1>3 DEF Merge
<1>4. CASE RemoveTag(w)
      BY <1>4 DEF RemoveTag, Due
<1>5. ASSUME NEW i \in Incidents, Restore(w, i) PROVE Calm
      BY <1>5 DEF Restore
<1>6. CASE CloseMomentary(w)
      BY <1>6 DEF CloseMomentary
<1>7. CASE FinishReclose(w)
      BY <1>7 DEF FinishReclose
<1>8. CASE Abort(w)
      BY <1>8 DEF Abort
<1>9. CASE FailReclose(w)
      BY <1>9 DEF FailReclose
<1> QED
      BY <1>1, <1>2, <1>3, <1>4, <1>5, <1>6, <1>7, <1>8, <1>9

LEMMA CalmDesk ==
  ASSUME TypeOK, ControlRoom \/ (\E i \in Incidents : Age(i)) \/ UNCHANGED vars
  PROVE  Calm
BY DEF TypeOK, ControlRoom, DeskRead, DeskWrite, Age, vars, incidents, history, Calm

\* Taking a lock keeps the locks held compatible, and nothing else changes.
LEMMA LockingKeepsLockInv ==
  ASSUME TypeOK, LockInv, NEW w \in Works, LockSubstation(w) \/ LockFeeder(w)
  PROVE  LockInv'
<1> USE DEF LockInv
<1>1. /\ UNCHANGED <<creator, passed>>
      /\ Created' = Created
      BY DEF LockSubstation, LockFeeder, incidents, history, Created
<1>2. /\ \A v \in Works \ {w} : pc'[v] = pc[v]
      /\ pc[w] \in {"waiting", "substation"}
      /\ pc'[w] \in {"substation", "scoped"}
      BY DEF LockSubstation, LockFeeder, Due, TypeOK
<1>3. SubstationHeld'
      <2>1. SUFFICES ASSUME NEW v \in Works, v # w, HasSubstation(v)', HasSubstation(w)',
                            v.substation = w.substation
                     PROVE  ~Exclusive(v) /\ ~Exclusive(w)
            BY <1>2 DEF SubstationHeld, HasSubstation, Exclusive
      <2>2. HasSubstation(v)
            BY <1>2, <2>1 DEF HasSubstation
      <2>3. CASE LockSubstation(w)
            BY <2>1, <2>2, <2>3 DEF LockSubstation
      <2>4. CASE LockFeeder(w)
            BY <2>1, <2>2, <2>4 DEF LockFeeder, SubstationHeld, HasSubstation
      <2> QED
            BY <2>3, <2>4
<1>4. FeederHeld'
      <2>1. SUFFICES ASSUME NEW v \in Works, v # w, HasFeeder(v)', HasFeeder(w)'
                     PROVE  v.feeder # w.feeder
            BY <1>2 DEF FeederHeld, HasFeeder
      <2>2. HasFeeder(v)
            BY <1>2, <2>1 DEF HasFeeder
      <2>3. LockFeeder(w)
            BY <1>2, <2>1 DEF LockSubstation, HasFeeder, TypeOK
      <2> QED
            BY <2>1, <2>2, <2>3 DEF LockFeeder
<1>5. Settled'
      BY <1>1, <1>2 DEF Settled, Joinable, InScope, SameScope, Joins, SameCause, Created
<1>6. InOrder'
      BY <1>1 DEF InOrder
<1>7. CreatorsDone'
      BY <1>1, <1>2 DEF CreatorsDone, Created, TypeOK
<1>8. OneIncidentPerFault'
      BY <1>1 DEF OneIncidentPerFault, InScope, SameScope, Joins, SameCause
<1> QED
      BY <1>3, <1>4, <1>5, <1>6, <1>7, <1>8

\* A work that found nothing saw every incident there was.
LEMMA FoundNoneKeepsLockInv ==
  ASSUME TypeOK, LockInv, NEW w \in Works, FoundNone(w)
  PROVE  LockInv'
<1> USE DEF LockInv
<1>1. /\ creator' = creator
      /\ Created' = Created
      BY DEF FoundNone, incidents, Created
<1>2. /\ \A v \in Works \ {w} : pc'[v] = pc[v] /\ passed'[v] = passed[v]
      /\ pc[w] = "scoped" /\ pc'[w] = "create" /\ passed'[w] = Created
      BY DEF FoundNone, TypeOK
<1>3. SubstationHeld'
      BY <1>2 DEF SubstationHeld, HasSubstation, Exclusive
<1>4. FeederHeld'
      BY <1>2 DEF FeederHeld, HasFeeder
<1>5. Settled'
      BY <1>1, <1>2 DEF Settled, Joinable, InScope, SameScope, Joins, SameCause
<1>6. InOrder'
      BY <1>1 DEF InOrder
<1>7. \A i \in Created : creator[i] \in Works \ {w}
      BY <1>2 DEF CreatorsDone, Created, TypeOK
<1>8. CreatorsDone'
      BY <1>1, <1>2, <1>7 DEF CreatorsDone
<1>9. OneIncidentPerFault'
      BY <1>1, <1>2, <1>7 DEF OneIncidentPerFault, InScope, SameScope, Joins, SameCause
<1> QED
      BY <1>3, <1>4, <1>5, <1>6, <1>8, <1>9

\* While a work is about to create, every other work in its scope is kept out.
LEMMA CreatorsExcludeEachOther ==
  ASSUME TypeOK, LockInv, NEW v \in Works, NEW w \in Works, v # w,
         pc[v] = "create", pc[w] = "create", NEW i \in Incidents, creator'[i] = w
  PROVE  ~InScope(v, i)'
<1>1. /\ (v.feeder # NoFeeder => HasFeeder(v)) /\ (w.feeder # NoFeeder => HasFeeder(w))
      /\ (v.substation # NoSubstation => HasSubstation(v))
      /\ (w.substation # NoSubstation => HasSubstation(w))
      BY DEF HasFeeder, HasSubstation
<1>2. CASE v.feeder # NoFeeder
      BY <1>1, <1>2 DEF InScope, SameScope, LockInv, FeederHeld, SubstationHeld, Exclusive
<1>3. CASE v.feeder = NoFeeder
      BY <1>1, <1>3 DEF InScope, SameScope, LockInv, SubstationHeld, Exclusive
<1> QED
      BY <1>2, <1>3

LEMMA CreateKeepsLockInv ==
  ASSUME TypeOK, LockInv, NEW w \in Works, Create(w)
  PROVE  LockInv'
<1> USE DEF LockInv
<1>1. PICK k \in Incidents \ Created :
        /\ \A j \in Incidents \ Created : k <= j
        /\ creator' = [creator EXCEPT ![k] = w]
      BY DEF Create
<1>2. /\ \A v \in Works \ {w} : pc'[v] = pc[v]
      /\ pc[w] = "create" /\ pc'[w] = "done" /\ passed' = passed
      BY DEF Create, TypeOK
<1>3. /\ Created' = Created \cup {k}
      /\ creator'[k] = w
      /\ \A i \in Created : creator'[i] = creator[i] /\ creator[i] \in Works \ {w}
      BY <1>1, <1>2, WorksAssumption DEF Created, TypeOK, CreatorsDone
<1>4. SubstationHeld'
      BY <1>2 DEF SubstationHeld, HasSubstation, Exclusive
<1>5. FeederHeld'
      BY <1>2 DEF FeederHeld, HasFeeder
<1>6. Settled'
      <2>1. SUFFICES ASSUME NEW v \in Works, pc'[v] = "create", NEW i \in Created',
                            Joinable(v, i)'
                     PROVE  i \in passed[v]
            BY <1>2 DEF Settled
      <2>2. v # w /\ pc[v] = "create"
            BY <1>2, <2>1
      <2>3. i # k
            BY <1>2, <1>3, <2>1, <2>2, CreatorsExcludeEachOther DEF Joinable
      <2>4. i \in Created /\ Joinable(v, i)
            BY <1>3, <2>1, <2>3 DEF Joinable, InScope, SameScope, Joins, SameCause
      <2> QED
            BY <2>2, <2>4 DEF Settled
<1>7. Incidents \subseteq Nat /\ Created \subseteq Incidents
      BY BoundsAssumption DEF Incidents, Created
<1>8. InOrder'
      BY <1>1, <1>3, <1>7 DEF InOrder
<1>9. CreatorsDone'
      BY <1>2, <1>3 DEF CreatorsDone
<1>10. OneIncidentPerFault'
      <2>1. SUFFICES ASSUME NEW i \in Created', NEW j \in Created', i < j,
                            InScope(creator[j], i)', Joins(creator[j], i)'
                     PROVE  i \in passed[creator'[j]]
            BY <1>2 DEF OneIncidentPerFault
      <2>2. i \in Created
            <3>1. i \in Incidents /\ j \in Incidents /\ k \in Nat
                  BY <1>3, <1>7, <2>1
            <3>2. CASE j \in Created
                  BY <2>1, <3>1, <3>2 DEF InOrder
            <3>3. CASE j = k
                  BY <1>3, <1>7, <2>1, <3>1, <3>3
            <3> QED
                  BY <1>3, <2>1, <3>2, <3>3
      <2>3. CASE j \in Created
            BY <1>3, <2>1, <2>2, <2>3 DEF OneIncidentPerFault, InScope, SameScope, Joins, SameCause
      <2>4. CASE j = k
            <3>1. Joinable(w, i)
                  BY <1>3, <2>1, <2>2, <2>4 DEF Joinable, InScope, SameScope, Joins, SameCause
            <3> QED
                  BY <1>2, <1>3, <2>2, <2>4, <3>1 DEF Settled
      <2> QED
            BY <1>3, <2>3, <2>4
<1> QED
      BY <1>4, <1>5, <1>6, <1>8, <1>9, <1>10

LEMMA InitLockInv == Init => LockInv
BY WorksAssumption
DEF Init, LockInv, SubstationHeld, FeederHeld, Settled, InOrder, CreatorsDone,
    OneIncidentPerFault, HasSubstation, HasFeeder, Created

LEMMA NextLockInv == TypeOK /\ LockInv /\ [Next]_vars => LockInv'
<1> SUFFICES ASSUME TypeOK, LockInv, [Next]_vars PROVE LockInv'
    OBVIOUS
<1>1. ASSUME NEW w \in Works, WorkStep(w) \/ Failure(w) PROVE LockInv'
      <2>1. CASE LockSubstation(w) \/ LockFeeder(w)
            BY <2>1, LockingKeepsLockInv
      <2>2. CASE FoundNone(w)
            BY <2>2, FoundNoneKeepsLockInv
      <2>3. CASE Create(w)
            BY <2>3, CreateKeepsLockInv
      <2>4. CASE \/ \E i \in Incidents : Found(w, i) \/ Restore(w, i)
                 \/ Attach(w) \/ Merge(w) \/ RemoveTag(w) \/ CloseMomentary(w)
                 \/ FinishReclose(w) \/ Abort(w) \/ FailReclose(w)
            BY <2>4, CalmSteps, CalmKeepsLockInv
      <2> QED
            BY <1>1, <2>1, <2>2, <2>3, <2>4 DEF WorkStep, Failure
<1>2. CASE ControlRoom \/ (\E i \in Incidents : Age(i)) \/ UNCHANGED vars
      BY <1>2, CalmDesk, CalmKeepsLockInv
<1> QED
      BY <1>1, <1>2 DEF Next

\* Two events of one scope never both find nothing to join and both open an
\* incident, whatever fails in between and whatever the control room writes.
THEOREM ScopeLocksHold == Spec => []OneIncidentPerFault
<1>1. LockInv => OneIncidentPerFault
      BY DEF LockInv
<1> QED
      BY <1>1, IntakeTypeCorrect, InitLockInv, NextLockInv, PTL DEF Spec

-----------------------------------------------------------------------------
(* No emptied incident is left behind.  Only a reclose at work has some-   *)
(* thing in hand, so the incidents others emptied stay theirs; the control room       *)
(* revives an incident only by a stale write.                                *)

StatusKnown == \A i \in Incidents : i \in Created <=> status[i] # "none"
TrippedCreated == tripped \subseteq Created
IdleHands == \A w \in Works : pc[w] # "reclosing" => touched[w] = {}
DeskLegal == \A d \in Desks : desk[d].at = "read" =>
  /\ desk[d].inc \in Created
  /\ desk[d].from # "none"
  /\ desk[d].to \in Transitions(desk[d].from) \cup {Assigned(desk[d].from)}

InHand == \A w \in Works : /\ touched[w] \subseteq Created
                           /\ closing[w] # 0 => closing[w] \in Created

Joined == \A w \in Works : pc[w] = "merge" => pick[w] \in Created

RestInv == StatusKnown /\ TrippedCreated /\ IdleHands /\ DeskLegal /\ Joined
             /\ InHand /\ EmptiedIsRestored

LEMMA ActiveIsRestorable ==
  ASSUME TypeOK, StatusKnown, NEW i \in Active
  PROVE  CanScadaRestore(status[i])
BY DEF TypeOK, StatusKnown, Active, Created, Over, Statuses, CanScadaRestore

\* A request of the control room takes no incident from over to active.
LEMMA OverStaysOver ==
  ASSUME NEW from \in Over, NEW to \in Transitions(from) \cup {Assigned(from)}
  PROVE  to \in Over
BY DEF Over, Transitions, Assigned

LEMMA KnownStaysKnown ==
  ASSUME NEW from \in Statuses, from # "none",
         NEW to \in Transitions(from) \cup {Assigned(from)}
  PROVE  to # "none"
BY DEF Statuses, Transitions, Assigned

\* Steps that leave incidents and hands alone.
LEMMA QuietKeepsRestInv ==
  ASSUME TypeOK, RestInv, UNCHANGED <<creator, status, tags, tripped, touched, closing, desk>>,
         dropped \subseteq dropped', stale \subseteq stale',
         \A w \in Works : pc'[w] # "reclosing" => touched[w] = {},
         \A w \in Works : pc'[w] = "merge" => pick'[w] \in Created
  PROVE  RestInv'
<1>1. Created' = Created /\ Active' = Active
      BY DEF Created, Active
<1> QED
      BY <1>1 DEF RestInv, StatusKnown, TrippedCreated, IdleHands, DeskLegal, Joined,
                  InHand, EmptiedIsRestored

LEMMA QuietSteps ==
  ASSUME TypeOK, RestInv, NEW w \in Works,
         \/ LockSubstation(w) \/ LockFeeder(w) \/ FoundNone(w) \/ Attach(w)
         \/ FinishReclose(w) \/ Abort(w) \/ \E i \in Incidents : Found(w, i)
  PROVE  RestInv'
<1> USE DEF TypeOK, incidents, history, RestInv, IdleHands, Joined
<1>1. CASE LockSubstation(w)
      BY <1>1, QuietKeepsRestInv DEF LockSubstation, Due
<1>2. CASE LockFeeder(w)
      BY <1>2, QuietKeepsRestInv DEF LockFeeder
<1>3. CASE FoundNone(w)
      BY <1>3, QuietKeepsRestInv DEF FoundNone
<1>4. CASE Attach(w)
      BY <1>4, QuietKeepsRestInv DEF Attach
<1>5. CASE FinishReclose(w)
      BY <1>5, QuietKeepsRestInv DEF FinishReclose
<1>6. CASE Abort(w)
      BY <1>6, QuietKeepsRestInv DEF Abort
<1>7. ASSUME NEW i \in Incidents, Found(w, i) PROVE RestInv'
      <2>1. i \in Created
            BY <1>7 DEF Found, Candidates, Active
      <2> QED
            BY <1>7, <2>1, QuietKeepsRestInv DEF Found
<1> QED
      BY <1>1, <1>2, <1>3, <1>4, <1>5, <1>6, <1>7

LEMMA MergeKeepsRestInv ==
  ASSUME TypeOK, RestInv, NEW w \in Works, Merge(w)
  PROVE  RestInv'
<1> USE DEF RestInv
<1>1. /\ pick[w] \in Created
      /\ tags' = [tags EXCEPT ![pick[w]] = @ \cup w.tags]
      /\ tripped' = IF w.tags # {} THEN tripped \cup {pick[w]} ELSE tripped
      /\ UNCHANGED <<creator, status, pick, touched, closing, desk, dropped, stale>>
      BY DEF Merge, Joined
<1>2. Created' = Created /\ Active' = Active
      BY <1>1 DEF Created, Active
<1>3. EmptiedIsRestored'
      <2>1. SUFFICES ASSUME NEW i \in Incidents, i \in Active, i \in tripped', i \notin dropped \cup stale,
                            tags'[i] = {}
                     PROVE  \E v \in Works : i \in touched[v]
            BY <1>1, <1>2 DEF EmptiedIsRestored, Active, Created
      <2>2. i \in tripped /\ tags[i] = {}
            BY <1>1, <2>1 DEF TypeOK, Active, Created
      <2> QED
            BY <2>1, <2>2 DEF EmptiedIsRestored
<1>4. StatusKnown' /\ TrippedCreated' /\ DeskLegal'
      BY <1>1, <1>2 DEF StatusKnown, TrippedCreated, DeskLegal
<1>5. IdleHands' /\ Joined' /\ InHand'
      BY <1>1, <1>2 DEF Merge, IdleHands, Joined, InHand, TypeOK
<1> QED
      BY <1>3, <1>4, <1>5

LEMMA CreateKeepsRestInv ==
  ASSUME TypeOK, RestInv, NEW w \in Works, Create(w)
  PROVE  RestInv'
<1> USE DEF RestInv
<1>1. PICK k \in Incidents \ Created :
        /\ creator' = [creator EXCEPT ![k] = w]
        /\ status' = [status EXCEPT ![k] = "open"]
        /\ tags' = [tags EXCEPT ![k] = w.tags]
        /\ tripped' = IF w.tags # {} THEN tripped \cup {k} ELSE tripped
      BY DEF Create
<1>2. UNCHANGED <<pick, touched, closing, desk, dropped, stale>>
      BY DEF Create
<1>3. Created' = Created \cup {k}
      BY <1>1, WorksAssumption DEF Created, TypeOK
<1>4. \A i \in Active' : i # k => i \in Active
      BY <1>1, <1>3 DEF Active, Created, TypeOK
<1>5. EmptiedIsRestored'
      <2>1. SUFFICES ASSUME NEW i \in Active', i \in tripped', i \notin dropped \cup stale,
                            tags'[i] = {}
                     PROVE  \E v \in Works : i \in touched[v]
            BY <1>2 DEF EmptiedIsRestored
      <2>2. i # k
            BY <1>1, <2>1 DEF TrippedCreated, TypeOK
      <2>3. i \in Active /\ i \in tripped /\ tags[i] = {}
            BY <1>1, <1>4, <2>1, <2>2 DEF TypeOK, Active, Created
      <2> QED
            BY <2>1, <2>3 DEF EmptiedIsRestored
<1>6. StatusKnown' /\ TrippedCreated' /\ DeskLegal'
      BY <1>1, <1>2, <1>3 DEF StatusKnown, TrippedCreated, DeskLegal, TypeOK
<1>7. IdleHands' /\ Joined' /\ InHand'
      BY <1>2, <1>3 DEF Create, IdleHands, Joined, InHand, TypeOK
<1> QED
      BY <1>5, <1>6, <1>7

LEMMA RemoveTagKeepsRestInv ==
  ASSUME TypeOK, RestInv, NEW w \in Works, RemoveTag(w)
  PROVE  RestInv'
<1> USE DEF RestInv
<1>1. /\ tags' = [i \in Incidents |-> IF i \in Active THEN tags[i] \ w.tags ELSE tags[i]]
      /\ touched' = [touched EXCEPT ![w] = {i \in Active : Emptied(w, i) /\ CanScadaRestore(status[i])}]
      /\ pc' = [pc EXCEPT ![w] = "reclosing"]
      /\ pc[w] = "waiting" /\ w.kind = "reclose"
      /\ UNCHANGED <<creator, status, pick, closing, desk, tripped, dropped, stale>>
      BY DEF RemoveTag, Due, history
<1>2. Created' = Created /\ Active' = Active
      BY <1>1 DEF Created, Active
<1>3. EmptiedIsRestored'
      <2>1. SUFFICES ASSUME NEW i \in Active, i \in tripped, i \notin dropped \cup stale,
                            tags'[i] = {}
                     PROVE  \E v \in Works : i \in touched'[v]
            BY <1>1, <1>2 DEF EmptiedIsRestored
      <2>2. CASE tags[i] = {}
            <3>1. PICK v \in Works : i \in touched[v]
                  BY <2>1, <2>2 DEF EmptiedIsRestored
            <3>2. v # w
                  BY <1>1, <3>1 DEF IdleHands
            <3> QED
                  BY <1>1, <3>1, <3>2 DEF TypeOK
      <2>3. CASE tags[i] # {}
            <3>1. tags[i] \ w.tags = {}
                  BY <1>1, <2>1 DEF Active, Created
            <3>2. tags[i] \cap w.tags # {}
                  BY <2>3, <3>1
            <3>3. w.tags \subseteq tags[i]
                  BY <1>1, <3>2, WorksAssumption
            <3>4. CanScadaRestore(status[i])
                  BY ActiveIsRestorable
            <3> QED
                  BY <1>1, <2>1, <3>1, <3>3, <3>4 DEF TypeOK, Emptied
      <2> QED
            BY <2>2, <2>3
<1>4. StatusKnown' /\ TrippedCreated' /\ DeskLegal'
      BY <1>1, <1>2 DEF StatusKnown, TrippedCreated, DeskLegal
<1>5. IdleHands' /\ Joined' /\ InHand'
      BY <1>1, <1>2 DEF IdleHands, Joined, InHand, Active, TypeOK
<1> QED
      BY <1>3, <1>4, <1>5

\* A write of a status that is over takes the incident out of what must be
\* restored; Restore and the closing of a momentary incident are such writes.
LEMMA EndingKeepsRestInv ==
  ASSUME TypeOK, RestInv, NEW k \in Incidents, k \in Created, NEW w \in Works,
         NEW to \in Over, status' = [status EXCEPT ![k] = to],
         UNCHANGED <<creator, tags, tripped, desk, dropped, stale, pick, pc>>,
         \A v \in Works : /\ touched'[v] \in {touched[v], touched[v] \ {k}}
                          /\ closing'[v] \in {closing[v], 0, k}
  PROVE  RestInv'
<1> USE DEF RestInv
<1>1. Created' = Created /\ Active' = Active \ {k}
      BY DEF Created, Active, TypeOK
<1>2. EmptiedIsRestored'
      <2>1. SUFFICES ASSUME NEW i \in Active, i # k, i \in tripped, i \notin dropped \cup stale,
                            tags[i] = {}
                     PROVE  \E v \in Works : i \in touched'[v]
            BY <1>1 DEF EmptiedIsRestored
      <2>2. PICK v \in Works : i \in touched[v]
            BY <2>1 DEF EmptiedIsRestored
      <2> QED
            BY <2>1, <2>2
<1>3. StatusKnown'
      BY <1>1 DEF StatusKnown, TypeOK, Over
<1>4. TrippedCreated' /\ DeskLegal' /\ Joined'
      BY <1>1 DEF TrippedCreated, DeskLegal, Joined
<1>5. IdleHands' /\ InHand'
      BY <1>1 DEF IdleHands, InHand
<1> QED
      BY <1>2, <1>3, <1>4, <1>5

LEMMA RecloseKeepsRestInv ==
  ASSUME TypeOK, RestInv, NEW w \in Works,
         (\E i \in Incidents : Restore(w, i)) \/ CloseMomentary(w) \/ FailReclose(w)
  PROVE  RestInv'
<1> USE DEF TypeOK
<1>1. ASSUME NEW i \in Incidents, Restore(w, i) PROVE RestInv'
      <2>1. i \in Created /\ "resolved" \in Over
            BY <1>1 DEF Restore, RestInv, InHand, Over
      <2>2. /\ status' = [status EXCEPT ![i] = "resolved"]
            /\ UNCHANGED <<creator, tags, tripped, desk, dropped, stale, pick, pc>>
            BY <1>1 DEF Restore, history
      <2>3. \A v \in Works : /\ touched'[v] \in {touched[v], touched[v] \ {i}}
                             /\ closing'[v] \in {closing[v], 0, i}
            BY <1>1 DEF Restore
      <2> QED
            BY <2>1, <2>2, <2>3, EndingKeepsRestInv
<1>2. CASE CloseMomentary(w)
      <2>1. closing[w] \in Created /\ closing[w] \in Incidents /\ "closed" \in Over
            BY <1>2 DEF CloseMomentary, RestInv, InHand, Over, Created
      <2>2. /\ status' = [status EXCEPT ![closing[w]] = "closed"]
            /\ UNCHANGED <<creator, tags, tripped, desk, dropped, stale, pick, pc, touched>>
            BY <1>2 DEF CloseMomentary, history
      <2>3. \A v \in Works : closing'[v] \in {closing[v], 0, closing[w]}
            BY <1>2 DEF CloseMomentary
      <2> QED
            BY <2>1, <2>2, <2>3, EndingKeepsRestInv
<1>3. CASE FailReclose(w)
      <2>1. /\ UNCHANGED <<creator, status, tags, tripped, desk, stale, pick>>
            /\ dropped' = dropped \cup touched[w]
            /\ touched' = [touched EXCEPT ![w] = {}]
            /\ closing' = [closing EXCEPT ![w] = 0]
            /\ pc' = [pc EXCEPT ![w] = "waiting"]
            BY <1>3 DEF FailReclose, incidents
      <2>2. Created' = Created /\ Active' = Active
            BY <2>1 DEF Created, Active
      <2>3. EmptiedIsRestored'
            <3>1. SUFFICES ASSUME NEW i \in Active, i \in tripped, i \notin dropped' \cup stale,
                                  tags[i] = {}
                           PROVE  \E v \in Works : i \in touched'[v]
                  BY <2>1, <2>2 DEF EmptiedIsRestored
            <3>2. PICK v \in Works : i \in touched[v]
                  BY <2>1, <3>1 DEF RestInv, EmptiedIsRestored
            <3> QED
                  BY <2>1, <3>1, <3>2
      <2>4. StatusKnown' /\ TrippedCreated' /\ DeskLegal'
            BY <2>1, <2>2 DEF RestInv, StatusKnown, TrippedCreated, DeskLegal
      <2>5. IdleHands' /\ Joined' /\ InHand'
            BY <2>1, <2>2 DEF RestInv, IdleHands, Joined, InHand
      <2> QED
            BY <2>3, <2>4, <2>5 DEF RestInv
<1> QED
      BY <1>1, <1>2, <1>3

LEMMA DeskKeepsRestInv ==
  ASSUME TypeOK, RestInv, NEW d \in Desks,
         DeskWrite(d) \/ \E i \in Incidents : DeskRead(d, i)
  PROVE  RestInv'
<1> USE DEF RestInv
<1>1. ASSUME NEW i \in Incidents, DeskRead(d, i) PROVE RestInv'
      <2>1. /\ UNCHANGED <<creator, status, tags, tripped, touched, closing, pc, pick, dropped, stale>>
            /\ Created' = Created /\ Active' = Active
            BY <1>1 DEF DeskRead, incidents, history, Created, Active
      <2>2. i \in Created /\ status[i] # "none"
            BY <1>1 DEF DeskRead, StatusKnown
      <2>3. PICK to \in Transitions(status[i]) \cup {Assigned(status[i])} :
              desk' = [desk EXCEPT ![d] = [at |-> "read", inc |-> i, from |-> status[i], to |-> to]]
            BY <1>1 DEF DeskRead
      <2>4. DeskLegal'
            BY <2>1, <2>2, <2>3 DEF DeskLegal, TypeOK
      <2> QED
            BY <2>1, <2>4 DEF StatusKnown, TrippedCreated, IdleHands, Joined, InHand,
                              EmptiedIsRestored
<1>2. CASE DeskWrite(d)
      <2> DEFINE i == desk[d].inc
                 from == desk[d].from
                 to == desk[d].to
      <2>1. /\ status' = [status EXCEPT ![i] = to]
            /\ stale' = IF status[i] # from THEN stale \cup {i} ELSE stale
            /\ UNCHANGED <<creator, tags, tripped, touched, closing, pc, pick, dropped>>
            /\ desk' = [desk EXCEPT ![d].at = "done"]
            BY <1>2 DEF DeskWrite
      <2>2. /\ i \in Created /\ from # "none" /\ from \in Statuses
            /\ to \in Transitions(from) \cup {Assigned(from)}
            BY <1>2 DEF DeskWrite, DeskLegal, TypeOK
      <2> HIDE DEF i, from, to
      <2>3. i \in Incidents /\ Created' = Created
            BY <2>1, <2>2 DEF Created
      <2>4. to # "none"
            BY <2>2, KnownStaysKnown
      <2>5. EmptiedIsRestored'
            <3>1. SUFFICES ASSUME NEW k \in Created, status'[k] \notin Over, k \in tripped,
                                  k \notin dropped \cup stale', tags[k] = {}
                           PROVE  \E v \in Works : k \in touched[v]
                  BY <2>1, <2>3 DEF EmptiedIsRestored, Active
            <3>2. status[k] \notin Over
                  <4>1. CASE k = i
                        <5>1. status[i] = from /\ status'[i] = to
                              BY <2>1, <2>3, <3>1, <4>1 DEF TypeOK
                        <5> QED
                              BY <2>2, <3>1, <4>1, <5>1, OverStaysOver
                  <4>2. CASE k # i
                        BY <2>1, <2>3, <3>1, <4>2 DEF TypeOK, Created
                  <4> QED
                        BY <4>1, <4>2
            <3>3. k \notin stale
                  BY <2>1, <3>1
            <3> QED
                  BY <3>1, <3>2, <3>3 DEF EmptiedIsRestored, Active
      <2>6. StatusKnown'
            BY <2>1, <2>2, <2>3, <2>4 DEF StatusKnown, TypeOK
      <2>7. DeskLegal'
            BY <2>1, <2>3 DEF DeskLegal, TypeOK
      <2> QED
            BY <2>1, <2>3, <2>5, <2>6, <2>7 DEF TrippedCreated, IdleHands, Joined, InHand
<1> QED
      BY <1>1, <1>2

LEMMA InitRestInv == Init => RestInv
BY DEF Init, RestInv, StatusKnown, TrippedCreated, IdleHands, DeskLegal, Joined, InHand,
       EmptiedIsRestored, Created, Active, NoRequest

LEMMA NextRestInv == TypeOK /\ RestInv /\ [Next]_vars => RestInv'
<1> SUFFICES ASSUME TypeOK, RestInv, [Next]_vars PROVE RestInv'
    OBVIOUS
<1>1. ASSUME NEW w \in Works, WorkStep(w) \/ Failure(w) PROVE RestInv'
      BY <1>1, QuietSteps, MergeKeepsRestInv, CreateKeepsRestInv, RemoveTagKeepsRestInv,
         RecloseKeepsRestInv
      DEF WorkStep, Failure
<1>2. CASE ControlRoom
      BY <1>2, DeskKeepsRestInv DEF ControlRoom
<1>3. ASSUME NEW i \in Incidents, Age(i) PROVE RestInv'
      BY <1>3, QuietKeepsRestInv DEF Age, history, RestInv, IdleHands, Joined
<1>4. CASE UNCHANGED vars
      BY <1>4, QuietKeepsRestInv DEF vars, incidents, history, RestInv, IdleHands, Joined
<1> QED
      BY <1>1, <1>2, <1>3, <1>4 DEF Next

\* An incident whose last tripped device has reclosed is in the hands of the
\* reclose that emptied it until it is restored, however recloses, trips and
\* the control room interleave; only a reclose that fails half way, or a stale
\* control room write, leaves one behind.
THEOREM EmptiedIncidentsAreRestored == Spec => []EmptiedIsRestored
<1>1. RestInv => EmptiedIsRestored
      BY DEF RestInv
<1> QED
      BY <1>1, IntakeTypeCorrect, InitRestInv, NextRestInv, PTL DEF Spec

-----------------------------------------------------------------------------
(* Incidents are opened as IncidentOpening says.  Only three steps show: a   *)
(* work that found nothing starts looking, its Create opens, its Abort       *)
(* forgets; any other work that is done was served, the rest stutter.        *)

Seen == [v \in Works |-> IF v \in Creating THEN passed[v] ELSE {}]

LEMMA InitOpens == Init => Opening!Init
<1> SUFFICES ASSUME Init PROVE Opening!Init
    OBVIOUS
<1>1. Creating = {} /\ Done = {}
      BY DEF Init, Creating, Done
<1>2. Seen = [v \in Works |-> {}]
      BY <1>1 DEF Seen
<1> QED
      BY <1>1, <1>2 DEF Init, Opening!Init, Seen

LEMMA FoundNoneOpens ==
  ASSUME TypeOK, LockInv, NEW w \in Works, FoundNone(w)
  PROVE  Opening!Look(w)
<1>1. /\ pc[w] = "scoped" /\ pc' = [pc EXCEPT ![w] = "create"]
      /\ passed' = [passed EXCEPT ![w] = Created]
      /\ creator' = creator
      BY DEF FoundNone, incidents
<1>2. /\ w \notin Creating \cup Done
      /\ Creating' = Creating \cup {w} /\ Done' = Done
      BY <1>1 DEF Creating, Done, TypeOK
<1>3. Seen' = [Seen EXCEPT ![w] = Created]
      BY <1>1, <1>2 DEF Seen, TypeOK
<1>4. ASSUME NEW v \in Creating
      PROVE  ~SameScope(v, w) /\ ~SameScope(w, v)
      <2>1. v \in Works /\ v # w /\ pc[v] = "create"
            BY <1>2, <1>4 DEF Creating
      <2>2. /\ HasFeeder(v) <=> v.feeder # NoFeeder
            /\ HasFeeder(w) <=> w.feeder # NoFeeder
            /\ HasSubstation(v) <=> v.substation # NoSubstation
            /\ HasSubstation(w) <=> w.substation # NoSubstation
            BY <1>1, <2>1 DEF HasFeeder, HasSubstation
      <2>3. /\ HasFeeder(v) /\ HasFeeder(w) => v.feeder # w.feeder
            /\ HasSubstation(v) /\ HasSubstation(w) /\ v.substation = w.substation
                 => ~Exclusive(v) /\ ~Exclusive(w)
            BY <2>1 DEF LockInv, FeederHeld, SubstationHeld
      <2> QED
            BY <2>2, <2>3 DEF SameScope, Exclusive
<1>5. \A v \in Creating : ~OneFault(v, w) /\ ~OneFault(w, v)
      BY <1>4 DEF OneFault
<1> QED
      BY <1>1, <1>2, <1>3, <1>5 DEF Opening!Look, Opening!Opened, Created, Seen

LEMMA CreateOpens ==
  ASSUME TypeOK, LockInv, NEW w \in Works, Create(w)
  PROVE  \E i \in Incidents : Opening!Open(w, i)
<1>1. PICK i \in Incidents \ Created :
        /\ \A j \in Incidents \ Created : i <= j
        /\ creator' = [creator EXCEPT ![i] = w]
      BY DEF Create
<1>2. /\ pc[w] = "create" /\ pc' = [pc EXCEPT ![w] = "done"]
      /\ passed' = passed
      BY DEF Create
<1>3. /\ w \in Creating
      /\ Creating' = Creating \ {w} /\ Done' = Done \cup {w}
      BY <1>2 DEF Creating, Done, TypeOK
<1>4. Seen' = [Seen EXCEPT ![w] = {}]
      BY <1>2, <1>3 DEF Seen, TypeOK
<1>5. \A j \in Created : OneFault(w, creator[j]) => j \in Seen[w]
      BY <1>2, <1>3 DEF OneFault, Seen, LockInv, Settled, Joinable, InScope, Joins
<1>6. Opening!Open(w, i)
      BY <1>1, <1>3, <1>4, <1>5 DEF Opening!Open, Opening!Opened, Created, Seen
<1> QED
      BY <1>6

LEMMA AbortOpens ==
  ASSUME TypeOK, NEW w \in Works, Abort(w)
  PROVE  Opening!Forget(w) \/ UNCHANGED <<creator, Creating, Seen, Done>>
<1>1. /\ pc[w] \in {"substation", "scoped", "merge", "create"}
      /\ pc' = [pc EXCEPT ![w] = "waiting"]
      /\ passed' = [passed EXCEPT ![w] = {}]
      /\ creator' = creator
      BY DEF Abort, incidents
<1>2. Creating' = Creating \ {w} /\ Done' = Done
      BY <1>1 DEF Creating, Done, TypeOK
<1>3. CASE w \in Creating
      <2>1. Seen' = [Seen EXCEPT ![w] = {}]
            BY <1>1, <1>2 DEF Seen, TypeOK
      <2> QED
            BY <1>1, <1>2, <1>3, <2>1 DEF Opening!Forget, Seen
<1>4. CASE w \notin Creating
      <2>1. Seen' = Seen
            BY <1>1, <1>2, <1>4 DEF Seen, TypeOK
      <2> QED
            BY <1>1, <1>2, <1>4, <2>1
<1> QED
      BY <1>3, <1>4

\* What is left of an item's work neither decides to open an incident nor
\* opens one; it may end the item.
LEMMA OtherWorkOpens ==
  ASSUME TypeOK, NEW w \in Works,
         \/ \E i \in Incidents : Found(w, i) \/ Restore(w, i)
         \/ LockSubstation(w) \/ LockFeeder(w)
         \/ Attach(w) \/ Merge(w) \/ RemoveTag(w) \/ CloseMomentary(w)
         \/ FinishReclose(w) \/ FailReclose(w)
  PROVE  Opening!Serve(w) \/ UNCHANGED <<creator, Creating, Seen, Done>>
<1>1. creator' = creator /\ passed' = passed
      BY DEF Found, Restore, LockSubstation, LockFeeder, Attach, Merge, RemoveTag,
             CloseMomentary, FinishReclose, FailReclose, incidents, history
<1>2. \/ pc' = pc
      \/ \E to \in PcStates \ {"create"} :
           pc[w] \notin {"create", "done"} /\ pc' = [pc EXCEPT ![w] = to]
      <2> USE DEF PcStates
      <2>1. CASE \E i \in Incidents : Found(w, i) \/ Restore(w, i)
            BY <2>1 DEF Found, Restore
      <2>2. CASE LockSubstation(w) \/ LockFeeder(w)
            BY <2>2 DEF LockSubstation, LockFeeder, Due
      <2>3. CASE Attach(w) \/ Merge(w)
            BY <2>3 DEF Attach, Merge
      <2>4. CASE RemoveTag(w) \/ CloseMomentary(w)
            BY <2>4 DEF RemoveTag, CloseMomentary, Due
      <2>5. CASE FinishReclose(w) \/ FailReclose(w)
            BY <2>5 DEF FinishReclose, FailReclose
      <2> QED
            BY <2>1, <2>2, <2>3, <2>4, <2>5
<1>3. CASE pc' = pc
      BY <1>1, <1>3 DEF Creating, Seen, Done
<1>4. ASSUME NEW to \in PcStates \ {"create"}, pc[w] \notin {"create", "done"},
             pc' = [pc EXCEPT ![w] = to]
      PROVE  Opening!Serve(w) \/ UNCHANGED <<creator, Creating, Seen, Done>>
      <2>1. /\ w \notin Creating \cup Done
            /\ Creating' = Creating
            /\ Done' = IF to = "done" THEN Done \cup {w} ELSE Done
            BY <1>4 DEF Creating, Done, TypeOK
      <2>2. Seen' = Seen
            BY <1>1, <2>1 DEF Seen
      <2>3. CASE to = "done"
            BY <1>1, <2>1, <2>2, <2>3 DEF Opening!Serve, Seen
      <2>4. CASE to # "done"
            BY <1>1, <2>1, <2>2, <2>4
      <2> QED
            BY <2>3, <2>4
<1> QED
      BY <1>2, <1>3, <1>4

LEMMA UnseenOpens ==
  ASSUME ControlRoom \/ (\E i \in Incidents : Age(i)) \/ UNCHANGED vars
  PROVE  UNCHANGED <<creator, Creating, Seen, Done>>
<1>1. UNCHANGED <<creator, pc, passed>>
      BY DEF ControlRoom, DeskRead, DeskWrite, Age, vars, incidents, history
<1> QED
      BY <1>1 DEF Creating, Seen, Done

\* Whatever interleaves, fails, is retried or written over by the control room,
\* of works that could report one fault one at a time opens an incident, and
\* none opens two (lockScope, runIntake).
THEOREM IncidentsOpenOnce == Spec => OpensOnce
<1>1. TypeOK /\ LockInv /\ [Next]_vars => [Opening!Next]_(Opening!vars)
      <2> SUFFICES ASSUME TypeOK, LockInv, [Next]_vars
                   PROVE  Opening!Next \/ UNCHANGED <<creator, Creating, Seen, Done>>
          BY DEF Opening!vars, Seen
      <2>1. ASSUME NEW w \in Works, WorkStep(w) \/ Failure(w)
            PROVE  Opening!Next \/ UNCHANGED <<creator, Creating, Seen, Done>>
            <3>1. CASE FoundNone(w)
                  BY <3>1, FoundNoneOpens DEF Opening!Next
            <3>2. CASE Create(w)
                  BY <3>2, CreateOpens DEF Opening!Next
            <3>3. CASE Abort(w)
                  BY <3>3, AbortOpens DEF Opening!Next
            <3>4. CASE \/ \E i \in Incidents : Found(w, i) \/ Restore(w, i)
                       \/ LockSubstation(w) \/ LockFeeder(w)
                       \/ Attach(w) \/ Merge(w) \/ RemoveTag(w) \/ CloseMomentary(w)
                       \/ FinishReclose(w) \/ FailReclose(w)
                  BY <3>4, OtherWorkOpens DEF Opening!Next
            <3> QED
                  BY <2>1, <3>1, <3>2, <3>3, <3>4 DEF WorkStep, Failure
      <2>2. CASE ControlRoom \/ (\E i \in Incidents : Age(i)) \/ UNCHANGED vars
            BY <2>2, UnseenOpens
      <2> QED
            BY <2>1, <2>2 DEF Next
<1> QED
      BY <1>1, InitOpens, IntakeTypeCorrect, InitLockInv, NextLockInv, PTL
      DEF Spec, OpensOnce, Opening!Spec

-----------------------------------------------------------------------------
(* What the two findings about recloses hinge on *)

\* A reclose may be called idempotent (scada.js:283) as long as none was cut
\* short with incidents in hand: that is the only way one is left emptied and
\* active by a reclose, whatever else interleaves or fails.
THEOREM WholeReclosesAreIdempotent == Spec => [](dropped = {} => RecloseIsIdempotent)
<1>1. RestInv => (dropped = {} => RecloseIsIdempotent)
      <2> SUFFICES ASSUME RestInv, dropped = {}, \A w \in Works : pc[w] = "done",
                          NEW i \in (Active \cap tripped) \ stale, tags[i] = {}
                   PROVE  FALSE
          BY DEF RecloseIsIdempotent
      <2>1. PICK w \in Works : i \in touched[w]
            BY DEF RestInv, EmptiedIsRestored
      <2> QED
            BY <2>1 DEF RestInv, IdleHands
<1> QED
      BY <1>1, IntakeTypeCorrect, InitRestInv, NextRestInv, PTL DEF Spec

\* Nothing is open on what a reclose holds or has restored, and what it has
\* restored stays over.
SafelyRestored ==
  /\ \A i \in Incidents : restoredBy[i] = "SCADA" =>
       i \in Created /\ status[i] \in {"resolved", "closed"} /\ tags[i] = {}
  /\ \A w \in Works : \A i \in touched[w] : tags[i] = {}

RechInv == TypeOK /\ RestInv /\ SafelyRestored /\ stale = {}

\* Steps that leave the incidents alone and put none into a reclose's hands.
LEMMA QuietKeepsRestored ==
  ASSUME RechInv, UNCHANGED <<creator, status, tags, restoredBy>>,
         \A w \in Works : touched'[w] \subseteq touched[w]
  PROVE  SafelyRestored'
<1>1. Created' = Created
      BY DEF Created
<1> QED
      BY <1>1 DEF RechInv, SafelyRestored

LEMMA MergeKeepsRestored ==
  ASSUME RechInv, LooksAgain, NEW w \in Works, Merge(w)
  PROVE  SafelyRestored'
<1>1. /\ pick[w] \in Incidents
      /\ tags' = [tags EXCEPT ![pick[w]] = @ \cup w.tags]
      /\ UNCHANGED <<creator, status, restoredBy, touched>>
      BY DEF Merge, RechInv, TypeOK
<1>2. Created' = Created
      BY <1>1 DEF Created
<1>3. CASE w.tags = {}
      <2>1. \A i \in Incidents : tags'[i] = tags[i]
            BY <1>1, <1>3 DEF RechInv, TypeOK
      <2>2. \A v \in Works : touched[v] \subseteq Incidents
            BY DEF RechInv, TypeOK
      <2> QED
            BY <1>1, <1>2, <2>1, <2>2 DEF RechInv, SafelyRestored
<1>4. CASE w.tags # {}
      <2>1. pick[w] \in Active /\ \A v \in Works : pick[w] \notin touched[v]
            BY <1>4 DEF LooksAgain, Merge, RechInv, TypeOK
      <2>2. status[pick[w]] \notin {"resolved", "closed"}
            BY <2>1 DEF Active, Over
      <2>3. \A i \in Incidents \ {pick[w]} : tags'[i] = tags[i]
            BY <1>1 DEF RechInv, TypeOK
      <2>4. \A v \in Works : touched[v] \subseteq Incidents \ {pick[w]}
            BY <2>1 DEF RechInv, TypeOK
      <2> QED
            BY <1>1, <1>2, <2>2, <2>3, <2>4 DEF RechInv, SafelyRestored
<1> QED
      BY <1>3, <1>4

LEMMA CreateKeepsRestored ==
  ASSUME RechInv, NEW w \in Works, Create(w)
  PROVE  SafelyRestored'
<1>1. PICK k \in Incidents \ Created :
        /\ creator' = [creator EXCEPT ![k] = w]
        /\ status' = [status EXCEPT ![k] = "open"]
        /\ tags' = [tags EXCEPT ![k] = w.tags]
      BY DEF Create
<1>2. UNCHANGED <<restoredBy, touched>>
      BY DEF Create
<1>3. \A i \in Incidents \ {k} : tags'[i] = tags[i] /\ status'[i] = status[i] /\ creator'[i] = creator[i]
      BY <1>1 DEF RechInv, TypeOK
<1>4. \A v \in Works : touched[v] \subseteq Created
      BY DEF RechInv, RestInv, InHand
<1>5. restoredBy[k] # "SCADA"
      BY <1>1 DEF RechInv, SafelyRestored
<1>6. Created \subseteq Incidents \ {k} /\ Created \subseteq Created'
      BY <1>1, <1>3 DEF Created
<1> QED
      BY <1>2, <1>3, <1>4, <1>5, <1>6 DEF RechInv, SafelyRestored

LEMMA RecloseKeepsRestored ==
  ASSUME RechInv, NEW w \in Works,
         RemoveTag(w) \/ CloseMomentary(w) \/ \E i \in Incidents : Restore(w, i)
  PROVE  SafelyRestored'
<1> USE DEF RechInv, SafelyRestored
<1>1. CASE RemoveTag(w)
      <2>1. /\ tags' = [i \in Incidents |-> IF i \in Active THEN tags[i] \ w.tags ELSE tags[i]]
            /\ touched' = [touched EXCEPT ![w] = {i \in Active : Emptied(w, i) /\ CanScadaRestore(status[i])}]
            /\ UNCHANGED <<creator, status, restoredBy>>
            BY <1>1 DEF RemoveTag
      <2>2. Created' = Created /\ Active \subseteq Incidents
            BY <2>1 DEF Created, Active
      <2>3. \A i \in Incidents : tags[i] = {} => tags'[i] = {}
            BY <2>1
      <2>4. \A i \in touched'[w] : i \in Active /\ tags[i] \ w.tags = {}
            BY <2>1 DEF Emptied, TypeOK
      <2>5. \A v \in Works \ {w} : touched'[v] = touched[v] /\ touched[v] \subseteq Incidents
            BY <2>1 DEF TypeOK
      <2>6. \A v \in Works : \A i \in touched'[v] : tags'[i] = {}
            BY <2>1, <2>2, <2>3, <2>4, <2>5
      <2> QED
            BY <2>1, <2>2, <2>3, <2>6
<1>2. CASE CloseMomentary(w)
      <2>1. /\ status' = [status EXCEPT ![closing[w]] = "closed"]
            /\ UNCHANGED <<creator, tags, restoredBy, touched>>
            BY <1>2 DEF CloseMomentary
      <2>2. Created' = Created /\ \A i \in Incidents : status'[i] \in {status[i], "closed"}
            BY <2>1 DEF Created, TypeOK
      <2> QED
            BY <2>1, <2>2
<1>3. ASSUME NEW i \in Incidents, Restore(w, i) PROVE SafelyRestored'
      <2>1. /\ i \in touched[w]
            /\ status' = [status EXCEPT ![i] = "resolved"]
            /\ restoredBy' = [restoredBy EXCEPT ![i] = "SCADA"]
            /\ touched' = [touched EXCEPT ![w] = @ \ {i}]
            /\ UNCHANGED <<creator, tags>>
            BY <1>3 DEF Restore
      <2>2. Created' = Created /\ i \in Created /\ tags[i] = {}
            BY <2>1 DEF Created, RestInv, InHand
      <2>3. \A k \in Incidents : IF k = i THEN status'[k] = "resolved"
                                 ELSE status'[k] = status[k] /\ restoredBy'[k] = restoredBy[k]
            BY <2>1 DEF TypeOK
      <2>4. \A v \in Works : touched'[v] \subseteq touched[v]
            BY <2>1 DEF TypeOK
      <2> QED
            BY <2>1, <2>2, <2>3, <2>4
<1> QED
      BY <1>1, <1>2, <1>3

LEMMA DeskKeepsRestored ==
  ASSUME RechInv, LooksAgain, NEW d \in Desks, DeskWrite(d)
  PROVE  SafelyRestored'
<1> DEFINE i == desk[d].inc
           to == desk[d].to
<1>1. /\ status' = [status EXCEPT ![i] = to]
      /\ stale' = IF status[i] # desk[d].from THEN stale \cup {i} ELSE stale
      /\ UNCHANGED <<creator, tags, restoredBy, touched>>
      BY DEF DeskWrite
<1>2. /\ i \in Created /\ i \in Incidents
      /\ to \in Transitions(desk[d].from) \cup {Assigned(desk[d].from)}
      BY DEF DeskWrite, RechInv, RestInv, DeskLegal, Created
<1>3. status[i] = desk[d].from
      BY <1>1 DEF LooksAgain, RechInv
<1> HIDE DEF i, to
<1>4. status[i] \in {"resolved", "closed"} => to \in {"resolved", "closed"}
      BY <1>2, <1>3 DEF Transitions, Assigned
<1>5. \A k \in Incidents : IF k = i THEN status'[k] = to ELSE status'[k] = status[k]
      BY <1>1, <1>2 DEF RechInv, TypeOK
<1>6. Created' = Created
      BY <1>1 DEF Created
<1> QED
      BY <1>1, <1>4, <1>5, <1>6 DEF RechInv, SafelyRestored

LEMMA RechStep == RechInv /\ [Next /\ LooksAgain]_vars => RechInv'
<1> SUFFICES ASSUME RechInv, [Next /\ LooksAgain]_vars PROVE RechInv'
    OBVIOUS
<1>1. TypeOK' /\ RestInv'
      BY NextTyped, NextRestInv DEF RechInv
<1>2. CASE UNCHANGED vars
      BY <1>1, <1>2, QuietKeepsRestored DEF RechInv, vars, incidents, history
<1>3. CASE Next /\ LooksAgain
      <2>1. stale' = {}
            BY <1>3 DEF LooksAgain, RechInv
      <2> SUFFICES SafelyRestored'
          BY <1>1, <2>1 DEF RechInv
      <2>2. ASSUME NEW w \in Works,
                   \/ LockSubstation(w) \/ LockFeeder(w) \/ FoundNone(w) \/ Attach(w)
                   \/ FinishReclose(w) \/ Abort(w) \/ FailReclose(w)
                   \/ \E i \in Incidents : Found(w, i)
            PROVE  SafelyRestored'
            <3>1. UNCHANGED <<creator, status, tags, restoredBy>>
                  BY <2>2 DEF LockSubstation, LockFeeder, FoundNone, Attach, FinishReclose,
                              Abort, FailReclose, Found, incidents
            <3>2. \A v \in Works : touched'[v] \subseteq touched[v]
                  BY <2>2 DEF LockSubstation, LockFeeder, FoundNone, Attach, FinishReclose,
                              Abort, FailReclose, Found, RechInv, TypeOK
            <3> QED
                  BY <3>1, <3>2, QuietKeepsRestored
      <2>3. ASSUME NEW w \in Works,
                   \/ RemoveTag(w) \/ CloseMomentary(w) \/ Merge(w) \/ Create(w)
                   \/ \E i \in Incidents : Restore(w, i)
            PROVE  SafelyRestored'
            BY <1>3, <2>3, RecloseKeepsRestored, MergeKeepsRestored, CreateKeepsRestored
      <2>4. ASSUME NEW d \in Desks, NEW i \in Incidents, DeskRead(d, i)
            PROVE  SafelyRestored'
            BY <2>4, QuietKeepsRestored DEF DeskRead, incidents
      <2>5. ASSUME NEW d \in Desks, DeskWrite(d)
            PROVE  SafelyRestored'
            BY <1>3, <2>5, DeskKeepsRestored
      <2>6. ASSUME NEW i \in Incidents, Age(i)
            PROVE  SafelyRestored'
            BY <2>6, QuietKeepsRestored DEF Age
      <2> QED
            BY <1>3, <2>2, <2>3, <2>4, <2>5, <2>6 DEF Next, WorkStep, Failure, ControlRoom
<1> QED
      BY <1>2, <1>3

\* "An incident is restored only once no tripped device remains open on it"
\* (scada.js:218) fails for two unconditional writes and nothing else: if a trip
\* joined only what is still active and in no reclose's hands, and the control
\* room wrote only over the status it read, it would hold however recloses,
\* trips and failures interleave.
THEOREM RestoredWhenRechecked == RecheckedSpec => []RestoredWhenAllClosed
<1>1. Init => RechInv
      BY InitTyped, InitRestInv DEF Init, RechInv, SafelyRestored
<1>2. RechInv => RestoredWhenAllClosed
      BY DEF RechInv, SafelyRestored, RestoredWhenAllClosed, Created
<1> QED
      BY <1>1, <1>2, RechStep, PTL DEF RecheckedSpec
=============================================================================

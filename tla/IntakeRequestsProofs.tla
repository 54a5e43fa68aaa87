------------------------ MODULE IntakeRequestsProofs ------------------------
(***************************************************************************)
(* What IntakeRequests promises, for every number of requests, processes,  *)
(* submissions and workers.  The two sorts of requests have an inductive   *)
(* invariant each: ScadaInv says where an alarm and its queue item are at  *)
(* every point of a batch, and by what row a copy is represented;          *)
(* ComplaintInv says what a worker that owns an external id has seen.      *)
(***************************************************************************)
EXTENDS IntakeRequests, TLAPS, FiniteSetTheorems, WellFoundedInduction

-----------------------------------------------------------------------------
(* SCADA *)

\* Requests wait at one process, or are in a batch of that process.
Gathered ==
  /\ \A p \in Processes : \A r \in pending[p] :
       batch[r] = 0 /\ home[r] = p /\ asked[r] \in Events /\ answer[r] = Blank
  /\ \A r \in Requests : batch[r] # 0 =>
       batch[batch[r]] = batch[r] /\ home[batch[r]] = home[r] /\ asked[r] \in Events
  /\ \A r \in Requests : asked[r] = NoEvent => answer[r] = Blank /\ home[r] = NoProcess

\* The transaction of a batch is over exactly when its requests are answered.
Opened ==
  /\ \A b \in Requests : tx[b].at = "none" <=> batch[b] # b
  /\ \A r \in Requests : batch[r] # 0 => (tx[batch[r]].at = "over" <=> answer[r] # Blank)

\* What is still to insert has no alarm yet.
ToInsert ==
  \A b \in Requests :
    /\ tx[b].todo \subseteq Members(b)
    /\ tx[b].at # "alarms" => tx[b].todo = {}

\* Keys are unique among all alarm rows, those of open transactions included.
KeysUnique ==
  /\ \A r \in alarms : batch[r] # 0 /\ r \notin tx[batch[r]].todo
  /\ \A r, s \in alarms : SameKey(r, s) => r = s

\* A request of an open batch has its alarm, will have it, or a copy has it: one
\* stored, or an earlier one of the batch.
Represented ==
  \A r \in Requests : batch[r] # 0 /\ tx[batch[r]].at # "over" =>
    \/ r \in alarms \/ r \in tx[batch[r]].todo
    \/ \E s \in Stored : SameKey(s, r)
    \/ \E s \in Members(batch[r]) : SameKey(s, r) /\ (s \in alarms \/ s \in tx[batch[r]].todo)

\* Queue items: one for each alarm once they are inserted, with ids drawn.
ItemsOfAlarms ==
  \A r \in Requests :
    /\ item[r] <= drawn
    /\ batch[r] = 0 => item[r] = 0
    /\ batch[r] # 0 /\ tx[batch[r]].at \in {"alarms", "items"} => item[r] = 0
    /\ batch[r] # 0 /\ tx[batch[r]].at \in {"commit", "answer", "over"} => (r \in alarms <=> item[r] # 0)

ItemsDistinct ==
  \A r, s \in Requests : item[r] = item[s] /\ item[r] # 0 => r = s

\* Ids stand in the order of a batch, and after those of requests that were over.
ItemsOrdered ==
  /\ \A s \in Requests : \A r \in before[s] : answer[r] # Blank
  /\ \A r, s \in Requests :
       /\ item[r] # 0 /\ item[s] # 0
       /\ (batch[r] = batch[s] /\ r < s) \/ r \in before[s]
       => item[r] < item[s]

ScadaInv ==
  /\ ScadaTypeOK /\ Gathered /\ Opened /\ ToInsert /\ KeysUnique /\ Represented
  /\ ItemsOfAlarms /\ ItemsDistinct /\ ItemsOrdered /\ AnswersHold

\* What AnswersHold says of one request.
AnswerTo(r) ==
  /\ answer[r].code = "new" => answer[r].alarm = r /\ r \in Stored
  /\ answer[r].code = "duplicate" =>
       answer[r].alarm \in Stored \ {r} /\ SameKey(answer[r].alarm, r) /\ r \notin Stored

LEMMA RequestsPositive == Requests \subseteq Nat /\ 0 \notin Requests /\ IsFiniteSet(Requests)
BY RequestsAssumption

LEMMA ScadaInit == InitScada => ScadaInv
<1> SUFFICES ASSUME InitScada PROVE ScadaInv
  OBVIOUS
<1> USE RequestsPositive DEF InitScada, Blank
<1>1. ScadaTypeOK
  BY DEF ScadaTypeOK, TxStates, Answers
<1>2. Gathered /\ Opened /\ ToInsert /\ KeysUnique /\ Represented
  BY DEF Gathered, Opened, ToInsert, KeysUnique, Represented
<1>3. ItemsOfAlarms /\ ItemsDistinct /\ ItemsOrdered
  BY DEF ItemsOfAlarms, ItemsDistinct, ItemsOrdered
<1>4. AnswersHold
  BY DEF AnswersHold
<1> QED
  BY <1>1, <1>2, <1>3, <1>4 DEF ScadaInv

LEMMA InvGives ==
  ASSUME ScadaInv
  PROVE  EventStoredOnce /\ OrderKept /\ AnswersHold /\ ScadaTypeOK
<1> USE RequestsPositive DEF ScadaInv
<1>1. EventStoredOnce
  <2>1. \A r, s \in Stored : SameKey(r, s) => r = s
    BY DEF Stored, KeysUnique
  <2>2. \A r \in Requests : batch[r] # 0 /\ Committed(r) => (r \in alarms <=> item[r] # 0)
    BY DEF Committed, ItemsOfAlarms
  <2> QED
    BY <2>1, <2>2 DEF EventStoredOnce, ItemsDistinct
<1>2. OrderKept
  <2>1. \A r \in Stored : r \in Requests /\ item[r] # 0
    BY DEF Stored, Committed, KeysUnique, ItemsOfAlarms, ScadaTypeOK
  <2> QED
    BY <2>1 DEF OrderKept, ItemsOrdered
<1> QED
  BY <1>1, <1>2

LEMMA ArrivesKeeps ==
  ASSUME ScadaInv, NEW p \in Processes, NEW r \in Requests, NEW e \in Events, Arrives(p, r, e)
  PROVE  ScadaInv'
<1> USE RequestsPositive, EventsAssumption DEF ScadaInv
<1>0. /\ asked[r] = NoEvent /\ asked' = [asked EXCEPT ![r] = e]
      /\ home' = [home EXCEPT ![r] = p] /\ pending' = [pending EXCEPT ![p] = @ \cup {r}]
      /\ before' = [before EXCEPT ![r] = {q \in Requests : answer[q] # Blank}]
      /\ UNCHANGED <<batch, tx, alarms, item, drawn, answer>>
  BY DEF Arrives, tables
<1>1. batch[r] = 0 /\ \A q \in Processes : r \notin pending[q]
  BY <1>0 DEF Gathered
<1>2. \A q, s \in Requests : q # r /\ s # r => (SameKey(q, s)' <=> SameKey(q, s))
  BY <1>0 DEF SameKey, ScadaTypeOK
<1>3. r \notin alarms /\ r \notin Stored /\ \A b \in Requests : r \notin Members(b)
  BY <1>1 DEF KeysUnique, Stored, Members
<1>4. Stored' = Stored /\ \A b : Members(b)' = Members(b)
  BY <1>0 DEF Stored, Committed, Members
<1>5. ScadaTypeOK'
  BY <1>0 DEF ScadaTypeOK
<1>6. answer[r] = Blank /\ Gathered'
  BY <1>0, <1>1 DEF Gathered, ScadaTypeOK
<1>7. Opened' /\ ToInsert'
  BY <1>0, <1>4 DEF Opened, ToInsert
<1>8. KeysUnique'
  BY <1>0, <1>2, <1>3 DEF KeysUnique, ScadaTypeOK
<1>9. Represented'
  BY <1>0, <1>1, <1>2, <1>3, <1>4 DEF Represented, ScadaTypeOK, Stored, Members
<1>10. ItemsOfAlarms' /\ ItemsDistinct'
  BY <1>0 DEF ItemsOfAlarms, ItemsDistinct
<1>11. ItemsOrdered'
  BY <1>0, <1>1 DEF ItemsOrdered, ItemsOfAlarms, ScadaTypeOK
<1>12. AnswersHold'
  <2> SUFFICES ASSUME NEW q \in Requests PROVE AnswerTo(q)'
    BY DEF AnswersHold, AnswerTo
  <2>1. AnswerTo(q)
    BY DEF AnswersHold, AnswerTo
  <2>2. CASE q = r
    BY <1>0, <1>6, <2>2 DEF AnswerTo, Blank
  <2>3. CASE q # r
    BY <1>0, <1>2, <1>3, <1>4, <2>1, <2>3 DEF AnswerTo, Stored, ScadaTypeOK
  <2> QED
    BY <2>2, <2>3
<1> QED
  BY <1>5, <1>6, <1>7, <1>8, <1>9, <1>10, <1>11, <1>12

\* Of the copies in a group the first is among the unique ones.
LEMMA FirstOfKey ==
  ASSUME NEW group \in SUBSET Requests, NEW r \in group
  PROVE  r \in Unique(group) \/ \E s \in Unique(group) : SameKey(s, r)
<1> DEFINE copies == {q \in group : SameKey(q, r)}
<1>1. CASE copies = {}
  BY <1>1 DEF Unique, SameKey
<1>2. CASE copies # {}
  <2>1. copies \subseteq Nat
    BY RequestsPositive
  <2>2. PICK s \in copies : \A q \in copies : <<q, s>> \notin OpToRel(<, Nat)
    BY <1>2, <2>1, NatLessThanWellFounded, WFMin
  <2>3. \A q \in copies : ~(q < s)
    BY <2>1, <2>2 DEF OpToRel
  <2>4. \A q \in group : SameKey(q, s) => q \in copies
    BY <2>2 DEF SameKey
  <2> QED
    BY <2>2, <2>3, <2>4 DEF Unique
<1> QED
  BY <1>1, <1>2

LEMMA FlushKeeps ==
  ASSUME ScadaInv, NEW p \in Processes, Flush(p)
  PROVE  ScadaInv'
<1> USE RequestsPositive, EventsAssumption DEF ScadaInv
<1>0. PICK b \in pending[p] :
        /\ \A q \in pending[p] : b <= q
        /\ batch' = [q \in Requests |-> IF q \in pending[p] THEN b ELSE batch[q]]
        /\ tx' = [tx EXCEPT ![b] = [at |-> "alarms", todo |-> Unique(pending[p])]]
  BY DEF Flush
<1>1. pending' = [pending EXCEPT ![p] = {}] /\ UNCHANGED <<asked, home, alarms, item, drawn, answer, before>>
  BY DEF Flush, tables
<1>2. b \in Requests /\ pending[p] \subseteq Requests /\ b \in pending[p]
  BY DEF ScadaTypeOK
<1>3. \A q \in pending[p] : batch[q] = 0 /\ batch'[q] = b /\ q \notin alarms /\ answer[q] = Blank /\ home[q] = p
                             /\ asked[q] \in Events /\ item[q] = 0
  BY <1>0, <1>2 DEF Gathered, KeysUnique, ItemsOfAlarms
<1>4. \A q \in Requests \ pending[p] : batch'[q] = batch[q] /\ batch[q] # b
  <2> SUFFICES ASSUME NEW q \in Requests, q \notin pending[p]
               PROVE  batch'[q] = batch[q] /\ batch[q] # b
    OBVIOUS
  <2>1. batch'[q] = batch[q]
    BY <1>0
  <2>2. batch[b] = 0 /\ b # 0
    BY <1>2, <1>3
  <2>3. batch[q] # 0 => batch[batch[q]] = batch[q]
    BY DEF Gathered
  <2> QED
    BY <2>1, <2>2, <2>3
<1>5. \A q, s : SameKey(q, s)' <=> SameKey(q, s)
  BY <1>1 DEF SameKey
<1>6. Members(b)' = pending[p] /\ Unique(pending[p]) \subseteq pending[p]
  <2>1. Members(b)' = {q \in Requests : batch'[q] = b}
    BY DEF Members
  <2>2. \A q \in Requests : batch'[q] = b <=> q \in pending[p]
    BY <1>3, <1>4
  <2> QED
    BY <1>2, <2>1, <2>2 DEF Unique
<1>7. \A c \in Requests : c # b => Members(c)' = Members(c)
  BY <1>2, <1>3, <1>4 DEF Members
<1>8. \A c \in Requests : c # b => tx'[c] = tx[c]
  BY <1>0 DEF ScadaTypeOK
<1>9. tx'[b] = [at |-> "alarms", todo |-> Unique(pending[p])]
  BY <1>0, <1>2 DEF ScadaTypeOK
<1>10. \A q \in alarms : q \in Requests /\ batch[q] # 0 /\ batch[q] \in Requests /\ q \notin pending[p]
  BY <1>3 DEF KeysUnique, ScadaTypeOK
<1>11. Stored' = Stored
  <2>1. \A q \in alarms : Committed(q)' <=> Committed(q)
    BY <1>4, <1>8, <1>10 DEF Committed
  <2> QED
    BY <1>1, <2>1 DEF Stored
<1>12. ScadaTypeOK'
  <2>1. batch' \in [Requests -> Requests \cup {0}]
    BY <1>0, <1>2 DEF ScadaTypeOK
  <2>2. tx' \in [Requests -> [at : TxStates, todo : SUBSET Requests]]
    BY <1>0, <1>2, <1>6 DEF ScadaTypeOK, TxStates
  <2> QED
    BY <1>1, <2>1, <2>2 DEF ScadaTypeOK
<1>13. Gathered'
  <2>1. ASSUME NEW o \in Processes, NEW r \in pending'[o]
        PROVE  batch'[r] = 0 /\ home[r] = o /\ asked[r] \in Events /\ answer[r] = Blank
    <3>1. o # p /\ r \in pending[o]
      BY <1>1, <2>1 DEF ScadaTypeOK
    <3>2. r \in Requests /\ batch[r] = 0 /\ home[r] = o /\ asked[r] \in Events /\ answer[r] = Blank
      BY <3>1 DEF Gathered, ScadaTypeOK
    <3>3. r \notin pending[p]
      BY <1>3, <3>1, <3>2
    <3> QED
      BY <1>4, <3>2, <3>3
  <2>2. ASSUME NEW r \in Requests, batch'[r] # 0
        PROVE  batch'[batch'[r]] = batch'[r] /\ home[batch'[r]] = home[r] /\ asked[r] \in Events
    <3>1. CASE r \in pending[p]
      BY <1>2, <1>3, <3>1
    <3>2. CASE r \notin pending[p]
      <4>1. /\ batch'[r] = batch[r] /\ batch[r] # b /\ batch[r] \in Requests
            /\ batch[batch[r]] = batch[r] /\ home[batch[r]] = home[r] /\ asked[r] \in Events
        BY <1>4, <2>2, <3>2 DEF Gathered, ScadaTypeOK
      <4>2. batch[r] \notin pending[p]
        BY <1>3, <2>2, <4>1
      <4> QED
        BY <1>4, <4>1, <4>2
    <3> QED
      BY <3>1, <3>2
  <2> QED
    BY <1>1, <2>1, <2>2 DEF Gathered
<1>14. Opened'
  <2>1. \A c \in Requests : tx'[c].at = "none" <=> batch'[c] # c
    <3> SUFFICES ASSUME NEW c \in Requests PROVE tx'[c].at = "none" <=> batch'[c] # c
      OBVIOUS
    <3>1. CASE c = b
      BY <1>2, <1>3, <1>9, <3>1
    <3>2. CASE c # b /\ c \in pending[p]
      BY <1>2, <1>3, <1>8, <3>2 DEF Opened
    <3>3. CASE c \notin pending[p]
      BY <1>2, <1>4, <1>8, <3>3 DEF Opened
    <3> QED
      BY <3>1, <3>2, <3>3
  <2>2. ASSUME NEW r \in Requests, batch'[r] # 0
        PROVE  tx'[batch'[r]].at = "over" <=> answer[r] # Blank
    <3>1. CASE r \in pending[p]
      BY <1>3, <1>9, <3>1
    <3>2. CASE r \notin pending[p]
      <4>1. batch'[r] = batch[r] /\ batch[r] # b /\ batch[r] # 0
        BY <1>4, <2>2, <3>2
      <4>2. batch[r] \in Requests /\ tx'[batch[r]] = tx[batch[r]]
        BY <1>8, <4>1 DEF ScadaTypeOK
      <4>3. tx[batch[r]].at = "over" <=> answer[r] # Blank
        BY <4>1 DEF Opened
      <4>4. tx'[batch'[r]] = tx[batch[r]]
        BY <4>1, <4>2
      <4> QED
        BY <4>3, <4>4
    <3> QED
      BY <3>1, <3>2
  <2> QED
    BY <1>1, <2>1, <2>2 DEF Opened
<1>15. ToInsert'
  <2> SUFFICES ASSUME NEW c \in Requests
               PROVE  tx'[c].todo \subseteq Members(c)' /\ (tx'[c].at # "alarms" => tx'[c].todo = {})
    BY DEF ToInsert
  <2>1. CASE c = b
    BY <1>6, <1>9, <2>1
  <2>2. CASE c # b
    BY <1>7, <1>8, <2>2 DEF ToInsert
  <2> QED
    BY <2>1, <2>2
<1>16. KeysUnique'
  BY <1>1, <1>4, <1>5, <1>8, <1>10 DEF KeysUnique
<1>17. Represented'
  <2> SUFFICES ASSUME NEW r \in Requests, batch'[r] # 0, tx'[batch'[r]].at # "over"
               PROVE  \/ r \in alarms \/ r \in tx'[batch'[r]].todo
                      \/ \E s \in Stored : SameKey(s, r)
                      \/ \E s \in Members(batch[r])' : SameKey(s, r) /\ (s \in alarms \/ s \in tx'[batch'[r]].todo)
    BY <1>1, <1>5, <1>11 DEF Represented
  <2>1. CASE r \in pending[p]
    <3>1. r \in Unique(pending[p]) \/ \E s \in Unique(pending[p]) : SameKey(s, r)
      BY <2>1, <1>2, FirstOfKey
    <3> QED
      BY <1>3, <1>6, <1>9, <2>1, <3>1
  <2>2. CASE r \notin pending[p]
    <3>1. batch'[r] = batch[r] /\ batch[r] \in Requests /\ batch[r] # b
      BY <1>4, <2>2 DEF ScadaTypeOK
    <3> QED
      BY <1>7, <1>8, <3>1 DEF Represented
  <2> QED
    BY <2>1, <2>2
<1>18. ItemsOfAlarms'
  <2> SUFFICES ASSUME NEW r \in Requests
               PROVE  /\ batch'[r] = 0 => item[r] = 0
                      /\ batch'[r] # 0 /\ tx'[batch'[r]].at \in {"alarms", "items"} => item[r] = 0
                      /\ batch'[r] # 0 /\ tx'[batch'[r]].at \in {"commit", "answer", "over"} => (r \in alarms <=> item[r] # 0)
    BY <1>1 DEF ItemsOfAlarms
  <2>1. CASE r \in pending[p]
    BY <1>3, <1>9, <2>1
  <2>2. CASE r \notin pending[p]
    BY <1>4, <1>8, <2>2 DEF ItemsOfAlarms, ScadaTypeOK
  <2> QED
    BY <2>1, <2>2
<1>19. ItemsDistinct'
  BY <1>1 DEF ItemsDistinct
<1>20. ItemsOrdered'
  BY <1>1, <1>3, <1>4 DEF ItemsOrdered
<1>21. AnswersHold'
  BY <1>1, <1>5, <1>11 DEF AnswersHold
<1> QED
  BY <1>12, <1>13, <1>14, <1>15, <1>16, <1>17, <1>18, <1>19, <1>20, <1>21

\* The batch of an open transaction: its members are unanswered.
LEMMA OpenBatch ==
  ASSUME ScadaInv, NEW b \in Requests, tx[b].at \notin {"none", "over"}
  PROVE  /\ batch[b] = b /\ b # 0
         /\ \A r \in Requests : batch[r] = b => answer[r] = Blank
BY RequestsPositive DEF ScadaInv, Opened

LEMMA InsertAlarmKeeps ==
  ASSUME ScadaInv, NEW b \in Requests, InsertAlarm(b)
  PROVE  ScadaInv'
<1> USE RequestsPositive DEF ScadaInv
<1>0. PICK r \in Requests :
        /\ NextAlarm(b, r) /\ Holders(r) = {}
        /\ alarms' = IF \E s \in Stored : SameKey(s, r) THEN alarms ELSE alarms \cup {r}
        /\ tx' = [tx EXCEPT ![b] = [at |-> IF @.todo = {r} THEN "items" ELSE "alarms", todo |-> @.todo \ {r}]]
  BY DEF InsertAlarm
<1>1. tx[b].at = "alarms" /\ UNCHANGED <<asked, home, pending, batch, item, drawn, answer, before>>
  BY DEF InsertAlarm, At
<1>2. /\ batch[b] = b /\ b # 0 /\ r \in tx[b].todo /\ batch[r] = b /\ r \notin alarms
      /\ \A q \in Requests : batch[q] = b => answer[q] = Blank
  BY <1>0, <1>1, OpenBatch DEF NextAlarm, ToInsert, Members, KeysUnique
<1>3. /\ tx'[b].at \in {"alarms", "items"} /\ tx'[b].todo = tx[b].todo \ {r}
      /\ tx'[b].at = "items" => tx'[b].todo = {}
      /\ \A c \in Requests : c # b => tx'[c] = tx[c]
  BY <1>0 DEF ScadaTypeOK
<1>4. /\ \A q, s : SameKey(q, s)' <=> SameKey(q, s)
      /\ \A c : Members(c)' = Members(c)
  BY <1>1 DEF SameKey, Members
<1>5. alarms \subseteq alarms' /\ alarms' \subseteq alarms \cup {r}
  BY <1>0
<1>6. \A q \in alarms : batch[q] \in Requests /\ batch[q] # 0 /\ q \in Requests
  BY DEF KeysUnique, ScadaTypeOK
<1>7. Stored' = Stored
  <2>1. \A q \in alarms : Committed(q)' <=> Committed(q)
    <3> SUFFICES ASSUME NEW q \in alarms PROVE Committed(q)' <=> Committed(q)
      OBVIOUS
    <3>1. CASE batch[q] = b
      BY <1>1, <1>3, <3>1 DEF Committed
    <3>2. CASE batch[q] # b
      BY <1>1, <1>3, <1>6, <3>2 DEF Committed
    <3> QED
      BY <3>1, <3>2
  <2>2. ~Committed(r)'
    BY <1>1, <1>2, <1>3 DEF Committed
  <2> QED
    BY <1>5, <2>1, <2>2 DEF Stored
<1>8. ScadaTypeOK'
  <2>1. tx' \in [Requests -> [at : TxStates, todo : SUBSET Requests]]
    BY <1>0 DEF ScadaTypeOK, TxStates
  <2> QED
    BY <1>1, <1>5, <2>1 DEF ScadaTypeOK
<1>9. Gathered'
  BY <1>1 DEF Gathered
<1>10. Opened'
  <2>1. \A c \in Requests : (tx'[c].at = "none" <=> tx[c].at = "none") /\ (tx'[c].at = "over" <=> tx[c].at = "over")
    BY <1>1, <1>3
  <2>2. \A q \in Requests : batch[q] # 0 => batch[q] \in Requests
    BY DEF ScadaTypeOK
  <2> QED
    BY <1>1, <2>1, <2>2 DEF Opened
<1>11. ToInsert'
  BY <1>1, <1>3, <1>4 DEF ToInsert
<1>12. KeysUnique'
  <2>1. ASSUME NEW q \in alarms'
        PROVE  batch[q] # 0 /\ q \notin tx'[batch[q]].todo
    <3>1. CASE q = r
      BY <1>2, <1>3, <3>1
    <3>2. CASE q # r /\ batch[q] = b
      BY <1>2, <1>3, <1>5, <2>1, <3>2 DEF KeysUnique
    <3>3. CASE q # r /\ batch[q] # b
      BY <1>3, <1>5, <1>6, <2>1, <3>3 DEF KeysUnique
    <3> QED
      BY <3>1, <3>2, <3>3
  <2>2. r \in alarms' => \A s \in alarms : ~SameKey(s, r) /\ ~SameKey(r, s)
    <3> SUFFICES ASSUME r \in alarms', NEW s \in alarms PROVE ~SameKey(s, r)
      BY DEF SameKey
    <3>1. ~Committed(s) => ~SameKey(s, r)
      BY <1>0 DEF Holders
    <3>2. s \in Stored => ~SameKey(s, r)
      BY <1>0, <1>2
    <3> QED
      BY <3>1, <3>2 DEF Stored
  <2> QED
    BY <1>1, <1>4, <1>5, <2>1, <2>2 DEF KeysUnique
<1>13. Represented'
  <2>0. (\E s \in Stored : SameKey(s, r)) \/ r \in alarms'
    BY <1>0
  <2> SUFFICES ASSUME NEW q \in Requests, batch[q] # 0, tx'[batch[q]].at # "over"
               PROVE  \/ q \in alarms' \/ q \in tx'[batch[q]].todo
                      \/ \E s \in Stored : SameKey(s, q)
                      \/ \E s \in Members(batch[q]) : SameKey(s, q) /\ (s \in alarms' \/ s \in tx'[batch[q]].todo)
    BY <1>1, <1>4, <1>7 DEF Represented
  <2>1. CASE batch[q] # b
    <3>1. tx'[batch[q]] = tx[batch[q]]
      BY <1>3, <2>1 DEF ScadaTypeOK
    <3> QED
      BY <1>5, <3>1 DEF Represented
  <2>2. CASE batch[q] = b
    <3>1. \/ q \in alarms \/ q \in tx[b].todo
          \/ \E s \in Stored : SameKey(s, q)
          \/ \E s \in Members(b) : SameKey(s, q) /\ (s \in alarms \/ s \in tx[b].todo)
      BY <1>1, <2>2 DEF Represented
    <3>2. CASE q = r
      BY <2>0, <3>2
    <3>3. CASE q # r /\ q \in tx[b].todo
      BY <1>3, <2>2, <3>3
    <3>4. ASSUME NEW s \in Members(b), SameKey(s, q), s \in alarms \/ s \in tx[b].todo, q # r
          PROVE  \/ \E u \in Stored : SameKey(u, q)
                 \/ \E u \in Members(b) : SameKey(u, q) /\ (u \in alarms' \/ u \in tx'[b].todo)
      <4>1. CASE s # r
        BY <1>3, <1>5, <3>4, <4>1
      <4>2. CASE s = r
        <5>1. \A u \in Stored : SameKey(u, r) => SameKey(u, q)
          BY <3>4, <4>2 DEF SameKey
        <5> QED
          BY <2>0, <3>4, <4>2, <5>1
      <4> QED
        BY <4>1, <4>2
    <3> QED
      BY <1>5, <2>2, <3>1, <3>2, <3>3, <3>4
  <2> QED
    BY <2>1, <2>2
<1>14. ItemsOfAlarms'
  <2> SUFFICES ASSUME NEW q \in Requests
               PROVE  /\ batch[q] # 0 /\ tx'[batch[q]].at \in {"alarms", "items"} => item[q] = 0
                      /\ batch[q] # 0 /\ tx'[batch[q]].at \in {"commit", "answer", "over"} => (q \in alarms' <=> item[q] # 0)
    BY <1>1 DEF ItemsOfAlarms
  <2>1. CASE batch[q] = b
    BY <1>1, <1>3, <2>1 DEF ItemsOfAlarms
  <2>2. CASE batch[q] # b
    BY <1>2, <1>3, <1>5, <2>2 DEF ItemsOfAlarms, ScadaTypeOK
  <2> QED
    BY <2>1, <2>2
<1>15. ItemsDistinct' /\ ItemsOrdered'
  BY <1>1 DEF ItemsDistinct, ItemsOrdered
<1>16. AnswersHold'
  BY <1>1, <1>4, <1>7 DEF AnswersHold
<1> QED
  BY <1>8, <1>9, <1>10, <1>11, <1>12, <1>13, <1>14, <1>15, <1>16

\* A step that only moves batch b on: nobody's rows change, and its own become
\* visible at most.
MovesOn(b, state) ==
  /\ tx' = [tx EXCEPT ![b] = [at |-> state, todo |-> {}]]
  /\ UNCHANGED <<asked, home, pending, batch, alarms, before>>

LEMMA MoveFacts ==
  ASSUME ScadaInv, NEW b \in Requests, NEW state \in TxStates, MovesOn(b, state),
         tx[b].at \in {"items", "commit", "answer"}, state \in {"commit", "answer", "over"},
         tx[b].at = "answer" => state = "over"
  PROVE  /\ tx'[b] = [at |-> state, todo |-> {}] /\ tx[b].todo = {}
         /\ \A c \in Requests : c # b => tx'[c] = tx[c]
         /\ \A q, s : SameKey(q, s)' <=> SameKey(q, s)
         /\ \A c : Members(c)' = Members(c)
         /\ batch[b] = b /\ b # 0 /\ (\A q \in Requests : batch[q] = b => answer[q] = Blank)
         /\ \A q \in Requests : batch[q] # 0 => batch[q] \in Requests
         /\ tx' \in [Requests -> [at : TxStates, todo : SUBSET Requests]]
         /\ ToInsert' /\ KeysUnique'
         /\ Stored \subseteq Stored'
         /\ \A q \in Stored' : q \in Stored \/ (q \in Requests /\ batch[q] = b /\ tx[b].at # "answer")
<1> USE RequestsPositive DEF ScadaInv, MovesOn
<1>1. tx'[b] = [at |-> state, todo |-> {}] /\ tx[b].todo = {} /\ \A c \in Requests : c # b => tx'[c] = tx[c]
  BY DEF ScadaTypeOK, ToInsert
<1>2. /\ \A q, s : SameKey(q, s)' <=> SameKey(q, s)
      /\ \A c : Members(c)' = Members(c)
  BY DEF SameKey, Members
<1>3. batch[b] = b /\ b # 0 /\ (\A q \in Requests : batch[q] = b => answer[q] = Blank)
  BY OpenBatch
<1>4. \A q \in Requests : batch[q] # 0 => batch[q] \in Requests
  BY DEF ScadaTypeOK
<1>5. tx' \in [Requests -> [at : TxStates, todo : SUBSET Requests]]
  BY DEF ScadaTypeOK
<1>6. ToInsert'
  <2> SUFFICES ASSUME NEW c \in Requests
               PROVE  tx'[c].todo \subseteq Members(c) /\ (tx'[c].at # "alarms" => tx'[c].todo = {})
    BY <1>2 DEF ToInsert
  <2>1. CASE c = b
    BY <1>1, <2>1
  <2>2. CASE c # b
    BY <1>1, <2>2 DEF ToInsert
  <2> QED
    BY <2>1, <2>2
<1>7. \A q \in alarms : q \in Requests /\ batch[q] # 0
  BY DEF KeysUnique, ScadaTypeOK
<1>8. KeysUnique'
  <2>1. ASSUME NEW q \in alarms
        PROVE  q \notin tx'[batch[q]].todo
    <3>1. CASE batch[q] = b
      BY <1>1, <3>1
    <3>2. CASE batch[q] # b
      BY <1>1, <1>4, <1>7, <3>2 DEF KeysUnique
    <3> QED
      BY <3>1, <3>2
  <2> QED
    BY <1>2, <1>7, <2>1 DEF KeysUnique
<1>9. Stored \subseteq Stored'
  <2> SUFFICES ASSUME NEW q \in alarms, Committed(q) PROVE Committed(q)'
    BY DEF Stored
  <2>1. CASE batch[q] = b
    BY <1>1, <2>1 DEF Committed
  <2>2. CASE batch[q] # b
    BY <1>1, <1>4, <1>7, <2>2 DEF Committed
  <2> QED
    BY <2>1, <2>2
<1>10. \A q \in Stored' : q \in Stored \/ (q \in Requests /\ batch[q] = b /\ tx[b].at # "answer")
  <2> SUFFICES ASSUME NEW q \in alarms, Committed(q)', ~(batch[q] = b /\ tx[b].at # "answer") PROVE Committed(q)
    BY <1>7 DEF Stored
  <2>1. CASE batch[q] = b
    BY <2>1 DEF Committed
  <2>2. CASE batch[q] # b
    BY <1>1, <1>4, <1>7, <2>2 DEF Committed
  <2> QED
    BY <2>1, <2>2
<1> QED
  BY <1>1, <1>2, <1>3, <1>4, <1>5, <1>6, <1>8, <1>9, <1>10

\* Copies stay represented when a batch moves on or ends.
LEMMA StaysRepresented ==
  ASSUME ScadaInv, NEW b \in Requests, NEW state \in TxStates, MovesOn(b, state),
         tx[b].at \in {"items", "commit", "answer"}, state \in {"commit", "answer", "over"},
         tx[b].at = "answer" => state = "over"
  PROVE  Represented'
<1> USE DEF ScadaInv
<1>1. /\ tx'[b] = [at |-> state, todo |-> {}] /\ tx[b].todo = {} /\ tx[b].at # "over"
      /\ \A c \in Requests : c # b => tx'[c] = tx[c]
      /\ \A q, s : SameKey(q, s)' <=> SameKey(q, s)
      /\ \A c : Members(c)' = Members(c)
      /\ \A q \in Requests : batch[q] # 0 => batch[q] \in Requests
      /\ Stored \subseteq Stored'
      /\ UNCHANGED <<batch, alarms>>
  BY MoveFacts DEF MovesOn
<1> SUFFICES ASSUME NEW q \in Requests, batch[q] # 0, tx'[batch[q]].at # "over"
             PROVE  \/ q \in alarms \/ q \in tx'[batch[q]].todo
                    \/ \E s \in Stored' : SameKey(s, q)
                    \/ \E s \in Members(batch[q]) : SameKey(s, q) /\ (s \in alarms \/ s \in tx'[batch[q]].todo)
  BY <1>1 DEF Represented
<1>2. CASE batch[q] # b
  BY <1>1, <1>2 DEF Represented
<1>3. CASE batch[q] = b
  BY <1>1, <1>3 DEF Represented
<1> QED
  BY <1>2, <1>3

LEMMA CommitKeeps ==
  ASSUME ScadaInv, NEW b \in Requests, Commit(b)
  PROVE  ScadaInv'
<1> USE RequestsPositive DEF ScadaInv
<1>1. tx[b].at = "commit" /\ MovesOn(b, "answer") /\ "answer" \in TxStates /\ UNCHANGED <<item, drawn, answer>>
  BY DEF Commit, At, MovesTo, MovesOn, tables, TxStates
<1>2. /\ tx'[b] = [at |-> "answer", todo |-> {}]
      /\ \A c \in Requests : c # b => tx'[c] = tx[c]
      /\ \A q, s : SameKey(q, s)' <=> SameKey(q, s)
      /\ \A c : Members(c)' = Members(c)
      /\ batch[b] = b /\ (\A q \in Requests : batch[q] = b => answer[q] = Blank)
      /\ \A q \in Requests : batch[q] # 0 => batch[q] \in Requests
      /\ tx' \in [Requests -> [at : TxStates, todo : SUBSET Requests]]
      /\ ToInsert' /\ KeysUnique' /\ Represented'
      /\ Stored \subseteq Stored'
      /\ \A q \in Stored' : q \in Stored \/ (q \in Requests /\ batch[q] = b)
  BY <1>1, MoveFacts, StaysRepresented
<1>3. UNCHANGED <<asked, home, pending, batch, alarms, before>>
  BY <1>1 DEF MovesOn
<1>4. ScadaTypeOK' /\ Gathered'
  BY <1>1, <1>2, <1>3 DEF ScadaTypeOK, Gathered
<1>5. Opened'
  <2>1. ASSUME NEW c \in Requests
        PROVE  (tx'[c].at = "none" <=> tx[c].at = "none") /\ (tx'[c].at = "over" <=> tx[c].at = "over")
    <3>1. CASE c = b
      BY <1>1, <1>2, <3>1
    <3>2. CASE c # b
      BY <1>2, <3>2
    <3> QED
      BY <3>1, <3>2
  <2> QED
    BY <1>1, <1>2, <1>3, <2>1 DEF Opened
<1>6. ItemsOfAlarms'
  <2> SUFFICES ASSUME NEW q \in Requests
               PROVE  /\ batch[q] # 0 /\ tx'[batch[q]].at \in {"alarms", "items"} => item[q] = 0
                      /\ batch[q] # 0 /\ tx'[batch[q]].at \in {"commit", "answer", "over"} => (q \in alarms <=> item[q] # 0)
    BY <1>1, <1>3 DEF ItemsOfAlarms
  <2>1. CASE batch[q] = b
    BY <1>1, <1>2, <2>1 DEF ItemsOfAlarms
  <2>2. CASE batch[q] # b
    BY <1>2, <2>2 DEF ItemsOfAlarms
  <2> QED
    BY <2>1, <2>2
<1>7. ItemsDistinct' /\ ItemsOrdered'
  BY <1>1, <1>3 DEF ItemsDistinct, ItemsOrdered
<1>8. AnswersHold'
  <2> SUFFICES ASSUME NEW q \in Requests PROVE AnswerTo(q)'
    BY DEF AnswersHold, AnswerTo
  <2>1. AnswerTo(q)
    BY DEF AnswersHold, AnswerTo
  <2>2. q \in Stored' => q \in Stored \/ answer[q] = Blank
    BY <1>2
  <2> QED
    BY <1>1, <1>2, <2>1, <2>2 DEF AnswerTo, Blank
<1> QED
  BY <1>2, <1>4, <1>5, <1>6, <1>7, <1>8

\* A batch ends with its rows stored: the members are told something that holds.
LEMMA EndKeeps ==
  ASSUME ScadaInv, NEW b \in Requests, MovesOn(b, "over"), UNCHANGED <<item, drawn>>,
         tx[b].at \in {"commit", "answer"},
         answer' \in [Requests -> [code : Answers, alarm : Requests \cup {0}]],
         \A q \in Requests : batch[q] # b => answer'[q] = answer[q],
         \A q \in Requests : batch[q] = b => answer'[q] # Blank /\ AnswerTo(q)'
  PROVE  ScadaInv'
<1> USE RequestsPositive DEF ScadaInv
<1>2. /\ tx'[b] = [at |-> "over", todo |-> {}]
      /\ \A c \in Requests : c # b => tx'[c] = tx[c]
      /\ \A q, s : SameKey(q, s)' <=> SameKey(q, s)
      /\ batch[b] = b /\ b # 0
      /\ \A q \in Requests : batch[q] # 0 => batch[q] \in Requests
      /\ tx' \in [Requests -> [at : TxStates, todo : SUBSET Requests]]
      /\ ToInsert' /\ KeysUnique' /\ Represented'
      /\ Stored \subseteq Stored'
      /\ \A q \in Stored' : q \in Stored \/ (q \in Requests /\ batch[q] = b)
  <2>1. "over" \in TxStates
    BY DEF TxStates
  <2> QED
    BY <2>1, MoveFacts, StaysRepresented
<1>3. UNCHANGED <<asked, home, pending, batch, alarms, before>>
  BY DEF MovesOn
<1>4. ScadaTypeOK'
  BY <1>2, <1>3 DEF ScadaTypeOK
<1>5. Gathered'
  <2>1. \A q \in Requests : batch[q] = 0 => answer'[q] = answer[q]
    BY <1>2
  <2>2. \A o \in Processes : pending[o] \subseteq Requests
    BY DEF ScadaTypeOK
  <2>3. \A q \in Requests : asked[q] = NoEvent => batch[q] = 0
    BY EventsAssumption DEF Gathered
  <2> QED
    BY <1>3, <2>1, <2>2, <2>3 DEF Gathered
<1>6. Opened'
  <2>1. ASSUME NEW c \in Requests
        PROVE  tx'[c].at = "none" <=> batch[c] # c
    <3>1. CASE c = b
      BY <1>2, <3>1
    <3>2. CASE c # b
      <4>1. tx'[c] = tx[c]
        BY <1>2, <3>2
      <4> QED
        BY <4>1 DEF Opened
    <3> QED
      BY <3>1, <3>2
  <2>2. ASSUME NEW q \in Requests, batch[q] # 0
        PROVE  tx'[batch[q]].at = "over" <=> answer'[q] # Blank
    <3>1. CASE batch[q] = b
      BY <1>2, <3>1
    <3>2. CASE batch[q] # b
      <4>1. tx'[batch[q]] = tx[batch[q]]
        BY <1>2, <2>2, <3>2
      <4> QED
        BY <2>2, <3>2, <4>1 DEF Opened
    <3> QED
      BY <3>1, <3>2
  <2> QED
    BY <1>3, <2>1, <2>2 DEF Opened
<1>7. ItemsOfAlarms'
  <2> SUFFICES ASSUME NEW q \in Requests
               PROVE  /\ batch[q] # 0 /\ tx'[batch[q]].at \in {"alarms", "items"} => item[q] = 0
                      /\ batch[q] # 0 /\ tx'[batch[q]].at \in {"commit", "answer", "over"} => (q \in alarms <=> item[q] # 0)
    BY <1>3 DEF ItemsOfAlarms
  <2>1. CASE batch[q] = b
    BY <1>2, <2>1 DEF ItemsOfAlarms
  <2>2. CASE batch[q] # b
    BY <1>2, <2>2 DEF ItemsOfAlarms
  <2> QED
    BY <2>1, <2>2
<1>8. ItemsDistinct'
  BY DEF ItemsDistinct
<1>9. ItemsOrdered'
  <2>1. \A q \in Requests : answer[q] # Blank => answer'[q] # Blank
    OBVIOUS
  <2>2. \A s \in Requests : before[s] \subseteq Requests
    BY DEF ScadaTypeOK
  <2> QED
    BY <1>3, <2>1, <2>2 DEF ItemsOrdered
<1>10. AnswersHold'
  <2> SUFFICES ASSUME NEW q \in Requests PROVE AnswerTo(q)'
    BY DEF AnswersHold, AnswerTo
  <2>1. AnswerTo(q)
    BY DEF AnswersHold, AnswerTo
  <2>2. CASE batch[q] # b
    BY <1>2, <2>1, <2>2 DEF AnswerTo
  <2> QED
    BY <2>2
<1> QED
  BY <1>2, <1>4, <1>5, <1>6, <1>7, <1>8, <1>9, <1>10

LEMMA UnansweredKeeps ==
  ASSUME ScadaInv, NEW b \in Requests, CommitUnanswered(b)
  PROVE  ScadaInv'
<1>1. tx[b].at = "commit" /\ MovesOn(b, "over") /\ UNCHANGED <<item, drawn>>
  BY DEF CommitUnanswered, At, MovesTo, MovesOn, tables
<1>2. answer' = [q \in Requests |-> IF batch[q] = b THEN [code |-> "error", alarm |-> 0] ELSE answer[q]]
  BY DEF CommitUnanswered, Tells, Blank
<1>3. answer' \in [Requests -> [code : Answers, alarm : Requests \cup {0}]]
  BY <1>2 DEF ScadaInv, ScadaTypeOK, Answers
<1>4. \A q \in Requests : batch[q] # b => answer'[q] = answer[q]
  BY <1>2
<1>5. ASSUME NEW q \in Requests, batch[q] = b
      PROVE  answer'[q] # Blank /\ AnswerTo(q)'
  <2>1. answer'[q] = [code |-> "error", alarm |-> 0]
    BY <1>2, <1>5
  <2> QED
    BY <2>1 DEF Blank, AnswerTo
<1> QED
  BY <1>1, <1>3, <1>4, <1>5, EndKeeps

LEMMA AnswerKeeps ==
  ASSUME ScadaInv, NEW b \in Requests, Answer(b)
  PROVE  ScadaInv'
<1> USE RequestsPositive
<1>1. tx[b].at = "answer" /\ MovesOn(b, "over") /\ UNCHANGED <<item, drawn>>
  BY DEF Answer, At, MovesTo, MovesOn, tables
<1>2. answer' = [q \in Requests |-> IF batch[q] = b THEN Verdict(q) ELSE answer[q]]
  BY DEF Answer
<1>3. batch[b] = b /\ b # 0 /\ tx[b].todo = {}
  BY <1>1, OpenBatch DEF ScadaInv, ToInsert
<1>4. UNCHANGED <<asked, batch, alarms>> /\ tx'[b].at = "over" /\ \A c \in Requests : c # b => tx'[c] = tx[c]
  BY <1>1 DEF MovesOn, ScadaInv, ScadaTypeOK
<1>5. Stored' = Stored /\ \A q, s : SameKey(q, s)' <=> SameKey(q, s)
  <2>1. ASSUME NEW q \in alarms PROVE Committed(q)' <=> Committed(q)
    <3>1. q \in Requests /\ batch[q] \in Requests
      BY DEF ScadaInv, KeysUnique, ScadaTypeOK
    <3>2. CASE batch[q] = b
      BY <1>1, <1>4, <3>2 DEF Committed
    <3>3. CASE batch[q] # b
      BY <1>4, <3>1, <3>3 DEF Committed
    <3> QED
      BY <3>2, <3>3
  <2> QED
    BY <1>4, <2>1 DEF Stored, SameKey
<1>6. ASSUME NEW q \in Requests, batch[q] = b
      PROVE  /\ q \in alarms => Verdict(q) = [code |-> "new", alarm |-> q] /\ q \in Stored
             /\ q \notin alarms => /\ Verdict(q) = [code |-> "duplicate", alarm |-> Copy(q)]
                                 /\ Copy(q) \in Stored \ {q} /\ SameKey(Copy(q), q) /\ q \notin Stored
  <2>1. CASE q \in alarms
    BY <1>1, <1>6, <2>1 DEF Verdict, Stored, Committed
  <2>2. CASE q \notin alarms
    <3>1. \E s \in Stored : SameKey(s, q)
      <4>1. (\E s \in Stored : SameKey(s, q)) \/ (\E s \in Members(b) : SameKey(s, q) /\ s \in alarms)
        BY <1>1, <1>3, <1>6, <2>2 DEF ScadaInv, Represented
      <4>2. \A s \in Members(b) : s \in alarms => s \in Stored
        BY <1>1 DEF Members, Stored, Committed
      <4> QED
        BY <4>1, <4>2
    <3>2. Copy(q) \in Stored /\ SameKey(Copy(q), q)
      BY <3>1 DEF Copy
    <3> QED
      BY <2>2, <3>2 DEF Verdict, Stored
  <2> QED
    BY <2>1, <2>2
<1>7. Stored \subseteq Requests
  BY DEF Stored, ScadaInv, ScadaTypeOK
<1>8. answer' \in [Requests -> [code : Answers, alarm : Requests \cup {0}]]
  <2>1. \A q \in Requests : batch[q] = b => Verdict(q) \in [code : Answers, alarm : Requests \cup {0}]
    <3> SUFFICES ASSUME NEW q \in Requests, batch[q] = b
                 PROVE  Verdict(q) \in [code : Answers, alarm : Requests \cup {0}]
      OBVIOUS
    <3>1. CASE q \in alarms
      BY <1>6, <3>1 DEF Answers
    <3>2. CASE q \notin alarms
      <4>1. Verdict(q) = [code |-> "duplicate", alarm |-> Copy(q)] /\ Copy(q) \in Requests
        BY <1>6, <1>7, <3>2
      <4> QED
        BY <4>1 DEF Answers
    <3> QED
      BY <3>1, <3>2
  <2> QED
    BY <1>2, <2>1 DEF ScadaInv, ScadaTypeOK
<1>9. ASSUME NEW q \in Requests, batch[q] = b
      PROVE  answer'[q] # Blank /\ AnswerTo(q)'
  <2>1. answer'[q] = Verdict(q)
    BY <1>2, <1>9
  <2>2. CASE q \in alarms
    <3>1. answer'[q] = [code |-> "new", alarm |-> q] /\ q \in Stored
      BY <1>6, <1>9, <2>1, <2>2
    <3> QED
      BY <1>5, <3>1 DEF AnswerTo, Blank
  <2>3. CASE q \notin alarms
    <3> DEFINE s == Copy(q)
    <3>1. answer'[q] = [code |-> "duplicate", alarm |-> s] /\ s \in Stored \ {q} /\ SameKey(s, q) /\ q \notin Stored
      BY <1>6, <1>9, <2>1, <2>3
    <3> HIDE DEF s
    <3> QED
      BY <1>5, <3>1 DEF AnswerTo, Blank
  <2> QED
    BY <2>2, <2>3
<1>10. \A q \in Requests : batch[q] # b => answer'[q] = answer[q]
  BY <1>2
<1> QED
  BY <1>1, <1>8, <1>9, <1>10, EndKeeps

\* The number of requests of a set up to r numbers its members in order.
UpTo(set, r) == {q \in set : q <= r}

LEMMA NumbersInOrder ==
  ASSUME NEW set \in SUBSET Requests
  PROVE  /\ Cardinality(set) \in Nat
         /\ \A r \in set : Cardinality(UpTo(set, r)) \in Nat /\ Cardinality(UpTo(set, r)) >= 1
                           /\ Cardinality(UpTo(set, r)) <= Cardinality(set)
         /\ \A r, s \in set : r < s => Cardinality(UpTo(set, r)) < Cardinality(UpTo(set, s))
<1> USE RequestsPositive
<1>1. IsFiniteSet(set) /\ Cardinality(set) \in Nat
  BY FS_Subset, FS_CardinalityType
<1>2. \A r \in set : /\ UpTo(set, r) \in SUBSET set /\ IsFiniteSet(UpTo(set, r))
                    /\ Cardinality(UpTo(set, r)) \in Nat /\ Cardinality(UpTo(set, r)) <= Cardinality(set)
  <2> SUFFICES ASSUME NEW r \in set
               PROVE  /\ UpTo(set, r) \in SUBSET set /\ IsFiniteSet(UpTo(set, r))
                      /\ Cardinality(UpTo(set, r)) \in Nat /\ Cardinality(UpTo(set, r)) <= Cardinality(set)
    OBVIOUS
  <2>1. UpTo(set, r) \in SUBSET set
    BY DEF UpTo
  <2>2. IsFiniteSet(UpTo(set, r)) /\ Cardinality(UpTo(set, r)) <= Cardinality(set)
    BY <1>1, <2>1, FS_Subset
  <2> QED
    BY <2>1, <2>2, FS_CardinalityType
<1>3. ASSUME NEW r \in set
      PROVE  Cardinality(UpTo(set, r)) >= 1
  <2>1. r \in UpTo(set, r)
    BY DEF UpTo
  <2>2. Cardinality(UpTo(set, r)) # 0
    BY <1>2, <2>1, FS_EmptySet
  <2> QED
    BY <1>2, <2>2
<1>4. ASSUME NEW r \in set, NEW s \in set, r < s
      PROVE  Cardinality(UpTo(set, r)) < Cardinality(UpTo(set, s))
  <2>0. \A q \in set : q \in Nat
    OBVIOUS
  <2>a. ASSUME NEW q \in set, q <= r PROVE q <= s
    BY <1>4, <2>0, <2>a
  <2>b. s <= s /\ ~(s <= r)
    BY <1>4, <2>0
  <2>1. UpTo(set, r) \in SUBSET UpTo(set, s) /\ s \in UpTo(set, s) /\ s \notin UpTo(set, r)
    BY <2>a, <2>b DEF UpTo
  <2>2. /\ Cardinality(UpTo(set, r)) <= Cardinality(UpTo(set, s))
        /\ Cardinality(UpTo(set, r)) # Cardinality(UpTo(set, s))
    BY <1>2, <2>1, FS_Subset
  <2> QED
    BY <1>2, <2>2
<1> QED
  BY <1>1, <1>2, <1>3, <1>4

LEMMA InsertItemsKeeps ==
  ASSUME ScadaInv, NEW b \in Requests, InsertItems(b)
  PROVE  ScadaInv'
<1> USE RequestsPositive DEF ScadaInv
<1>1. /\ tx[b].at = "items" /\ MovesOn(b, "commit") /\ "commit" \in TxStates /\ UNCHANGED answer
      /\ item' = [q \in Requests |-> IF q \in Fresh(b) THEN ItemId(q, b) ELSE item[q]]
      /\ drawn' = drawn + Cardinality(Fresh(b))
  BY DEF InsertItems, At, MovesTo, MovesOn, TxStates
<1>2. /\ tx'[b] = [at |-> "commit", todo |-> {}]
      /\ \A c \in Requests : c # b => tx'[c] = tx[c]
      /\ \A q, s : SameKey(q, s)' <=> SameKey(q, s)
      /\ batch[b] = b /\ (\A q \in Requests : batch[q] = b => answer[q] = Blank)
      /\ \A q \in Requests : batch[q] # 0 => batch[q] \in Requests
      /\ tx' \in [Requests -> [at : TxStates, todo : SUBSET Requests]]
      /\ ToInsert' /\ KeysUnique' /\ Represented'
  BY <1>1, MoveFacts, StaysRepresented
<1>3. UNCHANGED <<asked, home, pending, batch, alarms, before>>
  BY <1>1 DEF MovesOn
<1>4. /\ Fresh(b) \in SUBSET Requests /\ \A q \in Requests : q \in Fresh(b) <=> q \in alarms /\ batch[q] = b
      /\ \A q \in Requests : batch[q] = b => item[q] = 0
  BY <1>1, <1>2 DEF Fresh, Members, ItemsOfAlarms
<1> DEFINE n(q) == Cardinality(UpTo(Fresh(b), q))
           m    == Cardinality(Fresh(b))
<1>5. /\ m \in Nat
      /\ \A q \in Fresh(b) : n(q) \in Nat /\ n(q) >= 1 /\ n(q) <= m
      /\ \A q, s \in Fresh(b) : q < s => n(q) < n(s)
  BY <1>4, NumbersInOrder
<1>6. /\ \A q \in Fresh(b) : item'[q] = drawn + n(q)
      /\ \A q \in Requests : q \notin Fresh(b) => item'[q] = item[q]
      /\ drawn' = drawn + m
  BY <1>1, <1>4 DEF ItemId, UpTo
<1> HIDE DEF n, m
<1>7. /\ drawn \in Nat /\ \A q \in Requests : item[q] \in Nat /\ item[q] <= drawn
  BY DEF ScadaTypeOK, ItemsOfAlarms
<1>8. \A q \in Fresh(b) : item'[q] \in Nat /\ item'[q] > drawn /\ item'[q] <= drawn'
  BY <1>5, <1>6, <1>7
<1>9. ScadaTypeOK' /\ Gathered'
  <2>1. item' \in [Requests -> Nat]
    BY <1>1, <1>4, <1>6, <1>7, <1>8
  <2>2. drawn' \in Nat
    BY <1>5, <1>6, <1>7
  <2> QED
    BY <1>1, <1>2, <1>3, <2>1, <2>2 DEF ScadaTypeOK, Gathered
<1>10. Opened'
  <2>1. ASSUME NEW c \in Requests
        PROVE  (tx'[c].at = "none" <=> tx[c].at = "none") /\ (tx'[c].at = "over" <=> tx[c].at = "over")
    <3>1. CASE c = b
      BY <1>1, <1>2, <3>1
    <3>2. CASE c # b
      BY <1>2, <3>2
    <3> QED
      BY <3>1, <3>2
  <2> QED
    BY <1>1, <1>2, <1>3, <2>1 DEF Opened
<1>11. ItemsOfAlarms'
  <2>0. \A q \in Requests : item'[q] <= drawn'
    BY <1>5, <1>6, <1>7, <1>8
  <2>1. \A q \in Requests : item'[q] # 0 <=> q \in Fresh(b) \/ item[q] # 0
    BY <1>6, <1>7, <1>8
  <2> SUFFICES ASSUME NEW q \in Requests
               PROVE  /\ batch[q] = 0 => item'[q] = 0
                      /\ batch[q] # 0 /\ tx'[batch[q]].at \in {"alarms", "items"} => item'[q] = 0
                      /\ batch[q] # 0 /\ tx'[batch[q]].at \in {"commit", "answer", "over"} => (q \in alarms <=> item'[q] # 0)
    BY <1>3, <2>0 DEF ItemsOfAlarms
  <2>2. CASE batch[q] = b
    <3>1. tx'[batch[q]].at = "commit" /\ batch[q] # 0
      BY <1>2, <2>2
    <3>2. q \in alarms <=> item'[q] # 0
      BY <1>4, <2>1, <2>2
    <3> QED
      BY <3>1, <3>2
  <2>3. CASE batch[q] # b
    <3>1. item'[q] = item[q]
      BY <1>4, <1>6, <2>3
    <3>2. batch[q] # 0 => tx'[batch[q]] = tx[batch[q]]
      BY <1>2, <2>3
    <3> QED
      BY <3>1, <3>2 DEF ItemsOfAlarms
  <2> QED
    BY <2>2, <2>3
<1>12. ItemsDistinct'
  <2> SUFFICES ASSUME NEW r \in Requests, NEW s \in Requests, item'[r] = item'[s], item'[r] # 0, r # s
               PROVE  FALSE
    BY DEF ItemsDistinct
  <2>0. r \in Nat /\ s \in Nat
    OBVIOUS
  <2>1. CASE r \in Fresh(b) /\ s \in Fresh(b)
    <3>1. n(r) # n(s)
      BY <1>5, <2>0, <2>1
    <3> QED
      BY <1>5, <1>6, <1>7, <2>1, <3>1
  <2>2. CASE r \in Fresh(b) /\ s \notin Fresh(b)
    BY <1>6, <1>7, <1>8, <2>2
  <2>3. CASE r \notin Fresh(b) /\ s \in Fresh(b)
    BY <1>6, <1>7, <1>8, <2>3
  <2>4. CASE r \notin Fresh(b) /\ s \notin Fresh(b)
    BY <1>6, <2>4 DEF ItemsDistinct
  <2> QED
    BY <2>1, <2>2, <2>3, <2>4
<1>13. ItemsOrdered'
  <2> SUFFICES ASSUME NEW r \in Requests, NEW s \in Requests, item'[r] # 0, item'[s] # 0,
                      (batch[r] = batch[s] /\ r < s) \/ r \in before[s]
               PROVE  item'[r] < item'[s]
    BY <1>1, <1>3 DEF ItemsOrdered
  <2>1. r \in Fresh(b) => batch[r] = batch[s] /\ r < s
    BY <1>2, <1>4 DEF ItemsOrdered
  <2>2. CASE r \in Fresh(b)
    <3>1. s \in Fresh(b)
      BY <1>4, <1>6, <2>1, <2>2
    <3> QED
      BY <1>5, <1>6, <1>7, <2>1, <2>2, <3>1
  <2>3. CASE r \notin Fresh(b) /\ s \in Fresh(b)
    <3>1. item'[r] = item[r] /\ item[r] \in Nat /\ item[r] <= drawn
      BY <1>6, <1>7, <2>3
    <3>2. item'[s] \in Nat /\ item'[s] > drawn
      BY <1>8, <2>3
    <3> QED
      BY <1>7, <3>1, <3>2
  <2>4. CASE r \notin Fresh(b) /\ s \notin Fresh(b)
    BY <1>6, <2>4 DEF ItemsOrdered
  <2> QED
    BY <2>2, <2>3, <2>4
<1>14. AnswersHold'
  <2>1. Stored' = Stored
    <3>1. ASSUME NEW q \in alarms PROVE Committed(q)' <=> Committed(q)
      <4>1. q \in Requests /\ batch[q] \in Requests
        BY DEF KeysUnique, ScadaTypeOK
      <4>2. CASE batch[q] = b
        BY <1>1, <1>2, <1>3, <4>2 DEF Committed
      <4>3. CASE batch[q] # b
        BY <1>2, <1>3, <4>1, <4>3 DEF Committed
      <4> QED
        BY <4>2, <4>3
    <3> QED
      BY <1>3, <3>1 DEF Stored
  <2> QED
    BY <1>1, <1>2, <2>1 DEF AnswersHold
<1> QED
  BY <1>2, <1>9, <1>10, <1>11, <1>12, <1>13, <1>14

\* The requests of "gone" end together with what their open batches wrote.
Ends(gone, code) ==
  LET dropped == {q \in gone : batch[q] # 0 /\ ~Committed(q)}
  IN /\ alarms' = alarms \ dropped
     /\ item' = [q \in Requests |-> IF q \in dropped THEN 0 ELSE item[q]]
     /\ tx' = [c \in Requests |-> IF c \in gone /\ batch[c] = c THEN [at |-> "over", todo |-> {}] ELSE tx[c]]
     /\ answer' = [q \in Requests |-> IF q \in gone THEN [code |-> code, alarm |-> 0] ELSE answer[q]]
     /\ UNCHANGED <<asked, home, batch, drawn, before>>

\* Whole batches end, and only requests that reached a process.
Whole(gone) ==
  /\ \A q \in Requests : batch[q] # 0 => (q \in gone <=> batch[q] \in gone)
  /\ \A q \in gone : asked[q] # NoEvent

LEMMA EndsKeeps ==
  ASSUME ScadaInv, NEW gone \in SUBSET Requests, NEW code \in {"error", "lost"},
         Ends(gone, code), Whole(gone),
         pending' \in [Processes -> SUBSET Requests],
         \A o \in Processes : pending'[o] \subseteq pending[o] \ gone
  PROVE  ScadaInv'
<1> USE RequestsPositive DEF ScadaInv, Whole
<1> DEFINE dropped == {q \in gone : batch[q] # 0 /\ ~Committed(q)}
<1>1. /\ alarms' = alarms \ dropped
      /\ \A q \in Requests : item'[q] = IF q \in dropped THEN 0 ELSE item[q]
      /\ \A c \in Requests : c \in gone /\ batch[c] = c => tx'[c] = [at |-> "over", todo |-> {}]
      /\ \A c \in Requests : ~(c \in gone /\ batch[c] = c) => tx'[c] = tx[c]
      /\ \A q \in gone : answer'[q] = [code |-> code, alarm |-> 0]
      /\ \A q \in Requests \ gone : answer'[q] = answer[q]
      /\ UNCHANGED <<asked, home, batch, drawn, before>>
  BY DEF Ends
<1>2. \A q \in Requests : batch[q] # 0 => batch[q] \in Requests /\ batch[batch[q]] = batch[q]
  BY DEF ScadaTypeOK, Gathered
<1>3. /\ \A q, s : SameKey(q, s)' <=> SameKey(q, s)
      /\ \A c : Members(c)' = Members(c)
  BY <1>1 DEF SameKey, Members
<1>4. \A q \in Requests : batch[q] # 0 =>
        /\ q \in gone => tx'[batch[q]] = [at |-> "over", todo |-> {}]
        /\ q \notin gone => tx'[batch[q]] = tx[batch[q]]
  BY <1>1, <1>2
<1>5. \A q \in alarms : q \in Requests /\ batch[q] # 0
  BY DEF KeysUnique, ScadaTypeOK
<1>6. Stored' = Stored
  <2>1. \A q \in Requests : q \in dropped <=> q \in gone /\ batch[q] # 0 /\ ~Committed(q)
    OBVIOUS
  <2> HIDE DEF dropped
  <2>2. \A q \in alarms : q \in gone => Committed(q)'
    BY <1>1, <1>4, <1>5 DEF Committed
  <2>3. \A q \in alarms : q \notin gone => (Committed(q)' <=> Committed(q))
    BY <1>1, <1>4, <1>5 DEF Committed
  <2> QED
    BY <1>1, <1>5, <2>1, <2>2, <2>3 DEF Stored
<1>7. ScadaTypeOK'
  <2>1. tx' \in [Requests -> [at : TxStates, todo : SUBSET Requests]]
    BY DEF Ends, ScadaTypeOK, TxStates
  <2>2. item' \in [Requests -> Nat] /\ alarms' \subseteq Requests
    BY DEF Ends, ScadaTypeOK
  <2>3. answer' \in [Requests -> [code : Answers, alarm : Requests \cup {0}]]
    <3>1. code \in Answers
      BY DEF Answers
    <3> QED
      BY <3>1 DEF Ends, ScadaTypeOK
  <2> QED
    BY <1>1, <2>1, <2>2, <2>3 DEF ScadaTypeOK
<1>8. Gathered'
  <2>1. \A o \in Processes : \A q \in pending'[o] : q \in pending[o] /\ q \in Requests \ gone
    BY DEF ScadaTypeOK
  <2>2. \A q \in Requests : asked[q] = NoEvent => q \notin gone
    OBVIOUS
  <2> QED
    BY <1>1, <2>1, <2>2 DEF Gathered
<1>9. \A q \in gone : answer'[q] # Blank
  BY <1>1 DEF Blank
<1>10. Opened'
  <2>1. \A c \in Requests : tx'[c].at = "none" <=> batch[c] # c
    <3> SUFFICES ASSUME NEW c \in Requests PROVE tx'[c].at = "none" <=> batch[c] # c
      OBVIOUS
    <3>1. CASE c \in gone /\ batch[c] = c
      <4>1. tx'[c] = [at |-> "over", todo |-> {}]
        BY <3>1 DEF Ends
      <4> QED
        BY <3>1, <4>1
    <3>2. CASE ~(c \in gone /\ batch[c] = c)
      <4>1. tx'[c] = tx[c]
        BY <1>1, <3>2
      <4> QED
        BY <4>1 DEF Opened
    <3> QED
      BY <3>1, <3>2
  <2>2. ASSUME NEW q \in Requests, batch[q] # 0
        PROVE  tx'[batch[q]].at = "over" <=> answer'[q] # Blank
    <3>1. CASE q \in gone
      <4>1. tx'[batch[q]] = [at |-> "over", todo |-> {}]
        BY <1>4, <2>2, <3>1
      <4> QED
        BY <1>9, <3>1, <4>1
    <3>2. CASE q \notin gone
      <4>1. tx'[batch[q]] = tx[batch[q]] /\ answer'[q] = answer[q]
        BY <1>1, <1>4, <2>2, <3>2
      <4> QED
        BY <2>2, <4>1 DEF Opened
    <3> QED
      BY <3>1, <3>2
  <2> QED
    BY <1>1, <2>1, <2>2 DEF Opened
<1>11. ToInsert'
  <2> SUFFICES ASSUME NEW c \in Requests
               PROVE  tx'[c].todo \subseteq Members(c) /\ (tx'[c].at # "alarms" => tx'[c].todo = {})
    BY <1>3 DEF ToInsert
  <2>1. CASE c \in gone /\ batch[c] = c
    BY <1>1, <2>1
  <2>2. CASE ~(c \in gone /\ batch[c] = c)
    <3>1. tx'[c] = tx[c]
      BY <1>1, <2>2
    <3> QED
      BY <3>1 DEF ToInsert
  <2> QED
    BY <2>1, <2>2
<1>12. KeysUnique'
  <2>1. ASSUME NEW q \in alarms PROVE q \notin tx'[batch[q]].todo
    <3>1. CASE q \in gone
      BY <1>4, <1>5, <3>1
    <3>2. CASE q \notin gone
      <4>1. tx'[batch[q]] = tx[batch[q]]
        BY <1>4, <1>5, <3>2
      <4> QED
        BY <4>1 DEF KeysUnique
    <3> QED
      BY <3>1, <3>2
  <2>2. alarms' \subseteq alarms
    BY <1>1
  <2> QED
    BY <1>1, <1>3, <2>1, <2>2 DEF KeysUnique
<1>13. Represented'
  <2> SUFFICES ASSUME NEW q \in Requests, batch[q] # 0, tx'[batch[q]].at # "over"
               PROVE  \/ q \in alarms' \/ q \in tx'[batch[q]].todo
                      \/ \E s \in Stored : SameKey(s, q)
                      \/ \E s \in Members(batch[q]) : SameKey(s, q) /\ (s \in alarms' \/ s \in tx'[batch[q]].todo)
    BY <1>1, <1>3, <1>6 DEF Represented
  <2>1. q \notin gone /\ tx'[batch[q]] = tx[batch[q]]
    BY <1>4
  <2>2. \A s \in Members(batch[q]) : s \notin gone
    BY <2>1 DEF Members
  <2>3. \A s : s \notin gone => (s \in alarms' <=> s \in alarms)
    BY <1>1
  <2> QED
    BY <2>1, <2>2, <2>3 DEF Represented
<1>14. \A q \in Requests : item'[q] # 0 => item'[q] = item[q]
  BY <1>1
<1>15. ItemsOfAlarms'
  <2>1. \A q \in Requests : item'[q] <= drawn /\ (batch[q] = 0 => item'[q] = 0)
    BY <1>1 DEF ItemsOfAlarms, ScadaTypeOK
  <2> SUFFICES ASSUME NEW q \in Requests, batch[q] # 0
               PROVE  /\ tx'[batch[q]].at \in {"alarms", "items"} => item'[q] = 0
                      /\ tx'[batch[q]].at \in {"commit", "answer", "over"} => (q \in alarms' <=> item'[q] # 0)
    BY <1>1, <2>1 DEF ItemsOfAlarms
  <2>2. CASE q \in gone
    <3>1. tx'[batch[q]].at = "over"
      BY <1>4, <2>2
    <3>2. CASE Committed(q)
      <4>1. q \in alarms <=> item[q] # 0
        BY <3>2 DEF ItemsOfAlarms, Committed
      <4>2. item'[q] = item[q] /\ (q \in alarms' <=> q \in alarms)
        BY <1>1, <3>2
      <4> QED
        BY <3>1, <4>1, <4>2
    <3>3. CASE ~Committed(q)
      <4>1. q \in dropped
        BY <2>2, <3>3
      <4>2. item'[q] = 0 /\ q \notin alarms'
        BY <1>1, <4>1
      <4> QED
        BY <3>1, <4>2
    <3> QED
      BY <3>2, <3>3
  <2>3. CASE q \notin gone
    <3>1. tx'[batch[q]] = tx[batch[q]] /\ item'[q] = item[q] /\ (q \in alarms' <=> q \in alarms)
      BY <1>1, <1>4, <2>3
    <3> QED
      BY <3>1 DEF ItemsOfAlarms
  <2> QED
    BY <2>2, <2>3
<1>16. ItemsDistinct'
  BY <1>14 DEF ItemsDistinct
<1>17. ItemsOrdered'
  <2>1. \A q \in Requests : answer[q] # Blank => answer'[q] # Blank
    BY <1>1, <1>9
  <2>2. \A s \in Requests : before[s] \subseteq Requests
    BY DEF ScadaTypeOK
  <2> QED
    BY <1>1, <1>14, <2>1, <2>2 DEF ItemsOrdered
<1>18. AnswersHold'
  <2> SUFFICES ASSUME NEW q \in Requests PROVE AnswerTo(q)'
    BY DEF AnswersHold, AnswerTo
  <2>1. AnswerTo(q)
    BY DEF AnswersHold, AnswerTo
  <2>2. CASE q \in gone
    BY <1>1, <2>2 DEF AnswerTo
  <2>3. CASE q \notin gone
    BY <1>1, <1>3, <1>6, <2>1, <2>3 DEF AnswerTo
  <2> QED
    BY <2>2, <2>3
<1> QED
  BY <1>7, <1>8, <1>10, <1>11, <1>12, <1>13, <1>15, <1>16, <1>17, <1>18

LEMMA RollBackKeeps ==
  ASSUME ScadaInv, NEW b \in Requests, RollBack(b)
  PROVE  ScadaInv'
<1> USE RequestsPositive, EventsAssumption
<1>1. /\ batch[b] = b /\ b # 0
      /\ \A c \in Requests : batch[c] # 0 => batch[batch[c]] = batch[c] /\ asked[c] \in Events
  BY OpenBatch DEF RollBack, ScadaInv, Gathered
<1>2. \A q \in Members(b) : q \in Requests /\ batch[q] = b /\ ~Committed(q)
  BY DEF RollBack, Members, Committed
<1>3. \A c \in Requests : c \in Members(b) /\ batch[c] = c <=> c = b
  BY <1>1 DEF Members
<1>4. {q \in Members(b) : batch[q] # 0 /\ ~Committed(q)} = Members(b)
  BY <1>1, <1>2
<1>5. tx' = [c \in Requests |-> IF c \in Members(b) /\ batch[c] = c THEN [at |-> "over", todo |-> {}] ELSE tx[c]]
  BY <1>3 DEF RollBack, MovesTo, ScadaInv, ScadaTypeOK
<1>6. answer' = [q \in Requests |-> IF q \in Members(b) THEN [code |-> "error", alarm |-> 0] ELSE answer[q]]
  BY DEF RollBack, Tells, Blank, Members
<1>7. Ends(Members(b), "error")
  BY <1>4, <1>5, <1>6 DEF Ends, RollBack, Forget
<1>8. Whole(Members(b))
  BY <1>1 DEF Whole, Members
<1>9. /\ pending' \in [Processes -> SUBSET Requests]
      /\ \A o \in Processes : pending'[o] \subseteq pending[o] \ Members(b)
  BY <1>1 DEF RollBack, ScadaInv, ScadaTypeOK, Gathered, Members
<1>10. Members(b) \in SUBSET Requests
  BY DEF Members
<1> QED
  BY <1>7, <1>8, <1>9, <1>10, EndsKeeps

LEMMA DiesKeeps ==
  ASSUME ScadaInv, NEW p \in Processes, Dies(p)
  PROVE  ScadaInv'
<1> USE RequestsPositive, EventsAssumption, NoProcessAssumption
<1> DEFINE here == {r \in Requests : home[r] = p /\ answer[r] = Blank}
<1>1. Ends(here, "lost")
  BY DEF Dies, Ends, Forget, Blank
<1>2. Whole(here)
  <2>1. ASSUME NEW q \in Requests, batch[q] # 0
        PROVE  q \in here <=> batch[q] \in here
    <3>1. batch[q] \in Requests /\ batch[batch[q]] = batch[q] /\ home[batch[q]] = home[q]
      BY <2>1 DEF ScadaInv, ScadaTypeOK, Gathered
    <3>2. answer[q] # Blank <=> tx[batch[q]].at = "over"
      BY <2>1 DEF ScadaInv, Opened
    <3>3. batch[batch[q]] # 0 /\ batch[q] \in Requests
      BY <2>1, <3>1
    <3>4. answer[batch[q]] # Blank <=> tx[batch[batch[q]]].at = "over"
      BY <3>3 DEF ScadaInv, Opened
    <3> QED
      BY <3>1, <3>2, <3>4
  <2>2. \A q \in here : asked[q] # NoEvent
    BY DEF ScadaInv, Gathered
  <2> QED
    BY <2>1, <2>2 DEF Whole
<1>3. /\ pending' \in [Processes -> SUBSET Requests]
      /\ \A o \in Processes : pending'[o] \subseteq pending[o] \ here
  BY DEF Dies, ScadaInv, ScadaTypeOK, Gathered
<1> QED
  BY <1>1, <1>2, <1>3, EndsKeeps

LEMMA ScadaRest ==
  ASSUME ScadaInv, UNCHANGED scadaVars
  PROVE  ScadaInv'
<1>1. UNCHANGED <<asked, home, pending, batch, tx, alarms, item, drawn, answer, before>>
  BY DEF scadaVars, tables
<1>2. (\A q, s : SameKey(q, s)' <=> SameKey(q, s)) /\ (\A c : Members(c)' = Members(c)) /\ Stored' = Stored
  BY <1>1 DEF SameKey, Members, Stored, Committed
<1> USE DEF ScadaInv
<1>3. ScadaTypeOK' /\ Gathered' /\ Opened'
  BY <1>1, <1>2 DEF ScadaTypeOK, Gathered, Opened
<1>4. ToInsert' /\ KeysUnique' /\ Represented'
  BY <1>1, <1>2 DEF ToInsert, KeysUnique, Represented
<1>5. ItemsOfAlarms' /\ ItemsDistinct' /\ ItemsOrdered' /\ AnswersHold'
  BY <1>1, <1>2 DEF ItemsOfAlarms, ItemsDistinct, ItemsOrdered, AnswersHold
<1> QED
  BY <1>3, <1>4, <1>5

-----------------------------------------------------------------------------
(* Complaints *)

\* A worker that is not idle holds an item that is queued, and no other holds it.
Working ==
  /\ \A w \in Workers : worker[w] # Idle =>
       worker[w].at # "idle" /\ worker[w].item \in Submissions /\ row[worker[w].item] = "queued"
  /\ \A v, w \in Workers : worker[v].item = worker[w].item /\ worker[w].item # 0 => v = w

\* The lock on an external id has one owner, and what it has seen stays so.
IdLocked ==
  /\ \A v, w \in Workers :
       HasLock(v) /\ HasLock(w) /\ SameId(worker[v].item, worker[w].item) => v = w
  /\ \A w \in Workers : worker[w].at = "store" => StoredCopies(worker[w].item) = {}
  /\ \A w \in Workers : worker[w].at = "duplicate" => StoredCopies(worker[w].item) # {}

\* Where a caller is tells whether its item was queued, and whether it was answered.
CallersKnow ==
  \A s \in Submissions :
    /\ caller[s] \in {"none", "enqueue"} => row[s] = "none"
    /\ caller[s] \in {"waiting", "asking"} => row[s] # "none"
    /\ caller[s] # "answered" => reply[s] = NoReply

\* What RepliesHold says of one caller.
RepliesTo(s) ==
  /\ reply[s].status = 201 => reply[s].shows = s /\ row[s] = "stored"
  /\ reply[s].status = 200 => reply[s].shows \in StoredCopies(s) \ {s} /\ row[s] # "stored"
  /\ reply[s].status = 409 => row[s] = "dead"
  /\ reply[s].status = 202 => row[s] # "none"

ComplaintInv ==
  /\ ComplaintTypeOK /\ Working /\ IdLocked /\ CallersKnow
  /\ OneCallPerExternalId /\ RepliesHold

LEMMA ZeroIsNoSubmission == 0 \notin Submissions
BY SubmissionsAssumption

LEMMA ComplaintInit == InitComplaints => ComplaintInv
BY ZeroIsNoSubmission, SubmissionsAssumption
   DEF InitComplaints, ComplaintInv, ComplaintTypeOK, CallerStates, Verdicts, Working, IdLocked, CallersKnow,
       OneCallPerExternalId, RepliesHold, HasLock, NoReply, Idle

LEMMA SubmitsKeeps ==
  ASSUME ComplaintInv, NEW c \in Channels, NEW s \in Submissions, NEW x \in ExternalIds \cup {NoExternalId},
         Submits(c, s, x)
  PROVE  ComplaintInv'
<1> USE ZeroIsNoSubmission, NoExternalIdAssumption DEF ComplaintInv
<1>0. /\ ext' = [ext EXCEPT ![s] = x] /\ via' = [via EXCEPT ![s] = c]
      /\ UNCHANGED <<row, attempts, worker>> /\ caller[s] = "none" /\ row[s] = "none"
  BY DEF Submits, CallersKnow
<1>1. \A t, u \in Submissions : t # s /\ u # s => (SameId(t, u)' <=> SameId(t, u))
  BY <1>0 DEF SameId, ComplaintTypeOK
<1>2. \A t \in Submissions : t # s => StoredCopies(t)' = StoredCopies(t)
  BY <1>0, <1>1 DEF StoredCopies
<1>3. \/ caller' = [caller EXCEPT ![s] = "enqueue"] /\ UNCHANGED reply
      \/ \E t \in Submissions : /\ row[t] = "stored" /\ x # NoExternalId /\ ext[t] = x
                                /\ reply' = [reply EXCEPT ![s] = [status |-> 200, shows |-> t]]
                                /\ caller' = [caller EXCEPT ![s] = "answered"]
  BY DEF Submits, Replies
<1>4. ComplaintTypeOK'
  BY <1>0, <1>3 DEF ComplaintTypeOK, CallerStates, Verdicts
<1>5. Working'
  BY <1>0 DEF Working
<1>6. IdLocked'
  <2>1. \A w \in Workers : HasLock(w) => worker[w].item \in Submissions /\ worker[w].item # s
    BY <1>0 DEF Working, HasLock, Idle
  <2>2. \A w \in Workers : HasLock(w)' = HasLock(w)
    BY <1>0 DEF HasLock
  <2> QED
    BY <1>0, <1>1, <1>2, <2>1, <2>2 DEF IdLocked, HasLock
<1>7. CallersKnow'
  BY <1>0, <1>3 DEF CallersKnow, ComplaintTypeOK
<1>8. OneCallPerExternalId'
  BY <1>0, <1>1, <1>2 DEF OneCallPerExternalId
<1>9. RepliesHold'
  <2> SUFFICES ASSUME NEW t \in Submissions PROVE RepliesTo(t)'
    BY DEF RepliesHold, RepliesTo
  <2>1. CASE t # s
    BY <1>0, <1>2, <1>3, <2>1 DEF RepliesHold, RepliesTo, ComplaintTypeOK
  <2>2. CASE t = s
    BY <1>0, <1>3, <2>2 DEF CallersKnow, RepliesTo, ComplaintTypeOK, NoReply, StoredCopies, SameId
  <2> QED
    BY <2>1, <2>2
<1> QED
  BY <1>4, <1>5, <1>6, <1>7, <1>8, <1>9

LEMMA ServesKeeps ==
  ASSUME ComplaintInv, NEW s \in Submissions, Serves(s)
  PROVE  ComplaintInv'
<1> USE ZeroIsNoSubmission DEF ComplaintInv
<1>1. CASE Enqueues(s)
  <2>1. /\ UNCHANGED <<ext, attempts, worker, reply>> /\ row[s] = "none"
        /\ row' = [row EXCEPT ![s] = "queued"]
        /\ caller[s] = "enqueue" /\ caller' = [caller EXCEPT ![s] = "waiting"]
    BY <1>1 DEF Enqueues, CallersKnow
  <2>2. \A t, u \in Submissions : SameId(t, u)' <=> SameId(t, u)
    BY <2>1 DEF SameId
  <2>3. \A t \in Submissions : StoredCopies(t)' = StoredCopies(t)
    BY <2>1, <2>2 DEF StoredCopies, ComplaintTypeOK
  <2>4. ComplaintTypeOK'
    BY <1>1 DEF Enqueues, ComplaintTypeOK, CallerStates
  <2>5. Working'
    BY <2>1 DEF Working, ComplaintTypeOK
  <2>6. IdLocked'
    BY <2>1, <2>2, <2>3 DEF IdLocked, Working, HasLock, Idle
  <2>7. CallersKnow'
    BY <2>1 DEF CallersKnow, ComplaintTypeOK
  <2>8. OneCallPerExternalId'
    BY <2>1, <2>2, <2>3 DEF OneCallPerExternalId, ComplaintTypeOK
  <2>9. RepliesHold'
    <3> SUFFICES ASSUME NEW t \in Submissions PROVE RepliesTo(t)'
      BY DEF RepliesHold, RepliesTo
    <3> QED
      BY <2>1, <2>3 DEF RepliesHold, RepliesTo, ComplaintTypeOK, CallersKnow, NoReply
  <2> QED
    BY <2>4, <2>5, <2>6, <2>7, <2>8, <2>9
<1>2. CASE Finds(s) \/ AsksWhy(s)
  <2>1. UNCHANGED <<ext, via, row, attempts, worker>> /\ caller[s] \in {"waiting", "asking"}
    BY <1>2 DEF Finds, AsksWhy
  <2>2. \/ reply' = reply /\ caller' = [caller EXCEPT ![s] = "asking"]
        \/ \E t \in Mine(s) : Replies(s, Status(s, t), t)
        \/ Replies(s, IF row[s] = "dead" THEN 409 ELSE 202, 0)
    BY <1>2 DEF Finds, AsksWhy
  <2>3. \A t \in Mine(s) : row[t] = "stored" /\ (t = s \/ t \in StoredCopies(s))
    BY DEF Mine, StoredCopies
  <2>4. ComplaintTypeOK'
    <3>1. \A t \in Mine(s) : Status(s, t) \in {200, 201} /\ t \in Submissions
      BY DEF Mine, Status, StoredCopies
    <3> QED
      BY <2>1, <2>2, <3>1 DEF Replies, ComplaintTypeOK, CallerStates
  <2>5. Working' /\ IdLocked' /\ OneCallPerExternalId'
    BY <2>1 DEF Working, IdLocked, OneCallPerExternalId, HasLock, StoredCopies, SameId
  <2>6. CallersKnow'
    BY <2>1, <2>2 DEF CallersKnow, Replies, ComplaintTypeOK
  <2>7. RepliesHold'
    <3> SUFFICES ASSUME NEW t \in Submissions PROVE RepliesTo(t)'
      BY DEF RepliesHold, RepliesTo
    <3>1. StoredCopies(t)' = StoredCopies(t)
      BY <2>1 DEF StoredCopies, SameId
    <3>2. CASE t # s \/ reply' = reply
      BY <2>1, <2>2, <3>1, <3>2 DEF RepliesHold, RepliesTo, Replies, ComplaintTypeOK
    <3>3. ASSUME t = s, NEW u \in Mine(s), Replies(s, Status(s, u), u)
          PROVE  RepliesTo(t)'
      <4>1. reply'[s] = [status |-> Status(s, u), shows |-> u]
        BY <3>3 DEF Replies, ComplaintTypeOK
      <4>2. u # s => row[s] # "stored"
        BY <2>3 DEF OneCallPerExternalId, StoredCopies
      <4> QED
        BY <2>1, <2>3, <3>1, <3>3, <4>1, <4>2 DEF RepliesTo, Status
    <3>4. CASE t = s /\ Replies(s, IF row[s] = "dead" THEN 409 ELSE 202, 0)
      <4>1. reply'[s] = [status |-> IF row[s] = "dead" THEN 409 ELSE 202, shows |-> 0]
        BY <3>4 DEF Replies, ComplaintTypeOK
      <4>2. row[s] # "none"
        BY <2>1 DEF CallersKnow
      <4> QED
        BY <2>1, <3>4, <4>1, <4>2 DEF RepliesTo
    <3> QED
      BY <2>2, <3>2, <3>3, <3>4
  <2> QED
    BY <2>4, <2>5, <2>6, <2>7
<1> QED
  BY <1>1, <1>2 DEF Serves

\* A worker that moves on inside its transaction, or drops it, without a row.
LEMMA WorkerMoves ==
  ASSUME ComplaintInv, NEW w \in Workers,
         UNCHANGED <<ext, via, caller, row, reply>>,
         attempts' \in [Submissions -> 0 .. MaxAttempts],
         worker' = [worker EXCEPT ![w] = worker'[w]],
         worker'[w] \in [at : {"idle", "begun", "locked", "duplicate", "store"}, item : Submissions \cup {0}],
         worker'[w] # Idle =>
           /\ worker'[w].at # "idle" /\ worker'[w].item \in Submissions /\ row[worker'[w].item] = "queued"
           /\ \A v \in Workers \ {w} : worker[v].item # worker'[w].item,
         HasLock(w)' =>
           \A v \in Workers \ {w} : HasLock(v) => ~SameId(worker[v].item, worker'[w].item) /\ ~SameId(worker'[w].item, worker[v].item),
         worker'[w].at = "store" => StoredCopies(worker'[w].item) = {},
         worker'[w].at = "duplicate" => StoredCopies(worker'[w].item) # {}
  PROVE  ComplaintInv'
<1> USE ZeroIsNoSubmission DEF ComplaintInv
<1>1. \A v \in Workers : v # w => worker'[v] = worker[v]
  BY DEF ComplaintTypeOK
<1>2. \A v \in Workers : v # w => (HasLock(v)' <=> HasLock(v))
  BY <1>1 DEF HasLock
<1>3. \A t, u : SameId(t, u)' <=> SameId(t, u)
  BY DEF SameId
<1>4. \A t : StoredCopies(t)' = StoredCopies(t)
  BY <1>3 DEF StoredCopies
<1>5. ComplaintTypeOK'
  BY DEF ComplaintTypeOK
<1>6. Working'
  BY <1>1 DEF Working, Idle
<1>7. IdLocked'
  BY <1>1, <1>2, <1>3, <1>4 DEF IdLocked
<1>8. CallersKnow' /\ OneCallPerExternalId' /\ RepliesHold'
  BY <1>3, <1>4 DEF CallersKnow, OneCallPerExternalId, RepliesHold
<1> QED
  BY <1>5, <1>6, <1>7, <1>8

LEMMA WorkerKeeps ==
  ASSUME ComplaintInv, NEW w \in Workers, NEW s \in Submissions,
         Begins(w, s) \/ Locks(w) \/ Decides(w) \/ Retries(w) \/ WorkerDies(w)
  PROVE  ComplaintInv'
<1> USE ZeroIsNoSubmission
<1>0. worker \in [Workers -> [at : {"idle", "begun", "locked", "duplicate", "store"}, item : Submissions \cup {0}]]
      /\ attempts \in [Submissions -> 0 .. MaxAttempts]
  BY DEF ComplaintInv, ComplaintTypeOK
<1>h. worker[w] # Idle =>
        /\ worker[w].at # "idle" /\ worker[w].item \in Submissions /\ row[worker[w].item] = "queued"
        /\ \A v \in Workers \ {w} : worker[v].item # worker[w].item
  BY DEF ComplaintInv, Working
<1>1. CASE Begins(w, s)
  <2>1. worker'[w] = [at |-> "begun", item |-> s] /\ worker' = [worker EXCEPT ![w] = worker'[w]]
    BY <1>0, <1>1 DEF Begins
  <2>2. \A v \in Workers : worker[v].item # s
    BY <1>1 DEF Begins, Held
  <2>3. attempts' \in [Submissions -> 0 .. MaxAttempts]
    BY <1>0, <1>1, SubmissionsAssumption DEF Begins
  <2>4. /\ worker'[w].at = "begun" /\ worker'[w].item = s /\ ~HasLock(w)'
        /\ worker'[w] \in [at : {"idle", "begun", "locked", "duplicate", "store"}, item : Submissions \cup {0}]
    BY <2>1 DEF HasLock
  <2>5. row[s] = "queued" /\ UNCHANGED <<ext, via, caller, row, reply>>
    BY <1>1 DEF Begins
  <2> QED
    BY <2>1, <2>2, <2>3, <2>4, <2>5, WorkerMoves
<1>2. CASE Locks(w)
  <2>1. worker'[w] = [worker[w] EXCEPT !.at = "locked"] /\ worker' = [worker EXCEPT ![w] = worker'[w]]
        /\ worker[w] # Idle
    BY <1>0, <1>2 DEF Locks, Sets, Idle
  <2>2. worker'[w].at = "locked" /\ worker'[w].item = worker[w].item
        /\ worker'[w] \in [at : {"idle", "begun", "locked", "duplicate", "store"}, item : Submissions \cup {0}]
    BY <1>0, <2>1
  <2>3. \A v \in Workers : HasLock(v) =>
          ~SameId(worker[v].item, worker[w].item) /\ ~SameId(worker[w].item, worker[v].item)
    BY <1>2 DEF Locks, SameId
  <2>4. UNCHANGED <<ext, via, caller, row, attempts, reply>>
    BY <1>2 DEF Locks
  <2> QED
    BY <1>0, <1>h, <2>1, <2>2, <2>3, <2>4, WorkerMoves
<1>3. CASE Decides(w)
  <2> DEFINE to == IF StoredCopies(worker[w].item) = {} THEN "store" ELSE "duplicate"
  <2>1. worker'[w] = [worker[w] EXCEPT !.at = to] /\ worker' = [worker EXCEPT ![w] = worker'[w]]
        /\ worker[w] # Idle /\ HasLock(w)
    BY <1>0, <1>3 DEF Decides, Sets, Idle, HasLock
  <2>2. worker'[w].at = to /\ worker'[w].item = worker[w].item
        /\ worker'[w] \in [at : {"idle", "begun", "locked", "duplicate", "store"}, item : Submissions \cup {0}]
    BY <1>0, <2>1
  <2>3. \A v \in Workers \ {w} : HasLock(v) =>
          ~SameId(worker[v].item, worker[w].item) /\ ~SameId(worker[w].item, worker[v].item)
    BY <2>1 DEF ComplaintInv, IdLocked
  <2>4. UNCHANGED <<ext, via, caller, row, attempts, reply>>
    BY <1>3 DEF Decides
  <2> QED
    BY <1>0, <1>h, <2>1, <2>2, <2>3, <2>4, WorkerMoves
<1>4. CASE Retries(w)
  <2>1. worker'[w] = [worker[w] EXCEPT !.at = "begun"] /\ worker' = [worker EXCEPT ![w] = worker'[w]]
        /\ worker[w] # Idle
    BY <1>0, <1>4 DEF Retries, Sets, Idle, HasLock
  <2>2. worker'[w].at = "begun" /\ worker'[w].item = worker[w].item /\ ~HasLock(w)'
        /\ worker'[w] \in [at : {"idle", "begun", "locked", "duplicate", "store"}, item : Submissions \cup {0}]
    BY <1>0, <2>1 DEF HasLock
  <2>3. UNCHANGED <<ext, via, caller, row, attempts, reply>>
    BY <1>4 DEF Retries
  <2> QED
    BY <1>0, <1>h, <2>1, <2>2, <2>3, WorkerMoves
<1>5. CASE WorkerDies(w)
  <2>1. worker'[w] = Idle /\ worker' = [worker EXCEPT ![w] = worker'[w]]
        /\ UNCHANGED <<ext, via, caller, row, attempts, reply>>
    BY <1>0, <1>5 DEF WorkerDies
  <2>2. worker'[w] \in [at : {"idle", "begun", "locked", "duplicate", "store"}, item : Submissions \cup {0}]
        /\ ~HasLock(w)' /\ worker'[w].at = "idle"
    BY <2>1 DEF Idle, HasLock
  <2> QED
    BY <1>0, <2>1, <2>2, WorkerMoves
<1> QED
  BY <1>1, <1>2, <1>3, <1>4, <1>5

\* An item of a worker gets its verdict, and the worker lets it go.
GetsVerdict(w, s, verdict) ==
  /\ UNCHANGED <<ext, via, caller, attempts, reply>>
  /\ row[s] = "queued" /\ row' = [row EXCEPT ![s] = verdict]
  /\ worker' = [worker EXCEPT ![w] = Idle]
  /\ \A v \in Workers : worker[v].item = s => v = w
  /\ verdict = "stored" => worker[w].item = s /\ worker[w].at = "store"
  /\ verdict = "duplicate" => StoredCopies(s) # {}

LEMMA VerdictKeeps ==
  ASSUME ComplaintInv, NEW w \in Workers, NEW s \in Submissions, NEW verdict \in Verdicts,
         GetsVerdict(w, s, verdict)
  PROVE  ComplaintInv'
<1> USE ZeroIsNoSubmission DEF ComplaintInv
<1>0. /\ UNCHANGED <<ext, via, caller, attempts, reply>>
      /\ row[s] = "queued" /\ row' = [row EXCEPT ![s] = verdict]
      /\ worker' = [worker EXCEPT ![w] = Idle]
      /\ \A v \in Workers : worker[v].item = s => v = w
      /\ verdict = "stored" => worker[w].item = s /\ worker[w].at = "store"
      /\ verdict = "duplicate" => StoredCopies(s) # {}
  BY DEF GetsVerdict
<1>1. \A t, u : SameId(t, u)' <=> SameId(t, u)
  BY <1>0 DEF SameId
<1>2. \A t \in Submissions : t # s => (row'[t] = row[t])
  BY <1>0 DEF ComplaintTypeOK
<1>3. row'[s] = verdict
  BY <1>0 DEF ComplaintTypeOK
<1>4. verdict = "stored" => StoredCopies(s) = {}
  BY <1>0 DEF IdLocked
<1>5. \A t : StoredCopies(t)' = StoredCopies(t) \cup {u \in {s} : verdict = "stored" /\ SameId(t, s)}
  BY <1>0, <1>1, <1>2, <1>3 DEF StoredCopies
<1>6. \A v \in Workers : (v # w => worker'[v] = worker[v] /\ worker[v].item # s) /\ worker'[w] = Idle
  BY <1>0 DEF ComplaintTypeOK
<1>7. ComplaintTypeOK'
  <2>1. Idle \in [at : {"idle", "begun", "locked", "duplicate", "store"}, item : Submissions \cup {0}]
    BY <1>0 DEF Idle
  <2> QED
    BY <1>0, <2>1 DEF ComplaintTypeOK
<1>8. Working'
  BY <1>0, <1>2, <1>6 DEF Working, Idle
<1>9. IdLocked'
  <2>1. \A v \in Workers : HasLock(v)' => v # w /\ HasLock(v)
    BY <1>0, <1>6 DEF HasLock, Idle
  <2>2. ASSUME NEW v \in Workers, v # w, worker[v].at = "store"
        PROVE  StoredCopies(worker[v].item)' = {}
    <3>1. StoredCopies(worker[v].item) = {} /\ HasLock(v)
      BY <1>0, <2>2 DEF IdLocked, HasLock
    <3>2. ~(verdict = "stored" /\ SameId(worker[v].item, s))
      BY <1>0, <2>2, <3>1 DEF IdLocked, HasLock
    <3>3. worker'[v].item = worker[v].item
      BY <1>0, <1>6, <2>2
    <3> QED
      BY <1>0, <1>5, <3>1, <3>2, <3>3
  <2>3. ASSUME NEW v \in Workers, v # w, worker[v].at = "duplicate"
        PROVE  StoredCopies(worker[v].item)' # {}
    BY <1>0, <1>5, <1>6, <2>3 DEF IdLocked
  <2> QED
    BY <1>0, <1>1, <1>6, <2>1, <2>2, <2>3 DEF IdLocked, Idle
<1>10. CallersKnow'
  BY <1>0, <1>2, <1>3 DEF CallersKnow, Verdicts
<1>11. OneCallPerExternalId'
  <2>1. ASSUME NEW t \in Submissions, NEW u \in Submissions,
               row'[t] = "stored", row'[u] = "stored", SameId(t, u)
        PROVE  t = u
    <3>1. CASE t # s /\ u # s
      BY <1>0, <1>2, <2>1, <3>1 DEF OneCallPerExternalId
    <3>2. CASE t # s /\ u = s
      BY <1>0, <1>2, <1>3, <1>4, <2>1, <3>2 DEF StoredCopies, SameId
    <3>3. CASE t = s /\ u # s
      BY <1>0, <1>2, <1>3, <1>4, <2>1, <3>3 DEF StoredCopies
    <3> QED
      BY <1>0, <3>1, <3>2, <3>3
  <2>2. ASSUME NEW t \in Submissions, row'[t] = "duplicate"
        PROVE  StoredCopies(t)' # {}
    <3>1. StoredCopies(t) # {}
      BY <1>0, <1>2, <1>3, <2>2 DEF OneCallPerExternalId
    <3> QED
      BY <1>0, <1>5, <3>1
  <2> QED
    BY <1>0, <1>1, <2>1, <2>2 DEF OneCallPerExternalId
<1>12. RepliesHold'
  <2> SUFFICES ASSUME NEW t \in Submissions PROVE RepliesTo(t)'
    BY <1>0 DEF RepliesHold, RepliesTo
  <2>1. RepliesTo(t)
    BY <1>0 DEF RepliesHold, RepliesTo
  <2>2. CASE t # s
    BY <1>0, <1>2, <1>5, <2>1, <2>2 DEF RepliesTo
  <2>3. CASE t = s
    <3>1. reply[s].status = 200 => reply[s].shows \in StoredCopies(s) \ {s} /\ verdict # "stored"
      BY <1>0, <1>4, <2>1, <2>3 DEF RepliesTo
    <3>2. reply[s].status # 201 /\ reply[s].status # 409
      BY <1>0, <2>1, <2>3 DEF RepliesTo
    <3> QED
      BY <1>0, <1>3, <1>5, <2>3, <3>1, <3>2 DEF RepliesTo, Verdicts
  <2> QED
    BY <1>0, <2>2, <2>3
<1> QED
  BY <1>0, <1>7, <1>8, <1>9, <1>10, <1>11, <1>12

LEMMA SettlesKeeps ==
  ASSUME ComplaintInv, NEW w \in Workers, NEW s \in Submissions,
         Commits(w) \/ Fails(w) \/ Exhausted(w, s)
  PROVE  ComplaintInv'
<1> USE ZeroIsNoSubmission
<1>0. /\ worker \in [Workers -> [at : {"idle", "begun", "locked", "duplicate", "store"}, item : Submissions \cup {0}]]
      /\ row \in [Submissions -> {"none", "queued"} \cup Verdicts]
      /\ attempts \in [Submissions -> 0 .. MaxAttempts]
  BY DEF ComplaintInv, ComplaintTypeOK
<1>h. ASSUME worker[w] # Idle
      PROVE  \E t \in Submissions :
               /\ worker[w].item = t /\ row[t] = "queued"
               /\ \A v \in Workers : worker[v].item = t => v = w
  BY <1>h DEF ComplaintInv, Working
<1>1. CASE Commits(w)
  <2>1. worker[w] # Idle /\ worker[w].at \in {"store", "duplicate"}
    BY <1>1 DEF Commits, Idle
  <2>2. PICK t \in Submissions :
          /\ worker[w].item = t /\ row[t] = "queued"
          /\ \A v \in Workers : worker[v].item = t => v = w
    BY <1>h, <2>1
  <2>3. worker' = [worker EXCEPT ![w] = Idle] /\ UNCHANGED <<ext, via, caller, attempts, reply>>
    BY <1>1 DEF Commits
  <2>4. CASE worker[w].at = "store"
    <3>1. row' = [row EXCEPT ![t] = "stored"] /\ "stored" \in Verdicts /\ "stored" # "duplicate"
      BY <1>1, <2>2, <2>4 DEF Commits, Verdicts
    <3>3. GetsVerdict(w, t, "stored")
      BY <2>2, <2>3, <2>4, <3>1 DEF GetsVerdict
    <3> QED
      BY <3>1, <3>3, VerdictKeeps
  <2>5. CASE worker[w].at = "duplicate"
    <3>1. row' = [row EXCEPT ![t] = "duplicate"] /\ "duplicate" \in Verdicts /\ "stored" # "duplicate"
      BY <1>1, <2>2, <2>5 DEF Commits, Verdicts
    <3>2. StoredCopies(t) # {}
      BY <2>2, <2>5 DEF ComplaintInv, IdLocked
    <3>3. GetsVerdict(w, t, "duplicate")
      BY <2>2, <2>3, <3>1, <3>2 DEF GetsVerdict
    <3> QED
      BY <3>1, <3>3, VerdictKeeps
  <2> QED
    BY <2>1, <2>4, <2>5
<1>2. CASE Fails(w)
  <2>1. worker[w] # Idle /\ worker' = [worker EXCEPT ![w] = Idle]
        /\ UNCHANGED <<ext, via, caller, attempts, reply>>
    BY <1>2 DEF Fails
  <2>2. PICK t \in Submissions :
          /\ worker[w].item = t /\ row[t] = "queued"
          /\ \A v \in Workers : worker[v].item = t => v = w
    BY <1>h, <2>1
  <2>3. row' = [row EXCEPT ![t] = IF attempts[t] = MaxAttempts THEN "dead" ELSE row[t]]
    BY <1>2, <2>2 DEF Fails
  <2>4. CASE attempts[t] = MaxAttempts
    <3>1. row' = [row EXCEPT ![t] = "dead"]
          /\ "dead" \in Verdicts /\ "dead" # "stored" /\ "dead" # "duplicate"
      BY <2>3, <2>4 DEF Verdicts
    <3>3. GetsVerdict(w, t, "dead")
      BY <2>1, <2>2, <3>1 DEF GetsVerdict
    <3> QED
      BY <3>1, <3>3, VerdictKeeps
  <2>5. CASE attempts[t] # MaxAttempts
    <3>1. row' = row
      BY <1>0, <2>3, <2>5
    <3>2. WorkerDies(w)
      BY <2>1, <3>1 DEF WorkerDies
    <3> QED
      BY <3>2, WorkerKeeps
  <2> QED
    BY <2>4, <2>5
<1>3. CASE Exhausted(w, s)
  <2>1. /\ worker[w] = Idle /\ row[s] = "queued" /\ \A v \in Workers : worker[v].item # s
        /\ row' = [row EXCEPT ![s] = "dead"] /\ UNCHANGED <<ext, via, caller, attempts, worker, reply>>
    BY <1>3 DEF Exhausted, Held
  <2>2. worker' = [worker EXCEPT ![w] = Idle] /\ "dead" \in Verdicts
    BY <1>0, <2>1 DEF Verdicts
  <2> QED
    BY <2>1, <2>2, VerdictKeeps DEF GetsVerdict
<1> QED
  BY <1>1, <1>2, <1>3

LEMMA ChannelDiesKeeps ==
  ASSUME ComplaintInv, NEW c, ChannelDies(c)
  PROVE  ComplaintInv'
<1>1. UNCHANGED <<ext, via, row, attempts, worker, reply>>
  BY DEF ChannelDies
<1>2. caller' \in [Submissions -> CallerStates] /\
      \A s \in Submissions : caller'[s] = caller[s] \/ (caller'[s] = "lost" /\ caller[s] # "answered")
  BY DEF ChannelDies, ComplaintInv, ComplaintTypeOK, CallerStates
<1> QED
  BY <1>1, <1>2 DEF ComplaintInv, ComplaintTypeOK, Working, IdLocked, CallersKnow, OneCallPerExternalId,
                    RepliesHold, HasLock, StoredCopies, SameId

\* What changes none of the variables of complaints keeps their invariant.
LEMMA ComplaintsRest ==
  ASSUME ComplaintInv, UNCHANGED complaintVars
  PROVE  ComplaintInv'
BY DEF complaintVars, ComplaintInv, ComplaintTypeOK, Working, IdLocked, CallersKnow, OneCallPerExternalId,
       RepliesHold, HasLock, StoredCopies, SameId

-----------------------------------------------------------------------------
(* Both *)

Inv == ScadaInv /\ ComplaintInv /\ part \in Parts /\ spent \in 0 .. Budget

LEMMA InitInv == Init => Inv
BY ScadaInit, ComplaintInit, BudgetAssumption DEF Init, Inv

LEMMA WritesKeeps ==
  ASSUME ScadaInv, NEW b \in Requests, Writes(b) \/ ScadaFails(b)
  PROVE  ScadaInv'
BY InsertAlarmKeeps, InsertItemsKeeps, CommitKeeps, AnswerKeeps, UnansweredKeeps, RollBackKeeps
   DEF Writes, ScadaFails, BreakDeadlock

LEMMA WorkerStepKeeps ==
  ASSUME ComplaintInv, NEW w \in Workers, Takes(w) \/ Works(w) \/ ComplaintFails(w)
  PROVE  ComplaintInv'
<1>1. CASE Takes(w)
  BY <1>1, WorkerKeeps, SettlesKeeps DEF Takes
<1>2. CASE Works(w) \/ ComplaintFails(w)
  <2>1. worker[w] # Idle
    BY <1>2 DEF Works, ComplaintFails, Locks, Decides, Commits, Retries, Fails, WorkerDies, HasLock, Idle
  <2>2. PICK s \in Submissions : worker[w].item = s
    BY <2>1 DEF ComplaintInv, Working
  <2>3. CASE Locks(w) \/ Decides(w) \/ Retries(w) \/ WorkerDies(w)
    BY <2>3, WorkerKeeps
  <2>4. CASE Commits(w) \/ Fails(w)
    BY <2>4, SettlesKeeps
  <2> QED
    BY <1>2, <2>3, <2>4 DEF Works, ComplaintFails
<1> QED
  BY <1>1, <1>2

LEMMA StepKeeps ==
  ASSUME Inv, [Next]_vars
  PROVE  Inv'
<1>0. ScadaInv /\ ComplaintInv /\ part \in Parts /\ spent \in 0 .. Budget
  BY DEF Inv
<1> SUFFICES /\ ScadaInv' /\ ComplaintInv'
             /\ part' \in Parts /\ spent' \in 0 .. Budget
  BY DEF Inv
<1>1. CASE UNCHANGED vars
  BY <1>0, <1>1, ScadaRest, ComplaintsRest DEF vars
<1>2. CASE Next
  <2>1. part' \in Parts
    BY <1>0, <1>2 DEF Next
  <2>2. \A n : n \in 0 .. Budget /\ n < Budget => n + 1 \in 0 .. Budget
    BY BudgetAssumption
  <2>3. CASE Report
    BY <1>0, <2>1, <2>2, <2>3, ArrivesKeeps, ComplaintsRest DEF Report, Spends
  <2>4. CASE Complain
    BY <1>0, <2>1, <2>2, <2>4, SubmitsKeeps, ScadaRest DEF Complain, Spends
  <2>5. CASE Disturbed
    <3>1. spent' \in 0 .. Budget
      BY <1>0, <2>2, <2>5 DEF Disturbed, Spends
    <3>2. ScadaInv' /\ ComplaintInv'
      BY <1>0, <2>5, WritesKeeps, WorkerStepKeeps, ScadaRest, ComplaintsRest DEF Disturbed
    <3> QED
      BY <2>1, <3>1, <3>2
  <2>6. ASSUME NEW p \in Processes, Gathers(p) \/ Death(p)
        PROVE  ScadaInv' /\ ComplaintInv' /\ spent' \in 0 .. Budget
    <3>1. CASE Gathers(p)
      BY <1>0, <3>1, FlushKeeps, ComplaintsRest DEF Gathers, Free
    <3>2. CASE Death(p)
      BY <1>0, <2>2, <3>2, DiesKeeps, ChannelDiesKeeps DEF Death, Spends
    <3> QED
      BY <2>6, <3>1, <3>2
  <2>7. ASSUME NEW b \in Requests, Batch(b)
        PROVE  ScadaInv' /\ ComplaintInv' /\ spent' \in 0 .. Budget
    BY <1>0, <2>7, WritesKeeps, ComplaintsRest DEF Batch, Free
  <2>8. ASSUME NEW s \in Submissions, Caller(s)
        PROVE  ScadaInv' /\ ComplaintInv' /\ spent' \in 0 .. Budget
    BY <1>0, <2>8, ServesKeeps, ScadaRest DEF Caller, Free
  <2>9. ASSUME NEW w \in Workers, Lane(w)
        PROVE  ScadaInv' /\ ComplaintInv' /\ spent' \in 0 .. Budget
    BY <1>0, <2>9, WorkerStepKeeps, ScadaRest DEF Lane, Free
  <2> QED
    BY <1>2, <2>1, <2>3, <2>4, <2>5, <2>6, <2>7, <2>8, <2>9 DEF Next
<1> QED
  BY <1>1, <1>2

THEOREM Invariance == Spec => []Inv
<1>1. Init => Inv
  BY InitInv
<1>2. Inv /\ [Next]_vars => Inv'
  BY StepKeeps
<1> QED
  BY <1>1, <1>2, PTL DEF Spec

\* Every variable keeps its type: rows refer to requests, items to submissions.
THEOREM TypeCorrect == Spec => []TypeOK
<1>1. Inv => TypeOK
  BY DEF Inv, TypeOK, ScadaInv, ComplaintInv
<1> QED
  BY <1>1, Invariance, PTL

\* scadaIntake.js: an event that can be known again is one alarm with one queue
\* item, through resends, overlapping batches, rollbacks and deaths.
THEOREM StoredOnce == Spec => []EventStoredOnce
<1>1. Inv => EventStoredOnce
  BY InvGives DEF Inv
<1> QED
  BY <1>1, Invariance, PTL

\* scadaIntake.js: a sender is told of its own alarm, or of a stored copy.
THEOREM SendersToldTruth == Spec => []AnswersHold
<1>1. Inv => AnswersHold
  BY InvGives DEF Inv
<1> QED
  BY <1>1, Invariance, PTL

\* scadaIntake.js: queue ids keep the order of a batch, and of requests that
\* came one after the other was over.
THEOREM OrderHolds == Spec => []OrderKept
<1>1. Inv => OrderKept
  BY InvGives DEF Inv
<1> QED
  BY <1>1, Invariance, PTL

\* complaintIntake.js: one complaint per external id, whatever is repeated.
THEOREM OneCall == Spec => []OneCallPerExternalId
<1>1. Inv => OneCallPerExternalId
  BY DEF Inv, ComplaintInv
<1> QED
  BY <1>1, Invariance, PTL

\* complaintIntake.js: the status a caller got stays true.
THEOREM CallersToldTruth == Spec => []RepliesHold
<1>1. Inv => RepliesHold
  BY DEF Inv, ComplaintInv
<1> QED
  BY <1>1, Invariance, PTL

-----------------------------------------------------------------------------
(* Arrival order, when a process writes its batches one after the other.    *)

\* Requests are numbered as they arrive.
Numbered ==
  \A r, s \in Requests : r < s /\ asked[s] # NoEvent => asked[r] # NoEvent

\* Of one process, what is batched arrived before what is pending, an earlier
\* batch has ended, and its ids are smaller.
InTurn ==
  \A r, s \in Requests : home[r] = home[s] /\ r < s /\ batch[s] # 0 =>
    /\ \A p \in Processes : r \notin pending[p]
    /\ batch[r] # 0 /\ batch[r] # batch[s] =>
         /\ tx[batch[r]].at \in {"answer", "over"}
         /\ item[r] # 0 /\ item[s] # 0 => item[r] < item[s]

SerialInv == ScadaInv /\ Numbered /\ InTurn

LEMMA SerialGives == SerialInv => ArrivalOrder
<1> SUFFICES ASSUME SerialInv, NEW r \in Stored, NEW s \in Stored, home[r] = home[s], r < s
             PROVE  item[r] < item[s]
  BY DEF ArrivalOrder
<1>1. \A q \in Stored : q \in Requests /\ batch[q] # 0 /\ item[q] # 0
  BY DEF SerialInv, ScadaInv, Stored, Committed, KeysUnique, ItemsOfAlarms, ScadaTypeOK
<1>2. CASE batch[r] = batch[s]
  BY <1>1, <1>2 DEF SerialInv, ScadaInv, ItemsOrdered
<1>3. CASE batch[r] # batch[s]
  BY <1>1, <1>3 DEF SerialInv, InTurn
<1> QED
  BY <1>2, <1>3

\* Steps that batch nothing and draw no ids.
LEMMA SerialKept ==
  ASSUME SerialInv, UNCHANGED <<asked, home, batch>>,
         \A p \in Processes : pending'[p] \subseteq pending[p],
         \A b \in Requests : tx[b].at \in {"answer", "over"} => tx'[b].at \in {"answer", "over"},
         \A r \in Requests : item'[r] \in {item[r], 0}
  PROVE  Numbered' /\ InTurn'
<1>1. Numbered'
  BY DEF SerialInv, Numbered
<1>2. \A r \in Requests : batch[r] # 0 => batch[r] \in Requests
  BY DEF SerialInv, ScadaInv, ScadaTypeOK
<1>3. InTurn'
  BY <1>2 DEF SerialInv, InTurn
<1> QED
  BY <1>1, <1>3

LEMMA ArrivesInTurn ==
  ASSUME SerialInv, NEW p \in Processes, NEW r \in Requests, NEW e \in Events, Arrives(p, r, e)
  PROVE  Numbered' /\ InTurn'
<1>1. /\ asked[r] = NoEvent /\ \A q \in Requests : q < r => asked[q] # NoEvent
      /\ asked' = [asked EXCEPT ![r] = e]
      /\ home' = [home EXCEPT ![r] = p]
      /\ pending' = [pending EXCEPT ![p] = @ \cup {r}]
      /\ UNCHANGED <<batch, tx, item>>
  BY DEF Arrives, tables
<1>2. /\ asked \in [Requests -> Events \cup {NoEvent}]
      /\ home \in [Requests -> Processes \cup {NoProcess}]
      /\ pending \in [Processes -> SUBSET Requests]
  BY DEF SerialInv, ScadaInv, ScadaTypeOK
<1>3. \A q \in Requests : /\ asked'[q] = (IF q = r THEN e ELSE asked[q])
                          /\ home'[q] = (IF q = r THEN p ELSE home[q])
  BY <1>1, <1>2
<1>4. e # NoEvent /\ batch[r] = 0
  BY <1>1, EventsAssumption DEF SerialInv, ScadaInv, Gathered
<1>5. Numbered'
  BY <1>1, <1>3, <1>4 DEF SerialInv, Numbered
<1>6. ASSUME NEW q \in Requests, r < q
      PROVE  batch[q] = 0
  <2>1. asked[q] = NoEvent
    BY <1>1, <1>6 DEF SerialInv, Numbered
  <2> QED
    BY <2>1, EventsAssumption DEF SerialInv, ScadaInv, Gathered
<1>7. \A x \in Processes : pending'[x] \subseteq pending[x] \cup {r}
  BY <1>1, <1>2
<1>8. InTurn'
  <2> SUFFICES ASSUME NEW q \in Requests, NEW s \in Requests,
                      home'[q] = home'[s], q < s, batch[s] # 0
               PROVE  /\ \A x \in Processes : q \notin pending'[x]
                      /\ batch[q] # 0 /\ batch[q] # batch[s] =>
                           /\ tx[batch[q]].at \in {"answer", "over"}
                           /\ item[q] # 0 /\ item[s] # 0 => item[q] < item[s]
    BY <1>1 DEF InTurn
  <2>1. s # r /\ q # r
    BY <1>4, <1>6
  <2>2. home[q] = home[s]
    BY <1>3, <2>1
  <2>3. \A x \in Processes : q \in pending'[x] => q \in pending[x]
    BY <1>7, <2>1
  <2> QED
    BY <2>2, <2>3 DEF SerialInv, InTurn
<1> QED
  BY <1>5, <1>8

LEMMA FlushInTurn ==
  ASSUME SerialInv, OneBatchAtATime, NEW p \in Processes, Flush(p)
  PROVE  Numbered' /\ InTurn'
<1> USE RequestsPositive
<1>1. PICK b \in pending[p] :
        /\ \A q \in pending[p] : b <= q
        /\ batch' = [q \in Requests |-> IF q \in pending[p] THEN b ELSE batch[q]]
        /\ tx' = [tx EXCEPT ![b] = [at |-> "alarms", todo |-> Unique(pending[p])]]
  BY DEF Flush
<1>2. /\ pending' = [pending EXCEPT ![p] = {}]
      /\ UNCHANGED <<asked, home, item>>
  BY DEF Flush, tables
<1>3. /\ pending \in [Processes -> SUBSET Requests] /\ b \in Requests
      /\ tx \in [Requests -> [at : TxStates, todo : SUBSET Requests]]
      /\ \A q \in Requests : batch[q] # 0 => batch[q] \in Requests
  BY DEF SerialInv, ScadaInv, ScadaTypeOK
<1>4. /\ \A q \in pending[p] : batch[q] = 0 /\ home[q] = p /\ item[q] = 0
      /\ \A q \in Requests : batch[q] # 0 => batch[batch[q]] = batch[q] /\ home[batch[q]] = home[q]
      /\ tx[b].at = "none" /\ batch[b] = 0
  BY <1>3 DEF SerialInv, ScadaInv, Gathered, Opened, ItemsOfAlarms
<1>5. \A q \in Requests : batch[q] # 0 => batch[q] # b /\ q \notin pending[p]
  BY <1>4
<1>6. \A c \in Requests : home[c] = p /\ batch[c] = c => tx[c].at \in {"answer", "over"}
  <2>1. tx'[b].at = "alarms" /\ home[b] = p
    BY <1>1, <1>3, <1>4
  <2> QED
    BY <1>3, <1>4, <2>1 DEF OneBatchAtATime
<1>7. \A c \in Requests : c # b => tx'[c] = tx[c]
  BY <1>1, <1>3
<1>8. Numbered'
  BY <1>2 DEF SerialInv, Numbered
<1>9. InTurn'
  <2> SUFFICES ASSUME NEW q \in Requests, NEW s \in Requests,
                      home[q] = home[s], q < s, batch'[s] # 0
               PROVE  /\ \A x \in Processes : q \notin pending'[x]
                      /\ batch'[q] # 0 /\ batch'[q] # batch'[s] =>
                           /\ tx'[batch'[q]].at \in {"answer", "over"}
                           /\ item[q] # 0 /\ item[s] # 0 => item[q] < item[s]
    BY <1>2 DEF InTurn
  <2>1. CASE batch[s] # 0
    <3>1. q \notin pending[p] /\ batch'[q] = batch[q] /\ batch'[s] = batch[s]
      BY <1>1, <1>5, <2>1 DEF SerialInv, InTurn
    <3>2. batch[q] # 0 => tx'[batch[q]] = tx[batch[q]]
      BY <1>3, <1>5, <1>7
    <3>3. \A x \in Processes : pending'[x] \subseteq pending[x]
      BY <1>2, <1>3
    <3> QED
      BY <2>1, <3>1, <3>2, <3>3 DEF SerialInv, InTurn
  <2>2. CASE batch[s] = 0
    <3>1. s \in pending[p] /\ batch'[s] = b /\ home[q] = p /\ item[s] = 0
      BY <1>1, <1>4, <2>2
    <3>2. \A x \in Processes : q \notin pending'[x]
      <4>1. \A x \in Processes : q \in pending[x] => x = p
        BY <3>1 DEF SerialInv, ScadaInv, Gathered
      <4> QED
        BY <1>2, <1>3, <4>1
    <3>3. ASSUME batch'[q] # 0, batch'[q] # b
          PROVE  tx'[batch'[q]].at \in {"answer", "over"}
      <4>1. batch'[q] = batch[q]
        BY <1>1, <3>3
      <4>2. /\ batch[q] \in Requests /\ home[batch[q]] = p
            /\ batch[batch[q]] = batch[q]
        BY <1>3, <1>4, <3>1, <3>3, <4>1
      <4> QED
        BY <1>6, <1>7, <3>3, <4>1, <4>2
    <3> QED
      BY <3>1, <3>2, <3>3
  <2> QED
    BY <2>1, <2>2
<1> QED
  BY <1>8, <1>9

LEMMA InsertItemsInTurn ==
  ASSUME SerialInv, NEW b \in Requests, InsertItems(b)
  PROVE  Numbered' /\ InTurn'
<1>1. /\ tx[b].at = "items"
      /\ item' = [r \in Requests |-> IF r \in Fresh(b) THEN ItemId(r, b) ELSE item[r]]
      /\ tx' = [tx EXCEPT ![b] = [at |-> "commit", todo |-> {}]]
      /\ UNCHANGED <<asked, home, pending, batch>>
  BY DEF InsertItems, At, MovesTo
<1>2. /\ drawn \in Nat
      /\ tx \in [Requests -> [at : TxStates, todo : SUBSET Requests]]
      /\ \A q \in Requests : item[q] \in Nat /\ item[q] <= drawn
      /\ \A q \in Requests : batch[q] # 0 => batch[q] \in Requests
  BY DEF SerialInv, ScadaInv, ScadaTypeOK, ItemsOfAlarms
<1>3. Fresh(b) \in SUBSET Requests /\ \A q \in Fresh(b) : batch[q] = b
  BY DEF SerialInv, ScadaInv, ScadaTypeOK, Fresh, Members
<1>4. \A q \in Fresh(b) : item'[q] \in Nat /\ item'[q] > drawn
  <2>1. \A q \in Fresh(b) : item'[q] = drawn + Cardinality(UpTo(Fresh(b), q))
    BY <1>1, <1>3 DEF ItemId, UpTo
  <2>2. \A q \in Fresh(b) : /\ Cardinality(UpTo(Fresh(b), q)) \in Nat
                            /\ Cardinality(UpTo(Fresh(b), q)) >= 1
    BY <1>3, NumbersInOrder
  <2> QED
    BY <1>2, <2>1, <2>2
<1>5. \A q \in Requests : q \notin Fresh(b) => item'[q] = item[q]
  BY <1>1
<1>6. \A c \in Requests : tx[c].at \in {"answer", "over"} => tx'[c].at \in {"answer", "over"}
  BY <1>1, <1>2
<1>7. Numbered'
  BY <1>1 DEF SerialInv, Numbered
<1>8. InTurn'
  <2> SUFFICES ASSUME NEW q \in Requests, NEW s \in Requests,
                      home[q] = home[s], q < s, batch[s] # 0
               PROVE  /\ \A x \in Processes : q \notin pending[x]
                      /\ batch[q] # 0 /\ batch[q] # batch[s] =>
                           /\ tx'[batch[q]].at \in {"answer", "over"}
                           /\ item'[q] # 0 /\ item'[s] # 0 => item'[q] < item'[s]
    BY <1>1 DEF InTurn
  <2>1. \A x \in Processes : q \notin pending[x]
    BY DEF SerialInv, InTurn
  <2>2. ASSUME batch[q] # 0, batch[q] # batch[s]
        PROVE  /\ tx'[batch[q]].at \in {"answer", "over"}
               /\ item'[q] # 0 /\ item'[s] # 0 => item'[q] < item'[s]
    <3>1. /\ tx[batch[q]].at \in {"answer", "over"}
          /\ item[q] # 0 /\ item[s] # 0 => item[q] < item[s]
      BY <2>2 DEF SerialInv, InTurn
    <3>2. q \notin Fresh(b)
      BY <1>1, <1>3, <3>1
    <3>3. item'[q] # 0 /\ item'[s] # 0 => item'[q] < item'[s]
      <4>1. CASE s \in Fresh(b)
        BY <1>2, <1>4, <1>5, <3>2, <4>1
      <4>2. CASE s \notin Fresh(b)
        BY <1>5, <3>1, <3>2, <4>2
      <4> QED
        BY <4>1, <4>2
    <3> QED
      BY <1>2, <1>6, <2>2, <3>1, <3>3
  <2> QED
    BY <2>1, <2>2
<1> QED
  BY <1>7, <1>8

\* The other steps of a batch, and a process that dies.
LEMMA BatchInTurn ==
  ASSUME SerialInv, NEW b \in Requests, Writes(b) \/ ScadaFails(b)
  PROVE  Numbered' /\ InTurn'
<1>t. /\ tx \in [Requests -> [at : TxStates, todo : SUBSET Requests]]
      /\ item \in [Requests -> Nat]
  BY DEF SerialInv, ScadaInv, ScadaTypeOK
<1>1. CASE InsertItems(b)
  BY <1>1, InsertItemsInTurn
<1>2. CASE InsertAlarm(b)
  <2>1. PICK r \in Requests : tx' = [tx EXCEPT ![b] = [at |-> IF @.todo = {r} THEN "items" ELSE "alarms",
                                                       todo |-> @.todo \ {r}]]
    BY <1>2 DEF InsertAlarm
  <2>2. \A c \in Requests : tx[c].at \in {"answer", "over"} => tx'[c].at \in {"answer", "over"}
    BY <1>2, <1>t, <2>1 DEF InsertAlarm, At
  <2> QED
    BY <1>2, <2>2, SerialKept DEF InsertAlarm
<1>3. CASE Commit(b) \/ Answer(b) \/ CommitUnanswered(b)
  <2>1. \A c \in Requests : tx[c].at \in {"answer", "over"} => tx'[c].at \in {"answer", "over"}
    BY <1>3, <1>t DEF Commit, Answer, CommitUnanswered, At, MovesTo
  <2> QED
    BY <1>3, <2>1, SerialKept DEF Commit, Answer, CommitUnanswered, tables
<1>4. CASE RollBack(b)
  <2>1. \A c \in Requests : tx[c].at \in {"answer", "over"} => tx'[c].at \in {"answer", "over"}
    BY <1>4, <1>t DEF RollBack, MovesTo
  <2>2. \A r \in Requests : item'[r] \in {item[r], 0}
    BY <1>4 DEF RollBack, Forget
  <2> QED
    BY <1>4, <2>1, <2>2, SerialKept DEF RollBack
<1> QED
  BY <1>1, <1>2, <1>3, <1>4 DEF Writes, ScadaFails, BreakDeadlock

LEMMA DiesInTurn ==
  ASSUME SerialInv, NEW p \in Processes, Dies(p)
  PROVE  Numbered' /\ InTurn'
<1> DEFINE here == {r \in Requests : home[r] = p /\ answer[r] = Blank}
<1>1. /\ pending' = [pending EXCEPT ![p] = {}]
      /\ Forget({r \in here : batch[r] # 0 /\ ~Committed(r)})
      /\ tx' = [b \in Requests |-> IF b \in here /\ batch[b] = b THEN [at |-> "over", todo |-> {}] ELSE tx[b]]
      /\ UNCHANGED <<asked, home, batch>>
  BY DEF Dies
<1> HIDE DEF here
<1>2. \A c \in Requests : tx[c].at \in {"answer", "over"} => tx'[c].at \in {"answer", "over"}
  BY <1>1
<1>3. \A r \in Requests : item'[r] \in {item[r], 0}
  BY <1>1 DEF Forget
<1>4. \A x \in Processes : pending'[x] \subseteq pending[x]
  BY <1>1 DEF SerialInv, ScadaInv, ScadaTypeOK
<1> QED
  BY <1>1, <1>2, <1>3, <1>4, SerialKept

LEMMA SerialStep == Inv /\ SerialInv /\ [Next /\ OneBatchAtATime]_vars => SerialInv'
<1> SUFFICES ASSUME Inv, SerialInv, [Next /\ OneBatchAtATime]_vars
             PROVE  Numbered' /\ InTurn'
  BY StepKeeps DEF SerialInv, Inv
<1>1. CASE UNCHANGED scadaVars
  BY <1>1, SerialKept DEF scadaVars, tables
<1>2. CASE UNCHANGED vars
  BY <1>1, <1>2 DEF vars
<1>3. CASE Next /\ OneBatchAtATime
  <2>1. CASE Report
    BY <2>1, ArrivesInTurn DEF Report
  <2>2. CASE Complain
    BY <1>1, <2>2 DEF Complain
  <2>3. CASE Disturbed
    BY <1>1, <2>3, BatchInTurn DEF Disturbed
  <2>4. ASSUME NEW p \in Processes, Gathers(p) \/ Death(p)
        PROVE  Numbered' /\ InTurn'
    BY <1>3, <2>4, FlushInTurn, DiesInTurn DEF Gathers, Death
  <2>5. ASSUME NEW b \in Requests, Batch(b)
        PROVE  Numbered' /\ InTurn'
    BY <2>5, BatchInTurn DEF Batch
  <2>6. CASE (\E s \in Submissions : Caller(s)) \/ (\E w \in Workers : Lane(w))
    BY <1>1, <2>6 DEF Caller, Lane
  <2> QED
    BY <1>3, <2>1, <2>2, <2>3, <2>4, <2>5, <2>6 DEF Next
<1> QED
  BY <1>2, <1>3

\* "Queue items are inserted in arrival order" (scadaIntake.js:16) holds, with
\* any resends, failures and deaths, once a process writes its batches one
\* after the other: that flush does not wait is all that breaks it.
THEOREM ArrivalOrderWhenSerial == SerialSpec => []ArrivalOrder
<1>1. Init => SerialInv
  BY ScadaInit DEF Init, SerialInv, InitScada, Numbered, InTurn
<1>2. SerialSpec => Spec
  <2>1. [Next /\ OneBatchAtATime]_vars => [Next]_vars
    OBVIOUS
  <2> QED
    BY <2>1, PTL DEF SerialSpec, Spec
<1> QED
  BY <1>1, <1>2, SerialStep, SerialGives, Invariance, PTL DEF SerialSpec
=============================================================================

------------------------------ MODULE ScadaBatch ------------------------------
(***************************************************************************)
(* How a SCADA event becomes an alarm and an item of the intake queue      *)
(* (backend/src/infra/scadaIntake.js): requests of a process are gathered, *)
(* each batch is one transaction, and every request of it is answered      *)
(* after the commit.  A batch is written while the next one is gathered,   *)
(* and other processes write theirs, so batches overlap.                   *)
(*                                                                         *)
(* Requests are numbered in the order of their arrival.  An alarm row and  *)
(* its queue item bear the number of the request that wrote them, a batch  *)
(* that of its first request.                                              *)
(***************************************************************************)
EXTENDS Naturals, FiniteSets

CONSTANTS
  Events,     \* records [n, tag, key]: event number n of its tag
  NoEvent,
  NoKey,      \* key of an event that carries nothing to know a resend by
  Requests,   \* bound: requests, resends included
  Processes, NoProcess,
  BatchMax    \* SCADA_BATCH_MAX

ASSUME RequestsAssumption ==
  Requests \subseteq Nat \ {0} /\ IsFiniteSet(Requests) /\ BatchMax \in Nat
ASSUME EventsAssumption ==
  NoEvent \notin Events /\ \A e \in Events : e.n \in Nat
ASSUME NoProcessAssumption == NoProcess \notin Processes

VARIABLES
  asked,    \* what request r carries
  home,     \* the process it reached
  pending,  \* requests being gathered
  batch,    \* the batch of request r, 0 before
  tx,       \* the transaction of batch b: where it is, alarms still to insert
  alarms,   \* alarm rows
  item,     \* intake_queue.id of the row request r wrote, 0 for none
  drawn,    \* the highest queue id drawn
  answer,   \* what the sender of request r was told
  before    \* history: the requests that were over when request r arrived

tables    == <<alarms, item, drawn>>
scadaVars == <<asked, home, pending, batch, tx, tables, answer, before>>

TxStates == {"none", "alarms", "items", "commit", "answer", "over"}
Answers  == {"none", "new", "duplicate", "error", "lost"}

Blank == [code |-> "none", alarm |-> 0]

ScadaTypeOK ==
  /\ asked \in [Requests -> Events \cup {NoEvent}]
  /\ home \in [Requests -> Processes \cup {NoProcess}]
  /\ pending \in [Processes -> SUBSET Requests]
  /\ batch \in [Requests -> Requests \cup {0}]
  /\ tx \in [Requests -> [at : TxStates, todo : SUBSET Requests]]
  /\ alarms \subseteq Requests
  /\ item \in [Requests -> Nat]
  /\ drawn \in Nat
  /\ answer \in [Requests -> [code : Answers, alarm : Requests \cup {0}]]
  /\ before \in [Requests -> SUBSET Requests]

-----------------------------------------------------------------------------
(* Rows *)

Members(b)   == {r \in Requests : batch[r] = b}
Committed(r) == tx[batch[r]].at \in {"answer", "over"}
Stored       == {r \in alarms : Committed(r)}

\* The unique index on alarms.event_key, which leaves out rows without a key.
SameKey(r, s) == asked[r].key # NoKey /\ asked[r].key = asked[s].key

\* The next row of the multi-row INSERT of batch b.
NextAlarm(b, r) == r \in tx[b].todo /\ \A q \in tx[b].todo : r <= q

\* The open transactions an INSERT of row r has to wait for.
Holders(r) == {batch[s] : s \in {s \in alarms : SameKey(s, r) /\ ~Committed(s)}}

Fresh(b) == alarms \cap Members(b)

-----------------------------------------------------------------------------
(* Gathering *)

\* POST /scada/fault.  A sender reports the events of a tag in their order, waits
\* for no answer, and may send an event again until it is told of its alarm.
Known(e) == \E q \in Requests : asked[q] = e /\ answer[q].code \in {"new", "duplicate"}
Arrives(p, r, e) ==
  /\ asked[r] = NoEvent /\ \A q \in Requests : q < r => asked[q] # NoEvent
  /\ \A d \in Events : d.tag = e.tag /\ d.n < e.n => \E q \in Requests : asked[q] = d
  /\ ~Known(e)
  /\ Cardinality(pending[p]) < BatchMax
  /\ asked' = [asked EXCEPT ![r] = e]
  /\ home' = [home EXCEPT ![r] = p]
  /\ pending' = [pending EXCEPT ![p] = @ \cup {r}]
  /\ before' = [before EXCEPT ![r] = {q \in Requests : answer[q] # Blank}]
  /\ UNCHANGED <<batch, tx, tables, answer>>

\* Of the copies of one event within a batch only the first is written.
Unique(group) == {r \in group : \A q \in group : q < r => ~SameKey(q, r)}

\* The batch is full, or its timer fires.
Flush(p) ==
  /\ \E b \in pending[p] :
       /\ \A q \in pending[p] : b <= q
       /\ batch' = [q \in Requests |-> IF q \in pending[p] THEN b ELSE batch[q]]
       /\ tx' = [tx EXCEPT ![b] = [at |-> "alarms", todo |-> Unique(pending[p])]]
  /\ pending' = [pending EXCEPT ![p] = {}]
  /\ UNCHANGED <<asked, home, tables, answer, before>>

-----------------------------------------------------------------------------
(* The transaction of a batch *)

At(b, state)    == tx[b].at = state
MovesTo(b, state) == tx' = [tx EXCEPT ![b] = [at |-> state, todo |-> {}]]
Tells(b, code) ==
  answer' = [r \in Requests |-> IF batch[r] = b THEN [Blank EXCEPT !.code = code] ELSE answer[r]]

\* ON CONFLICT (event_key) DO NOTHING waits for a transaction that wrote the
\* key and is still open.
InsertAlarm_Mutant(b) ==
  /\ At(b, "alarms")
  /\ \E r \in Requests :
       /\ NextAlarm(b, r)
       /\ alarms' = IF \E s \in Stored : SameKey(s, r) THEN alarms ELSE alarms \cup {r}
       /\ tx' = [tx EXCEPT ![b] = [at |-> IF @.todo = {r} THEN "items" ELSE "alarms",
                                   todo |-> @.todo \ {r}]]
  /\ UNCHANGED <<asked, home, pending, batch, item, drawn, answer, before>>
InsertAlarm(b) ==
  /\ At(b, "alarms")
  /\ \E r \in Requests :
       /\ NextAlarm(b, r)
       /\ Holders(r) = {}
       /\ alarms' = IF \E s \in Stored : SameKey(s, r) THEN alarms ELSE alarms \cup {r}
       /\ tx' = [tx EXCEPT ![b] = [at |-> IF @.todo = {r} THEN "items" ELSE "alarms",
                                   todo |-> @.todo \ {r}]]
  /\ UNCHANGED <<asked, home, pending, batch, item, drawn, answer, before>>

\* One INSERT for the alarms that were new; ids are drawn in the order of
\* arrival (what another INSERT draws between them changes no order).
ItemId_Mutant(r, b) == drawn + 1 + Cardinality({q \in Fresh(b) : q > r})
ItemId(r, b) == drawn + Cardinality({q \in Fresh(b) : q <= r})
InsertItems(b) ==
  /\ At(b, "items")
  /\ item' = [r \in Requests |-> IF r \in Fresh(b) THEN ItemId(r, b) ELSE item[r]]
  /\ drawn' = drawn + Cardinality(Fresh(b))
  /\ MovesTo(b, "commit")
  /\ UNCHANGED <<asked, home, pending, batch, alarms, answer, before>>

Commit(b) ==
  /\ At(b, "commit")
  /\ MovesTo(b, "answer")
  /\ UNCHANGED <<asked, home, pending, batch, tables, answer, before>>

\* The rows are stored, but the process takes the lost answer for a failure.
CommitUnanswered(b) ==
  /\ At(b, "commit")
  /\ MovesTo(b, "over")
  /\ Tells(b, "error")
  /\ UNCHANGED <<asked, home, pending, batch, tables, before>>

Forget(rows) ==
  /\ alarms' = alarms \ rows
  /\ item' = [r \in Requests |-> IF r \in rows THEN 0 ELSE item[r]]
  /\ UNCHANGED drawn

RollBack(b) ==
  /\ tx[b].at \in {"alarms", "items", "commit"}
  /\ MovesTo(b, "over")
  /\ Forget(Members(b))
  /\ Tells(b, "error")
  /\ UNCHANGED <<asked, home, pending, batch, before>>

\* PostgreSQL ends one transaction of a circle that wait for each other.
WaitsFor(b) == UNION {Holders(r) : r \in {r \in Requests : At(b, "alarms") /\ NextAlarm(b, r)}}
Deadlocked_Mutant(b) == FALSE
Deadlocked(b) ==
  \E circle \in SUBSET Requests :
    /\ b \in circle
    /\ \A c \in circle : (\E d \in circle : d \in WaitsFor(c)) /\ (\E d \in circle : c \in WaitsFor(d))
BreakDeadlock(b) == Deadlocked(b) /\ RollBack(b)

\* The alarm of an earlier copy: of this batch, or found by its key.
Copy_Mutant(r) == IF \E s \in Fresh(batch[r]) : SameKey(s, r) THEN CHOOSE s \in Fresh(batch[r]) : SameKey(s, r) ELSE 0
Copy(r) == IF \E s \in Stored : SameKey(s, r) THEN CHOOSE s \in Stored : SameKey(s, r) ELSE 0
Verdict(r) ==
  IF r \in alarms THEN [code |-> "new", alarm |-> r] ELSE [code |-> "duplicate", alarm |-> Copy(r)]
Answer(b) ==
  /\ At(b, "answer")
  /\ MovesTo(b, "over")
  /\ answer' = [r \in Requests |-> IF batch[r] = b THEN Verdict(r) ELSE answer[r]]
  /\ UNCHANGED <<asked, home, pending, batch, tables, before>>

\* The process dies: open transactions roll back, nobody is answered any more.
Dies(p) ==
  LET here == {r \in Requests : home[r] = p /\ answer[r] = Blank}
  IN /\ pending' = [pending EXCEPT ![p] = {}]
     /\ Forget({r \in here : batch[r] # 0 /\ ~Committed(r)})
     /\ tx' = [b \in Requests |-> IF b \in here /\ batch[b] = b THEN [at |-> "over", todo |-> {}] ELSE tx[b]]
     /\ answer' = [r \in Requests |-> IF r \in here THEN [Blank EXCEPT !.code = "lost"] ELSE answer[r]]
     /\ UNCHANGED <<asked, home, batch, before>>

-----------------------------------------------------------------------------

InitScada ==
  /\ asked = [r \in Requests |-> NoEvent]
  /\ home = [r \in Requests |-> NoProcess]
  /\ pending = [p \in Processes |-> {}]
  /\ batch = [r \in Requests |-> 0]
  /\ tx = [r \in Requests |-> [at |-> "none", todo |-> {}]]
  /\ alarms = {} /\ item = [r \in Requests |-> 0] /\ drawn = 0
  /\ answer = [r \in Requests |-> Blank]
  /\ before = [r \in Requests |-> {}]

Writes(b) == InsertAlarm(b) \/ InsertItems(b) \/ Commit(b) \/ Answer(b) \/ BreakDeadlock(b)
ScadaFails(b) == CommitUnanswered(b) \/ RollBack(b)

-----------------------------------------------------------------------------
(* Properties *)

\* Whatever is sent again, to whatever process: an event that can be known
\* again has one alarm, and every alarm has one queue item and the reverse.
EventStoredOnce ==
  /\ \A r, s \in Stored : SameKey(r, s) => r = s
  /\ \A r \in Requests : batch[r] # 0 /\ Committed(r) => (r \in alarms <=> item[r] # 0)
  /\ \A r, s \in Requests : item[r] = item[s] /\ item[r] # 0 => r = s

\* What a sender is told is so, also when the copy its answer names was
\* written by a process that never answered.
AnswersHold ==
  \A r \in Requests :
    LET a == answer[r].alarm
    IN /\ answer[r].code = "new" => a = r /\ r \in Stored
       /\ answer[r].code = "duplicate" => a \in Stored \ {r} /\ SameKey(a, r) /\ r \notin Stored

\* Of two requests about one tag the first stands first in the queue, if they
\* came in one batch, or the second after the first was answered, failed or lost.
OrderKept ==
  \A r, s \in Stored :
    /\ asked[r].tag = asked[s].tag /\ r < s
    /\ batch[r] = batch[s] \/ r \in before[s]
    => item[r] < item[s]

\* "Queue items are inserted in arrival order, so the queue's per-tag ordering
\* (trip, reclose, trip) is the order the requests arrived in."
ArrivalOrder ==
  \A r, s \in Stored :
    home[r] = home[s] /\ asked[r].tag = asked[s].tag /\ r < s => item[r] < item[s]

\* It does hold when a process flushes a batch only after the transaction of its
\* last one has ended.
OneBatchAtATime ==
  \A b \in Requests : tx[b].at = "none" /\ tx'[b].at = "alarms" =>
    \A c \in Requests : home[c] = home[b] /\ batch[c] = c => tx[c].at \in {"answer", "over"}
=============================================================================

----------------------------- MODULE PlannedNotice -----------------------------
(***************************************************************************)
(* The advance notice of one planned outage (backend/src/realtime/         *)
(* plannedNotices.js): found due, marked in the database, published on the *)
(* bus and sent by the notifier of every process that hears it.  An        *)
(* operator may do the same from the control room (POST .../notify), may   *)
(* skip the notice, and may give the outage a new window (PATCH), which    *)
(* begins a new round: the notice of the new window is due in its turn, or *)
(* at once if customers had the old one.  The control room's requests are  *)
(* served one at a time, in a process that runs no jobs.                   *)
(*                                                                         *)
(* Marking and rescheduling are the transactions of module PlannedOutage   *)
(* (Notify, Reschedule) on a plan that stays approved.  The bus is best    *)
(* effort: an event reaches the processes that listen, and the relay may   *)
(* lose it on its way to another process.                                  *)
(***************************************************************************)
EXTENDS ExclusiveJobs

CONSTANTS
  Scheduler, Notifier,  \* the jobs "planned-notices" and "notifier"
  MaxRounds             \* bound: windows the outage has had

ASSUME RoundsAssumption == MaxRounds \in Nat \ {0}

Rounds == 1 .. MaxRounds

VARIABLES
  notice,    \* of the window now: "none", "waiting" (for its lead time), "due",
             \* "sent" (notice_sent_at is set), "skipped"
  round,     \* the window now
  scanning,  \* [process -> its check: it has read the row as due, or marked it]
  desk,      \* the operator's request: "again" is between its two transactions
  airing,    \* <<process, round>>: the notifier there is about to send it
  marked,    \* rounds with "outage.notice_sent" in the safety log
  told,      \* [round -> times a notifier sent it out]
  missed,    \* rounds of which a publication or a sending failed
  doubled    \* rounds published while two processes ran the notifier

noticeVars == <<notice, round, scanning, desk, airing, marked, told, missed, doubled>>

Idle == [at |-> "off", round |-> 0]
SetScanning(p, r) == scanning' = [scanning EXCEPT ![p] = r]
Listening == {p \in Processes : Notifier \in running[p]}

\* notice_lead_minutes before the window.
ComesDue ==
  /\ notice = "waiting"
  /\ notice' = "due"
  /\ UNCHANGED <<round, scanning, desk, airing, marked, told, missed, doubled>>

\* dueNotices, every minute.  A check may start while the last one goes on;
\* of two that have read the row one marks it.
Scans(p) ==
  /\ Scheduler \in running[p]
  /\ scanning[p].at = "off" /\ notice = "due"
  /\ SetScanning(p, [at |-> "read", round |-> 0])
  /\ UNCHANGED <<notice, round, desk, airing, marked, told, missed, doubled>>

\* checkNotify inside the transaction: scheduled, whether due or not.
MayMark_Mutant == notice \in {"waiting", "due", "sent"}
MayMark == notice \in {"waiting", "due"}
Mark == notice' = "sent" /\ marked' = marked \cup {round}

Marks(p) ==
  /\ scanning[p].at = "read"
  /\ IF MayMark
     THEN Mark /\ SetScanning(p, [at |-> "marked", round |-> round])
     ELSE SetScanning(p, Idle) /\ UNCHANGED <<notice, marked>>
  /\ UNCHANGED <<round, desk, airing, told, missed, doubled>>

\* The transaction fails, or its COMMIT is done and the answer lost: no
\* publication either way.
MarkIsLost == MayMark /\ Mark /\ missed' = missed \cup {round}
MarkFails(p) ==
  /\ scanning[p].at = "read"
  /\ Trouble
  /\ MarkIsLost \/ UNCHANGED <<notice, marked, missed>>
  /\ SetScanning(p, Idle)
  /\ UNCHANGED <<sessionVars, round, desk, airing, told, doubled>>

\* bus.publish: at once to a listener in the process itself, through the relay
\* to the others.
Airs(r, lost) ==
  LET heard == Listening \ lost
  IN /\ airing' = airing \cup (heard \X {r})
     /\ missed' = IF heard = {} THEN missed \cup {r} ELSE missed
     /\ doubled' = IF \E p, q \in heard : p # q THEN doubled \cup {r} ELSE doubled
     /\ UNCHANGED <<notice, round, marked, told>>

Publishes(p) ==
  /\ scanning[p].at = "marked"
  /\ SetScanning(p, Idle)
  /\ \/ Airs(scanning[p].round, {}) /\ UNCHANGED troubles
     \/ Trouble /\ \E q \in Listening \ {p} : Airs(scanning[p].round, {q})
  /\ UNCHANGED <<sessionVars, desk>>

\* POST .../notify, and the second transaction of PATCH.
OperatorMarks ==
  /\ desk.at \in {"off", "again"} /\ MayMark
  /\ Mark
  /\ desk' = [at |-> "marked", round |-> round]
  /\ UNCHANGED <<round, scanning, airing, told, missed, doubled>>

\* PATCH comes second: its customers have the notice of the new window.
OperatorIsLate ==
  /\ desk.at = "again" /\ ~MayMark
  /\ desk' = Idle
  /\ UNCHANGED <<notice, round, scanning, airing, marked, told, missed, doubled>>

\* POST .../notify with skip: nothing is published.
OperatorSkips ==
  /\ desk.at = "off" /\ MayMark
  /\ notice' = "skipped"
  /\ UNCHANGED <<round, scanning, desk, airing, marked, told, missed, doubled>>

\* PATCH: a new window; the marks of the old one are cleared.
Reschedules ==
  /\ desk.at = "off" /\ notice # "none" /\ round < MaxRounds
  /\ round' = round + 1
  /\ notice' = "waiting"
  /\ desk' = IF notice = "sent" THEN [at |-> "again", round |-> 0] ELSE Idle
  /\ UNCHANGED <<scanning, airing, marked, told, missed, doubled>>

OperatorPublishes ==
  /\ desk.at = "marked"
  /\ desk' = Idle
  /\ \/ Airs(desk.round, {}) /\ UNCHANGED troubles
     \/ Trouble /\ \E q \in Listening : Airs(desk.round, {q})
  /\ UNCHANGED <<sessionVars, scanning>>

\* The control room's process ends, or a transaction of its request fails (its
\* answer may be lost after the COMMIT).
OperatorFails ==
  /\ Trouble
  /\ desk' = Idle
  /\ \/ desk.at = "marked" /\ missed' = missed \cup {desk.round} /\ UNCHANGED <<notice, marked>>
     \/ desk.at = "again" /\ UNCHANGED <<notice, marked, missed>>
     \/ desk.at # "marked" /\ MarkIsLost
  /\ UNCHANGED <<sessionVars, round, scanning, airing, told, doubled>>

\* The notifier's handler hands it to the gateways, which put on record what
\* became of it: no look at what was sent already.
Sent(r) == told' = [told EXCEPT ![r] = @ + 1]
Tells(p) ==
  /\ \E r \in Rounds : <<p, r>> \in airing /\ airing' = airing \ {<<p, r>>} /\ Sent(r)
  /\ UNCHANGED <<notice, round, scanning, desk, marked, missed, doubled>>

\* One of its statements fails: before the e-mail, or after it.
TellFails(p) ==
  /\ Trouble
  /\ \E r \in Rounds :
       /\ <<p, r>> \in airing /\ airing' = airing \ {<<p, r>>}
       /\ Sent(r) \/ UNCHANGED told
       /\ missed' = missed \cup {r}
  /\ UNCHANGED <<sessionVars, notice, round, scanning, desk, marked, doubled>>

\* The process ends with what it was about to publish or send.
Holder(p, r) == scanning[p].at = "marked" /\ scanning[p].round = r
InHandOf(p)  == {r \in Rounds : Holder(p, r) \/ <<p, r>> \in airing}
Drops(p) ==
  /\ SetScanning(p, Idle)
  /\ airing' = airing \ ({p} \X Rounds)
  /\ missed' = missed \cup InHandOf(p)
  /\ UNCHANGED <<notice, round, desk, marked, told, doubled>>

InitNotice(on) ==
  /\ notice = IF on THEN "waiting" ELSE "none"
  /\ round = 1
  /\ scanning = [p \in Processes |-> Idle]
  /\ desk = Idle
  /\ airing = {}
  /\ marked = {}
  /\ told = [r \in Rounds |-> 0]
  /\ missed = {}
  /\ doubled = {}

-----------------------------------------------------------------------------
(* Properties *)

NoticeTypeOK ==
  /\ notice \in {"none", "waiting", "due", "sent", "skipped"}
  /\ round \in Rounds
  /\ scanning \in [Processes -> [at : {"off", "read", "marked"}, round : 0 .. MaxRounds]]
  /\ desk \in [at : {"off", "again", "marked"}, round : 0 .. MaxRounds]
  /\ airing \subseteq Processes \X Rounds
  /\ told \in [Rounds -> Nat]
  /\ {marked, missed, doubled} \subseteq SUBSET Rounds

\* Somebody is still at work on the notice of round r.
InHand(r) ==
  \/ desk.at = "marked" /\ desk.round = r
  \/ \E p \in Processes : r \in InHandOf(p)

\* "A restart never loses or repeats a notice", window by window: customers are
\* told twice only if two processes ran the notifier; a notice on record as
\* sent, which nobody works on any more, was sent, unless on its way a process
\* ended, a statement failed, the relay lost it or no notifier was listening;
\* and one that is not on record as sent (skipped, replaced) was not.
NoticeOnce ==
  \A r \in Rounds :
    /\ told[r] > 1 => r \in doubled
    /\ r \in marked /\ ~InHand(r) => told[r] > 0 \/ r \in missed
    /\ told[r] > 0 => r \in marked
=============================================================================

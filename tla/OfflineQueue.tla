----------------------------- MODULE OfflineQueue -----------------------------
(***************************************************************************)
(* The crew app's "pending sync" queue (src/lib/offlineQueue.js) and the   *)
(* two callers that decide between sending now and queueing: handleAdvance *)
(* for status changes, sendCompletion for completion forms                 *)
(* (src/NativeApp.jsx).                                                    *)
(*                                                                         *)
(* What a phone keeps over a restart is the queue and the forms not        *)
(* delivered; an update being sent directly, and how far a flush has come, *)
(* are in memory only.  Photos, scans, checklists and work orders wait in  *)
(* the same queue and are data here; so is what the screens show.          *)
(*                                                                         *)
(* The array of the queue is a set of items here, oldest first by the time *)
(* they were queued: a phone queues at most one item per press, so no two  *)
(* have the same time.  The server is whatever hands back one of the       *)
(* answers; the slot is where a request waits for it.                      *)
(***************************************************************************)
EXTENDS Naturals

CONSTANTS
  Phones,
  Taps,       \* [p -> numbers of the updates its crew makes, in that order]
  FormOf      \* [update -> the job it is the completion form of, 0 for a status]

VARIABLES
  queue,        \* [p -> items waiting: [u, ts], oldest first by ts]
  direct,       \* [p -> the update sent as it is made, and its slot]
  flush,        \* [p -> the running flush: items left, slot, items dealt with]
  undelivered,  \* [p -> forms kept as not delivered]
  tapped,       \* updates made so far
  waived        \* forms the app lets go, on purpose or with its own end

phoneVars == <<queue, direct, flush, undelivered, tapped, waived>>

NoTap    == 0
NoSlot   == 0
NoDirect == [u |-> NoTap, slot |-> NoSlot]
NoFlush  == [left |-> {}, slot |-> NoSlot, done |-> {}]

Items(us)     == [u : us, ts : Nat]
Push(p, u, t) == queue' = [queue EXCEPT ![p] = @ \cup {[u |-> u, ts |-> t]}]
Oldest(items) == CHOOSE i \in items : \A k \in items : i.ts <= k.ts

IsForm(u) == u # NoTap /\ FormOf[u] # 0

\* keepUndeliveredCompletion and clearUndeliveredCompletion go by the job: a
\* form kept earlier for the same job is replaced, or cleared.
Others(p, u) == {v \in undelivered[p] : FormOf[v] # FormOf[u]}
Keep(p, u) ==
  /\ undelivered' = [undelivered EXCEPT ![p] = Others(p, u) \cup {u}]
  /\ waived' = waived \cup (undelivered[p] \ (Others(p, u) \cup {u}))
Clear(p, u) ==
  /\ undelivered' = [undelivered EXCEPT ![p] = Others(p, u)]
  /\ waived' = waived \cup (undelivered[p] \ (Others(p, u) \cup {u}))

-----------------------------------------------------------------------------
(* The crew presses a button *)

\* Behind older updates; a form does not look at what waits.
Behind(p, u) == queue[p] # {} /\ ~IsForm(u)

Tap(p, u) ==
  /\ u \in Taps[p] \ tapped
  /\ \A v \in Taps[p] : v < u => v \in tapped
  /\ direct[p] = NoDirect        \* the button is off while one is being sent
  /\ tapped' = tapped \cup {u}

\* Sent at once; without signal it goes to the queue.
TapSend(p, u, slot) ==
  /\ Tap(p, u) /\ ~Behind(p, u)
  /\ direct' = [direct EXCEPT ![p] = [u |-> u, slot |-> slot]]
  /\ UNCHANGED <<queue, flush, undelivered, waived>>

TapQueue(p, u, now) ==
  /\ Tap(p, u)
  /\ Push(p, u, now)
  /\ UNCHANGED <<direct, flush, undelivered, waived>>

\* The answer to a direct send.  A refused form is shown, not kept.
DirectAnswered(p, answer, now) ==
  LET u == direct[p].u
  IN /\ direct[p] # NoDirect
     /\ direct' = [direct EXCEPT ![p] = NoDirect]
     /\ IF answer = "error" THEN Push(p, u, now) ELSE UNCHANGED queue
     /\ CASE IsForm(u) /\ answer = "late"    -> Keep(p, u)
          [] IsForm(u) /\ answer = "applied" -> Clear(p, u)
          [] IsForm(u) /\ answer \in {"refused", "notyours"} ->
               waived' = waived \cup {u} /\ UNCHANGED undelivered
          [] OTHER -> UNCHANGED <<undelivered, waived>>
     /\ UNCHANGED <<flush, tapped>>

-----------------------------------------------------------------------------
(* flushQueue: on sign-in, when the network comes back, every 30 s *)

Flushing(p) == flush[p].left # {}
Sending(p)  == flush[p].slot # NoSlot

\* The next item of the running flush; without one, the first of a new flush
\* over what is queued now.  (Reading the queue and sending the first item are
\* one step: what is queued in between waits for the next flush either way.)
FlushSend(p, slot) ==
  LET f == IF Flushing(p) THEN flush[p] ELSE [NoFlush EXCEPT !.left = queue[p]]
  IN /\ ~Sending(p)
     /\ f.left # {}
     /\ flush' = [flush EXCEPT ![p] = [f EXCEPT !.slot = slot]]
     /\ UNCHANGED <<queue, direct, undelivered, tapped, waived>>

\* isRefusal: a 4xx is dealt with like an answer; anything else breaks the
\* loop, the rest stays queued in order.
Breaks_Mutant(answer) == answer \in {"refused", "notyours", "error"}
Breaks(answer) == answer = "error"

\* withQueue reads the queue again, so that what was queued meanwhile stays.
Rest_Mutant(p, done) == {}
Rest(p, done) == queue[p] \ done

\* The answer to the item sent; after the last one, or one that breaks the
\* loop, what was dealt with leaves the queue.
FlushAnswered(p, answer) ==
  LET item == Oldest(flush[p].left)
      u    == item.u
      left == IF Breaks(answer) THEN {} ELSE flush[p].left \ {item}
      done == IF Breaks(answer) THEN flush[p].done ELSE flush[p].done \cup {item}
  IN /\ Sending(p)
     /\ IF left = {}
        THEN /\ queue' = [queue EXCEPT ![p] = Rest(p, done)]
             /\ flush' = [flush EXCEPT ![p] = NoFlush]
        ELSE /\ flush' = [flush EXCEPT ![p] = [left |-> left, slot |-> NoSlot, done |-> done]]
             /\ UNCHANGED queue
     /\ CASE IsForm(u) /\ answer \in {"late", "refused"} -> Keep(p, u)
          [] IsForm(u) /\ answer = "applied"  -> Clear(p, u)
          [] IsForm(u) /\ answer = "notyours" -> waived' = waived \cup {u} /\ UNCHANGED undelivered
          [] OTHER -> UNCHANGED <<undelivered, waived>>
     /\ UNCHANGED <<direct, tapped>>

-----------------------------------------------------------------------------
(* Failures *)

\* The app is closed or killed: the queue is on disk, the rest is not.
Kill(p) ==
  /\ direct[p] # NoDirect \/ Flushing(p)
  /\ direct' = [direct EXCEPT ![p] = NoDirect]
  /\ flush' = [flush EXCEPT ![p] = NoFlush]
  /\ waived' = IF IsForm(direct[p].u) THEN waived \cup {direct[p].u} ELSE waived
  /\ UNCHANGED <<queue, undelivered, tapped>>

InitPhones ==
  /\ queue = [p \in Phones |-> {}]
  /\ direct = [p \in Phones |-> NoDirect]
  /\ flush = [p \in Phones |-> NoFlush]
  /\ undelivered = [p \in Phones |-> {}]
  /\ tapped = {}
  /\ waived = {}

-----------------------------------------------------------------------------
AllTaps == UNION {Taps[p] : p \in Phones}
Queued(p)    == {i.u : i \in queue[p]}
Unsettled(p) == queue[p] # {} \/ direct[p] # NoDirect \/ Flushing(p)

\* Each phone keeps items of its own crew; a flush works through them.
PhonesTypeOK(slots) ==
  /\ DOMAIN queue = Phones /\ DOMAIN direct = Phones
  /\ DOMAIN flush = Phones /\ DOMAIN undelivered = Phones
  /\ \A p \in Phones :
       /\ queue[p] \subseteq Items(Taps[p])
       /\ direct[p] \in [u : Taps[p] \cup {NoTap}, slot : slots \cup {NoSlot}]
       /\ flush[p] \in [left : SUBSET Items(Taps[p]), slot : slots \cup {NoSlot},
                        done : SUBSET Items(Taps[p])]
       /\ undelivered[p] \subseteq Taps[p]
  /\ tapped \subseteq AllTaps /\ waived \subseteq AllTaps
=============================================================================

---------------------------- MODULE IntakeRequests ----------------------------
(***************************************************************************)
(* What the outside sends to the intake: SCADA events and complaints, each *)
(* repeated by senders that got no answer, to API processes that may die   *)
(* with requests at work.  The two share the processes and nothing else    *)
(* (lanes and order keys keep their items apart), so a behaviour has       *)
(* requests of one sort.                                                   *)
(***************************************************************************)
EXTENDS ScadaBatch, ComplaintIntake

CONSTANTS
  Parts,       \* the sorts of requests a behaviour may have
  Budget       \* bound: requests and troubles (failed transactions, lost
               \* answers, deaths) together

ASSUME BudgetAssumption == Budget \in Nat

VARIABLES part, spent

vars == <<part, spent, scadaVars, complaintVars>>

Init ==
  /\ part \in Parts /\ spent = 0
  /\ InitScada /\ InitComplaints

Free   == UNCHANGED spent
Spends == spent < Budget /\ spent' = spent + 1

Report ==
  /\ part = "scada" /\ Spends
  /\ \E p \in Processes, r \in Requests, e \in Events : Arrives(p, r, e)
  /\ UNCHANGED complaintVars

Gathers(p) == Free /\ Flush(p) /\ UNCHANGED complaintVars
Batch(b)   == Free /\ Writes(b) /\ UNCHANGED complaintVars

Complain ==
  /\ part = "complaints" /\ Spends
  /\ \E c \in Channels, s \in Submissions, x \in ExternalIds \cup {NoExternalId} : Submits(c, s, x)
  /\ UNCHANGED scadaVars

Caller(s) == Free /\ Serves(s) /\ UNCHANGED scadaVars
Lane(w)   == Free /\ (Takes(w) \/ Works(w)) /\ UNCHANGED scadaVars

Disturbed ==
  /\ Spends
  /\ \/ (\E b \in Requests : ScadaFails(b)) /\ UNCHANGED complaintVars
     \/ (\E w \in Workers : ComplaintFails(w)) /\ UNCHANGED scadaVars

Death(p) == Spends /\ Dies(p) /\ ChannelDies(p)

Next ==
  /\ \/ Report \/ Complain \/ Disturbed
     \/ \E p \in Processes : Gathers(p) \/ Death(p)
     \/ \E b \in Requests : Batch(b)
     \/ \E s \in Submissions : Caller(s)
     \/ \E w \in Workers : Lane(w)
  /\ UNCHANGED part

Spec == Init /\ [][Next]_vars

\* Timers fire, statements return, PostgreSQL finds deadlocks, loops go on.
\* Nothing makes a sender send, or a fault happen.
Fairness ==
  /\ \A p \in Processes : WF_vars(Gathers(p) /\ UNCHANGED part)
  /\ \A b \in Requests : WF_vars(Batch(b) /\ UNCHANGED part)
  /\ \A s \in Submissions : WF_vars(Caller(s) /\ UNCHANGED part)
  /\ \A w \in Workers : WF_vars(Lane(w) /\ UNCHANGED part)

FairSpec == Spec /\ Fairness

\* Batches of one process written one after the other (ArrivalOrder).
SerialSpec == Init /\ [][Next /\ OneBatchAtATime]_vars

-----------------------------------------------------------------------------
(* Properties *)

TypeOK ==
  /\ ScadaTypeOK /\ ComplaintTypeOK
  /\ part \in Parts /\ spent \in 0 .. Budget

\* Every request is answered, with an error at worst, unless its process dies,
\* and every item a complaint was queued as gets its verdict: batches that wait
\* for each other, failures and exhausted items hold nobody for ever.
EverybodyIsAnswered ==
  []<>( /\ \A r \in Requests : asked[r] # NoEvent => answer[r] # Blank
        /\ \A s \in Submissions : caller[s] \in {"none", "answered", "lost"} /\ row[s] # "queued" )
=============================================================================

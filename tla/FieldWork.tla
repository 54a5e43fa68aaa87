------------------------------- MODULE FieldWork -------------------------------
(***************************************************************************)
(* Crews' phones and the job endpoints together: an update is made, waits  *)
(* in the phone's queue or is sent at once, is decided by the server, and  *)
(* the phone takes the answer, or gives up waiting for it and sends the    *)
(* update again while the first request may still be at work.              *)
(***************************************************************************)
EXTENDS CrewJobs, OfflineQueue

\* The updates of the phones are those the server knows of, each made by one.
ASSUME TapsAssumption ==
  /\ Taps \in [Phones -> SUBSET Updates]
  /\ \A p, q \in Phones : p # q => Taps[p] \cap Taps[q] = {}
  /\ FormOf = [u \in Updates |-> IF Made[u].kind = "form" THEN Made[u].job ELSE 0]

vars == <<serverVars, phoneVars>>

AwaitedBy(p, s) == direct[p].slot = s \/ flush[p].slot = s
Awaited(s)      == \E p \in Phones : AwaitedBy(p, s)

-----------------------------------------------------------------------------
\* Every press of a button is a later moment.
Later == now' = now + 1

TapOnline(p, u, s) == TapSend(p, u, s) /\ Arrive(s, u, 0) /\ Later
TapWaiting(p, u) ==
  /\ TapQueue(p, u, now + 1) /\ Later
  /\ UNCHANGED <<jobVars, incident, proposal, req, desk, history, spent, faults>>

DirectBack(p) ==
  LET s == direct[p].slot
  IN direct[p] # NoDirect /\ DirectAnswered(p, req[s].answer, now) /\ Forget(s)

\* REQUEST_TIMEOUT_MS: the phone stops waiting, the handler does not stop.
TimedOut(s) ==
  /\ req[s].at # "answered"
  /\ Fault
  /\ UNCHANGED <<jobVars, incident, proposal, req, desk, history, now>>

DirectTimeout(p) ==
  direct[p] # NoDirect /\ DirectAnswered(p, "error", now) /\ TimedOut(direct[p].slot)

SendNext(p, s) ==
  LET item == Oldest(IF Flushing(p) THEN flush[p].left ELSE queue[p])
  IN FlushSend(p, s) /\ Arrive(s, item.u, item.ts) /\ UNCHANGED now
FlushBack(p) ==
  LET s == flush[p].slot
  IN Sending(p) /\ FlushAnswered(p, req[s].answer) /\ Forget(s)
FlushTimeout(p) == Sending(p) /\ FlushAnswered(p, "error") /\ TimedOut(flush[p].slot)

AppKilled(p) ==
  /\ Kill(p) /\ Fault
  /\ UNCHANGED <<jobVars, incident, proposal, req, desk, history, now>>

Orphan(s) == ~Awaited(s) /\ Forget(s) /\ UNCHANGED phoneVars

Phone(p) ==
  \/ \E u \in Taps[p] : TapWaiting(p, u) \/ \E s \in Slots : TapOnline(p, u, s)
  \/ DirectBack(p) \/ DirectTimeout(p)
  \/ FlushBack(p) \/ FlushTimeout(p)
  \/ \E s \in Slots : SendNext(p, s)
  \/ AppKilled(p)

Server == Serve /\ UNCHANGED phoneVars

Init == InitServer /\ InitPhones

Next ==
  \/ Server
  \/ \E p \in Phones : Phone(p)
  \/ \E s \in Slots : Orphan(s)

Spec == Init /\ [][Next]_vars

\* A handler goes on until it has answered, its answer is taken (or dropped,
\* if nobody waits for it), and a phone with something queued sends it.  Nobody
\* has to press a button, and no order of the control room has to be given or,
\* once begun, to end.
Serving(s) == Handle(s) \/ Forget(s)
Syncing(p) == \E s \in Slots : SendNext(p, s)

Fairness ==
  /\ \A s \in Slots : WF_req(Serving(s))
  /\ \A p \in Phones : WF_phoneVars(Syncing(p))

FairSpec == Spec /\ Fairness

-----------------------------------------------------------------------------
(* Properties *)

TypeOK == ServerTypeOK /\ PhonesTypeOK(Slots)

\* An update of a crew changes a job only while that crew holds it, however
\* long it waited on the phone and whatever the control room did meanwhile
\* (updateJobIf: a move that commits between the check and the write wins).
HoldersUpdate ==
  [][\A u \in landed' \ landed : holder[Made[u].job] = Made[u].crew]_vars

\* While a job stays with its crew it goes down the ladder only by being undone
\* or returned, which both start from a finished job: updates resent, late or
\* racing each other never take it back.  Two decisions of the control room at
\* once may: an assign beside another one, or beside a proposal being applied.
NeverBack ==
  [][\A j \in Jobs :
       /\ holder'[j] = holder[j] /\ ~overlap
       /\ OnLadder(jobStatus[j]) /\ OnLadder(jobStatus'[j])
       /\ Rank(jobStatus'[j]) < Rank(jobStatus[j])
       => jobStatus[j] = "Work Complete" /\ j \notin undo']_vars

\* An update sent again (its answer lost, the app killed in mid-flush, a
\* second request for it still at work) takes effect once, unless its job came
\* back in between.
LandsOnce ==
  [][\A s \in Slots : req[s].at = "write" /\ req'[s].at = "log" /\ req[s].u # NoUpdate
                      => req[s].u \notin landed]_vars

\* A finished job leaves its incident awaiting verification, or over, once no
\* request is at work on it: unless a handler was cut short before it wrote
\* the incident, or another write put the incident back into progress.
FinishedIsPending ==
  /\ Finished # {} /\ ~unsure
  /\ \A s \in Slots : req[s].at \in {"free", "answered"}
  => incident.status \in OverStatuses \cup {"pending"}

\* "One active job per incident": true unless two decisions of the control room
\* overlapped or a finished job came back while another was there.
OneActiveJob == Cardinality(ActiveJobs) > 1 => overlap \/ revived

\* A workload proposal, however old, moves only jobs nobody has started on,
\* and none of an incident that is over.
OnlyUnstartedMove ==
  [][proposal.open /\ ~proposal'.open /\ holder' # holder
     => \A j \in Jobs : holder'[j] # holder[j]
          => jobStatus[j] = "Acknowledged" /\ incident.status \notin OverStatuses]_vars

\* "Kept until delivered so a form is never lost": a form is stored by the
\* server, on the phone or on its way, unless the server refused it, the job
\* is another crew's, a later form of the job took its place, or the app was
\* killed while it was being sent for the first time.
FormNotLost ==
  \A p \in Phones : \A u \in Taps[p] \cap tapped :
    IsForm(u) => \/ u \in forms \cup undelivered[p] \cup waived \cup Queued(p)
                 \/ direct[p].u = u

Ledger == INSTANCE CrewLedger WITH
  status  <- jobStatus,
  applied <- landed,
  over    <- incident.status \in OverStatuses,
  offer   <- proposal

\* Handlers interleaved statement by statement, answers lost, updates resent
\* and orders given meanwhile: each acts on the jobs as CrewLedger says.
KeepsLedger == Ledger!Spec

\* Every update made reaches an answer: the queue of a phone that can reach the
\* server drains, whatever is refused on the way.
EveryUpdateAnswered == \A p \in Phones : []<>~Unsettled(p)
=============================================================================

-------------------------- MODULE RestorationCommand --------------------------
(***************************************************************************)
(* The restoration command to the DMS (backend/src/realtime/restoration.js)*)
(* for one incident a crew restored: every INCIDENT_UPDATED that shows it  *)
(* resolved, heard by a process that runs the publisher, starts a handler, *)
(* which looks in the process's memory, then in the 50 newest rows of      *)
(* audit_log, and sends the command if neither knows of one.               *)
(***************************************************************************)
EXTENDS ExclusiveJobs

CONSTANTS
  Restoration,  \* the publisher's job
  Handlers,     \* handlers at work at once
  MaxEvents     \* bound: times a process hears that the incident is resolved

ASSUME EventsAssumption == MaxEvents \in Nat

MAX_RETRIES == 3

VARIABLES
  events,     \* INCIDENT_UPDATED still to be heard
  published,  \* processes whose memory has the incident
  audited,    \* audit_log: "none", "shown" (one of the newest rows), "buried"
  handlers,   \* handlers at work
  commands,   \* commands the DMS has got
  lapse       \* why a command may be sent again

restVars == <<events, published, audited, handlers, commands, lapse>>

Off == [at |-> "off", p |-> Nobody, tries |-> 0]
SetHandler(h, r) == handlers' = [handlers EXCEPT ![h] = r]
AtWork == {h \in Handlers : handlers[h].at # "off"}
FirstOff(h) == handlers[h].at = "off" /\ \A g \in Handlers : handlers[g].at = "off" => h <= g

\* An event reaches the publisher in process p (another process's event by way
\* of the relay, or not at all).
Hears(p, h) ==
  /\ events > 0 /\ Restoration \in running[p] /\ FirstOff(h)
  /\ events' = events - 1
  /\ IF p \in published
     THEN UNCHANGED <<handlers, lapse>>
     ELSE /\ SetHandler(h, [at |-> "look", p |-> p, tries |-> 0])
          /\ lapse' = IF AtWork # {} THEN lapse \cup {"overlap"} ELSE lapse
  /\ UNCHANGED <<published, audited, commands>>

\* alreadyPublished: the row counts only among the newest.
Known_Mutant == FALSE
Known == audited = "shown"
Looks(h) ==
  /\ handlers[h].at = "look"
  /\ SetHandler(h, IF Known THEN Off ELSE [handlers[h] EXCEPT !.at = "post"])
  /\ lapse' = IF audited = "buried" THEN lapse \cup {"buried"} ELSE lapse
  /\ UNCHANGED <<events, published, audited, commands>>

\* postWithRetry: the DMS acts and its answer arrives.
Posts(h) ==
  /\ handlers[h].at = "post"
  /\ commands' = commands + 1
  /\ published' = published \cup {handlers[h].p}
  /\ SetHandler(h, [handlers[h] EXCEPT !.at = "audit"])
  /\ UNCHANGED <<events, audited, lapse>>

\* No good answer: the DMS may have acted all the same.  After the last try the
\* handler gives up and remembers nothing.  (The tries after the first failure
\* fail in the same trouble.)
PostFails(h) ==
  /\ handlers[h].at = "post"
  /\ IF handlers[h].tries = 0 THEN Trouble ELSE UNCHANGED troubles
  /\ \E reached \in BOOLEAN :
       /\ commands' = IF reached THEN commands + 1 ELSE commands
       /\ lapse' = IF reached THEN lapse \cup {"answer"} ELSE lapse
  /\ SetHandler(h, IF handlers[h].tries + 1 = MAX_RETRIES THEN Off
                   ELSE [handlers[h] EXCEPT !.tries = @ + 1])
  /\ UNCHANGED <<sessionVars, events, published, audited>>

Audits(h) ==
  /\ handlers[h].at = "audit"
  /\ audited' = "shown"
  /\ SetHandler(h, Off)
  /\ UNCHANGED <<events, published, commands, lapse>>

\* The SELECT fails: the handler's promise is rejected, the process lives on.
LookFails(h) ==
  /\ handlers[h].at = "look"
  /\ Trouble
  /\ SetHandler(h, Off)
  /\ UNCHANGED <<sessionVars, events, published, audited, commands, lapse>>

\* The INSERT fails, or is done and its answer lost: the catch reports a failed
\* command, only the memory of this process knows that it was sent.
AuditFails(h) ==
  /\ handlers[h].at = "audit"
  /\ Trouble
  /\ \/ audited' = "shown" /\ UNCHANGED lapse
     \/ lapse' = lapse \cup {"unrecorded"} /\ UNCHANGED audited
  /\ SetHandler(h, Off)
  /\ UNCHANGED <<sessionVars, events, published, commands>>

\* Fifty more rows have been written since.
Buries ==
  /\ audited = "shown"
  /\ audited' = "buried"
  /\ UNCHANGED <<events, published, handlers, commands, lapse>>

\* The process ends: its memory and its handlers are gone.
Forgets(p) ==
  /\ handlers' = [h \in Handlers |-> IF handlers[h].p = p THEN Off ELSE handlers[h]]
  /\ published' = published \ {p}
  /\ lapse' = IF \E h \in Handlers : handlers[h].p = p /\ handlers[h].at = "audit"
              THEN lapse \cup {"cut"} ELSE lapse
  /\ UNCHANGED <<events, audited, commands>>

InitRestoration(on) ==
  /\ events = IF on THEN MaxEvents ELSE 0
  /\ published = {}
  /\ audited = "none"
  /\ handlers = [h \in Handlers |-> Off]
  /\ commands = 0
  /\ lapse = {}

Serves(h) == Looks(h) \/ Posts(h) \/ Audits(h)

-----------------------------------------------------------------------------
(* Properties *)

RestorationTypeOK ==
  /\ events \in 0 .. MaxEvents
  /\ published \subseteq Processes
  /\ audited \in {"none", "shown", "buried"}
  /\ handlers \in [Handlers -> [at : {"off", "look", "post", "audit"},
                                p : Processes \cup {Nobody}, tries : 0 .. MAX_RETRIES - 1]]
  /\ commands \in Nat
  /\ lapse \subseteq {"overlap", "answer", "buried", "unrecorded", "cut"}

\* "A duplicate resolved event never sends the same restoration command twice",
\* over hand-overs of the job and restarts: unless two handlers were at work at
\* once, the DMS's answer was lost, the process ended before the audit row or
\* could not write it, or the row was no longer among the newest when it was
\* looked for.
CommandedOnce == commands > 1 => lapse # {}
=============================================================================

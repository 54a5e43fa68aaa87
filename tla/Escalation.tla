------------------------------ MODULE Escalation ------------------------------
(***************************************************************************)
(* SLA escalation of one incident (backend/src/realtime/escalation.js):    *)
(* the scan takes the highest level the breach has reached, claims that    *)
(* level's notifications row through its unique index, sends the SMS if    *)
(* that level has a number, and records what came of it.                   *)
(***************************************************************************)
EXTENDS ExclusiveJobs

CONSTANTS
  Escalations,  \* the scan's job
  Levels        \* number of levels (AE, SE, CE)

ASSUME LevelsAssumption == Levels \in Nat \ {0}

VARIABLES
  over,  \* the level the breach has reached, 0 while the SLA holds
  row,   \* [level -> status of its notifications row]
  scan,  \* [process -> its scan of the incident]
  sms,   \* [level -> SMS handed to the gateway (sendSmsVia)]
  cut    \* levels claimed by a scan that ended before it recorded the outcome

escVars == <<over, row, scan, sms, cut>>

\* "sent" also stands for "logged", the console driver's.
Outcomes == {"sent", "failed", "skipped-no-contact"}

NoScan == [at |-> "off", level |-> 0, status |-> "sending"]
SetScan(p, r) == scan' = [scan EXCEPT ![p] = r]

\* An hour more of breach.
Ages_Mutant ==
  /\ over <= Levels
  /\ over' = over + 1
  /\ UNCHANGED <<row, scan, sms, cut>>
Ages ==
  /\ over < Levels
  /\ over' = over + 1
  /\ UNCHANGED <<row, scan, sms, cut>>

\* Every minute; levelFor: one level only, the highest.
LevelFor == over
Looked(p) ==
  /\ Escalations \in running[p] /\ scan[p].at = "off" /\ over > 0
  /\ SetScan(p, [at |-> "claim", level |-> LevelFor, status |-> "sending"])
  /\ UNCHANGED <<over, row, sms, cut>>

\* INSERT ... ON CONFLICT DO NOTHING RETURNING id
Claimable_Mutant(l) == row[l] \in {"none", "sending"}
Claimable(l) == row[l] = "none"
Claims(p) ==
  LET l == scan[p].level
  IN /\ scan[p].at = "claim"
     /\ IF Claimable(l)
        THEN row' = [row EXCEPT ![l] = "sending"] /\ SetScan(p, [scan[p] EXCEPT !.at = "send"])
        ELSE SetScan(p, NoScan) /\ UNCHANGED row
     /\ UNCHANGED <<over, sms, cut>>

\* The statement fails, or is done and its answer lost: the scan ends.
ClaimFails(p) ==
  LET l == scan[p].level
  IN /\ scan[p].at = "claim"
     /\ Trouble
     /\ \/ UNCHANGED <<row, cut>>
        \/ /\ Claimable(l)
           /\ row' = [row EXCEPT ![l] = "sending"]
           /\ cut' = cut \cup {l}
     /\ SetScan(p, NoScan)
     /\ UNCHANGED <<sessionVars, over, sms>>

\* A level without a number gets none.  sendSmsVia never throws: an SMS the
\* gateway refuses has an outcome like any other.
Sends(p) ==
  /\ scan[p].at = "send"
  /\ \E status \in Outcomes :
       /\ SetScan(p, [scan[p] EXCEPT !.at = "record", !.status = status])
       /\ sms' = IF status = "skipped-no-contact" THEN sms
                 ELSE [sms EXCEPT ![scan[p].level] = @ + 1]
  /\ UNCHANGED <<over, row, cut>>

RecordsRow(p) == row' = [row EXCEPT ![scan[p].level] = scan[p].status]
Records(p) ==
  /\ scan[p].at = "record"
  /\ RecordsRow(p)
  /\ SetScan(p, NoScan)
  /\ UNCHANGED <<over, sms, cut>>

\* The UPDATE fails, or is done and its answer lost: the scan ends, and no other
\* ever takes this row up.
RecordFails(p) ==
  /\ scan[p].at = "record"
  /\ Trouble
  /\ \/ RecordsRow(p) /\ UNCHANGED cut
     \/ cut' = cut \cup {scan[p].level} /\ UNCHANGED row
  /\ SetScan(p, NoScan)
  /\ UNCHANGED <<sessionVars, over, sms>>

\* p has claimed the row of level l and not recorded the outcome yet.
Holds(p, l) == scan[p].at \in {"send", "record"} /\ scan[p].level = l

\* The process ends.
Leaves(p) ==
  /\ cut' = cut \cup {l \in 1 .. Levels : Holds(p, l)}
  /\ SetScan(p, NoScan)
  /\ UNCHANGED <<over, row, sms>>

InitEscalation ==
  /\ over = 0
  /\ row = [l \in 1 .. Levels |-> "none"]
  /\ scan = [p \in Processes |-> NoScan]
  /\ sms = [l \in 1 .. Levels |-> 0]
  /\ cut = {}

Escalates(p) == Looked(p) \/ Claims(p) \/ Sends(p) \/ Records(p)

-----------------------------------------------------------------------------
(* Properties *)

EscalationTypeOK ==
  /\ over \in 0 .. Levels
  /\ row \in [1 .. Levels -> {"none", "sending"} \cup Outcomes]
  /\ scan \in [Processes -> [at : {"off", "claim", "send", "record"}, level : 0 .. Levels,
                             status : {"sending"} \cup Outcomes]]
  /\ sms \in [1 .. Levels -> Nat]
  /\ cut \subseteq 1 .. Levels

\* "Each level's SMS goes out once per incident ... a restart or a second
\* backend never resends": the gateway is tried at most once; a row that says
\* sent or failed stands for the one try, a level not claimed or without a
\* number had none; and a row that nobody works on says "sending" only if the
\* scan that claimed it ended, or lost a statement, on the way.
EscalatedOnce ==
  \A l \in 1 .. Levels :
    /\ sms[l] <= 1
    /\ row[l] \in {"sent", "failed"} => sms[l] = 1
    /\ row[l] \in {"none", "skipped-no-contact"} => sms[l] = 0
    /\ row[l] = "sending" /\ (\A p \in Processes : ~Holds(p, l)) => l \in cut
=============================================================================

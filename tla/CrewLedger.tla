------------------------------ MODULE CrewLedger ------------------------------
(***************************************************************************)
(* What the job endpoints promise crews and control room, with no mention  *)
(* of requests, retries, reads that are stale and phones that send things  *)
(* twice (routes/api.js, domain/jobWorkflow.js): every update a crew makes *)
(* acts on the job as it is at that moment, on a job that is still its     *)
(* own, up the ladder, and not a second time; a proposal moves a job as it *)
(* was when the proposal was made.                                         *)
(***************************************************************************)
CONSTANTS
  Jobs, Crews, NoCrew,
  Made,                \* update number n of a crew
  FirstJob, FirstCrew  \* the job that is there, and its crew

VARIABLES
  status, holder,  \* of each job; a job that is not there is "none"
  applied,         \* updates that took effect since their job last came back
  over,            \* the incident is over
  offer            \* the open workload proposal

vars == <<status, holder, applied, over, offer>>

NoOffer == [open |-> FALSE, job |-> 0, from |-> NoCrew, to |-> NoCrew]

\* The statuses that an update to `to` goes up from.
Below(to) ==
  CASE to = "Acknowledged"  -> {"Requires Revisit"}
    [] to = "En Route"      -> {"Requires Revisit", "Acknowledged"}
    [] to = "On Site"       -> {"Requires Revisit", "Acknowledged", "En Route"}
    [] to = "Work Started"  -> {"Requires Revisit", "Acknowledged", "En Route", "On Site"}
    [] to = "Work Complete" -> {"Requires Revisit", "Acknowledged", "En Route", "On Site",
                                "Work Started"}
    [] OTHER                -> {}

Init ==
  /\ status = [j \in Jobs |-> IF j = FirstJob THEN "Acknowledged" ELSE "none"]
  /\ holder = [j \in Jobs |-> IF j = FirstJob THEN FirstCrew ELSE NoCrew]
  /\ applied = {}
  /\ over = FALSE
  /\ offer = NoOffer

Sets(j, to) == status' = [status EXCEPT ![j] = to]
StartsAgain(j) == applied' = {u \in applied : Made[u].job # j}

\* By the crew, once; or by the control room for it.
Update(u) ==
  /\ holder[Made[u].job] = Made[u].crew
  /\ status[Made[u].job] \in Below(Made[u].to)
  /\ u \notin applied
  /\ Sets(Made[u].job, Made[u].to)
  /\ applied' = applied \cup {u}
  /\ UNCHANGED <<holder, over, offer>>

OnBehalf(j, to) ==
  /\ holder[j] # NoCrew
  /\ status[j] \in Below(to)
  /\ Sets(j, to)
  /\ UNCHANGED <<holder, applied, over, offer>>

\* Undone by its crew, or returned for correction.
ComesBack(j, to) ==
  /\ status[j] = "Work Complete" /\ holder[j] # NoCrew
  /\ Sets(j, to)
  /\ StartsAgain(j)
  /\ UNCHANGED <<holder, over, offer>>

\* A new job, or a job moved as it is or from the start.
Assign(j, c) ==
  /\ holder' = [holder EXCEPT ![j] = c]
  /\ \/ Sets(j, "Acknowledged") /\ StartsAgain(j)
     \/ status[j] # "none" /\ UNCHANGED <<status, applied>>
  /\ UNCHANGED <<over, offer>>

Cancel(j) ==
  /\ status[j] # "none"
  /\ Sets(j, "Cancelled")
  /\ UNCHANGED <<holder, applied, over, offer>>

Propose(j, c) ==
  /\ status[j] = "Acknowledged" /\ c # holder[j]
  /\ offer' = [open |-> TRUE, job |-> j, from |-> holder[j], to |-> c]
  /\ UNCHANGED <<status, holder, applied, over>>

Rebalance ==
  /\ offer.open /\ ~over
  /\ status[offer.job] = "Acknowledged" /\ holder[offer.job] = offer.from
  /\ holder' = [holder EXCEPT ![offer.job] = offer.to]
  /\ offer' = NoOffer
  /\ UNCHANGED <<status, applied, over>>

Withdraw == offer' = NoOffer /\ UNCHANGED <<status, holder, applied, over>>

IncidentMoves == over' \in BOOLEAN /\ UNCHANGED <<status, holder, applied, offer>>

Next ==
  \/ \E u \in DOMAIN Made : Made[u].kind = "status" /\ Update(u)
  \/ \E j \in Jobs :
       \/ \E to \in {"Acknowledged", "En Route", "On Site", "Work Started", "Work Complete"} :
            OnBehalf(j, to)
       \/ \E to \in {"Work Started", "Requires Revisit"} : ComesBack(j, to)
       \/ \E c \in Crews : Assign(j, c)
       \/ Cancel(j)
       \/ \E c \in Crews \cup {NoCrew} : Propose(j, c)
  \/ Rebalance \/ Withdraw
  \/ IncidentMoves

Spec == Init /\ [][Next]_vars
=============================================================================

----------------------------- MODULE FieldWorkProofs -----------------------------
(***************************************************************************)
(* Proofs about FieldWork for any crews, jobs, phones, updates and bounds. *)
(*                                                                         *)
(* What a request carries from its first read to its conditional write     *)
(* (GoodRequest) is what the properties of jobs rest on; the rest says     *)
(* where an update, a form or an order of the control room may be.         *)
(***************************************************************************)
EXTENDS FieldWork, FiniteSetTheorems, TLAPS

-----------------------------------------------------------------------------
(* The ladder *)

LEMMA RankValues ==
  \A s : /\ s = "En Route" => Rank(s) = 1
         /\ s = "On Site" => Rank(s) = 2
         /\ s = "Work Started" => Rank(s) = 3
         /\ s = "Work Complete" => Rank(s) = 4
         /\ s \in {"none", "Acknowledged", "Requires Revisit", "Cancelled"} => Rank(s) = 0
BY DEF Rank

LEMMA Apart ==
  /\ 0 # 1 /\ 0 # 2 /\ 0 # 3 /\ 0 # 4 /\ 1 # 2 /\ 1 # 3 /\ 1 # 4
  /\ 2 # 3 /\ 2 # 4 /\ 3 # 4
OBVIOUS

LEMMA Step == {0, 1, 2, 3, 4} \subseteq 0 .. 4
OBVIOUS

LEMMA RankFacts ==
  ASSUME NEW s \in JobStatuses
  PROVE  /\ Rank(s) \in 0 .. 4
         /\ Rank(s) = 4 => s = "Work Complete"
         /\ s = "Work Complete" => Rank(s) = 4
<1>1. Rank(s) \in {0, 1, 2, 3, 4}
  BY RankValues DEF JobStatuses, CrewStatuses
<1>2. Rank(s) = 4 => s = "Work Complete"
  BY RankValues, Apart, Zenon DEF JobStatuses, CrewStatuses
<1>3. s = "Work Complete" => Rank(s) = 4
  BY RankValues
<1> QED
  BY <1>1, <1>2, <1>3, Step

\* A crew's statuses are told apart by their rank.
LEMMA RankIsStatus ==
  ASSUME NEW s \in CrewStatuses, NEW t \in CrewStatuses, Rank(s) = Rank(t)
  PROVE  s = t
<1>1. ASSUME NEW r \in CrewStatuses
      PROVE  /\ Rank(r) \in {0, 1, 2, 3, 4}
             /\ Rank(r) = 0 => r = "Acknowledged"
             /\ Rank(r) = 1 => r = "En Route"
             /\ Rank(r) = 2 => r = "On Site"
             /\ Rank(r) = 3 => r = "Work Started"
             /\ Rank(r) = 4 => r = "Work Complete"
  BY RankValues, Apart, ZenonT(60) DEF CrewStatuses
<1>2. \A r \in CrewStatuses : Rank(r) = 0 => r = "Acknowledged"
  BY <1>1, Zenon
<1>3. \A r \in CrewStatuses : Rank(r) = 1 => r = "En Route"
  BY <1>1, Zenon
<1>4. \A r \in CrewStatuses : Rank(r) = 2 => r = "On Site"
  BY <1>1, Zenon
<1>5. \A r \in CrewStatuses : Rank(r) = 3 => r = "Work Started"
  BY <1>1, Zenon
<1>6. \A r \in CrewStatuses : Rank(r) = 4 => r = "Work Complete"
  BY <1>1, Zenon
<1>7. Rank(s) \in {0, 1, 2, 3, 4}
  BY <1>1, Zenon
<1> QED
  <2>1. CASE Rank(s) = 0
    BY <1>2, <2>1, Zenon
  <2>2. CASE Rank(s) = 1
    BY <1>3, <2>2, Zenon
  <2>3. CASE Rank(s) = 2
    BY <1>4, <2>3, Zenon
  <2>4. CASE Rank(s) = 3
    BY <1>5, <2>4, Zenon
  <2>5. CASE Rank(s) = 4
    BY <1>6, <2>5, Zenon
  <2> QED
    BY <1>7, <2>1, <2>2, <2>3, <2>4, <2>5, Zenon

\* An update that applies goes up the ladder or stays on its lowest step.
LEMMA DecisionApplies ==
  ASSUME NEW from \in JobStatuses, NEW to \in CrewStatuses, NEW ts, NEW latest,
         Decision(from, to, ts, latest) = "apply"
  PROVE  from # to /\ OnLadder(from) /\ Rank(from) <= Rank(to)
<1>1. from # to /\ ~Late(from, to, ts, latest)
  BY DEF Decision
<1>2. Rank(from) \in 0 .. 4 /\ Rank(to) \in 0 .. 4
  <2>1. to \in JobStatuses
    BY DEF JobStatuses
  <2> QED
    BY <2>1, RankFacts
<1> QED
  BY <1>1, <1>2 DEF Late

LEMMA DecisionAnswers ==
  ASSUME NEW from, NEW to, NEW ts, NEW latest
  PROVE  Decision(from, to, ts, latest) \in {"already", "late", "apply"}
BY DEF Decision

-----------------------------------------------------------------------------
(* Requests *)

AtWork == {"sent", "write", "insert", "undo", "log"}

\* What a request carries.
GoodRequest(r) ==
  /\ r \in Requests
  /\ r.at \in AtWork => r.job \in Jobs /\ r.to \in CrewStatuses
  /\ r.at \in AtWork /\ r.u # NoUpdate =>
       /\ r.job = Made[r.u].job /\ r.crew = Made[r.u].crew
       /\ r.to = Made[r.u].to /\ r.kind = Made[r.u].kind
  /\ r.at \in AtWork /\ r.kind = "form" => r.u # NoUpdate
  /\ r.at \in AtWork /\ r.kind = "reopen" => r.u = NoUpdate /\ r.to = "Work Started"
  /\ r.at = "write" =>
       /\ r.kind = "status" /\ r.from # r.to
       /\ OnLadder(r.from) /\ Rank(r.from) <= Rank(r.to)
       /\ r.crew # NoCrew => r.saw = r.crew
  /\ r.at \in {"write", "undo"} => r.saw # NoCrew
  /\ r.at = "insert" => r.kind = "form"
  /\ r.at = "undo" => r.kind = "reopen" /\ r.from = "Work Complete"
  /\ r.at = "log" => r.kind # "form"
  /\ r.at = "progress" =>
       /\ r.to \in CrewStatuses
       /\ r.u # NoUpdate => Made[r.u].kind # "form"
  /\ r.at = "answered" =>
       /\ r.u # NoUpdate
       /\ Made[r.u].kind = "form" => r.answer \in {"applied", "late", "notyours", "error"}

LEMMA UpdateFacts ==
  /\ NoUpdate \notin Updates /\ NoCrew \notin Crews /\ 0 \notin Jobs
  /\ \A u \in Updates : /\ Made[u].kind \in {"status", "form"} /\ Made[u].job \in Jobs
                        /\ Made[u].crew \in Crews /\ Made[u].to \in CrewStatuses
BY UpdatesAssumption, CrewsAssumption, JobsAssumption DEF Updates, NoUpdate

LEMMA FreeIsGood ==
  GoodRequest(Free) /\ Free.at = "free"
BY UpdateFacts DEF GoodRequest, Free, Requests, JobStatuses, AtWork, NoUpdate

\* One request changes.
Becomes(s, r) ==
  /\ req' \in [Slots -> Requests]
  /\ req'[s] = r
  /\ \A t \in Slots \ {s} : req'[t] = req[t]

LEMMA SetReqBecomes ==
  ASSUME req \in [Slots -> Requests], NEW s \in Slots, NEW r, GoodRequest(r), SetReq(s, r)
  PROVE  Becomes(s, r)
BY DEF SetReq, Becomes, GoodRequest

\* The answer to a request.
Answered(r, q, a) ==
  IF r.u = NoUpdate THEN q = Free
  ELSE q.at = "answered" /\ q.u = r.u /\ q.answer = a

LEMMA AnswerBecomes ==
  ASSUME req \in [Slots -> Requests], NEW s \in Slots,
         NEW a \in {"applied", "already", "late", "refused", "notyours", "error"},
         req[s].u # NoUpdate /\ Made[req[s].u].kind = "form" =>
           a \in {"applied", "late", "notyours", "error"},
         Answer(s, a)
  PROVE  \E q : GoodRequest(q) /\ Becomes(s, q) /\ Answered(req[s], q, a)
<1>1. CASE req[s].u = NoUpdate
  BY <1>1, FreeIsGood, SetReqBecomes DEF Answer, Answered
<1>2. CASE req[s].u # NoUpdate
  <2> DEFINE q == [Free EXCEPT !.at = "answered", !.u = req[s].u, !.answer = a]
  <2>1. req[s].u \in Updates
    BY <1>2 DEF Requests
  <2>2. /\ q \in Requests /\ q.at = "answered" /\ q.u = req[s].u /\ q.answer = a
    BY <2>1, FreeIsGood DEF Free, GoodRequest, Requests
  <2>3. SetReq(s, q)
    BY <1>2 DEF Answer
  <2> HIDE DEF q
  <2>4. GoodRequest(q)
    BY <1>2, <2>2 DEF GoodRequest, AtWork
  <2> QED
    BY <1>2, <2>2, <2>3, <2>4, SetReqBecomes DEF Answered
<1> QED
  BY <1>1, <1>2

\* A request goes on to its write with what it has read.
LEMMA DecideBecomes ==
  ASSUME ServerTypeOK, NEW s \in Slots, GoodRequest(req[s]),
         req[s].at \in {"sent", "write"}, req[s].kind = "status",
         req[s].crew # NoCrew => holder[req[s].job] = req[s].crew,
         holder[req[s].job] # NoCrew,
         NEW n \in 0 .. 2, Decide(s, n)
  PROVE  \E q : /\ GoodRequest(q) /\ Becomes(s, q)
                /\ \/ \E a \in {"already", "late"} : Answered(req[s], q, a)
                   \/ q.at = "write" /\ q.u = req[s].u /\ req[s].to = q.to
<1> DEFINE r == req[s]
           ts == IF r.ts = 0 THEN now ELSE r.ts
           d  == Decision(jobStatus[r.job], r.to, ts, crewTs[r.job])
<1>1. /\ req \in [Slots -> Requests] /\ r \in Requests
      /\ r.job \in Jobs /\ r.to \in CrewStatuses
      /\ jobStatus[r.job] \in JobStatuses /\ holder[r.job] \in Crews \cup {NoCrew}
      /\ ts \in Nat
  BY DEF ServerTypeOK, GoodRequest, AtWork, Requests
<1>2. CASE d = "apply"
  <2> DEFINE q == [r EXCEPT !.at = "write", !.ts = ts, !.tries = n,
                            !.saw = holder[r.job], !.from = jobStatus[r.job]]
  <2>1. SetReq(s, q)
    BY <1>2 DEF Decide
  <2>2. /\ q \in Requests /\ q.at = "write" /\ q.u = r.u /\ q.kind = r.kind /\ q.job = r.job
        /\ q.crew = r.crew /\ q.to = r.to /\ q.saw = holder[r.job] /\ q.from = jobStatus[r.job]
    <3> HIDE DEF ts
    <3> QED
      BY <1>1 DEF Requests
  <2>3. q.from # q.to /\ OnLadder(q.from) /\ Rank(q.from) <= Rank(q.to)
    <3> HIDE DEF q, ts
    <3> QED
      BY <1>1, <1>2, <2>2, DecisionApplies
  <2>4. GoodRequest(q)
    <3> HIDE DEF q
    <3> QED
      BY <1>1, <2>2, <2>3 DEF GoodRequest, AtWork
  <2> HIDE DEF q
  <2> QED
    BY <1>1, <2>1, <2>2, <2>4, SetReqBecomes
<1>3. CASE d # "apply"
  <2>1. d \in {"already", "late"}
    BY <1>3, DecisionAnswers
  <2>2. Answer(s, d)
    BY <1>3 DEF Decide
  <2>3. ~(r.u # NoUpdate /\ Made[r.u].kind = "form")
    BY DEF GoodRequest, AtWork
  <2> HIDE DEF d
  <2> QED
    BY <1>1, <2>1, <2>2, <2>3, AnswerBecomes
<1> QED
  BY <1>2, <1>3

-----------------------------------------------------------------------------
(* What each step makes of its request *)

GoodRequests == \A s \in Slots : GoodRequest(req[s])

\* Request s becomes q, for the same update, and says a form is applied only
\* if it is stored.
Serves(s, q) ==
  /\ GoodRequest(q) /\ Becomes(s, q)
  /\ req[s].u # NoUpdate => q.u = req[s].u /\ q.at # "free"
  /\ q.at = "answered" /\ Made[q.u].kind = "form" /\ q.answer = "applied" => q.u \in forms'

LEMMA AnswerServes ==
  ASSUME req \in [Slots -> Requests], NEW s \in Slots,
         NEW a \in {"applied", "already", "late", "refused", "notyours", "error"},
         req[s].u # NoUpdate /\ Made[req[s].u].kind = "form" =>
           a \in {"late", "notyours", "error"},
         Answer(s, a)
  PROVE  \E q : Serves(s, q) /\ q.at \in {"free", "answered"}
<1>1. PICK q : GoodRequest(q) /\ Becomes(s, q) /\ Answered(req[s], q, a)
  BY AnswerBecomes
<1>2. CASE req[s].u = NoUpdate
  BY <1>1, <1>2, FreeIsGood DEF Answered, Serves
<1>3. CASE req[s].u # NoUpdate
  BY <1>1, <1>3 DEF Answered, Serves
<1> QED
  BY <1>2, <1>3

LEMMA ReceiveStep ==
  ASSUME ServerTypeOK, GoodRequests, NEW s \in Slots, Receive(s)
  PROVE  \E q : Serves(s, q) /\ q.at \in {"free", "answered", "write", "insert", "undo"}
<1> DEFINE r == req[s]
           j == r.job
<1>1. /\ req \in [Slots -> Requests] /\ GoodRequest(r) /\ r \in Requests /\ r.at = "sent"
      /\ j \in Jobs /\ holder[j] \in Crews \cup {NoCrew} /\ jobStatus[j] \in JobStatuses
      /\ now \in Nat
  BY DEF ServerTypeOK, GoodRequests, GoodRequest, AtWork, Receive
<1>2. CASE \E a \in {"notyours", "late"} : Answer(s, a)
  BY <1>1, <1>2, AnswerServes
<1>3. CASE r.kind = "status" /\ Answer(s, "refused")
  <2>1. ~(r.u # NoUpdate /\ Made[r.u].kind = "form")
    BY <1>1, <1>3 DEF GoodRequest, AtWork
  <2> QED
    BY <1>1, <1>3, <2>1, AnswerServes
<1>4. CASE ~NotYours(r) /\ r.kind = "status" /\ Decide(s, 0)
  <2>1. holder[j] # NoCrew /\ (r.crew # NoCrew => holder[j] = r.crew)
    BY <1>4 DEF NotYours, ByCrew
  <2>2. PICK q : /\ GoodRequest(q) /\ Becomes(s, q)
                 /\ \/ \E a \in {"already", "late"} : Answered(r, q, a)
                    \/ q.at = "write" /\ q.u = r.u /\ r.to = q.to
    BY <1>1, <1>4, <2>1, DecideBecomes
  <2>3. q.at \in {"free", "answered", "write"}
    BY <2>2, FreeIsGood DEF Answered
  <2>4. r.u # NoUpdate => q.u = r.u /\ q.at # "free"
    BY <2>2 DEF Answered
  <2>5. q.at = "answered" => q.answer # "applied"
    BY <2>2, FreeIsGood DEF Answered
  <2> QED
    BY <2>2, <2>3, <2>4, <2>5 DEF Serves
<1>5. CASE r.kind = "form" /\ SetReq(s, [r EXCEPT !.at = "insert"])
  <2> DEFINE q == [r EXCEPT !.at = "insert"]
  <2>1. /\ q \in Requests /\ q.at = "insert" /\ q.u = r.u /\ q.kind = r.kind
        /\ q.job = r.job /\ q.crew = r.crew /\ q.to = r.to
    BY <1>1 DEF Requests
  <2>2. SetReq(s, q)
    BY <1>5
  <2> HIDE DEF q
  <2>3. GoodRequest(q)
    BY <1>1, <1>5, <2>1 DEF GoodRequest, AtWork
  <2> QED
    BY <1>1, <2>1, <2>2, <2>3, SetReqBecomes DEF Serves
<1>6. CASE /\ ~NotYours(r) /\ r.kind = "reopen" /\ UndoOpen(j)
           /\ SetReq(s, [r EXCEPT !.at = "undo", !.ts = now, !.saw = holder[j],
                                  !.from = jobStatus[j]])
  <2> DEFINE q == [r EXCEPT !.at = "undo", !.ts = now, !.saw = holder[j], !.from = jobStatus[j]]
  <2>1. /\ q \in Requests /\ q.at = "undo" /\ q.u = r.u /\ q.kind = r.kind
        /\ q.job = r.job /\ q.crew = r.crew /\ q.to = r.to /\ q.from = jobStatus[j]
        /\ q.saw = holder[j]
    BY <1>1 DEF Requests
  <2>2. SetReq(s, q) /\ jobStatus[j] = "Work Complete" /\ holder[j] # NoCrew
    BY <1>6 DEF UndoOpen, NotYours
  <2> HIDE DEF q
  <2>3. GoodRequest(q)
    BY <1>1, <1>6, <2>1, <2>2 DEF GoodRequest, AtWork
  <2> QED
    BY <1>1, <2>1, <2>2, <2>3, SetReqBecomes DEF Serves
<1> QED
  BY <1>2, <1>3, <1>4, <1>5, <1>6 DEF Receive

LEMMA LandStep ==
  ASSUME ServerTypeOK, GoodRequests, NEW s \in Slots, NEW r,
         r = req[s], r.at \in {"write", "undo"},
         SetReq(s, [r EXCEPT !.at = "log", !.saw = NoCrew, !.from = "none", !.tries = 0])
  PROVE  \E q : Serves(s, q) /\ q.at = "log" /\ q.to = r.to
<1> DEFINE q == [r EXCEPT !.at = "log", !.saw = NoCrew, !.from = "none", !.tries = 0]
<1>1. req \in [Slots -> Requests] /\ GoodRequest(r) /\ r \in Requests
  BY DEF ServerTypeOK, GoodRequests, GoodRequest
<1>2. /\ q \in Requests /\ q.at = "log" /\ q.u = r.u /\ q.kind = r.kind
      /\ q.job = r.job /\ q.crew = r.crew /\ q.to = r.to
  <2>1. "none" \in JobStatuses /\ 0 \in 0 .. 2
    BY DEF JobStatuses
  <2> QED
    BY <1>1, <2>1 DEF Requests
<1>3. SetReq(s, q)
  OBVIOUS
<1> HIDE DEF q
<1>4. GoodRequest(q)
  BY <1>1, <1>2 DEF GoodRequest, AtWork
<1> QED
  BY <1>1, <1>2, <1>3, <1>4, SetReqBecomes DEF Serves

LEMMA MissStep ==
  ASSUME ServerTypeOK, GoodRequests, NEW s \in Slots, Miss(s)
  PROVE  \E q : Serves(s, q) /\ q.at \in {"free", "answered", "write"}
<1> DEFINE r == req[s]
<1>1. /\ req \in [Slots -> Requests] /\ GoodRequest(r) /\ r \in Requests /\ r.at = "write"
      /\ r.kind = "status" /\ r.tries \in 0 .. 2
  BY DEF ServerTypeOK, GoodRequests, GoodRequest, Requests, Miss
<1>2. CASE \E a \in {"notyours", "error"} : Answer(s, a)
  BY <1>1, <1>2, AnswerServes
<1>3. CASE holder[r.job] = r.saw /\ r.tries # 2 /\ Decide(s, r.tries + 1)
  <2>1. holder[r.job] # NoCrew /\ (r.crew # NoCrew => holder[r.job] = r.crew)
    BY <1>1, <1>3 DEF GoodRequest
  <2>2. r.tries + 1 \in 0 .. 2
    BY <1>1, <1>3
  <2>3. PICK q : /\ GoodRequest(q) /\ Becomes(s, q)
                 /\ \/ \E a \in {"already", "late"} : Answered(r, q, a)
                    \/ q.at = "write" /\ q.u = r.u /\ r.to = q.to
    BY <1>1, <1>3, <2>1, <2>2, DecideBecomes
  <2>4. q.at \in {"free", "answered", "write"}
    BY <2>3, FreeIsGood DEF Answered
  <2>5. r.u # NoUpdate => q.u = r.u /\ q.at # "free"
    BY <2>3 DEF Answered
  <2>6. q.at = "answered" => q.answer # "applied"
    BY <2>3, FreeIsGood DEF Answered
  <2> QED
    BY <2>3, <2>4, <2>5, <2>6 DEF Serves
<1> QED
  BY <1>2, <1>3 DEF Miss

LEMMA LogStep ==
  ASSUME ServerTypeOK, GoodRequests, NEW s \in Slots, Log(s)
  PROVE  \E q : /\ Serves(s, q) /\ q.at \in {"free", "answered", "progress"}
                /\ req[s].to = "Work Complete" => q.at = "progress" /\ q.to = "Work Complete"
<1> DEFINE r == req[s]
<1>0. req \in [Slots -> Requests] /\ GoodRequest(r) /\ r.at = "log"
  BY DEF ServerTypeOK, GoodRequests, Log
<1>1. /\ req \in [Slots -> Requests] /\ GoodRequest(r) /\ r \in Requests /\ r.at = "log"
      /\ r.to \in CrewStatuses
      /\ ~(r.u # NoUpdate /\ Made[r.u].kind = "form")
  BY <1>0 DEF GoodRequest, AtWork
<1>2. CASE r.to # "Work Complete" /\ Answer(s, "applied")
  BY <1>1, <1>2, AnswerServes
<1>3. CASE SetReq(s, [Free EXCEPT !.at = "progress", !.u = r.u, !.to = r.to])
  <2> DEFINE q == [Free EXCEPT !.at = "progress", !.u = r.u, !.to = r.to]
  <2>1. r.u \in Updates \cup {NoUpdate} /\ r.to \in JobStatuses
    BY <1>1 DEF Requests
  <2>2. q \in Requests /\ q.at = "progress" /\ q.u = r.u /\ q.to = r.to
    BY <2>1, FreeIsGood DEF Free, GoodRequest, Requests
  <2>3. SetReq(s, q)
    BY <1>3
  <2> HIDE DEF q
  <2>4. GoodRequest(q)
    BY <1>1, <2>2 DEF GoodRequest, AtWork
  <2> QED
    BY <1>1, <2>2, <2>3, <2>4, SetReqBecomes DEF Serves
<1> QED
  BY <1>2, <1>3 DEF Log

LEMMA ProgressStep ==
  ASSUME ServerTypeOK, GoodRequests, NEW s \in Slots, Progress(s)
  PROVE  \E q : Serves(s, q) /\ q.at \in {"free", "answered"}
<1>1. /\ req \in [Slots -> Requests]
      /\ ~(req[s].u # NoUpdate /\ Made[req[s].u].kind = "form")
      /\ Answer(s, "applied")
  BY DEF ServerTypeOK, GoodRequests, GoodRequest, Progress
<1> QED
  BY <1>1, AnswerServes

LEMMA InsertStep ==
  ASSUME ServerTypeOK, GoodRequests, NEW s \in Slots, InsertForm(s)
  PROVE  /\ req[s].u \in Updates
         /\ \E q : Serves(s, q) /\ q.at \in {"free", "answered"}
<1>1. /\ req \in [Slots -> Requests] /\ req[s] \in Requests
      /\ req[s].u # NoUpdate
      /\ Answer(s, "applied") /\ req[s].u \in forms'
  BY DEF ServerTypeOK, GoodRequests, GoodRequest, AtWork, InsertForm
<1>2. PICK q : GoodRequest(q) /\ Becomes(s, q) /\ Answered(req[s], q, "applied")
  BY <1>1, AnswerBecomes
<1>3. req[s].u \in Updates
  BY <1>1 DEF Requests
<1> QED
  BY <1>1, <1>2, <1>3 DEF Answered, Serves

LEMMA CutStep ==
  ASSUME ServerTypeOK, GoodRequests, NEW s \in Slots, Cut(s)
  PROVE  \E q : Serves(s, q) /\ q.at \in {"free", "answered"}
BY AnswerServes DEF ServerTypeOK, Cut

\* A request that starts.
Starts(s, q) ==
  /\ GoodRequest(q) /\ Becomes(s, q)
  /\ req[s].at = "free" /\ q.at = "sent"

LEMMA ArriveStep ==
  ASSUME ServerTypeOK, NEW s \in Slots, NEW u \in Updates, NEW ts \in Nat, Arrive(s, u, ts)
  PROVE  \E q : Starts(s, q) /\ q.u = u
<1> DEFINE q == [Free EXCEPT !.at = "sent", !.u = u, !.kind = Made[u].kind,
                            !.job = Made[u].job, !.crew = Made[u].crew, !.to = Made[u].to,
                            !.ts = ts]
<1>1. /\ q \in Requests /\ q.at = "sent" /\ q.u = u /\ q.kind = Made[u].kind
      /\ q.job = Made[u].job /\ q.crew = Made[u].crew /\ q.to = Made[u].to
  BY UpdateFacts, FreeIsGood DEF Free, GoodRequest, Requests, JobStatuses
<1>2. SetReq(s, q) /\ req[s].at = "free" /\ req \in [Slots -> Requests]
  BY DEF Arrive, NextSlot, ServerTypeOK
<1> HIDE DEF q
<1>3. GoodRequest(q)
  BY <1>1, UpdateFacts DEF GoodRequest, AtWork
<1> QED
  BY <1>1, <1>2, <1>3, SetReqBecomes DEF Starts

LEMMA OnBehalfStep ==
  ASSUME ServerTypeOK, NEW s \in Slots, NEW j \in Jobs, NEW to \in Marks, OnBehalf(s, j, to)
  PROVE  \E q : Starts(s, q) /\ q.u = NoUpdate
<1> DEFINE q == [Free EXCEPT !.at = "sent", !.job = j, !.to = to]
<1>0. to \in CrewStatuses
  BY CrewBoundsAssumption
<1>1. /\ q \in Requests /\ q.at = "sent" /\ q.u = NoUpdate /\ q.kind = "status"
      /\ q.job = j /\ q.crew = NoCrew /\ q.to = to
  BY <1>0, FreeIsGood DEF Free, GoodRequest, Requests, JobStatuses
<1>2. SetReq(s, q) /\ req[s].at = "free" /\ req \in [Slots -> Requests]
  BY DEF OnBehalf, NextSlot, ServerTypeOK
<1> HIDE DEF q
<1>3. GoodRequest(q)
  BY <1>0, <1>1 DEF GoodRequest, AtWork
<1> QED
  BY <1>1, <1>2, <1>3, SetReqBecomes DEF Starts

LEMMA AskReopenStep ==
  ASSUME ServerTypeOK, NEW s \in Slots, NEW j \in Jobs, AskReopen(s, j)
  PROVE  \E q : Starts(s, q) /\ q.u = NoUpdate
<1> DEFINE q == [Free EXCEPT !.at = "sent", !.kind = "reopen", !.job = j, !.crew = holder[j],
                            !.to = "Work Started"]
<1>0. holder[j] \in Crews \cup {NoCrew} /\ "Work Started" \in CrewStatuses
  BY DEF ServerTypeOK, CrewStatuses
<1>1. /\ q \in Requests /\ q.at = "sent" /\ q.u = NoUpdate /\ q.kind = "reopen"
      /\ q.job = j /\ q.to = "Work Started"
  BY <1>0, FreeIsGood DEF Free, GoodRequest, Requests, JobStatuses
<1>2. SetReq(s, q) /\ req[s].at = "free" /\ req \in [Slots -> Requests]
  BY DEF AskReopen, NextSlot, ServerTypeOK
<1> HIDE DEF q
<1>3. GoodRequest(q)
  BY <1>0, <1>1 DEF GoodRequest, AtWork
<1> QED
  BY <1>1, <1>2, <1>3, SetReqBecomes DEF Starts

LEMMA ForgetStep ==
  ASSUME ServerTypeOK, NEW s \in Slots, Forget(s)
  PROVE  GoodRequest(Free) /\ Becomes(s, Free)
BY FreeIsGood, SetReqBecomes DEF Forget, ServerTypeOK

-----------------------------------------------------------------------------
(* Types of the tables *)

TablesOK ==
  /\ jobStatus \in [Jobs -> JobStatuses]
  /\ holder \in [Jobs -> Crews \cup {NoCrew}]
  /\ undo \subseteq Jobs /\ asked \subseteq Jobs
  /\ crewTs \in [Jobs -> Nat]
  /\ forms \subseteq Updates /\ landed \subseteq Updates
  /\ incident \in [status : IncidentStatuses, crew : Crews \cup {NoCrew}]
  /\ proposal \in [open : BOOLEAN, job : Jobs \cup {0}, from : Crews \cup {NoCrew},
                   to : Crews \cup {NoCrew}]
  /\ desk \in [Desks -> Orders]
  /\ now \in Nat /\ spent \in 0..Budget /\ faults \in 0..MaxFaults

FlagsOK == {revived, overlap, unsure} \subseteq BOOLEAN

LEMMA TypeParts ==
  ServerTypeOK <=> TablesOK /\ FlagsOK /\ req \in [Slots -> Requests]
BY DEF ServerTypeOK, TablesOK, FlagsOK

LEMMA ServesKeeps ==
  ASSUME GoodRequests, NEW s \in Slots, NEW q, GoodRequest(q), Becomes(s, q)
  PROVE  GoodRequests' /\ req' \in [Slots -> Requests]
<1>1. \A t \in Slots : req'[t] = q \/ req'[t] = req[t]
  BY DEF Becomes
<1>2. ASSUME NEW t \in Slots
      PROVE  GoodRequest(req[t])'
  <2>1. GoodRequest(req'[t])
    BY <1>1 DEF GoodRequests
  <2> QED
    BY <2>1 DEF GoodRequest, Requests, Updates, NoUpdate, AtWork, OnLadder, Rank
<1> QED
  BY <1>2 DEF GoodRequests, Becomes

LEMMA StatusFacts ==
  /\ CrewStatuses \subseteq JobStatuses
  /\ "Requires Revisit" \in JobStatuses /\ "Cancelled" \in JobStatuses
  /\ "Work Started" \in CrewStatuses /\ "Acknowledged" \in CrewStatuses
  /\ {"open", "dispatched", "in_progress", "pending", "resolved", "cancelled"}
       \subseteq IncidentStatuses
  /\ \A st : Allowed(st) \subseteq IncidentStatuses
BY DEF JobStatuses, CrewStatuses, IncidentStatuses, Allowed

LEMMA BoundSteps ==
  ASSUME TablesOK
  PROVE  /\ Order => spent' \in 0..Budget /\ faults' = faults
         /\ Fault => spent' \in 0..Budget /\ faults' \in 0..MaxFaults
BY CrewBoundsAssumption DEF TablesOK, Order, Fault, Spend

\* The handlers of job requests.
LEMMA HandleTables ==
  ASSUME ServerTypeOK, GoodRequests, NEW s \in Slots, Handle(s)
  PROVE  TablesOK' /\ FlagsOK'
<1>0. TablesOK /\ FlagsOK /\ GoodRequest(req[s]) /\ req[s] \in Requests
  BY TypeParts DEF GoodRequests, GoodRequest
<1>1. CASE Receive(s) \/ Miss(s)
  BY <1>0, <1>1 DEF Receive, Miss, TablesOK, FlagsOK, jobVars, history, bounds
<1>2. CASE Land(s)
  <2>1. req[s].job \in Jobs /\ req[s].to \in JobStatuses
    BY <1>0, <1>2, StatusFacts DEF Land, GoodRequest, AtWork
  <2>2. req[s].u \in Updates \cup {NoUpdate}
    BY <1>0 DEF Requests
  <2>3. /\ jobStatus' \in [Jobs -> JobStatuses] /\ undo' \subseteq Jobs
        /\ landed' \subseteq Updates
    BY <1>0, <1>2, <2>1, <2>2 DEF Land, TablesOK
  <2> QED
    BY <1>0, <1>2, <2>3 DEF Land, TablesOK, FlagsOK, bounds
<1>3. CASE Log(s)
  <2>1. req[s].job \in Jobs /\ req[s].ts \in Nat
    BY <1>0, <1>3 DEF Log, GoodRequest, AtWork, Requests
  <2>2. crewTs' \in [Jobs -> Nat]
    BY <1>0, <1>3, <2>1 DEF Log, TablesOK
  <2> QED
    BY <1>0, <1>3, <2>2 DEF Log, TablesOK, FlagsOK, history, bounds
<1>4. CASE Progress(s)
  <2>1. Implied(req[s]) \in IncidentStatuses
    BY DEF Implied, IncidentStatuses
  <2>2. incident' \in [status : IncidentStatuses, crew : Crews \cup {NoCrew}]
    BY <1>0, <1>4, <2>1 DEF Progress, TablesOK
  <2>3. FlagsOK'
    BY <1>0, <1>4 DEF Progress, FlagsOK, Overwrites
  <2> QED
    BY <1>0, <1>4, <2>2, <2>3 DEF Progress, TablesOK, jobVars, bounds
<1>5. CASE InsertForm(s)
  <2>1. req[s].u \in Updates
    BY <1>5, InsertStep
  <2> QED
    BY <1>0, <1>5, <2>1 DEF InsertForm, TablesOK, FlagsOK, history, bounds
<1>6. CASE Reopen(s)
  <2>1. req[s].job \in Jobs
    BY <1>0, <1>6 DEF Reopen, GoodRequest, AtWork
  <2>2. /\ jobStatus' \in [Jobs -> JobStatuses] /\ undo' \subseteq Jobs
        /\ landed' \subseteq Updates
    BY <1>0, <1>6, <2>1, StatusFacts DEF Reopen, ComesBack, StartsAgain, TablesOK
  <2>3. FlagsOK'
    BY <1>0, <1>6 DEF Reopen, ComesBack, FlagsOK
  <2> QED
    BY <1>0, <1>6, <2>2, <2>3 DEF Reopen, TablesOK, bounds
<1> QED
  BY <1>1, <1>2, <1>3, <1>4, <1>5, <1>6 DEF Handle

LEMMA SetDeskTypes ==
  ASSUME desk \in [Desks -> Orders], NEW d \in Desks, NEW r \in Orders, SetDesk(d, r)
  PROVE  /\ desk' \in [Desks -> Orders]
         /\ desk'[d] = r
         /\ \A e \in Desks \ {d} : desk'[e] = desk[e]
BY DEF SetDesk

LEMMA IdleOrder ==
  Idle \in Orders /\ Idle.at = "idle"
BY DEF Idle, Orders, JobStatuses

\* What the orders of the control room look like as they begin.
LEMMA ReturnShape ==
  ASSUME NEW j \in Jobs, NEW c \in Crews \cup {NoCrew}
  PROVE  LET r == [Idle EXCEPT !.at = "return", !.job = j, !.crew = c]
         IN r \in Orders /\ r.at = "return" /\ r.job = j /\ r.crew = c
BY IdleOrder DEF Idle, Orders

LEMMA StatusShape ==
  ASSUME NEW from \in IncidentStatuses, NEW to \in IncidentStatuses
  PROVE  LET r == [Idle EXCEPT !.at = "status", !.from = from, !.to = to]
         IN r \in Orders /\ r.at = "status" /\ r.from = from /\ r.to = to
BY IdleOrder DEF Idle, Orders

\* And as they go on.
LEMMA OrderGoesOn ==
  ASSUME NEW r \in Orders
  PROVE  /\ [r EXCEPT !.at = "move"] \in Orders
         /\ [r EXCEPT !.at = "move"].at = "move" /\ [r EXCEPT !.at = "move"].job = r.job
         /\ [r EXCEPT !.at = "move"].crew = r.crew /\ [r EXCEPT !.at = "move"].to = r.to
         /\ [r EXCEPT !.at = "returned"] \in Orders
         /\ [r EXCEPT !.at = "returned"].at = "returned"
         /\ [r EXCEPT !.at = "cancel"] \in Orders
         /\ [r EXCEPT !.at = "cancel"].at = "cancel"
         /\ \A list \in SUBSET Jobs :
              /\ [r EXCEPT !.at = "cancelling", !.list = list] \in Orders
              /\ [r EXCEPT !.at = "cancelling", !.list = list].at = "cancelling"
              /\ [r EXCEPT !.list = list] \in Orders
              /\ [r EXCEPT !.list = list].at = r.at
<1>1. /\ [r EXCEPT !.at = "move"] \in Orders
      /\ [r EXCEPT !.at = "move"].at = "move" /\ [r EXCEPT !.at = "move"].job = r.job
      /\ [r EXCEPT !.at = "move"].crew = r.crew /\ [r EXCEPT !.at = "move"].to = r.to
  BY DEF Orders
<1>2. /\ [r EXCEPT !.at = "returned"] \in Orders
      /\ [r EXCEPT !.at = "returned"].at = "returned"
      /\ [r EXCEPT !.at = "cancel"] \in Orders
      /\ [r EXCEPT !.at = "cancel"].at = "cancel"
  BY DEF Orders
<1>3. ASSUME NEW list \in SUBSET Jobs
      PROVE  /\ [r EXCEPT !.at = "cancelling", !.list = list] \in Orders
             /\ [r EXCEPT !.at = "cancelling", !.list = list].at = "cancelling"
             /\ [r EXCEPT !.list = list] \in Orders
             /\ [r EXCEPT !.list = list].at = r.at
  BY DEF Orders
<1> QED
  BY <1>1, <1>2, <1>3

LEMMA OrderList ==
  ASSUME NEW r \in Orders, NEW list \in SUBSET Jobs
  PROVE  /\ [r EXCEPT !.at = "cancelling", !.list = list].list = list
         /\ [r EXCEPT !.list = list].list = list
BY DEF Orders

\* The job an assign goes for.
LEMMA TargetFacts ==
  ASSUME NEW c \in Crews, NEW j \in Targets(c)
  PROVE  /\ j \in ActiveJobs \/ j = 0
         /\ Started(j) /\ j # 0 => holder[j] # c
         /\ j = 0 => ActiveJobs = {}
<1>1. CASE {i \in ActiveJobs : holder[i] = c} # {}
  BY <1>1, UpdateFacts DEF Targets, ActiveJobs
<1>2. CASE /\ {i \in ActiveJobs : holder[i] = c} = {}
           /\ {i \in ActiveJobs : Started(i)} # {}
  BY <1>2, UpdateFacts DEF Targets, ActiveJobs
<1>3. CASE /\ {i \in ActiveJobs : holder[i] = c} = {}
           /\ {i \in ActiveJobs : Started(i)} = {} /\ ActiveJobs # {}
  <2>1. j \in ActiveJobs
    BY <1>3 DEF Targets
  <2> QED
    BY <1>3, <2>1, UpdateFacts DEF ActiveJobs
<1>4. CASE ActiveJobs = {}
  BY <1>4 DEF Targets
<1> QED
  BY <1>1, <1>2, <1>3, <1>4

\* What an order of the control room carries.
GoodOrder(r) ==
  /\ r \in Orders
  /\ r.at \in {"assign", "move"} =>
       /\ r.crew \in Crews /\ r.to \in {"none", "Acknowledged"}
       /\ r.job = 0 => r.to = "Acknowledged"
  /\ r.at = "assign" => r.from \in IncidentStatuses
  /\ r.at = "return" => r.job \in Jobs /\ r.crew # NoCrew
  /\ r.at = "status" => r.to \in IncidentStatuses

GoodOrders == \A d \in Desks : GoodOrder(desk[d])

LEMMA IdleIsGood ==
  GoodOrder(Idle)
BY IdleOrder DEF GoodOrder

LEMMA OrderKeeps ==
  ASSUME GoodOrders, desk \in [Desks -> Orders],
         NEW d \in Desks, NEW r, GoodOrder(r), SetDesk(d, r)
  PROVE  /\ GoodOrders' /\ desk' \in [Desks -> Orders] /\ desk'[d] = r
         /\ \A e \in Desks \ {d} : desk'[e] = desk[e]
<1>1. r \in Orders
  BY DEF GoodOrder
<1>2. /\ desk' \in [Desks -> Orders] /\ desk'[d] = r
      /\ \A e \in Desks \ {d} : desk'[e] = desk[e]
  BY <1>1, SetDeskTypes
<1>3. ASSUME NEW e \in Desks
      PROVE  GoodOrder(desk[e])'
  <2>1. GoodOrder(desk'[e])
    BY <1>2 DEF GoodOrders
  <2> QED
    BY <2>1 DEF GoodOrder, Orders, IncidentStatuses
<1> QED
  BY <1>2, <1>3 DEF GoodOrders

\* All of the server's state is as it should be.
Sound == TablesOK /\ FlagsOK /\ req \in [Slots -> Requests] /\ GoodRequests /\ GoodOrders

LEMMA SameRequests ==
  ASSUME Sound, UNCHANGED req
  PROVE  GoodRequests' /\ req' \in [Slots -> Requests]
<1>1. req' = req /\ req' \in [Slots -> Requests]
  BY DEF Sound
<1>2. ASSUME NEW s \in Slots
      PROVE  GoodRequest(req[s])'
  <2>1. GoodRequest(req'[s])
    BY <1>1 DEF Sound, GoodRequests
  <2> QED
    BY <2>1 DEF GoodRequest, Requests, Updates, NoUpdate, AtWork, OnLadder, Rank
<1> QED
  BY <1>1, <1>2 DEF GoodRequests

LEMMA SameOrders ==
  ASSUME Sound, UNCHANGED desk
  PROVE  GoodOrders' /\ desk' \in [Desks -> Orders]
BY DEF Sound, TablesOK, GoodOrders, GoodOrder, Orders, IncidentStatuses

\* What AssignRead, ReturnRead and StatusRead have in common.
LEMMA TakeSound ==
  ASSUME Sound, NEW d \in Desks, NEW r, GoodOrder(r), Take(d, r)
  PROVE  /\ Sound' /\ desk'[d] = r /\ desk[d].at = "idle"
         /\ \A e \in Desks \ {d} : desk'[e] = desk[e]
<1>1. /\ GoodOrders' /\ desk' \in [Desks -> Orders] /\ desk'[d] = r
      /\ \A e \in Desks \ {d} : desk'[e] = desk[e]
  BY OrderKeeps DEF Take, Sound, TablesOK
<1>2. GoodRequests' /\ req' \in [Slots -> Requests]
  BY SameRequests DEF Take
<1>3. spent' \in 0..Budget /\ faults' = faults
  BY BoundSteps DEF Take, Sound
<1>4. overlap' \in BOOLEAN
  BY DEF Take, Sound, FlagsOK
<1>5. UNCHANGED <<jobVars, incident, proposal, landed, revived, unsure, now>>
  BY DEF Take
<1>6. TablesOK'
  BY <1>1, <1>3, <1>5 DEF Sound, TablesOK, jobVars
<1>7. FlagsOK'
  BY <1>4, <1>5 DEF Sound, FlagsOK
<1> QED
  BY <1>1, <1>2, <1>6, <1>7 DEF Sound, Take

LEMMA AssignReadOrder ==
  ASSUME Sound, NEW d \in Desks, NEW c \in Crews, AssignRead(d, c)
  PROVE  \E r : \E j \in Targets(c) :
           /\ GoodOrder(r) /\ Take(d, r)
           /\ r.at = "assign" /\ r.job = j /\ r.crew = c
           /\ (r.to = "Acknowledged" <=> (j \notin Jobs \/ Started(j)))
<1>1. PICK j \in Targets(c) :
        Take(d, [Idle EXCEPT !.at = "assign", !.crew = c, !.job = j, !.from = incident.status,
                   !.to = IF j \notin Jobs \/ Started(j) THEN "Acknowledged" ELSE "none"])
  BY DEF AssignRead
<1>2. j \in Jobs \cup {0} /\ incident.status \in IncidentStatuses
  BY TargetFacts DEF Sound, TablesOK, ActiveJobs
<1>3. PICK from \in IncidentStatuses : from = incident.status
  BY <1>2
<1>4. PICK to \in {"none", "Acknowledged"} :
        to = IF j \notin Jobs \/ Started(j) THEN "Acknowledged" ELSE "none"
  OBVIOUS
<1> DEFINE r == [Idle EXCEPT !.at = "assign", !.crew = c, !.job = j, !.from = from, !.to = to]
<1>5. /\ r \in Orders /\ r.at = "assign" /\ r.crew = c /\ r.job = j
      /\ r.from = from /\ r.to = to
  BY <1>2, IdleOrder, StatusFacts DEF Idle, Orders, JobStatuses
<1>6. Take(d, r)
  <2> DEFINE q == [Idle EXCEPT !.at = "assign", !.crew = c, !.job = j, !.from = incident.status,
                     !.to = IF j \notin Jobs \/ Started(j) THEN "Acknowledged" ELSE "none"]
  <2>1. Take(d, q)
    BY <1>1
  <2>2. q = r
    BY <1>3, <1>4
  <2> HIDE DEF q, r
  <2> QED
    BY <2>1, <2>2
<1> HIDE DEF r
<1>7. GoodOrder(r)
  BY <1>2, <1>4, <1>5, UpdateFacts DEF GoodOrder
<1> QED
  BY <1>4, <1>5, <1>6, <1>7

LEMMA ReturnReadOrder ==
  ASSUME Sound, NEW d \in Desks, NEW j \in Jobs, ReturnRead(d, j)
  PROVE  \E r : GoodOrder(r) /\ Take(d, r) /\ r.at = "return" /\ r.job = j /\ r.crew = holder[j]
<1> DEFINE r == [Idle EXCEPT !.at = "return", !.job = j, !.crew = holder[j]]
<1>1. Take(d, r)
  BY DEF ReturnRead
<1>2. holder[j] \in Crews \cup {NoCrew} /\ holder[j] # NoCrew
  BY DEF Sound, TablesOK, ReturnRead
<1>3. r \in Orders /\ r.at = "return" /\ r.job = j /\ r.crew = holder[j]
  BY <1>2, ReturnShape
<1> HIDE DEF r
<1> QED
  BY <1>1, <1>2, <1>3 DEF GoodOrder

LEMMA StatusReadOrder ==
  ASSUME Sound, NEW d \in Desks, StatusRead(d)
  PROVE  \E r : GoodOrder(r) /\ Take(d, r) /\ r.at = "status"
<1>1. PICK to \in Allowed(incident.status) :
        Take(d, [Idle EXCEPT !.at = "status", !.from = incident.status, !.to = to])
  BY DEF StatusRead
<1> DEFINE r == [Idle EXCEPT !.at = "status", !.from = incident.status, !.to = to]
<1>2. incident.status \in IncidentStatuses /\ to \in IncidentStatuses
  BY StatusFacts DEF Sound, TablesOK
<1>3. r \in Orders /\ r.at = "status" /\ r.to = to
  BY <1>2, StatusShape
<1>4. Take(d, r)
  BY <1>1
<1> HIDE DEF r
<1> QED
  BY <1>2, <1>3, <1>4 DEF GoodOrder

LEMMA AssignSteps ==
  ASSUME Sound, NEW d \in Desks, AssignIncident(d) \/ AssignJob(d)
  PROVE  Sound'
<1> DEFINE r == desk[d]
<1>0. /\ GoodOrder(r) /\ r \in Orders /\ GoodRequests' /\ req' \in [Slots -> Requests]
      /\ desk \in [Desks -> Orders]
  <2>1. UNCHANGED req
    BY DEF AssignIncident, AssignJob
  <2> QED
    BY <2>1, SameRequests DEF Sound, GoodOrders, GoodOrder, TablesOK
<1>1. CASE AssignIncident(d)
  <2>1. r.crew \in Crews /\ r.from \in IncidentStatuses
    BY <1>0, <1>1 DEF GoodOrder, AssignIncident
  <2>2. GoodOrder([r EXCEPT !.at = "move"])
    <3> DEFINE q == [r EXCEPT !.at = "move"]
    <3>1. q \in Orders /\ q.at = "move" /\ q.job = r.job /\ q.crew = r.crew /\ q.to = r.to
      BY <1>0, OrderGoesOn
    <3> HIDE DEF q
    <3>2. GoodOrder(q)
      BY <1>0, <1>1, <3>1 DEF GoodOrder, AssignIncident
    <3> QED
      BY <3>2 DEF q
  <2>3. GoodOrders' /\ desk' \in [Desks -> Orders]
    BY <1>0, <1>1, <2>2, OrderKeeps DEF AssignIncident, Sound
  <2>4. incident' \in [status : IncidentStatuses, crew : Crews \cup {NoCrew}]
    BY <1>1, <2>1, StatusFacts DEF AssignIncident
  <2>5. TablesOK'
    BY <1>1, <2>3, <2>4 DEF AssignIncident, Sound, TablesOK, jobVars, bounds
  <2>6. FlagsOK'
    BY <1>1 DEF AssignIncident, Sound, FlagsOK
  <2> QED
    BY <1>0, <2>3, <2>5, <2>6 DEF Sound
<1>2. CASE AssignJob(d)
  <2>1. r.crew \in Crews /\ r.to \in {"none", "Acknowledged"}
    BY <1>0, <1>2 DEF GoodOrder, AssignJob
  <2>2. GoodOrders' /\ desk' \in [Desks -> Orders]
    BY <1>0, <1>2, IdleIsGood, OrderKeeps DEF AssignJob, Sound
  <2>3. PICK j \in IF r.job = 0 THEN Fresh ELSE {r.job} :
          /\ holder' = [holder EXCEPT ![j] = r.crew]
          /\ jobStatus' = [jobStatus EXCEPT ![j] = IF r.to = "none" THEN @ ELSE r.to]
          /\ IF r.to = "Acknowledged"
             THEN asked' = asked \ {j} /\ undo' = undo \ {j} /\ StartsAgain(j)
             ELSE UNCHANGED <<asked, undo, landed>>
    BY <1>2 DEF AssignJob
  <2>4. r.to = "none" \/ r.to \in JobStatuses
    BY <2>1, StatusFacts
  <2>5. /\ holder' \in [Jobs -> Crews \cup {NoCrew}] /\ jobStatus' \in [Jobs -> JobStatuses]
        /\ asked' \subseteq Jobs /\ undo' \subseteq Jobs /\ landed' \subseteq Updates
    BY <2>1, <2>3, <2>4 DEF Sound, TablesOK, StartsAgain
  <2>6. TablesOK'
    BY <1>2, <2>2, <2>5 DEF AssignJob, Sound, TablesOK, bounds
  <2>7. FlagsOK'
    BY <1>2 DEF AssignJob, Sound, FlagsOK
  <2> QED
    BY <1>0, <2>2, <2>6, <2>7 DEF Sound
<1> QED
  BY <1>1, <1>2

LEMMA ReturnSteps ==
  ASSUME Sound, NEW d \in Desks, ReturnJob(d) \/ ReturnIncident(d)
  PROVE  Sound'
<1> DEFINE r == desk[d]
<1>0. /\ GoodOrder(r) /\ r \in Orders /\ GoodRequests' /\ req' \in [Slots -> Requests]
      /\ desk \in [Desks -> Orders]
  <2>1. UNCHANGED req
    BY DEF ReturnJob, ReturnIncident
  <2> QED
    BY <2>1, SameRequests DEF Sound, GoodOrders, GoodOrder, TablesOK
<1>1. CASE ReturnJob(d)
  <2>1. r.job \in Jobs
    BY <1>0, <1>1 DEF GoodOrder, ReturnJob
  <2>2. GoodOrder([r EXCEPT !.at = "returned"])
    <3> DEFINE q == [r EXCEPT !.at = "returned"]
    <3>1. q \in Orders /\ q.at = "returned"
      BY <1>0, OrderGoesOn
    <3> HIDE DEF q
    <3>2. GoodOrder(q)
      BY <3>1 DEF GoodOrder
    <3> QED
      BY <3>2 DEF q
  <2>3. SetDesk(d, [r EXCEPT !.at = "returned"]) \/ SetDesk(d, Idle)
    BY <1>1 DEF ReturnJob
  <2>4. GoodOrders' /\ desk' \in [Desks -> Orders]
    BY <1>0, <2>2, <2>3, IdleIsGood, OrderKeeps DEF Sound
  <2>5. /\ jobStatus' \in [Jobs -> JobStatuses]
        /\ undo' \subseteq Jobs /\ landed' \subseteq Updates
    <3>1. \/ UNCHANGED <<jobStatus, undo, landed>>
          \/ /\ jobStatus' = [jobStatus EXCEPT ![r.job] = "Requires Revisit"]
             /\ undo' = undo \ {r.job} /\ StartsAgain(r.job)
      BY <1>1 DEF ReturnJob, ComesBack
    <3>2. PICK j \in Jobs : j = r.job
      BY <2>1
    <3>3. \/ UNCHANGED <<jobStatus, undo, landed>>
          \/ /\ jobStatus' = [jobStatus EXCEPT ![j] = "Requires Revisit"]
             /\ undo' = undo \ {j} /\ landed' \subseteq landed
      BY <3>1, <3>2 DEF StartsAgain
    <3> QED
      BY <3>3, StatusFacts DEF Sound, TablesOK
  <2>6. TablesOK'
    BY <1>1, <2>4, <2>5 DEF ReturnJob, Sound, TablesOK, bounds
  <2>7. FlagsOK'
    BY <1>1 DEF ReturnJob, ComesBack, Sound, FlagsOK
  <2> QED
    BY <1>0, <2>4, <2>6, <2>7 DEF Sound
<1>2. CASE ReturnIncident(d)
  <2>1. GoodOrders' /\ desk' \in [Desks -> Orders]
    BY <1>0, <1>2, IdleIsGood, OrderKeeps DEF ReturnIncident, Sound
  <2>2. incident' \in [status : IncidentStatuses, crew : Crews \cup {NoCrew}]
    BY <1>2, StatusFacts DEF ReturnIncident, Sound, TablesOK
  <2>3. TablesOK'
    BY <1>2, <2>1, <2>2 DEF ReturnIncident, Sound, TablesOK, jobVars, bounds
  <2>4. FlagsOK'
    BY <1>2 DEF ReturnIncident, Overwrites, Sound, FlagsOK
  <2> QED
    BY <1>0, <2>1, <2>3, <2>4 DEF Sound
<1> QED
  BY <1>1, <1>2

LEMMA StatusSteps ==
  ASSUME Sound, NEW d \in Desks, StatusWrite(d) \/ CancelJobs(d) \/ CancelJob(d) \/ CutDesk(d)
  PROVE  Sound'
<1> DEFINE r == desk[d]
<1>0. /\ GoodOrder(r) /\ r \in Orders /\ GoodRequests' /\ req' \in [Slots -> Requests]
      /\ desk \in [Desks -> Orders]
  <2>1. UNCHANGED req
    BY DEF StatusWrite, CancelJobs, CancelJob, CutDesk
  <2> QED
    BY <2>1, SameRequests DEF Sound, GoodOrders, GoodOrder, TablesOK
<1>1. CASE StatusWrite(d)
  <2>1. r.to \in IncidentStatuses
    BY <1>0, <1>1 DEF GoodOrder, StatusWrite
  <2>2. GoodOrder([r EXCEPT !.at = "cancel"])
    <3> DEFINE q == [r EXCEPT !.at = "cancel"]
    <3>1. q \in Orders /\ q.at = "cancel"
      BY <1>0, OrderGoesOn
    <3> HIDE DEF q
    <3>2. GoodOrder(q)
      BY <3>1 DEF GoodOrder
    <3> QED
      BY <3>2 DEF q
  <2>3. SetDesk(d, [r EXCEPT !.at = "cancel"]) \/ SetDesk(d, Idle)
    BY <1>1 DEF StatusWrite
  <2>4. GoodOrders' /\ desk' \in [Desks -> Orders]
    BY <1>0, <2>2, <2>3, IdleIsGood, OrderKeeps DEF Sound
  <2>5. incident' \in [status : IncidentStatuses, crew : Crews \cup {NoCrew}]
    BY <1>1, <2>1 DEF StatusWrite, Sound, TablesOK
  <2>6. TablesOK'
    BY <1>1, <2>4, <2>5 DEF StatusWrite, Sound, TablesOK, jobVars, bounds
  <2>7. FlagsOK'
    BY <1>1 DEF StatusWrite, Sound, FlagsOK
  <2> QED
    BY <1>0, <2>4, <2>6, <2>7 DEF Sound
<1>2. CASE CancelJobs(d)
  <2>1. GoodOrder([r EXCEPT !.at = "cancelling", !.list = ActiveJobs])
    <3>0. PICK list \in SUBSET Jobs : list = ActiveJobs
      BY DEF ActiveJobs
    <3> DEFINE q == [r EXCEPT !.at = "cancelling", !.list = list]
    <3>1. q \in Orders /\ q.at = "cancelling"
      BY <1>0, OrderGoesOn
    <3>2. q = [r EXCEPT !.at = "cancelling", !.list = ActiveJobs]
      BY <3>0
    <3> HIDE DEF q
    <3>3. GoodOrder(q)
      BY <3>1 DEF GoodOrder
    <3> QED
      BY <3>2, <3>3
  <2>2. \/ SetDesk(d, [r EXCEPT !.at = "cancelling", !.list = ActiveJobs])
        \/ SetDesk(d, Idle)
    BY <1>2 DEF CancelJobs
  <2>3. GoodOrders' /\ desk' \in [Desks -> Orders]
    BY <1>0, <2>1, <2>2, IdleIsGood, OrderKeeps DEF Sound
  <2>4. TablesOK' /\ FlagsOK'
    BY <1>2, <2>3 DEF CancelJobs, Sound, TablesOK, FlagsOK, jobVars, bounds, history
  <2> QED
    BY <1>0, <2>3, <2>4 DEF Sound
<1>3. CASE CancelJob(d)
  <2>1. PICK j \in r.list :
          /\ r.at = "cancelling"
          /\ jobStatus' = [jobStatus EXCEPT ![j] = "Cancelled"]
          /\ undo' = undo \ {j} /\ asked' = asked \ {j}
          /\ SetDesk(d, IF r.list = {j} THEN Idle ELSE [r EXCEPT !.list = @ \ {j}])
          /\ UNCHANGED <<holder, crewTs, forms, incident, proposal, req, history, bounds>>
    BY <1>3 DEF CancelJob
  <2>2. GoodOrder([r EXCEPT !.list = @ \ {j}])
    <3>0. PICK list \in SUBSET Jobs : list = r.list \ {j}
      BY <1>0 DEF Orders
    <3> DEFINE q == [r EXCEPT !.list = list]
    <3>1. q \in Orders /\ q.at = "cancelling"
      BY <1>0, <2>1, OrderGoesOn
    <3>2. q = [r EXCEPT !.list = @ \ {j}]
      BY <3>0
    <3> HIDE DEF q
    <3>3. GoodOrder(q)
      BY <3>1 DEF GoodOrder
    <3> QED
      BY <3>2, <3>3
  <2>3. GoodOrders' /\ desk' \in [Desks -> Orders]
    BY <1>0, <2>1, <2>2, IdleIsGood, OrderKeeps DEF Sound
  <2>4. /\ jobStatus' \in [Jobs -> JobStatuses] /\ undo' \subseteq Jobs /\ asked' \subseteq Jobs
    BY <2>1, StatusFacts DEF Sound, TablesOK
  <2>5. TablesOK' /\ FlagsOK'
    BY <2>1, <2>3, <2>4 DEF Sound, TablesOK, FlagsOK, bounds, history
  <2> QED
    BY <1>0, <2>3, <2>5 DEF Sound
<1>4. CASE CutDesk(d)
  <2>1. GoodOrders' /\ desk' \in [Desks -> Orders]
    BY <1>0, <1>4, IdleIsGood, OrderKeeps DEF CutDesk, Sound
  <2>2. spent' \in 0..Budget /\ faults' \in 0..MaxFaults
    BY <1>4, BoundSteps DEF CutDesk, Sound
  <2>3. TablesOK' /\ FlagsOK'
    BY <1>4, <2>1, <2>2 DEF CutDesk, Sound, TablesOK, FlagsOK, jobVars, history
  <2> QED
    BY <1>0, <2>1, <2>3 DEF Sound
<1> QED
  BY <1>1, <1>2, <1>3, <1>4

\* The rest of the server: no request but the one named, and no order, changes.
LEMMA WorkloadSound ==
  ASSUME Sound, Workload
  PROVE  Sound'
<1>1. UNCHANGED <<req, desk>>
  BY DEF Workload, Propose, ApplyProposal, CloseProposal
<1>2. /\ GoodRequests' /\ req' \in [Slots -> Requests]
      /\ GoodOrders' /\ desk' \in [Desks -> Orders]
  BY <1>1, SameRequests, SameOrders
<1>3. ASSUME NEW j \in Jobs, NEW c \in Crews \cup {NoCrew}, Propose(j, c)
      PROVE  TablesOK' /\ FlagsOK'
  <2>1. spent' \in 0..Budget /\ faults' = faults
    BY <1>3, BoundSteps DEF Propose, Sound
  <2>2. holder[j] \in Crews \cup {NoCrew}
    BY DEF Sound, TablesOK
  <2>3. proposal' \in [open : BOOLEAN, job : Jobs \cup {0}, from : Crews \cup {NoCrew},
                       to : Crews \cup {NoCrew}]
    BY <1>3, <2>2 DEF Propose
  <2> QED
    BY <1>2, <1>3, <2>1, <2>3 DEF Propose, Sound, TablesOK, FlagsOK, jobVars, history
<1>4. NoProposal \in [open : BOOLEAN, job : Jobs \cup {0}, from : Crews \cup {NoCrew},
                      to : Crews \cup {NoCrew}]
  BY DEF NoProposal
<1>5. CASE ApplyProposal
  <2> DEFINE p == proposal
  <2>1. p.job \in Jobs \cup {0} /\ p.to \in Crews \cup {NoCrew}
    BY DEF Sound, TablesOK
  <2>2. holder' \in [Jobs -> Crews \cup {NoCrew}]
    BY <1>5, <2>1 DEF ApplyProposal, Sound, TablesOK
  <2>3. incident' \in [status : IncidentStatuses, crew : Crews \cup {NoCrew}]
    BY <1>5, <2>1, StatusFacts DEF ApplyProposal, Sound, TablesOK
  <2>4. TablesOK'
    BY <1>2, <1>4, <1>5, <2>2, <2>3 DEF ApplyProposal, Sound, TablesOK, bounds
  <2>5. FlagsOK'
    <3>1. overlap' = (overlap \/ Busy) /\ UNCHANGED <<revived, unsure>>
      BY <1>5 DEF ApplyProposal
    <3>2. overlap' \in BOOLEAN
      BY <3>1, Zenon
    <3> QED
      BY <3>1, <3>2 DEF Sound, FlagsOK
  <2> QED
    BY <1>2, <2>4, <2>5 DEF Sound
<1>6. CASE CloseProposal
  BY <1>2, <1>4, <1>6 DEF CloseProposal, Sound, TablesOK, FlagsOK, jobVars, history, bounds
<1> QED
  BY <1>2, <1>3, <1>5, <1>6 DEF Workload, Sound

LEMMA ElsewhereSound ==
  ASSUME Sound, Elsewhere
  PROVE  Sound'
<1>1. UNCHANGED <<req, desk>>
  BY DEF Elsewhere, ScadaRestores, AskReassign, Dismiss, WindowCloses
<1>2. /\ GoodRequests' /\ req' \in [Slots -> Requests]
      /\ GoodOrders' /\ desk' \in [Desks -> Orders]
  BY <1>1, SameRequests, SameOrders
<1>3. CASE ScadaRestores
  <2>1. spent' \in 0..Budget /\ faults' = faults
    BY <1>3, BoundSteps DEF ScadaRestores, Sound
  <2>2. incident' \in [status : IncidentStatuses, crew : Crews \cup {NoCrew}]
    BY <1>3, StatusFacts DEF ScadaRestores, Sound, TablesOK
  <2> QED
    BY <1>2, <1>3, <2>1, <2>2 DEF ScadaRestores, Sound, TablesOK, FlagsOK, jobVars, history
<1>4. ASSUME NEW j \in Jobs, AskReassign(j)
      PROVE  TablesOK' /\ FlagsOK'
  <2>1. spent' \in 0..Budget /\ faults' = faults
    BY <1>4, BoundSteps DEF AskReassign, Sound
  <2>2. crewTs' \in [Jobs -> Nat] /\ asked' \subseteq Jobs
    BY <1>4 DEF AskReassign, Sound, TablesOK
  <2> QED
    BY <1>2, <1>4, <2>1, <2>2 DEF AskReassign, Sound, TablesOK, FlagsOK, history
<1>5. ASSUME NEW j \in Jobs, Dismiss(j) \/ WindowCloses(j)
      PROVE  TablesOK' /\ FlagsOK'
  BY <1>2, <1>5 DEF Dismiss, WindowCloses, Sound, TablesOK, FlagsOK, history, bounds
<1> QED
  BY <1>2, <1>3, <1>4, <1>5 DEF Elsewhere, Sound

LEMMA HandleStep ==
  ASSUME Sound, NEW s \in Slots, Handle(s)
  PROVE  /\ \E q : Serves(s, q)
         /\ UNCHANGED desk
<1>0. ServerTypeOK /\ GoodRequests /\ GoodRequest(req[s])
  BY TypeParts DEF Sound, GoodRequests
<1>1. UNCHANGED desk
  BY DEF Handle, Receive, Land, Miss, Log, Progress, InsertForm, Reopen
<1>2. CASE Land(s)
  <2>1. PICK r : r = req[s]
    OBVIOUS
  <2> QED
    BY <1>0, <1>2, <2>1, LandStep DEF Land
<1>3. CASE Reopen(s)
  <2>1. PICK r : r = req[s]
    OBVIOUS
  <2>2. CASE SetReq(s, [r EXCEPT !.at = "log", !.saw = NoCrew, !.from = "none", !.tries = 0])
    BY <1>0, <1>3, <2>1, <2>2, LandStep DEF Reopen
  <2>3. CASE Answer(s, "late")
    BY <1>0, <1>3, <2>3, AnswerServes DEF Reopen, ServerTypeOK
  <2> QED
    BY <1>3, <2>1, <2>2, <2>3 DEF Reopen
<1> QED
  BY <1>0, <1>1, <1>2, <1>3, ReceiveStep, MissStep, LogStep, ProgressStep, InsertStep DEF Handle

LEMMA HandleSound ==
  ASSUME Sound, NEW s \in Slots, Handle(s)
  PROVE  Sound'
<1>1. TablesOK' /\ FlagsOK'
  BY HandleTables, TypeParts DEF Sound
<1>2. PICK q : Serves(s, q)
  BY HandleStep
<1>3. GoodRequests' /\ req' \in [Slots -> Requests]
  BY <1>2, ServesKeeps DEF Serves, Sound
<1>4. GoodOrders'
  BY HandleStep, SameOrders
<1> QED
  BY <1>1, <1>3, <1>4 DEF Sound

LEMMA OnlineSound ==
  ASSUME Sound, NEW s \in Slots, Online(s) \/ Cut(s)
  PROVE  Sound'
<1>0. ServerTypeOK /\ GoodRequests /\ TablesOK
  BY TypeParts DEF Sound
<1>1. UNCHANGED desk
  BY DEF Online, OnBehalf, AskReopen, Cut
<1>2. GoodOrders' /\ desk' \in [Desks -> Orders]
  BY <1>1, SameOrders
<1>3. ASSUME NEW j \in Jobs, NEW to \in Marks, OnBehalf(s, j, to)
      PROVE  Sound'
  <2>1. PICK q : Starts(s, q)
    BY <1>0, <1>3, OnBehalfStep
  <2>2. GoodRequests' /\ req' \in [Slots -> Requests]
    BY <2>1, ServesKeeps DEF Starts, Sound
  <2>3. spent' \in 0..Budget /\ faults' = faults
    BY <1>0, <1>3, BoundSteps DEF OnBehalf
  <2>4. TablesOK' /\ FlagsOK'
    BY <1>2, <1>3, <2>3 DEF OnBehalf, Sound, TablesOK, FlagsOK, jobVars, history
  <2> QED
    BY <1>2, <2>2, <2>4 DEF Sound
<1>4. ASSUME NEW j \in Jobs, AskReopen(s, j)
      PROVE  Sound'
  <2>1. PICK q : Starts(s, q)
    BY <1>0, <1>4, AskReopenStep
  <2>2. GoodRequests' /\ req' \in [Slots -> Requests]
    BY <2>1, ServesKeeps DEF Starts, Sound
  <2>3. spent' \in 0..Budget /\ faults' = faults
    BY <1>0, <1>4, BoundSteps DEF AskReopen
  <2>4. TablesOK' /\ FlagsOK'
    BY <1>2, <1>4, <2>3 DEF AskReopen, Sound, TablesOK, FlagsOK, jobVars, history
  <2> QED
    BY <1>2, <2>2, <2>4 DEF Sound
<1>5. CASE Cut(s)
  <2>1. PICK q : Serves(s, q)
    BY <1>0, <1>5, CutStep
  <2>2. GoodRequests' /\ req' \in [Slots -> Requests]
    BY <2>1, ServesKeeps DEF Serves, Sound
  <2>3. spent' \in 0..Budget /\ faults' \in 0..MaxFaults
    BY <1>0, <1>5, BoundSteps DEF Cut
  <2>4. unsure' \in BOOLEAN
    BY <1>5 DEF Cut, Sound, FlagsOK
  <2>5. TablesOK' /\ FlagsOK'
    BY <1>2, <1>5, <2>3, <2>4 DEF Cut, Sound, TablesOK, FlagsOK, jobVars
  <2> QED
    BY <1>2, <2>2, <2>5 DEF Sound
<1> QED
  BY <1>3, <1>4, <1>5 DEF Online

LEMMA ControlRoomSound ==
  ASSUME Sound, NEW d \in Desks, ControlRoom(d)
  PROVE  Sound'
<1>1. CASE \E c \in Crews : AssignRead(d, c)
  <2>1. PICK r : GoodOrder(r) /\ Take(d, r)
    BY <1>1, AssignReadOrder
  <2> QED
    BY <2>1, TakeSound
<1>2. CASE \E j \in Jobs : ReturnRead(d, j)
  <2>1. PICK r : GoodOrder(r) /\ Take(d, r)
    BY <1>2, ReturnReadOrder
  <2> QED
    BY <2>1, TakeSound
<1>3. CASE StatusRead(d)
  <2>1. PICK r : GoodOrder(r) /\ Take(d, r)
    BY <1>3, StatusReadOrder
  <2> QED
    BY <2>1, TakeSound
<1> QED
  BY <1>1, <1>2, <1>3, AssignSteps, ReturnSteps, StatusSteps DEF ControlRoom

LEMMA ServeSound ==
  ASSUME Sound, Serve
  PROVE  Sound'
BY HandleSound, OnlineSound, ControlRoomSound, WorkloadSound, ElsewhereSound DEF Serve

-----------------------------------------------------------------------------
(* What the phones do to the server *)

LEMMA ArriveSound ==
  ASSUME Sound, NEW s \in Slots, NEW u \in Updates, NEW ts \in Nat, Arrive(s, u, ts), now' \in Nat
  PROVE  Sound'
<1>0. ServerTypeOK
  BY TypeParts DEF Sound
<1>1. PICK q : Starts(s, q)
  BY <1>0, ArriveStep
<1>2. GoodRequests' /\ req' \in [Slots -> Requests]
  BY <1>1, ServesKeeps DEF Starts, Sound
<1>3. GoodOrders' /\ desk' \in [Desks -> Orders]
  BY SameOrders DEF Arrive
<1>4. TablesOK' /\ FlagsOK'
  BY <1>3 DEF Arrive, Sound, TablesOK, FlagsOK, jobVars, history
<1> QED
  BY <1>2, <1>3, <1>4 DEF Sound

LEMMA ForgetSound ==
  ASSUME Sound, NEW s \in Slots, Forget(s)
  PROVE  Sound'
<1>0. ServerTypeOK
  BY TypeParts DEF Sound
<1>1. GoodRequests' /\ req' \in [Slots -> Requests]
  BY <1>0, ForgetStep, ServesKeeps DEF Sound
<1>2. GoodOrders' /\ desk' \in [Desks -> Orders]
  BY SameOrders DEF Forget
<1>3. TablesOK' /\ FlagsOK'
  BY <1>2 DEF Forget, Sound, TablesOK, FlagsOK, jobVars, history, bounds
<1> QED
  BY <1>1, <1>2, <1>3 DEF Sound

\* A press without signal, a timeout, the end of the app.
Quiet == UNCHANGED <<jobVars, incident, proposal, req, desk, history>>

LEMMA QuietSound ==
  ASSUME Sound, Quiet, now' \in Nat, spent' \in 0..Budget, faults' \in 0..MaxFaults
  PROVE  Sound'
<1>1. UNCHANGED <<req, desk>>
  BY DEF Quiet
<1>2. /\ GoodRequests' /\ req' \in [Slots -> Requests]
      /\ GoodOrders' /\ desk' \in [Desks -> Orders]
  BY <1>1, SameRequests, SameOrders
<1>3. TablesOK' /\ FlagsOK'
  BY <1>2 DEF Quiet, Sound, TablesOK, FlagsOK, jobVars, history
<1> QED
  BY <1>2, <1>3 DEF Sound

LEMMA LeastNumber ==
  ASSUME NEW S, S \subseteq Nat, S # {}
  PROVE  \E x \in S : \A y \in S : x <= y
<1> DEFINE Below == {0 .. n : n \in S}
           R == StrictSubsetOrdering(Nat)
<1>1. Below \subseteq FiniteSubsetsOf(Nat)
  <2>1. ASSUME NEW n \in S
        PROVE  0 .. n \in FiniteSubsetsOf(Nat)
    BY <2>1, FS_Interval DEF FiniteSubsetsOf
  <2> QED
    BY <2>1
<1>2. PICK B \in Below : \A C \in Below : <<C, B>> \notin R
  <2>1. Below # {}
    OBVIOUS
  <2> HIDE DEF Below, R
  <2>2. IsWellFoundedOn(R, FiniteSubsetsOf(Nat))
    BY FS_StrictSubsetOrderingWellFounded DEF R
  <2> QED
    BY <1>1, <2>1, <2>2, WFMin
<1>3. PICK x \in S : B = 0 .. x
  OBVIOUS
<1>4. ASSUME NEW y \in S, ~(x <= y)
      PROVE  FALSE
  <2>1. /\ 0 .. y \in Below /\ 0 .. y \in SUBSET Nat /\ 0 .. x \in SUBSET Nat
        /\ 0 .. y \subseteq 0 .. x /\ 0 .. y # 0 .. x
    BY <1>4
  <2>2. <<0 .. y, 0 .. x>> \in R
    BY <2>1 DEF StrictSubsetOrdering
  <2> QED
    BY <1>2, <1>3, <2>1, <2>2
<1> QED
  BY <1>4

LEMMA OldestIsOne ==
  ASSUME NEW A, NEW items, items \subseteq [u : A, ts : Nat], items # {}
  PROVE  Oldest(items) \in items
<1> DEFINE times == {i.ts : i \in items}
<1>1. times \subseteq Nat /\ times # {}
  OBVIOUS
<1>2. PICK t \in times : \A y \in times : t <= y
  BY <1>1, LeastNumber
<1>3. PICK i \in items : i.ts = t
  OBVIOUS
<1>4. \A k \in items : i.ts <= k.ts
  BY <1>2, <1>3
<1> QED
  BY <1>4 DEF Oldest

-----------------------------------------------------------------------------
(* A phone and the requests it waits for *)

Waits(s, u) == s \in Slots /\ req[s].u = u /\ req[s].at # "free"

SafeForms(p) == forms \cup undelivered[p] \cup waived

PhoneTypes(p) ==
  /\ queue[p] \subseteq Items(Taps[p])
  /\ direct[p] \in [u : Taps[p] \cup {NoTap}, slot : Slots \cup {NoSlot}]
  /\ flush[p] \in [left : SUBSET Items(Taps[p]), slot : Slots \cup {NoSlot},
                   done : SUBSET Items(Taps[p])]
  /\ undelivered[p] \subseteq Taps[p]

DirectOK(p) ==
  direct[p] # NoDirect => direct[p].u \in Taps[p] /\ Waits(direct[p].slot, direct[p].u)

FlushOK(p) ==
  Sending(p) => /\ Flushing(p) /\ Waits(flush[p].slot, Oldest(flush[p].left).u)
                /\ flush[p].slot # direct[p].slot

DoneOK(p) == \A i \in flush[p].done : IsForm(i.u) => i.u \in SafeForms(p)

FormsOK(p) ==
  \A u \in Taps[p] \cap tapped :
    IsForm(u) => u \in SafeForms(p) \cup Queued(p) \/ direct[p].u = u

PhoneOK(p) == PhoneTypes(p) /\ DirectOK(p) /\ FlushOK(p) /\ DoneOK(p) /\ FormsOK(p)

PhoneTables ==
  /\ DOMAIN queue = Phones /\ DOMAIN direct = Phones
  /\ DOMAIN flush = Phones /\ DOMAIN undelivered = Phones
  /\ tapped \subseteq AllTaps /\ waived \subseteq AllTaps

\* A form the server says it applied is stored.
Stored == \A s \in Slots :
  req[s].at = "answered" /\ Made[req[s].u].kind = "form" /\ req[s].answer = "applied"
    => req[s].u \in forms

PhonesOK == PhoneTables /\ Stored /\ \A p \in Phones : PhoneOK(p)

LEMMA PhoneParts ==
  PhonesTypeOK(Slots) <=> PhoneTables /\ \A p \in Phones : PhoneTypes(p)
BY DEF PhonesTypeOK, PhoneTables, PhoneTypes

LEMMA TapFacts ==
  /\ NoTap \notin Updates /\ NoSlot \notin Slots
  /\ \A p \in Phones : Taps[p] \subseteq Updates /\ Taps[p] \subseteq AllTaps
  /\ \A u \in Updates : IsForm(u) <=> Made[u].kind = "form"
<1>1. NoTap \notin Updates /\ NoSlot \notin Slots
  BY UpdatesAssumption, SlotsAssumption DEF NoTap, NoSlot, Updates
<1>2. \A p \in Phones : Taps[p] \subseteq Updates /\ Taps[p] \subseteq AllTaps
  BY TapsAssumption DEF AllTaps
<1>3. \A u \in Updates : IsForm(u) <=> Made[u].kind = "form"
  BY <1>1, TapsAssumption, UpdateFacts DEF IsForm
<1> QED
  BY <1>1, <1>2, <1>3

\* A request somebody waits for goes on waiting or is answered.
Kept(s) ==
  req[s].at # "free" /\ req[s].u # NoUpdate => req'[s].u = req[s].u /\ req'[s].at # "free"

LEMMA OtherPhone ==
  ASSUME NEW p \in Phones, PhoneOK(p),
         queue'[p] = queue[p], direct'[p] = direct[p], flush'[p] = flush[p],
         undelivered'[p] = undelivered[p],
         Taps[p] \cap tapped' = Taps[p] \cap tapped,
         forms \subseteq forms', waived \subseteq waived',
         \A s \in Slots : AwaitedBy(p, s) => Kept(s)
  PROVE  PhoneOK(p)'
<1>0. Taps[p] \subseteq Updates /\ NoUpdate \notin Updates
  BY TapFacts, UpdateFacts
<1>1. PhoneTypes(p)'
  BY DEF PhoneOK, PhoneTypes, Items, NoTap, NoSlot
<1>2. DirectOK(p)'
  BY <1>0 DEF PhoneOK, DirectOK, NoDirect, Waits, AwaitedBy, Kept, NoTap, NoSlot, NoUpdate
<1>3. FlushOK(p)'
  <2>1. CASE ~Sending(p)
    BY <2>1 DEF FlushOK, Sending, NoSlot
  <2>2. CASE Sending(p)
    <3>1. flush[p].left \subseteq [u : Taps[p], ts : Nat] /\ flush[p].left # {}
      BY <2>2 DEF PhoneOK, PhoneTypes, Items, FlushOK, Flushing
    <3>2. Oldest(flush[p].left) \in flush[p].left
      BY <3>1, OldestIsOne
    <3>3. Oldest(flush[p].left).u \in Updates
      BY <1>0, <3>1, <3>2
    <3>4. PICK u : u = Oldest(flush[p].left).u
      OBVIOUS
    <3>5. Oldest(flush'[p].left).u = u
      BY <3>4
    <3>6. PICK s : s = flush[p].slot
      OBVIOUS
    <3>7. s \in Slots /\ req'[s].u = u /\ req'[s].at # "free"
      BY <1>0, <2>2, <3>3, <3>4, <3>6 DEF PhoneOK, FlushOK, Waits, AwaitedBy, Kept
    <3>8. flush'[p].left # {} /\ flush'[p].slot = s /\ s # direct'[p].slot
      BY <2>2, <3>1, <3>6 DEF PhoneOK, FlushOK
    <3> QED
      BY <3>5, <3>7, <3>8 DEF FlushOK, Sending, Flushing, Waits, Oldest
  <2> QED
    BY <2>1, <2>2
<1>4. DoneOK(p)'
  BY DEF PhoneOK, DoneOK, SafeForms, IsForm, NoTap
<1>5. FormsOK(p)'
  BY DEF PhoneOK, FormsOK, SafeForms, IsForm, NoTap, Queued
<1> QED
  BY <1>1, <1>2, <1>3, <1>4, <1>5 DEF PhoneOK

\* The server's own steps.
LEMMA ServeKept ==
  ASSUME Sound, Stored, Serve
  PROVE  /\ \A s \in Slots : Kept(s)
         /\ forms \subseteq forms'
         /\ Stored'
<1>0. ServerTypeOK /\ GoodRequests
  BY TypeParts DEF Sound
<1>1. ASSUME NEW s \in Slots, NEW q, Serves(s, q), forms \subseteq forms'
      PROVE  (\A t \in Slots : Kept(t)) /\ Stored'
  <2>1. ASSUME NEW t \in Slots
        PROVE  Kept(t)
    BY <1>1, <2>1 DEF Serves, Becomes, Kept
  <2>2. ASSUME NEW t \in Slots, req'[t].at = "answered", Made[req'[t].u].kind = "form",
               req'[t].answer = "applied"
        PROVE  req'[t].u \in forms'
    BY <1>1, <2>2 DEF Serves, Becomes, Stored
  <2> QED
    BY <2>1, <2>2 DEF Stored
<1>2. ASSUME NEW s \in Slots, NEW q, Starts(s, q), UNCHANGED forms
      PROVE  (\A t \in Slots : Kept(t)) /\ Stored'
  <2>1. ASSUME NEW t \in Slots
        PROVE  Kept(t)
    BY <1>2, <2>1 DEF Starts, Becomes, Kept
  <2>2. ASSUME NEW t \in Slots, req'[t].at = "answered", Made[req'[t].u].kind = "form",
               req'[t].answer = "applied"
        PROVE  req'[t].u \in forms'
    BY <1>2, <2>2 DEF Starts, Becomes, Stored
  <2> QED
    BY <2>1, <2>2 DEF Stored
<1>3. ASSUME UNCHANGED <<req, forms>>
      PROVE  (\A t \in Slots : Kept(t)) /\ Stored'
  BY <1>3 DEF Kept, Stored
<1>4. ASSUME NEW s \in Slots, Handle(s)
      PROVE  (\A t \in Slots : Kept(t)) /\ Stored' /\ forms \subseteq forms'
  <2>1. forms \subseteq forms'
    BY <1>4 DEF Handle, Receive, Land, Miss, Log, Progress, InsertForm, Reopen, jobVars
  <2> QED
    BY <1>1, <1>4, <2>1, HandleStep
<1>5. ASSUME NEW s \in Slots, Cut(s)
      PROVE  (\A t \in Slots : Kept(t)) /\ Stored' /\ forms \subseteq forms'
  BY <1>0, <1>1, <1>5, CutStep DEF Cut, jobVars
<1>6. ASSUME NEW s \in Slots, Online(s)
      PROVE  (\A t \in Slots : Kept(t)) /\ Stored' /\ forms \subseteq forms'
  <2>1. UNCHANGED forms
    BY <1>6 DEF Online, OnBehalf, AskReopen, jobVars
  <2>2. \E q : Starts(s, q)
    BY <1>0, <1>6, OnBehalfStep, AskReopenStep DEF Online
  <2> QED
    BY <1>2, <2>1, <2>2
<1>7. ASSUME NEW d \in Desks, ControlRoom(d)
      PROVE  UNCHANGED <<req, forms>>
  BY <1>7 DEF ControlRoom, AssignRead, AssignIncident, AssignJob, ReturnRead, ReturnJob,
     ReturnIncident, StatusRead, StatusWrite, CancelJobs, CancelJob, CutDesk, Take, jobVars
<1>8. Workload \/ Elsewhere => UNCHANGED <<req, forms>>
  BY DEF Workload, Elsewhere, Propose, ApplyProposal, CloseProposal, ScadaRestores, AskReassign,
     Dismiss, WindowCloses, jobVars
<1> QED
  BY <1>3, <1>4, <1>5, <1>6, <1>7, <1>8 DEF Serve

LEMMA ServePhones ==
  ASSUME Sound, PhonesOK, Serve, UNCHANGED phoneVars
  PROVE  PhonesOK'
<1>1. (\A s \in Slots : Kept(s)) /\ forms \subseteq forms' /\ Stored'
  BY ServeKept DEF PhonesOK
<1>2. ASSUME NEW p \in Phones
      PROVE  PhoneOK(p)'
  BY <1>1, OtherPhone DEF PhonesOK, phoneVars
<1>3. PhoneTables'
  BY DEF PhonesOK, PhoneTables, phoneVars, AllTaps
<1> QED
  BY <1>1, <1>2, <1>3 DEF PhonesOK

\* A slot is waited for once.
LEMMA AwaitedFacts ==
  ASSUME NEW p \in Phones, PhoneOK(p), NEW s \in Slots, AwaitedBy(p, s)
  PROVE  req[s].u \in Taps[p] /\ req[s].at # "free"
<1>1. CASE direct[p].slot = s
  <2>1. direct[p] # NoDirect
    BY <1>1, TapFacts DEF NoDirect
  <2> QED
    BY <1>1, <2>1 DEF PhoneOK, DirectOK, Waits
<1>2. CASE flush[p].slot = s
  <2>1. Sending(p)
    BY <1>2, TapFacts DEF Sending
  <2>2. flush[p].left \subseteq [u : Taps[p], ts : Nat] /\ flush[p].left # {}
    BY <2>1 DEF PhoneOK, PhoneTypes, Items, FlushOK, Flushing
  <2>3. Oldest(flush[p].left) \in flush[p].left
    BY <2>2, OldestIsOne
  <2> QED
    BY <1>2, <2>1, <2>2, <2>3 DEF PhoneOK, FlushOK, Waits
<1> QED
  BY <1>1, <1>2 DEF AwaitedBy

LEMMA AwaitedOnce ==
  ASSUME PhonesOK, NEW p \in Phones, NEW q \in Phones, p # q, NEW s \in Slots,
         AwaitedBy(p, s), AwaitedBy(q, s)
  PROVE  FALSE
<1>1. PhoneOK(p) /\ PhoneOK(q)
  BY DEF PhonesOK
<1>2. req[s].u \in Taps[p] /\ req[s].u \in Taps[q]
  BY <1>1, AwaitedFacts
<1> QED
  BY <1>2, TapsAssumption

\* What a step of one phone leaves alone.
OnlyPhone(p) ==
  /\ DOMAIN queue' = Phones /\ DOMAIN direct' = Phones
  /\ DOMAIN flush' = Phones /\ DOMAIN undelivered' = Phones
  /\ \A q \in Phones \ {p} :
       /\ queue'[q] = queue[q] /\ direct'[q] = direct[q] /\ flush'[q] = flush[q]
       /\ undelivered'[q] = undelivered[q]
       /\ Taps[q] \cap tapped' = Taps[q] \cap tapped
  /\ tapped' \subseteq AllTaps /\ waived' \subseteq AllTaps
  /\ waived \subseteq waived'

LEMMA PhoneStepOK ==
  ASSUME PhonesOK, NEW p \in Phones, OnlyPhone(p), PhoneOK(p)', Stored', forms \subseteq forms',
         \A s \in Slots : Kept(s) \/ AwaitedBy(p, s)
  PROVE  PhonesOK'
<1>1. ASSUME NEW q \in Phones, q # p
      PROVE  PhoneOK(q)'
  <2>1. \A s \in Slots : AwaitedBy(q, s) => Kept(s)
    BY <1>1, AwaitedOnce
  <2> QED
    BY <1>1, <2>1, OtherPhone DEF PhonesOK, OnlyPhone
<1>2. PhoneTables'
  BY DEF OnlyPhone, PhoneTables, AllTaps
<1> QED
  BY <1>1, <1>2 DEF PhonesOK

\* A flush that goes on waiting.
LEMMA FlushKeeps ==
  ASSUME NEW p \in Phones, PhoneOK(p), flush'[p] = flush[p],
         Sending(p) => Kept(flush[p].slot) /\ direct'[p].slot # flush[p].slot
  PROVE  FlushOK(p)'
<1>1. CASE ~Sending(p)
  BY <1>1 DEF FlushOK, Sending, NoSlot
<1>2. CASE Sending(p)
  <2>1. AwaitedBy(p, flush[p].slot) /\ flush[p].slot \in Slots
    BY <1>2 DEF AwaitedBy, PhoneOK, FlushOK, Waits
  <2>2. req[flush[p].slot].u # NoUpdate /\ req[flush[p].slot].at # "free"
    BY <2>1, AwaitedFacts, TapFacts, UpdateFacts
  <2>3. PICK s, u : s = flush[p].slot /\ u = Oldest(flush[p].left).u
    OBVIOUS
  <2>4. s \in Slots /\ req'[s].u = u /\ req'[s].at # "free"
    BY <1>2, <2>2, <2>3 DEF PhoneOK, FlushOK, Waits, Kept
  <2>5. Oldest(flush'[p].left).u = u /\ flush'[p].slot = s /\ flush'[p].left # {}
    BY <1>2, <2>3 DEF PhoneOK, FlushOK, Flushing
  <2>6. s # direct'[p].slot
    BY <1>2, <2>3
  <2> QED
    BY <2>4, <2>5, <2>6 DEF FlushOK, Sending, Flushing, Waits, Oldest
<1> QED
  BY <1>1, <1>2

-----------------------------------------------------------------------------
(* The steps of a phone *)

\* A press of the button: only the phone of its crew is concerned.
LEMMA TapOnly ==
  ASSUME PhonesOK, NEW p \in Phones, NEW u \in Taps[p], tapped' = tapped \cup {u}
  PROVE  /\ tapped' \subseteq AllTaps
         /\ \A q \in Phones \ {p} : Taps[q] \cap tapped' = Taps[q] \cap tapped
<1>1. u \in AllTaps
  BY TapFacts
<1>2. ASSUME NEW q \in Phones \ {p}
      PROVE  u \notin Taps[q]
  BY TapsAssumption
<1> QED
  BY <1>1, <1>2 DEF PhonesOK, PhoneTables

LEMMA TapOnlineStep ==
  ASSUME Sound, PhonesOK, NEW p \in Phones, NEW u \in Taps[p], NEW s \in Slots,
         TapOnline(p, u, s)
  PROVE  Sound' /\ PhonesOK'
<1>0. /\ u \in Updates /\ ServerTypeOK /\ now \in Nat /\ PhoneOK(p) /\ PhoneTables
      /\ NoSlot \notin Slots /\ NoTap \notin Updates /\ Taps[p] \subseteq Updates
  BY TapFacts, TypeParts DEF Sound, TablesOK, PhonesOK
<1>1. /\ TapSend(p, u, s) /\ Arrive(s, u, 0) /\ now' = now + 1
  BY DEF TapOnline, Later
<1>2. Sound'
  BY <1>0, <1>1, ArriveSound
<1>3. PICK q : Starts(s, q) /\ q.u = u
  BY <1>0, <1>1, ArriveStep
<1>4. /\ req' \in [Slots -> Requests] /\ req[s].at = "free" /\ req'[s].u = u
      /\ req'[s].at = "sent" /\ \A t \in Slots \ {s} : req'[t] = req[t]
  BY <1>3 DEF Starts, Becomes
<1>5. (\A t \in Slots : Kept(t)) /\ UNCHANGED forms
  BY <1>1, <1>4 DEF Kept, Arrive, jobVars
<1>6. Stored'
  BY <1>4, <1>5 DEF PhonesOK, Stored
<1>7. /\ tapped' = tapped \cup {u} /\ direct' = [direct EXCEPT ![p] = [u |-> u, slot |-> s]]
      /\ UNCHANGED <<queue, flush, undelivered, waived>>
  BY <1>1 DEF TapSend, Tap
<1>8. direct'[p] = [u |-> u, slot |-> s] /\ \A q1 \in Phones \ {p} : direct'[q1] = direct[q1]
  BY <1>0, <1>7 DEF PhoneTables
<1>9. OnlyPhone(p)
  BY <1>0, <1>7, <1>8, TapOnly DEF OnlyPhone, PhoneTables
<1>10. PhoneTypes(p)'
  BY <1>0, <1>7, <1>8 DEF PhoneOK, PhoneTypes, Items, NoTap, NoSlot
<1>11. DirectOK(p)'
  BY <1>4, <1>8 DEF DirectOK, Waits
<1>12. FlushOK(p)'
  <2>1. Sending(p) => Kept(flush[p].slot) /\ direct'[p].slot # flush[p].slot
    BY <1>0, <1>4, <1>5, <1>8 DEF PhoneOK, FlushOK, Waits
  <2> QED
    BY <1>0, <1>7, <2>1, FlushKeeps
<1>13. DoneOK(p)'
  BY <1>0, <1>5, <1>7 DEF PhoneOK, DoneOK, SafeForms, IsForm, NoTap
<1>14. FormsOK(p)'
  <2>1. direct[p] = NoDirect
    BY <1>1 DEF TapSend, Tap
  <2>2. direct[p].u \notin Taps[p]
    BY <1>0, <2>1 DEF NoDirect
  <2> QED
    BY <1>0, <1>5, <1>7, <1>8, <2>2 DEF PhoneOK, FormsOK, SafeForms, IsForm, NoTap, Queued
<1>15. PhoneOK(p)'
  BY <1>10, <1>11, <1>12, <1>13, <1>14 DEF PhoneOK
<1> QED
  BY <1>2, <1>5, <1>6, <1>9, <1>15, PhoneStepOK

\* An item joins the queue of phone p.
LEMMA PushFacts ==
  ASSUME NEW p \in Phones, NEW u \in Taps[p], NEW t \in Nat, PhoneTables, PhoneTypes(p),
         Push(p, u, t)
  PROVE  /\ DOMAIN queue' = Phones /\ \A q \in Phones \ {p} : queue'[q] = queue[q]
         /\ queue'[p] \subseteq Items(Taps[p])
         /\ Queued(p)' = Queued(p) \cup {u}
<1>1. queue'[p] = queue[p] \cup {[u |-> u, ts |-> t]}
  BY DEF Push, PhoneTables
<1>2. DOMAIN queue' = Phones /\ \A q \in Phones \ {p} : queue'[q] = queue[q]
  BY DEF Push, PhoneTables
<1>3. queue'[p] \subseteq Items(Taps[p])
  BY <1>1 DEF PhoneTypes, Items
<1>4. Queued(p)' = Queued(p) \cup {u}
  <2>1. PICK item : item = [u |-> u, ts |-> t]
    OBVIOUS
  <2>2. item.u = u /\ queue'[p] = queue[p] \cup {item}
    BY <1>1, <2>1
  <2>3. \A x : x \in Queued(p)' <=> x \in Queued(p) \/ x = u
    BY <2>2 DEF Queued
  <2> QED
    BY <2>3
<1> QED
  BY <1>2, <1>3, <1>4

LEMMA SameSlots ==
  ASSUME UNCHANGED <<req, forms>>, PhonesOK
  PROVE  Stored' /\ \A s \in Slots : Kept(s)
<1>1. Stored'
  BY DEF PhonesOK, Stored
<1>2. \A s \in Slots : Kept(s)
  BY DEF Kept
<1> QED
  BY <1>1, <1>2

LEMMA TapWaitingStep ==
  ASSUME Sound, PhonesOK, NEW p \in Phones, NEW u \in Taps[p], TapWaiting(p, u)
  PROVE  Sound' /\ PhonesOK'
<1>0. /\ now \in Nat /\ PhoneOK(p) /\ PhoneTables /\ PhoneTypes(p)
      /\ spent \in 0..Budget /\ faults \in 0..MaxFaults
  BY DEF Sound, TablesOK, PhonesOK, PhoneOK
<1>1. /\ TapQueue(p, u, now + 1) /\ now' = now + 1
      /\ UNCHANGED <<jobVars, incident, proposal, req, desk, history, spent, faults>>
  BY DEF TapWaiting, Later
<1>2. Sound'
  BY <1>0, <1>1, QuietSound DEF Quiet
<1>3. UNCHANGED <<req, forms>>
  BY <1>1 DEF jobVars
<1>4. Stored' /\ \A s \in Slots : Kept(s)
  BY <1>3, SameSlots
<1>5. /\ Push(p, u, now + 1) /\ tapped' = tapped \cup {u} /\ direct[p] = NoDirect
      /\ UNCHANGED <<direct, flush, undelivered, waived>>
  BY <1>1 DEF TapQueue, Tap
<1>6. /\ DOMAIN queue' = Phones /\ \A q \in Phones \ {p} : queue'[q] = queue[q]
      /\ queue'[p] \subseteq Items(Taps[p])
      /\ Queued(p)' = Queued(p) \cup {u}
  BY <1>0, <1>5, PushFacts
<1>7. OnlyPhone(p)
  BY <1>0, <1>5, <1>6, TapOnly DEF OnlyPhone, PhoneTables
<1>8. PhoneTypes(p)'
  BY <1>0, <1>5, <1>6 DEF PhoneTypes, Items, NoTap, NoSlot
<1>9. DirectOK(p)'
  BY <1>5 DEF DirectOK, NoDirect, NoTap, NoSlot
<1>10. FlushOK(p)'
  <2>1. Sending(p) => Kept(flush[p].slot) /\ direct'[p].slot # flush[p].slot
    BY <1>0, <1>4, <1>5 DEF PhoneOK, FlushOK, Waits
  <2> QED
    BY <1>0, <1>5, <2>1, FlushKeeps
<1>11. DoneOK(p)'
  BY <1>0, <1>3, <1>5 DEF PhoneOK, DoneOK, SafeForms, IsForm, NoTap
<1>12. FormsOK(p)'
  BY <1>0, <1>3, <1>5, <1>6 DEF PhoneOK, FormsOK, SafeForms, IsForm, NoTap
<1>13. PhoneOK(p)'
  BY <1>8, <1>9, <1>10, <1>11, <1>12 DEF PhoneOK
<1> QED
  BY <1>2, <1>3, <1>4, <1>7, <1>13, PhoneStepOK

\* What becomes of the form an answer is about, and of the forms kept before.
Disposes(p, u) ==
  \/ IsForm(u) /\ Keep(p, u)
  \/ IsForm(u) /\ u \in forms /\ Clear(p, u)
  \/ waived' = waived \cup {u} /\ UNCHANGED undelivered

LEMMA DisposeFacts ==
  ASSUME NEW p \in Phones, NEW u \in Taps[p], PhoneTables, PhoneTypes(p), UNCHANGED forms,
         Disposes(p, u) \/ UNCHANGED <<undelivered, waived>>
  PROVE  /\ DOMAIN undelivered' = Phones
         /\ \A q \in Phones \ {p} : undelivered'[q] = undelivered[q]
         /\ undelivered'[p] \subseteq Taps[p] /\ waived' \subseteq AllTaps
         /\ waived \subseteq waived'
         /\ SafeForms(p) \subseteq SafeForms(p)'
         /\ Disposes(p, u) => u \in SafeForms(p)'
<1>0. u \in AllTaps /\ undelivered[p] \subseteq AllTaps
  BY TapFacts DEF PhoneTypes
<1>1. CASE IsForm(u) /\ Keep(p, u)
  <2>1. /\ undelivered'[p] = Others(p, u) \cup {u} /\ DOMAIN undelivered' = Phones
        /\ \A q \in Phones \ {p} : undelivered'[q] = undelivered[q]
        /\ waived' = waived \cup (undelivered[p] \ (Others(p, u) \cup {u}))
    BY <1>1 DEF Keep, PhoneTables
  <2>2. Others(p, u) \subseteq undelivered[p]
    BY DEF Others
  <2> QED
    BY <1>0, <2>1, <2>2 DEF SafeForms, PhoneTables, PhoneTypes
<1>2. CASE IsForm(u) /\ u \in forms /\ Clear(p, u)
  <2>1. /\ undelivered'[p] = Others(p, u) /\ DOMAIN undelivered' = Phones
        /\ \A q \in Phones \ {p} : undelivered'[q] = undelivered[q]
        /\ waived' = waived \cup (undelivered[p] \ (Others(p, u) \cup {u}))
    BY <1>2 DEF Clear, PhoneTables
  <2>2. Others(p, u) \subseteq undelivered[p]
    BY DEF Others
  <2> QED
    BY <1>0, <1>2, <2>1, <2>2 DEF SafeForms, PhoneTables, PhoneTypes
<1>3. CASE waived' = waived \cup {u} /\ UNCHANGED undelivered
  BY <1>0, <1>3 DEF SafeForms, PhoneTables, PhoneTypes
<1>4. CASE ~Disposes(p, u) /\ UNCHANGED <<undelivered, waived>>
  BY <1>4 DEF SafeForms, PhoneTables, PhoneTypes
<1> QED
  BY <1>1, <1>2, <1>3, <1>4 DEF Disposes

\* The phone deals with the answer to a direct send, or with having none.
LEMMA DirectEnds ==
  ASSUME NEW p \in Phones, PhoneOK(p), PhoneTables, direct[p] # NoDirect, UNCHANGED forms,
         NEW t \in Nat, NEW a,
         IsForm(direct[p].u) =>
           /\ a \in {"applied", "late", "refused", "notyours", "error"}
           /\ a = "applied" => direct[p].u \in forms,
         DirectAnswered(p, a, t)
  PROVE  /\ OnlyPhone(p) /\ direct'[p] = NoDirect /\ UNCHANGED flush
         /\ PhoneTypes(p)' /\ DirectOK(p)' /\ DoneOK(p)' /\ FormsOK(p)'
<1> DEFINE u == direct[p].u
<1>0. PhoneTypes(p) /\ u \in Taps[p]
  BY DEF PhoneOK, DirectOK
<1>1. /\ direct' = [direct EXCEPT ![p] = NoDirect] /\ UNCHANGED <<flush, tapped>>
      /\ IF a = "error" THEN Push(p, u, t) ELSE UNCHANGED queue
  BY DEF DirectAnswered
<1>2. Disposes(p, u) \/ ((IsForm(u) => a = "error") /\ UNCHANGED <<undelivered, waived>>)
  BY DEF DirectAnswered, Disposes
<1> HIDE DEF u
<1>3. /\ DOMAIN undelivered' = Phones
      /\ \A q \in Phones \ {p} : undelivered'[q] = undelivered[q]
      /\ undelivered'[p] \subseteq Taps[p] /\ waived' \subseteq AllTaps
      /\ waived \subseteq waived'
      /\ SafeForms(p) \subseteq SafeForms(p)'
      /\ Disposes(p, u) => u \in SafeForms(p)'
  BY <1>0, <1>2, DisposeFacts
<1>4. /\ direct'[p] = NoDirect /\ DOMAIN direct' = Phones
      /\ \A q \in Phones \ {p} : direct'[q] = direct[q]
  BY <1>1 DEF PhoneTables
<1>5. /\ DOMAIN queue' = Phones /\ \A q \in Phones \ {p} : queue'[q] = queue[q]
      /\ queue'[p] \subseteq Items(Taps[p])
      /\ Queued(p) \subseteq Queued(p)'
      /\ a = "error" => u \in Queued(p)'
  <2>1. CASE a = "error"
    BY <1>0, <1>1, <2>1, PushFacts
  <2>2. CASE a # "error"
    BY <1>0, <1>1, <2>2 DEF PhoneTables, PhoneTypes, Queued
  <2> QED
    BY <2>1, <2>2
<1>6. OnlyPhone(p)
  BY <1>1, <1>3, <1>4, <1>5 DEF OnlyPhone, PhoneTables
<1>7. PhoneTypes(p)'
  BY <1>0, <1>1, <1>3, <1>4, <1>5 DEF PhoneTypes, NoDirect, Items, NoTap, NoSlot
<1>8. DirectOK(p)'
  BY <1>4 DEF DirectOK, NoDirect, NoTap, NoSlot
<1>9. DoneOK(p)'
  BY <1>1, <1>3 DEF PhoneOK, DoneOK, IsForm, NoTap
<1>10. FormsOK(p)'
  <2>1. ASSUME NEW v \in Taps[p] \cap tapped, IsForm(v)
        PROVE  v \in SafeForms(p)' \/ v \in Queued(p)'
    <3>1. CASE v \in SafeForms(p) \cup Queued(p)
      BY <1>3, <1>5, <3>1
    <3>2. CASE direct[p].u = v
      BY <1>2, <1>3, <1>5, <2>1, <3>2 DEF u
    <3> QED
      BY <2>1, <3>1, <3>2 DEF PhoneOK, FormsOK
  <2> QED
    BY <1>1, <2>1 DEF FormsOK, IsForm, NoTap
<1> QED
  BY <1>1, <1>4, <1>6, <1>7, <1>8, <1>9, <1>10

LEMMA FreedSlot ==
  ASSUME Sound, PhonesOK, NEW s \in Slots, Forget(s)
  PROVE  /\ Sound' /\ UNCHANGED forms /\ Stored'
         /\ req[s].at = "answered"
         /\ \A t \in Slots \ {s} : Kept(t)
<1>1. Sound'
  BY ForgetSound
<1>2. Becomes(s, Free)
  BY ForgetStep, TypeParts DEF Sound
<1>3. UNCHANGED forms /\ req[s].at = "answered"
  BY DEF Forget, jobVars
<1>4. \A t \in Slots \ {s} : Kept(t)
  BY <1>2 DEF Becomes, Kept
<1>5. Stored'
  BY <1>2, <1>3, FreeIsGood DEF Becomes, Stored, PhonesOK
<1> QED
  BY <1>1, <1>3, <1>4, <1>5

\* What an answered form says.
LEMMA FormAnswers ==
  ASSUME Sound, PhonesOK, NEW s \in Slots, req[s].at = "answered", NEW u \in Updates,
         req[s].u = u, IsForm(u)
  PROVE  /\ req[s].answer \in {"applied", "late", "notyours", "error"}
         /\ req[s].answer = "applied" => u \in forms
<1>1. Made[u].kind = "form"
  BY TapFacts
<1> QED
  BY <1>1 DEF Sound, GoodRequests, GoodRequest, PhonesOK, Stored

LEMMA DirectBackStep ==
  ASSUME Sound, PhonesOK, NEW p \in Phones, DirectBack(p)
  PROVE  Sound' /\ PhonesOK'
<1> DEFINE s == direct[p].slot
           u == direct[p].u
           a == req[s].answer
<1>0. PhoneOK(p) /\ PhoneTables /\ now \in Nat
  BY DEF PhonesOK, Sound, TablesOK
<1>1. direct[p] # NoDirect /\ DirectAnswered(p, a, now) /\ Forget(s)
  BY DEF DirectBack
<1>2. s \in Slots /\ u \in Taps[p] /\ u \in Updates /\ req[s].u = u
  BY <1>0, <1>1, TapFacts DEF PhoneOK, DirectOK, Waits
<1>3. /\ Sound' /\ UNCHANGED forms /\ Stored'
      /\ req[s].at = "answered"
      /\ \A t \in Slots \ {s} : Kept(t)
  BY <1>1, <1>2, FreedSlot
<1>4. IsForm(u) =>
        /\ a \in {"applied", "late", "refused", "notyours", "error"}
        /\ a = "applied" => u \in forms
  BY <1>2, <1>3, FormAnswers
<1>5. /\ OnlyPhone(p) /\ direct'[p] = NoDirect /\ UNCHANGED flush
      /\ PhoneTypes(p)' /\ DirectOK(p)' /\ DoneOK(p)' /\ FormsOK(p)'
  BY <1>0, <1>1, <1>3, <1>4, DirectEnds
<1>6. FlushOK(p)'
  <2>1. Sending(p) => Kept(flush[p].slot) /\ direct'[p].slot # flush[p].slot
    BY <1>0, <1>3, <1>5, TapFacts DEF PhoneOK, FlushOK, Waits, NoDirect
  <2> QED
    BY <1>0, <1>5, <2>1, FlushKeeps
<1>7. PhoneOK(p)' /\ \A t \in Slots : Kept(t) \/ AwaitedBy(p, t)
  BY <1>3, <1>5, <1>6 DEF PhoneOK, AwaitedBy
<1> QED
  BY <1>3, <1>5, <1>7, PhoneStepOK

LEMMA TimedOutFacts ==
  ASSUME Sound, PhonesOK, NEW s, TimedOut(s)
  PROVE  Sound' /\ UNCHANGED forms /\ Stored' /\ \A t \in Slots : Kept(t)
<1>1. spent' \in 0..Budget /\ faults' \in 0..MaxFaults /\ now' \in Nat /\ Quiet
  BY BoundSteps DEF TimedOut, Sound, TablesOK, Quiet
<1>2. UNCHANGED <<req, forms>>
  BY <1>1 DEF Quiet, jobVars
<1> QED
  BY <1>1, <1>2, QuietSound, SameSlots

LEMMA DirectTimeoutStep ==
  ASSUME Sound, PhonesOK, NEW p \in Phones, DirectTimeout(p)
  PROVE  Sound' /\ PhonesOK'
<1>0. PhoneOK(p) /\ PhoneTables /\ now \in Nat
  BY DEF PhonesOK, Sound, TablesOK
<1>1. direct[p] # NoDirect /\ DirectAnswered(p, "error", now) /\ TimedOut(direct[p].slot)
  BY DEF DirectTimeout
<1>2. Sound' /\ UNCHANGED forms /\ Stored' /\ \A t \in Slots : Kept(t)
  BY <1>1, TimedOutFacts
<1>3. /\ OnlyPhone(p) /\ direct'[p] = NoDirect /\ UNCHANGED flush
      /\ PhoneTypes(p)' /\ DirectOK(p)' /\ DoneOK(p)' /\ FormsOK(p)'
  BY <1>0, <1>1, <1>2, DirectEnds
<1>4. FlushOK(p)'
  <2>1. Sending(p) => Kept(flush[p].slot) /\ direct'[p].slot # flush[p].slot
    BY <1>0, <1>2, <1>3, TapFacts DEF PhoneOK, FlushOK, Waits, NoDirect
  <2> QED
    BY <1>0, <1>3, <2>1, FlushKeeps
<1>5. PhoneOK(p)'
  BY <1>3, <1>4 DEF PhoneOK
<1> QED
  BY <1>2, <1>3, <1>5, PhoneStepOK

\* And with the answer to the item of a flush.
LEMMA FlushEnds ==
  ASSUME NEW p \in Phones, PhoneOK(p), PhoneTables, Sending(p), UNCHANGED forms, NEW a,
         LET u == Oldest(flush[p].left).u
         IN IsForm(u) => /\ a \in {"applied", "late", "notyours", "error"}
                         /\ a = "applied" => u \in forms,
         FlushAnswered(p, a)
  PROVE  /\ OnlyPhone(p) /\ ~Sending(p)' /\ UNCHANGED direct
         /\ PhoneTypes(p)' /\ FlushOK(p)' /\ DoneOK(p)' /\ FormsOK(p)'
<1>0. PhoneTypes(p) /\ flush[p].left # {} /\ flush[p].left \subseteq [u : Taps[p], ts : Nat]
  BY DEF PhoneOK, PhoneTypes, FlushOK, Flushing, Items
<1>1. PICK item \in flush[p].left : item = Oldest(flush[p].left)
  BY <1>0, OldestIsOne
<1>2. item.u \in Taps[p] /\ item \in Items(Taps[p])
  BY <1>0, <1>1 DEF Items
<1>3. PICK u \in Taps[p] : u = item.u
  BY <1>2
<1>4. PICK left, done :
        /\ left = IF Breaks(a) THEN {} ELSE flush[p].left \ {item}
        /\ done = IF Breaks(a) THEN flush[p].done ELSE flush[p].done \cup {item}
  OBVIOUS
<1>5. /\ IF left = {}
         THEN /\ queue' = [queue EXCEPT ![p] = Rest(p, done)]
              /\ flush' = [flush EXCEPT ![p] = NoFlush]
         ELSE /\ flush' = [flush EXCEPT ![p] = [left |-> left, slot |-> NoSlot, done |-> done]]
              /\ UNCHANGED queue
      /\ UNCHANGED <<direct, tapped>>
  BY <1>1, <1>4 DEF FlushAnswered
<1>6. Disposes(p, u) \/ ((IsForm(u) => a = "error") /\ UNCHANGED <<undelivered, waived>>)
  <2>1. /\ CASE IsForm(u) /\ a \in {"late", "refused"} -> Keep(p, u)
             [] IsForm(u) /\ a = "applied"  -> Clear(p, u)
             [] IsForm(u) /\ a = "notyours" -> waived' = waived \cup {u} /\ UNCHANGED undelivered
             [] OTHER -> UNCHANGED <<undelivered, waived>>
        /\ IsForm(u) => /\ a \in {"applied", "late", "notyours", "error"}
                        /\ a = "applied" => u \in forms
    BY <1>1, <1>3 DEF FlushAnswered
  <2> QED
    BY <2>1 DEF Disposes
<1>7. /\ DOMAIN undelivered' = Phones
      /\ \A q \in Phones \ {p} : undelivered'[q] = undelivered[q]
      /\ undelivered'[p] \subseteq Taps[p] /\ waived' \subseteq AllTaps
      /\ waived \subseteq waived'
      /\ SafeForms(p) \subseteq SafeForms(p)'
      /\ Disposes(p, u) => u \in SafeForms(p)'
  BY <1>0, <1>6, DisposeFacts
<1>8. \A i \in done : IsForm(i.u) => i.u \in SafeForms(p)'
  BY <1>3, <1>4, <1>6, <1>7 DEF Breaks, PhoneOK, DoneOK
<1>9. /\ left \in SUBSET Items(Taps[p]) /\ done \in SUBSET Items(Taps[p])
      /\ flush[p].done \subseteq done
  BY <1>0, <1>2, <1>4 DEF PhoneTypes
<1>10. /\ DOMAIN flush' = Phones /\ \A q \in Phones \ {p} : flush'[q] = flush[q]
       /\ \/ flush'[p] = NoFlush
          \/ flush'[p] = [left |-> left, slot |-> NoSlot, done |-> done]
  BY <1>5 DEF PhoneTables
<1>11. /\ DOMAIN queue' = Phones /\ \A q \in Phones \ {p} : queue'[q] = queue[q]
       /\ queue'[p] \subseteq queue[p] /\ queue[p] \subseteq queue'[p] \cup done
  BY <1>5 DEF PhoneTables, Rest
<1>12. OnlyPhone(p)
  BY <1>5, <1>7, <1>10, <1>11 DEF OnlyPhone, PhoneTables
<1>13. /\ flush'[p] \in [left : SUBSET Items(Taps[p]), slot : Slots \cup {NoSlot},
                         done : SUBSET Items(Taps[p])]
       /\ flush'[p].slot = NoSlot /\ flush'[p].done \subseteq done
  BY <1>9, <1>10 DEF NoFlush
<1>14. PhoneTypes(p)'
  BY <1>0, <1>5, <1>7, <1>11, <1>13 DEF PhoneTypes, Items, NoTap, NoSlot
<1>15. ~Sending(p)' /\ FlushOK(p)'
  BY <1>13 DEF Sending, FlushOK, NoSlot
<1>16. DoneOK(p)'
  BY <1>8, <1>13 DEF DoneOK, IsForm, NoTap
<1>17. FormsOK(p)'
  <2>1. ASSUME NEW v \in Taps[p] \cap tapped, IsForm(v), direct[p].u # v
        PROVE  v \in SafeForms(p)' \/ v \in Queued(p)'
    <3>1. CASE v \in SafeForms(p)
      BY <1>7, <3>1
    <3>2. CASE v \in Queued(p)
      <4>1. PICK i \in queue[p] : i.u = v
        BY <3>2 DEF Queued
      <4> QED
        BY <1>8, <1>11, <2>1, <4>1 DEF Queued
    <3> QED
      BY <2>1, <3>1, <3>2 DEF PhoneOK, FormsOK
  <2> QED
    BY <1>5, <2>1 DEF FormsOK, IsForm, NoTap
<1> QED
  BY <1>5, <1>12, <1>14, <1>15, <1>16, <1>17

LEMMA DirectKeeps ==
  ASSUME NEW p \in Phones, PhoneOK(p), direct'[p] = direct[p],
         direct[p] # NoDirect => Kept(direct[p].slot)
  PROVE  DirectOK(p)'
<1>1. direct[p] # NoDirect => direct[p].u \in Taps[p] /\ direct[p].u # NoUpdate
  BY TapFacts, UpdateFacts DEF PhoneOK, DirectOK
<1> QED
  BY <1>1 DEF PhoneOK, DirectOK, Waits, Kept, NoDirect, NoTap, NoSlot

LEMMA FlushItem ==
  ASSUME NEW p \in Phones, PhoneOK(p), Sending(p)
  PROVE  /\ Oldest(flush[p].left).u \in Taps[p] /\ Oldest(flush[p].left).u \in Updates
         /\ flush[p].slot \in Slots /\ req[flush[p].slot].u = Oldest(flush[p].left).u
         /\ req[flush[p].slot].at # "free"
         /\ direct[p] # NoDirect => direct[p].slot \in Slots \ {flush[p].slot}
<1>1. flush[p].left # {} /\ flush[p].left \subseteq [u : Taps[p], ts : Nat]
  BY DEF PhoneOK, PhoneTypes, FlushOK, Flushing, Items
<1>2. Oldest(flush[p].left).u \in Taps[p]
  BY <1>1, OldestIsOne
<1> QED
  BY <1>2, TapFacts DEF PhoneOK, FlushOK, DirectOK, Waits

LEMMA FlushBackStep ==
  ASSUME Sound, PhonesOK, NEW p \in Phones, FlushBack(p)
  PROVE  Sound' /\ PhonesOK'
<1> DEFINE s == flush[p].slot
           a == req[s].answer
<1>0. PhoneOK(p) /\ PhoneTables
  BY DEF PhonesOK
<1>1. Sending(p) /\ FlushAnswered(p, a) /\ Forget(s)
  BY DEF FlushBack
<1>2. PICK u : u = Oldest(flush[p].left).u
  OBVIOUS
<1>3. /\ s \in Slots /\ u \in Updates /\ req[s].u = u
      /\ direct[p] # NoDirect => direct[p].slot \in Slots \ {s}
  BY <1>0, <1>1, <1>2, FlushItem
<1>4. /\ Sound' /\ UNCHANGED forms /\ Stored'
      /\ req[s].at = "answered"
      /\ \A t \in Slots \ {s} : Kept(t)
  BY <1>1, <1>3, FreedSlot
<1>5. IsForm(u) => /\ a \in {"applied", "late", "notyours", "error"}
                   /\ a = "applied" => u \in forms
  BY <1>3, <1>4, FormAnswers
<1>6. /\ OnlyPhone(p) /\ ~Sending(p)' /\ UNCHANGED direct
      /\ PhoneTypes(p)' /\ FlushOK(p)' /\ DoneOK(p)' /\ FormsOK(p)'
  BY <1>0, <1>1, <1>2, <1>4, <1>5, FlushEnds
<1>7. DirectOK(p)'
  BY <1>0, <1>3, <1>4, <1>6, DirectKeeps
<1>8. PhoneOK(p)' /\ \A t \in Slots : Kept(t) \/ AwaitedBy(p, t)
  BY <1>4, <1>6, <1>7 DEF PhoneOK, AwaitedBy
<1> QED
  BY <1>4, <1>6, <1>8, PhoneStepOK

LEMMA FlushTimeoutStep ==
  ASSUME Sound, PhonesOK, NEW p \in Phones, FlushTimeout(p)
  PROVE  Sound' /\ PhonesOK'
<1>0. PhoneOK(p) /\ PhoneTables
  BY DEF PhonesOK
<1>1. Sending(p) /\ FlushAnswered(p, "error") /\ TimedOut(flush[p].slot)
  BY DEF FlushTimeout
<1>2. Sound' /\ UNCHANGED forms /\ Stored' /\ \A t \in Slots : Kept(t)
  BY <1>1, TimedOutFacts
<1>3. /\ OnlyPhone(p) /\ ~Sending(p)' /\ UNCHANGED direct
      /\ PhoneTypes(p)' /\ FlushOK(p)' /\ DoneOK(p)' /\ FormsOK(p)'
  BY <1>0, <1>1, <1>2, FlushEnds
<1>4. DirectOK(p)'
  BY <1>0, <1>1, <1>2, <1>3, FlushItem, DirectKeeps
<1>5. PhoneOK(p)'
  BY <1>3, <1>4 DEF PhoneOK
<1> QED
  BY <1>2, <1>3, <1>5, PhoneStepOK

LEMMA SendNextStep ==
  ASSUME Sound, PhonesOK, NEW p \in Phones, NEW s \in Slots, SendNext(p, s)
  PROVE  Sound' /\ PhonesOK'
<1>0. /\ ServerTypeOK /\ now \in Nat /\ PhoneOK(p) /\ PhoneTables /\ PhoneTypes(p)
      /\ NoSlot \notin Slots /\ Taps[p] \subseteq Updates
  BY TapFacts, TypeParts DEF Sound, TablesOK, PhonesOK, PhoneOK
<1>1. PICK left : left = IF Flushing(p) THEN flush[p].left ELSE queue[p]
  OBVIOUS
<1>2. PICK f : f = IF Flushing(p) THEN flush[p] ELSE [NoFlush EXCEPT !.left = queue[p]]
  OBVIOUS
<1>3. /\ ~Sending(p) /\ f.left # {}
      /\ flush' = [flush EXCEPT ![p] = [f EXCEPT !.slot = s]]
      /\ UNCHANGED <<queue, direct, undelivered, tapped, waived>>
      /\ Arrive(s, Oldest(left).u, Oldest(left).ts) /\ UNCHANGED now
  BY <1>1, <1>2 DEF SendNext, FlushSend
<1>4. /\ f \in [left : SUBSET Items(Taps[p]), slot : Slots \cup {NoSlot},
               done : SUBSET Items(Taps[p])]
      /\ f.left = left /\ f.done \subseteq flush[p].done
  BY <1>0, <1>1, <1>2 DEF PhoneTypes, NoFlush
<1>5. left # {} /\ left \subseteq [u : Taps[p], ts : Nat]
  BY <1>3, <1>4 DEF Items
<1>6. PICK item \in left : item = Oldest(left)
  BY <1>5, OldestIsOne
<1>7. item.u \in Updates /\ item.ts \in Nat /\ Arrive(s, item.u, item.ts)
  BY <1>0, <1>3, <1>5, <1>6
<1>8. Sound'
  BY <1>0, <1>3, <1>7, ArriveSound
<1>9. PICK q : Starts(s, q) /\ q.u = item.u
  BY <1>0, <1>7, ArriveStep
<1>10. /\ req[s].at = "free" /\ req'[s].u = item.u
       /\ req'[s].at = "sent" /\ \A t \in Slots \ {s} : req'[t] = req[t]
  BY <1>9 DEF Starts, Becomes
<1>11. (\A t \in Slots : Kept(t)) /\ UNCHANGED forms
  BY <1>7, <1>10 DEF Kept, Arrive, jobVars
<1>12. Stored'
  BY <1>10, <1>11 DEF PhonesOK, Stored
<1>13. /\ DOMAIN flush' = Phones /\ \A r \in Phones \ {p} : flush'[r] = flush[r]
       /\ flush'[p] = [f EXCEPT !.slot = s]
  BY <1>3 DEF PhoneTables, PhonesOK
<1>14. /\ flush'[p] \in [left : SUBSET Items(Taps[p]), slot : Slots \cup {NoSlot},
                         done : SUBSET Items(Taps[p])]
       /\ flush'[p].left = left /\ flush'[p].slot = s /\ flush'[p].done \subseteq flush[p].done
  BY <1>4, <1>13
<1>15. OnlyPhone(p)
  BY <1>0, <1>3, <1>13 DEF OnlyPhone, PhoneTables, PhonesOK
<1>16. PhoneTypes(p)'
  BY <1>0, <1>3, <1>14 DEF PhoneTypes, Items, NoTap, NoSlot
<1>17. DirectOK(p)'
  <2>1. direct[p] # NoDirect => direct[p].slot \in Slots
    BY <1>0 DEF PhoneOK, DirectOK, Waits
  <2> QED
    BY <1>0, <1>3, <1>11, <2>1, DirectKeeps
<1>18. FlushOK(p)'
  <2>1. direct'[p].slot # s
    <3>1. CASE direct[p] = NoDirect
      BY <1>0, <1>3, <3>1 DEF NoDirect
    <3>2. CASE direct[p] # NoDirect
      BY <1>0, <1>3, <1>10, <3>2 DEF PhoneOK, DirectOK, Waits
    <3> QED
      BY <3>1, <3>2
  <2>2. Oldest(flush'[p].left) = item
    BY <1>6, <1>14
  <2>3. Waits(s, item.u)'
    BY <1>10 DEF Waits
  <2> QED
    BY <1>5, <1>14, <2>1, <2>2, <2>3 DEF FlushOK, Flushing, Waits, Oldest
<1>19. DoneOK(p)'
  BY <1>0, <1>3, <1>11, <1>14 DEF PhoneOK, DoneOK, SafeForms, IsForm, NoTap
<1>20. FormsOK(p)'
  BY <1>0, <1>3, <1>11 DEF PhoneOK, FormsOK, SafeForms, IsForm, NoTap, Queued
<1>21. PhoneOK(p)'
  BY <1>16, <1>17, <1>18, <1>19, <1>20 DEF PhoneOK
<1> QED
  BY <1>8, <1>11, <1>12, <1>15, <1>21, PhoneStepOK

LEMMA AppKilledStep ==
  ASSUME Sound, PhonesOK, NEW p \in Phones, AppKilled(p)
  PROVE  Sound' /\ PhonesOK'
<1>0. PhoneOK(p) /\ PhoneTables /\ PhoneTypes(p)
  BY DEF PhonesOK, PhoneOK
<1>1. /\ direct' = [direct EXCEPT ![p] = NoDirect]
      /\ flush' = [flush EXCEPT ![p] = NoFlush]
      /\ waived' = IF IsForm(direct[p].u) THEN waived \cup {direct[p].u} ELSE waived
      /\ UNCHANGED <<queue, undelivered, tapped>>
      /\ Quiet /\ now' \in Nat /\ spent' \in 0..Budget /\ faults' \in 0..MaxFaults
  BY BoundSteps DEF AppKilled, Kill, Quiet, Sound, TablesOK
<1>2. Sound'
  BY <1>1, QuietSound
<1>3. UNCHANGED <<req, forms>>
  BY <1>1 DEF Quiet, jobVars
<1>4. Stored' /\ \A s \in Slots : Kept(s)
  BY <1>3, SameSlots
<1>5. /\ direct'[p] = NoDirect /\ DOMAIN direct' = Phones
      /\ \A q \in Phones \ {p} : direct'[q] = direct[q]
      /\ flush'[p] = NoFlush /\ DOMAIN flush' = Phones
      /\ \A q \in Phones \ {p} : flush'[q] = flush[q]
  BY <1>0, <1>1 DEF PhoneTables
<1>6. IsForm(direct[p].u) => direct[p].u \in AllTaps
  BY <1>0, TapFacts DEF PhoneTypes, IsForm
<1>7. OnlyPhone(p)
  BY <1>0, <1>1, <1>5, <1>6 DEF OnlyPhone, PhoneTables
<1>8. PhoneTypes(p)'
  BY <1>0, <1>1, <1>5 DEF PhoneTypes, NoDirect, NoFlush, Items, NoTap, NoSlot
<1>9. DirectOK(p)' /\ FlushOK(p)' /\ DoneOK(p)'
  BY <1>5 DEF DirectOK, FlushOK, DoneOK, Sending, NoDirect, NoFlush, NoTap, NoSlot
<1>10. FormsOK(p)'
  <2>1. ASSUME NEW v \in Taps[p] \cap tapped, IsForm(v)
        PROVE  v \in forms \cup undelivered[p] \cup waived' \cup Queued(p)
    BY <1>0, <1>1, <2>1 DEF PhoneOK, FormsOK, SafeForms
  <2> QED
    BY <1>1, <1>3, <2>1 DEF FormsOK, SafeForms, Queued, IsForm, NoTap
<1>11. PhoneOK(p)'
  BY <1>8, <1>9, <1>10 DEF PhoneOK
<1> QED
  BY <1>2, <1>3, <1>4, <1>7, <1>11, PhoneStepOK

LEMMA OrphanStep ==
  ASSUME Sound, PhonesOK, NEW s \in Slots, Orphan(s)
  PROVE  Sound' /\ PhonesOK'
<1>1. ~Awaited(s) /\ Forget(s) /\ UNCHANGED phoneVars
  BY DEF Orphan
<1>2. /\ Sound' /\ UNCHANGED forms /\ Stored'
      /\ \A t \in Slots \ {s} : Kept(t)
  BY <1>1, FreedSlot
<1>3. ASSUME NEW p \in Phones
      PROVE  PhoneOK(p)'
  <2>1. \A t \in Slots : AwaitedBy(p, t) => Kept(t)
    BY <1>1, <1>2 DEF Awaited
  <2> QED
    BY <1>1, <1>2, <2>1, OtherPhone DEF PhonesOK, phoneVars
<1>4. PhoneTables'
  BY <1>1 DEF PhonesOK, PhoneTables, phoneVars, AllTaps
<1> QED
  BY <1>2, <1>3, <1>4 DEF PhonesOK

-----------------------------------------------------------------------------
(* The whole system *)

Inv == Sound /\ PhonesOK

LEMMA InvStart ==
  ASSUME Init
  PROVE  Inv
<1>1. jobStatus \in [Jobs -> JobStatuses] /\ holder \in [Jobs -> Crews \cup {NoCrew}]
  BY JobsAssumption, StatusFacts DEF Init, InitServer, JobStatuses
<1>2. /\ incident \in [status : IncidentStatuses, crew : Crews \cup {NoCrew}]
      /\ proposal \in [open : BOOLEAN, job : Jobs \cup {0}, from : Crews \cup {NoCrew},
                       to : Crews \cup {NoCrew}]
  BY JobsAssumption, StatusFacts DEF Init, InitServer, NoProposal
<1>3. GoodOrders /\ desk \in [Desks -> Orders]
  BY IdleIsGood, IdleOrder DEF Init, InitServer, GoodOrders
<1>4. GoodRequests /\ req \in [Slots -> Requests]
  BY FreeIsGood DEF Init, InitServer, GoodRequests, GoodRequest
<1>5. TablesOK /\ FlagsOK
  <2>1. crewTs \in [Jobs -> Nat] /\ undo = {} /\ asked = {} /\ forms = {} /\ landed = {}
    BY DEF Init, InitServer
  <2>2. now \in Nat /\ spent \in 0..Budget /\ faults \in 0..MaxFaults
    BY CrewBoundsAssumption DEF Init, InitServer
  <2>3. FlagsOK
    BY DEF Init, InitServer, FlagsOK
  <2> QED
    BY <1>1, <1>2, <1>3, <2>1, <2>2, <2>3 DEF TablesOK
<1>6. PhoneTables /\ Stored
  BY FreeIsGood DEF Init, InitServer, InitPhones, PhoneTables, Stored
<1>7. ASSUME NEW p \in Phones
      PROVE  PhoneOK(p)
  <2>1. /\ queue[p] = {} /\ direct[p] = NoDirect /\ flush[p] = NoFlush
        /\ undelivered[p] = {} /\ tapped = {}
    BY DEF Init, InitPhones
  <2>2. PhoneTypes(p)
    BY <2>1 DEF PhoneTypes, NoDirect, NoFlush
  <2>3. DirectOK(p)
    BY <2>1 DEF DirectOK
  <2>4. FlushOK(p) /\ DoneOK(p)
    BY <2>1 DEF FlushOK, DoneOK, Sending, NoFlush, NoSlot
  <2>5. FormsOK(p)
    BY <2>1 DEF FormsOK
  <2> QED
    BY <2>2, <2>3, <2>4, <2>5 DEF PhoneOK
<1> QED
  BY <1>3, <1>4, <1>5, <1>6, <1>7 DEF Inv, Sound, PhonesOK

LEMMA InvStep ==
  ASSUME Inv, [Next]_vars
  PROVE  Inv'
<1>0. Sound /\ PhonesOK
  BY DEF Inv
<1>1. CASE Server
  BY <1>0, <1>1, ServeSound, ServePhones DEF Server, Inv
<1>2. ASSUME NEW p \in Phones, Phone(p)
      PROVE  Inv'
  BY <1>0, <1>2, TapOnlineStep, TapWaitingStep, DirectBackStep, DirectTimeoutStep, FlushBackStep,
     FlushTimeoutStep, SendNextStep, AppKilledStep DEF Phone, Inv
<1>3. ASSUME NEW s \in Slots, Orphan(s)
      PROVE  Inv'
  BY <1>0, <1>3, OrphanStep DEF Inv
<1>4. CASE UNCHANGED vars
  <2>1. /\ Quiet /\ UNCHANGED <<now, spent, faults, req, forms>> /\ UNCHANGED phoneVars
    BY <1>4 DEF vars, serverVars, Quiet, bounds, history, jobVars, phoneVars
  <2>2. Sound'
    BY <1>0, <2>1, QuietSound DEF Sound, TablesOK
  <2>3. Stored' /\ \A s \in Slots : Kept(s)
    BY <1>0, <2>1, SameSlots
  <2>4. ASSUME NEW p \in Phones
        PROVE  PhoneOK(p)'
    BY <1>0, <2>1, <2>3, OtherPhone DEF PhonesOK, phoneVars
  <2>5. PhoneTables'
    BY <1>0, <2>1 DEF PhonesOK, PhoneTables, phoneVars, AllTaps
  <2> QED
    BY <2>2, <2>3, <2>4, <2>5 DEF Inv, PhonesOK
<1> QED
  BY <1>1, <1>2, <1>3, <1>4 DEF Next

THEOREM InvHolds == Spec => []Inv
<1>1. Init => Inv
  BY InvStart
<1>2. Inv /\ [Next]_vars => Inv'
  BY InvStep
<1> QED
  BY <1>1, <1>2, PTL DEF Spec

\* TypeOK: the tables, the requests, the orders of the control room and the
\* phones hold what they should.
THEOREM TypeCorrect == Spec => []TypeOK
<1>1. Inv => TypeOK
  BY TypeParts, PhoneParts DEF Inv, Sound, PhonesOK, PhoneOK, TypeOK
<1> QED
  BY <1>1, InvHolds, PTL

\* "Kept until delivered so a form is never lost" (offlineQueue.js), but for
\* the four ways FormNotLost names.
THEOREM FormsAreNotLost == Spec => []FormNotLost
<1>1. Inv => FormNotLost
  <2>1. ASSUME Inv, NEW p \in Phones, NEW u \in Taps[p] \cap tapped, IsForm(u)
        PROVE  \/ u \in forms \cup undelivered[p] \cup waived \cup Queued(p)
               \/ direct[p].u = u
    BY <2>1 DEF Inv, PhonesOK, PhoneOK, FormsOK, SafeForms
  <2> QED
    BY <2>1 DEF FormNotLost
<1> QED
  BY <1>1, InvHolds, PTL

-----------------------------------------------------------------------------
(* Jobs and the orders of the control room *)

Begins(d) ==
  \/ \E c \in Crews : AssignRead(d, c)
  \/ \E j \in Jobs : ReturnRead(d, j)
  \/ StatusRead(d)
GoesOn(d) ==
  AssignIncident(d) \/ ReturnIncident(d) \/ StatusWrite(d) \/ CancelJobs(d) \/ CutDesk(d)

jobRows == <<jobStatus, holder, landed>>

\* What a step may do to the jobs and the desks.
LEMMA JobChanges ==
  ASSUME [Next]_vars
  PROVE  \/ \E s \in Slots : Land(s) \/ Reopen(s)
         \/ \E d \in Desks : AssignJob(d) \/ ReturnJob(d) \/ CancelJob(d)
         \/ \E d \in Desks : Begins(d) \/ GoesOn(d)
         \/ ApplyProposal
         \/ UNCHANGED <<jobRows, desk, overlap, revived>>
<1>1. CASE Server
  <2>1. ASSUME NEW s \in Slots, Handle(s)
        PROVE  Land(s) \/ Reopen(s) \/ UNCHANGED <<jobRows, desk, overlap, revived>>
    BY <2>1 DEF Handle, Receive, Miss, Log, Progress, InsertForm, jobVars, jobRows, history
  <2>2. ASSUME NEW s \in Slots, Online(s) \/ Cut(s)
        PROVE  UNCHANGED <<jobRows, desk, overlap, revived>>
    BY <2>2 DEF Online, OnBehalf, AskReopen, Cut, jobVars, jobRows, history
  <2>3. ASSUME NEW d \in Desks, ControlRoom(d)
        PROVE  AssignJob(d) \/ ReturnJob(d) \/ CancelJob(d) \/ Begins(d) \/ GoesOn(d)
    BY <2>3 DEF ControlRoom, Begins, GoesOn
  <2>4. CASE Workload
    BY <2>4 DEF Workload, Propose, CloseProposal, jobVars, jobRows, history
  <2>5. CASE Elsewhere
    BY <2>5 DEF Elsewhere, ScadaRestores, AskReassign, Dismiss, WindowCloses, jobVars, jobRows,
       history
  <2> QED
    BY <1>1, <2>1, <2>2, <2>3, <2>4, <2>5 DEF Server, Serve
<1>2. ASSUME NEW p \in Phones, Phone(p)
      PROVE  UNCHANGED <<jobRows, desk, overlap, revived>>
  <2>1. ASSUME NEW u \in Taps[p], NEW s \in Slots, TapOnline(p, u, s)
        PROVE  UNCHANGED <<jobRows, desk, overlap, revived>>
    BY <2>1 DEF TapOnline, Arrive, jobVars, jobRows, history
  <2>2. ASSUME NEW u \in Taps[p], TapWaiting(p, u)
        PROVE  UNCHANGED <<jobRows, desk, overlap, revived>>
    BY <2>2 DEF TapWaiting, jobVars, jobRows, history
  <2>3. CASE DirectBack(p) \/ FlushBack(p)
    BY <2>3 DEF DirectBack, FlushBack, Forget, jobVars, jobRows, history
  <2>4. CASE DirectTimeout(p) \/ FlushTimeout(p)
    BY <2>4 DEF DirectTimeout, FlushTimeout, TimedOut, jobVars, jobRows, history
  <2>5. ASSUME NEW s \in Slots, SendNext(p, s)
        PROVE  UNCHANGED <<jobRows, desk, overlap, revived>>
    BY <2>5 DEF SendNext, Arrive, jobVars, jobRows, history
  <2>6. CASE AppKilled(p)
    BY <2>6 DEF AppKilled, jobVars, jobRows, history
  <2> QED
    BY <1>2, <2>1, <2>2, <2>3, <2>4, <2>5, <2>6 DEF Phone
<1>3. ASSUME NEW s \in Slots, Orphan(s)
      PROVE  UNCHANGED <<jobRows, desk, overlap, revived>>
  BY <1>3 DEF Orphan, Forget, jobVars, jobRows, history
<1>4. CASE UNCHANGED vars
  BY <1>4 DEF vars, serverVars, jobVars, jobRows, history
<1> QED
  BY <1>1, <1>2, <1>3, <1>4 DEF Next

LEMMA DeskSteps ==
  ASSUME NEW d \in Desks, Begins(d) \/ GoesOn(d)
  PROVE  UNCHANGED <<jobRows, revived>>
BY DEF Begins, GoesOn, AssignRead, ReturnRead, StatusRead, Take, AssignIncident, ReturnIncident,
   StatusWrite, CancelJobs, CutDesk, jobVars, jobRows, history

\* What each write does to its job.
LEMMA LandFacts ==
  ASSUME Inv, NEW s \in Slots, Land(s)
  PROVE  \E j \in Jobs, to \in CrewStatuses :
           /\ j = req[s].job /\ to = req[s].to
           /\ jobStatus[j] = req[s].from /\ jobStatus[j] # to
           /\ OnLadder(jobStatus[j]) /\ Rank(jobStatus[j]) <= Rank(to)
           /\ jobStatus' = [jobStatus EXCEPT ![j] = to]
           /\ landed' = landed \cup ({req[s].u} \ {NoUpdate})
           /\ UNCHANGED <<holder, desk, overlap, revived>>
           /\ holder[j] # NoCrew
           /\ req[s].u # NoUpdate =>
                /\ req[s].u \in Updates /\ j = Made[req[s].u].job /\ to = Made[req[s].u].to
                /\ holder[j] = Made[req[s].u].crew /\ Made[req[s].u].kind = "status"
<1>1. GoodRequest(req[s]) /\ req[s] \in Requests /\ req[s].at = "write"
  BY DEF Inv, Sound, GoodRequests, GoodRequest, Land
<1>2. /\ req[s].job \in Jobs /\ req[s].to \in CrewStatuses
      /\ req[s].from # req[s].to /\ OnLadder(req[s].from)
      /\ Rank(req[s].from) <= Rank(req[s].to) /\ req[s].saw # NoCrew
  BY <1>1 DEF GoodRequest, AtWork
<1>3. /\ jobStatus[req[s].job] = req[s].from /\ holder[req[s].job] = req[s].saw
      /\ jobStatus' = [jobStatus EXCEPT ![req[s].job] = req[s].to]
      /\ landed' = landed \cup ({req[s].u} \ {NoUpdate})
      /\ UNCHANGED <<holder, desk, overlap, revived>>
  BY DEF Land, Unchanged
<1>4. ASSUME req[s].u # NoUpdate
      PROVE  /\ req[s].u \in Updates /\ req[s].job = Made[req[s].u].job
             /\ req[s].to = Made[req[s].u].to
             /\ req[s].saw = Made[req[s].u].crew /\ Made[req[s].u].kind = "status"
  <2>1. req[s].u \in Updates
    BY <1>1, <1>4 DEF Requests
  <2>2. req[s].crew = Made[req[s].u].crew /\ req[s].crew # NoCrew
    BY <1>1, <1>4, <2>1, UpdateFacts DEF GoodRequest, AtWork
  <2> QED
    BY <1>1, <1>4, <2>1, <2>2 DEF GoodRequest, AtWork
<1> QED
  BY <1>2, <1>3, <1>4

LEMMA ReopenFacts ==
  ASSUME Inv, NEW s \in Slots, Reopen(s)
  PROVE  \/ UNCHANGED <<jobRows, desk, overlap, revived, undo>>
         \/ \E j \in Jobs :
              /\ jobStatus[j] = "Work Complete" /\ holder[j] # NoCrew
              /\ jobStatus' = [jobStatus EXCEPT ![j] = "Work Started"]
              /\ undo' = undo \ {j} /\ ComesBack(j)
              /\ UNCHANGED <<holder, desk, overlap>>
<1>1. GoodRequest(req[s]) /\ req[s].at = "undo"
  BY DEF Inv, Sound, GoodRequests, Reopen
<1>2. req[s].job \in Jobs /\ req[s].from = "Work Complete" /\ req[s].saw # NoCrew
  BY <1>1 DEF GoodRequest, AtWork
<1>3. CASE ~Unchanged(req[s])
  BY <1>3 DEF Reopen, jobRows
<1>4. CASE Unchanged(req[s])
  BY <1>2, <1>4 DEF Reopen, Unchanged
<1> QED
  BY <1>3, <1>4

LEMMA AssignFacts ==
  ASSUME Inv, NEW d \in Desks, AssignJob(d)
  PROVE  \E j \in Jobs :
           /\ desk[d].at = "move" /\ desk[d].crew \in Crews
           /\ \/ desk[d].job = 0 /\ jobStatus[j] = "none"
              \/ desk[d].job = j
           /\ holder' = [holder EXCEPT ![j] = desk[d].crew]
           /\ \/ desk[d].to = "none" /\ desk[d].job = j /\ UNCHANGED <<jobStatus, landed>>
              \/ /\ desk[d].to = "Acknowledged"
                 /\ jobStatus' = [jobStatus EXCEPT ![j] = "Acknowledged"] /\ StartsAgain(j)
           /\ desk'[d] = Idle /\ \A e \in Desks \ {d} : desk'[e] = desk[e]
           /\ UNCHANGED <<overlap, revived>>
<1>1. /\ GoodOrder(desk[d]) /\ desk[d] \in Orders /\ desk[d].at = "move"
      /\ desk \in [Desks -> Orders] /\ GoodOrders /\ jobStatus \in [Jobs -> JobStatuses]
  BY DEF Inv, Sound, TablesOK, GoodOrders, GoodOrder, AssignJob
<1>2. /\ desk[d].crew \in Crews /\ desk[d].to \in {"none", "Acknowledged"}
      /\ desk[d].job = 0 => desk[d].to = "Acknowledged"
      /\ desk[d].job \in Jobs \cup {0}
  BY <1>1 DEF GoodOrder, Orders
<1>3. PICK j \in IF desk[d].job = 0 THEN Fresh ELSE {desk[d].job} :
        /\ holder' = [holder EXCEPT ![j] = desk[d].crew]
        /\ jobStatus' = [jobStatus EXCEPT ![j] = IF desk[d].to = "none" THEN @ ELSE desk[d].to]
        /\ IF desk[d].to = "Acknowledged"
           THEN asked' = asked \ {j} /\ undo' = undo \ {j} /\ StartsAgain(j)
           ELSE UNCHANGED <<asked, undo, landed>>
  BY DEF AssignJob
<1>4. /\ j \in Jobs
      /\ \/ desk[d].job = 0 /\ jobStatus[j] = "none"
         \/ desk[d].job = j
  BY <1>2, <1>3 DEF Fresh
<1>5. desk'[d] = Idle /\ \A e \in Desks \ {d} : desk'[e] = desk[e]
  BY <1>1, IdleIsGood, OrderKeeps DEF AssignJob
<1>6. UNCHANGED <<overlap, revived>>
  BY DEF AssignJob
<1>7. CASE desk[d].to = "none"
  <2>1. jobStatus' = jobStatus
    BY <1>1, <1>3, <1>4, <1>7
  <2>2. desk[d].job = j /\ landed' = landed
    BY <1>2, <1>3, <1>4, <1>7
  <2> QED
    BY <1>1, <1>2, <1>3, <1>4, <1>5, <1>6, <1>7, <2>1, <2>2
<1>8. CASE desk[d].to = "Acknowledged"
  BY <1>1, <1>2, <1>3, <1>4, <1>5, <1>6, <1>8
<1> QED
  BY <1>2, <1>7, <1>8

LEMMA ReturnFacts ==
  ASSUME Inv, NEW d \in Desks, ReturnJob(d)
  PROVE  /\ desk[d].at = "return" /\ desk'[d].at \in {"returned", "idle"}
         /\ \A e \in Desks \ {d} : desk'[e] = desk[e]
         /\ UNCHANGED <<holder, overlap>>
         /\ \/ UNCHANGED <<jobRows, revived>>
            \/ \E j \in Jobs :
                 /\ jobStatus[j] = "Work Complete" /\ holder[j] # NoCrew
                 /\ jobStatus' = [jobStatus EXCEPT ![j] = "Requires Revisit"]
                 /\ undo' = undo \ {j} /\ ComesBack(j)
<1>1. /\ GoodOrder(desk[d]) /\ desk[d] \in Orders /\ desk[d].at = "return"
      /\ desk \in [Desks -> Orders] /\ GoodOrders
  BY DEF Inv, Sound, TablesOK, GoodOrders, GoodOrder, ReturnJob
<1>2. PICK j \in Jobs : j = desk[d].job /\ desk[d].crew # NoCrew
  BY <1>1 DEF GoodOrder
<1>3. GoodOrder([desk[d] EXCEPT !.at = "returned"])
  <2> DEFINE q == [desk[d] EXCEPT !.at = "returned"]
  <2>1. q \in Orders /\ q.at = "returned"
    BY <1>1, OrderGoesOn
  <2> HIDE DEF q
  <2>2. GoodOrder(q)
    BY <2>1 DEF GoodOrder
  <2> QED
    BY <2>2 DEF q
<1>4. /\ desk'[d] \in {Idle, [desk[d] EXCEPT !.at = "returned"]}
      /\ \A e \in Desks \ {d} : desk'[e] = desk[e]
  <2>1. CASE SetDesk(d, Idle)
    BY <1>1, <2>1, IdleIsGood, OrderKeeps
  <2>2. CASE SetDesk(d, [desk[d] EXCEPT !.at = "returned"])
    BY <1>1, <1>3, <2>2, OrderKeeps
  <2> QED
    BY <2>1, <2>2 DEF ReturnJob
<1>5. desk'[d].at \in {"returned", "idle"}
  <2>1. [desk[d] EXCEPT !.at = "returned"].at = "returned"
    BY <1>1 DEF Orders
  <2> QED
    BY <1>4, <2>1, IdleOrder
<1>6. \/ UNCHANGED <<jobRows, revived>>
      \/ /\ jobStatus[j] = "Work Complete" /\ holder[j] # NoCrew
         /\ jobStatus' = [jobStatus EXCEPT ![j] = "Requires Revisit"]
         /\ undo' = undo \ {j} /\ ComesBack(j)
  <2>1. CASE Unchanged([job |-> desk[d].job, saw |-> desk[d].crew, from |-> "Work Complete"])
    <3>1. jobStatus[j] = "Work Complete" /\ holder[j] # NoCrew
      BY <1>2, <2>1 DEF Unchanged
    <3>2. /\ jobStatus' = [jobStatus EXCEPT ![desk[d].job] = "Requires Revisit"]
          /\ undo' = undo \ {desk[d].job} /\ ComesBack(desk[d].job)
      BY <2>1 DEF ReturnJob
    <3> QED
      BY <1>2, <3>1, <3>2
  <2>2. CASE ~Unchanged([job |-> desk[d].job, saw |-> desk[d].crew, from |-> "Work Complete"])
    BY <2>2 DEF ReturnJob, jobRows
  <2> QED
    BY <2>1, <2>2
<1> QED
  BY <1>1, <1>4, <1>5, <1>6 DEF ReturnJob

LEMMA CancelFacts ==
  ASSUME Inv, NEW d \in Desks, CancelJob(d)
  PROVE  \E j \in Jobs :
           /\ jobStatus' = [jobStatus EXCEPT ![j] = "Cancelled"]
           /\ j \in desk[d].list
           /\ desk'[d].at = "cancelling" => desk'[d].list \subseteq desk[d].list
           /\ desk[d].at = "cancelling" /\ desk'[d].at \in {"cancelling", "idle"}
           /\ \A e \in Desks \ {d} : desk'[e] = desk[e]
           /\ UNCHANGED <<holder, landed, overlap, revived>>
<1>1. GoodOrder(desk[d]) /\ desk[d] \in Orders /\ desk \in [Desks -> Orders] /\ GoodOrders
  BY DEF Inv, Sound, TablesOK, GoodOrders, GoodOrder
<1>2. PICK j \in desk[d].list :
        /\ desk[d].at = "cancelling"
        /\ jobStatus' = [jobStatus EXCEPT ![j] = "Cancelled"]
        /\ SetDesk(d, IF desk[d].list = {j} THEN Idle ELSE [desk[d] EXCEPT !.list = @ \ {j}])
        /\ UNCHANGED <<holder, landed, overlap, revived>>
  BY DEF CancelJob, history
<1>3. PICK list \in SUBSET Jobs : list = desk[d].list \ {j}
  BY <1>1 DEF Orders
<1>4. PICK r : r = [desk[d] EXCEPT !.list = list]
  OBVIOUS
<1>a. r \in Orders /\ r.at = "cancelling"
  BY <1>1, <1>2, <1>4, OrderGoesOn
<1>b. r.list = list
  BY <1>1, <1>4, OrderList
<1>5. r \in Orders /\ r.at = "cancelling" /\ r.list = list
  BY <1>a, <1>b
<1>6. SetDesk(d, Idle) \/ SetDesk(d, r)
  BY <1>2, <1>3, <1>4
<1>7. j \in Jobs
  BY <1>1 DEF Orders
<1>8. /\ desk'[d] \in {Idle, r}
      /\ \A e \in Desks \ {d} : desk'[e] = desk[e]
  BY <1>1, <1>5, <1>6, IdleOrder, SetDeskTypes
<1>9. /\ desk'[d].at \in {"cancelling", "idle"}
      /\ desk'[d].at = "cancelling" => desk'[d].list \subseteq desk[d].list
  BY <1>3, <1>5, <1>8, IdleOrder
<1> QED
  BY <1>2, <1>7, <1>8, <1>9

\* What was applied to a job since it last came back is still there.
LandedOK ==
  \A u \in landed :
    LET j == Made[u].job
    IN \/ jobStatus[j] = "Cancelled"
       \/ jobStatus[j] \in CrewStatuses /\ Rank(Made[u].to) <= Rank(jobStatus[j])

LEMMA RankNumbers ==
  \A s \in JobStatuses : Rank(s) \in Nat
<1>1. 0 .. 4 \subseteq Nat
  OBVIOUS
<1> QED
  BY <1>1, RankFacts, Zenon

LEMMA LadderFacts ==
  /\ ~OnLadder("Cancelled") /\ ~OnLadder("none")
  /\ OnLadder("Acknowledged") /\ OnLadder("Work Started") /\ OnLadder("Requires Revisit")
  /\ \A s \in CrewStatuses : OnLadder(s) /\ s # "Cancelled"
BY DEF OnLadder, CrewStatuses

LEMMA InvFacts ==
  ASSUME Inv
  PROVE  /\ jobStatus \in [Jobs -> JobStatuses] /\ holder \in [Jobs -> Crews \cup {NoCrew}]
         /\ landed \subseteq Updates /\ desk \in [Desks -> Orders]
         /\ \A u \in landed : Made[u].job \in Jobs /\ Made[u].to \in CrewStatuses
BY UpdateFacts DEF Inv, Sound, TablesOK

LEMMA LandedStep ==
  ASSUME Inv, LandedOK, [Next]_vars
  PROVE  LandedOK'
<1>0. /\ jobStatus \in [Jobs -> JobStatuses] /\ landed \subseteq Updates
      /\ \A u \in landed : Made[u].job \in Jobs /\ Made[u].to \in CrewStatuses
      /\ CrewStatuses \subseteq JobStatuses
  BY InvFacts, StatusFacts
<1>1. ASSUME NEW s \in Slots, Land(s)
      PROVE  LandedOK'
  <2>1. PICK j \in Jobs, to \in CrewStatuses :
           /\ OnLadder(jobStatus[j]) /\ Rank(jobStatus[j]) <= Rank(to)
           /\ jobStatus' = [jobStatus EXCEPT ![j] = to]
           /\ landed' = landed \cup ({req[s].u} \ {NoUpdate})
           /\ req[s].u # NoUpdate =>
                /\ req[s].u \in Updates /\ j = Made[req[s].u].job /\ to = Made[req[s].u].to
    BY <1>1, LandFacts
  <2>2. Rank(to) \in Nat /\ Rank(jobStatus[j]) \in Nat /\ jobStatus'[j] = to
    BY <1>0, <2>1, RankNumbers
  <2>3. ASSUME NEW u \in landed'
        PROVE  \/ jobStatus'[Made[u].job] = "Cancelled"
               \/ /\ jobStatus'[Made[u].job] \in CrewStatuses
                  /\ Rank(Made[u].to) <= Rank(jobStatus'[Made[u].job])
    <3>1. CASE u \notin landed
      BY <2>1, <2>2, <3>1
    <3>2. CASE u \in landed /\ Made[u].job # j
      <4>1. jobStatus'[Made[u].job] = jobStatus[Made[u].job]
        BY <1>0, <2>1, <3>2
      <4> QED
        BY <3>2, <4>1 DEF LandedOK
    <3>3. CASE u \in landed /\ Made[u].job = j
      <4>1. Rank(Made[u].to) \in Nat
        BY <1>0, <3>3, RankNumbers
      <4>2. Rank(Made[u].to) <= Rank(jobStatus[j])
        BY <2>1, <3>3, LadderFacts DEF LandedOK
      <4> QED
        BY <2>1, <2>2, <3>3, <4>1, <4>2
    <3> QED
      BY <3>1, <3>2, <3>3
  <2> QED
    BY <2>3 DEF LandedOK, Rank, CrewStatuses
<1>2. ASSUME NEW j \in Jobs, landed' = {u \in landed : Made[u].job # j},
             NEW st, jobStatus' = [jobStatus EXCEPT ![j] = st]
      PROVE  LandedOK'
  <2>1. ASSUME NEW u \in landed'
        PROVE  jobStatus'[Made[u].job] = jobStatus[Made[u].job] /\ u \in landed
    BY <1>0, <1>2
  <2> QED
    BY <2>1 DEF LandedOK, Rank, CrewStatuses
<1>3. ASSUME UNCHANGED <<jobStatus, landed>>
      PROVE  LandedOK'
  BY <1>3 DEF LandedOK, Rank, CrewStatuses
<1>4. ASSUME NEW s \in Slots, Reopen(s)
      PROVE  LandedOK'
  BY <1>2, <1>3, <1>4, ReopenFacts DEF ComesBack, StartsAgain, jobRows
<1>5. ASSUME NEW d \in Desks, AssignJob(d)
      PROVE  LandedOK'
  BY <1>2, <1>3, <1>5, AssignFacts DEF StartsAgain
<1>6. ASSUME NEW d \in Desks, ReturnJob(d)
      PROVE  LandedOK'
  BY <1>2, <1>3, <1>6, ReturnFacts DEF ComesBack, StartsAgain, jobRows
<1>7. ASSUME NEW d \in Desks, CancelJob(d)
      PROVE  LandedOK'
  <2>1. PICK j \in Jobs : jobStatus' = [jobStatus EXCEPT ![j] = "Cancelled"] /\ landed' = landed
    BY <1>7, CancelFacts
  <2>2. ASSUME NEW u \in landed
        PROVE  \/ jobStatus'[Made[u].job] = "Cancelled"
               \/ jobStatus'[Made[u].job] = jobStatus[Made[u].job]
    BY <1>0, <2>1
  <2> QED
    BY <2>1, <2>2 DEF LandedOK, Rank, CrewStatuses
<1>8. ASSUME NEW d \in Desks, Begins(d) \/ GoesOn(d)
      PROVE  LandedOK'
  BY <1>3, <1>8, DeskSteps DEF jobRows
<1>9. CASE ApplyProposal
  BY <1>3, <1>9 DEF ApplyProposal
<1> QED
  BY <1>1, <1>3, <1>4, <1>5, <1>6, <1>7, <1>8, <1>9, JobChanges DEF jobRows

THEOREM LandedStays == Spec => [](Inv /\ LandedOK)
<1>1. Init => Inv /\ LandedOK
  BY InvStart DEF Init, InitServer, LandedOK
<1>2. Inv /\ LandedOK /\ [Next]_vars => (Inv /\ LandedOK)'
  BY InvStep, LandedStep
<1> QED
  BY <1>1, <1>2, PTL DEF Spec

\* An update of a crew changes a job only while that crew holds it
\* (updateJobIf).
THEOREM OnlyTheHolderUpdates == Spec => HoldersUpdate
<1>1. ASSUME Inv, [Next]_vars
      PROVE  \A u \in landed' \ landed : holder[Made[u].job] = Made[u].crew
  <2>1. CASE \E s \in Slots : Land(s)
    <3>1. PICK s \in Slots : Land(s)
      BY <2>1
    <3> QED
      BY <1>1, <3>1, LandFacts
  <2>2. CASE ~\E s \in Slots : Land(s)
    <3>1. landed' \subseteq landed
      BY <1>1, <2>2, JobChanges, ReopenFacts, AssignFacts, ReturnFacts, CancelFacts, DeskSteps
         DEF ApplyProposal, ComesBack, StartsAgain, jobRows
    <3> QED
      BY <3>1
  <2> QED
    BY <2>1, <2>2
<1>2. Inv /\ [Next]_vars
        => [\A u \in landed' \ landed : holder[Made[u].job] = Made[u].crew]_vars
  BY <1>1
<1> QED
  BY <1>2, InvHolds, PTL DEF Spec, HoldersUpdate

\* What a phone does to the requests.
LEMMA PhoneRequests ==
  ASSUME Inv, NEW p \in Phones, Phone(p)
  PROVE  /\ \/ UNCHANGED req
            \/ \E t \in Slots : Forget(t)
            \/ \E t \in Slots, u \in Updates, ts \in Nat : Arrive(t, u, ts)
         /\ UNCHANGED <<incident, proposal, jobRows, unsure>>
<1>0. Sound /\ PhoneOK(p) /\ PhoneTypes(p) /\ Taps[p] \subseteq Updates /\ now \in Nat
  BY TapFacts DEF Inv, Sound, TablesOK, PhonesOK, PhoneOK
<1>1. ASSUME NEW u \in Taps[p], NEW s \in Slots, TapOnline(p, u, s)
      PROVE  /\ Arrive(s, u, 0) /\ u \in Updates
             /\ UNCHANGED <<incident, proposal, jobRows, unsure>>
  BY <1>0, <1>1 DEF TapOnline, Arrive, jobVars, jobRows, history
<1>2. ASSUME NEW u \in Taps[p], TapWaiting(p, u)
      PROVE  UNCHANGED <<req, incident, proposal, jobRows, unsure>>
  BY <1>2 DEF TapWaiting, jobVars, jobRows, history
<1>3. CASE DirectBack(p)
  <2>1. direct[p].slot \in Slots /\ Forget(direct[p].slot)
    BY <1>0, <1>3 DEF DirectBack, PhoneOK, DirectOK, Waits
  <2> QED
    BY <2>1 DEF Forget, jobVars, jobRows, history
<1>4. CASE FlushBack(p)
  <2>1. flush[p].slot \in Slots /\ Forget(flush[p].slot)
    BY <1>0, <1>4 DEF FlushBack, PhoneOK, FlushOK, Waits
  <2> QED
    BY <2>1 DEF Forget, jobVars, jobRows, history
<1>5. CASE DirectTimeout(p) \/ FlushTimeout(p)
  BY <1>5 DEF DirectTimeout, FlushTimeout, TimedOut, jobVars, jobRows, history
<1>6. ASSUME NEW s \in Slots, SendNext(p, s)
      PROVE  /\ \E u \in Updates, ts \in Nat : Arrive(s, u, ts)
             /\ UNCHANGED <<incident, proposal, jobRows, unsure>>
  <2>1. PICK left : left = IF Flushing(p) THEN flush[p].left ELSE queue[p]
    OBVIOUS
  <2>2. left # {} /\ Arrive(s, Oldest(left).u, Oldest(left).ts)
    BY <1>6, <2>1 DEF SendNext, FlushSend, Flushing, NoFlush
  <2>3. left \subseteq [u : Taps[p], ts : Nat]
    BY <1>0, <2>1 DEF PhoneTypes, Items
  <2>4. Oldest(left).u \in Updates /\ Oldest(left).ts \in Nat
    BY <1>0, <2>2, <2>3, OldestIsOne
  <2> QED
    BY <2>2, <2>4 DEF Arrive, jobVars, jobRows, history
<1>7. CASE AppKilled(p)
  BY <1>7 DEF AppKilled, jobVars, jobRows, history
<1>8. 0 \in Nat
  OBVIOUS
<1> QED
  BY <1>1, <1>2, <1>3, <1>4, <1>5, <1>6, <1>7, <1>8 DEF Phone

\* Only Land takes a request from its write to its log.
LEMMA WriteIsLand ==
  ASSUME Inv, [Next]_vars, NEW s \in Slots, req[s].at = "write", req'[s].at = "log"
  PROVE  Land(s)
<1>0. Sound /\ ServerTypeOK /\ GoodRequests
  BY TypeParts DEF Inv, Sound
<1>1. ASSUME NEW t \in Slots, NEW q, Becomes(t, q), q.at # "log" \/ req[t].at # "write"
      PROVE  FALSE
  BY <1>1 DEF Becomes
<1>2. ASSUME NEW t \in Slots, Handle(t)
      PROVE  Land(s)
  <2>1. CASE Receive(t) \/ Log(t) \/ Progress(t) \/ InsertForm(t) \/ Reopen(t)
    <3>1. PICK q : Serves(t, q)
      BY <1>0, <1>2, HandleStep
    <3>2. req[t].at # "write"
      BY <2>1 DEF Receive, Log, Progress, InsertForm, Reopen
    <3> QED
      BY <1>1, <3>1, <3>2 DEF Serves
  <2>2. CASE Miss(t)
    <3>1. PICK q : Serves(t, q) /\ q.at \in {"free", "answered", "write"}
      BY <1>0, <2>2, MissStep
    <3> QED
      BY <1>1, <3>1 DEF Serves
  <2>3. CASE Land(t)
    <3>1. PICK q : Serves(t, q)
      BY <1>0, <1>2, HandleStep
    <3>2. t = s
      BY <3>1 DEF Serves, Becomes
    <3> QED
      BY <2>3, <3>2
  <2> QED
    BY <1>2, <2>1, <2>2, <2>3 DEF Handle
<1>3. ASSUME NEW t \in Slots, NEW q, Starts(t, q)
      PROVE  FALSE
  BY <1>1, <1>3 DEF Starts
<1>4. ASSUME NEW t \in Slots, Online(t) \/ Cut(t)
      PROVE  FALSE
  <2>1. CASE Online(t)
    BY <1>0, <1>3, <2>1, OnBehalfStep, AskReopenStep DEF Online
  <2>2. CASE Cut(t)
    <3>1. PICK q : Serves(t, q) /\ q.at \in {"free", "answered"}
      BY <1>0, <2>2, CutStep
    <3> QED
      BY <1>1, <3>1 DEF Serves
  <2> QED
    BY <1>4, <2>1, <2>2
<1>5. ~UNCHANGED req
  OBVIOUS
<1>6. ASSUME NEW d \in Desks, ControlRoom(d)
      PROVE  UNCHANGED req
  BY <1>6 DEF ControlRoom, AssignRead, AssignIncident, AssignJob, ReturnRead, ReturnJob,
     ReturnIncident, StatusRead, StatusWrite, CancelJobs, CancelJob, CutDesk, Take
<1>7. Workload \/ Elsewhere => UNCHANGED req
  BY DEF Workload, Elsewhere, Propose, ApplyProposal, CloseProposal, ScadaRestores, AskReassign,
     Dismiss, WindowCloses
<1>8. CASE Server
  BY <1>2, <1>4, <1>5, <1>6, <1>7, <1>8 DEF Server, Serve
<1>9. ASSUME NEW t, Forget(t), t \in Slots
      PROVE  FALSE
  BY <1>0, <1>1, <1>9, ForgetStep, FreeIsGood
<1>10. ASSUME NEW t \in Slots, NEW u \in Updates, NEW ts \in Nat, Arrive(t, u, ts)
       PROVE  FALSE
  BY <1>0, <1>3, <1>10, ArriveStep
<1>11. ASSUME NEW p \in Phones, Phone(p)
       PROVE  FALSE
  BY <1>5, <1>9, <1>10, <1>11, PhoneRequests
<1>12. ASSUME NEW t \in Slots, Orphan(t)
       PROVE  FALSE
  BY <1>9, <1>12 DEF Orphan
<1>13. CASE UNCHANGED vars
  BY <1>5, <1>13 DEF vars, serverVars
<1> QED
  BY <1>8, <1>11, <1>12, <1>13 DEF Next

\* An update sent again takes effect once, unless its job came back between.
THEOREM UpdatesLandOnce == Spec => LandsOnce
<1>1. ASSUME Inv, LandedOK, [Next]_vars, NEW s \in Slots, req[s].at = "write",
             req'[s].at = "log", req[s].u # NoUpdate, req[s].u \in landed
      PROVE  FALSE
  <2>1. Land(s)
    BY <1>1, WriteIsLand
  <2>2. PICK j \in Jobs, to \in CrewStatuses :
           /\ jobStatus[j] # to
           /\ OnLadder(jobStatus[j]) /\ Rank(jobStatus[j]) <= Rank(to)
           /\ j = Made[req[s].u].job /\ to = Made[req[s].u].to
    BY <1>1, <2>1, LandFacts
  <2>3. jobStatus[j] \in CrewStatuses /\ Rank(to) <= Rank(jobStatus[j])
    BY <1>1, <2>2, LadderFacts DEF LandedOK
  <2>4. Rank(to) \in Nat /\ Rank(jobStatus[j]) \in Nat
    BY <2>3, RankNumbers, StatusFacts
  <2>5. Rank(jobStatus[j]) = Rank(to)
    BY <2>2, <2>3, <2>4
  <2> QED
    BY <2>2, <2>3, <2>5, RankIsStatus
<1>2. Inv /\ LandedOK /\ [Next]_vars =>
        [\A s \in Slots : req[s].at = "write" /\ req'[s].at = "log" /\ req[s].u # NoUpdate
                            => req[s].u \notin landed]_vars
  BY <1>1
<1> QED
  BY <1>2, LandedStays, PTL DEF Spec, LandsOnce

\* A workload proposal, however old, moves only jobs nobody has started on,
\* and none of an incident that is over.
THEOREM ProposalsMoveUnstarted == Spec => OnlyUnstartedMove
<1>1. ASSUME Inv, [Next]_vars, proposal.open, ~proposal'.open, holder' # holder,
             NEW j \in Jobs, holder'[j] # holder[j]
      PROVE  jobStatus[j] = "Acknowledged" /\ incident.status \notin OverStatuses
  <2>1. \A d \in Desks : ~AssignJob(d)
    BY <1>1 DEF AssignJob
  <2>2. ApplyProposal
    BY <1>1, <2>1, JobChanges, LandFacts, ReopenFacts, ReturnFacts, CancelFacts, DeskSteps
       DEF jobRows
  <2>3. StillValid(proposal) /\ holder' = [holder EXCEPT ![proposal.job] = proposal.to]
    BY <2>2 DEF ApplyProposal
  <2>4. j = proposal.job
    BY <1>1, <2>3, InvFacts
  <2> QED
    BY <2>3, <2>4 DEF StillValid, IsMovable
<1>2. Inv /\ [Next]_vars =>
        [proposal.open /\ ~proposal'.open /\ holder' # holder
           => \A j \in Jobs : holder'[j] # holder[j]
                => jobStatus[j] = "Acknowledged" /\ incident.status \notin OverStatuses]_vars
  BY <1>1
<1> QED
  BY <1>2, InvHolds, PTL DEF Spec, OnlyUnstartedMove

-----------------------------------------------------------------------------
(* One decision of the control room at a time *)

AtAssign(d) == desk[d].at \in {"assign", "move"}

OneDesk ==
  \A d, e \in Desks : desk[d].at # "idle" /\ desk[e].at # "idle" => d = e

\* A job handed over goes to another crew.
Handing ==
  \A d \in Desks : AtAssign(d) /\ desk[d].job \in Jobs /\ desk[d].to = "Acknowledged"
                     => holder[desk[d].job] # desk[d].crew

\* One active job, and the one an assign goes for.
OneJob ==
  /\ \A i, j \in ActiveJobs : i = j
  /\ \A d \in Desks : AtAssign(d) => ActiveJobs \subseteq {desk[d].job}

OneDecision == ~overlap => OneDesk /\ Handing /\ (~revived => OneJob)

\* A step of the control room on one desk.
LEMMA BeginsFacts ==
  ASSUME Inv, NEW d \in Desks, Begins(d)
  PROVE  /\ overlap' = (overlap \/ Busy)
         /\ \A e \in Desks \ {d} : desk'[e] = desk[e]
         /\ desk'[d].at # "cancelling"
         /\ AtAssign(d)' => \E c \in Crews : \E j \in Targets(c) :
              /\ desk'[d].job = j /\ desk'[d].crew = c
              /\ desk'[d].to = "Acknowledged" /\ j \in Jobs => Started(j)
<1>0. Sound
  BY DEF Inv
<1>1. overlap' = (overlap \/ Busy)
  BY DEF Begins, AssignRead, ReturnRead, StatusRead, Take
<1>2. ASSUME NEW c \in Crews, AssignRead(d, c)
      PROVE  /\ desk'[d].at # "cancelling" /\ \A e \in Desks \ {d} : desk'[e] = desk[e]
             /\ \E j \in Targets(c) :
                  /\ desk'[d].job = j /\ desk'[d].crew = c
                  /\ desk'[d].to = "Acknowledged" /\ j \in Jobs => Started(j)
  <2>1. PICK r : \E j \in Targets(c) :
           /\ GoodOrder(r) /\ Take(d, r)
           /\ r.at = "assign" /\ r.job = j /\ r.crew = c
           /\ (r.to = "Acknowledged" <=> (j \notin Jobs \/ Started(j)))
    BY <1>0, <1>2, AssignReadOrder
  <2>2. desk'[d] = r /\ \A e \in Desks \ {d} : desk'[e] = desk[e]
    BY <1>0, <2>1, TakeSound
  <2> QED
    BY <2>1, <2>2
<1>3. ASSUME (\E j \in Jobs : ReturnRead(d, j)) \/ StatusRead(d)
      PROVE  /\ desk'[d].at # "cancelling" /\ \A e \in Desks \ {d} : desk'[e] = desk[e]
             /\ ~AtAssign(d)'
  <2>1. PICK r : GoodOrder(r) /\ Take(d, r) /\ r.at \in {"return", "status"}
    BY <1>0, <1>3, ReturnReadOrder, StatusReadOrder
  <2>2. desk'[d] = r /\ \A e \in Desks \ {d} : desk'[e] = desk[e]
    BY <1>0, <2>1, TakeSound
  <2> QED
    BY <2>1, <2>2 DEF AtAssign
<1> QED
  BY <1>1, <1>2, <1>3 DEF Begins

LEMMA GoesOnFacts ==
  ASSUME Inv, NEW d \in Desks, GoesOn(d)
  PROVE  /\ desk[d].at # "idle" /\ UNCHANGED overlap
         /\ \A e \in Desks \ {d} : desk'[e] = desk[e]
         /\ AtAssign(d)' => /\ AtAssign(d) /\ desk'[d].job = desk[d].job
                            /\ desk'[d].crew = desk[d].crew /\ desk'[d].to = desk[d].to
         /\ desk'[d].at = "cancelling" => desk'[d].list = ActiveJobs
<1>0. GoodOrder(desk[d]) /\ desk[d] \in Orders /\ desk \in [Desks -> Orders] /\ GoodOrders
  BY DEF Inv, Sound, TablesOK, GoodOrders, GoodOrder
<1>1. desk[d].at # "idle" /\ UNCHANGED overlap
  BY DEF GoesOn, AssignIncident, ReturnIncident, StatusWrite, CancelJobs, CutDesk, history
<1>2. \E r \in Orders :
        /\ SetDesk(d, r) /\ (r.at = "cancelling" => r.list = ActiveJobs)
        /\ r.at \in {"assign", "move"} =>
             /\ desk[d].at = "assign" /\ r.job = desk[d].job
             /\ r.crew = desk[d].crew /\ r.to = desk[d].to
  <2>1. CASE SetDesk(d, Idle)
    BY <2>1, IdleOrder
  <2>2. CASE AssignIncident(d)
    <3>1. PICK r : r = [desk[d] EXCEPT !.at = "move"]
      OBVIOUS
    <3>2. r \in Orders /\ r.at = "move" /\ r.job = desk[d].job /\ r.crew = desk[d].crew /\ r.to = desk[d].to
      BY <1>0, <3>1, OrderGoesOn
    <3> QED
      BY <2>2, <3>1, <3>2 DEF AssignIncident
  <2>3. CASE SetDesk(d, [desk[d] EXCEPT !.at = "cancel"])
    <3>1. PICK r : r = [desk[d] EXCEPT !.at = "cancel"]
      OBVIOUS
    <3>2. r \in Orders /\ r.at = "cancel"
      BY <1>0, <3>1, OrderGoesOn
    <3> QED
      BY <2>3, <3>1, <3>2
  <2>4. CASE SetDesk(d, [desk[d] EXCEPT !.at = "cancelling", !.list = ActiveJobs])
    <3>0. PICK list \in SUBSET Jobs : list = ActiveJobs
      BY DEF ActiveJobs
    <3>1. PICK r : r = [desk[d] EXCEPT !.at = "cancelling", !.list = list]
      OBVIOUS
    <3>2. r \in Orders /\ r.at = "cancelling"
      BY <1>0, <3>1, OrderGoesOn
    <3>3. r.list = list
      BY <1>0, <3>1, OrderList
    <3> QED
      BY <2>4, <3>0, <3>1, <3>2, <3>3
  <2> QED
    BY <2>1, <2>2, <2>3, <2>4 DEF GoesOn, ReturnIncident, StatusWrite, CancelJobs, CutDesk
<1>3. PICK r \in Orders :
        /\ SetDesk(d, r) /\ (r.at = "cancelling" => r.list = ActiveJobs)
        /\ r.at \in {"assign", "move"} =>
             /\ desk[d].at = "assign" /\ r.job = desk[d].job
             /\ r.crew = desk[d].crew /\ r.to = desk[d].to
  BY <1>2
<1>4. desk'[d] = r /\ \A e \in Desks \ {d} : desk'[e] = desk[e]
  BY <1>0, <1>3, SetDeskTypes
<1> QED
  BY <1>1, <1>3, <1>4 DEF AtAssign

LEMMA ActiveAfter ==
  ASSUME jobStatus \in [Jobs -> JobStatuses], NEW j \in Jobs, NEW st,
         jobStatus' = [jobStatus EXCEPT ![j] = st]
  PROVE  /\ ActiveJobs' \subseteq ActiveJobs \cup {j}
         /\ ~IsActive(st) => ActiveJobs' \subseteq ActiveJobs
<1>1. jobStatus'[j] = st /\ \A i \in Jobs \ {j} : jobStatus'[i] = jobStatus[i]
  OBVIOUS
<1>2. ActiveJobs' = {i \in Jobs : IsActive(jobStatus'[i])}
  BY DEF ActiveJobs, IsActive
<1> QED
  BY <1>1, <1>2 DEF ActiveJobs

\* A step that starts no order and makes no job active.
LEMMA DecisionKept ==
  ASSUME OneDecision, UNCHANGED <<overlap, holder>>, revived => revived',
         \A d \in Desks : desk'[d].at # "idle" => desk[d].at # "idle",
         \A d \in Desks : AtAssign(d)' =>
           /\ AtAssign(d) /\ desk'[d].job = desk[d].job
           /\ desk'[d].crew = desk[d].crew /\ desk'[d].to = desk[d].to,
         ActiveJobs' \subseteq ActiveJobs
  PROVE  OneDecision'
<1> SUFFICES ASSUME ~overlap'
             PROVE  (OneDesk /\ Handing /\ (~revived => OneJob))'
  BY DEF OneDecision
<1>1. OneDesk /\ Handing /\ (~revived => OneJob)
  BY DEF OneDecision
<1>2. OneDesk'
  BY <1>1 DEF OneDesk
<1>3. Handing'
  <2>1. ASSUME NEW d \in Desks, AtAssign(d)', desk'[d].job \in Jobs, desk'[d].to = "Acknowledged"
        PROVE  holder'[desk'[d].job] # desk'[d].crew
    <3>1. AtAssign(d) /\ desk[d].job \in Jobs /\ desk[d].to = "Acknowledged"
      BY <2>1
    <3>2. holder[desk[d].job] # desk[d].crew
      BY <1>1, <3>1 DEF Handing
    <3> QED
      BY <2>1, <3>2
  <2> QED
    BY <2>1 DEF Handing
<1>4. ASSUME ~revived'
      PROVE  OneJob'
  <2>1. OneJob
    BY <1>1, <1>4
  <2>2. ASSUME NEW d \in Desks, AtAssign(d)'
        PROVE  ActiveJobs' \subseteq {desk'[d].job}
    BY <2>1, <2>2 DEF OneJob
  <2> QED
    BY <2>1, <2>2 DEF OneJob
<1> QED
  BY <1>2, <1>3, <1>4

\* A finished job that comes back.
LEMMA DecisionComesBack ==
  ASSUME Inv, OneDecision, UNCHANGED <<overlap, holder>>, NEW j \in Jobs, NEW st, ComesBack(j),
         jobStatus' = [jobStatus EXCEPT ![j] = st],
         \A d \in Desks : desk'[d].at # "idle" => desk[d].at # "idle",
         \A d \in Desks : AtAssign(d)' => AtAssign(d) /\ desk'[d] = desk[d]
  PROVE  OneDecision'
<1> SUFFICES ASSUME ~overlap'
             PROVE  (OneDesk /\ Handing /\ (~revived => OneJob))'
  BY DEF OneDecision
<1>1. OneDesk /\ Handing
  BY DEF OneDecision
<1>2. OneDesk'
  BY <1>1 DEF OneDesk
<1>3. Handing'
  <2>1. ASSUME NEW d \in Desks, AtAssign(d)', desk'[d].job \in Jobs, desk'[d].to = "Acknowledged"
        PROVE  holder'[desk'[d].job] # desk'[d].crew
    <3>1. AtAssign(d) /\ desk[d].job \in Jobs /\ desk[d].to = "Acknowledged"
      BY <2>1
    <3>2. holder[desk[d].job] # desk[d].crew
      BY <1>1, <3>1 DEF Handing
    <3> QED
      BY <2>1, <3>2
  <2> QED
    BY <2>1 DEF Handing
<1>4. ASSUME ~revived'
      PROVE  OneJob'
  <2>1. ActiveJobs \ {j} = {} /\ \A d \in Desks : ~AtAssign(d)
    BY <1>4 DEF ComesBack, AtAssign
  <2>2. ActiveJobs' \subseteq {j}
    BY <2>1, InvFacts, ActiveAfter
  <2> QED
    BY <2>1, <2>2 DEF OneJob
<1> QED
  BY <1>2, <1>3, <1>4

LEMMA TargetHolders ==
  ASSUME NEW c \in Crews, NEW j \in Targets(c)
  PROVE  /\ j = 0 => ActiveJobs = {}
         /\ j # 0 => j \in ActiveJobs
         /\ j \in Jobs /\ Started(j) => holder[j] # c
<1>1. 0 \notin Jobs /\ ActiveJobs \subseteq Jobs
  BY JobsAssumption DEF ActiveJobs
<1> QED
  BY <1>1 DEF Targets

LEMMA OneDecisionStep ==
  ASSUME Inv, OneDecision, [Next]_vars
  PROVE  OneDecision'
<1>0. /\ jobStatus \in [Jobs -> JobStatuses] /\ desk \in [Desks -> Orders]
      /\ Idle.at = "idle" /\ ~IsActive("Work Complete") /\ ~IsActive("Cancelled")
      /\ 0 \notin Jobs
  BY InvFacts, IdleOrder, JobsAssumption DEF IsActive
<1>1. ASSUME NEW s \in Slots, Land(s)
      PROVE  OneDecision'
  <2>1. PICK j \in Jobs, to \in CrewStatuses :
           /\ jobStatus[j] # to
           /\ OnLadder(jobStatus[j]) /\ Rank(jobStatus[j]) <= Rank(to)
           /\ jobStatus' = [jobStatus EXCEPT ![j] = to]
           /\ UNCHANGED <<holder, desk, overlap, revived>>
    BY <1>1, LandFacts
  <2>2. jobStatus[j] # "Work Complete"
    <3>1. SUFFICES ASSUME jobStatus[j] = "Work Complete"
                   PROVE  FALSE
      OBVIOUS
    <3>2. Rank(to) \in 0 .. 4 /\ (Rank(to) = 4 => to = "Work Complete")
      BY RankFacts, StatusFacts, Zenon
    <3>3. 4 <= Rank(to)
      <4>1. Rank(jobStatus[j]) = 4
        BY <3>1, RankValues, Zenon
      <4>2. Rank(jobStatus[j]) <= Rank(to)
        BY <2>1
      <4> QED
        BY <4>1, <4>2, Zenon
    <3>4. Rank(to) = 4
      <4> DEFINE r == Rank(to)
      <4>1. r \in 0 .. 4 /\ 4 <= r
        BY <3>2, <3>3, Zenon
      <4> HIDE DEF r
      <4>2. r = 4
        BY <4>1, SMT
      <4> QED
        BY <4>2, Zenon DEF r
    <3> QED
      BY <2>1, <3>1, <3>2, <3>4, Zenon
  <2>3. j \in ActiveJobs
    BY <2>1, <2>2, LadderFacts DEF ActiveJobs, IsActive
  <2>4. ActiveJobs' \subseteq ActiveJobs
    BY <1>0, <2>1, <2>3, ActiveAfter
  <2> QED
    BY <2>1, <2>4, DecisionKept DEF AtAssign
<1>2. ASSUME NEW s \in Slots, Reopen(s)
      PROVE  OneDecision'
  <2>1. CASE UNCHANGED <<jobRows, desk, overlap, revived, undo>>
    BY <2>1, DecisionKept DEF AtAssign, jobRows, ActiveJobs, IsActive
  <2>2. CASE \E j \in Jobs :
               /\ jobStatus' = [jobStatus EXCEPT ![j] = "Work Started"] /\ ComesBack(j)
               /\ UNCHANGED <<holder, desk, overlap>>
    BY <2>2, DecisionComesBack DEF AtAssign
  <2> QED
    BY <1>2, <2>1, <2>2, ReopenFacts
<1>3. ASSUME NEW d \in Desks, ReturnJob(d)
      PROVE  OneDecision'
  <2>1. /\ \A e \in Desks : desk'[e].at # "idle" => desk[e].at # "idle"
        /\ \A e \in Desks : AtAssign(e)' => AtAssign(e) /\ desk'[e] = desk[e]
        /\ UNCHANGED <<holder, overlap>>
    BY <1>3, ReturnFacts DEF AtAssign
  <2>2. CASE UNCHANGED <<jobRows, revived>>
    BY <2>1, <2>2, DecisionKept DEF jobRows, ActiveJobs, IsActive
  <2>3. CASE \E j \in Jobs :
               jobStatus' = [jobStatus EXCEPT ![j] = "Requires Revisit"] /\ ComesBack(j)
    BY <2>1, <2>3, DecisionComesBack
  <2> QED
    BY <1>3, <2>2, <2>3, ReturnFacts
<1>4. ASSUME NEW d \in Desks, CancelJob(d)
      PROVE  OneDecision'
  <2>1. PICK j \in Jobs :
           /\ jobStatus' = [jobStatus EXCEPT ![j] = "Cancelled"]
           /\ desk[d].at = "cancelling" /\ desk'[d].at \in {"cancelling", "idle"}
           /\ \A e \in Desks \ {d} : desk'[e] = desk[e]
           /\ UNCHANGED <<holder, overlap, revived>>
    BY <1>4, CancelFacts
  <2>2. ActiveJobs' \subseteq ActiveJobs
    BY <1>0, <2>1, ActiveAfter
  <2>3. /\ \A e \in Desks : desk'[e].at # "idle" => desk[e].at # "idle"
        /\ \A e \in Desks : AtAssign(e)' => AtAssign(e) /\ desk'[e] = desk[e]
    BY <2>1 DEF AtAssign
  <2> QED
    BY <2>1, <2>2, <2>3, DecisionKept
<1>5. ASSUME NEW d \in Desks, GoesOn(d)
      PROVE  OneDecision'
  <2>1. /\ \A e \in Desks : desk'[e].at # "idle" => desk[e].at # "idle"
        /\ \A e \in Desks : AtAssign(e)' =>
             /\ AtAssign(e) /\ desk'[e].job = desk[e].job
             /\ desk'[e].crew = desk[e].crew /\ desk'[e].to = desk[e].to
        /\ UNCHANGED overlap
    BY <1>5, GoesOnFacts DEF AtAssign
  <2> QED
    BY <1>5, <2>1, DeskSteps, DecisionKept DEF jobRows, ActiveJobs, IsActive
<1>6. ASSUME UNCHANGED <<jobRows, desk, overlap, revived>>
      PROVE  OneDecision'
  BY <1>6, DecisionKept DEF jobRows, AtAssign, ActiveJobs, IsActive
<1>7. ASSUME NEW d \in Desks, AssignJob(d)
      PROVE  OneDecision'
  <2> SUFFICES ASSUME ~overlap'
               PROVE  (OneDesk /\ Handing /\ (~revived => OneJob))'
    BY DEF OneDecision
  <2>1. PICK j \in Jobs :
           /\ desk[d].at = "move"
           /\ \/ desk[d].job = 0 /\ jobStatus[j] = "none"
              \/ desk[d].job = j
           /\ \/ UNCHANGED jobStatus /\ desk[d].job = j
              \/ jobStatus' = [jobStatus EXCEPT ![j] = "Acknowledged"]
           /\ desk'[d] = Idle /\ \A e \in Desks \ {d} : desk'[e] = desk[e]
           /\ UNCHANGED <<overlap, revived>>
    BY <1>7, AssignFacts
  <2>2. OneDesk /\ (~revived => OneJob)
    BY <2>1 DEF OneDecision
  <2>3. \A e \in Desks : desk'[e].at = "idle"
    BY <1>0, <2>1, <2>2 DEF OneDesk
  <2>4. \A e \in Desks : ~AtAssign(e)'
    BY <2>3 DEF AtAssign
  <2>5. ASSUME ~revived'
        PROVE  OneJob'
    <3>1. ActiveJobs \subseteq {desk[d].job} /\ ActiveJobs \subseteq Jobs
      BY <2>1, <2>2, <2>5 DEF OneJob, AtAssign, ActiveJobs
    <3>2. ActiveJobs \subseteq {j}
      BY <1>0, <2>1, <3>1
    <3>3. ActiveJobs' \subseteq {j}
      <4>1. CASE UNCHANGED jobStatus
        BY <3>2, <4>1 DEF ActiveJobs, IsActive
      <4>2. CASE jobStatus' = [jobStatus EXCEPT ![j] = "Acknowledged"]
        BY <1>0, <3>2, <4>2, ActiveAfter
      <4> QED
        BY <2>1, <4>1, <4>2
    <3> QED
      BY <2>4, <3>3 DEF OneJob
  <2> QED
    BY <2>3, <2>4, <2>5 DEF OneDesk, Handing
<1>8. ASSUME NEW d \in Desks, Begins(d)
      PROVE  OneDecision'
  <2> SUFFICES ASSUME ~overlap'
               PROVE  (OneDesk /\ Handing /\ (~revived => OneJob))'
    BY DEF OneDecision
  <2>1. ~overlap /\ \A e \in Desks : desk[e].at = "idle"
    BY <1>8, BeginsFacts DEF Busy
  <2>2. \A e \in Desks \ {d} : desk'[e].at = "idle" /\ ~AtAssign(e)'
    BY <1>8, <2>1, BeginsFacts DEF AtAssign
  <2>3. UNCHANGED <<jobStatus, holder, revived>> /\ ActiveJobs' = ActiveJobs
    BY <1>8, DeskSteps DEF jobRows, ActiveJobs, IsActive
  <2>4. CASE ~AtAssign(d)'
    BY <2>1, <2>2, <2>3, <2>4 DEF OneDecision, OneDesk, Handing, OneJob
  <2>5. CASE AtAssign(d)'
    <3>0. PICK c \in Crews : \E j \in Targets(c) :
            /\ desk'[d].job = j /\ desk'[d].crew = c
            /\ desk'[d].to = "Acknowledged" /\ j \in Jobs => Started(j)
      BY <1>8, <2>5, BeginsFacts
    <3>1. PICK j \in Targets(c) :
            /\ desk'[d].job = j /\ desk'[d].crew = c
            /\ desk'[d].to = "Acknowledged" /\ j \in Jobs => Started(j)
      BY <3>0
    <3>2. OneDesk'
      BY <2>2 DEF OneDesk
    <3>3. Handing'
      <4>1. ASSUME desk'[d].job \in Jobs, desk'[d].to = "Acknowledged"
            PROVE  holder'[desk'[d].job] # desk'[d].crew
        BY <2>3, <3>1, <4>1, TargetHolders
      <4> QED
        BY <2>2, <4>1 DEF Handing
    <3>4. ASSUME ~revived'
          PROVE  OneJob'
      <4>1. \A i, k \in ActiveJobs : i = k
        BY <2>1, <2>3, <3>4 DEF OneDecision, OneJob
      <4>2. ActiveJobs \subseteq {j}
        BY <3>1, <4>1, TargetHolders
      <4> QED
        BY <2>2, <2>3, <3>1, <4>1, <4>2 DEF OneJob
    <3> QED
      BY <3>2, <3>3, <3>4
  <2> QED
    BY <2>4, <2>5
<1>9. CASE ApplyProposal
  <2> SUFFICES ASSUME ~overlap'
               PROVE  (OneDesk /\ Handing /\ (~revived => OneJob))'
    BY DEF OneDecision
  <2>1. /\ ~overlap /\ \A e \in Desks : desk[e].at = "idle"
        /\ UNCHANGED <<desk, jobStatus, revived>>
    BY <1>9 DEF ApplyProposal, Busy
  <2>2. \A e \in Desks : desk'[e].at = "idle" /\ ~AtAssign(e)'
    BY <2>1 DEF AtAssign
  <2>3. ActiveJobs' = ActiveJobs
    BY <2>1 DEF ActiveJobs, IsActive
  <2>4. ~revived => OneJob
    BY <2>1 DEF OneDecision
  <2> QED
    BY <2>1, <2>2, <2>3, <2>4 DEF OneDesk, Handing, OneJob
<1> QED
  BY <1>1, <1>2, <1>3, <1>4, <1>5, <1>6, <1>7, <1>8, <1>9, JobChanges

LEMMA DecisionsHold == Spec => [](Inv /\ OneDecision)
<1>1. Init => Inv /\ OneDecision
  <2> SUFFICES ASSUME Init
               PROVE  OneDecision
    BY InvStart
  <2>1. jobStatus = [j \in Jobs |-> IF j = FirstJob THEN "Acknowledged" ELSE "none"]
    BY DEF Init, InitServer
  <2>2. ActiveJobs \subseteq {FirstJob}
    BY <2>1 DEF ActiveJobs, IsActive
  <2>3. \A d \in Desks : desk[d].at = "idle" /\ ~AtAssign(d)
    BY IdleOrder DEF Init, InitServer, AtAssign
  <2> QED
    BY <2>2, <2>3 DEF OneDecision, OneDesk, Handing, OneJob
<1>2. Inv /\ OneDecision /\ [Next]_vars => (Inv /\ OneDecision)'
  BY InvStep, OneDecisionStep
<1> QED
  BY <1>1, <1>2, PTL DEF Spec

\* "One active job per incident", unless two decisions of the control room
\* overlapped or a finished job came back beside another one.
THEOREM OneActiveJobHolds == Spec => []OneActiveJob
<1>1. ASSUME OneDecision
      PROVE  OneActiveJob
  <2> SUFFICES ASSUME ~overlap, ~revived
               PROVE  ~(Cardinality(ActiveJobs) > 1)
    BY DEF OneActiveJob
  <2>1. \A i, j \in ActiveJobs : i = j
    BY <1>1 DEF OneDecision, OneJob
  <2>2. CASE ActiveJobs = {}
    <3>1. Cardinality(ActiveJobs) = 0
      BY <2>2, FS_EmptySet
    <3> QED
      BY <3>1
  <2>3. CASE ActiveJobs # {}
    <3>1. PICK j : ActiveJobs = {j}
      BY <2>1, <2>3
    <3>2. Cardinality(ActiveJobs) = 1
      BY <3>1, FS_Singleton
    <3> QED
      BY <3>2
  <2> QED
    BY <2>2, <2>3
<1> QED
  BY <1>1, DecisionsHold, PTL

\* While a job stays with its crew it goes down the ladder only by being undone
\* or returned, unless two decisions of the control room overlap.
THEOREM JobsNeverGoBack == Spec => NeverBack
<1>1. ASSUME Inv, OneDecision, [Next]_vars, NEW j \in Jobs, holder'[j] = holder[j], ~overlap,
             OnLadder(jobStatus[j]), OnLadder(jobStatus'[j]),
             Rank(jobStatus'[j]) < Rank(jobStatus[j])
      PROVE  jobStatus[j] = "Work Complete" /\ j \notin undo'
  <2>0. /\ jobStatus \in [Jobs -> JobStatuses] /\ Rank(jobStatus[j]) \in Nat
        /\ holder \in [Jobs -> Crews \cup {NoCrew}]
    BY <1>1, InvFacts, RankNumbers
  <2>1. jobStatus'[j] # jobStatus[j]
    <3> DEFINE was == Rank(jobStatus[j])
               is == Rank(jobStatus'[j])
    <3>1. was \in Nat /\ is < was
      BY <1>1, <2>0
    <3>2. jobStatus'[j] = jobStatus[j] => is = was
      BY Zenon
    <3> HIDE DEF was, is
    <3>3. is # was
      BY <3>1
    <3> QED
      BY <3>2, <3>3
  <2>2. ASSUME NEW i \in Jobs, NEW st, jobStatus' = [jobStatus EXCEPT ![i] = st]
        PROVE  i = j /\ st = jobStatus'[j]
    BY <2>0, <2>1, <2>2
  <2>3. ASSUME NEW s \in Slots, Land(s)
        PROVE  FALSE
    <3>1. PICK i \in Jobs, to \in CrewStatuses :
            /\ Rank(jobStatus[i]) <= Rank(to)
            /\ jobStatus' = [jobStatus EXCEPT ![i] = to]
      BY <1>1, <2>3, LandFacts
    <3>2. i = j /\ to = jobStatus'[j]
      BY <2>2, <3>1
    <3>3. Rank(jobStatus'[j]) \in Nat /\ Rank(jobStatus[j]) <= Rank(jobStatus'[j])
      BY <3>1, <3>2, RankNumbers, StatusFacts
    <3> QED
      BY <1>1, <2>0, <3>3
  <2>4. ASSUME NEW i \in Jobs, NEW st, jobStatus[i] = "Work Complete", undo' = undo \ {i},
               jobStatus' = [jobStatus EXCEPT ![i] = st]
        PROVE  jobStatus[j] = "Work Complete" /\ j \notin undo'
    BY <2>2, <2>4
  <2>5. ASSUME NEW s \in Slots, Reopen(s)
        PROVE  jobStatus[j] = "Work Complete" /\ j \notin undo'
    BY <1>1, <2>1, <2>4, <2>5, ReopenFacts DEF jobRows
  <2>6. ASSUME NEW d \in Desks, ReturnJob(d)
        PROVE  jobStatus[j] = "Work Complete" /\ j \notin undo'
    BY <1>1, <2>1, <2>4, <2>6, ReturnFacts DEF jobRows
  <2>7. ASSUME NEW d \in Desks, CancelJob(d)
        PROVE  FALSE
    <3>1. PICK i \in Jobs : jobStatus' = [jobStatus EXCEPT ![i] = "Cancelled"]
      BY <1>1, <2>7, CancelFacts
    <3>2. jobStatus'[j] = "Cancelled"
      BY <2>2, <3>1
    <3> QED
      BY <1>1, <3>2, LadderFacts, Zenon
  <2>8. ASSUME NEW d \in Desks, AssignJob(d)
        PROVE  FALSE
    <3>1. PICK i \in Jobs :
            /\ desk[d].at = "move"
            /\ \/ desk[d].job = 0 /\ jobStatus[i] = "none"
               \/ desk[d].job = i
            /\ holder' = [holder EXCEPT ![i] = desk[d].crew]
            /\ \/ UNCHANGED jobStatus
               \/ /\ desk[d].to = "Acknowledged"
                  /\ jobStatus' = [jobStatus EXCEPT ![i] = "Acknowledged"]
      BY <1>1, <2>8, AssignFacts
    <3>2. i = j /\ desk[d].to = "Acknowledged"
      BY <2>1, <2>2, <3>1
    <3>3. desk[d].job = j
      BY <1>1, <3>1, <3>2, LadderFacts
    <3>4. holder[j] # desk[d].crew
      BY <1>1, <3>1, <3>2, <3>3 DEF OneDecision, Handing, AtAssign
    <3>5. holder'[j] = desk[d].crew
      BY <2>0, <3>1, <3>2
    <3> QED
      BY <1>1, <3>4, <3>5
  <2>9. ASSUME NEW d \in Desks, Begins(d) \/ GoesOn(d)
        PROVE  FALSE
    BY <2>1, <2>9, DeskSteps DEF jobRows
  <2>10. ASSUME ApplyProposal
         PROVE  FALSE
    BY <2>1, <2>10 DEF ApplyProposal
  <2> QED
    BY <1>1, <2>1, <2>3, <2>5, <2>6, <2>7, <2>8, <2>9, <2>10, JobChanges DEF jobRows
<1>2. Inv /\ OneDecision /\ [Next]_vars =>
        [\A j \in Jobs :
           /\ holder'[j] = holder[j] /\ ~overlap
           /\ OnLadder(jobStatus[j]) /\ OnLadder(jobStatus'[j])
           /\ Rank(jobStatus'[j]) < Rank(jobStatus[j])
           => jobStatus[j] = "Work Complete" /\ j \notin undo']_vars
  BY <1>1
<1> QED
  BY <1>2, DecisionsHold, PTL DEF Spec, NeverBack

-----------------------------------------------------------------------------
(* A finished job is reported to its incident *)

Reporting(s) == req[s].at \in {"log", "progress"} /\ req[s].to = "Work Complete"

Awaiting == incident.status \in OverStatuses \cup {"pending"}

\* The handler that finished a job has not yet told the incident, or it has.
Reported == Finished # {} /\ ~unsure => Awaiting \/ \E s \in Slots : Reporting(s)

LEMMA StaysReported ==
  ASSUME Reported, Finished' \subseteq Finished, unsure => unsure', Awaiting => Awaiting',
         \A s \in Slots : Reporting(s) => Reporting(s)'
  PROVE  Reported'
BY DEF Reported

\* A step of one request leaves the others alone.
LEMMA OnlySlot ==
  ASSUME req \in [Slots -> Requests], NEW s \in Slots,
         \/ Handle(s) \/ Online(s) \/ Cut(s) \/ Forget(s)
         \/ \E u, ts : Arrive(s, u, ts)
  PROVE  \A t \in Slots \ {s} : req'[t] = req[t]
<1>1. (\E r : SetReq(s, r)) => \A t \in Slots \ {s} : req'[t] = req[t]
  BY DEF SetReq
<1>2. \A a : Answer(s, a) => \E r : SetReq(s, r)
  BY DEF Answer
<1>3. \A n : Decide(s, n) => \E r : SetReq(s, r)
  BY <1>2 DEF Decide
<1>4. Receive(s) => \E r : SetReq(s, r)
  BY <1>2, <1>3 DEF Receive
<1>5. Miss(s) => \E r : SetReq(s, r)
  <2> SUFFICES ASSUME Miss(s)
               PROVE  \E r : SetReq(s, r)
    OBVIOUS
  <2>1. \/ Answer(s, "notyours") \/ Answer(s, "error") \/ Decide(s, req[s].tries + 1)
    BY DEF Miss
  <2> QED
    BY <1>2, <1>3, <2>1
<1>6. Land(s) \/ Log(s) \/ Progress(s) \/ InsertForm(s) \/ Reopen(s) => \E r : SetReq(s, r)
  BY <1>2 DEF Land, Log, Progress, InsertForm, Reopen
<1>7. Online(s) \/ Cut(s) \/ Forget(s) \/ (\E u, ts : Arrive(s, u, ts)) => \E r : SetReq(s, r)
  BY <1>2 DEF Online, OnBehalf, AskReopen, Cut, Forget, Arrive
<1> QED
  BY <1>1, <1>4, <1>5, <1>6, <1>7 DEF Handle

\* A request that is not at its last two statements reports nothing.
LEMMA QuietSlot ==
  ASSUME Inv, Reported, NEW s \in Slots, req[s].at \notin {"log", "progress"},
         \A t \in Slots \ {s} : req'[t] = req[t],
         Finished' \subseteq Finished, UNCHANGED <<incident, unsure>>
  PROVE  Reported'
<1>1. ~Reporting(s)
  BY DEF Reporting
<1>2. \A t \in Slots : Reporting(t) => Reporting(t)'
  BY <1>1 DEF Reporting
<1> QED
  BY <1>2, StaysReported DEF Awaiting

LEMMA SlotReports ==
  ASSUME Inv, Reported, NEW s \in Slots,
         \/ Handle(s) \/ Online(s) \/ Cut(s) \/ Forget(s)
         \/ \E u, ts : Arrive(s, u, ts)
  PROVE  Reported'
<1>0. req \in [Slots -> Requests] /\ jobStatus \in [Jobs -> JobStatuses] /\ incident \in [status : IncidentStatuses, crew : Crews \cup {NoCrew}]
  BY DEF Inv, Sound, TablesOK
<1>1. \A t \in Slots \ {s} : req'[t] = req[t]
  BY <1>0, OnlySlot
<1>2. CASE Receive(s) \/ Miss(s) \/ InsertForm(s) \/ Online(s) \/ Forget(s) \/ \E u, ts : Arrive(s, u, ts)
  <2>1. UNCHANGED <<jobStatus, incident, unsure>> /\ req[s].at \notin {"log", "progress"}
    BY <1>2 DEF Receive, Miss, InsertForm, Online, OnBehalf, AskReopen, Forget, Arrive, NextSlot, jobVars, history
  <2>2. Finished' = Finished
    BY <2>1 DEF Finished
  <2> QED
    BY <1>1, <2>1, <2>2, QuietSlot
<1>3. CASE Land(s)
  <2>1. /\ req[s].at = "write" /\ UNCHANGED <<incident, unsure>>
        /\ req'[s].at = "log" /\ req'[s].to = req[s].to
    BY <1>0, <1>3 DEF Land, SetReq, Requests
  <2>2. PICK j \in Jobs : jobStatus' = [jobStatus EXCEPT ![j] = req[s].to]
    BY <1>3, LandFacts
  <2>3. CASE req[s].to = "Work Complete"
    BY <2>1, <2>3 DEF Reported, Reporting
  <2>4. CASE req[s].to # "Work Complete"
    <3>1. Finished' \subseteq Finished
      BY <1>0, <2>2, <2>4 DEF Finished
    <3> QED
      BY <1>1, <2>1, <3>1, QuietSlot
  <2> QED
    BY <2>3, <2>4
<1>4. CASE Log(s)
  <2>0. req[s].at = "log" /\ UNCHANGED <<jobStatus, incident, unsure>>
    BY <1>4 DEF Log, history
  <2>1. req[s].to = "Work Complete" => req'[s].at = "progress" /\ req'[s].to = "Work Complete"
    <3> SUFFICES ASSUME req[s].to = "Work Complete"
                 PROVE  req'[s].at = "progress" /\ req'[s].to = "Work Complete"
      OBVIOUS
    <3>1. SetReq(s, [Free EXCEPT !.at = "progress", !.u = req[s].u, !.to = req[s].to])
      BY <1>4 DEF Log
    <3> QED
      BY <1>0, <3>1 DEF SetReq, Free
  <2>2. \A t \in Slots : Reporting(t) => Reporting(t)'
    BY <1>1, <2>0, <2>1 DEF Reporting
  <2>3. Finished' = Finished
    BY <2>0 DEF Finished
  <2> QED
    BY <2>0, <2>2, <2>3, StaysReported DEF Awaiting
<1>5. CASE Progress(s)
  <2>1. Finished' = Finished
    BY <1>5 DEF Progress, Finished, jobVars
  <2>2. CASE req[s].to = "Work Complete"
    <3>1. incident'.status = "pending"
      BY <1>0, <1>5, <2>2 DEF Progress, Implied
    <3> QED
      BY <3>1 DEF Reported, Awaiting
  <2>3. CASE req[s].to # "Work Complete"
    <3>1. Finished # {} => unsure'
      BY <1>5, <2>3 DEF Progress, Implied, Overwrites
    <3> QED
      BY <2>1, <3>1 DEF Reported
  <2> QED
    BY <2>2, <2>3
<1>6. CASE Reopen(s)
  <2>1. req[s].at = "undo" /\ UNCHANGED <<incident, unsure>>
    BY <1>6 DEF Reopen
  <2>2. Finished' \subseteq Finished
    BY <1>0, <1>6 DEF Reopen, Finished
  <2> QED
    BY <1>1, <2>1, <2>2, QuietSlot
<1>7. CASE Cut(s)
  <2>1. UNCHANGED <<jobStatus, incident>> /\ unsure' = (unsure \/ req[s].at \in {"log", "progress"})
    BY <1>7 DEF Cut, jobVars
  <2>2. Finished' = Finished
    BY <2>1 DEF Finished
  <2>3. CASE req[s].at \in {"log", "progress"}
    BY <2>1, <2>3 DEF Reported
  <2>4. CASE req[s].at \notin {"log", "progress"}
    <3>1. UNCHANGED unsure
      BY <2>1, <2>4 DEF Inv, Sound, FlagsOK
    <3> QED
      BY <1>1, <2>1, <2>2, <2>4, <3>1, QuietSlot
  <2> QED
    BY <2>3, <2>4
<1> QED
  BY <1>2, <1>3, <1>4, <1>5, <1>6, <1>7 DEF Handle

\* What the control room, a proposal or a reclose does: no job is finished by
\* it, and an incident written away from what its job says is unsure.
LEMMA DeskReports ==
  ASSUME Inv, Reported, UNCHANGED req,
         \/ \E d \in Desks : ControlRoom(d)
         \/ Workload \/ Elsewhere
  PROVE  Reported'
<1>0. jobStatus \in [Jobs -> JobStatuses] /\ incident \in [status : IncidentStatuses, crew : Crews \cup {NoCrew}]
  BY DEF Inv, Sound, TablesOK
<1>1. \A s \in Slots : Reporting(s) => Reporting(s)'
  BY DEF Reporting
<1>2. ASSUME NEW d \in Desks, Begins(d) \/ CancelJobs(d) \/ CutDesk(d)
      PROVE  Reported'
  <2>1. UNCHANGED <<jobStatus, incident, unsure>>
    BY <1>2 DEF Begins, AssignRead, ReturnRead, StatusRead, Take, CancelJobs, CutDesk, jobVars, history
  <2> QED
    BY <1>1, <2>1, StaysReported DEF Finished, Awaiting
<1>3. ASSUME NEW d \in Desks, AssignIncident(d)
      PROVE  Reported'
  <2>1. /\ UNCHANGED jobStatus /\ unsure' = (unsure \/ incident.status # desk[d].from)
        /\ incident'.status = IF desk[d].from = "open" THEN "dispatched" ELSE desk[d].from
    BY <1>3 DEF AssignIncident, jobVars
  <2>2. CASE incident.status # desk[d].from
    BY <2>1, <2>2 DEF Reported
  <2>3. CASE incident.status = desk[d].from
    <3>1. Awaiting => Awaiting'
      BY <2>1, <2>3 DEF Awaiting, OverStatuses
    <3> QED
      BY <1>1, <2>1, <3>1, StaysReported DEF Finished
  <2> QED
    BY <2>2, <2>3
<1>4. ASSUME NEW d \in Desks, AssignJob(d)
      PROVE  Reported'
  <2>1. UNCHANGED <<incident, unsure>>
    BY <1>4 DEF AssignJob
  <2>2. PICK i \in Jobs : \/ UNCHANGED jobStatus
                          \/ jobStatus' = [jobStatus EXCEPT ![i] = "Acknowledged"]
    BY <1>4, AssignFacts
  <2>3. Finished' \subseteq Finished
    BY <1>0, <2>2 DEF Finished
  <2> QED
    BY <1>1, <2>1, <2>3, StaysReported DEF Awaiting
<1>5. ASSUME NEW d \in Desks, ReturnJob(d) \/ CancelJob(d)
      PROVE  Reported'
  <2>1. UNCHANGED <<incident, unsure>>
    BY <1>5 DEF ReturnJob, CancelJob, history
  <2>2. CASE ReturnJob(d)
    <3>1. \/ UNCHANGED jobStatus
          \/ \E i \in Jobs : jobStatus' = [jobStatus EXCEPT ![i] = "Requires Revisit"]
      BY <2>2, ReturnFacts DEF jobRows
    <3>2. Finished' \subseteq Finished
      BY <1>0, <3>1 DEF Finished
    <3> QED
      BY <1>1, <2>1, <3>2, StaysReported DEF Awaiting
  <2>3. CASE CancelJob(d)
    <3>1. PICK i \in Jobs : jobStatus' = [jobStatus EXCEPT ![i] = "Cancelled"]
      BY <2>3, CancelFacts
    <3>2. Finished' \subseteq Finished
      BY <1>0, <3>1 DEF Finished
    <3> QED
      BY <1>1, <2>1, <3>2, StaysReported DEF Awaiting
  <2> QED
    BY <1>5, <2>2, <2>3
<1>6. ASSUME NEW d \in Desks, ReturnIncident(d) \/ StatusWrite(d)
      PROVE  Reported'
  <2>1. UNCHANGED jobStatus
    BY <1>6 DEF ReturnIncident, StatusWrite, jobVars
  <2>2. CASE ReturnIncident(d)
    BY <2>1, <2>2 DEF ReturnIncident, Overwrites, Reported, Finished
  <2>3. CASE StatusWrite(d)
    <3>1. unsure' \/ Awaiting'
      BY <1>0, <2>3 DEF StatusWrite, Awaiting
    <3> QED
      BY <3>1 DEF Reported
  <2> QED
    BY <1>6, <2>2, <2>3
<1>7. CASE Workload
  <2>1. UNCHANGED <<jobStatus, unsure>>
    BY <1>7 DEF Workload, Propose, ApplyProposal, CloseProposal, jobVars, history
  <2>2. Awaiting => Awaiting'
    BY <1>0, <1>7 DEF Workload, Propose, ApplyProposal, CloseProposal, Awaiting, OverStatuses
  <2> QED
    BY <1>1, <2>1, <2>2, StaysReported DEF Finished
<1>8. CASE Elsewhere
  <2>1. UNCHANGED <<jobStatus, unsure>>
    BY <1>8 DEF Elsewhere, ScadaRestores, AskReassign, Dismiss, WindowCloses, jobVars, history
  <2>2. Awaiting => Awaiting'
    BY <1>0, <1>8 DEF Elsewhere, ScadaRestores, AskReassign, Dismiss, WindowCloses, Awaiting, OverStatuses
  <2> QED
    BY <1>1, <2>1, <2>2, StaysReported DEF Finished
<1> QED
  BY <1>2, <1>3, <1>4, <1>5, <1>6, <1>7, <1>8 DEF ControlRoom, Begins

LEMMA ReportedStep ==
  ASSUME Inv, Reported, [Next]_vars
  PROVE  Reported'
<1>1. CASE Server
  <2>1. (\E d \in Desks : ControlRoom(d)) \/ Workload \/ Elsewhere => UNCHANGED req
    BY DEF ControlRoom, AssignRead, ReturnRead, StatusRead, Take, AssignIncident, AssignJob, ReturnJob,
       ReturnIncident, StatusWrite, CancelJobs, CancelJob, CutDesk, Workload, Propose, ApplyProposal,
       CloseProposal, Elsewhere, ScadaRestores, AskReassign, Dismiss, WindowCloses
  <2> QED
    BY <1>1, <2>1, SlotReports, DeskReports DEF Server, Serve
<1>2. ASSUME UNCHANGED <<jobStatus, incident, unsure, req>>
      PROVE  Reported'
  BY <1>2 DEF Reported, Finished, Awaiting, Reporting
<1>3. ASSUME NEW p \in Phones, Phone(p)
      PROVE  Reported'
  <2>1. CASE \E s \in Slots : \E u, ts : Arrive(s, u, ts)
    BY <2>1, SlotReports
  <2>2. CASE \E s \in Slots : Forget(s)
    BY <2>2, SlotReports
  <2>3. CASE (\E u \in Taps[p] : TapWaiting(p, u)) \/ DirectTimeout(p) \/ FlushTimeout(p) \/ AppKilled(p)
    BY <1>2, <2>3 DEF TapWaiting, DirectTimeout, FlushTimeout, TimedOut, AppKilled, jobVars, history
  <2>4. CASE DirectBack(p) \/ FlushBack(p)
    <3>0. PhoneOK(p)
      BY <1>3 DEF Inv, PhonesOK
    <3>1. CASE DirectBack(p)
      <4>1. direct[p].slot \in Slots /\ Forget(direct[p].slot)
        BY <3>0, <3>1 DEF DirectBack, PhoneOK, DirectOK, Waits
      <4> QED
        BY <4>1, <2>2
    <3>2. CASE FlushBack(p)
      <4>1. flush[p].slot \in Slots /\ Forget(flush[p].slot)
        BY <3>0, <3>2 DEF FlushBack, PhoneOK, FlushOK, Waits
      <4> QED
        BY <4>1, <2>2
    <3> QED
      BY <2>4, <3>1, <3>2
  <2> QED
    BY <1>3, <2>1, <2>3, <2>4 DEF Phone, TapOnline, SendNext
<1>4. ASSUME NEW s \in Slots, Orphan(s)
      PROVE  Reported'
  BY <1>4, SlotReports DEF Orphan
<1>5. CASE UNCHANGED vars
  BY <1>2, <1>5 DEF vars, serverVars, jobVars, history
<1> QED
  BY <1>1, <1>3, <1>4, <1>5 DEF Next

\* The handler of a Work Complete leaves the incident awaiting verification or
\* over, unless it was cut short or another write fell into it.
THEOREM FinishedJobsAreReported == Spec => []FinishedIsPending
<1>1. Init => Inv /\ Reported
  <2>1. Init => Finished = {}
    BY JobsAssumption DEF Init, InitServer, Finished
  <2> QED
    BY <2>1, InvStart DEF Reported
<1>2. Inv /\ Reported /\ [Next]_vars => (Inv /\ Reported)'
  BY InvStep, ReportedStep
<1>3. Reported => FinishedIsPending
  BY DEF Reported, FinishedIsPending, Reporting, Awaiting
<1> QED
  BY <1>1, <1>2, <1>3, PTL DEF Spec

-----------------------------------------------------------------------------
(* The ledger of the crews' work *)

LEMMA Heights ==
  /\ ~(1 <= 0) /\ ~(2 <= 0) /\ ~(3 <= 0) /\ ~(4 <= 0) /\ ~(2 <= 1) /\ ~(3 <= 1) /\ ~(4 <= 1)
  /\ ~(3 <= 2) /\ ~(4 <= 2) /\ ~(4 <= 3)
OBVIOUS

\* From where an update may go up to a status.
LEMMA UpTheLadder ==
  ASSUME NEW s, NEW to \in CrewStatuses, OnLadder(s), s # to, Rank(s) <= Rank(to)
  PROVE  s \in Ledger!Below(to)
<1>1. s \in {"Requires Revisit", "Acknowledged", "En Route", "On Site", "Work Started",
             "Work Complete"}
  BY DEF OnLadder, CrewStatuses
<1>2. CASE to = "Acknowledged"
  <2>1. Rank(to) = 0
    BY <1>2, RankValues
  <2>2. s = "Requires Revisit"
    BY <1>1, <1>2, <2>1, RankValues, Heights, Zenon
  <2> QED
    BY <1>2, <2>2 DEF Ledger!Below
<1>3. CASE to = "En Route"
  <2>1. Rank(to) = 1
    BY <1>3, RankValues
  <2>2. s \in {"Requires Revisit", "Acknowledged"}
    BY <1>1, <1>3, <2>1, RankValues, Heights, Zenon
  <2> QED
    BY <1>3, <2>2 DEF Ledger!Below
<1>4. CASE to = "On Site"
  <2>1. Rank(to) = 2
    BY <1>4, RankValues
  <2>2. s \in {"Requires Revisit", "Acknowledged", "En Route"}
    BY <1>1, <1>4, <2>1, RankValues, Heights, Zenon
  <2> QED
    BY <1>4, <2>2 DEF Ledger!Below
<1>5. CASE to = "Work Started"
  <2>1. Rank(to) = 3
    BY <1>5, RankValues
  <2>2. s \in {"Requires Revisit", "Acknowledged", "En Route", "On Site"}
    BY <1>1, <1>5, <2>1, RankValues, Heights, Zenon
  <2> QED
    BY <1>5, <2>2 DEF Ledger!Below
<1>6. CASE to = "Work Complete"
  BY <1>1, <1>6 DEF Ledger!Below
<1> QED
  BY <1>2, <1>3, <1>4, <1>5, <1>6 DEF CrewStatuses

\* The jobs that the control room's orders name are there.
NamedJobs ==
  \A d \in Desks :
    /\ AtAssign(d) /\ desk[d].job \in Jobs => jobStatus[desk[d].job] # "none"
    /\ desk[d].at = "cancelling" => \A j \in desk[d].list : jobStatus[j] # "none"

\* A job that is there stays.
LEMMA JobsStay ==
  ASSUME Inv, [Next]_vars, NEW j \in Jobs, jobStatus[j] # "none"
  PROVE  jobStatus'[j] # "none"
<1>0. jobStatus \in [Jobs -> JobStatuses] /\ "none" \notin CrewStatuses
  BY InvFacts DEF CrewStatuses
<1>1. ASSUME NEW i \in Jobs, NEW st, st # "none", jobStatus' = [jobStatus EXCEPT ![i] = st]
      PROVE  jobStatus'[j] # "none"
  BY <1>0, <1>1
<1>2. ASSUME UNCHANGED jobStatus
      PROVE  jobStatus'[j] # "none"
  BY <1>2
<1>3. ASSUME NEW s \in Slots, Land(s)
      PROVE  jobStatus'[j] # "none"
  <2>1. PICK i \in Jobs, to \in CrewStatuses : jobStatus' = [jobStatus EXCEPT ![i] = to]
    BY <1>3, LandFacts
  <2> QED
    BY <1>0, <1>1, <2>1
<1>4. ASSUME NEW s \in Slots, Reopen(s)
      PROVE  jobStatus'[j] # "none"
  BY <1>1, <1>2, <1>4, ReopenFacts DEF jobRows
<1>5. ASSUME NEW d \in Desks, AssignJob(d) \/ ReturnJob(d) \/ CancelJob(d)
      PROVE  jobStatus'[j] # "none"
  <2>1. CASE AssignJob(d)
    BY <1>1, <1>2, <2>1, AssignFacts
  <2>2. CASE ReturnJob(d)
    BY <1>1, <1>2, <2>2, ReturnFacts DEF jobRows
  <2>3. CASE CancelJob(d)
    BY <1>1, <2>3, CancelFacts
  <2> QED
    BY <1>5, <2>1, <2>2, <2>3
<1>6. ASSUME NEW d \in Desks, Begins(d) \/ GoesOn(d)
      PROVE  jobStatus'[j] # "none"
  BY <1>2, <1>6, DeskSteps DEF jobRows
<1>7. CASE ApplyProposal
  BY <1>2, <1>7 DEF ApplyProposal
<1> QED
  BY <1>2, <1>3, <1>4, <1>5, <1>6, <1>7, JobChanges DEF jobRows

LEMMA NamedJobsStep ==
  ASSUME Inv, NamedJobs, [Next]_vars
  PROVE  NamedJobs'
<1>0. /\ \A j \in Jobs : jobStatus[j] # "none" => jobStatus'[j] # "none"
      /\ \A j \in ActiveJobs : j \in Jobs /\ jobStatus[j] # "none"
      /\ \A d \in Desks : desk[d].list \subseteq Jobs
  BY JobsStay, InvFacts DEF ActiveJobs, IsActive, Orders
\* What an order names was named before, or is looked up now.
<1>1. ASSUME NEW d \in Desks,
             AtAssign(d)' => \/ AtAssign(d) /\ desk'[d].job = desk[d].job
                             \/ desk'[d].job \in ActiveJobs \cup {0},
             desk'[d].at = "cancelling" =>
               \/ desk[d].at = "cancelling" /\ desk'[d].list \subseteq desk[d].list
               \/ desk'[d].list = ActiveJobs
      PROVE  /\ AtAssign(d)' /\ desk'[d].job \in Jobs => jobStatus'[desk'[d].job] # "none"
             /\ desk'[d].at = "cancelling" => \A j \in desk'[d].list : jobStatus'[j] # "none"
  <2>1. ASSUME AtAssign(d)', desk'[d].job \in Jobs
        PROVE  jobStatus'[desk'[d].job] # "none"
    BY <1>0, <1>1, <2>1, JobsAssumption DEF NamedJobs
  <2>2. ASSUME desk'[d].at = "cancelling", NEW j \in desk'[d].list
        PROVE  jobStatus'[j] # "none"
    BY <1>0, <1>1, <2>2 DEF NamedJobs
  <2> QED
    BY <2>1, <2>2
<1>2. ASSUME NEW d \in Desks, desk'[d] = desk[d]
      PROVE  /\ AtAssign(d)' /\ desk'[d].job \in Jobs => jobStatus'[desk'[d].job] # "none"
             /\ desk'[d].at = "cancelling" => \A j \in desk'[d].list : jobStatus'[j] # "none"
  BY <1>1, <1>2 DEF AtAssign
<1>3. ASSUME UNCHANGED desk
      PROVE  NamedJobs'
  BY <1>2, <1>3 DEF NamedJobs
<1>4. ASSUME NEW d \in Desks, \A e \in Desks \ {d} : desk'[e] = desk[e],
             AtAssign(d)' => \/ AtAssign(d) /\ desk'[d].job = desk[d].job
                             \/ desk'[d].job \in ActiveJobs \cup {0},
             desk'[d].at = "cancelling" =>
               \/ desk[d].at = "cancelling" /\ desk'[d].list \subseteq desk[d].list
               \/ desk'[d].list = ActiveJobs
      PROVE  NamedJobs'
  BY <1>1, <1>2, <1>4 DEF NamedJobs
<1>5. ASSUME NEW d \in Desks, AssignJob(d)
      PROVE  NamedJobs'
  BY <1>4, <1>5, AssignFacts, IdleOrder DEF AtAssign
<1>6. ASSUME NEW d \in Desks, ReturnJob(d)
      PROVE  NamedJobs'
  BY <1>4, <1>6, ReturnFacts DEF AtAssign
<1>7. ASSUME NEW d \in Desks, CancelJob(d)
      PROVE  NamedJobs'
  BY <1>4, <1>7, CancelFacts DEF AtAssign
<1>8. ASSUME NEW d \in Desks, Begins(d)
      PROVE  NamedJobs'
  <2>1. AtAssign(d)' => desk'[d].job \in ActiveJobs \cup {0}
    BY <1>8, BeginsFacts, TargetHolders
  <2> QED
    BY <1>4, <1>8, <2>1, BeginsFacts
<1>9. ASSUME NEW d \in Desks, GoesOn(d)
      PROVE  NamedJobs'
  BY <1>4, <1>9, GoesOnFacts
<1>10. ASSUME NEW s \in Slots, Land(s) \/ Reopen(s)
       PROVE  UNCHANGED desk
  BY <1>10 DEF Land, Reopen
<1>11. ApplyProposal => UNCHANGED desk
  BY DEF ApplyProposal
<1> QED
  BY <1>3, <1>5, <1>6, <1>7, <1>8, <1>9, <1>10, <1>11, JobChanges

\* A step writes a job, is one of the workload proposals', or leaves both alone.
LEMMA LedgerChanges ==
  ASSUME Inv, [Next]_vars
  PROVE  \/ \E s \in Slots : Land(s) \/ Reopen(s)
         \/ \E d \in Desks : AssignJob(d) \/ ReturnJob(d) \/ CancelJob(d)
         \/ Workload
         \/ UNCHANGED <<jobRows, proposal>>
<1>1. CASE Server
  <2>1. ASSUME NEW s \in Slots, Handle(s)
        PROVE  Land(s) \/ Reopen(s) \/ UNCHANGED <<jobRows, proposal>>
    BY <2>1 DEF Handle, Receive, Miss, Log, Progress, InsertForm, jobVars, jobRows, history
  <2>2. ASSUME NEW s \in Slots, Online(s) \/ Cut(s)
        PROVE  UNCHANGED <<jobRows, proposal>>
    BY <2>2 DEF Online, OnBehalf, AskReopen, Cut, jobVars, jobRows, history
  <2>3. ASSUME NEW d \in Desks, ControlRoom(d)
        PROVE  AssignJob(d) \/ ReturnJob(d) \/ CancelJob(d) \/ UNCHANGED <<jobRows, proposal>>
    <3>1. CASE Begins(d)
      BY <3>1 DEF Begins, AssignRead, ReturnRead, StatusRead, Take, jobVars, jobRows, history
    <3>2. CASE GoesOn(d)
      BY <3>2 DEF GoesOn, AssignIncident, ReturnIncident, StatusWrite, CancelJobs, CutDesk,
         jobVars, jobRows, history
    <3> QED
      BY <2>3, <3>1, <3>2 DEF ControlRoom, Begins, GoesOn
  <2>4. CASE Elsewhere
    BY <2>4 DEF Elsewhere, ScadaRestores, AskReassign, Dismiss, WindowCloses, jobVars, jobRows,
       history
  <2> QED
    BY <1>1, <2>1, <2>2, <2>3, <2>4 DEF Server, Serve
<1>2. ASSUME NEW p \in Phones, Phone(p)
      PROVE  UNCHANGED <<jobRows, proposal>>
  BY <1>2, PhoneRequests
<1>3. ASSUME NEW s \in Slots, Orphan(s)
      PROVE  UNCHANGED <<jobRows, proposal>>
  BY <1>3 DEF Orphan, Forget, jobVars, jobRows, history
<1>4. CASE UNCHANGED vars
  BY <1>4 DEF vars, serverVars, jobVars, jobRows, history
<1> QED
  BY <1>1, <1>2, <1>3, <1>4 DEF Next

Over == incident.status \in OverStatuses

\* An update that lands: the crew's own, or one made for it.
LEMMA LandLedger ==
  ASSUME Inv, LandedOK, NEW s \in Slots, Land(s)
  PROVE  Ledger!Next
<1>1. PICK j \in Jobs, to \in CrewStatuses :
        /\ jobStatus[j] # to /\ OnLadder(jobStatus[j]) /\ Rank(jobStatus[j]) <= Rank(to)
        /\ jobStatus' = [jobStatus EXCEPT ![j] = to]
        /\ landed' = landed \cup ({req[s].u} \ {NoUpdate})
        /\ UNCHANGED holder /\ holder[j] # NoCrew
        /\ req[s].u # NoUpdate =>
             /\ req[s].u \in Updates /\ j = Made[req[s].u].job /\ to = Made[req[s].u].to
             /\ holder[j] = Made[req[s].u].crew /\ Made[req[s].u].kind = "status"
  BY LandFacts
<1>2. jobStatus[j] \in Ledger!Below(to)
  BY <1>1, UpTheLadder
<1>3. UNCHANGED <<Over, proposal>>
  BY DEF Land, Over
<1>4. CASE req[s].u = NoUpdate
  <2>1. landed' = landed
    BY <1>1, <1>4
  <2>2. Ledger!OnBehalf(j, to)
    BY <1>1, <1>2, <1>3, <2>1 DEF Ledger!OnBehalf, Ledger!Sets, Over
  <2> QED
    BY <2>2 DEF Ledger!Next, CrewStatuses
<1>5. CASE req[s].u # NoUpdate
  <2> DEFINE u == req[s].u
  <2>1. u \notin landed
    <3> SUFFICES ASSUME u \in landed
                 PROVE  FALSE
      OBVIOUS
    <3>1. jobStatus[j] \in CrewStatuses /\ Rank(to) <= Rank(jobStatus[j])
      BY <1>1, <1>5, LadderFacts DEF LandedOK
    <3>2. Rank(to) \in Nat /\ Rank(jobStatus[j]) \in Nat
      BY <3>1, RankNumbers, StatusFacts
    <3>3. Rank(jobStatus[j]) = Rank(to)
      BY <1>1, <3>1, <3>2
    <3> QED
      BY <1>1, <3>1, <3>3, RankIsStatus
  <2>2. landed' = landed \cup {u}
    BY <1>1, <1>5
  <2>3. /\ u \in Updates /\ j = Made[u].job /\ to = Made[u].to
        /\ holder[j] = Made[u].crew /\ Made[u].kind = "status"
    BY <1>1, <1>5
  <2> HIDE DEF u
  <2>4. Ledger!Update(u)
    BY <1>1, <1>2, <1>3, <2>1, <2>2, <2>3 DEF Ledger!Update, Ledger!Sets, Over
  <2> QED
    BY <2>3, <2>4 DEF Ledger!Next, Updates
<1> QED
  BY <1>4, <1>5

\* A finished job that comes back.
LEMMA ComesBackLedger ==
  ASSUME NEW j \in Jobs, NEW to \in {"Work Started", "Requires Revisit"},
         jobStatus[j] = "Work Complete", holder[j] # NoCrew,
         jobStatus' = [jobStatus EXCEPT ![j] = to], ComesBack(j),
         UNCHANGED <<holder, incident, proposal>>
  PROVE  Ledger!Next
<1>1. Ledger!ComesBack(j, to)
  BY DEF Ledger!ComesBack, Ledger!Sets, Ledger!StartsAgain, ComesBack, StartsAgain
<1> QED
  BY <1>1 DEF Ledger!Next

\* A job assigned: a new one, one moved as it is, or one that starts again.
LEMMA AssignLedger ==
  ASSUME Inv, NamedJobs, NEW d \in Desks, AssignJob(d)
  PROVE  Ledger!Next
<1>1. PICK j \in Jobs :
        /\ desk[d].at = "move" /\ desk[d].crew \in Crews
        /\ holder' = [holder EXCEPT ![j] = desk[d].crew]
        /\ \/ desk[d].to = "none" /\ desk[d].job = j /\ UNCHANGED <<jobStatus, landed>>
           \/ jobStatus' = [jobStatus EXCEPT ![j] = "Acknowledged"] /\ StartsAgain(j)
  BY AssignFacts
<1>2. UNCHANGED <<Over, proposal>>
  BY DEF AssignJob, Over
<1>3. desk[d].job = j => jobStatus[j] # "none"
  BY <1>1 DEF NamedJobs, AtAssign
<1>4. Ledger!Assign(j, desk[d].crew)
  BY <1>1, <1>2, <1>3 DEF Ledger!Assign, Ledger!Sets, Ledger!StartsAgain, StartsAgain, Over
<1> QED
  BY <1>1, <1>4 DEF Ledger!Next

LEMMA CancelLedger ==
  ASSUME Inv, NamedJobs, NEW d \in Desks, CancelJob(d)
  PROVE  Ledger!Next
<1>1. PICK j \in Jobs :
        /\ jobStatus' = [jobStatus EXCEPT ![j] = "Cancelled"]
        /\ j \in desk[d].list /\ desk[d].at = "cancelling"
        /\ UNCHANGED <<holder, landed>>
  BY CancelFacts
<1>2. UNCHANGED <<Over, proposal>>
  BY DEF CancelJob, Over
<1>3. Ledger!Cancel(j)
  BY <1>1, <1>2 DEF Ledger!Cancel, Ledger!Sets, NamedJobs, Over
<1> QED
  BY <1>3 DEF Ledger!Next

LEMMA WorkloadLedger ==
  ASSUME Workload
  PROVE  Ledger!Next
<1>1. ASSUME NEW j \in Jobs, NEW c \in Crews \cup {NoCrew}, Propose(j, c)
      PROVE  Ledger!Next
  <2>1. Ledger!Propose(j, c)
    BY <1>1 DEF Propose, IsMovable, Ledger!Propose, jobVars, history
  <2> QED
    BY <2>1 DEF Ledger!Next
<1>2. CASE ApplyProposal
  <2>1. /\ proposal.open /\ incident.status \notin OverStatuses
        /\ jobStatus[proposal.job] = "Acknowledged" /\ holder[proposal.job] = proposal.from
        /\ holder' = [holder EXCEPT ![proposal.job] = proposal.to]
        /\ proposal' = NoProposal /\ UNCHANGED <<jobStatus, landed>>
    BY <1>2 DEF ApplyProposal, StillValid, IsMovable
  <2>2. incident'.status \notin OverStatuses
    BY <1>2, <2>1 DEF ApplyProposal, OverStatuses
  <2>3. Ledger!Rebalance
    BY <2>1, <2>2 DEF Ledger!Rebalance, Ledger!NoOffer, NoProposal
  <2> QED
    BY <2>3 DEF Ledger!Next
<1>3. CASE CloseProposal
  <2>1. Ledger!Withdraw
    BY <1>3 DEF CloseProposal, Ledger!Withdraw, Ledger!NoOffer, NoProposal, jobVars, history
  <2> QED
    BY <2>1 DEF Ledger!Next
<1> QED
  BY <1>1, <1>2, <1>3 DEF Workload

LEMMA LedgerStep ==
  ASSUME Inv, LandedOK, NamedJobs, [Next]_vars
  PROVE  [Ledger!Next]_(Ledger!vars)
<1>1. ASSUME UNCHANGED <<jobRows, proposal>>
      PROVE  Ledger!Next
  <2>1. Ledger!IncidentMoves
    BY <1>1 DEF Ledger!IncidentMoves, jobRows
  <2> QED
    BY <2>1 DEF Ledger!Next
<1>2. ASSUME NEW s \in Slots, Reopen(s)
      PROVE  Ledger!Next
  <2>1. UNCHANGED <<incident, proposal>>
    BY <1>2 DEF Reopen
  <2> QED
    BY <1>1, <1>2, <2>1, ReopenFacts, ComesBackLedger
<1>3. ASSUME NEW d \in Desks, ReturnJob(d)
      PROVE  Ledger!Next
  <2>1. UNCHANGED <<holder, incident, proposal>>
    BY <1>3 DEF ReturnJob
  <2> QED
    BY <1>1, <1>3, <2>1, ReturnFacts, ComesBackLedger
<1> QED
  BY <1>1, <1>2, <1>3, LandLedger, AssignLedger, CancelLedger, WorkloadLedger, LedgerChanges

\* Handlers interleaved statement by statement act on the jobs as CrewLedger
\* says: on a job as it is, that is still the crew's own, up the ladder, once
\* (decideStatus, updateJobIf, returnJob, reassignJob, applyProposal).
THEOREM JobsKeepLedger == Spec => KeepsLedger
<1>1. Init => Ledger!Init
  BY DEF Init, InitServer, NoProposal, OverStatuses, Ledger!Init, Ledger!NoOffer
<1>2. Init => NamedJobs
  BY IdleOrder DEF Init, InitServer, NamedJobs, AtAssign
<1>3. Inv /\ NamedJobs /\ [Next]_vars => NamedJobs'
  BY NamedJobsStep
<1>4. Inv /\ LandedOK /\ NamedJobs /\ [Next]_vars => [Ledger!Next]_(Ledger!vars)
  BY LedgerStep
<1> QED
  BY <1>1, <1>2, <1>3, <1>4, LandedStays, PTL DEF Spec, KeepsLedger, Ledger!Spec
=============================================================================

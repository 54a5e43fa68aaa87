------------------------------ MODULE MCFieldWork ------------------------------
EXTENDS FieldWork

Status(to) == [kind |-> "status", job |-> 1, crew |-> "a", to |-> to]
Form       == [kind |-> "form", job |-> 1, crew |-> "a", to |-> "Work Complete"]

\* The crew of the phone finishes the first job: its form, then Work Complete.
\* The steps before are set by the control room on the crew's behalf (Marks).
Ladder  == <<Form, Status("Work Complete")>>
Theirs  == [p \in Phones |-> DOMAIN Ladder]
FormFor == [n \in DOMAIN Ladder |-> IF Ladder[n].kind = "form" THEN Ladder[n].job ELSE 0]
=============================================================================

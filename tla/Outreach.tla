------------------------------ MODULE Outreach ------------------------------
(***************************************************************************)
(* What a bulk campaign promises, without tasks, queues or workers: every  *)
(* recipient is enrolled once, taken for sending only while the campaign   *)
(* is open, receives at most one copy, and is closed for good.             *)
(***************************************************************************)
EXTENDS Naturals

CONSTANT Lead

VARIABLES
    letter,   \* progress of each lead's message
    copies,   \* copies the customer received
    open      \* the campaign has not been paused, failed or completed

vars == <<letter, copies, open>>

Init ==
    /\ letter = [l \in Lead |-> "none"]
    /\ copies = [l \in Lead |-> 0]
    /\ open = TRUE

Move(leads, from, to) ==
    /\ \A l \in leads : letter[l] \in from
    /\ letter' = [l \in Lead |-> IF l \in leads THEN to ELSE letter[l]]

\* Recipients are only ever added.
Enrol(leads) == Move(leads, {"none"}, "waiting") /\ UNCHANGED <<copies, open>>

\* The decision to send: not while the campaign is closed.
Take(l) == open /\ Move({l}, {"waiting"}, "taken") /\ UNCHANGED <<copies, open>>

\* The provider accepts the message.
Deliver(l) ==
    /\ Move({l}, {"taken"}, "out")
    /\ copies' = [copies EXCEPT ![l] = @ + 1]
    /\ UNCHANGED open

\* Sent, refused or skipped: there is no way back.
Close(leads) ==
    /\ Move(leads, {"waiting", "taken", "out"}, "closed")
    /\ UNCHANGED <<copies, open>>

Switch == open' = ~open /\ UNCHANGED <<letter, copies>>

Next ==
    \/ \E leads \in SUBSET Lead : Enrol(leads) \/ Close(leads)
    \/ \E l \in Lead : Take(l) \/ Deliver(l)
    \/ Switch

Spec == Init /\ [][Next]_vars
=============================================================================

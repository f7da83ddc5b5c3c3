------------------------- MODULE CampaignRefinement -------------------------
(* A campaign seen as an Outreach: the recipient rows and the recipient each *)
(* worker has in hand say how far a lead's message is.                       *)
EXTENDS Campaign

InHand(l, pc) == \E w \in Worker : worker[w].cur = l /\ worker[w].pc = pc

Letter(l) ==
    CASE row[l] = "none" -> "none"
      [] row[l] \in {"sent", "failed", "skipped"} -> "closed"
      [] row[l] = "pending" /\ InHand(l, "send") -> "taken"
      [] row[l] = "pending" /\ InHand(l, "accepted") -> "out"
      [] OTHER -> "waiting"

Abstract == INSTANCE Outreach WITH
    letter <- [l \in Lead |-> Letter(l)],
    copies <- delivered,
    open   <- status \notin HALTED_STATUSES

\* The tasks, queues and workers of a campaign implement the outreach it
\* promises: one copy per customer, none decided after a stop, nothing reopened.
ImplementsOutreach == Abstract!Spec

\* The same up to the first fault (a process lost, a message refused by the
\* broker, a failed statement): pause, relaunch and redelivery alone never
\* break the promise, and what a fault leads to is not excused beforehand.
OutreachUntilFault ==
    Abstract!Init /\ [][faults' = 0 => Abstract!Next]_(Abstract!vars)
=============================================================================

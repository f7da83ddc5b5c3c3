----------------------------- MODULE MCCampaign -----------------------------
(* Campaign for TLC: the symmetries of its sets of model values. Leads,     *)
(* workers, requests and scheduler runs are interchangeable; tasks are not. *)
EXTENDS CampaignRefinement, TLC

Symmetry == Permutations(Lead) \cup Permutations(Worker)
            \cup Permutations(Admin) \cup Permutations(Beat)

\* A bound: a redelivered message does not wait beside a fault, nor while the
\* scheduler is at work.
RedeliveryApart ==
    (\E m \in chunkQ : m.copy > 0) =>
        faults = 0 /\ \A b \in Beat : sched[b] = "idle"
=============================================================================

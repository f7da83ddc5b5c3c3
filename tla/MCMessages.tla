----------------------------- MODULE MCMessages -----------------------------
(* Messages for TLC: one request, two copies; three messages of one         *)
(* customer, two of them from different ads.                                *)
EXTENDS Messages, TLC

CONSTANTS m1, m2, m3, a1, a2

Messages3 == {m1, m2, m3}
Clicks == [m \in Messages3 |-> CASE m = m1 -> a1 [] m = m2 -> a2 [] OTHER -> NoAd]

\* Sending and receiving share nothing but the table of claims, whose keys
\* differ: an execution is about one or the other.
OneSide ==
    \/ (\A s \in Send : send[s].pc = "none")
    \/ (\A m \in Message : posts[m] = 0) /\ policy = [create |-> "none", reopen |-> FALSE] /\ lead = <<>>

Symmetry == Permutations(Copy) \cup Permutations(Handler)
=============================================================================

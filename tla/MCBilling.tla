----------------------------- MODULE MCBilling -----------------------------
(* Billing for TLC: the events Razorpay reports, and the rows the super     *)
(* admin saves from the tenant form.                                        *)
EXTENDS Billing, TLC

CONSTANTS s1, s2, p1, p2

Charged(s, p) == [kind |-> "charged", sub |-> s, pay |-> p]
Reported(kind, s) == [kind |-> kind, sub |-> s, pay |-> NoPayment]

\* One subscription: charged twice, halted and cancelled, in any order.
OneSubscription == {Charged(s1, p1), Charged(s1, p2), Reported("cancelled", s1), Reported("halted", s1)}

\* Two subscriptions charged at about the same time.
TwoSubscriptions == {Charged(s1, p1), Charged(s2, p2)}

\* Switched off by "Is active" alone, by the status alone, and back on.
FormRows == {[status |-> "active", active |-> FALSE, kind |-> ""],
             [status |-> "suspended", active |-> TRUE, kind |-> ""],
             [status |-> "trial", active |-> TRUE, kind |-> ""]}

\* Bound: once two operations have met on a tenant, only webhooks go on; what
\* is said of access is said of tenants where none have met.
RacesApart ==
    raced = {} \/ (spent["decision"] = 0 /\ spent["sweep"] = 0 /\ \A s \in Sub : trial[s] = "ahead")

\* Bound: one crash, error or repeated delivery in a behaviour.
OneFault == spent["crash"] + spent["error"] + spent["redelivery"] <= 1

Symmetry == Permutations(Worker)
=============================================================================

------------------------------ MODULE Requests ------------------------------
(***************************************************************************)
(* Requests and tasks in progress at the same time.  No request runs in    *)
(* one transaction (READ COMMITTED, no ATOMIC_REQUESTS): it begins with    *)
(* what it reads and checks, and each of its writes is a step of its own.  *)
(* The modules that extend this one say what a request holds meanwhile.    *)
(***************************************************************************)
EXTENDS Naturals, FiniteSets

CONSTANTS
    Request,      \* web requests and tasks in progress
    Mixes,        \* bound: the operations of an execution are one of these sets
    MaxRequests   \* bound: requests started, in each of them

ASSUME RequestsAssumption == IsFiniteSet(Request) /\ MaxRequests \in [Mixes -> Nat]

VARIABLES
    req,      \* the requests, a record with the operation op each
    \* Observed by the properties and bounds only:
    met,      \* pairs of operations that were in progress at the same time
    started,  \* requests started
    mix,      \* the operations that occur in this execution
    crashed   \* a process died in the middle of its request

Free(r) == req[r].op = "idle"
Others(r) == {req[q].op : q \in {p \in Request \ {r} : ~Free(p)}}

\* A request begins: met notes it with every other one in progress.
Meets(r, kind) == met' = met \cup {{kind, op} : op \in Others(r)}
Start(r, kind, fields) ==
    /\ Free(r)
    /\ kind \in mix /\ started < MaxRequests[mix]
    /\ started' = started + 1
    /\ Meets(r, kind)
    /\ req' = [req EXCEPT ![r] = [fields EXCEPT !.op = kind]]
\* An operation of one statement, with every request in progress; that it
\* happened is noted as {kind}.
Happens(kind) ==
    /\ kind \in mix /\ started < MaxRequests[mix]
    /\ started' = started + 1
    /\ met' = met \cup {{kind, req[q].op} : q \in {p \in Request : ~Free(p)}} \cup {{kind}}
Overlapped(kind) == \E pair \in met : kind \in pair
\* In those with a field next, the step that comes next, "end" for none.
At(r, ops, next) == req[r].op \in ops /\ req[r].next = next
Finish(r) == req' = [req EXCEPT ![r] = [op |-> "idle"]]
Goto(r, next) == IF next = "end" THEN Finish(r) ELSE req' = [req EXCEPT ![r].next = next]
Met(kinds, others) == \E k \in kinds, o \in others : {k, o} \in met
=============================================================================

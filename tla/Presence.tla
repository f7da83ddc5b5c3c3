------------------------------ MODULE Presence ------------------------------
(***************************************************************************)
(* Whether an agent is at work: the AgentStatus row and the intervals of   *)
(* AgentStatusLog that the login report and the HRMS attendance add up     *)
(* (src/apps/authentication/presence.py).  A transition loads the row,     *)
(* closes what is open, opens the next interval and saves the row; nothing *)
(* is locked.  Closed intervals are not kept here.                         *)
(***************************************************************************)
EXTENDS Requests, Sequences

CONSTANTS
    Staff,        \* agents who report their presence
    Working,      \* AgentWorkStatus.ONLINE_STATUSES
    StaleAfter,   \* minutes of silence after which each is swept
    LastMinute    \* bound: the last time

WorkStatus == Working \cup {"offline"}

ASSUME PresenceAssumption ==
    /\ "offline" \notin Working
    /\ StaleAfter \in [Working -> Nat \ {0}]
    /\ LastMinute \in Nat

VARIABLES
    presence,   \* AgentStatus rows
    open,       \* the intervals of each agent that have no end
    minute      \* the time

presenceVars == <<presence, open, minute>>

\* seen: last_seen; session: session_started_at; 0 stands for NULL.
PresenceRec == [st : WorkStatus, seen : Nat, session : Nat]
Interval == [st : Working, from : Nat]
NotYet == [st |-> "offline", seen |-> 0, session |-> 0]   \* no row

\* Mutant of ClosedLog: the interval of the status before is not closed.
ClosedLogNot(a, changed) == open[a]
\* Every open interval is closed when the status changes.
ClosedLog(a, changed) == IF changed THEN <<>> ELSE open[a]

-----------------------------------------------------------------------------
(* set_agent_status: at is the time the sweep gives, 0 for now; todo is     *)
(* what the sweep has left.                                                 *)

\* get_or_create
RowOf(a) == IF presence[a] = NotYet THEN [NotYet EXCEPT !.seen = minute] ELSE presence[a]

Setting(a, to, at, todo) ==
    [op |-> "setting", agent |-> a, to |-> to, now |-> IF at = 0 THEN minute ELSE at,
     row |-> IF at = 0 THEN [RowOf(a) EXCEPT !.seen = minute] ELSE RowOf(a),
     changed |-> RowOf(a).st # to, todo |-> todo]
LoadAndClose(a, to) ==
    /\ presence' = [presence EXCEPT ![a] = RowOf(a)]
    /\ open' = [open EXCEPT ![a] = ClosedLog(a, RowOf(a).st # to)]

\* The next interval, and the whole row as it was loaded.
SaveStatus(r) == LET w == req[r] IN
    /\ w.op = "setting"
    /\ open' = [open EXCEPT ![w.agent] =
                   IF w.changed /\ w.to \in Working THEN Append(@, [st |-> w.to, from |-> w.now]) ELSE @]
    /\ presence' = [presence EXCEPT ![w.agent] =
                       [st |-> w.to, seen |-> w.row.seen,
                        session |-> IF w.to = "offline" THEN 0
                                    ELSE IF w.row.session = 0 THEN w.now ELSE w.row.session]]
    /\ req' = [req EXCEPT ![r] = IF w.todo = {} THEN [op |-> "idle"] ELSE [op |-> "sweep", todo |-> w.todo]]
    /\ UNCHANGED <<minute, met, started, mix, crashed>>

\* The app reports a change, or the agent logs out.
Report(r, a, to) ==
    /\ Start(r, "setting", Setting(a, to, 0, {}))
    /\ LoadAndClose(a, to)
    /\ UNCHANGED <<minute, mix, crashed>>

\* The heartbeat reads the status, compares it with the app's, and sets it or
\* the time of the last sign of life.
Heartbeat(r, a, told) ==
    /\ Start(r, "beat", [op |-> "beat", agent |-> a, to |-> told, 
                             sets |-> presence[a] = NotYet \/ presence[a].st # told])
    /\ UNCHANGED <<presenceVars, mix, crashed>>

HeartbeatSets(r) == LET w == req[r] IN
    /\ w.op = "beat" /\ w.sets
    /\ LoadAndClose(w.agent, w.to)
    /\ req' = [req EXCEPT ![r] = Setting(w.agent, w.to, 0, {})]
    /\ Meets(r, "setting")
    /\ UNCHANGED <<minute, started, mix, crashed>>

HeartbeatTouches(r) == LET w == req[r] IN
    /\ w.op = "beat" /\ ~w.sets
    /\ presence' = [presence EXCEPT ![w.agent].seen = minute]
    /\ req' = [req EXCEPT ![r] = [op |-> "idle"]]
    /\ UNCHANGED <<open, minute, met, started, mix, crashed>>

\* The sweep reads the rows that are stale, and takes them one after another.
Stale(a) == presence[a].st # "offline" /\ minute - presence[a].seen >= StaleAfter[presence[a].st]

Sweep(r) ==
    /\ \E a \in Staff : Stale(a)
    /\ Start(r, "sweep", [op |-> "sweep", todo |-> {[agent |-> a, seen |-> presence[a].seen] :
                                                       a \in {b \in Staff : Stale(b)}}])
    /\ UNCHANGED <<presenceVars, mix, crashed>>

SweepOne(r) ==
    /\ req[r].op = "sweep"
    /\ \E one \in req[r].todo :
          /\ LoadAndClose(one.agent, "offline")
          /\ req' = [req EXCEPT ![r] = Setting(one.agent, "offline", one.seen, @.todo \ {one})]
    /\ Meets(r, "setting")
    /\ UNCHANGED <<minute, started, mix, crashed>>

Minute ==
    /\ "minute" \in mix /\ minute < LastMinute
    /\ minute' = minute + 1
    /\ UNCHANGED <<presence, open, req, met, started, mix, crashed>>

-----------------------------------------------------------------------------
PresenceInit ==
    /\ presence = [a \in Staff |-> NotYet]
    /\ open = [a \in Staff |-> <<>>]
    /\ minute = 1

PresenceNext ==
    \/ \E r \in Request :
          \/ \E a \in Staff, to \in WorkStatus : Report(r, a, to) \/ Heartbeat(r, a, to)
          \/ Sweep(r) \/ SweepOne(r)
          \/ HeartbeatSets(r) \/ HeartbeatTouches(r) \/ SaveStatus(r)
    \/ Minute
=============================================================================

------------------------------ MODULE LeadDesk ------------------------------
(***************************************************************************)
(* The leads a team works on, from assignment to outcome:                  *)
(*                                                                         *)
(*   src/apps/leads/views.py, models.py     queue, status, assignment      *)
(*   src/apps/leads/services/distribution.py, followup_rules.py            *)
(*   src/apps/calls/services/outcomes.py    what a call does to its lead   *)
(*   src/apps/calls/views.py                logging a call, click-to-call  *)
(*                                                                         *)
(* Every one of these loads the lead row without a lock, except the pull,  *)
(* and saves some of its columns.  Times are ticks of one clock.           *)
(***************************************************************************)
EXTENDS Requests, Distribution

CONSTANTS
    Agent,        \* agents, by primary key
    Manager,      \* agents who see every lead
    Lead,         \* leads, by primary key and in the order of creation
    Call,         \* calls, by the id the client gives them
    FollowUp,     \* follow-up rows
    Outcome,      \* dispositions
    Disposition,  \* what each disposition says
    ByHand,       \* statuses set by hand
    Later,        \* when a follow-up may be set by hand
    Caps,         \* values of max_per_agent, NoCap for none
    Ttl,          \* CallQueue.lock_ttl_minutes
    Cooldown,     \* CallQueue.redial_cooldown_hours
    LastTick      \* bound: the last time

Stage == {"new", "attempted", "contacted", "interested", "follow_up", "negotiation", "converted"}
Closed == {"not_interested", "lost", "invalid"}
Locked == {"converted", "duplicate"}
Final == Closed \cup Locked
Status == Stage \cup Final
NoStatus == ""   \* a disposition without lead_status

\* retry: auto_followup_hours, 0 for none.
DispositionRec == [to : Status \cup {NoStatus}, on : BOOLEAN, retry : Nat, dnd : BOOLEAN]
\* A call without an outcome: its disposition is NULL.
NoOutcome == [to |-> NoStatus, on |-> FALSE, retry |-> 0, dnd |-> FALSE]

ASSUME LeadDeskAssumption ==
    /\ Agent \subseteq Nat \ {0} /\ IsFiniteSet(Agent) /\ Agent # {} /\ Manager \subseteq Agent
    /\ Lead \subseteq Nat \ {0} /\ IsFiniteSet(Lead)
    /\ FollowUp \subseteq Nat \ {0} /\ IsFiniteSet(FollowUp) /\ IsFiniteSet(Call)
    /\ Disposition \in [Outcome -> DispositionRec]
    /\ ByHand \subseteq Status
    /\ Later \subseteq Nat /\ Caps \subseteq Nat
    /\ Ttl \in Nat \ {0} /\ Cooldown \in Nat /\ LastTick \in Nat
    /\ Nobody \notin Agent

VARIABLES
    lead,      \* Lead rows
    call,      \* CallLog rows
    followup,  \* FollowUp rows that are not completed
    queue,     \* the CallQueue: is_active, only_unworked
    clock      \* the time

deskVars == <<lead, call, followup, queue, clock, crashed>>

Owner == Agent \cup {Nobody}
\* by, until, queued: locked_by, lock_expires_at, locked_queue is set;
\* dialed: last_dialed_at; next: next_followup_at; 0 stands for NULL.
LeadRec == [owner : Owner, st : Status, worked : BOOLEAN, dnd : BOOLEAN,
            by : Owner, until : Nat, queued : BOOLEAN,
            dials : Nat, answered : Nat, dialed : Nat, next : Nat]
NoCall == [lead |-> 0, agent |-> Nobody, on |-> FALSE, at |-> 0]
NoFollow == [lead |-> 0, at |-> 0, auto |-> FALSE, owner |-> Nobody]
CallRec == [lead : Lead, agent : Agent, on : BOOLEAN, at : Nat \ {0}] \cup {NoCall}
FollowRec == [lead : Lead, at : Nat \ {0}, auto : BOOLEAN, owner : Agent] \cup {NoFollow}
FreshLead == [owner |-> Nobody, st |-> "new", worked |-> FALSE, dnd |-> FALSE,
              by |-> Nobody, until |-> 0, queued |-> FALSE,
              dials |-> 0, answered |-> 0, dialed |-> 0, next |-> 0]

Idle == [op |-> "idle"]
End(r) == req' = [req EXCEPT ![r] = Idle]

\* The row is locked by a transaction that has not committed.
RowFree(l) == \A q \in Request : ~(req[q].op = "pull" /\ req[q].lead = l)
Sees(a, l) == a \in Manager \/ lead[l].owner = a
OwnedBy(a) == {l \in Lead : lead[l].owner = a}

-----------------------------------------------------------------------------
(* Follow-ups.                                                              *)

OpenOf(rows, l) == {f \in FollowUp : rows[f].lead = l}
AutoOf(rows, l) == {f \in OpenOf(rows, l) : rows[f].auto}
Without(rows, fs) == [f \in FollowUp |-> IF f \in fs THEN NoFollow ELSE rows[f]]
Booked(rows, l, at, auto, owner) ==
    [rows EXCEPT ![Min({f \in FollowUp : rows[f].lead = 0})] =
        [lead |-> l, at |-> at, auto |-> auto, owner |-> owner]]
Room == \E f \in FollowUp : followup[f].lead = 0

Earliest(rows, l) ==
    IF OpenOf(rows, l) = {} THEN 0 ELSE Min({rows[f].at : f \in OpenOf(rows, l)})
\* refresh_next_followup: written when it differs from the copy in hand, now
\* is what the row has.
Refreshed(rows, l, seen, now) == IF Earliest(rows, l) # seen THEN Earliest(rows, l) ELSE now

\* Mutant of FollowingOwner: those of an unassigned lead lose their agent.
FollowingNobody(rows, ls) ==
    [f \in FollowUp |-> IF rows[f].lead \in ls THEN [rows[f] EXCEPT !.owner = lead[rows[f].lead].owner] ELSE rows[f]]
\* follow_lead_owner: open follow-ups move to the agent of their lead.
FollowingOwner(rows, ls) ==
    [f \in FollowUp |->
        IF rows[f].lead \in ls /\ lead[rows[f].lead].owner # Nobody
        THEN [rows[f] EXCEPT !.owner = lead[rows[f].lead].owner] ELSE rows[f]]

\* Scheduled by hand: it belongs to the lead's agent, and then replaces the
\* automatic ones.
Schedule(r, a, l, at) ==
    /\ Sees(a, l) /\ at > clock
    /\ Start(r, "schedule", [op |-> "schedule", lead |-> l, at |-> at, seen |-> lead[l].next,
                             owner |-> IF lead[l].owner # Nobody THEN lead[l].owner ELSE a])
    /\ UNCHANGED <<deskVars, mix>>

ScheduleWrite(r) == LET w == req[r] IN
    /\ w.op = "schedule" /\ RowFree(w.lead) /\ Room
    /\ followup' = Booked(followup, w.lead, w.at, FALSE, w.owner)
    /\ lead' = [lead EXCEPT ![w.lead].next = Earliest(followup', w.lead)]
    /\ req' = [req EXCEPT ![r].op = "supersede"]
    /\ UNCHANGED <<call, queue, clock, crashed, met, started, mix>>

Supersede(r) == LET w == req[r]
                    autos == AutoOf(followup, w.lead) IN
    /\ w.op = "supersede" /\ RowFree(w.lead)
    /\ followup' = Without(followup, autos)
    /\ lead' = [lead EXCEPT ![w.lead].next =
                   IF autos = {} THEN @ ELSE Refreshed(followup', w.lead, w.seen, @)]
    /\ End(r)
    /\ UNCHANGED <<call, queue, clock, crashed, met, started, mix>>

Complete(r, f) ==
    /\ followup[f].lead # 0
    /\ Start(r, "complete", [op |-> "complete", row |-> f, lead |-> followup[f].lead,
                             seen |-> lead[followup[f].lead].next])
    /\ UNCHANGED <<deskVars, mix>>

CompleteWrite(r) ==
    /\ req[r].op = "complete"
    /\ LET l == req[r].lead
           rows == IF followup[req[r].row].lead = l THEN Without(followup, {req[r].row}) ELSE followup IN
       /\ RowFree(l)
       /\ followup' = rows
       /\ lead' = [lead EXCEPT ![l].next = Refreshed(rows, l, req[r].seen, @)]
    /\ End(r)
    /\ UNCHANGED <<call, queue, clock, crashed, met, started, mix>>

-----------------------------------------------------------------------------
(* The calling queue.                                                       *)

Held(a, l) == lead[l].by = a /\ lead[l].until > clock

Eligible(a, l) ==
    /\ lead[l].owner = a
    /\ lead[l].st \notin Final /\ ~lead[l].dnd
    /\ queue.fresh => ~lead[l].worked
    /\ ~Held(a, l)
    /\ \/ lead[l].dialed = 0 \/ clock > lead[l].dialed + Cooldown
       \/ lead[l].next # 0 /\ lead[l].next <= clock /\ lead[l].next > lead[l].dialed

CheckedOut(a) == {l \in OwnedBy(a) : Held(a, l) /\ lead[l].queued}

\* Mutant of Served: what the agent holds is not looked for.
ServedNext(a, l) == Eligible(a, l)
\* The agent's checkout again or an eligible lead.
Served(a, l) == IF CheckedOut(a) # {} THEN l \in CheckedOut(a) ELSE Eligible(a, l)

\* One transaction, rows others are locking left out; the row stays locked
\* until the commit.
Pull(r, a, l) ==
    /\ queue.on /\ RowFree(l) /\ Served(a, l)
    /\ Start(r, "pull", [op |-> "pull", lead |-> l, agent |-> a, until |-> clock + Ttl,
                         again |-> l \in CheckedOut(a)])
    /\ UNCHANGED <<deskVars, mix>>

PullCommit(r) ==
    /\ req[r].op = "pull"
    /\ lead' = [lead EXCEPT ![req[r].lead] =
                   [@ EXCEPT !.by = req[r].agent, !.until = req[r].until, !.queued = TRUE]]
    /\ End(r)
    /\ UNCHANGED <<call, followup, queue, clock, crashed, met, started, mix>>

NoLock(row) == [row EXCEPT !.by = Nobody, !.until = 0, !.queued = FALSE]

\* mark_dialed works the lead and then clears the lock, as return_to_queue
\* does; a skip keeps it.
Release(r, a, l, how) ==
    /\ lead[l].by = a
    /\ Start(r, "release", [op |-> "release", lead |-> l, how |-> how, worked |-> lead[l].worked])
    /\ UNCHANGED <<deskVars, mix>>

ReleaseDialed(r) == LET l == req[r].lead IN
    /\ req[r].op = "release" /\ req[r].how = "dialed" /\ RowFree(l)
    /\ lead' = [lead EXCEPT ![l].worked = @ \/ ~req[r].worked, ![l].dialed = clock]
    /\ req' = [req EXCEPT ![r].how = "return"]
    /\ UNCHANGED <<call, followup, queue, clock, crashed, met, started, mix>>

ReleaseWrite(r) == LET l == req[r].lead IN
    /\ req[r].op = "release" /\ req[r].how # "dialed" /\ RowFree(l)
    /\ lead' = [lead EXCEPT ![l] =
                   IF req[r].how = "return" THEN NoLock(@)
                   ELSE [@ EXCEPT !.queued = FALSE, !.until = clock + Ttl]]
    /\ End(r)
    /\ UNCHANGED <<call, followup, queue, clock, crashed, met, started, mix>>

\* Switched off, or deleted and made again: its locks are released.
SwitchQueue ==
    /\ "switch" \in mix /\ \A l \in Lead : RowFree(l)
    /\ queue' = [queue EXCEPT !.on = ~@]
    /\ lead' = [l \in Lead |-> IF queue.on /\ lead[l].queued THEN NoLock(lead[l]) ELSE lead[l]]
    /\ UNCHANGED <<call, followup, clock, crashed, req, met, started, mix>>

-----------------------------------------------------------------------------
(* Calls and their outcomes.                                                *)

Rank(s) == CASE s = "new" -> 0 [] s = "attempted" -> 1 [] s = "contacted" -> 2
             [] s \in {"interested", "follow_up"} -> 3
             [] s = "negotiation" -> 4 [] s = "converted" -> 5
Ahead(s, t) == IF t \in Stage /\ Rank(t) > Rank(s) THEN t ELSE s
Reached(s, to, on) == Ahead(Ahead(s, to), IF on THEN "contacted" ELSE "attempted")

\* Mutant of NextStatus: the outcome's status is taken as it is.
NextStatusAsTold(s, to, on) == IF s \in Locked \/ to = NoStatus THEN s ELSE to

\* next_status: locked ones never change, an outcome closes an open lead, an
\* answered call reopens a closed one, and others only move it forward;
\* interested and follow_up are the same stage.
NextStatus(s, to, on) ==
    CASE s \in Locked -> s
      [] s \notin Locked /\ to \in Closed -> to
      [] s \in Closed /\ to \notin Closed -> IF on /\ to \in Stage THEN to ELSE s
      [] s \notin Final /\ to \notin Closed ->
            IF to \in Stage /\ Rank(to) = Rank(s) /\ Rank(to) >= Rank(Reached(s, to, on))
            THEN to ELSE Reached(s, to, on)

\* refresh_lead_call_stats: counted again from the rows.
Stats(row, calls, l) ==
    LET of == {c \in Call : calls[c].lead = l} IN
    [row EXCEPT !.dials = Cardinality(of), !.answered = Cardinality({c \in of : calls[c].on}),
                !.dialed = Max({calls[c].at : c \in of} \cup {@})]

\* apply_call_outcome has loaded the lead and counted its calls.  dial: the
\* call is new; at: the time the agent gives for a follow-up, or 0.
Applying(op, c, calls, d, named, at) == LET l == calls[c].lead IN
    [op |-> op, lead |-> l, copy |-> Stats(lead[l], calls, l), on |-> calls[c].on,
     st |-> NextStatus(lead[l].st, d.to, calls[c].on), d |-> d, named |-> named, at |-> at,
     owner |-> IF lead[l].owner # Nobody THEN lead[l].owner ELSE calls[c].agent]

\* A call is logged; the id makes a retry return the row that is there.
LogCall(r, a, c, l, o, at) == LET row == [lead |-> l, agent |-> a, on |-> Disposition[o].on, at |-> clock] IN
    /\ call[c] = NoCall /\ Sees(a, l)
    /\ at = 0 \/ at > clock
    /\ call' = [call EXCEPT ![c] = row]
    /\ Start(r, "call", Applying("call", c, call', Disposition[o], TRUE, at))
    /\ UNCHANGED <<lead, followup, queue, clock, crashed, mix>>

\* An outcome is set on a call that is saved.
SetOutcome(r, c, o, at) ==
    /\ call[c] # NoCall
    /\ at = 0 \/ at > clock
    /\ call' = [call EXCEPT ![c].on = Disposition[o].on]
    /\ Start(r, "outcome", Applying("outcome", c, call', Disposition[o], TRUE, at))
    /\ UNCHANGED <<lead, followup, queue, clock, crashed, mix>>

\* Click-to-call saves the call, then dials.
Click(r, a, c, l) ==
    /\ call[c] = NoCall /\ Sees(a, l)
    /\ call' = [call EXCEPT ![c] = [lead |-> l, agent |-> a, on |-> FALSE, at |-> clock]]
    /\ Start(r, "click", [op |-> "click", lead |-> l, call |-> c,
                          st |-> lead[l].st, worked |-> lead[l].worked])
    /\ UNCHANGED <<lead, followup, queue, clock, crashed, mix>>

\* The provider refuses: the lead is set back to what was loaded.
ClickFails(r) == LET l == req[r].lead IN
    /\ req[r].op = "click" /\ RowFree(l)
    /\ call' = [call EXCEPT ![req[r].call] = NoCall]
    /\ lead' = [lead EXCEPT ![l].st = req[r].st, ![l].worked = req[r].worked]
    /\ End(r)
    /\ UNCHANGED <<followup, queue, clock, crashed, met, started, mix>>

ClickDials(r) ==
    /\ req[r].op = "click"
    /\ req' = [req EXCEPT ![r] = Applying("call", @.call, call, NoOutcome, FALSE, 0)]
    /\ Meets(r, "call")
    /\ UNCHANGED <<lead, call, followup, queue, clock, crashed, started, mix>>

\* Mutant of Saved: a dial leaves the lead fresh.
SavedFresh(row, w) ==
    [row EXCEPT !.dials = w.copy.dials, !.answered = w.copy.answered, !.dialed = w.copy.dialed,
                !.st = IF w.st # w.copy.st THEN w.st ELSE @, !.dnd = @ \/ w.d.dnd]
\* The columns of the save: a dial works the lead and takes its lock off.
Saved(row, w) ==
    LET moved == w.st # w.copy.st
        base == IF w.op = "call" THEN NoLock(row) ELSE row
    IN  [base EXCEPT !.dials = w.copy.dials, !.answered = w.copy.answered, !.dialed = w.copy.dialed,
                     !.worked = @ \/ w.op = "call" \/ (moved /\ ~w.copy.worked),
                     !.st = IF moved THEN w.st ELSE @,
                     !.dnd = @ \/ (w.d.dnd /\ ~w.copy.dnd)]

OutcomeSave(r) == LET w == req[r] IN
    /\ w.op \in {"call", "outcome"} /\ RowFree(w.lead)
    /\ lead' = [lead EXCEPT ![w.lead] = Saved(@, w)]
    /\ IF w.named \/ w.at # 0 THEN req' = [req EXCEPT ![r].op = "replace"] ELSE End(r)
    /\ UNCHANGED <<call, followup, queue, clock, crashed, met, started, mix>>

Closes(w) == w.st \in Final \/ w.d.dnd

\* _replace_auto_followups
Replaced(rows, w) ==
    IF Closes(w) \/ w.on \/ w.d.retry # 0 \/ w.at # 0
    THEN Without(rows, AutoOf(rows, w.lead)) ELSE rows

OutcomeReplace(r) ==
    /\ req[r].op = "replace"
    /\ followup' = Replaced(followup, req[r])
    /\ req' = [req EXCEPT ![r].op = "book"]
    /\ UNCHANGED <<lead, call, queue, clock, crashed, met, started, mix>>

\* The retry of the outcome, or the time the agent gave.
OutcomeBook(r) ==
    /\ req[r].op = "book" /\ RowFree(req[r].lead) /\ Room
    /\ LET w == req[r]
           rows == CASE ~Closes(w) /\ w.at # 0 -> Booked(followup, w.lead, w.at, FALSE, w.owner)
                     [] ~Closes(w) /\ w.at = 0 /\ w.d.retry # 0 ->
                           Booked(followup, w.lead, clock + w.d.retry, TRUE, w.owner)
                     [] OTHER -> followup IN
       /\ followup' = rows
       /\ lead' = [lead EXCEPT ![w.lead].next = Refreshed(rows, w.lead, w.copy.next, @)]
    /\ End(r)
    /\ UNCHANGED <<call, queue, clock, crashed, met, started, mix>>

-----------------------------------------------------------------------------
(* Status and owner by hand, assignment, distribution.                      *)

\* update_status: a status other than new works the lead.
SetStatus(r, a, l, to) ==
    /\ Sees(a, l) /\ to # lead[l].st
    /\ Start(r, "status", [op |-> "status", lead |-> l, to |-> to, worked |-> lead[l].worked])
    /\ UNCHANGED <<deskVars, mix>>

StatusWrite(r) == LET l == req[r].lead IN
    /\ req[r].op = "status" /\ RowFree(l)
    /\ lead' = [lead EXCEPT ![l].st = req[r].to,
                            ![l].worked = @ \/ (req[r].to # "new" /\ ~req[r].worked)]
    /\ End(r)
    /\ UNCHANGED <<call, followup, queue, clock, crashed, met, started, mix>>

\* The edit form saves every column of the copy it loaded; the owner only for
\* a manager.
Edit(r, a, l, owner, to) ==
    /\ Sees(a, l)
    /\ owner # lead[l].owner => a \in Manager
    /\ Start(r, "edit", [op |-> "edit", lead |-> l, was |-> lead[l].owner,
                         row |-> [lead[l] EXCEPT !.owner = owner, !.st = to]])
    /\ UNCHANGED <<deskVars, mix>>

Follow(r, ls) == req' = [req EXCEPT ![r] = [op |-> "follow", leads |-> ls]]

EditWrite(r) == LET l == req[r].lead IN
    /\ req[r].op = "edit" /\ RowFree(l)
    /\ lead' = [lead EXCEPT ![l] = req[r].row]
    /\ IF req[r].row.owner # req[r].was THEN Follow(r, {l}) ELSE End(r)
    /\ UNCHANGED <<call, followup, queue, clock, crashed, met, started, mix>>

\* Bulk assignment, of one statement; their follow-ups go with them.
Assign(r, ls, a) ==
    /\ \A l \in ls : RowFree(l)
    /\ lead' = [l \in Lead |-> IF l \in ls THEN [lead[l] EXCEPT !.owner = a] ELSE lead[l]]
    /\ Start(r, "assign", [op |-> "assign", leads |-> ls])
    /\ UNCHANGED <<call, followup, queue, clock, crashed, mix>>

FollowOwner(r) ==
    /\ req[r].op \in {"assign", "follow"}
    /\ followup' = FollowingOwner(followup, req[r].leads)
    /\ End(r)
    /\ UNCHANGED <<lead, call, queue, clock, crashed, met, started, mix>>

\* All leads of an agent; or of the batch, perhaps only those not called yet,
\* out of the queue as well.
Unassign(a) ==
    /\ OwnedBy(a) # {} /\ \A l \in OwnedBy(a) : RowFree(l)
    /\ lead' = [l \in Lead |-> IF lead[l].owner = a THEN [lead[l] EXCEPT !.owner = Nobody] ELSE lead[l]]
    /\ Happens("unassign")
    /\ UNCHANGED <<call, followup, queue, clock, crashed, req, mix>>
TakeBack(uncalled) ==
    /\ \A l \in Lead : RowFree(l)
    /\ lead' = [l \in Lead |-> IF lead[l].owner # Nobody /\ (uncalled => lead[l].dials = 0)
                               THEN [NoLock(lead[l]) EXCEPT !.owner = Nobody] ELSE lead[l]]
    /\ Happens("unassign")
    /\ UNCHANGED <<call, followup, queue, clock, crashed, req, mix>>

OpenCount(a) == Cardinality({l \in OwnedBy(a) : lead[l].st \notin Final})
\* Mutant of Loads: only leads that nobody has worked are counted.
LoadsUnworked == [a \in Agent |-> Cardinality({l \in OwnedBy(a) : lead[l].st = "new"})]
\* current_open_counts
Loads == [a \in Agent |-> OpenCount(a)]

\* Leads by creation, agents by primary key.
InOrder(S) == CHOOSE s \in [1..Cardinality(S) -> S] : \A i, j \in DOMAIN s : i < j => s[i] < s[j]

\* distribute: the leads are read, the plan made, and then applied.
Distribute(r, unassigned, method, cap) ==
    LET ls == {l \in Lead : unassigned => lead[l].owner = Nobody}
        ids == InOrder(ls)
        agents == InOrder(Agent) IN
    /\ ls # {}
    /\ Start(r, "distribute",
             [op |-> "distribute", ids |-> ids, cap |-> cap,
              plan |-> Plan(method, Len(ids), agents, Loads, cap)])
    /\ UNCHANGED <<deskVars, mix>>

\* One transaction; leads nobody could take stay where they are.
PlannedOwner(w, l) == IF l \in Range(w.ids) THEN w.plan[CHOOSE k \in DOMAIN w.ids : w.ids[k] = l] ELSE Nobody
ApplyPlan(r) ==
    /\ req[r].op = "distribute"
    /\ \A l \in Lead : RowFree(l)
    /\ LET placed == {l \in Lead : PlannedOwner(req[r], l) # Nobody}
           owner(l) == IF l \in placed THEN PlannedOwner(req[r], l) ELSE lead[l].owner IN
       /\ lead' = [l \in Lead |-> [lead[l] EXCEPT !.owner = owner(l)]]
       /\ followup' = [f \in FollowUp |->
                          IF followup[f].lead \in placed
                          THEN [followup[f] EXCEPT !.owner = owner(followup[f].lead)] ELSE followup[f]]
    /\ End(r)
    /\ UNCHANGED <<call, queue, clock, crashed, met, started, mix>>

Tick ==
    /\ "tick" \in mix /\ clock < LastTick
    /\ clock' = clock + 1
    /\ UNCHANGED <<lead, call, followup, queue, crashed, req, met, started, mix>>

\* A process dies; a pull that has not committed leaves nothing.
Crash(r) ==
    /\ "crash" \in mix /\ ~crashed
    /\ ~Free(r)
    /\ crashed' = TRUE
    /\ End(r)
    /\ UNCHANGED <<lead, call, followup, queue, clock, met, started, mix>>

-----------------------------------------------------------------------------
DeskInit ==
    /\ lead \in [Lead -> {[FreshLead EXCEPT !.owner = o] : o \in Owner}]
    /\ call = [c \in Call |-> NoCall]
    /\ followup = [f \in FollowUp |-> NoFollow]
    /\ queue \in [on : {TRUE}, fresh : BOOLEAN]
    /\ clock = 1
    /\ crashed = FALSE

\* Nothing is tried that Start would refuse.
DeskLoad(r) ==
    /\ Free(r) /\ started < MaxRequests[mix]
    /\ \/ \E a \in Agent, l \in Lead :
             \/ \E at \in Later : Schedule(r, a, l, at)
             \/ Pull(r, a, l)
             \/ \E how \in {"dialed", "return", "skip"} : Release(r, a, l, how)
             \/ \E c \in Call : Click(r, a, c, l)
             \/ \E c \in Call, o \in Outcome, at \in Later \cup {0} : LogCall(r, a, c, l, o, at)
             \/ \E to \in ByHand : SetStatus(r, a, l, to) \/ Edit(r, a, l, lead[l].owner, to)
             \/ \E owner \in Owner : Edit(r, a, l, owner, lead[l].st)
       \/ \E c \in Call, o \in Outcome, at \in Later \cup {0} : SetOutcome(r, c, o, at)
       \/ \E f \in FollowUp : Complete(r, f)
       \/ \E ls \in (SUBSET Lead) \ {{}}, a \in Agent : Assign(r, ls, a)
       \/ \E unassigned \in BOOLEAN, method \in Methods, cap \in Caps : Distribute(r, unassigned, method, cap)

DeskWrite(r) ==
    \/ ScheduleWrite(r) \/ Supersede(r) \/ CompleteWrite(r)
    \/ PullCommit(r) \/ ReleaseDialed(r) \/ ReleaseWrite(r)
    \/ ClickFails(r) \/ ClickDials(r)
    \/ OutcomeSave(r) \/ OutcomeReplace(r) \/ OutcomeBook(r)
    \/ StatusWrite(r) \/ EditWrite(r) \/ FollowOwner(r) \/ ApplyPlan(r)
    \/ Crash(r)

DeskNext ==
    \/ \E r \in Request : DeskLoad(r) \/ DeskWrite(r)
    \/ \E a \in Agent : Unassign(a)
    \/ \E uncalled \in BOOLEAN : TakeBack(uncalled)
    \/ SwitchQueue \/ Tick
=============================================================================

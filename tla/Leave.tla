------------------------------- MODULE Leave -------------------------------
(***************************************************************************)
(* One employee's leave, leave balance and attendance:                     *)
(*                                                                         *)
(*   src/apps/hrms/services/leave.py, attendance.py    the operations      *)
(*   src/apps/hrms/views.py                            the endpoints       *)
(*                                                                         *)
(* A request is two steps: it loads and checks, then it writes.  Where the *)
(* code locks a row the write reads it again.  Module Payroll adds the     *)
(* payslips, and the refresh of the draft that follows every write to the  *)
(* attendance.  Days are counted in halves.                                *)
(***************************************************************************)
EXTENDS Requests, Integers, FiniteSetsExt

CONSTANTS
    Day,          \* dates, in order
    Month,        \* payroll months, in order
    MonthOf,      \* the month of each day
    Leave,        \* leave requests of one type, within one year
    Dates,        \* the dates of each request
    HalfDay,      \* requests for half a day
    Paid,         \* LeaveType.is_paid
    Quotas,       \* values of LeaveType.annual_quota_days; 0 is unlimited
    Allocations,  \* values of LeaveBalance.allocated_days HR enters
    Waiting,      \* requests that are pending at the start; no two overlap
    Dialer,       \* the status each day's dialer hours earn
    NoDoc,        \* a request without a row
    NoLeave       \* an attendance note that names no leave

Earned == {"present", "half_day", "absent"}
Worked == {"present", "half_day"}

ASSUME LeaveAssumption ==
    /\ Day \subseteq Nat /\ IsFiniteSet(Day)
    /\ Month \subseteq Nat /\ MonthOf \in [Day -> Month]
    /\ Dates \in [Leave -> SUBSET Day]
    /\ IsFiniteSet(Leave) /\ HalfDay \subseteq Leave /\ Waiting \subseteq Leave
    /\ \A k, l \in Waiting : k # l => Dates[k] \cap Dates[l] = {}
    /\ Paid \in BOOLEAN
    /\ Quotas \subseteq Nat /\ Quotas # {} /\ Allocations \subseteq Nat
    /\ Dialer \in [Day -> Earned]
    /\ NoDoc \notin Leave \cup Nat
    /\ NoLeave \notin Leave

VARIABLES
    leave,    \* LeaveRequest rows
    quota,    \* LeaveType.annual_quota_days
    balance,  \* the LeaveBalance row of the type and year
    att,      \* Attendance rows, one per day
    holiday,  \* Holiday rows
    today,    \* the date
    slip      \* Payslip rows, one per month; module Payroll changes them

LeaveStatus == {"none", "pending", "approved", "rejected", "cancelled"}
AttStatus == Earned \cup {"none", "on_leave", "holiday"}
Source == {"auto", "manual", "admin"}
SlipStatus == {"none", "draft", "finalized", "paid"}

LeaveRec == [st : LeaveStatus, days : Nat, charged : Nat]
BalanceRec == [exists : BOOLEAN, allocated : Nat, used : Nat]
\* given is observed by the properties only: the status an approved leave gave
\* the day, "none" where none did or HR has corrected it since.
AttRec == [st : AttStatus, source : Source, note : Leave \cup {NoLeave},
           in : BOOLEAN, out : BOOLEAN, given : AttStatus]

NoRow == [st |-> "none", source |-> "auto", note |-> NoLeave, in |-> FALSE, out |-> FALSE, given |-> "none"]
NoBalance == [exists |-> FALSE, allocated |-> 0, used |-> 0]
NoPay == [builtOn |-> 0, payable |-> 0, leaves |-> {}, claims |-> {}]

\* op: the operation in progress; doc: its row; n, to: its input; bal, row:
\* the copies it loaded; lost: that row was deleted since; todo: drafts to be
\* refreshed; pay: the payslip it computed.
Idle == [op |-> "idle", doc |-> NoDoc, n |-> 0, to |-> "none", bal |-> NoBalance,
         row |-> NoRow, lost |-> FALSE, todo |-> {}, pay |-> NoPay]

-----------------------------------------------------------------------------
End(r) == req' = [req EXCEPT ![r] = Idle]
Refused(r) == End(r) /\ UNCHANGED <<leave, quota, balance, att, holiday, today, slip, met, started, mix>>

\* Mutant of Refreshing: the signal is not sent.
RefreshingNothing(r, months) == Idle

\* The write committed; its signal refreshes the drafts of these months.
Refreshing(r, months) ==
    IF months = {} THEN Idle ELSE [Idle EXCEPT !.op = "refresh", !.todo = months]
EndRefreshing(r, months) == req' = [req EXCEPT ![r] = Refreshing(r, months)]

-----------------------------------------------------------------------------
(* Days.                                                                    *)
Off(d) == d \in holiday
StatusFor(d, earned) == IF Off(d) THEN "holiday" ELSE earned
WorkingDays(l) == {d \in Dates[l] : ~Off(d)}
\* days_by_year: the half days the range takes from the balance.
Units(l) == IF l \in HalfDay THEN Cardinality(WorkingDays(l)) ELSE 2 * Cardinality(WorkingDays(l))
Months(days) == {MonthOf[d] : d \in days}
WorkedDaysIn(l) == {d \in Dates[l] : att[d].st \in Worked}

LockedMonths(l) == {m \in Months(Dates[l]) : slip[m].st \notin {"none", "draft"}}

Remaining(b) == b.allocated - b.used
\* balance_for: get_or_create, seeded from the quota.
BalanceFor(b) == IF b.exists THEN b ELSE [exists |-> TRUE, allocated |-> quota, used |-> 0]

Open == {"pending", "approved"}

Overlapping(l) ==
    {k \in Leave \ {l} : leave[k].st \in Open /\ Dates[k] \cap Dates[l] # {}}

-----------------------------------------------------------------------------
(* Leave requests.                                                          *)

\* validate_request, unlocked; the balance row is opened on the way.
Apply(r, l) ==
    /\ leave[l].st = "none"
    /\ \A q \in Request : req[q].op = "apply" => req[q].doc # l
    /\ WorkingDays(l) # {}
    /\ Overlapping(l) = {}
    /\ LockedMonths(l) = {}
    /\ l \in HalfDay \/ WorkedDaysIn(l) = {}
    /\ quota > 0 => Remaining(BalanceFor(balance)) >= Units(l)
    /\ balance' = IF quota > 0 THEN BalanceFor(balance) ELSE balance
    /\ Start(r, "apply", [Idle EXCEPT !.doc = l, !.n = Units(l)])
    /\ UNCHANGED <<leave, quota, att, holiday, today, slip, mix>>

ApplyWrite(r) ==
    /\ req[r].op = "apply"
    /\ leave' = [leave EXCEPT ![req[r].doc] = [st |-> "pending", days |-> req[r].n, charged |-> 0]]
    /\ End(r)
    /\ UNCHANGED <<quota, balance, att, holiday, today, slip, met, started, mix>>

\* LeaveDecisionView holds the request's row lock from its check to the commit.
Unlocked(l) == \A q \in Request : ~(req[q].op \in {"approve", "cancel"} /\ req[q].doc = l)

Decidable(l) ==
    /\ leave[l].st = "pending" /\ Unlocked(l)
    /\ LockedMonths(l) = {}
    /\ WorkingDays(l) # {}
    /\ l \in HalfDay \/ WorkedDaysIn(l) = {}

Approve(r, l) ==
    /\ Decidable(l)
    /\ Start(r, "approve", [Idle EXCEPT !.doc = l, !.n = Units(l)])
    /\ UNCHANGED <<leave, quota, balance, att, holiday, today, slip, mix>>

LeaveStatusOn(d) == IF Off(d) THEN "holiday" ELSE IF Paid THEN "on_leave" ELSE "absent"
LeaveRow(l, d) == [att[d] EXCEPT !.st = LeaveStatusOn(d), !.given = LeaveStatusOn(d),
                                 !.source = "admin", !.note = l]
Booked(l) == IF l \in HalfDay THEN {} ELSE Dates[l]

\* Mutant of Covers: the balance the application saw is taken as enough.
CoversAsApplied(r) == TRUE

Covers(r) == quota > 0 => Remaining(BalanceFor(balance)) >= req[r].n

\* approve_leave: the balance row is locked and read again; a full-day leave
\* is written over the attendance of its dates.
ApproveWrite(r) == LET l == req[r].doc IN
    /\ req[r].op = "approve" /\ Covers(r)
    /\ balance' = IF quota > 0 THEN [BalanceFor(balance) EXCEPT !.used = @ + req[r].n] ELSE balance
    /\ att' = [d \in Day |-> IF d \in Booked(l) THEN LeaveRow(l, d) ELSE att[d]]
    /\ leave' = [leave EXCEPT ![l] = [st |-> "approved", days |-> req[r].n,
                                      charged |-> IF quota > 0 THEN req[r].n ELSE 0]]
    /\ EndRefreshing(r, Months(Booked(l)))
    /\ UNCHANGED <<quota, holiday, today, slip, met, started, mix>>

ApproveShort(r) ==
    /\ req[r].op = "approve" /\ ~Covers(r)
    /\ Refused(r)

Reject(l) ==
    /\ "reject" \in mix
    /\ leave[l].st = "pending" /\ Unlocked(l)
    /\ leave' = [leave EXCEPT ![l].st = "rejected"]
    /\ UNCHANGED <<quota, balance, att, holiday, today, slip, req, met, started, mix>>

Cancel(r, l) ==
    /\ leave[l].st \in Open /\ Unlocked(l)
    /\ leave[l].st = "approved" => LockedMonths(l) = {}
    /\ Start(r, "cancel", [Idle EXCEPT !.doc = l])
    /\ UNCHANGED <<leave, quota, balance, att, holiday, today, slip, mix>>

\* Mutant of Refund: the days are counted again from the dates.
RefundRecounted(l) == Units(l)

\* What a cancellation gives back: what was charged, or without a record of
\* it the days of the request.
Refund(l) == IF leave[l].charged > 0 THEN leave[l].charged ELSE leave[l].days

\* Mutant of Refunded: the refund may take the used days below zero.
RefundedBelowZero(l) ==
    IF quota > 0 /\ balance.exists THEN [balance EXCEPT !.used = @ - Refund(l)] ELSE balance

Refunded(l) ==
    IF quota > 0 /\ balance.exists
    THEN [balance EXCEPT !.used = IF @ > Refund(l) THEN @ - Refund(l) ELSE 0]
    ELSE balance

NotedRows(l) == {d \in Dates[l] : att[d].st # "none" /\ att[d].note = l}
Rebuilt(d) == IF d < today THEN [NoRow EXCEPT !.st = StatusFor(d, Dialer[d])] ELSE NoRow
OnRow == {"checkin", "checkout", "correct", "sync"}

\* cancel_leave: refund, delete the leave's attendance, rebuild the past days.
CancelWrite(r) == LET l == req[r].doc
                      rows == IF leave[l].st = "approved" THEN NotedRows(l) ELSE {} IN
    /\ req[r].op = "cancel"
    /\ balance' = IF leave[l].st = "approved" THEN Refunded(l) ELSE balance
    /\ att' = [d \in Day |-> IF d \in rows THEN Rebuilt(d) ELSE att[d]]
    /\ leave' = [leave EXCEPT ![l].st = "cancelled"]
    /\ req' = [q \in Request |->
                  IF q = r THEN Refreshing(r, Months(rows))
                  ELSE IF req[q].op \in OnRow /\ req[q].doc \in rows
                  THEN [req[q] EXCEPT !.lost = TRUE] ELSE req[q]]
    /\ UNCHANGED <<quota, holiday, today, slip, met, started, mix>>

-----------------------------------------------------------------------------
(* The leave type and the balance.                                          *)

SetQuota(n) ==
    /\ n # quota
    /\ quota' = n
    /\ Happens("quota")
    /\ UNCHANGED <<leave, balance, att, holiday, today, slip, req, mix>>

\* PATCH loads the row, POST and the yearly allocation look at it, DELETE
\* makes sure that nothing is used.
EditBalance(r, n) ==
    /\ balance.exists /\ balance.used <= n
    /\ Start(r, "patch", [Idle EXCEPT !.n = n, !.bal = balance])
    /\ UNCHANGED <<leave, quota, balance, att, holiday, today, slip, mix>>
Allocate(r, n) ==
    /\ balance.exists => balance.used <= n
    /\ Start(r, "allocate", [Idle EXCEPT !.n = n])
    /\ UNCHANGED <<leave, quota, balance, att, holiday, today, slip, mix>>
BulkAllocate(r) ==
    /\ balance.exists /\ balance.allocated < quota
    /\ Start(r, "topup", [Idle EXCEPT !.n = quota])
    /\ UNCHANGED <<leave, quota, balance, att, holiday, today, slip, mix>>
BulkCreate ==
    /\ "topup" \in mix /\ ~balance.exists
    /\ balance' = BalanceFor(balance)
    /\ UNCHANGED <<leave, quota, att, holiday, today, slip, req, met, started, mix>>
DropBalance(r) ==
    /\ balance.exists /\ balance.used = 0
    /\ Start(r, "drop", Idle)
    /\ UNCHANGED <<leave, quota, balance, att, holiday, today, slip, mix>>

\* PATCH saves every column of the copy it loaded; a row deleted since is
\* inserted again.
PatchWrite(r) ==
    /\ req[r].op = "patch"
    /\ balance' = IF req[r].lost /\ balance.exists THEN balance
                  ELSE [req[r].bal EXCEPT !.allocated = req[r].n]
    /\ End(r)
    /\ UNCHANGED <<leave, quota, att, holiday, today, slip, met, started, mix>>

AllocateWrite(r) ==
    /\ req[r].op \in {"allocate", "topup"}
    /\ balance' = IF req[r].op = "topup" /\ req[r].lost THEN balance
                  ELSE [BalanceFor(balance) EXCEPT !.allocated = req[r].n]
    /\ End(r)
    /\ UNCHANGED <<leave, quota, att, holiday, today, slip, met, started, mix>>

DropWrite(r) ==
    /\ req[r].op = "drop"
    /\ balance' = IF req[r].lost THEN balance ELSE NoBalance
    /\ req' = [q \in Request |->
                  IF q = r THEN Idle
                  ELSE IF req[q].op \in {"patch", "topup", "drop"} THEN [req[q] EXCEPT !.lost = TRUE]
                  ELSE req[q]]
    /\ UNCHANGED <<leave, quota, att, holiday, today, slip, met, started, mix>>

-----------------------------------------------------------------------------
(* Attendance: the sync from the dialer, the employee's check-in and        *)
(* check-out, HR's corrections, holidays.                                   *)

\* Checked in, never checked out, and the day is over.
LeftOpen(d) == att[d].source = "manual" /\ att[d].in /\ ~att[d].out /\ d < today

\* A row derived from the dialer, or none yet; never a decision of a human.
Derivable(d) == att[d].source = "auto" /\ att[d].st # "on_leave"

\* sync_attendance_for has read the row.
SyncOf(d) ==
    [Idle EXCEPT !.op = "sync", !.doc = d, !.row = IF LeftOpen(d) THEN att[d] ELSE NoRow,
                 !.to = IF LeftOpen(d) THEN "close" ELSE "derive"]

Sync(r, d) ==
    /\ d <= today
    /\ LeftOpen(d) \/ Derivable(d)
    /\ Start(r, "sync", SyncOf(d))
    /\ UNCHANGED <<leave, quota, balance, att, holiday, today, slip, mix>>

\* update_or_create keeps the note and the times of a row it finds.  A row
\* left open is closed with the hours of the dialer.
SyncWrite(r) == LET d == req[r].doc IN
    /\ req[r].op = "sync"
    /\ att' = [att EXCEPT ![d] =
                  IF req[r].to = "derive"
                  THEN [@ EXCEPT !.st = StatusFor(d, Dialer[d]), !.source = "auto"]
                  ELSE IF req[r].lost THEN @
                  ELSE [@ EXCEPT !.st = StatusFor(d, Dialer[d]), !.note = req[r].row.note]]
    /\ EndRefreshing(r, {MonthOf[d]})
    /\ UNCHANGED <<leave, quota, balance, holiday, today, slip, met, started, mix>>

\* A holiday is added or removed, and the day's derived row is rebuilt.
SetHoliday(r, d) ==
    /\ holiday' = IF Off(d) THEN holiday \ {d} ELSE holiday \cup {d}
    /\ Start(r, "holiday", [Idle EXCEPT !.doc = d])
    /\ UNCHANGED <<leave, quota, balance, att, today, slip, mix>>

Resync(r) == LET d == req[r].doc IN
    /\ req[r].op = "holiday"
    /\ IF d <= today /\ att[d].st # "none" /\ Derivable(d)
       THEN req' = [req EXCEPT ![r] = SyncOf(d)] /\ Meets(r, "sync")
       ELSE End(r) /\ UNCHANGED met
    /\ UNCHANGED <<leave, quota, balance, att, holiday, today, slip, started, mix>>

\* Mutant of Mark: a day on leave is not left as it is.
MarkAnyDay(r, kind) ==
    /\ today \in Day
    /\ att' = [att EXCEPT ![today].st = IF @ = "none" THEN "absent" ELSE @]
    /\ Start(r, kind, [Idle EXCEPT !.doc = today])
    /\ UNCHANGED <<leave, quota, balance, holiday, today, slip, mix>>

\* mark_check_in and mark_check_out of the current day: get_or_create, then a
\* save of some columns.  A day on leave stays as it is.
Mark(r, kind) ==
    /\ today \in Day
    /\ att[today].st # "on_leave"
    /\ att' = [att EXCEPT ![today].st = IF @ = "none" THEN "absent" ELSE @]
    /\ Start(r, kind, [Idle EXCEPT !.doc = today])
    /\ UNCHANGED <<leave, quota, balance, holiday, today, slip, mix>>

Marked(r, d) ==
    IF req[r].op = "checkin"
    THEN {[att[d] EXCEPT !.st = "present", !.source = "manual", !.in = TRUE]}
    ELSE {[att[d] EXCEPT !.st = StatusFor(d, e), !.source = "manual", !.out = TRUE] : e \in Earned}

MarkWrite(r) == LET d == req[r].doc IN
    /\ req[r].op \in {"checkin", "checkout"}
    /\ IF req[r].lost THEN UNCHANGED att ELSE \E row \in Marked(r, d) : att' = [att EXCEPT ![d] = row]
    /\ EndRefreshing(r, IF req[r].lost THEN {} ELSE {MonthOf[d]})
    /\ UNCHANGED <<leave, quota, balance, holiday, today, slip, met, started, mix>>

\* HR corrects the status or the note of a row, and saves every column of the
\* copy it loaded, or adds a row.  A note HR has written names no leave.
Correct(r, d, to, note) ==
    /\ att[d].st # "none" /\ note \in {att[d].note, NoLeave}
    /\ to # att[d].st \/ note # att[d].note
    /\ Start(r, "correct", [Idle EXCEPT !.doc = d, !.row = [att[d] EXCEPT !.note = note], !.to = to])
    /\ UNCHANGED <<leave, quota, balance, att, holiday, today, slip, mix>>

\* The pair {"note"} in met tells that a row no longer names its leave.
Renoted(r) == att[req[r].doc].note \notin {NoLeave, req[r].row.note}
Corrected(r) == [req[r].row EXCEPT !.st = req[r].to, !.source = "admin", !.given = "none"]

CorrectWrite(r) == LET d == req[r].doc IN
    /\ req[r].op = "correct"
    /\ IF req[r].lost /\ att[d].st # "none"
       THEN End(r) /\ UNCHANGED <<att, met>>
       ELSE /\ att' = [att EXCEPT ![d] = Corrected(r)]
            /\ met' = IF Renoted(r) THEN met \cup {{"note"}} ELSE met
            /\ EndRefreshing(r, {MonthOf[d]})
    /\ UNCHANGED <<leave, quota, balance, holiday, today, slip, started, mix>>

Add(r, d, to) ==
    /\ att[d].st = "none" /\ d <= today
    /\ Start(r, "correct", [Idle EXCEPT !.doc = d, !.to = to, !.lost = TRUE])
    /\ UNCHANGED <<leave, quota, balance, att, holiday, today, slip, mix>>

NextDay ==
    /\ "day" \in mix /\ today <= Max(Day)
    /\ today' = today + 1
    /\ UNCHANGED <<leave, quota, balance, att, holiday, slip, req, met, started, mix>>

-----------------------------------------------------------------------------
Corrections == {"present", "absent"}

LeaveLoad(r) ==
    \/ \E l \in Leave : Apply(r, l) \/ Approve(r, l) \/ Cancel(r, l)
    \/ \E n \in Allocations : EditBalance(r, n) \/ Allocate(r, n)
    \/ BulkAllocate(r) \/ DropBalance(r)
    \/ \E d \in Day : \/ Sync(r, d) \/ SetHoliday(r, d)
                      \/ \E to \in Corrections : \/ Add(r, d, to)
                                                \/ \E note \in Leave \cup {NoLeave} : Correct(r, d, to, note)
    \/ Mark(r, "checkin") \/ Mark(r, "checkout")

LeaveWrite(r) ==
    \/ ApplyWrite(r) \/ ApproveWrite(r) \/ ApproveShort(r) \/ CancelWrite(r)
    \/ PatchWrite(r) \/ AllocateWrite(r) \/ DropWrite(r)
    \/ SyncWrite(r) \/ Resync(r) \/ MarkWrite(r) \/ CorrectWrite(r)

LeaveNext ==
    \/ \E r \in Request : LeaveLoad(r) \/ LeaveWrite(r)
    \/ \E l \in Leave : Reject(l)
    \/ \E n \in Quotas : SetQuota(n)
    \/ BulkCreate
    \/ NextDay
=============================================================================

------------------------------ MODULE Payroll ------------------------------
(***************************************************************************)
(* The payslips of the employee of module Leave, and the expense claims    *)
(* they pay:                                                               *)
(*                                                                         *)
(*   src/apps/hrms/services/payroll.py   the build, what blocks finalizing *)
(*   src/apps/hrms/signals.py            the refresh of drafts             *)
(*   src/apps/hrms/views.py              finalize, reopen, paid, delete    *)
(***************************************************************************)
EXTENDS Leave

CONSTANTS
    Claim,       \* expense claims
    ClaimMonth,  \* the month each is dated in
    NoMonth      \* a claim no payslip pays

ASSUME PayrollAssumption ==
    /\ ClaimMonth \in [Claim -> Month]
    /\ NoMonth \notin Month

VARIABLES
    claim        \* ExpenseClaim rows: status and reimbursed_in

leaveVars == <<leave, quota, balance, att, holiday, today, mix>>
vars == <<leave, quota, balance, att, holiday, today, slip, req, met, started, mix, claim, crashed>>

PayRec == [builtOn : Nat, payable : Nat, leaves : SUBSET Leave, claims : SUBSET Claim]
SlipRec == [st : SlipStatus, pay : PayRec]
ClaimRec == [st : {"pending", "approved", "rejected"}, in : Month \cup {NoMonth}]
NoSlip == [st |-> "none", pay |-> NoPay]

-----------------------------------------------------------------------------
(* What a payslip is built from.                                            *)

DaysIn(m) == {d \in Day : MonthOf[d] = m}
ApprovedOn(d) == {l \in Leave : leave[l].st = "approved" /\ d \in Dates[l]}
\* _approved_leave_days: of two leaves on a day the one that starts first.
LeaveOn(d) == CHOOSE l \in ApprovedOn(d) : \A k \in ApprovedOn(d) : Min(Dates[l]) <= Min(Dates[k])
HalfLeaveOn(d) == ApprovedOn(d) # {} /\ LeaveOn(d) \in HalfDay /\ ~Off(d)

\* Half days worked, as _classify_days reads the row of a half-day leave.
WorkedHalves(st) == CASE st \in {"none", "half_day"} -> 1 [] st = "present" -> 2 [] OTHER -> 0

\* _classify_days: the half days a date is paid on a slip built on day t.
\* Approved leave without a row pays as the leave does, any other day
\* without a row is paid.
PaidHalves(d, t) ==
    CASE d > t -> 0
      [] d <= t /\ HalfLeaveOn(d) ->
            IF Paid /\ WorkedHalves(att[d].st) < 2 THEN WorkedHalves(att[d].st) + 1
            ELSE WorkedHalves(att[d].st)
      [] d <= t /\ ~HalfLeaveOn(d) ->
            CASE att[d].st = "none" -> IF Off(d) \/ ApprovedOn(d) = {} \/ Paid THEN 2 ELSE 0
              [] att[d].st = "absent" -> 0
              [] att[d].st = "half_day" -> 1
              [] OTHER -> 2

Payable(m, t) == Cardinality({d \in DaysIn(m) : PaidHalves(d, t) >= 1})
               + Cardinality({d \in DaysIn(m) : PaidHalves(d, t) = 2})
LeavesIn(m) == {l \in Leave : leave[l].st = "approved" /\ m \in Months(Dates[l])}
Upcoming(m, t) == {d \in DaysIn(m) : d > t}

\* Mutant of Claimable: a claim another slip pays counts too.
ClaimableAny(m, c) == claim[c].st = "approved" /\ ClaimMonth[c] <= m

\* Approved claims that no other slip has paid.
Claimable(m, c) ==
    /\ claim[c].st = "approved" /\ ClaimMonth[c] <= m
    /\ claim[c].in = NoMonth \/ (slip[m].st # "none" /\ claim[c].in = m)

PayOf(m) == [builtOn |-> today, payable |-> Payable(m, today), leaves |-> LeavesIn(m),
             claims |-> {c \in Claim : Claimable(m, c)}]

-----------------------------------------------------------------------------
(* Building: a payroll run, or the refresh after a change of attendance.    *)

\* Mutant of Buildable: a finalized slip is rebuilt as well.
BuildableAlways(m) == TRUE

Buildable(m) == slip[m].st \in {"none", "draft"}

RunPayroll(r, m) ==
    /\ Buildable(m)
    /\ Start(r, "build", [Idle EXCEPT !.doc = m, !.pay = PayOf(m)])
    /\ UNCHANGED <<leaveVars, slip, claim, crashed>>

\* _refresh_draft, after the commit: only a draft is rebuilt.
Refresh(r, m) ==
    /\ req[r].op = "refresh" /\ m \in req[r].todo
    /\ LET left == req[r].todo \ {m} IN
       IF slip[m].st = "draft"
       THEN /\ req' = [req EXCEPT ![r] = [Idle EXCEPT !.op = "build", !.doc = m, !.todo = left,
                                                      !.pay = PayOf(m)]]
            /\ Meets(r, "build")
       ELSE EndRefreshing(r, left) /\ UNCHANGED met
    /\ UNCHANGED <<leaveVars, slip, started, claim, crashed>>

\* build_payslip writes what it computed as a DRAFT, and its links.
BuildWrite(r) == LET m == req[r].doc IN
    /\ req[r].op = "build"
    /\ slip' = [slip EXCEPT ![m] = [st |-> "draft", pay |-> req[r].pay]]
    /\ claim' = [c \in Claim |->
                    IF claim[c].in = m /\ c \notin req[r].pay.claims
                    THEN [claim[c] EXCEPT !.in = NoMonth]
                    ELSE IF claim[c].in = NoMonth /\ c \in req[r].pay.claims
                    THEN [claim[c] EXCEPT !.in = m] ELSE claim[c]]
    /\ EndRefreshing(r, req[r].todo)
    /\ UNCHANGED <<leaveVars, met, started, crashed>>

-----------------------------------------------------------------------------
(* The payslip endpoints, and the decision on a claim.                      *)

\* finalize_blockers
Finalizable(m) ==
    /\ slip[m].st = "draft"
    /\ Max(DaysIn(m)) <= today
    /\ Upcoming(m, slip[m].pay.builtOn) = {}

SlipLoad(r, m) ==
    /\ \/ Finalizable(m) /\ Start(r, "finalize", [Idle EXCEPT !.doc = m])
       \/ slip[m].st \in {"finalized", "paid"} /\ Start(r, "pay", [Idle EXCEPT !.doc = m])
       \/ slip[m].st = "draft" /\ Start(r, "delete", [Idle EXCEPT !.doc = m])
    /\ UNCHANGED <<leaveVars, slip, claim, crashed>>

\* A conditional UPDATE: only a draft is finalized.
FinalizeWrite(r) == LET m == req[r].doc IN
    /\ req[r].op = "finalize"
    /\ slip' = [slip EXCEPT ![m].st = IF @ = "draft" /\ ~req[r].lost THEN "finalized" ELSE @]
    /\ End(r)
    /\ UNCHANGED <<leaveVars, met, started, claim, crashed>>

\* mark-paid saves the status, whatever it is by now.
PayWrite(r) == LET m == req[r].doc IN
    /\ req[r].op = "pay"
    /\ slip' = [slip EXCEPT ![m].st = IF req[r].lost THEN @ ELSE "paid"]
    /\ End(r)
    /\ UNCHANGED <<leaveVars, met, started, claim, crashed>>

\* The draft is deleted and its claims are released (SET_NULL).
DeleteWrite(r) == LET m == req[r].doc IN
    /\ req[r].op = "delete"
    /\ slip' = IF req[r].lost THEN slip ELSE [slip EXCEPT ![m] = NoSlip]
    /\ claim' = [c \in Claim |-> IF claim[c].in = m /\ ~req[r].lost
                                 THEN [claim[c] EXCEPT !.in = NoMonth] ELSE claim[c]]
    /\ req' = [q \in Request |->
                  IF q = r THEN Idle
                  ELSE IF req[q].op \in {"finalize", "pay", "delete"} /\ req[q].doc = m
                  THEN [req[q] EXCEPT !.lost = TRUE] ELSE req[q]]
    /\ UNCHANGED <<leaveVars, met, started, crashed>>

Reopenable(m) == slip[m].st = "finalized"

Reopen(m) ==
    /\ Reopenable(m)
    /\ slip' = [slip EXCEPT ![m].st = "draft"]
    /\ Happens("reopen")
    /\ UNCHANGED <<leaveVars, req, claim, crashed>>

\* One conditional UPDATE: only a claim still pending is decided.
DecideClaim(c, to) ==
    /\ claim[c].st = "pending" /\ "claim" \in mix
    /\ claim' = [claim EXCEPT ![c].st = to]
    /\ UNCHANGED <<leaveVars, slip, req, met, started, crashed>>

\* A process dies; what it had not committed is lost, and its refreshes.
Crash(r) ==
    /\ "crash" \in mix /\ ~crashed
    /\ req[r].op # "idle"
    /\ crashed' = TRUE
    /\ End(r)
    /\ UNCHANGED <<leaveVars, slip, met, started, claim>>

PayrollNext ==
    \/ \E r \in Request : \/ BuildWrite(r) \/ FinalizeWrite(r) \/ PayWrite(r) \/ DeleteWrite(r)
                          \/ Crash(r)
                          \/ \E m \in Month : RunPayroll(r, m) \/ Refresh(r, m) \/ SlipLoad(r, m)
    \/ \E m \in Month : Reopen(m)
    \/ \E c \in Claim : DecideClaim(c, "approved") \/ DecideClaim(c, "rejected")

-----------------------------------------------------------------------------
Init ==
    /\ quota \in Quotas
    /\ balance = IF quota > 0 /\ Waiting # {} THEN BalanceFor(NoBalance) ELSE NoBalance
    /\ att = [d \in Day |-> NoRow]
    /\ holiday = {}
    /\ leave = [l \in Leave |-> [st |-> IF l \in Waiting THEN "pending" ELSE "none",
                                days |-> IF l \in Waiting THEN Units(l) ELSE 0, charged |-> 0]]
    /\ today \in Day
    /\ slip = [m \in Month |-> NoSlip]
    /\ req = [r \in Request |-> Idle]
    /\ met = {} /\ started = 0 /\ mix \in Mixes
    /\ claim = [c \in Claim |-> [st |-> "pending", in |-> NoMonth]]
    /\ crashed = FALSE

Next ==
    \/ LeaveNext /\ UNCHANGED <<claim, crashed>>
    \/ PayrollNext

Spec == Init /\ [][Next]_vars

-----------------------------------------------------------------------------
Doc == Leave \cup Day \cup Month \cup {NoDoc}
Ops == {"idle", "apply", "approve", "cancel", "patch", "allocate", "topup", "drop", "sync", "holiday",
        "checkin", "checkout", "correct", "refresh", "build", "finalize", "pay", "delete"}
ReqRec == [op : Ops, doc : Doc, n : Nat, to : AttStatus \cup {"close", "derive"}, bal : BalanceRec,
           row : AttRec, lost : BOOLEAN, todo : SUBSET Month, pay : PayRec]

\* Type invariant: every variable keeps the type its declaration names.
TypeOK ==
    /\ leave \in [Leave -> LeaveRec]
    /\ quota \in Nat /\ balance \in BalanceRec
    /\ att \in [Day -> AttRec]
    /\ holiday \subseteq Day /\ today \in Nat
    /\ slip \in [Month -> SlipRec]
    /\ req \in [Request -> ReqRec]
    /\ \A pair \in met : pair \subseteq Ops \cup {"quota", "reopen", "note"}
    /\ started \in Nat /\ mix \in Mixes /\ crashed \in BOOLEAN
    /\ claim \in [Claim -> ClaimRec]

\* What each approved leave was charged.
Charges == [l \in Leave |-> IF leave[l].st = "approved" THEN leave[l].charged ELSE 0]

\* The balance has used exactly what the approved leaves were charged, after
\* any sequence of approvals, cancellations, holidays and allocations
\* (leave.py:191-203, 270-280).  A PATCH or a DELETE of the balance that meets
\* a decision breaks this, and so does a change of the quota from or to 0.
BalanceExact ==
    \/ Met({"patch", "drop"}, {"approve", "cancel"}) \/ {"quota"} \in met
    \/ balance.used = SumFunction(Charges)

\* No two approvals spend the same days: what is used was allocated, unless
\* HR set the allocation during an approval, or while another edit of the
\* balance put days back that a cancellation had returned (leave.py:191).
BalanceCovered ==
    Met({"allocate", "topup"}, {"approve", "patch"}) \/ balance.used <= balance.allocated

\* Two overlapping requests sent at once, or a sync or a correction that read
\* the row before the approval: the attendance need not be the leave's.
Unbooked == Met({"apply"}, {"apply"}) \/ Met({"sync", "correct"}, {"approve"})

\* The attendance of every date of an approved full-day leave is the leave's:
\* payroll pays a paid day as leave, and neither a sync has made it an absence
\* nor a check-in a working day (leave.py:205-227, attendance.py:125-127,
\* 229-232), until HR corrects it.  Not so if one of the above happened; and of
\* an approval that met a check-in or a check-out only the status is lost, in
\* the end to an absence.
LeaveOnBooks ==
    \/ Unbooked
    \/ \A l \in Leave : leave[l].st = "approved" =>
          \A d \in Booked(l) :
              /\ att[d].st # "none" /\ att[d].source # "auto"
              /\ att[d].given # "none" => att[d].note = l
              /\ att[d].given = "on_leave" =>
                    Met({"checkin", "checkout"}, {"approve"}) \/ att[d].st = "on_leave"

\* A claim is paid by the one slip it is linked to, so no two months pay it
\* (payroll.py:436-450), unless two builds overlapped.
ClaimPaidByItsSlip ==
    \/ Met({"build"}, {"build"})
    \/ \A m \in Month : slip[m].st # "none" => slip[m].pay.claims = {c \in Claim : claim[c].in = m}

\* What was finalized stays as it is until it is reopened, and what was paid
\* for good (payroll.py:287-288), unless a build or a delete that had read the
\* draft met the finalizing or the payment.
Frozen ==
    [][ \A m \in Month : slip[m].st \in {"finalized", "paid"} =>
          \/ Met({"build", "delete"}, {"finalize", "pay"})
          \/ /\ slip'[m].pay = slip[m].pay
             /\ slip'[m].st \in (IF slip[m].st = "paid" THEN {"paid"} ELSE {"draft", "finalized", "paid"}) ]_vars

\* When nothing is in progress, a draft pays what the attendance says: the
\* signal has rebuilt it (signals.py:4-13).  Not so when a build met another
\* operation or a worker died first, nor where cancelling leave finds rows that
\* do not name it; and neither reopening a slip nor half-day leave, which
\* writes no attendance, rebuilds one.
HalfTaken == \E l \in HalfDay : leave[l].st \in {"approved", "cancelled"}
Stale == Overlapped("build") \/ crashed \/ {"reopen"} \in met \/ HalfTaken \/ Unbooked
DraftInStep ==
    \/ Stale
    \/ \E r \in Request : req[r] # Idle
    \/ \A m \in Month : slip[m].st = "draft" => slip[m].pay.payable = Payable(m, slip[m].pay.builtOn)

\* A finalized or paid slip leaves no day of its month out (payroll.py:455-474)
\* and was built from the full-day leaves approved in it now: decisions wait
\* until it is reopened (leave.py:264-266).  A build from before the month's end
\* that met the finalizing breaks the first; the second, any build that met
\* another operation, a decision or a refresh that met the finalizing, a payment
\* that met the reopening, a worker that died, a cancelled leave whose rows name
\* another, or none since HR rewrote the note.
Decided ==
    \/ Overlapped("build") \/ crashed \/ Unbooked \/ {"note"} \in met
    \/ Met({"approve", "cancel", "refresh"}, {"finalize"}) \/ Met({"pay"}, {"reopen"})
FinalizedInFull ==
    \A m \in Month : slip[m].st \in {"finalized", "paid"} =>
        /\ Met({"build"}, {"finalize"}) \/ Upcoming(m, slip[m].pay.builtOn) = {}
        /\ Decided \/ slip[m].pay.leaves \ HalfDay = LeavesIn(m) \ HalfDay

\* A draft follows the attendance until it is finalized, then nothing does
\* (both of the above).
SlipsAgree == DraftInStep /\ FinalizedInFull
=============================================================================

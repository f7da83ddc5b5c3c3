----------------------------- MODULE MCPayroll -----------------------------
(* Leave and Payroll for TLC: a month of two days and one of one, two full  *)
(* leaves that share a day and a half day, and two claims.                  *)
EXTENDS Payroll, TLC

CONSTANTS a, b, h, c1, c2

Months2 == <<1, 1, 2>>
LeaveDates == a :> {2, 3} @@ b :> {1, 2} @@ h :> {1}
DialerHours == <<"present", "absent", "half_day">>
ClaimMonths == c1 :> 1 @@ c2 :> 2

Decisions == {"approve", "cancel"}
Balances == {Decisions \cup {"apply", "patch", "drop", "holiday"},
             Decisions \cup {"reject", "allocate", "topup", "quota"},
             Decisions \cup {"patch", "allocate"}}
Attendances == {Decisions \cup {"apply", "sync", "correct"},
                Decisions \cup {"checkin", "sync", "day"},
                {"approve", "checkin", "checkout", "sync", "correct"}}
Payslips == {Decisions \cup {"build", "finalize", "reopen", "crash"},
             {"build", "finalize", "pay", "reopen", "delete", "day"},
             {"build", "finalize", "delete", "claim"},
             Decisions \cup {"build", "finalize", "reopen", "sync", "correct"}}
AllMixes == Balances \cup Attendances \cup Payslips
Requests4 == [m \in AllMixes |-> 4]

\* Bound: the day a mix without time starts on, and an unlimited type only
\* where the quota changes.
Relevant ==
    /\ quota = 0 => "quota" \in mix
    /\ "day" \notin mix => today = 2

Symmetry == Permutations(Request)
=============================================================================

--------------------------- MODULE Payroll_proofs ---------------------------
(***************************************************************************)
(* Safety of Leave and Payroll for any number of requests in progress,     *)
(* leave requests, days, months and claims.                                *)
(***************************************************************************)
EXTENDS Payroll, Sums, FiniteSetTheorems, WellFoundedInduction, TLAPS

USE RequestsAssumption, LeaveAssumption, PayrollAssumption

-----------------------------------------------------------------------------
(* Type correctness: TypeOK is inductive together with the fact that every  *)
(* operation in progress has a row of its own kind.                         *)

OnLeave == {"apply", "approve", "cancel"}
OnDay == {"sync", "holiday", "checkin", "checkout", "correct"}
OnMonth == {"build", "finalize", "pay", "delete"}

Sound(x) ==
    /\ x \in ReqRec
    /\ x.op \in OnLeave => x.doc \in Leave
    /\ x.op \in OnDay => x.doc \in Day
    /\ x.op \in OnMonth => x.doc \in Month
    /\ x.op = "correct" => x.to \in Corrections

Pair == Ops \cup {"quota", "reopen", "note"}
TypeInv == TypeOK /\ \A r \in Request : Sound(req[r])

LEMMA NoneType ==
    /\ NoRow \in AttRec /\ NoBalance \in BalanceRec /\ NoPay \in PayRec
BY DEF NoRow, NoBalance, NoPay, AttRec, BalanceRec, PayRec, AttStatus, Source, Earned

LEMMA IdleSound == Sound(Idle)
BY NoneType DEF Idle, Sound, ReqRec, Ops, Doc, OnLeave, OnDay, OnMonth, AttStatus

LEMMA RefreshSound ==
    ASSUME NEW r, NEW months \in SUBSET Month
    PROVE  Sound(Refreshing(r, months))
<1> DEFINE h == [Idle EXCEPT !.op = "refresh", !.todo = months]
<1>1. Sound(h)
  BY NoneType DEF Idle, Sound, ReqRec, Ops, Doc, OnLeave, OnDay, OnMonth, AttStatus
<1>2. QED
  BY <1>1, IdleSound DEF Refreshing

\* The row of a request was deleted.
LEMMA LostSound == ASSUME NEW x, Sound(x) PROVE Sound([x EXCEPT !.lost = TRUE])
<1> DEFINE h == [x EXCEPT !.lost = TRUE]
<1>1. h \in ReqRec /\ h.op = x.op /\ h.doc = x.doc /\ h.to = x.to
  BY DEF Sound, ReqRec
<1> HIDE DEF h
<1>2. Sound(h)
  BY <1>1 DEF Sound
<1>3. QED
  BY <1>2 DEF h

\* What a request is replaced by keeps the type of req.
LEMMA Becomes ==
    ASSUME TypeInv, NEW r \in Request, NEW h, Sound(h), req' = [req EXCEPT ![r] = h]
    PROVE  req' \in [Request -> ReqRec] /\ \A q \in Request : Sound(req'[q])
BY DEF TypeInv, TypeOK, Sound

LEMMA Ends ==
    ASSUME TypeInv, NEW r \in Request, End(r)
    PROVE  req' \in [Request -> ReqRec] /\ \A q \in Request : Sound(req'[q])
BY Becomes, IdleSound DEF End

LEMMA EndsRefreshing ==
    ASSUME TypeInv, NEW r \in Request, NEW months \in SUBSET Month, EndRefreshing(r, months)
    PROVE  req' \in [Request -> ReqRec] /\ \A q \in Request : Sound(req'[q])
BY Becomes, RefreshSound DEF EndRefreshing

LEMMA MeetsType ==
    ASSUME TypeInv, NEW r \in Request, NEW kind \in Pair, Meets(r, kind)
    PROVE  \A pair \in met' : pair \subseteq Pair
<1>1. \A q \in Request : req[q].op \in Ops
  BY DEF TypeInv, TypeOK, ReqRec
<1>2. \A pair \in met : pair \subseteq Pair
  BY DEF TypeInv, TypeOK, Pair
<1>3. Ops \subseteq Pair
  BY DEF Pair
<1>4. QED
  BY <1>1, <1>2, <1>3 DEF Meets, Others

LEMMA HappensType ==
    ASSUME TypeInv, NEW kind \in Pair, Happens(kind)
    PROVE  (\A pair \in met' : pair \subseteq Pair) /\ started' \in Nat
<1>1. \A q \in Request : req[q].op \in Ops
  BY DEF TypeInv, TypeOK, ReqRec
<1>2. \A pair \in met : pair \subseteq Pair
  BY DEF TypeInv, TypeOK, Pair
<1>3. Ops \subseteq Pair
  BY DEF Pair
<1>4. \A pair \in met' : pair \subseteq Pair
  BY <1>1, <1>2, <1>3 DEF Happens
<1>5. started \in Nat /\ started' = started + 1
  BY DEF Happens, TypeInv, TypeOK
<1>6. QED
  BY <1>4, <1>5

\* A request that starts with a row of its kind.
LEMMA Starts ==
    ASSUME TypeInv, NEW r \in Request, NEW kind \in Ops, NEW fields \in ReqRec,
           kind \in OnLeave => fields.doc \in Leave,
           kind \in OnDay => fields.doc \in Day,
           kind \in OnMonth => fields.doc \in Month,
           kind = "correct" => fields.to \in Corrections,
           Start(r, kind, fields)
    PROVE  /\ req' \in [Request -> ReqRec] /\ \A q \in Request : Sound(req'[q])
           /\ \A pair \in met' : pair \subseteq Pair
           /\ started' \in Nat
<1> DEFINE h == [fields EXCEPT !.op = kind]
<1>1. Sound(h)
  <2>1. h \in ReqRec
    BY DEF ReqRec
  <2>2. h.op = kind /\ h.doc = fields.doc /\ h.to = fields.to
    BY DEF ReqRec
  <2> HIDE DEF h
  <2>3. QED
    BY <2>1, <2>2 DEF Sound
<1>2. req' = [req EXCEPT ![r] = h]
  BY DEF Start
<1> HIDE DEF h
<1>3. req' \in [Request -> ReqRec] /\ \A q \in Request : Sound(req'[q])
  BY <1>1, <1>2, Becomes
<1>4. \A pair \in met' : pair \subseteq Pair
  BY MeetsType DEF Start, Pair
<1>5. QED
  BY <1>3, <1>4 DEF Start, TypeInv, TypeOK

-----------------------------------------------------------------------------
(* What the operators return.                                               *)

LEMMA UnitsType == \A l \in Leave : Units(l) \in Nat
<1> SUFFICES ASSUME NEW l \in Leave PROVE Units(l) \in Nat
  OBVIOUS
<1>1. IsFiniteSet(WorkingDays(l))
  BY FS_Subset DEF WorkingDays
<1>2. Cardinality(WorkingDays(l)) \in Nat
  BY <1>1, FS_CardinalityType
<1>3. QED
  BY <1>2 DEF Units

LEMMA PayableType ==
    ASSUME NEW m \in Month, NEW t
    PROVE  Payable(m, t) \in Nat
<1>1. IsFiniteSet({d \in DaysIn(m) : PaidHalves(d, t) >= 1}) /\ IsFiniteSet({d \in DaysIn(m) : PaidHalves(d, t) = 2})
  BY FS_Subset DEF DaysIn
<1>2. /\ Cardinality({d \in DaysIn(m) : PaidHalves(d, t) >= 1}) \in Nat
      /\ Cardinality({d \in DaysIn(m) : PaidHalves(d, t) = 2}) \in Nat
  BY <1>1, FS_CardinalityType
<1>3. QED
  BY <1>2 DEF Payable

LEMMA PayType == ASSUME TypeInv, NEW m \in Month PROVE PayOf(m) \in PayRec
<1>1. Payable(m, today) \in Nat
  BY PayableType
<1>2. QED
  BY <1>1 DEF PayOf, PayRec, LeavesIn, TypeInv, TypeOK

LEMMA BalanceType == ASSUME TypeInv PROVE BalanceFor(balance) \in BalanceRec
BY DEF BalanceFor, BalanceRec, TypeInv, TypeOK

LEMMA StatusType == \A d \in Day, e \in Earned : StatusFor(d, e) \in AttStatus \ {"none", "on_leave"}
BY DEF StatusFor, AttStatus, Earned

LEMMA MonthsType == \A days \in SUBSET Day : Months(days) \in SUBSET Month
BY DEF Months

LEMMA RowChange ==
    ASSUME NEW row \in AttRec, NEW st \in AttStatus, NEW source \in Source,
           NEW note \in Leave \cup {NoLeave}
    PROVE  /\ [row EXCEPT !.st = st] \in AttRec
           /\ [row EXCEPT !.st = st, !.source = source] \in AttRec
           /\ [row EXCEPT !.st = st, !.note = note] \in AttRec
           /\ [row EXCEPT !.note = note] \in AttRec
           /\ [row EXCEPT !.st = st, !.given = st, !.source = source, !.note = note] \in AttRec
           /\ [row EXCEPT !.st = st, !.source = source, !.given = "none"] \in AttRec
           /\ [row EXCEPT !.st = st, !.source = source, !.in = TRUE] \in AttRec
           /\ [row EXCEPT !.st = st, !.source = source, !.out = TRUE] \in AttRec
BY DEF AttRec, AttStatus

LEMMA LeaveStatusType == \A d \in Day : LeaveStatusOn(d) \in AttStatus \ {"none"}
BY DEF LeaveStatusOn, AttStatus, Earned

\* A correction notes at most that it took a leave's name off a row.
LEMMA CorrectMet ==
    ASSUME NEW r, CorrectWrite(r)
    PROVE  met \subseteq met' /\ met' \subseteq met \cup {{"note"}}
BY DEF CorrectWrite

LEMMA DayOf == \A l \in Leave : Dates[l] \subseteq Day /\ Booked(l) \subseteq Day
BY DEF Booked

\* A request that starts, or goes on, and has written nothing.
LEMMA LoadKeeps ==
    ASSUME TypeInv, UNCHANGED <<leave, quota, balance, att, holiday, today, slip, mix, claim, crashed>>,
           req' \in [Request -> ReqRec], \A q \in Request : Sound(req'[q]),
           \A pair \in met' : pair \subseteq Pair, started' \in Nat
    PROVE  TypeInv'
BY DEF TypeInv, TypeOK, Pair

\* A write that is its operation's last leaves the rest alone.
LEMMA WriteKeeps ==
    ASSUME TypeInv, leave' \in [Leave -> LeaveRec], balance' \in BalanceRec, att' \in [Day -> AttRec],
           req' \in [Request -> ReqRec], \A q \in Request : Sound(req'[q]),
           UNCHANGED <<quota, holiday, today, slip, met, started, mix, claim, crashed>>
    PROVE  TypeInv'
BY DEF TypeInv, TypeOK

LEMMA LoadType ==
    ASSUME TypeInv, NEW r \in Request, LeaveLoad(r), UNCHANGED <<claim, crashed>>
    PROVE  TypeInv'
<1> DEFINE Begun == /\ req' \in [Request -> ReqRec] /\ \A q \in Request : Sound(req'[q])
                    /\ \A pair \in met' : pair \subseteq Pair
                    /\ started' \in Nat
<1> USE DEF Ops, OnLeave, OnDay, OnMonth
<1>0. Idle \in ReqRec /\ IsFiniteSet(Day)
  BY IdleSound DEF Sound
<1>1. CASE \E l \in Leave : Apply(r, l) \/ Approve(r, l) \/ Cancel(r, l)
  <2>1. PICK l \in Leave : Apply(r, l) \/ Approve(r, l) \/ Cancel(r, l)
    BY <1>1
  <2> DEFINE x == [Idle EXCEPT !.doc = l, !.n = Units(l)]
             y == [Idle EXCEPT !.doc = l]
  <2>2. x \in ReqRec /\ x.doc = l /\ y \in ReqRec /\ y.doc = l
    BY <1>0, NoneType, UnitsType DEF ReqRec, Idle, Doc
  <2>3. \E kind \in OnLeave : Start(r, kind, x) \/ Start(r, kind, y)
    BY <2>1 DEF Apply, Approve, Cancel
  <2> HIDE DEF x, y
  <2>4. Begun
    BY <2>2, <2>3, Starts
  <2>5. balance' \in BalanceRec
    BY <2>1, BalanceType DEF Apply, Approve, Cancel, TypeInv, TypeOK
  <2>6. UNCHANGED <<leave, quota, att, holiday, today, slip, mix>>
    BY <2>1 DEF Apply, Approve, Cancel
  <2>7. QED
    BY <2>4, <2>5, <2>6 DEF TypeInv, TypeOK, Pair
<1>2. CASE (\E n \in Allocations : EditBalance(r, n) \/ Allocate(r, n)) \/ BulkAllocate(r) \/ DropBalance(r)
  <2>1. \A n \in Nat : [Idle EXCEPT !.n = n, !.bal = balance] \in ReqRec /\ [Idle EXCEPT !.n = n] \in ReqRec
    BY <1>0 DEF ReqRec, Idle, TypeInv, TypeOK
  <2>2. quota \in Nat
    BY DEF TypeInv, TypeOK
  <2>3. Begun
    <3>1. ASSUME NEW n \in Allocations, EditBalance(r, n) PROVE Begun
      BY <3>1, <2>1, Starts DEF EditBalance
    <3>2. ASSUME NEW n \in Allocations, Allocate(r, n) PROVE Begun
      BY <3>2, <2>1, Starts DEF Allocate
    <3>3. CASE BulkAllocate(r)
      BY <3>3, <2>1, <2>2, Starts DEF BulkAllocate
    <3>4. CASE DropBalance(r)
      BY <3>4, <1>0, Starts DEF DropBalance
    <3>5. QED
      BY <1>2, <3>1, <3>2, <3>3, <3>4
  <2>4. UNCHANGED <<leave, quota, balance, att, holiday, today, slip, mix>>
    BY <1>2 DEF EditBalance, Allocate, BulkAllocate, DropBalance
  <2>5. QED
    BY <2>3, <2>4, LoadKeeps
<1>3. ASSUME NEW d \in Day, Sync(r, d) PROVE TypeInv'
  <2>1. SyncOf(d) \in ReqRec /\ SyncOf(d).doc = d
    BY <1>0, NoneType DEF SyncOf, ReqRec, Idle, Doc, TypeInv, TypeOK
  <2>2. Begun
    BY <1>3, <2>1, Starts DEF Sync
  <2>3. QED
    BY <1>3, <2>2, LoadKeeps DEF Sync
<1>4. ASSUME NEW d \in Day, SetHoliday(r, d) PROVE TypeInv'
  <2> DEFINE x == [Idle EXCEPT !.doc = d]
  <2>1. x \in ReqRec /\ x.doc = d
    BY <1>0 DEF ReqRec, Idle, Doc
  <2> HIDE DEF x
  <2>2. Begun
    BY <1>4, <2>1, Starts DEF SetHoliday, x
  <2>3. holiday' \subseteq Day
    BY <1>4 DEF SetHoliday, TypeInv, TypeOK
  <2>4. QED
    BY <1>4, <2>2, <2>3 DEF SetHoliday, TypeInv, TypeOK, Pair
<1>5. ASSUME NEW d \in Day, NEW to \in Corrections, NEW note \in Leave \cup {NoLeave},
             Correct(r, d, to, note) \/ Add(r, d, to)
      PROVE TypeInv'
  <2> DEFINE row == [att[d] EXCEPT !.note = note]
             x == [Idle EXCEPT !.doc = d, !.row = row, !.to = to]
             y == [Idle EXCEPT !.doc = d, !.to = to, !.lost = TRUE]
  <2>0. att[d] \in AttRec
    BY DEF TypeInv, TypeOK
  <2>1. to \in AttStatus /\ row \in AttRec
    BY <2>0 DEF Corrections, AttStatus, Earned, AttRec
  <2> HIDE DEF row
  <2>2. x \in ReqRec /\ x.doc = d /\ x.to = to /\ y \in ReqRec /\ y.doc = d /\ y.to = to
    BY <1>0, <2>1 DEF ReqRec, Idle, Doc
  <2> HIDE DEF x, y
  <2>3. Begun
    BY <1>5, <2>2, Starts DEF Correct, Add, row, x, y
  <2>4. QED
    BY <1>5, <2>3, LoadKeeps DEF Correct, Add
<1>6. ASSUME NEW kind \in {"checkin", "checkout"}, Mark(r, kind) PROVE TypeInv'
  <2> DEFINE x == [Idle EXCEPT !.doc = today]
             st == IF att[today].st = "none" THEN "absent" ELSE att[today].st
             row == [att[today] EXCEPT !.st = st]
  <2>0. today \in Day
    BY <1>6 DEF Mark
  <2>1. x \in ReqRec /\ x.doc = today
    BY <1>0, <2>0 DEF ReqRec, Idle, Doc
  <2>r. att[today] \in AttRec
    BY <2>0 DEF TypeInv, TypeOK
  <2>2. row \in AttRec
    <3>1. st \in AttStatus
      BY <2>r DEF AttRec, AttStatus, Earned
    <3>2. QED
      BY <2>r, <3>1, RowChange DEF Source
  <2>3. att' = [att EXCEPT ![today] = row]
    BY <1>6 DEF Mark
  <2>k. Start(r, kind, x) /\ kind \in Ops /\ kind \notin OnLeave \cup OnMonth \cup {"correct"}
    BY <1>6 DEF Mark
  <2> HIDE DEF x, row, Begun
  <2>4. Begun
    BY <2>0, <2>1, <2>k, Starts DEF Begun
  <2>5. att' \in [Day -> AttRec]
    BY <2>2, <2>3 DEF TypeInv, TypeOK
  <2>6. QED
    BY <1>6, <2>4, <2>5 DEF Mark, Begun, TypeInv, TypeOK, Pair
<1>7. QED
  BY <1>1, <1>2, <1>3, <1>4, <1>5, <1>6 DEF LeaveLoad

LEMMA WriteType ==
    ASSUME TypeInv, NEW r \in Request, LeaveWrite(r), UNCHANGED <<claim, crashed>>
    PROVE  TypeInv'
<1> DEFINE Begun == req' \in [Request -> ReqRec] /\ \A q \in Request : Sound(req'[q])
           l == req[r].doc
           x == req[r]
<1> USE DEF Ops, OnLeave, OnDay, OnMonth
<1>0. Sound(x) /\ x \in ReqRec
  BY DEF TypeInv, Sound
<1>a. /\ \A d \in Day : att[d] \in AttRec /\ Dialer[d] \in Earned
      /\ balance \in BalanceRec /\ quota \in Nat
  BY DEF TypeInv, TypeOK
<1> HIDE DEF Begun
<1>1. CASE ApplyWrite(r)
  <2> DEFINE row == [st |-> "pending", days |-> req[r].n, charged |-> 0]
  <2>1. row \in LeaveRec
    BY <1>0 DEF LeaveRec, LeaveStatus, ReqRec
  <2>2. leave' = [leave EXCEPT ![l] = row]
    BY <1>1 DEF ApplyWrite
  <2> HIDE DEF row
  <2>3. leave' \in [Leave -> LeaveRec]
    BY <2>1, <2>2 DEF TypeInv, TypeOK
  <2>4. Begun
    BY <1>1, Ends DEF ApplyWrite, Begun
  <2>5. QED
    BY <1>1, <2>3, <2>4 DEF ApplyWrite, Begun, TypeInv, TypeOK
<1>2. CASE ApproveWrite(r)
  <2> DEFINE row == [st |-> "approved", days |-> req[r].n, charged |-> IF quota > 0 THEN req[r].n ELSE 0]
             bal == IF quota > 0 THEN [BalanceFor(balance) EXCEPT !.used = @ + req[r].n] ELSE balance
  <2>0. l \in Leave /\ req[r].n \in Nat
    BY <1>0, <1>2 DEF ApproveWrite, Sound, ReqRec
  <2>1. row \in LeaveRec /\ bal \in BalanceRec
    BY <2>0, <1>a, BalanceType DEF LeaveRec, LeaveStatus, BalanceRec
  <2>2. leave' = [leave EXCEPT ![l] = row] /\ balance' = bal
    BY <1>2 DEF ApproveWrite
  <2> HIDE DEF row, bal
  <2>3. leave' \in [Leave -> LeaveRec] /\ balance' \in BalanceRec
    BY <2>1, <2>2 DEF TypeInv, TypeOK
  <2>4. \A d \in Day : LeaveRow(l, d) \in AttRec
    BY <1>a, <2>0, RowChange, LeaveStatusType DEF LeaveRow, Source
  <2>5. att' \in [Day -> AttRec]
    BY <1>2, <1>a, <2>4 DEF ApproveWrite
  <2>6. Months(Booked(l)) \in SUBSET Month
    BY <2>0, MonthsType, DayOf
  <2>7. Begun
    BY <1>2, <2>6, EndsRefreshing DEF ApproveWrite, Begun
  <2>8. QED
    BY <1>2, <2>3, <2>5, <2>7 DEF ApproveWrite, Begun, TypeInv, TypeOK
<1>3. CASE ApproveShort(r)
  BY <1>3, Ends DEF ApproveShort, Refused, TypeInv, TypeOK
<1>4. CASE CancelWrite(r)
  <2> DEFINE rows == IF leave[l].st = "approved" THEN NotedRows(l) ELSE {}
             row == [leave[l] EXCEPT !.st = "cancelled"]
  <2>0. l \in Leave /\ leave[l] \in LeaveRec
    BY <1>0, <1>4 DEF CancelWrite, Sound, TypeInv, TypeOK
  <2>1. Refunded(l) \in BalanceRec
    <3>1. Refund(l) \in Nat
      BY <2>0 DEF Refund, LeaveRec
    <3>2. QED
      BY <3>1, <1>a DEF Refunded, BalanceRec
  <2>2. balance' \in BalanceRec
    BY <1>4, <1>a, <2>1 DEF CancelWrite
  <2>3. row \in LeaveRec /\ leave' = [leave EXCEPT ![l] = row]
    BY <1>4, <2>0 DEF LeaveRec, LeaveStatus, CancelWrite
  <2>4. \A d \in Day : Rebuilt(d) \in AttRec
    BY <1>a, NoneType, RowChange, StatusType DEF Rebuilt, Source
  <2>5. att' = [d \in Day |-> IF d \in rows THEN Rebuilt(d) ELSE att[d]]
    BY <1>4 DEF CancelWrite
  <2>6. Months(rows) \in SUBSET Month
    BY <2>0, MonthsType, DayOf DEF NotedRows
  <2>7. req' = [q \in Request |->
                  IF q = r THEN Refreshing(r, Months(rows))
                  ELSE IF req[q].op \in OnRow /\ req[q].doc \in rows
                  THEN [req[q] EXCEPT !.lost = TRUE] ELSE req[q]]
    BY <1>4 DEF CancelWrite
  <2> HIDE DEF rows, row
  <2>8. Sound(Refreshing(r, Months(rows)))
    BY <2>6, RefreshSound
  <2>9. \A q \in Request : Sound(req[q]) /\ Sound([req[q] EXCEPT !.lost = TRUE])
    BY LostSound DEF TypeInv
  <2>10. Begun
    BY <2>7, <2>8, <2>9 DEF Begun, Sound
  <2>11. leave' \in [Leave -> LeaveRec]
    BY <2>3 DEF TypeInv, TypeOK
  <2>12. att' \in [Day -> AttRec]
    BY <1>a, <2>4, <2>5
  <2>13. QED
    BY <1>4, <2>2, <2>10, <2>11, <2>12, WriteKeeps DEF CancelWrite, Begun
<1>5. CASE PatchWrite(r)
  <2>1. [req[r].bal EXCEPT !.allocated = req[r].n] \in BalanceRec
    BY <1>0 DEF ReqRec, BalanceRec
  <2>2. balance' \in BalanceRec
    BY <1>5, <1>a, <2>1 DEF PatchWrite
  <2>3. QED
    BY <1>5, <2>2, Ends DEF PatchWrite, TypeInv, TypeOK
<1>6. CASE AllocateWrite(r)
  <2>1. [BalanceFor(balance) EXCEPT !.allocated = req[r].n] \in BalanceRec
    BY <1>0, BalanceType DEF ReqRec, BalanceRec
  <2>2. balance' \in BalanceRec
    BY <1>6, <1>a, <2>1 DEF AllocateWrite
  <2>3. QED
    BY <1>6, <2>2, Ends DEF AllocateWrite, TypeInv, TypeOK
<1>7. CASE DropWrite(r)
  <2>1. balance' \in BalanceRec
    BY <1>7, <1>a, NoneType DEF DropWrite
  <2>2. \A q \in Request : Sound(req[q]) /\ Sound([req[q] EXCEPT !.lost = TRUE])
    BY LostSound DEF TypeInv
  <2>3. req' = [q \in Request |->
                  IF q = r THEN Idle
                  ELSE IF req[q].op \in {"patch", "topup", "drop"} THEN [req[q] EXCEPT !.lost = TRUE]
                  ELSE req[q]]
    BY <1>7 DEF DropWrite
  <2>4. Begun
    BY <2>2, <2>3, IdleSound DEF Begun, Sound
  <2>5. QED
    BY <1>7, <2>1, <2>4 DEF DropWrite, Begun, TypeInv, TypeOK
<1>8. CASE SyncWrite(r)
  <2> DEFINE y == [att[l] EXCEPT !.st = StatusFor(l, Dialer[l]), !.source = "auto"]
             z == [att[l] EXCEPT !.st = StatusFor(l, Dialer[l]), !.note = req[r].row.note]
  <2>0. l \in Day /\ req[r].row.note \in Leave \cup {NoLeave}
    BY <1>0, <1>8 DEF SyncWrite, Sound, ReqRec, AttRec
  <2>1. y \in AttRec /\ z \in AttRec
    BY <1>a, <2>0, RowChange, StatusType DEF Source
  <2>2. \/ att' = [att EXCEPT ![l] = y] \/ att' = [att EXCEPT ![l] = att[l]]
        \/ att' = [att EXCEPT ![l] = z]
    BY <1>8 DEF SyncWrite
  <2> HIDE DEF y, z
  <2>3. att' \in [Day -> AttRec]
    BY <1>a, <2>0, <2>1, <2>2 DEF TypeInv, TypeOK
  <2>4. Begun
    BY <1>8, <2>0, EndsRefreshing DEF SyncWrite, Begun
  <2>5. QED
    BY <1>8, <2>3, <2>4 DEF SyncWrite, Begun, TypeInv, TypeOK
<1>9. CASE Resync(r)
  <2>0. l \in Day
    BY <1>0, <1>9 DEF Resync, Sound
  <2>1. Sound(SyncOf(l))
    BY <1>a, <2>0, NoneType DEF SyncOf, Sound, ReqRec, Idle, Doc, TypeInv, TypeOK
  <2>2. Begun
    <3>1. CASE req' = [req EXCEPT ![r] = SyncOf(l)]
      BY <2>1, <3>1, Becomes DEF Begun
    <3>2. CASE End(r)
      BY <3>2, Ends DEF Begun
    <3>3. QED
      BY <1>9, <3>1, <3>2 DEF Resync
  <2>3. \A pair \in met' : pair \subseteq Pair
    <3>1. CASE Meets(r, "sync")
      BY <3>1, MeetsType DEF Pair
    <3>2. CASE UNCHANGED met
      BY <3>2 DEF TypeInv, TypeOK, Pair
    <3>3. QED
      BY <1>9, <3>1, <3>2 DEF Resync
  <2>4. UNCHANGED <<leave, quota, balance, att, holiday, today, slip, mix, started>>
    BY <1>9 DEF Resync
  <2>5. started' \in Nat
    BY <2>4 DEF TypeInv, TypeOK
  <2>6. QED
    BY <2>2, <2>3, <2>4, <2>5, LoadKeeps DEF Begun
<1>10. CASE MarkWrite(r)
  <2>0. l \in Day
    BY <1>0, <1>10 DEF MarkWrite, Sound
  <2>1. Marked(r, l) \subseteq AttRec
    <3>1. [att[l] EXCEPT !.st = "present", !.source = "manual", !.in = TRUE] \in AttRec
      BY <1>a, <2>0, RowChange DEF AttStatus, Earned, Source
    <3>2. \A e \in Earned : [att[l] EXCEPT !.st = StatusFor(l, e), !.source = "manual", !.out = TRUE] \in AttRec
      BY <1>a, <2>0, RowChange, StatusType DEF Source
    <3>3. QED
      BY <3>1, <3>2 DEF Marked
  <2>2. att' \in [Day -> AttRec]
    <3>1. CASE UNCHANGED att
      BY <3>1 DEF TypeInv, TypeOK
    <3>2. CASE \E row \in Marked(r, l) : att' = [att EXCEPT ![l] = row]
      BY <2>1, <3>2 DEF TypeInv, TypeOK
    <3>3. QED
      BY <1>10, <3>1, <3>2 DEF MarkWrite
  <2>3. Begun
    <3>0. MonthOf[l] \in Month
      BY <2>0
    <3>1. (IF req[r].lost THEN {} ELSE {MonthOf[l]}) \in SUBSET Month
      BY <3>0
    <3>2. EndRefreshing(r, IF req[r].lost THEN {} ELSE {MonthOf[l]})
      BY <1>10 DEF MarkWrite
    <3>3. QED
      BY <3>1, <3>2, EndsRefreshing DEF Begun
  <2>4. QED
    BY <1>10, <2>2, <2>3 DEF MarkWrite, Begun, TypeInv, TypeOK
<1>11. CASE CorrectWrite(r)
  <2> DEFINE y == Corrected(r)
  <2>0. l \in Day /\ req[r].to \in Corrections
    BY <1>0, <1>11 DEF CorrectWrite, Sound
  <2>a. req[r].row \in AttRec /\ req[r].to \in AttStatus
    BY <1>0, <2>0 DEF ReqRec, AttStatus, Earned, Corrections
  <2>1. y \in AttRec
    BY <2>a, RowChange DEF Source, Corrected
  <2>2. att' = att \/ att' = [att EXCEPT ![l] = y]
    BY <1>11 DEF CorrectWrite
  <2> HIDE DEF y
  <2>3. att' \in [Day -> AttRec]
    BY <2>1, <2>2 DEF TypeInv, TypeOK
  <2>4. Begun
    <3>0. MonthOf[l] \in Month
      BY <2>0
    <3>1. {MonthOf[l]} \in SUBSET Month
      BY <3>0
    <3>2. End(r) \/ EndRefreshing(r, {MonthOf[l]})
      BY <1>11 DEF CorrectWrite
    <3>3. QED
      BY <3>1, <3>2, Ends, EndsRefreshing DEF Begun
  <2>5. \A pair \in met' : pair \subseteq Pair
    BY <1>11, CorrectMet DEF TypeInv, TypeOK, Pair
  <2>6. QED
    BY <1>11, <2>3, <2>4, <2>5 DEF CorrectWrite, Begun, TypeInv, TypeOK, Pair
<1>12. QED
  BY <1>1, <1>2, <1>3, <1>4, <1>5, <1>6, <1>7, <1>8, <1>9, <1>10, <1>11 DEF LeaveWrite

LEMMA PayrollType ==
    ASSUME TypeInv, PayrollNext
    PROVE  TypeInv'
<1> USE DEF Ops, OnLeave, OnDay, OnMonth
<1>a. Idle \in ReqRec /\ (\A q \in Request : Sound(req[q])) /\ \A c \in Claim : claim[c] \in ClaimRec
  BY IdleSound DEF Sound, TypeInv, TypeOK
<1>1. ASSUME NEW r \in Request, NEW m \in Month, RunPayroll(r, m) PROVE TypeInv'
  <2> DEFINE x == [Idle EXCEPT !.doc = m, !.pay = PayOf(m)]
  <2>1. x \in ReqRec /\ x.doc = m
    BY <1>a, PayType DEF ReqRec, Idle, Doc
  <2>2. Start(r, "build", x)
    BY <1>1 DEF RunPayroll
  <2> HIDE DEF x
  <2>3. QED
    BY <1>1, <2>1, <2>2, Starts, LoadKeeps DEF RunPayroll, leaveVars
<1>2. ASSUME NEW r \in Request, NEW m \in Month, Refresh(r, m) PROVE TypeInv'
  <2> DEFINE left == req[r].todo \ {m}
             x == [Idle EXCEPT !.op = "build", !.doc = m, !.todo = left, !.pay = PayOf(m)]
  <2>0. left \in SUBSET Month
    BY <1>a DEF Sound, ReqRec
  <2>1. x \in ReqRec /\ x.doc = m /\ x.op = "build"
    BY <1>a, <2>0, PayType DEF ReqRec, Idle, Doc
  <2>2. Sound(x)
    BY <2>1 DEF Sound
  <2>3. \/ req' = [req EXCEPT ![r] = x] /\ Meets(r, "build")
        \/ EndRefreshing(r, left) /\ UNCHANGED met
    BY <1>2 DEF Refresh
  <2> HIDE DEF x, left
  <2>4. req' \in [Request -> ReqRec] /\ \A q \in Request : Sound(req'[q])
    BY <2>0, <2>2, <2>3, Becomes, EndsRefreshing
  <2>5. \A pair \in met' : pair \subseteq Pair
    <3>1. CASE Meets(r, "build")
      BY <3>1, MeetsType DEF Pair
    <3>2. CASE UNCHANGED met
      BY <3>2 DEF TypeInv, TypeOK, Pair
    <3>3. QED
      BY <2>3, <3>1, <3>2
  <2>6. started' \in Nat /\ UNCHANGED <<leave, quota, balance, att, holiday, today, slip, mix, claim, crashed>>
    BY <1>2 DEF Refresh, leaveVars, TypeInv, TypeOK
  <2>7. QED
    BY <2>4, <2>5, <2>6, LoadKeeps
<1>3. ASSUME NEW r \in Request, NEW m \in Month, SlipLoad(r, m) PROVE TypeInv'
  <2> DEFINE x == [Idle EXCEPT !.doc = m]
  <2>1. x \in ReqRec /\ x.doc = m
    BY <1>a DEF ReqRec, Idle, Doc
  <2>2. \E kind \in {"finalize", "pay", "delete"} : Start(r, kind, x)
    BY <1>3 DEF SlipLoad
  <2> HIDE DEF x
  <2>3. QED
    BY <1>3, <2>1, <2>2, Starts, LoadKeeps DEF SlipLoad, leaveVars
<1>4. ASSUME NEW r \in Request, BuildWrite(r) PROVE TypeInv'
  <2> DEFINE m == req[r].doc
             s == [st |-> "draft", pay |-> req[r].pay]
  <2>0. m \in Month /\ req[r].pay \in PayRec /\ req[r].todo \in SUBSET Month
    BY <1>4, <1>a DEF BuildWrite, Sound, ReqRec
  <2>1. slip' \in [Month -> SlipRec]
    <3>1. s \in SlipRec /\ slip' = [slip EXCEPT ![m] = s]
      BY <1>4, <2>0 DEF BuildWrite, SlipRec, SlipStatus
    <3> HIDE DEF s
    <3>2. QED
      BY <3>1 DEF TypeInv, TypeOK
  <2>2. \A c \in Claim : [claim[c] EXCEPT !.in = NoMonth] \in ClaimRec /\ [claim[c] EXCEPT !.in = m] \in ClaimRec
    BY <1>a, <2>0 DEF ClaimRec
  <2>3. claim' \in [Claim -> ClaimRec]
    BY <1>4, <1>a, <2>2 DEF BuildWrite
  <2>4. req' \in [Request -> ReqRec] /\ \A q \in Request : Sound(req'[q])
    BY <1>4, <2>0, EndsRefreshing DEF BuildWrite
  <2>5. QED
    BY <1>4, <2>1, <2>3, <2>4 DEF BuildWrite, leaveVars, TypeInv, TypeOK
<1>5. ASSUME NEW r \in Request, FinalizeWrite(r) \/ PayWrite(r) PROVE TypeInv'
  <2> DEFINE m == req[r].doc
  <2>0. m \in Month /\ slip[m] \in SlipRec
    BY <1>5, <1>a DEF FinalizeWrite, PayWrite, Sound, TypeInv, TypeOK
  <2>1. PICK st \in SlipStatus : slip' = [slip EXCEPT ![m].st = st]
    <3>1. slip[m].st \in SlipStatus
      BY <2>0 DEF SlipRec
    <3>2. slip' = [slip EXCEPT ![m].st = IF slip[m].st = "draft" /\ ~req[r].lost THEN "finalized" ELSE slip[m].st]
          \/ slip' = [slip EXCEPT ![m].st = IF req[r].lost THEN slip[m].st ELSE "paid"]
      BY <1>5 DEF FinalizeWrite, PayWrite
    <3>3. QED
      BY <3>1, <3>2 DEF SlipStatus
  <2>2. [slip[m] EXCEPT !.st = st] \in SlipRec
    BY <2>0 DEF SlipRec
  <2>3. slip' \in [Month -> SlipRec]
    BY <2>1, <2>2 DEF TypeInv, TypeOK
  <2>4. req' \in [Request -> ReqRec] /\ \A q \in Request : Sound(req'[q])
    BY <1>5, Ends DEF FinalizeWrite, PayWrite
  <2>5. QED
    BY <1>5, <2>3, <2>4 DEF FinalizeWrite, PayWrite, leaveVars, TypeInv, TypeOK
<1>6. ASSUME NEW r \in Request, DeleteWrite(r) PROVE TypeInv'
  <2> DEFINE m == req[r].doc
  <2>0. m \in Month
    BY <1>6, <1>a DEF DeleteWrite, Sound
  <2>1. slip' \in [Month -> SlipRec]
    <3>1. NoSlip \in SlipRec
      BY NoneType DEF NoSlip, SlipRec, SlipStatus
    <3>2. slip' = slip \/ slip' = [slip EXCEPT ![m] = NoSlip]
      BY <1>6 DEF DeleteWrite
    <3>3. QED
      BY <3>1, <3>2 DEF TypeInv, TypeOK
  <2>2. \A c \in Claim : [claim[c] EXCEPT !.in = NoMonth] \in ClaimRec
    BY <1>a DEF ClaimRec
  <2>3. claim' \in [Claim -> ClaimRec]
    BY <1>6, <1>a, <2>2 DEF DeleteWrite
  <2>4. req' \in [Request -> ReqRec] /\ \A q \in Request : Sound(req'[q])
    <3>1. req' = [q \in Request |->
                  IF q = r THEN Idle
                  ELSE IF req[q].op \in {"finalize", "pay", "delete"} /\ req[q].doc = m
                  THEN [req[q] EXCEPT !.lost = TRUE] ELSE req[q]]
      BY <1>6 DEF DeleteWrite
    <3>2. \A q \in Request : Sound([req[q] EXCEPT !.lost = TRUE])
      BY <1>a, LostSound
    <3>3. \A q \in Request : Sound(req'[q])
      BY <1>a, <3>1, <3>2, IdleSound
    <3>4. QED
      BY <3>1, <3>3 DEF Sound
  <2>5. QED
    BY <1>6, <2>1, <2>3, <2>4 DEF DeleteWrite, leaveVars, TypeInv, TypeOK
<1>7. ASSUME NEW r \in Request, Crash(r) PROVE TypeInv'
  BY <1>7, Ends DEF Crash, leaveVars, TypeInv, TypeOK
<1>8. ASSUME NEW m \in Month, Reopen(m) PROVE TypeInv'
  <2>1. [slip[m] EXCEPT !.st = "draft"] \in SlipRec
    BY DEF SlipRec, SlipStatus, TypeInv, TypeOK
  <2>2. slip' \in [Month -> SlipRec]
    BY <1>8, <2>1 DEF Reopen, TypeInv, TypeOK
  <2>3. (\A pair \in met' : pair \subseteq Pair) /\ started' \in Nat
    BY <1>8, HappensType DEF Reopen, Pair
  <2>4. QED
    BY <1>8, <2>2, <2>3 DEF Reopen, leaveVars, Pair, TypeInv, TypeOK
<1>9. ASSUME NEW c \in Claim, NEW to \in {"approved", "rejected"}, DecideClaim(c, to) PROVE TypeInv'
  <2>1. [claim[c] EXCEPT !.st = to] \in ClaimRec
    BY <1>a DEF ClaimRec
  <2>2. claim' \in [Claim -> ClaimRec]
    BY <1>9, <2>1 DEF DecideClaim, TypeInv, TypeOK
  <2>3. QED
    BY <1>9, <2>2 DEF DecideClaim, leaveVars, TypeInv, TypeOK
<1>10. QED
  BY <1>1, <1>2, <1>3, <1>4, <1>5, <1>6, <1>7, <1>8, <1>9 DEF PayrollNext

LEMMA InitType == Init => TypeInv
<1> SUFFICES ASSUME Init PROVE TypeInv
  OBVIOUS
<1> USE DEF Init
<1>1. leave \in [Leave -> LeaveRec]
  BY UnitsType DEF LeaveRec, LeaveStatus
<1>2. quota \in Nat /\ balance \in BalanceRec
  BY NoneType DEF BalanceFor, NoBalance, BalanceRec
<1>3. att \in [Day -> AttRec] /\ slip \in [Month -> SlipRec]
  BY NoneType DEF NoSlip, SlipRec, SlipStatus
<1>4. req \in [Request -> ReqRec] /\ \A r \in Request : Sound(req[r])
  BY IdleSound DEF Sound
<1>5. claim \in [Claim -> ClaimRec]
  BY DEF ClaimRec
<1>6. QED
  BY <1>1, <1>2, <1>3, <1>4, <1>5 DEF TypeInv, TypeOK

LEMMA NextType == TypeInv /\ [Next]_vars => TypeInv'
<1> SUFFICES ASSUME TypeInv, [Next]_vars PROVE TypeInv'
  OBVIOUS
<1>1. ASSUME NEW r \in Request, LeaveLoad(r) \/ LeaveWrite(r), UNCHANGED <<claim, crashed>> PROVE TypeInv'
  BY <1>1, LoadType, WriteType
<1>2. ASSUME NEW l \in Leave, Reject(l), UNCHANGED <<claim, crashed>> PROVE TypeInv'
  <2>1. [leave[l] EXCEPT !.st = "rejected"] \in LeaveRec
    BY DEF LeaveRec, LeaveStatus, TypeInv, TypeOK
  <2>2. leave' \in [Leave -> LeaveRec]
    BY <1>2, <2>1 DEF Reject, TypeInv, TypeOK
  <2>3. QED
    BY <1>2, <2>2 DEF Reject, TypeInv, TypeOK
<1>3. ASSUME NEW n \in Quotas, SetQuota(n), UNCHANGED <<claim, crashed>> PROVE TypeInv'
  <2>1. (\A pair \in met' : pair \subseteq Pair) /\ started' \in Nat
    BY <1>3, HappensType DEF SetQuota, Pair
  <2>2. QED
    BY <1>3, <2>1 DEF SetQuota, Pair, TypeInv, TypeOK
<1>4. CASE BulkCreate /\ UNCHANGED <<claim, crashed>>
  BY <1>4, BalanceType DEF BulkCreate, TypeInv, TypeOK
<1>5. CASE NextDay /\ UNCHANGED <<claim, crashed>>
  BY <1>5 DEF NextDay, TypeInv, TypeOK
<1>6. CASE PayrollNext
  BY <1>6, PayrollType
<1>7. CASE UNCHANGED vars
  BY <1>7 DEF vars, TypeInv, TypeOK
<1>8. QED
  BY <1>1, <1>2, <1>3, <1>4, <1>5, <1>6, <1>7 DEF Next, LeaveNext

\* TypeOK holds in every reachable state.
THEOREM TypeCorrect == Spec => []TypeOK
<1>1. Spec => []TypeInv
  BY InitType, NextType, PTL DEF Spec
<1>2. TypeInv => TypeOK
  BY DEF TypeInv
<1>3. QED
  BY <1>1, <1>2, PTL

-----------------------------------------------------------------------------
(* Who met whom.  An operation that begins notes every one in progress, so  *)
(* two that are in progress have met; a refresh is no operation of its own. *)

Steady == {"idle", "refresh"}
Pairs ==
    \A q, r \in Request :
        q # r /\ req[q].op \notin Steady /\ req[r].op \notin Steady => {req[q].op, req[r].op} \in met

\* What a step does to the operations in progress: they end, or one begins.
Shape ==
    /\ met \subseteq met'
    /\ \/ \A q \in Request : req'[q].op \in Steady \cup {req[q].op}
       \/ \E r \in Request :
             /\ \A q \in Request \ {r} : req'[q] = req[q]
             /\ \A q \in Request \ {r} : req[q].op \notin Steady => {req'[r].op, req[q].op} \in met'

LEMMA BeginShape ==
    ASSUME TypeInv, NEW r \in Request, NEW h, NEW kind, h.op = kind, req' = [req EXCEPT ![r] = h], Meets(r, kind)
    PROVE  Shape
<1>1. /\ req'[r].op = kind
      /\ \A q \in Request \ {r} : req'[q] = req[q]
  BY DEF TypeInv, TypeOK
<1>2. \A q \in Request \ {r} : req[q].op \notin Steady => {kind, req[q].op} \in met'
  BY DEF Meets, Others, Free, Steady
<1>3. QED
  BY <1>1, <1>2 DEF Shape, Meets

LEMMA EndShape ==
    ASSUME TypeInv, NEW r \in Request, NEW h, h.op \in Steady, req' = [req EXCEPT ![r] = h], met \subseteq met'
    PROVE  Shape
BY DEF Shape, TypeInv, TypeOK

LEMMA RefreshingOp == \A r, months : Refreshing(r, months).op \in Steady
BY DEF Refreshing, Idle, Steady

LEMMA IdleOp == Idle.op = "idle" /\ Idle.op \in Steady
BY DEF Idle, Steady

\* A load: the operation, its row, and what it noted.
Begins(r, kind, doc) ==
    \E h : h.op = kind /\ h.doc = doc /\ req' = [req EXCEPT ![r] = h] /\ Meets(r, kind) /\ Free(r)

LEMMA LoadShape ==
    ASSUME NEW r \in Request, LeaveLoad(r)
    PROVE  \E kind \in Ops \ (Steady \cup OnMonth) : \E doc : Begins(r, kind, doc)
<1> USE DEF Ops, Steady, OnMonth, Begins, Start, Idle
<1>1. ASSUME NEW l \in Leave, Apply(r, l) \/ Approve(r, l) \/ Cancel(r, l)
      PROVE  \E kind \in OnLeave : Begins(r, kind, l)
  BY <1>1 DEF Apply, Approve, Cancel, OnLeave
<1>2. ASSUME NEW n \in Allocations, EditBalance(r, n) \/ Allocate(r, n)
      PROVE  \E kind \in {"patch", "allocate"} : Begins(r, kind, NoDoc)
  BY <1>2 DEF EditBalance, Allocate
<1>3. ASSUME BulkAllocate(r) \/ DropBalance(r)
      PROVE  \E kind \in {"topup", "drop"} : Begins(r, kind, NoDoc)
  BY <1>3 DEF BulkAllocate, DropBalance
<1>4. ASSUME NEW d \in Day, Sync(r, d) \/ SetHoliday(r, d)
      PROVE  \E kind \in {"sync", "holiday"} : Begins(r, kind, d)
  BY <1>4 DEF Sync, SetHoliday, SyncOf
<1>5. ASSUME NEW d \in Day, NEW to \in Corrections, NEW note \in Leave \cup {NoLeave},
             Correct(r, d, to, note) \/ Add(r, d, to)
      PROVE  Begins(r, "correct", d)
  BY <1>5 DEF Correct, Add
<1>6. ASSUME NEW kind \in {"checkin", "checkout"}, Mark(r, kind)
      PROVE  Begins(r, kind, today)
  BY <1>6 DEF Mark
<1>7. QED
  BY <1>1, <1>2, <1>3, <1>4, <1>5, <1>6 DEF LeaveLoad, OnLeave

LEMMA OpTypes ==
    ASSUME TypeInv
    PROVE  \A q \in Request : req[q].op \in Ops /\ [req[q] EXCEPT !.lost = TRUE].op = req[q].op
BY DEF TypeInv, TypeOK, ReqRec

LEMMA WriteShape ==
    ASSUME TypeInv, NEW r \in Request, LeaveWrite(r)
    PROVE  Shape
<1>1. CASE Resync(r)
  <2>1. SyncOf(req[r].doc).op = "sync"
    BY DEF SyncOf, Idle
  <2>2. QED
    BY <1>1, <2>1, BeginShape, EndShape, IdleOp DEF Resync, End
<1>2. CASE CancelWrite(r)
  <2> DEFINE rows == IF leave[req[r].doc].st = "approved" THEN NotedRows(req[r].doc) ELSE {}
  <2>1. \A q \in Request : req'[q].op \in Steady \cup {req[q].op}
    <3>1. req' = [q \in Request |->
                  IF q = r THEN Refreshing(r, Months(rows))
                  ELSE IF req[q].op \in OnRow /\ req[q].doc \in rows
                  THEN [req[q] EXCEPT !.lost = TRUE] ELSE req[q]]
      BY <1>2 DEF CancelWrite
    <3> HIDE DEF rows
    <3>2. QED
      BY <3>1, OpTypes, RefreshingOp
  <2>2. QED
    BY <1>2, <2>1 DEF CancelWrite, Shape
<1>3. CASE DropWrite(r)
  BY <1>3, OpTypes, IdleOp DEF DropWrite, Shape
<1>4. CASE ApplyWrite(r) \/ ApproveShort(r) \/ PatchWrite(r) \/ AllocateWrite(r)
  BY <1>4, EndShape, IdleOp DEF ApplyWrite, ApproveShort, Refused, PatchWrite, AllocateWrite, End
<1>5. CASE ApproveWrite(r) \/ SyncWrite(r) \/ MarkWrite(r) \/ CorrectWrite(r)
  <2>1. met \subseteq met'
    BY <1>5, CorrectMet DEF ApproveWrite, SyncWrite, MarkWrite
  <2>2. (\E months : EndRefreshing(r, months)) \/ End(r)
    BY <1>5 DEF ApproveWrite, SyncWrite, MarkWrite, CorrectWrite
  <2>3. QED
    BY <2>1, <2>2, EndShape, RefreshingOp, IdleOp DEF EndRefreshing, End
<1>6. QED
  BY <1>1, <1>2, <1>3, <1>4, <1>5 DEF LeaveWrite

LEMMA PayrollShape ==
    ASSUME TypeInv, PayrollNext
    PROVE  Shape
<1>1. ASSUME NEW r \in Request, NEW m \in Month, RunPayroll(r, m) \/ SlipLoad(r, m) PROVE Shape
  <2>1. \E kind \in OnMonth : Begins(r, kind, m)
    BY <1>1 DEF RunPayroll, SlipLoad, OnMonth, Begins, Start, Idle
  <2>2. QED
    BY <2>1, BeginShape DEF Begins
<1>2. ASSUME NEW r \in Request, NEW m \in Month, Refresh(r, m) PROVE Shape
  <2> DEFINE h == [Idle EXCEPT !.op = "build", !.doc = m, !.todo = req[r].todo \ {m}, !.pay = PayOf(m)]
  <2>1. h.op = "build"
    BY DEF Idle
  <2>2. \/ req' = [req EXCEPT ![r] = h] /\ Meets(r, "build")
        \/ EndRefreshing(r, req[r].todo \ {m}) /\ UNCHANGED met
    BY <1>2 DEF Refresh
  <2> HIDE DEF h
  <2>3. QED
    BY <2>1, <2>2, BeginShape, EndShape, RefreshingOp DEF EndRefreshing
<1>3. ASSUME NEW r \in Request, BuildWrite(r) \/ FinalizeWrite(r) \/ PayWrite(r) \/ Crash(r) PROVE Shape
  <2>1. UNCHANGED met /\ (End(r) \/ EndRefreshing(r, req[r].todo))
    BY <1>3 DEF BuildWrite, FinalizeWrite, PayWrite, Crash
  <2>2. QED
    BY <2>1, EndShape, RefreshingOp, IdleOp DEF End, EndRefreshing
<1>4. ASSUME NEW r \in Request, DeleteWrite(r) PROVE Shape
  BY <1>4, OpTypes, IdleOp DEF DeleteWrite, Shape
<1>5. ASSUME NEW m \in Month, Reopen(m) PROVE Shape
  BY <1>5 DEF Reopen, Happens, Shape
<1>6. ASSUME NEW c \in Claim, NEW to \in {"approved", "rejected"}, DecideClaim(c, to) PROVE Shape
  BY <1>6 DEF DecideClaim, Shape
<1>7. QED
  BY <1>1, <1>2, <1>3, <1>4, <1>5, <1>6 DEF PayrollNext

LEMMA NextShape == ASSUME TypeInv, [Next]_vars PROVE Shape
<1>1. ASSUME NEW r \in Request, LeaveLoad(r) PROVE Shape
  BY <1>1, LoadShape, BeginShape DEF Begins
<1>2. ASSUME NEW r \in Request, LeaveWrite(r) PROVE Shape
  BY <1>2, WriteShape
<1>3. ASSUME NEW l \in Leave, Reject(l) PROVE Shape
  BY <1>3 DEF Reject, Shape
<1>4. ASSUME NEW n \in Quotas, SetQuota(n) PROVE Shape
  BY <1>4 DEF SetQuota, Happens, Shape
<1>5. CASE BulkCreate \/ NextDay
  BY <1>5 DEF BulkCreate, NextDay, Shape
<1>6. CASE PayrollNext
  BY <1>6, PayrollShape
<1>7. CASE UNCHANGED vars
  BY <1>7 DEF vars, Shape
<1>8. QED
  BY <1>1, <1>2, <1>3, <1>4, <1>5, <1>6, <1>7 DEF Next, LeaveNext

LEMMA NextPairs == ASSUME TypeInv, Pairs, [Next]_vars PROVE Pairs' /\ met \subseteq met'
<1>1. Shape
  BY NextShape
<1>2. CASE \A q \in Request : req'[q].op \in Steady \cup {req[q].op}
  BY <1>1, <1>2 DEF Pairs, Shape
<1>3. ASSUME NEW r \in Request, \A q \in Request \ {r} : req'[q] = req[q],
             \A q \in Request \ {r} : req[q].op \notin Steady => {req'[r].op, req[q].op} \in met'
      PROVE  Pairs'
  <2> SUFFICES ASSUME NEW p \in Request, NEW q \in Request, p # q, req'[p].op \notin Steady, req'[q].op \notin Steady
               PROVE  {req'[p].op, req'[q].op} \in met'
    BY DEF Pairs
  <2>1. CASE p = r
    BY <1>3, <2>1
  <2>2. CASE q = r
    <3>1. {req'[q].op, req[p].op} \in met' /\ req'[p] = req[p]
      BY <1>3, <2>2
    <3>2. {req'[p].op, req'[q].op} = {req'[q].op, req[p].op}
      BY <3>1
    <3>3. QED
      BY <3>1, <3>2
  <2>3. CASE p # r /\ q # r
    BY <1>1, <1>3, <2>3 DEF Pairs, Shape
  <2>4. QED
    BY <2>1, <2>2, <2>3
<1>4. QED
  BY <1>1, <1>2, <1>3 DEF Shape

LEMMA InitPairs == ASSUME Init PROVE Pairs
BY IdleOp DEF Init, Pairs

LEMMA MetKept == ASSUME met \subseteq met', NEW kinds, NEW others, Met(kinds, others) PROVE Met(kinds, others)'
BY DEF Met

-----------------------------------------------------------------------------
(* What a step that ends an operation, or begins one on a payslip, does to  *)
(* the requests: the others keep what they hold, or lose their row.         *)

Closes(q) ==
    \/ req'[q].op \in Steady \cup OnMonth
    \/ req'[q] \in {req[q], [req[q] EXCEPT !.lost = TRUE]}

LEMMA ClosesEnd ==
    ASSUME TypeInv, NEW r \in Request, NEW h, h.op \in Steady \cup OnMonth, req' = [req EXCEPT ![r] = h]
    PROVE  \A q \in Request : Closes(q)
<1>1. \A q \in Request : req'[q] = IF q = r THEN h ELSE req[q]
  BY DEF TypeInv, TypeOK
<1>2. QED
  BY <1>1 DEF Closes

LEMMA WriteReqs ==
    ASSUME TypeInv, NEW r \in Request, LeaveWrite(r), ~Resync(r)
    PROVE  \A q \in Request : Closes(q)
<1>1. CASE CancelWrite(r)
  BY <1>1, RefreshingOp DEF CancelWrite, Closes
<1>2. CASE DropWrite(r)
  BY <1>2, IdleOp DEF DropWrite, Closes
<1>3. CASE ~(CancelWrite(r) \/ DropWrite(r))
  <2>1. End(r) \/ \E months : EndRefreshing(r, months)
    BY <1>3 DEF LeaveWrite, ApplyWrite, ApproveWrite, ApproveShort, Refused, PatchWrite,
            AllocateWrite, SyncWrite, MarkWrite, CorrectWrite
  <2>2. QED
    BY <2>1, IdleOp, RefreshingOp, ClosesEnd DEF End, EndRefreshing
<1>4. QED
  BY <1>1, <1>2, <1>3

LEMMA PayrollReqs ==
    ASSUME TypeInv, PayrollNext
    PROVE  (\A q \in Request : Closes(q)) /\ UNCHANGED <<leave, balance, att>>
<1> DEFINE Goal == (\A q \in Request : Closes(q)) /\ UNCHANGED <<leave, balance, att>>
<1> USE DEF leaveVars
<1>1. ASSUME NEW r \in Request, NEW m \in Month, RunPayroll(r, m) \/ SlipLoad(r, m) PROVE Goal
  <2>1. \E kind \in OnMonth : Begins(r, kind, m)
    BY <1>1 DEF RunPayroll, SlipLoad, OnMonth, Begins, Start, Idle
  <2>2. QED
    BY <1>1, <2>1, ClosesEnd DEF RunPayroll, SlipLoad, Begins
<1>2. ASSUME NEW r \in Request, NEW m \in Month, Refresh(r, m) PROVE Goal
  <2> DEFINE h == [Idle EXCEPT !.op = "build", !.doc = m, !.todo = req[r].todo \ {m}, !.pay = PayOf(m)]
  <2>1. h.op \in OnMonth
    BY DEF Idle, OnMonth
  <2>2. req' = [req EXCEPT ![r] = h] \/ EndRefreshing(r, req[r].todo \ {m})
    BY <1>2 DEF Refresh
  <2> HIDE DEF h
  <2>3. QED
    BY <1>2, <2>1, <2>2, ClosesEnd, RefreshingOp DEF Refresh, EndRefreshing
<1>3. ASSUME NEW r \in Request, BuildWrite(r) \/ FinalizeWrite(r) \/ PayWrite(r) \/ Crash(r) PROVE Goal
  <2>1. UNCHANGED <<leave, balance, att>> /\ (End(r) \/ EndRefreshing(r, req[r].todo))
    BY <1>3 DEF BuildWrite, FinalizeWrite, PayWrite, Crash
  <2>2. QED
    BY <2>1, ClosesEnd, RefreshingOp, IdleOp DEF End, EndRefreshing
<1>4. ASSUME NEW r \in Request, DeleteWrite(r) PROVE Goal
  BY <1>4, IdleOp DEF DeleteWrite, Closes
<1>5. ASSUME NEW m \in Month, Reopen(m) PROVE Goal
  BY <1>5 DEF Reopen, Closes
<1>6. ASSUME NEW c \in Claim, NEW to \in {"approved", "rejected"}, DecideClaim(c, to) PROVE Goal
  BY <1>6 DEF DecideClaim, Closes
<1>7. QED
  BY <1>1, <1>2, <1>3, <1>4, <1>5, <1>6 DEF PayrollNext

-----------------------------------------------------------------------------
(* Payslips.  A build or a deletion in progress found a draft: if the slip  *)
(* is final by now, the finalizing met it.  The claims a build has counted  *)
(* are still its own to pay, unless another build met it.                   *)

FinalMet == Met({"build", "delete"}, {"finalize", "pay"})
BuildsMet == Met({"build"}, {"build"})
FinalSlip(m) == slip[m].st \in {"finalized", "paid"}

Settled == \A r \in Request : req[r].op \in {"build", "delete"} => FinalMet \/ ~FinalSlip(req[r].doc)
Paying ==
    /\ \A r \in Request : req[r].op = "build" =>
           BuildsMet \/ \A c \in req[r].pay.claims : claim[c].in \in {NoMonth, req[r].doc}
    /\ \A r \in Request : req[r].op = "pay" /\ ~req[r].lost => slip[req[r].doc].st # "none"

SlipInv == TypeInv /\ Pairs /\ Settled /\ Paying /\ ClaimPaidByItsSlip

\* Operations on leave, balance and attendance leave these requests alone.
LEMMA LeaveFrame ==
    ASSUME TypeInv, LeaveNext
    PROVE  slip' = slip /\ \A q \in Request : req'[q].op \in OnMonth => req'[q] = req[q]
<1>1. ASSUME NEW r \in Request, LeaveLoad(r)
      PROVE  slip' = slip /\ \A q \in Request : req'[q].op \in OnMonth => req'[q] = req[q]
  <2>1. slip' = slip
    BY <1>1 DEF LeaveLoad, Apply, Approve, Cancel, EditBalance, Allocate, BulkAllocate, DropBalance, Sync,
                SetHoliday, Correct, Add, Mark
  <2>2. QED
    BY <1>1, <2>1, LoadShape DEF Begins, TypeInv, TypeOK
<1>2. ASSUME NEW r \in Request, LeaveWrite(r)
      PROVE  slip' = slip /\ \A q \in Request : req'[q].op \in OnMonth => req'[q] = req[q]
  <2>1. slip' = slip
    BY <1>2 DEF LeaveWrite, ApplyWrite, ApproveWrite, ApproveShort, Refused, CancelWrite, PatchWrite,
                AllocateWrite, DropWrite, SyncWrite, Resync, MarkWrite, CorrectWrite
  <2>2. CASE CancelWrite(r) \/ DropWrite(r)
    <3>1. \A q \in Request : req[q].op \in OnMonth => req[q].op \notin OnRow \cup {"patch", "topup", "drop"}
      BY DEF OnMonth, OnRow
    <3>2. \A q \in Request : req'[q].op \in OnMonth => q # r /\ req[q].op \in OnMonth
      <4>1. CASE CancelWrite(r)
        BY <4>1, OpTypes, RefreshingOp DEF CancelWrite, Steady, OnMonth
      <4>2. CASE DropWrite(r)
        BY <4>2, OpTypes, IdleOp DEF DropWrite, Steady, OnMonth
      <4>3. QED
        BY <2>2, <4>1, <4>2
    <3>3. CASE CancelWrite(r)
      BY <3>1, <3>2, <3>3, <2>1 DEF CancelWrite
    <3>4. CASE DropWrite(r)
      BY <3>1, <3>2, <3>4, <2>1 DEF DropWrite
    <3>5. QED
      BY <2>2, <3>3, <3>4
  <2>3. ASSUME NEW h, h.op \notin OnMonth, req' = [req EXCEPT ![r] = h]
        PROVE  \A q \in Request : req'[q].op \in OnMonth => req'[q] = req[q]
    BY <2>3 DEF TypeInv, TypeOK
  <2>4. CASE ~(CancelWrite(r) \/ DropWrite(r))
    <3>1. \E h : h.op \notin OnMonth /\ req' = [req EXCEPT ![r] = h]
      <4>1. SyncOf(req[r].doc).op = "sync"
        BY DEF SyncOf, Idle
      <4>2. \/ End(r) \/ (\E months : EndRefreshing(r, months))
            \/ req' = [req EXCEPT ![r] = SyncOf(req[r].doc)]
        BY <1>2, <2>4 DEF LeaveWrite, ApplyWrite, ApproveWrite, ApproveShort, Refused, PatchWrite,
                AllocateWrite, SyncWrite, Resync, MarkWrite, CorrectWrite
      <4>3. QED
        BY <4>1, <4>2, IdleOp, RefreshingOp DEF End, EndRefreshing, OnMonth, Steady
    <3>2. QED
      BY <2>1, <2>3, <3>1
  <2>5. QED
    BY <2>2, <2>4
<1>3. QED
  BY <1>1, <1>2 DEF LeaveNext, Reject, SetQuota, Happens, BulkCreate, NextDay

\* Two requests in progress have met.
LEMMA HaveMet ==
    ASSUME Pairs, NEW q \in Request, NEW r \in Request, q # r,
           NEW ks, NEW os, req[q].op \in ks \ Steady, req[r].op \in os \ Steady
    PROVE  Met(ks, os)
BY DEF Pairs, Met

LEMMA SlipTypes ==
    ASSUME TypeInv
    PROVE  /\ \A q \in Request : req[q].op \in OnMonth => req[q].doc \in Month /\ req[q].pay.claims \subseteq Claim
           /\ \A m \in Month : slip[m] \in SlipRec
           /\ \A c \in Claim : claim[c] \in ClaimRec
BY DEF TypeInv, TypeOK, Sound, ReqRec, PayRec

LEMMA SlipStep ==
    ASSUME SlipInv, [Next]_vars
    PROVE  Settled' /\ Paying' /\ ClaimPaidByItsSlip'
<1> USE DEF SlipInv
<1>0. /\ FinalMet => FinalMet'
      /\ BuildsMet => BuildsMet'
  BY NextPairs, MetKept DEF FinalMet, BuildsMet
<1>t. /\ \A q \in Request : req[q].op \in OnMonth => req[q].doc \in Month /\ req[q].pay.claims \subseteq Claim
      /\ \A m \in Month : slip[m] \in SlipRec
      /\ \A c \in Claim : claim[c] \in ClaimRec
      /\ NoMonth \notin Month
  BY SlipTypes
<1>1. ASSUME UNCHANGED <<slip, claim>>, \A q \in Request : req'[q].op \in OnMonth => req'[q] = req[q]
      PROVE  Settled' /\ Paying' /\ ClaimPaidByItsSlip'
  BY <1>0, <1>1 DEF Settled, Paying, ClaimPaidByItsSlip, FinalSlip, BuildsMet, OnMonth
<1>2. CASE LeaveNext /\ UNCHANGED <<claim, crashed>>
  BY <1>1, <1>2, LeaveFrame
<1>3. ASSUME NEW r \in Request, NEW m \in Month, RunPayroll(r, m) \/ SlipLoad(r, m)
      PROVE  Settled' /\ Paying' /\ ClaimPaidByItsSlip'
  <2>1. PICK h : /\ req' = [req EXCEPT ![r] = h] /\ h.doc = m /\ ~h.lost
                 /\ h.op \in {"build", "delete"} => ~FinalSlip(m)
                 /\ h.op = "build" => h.pay = PayOf(m)
                 /\ h.op = "pay" => slip[m].st # "none"
    <3> DEFINE Suits(h) == /\ h.doc = m /\ ~h.lost
                           /\ h.op \in {"build", "delete"} => ~FinalSlip(m)
                           /\ h.op = "build" => h.pay = PayOf(m)
                           /\ h.op = "pay" => slip[m].st # "none"
               b == [[Idle EXCEPT !.doc = m, !.pay = PayOf(m)] EXCEPT !.op = "build"]
               Of(kind) == [[Idle EXCEPT !.doc = m] EXCEPT !.op = kind]
    <3>1. CASE RunPayroll(r, m)
      <4>1. req' = [req EXCEPT ![r] = b]
        BY <3>1 DEF RunPayroll, Start
      <4>2. ~FinalSlip(m)
        BY <3>1 DEF RunPayroll, Buildable, FinalSlip
      <4>3. Suits(b)
        BY <4>2 DEF Idle
      <4> HIDE DEF b
      <4>4. QED
        BY <4>1, <4>3
    <3>2. ASSUME NEW kind \in {"finalize", "pay", "delete"}, Start(r, kind, [Idle EXCEPT !.doc = m]),
                 kind = "delete" => ~FinalSlip(m), kind = "pay" => slip[m].st # "none"
          PROVE  \E h : req' = [req EXCEPT ![r] = h] /\ Suits(h)
      <4>1. req' = [req EXCEPT ![r] = Of(kind)]
        BY <3>2 DEF Start
      <4>2. Suits(Of(kind))
        BY <3>2 DEF Idle
      <4> HIDE DEF Of
      <4>3. QED
        BY <4>1, <4>2
    <3>3. CASE SlipLoad(r, m)
      BY <3>2, <3>3 DEF SlipLoad, FinalSlip
    <3>4. QED
      BY <1>3, <3>1, <3>3
  <2>2. UNCHANGED <<slip, claim>>
    BY <1>3 DEF RunPayroll, SlipLoad
  <2>3. \A q \in Request : req'[q] = IF q = r THEN h ELSE req[q]
    BY <2>1 DEF TypeInv, TypeOK
  <2>4. \A c \in PayOf(m).claims : claim[c].in \in {NoMonth, m}
    BY DEF PayOf, Claimable
  <2>5. QED
    BY <1>0, <2>1, <2>2, <2>3, <2>4 DEF Settled, Paying, ClaimPaidByItsSlip, FinalSlip, BuildsMet
<1>4. ASSUME NEW r \in Request, NEW m \in Month, Refresh(r, m)
      PROVE  Settled' /\ Paying' /\ ClaimPaidByItsSlip'
  <2>1. PICK h : /\ req' = [req EXCEPT ![r] = h]
                 /\ h.op \in Steady \/ (h.op = "build" /\ h.doc = m /\ ~FinalSlip(m) /\ h.pay = PayOf(m))
    <3>1. CASE slip[m].st = "draft"
      <4> DEFINE b == [Idle EXCEPT !.op = "build", !.doc = m, !.todo = req[r].todo \ {m}, !.pay = PayOf(m)]
      <4>1. req' = [req EXCEPT ![r] = b]
        BY <1>4, <3>1 DEF Refresh
      <4>2. b.op = "build" /\ b.doc = m /\ b.pay = PayOf(m)
        BY DEF Idle
      <4> HIDE DEF b
      <4>3. QED
        BY <3>1, <4>1, <4>2 DEF FinalSlip
    <3>2. CASE slip[m].st # "draft"
      BY <1>4, <3>2, RefreshingOp DEF Refresh, EndRefreshing
    <3>3. QED
      BY <3>1, <3>2
  <2>2. UNCHANGED <<slip, claim>>
    BY <1>4 DEF Refresh
  <2>3. \A q \in Request : req'[q] = IF q = r THEN h ELSE req[q]
    BY <2>1 DEF TypeInv, TypeOK
  <2>4. \A c \in PayOf(m).claims : claim[c].in \in {NoMonth, m}
    BY DEF PayOf, Claimable
  <2>5. QED
    BY <1>0, <2>1, <2>2, <2>3, <2>4 DEF Settled, Paying, ClaimPaidByItsSlip, FinalSlip, BuildsMet, Steady
<1>5. ASSUME NEW r \in Request, BuildWrite(r)
      PROVE  Settled' /\ Paying' /\ ClaimPaidByItsSlip'
  <2> DEFINE m == req[r].doc
             cs == req[r].pay.claims
             s == [st |-> "draft", pay |-> req[r].pay]
  <2>0. m \in Month /\ cs \subseteq Claim /\ req[r].op = "build"
    BY <1>5, <1>t DEF BuildWrite, OnMonth
  <2>1. slip' = [slip EXCEPT ![m] = s] /\ met' = met
    BY <1>5 DEF BuildWrite
  <2>2. /\ slip'[m] = s /\ slip'[m].st = "draft" /\ slip'[m].pay.claims = cs
        /\ \A k \in Month \ {m} : slip'[k] = slip[k]
    BY <2>0, <2>1 DEF TypeInv, TypeOK
  <2>3. \A q \in Request : req'[q].op \in Steady \/ (q # r /\ req'[q] = req[q])
    BY <1>5, RefreshingOp DEF BuildWrite, EndRefreshing, TypeInv, TypeOK
  <2>4. claim' = [c \in Claim |->
                    IF claim[c].in = m /\ c \notin cs THEN [claim[c] EXCEPT !.in = NoMonth]
                    ELSE IF claim[c].in = NoMonth /\ c \in cs THEN [claim[c] EXCEPT !.in = m] ELSE claim[c]]
    BY <1>5 DEF BuildWrite
  <2> HIDE DEF m, cs, s
  <2>5. \A c \in Claim : claim'[c].in = IF claim[c].in = m /\ c \notin cs THEN NoMonth
                                        ELSE IF claim[c].in = NoMonth /\ c \in cs THEN m ELSE claim[c].in
    BY <1>t, <2>4 DEF ClaimRec
  <2>6. \A q \in Request : q # r /\ req[q].op = "build" => BuildsMet
    BY <2>0, HaveMet DEF BuildsMet, Steady
  <2>7. Settled'
    BY <1>0, <1>t, <2>0, <2>2, <2>3 DEF Settled, FinalSlip, Steady, OnMonth
  <2>8. Paying'
    <3>1. ASSUME NEW q \in Request, req'[q].op = "build"
          PROVE  BuildsMet' \/ \A c \in req'[q].pay.claims : claim'[c].in \in {NoMonth, req'[q].doc}
      <4>1. q # r /\ req[q].op = "build"
        BY <2>3, <3>1 DEF Steady
      <4>2. QED
        BY <1>0, <2>6, <4>1
    <3>2. ASSUME NEW q \in Request, req'[q].op = "pay", ~req'[q].lost
          PROVE  slip'[req'[q].doc].st # "none"
      <4>1. req'[q] = req[q] /\ req[q].doc \in Month
        BY <1>t, <2>3, <3>2 DEF Steady, OnMonth
      <4>2. slip[req[q].doc].st # "none"
        BY <3>2, <4>1 DEF Paying
      <4>3. CASE req[q].doc = m
        BY <2>2, <4>1, <4>3
      <4>4. CASE req[q].doc # m
        BY <2>2, <4>1, <4>2, <4>4
      <4>5. QED
        BY <4>3, <4>4
    <3>3. QED
      BY <3>1, <3>2 DEF Paying
  <2>9. ClaimPaidByItsSlip'
    <3> SUFFICES ASSUME ~BuildsMet', NEW k \in Month, slip'[k].st # "none"
                 PROVE  slip'[k].pay.claims = {c \in Claim : claim'[c].in = k}
      BY DEF ClaimPaidByItsSlip, BuildsMet
    <3>1. \A c \in cs : claim[c].in \in {NoMonth, m}
      BY <1>0, <2>0 DEF Paying, m, cs
    <3>2. CASE k = m
      BY <1>t, <2>0, <2>2, <2>5, <3>1, <3>2
    <3>3. CASE k # m
      <4>1. slip[k].pay.claims = {c \in Claim : claim[c].in = k}
        BY <1>0, <2>2, <3>3 DEF ClaimPaidByItsSlip, BuildsMet
      <4>2. \A c \in Claim : claim'[c].in = k <=> claim[c].in = k
        BY <1>t, <2>5, <3>1, <3>3
      <4>3. QED
        BY <2>2, <3>3, <4>1, <4>2
    <3>4. QED
      BY <3>2, <3>3
  <2>10. QED
    BY <2>7, <2>8, <2>9
<1>6. ASSUME NEW r \in Request, FinalizeWrite(r) \/ PayWrite(r)
      PROVE  Settled' /\ Paying' /\ ClaimPaidByItsSlip'
  <2> DEFINE m == req[r].doc
  <2>0. m \in Month /\ req[r].op \in {"finalize", "pay"}
    BY <1>6, <1>t DEF FinalizeWrite, PayWrite, OnMonth
  <2>1. PICK st : slip' = [slip EXCEPT ![m].st = st] /\ (st # "none" => slip[m].st # "none") /\ (slip[m].st # "none" => st # "none")
    <3>1. CASE FinalizeWrite(r)
      <4> DEFINE v == IF slip[m].st = "draft" /\ ~req[r].lost THEN "finalized" ELSE slip[m].st
      <4>1. slip' = [slip EXCEPT ![m].st = v]
        BY <3>1 DEF FinalizeWrite
      <4>2. v # "none" <=> slip[m].st # "none"
        OBVIOUS
      <4> HIDE DEF v
      <4>3. QED
        BY <4>1, <4>2
    <3>2. CASE PayWrite(r)
      <4> DEFINE v == IF req[r].lost THEN slip[m].st ELSE "paid"
      <4>1. slip' = [slip EXCEPT ![m].st = v] /\ req[r].op = "pay"
        BY <3>2 DEF PayWrite
      <4>2. v # "none" <=> slip[m].st # "none"
        BY <4>1 DEF Paying
      <4> HIDE DEF v
      <4>3. QED
        BY <4>1, <4>2
    <3>3. QED
      BY <1>6, <3>1, <3>2
  <2>2. \A k \in Month : slip'[k].pay = slip[k].pay /\ (slip'[k].st # "none" <=> slip[k].st # "none")
                          /\ (k # m => slip'[k] = slip[k])
    BY <1>t, <2>0, <2>1 DEF SlipRec, TypeInv, TypeOK
  <2>3. \A q \in Request : req'[q].op \in Steady \/ (q # r /\ req'[q] = req[q])
    BY <1>6, IdleOp DEF FinalizeWrite, PayWrite, End, TypeInv, TypeOK
  <2>4. \A q \in Request : q # r /\ req[q].op \in {"build", "delete"} => FinalMet
    BY <2>0, HaveMet DEF FinalMet, Steady
  <2>5. UNCHANGED <<claim, met>>
    BY <1>6 DEF FinalizeWrite, PayWrite
  <2>6. Settled'
    BY <1>0, <2>3, <2>4 DEF Settled, Steady
  <2>7. Paying'
    BY <1>0, <1>t, <2>2, <2>3, <2>5 DEF Paying, Steady, OnMonth
  <2>8. ClaimPaidByItsSlip'
    BY <2>2, <2>5 DEF ClaimPaidByItsSlip, Met
  <2>9. QED
    BY <2>6, <2>7, <2>8
<1>7. ASSUME NEW r \in Request, DeleteWrite(r)
      PROVE  Settled' /\ Paying' /\ ClaimPaidByItsSlip'
  <2> DEFINE m == req[r].doc
  <2>0. m \in Month /\ req[r].op = "delete"
    BY <1>7, <1>t DEF DeleteWrite, OnMonth
  <2>1. \A k \in Month : slip'[k] = IF k = m /\ ~req[r].lost THEN NoSlip ELSE slip[k]
    BY <1>7, <2>0 DEF DeleteWrite, TypeInv, TypeOK
  <2>2. \A c \in Claim : claim'[c].in = IF claim[c].in = m /\ ~req[r].lost THEN NoMonth ELSE claim[c].in
    BY <1>7, <1>t DEF DeleteWrite, ClaimRec
  <2>3. NoSlip.st = "none"
    BY DEF NoSlip
  <2>4. \A q \in Request :
           \/ req'[q].op \in Steady
           \/ q # r /\ req[q].op \in {"finalize", "pay", "delete"} /\ req[q].doc = m
              /\ req'[q].op = req[q].op /\ req'[q].doc = m /\ req'[q].lost
           \/ q # r /\ ~(req[q].op \in {"finalize", "pay", "delete"} /\ req[q].doc = m) /\ req'[q] = req[q]
    <3>1. req' = [q \in Request |->
                  IF q = r THEN Idle
                  ELSE IF req[q].op \in {"finalize", "pay", "delete"} /\ req[q].doc = m
                  THEN [req[q] EXCEPT !.lost = TRUE] ELSE req[q]]
      BY <1>7 DEF DeleteWrite
    <3>2. \A q \in Request : LET y == [req[q] EXCEPT !.lost = TRUE] IN y.op = req[q].op /\ y.doc = req[q].doc /\ y.lost
      BY DEF TypeInv, TypeOK, ReqRec
    <3>3. QED
      BY <3>1, <3>2, IdleOp
  <2> HIDE DEF m
  <2>5. Settled'
    <3> SUFFICES ASSUME NEW q \in Request, req'[q].op \in {"build", "delete"}
                 PROVE  FinalMet' \/ slip'[req'[q].doc].st \notin {"finalized", "paid"}
      BY DEF Settled, FinalSlip
    <3>1. req[q].op = req'[q].op /\ req'[q].doc = req[q].doc /\ req[q].doc \in Month
      <4>1. req'[q].op \notin Steady
        BY DEF Steady
      <4>2. req[q].op = req'[q].op
        BY <2>4, <4>1
      <4>3. req[q].doc \in Month
        BY <1>t, <4>2 DEF OnMonth
      <4>4. QED
        BY <2>4, <4>1, <4>2, <4>3
    <3>2. FinalMet \/ ~FinalSlip(req[q].doc)
      BY <3>1 DEF Settled
    <3>3. slip'[req'[q].doc].st \in {"finalized", "paid"} => FinalSlip(req[q].doc)
      BY <2>1, <2>3, <3>1 DEF FinalSlip
    <3>4. QED
      BY <1>0, <3>2, <3>3
  <2>6. Paying'
    <3>1. ASSUME NEW q \in Request, req'[q].op = "build"
          PROVE  BuildsMet' \/ \A c \in req'[q].pay.claims : claim'[c].in \in {NoMonth, req'[q].doc}
      <4>1. req'[q] = req[q] /\ req[q].pay.claims \subseteq Claim
        BY <1>t, <2>4, <3>1 DEF Steady, OnMonth
      <4>2. QED
        BY <1>0, <2>2, <3>1, <4>1 DEF Paying
    <3>2. ASSUME NEW q \in Request, req'[q].op = "pay", ~req'[q].lost
          PROVE  slip'[req'[q].doc].st # "none"
      <4>1. req'[q] = req[q] /\ req[q].doc \in Month \ {m}
        BY <1>t, <2>4, <3>2 DEF Steady, OnMonth
      <4>2. QED
        BY <2>1, <3>2, <4>1 DEF Paying
    <3>3. QED
      BY <3>1, <3>2 DEF Paying
  <2>7. ClaimPaidByItsSlip'
    BY <1>0, <1>t, <2>0, <2>1, <2>2, <2>3 DEF ClaimPaidByItsSlip, BuildsMet
  <2>8. QED
    BY <2>5, <2>6, <2>7
<1>8. ASSUME NEW m \in Month, Reopen(m)
      PROVE  Settled' /\ Paying' /\ ClaimPaidByItsSlip'
  <2>1. \A k \in Month : slip'[k].pay = slip[k].pay /\ (slip'[k].st # "none" <=> slip[k].st # "none")
                          /\ (FinalSlip(k)' => FinalSlip(k))
    BY <1>8, <1>t DEF Reopen, Reopenable, FinalSlip, SlipRec, TypeInv, TypeOK
  <2>2. UNCHANGED <<req, claim>>
    BY <1>8 DEF Reopen, Happens
  <2>3. Settled'
    BY <1>0, <1>t, <2>1, <2>2 DEF Settled, FinalSlip, OnMonth
  <2>4. Paying'
    BY <1>0, <1>t, <2>1, <2>2 DEF Paying, OnMonth
  <2>5. ClaimPaidByItsSlip'
    BY <1>0, <2>1, <2>2 DEF ClaimPaidByItsSlip, BuildsMet
  <2>6. QED
    BY <2>3, <2>4, <2>5
<1>9. ASSUME NEW d \in Claim, NEW to \in {"approved", "rejected"}, DecideClaim(d, to)
      PROVE  Settled' /\ Paying' /\ ClaimPaidByItsSlip'
  <2>1. \A c \in Claim : claim'[c].in = claim[c].in
    BY <1>9, <1>t DEF DecideClaim, ClaimRec, TypeInv, TypeOK
  <2>2. UNCHANGED <<req, slip, met>>
    BY <1>9 DEF DecideClaim
  <2>3. QED
    BY <1>0, <1>t, <2>1, <2>2 DEF Settled, Paying, ClaimPaidByItsSlip, FinalSlip, BuildsMet, OnMonth
<1>10. ASSUME NEW r \in Request, Crash(r)
       PROVE  Settled' /\ Paying' /\ ClaimPaidByItsSlip'
  BY <1>1, <1>10, IdleOp DEF Crash, End, OnMonth, Steady, TypeInv, TypeOK
<1>11. CASE UNCHANGED vars
  BY <1>1, <1>11 DEF vars
<1>12. QED
  BY <1>2, <1>3, <1>4, <1>5, <1>6, <1>7, <1>8, <1>9, <1>10, <1>11 DEF Next, PayrollNext

LEMMA SlipInit == Init => SlipInv
<1> SUFFICES ASSUME Init PROVE SlipInv
  OBVIOUS
<1>1. TypeInv /\ Pairs
  BY InitType, InitPairs
<1>2. Settled /\ Paying
  BY IdleOp DEF Init, Settled, Paying
<1>3. ClaimPaidByItsSlip
  BY DEF Init, NoSlip, ClaimPaidByItsSlip
<1>4. QED
  BY <1>1, <1>2, <1>3 DEF SlipInv

LEMMA SlipNext == SlipInv /\ [Next]_vars => SlipInv'
BY NextType, NextPairs, SlipStep DEF SlipInv

\* A claim is paid by the one slip it is linked to, unless two builds
\* overlapped.
THEOREM ClaimsPaidOnce == Spec => []ClaimPaidByItsSlip
<1>1. SlipInv => ClaimPaidByItsSlip
  BY DEF SlipInv
<1>2. QED
  BY <1>1, SlipInit, SlipNext, PTL DEF Spec

\* What was finalized stays as it is until it is reopened, and what was paid
\* for good, unless a build or a deletion that had read the draft met the
\* finalizing or the payment.
THEOREM SlipsFrozen == Spec => Frozen
<1>1. ASSUME SlipInv, [Next]_vars, NEW m \in Month, FinalSlip(m), ~FinalMet
      PROVE  /\ slip'[m].pay = slip[m].pay
             /\ slip'[m].st \in (IF slip[m].st = "paid" THEN {"paid"} ELSE {"draft", "finalized", "paid"})
  <2> DEFINE Kept == /\ slip'[m].pay = slip[m].pay
                     /\ slip'[m].st \in (IF slip[m].st = "paid" THEN {"paid"} ELSE {"draft", "finalized", "paid"})
  <2>0. slip \in [Month -> SlipRec] /\ slip[m] \in SlipRec
    BY <1>1 DEF SlipInv, TypeInv, TypeOK
  <2>1. CASE slip' = slip
    BY <1>1, <2>1 DEF FinalSlip
  <2>2. ASSUME NEW r \in Request, BuildWrite(r) PROVE Kept
    <3>1. req[r].doc # m
      BY <1>1, <2>2 DEF BuildWrite, SlipInv, Settled
    <3>2. slip'[m] = slip[m]
      BY <2>0, <2>2, <3>1 DEF BuildWrite
    <3>3. QED
      BY <1>1, <3>2 DEF FinalSlip
  <2>3. ASSUME NEW r \in Request, DeleteWrite(r) PROVE Kept
    <3>1. req[r].doc # m
      BY <1>1, <2>3 DEF DeleteWrite, SlipInv, Settled
    <3>2. slip'[m] = slip[m]
      BY <2>0, <2>3, <3>1 DEF DeleteWrite
    <3>3. QED
      BY <1>1, <3>2 DEF FinalSlip
  <2>4. ASSUME NEW r \in Request, NEW st \in {"finalized", "paid"}, FinalizeWrite(r) \/ PayWrite(r),
               slip' = [slip EXCEPT ![req[r].doc].st = st] \/ slip' = slip, slip[m].st = "paid" => st = "paid"
        PROVE  Kept
    <3>1. slip'[m].pay = slip[m].pay /\ slip'[m].st \in {slip[m].st, st}
      BY <2>0, <2>4 DEF SlipRec
    <3>2. QED
      BY <1>1, <2>4, <3>1 DEF FinalSlip
  <2>5. ASSUME NEW r \in Request, FinalizeWrite(r) PROVE Kept
    <3> DEFINE k == req[r].doc
               v == IF slip[k].st = "draft" /\ ~req[r].lost THEN "finalized" ELSE slip[k].st
    <3>1. slip' = [slip EXCEPT ![k].st = v]
      BY <2>5 DEF FinalizeWrite
    <3>2. k = m => v = slip[m].st
      BY <1>1 DEF FinalSlip
    <3> HIDE DEF v
    <3>3. slip'[m].pay = slip[m].pay /\ slip'[m].st = slip[m].st
      BY <2>0, <3>1, <3>2 DEF SlipRec
    <3>4. QED
      BY <1>1, <3>3 DEF FinalSlip
  <2>6. ASSUME NEW r \in Request, PayWrite(r) PROVE Kept
    <3> DEFINE k == req[r].doc
               v == IF req[r].lost THEN slip[k].st ELSE "paid"
    <3>1. slip' = [slip EXCEPT ![k].st = v]
      BY <2>6 DEF PayWrite
    <3>2. k = m => v \in {slip[m].st, "paid"}
      OBVIOUS
    <3> HIDE DEF v
    <3>3. slip'[m].pay = slip[m].pay /\ slip'[m].st \in {slip[m].st, "paid"}
      BY <2>0, <3>1, <3>2 DEF SlipRec
    <3>4. QED
      BY <1>1, <3>3 DEF FinalSlip
  <2>7. ASSUME NEW k \in Month, Reopen(k) PROVE Kept
    <3>1. slip'[m].pay = slip[m].pay /\ slip'[m].st = IF k = m THEN "draft" ELSE slip[m].st
      BY <2>0, <2>7 DEF Reopen, SlipRec
    <3>2. k = m => slip[m].st = "finalized"
      BY <2>7 DEF Reopen, Reopenable
    <3>3. QED
      BY <1>1, <3>1, <3>2 DEF FinalSlip
  <2>8. CASE LeaveNext
    BY <1>1, <2>1, <2>8, LeaveFrame DEF SlipInv
  <2>9. CASE PayrollNext
    <3>1. ASSUME NEW r \in Request, NEW k \in Month, RunPayroll(r, k) \/ Refresh(r, k) \/ SlipLoad(r, k) \/ Crash(r)
          PROVE  slip' = slip
      BY <3>1 DEF RunPayroll, Refresh, SlipLoad, Crash
    <3>2. ASSUME NEW c \in Claim, NEW to \in {"approved", "rejected"}, DecideClaim(c, to) PROVE slip' = slip
      BY <3>2 DEF DecideClaim
    <3>3. QED
      BY <2>1, <2>2, <2>3, <2>5, <2>6, <2>7, <2>9, <3>1, <3>2 DEF PayrollNext
  <2>10. CASE UNCHANGED vars
    BY <2>1, <2>10 DEF vars
  <2>11. QED
    BY <1>1, <2>8, <2>9, <2>10 DEF Next
<1>2. SlipInv /\ [Next]_vars =>
        [ \A m \in Month : slip[m].st \in {"finalized", "paid"} =>
          \/ Met({"build", "delete"}, {"finalize", "pay"})
          \/ /\ slip'[m].pay = slip[m].pay
             /\ slip'[m].st \in (IF slip[m].st = "paid" THEN {"paid"} ELSE {"draft", "finalized", "paid"}) ]_vars
  BY <1>1 DEF FinalSlip, FinalMet
<1>3. QED
  BY <1>2, SlipInit, SlipNext, PTL DEF Spec, Frozen

-----------------------------------------------------------------------------
(* The balance.  An edit in progress sets the allocation to no less than    *)
(* what was used when it looked; if more has been used since, the approval  *)
(* or the edit that did it met the edit in progress.                        *)

Excused == Met({"allocate", "topup"}, {"approve", "patch"})
Setting == {"allocate", "topup"}
OnBalance == Setting \cup {"patch"}

Cover ==
    /\ ~balance.exists => balance.used = 0
    /\ Excused \/ balance.used <= balance.allocated
    /\ \A r \in Request : req[r].op = "patch" => req[r].bal.exists /\ req[r].bal.used <= req[r].n
    /\ \A r \in Request : req[r].op \in Setting => Excused \/ balance.used <= req[r].n
CoverInv == TypeInv /\ Pairs /\ Cover

\* The edits of the balance in progress keep what they hold, and none begins.
Held ==
    \A q \in Request : req'[q].op \in OnBalance =>
        /\ req'[q].op = req[q].op /\ req'[q].n = req[q].n /\ req'[q].bal = req[q].bal

LEMMA CoverFrame ==
    ASSUME Cover, met \subseteq met', Held,
           ~balance'.exists => balance'.used = 0,
           Excused \/ balance'.used <= balance'.allocated,
           \A q \in Request : req'[q].op \in Setting => Excused \/ balance'.used <= req[q].n
    PROVE  Cover'
<1>1. Excused => Excused'
  BY MetKept DEF Excused
<1>2. \A q \in Request : req'[q].op = "patch" => req'[q].bal.exists /\ req'[q].bal.used <= req'[q].n
  BY DEF Held, OnBalance, Cover
<1>3. \A q \in Request : req'[q].op \in Setting => Excused' \/ balance'.used <= req'[q].n
  BY <1>1 DEF Held, OnBalance
<1>4. QED
  BY <1>1, <1>2, <1>3 DEF Cover

\* The balance as it is, or used as much or less.
LEMMA CoverLess ==
    ASSUME CoverInv, met \subseteq met', Held, balance'.used \in Nat, balance'.used <= balance.used,
           balance'.allocated = balance.allocated \/ (balance'.used = 0 /\ balance'.allocated \in Nat),
           ~balance'.exists => balance'.used = 0
    PROVE  Cover'
<1>1. balance.used \in Nat /\ balance.allocated \in Nat /\ \A q \in Request : req[q].n \in Nat
  BY DEF CoverInv, TypeInv, TypeOK, BalanceRec, ReqRec
<1>2. \A q \in Request : req'[q].op \in Setting => Excused \/ balance.used <= req[q].n
  BY DEF CoverInv, Cover, Held, OnBalance
<1>3. Excused \/ balance.used <= balance.allocated
  BY DEF CoverInv, Cover
<1>4. Excused \/ balance'.used <= balance'.allocated
  BY <1>1, <1>3
<1>5. \A q \in Request : req'[q].op \in Setting => Excused \/ balance'.used <= req[q].n
  BY <1>1, <1>2
<1>6. QED
  BY <1>4, <1>5, CoverFrame DEF CoverInv

LEMMA Becoming ==
    ASSUME TypeInv, NEW r \in Request, NEW h, h.op \notin OnBalance, req' = [req EXCEPT ![r] = h]
    PROVE  Held
BY DEF Held, TypeInv, TypeOK

LEMMA Losing ==
    ASSUME TypeInv, \A q \in Request : Closes(q)
    PROVE  Held
<1> SUFFICES ASSUME NEW q \in Request, req'[q].op \in OnBalance
             PROVE  req'[q].op = req[q].op /\ req'[q].n = req[q].n /\ req'[q].bal = req[q].bal
  BY DEF Held
<1>1. req'[q] \in {req[q], [req[q] EXCEPT !.lost = TRUE]}
  BY DEF Closes, Steady, OnBalance, Setting, OnMonth
<1>2. QED
  BY <1>1 DEF TypeInv, TypeOK, ReqRec

LEMMA WriteHolds == ASSUME TypeInv, NEW r \in Request, LeaveWrite(r) PROVE Held
<1>1. CASE Resync(r)
  <2>1. SyncOf(req[r].doc).op = "sync"
    BY DEF SyncOf, Idle
  <2>2. \E h : h.op \notin OnBalance /\ req' = [req EXCEPT ![r] = h]
    BY <1>1, <2>1, IdleOp DEF Resync, End, OnBalance, Setting, Steady
  <2>3. QED
    BY <2>2, Becoming
<1>2. QED
  BY <1>1, WriteReqs, Losing

\* The balance an operation opens has used nothing.
LEMMA Opened ==
    ASSUME CoverInv, balance' = BalanceFor(balance), met \subseteq met', Held
    PROVE  Cover'
<1>1. balance \in BalanceRec /\ quota \in Nat /\ (~balance.exists => balance.used = 0)
  BY DEF CoverInv, Cover, TypeInv, TypeOK
<1>2. /\ balance'.used = balance.used /\ balance'.used \in Nat /\ balance'.exists
      /\ balance'.allocated = balance.allocated \/ (balance'.used = 0 /\ balance'.allocated \in Nat)
  BY <1>1 DEF BalanceFor, BalanceRec
<1>3. QED
  BY <1>2, CoverLess

\* The three edits, when they look at the balance.
LEMMA EditStep ==
    ASSUME CoverInv, NEW r \in Request, NEW h, req' = [req EXCEPT ![r] = h], UNCHANGED balance, met \subseteq met',
           \/ h.op = "patch" /\ h.bal.exists /\ h.bal.used <= h.n
           \/ h.op \in Setting /\ (Excused \/ balance.used <= h.n)
    PROVE  Cover'
<1>1. \A q \in Request : req'[q] = IF q = r THEN h ELSE req[q]
  BY DEF CoverInv, TypeInv, TypeOK
<1>2. Excused => Excused'
  BY MetKept DEF Excused
<1>3. \A q \in Request : req'[q].op = "patch" => req'[q].bal.exists /\ req'[q].bal.used <= req'[q].n
  BY <1>1 DEF CoverInv, Cover, Setting
<1>4. \A q \in Request : req'[q].op \in Setting => Excused' \/ balance'.used <= req'[q].n
  BY <1>1, <1>2 DEF CoverInv, Cover, Setting
<1>5. QED
  BY <1>2, <1>3, <1>4 DEF CoverInv, Cover

LEMMA CoverLoad ==
    ASSUME CoverInv, NEW r \in Request, LeaveLoad(r), met \subseteq met'
    PROVE  Cover'
<1>t. TypeInv /\ balance \in BalanceRec /\ quota \in Nat /\ (~balance.exists => balance.used = 0)
  BY DEF CoverInv, Cover, TypeInv, TypeOK
<1>1. ASSUME NEW n \in Allocations, EditBalance(r, n) PROVE Cover'
  <2> DEFINE h == [[Idle EXCEPT !.n = n, !.bal = balance] EXCEPT !.op = "patch"]
  <2>1. req' = [req EXCEPT ![r] = h] /\ UNCHANGED balance /\ balance.exists /\ balance.used <= n
    BY <1>1 DEF EditBalance, Start
  <2>2. h.op = "patch" /\ h.bal = balance /\ h.n = n
    BY DEF Idle
  <2> HIDE DEF h
  <2>3. QED
    BY <2>1, <2>2, EditStep
<1>2. ASSUME NEW n \in Allocations, Allocate(r, n) PROVE Cover'
  <2> DEFINE h == [[Idle EXCEPT !.n = n] EXCEPT !.op = "allocate"]
  <2>1. req' = [req EXCEPT ![r] = h] /\ UNCHANGED balance /\ (balance.exists => balance.used <= n)
    BY <1>2 DEF Allocate, Start
  <2>2. h.op \in Setting /\ h.n = n
    BY DEF Idle, Setting
  <2>3. balance.used <= n
    BY <1>t, <2>1
  <2> HIDE DEF h
  <2>4. QED
    BY <2>1, <2>2, <2>3, EditStep
<1>3. CASE BulkAllocate(r)
  <2> DEFINE h == [[Idle EXCEPT !.n = quota] EXCEPT !.op = "topup"]
  <2>1. req' = [req EXCEPT ![r] = h] /\ UNCHANGED balance /\ balance.allocated < quota
    BY <1>3 DEF BulkAllocate, Start
  <2>2. h.op \in Setting /\ h.n = quota
    BY DEF Idle, Setting
  <2>3. Excused \/ balance.used <= quota
    <3>1. CASE Excused
      BY <3>1
    <3>2. CASE balance.used <= balance.allocated
      BY <1>t, <2>1, <3>2 DEF BalanceRec
    <3>3. QED
      BY <3>1, <3>2 DEF CoverInv, Cover
  <2> HIDE DEF h
  <2>4. QED
    BY <2>1, <2>2, <2>3, EditStep
<1>4. ASSUME Held PROVE Cover'
  <2>1. CASE balance' = balance
    <3>1. \A q \in Request : req'[q].op \in Setting => Excused \/ balance.used <= req[q].n
      BY <1>4 DEF CoverInv, Cover, Held, OnBalance
    <3>2. QED
      BY <1>4, <2>1, <3>1, CoverFrame DEF CoverInv, Cover
  <2>2. CASE balance' = BalanceFor(balance)
    BY <1>4, <2>2, Opened
  <2>3. balance' = balance \/ balance' = BalanceFor(balance)
    BY DEF LeaveLoad, Apply, Approve, Cancel, EditBalance, Allocate, BulkAllocate, DropBalance, Sync,
           SetHoliday, Correct, Add, Mark
  <2>4. QED
    BY <2>1, <2>2, <2>3
<1>5. ASSUME ~(\E n \in Allocations : EditBalance(r, n) \/ Allocate(r, n)), ~BulkAllocate(r) PROVE Held
  <2> USE DEF OnBalance, Setting, Begins, Start, Idle
  <2>1. ASSUME NEW l \in Leave, Apply(r, l) \/ Approve(r, l) \/ Cancel(r, l)
        PROVE  \E kind \in OnLeave : Begins(r, kind, l)
    BY <2>1 DEF Apply, Approve, Cancel, OnLeave
  <2>2. ASSUME DropBalance(r) PROVE Begins(r, "drop", NoDoc)
    BY <2>2 DEF DropBalance
  <2>3. ASSUME NEW d \in Day, Sync(r, d) \/ SetHoliday(r, d)
        PROVE  \E kind \in {"sync", "holiday"} : Begins(r, kind, d)
    BY <2>3 DEF Sync, SetHoliday, SyncOf
  <2>4. ASSUME NEW d \in Day, NEW to \in Corrections, NEW note \in Leave \cup {NoLeave},
             Correct(r, d, to, note) \/ Add(r, d, to)
      PROVE   Begins(r, "correct", d)
    BY <2>4 DEF Correct, Add
  <2>5. ASSUME NEW kind \in {"checkin", "checkout"}, Mark(r, kind)
        PROVE  Begins(r, kind, today)
    BY <2>5 DEF Mark
  <2>6. \E kind \in {"apply", "approve", "cancel", "drop", "sync", "holiday", "correct", "checkin", "checkout"} :
                 \E doc :
           Begins(r, kind, doc)
    BY <1>5, <2>1, <2>2, <2>3, <2>4, <2>5 DEF LeaveLoad, OnLeave
  <2>7. QED
    BY <1>t, <2>6, Becoming
<1>6. QED
  BY <1>1, <1>2, <1>3, <1>4, <1>5

LEMMA CoverWrite ==
    ASSUME CoverInv, NEW r \in Request, LeaveWrite(r)
    PROVE  Cover'
<1>t. /\ TypeInv /\ balance \in BalanceRec /\ quota \in Nat /\ (~balance.exists => balance.used = 0)
      /\ req[r] \in ReqRec /\ req[r].n \in Nat /\ req[r].bal \in BalanceRec
      /\ Pairs /\ Cover
  BY DEF CoverInv, Cover, TypeInv, TypeOK, ReqRec
<1>h. Held /\ met \subseteq met'
  <2>1. met \subseteq met'
    BY <1>t, WriteShape DEF Shape
  <2>2. QED
    BY <1>t, <2>1, WriteHolds
<1>o. \A q \in Request : req'[q].op \in Setting => req[q].op \in Setting
  BY <1>h DEF Held, OnBalance
<1>0. CASE balance' = balance
  <2>1. balance'.used \in Nat /\ balance'.used <= balance.used /\ balance'.allocated = balance.allocated
    BY <1>0, <1>t DEF BalanceRec
  <2>2. QED
    BY <1>0, <1>h, <1>t, <2>1, CoverLess
<1>1. CASE ApproveWrite(r) /\ quota > 0
  <2> DEFINE b == BalanceFor(balance)
  <2>1. b \in BalanceRec /\ b.exists
    BY <1>t DEF BalanceFor, BalanceRec
  <2>2. balance' = [b EXCEPT !.used = @ + req[r].n] /\ b.allocated - b.used >= req[r].n /\ req[r].op = "approve"
    BY <1>1 DEF ApproveWrite, Covers, Remaining
  <2> HIDE DEF b
  <2>3. balance'.exists /\ balance'.used <= balance'.allocated
    BY <1>t, <2>1, <2>2 DEF BalanceRec
  <2>4. \A q \in Request : req[q].op \in Setting => Excused
    <3>1. \A q \in Request : req[q].op \in Setting => q # r
      BY <2>2 DEF Setting
    <3>2. req[r].op \in {"approve", "patch"} \ Steady /\ \A q \in Request : req[q].op \in Setting => req[q].op \in Setting \ Steady
      BY <2>2 DEF Setting, Steady
    <3>3. QED
      BY <1>t, <3>1, <3>2, HaveMet DEF Excused, Setting
  <2>5. QED
    BY <1>h, <1>o, <1>t, <2>3, <2>4, CoverFrame
<1>2. CASE CancelWrite(r)
  <2> DEFINE l == req[r].doc
             x == Refund(l)
  <2>1. x \in Nat
    <3>1. l \in Leave
      BY <1>2, <1>t DEF CancelWrite, TypeInv, Sound, OnLeave
    <3>2. QED
      BY <1>t, <3>1 DEF Refund, TypeInv, TypeOK, LeaveRec
  <2>2. balance' = balance \/ (balance.exists /\ balance' = [balance EXCEPT !.used = IF @ > x THEN @ - x ELSE 0])
    BY <1>2 DEF CancelWrite, Refunded
  <2> HIDE DEF x
  <2>3. CASE balance.exists /\ balance' = [balance EXCEPT !.used = IF @ > x THEN @ - x ELSE 0]
    <3>1. balance'.used \in Nat /\ balance'.used <= balance.used /\ balance'.allocated = balance.allocated /\ balance'.exists
      BY <1>t, <2>1, <2>3 DEF BalanceRec
    <3>2. QED
      BY <1>h, <3>1, CoverLess
  <2>4. QED
    BY <1>0, <2>2, <2>3
<1>3. CASE PatchWrite(r) /\ balance' # balance
  <2>1. balance' = [req[r].bal EXCEPT !.allocated = req[r].n] /\ req[r].op = "patch"
    BY <1>3 DEF PatchWrite
  <2>2. req[r].bal.exists /\ req[r].bal.used <= req[r].n
    BY <1>t, <2>1 DEF Cover
  <2>3. balance'.exists /\ balance'.used <= balance'.allocated
    BY <1>t, <2>1, <2>2 DEF BalanceRec
  <2>4. \A q \in Request : req[q].op \in Setting => Excused
    <3>1. \A q \in Request : req[q].op \in Setting => q # r
      BY <2>1 DEF Setting
    <3>2. req[r].op \in {"approve", "patch"} \ Steady /\ \A q \in Request : req[q].op \in Setting => req[q].op \in Setting \ Steady
      BY <2>1 DEF Setting, Steady
    <3>3. QED
      BY <1>t, <3>1, <3>2, HaveMet DEF Excused, Setting
  <2>5. QED
    BY <1>h, <1>o, <1>t, <2>3, <2>4, CoverFrame
<1>4. CASE AllocateWrite(r) /\ balance' # balance
  <2> DEFINE b == BalanceFor(balance)
  <2>1. b \in BalanceRec /\ b.exists /\ b.used = balance.used
    BY <1>t DEF BalanceFor, BalanceRec
  <2>2. balance' = [b EXCEPT !.allocated = req[r].n] /\ req[r].op \in Setting
    BY <1>4 DEF AllocateWrite, Setting
  <2> HIDE DEF b
  <2>3. balance'.exists /\ balance'.used = balance.used /\ balance'.allocated = req[r].n
    BY <2>1, <2>2 DEF BalanceRec
  <2>4. \A q \in Request : req[q].op \in Setting => Excused \/ balance.used <= req[q].n
    BY <1>t DEF Cover
  <2>5. QED
    BY <1>h, <1>o, <1>t, <2>2, <2>3, <2>4, CoverFrame
<1>5. CASE DropWrite(r) /\ balance' # balance
  <2>1. balance' = NoBalance /\ NoBalance.used = 0 /\ NoBalance.allocated = 0
    BY <1>5 DEF DropWrite, NoBalance
  <2>2. balance'.used \in Nat /\ balance'.used <= balance.used
    BY <1>t, <2>1 DEF BalanceRec
  <2>3. QED
    BY <1>h, <2>1, <2>2, CoverLess
<1>6. CASE ApplyWrite(r) \/ ApproveShort(r) \/ SyncWrite(r) \/ Resync(r) \/ MarkWrite(r) \/ CorrectWrite(r)
           \/ (ApproveWrite(r) /\ ~(quota > 0))
  BY <1>0, <1>6 DEF ApplyWrite, ApproveShort, Refused, SyncWrite, Resync, MarkWrite, CorrectWrite, ApproveWrite
<1>7. QED
  BY <1>0, <1>1, <1>2, <1>3, <1>4, <1>5, <1>6 DEF LeaveWrite

LEMMA CoverNext == CoverInv /\ [Next]_vars => CoverInv'
<1> SUFFICES ASSUME CoverInv, [Next]_vars PROVE Cover'
  BY NextType, NextPairs DEF CoverInv
<1>1. met \subseteq met' /\ TypeInv
  BY NextPairs DEF CoverInv
<1>2. ASSUME Held, UNCHANGED balance PROVE Cover'
  <2>1. balance'.used \in Nat /\ balance'.used <= balance.used
    BY <1>1, <1>2 DEF TypeInv, TypeOK, BalanceRec
  <2>2. QED
    BY <1>1, <1>2, <2>1, CoverLess DEF CoverInv, Cover
<1>3. CASE PayrollNext
  BY <1>1, <1>2, <1>3, PayrollReqs, Losing
<1>4. ASSUME NEW r \in Request, LeaveLoad(r) \/ LeaveWrite(r) PROVE Cover'
  BY <1>1, <1>4, CoverLoad, CoverWrite
<1>5. ASSUME NEW l \in Leave, Reject(l) PROVE Cover'
  BY <1>2, <1>5 DEF Reject, Held
<1>6. ASSUME NEW n \in Quotas, SetQuota(n) PROVE Cover'
  BY <1>2, <1>6 DEF SetQuota, Held
<1>7. CASE BulkCreate
  <2>1. Held /\ balance' = BalanceFor(balance)
    BY <1>7 DEF BulkCreate, Held
  <2>2. QED
    BY <1>1, <2>1, Opened
<1>8. CASE NextDay
  BY <1>2, <1>8 DEF NextDay, Held
<1>9. CASE UNCHANGED vars
  BY <1>2, <1>9 DEF vars, Held
<1>10. QED
  BY <1>3, <1>4, <1>5, <1>6, <1>7, <1>8, <1>9 DEF Next, LeaveNext

LEMMA CoverInit == Init => CoverInv
<1> SUFFICES ASSUME Init PROVE CoverInv
  OBVIOUS
<1>1. TypeInv /\ Pairs
  BY InitType, InitPairs
<1>2. balance.used = 0 /\ balance.allocated \in Nat
  BY DEF Init, BalanceFor, NoBalance
<1>3. \A r \in Request : req[r].op = "idle"
  BY IdleOp DEF Init
<1>4. QED
  BY <1>1, <1>2, <1>3 DEF CoverInv, Cover, Setting

\* What is used was allocated, whatever approvals race for the last days,
\* unless HR set the allocation during an approval or another edit.
THEOREM DaysCovered == Spec => []BalanceCovered
<1>1. CoverInv => BalanceCovered
  BY DEF CoverInv, Cover, Excused, BalanceCovered
<1>2. QED
  BY <1>1, CoverInit, CoverNext, PTL DEF Spec

-----------------------------------------------------------------------------
(* The attendance of approved leave.  Open requests do not share a day; a   *)
(* sync in progress has read the row the leave wrote, and one that derives  *)
(* the row anew found no approved leave on the day.  A check-in or a        *)
(* check-out, and a sync that closes what they left open, is under way on a *)
(* day given to a leave only if it met an approval.                         *)

Approved(l) == leave[l].st = "approved"
Marks == {"checkin", "checkout"}
Tracked == {"apply", "approve", "cancel", "sync"} \cup Marks
MarkMet == Met(Marks, {"approve"})
NoteTaken == {"note"} \in met

\* A row an approved leave l has, where marks met approvals and where notes
\* were taken off rows.
OwnRow(l, row, marked, noted) ==
    /\ row.st # "none" /\ row.source # "auto"
    /\ row.note = l \/ (noted /\ row.given = "none")
    /\ row.given = "on_leave" => marked \/ (row.st = "on_leave" /\ row.source = "admin")

OnBooks ==
    \A l \in Leave : Approved(l) => \A d \in Booked(l) : OwnRow(l, att[d], MarkMet, NoteTaken)
Apart ==
    \A k, l \in Leave : k # l /\ leave[k].st \in Open /\ leave[l].st \in Open => Dates[k] \cap Dates[l] = {}
ApplyClear ==
    \A r \in Request : req[r].op = "apply" =>
        /\ leave[req[r].doc].st = "none"
        /\ \A k \in Leave : leave[k].st \in Open => Dates[k] \cap Dates[req[r].doc] = {}
Deciding ==
    \A r \in Request : /\ req[r].op = "approve" => leave[req[r].doc].st = "pending"
                       /\ req[r].op = "cancel" => leave[req[r].doc].st \in Open
Exclusive ==
    \A q, r \in Request : q # r /\ req[q].op \in {"approve", "cancel"} /\ req[r].op \in {"approve", "cancel"} =>
        req[q].doc # req[r].doc
SyncOnBooks ==
    \A r \in Request : req[r].op = "sync" =>
        \A l \in Leave : Approved(l) /\ req[r].doc \in Booked(l) =>
            /\ req[r].to # "derive"
            /\ \/ req[r].lost
               \/ /\ req[r].row.note = l \/ (NoteTaken /\ att[req[r].doc].given = "none")
                  /\ att[req[r].doc].given # "on_leave" \/ MarkMet
MarkOnBooks ==
    \A r \in Request : req[r].op \in Marks /\ ~req[r].lost =>
        \A l \in Leave : Approved(l) /\ req[r].doc \in Booked(l) =>
            att[req[r].doc].given # "on_leave" \/ MarkMet

Asked == ApplyClear /\ Deciding /\ Exclusive /\ SyncOnBooks /\ MarkOnBooks
Books == OnBooks /\ Apart /\ Asked
BookInv == TypeInv /\ Pairs /\ (Unbooked \/ Books)

\* These requests keep what they hold, or lose their row, and none begins.
Carries(q) ==
    req'[q].op \in Tracked =>
        /\ req'[q].op = req[q].op /\ req'[q].doc = req[q].doc /\ req'[q].row = req[q].row
        /\ req'[q].to = req[q].to /\ (req[q].lost => req'[q].lost)

LEMMA ClosesCarries == ASSUME TypeInv, \A q \in Request : Closes(q) PROVE \A q \in Request : Carries(q)
BY DEF Closes, Carries, Tracked, Marks, Steady, OnMonth, TypeInv, TypeOK, ReqRec

LEMMA CarriesEnd ==
    ASSUME TypeInv, NEW r \in Request, NEW h, h.op \notin Tracked, req' = [req EXCEPT ![r] = h]
    PROVE  \A q \in Request : Carries(q)
<1>1. \A q \in Request : req'[q] = IF q = r THEN h ELSE req[q]
  BY DEF TypeInv, TypeOK
<1>2. QED
  BY <1>1 DEF Carries

LEMMA DocTypes ==
    ASSUME TypeInv
    PROVE  \A q \in Request : /\ req[q].op \in OnLeave => req[q].doc \in Leave
                              /\ req[q].op \in OnDay => req[q].doc \in Day
BY DEF TypeInv, Sound

\* A step that closes requests or leaves them alone, and whose approvals in
\* progress are not about those.
LEMMA AskedFrame ==
    ASSUME TypeInv, Books, \A q \in Request : Carries(q), met \subseteq met',
           \A d \in Day : att'[d].given \in {att[d].given, "none"},
           \A l \in Leave : leave'[l].st # leave[l].st =>
               /\ leave[l].st \in Open /\ leave'[l].st \notin Open
               /\ \A q \in Request : req'[q].op \in {"approve", "cancel"} => req[q].doc # l
    PROVE  Apart' /\ Asked'
<1>0. /\ \A l \in Leave : leave'[l].st \in Open => leave[l].st = leave'[l].st
      /\ \A l \in Leave : Approved(l)' => Approved(l)
  BY DEF Open, Approved
<1>1. Apart'
  BY <1>0 DEF Books, Apart, Open
<1>d. \A q \in Request : req'[q].op \in OnLeave \cap Tracked => req[q].doc \in Leave
  BY DocTypes DEF Carries
<1>m. (MarkMet => MarkMet') /\ (NoteTaken => NoteTaken')
  BY MetKept DEF MarkMet, NoteTaken
<1>2. ApplyClear'
  <2> SUFFICES ASSUME NEW q \in Request, req'[q].op = "apply"
               PROVE  /\ leave'[req'[q].doc].st = "none"
                      /\ \A k \in Leave : leave'[k].st \in Open => Dates[k] \cap Dates[req'[q].doc] = {}
    BY DEF ApplyClear, Open
  <2>1. req[q].op = "apply" /\ req'[q].doc = req[q].doc /\ req[q].doc \in Leave
    BY <1>d DEF Carries, Tracked, OnLeave
  <2>2. /\ leave[req[q].doc].st = "none"
        /\ \A k \in Leave : leave[k].st \in Open => Dates[k] \cap Dates[req[q].doc] = {}
    BY <2>1 DEF Books, Asked, ApplyClear
  <2>3. QED
    BY <1>0, <2>1, <2>2 DEF Open
<1>3. Deciding'
  <2> SUFFICES ASSUME NEW q \in Request, req'[q].op \in {"approve", "cancel"}
               PROVE  /\ req'[q].op = "approve" => leave'[req'[q].doc].st = "pending"
                      /\ req'[q].op = "cancel" => leave'[req'[q].doc].st \in Open
    BY DEF Deciding, Open
  <2>1. req[q].op = req'[q].op /\ req'[q].doc = req[q].doc /\ req[q].doc \in Leave
    BY <1>d DEF Carries, Tracked, OnLeave
  <2>2. leave'[req[q].doc].st = leave[req[q].doc].st
    BY <2>1
  <2>3. QED
    BY <2>1, <2>2 DEF Books, Asked, Deciding
<1>4. Exclusive'
  BY DEF Books, Asked, Exclusive, Carries, Tracked
<1>5. SyncOnBooks'
  <2> SUFFICES ASSUME NEW q \in Request, req'[q].op = "sync", NEW l \in Leave, leave'[l].st = "approved", req'[q].doc \in Booked(l)
               PROVE  /\ req'[q].to # "derive"
                      /\ \/ req'[q].lost
                         \/ /\ req'[q].row.note = l \/ (NoteTaken' /\ att'[req'[q].doc].given = "none")
                            /\ att'[req'[q].doc].given # "on_leave" \/ MarkMet'
    BY DEF SyncOnBooks, Approved, Booked
  <2>1. /\ req[q].op = "sync" /\ req'[q].doc = req[q].doc /\ req'[q].row = req[q].row
        /\ req'[q].to = req[q].to /\ (req[q].lost => req'[q].lost)
    BY DEF Carries, Tracked
  <2>2. Approved(l) /\ req[q].doc \in Booked(l) /\ req[q].doc \in Day
    BY <1>0, <2>1, DayOf DEF Approved
  <2>3. att'[req[q].doc].given \in {att[req[q].doc].given, "none"}
    BY <2>2
  <2>4. QED
    BY <1>m, <2>1, <2>2, <2>3 DEF Books, Asked, SyncOnBooks
<1>6. MarkOnBooks'
  <2> SUFFICES ASSUME NEW q \in Request, req'[q].op \in Marks, ~req'[q].lost, NEW l \in Leave, leave'[l].st = "approved",
                      req'[q].doc \in Booked(l)
               PROVE  att'[req'[q].doc].given # "on_leave" \/ MarkMet'
    BY DEF MarkOnBooks, Approved, Booked
  <2>1. req[q].op \in Marks /\ req'[q].doc = req[q].doc /\ (req[q].lost => req'[q].lost)
    BY DEF Carries, Tracked
  <2>2. Approved(l) /\ req[q].doc \in Booked(l) /\ req[q].doc \in Day
    BY <1>0, <2>1, DayOf DEF Approved
  <2>3. att'[req[q].doc].given \in {att[req[q].doc].given, "none"}
    BY <2>2
  <2>4. QED
    BY <1>m, <2>1, <2>2, <2>3 DEF Books, Asked, MarkOnBooks
<1>7. QED
  BY <1>1, <1>2, <1>3, <1>4, <1>5, <1>6 DEF Asked

LEMMA BookFrame ==
    ASSUME TypeInv, Books, \A q \in Request : Carries(q), UNCHANGED <<leave, att>>, met \subseteq met'
    PROVE  Books'
<1>1. Apart' /\ Asked'
  BY AskedFrame
<1>2. OnBooks'
  BY MetKept DEF Books, OnBooks, Approved, Booked, OwnRow, MarkMet, NoteTaken
<1>3. QED
  BY <1>1, <1>2 DEF Books

\* A request that begins, h, asked what the invariant says of it.
Fits(h) ==
    /\ h.op = "apply" =>
          /\ leave[h.doc].st = "none"
          /\ \A k \in Leave : leave[k].st \in Open => Dates[k] \cap Dates[h.doc] = {}
    /\ h.op = "approve" => leave[h.doc].st = "pending"
    /\ h.op = "cancel" => leave[h.doc].st \in Open
    /\ h.op \in {"approve", "cancel"} => Unlocked(h.doc)
    /\ h.op = "sync" =>
          \A l \in Leave : Approved(l) /\ h.doc \in Booked(l) =>
              /\ h.to # "derive"
              /\ h.row.note = l \/ (NoteTaken /\ att[h.doc].given = "none")
              /\ att[h.doc].given # "on_leave" \/ MarkMet
    /\ h.op \in Marks =>
          \A l \in Leave : Approved(l) /\ h.doc \in Booked(l) => att[h.doc].given # "on_leave" \/ MarkMet

LEMMA BookStart ==
    ASSUME TypeInv, Books, NEW r \in Request, NEW h, Fits(h), req' = [req EXCEPT ![r] = h], leave' = leave,
           \A d \in Day : att[d].st # "none" => att'[d] = att[d], met \subseteq met'
    PROVE  Books'
<1>1. \A q \in Request : req'[q] = IF q = r THEN h ELSE req[q]
  BY DEF TypeInv, TypeOK
<1>m. (MarkMet => MarkMet') /\ (NoteTaken => NoteTaken')
  BY MetKept DEF MarkMet, NoteTaken
<1>a. \A l \in Leave, d \in Day : Approved(l) /\ d \in Booked(l) => att'[d] = att[d]
  BY DEF Books, OnBooks, OwnRow
<1>b. \A l \in Leave : Booked(l) \subseteq Day /\ (Approved(l)' <=> Approved(l)) /\ Booked(l)' = Booked(l)
  BY DayOf DEF Approved, Booked
<1>2. OnBooks' /\ Apart'
  <2>1. Apart'
    BY DEF Books, Apart
  <2>2. SUFFICES ASSUME NEW l \in Leave, Approved(l), NEW d \in Booked(l) PROVE OwnRow(l, att'[d], MarkMet', NoteTaken')
    BY <1>b, <2>1 DEF OnBooks
  <2>3. d \in Day /\ att'[d] = att[d]
    BY <1>a, <1>b, <2>2
  <2>4. OwnRow(l, att[d], MarkMet, NoteTaken)
    BY <2>2 DEF Books, OnBooks
  <2>5. QED
    BY <1>m, <2>3, <2>4 DEF OwnRow
<1>3. ApplyClear'
  BY <1>1 DEF Books, Asked, ApplyClear, Fits
<1>4. Deciding'
  BY <1>1 DEF Books, Asked, Deciding, Fits
<1>5. Exclusive'
  BY <1>1 DEF Books, Asked, Exclusive, Fits, Unlocked
<1>6. SyncOnBooks'
  <2> SUFFICES ASSUME NEW q \in Request, req'[q].op = "sync", NEW l \in Leave, Approved(l), req'[q].doc \in Booked(l)
               PROVE  /\ req'[q].to # "derive"
                      /\ \/ req'[q].lost
                         \/ /\ req'[q].row.note = l \/ (NoteTaken' /\ att'[req'[q].doc].given = "none")
                            /\ att'[req'[q].doc].given # "on_leave" \/ MarkMet'
    BY <1>b DEF SyncOnBooks
  <2>1. att'[req'[q].doc] = att[req'[q].doc]
    BY <1>a, <1>b
  <2>2. CASE q = r
    BY <1>1, <1>m, <2>1, <2>2 DEF Fits
  <2>3. CASE q # r
    BY <1>1, <1>m, <2>1, <2>3 DEF Books, Asked, SyncOnBooks
  <2>4. QED
    BY <2>2, <2>3
<1>7. MarkOnBooks'
  <2> SUFFICES ASSUME NEW q \in Request, req'[q].op \in Marks, ~req'[q].lost, NEW l \in Leave, Approved(l),
                      req'[q].doc \in Booked(l)
               PROVE  att'[req'[q].doc].given # "on_leave" \/ MarkMet'
    BY <1>b DEF MarkOnBooks
  <2>1. att'[req'[q].doc] = att[req'[q].doc]
    BY <1>a, <1>b
  <2>2. CASE q = r
    BY <1>1, <1>m, <2>1, <2>2 DEF Fits
  <2>3. CASE q # r
    BY <1>1, <1>m, <2>1, <2>3 DEF Books, Asked, MarkOnBooks
  <2>4. QED
    BY <2>2, <2>3
<1>8. QED
  BY <1>2, <1>3, <1>4, <1>5, <1>6, <1>7 DEF Books, Asked

\* The sync reads the row of an approved leave as the leave wrote it.
LEMMA SyncFits ==
    ASSUME Books, NEW d \in Day, LeftOpen(d) \/ Derivable(d),
           NEW h, h.op = "sync", h.doc = d, h.row = IF LeftOpen(d) THEN att[d] ELSE NoRow,
           h.to = IF LeftOpen(d) THEN "close" ELSE "derive"
    PROVE  Fits(h)
<1>1. \A l \in Leave : Approved(l) /\ d \in Booked(l) => LeftOpen(d) /\ OwnRow(l, att[d], MarkMet, NoteTaken)
  BY DEF Books, OnBooks, Derivable, OwnRow
<1>2. LeftOpen(d) => att[d].source = "manual"
  BY DEF LeftOpen
<1>3. QED
  BY <1>1, <1>2 DEF Fits, OwnRow, Marks

\* The sync that a change of holidays goes on with.
LEMMA SyncOfFields ==
    \A d \in Day : LET h == SyncOf(d)
                       g == [SyncOf(d) EXCEPT !.op = "sync"] IN
        /\ g = h /\ h.op = "sync" /\ h.doc = d /\ h.row = (IF LeftOpen(d) THEN att[d] ELSE NoRow)
        /\ h.to = IF LeftOpen(d) THEN "close" ELSE "derive"
BY DEF SyncOf, Idle

LEMMA BookLoad ==
    ASSUME TypeInv, Books, NEW r \in Request, LeaveLoad(r)
    PROVE  Books'
<1>0. ASSUME NEW h, h.op \notin Tracked, req' = [req EXCEPT ![r] = h], leave' = leave,
             UNCHANGED att, met \subseteq met'
      PROVE  Books'
  BY <1>0, CarriesEnd, BookFrame
<1>1. ASSUME NEW l \in Leave, Apply(r, l) PROVE Books'
  <2> DEFINE h == [[Idle EXCEPT !.doc = l, !.n = Units(l)] EXCEPT !.op = "apply"]
  <2>1. req' = [req EXCEPT ![r] = h] /\ UNCHANGED <<leave, att>> /\ met \subseteq met' /\ leave[l].st = "none" /\ Overlapping(l) = {}
    BY <1>1 DEF Apply, Start, Meets
  <2>2. h.op = "apply" /\ h.doc = l
    BY DEF Idle
  <2> HIDE DEF h
  <2>3. \A k \in Leave : leave[k].st \in Open => Dates[k] \cap Dates[l] = {}
    BY <2>1 DEF Overlapping, Open
  <2>4. Fits(h)
    BY <2>1, <2>2, <2>3 DEF Fits, Marks
  <2>5. QED
    BY <2>1, <2>4, BookStart
<1>2. ASSUME NEW l \in Leave, Approve(r, l) PROVE Books'
  <2> DEFINE h == [[Idle EXCEPT !.doc = l, !.n = Units(l)] EXCEPT !.op = "approve"]
  <2>1. req' = [req EXCEPT ![r] = h] /\ UNCHANGED <<leave, att>> /\ met \subseteq met' /\ leave[l].st = "pending" /\ Unlocked(l)
    BY <1>2 DEF Approve, Start, Decidable, Meets
  <2>2. h.op = "approve" /\ h.doc = l
    BY DEF Idle
  <2> HIDE DEF h
  <2>3. Fits(h)
    BY <2>1, <2>2 DEF Fits, Marks
  <2>4. QED
    BY <2>1, <2>3, BookStart
<1>3. ASSUME NEW l \in Leave, Cancel(r, l) PROVE Books'
  <2> DEFINE h == [[Idle EXCEPT !.doc = l] EXCEPT !.op = "cancel"]
  <2>1. req' = [req EXCEPT ![r] = h] /\ UNCHANGED <<leave, att>> /\ met \subseteq met' /\ leave[l].st \in Open /\ Unlocked(l)
    BY <1>3 DEF Cancel, Start, Meets
  <2>2. h.op = "cancel" /\ h.doc = l
    BY DEF Idle
  <2> HIDE DEF h
  <2>3. Fits(h)
    BY <2>1, <2>2 DEF Fits, Marks
  <2>4. QED
    BY <2>1, <2>3, BookStart
<1>4. ASSUME NEW d \in Day, Sync(r, d) PROVE Books'
  <2>1. /\ req' = [req EXCEPT ![r] = [SyncOf(d) EXCEPT !.op = "sync"]] /\ UNCHANGED <<leave, att>> /\ met \subseteq met'
        /\ LeftOpen(d) \/ Derivable(d)
    BY <1>4 DEF Sync, Start, Meets
  <2>2. Fits(SyncOf(d))
    BY <2>1, SyncOfFields, SyncFits
  <2>3. QED
    BY <2>1, <2>2, SyncOfFields, BookStart
<1>5. ASSUME NEW d \in Day, NEW to \in Corrections, NEW note \in Leave \cup {NoLeave},
             Correct(r, d, to, note) \/ Add(r, d, to)
      PROVE  Books'
  <2>1. Begins(r, "correct", d) /\ UNCHANGED <<leave, att>>
    BY <1>5 DEF Correct, Add, Begins, Start, Idle
  <2>2. QED
    BY <1>0, <2>1 DEF Begins, Meets, Tracked, Marks
<1>6. ASSUME NEW d \in Day, SetHoliday(r, d) PROVE Books'
  <2>1. Begins(r, "holiday", d) /\ UNCHANGED <<leave, att>>
    BY <1>6 DEF SetHoliday, Begins, Start, Idle
  <2>2. QED
    BY <1>0, <2>1 DEF Begins, Meets, Tracked, Marks
<1>7. ASSUME NEW n \in Allocations, EditBalance(r, n) \/ Allocate(r, n) PROVE Books'
  <2>1. (\E kind \in {"patch", "allocate"} : Begins(r, kind, NoDoc)) /\ UNCHANGED <<leave, att>>
    BY <1>7 DEF EditBalance, Allocate, Begins, Start, Idle
  <2>2. QED
    BY <1>0, <2>1 DEF Begins, Meets, Tracked, Marks
<1>8. CASE BulkAllocate(r) \/ DropBalance(r)
  <2>1. (\E kind \in {"topup", "drop"} : Begins(r, kind, NoDoc)) /\ UNCHANGED <<leave, att>>
    BY <1>8 DEF BulkAllocate, DropBalance, Begins, Start, Idle
  <2>2. QED
    BY <1>0, <2>1 DEF Begins, Meets, Tracked, Marks
<1>9. ASSUME NEW kind \in Marks, Mark(r, kind) PROVE Books'
  <2> DEFINE h == [[Idle EXCEPT !.doc = today] EXCEPT !.op = kind]
  <2>1. req' = [req EXCEPT ![r] = h] /\ leave' = leave /\ met \subseteq met' /\ today \in Day /\ att[today].st # "on_leave"
    BY <1>9 DEF Mark, Start, Meets
  <2>2. h.op = kind /\ h.doc = today
    BY DEF Idle
  <2> HIDE DEF h
  <2>3. \A d \in Day : att[d].st # "none" => att'[d] = att[d]
    BY <1>9 DEF Mark, TypeInv, TypeOK, AttRec
  <2>4. \A l \in Leave : Approved(l) /\ today \in Booked(l) => att[today].given # "on_leave" \/ MarkMet
    BY <2>1 DEF Books, OnBooks, OwnRow
  <2>5. Fits(h)
    BY <1>9, <2>2, <2>4 DEF Fits, Marks
  <2>6. QED
    BY <2>1, <2>3, <2>5, BookStart
<1>10. QED
  BY <1>1, <1>2, <1>3, <1>4, <1>5, <1>6, <1>7, <1>8, <1>9 DEF LeaveLoad, Marks

LEMMA ApplyBooks ==
    ASSUME TypeInv, Pairs, Books, ~Unbooked, NEW r \in Request, ApplyWrite(r)
    PROVE  Books'
<1> DEFINE l == req[r].doc
<1>1. l \in Leave /\ req[r].op = "apply" /\ att' = att
  BY DocTypes DEF ApplyWrite, OnLeave
<1>2. \A q \in Request : req'[q].op \notin Tracked \/ (q # r /\ req'[q] = req[q])
  BY IdleOp DEF Marks, ApplyWrite, End, Tracked, Steady, TypeInv, TypeOK
<1>3. \A k \in Leave : leave'[k].st = IF k = l THEN "pending" ELSE leave[k].st
  BY <1>1 DEF ApplyWrite, TypeInv, TypeOK
<1>4. leave[l].st = "none" /\ \A k \in Leave : leave[k].st \in Open => Dates[k] \cap Dates[l] = {}
  BY <1>1 DEF Books, Asked, ApplyClear
<1>5. \A q \in Request : q # r => req[q].op # "apply"
  BY <1>1, HaveMet DEF Unbooked, Steady
<1> HIDE DEF l
<1>6. \A k \in Leave : Approved(k)' => Approved(k)
  BY <1>3 DEF Approved
<1>7. Apart'
  BY <1>3, <1>4 DEF Books, Apart
<1>8. ApplyClear'
  BY <1>2, <1>5 DEF ApplyClear, Tracked
<1>9. Deciding'
  <2> SUFFICES ASSUME NEW q \in Request, req'[q].op \in {"approve", "cancel"}
               PROVE  /\ req'[q].op = "approve" => leave'[req'[q].doc].st = "pending"
                      /\ req'[q].op = "cancel" => leave'[req'[q].doc].st \in Open
    BY DEF Deciding, Open
  <2>1. req'[q] = req[q] /\ req[q].doc \in Leave
    BY <1>2, DocTypes DEF Tracked, OnLeave
  <2>2. QED
    BY <1>3, <1>4, <2>1 DEF Books, Asked, Deciding, Open
<1>10. Exclusive'
  BY <1>2 DEF Books, Asked, Exclusive, Tracked
<1>m. (MarkMet' <=> MarkMet) /\ (NoteTaken' <=> NoteTaken)
  BY DEF ApplyWrite, MarkMet, Met, NoteTaken
<1>11. SyncOnBooks' /\ MarkOnBooks'
  BY <1>1, <1>2, <1>6, <1>m DEF Books, Asked, SyncOnBooks, MarkOnBooks, Tracked, Marks, Booked
<1>12. OnBooks'
  BY <1>1, <1>6, <1>m DEF OwnRow, Books, OnBooks, Booked
<1>13. QED
  BY <1>7, <1>8, <1>9, <1>10, <1>11, <1>12 DEF Books, Asked

LEMMA ApproveBooks ==
    ASSUME TypeInv, Pairs, Books, ~Unbooked, NEW r \in Request, ApproveWrite(r)
    PROVE  Books'
<1> DEFINE l == req[r].doc
<1>1. l \in Leave /\ req[r].op = "approve"
  BY DocTypes DEF ApproveWrite, OnLeave
<1>2. \A q \in Request : req'[q].op \notin Tracked \/ (q # r /\ req'[q] = req[q])
  BY RefreshingOp DEF Marks, ApproveWrite, EndRefreshing, Tracked, Steady, TypeInv, TypeOK
<1>3. \A k \in Leave : leave'[k].st = IF k = l THEN "approved" ELSE leave[k].st
  BY <1>1 DEF ApproveWrite, TypeInv, TypeOK
<1>4. leave[l].st = "pending"
  BY <1>1 DEF Books, Asked, Deciding
<1>5. \A q \in Request : q # r => req[q].op \notin {"sync", "correct"}
  BY <1>1, HaveMet DEF Unbooked, Steady
<1>a. \A d \in Day : att'[d] = IF d \in Booked(l) THEN LeaveRow(l, d) ELSE att[d]
  BY DEF ApproveWrite
<1>6. \A k \in Leave : leave'[k].st \in Open <=> leave[k].st \in Open
  BY <1>3, <1>4 DEF Open
<1>7. Apart'
  BY <1>6 DEF Books, Apart, Open
<1>8. ApplyClear'
  <2> SUFFICES ASSUME NEW q \in Request, req'[q].op = "apply"
               PROVE  /\ leave'[req'[q].doc].st = "none"
                      /\ \A k \in Leave : leave'[k].st \in Open => Dates[k] \cap Dates[req'[q].doc] = {}
    BY DEF ApplyClear, Open
  <2>1. req'[q] = req[q] /\ req[q].doc \in Leave
    BY <1>2, DocTypes DEF Tracked, OnLeave
  <2>2. leave[req[q].doc].st = "none"
    BY <2>1 DEF Books, Asked, ApplyClear
  <2>3. QED
    BY <1>3, <1>4, <1>6, <2>1, <2>2 DEF Books, Asked, ApplyClear
<1>9. Deciding'
  <2> SUFFICES ASSUME NEW q \in Request, req'[q].op \in {"approve", "cancel"}
               PROVE  /\ req'[q].op = "approve" => leave'[req'[q].doc].st = "pending"
                      /\ req'[q].op = "cancel" => leave'[req'[q].doc].st \in Open
    BY DEF Deciding, Open
  <2>1. q # r /\ req'[q] = req[q] /\ req[q].doc \in Leave
    BY <1>2, DocTypes DEF Tracked, OnLeave
  <2>2. req[q].doc # l
    BY <1>1, <2>1 DEF Books, Asked, Exclusive
  <2>3. QED
    BY <1>3, <2>1, <2>2 DEF Books, Asked, Deciding
<1>10. Exclusive'
  BY <1>2 DEF Books, Asked, Exclusive, Tracked
<1>m. (MarkMet' <=> MarkMet) /\ (NoteTaken' <=> NoteTaken)
  BY DEF ApproveWrite, MarkMet, Met, NoteTaken
<1>11. SyncOnBooks' /\ MarkOnBooks'
  <2>1. SyncOnBooks'
    BY <1>2, <1>5 DEF SyncOnBooks, Tracked
  <2>2. ASSUME NEW q \in Request, req'[q].op \in Marks PROVE MarkMet
    <3>1. q # r /\ req[q].op \in Marks
      BY <1>2, <2>2 DEF Tracked
    <3>2. QED
      BY <1>1, <3>1, HaveMet DEF MarkMet, Marks, Steady
  <2>3. MarkOnBooks'
    BY <1>m, <2>2 DEF MarkOnBooks
  <2>4. QED
    BY <2>1, <2>3
<1>12. OnBooks'
  <2> SUFFICES ASSUME NEW k \in Leave, leave'[k].st = "approved", NEW d \in Booked(k)
               PROVE  OwnRow(k, att'[d], MarkMet, NoteTaken)
    BY <1>m DEF OwnRow, OnBooks, Approved, Booked
  <2>0. d \in Day /\ att[d] \in AttRec
    BY DayOf DEF TypeInv, TypeOK
  <2>1. CASE k = l
    <3>1. att'[d] = [att[d] EXCEPT !.st = LeaveStatusOn(d), !.given = LeaveStatusOn(d), !.source = "admin", !.note = l]
      BY <1>a, <2>0, <2>1 DEF LeaveRow
    <3>2. /\ att'[d].st = LeaveStatusOn(d) /\ att'[d].given = LeaveStatusOn(d)
          /\ att'[d].source = "admin" /\ att'[d].note = l
      BY <2>0, <3>1 DEF AttRec
    <3>3. QED
      BY <2>0, <2>1, <3>2, LeaveStatusType DEF OwnRow
  <2>2. CASE k # l
    <3>1. leave[k].st = "approved" /\ Dates[k] \cap Dates[l] = {}
      BY <1>1, <1>3, <1>4, <2>2 DEF Books, Apart, Open
    <3>2. d \notin Booked(l)
      BY <3>1 DEF Booked
    <3>3. QED
      BY <1>a, <2>0, <3>1, <3>2 DEF Books, OnBooks, Approved
  <2>3. QED
    BY <2>1, <2>2
<1>13. QED
  BY <1>7, <1>8, <1>9, <1>10, <1>11, <1>12 DEF Books, Asked

LEMMA CancelBooks ==
    ASSUME TypeInv, Books, NEW r \in Request, CancelWrite(r)
    PROVE  Books'
<1> DEFINE l == req[r].doc
           rows == IF leave[l].st = "approved" THEN NotedRows(l) ELSE {}
<1>1. l \in Leave /\ req[r].op = "cancel"
  BY DocTypes DEF CancelWrite, OnLeave
<1>2. \A q \in Request : Carries(q)
  <2>1. ~Resync(r)
    BY <1>1 DEF Resync
  <2>2. QED
    BY <2>1, WriteReqs, ClosesCarries DEF LeaveWrite
<1>3. \A k \in Leave : leave'[k].st = IF k = l THEN "cancelled" ELSE leave[k].st
  BY <1>1 DEF CancelWrite, TypeInv, TypeOK, LeaveRec
<1>4. leave[l].st \in Open
  BY <1>1 DEF Books, Asked, Deciding
<1>5. \A q \in Request : req'[q].op \in {"approve", "cancel"} => req[q].doc # l
  <2> SUFFICES ASSUME NEW q \in Request, req'[q].op \in {"approve", "cancel"} PROVE req[q].doc # l
    OBVIOUS
  <2>1. q # r
    BY RefreshingOp DEF CancelWrite, Steady
  <2>2. req[q].op \in {"approve", "cancel"}
    BY <1>2 DEF Carries, Tracked
  <2>3. QED
    BY <1>1, <2>1, <2>2 DEF Books, Asked, Exclusive
<1>7. \A d \in Day : att'[d] = IF d \in rows THEN Rebuilt(d) ELSE att[d]
  BY DEF CancelWrite
<1>6. Apart' /\ Asked'
  <2>1. \A d \in Day : Rebuilt(d).given = "none"
    BY DEF Rebuilt, NoRow
  <2>2. \A d \in Day : att'[d].given \in {att[d].given, "none"}
    BY <1>7, <2>1
  <2>3. met \subseteq met'
    BY DEF CancelWrite
  <2>4. QED
    BY <1>2, <1>3, <1>4, <1>5, <2>2, <2>3, AskedFrame DEF Open
<1>m. (MarkMet' <=> MarkMet) /\ (NoteTaken' <=> NoteTaken)
  BY DEF CancelWrite, MarkMet, Met, NoteTaken
<1>8. OnBooks'
  <2> SUFFICES ASSUME NEW k \in Leave, leave'[k].st = "approved", NEW d \in Booked(k)
               PROVE  OwnRow(k, att'[d], MarkMet, NoteTaken)
    BY <1>m DEF OwnRow, OnBooks, Approved, Booked
  <2>1. k # l /\ leave[k].st = "approved" /\ d \in Day
    BY <1>3, DayOf
  <2>2. OwnRow(k, att[d], MarkMet, NoteTaken)
    BY <2>1 DEF Books, OnBooks, Approved
  <2>3. d \notin rows
    <3>1. ASSUME leave[l].st = "approved" PROVE d \notin Dates[l]
      BY <1>1, <2>1, <3>1 DEF Books, Apart, Open, Booked
    <3>2. QED
      BY <3>1 DEF NotedRows
  <2>4. QED
    BY <1>7, <2>1, <2>2, <2>3
<1>9. QED
  BY <1>6, <1>8 DEF Books

\* A write to the attendance that changes no leave.
LEMMA RowBooks ==
    ASSUME TypeInv, Books, NEW r \in Request, LeaveWrite(r), ~Resync(r), leave' = leave, OnBooks',
           met \subseteq met', \A d \in Day : att'[d].given \in {att[d].given, "none"}
    PROVE  Books'
<1>1. \A q \in Request : Carries(q)
  BY WriteReqs, ClosesCarries
<1>2. QED
  BY <1>1, AskedFrame DEF Books

LEMMA SyncBooks ==
    ASSUME TypeInv, Books, NEW r \in Request, SyncWrite(r)
    PROVE  Books'
<1> DEFINE d == req[r].doc
<1>1. d \in Day /\ req[r].op = "sync" /\ leave' = leave
  BY DocTypes DEF SyncWrite, OnDay
<1>2. \A l \in Leave : Approved(l) /\ d \in Booked(l) =>
          /\ req[r].to # "derive"
          /\ \/ req[r].lost
             \/ /\ req[r].row.note = l \/ (NoteTaken /\ att[d].given = "none")
                /\ att[d].given # "on_leave" \/ MarkMet
  BY <1>1 DEF Books, Asked, SyncOnBooks
<1>3. att[d] \in AttRec /\ StatusFor(d, Dialer[d]) # "none"
  BY <1>1, StatusType DEF TypeInv, TypeOK
<1>4. /\ \A e \in Day \ {d} : att'[e] = att[e]
      /\ req[r].to # "derive" =>
            att'[d] = IF req[r].lost THEN att[d]
                      ELSE [att[d] EXCEPT !.st = StatusFor(d, Dialer[d]), !.note = req[r].row.note]
  BY <1>1 DEF SyncWrite, TypeInv, TypeOK
<1>a. \A e \in Day : att'[e].given \in {att[e].given, "none"}
  BY <1>1, <1>3 DEF SyncWrite, TypeInv, TypeOK, AttRec
<1>m. (MarkMet' <=> MarkMet) /\ (NoteTaken' <=> NoteTaken) /\ met \subseteq met'
  BY DEF SyncWrite, MarkMet, Met, NoteTaken
<1> HIDE DEF d
<1>5. OnBooks'
  <2> SUFFICES ASSUME NEW k \in Leave, leave'[k].st = "approved", NEW e \in Booked(k)
               PROVE  OwnRow(k, att'[e], MarkMet, NoteTaken)
    BY <1>m DEF OwnRow, OnBooks, Approved, Booked
  <2>1. Approved(k) /\ e \in Day
    BY <1>1, DayOf DEF Approved
  <2>2. OwnRow(k, att[e], MarkMet, NoteTaken)
    BY <2>1 DEF Books, OnBooks
  <2>3. CASE e = d
    <3>1. CASE req[r].lost
      BY <1>2, <1>4, <2>1, <2>2, <2>3, <3>1
    <3>2. CASE ~req[r].lost
      <4>1. att'[d] = [att[d] EXCEPT !.st = StatusFor(d, Dialer[d]), !.note = req[r].row.note]
        BY <1>2, <1>4, <2>1, <2>3, <3>2
      <4>2. /\ att'[d].st = StatusFor(d, Dialer[d]) /\ att'[d].note = req[r].row.note
            /\ att'[d].source = att[d].source /\ att'[d].given = att[d].given
        BY <1>3, <4>1 DEF AttRec
      <4>3. QED
        BY <1>2, <1>3, <2>1, <2>2, <2>3, <3>2, <4>2 DEF OwnRow
    <3>3. QED
      BY <3>1, <3>2
  <2>4. CASE e # d
    BY <1>4, <2>1, <2>2, <2>4
  <2>5. QED
    BY <2>3, <2>4
<1>6. ~Resync(r) /\ LeaveWrite(r)
  BY <1>1 DEF Resync, LeaveWrite
<1>7. QED
  BY <1>1, <1>5, <1>6, <1>a, <1>m, RowBooks

LEMMA MarkBooks ==
    ASSUME TypeInv, Books, NEW r \in Request, MarkWrite(r)
    PROVE  Books'
<1> DEFINE d == req[r].doc
<1>1. d \in Day /\ req[r].op \in {"checkin", "checkout"} /\ leave' = leave
  BY DocTypes DEF MarkWrite, OnDay
<1>2. att[d] \in AttRec /\ \A e \in Earned : StatusFor(d, e) # "none"
  BY <1>1, StatusType DEF TypeInv, TypeOK
<1>3. \A row \in Marked(r, d) :
          row.st # "none" /\ row.source # "auto" /\ row.note = att[d].note /\ row.given = att[d].given
  <2> SUFFICES ASSUME NEW row \in Marked(r, d)
               PROVE  row.st # "none" /\ row.source # "auto" /\ row.note = att[d].note /\ row.given = att[d].given
    OBVIOUS
  <2>1. CASE req[r].op = "checkin"
    <3>1. row = [att[d] EXCEPT !.st = "present", !.source = "manual", !.in = TRUE]
      BY <2>1 DEF Marked
    <3>2. QED
      BY <1>2, <3>1 DEF AttRec
  <2>2. CASE req[r].op # "checkin"
    <3>1. PICK e \in Earned : row = [att[d] EXCEPT !.st = StatusFor(d, e), !.source = "manual", !.out = TRUE]
      BY <2>2 DEF Marked
    <3>2. QED
      BY <1>2, <3>1 DEF AttRec
  <2>3. QED
    BY <2>1, <2>2
<1>4. att' = att \/ (~req[r].lost /\ \E row \in Marked(r, d) : att' = [att EXCEPT ![d] = row])
  BY DEF MarkWrite
<1>e. \A e \in Day : att'[e] = att[e] \/ (e = d /\ ~req[r].lost /\ att'[e] \in Marked(r, d))
  BY <1>1, <1>4 DEF TypeInv, TypeOK
<1>n. ~req[r].lost => \A l \in Leave : Approved(l) /\ d \in Booked(l) => att[d].given # "on_leave" \/ MarkMet
  BY <1>1 DEF Books, Asked, MarkOnBooks, Marks
<1>m. (MarkMet' <=> MarkMet) /\ (NoteTaken' <=> NoteTaken) /\ met \subseteq met'
  BY DEF MarkWrite, MarkMet, Met, NoteTaken
<1> HIDE DEF d
<1>a. \A e \in Day : att'[e].given \in {att[e].given, "none"}
  BY <1>3, <1>e
<1>5. OnBooks'
  <2> SUFFICES ASSUME NEW k \in Leave, leave'[k].st = "approved", NEW e \in Booked(k)
               PROVE  OwnRow(k, att'[e], MarkMet, NoteTaken)
    BY <1>m DEF OwnRow, OnBooks, Approved, Booked
  <2>1. Approved(k) /\ e \in Day
    BY <1>1, DayOf DEF Approved
  <2>2. OwnRow(k, att[e], MarkMet, NoteTaken)
    BY <2>1 DEF Books, OnBooks
  <2>3. att'[e] = att[e] \/ (e = d /\ ~req[r].lost /\ att'[e] \in Marked(r, d))
    BY <1>e, <2>1
  <2>4. QED
    BY <1>3, <1>n, <2>1, <2>2, <2>3 DEF OwnRow
<1>6. ~Resync(r) /\ LeaveWrite(r)
  BY <1>1 DEF Resync, LeaveWrite
<1>7. QED
  BY <1>1, <1>5, <1>6, <1>a, <1>m, RowBooks

LEMMA CorrectBooks ==
    ASSUME TypeInv, Books, NEW r \in Request, CorrectWrite(r)
    PROVE  Books'
<1> DEFINE d == req[r].doc
<1>1. /\ d \in Day /\ req[r].op = "correct" /\ leave' = leave
      /\ req[r].to # "none" /\ req[r].row \in AttRec
  BY DocTypes DEF CorrectWrite, OnDay, TypeInv, Sound, ReqRec, Corrections
<1>2. /\ Corrected(r).st # "none" /\ Corrected(r).source = "admin"
      /\ Corrected(r).note = req[r].row.note /\ Corrected(r).given = "none"
  BY <1>1 DEF AttRec, Corrected
<1>3. \/ att' = att
      \/ att' = [att EXCEPT ![d] = Corrected(r)] /\ (Renoted(r) => NoteTaken')
  BY DEF CorrectWrite, NoteTaken
<1>4. Renoted(r) <=> att[d].note \notin {NoLeave, req[r].row.note}
  BY DEF Renoted
<1>m. (MarkMet => MarkMet') /\ (NoteTaken => NoteTaken') /\ met \subseteq met'
  BY CorrectMet, MetKept DEF MarkMet, NoteTaken
<1> HIDE DEF d
<1>e. \A e \in Day : att'[e] = att[e] \/ (e = d /\ att'[e] = Corrected(r) /\ (Renoted(r) => NoteTaken'))
  BY <1>1, <1>3 DEF TypeInv, TypeOK
<1>a. \A e \in Day : att'[e].given \in {att[e].given, "none"}
  BY <1>2, <1>e
<1>5. OnBooks'
  <2> SUFFICES ASSUME NEW k \in Leave, leave'[k].st = "approved", NEW e \in Booked(k)
               PROVE  OwnRow(k, att'[e], MarkMet', NoteTaken')
    BY DEF OnBooks, Approved, Booked
  <2>1. Approved(k) /\ e \in Day
    BY <1>1, DayOf DEF Approved
  <2>2. OwnRow(k, att[e], MarkMet, NoteTaken)
    BY <2>1 DEF Books, OnBooks
  <2>3. CASE att'[e] = att[e]
    BY <1>m, <2>2, <2>3 DEF OwnRow
  <2>4. CASE e = d /\ att'[e] = Corrected(r) /\ (Renoted(r) => NoteTaken')
    <3>1. Corrected(r).note = k \/ NoteTaken'
      <4>1. CASE att[d].note = k
        BY <1>2, <1>4, <2>4, <4>1
      <4>2. CASE att[d].note # k
        BY <1>m, <2>2, <2>4, <4>2 DEF OwnRow
      <4>3. QED
        BY <4>1, <4>2
    <3>2. QED
      BY <1>2, <2>4, <3>1 DEF OwnRow
  <2>5. QED
    BY <1>e, <2>1, <2>3, <2>4
<1>6. ~Resync(r) /\ LeaveWrite(r)
  BY <1>1 DEF Resync, LeaveWrite
<1>7. QED
  BY <1>1, <1>5, <1>6, <1>a, <1>m, RowBooks

LEMMA ResyncBooks ==
    ASSUME TypeInv, Books, NEW r \in Request, Resync(r)
    PROVE  Books'
<1> DEFINE d == req[r].doc
<1>1. d \in Day /\ UNCHANGED <<leave, att>> /\ met \subseteq met'
  BY DocTypes DEF Resync, OnDay, Meets
<1>2. (req' = [req EXCEPT ![r] = SyncOf(d)] /\ Derivable(d)) \/ req' = [req EXCEPT ![r] = Idle]
  BY DEF Resync, End
<1> HIDE DEF d
<1>3. CASE req' = [req EXCEPT ![r] = SyncOf(d)] /\ Derivable(d)
  <2>1. Fits(SyncOf(d))
    BY <1>1, <1>3, SyncOfFields, SyncFits
  <2>2. QED
    BY <1>1, <1>3, <2>1, BookStart
<1>4. CASE req' = [req EXCEPT ![r] = Idle]
  BY <1>1, <1>4, IdleOp, CarriesEnd, BookFrame DEF Tracked, Marks, Steady
<1>5. QED
  BY <1>2, <1>3, <1>4

LEMMA RejectBooks ==
    ASSUME TypeInv, Books, NEW l \in Leave, Reject(l)
    PROVE  Books'
<1>1. \A k \in Leave : leave'[k].st = IF k = l THEN "rejected" ELSE leave[k].st
  BY DEF Reject, TypeInv, TypeOK, LeaveRec
<1>2. leave[l].st = "pending" /\ Unlocked(l) /\ UNCHANGED <<req, att, met>>
  BY DEF Reject
<1>3. \A q \in Request : Carries(q)
  BY <1>2 DEF Carries
<1>4. Apart' /\ Asked'
  BY <1>1, <1>2, <1>3, AskedFrame DEF Open, Unlocked
<1>5. OnBooks'
  BY <1>1, <1>2 DEF Books, OnBooks, Approved, Booked, MarkMet, Met, NoteTaken
<1>6. QED
  BY <1>4, <1>5 DEF Books

LEMMA BookNext == BookInv /\ [Next]_vars => BookInv'
<1> SUFFICES ASSUME BookInv, [Next]_vars, ~Unbooked' PROVE Books'
  BY NextType, NextPairs DEF BookInv
<1>1. TypeInv /\ Pairs /\ Books /\ ~Unbooked /\ met \subseteq met'
  <2>1. met \subseteq met'
    BY NextPairs DEF BookInv
  <2>2. ~Unbooked
    BY <2>1, MetKept DEF Unbooked
  <2>3. QED
    BY <2>1, <2>2 DEF BookInv
<1>2. ASSUME \A q \in Request : Closes(q), UNCHANGED <<leave, att>> PROVE Books'
  BY <1>1, <1>2, ClosesCarries, BookFrame
<1>3. CASE PayrollNext
  BY <1>1, <1>2, <1>3, PayrollReqs
<1>4. ASSUME NEW r \in Request, LeaveLoad(r) PROVE Books'
  BY <1>1, <1>4, BookLoad
<1>5. ASSUME NEW r \in Request, LeaveWrite(r) PROVE Books'
  <2>1. CASE ApplyWrite(r) \/ ApproveWrite(r) \/ CancelWrite(r)
    BY <1>1, <2>1, ApplyBooks, ApproveBooks, CancelBooks
  <2>2. CASE SyncWrite(r) \/ Resync(r) \/ MarkWrite(r) \/ CorrectWrite(r)
    BY <1>1, <2>2, SyncBooks, ResyncBooks, MarkBooks, CorrectBooks
  <2>3. CASE ApproveShort(r) \/ PatchWrite(r) \/ AllocateWrite(r) \/ DropWrite(r)
    <3>1. ~Resync(r) /\ UNCHANGED <<leave, att>>
      BY <2>3 DEF ApproveShort, Refused, PatchWrite, AllocateWrite, DropWrite, Resync
    <3>2. QED
      BY <1>1, <1>2, <1>5, <3>1, WriteReqs
  <2>4. QED
    BY <1>5, <2>1, <2>2, <2>3 DEF LeaveWrite
<1>6. ASSUME NEW l \in Leave, Reject(l) PROVE Books'
  BY <1>1, <1>6, RejectBooks
<1>7. ASSUME NEW n \in Quotas, SetQuota(n) PROVE Books'
  BY <1>2, <1>7 DEF SetQuota, Closes
<1>8. CASE BulkCreate \/ NextDay
  BY <1>2, <1>8 DEF BulkCreate, NextDay, Closes
<1>9. CASE UNCHANGED vars
  BY <1>2, <1>9 DEF vars, Closes
<1>10. QED
  BY <1>3, <1>4, <1>5, <1>6, <1>7, <1>8, <1>9 DEF BookInv, Next, LeaveNext

LEMMA BookInit == Init => BookInv
<1> SUFFICES ASSUME Init PROVE BookInv
  OBVIOUS
<1>1. TypeInv /\ Pairs
  BY InitType, InitPairs
<1>2. \A l \in Leave : leave[l].st = IF l \in Waiting THEN "pending" ELSE "none"
  BY DEF Init
<1>3. OnBooks /\ Apart
  BY <1>2 DEF OnBooks, Apart, Approved, Open
<1>4. Asked
  BY IdleOp DEF Init, Asked, ApplyClear, Deciding, Exclusive, SyncOnBooks, MarkOnBooks, Marks
<1>5. QED
  BY <1>1, <1>3, <1>4 DEF BookInv, Books

\* The attendance of every date of an approved full-day leave is the leave's:
\* the row names it and a paid day is on leave until HR corrects it, unless two
\* applications met, or a sync or a correction met an approval, or, of the
\* status, a check-in or a check-out.
THEOREM LeaveKept == Spec => []LeaveOnBooks
<1>1. BookInv => LeaveOnBooks
  BY DEF BookInv, Books, OnBooks, OwnRow, MarkMet, Marks, Unbooked, Approved, LeaveOnBooks
<1>2. QED
  BY <1>1, BookInit, BookNext, PTL DEF Spec
-----------------------------------------------------------------------------
(* What the balance has used.  A decision in progress has its request as it *)
(* found it, so each leave is charged once and refunded once.  An edit of   *)
(* the balance in progress holds what was used when it looked, unless a     *)
(* decision met it.                                                         *)

AccountMet == Met({"patch", "drop"}, {"approve", "cancel"}) \/ {"quota"} \in met
Applying ==
    \A r \in Request : req[r].op = "apply" =>
        /\ leave[req[r].doc].st = "none"
        /\ \A q \in Request : q # r /\ req[q].op = "apply" => req[q].doc # req[r].doc
Orderly == Applying /\ Deciding /\ Exclusive
Charged(l) == leave[l].days > 0 /\ leave[l].charged = IF quota > 0 THEN leave[l].days ELSE 0
Looked ==
    \A r \in Request :
        /\ req[r].op = "approve" => req[r].n > 0
        /\ req[r].op = "patch" => req[r].bal.exists /\ req[r].bal.used = balance.used
        /\ req[r].op = "drop" /\ ~req[r].lost => balance.used = 0
Accounts ==
    /\ balance.used = SumFunction(Charges)
    /\ balance.exists \/ balance.used = 0
    /\ \A l \in Leave : Approved(l) => Charged(l)
    /\ Looked
AccountInv == TypeInv /\ Pairs /\ Orderly /\ (AccountMet \/ Accounts)

Weighed == OnLeave \cup {"patch", "drop"}
\* These requests keep what they hold, or lose their row, and none begins.
Keeping(q) ==
    req'[q].op \in Weighed =>
        /\ req'[q].op = req[q].op /\ req'[q].doc = req[q].doc /\ req'[q].n = req[q].n
        /\ req'[q].bal = req[q].bal /\ (req[q].lost => req'[q].lost)

LEMMA ClosesKeeping == ASSUME TypeInv, \A q \in Request : Closes(q) PROVE \A q \in Request : Keeping(q)
BY DEF Closes, Keeping, Weighed, OnLeave, Steady, OnMonth, TypeInv, TypeOK, ReqRec

LEMMA BeginsKeeping ==
    ASSUME TypeInv, NEW r \in Request, NEW h, h.op \notin Weighed, req' = [req EXCEPT ![r] = h]
    PROVE  \A q \in Request : Keeping(q)
<1>1. \A q \in Request : req'[q] = IF q = r THEN h ELSE req[q]
  BY DEF TypeInv, TypeOK
<1>2. QED
  BY <1>1 DEF Keeping

LEMMA WriteKeeping == ASSUME TypeInv, NEW r \in Request, LeaveWrite(r) PROVE \A q \in Request : Keeping(q)
<1>1. CASE Resync(r)
  <2>1. SyncOf(req[r].doc).op = "sync"
    BY DEF SyncOf, Idle
  <2>2. \E h : h.op \notin Weighed /\ req' = [req EXCEPT ![r] = h]
    BY <1>1, <2>1, IdleOp DEF Resync, End, Weighed, OnLeave, Steady
  <2>3. QED
    BY <2>2, BeginsKeeping
<1>2. QED
  BY <1>1, WriteReqs, ClosesKeeping

\* Requests that are decided or booked stay so under those in progress.
LEMMA OrderlyFrame ==
    ASSUME TypeInv, Orderly, \A q \in Request : Keeping(q),
           \A l \in Leave : leave'[l].st # leave[l].st =>
               \A q \in Request : req'[q].op \in OnLeave => req[q].doc # l
    PROVE  Orderly'
<1>1. \A q \in Request : req'[q].op \in OnLeave =>
         /\ req[q].op = req'[q].op /\ req'[q].doc = req[q].doc
         /\ leave'[req[q].doc].st = leave[req[q].doc].st
  <2> SUFFICES ASSUME NEW q \in Request, req'[q].op \in OnLeave
               PROVE  /\ req[q].op = req'[q].op /\ req'[q].doc = req[q].doc
                      /\ leave'[req[q].doc].st = leave[req[q].doc].st
    OBVIOUS
  <2>1. req[q].op = req'[q].op /\ req'[q].doc = req[q].doc
    BY DEF Keeping, Weighed
  <2>2. req[q].doc \in Leave
    BY <2>1, DocTypes
  <2>3. QED
    BY <2>1, <2>2
<1>2. Applying'
  BY <1>1 DEF Orderly, Applying, OnLeave
<1>3. Deciding'
  BY <1>1 DEF Orderly, Deciding, OnLeave, Open
<1>4. Exclusive'
  BY <1>1 DEF Orderly, Exclusive, OnLeave
<1>5. QED
  BY <1>2, <1>3, <1>4 DEF Orderly

\* A request begins on a leave.
LEMMA OrderlyStart ==
    ASSUME TypeInv, Orderly, NEW r \in Request, NEW h, req' = [req EXCEPT ![r] = h], UNCHANGED leave,
           h.op = "apply" => leave[h.doc].st = "none" /\ \A q \in Request : req[q].op = "apply" => req[q].doc # h.doc,
           h.op = "approve" => leave[h.doc].st = "pending",
           h.op = "cancel" => leave[h.doc].st \in Open,
           h.op \in {"approve", "cancel"} => Unlocked(h.doc)
    PROVE  Orderly'
<1>1. \A q \in Request : req'[q] = IF q = r THEN h ELSE req[q]
  BY DEF TypeInv, TypeOK
<1>2. Applying'
  BY <1>1 DEF Orderly, Applying
<1>3. Deciding'
  BY <1>1 DEF Orderly, Deciding
<1>4. Exclusive'
  BY <1>1 DEF Orderly, Exclusive, Unlocked
<1>5. QED
  BY <1>2, <1>3, <1>4 DEF Orderly

LEMMA ChargesType ==
    ASSUME TypeInv
    PROVE  /\ DOMAIN Charges = Leave /\ \A l \in Leave : Charges[l] \in Nat
           /\ \A l \in Leave : Charges[l] = IF Approved(l) THEN leave[l].charged ELSE 0
           /\ SumFunction(Charges) = SumFunctionOnSet(Charges, Leave)
<1>1. /\ DOMAIN Charges = Leave
      /\ \A l \in Leave : Charges[l] = IF Approved(l) THEN leave[l].charged ELSE 0
  BY DEF Charges, Approved
<1>2. \A l \in Leave : Charges[l] \in Nat
  BY <1>1 DEF TypeInv, TypeOK, LeaveRec
<1>3. QED
  BY <1>1, <1>2 DEF SumFunction

LEMMA ChargesTypeNext ==
    ASSUME TypeInv'
    PROVE  /\ DOMAIN Charges' = Leave /\ \A l \in Leave : Charges'[l] \in Nat
           /\ \A l \in Leave : Charges'[l] = IF leave'[l].st = "approved" THEN leave'[l].charged ELSE 0
           /\ SumFunction(Charges)' = SumFunctionOnSet(Charges', Leave)
<1>1. /\ DOMAIN Charges' = Leave
      /\ \A l \in Leave : Charges'[l] = IF leave'[l].st = "approved" THEN leave'[l].charged ELSE 0
  BY DEF Charges
<1>2. \A l \in Leave : Charges'[l] \in Nat
  BY <1>1 DEF TypeInv, TypeOK, LeaveRec
<1>3. QED
  BY <1>1, <1>2 DEF SumFunction

\* One leave is charged, or no longer.
LEMMA ChargeChange ==
    ASSUME TypeInv, TypeInv', NEW l \in Leave, \A k \in Leave \ {l} : leave'[k] = leave[k]
    PROVE  SumFunction(Charges)' = SumFunction(Charges) + Charges'[l] - Charges[l]
<1>1. \A k \in Leave : Charges[k] \in Int /\ Charges'[k] \in Int
  BY ChargesType, ChargesTypeNext
<1>2. \A k \in Leave \ {l} : Charges'[k] = Charges[k]
  BY ChargesType, ChargesTypeNext DEF Approved
<1>3. SumFunctionOnSet(Charges', Leave) = SumFunctionOnSet(Charges, Leave) + Charges'[l] - Charges[l]
  BY <1>1, <1>2, SumChange
<1>4. QED
  BY <1>3, ChargesType, ChargesTypeNext

\* The approved leaves stay as they are.
LEMMA ChargesSame ==
    ASSUME \A l \in Leave : leave'[l].st = "approved" \/ leave[l].st = "approved" => leave'[l] = leave[l]
    PROVE  Charges' = Charges
BY DEF Charges

LEMMA AccountFrame ==
    ASSUME Accounts, UNCHANGED quota, \A q \in Request : Keeping(q),
           \A l \in Leave : leave'[l].st = "approved" \/ leave[l].st = "approved" => leave'[l] = leave[l],
           balance'.used = balance.used, balance'.exists \/ balance'.used = 0
    PROVE  Accounts'
<1>1. Charges' = Charges
  BY ChargesSame
<1>2. Looked'
  BY DEF Accounts, Looked, Keeping, Weighed, OnLeave
<1>3. \A l \in Leave : Approved(l)' => Charged(l)'
  BY DEF Accounts, Approved, Charged
<1>4. SumFunction(Charges)' = SumFunction(Charges)
  BY <1>1
<1>5. QED
  BY <1>2, <1>3, <1>4 DEF Accounts

LEMMA AccountStart ==
    ASSUME TypeInv, Accounts, UNCHANGED <<leave, quota>>, NEW r \in Request, NEW h, req' = [req EXCEPT ![r] = h],
           balance'.used = balance.used, balance'.exists \/ balance'.used = 0,
           h.op = "approve" => h.n > 0,
           h.op = "patch" => h.bal.exists /\ h.bal.used = balance.used,
           h.op = "drop" => balance.used = 0
    PROVE  Accounts'
<1>0. \A q \in Request : req'[q] = IF q = r THEN h ELSE req[q]
  BY DEF TypeInv, TypeOK
<1>1. Charges' = Charges
  BY ChargesSame
<1>2. Looked'
  BY <1>0 DEF Accounts, Looked
<1>3. \A l \in Leave : Approved(l)' => Charged(l)'
  BY DEF Accounts, Approved, Charged
<1>4. SumFunction(Charges)' = SumFunction(Charges)
  BY <1>1
<1>5. QED
  BY <1>2, <1>3, <1>4 DEF Accounts

LEMMA UnitsPositive == \A l \in Leave : WorkingDays(l) # {} => Units(l) > 0
<1> SUFFICES ASSUME NEW l \in Leave, WorkingDays(l) # {} PROVE Units(l) > 0
  OBVIOUS
<1>1. IsFiniteSet(WorkingDays(l))
  BY FS_Subset DEF WorkingDays
<1>2. Cardinality(WorkingDays(l)) \in Nat /\ Cardinality(WorkingDays(l)) # 0
  BY <1>1, FS_CardinalityType, FS_EmptySet
<1>3. QED
  BY <1>2 DEF Units

\* The balance an operation opens has used nothing.
LEMMA OpenedAccount ==
    ASSUME TypeInv, Accounts
    PROVE  /\ BalanceFor(balance).exists /\ BalanceFor(balance).used = balance.used
           /\ BalanceFor(balance) \in BalanceRec
BY DEF TypeInv, TypeOK, BalanceRec, BalanceFor, Accounts

LEMMA AccountLoad ==
    ASSUME TypeInv, Orderly, NEW r \in Request, LeaveLoad(r)
    PROVE  Orderly' /\ (Accounts => Accounts')
<1> DEFINE Goal == Orderly' /\ (Accounts => Accounts')
<1>t. Accounts => /\ balance.exists \/ balance.used = 0
                  /\ BalanceFor(balance).exists /\ BalanceFor(balance).used = balance.used
  BY OpenedAccount DEF Accounts
<1>1. ASSUME NEW l \in Leave, Apply(r, l) PROVE Goal
  <2> DEFINE h == [[Idle EXCEPT !.doc = l, !.n = Units(l)] EXCEPT !.op = "apply"]
  <2>1. /\ req' = [req EXCEPT ![r] = h] /\ UNCHANGED <<leave, quota>>
        /\ leave[l].st = "none" /\ \A q \in Request : req[q].op = "apply" => req[q].doc # l
        /\ balance' = balance \/ balance' = BalanceFor(balance)
    BY <1>1 DEF Apply, Start
  <2>2. h.op = "apply" /\ h.doc = l
    BY DEF Idle
  <2> HIDE DEF h
  <2>3. Orderly'
    BY <2>1, <2>2, OrderlyStart
  <2>4. ASSUME Accounts PROVE Accounts'
    BY <1>t, <2>1, <2>2, <2>4, AccountStart
  <2>5. QED
    BY <2>3, <2>4
<1>2. ASSUME NEW l \in Leave, Approve(r, l) PROVE Goal
  <2> DEFINE h == [[Idle EXCEPT !.doc = l, !.n = Units(l)] EXCEPT !.op = "approve"]
  <2>1. /\ req' = [req EXCEPT ![r] = h] /\ UNCHANGED <<leave, quota, balance>>
        /\ leave[l].st = "pending" /\ Unlocked(l) /\ WorkingDays(l) # {}
    BY <1>2 DEF Approve, Decidable, Start
  <2>2. h.op = "approve" /\ h.doc = l /\ h.n = Units(l)
    BY DEF Idle
  <2>3. Units(l) > 0
    BY <2>1, UnitsPositive
  <2> HIDE DEF h
  <2>4. Orderly'
    BY <2>1, <2>2, OrderlyStart
  <2>5. ASSUME Accounts PROVE Accounts'
    BY <1>t, <2>1, <2>2, <2>3, <2>5, AccountStart
  <2>6. QED
    BY <2>4, <2>5
<1>3. ASSUME NEW l \in Leave, Cancel(r, l) PROVE Goal
  <2> DEFINE h == [[Idle EXCEPT !.doc = l] EXCEPT !.op = "cancel"]
  <2>1. /\ req' = [req EXCEPT ![r] = h] /\ UNCHANGED <<leave, quota, balance>>
        /\ leave[l].st \in Open /\ Unlocked(l)
    BY <1>3 DEF Cancel, Start
  <2>2. h.op = "cancel" /\ h.doc = l
    BY DEF Idle
  <2> HIDE DEF h
  <2>3. Orderly'
    BY <2>1, <2>2, OrderlyStart
  <2>4. ASSUME Accounts PROVE Accounts'
    BY <1>t, <2>1, <2>2, <2>4, AccountStart
  <2>5. QED
    BY <2>3, <2>4
<1>4. ASSUME NEW n \in Allocations, EditBalance(r, n) PROVE Goal
  <2> DEFINE h == [[Idle EXCEPT !.n = n, !.bal = balance] EXCEPT !.op = "patch"]
  <2>1. req' = [req EXCEPT ![r] = h] /\ UNCHANGED <<leave, quota, balance>> /\ balance.exists
    BY <1>4 DEF EditBalance, Start
  <2>2. h.op = "patch" /\ h.bal = balance
    BY DEF Idle
  <2> HIDE DEF h
  <2>3. Orderly'
    BY <2>1, <2>2, OrderlyStart
  <2>4. ASSUME Accounts PROVE Accounts'
    BY <1>t, <2>1, <2>2, <2>4, AccountStart
  <2>5. QED
    BY <2>3, <2>4
<1>5. ASSUME DropBalance(r) PROVE Goal
  <2> DEFINE h == [Idle EXCEPT !.op = "drop"]
  <2>1. req' = [req EXCEPT ![r] = h] /\ UNCHANGED <<leave, quota, balance>> /\ balance.used = 0
    BY <1>5 DEF DropBalance, Start
  <2>2. h.op = "drop"
    BY DEF Idle
  <2> HIDE DEF h
  <2>3. Orderly'
    BY <2>1, <2>2, OrderlyStart
  <2>4. ASSUME Accounts PROVE Accounts'
    BY <1>t, <2>1, <2>2, <2>4, AccountStart
  <2>5. QED
    BY <2>3, <2>4
<1>6. ASSUME NEW kind \in {"allocate", "topup", "sync", "holiday", "correct", "checkin", "checkout"}, NEW doc,
             Begins(r, kind, doc), UNCHANGED <<leave, quota, balance>>
      PROVE  Goal
  <2>1. \A q \in Request : Keeping(q)
    BY <1>6, BeginsKeeping DEF Begins, Weighed, OnLeave
  <2>2. Orderly'
    BY <1>6, <2>1, OrderlyFrame
  <2>3. ASSUME Accounts PROVE Accounts'
    BY <1>6, <1>t, <2>1, <2>3, AccountFrame
  <2>4. QED
    BY <2>2, <2>3
<1> HIDE DEF Goal
<1>7. ASSUME NEW n \in Allocations, Allocate(r, n) PROVE Goal
  <2>1. Begins(r, "allocate", NoDoc) /\ UNCHANGED <<leave, quota, balance>>
    BY <1>7 DEF Allocate, Begins, Start, Idle
  <2>2. QED
    BY <1>6, <2>1
<1>8. ASSUME BulkAllocate(r) PROVE Goal
  <2>1. Begins(r, "topup", NoDoc) /\ UNCHANGED <<leave, quota, balance>>
    BY <1>8 DEF BulkAllocate, Begins, Start, Idle
  <2>2. QED
    BY <1>6, <2>1
<1>9. ASSUME NEW d \in Day, Sync(r, d) \/ SetHoliday(r, d) PROVE Goal
  <2>1. (Begins(r, "sync", d) \/ Begins(r, "holiday", d)) /\ UNCHANGED <<leave, quota, balance>>
    BY <1>9 DEF Sync, SetHoliday, SyncOf, Begins, Start, Idle
  <2>2. QED
    BY <1>6, <2>1
<1>10. ASSUME NEW d \in Day, NEW to \in Corrections, NEW note \in Leave \cup {NoLeave},
             Correct(r, d, to, note) \/ Add(r, d, to)
      PROVE  Goal
  <2>1. Begins(r, "correct", d) /\ UNCHANGED <<leave, quota, balance>>
    BY <1>10 DEF Correct, Add, Begins, Start, Idle
  <2>2. QED
    BY <1>6, <2>1
<1>11. ASSUME NEW kind \in {"checkin", "checkout"}, Mark(r, kind) PROVE Goal
  <2>1. Begins(r, kind, today) /\ UNCHANGED <<leave, quota, balance>>
    BY <1>11 DEF Mark, Begins, Start, Idle
  <2>2. QED
    BY <1>6, <1>11, <2>1
<1>12. QED
  BY <1>1, <1>2, <1>3, <1>4, <1>5, <1>7, <1>8, <1>9, <1>10, <1>11 DEF LeaveLoad, Goal

\* Each leave is charged what its approval found, and the balance with it.
LEMMA ApproveAccount ==
    ASSUME TypeInv, TypeInv', Pairs, Orderly, NEW r \in Request, ApproveWrite(r)
    PROVE  Orderly' /\ (Accounts => AccountMet \/ Accounts')
<1>0. PICK l \in Leave : l = req[r].doc
  BY DocTypes DEF ApproveWrite, OnLeave
<1>1. /\ req[r].op = "approve" /\ UNCHANGED quota
      /\ balance' = IF quota > 0 THEN [BalanceFor(balance) EXCEPT !.used = @ + req[r].n] ELSE balance
      /\ leave' = [leave EXCEPT ![l] = [st |-> "approved", days |-> req[r].n,
                                        charged |-> IF quota > 0 THEN req[r].n ELSE 0]]
  BY <1>0 DEF ApproveWrite
<1>2. /\ leave'[l] = [st |-> "approved", days |-> req[r].n, charged |-> IF quota > 0 THEN req[r].n ELSE 0]
      /\ \A k \in Leave \ {l} : leave'[k] = leave[k]
  BY <1>1 DEF TypeInv, TypeOK
<1>3. leave[l].st = "pending"
  BY <1>0, <1>1 DEF Orderly, Deciding
<1>4. \A q \in Request : Keeping(q)
  BY WriteKeeping DEF LeaveWrite
<1>5. \A q \in Request : req'[q].op \in OnLeave => req[q].doc # l /\ q # r
  <2>1. req'[r].op \notin OnLeave
    BY RefreshingOp DEF ApproveWrite, EndRefreshing, TypeInv, TypeOK, OnLeave, Steady
  <2>2. ASSUME NEW q \in Request, req'[q].op \in OnLeave PROVE req[q].doc # l
    <3>1. req[q].op \in OnLeave /\ q # r
      BY <1>4, <2>1, <2>2 DEF Keeping, Weighed
    <3>2. QED
      BY <1>0, <1>1, <1>3, <3>1 DEF Orderly, Applying, Exclusive, OnLeave
  <2>3. QED
    BY <2>1, <2>2
<1>6. Orderly'
  BY <1>2, <1>4, <1>5, OrderlyFrame
<1>7. ASSUME Accounts, ~AccountMet PROVE Accounts'
  <2>t. req[r].n \in Nat /\ quota \in Nat /\ balance.used \in Nat /\ req[r].n > 0
    BY <1>1, <1>7 DEF TypeInv, TypeOK, ReqRec, BalanceRec, Accounts, Looked
  <2>1. \A q \in Request : req[q].op \notin {"patch", "drop"}
    <3> SUFFICES ASSUME NEW q \in Request, req[q].op \in {"patch", "drop"} PROVE FALSE
      OBVIOUS
    <3>1. q # r /\ req[q].op \in {"patch", "drop"} \ Steady /\ req[r].op \in {"approve", "cancel"} \ Steady
      BY <1>1 DEF Steady
    <3>2. QED
      BY <1>7, <3>1, HaveMet DEF AccountMet
  <2>2. SumFunction(Charges)' = SumFunction(Charges) + Charges'[l] - Charges[l]
    BY <1>2, ChargeChange
  <2>3. Charges[l] = 0 /\ Charges'[l] = IF quota > 0 THEN req[r].n ELSE 0
    BY <1>2, <1>3, ChargesType, ChargesTypeNext DEF Approved
  <2>4. balance'.used = SumFunction(Charges)'
    <3>1. balance.used = SumFunction(Charges)
      BY <1>7 DEF Accounts
    <3>2. balance'.used = IF quota > 0 THEN balance.used + req[r].n ELSE balance.used
      BY <1>1, <1>7, OpenedAccount DEF BalanceRec
    <3>3. QED
      BY <2>2, <2>3, <2>t, <3>1, <3>2
  <2>5. balance'.exists \/ balance'.used = 0
    BY <1>1, <1>7, OpenedAccount DEF BalanceRec, Accounts
  <2>6. \A k \in Leave : Approved(k)' => Charged(k)'
    BY <1>1, <1>2, <1>7, <2>t DEF Accounts, Approved, Charged
  <2>7. Looked'
    BY <1>4, <1>7, <2>1 DEF Accounts, Looked, Keeping, Weighed, OnLeave
  <2>8. QED
    BY <2>4, <2>5, <2>6, <2>7 DEF Accounts
<1>8. QED
  BY <1>6, <1>7

\* A cancellation gives back what its leave was charged, and no more was used
\* by the others.
LEMMA CancelAccount ==
    ASSUME TypeInv, TypeInv', Pairs, Orderly, NEW r \in Request, CancelWrite(r)
    PROVE  Orderly' /\ (Accounts => AccountMet \/ Accounts')
<1>0. PICK l \in Leave : l = req[r].doc
  BY DocTypes DEF CancelWrite, OnLeave
<1>1. /\ req[r].op = "cancel" /\ UNCHANGED quota
      /\ balance' = IF leave[l].st = "approved" THEN Refunded(l) ELSE balance
      /\ leave' = [leave EXCEPT ![l].st = "cancelled"]
  BY <1>0 DEF CancelWrite
<1>2. leave'[l].st = "cancelled" /\ \A k \in Leave \ {l} : leave'[k] = leave[k]
  BY <1>1 DEF TypeInv, TypeOK, LeaveRec
<1>3. leave[l].st \in Open
  BY <1>0, <1>1 DEF Orderly, Deciding
<1>4. \A q \in Request : Keeping(q)
  BY WriteKeeping DEF LeaveWrite
<1>5. \A q \in Request : req'[q].op \in OnLeave => req[q].doc # l /\ q # r
  <2>1. req'[r].op \notin OnLeave
    BY RefreshingOp DEF CancelWrite, OnLeave, Steady
  <2>2. ASSUME NEW q \in Request, req'[q].op \in OnLeave PROVE req[q].doc # l
    <3>1. req[q].op \in OnLeave /\ q # r
      BY <1>4, <2>1, <2>2 DEF Keeping, Weighed
    <3>2. QED
      BY <1>0, <1>1, <1>3, <3>1 DEF Orderly, Applying, Exclusive, OnLeave, Open
  <2>3. QED
    BY <2>1, <2>2
<1>6. Orderly'
  BY <1>2, <1>4, <1>5, OrderlyFrame
<1>7. ASSUME Accounts, ~AccountMet PROVE Accounts'
  <2>t. /\ quota \in Nat /\ balance \in BalanceRec /\ leave[l].days \in Nat /\ leave[l].charged \in Nat
        /\ balance.used = SumFunction(Charges)
    BY <1>7 DEF TypeInv, TypeOK, LeaveRec, Accounts
  <2>1. \A q \in Request : req[q].op \notin {"patch", "drop"}
    <3> SUFFICES ASSUME NEW q \in Request, req[q].op \in {"patch", "drop"} PROVE FALSE
      OBVIOUS
    <3>1. q # r /\ req[q].op \in {"patch", "drop"} \ Steady /\ req[r].op \in {"approve", "cancel"} \ Steady
      BY <1>1 DEF Steady
    <3>2. QED
      BY <1>7, <3>1, HaveMet DEF AccountMet
  <2>2. SumFunction(Charges)' = SumFunction(Charges) + Charges'[l] - Charges[l]
    BY <1>2, ChargeChange
  <2>3. Charges[l] = (IF Approved(l) THEN leave[l].charged ELSE 0) /\ Charges'[l] = 0
    BY <1>2, ChargesType, ChargesTypeNext
  <2>4. Charges[l] <= SumFunction(Charges)
    BY ChargesType, SumNat
  <2>5. Approved(l) => leave[l].days > 0 /\ leave[l].charged = IF quota > 0 THEN leave[l].days ELSE 0
    BY <1>7 DEF Accounts, Charged
  <2>6. balance'.used = SumFunction(Charges)' /\ (balance'.exists \/ balance'.used = 0)
    <3>1. CASE ~Approved(l)
      BY <1>1, <1>7, <2>2, <2>3, <2>t, <3>1 DEF Approved, Accounts, BalanceRec
    <3>2. CASE Approved(l) /\ ~(quota > 0)
      BY <1>1, <1>7, <2>2, <2>3, <2>5, <2>t, <3>2 DEF Approved, Accounts, Refunded, BalanceRec
    <3>3. CASE Approved(l) /\ quota > 0
      <4>1. leave[l].charged > 0 /\ Refund(l) = leave[l].charged /\ leave[l].charged <= balance.used
        BY <2>3, <2>4, <2>5, <2>t, <3>3 DEF Refund
      <4>2. balance.exists
        BY <1>7, <2>t, <4>1 DEF Accounts
      <4>3. balance' = [balance EXCEPT !.used = IF @ > Refund(l) THEN @ - Refund(l) ELSE 0]
        BY <1>1, <3>3, <4>2 DEF Approved, Refunded
      <4>4. balance'.used = balance.used - leave[l].charged /\ balance'.exists
        BY <2>t, <4>1, <4>2, <4>3 DEF BalanceRec
      <4>5. QED
        BY <2>2, <2>3, <2>t, <3>3, <4>4 DEF BalanceRec
    <3>4. QED
      BY <3>1, <3>2, <3>3
  <2>7. \A k \in Leave : Approved(k)' => Charged(k)'
    BY <1>1, <1>2, <1>7 DEF Accounts, Approved, Charged
  <2>8. Looked'
    BY <1>4, <1>7, <2>1 DEF Accounts, Looked, Keeping, Weighed, OnLeave
  <2>9. QED
    BY <2>6, <2>7, <2>8 DEF Accounts
<1>8. QED
  BY <1>6, <1>7

LEMMA OtherWrites ==
    ASSUME TypeInv, Orderly, NEW r \in Request, LeaveWrite(r), ~ApproveWrite(r), ~CancelWrite(r)
    PROVE  Orderly' /\ (Accounts => Accounts')
<1> DEFINE Goal == Orderly' /\ (Accounts => Accounts')
<1>0. \A q \in Request : Keeping(q)
  BY WriteKeeping
<1>t. Accounts => /\ balance.exists \/ balance.used = 0
                  /\ BalanceFor(balance).exists /\ BalanceFor(balance).used = balance.used
                  /\ BalanceFor(balance) \in BalanceRec
  BY OpenedAccount DEF Accounts
<1>1. ASSUME ApplyWrite(r) PROVE Goal
  <2>0. PICK l \in Leave : l = req[r].doc
    BY <1>1, DocTypes DEF ApplyWrite, OnLeave
  <2>1. /\ req[r].op = "apply" /\ UNCHANGED <<quota, balance>>
        /\ leave' = [leave EXCEPT ![l] = [st |-> "pending", days |-> req[r].n, charged |-> 0]]
        /\ req' = [req EXCEPT ![r] = Idle]
    BY <1>1, <2>0 DEF ApplyWrite, End
  <2>2. leave[l].st = "none" /\ leave'[l].st = "pending" /\ \A k \in Leave \ {l} : leave'[k] = leave[k]
    BY <2>0, <2>1 DEF TypeInv, TypeOK, Orderly, Applying
  <2>3. \A q \in Request : req'[q].op \in OnLeave => req[q].doc # l
    <3> SUFFICES ASSUME NEW q \in Request, req'[q].op \in OnLeave PROVE req[q].doc # l
      OBVIOUS
    <3>1. req[q].op \in OnLeave /\ q # r
      BY <1>0, <2>1, IdleOp DEF Keeping, Weighed, OnLeave, TypeInv, TypeOK
    <3>2. QED
      BY <2>0, <2>1, <2>2, <3>1 DEF Orderly, Applying, Deciding, OnLeave, Open
  <2>4. Orderly'
    BY <1>0, <2>2, <2>3, OrderlyFrame
  <2>5. ASSUME Accounts PROVE Accounts'
    BY <1>0, <1>t, <2>1, <2>2, <2>5, AccountFrame
  <2>6. QED
    BY <2>4, <2>5
<1>2. ASSUME UNCHANGED <<leave, quota>>, Accounts => balance'.used = balance.used /\ (balance'.exists \/ balance'.used = 0)
      PROVE  Goal
  <2>1. Orderly'
    BY <1>0, <1>2, OrderlyFrame
  <2>2. ASSUME Accounts PROVE Accounts'
    BY <1>0, <1>2, <2>2, AccountFrame
  <2>3. QED
    BY <2>1, <2>2
<1> HIDE DEF Goal
<1>3. ASSUME PatchWrite(r) PROVE Goal
  <2>1. ASSUME Accounts PROVE balance'.used = balance.used /\ (balance'.exists \/ balance'.used = 0)
    <3>1. req[r].bal.exists /\ req[r].bal.used = balance.used /\ req[r].bal \in BalanceRec
      BY <1>3, <2>1 DEF PatchWrite, Accounts, Looked, TypeInv, TypeOK, ReqRec
    <3>2. QED
      BY <1>3, <1>t, <2>1, <3>1 DEF PatchWrite, BalanceRec
  <2>2. QED
    BY <1>2, <1>3, <2>1 DEF PatchWrite
<1>4. ASSUME AllocateWrite(r) PROVE Goal
  <2>1. ASSUME Accounts PROVE balance'.used = balance.used /\ (balance'.exists \/ balance'.used = 0)
    BY <1>4, <1>t, <2>1 DEF AllocateWrite, BalanceRec
  <2>2. QED
    BY <1>2, <1>4, <2>1 DEF AllocateWrite
<1>5. ASSUME DropWrite(r) PROVE Goal
  <2>1. ASSUME Accounts PROVE balance'.used = balance.used /\ (balance'.exists \/ balance'.used = 0)
    BY <1>5, <1>t, <2>1 DEF DropWrite, NoBalance, Accounts, Looked
  <2>2. QED
    BY <1>2, <1>5, <2>1 DEF DropWrite
<1>6. ASSUME ApproveShort(r) \/ SyncWrite(r) \/ Resync(r) \/ MarkWrite(r) \/ CorrectWrite(r) PROVE Goal
  BY <1>2, <1>6, <1>t DEF ApproveShort, Refused, SyncWrite, Resync, MarkWrite, CorrectWrite
<1>7. QED
  BY <1>1, <1>3, <1>4, <1>5, <1>6 DEF LeaveWrite, Goal

LEMMA AccountNext == AccountInv /\ [Next]_vars => AccountInv'
<1> SUFFICES ASSUME AccountInv, [Next]_vars PROVE AccountInv'
  OBVIOUS
<1> DEFINE Goal == Orderly' /\ (Accounts => AccountMet' \/ Accounts')
<1>1. TypeInv /\ TypeInv' /\ Pairs /\ Pairs' /\ Orderly /\ met \subseteq met'
  BY NextType, NextPairs DEF AccountInv
<1>2. AccountMet => AccountMet'
  BY <1>1, MetKept DEF AccountMet
<1>3. ASSUME NEW r \in Request, LeaveLoad(r) PROVE Goal
  BY <1>1, <1>3, AccountLoad
<1>4. ASSUME NEW r \in Request, LeaveWrite(r) PROVE Goal
  BY <1>1, <1>2, <1>4, ApproveAccount, CancelAccount, OtherWrites
<1>5. ASSUME \A q \in Request : Keeping(q), UNCHANGED <<leave, quota>>,
             Accounts => balance'.used = balance.used /\ (balance'.exists \/ balance'.used = 0)
      PROVE  Goal
  <2>1. Orderly'
    BY <1>1, <1>5, OrderlyFrame
  <2>2. ASSUME Accounts PROVE Accounts'
    BY <1>5, <2>2, AccountFrame
  <2>3. QED
    BY <2>1, <2>2
<1>6. ASSUME NEW l \in Leave, Reject(l) PROVE Goal
  <2>1. /\ leave[l].st = "pending" /\ Unlocked(l) /\ UNCHANGED <<req, quota, balance>>
        /\ leave'[l].st = "rejected" /\ \A k \in Leave \ {l} : leave'[k] = leave[k]
    BY <1>1, <1>6 DEF Reject, TypeInv, TypeOK, LeaveRec
  <2>2. \A q \in Request : Keeping(q)
    BY <2>1 DEF Keeping
  <2>3. \A q \in Request : req'[q].op \in OnLeave => req[q].doc # l
    BY <1>1, <2>1 DEF Orderly, Applying, Unlocked, OnLeave
  <2>4. Orderly'
    BY <1>1, <2>1, <2>2, <2>3, OrderlyFrame
  <2>5. ASSUME Accounts PROVE Accounts'
    <3>1. balance'.used = balance.used /\ (balance'.exists \/ balance'.used = 0)
      BY <2>1, <2>5 DEF Accounts
    <3>2. \A k \in Leave : leave'[k].st = "approved" \/ leave[k].st = "approved" => leave'[k] = leave[k]
      BY <2>1
    <3>3. QED
      BY <2>1, <2>2, <2>5, <3>1, <3>2, AccountFrame
  <2>6. QED
    BY <2>4, <2>5
<1>7. ASSUME NEW n \in Quotas, SetQuota(n) PROVE Goal
  <2>1. \A q \in Request : Keeping(q)
    BY <1>7 DEF SetQuota, Keeping
  <2>2. Orderly'
    BY <1>1, <1>7, <2>1, OrderlyFrame DEF SetQuota
  <2>3. AccountMet'
    BY <1>7 DEF SetQuota, Happens, AccountMet
  <2>4. QED
    BY <2>2, <2>3
<1> HIDE DEF Goal
<1>8. ASSUME BulkCreate PROVE Goal
  <2>1. \A q \in Request : Keeping(q)
    BY <1>8 DEF BulkCreate, Keeping
  <2>2. Accounts => balance'.used = balance.used /\ (balance'.exists \/ balance'.used = 0)
    BY <1>1, <1>8, OpenedAccount DEF BulkCreate
  <2>3. QED
    BY <1>5, <1>8, <2>1, <2>2 DEF BulkCreate
<1>9. ASSUME NextDay \/ UNCHANGED vars PROVE Goal
  <2>1. (\A q \in Request : Keeping(q)) /\ UNCHANGED <<leave, quota, balance>>
    BY <1>9 DEF NextDay, vars, Keeping
  <2>2. QED
    BY <1>5, <2>1 DEF Accounts
<1>10. ASSUME PayrollNext PROVE Goal
  <2>1. (\A q \in Request : Keeping(q)) /\ UNCHANGED <<leave, balance>>
    BY <1>1, <1>10, PayrollReqs, ClosesKeeping
  <2>2. UNCHANGED quota
    BY <1>10 DEF PayrollNext, BuildWrite, FinalizeWrite, PayWrite, DeleteWrite, Crash, RunPayroll, Refresh,
                 SlipLoad, Reopen, DecideClaim, leaveVars
  <2>3. QED
    BY <1>5, <2>1, <2>2 DEF Accounts
<1>11. Goal
  BY <1>3, <1>4, <1>6, <1>7, <1>8, <1>9, <1>10 DEF Next, LeaveNext
<1>12. QED
  BY <1>1, <1>2, <1>11 DEF Goal, AccountInv

LEMMA AccountInit == Init => AccountInv
<1> SUFFICES ASSUME Init PROVE AccountInv
  OBVIOUS
<1>1. TypeInv /\ Pairs
  BY InitType, InitPairs
<1>2. \A r \in Request : req[r].op = "idle"
  BY IdleOp DEF Init
<1>3. Orderly
  BY <1>2 DEF Orderly, Applying, Deciding, Exclusive
<1>4. \A l \in Leave : ~Approved(l)
  BY DEF Init, Approved
<1>5. SumFunction(Charges) = 0
  <2>1. \A l \in Leave : Charges[l] = 0
    BY <1>4 DEF Charges, Approved
  <2>2. QED
    BY <1>1, <2>1, ChargesType, SumZero
<1>6. balance.used = 0
  BY DEF Init, BalanceFor, NoBalance
<1>7. QED
  BY <1>1, <1>2, <1>3, <1>4, <1>5, <1>6 DEF AccountInv, Accounts, Looked

\* The balance has used what the approved leaves were charged, each once,
\* whatever approvals, cancellations and allocations happen at the same time.
THEOREM BalanceHolds == Spec => []BalanceExact
<1>1. AccountInv => BalanceExact
  BY DEF AccountInv, Accounts, AccountMet, BalanceExact
<1>2. QED
  BY <1>1, AccountInit, AccountNext, PTL DEF Spec

-----------------------------------------------------------------------------
(* What the steps on payslips do to the slips and the requests.             *)

\* Request r goes on as h, and met notes it with whoever is in progress.
BeginsAs(r, h) ==
    /\ \A q \in Request : req'[q] = IF q = r THEN h ELSE req[q]
    /\ \A q \in Request \ {r} : req[q].op # "idle" => {h.op, req[q].op} \in met'
\* Request r writes, and then refreshes these months.
EndsAs(r, months) ==
    /\ \A q \in Request : q # r => req'[q] = req[q]
    /\ req'[r].op = (IF months = {} THEN "idle" ELSE "refresh")
    /\ req'[r].todo = months

LEMMA RefreshingFields ==
    ASSUME NEW r, NEW months
    PROVE  /\ Refreshing(r, months).op = (IF months = {} THEN "idle" ELSE "refresh")
           /\ Refreshing(r, months).todo = months
BY DEF Refreshing, Idle

LEMMA EndRefreshingEffect ==
    ASSUME TypeInv, NEW r \in Request, NEW months, EndRefreshing(r, months)
    PROVE  EndsAs(r, months)
BY RefreshingFields DEF EndRefreshing, EndsAs, TypeInv, TypeOK

LEMMA EndEffect ==
    ASSUME TypeInv, NEW r \in Request, End(r)
    PROVE  EndsAs(r, {})
BY DEF End, Idle, EndsAs, TypeInv, TypeOK

LEMMA BeginEffect ==
    ASSUME TypeInv, NEW r \in Request, NEW h, NEW kind, h.op = kind, req' = [req EXCEPT ![r] = h], Meets(r, kind)
    PROVE  BeginsAs(r, h)
<1>1. \A q \in Request : req'[q] = IF q = r THEN h ELSE req[q]
  BY DEF TypeInv, TypeOK
<1>2. \A q \in Request \ {r} : req[q].op # "idle" => {kind, req[q].op} \in met'
  BY DEF Meets, Others, Free
<1>3. QED
  BY <1>1, <1>2 DEF BeginsAs

LEMMA RunEffect ==
    ASSUME TypeInv, NEW r \in Request, NEW m \in Month, RunPayroll(r, m)
    PROVE  /\ \E h : BeginsAs(r, h) /\ h.op = "build" /\ h.doc = m /\ h.pay = PayOf(m) /\ h.todo = {}
           /\ req[r].op = "idle"
           /\ UNCHANGED <<slip, leave, att, holiday, today, crashed>>
<1> DEFINE h == [[Idle EXCEPT !.doc = m, !.pay = PayOf(m)] EXCEPT !.op = "build"]
<1>1. req' = [req EXCEPT ![r] = h] /\ Meets(r, "build") /\ Free(r) /\ UNCHANGED <<slip, leaveVars, crashed>>
  BY DEF RunPayroll, Start
<1>2. h.op = "build" /\ h.doc = m /\ h.pay = PayOf(m) /\ h.todo = {}
  BY DEF Idle
<1> HIDE DEF h
<1>3. BeginsAs(r, h)
  BY <1>1, <1>2, BeginEffect
<1>4. QED
  BY <1>1, <1>2, <1>3 DEF Free, leaveVars

LEMMA RefreshEffect ==
    ASSUME TypeInv, NEW r \in Request, NEW m \in Month, Refresh(r, m)
    PROVE  /\ \/ /\ slip[m].st = "draft"
                 /\ \E h : BeginsAs(r, h) /\ h.op = "build" /\ h.doc = m /\ h.pay = PayOf(m) /\ h.todo = req[r].todo \ {m}
              \/ slip[m].st # "draft" /\ EndsAs(r, req[r].todo \ {m})
           /\ req[r].op = "refresh"
           /\ UNCHANGED <<slip, leave, att, holiday, today, crashed>>
<1>1. req[r].op = "refresh" /\ UNCHANGED <<slip, leaveVars, crashed>>
  BY DEF Refresh
<1>2. CASE slip[m].st = "draft"
  <2> DEFINE h == [Idle EXCEPT !.op = "build", !.doc = m, !.todo = req[r].todo \ {m}, !.pay = PayOf(m)]
  <2>1. req' = [req EXCEPT ![r] = h] /\ Meets(r, "build")
    BY <1>2 DEF Refresh
  <2>2. h.op = "build" /\ h.doc = m /\ h.pay = PayOf(m) /\ h.todo = req[r].todo \ {m}
    BY DEF Idle
  <2> HIDE DEF h
  <2>3. BeginsAs(r, h)
    BY <2>1, <2>2, BeginEffect
  <2>4. QED
    BY <1>1, <1>2, <2>2, <2>3 DEF leaveVars
<1>3. CASE slip[m].st # "draft"
  <2>1. EndRefreshing(r, req[r].todo \ {m})
    BY <1>3 DEF Refresh
  <2>2. QED
    BY <1>1, <1>3, <2>1, EndRefreshingEffect DEF leaveVars
<1>4. QED
  BY <1>2, <1>3

LEMMA SlipLoadEffect ==
    ASSUME TypeInv, NEW r \in Request, NEW m \in Month, SlipLoad(r, m)
    PROVE  /\ \E h : /\ BeginsAs(r, h) /\ h.doc = m
                     /\ \/ h.op = "finalize" /\ Finalizable(m)
                        \/ h.op = "pay" /\ FinalSlip(m)
                        \/ h.op = "delete"
           /\ req[r].op = "idle"
           /\ UNCHANGED <<slip, leave, att, holiday, today, crashed>>
<1>1. ASSUME NEW kind, Start(r, kind, [Idle EXCEPT !.doc = m])
      PROVE  (\E h : BeginsAs(r, h) /\ h.doc = m /\ h.op = kind) /\ req[r].op = "idle"
  <2> DEFINE h == [[Idle EXCEPT !.doc = m] EXCEPT !.op = kind]
  <2>1. req' = [req EXCEPT ![r] = h] /\ Meets(r, kind) /\ Free(r)
    BY <1>1 DEF Start
  <2>2. h.op = kind /\ h.doc = m
    BY DEF Idle
  <2> HIDE DEF h
  <2>3. BeginsAs(r, h)
    BY <2>1, <2>2, BeginEffect
  <2>4. QED
    BY <2>1, <2>2, <2>3 DEF Free
<1>2. UNCHANGED <<slip, leave, att, holiday, today, crashed>>
  BY DEF SlipLoad, leaveVars
<1>3. QED
  BY <1>1, <1>2 DEF SlipLoad, FinalSlip

LEMMA BuildWriteEffect ==
    ASSUME TypeInv, NEW r \in Request, BuildWrite(r)
    PROVE  /\ req[r].op = "build" /\ req[r].doc \in Month
           /\ slip'[req[r].doc].st = "draft" /\ slip'[req[r].doc].pay = req[r].pay
           /\ \A m \in Month : m # req[r].doc => slip'[m] = slip[m]
           /\ EndsAs(r, req[r].todo)
           /\ UNCHANGED <<leave, att, holiday, today, met, crashed>>
<1>1. req[r].op = "build" /\ EndRefreshing(r, req[r].todo) /\ UNCHANGED <<leaveVars, met, crashed>>
  BY DEF BuildWrite
<1>2. req[r].doc \in Month
  BY <1>1, SlipTypes DEF OnMonth
<1>3. slip' = [slip EXCEPT ![req[r].doc] = [st |-> "draft", pay |-> req[r].pay]]
  BY DEF BuildWrite
<1>4. QED
  BY <1>1, <1>2, <1>3, EndRefreshingEffect DEF leaveVars, TypeInv, TypeOK

\* Finalizing and paying change at most the status of one slip.
LEMMA StatusEffect ==
    ASSUME TypeInv, NEW r \in Request, FinalizeWrite(r) \/ PayWrite(r)
    PROVE  /\ req[r].op \in {"finalize", "pay"} /\ req[r].doc \in Month
           /\ \A m \in Month : slip'[m].pay = slip[m].pay /\ (m # req[r].doc => slip'[m] = slip[m])
           /\ slip'[req[r].doc].st =
                 IF req[r].op = "finalize"
                 THEN IF slip[req[r].doc].st = "draft" /\ ~req[r].lost THEN "finalized" ELSE slip[req[r].doc].st
                 ELSE IF req[r].lost THEN slip[req[r].doc].st ELSE "paid"
           /\ EndsAs(r, {})
           /\ UNCHANGED <<leave, att, holiday, today, met, crashed>>
<1>1. req[r].op \in {"finalize", "pay"} /\ End(r) /\ UNCHANGED <<leaveVars, met, crashed>>
  BY DEF FinalizeWrite, PayWrite
<1>2. req[r].doc \in Month /\ \A m \in Month : slip[m] \in SlipRec
  BY <1>1, SlipTypes DEF OnMonth
<1>3. PICK st : /\ slip' = [slip EXCEPT ![req[r].doc].st = st]
                /\ st = IF req[r].op = "finalize"
                        THEN IF slip[req[r].doc].st = "draft" /\ ~req[r].lost THEN "finalized" ELSE slip[req[r].doc].st
                        ELSE IF req[r].lost THEN slip[req[r].doc].st ELSE "paid"
  BY DEF FinalizeWrite, PayWrite
<1>4. \A m \in Month : slip'[m].pay = slip[m].pay /\ (m # req[r].doc => slip'[m] = slip[m])
  BY <1>2, <1>3 DEF SlipRec, TypeInv, TypeOK
<1>5. slip'[req[r].doc].st = st
  BY <1>2, <1>3 DEF SlipRec, TypeInv, TypeOK
<1>6. QED
  BY <1>1, <1>2, <1>3, <1>4, <1>5, EndEffect DEF leaveVars

LEMMA DeleteEffect ==
    ASSUME TypeInv, NEW r \in Request, DeleteWrite(r)
    PROVE  /\ req[r].op = "delete" /\ req[r].doc \in Month
           /\ \A m \in Month : slip'[m] = IF m = req[r].doc /\ ~req[r].lost THEN NoSlip ELSE slip[m]
           /\ req'[r] = Idle
           /\ \A q \in Request : q # r =>
                 IF req[q].op \in {"finalize", "pay", "delete"} /\ req[q].doc = req[r].doc
                 THEN req'[q].op = req[q].op /\ req'[q].doc = req[q].doc /\ req'[q].lost
                 ELSE req'[q] = req[q]
           /\ UNCHANGED <<leave, att, holiday, today, met, crashed>>
<1>1. req[r].op = "delete" /\ UNCHANGED <<leaveVars, met, crashed>>
  BY DEF DeleteWrite
<1>2. req[r].doc \in Month
  BY <1>1, SlipTypes DEF OnMonth
<1>3. \A q \in Request : LET y == [req[q] EXCEPT !.lost = TRUE] IN y.op = req[q].op /\ y.doc = req[q].doc /\ y.lost
  BY DEF TypeInv, TypeOK, ReqRec
<1>4. PICK d : d = req[r].doc
  OBVIOUS
<1>5. req' = [q \in Request |->
                  IF q = r THEN Idle
                  ELSE IF req[q].op \in {"finalize", "pay", "delete"} /\ req[q].doc = d
                  THEN [req[q] EXCEPT !.lost = TRUE] ELSE req[q]]
  BY <1>4 DEF DeleteWrite
<1>6. \A m \in Month : slip'[m] = IF m = d /\ ~req[r].lost THEN NoSlip ELSE slip[m]
  BY <1>2, <1>4 DEF DeleteWrite, TypeInv, TypeOK
<1>7. QED
  BY <1>1, <1>2, <1>3, <1>4, <1>5, <1>6 DEF leaveVars

LEMMA ReopenEffect ==
    ASSUME TypeInv, NEW m \in Month, Reopen(m)
    PROVE  /\ FinalSlip(m) /\ slip'[m].st = "draft"
           /\ \A k \in Month : slip'[k].pay = slip[k].pay /\ (k # m => slip'[k] = slip[k])
           /\ {"reopen"} \in met' /\ \A q \in Request : req[q].op # "idle" => {"reopen", req[q].op} \in met'
           /\ UNCHANGED <<req, leave, att, holiday, today, crashed>>
<1>1. /\ slip' = [slip EXCEPT ![m].st = "draft"] /\ FinalSlip(m) /\ slip[m] \in SlipRec
      /\ UNCHANGED <<req, leave, att, holiday, today, crashed>>
  BY SlipTypes DEF Reopen, Reopenable, FinalSlip, leaveVars
<1>2. {"reopen"} \in met' /\ \A q \in Request : req[q].op # "idle" => {"reopen", req[q].op} \in met'
  BY DEF Reopen, Happens, Free
<1>3. QED
  BY <1>1, <1>2 DEF SlipRec, TypeInv, TypeOK

-----------------------------------------------------------------------------
(* A final slip covers its month: whatever was built after the month's end  *)
(* does, and a slip is finalized only then.                                 *)

MonthsMet == Met({"build"}, {"finalize"})
Past(m, t) == \A d \in DaysIn(m) : d <= t
\* The slip of m is final, or is about to be.
Passed(m) == FinalSlip(m) \/ \E r \in Request : req[r].op \in {"finalize", "pay"} /\ req[r].doc = m /\ ~req[r].lost

Built ==
    /\ \A m \in Month : slip[m].pay.builtOn <= today
    /\ \A r \in Request : req[r].op = "build" => req[r].pay.builtOn <= today
Full ==
    \A m \in Month : Passed(m) =>
        /\ Past(m, slip[m].pay.builtOn)
        /\ \A r \in Request : req[r].op = "build" /\ req[r].doc = m => Past(m, req[r].pay.builtOn)
MonthInv == TypeInv /\ Pairs /\ Built /\ (MonthsMet \/ Full)

LEMMA PastTypes ==
    ASSUME TypeInv
    PROVE  /\ \A m \in Month : slip[m].pay.builtOn \in Nat /\ DaysIn(m) \subseteq Nat
           /\ \A r \in Request : req[r].pay.builtOn \in Nat
           /\ today \in Nat
BY DEF TypeInv, TypeOK, SlipRec, PayRec, ReqRec, DaysIn

LEMMA PastMeans ==
    ASSUME NEW m \in Month, NEW t \in Nat, NEW u \in Nat
    PROVE  /\ Past(m, t) <=> Upcoming(m, t) = {}
           /\ t <= u /\ Past(m, t) => Past(m, u)
<1>1. DaysIn(m) \subseteq Nat
  BY DEF DaysIn
<1>2. QED
  BY <1>1 DEF Past, Upcoming

\* The day goes on and nothing else about the payslips changes.
LEMMA MonthFrame ==
    ASSUME MonthInv, slip' = slip, \A q \in Request : req'[q].op \in OnMonth => req'[q] = req[q],
           today' \in Nat, today <= today', met \subseteq met'
    PROVE  Built' /\ (MonthsMet' \/ Full')
<1>1. \A q \in Request : req'[q].op \in {"build", "finalize", "pay"} => req'[q] = req[q]
  BY DEF OnMonth
<1>2. Built'
  <2>1. Built /\ today \in Nat /\ \A m \in Month : slip[m].pay.builtOn \in Nat
    BY PastTypes DEF MonthInv
  <2>2. \A r \in Request : req[r].pay.builtOn \in Nat
    BY PastTypes DEF MonthInv
  <2>3. \A m \in Month : slip'[m].pay.builtOn <= today'
    BY <2>1 DEF Built
  <2>4. \A r \in Request : req'[r].op = "build" => req'[r].pay.builtOn <= today'
    BY <1>1, <2>1, <2>2 DEF Built
  <2>5. QED
    BY <2>3, <2>4 DEF Built
<1>3. MonthsMet => MonthsMet'
  BY MetKept DEF MonthsMet
<1>4. \A m \in Month : Passed(m)' => Passed(m)
  BY <1>1 DEF Passed, FinalSlip
<1>5. Full => Full'
  BY <1>1, <1>4 DEF Full, Past, DaysIn
<1>6. QED
  BY <1>2, <1>3, <1>5 DEF MonthInv

\* A build begins: it is of today.
LEMMA MonthBuild ==
    ASSUME MonthInv, NEW r \in Request, NEW m \in Month, NEW h, BeginsAs(r, h), h.op = "build", h.doc = m,
           h.pay = PayOf(m), UNCHANGED <<slip, today>>, met \subseteq met'
    PROVE  Built' /\ (MonthsMet' \/ Full')
<1>1. h.pay.builtOn = today
  BY DEF PayOf
<1>2. \A q \in Request : req'[q] = IF q = r THEN h ELSE req[q]
  BY DEF BeginsAs
<1>3. Built'
  BY <1>1, <1>2, PastTypes DEF MonthInv, Built
<1>4. MonthsMet => MonthsMet'
  BY MetKept DEF MonthsMet
<1>5. ASSUME Full PROVE Full'
  <2> SUFFICES ASSUME NEW k \in Month, Passed(k)'
               PROVE  /\ Past(k, slip[k].pay.builtOn)
                      /\ \A q \in Request : req'[q].op = "build" /\ req'[q].doc = k => Past(k, req'[q].pay.builtOn)
    BY DEF Full, Past, DaysIn
  <2>1. Passed(k)
    BY <1>2 DEF Passed, FinalSlip
  <2>2. /\ Past(k, slip[k].pay.builtOn)
        /\ \A q \in Request : req[q].op = "build" /\ req[q].doc = k => Past(k, req[q].pay.builtOn)
    BY <1>5, <2>1 DEF Full
  <2>3. Past(k, today)
    BY <2>2, PastTypes, PastMeans DEF MonthInv, Built
  <2>4. QED
    BY <1>1, <1>2, <2>2, <2>3
<1>6. QED
  BY <1>3, <1>4, <1>5 DEF MonthInv

LEMMA MonthStep ==
    ASSUME MonthInv, [Next]_vars
    PROVE  Built' /\ (MonthsMet' \/ Full')
<1> DEFINE Goal == Built' /\ (MonthsMet' \/ Full')
<1>0. TypeInv /\ Pairs /\ Built /\ met \subseteq met' /\ (MonthsMet => MonthsMet') /\ TypeInv'
  BY NextPairs, MetKept, NextType DEF MonthInv, MonthsMet
<1>t. today \in Nat /\ today' \in Nat
  BY <1>0 DEF TypeInv, TypeOK
<1>1. CASE LeaveNext /\ UNCHANGED <<claim, crashed>>
  <2>1. today' = today \/ today' = today + 1
    <3>1. ASSUME NEW r \in Request, LeaveLoad(r) PROVE today' = today
      BY <3>1 DEF LeaveLoad, Apply, Approve, Cancel, EditBalance, Allocate, BulkAllocate, DropBalance, Sync,
                  SetHoliday, Correct, Add, Mark
    <3>2. ASSUME NEW r \in Request, LeaveWrite(r) PROVE today' = today
      BY <3>2 DEF LeaveWrite, ApplyWrite, ApproveWrite, ApproveShort, Refused, CancelWrite, PatchWrite,
                  AllocateWrite, DropWrite, SyncWrite, Resync, MarkWrite, CorrectWrite
    <3>3. ASSUME NEW l \in Leave, Reject(l) PROVE today' = today
      BY <3>3 DEF Reject
    <3>4. ASSUME NEW n \in Quotas, SetQuota(n) PROVE today' = today
      BY <3>4 DEF SetQuota
    <3>5. CASE BulkCreate
      BY <3>5 DEF BulkCreate
    <3>6. CASE NextDay
      BY <3>6 DEF NextDay
    <3>7. QED
      BY <1>1, <3>1, <3>2, <3>3, <3>4, <3>5, <3>6 DEF LeaveNext
  <2>2. QED
    BY <1>0, <1>1, <1>t, <2>1, LeaveFrame, MonthFrame
<1>2. ASSUME NEW r \in Request, NEW m \in Month, RunPayroll(r, m) PROVE Goal
  BY <1>0, <1>2, RunEffect, MonthBuild
<1>3. ASSUME NEW r \in Request, NEW m \in Month, Refresh(r, m) PROVE Goal
  <2>1. CASE \E h : BeginsAs(r, h) /\ h.op = "build" /\ h.doc = m /\ h.pay = PayOf(m)
    BY <1>0, <1>3, <2>1, RefreshEffect, MonthBuild
  <2>2. CASE EndsAs(r, req[r].todo \ {m})
    <3>1. slip' = slip /\ today' = today
      BY <1>0, <1>3, RefreshEffect
    <3>2. \A q \in Request : req'[q].op \in OnMonth => req'[q] = req[q]
      BY <2>2 DEF EndsAs, OnMonth
    <3>3. QED
      BY <1>0, <1>t, <3>1, <3>2, MonthFrame
  <2>3. QED
    BY <1>0, <1>3, <2>1, <2>2, RefreshEffect
<1>4. ASSUME NEW r \in Request, NEW m \in Month, SlipLoad(r, m) PROVE Goal
  <2>1. PICK h : /\ BeginsAs(r, h) /\ h.doc = m
                 /\ \/ h.op = "finalize" /\ Finalizable(m)
                    \/ h.op = "pay" /\ FinalSlip(m)
                    \/ h.op = "delete"
    BY <1>0, <1>4, SlipLoadEffect
  <2>2. UNCHANGED <<slip, today>>
    BY <1>0, <1>4, SlipLoadEffect
  <2>3. \A q \in Request : req'[q] = IF q = r THEN h ELSE req[q]
    BY <2>1 DEF BeginsAs
  <2>4. Built'
    BY <1>0, <2>1, <2>2, <2>3 DEF Built
  <2>5. ASSUME Full, h.op # "finalize" PROVE Full'
    <3>1. \A k \in Month : Passed(k)' => Passed(k)
      BY <2>1, <2>2, <2>3, <2>5 DEF Passed, FinalSlip
    <3>2. QED
      BY <2>1, <2>2, <2>3, <2>5, <3>1 DEF Full, Past, DaysIn
  <2>6. ASSUME Full, h.op = "finalize", ~MonthsMet' PROVE Full'
    <3>1. \A q \in Request \ {r} : req[q].op # "build"
      BY <2>1, <2>6 DEF BeginsAs, MonthsMet, Met
    <3>2. Past(m, slip[m].pay.builtOn)
      BY <1>0, <2>1, <2>6, PastTypes, PastMeans DEF Finalizable
    <3>3. \A k \in Month : Passed(k)' => k = m \/ Passed(k)
      BY <2>1, <2>2, <2>3 DEF Passed, FinalSlip
    <3>4. \A q \in Request : req'[q].op # "build"
      BY <2>3, <2>6, <3>1
    <3>5. QED
      BY <2>2, <2>6, <3>2, <3>3, <3>4 DEF Full, Past, DaysIn
  <2>7. QED
    BY <1>0, <2>4, <2>5, <2>6 DEF MonthInv
<1>5. ASSUME NEW r \in Request, BuildWrite(r) PROVE Goal
  <2>1. /\ req[r].op = "build" /\ req[r].doc \in Month
        /\ slip'[req[r].doc].st = "draft" /\ slip'[req[r].doc].pay = req[r].pay
        /\ \A m \in Month : m # req[r].doc => slip'[m] = slip[m]
        /\ EndsAs(r, req[r].todo)
        /\ today' = today
    BY <1>0, <1>5, BuildWriteEffect
  <2>2. \A q \in Request : req'[q].op \notin Steady => q # r /\ req'[q] = req[q]
    BY <2>1 DEF EndsAs, Steady
  <2>3. Built'
    BY <1>0, <2>1, <2>2 DEF Built, Steady
  <2>4. \A k \in Month : Passed(k)' => Passed(k)
    BY <2>1, <2>2 DEF Passed, FinalSlip, Steady
  <2>5. ASSUME Full PROVE Full'
    <3> SUFFICES ASSUME NEW k \in Month, Passed(k)'
                 PROVE  /\ Past(k, slip'[k].pay.builtOn)
                        /\ \A q \in Request : req'[q].op = "build" /\ req'[q].doc = k => Past(k, req'[q].pay.builtOn)
      BY DEF Full, Past, DaysIn
    <3>1. /\ Past(k, slip[k].pay.builtOn)
          /\ \A q \in Request : req[q].op = "build" /\ req[q].doc = k => Past(k, req[q].pay.builtOn)
      BY <2>4, <2>5 DEF Full
    <3>2. Past(k, slip'[k].pay.builtOn)
      BY <2>1, <3>1
    <3>3. QED
      BY <2>2, <3>1, <3>2 DEF Steady
  <2>6. QED
    BY <1>0, <2>3, <2>5 DEF MonthInv
<1>6. ASSUME NEW r \in Request, FinalizeWrite(r) \/ PayWrite(r) PROVE Goal
  <2>1. /\ req[r].op \in {"finalize", "pay"} /\ req[r].doc \in Month
        /\ \A m \in Month : slip'[m].pay = slip[m].pay /\ (m # req[r].doc => slip'[m] = slip[m])
        /\ req[r].lost => slip'[req[r].doc].st = slip[req[r].doc].st
        /\ EndsAs(r, {}) /\ today' = today
    BY <1>0, <1>6, StatusEffect
  <2>2. \A q \in Request : req'[q].op \notin Steady => q # r /\ req'[q] = req[q]
    BY <2>1 DEF EndsAs, Steady
  <2>3. Built'
    BY <1>0, <2>1, <2>2 DEF Built, Steady
  <2>4. \A k \in Month : Passed(k)' => Passed(k)
    BY <2>1, <2>2 DEF Passed, FinalSlip, Steady
  <2>5. Full => Full'
    BY <2>1, <2>2, <2>4 DEF Full, Past, DaysIn, Steady
  <2>6. QED
    BY <1>0, <2>3, <2>5 DEF MonthInv
<1>7. ASSUME NEW r \in Request, DeleteWrite(r) PROVE Goal
  <2>1. /\ req[r].doc \in Month /\ today' = today
        /\ \A m \in Month : slip'[m] = IF m = req[r].doc /\ ~req[r].lost THEN NoSlip ELSE slip[m]
        /\ req'[r].op = "idle"
        /\ \A q \in Request : q # r =>
              IF req[q].op \in {"finalize", "pay", "delete"} /\ req[q].doc = req[r].doc
              THEN req'[q].op = req[q].op /\ req'[q].doc = req[q].doc /\ req'[q].lost
              ELSE req'[q] = req[q]
    BY <1>0, <1>7, DeleteEffect, IdleOp
  <2>2. NoSlip.st = "none" /\ NoSlip.pay.builtOn = 0
    BY DEF NoSlip, NoPay
  <2>3. \A q \in Request : req'[q].op = "build" => req'[q] = req[q]
    BY <2>1
  <2>4. Built'
    BY <1>0, <1>t, <2>1, <2>2, <2>3 DEF Built
  <2>5. \A k \in Month : Passed(k)' => Passed(k) /\ slip'[k] = slip[k]
    <3> SUFFICES ASSUME NEW k \in Month, Passed(k)' PROVE Passed(k) /\ slip'[k] = slip[k]
      OBVIOUS
    <3>1. CASE FinalSlip(k)'
      BY <2>1, <2>2, <3>1 DEF Passed, FinalSlip
    <3>2. ASSUME NEW q \in Request, req'[q].op \in {"finalize", "pay"}, req'[q].doc = k, ~req'[q].lost
          PROVE  Passed(k) /\ slip'[k] = slip[k]
      <4>1. q # r /\ req'[q] = req[q] /\ ~(req[q].op \in {"finalize", "pay", "delete"} /\ req[q].doc = req[r].doc)
        BY <2>1, <3>2
      <4>2. k # req[r].doc
        BY <3>2, <4>1
      <4>3. QED
        BY <2>1, <3>2, <4>1, <4>2 DEF Passed
    <3>3. QED
      BY <3>1, <3>2 DEF Passed
  <2>6. Full => Full'
    BY <2>3, <2>5 DEF Full, Past, DaysIn
  <2>7. QED
    BY <1>0, <2>4, <2>6 DEF MonthInv
<1>8. ASSUME NEW m \in Month, Reopen(m) PROVE Goal
  <2>1. /\ FinalSlip(m) /\ slip'[m].st = "draft"
        /\ \A k \in Month : slip'[k].pay = slip[k].pay /\ (k # m => slip'[k] = slip[k])
        /\ UNCHANGED <<req, today>>
    BY <1>0, <1>8, ReopenEffect
  <2>2. Built'
    BY <1>0, <2>1 DEF Built
  <2>3. \A k \in Month : Passed(k)' => Passed(k)
    BY <2>1 DEF Passed, FinalSlip
  <2>4. Full => Full'
    BY <2>1, <2>3 DEF Full, Past, DaysIn
  <2>5. QED
    BY <1>0, <2>2, <2>4 DEF MonthInv
<1>9. ASSUME NEW c \in Claim, NEW to \in {"approved", "rejected"}, DecideClaim(c, to) PROVE Goal
  BY <1>0, <1>9, <1>t, MonthFrame DEF DecideClaim, leaveVars
<1>10. ASSUME NEW r \in Request, Crash(r) PROVE Goal
  <2>1. UNCHANGED <<slip, today>> /\ EndsAs(r, {})
    BY <1>0, <1>10, EndEffect DEF Crash, leaveVars
  <2>2. \A q \in Request : req'[q].op \in OnMonth => req'[q] = req[q]
    BY <2>1 DEF EndsAs, OnMonth
  <2>3. QED
    BY <1>0, <1>t, <2>1, <2>2, MonthFrame
<1>11. CASE UNCHANGED vars
  BY <1>0, <1>11, <1>t, MonthFrame DEF vars
<1>12. QED
  BY <1>1, <1>2, <1>3, <1>4, <1>5, <1>6, <1>7, <1>8, <1>9, <1>10, <1>11 DEF Next, PayrollNext

-----------------------------------------------------------------------------
(* Who will rebuild a draft: a refresh that is still to come or a build in  *)
(* progress, or a check-in or check-out that has yet to write its row.      *)

Underway(m) ==
    \E r \in Request : \/ req[r].op \in {"refresh", "build"} /\ m \in req[r].todo
                       \/ req[r].op = "build" /\ req[r].doc = m
Marking(m) ==
    \E r \in Request : req[r].op \in {"checkin", "checkout"} /\ ~req[r].lost /\ MonthOf[req[r].doc] = m
Watched(m) == Underway(m) \/ Marking(m)

WatchKept == \A m \in Month : (Underway(m) => Underway(m)') /\ (Watched(m) => Watched(m)')
RowsWatched == \A d \in Day : att'[d].st # att[d].st => Watched(MonthOf[d])'
\* Full-day leave is approved or cancelled by a decision, which refreshes.
LeavesWatched ==
    \A l \in Leave \ HalfDay : ~(Approved(l)' <=> Approved(l)) =>
        /\ \A m \in Months(Dates[l]) : Underway(m)'
        /\ \E r \in Request : /\ req[r].op \in {"approve", "cancel"} /\ req[r].doc = l
                              /\ req[r].op = "cancel" => Approved(l)

LEMMA UnderwayKept ==
    ASSUME \A q \in Request : req[q].op \in {"refresh", "build"} => req'[q] = req[q]
    PROVE  \A m \in Month : Underway(m) => Underway(m)'
BY DEF Underway

LEMMA EndsWatched ==
    ASSUME NEW r \in Request, NEW months \in SUBSET Month, EndsAs(r, months), req[r].op \notin {"refresh", "build"},
           req[r].op \in {"checkin", "checkout"} /\ ~req[r].lost => MonthOf[req[r].doc] \in months
    PROVE  WatchKept /\ \A m \in months : Underway(m)'
<1>1. \A m \in months : Underway(m)'
  BY DEF EndsAs, Underway
<1>2. \A m \in Month : Underway(m) => Underway(m)'
  BY DEF EndsAs, Underway
<1>3. \A m \in Month : Marking(m) => Marking(m)' \/ m \in months
  BY DEF EndsAs, Marking
<1>4. QED
  BY <1>1, <1>2, <1>3 DEF WatchKept, Watched

LEMMA BeginsWatched ==
    ASSUME NEW r \in Request, NEW h, \A q \in Request : req'[q] = IF q = r THEN h ELSE req[q],
           req[r].op \notin {"refresh", "build", "checkin", "checkout"}
    PROVE  WatchKept
<1>1. \A m \in Month : Underway(m) => Underway(m)'
  BY DEF Underway
<1>2. \A m \in Month : Marking(m) => Marking(m)'
  BY DEF Marking
<1>3. QED
  BY <1>1, <1>2 DEF WatchKept, Watched

LEMMA MonthsOf ==
    /\ \A d \in Day : MonthOf[d] \in Month
    /\ \A days \in SUBSET Day : Months(days) \in SUBSET Month /\ \A d \in days : MonthOf[d] \in Months(days)
BY DEF Months

LEMMA LoadWatched ==
    ASSUME TypeInv, NEW r \in Request, LeaveLoad(r)
    PROVE  WatchKept /\ RowsWatched /\ LeavesWatched
<1>1. PICK kind \in Ops \ (Steady \cup OnMonth) : \E doc : Begins(r, kind, doc)
  BY LoadShape
<1>2. PICK h : req' = [req EXCEPT ![r] = h] /\ Free(r)
  BY <1>1 DEF Begins
<1>3. \A q \in Request : req'[q] = IF q = r THEN h ELSE req[q]
  BY <1>2 DEF TypeInv, TypeOK
<1>4. WatchKept
  BY <1>2, <1>3, BeginsWatched DEF Free
<1>5. leave' = leave
  BY DEF LeaveLoad, Apply, Approve, Cancel, EditBalance, Allocate, BulkAllocate, DropBalance, Sync,
         SetHoliday, Correct, Add, Mark
<1>6. LeavesWatched
  BY <1>5 DEF LeavesWatched, Approved
<1>7. ASSUME NEW act \in {"checkin", "checkout"}, Mark(r, act) PROVE RowsWatched
  <2>0. PICK e \in Day : e = today
    BY <1>7 DEF Mark
  <2> DEFINE g == [[Idle EXCEPT !.doc = e] EXCEPT !.op = act]
  <2>1. /\ req' = [req EXCEPT ![r] = g]
        /\ att' = [att EXCEPT ![e].st = IF @ = "none" THEN "absent" ELSE @]
    BY <1>7, <2>0 DEF Mark, Start
  <2>2. g.op = act /\ g.doc = e /\ ~g.lost
    BY DEF Idle
  <2>3. req'[r] = g
    BY <2>1 DEF TypeInv, TypeOK
  <2> HIDE DEF g
  <2>4. Marking(MonthOf[e])'
    BY <2>2, <2>3 DEF Marking
  <2>5. \A d \in Day : d # e => att'[d] = att[d]
    BY <2>1 DEF TypeInv, TypeOK
  <2>6. QED
    BY <2>4, <2>5 DEF RowsWatched, Watched
<1>8. ASSUME att' = att PROVE RowsWatched
  <2>1. \A d \in Day : att'[d].st = att[d].st
    BY <1>8
  <2>2. QED
    BY <2>1 DEF RowsWatched
<1>9. RowsWatched
  BY <1>7, <1>8 DEF LeaveLoad, Apply, Approve, Cancel, EditBalance, Allocate, BulkAllocate, DropBalance, Sync,
                    SetHoliday, Correct, Add
<1>10. QED
  BY <1>4, <1>6, <1>9

LEMMA ApproveWatched ==
    ASSUME TypeInv, NEW r \in Request, ApproveWrite(r)
    PROVE  WatchKept /\ RowsWatched /\ LeavesWatched
<1>1. PICK l \in Leave : l = req[r].doc
  BY DocTypes DEF ApproveWrite, OnLeave
<1>2. req[r].op = "approve" /\ EndRefreshing(r, Months(Booked(l)))
  BY <1>1 DEF ApproveWrite
<1>3. Months(Booked(l)) \in SUBSET Month /\ \A d \in Booked(l) : MonthOf[d] \in Months(Booked(l))
  BY DayOf, MonthsOf
<1>4. WatchKept /\ \A m \in Months(Booked(l)) : Underway(m)'
  BY <1>2, <1>3, EndRefreshingEffect, EndsWatched
<1>5. \A d \in Day : d \notin Booked(l) => att'[d] = att[d]
  BY <1>1 DEF ApproveWrite
<1>6. RowsWatched
  BY <1>3, <1>4, <1>5 DEF RowsWatched, Watched
<1>7. \A k \in Leave : k # l => leave'[k] = leave[k]
  BY <1>1 DEF ApproveWrite, TypeInv, TypeOK
<1>8. LeavesWatched
  BY <1>1, <1>2, <1>4, <1>7 DEF LeavesWatched, Approved, Booked
<1>9. QED
  BY <1>4, <1>6, <1>8

LEMMA CancelWatched ==
    ASSUME TypeInv, Books, NEW r \in Request, CancelWrite(r)
    PROVE  WatchKept /\ RowsWatched /\ (NoteTaken \/ LeavesWatched)
<1>1. PICK l \in Leave : l = req[r].doc
  BY DocTypes DEF CancelWrite, OnLeave
<1>2. PICK rows : rows = IF leave[l].st = "approved" THEN NotedRows(l) ELSE {}
  OBVIOUS
<1>3. rows \subseteq Day
  BY <1>2, DayOf DEF NotedRows
<1>4. /\ req[r].op = "cancel"
      /\ req' = [q \in Request |->
                  IF q = r THEN Refreshing(r, Months(rows))
                  ELSE IF req[q].op \in OnRow /\ req[q].doc \in rows
                  THEN [req[q] EXCEPT !.lost = TRUE] ELSE req[q]]
      /\ att' = [d \in Day |-> IF d \in rows THEN Rebuilt(d) ELSE att[d]]
      /\ leave' = [leave EXCEPT ![l].st = "cancelled"]
  BY <1>1, <1>2 DEF CancelWrite
<1>5. Months(rows) \in SUBSET Month /\ \A d \in rows : MonthOf[d] \in Months(rows)
  BY <1>3, MonthsOf
<1>6. \A m \in Months(rows) : Underway(m)'
  <2> SUFFICES ASSUME NEW m \in Months(rows) PROVE Underway(m)'
    OBVIOUS
  <2>1. req'[r] = Refreshing(r, Months(rows))
    BY <1>4
  <2>2. req'[r].op = "refresh" /\ req'[r].todo = Months(rows)
    BY <2>1, RefreshingFields
  <2>3. QED
    BY <2>2 DEF Underway
<1>7. \A q \in Request : q # r /\ ~(req[q].op \in OnRow /\ req[q].doc \in rows) => req'[q] = req[q]
  BY <1>4
<1>8. \A m \in Month : Underway(m) => Underway(m)'
  <2>1. \A q \in Request : req[q].op \in {"refresh", "build"} => req'[q] = req[q]
    BY <1>4, <1>7 DEF OnRow
  <2>2. QED
    BY <2>1, UnderwayKept
<1>9. \A m \in Month : Marking(m) => Marking(m)' \/ Underway(m)'
  <2> SUFFICES ASSUME NEW q \in Request, req[q].op \in {"checkin", "checkout"}, ~req[q].lost,
                      NEW d, d = req[q].doc
               PROVE  Marking(MonthOf[d])' \/ Underway(MonthOf[d])'
    BY DEF Marking
  <2>1. CASE d \in rows
    BY <1>5, <1>6, <2>1
  <2>2. CASE d \notin rows
    <3>1. req'[q] = req[q]
      BY <1>4, <1>7, <2>2
    <3>2. QED
      BY <3>1 DEF Marking
  <2>3. QED
    BY <2>1, <2>2
<1>10. RowsWatched
  BY <1>4, <1>5, <1>6 DEF RowsWatched, Watched
<1>11. \A k \in Leave : k # l => leave'[k] = leave[k]
  BY <1>4 DEF TypeInv, TypeOK
<1>12. ~Approved(l)'
  BY <1>4 DEF Approved, TypeInv, TypeOK, LeaveRec
<1>13. ASSUME ~NoteTaken PROVE Approved(l) /\ l \notin HalfDay => rows = Dates[l]
  BY <1>2, <1>13 DEF Approved, NotedRows, Books, OnBooks, OwnRow, Booked
<1>14. ASSUME ~NoteTaken PROVE LeavesWatched
  BY <1>1, <1>4, <1>6, <1>11, <1>12, <1>13, <1>14 DEF LeavesWatched, Approved
<1>15. QED
  BY <1>8, <1>9, <1>10, <1>14 DEF WatchKept, Watched

LEMMA EndIsRefreshing == \A r : End(r) <=> EndRefreshing(r, {})
BY DEF End, EndRefreshing, Refreshing

\* A write to one row of the attendance.
LEMMA RowWatched ==
    ASSUME TypeInv, NEW r \in Request, SyncWrite(r) \/ MarkWrite(r) \/ CorrectWrite(r)
    PROVE  WatchKept /\ RowsWatched /\ LeavesWatched
<1>1. PICK e \in Day : e = req[r].doc
  BY DocTypes DEF SyncWrite, MarkWrite, CorrectWrite, OnDay
<1>2. /\ req[r].op \in OnDay /\ leave' = leave /\ \A d \in Day : d # e => att'[d] = att[d]
      /\ \/ att' = att /\ EndRefreshing(r, {}) /\ (req[r].op \in {"checkin", "checkout"} => req[r].lost)
         \/ EndRefreshing(r, {MonthOf[e]})
  <2>1. CASE SyncWrite(r)
    BY <1>1, <2>1 DEF SyncWrite, OnDay, TypeInv, TypeOK
  <2>2. CASE MarkWrite(r)
    BY <1>1, <2>2 DEF MarkWrite, OnDay, TypeInv, TypeOK
  <2>3. CASE CorrectWrite(r)
    BY <1>1, <2>3, EndIsRefreshing DEF CorrectWrite, OnDay, TypeInv, TypeOK
  <2>4. QED
    BY <2>1, <2>2, <2>3
<1>3. LeavesWatched
  BY <1>2 DEF LeavesWatched, Approved
<1>4. req[r].op \notin {"refresh", "build"}
  BY <1>2 DEF OnDay
<1>5. CASE att' = att /\ EndRefreshing(r, {}) /\ (req[r].op \in {"checkin", "checkout"} => req[r].lost)
  <2>1. EndsAs(r, {})
    BY <1>5, EndRefreshingEffect
  <2>2. WatchKept
    BY <1>4, <1>5, <2>1, EndsWatched
  <2>3. QED
    BY <1>3, <1>5, <2>2 DEF RowsWatched
<1>6. CASE EndRefreshing(r, {MonthOf[e]})
  <2>1. EndsAs(r, {MonthOf[e]}) /\ {MonthOf[e]} \in SUBSET Month
    BY <1>6, EndRefreshingEffect
  <2>2. WatchKept /\ Underway(MonthOf[e])'
    BY <1>1, <1>4, <2>1, EndsWatched
  <2>3. QED
    BY <1>2, <1>3, <2>2 DEF RowsWatched, Watched
<1>7. QED
  BY <1>2, <1>5, <1>6

LEMMA LeaveWatched ==
    ASSUME TypeInv, Books, LeaveNext
    PROVE  WatchKept /\ RowsWatched /\ (NoteTaken \/ LeavesWatched)
<1> DEFINE Goal == WatchKept /\ RowsWatched /\ (NoteTaken \/ LeavesWatched)
<1>1. ASSUME UNCHANGED <<leave, att>>, WatchKept PROVE Goal
  BY <1>1 DEF RowsWatched, LeavesWatched, Approved
<1>2. ASSUME req' = req PROVE WatchKept
  BY <1>2 DEF WatchKept, Watched, Underway, Marking
<1>3. ASSUME NEW r \in Request, LeaveLoad(r) PROVE Goal
  BY <1>3, LoadWatched
<1>4. ASSUME NEW r \in Request, ApproveWrite(r) \/ CancelWrite(r) \/ SyncWrite(r) \/ MarkWrite(r) \/ CorrectWrite(r) PROVE Goal
  BY <1>4, ApproveWatched, CancelWatched, RowWatched
<1>5. ASSUME NEW r \in Request, ApplyWrite(r) PROVE Goal
  <2>1. PICK l \in Leave : l = req[r].doc
    BY <1>5, DocTypes DEF ApplyWrite, OnLeave
  <2>2. req[r].op = "apply" /\ EndsAs(r, {}) /\ att' = att
    BY <1>5, EndEffect DEF ApplyWrite
  <2>3. leave[l].st = "none"
    BY <2>1, <2>2 DEF Books, Asked, ApplyClear
  <2>4. \A k \in Leave : leave'[k].st = IF k = l THEN "pending" ELSE leave[k].st
    BY <1>5, <2>1 DEF ApplyWrite, TypeInv, TypeOK
  <2>5. WatchKept
    BY <2>2, EndsWatched
  <2>6. QED
    BY <2>2, <2>3, <2>4, <2>5 DEF RowsWatched, LeavesWatched, Approved
<1>6. ASSUME NEW r \in Request, ApproveShort(r) \/ PatchWrite(r) \/ AllocateWrite(r) PROVE Goal
  <2>1. /\ req[r].op \in {"approve", "patch", "allocate", "topup"} /\ EndsAs(r, {}) /\ UNCHANGED <<leave, att>>
    BY <1>6, EndEffect DEF ApproveShort, Refused, PatchWrite, AllocateWrite
  <2>2. QED
    BY <1>1, <2>1, EndsWatched
<1>7. ASSUME NEW r \in Request, DropWrite(r) PROVE Goal
  <2>1. \A q \in Request : req[q].op \in {"refresh", "build", "checkin", "checkout"} => req'[q] = req[q]
    BY <1>7 DEF DropWrite
  <2>2. WatchKept
    BY <2>1, UnderwayKept DEF WatchKept, Watched, Marking
  <2>3. QED
    BY <1>1, <1>7, <2>2 DEF DropWrite
<1>8. ASSUME NEW r \in Request, Resync(r) PROVE Goal
  <2>1. req[r].op = "holiday" /\ UNCHANGED <<leave, att>> /\ \E h : req' = [req EXCEPT ![r] = h]
    BY <1>8 DEF Resync, End
  <2>2. PICK h : \A q \in Request : req'[q] = IF q = r THEN h ELSE req[q]
    BY <2>1 DEF TypeInv, TypeOK
  <2>3. QED
    BY <1>1, <2>1, <2>2, BeginsWatched
<1>9. ASSUME NEW l \in Leave, Reject(l) PROVE Goal
  <2>1. \A k \in Leave : Approved(k)' <=> Approved(k)
    BY <1>9 DEF Reject, Approved, TypeInv, TypeOK, LeaveRec
  <2>2. UNCHANGED <<req, att>>
    BY <1>9 DEF Reject
  <2>3. QED
    BY <1>2, <2>1, <2>2 DEF RowsWatched, LeavesWatched
<1>10. ASSUME NEW n \in Quotas, SetQuota(n) PROVE Goal
  BY <1>1, <1>2, <1>10 DEF SetQuota, Happens
<1>11. CASE BulkCreate \/ NextDay
  BY <1>1, <1>2, <1>11 DEF BulkCreate, NextDay
<1>12. QED
  BY <1>3, <1>4, <1>5, <1>6, <1>7, <1>8, <1>9, <1>10, <1>11 DEF LeaveNext, LeaveWrite

-----------------------------------------------------------------------------
(* A build that overlaps nothing is alone.                                  *)

Alone ==
    Overlapped("build") \/ \A q, r \in Request : q # r /\ req[q].op = "build" => req[r].op = "idle"

\* Operations end, or one begins; none comes from nowhere.
OneBegins == \E r \in Request : \E h : BeginsAs(r, h)
OnlyEnds ==
    \A q \in Request : req'[q].op \in Steady \cup {req[q].op} /\ (req[q].op = "idle" => req'[q].op = "idle")

LEMMA EndsOps ==
    ASSUME NEW r \in Request, NEW months, EndsAs(r, months), req[r].op # "idle"
    PROVE  OnlyEnds
BY DEF EndsAs, OnlyEnds, Steady

LEMMA WriteOps ==
    ASSUME TypeInv, NEW r \in Request, LeaveWrite(r)
    PROVE  req[r].op \notin {"idle", "refresh"} \cup OnMonth /\ (OneBegins \/ OnlyEnds)
<1>1. req[r].op \notin {"idle", "refresh"} \cup OnMonth
  BY DEF LeaveWrite, ApplyWrite, ApproveWrite, ApproveShort, CancelWrite, PatchWrite, AllocateWrite, DropWrite,
         SyncWrite, Resync, MarkWrite, CorrectWrite, OnMonth
<1>2. CASE Resync(r)
  <2>1. PICK h : h = SyncOf(req[r].doc)
    OBVIOUS
  <2>2. h.op = "sync"
    BY <2>1 DEF SyncOf, Idle
  <2>3. CASE req' = [req EXCEPT ![r] = h] /\ Meets(r, "sync")
    <3>1. BeginsAs(r, h)
      BY <2>2, <2>3, BeginEffect
    <3>2. QED
      BY <1>1, <3>1 DEF OneBegins
  <2>4. CASE End(r)
    BY <1>1, <2>4, EndEffect, EndsOps
  <2>5. QED
    BY <1>2, <2>1, <2>3, <2>4 DEF Resync
<1>3. CASE CancelWrite(r)
  BY <1>1, <1>3, OpTypes, RefreshingOp DEF CancelWrite, OnlyEnds, OnRow
<1>4. CASE DropWrite(r)
  BY <1>1, <1>4, OpTypes, IdleOp DEF DropWrite, OnlyEnds
<1>5. CASE ~(Resync(r) \/ CancelWrite(r) \/ DropWrite(r))
  <2>1. End(r) \/ \E months : EndRefreshing(r, months)
    BY <1>5 DEF LeaveWrite, ApplyWrite, ApproveWrite, ApproveShort, Refused, PatchWrite,
            AllocateWrite, SyncWrite, MarkWrite, CorrectWrite
  <2>2. QED
    BY <1>1, <2>1, EndEffect, EndRefreshingEffect, EndsOps
<1>6. QED
  BY <1>1, <1>2, <1>3, <1>4, <1>5

LEMMA LoadOps ==
    ASSUME TypeInv, NEW r \in Request, LeaveLoad(r)
    PROVE  \E h : BeginsAs(r, h) /\ h.op \in Ops \ (Steady \cup OnMonth) /\ req[r].op = "idle"
<1>1. PICK kind \in Ops \ (Steady \cup OnMonth) : \E doc : Begins(r, kind, doc)
  BY LoadShape
<1>2. PICK h : h.op = kind /\ req' = [req EXCEPT ![r] = h] /\ Free(r) /\ Meets(r, kind)
  BY <1>1 DEF Begins
<1>3. QED
  BY <1>2, BeginEffect DEF Free

LEMMA NextOps ==
    ASSUME TypeInv, [Next]_vars
    PROVE  OneBegins \/ OnlyEnds
<1>0. ASSUME req' = req PROVE OnlyEnds
  BY <1>0 DEF OnlyEnds
<1>1. ASSUME NEW r \in Request, LeaveLoad(r) PROVE OneBegins
  BY <1>1, LoadOps DEF OneBegins
<1>2. ASSUME NEW r \in Request, LeaveWrite(r) PROVE OneBegins \/ OnlyEnds
  BY <1>2, WriteOps
<1>3. ASSUME NEW r \in Request, NEW m \in Month, RunPayroll(r, m) \/ SlipLoad(r, m) PROVE OneBegins
  BY <1>3, RunEffect, SlipLoadEffect DEF OneBegins
<1>4. ASSUME NEW r \in Request, NEW m \in Month, Refresh(r, m) PROVE OneBegins \/ OnlyEnds
  BY <1>4, RefreshEffect, EndsOps DEF OneBegins
<1>5. ASSUME NEW r \in Request, BuildWrite(r) \/ FinalizeWrite(r) \/ PayWrite(r) PROVE OnlyEnds
  BY <1>5, BuildWriteEffect, StatusEffect, EndsOps
<1>6. ASSUME NEW r \in Request, DeleteWrite(r) PROVE OnlyEnds
  BY <1>6, DeleteEffect, IdleOp DEF OnlyEnds
<1>7. ASSUME NEW r \in Request, Crash(r) PROVE OnlyEnds
  BY <1>7, EndEffect, EndsOps DEF Crash
<1>8. CASE ~ \E r \in Request : LeaveLoad(r) \/ LeaveWrite(r)
  <2>1. ASSUME LeaveNext PROVE req' = req
    BY <1>8, <2>1 DEF LeaveNext, Reject, SetQuota, Happens, BulkCreate, NextDay
  <2>2. ASSUME NEW m \in Month, Reopen(m) PROVE req' = req
    BY <2>2 DEF Reopen
  <2>3. ASSUME NEW c \in Claim, NEW to \in {"approved", "rejected"}, DecideClaim(c, to) PROVE req' = req
    BY <2>3 DEF DecideClaim
  <2>4. QED
    BY <1>0, <1>3, <1>4, <1>5, <1>6, <1>7, <2>1, <2>2, <2>3 DEF Next, PayrollNext, vars
<1>9. QED
  BY <1>1, <1>2, <1>8

LEMMA OverlappedKept == ASSUME met \subseteq met' PROVE Overlapped("build") => Overlapped("build")'
BY DEF Overlapped

LEMMA AloneNext ==
    ASSUME TypeInv, Pairs, Alone, [Next]_vars
    PROVE  Alone'
<1> SUFFICES ASSUME ~Overlapped("build")', NEW p \in Request, NEW q \in Request, p # q, req'[p].op = "build"
             PROVE  req'[q].op = "idle"
  BY DEF Alone, Overlapped
<1>1. ~Overlapped("build")
  BY NextPairs, OverlappedKept
<1>2. CASE OnlyEnds
  BY <1>1, <1>2 DEF OnlyEnds, Alone, Steady
<1>3. ASSUME NEW r \in Request, NEW h, BeginsAs(r, h) PROVE req'[q].op = "idle"
  <2>1. CASE p = r
    <3>1. h.op = "build" /\ req'[q] = req[q]
      BY <1>3, <2>1 DEF BeginsAs
    <3>2. ASSUME req[q].op # "idle" PROVE FALSE
      <4>1. {"build", req[q].op} \in met'
        BY <1>3, <2>1, <3>1, <3>2 DEF BeginsAs
      <4>2. QED
        BY <4>1 DEF Overlapped
    <3>3. QED
      BY <3>1, <3>2
  <2>2. CASE p # r
    <3>1. req[p].op = "build"
      BY <1>3, <2>2 DEF BeginsAs
    <3>2. {h.op, "build"} \in met'
      BY <1>3, <2>2, <3>1 DEF BeginsAs
    <3>3. QED
      BY <3>2 DEF Overlapped
  <2>3. QED
    BY <2>1, <2>2
<1>4. QED
  BY <1>2, <1>3, NextOps DEF OneBegins

\* While a build goes on, nothing happens to leave or attendance.
LEMMA BuildQuiet ==
    ASSUME TypeInv, Alone, Alone', met \subseteq met', LeaveNext, ~Overlapped("build")',
           NEW q \in Request, req'[q].op = "build"
    PROVE  req'[q] = req[q] /\ UNCHANGED <<att, holiday>> /\ \A l \in Leave : Approved(l)' <=> Approved(l)
<1>1. req'[q] = req[q]
  BY LeaveFrame DEF OnMonth
<1>2. ~Overlapped("build")
  BY OverlappedKept
<1>3. \A r \in Request : r # q => req[r].op = "idle" /\ req'[r].op = "idle"
  BY <1>1, <1>2 DEF Alone, Overlapped
<1>4. ~ \E r \in Request : LeaveLoad(r)
  <2> SUFFICES ASSUME NEW r \in Request, LeaveLoad(r) PROVE FALSE
    OBVIOUS
  <2>1. req'[r].op \in Ops \ (Steady \cup OnMonth)
    BY LoadOps DEF BeginsAs
  <2>2. QED
    BY <1>3, <2>1 DEF Steady, OnMonth
<1>5. ~ \E r \in Request : LeaveWrite(r)
  <2> SUFFICES ASSUME NEW r \in Request, LeaveWrite(r) PROVE FALSE
    OBVIOUS
  <2>1. req[r].op \notin {"idle", "refresh"} \cup OnMonth
    BY WriteOps
  <2>2. QED
    BY <1>1, <1>3, <2>1 DEF OnMonth
<1>6. ASSUME NEW l \in Leave, Reject(l) PROVE UNCHANGED <<att, holiday>> /\ \A k \in Leave : Approved(k)' <=> Approved(k)
  BY <1>6 DEF Reject, Approved, TypeInv, TypeOK, LeaveRec
<1>7. CASE (\E n \in Quotas : SetQuota(n)) \/ BulkCreate \/ NextDay
  BY <1>7 DEF SetQuota, BulkCreate, NextDay, Approved
<1>8. QED
  BY <1>1, <1>4, <1>5, <1>6, <1>7 DEF LeaveNext


LEMMA CrashKept == ASSUME [Next]_vars PROVE crashed => crashed'
BY DEF Next, PayrollNext, BuildWrite, FinalizeWrite, PayWrite, DeleteWrite, Crash, RunPayroll, Refresh, SlipLoad,
       Reopen, DecideClaim, vars
-----------------------------------------------------------------------------
(* The leaves a slip was built from.  A draft's are those approved, or it is *)
(* about to be rebuilt; those of a final slip, and of one being finalized,   *)
(* stay approved, since decisions on its month wait until it is reopened.    *)

FullLeaves(m) == LeavesIn(m) \ HalfDay
Agree(m) == slip[m].pay.leaves \ HalfDay = FullLeaves(m)

BuildLeaves ==
    \A r \in Request, m \in Month : req[r].op = "build" /\ req[r].doc = m =>
        req[r].pay.leaves \ HalfDay = FullLeaves(m)
DraftLeaves == \A m \in Month : slip[m].st = "draft" => Agree(m) \/ Underway(m)
FinalLeaves == \A m \in Month : FinalSlip(m) => Agree(m)
Finalizing ==
    \A r \in Request, m \in Month :
        req[r].op = "finalize" /\ ~req[r].lost /\ req[r].doc = m /\ slip[m].st = "draft" => Agree(m)
DecisionsWait ==
    \A r \in Request : req[r].op = "approve" \/ (req[r].op = "cancel" /\ Approved(req[r].doc)) =>
        \A m \in Months(Dates[req[r].doc]) : req[r].doc \in HalfDay \/ ~FinalSlip(m)
PaysFinal == \A r \in Request : req[r].op = "pay" /\ ~req[r].lost => FinalSlip(req[r].doc)

Leaves == BuildLeaves /\ DraftLeaves /\ FinalLeaves /\ Finalizing /\ DecisionsWait /\ PaysFinal
LeavesInv == BookInv /\ Alone /\ (Decided \/ Leaves)

LEMMA DecidedKept == ASSUME met \subseteq met', crashed => crashed' PROVE Decided => Decided'
BY MetKept DEF Decided, Overlapped, Unbooked

LEMMA SameLeaves ==
    ASSUME NEW m \in Month,
           \A l \in Leave \ HalfDay : m \in Months(Dates[l]) => (Approved(l)' <=> Approved(l))
    PROVE  FullLeaves(m)' = FullLeaves(m)
BY DEF FullLeaves, LeavesIn, Approved, Months

\* A decision that begins finds no final slip in the leave's months.
LEMMA DecisionBegins ==
    ASSUME TypeInv, LeaveNext, NEW q \in Request, req'[q].op \in {"approve", "cancel"}
    PROVE  \/ req[q].op = req'[q].op /\ req'[q].doc = req[q].doc
           \/ /\ leave' = leave
              /\ req'[q].op = "approve" \/ Approved(req'[q].doc) =>
                    \A m \in Months(Dates[req'[q].doc]) : ~FinalSlip(m)
<1> DEFINE Same == req[q].op = req'[q].op /\ req'[q].doc = req[q].doc
           New == /\ leave' = leave
                  /\ req'[q].op = "approve" \/ Approved(req'[q].doc) =>
                        \A m \in Months(Dates[req'[q].doc]) : ~FinalSlip(m)
<1>1. ASSUME NEW r \in Request, LeaveLoad(r) PROVE Same \/ New
  <2>1. CASE q # r
    <3>1. req'[q] = req[q]
      BY <1>1, <2>1, LoadOps DEF BeginsAs
    <3>2. QED
      BY <3>1
  <2>2. ASSUME NEW l \in Leave, Approve(q, l) PROVE New
    <3> DEFINE h == [[Idle EXCEPT !.doc = l, !.n = Units(l)] EXCEPT !.op = "approve"]
    <3>1. req' = [req EXCEPT ![q] = h] /\ leave' = leave /\ LockedMonths(l) = {}
      BY <2>2 DEF Approve, Start, Decidable
    <3>2. h.doc = l
      BY DEF Idle
    <3> HIDE DEF h
    <3>3. req'[q].doc = l
      BY <3>1, <3>2 DEF TypeInv, TypeOK
    <3>4. \A m \in Months(Dates[l]) : ~FinalSlip(m)
      BY <3>1 DEF LockedMonths, FinalSlip
    <3>5. QED
      BY <3>1, <3>3, <3>4
  <2>3. ASSUME NEW l \in Leave, Cancel(q, l) PROVE New
    <3> DEFINE h == [[Idle EXCEPT !.doc = l] EXCEPT !.op = "cancel"]
    <3>1. req' = [req EXCEPT ![q] = h] /\ leave' = leave /\ (Approved(l) => LockedMonths(l) = {})
      BY <2>3 DEF Cancel, Start, Approved
    <3>2. h.doc = l /\ h.op = "cancel"
      BY DEF Idle
    <3> HIDE DEF h
    <3>3. req'[q].doc = l /\ req'[q].op = "cancel"
      BY <3>1, <3>2 DEF TypeInv, TypeOK
    <3>4. Approved(l) => \A m \in Months(Dates[l]) : ~FinalSlip(m)
      BY <3>1 DEF LockedMonths, FinalSlip
    <3>5. QED
      BY <3>1, <3>3, <3>4
  <2>4. CASE r = q /\ ~ \E l \in Leave : Approve(q, l) \/ Cancel(q, l)
    <3>1. \E kind \in Ops \ {"approve", "cancel"} : \E doc : Begins(q, kind, doc)
      BY <1>1, <2>4 DEF LeaveLoad, Apply, EditBalance, Allocate, BulkAllocate, DropBalance, Sync, SyncOf,
                        SetHoliday, Correct, Add, Mark, Begins, Start, Ops, Idle
    <3>2. req'[q].op \notin {"approve", "cancel"}
      BY <3>1 DEF Begins, TypeInv, TypeOK
    <3>3. QED
      BY <3>2
  <2>5. QED
    BY <2>1, <2>2, <2>3, <2>4
<1>2. ASSUME NEW r \in Request, LeaveWrite(r) PROVE Same
  <2>1. CASE Resync(r)
    <3>1. PICK h : req' = [req EXCEPT ![r] = h] /\ h.op \notin {"approve", "cancel"}
      <4>1. SyncOf(req[r].doc).op = "sync"
        BY DEF SyncOf, Idle
      <4>2. QED
        BY <2>1, <4>1, IdleOp DEF Resync, End
    <3>2. req'[q] = req[q]
      BY <3>1 DEF TypeInv, TypeOK
    <3>3. QED
      BY <3>2
  <2>2. CASE ~Resync(r)
    <3>1. Carries(q)
      BY <1>2, <2>2, WriteReqs, ClosesCarries
    <3>2. QED
      BY <3>1 DEF Carries, Tracked
  <2>3. QED
    BY <2>1, <2>2
<1>3. CASE ~ \E r \in Request : LeaveLoad(r) \/ LeaveWrite(r)
  BY <1>3 DEF LeaveNext, Reject, SetQuota, Happens, BulkCreate, NextDay
<1>4. QED
  BY <1>1, <1>2, <1>3

LEMMA LeavesLeave ==
    ASSUME LeavesInv, LeaveNext, [Next]_vars, ~Decided, ~Decided'
    PROVE  Leaves'
<1>0. /\ TypeInv /\ Pairs /\ Books /\ Leaves /\ Alone /\ Alone' /\ met \subseteq met'
      /\ ~Overlapped("build") /\ ~Overlapped("build")' /\ ~Met({"approve", "cancel", "refresh"}, {"finalize"})
      /\ Pairs' /\ ~NoteTaken
  BY NextPairs, AloneNext DEF LeavesInv, BookInv, Decided, NoteTaken
<1>1. slip' = slip /\ \A q \in Request : req'[q].op \in OnMonth => req'[q] = req[q]
  BY <1>0, LeaveFrame
<1>2. WatchKept /\ LeavesWatched
  BY <1>0, LeaveWatched
<1>3. \A m \in Month : FinalSlip(m)' <=> FinalSlip(m)
  BY <1>1 DEF FinalSlip
<1>4. \A m \in Month : FinalSlip(m) => FullLeaves(m)' = FullLeaves(m)
  <2> SUFFICES ASSUME NEW m \in Month, FinalSlip(m), NEW l \in Leave \ HalfDay, m \in Months(Dates[l])
               PROVE  Approved(l)' <=> Approved(l)
    BY SameLeaves
  <2>1. ASSUME NEW r \in Request, req[r].op \in {"approve", "cancel"}, req[r].doc = l, req[r].op = "cancel" => Approved(l)
        PROVE  FALSE
    BY <1>0, <2>1 DEF Leaves, DecisionsWait
  <2>2. QED
    BY <1>2, <2>1 DEF LeavesWatched
<1>5. BuildLeaves'
  <2> SUFFICES ASSUME NEW q \in Request, req'[q].op = "build", NEW m \in Month, req'[q].doc = m
               PROVE  req'[q].pay.leaves \ HalfDay = FullLeaves(m)'
    BY DEF BuildLeaves
  <2>1. req'[q] = req[q] /\ \A l \in Leave : Approved(l)' <=> Approved(l)
    BY <1>0, BuildQuiet
  <2>2. m = req[q].doc
    BY <2>1
  <2>3. FullLeaves(m)' = FullLeaves(m)
    BY <2>1, SameLeaves
  <2>4. req[q].pay.leaves \ HalfDay = FullLeaves(m)
    BY <1>0, <2>1, <2>2 DEF Leaves, BuildLeaves
  <2>5. QED
    BY <2>1, <2>3, <2>4
<1>6. DraftLeaves'
  <2> SUFFICES ASSUME NEW m \in Month, slip'[m].st = "draft", ~Underway(m)' PROVE Agree(m)'
    BY DEF DraftLeaves
  <2>1. Agree(m)
    BY <1>0, <1>1, <1>2 DEF Leaves, DraftLeaves, WatchKept
  <2>2. FullLeaves(m)' = FullLeaves(m)
    BY <1>2, SameLeaves DEF LeavesWatched
  <2>3. QED
    BY <1>1, <2>1, <2>2 DEF Agree
<1>7. FinalLeaves'
  BY <1>0, <1>1, <1>3, <1>4 DEF Leaves, FinalLeaves, Agree
<1>8. Finalizing'
  <2> SUFFICES ASSUME NEW q \in Request, req'[q].op = "finalize", ~req'[q].lost, NEW m \in Month, req'[q].doc = m,
                      slip'[m].st = "draft"
               PROVE  Agree(m)'
    BY DEF Finalizing
  <2>1. req'[q] = req[q]
    BY <1>1 DEF OnMonth
  <2>2. m = req[q].doc
    BY <2>1
  <2>3. Agree(m)
    BY <1>0, <1>1, <2>1, <2>2 DEF Leaves, Finalizing
  <2>4. \A r \in Request : req[r].op \notin {"approve", "cancel"}
    <3> SUFFICES ASSUME NEW r \in Request, req[r].op \in {"approve", "cancel"} PROVE FALSE
      OBVIOUS
    <3>1. Met({"approve", "cancel", "refresh"}, {"finalize"})
      BY <1>0, <2>1, HaveMet DEF Steady
    <3>2. QED
      BY <1>0, <3>1
  <2>5. FullLeaves(m)' = FullLeaves(m)
    BY <1>2, <2>4, SameLeaves DEF LeavesWatched
  <2>6. QED
    BY <1>1, <2>3, <2>5 DEF Agree
<1>9. DecisionsWait'
  <2> SUFFICES ASSUME NEW q \in Request, req'[q].op = "approve" \/ (req'[q].op = "cancel" /\ leave'[req'[q].doc].st = "approved"),
                      req'[q].doc \notin HalfDay, NEW m, m \in Months(Dates[req'[q].doc])
               PROVE  ~FinalSlip(m)'
    BY DEF DecisionsWait, Months, FinalSlip, Approved
  <2>1. /\ req'[q].doc \in Leave /\ m \in Month
    <3>1. TypeInv'
      BY <1>0, NextType
    <3>2. req'[q].doc \in Leave
      BY <3>1 DEF TypeInv, Sound, OnLeave
    <3>3. QED
      BY <3>2, MonthsOf
  <2>2. CASE req[q].op = req'[q].op /\ req'[q].doc = req[q].doc
    <3>1. PICK l \in Leave \ HalfDay : l = req[q].doc /\ m \in Months(Dates[l])
      BY <2>1, <2>2
    <3>2. CASE req[q].op = "approve" \/ Approved(l)
      BY <1>0, <1>3, <2>1, <2>2, <3>1, <3>2 DEF Leaves, DecisionsWait
    <3>3. CASE req[q].op = "cancel" /\ ~Approved(l)
      <4>1. Approved(l)'
        BY <2>2, <3>1, <3>3 DEF Approved
      <4>2. PICK r \in Request : req[r].op = "approve" /\ req[r].doc = l
        BY <1>2, <3>1, <3>3, <4>1 DEF LeavesWatched
      <4>3. QED
        BY <1>0, <3>1, <3>3, <4>2 DEF Books, Asked, Exclusive
    <3>4. QED
      BY <2>2, <3>2, <3>3
  <2>3. CASE /\ leave' = leave
             /\ req'[q].op = "approve" \/ Approved(req'[q].doc) =>
                    \A k \in Months(Dates[req'[q].doc]) : ~FinalSlip(k)
    BY <1>3, <2>1, <2>3 DEF Approved
  <2>4. QED
    BY <1>0, <2>2, <2>3, DecisionBegins
<1>10. PaysFinal'
  <2> SUFFICES ASSUME NEW q \in Request, req'[q].op = "pay", ~req'[q].lost
               PROVE  slip'[req'[q].doc].st \in {"finalized", "paid"}
    BY DEF PaysFinal, FinalSlip
  <2>1. req'[q] = req[q]
    BY <1>1 DEF OnMonth
  <2>2. QED
    BY <1>0, <1>1, <2>1 DEF Leaves, PaysFinal, FinalSlip
<1>11. QED
  BY <1>5, <1>6, <1>7, <1>8, <1>9, <1>10 DEF Leaves


\* Nothing is decided and no slip changes: a request ends, or begins as here.
LEMMA LeavesFrame ==
    ASSUME TypeInv, Leaves, UNCHANGED <<leave, slip>>,
           \A q \in Request :
              \/ req'[q] = req[q]
              \/ req'[q].op \notin {"build", "finalize", "pay", "approve", "cancel"}
              \/ \E m \in Month : /\ req'[q].doc = m
                                  /\ \/ req'[q].op = "build" /\ req'[q].pay = PayOf(m)
                                     \/ req'[q].op = "finalize" /\ (slip[m].st = "draft" => Agree(m))
                                     \/ req'[q].op = "pay" /\ FinalSlip(m),
           \A m \in Month : slip[m].st = "draft" /\ Underway(m) => Underway(m)'
    PROVE  Leaves'
<1>1. /\ \A m \in Month : FullLeaves(m)' = FullLeaves(m)
      /\ \A m \in Month : (Agree(m)' <=> Agree(m)) /\ (FinalSlip(m)' <=> FinalSlip(m))
  BY DEF FullLeaves, LeavesIn, Agree, FinalSlip
<1>2. \A m \in Month : PayOf(m).leaves \ HalfDay = FullLeaves(m)
  BY DEF PayOf, FullLeaves
<1>3. BuildLeaves'
  <2> SUFFICES ASSUME NEW q \in Request, req'[q].op = "build", NEW m \in Month, req'[q].doc = m
               PROVE  req'[q].pay.leaves \ HalfDay = FullLeaves(m)'
    BY DEF BuildLeaves
  <2>1. CASE req'[q] = req[q]
    BY <1>1, <2>1 DEF Leaves, BuildLeaves
  <2>2. CASE req'[q] # req[q]
    BY <1>1, <1>2, <2>2
  <2>3. QED
    BY <2>1, <2>2
<1>4. DraftLeaves' /\ FinalLeaves'
  BY <1>1 DEF Leaves, DraftLeaves, FinalLeaves
<1>5. Finalizing'
  <2> SUFFICES ASSUME NEW q \in Request, req'[q].op = "finalize", ~req'[q].lost, NEW m \in Month, req'[q].doc = m,
                      slip'[m].st = "draft"
               PROVE  Agree(m)'
    BY DEF Finalizing
  <2>1. Agree(m)
    BY DEF Leaves, Finalizing
  <2>2. QED
    BY <1>1, <2>1
<1>6. DecisionsWait'
  <2> SUFFICES ASSUME NEW q \in Request, req'[q].op = "approve" \/ (req'[q].op = "cancel" /\ Approved(req'[q].doc)),
                      NEW m \in Months(Dates[req'[q].doc]), req'[q].doc \notin HalfDay
               PROVE  ~FinalSlip(m)
    BY DEF DecisionsWait, Months, FinalSlip, Approved
  <2>1. req'[q] = req[q]
    OBVIOUS
  <2>2. QED
    BY <2>1 DEF Leaves, DecisionsWait
<1>7. PaysFinal'
  <2> SUFFICES ASSUME NEW q \in Request, req'[q].op = "pay", ~req'[q].lost
               PROVE  FinalSlip(req'[q].doc)
    BY DEF PaysFinal, FinalSlip
  <2>1. QED
    BY DEF Leaves, PaysFinal
<1>8. QED
  BY <1>3, <1>4, <1>5, <1>6, <1>7 DEF Leaves

\* A build writes what it counted, and nothing else is in progress.
LEMMA LeavesBuilt ==
    ASSUME TypeInv, Leaves, Alone, ~Overlapped("build"), NEW r \in Request, BuildWrite(r)
    PROVE  Leaves'
<1>0. PICK m \in Month : m = req[r].doc
  BY BuildWriteEffect
<1>1. /\ req[r].op = "build" /\ req[r].doc = m
      /\ slip'[m].st = "draft" /\ slip'[m].pay = req[r].pay
      /\ \A k \in Month : k # m => slip'[k] = slip[k]
      /\ EndsAs(r, req[r].todo) /\ leave' = leave
  BY <1>0, BuildWriteEffect
<1>2. \A q \in Request : req'[q].op \in Steady
  BY <1>1 DEF Alone, EndsAs, Steady
<1>3. \A k \in Month : FullLeaves(k)' = FullLeaves(k)
  BY <1>1 DEF FullLeaves, LeavesIn
<1>4. BuildLeaves' /\ Finalizing' /\ DecisionsWait' /\ PaysFinal'
  BY <1>2 DEF BuildLeaves, Finalizing, DecisionsWait, PaysFinal, Steady
<1>5. Agree(m)'
  BY <1>1, <1>3 DEF Leaves, BuildLeaves, Agree
<1>6. FinalLeaves'
  BY <1>1, <1>3 DEF Leaves, FinalLeaves, FinalSlip, Agree
<1>7. DraftLeaves'
  <2> SUFFICES ASSUME NEW k \in Month, k # m, slip'[k].st = "draft", ~Agree(k)' PROVE Underway(k)'
    BY <1>5 DEF DraftLeaves
  <2>1. Underway(k)
    BY <1>1, <1>3 DEF Leaves, DraftLeaves, Agree
  <2>2. QED
    BY <1>1, <2>1 DEF Underway, EndsAs
<1>8. QED
  BY <1>4, <1>6, <1>7 DEF Leaves

\* Finalizing takes what was agreed on; paying takes a final slip.
LEMMA LeavesStatus ==
    ASSUME TypeInv, Pairs, Leaves, ~Met({"approve", "cancel", "refresh"}, {"finalize"}),
           NEW r \in Request, FinalizeWrite(r) \/ PayWrite(r)
    PROVE  Leaves'
<1>0. PICK m \in Month : m = req[r].doc
  BY StatusEffect
<1>1. /\ req[r].op \in {"finalize", "pay"} /\ req[r].doc = m
      /\ \A k \in Month : slip'[k].pay = slip[k].pay /\ (k # m => slip'[k] = slip[k])
      /\ slip'[m].st = IF req[r].op = "finalize"
                       THEN IF slip[m].st = "draft" /\ ~req[r].lost THEN "finalized" ELSE slip[m].st
                       ELSE IF req[r].lost THEN slip[m].st ELSE "paid"
      /\ EndsAs(r, {}) /\ leave' = leave
  BY <1>0, StatusEffect
<1>2. \A q \in Request : (q # r /\ req'[q] = req[q]) \/ (q = r /\ req'[q].op = "idle")
  BY <1>1 DEF EndsAs
<1>3. \A k \in Month : (FullLeaves(k)' = FullLeaves(k)) /\ (Agree(k)' <=> Agree(k))
  BY <1>1 DEF FullLeaves, LeavesIn, Agree
<1>4. \A k \in Month : FinalSlip(k) => FinalSlip(k)'
  BY <1>1 DEF FinalSlip
<1>5. \A k \in Month : FinalSlip(k)' /\ ~FinalSlip(k) =>
        k = m /\ req[r].op = "finalize" /\ ~req[r].lost /\ slip[k].st = "draft"
  BY <1>1 DEF FinalSlip, Leaves, PaysFinal
<1>6. BuildLeaves'
  BY <1>2, <1>3 DEF Leaves, BuildLeaves
<1>7. DraftLeaves'
  <2> SUFFICES ASSUME NEW k \in Month, slip'[k].st = "draft", ~Agree(k)' PROVE Underway(k)'
    BY DEF DraftLeaves
  <2>1. slip[k].st = "draft"
    BY <1>1
  <2>2. QED
    BY <1>1, <1>2, <1>3, <2>1 DEF Leaves, DraftLeaves, Underway
<1>8. FinalLeaves'
  <2> SUFFICES ASSUME NEW k \in Month, FinalSlip(k)' PROVE Agree(k)
    BY <1>3 DEF FinalLeaves
  <2>1. QED
    BY <1>1, <1>5 DEF Leaves, FinalLeaves, Finalizing
<1>9. Finalizing'
  BY <1>1, <1>2, <1>3 DEF Leaves, Finalizing
<1>10. DecisionsWait'
  <2> SUFFICES ASSUME NEW q \in Request, req'[q].op = "approve" \/ (req'[q].op = "cancel" /\ Approved(req'[q].doc)),
                      NEW k \in Months(Dates[req'[q].doc]), req'[q].doc \notin HalfDay, FinalSlip(k)'
               PROVE  FALSE
    BY <1>1 DEF DecisionsWait, Months, FinalSlip, Approved
  <2>1. q # r /\ req'[q] = req[q]
    BY <1>2
  <2>2. ~FinalSlip(k)
    BY <2>1 DEF Leaves, DecisionsWait
  <2>3. k \in Month
    <3>1. req[q].doc \in Leave
      BY <2>1 DEF TypeInv, Sound, OnLeave
    <3>2. QED
      BY <2>1, <3>1, MonthsOf
  <2>4. req[r].op = "finalize"
    BY <1>5, <2>2, <2>3
  <2>5. Met({"approve", "cancel", "refresh"}, {"finalize"})
    BY <2>1, <2>4, HaveMet DEF Steady
  <2>6. QED
    BY <2>5
<1>11. PaysFinal'
  <2> SUFFICES ASSUME NEW q \in Request, req'[q].op = "pay", ~req'[q].lost
               PROVE  slip'[req'[q].doc].st \in {"finalized", "paid"}
    BY DEF PaysFinal, FinalSlip
  <2>1. req'[q] = req[q]
    BY <1>2
  <2>2. req[q].doc \in Month
    BY <2>1, SlipTypes DEF OnMonth
  <2>3. QED
    BY <1>4, <2>1, <2>2 DEF Leaves, PaysFinal, FinalSlip
<1>12. QED
  BY <1>6, <1>7, <1>8, <1>9, <1>10, <1>11 DEF Leaves

LEMMA LeavesDeleted ==
    ASSUME TypeInv, Leaves, NEW r \in Request, DeleteWrite(r)
    PROVE  Leaves'
<1>0. PICK m \in Month : m = req[r].doc
  BY DeleteEffect
<1>1. /\ req[r].op = "delete"
      /\ \A k \in Month : slip'[k] = IF k = m /\ ~req[r].lost THEN NoSlip ELSE slip[k]
      /\ req'[r].op = "idle"
      /\ \A q \in Request : q # r =>
            IF req[q].op \in {"finalize", "pay", "delete"} /\ req[q].doc = m
            THEN req'[q].op = req[q].op /\ req'[q].doc = req[q].doc /\ req'[q].lost
            ELSE req'[q] = req[q]
      /\ leave' = leave
  BY <1>0, DeleteEffect, IdleOp
<1>2. \A q \in Request : \/ req'[q].op = "idle"
                         \/ req'[q].op \in {"finalize", "pay", "delete"} /\ req'[q].lost
                         \/ req'[q] = req[q] /\ (req[q].op \in {"finalize", "pay"} => req[q].doc # m)
  BY <1>1
<1>3. \A k \in Month : k # m => (FullLeaves(k)' = FullLeaves(k)) /\ (Agree(k)' <=> Agree(k)) /\ slip'[k] = slip[k]
  BY <1>1 DEF FullLeaves, LeavesIn, Agree
<1>4. FullLeaves(m)' = FullLeaves(m) /\ (slip'[m].st = "none" \/ (slip'[m] = slip[m] /\ (Agree(m)' <=> Agree(m))))
  BY <1>1 DEF FullLeaves, LeavesIn, Agree, NoSlip
<1>5. BuildLeaves' /\ Finalizing'
  BY <1>2, <1>3, <1>4 DEF Leaves, BuildLeaves, Finalizing
<1>6. FinalLeaves'
  BY <1>3, <1>4 DEF Leaves, FinalLeaves, FinalSlip
<1>7. DraftLeaves'
  <2>1. \A k \in Month : Underway(k) => Underway(k)'
    BY <1>1 DEF Underway
  <2>2. QED
    BY <1>3, <1>4, <2>1 DEF Leaves, DraftLeaves
<1>8. DecisionsWait'
  <2> SUFFICES ASSUME NEW q \in Request, req'[q].op = "approve" \/ (req'[q].op = "cancel" /\ Approved(req'[q].doc)),
                      NEW k \in Months(Dates[req'[q].doc]), req'[q].doc \notin HalfDay
               PROVE  ~FinalSlip(k)'
    BY <1>1 DEF DecisionsWait, Months, FinalSlip, Approved
  <2>1. req'[q] = req[q]
    BY <1>2
  <2>2. ~FinalSlip(k)
    BY <2>1 DEF Leaves, DecisionsWait
  <2>3. k \in Month
    <3>1. req[q].doc \in Leave
      BY <2>1 DEF TypeInv, Sound, OnLeave
    <3>2. QED
      BY <2>1, <3>1, MonthsOf
  <2>4. QED
    BY <1>3, <1>4, <2>2, <2>3 DEF FinalSlip
<1>9. PaysFinal'
  <2> SUFFICES ASSUME NEW q \in Request, req'[q].op = "pay", ~req'[q].lost
               PROVE  slip'[req'[q].doc].st \in {"finalized", "paid"}
    BY DEF PaysFinal, FinalSlip
  <2>1. req'[q] = req[q] /\ req[q].doc # m
    BY <1>2
  <2>2. req[q].doc \in Month
    BY <2>1, SlipTypes DEF OnMonth
  <2>3. QED
    BY <1>3, <2>1, <2>2 DEF Leaves, PaysFinal, FinalSlip
<1>10. QED
  BY <1>5, <1>6, <1>7, <1>8, <1>9 DEF Leaves

LEMMA LeavesReopened ==
    ASSUME TypeInv, Leaves, NEW m \in Month, Reopen(m), ~Met({"pay"}, {"reopen"})'
    PROVE  Leaves'
<1>1. /\ FinalSlip(m) /\ slip'[m].st = "draft"
      /\ \A k \in Month : slip'[k].pay = slip[k].pay /\ (k # m => slip'[k] = slip[k])
      /\ \A q \in Request : req[q].op # "idle" => {"reopen", req[q].op} \in met'
      /\ UNCHANGED <<req, leave>>
  BY ReopenEffect
<1>2. \A k \in Month : (FullLeaves(k)' = FullLeaves(k)) /\ (Agree(k)' <=> Agree(k)) /\ (FinalSlip(k)' => FinalSlip(k))
  BY <1>1 DEF FullLeaves, LeavesIn, Agree, FinalSlip
<1>3. Agree(m)
  BY <1>1 DEF Leaves, FinalLeaves
<1>4. BuildLeaves' /\ FinalLeaves'
  BY <1>1, <1>2 DEF Leaves, BuildLeaves, FinalLeaves
<1>5. Finalizing'
  BY <1>1, <1>2, <1>3 DEF Leaves, Finalizing
<1>6. DraftLeaves'
  BY <1>1, <1>2, <1>3 DEF Leaves, DraftLeaves, Underway
<1>7. DecisionsWait'
  <2> SUFFICES ASSUME NEW q \in Request, req[q].op = "approve" \/ (req[q].op = "cancel" /\ Approved(req[q].doc)),
                      NEW k \in Months(Dates[req[q].doc]), req[q].doc \notin HalfDay
               PROVE  ~FinalSlip(k)'
    BY <1>1 DEF DecisionsWait, Months, FinalSlip, Approved
  <2>1. ~FinalSlip(k)
    BY DEF Leaves, DecisionsWait
  <2>2. k \in Month
    <3>1. req[q].doc \in Leave
      BY DEF TypeInv, Sound, OnLeave
    <3>2. QED
      BY <3>1, MonthsOf
  <2>3. QED
    BY <1>2, <2>1, <2>2
<1>8. PaysFinal'
  <2> SUFFICES ASSUME NEW q \in Request, req[q].op = "pay", ~req[q].lost PROVE FinalSlip(req[q].doc)'
    BY <1>1 DEF PaysFinal, FinalSlip
  <2>1. {"pay", "reopen"} \in met'
    BY <1>1
  <2>2. QED
    BY <2>1 DEF Met
<1>9. QED
  BY <1>4, <1>5, <1>6, <1>7, <1>8 DEF Leaves

LEMMA LeavesNext == LeavesInv /\ [Next]_vars => LeavesInv'
<1> SUFFICES ASSUME LeavesInv, [Next]_vars PROVE LeavesInv'
  OBVIOUS
<1>0. /\ TypeInv /\ Pairs /\ Alone /\ BookInv' /\ Alone' /\ met \subseteq met'
  BY BookNext, NextPairs, AloneNext DEF LeavesInv, BookInv
<1>1. SUFFICES ASSUME ~Decided, ~Decided', ~crashed' PROVE Leaves'
  <2>1. crashed => crashed'
    BY <1>0, CrashKept
  <2>2. Decided => Decided'
    BY <1>0, <2>1, DecidedKept
  <2>3. QED
    BY <1>0, <2>2 DEF LeavesInv, Decided
<1>2. /\ Leaves /\ ~Overlapped("build") /\ ~Overlapped("build")'
      /\ ~Met({"approve", "cancel", "refresh"}, {"finalize"}) /\ ~Met({"approve", "cancel", "refresh"}, {"finalize"})'
      /\ ~Met({"pay"}, {"reopen"})'
  BY <1>1 DEF LeavesInv, Decided
<1>3. CASE LeaveNext
  BY <1>1, <1>3, LeavesLeave
<1>4. ASSUME NEW r \in Request, NEW m \in Month, RunPayroll(r, m) PROVE Leaves'
  <2>1. PICK h : BeginsAs(r, h) /\ h.op = "build" /\ h.doc = m /\ h.pay = PayOf(m) /\ h.todo = {}
    BY <1>0, <1>4, RunEffect
  <2>2. req[r].op = "idle" /\ UNCHANGED <<slip, leave>>
    BY <1>0, <1>4, RunEffect
  <2>3. \A k \in Month : Underway(k) => Underway(k)'
    BY <2>1, <2>2 DEF BeginsAs, Underway
  <2>4. QED
    BY <1>0, <1>2, <2>1, <2>2, <2>3, LeavesFrame DEF BeginsAs
<1>5. ASSUME NEW r \in Request, NEW m \in Month, Refresh(r, m) PROVE Leaves'
  <2>1. req[r].op = "refresh" /\ UNCHANGED <<slip, leave>>
    BY <1>0, <1>5, RefreshEffect
  <2>2. ASSUME NEW h, BeginsAs(r, h), h.op = "build", h.doc = m, h.pay = PayOf(m), h.todo = req[r].todo \ {m}
        PROVE  Leaves'
    <3>1. \A k \in Month : Underway(k) => Underway(k)'
      BY <2>1, <2>2 DEF BeginsAs, Underway
    <3>2. QED
      BY <1>0, <1>2, <2>1, <2>2, <3>1, LeavesFrame DEF BeginsAs
  <2>3. CASE slip[m].st # "draft" /\ EndsAs(r, req[r].todo \ {m})
    <3>1. \A k \in Month : slip[k].st = "draft" /\ Underway(k) => Underway(k)'
      BY <2>1, <2>3 DEF EndsAs, Underway
    <3>2. \A q \in Request : req'[q] = req[q] \/ req'[q].op \in Steady
      BY <2>3 DEF EndsAs, Steady
    <3>3. QED
      BY <1>0, <1>2, <2>1, <3>1, <3>2, LeavesFrame DEF Steady
  <2>4. QED
    BY <1>0, <1>5, <2>2, <2>3, RefreshEffect
<1>6. ASSUME NEW r \in Request, NEW m \in Month, SlipLoad(r, m) PROVE Leaves'
  <2>1. PICK h : /\ BeginsAs(r, h) /\ h.doc = m
                 /\ \/ h.op = "finalize" /\ Finalizable(m)
                    \/ h.op = "pay" /\ FinalSlip(m)
                    \/ h.op = "delete"
    BY <1>0, <1>6, SlipLoadEffect
  <2>2. req[r].op = "idle" /\ UNCHANGED <<slip, leave>>
    BY <1>0, <1>6, SlipLoadEffect
  <2>3. \A k \in Month : Underway(k) => Underway(k)'
    BY <2>1, <2>2 DEF BeginsAs, Underway
  <2>4. h.op = "finalize" /\ slip[m].st = "draft" => Agree(m)
    <3> SUFFICES ASSUME h.op = "finalize", slip[m].st = "draft", Underway(m) PROVE FALSE
      BY <1>2 DEF Leaves, DraftLeaves
    <3>1. PICK q \in Request : req[q].op \in {"refresh", "build"}
      BY DEF Underway
    <3>2. {"finalize", req[q].op} \in met'
      BY <2>1, <2>2, <3>1 DEF BeginsAs
    <3>3. CASE req[q].op = "refresh"
      BY <1>2, <3>2, <3>3 DEF Met
    <3>4. CASE req[q].op = "build"
      BY <1>2, <3>2, <3>4 DEF Overlapped
    <3>5. QED
      BY <3>1, <3>3, <3>4
  <2>5. QED
    BY <1>0, <1>2, <2>1, <2>2, <2>3, <2>4, LeavesFrame DEF BeginsAs
<1>7. ASSUME NEW r \in Request, BuildWrite(r) PROVE Leaves'
  BY <1>0, <1>2, <1>7, LeavesBuilt
<1>8. ASSUME NEW r \in Request, FinalizeWrite(r) \/ PayWrite(r) PROVE Leaves'
  BY <1>0, <1>2, <1>8, LeavesStatus
<1>9. ASSUME NEW r \in Request, DeleteWrite(r) PROVE Leaves'
  BY <1>0, <1>2, <1>9, LeavesDeleted
<1>10. ASSUME NEW m \in Month, Reopen(m) PROVE Leaves'
  BY <1>0, <1>2, <1>10, LeavesReopened
<1>11. ASSUME NEW r \in Request, Crash(r) PROVE Leaves'
  BY <1>1, <1>11 DEF Crash
<1>12. CASE UNCHANGED <<leave, slip, req>>
  BY <1>0, <1>2, <1>12, LeavesFrame DEF Underway
<1>13. QED
  BY <1>3, <1>4, <1>5, <1>6, <1>7, <1>8, <1>9, <1>10, <1>11, <1>12 DEF Next, PayrollNext, DecideClaim, leaveVars, vars

LEMMA LeavesInit == Init => LeavesInv
<1> SUFFICES ASSUME Init PROVE LeavesInv
  OBVIOUS
<1>1. \A r \in Request : req[r].op = "idle"
  BY IdleOp DEF Init
<1>2. \A m \in Month : slip[m].st = "none"
  BY DEF Init, NoSlip
<1>3. Leaves
  BY <1>1, <1>2 DEF Leaves, BuildLeaves, DraftLeaves, FinalLeaves, FinalSlip, Finalizing, DecisionsWait, PaysFinal
<1>4. Alone
  BY <1>1 DEF Alone
<1>5. QED
  BY <1>3, <1>4, BookInit DEF LeavesInv

-----------------------------------------------------------------------------
(* What a slip pays.  Every attendance row that changes is in a month that  *)
(* will be rebuilt.  Where every full-day leave is on the books and none is *)
(* for half a day, the rows alone say what a day is paid.                   *)

LEMMA MinimumType ==
    ASSUME NEW S \in SUBSET Nat, S # {}
    PROVE  Min(S) \in S
<1> DEFINE Less == {p \in Nat \X Nat : p[1] < p[2]}
<1>1. IsWellFoundedOn(Less, Nat)
  BY NatLessThanWellFounded, Zenon DEF OpToRel
<1>2. PICK x \in S : \A y \in S : <<y, x>> \notin Less
  BY <1>1, WFMin, Zenon
<1>3. \A y \in S : ~(y < x)
  BY <1>2
<1>4. \A y \in S : x =< y
  BY <1>3
<1>5. QED
  BY <1>4, Zenon DEF Min

PaidByRow(d, t) ==
    IF d > t \/ att[d].st = "absent" THEN 0 ELSE IF att[d].st = "half_day" THEN 1 ELSE 2

LEMMA PaidIsPaidByRow ==
    ASSUME TypeInv, Books, ~HalfTaken, NEW d \in Day, NEW t \in Nat
    PROVE  PaidHalves(d, t) = PaidByRow(d, t)
<1>1. \A l \in ApprovedOn(d) : l \in Leave /\ l \notin HalfDay /\ d \in Booked(l) /\ Approved(l)
  BY DEF ApprovedOn, HalfTaken, Booked, Approved
<1>2. ~HalfLeaveOn(d)
  <2> SUFFICES ASSUME ApprovedOn(d) # {} PROVE LeaveOn(d) \notin HalfDay
    BY DEF HalfLeaveOn
  <2>1. PICK k \in ApprovedOn(d) : TRUE
    OBVIOUS
  <2>2. \A l \in ApprovedOn(d) : l = k
    BY <2>1, <1>1 DEF ApprovedOn, Books, Apart, Open
  <2>3. Min(Dates[k]) \in Nat
    <3>1. Dates[k] \in SUBSET Nat /\ Dates[k] # {}
      BY <1>1, <2>1 DEF ApprovedOn
    <3>2. QED
      BY <3>1, MinimumType
  <2>4. \A l \in ApprovedOn(d) : Min(Dates[k]) <= Min(Dates[l])
    BY <2>2, <2>3
  <2>5. LeaveOn(d) \in ApprovedOn(d)
    BY <2>1, <2>4, Zenon DEF LeaveOn
  <2>6. QED
    BY <1>1, <2>5
<1>3. att[d].st = "none" => ApprovedOn(d) = {}
  BY <1>1 DEF Books, OnBooks, OwnRow
<1>4. d \in Nat /\ (d > t <=> ~(d <= t))
  OBVIOUS
<1>5. CASE d > t
  BY <1>4, <1>5 DEF PaidHalves, PaidByRow
<1>6. CASE ~(d > t)
  <2>1. PaidHalves(d, t) = CASE att[d].st = "none" -> IF Off(d) \/ ApprovedOn(d) = {} \/ Paid THEN 2 ELSE 0
                             [] att[d].st = "absent" -> 0
                             [] att[d].st = "half_day" -> 1
                             [] OTHER -> 2
    BY <1>2, <1>4, <1>6 DEF PaidHalves
  <2>2. QED
    BY <1>3, <1>6, <2>1 DEF PaidByRow
<1>7. QED
  BY <1>5, <1>6

LEMMA PaidIsPaidByRowAll ==
    TypeInv /\ Books /\ ~HalfTaken => \A d \in Day, t \in Nat : PaidHalves(d, t) = PaidByRow(d, t)
BY PaidIsPaidByRow

LEMMA PaidIsPaidByRowNext ==
    (TypeInv /\ Books /\ ~HalfTaken)' => \A d \in Day, t \in Nat : PaidHalves(d, t)' = PaidByRow(d, t)'
<1>1. (TypeInv /\ Books /\ ~HalfTaken => \A d \in Day, t \in Nat : PaidHalves(d, t) = PaidByRow(d, t))'
  BY PaidIsPaidByRowAll, PTL
<1>2. QED
  BY <1>1

LEMMA PayableSame ==
    ASSUME TypeInv, Books, ~HalfTaken, TypeInv', Books', ~HalfTaken', NEW m \in Month, NEW t \in Nat,
           \A d \in DaysIn(m) : att'[d].st = att[d].st
    PROVE  Payable(m, t)' = Payable(m, t)
<1>1. \A d \in DaysIn(m) : d \in Day
  BY DEF DaysIn
<1>2. \A d \in DaysIn(m) : PaidByRow(d, t)' = PaidByRow(d, t)
  BY DEF PaidByRow
<1>3. \A d \in DaysIn(m) : PaidHalves(d, t) = PaidByRow(d, t)
  BY <1>1, PaidIsPaidByRow
<1>4. \A d \in DaysIn(m) : PaidHalves(d, t)' = PaidByRow(d, t)'
  BY <1>1, PaidIsPaidByRowNext
<1>5. \A d \in DaysIn(m) : PaidHalves(d, t)' = PaidHalves(d, t)
  BY <1>2, <1>3, <1>4
<1>6. DaysIn(m)' = DaysIn(m)
  BY DEF DaysIn
<1>7. /\ {d \in DaysIn(m) : PaidHalves(d, t) >= 1}' = {d \in DaysIn(m) : PaidHalves(d, t) >= 1}
      /\ {d \in DaysIn(m) : PaidHalves(d, t) = 2}' = {d \in DaysIn(m) : PaidHalves(d, t) = 2}
  BY <1>5, <1>6
<1>8. QED
  BY <1>7 DEF Payable

\* Half-day leave, once approved, stays approved or is cancelled.
LEMMA HalfTakenKept ==
    ASSUME TypeInv, Books, [Next]_vars, HalfTaken
    PROVE  HalfTaken'
<1>1. PICK l \in HalfDay : leave[l].st \in {"approved", "cancelled"}
  BY DEF HalfTaken
<1>2. l \in Leave
  OBVIOUS
<1>3. SUFFICES leave'[l].st \in {"approved", "cancelled"}
  BY <1>1 DEF HalfTaken
<1>4. CASE leave' = leave
  BY <1>1, <1>4
<1>5. ASSUME NEW r \in Request, ApplyWrite(r) PROVE leave'[l].st \in {"approved", "cancelled"}
  <2>1. req[r].doc # l
    BY <1>1, <1>5 DEF ApplyWrite, Books, Asked, ApplyClear
  <2>2. QED
    BY <1>1, <1>5, <2>1 DEF ApplyWrite, TypeInv, TypeOK
<1>6. ASSUME NEW r \in Request, ApproveWrite(r) \/ CancelWrite(r) PROVE leave'[l].st \in {"approved", "cancelled"}
  <2>1. \E d : /\ leave' = [leave EXCEPT ![d] = [st |-> "approved", days |-> req[r].n,
                                                 charged |-> IF quota > 0 THEN req[r].n ELSE 0]]
            \/ leave' = [leave EXCEPT ![d].st = "cancelled"]
    BY <1>6 DEF ApproveWrite, CancelWrite
  <2>2. QED
    BY <1>1, <1>2, <2>1 DEF TypeInv, TypeOK, LeaveRec
<1>7. ASSUME NEW k \in Leave, Reject(k) PROVE leave'[l].st \in {"approved", "cancelled"}
  BY <1>1, <1>7 DEF Reject, TypeInv, TypeOK
<1>8. leave' = leave \/ \/ \E r \in Request : ApplyWrite(r) \/ ApproveWrite(r) \/ CancelWrite(r)
                        \/ \E k \in Leave : Reject(k)
  <2>1. CASE PayrollNext
    BY <2>1 DEF PayrollNext, BuildWrite, FinalizeWrite, PayWrite, DeleteWrite, Crash, RunPayroll, Refresh, SlipLoad,
                Reopen, DecideClaim, leaveVars
  <2>2. CASE LeaveNext
    BY <2>2 DEF LeaveNext, LeaveLoad, LeaveWrite, Apply, Approve, Cancel, EditBalance, Allocate, BulkAllocate,
                DropBalance, Sync, SetHoliday, Correct, Add, Mark, ApproveShort, Refused,
                PatchWrite, AllocateWrite, DropWrite, SyncWrite, Resync, MarkWrite, CorrectWrite,
                SetQuota, BulkCreate, NextDay
  <2>3. QED
    BY <2>1, <2>2 DEF Next, vars
<1>9. QED
  BY <1>4, <1>5, <1>6, <1>7, <1>8

\* A build in progress has counted what the rows say; a draft was built from
\* what they say, or will be rebuilt.
BuildsPay ==
    \A r \in Request, m \in Month : req[r].op = "build" /\ req[r].doc = m =>
        req[r].pay.payable = Payable(m, req[r].pay.builtOn)
DraftsPay ==
    \A m \in Month : slip[m].st = "draft" => slip[m].pay.payable = Payable(m, slip[m].pay.builtOn) \/ Watched(m)
PayInv == BookInv /\ Alone /\ (Stale \/ (BuildsPay /\ DraftsPay))

LEMMA PayLeave ==
    ASSUME TypeInv, Pairs, Books, Alone, BuildsPay, DraftsPay, LeaveNext, [Next]_vars,
           ~HalfTaken, TypeInv', Books', Alone', ~HalfTaken', ~Overlapped("build")'
    PROVE  BuildsPay' /\ DraftsPay'
<1>0. met \subseteq met'
  BY NextPairs
<1>1. slip' = slip
  BY <1>0, LeaveFrame
<1>2. WatchKept /\ RowsWatched
  BY LeaveWatched
<1>3. \A m \in Month : slip[m].pay.builtOn \in Nat
  BY PastTypes
<1>4. BuildsPay'
  <2> SUFFICES ASSUME NEW q \in Request, NEW m \in Month, req'[q].op = "build", req'[q].doc = m,
                      NEW t, t = req'[q].pay.builtOn
               PROVE  req'[q].pay.payable = Payable(m, t)'
    BY DEF BuildsPay
  <2>1. req'[q] = req[q] /\ att' = att
    BY <1>0, BuildQuiet
  <2>2. t \in Nat
    BY <2>1, PastTypes
  <2>3. Payable(m, t)' = Payable(m, t)
    BY <2>1, <2>2, PayableSame
  <2>4. QED
    BY <2>1, <2>3 DEF BuildsPay
<1>5. DraftsPay'
  <2> SUFFICES ASSUME NEW m \in Month, slip'[m].st = "draft", ~Watched(m)',
                      NEW t, t = slip'[m].pay.builtOn
               PROVE  slip'[m].pay.payable = Payable(m, t)'
    BY DEF DraftsPay
  <2>1. ~Watched(m)
    BY <1>2 DEF WatchKept
  <2>2. \A d \in DaysIn(m) : att'[d].st = att[d].st
    BY <1>2 DEF RowsWatched, DaysIn
  <2>3. Payable(m, t)' = Payable(m, t)
    BY <1>1, <1>3, <2>2, PayableSame
  <2>4. QED
    BY <1>1, <2>1, <2>3 DEF DraftsPay
<1>6. QED
  BY <1>4, <1>5

\* No attendance changes: a request ends, or a build begins.
LEMMA PayFrame ==
    ASSUME BuildsPay, DraftsPay, UNCHANGED <<leave, att, holiday>>,
           \A q \in Request :
              \/ req'[q] = req[q]
              \/ req'[q].op # "build"
              \/ \E m \in Month : req'[q].doc = m /\ req'[q].pay = PayOf(m),
           \A m \in Month :
              \/ slip'[m].st # "draft"
              \/ slip'[m].pay.payable = Payable(m, slip'[m].pay.builtOn)
              \/ slip'[m].pay = slip[m].pay /\ slip[m].st = "draft" /\ (Watched(m) => Watched(m)')
    PROVE  BuildsPay' /\ DraftsPay'
<1>1. \A m \in Month : \A t : Payable(m, t)' = Payable(m, t)
  BY DEF Payable, PaidHalves, DaysIn, HalfLeaveOn, LeaveOn, ApprovedOn, Off
<1>2. \A m \in Month : PayOf(m).payable = Payable(m, PayOf(m).builtOn)
  BY DEF PayOf
<1>3. BuildsPay'
  <2> SUFFICES ASSUME NEW q \in Request, NEW m \in Month, req'[q].op = "build", req'[q].doc = m,
                      NEW t, t = req'[q].pay.builtOn
               PROVE  req'[q].pay.payable = Payable(m, t)'
    BY DEF BuildsPay
  <2>1. req'[q].pay.payable = Payable(m, t)
    BY <1>2 DEF BuildsPay
  <2>2. QED
    BY <1>1, <2>1
<1>4. DraftsPay'
  <2> SUFFICES ASSUME NEW m \in Month, slip'[m].st = "draft", ~Watched(m)',
                      NEW t, t = slip'[m].pay.builtOn
               PROVE  slip'[m].pay.payable = Payable(m, t)'
    BY DEF DraftsPay
  <2>1. slip'[m].pay.payable = Payable(m, t)
    BY DEF DraftsPay
  <2>2. QED
    BY <1>1, <2>1
<1>5. QED
  BY <1>3, <1>4

LEMMA WatchedKept ==
    ASSUME NEW m, Underway(m) => Underway(m)',
           \A q \in Request : req[q].op \in {"checkin", "checkout"} => req'[q] = req[q]
    PROVE  Watched(m) => Watched(m)'
<1>1. Marking(m) => Marking(m)'
  BY DEF Marking
<1>2. QED
  BY <1>1 DEF Watched

LEMMA PayPayroll ==
    ASSUME TypeInv, BuildsPay, DraftsPay, PayrollNext, ~crashed', ~({"reopen"} \in met')
    PROVE  BuildsPay' /\ DraftsPay'
<1> DEFINE Goal == BuildsPay' /\ DraftsPay'
<1> HIDE DEF Goal
<1>1. ASSUME NEW r \in Request, NEW m \in Month, RunPayroll(r, m) PROVE Goal
  <2>0. /\ \E h : BeginsAs(r, h) /\ h.op = "build" /\ h.doc = m /\ h.pay = PayOf(m) /\ h.todo = {}
        /\ req[r].op = "idle"
        /\ UNCHANGED <<slip, leave, att, holiday, today, crashed>>
    BY <1>1, RunEffect
  <2>1. PICK h : BeginsAs(r, h) /\ h.op = "build" /\ h.doc = m /\ h.pay = PayOf(m) /\ h.todo = {}
    BY <2>0
  <2>2. req[r].op = "idle" /\ UNCHANGED <<slip, leave, att, holiday>>
    BY <2>0
  <2>3. \A k \in Month : Underway(k) => Underway(k)'
    BY <2>1, <2>2 DEF BeginsAs, Underway
  <2>4. \A q \in Request : req[q].op \in {"checkin", "checkout"} => req'[q] = req[q]
    BY <2>1, <2>2 DEF BeginsAs
  <2>5. \A k \in Month : Watched(k) => Watched(k)'
    BY <2>3, <2>4, WatchedKept
  <2>6. QED
    BY <2>1, <2>2, <2>5, PayFrame DEF BeginsAs, Goal
<1>2. ASSUME NEW r \in Request, NEW m \in Month, Refresh(r, m) PROVE Goal
  <2>1. req[r].op = "refresh" /\ UNCHANGED <<slip, leave, att, holiday>>
    BY <1>2, RefreshEffect
  <2>2. ASSUME NEW h, BeginsAs(r, h), h.op = "build", h.doc = m, h.pay = PayOf(m), h.todo = req[r].todo \ {m}
        PROVE  Goal
    <3>1. \A k \in Month : Underway(k) => Underway(k)'
      BY <2>1, <2>2 DEF BeginsAs, Underway
    <3>2. \A q \in Request : req[q].op \in {"checkin", "checkout"} => req'[q] = req[q]
      BY <2>1, <2>2 DEF BeginsAs
    <3>3. \A k \in Month : Watched(k) => Watched(k)'
      BY <3>1, <3>2, WatchedKept
    <3>4. QED
      BY <2>1, <2>2, <3>3, PayFrame DEF BeginsAs, Goal
  <2>3. CASE slip[m].st # "draft" /\ EndsAs(r, req[r].todo \ {m})
    <3>1. \A k \in Month : slip[k].st = "draft" /\ Underway(k) => Underway(k)'
      BY <2>1, <2>3 DEF EndsAs, Underway
    <3>2. \A q \in Request : req[q].op \in {"checkin", "checkout"} => req'[q] = req[q]
      BY <2>1, <2>3 DEF EndsAs
    <3>3. \A k \in Month : slip[k].st = "draft" => (Watched(k) => Watched(k)')
      BY <3>1, <3>2, WatchedKept
    <3>4. \A q \in Request : req'[q] = req[q] \/ req'[q].op # "build"
      BY <2>3 DEF EndsAs
    <3>5. QED
      BY <2>1, <3>3, <3>4, PayFrame DEF Goal
  <2>4. QED
    BY <1>2, <2>2, <2>3, RefreshEffect
<1>3. ASSUME NEW r \in Request, NEW m \in Month, SlipLoad(r, m) PROVE Goal
  <2>1. PICK h : BeginsAs(r, h) /\ h.op \in {"finalize", "pay", "delete"}
    BY <1>3, SlipLoadEffect
  <2>2. req[r].op = "idle" /\ UNCHANGED <<slip, leave, att, holiday>>
    BY <1>3, SlipLoadEffect
  <2>3. \A k \in Month : Underway(k) => Underway(k)'
    BY <2>1, <2>2 DEF BeginsAs, Underway
  <2>4. \A q \in Request : req[q].op \in {"checkin", "checkout"} => req'[q] = req[q]
    BY <2>1, <2>2 DEF BeginsAs
  <2>5. \A k \in Month : Watched(k) => Watched(k)'
    BY <2>3, <2>4, WatchedKept
  <2>6. \A q \in Request : req'[q] = req[q] \/ req'[q].op # "build"
    BY <2>1 DEF BeginsAs
  <2>7. QED
    BY <2>2, <2>5, <2>6, PayFrame DEF Goal
<1>4. ASSUME NEW r \in Request, BuildWrite(r) PROVE Goal
  <2>0. PICK m \in Month : m = req[r].doc
    BY <1>4, BuildWriteEffect
  <2>1. /\ req[r].op = "build" /\ req[r].doc = m
        /\ slip'[m].pay = req[r].pay
        /\ \A k \in Month : k # m => slip'[k] = slip[k]
        /\ EndsAs(r, req[r].todo) /\ UNCHANGED <<leave, att, holiday>>
    BY <1>4, <2>0, BuildWriteEffect
  <2>2. \A k \in Month : k # m => (Underway(k) => Underway(k)')
    BY <2>1 DEF EndsAs, Underway
  <2>3. \A q \in Request : req[q].op \in {"checkin", "checkout"} => req'[q] = req[q]
    BY <2>1 DEF EndsAs
  <2>4. \A k \in Month : k # m => (Watched(k) => Watched(k)')
    BY <2>2, <2>3, WatchedKept
  <2>5. \A q \in Request : req'[q] = req[q] \/ req'[q].op # "build"
    BY <2>1 DEF EndsAs
  <2>6. slip'[m].pay.payable = Payable(m, slip'[m].pay.builtOn)
    BY <2>1 DEF BuildsPay
  <2>7. QED
    BY <2>1, <2>4, <2>5, <2>6, PayFrame DEF Goal
<1>5. ASSUME NEW r \in Request, FinalizeWrite(r) \/ PayWrite(r) PROVE Goal
  <2>1. /\ req[r].op \in {"finalize", "pay"} /\ req[r].doc \in Month
        /\ \A k \in Month : slip'[k].pay = slip[k].pay /\ (k # req[r].doc => slip'[k] = slip[k])
        /\ slip'[req[r].doc].st = "draft" => slip[req[r].doc].st = "draft"
        /\ EndsAs(r, {}) /\ UNCHANGED <<leave, att, holiday>>
    BY <1>5, StatusEffect
  <2>2. \A k \in Month : slip'[k].st = "draft" => slip[k].st = "draft"
    BY <2>1
  <2>3. \A q \in Request : req[q].op \in {"checkin", "checkout"} => req'[q] = req[q]
    BY <2>1 DEF EndsAs
  <2>4. \A k \in Month : Underway(k) => Underway(k)'
    BY <2>1 DEF EndsAs, Underway
  <2>5. \A k \in Month : Watched(k) => Watched(k)'
    BY <2>3, <2>4, WatchedKept
  <2>6. \A q \in Request : req'[q] = req[q] \/ req'[q].op # "build"
    BY <2>1 DEF EndsAs
  <2>7. QED
    BY <2>1, <2>2, <2>5, <2>6, PayFrame DEF Goal
<1>6. ASSUME NEW r \in Request, DeleteWrite(r) PROVE Goal
  <2>1. /\ \A k \in Month : slip'[k] = NoSlip \/ slip'[k] = slip[k]
        /\ req[r].op = "delete" /\ req'[r].op = "idle"
        /\ \A q \in Request : q # r =>
              IF req[q].op \in {"finalize", "pay", "delete"} /\ req[q].doc = req[r].doc
              THEN req'[q].op = req[q].op
              ELSE req'[q] = req[q]
        /\ UNCHANGED <<leave, att, holiday>>
    BY <1>6, DeleteEffect, IdleOp
  <2>2. \A k \in Month : slip'[k].st # "draft" \/ slip'[k] = slip[k]
    BY <2>1 DEF NoSlip
  <2>3. \A q \in Request : req[q].op \in {"checkin", "checkout"} => req'[q] = req[q]
    BY <2>1
  <2>4. \A k \in Month : Underway(k) => Underway(k)'
    BY <2>1 DEF Underway
  <2>5. \A k \in Month : Watched(k) => Watched(k)'
    BY <2>3, <2>4, WatchedKept
  <2>6. \A q \in Request : req'[q] = req[q] \/ req'[q].op # "build"
    BY <2>1
  <2>7. \A k \in Month : slip'[k].st # "draft" \/ (slip'[k].pay = slip[k].pay /\ slip[k].st = "draft")
    BY <2>2
  <2>8. QED
    BY <2>1, <2>5, <2>6, <2>7, PayFrame DEF Goal
<1>7. ASSUME NEW m \in Month, Reopen(m) PROVE Goal
  BY <1>7, ReopenEffect DEF Goal
<1>8. ASSUME NEW r \in Request, Crash(r) PROVE Goal
  BY <1>8 DEF Crash
<1>9. ASSUME NEW c \in Claim, DecideClaim(c, "approved") \/ DecideClaim(c, "rejected") PROVE Goal
  <2>1. UNCHANGED <<leave, att, holiday, slip, req>>
    BY <1>9 DEF DecideClaim, leaveVars
  <2>2. \A k \in Month : Watched(k) => Watched(k)'
    BY <2>1 DEF Watched, Underway, Marking
  <2>3. QED
    BY <2>1, <2>2, PayFrame DEF Goal
<1>10. QED
  BY <1>1, <1>2, <1>3, <1>4, <1>5, <1>6, <1>7, <1>8, <1>9 DEF PayrollNext, Goal

LEMMA PayNext == PayInv /\ [Next]_vars => PayInv'
<1> SUFFICES ASSUME PayInv, [Next]_vars PROVE PayInv'
  OBVIOUS
<1>0. /\ TypeInv /\ Pairs /\ Alone /\ BookInv' /\ Alone' /\ TypeInv' /\ met \subseteq met'
  BY BookNext, NextPairs, AloneNext DEF PayInv, BookInv
<1>1. Unbooked => Unbooked'
  BY <1>0, MetKept DEF Unbooked
<1>2. Stale => Stale'
  <2>1. crashed => crashed'
    BY CrashKept
  <2>2. Overlapped("build") => Overlapped("build")'
    BY <1>0, OverlappedKept
  <2>3. HalfTaken /\ ~Unbooked => HalfTaken'
    BY <1>0, HalfTakenKept DEF PayInv, BookInv
  <2>4. QED
    BY <1>0, <1>1, <2>1, <2>2, <2>3 DEF Stale
<1>3. SUFFICES ASSUME ~Stale, ~Stale' PROVE BuildsPay' /\ DraftsPay'
  BY <1>0, <1>2 DEF PayInv
<1>4. /\ BuildsPay /\ DraftsPay /\ Books /\ Books' /\ ~HalfTaken /\ ~HalfTaken' /\ ~crashed'
      /\ ~Overlapped("build")' /\ ~({"reopen"} \in met')
  BY <1>0, <1>3 DEF Stale, PayInv, BookInv
<1>5. CASE LeaveNext
  BY <1>0, <1>4, <1>5, PayLeave
<1>6. CASE PayrollNext
  BY <1>0, <1>4, <1>6, PayPayroll
<1>7. CASE UNCHANGED vars
  <2>1. UNCHANGED <<leave, att, holiday, slip, req>>
    BY <1>7 DEF vars
  <2>2. \A k \in Month : Watched(k) => Watched(k)'
    BY <2>1 DEF Watched, Underway, Marking
  <2>3. QED
    BY <1>4, <2>1, <2>2, PayFrame
<1>8. QED
  BY <1>5, <1>6, <1>7 DEF Next

LEMMA PayInit == Init => PayInv
<1> SUFFICES ASSUME Init PROVE PayInv
  OBVIOUS
<1>1. (\A r \in Request : req[r].op = "idle") /\ (\A m \in Month : slip[m].st = "none")
  BY IdleOp DEF Init, NoSlip
<1>2. QED
  BY <1>1, BookInit DEF PayInv, Alone, BuildsPay, DraftsPay

-----------------------------------------------------------------------------
(* The three parts together.                                                *)

LEMMA MonthInit == Init => MonthInv
<1> SUFFICES ASSUME Init PROVE MonthInv
  OBVIOUS
<1>1. (\A r \in Request : req[r].op = "idle") /\ (\A m \in Month : slip[m].st = "none" /\ slip[m].pay.builtOn = 0)
  BY IdleOp DEF Init, NoSlip, NoPay
<1>2. Built /\ Full
  <2>1. today \in Nat
    BY DEF Init
  <2>2. Built
    BY <1>1, <2>1 DEF Built
  <2>3. \A m \in Month : ~Passed(m)
    BY <1>1 DEF Passed, FinalSlip
  <2>4. QED
    BY <2>2, <2>3 DEF Full
<1>3. QED
  BY <1>2, InitType, InitPairs DEF MonthInv

LEMMA MonthNext == MonthInv /\ [Next]_vars => MonthInv'
BY MonthStep, NextType, NextPairs DEF MonthInv

LEMMA SlipsAgreed == MonthInv /\ LeavesInv /\ PayInv => SlipsAgree
<1> SUFFICES ASSUME MonthInv, LeavesInv, PayInv PROVE SlipsAgree
  OBVIOUS
<1>1. DraftInStep
  <2> SUFFICES ASSUME ~Stale, \A r \in Request : req[r] = Idle, NEW m \in Month, slip[m].st = "draft"
               PROVE  slip[m].pay.payable = Payable(m, slip[m].pay.builtOn)
    BY DEF DraftInStep
  <2>1. \A r \in Request : req[r].op = "idle"
    BY IdleOp
  <2>2. ~Watched(m)
    BY <2>1 DEF Watched, Underway, Marking
  <2>3. QED
    BY <2>2 DEF PayInv, DraftsPay
<1>2. FinalizedInFull
  <2> SUFFICES ASSUME NEW m \in Month, slip[m].st \in {"finalized", "paid"}
               PROVE  /\ Met({"build"}, {"finalize"}) \/ Upcoming(m, slip[m].pay.builtOn) = {}
                      /\ Decided \/ slip[m].pay.leaves \ HalfDay = LeavesIn(m) \ HalfDay
    BY DEF FinalizedInFull
  <2>1. Met({"build"}, {"finalize"}) \/ Past(m, slip[m].pay.builtOn)
    BY DEF MonthInv, MonthsMet, Full, Passed, FinalSlip
  <2>2. slip[m].pay.builtOn \in Nat
    BY PastTypes DEF MonthInv
  <2>3. Past(m, slip[m].pay.builtOn) => Upcoming(m, slip[m].pay.builtOn) = {}
    BY <2>2, PastMeans
  <2>4. Decided \/ slip[m].pay.leaves \ HalfDay = LeavesIn(m) \ HalfDay
    BY DEF LeavesInv, Leaves, FinalLeaves, FinalSlip, Agree, FullLeaves
  <2>5. QED
    BY <2>1, <2>3, <2>4
<1>3. QED
  BY <1>1, <1>2 DEF SlipsAgree

\* A draft pays what the attendance says once nothing is in progress, and a
\* final slip covers its month and was built from the leave approved in it.
THEOREM SlipsHold == Spec => []SlipsAgree
<1>1. Init => MonthInv /\ LeavesInv /\ PayInv
  BY MonthInit, LeavesInit, PayInit
<1>2. (MonthInv /\ LeavesInv /\ PayInv) /\ [Next]_vars => (MonthInv /\ LeavesInv /\ PayInv)'
  BY MonthNext, LeavesNext, PayNext
<1>3. QED
  BY <1>1, <1>2, SlipsAgreed, PTL DEF Spec
=============================================================================

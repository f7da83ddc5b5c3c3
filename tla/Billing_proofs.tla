--------------------------- MODULE Billing_proofs ---------------------------
(***************************************************************************)
(* Safety of Billing for any number of subscriptions, payments, workers,   *)
(* super admins and redeliveries.                                          *)
(***************************************************************************)
EXTENDS Billing, SequenceTheorems, TLAPS

USE BillingAssumption

-----------------------------------------------------------------------------
(* Type correctness: TypeOK is inductive together with the fact that a      *)
(* worker that is not idle serves one of the events, and only a charge goes *)
(* on to its invoice.                                                       *)

Paying == {"lock", "check", "number", "insert"}

Serving ==
    \A w \in Worker :
        /\ handler[w].at # "idle" => handler[w].event \in Event
        /\ handler[w].at \in Paying => handler[w].event.kind = "charged"

TypeInv == TypeOK /\ Serving

LEMMA EventTypes ==
    ASSUME NEW e \in Event
    PROVE  e.kind \in EventKind /\ e.sub \in Sub /\ e.pay \in Payment \cup {NoPayment}
OBVIOUS

LEMMA StatusType == \A kind \in EventKind : StatusOf(kind) \in Status
BY DEF EventKind, StatusOf, Status

LEMMA SyncedType == \A status, to \in Status : Synced(status, to) \in Status
BY DEF Synced, Status

LEMMA RowType ==
    \A status \in Status, active \in BOOLEAN, kind \in {"", "billing", "admin"} :
        [status |-> status, active |-> active, kind |-> kind] \in TenantRow
BY DEF TenantRow

LEMMA Blank == NotServing \in HandlerRec /\ NoJob \in JobRec
BY DEF NotServing, NoJob, HandlerRec, JobRec, Step, TenantRow, Status

\* A row with one field, or all three, replaced is a row.
LEMMA StatusChange ==
    ASSUME NEW row \in TenantRow, NEW status \in Status
    PROVE  [row EXCEPT !.status = status] \in TenantRow
BY DEF TenantRow

LEMMA RowChange ==
    ASSUME NEW row \in TenantRow, NEW status \in Status, NEW active \in BOOLEAN,
           NEW kind \in {"", "billing", "admin"}
    PROVE  [row EXCEPT !.active = active, !.status = status, !.kind = kind] \in TenantRow
BY DEF TenantRow

\* A job that goes on to the subscription.
LEMMA JobMoves ==
    ASSUME TypeInv, NEW a \in Admin, job' = [job EXCEPT ![a].at = "sync"]
    PROVE  job' \in [Admin -> JobRec]
<1> DEFINE j == [job[a] EXCEPT !.at = "sync"]
<1>1. job[a] \in JobRec /\ job' = [job EXCEPT ![a] = j]
  BY DEF TypeInv, TypeOK
<1>2. j \in JobRec
  BY <1>1 DEF JobRec
<1> HIDE DEF j
<1>3. QED
  BY <1>1, <1>2 DEF TypeInv, TypeOK

\* A worker that goes on to another step, or is done.
LEMMA Proceeds ==
    ASSUME TypeInv, NEW w \in Worker, NEW h \in HandlerRec, h.event \in Event,
           h.at \in Paying => h.event.kind = "charged",
           handler' = [handler EXCEPT ![w] = h]
    PROVE  handler' \in [Worker -> HandlerRec] /\ Serving'
BY DEF TypeInv, TypeOK, Serving

LEMMA Moves ==
    ASSUME TypeInv, NEW w \in Worker, handler[w].at # "idle", NEW step \in Step,
           step \in Paying => Charge(w), Goto(w, step)
    PROVE  handler' \in [Worker -> HandlerRec] /\ Serving'
<1> DEFINE h == [handler[w] EXCEPT !.at = step]
<1>1. handler[w] \in HandlerRec /\ handler' = [handler EXCEPT ![w] = h]
  BY DEF TypeInv, TypeOK, Goto
<1>2. h \in HandlerRec /\ h.event = handler[w].event /\ h.at = step
  BY <1>1 DEF HandlerRec
<1>3. h.event \in Event /\ (h.at \in Paying => h.event.kind = "charged")
  BY <1>2 DEF TypeInv, Serving, Charge
<1> HIDE DEF h
<1>4. QED
  BY <1>1, <1>2, <1>3, Proceeds

LEMMA Rests ==
    ASSUME TypeInv, NEW w \in Worker, handler' = [handler EXCEPT ![w] = NotServing]
    PROVE  handler' \in [Worker -> HandlerRec] /\ Serving'
BY Blank DEF TypeInv, TypeOK, Serving, NotServing, Paying

LEMMA Answers ==
    ASSUME TypeInv, NEW w \in Worker, handler[w].at # "idle",
           NEW outcome \in Outcome, AnswerAs(w, outcome)
    PROVE  handler' \in [Worker -> HandlerRec] /\ Serving' /\ answered' \in [Outcome -> SUBSET Event]
<1>1. handler[w].event \in Event
  BY DEF TypeInv, Serving
<1>2. answered' \in [Outcome -> SUBSET Event]
  BY <1>1 DEF TypeInv, TypeOK, AnswerAs
<1>3. QED
  BY <1>2, Rests DEF AnswerAs

LEMMA Unlocks ==
    ASSUME TypeInv, NEW w \in Worker, Unlock(w)
    PROVE  lock' \in [Sub -> Worker \cup {NoWorker}]
BY DEF TypeInv, TypeOK, Unlock

LEMMA Spends ==
    ASSUME TypeInv, NEW what \in Bound, NEW max, Spend(what, max)
    PROVE  spent' \in [Bound -> Nat]
BY DEF TypeInv, TypeOK, Spend

\* A super admin's request that starts.
LEMMA DecidesType ==
    ASSUME TypeInv, NEW a \in Admin, NEW s \in Sub, NEW row \in TenantRow, NEW to \in Status,
           Decides(a, s, row, "sync", to)
    PROVE  /\ tenant' \in [Sub -> TenantRow] /\ job' \in [Admin -> JobRec]
           /\ spent' \in [Bound -> Nat] /\ raced' \subseteq Sub
<1>1. [NoJob EXCEPT !.at = "sync", !.sub = s, !.to = to] \in JobRec
  BY DEF NoJob, JobRec, TenantRow, Status
<1>2. QED
  BY <1>1, Spends DEF Decides, Starts, Bound, TypeInv, TypeOK

\* Every step keeps the types.
LEMMA TypeStep ==
    ASSUME TypeInv, Next
    PROVE  TypeInv'
<1> USE DEF TypeInv, tenantVars, observers
<1>1. ASSUME NEW w \in Worker, NEW e \in Event, Deliver(w, e) PROVE TypeInv'
  <2> DEFINE h == [NotServing EXCEPT !.at = "save", !.event = e]
  <2>1. h \in HandlerRec /\ h.at \notin Paying /\ h.event \in Event
    BY DEF NotServing, HandlerRec, Step, TenantRow, Status, Paying
  <2>2. handler' = [handler EXCEPT ![w] = h]
    BY <1>1 DEF Deliver
  <2> HIDE DEF h
  <2>3. handler' \in [Worker -> HandlerRec] /\ Serving'
    BY <2>1, <2>2 DEF TypeOK, Serving
  <2>4. spent' \in [Bound -> Nat]
    BY <1>1, Spends DEF Deliver, Bound, TypeOK
  <2>5. raced' \subseteq Sub
    BY <1>1, EventTypes DEF Deliver, Starts, TypeOK
  <2>6. QED
    BY <1>1, <2>3, <2>4, <2>5 DEF Deliver, TypeOK
<1>2. ASSUME NEW w \in Worker, NEW s \in Sub, SaveSubscription(w, s) PROVE TypeInv'
  <2>1. handler[w].at # "idle" /\ handler[w].event \in Event /\ Goto(w, "load")
    BY <1>2 DEF SaveSubscription, At, Serving
  <2>2. StatusOf(handler[w].event.kind) \in Status
    BY <2>1, EventTypes, StatusType
  <2>3. handler' \in [Worker -> HandlerRec] /\ Serving'
    BY <2>1, Moves DEF Step, Paying
  <2>4. sub' \in [Sub -> Status]
    BY <1>2, <2>2 DEF SaveSubscription, TypeOK
  <2>5. QED
    BY <1>2, <2>3, <2>4 DEF SaveSubscription, TypeOK
<1>3. ASSUME NEW w \in Worker, NEW s \in Sub, LoadTenant(w, s) PROVE TypeInv'
  <2> DEFINE h == [handler[w] EXCEPT !.at = "sync", !.copy = tenant[s]]
  <2>1. handler' = [handler EXCEPT ![w] = h]
    BY <1>3 DEF LoadTenant, TypeOK
  <2>2. handler[w] \in HandlerRec /\ tenant[s] \in TenantRow /\ handler[w].event \in Event
    BY <1>3 DEF LoadTenant, At, TypeOK, Serving
  <2>3. h \in HandlerRec /\ h.event \in Event /\ h.at \notin Paying
    BY <2>2 DEF HandlerRec, Step, Paying
  <2> HIDE DEF h
  <2>4. handler' \in [Worker -> HandlerRec] /\ Serving'
    BY <2>1, <2>3, Proceeds
  <2>5. QED
    BY <1>3, <2>4 DEF LoadTenant, TypeOK
<1>4. ASSUME NEW w \in Worker, NEW s \in Sub, SyncTenant(w, s) \/ SyncFails(w, s) PROVE TypeInv'
  <2> DEFINE status == StatusOf(handler[w].event.kind)
             step == AfterSync(w)
  <2>1. status \in Status /\ handler[w].event \in Event /\ handler[w].at # "idle"
    BY <1>4, EventTypes, StatusType DEF SyncTenant, SyncFails, At, Serving
  <2>2. tenant' = tenant \/ tenant' = [tenant EXCEPT ![s] = [tenant[s] EXCEPT !.status = status]]
    BY <1>4 DEF SyncTenant, SyncFails, TypeOK
  <2>3. Goto(w, step) /\ step \in Step \ Paying
    BY <1>4 DEF SyncTenant, SyncFails, AfterSync, Step, Paying
  <2>4. spent' \in [Bound -> Nat]
    BY <1>4, Spends DEF SyncTenant, SyncFails, Bound, TypeOK
  <2> HIDE DEF status, step
  <2>5. tenant' \in [Sub -> TenantRow]
    <3>1. tenant \in [Sub -> TenantRow]
      BY DEF TypeOK
    <3>2. [tenant[s] EXCEPT !.status = status] \in TenantRow
      BY <2>1, <3>1, StatusChange
    <3> HIDE DEF TypeInv
    <3>3. QED
      BY <2>2, <3>1, <3>2
  <2>6. handler' \in [Worker -> HandlerRec] /\ Serving'
    BY <2>1, <2>3, Moves
  <2>7. QED
    BY <1>4, <2>4, <2>5, <2>6 DEF SyncTenant, SyncFails, TypeOK
<1>5. ASSUME NEW w \in Worker, NEW s \in Sub, HaltTenant(w, s) PROVE TypeInv'
  <2>1. tenant' = [tenant EXCEPT ![s] = [tenant[s] EXCEPT !.status = "past_due"]]
    BY <1>5 DEF HaltTenant, TypeOK
  <2>2. "past_due" \in Status
    BY DEF Status
  <2>3. tenant' \in [Sub -> TenantRow]
    <3>1. [tenant[s] EXCEPT !.status = "past_due"] \in TenantRow
      BY <2>2, StatusChange DEF TypeOK
    <3>2. QED
      BY <2>1, <3>1 DEF TypeOK
  <2>4. handler[w].at # "idle" /\ Goto(w, "refresh")
    BY <1>5 DEF HaltTenant, At
  <2>5. handler' \in [Worker -> HandlerRec] /\ Serving'
    BY <2>4, Moves DEF Step, Paying
  <2>6. QED
    BY <1>5, <2>3, <2>5 DEF HaltTenant, TypeOK
<1>6. ASSUME NEW w \in Worker, NEW s \in Sub, ReopenTenant(w, s) PROVE TypeInv'
  <2> DEFINE row == [status |-> "active", active |-> TRUE, kind |-> ""]
  <2>1. row \in TenantRow
    BY RowType DEF Status
  <2>2. tenant' = tenant \/ tenant' = [tenant EXCEPT ![s] = row]
    BY <1>6 DEF ReopenTenant
  <2>3. handler[w].at # "idle" /\ Goto(w, "refresh")
    BY <1>6 DEF ReopenTenant, At
  <2> HIDE DEF row
  <2>4. tenant' \in [Sub -> TenantRow]
    <3>1. tenant \in [Sub -> TenantRow]
      BY DEF TypeOK
    <3> HIDE DEF TypeInv
    <3>2. QED
      BY <2>1, <2>2, <3>1
  <2>5. handler' \in [Worker -> HandlerRec] /\ Serving'
    BY <2>3, Moves DEF Step, Paying
  <2>6. QED
    BY <1>6, <2>4, <2>5 DEF ReopenTenant, TypeOK
<1>26. ASSUME NEW w \in Worker, RefreshCaches(w) PROVE TypeInv'
  <2>1. CASE Charge(w)
    <3>1. handler[w].at # "idle" /\ Goto(w, "lock") /\ UNCHANGED answered
      BY <1>26, <2>1 DEF RefreshCaches
    <3>2. handler' \in [Worker -> HandlerRec] /\ Serving'
      BY <2>1, <3>1, Moves DEF Step
    <3>3. QED
      BY <1>26, <3>1, <3>2 DEF RefreshCaches, TypeOK
  <2>2. CASE ~Charge(w)
    BY <1>26, <2>2, Answers DEF RefreshCaches, Answer, Outcome, TypeOK
  <2>3. QED
    BY <2>1, <2>2
<1>7. ASSUME NEW w \in Worker, NEW s \in Sub, LockSubscription(w, s) PROVE TypeInv'
  <2>1. handler[w].at # "idle" /\ Goto(w, "check") /\ Charge(w)
    BY <1>7 DEF LockSubscription, At, Serving, Paying, Charge
  <2>2. QED
    BY <1>7, <2>1, Moves DEF LockSubscription, TypeOK, Step
<1>8. ASSUME NEW w \in Worker, AlreadyInvoiced(w) PROVE TypeInv'
  BY <1>8, Answers, Unlocks DEF AlreadyInvoiced, Answer, Outcome, TypeOK
<1>9. ASSUME NEW w \in Worker, NotYetInvoiced(w) PROVE TypeInv'
  <2>1. handler[w].at # "idle" /\ Goto(w, "number") /\ Charge(w)
    BY <1>9 DEF NotYetInvoiced, Serving, Paying, Charge
  <2>2. QED
    BY <1>9, <2>1, Moves DEF NotYetInvoiced, TypeOK, Step
<1>10. ASSUME NEW w \in Worker, ReadNumber(w) PROVE TypeInv'
  <2> DEFINE h == [handler[w] EXCEPT !.at = "insert", !.number = Len(invoices) + 1]
  <2>1. handler' = [handler EXCEPT ![w] = h]
    BY <1>10 DEF ReadNumber, TypeOK
  <2>2. Len(invoices) + 1 \in Nat
    BY DEF TypeOK
  <2>3. /\ handler[w] \in HandlerRec
        /\ handler[w].event \in Event /\ handler[w].event.kind = "charged"
    BY <1>10 DEF ReadNumber, TypeOK, Serving, Paying
  <2>5. h \in HandlerRec /\ h.event = handler[w].event
    BY <2>2, <2>3 DEF HandlerRec, Step
  <2> HIDE DEF h
  <2>6. handler' \in [Worker -> HandlerRec] /\ Serving'
    BY <2>1, <2>3, <2>5, Proceeds
  <2>7. QED
    BY <1>10, <2>6 DEF ReadNumber, TypeOK
<1>11. ASSUME NEW w \in Worker, InsertInvoice(w) PROVE TypeInv'
  <2>1. /\ handler[w].at # "idle" /\ handler[w].event \in Event /\ Unlock(w)
        /\ AnswerAs(w, "ok") \/ AnswerAs(w, "clash")
    BY <1>11 DEF InsertInvoice, Answer, Serving
  <2>2. handler[w].event.pay \in Payment
    BY <1>11, <2>1 DEF InsertInvoice, Serving, Paying
  <2>3. invoices' \in Seq(Payment)
    <3>1. invoices \in Seq(Payment)
      BY DEF TypeOK
    <3>2. UNCHANGED invoices \/ invoices' = Append(invoices, handler[w].event.pay)
      BY <1>11 DEF InsertInvoice
    <3> HIDE DEF TypeInv
    <3>3. QED
      BY <2>2, <3>1, <3>2
  <2>4. QED
    BY <1>11, <2>1, <2>3, Answers, Unlocks DEF InsertInvoice, Outcome, TypeOK
<1>25. ASSUME NEW w \in Worker, HandlerFails(w) PROVE TypeInv'
  BY <1>25, Answers, Unlocks, Spends DEF HandlerFails, Outcome, TypeOK, Bound
<1>12. ASSUME NEW w \in Worker, Crash(w) PROVE TypeInv'
  BY <1>12, Rests, Unlocks, Spends DEF Crash, TypeOK, Bound
<1>13. ASSUME NEW a \in Admin, NEW s \in Sub, Suspend(a, s) PROVE TypeInv'
  <2> DEFINE row == [status |-> "suspended", active |-> FALSE, kind |-> "admin"]
  <2>1. row \in TenantRow /\ "suspended" \in Status
    BY RowType DEF Status
  <2>2. Decides(a, s, row, "sync", "suspended")
    BY <1>13 DEF Suspend
  <2> HIDE DEF row
  <2>3. QED
    BY <1>13, <2>1, <2>2, DecidesType DEF Suspend, TypeOK, Serving
<1>14. ASSUME NEW a \in Admin, NEW s \in Sub, Activate(a, s) PROVE TypeInv'
  <2> DEFINE row == [status |-> "active", active |-> TRUE, kind |-> ""]
  <2>1. row \in TenantRow /\ "active" \in Status
    BY RowType DEF Status
  <2>2. Decides(a, s, row, "sync", "active")
    BY <1>14 DEF Activate
  <2> HIDE DEF row
  <2>3. QED
    BY <1>14, <2>1, <2>2, DecidesType DEF Activate, TypeOK, Serving
<1>15. ASSUME NEW a \in Admin, NEW s \in Sub, SetTrial(a, s) PROVE TypeInv'
  <2> DEFINE row == [status |-> "trial", active |-> TRUE, kind |-> ""]
  <2>1. row \in TenantRow /\ "trial" \in Status
    BY RowType DEF Status
  <2>2. Decides(a, s, row, "sync", "trial")
    BY <1>15 DEF SetTrial
  <2> HIDE DEF row
  <2>3. QED
    BY <1>15, <2>1, <2>2, DecidesType DEF SetTrial, TypeOK, Serving
<1>16. ASSUME NEW a \in Admin, NEW s \in Sub, NEW row \in FormRow, SaveForm(a, s, row) PROVE TypeInv'
  <2> DEFINE step == IF Blocked(row) THEN "block" ELSE IF Blocked(tenant[s]) THEN "reopen" ELSE "idle"
             to == IF Blocked(row) THEN "suspended" ELSE row.status
             j == [at |-> step, sub |-> s, to |-> to, form |-> row]
  <2>1. row \in TenantRow /\ to \in Status
    BY DEF TenantRow, Status
  <2>2. step \in {"idle", "sync", "block", "reopen"}
    OBVIOUS
  <2>3. job' = [job EXCEPT ![a] = j]
    BY <1>16 DEF SaveForm
  <2> HIDE DEF step, to
  <2>4. j \in JobRec
    BY <2>1, <2>2 DEF JobRec
  <2> HIDE DEF j
  <2>5. tenant' \in [Sub -> TenantRow] /\ job' \in [Admin -> JobRec]
    BY <1>16, <2>1, <2>3, <2>4 DEF SaveForm, TypeOK
  <2>6. held' \subseteq Sub /\ raced' \subseteq Sub
    BY <1>16 DEF SaveForm, Starts, TypeOK
  <2>7. QED
    BY <1>16, <2>5, <2>6, Spends DEF SaveForm, TypeOK, Serving, Bound
<1>17. ASSUME NEW a \in Admin, NEW s \in Sub, SyncSubscription(a, s) PROVE TypeInv'
  <2>1. job[a].to \in Status
    BY DEF TypeOK, JobRec
  <2>2. sub' \in [Sub -> Status]
    BY <1>17, <2>1, SyncedType DEF SyncSubscription, TypeOK
  <2>3. QED
    BY <1>17, <2>2, Blank DEF SyncSubscription, TypeOK, Serving
<1>18. ASSUME NEW a \in Admin, NEW s \in Sub, BlockFromForm(a, s) PROVE TypeInv'
  <2> DEFINE form == job[a].form
             active == IF form.active THEN FALSE ELSE tenant[s].active
             status == IF form.status \in Usable THEN "suspended" ELSE tenant[s].status
             kind == IF form.kind = "" THEN "admin" ELSE tenant[s].kind
  <2>1. tenant' = [tenant EXCEPT ![s] =
                     [tenant[s] EXCEPT !.active = active, !.status = status, !.kind = kind]]
    BY <1>18 DEF BlockFromForm, TypeOK, TenantRow
  <2>2. active \in BOOLEAN /\ status \in Status /\ kind \in {"", "billing", "admin"}
    BY DEF TypeOK, TenantRow, Status
  <2> HIDE DEF active, status, kind
  <2>3. tenant' \in [Sub -> TenantRow]
    <3>1. [tenant[s] EXCEPT !.active = active, !.status = status, !.kind = kind] \in TenantRow
      BY <2>2, RowChange DEF TypeOK
    <3>2. QED
      BY <2>1, <3>1 DEF TypeOK
  <2>4. job' \in [Admin -> JobRec]
    BY <1>18, JobMoves DEF BlockFromForm
  <2>5. QED
    BY <1>18, <2>3, <2>4 DEF BlockFromForm, TypeOK, Serving
<1>19. ASSUME NEW a \in Admin, NEW s \in Sub, ReopenFromForm(a, s) PROVE TypeInv'
  <2>1. tenant' = [tenant EXCEPT ![s] = [tenant[s] EXCEPT !.kind = ""]]
    BY <1>19 DEF ReopenFromForm, TypeOK
  <2>2. tenant' \in [Sub -> TenantRow]
    <3>1. tenant[s] \in TenantRow
      BY DEF TypeOK
    <3>2. [tenant[s] EXCEPT !.kind = ""] \in TenantRow
      BY <3>1 DEF TenantRow
    <3>3. QED
      BY <2>1, <3>2 DEF TypeOK
  <2>3. job' \in [Admin -> JobRec]
    BY <1>19, JobMoves DEF ReopenFromForm
  <2>4. QED
    BY <1>19, <2>2, <2>3 DEF ReopenFromForm, TypeOK, Serving
<1>20. ASSUME SweepReads PROVE TypeInv'
  BY <1>20, Spends DEF SweepReads, Starts, TypeOK, Serving, Bound
<1>21. ASSUME NEW s \in Sub, SweepSuspends(s) PROVE TypeInv'
  <2> DEFINE row == [status |-> "suspended", active |-> FALSE, kind |-> "billing"]
  <2>1. row \in TenantRow
    BY RowType DEF Status
  <2>2. tenant' = [tenant EXCEPT ![s] = row]
    BY <1>21 DEF SweepSuspends
  <2> HIDE DEF row
  <2>3. tenant' \in [Sub -> TenantRow]
    BY <2>1, <2>2 DEF TypeOK
  <2>4. sweep' \in [due : SUBSET Sub, syncing : Sub \cup {NoSub}]
    BY <1>21 DEF SweepSuspends, TypeOK
  <2>5. QED
    BY <1>21, <2>3, <2>4 DEF SweepSuspends, TypeOK, Serving
<1>22. ASSUME NEW s \in Sub, SweepSyncs(s) PROVE TypeInv'
  <2>1. "suspended" \in Status
    BY DEF Status
  <2>2. QED
    BY <1>22, <2>1, SyncedType DEF SweepSyncs, TypeOK, Serving
<1>23. ASSUME NEW s \in Sub, TrialPasses(s) PROVE TypeInv'
  BY <1>23 DEF TrialPasses, TypeOK, Serving
<1>24. QED
  BY <1>1, <1>2, <1>3, <1>4, <1>5, <1>6, <1>7, <1>8, <1>9, <1>10, <1>11, <1>12, <1>13, <1>14,
     <1>15, <1>16, <1>17, <1>18, <1>19, <1>20, <1>21, <1>22, <1>23, <1>25, <1>26
     DEF Next, Serve, Fail, Decide, Settle, Sweep

LEMMA InitialTypes == Init => TypeInv
<1> SUFFICES ASSUME Init PROVE TypeInv
  OBVIOUS
<1>1. tenant \in [Sub -> TenantRow] /\ sub \in [Sub -> Status]
  BY RowType DEF Init, Status
<1>2. handler \in [Worker -> HandlerRec] /\ job \in [Admin -> JobRec] /\ Serving
  BY Blank DEF Init, Serving, NotServing, Paying
<1>3. invoices \in Seq(Payment)
  BY EmptySeq DEF Init
<1>4. spent \in [Bound -> Nat]
  BY DEF Init
<1>5. sweep \in [due : SUBSET Sub, syncing : Sub \cup {NoSub}]
  BY DEF Init
<1>6. answered \in [Outcome -> SUBSET Event]
  BY DEF Init
<1>7. QED
  BY <1>1, <1>2, <1>3, <1>4, <1>5, <1>6 DEF Init, TypeInv, TypeOK

\* The variables keep their types, for any number of subscriptions, events,
\* workers and super admins.
THEOREM TypeCorrect == Spec => []TypeOK
<1>1. Init => TypeInv
  BY InitialTypes
<1>2. TypeInv /\ UNCHANGED vars => TypeInv'
  BY DEF vars, TypeInv, TypeOK, Serving
<1>3. TypeInv /\ [Next]_vars => TypeInv'
  BY <1>2, TypeStep
<1>4. TypeInv => TypeOK
  BY DEF TypeInv
<1>5. QED
  BY <1>1, <1>3, <1>4, PTL DEF Spec

-----------------------------------------------------------------------------
(* The invoices.  A worker that is past the lock holds its subscription, so *)
(* no other delivery of its charge can be invoiced before it has finished.  *)

LockInv ==
    \A w \in Worker : handler[w].at \in {"check", "number", "insert"} =>
        lock[handler[w].event.sub] = w

NewInv ==
    \A w \in Worker : handler[w].at \in {"number", "insert"} => ~Invoiced(handler[w].event.pay)

LedgerInv == TypeInv /\ LockInv /\ NewInv /\ OneInvoicePerPayment

\* A step that changes no invoice and no lock, and takes at most one worker to
\* a step before the lock, keeps the ledger's invariant.
LEMMA BeforeTheLock ==
    ASSUME LedgerInv, TypeInv', UNCHANGED <<lock, invoices>>,
           \A w \in Worker : handler'[w] = handler[w] \/ handler'[w].at \notin {"check", "number", "insert"}
    PROVE  LedgerInv'
BY DEF LedgerInv, LockInv, NewInv, OneInvoicePerPayment, Invoiced

\* A worker that is done gives back its lock and nobody else's.
LEMMA Releases ==
    ASSUME LedgerInv, NEW w \in Worker, Unlock(w), handler' = [handler EXCEPT ![w] = NotServing]
    PROVE  LockInv'
<1>1. \A v \in Worker \ {w} : handler'[v] = handler[v]
  BY DEF LedgerInv, TypeInv, TypeOK
<1>2. handler'[w].at = "idle"
  BY DEF LedgerInv, TypeInv, TypeOK, NotServing
<1>3. \A v \in Worker \ {w}, s \in Sub : lock[s] = v => lock'[s] = v
  BY DEF Unlock
<1>4. \A v \in Worker : handler[v].at # "idle" => handler[v].event.sub \in Sub
  BY EventTypes DEF LedgerInv, TypeInv, Serving
<1>5. QED
  BY <1>1, <1>2, <1>3, <1>4 DEF LedgerInv, LockInv

\* Two workers past the lock do not serve the same payment.
LEMMA OneAtATime ==
    ASSUME LedgerInv, NEW v \in Worker, NEW w \in Worker,
           handler[v].at \in {"check", "number", "insert"},
           handler[w].at \in {"check", "number", "insert"},
           handler[v].event.sub = handler[w].event.sub \/ handler[v].event.pay = handler[w].event.pay
    PROVE  v = w
<1>1. /\ handler[v].event \in Event /\ handler[v].event.kind = "charged"
      /\ handler[w].event \in Event /\ handler[w].event.kind = "charged"
  BY DEF LedgerInv, TypeInv, Serving, Paying
<1>2. handler[v].event.sub = handler[w].event.sub
  BY <1>1
<1>3. QED
  BY <1>2 DEF LedgerInv, LockInv

LEMMA LedgerStep ==
    ASSUME LedgerInv, [Next]_vars
    PROVE  LedgerInv'
<1> USE DEF tenantVars, observers
<1>0. TypeInv /\ handler \in [Worker -> HandlerRec]
  BY DEF LedgerInv, TypeInv, TypeOK
<1>1. TypeInv'
  BY <1>0, TypeStep DEF vars, TypeInv, TypeOK, Serving
<1>2. ASSUME NEW w \in Worker, NEW e \in Event, Deliver(w, e) PROVE LedgerInv'
  BY <1>0, <1>1, <1>2, BeforeTheLock DEF Deliver, NotServing
<1>3. ASSUME NEW w \in Worker, NEW s \in Sub, SaveSubscription(w, s) PROVE LedgerInv'
  BY <1>0, <1>1, <1>3, BeforeTheLock DEF SaveSubscription, Goto, HandlerRec
<1>4. ASSUME NEW w \in Worker, NEW s \in Sub, LoadTenant(w, s) PROVE LedgerInv'
  BY <1>0, <1>1, <1>4, BeforeTheLock DEF LoadTenant, HandlerRec
<1>5. ASSUME NEW w \in Worker, NEW s \in Sub, SyncTenant(w, s) \/ SyncFails(w, s) PROVE LedgerInv'
  BY <1>0, <1>1, <1>5, BeforeTheLock DEF SyncTenant, SyncFails, AfterSync, Goto, HandlerRec
<1>6. ASSUME NEW w \in Worker, NEW s \in Sub, HaltTenant(w, s) PROVE LedgerInv'
  BY <1>0, <1>1, <1>6, BeforeTheLock DEF HaltTenant, Goto, HandlerRec
<1>7. ASSUME NEW w \in Worker, NEW s \in Sub, ReopenTenant(w, s) PROVE LedgerInv'
  BY <1>0, <1>1, <1>7, BeforeTheLock DEF ReopenTenant, Goto, HandlerRec
<1>18. ASSUME NEW w \in Worker, RefreshCaches(w) PROVE LedgerInv'
  <2>1. /\ handler'[w].at \in {"lock", "idle"} /\ \A v \in Worker \ {w} : handler'[v] = handler[v]
        /\ UNCHANGED <<lock, invoices>>
    <3>1. \/ handler' = [handler EXCEPT ![w].at = "lock"]
          \/ handler' = [handler EXCEPT ![w] = NotServing]
      BY <1>18 DEF RefreshCaches, Goto, Answer, AnswerAs
    <3>2. /\ handler'[w].at \in {"lock", "idle"}
          /\ \A v \in Worker \ {w} : handler'[v] = handler[v]
      <4>1. handler \in [Worker -> HandlerRec] /\ NotServing.at = "idle"
        BY <1>0 DEF NotServing
      <4>2. CASE handler' = [handler EXCEPT ![w].at = "lock"]
        BY <4>1, <4>2 DEF HandlerRec
      <4>3. CASE handler' = [handler EXCEPT ![w] = NotServing]
        BY <4>1, <4>3
      <4>4. QED
        BY <3>1, <4>2, <4>3
    <3>3. QED
      BY <1>18, <3>2 DEF RefreshCaches
  <2>2. QED
    BY <1>1, <2>1, BeforeTheLock
<1>8. ASSUME NEW w \in Worker, NEW s \in Sub, LockSubscription(w, s) PROVE LedgerInv'
  <2>1. handler'[w].at = "check" /\ handler'[w].event = handler[w].event /\ handler[w].event.sub = s
    BY <1>0, <1>8 DEF LockSubscription, At, Goto, HandlerRec
  <2>2. \A v \in Worker \ {w} : handler'[v] = handler[v]
    BY <1>0, <1>8 DEF LockSubscription, Goto
  <2>3. lock'[s] = w /\ \A t \in Sub \ {s} : lock'[t] = lock[t]
    BY <1>8 DEF LockSubscription, LedgerInv, TypeInv, TypeOK
  <2>4. \A v \in Worker \ {w} : handler[v].at \in {"check", "number", "insert"} =>
            handler[v].event.sub \in Sub \ {s}
    BY <1>8, EventTypes DEF LockSubscription, LedgerInv, LockInv, TypeInv, Serving
  <2>5. LockInv'
    BY <2>1, <2>2, <2>3, <2>4 DEF LockInv, LedgerInv
  <2>6. NewInv' /\ OneInvoicePerPayment'
    BY <1>8, <2>1, <2>2 DEF LockSubscription, LedgerInv, NewInv, OneInvoicePerPayment, Invoiced
  <2>7. QED
    BY <1>1, <2>5, <2>6 DEF LedgerInv
<1>9. ASSUME NEW w \in Worker, AlreadyInvoiced(w) PROVE LedgerInv'
  <2>1. NewInv' /\ OneInvoicePerPayment'
    BY <1>0, <1>9 DEF AlreadyInvoiced, Answer, AnswerAs, NotServing, LedgerInv, NewInv, OneInvoicePerPayment, Invoiced
  <2>2. QED
    BY <1>1, <1>9, <2>1, Releases DEF AlreadyInvoiced, Answer, AnswerAs, LedgerInv
<1>10. ASSUME NEW w \in Worker, NotYetInvoiced(w) PROVE LedgerInv'
  <2>1. handler'[w].event = handler[w].event /\ \A v \in Worker \ {w} : handler'[v] = handler[v]
    BY <1>0, <1>10 DEF NotYetInvoiced, Goto, HandlerRec
  <2>2. QED
    BY <1>1, <1>10, <2>1 DEF NotYetInvoiced, LedgerInv, LockInv, NewInv, OneInvoicePerPayment, Invoiced
<1>11. ASSUME NEW w \in Worker, ReadNumber(w) PROVE LedgerInv'
  <2>1. /\ handler'[w].event = handler[w].event /\ handler'[w].at = "insert"
        /\ \A v \in Worker \ {w} : handler'[v] = handler[v]
    BY <1>0, <1>11 DEF ReadNumber, HandlerRec
  <2>2. QED
    <3>1. handler[w].at = "number" /\ UNCHANGED <<lock, invoices>>
      BY <1>11 DEF ReadNumber
    <3>2. LockInv'
      BY <2>1, <3>1 DEF LedgerInv, LockInv
    <3>3. NewInv' /\ OneInvoicePerPayment'
      BY <2>1, <3>1 DEF LedgerInv, NewInv, OneInvoicePerPayment, Invoiced
    <3>4. QED
      BY <1>1, <3>2, <3>3 DEF LedgerInv
<1>12. ASSUME NEW w \in Worker, InsertInvoice(w) PROVE LedgerInv'
  <2> DEFINE pay == handler[w].event.pay
  <2>1. invoices \in Seq(Payment) /\ ~Invoiced(pay) /\ (invoices' = invoices \/ invoices' = Append(invoices, pay))
    BY <1>12 DEF InsertInvoice, LedgerInv, NewInv, TypeInv, TypeOK
  <2>2. handler' = [handler EXCEPT ![w] = NotServing] /\ Unlock(w)
    BY <1>12 DEF InsertInvoice, Answer, AnswerAs
  <2>3. \A v \in Worker \ {w} : handler[v].at \in {"number", "insert"} => handler[v].event.pay # pay
    BY <1>12, OneAtATime DEF InsertInvoice
  <2>4. \A p : Invoiced(p)' => Invoiced(p) \/ p = pay
    BY <2>1 DEF Invoiced
  <2>5. OneInvoicePerPayment'
    BY <2>1 DEF OneInvoicePerPayment, LedgerInv, Invoiced
  <2> HIDE DEF pay
  <2>6. NewInv'
    BY <1>0, <2>2, <2>3, <2>4 DEF NewInv, LedgerInv, NotServing
  <2>7. QED
    BY <1>1, <2>2, <2>5, <2>6, Releases DEF LedgerInv
<1>13. ASSUME NEW w \in Worker, HandlerFails(w) \/ Crash(w) PROVE LedgerInv'
  <2>1. handler' = [handler EXCEPT ![w] = NotServing] /\ Unlock(w) /\ UNCHANGED invoices
    BY <1>13 DEF HandlerFails, AnswerAs, Crash
  <2>2. NewInv' /\ OneInvoicePerPayment'
    BY <1>0, <2>1 DEF NotServing, LedgerInv, NewInv, OneInvoicePerPayment, Invoiced
  <2>3. QED
    BY <1>1, <2>1, <2>2, Releases DEF LedgerInv
<1>14. ASSUME UNCHANGED <<lock, invoices, handler>> PROVE LedgerInv'
  BY <1>1, <1>14, BeforeTheLock
<1>15. ASSUME NEW a \in Admin, NEW s \in Sub, Decide(a, s) \/ Settle(a, s) PROVE UNCHANGED <<lock, invoices, handler>>
  BY <1>15 DEF Decide, Suspend, Activate, SetTrial, SaveForm, Settle, SyncSubscription, BlockFromForm, ReopenFromForm
<1>16. ASSUME Sweep \/ \E s \in Sub : TrialPasses(s) PROVE UNCHANGED <<lock, invoices, handler>>
  BY <1>16 DEF Sweep, SweepReads, SweepSuspends, SweepSyncs, TrialPasses
<1>17. QED
  BY <1>2, <1>3, <1>4, <1>5, <1>6, <1>7, <1>8, <1>9, <1>10, <1>11, <1>12, <1>13, <1>14, <1>15, <1>16, <1>18
     DEF Next, Serve, Fail, vars

LEMMA LedgerInvariant == Spec => []LedgerInv
<1>1. TypeInv /\ Init => LedgerInv
  <2> SUFFICES ASSUME TypeInv, Init PROVE LedgerInv
    OBVIOUS
  <2>1. \A w \in Worker : handler[w].at = "idle"
    BY DEF Init, NotServing
  <2>2. DOMAIN invoices = {}
    <3>1. invoices \in Seq(Payment) /\ Len(invoices) = 0
      BY EmptySeq DEF Init, TypeInv, TypeOK
    <3>2. DOMAIN invoices = 1 .. Len(invoices)
      BY <3>1
    <3>3. QED
      BY <3>1, <3>2
  <2>3. QED
    BY <2>1, <2>2 DEF LedgerInv, LockInv, NewInv, OneInvoicePerPayment
<1>2. QED
  BY <1>1, LedgerStep, InitialTypes, PTL DEF Spec

\* However often a charge is delivered, by however many workers, its payment
\* has at most one invoice.
THEOREM PaymentsInvoicedOnce == Spec => []OneInvoicePerPayment
BY LedgerInvariant, PTL DEF LedgerInv

-----------------------------------------------------------------------------
(* One subscription.  Every charge then waits for the same lock, so the     *)
(* number a worker has read is still free when it inserts.                  *)

NumberInv == \A w \in Worker : handler[w].at = "insert" => handler[w].number = Len(invoices) + 1

LostNothing == LedgerInv /\ NumberInv /\ AnsweredMeansInvoiced /\ answered["clash"] = {}

OneCharged == \A e, f \in Event : e.kind = "charged" /\ f.kind = "charged" => e.sub = f.sub

\* A step that returns from nothing but a cancellation or a halt, changes no
\* invoice and takes no worker to the insert loses nothing.
LEMMA AwayFromTheInsert ==
    ASSUME LostNothing, LedgerInv', UNCHANGED invoices,
           answered'["clash"] = answered["clash"],
           \A e \in answered'["ok"] \ answered["ok"] : e.kind # "charged",
           \A w \in Worker : handler'[w] = handler[w] \/ handler'[w].at # "insert"
    PROVE  LostNothing'
BY DEF LostNothing, NumberInv, AnsweredMeansInvoiced, Invoiced

LEMMA LostNothingStep ==
    ASSUME OneCharged, LostNothing, [Next]_vars
    PROVE  LostNothing'
<1> USE DEF tenantVars, observers
<1>0. /\ TypeInv /\ LedgerInv /\ handler \in [Worker -> HandlerRec] /\ invoices \in Seq(Payment)
      /\ answered \in [Outcome -> SUBSET Event]
  BY DEF LostNothing, LedgerInv, TypeInv, TypeOK
<1>1. LedgerInv'
  BY <1>0, LedgerStep
<1>2. ASSUME NEW w \in Worker, NEW step \in Step \ {"insert"}, Goto(w, step), UNCHANGED <<invoices, answered>>
      PROVE  LostNothing'
  BY <1>0, <1>1, <1>2, AwayFromTheInsert DEF Goto, HandlerRec
<1>3. ASSUME NEW w \in Worker, NEW e \in Event, Deliver(w, e) PROVE LostNothing'
  BY <1>0, <1>1, <1>3, AwayFromTheInsert DEF Deliver, NotServing
<1>4. ASSUME NEW w \in Worker, NEW s \in Sub,
             \/ SaveSubscription(w, s) \/ HaltTenant(w, s)
             \/ ReopenTenant(w, s) \/ LockSubscription(w, s) PROVE LostNothing'
  BY <1>2, <1>4 DEF SaveSubscription, HaltTenant, ReopenTenant, LockSubscription, Step
<1>5. ASSUME NEW w \in Worker, NEW s \in Sub, LoadTenant(w, s) PROVE LostNothing'
  BY <1>0, <1>1, <1>5, AwayFromTheInsert DEF LoadTenant, HandlerRec
<1>6. ASSUME NEW w \in Worker, NEW s \in Sub, SyncTenant(w, s) \/ SyncFails(w, s) PROVE LostNothing'
  BY <1>2, <1>6 DEF SyncTenant, SyncFails, AfterSync, Step
<1>7. ASSUME NEW w \in Worker, RefreshCaches(w) PROVE LostNothing'
  <2>1. CASE Charge(w)
    BY <1>2, <1>7, <2>1 DEF RefreshCaches, Step
  <2>2. CASE ~Charge(w)
    <3>1. UNCHANGED invoices /\ AnswerAs(w, "ok")
      BY <1>7, <2>2 DEF RefreshCaches, Answer
    <3>2. /\ answered'["clash"] = answered["clash"]
          /\ \A e \in answered'["ok"] \ answered["ok"] : e.kind # "charged"
      BY <1>0, <2>2, <3>1 DEF AnswerAs, Charge, Outcome
    <3>3. \A v \in Worker : handler'[v] = handler[v] \/ handler'[v].at # "insert"
      BY <1>0, <3>1 DEF AnswerAs, NotServing
    <3>4. QED
      BY <1>0, <1>1, <3>1, <3>2, <3>3, AwayFromTheInsert
  <2>3. QED
    BY <2>1, <2>2
<1>8. ASSUME NEW w \in Worker, AlreadyInvoiced(w) PROVE LostNothing'
  <2>1. UNCHANGED invoices /\ AnswerAs(w, "ok") /\ Invoiced(handler[w].event.pay)
    BY <1>8 DEF AlreadyInvoiced, Answer
  <2>2. answered'["clash"] = answered["clash"] /\ answered'["ok"] = answered["ok"] \cup {handler[w].event}
    BY <1>0, <2>1 DEF AnswerAs, Outcome
  <2>3. NumberInv'
    BY <1>0, <2>1 DEF AnswerAs, NotServing, LostNothing, NumberInv
  <2>4. QED
    BY <1>1, <2>1, <2>2, <2>3 DEF LostNothing, AnsweredMeansInvoiced, Invoiced
<1>9. ASSUME NEW w \in Worker, NotYetInvoiced(w) PROVE LostNothing'
  BY <1>2, <1>9 DEF NotYetInvoiced, Step
<1>10. ASSUME NEW w \in Worker, ReadNumber(w) PROVE LostNothing'
  <2>1. /\ handler'[w].number = Len(invoices) + 1
        /\ \A v \in Worker \ {w} : handler'[v] = handler[v]
    BY <1>0, <1>10 DEF ReadNumber, HandlerRec
  <2>2. UNCHANGED <<invoices, answered>>
    BY <1>10 DEF ReadNumber
  <2>3. QED
    BY <1>1, <2>1, <2>2 DEF LostNothing, NumberInv, AnsweredMeansInvoiced, Invoiced
<1>11. ASSUME NEW w \in Worker, InsertInvoice(w) PROVE LostNothing'
  <2> DEFINE pay == handler[w].event.pay
  <2>1. /\ handler[w].event \in Event /\ handler[w].event.kind = "charged"
        /\ pay \in Payment
    BY <1>0, <1>11 DEF InsertInvoice, TypeInv, Serving, Paying
  <2>2. handler[w].number \notin DOMAIN invoices
    BY <1>0, <1>11 DEF InsertInvoice, LostNothing, NumberInv
  <2>3. invoices' = Append(invoices, pay)
    BY <1>11, <2>2 DEF InsertInvoice
  <2>4. AnsweredMeansInvoiced'
    <3>1. answered' = [answered EXCEPT !["ok"] = @ \cup {handler[w].event}]
      BY <1>11, <2>2 DEF InsertInvoice, Answer, AnswerAs
    <3>6. answered'["ok"] = answered["ok"] \cup {handler[w].event} /\ answered'["clash"] = answered["clash"]
      BY <1>0, <3>1 DEF Outcome
    <3>2. DOMAIN invoices = 1 .. Len(invoices) /\ DOMAIN invoices' = 1 .. Len(invoices) + 1
      BY <1>0, <2>1, <2>3
    <3> SUFFICES ASSUME NEW e \in answered'["ok"] \cup answered'["clash"], e.kind = "charged"
                 PROVE  \E n \in DOMAIN invoices' : invoices'[n] = e.pay
      BY DEF AnsweredMeansInvoiced, Invoiced
    <3>3. CASE e = handler[w].event
      <4>1. invoices'[Len(invoices) + 1] = e.pay
        BY <1>0, <2>1, <2>3, <3>3
      <4>2. Len(invoices) + 1 \in DOMAIN invoices'
        BY <1>0, <3>2
      <4>3. QED
        BY <4>1, <4>2
    <3>4. CASE e \in answered["ok"] \cup answered["clash"]
      <4>1. PICK n \in DOMAIN invoices : invoices[n] = e.pay
        BY <3>4 DEF LostNothing, AnsweredMeansInvoiced, Invoiced
      <4>2. n \in 1 .. Len(invoices) /\ Len(invoices) \in Nat
        BY <1>0, <3>2
      <4>3. n \in DOMAIN invoices' /\ invoices'[n] = invoices[n]
        BY <1>0, <2>1, <2>3, <3>2, <4>2
      <4>4. QED
        BY <4>1, <4>3
    <3>5. QED
      BY <3>3, <3>4, <3>6
  <2>5. \A v \in Worker \ {w} : handler[v].at # "insert"
    <3> SUFFICES ASSUME NEW v \in Worker \ {w}, handler[v].at = "insert" PROVE FALSE
      OBVIOUS
    <3>1. handler[v].event \in Event /\ handler[v].event.kind = "charged"
      BY <1>0 DEF TypeInv, Serving, Paying
    <3>2. handler[v].event.sub = handler[w].event.sub
      BY <2>1, <3>1 DEF OneCharged
    <3>3. handler[w].at = "insert"
      BY <1>11 DEF InsertInvoice
    <3>4. QED
      BY <1>0, <3>2, <3>3, OneAtATime
  <2>6. NumberInv'
    <3>1. handler' = [handler EXCEPT ![w] = NotServing]
      BY <1>11 DEF InsertInvoice, Answer, AnswerAs
    <3>2. handler'[w].at = "idle" /\ \A v \in Worker \ {w} : handler'[v] = handler[v]
      BY <1>0, <3>1 DEF NotServing
    <3>3. QED
      BY <2>5, <3>2 DEF NumberInv
  <2>7. answered'["clash"] = {}
    BY <1>0, <1>11, <2>2 DEF InsertInvoice, Answer, AnswerAs, Outcome, LostNothing
  <2>8. QED
    BY <1>1, <2>4, <2>6, <2>7 DEF LostNothing
<1>12. ASSUME NEW w \in Worker, HandlerFails(w) \/ Crash(w) PROVE LostNothing'
  <2>1. UNCHANGED invoices /\ handler' = [handler EXCEPT ![w] = NotServing]
    BY <1>12 DEF HandlerFails, AnswerAs, Crash
  <2>2. answered'["ok"] = answered["ok"] /\ answered'["clash"] = answered["clash"]
    BY <1>0, <1>12 DEF HandlerFails, AnswerAs, Crash, Outcome
  <2>3. QED
    BY <1>0, <1>1, <2>1, <2>2, AwayFromTheInsert DEF NotServing
<1>13. ASSUME UNCHANGED <<invoices, handler, answered>> PROVE LostNothing'
  BY <1>1, <1>13, AwayFromTheInsert
<1>14. ASSUME NEW a \in Admin, NEW s \in Sub, Decide(a, s) \/ Settle(a, s) PROVE UNCHANGED <<invoices, handler, answered>>
  BY <1>14 DEF Decide, Suspend, Activate, SetTrial, SaveForm, Settle, SyncSubscription, BlockFromForm, ReopenFromForm
<1>15. ASSUME Sweep \/ \E s \in Sub : TrialPasses(s) PROVE UNCHANGED <<invoices, handler, answered>>
  BY <1>15 DEF Sweep, SweepReads, SweepSuspends, SweepSyncs, TrialPasses
<1>16. QED
  BY <1>3, <1>4, <1>5, <1>6, <1>7, <1>8, <1>9, <1>10, <1>11, <1>12, <1>13, <1>14, <1>15
     DEF Next, Serve, Fail, vars

\* As long as only one subscription is charged, no INSERT of an invoice is ever
\* refused, and an answered charge without its invoice is one whose handler
\* raised something else (webhooks.py:72-81), however many workers and
\* deliveries there are.
THEOREM OneSubscriptionLosesNothing ==
    ASSUME \A e, f \in Event : e.kind = "charged" /\ f.kind = "charged" => e.sub = f.sub
    PROVE  Spec => [](AnsweredMeansInvoiced /\ answered["clash"] = {})
<1>1. OneCharged
  BY DEF OneCharged
<1>2. LedgerInv /\ Init => LostNothing
  <2> SUFFICES ASSUME LedgerInv, Init PROVE LostNothing
    OBVIOUS
  <2>1. \A w \in Worker : handler[w].at = "idle"
    BY DEF Init, NotServing
  <2>2. answered["ok"] = {} /\ answered["clash"] = {}
    BY DEF Init, Outcome
  <2>3. QED
    BY <2>1, <2>2 DEF LostNothing, NumberInv, AnsweredMeansInvoiced
<1>3. LostNothing /\ [Next]_vars => LostNothing'
  BY <1>1, LostNothingStep
<1>4. LostNothing => AnsweredMeansInvoiced /\ answered["clash"] = {}
  BY DEF LostNothing
<1>5. QED
  BY <1>2, <1>3, <1>4, LedgerInvariant, PTL DEF Spec

-----------------------------------------------------------------------------
(* Access.  A tenant that no two operations have ever worked on together    *)
(* has at most one at work on it now, so what that one has read is still    *)
(* true, and what it leaves behind is decided by how far it has come.       *)

Serves(w, s) == handler[w].at # "idle" /\ handler[w].event.sub = s
Works(a, s) == job[a].at # "idle" /\ job[a].sub = s
Sweeps(s) == s \in sweep.due \/ s = sweep.syncing

\* One operation at a time.
Alone(s) ==
    /\ \A v, w \in Worker : Serves(v, s) /\ Serves(w, s) => v = w
    /\ \A a, b \in Admin : Works(a, s) /\ Works(b, s) => a = b
    /\ \A w \in Worker, a \in Admin : ~(Serves(w, s) /\ Works(a, s))
    /\ Sweeps(s) => (\A w \in Worker : ~Serves(w, s)) /\ (\A a \in Admin : ~Works(a, s))
    /\ s \in sweep.due => s # sweep.syncing

\* The webhook's copy of the tenant is not stale, its status has reached the
\* two rows it has saved, and a charge past them has opened the tenant; after
\* a cancellation or a halt no tenant is usable, unless the signal failed.
Opened(w) == handler[w].at \in Paying \/ (handler[w].at = "refresh" /\ Charge(w))
Closed(w) == handler[w].at = "refresh" /\ ~Charge(w)

Current(w, s) ==
    /\ handler[w].at = "sync" => handler[w].copy = tenant[s]
    /\ handler[w].at = "tenant" =>
          handler[w].copy.active = tenant[s].active /\ handler[w].copy.kind = tenant[s].kind
    /\ Opened(w) => s \in held \/ (tenant[s].active /\ tenant[s].status = "active")
    /\ Closed(w) => ~Faultless \/ tenant[s].status \notin Usable
    /\ handler[w].at # "save" => sub[s] = StatusOf(handler[w].event.kind)

\* What a super admin's request has left to do will close the tenant, or take
\* its subscription to a usable status.
Remaining(a, s) ==
    /\ job[a].at = "block" =>
          /\ job[a].form = tenant[s] /\ Blocked(tenant[s])
          /\ s \in held <=> tenant[s].kind # "billing"
    /\ job[a].at = "reopen" => s \notin held /\ job[a].to \in Usable
    /\ job[a].at = "sync" => job[a].to \in Usable \/ ~tenant[s].active

\* The sweep takes no tenant that the super admin has closed, and closes a
\* tenant before its subscription.
Swept(s) ==
    /\ s \in sweep.due => s \notin held
    /\ s = sweep.syncing => ~tenant[s].active

\* The super admin's mark is on the tenants he has closed and on no other; the
\* form's tenants get it with the form's second save.
Marked(s) ==
    /\ s \in held => \/ ~tenant[s].active /\ tenant[s].kind = "admin"
                     \/ \E a \in Admin : Works(a, s) /\ job[a].at = "block"
    /\ ~tenant[s].active /\ tenant[s].kind = "admin" => s \in held

UsableTenant(s) == tenant[s].active /\ tenant[s].status \in Usable

\* A tenant at rest that may be used has its plan's features.
Featured(s) ==
    Faultless /\ ~InFlight(s) /\ UsableTenant(s) => sub[s] \in Usable

Access(s) ==
    /\ Alone(s)
    /\ \A w \in Worker : Serves(w, s) => Current(w, s)
    /\ \A a \in Admin : Works(a, s) => Remaining(a, s)
    /\ Swept(s) /\ Marked(s) /\ Featured(s)

AccessInv == TypeInv /\ \A s \in Sub \ raced : Access(s)

LEMMA InFlightMeans ==
    ASSUME NEW s
    PROVE  InFlight(s) <=> \/ \E w \in Worker : Serves(w, s)
                           \/ \E a \in Admin : Works(a, s)
                           \/ Sweeps(s)
BY DEF InFlight, Serves, Works, Sweeps

\* A step that has nothing to do with a tenant.
LEMMA Elsewhere ==
    ASSUME NEW s \in Sub, Access(s),
           UNCHANGED <<tenant[s], sub[s]>>, s \in held' <=> s \in held,
           \A w \in Worker : Serves(w, s) \/ Serves(w, s)' => handler'[w] = handler[w],
           \A a \in Admin : Works(a, s) \/ Works(a, s)' => job'[a] = job[a],
           s \in sweep'.due <=> s \in sweep.due,
           s = sweep'.syncing <=> s = sweep.syncing,
           Faultless' => Faultless
    PROVE  Access(s)'
<1>1. \A w \in Worker : Serves(w, s)' <=> Serves(w, s)
  BY DEF Serves
<1>2. \A a \in Admin : Works(a, s)' <=> Works(a, s)
  BY DEF Works
<1>3. Sweeps(s)' <=> Sweeps(s)
  BY DEF Sweeps
<1>4. Alone(s)'
  BY <1>1, <1>2, <1>3 DEF Alone, Access
<1>5. \A w \in Worker : Serves(w, s)' => Current(w, s)'
  BY <1>1 DEF Access, Current, Opened, Closed, Charge
<1>6. \A a \in Admin : Works(a, s)' => Remaining(a, s)'
  BY <1>2 DEF Access, Remaining, Blocked
<1>7. Swept(s)' /\ Marked(s)'
  BY <1>2 DEF Access, Swept, Marked
<1>8. Featured(s)'
  <2>1. InFlight(s)' <=> InFlight(s)
    BY <1>1, <1>2, <1>3 DEF InFlight, Serves, Works, Sweeps
  <2>2. QED
    BY <2>1 DEF Access, Featured, UsableTenant
<1>9. QED
  BY <1>4, <1>5, <1>6, <1>7, <1>8 DEF Access

\* A step of the one webhook at work on a tenant.
LEMMA WebhookStep ==
    ASSUME NEW s \in Sub, Access(s), NEW w \in Worker, Serves(w, s),
           \A v \in Worker \ {w} : handler'[v] = handler[v],
           UNCHANGED <<job, sweep, held>>,
           Serves(w, s)' => Current(w, s)',
           s \in held <=> ~tenant'[s].active /\ tenant'[s].kind = "admin",
           ~Serves(w, s)' => Featured(s)'
    PROVE  Access(s)'
<1>1. /\ \A v \in Worker \ {w} : ~Serves(v, s)
      /\ \A a \in Admin : ~Works(a, s)
      /\ ~Sweeps(s)
  BY DEF Access, Alone
<1>2. /\ \A v \in Worker \ {w} : ~Serves(v, s)'
      /\ \A a \in Admin : ~Works(a, s)'
      /\ ~Sweeps(s)'
  BY <1>1 DEF Serves, Works, Sweeps
<1>3. Alone(s)'
  BY <1>2 DEF Alone, Sweeps
<1>4. Swept(s)' /\ Marked(s)'
  BY <1>2 DEF Swept, Marked, Sweeps
<1>5. Serves(w, s)' => Featured(s)'
  BY DEF Featured, InFlight, Serves
<1>6. QED
  BY <1>2, <1>3, <1>4, <1>5 DEF Access

\* A tenant with a webhook at work bears the mark if and only if it is held.
LEMMA MarkedMeansHeld ==
    ASSUME NEW s \in Sub, Access(s), NEW w \in Worker, Serves(w, s)
    PROVE  s \in held <=> ~tenant[s].active /\ tenant[s].kind = "admin"
BY DEF Access, Alone, Marked

\* A step of the one super admin's request at work on a tenant.
LEMMA RequestStep ==
    ASSUME NEW s \in Sub, Access(s), NEW a \in Admin, Works(a, s),
           \A b \in Admin \ {a} : job'[b] = job[b],
           UNCHANGED <<handler, sweep, held>>,
           Works(a, s)' => job'[a].at = "sync" /\ Remaining(a, s)',
           s \in held <=> ~tenant'[s].active /\ tenant'[s].kind = "admin",
           ~Works(a, s)' => Featured(s)'
    PROVE  Access(s)'
<1>1. /\ \A b \in Admin \ {a} : ~Works(b, s)
      /\ \A w \in Worker : ~Serves(w, s)
      /\ ~Sweeps(s)
  BY DEF Access, Alone
<1>2. /\ \A b \in Admin \ {a} : ~Works(b, s)'
      /\ \A w \in Worker : ~Serves(w, s)'
      /\ ~Sweeps(s)'
  BY <1>1 DEF Serves, Works, Sweeps
<1>3. Alone(s)'
  BY <1>2 DEF Alone, Sweeps
<1>4. Swept(s)' /\ Marked(s)'
  BY <1>2 DEF Swept, Marked, Sweeps
<1>5. Works(a, s)' => Featured(s)'
  BY DEF Featured, InFlight, Works
<1>6. QED
  BY <1>2, <1>3, <1>4, <1>5 DEF Access

\* A super admin's request starts on a tenant at rest.
LEMMA RequestStarts ==
    ASSUME NEW s \in Sub, ~InFlight(s), NEW a \in Admin,
           \A b \in Admin \ {a} : job'[b] = job[b],
           UNCHANGED <<handler, sweep>>,
           Works(a, s)' => Remaining(a, s)',
           Marked(s)',
           ~Works(a, s)' => Featured(s)'
    PROVE  Access(s)'
<1>1. /\ \A b \in Admin \ {a} : ~Works(b, s)'
      /\ \A w \in Worker : ~Serves(w, s)'
      /\ ~Sweeps(s)'
  BY InFlightMeans DEF Serves, Works, Sweeps
<1>2. Alone(s)' /\ Swept(s)'
  BY <1>1 DEF Alone, Swept, Sweeps
<1>3. Works(a, s)' => Featured(s)'
  BY DEF Featured, InFlight, Works
<1>4. QED
  BY <1>1, <1>2, <1>3 DEF Access

\* The kinds of suspension, the blank records and the row of a tenant that
\* was let in, by what the proofs need to know of them.
Kinds == {"", "billing", "admin"}
OpenRow == [status |-> "active", active |-> TRUE, kind |-> ""]

LEMMA RowFields == TenantRow = [status : Status, active : BOOLEAN, kind : Kinds]
BY DEF TenantRow, Kinds

LEMMA BlankRecords == NotServing.at = "idle" /\ NoJob.at = "idle"
BY DEF NotServing, NoJob

LEMMA OpenRowFields == OpenRow.status = "active" /\ OpenRow.active = TRUE /\ OpenRow.kind # "admin"
BY DEF OpenRow

\* Every step of a webhook.
LEMMA WebhookKeepsAccess ==
    ASSUME AccessInv, NEW w \in Worker, Serve(w) \/ Fail(w)
    PROVE  \A s \in Sub \ raced' : Access(s)'
<1> USE DEF tenantVars, observers
<1>0. raced' = raced /\ UNCHANGED <<job, sweep, held>>
  <2>1. CASE Fail(w)
    BY <2>1 DEF Fail, HandlerFails, Crash, SyncFails
  <2>2. ASSUME NEW s \in Sub,
               \/ SaveSubscription(w, s) \/ LoadTenant(w, s) \/ SyncTenant(w, s)
               \/ HaltTenant(w, s) \/ ReopenTenant(w, s) \/ LockSubscription(w, s)
        PROVE  raced' = raced /\ UNCHANGED <<job, sweep, held>>
    BY <2>2 DEF SaveSubscription, LoadTenant, SyncTenant, HaltTenant, ReopenTenant, LockSubscription
  <2>3. CASE RefreshCaches(w) \/ AlreadyInvoiced(w) \/ NotYetInvoiced(w) \/ ReadNumber(w) \/ InsertInvoice(w)
    BY <2>3 DEF RefreshCaches, AlreadyInvoiced, NotYetInvoiced, ReadNumber, InsertInvoice
  <2>4. QED
    BY <2>1, <2>2, <2>3 DEF Serve
<1>1. PICK t \in Sub : Serves(w, t)
  <2>1. handler[w].at # "idle"
    <3>1. ASSUME NEW s \in Sub,
                 \/ SaveSubscription(w, s) \/ LoadTenant(w, s) \/ SyncTenant(w, s) \/ SyncFails(w, s)
                 \/ HaltTenant(w, s) \/ ReopenTenant(w, s) \/ LockSubscription(w, s)
          PROVE  handler[w].at # "idle"
      BY <3>1 DEF SaveSubscription, LoadTenant, SyncTenant, SyncFails, HaltTenant, ReopenTenant, LockSubscription, At
    <3>2. ASSUME \/ RefreshCaches(w) \/ AlreadyInvoiced(w) \/ NotYetInvoiced(w)
                 \/ ReadNumber(w) \/ InsertInvoice(w) \/ HandlerFails(w) \/ Crash(w)
          PROVE  handler[w].at # "idle"
      BY <3>2 DEF RefreshCaches, AlreadyInvoiced, NotYetInvoiced, ReadNumber, InsertInvoice, HandlerFails, Crash
    <3>3. QED
      BY <3>1, <3>2 DEF Serve, Fail
  <2>2. handler[w].event \in Event
    BY <2>1 DEF AccessInv, TypeInv, Serving
  <2>3. handler[w].event.sub \in Sub
    BY <2>2, EventTypes
  <2>4. QED
    BY <2>1, <2>3 DEF Serves
<1>2. /\ handler \in [Worker -> HandlerRec] /\ tenant \in [Sub -> TenantRow]
      /\ sub \in [Sub -> Status] /\ spent \in [Bound -> Nat]
      /\ handler[w].at # "idle" /\ handler[w].event.sub = t
  BY <1>1 DEF AccessInv, TypeInv, TypeOK, Serves
<1>3. t \notin raced =>
        /\ Access(t) /\ Current(w, t)
        /\ t \in held <=> ~tenant[t].active /\ tenant[t].kind = "admin"
  <2>1. t \notin raced => Access(t)
    BY DEF AccessInv
  <2>2. t \notin raced => Current(w, t)
    BY <1>1, <2>1 DEF Access
  <2>3. QED
    BY <1>1, <2>1, <2>2, MarkedMeansHeld
\* What the step is to keep: the other tenants and webhooks are left alone, and
\* its own tenant is left as its next step, or the end of its work, asks.
<1> DEFINE status == StatusOf(handler[w].event.kind)
           Apart == /\ \A v \in Worker \ {w} : handler'[v] = handler[v]
                    /\ handler'[w].at # "idle" => handler'[w].event = handler[w].event
                    /\ \A s \in Sub \ {t} : UNCHANGED <<tenant[s], sub[s]>>
                    /\ Faultless' => Faultless
           Kept == /\ Serves(w, t)' => Current(w, t)'
                   /\ t \in held <=> ~tenant'[t].active /\ tenant'[t].kind = "admin"
                   /\ ~Serves(w, t)' => Featured(t)'
           Good == Apart /\ (t \notin raced => Kept)
<1>4. ASSUME Good PROVE \A s \in Sub \ raced' : Access(s)'
  <2>1. t \notin raced => Access(t)'
    <3> SUFFICES ASSUME t \notin raced PROVE Access(t)'
      OBVIOUS
    <3>1. Access(t) /\ Kept /\ Apart
      BY <1>3, <1>4
    <3>2. Serves(w, t) /\ Access(t)
      BY <1>1, <3>1
    <3>3. \A v \in Worker \ {w} : handler'[v] = handler[v]
      BY <3>1
    <3> HIDE DEF Apart
    <3>4. Serves(w, t)' => Current(w, t)'
      BY <3>1
    <3>5. t \in held <=> ~tenant'[t].active /\ tenant'[t].kind = "admin"
      BY <3>1
    <3>6. ~Serves(w, t)' => Featured(t)'
      BY <3>1
    <3> HIDE DEF Kept
    <3>7. QED
      BY <1>0, <3>2, <3>3, <3>4, <3>5, <3>6, WebhookStep
  <2>2. ASSUME NEW s \in Sub \ {t}, s \notin raced PROVE Access(s)'
    <3>1. Apart
      BY <1>4
    <3> HIDE DEF Kept
    <3>2. ~Serves(w, s)
      BY <1>1, <2>2 DEF Serves
    <3>3. ~Serves(w, s)'
      BY <1>1, <2>2, <3>1 DEF Serves
    <3>4. \A v \in Worker : Serves(v, s) \/ Serves(v, s)' => handler'[v] = handler[v]
      BY <3>1, <3>2, <3>3
    <3>5. UNCHANGED <<tenant[s], sub[s]>> /\ (Faultless' => Faultless)
      BY <2>2, <3>1
    <3>6. Access(s)
      BY <2>2 DEF AccessInv
    <3> HIDE DEF Apart
    <3>7. QED
      BY <1>0, <3>4, <3>5, <3>6, Elsewhere
  <2> HIDE DEF Good
  <2>3. QED
    BY <1>0, <2>1, <2>2
\* A step that changes no row.
<1>5. ASSUME UNCHANGED <<tenant, sub, spent>>, handler'[w].event = handler[w].event,
             \A v \in Worker \ {w} : handler'[v] = handler[v],
             handler'[w].at # "idle",
             t \notin raced => Current(w, t)'
      PROVE  Good
  <2>1. Serves(w, t)'
    BY <1>2, <1>5 DEF Serves
  <2>2. t \notin raced => Kept
    BY <1>3, <1>5, <2>1
  <2> HIDE DEF Kept
  <2>3. Apart
    BY <1>5 DEF Faultless
  <2>4. QED
    BY <2>2, <2>3
<1> HIDE DEF Good
\* A step that ends the webhook.
<1>6. ASSUME handler' = [handler EXCEPT ![w] = NotServing],
             \A s \in Sub \ {t} : UNCHANGED <<tenant[s], sub[s]>>,
             Faultless' => Faultless,
             tenant'[t].active = tenant[t].active, tenant'[t].kind = tenant[t].kind,
             t \notin raced => Featured(t)'
      PROVE  Good
  <2>1. handler'[w].at = "idle" /\ \A v \in Worker \ {w} : handler'[v] = handler[v]
    BY <1>2, <1>6, BlankRecords
  <2>2. ~Serves(w, t)'
    BY <2>1 DEF Serves
  <2>3. t \notin raced => Kept
    BY <1>3, <1>6, <2>2
  <2> HIDE DEF Kept
  <2>4. Apart
    BY <1>6, <2>1
  <2>5. QED
    BY <2>3, <2>4 DEF Good
<1> HIDE DEF Kept
<1>7. ASSUME NEW s \in Sub, SaveSubscription(w, s) PROVE Good
  <2>1. s = t /\ sub' = [sub EXCEPT ![t] = status] /\ UNCHANGED <<tenant, spent>>
    BY <1>2, <1>7 DEF SaveSubscription, At
  <2>2. /\ handler'[w].at = "load" /\ handler'[w].event = handler[w].event
        /\ \A v \in Worker \ {w} : handler'[v] = handler[v]
    BY <1>2, <1>7 DEF SaveSubscription, Goto, HandlerRec
  <2>3. sub'[t] = StatusOf(handler'[w].event.kind) /\ \A r \in Sub \ {t} : sub'[r] = sub[r]
    BY <1>2, <2>1, <2>2
  <2>4. Serves(w, t)'
    BY <1>2, <2>2 DEF Serves
  <2>5. Current(w, t)'
    BY <2>2, <2>3 DEF Current, Opened, Closed, Paying
  <2>6. t \notin raced => Kept
    BY <1>3, <2>1, <2>4, <2>5 DEF Kept
  <2>7. Apart
    BY <2>1, <2>2, <2>3 DEF Faultless
  <2>8. QED
    BY <2>6, <2>7 DEF Good
<1>8. ASSUME NEW s \in Sub, LoadTenant(w, s) PROVE Good
  <2>1. s = t /\ handler[w].at = "load" /\ UNCHANGED <<tenant, sub, spent>>
    BY <1>2, <1>8 DEF LoadTenant, At
  <2>2. /\ handler'[w].at = "sync" /\ handler'[w].event = handler[w].event
        /\ handler'[w].copy = tenant[t]
        /\ \A v \in Worker \ {w} : handler'[v] = handler[v]
    BY <1>2, <1>8, <2>1 DEF LoadTenant, HandlerRec
  <2>3. t \notin raced => Current(w, t)'
    BY <1>3, <2>1, <2>2 DEF Current, Opened, Closed, Paying
  <2>4. QED
    BY <1>5, <2>1, <2>2, <2>3
\* The signal is past, whether the tenant's status followed or not.
<1>9. ASSUME NEW s \in Sub, SyncTenant(w, s) \/ SyncFails(w, s) PROVE Good
  <2> DEFINE row == [tenant[t] EXCEPT !.status = status]
  <2>1. s = t /\ handler[w].at = "sync" /\ UNCHANGED sub /\ Goto(w, AfterSync(w))
    BY <1>2, <1>9 DEF SyncTenant, SyncFails, At
  <2>2. /\ handler'[w].at = AfterSync(w) /\ handler'[w].event = handler[w].event
        /\ handler'[w].copy = handler[w].copy
        /\ \A v \in Worker \ {w} : handler'[v] = handler[v]
    BY <1>2, <2>1 DEF Goto, HandlerRec
  <2>3. \/ UNCHANGED spent /\ tenant' = IF handler[w].copy.status # status THEN [tenant EXCEPT ![t] = row] ELSE tenant
        \/ ~Faultless' /\ UNCHANGED tenant
    <3>1. CASE SyncTenant(w, s)
      BY <1>2, <2>1, <3>1 DEF SyncTenant
    <3>2. CASE SyncFails(w, s)
      <4>1. Spend("error", MaxErrors) /\ UNCHANGED tenant
        BY <3>2 DEF SyncFails
      <4>2. spent'["error"] # 0
        BY <1>2, <4>1 DEF Spend, Bound
      <4>3. QED
        BY <4>1, <4>2 DEF Faultless
    <3>3. QED
      BY <1>9, <3>1, <3>2
  <2>4. row.active = tenant[t].active /\ row.kind = tenant[t].kind /\ row.status = status
    BY <1>2, RowFields
  <2>5. handler[w].copy.status = tenant[t].status /\ tenant[t].status = status => tenant[t] = row
    BY <1>2, RowFields
  <2>6. t \notin raced => handler[w].copy = tenant[t] /\ sub[t] = status
    BY <1>3, <2>1 DEF Current
  <2> HIDE DEF row, status
  <2>7. \A r \in Sub \ {t} : tenant'[r] = tenant[r]
    BY <1>2, <2>3
  <2>8. tenant'[t].active = tenant[t].active /\ tenant'[t].kind = tenant[t].kind
    BY <1>2, <2>3, <2>4
  <2>9. t \notin raced => ~Faultless' \/ tenant'[t] = row
    BY <1>2, <2>3, <2>5, <2>6
  <2>10. Serves(w, t)'
    BY <1>2, <2>2 DEF Serves, AfterSync
  <2>11. t \notin raced => Current(w, t)'
    <3> SUFFICES ASSUME t \notin raced PROVE Current(w, t)'
      OBVIOUS
    <3>1. handler'[w].copy.active = tenant'[t].active /\ handler'[w].copy.kind = tenant'[t].kind
      BY <2>2, <2>6, <2>8
    <3>2. sub'[t] = StatusOf(handler'[w].event.kind)
      BY <2>1, <2>2, <2>6 DEF status
    <3>3. CASE handler[w].event.kind = "cancelled"
      <4>1. handler'[w].at = "refresh" /\ ~Charge(w)'
        BY <2>2, <3>3 DEF AfterSync, Charge
      <4>2. ~Faultless' \/ tenant'[t].status \notin Usable
        BY <2>4, <2>9, <3>3 DEF StatusOf, status, Usable
      <4>3. QED
        BY <3>2, <4>1, <4>2 DEF Current, Opened, Closed, Paying
    <3>4. CASE handler[w].event.kind # "cancelled"
      <4>1. handler'[w].at = "tenant"
        BY <2>2, <3>4 DEF AfterSync
      <4>2. QED
        BY <3>1, <3>2, <4>1 DEF Current, Opened, Closed, Paying
    <3>5. QED
      BY <3>3, <3>4
  <2>12. t \notin raced => Kept
    BY <1>3, <2>8, <2>10, <2>11 DEF Kept
  <2>13. Apart
    BY <2>1, <2>2, <2>3, <2>7 DEF Faultless
  <2>14. QED
    BY <2>12, <2>13 DEF Good
<1>10. ASSUME NEW s \in Sub, HaltTenant(w, s) PROVE Good
  <2> DEFINE row == [tenant[t] EXCEPT !.status = "past_due"]
  <2>1. s = t /\ handler[w].at = "tenant" /\ ~Charge(w) /\ UNCHANGED <<sub, spent>> /\ Goto(w, "refresh")
    BY <1>2, <1>10 DEF HaltTenant, At
  <2>2. tenant' = [tenant EXCEPT ![t] = row]
    BY <1>2, <1>10, <2>1 DEF HaltTenant
  <2>3. row.active = tenant[t].active /\ row.kind = tenant[t].kind /\ row.status = "past_due"
    BY <1>2, RowFields
  <2> HIDE DEF row
  <2>4. tenant'[t] = row /\ \A r \in Sub \ {t} : tenant'[r] = tenant[r]
    BY <1>2, <2>2
  <2>5. /\ handler'[w].at = "refresh" /\ handler'[w].event = handler[w].event
        /\ \A v \in Worker \ {w} : handler'[v] = handler[v]
    BY <1>2, <2>1 DEF Goto, HandlerRec
  <2>6. ~Charge(w)'
    BY <2>1, <2>5 DEF Charge
  <2>7. t \notin raced => Current(w, t)'
    <3>1. t \notin raced => sub'[t] = StatusOf(handler'[w].event.kind)
      BY <1>3, <2>1, <2>5 DEF Current
    <3>2. tenant'[t].status \notin Usable
      BY <2>3, <2>4 DEF Usable
    <3>3. QED
      BY <2>5, <2>6, <3>1, <3>2 DEF Current, Opened, Closed, Paying
  <2>8. Serves(w, t)'
    BY <1>2, <2>5 DEF Serves
  <2>9. t \notin raced => Kept
    BY <1>3, <2>3, <2>4, <2>7, <2>8 DEF Kept
  <2>10. Apart
    BY <2>1, <2>4, <2>5 DEF Faultless
  <2>11. QED
    BY <2>9, <2>10 DEF Good
<1>11. ASSUME NEW s \in Sub, ReopenTenant(w, s) PROVE Good
  <2>1. s = t /\ handler[w].at = "tenant" /\ Charge(w) /\ UNCHANGED <<sub, spent>>
    BY <1>2, <1>11 DEF ReopenTenant, At
  <2>2. tenant' = IF Lifts(handler[w].copy) THEN [tenant EXCEPT ![t] = OpenRow] ELSE tenant
    BY <1>11, <2>1 DEF ReopenTenant, OpenRow
  <2>3. /\ handler'[w].at = "refresh" /\ handler'[w].event = handler[w].event
        /\ \A v \in Worker \ {w} : handler'[v] = handler[v]
    <3>1. Goto(w, "refresh")
      BY <1>11 DEF ReopenTenant
    <3>2. QED
      BY <1>2, <3>1 DEF Goto, HandlerRec
  <2>4. \A r \in Sub \ {t} : tenant'[r] = tenant[r]
    BY <1>2, <2>2
  <2>5. t \notin raced => (Lifts(handler[w].copy) <=> t \notin held)
    BY <1>3, <2>1 DEF Current, Lifts
  <2>6. t \notin raced /\ t \notin held => tenant'[t] = OpenRow
    BY <1>2, <2>2, <2>5
  <2>7. t \notin raced /\ t \in held => tenant'[t] = tenant[t]
    BY <2>2, <2>5
  <2>8. t \notin raced => (t \in held <=> ~tenant'[t].active /\ tenant'[t].kind = "admin")
    BY <1>3, <2>6, <2>7, OpenRowFields
  <2>9. t \notin raced => Current(w, t)'
    <3>1. held' = held
      BY <1>0
    <3>2. t \notin raced => sub'[t] = StatusOf(handler'[w].event.kind)
      BY <1>3, <2>1, <2>3 DEF Current
    <3>3. Charge(w)'
      BY <2>1, <2>3 DEF Charge
    <3>4. QED
      BY <2>3, <2>6, <3>1, <3>2, <3>3, OpenRowFields DEF Current, Closed
  <2>10. Serves(w, t)'
    BY <1>2, <2>3 DEF Serves
  <2>11. t \notin raced => Kept
    BY <2>8, <2>9, <2>10 DEF Kept
  <2>12. Apart
    BY <2>1, <2>3, <2>4 DEF Faultless
  <2>13. QED
    BY <2>11, <2>12 DEF Good
<1>20. ASSUME RefreshCaches(w) PROVE Good
  <2>1. handler[w].at = "refresh" /\ UNCHANGED <<tenant, sub, spent>>
    BY <1>20 DEF RefreshCaches
  <2>2. CASE Charge(w)
    <3>1. Goto(w, "lock")
      BY <1>20, <2>2 DEF RefreshCaches
    <3>2. /\ handler'[w].at = "lock" /\ handler'[w].event = handler[w].event
          /\ \A v \in Worker \ {w} : handler'[v] = handler[v]
      BY <1>2, <3>1 DEF Goto, HandlerRec
    <3>3. t \notin raced => Current(w, t)'
      <4>1. t \notin raced => t \in held \/ (tenant[t].active /\ tenant[t].status = "active")
        BY <1>3, <2>1, <2>2 DEF Current, Opened
      <4>2. t \notin raced => sub[t] = StatusOf(handler[w].event.kind)
        BY <1>3, <2>1 DEF Current
      <4>3. QED
        BY <1>0, <2>1, <3>2, <4>1, <4>2 DEF Current, Closed
    <3>4. QED
      BY <1>5, <2>1, <3>2, <3>3
  <2>3. CASE ~Charge(w)
    <3>1. handler' = [handler EXCEPT ![w] = NotServing]
      BY <1>20, <2>3 DEF RefreshCaches, Answer, AnswerAs
    <3>2. t \notin raced => Featured(t)'
      BY <1>3, <2>1, <2>3 DEF Current, Closed, Featured, Faultless, UsableTenant
    <3>3. QED
      BY <1>6, <2>1, <3>1, <3>2 DEF Faultless
  <2>4. QED
    BY <2>2, <2>3
<1>12. ASSUME NEW step \in {"check", "number", "insert"}, handler[w].at \in Paying,
              handler'[w].at = step, handler'[w].event = handler[w].event,
              \A v \in Worker \ {w} : handler'[v] = handler[v], UNCHANGED <<tenant, sub, spent>>
       PROVE  Good
  <2>1. handler[w].at \notin {"save", "idle"} /\ step \in Paying /\ step \notin {"sync", "tenant", "refresh", "idle"}
    BY <1>12 DEF Paying
  <2>2. t \notin raced => Current(w, t)'
    BY <1>0, <1>3, <1>12, <2>1 DEF Current, Opened, Closed
  <2>3. QED
    BY <1>5, <1>12, <2>1, <2>2
<1>13. ASSUME NEW s \in Sub, LockSubscription(w, s) PROVE Good
  <2>1. handler[w].at \in Paying /\ Goto(w, "check") /\ UNCHANGED <<tenant, sub, spent>>
    BY <1>13 DEF LockSubscription, At, Paying
  <2>2. /\ handler'[w].at = "check" /\ handler'[w].event = handler[w].event
        /\ \A v \in Worker \ {w} : handler'[v] = handler[v]
    BY <1>2, <2>1 DEF Goto, HandlerRec
  <2>3. QED
    BY <1>12, <2>1, <2>2
<1>14. ASSUME NotYetInvoiced(w) PROVE Good
  <2>1. handler[w].at \in Paying /\ Goto(w, "number") /\ UNCHANGED <<tenant, sub, spent>>
    BY <1>14 DEF NotYetInvoiced, Paying
  <2>2. /\ handler'[w].at = "number" /\ handler'[w].event = handler[w].event
        /\ \A v \in Worker \ {w} : handler'[v] = handler[v]
    BY <1>2, <2>1 DEF Goto, HandlerRec
  <2>3. QED
    BY <1>12, <2>1, <2>2
<1>15. ASSUME ReadNumber(w) PROVE Good
  <2>1. /\ handler[w].at \in Paying /\ handler'[w].at = "insert" /\ handler'[w].event = handler[w].event
        /\ \A v \in Worker \ {w} : handler'[v] = handler[v]
    BY <1>2, <1>15 DEF ReadNumber, HandlerRec, Paying
  <2>2. UNCHANGED <<tenant, sub, spent>>
    BY <1>15 DEF ReadNumber
  <2>3. QED
    BY <1>12, <2>1, <2>2
\* The invoice is written, or was there: the subscription is active.
<1>16. ASSUME AlreadyInvoiced(w) \/ InsertInvoice(w) PROVE Good
  <2>1. /\ handler[w].at \in Paying /\ UNCHANGED <<tenant, sub, spent>>
        /\ handler' = [handler EXCEPT ![w] = NotServing]
    BY <1>16 DEF AlreadyInvoiced, InsertInvoice, Answer, AnswerAs, Paying
  <2>2. handler[w].event.kind = "charged" /\ handler[w].at # "save"
    BY <2>1 DEF AccessInv, TypeInv, Serving, Paying
  <2>3. t \notin raced => sub'[t] \in Usable
    BY <1>3, <2>1, <2>2 DEF Current, StatusOf, Usable
  <2>4. t \notin raced => Featured(t)'
    BY <2>3 DEF Featured
  <2>5. QED
    BY <1>6, <2>1, <2>4 DEF Faultless
<1>17. ASSUME HandlerFails(w) \/ Crash(w) PROVE Good
  <2>1. UNCHANGED <<tenant, sub>> /\ handler' = [handler EXCEPT ![w] = NotServing]
    BY <1>17 DEF HandlerFails, AnswerAs, Crash
  <2>2. ~Faultless'
    <3>1. Spend("crash", MaxCrashes) \/ Spend("error", MaxErrors)
      BY <1>17 DEF HandlerFails, Crash
    <3>2. spent'["crash"] # 0 \/ spent'["error"] # 0
      BY <1>2, <3>1 DEF Spend, Bound
    <3>3. QED
      BY <3>2 DEF Faultless
  <2>3. QED
    BY <1>6, <2>1, <2>2 DEF Featured
<1>18. Good
  BY <1>7, <1>8, <1>9, <1>10, <1>11, <1>13, <1>14, <1>15, <1>16, <1>17, <1>20 DEF Serve, Fail
<1>19. QED
  BY <1>4, <1>18

\* A tenant with a request at work that is past the form's second save bears
\* the mark if and only if it is held.
LEMMA MarkedAtRequest ==
    ASSUME NEW s \in Sub, Access(s), NEW a \in Admin, Works(a, s), job[a].at # "block"
    PROVE  s \in held <=> ~tenant[s].active /\ tenant[s].kind = "admin"
BY DEF Access, Alone, Marked

\* The first save of a request leaves every other tenant alone.
LEMMA DecidedElsewhere ==
    ASSUME AccessInv, NEW a \in Admin, NEW t \in Sub, job[a].at = "idle",
           job'[a].sub = t, \A b \in Admin \ {a} : job'[b] = job[b],
           \A s \in Sub \ {t} : UNCHANGED <<tenant[s], sub[s]>> /\ (s \in held' <=> s \in held),
           UNCHANGED <<handler, sweep>>, raced \subseteq raced', Faultless' <=> Faultless
    PROVE  \A s \in Sub \ {t} : s \notin raced' => Access(s)'
<1> SUFFICES ASSUME NEW s \in Sub \ {t}, s \notin raced' PROVE Access(s)'
  OBVIOUS
<1>1. Access(s)
  BY DEF AccessInv
<1>2. \A b \in Admin : Works(b, s) \/ Works(b, s)' => job'[b] = job[b]
  BY DEF Works
<1>3. UNCHANGED <<tenant[s], sub[s]>> /\ (s \in held' <=> s \in held)
  OBVIOUS
<1>4. QED
  BY <1>1, <1>2, <1>3, Elsewhere

LEMMA SpendsApart ==
    ASSUME TypeInv, NEW what \in Bound \ {"crash", "error"}, NEW max, Spend(what, max)
    PROVE  Faultless' <=> Faultless
BY DEF Faultless, Spend, TypeInv, TypeOK, Bound

LEMMA RestsUnraced ==
    ASSUME NEW S, NEW s \in S, Starts(S), s \notin raced'
    PROVE  ~InFlight(s) /\ s \notin raced
BY DEF Starts

\* Suspend, activate and set_trial.
LEMMA DecidesAccess ==
    ASSUME AccessInv, NEW a \in Admin, NEW t \in Sub, NEW row, NEW to \in Status,
           Decides(a, t, row, "sync", to), UNCHANGED <<sub, handler, sweep>>,
           \A s \in Sub \ {t} : s \in held' <=> s \in held,
           t \in held' <=> ~row.active /\ row.kind = "admin",
           to \in Usable \/ ~row.active
    PROVE  \A s \in Sub \ raced' : Access(s)'
<1>1. /\ tenant \in [Sub -> TenantRow] /\ job \in [Admin -> JobRec] /\ TypeInv
  BY DEF AccessInv, TypeInv, TypeOK
<1>2. /\ job[a].at = "idle" /\ tenant' = [tenant EXCEPT ![t] = row] /\ Starts({t})
      /\ Spend("decision", MaxDecisions)
      /\ job' = [job EXCEPT ![a] = [NoJob EXCEPT !.at = "sync", !.sub = t, !.to = to]]
  BY DEF Decides
<1> DEFINE j == [NoJob EXCEPT !.at = "sync", !.sub = t, !.to = to]
<1>3. j.at = "sync" /\ j.sub = t /\ j.to = to
  BY Blank DEF JobRec
<1>4. job' = [job EXCEPT ![a] = j]
  BY <1>2
<1> HIDE DEF j
<1>5. job'[a] = j /\ \A b \in Admin \ {a} : job'[b] = job[b]
  BY <1>1, <1>4
<1>6. tenant'[t] = row /\ \A s \in Sub \ {t} : tenant'[s] = tenant[s]
  BY <1>1, <1>2
<1>7. Faultless' <=> Faultless
  BY <1>1, <1>2, SpendsApart DEF Bound
<1>8. \A s \in Sub \ {t} : s \notin raced' => Access(s)'
  BY <1>2, <1>3, <1>5, <1>6, <1>7, DecidedElsewhere DEF Starts
<1>9. ASSUME t \notin raced' PROVE Access(t)'
  <2>1. ~InFlight(t)
    BY <1>2, <1>9, RestsUnraced
  <2>2. Works(a, t)' /\ Remaining(a, t)'
    BY <1>3, <1>5, <1>6 DEF Works, Remaining
  <2>3. Marked(t)'
    BY <1>6 DEF Marked
  <2>4. QED
    BY <1>5, <2>1, <2>2, <2>3, RequestStarts
<1>10. QED
  BY <1>8, <1>9

\* The tenant form's save.
LEMMA SaveFormAccess ==
    ASSUME AccessInv, NEW a \in Admin, NEW t \in Sub, NEW row \in FormRow, SaveForm(a, t, row)
    PROVE  \A s \in Sub \ raced' : Access(s)'
<1> DEFINE step == IF Blocked(row) THEN "block" ELSE IF Blocked(tenant[t]) THEN "reopen" ELSE "idle"
           to == IF Blocked(row) THEN "suspended" ELSE row.status
           j == [at |-> step, sub |-> t, to |-> to, form |-> row]
<1>1. /\ tenant \in [Sub -> TenantRow] /\ job \in [Admin -> JobRec] /\ TypeInv
  BY DEF AccessInv, TypeInv, TypeOK
<1>2. /\ job[a].at = "idle" /\ Spend("decision", MaxDecisions) /\ Starts({t})
      /\ tenant' = [tenant EXCEPT ![t] = row] /\ job' = [job EXCEPT ![a] = j]
      /\ UNCHANGED <<sub, handler, sweep>>
      /\ held' = IF Blocked(row) /\ row.kind # "billing" THEN held \cup {t} ELSE held \ {t}
  BY DEF SaveForm
<1>3. job'[a] = j /\ \A b \in Admin \ {a} : job'[b] = job[b]
  BY <1>1, <1>2
<1>4. tenant'[t] = row /\ \A s \in Sub \ {t} : tenant'[s] = tenant[s]
  BY <1>1, <1>2
<1>5. /\ t \in held' <=> Blocked(row) /\ row.kind # "billing"
      /\ \A s \in Sub \ {t} : s \in held' <=> s \in held
  BY <1>2
<1>6. Faultless' <=> Faultless
  BY <1>1, <1>2, SpendsApart DEF Bound
<1>7. \A s \in Sub \ {t} : s \notin raced' => Access(s)'
  BY <1>2, <1>3, <1>4, <1>5, <1>6, DecidedElsewhere DEF Starts
<1>8. ASSUME t \notin raced' PROVE Access(t)'
  <2>1. ~InFlight(t) /\ t \notin raced
    BY <1>2, <1>8, RestsUnraced
  <2>2. Access(t)
    BY <2>1 DEF AccessInv
  <2>3. job'[a].at = step /\ job'[a].sub = t /\ job'[a].to = to /\ job'[a].form = row
    BY <1>3
  <2>4. Remaining(a, t)'
    <3>1. step = "block" => Blocked(row)
      OBVIOUS
    <3>2. step = "reopen" => ~Blocked(row) /\ to = row.status
      OBVIOUS
    <3>3. step # "sync"
      OBVIOUS
    <3> HIDE DEF step, to
    <3>4. step = "block" =>
            /\ job'[a].form = tenant'[t] /\ Blocked(tenant'[t])
            /\ t \in held' <=> tenant'[t].kind # "billing"
      BY <1>4, <1>5, <2>3, <3>1
    <3>5. step = "reopen" => t \notin held' /\ job'[a].to \in Usable
      BY <1>5, <2>3, <3>2 DEF Blocked
    <3>6. QED
      BY <2>3, <3>3, <3>4, <3>5 DEF Remaining, Blocked
  <2>5. Marked(t)'
    <3>1. t \in held' => Works(a, t)' /\ job'[a].at = "block"
      BY <1>5, <2>3 DEF Works
    <3>2. ~tenant'[t].active /\ tenant'[t].kind = "admin" => t \in held'
      BY <1>4, <1>5 DEF Blocked
    <3>3. QED
      BY <3>1, <3>2 DEF Marked
  <2>6. ~Works(a, t)' => Featured(t)'
    <3> SUFFICES ASSUME ~Works(a, t)' PROVE Featured(t)'
      OBVIOUS
    <3>1. ~Blocked(tenant[t])
      BY <2>3 DEF Works
    <3>2. Faultless => sub[t] \in Usable
      BY <2>1, <2>2, <3>1 DEF Access, Featured, UsableTenant, Blocked
    <3>3. QED
      BY <1>2, <1>6, <3>2 DEF Featured
  <2>7. QED
    BY <1>2, <1>3, <2>1, <2>4, <2>5, <2>6, RequestStarts
<1>9. QED
  BY <1>7, <1>8

\* The kind of suspension that the form's second save leaves.
KindFromForm(kind) == IF kind = "" THEN "admin" ELSE kind

LEMMA KindsFromForm == \A kind \in Kinds : kind # "billing" <=> KindFromForm(kind) = "admin"
BY DEF Kinds, KindFromForm

LEMMA NoKind == \E kind \in Kinds : kind = "" /\ kind # "admin"
BY DEF Kinds

\* What is left of a request after its first save.
LEMMA SettleAccess ==
    ASSUME AccessInv, NEW a \in Admin, NEW t \in Sub, Settle(a, t)
    PROVE  \A s \in Sub \ raced' : Access(s)'
<1> USE DEF observers
<1>0. /\ raced' = raced /\ UNCHANGED <<handler, sweep, held, spent>>
      /\ job[a].at # "idle" /\ job[a].sub = t
  <2>1. CASE SyncSubscription(a, t)
    BY <2>1 DEF SyncSubscription
  <2>2. CASE BlockFromForm(a, t)
    BY <2>2 DEF BlockFromForm
  <2>3. CASE ReopenFromForm(a, t)
    BY <2>3 DEF ReopenFromForm
  <2>4. QED
    BY <2>1, <2>2, <2>3 DEF Settle
<1>1. /\ tenant \in [Sub -> TenantRow] /\ sub \in [Sub -> Status] /\ job \in [Admin -> JobRec]
      /\ Works(a, t)
  BY <1>0 DEF AccessInv, TypeInv, TypeOK, Works
<1>2. t \notin raced => Access(t) /\ Remaining(a, t)
  BY <1>1 DEF AccessInv, Access
<1> DEFINE Apart == /\ \A b \in Admin \ {a} : job'[b] = job[b]
                    /\ job'[a].at # "idle" => job'[a].sub = t
                    /\ \A s \in Sub \ {t} : UNCHANGED <<tenant[s], sub[s]>>
           Kept == /\ Works(a, t)' => job'[a].at = "sync" /\ Remaining(a, t)'
                   /\ t \in held <=> ~tenant'[t].active /\ tenant'[t].kind = "admin"
                   /\ ~Works(a, t)' => Featured(t)'
           Good == Apart /\ (t \notin raced => Kept)
<1>3. ASSUME Good PROVE \A s \in Sub \ raced' : Access(s)'
  <2>1. t \notin raced => Access(t)'
    <3> SUFFICES ASSUME t \notin raced PROVE Access(t)'
      OBVIOUS
    <3>1. Kept /\ \A b \in Admin \ {a} : job'[b] = job[b]
      BY <1>3
    <3>2. Works(a, t)' => job'[a].at = "sync" /\ Remaining(a, t)'
      BY <3>1
    <3>3. t \in held <=> ~tenant'[t].active /\ tenant'[t].kind = "admin"
      BY <3>1
    <3>4. ~Works(a, t)' => Featured(t)'
      BY <3>1
    <3> HIDE DEF Kept, Apart
    <3>5. QED
      BY <1>0, <1>1, <1>2, <3>1, <3>2, <3>3, <3>4, RequestStep
  <2>2. ASSUME NEW s \in Sub \ {t}, s \notin raced PROVE Access(s)'
    <3>1. Apart /\ ~Works(a, s)
      BY <1>0, <1>3, <2>2 DEF Works
    <3> HIDE DEF Kept
    <3>2. ~Works(a, s)'
      BY <2>2, <3>1 DEF Works
    <3>3. \A b \in Admin : Works(b, s) \/ Works(b, s)' => job'[b] = job[b]
      BY <3>1, <3>2
    <3>4. UNCHANGED <<tenant[s], sub[s]>>
      BY <2>2, <3>1
    <3>5. Access(s)
      BY <2>2 DEF AccessInv
    <3> HIDE DEF Apart
    <3>6. QED
      BY <1>0, <3>3, <3>4, <3>5, Elsewhere DEF Faultless
  <2> HIDE DEF Good
  <2>3. QED
    BY <1>0, <2>1, <2>2
<1> HIDE DEF Good, Kept
<1>4. CASE SyncSubscription(a, t)
  <2>1. /\ job[a].at = "sync" /\ UNCHANGED tenant
        /\ sub' = [sub EXCEPT ![t] = Synced(@, job[a].to)] /\ job' = [job EXCEPT ![a] = NoJob]
    BY <1>4 DEF SyncSubscription
  <2>2. job'[a].at = "idle" /\ \A b \in Admin \ {a} : job'[b] = job[b]
    BY <1>1, <2>1, BlankRecords
  <2>3. sub'[t] = Synced(sub[t], job[a].to) /\ \A s \in Sub \ {t} : sub'[s] = sub[s]
    BY <1>1, <2>1
  <2>4. ~Works(a, t)'
    BY <2>2 DEF Works
  <2>5. t \notin raced => Featured(t)'
    <3>1. job[a].to \in Usable => sub'[t] \in Usable
      BY <2>3 DEF Synced, Usable
    <3>2. t \notin raced => job[a].to \in Usable \/ ~tenant[t].active
      BY <1>2, <2>1 DEF Remaining
    <3>3. QED
      BY <2>1, <3>1, <3>2 DEF Featured, UsableTenant
  <2>6. t \notin raced => (t \in held <=> ~tenant'[t].active /\ tenant'[t].kind = "admin")
    BY <1>1, <1>2, <2>1, MarkedAtRequest
  <2>7. t \notin raced => Kept
    BY <2>4, <2>5, <2>6 DEF Kept
  <2>8. Apart
    BY <2>1, <2>2, <2>3
  <2>9. QED
    BY <1>3, <2>7, <2>8 DEF Good
<1>5. ASSUME job[a].at \in {"block", "reopen"}, job' = [job EXCEPT ![a].at = "sync"], UNCHANGED sub,
             \A s \in Sub \ {t} : tenant'[s] = tenant[s],
             t \notin raced => job[a].to \in Usable \/ ~tenant'[t].active,
             t \notin raced => (t \in held <=> ~tenant'[t].active /\ tenant'[t].kind = "admin")
      PROVE  \A s \in Sub \ raced' : Access(s)'
  <2>1. /\ job'[a].at = "sync" /\ job'[a].sub = t /\ job'[a].to = job[a].to
        /\ \A b \in Admin \ {a} : job'[b] = job[b]
    BY <1>0, <1>1, <1>5 DEF JobRec
  <2>2. Works(a, t)'
    BY <2>1 DEF Works
  <2>3. t \notin raced => Remaining(a, t)'
    BY <1>5, <2>1 DEF Remaining
  <2>4. t \notin raced => Kept
    BY <1>5, <2>1, <2>2, <2>3 DEF Kept
  <2>5. Apart
    BY <1>5, <2>1
  <2>6. QED
    BY <1>3, <2>4, <2>5 DEF Good
<1>6. CASE BlockFromForm(a, t)
  <2> DEFINE form == job[a].form
             active == IF form.active THEN FALSE ELSE tenant[t].active
             status == IF form.status \in Usable THEN "suspended" ELSE tenant[t].status
             kind == IF form.kind = "" THEN "admin" ELSE tenant[t].kind
             row == [tenant[t] EXCEPT !.active = active, !.status = status, !.kind = kind]
  <2>1. tenant' = [tenant EXCEPT ![t] = row]
    BY <1>1, <1>6 DEF BlockFromForm, TenantRow
  <2>2. job[a].at = "block" /\ job' = [job EXCEPT ![a].at = "sync"] /\ UNCHANGED sub
    BY <1>6 DEF BlockFromForm
  <2>3. t \notin raced => active = FALSE
    BY <1>1, <1>2, <2>2, RowFields DEF Remaining
  <2>4. t \notin raced => kind = KindFromForm(tenant[t].kind)
    BY <1>2, <2>2 DEF Remaining, KindFromForm
  <2> HIDE DEF active, status, kind
  <2>5. row.active = active /\ row.kind = kind
    BY <1>1, RowFields
  <2> HIDE DEF row
  <2>6. tenant'[t] = row /\ \A s \in Sub \ {t} : tenant'[s] = tenant[s]
    BY <1>1, <2>1
  <2>7. t \notin raced => (t \in held <=> kind = "admin")
    <3>1. tenant[t].kind \in Kinds
      BY <1>1, RowFields
    <3>2. QED
      BY <1>2, <2>2, <2>4, <3>1, KindsFromForm DEF Remaining
  <2>8. t \notin raced => ~tenant'[t].active
    BY <2>3, <2>5, <2>6
  <2>9. QED
    BY <1>5, <2>2, <2>5, <2>6, <2>7, <2>8
<1>7. CASE ReopenFromForm(a, t)
  <2>1. PICK blank \in Kinds : blank = "" /\ blank # "admin"
    BY NoKind
  <2>2. tenant' = [tenant EXCEPT ![t].kind = blank]
    BY <1>7, <2>1 DEF ReopenFromForm
  <2>3. job[a].at = "reopen" /\ job' = [job EXCEPT ![a].at = "sync"] /\ UNCHANGED sub
    BY <1>7 DEF ReopenFromForm
  <2>4. blank # "admin"
    BY <2>1
  <2>5. tenant'[t].kind = blank /\ \A s \in Sub \ {t} : tenant'[s] = tenant[s]
    BY <1>1, <2>2, RowFields
  <2>6. t \notin raced => t \notin held /\ job[a].to \in Usable
    BY <1>2, <2>3 DEF Remaining
  <2>7. QED
    BY <1>5, <2>3, <2>4, <2>5, <2>6
<1>8. QED
  BY <1>4, <1>6, <1>7 DEF Settle

\* A webhook starts.
LEMMA DeliverAccess ==
    ASSUME AccessInv, NEW w \in Worker, NEW e \in Event, Deliver(w, e)
    PROVE  \A s \in Sub \ raced' : Access(s)'
<1> USE DEF tenantVars
<1> DEFINE h == [NotServing EXCEPT !.at = "save", !.event = e]
<1>1. /\ handler \in [Worker -> HandlerRec] /\ TypeInv /\ e.sub \in Sub
  BY EventTypes DEF AccessInv, TypeInv, TypeOK
<1>2. /\ handler[w].at = "idle" /\ handler' = [handler EXCEPT ![w] = h] /\ Starts({e.sub})
      /\ UNCHANGED <<tenant, sub, held, job, sweep>>
  BY DEF Deliver
<1>3. Faultless' <=> Faultless
  <2>1. Spend("redelivery", MaxRedeliveries) \/ UNCHANGED spent
    BY DEF Deliver
  <2>2. QED
    BY <1>1, <2>1, SpendsApart DEF Bound, Faultless
<1>4. h.at = "save" /\ h.event = e
  BY Blank DEF HandlerRec
<1> HIDE DEF h
<1>5. handler'[w] = h /\ \A v \in Worker \ {w} : handler'[v] = handler[v]
  BY <1>1, <1>2
<1>6. ASSUME NEW s \in Sub \ {e.sub}, s \notin raced' PROVE Access(s)'
  <2>1. Access(s)
    BY <1>2, <1>6 DEF AccessInv, Starts
  <2>2. \A v \in Worker : Serves(v, s) \/ Serves(v, s)' => handler'[v] = handler[v]
    BY <1>2, <1>4, <1>5 DEF Serves
  <2>3. QED
    BY <1>2, <1>3, <2>1, <2>2, Elsewhere
<1>7. ASSUME NEW s \in Sub, s = e.sub, s \notin raced' PROVE Access(s)'
  <2>1. ~InFlight(s) /\ s \notin raced
    BY <1>2, <1>7, RestsUnraced
  <2>2. Access(s)
    BY <2>1 DEF AccessInv
  <2>3. /\ \A v \in Worker \ {w} : ~Serves(v, s)'
        /\ \A a \in Admin : ~Works(a, s) /\ ~Works(a, s)'
        /\ ~Sweeps(s)'
    BY <1>2, <1>5, <2>1, InFlightMeans DEF Serves, Works, Sweeps
  <2>4. Serves(w, s)' /\ Current(w, s)'
    BY <1>4, <1>5, <1>7 DEF Serves, Current, Opened, Closed, Paying
  <2>5. Alone(s)' /\ Swept(s)'
    BY <2>3 DEF Alone, Swept, Sweeps
  <2>6. Marked(s)'
    BY <1>2, <2>2, <2>3 DEF Marked, Access
  <2>7. Featured(s)'
    BY <2>4 DEF Featured, InFlight, Serves
  <2>8. QED
    BY <2>3, <2>4, <2>5, <2>6, <2>7 DEF Access
<1>8. QED
  BY <1>6, <1>7

\* The sweep of ended trials.
LEMMA SweepAccess ==
    ASSUME AccessInv, Sweep
    PROVE  \A s \in Sub \ raced' : Access(s)'
<1> USE DEF tenantVars, observers
<1>1. TypeInv /\ tenant \in [Sub -> TenantRow] /\ sub \in [Sub -> Status] /\ NoSub \notin Sub
  BY DEF AccessInv, TypeInv, TypeOK
<1>2. ASSUME SweepReads, NEW s \in Sub, s \notin raced' PROVE Access(s)'
  <2>1. /\ sweep.due = {} /\ sweep.syncing = NoSub /\ sweep'.syncing = NoSub
        /\ sweep'.due = {r \in Sub : Due(r)} /\ Starts({r \in Sub : Due(r)})
        /\ UNCHANGED <<tenant, sub, held, handler, job>>
    BY <1>2 DEF SweepReads
  <2>2. Faultless' <=> Faultless
    BY <1>1, <1>2, SpendsApart DEF SweepReads, Bound
  <2>3. Access(s)
    BY <1>2, <2>1 DEF AccessInv, Starts
  <2>4. CASE ~Due(s)
    BY <1>1, <2>1, <2>2, <2>3, <2>4, Elsewhere
  <2>5. CASE Due(s)
    <3>1. ~InFlight(s)
      BY <1>2, <2>1, <2>5, RestsUnraced
    <3>2. /\ \A w \in Worker : ~Serves(w, s)'
          /\ \A a \in Admin : ~Works(a, s) /\ ~Works(a, s)'
      BY <2>1, <3>1, InFlightMeans DEF Serves, Works
    <3>3. s \in sweep'.due /\ s # sweep'.syncing
      BY <1>1, <2>1, <2>5
    <3>4. s \notin held
      BY <2>3, <2>5, <3>2 DEF Access, Marked, Due
    <3>5. Alone(s)' /\ Swept(s)'
      BY <2>1, <3>2, <3>3, <3>4 DEF Alone, Swept
    <3>6. Marked(s)' /\ Featured(s)'
      BY <2>1, <2>3, <3>3, <3>4 DEF Access, Marked, Featured, InFlight
    <3>7. QED
      BY <3>2, <3>5, <3>6 DEF Access
  <2>6. QED
    BY <2>4, <2>5
<1>3. ASSUME NEW t \in Sub, SweepSuspends(t), NEW s \in Sub, s \notin raced' PROVE Access(s)'
  <2> DEFINE row == [status |-> "suspended", active |-> FALSE, kind |-> "billing"]
  <2>1. /\ t \in sweep.due /\ sweep.syncing = NoSub /\ tenant' = [tenant EXCEPT ![t] = row]
        /\ sweep'.due = sweep.due \ {t} /\ sweep'.syncing = t
        /\ UNCHANGED <<sub, held, handler, job, spent, raced>>
    BY <1>3 DEF SweepSuspends
  <2>2. Access(s)
    BY <1>3, <2>1 DEF AccessInv
  <2>3. CASE s # t
    <3>1. tenant'[s] = tenant[s]
      BY <1>1, <2>1, <2>3
    <3>2. QED
      BY <1>1, <2>1, <2>2, <2>3, <3>1, Elsewhere DEF Faultless
  <2>4. CASE s = t
    <3>1. tenant'[s].active = FALSE /\ tenant'[s].kind = "billing"
      BY <1>1, <2>1, <2>4
    <3>2. /\ \A w \in Worker : ~Serves(w, s) /\ ~Serves(w, s)'
          /\ \A a \in Admin : ~Works(a, s) /\ ~Works(a, s)'
      BY <2>1, <2>2, <2>4 DEF Access, Alone, Sweeps, Serves, Works
    <3>3. s \notin held
      BY <2>1, <2>2, <2>4 DEF Access, Swept
    <3>4. Alone(s)' /\ Swept(s)'
      BY <2>1, <2>4, <3>1, <3>2 DEF Alone, Swept
    <3>5. Marked(s)' /\ Featured(s)'
      BY <2>1, <3>1, <3>3 DEF Marked, Featured, UsableTenant
    <3>6. QED
      BY <3>2, <3>4, <3>5 DEF Access
  <2>5. QED
    BY <2>3, <2>4
<1>4. ASSUME NEW t \in Sub, SweepSyncs(t), NEW s \in Sub, s \notin raced' PROVE Access(s)'
  <2>1. /\ sweep.syncing = t /\ sub' = [sub EXCEPT ![t] = Synced(@, "suspended")]
        /\ sweep' = [sweep EXCEPT !.syncing = NoSub]
        /\ UNCHANGED <<tenant, held, handler, job, spent, raced>>
    BY <1>4 DEF SweepSyncs
  <2>2. sweep'.due = sweep.due /\ sweep'.syncing = NoSub
    BY <2>1 DEF TypeInv, TypeOK, AccessInv
  <2>3. Access(s)
    BY <1>4, <2>1 DEF AccessInv
  <2>4. CASE s # t
    <3>1. sub'[s] = sub[s]
      BY <1>1, <2>1, <2>4
    <3>2. QED
      BY <1>1, <2>1, <2>2, <2>3, <2>4, <3>1, Elsewhere DEF Faultless
  <2>5. CASE s = t
    <3>1. /\ \A w \in Worker : ~Serves(w, s) /\ ~Serves(w, s)'
          /\ \A a \in Admin : ~Works(a, s) /\ ~Works(a, s)'
          /\ s \notin sweep'.due
      BY <2>1, <2>2, <2>3, <2>5 DEF Access, Alone, Sweeps, Serves, Works
    <3>2. ~tenant'[s].active
      BY <2>1, <2>3, <2>5 DEF Access, Swept
    <3>3. Alone(s)' /\ Swept(s)'
      BY <1>1, <2>2, <3>1 DEF Alone, Swept, Sweeps
    <3>4. Marked(s)' /\ Featured(s)'
      BY <2>1, <2>3, <3>1, <3>2 DEF Access, Marked, Featured, UsableTenant
    <3>5. QED
      BY <3>1, <3>3, <3>4 DEF Access
  <2>6. QED
    BY <2>4, <2>5
<1>5. QED
  BY <1>2, <1>3, <1>4 DEF Sweep

LEMMA AccessStep ==
    ASSUME AccessInv, [Next]_vars
    PROVE  AccessInv'
<1> USE DEF tenantVars, observers
<1>1. TypeInv'
  BY TypeStep DEF AccessInv, vars, TypeInv, TypeOK, Serving
<1>2. ASSUME NEW a \in Admin, NEW s \in Sub, Suspend(a, s) PROVE \A t \in Sub \ raced' : Access(t)'
  <2> DEFINE row == [status |-> "suspended", active |-> FALSE, kind |-> "admin"]
  <2>1. /\ Decides(a, s, row, "sync", "suspended") /\ held' = held \cup {s}
        /\ UNCHANGED <<sub, handler, sweep>>
    BY <1>2 DEF Suspend
  <2>2. ~row.active /\ row.kind = "admin" /\ "suspended" \in Status
    BY DEF Status
  <2> HIDE DEF row
  <2>3. QED
    BY <2>1, <2>2, DecidesAccess
<1>3. ASSUME NEW a \in Admin, NEW s \in Sub, Activate(a, s) PROVE \A t \in Sub \ raced' : Access(t)'
  <2>1. /\ Decides(a, s, OpenRow, "sync", "active") /\ held' = held \ {s}
        /\ UNCHANGED <<sub, handler, sweep>>
    BY <1>3 DEF Activate, OpenRow
  <2>2. "active" \in Status /\ "active" \in Usable
    BY DEF Status, Usable
  <2>3. QED
    BY <2>1, <2>2, OpenRowFields, DecidesAccess
<1>4. ASSUME NEW a \in Admin, NEW s \in Sub, SetTrial(a, s) PROVE \A t \in Sub \ raced' : Access(t)'
  <2> DEFINE row == [status |-> "trial", active |-> TRUE, kind |-> ""]
  <2>1. Decides(a, s, row, "sync", "trial")
    BY <1>4 DEF SetTrial
  <2>2. held' = held \ {s} /\ UNCHANGED <<sub, handler, sweep>>
    BY <1>4 DEF SetTrial
  <2>3. row.active = TRUE /\ "trial" \in Status /\ "trial" \in Usable
    BY DEF Status, Usable
  <2> HIDE DEF row
  <2>4. QED
    BY <2>1, <2>2, <2>3, DecidesAccess
<1>5. ASSUME NEW a \in Admin, NEW s \in Sub, Decide(a, s) PROVE \A t \in Sub \ raced' : Access(t)'
  BY <1>2, <1>3, <1>4, <1>5, SaveFormAccess DEF Decide
<1>6. ASSUME UNCHANGED <<tenant, sub, handler, job, sweep, spent, held, raced>>
      PROVE  \A t \in Sub \ raced' : Access(t)'
  <2> SUFFICES ASSUME NEW t \in Sub, t \notin raced PROVE Access(t)'
    BY <1>6
  <2>1. Access(t)
    BY DEF AccessInv
  <2>2. QED
    BY <1>6, <2>1, Elsewhere DEF Faultless
<1>7. ASSUME NEW s \in Sub, TrialPasses(s) PROVE \A t \in Sub \ raced' : Access(t)'
  BY <1>6, <1>7 DEF TrialPasses
<1>8. ASSUME UNCHANGED vars PROVE \A t \in Sub \ raced' : Access(t)'
  BY <1>6, <1>8 DEF vars
<1>9. \A t \in Sub \ raced' : Access(t)'
  BY <1>5, <1>7, <1>8, WebhookKeepsAccess, DeliverAccess, SettleAccess, SweepAccess DEF Next
<1>10. QED
  BY <1>1, <1>9 DEF AccessInv

LEMMA AccessInvariant == Spec => []AccessInv
<1>1. Init => AccessInv
  <2> SUFFICES ASSUME Init, NEW s \in Sub PROVE Access(s)
    BY InitialTypes DEF AccessInv
  <2>1. /\ \A w \in Worker : handler[w].at = "idle"
        /\ \A a \in Admin : job[a].at = "idle"
    BY BlankRecords DEF Init
  <2>2. /\ sweep.due = {} /\ sweep.syncing = NoSub /\ NoSub \notin Sub
        /\ sub[s] = "trial" /\ held = {}
    BY DEF Init
  <2>3. tenant[s].active = TRUE
    BY DEF Init
  <2>4. /\ \A w \in Worker : ~Serves(w, s)
        /\ \A a \in Admin : ~Works(a, s)
        /\ s \notin sweep.due /\ s # sweep.syncing
    BY <2>1, <2>2 DEF Serves, Works
  <2>5. QED
    BY <2>2, <2>3, <2>4 DEF Access, Alone, Sweeps, Swept, Marked, Featured, Usable
<1>2. QED
  BY <1>1, AccessStep, PTL DEF Spec

\* The kill switch: as long as no two operations have worked on a tenant at the
\* same time, no sequence of payments, cancellations, halts, forms and sweeps
\* opens one that the super admin's last decision closed.
THEOREM SwitchHolds == Spec => []KillSwitchHolds
<1>1. AccessInv => KillSwitchHolds
  <2> SUFFICES ASSUME AccessInv, NEW s \in Sub \ raced, s \in held PROVE ~CanUse(s)
    BY DEF KillSwitchHolds
  <2>1. Access(s)
    BY DEF AccessInv
  <2>2. CASE ~tenant[s].active
    BY <2>2 DEF CanUse
  <2>3. ASSUME NEW a \in Admin, Works(a, s), job[a].at = "block" PROVE ~CanUse(s)
    BY <2>1, <2>3 DEF Access, Remaining, Blocked, CanUse
  <2>4. QED
    BY <2>1, <2>2, <2>3 DEF Access, Marked
<1>2. QED
  BY <1>1, AccessInvariant, PTL

\* Under the same condition a charge has let its tenant in when it comes to its
\* invoice, and, if no worker died, whoever may use the platform has a
\* subscription that carries the plan's features.
THEOREM PaidAccess == Spec => []AccessFollows
<1>1. AccessInv => PaymentReopens
  <2> SUFFICES ASSUME AccessInv, NEW w \in Worker, handler[w].at \in Paying,
                      handler[w].event.sub \notin raced \cup held
               PROVE  CanUse(handler[w].event.sub)
    BY DEF PaymentReopens, Paying
  <2> DEFINE s == handler[w].event.sub
  <2>1. handler[w].at # "idle"
    BY DEF Paying
  <2>2. handler[w].event \in Event
    BY <2>1 DEF AccessInv, TypeInv, Serving
  <2>3. s \in Sub /\ Serves(w, s)
    BY <2>1, <2>2, EventTypes DEF Serves
  <2>4. Current(w, s)
    BY <2>3 DEF AccessInv, Access
  <2>5. tenant[s].active /\ tenant[s].status = "active"
    BY <2>4 DEF Current, Opened
  <2>6. QED
    BY <2>5 DEF CanUse, Usable
<1>2. AccessInv => UsersHaveFeatures
  <2> SUFFICES ASSUME AccessInv, Faultless, NEW s \in Sub \ raced, CanUse(s), ~InFlight(s)
               PROVE  sub[s] \in Usable
    BY DEF UsersHaveFeatures
  <2>1. QED
    BY DEF AccessInv, Access, Featured, UsableTenant, CanUse
<1>3. QED
  BY <1>1, <1>2, AccessInvariant, PTL DEF AccessFollows
=============================================================================

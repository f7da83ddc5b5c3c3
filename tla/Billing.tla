------------------------------ MODULE Billing ------------------------------
(***************************************************************************)
(* Subscriptions, tenant access and subscription invoices:                 *)
(*                                                                         *)
(*   src/apps/plans/webhooks.py   Razorpay events                          *)
(*   src/apps/plans/signals.py    subscription status copied to the tenant *)
(*   src/apps/plans/tasks.py      the daily sweep of ended trials          *)
(*   src/apps/tenants/models.py   suspend, activate, set_trial             *)
(*   src/apps/tenants/admin.py    the super admin's tenant form            *)
(*                                                                         *)
(* Every statement commits by itself, so each is a step; only the invoice  *)
(* of a charge is created in a transaction, under a lock on the            *)
(* subscription's row.  A tenant has one subscription, and both are named  *)
(* by the same identifier.  Plans, periods and amounts are left out, and   *)
(* of the caches all but the failure of refreshing them.                   *)
(***************************************************************************)
EXTENDS Integers, Sequences, FiniteSets

CONSTANTS
    Sub,            \* subscriptions, each with its tenant
    Payment, NoPayment,
    Event,          \* what Razorpay has to report: [kind, sub, pay]
    Worker,         \* web workers that may each be serving one webhook
    Admin,          \* super admin requests that may be in progress together
    NoSub, NoWorker, NoEvent,
    FormRow,        \* rows the super admin may save from the tenant form
    MaxRedeliveries, MaxCrashes, MaxErrors, MaxDecisions, MaxSweeps   \* bounds

EventKind == {"charged", "cancelled", "halted"}

Status == {"trial", "active", "past_due", "paused", "cancelled", "suspended"}
Usable == {"trial", "active"}           \* ACTIVE_STATUSES
TenantRow == [status : Status, active : BOOLEAN, kind : {"", "billing", "admin"}]

Bound == {"redelivery", "crash", "error", "decision", "sweep"}   \* what the bounds count

\* How an event was answered, always with a 200: its handler returned, its
\* INSERT failed, or something else raised in it.
Outcome == {"ok", "clash", "error"}

ASSUME BillingAssumption ==
    /\ Event \subseteq [kind : EventKind, sub : Sub, pay : Payment \cup {NoPayment}]
    /\ \A e \in Event : e.kind = "charged" => e.pay \in Payment
    /\ \A e, f \in Event : e.pay = f.pay /\ e.pay \in Payment => e = f
    /\ NoPayment \notin Payment /\ NoWorker \notin Worker
    /\ NoSub \notin Sub /\ NoEvent \notin Event
    /\ FormRow \subseteq TenantRow
    /\ {MaxRedeliveries, MaxCrashes, MaxErrors, MaxDecisions, MaxSweeps} \subseteq Nat

VARIABLES
    tenant,     \* Tenant: subscription_status, is_active, suspension_kind
    trial,      \* where trial_ends_at lies: ahead, within a day, in the past
    sub,        \* Subscription.status
    lock,       \* who holds the row lock on a subscription
    invoices,   \* Invoice rows by number: the payment each documents
    handler,    \* the webhook each worker is serving
    answered,   \* events answered with a 200, by outcome
    job,        \* what is left of each super admin request
    sweep,      \* the running check_trial_expirations
    spent,      \* counters for the bounds
    \* Observed by the properties only:
    held,       \* tenants whose last super admin decision was to suspend them
    raced       \* tenants that two operations worked on at the same time

vars == <<tenant, trial, sub, lock, invoices, handler, answered, job, sweep,
          spent, held, raced>>
tenantVars == <<tenant, trial, sub, held>>
observers == <<held, raced>>

NotServing == [at |-> "idle", event |-> NoEvent,
               copy |-> [status |-> "trial", active |-> TRUE, kind |-> ""], number |-> 0]
NoJob == [at |-> "idle", sub |-> NoSub, to |-> "trial",
          form |-> [status |-> "trial", active |-> TRUE, kind |-> ""]]

\* Who is at work on a tenant: a webhook, a super admin, the sweep.
InFlight(s) ==
    \/ \E w \in Worker : handler[w].at # "idle" /\ handler[w].event.sub = s
    \/ \E a \in Admin : job[a].at # "idle" /\ job[a].sub = s
    \/ s \in sweep.due \/ s = sweep.syncing
Starts(S) == raced' = raced \cup {s \in S : InFlight(s)}

Invoiced(pay) == \E n \in DOMAIN invoices : invoices[n] = pay

\* Tenant.can_use_platform, read from the row on every request.
CanUse(s) ==
    /\ tenant[s].active
    /\ tenant[s].status \in Usable
    /\ ~(tenant[s].status = "trial" /\ trial[s] = "over")

Init ==
    /\ tenant = [s \in Sub |-> [status |-> "trial", active |-> TRUE, kind |-> ""]]
    /\ trial = [s \in Sub |-> "ahead"]
    /\ sub = [s \in Sub |-> "trial"]
    /\ lock = [s \in Sub |-> NoWorker]
    /\ invoices = << >>
    /\ handler = [w \in Worker |-> NotServing]
    /\ answered = [o \in Outcome |-> {}]
    /\ job = [a \in Admin |-> NoJob]
    /\ sweep = [due |-> {}, syncing |-> NoSub]
    /\ spent = [b \in Bound |-> 0]
    /\ held = {} /\ raced = {}

Spend(what, max) ==
    /\ spent[what] < max
    /\ spent' = [spent EXCEPT ![what] = @ + 1]

Faultless == spent["crash"] = 0 /\ spent["error"] = 0

-----------------------------------------------------------------------------
(* Webhooks.  Razorpay sends an event until it is answered, in any order,   *)
(* and may send it again after that.                                        *)

Answered == UNION {answered[o] : o \in Outcome}

\* Mutant of Deliver: the event is answered before it is processed.
DeliverAckFirst(w, e) ==
    /\ handler[w].at = "idle"
    /\ IF e \in Answered THEN Spend("redelivery", MaxRedeliveries) ELSE UNCHANGED spent
    /\ handler' = [handler EXCEPT ![w] = [NotServing EXCEPT !.at = "save", !.event = e]]
    /\ answered' = [answered EXCEPT !["ok"] = @ \cup {e}]
    /\ Starts({e.sub})
    /\ UNCHANGED <<tenantVars, lock, invoices, job, sweep>>

Deliver(w, e) ==
    /\ handler[w].at = "idle"
    /\ IF e \in Answered THEN Spend("redelivery", MaxRedeliveries) ELSE UNCHANGED spent
    /\ handler' = [handler EXCEPT ![w] = [NotServing EXCEPT !.at = "save", !.event = e]]
    /\ Starts({e.sub})
    /\ UNCHANGED <<tenantVars, lock, invoices, answered, job, sweep>>

At(w, step, s) == handler[w].at = step /\ handler[w].event.sub = s
Goto(w, step) == handler' = [handler EXCEPT ![w].at = step]

\* The view answers 200 whether its handler returned or raised.
AnswerAs(w, outcome) ==
    /\ handler' = [handler EXCEPT ![w] = NotServing]
    /\ answered' = [answered EXCEPT ![outcome] = @ \cup {handler[w].event}]
Answer(w) == AnswerAs(w, "ok")

Charge(w) == handler[w].event.kind = "charged"

\* Mutant of StatusOf: Razorpay's word is stored as it came.
StatusOfRaw(kind) == kind

StatusOf(kind) == CASE kind = "charged"   -> "active"
                    [] kind = "cancelled" -> "cancelled"
                    [] kind = "halted"    -> "past_due"

SaveSubscription(w, s) ==
    /\ At(w, "save", s) /\ lock[s] = NoWorker
    /\ sub' = [sub EXCEPT ![s] = StatusOf(handler[w].event.kind)]
    /\ Goto(w, "load")
    /\ UNCHANGED <<tenant, trial, lock, invoices, answered, job, sweep, spent, observers>>

\* sync_subscription_to_tenant: instance.tenant is loaded here and kept for
\* the rest of the request.
LoadTenant(w, s) ==
    /\ At(w, "load", s)
    /\ handler' = [handler EXCEPT ![w].at = "sync", ![w].copy = tenant[s]]
    /\ UNCHANGED <<tenantVars, lock, invoices, answered, job, sweep, spent, raced>>

AfterSync(w) == IF handler[w].event.kind = "cancelled" THEN "refresh" ELSE "tenant"

SyncTenant(w, s) ==
    /\ At(w, "sync", s)
    /\ LET status == StatusOf(handler[w].event.kind)
           stale == handler[w].copy.status # status
       IN  tenant' = IF stale THEN [tenant EXCEPT ![s].status = status] ELSE tenant
    /\ Goto(w, AfterSync(w))
    /\ UNCHANGED <<trial, sub, lock, invoices, answered, job, sweep, spent, observers>>

\* The signal keeps its own errors to itself: the tenant is not saved, and the
\* webhook goes on.
SyncFails(w, s) ==
    /\ At(w, "sync", s) /\ Spend("error", MaxErrors)
    /\ Goto(w, AfterSync(w))
    /\ UNCHANGED <<tenantVars, lock, invoices, answered, job, sweep, raced>>

HaltTenant(w, s) ==
    /\ At(w, "tenant", s) /\ ~Charge(w)
    /\ tenant' = [tenant EXCEPT ![s].status = "past_due"]
    /\ Goto(w, "refresh")
    /\ UNCHANGED <<trial, sub, lock, invoices, answered, job, sweep, spent, observers>>

\* Mutant of Lifts: a payment lifts every suspension.
LiftsAny(row) == TRUE

\* A payment lifts every suspension but the super admin's.
Lifts(row) == row.active \/ row.kind # "admin"

ReopenTenant(w, s) ==
    /\ At(w, "tenant", s) /\ Charge(w)
    /\ IF Lifts(handler[w].copy)
       THEN tenant' = [tenant EXCEPT ![s] = [status |-> "active", active |-> TRUE, kind |-> ""]]
       ELSE UNCHANGED tenant
    /\ Goto(w, "refresh")
    /\ UNCHANGED <<trial, sub, lock, invoices, answered, job, sweep, spent, observers>>

\* _refresh_tenant_caches: the end of every event but a charge.
RefreshCaches(w) ==
    /\ handler[w].at = "refresh"
    /\ IF Charge(w) THEN Goto(w, "lock") /\ UNCHANGED answered ELSE Answer(w)
    /\ UNCHANGED <<tenantVars, lock, invoices, job, sweep, spent, raced>>

\* Mutant of LockSubscription: the check and the insert run without the lock.
LockSubscriptionNone(w, s) ==
    /\ At(w, "lock", s)
    /\ Goto(w, "check")
    /\ UNCHANGED <<tenantVars, lock, invoices, answered, job, sweep, spent, raced>>

LockSubscription(w, s) ==
    /\ At(w, "lock", s) /\ lock[s] = NoWorker
    /\ lock' = [lock EXCEPT ![s] = w]
    /\ Goto(w, "check")
    /\ UNCHANGED <<tenantVars, invoices, answered, job, sweep, spent, raced>>

Unlock(w) == lock' = [s \in Sub |-> IF lock[s] = w THEN NoWorker ELSE lock[s]]

AlreadyInvoiced(w) ==
    /\ handler[w].at = "check" /\ Invoiced(handler[w].event.pay)
    /\ Unlock(w) /\ Answer(w)
    /\ UNCHANGED <<tenantVars, invoices, job, sweep, spent, raced>>

NotYetInvoiced(w) ==
    /\ handler[w].at = "check" /\ ~Invoiced(handler[w].event.pay)
    /\ Goto(w, "number")
    /\ UNCHANGED <<tenantVars, lock, invoices, answered, job, sweep, spent, raced>>

\* Mutant of ReadNumber: the highest number itself is used again.
ReadNumberLast(w) ==
    /\ handler[w].at = "number"
    /\ handler' = [handler EXCEPT ![w].at = "insert", ![w].number = Len(invoices)]
    /\ UNCHANGED <<tenantVars, lock, invoices, answered, job, sweep, spent, raced>>

\* generate_invoice_number: the highest committed number plus one.
ReadNumber(w) ==
    /\ handler[w].at = "number"
    /\ handler' = [handler EXCEPT ![w].at = "insert", ![w].number = Len(invoices) + 1]
    /\ UNCHANGED <<tenantVars, lock, invoices, answered, job, sweep, spent, raced>>

\* If the number was taken meanwhile, the failed INSERT has broken the
\* transaction, so the retry's first query raises: the transaction is rolled
\* back, and the view answers 200 all the same.
InsertInvoice(w) ==
    /\ handler[w].at = "insert"
    /\ IF handler[w].number \in DOMAIN invoices
       THEN UNCHANGED invoices /\ AnswerAs(w, "clash")
       ELSE invoices' = Append(invoices, handler[w].event.pay) /\ Answer(w)
    /\ Unlock(w)
    /\ UNCHANGED <<tenantVars, job, sweep, spent, raced>>

\* Anything else that raises in the handler (the cache refresh, a lost
\* connection, a row that is not there): what was saved stays, the transaction
\* is rolled back, the answer is 200 with "handler_error", and Razorpay does
\* not send the event again.  The signal's steps raise nothing.
HandlerFails(w) ==
    /\ handler[w].at \notin {"idle", "load", "sync"}
    /\ Spend("error", MaxErrors)
    /\ Unlock(w) /\ AnswerAs(w, "error")
    /\ UNCHANGED <<tenantVars, invoices, job, sweep, raced>>

\* The worker dies and the event goes unanswered.
Crash(w) ==
    /\ handler[w].at # "idle"
    /\ Spend("crash", MaxCrashes)
    /\ handler' = [handler EXCEPT ![w] = NotServing]
    /\ Unlock(w)
    /\ UNCHANGED <<tenantVars, invoices, answered, job, sweep, raced>>

Serve(w) ==
    \/ \E s \in Sub : \/ SaveSubscription(w, s) \/ LoadTenant(w, s) \/ SyncTenant(w, s)
                      \/ HaltTenant(w, s) \/ ReopenTenant(w, s) \/ LockSubscription(w, s)
    \/ RefreshCaches(w) \/ AlreadyInvoiced(w) \/ NotYetInvoiced(w)
    \/ ReadNumber(w) \/ InsertInvoice(w)

Fail(w) == HandlerFails(w) \/ Crash(w) \/ \E s \in Sub : SyncFails(w, s)

-----------------------------------------------------------------------------
(* The super admin: one save of the tenant, then its subscription.          *)

Decides(a, s, row, step, to) ==
    /\ job[a].at = "idle" /\ Spend("decision", MaxDecisions)
    /\ tenant' = [tenant EXCEPT ![s] = row]
    /\ job' = [job EXCEPT ![a] = [NoJob EXCEPT !.at = step, !.sub = s, !.to = to]]
    /\ Starts({s})

Suspend(a, s) ==
    /\ Decides(a, s, [status |-> "suspended", active |-> FALSE, kind |-> "admin"], "sync", "suspended")
    /\ held' = held \cup {s}
    /\ UNCHANGED <<trial, sub, lock, invoices, handler, answered, sweep>>

Activate(a, s) ==
    /\ Decides(a, s, [status |-> "active", active |-> TRUE, kind |-> ""], "sync", "active")
    /\ held' = held \ {s}
    /\ UNCHANGED <<trial, sub, lock, invoices, handler, answered, sweep>>

SetTrial(a, s) ==
    /\ Decides(a, s, [status |-> "trial", active |-> TRUE, kind |-> ""], "sync", "trial")
    /\ trial' = [trial EXCEPT ![s] = "ahead"]
    /\ held' = held \ {s}
    /\ UNCHANGED <<sub, lock, invoices, handler, answered, sweep>>

\* Mutant of Synced: the subscription only ever follows a suspension.
SyncedDownOnly(status, to) ==
    IF to = "suspended" /\ status \in Usable THEN "suspended" ELSE status

\* _sync_subscriptions: a suspension only takes usable subscriptions down.
Synced(status, to) ==
    IF to = "suspended" THEN (IF status \in Usable THEN "suspended" ELSE status) ELSE to

SyncSubscription(a, s) ==
    /\ job[a].at = "sync" /\ job[a].sub = s /\ lock[s] = NoWorker
    /\ sub' = [sub EXCEPT ![s] = Synced(@, job[a].to)]
    /\ job' = [job EXCEPT ![a] = NoJob]
    /\ UNCHANGED <<tenant, trial, lock, invoices, handler, answered, sweep, spent, observers>>

\* TenantAdmin.save_model: the whole row of the form is saved, then access,
\* kind and subscription are made to agree with it.
Blocked(row) == ~row.active \/ row.status \notin Usable

SaveForm(a, s, row) ==
    /\ job[a].at = "idle" /\ Spend("decision", MaxDecisions)
    /\ tenant' = [tenant EXCEPT ![s] = row]
    /\ job' = [job EXCEPT ![a] = [at |-> IF Blocked(row) THEN "block"
                                         ELSE IF Blocked(tenant[s]) THEN "reopen" ELSE "idle",
                                  sub |-> s, to |-> IF Blocked(row) THEN "suspended" ELSE row.status,
                                  form |-> row]]
    /\ held' = IF Blocked(row) /\ row.kind # "billing" THEN held \cup {s} ELSE held \ {s}
    /\ Starts({s})
    /\ UNCHANGED <<trial, sub, lock, invoices, handler, answered, sweep>>

BlockFromForm(a, s) ==
    /\ job[a].at = "block" /\ job[a].sub = s
    /\ LET form == job[a].form
       IN  tenant' = [tenant EXCEPT
               ![s].active = IF form.active THEN FALSE ELSE @,
               ![s].status = IF form.status \in Usable THEN "suspended" ELSE @,
               ![s].kind   = IF form.kind = "" THEN "admin" ELSE @]
    /\ job' = [job EXCEPT ![a].at = "sync"]
    /\ UNCHANGED <<trial, sub, lock, invoices, handler, answered, sweep, spent, observers>>

ReopenFromForm(a, s) ==
    /\ job[a].at = "reopen" /\ job[a].sub = s
    /\ tenant' = [tenant EXCEPT ![s].kind = ""]
    /\ job' = [job EXCEPT ![a].at = "sync"]
    /\ UNCHANGED <<trial, sub, lock, invoices, handler, answered, sweep, spent, observers>>

Decide(a, s) ==
    \/ Suspend(a, s) \/ Activate(a, s) \/ SetTrial(a, s)
    \/ \E row \in FormRow : SaveForm(a, s, row)
Settle(a, s) == SyncSubscription(a, s) \/ BlockFromForm(a, s) \/ ReopenFromForm(a, s)

-----------------------------------------------------------------------------
(* Time, and check_trial_expirations.  The tenants are read once; one with  *)
(* less than a whole day left counts as expired (timedelta.days is 0).      *)

TrialPasses(s) ==
    /\ trial[s] # "over"
    /\ trial' = [trial EXCEPT ![s] = IF @ = "ahead" THEN "lastDay" ELSE "over"]
    /\ UNCHANGED <<tenant, sub, lock, invoices, handler, answered, job, sweep, spent, observers>>

Due(s) == tenant[s].status = "trial" /\ tenant[s].active /\ trial[s] # "ahead"

SweepReads ==
    /\ sweep = [due |-> {}, syncing |-> NoSub]
    /\ \E s \in Sub : Due(s)
    /\ Spend("sweep", MaxSweeps)
    /\ sweep' = [due |-> {s \in Sub : Due(s)}, syncing |-> NoSub]
    /\ Starts({s \in Sub : Due(s)})
    /\ UNCHANGED <<tenantVars, lock, invoices, handler, answered, job>>

SweepSuspends(s) ==
    /\ s \in sweep.due /\ sweep.syncing = NoSub
    /\ tenant' = [tenant EXCEPT ![s] = [status |-> "suspended", active |-> FALSE, kind |-> "billing"]]
    /\ sweep' = [due |-> sweep.due \ {s}, syncing |-> s]
    /\ UNCHANGED <<trial, sub, lock, invoices, handler, answered, job, spent, observers>>

SweepSyncs(s) ==
    /\ sweep.syncing = s /\ lock[s] = NoWorker
    /\ sub' = [sub EXCEPT ![s] = Synced(@, "suspended")]
    /\ sweep' = [sweep EXCEPT !.syncing = NoSub]
    /\ UNCHANGED <<tenant, trial, lock, invoices, handler, answered, job, spent, observers>>

Sweep == SweepReads \/ \E s \in Sub : SweepSuspends(s) \/ SweepSyncs(s)

-----------------------------------------------------------------------------
Next ==
    \/ \E w \in Worker : \/ Serve(w) \/ Fail(w)
                         \/ \E e \in Event : Deliver(w, e)
    \/ \E a \in Admin, s \in Sub : Decide(a, s) \/ Settle(a, s)
    \/ Sweep
    \/ \E s \in Sub : TrialPasses(s)

Spec == Init /\ [][Next]_vars

\* Razorpay retries what was not answered, and a worker, a super admin's
\* request and the sweep run to their end.
Fairness ==
    /\ \A w \in Worker : WF_vars(Serve(w))
    /\ \A e \in Event : WF_vars(e \notin Answered /\ \E w \in Worker : Deliver(w, e))
    /\ \A a \in Admin : WF_vars(\E s \in Sub : Settle(a, s))
    /\ WF_vars(\E s \in Sub : SweepSuspends(s) \/ SweepSyncs(s))

FairSpec == Spec /\ Fairness

-----------------------------------------------------------------------------
Step == {"idle", "save", "load", "sync", "tenant", "refresh", "lock", "check", "number", "insert"}
HandlerRec == [at : Step, event : Event \cup {NoEvent}, copy : TenantRow, number : Nat]
JobRec == [at : {"idle", "sync", "block", "reopen"}, sub : Sub \cup {NoSub},
           to : Status, form : TenantRow]

\* Type invariant: every variable keeps the type its declaration names.
TypeOK ==
    /\ tenant \in [Sub -> TenantRow]
    /\ trial \in [Sub -> {"ahead", "lastDay", "over"}]
    /\ sub \in [Sub -> Status]
    /\ lock \in [Sub -> Worker \cup {NoWorker}]
    /\ invoices \in Seq(Payment)
    /\ handler \in [Worker -> HandlerRec]
    /\ answered \in [Outcome -> SUBSET Event]
    /\ job \in [Admin -> JobRec]
    /\ sweep \in [due : SUBSET Sub, syncing : Sub \cup {NoSub}]
    /\ spent \in [Bound -> Nat]
    /\ held \subseteq Sub /\ raced \subseteq Sub

\* However often and however concurrently Razorpay delivers a charge, its
\* payment gets one GST invoice (webhooks.py:171-189).
OneInvoicePerPayment ==
    \A m, n \in DOMAIN invoices : invoices[m] = invoices[n] => m = n

\* A charge answered 200, and so never sent again, has its invoice, whether its
\* handler returned or its INSERT was refused (webhooks.py:311-314): only some
\* other error in the handler loses it.  Charges of two subscriptions break this.
AnsweredMeansInvoiced ==
    \A e \in answered["ok"] \cup answered["clash"] : e.kind = "charged" => Invoiced(e.pay)

\* While operations on a tenant run one at a time, no sequence of payments,
\* cancellations, halts and sweeps opens a tenant that the super admin's last
\* decision closed (tenants/models.py:139-144).
KillSwitchHolds ==
    \A s \in Sub \ raced : s \in held => ~CanUse(s)

\* Under the same condition, a charge has reopened its tenant by the time its
\* invoice is written: an ended trial, a cancellation or a halt does not
\* outlive a payment (webhooks.py:153-161).
PaymentReopens ==
    \A w \in Worker : handler[w].at \in {"lock", "check", "number", "insert"} =>
        handler[w].event.sub \in raced \cup held \/ CanUse(handler[w].event.sub)

\* Under the same condition, and as long as no worker died between the two
\* rows and none of the errors the handlers swallow came between them, whenever
\* nothing is in progress a tenant that may use the platform has a subscription
\* that carries its plan's features (core/middleware.py:356-366 reads them from
\* there).
UsersHaveFeatures ==
    Faultless =>
        \A s \in Sub \ raced : CanUse(s) /\ ~InFlight(s) => sub[s] \in Usable

\* A payment buys access and features (both of the above).
AccessFollows == PaymentReopens /\ UsersHaveFeatures

\* Every charge is invoiced in the end, in spite of crashes, duplicates and
\* charges of the same subscription at the same moment, or was answered with a
\* handler error and is not sent again (webhooks.py:74-79).
EveryChargeInvoiced ==
    \A e \in Event : e.kind = "charged" => <>(Invoiced(e.pay) \/ e \in answered["error"])
=============================================================================

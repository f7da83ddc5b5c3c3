# TLA+ models of TeleCRM (DialEasyPro)

TeleCRM is a multi-tenant telecalling CRM: a Django 5.1 application on Postgres
(one schema per tenant), Celery workers and beat on Redis, Channels for live
updates, Razorpay for subscriptions, several WhatsApp / SMS / e-mail providers,
and a Flutter app for the agents' phones.  Nearly all of its hard behaviour has
one cause: web requests, webhooks and tasks read rows, decide, and write them
back, and only a few of them lock anything in between.

The database runs at READ COMMITTED, requests are not wrapped in a transaction
(no `ATOMIC_REQUESTS`), and `select_for_update` appears in few places: the
subscription invoice, leave decisions and balances, the calling queue, and the
ERP documents and number sequence.  The models therefore take a database
statement, or a transaction that locks what it checks, as the unit of a step.

1. [Inventory](#1-inventory)
2. [Modules](#2-modules)
3. [Runs](#3-runs)
4. [Proofs](#4-proofs)
5. [Behaviour the code allows](#5-behaviour-the-code-allows)
6. [What is not modelled](#6-what-is-not-modelled)
7. [Plan](#7-plan)

To repeat everything: `tlc -workers 2 -config <cfg> <module>` for each run of
section 3 and `tlapm <module>_proofs.tla` for each proof module.

## 1. Inventory

Paths are below `src/apps/`.

| Component | State it keeps | Operations | Interacts with | What is hard | What makes it correct |
|---|---|---|---|---|---|
| **Bulk campaigns** `communications/tasks.py`, `views.py` | `BulkCampaign` (status, counters, task id), `CampaignRecipient` rows, the `bulk_ops` queue | launch, pause, scheduler, coordinator, chunk | leads (audience), providers, Celery | several workers, pause during sending, relaunch, redelivery, revoked and lost tasks | one copy per customer; a pause stops promptly and stays; counters and completion agree with the rows |
| **ERP documents** `erp/services`, `erp/views.py`, `erp/gst.py` | quotations, orders, invoices, payments, stock, number sequence | edit lines and headers, convert, raise, issue, cancel, pay, reverse, delete | HTTP requests only | requests that check an unlocked copy; roll-back after a number was taken | gapless unique GST numbers; issued invoices immutable; balance = receipts; stock = issued lines; one order per quotation, one active invoice per order |
| **Billing** `plans/webhooks.py`, `signals.py`, `tasks.py`, `tenants/models.py`, `tenants/admin.py` | `Tenant` (status, active, suspension kind, trial end), `Subscription.status`, `Invoice` | charged / cancelled / halted webhooks, suspend, activate, trial, tenant form, trial sweep | Razorpay, super admin, beat | duplicated, concurrent and reordered webhooks, crashes, stale rows | one invoice per payment and none lost; the super admin's suspension holds; a payment reopens the rest |
| **HRMS** `hrms/services`, `views.py`, `signals.py` | leave requests, balances, attendance rows, payslips, claims | request, approve, reject, cancel leave; allocate and edit balances; check in and out, sync, correct; build, finalize, reopen, pay, delete a slip | signals after every attendance write, dialer hours | a payslip is rebuilt by signals while it is finalized; balances are edited while charged; a sync over an approval | balance = charged days, within the allocation; approved leave stays in the attendance; what is finalized does not change; nothing is paid twice |
| **Leads** `leads/views.py`, `models.py`, `services/distribution.py`, `followup_rules.py` | leads, queue locks, follow-ups | pull, release, status, edit form, assign, distribute, take back, follow-ups | calls, agents | everything but the pull works on an unlocked copy | an agent holds one lead at a time; figures and follow-ups agree with the lead; the cap of a distribution |
| **Calls** `calls/services/outcomes.py`, `views.py` | calls, dispositions, recordings | log, outcome, click-to-call, upload a recording | leads, follow-ups, AI | an outcome computed from a stale lead | counters match the calls; a call moves its lead forward |
| **Presence** `authentication/presence.py` | `AgentStatus`, intervals of `AgentStatusLog` | set status, heartbeat, sweep | attendance, reports | a stale sweep against a returning agent | one open interval, of the status shown |
| **Messages and receipts** `communications/tasks.py`, `whatsapp_webhooks.py`, `integrations/meta_whatsapp.py` | messages, their status, dedupe keys, leads, conversations | single send, receipts, inbound, at two endpoints | leads, providers | duplicates, reordering, retries, two handlers | the status is as far as the provider got; each message is recorded once, in one thread of one lead |
| **AI** `ai/tasks.py`, `ai/views.py` | transcript and summary of a recording | transcribe, analyse, by hand, backfill | recordings, Gemini | retries, backfill and replaced audio under a task in progress | transcript and summary are of the audio kept; nothing stays "processing" |
| **Recruitment** `recruitment/` | applications, offers | move stage, set status, convert | HRMS | double click on convert | one employee per offer |
| **Intake** `integrations/views.py`, `meta_sync.py`, `leads/tasks.py`, `leads/views.py`, `core/quotas.py` | leads, `LeadBatch` and its count, `LeadImportJob`, `LeadSourceConfig`, the cached count of leads | webhook, sync, entry by hand, import of a file, deletion, edit form, renaming and deleting batches, the source's switch | the plan's cap, lead sources, Celery | look up then create, count then write, whole rows saved from copies, chunks that fail | a number has one lead; counts agree with the rows; the plan's cap holds |
| Core, tenants, reports, super admin, website, Flutter app, deployment | | | | | see section 6 |

`PROJECT.json` lists each of them, and every hazard found while reading at the
line where it bites, with the property that covers it or the reason none does.

## 2. Modules

| Module | What it is |
|---|---|
| `Campaign` | one campaign: requests, scheduler, coordinators, chunks, broker faults |
| `Outreach` | what a campaign promises, with no tasks, queues or workers |
| `CampaignRefinement` | the mapping from `Campaign` to `Outreach` |
| `ErpDocuments` | sales documents, payments, stock and numbering under concurrent requests |
| `Gst` | the tax arithmetic of an invoice line |
| `Billing` | webhooks, tenant access, trial sweep, subscription invoices |
| `Requests` | what the web modules below share: requests in progress, which of them met, the bound on them |
| `Leave` | leave, leave balance and attendance of one employee |
| `Payroll` | extends `Leave` with payslips, claims and the refresh after every attendance write |
| `Distribution` | the three plans of a distribution, as functions |
| `LeadDesk` | leads, queue, calls and follow-ups of a team (extends `Requests`, `Distribution`) |
| `Presence` | agents' status and its intervals |
| `Transcription` | the recording of a call, its transcript and summary |
| `Intake` | how leads arrive and leave: webhooks, sync, import, by hand, deletion, batches, the plan's cap |
| `Desk` | composes `LeadDesk`, `Presence`, `Transcription` and `Intake`, with their properties |
| `Webhooks` | what the two webhook endpoints share |
| `Outbox`, `Inbox` | single sends with their receipts; messages received |
| `Messages` | composes `Outbox` and `Inbox`, with their properties |
| `MCCampaign`, `MCErpDocuments`, `MCBilling`, `MCPayroll`, `MCDesk`, `MCMessages` | symmetry sets, inputs and bounds for TLC |
| `Campaign_proofs`, `ErpDocuments_proofs`, `Billing_proofs`, `Payroll_proofs`, `DeskTypes_proofs`, `Desk_proofs`, `Messages_proofs` | theorems; those about the desk's plans and types, and most lemmas about the intake's steps, are in `DeskTypes_proofs`, which `Desk_proofs` extends; those about `Gst` are in `ErpDocuments_proofs` |
| `Sums` | theorems about the sum of a function over a finite set, which three of the proof modules use |

Components that share rows a property speaks of are composed: leave with
payroll, the desk's four parts, sending with receiving.  `Campaign` and
`Outreach` are composed by refinement.  A definition whose comment begins with
"Mutant of" is a plausible bug in the operator below it, and no specification
uses it; each shows that a property notices that bug.

### Campaign

State ↔ code: `status`, `total`, `sentCount`, `failedCount`, `taskId` are columns
of `BulkCampaign`; `row` is `CampaignRecipient.status`; `coord`, `chunkQ` and
`worker` are the coordinator tasks, the queued chunk messages and the chunk
executions; `request` and `sched` are the launch/pause endpoints and
`check_scheduled_campaigns`.

A launch is: read the campaign, claim it by a conditional UPDATE, enqueue the
coordinator (or give the campaign back when the broker refuses), save the task
id.  A pause reads, revokes the coordinator, writes.  A coordinator resolves the
audience, sets `running` and the total, creates the missing rows, selects the
pending ones and dispatches them in chunks.  A chunk selects its pending rows,
then for each recipient checks the status again, sends, marks, logs; finally it
adds its counts, and closes the campaign if nothing is pending.  The three
channels differ where the code does (chunk size, unreachable leads, order of
the writes); `Channel` selects one.

Faults: a process may die between any two of its steps (Celery acknowledges a
message when it starts it, so the message is gone), the broker may refuse, the
database may refuse a write inside the coordinator's `try`, and a queued chunk
may be delivered again (`MaxCopies`: an ETA beyond the visibility timeout of the
Redis transport).  A revoked coordinator is discarded if it has not started and
terminated if it has.

Observers, which only properties read: `delivered` counts messages the provider
accepted, `late` counts a worker's messages since the last halt, and `claims`,
`pauses`, `faults` both observe and bound.

### ErpDocuments and Gst

A request that locks its row before it checks (record payment, cancel invoice,
cancel order) is one step.  Issuing is three, because it holds the invoice's
lock while it waits for the sequence's: `IssueLock`, `IssueNumber`,
`IssueCommit`, and `IssueAbort` for every failure in between.  All other requests
load the document, check the copy, and write later: `InvoiceLoad` then
`LineWrite` / `PatchWrite` / `DeleteWrite`, and so on.  `raced` collects the kinds
of requests that wrote although their check, repeated at that moment, would have
refused them.  A property that holds only without a certain race names it:
`Raced({"patch"}) \/ ...`.  That is a statement about the code in both directions:
the race is possible (section 5), and nothing else breaks the property.

The data is abstract: a line is one unit at a price of one, so a document's
value is its number of lines and stock moves by the same amount.

`Gst` has the exact integer arithmetic of `gst.py` in paise and basis points;
`MCErpDocuments` evaluates it against its definition over small ranges.

### Billing

`Deliver` starts an event on a free worker; the handler then goes through
`save` → `load` → `sync` → `tenant` → `refresh` (the caches) → `lock` → `check` →
`number` → `insert`; a cancellation leaves out `tenant`, and all but a charge end
after `refresh`.  Every statement commits by itself up to `lock`; the rest is one
transaction under the row lock on the subscription.  Three things fail: the
worker dies (`Crash`), and Razorpay sends the event again; the handler raises
(`HandlerFails`), and the view answers 200 all the same, so that the event never
comes again; the subscription's signal swallows its own error (`SyncFails`), and
the tenant is not saved.  `answered` keeps the events by how they were answered:
`ok`, `clash` (the INSERT was refused), `error`.  `Tenant.suspend`, `activate` and
`set_trial` save the tenant and then its subscription; the tenant form saves the
row, then repairs it, then the subscription; the trial sweep reads the due
tenants once, then suspends one after the other.

`held` records that the super admin's last decision closed the tenant; `raced`
records that two operations worked on one tenant at a time.  One subscription
per tenant is modelled; the form's read and save are one step; trial time passes
in two steps, `lastDay` and `over`, because the code calls a trial expired when
its `timedelta.days` is 0, up to a day early.

### Requests, Leave and Payroll

In the web modules a request is a record in `req`: the operation `op` and what
it has loaded.  `Start` begins one with what it reads and checks; each of its
writes is a later step.  `met` collects the pairs of operations that were in
progress at the same time (and `{op}` for one that happened in a single
statement), so a property can name the meetings that break it; as in the ERP
model each exemption is there because TLC finds the execution without it.
`mix` fixes the set of operations an execution may use and `MaxRequests` how
many: a bound, chosen per question instead of one small bound for everything.

`Leave` has the rows of one employee: `leave`, `balance`, `att` (attendance per
day), `quota`, `holiday`, `today`.  Where `leave.py` takes a row lock the write
re-reads the row; a PATCH of the balance, the sync and a correction save the
copy they loaded.  A correction also rewrites the note, by which a row names its leave (`{"note"}` in
`met` tells that a row has lost it).  `Payroll` adds `slip` and `claim`: a build computes a payslip
from the attendance and writes it later, every attendance write leaves months to
refresh in `todo`, which the request works off before it ends, and a worker may
die in between.  Days are counted in halves, money by what is paid (days, leaves,
claims) and never in rupees.

### Desk

`LeadDesk` keeps leads, calls, open follow-ups, the queue and a clock.  A pull
sees only what other pulls have committed (`SKIP LOCKED` on the rows); all other
operations load a lead, and save some columns (`update_fields`) or, the edit
form, all.  An outcome is three writes: the lead, the follow-ups it replaces, the new
follow-up with the lead's next date.  `Distribution` has the plans as
functions of the loads, so that they can be proved about; `MCDesk` evaluates
them against the documentation (`PlanIsSound`).  `Presence` has one step for
what closes the open intervals and one for what opens the next and saves the
row; the heartbeat and the sweep decide from what they read before.
`Transcription` has one call's recording: an upload is write, reset, drop the
summary, queue; a task goes from `begin` over `load` and `save` of the summary's
row to `ask`, then writes its result.  `made` numbers audios and transcripts, so
that a property can tell of which audio a transcript is.  A summary saved after
its row was deleted is inserted again, or fails if there is a newer one, as
Django's `save` does.  The broker may refuse a task: an upload logs it and goes
on, and a transcription leaves its summary behind (`{"unsent"}` in `met`).
Features and API key are taken as present.

`Intake` has the leads of one day, `arrived`, with the batch each is in, the rows
of the batches, one import, one source, and `counted`, the number of leads in the
cache (`NoCount` when it has expired).  A webhook or a sync works off its list
`left`: look the number up, compare the count with the plan, find or open
today's batch, create, nudge the count, add to the batch, and at the end save
the source's own counter from the copy loaded first.  An import reads the
numbers once, sorts the rows into new, duplicate and failed (`WithRow`), takes as
many as the plan leaves room for, inserts them in chunks, recounts its batch and
only then writes its result.  `recount` reads the rows and writes in two steps;
the edit form (`Amend`) and the renaming of a batch save the whole row they loaded,
and the form may give a lead another number after looking that up (`renumber`).
What fails after a lead was created leaves it in its batch and in the plan's
count, but not in the source's (`{"halfway"}` in `met`).  These
leads are counted only; `LeadDesk` works with leads that are already there.

### Messages

`Outbox`: a request is queued, handed to the provider, recorded and logged, and
any error starts the task over; `wire` is how far the provider got with each
accepted copy, `post` the receipts it still has to deliver, in any order and
repeatedly.  `Inbox`: up to two handlers take messages up; the endpoint of
`communications` checks and creates in two statements, the one of `integrations`
works in one transaction that first claims the message's key, then reads the
lead and the open thread, and writes from what it read.  A lead may be deleted or
given another number at any time (`LoseLead`): it is `gone`, the leads `Found` by
the number are the others, and its open thread stays, since threads are found by
the number alone.  `endpoint` and the `policy` (who may become a lead, whether a
message reopens a closed one) are settings, fixed at the start.

## 3. Runs

All twelve runs, with two TLC workers, take less than three minutes each.

| Run | Instance | Result |
|---|---|---|
| `campaign_single` | WhatsApp, 2 leads, chunks of 1, 2 workers, 2 admins, 1 scheduler run, 2 launches, no pause, no fault | 369 k states: `SoleOwner`, `AtMostOnce`, `CountersExact`, `CompletedMeansDone`, `ImplementsOutreach`, `Settles` hold |
| `campaign_pause` | e-mail, 2 leads in one chunk, 1 worker, 1 admin, 1 scheduler run, 2 launches, one pause, one fault, one redelivery | 5.15 M states: `TypeOK`, `PromptStop`, `ProcessedStays`, `OutreachUntilFault` hold |
| `campaign_double_send` | 1 lead, 2 workers, pause and relaunch | `AtMostOnce` is violated |
| `campaign_pause_undone` | 1 lead, scheduler, one pause | `PauseHolds` is violated |
| `erp_sales` | 2 requests, 1 quotation, 2 orders, 2 invoices | 1.60 M states: `ChainAgrees` (an order's status follows its invoices, one order per quotation) holds |
| `erp_invoices` | 2 requests, 2 invoices, 2 payments | 2.52 M states: `TypeOK`, `GaplessNumbers`, `NoNumberClash`, `BooksAgree` (balance = receipts, stock = issued lines), `IssuedIsLegal` hold |
| `erp_reverted_invoice` | 2 requests, 1 invoice | `NumberIsKept` is violated |
| `billing_one` | 1 subscription charged twice, halted, cancelled; 2 workers, 1 redelivery, crash or error, 2 decisions, 1 sweep | 1.11 M states: `TypeOK`, `OneInvoicePerPayment`, `AnsweredMeansInvoiced`, `KillSwitchHolds`, `AccessFollows` (a payment reopens, users have their features), `EveryChargeInvoiced` hold |
| `billing_lost_invoice` | 2 subscriptions, one charge each, 2 workers | `AnsweredMeansInvoiced` is violated |
| `hrms` | 2 requests at a time, up to 4; a month of two days and one of one, 2 full leaves sharing a day and a half day, 2 claims; ten mixes | 1.97 M states: `TypeOK`, `BalanceExact`, `BalanceCovered`, `LeaveOnBooks`, `ClaimPaidByItsSlip`, `SlipsAgree` (a draft follows the attendance, a finalized slip is complete), `Frozen` hold |
| `desk` | 2 requests at a time, up to 3 to 6; 2 agents, 2 leads, 2 calls, 3 follow-ups, 1 recording; 2 numbers, deliveries of up to 2 leads, files of 2 rows inserted one by one, a plan of 2 leads; 32 mixes | 1.42 M states: `TypeOK`, `LeadAgrees`, `PresenceAgrees`, `RecordingAgrees`, `IntakeAgrees` (one lead per number, batches, import, source and plan agree with the leads), `OneCheckout`, `StageForward`, `CapHolds` hold |
| `messages` | 1 send with 1 retry, 2 copies; 3 messages of 1 customer with 2 ads, 2 deliveries each, 2 handlers, either endpoint, every policy, leads that are worked and lost | 1.26 M states: `TypeOK`, `ReceiptsAgree`, `InboundKept` hold |

The four violations are the findings of `PROJECT.json`:

* **double send**: a chunk reads the pending rows once and nothing claims a row
  before the provider is called.  After a pause and a relaunch, the old chunk
  (which only looks at the campaign's status) and the new one send to the same
  recipient.
* **pause undone**: a coordinator sets `running` whatever the status is, and the
  scheduler stores no task id that a pause could revoke.
* **reverted invoice**: `InvoiceDetailView.update` checks a loaded copy and saves
  all its columns; if the invoice was issued in between, it is a draft again,
  without its number, and its stock stays out.
* **lost invoice**: the retry for a taken invoice number runs inside the
  transaction that the failed INSERT has broken; the webhook is answered 200 and
  the payment stays without an invoice.

### Bounds, and why they suffice

* *Two of each competitor* (requests, workers, chunks, admins) is the smallest
  number at which two operations overlap.  Each race found needs two actors;
  the theorems of section 4 hold for any number.
* *Two leads, chunk of one or two*: two chunks of one lead each, or one chunk in
  which a pause falls between two recipients.
* *MaxLaunches 2, MaxPauses 1*: pause and relaunch, the shortest history with two
  coordinators for one audience.
* *MaxFaults 1, MaxCopies 1, MaxCrashes 1, MaxErrors 1, MaxRedeliveries 1*: each
  fault at any point of any history; in billing one of the last three per history
  (`OneFault`).  `billing_lost_invoice` needs no fault and allows only a
  redelivery.
* *MaxLines 2*: an edit that adds, one that removes, a partial and a full payment.
* *MaxNumber*: numbers handed out in `erp_invoices` 2, one per invoice; in
  `erp_sales` 1, numbers do not matter there.
* *MaxDecisions 2, MaxSweeps 1*: a suspension that a sweep, a payment and a second
  decision may follow in any order.
* *Mixes and MaxRequests* (`hrms`, `desk`): all operations at once are too many,
  so an execution draws from one of the sets of `Mixes`, the operations that
  write the same rows or race for the same purpose, three to six times.  An
  interference of operations that no mix holds together is not explored; the
  theorems about `Payroll` and `Desk` have no such limit.  `Relevant` fixes what a mix is
  not about: which leads, outcomes and edits occur, the first day, whether there
  is a recording.  In `hook` with `import` a delivery has one lead and a file no
  invalid row; the duplicates a source asks for occur where only webhooks and
  deletions do.
* *MaxLeads 2, Chunk 1*: one lead that is there, one more, and one too many; a chunk
  that is in when the next one fails.
* *LastTick 3, LastMinute 4*: a lock of one tick taken, expired and taken again;
  an agent silent beyond both thresholds.
* *Three follow-ups*: one by hand and two automatic ones, the shortest history in
  which two are open by mistake.
* *Ranks {0, 1}*: the microphone's recording and a better one.
* `PlanIsSound`, an assumption TLC evaluates, compares every plan of up to four
  leads for up to three agents with what `distribution.py` documents.
* *Send 1, Copy 2, MaxRetries 1*: the second copy a retry makes; *MaxPosts 2*: a
  message delivered twice.  `OneSide` looks at sending and receiving separately:
  they share only the table of claims, whose keys differ.
* Other state constraints: `RedeliveryApart` lets a redelivered chunk wait only
  where there was no fault and no scheduler is at work; `FewRaces` ends an ERP execution once two kinds of requests
  have raced in it, so what two races of different kinds can do together is not
  explored (the theorems about numbers and issued invoices have no such limit);
  `RacesApart` keeps a billing execution in which operations have met on a tenant
  to its webhooks (the access properties excuse that tenant anyway, and the
  invoice properties do not depend on its access).  `EveryChargeInvoiced` is
  thus checked for the executions inside `RacesApart` and `OneFault`: all the
  interleavings of webhooks, with a crash, an error or a redelivery, and decisions and sweeps up to the first meeting.
* Every run sets `CHECK_DEADLOCK FALSE`, because histories are bounded: when all launches,
  pauses and events are used up, nothing is left to do.

### Fairness

Safety is checked without fairness.  Two liveness properties use it:

* `Settles` (campaign): weak fairness of each step of a request, scheduler run,
  coordinator and chunk that has begun or is queued.  Celery workers take queued
  messages and a handler runs on unless its process dies, and the run has no
  faults.  No fairness of launching, pausing or of the scheduler's finding the
  campaign.  It is stated for executions without a revoked coordinator; with one
  it fails (section 5).
* `EveryChargeInvoiced` (billing): weak fairness of a worker's steps, of the steps
  that finish an admin request or a sweep (they hold nothing a webhook waits
  for), and of the delivery of an unanswered event while a worker is free:
  Razorpay retries until it gets a 200, and crashes are finitely many.  No fairness
  of anything that fails.  An event that was answered with a handler error does
  not come again, and the property excuses it: the code loses that invoice
  (section 5).  Razorpay
  gives up after a day; an outage longer than that is outside the model.

## 4. Proofs

TLAPS proves the following for every value of the constants, under the named
assumptions of each module (finite sets, distinct null values, bounds that are
numbers): 32,113 obligations in eight modules (counting `Sums`).

| Theorem | States | Argument |
|---|---|---|
| `Campaign_proofs!TypeCorrect` | `[]TypeOK` | `TypeOK` is inductive |
| `LaunchHasOneOwner` | `[]SoleOwner` | `OwnerInv`: while the status is launchable nobody has claimed and no coordinator exists; at most one request, run or coordinator owns the claim, counted across all three |
| `PauseStopsPromptly` | `[]PromptStop` | `PromptInv`: a worker that has sent one message since the halt is not about to send, since it looks at the status before each recipient; while the campaign is open the count is zero |
| `ProcessedRowsStay` | `ProcessedStays` | one lemma per kind of step that writes rows, from `TypeOK` |
| `CompletionIsFinal` | `[]CompletedMeansDone` | `DoneInv`: up to the first pause or fault a chunk exists only when its coordinator has created the rows, and `OwnerInv` leaves no other coordinator, so nobody is added between the last count of pending rows and the write |
| `OneWorkerAtMostOnce` | `AtMostOnce` up to the first fault, if there is one worker | `SendInv`: a pending row has no delivery, except that of the message a worker has in hand; a worker's list holds only pending rows |
| `OneLaunchAtMostOnce` | the same if there is one launch and no redelivery | `SendInv` with `PartitionInv`: the queued chunks, the leads held by workers and those not yet dispatched are disjoint |
| `OneWorkerCounts`, `OneLaunchCounts` | `CountersExact` up to the first fault, under the same two conditions | `CountInv`: a worker that has no chunk in hand has nothing left to add; a send marks one pending row and adds one to one worker's count, and the tally moves that count to the campaign's |
| `OneWorkerOutreach`, `OneLaunchUntilFault` | `OutreachUntilFault` under the same two conditions | step by step: from `SendInv` (and `PartitionInv`) each step of `Campaign` is a step of `Outreach` under the mapping of `CampaignRefinement`, or a stutter |
| `OneLaunchOutreach` | `ImplementsOutreach` if there is one launch, no redelivery and no fault | the same |
| `ErpDocuments_proofs!TypeCorrect` | `[]TypeOK` | with what each kind of request carries (`RequestsOK`) and what a payment row refers to (`PaymentsOK`) |
| `NumbersRunWithoutGaps` | `[]GaplessNumbers` | `DocumentInv`: at most one issue holds a number, it is `seq + 1` and not yet on an invoice; drafts being issued stay drafts; only issued and cancelled invoices have a number |
| `NumbersNeverClash` | `[]NoNumberClash` | from `DocumentInv`, whatever races |
| `IssuedInvoicesAreLegal` | `IssuedIsLegal` | from `DocumentInv`: no locked operation changes an issued invoice's number, lines or total, and an unlocked one that does is in `raced` |
| `ChainHolds` | `[]ChainAgrees` | `ChainInv` restates it without cardinalities, so that each step is followed by what it does to the active invoices of one order and the orders of one quotation; with it, rows not yet created refer to nothing, and from `DocumentInv` a draft being issued is still one |
| `BooksHold` | `[]BooksAgree` | `BooksInv`: unless excused, an invoice's balance is the sum of its payments on file, none of them empty and no more than its total, and the stock is the sum of what the issued invoices took; each step changes at most one term of each sum (`SumChange`) |
| `SplitIsFair`, `InvoiceFoots` | the two halves of the tax add up and differ by at most a paisa; the total is whole rupees with a round-off of -49..50 paise | integer arithmetic, for every amount and rate |
| `Billing_proofs!TypeCorrect` | `[]TypeOK` | with `Serving`: what a handler at each step is serving |
| `PaymentsInvoicedOnce` | `[]OneInvoicePerPayment` | `LedgerInv`: past the lock a worker holds it, and past the check its payment has no invoice; payments belong to one charge, hence to one subscription and one lock |
| `OneSubscriptionLosesNothing` | `[](AnsweredMeansInvoiced /\ answered["clash"] = {})` if all charges are of one subscription: no INSERT is refused, and a handler that returned has left the invoice (one that raised has not, and is in `answered["error"]`) | `LostNothing` adds: at the insert the number read is still the next one, because only the lock's holder inserts |
| `SwitchHolds` | `[]KillSwitchHolds` | `AccessInv`: whoever is at work on a tenant that is not in `raced` is alone, so a handler's copy is the row, a decision in progress has done exactly the steps it is past, and the sweep's due tenants are still the ones it may close |
| `PaidAccess` | `[]AccessFollows` | from `AccessInv`: a charge past the tenant step has opened it, and what an operation that ended left behind carries the features, if no worker died and no error was swallowed (`Faultless`) |
| `Payroll_proofs!TypeCorrect` | `[]TypeOK` | `TypeInv` adds what a request of each kind carries (`Sound`): the month of a build, the date of a correction, a leave's own row |
| `ClaimsPaidOnce` | `[]ClaimPaidByItsSlip` | `SlipInv`: a slip's claims are linked to it and to no other; a build in progress holds claims that were free or its own when it read them, and if no builds meet, nobody else took them |
| `SlipsFrozen` | `Frozen` | from `SlipInv`: only a build or delete that read a draft writes a slip that is no longer one, and the meeting is then in `met` |
| `DaysCovered` | `[]BalanceCovered` | `CoverInv`: an approval checks under the lock it writes under; a PATCH's copy was covered when loaded, and nothing the others do since takes more unless it is in `met` |
| `BalanceHolds` | `[]BalanceExact` | `AccountInv`: a decision in progress has its leave as it found it and to itself, so each leave is charged and refunded once; while the quota is the same a charged leave was charged its days, which the sum of all charges covers; a PATCH or DELETE in progress holds what is used, unless a decision met it |
| `LeaveKept` | `[]LeaveOnBooks` | `BookInv`: an approved leave has its days on the attendance, on leave if they are paid (a check-in only begins on a day that is not, and keeps the leave's note), no two applied leaves overlap (unless two were applied at once), and a sync or correction in progress has not read a day before an approval of it |
| `SlipsHold` | `[]SlipsAgree` | three invariants: `MonthInv` (a final slip, and one about to be, was built after its month), `LeavesInv` (a draft was built from the leaves approved or a refresh or build of it is under way; a slip being finalized and a final one stay so, since decisions find no final slip in their months), `PayInv` (the same for what the attendance rows pay); with `BookInv`, where no leave is for half a day, a day's pay depends on its row alone |
| `DeskTypes_proofs!LeastLoadedKeepsCap`, `RoundRobinKeepsCap`, `EqualSplitKeepsCap` | a plan has the leads' length, names agents of the team or nobody, and gives nobody more than the cap leaves room for, for any leads, agents, loads and cap | each plan is a recursive function; the invariant of its prefix is proved by the least counterexample, since the library's induction theorems take an operator as a parameter, which the available provers cannot instantiate |
| `Sums!SumChange`, `SumNat`, `CountMore` | a sum changes by what one of its terms does; of natural numbers it is at least each of them; one more element of a kind is counted once | the community modules sum by a recursive function that takes the elements in the order `CHOOSE` gives; that it exists, depends on the values alone and on no order is proved by the least counterexample, as for the plans below |
| `DeskTypes_proofs!TypeCorrect` | `[]TypeOK` | `TypeInv`: with what each kind of request and task carries of the rows it loaded, and that the call of a click is its own |
| `Desk_proofs!PresenceHolds` | `[]PresenceAgrees` | `PresenceInv`: at most one agent is half way through a transition, has then the row it loaded and no interval, if it changes the status; all others are settled |
| `RecordingHolds` | `[]RecordingAgrees` | `RecordingInv`: every task in progress works on the audio or the transcript kept, or on one that a queued task or a request still to come replaces; what is "processing" has a task that will say otherwise |
| `OneCheckoutHolds` | `OneCheckout` | `PullInv`: a pull in progress hands its agent's lead out again, or the agent holds none; nothing but a pull, an edit, an assignment or a distribution makes an agent hold one more, and by `MeetInv` that meeting is in `met` |
| `CallsMoveForward` | `StageForward` | `OutcomeInv`: an outcome in progress has the status the lead still has, and its next status is `NextStatus` of it, unless another call, a status or an edit is in `met` with it; then a lemma about `NextStatus` for every status and disposition |
| `CapIsCeiling` | `CapHolds` | `PlanInv`: the plan in hand fits the open leads there are, by the theorems about plans when it is made and since then because nobody's open leads grow but by what is in `met`; the leads named for an agent are injected into the plan's places |
| `LeadHolds` | `[]LeadAgrees` | `LeadInv`, four invariants each with its own excuse in `met`: `FiguresInv` (a call's copy has the lead's figures, and they are those of the calls but the one about to be counted), `AutoInv` (at most one automatic follow-up is open, none where a retry is about to be booked), `NextInv` (the next follow-up a request loaded is the lead's, which is the earliest open one but for the one about to be saved), `OwnersInv` (an open follow-up is its lead's agent's unless the request that moves it is under way) |
| `IntakeHolds` | `[]IntakeAgrees` | `IntakeInv`, eight parts, each with the meetings that excuse it: `IntakeMeets` (who has met), `KeptInv` and `LivesInv` (a copy has the number, unless it is about to change it, and the origin of its lead, which is not deleted), `PhoneInv` (what is looked up, also by the edit form, is not there until it is created or given), `WithinInv` (the count kept, with the leads about to be noted, covers the rows; a request let in leaves room for what it brings), `SourceInv` (what a delivery will save is what came), `ImportInv` (created, updated, doubled and failed rows add up at every step), `BatchInv` (a batch's total, with the leads deliveries are about to add, is that of its leads, unless one that counts is at it) |
| `Messages_proofs!TypeCorrect` | `[]TypeOK` | with `OneOpen`: a handler of the `integrations` endpoint works under the event's claim; the task that records a message has a copy to record |
| `ReceiptsHold` | `[]ReceiptsAgree` | `ReceiptInv`: a row is never ahead of the provider, and of each copy the receipt of how far the provider got is still to come, or is what the row says, or is excused by name |
| `InboundHolds` | `[]InboundKept` | `InboundInv`: what a handler read is still true when it writes, unless deliveries met or the lead is gone; without a meeting at most one lead is found, and the open thread's lead is that one or gone; at the `integrations` endpoint a stored message's key is claimed, so that a repeat stops before it reads |

The two `AtMostOnce` theorems and the violating run delimit each other: two
workers *and* two launches are needed for the double send.  In the same way
`OneSubscriptionLosesNothing` and `billing_lost_invoice` meet at the second
subscription.

The exemptions in the theorems about `Payroll`, `Desk` and `Messages` are those of
the run: what the theorem adds is that *no other* combination of any number of
requests breaks the property.  The argument for `Desk` has one shape throughout.
`MeetInv` says that of two requests in progress the pair of what they are, or of
what they began as, is in `met`; lemmas about the steps say what a load reads
(`Loaded`) and what a write leaves alone (`Footprint`); so a request's copy is
still what the rows say unless the one that changed them met it.

Why `IntakeAgrees` needs so much more than it says: it speaks of the moment when
nothing is in progress, while the counts are kept by requests that carry parts of
them.  A delivery has created leads that neither the source, the batch nor the
cached count knows yet; an import has inserted rows that its job does not; a
recount has a number in hand that it has not written.  Each part of `IntakeInv`
says where the difference is at every step, and is kept by one lemma per kind of
step (`PhoneStays`, `WithinStays`, ...); the other components leave the intake
aside (`Aside`), except that a process that dies may take one of its requests
with it, which excuses the counts but never a second lead of a number.

Only model-checked: the liveness properties `Settles` and `EveryChargeInvoiced`
(liveness under fairness, and ENABLED, are beyond the prover).  Every invariant
and every action property that a passing run checks is proved, those about
double sends, counters, outreach and invoices under the conditions their rows
name.  The theorems about balances, figures and batches assume that the sets
counted or summed over (leaves, workers, payments, invoices, leads, calls,
follow-ups, requests in progress) are finite, as rows of a table are; those about
`Desk` assume a plan with a cap (`MaxLeads` at least 1: 0 is no cap, and
`WithinPlan` then has nothing to say).

## 5. Behaviour the code allows

Met while modelling, visible in the models, and either excused by a named race
or a condition of a property, or left out of any property:

Campaigns
* A relaunch after a pause can leave a campaign `running` with nobody to complete
  it, if the pause's revocation reaches the new coordinator between its rows and
  its chunks; this is why `Settles` assumes no revocation.
* A campaign whose audience resolves to nobody is never completed.
* DND and addresses are looked up when rows or chunks are made, not at the send.
* A pause that loaded a running campaign overwrites a completion written in
  between.
* Skipped recipients are in the total and in no counter, so the progress shown
  never reaches 100 %.

ERP (the races in `raced`)
* A draft deleted while it is issued takes its number away: a hole
  (`views.py` 475-479 promises that deleting drafts leaves none).
* A line added while the invoice is issued is not in its total, stock or tax.
* A payment reversed twice is taken off the balance twice.
* Two conversions make two orders; a quotation edited or re-sent while it is
  converted goes back to draft or differs from its order.
* Two raises give an order two invoices; a raise against a cancellation of the
  order leaves a cancelled order with an active invoice, or the reverse.

Billing
* A suspension by the super admin is lifted by a payment whose handler loaded the
  tenant before it.
* The sweep works from the rows it read: a tenant that has just paid is suspended,
  and one just suspended by the super admin is relabelled as a billing
  suspension, which the next payment lifts.
* A trial is suspended up to a day before it ends.
* Saving the form of a halted or cancelled tenant, whatever was edited, makes it
  an admin suspension that a later payment no longer lifts.
* A charge of an admin-suspended tenant makes its subscription active while the
  tenant stays closed; a charge delivered after the cancellation makes both
  active again.
* Whatever raises in a handler (the cache refresh of `webhooks.py` 167, a lost
  connection, a missing row) is answered 200 with `handler_error`
  (`webhooks.py` 72-79), so Razorpay does not send the event again: a charge then
  has no invoice, with a single subscription and nothing concurrent.
  `AnsweredMeansInvoiced` and `EveryChargeInvoiced` excuse that answer and no other.
* An error in the signal that copies the status to the tenant is only logged
  (`signals.py` 36-37): the tenant keeps the old status, and after a cancellation
  goes on using the platform, until the next event or decision.
* Invoice numbers are compared as text; from 100000 on the highest is not found.

HRMS (the pairs of operations that the properties name)
* A PATCH or DELETE of a balance that meets an approval or a cancellation loses
  the days it charged or returned.
* Leave approved while the quota is 0 is charged nothing; cancelled after a quota
  was set, it refunds days that were never charged (`models.py` 186-188 says a
  request is refunded what it was charged), and the reverse refunds nothing.
* An allocation saved while a leave is approved may leave less than was used.
* Attendance: a sync or a correction that read a day before its leave was
  approved takes the leave off it; two overlapping requests sent at once are both
  accepted, and cancelling the one whose rows by then name the other changes no row
  and refreshes no draft, though the draft was built from both.
* A check-in or check-out that read a day before its leave was approved writes its
  status over the leave's and leaves the note (`attendance.py` 227-233): the row is
  present with the leave's note, and when the day is over the sync closes it from
  the dialer's hours (129-146), to an absence of a paid day if there are none.
* A correction may rewrite the note (`hrms/serializers.py` 111-116), and a leave that
  is cancelled later no longer finds its row (`leave.py` 281-287): the day stays
  what it was corrected to.
* Two months built at once both pay a claim; a slip finalized or paid after a
  build has read it as a draft is written back as a draft, or deleted.
* A draft stays behind the attendance after a reopening, after half-day leave is
  decided, or when the worker dies before the refresh.

Leads and calls
* Two pulls of one agent at once (double tap) hand out two leads
  (`views.py` 1504-1525); a release works from a stale copy and may clear the lock
  another agent has just taken.
* An outcome is computed from an unlocked lead: of two calls that end together the
  later decides status, even of a lead converted in between, and the counters;
  two such outcomes leave two open automatic follow-ups.
* An answered call whose disposition names New or Attempted reopens a closed lead
  below Contacted: the floor of `outcomes.py` 75 is for leads that are open.
* A failed click-to-call writes back the status it read; the edit form
  (`views.py` 385-402) saves every column of its copy, so it undoes whatever
  happened since it was loaded, and a status set there does not mark the lead
  worked as `update_status` does.
* `equal_split` leaves leads over though other agents have room;
  `distribution.py` 88-91 says this happens only when every agent is at the cap.
* Two distributions planned from the same loads exceed `max_per_agent`.
* The sweep sets an agent offline whose heartbeat came after it read the stale
  rows; two transitions of an agent at once leave two intervals open.

Intake
* A webhook's lead created while its batch is recounted is counted never or twice;
  renaming a batch, or the edit form of a lead, saves the whole row it loaded:
  a count goes back, a deleted batch or lead returns.
* The edit form looks up the number it gives to a lead and saves it later
  (`leads/serializers.py` 445-457): if a webhook, a sync, an import, an entry by
  hand or another edit meets it, two live leads have that number.
* An error after a lead was created (custom values or the activity,
  `integrations/views.py` 285-291) leaves it in its batch and in the plan's count,
  while the source does not count it.
* Two requests that look a number up at once both create it; the cap is passed by
  as many leads as meet, by a deletion that is undone, and after a worker died
  between the creation and the nudge.
* A source's "error" is never cleared by a delivery that succeeds
  (`integrations/views.py` 117-124 saves the status it loaded); a delivery that
  fails at its second lead is answered 200 and the first is not in the source's
  count; a lead whose batch was deleted under it is lost the same way.
* A later chunk of an import that fails makes all leads of the file "failed",
  those that are in included, and the plan's cached count misses them.  An
  import whose worker dies stays "processing".

Recordings
* Linking a better audio keeps the old transcript and summary: only the file
  upload resets them, and the queued task finds the call already transcribed
  (`_reset_ai_for_new_audio`, `calls/views.py` 214, says the old ones describe the
  old file).
* A transcription or an analysis in progress when the audio is replaced writes its
  result, of the old audio, afterwards; a summary just deleted is inserted again.
* The backfill queues recordings that are still being transcribed: they are paid
  for twice, and if the second attempt fails a finished transcript is shown as
  failed.

* `analyse_call.delay` may raise at the end of a transcription (`ai/tasks.py` 122):
  the transcript is done and its summary stays "processing", or that of the
  transcript before.

Messages
* A deleted lead, or one that was given another number, keeps its open thread:
  the lead is looked up among those not deleted (`meta_whatsapp.py` 533), the
  thread by the number alone (597-601), so the next message of the number makes
  or finds another lead and sits in the thread of the one that is gone.
* At the `communications` endpoint two overlapping deliveries record a message
  twice.
* A receipt that comes before the row is saved is dropped; at the `integrations`
  endpoint its key is claimed as well, so the repeat is taken for a duplicate.
* The `integrations` endpoint writes a receipt's status whatever the row says: a
  late "delivered" undoes "read", which `whatsapp_webhooks.py` 23 rules out.
* Two first messages of a number at once make two leads, and the second message
  is in a thread of the first lead; two messages from different ads at once leave
  one ad without a thread.
* An error in `process_message` is swallowed by `process_payload`
  (`meta_whatsapp.py` 967-974) and the event is marked processed, so "the retry
  that follows genuinely reprocesses" (796) does not come.
* A lead converted while a delivery that read it as lost is in progress is set
  back to new.
* A send that fails after the provider accepted it is repeated: the customer gets
  it again, and the first copy has no row.

## 6. What is not modelled

* *Inside modelled components*: WhatsApp/SMS/e-mail payloads, rate limits and the
  daily cap; products and customers, quotation totals and validity dates, several
  financial years and document types, drafts made before placeholder numbers, and
  the row locks of products (two cancellations with the same products in opposite
  order may deadlock; the database aborts one, which is `IssueAbort`'s effect);
  `payment.captured` (no code creates the pending invoice it looks for), plan
  changes, the feature cache of the middleware, e-mails.
* *Inside the newer components*: half-day attendance, check-in and check-out times
  that HR enters, salary structure and
  statutory amounts, incentives (linked to their slip as claims are); queue filters and orders,
  reminders, activity log, the provider's call webhook, playback
  of recordings; log-in, tokens, closed intervals and the reports over them;
  tenants without the AI features or a server without the key, usage counters;
  single SMS and e-mail, the receipts of campaign messages, enrichment from the
  Marketing API and notifications; leads that another route (webhook, form, import)
  makes of the customer's number while a message is processed (`Intake` covers
  those routes among themselves).  Of intake: authentication and parsing of
  payloads, field mapping and custom fields, several sources, days and files,
  the distribution after an import, closing of batches, the daily cap, a broker
  that refuses an upload.
* *Left out*: reports (read only), the super admin's and the public site (forms
  and pages), tenants' creation and deletion (schema operations of django-tenants),
  caps on agents and storage, recruitment
  (sequential; a database constraint catches its one race), the Flutter app
  (driven by Android callbacks that are not in the repository), configuration,
  migrations, templates and vendored files.

Most of the repository's 50,000 lines of Python are of that second kind:
serializers, list and report views, admin pages, migrations, providers' payloads
and their tests.  What carries a protocol, a lock, a retry or a counter is in the
services, tasks, webhooks and the write handlers of the views, and those are what
the modules translate.

## 7. Plan

Done, most important first: campaigns, ERP documents, billing, leave and payroll,
the desk (leads, calls, presence, recordings, intake), messages.  Next:

1. **Receipts of campaign messages**, composed with `Campaign`.
2. **The distribution after an import**, composed with `Intake`.

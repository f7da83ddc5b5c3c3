------------------------------ MODULE Campaign ------------------------------
(***************************************************************************)
(* One bulk WhatsApp / email / SMS campaign of one tenant, as the web      *)
(* processes, Celery beat and the bulk_ops workers run it:                 *)
(*                                                                         *)
(*   src/apps/communications/tasks.py   coordinators, chunks, scheduler    *)
(*   src/apps/communications/views.py   the launch and pause endpoints     *)
(*                                                                         *)
(* A step is one database statement or one call of the broker or provider  *)
(* (READ COMMITTED, no ATOMIC_REQUESTS, no transaction in the tasks), so a *)
(* value a process read may be stale by the time it writes. Statements     *)
(* that only write logs are part of the step before them.                  *)
(***************************************************************************)
EXTENDS Integers, FiniteSets, Functions

CONSTANTS
    Lead,         \* the leads a campaign may address
    Worker,       \* bulk_ops worker processes that execute chunks
    Admin,        \* concurrent launch / pause requests
    Beat,         \* concurrent runs of the scheduler task
    Channel,      \* "whatsapp", "email" or "sms"
    ChunkSize,    \* CHUNK_SIZE of tasks.py
    NoLead,       \* a worker has no recipient in hand
    MaxLaunches,  \* bound: coordinator tasks that may be enqueued
    MaxPauses,    \* bound: pause requests accepted while this many are done
    MaxFaults,    \* bound: crashes, broker refusals and database errors
    MaxCopies     \* bound: extra deliveries of one queued chunk message

ASSUME CampaignAssumption ==
    /\ Channel \in {"whatsapp", "email", "sms"}
    /\ ChunkSize \in Nat \ {0}
    /\ NoLead \notin Lead
    /\ IsFiniteSet(Lead) /\ IsFiniteSet(Worker)
    /\ MaxLaunches \in Nat
    /\ MaxPauses \in Nat
    /\ MaxFaults \in Nat
    /\ MaxCopies \in Nat

Task == 1..MaxLaunches     \* ids of coordinator tasks
NoTask == 0                \* celery_task_id = ""

VARIABLES
    status,       \* BulkCampaign.status
    row,          \* CampaignRecipient.status per lead, "none" without a row
    total,        \* BulkCampaign.total_recipients
    sentCount,    \* BulkCampaign.sent_count
    failedCount,  \* BulkCampaign.failed_count
    taskId,       \* BulkCampaign.celery_task_id
    audience,     \* leads that match audience_filters now
    reachable,    \* leads not DND (WhatsApp, SMS) / with an address (email)
    coord,        \* coordinator tasks
    chunkQ,       \* chunk messages waiting in the bulk_ops queue
    worker,       \* chunk executions
    request,      \* launch and pause requests
    sched,        \* scheduler runs, for this campaign
    revoked,      \* coordinator ids broadcast by control.revoke
    \* Observed by the properties only:
    delivered,    \* how often the provider accepted a message for the lead
    late,         \* messages a worker sent since the campaign was last halted
    claims,       \* conditional UPDATEs that won a launch
    pauses,       \* pauses written
    faults        \* faults so far

campaignVars == <<status, total, sentCount, failedCount, taskId>>
bounds == <<claims, pauses, faults>>
vars == <<status, row, total, sentCount, failedCount, taskId, audience, reachable,
          coord, chunkQ, worker, request, sched, revoked, delivered, late,
          claims, pauses, faults>>

LAUNCHABLE_STATUSES == {"draft", "scheduled", "paused"}
HALTED_STATUSES == {"paused", "cancelled", "failed", "completed"}
Statuses == LAUNCHABLE_STATUSES \cup HALTED_STATUSES \cup {"running"}
RowStatuses == {"none", "pending", "sent", "failed", "skipped"}

Chunk == [task : Task, ids : SUBSET Lead, copy : 0..MaxCopies]

IdleCoord == [pc |-> "unused", leads |-> {}]
IdleWorker == [pc |-> "idle", ids |-> {}, todo |-> {}, noAddress |-> {},
               cur |-> NoLead, sent |-> 0, failed |-> 0]
IdleRequest == [pc |-> "idle", prev |-> "draft", task |-> NoTask]

CoordPcs == {"unused", "queued", "started", "resolved", "created", "dispatching", "done"}
WorkerPcs == {"idle", "select", "check", "send", "accepted", "activity",
              "tally", "probe", "close"}
RequestPcs == {"idle", "launch", "claimed", "queued", "pausing", "revoked"}
SchedPcs == {"idle", "scanned", "claimed"}

CoordRec == [pc : CoordPcs, leads : SUBSET Lead]
WorkerRec == [pc : WorkerPcs, ids : SUBSET Lead, todo : SUBSET Lead,
              noAddress : SUBSET Lead, cur : Lead \cup {NoLead}, sent : Nat, failed : Nat]
RequestRec == [pc : RequestPcs, prev : LAUNCHABLE_STATUSES, task : Task \cup {NoTask}]

TypeOK ==
    /\ status \in Statuses
    /\ row \in [Lead -> RowStatuses]
    /\ total \in Nat /\ sentCount \in Nat /\ failedCount \in Nat
    /\ taskId \in Task \cup {NoTask}
    /\ audience \subseteq Lead
    /\ reachable \subseteq Lead
    /\ coord \in [Task -> CoordRec]
    /\ chunkQ \subseteq Chunk
    /\ worker \in [Worker -> WorkerRec]
    /\ request \in [Admin -> RequestRec]
    /\ sched \in [Beat -> SchedPcs]
    /\ revoked \subseteq Task
    /\ delivered \in [Lead -> Nat]
    /\ late \in [Worker -> Nat]
    /\ claims \in Nat /\ pauses \in Nat /\ faults \in Nat

Init ==
    /\ status \in {"draft", "scheduled"}
    /\ row = [l \in Lead |-> "none"]
    /\ total = 0 /\ sentCount = 0 /\ failedCount = 0
    /\ taskId = NoTask
    /\ audience \in SUBSET Lead
    /\ reachable = Lead
    /\ coord = [c \in Task |-> IdleCoord]
    /\ chunkQ = {}
    /\ worker = [w \in Worker |-> IdleWorker]
    /\ request = [a \in Admin |-> IdleRequest]
    /\ sched = [b \in Beat |-> "idle"]
    /\ revoked = {}
    /\ delivered = [l \in Lead |-> 0]
    /\ late = [w \in Worker |-> 0]
    /\ claims = 0 /\ pauses = 0 /\ faults = 0

Pending == {l \in Lead : row[l] = "pending"}
Halted == status \in HALTED_STATUSES
\* The campaign runs (again): messages sent since a halt count from zero.
Resume == late' = [w \in Worker |-> 0]
Fault == faults < MaxFaults /\ faults' = faults + 1

-----------------------------------------------------------------------------
(* BulkCampaignLaunchView and BulkCampaignPauseView: one handler run per   *)
(* element of Admin at a time.                                             *)

SetRequest(a, pc, prev, task) ==
    request' = [request EXCEPT ![a] = [pc |-> pc, prev |-> prev, task |-> task]]
GoRequest(a, pc) == request' = [request EXCEPT ![a].pc = pc]
EndRequest(a) == request' = [request EXCEPT ![a] = IdleRequest]
requestFrame == <<row, total, sentCount, failedCount, audience, reachable,
                  chunkQ, worker, sched, delivered>>

\* The handler loads the campaign; the template and provider checks that may
\* refuse the request follow, and leave no trace.
LaunchRead(a) ==
    /\ request[a].pc = "idle"
    /\ status \in LAUNCHABLE_STATUSES
    /\ claims < MaxLaunches
    /\ SetRequest(a, "launch", status, NoTask)
    /\ UNCHANGED <<requestFrame, late, status, taskId, coord, revoked, bounds>>

\* The status filter of the launch's UPDATE.
ClaimableAlways == TRUE
Claimable == status \in LAUNCHABLE_STATUSES

\* UPDATE ... SET status = running WHERE status IN (launchable): 409 if no
\* row matched.
LaunchClaim(a) ==
    /\ request[a].pc = "launch"
    /\ \/ /\ Claimable
          /\ claims < MaxLaunches
          /\ status' = "running"
          /\ claims' = claims + 1
          /\ Resume
          /\ GoRequest(a, "claimed")
       \/ /\ ~Claimable
          /\ EndRequest(a)
          /\ UNCHANGED <<status, claims, late>>
    /\ UNCHANGED <<requestFrame, taskId, coord, revoked, pauses, faults>>

\* apply_async put the coordinator on the bulk_ops queue.
LaunchDispatch(a) ==
    /\ request[a].pc = "claimed"
    /\ \E c \in Task :
          /\ coord[c].pc = "unused"
          /\ coord' = [coord EXCEPT ![c].pc = "queued"]
          /\ SetRequest(a, "queued", request[a].prev, c)
    /\ UNCHANGED <<requestFrame, late, status, taskId, revoked, bounds>>

\* apply_async raised: the campaign gets the status the handler read.
LaunchGiveBack(a) ==
    /\ request[a].pc = "claimed"
    /\ Fault
    /\ status' = IF status = "running" THEN request[a].prev ELSE status
    /\ EndRequest(a)
    /\ UNCHANGED <<requestFrame, late, taskId, coord, revoked, claims, pauses>>

LaunchSaveTaskId(a) ==
    /\ request[a].pc = "queued"
    /\ taskId' = request[a].task
    /\ EndRequest(a)
    /\ UNCHANGED <<requestFrame, late, status, coord, revoked, bounds>>

PauseRead(a) ==
    /\ request[a].pc = "idle"
    /\ status = "running"
    /\ pauses < MaxPauses
    /\ SetRequest(a, "pausing", "draft", taskId)
    /\ UNCHANGED <<requestFrame, late, status, taskId, coord, revoked, bounds>>

\* revoke(terminate=True), when the row the handler read names a task.
PauseRevoke(a) ==
    /\ request[a].pc = "pausing"
    /\ revoked' = revoked \cup ({request[a].task} \ {NoTask})
    /\ GoRequest(a, "revoked")
    /\ UNCHANGED <<requestFrame, late, status, taskId, coord, bounds>>

\* campaign.save(update_fields=["status"]): no condition on the row's status.
PauseWrite(a) ==
    /\ request[a].pc = "revoked"
    /\ status' = "paused"
    /\ pauses' = pauses + 1
    /\ EndRequest(a)
    /\ UNCHANGED <<requestFrame, late, taskId, coord, revoked, claims, faults>>

\* The web process dies between two statements of a handler.
RequestCrash(a) ==
    /\ request[a].pc # "idle"
    /\ Fault
    /\ EndRequest(a)
    /\ UNCHANGED <<requestFrame, late, status, taskId, coord, revoked, claims, pauses>>

RequestStep(a) ==
    \/ LaunchClaim(a) \/ LaunchDispatch(a) \/ LaunchSaveTaskId(a)
    \/ PauseRevoke(a) \/ PauseWrite(a)

-----------------------------------------------------------------------------
(* launch_scheduled_campaigns, for this campaign. Runs may overlap: beat   *)
(* enqueues one every few minutes whatever happened to the last.           *)

schedFrame == <<row, total, sentCount, failedCount, taskId, audience, reachable,
                chunkQ, worker, request, revoked, delivered>>

\* The due campaigns are read into a list.
SchedScan(b) ==
    /\ sched[b] = "idle"
    /\ status = "scheduled"
    /\ sched' = [sched EXCEPT ![b] = "scanned"]
    /\ UNCHANGED <<schedFrame, late, status, coord, bounds>>

\* whatsapp_launch_problem found a reason not to send.
SchedRefuse(b) ==
    /\ sched[b] = "scanned"
    /\ Channel = "whatsapp"
    /\ status' = IF status = "scheduled" THEN "failed" ELSE status
    /\ sched' = [sched EXCEPT ![b] = "idle"]
    /\ UNCHANGED <<schedFrame, late, coord, bounds>>

SchedClaim(b) ==
    /\ sched[b] = "scanned"
    /\ \/ /\ status = "scheduled"
          /\ claims < MaxLaunches
          /\ status' = "running"
          /\ claims' = claims + 1
          /\ Resume
          /\ sched' = [sched EXCEPT ![b] = "claimed"]
       \/ /\ status # "scheduled"
          /\ sched' = [sched EXCEPT ![b] = "idle"]
          /\ UNCHANGED <<status, claims, late>>
    /\ UNCHANGED <<schedFrame, coord, pauses, faults>>

\* The task id is not kept.
SchedDispatch(b) ==
    /\ sched[b] = "claimed"
    /\ \E c \in Task :
          /\ coord[c].pc = "unused"
          /\ coord' = [coord EXCEPT ![c].pc = "queued"]
    /\ sched' = [sched EXCEPT ![b] = "idle"]
    /\ UNCHANGED <<schedFrame, late, status, bounds>>

\* apply_async raised or the worker died: nothing gives the campaign back.
SchedCrash(b) ==
    /\ sched[b] # "idle"
    /\ Fault
    /\ sched' = [sched EXCEPT ![b] = "idle"]
    /\ UNCHANGED <<schedFrame, late, status, coord, claims, pauses>>

SchedStep(b) == SchedClaim(b) \/ SchedDispatch(b)

-----------------------------------------------------------------------------
(* The coordinator tasks: send_bulk_whatsapp_campaign and its two siblings. *)

CoordTo(c, pc, leads) == coord' = [coord EXCEPT ![c] = [pc |-> pc, leads |-> leads]]
coordFrame == <<sentCount, failedCount, taskId, audience, reachable, worker,
                request, sched, revoked, delivered>>

\* A worker takes the task, loads the campaign and saves status = running
\* without looking at the status it loaded. Workers drop a revoked task.
CoordStart(c) ==
    /\ coord[c].pc = "queued"
    /\ c \notin revoked
    /\ status' = "running"
    /\ Resume
    /\ CoordTo(c, "started", {})
    /\ UNCHANGED <<coordFrame, row, total, chunkQ, bounds>>

CoordDiscard(c) ==
    /\ coord[c].pc = "queued"
    /\ c \in revoked
    /\ CoordTo(c, "done", {})
    /\ UNCHANGED <<coordFrame, late, status, row, total, chunkQ, bounds>>

\* The audience filters are resolved into a list of leads; leads that are DND
\* (WhatsApp, SMS) or without an address (email) get no recipient row.
CoordResolve(c) ==
    /\ coord[c].pc = "started"
    /\ CoordTo(c, "resolved", audience \cap reachable)
    /\ UNCHANGED <<coordFrame, late, status, row, total, chunkQ, bounds>>

\* The daily cap of the plan refuses the campaign: _fail_campaign.
CoordRefused(c) ==
    /\ coord[c].pc = "resolved"
    /\ status' = "failed"
    /\ CoordTo(c, "done", {})
    /\ UNCHANGED <<coordFrame, late, row, total, chunkQ, bounds>>

\* bulk_create(ignore_conflicts=True): a row that exists is left alone.
NewRowsQueued(leads) ==
    [l \in Lead |-> IF l \in leads /\ row[l] = "none" THEN "queued" ELSE row[l]]
NewRowsReset(leads) == [l \in Lead |-> IF l \in leads THEN "pending" ELSE row[l]]
NewRows(leads) ==
    [l \in Lead |-> IF l \in leads /\ row[l] = "none" THEN "pending" ELSE row[l]]

CoordCreateRows(c) ==
    /\ coord[c].pc = "resolved"
    /\ row' = NewRows(coord[c].leads)
    /\ total' = Cardinality({l \in Lead : row'[l] # "none"})
    /\ CoordTo(c, "created", {})
    /\ UNCHANGED <<coordFrame, late, status, chunkQ, bounds>>

\* recipient_ids = the pending rows of the campaign.
CoordSelect(c) ==
    /\ coord[c].pc = "created"
    /\ CoordTo(c, "dispatching", Pending)
    /\ UNCHANGED <<coordFrame, late, status, row, total, chunkQ, bounds>>

\* One turn of the dispatch loop. The countdown only delays the message.
ChunkSizeFor(leads) ==
    IF Cardinality(leads) < ChunkSize THEN Cardinality(leads) ELSE ChunkSize

CoordDispatch(c) ==
    /\ coord[c].pc = "dispatching"
    /\ coord[c].leads # {}
    /\ \E ids \in SUBSET coord[c].leads :
          /\ Cardinality(ids) = ChunkSizeFor(coord[c].leads)
          /\ chunkQ' = chunkQ \cup {[task |-> c, ids |-> ids, copy |-> 0]}
          /\ CoordTo(c, "dispatching", coord[c].leads \ ids)
    /\ UNCHANGED <<coordFrame, late, status, row, total, bounds>>

CoordFinish(c) ==
    /\ coord[c].pc = "dispatching"
    /\ coord[c].leads = {}
    /\ CoordTo(c, "done", {})
    /\ UNCHANGED <<coordFrame, late, status, row, total, chunkQ, bounds>>

Executing(c) == coord[c].pc \in {"started", "resolved", "created", "dispatching"}

\* A broker or database error inside the coordinator's try block.
CoordError(c) ==
    /\ Executing(c)
    /\ Fault
    /\ status' = "failed"
    /\ CoordTo(c, "done", {})
    /\ UNCHANGED <<coordFrame, late, row, total, chunkQ, claims, pauses>>

\* The worker process is lost. Tasks are acknowledged when they start
\* (task_acks_late is not set), so the task does not run again.
CoordCrash(c) ==
    /\ Executing(c)
    /\ Fault
    /\ CoordTo(c, "done", {})
    /\ UNCHANGED <<coordFrame, late, status, row, total, chunkQ, claims, pauses>>

\* SIGTERM from revoke(terminate=True), at any moment of the execution.
CoordKilled(c) ==
    /\ Executing(c)
    /\ c \in revoked
    /\ CoordTo(c, "done", {})
    /\ UNCHANGED <<coordFrame, late, status, row, total, chunkQ, bounds>>

CoordStep(c) ==
    \/ CoordStart(c) \/ CoordDiscard(c) \/ CoordResolve(c) \/ CoordRefused(c)
    \/ CoordCreateRows(c) \/ CoordSelect(c) \/ CoordDispatch(c) \/ CoordFinish(c)

-----------------------------------------------------------------------------
(* The chunk tasks: send_whatsapp_chunk, send_email_chunk, send_sms_chunk. *)

W(w) == worker[w]
chunkFrame == <<total, taskId, audience, reachable, coord, request, sched,
                revoked, bounds>>
SetWorker(w, record) == worker' = [worker EXCEPT ![w] = record]
GoWorker(w, pc) == worker' = [worker EXCEPT ![w].pc = pc]

\* The rows of a chunk that may still be sent.
SelectableAnyStatus(ids) == {l \in ids : row[l] # "none"}
Selectable(ids) == {l \in ids : row[l] = "pending"}

\* _campaign_halted, as the chunk consults it between two recipients.
StopNowNever == FALSE
StopNow == Halted

\* The message is acknowledged; the chunk returns at once if the campaign is
\* halted.
ChunkStart(w) ==
    /\ W(w).pc = "idle"
    /\ \E m \in chunkQ :
          /\ chunkQ' = chunkQ \ {m}
          /\ SetWorker(w, IF Halted THEN IdleWorker
                          ELSE [IdleWorker EXCEPT !.pc = "select", !.ids = m.ids])
    /\ UNCHANGED <<chunkFrame, status, row, sentCount, failedCount, delivered, late>>

\* if not lead.email, on the leads read with the recipients: email only.
WithoutAddress(todo) == IF Channel = "email" THEN todo \ reachable ELSE {}

\* The recipients of the chunk are read once, with their leads.
ChunkSelect(w) ==
    /\ W(w).pc = "select"
    /\ LET todo == Selectable(W(w).ids) IN
       SetWorker(w, [IdleWorker EXCEPT !.pc = "check", !.todo = todo,
                                       !.noAddress = WithoutAddress(todo)])
    /\ UNCHANGED <<chunkFrame, chunkQ, status, row, sentCount, failedCount, delivered, late>>

\* No connected WhatsApp provider, or no SMTP connection: one UPDATE fails
\* every recipient of the chunk that is still pending.
ChunkFailAll(w) ==
    /\ W(w).pc = "select"
    /\ Channel # "sms"
    /\ LET marked == {l \in W(w).ids : row[l] = "pending"} IN
       /\ row' = [l \in Lead |-> IF l \in marked THEN "failed" ELSE row[l]]
       /\ SetWorker(w, [IdleWorker EXCEPT !.pc = "tally", !.failed = Cardinality(marked)])
    /\ UNCHANGED <<chunkFrame, chunkQ, status, sentCount, failedCount, delivered, late>>

\* The loop ends, by exhaustion or by the halt check, or takes a recipient.
ChunkEndLoop(w) ==
    /\ W(w).pc = "check"
    /\ W(w).todo = {} \/ StopNow
    /\ GoWorker(w, "tally")
    /\ UNCHANGED <<chunkFrame, chunkQ, status, row, sentCount, failedCount, delivered, late>>

ChunkTake(w) ==
    /\ W(w).pc = "check"
    /\ ~StopNow
    /\ \E l \in W(w).todo \ W(w).noAddress :
          SetWorker(w, [W(w) EXCEPT !.pc = "send", !.cur = l, !.todo = @ \ {l}])
    /\ UNCHANGED <<chunkFrame, chunkQ, status, row, sentCount, failedCount, delivered, late>>

\* Email only: the lead has no address any more.
ChunkSkip(w) ==
    /\ W(w).pc = "check"
    /\ ~StopNow
    /\ \E l \in W(w).todo \cap W(w).noAddress :
          /\ row' = [row EXCEPT ![l] = "skipped"]
          /\ SetWorker(w, [W(w) EXCEPT !.todo = @ \ {l}])
    /\ UNCHANGED <<chunkFrame, chunkQ, status, sentCount, failedCount, delivered, late>>

\* The provider accepts the message: a real message to a real customer.
ChunkSend(w) ==
    /\ W(w).pc = "send"
    /\ delivered' = [delivered EXCEPT ![W(w).cur] = @ + 1]
    /\ late' = [late EXCEPT ![w] = IF Halted THEN @ + 1 ELSE @]
    /\ GoWorker(w, "accepted")
    /\ UNCHANGED <<chunkFrame, chunkQ, status, row, sentCount, failedCount>>

SentOne(w) == SetWorker(w, [W(w) EXCEPT !.pc = "check", !.cur = NoLead, !.sent = @ + 1])

\* The message is logged and the row saved as sent. WhatsApp writes a lead
\* activity next; email and SMS count the message at once.
ChunkMarkSent(w) ==
    /\ W(w).pc = "accepted"
    /\ row' = [row EXCEPT ![W(w).cur] = "sent"]
    /\ IF Channel = "whatsapp" THEN GoWorker(w, "activity") ELSE SentOne(w)
    /\ UNCHANGED <<chunkFrame, chunkQ, status, sentCount, failedCount, delivered, late>>

ChunkLogActivity(w) ==
    /\ W(w).pc = "activity"
    /\ SentOne(w)
    /\ UNCHANGED <<chunkFrame, chunkQ, status, row, sentCount, failedCount, delivered, late>>

\* The except clause: the provider refused the message, or a statement after
\* its acceptance raised.
ChunkMarkFailed(w) ==
    /\ W(w).pc \in {"send", "accepted", "activity"}
    /\ row' = [row EXCEPT ![W(w).cur] = "failed"]
    /\ SetWorker(w, [W(w) EXCEPT !.pc = "check", !.cur = NoLead, !.failed = @ + 1])
    /\ UNCHANGED <<chunkFrame, chunkQ, status, sentCount, failedCount, delivered, late>>

\* sent_count = F("sent_count") + sent, and the same for failed_count.
AddToCounterStale(counter, n) == n
AddToCounter(counter, n) == counter + n

ChunkTally(w) ==
    /\ W(w).pc = "tally"
    /\ sentCount' = AddToCounter(sentCount, W(w).sent)
    /\ failedCount' = AddToCounter(failedCount, W(w).failed)
    /\ SetWorker(w, [IdleWorker EXCEPT !.pc = "probe"])
    /\ UNCHANGED <<chunkFrame, chunkQ, status, row, delivered, late>>

\* _check_campaign_completion counts the pending rows ...
NothingPendingIgnored == TRUE
AllSentByCounter == total > 0 /\ sentCount >= total
NothingPending == Pending = {}

ChunkProbe(w) ==
    /\ W(w).pc = "probe"
    /\ GoWorker(w, IF NothingPending THEN "close" ELSE "idle")
    /\ UNCHANGED <<chunkFrame, chunkQ, status, row, sentCount, failedCount, delivered, late>>

\* ... and completes the campaign if it is (still) running.
ChunkClose(w) ==
    /\ W(w).pc = "close"
    /\ status' = IF status = "running" THEN "completed" ELSE status
    /\ GoWorker(w, "idle")
    /\ UNCHANGED <<chunkFrame, chunkQ, row, sentCount, failedCount, delivered, late>>

\* The worker process is lost or the time limit kills it. The message was
\* acknowledged when the chunk started.
ChunkCrash(w) ==
    /\ W(w).pc # "idle"
    /\ Fault
    /\ SetWorker(w, IdleWorker)
    /\ UNCHANGED <<total, taskId, audience, reachable, coord, request, sched, revoked,
                   claims, pauses, chunkQ, status, row, sentCount, failedCount, delivered, late>>

WorkerStep(w) ==
    \/ ChunkStart(w) \/ ChunkSelect(w) \/ ChunkFailAll(w) \/ ChunkEndLoop(w)
    \/ ChunkTake(w) \/ ChunkSkip(w) \/ ChunkSend(w) \/ ChunkMarkSent(w)
    \/ ChunkLogActivity(w) \/ ChunkMarkFailed(w) \/ ChunkTally(w)
    \/ ChunkProbe(w) \/ ChunkClose(w)

-----------------------------------------------------------------------------
(* The surroundings.                                                       *)

envFrame == <<status, row, total, sentCount, failedCount, taskId, coord, worker,
              request, sched, revoked, delivered, late, bounds>>

\* A lead is created, or edited so that it matches the filters.
LeadJoins(l) ==
    /\ l \notin audience
    /\ audience' = audience \cup {l}
    /\ UNCHANGED <<envFrame, reachable, chunkQ>>

\* A lead is marked DND, or its email address is removed.
LeadUnreachable(l) ==
    /\ l \in reachable
    /\ reachable' = reachable \ {l}
    /\ UNCHANGED <<envFrame, audience, chunkQ>>

\* The broker delivers a waiting chunk message once more: a message held for
\* its countdown longer than the Redis visibility timeout.
Redeliver(m) ==
    /\ m.copy < MaxCopies
    /\ chunkQ' = chunkQ \cup {[m EXCEPT !.copy = @ + 1]}
    /\ UNCHANGED <<envFrame, audience, reachable>>

-----------------------------------------------------------------------------

AdminNext(a) ==
    \/ LaunchRead(a) \/ LaunchClaim(a) \/ LaunchDispatch(a) \/ LaunchGiveBack(a)
    \/ LaunchSaveTaskId(a) \/ PauseRead(a) \/ PauseRevoke(a) \/ PauseWrite(a)
    \/ RequestCrash(a)

BeatNext(b) ==
    \/ SchedScan(b) \/ SchedRefuse(b) \/ SchedClaim(b) \/ SchedDispatch(b) \/ SchedCrash(b)

CoordNext(c) == CoordStep(c) \/ CoordError(c) \/ CoordCrash(c) \/ CoordKilled(c)

WorkerNext(w) == WorkerStep(w) \/ ChunkCrash(w)

EnvNext ==
    \/ \E l \in Lead : LeadJoins(l) \/ LeadUnreachable(l)
    \/ \E m \in chunkQ : Redeliver(m)

Next ==
    \/ \E a \in Admin : AdminNext(a)
    \/ \E b \in Beat : BeatNext(b)
    \/ \E c \in Task : CoordNext(c)
    \/ \E w \in Worker : WorkerNext(w)
    \/ EnvNext

Spec == Init /\ [][Next]_vars

\* Handlers and tasks run to their end unless they crash; nobody has to press
\* a button, and the scheduler need not find this campaign.
Fairness ==
    /\ \A a \in Admin : WF_vars(RequestStep(a))
    /\ \A b \in Beat : WF_vars(SchedStep(b))
    /\ \A c \in Task : WF_vars(CoordStep(c))
    /\ \A w \in Worker : WF_vars(WorkerStep(w))

FairSpec == Spec /\ Fairness

-----------------------------------------------------------------------------
(* Correctness.                                                            *)

\* A launch has one owner: the conditional UPDATEs of two clicks and of the
\* scheduler let a second coordinator through only after a pause, or after a
\* broker failure gave the campaign back.
SoleOwner ==
    pauses = 0 /\ faults = 0 =>
        /\ \A c, d \in Task : coord[c].pc # "unused" /\ coord[d].pc # "unused" => c = d
        /\ status \in LAUNCHABLE_STATUSES => \A c \in Task : coord[c].pc = "unused"

\* Nobody receives the message of a campaign twice ("a real message to a real
\* customer, twice", tasks.py).
AtMostOnce == \A l \in Lead : delivered[l] <= 1

\* Pause, failure and completion stop a chunk between two recipients: each
\* worker sends at most the one message it already had in hand.
PromptStop == \A w \in Worker : late[w] <= 1

\* A recipient that was processed never becomes pending again, whatever
\* relaunches, redeliveries and late chunks do to its row.
ProcessedStays ==
    [][\A l \in Lead : row[l] \in {"sent", "failed", "skipped"} =>
          row'[l] \in {"sent", "failed", "skipped"}]_vars

\* The counters of the campaign and those the running chunks have yet to add
\* account for every processed recipient, exactly once.
Rows(st) == Cardinality({l \in Lead : row[l] = st})
CountersExact ==
    /\ Rows("sent") = sentCount + SumFunction([w \in Worker |-> worker[w].sent])
                      + Cardinality({w \in Worker : worker[w].pc = "activity"})
    /\ Rows("failed") = failedCount + SumFunction([w \in Worker |-> worker[w].failed])

\* A completed campaign has no recipient left to send to.
CompletedMeansDone == status = "completed" => Pending = {}

\* A paused campaign runs again only when a launch claims it.
PauseHolds ==
    [][status = "paused" /\ status' = "running" => claims' = claims + 1]_vars

\* While recipients are pending, a running campaign does not stay running: it
\* completes, fails or is paused. (Unless a pause revoked a coordinator: the
\* signal may arrive after the relaunch and kill one between its rows and its
\* chunks.)
Settles ==
    (status = "running" /\ Pending # {} /\ revoked = {})
        ~> (status # "running" \/ revoked # {})
=============================================================================

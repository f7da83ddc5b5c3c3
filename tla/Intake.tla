------------------------------- MODULE Intake -------------------------------
(***************************************************************************)
(* How leads arrive and leave:                                             *)
(*                                                                         *)
(*   src/apps/integrations/views.py, meta_sync.py   webhooks, manual sync  *)
(*   src/apps/leads/tasks.py                        import of a file       *)
(*   src/apps/leads/views.py, serializers.py        by hand, deletion      *)
(*   src/apps/leads/models.py                       batches                *)
(*   src/apps/core/quotas.py                        the plan's cap         *)
(*                                                                         *)
(* All look a number up before they create a lead, count leads in a cache, *)
(* and keep the count of a batch in its row; nothing is locked.  One day,  *)
(* one source, one file.                                                   *)
(***************************************************************************)
EXTENDS Requests, SequencesExt

CONSTANTS
    Phone,      \* numbers
    Invalid,    \* a row of a file without a valid number or name
    Deliveries, \* what a source may send or list, as sequences of numbers
    Files,      \* files that may be uploaded, as sequences of their rows
    Chunk,      \* leads in one INSERT of an import
    MaxLeads    \* Plan.max_leads; 0 is no cap (quotas.py)

ASSUME IntakeAssumption ==
    /\ Invalid \notin Phone /\ Deliveries \subseteq Seq(Phone) \ {<<>>} /\ Files \subseteq Seq(Phone \cup {Invalid})
    /\ Chunk \in Nat \ {0} /\ MaxLeads \in Nat \ {0}

VARIABLES
    arrived,   \* Lead rows, in the order of creation
    batches,   \* LeadBatch rows, by number
    job,       \* the LeadImportJob
    source,    \* the LeadSourceConfig
    counted    \* the cached number of leads

intakeVars == <<arrived, batches, job, source, counted>>

\* batch: 0 for NULL; from: how it came.
Arrival == [phone : Phone, batch : Nat, live : BOOLEAN, from : {"hand", "hook", "file"}]
\* kind: today's batch of the source or one of a file; none when deleted.
BatchRec == [kind : {"webhook", "import", "none"}, total : Nat]
JobRec == [st : {"none", "pending", "processing", "completed", "partial", "failed"}, rows : Seq(Phone \cup {Invalid}),
           rule : {"skip", "update", "create_new"}, total : Nat, ok : Nat, failed : Nat, dup : Nat]
NoJob == [st |-> "none", rows |-> <<>>, rule |-> "skip", total |-> 0, ok |-> 0, failed |-> 0, dup |-> 0]
SourceRec == [on : BOOLEAN, st : {"active", "inactive", "error"}, rule : {"skip", "create_new"}, received : Nat]
NoCount == MaxLeads + 100   \* the cache has no count

Live(p) == {i \in DOMAIN arrived : arrived[i].phone = p /\ arrived[i].live}
LiveLeads == Cardinality({i \in DOMAIN arrived : arrived[i].live})
Exists(b) == b \in DOMAIN batches /\ batches[b].kind # "none"
Today == {b \in DOMAIN batches : batches[b].kind = "webhook"}
\* What recount counts.
InBatch(b) == Cardinality({i \in DOMAIN arrived : arrived[i].batch = b /\ arrived[i].live})

Intakes == {"hook", "sync"}
Update(r, fields) == req' = [req EXCEPT ![r] = fields]
\* A row that refers to a batch; the batch may be gone.
Refers(b) == b = 0 \/ Exists(b)

-----------------------------------------------------------------------------
(* The plan's cap: a count that is kept a minute and nudged.                *)

\* The next lead of a webhook or sync.
NextLead(w, created) ==
    [w EXCEPT !.left = Tail(@), !.made = @ + created, !.batch = 0,
              !.next = IF Len(w.left) = 1 THEN "config" ELSE "look"]
\* A lead that fails is left out by a lenient source and ends the delivery of
\* another.
Fails(w) == IF w.lenient THEN NextLead(w, 0) ELSE [w EXCEPT !.next = "error"]

\* How many more the count allows; a webhook that may not create one fails,
\* a sync stops, an import leaves rows out.
Admitted(w, n) == LET allowance == IF n < MaxLeads THEN MaxLeads - n ELSE 0 IN
    CASE w.op = "import" ->
            LET most == IF Len(w.new) < allowance THEN Len(w.new) ELSE allowance IN
            [w EXCEPT !.new = SubSeq(@, 1, most), !.failed = @ + (Len(w.new) - most),
                      !.next = IF most = 0 THEN "recount" ELSE "bulk"]
      [] w.op = "hand" -> [w EXCEPT !.next = IF allowance > 0 THEN "create" ELSE "end"]
      [] w.op \in Intakes /\ allowance > 0 -> [w EXCEPT !.next = "batch"]
      [] w.op = "sync" /\ allowance = 0 -> [w EXCEPT !.next = "config"]
      [] w.op = "hook" /\ allowance = 0 -> Fails(w)

\* The count in the cache, or the rows' and then the cache is set.
Counted(w) == IF counted # NoCount THEN Admitted(w, counted) ELSE [w EXCEPT !.n = LiveLeads, !.next = "cache"]
CacheCount(r) == LET w == Admitted(req[r], req[r].n) IN
    /\ At(r, Intakes \cup {"hand", "import"}, "cache")
    /\ counted' = req[r].n
    /\ IF w.next = "end" THEN Finish(r) ELSE Update(r, w)
    /\ UNCHANGED <<arrived, batches, job, source, met, started, mix, crashed>>

\* note_leads_created
Nudged(n) == IF counted = NoCount THEN NoCount ELSE counted + n

Expires ==
    /\ "expire" \in mix /\ counted # NoCount
    /\ counted' = NoCount
    /\ UNCHANGED <<arrived, batches, job, source, req, met, started, mix, crashed>>

-----------------------------------------------------------------------------
(* Webhooks and sync: the leads of one delivery, or of the provider's list, *)
(* in turn.  A lenient source (IndiaMART) leaves out a lead that fails, as  *)
(* a sync does; the others stop at it.                                      *)

\* A number that is known is left out where the source's rule says so.
LookedUp(w) == IF Live(Head(w.left)) # {} /\ w.copy.rule = "skip" THEN NextLead(w, 0) ELSE Counted(w)
Intaking(op, left, lenient) ==
    LookedUp([op |-> op, next |-> "look", left |-> left, lenient |-> lenient, copy |-> source, batch |-> 0, n |-> 0, made |-> 0])

\* A source that is switched off is refused; sync does not look.
Deliver(r, left, lenient) ==
    /\ source.on
    /\ Start(r, "hook", Intaking("hook", left, lenient))
    /\ UNCHANGED <<intakeVars, mix, crashed>>
SyncNow(r, left) ==
    /\ Start(r, "sync", Intaking("sync", left, TRUE))
    /\ UNCHANGED <<intakeVars, mix, crashed>>
LookUp(r) ==
    /\ At(r, Intakes, "look")
    /\ Update(r, LookedUp(req[r]))
    /\ UNCHANGED <<intakeVars, met, started, mix, crashed>>

\* open_for_source: of two that open today's batch, one finds the other's.
TodaysBatch(r) ==
    /\ At(r, Intakes, "batch")
    /\ batches' = IF Today # {} THEN batches ELSE Append(batches, [kind |-> "webhook", total |-> 0])
    /\ Update(r, [req[r] EXCEPT !.next = "create",
                                !.batch = IF Today # {} THEN Min(Today) ELSE Len(batches')])
    /\ UNCHANGED <<arrived, job, source, counted, met, started, mix, crashed>>

NewLead(p, b, from) == [phone |-> p, batch |-> b, live |-> TRUE, from |-> from]

CreateLead(r) == LET w == req[r] IN
    /\ At(r, Intakes \cup {"hand"}, "create") /\ Refers(w.batch)
    /\ arrived' = Append(arrived, NewLead(Head(w.left), w.batch, IF w.op = "hand" THEN "hand" ELSE "hook"))
    /\ Goto(r, "note")
    /\ UNCHANGED <<batches, job, source, counted, met, started, mix, crashed>>
\* The batch was deleted in between.
CreateFails(r) == LET w == req[r] IN
    /\ At(r, Intakes, "create") /\ ~Refers(w.batch)
    /\ Update(r, Fails(w))
    /\ UNCHANGED <<intakeVars, met, started, mix, crashed>>

NoteCreated(r) ==
    /\ At(r, Intakes \cup {"hand"}, "note")
    /\ counted' = Nudged(1)
    /\ Goto(r, IF req[r].op = "hand" THEN "end" ELSE "add")
    /\ UNCHANGED <<arrived, batches, job, source, met, started, mix, crashed>>
\* note_leads_added, then the details of the lead.  When these fail the lead is
\* there and counted in its batch, but the source does not count it; this is noted.
AddToBatch(r) == LET b == req[r].batch IN
    /\ At(r, Intakes, "add")
    /\ batches' = IF Exists(b) THEN [batches EXCEPT ![b].total = @ + 1] ELSE batches
    /\ \/ Update(r, NextLead(req[r], 1)) /\ UNCHANGED met
       \/ Update(r, Fails(req[r])) /\ met' = met \cup {{"halfway"}}
    /\ UNCHANGED <<arrived, job, source, counted, started, mix, crashed>>

\* LeadSourceConfig.save: the status keeps in step with the switch.
InStep(c) == CASE ~c.on /\ c.st = "active" -> "inactive"
               [] c.on /\ c.st = "inactive" -> "active"
               [] OTHER -> c.st

\* The copy loaded at first, with its status; a sync that created none saves
\* nothing.
SaveReceived(r) == LET w == req[r] IN
    /\ At(r, Intakes, "config")
    /\ source' = IF w.op = "sync" /\ w.made = 0 THEN source
                 ELSE [source EXCEPT !.received = w.copy.received + w.made, !.st = InStep(w.copy)]
    /\ Finish(r)
    /\ UNCHANGED <<arrived, batches, job, counted, met, started, mix, crashed>>
\* An error, answered 200: what was created before it is not added; that it
\* was is noted.
SaveError(r) ==
    /\ At(r, {"hook"}, "error")
    /\ source' = [source EXCEPT !.st = "error"]
    /\ met' = IF req[r].made > 0 THEN met \cup {{"halfway"}} ELSE met
    /\ Finish(r)
    /\ UNCHANGED <<arrived, batches, job, counted, started, mix, crashed>>

\* The settings form saves the whole row it loaded.
SetSource(r, on) ==
    /\ Start(r, "toggle", [op |-> "toggle", next |-> "save", copy |-> [source EXCEPT !.on = on]])
    /\ UNCHANGED <<intakeVars, mix, crashed>>
SaveSource(r) == LET c == req[r].copy IN
    /\ At(r, {"toggle"}, "save")
    /\ source' = [c EXCEPT !.st = InStep(c)]
    /\ Finish(r)
    /\ UNCHANGED <<arrived, batches, job, counted, met, started, mix, crashed>>

-----------------------------------------------------------------------------
(* Leads by hand, their deletion, and the edit form.                        *)

\* A number that is known is refused, as is one too many.
ByForm(r, p) == LET w == Counted([op |-> "hand", next |-> "count", left |-> <<p>>, batch |-> 0, n |-> 0]) IN
    /\ Live(p) = {} /\ w.next # "end"
    /\ Start(r, "hand", w)
    /\ UNCHANGED <<intakeVars, mix, crashed>>

\* One lead, those that are ticked, all: their batches are counted afterwards.
\* Bound: the leads of one deletion are of one batch.
Delete(r, ls) ==
    /\ \A i, k \in ls : arrived[i].live /\ arrived[i].batch = arrived[k].batch
    /\ Start(r, "delete", [op |-> "delete", next |-> "mark", leads |-> ls,
                           batch |-> arrived[CHOOSE i \in ls : TRUE].batch, was |-> 0, n |-> 0])
    /\ UNCHANGED <<intakeVars, mix, crashed>>
MarkDeleted(r) ==
    /\ At(r, {"delete"}, "mark")
    /\ arrived' = [i \in DOMAIN arrived |-> IF i \in req[r].leads THEN [arrived[i] EXCEPT !.live = FALSE] ELSE arrived[i]]
    /\ Goto(r, "load")
    /\ UNCHANGED <<batches, job, source, counted, met, started, mix, crashed>>
\* Mutant of LoadBatch: the batch is not counted again.
LoadBatchNever(r) == At(r, {"delete"}, "load") /\ Finish(r) /\ UNCHANGED <<intakeVars, met, started, mix, crashed>>
LoadBatch(r) == LET b == req[r].batch IN
    /\ At(r, {"delete"}, "load")
    /\ IF Exists(b) THEN Update(r, [req[r] EXCEPT !.was = batches[b].total, !.next = "recount"]) ELSE Finish(r)
    /\ UNCHANGED <<intakeVars, met, started, mix, crashed>>

\* recount: written when it differs from the copy in hand.
After(r) == Goto(r, IF req[r].op = "import" THEN "finish" ELSE "end")
Recount(r) == LET n == InBatch(req[r].batch) IN
    /\ At(r, {"delete", "import"}, "recount")
    /\ IF n = req[r].was THEN After(r) ELSE Update(r, [req[r] EXCEPT !.n = n, !.next = "total"])
    /\ UNCHANGED <<intakeVars, met, started, mix, crashed>>
SaveTotal(r) == LET b == req[r].batch IN
    /\ At(r, {"delete", "import"}, "total")
    /\ batches' = IF Exists(b) THEN [batches EXCEPT ![b].total = req[r].n] ELSE batches
    /\ After(r)
    /\ UNCHANGED <<arrived, job, source, counted, met, started, mix, crashed>>

\* The edit form saves every column of the lead, is_deleted and batch too.
\* It may give the lead another number, one that no other lead has.
Amend(r, i, p) == LET kind == IF p = arrived[i].phone THEN "amend" ELSE "renumber" IN
    /\ arrived[i].live /\ (kind = "renumber" => Live(p) = {})
    /\ Start(r, kind, [op |-> kind, next |-> "save", lead |-> i, row |-> [arrived[i] EXCEPT !.phone = p]])
    /\ UNCHANGED <<intakeVars, mix, crashed>>
Editors == {"amend", "renumber"}
SaveLead(r) == LET w == req[r] IN
    /\ At(r, Editors, "save")
    /\ arrived' = IF Refers(w.row.batch) THEN [arrived EXCEPT ![w.lead] = w.row] ELSE arrived
    /\ Finish(r)
    /\ UNCHANGED <<batches, job, source, counted, met, started, mix, crashed>>

\* Renaming a batch saves the whole row, and inserts it again if it is gone.
Rename(r, b) ==
    /\ Exists(b)
    /\ Start(r, "rename", [op |-> "rename", next |-> "save", batch |-> b, row |-> batches[b]])
    /\ UNCHANGED <<intakeVars, mix, crashed>>
SaveBatch(r) == LET w == req[r] IN
    /\ At(r, {"rename"}, "save")
    /\ batches' = IF ~Exists(w.batch) /\ w.row.kind = "webhook" /\ Today # {} THEN batches
                  ELSE [batches EXCEPT ![w.batch] = w.row]
    /\ Finish(r)
    /\ UNCHANGED <<arrived, job, source, counted, met, started, mix, crashed>>

\* Deleting a batch keeps its leads.
DropBatch(b) ==
    /\ Exists(b)
    /\ arrived' = [i \in DOMAIN arrived |-> IF arrived[i].batch = b THEN [arrived[i] EXCEPT !.batch = 0] ELSE arrived[i]]
    /\ batches' = [batches EXCEPT ![b] = [kind |-> "none", total |-> 0]]
    /\ Happens("drop")
    /\ UNCHANGED <<job, source, counted, req, mix, crashed>>

-----------------------------------------------------------------------------
(* Import of a file.                                                        *)

UploadFile(file, rule) ==
    /\ "import" \in mix /\ job.st = "none"
    /\ job' = [NoJob EXCEPT !.st = "pending", !.rows = file, !.rule = rule]
    /\ UNCHANGED <<arrived, batches, source, counted, req, met, started, mix, crashed>>

RunImport(r) ==
    /\ job.st = "pending"
    /\ job' = [job EXCEPT !.st = "processing"]
    /\ Start(r, "import", [op |-> "import", next |-> "parse", batch |-> 0, was |-> 0, n |-> 0, seen |-> {},
                           new |-> <<>>, done |-> 0, ok |-> 0, failed |-> 0, dup |-> 0])
    /\ UNCHANGED <<arrived, batches, source, counted, mix, crashed>>

Parse(r) ==
    /\ At(r, {"import"}, "parse")
    /\ job' = [job EXCEPT !.total = Len(job.rows)]
    /\ Goto(r, "open")
    /\ UNCHANGED <<arrived, batches, source, counted, met, started, mix, crashed>>
Unreadable(r) ==
    /\ At(r, {"import"}, "parse")
    /\ job' = [job EXCEPT !.st = "failed"]
    /\ Finish(r)
    /\ UNCHANGED <<arrived, batches, source, counted, met, started, mix, crashed>>

OpenBatch(r) ==
    /\ At(r, {"import"}, "open")
    /\ batches' = Append(batches, [kind |-> "import", total |-> 0])
    /\ Update(r, [req[r] EXCEPT !.batch = Len(batches'), !.next = "phones"])
    /\ UNCHANGED <<arrived, job, source, counted, met, started, mix, crashed>>
ReadPhones(r) ==
    /\ At(r, {"import"}, "phones")
    /\ Update(r, [req[r] EXCEPT !.seen = {p \in Phone : Live(p) # {}}, !.next = "rows"])
    /\ UNCHANGED <<intakeVars, met, started, mix, crashed>>

\* One row: invalid, a number known before or earlier in the file, or new.
\* An update needs the lead, or the earlier row.
WithRow(w, p) == LET known == p \in w.seen \cup Range(w.new) IN
    CASE p = Invalid -> [w EXCEPT !.failed = @ + 1]
      [] p # Invalid /\ known /\ job.rule = "skip" -> [w EXCEPT !.dup = @ + 1]
      [] p # Invalid /\ known /\ job.rule = "update" ->
            IF Live(p) # {} \/ p \in Range(w.new) THEN [w EXCEPT !.ok = @ + 1, !.dup = @ + 1]
            ELSE [w EXCEPT !.failed = @ + 1]
      [] p # Invalid /\ ~(known /\ job.rule # "create_new") -> [w EXCEPT !.new = Append(@, p)]
AfterRows(w) ==
    LET after[k \in 0..Len(job.rows)] == IF k = 0 THEN w ELSE WithRow(after[k - 1], job.rows[k])
    IN  after[Len(job.rows)]
ReadRows(r) ==
    /\ At(r, {"import"}, "rows")
    /\ Update(r, Counted(AfterRows(req[r])))
    /\ UNCHANGED <<intakeVars, met, started, mix, crashed>>

\* One chunk, while its batch is there.
Insert(r) == LET w == req[r]
                 upto == IF w.done + Chunk < Len(w.new) THEN w.done + Chunk ELSE Len(w.new)
                 chunk == SubSeq(w.new, w.done + 1, upto) IN
    /\ At(r, {"import"}, "bulk") /\ w.done < Len(w.new) /\ Refers(w.batch)
    /\ arrived' = arrived \o [i \in DOMAIN chunk |-> NewLead(chunk[i], w.batch, "file")]
    /\ Update(r, [w EXCEPT !.done = upto])
    /\ UNCHANGED <<batches, job, source, counted, met, started, mix, crashed>>
Inserted(r) == LET w == req[r] IN
    /\ At(r, {"import"}, "bulk") /\ w.done = Len(w.new)
    /\ counted' = Nudged(Len(w.new))
    /\ Update(r, [w EXCEPT !.ok = @ + Len(w.new), !.next = "recount"])
    /\ UNCHANGED <<arrived, batches, job, source, met, started, mix, crashed>>
\* A chunk, or what is attached to its leads, is refused: none of the leads
\* count, those that are in included; this is noted.
InsertFails(r) == LET w == req[r] IN
    /\ At(r, {"import"}, "bulk")
    /\ met' = IF w.done > 0 THEN met \cup {{"chunks"}} ELSE met
    /\ Update(r, [w EXCEPT !.failed = @ + Len(w.new), !.next = "recount"])
    /\ UNCHANGED <<intakeVars, started, mix, crashed>>

\* mark_completed
FinishImport(r) == LET w == req[r] IN
    /\ At(r, {"import"}, "finish")
    /\ job' = [job EXCEPT !.ok = w.ok, !.failed = w.failed, !.dup = w.dup,
                  !.st = IF w.failed = 0 THEN "completed" ELSE IF w.ok > 0 THEN "partial" ELSE "failed"]
    /\ Finish(r)
    /\ UNCHANGED <<arrived, batches, source, counted, met, started, mix, crashed>>

-----------------------------------------------------------------------------
\* Nothing yet, or one lead that came today.
IntakeInit ==
    /\ job = NoJob /\ counted = NoCount
    /\ \E rule \in {"skip", "create_new"} :
          \/ /\ arrived = <<>> /\ batches = <<>>
             /\ source = [on |-> TRUE, st |-> "active", rule |-> rule, received |-> 0]
          \/ \E p \in Phone :
                /\ arrived = <<NewLead(p, 1, "hook")>> /\ batches = <<[kind |-> "webhook", total |-> 1]>>
                /\ source = [on |-> TRUE, st |-> "active", rule |-> rule, received |-> 1]

IntakeNext ==
    \/ \E r \in Request :
          \/ \E left \in Deliveries : SyncNow(r, left) \/ \E lenient \in BOOLEAN : Deliver(r, left, lenient)
          \/ \E p \in Phone : ByForm(r, p)
          \/ \E ls \in (SUBSET DOMAIN arrived) \ {{}} : Delete(r, ls)
          \/ \E i \in DOMAIN arrived, p \in Phone : Amend(r, i, p)
          \/ \E b \in DOMAIN batches : Rename(r, b)
          \/ \E on \in BOOLEAN : SetSource(r, on)
          \/ CacheCount(r) \/ LookUp(r) \/ TodaysBatch(r) \/ CreateLead(r) \/ CreateFails(r)
          \/ NoteCreated(r) \/ AddToBatch(r) \/ SaveReceived(r) \/ SaveError(r) \/ SaveSource(r)
          \/ MarkDeleted(r) \/ LoadBatch(r) \/ Recount(r) \/ SaveTotal(r)
          \/ SaveLead(r) \/ SaveBatch(r)
          \/ RunImport(r) \/ Parse(r) \/ Unreadable(r) \/ OpenBatch(r) \/ ReadPhones(r)
          \/ ReadRows(r) \/ Insert(r) \/ Inserted(r) \/ InsertFails(r) \/ FinishImport(r)
    \/ \E b \in DOMAIN batches : DropBatch(b)
    \/ \E file \in Files, rule \in {"skip", "update", "create_new"} : UploadFile(file, rule)
    \/ Expires
=============================================================================

-------------------------------- MODULE Desk --------------------------------
(***************************************************************************)
(* The calling desk of a tenant: how leads arrive (Intake) and are worked  *)
(* (LeadDesk), the presence of its agents (Presence) and the recording of  *)
(* a call (Transcription), with what they promise.                         *)
(***************************************************************************)
EXTENDS LeadDesk, Presence, Transcription, Intake

vars == <<lead, call, followup, queue, clock, presence, open, minute, recording, insight, jobs, made,
          arrived, batches, job, source, counted,
          req, met, started, mix, crashed>>

Init ==
    /\ DeskInit /\ PresenceInit /\ TranscriptionInit /\ IntakeInit
    /\ req = [r \in Request |-> Idle]
    /\ met = {} /\ started = 0 /\ mix \in Mixes
    /\ crashed = FALSE

Next ==
    \/ DeskNext /\ UNCHANGED <<presenceVars, transcriptionVars, intakeVars>>
    \/ PresenceNext /\ UNCHANGED <<lead, call, followup, queue, clock, transcriptionVars, intakeVars>>
    \/ TranscriptionNext /\ UNCHANGED <<lead, call, followup, queue, clock, presenceVars, intakeVars>>
    \/ IntakeNext /\ UNCHANGED <<lead, call, followup, queue, clock, presenceVars, transcriptionVars>>

Spec == Init /\ [][Next]_vars
-----------------------------------------------------------------------------
DeskOps == {"schedule", "supersede", "complete", "pull", "release", "call", "outcome", "click", "status", "edit",
            "assign", "distribute", "unassign"}
Ops == DeskOps \cup {"idle", "replace", "book", "follow", "setting", "beat", "sweep",
                   "file", "link", "relink", "transcribe", "analyse", "retranscribe", "reanalyse", "backfill",
                   "hook", "sync", "hand", "delete", "amend", "renumber", "rename", "drop", "toggle", "import",
                   "halfway", "chunks", "unsent"}

\* Type invariant: every variable keeps the type its declaration names.
TypeOK ==
    /\ lead \in [Lead -> LeadRec]
    /\ call \in [Call -> CallRec]
    /\ followup \in [FollowUp -> FollowRec]
    /\ queue \in [on : BOOLEAN, fresh : BOOLEAN] /\ clock \in Nat /\ minute \in Nat
    /\ presence \in [Staff -> PresenceRec]
    /\ \A a \in Staff : \A i \in DOMAIN open[a] : open[a][i] \in Interval
    /\ recording \in RecordingRec /\ insight \in InsightRec
    /\ jobs \in [Task -> Nat] /\ \A i \in DOMAIN made.texts : made.texts[i] \in 1..made.audio
    /\ arrived \in Seq(Arrival) /\ batches \in Seq(BatchRec)
    /\ job \in JobRec /\ source \in SourceRec /\ counted \in Nat
    /\ \A r \in Request : req[r].op \in Ops
    /\ \A pair \in met : pair \subseteq Ops
    /\ started \in Nat /\ mix \in Mixes /\ crashed \in BOOLEAN

Quiet == \A r \in Request : Free(r)

Calling == {"call", "outcome", "click"}
Booking == {"schedule", "supersede", "complete", "call", "outcome", "replace", "book"}
Moving == {"assign", "distribute", "follow", "edit"}

\* An agent who holds a lead pulls that lead again, never a second one: when
\* another is handed out the agent holds none (views.py:1504-1516).  Two pulls
\* of one agent at the same time do hand out two; so do an assignment back and
\* an edit that saves an old lock, when they meet the pull.
OneCheckout ==
    [][ \A r \in Request :
          req[r].op = "pull" /\ Free(r)' =>
            \/ crashed' # crashed \/ Met({"pull"}, {"pull", "assign", "distribute", "edit"})
            \/ req[r].again \/ CheckedOut(req[r].agent) = {} ]_vars

\* When nothing is in progress the lead's figures are those of its calls, and
\* a lead that was dialled is worked, never served as fresh (outcomes.py:15-17,
\* 165-168).  Two calls of a lead that end together break this, an edit or a
\* failed click-to-call that writes back what it loaded, a worker that died.
FiguresAgree ==
    \/ Met(Calling, Calling \cup {"edit"})
    \/ \A l \in Lead : LET of == {c \in Call : call[c].lead = l} IN
          /\ lead[l].dials = Cardinality(of)
          /\ lead[l].answered = Cardinality({c \in of : call[c].on})
          /\ of # {} => lead[l].worked

\* At most one automatic follow-up is open per lead (outcomes.py:218-219), the
\* next one is the earliest open (models.py:306-314), and an open follow-up on
\* an assigned lead belongs to the lead's agent (followup_rules.py:8), unless
\* two operations that write them met.
FollowUpsAgree ==
    /\ Met(Booking, Booking) \/ \A l \in Lead : Cardinality(AutoOf(followup, l)) <= 1
    /\ Met(Booking, Booking \cup {"edit"}) \/ \A l \in Lead : lead[l].next = Earliest(followup, l)
    /\ \/ Met(Moving, Booking \cup Moving)
       \/ \A f \in FollowUp : followup[f].lead # 0 =>
             lead[followup[f].lead].owner \in {Nobody, followup[f].owner}

LeadAgrees == ~Quiet \/ crashed \/ (FiguresAgree /\ FollowUpsAgree)

\* A call moves its lead forward, closes it, or reopens it when it was
\* answered; converted and duplicate never change, and an open lead ends at
\* least attempted, or contacted (outcomes.py:50-61).  Not so when the status
\* was changed after the call had loaded the lead.
StageForward ==
    [][ \A r \in Request :
          req[r].op \in {"call", "outcome"} /\ req'[r].op \in {"replace", "idle"} =>
            \/ crashed' # crashed \/ Met({"call", "outcome"}, Calling \cup {"status", "edit"})
            \/ LET l == req[r].lead
                   s == lead[l].st
                   t == lead'[l].st IN
               /\ s # t => /\ s \notin Locked
                           /\ \/ t \in Closed \/ (s \in Closed /\ req[r].on)
                              \/ s \in Stage /\ Rank(t) > Rank(s)
                              \/ s \in Stage /\ Rank(t) = Rank(s) /\ t = req[r].d.to
               /\ {s, t} \cap Final = {} => Rank(t) >= (IF req[r].on THEN 2 ELSE 1) ]_vars

\* max_per_agent is a ceiling on an agent's open leads (distribution.py:97-99):
\* no agent who gets a lead ends above it, unless leads were moved, reopened or
\* closed after the plan was made.
CapHolds ==
    [][ \A r \in Request : req[r].op = "distribute" /\ Free(r)' /\ req[r].cap # NoCap =>
          \/ Met({"distribute"}, Moving \cup Calling \cup {"status"})
          \/ \A a \in Agent : OwnedBy(a)' \subseteq OwnedBy(a) \/ OpenCount(a)' <= req[r].cap ]_vars

\* An agent at work has one open interval, of the status the row shows, and a
\* session; one who is offline has neither (presence.py:8-13).  Two transitions
\* of an agent at once, or a worker that died between the two saves, leave
\* two intervals open, or none.
PresenceAgrees ==
    \/ Met({"setting"}, {"setting"}) \/ crashed
    \/ \A a \in Staff :
          \/ \E r \in Request : req[r].op = "setting" /\ req[r].agent = a
          \/ /\ (presence[a].st = "offline") <=> (presence[a].session = 0)
             /\ [i \in DOMAIN open[a] |-> open[a][i].st] =
                   IF presence[a].st = "offline" THEN <<>> ELSE <<presence[a].st>>

InProgress(op) == \E r \in Request : req[r].op = op

\* The transcript is of the call's audio and a finished summary of its
\* transcript, once what was submitted has run (calls/views.py:214,
\* ai/models.py:20-21), and what is said to be processing has a task that will
\* say otherwise (ai/tasks.py:227-228).  Not so when a link replaced the audio,
\* a file met a task on the audio before, two analyses met, a worker died, or
\* the analysis could not be queued.
RecordingAgrees ==
    \/ crashed \/ {{"relink"}, {"unsent"}} \cap met # {} \/ Met({"file"}, {"transcribe", "analyse"})
    \/ InProgress("file")
    \/ /\ recording.text # 0 => made.texts[recording.text] = recording.audio
       /\ recording.st = "processing" => InProgress("transcribe")
       /\ InProgress("transcribe") \/ InProgress("analyse") \/ (\E t \in Task : jobs[t] > 0)
          \/ /\ insight.st # "processing"
             /\ insight.st = "done" /\ ~Met({"analyse"}, {"analyse"}) => insight.of = recording.text

Makers == {"hook", "sync", "hand", "import"}
Adders == {"hook", "sync"}
Counters == {"delete", "import"}

\* A batch's count is that of its leads that are not deleted (models.py:973-975,
\* 1107-1111), unless it was counted while leads came, or the row of a batch or
\* lead was saved from a copy.
BatchesAgree ==
    \/ Met(Counters, Adders \cup Counters) \/ Met(Editors, {"delete"})
    \/ Met({"rename"}, Adders \cup Counters \cup {"drop"})
    \/ \A b \in DOMAIN batches : Exists(b) => batches[b].total = InBatch(b)

\* Where duplicates are not asked for, a number has one lead, unless two that
\* looked it up met (the edit form looks up a number it gives to a lead,
\* leads/serializers.py:443-457), or that form wrote back an old row: of a lead
\* that was deleted, or given another number, after it was loaded.
OnePerNumber ==
    \/ Met(Makers, Makers \cup {"renumber"}) \/ Met({"renumber"}, Editors) \/ Met(Editors, {"delete"})
    \/ source.rule = "create_new" \/ job.rule = "create_new"
    \/ \A p \in Phone : Cardinality(Live(p)) <= 1

\* An import ends; every row is created, updated, a duplicate or failed,
\* and the leads it made are those it says (tasks.py:313-316, models.py:1233-1239),
\* unless a later chunk failed.
ImportAddsUp == LET created == Cardinality({i \in DOMAIN arrived : arrived[i].from = "file"}) IN
    /\ job.st # "processing"
    /\ job.total = job.ok + job.failed + (IF job.rule = "skip" THEN job.dup ELSE 0)
    /\ \/ {"chunks"} \in met
       \/ created = job.ok - (IF job.rule = "update" THEN job.dup ELSE 0)

\* The source counts the leads it brought and its status follows the switch,
\* unless two that save its row met, or a delivery failed after a lead was in.
SourceAgrees ==
    \/ Met(Adders \cup {"toggle"}, Adders \cup {"toggle"})
    \/ /\ source.on => source.st # "inactive"
       /\ ~source.on => source.st # "active"
       /\ {"halfway"} \in met \/ source.received = Cardinality({i \in DOMAIN arrived : arrived[i].from = "hook"})

\* The plan's cap is not exceeded by leads that came one after the other,
\* though the count is cached (quotas.py:11-12), unless an import failed after
\* some of its leads were in, or a deletion was undone.
WithinPlan ==
    \/ Met(Makers, Makers) \/ {"chunks"} \in met \/ Met(Editors, {"delete"}) \/ crashed
    \/ LiveLeads <= MaxLeads

\* What came is counted where it should be, once, and within the plan: the
\* four above when nothing is in progress, the cap always.  A worker that died
\* may leave the counts behind the rows, never a second lead of a number.
IntakeAgrees ==
    /\ WithinPlan
    /\ Quiet => OnePerNumber /\ (crashed \/ (BatchesAgree /\ ImportAddsUp /\ SourceAgrees))
=============================================================================

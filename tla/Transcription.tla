--------------------------- MODULE Transcription ---------------------------
(***************************************************************************)
(* The recording of one call and what the AI suite makes of it: uploads    *)
(* (src/apps/calls/views.py), then the tasks that transcribe the audio and *)
(* analyse the transcript (src/apps/ai/tasks.py).  The tenant has both     *)
(* features and the server its key.  A task acknowledges its message       *)
(* before it runs: one that dies is not delivered again.                   *)
(***************************************************************************)
EXTENDS Requests, Sequences

CONSTANTS Ranks   \* how far ways of finding a recording are trusted, MATCH_RANK

ASSUME TranscriptionAssumption == Ranks \subseteq Nat

VARIABLES
    recording,   \* CallRecording of the call
    insight,     \* CallInsight of the call
    jobs,        \* messages waiting for a worker, of each task
    made         \* observed: audios stored, summary rows created, and the audio of each transcript

transcriptionVars == <<recording, insight, jobs, made>>

Task == {"transcribe", "force", "analyse"}
\* audio: which upload it holds, 0 for none; text: which transcript, 0 for none.
RecordingRec == [audio : Nat, rank : Ranks \cup {0}, text : Nat, st : {"pending", "processing", "done", "failed"}]
NoRecording == [audio |-> 0, rank |-> 0, text |-> 0, st |-> "pending"]
\* id: the row; of: the transcript that its summary is of.
InsightRec == [id : Nat, st : {"none", "pending", "processing", "done", "failed", "skipped"}, of : Nat]
NoInsight == [id |-> 0, st |-> "none", of |-> 0]

Submit(task) == jobs' = [jobs EXCEPT ![task] = @ + 1]

-----------------------------------------------------------------------------
(* Uploads.  A link to the company's own storage, or the file: a better     *)
(* match replaces a worse one; only the file resets what the AI had made.   *)

Outranks(rank) == recording.audio = 0 \/ rank > recording.rank

Upload(r, kind, rank) ==
    /\ Outranks(rank)
    /\ Start(r, kind, [op |-> kind, next |-> "write", rank |-> rank,
                       replacing |-> kind = "file" /\ recording.audio # 0])
    /\ UNCHANGED <<transcriptionVars, mix, crashed>>

\* update_or_create; that a link replaced an audio is noted in met.
AudioWrite(r) == LET w == req[r] IN
    /\ At(r, {"file", "link"}, "write")
    /\ made' = [made EXCEPT !.audio = @ + 1]
    /\ recording' = [recording EXCEPT !.audio = made.audio + 1, !.rank = w.rank]
    /\ met' = IF w.op = "link" /\ recording.audio # 0 THEN met \cup {{"relink"}} ELSE met
    /\ Goto(r, IF w.replacing THEN "reset" ELSE "queue")
    /\ UNCHANGED <<insight, jobs, started, mix, crashed>>

\* Mutant of ResetTranscript: only the status is reset.
ResetStatusOnly(r) ==
    /\ At(r, {"file"}, "reset")
    /\ recording' = [recording EXCEPT !.st = "pending"]
    /\ Goto(r, "drop")
    /\ UNCHANGED <<insight, jobs, made, met, started, mix, crashed>>
\* _reset_ai_for_new_audio
ResetTranscript(r) ==
    /\ At(r, {"file"}, "reset")
    /\ recording' = [recording EXCEPT !.text = 0, !.st = "pending"]
    /\ Goto(r, "drop")
    /\ UNCHANGED <<insight, jobs, made, met, started, mix, crashed>>
DropInsight(r) ==
    /\ At(r, {"file"}, "drop")
    /\ insight' = NoInsight
    /\ Goto(r, "queue")
    /\ UNCHANGED <<recording, jobs, made, met, started, mix, crashed>>

\* _queue_ai_pipeline: a broker that is down does not fail the upload.
QueuePipeline(r) ==
    /\ At(r, {"file", "link"}, "queue")
    /\ Submit(IF req[r].replacing THEN "force" ELSE "transcribe") \/ UNCHANGED jobs
    /\ Finish(r)
    /\ UNCHANGED <<recording, insight, made, met, started, mix, crashed>>

-----------------------------------------------------------------------------
(* Asked for by hand, and the backfill: each only submits a task.           *)

Retranscribe ==
    /\ recording.audio # 0
    /\ Happens("retranscribe") /\ Submit("force")
    /\ UNCHANGED <<recording, insight, made, req, mix, crashed>>

Reanalyse ==
    /\ recording.audio # 0
    /\ Happens("reanalyse") /\ Submit(IF recording.text = 0 THEN "force" ELSE "analyse")
    /\ UNCHANGED <<recording, insight, made, req, mix, crashed>>

Backfill ==
    /\ recording.audio # 0 /\ recording.st # "done"
    /\ Happens("backfill") /\ Submit("transcribe")
    /\ UNCHANGED <<recording, insight, made, req, mix, crashed>>

-----------------------------------------------------------------------------
(* The tasks.  next: the statement a task is at; mark: the status it is     *)
(* about to give the summary, in the row it loaded, and after: what follows.*)

Take(task) == jobs[task] > 0 /\ jobs' = [jobs EXCEPT ![task] = @ - 1]

\* A recording already transcribed is only analysed, unless forced.
Transcribe(r, task) ==
    /\ task \in {"transcribe", "force"} /\ Take(task)
    /\ Start(r, "transcribe", [op |-> "transcribe", task |-> task, audio |-> recording.audio, row |-> 0,
                               mark |-> "processing", after |-> "ask",
                               next |-> IF task = "transcribe" /\ recording.st = "done" /\ recording.text # 0
                                        THEN "handOff" ELSE "begin"])
    /\ UNCHANGED <<recording, insight, made, mix, crashed>>

Begin(r) ==
    /\ At(r, {"transcribe"}, "begin")
    /\ recording' = [recording EXCEPT !.st = "processing"]
    /\ Goto(r, "load")
    /\ UNCHANGED <<insight, jobs, made, met, started, mix, crashed>>

Analyse(r) ==
    /\ recording.text # 0 /\ Take("analyse")
    /\ Start(r, "analyse", [op |-> "analyse", task |-> "analyse", text |-> recording.text, row |-> 0,
                            mark |-> "processing", after |-> "ask", next |-> "load"])
    /\ UNCHANGED <<recording, insight, made, mix, crashed>>

\* A call without a transcript is not analysed.
NothingToAnalyse ==
    /\ recording.text = 0 /\ Take("analyse")
    /\ UNCHANGED <<recording, insight, made, req, met, started, mix, crashed>>

\* get_or_create.  _mark_insight keeps a finished summary; the analysis takes it.
LoadInsight(r) == LET w == req[r]
                      row == IF insight.st = "none" THEN made.insight + 1 ELSE insight.id IN
    /\ At(r, {"transcribe", "analyse"}, "load")
    /\ IF insight.st = "none"
       THEN /\ insight' = [id |-> row, st |-> "pending", of |-> 0]
            /\ made' = [made EXCEPT !.insight = row]
       ELSE UNCHANGED <<insight, made>>
    /\ IF w.op = "transcribe" /\ insight.st = "done"
       THEN Goto(r, w.after)
       ELSE req' = [req EXCEPT ![r].row = row, ![r].next = "save"]
    /\ UNCHANGED <<recording, jobs, met, started, mix, crashed>>

\* save(update_fields): an error, that ends the task, when the row is gone.
SaveInsight(r) == LET w == req[r] IN
    /\ At(r, {"transcribe", "analyse"}, "save")
    /\ IF insight.id = w.row
       THEN insight' = [insight EXCEPT !.st = w.mark] /\ Goto(r, w.after)
       ELSE Finish(r) /\ UNCHANGED insight
    /\ UNCHANGED <<recording, jobs, made, met, started, mix, crashed>>

\* What is left of a task that ends without a result: the recording's status,
\* the summary's, and whether it is tried again.
Failures == { [st |-> "pending", mark |-> "pending", after |-> "end"],     \* the service is not configured
              [st |-> "failed", mark |-> "skipped", after |-> "end"],      \* no speech, too short
              [st |-> "failed", mark |-> "failed", after |-> "retry"] }

Transcribed(r) ==
    /\ At(r, {"transcribe"}, "ask")
    /\ made' = [made EXCEPT !.texts = Append(@, req[r].audio)]
    /\ recording' = [recording EXCEPT !.text = Len(made.texts) + 1, !.st = "done"]
    /\ Goto(r, "handOff")
    /\ UNCHANGED <<insight, jobs, met, started, mix, crashed>>
NotTranscribed(r) ==
    /\ At(r, {"transcribe"}, "ask")
    /\ \E f \in Failures :
          /\ recording' = [recording EXCEPT !.st = f.st]
          /\ req' = [req EXCEPT ![r].mark = f.mark, ![r].after = f.after, ![r].next = "load"]
    /\ UNCHANGED <<insight, jobs, made, met, started, mix, crashed>>

\* The queue may refuse the analysis, an error that ends the task; this is noted.
HandOff(r) ==
    /\ At(r, {"transcribe"}, "handOff")
    /\ \/ Submit("analyse") /\ UNCHANGED met
       \/ UNCHANGED jobs /\ met' = met \cup {{"unsent"}}
    /\ Finish(r)
    /\ UNCHANGED <<recording, insight, made, started, mix, crashed>>

\* The whole row is saved: one that was deleted is inserted again, unless the
\* call has another by now, which is an error.
Analysed(r) == LET w == req[r] IN
    /\ At(r, {"analyse"}, "ask")
    /\ insight' = IF insight.id = w.row \/ insight.st = "none"
                  THEN [id |-> w.row, st |-> "done", of |-> w.text] ELSE insight
    /\ Finish(r)
    /\ UNCHANGED <<recording, jobs, made, met, started, mix, crashed>>
NotAnalysed(r) ==
    /\ At(r, {"analyse"}, "ask")
    /\ \E f \in Failures :
          req' = [req EXCEPT ![r].mark = f.mark, ![r].after = f.after, ![r].next = "save"]
    /\ UNCHANGED <<recording, insight, jobs, made, met, started, mix, crashed>>

\* self.retry, unless the retries are used up or the error is one that stays.
Retry(r) ==
    /\ At(r, {"transcribe", "analyse"}, "retry")
    /\ Submit(req[r].task) \/ UNCHANGED jobs
    /\ Finish(r)
    /\ UNCHANGED <<recording, insight, made, met, started, mix, crashed>>

-----------------------------------------------------------------------------
\* No recording yet, or the microphone's with its transcript and summary.
TranscriptionInit ==
    /\ \/ /\ recording = NoRecording /\ insight = NoInsight
          /\ made = [audio |-> 0, insight |-> 0, texts |-> <<>>]
       \/ /\ recording = [audio |-> 1, rank |-> 0, text |-> 1, st |-> "done"]
          /\ insight = [id |-> 1, st |-> "done", of |-> 1]
          /\ made = [audio |-> 1, insight |-> 1, texts |-> <<1>>]
    /\ jobs = [t \in Task |-> 0]

TranscriptionNext ==
    \/ \E r \in Request :
          \/ \E kind \in {"file", "link"}, rank \in Ranks : Upload(r, kind, rank)
          \/ AudioWrite(r) \/ ResetTranscript(r) \/ DropInsight(r) \/ QueuePipeline(r)
          \/ \E task \in Task : Transcribe(r, task)
          \/ Begin(r) \/ Transcribed(r) \/ NotTranscribed(r) \/ HandOff(r)
          \/ Analyse(r) \/ Analysed(r) \/ NotAnalysed(r)
          \/ LoadInsight(r) \/ SaveInsight(r) \/ Retry(r)
    \/ Retranscribe \/ Reanalyse \/ Backfill \/ NothingToAnalyse
=============================================================================

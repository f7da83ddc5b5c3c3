---------------------------- MODULE Desk_proofs ----------------------------
(***************************************************************************)
(* Safety of Desk for any leads, agents, calls, follow-ups, requests and   *)
(* mixes of operations: presence, the recording, the desk's pulls, calls,  *)
(* plans and leads, and the intake, whose lemmas DeskTypes_proofs begins.  *)
(***************************************************************************)
EXTENDS DeskTypes_proofs

-----------------------------------------------------------------------------
(* Presence: intervals and sessions.  A transition in progress has the row  *)
(* as it still is, and has closed what it is about to replace.              *)

Setters == {r \in Request : req[r].op = "setting"}
Excused == Met({"setting"}, {"setting"}) \/ crashed
AtWork(a) == (presence[a].st = "offline") <=> (presence[a].session = 0)
OpenAs(a, st) == IF st = "offline" THEN open[a] = <<>>
                 ELSE \E i \in Interval : open[a] = <<i>> /\ i.st = st
HalfSet(w) ==
    /\ w.row.st = presence[w.agent].st /\ w.row.session = presence[w.agent].session
    /\ w.changed <=> w.row.st # w.to
    /\ IF w.changed THEN open[w.agent] = <<>> ELSE OpenAs(w.agent, w.row.st)
SettledInv ==
    /\ \A r, q \in Setters : r = q
    /\ \A a \in Staff : AtWork(a) /\ ((\A r \in Setters : req[r].agent # a) => OpenAs(a, presence[a].st))
    /\ \A r \in Setters : HalfSet(req[r])
PresenceInv == Excused \/ SettledInv

LEMMA ExcusedStays ==
    ASSUME met \subseteq met', crashed => crashed', Excused
    PROVE  Excused'
BY DEF Excused, Met

LEMMA PresenceFrame ==
    ASSUME PresenceInv, NEW kinds, Only(kinds), "setting" \notin kinds, UNCHANGED <<presence, open>>,
           crashed => crashed'
    PROVE  PresenceInv'
<1>1. CASE Excused
  BY <1>1, ExcusedStays DEF Only, PresenceInv
<1>2. CASE SettledInv
  <2>1. \A r \in Request : req'[r].op = "setting" => req'[r] = req[r]
    BY DEF Only
  <2>2. \A r \in Request : req[r].op = "setting" => req'[r] = req[r]
    BY DEF Only
  <2>3. Setters' = Setters /\ \A r \in Setters : req'[r] = req[r]
    BY <2>1, <2>2 DEF Setters
  <2>4. \A a \in Staff : AtWork(a)' <=> AtWork(a)
    BY DEF AtWork
  <2>5. \A a, st : OpenAs(a, st)' <=> OpenAs(a, st)
    BY DEF OpenAs
  <2>6. \A r \in Setters : HalfSet(req[r])'
    BY <1>2, <2>3, <2>5 DEF SettledInv, HalfSet
  <2>7. QED
    BY <1>2, <2>3, <2>4, <2>5, <2>6 DEF SettledInv, PresenceInv
<1>3. QED
  BY <1>1, <1>2 DEF PresenceInv

\* A transition begins: the row keeps its status, and what was open is closed
\* when the status is another.
LEMMA SettingBegins ==
    ASSUME TypeInv, SettledInv, NEW r \in Request, req[r].op # "setting",
           NEW a \in Staff, NEW to \in WorkStatus, NEW at \in Nat, NEW todo \in SUBSET SweepItem,
           Becomes(r, Setting(a, to, at, todo)), LoadAndClose(a, to), Meets(r, "setting")
    PROVE  PresenceInv'
<1> DEFINE w == Setting(a, to, at, todo)
<1>1. /\ w.op = "setting" /\ w.agent = a /\ w.to = to
      /\ w.changed <=> RowOf(a).st # to
      /\ w.row.st = RowOf(a).st /\ w.row.session = RowOf(a).session
  <2>1. RowOf(a) \in PresenceRec
    BY RowTyped DEF TypeInv
  <2>2. QED
    BY <2>1 DEF Setting, PresenceRec
<1>2. req'[r] = w /\ \A q \in Request \ {r} : req'[q] = req[q]
  BY DEF Becomes
<1> HIDE DEF w
<1>3. CASE Setters # {}
  <2>1. PICK q \in Setters : TRUE
    BY <1>3
  <2>2. {"setting", req[q].op} \in met'
    <3>1. q \in Request \ {r} /\ ~Free(q) /\ RequestTypes /\ "setting" \in Kinds
      BY <2>1 DEF Setters, Free, TypeInv, Kinds, PresenceKinds
    <3>2. QED
      BY <3>1, Meeting
  <2>3. {"setting", "setting"} \in met'
    BY <2>1, <2>2 DEF Setters
  <2>4. QED
    BY <2>3 DEF PresenceInv, Excused, Met
<1>4. CASE Setters = {}
  <2>1. Setters' = {r}
    BY <1>1, <1>2, <1>4 DEF Setters
  <2>2. /\ presence \in [Staff -> PresenceRec] /\ open \in [Staff -> Seq(Interval)]
        /\ presence' = [presence EXCEPT ![a] = RowOf(a)]
        /\ open' = [open EXCEPT ![a] = IF RowOf(a).st # to THEN <<>> ELSE open[a]]
    BY DEF TypeInv, PresenceTypes, LoadAndClose, ClosedLog
  <2>3. RowOf(a).st = presence[a].st /\ RowOf(a).session = presence[a].session
    BY DEF RowOf, NotYet
  <2>4. /\ \A b \in Staff \ {a} : presence'[b] = presence[b] /\ open'[b] = open[b]
        /\ presence'[a].st = presence[a].st /\ presence'[a].session = presence[a].session
        /\ open'[a] = IF RowOf(a).st # to THEN <<>> ELSE open[a]
    BY <2>2, <2>3
  <2>5. \A b \in Staff : AtWork(b) /\ OpenAs(b, presence[b].st)
    BY <1>4 DEF SettledInv, Setters
  <2>6. \A b \in Staff : AtWork(b)'
    BY <2>4, <2>5 DEF AtWork
  <2>7. ASSUME NEW b \in Staff, b # a PROVE OpenAs(b, presence[b].st)'
    BY <2>4, <2>5, <2>7 DEF OpenAs
  <2>8. HalfSet(req[r])'
    BY <1>1, <1>2, <2>3, <2>4, <2>5 DEF HalfSet, OpenAs
  <2>9. SettledInv'
    BY <1>1, <1>2, <2>1, <2>6, <2>7, <2>8 DEF SettledInv
  <2>10. QED
    BY <2>9 DEF PresenceInv
<1>5. QED
  BY <1>3, <1>4

\* A transition ends: the row has the new status, and so has what is open.
LEMMA SettingEnds ==
    ASSUME TypeInv, SettledInv, NEW r \in Request, SaveStatus(r)
    PROVE  SettledInv'
<1>0. PICK w : w = req[r]
  OBVIOUS
<1>1. w \in SettingReq /\ w.op = "setting" /\ r \in Setters
  BY <1>0, KindOf, PresenceKind DEF TypeInv, RequestTypes, SaveStatus, PresenceKinds, Setters
<1>2. /\ w.agent \in Staff /\ w.to \in WorkStatus /\ w.now \in Nat \ {0}
      /\ w.row \in PresenceRec
  BY <1>1 DEF SettingReq
<1>3. /\ presence \in [Staff -> PresenceRec] /\ open \in [Staff -> Seq(Interval)]
      /\ req \in [Request -> AnyReq]
  BY DEF TypeInv, PresenceTypes, RequestTypes
<1>4. /\ \A b \in Staff \ {w.agent} : presence'[b] = presence[b] /\ open'[b] = open[b]
      /\ presence'[w.agent].st = w.to
      /\ presence'[w.agent].session = IF w.to = "offline" THEN 0
                                      ELSE IF w.row.session = 0 THEN w.now ELSE w.row.session
      /\ open'[w.agent] = IF w.changed /\ w.to \in Working THEN Append(open[w.agent], [st |-> w.to, from |-> w.now])
                          ELSE open[w.agent]
  BY <1>0, <1>2, <1>3 DEF SaveStatus
<1>5. /\ req'[r].op # "setting" /\ \A q \in Request \ {r} : req'[q] = req[q]
  BY <1>3 DEF SaveStatus
<1>6. Setters = {r} /\ Setters' = {}
  BY <1>1, <1>5 DEF SettledInv, Setters
<1>7. HalfSet(w)
  BY <1>0, <1>1 DEF SettledInv
<1>8. \A b \in Staff \ {w.agent} : AtWork(b) /\ OpenAs(b, presence[b].st)
  BY <1>0, <1>6 DEF SettledInv
<1>9. \A b \in Staff \ {w.agent} : AtWork(b)' /\ OpenAs(b, presence[b].st)'
  BY <1>4, <1>8 DEF AtWork, OpenAs
<1>10. AtWork(w.agent)'
  <2>1. AtWork(w.agent)
    BY <1>2 DEF SettledInv
  <2>2. QED
    BY <1>2, <1>4, <1>7, <2>1 DEF AtWork, HalfSet
<1>11. OpenAs(w.agent, w.to)'
  <2>1. CASE w.changed /\ w.to \in Working
    <3>1. open[w.agent] = <<>> /\ w.to # "offline"
      BY <1>7, <2>1, PresenceAssumption DEF HalfSet
    <3>2. open'[w.agent] = <<[st |-> w.to, from |-> w.now]>>
      BY <1>4, <2>1, <3>1
    <3>3. [st |-> w.to, from |-> w.now] \in Interval
      BY <1>2, <2>1 DEF Interval
    <3>4. QED
      BY <3>1, <3>2, <3>3 DEF OpenAs
  <2>2. CASE w.changed /\ w.to \notin Working
    <3>1. w.to = "offline" /\ open[w.agent] = <<>>
      BY <1>2, <1>7, <2>2 DEF WorkStatus, HalfSet
    <3>2. QED
      BY <1>4, <2>2, <3>1 DEF OpenAs
  <2>3. CASE ~w.changed
    BY <1>4, <1>7, <2>3 DEF HalfSet, OpenAs
  <2>4. QED
    BY <2>1, <2>2, <2>3
<1>12. QED
  BY <1>2, <1>4, <1>6, <1>9, <1>10, <1>11 DEF SettledInv

LEMMA PresenceKept ==
    ASSUME TypeInv, PresenceInv, PresenceNext
    PROVE  PresenceInv'
<1>0. RequestTypes' /\ Only(PresenceKinds) /\ crashed' = crashed
  <2>1. crashed' = crashed
    BY DEF PresenceNext, Report, Heartbeat, Sweep, SweepOne, HeartbeatSets, HeartbeatTouches, SaveStatus, Minute
  <2>2. QED
    BY <2>1, PresenceTyped
<1>1. CASE Excused
  BY <1>0, <1>1, ExcusedStays DEF Only, PresenceInv
<1>2. CASE SettledInv
  <2>0. req \in [Request -> AnyReq] /\ \A r \in Request : req[r].op \in PresenceKinds => req[r] \in PresenceReq
    BY KindOf DEF TypeInv, RequestTypes
  <2>1. ASSUME NEW r \in Request, NEW a \in Staff, NEW to \in WorkStatus, Report(r, a, to)
        PROVE  PresenceInv'
    <3>1. Setting(a, to, 0, {}) \in SettingReq
      BY SettingTyped DEF TypeInv
    <3>2. Setting(a, to, 0, {}).op = "setting" /\ Setting(a, to, 0, {}) \in AnyReq
      BY <3>1 DEF SettingReq, AnyReq, PresenceReq
    <3>3. Start(r, Setting(a, to, 0, {}).op, Setting(a, to, 0, {})) /\ UNCHANGED <<mix, crashed>>
          /\ LoadAndClose(a, to)
      BY <2>1, <3>2 DEF Report
    <3>4. Becomes(r, Setting(a, to, 0, {})) /\ Free(r) /\ Meets(r, "setting")
      BY <3>2, <3>3, Starts DEF TypeInv
    <3>5. req[r].op # "setting"
      BY <3>4 DEF Free
    <3>6. QED
      BY <1>2, <3>3, <3>4, <3>5, SettingBegins
  <2>2. ASSUME NEW r \in Request, HeartbeatSets(r)
        PROVE  PresenceInv'
    <3>1. req[r] \in BeatReq /\ req[r].op = "beat"
      BY <2>0, <2>2, PresenceKind DEF HeartbeatSets, PresenceKinds
    <3>2. req[r].agent \in Staff /\ req[r].to \in WorkStatus
      BY <3>1 DEF BeatReq
    <3>3. Becomes(r, Setting(req[r].agent, req[r].to, 0, {})) /\ Meets(r, "setting")
          /\ LoadAndClose(req[r].agent, req[r].to)
      BY <2>0, <2>2 DEF HeartbeatSets, Becomes
    <3>4. QED
      BY <1>2, <3>1, <3>2, <3>3, SettingBegins
  <2>3. ASSUME NEW r \in Request, SweepOne(r)
        PROVE  PresenceInv'
    <3>1. req[r] \in SweepReq /\ req[r].op = "sweep"
      BY <2>0, <2>3, PresenceKind DEF SweepOne, PresenceKinds
    <3>2. PICK one \in req[r].todo :
              /\ LoadAndClose(one.agent, "offline")
              /\ req' = [req EXCEPT ![r] = Setting(one.agent, "offline", one.seen, req[r].todo \ {one})]
      BY <2>0, <2>3 DEF SweepOne
    <3>3. one.agent \in Staff /\ one.seen \in Nat /\ req[r].todo \ {one} \in SUBSET SweepItem
          /\ "offline" \in WorkStatus
      BY <3>1, <3>2 DEF SweepReq, SweepItem, WorkStatus
    <3>4. Becomes(r, Setting(one.agent, "offline", one.seen, req[r].todo \ {one})) /\ Meets(r, "setting")
      BY <2>0, <2>3, <3>2 DEF SweepOne, Becomes
    <3>5. QED
      BY <1>2, <3>1, <3>2, <3>3, <3>4, SettingBegins
  <2>4. ASSUME NEW r \in Request, SaveStatus(r)
        PROVE  PresenceInv'
    BY <1>2, <2>4, SettingEnds DEF PresenceInv
  <2>5. ASSUME NEW r \in Request, HeartbeatTouches(r)
        PROVE  PresenceInv'
    <3>1. req[r].op = "beat" /\ req'[r].op = "idle" /\ \A q \in Request \ {r} : req'[q] = req[q]
      BY <2>0, <2>5 DEF HeartbeatTouches
    <3>2. Setters' = Setters /\ \A q \in Setters : req'[q] = req[q]
      BY <3>1 DEF Setters
    <3>3. open' = open /\ \A a \in Staff : presence'[a].st = presence[a].st /\ presence'[a].session = presence[a].session
      BY <2>5 DEF HeartbeatTouches, TypeInv, PresenceTypes, PresenceRec
    <3>4. \A q \in Setters : req[q].agent \in Staff
      BY <2>0, PresenceKind DEF Setters, PresenceKinds, SettingReq
    <3>5. \A a, st : OpenAs(a, st)' <=> OpenAs(a, st)
      BY <3>3 DEF OpenAs
    <3>6. \A a \in Staff : AtWork(a)'
      BY <1>2, <3>3 DEF SettledInv, AtWork
    <3>7. \A q \in Setters : HalfSet(req[q])'
      BY <1>2, <3>2, <3>3, <3>4, <3>5 DEF SettledInv, HalfSet
    <3>8. QED
      BY <1>2, <3>2, <3>3, <3>5, <3>6, <3>7 DEF SettledInv, PresenceInv
  <2>6. ASSUME NEW r \in Request, (\E a \in Staff, to \in WorkStatus : Heartbeat(r, a, to)) \/ Sweep(r)
        PROVE  PresenceInv'
    <3>1. Free(r) /\ UNCHANGED <<presence, open>> /\ \A q \in Request \ {r} : req'[q] = req[q]
      BY <2>0, <2>6 DEF Heartbeat, Sweep, Start, presenceVars
    <3>2. req'[r].op # "setting"
      <4>1. CASE \E a \in Staff, to \in WorkStatus : Heartbeat(r, a, to)
        BY <2>0, <4>1 DEF Heartbeat, Start
      <4>2. CASE Sweep(r)
        BY <2>0, <4>2 DEF Sweep, Start
      <4>3. QED
        BY <2>6, <4>1, <4>2
    <3>3. Only(Kinds \ {"setting"})
      <4>1. req'[r].op \in Kinds
        BY <1>0, KindOf DEF RequestTypes
      <4>2. met \subseteq met'
        BY <1>0 DEF Only
      <4>3. QED
        BY <3>1, <3>2, <4>1, <4>2 DEF Only, Free
    <3>4. QED
      BY <1>0, <3>1, <3>3, PresenceFrame
  <2>7. CASE Minute
    <3>1. Only({}) /\ UNCHANGED <<presence, open>>
      BY <2>7, Quietly DEF Minute
    <3>2. QED
      BY <1>0, <3>1, PresenceFrame
  <2>8. QED
    BY <2>1, <2>2, <2>3, <2>4, <2>5, <2>6, <2>7 DEF PresenceNext
<1>3. QED
  BY <1>1, <1>2 DEF PresenceInv

LEMMA PresenceFollows == PresenceTypes /\ PresenceInv => PresenceAgrees
<1> SUFFICES ASSUME PresenceTypes, SettledInv PROVE PresenceAgrees
  BY DEF PresenceInv, Excused, PresenceAgrees
<1>1. SUFFICES ASSUME NEW a \in Staff, \A r \in Request : ~(req[r].op = "setting" /\ req[r].agent = a)
      PROVE  /\ (presence[a].st = "offline") <=> (presence[a].session = 0)
             /\ [i \in DOMAIN open[a] |-> open[a][i].st] =
                   IF presence[a].st = "offline" THEN <<>> ELSE <<presence[a].st>>
  BY DEF PresenceAgrees
<1>2. AtWork(a) /\ OpenAs(a, presence[a].st)
  BY <1>1 DEF SettledInv, Setters
<1>3. CASE presence[a].st = "offline"
  <2>1. open[a] = <<>>
    BY <1>2, <1>3 DEF OpenAs
  <2>2. [i \in DOMAIN open[a] |-> open[a][i].st] = <<>>
    BY <2>1
  <2>3. QED
    BY <1>2, <1>3, <2>2 DEF AtWork
<1>4. CASE presence[a].st # "offline"
  <2>1. PICK i \in Interval : open[a] = <<i>> /\ i.st = presence[a].st
    BY <1>2, <1>4 DEF OpenAs
  <2>2. DOMAIN open[a] = 1..1 /\ open[a][1] = i
    BY <2>1
  <2>3. [k \in DOMAIN open[a] |-> open[a][k].st] = <<presence[a].st>>
    BY <2>1, <2>2
  <2>4. QED
    BY <1>2, <1>4, <2>3 DEF AtWork
<1>5. QED
  BY <1>3, <1>4

-----------------------------------------------------------------------------
(* Presence.                                                                *)

LEMMA NoneRecovers == ASSUME DeskNext PROVE crashed => crashed'
<1>1. ASSUME NEW r \in Request, DeskLoad(r) PROVE crashed' = crashed
  <2>1. \A a, l, at : Schedule(r, a, l, at) => crashed' = crashed
    BY DEF Schedule, deskVars
  <2>2. \A a, l : Pull(r, a, l) => crashed' = crashed
    BY DEF Pull, deskVars
  <2>3. \A a, l, how : Release(r, a, l, how) => crashed' = crashed
    BY DEF Release, deskVars
  <2>4. \A a, c, l : Click(r, a, c, l) => crashed' = crashed
    BY DEF Click
  <2>5. \A a, c, l, o, at : LogCall(r, a, c, l, o, at) => crashed' = crashed
    BY DEF LogCall
  <2>6. \A a, l, to : SetStatus(r, a, l, to) => crashed' = crashed
    BY DEF SetStatus, deskVars
  <2>7. \A a, l, owner, to : Edit(r, a, l, owner, to) => crashed' = crashed
    BY DEF Edit, deskVars
  <2>8. \A c, o, at : SetOutcome(r, c, o, at) => crashed' = crashed
    BY DEF SetOutcome
  <2>9. \A f : Complete(r, f) => crashed' = crashed
    BY DEF Complete, deskVars
  <2>10. \A ls, a : Assign(r, ls, a) => crashed' = crashed
    BY DEF Assign
  <2>11. \A unassigned, method, cap : Distribute(r, unassigned, method, cap) => crashed' = crashed
    BY DEF Distribute, deskVars
  <2>12. QED
    BY <1>1, <2>1, <2>2, <2>3, <2>4, <2>5, <2>6, <2>7, <2>8, <2>9, <2>10, <2>11 DEF DeskLoad
<1>2. ASSUME NEW r \in Request, DeskWrite(r) PROVE crashed => crashed'
  BY <1>2, Zenon DEF DeskWrite, ScheduleWrite, Supersede, CompleteWrite, PullCommit, ReleaseDialed, ReleaseWrite, ClickFails,
              ClickDials, OutcomeSave, OutcomeReplace, OutcomeBook, StatusWrite, EditWrite, FollowOwner, ApplyPlan, Crash
<1>3. ASSUME SwitchQueue \/ Tick \/ (\E a \in Agent : Unassign(a)) \/ \E uncalled \in BOOLEAN : TakeBack(uncalled)
      PROVE  crashed' = crashed
  BY <1>3 DEF SwitchQueue, Tick, Unassign, TakeBack
<1>4. QED
  BY <1>1, <1>2, <1>3 DEF DeskNext

LEMMA CrashExcuses ==
    ASSUME TypeInv, PresenceInv, DeskNext, DeskFrame
    PROVE  PresenceInv'
<1>1. CASE \E r \in Request : Becomes(r, Idle) /\ met' = met /\ crashed'
  BY <1>1 DEF PresenceInv, Excused
<1>2. CASE Only(DeskKinds)
  <2>1. "setting" \notin DeskKinds /\ UNCHANGED <<presence, open>>
    BY DEF DeskKinds, DeskOps, DeskFrame, presenceVars
  <2>2. crashed => crashed'
    BY NoneRecovers
  <2>3. QED
    BY <1>2, <2>1, <2>2, PresenceFrame
<1>3. QED
  BY <1>1, <1>2, DeskTyped

LEMMA RecordingNeverCrashes == ASSUME TranscriptionNext PROVE crashed' = crashed
BY DEF TranscriptionNext, Upload, AudioWrite, ResetTranscript, DropInsight, QueuePipeline, Transcribe, Begin, Transcribed,
       NotTranscribed, HandOff, Analyse, Analysed, NotAnalysed, LoadInsight, SaveInsight, Retry, Retranscribe, Reanalyse,
       Backfill, NothingToAnalyse

\* An agent at work has one open interval, of the status the row shows, and a
\* session; one who is offline has neither.  Two transitions of an agent at
\* once or a worker that died between the two saves excuse it.
THEOREM PresenceHolds == Spec => []PresenceAgrees
<1>1. Init => PresenceInv
  <2> SUFFICES ASSUME Init PROVE PresenceInv
    OBVIOUS
  <2>1. Setters = {}
    BY Begins DEF Setters, Idle
  <2>2. presence = [a \in Staff |-> NotYet] /\ open = [a \in Staff |-> <<>>]
    BY DEF Init, PresenceInit
  <2>3. QED
    BY <2>1, <2>2 DEF PresenceInv, SettledInv, AtWork, OpenAs, NotYet
<1>2. TypeInv /\ PresenceInv /\ [Next]_vars => PresenceInv'
  <2> SUFFICES ASSUME TypeInv, PresenceInv, [Next]_vars PROVE PresenceInv'
    OBVIOUS
  <2>1. CASE DeskNext /\ DeskFrame
    BY <2>1, CrashExcuses
  <2>2. CASE PresenceNext
    BY <2>2, PresenceKept
  <2>3. CASE TranscriptionNext /\ RecordingFrames
    <3>1. PICK kinds : kinds = RecordingKinds
      OBVIOUS
    <3>2. "setting" \notin kinds /\ Only(kinds) /\ UNCHANGED <<presence, open>>
      BY <2>3, <3>1, RecordingTyped DEF RecordingStep, RecordingKinds, RecordingFrames, presenceVars
    <3>3. QED
      BY <2>3, <3>2, RecordingNeverCrashes, PresenceFrame
  <2>4. CASE IntakeNext /\ IntakeFrames
    <3>1. PICK kinds : kinds = IntakeKinds
      OBVIOUS
    <3>2. "setting" \notin kinds /\ Only(kinds) /\ UNCHANGED <<presence, open>>
      BY <2>4, <3>1, IntakeTyped DEF IntakeStep, IntakeKinds, IntakeFrames, presenceVars
    <3>3. QED
      BY <2>4, <3>2, IntakeNeverCrashes, PresenceFrame
  <2>5. CASE UNCHANGED vars
    <3>1. UNCHANGED <<presence, open, crashed>> /\ UNCHANGED req /\ met \subseteq met'
      BY <2>5 DEF vars
    <3>2. PICK kinds : kinds = {"idle"}
      OBVIOUS
    <3>3. "setting" \notin kinds /\ Only(kinds)
      BY <3>1, <3>2, Quietly
    <3>4. QED
      BY <3>1, <3>3, PresenceFrame
  <2>6. QED
    BY <2>1, <2>2, <2>3, <2>4, <2>5 DEF Next, DeskFrame, RecordingFrames, IntakeFrames
<1>3. TypeInv /\ PresenceInv => PresenceAgrees
  BY PresenceFollows DEF TypeInv
<1>4. QED
  BY <1>1, <1>2, <1>3, TypeInvariant, PTL DEF Spec

-----------------------------------------------------------------------------
(* The recording's transcript and summary: while no file meets a task, each *)
(* task works on the audio that is kept, and who leaves a status behind     *)
(* that says "processing" has somebody follow who does not.                 *)

Disturbed == crashed \/ {"relink"} \in met \/ {"unsent"} \in met \/ Met({"file"}, {"transcribe", "analyse"})

File(r) == req[r].op = "file"
Transcriber(r) == req[r].op = "transcribe"
Analyst(r) == req[r].op = "analyse"

\* What a request knows of the recording and the summary it works on.
RequestFits(r) ==
    /\ File(r) => /\ \A q \in Request : ~Transcriber(q) /\ ~Analyst(q)
                  /\ req[r].next = "write" /\ ~req[r].replacing => recording.text = 0
    /\ Transcriber(r) => /\ req[r].audio = recording.audio
                         /\ req[r].next = "handOff" => recording.text # 0
    /\ Transcriber(r) \/ Analyst(r) =>
          /\ req[r].next = "save" \/ (Analyst(r) /\ req[r].next = "ask") => insight.id = req[r].row /\ insight.st # "none"
          /\ req[r].next \in {"begin", "load", "save"} => (req[r].mark = "processing" <=> req[r].after = "ask")
          /\ req[r].next = "begin" => req[r].after = "ask"

\* Who resets what the replaced audio had.
Resetting == \E r \in Request : File(r) /\ req[r].next = "reset"
Dropping == \E r \in Request : File(r) /\ req[r].next \in {"reset", "drop"}
\* Who brings the recording's status, and who the summary's.
Answering(r) ==
    Transcriber(r) /\ (req[r].next = "ask" \/ (req[r].next \in {"load", "save"} /\ req[r].after = "ask"))
Analysing(r) == Analyst(r) /\ req[r].next \in {"load", "save", "ask"}
Settling(r) == (Transcriber(r) /\ req[r].next # "retry") \/ Analysing(r)
\* An analysis of the transcript there is now is to come.
Coming == (\E r \in Request : Transcriber(r) /\ req[r].next = "handOff") \/ (jobs["analyse"] > 0 /\ recording.text # 0)

TranscriptFits ==
    /\ recording.audio = 0 => recording.text = 0
    /\ recording.text # 0 => made.texts[recording.text] = recording.audio \/ Resetting
    /\ recording.st = "processing" => \E r \in Request : Answering(r)
SummarySettles ==
    insight.st = "processing" =>
        \/ Dropping \/ jobs["transcribe"] > 0 \/ jobs["force"] > 0 \/ Coming
        \/ \E r \in Request : Settling(r)
SummaryFits ==
    \/ Met({"analyse"}, {"analyse"}) \/ Dropping
    \/ /\ \A r, q \in Request : Analyst(r) /\ Analyst(q) => r = q
       /\ \A r \in Request : Analysing(r) => req[r].text = recording.text \/ Coming
       /\ insight.st = "done" => insight.of = recording.text \/ Coming \/ \E r \in Request : Analysing(r)

RecordingFits == (\A r \in Request : RequestFits(r)) /\ TranscriptFits /\ SummarySettles /\ SummaryFits
RecordingInv == Disturbed \/ RecordingFits

LEMMA RecordingParts == RecordingFits' <=>
    (\A r \in Request : RequestFits(r)') /\ TranscriptFits' /\ SummarySettles' /\ SummaryFits'
BY DEF RecordingFits

LEMMA StaysDisturbed ==
    ASSUME met \subseteq met', crashed => crashed', Disturbed
    PROVE  Disturbed'
BY DEF Disturbed, Met

LEMMA RecordingValues ==
    ASSUME TypeInv
    PROVE  /\ recording \in RecordingRec /\ insight \in InsightRec /\ jobs \in [Task -> Nat]
           /\ made \in [audio : Nat, insight : Nat, texts : Seq(Nat)]
           /\ req \in [Request -> AnyReq]
           /\ \A r \in Request :
                 /\ req[r].op \in {"file", "link"} => req[r] \in UploadReq
                 /\ req[r].op = "transcribe" => req[r] \in TranscribeReq
                 /\ req[r].op = "analyse" => req[r] \in AnalyseReq
<1>1. req \in [Request -> AnyReq]
  BY DEF TypeInv, RequestTypes
<1>2. \A r \in Request :
        /\ req[r].op \in {"file", "link"} => req[r] \in UploadReq
        /\ req[r].op = "transcribe" => req[r] \in TranscribeReq
        /\ req[r].op = "analyse" => req[r] \in AnalyseReq
  BY <1>1, KindOf, RecordingKind DEF RecordingKinds
<1>3. QED
  BY <1>1, <1>2 DEF TypeInv, RecordingTypes

\* A request that begins meets the others.
LEMMA RecordingMeets ==
    ASSUME TypeInv, NEW r \in Request, NEW kind \in RecordingKinds, Meets(r, kind), ~Disturbed'
    PROVE  /\ met \subseteq met'
           /\ kind = "file" => \A q \in Request \ {r} : ~Transcriber(q) /\ ~Analyst(q)
           /\ kind \in {"transcribe", "analyse"} => \A q \in Request \ {r} : ~File(q)
           /\ kind = "analyse" /\ ~Met({"analyse"}, {"analyse"})' => \A q \in Request \ {r} : ~Analyst(q)
<1>1. met \subseteq met' /\ \A q \in Request \ {r} : ~Free(q) => {kind, req[q].op} \in met'
  BY Meeting DEF TypeInv, Kinds
<1>2. {"file", "transcribe"} \notin met' /\ {"file", "analyse"} \notin met'
  BY DEF Disturbed, Met
<1>3. {"transcribe", "file"} = {"file", "transcribe"} /\ {"analyse", "file"} = {"file", "analyse"}
  OBVIOUS
<1>4. ~Met({"analyse"}, {"analyse"})' => {"analyse", "analyse"} \notin met'
  BY DEF Met
<1>5. QED
  BY <1>1, <1>2, <1>3, <1>4 DEF Free, File, Transcriber, Analyst

LEMMA UploadKeeps ==
    ASSUME TypeInv, RecordingFits, ~Disturbed', NEW r \in Request, NEW kind \in {"file", "link"}, NEW rank \in Ranks,
           Upload(r, kind, rank)
    PROVE  RecordingFits'
<1>1. PICK w : w = [op |-> kind, next |-> "write", rank |-> rank, replacing |-> kind = "file" /\ recording.audio # 0]
  OBVIOUS
<1>2. w \in UploadReq /\ w.op = kind /\ w.next = "write" /\ (kind = "file" /\ ~w.replacing => recording.audio = 0)
  BY <1>1 DEF UploadReq
<1>3. w \in AnyReq /\ kind \in RecordingKinds
  BY <1>2 DEF AnyReq, RecordingReq, RecordingKinds
<1>4. /\ Start(r, w.op, w) /\ UNCHANGED <<mix, crashed>>
      /\ recording' = recording /\ insight' = insight /\ jobs' = jobs /\ made' = made
  BY <1>1, <1>2 DEF Upload, transcriptionVars
<1>5. Free(r) /\ Meets(r, kind) /\ req'[r] = w /\ \A q \in Request : q # r => req'[q] = req[q]
  BY <1>2, <1>3, <1>4, Starts DEF TypeInv, Becomes
<1>6. met \subseteq met' /\ (kind = "file" => \A q \in Request \ {r} : ~Transcriber(q) /\ ~Analyst(q))
  BY <1>3, <1>5, RecordingMeets
<1>7. req[r].op = "idle"
  BY <1>5 DEF Free
<1> USE DEF File, Transcriber, Analyst
<1>8. ASSUME NEW q \in Request PROVE RequestFits(q)'
  BY <1>2, <1>4, <1>5, <1>6, <1>7 DEF RecordingFits, RequestFits, TranscriptFits
<1>9. (Resetting => Resetting') /\ (Dropping => Dropping') /\ (Coming => Coming')
  BY <1>4, <1>5, <1>7 DEF Resetting, Dropping, Coming
<1>10. \A q \in Request :
        /\ Answering(q) => Answering(q)'
        /\ Settling(q) => Settling(q)'
        /\ Analysing(q)' <=> Analysing(q)
        /\ Analyst(q)' <=> Analyst(q)
  <2>1. \A q \in Request : q # r => req'[q] = req[q]
    BY <1>5
  <2>2. req'[r].op \notin {"transcribe", "analyse"} /\ req[r].op \notin {"transcribe", "analyse"}
    BY <1>2, <1>5, <1>7
  <2>3. QED
    BY <2>1, <2>2 DEF Answering, Settling, Analysing
<1>11. TranscriptFits'
  BY <1>4, <1>9, <1>10 DEF RecordingFits, TranscriptFits
<1>12. SummarySettles'
  BY <1>4, <1>9, <1>10 DEF RecordingFits, SummarySettles
<1>13. SummaryFits'
  <2>1. Met({"analyse"}, {"analyse"}) => Met({"analyse"}, {"analyse"})'
    BY <1>6 DEF Met
  <2>2. \A q \in Request : Analysing(q) => req'[q] = req[q]
    BY <1>5, <1>7 DEF Analysing
  <2>3. QED
    BY <1>4, <1>9, <1>10, <2>1, <2>2 DEF RecordingFits, SummaryFits
<1>14. QED
  BY <1>8, <1>11, <1>12, <1>13, RecordingParts

\* The steps of an upload that is in progress.
LEMMA FileKeeps ==
    ASSUME TypeInv, RecordingFits, ~Disturbed', NEW r \in Request,
           AudioWrite(r) \/ ResetTranscript(r) \/ DropInsight(r) \/ QueuePipeline(r)
    PROVE  RecordingFits'
<1>1. req[r].op \in {"file", "link"} /\ req[r] \in UploadReq
  <2>1. req[r].op \in {"file", "link"}
    BY DEF AudioWrite, ResetTranscript, DropInsight, QueuePipeline, At
  <2>2. QED
    BY <2>1, RecordingValues
<1>2. /\ recording \in RecordingRec /\ insight \in InsightRec /\ jobs \in [Task -> Nat]
      /\ made \in [audio : Nat, insight : Nat, texts : Seq(Nat)] /\ req \in [Request -> AnyReq]
  BY RecordingValues
<1>3. \A q \in Request : q # r => req'[q] = req[q]
  BY <1>2 DEF AudioWrite, ResetTranscript, DropInsight, QueuePipeline, Goto, Finish
<1>4. req'[r].op \in {"file", "link", "idle"} /\ (req[r].op = "link" => req'[r].op # "file")
  BY <1>1, <1>2 DEF UploadReq, AudioWrite, ResetTranscript, DropInsight, QueuePipeline, Goto, Finish
<1> USE DEF File, Transcriber, Analyst
<1>5. ~File(r) => (recording.audio = 0 \/ ~AudioWrite(r)) /\ (AudioWrite(r) \/ QueuePipeline(r))
  BY <1>1 DEF Disturbed, AudioWrite, ResetTranscript, DropInsight, QueuePipeline, At
<1>6. /\ Resetting /\ (req[r].next # "reset" \/ ~File(r)) => Resetting'
      /\ Dropping /\ (req[r].next \notin {"reset", "drop"} \/ ~File(r)) => Dropping'
  BY <1>1, <1>3 DEF Resetting, Dropping
<1>7. \A q \in Request :
        /\ Answering(q) => Answering(q)'
        /\ Settling(q) => Settling(q)'
        /\ Analysing(q)' <=> Analysing(q)
        /\ Analyst(q)' <=> Analyst(q)
        /\ Analysing(q) => req'[q] = req[q]
  BY <1>1, <1>3, <1>4 DEF Answering, Settling, Analysing
<1>8. met \subseteq met' /\ (Met({"analyse"}, {"analyse"}) => Met({"analyse"}, {"analyse"})')
  BY DEF AudioWrite, ResetTranscript, DropInsight, QueuePipeline, Met
<1>9. ASSUME NEW q \in Request PROVE RequestFits(q)
  BY DEF RecordingFits
<1>10. CASE AudioWrite(r)
  <2>1. /\ recording'.audio = made.audio + 1 /\ recording'.text = recording.text /\ recording'.st = recording.st
        /\ made'.texts = made.texts /\ UNCHANGED <<insight, jobs>> /\ req[r].next = "write"
        /\ req'[r].op = req[r].op
        /\ req'[r].next = IF req[r].replacing THEN "reset" ELSE "queue"
    BY <1>1, <1>2, <1>10 DEF AudioWrite, RecordingRec, At, Goto, UploadReq
  <2>2. \A q \in Request : ~Transcriber(q)
    BY <1>1, <1>5, <1>9, <1>10 DEF RequestFits, TypeInv, AudioHolds
  <2>3. ASSUME NEW q \in Request PROVE RequestFits(q)'
    BY <1>1, <1>3, <1>4, <1>9, <2>1, <2>2 DEF RequestFits
  <2>4. made.audio + 1 # 0
    BY <1>2
  <2>5. recording.text # 0 => File(r) /\ req[r].replacing
    <3>1. File(r) /\ ~req[r].replacing => recording.text = 0
      BY <1>9, <2>1 DEF RequestFits
    <3>2. ~File(r) => recording.text = 0
      BY <1>5, <1>10 DEF RecordingFits, TranscriptFits
    <3>3. QED
      BY <3>1, <3>2
  <2>6. TranscriptFits'
    <3>1. recording.text # 0 => Resetting'
      BY <2>1, <2>5 DEF Resetting
    <3>2. QED
      BY <1>7, <2>1, <2>4, <3>1 DEF RecordingFits, TranscriptFits
  <2>7. (Dropping => Dropping') /\ (Coming => Coming')
    BY <1>1, <1>3, <1>6, <2>1 DEF Coming
  <2>8. SummarySettles'
    BY <1>7, <2>1, <2>7 DEF RecordingFits, SummarySettles
  <2>9. SummaryFits'
    BY <1>7, <1>8, <2>1, <2>7 DEF RecordingFits, SummaryFits
  <2>10. QED
    BY <2>3, <2>6, <2>8, <2>9, RecordingParts
<1>11. CASE ResetTranscript(r)
  <2>1. /\ recording'.audio = recording.audio /\ recording'.text = 0 /\ recording'.st = "pending"
        /\ made' = made /\ UNCHANGED <<insight, jobs>> /\ req[r].next = "reset" /\ File(r)
        /\ req'[r].op = "file" /\ req'[r].next = "drop"
    BY <1>1, <1>2, <1>11 DEF ResetTranscript, RecordingRec, At, Goto, UploadReq
  <2>2. \A q \in Request : ~Transcriber(q) /\ ~Analyst(q)
    BY <1>9, <2>1 DEF RequestFits
  <2>3. ASSUME NEW q \in Request PROVE RequestFits(q)'
    BY <1>3, <1>9, <2>1, <2>2 DEF RequestFits
  <2>4. TranscriptFits'
    BY <2>1 DEF TranscriptFits
  <2>5. Dropping'
    BY <2>1 DEF Dropping
  <2>6. QED
    BY <2>3, <2>4, <2>5, RecordingParts DEF SummarySettles, SummaryFits
<1>12. CASE DropInsight(r)
  <2>1. /\ recording' = recording /\ insight'.st = "none" /\ made' = made /\ req[r].next = "drop" /\ File(r)
        /\ req'[r].op = "file" /\ req'[r].next = "queue"
    BY <1>1, <1>2, <1>12 DEF DropInsight, NoInsight, At, Goto, UploadReq
  <2>2. \A q \in Request : ~Transcriber(q) /\ ~Analyst(q)
    BY <1>9, <2>1 DEF RequestFits
  <2>3. ASSUME NEW q \in Request PROVE RequestFits(q)'
    BY <1>3, <1>9, <2>1, <2>2 DEF RequestFits
  <2>4. TranscriptFits'
    BY <1>6, <1>7, <2>1 DEF RecordingFits, TranscriptFits
  <2>5. SummarySettles' /\ SummaryFits'
    BY <1>7, <2>1, <2>2 DEF SummarySettles, SummaryFits, Analysing
  <2>6. QED
    BY <2>3, <2>4, <2>5, RecordingParts
<1>13. CASE QueuePipeline(r)
  <2>1. UNCHANGED <<recording, insight, made>> /\ req[r].next = "queue" /\ req'[r].op = "idle"
    BY <1>1, <1>2, <1>13 DEF QueuePipeline, At, Finish
  <2>2. \A t \in Task : jobs'[t] >= jobs[t] /\ jobs[t] \in Nat /\ jobs'[t] \in Nat
    BY <1>2, <1>13 DEF QueuePipeline, Submit
  <2>3. "analyse" \in Task /\ "transcribe" \in Task /\ "force" \in Task
    BY DEF Task
  <2>4. (Resetting => Resetting') /\ (Dropping => Dropping')
    BY <1>6, <2>1
  <2>5. Coming => Coming'
    BY <1>1, <1>3, <2>1, <2>2, <2>3 DEF Coming
  <2>6. ASSUME NEW q \in Request PROVE RequestFits(q)'
    BY <1>1, <1>3, <1>9, <2>1 DEF RequestFits
  <2>7. TranscriptFits'
    BY <1>7, <2>1, <2>4 DEF RecordingFits, TranscriptFits
  <2>8. SummarySettles'
    BY <1>7, <2>1, <2>2, <2>3, <2>4, <2>5 DEF RecordingFits, SummarySettles
  <2>9. SummaryFits'
    BY <1>7, <1>8, <2>1, <2>4, <2>5 DEF RecordingFits, SummaryFits
  <2>10. QED
    BY <2>6, <2>7, <2>8, <2>9, RecordingParts
<1>14. QED
  BY <1>10, <1>11, <1>12, <1>13

\* A task begins.
LEMMA TranscribeKeeps ==
    ASSUME TypeInv, RecordingFits, ~Disturbed', NEW r \in Request, NEW task \in Task, Transcribe(r, task)
    PROVE  RecordingFits'
<1>1. PICK w : w = [op |-> "transcribe", task |-> task, audio |-> recording.audio, row |-> 0,
                    mark |-> "processing", after |-> "ask",
                    next |-> IF task = "transcribe" /\ recording.st = "done" /\ recording.text # 0
                             THEN "handOff" ELSE "begin"]
  OBVIOUS
<1>2. /\ w.op = "transcribe" /\ w.audio = recording.audio /\ w.mark = "processing" /\ w.after = "ask"
      /\ w.next \in {"handOff", "begin"} /\ (w.next = "handOff" => recording.text # 0)
  BY <1>1
<1>3. w \in TranscribeReq /\ task \in {"transcribe", "force"}
  BY <1>1, RecordingValues DEF Transcribe, TranscribeReq, TaskSteps, Marks, RecordingRec
<1>4. w \in AnyReq /\ w.op \in RecordingKinds
  BY <1>2, <1>3 DEF AnyReq, RecordingReq, RecordingKinds
<1>5. /\ Start(r, w.op, w) /\ UNCHANGED <<mix, crashed>>
      /\ recording' = recording /\ insight' = insight /\ made' = made
      /\ jobs' = [jobs EXCEPT ![task] = @ - 1] /\ jobs \in [Task -> Nat]
  BY <1>1, <1>2, RecordingValues DEF Transcribe, Take
<1>6. Free(r) /\ Meets(r, w.op) /\ req'[r] = w /\ \A q \in Request : q # r => req'[q] = req[q]
  BY <1>4, <1>5, Starts DEF TypeInv, Becomes
<1>7. met \subseteq met' /\ \A q \in Request \ {r} : ~File(q)
  <2>1. PICK kind \in RecordingKinds : kind = w.op
    BY <1>4
  <2>2. Meets(r, kind) /\ kind = "transcribe"
    BY <1>2, <1>6, <2>1
  <2>3. QED
    BY <2>2, RecordingMeets
<1>8. req[r].op = "idle"
  BY <1>6 DEF Free
<1>9. jobs'["analyse"] = jobs["analyse"]
  BY <1>3, <1>5 DEF Task
<1> USE DEF File, Transcriber, Analyst
<1>10. ASSUME NEW q \in Request PROVE RequestFits(q)'
  BY <1>2, <1>5, <1>6, <1>7, <1>8 DEF RecordingFits, RequestFits
<1>11. ~Resetting /\ ~Dropping
  BY <1>7, <1>8 DEF Resetting, Dropping
<1>12. Coming => Coming'
  BY <1>5, <1>6, <1>8, <1>9 DEF Coming
<1>13. TranscriptFits'
  <2>1. \A q \in Request : Answering(q) => Answering(q)'
    BY <1>6, <1>8 DEF Answering
  <2>2. QED
    BY <1>5, <1>11, <2>1 DEF RecordingFits, TranscriptFits
<1>14. SummarySettles'
  <2>1. Settling(r)'
    BY <1>2, <1>6 DEF Settling
  <2>2. QED
    BY <2>1 DEF SummarySettles
<1>15. SummaryFits'
  <2>1. Met({"analyse"}, {"analyse"}) => Met({"analyse"}, {"analyse"})'
    BY <1>7 DEF Met
  <2>2. \A q \in Request :
           /\ Analyst(q)' => Analyst(q)
           /\ Analysing(q)' <=> Analysing(q)
           /\ Analysing(q) => req'[q] = req[q]
    BY <1>2, <1>6, <1>8 DEF Analysing
  <2>3. QED
    BY <1>5, <1>11, <1>12, <2>1, <2>2 DEF RecordingFits, SummaryFits
<1>16. QED
  BY <1>10, <1>13, <1>14, <1>15, RecordingParts

LEMMA AnalyseKeeps ==
    ASSUME TypeInv, RecordingFits, ~Disturbed', NEW r \in Request, Analyse(r)
    PROVE  RecordingFits'
<1>1. PICK w : w = [op |-> "analyse", task |-> "analyse", text |-> recording.text, row |-> 0,
                    mark |-> "processing", after |-> "ask", next |-> "load"]
  OBVIOUS
<1>2. /\ w.op = "analyse" /\ w.text = recording.text /\ w.mark = "processing" /\ w.after = "ask" /\ w.next = "load"
  BY <1>1
<1>3. w \in AnalyseReq
  BY <1>1, RecordingValues DEF AnalyseReq, TaskSteps, Marks, RecordingRec
<1>4. w \in AnyReq /\ w.op \in RecordingKinds
  BY <1>2, <1>3 DEF AnyReq, RecordingReq, RecordingKinds
<1>5. /\ Start(r, w.op, w) /\ UNCHANGED <<mix, crashed>>
      /\ recording' = recording /\ insight' = insight /\ made' = made
  BY <1>1, <1>2 DEF Analyse
<1>6. Free(r) /\ Meets(r, w.op) /\ req'[r] = w /\ \A q \in Request : q # r => req'[q] = req[q]
  BY <1>4, <1>5, Starts DEF TypeInv, Becomes
<1>7. /\ met \subseteq met' /\ \A q \in Request \ {r} : ~File(q)
      /\ ~Met({"analyse"}, {"analyse"})' => \A q \in Request \ {r} : ~Analyst(q)
  <2>1. PICK kind \in RecordingKinds : kind = w.op
    BY <1>4
  <2>2. Meets(r, kind) /\ kind = "analyse"
    BY <1>2, <1>6, <2>1
  <2>3. QED
    BY <2>2, RecordingMeets
<1>8. req[r].op = "idle"
  BY <1>6 DEF Free
<1> USE DEF File, Transcriber, Analyst
<1>9. ASSUME NEW q \in Request PROVE RequestFits(q)'
  BY <1>2, <1>5, <1>6, <1>7, <1>8 DEF RecordingFits, RequestFits
<1>10. ~Resetting /\ Analysing(r)'
  BY <1>2, <1>6, <1>7, <1>8 DEF Resetting, Analysing
<1>11. TranscriptFits'
  <2>1. \A q \in Request : Answering(q) => Answering(q)'
    BY <1>6, <1>8 DEF Answering
  <2>2. QED
    BY <1>5, <1>10, <2>1 DEF RecordingFits, TranscriptFits
<1>12. SummarySettles'
  BY <1>10 DEF SummarySettles, Settling
<1>13. SummaryFits'
  <2> SUFFICES ASSUME ~Met({"analyse"}, {"analyse"})' PROVE SummaryFits'
    BY DEF SummaryFits
  <2>1. \A q \in Request : q # r => ~Analyst(q)'
    BY <1>6, <1>7
  <2>2. req'[r].text = recording'.text
    BY <1>2, <1>5, <1>6
  <2>3. QED
    BY <1>10, <2>1, <2>2 DEF SummaryFits, Analysing
<1>14. QED
  BY <1>9, <1>11, <1>12, <1>13, RecordingParts

\* What a step of a task leaves alone: no file is being uploaded meanwhile.
TaskStep(r) ==
    /\ req[r].op \in {"transcribe", "analyse"}
    /\ \A q \in Request : q # r => req'[q] = req[q]
    /\ met' = met

LEMMA Undisturbed ==
    ASSUME TypeInv, RecordingFits, NEW r \in Request, TaskStep(r), req'[r].op \in {req[r].op, "idle"}
    PROVE  /\ ~Resetting /\ ~Dropping /\ \A q \in Request : ~File(q) /\ ~File(q)'
           /\ recording.audio # 0
           /\ \A q \in Request : q # r =>
                 /\ (Answering(q) => Answering(q)') /\ (Settling(q) => Settling(q)')
                 /\ (Analyst(q)' <=> Analyst(q)) /\ (Transcriber(q)' <=> Transcriber(q))
                 /\ (Analysing(q)' <=> Analysing(q))
           /\ Analyst(r)' => Analyst(r)
           /\ Met({"analyse"}, {"analyse"}) => Met({"analyse"}, {"analyse"})'
<1> USE DEF File, Transcriber, Analyst
<1>1. \A q \in Request : ~File(q)
  BY DEF RecordingFits, RequestFits, TaskStep
<1>2. recording.audio # 0
  BY DEF TypeInv, AudioHolds, TaskStep
<1>3. \A q \in Request : ~File(q)'
  BY <1>1 DEF TaskStep
<1>4. ~Resetting /\ ~Dropping
  BY <1>1 DEF Resetting, Dropping
<1>5. ASSUME NEW q \in Request, q # r
      PROVE  /\ (Answering(q) => Answering(q)') /\ (Settling(q) => Settling(q)')
             /\ (Analyst(q)' <=> Analyst(q)) /\ (Transcriber(q)' <=> Transcriber(q))
             /\ (Analysing(q)' <=> Analysing(q))
  BY <1>5 DEF TaskStep, Answering, Settling, Analysing
<1>6. Analyst(r)' => Analyst(r)
  BY DEF TaskStep
<1>7. Met({"analyse"}, {"analyse"}) => Met({"analyse"}, {"analyse"})'
  BY DEF TaskStep, Met
<1>8. QED
  BY <1>1, <1>2, <1>3, <1>4, <1>5, <1>6, <1>7

\* What a request knows stays true when others step.
LEMMA OthersFit ==
    ASSUME NEW q \in Request, RequestFits(q), req'[q] = req[q], ~File(q), recording'.audio = recording.audio,
           recording.text # 0 => recording'.text # 0,
           insight.st # "none" => insight'.id = insight.id /\ insight'.st # "none"
    PROVE  RequestFits(q)'
BY DEF RequestFits, File, Transcriber, Analyst

\* What one that transcribes knows.
LEMMA TranscriberFits ==
    ASSUME NEW q \in Request, Transcriber(q)', req'[q].audio = recording'.audio,
           req'[q].next = "handOff" => recording'.text # 0,
           req'[q].next = "save" => insight'.id = req'[q].row /\ insight'.st # "none",
           req'[q].next \in {"begin", "load", "save"} => (req'[q].mark = "processing" <=> req'[q].after = "ask"),
           req'[q].next = "begin" => req'[q].after = "ask"
    PROVE  RequestFits(q)'
BY DEF RequestFits, File, Transcriber, Analyst

\* What one that analyses knows.
LEMMA AnalystFits ==
    ASSUME NEW q \in Request, Analyst(q)',
           req'[q].next \in {"save", "ask"} => insight'.id = req'[q].row /\ insight'.st # "none",
           req'[q].next \in {"begin", "load", "save"} => (req'[q].mark = "processing" <=> req'[q].after = "ask"),
           req'[q].next = "begin" => req'[q].after = "ask"
    PROVE  RequestFits(q)'
BY DEF RequestFits, File, Transcriber, Analyst

LEMMA IdleFits == ASSUME NEW q \in Request, req'[q].op = "idle" PROVE RequestFits(q)'
BY DEF RequestFits, File, Transcriber, Analyst

\* The steps of a transcription.
LEMMA TranscriptionKeeps ==
    ASSUME TypeInv, RecordingFits, ~Disturbed', NEW r \in Request,
           Begin(r) \/ Transcribed(r) \/ NotTranscribed(r) \/ HandOff(r)
    PROVE  RecordingFits'
<1>1. req[r].op = "transcribe" /\ req[r] \in TranscribeReq
  <2>1. req[r].op = "transcribe"
    BY DEF Begin, Transcribed, NotTranscribed, HandOff, At
  <2>2. QED
    BY <2>1, RecordingValues
<1>2. /\ recording \in RecordingRec /\ insight \in InsightRec /\ jobs \in [Task -> Nat]
      /\ made \in [audio : Nat, insight : Nat, texts : Seq(Nat)] /\ req \in [Request -> AnyReq]
  BY RecordingValues
<1>3. \A q \in Request : q # r => req'[q] = req[q]
  BY <1>2 DEF Begin, Transcribed, NotTranscribed, HandOff, Goto, Finish
<1>4. req'[r].op \in {req[r].op, "idle"}
  <2>1. PICK w \in TranscribeReq : w = req[r]
    BY <1>1
  <2>2. \A next : [w EXCEPT !.next = next].op = w.op
    BY DEF TranscribeReq
  <2>3. \A next, mark, after : [w EXCEPT !.mark = mark, !.after = after, !.next = next].op = w.op
    BY DEF TranscribeReq
  <2>4. CASE Begin(r) \/ Transcribed(r)
    <3>1. req'[r] = [w EXCEPT !.next = "load"] \/ req'[r] = [w EXCEPT !.next = "handOff"]
      BY <1>2, <2>1, <2>4 DEF Begin, Transcribed, Goto
    <3>2. QED
      BY <2>1, <2>2, <3>1
  <2>5. CASE NotTranscribed(r)
    <3>1. \E f \in Failures : req'[r] = [w EXCEPT !.mark = f.mark, !.after = f.after, !.next = "load"]
      BY <1>2, <2>1, <2>5 DEF NotTranscribed
    <3>2. QED
      BY <2>1, <2>3, <3>1
  <2>6. CASE HandOff(r)
    BY <1>2, <2>6 DEF HandOff, Finish
  <2>7. QED
    BY <2>4, <2>5, <2>6
<1>5. TaskStep(r)
  BY <1>1, <1>3 DEF TaskStep, Begin, Transcribed, NotTranscribed, HandOff, Disturbed
<1>6. /\ ~Resetting /\ ~Dropping /\ \A q \in Request : ~File(q) /\ ~File(q)'
      /\ recording.audio # 0
      /\ \A q \in Request : q # r =>
            /\ (Answering(q) => Answering(q)') /\ (Settling(q) => Settling(q)')
            /\ (Analyst(q)' <=> Analyst(q)) /\ (Transcriber(q)' <=> Transcriber(q))
            /\ (Analysing(q)' <=> Analysing(q))
      /\ Met({"analyse"}, {"analyse"}) => Met({"analyse"}, {"analyse"})'
  BY <1>4, <1>5, Undisturbed
<1>7. insight' = insight
  BY DEF Begin, Transcribed, NotTranscribed, HandOff
<1>8. /\ ~Analyst(r) /\ ~Analyst(r)' /\ ~Analysing(r) /\ ~Analysing(r)'
      /\ \A q \in Request : q # r /\ Analysing(q) => req'[q] = req[q]
  BY <1>1, <1>3, <1>4 DEF Analyst, Analysing
<1>9. ASSUME NEW q \in Request PROVE RequestFits(q)
  BY DEF RecordingFits
<1>10. ASSUME Coming => Coming', recording'.text = recording.text PROVE SummaryFits'
  BY <1>6, <1>7, <1>8, <1>10 DEF RecordingFits, SummaryFits
<1>11. ASSUME Coming' PROVE SummaryFits'
  BY <1>6, <1>8, <1>11 DEF RecordingFits, SummaryFits
<1>12. CASE Begin(r)
  <2>1. /\ recording'.audio = recording.audio /\ recording'.text = recording.text /\ made' = made /\ jobs' = jobs
        /\ req[r].next = "begin" /\ req'[r] = [req[r] EXCEPT !.next = "load"]
    BY <1>1, <1>2, <1>12 DEF Begin, RecordingRec, At, Goto
  <2>2. /\ req'[r].op = "transcribe" /\ req'[r].next = "load" /\ req'[r].audio = req[r].audio
        /\ req'[r].mark = req[r].mark /\ req'[r].after = req[r].after
    BY <1>1, <2>1 DEF TranscribeReq
  <2> USE DEF Transcriber, Analyst
  <2>3. Answering(r)' /\ Settling(r)'
    BY <1>1, <1>9, <2>1, <2>2 DEF RequestFits, Answering, Settling
  <2>4. ASSUME NEW q \in Request PROVE RequestFits(q)'
    <3>1. CASE q = r
      BY <1>1, <1>9, <2>1, <2>2, <3>1, TranscriberFits DEF RequestFits
    <3>2. CASE q # r
      BY <1>3, <1>6, <1>7, <1>9, <2>1, <3>2, OthersFit
    <3>3. QED
      BY <3>1, <3>2
  <2>5. Coming => Coming'
    BY <1>1, <1>3, <2>1, <2>2 DEF Coming
  <2>6. TranscriptFits'
    BY <1>6, <2>1, <2>3 DEF RecordingFits, TranscriptFits
  <2>7. SummarySettles'
    BY <2>3 DEF SummarySettles
  <2>8. QED
    BY <1>10, <2>1, <2>4, <2>5, <2>6, <2>7, RecordingParts
<1>13. CASE Transcribed(r)
  <2>1. PICK n : n = Len(made.texts)
    OBVIOUS
  <2>2. /\ recording'.audio = recording.audio /\ recording'.text = n + 1 /\ recording'.st = "done"
        /\ made'.texts = Append(made.texts, req[r].audio)
        /\ req[r].next = "ask" /\ req'[r] = [req[r] EXCEPT !.next = "handOff"]
    BY <1>1, <1>2, <1>13, <2>1 DEF Transcribed, RecordingRec, At, Goto
  <2>3. /\ req'[r].op = "transcribe" /\ req'[r].next = "handOff" /\ req'[r].audio = req[r].audio
    BY <1>1, <2>2 DEF TranscribeReq
  <2>4. n \in Nat /\ n + 1 # 0 /\ made'.texts[n + 1] = req[r].audio
    <3>1. PICK texts \in Seq(Nat) : texts = made.texts
      BY <1>2
    <3>2. req[r].audio \in Nat
      BY <1>1 DEF TranscribeReq
    <3>3. QED
      BY <2>1, <2>2, <3>1, <3>2
  <2> USE DEF Transcriber, Analyst
  <2>5. req[r].audio = recording.audio
    BY <1>1, <1>9 DEF RequestFits
  <2>6. Coming' /\ Settling(r)'
    BY <2>3 DEF Coming, Settling
  <2>7. ASSUME NEW q \in Request PROVE RequestFits(q)'
    <3>1. CASE q = r
      BY <2>2, <2>3, <2>4, <2>5, <3>1, TranscriberFits
    <3>2. CASE q # r
      BY <1>3, <1>6, <1>7, <1>9, <2>2, <2>4, <3>2, OthersFit
    <3>3. QED
      BY <3>1, <3>2
  <2>8. TranscriptFits'
    BY <1>6, <2>2, <2>4, <2>5 DEF TranscriptFits
  <2>9. SummarySettles'
    BY <2>6 DEF SummarySettles
  <2>10. QED
    BY <1>11, <2>6, <2>7, <2>8, <2>9, RecordingParts
<1>14. CASE NotTranscribed(r)
  <2>1. PICK f \in Failures :
           /\ recording' = [recording EXCEPT !.st = f.st]
           /\ req' = [req EXCEPT ![r].mark = f.mark, ![r].after = f.after, ![r].next = "load"]
    BY <1>14 DEF NotTranscribed
  <2>2. f.st # "processing" /\ f.mark # "processing" /\ f.after # "ask"
    BY DEF Failures
  <2>3. /\ recording'.audio = recording.audio /\ recording'.text = recording.text /\ recording'.st = f.st
        /\ made' = made /\ jobs' = jobs /\ req[r].next = "ask"
        /\ req'[r] = [req[r] EXCEPT !.mark = f.mark, !.after = f.after, !.next = "load"]
    BY <1>1, <1>2, <1>14, <2>1 DEF NotTranscribed, RecordingRec, At
  <2>4. /\ req'[r].op = "transcribe" /\ req'[r].next = "load" /\ req'[r].audio = req[r].audio
        /\ req'[r].mark = f.mark /\ req'[r].after = f.after
    BY <1>1, <2>3 DEF TranscribeReq
  <2> USE DEF Transcriber, Analyst
  <2>5. Settling(r)'
    BY <2>4 DEF Settling
  <2>6. ASSUME NEW q \in Request PROVE RequestFits(q)'
    <3>1. CASE q = r
      <4>1. req'[q].audio = recording'.audio
        BY <1>1, <1>9, <2>3, <2>4, <3>1 DEF RequestFits
      <4>2. QED
        BY <2>2, <2>4, <3>1, <4>1, TranscriberFits
    <3>2. CASE q # r
      BY <1>3, <1>6, <1>7, <1>9, <2>3, <3>2, OthersFit
    <3>3. QED
      BY <3>1, <3>2
  <2>7. Coming => Coming'
    BY <1>1, <1>3, <2>3, <2>4 DEF Coming
  <2>8. TranscriptFits'
    BY <1>6, <2>2, <2>3 DEF RecordingFits, TranscriptFits
  <2>9. SummarySettles'
    BY <2>5 DEF SummarySettles
  <2>10. QED
    BY <1>10, <2>3, <2>6, <2>7, <2>8, <2>9, RecordingParts
<1>15. CASE HandOff(r)
  <2>1. /\ recording' = recording /\ made' = made /\ req[r].next = "handOff"
        /\ req'[r].op = "idle" /\ jobs' = [jobs EXCEPT !["analyse"] = @ + 1]
    BY <1>1, <1>2, <1>15 DEF HandOff, At, Finish, Submit, Disturbed
  <2>2. jobs'["analyse"] > 0
    <3>1. "analyse" \in Task
      BY DEF Task
    <3>2. PICK n \in Nat : n = jobs["analyse"]
      BY <1>2, <3>1
    <3>3. QED
      BY <1>2, <2>1, <3>1, <3>2
  <2> USE DEF Transcriber, Analyst
  <2>3. recording.text # 0
    BY <1>1, <1>9, <2>1 DEF RequestFits
  <2>4. Coming'
    BY <2>1, <2>2, <2>3 DEF Coming
  <2>5. ASSUME NEW q \in Request PROVE RequestFits(q)'
    BY <1>3, <1>6, <1>7, <1>9, <2>1 DEF RequestFits
  <2>6. ~Answering(r)
    BY <2>1 DEF Answering
  <2>7. TranscriptFits'
    BY <1>6, <2>1, <2>6 DEF RecordingFits, TranscriptFits
  <2>8. SummarySettles'
    BY <2>4 DEF SummarySettles
  <2>9. QED
    BY <1>11, <2>4, <2>5, <2>7, <2>8, RecordingParts
<1>16. QED
  BY <1>12, <1>13, <1>14, <1>15

\* The steps at which a task marks the summary, and those of an analysis.
LEMMA SummaryKeeps ==
    ASSUME TypeInv, RecordingFits, ~Disturbed', NEW r \in Request,
           LoadInsight(r) \/ SaveInsight(r) \/ Analysed(r) \/ NotAnalysed(r) \/ Retry(r)
    PROVE  RecordingFits'
<1>1. /\ req[r].op \in {"transcribe", "analyse"}
      /\ req[r].op = "transcribe" => req[r] \in TranscribeReq
      /\ req[r].op = "analyse" => req[r] \in AnalyseReq
  <2>1. req[r].op \in {"transcribe", "analyse"}
    BY DEF LoadInsight, SaveInsight, Analysed, NotAnalysed, Retry, At
  <2>2. QED
    BY <2>1, RecordingValues
<1>2. /\ recording \in RecordingRec /\ insight \in InsightRec /\ jobs \in [Task -> Nat]
      /\ made \in [audio : Nat, insight : Nat, texts : Seq(Nat)] /\ req \in [Request -> AnyReq]
  BY RecordingValues
<1>3. PICK w \in TranscribeReq \cup AnalyseReq : w = req[r]
  BY <1>1
<1>4. \A next : [w EXCEPT !.next = next] =
          IF w.op = "transcribe"
          THEN [op |-> w.op, task |-> w.task, audio |-> w.audio, row |-> w.row, mark |-> w.mark, after |-> w.after, next |-> next]
          ELSE [op |-> w.op, task |-> w.task, text |-> w.text, row |-> w.row, mark |-> w.mark, after |-> w.after, next |-> next]
  BY DEF TranscribeReq, AnalyseReq
<1>5. \A v : LET z == [w EXCEPT !.row = v, !.next = "save"] IN
          /\ z.op = w.op /\ z.next = "save" /\ z.row = v /\ z.mark = w.mark /\ z.after = w.after
          /\ w.op = "transcribe" => z.audio = w.audio
          /\ w.op = "analyse" => z.text = w.text
  <2>1. CASE w \in TranscribeReq
    BY <2>1 DEF TranscribeReq
  <2>2. CASE w \in AnalyseReq
    BY <2>2 DEF AnalyseReq
  <2>3. QED
    BY <2>1, <2>2
<1>6. \A mark, after : LET z == [w EXCEPT !.mark = mark, !.after = after, !.next = "save"] IN
          /\ z.op = w.op /\ z.next = "save" /\ z.row = w.row /\ z.mark = mark /\ z.after = after
          /\ w.op = "transcribe" => z.audio = w.audio
          /\ w.op = "analyse" => z.text = w.text
  <2>1. CASE w \in TranscribeReq
    BY <2>1 DEF TranscribeReq
  <2>2. CASE w \in AnalyseReq
    BY <2>2 DEF AnalyseReq
  <2>3. QED
    BY <2>1, <2>2
<1>7. Idle.op = "idle" /\ w.op \in {"transcribe", "analyse"} /\ w.after \in {"ask", "end", "retry"} /\ w.mark \in Marks
  BY DEF Idle, TranscribeReq, AnalyseReq
<1>8. ASSUME NEW next, Goto(r, next)
      PROVE  /\ \A q \in Request : q # r => req'[q] = req[q]
             /\ next = "end" => req'[r].op = "idle"
             /\ next # "end" => /\ req'[r].op = w.op /\ req'[r].next = next /\ req'[r].row = w.row
                                /\ req'[r].mark = w.mark /\ req'[r].after = w.after
                                /\ w.op = "transcribe" => req'[r].audio = w.audio
                                /\ w.op = "analyse" => req'[r].text = w.text
  <2>1. /\ \A q \in Request : q # r => req'[q] = req[q]
        /\ next = "end" => req'[r].op = "idle"
        /\ next # "end" => req'[r] = [w EXCEPT !.next = next]
    BY <1>2, <1>3, <1>8 DEF Goto, Finish
  <2>2. CASE next = "end"
    BY <1>7, <2>1, <2>2
  <2>3. CASE next # "end"
    <3>1. PICK z : z = [w EXCEPT !.next = next]
      OBVIOUS
    <3>2. /\ z.op = w.op /\ z.next = next /\ z.row = w.row /\ z.mark = w.mark /\ z.after = w.after
          /\ w.op = "transcribe" => z.audio = w.audio
          /\ w.op = "analyse" => z.text = w.text
      BY <1>4, <3>1
    <3>3. QED
      BY <2>1, <2>3, <3>1, <3>2
  <2>4. QED
    BY <2>2, <2>3
<1>9. met' = met /\ recording' = recording /\ UNCHANGED <<started, mix, crashed>>
  BY DEF LoadInsight, SaveInsight, Analysed, NotAnalysed, Retry
<1>10. ASSUME NEW q \in Request PROVE RequestFits(q)
  BY DEF RecordingFits
<1>11. ASSUME \A q \in Request : q # r => req'[q] = req[q], req'[r].op \in {req[r].op, "idle"}
       PROVE  /\ ~Resetting /\ ~Dropping /\ \A q \in Request : ~File(q) /\ ~File(q)'
              /\ recording.audio # 0
              /\ \A q \in Request : q # r =>
                    /\ (Answering(q) => Answering(q)') /\ (Settling(q) => Settling(q)')
                    /\ (Analyst(q)' <=> Analyst(q)) /\ (Transcriber(q)' <=> Transcriber(q))
                    /\ (Analysing(q)' <=> Analysing(q))
              /\ Analyst(r)' => Analyst(r)
              /\ Met({"analyse"}, {"analyse"}) => Met({"analyse"}, {"analyse"})'
  <2>1. TaskStep(r)
    BY <1>1, <1>9, <1>11 DEF TaskStep
  <2>2. QED
    BY <1>11, <2>1, Undisturbed
<1>12. CASE LoadInsight(r)
  <2>1. req[r].next = "load" /\ jobs' = jobs
    BY <1>12 DEF LoadInsight, At
  <2>2. /\ made'.texts = made.texts
        /\ insight.st = "none" => insight'.st = "pending"
        /\ insight.st # "none" => insight' = insight
    BY <1>2, <1>12 DEF LoadInsight
  <2>3. \/ Goto(r, w.after) /\ w.op = "transcribe" /\ insight.st = "done"
        \/ req' = [req EXCEPT ![r].row = insight'.id, ![r].next = "save"]
    <3>1. CASE insight.st = "none"
      BY <1>2, <1>3, <1>12, <3>1 DEF LoadInsight
    <3>2. CASE insight.st # "none"
      BY <1>2, <1>3, <1>12, <3>2 DEF LoadInsight
    <3>3. QED
      BY <3>1, <3>2
  <2>4. CASE Goto(r, w.after) /\ w.op = "transcribe" /\ insight.st = "done"
    <3>1. /\ \A q \in Request : q # r => req'[q] = req[q]
          /\ w.after = "end" => req'[r].op = "idle"
          /\ w.after # "end" => /\ req'[r].op = "transcribe" /\ req'[r].next = w.after
                                /\ req'[r].audio = w.audio
      BY <1>8, <2>4
    <3>2. req'[r].op \in {req[r].op, "idle"}
      BY <1>3, <2>4, <3>1
    <3>3. insight' = insight
      BY <2>2, <2>4
    <3> USE DEF Transcriber, Analyst
    <3>4. ASSUME NEW q \in Request PROVE RequestFits(q)'
      <4>1. CASE q = r /\ w.after = "end"
        BY <3>1, <4>1, IdleFits
      <4>2. CASE q = r /\ w.after # "end"
        <5>1. req'[q].audio = recording'.audio
          BY <1>3, <1>9, <1>10, <2>4, <3>1, <4>2 DEF RequestFits
        <5>2. w.after \in {"ask", "retry"}
          BY <1>7, <4>2
        <5>3. QED
          BY <3>1, <4>2, <5>1, <5>2, TranscriberFits
      <4>3. CASE q # r
        BY <1>9, <1>10, <1>11, <3>1, <3>2, <3>3, <4>3, OthersFit
      <4>4. QED
        BY <4>1, <4>2, <4>3
    <3>5. Answering(r) => Answering(r)'
      BY <1>3, <2>1, <3>1 DEF Answering
    <3>6. TranscriptFits'
      BY <1>9, <1>11, <2>2, <3>1, <3>2, <3>5 DEF RecordingFits, TranscriptFits
    <3>7. SummarySettles'
      BY <2>4, <3>3 DEF SummarySettles
    <3>8. (Coming => Coming') /\ ~Analysing(r)' /\ ~Analysing(r)
      BY <1>3, <1>9, <2>1, <2>4, <3>1, <3>2 DEF Coming, Analysing
    <3>9. \A q \in Request : q # r /\ Analysing(q) => req'[q] = req[q]
      BY <3>1
    <3>10. SummaryFits'
      BY <1>9, <1>11, <3>1, <3>2, <3>3, <3>8, <3>9 DEF RecordingFits, SummaryFits
    <3>11. QED
      BY <3>4, <3>6, <3>7, <3>10, RecordingParts
  <2>5. CASE req' = [req EXCEPT ![r].row = insight'.id, ![r].next = "save"]
    <3>1. PICK v : v = insight'.id
      OBVIOUS
    <3>2. req'[r] = [w EXCEPT !.row = v, !.next = "save"] /\ \A q \in Request : q # r => req'[q] = req[q]
      BY <1>2, <1>3, <2>5, <3>1
    <3>3. /\ req'[r].op = w.op /\ req'[r].next = "save" /\ req'[r].row = v
          /\ req'[r].mark = w.mark /\ req'[r].after = w.after
          /\ w.op = "transcribe" => req'[r].audio = w.audio
          /\ w.op = "analyse" => req'[r].text = w.text
      BY <1>5, <1>7, <3>2
    <3>4. req'[r].op \in {req[r].op, "idle"}
      BY <1>3, <3>3
    <3>5. /\ insight'.st # "none" /\ (insight.st # "none" => insight'.id = insight.id)
          /\ insight'.st = "processing" => insight.st = "processing"
          /\ insight'.st = "done" => insight.st = "done" /\ insight'.of = insight.of
      BY <2>2
    <3> USE DEF Transcriber, Analyst
    <3>6. w.mark = "processing" <=> w.after = "ask"
      BY <1>1, <1>3, <1>10, <2>1 DEF RequestFits
    <3>7. ASSUME NEW q \in Request PROVE RequestFits(q)'
      <4>1. CASE q = r /\ w.op = "transcribe"
        <5>1. req'[q].audio = recording'.audio
          BY <1>3, <1>9, <1>10, <3>3, <4>1 DEF RequestFits
        <5>2. QED
          BY <3>1, <3>3, <3>5, <3>6, <4>1, <5>1, TranscriberFits
      <4>2. CASE q = r /\ w.op = "analyse"
        BY <3>1, <3>3, <3>5, <3>6, <4>2, AnalystFits
      <4>3. CASE q # r
        BY <1>9, <1>10, <1>11, <3>2, <3>4, <3>5, <4>3, OthersFit
      <4>4. QED
        BY <1>7, <4>1, <4>2, <4>3
    <3>8. /\ Answering(r) => Answering(r)'
          /\ Settling(r) => Settling(r)'
          /\ Analysing(r) <=> Analysing(r)'
          /\ Coming => Coming'
      BY <1>3, <1>7, <1>9, <2>1, <3>2, <3>3 DEF Answering, Settling, Analysing, Coming
    <3>9. TranscriptFits'
      BY <1>9, <1>11, <2>2, <3>2, <3>4, <3>8 DEF RecordingFits, TranscriptFits
    <3>10. SummarySettles'
      BY <1>11, <2>1, <3>2, <3>4, <3>5, <3>8 DEF RecordingFits, SummarySettles
    <3>11. \A q \in Request : Analysing(q) => req'[q].text = req[q].text
      BY <1>3, <3>2, <3>3 DEF Analysing
    <3>12. SummaryFits'
      <4>1. CASE Met({"analyse"}, {"analyse"})
        BY <1>11, <3>2, <3>4, <4>1 DEF SummaryFits
      <4>2. CASE ~Met({"analyse"}, {"analyse"})
        <5>1. /\ \A p, q \in Request : Analyst(p) /\ Analyst(q) => p = q
              /\ \A q \in Request : Analysing(q) => req[q].text = recording.text \/ Coming
              /\ insight.st = "done" => insight.of = recording.text \/ Coming \/ \E q \in Request : Analysing(q)
          BY <1>11, <3>2, <3>4, <4>2 DEF RecordingFits, SummaryFits
        <5>2. \A q \in Request : (Analyst(q)' => Analyst(q)) /\ (Analysing(q)' <=> Analysing(q))
          BY <1>11, <3>2, <3>4, <3>8
        <5>3. /\ \A p, q \in Request : Analyst(p)' /\ Analyst(q)' => p = q
              /\ \A q \in Request : Analysing(q)' => req'[q].text = recording'.text \/ Coming'
          BY <1>9, <3>8, <3>11, <5>1, <5>2
        <5>4. insight'.st = "done" => insight'.of = recording'.text \/ Coming' \/ \E q \in Request : Analysing(q)'
          BY <1>9, <3>5, <3>8, <5>1, <5>2
        <5>5. QED
          BY <5>3, <5>4 DEF SummaryFits
      <4>3. QED
        BY <4>1, <4>2
    <3>13. QED
      BY <3>7, <3>9, <3>10, <3>12, RecordingParts
  <2>6. QED
    BY <2>3, <2>4, <2>5
<1>13. CASE SaveInsight(r)
  <2>1. req[r].next = "save" /\ jobs' = jobs /\ made' = made
    BY <1>13 DEF SaveInsight, At
  <2> USE DEF Transcriber, Analyst
  <2>2. /\ insight.id = w.row /\ insight.st # "none"
        /\ w.mark = "processing" <=> w.after = "ask"
    BY <1>1, <1>3, <1>10, <2>1 DEF RequestFits
  <2>3. Goto(r, w.after) /\ insight' = [insight EXCEPT !.st = w.mark]
    BY <1>3, <1>13, <2>2 DEF SaveInsight
  <2>4. insight'.id = insight.id /\ insight'.st = w.mark /\ w.mark \notin {"none", "done"}
    BY <1>2, <1>7, <2>3 DEF InsightRec, Marks
  <2>5. /\ \A q \in Request : q # r => req'[q] = req[q]
        /\ w.after = "end" => req'[r].op = "idle"
        /\ w.after # "end" => /\ req'[r].op = w.op /\ req'[r].next = w.after /\ req'[r].row = w.row
                              /\ w.op = "transcribe" => req'[r].audio = w.audio
                              /\ w.op = "analyse" => req'[r].text = w.text
    BY <1>8, <2>3
  <2>6. req'[r].op \in {req[r].op, "idle"}
    BY <1>3, <2>5
  <2>7. ASSUME NEW q \in Request PROVE RequestFits(q)'
    <3>1. CASE q = r /\ w.after = "end"
      BY <2>5, <3>1, IdleFits
    <3>2. CASE q = r /\ w.after # "end"
      <4>1. w.after \in {"ask", "retry"}
        BY <1>7, <3>2
      <4>2. CASE w.op = "transcribe"
        <5>1. req'[q].audio = recording'.audio
          BY <1>3, <1>9, <1>10, <2>5, <3>2, <4>2 DEF RequestFits
        <5>2. QED
          BY <2>5, <3>2, <4>1, <4>2, <5>1, TranscriberFits
      <4>3. CASE w.op = "analyse"
        BY <2>2, <2>4, <2>5, <3>2, <4>1, <4>3, AnalystFits
      <4>4. QED
        BY <1>7, <4>2, <4>3
    <3>3. CASE q # r
      BY <1>9, <1>10, <1>11, <2>4, <2>5, <2>6, <3>3, OthersFit
    <3>4. QED
      BY <3>1, <3>2, <3>3
  <2>8. Answering(r) => Answering(r)'
    BY <1>3, <2>1, <2>5 DEF Answering
  <2>9. TranscriptFits'
    BY <1>9, <1>11, <2>1, <2>5, <2>6, <2>8 DEF RecordingFits, TranscriptFits
  <2>10. SummarySettles'
    <3>1. w.mark = "processing" => Settling(r)'
      BY <1>7, <2>2, <2>5 DEF Settling, Analysing
    <3>2. QED
      BY <2>4, <3>1 DEF SummarySettles
  <2>11. /\ Analysing(r)' => Analysing(r) /\ req'[r].text = req[r].text
         /\ Coming => Coming'
    BY <1>3, <1>9, <2>1, <2>5, <2>6 DEF Analysing, Coming
  <2>12. SummaryFits'
    <3>1. \A q \in Request : Analysing(q)' => Analysing(q) /\ req'[q].text = req[q].text
      BY <1>11, <2>5, <2>6, <2>11
    <3>2. QED
      BY <1>9, <1>11, <2>4, <2>5, <2>6, <2>11, <3>1 DEF RecordingFits, SummaryFits
  <2>13. QED
    BY <2>7, <2>9, <2>10, <2>12, RecordingParts
<1>14. CASE Analysed(r)
  <2>1. req[r].op = "analyse" /\ req[r].next = "ask" /\ jobs' = jobs /\ made' = made
    BY <1>14 DEF Analysed, At
  <2> USE DEF Transcriber, Analyst
  <2>2. insight.id = w.row /\ insight.st # "none"
    BY <1>3, <1>10, <2>1 DEF RequestFits
  <2>3. insight' = [id |-> w.row, st |-> "done", of |-> w.text]
    BY <1>3, <1>14, <2>2 DEF Analysed
  <2>4. \A q \in Request : q # r => req'[q] = req[q]
    BY <1>2, <1>14 DEF Analysed, Finish
  <2>5. req'[r].op = "idle"
    BY <1>2, <1>14 DEF Analysed, Finish
  <2>6. ASSUME NEW q \in Request PROVE RequestFits(q)'
    <3>1. CASE q = r
      BY <2>5, <3>1, IdleFits
    <3>2. CASE q # r
      BY <1>9, <1>10, <1>11, <2>2, <2>3, <2>4, <2>5, <3>2, OthersFit
    <3>3. QED
      BY <3>1, <3>2
  <2>7. ~Answering(r) /\ ~Analysing(r)' /\ Analysing(r)
    BY <2>1, <2>5 DEF Answering, Analysing
  <2>8. TranscriptFits'
    BY <1>9, <1>11, <2>1, <2>4, <2>5, <2>7 DEF RecordingFits, TranscriptFits
  <2>9. SummarySettles'
    BY <2>3 DEF SummarySettles
  <2>10. Coming => Coming'
    BY <1>9, <2>1, <2>4 DEF Coming
  <2>11. SummaryFits'
    <3>1. CASE Met({"analyse"}, {"analyse"})
      BY <1>11, <2>4, <2>5, <3>1 DEF SummaryFits
    <3>2. CASE ~Met({"analyse"}, {"analyse"})
      <4>1. /\ \A p, q \in Request : Analyst(p) /\ Analyst(q) => p = q
            /\ \A q \in Request : Analysing(q) => req[q].text = recording.text \/ Coming
        BY <1>11, <2>4, <2>5, <3>2 DEF RecordingFits, SummaryFits
      <4>2. insight'.of = recording'.text \/ Coming'
        BY <1>3, <1>9, <2>3, <2>7, <2>10, <4>1
      <4>3. \A q \in Request : ~Analyst(q)'
        BY <2>1, <2>4, <2>5, <4>1
      <4>4. QED
        BY <4>2, <4>3 DEF SummaryFits, Analysing
    <3>3. QED
      BY <3>1, <3>2
  <2>12. QED
    BY <2>6, <2>8, <2>9, <2>11, RecordingParts
<1>15. CASE NotAnalysed(r)
  <2>1. req[r].op = "analyse" /\ req[r].next = "ask" /\ jobs' = jobs /\ made' = made /\ insight' = insight
    BY <1>15 DEF NotAnalysed, At
  <2>2. PICK f \in Failures : req' = [req EXCEPT ![r].mark = f.mark, ![r].after = f.after, ![r].next = "save"]
    BY <1>15 DEF NotAnalysed
  <2>3. f.mark # "processing" /\ f.after # "ask"
    BY DEF Failures
  <2>4. req'[r] = [w EXCEPT !.mark = f.mark, !.after = f.after, !.next = "save"] /\ \A q \in Request : q # r => req'[q] = req[q]
    BY <1>2, <1>3, <2>2
  <2>5. /\ req'[r].op = "analyse" /\ req'[r].next = "save" /\ req'[r].row = w.row
        /\ req'[r].mark = f.mark /\ req'[r].after = f.after /\ req'[r].text = w.text
    BY <1>3, <1>6, <2>1, <2>4
  <2>6. req'[r].op \in {req[r].op, "idle"}
    BY <2>1, <2>5
  <2> USE DEF Transcriber, Analyst
  <2>7. insight.id = w.row /\ insight.st # "none"
    BY <1>3, <1>10, <2>1 DEF RequestFits
  <2>8. ASSUME NEW q \in Request PROVE RequestFits(q)'
    <3>1. CASE q = r
      BY <2>1, <2>3, <2>5, <2>7, <3>1, AnalystFits
    <3>2. CASE q # r
      BY <1>9, <1>10, <1>11, <2>1, <2>4, <2>6, <3>2, OthersFit
    <3>3. QED
      BY <3>1, <3>2
  <2>9. ~Answering(r) /\ Analysing(r) /\ Analysing(r)' /\ Settling(r)'
    BY <2>1, <2>5 DEF Answering, Analysing, Settling
  <2>10. Coming => Coming'
    BY <1>9, <2>1, <2>4 DEF Coming
  <2>11. TranscriptFits'
    BY <1>9, <1>11, <2>1, <2>4, <2>6, <2>9 DEF RecordingFits, TranscriptFits
  <2>12. SummarySettles'
    BY <2>9 DEF SummarySettles
  <2>13. \A q \in Request : Analysing(q) => req'[q].text = req[q].text
    BY <1>3, <2>4, <2>5
  <2>14. SummaryFits'
    BY <1>9, <1>11, <2>1, <2>4, <2>6, <2>9, <2>10, <2>13 DEF RecordingFits, SummaryFits
  <2>15. QED
    BY <2>8, <2>11, <2>12, <2>14, RecordingParts
<1>16. CASE Retry(r)
  <2>1. req[r].next = "retry" /\ insight' = insight /\ made' = made
    BY <1>16 DEF Retry, At
  <2>2. req'[r].op = "idle" /\ \A q \in Request : q # r => req'[q] = req[q]
    BY <1>2, <1>16 DEF Retry, Finish
  <2>3. \A t \in Task : jobs'[t] >= jobs[t] /\ jobs[t] \in Nat /\ jobs'[t] \in Nat
    BY <1>2, <1>16 DEF Retry, Submit
  <2>4. "analyse" \in Task /\ "transcribe" \in Task /\ "force" \in Task
    BY DEF Task
  <2> USE DEF Transcriber, Analyst
  <2>5. ASSUME NEW q \in Request PROVE RequestFits(q)'
    <3>1. CASE q = r
      BY <2>2, <3>1, IdleFits
    <3>2. CASE q # r
      BY <1>9, <1>10, <1>11, <2>1, <2>2, <3>2, OthersFit
    <3>3. QED
      BY <3>1, <3>2
  <2>6. ~Answering(r) /\ ~Analysing(r) /\ ~Settling(r) /\ ~Analysing(r)'
    BY <2>1, <2>2 DEF Answering, Analysing, Settling
  <2>7. Coming => Coming'
    BY <1>9, <2>1, <2>2, <2>3, <2>4 DEF Coming
  <2>8. TranscriptFits'
    BY <1>9, <1>11, <2>1, <2>2, <2>6 DEF RecordingFits, TranscriptFits
  <2>9. SummarySettles'
    BY <1>11, <2>1, <2>2, <2>3, <2>4, <2>6, <2>7 DEF RecordingFits, SummarySettles
  <2>10. \A q \in Request : q # r /\ Analysing(q) => req'[q] = req[q]
    BY <2>2
  <2>11. SummaryFits'
    BY <1>9, <1>11, <2>1, <2>2, <2>6, <2>7, <2>10 DEF RecordingFits, SummaryFits
  <2>12. QED
    BY <2>5, <2>8, <2>9, <2>11, RecordingParts
<1>17. QED
  BY <1>12, <1>13, <1>14, <1>15, <1>16

\* What only submits a task, or finds nothing to analyse.
LEMMA QueueKeeps ==
    ASSUME TypeInv, RecordingFits, Retranscribe \/ Reanalyse \/ Backfill \/ NothingToAnalyse
    PROVE  RecordingFits'
<1>1. /\ recording' = recording /\ insight' = insight /\ made' = made /\ req' = req
      /\ jobs \in [Task -> Nat]
  BY RecordingValues DEF Retranscribe, Reanalyse, Backfill, NothingToAnalyse
<1>2. met \subseteq met'
  BY DEF Retranscribe, Reanalyse, Backfill, NothingToAnalyse, Happens
<1>3. "analyse" \in Task /\ "transcribe" \in Task /\ "force" \in Task
  BY DEF Task
<1>4. /\ jobs'["transcribe"] >= jobs["transcribe"] /\ jobs'["force"] >= jobs["force"]
      /\ jobs'["analyse"] >= jobs["analyse"] \/ recording.text = 0
      /\ \A t \in Task : jobs[t] \in Nat /\ jobs'[t] \in Nat
  <2>1. CASE \E t \in Task : Submit(t)
    BY <1>1, <1>3, <2>1 DEF Submit
  <2>2. CASE NothingToAnalyse
    BY <1>1, <1>3, <2>2 DEF NothingToAnalyse, Take
  <2>3. QED
    BY <1>3, <2>1, <2>2 DEF Retranscribe, Reanalyse, Backfill
<1>5. /\ \A q \in Request : RequestFits(q) => RequestFits(q)'
      /\ \A q \in Request : /\ Answering(q)' <=> Answering(q)
                            /\ Settling(q)' <=> Settling(q)
                            /\ Analysing(q)' <=> Analysing(q)
                            /\ Analyst(q)' <=> Analyst(q)
      /\ (Resetting' <=> Resetting) /\ (Dropping' <=> Dropping)
  BY <1>1 DEF RequestFits, Answering, Settling, Analysing, Analyst, Transcriber, File, Resetting, Dropping
<1>6. Coming => Coming'
  BY <1>1, <1>3, <1>4 DEF Coming, Transcriber
<1>7. TranscriptFits'
  BY <1>1, <1>5 DEF RecordingFits, TranscriptFits
<1>8. SummarySettles'
  BY <1>1, <1>3, <1>4, <1>5, <1>6 DEF RecordingFits, SummarySettles
<1>9. SummaryFits'
  BY <1>1, <1>2, <1>5, <1>6 DEF RecordingFits, SummaryFits, Met
<1>10. QED
  BY <1>5, <1>7, <1>8, <1>9, RecordingParts DEF RecordingFits

LEMMA RecordingKept ==
    ASSUME TypeInv, RecordingInv, TranscriptionNext
    PROVE  RecordingInv'
<1>1. met \subseteq met' /\ crashed' = crashed
  BY RecordingTyped, RecordingNeverCrashes DEF RecordingStep, Only
<1>2. CASE Disturbed \/ Disturbed'
  BY <1>1, <1>2, StaysDisturbed DEF RecordingInv
<1>3. CASE ~Disturbed /\ ~Disturbed'
  <2>1. RecordingFits /\ ~Disturbed'
    BY <1>3 DEF RecordingInv
  <2>2. ASSUME NEW r \in Request, NEW kind \in {"file", "link"}, NEW rank \in Ranks, Upload(r, kind, rank)
        PROVE  RecordingFits'
    BY <2>1, <2>2, UploadKeeps
  <2>3. ASSUME NEW r \in Request, AudioWrite(r) \/ ResetTranscript(r) \/ DropInsight(r) \/ QueuePipeline(r)
        PROVE  RecordingFits'
    BY <2>1, <2>3, FileKeeps
  <2>4. ASSUME NEW r \in Request, NEW task \in Task, Transcribe(r, task)
        PROVE  RecordingFits'
    BY <2>1, <2>4, TranscribeKeeps
  <2>5. ASSUME NEW r \in Request, Analyse(r)
        PROVE  RecordingFits'
    BY <2>1, <2>5, AnalyseKeeps
  <2>6. ASSUME NEW r \in Request, Begin(r) \/ Transcribed(r) \/ NotTranscribed(r) \/ HandOff(r)
        PROVE  RecordingFits'
    BY <2>1, <2>6, TranscriptionKeeps
  <2>7. ASSUME NEW r \in Request, LoadInsight(r) \/ SaveInsight(r) \/ Analysed(r) \/ NotAnalysed(r) \/ Retry(r)
        PROVE  RecordingFits'
    BY <2>1, <2>7, SummaryKeeps
  <2>8. ASSUME Retranscribe \/ Reanalyse \/ Backfill \/ NothingToAnalyse
        PROVE  RecordingFits'
    BY <2>1, <2>8, QueueKeeps
  <2>9. RecordingFits'
    BY <2>2, <2>3, <2>4, <2>5, <2>6, <2>7, <2>8 DEF TranscriptionNext
  <2>10. QED
    BY <2>9 DEF RecordingInv
<1>4. QED
  BY <1>2, <1>3

\* The steps of the other components.
LEMMA RecordingFrame ==
    ASSUME TypeInv, RecordingInv, NEW kinds, Only(kinds), kinds \cap RecordingKinds = {},
           UNCHANGED transcriptionVars, crashed => crashed'
    PROVE  RecordingInv'
<1>1. met \subseteq met'
  BY DEF Only
<1>2. CASE Disturbed
  BY <1>1, <1>2, StaysDisturbed DEF RecordingInv
<1>3. CASE RecordingFits
  <2>1. recording' = recording /\ insight' = insight /\ made' = made /\ jobs' = jobs
    BY DEF transcriptionVars
  <2>2. ASSUME NEW q \in Request
        PROVE  \/ req'[q] = req[q]
               \/ req[q].op \notin RecordingKinds /\ req'[q].op \notin RecordingKinds
    BY DEF Only, RecordingKinds
  <2> USE DEF File, Transcriber, Analyst
  <2>3. ASSUME NEW q \in Request
        PROVE  /\ Answering(q)' <=> Answering(q)
               /\ Settling(q)' <=> Settling(q)
               /\ Analysing(q)' <=> Analysing(q)
               /\ Analyst(q)' <=> Analyst(q)
               /\ Transcriber(q)' <=> Transcriber(q)
               /\ Analysing(q) => req'[q] = req[q]
    BY <2>2 DEF Answering, Settling, Analysing, RecordingKinds
  <2>4. ASSUME NEW q \in Request PROVE RequestFits(q)'
    <3>1. RequestFits(q)
      BY <1>3 DEF RecordingFits
    <3>2. \A p \in Request : (Transcriber(p)' <=> Transcriber(p)) /\ (Analyst(p)' <=> Analyst(p))
      BY <2>3
    <3>3. CASE req'[q] = req[q]
      BY <2>1, <3>1, <3>2, <3>3 DEF RequestFits
    <3>4. CASE req'[q].op \notin RecordingKinds
      BY <3>4 DEF RequestFits, RecordingKinds
    <3>5. QED
      BY <2>2, <3>3, <3>4
  <2>5. (Resetting' <=> Resetting) /\ (Dropping' <=> Dropping) /\ (Coming' <=> Coming)
    BY <2>1, <2>2 DEF Resetting, Dropping, Coming, RecordingKinds
  <2>6. TranscriptFits'
    BY <1>3, <2>1, <2>3, <2>5 DEF RecordingFits, TranscriptFits
  <2>7. SummarySettles'
    BY <1>3, <2>1, <2>3, <2>5 DEF RecordingFits, SummarySettles
  <2>8. SummaryFits'
    BY <1>1, <1>3, <2>1, <2>3, <2>5 DEF RecordingFits, SummaryFits, Met
  <2>9. RecordingFits'
    BY <2>4, <2>6, <2>7, <2>8, RecordingParts
  <2>10. QED
    BY <2>9 DEF RecordingInv
<1>4. QED
  BY <1>2, <1>3 DEF RecordingInv

LEMMA PresenceNeverCrashes == ASSUME PresenceNext PROVE crashed' = crashed
BY DEF PresenceNext, Report, Heartbeat, Sweep, SweepOne, HeartbeatSets, HeartbeatTouches, SaveStatus, Minute

LEMMA RecordingFollows == ASSUME TypeInv, RecordingInv PROVE RecordingAgrees
<1>1. CASE Disturbed
  BY <1>1 DEF Disturbed, RecordingAgrees
<1>2. CASE RecordingFits /\ ~InProgress("file")
  <2> USE DEF File, Transcriber, Analyst
  <2>1. ~Resetting /\ ~Dropping
    BY <1>2 DEF Resetting, Dropping, InProgress
  <2>2. /\ (\E q \in Request : Answering(q)) => InProgress("transcribe")
        /\ (\E q \in Request : Settling(q)) => InProgress("transcribe") \/ InProgress("analyse")
        /\ (\E q \in Request : Analysing(q)) => InProgress("analyse")
    BY DEF Answering, Settling, Analysing, InProgress
  <2>3. Coming => InProgress("transcribe") \/ \E t \in Task : jobs[t] > 0
    BY DEF Coming, InProgress, Task
  <2>4. jobs["transcribe"] > 0 \/ jobs["force"] > 0 => \E t \in Task : jobs[t] > 0
    BY DEF Task
  <2>5. /\ recording.text # 0 => made.texts[recording.text] = recording.audio
        /\ recording.st = "processing" => InProgress("transcribe")
    BY <1>2, <2>1, <2>2 DEF RecordingFits, TranscriptFits
  <2>6. CASE InProgress("transcribe") \/ InProgress("analyse") \/ (\E t \in Task : jobs[t] > 0)
    BY <2>5, <2>6 DEF RecordingAgrees
  <2>7. CASE ~(InProgress("transcribe") \/ InProgress("analyse") \/ (\E t \in Task : jobs[t] > 0))
    <3>1. insight.st # "processing"
      BY <1>2, <2>1, <2>2, <2>3, <2>4, <2>7 DEF RecordingFits, SummarySettles
    <3>2. insight.st = "done" /\ ~Met({"analyse"}, {"analyse"}) => insight.of = recording.text
      BY <1>2, <2>1, <2>2, <2>3, <2>7 DEF RecordingFits, SummaryFits
    <3>3. QED
      BY <2>5, <3>1, <3>2 DEF RecordingAgrees
  <2>8. QED
    BY <2>6, <2>7
<1>3. CASE InProgress("file")
  BY <1>3 DEF RecordingAgrees
<1>4. QED
  BY <1>1, <1>2, <1>3 DEF RecordingInv

\* Once what was submitted has run, the transcript is of the call's audio and
\* a finished summary of its transcript; what is said to be processing has a
\* task that will say otherwise.
THEOREM RecordingHolds == Spec => []RecordingAgrees
<1>1. Init => RecordingInv
  <2> SUFFICES ASSUME Init PROVE RecordingInv
    OBVIOUS
  <2>1. \A r \in Request : req[r].op = "idle"
    <3>1. Idle.op = "idle"
      BY DEF Idle
    <3>2. QED
      BY <3>1, Begins
  <2>2. \A r \in Request : RequestFits(r)
    BY <2>1 DEF RequestFits, File, Transcriber, Analyst
  <2>3. /\ recording.audio = 0 => recording.text = 0
        /\ recording.text # 0 => made.texts[recording.text] = recording.audio
        /\ recording.st # "processing" /\ insight.st # "processing"
        /\ insight.st = "done" => insight.of = recording.text
    BY DEF Init, TranscriptionInit, NoRecording, NoInsight
  <2>4. \A r, q \in Request : ~Analyst(r) /\ ~Analysing(r)
    BY <2>1 DEF Analyst, Analysing
  <2>5. QED
    BY <2>2, <2>3, <2>4 DEF RecordingInv, RecordingFits, TranscriptFits, SummarySettles, SummaryFits
<1>2. TypeInv /\ RecordingInv /\ [Next]_vars => RecordingInv'
  <2> SUFFICES ASSUME TypeInv, RecordingInv, [Next]_vars PROVE RecordingInv'
    OBVIOUS
  <2>1. CASE DeskNext /\ DeskFrame
    <3>1. CASE \E r \in Request : Becomes(r, Idle) /\ met' = met /\ crashed'
      BY <3>1 DEF RecordingInv, Disturbed
    <3>2. CASE Only(DeskKinds)
      <4>1. PICK kinds : kinds = DeskKinds
        OBVIOUS
      <4>2. kinds \cap RecordingKinds = {} /\ Only(kinds) /\ UNCHANGED transcriptionVars
        BY <2>1, <3>2, <4>1 DEF DeskKinds, DeskOps, RecordingKinds, DeskFrame
      <4>3. QED
        BY <2>1, <4>2, NoneRecovers, RecordingFrame
    <3>3. QED
      BY <2>1, <3>1, <3>2, DeskTyped
  <2>2. CASE PresenceNext /\ PresenceFrames
    <3>1. PICK kinds : kinds = PresenceKinds
      OBVIOUS
    <3>2. kinds \cap RecordingKinds = {} /\ Only(kinds) /\ UNCHANGED transcriptionVars
      BY <2>2, <3>1, PresenceTyped DEF PresenceKinds, RecordingKinds, PresenceFrames
    <3>3. QED
      BY <2>2, <3>2, PresenceNeverCrashes, RecordingFrame
  <2>3. CASE TranscriptionNext
    BY <2>3, RecordingKept
  <2>4. CASE IntakeNext /\ IntakeFrames
    <3>1. PICK kinds : kinds = IntakeKinds
      OBVIOUS
    <3>2. kinds \cap RecordingKinds = {} /\ Only(kinds) /\ UNCHANGED transcriptionVars
      BY <2>4, <3>1, IntakeTyped DEF IntakeStep, IntakeKinds, RecordingKinds, IntakeFrames
    <3>3. QED
      BY <2>4, <3>2, IntakeNeverCrashes, RecordingFrame
  <2>5. CASE UNCHANGED vars
    <3>1. UNCHANGED transcriptionVars /\ crashed' = crashed /\ UNCHANGED req /\ met \subseteq met'
      BY <2>5 DEF vars, transcriptionVars
    <3>2. PICK kinds : kinds = {"idle"}
      OBVIOUS
    <3>3. kinds \cap RecordingKinds = {} /\ Only(kinds)
      BY <3>1, <3>2, Quietly DEF RecordingKinds
    <3>4. QED
      BY <3>1, <3>3, RecordingFrame
  <2>6. QED
    BY <2>1, <2>2, <2>3, <2>4, <2>5 DEF Next, DeskFrame, PresenceFrames, IntakeFrames
<1>3. TypeInv /\ RecordingInv => RecordingAgrees
  BY RecordingFollows
<1>4. QED
  BY <1>1, <1>2, <1>3, TypeInvariant, PTL DEF Spec

-----------------------------------------------------------------------------
(* The desk.  Two requests in progress have met, as what they were or as    *)
(* what they have become.                                                   *)

Origin(op) == CASE op = "supersede" -> {"schedule", "supersede"}
                [] op = "replace" -> {"call", "outcome", "replace"}
                [] op = "book" -> {"call", "outcome", "replace", "book"}
                [] op = "follow" -> {"edit", "follow"}
                [] OTHER -> {op}
MeetInv ==
    \A r, q \in Request :
        r # q /\ req[r].op \in DeskKinds /\ req[q].op \in DeskKinds =>
            \E a \in Origin(req[r].op), b \in Origin(req[q].op) : {a, b} \in met

(* A pull that hands out a lead found that its agent holds none, an outcome *)
(* is of the status the lead still has, and a plan fits the loads there are.*)

PullFine(r) == req[r].op = "pull" => req[r].again \/ CheckedOut(req[r].agent) = {}
PullMet == Met({"pull"}, {"pull", "assign", "distribute", "edit"})
PullInv == PullMet \/ \A r \in Request : PullFine(r)
OutcomeFine(r) ==
    req[r].op \in {"call", "outcome"} =>
        /\ req[r].copy.st = lead[req[r].lead].st
        /\ req[r].st = NextStatus(req[r].copy.st, req[r].d.to, req[r].on)
OutcomeMet == Met({"call", "outcome"}, Calling \cup {"status", "edit"})
OutcomeInv == OutcomeMet \/ \A r \in Request : OutcomeFine(r)
PlanFine(r) == req[r].op = "distribute" => WithinCap(req[r])
PlanMet == Met({"distribute"}, Moving \cup Calling \cup {"status"})
PlanInv == PlanMet \/ \A r \in Request : PlanFine(r)

-----------------------------------------------------------------------------
(* What a request of the desk has read when it begins.                      *)

\* The desk and its requests stay, whatever the others do.
Still ==
    /\ UNCHANGED <<lead, call, followup, queue, clock, crashed>> /\ met \subseteq met'
    /\ \A r \in Request : req[r].op \in DeskKinds \/ req'[r].op \in DeskKinds => req'[r] = req[r]

LEMMA StillBy ==
    ASSUME NEW kinds, Only(kinds), kinds \cap DeskKinds = {}, UNCHANGED <<lead, call, followup, queue, clock, crashed>>
    PROVE  Still
BY DEF Only, Still, DeskKinds, DeskOps

LEMMA OthersStill ==
    ASSUME TypeInv, Next \/ UNCHANGED vars, ~(DeskNext /\ DeskFrame)
    PROVE  Still
<1>1. CASE PresenceNext /\ PresenceFrames
  <2>1. PICK kinds : kinds = PresenceKinds
    OBVIOUS
  <2>2. kinds \cap DeskKinds = {} /\ Only(kinds) /\ UNCHANGED <<lead, call, followup, queue, clock>>
    BY <1>1, <2>1, PresenceTyped DEF PresenceKinds, DeskKinds, DeskOps, PresenceFrames
  <2>3. QED
    BY <1>1, <2>2, PresenceNeverCrashes, StillBy
<1>2. CASE TranscriptionNext /\ RecordingFrames
  <2>1. PICK kinds : kinds = RecordingKinds
    OBVIOUS
  <2>2. kinds \cap DeskKinds = {} /\ Only(kinds) /\ UNCHANGED <<lead, call, followup, queue, clock>>
    BY <1>2, <2>1, RecordingTyped DEF RecordingStep, RecordingKinds, DeskKinds, DeskOps, RecordingFrames
  <2>3. QED
    BY <1>2, <2>2, RecordingNeverCrashes, StillBy
<1>3. CASE IntakeNext /\ IntakeFrames
  <2>1. PICK kinds : kinds = IntakeKinds
    OBVIOUS
  <2>2. kinds \cap DeskKinds = {} /\ Only(kinds) /\ UNCHANGED <<lead, call, followup, queue, clock>>
    BY <1>3, <2>1, IntakeTyped DEF IntakeStep, IntakeKinds, DeskKinds, DeskOps, IntakeFrames
  <2>3. QED
    BY <1>3, <2>2, IntakeNeverCrashes, StillBy
<1>4. CASE UNCHANGED vars
  BY <1>4 DEF vars, Still
<1>5. QED
  BY <1>1, <1>2, <1>3, <1>4 DEF Next, DeskFrame, PresenceFrames, RecordingFrames, IntakeFrames

LEMMA BegunBy ==
    ASSUME TypeInv, NEW r \in Request, NEW w \in DeskReq, Start(r, w.op, w), UNCHANGED <<mix, crashed>>
    PROVE  Begun(r, w)
<1>1. w \in AnyReq /\ w.op \in Kinds
  BY DeskKind DEF AnyReq, Kinds
<1>2. Becomes(r, w) /\ Free(r) /\ Meets(r, w.op)
  BY <1>1, Starts DEF TypeInv
<1>3. QED
  BY <1>1, <1>2, Meeting DEF TypeInv, Begun

ScheduleLoads(w) == w.seen = lead[w.lead].next /\ lead[w.lead].owner \in {Nobody, w.owner}
CompleteLoads(w) == w.seen = lead[w.lead].next
PullLoads(w) == w.again \/ CheckedOut(w.agent) = {}
ClickLoads(w) ==
    /\ call[w.call] = NoCall /\ w.worked = lead[w.lead].worked
    /\ \E a \in Agent : call' = [call EXCEPT ![w.call] = [lead |-> w.lead, agent |-> a, on |-> FALSE, at |-> clock]]
OutcomeLoads(w) ==
    /\ w.copy = Stats(lead[w.lead], call', w.lead)
    /\ w.st = NextStatus(lead[w.lead].st, w.d.to, w.on)
    /\ lead[w.lead].owner \in {Nobody, w.owner}
    /\ \E c \in Call :
          /\ call'[c].lead = w.lead /\ \A d \in Call \ {c} : call'[d] = call[d]
          /\ w.op = "call" => call[c] = NoCall
          /\ w.op = "outcome" => call[c].lead = w.lead
EditLoads(w) ==
    /\ w.was = lead[w.lead].owner
    /\ w.row = [lead[w.lead] EXCEPT !.owner = w.row.owner, !.st = w.row.st]
AssignLoads(w) ==
    \E a \in Agent : lead' = [l \in Lead |-> IF l \in w.leads THEN [lead[l] EXCEPT !.owner = a] ELSE lead[l]]

Loaded(w) ==
    /\ UNCHANGED <<followup, queue, clock, crashed>>
    /\ w.op # "assign" => lead' = lead
    /\ w.op \notin Calling => call' = call
    /\ w.op \notin {"supersede", "replace", "book", "follow"}
    /\ w.op = "schedule" => ScheduleLoads(w)
    /\ w.op = "complete" => CompleteLoads(w)
    /\ w.op = "pull" => PullLoads(w)
    /\ w.op = "click" => ClickLoads(w)
    /\ w.op \in {"call", "outcome"} => OutcomeLoads(w)
    /\ w.op = "edit" => EditLoads(w)
    /\ w.op = "assign" => AssignLoads(w)
    /\ w.op = "distribute" => WithinCap(w)

LEMMA FollowUpsLoad ==
    ASSUME TypeInv, NEW r \in Request,
           \/ \E a \in Agent, l \in Lead, at \in Later : Schedule(r, a, l, at)
           \/ \E f \in FollowUp : Complete(r, f)
    PROVE  \E w \in DeskReq : Begun(r, w) /\ Loaded(w)
<1>0. /\ lead \in [Lead -> LeadRec] /\ followup \in [FollowUp -> FollowRec]
      /\ clock \in Nat \ {0} /\ req \in [Request -> AnyReq]
  BY DeskVariables
<1>1. CASE \E a \in Agent, l \in Lead, at \in Later : Schedule(r, a, l, at)
  <2>1. PICK a \in Agent, l \in Lead, at \in Later : Schedule(r, a, l, at)
    BY <1>1
  <2> DEFINE w == [op |-> "schedule", lead |-> l, at |-> at, seen |-> lead[l].next,
                   owner |-> IF lead[l].owner # Nobody THEN lead[l].owner ELSE a]
  <2>2. w \in ScheduleReq /\ w.op = "schedule" /\ ScheduleLoads(w)
    <3>1. at \in Nat \ {0}
      BY <1>0, <2>1, DeskConstants DEF Schedule
    <3>2. (IF lead[l].owner # Nobody THEN lead[l].owner ELSE a) \in Agent /\ lead[l].next \in Nat
      BY <1>0 DEF LeadRec, Owner
    <3>3. QED
      BY <3>1, <3>2 DEF ScheduleReq, ScheduleLoads
  <2>3. Start(r, w.op, w) /\ UNCHANGED <<deskVars, mix>>
    BY <2>1 DEF Schedule
  <2> HIDE DEF w
  <2>4. w \in DeskReq
    BY <2>2 DEF DeskReq
  <2>5. Begun(r, w)
    BY <2>3, <2>4, BegunBy DEF deskVars
  <2>6. QED
    BY <2>2, <2>3, <2>4, <2>5 DEF deskVars, Loaded, Calling
<1>2. CASE \E f \in FollowUp : Complete(r, f)
  <2>1. PICK f \in FollowUp : Complete(r, f)
    BY <1>2
  <2> DEFINE w == [op |-> "complete", row |-> f, lead |-> followup[f].lead, seen |-> lead[followup[f].lead].next]
  <2>2. w \in CompleteReq /\ w.op = "complete" /\ CompleteLoads(w)
    <3>1. followup[f].lead \in Lead
      BY <1>0, <2>1 DEF Complete, FollowRec, NoFollow
    <3>2. lead[followup[f].lead].next \in Nat
      BY <1>0, <3>1 DEF LeadRec
    <3>3. QED
      BY <3>1, <3>2 DEF CompleteReq, CompleteLoads
  <2>3. Start(r, w.op, w) /\ UNCHANGED <<deskVars, mix>>
    BY <2>1 DEF Complete
  <2> HIDE DEF w
  <2>4. w \in DeskReq
    BY <2>2 DEF DeskReq
  <2>5. Begun(r, w)
    BY <2>3, <2>4, BegunBy DEF deskVars
  <2>6. QED
    BY <2>2, <2>3, <2>4, <2>5 DEF deskVars, Loaded, Calling
<1>3. QED
  BY <1>1, <1>2

LEMMA QueueLoads ==
    ASSUME TypeInv, NEW r \in Request,
           \E a \in Agent, l \in Lead :
              Pull(r, a, l) \/ \E how \in {"dialed", "return", "skip"} : Release(r, a, l, how)
    PROVE  \E w \in DeskReq : Begun(r, w) /\ Loaded(w)
<1>0. /\ lead \in [Lead -> LeadRec] /\ clock \in Nat \ {0} /\ req \in [Request -> AnyReq]
  BY DeskVariables
<1>1. CASE \E a \in Agent, l \in Lead : Pull(r, a, l)
  <2>1. PICK a \in Agent, l \in Lead : Pull(r, a, l)
    BY <1>1
  <2> DEFINE w == [op |-> "pull", lead |-> l, agent |-> a, until |-> clock + Ttl, again |-> l \in CheckedOut(a)]
  <2>2. w \in PullReq /\ w.op = "pull" /\ PullLoads(w)
    <3>1. clock + Ttl \in Nat
      BY <1>0, DeskConstants
    <3>2. l \in CheckedOut(a) \/ CheckedOut(a) = {}
      BY <2>1 DEF Pull, Served
    <3>3. w \in PullReq /\ w.op = "pull"
      BY <3>1 DEF PullReq
    <3>4. w.again = (l \in CheckedOut(a)) /\ w.agent = a
      OBVIOUS
    <3> HIDE DEF w
    <3>5. QED
      BY <3>2, <3>3, <3>4 DEF PullLoads
  <2>3. Start(r, w.op, w) /\ UNCHANGED <<deskVars, mix>>
    BY <2>1 DEF Pull
  <2> HIDE DEF w
  <2>4. w \in DeskReq
    BY <2>2 DEF DeskReq
  <2>5. Begun(r, w)
    BY <2>3, <2>4, BegunBy DEF deskVars
  <2>6. QED
    BY <2>2, <2>3, <2>4, <2>5 DEF deskVars, Loaded, Calling
<1>2. CASE \E a \in Agent, l \in Lead, how \in {"dialed", "return", "skip"} : Release(r, a, l, how)
  <2>1. PICK a \in Agent, l \in Lead, how \in {"dialed", "return", "skip"} : Release(r, a, l, how)
    BY <1>2
  <2> DEFINE w == [op |-> "release", lead |-> l, how |-> how, worked |-> lead[l].worked]
  <2>2. w \in ReleaseReq /\ w.op = "release"
    BY <1>0 DEF ReleaseReq, LeadRec
  <2>3. Start(r, w.op, w) /\ UNCHANGED <<deskVars, mix>>
    BY <2>1 DEF Release
  <2> HIDE DEF w
  <2>4. w \in DeskReq
    BY <2>2 DEF DeskReq
  <2>5. Begun(r, w)
    BY <2>3, <2>4, BegunBy DEF deskVars
  <2>6. QED
    BY <2>2, <2>3, <2>4, <2>5 DEF deskVars, Loaded, Calling
<1>3. QED
  BY <1>1, <1>2

LEMMA ApplyingOwner ==
    ASSUME NEW op, NEW c, NEW calls, NEW d, NEW named, NEW at, NEW w, w = Applying(op, c, calls, d, named, at)
    PROVE  lead[w.lead].owner \in {Nobody, w.owner} /\ w.lead = calls[c].lead
BY DEF Applying

LEMMA CallsLoad ==
    ASSUME TypeInv, NEW r \in Request,
           \/ \E a \in Agent, l \in Lead, c \in Call :
                 Click(r, a, c, l) \/ \E o \in Outcome, at \in Later \cup {0} : LogCall(r, a, c, l, o, at)
           \/ \E c \in Call, o \in Outcome, at \in Later \cup {0} : SetOutcome(r, c, o, at)
    PROVE  \E w \in DeskReq : Begun(r, w) /\ Loaded(w)
<1>0. /\ lead \in [Lead -> LeadRec] /\ call \in [Call -> CallRec] /\ clock \in Nat \ {0} /\ req \in [Request -> AnyReq]
  BY DeskVariables
<1>1. CASE \E a \in Agent, l \in Lead, c \in Call : Click(r, a, c, l)
  <2>1. PICK a \in Agent, l \in Lead, c \in Call : Click(r, a, c, l)
    BY <1>1
  <2> DEFINE w == [op |-> "click", lead |-> l, call |-> c, st |-> lead[l].st, worked |-> lead[l].worked]
  <2>2. w \in ClickReq /\ w.op = "click" /\ w.lead = l /\ w.call = c
    BY <1>0 DEF ClickReq, LeadRec
  <2>3. Start(r, w.op, w) /\ UNCHANGED <<lead, followup, queue, clock, crashed, mix>>
    BY <2>1 DEF Click
  <2>4. ClickLoads(w)
    BY <2>1 DEF ClickLoads, Click
  <2> HIDE DEF w
  <2>5. w \in DeskReq
    BY <2>2 DEF DeskReq
  <2>6. Begun(r, w)
    BY <2>3, <2>5, BegunBy
  <2>7. QED
    BY <2>2, <2>3, <2>4, <2>5, <2>6 DEF Loaded, Calling
<1>2. CASE \E a \in Agent, l \in Lead, c \in Call, o \in Outcome, at \in Later \cup {0} : LogCall(r, a, c, l, o, at)
  <2>1. PICK a \in Agent, l \in Lead, c \in Call, o \in Outcome, at \in Later \cup {0} : LogCall(r, a, c, l, o, at)
    BY <1>2
  <2>2. PICK w : w = Applying("call", c, call', Disposition[o], TRUE, at)
    OBVIOUS
  <2>3. Start(r, "call", w) /\ UNCHANGED <<lead, followup, queue, clock, crashed, mix>> /\ call[c] = NoCall
        /\ call' = [call EXCEPT ![c] = [lead |-> l, agent |-> a, on |-> Disposition[o].on, at |-> clock]]
    BY <2>1, <2>2 DEF LogCall
  <2>4. Disposition[o] \in DispositionRec /\ Disposition[o].on \in BOOLEAN /\ at \in Nat
    <3>1. Disposition[o] \in DispositionRec
      BY DeskConstants
    <3>2. at \in Nat
      BY DeskConstants
    <3>3. QED
      BY <3>1, <3>2, DispositionType
  <2>5. call' \in [Call -> CallRec] /\ call'[c].lead = l
    BY <1>0, <2>3, <2>4 DEF CallRec
  <2>6. /\ w \in OutcomeReq /\ w.op = "call" /\ w.lead = l
        /\ w.copy = Stats(lead[w.lead], call', w.lead)
        /\ w.st = NextStatus(lead[w.lead].st, w.d.to, w.on)
        /\ lead[w.lead].owner \in {Nobody, w.owner}
    <3>1. PICK b \in BOOLEAN : b = TRUE
      OBVIOUS
    <3>2. PICK calls : calls = call'
      OBVIOUS
    <3>3. PICK d \in DispositionRec : d = Disposition[o]
      BY <2>4
    <3>4. w = Applying("call", c, calls, d, b, at) /\ calls \in [Call -> CallRec] /\ calls[c].lead \in Lead
      BY <2>2, <2>5, <3>1, <3>2, <3>3
    <3>5. lead[w.lead].owner \in {Nobody, w.owner}
      BY <3>4, ApplyingOwner
    <3>6. /\ w \in OutcomeReq /\ w.op = "call" /\ w.lead = calls[c].lead /\ w.on = calls[c].on
          /\ w.copy = Stats(lead[w.lead], calls, w.lead)
          /\ w.st = NextStatus(lead[w.lead].st, d.to, calls[c].on) /\ w.d = d
      BY <2>4, <3>4, ApplyingType
    <3>7. QED
      BY <2>5, <3>2, <3>5, <3>6
  <2>7. w \in DeskReq
    BY <2>6 DEF DeskReq
  <2>8. Begun(r, w)
    BY <2>3, <2>6, <2>7, BegunBy
  <2>9. \A d \in Call \ {c} : call'[d] = call[d]
    BY <1>0, <2>3
  <2>10. OutcomeLoads(w)
    BY <2>3, <2>5, <2>6, <2>9 DEF OutcomeLoads
  <2>11. QED
    BY <2>3, <2>6, <2>7, <2>8, <2>10 DEF Loaded, Calling
<1>3. CASE \E c \in Call, o \in Outcome, at \in Later \cup {0} : SetOutcome(r, c, o, at)
  <2>1. PICK c \in Call, o \in Outcome, at \in Later \cup {0} : SetOutcome(r, c, o, at)
    BY <1>3
  <2>2. PICK w : w = Applying("outcome", c, call', Disposition[o], TRUE, at)
    OBVIOUS
  <2>3. Start(r, "outcome", w) /\ UNCHANGED <<lead, followup, queue, clock, crashed, mix>> /\ call[c] # NoCall
        /\ call' = [call EXCEPT ![c].on = Disposition[o].on]
    BY <2>1, <2>2 DEF SetOutcome
  <2>4. Disposition[o] \in DispositionRec /\ Disposition[o].on \in BOOLEAN /\ at \in Nat
    <3>1. Disposition[o] \in DispositionRec
      BY DeskConstants
    <3>2. at \in Nat
      BY DeskConstants
    <3>3. QED
      BY <3>1, <3>2, DispositionType
  <2>5. call[c] \in [lead : Lead, agent : Agent, on : BOOLEAN, at : Nat \ {0}]
    BY <1>0, <2>3 DEF CallRec
  <2>6. call' \in [Call -> CallRec] /\ \A d \in Call : call'[d].lead = call[d].lead
    BY <1>0, <2>3, <2>4, <2>5 DEF CallRec
  <2>7. /\ w \in OutcomeReq /\ w.op = "outcome" /\ w.lead = call'[c].lead
        /\ w.copy = Stats(lead[w.lead], call', w.lead)
        /\ w.st = NextStatus(lead[w.lead].st, w.d.to, w.on)
        /\ lead[w.lead].owner \in {Nobody, w.owner}
    <3>1. PICK b \in BOOLEAN : b = TRUE
      OBVIOUS
    <3>2. PICK calls : calls = call'
      OBVIOUS
    <3>3. PICK d \in DispositionRec : d = Disposition[o]
      BY <2>4
    <3>4. w = Applying("outcome", c, calls, d, b, at) /\ calls \in [Call -> CallRec] /\ calls[c].lead \in Lead
      BY <2>2, <2>5, <2>6, <3>1, <3>2, <3>3
    <3>5. lead[w.lead].owner \in {Nobody, w.owner}
      BY <3>4, ApplyingOwner
    <3>6. /\ w \in OutcomeReq /\ w.op = "outcome" /\ w.lead = calls[c].lead /\ w.on = calls[c].on
          /\ w.copy = Stats(lead[w.lead], calls, w.lead)
          /\ w.st = NextStatus(lead[w.lead].st, d.to, calls[c].on) /\ w.d = d
      BY <2>4, <3>4, ApplyingType
    <3>7. QED
      BY <3>2, <3>5, <3>6
  <2>8. w \in DeskReq
    BY <2>7 DEF DeskReq
  <2>9. Begun(r, w)
    BY <2>3, <2>7, <2>8, BegunBy
  <2>10. \A d \in Call \ {c} : call'[d] = call[d]
    BY <1>0, <2>3
  <2>11. OutcomeLoads(w)
    BY <2>3, <2>6, <2>7, <2>10 DEF OutcomeLoads
  <2>12. QED
    BY <2>3, <2>7, <2>8, <2>9, <2>11 DEF Loaded, Calling
<1>4. QED
  BY <1>1, <1>2, <1>3

LEMMA OwnersLoad ==
    ASSUME TypeInv, NEW r \in Request,
           \/ \E a \in Agent, l \in Lead :
                 \/ \E to \in ByHand : SetStatus(r, a, l, to) \/ Edit(r, a, l, lead[l].owner, to)
                 \/ \E owner \in Owner : Edit(r, a, l, owner, lead[l].st)
           \/ \E ls \in (SUBSET Lead) \ {{}}, a \in Agent : Assign(r, ls, a)
           \/ \E unassigned \in BOOLEAN, method \in Methods, cap \in Caps : Distribute(r, unassigned, method, cap)
    PROVE  \E w \in DeskReq : Begun(r, w) /\ Loaded(w)
<1>0. /\ lead \in [Lead -> LeadRec] /\ req \in [Request -> AnyReq]
  BY DeskVariables
<1>1. CASE \E a \in Agent, l \in Lead, to \in ByHand : SetStatus(r, a, l, to)
  <2>1. PICK a \in Agent, l \in Lead, to \in ByHand : SetStatus(r, a, l, to)
    BY <1>1
  <2> DEFINE w == [op |-> "status", lead |-> l, to |-> to, worked |-> lead[l].worked]
  <2>2. w \in StatusReq /\ w.op = "status"
    BY <1>0, DeskConstants DEF StatusReq, LeadRec
  <2>3. Start(r, w.op, w) /\ UNCHANGED <<deskVars, mix>>
    BY <2>1 DEF SetStatus
  <2> HIDE DEF w
  <2>4. w \in DeskReq
    BY <2>2 DEF DeskReq
  <2>5. Begun(r, w)
    BY <2>3, <2>4, BegunBy DEF deskVars
  <2>6. QED
    BY <2>2, <2>3, <2>4, <2>5 DEF deskVars, Loaded, Calling
<1>2. CASE \E a \in Agent, l \in Lead, owner \in Owner, to \in Status : Edit(r, a, l, owner, to)
  <2>1. PICK a \in Agent, l \in Lead, owner \in Owner, to \in Status : Edit(r, a, l, owner, to)
    BY <1>2
  <2> DEFINE w == [op |-> "edit", lead |-> l, was |-> lead[l].owner, row |-> [lead[l] EXCEPT !.owner = owner, !.st = to]]
  <2>2. w \in EditReq /\ w.op = "edit" /\ EditLoads(w)
    BY <1>0 DEF EditReq, LeadRec, EditLoads
  <2>3. Start(r, w.op, w) /\ UNCHANGED <<deskVars, mix>>
    BY <2>1 DEF Edit
  <2> HIDE DEF w
  <2>4. w \in DeskReq
    BY <2>2 DEF DeskReq
  <2>5. Begun(r, w)
    BY <2>3, <2>4, BegunBy DEF deskVars
  <2>6. QED
    BY <2>2, <2>3, <2>4, <2>5 DEF deskVars, Loaded, Calling
<1>3. CASE \E ls \in (SUBSET Lead) \ {{}}, a \in Agent : Assign(r, ls, a)
  <2>1. PICK ls \in (SUBSET Lead) \ {{}}, a \in Agent : Assign(r, ls, a)
    BY <1>3
  <2> DEFINE w == [op |-> "assign", leads |-> ls]
  <2>2. w \in FollowReq /\ w.op = "assign"
    BY DEF FollowReq
  <2>3. Start(r, w.op, w) /\ UNCHANGED <<call, followup, queue, clock, crashed, mix>>
    BY <2>1 DEF Assign
  <2>4. AssignLoads(w)
    BY <2>1 DEF Assign, AssignLoads
  <2> HIDE DEF w
  <2>5. w \in DeskReq
    BY <2>2 DEF DeskReq
  <2>6. Begun(r, w)
    BY <2>3, <2>5, BegunBy
  <2>7. QED
    BY <2>2, <2>3, <2>4, <2>5, <2>6 DEF Loaded, Calling
<1>4. CASE \E unassigned \in BOOLEAN, method \in Methods, cap \in Caps : Distribute(r, unassigned, method, cap)
  <2>1. PICK unassigned \in BOOLEAN, method \in Methods, cap \in Caps : Distribute(r, unassigned, method, cap)
    BY <1>4
  <2>2. PICK w \in DistributeReq :
              /\ Start(r, w.op, w) /\ w.op = "distribute"
              /\ WithinCap(w)
    BY <2>1, DistributeFields
  <2>3. UNCHANGED <<deskVars, mix>>
    BY <2>1 DEF Distribute
  <2>4. w \in DeskReq
    BY <2>2 DEF DeskReq
  <2>5. Begun(r, w)
    BY <2>2, <2>3, <2>4, BegunBy DEF deskVars
  <2>6. QED
    BY <2>2, <2>3, <2>4, <2>5 DEF deskVars, Loaded, Calling
<1>5. \A l \in Lead : lead[l].owner \in Owner /\ lead[l].st \in Status
  BY <1>0 DEF LeadRec
<1>6. ByHand \subseteq Status
  BY DeskConstants
<1>7. QED
  BY <1>1, <1>2, <1>3, <1>4, <1>5, <1>6

LEMMA DeskLoads ==
    ASSUME TypeInv, NEW r \in Request, DeskLoad(r)
    PROVE  \E w \in DeskReq : Begun(r, w) /\ Loaded(w)
<1>1. CASE \/ \E a \in Agent, l \in Lead, at \in Later : Schedule(r, a, l, at)
           \/ \E f \in FollowUp : Complete(r, f)
  BY <1>1, FollowUpsLoad
<1>2. CASE \E a \in Agent, l \in Lead :
              Pull(r, a, l) \/ \E how \in {"dialed", "return", "skip"} : Release(r, a, l, how)
  BY <1>2, QueueLoads
<1>3. CASE \/ \E a \in Agent, l \in Lead, c \in Call :
                 Click(r, a, c, l) \/ \E o \in Outcome, at \in Later \cup {0} : LogCall(r, a, c, l, o, at)
           \/ \E c \in Call, o \in Outcome, at \in Later \cup {0} : SetOutcome(r, c, o, at)
  BY <1>3, CallsLoad
<1>4. CASE \/ \E a \in Agent, l \in Lead :
                 \/ \E to \in ByHand : SetStatus(r, a, l, to) \/ Edit(r, a, l, lead[l].owner, to)
                 \/ \E owner \in Owner : Edit(r, a, l, owner, lead[l].st)
           \/ \E ls \in (SUBSET Lead) \ {{}}, a \in Agent : Assign(r, ls, a)
           \/ \E unassigned \in BOOLEAN, method \in Methods, cap \in Caps : Distribute(r, unassigned, method, cap)
  BY <1>4, OwnersLoad
<1>5. QED
  BY <1>1, <1>2, <1>3, <1>4 DEF DeskLoad

-----------------------------------------------------------------------------
(* What a write of the desk leaves alone.                                   *)

\* The lead is as held as it was, or out of the queue.
HeldNoMore(l) ==
    \/ ~lead'[l].queued \/ lead'[l].owner = Nobody
    \/ /\ lead'[l].owner = lead[l].owner /\ lead'[l].queued = lead[l].queued
       /\ lead'[l].by = lead[l].by /\ lead'[l].until = lead[l].until
SameStatus(l) == lead'[l].st = lead[l].st
SameOwner(l) == lead'[l].owner = lead[l].owner
SameFigures(l) ==
    /\ lead'[l].dials = lead[l].dials /\ lead'[l].answered = lead[l].answered
    /\ lead[l].worked => lead'[l].worked
SameNext(l) == lead'[l].next = lead[l].next
Nexting == {"schedule", "supersede", "complete", "book", "edit"}
Footprint(op) ==
    /\ op \notin {"pull", "edit", "distribute"} => \A l \in Lead : HeldNoMore(l)
    /\ op \notin Calling \cup {"status", "edit"} => \A l \in Lead : SameStatus(l)
    /\ op \notin {"edit", "distribute"} => \A l \in Lead : SameOwner(l)
    /\ op \notin Calling \cup {"edit"} => \A l \in Lead : SameFigures(l)
    /\ op \notin Nexting => \A l \in Lead : SameNext(l)

\* A write of one lead leaves the others alone.
LEMMA OneLead ==
    ASSUME lead \in [Lead -> LeadRec], NEW l \in Lead, NEW row, lead' = [lead EXCEPT ![l] = row],
           NEW op, row.queued => (row.by = lead[l].by /\ row.until = lead[l].until /\ row.queued = lead[l].queued)
                                 \/ op \in {"pull", "edit", "distribute"},
           row.st = lead[l].st \/ op \in Calling \cup {"status", "edit"},
           row.owner = lead[l].owner \/ op \in {"edit", "distribute"},
           \/ row.dials = lead[l].dials /\ row.answered = lead[l].answered /\ (lead[l].worked => row.worked)
           \/ op \in Calling \cup {"edit"},
           row.next = lead[l].next \/ op \in Nexting
    PROVE  Footprint(op)
BY DEF Footprint, HeldNoMore, SameStatus, SameOwner, SameFigures, SameNext

LEMMA SavedHold ==
    ASSUME NEW row \in LeadRec, NEW w \in OutcomeReq, NEW saved, saved = Saved(row, w), saved.queued
    PROVE  saved.by = row.by /\ saved.until = row.until /\ saved.queued = row.queued
<1>1. PICK base : base = IF w.op = "call" THEN NoLock(row) ELSE row
  OBVIOUS
<1>2. base \in LeadRec
  BY <1>1, NoLockType
<1>3. saved.by = base.by /\ saved.until = base.until /\ saved.queued = base.queued
  BY <1>1, <1>2 DEF Saved, LeadRec
<1>4. w.op # "call"
  BY <1>1, <1>3 DEF NoLock, LeadRec
<1>5. QED
  BY <1>1, <1>3, <1>4

LEMMA FootprintOfWrites ==
    ASSUME TypeInv, NEW r \in Request, DeskWrite(r)
    PROVE  Footprint(req[r].op) /\ clock' = clock
<1>0. /\ lead \in [Lead -> LeadRec] /\ clock \in Nat \ {0} /\ req \in [Request -> AnyReq]
  BY DeskVariables
<1>1. req[r].op \in DeskKinds => req[r] \in DeskReq
  BY DeskFields
<1>2. CASE UNCHANGED <<lead, clock>>
  BY <1>2 DEF Footprint, HeldNoMore, SameStatus, SameOwner, SameFigures, SameNext
<1>3. ASSUME NEW l \in Lead, NEW n, lead' = [lead EXCEPT ![l].next = n], req[r].op \in Nexting PROVE Footprint(req[r].op)
  <2>1. PICK row : row = [lead[l] EXCEPT !.next = n]
    OBVIOUS
  <2>2. lead' = [lead EXCEPT ![l] = row] /\ row.queued = lead[l].queued /\ row.by = lead[l].by
        /\ row.until = lead[l].until /\ row.st = lead[l].st /\ row.owner = lead[l].owner
        /\ row.dials = lead[l].dials /\ row.answered = lead[l].answered /\ (lead[l].worked => row.worked)
    BY <1>0, <1>3, <2>1 DEF LeadRec
  <2>3. QED
    BY <1>0, <1>3, <2>2, OneLead
<1>4. CASE ScheduleWrite(r)
  <2>1. req[r].op = "schedule" /\ req[r].lead \in Lead
    BY <1>1, <1>4, DeskKind DEF ScheduleWrite, ScheduleReq, DeskKinds, DeskOps
  <2>2. PICK n : n = Earliest(followup', req[r].lead)
    OBVIOUS
  <2>3. lead' = [lead EXCEPT ![req[r].lead].next = n] /\ clock' = clock
    BY <1>4, <2>2 DEF ScheduleWrite
  <2>4. QED
    BY <1>3, <2>1, <2>3 DEF Nexting
<1>5. CASE Supersede(r)
  <2>1. req[r].op = "supersede" /\ req[r].lead \in Lead
    BY <1>1, <1>5, DeskKind DEF Supersede, ScheduleReq, DeskKinds, DeskOps
  <2>2. PICK n : n = IF AutoOf(followup, req[r].lead) = {} THEN lead[req[r].lead].next
                     ELSE Refreshed(followup', req[r].lead, req[r].seen, lead[req[r].lead].next)
    OBVIOUS
  <2>3. lead' = [lead EXCEPT ![req[r].lead].next = n] /\ clock' = clock
    BY <1>0, <1>5, <2>1, <2>2 DEF Supersede
  <2>4. QED
    BY <1>3, <2>1, <2>3 DEF Nexting
<1>6. CASE CompleteWrite(r)
  <2>1. req[r].op = "complete" /\ req[r].lead \in Lead
    BY <1>1, <1>6, DeskKind DEF CompleteWrite, CompleteReq, DeskKinds, DeskOps
  <2>2. \E rows : lead' = [lead EXCEPT ![req[r].lead].next = Refreshed(rows, req[r].lead, req[r].seen, @)]
    BY <1>6 DEF CompleteWrite
  <2>3. PICK rows : lead' = [lead EXCEPT ![req[r].lead].next = Refreshed(rows, req[r].lead, req[r].seen, @)]
    BY <2>2
  <2>4. PICK n : n = Refreshed(rows, req[r].lead, req[r].seen, lead[req[r].lead].next)
    OBVIOUS
  <2>5. lead' = [lead EXCEPT ![req[r].lead].next = n]
    BY <1>0, <2>1, <2>3, <2>4
  <2>6. QED
    BY <1>3, <1>6, <2>1, <2>5 DEF CompleteWrite, Nexting
<1>7. CASE OutcomeBook(r)
  <2>1. req[r].op = "book" /\ req[r].lead \in Lead
    BY <1>1, <1>7, DeskKind DEF OutcomeBook, OutcomeReq, DeskKinds, DeskOps
  <2>2. \E rows : lead' = [lead EXCEPT ![req[r].lead].next = Refreshed(rows, req[r].lead, req[r].copy.next, @)]
    BY <1>7 DEF OutcomeBook
  <2>3. PICK rows : lead' = [lead EXCEPT ![req[r].lead].next = Refreshed(rows, req[r].lead, req[r].copy.next, @)]
    BY <2>2
  <2>4. PICK n : n = Refreshed(rows, req[r].lead, req[r].copy.next, lead[req[r].lead].next)
    OBVIOUS
  <2>5. lead' = [lead EXCEPT ![req[r].lead].next = n]
    BY <1>0, <2>1, <2>3, <2>4
  <2>6. QED
    BY <1>3, <1>7, <2>1, <2>5 DEF OutcomeBook, Nexting
<1>8. CASE PullCommit(r)
  <2>1. req[r].op = "pull" /\ req[r].lead \in Lead
    BY <1>1, <1>8, DeskKind DEF PullCommit, PullReq, DeskKinds, DeskOps
  <2>2. lead' = [lead EXCEPT ![req[r].lead] = [@ EXCEPT !.by = req[r].agent, !.until = req[r].until, !.queued = TRUE]]
        /\ clock' = clock
    BY <1>8 DEF PullCommit
  <2>3. PICK row : row = [lead[req[r].lead] EXCEPT !.by = req[r].agent, !.until = req[r].until, !.queued = TRUE]
    OBVIOUS
  <2>4. lead' = [lead EXCEPT ![req[r].lead] = row] /\ row.st = lead[req[r].lead].st
        /\ row.owner = lead[req[r].lead].owner /\ row.next = lead[req[r].lead].next
        /\ row.dials = lead[req[r].lead].dials /\ row.answered = lead[req[r].lead].answered
        /\ (lead[req[r].lead].worked => row.worked)
    BY <1>0, <2>1, <2>2, <2>3 DEF LeadRec
  <2>5. QED
    BY <1>0, <2>1, <2>2, <2>4, OneLead
<1>9. CASE ReleaseDialed(r)
  <2>1. req[r].op = "release" /\ req[r].lead \in Lead
    BY <1>1, <1>9, DeskKind DEF ReleaseDialed, ReleaseReq, DeskKinds, DeskOps
  <2>2. lead' = [lead EXCEPT ![req[r].lead].worked = @ \/ ~req[r].worked, ![req[r].lead].dialed = clock] /\ clock' = clock
    BY <1>9 DEF ReleaseDialed
  <2>3. PICK b \in BOOLEAN : b = (lead[req[r].lead].worked \/ ~req[r].worked)
    OBVIOUS
  <2>4. PICK row : row = [lead[req[r].lead] EXCEPT !.worked = b, !.dialed = clock]
    OBVIOUS
  <2>5. lead' = [lead EXCEPT ![req[r].lead] = row]
    BY <1>0, <2>1, <2>2, <2>3, <2>4
  <2>6. row.st = lead[req[r].lead].st /\ row.owner = lead[req[r].lead].owner /\ row.queued = lead[req[r].lead].queued
        /\ row.by = lead[req[r].lead].by /\ row.until = lead[req[r].lead].until /\ row.next = lead[req[r].lead].next
        /\ row.dials = lead[req[r].lead].dials /\ row.answered = lead[req[r].lead].answered
        /\ (lead[req[r].lead].worked => row.worked)
    BY <1>0, <2>1, <2>3, <2>4 DEF LeadRec
  <2>7. QED
    BY <1>0, <2>1, <2>2, <2>5, <2>6, OneLead
<1>10. CASE ReleaseWrite(r)
  <2>1. req[r].op = "release" /\ req[r].lead \in Lead
    BY <1>1, <1>10, DeskKind DEF ReleaseWrite, ReleaseReq, DeskKinds, DeskOps
  <2>2. PICK row : row = IF req[r].how = "return" THEN NoLock(lead[req[r].lead])
                         ELSE [lead[req[r].lead] EXCEPT !.queued = FALSE, !.until = clock + Ttl]
    OBVIOUS
  <2>3. lead' = [lead EXCEPT ![req[r].lead] = row] /\ clock' = clock
    BY <1>0, <1>10, <2>1, <2>2 DEF ReleaseWrite
  <2>4. ~row.queued /\ row.st = lead[req[r].lead].st /\ row.owner = lead[req[r].lead].owner
        /\ row.dials = lead[req[r].lead].dials /\ row.answered = lead[req[r].lead].answered
        /\ row.worked = lead[req[r].lead].worked /\ row.next = lead[req[r].lead].next
    BY <1>0, <2>1, <2>2 DEF LeadRec, NoLock
  <2>5. QED
    BY <1>0, <2>3, <2>1, <2>4, OneLead
<1>11. CASE ClickFails(r)
  <2>1. req[r].op = "click" /\ req[r].lead \in Lead
    BY <1>1, <1>11, DeskKind DEF ClickFails, ClickReq, DeskKinds, DeskOps
  <2>2. lead' = [lead EXCEPT ![req[r].lead].st = req[r].st, ![req[r].lead].worked = req[r].worked] /\ clock' = clock
    BY <1>11 DEF ClickFails
  <2>3. PICK row : row = [lead[req[r].lead] EXCEPT !.st = req[r].st, !.worked = req[r].worked]
    OBVIOUS
  <2>4. lead' = [lead EXCEPT ![req[r].lead] = row]
    BY <1>0, <2>1, <2>2, <2>3
  <2>5. row.owner = lead[req[r].lead].owner /\ row.queued = lead[req[r].lead].queued
        /\ row.by = lead[req[r].lead].by /\ row.until = lead[req[r].lead].until /\ row.next = lead[req[r].lead].next
    BY <1>0, <2>1, <2>3 DEF LeadRec
  <2>6. QED
    BY <1>0, <2>1, <2>2, <2>4, <2>5, OneLead DEF Calling
<1>12. CASE OutcomeSave(r)
  <2>1. req[r].op \in {"call", "outcome"} /\ req[r] \in OutcomeReq /\ req[r].lead \in Lead
    BY <1>1, <1>12, DeskKind DEF OutcomeSave, OutcomeReq, DeskKinds, DeskOps
  <2>2. lead' = [lead EXCEPT ![req[r].lead] = Saved(lead[req[r].lead], req[r])] /\ clock' = clock
    BY <1>0, <1>12, <2>1 DEF OutcomeSave
  <2>3. PICK row : row = Saved(lead[req[r].lead], req[r])
    OBVIOUS
  <2>4. row.owner = lead[req[r].lead].owner /\ row.next = lead[req[r].lead].next
    BY <1>0, <2>1, <2>3, SavedType
  <2>5. row.queued => row.by = lead[req[r].lead].by /\ row.until = lead[req[r].lead].until
                      /\ row.queued = lead[req[r].lead].queued
    <3> SUFFICES ASSUME row.queued
                 PROVE  row.by = lead[req[r].lead].by /\ row.until = lead[req[r].lead].until
                        /\ row.queued = lead[req[r].lead].queued
      OBVIOUS
    <3>1. PICK old \in LeadRec : old = lead[req[r].lead]
      BY <1>0, <2>1
    <3>2. PICK w \in OutcomeReq : w = req[r]
      BY <2>1
    <3>3. row = Saved(old, w)
      BY <2>3, <3>1, <3>2
    <3>4. row.by = old.by /\ row.until = old.until /\ row.queued = old.queued
      BY <3>3, SavedHold
    <3>5. QED
      BY <3>1, <3>4
  <2>6. QED
    BY <1>0, <2>1, <2>2, <2>3, <2>4, <2>5, OneLead DEF Calling
<1>13. CASE StatusWrite(r)
  <2>1. req[r].op = "status" /\ req[r].lead \in Lead
    BY <1>1, <1>13, DeskKind DEF StatusWrite, StatusReq, DeskKinds, DeskOps
  <2>2. lead' = [lead EXCEPT ![req[r].lead].st = req[r].to,
                             ![req[r].lead].worked = @ \/ (req[r].to # "new" /\ ~req[r].worked)] /\ clock' = clock
    BY <1>13 DEF StatusWrite
  <2>3. PICK b \in BOOLEAN : b = (lead[req[r].lead].worked \/ (req[r].to # "new" /\ ~req[r].worked))
    OBVIOUS
  <2>4. PICK row : row = [lead[req[r].lead] EXCEPT !.st = req[r].to, !.worked = b]
    OBVIOUS
  <2>5. lead' = [lead EXCEPT ![req[r].lead] = row]
    BY <1>0, <2>1, <2>2, <2>3, <2>4
  <2>6. row.owner = lead[req[r].lead].owner /\ row.queued = lead[req[r].lead].queued
        /\ row.by = lead[req[r].lead].by /\ row.until = lead[req[r].lead].until /\ row.next = lead[req[r].lead].next
        /\ row.dials = lead[req[r].lead].dials /\ row.answered = lead[req[r].lead].answered
        /\ (lead[req[r].lead].worked => row.worked)
    BY <1>0, <2>1, <2>3, <2>4 DEF LeadRec
  <2>7. QED
    BY <1>0, <2>1, <2>2, <2>5, <2>6, OneLead
<1>14. CASE EditWrite(r)
  <2>1. req[r].op = "edit" /\ clock' = clock
    BY <1>14 DEF EditWrite
  <2>2. QED
    BY <2>1 DEF Footprint, Nexting
<1>15. CASE ApplyPlan(r)
  <2>1. req[r].op = "distribute" /\ clock' = clock
    BY <1>15 DEF ApplyPlan
  <2>2. PICK owner : owner = [l \in Lead |-> IF PlannedOwner(req[r], l) # Nobody THEN PlannedOwner(req[r], l)
                                             ELSE lead[l].owner]
    OBVIOUS
  <2>3. lead' = [l \in Lead |-> [lead[l] EXCEPT !.owner = owner[l]]]
    BY <1>15, <2>2 DEF ApplyPlan
  <2>4. \A l \in Lead : SameStatus(l) /\ SameFigures(l) /\ SameNext(l)
    BY <1>0, <2>3 DEF LeadRec, SameStatus, SameFigures, SameNext
  <2>5. QED
    BY <2>1, <2>4 DEF Footprint
<1>16. QED
  <2>1. CASE ClickDials(r) \/ OutcomeReplace(r) \/ FollowOwner(r) \/ Crash(r)
    BY <1>2, <2>1 DEF ClickDials, OutcomeReplace, FollowOwner, Crash
  <2>2. QED
    BY <1>4, <1>5, <1>6, <1>7, <1>8, <1>9, <1>10, <1>11, <1>12, <1>13, <1>14, <1>15, <2>1 DEF DeskWrite

-----------------------------------------------------------------------------
(* Which requests have met.                                                 *)

\* A request that goes on to another step has met what it met before.
Continues(r, w) ==
    \/ w.op = "idle"
    \/ req[r].op \in DeskKinds /\ Origin(req[r].op) \subseteq Origin(w.op)
    \/ Meets(r, w.op)

LEMMA DeskWrites ==
    ASSUME TypeInv, NEW r \in Request, DeskWrite(r)
    PROVE  \E w \in DeskReq \cup IdleReq :
              /\ Becomes(r, w) /\ Continues(r, w) /\ met \subseteq met' /\ req[r].op # "idle"
              /\ w.op \in {"idle", "supersede", "release", "call", "replace", "book", "follow"}
<1>0. req \in [Request -> AnyReq] /\ call \in [Call -> CallRec]
  BY DeskVariables
<1>1. req[r].op \in DeskKinds => req[r] \in DeskReq
  BY DeskFields
<1>2. Idle \in DeskReq \cup IdleReq /\ Idle.op = "idle"
  BY DEF Idle, IdleReq
<1>3. ASSUME End(r), UNCHANGED <<met, started, mix>>, req[r].op # "idle" PROVE
        \E w \in DeskReq \cup IdleReq :
           /\ Becomes(r, w) /\ Continues(r, w) /\ met \subseteq met' /\ req[r].op # "idle"
           /\ w.op \in {"idle", "supersede", "release", "call", "replace", "book", "follow"}
  <2>1. Becomes(r, Idle)
    BY <1>0, <1>3 DEF End, Becomes
  <2>2. QED
    BY <1>2, <1>3, <2>1 DEF Continues
<1>4. ASSUME NEW w \in DeskReq, req' = [req EXCEPT ![r] = w], met' = met, req[r].op \in DeskKinds,
             w.op \in {"supersede", "release", "replace", "book", "follow"}, Origin(req[r].op) \subseteq Origin(w.op)
      PROVE  \E v \in DeskReq \cup IdleReq :
                /\ Becomes(r, v) /\ Continues(r, v) /\ met \subseteq met' /\ req[r].op # "idle"
                /\ v.op \in {"idle", "supersede", "release", "call", "replace", "book", "follow"}
  <2>1. Becomes(r, w) /\ Continues(r, w) /\ req[r].op # "idle"
    BY <1>0, <1>4 DEF Becomes, Continues, DeskKinds, DeskOps
  <2>2. QED
    BY <1>4, <2>1
<1>5. CASE ScheduleWrite(r)
  <2>1. req[r].op = "schedule" /\ req[r] \in ScheduleReq
    BY <1>1, <1>5, DeskKind DEF ScheduleWrite, DeskKinds, DeskOps
  <2>2. PICK w : w = [req[r] EXCEPT !.op = "supersede"]
    OBVIOUS
  <2>3. w \in ScheduleReq /\ w.op = "supersede" /\ req' = [req EXCEPT ![r] = w] /\ met' = met
    BY <1>0, <1>5, <2>1, <2>2 DEF ScheduleReq, ScheduleWrite
  <2>4. w \in DeskReq /\ Origin(req[r].op) \subseteq Origin(w.op) /\ req[r].op \in DeskKinds
    BY <2>1, <2>3 DEF DeskReq, Origin, DeskKinds, DeskOps
  <2>5. QED
    BY <1>4, <2>3, <2>4
<1>6. CASE ReleaseDialed(r)
  <2>1. req[r].op = "release" /\ req[r] \in ReleaseReq
    BY <1>1, <1>6, DeskKind DEF ReleaseDialed, DeskKinds, DeskOps
  <2>2. PICK w : w = [req[r] EXCEPT !.how = "return"]
    OBVIOUS
  <2>3. w \in ReleaseReq /\ w.op = "release" /\ req' = [req EXCEPT ![r] = w] /\ met' = met
    BY <1>0, <1>6, <2>1, <2>2 DEF ReleaseReq, ReleaseDialed
  <2>4. w \in DeskReq /\ Origin(req[r].op) \subseteq Origin(w.op) /\ req[r].op \in DeskKinds
    BY <2>1, <2>3 DEF DeskReq, DeskKinds, DeskOps
  <2>5. QED
    BY <1>4, <2>3, <2>4
<1>7. CASE OutcomeSave(r) /\ ~End(r)
  <2>1. req[r].op \in {"call", "outcome"} /\ req[r] \in OutcomeReq
    BY <1>1, <1>7, DeskKind DEF OutcomeSave, DeskKinds, DeskOps
  <2>2. PICK w : w = [req[r] EXCEPT !.op = "replace"]
    OBVIOUS
  <2>3. w \in OutcomeReq /\ w.op = "replace" /\ req' = [req EXCEPT ![r] = w] /\ met' = met
    BY <1>0, <1>7, <2>1, <2>2 DEF OutcomeReq, OutcomeSave
  <2>4. w \in DeskReq /\ Origin(req[r].op) \subseteq Origin(w.op) /\ req[r].op \in DeskKinds
    BY <2>1, <2>3 DEF DeskReq, Origin, DeskKinds, DeskOps
  <2>5. QED
    BY <1>4, <2>3, <2>4
<1>8. CASE OutcomeReplace(r)
  <2>1. req[r].op = "replace" /\ req[r] \in OutcomeReq
    BY <1>1, <1>8, DeskKind DEF OutcomeReplace, DeskKinds, DeskOps
  <2>2. PICK w : w = [req[r] EXCEPT !.op = "book"]
    OBVIOUS
  <2>3. w \in OutcomeReq /\ w.op = "book" /\ req' = [req EXCEPT ![r] = w] /\ met' = met
    BY <1>0, <1>8, <2>1, <2>2 DEF OutcomeReq, OutcomeReplace
  <2>4. w \in DeskReq /\ Origin(req[r].op) \subseteq Origin(w.op) /\ req[r].op \in DeskKinds
    BY <2>1, <2>3 DEF DeskReq, Origin, DeskKinds, DeskOps
  <2>5. QED
    BY <1>4, <2>3, <2>4
<1>9. CASE EditWrite(r) /\ ~End(r)
  <2>1. req[r].op = "edit" /\ req[r] \in EditReq
    BY <1>1, <1>9, DeskKind DEF EditWrite, DeskKinds, DeskOps
  <2>2. PICK w : w = [op |-> "follow", leads |-> {req[r].lead}]
    OBVIOUS
  <2>3. w \in FollowReq /\ w.op = "follow" /\ req' = [req EXCEPT ![r] = w] /\ met' = met
    BY <1>9, <2>1, <2>2 DEF EditReq, FollowReq, EditWrite, Follow
  <2>4. w \in DeskReq /\ Origin(req[r].op) \subseteq Origin(w.op) /\ req[r].op \in DeskKinds
    BY <2>1, <2>3 DEF DeskReq, Origin, DeskKinds, DeskOps
  <2>5. QED
    BY <1>4, <2>3, <2>4
<1>10. CASE ClickDials(r)
  <2>1. req[r].op = "click" /\ req[r] \in ClickReq
    BY <1>1, <1>10, DeskKind DEF ClickDials, DeskKinds, DeskOps
  <2>2. PICK w : w = Applying("call", req[r].call, call, NoOutcome, FALSE, 0)
    OBVIOUS
  <2>3. req' = [req EXCEPT ![r] = w] /\ Meets(r, "call")
    BY <1>0, <1>10, <2>2 DEF ClickDials
  <2>4. req[r].call \in Call /\ call[req[r].call].lead \in Lead
    BY <2>1 DEF ClickReq, TypeInv, ClicksHold
  <2>5. w \in OutcomeReq /\ w.op = "call"
    <3>1. PICK b \in BOOLEAN : b = FALSE
      OBVIOUS
    <3>2. PICK d \in DispositionRec : d = NoOutcome
      BY NoOutcomeType
    <3>3. PICK c \in Call : c = req[r].call
      BY <2>4
    <3>4. w = Applying("call", c, call, d, b, 0) /\ call[c].lead \in Lead /\ 0 \in Nat
      BY <2>2, <2>4, <3>1, <3>2, <3>3
    <3>5. QED
      BY <1>0, <3>4, ApplyingType
  <2>6. w \in DeskReq /\ "call" \in Kinds
    BY <2>5 DEF DeskReq, Kinds, DeskKinds, DeskOps
  <2>7. met \subseteq met' /\ Becomes(r, w) /\ Continues(r, w)
    BY <1>0, <2>3, <2>5, <2>6, Meeting DEF TypeInv, Becomes, Continues
  <2>8. QED
    BY <2>1, <2>5, <2>6, <2>7
<1>11. CASE \/ Supersede(r) \/ CompleteWrite(r) \/ PullCommit(r) \/ ReleaseWrite(r) \/ ClickFails(r)
            \/ OutcomeBook(r) \/ StatusWrite(r) \/ FollowOwner(r) \/ ApplyPlan(r) \/ Crash(r)
            \/ (OutcomeSave(r) /\ End(r)) \/ (EditWrite(r) /\ End(r))
  <2>1. End(r) /\ UNCHANGED <<met, started, mix>>
    BY <1>11 DEF Supersede, CompleteWrite, PullCommit, ReleaseWrite, ClickFails, OutcomeBook, StatusWrite, FollowOwner,
                 ApplyPlan, Crash, OutcomeSave, EditWrite
  <2>2. req[r].op # "idle"
    BY <1>11 DEF Supersede, CompleteWrite, PullCommit, ReleaseWrite, ClickFails, OutcomeBook, StatusWrite, FollowOwner,
                 ApplyPlan, Crash, OutcomeSave, EditWrite, Free
  <2>3. QED
    BY <1>3, <2>1, <2>2
<1>12. QED
  BY <1>5, <1>6, <1>7, <1>8, <1>9, <1>10, <1>11 DEF DeskWrite

\* What happens in one statement.
AtOnce ==
    \/ \E a \in Agent : Unassign(a)
    \/ \E uncalled \in BOOLEAN : TakeBack(uncalled)
    \/ SwitchQueue \/ Tick

LEMMA AtOnceFootprint ==
    ASSUME TypeInv, AtOnce
    PROVE  /\ UNCHANGED <<call, followup, req, crashed>> /\ met \subseteq met' /\ clock' \in Nat /\ clock <= clock'
           /\ \A l \in Lead : HeldNoMore(l) /\ SameStatus(l) /\ SameFigures(l) /\ SameNext(l) /\ (SameOwner(l) \/ lead'[l].owner = Nobody)
<1>0. lead \in [Lead -> LeadRec] /\ clock \in Nat \ {0}
  BY DeskVariables
<1> USE DEF HeldNoMore, SameStatus, SameOwner, SameFigures, SameNext
<1>1. CASE \E a \in Agent : Unassign(a)
  <2>1. PICK a \in Agent : Unassign(a)
    BY <1>1
  <2>2. lead' = [l \in Lead |-> IF lead[l].owner = a THEN [lead[l] EXCEPT !.owner = Nobody] ELSE lead[l]]
        /\ Happens("unassign") /\ UNCHANGED <<call, followup, queue, clock, crashed, req>>
    BY <2>1 DEF Unassign
  <2>3. \A l \in Lead : HeldNoMore(l) /\ SameStatus(l) /\ SameFigures(l) /\ SameNext(l) /\ (SameOwner(l) \/ lead'[l].owner = Nobody)
    BY <1>0, <2>2 DEF LeadRec
  <2>4. QED
    BY <1>0, <2>2, <2>3 DEF Happens
<1>2. CASE \E uncalled \in BOOLEAN : TakeBack(uncalled)
  <2>1. PICK uncalled \in BOOLEAN : TakeBack(uncalled)
    BY <1>2
  <2>2. lead' = [l \in Lead |-> IF lead[l].owner # Nobody /\ (uncalled => lead[l].dials = 0)
                                THEN [NoLock(lead[l]) EXCEPT !.owner = Nobody] ELSE lead[l]]
        /\ Happens("unassign") /\ UNCHANGED <<call, followup, queue, clock, crashed, req>>
    BY <2>1 DEF TakeBack
  <2>3. \A l \in Lead : HeldNoMore(l) /\ SameStatus(l) /\ SameFigures(l) /\ SameNext(l) /\ (SameOwner(l) \/ lead'[l].owner = Nobody)
    BY <1>0, <2>2 DEF LeadRec, NoLock
  <2>4. QED
    BY <1>0, <2>2, <2>3 DEF Happens
<1>3. CASE SwitchQueue
  <2>1. lead' = [l \in Lead |-> IF queue.on /\ lead[l].queued THEN NoLock(lead[l]) ELSE lead[l]]
        /\ UNCHANGED <<call, followup, clock, crashed, req, met>>
    BY <1>3 DEF SwitchQueue
  <2>2. \A l \in Lead : HeldNoMore(l) /\ SameStatus(l) /\ SameOwner(l) /\ SameFigures(l) /\ SameNext(l)
    BY <1>0, <2>1 DEF LeadRec, NoLock
  <2>3. QED
    BY <1>0, <2>1, <2>2
<1>4. CASE Tick
  <2>1. clock' = clock + 1 /\ UNCHANGED <<lead, call, followup, queue, crashed, req, met>>
    BY <1>4 DEF Tick
  <2>2. QED
    BY <1>0, <2>1
<1>5. QED
  BY <1>1, <1>2, <1>3, <1>4 DEF AtOnce

LEMMA DeskCases ==
    ASSUME DeskNext
    PROVE  (\E r \in Request : DeskLoad(r)) \/ (\E r \in Request : DeskWrite(r)) \/ AtOnce
BY DEF DeskNext, AtOnce

\* The kind a request began as.
LEMMA OwnOrigin == ASSUME NEW op \in DeskKinds PROVE op \in Origin(op)
BY DEF Origin, DeskKinds, DeskOps

LEMMA MeetBy ==
    ASSUME TypeInv, MeetInv, NEW r \in Request, NEW w, Becomes(r, w), Continues(r, w), met \subseteq met', w.op \in Kinds
    PROVE  MeetInv'
<1> SUFFICES ASSUME NEW p \in Request, NEW q \in Request, p # q, req'[p].op \in DeskKinds, req'[q].op \in DeskKinds
             PROVE  \E a \in Origin(req'[p].op), b \in Origin(req'[q].op) : {a, b} \in met'
  BY DEF MeetInv
<1>1. "idle" \notin DeskKinds
  BY DEF DeskKinds, DeskOps
<1>2. ASSUME NEW x \in Request \ {r}, req[x].op \in DeskKinds, w.op \in DeskKinds
      PROVE  \E a \in Origin(w.op), b \in Origin(req[x].op) : {a, b} \in met'
  <2>1. CASE req[r].op \in DeskKinds /\ Origin(req[r].op) \subseteq Origin(w.op)
    <3>1. PICK a \in Origin(req[r].op), b \in Origin(req[x].op) : {a, b} \in met
      BY <1>2, <2>1 DEF MeetInv
    <3>2. QED
      BY <2>1, <3>1
  <2>2. CASE Meets(r, w.op)
    <3>1. ~Free(x)
      BY <1>1, <1>2 DEF Free
    <3>2. PICK kind \in Kinds : kind = w.op
      OBVIOUS
    <3>3. {kind, req[x].op} \in met'
      BY <1>2, <2>2, <3>1, <3>2, Meeting DEF TypeInv
    <3>4. kind \in Origin(w.op) /\ req[x].op \in Origin(req[x].op)
      BY <1>2, <3>2, OwnOrigin
    <3>5. QED
      BY <3>3, <3>4
  <2>3. QED
    BY <1>1, <1>2, <2>1, <2>2 DEF Continues
<1>3. CASE p = r
  <2>1. req'[p] = w /\ req'[q] = req[q] /\ q \in Request \ {r}
    BY <1>3 DEF Becomes
  <2>2. QED
    BY <1>2, <2>1
<1>4. CASE q = r
  <2>1. req'[q] = w /\ req'[p] = req[p] /\ p \in Request \ {r}
    BY <1>4 DEF Becomes
  <2>2. PICK a \in Origin(w.op), b \in Origin(req[p].op) : {a, b} \in met'
    BY <1>2, <2>1
  <2>3. {b, a} \in met'
    BY <2>2
  <2>4. QED
    BY <2>1, <2>2, <2>3
<1>5. CASE p # r /\ q # r
  <2>1. req'[q] = req[q] /\ req'[p] = req[p]
    BY <1>5 DEF Becomes
  <2>2. PICK a \in Origin(req[p].op), b \in Origin(req[q].op) : {a, b} \in met
    BY <2>1 DEF MeetInv
  <2>3. QED
    BY <2>1, <2>2
<1>6. QED
  BY <1>3, <1>4, <1>5

LEMMA MeetQuietly ==
    ASSUME MeetInv, met \subseteq met', \A r \in Request : req'[r].op \in DeskKinds => req'[r] = req[r]
    PROVE  MeetInv'
<1> SUFFICES ASSUME NEW p \in Request, NEW q \in Request, p # q, req'[p].op \in DeskKinds, req'[q].op \in DeskKinds
             PROVE  \E a \in Origin(req'[p].op), b \in Origin(req'[q].op) : {a, b} \in met'
  BY DEF MeetInv
<1>1. req'[q] = req[q] /\ req'[p] = req[p]
  OBVIOUS
<1>2. PICK a \in Origin(req[p].op), b \in Origin(req[q].op) : {a, b} \in met
  BY <1>1 DEF MeetInv
<1>3. QED
  BY <1>1, <1>2

\* Two requests of the desk that are in progress together are in met, as what
\* they began as or have become since.
THEOREM DeskMeets == Spec => []MeetInv
<1>1. Init => MeetInv
  <2> SUFFICES ASSUME Init PROVE MeetInv
    OBVIOUS
  <2>1. Idle.op = "idle"
    BY DEF Idle
  <2>2. \A r \in Request : req[r].op = "idle"
    BY <2>1, Begins
  <2>3. QED
    BY <2>2 DEF MeetInv, DeskKinds, DeskOps
<1>2. TypeInv /\ MeetInv /\ [Next]_vars => MeetInv'
  <2> SUFFICES ASSUME TypeInv, MeetInv, [Next]_vars PROVE MeetInv'
    OBVIOUS
  <2>1. CASE ~(DeskNext /\ DeskFrame)
    <3>1. Still
      BY <2>1, OthersStill
    <3>2. QED
      BY <3>1, MeetQuietly DEF Still
  <2>2. CASE DeskNext
    <3>1. CASE \E r \in Request : DeskLoad(r)
      <4>1. PICK r \in Request : DeskLoad(r)
        BY <3>1
      <4>2. PICK w \in DeskReq : Begun(r, w) /\ Loaded(w)
        BY <4>1, DeskLoads
      <4>3. Becomes(r, w) /\ Continues(r, w) /\ met \subseteq met' /\ w.op \in Kinds
        BY <4>2, DeskKind DEF Begun, Continues, Kinds
      <4>4. QED
        BY <4>3, MeetBy
    <3>2. CASE \E r \in Request : DeskWrite(r)
      <4>1. PICK r \in Request : DeskWrite(r)
        BY <3>2
      <4>2. PICK w \in DeskReq \cup IdleReq : Becomes(r, w) /\ Continues(r, w) /\ met \subseteq met'
        BY <4>1, DeskWrites
      <4>3. w.op \in Kinds
        BY <4>2, DeskKind DEF Kinds, IdleReq
      <4>4. QED
        BY <4>2, <4>3, MeetBy
    <3>3. CASE AtOnce
      BY <3>3, AtOnceFootprint, MeetQuietly
    <3>4. QED
      BY <2>2, <3>1, <3>2, <3>3, DeskCases
  <2>3. QED
    BY <2>1, <2>2
<1>3. QED
  BY <1>1, <1>2, TypeInvariant, PTL DEF Spec

-----------------------------------------------------------------------------
(* One lead at a time.                                                      *)

LEMMA FewerHeld ==
    ASSUME TypeInv, DeskTypes', \A l \in Lead : HeldNoMore(l), clock <= clock', NEW a \in Agent
    PROVE  CheckedOut(a)' \subseteq CheckedOut(a)
<1>1. Nobody \notin Agent
  BY DeskConstants
<1>2. \A l \in Lead : lead'[l].until \in Nat /\ lead[l].until \in Nat
  BY DEF TypeInv, DeskTypes, LeadRec
<1>3. clock \in Nat /\ clock' \in Nat
  BY DEF TypeInv, DeskTypes
<1>4. QED
  BY <1>1, <1>2, <1>3 DEF HeldNoMore, CheckedOut, OwnedBy, Held

LEMMA PullFineStays ==
    ASSUME TypeInv, DeskTypes', \A l \in Lead : HeldNoMore(l), clock <= clock', NEW q \in Request, req'[q] = req[q],
           PullFine(q)
    PROVE  PullFine(q)'
<1> SUFFICES ASSUME req[q].op = "pull" PROVE req[q].again \/ CheckedOut(req[q].agent)' = {}
  BY DEF PullFine
<1>1. PICK a \in Agent : a = req[q].agent
  BY DeskFields, DeskKind DEF DeskKinds, DeskOps, PullReq
<1>2. CheckedOut(a)' \subseteq CheckedOut(a)
  BY FewerHeld
<1>3. req[q].again \/ CheckedOut(a) = {}
  BY <1>1 DEF PullFine
<1>4. QED
  BY <1>1, <1>2, <1>3

LEMMA SameClock == ASSUME TypeInv, clock' = clock PROVE clock <= clock'
BY DEF TypeInv, DeskTypes

\* Two requests that were in progress together.
LEMMA Together ==
    ASSUME MeetInv, met \subseteq met', NEW p \in Request, NEW q \in Request, p # q,
           req[p].op \in DeskKinds, req[q].op \in DeskKinds,
           Origin(req[p].op) = {req[p].op}, Origin(req[q].op) = {req[q].op}
    PROVE  {req[p].op, req[q].op} \in met'
<1>1. PICK a \in Origin(req[p].op), b \in Origin(req[q].op) : {a, b} \in met
  BY DEF MeetInv
<1>2. QED
  BY <1>1

\* The kinds that begin as they are.
LEMMA Originals ==
    \A op \in {"schedule", "complete", "pull", "release", "call", "outcome", "click", "status", "edit", "assign",
               "distribute"} : Origin(op) = {op} /\ op \in DeskKinds
BY DEF Origin, DeskKinds, DeskOps

LEMMA PullKept ==
    ASSUME TypeInv, TypeInv', MeetInv, PullInv, DeskNext
    PROVE  PullInv'
<1>1. DeskTypes'
  BY DEF TypeInv
<1>2. CASE \E r \in Request : DeskLoad(r)
  <2>1. PICK r \in Request : DeskLoad(r)
    BY <1>2
  <2>2. PICK w \in DeskReq : Begun(r, w) /\ Loaded(w)
    BY <2>1, DeskLoads
  <2>3. met \subseteq met' /\ Becomes(r, w) /\ clock' = clock /\ clock <= clock'
    BY <2>2, SameClock DEF Begun, Loaded
  <2> SUFFICES ASSUME ~PullMet, \A q \in Request : PullFine(q), NEW q \in Request
               PROVE  PullMet' \/ PullFine(q)'
    BY <2>3, StillMet DEF PullInv, PullMet
  <2>4. CASE q = r
    <3> SUFFICES ASSUME w.op = "pull" PROVE w.again \/ CheckedOut(w.agent)' = {}
      BY <2>3, <2>4 DEF PullFine, Becomes
    <3>1. lead' = lead /\ (w.again \/ CheckedOut(w.agent) = {})
      BY <2>2 DEF Loaded, PullLoads
    <3>2. QED
      BY <2>3, <3>1 DEF CheckedOut, OwnedBy, Held
  <2>5. CASE q # r
    <3>1. req'[q] = req[q]
      BY <2>3, <2>5 DEF Becomes
    <3>2. CASE w.op # "assign"
      <4>1. \A l \in Lead : HeldNoMore(l)
        BY <2>2, <3>2 DEF Loaded, HeldNoMore
      <4>2. QED
        BY <1>1, <2>3, <3>1, <4>1, PullFineStays
    <3>3. CASE w.op = "assign" /\ req[q].op = "pull"
      <4>1. PICK kind \in Kinds : kind = w.op
        BY DeskKind DEF Kinds
      <4>2. ~Free(q)
        BY <3>3 DEF Free
      <4>3. {kind, req[q].op} \in met'
        BY <2>2, <2>5, <4>1, <4>2, Meeting DEF TypeInv, Begun
      <4>4. {"pull", "assign"} \in met'
        BY <3>3, <4>1, <4>3
      <4>5. QED
        BY <4>4, MetHere DEF PullMet
    <3>4. CASE req[q].op # "pull"
      BY <3>1, <3>4 DEF PullFine
    <3>5. QED
      BY <3>2, <3>3, <3>4
  <2>6. QED
    BY <2>4, <2>5
<1>3. CASE \E r \in Request : DeskWrite(r)
  <2>1. PICK r \in Request : DeskWrite(r)
    BY <1>3
  <2>2. PICK w \in DeskReq \cup IdleReq :
             /\ Becomes(r, w) /\ Continues(r, w) /\ met \subseteq met' /\ req[r].op # "idle"
             /\ w.op \in {"idle", "supersede", "release", "call", "replace", "book", "follow"}
    BY <2>1, DeskWrites
  <2>3. Footprint(req[r].op) /\ clock <= clock'
    BY <2>1, FootprintOfWrites, SameClock
  <2> SUFFICES ASSUME ~PullMet, \A q \in Request : PullFine(q), NEW q \in Request
               PROVE  PullMet' \/ PullFine(q)'
    BY <2>2, StillMet DEF PullInv, PullMet
  <2>4. CASE q = r
    BY <2>2, <2>4 DEF PullFine, Becomes
  <2>5. CASE q # r
    <3>1. req'[q] = req[q]
      BY <2>2, <2>5 DEF Becomes
    <3>2. CASE req[r].op \notin {"pull", "edit", "distribute"}
      <4>1. \A l \in Lead : HeldNoMore(l)
        BY <2>3, <3>2 DEF Footprint
      <4>2. QED
        BY <1>1, <2>3, <3>1, <4>1, PullFineStays
    <3>3. CASE req[r].op \in {"pull", "edit", "distribute"} /\ req[q].op = "pull"
      <4>1. {req[q].op, req[r].op} \in met'
        BY <2>2, <2>5, <3>3, Originals, Together
      <4>2. QED
        BY <3>3, <4>1, MetHere DEF PullMet
    <3>4. CASE req[q].op # "pull"
      BY <3>1, <3>4 DEF PullFine
    <3>5. QED
      BY <3>2, <3>3, <3>4
  <2>6. QED
    BY <2>4, <2>5
<1>4. CASE AtOnce
  <2>1. /\ UNCHANGED req /\ met \subseteq met' /\ clock <= clock' /\ \A l \in Lead : HeldNoMore(l)
    BY <1>4, AtOnceFootprint
  <2>2. \A q \in Request : PullFine(q) => PullFine(q)'
    BY <1>1, <2>1, PullFineStays
  <2>3. QED
    BY <2>1, <2>2, StillMet DEF PullInv, PullMet
<1>5. QED
  BY <1>2, <1>3, <1>4, DeskCases

\* An agent who holds a lead pulls that lead again, never a second one, unless
\* a pull met another, an assignment, a distribution or an edit.
THEOREM OneCheckoutHolds == Spec => OneCheckout
<1> DEFINE A == \A r \in Request :
                   req[r].op = "pull" /\ Free(r)' =>
                     \/ crashed' # crashed \/ Met({"pull"}, {"pull", "assign", "distribute", "edit"})
                     \/ req[r].again \/ CheckedOut(req[r].agent) = {}
<1>1. Init => PullInv
  <2> SUFFICES ASSUME Init PROVE PullInv
    OBVIOUS
  <2>1. Idle.op = "idle"
    BY DEF Idle
  <2>2. QED
    BY <2>1, Begins DEF PullInv, PullFine
<1>2. TypeInv /\ TypeInv' /\ MeetInv /\ PullInv /\ [Next]_vars => PullInv'
  <2> SUFFICES ASSUME TypeInv, TypeInv', MeetInv, PullInv, [Next]_vars PROVE PullInv'
    OBVIOUS
  <2>1. CASE ~(DeskNext /\ DeskFrame)
    <3>1. Still
      BY <2>1, OthersStill
    <3>2. \A q \in Request : PullFine(q) => PullFine(q)'
      <4> SUFFICES ASSUME NEW q \in Request, PullFine(q), req'[q].op = "pull" PROVE PullFine(q)'
        BY DEF PullFine
      <4>1. req'[q] = req[q] /\ lead' = lead /\ clock' = clock
        BY <3>1 DEF Still, DeskKinds, DeskOps
      <4>2. QED
        BY <4>1 DEF PullFine, CheckedOut, OwnedBy, Held
    <3>3. QED
      BY <3>1, <3>2, StillMet DEF Still, PullInv, PullMet
  <2>2. QED
    BY <2>1, PullKept
<1>3. PullInv => A
  BY DEF PullInv, PullMet, PullFine
<1>4. OneCheckout <=> [][A]_vars
  BY DEF OneCheckout
<1> HIDE DEF A
<1>5. QED
  BY <1>1, <1>2, <1>3, <1>4, TypeInvariant, DeskMeets, PTL DEF Spec

-----------------------------------------------------------------------------
(* A call moves its lead forward.                                           *)

LEMMA Ranks5 ==
    /\ \A s \in Stage : Rank(s) \in 0..5
    /\ Rank("attempted") = 1 /\ Rank("contacted") = 2
    /\ "attempted" \in Stage /\ "contacted" \in Stage
BY DEF Stage, Rank

\* The stage an open lead reaches.
LEMMA ReachedForward ==
    ASSUME NEW s \in Stage, NEW to, NEW on \in BOOLEAN, NEW u, u = Reached(s, to, on)
    PROVE  /\ u \in Stage /\ Rank(u) >= Rank(s) /\ (u = s \/ Rank(u) > Rank(s))
           /\ Rank(u) >= (IF on THEN 2 ELSE 1)
           /\ to \in Stage => Rank(u) >= Rank(to)
<1>1. PICK best : best = Ahead(s, to)
  OBVIOUS
<1>2. /\ best \in Stage /\ Rank(best) >= Rank(s) /\ (best = s \/ Rank(best) > Rank(s))
      /\ to \in Stage => Rank(best) >= Rank(to)
  BY <1>1, Ranks5 DEF Ahead
<1>3. PICK floor : floor = IF on THEN "contacted" ELSE "attempted"
  OBVIOUS
<1>4. floor \in Stage /\ Rank(floor) = (IF on THEN 2 ELSE 1)
  BY <1>3, Ranks5
<1>5. u = Ahead(best, floor)
  BY <1>1, <1>3 DEF Reached
<1>6. u = best \/ (u = floor /\ Rank(u) > Rank(best))
  BY <1>5 DEF Ahead
<1>7. u \in Stage /\ Rank(u) >= Rank(best) /\ Rank(u) >= Rank(floor) /\ (u = best \/ Rank(u) > Rank(best))
  BY <1>2, <1>4, <1>5, Ranks5 DEF Ahead
<1>8. QED
  BY <1>2, <1>4, <1>7, Ranks5

\* next_status.
Forward(s, t, to, on) ==
    /\ s # t => /\ s \notin Locked
                /\ \/ t \in Closed \/ (s \in Closed /\ on)
                   \/ s \in Stage /\ Rank(t) > Rank(s)
                   \/ s \in Stage /\ Rank(t) = Rank(s) /\ t = to
    /\ {s, t} \cap Final = {} => Rank(t) >= (IF on THEN 2 ELSE 1)

LEMMA NextForward ==
    ASSUME NEW s \in Status, NEW to, NEW on \in BOOLEAN, NEW t, t = NextStatus(s, to, on)
    PROVE  Forward(s, t, to, on)
<1>0. Locked \subseteq Final /\ Closed \subseteq Final
  BY DEF Final
<1>1. CASE s \in Locked
  <2>1. t = s
    BY <1>0, <1>1 DEF NextStatus, Locked, Closed
  <2>2. QED
    BY <1>0, <1>1, <2>1 DEF Forward
<1>2. CASE s \notin Locked /\ to \in Closed
  <2>1. t = to
    BY <1>2 DEF NextStatus
  <2>2. QED
    BY <1>2, <2>1 DEF Forward, Final
<1>3. CASE s \notin Locked /\ s \in Closed /\ to \notin Closed
  <2>1. t = IF on /\ to \in Stage THEN to ELSE s
    BY <1>0, <1>3 DEF NextStatus
  <2>2. QED
    BY <1>3, <2>1 DEF Forward, Final
<1>4. CASE s \notin Final /\ to \notin Closed
  <2>1. s \in Stage
    BY <1>4 DEF Status
  <2>2. PICK u : u = Reached(s, to, on)
    OBVIOUS
  <2>3. /\ u \in Stage /\ Rank(u) >= Rank(s) /\ (u = s \/ Rank(u) > Rank(s))
        /\ Rank(u) >= (IF on THEN 2 ELSE 1)
        /\ to \in Stage => Rank(u) >= Rank(to)
    BY <2>1, <2>2, ReachedForward
  <2>4. t = IF to \in Stage /\ Rank(to) = Rank(s) /\ Rank(to) >= Rank(u) THEN to ELSE u
    BY <1>4, <2>2 DEF NextStatus, Final
  <2>5. s \notin Locked
    BY <1>4 DEF Final
  <2>6. Rank(u) \in 0..5 /\ Rank(s) \in 0..5 /\ (to \in Stage => Rank(to) \in 0..5)
    BY <2>1, <2>3, Ranks5
  <2>7. CASE t = u
    BY <2>1, <2>3, <2>5, <2>6, <2>7 DEF Forward
  <2>8. CASE t = to /\ to \in Stage /\ Rank(to) = Rank(s) /\ Rank(to) >= Rank(u)
    BY <2>1, <2>3, <2>5, <2>6, <2>8 DEF Forward
  <2>9. QED
    BY <2>4, <2>7, <2>8
<1>5. QED
  BY <1>1, <1>2, <1>3, <1>4 DEF Final

LEMMA OutcomeFineStays ==
    ASSUME TypeInv, \A l \in Lead : SameStatus(l), NEW q \in Request, req'[q] = req[q], OutcomeFine(q)
    PROVE  OutcomeFine(q)'
<1> SUFFICES ASSUME req[q].op \in {"call", "outcome"}
             PROVE  /\ req[q].copy.st = lead'[req[q].lead].st
                    /\ req[q].st = NextStatus(req[q].copy.st, req[q].d.to, req[q].on)
  BY DEF OutcomeFine
<1>1. req[q].lead \in Lead
  BY DeskFields, DeskKind DEF DeskKinds, DeskOps, OutcomeReq
<1>2. QED
  BY <1>1 DEF OutcomeFine, SameStatus

\* A request that becomes a call has dialled, and loads the lead then.
LEMMA BecomesCall ==
    ASSUME TypeInv, NEW r \in Request, DeskWrite(r), req'[r].op = "call"
    PROVE  ClickDials(r)
<1>1. req \in [Request -> AnyReq]
  BY DeskVariables
<1>2. Idle.op # "call"
  BY DEF Idle
<1>3. CASE End(r)
  BY <1>1, <1>2, <1>3 DEF End
<1>4. CASE ScheduleWrite(r) \/ ReleaseDialed(r) \/ OutcomeReplace(r) \/ (OutcomeSave(r) /\ ~End(r))
  <2>1. \/ req' = [req EXCEPT ![r].op = "supersede"] \/ req' = [req EXCEPT ![r].op = "book"]
        \/ req' = [req EXCEPT ![r].op = "replace"] \/ (req' = [req EXCEPT ![r].how = "return"] /\ req[r].op = "release")
    BY <1>4 DEF ScheduleWrite, ReleaseDialed, OutcomeReplace, OutcomeSave
  <2>2. req[r].op # "idle" => req[r] \in DeskReq
    BY <1>4, DeskFields DEF ScheduleWrite, ReleaseDialed, OutcomeReplace, OutcomeSave, DeskKinds, DeskOps
  <2>3. req[r].op # "idle"
    BY <1>4 DEF ScheduleWrite, ReleaseDialed, OutcomeReplace, OutcomeSave
  <2>4. PICK v \in DeskReq : v = req[r]
    BY <2>2, <2>3
  <2>5. \A op : LET z == [v EXCEPT !.op = op] IN z.op = op
    BY DEF DeskReq, ScheduleReq, CompleteReq, PullReq, ReleaseReq, ClickReq, OutcomeReq, StatusReq, EditReq, FollowReq,
           DistributeReq
  <2>6. [v EXCEPT !.how = "return"].op = v.op
    OBVIOUS
  <2>7. QED
    BY <1>1, <2>1, <2>4, <2>5, <2>6
<1>5. CASE EditWrite(r) /\ ~End(r)
  BY <1>1, <1>5 DEF EditWrite, Follow
<1>6. QED
  BY <1>3, <1>4, <1>5 DEF DeskWrite, Supersede, CompleteWrite, PullCommit, ReleaseWrite, ClickFails, OutcomeBook, StatusWrite,
                          FollowOwner, ApplyPlan, Crash

LEMMA DialLoads ==
    ASSUME TypeInv, NEW r \in Request, ClickDials(r), NEW w, w = req'[r]
    PROVE  /\ w \in OutcomeReq /\ w.lead = req[r].lead /\ w.copy = Stats(lead[w.lead], call, w.lead)
           /\ w.copy.st = lead'[w.lead].st /\ w.st = NextStatus(w.copy.st, w.d.to, w.on)
           /\ lead[w.lead].owner \in {Nobody, w.owner}
<1>0. lead \in [Lead -> LeadRec] /\ call \in [Call -> CallRec] /\ req \in [Request -> AnyReq]
  BY DeskVariables
<1>1. req[r].op = "click" /\ req[r] \in ClickReq
  BY DeskFields, DeskKind DEF ClickDials, DeskKinds, DeskOps
<1>2. w = Applying("call", req[r].call, call, NoOutcome, FALSE, 0) /\ lead' = lead
  BY <1>0 DEF ClickDials
<1>3. req[r].call \in Call /\ call[req[r].call].lead = req[r].lead /\ req[r].lead \in Lead
  BY <1>1 DEF ClickReq, TypeInv, ClicksHold
<1>4. PICK b \in BOOLEAN : b = FALSE
  OBVIOUS
<1>5. PICK d \in DispositionRec : d = NoOutcome
  BY NoOutcomeType
<1>6. PICK c \in Call : c = req[r].call
  BY <1>3
<1>7. w = Applying("call", c, call, d, b, 0) /\ call[c].lead \in Lead /\ call[c].lead = req[r].lead /\ 0 \in Nat
  BY <1>2, <1>3, <1>4, <1>5, <1>6
<1>8. /\ w \in OutcomeReq /\ w.lead = call[c].lead /\ w.on = call[c].on
      /\ w.copy = Stats(lead[w.lead], call, w.lead)
      /\ w.st = NextStatus(lead[w.lead].st, d.to, call[c].on) /\ w.d = d
  BY <1>0, <1>7, ApplyingType
<1>9. lead[w.lead].owner \in {Nobody, w.owner}
  BY <1>7, ApplyingOwner
<1>10. PICK row \in LeadRec : row = lead[w.lead]
  BY <1>0, <1>7, <1>8
<1>11. w.copy = Stats(row, call, w.lead)
  BY <1>8, <1>10
<1>12. w.copy.st = row.st
  BY <1>0, <1>11, StatsKeeps
<1>13. QED
  BY <1>2, <1>7, <1>8, <1>9, <1>10, <1>12

LEMMA OutcomeKept ==
    ASSUME TypeInv, MeetInv, OutcomeInv, DeskNext
    PROVE  OutcomeInv'
<1>0. lead \in [Lead -> LeadRec]
  BY DeskVariables
<1>1. CASE \E r \in Request : DeskLoad(r)
  <2>1. PICK r \in Request : DeskLoad(r)
    BY <1>1
  <2>2. PICK w \in DeskReq : Begun(r, w) /\ Loaded(w)
    BY <2>1, DeskLoads
  <2>3. met \subseteq met' /\ Becomes(r, w)
    BY <2>2 DEF Begun
  <2>4. \A l \in Lead : SameStatus(l)
    <3>1. CASE w.op = "assign"
      BY <1>0, <2>2, <3>1 DEF Loaded, AssignLoads, SameStatus, LeadRec
    <3>2. CASE w.op # "assign"
      BY <2>2, <3>2 DEF Loaded, SameStatus
    <3>3. QED
      BY <3>1, <3>2
  <2> SUFFICES ASSUME ~OutcomeMet, \A q \in Request : OutcomeFine(q), NEW q \in Request
               PROVE  OutcomeFine(q)'
    BY <2>3, StillMet DEF OutcomeInv, OutcomeMet
  <2>5. CASE q = r
    <3> SUFFICES ASSUME w.op \in {"call", "outcome"}
                 PROVE  w.copy.st = lead'[w.lead].st /\ w.st = NextStatus(w.copy.st, w.d.to, w.on)
      BY <2>3, <2>5 DEF OutcomeFine, Becomes
    <3>1. w \in OutcomeReq /\ OutcomeLoads(w) /\ lead' = lead
      BY <2>2, DeskKind DEF Loaded
    <3>2. PICK l \in Lead : l = w.lead
      BY <3>1 DEF OutcomeReq
    <3>3. PICK calls \in [Call -> CallRec] : calls = call'
      <4>1. TypeInv => call \in [Call -> CallRec]
        BY DeskVariables
      <4>2. DeskTypes'
        BY DeskTyped DEF DeskStep
      <4>3. QED
        BY <4>2 DEF DeskTypes
    <3>4. PICK row \in LeadRec : row = lead[l]
      BY <1>0, <3>2
    <3>5. w.copy = Stats(row, calls, l) /\ w.st = NextStatus(row.st, w.d.to, w.on)
      BY <3>1, <3>2, <3>3, <3>4 DEF OutcomeLoads
    <3>6. w.copy.st = row.st
      BY <3>5, StatsKeeps
    <3>7. QED
      BY <3>1, <3>2, <3>4, <3>5, <3>6
  <2>6. CASE q # r
    BY <2>3, <2>4, <2>6, OutcomeFineStays DEF Becomes
  <2>7. QED
    BY <2>5, <2>6
<1>2. CASE \E r \in Request : DeskWrite(r)
  <2>1. PICK r \in Request : DeskWrite(r)
    BY <1>2
  <2>2. PICK w \in DeskReq \cup IdleReq :
             /\ Becomes(r, w) /\ Continues(r, w) /\ met \subseteq met' /\ req[r].op # "idle"
             /\ w.op \in {"idle", "supersede", "release", "call", "replace", "book", "follow"}
    BY <2>1, DeskWrites
  <2>3. Footprint(req[r].op)
    BY <2>1, FootprintOfWrites
  <2> SUFFICES ASSUME ~OutcomeMet, \A q \in Request : OutcomeFine(q), NEW q \in Request
               PROVE  OutcomeMet' \/ OutcomeFine(q)'
    BY <2>2, StillMet DEF OutcomeInv, OutcomeMet
  <2>4. CASE q = r
    <3>1. CASE w.op # "call"
      BY <2>2, <2>4, <3>1 DEF OutcomeFine, Becomes
    <3>2. CASE w.op = "call"
      <4>0. w = req'[r]
        BY <2>2 DEF Becomes
      <4>1. ClickDials(r)
        BY <2>1, <3>2, <4>0, BecomesCall
      <4>2. w.copy.st = lead'[w.lead].st /\ w.st = NextStatus(w.copy.st, w.d.to, w.on)
        BY <4>0, <4>1, DialLoads
      <4>3. QED
        BY <2>2, <2>4, <4>2 DEF OutcomeFine, Becomes
    <3>3. QED
      BY <3>1, <3>2
  <2>5. CASE q # r
    <3>1. req'[q] = req[q]
      BY <2>2, <2>5 DEF Becomes
    <3>2. CASE req[r].op \notin Calling \cup {"status", "edit"}
      <4>1. \A l \in Lead : SameStatus(l)
        BY <2>3, <3>2 DEF Footprint
      <4>2. QED
        BY <3>1, <4>1, OutcomeFineStays
    <3>3. CASE req[r].op \in Calling \cup {"status", "edit"} /\ req[q].op \in {"call", "outcome"}
      <4>1. {req[q].op, req[r].op} \in met'
        BY <2>2, <2>5, <3>3, Originals, Together DEF Calling
      <4>2. QED
        BY <3>3, <4>1, MetHere DEF OutcomeMet
    <3>4. CASE req[q].op \notin {"call", "outcome"}
      BY <3>1, <3>4 DEF OutcomeFine
    <3>5. QED
      BY <3>2, <3>3, <3>4
  <2>6. QED
    BY <2>4, <2>5
<1>3. CASE AtOnce
  <2>1. /\ UNCHANGED req /\ met \subseteq met' /\ \A l \in Lead : SameStatus(l)
    BY <1>3, AtOnceFootprint
  <2>2. \A q \in Request : OutcomeFine(q) => OutcomeFine(q)'
    BY <2>1, OutcomeFineStays
  <2>3. QED
    BY <2>1, <2>2, StillMet DEF OutcomeInv, OutcomeMet
<1>4. QED
  BY <1>1, <1>2, <1>3, DeskCases

\* The save of an outcome.
LEMMA SaveForward ==
    ASSUME TypeInv, OutcomeInv, DeskNext, NEW r \in Request, req[r].op \in {"call", "outcome"},
           req'[r].op \in {"replace", "idle"}, crashed' = crashed, ~OutcomeMet
    PROVE  Forward(lead[req[r].lead].st, lead'[req[r].lead].st, req[r].d.to, req[r].on)
<1>0. lead \in [Lead -> LeadRec]
  BY DeskVariables
<1>1. CASE \E p \in Request : DeskLoad(p)
  <2>1. PICK p \in Request : DeskLoad(p)
    BY <1>1
  <2>2. PICK w \in DeskReq : Begun(p, w)
    BY <2>1, DeskLoads
  <2>3. p # r
    BY <2>2 DEF Begun, Free
  <2>4. QED
    BY <2>2, <2>3 DEF Begun, Becomes
<1>2. CASE \E p \in Request : DeskWrite(p)
  <2>1. PICK p \in Request : DeskWrite(p)
    BY <1>2
  <2>2. PICK w \in DeskReq \cup IdleReq : Becomes(p, w)
    BY <2>1, DeskWrites
  <2>3. p = r
    BY <2>2 DEF Becomes
  <2>4. OutcomeSave(r)
    BY <2>1, <2>3, Zenon DEF DeskWrite, ScheduleWrite, Supersede, CompleteWrite, PullCommit, ReleaseDialed, ReleaseWrite,
                      ClickFails, ClickDials, OutcomeReplace, OutcomeBook, StatusWrite, EditWrite, FollowOwner,
                      ApplyPlan, Crash
  <2>5. req[r] \in OutcomeReq /\ req[r].lead \in Lead
    BY DeskFields, DeskKind DEF DeskKinds, DeskOps, OutcomeReq
  <2>6. lead'[req[r].lead] = Saved(lead[req[r].lead], req[r])
    BY <1>0, <2>4, <2>5 DEF OutcomeSave
  <2>7. PICK v \in OutcomeReq : v = req[r]
    BY <2>5
  <2>8. PICK row \in LeadRec : row = lead[v.lead]
    BY <1>0, <2>5, <2>7
  <2>9. v.copy.st = row.st /\ v.st = NextStatus(row.st, v.d.to, v.on)
    BY <2>7, <2>8 DEF OutcomeInv, OutcomeFine
  <2>10. Saved(row, v).st = v.st
    BY <2>9, SavedType
  <2>11. row.st \in Status /\ v.on \in BOOLEAN
    BY <2>7 DEF OutcomeReq, LeadRec
  <2>12. Forward(row.st, v.st, v.d.to, v.on)
    BY <2>9, <2>11, NextForward
  <2>13. QED
    BY <2>6, <2>7, <2>8, <2>10, <2>12
<1>3. CASE AtOnce
  BY <1>3, AtOnceFootprint
<1>4. QED
  BY <1>1, <1>2, <1>3, DeskCases

\* A call moves its lead forward, closes it, or reopens it when it was
\* answered, unless the status was changed after the call had loaded the lead.
THEOREM CallsMoveForward == Spec => StageForward
<1> DEFINE A == \A r \in Request :
          req[r].op \in {"call", "outcome"} /\ req'[r].op \in {"replace", "idle"} =>
            \/ crashed' # crashed \/ Met({"call", "outcome"}, Calling \cup {"status", "edit"})
            \/ LET l == req[r].lead
                   s == lead[l].st
                   t == lead'[l].st IN
               /\ s # t => /\ s \notin Locked
                           /\ \/ t \in Closed \/ (s \in Closed /\ req[r].on)
                              \/ s \in Stage /\ Rank(t) > Rank(s)
                              \/ s \in Stage /\ Rank(t) = Rank(s) /\ t = req[r].d.to
               /\ {s, t} \cap Final = {} => Rank(t) >= (IF req[r].on THEN 2 ELSE 1)
<1>1. Init => OutcomeInv
  <2> SUFFICES ASSUME Init PROVE OutcomeInv
    OBVIOUS
  <2>1. Idle.op = "idle"
    BY DEF Idle
  <2>2. QED
    BY <2>1, Begins DEF OutcomeInv, OutcomeFine
<1>2. TypeInv /\ MeetInv /\ OutcomeInv /\ [Next]_vars => OutcomeInv'
  <2> SUFFICES ASSUME TypeInv, MeetInv, OutcomeInv, [Next]_vars PROVE OutcomeInv'
    OBVIOUS
  <2>1. CASE ~(DeskNext /\ DeskFrame)
    <3>1. Still
      BY <2>1, OthersStill
    <3>2. \A q \in Request : OutcomeFine(q) => OutcomeFine(q)'
      <4> SUFFICES ASSUME NEW q \in Request, OutcomeFine(q), req'[q].op \in {"call", "outcome"} PROVE OutcomeFine(q)'
        BY DEF OutcomeFine
      <4>1. req'[q] = req[q] /\ lead' = lead
        BY <3>1 DEF Still, DeskKinds, DeskOps
      <4>2. QED
        BY <4>1 DEF OutcomeFine
    <3>3. QED
      BY <3>1, <3>2, StillMet DEF Still, OutcomeInv, OutcomeMet
  <2>2. QED
    BY <2>1, OutcomeKept
<1>3. TypeInv /\ OutcomeInv /\ [Next]_vars => A
  <2> SUFFICES ASSUME TypeInv, OutcomeInv, [Next]_vars, NEW r \in Request, req[r].op \in {"call", "outcome"},
                      req'[r].op \in {"replace", "idle"}, crashed' = crashed, ~OutcomeMet
               PROVE  Forward(lead[req[r].lead].st, lead'[req[r].lead].st, req[r].d.to, req[r].on)
    BY DEF Forward, OutcomeMet
  <2>1. CASE ~(DeskNext /\ DeskFrame)
    <3>1. Still
      BY <2>1, OthersStill
    <3>2. QED
      BY <3>1 DEF Still, DeskKinds, DeskOps
  <2>2. QED
    BY <2>1, SaveForward
<1>4. StageForward <=> [][A]_vars
  BY DEF StageForward
<1> HIDE DEF A
<1>5. QED
  BY <1>1, <1>2, <1>3, <1>4, TypeInvariant, DeskMeets, PTL DEF Spec

-----------------------------------------------------------------------------
(* The cap of a distribution.                                               *)

OpenLeads(a) == {l \in OwnedBy(a) : lead[l].st \notin Final}

LEMMA OpenFinite ==
    ASSUME NEW a
    PROVE  /\ OpenCount(a) = Cardinality(OpenLeads(a)) /\ OpenLeads(a) \in SUBSET Lead
           /\ IsFiniteSet(OpenLeads(a)) /\ OpenCount(a) \in Nat
<1>1. OpenLeads(a) \in SUBSET Lead /\ OpenCount(a) = Cardinality(OpenLeads(a))
  BY DEF OpenLeads, OpenCount, OwnedBy
<1>2. IsFiniteSet(Lead)
  BY DeskConstants
<1>3. QED
  BY <1>1, <1>2, SubsetCount

LEMMA OpenFinite2 ==
    ASSUME NEW a
    PROVE  OpenCount(a)' = Cardinality(OpenLeads(a)') /\ OpenLeads(a)' \in SUBSET Lead
BY DEF OpenLeads, OpenCount, OwnedBy

\* No more open leads for an agent, when leads are at most taken away.
LEMMA FewerOpen ==
    ASSUME TypeInv, \A l \in Lead : SameStatus(l) /\ (SameOwner(l) \/ lead'[l].owner = Nobody), NEW a \in Agent
    PROVE  OpenCount(a)' \in Nat /\ OpenCount(a)' <= OpenCount(a)
<1>1. Nobody \notin Agent
  BY DeskConstants
<1>2. OpenLeads(a)' \subseteq OpenLeads(a)
  BY <1>1 DEF OpenLeads, OwnedBy, SameStatus, SameOwner
<1>3. IsFiniteSet(OpenLeads(a)) /\ OpenCount(a) = Cardinality(OpenLeads(a))
  BY OpenFinite
<1>4. OpenCount(a)' = Cardinality(OpenLeads(a)')
  BY OpenFinite2
<1>5. PICK S : S = OpenLeads(a)
  OBVIOUS
<1>6. PICK T \in SUBSET S : T = OpenLeads(a)'
  BY <1>2, <1>5
<1>7. Cardinality(T) <= Cardinality(S) /\ Cardinality(T) \in Nat
  BY <1>3, <1>5, FS_Subset, FS_CardinalityType
<1>8. QED
  BY <1>3, <1>4, <1>5, <1>6, <1>7

LEMMA PlanFineStays ==
    ASSUME TypeInv, \A l \in Lead : SameStatus(l) /\ (SameOwner(l) \/ lead'[l].owner = Nobody),
           NEW q \in Request, req'[q] = req[q], PlanFine(q)
    PROVE  PlanFine(q)'
<1> SUFFICES ASSUME req[q].op = "distribute", req[q].cap # NoCap, NEW a \in Agent, Given(req[q].plan, a) # 0
             PROVE  OpenCount(a)' + Given(req[q].plan, a) <= req[q].cap
  BY DEF PlanFine, WithinCap
<1>1. PICK w \in DistributeReq : w = req[q]
  BY DeskFields, DeskKind DEF DeskKinds, DeskOps
<1>2. Given(w.plan, a) \in Nat /\ w.cap \in Nat
  BY GivenType DEF DistributeReq
<1>3. OpenCount(a) + Given(w.plan, a) <= w.cap
  BY <1>1 DEF PlanFine, WithinCap
<1>4. OpenCount(a)' \in Nat /\ OpenCount(a)' <= OpenCount(a) /\ OpenCount(a) \in Nat
  BY FewerOpen, OpenFinite
<1>5. PICK n : n = OpenCount(a)'
  OBVIOUS
<1>6. n + Given(w.plan, a) <= w.cap
  BY <1>2, <1>3, <1>4, <1>5
<1>7. QED
  BY <1>1, <1>5, <1>6

\* The leads a plan names an agent for are no more than those it gives it.
LEMMA PlannedCount ==
    ASSUME NEW w \in DistributeReq, NEW a \in Agent
    PROVE  LET to == {l \in Lead : PlannedOwner(w, l) = a} IN
           IsFiniteSet(to) /\ Cardinality(to) <= Given(w.plan, a) /\ (Given(w.plan, a) = 0 => to = {})
<1>1. w.ids \in Seq(Lead) /\ w.plan \in Seq(Owner) /\ Len(w.plan) = Len(w.ids)
  BY DEF DistributeReq
<1>2. PICK to : to = {l \in Lead : PlannedOwner(w, l) = a}
  OBVIOUS
<1>3. PICK places : places = {k \in DOMAIN w.plan : w.plan[k] = a}
  OBVIOUS
<1>4. IsFiniteSet(places) /\ Cardinality(places) = Given(w.plan, a)
  BY <1>1, <1>3, GivenType DEF Given
<1>5. PICK f : f = [l \in to |-> CHOOSE k \in DOMAIN w.ids : w.ids[k] = l]
  OBVIOUS
<1>6. ASSUME NEW l \in to PROVE f[l] \in places /\ w.ids[f[l]] = l
  <2>1. l \in Range(w.ids)
    BY <1>2, DeskConstants DEF PlannedOwner
  <2>2. \E k \in DOMAIN w.ids : w.ids[k] = l
    BY <2>1 DEF Range
  <2>3. f[l] = CHOOSE k \in DOMAIN w.ids : w.ids[k] = l
    BY <1>5
  <2>4. f[l] \in DOMAIN w.ids /\ w.ids[f[l]] = l
    BY <2>2, <2>3
  <2>5. w.plan[f[l]] = a
    BY <1>2, <2>1, <2>3 DEF PlannedOwner
  <2>6. DOMAIN w.ids = DOMAIN w.plan
    BY <1>1
  <2>7. QED
    BY <1>3, <2>4, <2>5, <2>6
<1>7. f \in Injection(to, places)
  <2>1. f \in [to -> places]
    BY <1>5, <1>6
  <2>2. \A l \in to, m \in to : f[l] = f[m] => l = m
    BY <1>6
  <2>3. QED
    BY <2>1, <2>2 DEF Injection, IsInjective
<1>8. IsFiniteSet(to) /\ Cardinality(to) <= Cardinality(places)
  BY <1>4, <1>7, FS_Injection
<1>9. Given(w.plan, a) = 0 => places = {}
  BY <1>4, FS_EmptySet
<1>10. QED
  BY <1>2, <1>4, <1>6, <1>8, <1>9

LEMMA PlanApplied ==
    ASSUME TypeInv, NEW r \in Request, ApplyPlan(r), PlanFine(r), req[r].cap # NoCap, NEW a \in Agent
    PROVE  OwnedBy(a)' \subseteq OwnedBy(a) \/ OpenCount(a)' <= req[r].cap
<1>0. lead \in [Lead -> LeadRec] /\ Nobody \notin Agent
  BY DeskVariables, DeskConstants
<1>1. PICK w \in DistributeReq : w = req[r]
  BY DeskFields, DeskKind DEF DeskKinds, DeskOps, ApplyPlan
<1>2. PICK owner : owner = [l \in Lead |-> IF PlannedOwner(w, l) # Nobody THEN PlannedOwner(w, l) ELSE lead[l].owner]
  OBVIOUS
<1>3. lead' = [l \in Lead |-> [lead[l] EXCEPT !.owner = owner[l]]]
  BY <1>1, <1>2 DEF ApplyPlan
<1>4. \A l \in Lead : lead'[l].st = lead[l].st /\ lead'[l].owner = owner[l]
  BY <1>0, <1>3 DEF LeadRec
<1>5. PICK to : to = {l \in Lead : PlannedOwner(w, l) = a}
  OBVIOUS
<1>6. IsFiniteSet(to) /\ Cardinality(to) <= Given(w.plan, a) /\ (Given(w.plan, a) = 0 => to = {})
  BY <1>5, PlannedCount
<1>7. OwnedBy(a)' \subseteq OwnedBy(a) \cup to
  BY <1>2, <1>4, <1>5 DEF OwnedBy
<1>8. CASE Given(w.plan, a) = 0
  BY <1>6, <1>7, <1>8
<1>9. CASE Given(w.plan, a) # 0
  <2>1. OpenLeads(a)' \subseteq OpenLeads(a) \cup to
    BY <1>4, <1>7 DEF OpenLeads, OwnedBy
  <2>2. PICK S : S = OpenLeads(a)
    OBVIOUS
  <2>3. PICK T \in SUBSET (S \cup to) : T = OpenLeads(a)'
    BY <2>1, <2>2
  <2>4. IsFiniteSet(S) /\ OpenCount(a) = Cardinality(S)
    BY <2>2, OpenFinite
  <2>5. /\ IsFiniteSet(S \cup to)
        /\ Cardinality(S \cup to) = Cardinality(S) + Cardinality(to) - Cardinality(S \cap to)
    BY <1>6, <2>4, FS_Union
  <2>6. Cardinality(S) \in Nat /\ Cardinality(to) \in Nat /\ Cardinality(S \cap to) \in Nat
    BY <1>6, <2>4, FS_CardinalityType, FS_Intersection
  <2>7. Cardinality(T) <= Cardinality(S \cup to) /\ Cardinality(T) \in Nat
    BY <2>5, FS_Subset, FS_CardinalityType
  <2>8. Given(w.plan, a) \in Nat /\ w.cap \in Nat
    BY GivenType DEF DistributeReq
  <2>9. Cardinality(S) + Given(w.plan, a) <= w.cap
    BY <1>1, <1>9, <2>4 DEF PlanFine, WithinCap, ApplyPlan
  <2>10. Cardinality(T) <= w.cap
    BY <1>6, <2>5, <2>6, <2>7, <2>8, <2>9
  <2>11. OpenCount(a)' = Cardinality(T)
    BY <2>3, OpenFinite2
  <2>12. QED
    BY <1>1, <2>10, <2>11
<1>10. QED
  BY <1>8, <1>9

LEMMA PlanKept ==
    ASSUME TypeInv, MeetInv, PlanInv, DeskNext
    PROVE  PlanInv'
<1>1. CASE \E r \in Request : DeskLoad(r)
  <2>1. PICK r \in Request : DeskLoad(r)
    BY <1>1
  <2>2. PICK w \in DeskReq : Begun(r, w) /\ Loaded(w)
    BY <2>1, DeskLoads
  <2>3. met \subseteq met' /\ Becomes(r, w)
    BY <2>2 DEF Begun
  <2> SUFFICES ASSUME ~PlanMet, \A q \in Request : PlanFine(q), NEW q \in Request
               PROVE  PlanMet' \/ PlanFine(q)'
    BY <2>3, StillMet DEF PlanInv, PlanMet
  <2>4. CASE q = r
    <3> SUFFICES ASSUME w.op = "distribute" PROVE WithinCap(w)'
      BY <2>3, <2>4 DEF PlanFine, Becomes
    <3>1. lead' = lead /\ WithinCap(w)
      BY <2>2 DEF Loaded
    <3>2. QED
      BY <3>1 DEF WithinCap, OpenCount, OwnedBy
  <2>5. CASE q # r
    <3>1. req'[q] = req[q]
      BY <2>3, <2>5 DEF Becomes
    <3>2. CASE w.op # "assign"
      <4>1. \A l \in Lead : SameStatus(l) /\ SameOwner(l)
        BY <2>2, <3>2 DEF Loaded, SameStatus, SameOwner
      <4>2. QED
        BY <3>1, <4>1, PlanFineStays
    <3>3. CASE w.op = "assign" /\ req[q].op = "distribute"
      <4>1. PICK kind \in Kinds : kind = w.op
        BY DeskKind DEF Kinds
      <4>2. ~Free(q)
        BY <3>3 DEF Free
      <4>3. {kind, req[q].op} \in met'
        BY <2>2, <2>5, <4>1, <4>2, Meeting DEF TypeInv, Begun
      <4>4. {"distribute", "assign"} \in met'
        BY <3>3, <4>1, <4>3
      <4>5. QED
        BY <4>4, MetHere DEF PlanMet, Moving
    <3>4. CASE req[q].op # "distribute"
      BY <3>1, <3>4 DEF PlanFine
    <3>5. QED
      BY <3>2, <3>3, <3>4
  <2>6. QED
    BY <2>4, <2>5
<1>2. CASE \E r \in Request : DeskWrite(r)
  <2>1. PICK r \in Request : DeskWrite(r)
    BY <1>2
  <2>2. PICK w \in DeskReq \cup IdleReq :
             /\ Becomes(r, w) /\ Continues(r, w) /\ met \subseteq met' /\ req[r].op # "idle"
             /\ w.op \in {"idle", "supersede", "release", "call", "replace", "book", "follow"}
    BY <2>1, DeskWrites
  <2>3. Footprint(req[r].op)
    BY <2>1, FootprintOfWrites
  <2> SUFFICES ASSUME ~PlanMet, \A q \in Request : PlanFine(q), NEW q \in Request
               PROVE  PlanMet' \/ PlanFine(q)'
    BY <2>2, StillMet DEF PlanInv, PlanMet
  <2>4. CASE q = r
    BY <2>2, <2>4 DEF PlanFine, Becomes
  <2>5. CASE q # r
    <3>1. req'[q] = req[q]
      BY <2>2, <2>5 DEF Becomes
    <3>2. CASE req[r].op \notin Calling \cup {"status", "edit", "distribute"}
      <4>1. \A l \in Lead : SameStatus(l) /\ SameOwner(l)
        BY <2>3, <3>2 DEF Footprint
      <4>2. QED
        BY <3>1, <4>1, PlanFineStays
    <3>3. CASE req[r].op \in Calling \cup {"status", "edit", "distribute"} /\ req[q].op = "distribute"
      <4>1. {req[q].op, req[r].op} \in met'
        BY <2>2, <2>5, <3>3, Originals, Together DEF Calling
      <4>2. QED
        BY <3>3, <4>1, MetHere DEF PlanMet, Moving
    <3>4. CASE req[q].op # "distribute"
      BY <3>1, <3>4 DEF PlanFine
    <3>5. QED
      BY <3>2, <3>3, <3>4
  <2>6. QED
    BY <2>4, <2>5
<1>3. CASE AtOnce
  <2>1. /\ UNCHANGED req /\ met \subseteq met'
        /\ \A l \in Lead : SameStatus(l) /\ (SameOwner(l) \/ lead'[l].owner = Nobody)
    BY <1>3, AtOnceFootprint
  <2>2. \A q \in Request : PlanFine(q) => PlanFine(q)'
    BY <2>1, PlanFineStays
  <2>3. QED
    BY <2>1, <2>2, StillMet DEF PlanInv, PlanMet
<1>4. QED
  BY <1>1, <1>2, <1>3, DeskCases

\* The end of a distribution.
LEMMA DistributeEnds ==
    ASSUME TypeInv, PlanInv, DeskNext, NEW r \in Request, req[r].op = "distribute", Free(r)', req[r].cap # NoCap,
           ~PlanMet, NEW a \in Agent
    PROVE  OwnedBy(a)' \subseteq OwnedBy(a) \/ OpenCount(a)' <= req[r].cap
<1>1. CASE \E p \in Request : DeskLoad(p)
  <2>1. PICK p \in Request : DeskLoad(p)
    BY <1>1
  <2>2. PICK w \in DeskReq : Begun(p, w) /\ Loaded(w)
    BY <2>1, DeskLoads
  <2>3. w.op # "idle"
    BY DeskKind DEF DeskKinds, DeskOps
  <2>4. QED
    BY <2>2, <2>3 DEF Begun, Becomes, Free
<1>2. CASE \E p \in Request : DeskWrite(p)
  <2>1. PICK p \in Request : DeskWrite(p)
    BY <1>2
  <2>2. PICK w \in DeskReq \cup IdleReq : Becomes(p, w)
    BY <2>1, DeskWrites
  <2>3. p = r
    BY <2>2 DEF Becomes, Free
  <2>4. ApplyPlan(r) \/ Crash(r)
    BY <2>1, <2>3 DEF DeskWrite, ScheduleWrite, Supersede, CompleteWrite, PullCommit, ReleaseDialed, ReleaseWrite,
                      ClickFails, ClickDials, OutcomeSave, OutcomeReplace, OutcomeBook, StatusWrite, EditWrite, FollowOwner
  <2>5. CASE Crash(r)
    BY <2>5 DEF Crash, OwnedBy
  <2>6. CASE ApplyPlan(r)
    BY <2>6, PlanApplied DEF PlanInv
  <2>7. QED
    BY <2>4, <2>5, <2>6
<1>3. CASE AtOnce
  <2>1. req' = req
    BY <1>3, AtOnceFootprint
  <2>2. QED
    BY <2>1 DEF Free
<1>4. QED
  BY <1>1, <1>2, <1>3, DeskCases

\* No agent who gets leads in a distribution ends above the cap, unless leads
\* were moved, reopened or closed after the plan was made.
THEOREM CapIsCeiling == Spec => CapHolds
<1> DEFINE A == \A r \in Request : req[r].op = "distribute" /\ Free(r)' /\ req[r].cap # NoCap =>
                  \/ Met({"distribute"}, Moving \cup Calling \cup {"status"})
                  \/ \A a \in Agent : OwnedBy(a)' \subseteq OwnedBy(a) \/ OpenCount(a)' <= req[r].cap
<1>1. Init => PlanInv
  <2> SUFFICES ASSUME Init PROVE PlanInv
    OBVIOUS
  <2>1. Idle.op = "idle"
    BY DEF Idle
  <2>2. QED
    BY <2>1, Begins DEF PlanInv, PlanFine
<1>2. TypeInv /\ MeetInv /\ PlanInv /\ [Next]_vars => PlanInv'
  <2> SUFFICES ASSUME TypeInv, MeetInv, PlanInv, [Next]_vars PROVE PlanInv'
    OBVIOUS
  <2>1. CASE ~(DeskNext /\ DeskFrame)
    <3>1. Still
      BY <2>1, OthersStill
    <3>2. \A q \in Request : PlanFine(q) => PlanFine(q)'
      <4> SUFFICES ASSUME NEW q \in Request, PlanFine(q), req'[q].op = "distribute" PROVE PlanFine(q)'
        BY DEF PlanFine
      <4>1. req'[q] = req[q] /\ lead' = lead
        BY <3>1 DEF Still, DeskKinds, DeskOps
      <4>2. QED
        BY <4>1 DEF PlanFine, WithinCap, OpenCount, OwnedBy
    <3>3. QED
      BY <3>1, <3>2, StillMet DEF Still, PlanInv, PlanMet
  <2>2. QED
    BY <2>1, PlanKept
<1>3. TypeInv /\ PlanInv /\ [Next]_vars => A
  <2> SUFFICES ASSUME TypeInv, PlanInv, [Next]_vars, NEW r \in Request, req[r].op = "distribute", Free(r)',
                      req[r].cap # NoCap, ~PlanMet, NEW a \in Agent
               PROVE  OwnedBy(a)' \subseteq OwnedBy(a) \/ OpenCount(a)' <= req[r].cap
    BY DEF PlanMet
  <2>1. CASE ~(DeskNext /\ DeskFrame)
    <3>1. Still
      BY <2>1, OthersStill
    <3>2. lead' = lead
      BY <3>1 DEF Still, DeskKinds, DeskOps, Free
    <3>3. QED
      BY <3>2 DEF OwnedBy
  <2>2. QED
    BY <2>1, DistributeEnds
<1>4. CapHolds <=> [][A]_vars
  BY DEF CapHolds
<1> HIDE DEF A
<1>5. QED
  BY <1>1, <1>2, <1>3, <1>4, TypeInvariant, DeskMeets, PTL DEF Spec

-----------------------------------------------------------------------------
(* Which write a request makes, and which requests are in progress with it. *)

LEMMA WhichWrite ==
    ASSUME NEW r \in Request, DeskWrite(r), ~crashed'
    PROVE  /\ req[r].op = "schedule" => ScheduleWrite(r)
           /\ req[r].op = "supersede" => Supersede(r)
           /\ req[r].op = "complete" => CompleteWrite(r)
           /\ req[r].op = "click" => ClickFails(r) \/ ClickDials(r)
           /\ req[r].op \in {"call", "outcome"} => OutcomeSave(r)
           /\ req[r].op = "replace" => OutcomeReplace(r)
           /\ req[r].op = "book" => OutcomeBook(r)
           /\ req[r].op = "edit" => EditWrite(r)
           /\ req[r].op \in {"assign", "follow"} => FollowOwner(r)
           /\ req[r].op = "distribute" => ApplyPlan(r)
<1>1. ~Crash(r)
  BY DEF Crash
<1> DEFINE AnyOf == ScheduleWrite(r) \/ Supersede(r) \/ CompleteWrite(r) \/ PullCommit(r) \/ ReleaseDialed(r) \/ ReleaseWrite(r)
                  \/ ClickFails(r) \/ ClickDials(r) \/ OutcomeSave(r) \/ OutcomeReplace(r) \/ OutcomeBook(r)
                  \/ StatusWrite(r) \/ EditWrite(r) \/ FollowOwner(r) \/ ApplyPlan(r)
<1>2. AnyOf
  BY <1>1 DEF DeskWrite
<1> HIDE DEF AnyOf
<1>3. /\ ScheduleWrite(r) => req[r].op = "schedule"
      /\ Supersede(r) => req[r].op = "supersede"
      /\ CompleteWrite(r) => req[r].op = "complete"
      /\ PullCommit(r) => req[r].op = "pull"
      /\ ReleaseDialed(r) \/ ReleaseWrite(r) => req[r].op = "release"
      /\ ClickFails(r) \/ ClickDials(r) => req[r].op = "click"
      /\ OutcomeSave(r) => req[r].op \in {"call", "outcome"}
      /\ OutcomeReplace(r) => req[r].op = "replace"
      /\ OutcomeBook(r) => req[r].op = "book"
      /\ StatusWrite(r) => req[r].op = "status"
      /\ EditWrite(r) => req[r].op = "edit"
      /\ FollowOwner(r) => req[r].op \in {"assign", "follow"}
      /\ ApplyPlan(r) => req[r].op = "distribute"
  BY DEF ScheduleWrite, Supersede, CompleteWrite, PullCommit, ReleaseDialed, ReleaseWrite, ClickFails, ClickDials,
         OutcomeSave, OutcomeReplace, OutcomeBook, StatusWrite, EditWrite, FollowOwner, ApplyPlan
<1>4. QED
  BY <1>2, <1>3 DEF AnyOf

LEMMA TwoMet ==
    ASSUME MeetInv, NEW p \in Request, NEW q \in Request, p # q, req[p].op \in DeskKinds, req[q].op \in DeskKinds,
           NEW A, NEW B, Origin(req[p].op) \subseteq A, Origin(req[q].op) \subseteq B
    PROVE  Met(A, B)
<1>1. PICK a \in Origin(req[p].op), b \in Origin(req[q].op) : {a, b} \in met
  BY DEF MeetInv
<1>2. QED
  BY <1>1 DEF Met

\* A write changes the calls of a click only, the follow-ups of those that
\* book them or move them to another agent.
LEMMA RowsOfWrites ==
    ASSUME NEW r \in Request, DeskWrite(r)
    PROVE  /\ req[r].op # "click" => call' = call
           /\ req[r].op \notin {"schedule", "supersede", "complete", "replace", "book", "assign", "follow", "distribute"} =>
                 followup' = followup
BY DEF DeskWrite, ScheduleWrite, Supersede, CompleteWrite, PullCommit, ReleaseDialed, ReleaseWrite, ClickFails, ClickDials,
       OutcomeSave, OutcomeReplace, OutcomeBook, StatusWrite, EditWrite, FollowOwner, ApplyPlan, Crash

-----------------------------------------------------------------------------
(* The figures of a lead that nobody calls, those that an edit will write   *)
(* back, and those that a call is about to write.                           *)

CallsOf(calls, l) == {c \in Call : calls[c].lead = l}
Tallied(row, calls, of) == row.dials = Cardinality(of) /\ row.answered = Cardinality({c \in of : calls[c].on})
Fits(row, calls, of) == Tallied(row, calls, of) /\ (of # {} => row.worked)
Calls(r, l) == req[r].op \in Calling /\ req[r].lead = l
FigureFine(l) == (\E r \in Request : Calls(r, l)) \/ Fits(lead[l], call, CallsOf(call, l))
EditCounts(w) == Fits(w.row, call, CallsOf(call, w.lead))
SaveCounts(w) == Tallied(w.copy, call, CallsOf(call, w.lead)) /\ (w.op = "outcome" => lead[w.lead].worked)
ClickCounts(w) ==
    LET of == CallsOf(call, w.lead) \ {w.call} IN Fits(lead[w.lead], call, of) /\ (of # {} => w.worked)
CountFine(w) ==
    /\ w.op = "edit" => EditCounts(w)
    /\ w.op \in {"call", "outcome"} => SaveCounts(w)
    /\ w.op = "click" => ClickCounts(w)
FiguresMet == Met(Calling, Calling \cup {"edit"})
FiguresFine == (\A l \in Lead : FigureFine(l)) /\ \A r \in Request : CountFine(req[r])
FiguresInv == crashed \/ FiguresMet \/ FiguresFine

\* A call in progress is the only one, and nobody edits.
CallsAlone == \A p, q \in Request : p # q /\ req[p].op \in Calling => req[q].op \notin Calling \cup {"edit"}
LEMMA OneCalls == MeetInv /\ ~FiguresMet => CallsAlone
<1> SUFFICES ASSUME MeetInv, NEW p \in Request, NEW q \in Request, p # q, req[p].op \in Calling,
                    req[q].op \in Calling \cup {"edit"}
             PROVE  FiguresMet
  BY DEF CallsAlone
<1>1. /\ req[p].op \in DeskKinds /\ Origin(req[p].op) \subseteq Calling
      /\ req[q].op \in DeskKinds /\ Origin(req[q].op) \subseteq Calling \cup {"edit"}
  BY Originals DEF Calling
<1>2. QED
  BY <1>1, TwoMet DEF FiguresMet

LEMMA StatsTally ==
    ASSUME NEW row \in LeadRec, NEW calls, NEW l, NEW copy, copy = Stats(row, calls, l)
    PROVE  Tallied(copy, calls, CallsOf(calls, l))
<1>1. PICK of : of = CallsOf(calls, l)
  OBVIOUS
<1>2. PICK n, k, m : /\ copy = [row EXCEPT !.dials = n, !.answered = k, !.dialed = m]
                     /\ n = Cardinality(of) /\ k = Cardinality({c \in of : calls[c].on})
  BY <1>1 DEF Stats, CallsOf
<1>3. copy.dials = n /\ copy.answered = k
  BY <1>2 DEF LeadRec
<1>4. QED
  BY <1>1, <1>2, <1>3 DEF Tallied

\* Two logs that differ in one call at most.
LEMMA OtherCalls ==
    ASSUME NEW calls, NEW new, NEW c \in Call, \A d \in Call \ {c} : new[d] = calls[d], NEW l
    PROVE  CallsOf(new, l) \ {c} = CallsOf(calls, l) \ {c}
BY DEF CallsOf

LEMMA SameTally ==
    ASSUME NEW calls, NEW new, NEW of, \A d \in of : new[d] = calls[d], NEW row, Fits(row, calls, of)
    PROVE  Fits(row, new, of)
<1>1. {d \in of : new[d].on} = {d \in of : calls[d].on}
  OBVIOUS
<1>2. QED
  BY <1>1 DEF Fits, Tallied

\* A call that is logged, changed or taken back is none of another lead's.
LEMMA CallsElsewhere ==
    ASSUME NEW calls, NEW new, NEW c \in Call, \A d \in Call \ {c} : new[d] = calls[d], NEW l,
           calls[c].lead # l, new[c].lead # l, NEW row, Fits(row, calls, CallsOf(calls, l))
    PROVE  Fits(row, new, CallsOf(new, l))
<1>1. PICK of : of = CallsOf(calls, l)
  OBVIOUS
<1>2. CallsOf(new, l) = of /\ \A d \in of : new[d] = calls[d]
  BY <1>1 DEF CallsOf
<1>3. QED
  BY <1>1, <1>2, SameTally

\* The operations that are neither calls nor edits.
LEMMA FiguresStay ==
    ASSUME TypeInv, call' = call, \A l \in Lead : SameFigures(l), FiguresFine,
           \A q \in Request : req[q].op \in Calling \/ req'[q].op \in Calling \cup {"edit"} => req'[q] = req[q]
    PROVE  FiguresFine'
<1>1. ASSUME NEW l \in Lead PROVE FigureFine(l)'
  <2>1. CASE \E q \in Request : Calls(q, l)
    <3>1. PICK q \in Request : Calls(q, l)
      BY <2>1
    <3>2. req'[q] = req[q]
      BY <3>1 DEF Calls
    <3>3. QED
      BY <3>1, <3>2 DEF Calls, FigureFine
  <2>2. CASE Fits(lead[l], call, CallsOf(call, l))
    <3>1. Fits(lead'[l], call, CallsOf(call, l))
      BY <2>2 DEF Fits, Tallied, SameFigures
    <3>2. QED
      BY <3>1 DEF FigureFine
  <2>3. QED
    BY <2>1, <2>2 DEF FiguresFine, FigureFine
<1>2. ASSUME NEW q \in Request PROVE CountFine(req[q])'
  <2> SUFFICES ASSUME req'[q].op \in Calling \cup {"edit"} PROVE CountFine(req[q])'
    BY DEF CountFine, Calling
  <2>1. PICK w : w = req[q]
    OBVIOUS
  <2>2. req'[q] = w /\ w.op \in Calling \cup {"edit"} /\ CountFine(w)
    BY <2>1 DEF FiguresFine
  <2>3. w.lead \in Lead
    BY <2>1, <2>2, DeskFields, DeskKind DEF Calling, DeskKinds, DeskOps, OutcomeReq, ClickReq, EditReq
  <2>4. PICK l \in Lead : l = w.lead
    BY <2>3
  <2>5. EditCounts(w) => EditCounts(w)'
    BY DEF EditCounts
  <2>6. SaveCounts(w) => SaveCounts(w)'
    BY <2>4 DEF SaveCounts, SameFigures
  <2>7. ClickCounts(w) => ClickCounts(w)'
    <3>1. PICK of : of = CallsOf(call, l) \ {w.call}
      OBVIOUS
    <3>2. Fits(lead[l], call, of) => Fits(lead'[l], call, of)
      BY DEF Fits, Tallied, SameFigures
    <3>3. QED
      BY <2>4, <3>1, <3>2 DEF ClickCounts
  <2>8. CountFine(w)'
    BY <2>2, <2>5, <2>6, <2>7 DEF CountFine
  <2>9. QED
    BY <2>2, <2>8 DEF CountFine, EditCounts, SaveCounts, ClickCounts
<1>3. QED
  BY <1>1, <1>2 DEF FiguresFine

\* Where nobody calls the lead's figures are its calls'.
LEMMA NobodyCalls ==
    ASSUME FiguresFine, NEW l \in Lead, \A q \in Request : ~Calls(q, l)
    PROVE  Fits(lead[l], call, CallsOf(call, l))
BY DEF FiguresFine, FigureFine

\* The two a request has read or saved when it begins to call, dial or edit.
LEMMA FiguresOfLoad ==
    ASSUME TypeInv, TypeInv', CallsAlone', FiguresFine, NEW r \in Request, NEW w \in DeskReq, Begun(r, w), Loaded(w),
           w.op \in Calling \cup {"edit"}
    PROVE  FiguresFine'
<1>0. /\ lead \in [Lead -> LeadRec] /\ call \in [Call -> CallRec] /\ call' \in [Call -> CallRec]
      /\ lead' = lead /\ 0 \notin Lead
  BY DeskVariables, DeskConstants DEF TypeInv, DeskTypes, Loaded, Calling
<1>1. req'[r] = w /\ (\A q \in Request \ {r} : req'[q] = req[q]) /\ req[r].op = "idle"
  BY DEF Begun, Becomes, Free
<1>2. PICK l \in Lead : l = w.lead
  BY DeskKind DEF Calling, OutcomeReq, ClickReq, EditReq
<1>3. ASSUME NEW q \in Request \ {r} PROVE req[q].op \notin Calling
  BY <1>1 DEF CallsAlone
<1>4. \A k \in Lead : Fits(lead[k], call, CallsOf(call, k))
  BY <1>1, <1>3, NobodyCalls DEF Calls, Calling
<1>5. PICK row \in LeadRec : row = lead[l]
  BY <1>0
<1>6. CASE w.op = "edit"
  <2>1. call' = call /\ w.row = [row EXCEPT !.owner = w.row.owner, !.st = w.row.st]
    BY <1>2, <1>5, <1>6 DEF Loaded, EditLoads, Calling
  <2>2. w.row.dials = row.dials /\ w.row.answered = row.answered /\ w.row.worked = row.worked
    BY <2>1 DEF LeadRec
  <2>3. Fits(w.row, call, CallsOf(call, l))
    BY <1>4, <1>5, <2>2 DEF Fits, Tallied
  <2>4. CountFine(w)'
    BY <1>2, <1>6, <2>1, <2>3 DEF CountFine, EditCounts, Calling
  <2>5. \A q \in Request : req'[q].op = "edit" => CountFine(req[q])'
    <3> SUFFICES ASSUME NEW q \in Request, req'[q].op = "edit" PROVE CountFine(req[q])'
      OBVIOUS
    <3>1. CASE q = r
      BY <1>1, <2>4, <3>1 DEF CountFine, EditCounts, SaveCounts, ClickCounts
    <3>2. CASE q # r
      BY <1>1, <2>1, <3>2 DEF CountFine, EditCounts, FiguresFine
    <3>3. QED
      BY <3>1, <3>2
  <2>6. \A q \in Request : req'[q].op # "edit" => CountFine(req[q])'
    BY <1>1, <1>3, <1>6 DEF CountFine, Calling
  <2>7. \A k \in Lead : FigureFine(k)'
    BY <1>0, <1>4, <2>1 DEF FigureFine
  <2>8. QED
    BY <2>5, <2>6, <2>7 DEF FiguresFine
<1>7. CASE w.op \in Calling
  <2>1. PICK c \in Call : /\ (\A d \in Call \ {c} : call'[d] = call[d]) /\ call'[c].lead = l
                          /\ call[c] = NoCall \/ (w.op = "outcome" /\ call[c].lead = l)
                          /\ w.op = "click" => w.call = c /\ call[c] = NoCall
    <3>1. CASE w.op = "click"
      <4>1. w.call \in Call /\ ClickLoads(w)
        BY <3>1, DeskKind DEF Loaded, ClickReq
      <4>2. QED
        BY <1>0, <1>2, <3>1, <4>1 DEF ClickLoads
    <3>2. CASE w.op \in {"call", "outcome"}
      BY <1>2, <3>2 DEF Loaded, OutcomeLoads
    <3>3. QED
      BY <1>7, <3>1, <3>2 DEF Calling
  <2>2. call[c].lead \in {0, l}
    BY <2>1 DEF NoCall
  <2>3. PICK calls \in [Call -> CallRec] : calls = call'
    BY <1>0
  <2>4. ASSUME NEW k \in Lead PROVE FigureFine(k)'
    <3>1. CASE k = l
      BY <1>1, <1>2, <1>7, <3>1 DEF FigureFine, Calls
    <3>2. CASE k # l
      <4>1. call[c].lead # k /\ calls[c].lead # k /\ \A d \in Call \ {c} : calls[d] = call[d]
        BY <1>0, <2>1, <2>2, <2>3, <3>2
      <4>2. Fits(lead[k], calls, CallsOf(calls, k))
        BY <1>4, <4>1, CallsElsewhere
      <4>3. QED
        BY <1>0, <2>3, <4>2 DEF FigureFine
    <3>3. QED
      BY <3>1, <3>2
  <2>5. CountFine(w)'
    <3>1. CASE w.op = "click"
      <4>1. CallsOf(call, l) \ {c} = CallsOf(call, l)
        BY <1>0, <2>1, <3>1 DEF CallsOf, NoCall
      <4>2. PICK of : of = CallsOf(call, l)
        OBVIOUS
      <4>3. Fits(row, call, of)
        BY <1>4, <1>5, <4>2
      <4>4. CallsOf(calls, l) \ {c} = of /\ Fits(row, calls, of)
        <5>1. \A d \in Call \ {c} : calls[d] = call[d]
          BY <2>1, <2>3
        <5>2. CallsOf(calls, l) \ {c} = CallsOf(call, l) \ {c}
          BY <5>1, OtherCalls
        <5>3. \A d \in of : calls[d] = call[d]
          BY <4>1, <4>2, <5>1 DEF CallsOf
        <5>4. Fits(row, calls, of)
          BY <4>3, <5>3, SameTally
        <5>5. QED
          BY <4>1, <4>2, <5>2, <5>4
      <4>5. of # {} => w.worked
        BY <1>2, <1>5, <3>1, <4>3 DEF Fits, Loaded, ClickLoads
      <4>6. w.call = c
        BY <2>1, <3>1
      <4>7. ClickCounts(w)'
        BY <1>0, <1>2, <1>5, <2>3, <4>4, <4>5, <4>6 DEF ClickCounts
      <4>8. QED
        BY <3>1, <4>7 DEF CountFine
    <3>2. CASE w.op \in {"call", "outcome"}
      <4>1. w.copy = Stats(row, calls, l)
        BY <1>2, <1>5, <2>3, <3>2 DEF Loaded, OutcomeLoads
      <4>2. Tallied(w.copy, calls, CallsOf(calls, l))
        BY <4>1, StatsTally
      <4>3. w.op = "outcome" => row.worked
        <5> SUFFICES ASSUME w.op = "outcome" PROVE row.worked
          OBVIOUS
        <5>1. PICK d \in Call : call[d].lead = l
          BY <1>2 DEF Loaded, OutcomeLoads
        <5>2. CallsOf(call, l) # {}
          BY <5>1 DEF CallsOf
        <5>3. QED
          BY <1>4, <1>5, <5>2 DEF Fits
      <4>4. SaveCounts(w)'
        BY <1>0, <1>2, <1>5, <2>3, <4>2, <4>3 DEF SaveCounts
      <4>5. QED
        BY <3>2, <4>4 DEF CountFine
    <3>3. QED
      BY <1>7, <3>1, <3>2 DEF Calling
  <2>6. ASSUME NEW q \in Request PROVE CountFine(req[q])'
    <3>1. CASE q = r
      BY <1>1, <2>5, <3>1 DEF CountFine, EditCounts, SaveCounts, ClickCounts
    <3>2. CASE q # r
      <4>1. req'[q].op \notin Calling \cup {"edit"}
        BY <1>1, <1>7, <3>2 DEF CallsAlone
      <4>2. QED
        BY <4>1 DEF CountFine, Calling
    <3>3. QED
      BY <3>1, <3>2
  <2>7. QED
    BY <2>4, <2>6 DEF FiguresFine
<1>8. QED
  BY <1>6, <1>7

\* The writes of an edit, of a click-to-call and of a call.
LEMMA FiguresOfWrite ==
    ASSUME TypeInv, CallsAlone, FiguresFine, NEW r \in Request, DeskWrite(r), ~crashed',
           NEW w \in DeskReq \cup IdleReq, Becomes(r, w), w.op \in {"idle", "supersede", "release", "call", "replace", "book", "follow"},
           req[r].op \in Calling \cup {"edit"}
    PROVE  FiguresFine'
<1>0. /\ lead \in [Lead -> LeadRec] /\ call \in [Call -> CallRec] /\ 0 \notin Lead
  BY DeskVariables, DeskConstants
<1>1. req'[r] = w /\ \A q \in Request \ {r} : req'[q] = req[q]
  BY DEF Becomes
<1>2. PICK v : v = req[r]
  OBVIOUS
<1>3. v \in DeskReq /\ v.op \in Calling \cup {"edit"} /\ CountFine(v)
  BY <1>2, DeskFields DEF FiguresFine, Calling, DeskKinds, DeskOps
<1>4. PICK l \in Lead : l = v.lead
  BY <1>3, DeskKind DEF Calling, OutcomeReq, ClickReq, EditReq
<1>5. ASSUME NEW q \in Request \ {r} PROVE req[q].op \notin Calling
  BY <1>2, <1>3 DEF CallsAlone
<1>6. ASSUME NEW k \in Lead, k # l PROVE Fits(lead[k], call, CallsOf(call, k))
  BY <1>2, <1>4, <1>5, <1>6, NobodyCalls DEF Calls
<1>7. PICK row \in LeadRec : row = lead[l]
  BY <1>0
<1>8. CASE v.op = "edit"
  <2>1. EditWrite(r) /\ call' = call /\ w.op # "call"
    <3>1. EditWrite(r) /\ call' = call
      BY <1>2, <1>8, WhichWrite DEF EditWrite
    <3>2. w.op = "call" => ClickDials(r)
      BY <1>1, BecomesCall
    <3>3. QED
      BY <1>2, <1>8, <3>1, <3>2 DEF ClickDials
  <2>2. lead' = [lead EXCEPT ![l] = v.row]
    BY <1>2, <1>4, <2>1 DEF EditWrite
  <2>3. Fits(v.row, call, CallsOf(call, l))
    BY <1>3, <1>4, <1>8 DEF CountFine, EditCounts
  <2>4. ASSUME NEW k \in Lead PROVE FigureFine(k)'
    BY <1>0, <1>6, <2>1, <2>2, <2>3 DEF FigureFine
  <2>5. ASSUME NEW q \in Request PROVE CountFine(req[q])'
    <3>1. CASE q = r
      BY <1>1, <2>1, <3>1 DEF CountFine
    <3>2. CASE q # r
      BY <1>1, <1>5, <2>1, <3>2 DEF CountFine, EditCounts, FiguresFine, Calling
    <3>3. QED
      BY <3>1, <3>2
  <2>6. QED
    BY <2>4, <2>5 DEF FiguresFine
<1>9. ASSUME v.op \in Calling, w.op \notin {"call", "outcome"} PROVE \A q \in Request : CountFine(req[q])'
  <2> SUFFICES ASSUME NEW q \in Request PROVE CountFine(req[q])'
    OBVIOUS
  <2>1. CASE q = r
    BY <1>1, <1>9, <2>1 DEF CountFine
  <2>2. CASE q # r
    <3>1. req'[q].op \notin Calling \cup {"edit"}
      BY <1>1, <1>2, <1>9, <2>2 DEF CallsAlone
    <3>2. QED
      BY <3>1 DEF CountFine, Calling
  <2>3. QED
    BY <2>1, <2>2
<1>10. CASE v.op = "click" /\ ClickFails(r)
  <2>0. v \in ClickReq
    BY <1>3, <1>10, DeskKind
  <2>1. PICK c \in Call : c = v.call
    BY <2>0 DEF ClickReq
  <2>2. call[c].lead = l /\ call' = [call EXCEPT ![c] = NoCall]
    BY <1>2, <1>4, <1>10, <2>1 DEF ClickFails, TypeInv, ClicksHold
  <2>3. lead' = [lead EXCEPT ![l].st = v.st, ![l].worked = v.worked]
    BY <1>2, <1>4, <1>10 DEF ClickFails
  <2>4. PICK calls : calls = call'
    OBVIOUS
  <2>5. calls[c].lead = 0 /\ \A d \in Call \ {c} : calls[d] = call[d]
    BY <1>0, <2>2, <2>4 DEF NoCall
  <2>6. ASSUME NEW k \in Lead, k # l PROVE FigureFine(k)'
    <3>1. Fits(lead[k], calls, CallsOf(calls, k))
      BY <1>0, <1>6, <2>2, <2>5, <2>6, CallsElsewhere
    <3>2. lead'[k] = lead[k]
      BY <1>0, <2>3, <2>6
    <3>3. QED
      BY <2>4, <3>1, <3>2 DEF FigureFine
  <2>7. FigureFine(l)'
    <3>1. PICK of : of = CallsOf(call, l) \ {c}
      OBVIOUS
    <3>2. Fits(row, call, of) /\ (of # {} => v.worked)
      BY <1>3, <1>4, <1>7, <1>10, <2>1, <3>1 DEF CountFine, ClickCounts
    <3>3. CallsOf(calls, l) = of /\ \A d \in of : calls[d] = call[d]
      BY <1>0, <2>5, <3>1 DEF CallsOf
    <3>4. Fits(row, calls, of)
      BY <3>2, <3>3, SameTally
    <3>5. lead'[l].dials = row.dials /\ lead'[l].answered = row.answered /\ lead'[l].worked = v.worked
      BY <1>0, <1>7, <2>3 DEF LeadRec
    <3>6. Fits(lead'[l], calls, of)
      BY <3>2, <3>4, <3>5 DEF Fits, Tallied
    <3>7. QED
      BY <2>4, <3>3, <3>6 DEF FigureFine
  <2>8. w.op = "idle"
    <3>1. w = Idle
      BY <1>1, <1>10, DeskVariables DEF ClickFails, End
    <3>2. QED
      BY <3>1 DEF Idle
  <2>9. QED
    BY <1>9, <1>10, <2>6, <2>7, <2>8 DEF FiguresFine, Calling
<1>11. CASE v.op = "click" /\ ClickDials(r)
  <2>1. /\ w \in OutcomeReq /\ w.lead = l /\ w.copy = Stats(row, call, l) /\ lead' = lead /\ call' = call /\ w.op = "call"
    <3>1. w.lead = req[r].lead /\ w.copy = Stats(lead[w.lead], call, w.lead) /\ w \in OutcomeReq
      BY <1>1, <1>11, DialLoads
    <3>2. lead' = lead /\ call' = call /\ w = Applying("call", v.call, call, NoOutcome, FALSE, 0)
      BY <1>1, <1>2, <1>11, DeskVariables DEF ClickDials
    <3>3. QED
      BY <1>2, <1>4, <1>7, <3>1, <3>2 DEF Applying
  <2>2. Tallied(w.copy, call, CallsOf(call, l))
    <3>1. PICK calls \in [Call -> CallRec] : calls = call
      BY <1>0
    <3>2. w.copy = Stats(row, calls, l)
      BY <2>1, <3>1
    <3>3. Tallied(w.copy, calls, CallsOf(calls, l))
      BY <3>2, StatsTally
    <3>4. QED
      BY <3>1, <3>3
  <2>3. CountFine(w)'
    BY <2>1, <2>2 DEF CountFine, SaveCounts
  <2>4. ASSUME NEW q \in Request PROVE CountFine(req[q])'
    <3>1. CASE q = r
      BY <1>1, <2>3, <3>1 DEF CountFine, EditCounts, SaveCounts, ClickCounts
    <3>2. CASE q # r
      <4>1. req'[q].op \notin Calling \cup {"edit"}
        BY <1>1, <1>2, <1>11, <3>2 DEF CallsAlone, Calling
      <4>2. QED
        BY <4>1 DEF CountFine, Calling
    <3>3. QED
      BY <3>1, <3>2
  <2>5. ASSUME NEW k \in Lead PROVE FigureFine(k)'
    <3>1. CASE k = l
      BY <1>1, <2>1, <3>1 DEF FigureFine, Calls, Calling
    <3>2. CASE k # l
      BY <1>6, <2>1, <3>2 DEF FigureFine
    <3>3. QED
      BY <3>1, <3>2
  <2>6. QED
    BY <2>4, <2>5 DEF FiguresFine
<1>12. CASE v.op \in {"call", "outcome"}
  <2>0. v \in OutcomeReq
    BY <1>3, <1>12, DeskKind
  <2>1. OutcomeSave(r)
    BY <1>2, <1>12, WhichWrite
  <2>2. lead' = [lead EXCEPT ![l] = Saved(row, v)] /\ call' = call
    BY <1>0, <1>2, <1>4, <1>7, <2>1 DEF OutcomeSave
  <2>3. w.op \notin {"call", "outcome"}
    <3>1. w.op = "call" => ClickDials(r)
      BY <1>1, BecomesCall
    <3>2. QED
      BY <1>2, <1>12, <3>1 DEF ClickDials
  <2>4. PICK saved : saved = Saved(row, v)
    OBVIOUS
  <2>5. saved.dials = v.copy.dials /\ saved.answered = v.copy.answered /\ (row.worked \/ v.op = "call" => saved.worked)
    BY <2>0, <2>4, SavedType
  <2>6. Tallied(v.copy, call, CallsOf(call, l)) /\ (v.op = "outcome" => row.worked)
    BY <1>3, <1>4, <1>7, <1>12 DEF CountFine, SaveCounts
  <2>7. Fits(saved, call, CallsOf(call, l))
    BY <1>12, <2>5, <2>6 DEF Fits, Tallied
  <2>8. ASSUME NEW k \in Lead PROVE FigureFine(k)'
    BY <1>0, <1>6, <2>2, <2>4, <2>7 DEF FigureFine
  <2>9. QED
    BY <1>9, <1>12, <2>3, <2>8 DEF FiguresFine, Calling
<1>13. QED
  <2>1. v.op = "click" => ClickFails(r) \/ ClickDials(r)
    BY <1>2, WhichWrite
  <2>2. QED
    BY <1>3, <1>8, <1>10, <1>11, <1>12, <2>1 DEF Calling

\* What a request becomes when it writes.
LEMMA BecomesBy ==
    ASSUME TypeInv, NEW r \in Request, DeskWrite(r), NEW w, Becomes(r, w),
           w.op \in {"idle", "supersede", "release", "call", "replace", "book", "follow"}
    PROVE  w.op \in Calling \cup {"edit"} => w.op = "call" /\ ClickDials(r) /\ req[r].op = "click"
<1>1. w.op = "call" => ClickDials(r)
  BY BecomesCall DEF Becomes
<1>2. QED
  BY <1>1 DEF Calling, ClickDials

LEMMA FiguresKept ==
    ASSUME TypeInv, TypeInv', MeetInv, MeetInv', FiguresInv, [Next]_vars
    PROVE  FiguresInv'
<1>1. CASE ~(DeskNext /\ DeskFrame)
  <2>1. Still
    BY <1>1, OthersStill
  <2>2. SUFFICES ASSUME FiguresFine PROVE FiguresFine'
    BY <2>1, StillMet DEF Still, FiguresInv, FiguresMet
  <2>3. /\ call' = call /\ \A l \in Lead : SameFigures(l)
        /\ \A q \in Request : req[q].op \in Calling \/ req'[q].op \in Calling \cup {"edit"} => req'[q] = req[q]
    BY <2>1 DEF Still, SameFigures, Calling, DeskKinds, DeskOps
  <2>4. QED
    BY <2>2, <2>3, FiguresStay
<1>2. CASE DeskNext
  <2>0. SUFFICES ASSUME met \subseteq met', ~crashed', ~FiguresMet' PROVE FiguresFine'
    <3>1. met \subseteq met'
      <4>1. CASE \E r \in Request : DeskLoad(r)
        BY <4>1, DeskLoads DEF Begun
      <4>2. CASE \E r \in Request : DeskWrite(r)
        BY <4>2, DeskWrites
      <4>3. CASE AtOnce
        BY <4>3, AtOnceFootprint
      <4>4. QED
        BY <1>2, <4>1, <4>2, <4>3, DeskCases
    <3>2. QED
      BY <3>1 DEF FiguresInv
  <2>1. CallsAlone /\ CallsAlone' /\ FiguresFine
    <3>1. ~FiguresMet
      BY <2>0, StillMet DEF FiguresMet
    <3>2. (MeetInv /\ ~FiguresMet => CallsAlone)'
      BY OneCalls, PTL
    <3>3. ~crashed
      BY <1>2, <2>0, NoneRecovers
    <3>4. QED
      BY <2>0, <3>1, <3>2, <3>3, OneCalls DEF FiguresInv
  <2>2. CASE \E r \in Request : DeskLoad(r)
    <3>1. PICK r \in Request : DeskLoad(r)
      BY <2>2
    <3>2. PICK w \in DeskReq : Begun(r, w) /\ Loaded(w)
      BY <3>1, DeskLoads
    <3>3. CASE w.op \in Calling \cup {"edit"}
      BY <2>1, <3>2, <3>3, FiguresOfLoad
    <3>4. CASE w.op \notin Calling \cup {"edit"}
      <4>1. \A l \in Lead : SameFigures(l)
        <5>1. CASE w.op = "assign"
          BY <3>2, <5>1, DeskVariables DEF Loaded, AssignLoads, SameFigures, LeadRec
        <5>2. CASE w.op # "assign"
          BY <3>2, <5>2 DEF Loaded, SameFigures
        <5>3. QED
          BY <5>1, <5>2
      <4>2. call' = call /\ req'[r] = w /\ req[r].op = "idle" /\ \A q \in Request \ {r} : req'[q] = req[q]
        BY <3>2, <3>4 DEF Loaded, Begun, Becomes, Free
      <4>3. \A q \in Request : req[q].op \in Calling \/ req'[q].op \in Calling \cup {"edit"} => req'[q] = req[q]
        BY <3>4, <4>2 DEF Calling
      <4>4. QED
        BY <2>1, <4>1, <4>2, <4>3, FiguresStay
    <3>5. QED
      BY <3>3, <3>4
  <2>3. CASE \E r \in Request : DeskWrite(r)
    <3>1. PICK r \in Request : DeskWrite(r)
      BY <2>3
    <3>2. PICK w \in DeskReq \cup IdleReq :
               /\ Becomes(r, w) /\ Continues(r, w) /\ met \subseteq met' /\ req[r].op # "idle"
               /\ w.op \in {"idle", "supersede", "release", "call", "replace", "book", "follow"}
      BY <3>1, DeskWrites
    <3>3. CASE req[r].op \in Calling \cup {"edit"}
      BY <2>0, <2>1, <3>1, <3>2, <3>3, FiguresOfWrite
    <3>4. CASE req[r].op \notin Calling \cup {"edit"}
      <4>1. \A l \in Lead : SameFigures(l)
        BY <3>1, <3>4, FootprintOfWrites DEF Footprint
      <4>2. call' = call
        BY <3>1, <3>4, RowsOfWrites DEF Calling
      <4>3. w.op \notin Calling \cup {"edit"}
        BY <3>1, <3>2, <3>4, BecomesBy DEF Calling
      <4>4. \A q \in Request : req[q].op \in Calling \/ req'[q].op \in Calling \cup {"edit"} => req'[q] = req[q]
        BY <3>2, <3>4, <4>3 DEF Becomes
      <4>5. QED
        BY <2>1, <4>1, <4>2, <4>4, FiguresStay
    <3>5. QED
      BY <3>3, <3>4
  <2>4. CASE AtOnce
    <3>1. UNCHANGED <<call, req>> /\ \A l \in Lead : SameFigures(l)
      BY <2>4, AtOnceFootprint
    <3>2. QED
      BY <2>1, <3>1, FiguresStay
  <2>5. QED
    BY <1>2, <2>2, <2>3, <2>4, DeskCases
<1>3. QED
  BY <1>1, <1>2

-----------------------------------------------------------------------------
(* What the writes do to the follow-ups, and what a request goes on as.     *)

\* A row that is booked takes the place of a free one.
OpenRow == [lead : Lead, at : Nat \ {0}, auto : BOOLEAN, owner : Agent]
BooksRow(rows, new, f, row) == rows[f].lead = 0 /\ new = [rows EXCEPT ![f] = row]

LEMMA BookedRow ==
    ASSUME NEW rows \in [FollowUp -> FollowRec], NEW free \in FollowUp, rows[free].lead = 0,
           NEW l \in Lead, NEW at \in Nat \ {0}, NEW auto \in BOOLEAN, NEW owner \in Agent,
           NEW new, new = Booked(rows, l, at, auto, owner)
    PROVE  \E f \in FollowUp, row \in OpenRow :
              BooksRow(rows, new, f, row) /\ row = [lead |-> l, at |-> at, auto |-> auto, owner |-> owner]
<1> DEFINE S == {f \in FollowUp : rows[f].lead = 0}
<1>1. S \in SUBSET Nat /\ S # {}
  BY DeskConstants
<1>2. Min(S) \in S
  <2> HIDE DEF S
  <2>1. QED
    BY <1>1, MinIn
<1>3. PICK f \in S : f = Min(S)
  BY <1>2
<1>4. PICK row \in OpenRow : row = [lead |-> l, at |-> at, auto |-> auto, owner |-> owner]
  BY DEF OpenRow
<1>5. new = [rows EXCEPT ![f] = row]
  BY <1>3, <1>4 DEF Booked
<1>6. QED
  BY <1>4, <1>5 DEF BooksRow

BooksRetry(w) == ~Closes(w) /\ w.at = 0 /\ w.d.retry # 0

\* What becomes of the follow-ups in each write.
LEMMA RowsOfWrite ==
    ASSUME TypeInv, NEW r \in Request, DeskWrite(r), ~crashed', NEW v, v = req[r]
    PROVE  /\ v.op = "schedule" => \E f \in FollowUp, row \in OpenRow :
                 /\ BooksRow(followup, followup', f, row)
                 /\ row.lead = v.lead /\ row.at = v.at /\ ~row.auto /\ row.owner = v.owner
           /\ v.op = "supersede" => followup' = Without(followup, AutoOf(followup, v.lead))
           /\ v.op = "complete" => followup' = followup \/ followup' = Without(followup, {v.row})
           /\ v.op = "replace" => \/ followup' = followup /\ ~BooksRetry(v)
                                  \/ followup' = Without(followup, AutoOf(followup, v.lead))
           /\ v.op = "book" =>
                 \/ followup' = followup
                 \/ \E f \in FollowUp, row \in OpenRow :
                       /\ BooksRow(followup, followup', f, row)
                       /\ row.lead = v.lead /\ row.owner = v.owner /\ (row.auto => BooksRetry(v))
           /\ v.op \in {"assign", "follow"} => followup' = FollowingOwner(followup, v.leads)
<1>0. followup \in [FollowUp -> FollowRec] /\ clock \in Nat \ {0}
  BY DeskVariables
<1>1. ASSUME v.op = "schedule" PROVE
                 \E f \in FollowUp, row \in OpenRow :
                    /\ BooksRow(followup, followup', f, row)
                    /\ row.lead = v.lead /\ row.at = v.at /\ ~row.auto /\ row.owner = v.owner
  <2>1. ScheduleWrite(r) /\ v \in ScheduleReq
    BY <1>1, WhichWrite, DeskFields, DeskKind DEF DeskKinds, DeskOps
  <2>2. PICK free \in FollowUp : followup[free].lead = 0
    BY <2>1 DEF ScheduleWrite, Room
  <2>3. PICK l \in Lead, at \in Nat \ {0}, auto \in BOOLEAN, owner \in Agent :
             l = v.lead /\ at = v.at /\ auto = FALSE /\ owner = v.owner
    BY <2>1 DEF ScheduleReq
  <2>4. followup' = Booked(followup, l, at, auto, owner)
    BY <2>1, <2>3 DEF ScheduleWrite
  <2>5. PICK f \in FollowUp, row \in OpenRow :
             BooksRow(followup, followup', f, row) /\ row = [lead |-> l, at |-> at, auto |-> auto, owner |-> owner]
    BY <1>0, <2>2, <2>4, BookedRow
  <2>6. QED
    BY <2>3, <2>5
<1>2. ASSUME v.op = "supersede" PROVE followup' = Without(followup, AutoOf(followup, v.lead))
  BY <1>2, WhichWrite DEF Supersede
<1>3. ASSUME v.op = "complete" PROVE followup' = followup \/ followup' = Without(followup, {v.row})
  BY <1>3, WhichWrite DEF CompleteWrite
<1>4. ASSUME v.op = "replace" PROVE \/ followup' = followup /\ ~BooksRetry(v)
                                    \/ followup' = Without(followup, AutoOf(followup, v.lead))
  <2>1. followup' = Replaced(followup, v)
    BY <1>4, WhichWrite DEF OutcomeReplace
  <2>2. QED
    BY <2>1 DEF Replaced, BooksRetry
<1>5. ASSUME v.op = "book" PROVE
                 \/ followup' = followup
                 \/ \E f \in FollowUp, row \in OpenRow :
                       /\ BooksRow(followup, followup', f, row)
                       /\ row.lead = v.lead /\ row.owner = v.owner /\ (row.auto => BooksRetry(v))
  <2>1. OutcomeBook(r) /\ v \in OutcomeReq
    BY <1>5, WhichWrite, DeskFields, DeskKind DEF DeskKinds
  <2>2. PICK free \in FollowUp : followup[free].lead = 0
    BY <2>1 DEF OutcomeBook, Room
  <2>3. followup' = CASE ~Closes(v) /\ v.at # 0 -> Booked(followup, v.lead, v.at, FALSE, v.owner)
                      [] ~Closes(v) /\ v.at = 0 /\ v.d.retry # 0 ->
                            Booked(followup, v.lead, clock + v.d.retry, TRUE, v.owner)
                      [] OTHER -> followup
    BY <2>1 DEF OutcomeBook
  <2>4. v.at \in Nat /\ v.d.retry \in Nat
    BY <2>1 DEF OutcomeReq, DispositionRec
  <2>5. PICK l \in Lead, owner \in Agent : l = v.lead /\ owner = v.owner
    BY <2>1 DEF OutcomeReq
  <2>6. ASSUME NEW at \in Nat \ {0}, NEW auto \in BOOLEAN, followup' = Booked(followup, l, at, auto, owner)
        PROVE  \E f \in FollowUp, row \in OpenRow :
                  BooksRow(followup, followup', f, row) /\ row.lead = v.lead /\ row.owner = v.owner /\ (row.auto => auto)
    <3>1. PICK f \in FollowUp, row \in OpenRow :
               BooksRow(followup, followup', f, row) /\ row = [lead |-> l, at |-> at, auto |-> auto, owner |-> owner]
      BY <1>0, <2>2, <2>6, BookedRow
    <3>2. QED
      BY <2>5, <3>1
  <2>7. CASE ~Closes(v) /\ v.at # 0
    <3>1. PICK at \in Nat \ {0}, auto \in BOOLEAN : at = v.at /\ auto = FALSE
      BY <2>4, <2>7
    <3>2. followup' = Booked(followup, l, at, auto, owner)
      BY <2>3, <2>5, <2>7, <3>1
    <3>3. QED
      BY <2>6, <3>1, <3>2
  <2>8. CASE ~Closes(v) /\ v.at = 0 /\ v.d.retry # 0
    <3>1. PICK at \in Nat \ {0} : at = clock + v.d.retry
      BY <1>0, <2>4
    <3>2. PICK auto \in BOOLEAN : auto = TRUE
      OBVIOUS
    <3>3. followup' = Booked(followup, l, at, auto, owner)
      BY <2>3, <2>5, <2>8, <3>1, <3>2
    <3>4. BooksRetry(v)
      BY <2>8 DEF BooksRetry
    <3>5. QED
      BY <2>6, <3>3, <3>4
  <2>9. QED
    BY <2>3, <2>7, <2>8
<1>6. ASSUME v.op \in {"assign", "follow"} PROVE followup' = FollowingOwner(followup, v.leads)
  BY <1>6, WhichWrite DEF FollowOwner
<1>7. QED
  BY <1>1, <1>2, <1>3, <1>4, <1>5, <1>6

\* What a request goes on as.
LEMMA GoesOnAs ==
    ASSUME TypeInv, NEW r \in Request, DeskWrite(r), NEW v, v = req[r], NEW w, w = req'[r], w.op # "idle"
    PROVE  \/ v.op = "schedule" /\ w = [v EXCEPT !.op = "supersede"] /\ w.op = "supersede"
           \/ v.op = "release" /\ w.op = "release"
           \/ v.op = "click" /\ w.op = "call" /\ ClickDials(r)
           \/ v.op \in {"call", "outcome"} /\ w = [v EXCEPT !.op = "replace"] /\ w.op = "replace"
           \/ v.op = "replace" /\ w = [v EXCEPT !.op = "book"] /\ w.op = "book"
           \/ v.op = "edit" /\ w = [op |-> "follow", leads |-> {v.lead}]
<1>0. req \in [Request -> AnyReq]
  BY DeskVariables
<1>1. ~End(r)
  BY <1>0 DEF End, Idle
<1>2. v.op \in DeskKinds => v \in DeskReq
  BY DeskFields
<1>3. CASE ScheduleWrite(r)
  <2>1. v.op = "schedule" /\ w = [v EXCEPT !.op = "supersede"]
    BY <1>0, <1>3 DEF ScheduleWrite
  <2>2. v \in ScheduleReq
    BY <1>2, <2>1, DeskKind DEF DeskKinds, DeskOps
  <2>3. w.op = "supersede"
    BY <2>1, <2>2 DEF ScheduleReq
  <2>4. QED
    BY <2>1, <2>3
<1>4. CASE ReleaseDialed(r)
  <2>1. v.op = "release" /\ w = [v EXCEPT !.how = "return"]
    BY <1>0, <1>4 DEF ReleaseDialed
  <2>2. QED
    BY <2>1
<1>5. CASE ClickDials(r)
  <2>1. v.op = "click" /\ w = Applying("call", v.call, call, NoOutcome, FALSE, 0)
    BY <1>0, <1>5 DEF ClickDials
  <2>2. QED
    BY <1>5, <2>1 DEF Applying
<1>6. CASE OutcomeSave(r)
  <2>1. v.op \in {"call", "outcome"} /\ w = [v EXCEPT !.op = "replace"]
    BY <1>0, <1>1, <1>6 DEF OutcomeSave
  <2>2. v \in OutcomeReq
    BY <1>2, <2>1, DeskKind DEF DeskKinds, DeskOps
  <2>3. w.op = "replace"
    BY <2>1, <2>2 DEF OutcomeReq
  <2>4. QED
    BY <2>1, <2>3
<1>7. CASE OutcomeReplace(r)
  <2>1. v.op = "replace" /\ w = [v EXCEPT !.op = "book"]
    BY <1>0, <1>7 DEF OutcomeReplace
  <2>2. v \in OutcomeReq
    BY <1>2, <2>1, DeskKind DEF DeskKinds, DeskOps
  <2>3. w.op = "book"
    BY <2>1, <2>2 DEF OutcomeReq
  <2>4. QED
    BY <2>1, <2>3
<1>8. CASE EditWrite(r)
  BY <1>0, <1>1, <1>8 DEF EditWrite, Follow
<1>9. QED
  BY <1>1, <1>3, <1>4, <1>5, <1>6, <1>7, <1>8
     DEF DeskWrite, Supersede, CompleteWrite, PullCommit, ReleaseWrite, ClickFails, OutcomeBook, StatusWrite, FollowOwner,
         ApplyPlan, Crash

-----------------------------------------------------------------------------
(* The open follow-ups of a lead, before and after.                         *)

LEMMA BookedOpen ==
    ASSUME NEW rows \in [FollowUp -> FollowRec], NEW new, NEW f \in FollowUp, NEW row \in OpenRow,
           BooksRow(rows, new, f, row), NEW k \in Lead
    PROVE  /\ OpenOf(new, k) = IF k = row.lead THEN OpenOf(rows, k) \cup {f} ELSE OpenOf(rows, k)
           /\ AutoOf(new, k) \subseteq AutoOf(rows, k) \cup {f}
           /\ k # row.lead \/ ~row.auto => AutoOf(new, k) = AutoOf(rows, k)
           /\ new[f] = row /\ \A g \in FollowUp \ {f} : new[g] = rows[g]
           /\ f \notin OpenOf(rows, k)
<1>1. new[f] = row /\ rows[f].lead = 0 /\ 0 \notin Lead /\ \A g \in FollowUp \ {f} : new[g] = rows[g]
  BY DeskConstants DEF BooksRow
<1>2. f \notin OpenOf(rows, k)
  BY <1>1 DEF OpenOf
<1>3. OpenOf(new, k) = IF k = row.lead THEN OpenOf(rows, k) \cup {f} ELSE OpenOf(rows, k)
  BY <1>1 DEF OpenOf
<1>4. \A g \in FollowUp : g \in AutoOf(new, k) => g \in AutoOf(rows, k) \/ (g = f /\ k = row.lead /\ row.auto)
  BY <1>1 DEF OpenOf, AutoOf
<1>5. AutoOf(rows, k) \subseteq AutoOf(new, k) /\ AutoOf(new, k) \subseteq FollowUp
  BY <1>1 DEF OpenOf, AutoOf
<1>6. QED
  BY <1>1, <1>2, <1>3, <1>4, <1>5

LEMMA WithoutOpen ==
    ASSUME NEW rows, NEW fs, NEW new, new = Without(rows, fs), NEW k \in Lead
    PROVE  /\ OpenOf(new, k) = OpenOf(rows, k) \ fs
           /\ AutoOf(new, k) = AutoOf(rows, k) \ fs
           /\ \A f \in FollowUp : new[f] = IF f \in fs THEN NoFollow ELSE rows[f]
<1>1. \A f \in FollowUp : new[f] = IF f \in fs THEN NoFollow ELSE rows[f]
  BY DEF Without
<1>2. NoFollow.lead = 0 /\ 0 \notin Lead
  BY DeskConstants DEF NoFollow
<1>3. QED
  BY <1>1, <1>2 DEF OpenOf, AutoOf

\* Rows that change hands only.
SameBookings(rows, new) ==
    \A f \in FollowUp : new[f].lead = rows[f].lead /\ new[f].at = rows[f].at /\ new[f].auto = rows[f].auto
LEMMA SameOpen ==
    ASSUME NEW rows, NEW new, SameBookings(rows, new), NEW k
    PROVE  OpenOf(new, k) = OpenOf(rows, k) /\ AutoOf(new, k) = AutoOf(rows, k)
BY DEF SameBookings, OpenOf, AutoOf

LEMMA SameEarliest ==
    ASSUME NEW rows, NEW new, NEW k, OpenOf(new, k) = OpenOf(rows, k), \A f \in OpenOf(rows, k) : new[f].at = rows[f].at
    PROVE  Earliest(new, k) = Earliest(rows, k)
<1>1. PICK of : of = OpenOf(rows, k)
  OBVIOUS
<1>2. PICK S : S = {rows[f].at : f \in of}
  OBVIOUS
<1>3. PICK T : T = {new[f].at : f \in of}
  OBVIOUS
<1>4. T = S
  BY <1>1, <1>2, <1>3
<1>5. Earliest(new, k) = IF of = {} THEN 0 ELSE Min(T)
  BY <1>1, <1>3 DEF Earliest
<1>6. Earliest(rows, k) = IF of = {} THEN 0 ELSE Min(S)
  BY <1>1, <1>2 DEF Earliest
<1>7. QED
  BY <1>4, <1>5, <1>6

LEMMA EarliestOf ==
    ASSUME NEW rows \in [FollowUp -> FollowRec], NEW l \in Lead
    PROVE  /\ Earliest(rows, l) \in Nat
           /\ OpenOf(rows, l) = {} => Earliest(rows, l) = 0
           /\ OpenOf(rows, l) # {} =>
                 /\ \E f \in OpenOf(rows, l) : rows[f].at = Earliest(rows, l)
                 /\ \A f \in OpenOf(rows, l) : Earliest(rows, l) <= rows[f].at
           /\ \A f \in OpenOf(rows, l) : f \in FollowUp /\ rows[f].at \in Nat \ {0}
<1>1. \A f \in OpenOf(rows, l) : f \in FollowUp /\ rows[f].at \in Nat \ {0}
  <2>1. SUFFICES ASSUME NEW f \in FollowUp, rows[f].lead = l PROVE rows[f].at \in Nat \ {0}
    BY DEF OpenOf
  <2>2. 0 \notin Lead
    BY DeskConstants
  <2>3. rows[f] # NoFollow
    BY <2>1, <2>2 DEF NoFollow
  <2>4. QED
    BY <2>1, <2>3 DEF FollowRec
<1>2. PICK of : of = OpenOf(rows, l)
  OBVIOUS
<1>3. PICK S : S = {rows[f].at : f \in of}
  OBVIOUS
<1>4. Earliest(rows, l) = IF of = {} THEN 0 ELSE Min(S)
  BY <1>2, <1>3 DEF Earliest
<1>5. S \in SUBSET Nat
  BY <1>1, <1>2, <1>3
<1>6. CASE of = {}
  BY <1>1, <1>2, <1>4, <1>6
<1>7. CASE of # {}
  <2>1. S # {}
    BY <1>3, <1>7
  <2>2. Min(S) \in S /\ \A y \in S : Min(S) <= y
    BY <1>5, <2>1, MinIn
  <2>3. PICK f \in of : rows[f].at = Min(S)
    BY <1>3, <2>2
  <2>4. \A g \in of : Min(S) <= rows[g].at
    BY <1>3, <2>2
  <2>5. QED
    BY <1>1, <1>2, <1>4, <1>5, <1>7, <2>2, <2>3, <2>4
<1>8. QED
  BY <1>6, <1>7

LEMMA FollowingRows ==
    ASSUME NEW rows \in [FollowUp -> FollowRec], NEW ls \in SUBSET Lead, NEW new, new = FollowingOwner(rows, ls),
           NEW f \in FollowUp
    PROVE  /\ new[f].lead = rows[f].lead /\ new[f].at = rows[f].at /\ new[f].auto = rows[f].auto
           /\ new[f].owner = IF rows[f].lead \in ls /\ lead[rows[f].lead].owner # Nobody
                             THEN lead[rows[f].lead].owner ELSE rows[f].owner
<1>1. PICK row : row = rows[f]
  OBVIOUS
<1>2. new[f] = IF row.lead \in ls /\ lead[row.lead].owner # Nobody
               THEN [row EXCEPT !.owner = lead[row.lead].owner] ELSE row
  BY <1>1 DEF FollowingOwner
<1>3. row \in [lead : Lead, at : Nat \ {0}, auto : BOOLEAN, owner : Agent] \/ row = NoFollow
  BY <1>1 DEF FollowRec
<1>4. QED
  BY <1>1, <1>2, <1>3 DEF NoFollow

\* The writes that book nothing and take nothing off.
Bookers == {"schedule", "supersede", "complete", "replace", "book"}
LEMMA BookingsStay ==
    ASSUME TypeInv, NEW r \in Request, DeskWrite(r), ~crashed', req[r].op \notin Bookers
    PROVE  SameBookings(followup, followup')
<1>0. followup \in [FollowUp -> FollowRec]
  BY DeskVariables
<1>1. CASE req[r].op \in {"assign", "follow"}
  <2>1. followup' = FollowingOwner(followup, req[r].leads)
    BY <1>1, RowsOfWrite
  <2>2. req[r].leads \in SUBSET Lead
    BY <1>1, DeskFields, DeskKind DEF DeskKinds, DeskOps, FollowReq
  <2>3. PICK new : new = followup'
    OBVIOUS
  <2>4. QED
    BY <1>0, <2>1, <2>2, <2>3, FollowingRows DEF SameBookings
<1>2. CASE req[r].op = "distribute"
  <2>1. PICK placed, owner : followup' = [f \in FollowUp |-> IF followup[f].lead \in placed
                                             THEN [followup[f] EXCEPT !.owner = owner[f]] ELSE followup[f]]
    <3>1. PICK placed : placed = {l \in Lead : PlannedOwner(req[r], l) # Nobody}
      OBVIOUS
    <3>2. PICK owner : owner = [f \in FollowUp |-> IF followup[f].lead \in placed THEN PlannedOwner(req[r], followup[f].lead)
                                                   ELSE lead[followup[f].lead].owner]
      OBVIOUS
    <3>3. ApplyPlan(r)
      BY <1>2, WhichWrite
    <3>4. followup' = [f \in FollowUp |-> IF followup[f].lead \in placed
                                          THEN [followup[f] EXCEPT !.owner = owner[f]] ELSE followup[f]]
      BY <3>1, <3>2, <3>3 DEF ApplyPlan
    <3>5. QED
      BY <3>4
  <2>2. ASSUME NEW f \in FollowUp
        PROVE  followup'[f].lead = followup[f].lead /\ followup'[f].at = followup[f].at /\ followup'[f].auto = followup[f].auto
    <3>1. PICK row : row = followup[f]
      OBVIOUS
    <3>2. row \in [lead : Lead, at : Nat \ {0}, auto : BOOLEAN, owner : Agent] \/ row = NoFollow
      BY <1>0, <3>1 DEF FollowRec
    <3>3. followup'[f] = row \/ followup'[f] = [row EXCEPT !.owner = owner[f]]
      BY <2>1, <3>1
    <3>4. QED
      BY <3>1, <3>2, <3>3 DEF NoFollow
  <2>3. QED
    BY <2>2 DEF SameBookings
<1>3. CASE req[r].op \notin {"assign", "follow", "distribute"}
  BY <1>3, RowsOfWrites DEF Bookers, SameBookings
<1>4. QED
  BY <1>1, <1>2, <1>3

-----------------------------------------------------------------------------
(* At most one automatic follow-up of a lead; a call that is about to book  *)
(* its retry has taken the automatic ones off.                              *)

AutoMet == Met(Booking, Booking)
BookFine(w) == w.op = "book" /\ BooksRetry(w) => AutoOf(followup, w.lead) = {}
AutoFine == (\A l \in Lead : Single(AutoOf(followup, l))) /\ \A r \in Request : BookFine(req[r])
AutoInv == crashed \/ AutoMet \/ AutoFine

LEMMA BookingOrigins == \A op \in Booking : op \in DeskKinds /\ Origin(op) \subseteq Booking
BY DEF Booking, DeskKinds, DeskOps, Origin

\* A request that books is the only one that does.
BooksAlone == \A p, q \in Request : p # q /\ req[p].op \in Booking => req[q].op \notin Booking
LEMMA OneBooks == MeetInv /\ ~AutoMet => BooksAlone
<1> SUFFICES ASSUME MeetInv, NEW p \in Request, NEW q \in Request, p # q, req[p].op \in Booking, req[q].op \in Booking
             PROVE  AutoMet
  BY DEF BooksAlone
<1>1. QED
  BY BookingOrigins, TwoMet DEF AutoMet

LEMMA AutoStays ==
    ASSUME AutoFine, TypeInv, \A l \in Lead : AutoOf(followup', l) \subseteq AutoOf(followup, l),
           \A q \in Request : req'[q].op = "book" => req'[q] = req[q]
    PROVE  AutoFine'
<1>1. \A l \in Lead : Single(AutoOf(followup', l))
  BY DEF AutoFine, Single
<1>2. ASSUME NEW q \in Request, req'[q].op = "book", BooksRetry(req'[q]) PROVE AutoOf(followup', req'[q].lead) = {}
  <2>1. PICK w : w = req'[q]
    OBVIOUS
  <2>2. w = req[q] /\ w.op = "book" /\ BooksRetry(w)
    BY <1>2, <2>1
  <2>3. w.lead \in Lead
    BY <2>2, DeskFields, DeskKind DEF DeskKinds, OutcomeReq
  <2>4. AutoOf(followup, w.lead) = {}
    BY <2>2 DEF AutoFine, BookFine
  <2>5. QED
    BY <2>1, <2>3, <2>4
<1>3. QED
  BY <1>1, <1>2 DEF AutoFine, BookFine

LEMMA AutoOfWrite ==
    ASSUME TypeInv, BooksAlone, AutoFine, NEW r \in Request, DeskWrite(r), ~crashed', NEW w, Becomes(r, w)
    PROVE  AutoFine'
<1>0. followup \in [FollowUp -> FollowRec]
  BY DeskVariables
<1>1. PICK v : v = req[r]
  OBVIOUS
<1>2. req'[r] = w /\ \A q \in Request \ {r} : req'[q] = req[q]
  BY DEF Becomes
<1>3. v.op # "idle" => /\ v.op \in {"schedule", "supersede"} => v \in ScheduleReq
                       /\ v.op \in {"replace", "book"} => v \in OutcomeReq
  BY <1>1, DeskFields, DeskKind DEF DeskKinds, DeskOps
<1>4. w.op = "book" => v.op = "replace" /\ w = [v EXCEPT !.op = "book"]
  BY <1>1, <1>2, GoesOnAs
<1>5. PICK new : new = followup'
  OBVIOUS
<1>6. CASE v.op \notin {"replace", "book"}
  <2>1. ASSUME NEW l \in Lead PROVE AutoOf(new, l) \subseteq AutoOf(followup, l)
    <3>1. CASE v.op \notin Bookers
      BY <1>1, <1>5, <3>1, BookingsStay, SameOpen
    <3>2. CASE v.op = "schedule"
      <4>1. PICK f \in FollowUp, row \in OpenRow : BooksRow(followup, new, f, row) /\ ~row.auto
        BY <1>1, <1>5, <3>2, RowsOfWrite
      <4>2. QED
        BY <1>0, <4>1, BookedOpen
    <3>3. CASE v.op \in {"supersede", "complete"}
      <4>1. new = followup \/ \E fs : new = Without(followup, fs)
        BY <1>1, <1>5, <3>3, RowsOfWrite
      <4>2. QED
        BY <4>1, WithoutOpen
    <3>4. QED
      BY <1>6, <3>1, <3>2, <3>3 DEF Bookers
  <2>2. \A q \in Request : req'[q].op = "book" => req'[q] = req[q]
    BY <1>2, <1>4, <1>6
  <2>3. QED
    BY <1>5, <2>1, <2>2, AutoStays
<1>7. ASSUME v.op \in {"replace", "book"} PROVE \A q \in Request \ {r} : req'[q].op # "book"
  BY <1>1, <1>2, <1>7 DEF BooksAlone, Booking
<1>8. CASE v.op = "replace"
  <2>0. v \in OutcomeReq
    BY <1>3, <1>8
  <2>1. \/ new = followup /\ ~BooksRetry(v)
        \/ new = Without(followup, AutoOf(followup, v.lead))
    BY <1>1, <1>5, <1>8, RowsOfWrite
  <2>2. ASSUME NEW l \in Lead PROVE AutoOf(new, l) \subseteq AutoOf(followup, l)
    BY <2>1, WithoutOpen
  <2>3. BooksRetry(v) => AutoOf(new, v.lead) = {}
    <3>1. v.lead \in Lead
      BY <2>0 DEF OutcomeReq
    <3>2. new = Without(followup, AutoOf(followup, v.lead)) => AutoOf(new, v.lead) = AutoOf(followup, v.lead) \ AutoOf(followup, v.lead)
      BY <3>1, WithoutOpen
    <3>3. QED
      BY <2>1, <3>2
  <2>4. w.op = "book" => w.lead = v.lead /\ (BooksRetry(w) => BooksRetry(v))
    BY <1>4, <2>0 DEF BooksRetry, Closes, OutcomeReq
  <2>5. \A l \in Lead : Single(AutoOf(new, l))
    BY <2>2 DEF AutoFine, Single
  <2>6. w.op = "book" /\ BooksRetry(w) => AutoOf(new, w.lead) = {}
    BY <2>3, <2>4
  <2>7. \A q \in Request : BookFine(req[q])'
    <3> SUFFICES ASSUME NEW q \in Request, req'[q].op = "book" PROVE BookFine(req[q])'
      BY DEF BookFine
    <3>1. req'[q] = w
      BY <1>2, <1>7, <1>8
    <3>2. QED
      BY <1>5, <2>6, <3>1 DEF BookFine
  <2>8. QED
    BY <1>5, <2>5, <2>7 DEF AutoFine
<1>9. CASE v.op = "book"
  <2>0. v \in OutcomeReq /\ v.lead \in Lead
    BY <1>3, <1>9 DEF OutcomeReq
  <2>1. \A q \in Request : req'[q].op # "book"
    BY <1>2, <1>4, <1>7, <1>9
  <2>2. ASSUME NEW l \in Lead PROVE Single(AutoOf(new, l))
    <3>1. CASE new = followup
      BY <3>1 DEF AutoFine
    <3>2. ASSUME NEW f \in FollowUp, NEW row \in OpenRow, BooksRow(followup, new, f, row), row.lead = v.lead,
                 row.auto => BooksRetry(v)
          PROVE  Single(AutoOf(new, l))
      <4>1. /\ AutoOf(new, l) \subseteq AutoOf(followup, l) \cup {f}
            /\ l # row.lead \/ ~row.auto => AutoOf(new, l) = AutoOf(followup, l)
        BY <1>0, <3>2, BookedOpen
      <4>2. row.auto => AutoOf(followup, row.lead) = {}
        BY <1>1, <1>9, <3>2 DEF AutoFine, BookFine
      <4>3. Single(AutoOf(followup, l))
        BY DEF AutoFine
      <4>4. QED
        BY <4>1, <4>2, <4>3 DEF Single
    <3>3. QED
      BY <1>1, <1>5, <1>9, <3>1, <3>2, RowsOfWrite
  <2>3. QED
    BY <1>5, <2>1, <2>2 DEF AutoFine, BookFine
<1>10. QED
  BY <1>6, <1>8, <1>9

\* Every step of the desk leaves met at least as it was.
LEMMA MetGrows == ASSUME TypeInv, DeskNext PROVE met \subseteq met'
<1>1. CASE \E r \in Request : DeskLoad(r)
  BY <1>1, DeskLoads DEF Begun
<1>2. CASE \E r \in Request : DeskWrite(r)
  BY <1>2, DeskWrites
<1>3. CASE AtOnce
  BY <1>3, AtOnceFootprint
<1>4. QED
  BY <1>1, <1>2, <1>3, DeskCases

LEMMA AutoKept ==
    ASSUME TypeInv, TypeInv', MeetInv, AutoInv, [Next]_vars
    PROVE  AutoInv'
<1>1. CASE ~(DeskNext /\ DeskFrame)
  <2>1. Still
    BY <1>1, OthersStill
  <2>2. SUFFICES ASSUME AutoFine PROVE AutoFine'
    BY <2>1, StillMet DEF Still, AutoInv, AutoMet
  <2>3. \A q \in Request : req'[q].op = "book" => req'[q] = req[q]
    BY <2>1 DEF Still, DeskKinds
  <2>4. QED
    BY <2>1, <2>2, <2>3, AutoStays DEF Still
<1>2. CASE DeskNext
  <2>0. SUFFICES ASSUME met \subseteq met', ~crashed', ~AutoMet' PROVE AutoFine'
    BY <1>2, MetGrows DEF AutoInv
  <2>1. BooksAlone /\ AutoFine
    <3>1. ~AutoMet /\ ~crashed
      BY <1>2, <2>0, StillMet, NoneRecovers DEF AutoMet
    <3>2. QED
      BY <3>1, OneBooks DEF AutoInv
  <2>2. CASE \E r \in Request : DeskLoad(r)
    <3>1. PICK r \in Request : DeskLoad(r)
      BY <2>2
    <3>2. PICK w \in DeskReq : Begun(r, w) /\ Loaded(w)
      BY <3>1, DeskLoads
    <3>3. followup' = followup /\ w.op # "book" /\ req'[r] = w /\ \A q \in Request \ {r} : req'[q] = req[q]
      BY <3>2 DEF Loaded, Begun, Becomes
    <3>4. QED
      BY <2>1, <3>3, AutoStays
  <2>3. CASE \E r \in Request : DeskWrite(r)
    <3>1. PICK r \in Request : DeskWrite(r)
      BY <2>3
    <3>2. PICK w : Becomes(r, w)
      BY <3>1, DeskWrites
    <3>3. QED
      BY <2>0, <2>1, <3>1, <3>2, AutoOfWrite
  <2>4. CASE AtOnce
    BY <2>1, <2>4, AtOnceFootprint, AutoStays
  <2>5. QED
    BY <1>2, <2>2, <2>3, <2>4, DeskCases
<1>3. QED
  BY <1>1, <1>2

-----------------------------------------------------------------------------
(* The next follow-up is the earliest open one, unless a call is about to   *)
(* book; what was the next one when a request loaded the lead still is.     *)

NextMet == Met(Booking, Booking \cup {"edit"})
Books(r, l) == req[r].op = "book" /\ req[r].lead = l
NextFits(l) == (\E r \in Request : Books(r, l)) \/ lead[l].next = Earliest(followup, l)
Scheduled(w) ==
    /\ \E f \in OpenOf(followup, w.lead) \ AutoOf(followup, w.lead) : followup[f].at = w.at
    /\ w.seen \in 1..w.at => lead[w.lead].next = w.seen
NextSeen(w) ==
    /\ w.op \in {"schedule", "complete"} => w.seen = lead[w.lead].next
    /\ w.op \in {"call", "outcome", "replace", "book"} => w.copy.next = lead[w.lead].next
    /\ w.op = "edit" => w.row.next = lead[w.lead].next
    /\ w.op = "supersede" => Scheduled(w)
NextFine == (\A l \in Lead : NextFits(l)) /\ \A r \in Request : NextSeen(req[r])
NextInv == crashed \/ NextMet \/ NextFine

BooksAndEditsAlone == \A p, q \in Request : p # q /\ req[p].op \in Booking => req[q].op \notin Booking \cup {"edit"}
LEMMA OneBooksOrEdits == MeetInv /\ ~NextMet => BooksAndEditsAlone
<1> SUFFICES ASSUME MeetInv, NEW p \in Request, NEW q \in Request, p # q, req[p].op \in Booking,
                    req[q].op \in Booking \cup {"edit"}
             PROVE  NextMet
  BY DEF BooksAndEditsAlone
<1>1. req[q].op \in DeskKinds /\ Origin(req[q].op) \subseteq Booking \cup {"edit"}
  BY BookingOrigins, Originals
<1>2. QED
  BY <1>1, BookingOrigins, TwoMet DEF NextMet

\* The lead a request has loaded.
LEMMA LoadedLead ==
    ASSUME NEW w \in DeskReq, w.op \in Booking \cup {"edit"}
    PROVE  w.lead \in Lead
BY DeskKind DEF Booking, ScheduleReq, CompleteReq, OutcomeReq, EditReq

\* The next follow-up and the open ones stay; each request stays, or begins
\* with what there is.
LEMMA NextStays ==
    ASSUME TypeInv, NextFine, \A l \in Lead : SameNext(l), SameBookings(followup, followup'),
           \A q \in Request : req'[q] = req[q] \/ (req[q].op # "book" /\ NextSeen(req[q])')
    PROVE  NextFine'
<1>1. ASSUME NEW l \in Lead PROVE NextFits(l)'
  <2>1. CASE \E q \in Request : Books(q, l)
    BY <2>1 DEF NextFits, Books
  <2>2. CASE lead[l].next = Earliest(followup, l)
    <3>1. PICK new : new = followup'
      OBVIOUS
    <3>2. \A f \in OpenOf(followup, l) : new[f].at = followup[f].at
      BY <3>1 DEF SameBookings, OpenOf
    <3>3. OpenOf(new, l) = OpenOf(followup, l)
      BY <3>1, SameOpen
    <3>4. Earliest(new, l) = Earliest(followup, l)
      BY <3>2, <3>3, SameEarliest
    <3>5. QED
      BY <2>2, <3>1, <3>4 DEF NextFits, SameNext
  <2>3. QED
    BY <2>1, <2>2 DEF NextFine, NextFits
<1>2. ASSUME NEW q \in Request, req'[q] = req[q] PROVE NextSeen(req[q])'
  <2>1. PICK w : w = req[q]
    OBVIOUS
  <2>2. SUFFICES ASSUME w.op \in Booking \cup {"edit"} PROVE NextSeen(w)'
    <3>1. w.op \notin Booking \cup {"edit"} => NextSeen(w)'
      BY DEF NextSeen, Booking
    <3>2. NextSeen(w)' => NextSeen(req[q])'
      BY <1>2, <2>1 DEF NextSeen, Scheduled
    <3>3. QED
      BY <3>1, <3>2
  <2>3. w.lead \in Lead /\ NextSeen(w)
    BY <2>1, <2>2, DeskFields, LoadedLead DEF NextFine, Booking, DeskKinds, DeskOps
  <2>4. PICK l \in Lead : l = w.lead
    BY <2>3
  <2>5. lead'[l].next = lead[l].next
    BY DEF SameNext
  <2>6. Scheduled(w) => Scheduled(w)'
    <3>1. OpenOf(followup', l) = OpenOf(followup, l) /\ AutoOf(followup', l) = AutoOf(followup, l)
      BY SameOpen
    <3>2. \A f \in OpenOf(followup, l) : followup'[f].at = followup[f].at
      BY DEF SameBookings, OpenOf
    <3>3. QED
      BY <2>4, <2>5, <3>1, <3>2 DEF Scheduled
  <2>7. QED
    BY <2>3, <2>4, <2>5, <2>6 DEF NextSeen
<1>3. \A q \in Request : NextSeen(req[q])'
  BY <1>2
<1>4. QED
  BY <1>1, <1>3 DEF NextFine

LEMMA NextOfLoad ==
    ASSUME TypeInv, TypeInv', NextFine, NEW r \in Request, NEW w \in DeskReq, Begun(r, w), Loaded(w)
    PROVE  NextFine'
<1>0. /\ lead \in [Lead -> LeadRec] /\ call' \in [Call -> CallRec]
      /\ req'[r] = w /\ req[r].op = "idle" /\ (\A q \in Request \ {r} : req'[q] = req[q])
      /\ followup' = followup
  BY DeskVariables DEF TypeInv, DeskTypes, Begun, Becomes, Free, Loaded
<1>1. \A l \in Lead : SameNext(l)
  <2>1. CASE w.op = "assign"
    BY <1>0, <2>1 DEF Loaded, AssignLoads, SameNext, LeadRec
  <2>2. CASE w.op # "assign"
    BY <2>2 DEF Loaded, SameNext
  <2>3. QED
    BY <2>1, <2>2
<1>2. NextSeen(w)'
  <2>1. w.op \notin {"supersede", "replace", "book"}
    BY DEF Loaded
  <2>2. w.op \in {"schedule", "complete"} => w.seen = lead'[w.lead].next
    BY DEF Loaded, ScheduleLoads, CompleteLoads
  <2>3. ASSUME w.op \in {"call", "outcome"} PROVE w.copy.next = lead'[w.lead].next
    <3>1. w.lead \in Lead /\ lead' = lead /\ w.copy = Stats(lead[w.lead], call', w.lead)
      BY <2>3, LoadedLead DEF Loaded, OutcomeLoads, Booking
    <3>2. PICK calls \in [Call -> CallRec] : calls = call'
      BY <1>0
    <3>3. PICK row \in LeadRec : row = lead[w.lead]
      BY <1>0, <3>1
    <3>4. PICK l : l = w.lead
      OBVIOUS
    <3>5. w.copy = Stats(row, calls, l)
      BY <3>1, <3>2, <3>3, <3>4
    <3>6. w.copy.next = row.next
      BY <3>5, StatsKeeps
    <3>7. QED
      BY <3>1, <3>3, <3>6
  <2>4. ASSUME w.op = "edit" PROVE w.row.next = lead'[w.lead].next
    <3>1. w.lead \in Lead /\ lead' = lead /\ w.row = [lead[w.lead] EXCEPT !.owner = w.row.owner, !.st = w.row.st]
      BY <2>4, LoadedLead DEF Loaded, EditLoads
    <3>2. PICK row \in LeadRec : row = lead[w.lead]
      BY <1>0, <3>1
    <3>3. w.row = [row EXCEPT !.owner = w.row.owner, !.st = w.row.st]
      BY <3>1, <3>2
    <3>4. w.row.next = row.next
      BY <3>3 DEF LeadRec
    <3>5. QED
      BY <3>1, <3>2, <3>4
  <2>5. QED
    BY <2>1, <2>2, <2>3, <2>4 DEF NextSeen
<1>3. NextSeen(req[r])'
  BY <1>0, <1>2 DEF NextSeen, Scheduled
<1>4. SameBookings(followup, followup')
  BY <1>0 DEF SameBookings
<1>5. \A q \in Request : req'[q] = req[q] \/ (req[q].op # "book" /\ NextSeen(req[q])')
  BY <1>0, <1>3
<1>6. QED
  BY <1>1, <1>4, <1>5, NextStays

\* The writes that leave the next follow-up and the open ones alone.
LEMMA NextOfOthers ==
    ASSUME TypeInv, NextFine, NEW r \in Request, DeskWrite(r), ~crashed', NEW w, Becomes(r, w), req[r].op \notin Bookers
    PROVE  NextFine'
<1>0. lead \in [Lead -> LeadRec] /\ call \in [Call -> CallRec]
  BY DeskVariables
<1>1. PICK v : v = req[r]
  OBVIOUS
<1>2. req'[r] = w /\ (\A q \in Request \ {r} : req'[q] = req[q]) /\ NextSeen(v)
  BY <1>1 DEF Becomes, NextFine
<1>3. \A l \in Lead : SameNext(l)
  <2>1. CASE v.op = "edit"
    <3>1. EditWrite(r) /\ v.lead \in Lead
      BY <1>1, <2>1, WhichWrite, DeskFields, LoadedLead DEF DeskKinds, DeskOps
    <3>2. lead' = [lead EXCEPT ![v.lead] = v.row] /\ v.row.next = lead[v.lead].next
      BY <1>1, <1>2, <2>1, <3>1 DEF EditWrite, NextSeen
    <3>3. QED
      BY <1>0, <3>1, <3>2 DEF SameNext
  <2>2. CASE v.op # "edit"
    BY <1>1, <2>2, FootprintOfWrites DEF Footprint, Nexting, Bookers
  <2>3. QED
    BY <2>1, <2>2
<1>4. NextSeen(w)'
  <2>1. CASE w.op \in {"idle", "release", "follow"}
    BY <2>1 DEF NextSeen
  <2>2. CASE ClickDials(r)
    <3>1. w \in OutcomeReq /\ w.copy = Stats(lead[w.lead], call, w.lead) /\ lead' = lead
      BY <1>2, <2>2, DialLoads DEF ClickDials
    <3>2. PICK calls \in [Call -> CallRec] : calls = call
      BY <1>0
    <3>3. PICK l \in Lead : l = w.lead
      BY <3>1 DEF OutcomeReq
    <3>4. PICK row \in LeadRec : row = lead[l]
      BY <1>0
    <3>5. w.copy = Stats(row, calls, l)
      BY <3>1, <3>2, <3>3, <3>4
    <3>6. w.copy.next = lead'[w.lead].next
      BY <3>1, <3>3, <3>4, <3>5, StatsKeeps
    <3>7. w.op = "call"
      <4>1. w = Applying("call", req[r].call, call, NoOutcome, FALSE, 0)
        BY <1>2, <2>2, DeskVariables DEF ClickDials
      <4>2. QED
        BY <4>1 DEF Applying
    <3>8. QED
      BY <3>6, <3>7 DEF NextSeen
  <2>3. CASE v.op \in {"call", "outcome"} /\ w = [v EXCEPT !.op = "replace"] /\ w.op = "replace"
    <3>1. v \in OutcomeReq
      BY <1>1, <2>3, DeskFields, DeskKind DEF DeskKinds, DeskOps
    <3>2. w.copy = v.copy /\ w.lead = v.lead /\ v.lead \in Lead
      BY <2>3, <3>1 DEF OutcomeReq
    <3>3. w.copy.next = lead'[w.lead].next
      BY <1>2, <1>3, <2>3, <3>2 DEF NextSeen, SameNext
    <3>4. QED
      BY <2>3, <3>3 DEF NextSeen
  <2>4. QED
    <3>1. w.op # "idle" => \/ v.op = "schedule" /\ w.op = "supersede"
                           \/ v.op = "release" /\ w.op = "release"
                           \/ ClickDials(r)
                           \/ v.op \in {"call", "outcome"} /\ w = [v EXCEPT !.op = "replace"] /\ w.op = "replace"
                           \/ v.op = "replace"
                           \/ v.op = "edit" /\ w.op = "follow"
      BY <1>1, <1>2, GoesOnAs
    <3>2. v.op \notin {"schedule", "replace"}
      BY <1>1 DEF Bookers
    <3>3. QED
      BY <2>1, <2>2, <2>3, <3>1, <3>2
<1>5. NextSeen(req[r])'
  BY <1>2, <1>4 DEF NextSeen, Scheduled
<1>6. \A q \in Request : req'[q] = req[q] \/ (req[q].op # "book" /\ NextSeen(req[q])')
  BY <1>2, <1>5 DEF Bookers
<1>7. QED
  BY <1>3, <1>6, BookingsStay, NextStays

\* The writes that book or take off a follow-up of the lead l.
LEMMA NextOfLead ==
    ASSUME TypeInv, BooksAndEditsAlone, NextFine, NEW r \in Request, req[r].op \in Bookers, NEW w, Becomes(r, w),
           NEW l \in Lead, req[r].lead = l, NEW n, lead' = [lead EXCEPT ![l].next = n],
           \A k \in Lead \ {l} : OpenOf(followup', k) = OpenOf(followup, k),
           \A k \in Lead \ {l} : \A f \in OpenOf(followup, k) : followup'[f].at = followup[f].at,
           NextFits(l)', NextSeen(w)'
    PROVE  NextFine'
<1>0. lead \in [Lead -> LeadRec]
  BY DeskVariables
<1>1. req'[r] = w /\ \A q \in Request \ {r} : req'[q] = req[q] /\ req[q].op \notin Booking \cup {"edit"}
  BY DEF Becomes, BooksAndEditsAlone, Bookers, Booking
<1>2. ASSUME NEW k \in Lead \ {l} PROVE NextFits(k)'
  <2>1. lead[k].next = Earliest(followup, k)
    BY <1>1 DEF NextFine, NextFits, Books, Booking
  <2>2. PICK new : new = followup'
    OBVIOUS
  <2>3. Earliest(new, k) = Earliest(followup, k)
    BY <2>2, SameEarliest
  <2>4. lead'[k].next = lead[k].next
    BY <1>0
  <2>5. QED
    BY <2>1, <2>2, <2>3, <2>4 DEF NextFits
<1>3. ASSUME NEW q \in Request PROVE NextSeen(req[q])'
  <2>1. CASE q = r
    BY <1>1, <2>1 DEF NextSeen, Scheduled
  <2>2. CASE q # r
    BY <1>1, <2>2 DEF NextSeen, Booking
  <2>3. QED
    BY <2>1, <2>2
<1>4. QED
  BY <1>2, <1>3 DEF NextFine

LEMMA NextOfBookers ==
    ASSUME TypeInv, TypeInv', BooksAndEditsAlone, NextFine, NEW r \in Request, DeskWrite(r), ~crashed', NEW w, Becomes(r, w),
           req[r].op \in Bookers
    PROVE  NextFine'
<1>0. /\ lead \in [Lead -> LeadRec] /\ followup \in [FollowUp -> FollowRec] /\ followup' \in [FollowUp -> FollowRec]
      /\ 0 \notin Lead
  BY DeskVariables, DeskConstants DEF TypeInv, DeskTypes
<1>1. PICK v : v = req[r]
  OBVIOUS
<1>2. v \in DeskReq /\ NextSeen(v) /\ v.op \in Bookers
  BY <1>1, DeskFields DEF NextFine, Bookers, DeskKinds, DeskOps
<1>3. PICK l \in Lead : l = v.lead
  BY <1>2, LoadedLead DEF Bookers, Booking
<1>4. PICK new \in [FollowUp -> FollowRec] : new = followup'
  BY <1>0
<1>5. \A q \in Request \ {r} : req'[q] = req[q] /\ req[q].op # "book"
  BY <1>1, <1>2 DEF Becomes, BooksAndEditsAlone, Bookers, Booking
<1>6. v.op # "book" => lead[l].next = Earliest(followup, l)
  BY <1>1, <1>5 DEF NextFine, NextFits, Books
<1>7. req'[r] = w
  BY DEF Becomes
<1>8. \A k \in Lead \ {l} : OpenOf(followup, k) \cap OpenOf(followup, l) = {}
  BY DEF OpenOf
<1>9. ASSUME NEW n, lead' = [lead EXCEPT ![l].next = n], NextFits(l)', NextSeen(w)',
             \A k \in Lead \ {l} : OpenOf(new, k) = OpenOf(followup, k),
             \A k \in Lead \ {l} : \A f \in OpenOf(followup, k) : new[f].at = followup[f].at
      PROVE  NextFine'
  <2>1. /\ \A k \in Lead \ {l} : OpenOf(followup', k) = OpenOf(followup, k)
        /\ \A k \in Lead \ {l} : \A f \in OpenOf(followup, k) : followup'[f].at = followup[f].at
    BY <1>4, <1>9
  <2>2. req[r].lead = l /\ req[r].op \in Bookers
    BY <1>1, <1>2, <1>3
  <2>3. QED
    BY <1>9, <2>1, <2>2, NextOfLead
<1>10. ASSUME NEW fs \in SUBSET OpenOf(followup, l), new = Without(followup, fs) \/ new = followup
       PROVE  /\ \A k \in Lead \ {l} : OpenOf(new, k) = OpenOf(followup, k)
              /\ \A k \in Lead \ {l} : \A f \in OpenOf(followup, k) : new[f].at = followup[f].at
  <2>1. CASE new = followup
    BY <2>1
  <2>2. ASSUME new = Without(followup, fs), NEW k \in Lead \ {l}
        PROVE  OpenOf(new, k) = OpenOf(followup, k) /\ \A f \in OpenOf(followup, k) : new[f].at = followup[f].at
    <3>1. OpenOf(new, k) = OpenOf(followup, k) \ fs /\ \A f \in FollowUp : new[f] = IF f \in fs THEN NoFollow ELSE followup[f]
      BY <2>2, WithoutOpen
    <3>2. OpenOf(followup, k) \cap fs = {} /\ OpenOf(followup, k) \subseteq FollowUp
      BY <1>8, <1>10 DEF OpenOf
    <3>3. QED
      BY <3>1, <3>2
  <2>3. QED
    BY <1>10, <2>1, <2>2
<1>11. ASSUME NEW f \in FollowUp, NEW row \in OpenRow, BooksRow(followup, new, f, row), row.lead = l
       PROVE  /\ \A k \in Lead \ {l} : OpenOf(new, k) = OpenOf(followup, k)
              /\ \A k \in Lead \ {l} : \A g \in OpenOf(followup, k) : new[g].at = followup[g].at
  <2>1. ASSUME NEW k \in Lead \ {l}
        PROVE  OpenOf(new, k) = OpenOf(followup, k) /\ \A g \in OpenOf(followup, k) : new[g].at = followup[g].at
    <3>1. /\ OpenOf(new, k) = IF k = row.lead THEN OpenOf(followup, k) \cup {f} ELSE OpenOf(followup, k)
          /\ \A g \in FollowUp \ {f} : new[g] = followup[g]
          /\ f \notin OpenOf(followup, k)
      BY <1>0, <1>11, BookedOpen
    <3>2. QED
      BY <1>11, <2>1, <3>1 DEF OpenOf
  <2>2. QED
    BY <2>1
<1>12. CASE v.op = "schedule"
  <2>1. ScheduleWrite(r) /\ v \in ScheduleReq
    BY <1>1, <1>2, <1>12, WhichWrite, DeskKind
  <2>2. PICK f \in FollowUp, row \in OpenRow :
             BooksRow(followup, new, f, row) /\ row.lead = l /\ row.at = v.at /\ ~row.auto
    BY <1>1, <1>3, <1>4, <1>12, RowsOfWrite
  <2>3. PICK n : n = Earliest(new, l)
    OBVIOUS
  <2>4. lead' = [lead EXCEPT ![l].next = n]
    BY <1>1, <1>3, <1>4, <2>1, <2>3 DEF ScheduleWrite
  <2>5. lead'[l].next = n
    BY <1>0, <2>4 DEF LeadRec
  <2>6. NextFits(l)'
    BY <1>4, <2>3, <2>5 DEF NextFits
  <2>7. w = [v EXCEPT !.op = "supersede"]
    BY <1>1, <1>7, <2>1, DeskVariables DEF ScheduleWrite
  <2>8. w.op = "supersede" /\ w.lead = l /\ w.at = v.at /\ w.seen = v.seen /\ v.at \in Nat /\ v.seen \in Nat
    BY <1>3, <2>1, <2>7 DEF ScheduleReq
  <2>9. /\ OpenOf(new, l) = OpenOf(followup, l) \cup {f} /\ AutoOf(new, l) = AutoOf(followup, l)
        /\ new[f] = row /\ (\A g \in FollowUp \ {f} : new[g] = followup[g]) /\ f \notin OpenOf(followup, l)
    BY <1>0, <2>2, BookedOpen
  <2>10. f \in OpenOf(new, l) \ AutoOf(new, l) /\ new[f].at = w.at
    BY <2>2, <2>8, <2>9 DEF AutoOf
  <2>11. ASSUME w.seen \in 1..w.at PROVE n = w.seen
    <3>1. PICK m : m = Earliest(followup, l)
      OBVIOUS
    <3>2. m = w.seen
      BY <1>2, <1>3, <1>6, <1>12, <2>8, <3>1 DEF NextSeen
    <3>3. OpenOf(followup, l) # {}
      <4>1. OpenOf(followup, l) = {} => Earliest(followup, l) = 0
        BY <1>0, EarliestOf
      <4>2. w.seen # 0
        BY <2>8, <2>11
      <4>3. QED
        BY <3>1, <3>2, <4>1, <4>2
    <3>4. PICK g \in OpenOf(followup, l) : followup[g].at = m
      BY <1>0, <3>1, <3>3, EarliestOf
    <3>5. /\ \A h \in OpenOf(followup, l) : m <= followup[h].at
          /\ \A h \in OpenOf(followup, l) : h \in FollowUp /\ followup[h].at \in Nat \ {0}
      BY <1>0, <3>1, <3>3, EarliestOf
    <3>6. PICK h \in OpenOf(new, l) : new[h].at = n
      BY <2>3, <2>10, EarliestOf
    <3>7. \A x \in OpenOf(new, l) : n <= new[x].at
      BY <2>3, <2>10, EarliestOf
    <3>8. m \in Nat /\ n \in Nat
      BY <1>0, <2>3, <3>1, EarliestOf
    <3>9. n <= m
      BY <2>9, <3>4, <3>5, <3>7
    <3>10. m <= n
      <4>1. CASE h = f
        BY <2>8, <2>10, <2>11, <3>2, <3>6, <4>1
      <4>2. CASE h # f
        BY <2>9, <3>5, <3>6, <4>2
      <4>3. QED
        BY <4>1, <4>2
    <3>11. QED
      BY <3>2, <3>8, <3>9, <3>10
  <2>12. NextSeen(w)'
    BY <1>4, <2>5, <2>8, <2>10, <2>11 DEF NextSeen, Scheduled
  <2>13. /\ \A k \in Lead \ {l} : OpenOf(new, k) = OpenOf(followup, k)
         /\ \A k \in Lead \ {l} : \A g \in OpenOf(followup, k) : new[g].at = followup[g].at
    BY <1>11, <2>2
  <2>14. QED
    BY <1>9, <2>4, <2>6, <2>12, <2>13
<1>13. w.op = "idle" => NextSeen(w)'
  BY DEF NextSeen
<1>14. CASE v.op = "supersede"
  <2>1. Supersede(r) /\ v \in ScheduleReq /\ Scheduled(v)
    BY <1>1, <1>2, <1>14, WhichWrite, DeskKind DEF NextSeen
  <2>2. PICK autos : autos = AutoOf(followup, l)
    OBVIOUS
  <2>3. new = Without(followup, autos)
    BY <1>1, <1>3, <1>4, <2>1, <2>2 DEF Supersede
  <2>4. PICK n : n = IF autos = {} THEN lead[l].next ELSE Refreshed(new, l, v.seen, lead[l].next)
    OBVIOUS
  <2>5. lead' = [lead EXCEPT ![l].next = n]
    BY <1>0, <1>1, <1>3, <1>4, <2>1, <2>2, <2>4 DEF Supersede
  <2>6. lead'[l].next = n
    BY <1>0, <2>5 DEF LeadRec
  <2>7. autos \subseteq OpenOf(followup, l) /\ OpenOf(followup, l) \subseteq FollowUp
    BY <2>2 DEF AutoOf, OpenOf
  <2>8. PICK f \in OpenOf(followup, l) \ autos : followup[f].at = v.at
    BY <1>3, <2>1, <2>2 DEF Scheduled
  <2>9. OpenOf(new, l) = OpenOf(followup, l) \ autos /\ \A g \in FollowUp : new[g] = IF g \in autos THEN NoFollow ELSE followup[g]
    BY <2>3, WithoutOpen
  <2>10. f \in OpenOf(new, l) /\ new[f].at = v.at
    BY <2>7, <2>8, <2>9
  <2>11. Earliest(new, l) \in 1..v.at
    <3>1. PICK m : m = Earliest(new, l)
      OBVIOUS
    <3>2. m \in Nat /\ m <= new[f].at
      BY <2>10, <3>1, EarliestOf
    <3>3. PICK g \in OpenOf(new, l) : new[g].at = m
      BY <2>10, <3>1, EarliestOf
    <3>4. new[g].at \in Nat \ {0} /\ new[f].at \in Nat \ {0}
      BY <2>10, <3>3, EarliestOf
    <3>5. QED
      BY <2>10, <3>1, <3>2, <3>3, <3>4
  <2>12. n = Earliest(new, l)
    <3>1. CASE autos = {}
      <4>1. \A g \in OpenOf(followup, l) : new[g].at = followup[g].at
        BY <2>7, <2>9, <3>1
      <4>2. OpenOf(new, l) = OpenOf(followup, l)
        BY <2>9, <3>1
      <4>3. Earliest(new, l) = Earliest(followup, l)
        BY <4>1, <4>2, SameEarliest
      <4>4. QED
        BY <1>6, <1>14, <2>4, <3>1, <4>3
    <3>2. CASE autos # {}
      <4>1. v.seen \in 1..v.at => lead[l].next = v.seen
        BY <1>3, <2>1 DEF Scheduled
      <4>2. QED
        BY <2>4, <2>11, <3>2, <4>1 DEF Refreshed
    <3>3. QED
      BY <3>1, <3>2
  <2>13. NextFits(l)'
    BY <1>4, <2>6, <2>12 DEF NextFits
  <2>14. w.op = "idle"
    <3>1. w = Idle
      BY <1>7, <2>1, DeskVariables DEF Supersede, End
    <3>2. QED
      BY <3>1 DEF Idle
  <2>15. /\ \A k \in Lead \ {l} : OpenOf(new, k) = OpenOf(followup, k)
         /\ \A k \in Lead \ {l} : \A g \in OpenOf(followup, k) : new[g].at = followup[g].at
    BY <1>10, <2>3, <2>7
  <2>16. QED
    BY <1>9, <1>13, <2>5, <2>13, <2>14, <2>15
<1>15. CASE v.op = "complete"
  <2>1. CompleteWrite(r) /\ v \in CompleteReq
    BY <1>1, <1>2, <1>15, WhichWrite, DeskKind
  <2>2. new = IF followup[v.row].lead = l THEN Without(followup, {v.row}) ELSE followup
    BY <1>1, <1>3, <1>4, <2>1 DEF CompleteWrite
  <2>3. PICK n : n = Refreshed(new, l, v.seen, lead[l].next)
    OBVIOUS
  <2>4. lead' = [lead EXCEPT ![l].next = n]
    BY <1>0, <1>1, <1>3, <1>4, <2>1, <2>3 DEF CompleteWrite
  <2>5. lead'[l].next = n
    BY <1>0, <2>4 DEF LeadRec
  <2>6. n = Earliest(new, l)
    BY <1>2, <1>3, <1>15, <2>3 DEF NextSeen, Refreshed
  <2>7. NextFits(l)'
    BY <1>4, <2>5, <2>6 DEF NextFits
  <2>8. w.op = "idle"
    <3>1. w = Idle
      BY <1>7, <2>1, DeskVariables DEF CompleteWrite, End
    <3>2. QED
      BY <3>1 DEF Idle
  <2>9. \E fs \in SUBSET OpenOf(followup, l) : new = Without(followup, fs) \/ new = followup
    BY <2>1, <2>2 DEF OpenOf, CompleteReq
  <2>10. /\ \A k \in Lead \ {l} : OpenOf(new, k) = OpenOf(followup, k)
         /\ \A k \in Lead \ {l} : \A g \in OpenOf(followup, k) : new[g].at = followup[g].at
    BY <1>10, <2>9
  <2>11. QED
    BY <1>9, <1>13, <2>4, <2>7, <2>8, <2>10
<1>16. CASE v.op = "replace"
  <2>1. OutcomeReplace(r) /\ v \in OutcomeReq
    BY <1>1, <1>2, <1>16, WhichWrite, DeskKind
  <2>2. new = followup \/ new = Without(followup, AutoOf(followup, l))
    BY <1>1, <1>3, <1>4, <1>16, RowsOfWrite
  <2>3. PICK n : n = lead[l].next
    OBVIOUS
  <2>4. lead' = [lead EXCEPT ![l].next = n]
    BY <1>0, <2>1, <2>3 DEF OutcomeReplace, LeadRec
  <2>5. w = [v EXCEPT !.op = "book"]
    BY <1>1, <1>7, <2>1, DeskVariables DEF OutcomeReplace
  <2>6. w.op = "book" /\ w.lead = l /\ w.copy = v.copy
    BY <1>3, <2>1, <2>5 DEF OutcomeReq
  <2>7. NextFits(l)'
    BY <1>7, <2>6 DEF NextFits, Books
  <2>8. NextSeen(w)'
    BY <1>2, <1>3, <1>16, <2>1, <2>6 DEF NextSeen, OutcomeReplace
  <2>9. AutoOf(followup, l) \subseteq OpenOf(followup, l)
    BY DEF AutoOf
  <2>10. /\ \A k \in Lead \ {l} : OpenOf(new, k) = OpenOf(followup, k)
         /\ \A k \in Lead \ {l} : \A g \in OpenOf(followup, k) : new[g].at = followup[g].at
    BY <1>10, <2>2, <2>9
  <2>11. QED
    BY <1>9, <2>4, <2>7, <2>8, <2>10
<1>17. CASE v.op = "book"
  <2>1. OutcomeBook(r) /\ v \in OutcomeReq
    BY <1>1, <1>2, <1>17, WhichWrite, DeskKind
  <2>2. \/ new = followup
        \/ \E f \in FollowUp, row \in OpenRow : BooksRow(followup, new, f, row) /\ row.lead = l
    BY <1>1, <1>3, <1>4, <1>17, RowsOfWrite
  <2>3. PICK n : n = Refreshed(new, l, v.copy.next, lead[l].next)
    OBVIOUS
  <2>4. lead' = [lead EXCEPT ![l].next = n]
    BY <1>0, <1>1, <1>3, <1>4, <2>1, <2>3 DEF OutcomeBook
  <2>5. lead'[l].next = n
    BY <1>0, <2>4 DEF LeadRec
  <2>6. n = Earliest(new, l)
    BY <1>2, <1>3, <1>17, <2>3 DEF NextSeen, Refreshed
  <2>7. NextFits(l)'
    BY <1>4, <2>5, <2>6 DEF NextFits
  <2>8. w.op = "idle"
    <3>1. w = Idle
      BY <1>7, <2>1, DeskVariables DEF OutcomeBook, End
    <3>2. QED
      BY <3>1 DEF Idle
  <2>9. /\ \A k \in Lead \ {l} : OpenOf(new, k) = OpenOf(followup, k)
        /\ \A k \in Lead \ {l} : \A g \in OpenOf(followup, k) : new[g].at = followup[g].at
    BY <1>11, <2>2
  <2>10. QED
    BY <1>9, <1>13, <2>4, <2>7, <2>8, <2>9
<1>18. QED
  BY <1>2, <1>12, <1>14, <1>15, <1>16, <1>17 DEF Bookers

LEMMA NextKept ==
    ASSUME TypeInv, TypeInv', MeetInv, NextInv, [Next]_vars
    PROVE  NextInv'
<1>1. CASE ~(DeskNext /\ DeskFrame)
  <2>1. Still
    BY <1>1, OthersStill
  <2>2. SUFFICES ASSUME NextFine PROVE NextFine'
    BY <2>1, StillMet DEF Still, NextInv, NextMet
  <2>3. \A q \in Request : req'[q] = req[q] \/ (req[q].op # "book" /\ NextSeen(req[q])')
    <3>1. SUFFICES ASSUME NEW q \in Request, req'[q] # req[q] PROVE req[q].op # "book" /\ NextSeen(req[q])'
      OBVIOUS
    <3>2. req[q].op \notin DeskKinds /\ req'[q].op \notin DeskKinds
      BY <2>1, <3>1 DEF Still
    <3>3. QED
      BY <3>2 DEF NextSeen, DeskKinds, DeskOps
  <2>4. (\A l \in Lead : SameNext(l)) /\ SameBookings(followup, followup')
    BY <2>1 DEF Still, SameNext, SameBookings
  <2>5. QED
    BY <2>2, <2>3, <2>4, NextStays
<1>2. CASE DeskNext
  <2>0. SUFFICES ASSUME met \subseteq met', ~crashed', ~NextMet' PROVE NextFine'
    BY <1>2, MetGrows DEF NextInv
  <2>1. BooksAndEditsAlone /\ NextFine
    <3>1. ~NextMet /\ ~crashed
      BY <1>2, <2>0, StillMet, NoneRecovers DEF NextMet
    <3>2. QED
      BY <3>1, OneBooksOrEdits DEF NextInv
  <2>2. CASE \E r \in Request : DeskLoad(r)
    BY <2>1, <2>2, DeskLoads, NextOfLoad
  <2>3. CASE \E r \in Request : DeskWrite(r)
    <3>1. PICK r \in Request : DeskWrite(r)
      BY <2>3
    <3>2. PICK w : Becomes(r, w)
      BY <3>1, DeskWrites
    <3>3. QED
      BY <2>0, <2>1, <3>1, <3>2, NextOfOthers, NextOfBookers
  <2>4. CASE AtOnce
    <3>1. UNCHANGED <<followup, req>> /\ \A l \in Lead : SameNext(l)
      BY <2>4, AtOnceFootprint
    <3>2. SameBookings(followup, followup')
      BY <3>1 DEF SameBookings
    <3>3. QED
      BY <2>1, <3>1, <3>2, NextStays
  <2>5. QED
    BY <1>2, <2>2, <2>3, <2>4, DeskCases
<1>3. QED
  BY <1>1, <1>2

-----------------------------------------------------------------------------
(* An open follow-up belongs to the agent of its lead, unless it is about   *)
(* to move; a request books for the agent who has the lead.                 *)

OwnersMet == Met(Moving, Booking \cup Moving)
Follows(r, l) == req[r].op \in {"assign", "follow"} /\ l \in req[r].leads
RowFits(f) ==
    \/ followup[f].lead = 0 \/ \E r \in Request : Follows(r, followup[f].lead)
    \/ lead[followup[f].lead].owner \in {Nobody, followup[f].owner}
HoldsOwner(w) == lead[w.lead].owner \in {Nobody, w.owner}
EditsOwner(w) == \A f \in FollowUp : followup[f].lead = w.lead => w.was \in {Nobody, followup[f].owner}
OwnerSeen(w) ==
    /\ w.op \in {"schedule", "call", "outcome", "replace", "book"} => HoldsOwner(w)
    /\ w.op = "edit" => EditsOwner(w)
OwnersFine == (\A f \in FollowUp : RowFits(f)) /\ \A r \in Request : OwnerSeen(req[r])
OwnersInv == crashed \/ OwnersMet \/ OwnersFine

MovesAlone == \A p, q \in Request : p # q /\ req[p].op \in Moving => req[q].op \notin Booking \cup Moving
LEMMA OneMoves == MeetInv /\ ~OwnersMet => MovesAlone
<1> SUFFICES ASSUME MeetInv, NEW p \in Request, NEW q \in Request, p # q, req[p].op \in Moving,
                    req[q].op \in Booking \cup Moving
             PROVE  OwnersMet
  BY DEF MovesAlone
<1>1. \A op \in Moving : op \in DeskKinds /\ Origin(op) \subseteq Moving
  BY DEF Moving, DeskKinds, DeskOps, Origin
<1>2. req[q].op \in DeskKinds /\ Origin(req[q].op) \subseteq Booking \cup Moving
  BY <1>1, BookingOrigins
<1>3. QED
  BY <1>1, <1>2, TwoMet DEF OwnersMet

\* Owners stay or leave, and the follow-ups stay or go; each request stays,
\* or begins with what there is.
LEMMA OwnersStay ==
    ASSUME TypeInv, OwnersFine, \A l \in Lead : SameOwner(l) \/ lead'[l].owner = Nobody,
           \A f \in FollowUp : followup'[f] = followup[f] \/ followup'[f].lead = 0 \/ RowFits(f)',
           \A q \in Request :
              \/ req'[q] = req[q] /\ (req[q].op = "edit" => EditsOwner(req[q])')
              \/ req[q].op \notin {"assign", "follow"} /\ OwnerSeen(req[q])'
    PROVE  OwnersFine'
<1>0. followup \in [FollowUp -> FollowRec]
  BY DeskVariables
<1>1. ASSUME NEW f \in FollowUp PROVE RowFits(f)'
  <2>1. SUFFICES ASSUME followup'[f] = followup[f], followup[f].lead # 0 PROVE RowFits(f)'
    BY DEF RowFits
  <2>2. followup[f].lead \in Lead
    BY <1>0, <2>1 DEF FollowRec, NoFollow
  <2>3. CASE \E q \in Request : Follows(q, followup[f].lead)
    <3>1. PICK q \in Request : Follows(q, followup[f].lead)
      BY <2>3
    <3>2. req'[q] = req[q]
      BY <3>1 DEF Follows
    <3>3. QED
      BY <2>1, <3>1, <3>2 DEF RowFits, Follows
  <2>4. CASE lead[followup[f].lead].owner \in {Nobody, followup[f].owner}
    BY <2>1, <2>2, <2>4 DEF RowFits, SameOwner
  <2>5. QED
    BY <2>1, <2>3, <2>4 DEF OwnersFine, RowFits
<1>2. ASSUME NEW q \in Request PROVE OwnerSeen(req[q])'
  <2>1. SUFFICES ASSUME req'[q] = req[q], req[q].op = "edit" => EditsOwner(req[q])',
                        req[q].op \in {"schedule", "call", "outcome", "replace", "book"}
                 PROVE  OwnerSeen(req[q])'
    BY DEF OwnerSeen
  <2>2. req[q].lead \in Lead /\ HoldsOwner(req[q])
    BY <2>1, DeskFields, LoadedLead DEF Booking, DeskKinds, DeskOps, OwnersFine, OwnerSeen
  <2>3. QED
    BY <2>1, <2>2 DEF OwnerSeen, HoldsOwner, SameOwner
<1>3. QED
  BY <1>1, <1>2 DEF OwnersFine

LEMMA OwnersOfLoad ==
    ASSUME TypeInv, TypeInv', OwnersFine, MovesAlone', NEW r \in Request, NEW w \in DeskReq, Begun(r, w), Loaded(w)
    PROVE  OwnersFine'
<1>0. /\ lead \in [Lead -> LeadRec] /\ followup \in [FollowUp -> FollowRec] /\ followup' = followup
      /\ req'[r] = w /\ req[r].op = "idle" /\ \A q \in Request \ {r} : req'[q] = req[q]
  BY DeskVariables DEF Begun, Becomes, Free, Loaded
<1>1. ASSUME w.op \in Moving, NEW q \in Request \ {r} PROVE req[q].op \notin Booking \cup Moving
  BY <1>0, <1>1 DEF MovesAlone
<1>2. CASE w.op = "assign"
  <2>1. PICK a \in Agent : lead' = [l \in Lead |-> IF l \in w.leads THEN [lead[l] EXCEPT !.owner = a] ELSE lead[l]]
    BY <1>2 DEF Loaded, AssignLoads
  <2>2. ASSUME NEW f \in FollowUp PROVE RowFits(f)'
    <3>1. SUFFICES ASSUME followup[f].lead # 0, followup[f].lead \notin w.leads PROVE RowFits(f)'
      BY <1>0, <1>2 DEF RowFits, Follows
    <3>2. PICK l \in Lead : l = followup[f].lead
      BY <1>0, <3>1 DEF FollowRec, NoFollow
    <3>3. lead'[l] = lead[l]
      BY <2>1, <3>1, <3>2
    <3>4. \A q \in Request : ~Follows(q, l)
      BY <1>0, <1>1, <1>2 DEF Follows, Moving
    <3>5. lead[l].owner \in {Nobody, followup[f].owner}
      BY <3>1, <3>2, <3>4 DEF OwnersFine, RowFits
    <3>6. QED
      BY <1>0, <3>2, <3>3, <3>5 DEF RowFits
  <2>3. ASSUME NEW q \in Request PROVE OwnerSeen(req[q])'
    <3>1. req'[q].op \notin Booking \cup {"edit"}
      BY <1>0, <1>1, <1>2 DEF Moving, Booking
    <3>2. QED
      BY <3>1 DEF OwnerSeen, Booking
  <2>4. QED
    BY <2>2, <2>3 DEF OwnersFine
<1>3. CASE w.op # "assign"
  <2>1. lead' = lead /\ w.op \notin {"supersede", "replace", "book", "follow"}
    BY <1>3 DEF Loaded
  <2>2. ASSUME w.op = "edit", NEW f \in FollowUp, followup[f].lead = w.lead PROVE w.was \in {Nobody, followup[f].owner}
    <3>1. w.lead \in Lead /\ w.was = lead[w.lead].owner /\ 0 \notin Lead
      BY <2>2, LoadedLead, DeskConstants DEF Loaded, EditLoads
    <3>2. \A q \in Request : ~Follows(q, w.lead)
      BY <1>0, <1>1, <2>2 DEF Follows, Moving
    <3>3. QED
      BY <2>2, <3>1, <3>2 DEF OwnersFine, RowFits
  <2>3. OwnerSeen(w)'
    <3>1. w.op \in {"schedule", "call", "outcome"} => lead[w.lead].owner \in {Nobody, w.owner}
      BY DEF Loaded, ScheduleLoads, OutcomeLoads
    <3>2. QED
      BY <1>0, <2>1, <2>2, <3>1 DEF OwnerSeen, HoldsOwner, EditsOwner
  <2>4. ASSUME NEW q \in Request
        PROVE  \/ req'[q] = req[q] /\ (req[q].op = "edit" => EditsOwner(req[q])')
               \/ req[q].op \notin {"assign", "follow"} /\ OwnerSeen(req[q])'
    <3>1. CASE q = r
      <4>1. OwnerSeen(req[r])'
        BY <1>0, <2>3 DEF OwnerSeen, HoldsOwner, EditsOwner
      <4>2. QED
        BY <1>0, <3>1, <4>1
    <3>2. CASE q # r
      BY <1>0, <3>2 DEF OwnersFine, OwnerSeen, EditsOwner
    <3>3. QED
      BY <3>1, <3>2
  <2>5. \A l \in Lead : SameOwner(l)
    BY <2>1 DEF SameOwner
  <2>6. QED
    BY <1>0, <2>4, <2>5, OwnersStay
<1>4. QED
  BY <1>2, <1>3

\* The writes that move leads: none that books is in progress with them.
LEMMA OwnersMove ==
    ASSUME TypeInv, MovesAlone, OwnersFine, NEW r \in Request, req[r].op \in Moving, NEW w, Becomes(r, w),
           w.op \in {"idle", "follow"},
           \A f \in FollowUp : \/ followup[f].lead = 0 \/ Follows(r, followup[f].lead)
                               \/ lead[followup[f].lead].owner \in {Nobody, followup[f].owner}
                               => RowFits(f)'
    PROVE  OwnersFine'
<1>1. req'[r] = w /\ \A q \in Request \ {r} : req'[q] = req[q] /\ req[q].op \notin Booking \cup Moving
  BY DEF Becomes, MovesAlone
<1>2. ASSUME NEW f \in FollowUp PROVE RowFits(f)'
  <2>1. \A q \in Request \ {r} : ~Follows(q, followup[f].lead)
    BY <1>1 DEF Follows, Moving
  <2>2. \/ followup[f].lead = 0 \/ Follows(r, followup[f].lead)
        \/ lead[followup[f].lead].owner \in {Nobody, followup[f].owner}
    BY <2>1 DEF OwnersFine, RowFits
  <2>3. QED
    BY <2>2
<1>3. ASSUME NEW q \in Request PROVE OwnerSeen(req[q])'
  <2>1. req'[q].op \notin Booking \cup {"edit"}
    BY <1>1 DEF Moving, Booking
  <2>2. QED
    BY <2>1 DEF OwnerSeen, Booking
<1>4. QED
  BY <1>2, <1>3 DEF OwnersFine

LEMMA OwnersOfMoves ==
    ASSUME TypeInv, TypeInv', MovesAlone, OwnersFine, NEW r \in Request, DeskWrite(r), ~crashed', NEW w, Becomes(r, w),
           req[r].op \in Moving
    PROVE  OwnersFine'
<1>0. lead \in [Lead -> LeadRec] /\ followup \in [FollowUp -> FollowRec] /\ req \in [Request -> AnyReq]
  BY DeskVariables
<1>1. PICK v \in DeskReq : v = req[r]
  BY DeskFields DEF Moving, DeskKinds, DeskOps
<1>2. req'[r] = w
  BY DEF Becomes
<1>3. w.op \in {"idle", "follow"}
  BY <1>2, GoesOnAs DEF Moving
<1>4. SUFFICES ASSUME NEW f \in FollowUp,
                      \/ followup[f].lead = 0 \/ Follows(r, followup[f].lead)
                      \/ lead[followup[f].lead].owner \in {Nobody, followup[f].owner}
               PROVE  RowFits(f)'
  BY <1>3, OwnersMove
<1>5. PICK row \in FollowRec : row = followup[f]
  BY <1>0
<1>6. row.lead # 0 => row.lead \in Lead
  BY DEF FollowRec, NoFollow
<1>7. CASE v.op \in {"assign", "follow"}
  <2>1. FollowOwner(r) /\ v.leads \in SUBSET Lead
    BY <1>1, <1>7, WhichWrite, DeskKind DEF FollowReq
  <2>2. PICK new : new = followup'
    OBVIOUS
  <2>3. new = FollowingOwner(followup, v.leads) /\ lead' = lead
    BY <1>1, <2>1, <2>2 DEF FollowOwner
  <2>4. new[f].lead = row.lead
        /\ new[f].owner = IF row.lead \in v.leads /\ lead[row.lead].owner # Nobody THEN lead[row.lead].owner ELSE row.owner
    BY <1>0, <1>5, <2>1, <2>3, FollowingRows
  <2>5. row.lead = 0 \/ row.lead \in v.leads \/ lead[row.lead].owner \in {Nobody, row.owner}
    BY <1>1, <1>4, <1>5 DEF Follows
  <2>6. QED
    BY <2>2, <2>3, <2>4, <2>5 DEF RowFits
<1>8. CASE v.op = "distribute"
  <2>1. ApplyPlan(r)
    BY <1>1, <1>8, WhichWrite
  <2>2. PICK placed : placed = {l \in Lead : PlannedOwner(v, l) # Nobody}
    OBVIOUS
  <2>3. PICK owner : owner = [l \in Lead |-> IF l \in placed THEN PlannedOwner(v, l) ELSE lead[l].owner]
    OBVIOUS
  <2>4. lead' = [l \in Lead |-> [lead[l] EXCEPT !.owner = owner[l]]]
    BY <1>1, <2>1, <2>2, <2>3 DEF ApplyPlan
  <2>5. \A l \in Lead : lead'[l].owner = owner[l]
    BY <1>0, <2>4 DEF LeadRec
  <2>6. followup'[f] = IF row.lead \in placed THEN [row EXCEPT !.owner = PlannedOwner(v, row.lead)] ELSE row
    BY <1>1, <1>5, <2>1, <2>2 DEF ApplyPlan
  <2>7. row.lead = 0 \/ lead[row.lead].owner \in {Nobody, row.owner}
    BY <1>1, <1>4, <1>5, <1>8 DEF Follows
  <2>8. CASE row.lead \in placed
    <3>1. row.lead \in Lead /\ lead'[row.lead].owner = PlannedOwner(v, row.lead)
      BY <2>2, <2>3, <2>5, <2>8
    <3>2. followup'[f].lead = row.lead /\ followup'[f].owner = PlannedOwner(v, row.lead)
      BY <2>6, <2>8 DEF FollowRec, NoFollow
    <3>3. QED
      BY <3>1, <3>2 DEF RowFits
  <2>9. CASE row.lead \notin placed
    <3>1. followup'[f] = row
      BY <2>6, <2>9
    <3>2. row.lead # 0 => lead'[row.lead].owner = lead[row.lead].owner
      BY <1>6, <2>3, <2>5, <2>9
    <3>3. QED
      BY <2>7, <3>1, <3>2 DEF RowFits
  <2>10. QED
    BY <2>8, <2>9
<1>9. CASE v.op = "edit"
  <2>1. EditWrite(r) /\ v \in EditReq
    BY <1>1, <1>9, WhichWrite, DeskKind
  <2>2. PICK l \in Lead, to \in LeadRec : l = v.lead /\ to = v.row
    BY <2>1 DEF EditReq
  <2>3. lead' = [lead EXCEPT ![l] = to] /\ followup' = followup
    BY <1>1, <2>1, <2>2 DEF EditWrite
  <2>4. row.lead = 0 \/ lead[row.lead].owner \in {Nobody, row.owner}
    BY <1>1, <1>4, <1>5, <1>9 DEF Follows
  <2>5. CASE row.lead # l
    <3>1. row.lead # 0 => lead'[row.lead] = lead[row.lead]
      BY <1>0, <1>6, <2>3, <2>5
    <3>2. QED
      BY <1>5, <2>3, <2>4, <3>1 DEF RowFits
  <2>6. CASE row.lead = l
    <3>1. lead'[l].owner = to.owner
      BY <1>0, <2>3
    <3>2. CASE to.owner # v.was
      <4>1. w = [op |-> "follow", leads |-> {l}]
        BY <1>0, <1>1, <1>2, <2>1, <2>2, <3>2 DEF EditWrite, Follow
      <4>2. Follows(r, l)'
        BY <1>2, <4>1 DEF Follows
      <4>3. QED
        BY <1>5, <2>3, <2>6, <4>2 DEF RowFits
    <3>3. CASE to.owner = v.was
      <4>1. v.was \in {Nobody, row.owner}
        BY <1>1, <1>5, <1>9, <2>2, <2>6 DEF OwnersFine, OwnerSeen, EditsOwner
      <4>2. QED
        BY <1>5, <2>3, <2>6, <3>1, <3>3, <4>1 DEF RowFits
    <3>4. QED
      BY <3>2, <3>3
  <2>7. QED
    BY <2>5, <2>6
<1>10. QED
  BY <1>1, <1>7, <1>8, <1>9 DEF Moving

LEMMA OwnersOfOthers ==
    ASSUME TypeInv, TypeInv', MovesAlone, OwnersFine, NEW r \in Request, DeskWrite(r), ~crashed', NEW w, Becomes(r, w),
           req[r].op \notin Moving
    PROVE  OwnersFine'
<1>0. lead \in [Lead -> LeadRec] /\ followup \in [FollowUp -> FollowRec] /\ call \in [Call -> CallRec]
  BY DeskVariables
<1>1. PICK v : v = req[r]
  OBVIOUS
<1>2. req'[r] = w /\ \A q \in Request \ {r} : req'[q] = req[q]
  BY DEF Becomes
<1>3. \A l \in Lead : SameOwner(l)
  BY <1>1, FootprintOfWrites DEF Footprint, Moving
<1>4. v.op \in {"schedule", "call", "outcome", "replace", "book"} => v \in DeskReq /\ v.lead \in Lead /\ HoldsOwner(v)
  BY <1>1, DeskFields, LoadedLead DEF Booking, DeskKinds, DeskOps, OwnersFine, OwnerSeen
<1>5. ASSUME NEW f \in FollowUp PROVE followup'[f] = followup[f] \/ followup'[f].lead = 0 \/ RowFits(f)'
  <2>1. PICK new : new = followup'
    OBVIOUS
  <2>2. ASSUME v.op \in {"schedule", "book"}, NEW g \in FollowUp, NEW row \in OpenRow, BooksRow(followup, new, g, row),
               row.lead = v.lead, row.owner = v.owner
        PROVE  new[f] = followup[f] \/ RowFits(f)'
    <3>1. new = [followup EXCEPT ![g] = row]
      BY <2>2 DEF BooksRow
    <3>2. CASE f # g
      BY <1>0, <3>1, <3>2
    <3>3. CASE f = g
      <4>1. new[f] = row
        BY <1>0, <3>1, <3>3
      <4>2. lead'[row.lead].owner \in {Nobody, row.owner}
        BY <1>3, <1>4, <2>2 DEF HoldsOwner, SameOwner
      <4>3. QED
        BY <2>1, <4>1, <4>2 DEF RowFits
    <3>4. QED
      BY <3>2, <3>3
  <2>3. CASE v.op \in {"schedule", "book"}
    <3>1. \/ new = followup
          \/ \E g \in FollowUp, row \in OpenRow :
                BooksRow(followup, new, g, row) /\ row.lead = v.lead /\ row.owner = v.owner
      BY <1>1, <2>1, <2>3, RowsOfWrite
    <3>2. QED
      BY <2>1, <2>2, <2>3, <3>1
  <2>4. CASE v.op \in {"supersede", "complete", "replace"}
    <3>1. new = followup \/ \E fs : new = Without(followup, fs)
      BY <1>1, <2>1, <2>4, RowsOfWrite
    <3>2. NoFollow.lead = 0
      BY DEF NoFollow
    <3>3. QED
      BY <2>1, <3>1, <3>2 DEF Without
  <2>5. CASE v.op \notin Bookers
    <3>1. followup' = followup
      BY <1>1, <2>5, RowsOfWrites DEF Bookers, Moving
    <3>2. QED
      BY <3>1
  <2>6. QED
    BY <2>3, <2>4, <2>5 DEF Bookers
<1>6. ASSUME NEW q \in Request \ {r}, req[q].op = "edit" PROVE EditsOwner(req[q])'
  <2>1. v.op \notin Bookers
    BY <1>1, <1>6 DEF MovesAlone, Moving, Booking, Bookers
  <2>2. followup' = followup
    BY <1>1, <2>1, RowsOfWrites DEF Bookers, Moving
  <2>3. EditsOwner(req[q])
    BY <1>6 DEF OwnersFine, OwnerSeen
  <2>4. QED
    BY <1>2, <2>2, <2>3 DEF EditsOwner
<1>7. OwnerSeen(w)'
  <2>1. CASE w.op \in {"idle", "supersede", "release", "follow"}
    BY <2>1 DEF OwnerSeen
  <2>2. CASE ClickDials(r)
    <3>1. w = Applying("call", v.call, call, NoOutcome, FALSE, 0) /\ lead' = lead
      BY <1>1, <1>2, <2>2, DeskVariables DEF ClickDials
    <3>2. w.op = "call"
      BY <3>1 DEF Applying
    <3>3. lead[w.lead].owner \in {Nobody, w.owner}
      <4>1. PICK b \in BOOLEAN, d \in {NoOutcome}, at \in {0} : b = FALSE
        OBVIOUS
      <4>2. w = Applying("call", v.call, call, d, b, at)
        BY <3>1, <4>1
      <4>3. QED
        BY <4>2, ApplyingOwner
    <3>4. QED
      BY <3>1, <3>2, <3>3 DEF OwnerSeen, HoldsOwner
  <2>3. ASSUME NEW op \in {"replace", "book"}, w = [v EXCEPT !.op = op], v.op \in {"call", "outcome", "replace"}
        PROVE  OwnerSeen(w)'
    <3>1. v \in OutcomeReq
      BY <1>4, <2>3, DeskKind
    <3>2. w.op = op /\ w.lead = v.lead /\ w.owner = v.owner
      BY <2>3, <3>1 DEF OutcomeReq
    <3>3. QED
      BY <1>3, <1>4, <2>3, <3>2 DEF OwnerSeen, HoldsOwner, SameOwner
  <2>4. QED
    <3>1. \/ w.op \in {"idle", "supersede", "release"} \/ ClickDials(r)
          \/ v.op \in {"call", "outcome"} /\ w = [v EXCEPT !.op = "replace"]
          \/ v.op = "replace" /\ w = [v EXCEPT !.op = "book"]
          \/ v.op = "edit"
      BY <1>1, <1>2, GoesOnAs
    <3>2. v.op # "edit"
      BY <1>1 DEF Moving
    <3>3. QED
      BY <2>1, <2>2, <2>3, <3>1, <3>2
<1>8. ASSUME NEW q \in Request
      PROVE  \/ req'[q] = req[q] /\ (req[q].op = "edit" => EditsOwner(req[q])')
             \/ req[q].op \notin {"assign", "follow"} /\ OwnerSeen(req[q])'
  <2>1. CASE q = r
    <3>1. OwnerSeen(req[r])'
      BY <1>2, <1>7 DEF OwnerSeen, HoldsOwner, EditsOwner
    <3>2. QED
      BY <2>1, <3>1 DEF Moving
  <2>2. CASE q # r
    BY <1>2, <1>6, <2>2
  <2>3. QED
    BY <2>1, <2>2
<1>9. QED
  BY <1>3, <1>5, <1>8, OwnersStay

LEMMA OwnersKept ==
    ASSUME TypeInv, TypeInv', MeetInv, MeetInv', OwnersInv, [Next]_vars
    PROVE  OwnersInv'
<1>1. CASE ~(DeskNext /\ DeskFrame)
  <2>1. Still
    BY <1>1, OthersStill
  <2>2. SUFFICES ASSUME OwnersFine PROVE OwnersFine'
    BY <2>1, StillMet DEF Still, OwnersInv, OwnersMet
  <2>3. \A q \in Request : \/ req'[q] = req[q] /\ (req[q].op = "edit" => EditsOwner(req[q])')
                           \/ req[q].op \notin {"assign", "follow"} /\ OwnerSeen(req[q])'
    <3>1. ASSUME NEW q \in Request, req'[q] # req[q] PROVE req[q].op \notin {"assign", "follow"} /\ OwnerSeen(req[q])'
      <4>1. req[q].op \notin DeskKinds /\ req'[q].op \notin DeskKinds
        BY <2>1, <3>1 DEF Still
      <4>2. QED
        BY <4>1 DEF OwnerSeen, DeskKinds, DeskOps
    <3>2. ASSUME NEW q \in Request, req'[q] = req[q], req[q].op = "edit" PROVE EditsOwner(req[q])'
      BY <2>1, <2>2, <3>2 DEF Still, OwnersFine, OwnerSeen, EditsOwner
    <3>3. QED
      BY <3>1, <3>2
  <2>4. (\A l \in Lead : SameOwner(l)) /\ followup' = followup
    BY <2>1 DEF Still, SameOwner
  <2>5. QED
    BY <2>2, <2>3, <2>4, OwnersStay
<1>2. CASE DeskNext
  <2>0. SUFFICES ASSUME met \subseteq met', ~crashed', ~OwnersMet' PROVE OwnersFine'
    BY <1>2, MetGrows DEF OwnersInv
  <2>1. MovesAlone /\ OwnersFine
    <3>1. ~OwnersMet /\ ~crashed
      BY <1>2, <2>0, StillMet, NoneRecovers DEF OwnersMet
    <3>2. QED
      BY <3>1, OneMoves DEF OwnersInv
  <2>2. MovesAlone'
    <3>1. (MeetInv /\ ~OwnersMet => MovesAlone)'
      BY OneMoves, PTL
    <3>2. QED
      BY <2>0, <3>1
  <2>3. CASE \E r \in Request : DeskLoad(r)
    BY <2>1, <2>2, <2>3, DeskLoads, OwnersOfLoad
  <2>4. CASE \E r \in Request : DeskWrite(r)
    <3>1. PICK r \in Request : DeskWrite(r)
      BY <2>4
    <3>2. PICK w : Becomes(r, w)
      BY <3>1, DeskWrites
    <3>3. QED
      BY <2>0, <2>1, <3>1, <3>2, OwnersOfMoves, OwnersOfOthers
  <2>5. CASE AtOnce
    <3>1. followup' = followup /\ req' = req /\ \A l \in Lead : SameOwner(l) \/ lead'[l].owner = Nobody
      BY <2>5, AtOnceFootprint
    <3>2. ASSUME NEW q \in Request, req[q].op = "edit" PROVE EditsOwner(req[q])'
      BY <2>1, <3>1, <3>2 DEF OwnersFine, OwnerSeen, EditsOwner
    <3>3. QED
      BY <2>1, <3>1, <3>2, OwnersStay
  <2>6. QED
    BY <1>2, <2>3, <2>4, <2>5, DeskCases
<1>3. QED
  BY <1>1, <1>2

-----------------------------------------------------------------------------
(* The leads agree with their calls, follow-ups and owners.                 *)

LeadInv == FiguresInv /\ AutoInv /\ NextInv /\ OwnersInv

LEMMA LeadsBegin == Init => LeadInv
<1> SUFFICES ASSUME Init PROVE LeadInv
  OBVIOUS
<1>1. TypeInv /\ \A r \in Request : req[r].op = "idle"
  BY Begins DEF Idle
<1>2. /\ lead \in [Lead -> LeadRec] /\ 0 \notin Lead
      /\ call = [c \in Call |-> NoCall] /\ followup = [f \in FollowUp |-> NoFollow]
      /\ lead \in [Lead -> {[FreshLead EXCEPT !.owner = o] : o \in Owner}]
  BY <1>1, DeskVariables, DeskConstants DEF Init, DeskInit
<1>3. \A l \in Lead : lead[l].dials = 0 /\ lead[l].answered = 0 /\ lead[l].next = 0
  BY <1>2 DEF FreshLead
<1>4. NoCall.lead = 0 /\ NoFollow.lead = 0
  BY DEF NoCall, NoFollow
<1>5. ASSUME NEW l \in Lead
      PROVE  Fits(lead[l], call, CallsOf(call, l)) /\ AutoOf(followup, l) = {} /\ Earliest(followup, l) = 0
  <2>1. CallsOf(call, l) = {} /\ OpenOf(followup, l) = {}
    BY <1>2, <1>4 DEF CallsOf, OpenOf
  <2>2. {c \in CallsOf(call, l) : call[c].on} = {} /\ Cardinality({}) = 0
    BY <2>1, FS_EmptySet
  <2>3. QED
    BY <1>3, <2>1, <2>2 DEF Fits, Tallied, AutoOf, Earliest
<1>6. FiguresFine
  BY <1>1, <1>5 DEF FiguresFine, FigureFine, CountFine
<1>7. AutoFine
  BY <1>1, <1>5 DEF AutoFine, Single, BookFine
<1>8. NextFine
  BY <1>1, <1>3, <1>5 DEF NextFine, NextFits, NextSeen
<1>9. OwnersFine
  BY <1>1, <1>2, <1>4 DEF OwnersFine, RowFits, OwnerSeen
<1>10. QED
  BY <1>6, <1>7, <1>8, <1>9 DEF LeadInv, FiguresInv, AutoInv, NextInv, OwnersInv

LEMMA SingleCount == ASSUME NEW S, Single(S) PROVE Cardinality(S) <= 1
<1>1. CASE S = {}
  BY <1>1, FS_EmptySet
<1>2. CASE S # {}
  <2>1. PICK x \in S : S = {x}
    BY <1>2 DEF Single
  <2>2. QED
    BY <2>1, FS_Singleton
<1>3. QED
  BY <1>1, <1>2

LEMMA LeadFollows == LeadInv => LeadAgrees
<1> SUFFICES ASSUME LeadInv, Quiet, ~crashed PROVE FiguresAgree /\ FollowUpsAgree
  BY DEF LeadAgrees
<1>1. \A r \in Request : req[r].op = "idle"
  BY DEF Quiet, Free
<1>2. FiguresAgree
  <2>1. SUFFICES ASSUME ~FiguresMet, NEW l \in Lead
                 PROVE  LET of == {c \in Call : call[c].lead = l} IN
                          /\ lead[l].dials = Cardinality(of)
                          /\ lead[l].answered = Cardinality({c \in of : call[c].on})
                          /\ of # {} => lead[l].worked
    BY DEF FiguresAgree, FiguresMet
  <2>2. Fits(lead[l], call, CallsOf(call, l))
    BY <1>1, <2>1 DEF LeadInv, FiguresInv, FiguresFine, FigureFine, Calls, Calling
  <2>3. QED
    BY <2>2 DEF Fits, Tallied, CallsOf
<1>3. AutoMet \/ \A l \in Lead : Cardinality(AutoOf(followup, l)) <= 1
  BY SingleCount DEF LeadInv, AutoInv, AutoFine
<1>4. NextMet \/ \A l \in Lead : lead[l].next = Earliest(followup, l)
  BY <1>1 DEF LeadInv, NextInv, NextFine, NextFits, Books
<1>5. OwnersMet \/ \A f \in FollowUp : followup[f].lead # 0 => lead[followup[f].lead].owner \in {Nobody, followup[f].owner}
  BY <1>1 DEF LeadInv, OwnersInv, OwnersFine, RowFits, Follows
<1>6. FollowUpsAgree
  BY <1>3, <1>4, <1>5 DEF FollowUpsAgree, AutoMet, NextMet, OwnersMet
<1>7. QED
  BY <1>2, <1>6

\* When nothing is in progress, what a lead's row says is what its rows say:
\* the figures are those of its calls, the next follow-up is the earliest open
\* one, one automatic follow-up at most is open, and they belong to the lead's
\* agent; unless two operations that write them met, or a worker died.
THEOREM LeadHolds == Spec => []LeadAgrees
<1>1. TypeInv /\ TypeInv' /\ MeetInv /\ MeetInv' /\ LeadInv /\ [Next]_vars => LeadInv'
  BY FiguresKept, AutoKept, NextKept, OwnersKept DEF LeadInv
<1>2. QED
  BY <1>1, LeadsBegin, LeadFollows, TypeInvariant, DeskMeets, PTL DEF Spec

-----------------------------------------------------------------------------
(* The import: what it says it did adds up at every step of it.              *)

ImportFits(w) ==
    /\ w.next = "parse" => job.total = 0
    /\ w.next # "parse" => job.total = Len(job.rows)
    /\ w.next \in Early \cup {"cache"} => From("file") = 0
    /\ w.next \in {"cache", "bulk"} => w.ok = Doubles(w.dup) /\ job.total = w.ok + w.failed + Skipped(w.dup) + Len(w.new)
    /\ w.next = "bulk" => From("file") = w.done
    /\ w.next \in {"recount", "total", "finish"} =>
          /\ job.total = w.ok + w.failed + Skipped(w.dup)
          /\ {"chunks"} \in met \/ From("file") + Doubles(w.dup) = w.ok
Waiting == {"none", "pending"}
ImportFine ==
    /\ \A p, q \in Request : req[p].op = "import" /\ req[q].op = "import" => p = q
    /\ job.st = "processing" <=> \E r \in Request : req[r].op = "import"
    /\ job.st \in Waiting \cup {"processing"} => job.ok = 0 /\ job.failed = 0 /\ job.dup = 0
    /\ job.st \in Waiting => job.total = 0 /\ From("file") = 0
    /\ job.st \notin Waiting \cup {"processing"} =>
          /\ job.total = job.ok + job.failed + Skipped(job.dup)
          /\ {"chunks"} \in met \/ From("file") + Doubles(job.dup) = job.ok
    /\ \A r \in Request : req[r].op = "import" => ImportFits(req[r])
ImportInv == crashed \/ ImportFine

LEMMA JobTypes ==
    ASSUME TypeInv
    PROVE  /\ job \in JobRec /\ job.total \in Nat /\ job.ok \in Nat /\ job.failed \in Nat /\ job.dup \in Nat
           /\ job.rows \in Seq(Phone \cup {Invalid}) /\ Len(job.rows) \in Nat /\ From("file") \in Nat
           /\ \A n \in Nat : Skipped(n) \in {0, n} /\ Doubles(n) \in {0, n}
BY IntakeVariables, CountsAreNat DEF JobRec, Skipped, Doubles

\* What is not of an import leaves it as it is.
LEMMA ImportSame ==
    ASSUME ImportFine, job' = job, From("file")' = From("file"), met \subseteq met',
           \A q \in Request : req'[q] = req[q] \/ (req[q].op # "import" /\ req'[q].op # "import")
    PROVE  ImportFine'
<1>1. \A q \in Request : req'[q].op = "import" <=> req[q].op = "import"
  OBVIOUS
<1>2. \A p, q \in Request : req'[p].op = "import" /\ req'[q].op = "import" => p = q
  BY <1>1 DEF ImportFine
<1>3. job'.st = "processing" <=> \E r \in Request : req'[r].op = "import"
  BY <1>1 DEF ImportFine
<1>4. /\ job'.st \in Waiting \cup {"processing"} => job'.ok = 0 /\ job'.failed = 0 /\ job'.dup = 0
      /\ job'.st \in Waiting => job'.total = 0 /\ From("file")' = 0
  BY DEF ImportFine
<1>5. \A n : Skipped(n)' = Skipped(n) /\ Doubles(n)' = Doubles(n)
  BY DEF Skipped, Doubles
<1>6. job'.st \notin Waiting \cup {"processing"} =>
          /\ job'.total = job'.ok + job'.failed + Skipped(job.dup)'
          /\ {"chunks"} \in met' \/ From("file")' + Doubles(job.dup)' = job'.ok
  <2>1. Skipped(job.dup)' = Skipped(job.dup) /\ Doubles(job.dup)' = Doubles(job.dup)
    BY DEF Skipped, Doubles
  <2>2. QED
    BY <2>1 DEF ImportFine
<1>7. ASSUME NEW q \in Request, req'[q].op = "import" PROVE ImportFits(req[q])'
  <2>1. PICK w : w = req'[q]
    OBVIOUS
  <2>2. ImportFits(w)
    BY <1>7, <2>1 DEF ImportFine
  <2>3. ImportFits(w)'
    BY <1>5, <2>2 DEF ImportFits
  <2>4. QED
    BY <2>1, <2>3
<1>8. QED
  BY <1>2, <1>3, <1>4, <1>6, <1>7 DEF ImportFine

\* The import goes on.
LEMMA ImportOn ==
    ASSUME ImportFine, NEW r \in Request, NEW v, Becomes(r, v), req[r].op = "import", v.op = "import",
           job'.st = job.st, job'.ok = job.ok, job'.failed = job.failed, job'.dup = job.dup, ImportFits(v)'
    PROVE  ImportFine'
<1>1. req'[r] = v /\ \A q \in Request \ {r} : req'[q] = req[q] /\ req[q].op # "import"
  BY DEF Becomes, ImportFine
<1>2. \A p, q \in Request : req'[p].op = "import" /\ req'[q].op = "import" => p = q
  BY <1>1
<1>3. job'.st = "processing" /\ (\E q \in Request : req'[q].op = "import") /\ job'.ok = 0 /\ job'.failed = 0 /\ job'.dup = 0
  BY <1>1 DEF ImportFine
<1>4. ASSUME NEW q \in Request, req'[q].op = "import" PROVE ImportFits(req[q])'
  BY <1>1, <1>4
<1>5. "processing" \notin Waiting
  BY DEF Waiting
<1>6. QED
  BY <1>2, <1>3, <1>4, <1>5 DEF ImportFine

\* The import is over.
LEMMA ImportOver ==
    ASSUME ImportFine, NEW r \in Request, Becomes(r, Idle), req[r].op = "import",
           job'.st \in {"completed", "partial", "failed"},
           job'.total = job'.ok + job'.failed + Skipped(job.dup)',
           {"chunks"} \in met' \/ From("file")' + Doubles(job.dup)' = job'.ok
    PROVE  ImportFine'
<1>1. \A q \in Request : req'[q].op # "import"
  BY DEF Becomes, ImportFine, Idle
<1>2. job'.st \notin Waiting \cup {"processing"}
  BY DEF Waiting
<1>3. QED
  BY <1>1, <1>2 DEF ImportFine

LEMMA ImportFitsNow ==
    ASSUME ImportFine, NEW r \in Request, NEW u, u = req[r], u.op = "import"
    PROVE  ImportFits(u) /\ job.st = "processing" /\ job.ok = 0 /\ job.failed = 0 /\ job.dup = 0
BY DEF ImportFine

LEMMA ImportBegins ==
    ASSUME TypeInv, ImportFine, NEW r \in Request, RunImport(r)
    PROVE  ImportFine'
<1>1. PICK v : v = req'[r]
  OBVIOUS
<1>2. Becomes(r, v) /\ v.op = "import" /\ v.next = "parse" /\ job.st = "pending" /\ job' = [job EXCEPT !.st = "processing"]
  BY <1>1, FileBegins DEF Begun
<1>3. /\ job'.st = "processing" /\ job'.total = job.total /\ job'.ok = job.ok /\ job'.failed = job.failed /\ job'.dup = job.dup
      /\ job.total = 0 /\ From("file") = 0 /\ job.ok = 0 /\ job.failed = 0 /\ job.dup = 0
  BY <1>2, JobTypes DEF JobRec, ImportFine, Waiting
<1>4. From("file")' = From("file")
  BY SameCounts DEF RunImport
<1>5. req'[r] = v /\ \A q \in Request \ {r} : req'[q] = req[q] /\ req[q].op # "import"
  BY <1>2 DEF Becomes, ImportFine
<1>6. ImportFits(v)'
  BY <1>2, <1>3, <1>4 DEF ImportFits
<1>7. ASSUME NEW q \in Request, req'[q].op = "import" PROVE ImportFits(req[q])'
  BY <1>5, <1>6, <1>7
<1>8. \A p, q \in Request : req'[p].op = "import" /\ req'[q].op = "import" => p = q
  BY <1>5
<1>9. \E q \in Request : req'[q].op = "import"
  BY <1>2, <1>5
<1>10. "processing" \notin Waiting
  BY DEF Waiting
<1>11. QED
  BY <1>3, <1>7, <1>8, <1>9, <1>10 DEF ImportFine

LEMMA ImportReads ==
    ASSUME TypeInv, ImportFine, NEW r \in Request, Parse(r) \/ OpenBatch(r) \/ ReadPhones(r)
    PROVE  ImportFine'
<1>1. PICK u : u = req[r]
  OBVIOUS
<1>2. PICK v : v = req'[r]
  OBVIOUS
<1>3. From("file")' = From("file")
  BY SameCounts DEF Parse, OpenBatch, ReadPhones, intakeVars
<1>4. u.op = "import" /\ u.next \in {"parse", "open", "phones"} /\ Becomes(r, v) /\ v.op = "import" /\ v.next \in {"open", "phones", "rows"}
  BY <1>1, <1>2, FileReads
<1>5. ImportFits(u) /\ From("file") = 0
  BY <1>1, <1>4, ImportFitsNow DEF ImportFits, Early
<1>6. CASE Parse(r)
  <2>1. job' = [job EXCEPT !.total = Len(job.rows)]
    BY <1>6, FileReads
  <2>2. /\ job'.total = Len(job'.rows) /\ job'.st = job.st /\ job'.ok = job.ok /\ job'.failed = job.failed /\ job'.dup = job.dup
    BY <2>1, JobTypes DEF JobRec
  <2>3. ImportFits(v)'
    BY <1>3, <1>4, <1>5, <2>2 DEF ImportFits
  <2>4. QED
    BY <1>1, <1>4, <2>2, <2>3, ImportOn
<1>7. CASE OpenBatch(r) \/ ReadPhones(r)
  <2>1. job' = job /\ u.next \in {"open", "phones"}
    BY <1>1, <1>7, FileReads DEF OpenBatch, ReadPhones, intakeVars
  <2>2. ImportFits(v)'
    BY <1>3, <1>4, <1>5, <2>1 DEF ImportFits
  <2>3. QED
    BY <1>1, <1>4, <2>1, <2>2, ImportOn
<1>8. QED
  BY <1>6, <1>7

\* What the count allows of the rows that were read.
LEMMA ImportAllowed ==
    ASSUME TypeInv, job.total = Len(job.rows), From("file") = 0, job' = job, From("file")' = From("file"), NEW w \in ImportReq, w.done = 0,
           w.ok = Doubles(w.dup), job.total = w.ok + w.failed + Skipped(w.dup) + Len(w.new), NEW n, NEW v, FileAllowed(w, v, n)
    PROVE  v.op = "import" /\ ImportFits(v)'
<1>1. w.new \in Seq(Phone) /\ Len(w.new) \in Nat /\ w.ok \in Nat /\ w.failed \in Nat /\ w.dup \in Nat
  BY ImportFields
<1>2. PICK most \in 0..Len(w.new) :
          /\ v.new = SubSeq(w.new, 1, most) /\ v.failed = w.failed + (Len(w.new) - most)
          /\ (v.next = "recount" <=> most = 0)
  BY DEF FileAllowed
<1>3. v.op = "import" /\ v.next \in {"recount", "bulk"} /\ v.done = 0 /\ v.ok = w.ok /\ v.dup = w.dup
  BY DEF FileAllowed, FileStays
<1>4. Len(v.new) = most /\ most \in Nat
  BY <1>1, <1>2
<1>5. PICK skipped \in Nat : skipped = Skipped(w.dup)
  BY <1>1, JobTypes
<1>6. PICK len \in Nat, failed \in Nat, ok \in Nat : len = Len(w.new) /\ failed = w.failed /\ ok = w.ok
  BY <1>1
<1>7. PICK left \in Nat : left = v.failed
  BY <1>1, <1>2
<1>8. left = failed + (len - most) /\ job.total = ok + failed + skipped + len
  BY <1>2, <1>5, <1>6, <1>7
<1>9. job.total = ok + left + skipped + most
  BY <1>4, <1>8
<1>10. job.total = v.ok + v.failed + Skipped(v.dup) + Len(v.new)
  BY <1>3, <1>4, <1>5, <1>6, <1>7, <1>9
<1>11. v.next = "recount" => job.total = v.ok + v.failed + Skipped(v.dup)
  <2>1. SUFFICES ASSUME v.next = "recount" PROVE job.total = ok + left + skipped
    BY <1>3, <1>5, <1>6, <1>7
  <2>2. QED
    BY <1>2, <1>9, <2>1
<1>12. From("file") + Doubles(v.dup) = v.ok
  BY <1>1, <1>3, JobTypes
<1>13. Skipped(v.dup)' = Skipped(v.dup) /\ Doubles(v.dup)' = Doubles(v.dup)
  BY DEF Skipped, Doubles
<1>14. v.next \notin Early \cup {"cache", "total", "finish"}
  BY <1>3 DEF Early
<1>15. ImportFits(v)'
  BY <1>3, <1>10, <1>11, <1>12, <1>13, <1>14 DEF ImportFits
<1>16. QED
  BY <1>3, <1>15

LEMMA ImportRows ==
    ASSUME TypeInv, KeptInv, ImportFine, NEW r \in Request, NEW u, u = req[r], u.op = "import", ReadRows(r) \/ CacheCount(r)
    PROVE  ImportFine'
<1>1. PICK v : v = req'[r]
  OBVIOUS
<1>2. From("file")' = From("file") /\ job' = job
  BY SameCounts DEF ReadRows, CacheCount, intakeVars
<1>3. ImportFits(u) /\ u \in ImportReq
  BY ImportFitsNow, MakerFields
<1>4. CASE ReadRows(r)
  <2>1. PICK w \in ImportReq : u.next = "rows" /\ Becomes(r, v) /\ w = AfterRows(u) /\ FileDecided(w, v)
    BY <1>1, <1>4, FileReads
  <2>2. u.new = <<>> /\ u.ok = 0 /\ u.failed = 0 /\ u.dup = 0 /\ u.done = 0
    BY <2>1 DEF KeptInv, Keeps, Early
  <2>3. RowsRead(u, w, Len(job.rows))
    BY <1>3, <2>1, <2>2, RowsAreRead
  <2>4. job.total = Len(job.rows) /\ From("file") = 0
    BY <1>3, <2>1 DEF ImportFits, Early
  <2>5. w.ok = Doubles(w.dup) /\ job.total = w.ok + w.failed + Skipped(w.dup) + Len(w.new) /\ w.done = 0
    BY <2>2, <2>3, <2>4 DEF RowsRead
  <2>6. CASE FileStays(w, v) /\ v.next = "cache" /\ v.new = w.new /\ v.failed = w.failed
    <3>1. v.op = "import" /\ v.ok = w.ok /\ v.dup = w.dup
      BY <2>6 DEF FileStays
    <3>2. Skipped(v.dup)' = Skipped(w.dup) /\ Doubles(v.dup)' = Doubles(w.dup)
      BY <1>2, <3>1 DEF Skipped, Doubles
    <3>3. ImportFits(v)'
      BY <1>2, <2>4, <2>5, <2>6, <3>1, <3>2 DEF ImportFits
    <3>4. QED
      BY <1>2, <2>1, <3>1, <3>3, ImportOn
  <2>7. CASE FileAllowed(w, v, counted)
    BY <1>2, <2>1, <2>4, <2>5, <2>7, ImportAllowed, ImportOn
  <2>8. QED
    BY <2>1, <2>6, <2>7 DEF FileDecided
<1>5. CASE CacheCount(r)
  <2>1. u.next = "cache" /\ Becomes(r, v) /\ FileAllowed(u, v, u.n)
    BY <1>1, <1>5, CacheMoves
  <2>2. u.done = 0
    BY <2>1 DEF KeptInv, Keeps
  <2>3. /\ job.total = Len(job.rows) /\ From("file") = 0
        /\ u.ok = Doubles(u.dup) /\ job.total = u.ok + u.failed + Skipped(u.dup) + Len(u.new)
    BY <1>3, <2>1 DEF ImportFits
  <2>4. v.op = "import" /\ ImportFits(v)'
    BY <1>2, <1>3, <2>1, <2>2, <2>3, ImportAllowed
  <2>5. QED
    BY <1>2, <2>1, <2>4, ImportOn
<1>6. QED
  BY <1>4, <1>5

\* The import inserts what is new, or fails at it.
LEMMA ImportInserts ==
    ASSUME TypeInv, ImportFine, met \subseteq met', NEW r \in Request, Insert(r) \/ Inserted(r) \/ InsertFails(r)
    PROVE  ImportFine'
<1>1. PICK u : u = req[r]
  OBVIOUS
<1>2. PICK v : v = req'[r]
  OBVIOUS
<1>3. /\ u.op = "import" /\ u.next = "bulk" /\ Becomes(r, v) /\ v.op = "import" /\ v.dup = u.dup
      /\ v.next \in {"bulk", "recount"}
  BY <1>1, <1>2, FileInserts DEF Scored
<1>4. job' = job
  BY DEF Insert, Inserted, InsertFails, intakeVars
<1>5. u \in ImportReq /\ u.new \in Seq(Phone) /\ u.done \in Nat /\ u.ok \in Nat /\ u.failed \in Nat /\ u.dup \in Nat
  BY <1>1, <1>3, FileReads, ImportFields
<1>6. PICK len \in Nat, done \in Nat, ok \in Nat, failed \in Nat : len = Len(u.new) /\ done = u.done /\ ok = u.ok /\ failed = u.failed
  BY <1>5
<1>7. PICK skipped \in Nat : skipped = Skipped(u.dup)
  BY <1>5, JobTypes
<1>8. PICK doubles \in Nat : doubles = Doubles(u.dup)
  BY <1>5, JobTypes
<1>9. /\ job.total = Len(job.rows) /\ ok = doubles /\ job.total = ok + failed + skipped + len
      /\ From("file") = done
  BY <1>1, <1>3, <1>6, <1>7, <1>8, ImportFitsNow DEF ImportFits
<1>10. Skipped(v.dup)' = skipped /\ Doubles(v.dup)' = doubles
  BY <1>3, <1>4, <1>7, <1>8 DEF Skipped, Doubles
<1>11. CASE Insert(r)
  <2>1. v.next = "bulk" /\ v.ok = ok /\ v.failed = failed /\ Len(v.new) = len /\ v.done \in Nat /\ done < v.done
        /\ Grown(v.done - u.done, u.batch, "file")
    BY <1>1, <1>2, <1>6, <1>11, FileInserts DEF Scored
  <2>2. PICK k \in Nat : k = v.done - u.done /\ v.done = done + k
    BY <1>6, <2>1
  <2>3. From("file")' = From("file") + k
    BY <2>1, <2>2, GrownCounts
  <2>4. ImportFits(v)'
    BY <1>4, <1>9, <1>10, <2>1, <2>2, <2>3 DEF ImportFits, Early
  <2>5. QED
    BY <1>1, <1>3, <1>4, <2>4, ImportOn
<1>12. CASE Inserted(r)
  <2>1. v.next = "recount" /\ done = len /\ v.failed = failed /\ v.ok = ok + len
    BY <1>1, <1>2, <1>6, <1>12, FileInserts
  <2>2. From("file")' = From("file")
    BY <1>12, SameCounts DEF Inserted
  <2>3. ImportFits(v)'
    BY <1>4, <1>9, <1>10, <2>1, <2>2 DEF ImportFits, Early
  <2>4. QED
    BY <1>1, <1>3, <1>4, <2>3, ImportOn
<1>13. CASE InsertFails(r)
  <2>1. v.next = "recount" /\ v.ok = ok /\ v.failed = failed + len /\ (done > 0 => {"chunks"} \in met')
    BY <1>1, <1>2, <1>6, <1>13, FileInserts
  <2>2. From("file")' = From("file")
    BY <1>13, SameCounts DEF InsertFails, intakeVars
  <2>3. {"chunks"} \in met' \/ From("file")' + doubles = ok
    BY <1>9, <2>1, <2>2
  <2>4. ImportFits(v)'
    BY <1>4, <1>9, <1>10, <2>1, <2>3 DEF ImportFits, Early
  <2>5. QED
    BY <1>1, <1>3, <1>4, <2>4, ImportOn
<1>14. QED
  BY <1>11, <1>12, <1>13

\* Its batch is counted.
LEMMA ImportCounts ==
    ASSUME TypeInv, ImportFine, met \subseteq met', NEW r \in Request, req[r].op = "import", Recount(r) \/ SaveTotal(r)
    PROVE  ImportFine'
<1>1. PICK u : u = req[r]
  OBVIOUS
<1>2. PICK v : v = req'[r]
  OBVIOUS
<1>3. u.op = "import" /\ u.next \in {"recount", "total"} /\ Becomes(r, v)
  BY <1>1, <1>2, CountMoves
<1>4. v.op = "import" /\ v.next \in {"total", "finish"} /\ v.ok = u.ok /\ v.failed = u.failed /\ v.dup = u.dup
  <2>1. CASE Recount(r)
    BY <1>1, <1>2, <1>3, <2>1, CountMoves DEF Ended, CountStays, TallyStays
  <2>2. CASE SaveTotal(r)
    BY <1>1, <1>2, <1>3, <2>2, CountMoves DEF Ended, TallyStays
  <2>3. QED
    BY <2>1, <2>2
<1>5. job' = job /\ From("file")' = From("file")
  BY SameCounts DEF Recount, SaveTotal, intakeVars
<1>6. Skipped(v.dup)' = Skipped(u.dup) /\ Doubles(v.dup)' = Doubles(u.dup)
  BY <1>4, <1>5 DEF Skipped, Doubles
<1>7. ImportFits(u)
  BY <1>1, <1>3, ImportFitsNow
<1>8. ImportFits(v)'
  BY <1>3, <1>4, <1>5, <1>6, <1>7 DEF ImportFits, Early
<1>9. QED
  BY <1>1, <1>3, <1>4, <1>5, <1>8, ImportOn

\* The import ends, or the file could not be read.
LEMMA ImportEnds ==
    ASSUME TypeInv, ImportFine, met \subseteq met', NEW r \in Request, FinishImport(r) \/ Unreadable(r)
    PROVE  ImportFine'
<1>1. PICK u : u = req[r]
  OBVIOUS
<1>2. u.op = "import" /\ Becomes(r, Idle)
  BY <1>1, FileEnds
<1>3. ImportFits(u) /\ job.ok = 0 /\ job.failed = 0 /\ job.dup = 0
  BY <1>1, <1>2, ImportFitsNow
<1>4. From("file")' = From("file")
  BY SameCounts DEF FinishImport, Unreadable
<1>5. CASE FinishImport(r)
  <2>1. /\ u.next = "finish" /\ job'.st \in {"completed", "partial", "failed"} /\ job'.total = job.total /\ job'.rule = job.rule
        /\ job'.ok = u.ok /\ job'.failed = u.failed /\ job'.dup = u.dup
    BY <1>1, <1>5, FileEnds
  <2>2. Skipped(job.dup)' = Skipped(u.dup) /\ Doubles(job.dup)' = Doubles(u.dup)
    BY <2>1 DEF Skipped, Doubles
  <2>3. /\ job'.total = job'.ok + job'.failed + Skipped(job.dup)'
        /\ {"chunks"} \in met' \/ From("file")' + Doubles(job.dup)' = job'.ok
    BY <1>3, <1>4, <2>1, <2>2 DEF ImportFits
  <2>4. QED
    BY <1>1, <1>2, <2>1, <2>3, ImportOver
<1>6. CASE Unreadable(r)
  <2>1. u.next = "parse" /\ job' = [job EXCEPT !.st = "failed"]
    BY <1>1, <1>6, FileEnds
  <2>2. job'.st = "failed" /\ job'.total = job.total /\ job'.ok = 0 /\ job'.failed = 0 /\ job'.dup = 0
    BY <1>3, <2>1, JobTypes DEF JobRec
  <2>3. job.total = 0 /\ From("file")' = 0
    BY <1>3, <1>4, <2>1 DEF ImportFits, Early
  <2>4. Skipped(job.dup)' = 0 /\ Doubles(job.dup)' = 0
    BY <2>2 DEF Skipped, Doubles
  <2>5. QED
    BY <1>1, <1>2, <2>2, <2>3, <2>4, ImportOver
<1>7. QED
  BY <1>5, <1>6

\* Leads of a file come from its import.
LEMMA FileCount ==
    ASSUME TypeInv, KeptInv, IntakeNext, ~\E r \in Request : Insert(r)
    PROVE  From("file")' = From("file")
<1>1. ASSUME NEW r \in Request, CreateLead(r) PROVE From("file")' = From("file")
  <2>1. PICK u : u = req[r]
    OBVIOUS
  <2>2. Grown(1, u.batch, HowOf(u)) /\ HowOf(u) # "file"
    BY <1>1, <2>1, CreateMoves DEF HowOf
  <2>3. QED
    BY <2>2, GrownCounts
<1>2. CASE ~Adds
  <2>1. RowsStay
    BY <1>2, RowsDo
  <2>2. QED
    BY <2>1, StayCounts
<1>3. QED
  BY <1>1, <1>2 DEF Adds

LEMMA ImportUploads ==
    ASSUME TypeInv, KeptInv, ImportFine, met \subseteq met', From("file")' = From("file"),
           NEW file \in Files, NEW rule \in {"skip", "update", "create_new"}, UploadFile(file, rule)
    PROVE  ImportFine'
<1>1. job.st = "none" /\ req' = req
  BY DEF UploadFile
<1>2. job'.st = "pending" /\ job'.ok = 0 /\ job'.failed = 0 /\ job'.dup = 0 /\ job'.total = 0
  BY DEF UploadFile, NoJob
<1>3. From("file")' = 0 /\ ~\E r \in Request : req[r].op = "import"
  BY <1>1 DEF ImportFine, Waiting
<1>4. "processing" \notin Waiting /\ "pending" \in Waiting
  BY DEF Waiting
<1>5. QED
  BY <1>1, <1>2, <1>3, <1>4 DEF ImportFine

LEMMA ImportStays ==
    ASSUME TypeInv, KeptInv, ImportInv, IntakeNext, met \subseteq met'
    PROVE  ImportInv'
<1> USE SavingKinds
<1>1. crashed' = crashed
  BY IntakeNeverCrashes
<1>2. SUFFICES ASSUME ~crashed PROVE ImportFine'
  BY <1>1 DEF ImportInv
<1>3. ImportFine
  BY <1>2 DEF ImportInv
<1>4. ASSUME NEW r \in Request, Insert(r) PROVE ImportFine'
  BY <1>3, <1>4, ImportInserts
<1>5. SUFFICES ASSUME ~\E r \in Request : Insert(r) PROVE ImportFine'
  BY <1>4
<1>6. From("file")' = From("file")
  BY <1>5, FileCount
<1>7. ASSUME NEW r \in Request, NEW u, u = req[r], NEW v, v = req'[r], Becomes(r, v), u.op # "import", v.op # "import", job' = job
      PROVE  ImportFine'
  BY <1>3, <1>6, <1>7, ImportSame DEF Becomes
<1>8. ASSUME NEW r \in Request,
             \/ \E left \in Deliveries : SyncNow(r, left) \/ \E lenient \in BOOLEAN : Deliver(r, left, lenient)
             \/ \E on \in BOOLEAN : SetSource(r, on)
             \/ \E p \in Phone : ByForm(r, p)
             \/ \E ls \in (SUBSET DOMAIN arrived) \ {{}} : Delete(r, ls)
             \/ \E i \in DOMAIN arrived, p \in Phone : Amend(r, i, p)
             \/ \E b \in DOMAIN batches : Rename(r, b)
      PROVE  ImportFine'
  <2>1. PICK v : v = req'[r]
    OBVIOUS
  <2>2. Begun(r, v) /\ v.op # "import"
    <3>1. CASE \E left \in Deliveries : SyncNow(r, left) \/ \E lenient \in BOOLEAN : Deliver(r, left, lenient)
      BY <2>1, <3>1, HookBegins
    <3>2. CASE \E on \in BOOLEAN : SetSource(r, on)
      BY <2>1, <3>2, ToggleMoves
    <3>3. CASE \E p \in Phone : ByForm(r, p)
      BY <2>1, <3>3, FormMoves
    <3>4. CASE \E ls \in (SUBSET DOMAIN arrived) \ {{}} : Delete(r, ls)
      BY <2>1, <3>4, DeleteMoves
    <3>5. CASE (\E i \in DOMAIN arrived, p \in Phone : Amend(r, i, p)) \/ \E b \in DOMAIN batches : Rename(r, b)
      BY <2>1, <3>5, RowMoves
    <3>6. QED
      BY <1>8, <3>1, <3>2, <3>3, <3>4, <3>5
  <2>3. job' = job
    BY <1>8 DEF SyncNow, Deliver, SetSource, ByForm, Delete, Amend, Rename, intakeVars
  <2>4. QED
    BY <1>7, <2>1, <2>2, <2>3 DEF Begun, Free
<1>9. ASSUME NEW r \in Request,
             \/ LookUp(r) \/ TodaysBatch(r) \/ CreateFails(r) \/ NoteCreated(r) \/ AddToBatch(r) \/ CreateLead(r)
             \/ SaveReceived(r) \/ SaveError(r) \/ SaveSource(r)
      PROVE  ImportFine'
  <2>1. PICK u : u = req[r]
    OBVIOUS
  <2>2. PICK v : v = req'[r]
    OBVIOUS
  <2>3. Becomes(r, v) /\ u.op # "import" /\ v.op # "import"
    <3>1. CASE LookUp(r) \/ CreateFails(r)
      BY <2>1, <2>2, <3>1, HookMoves DEF LookedUpTo, HookStays
    <3>2. CASE TodaysBatch(r) \/ AddToBatch(r) \/ SaveReceived(r) \/ SaveError(r)
      BY <2>1, <2>2, <3>2, HookMoves
    <3>3. CASE NoteCreated(r)
      BY <2>1, <2>2, <3>3, HookMoves, FormMoves
    <3>4. CASE CreateLead(r)
      BY <2>1, <2>2, <3>4, CreateMoves
    <3>5. CASE SaveSource(r)
      BY <2>1, <2>2, <3>5, ToggleMoves
    <3>6. QED
      BY <1>9, <3>1, <3>2, <3>3, <3>4, <3>5
  <2>4. job' = job
    BY <1>9 DEF LookUp, TodaysBatch, CreateFails, NoteCreated, AddToBatch, CreateLead, SaveReceived, SaveError, SaveSource, intakeVars
  <2>5. QED
    BY <1>7, <2>1, <2>2, <2>3, <2>4
<1>10. ASSUME NEW r \in Request,
              SaveLead(r) \/ SaveBatch(r) \/ MarkDeleted(r) \/ LoadBatch(r) \/ Recount(r) \/ SaveTotal(r) \/ CacheCount(r)
      PROVE  ImportFine'
  <2>1. PICK u : u = req[r]
    OBVIOUS
  <2>2. PICK v : v = req'[r]
    OBVIOUS
  <2>3. CASE u.op = "import"
    <3>1. Recount(r) \/ SaveTotal(r) \/ CacheCount(r)
      BY <1>10, <2>1, <2>3 DEF SaveLead, SaveBatch, MarkDeleted, LoadBatch, At
    <3>2. QED
      BY <1>3, <2>1, <2>3, <3>1, ImportCounts, ImportRows
  <2>4. CASE u.op # "import"
    <3>1. job' = job
      BY <1>10 DEF SaveLead, SaveBatch, MarkDeleted, LoadBatch, Recount, SaveTotal, CacheCount, intakeVars
    <3>2. Becomes(r, v) /\ v.op # "import"
      <4>1. CASE SaveLead(r) \/ SaveBatch(r)
        BY <2>1, <2>2, <4>1, RowMoves
      <4>2. CASE MarkDeleted(r) \/ LoadBatch(r)
        BY <2>1, <2>2, <4>2, DeleteMoves
      <4>3. CASE Recount(r) \/ SaveTotal(r)
        BY <2>1, <2>2, <2>4, <4>3, CountMoves DEF Ended, CountStays
      <4>4. CASE CacheCount(r)
        BY <2>1, <2>2, <2>4, <4>4, CacheMoves DEF HookAllowed, HookStays, HandStays
      <4>5. QED
        BY <1>10, <4>1, <4>2, <4>3, <4>4
    <3>3. QED
      BY <1>7, <2>1, <2>2, <2>4, <3>1, <3>2
  <2>5. QED
    BY <2>3, <2>4
<1>11. ASSUME NEW r \in Request,
              \/ RunImport(r) \/ Parse(r) \/ Unreadable(r) \/ OpenBatch(r) \/ ReadPhones(r)
              \/ ReadRows(r) \/ Inserted(r) \/ InsertFails(r) \/ FinishImport(r)
       PROVE  ImportFine'
  <2>1. CASE RunImport(r)
    BY <1>3, <2>1, ImportBegins
  <2>2. CASE Parse(r) \/ OpenBatch(r) \/ ReadPhones(r)
    BY <1>3, <2>2, ImportReads
  <2>3. CASE ReadRows(r)
    <3>1. PICK u : u = req[r]
      OBVIOUS
    <3>2. u.op = "import"
      BY <2>3, <3>1, FileReads
    <3>3. QED
      BY <1>3, <2>3, <3>1, <3>2, ImportRows
  <2>4. CASE Inserted(r) \/ InsertFails(r)
    BY <1>3, <2>4, ImportInserts
  <2>5. CASE Unreadable(r) \/ FinishImport(r)
    BY <1>3, <2>5, ImportEnds
  <2>6. QED
    BY <1>11, <2>1, <2>2, <2>3, <2>4, <2>5
<1>12. CASE (\E b \in DOMAIN batches : DropBatch(b)) \/ Expires
  <2>1. job' = job /\ req' = req
    BY <1>12 DEF DropBatch, Expires
  <2>2. QED
    BY <1>3, <1>6, <2>1, ImportSame
<1>13. CASE \E file \in Files, rule \in {"skip", "update", "create_new"} : UploadFile(file, rule)
  BY <1>3, <1>6, <1>13, ImportUploads
<1>14. QED
  BY <1>5, <1>8, <1>9, <1>10, <1>11, <1>12, <1>13 DEF IntakeNext

-----------------------------------------------------------------------------
(* The batches: a batch's count is that of its leads, but for the leads a    *)
(* delivery is about to add to it, and unless one that counts is at it.      *)

Counting(w) ==
    \/ w.op = "delete" /\ w.next \in {"load", "recount", "total"}
    \/ w.op = "import" /\ w.next \in {"phones", "rows", "cache", "bulk", "recount", "total"}
\* It created a lead that its batch does not count yet.
Unadded(w) == w.op \in Adders /\ w.next \in {"note", "add"}
Adding(b) == {r \in Request : Unadded(req[r]) /\ req[r].batch = b}
\* An edit has the lead's batch in hand.
SameRow(w) == w.row.batch = arrived[w.lead].batch /\ w.row.live = arrived[w.lead].live
BatchFits(w) ==
    /\ w.op \in Adders \cup {"delete"} => w.batch <= Len(batches)
    /\ w.op = "hand" => w.batch = 0
    /\ w.op = "import" /\ w.next \in {"parse", "open"} => w.was = 0
    /\ w.op \in Editors => w.lead \in DOMAIN arrived /\ w.row.batch <= Len(batches) /\ (SameRow(w) \/ ~Refers(w.row.batch))
    /\ w.op = "delete" /\ w.next = "mark" =>
          w.leads \subseteq DOMAIN arrived /\ \A i \in w.leads : arrived[i].batch \in {0, w.batch}
    /\ w.op = "rename" => Exists(w.batch) /\ w.row = batches[w.batch]
    /\ Counting(w) => /\ w.batch <= Len(batches)
                      /\ w.next # "load" /\ Exists(w.batch) => batches[w.batch].total = w.was
                      /\ w.next = "total" /\ Exists(w.batch) => w.n = InBatch(w.batch)
Settled(b) == batches[b].total + Cardinality(Adding(b)) = InBatch(b)
BatchFine ==
    /\ \A b \in DOMAIN batches : Exists(b) => (\E r \in Request : Counting(req[r]) /\ req[r].batch = b) \/ Settled(b)
    /\ \A i \in DOMAIN arrived : arrived[i].batch <= Len(batches)
    /\ \A r \in Request : BatchFits(req[r])
BatchMet == Met(Counters, Adders \cup Counters) \/ EditMet \/ Met({"rename"}, Adders \cup Counters \cup {"drop"})
BatchInv == crashed \/ BatchMet \/ BatchFine

LEMMA Numbered ==
    ASSUME TypeInv
    PROVE  /\ Len(batches) \in Nat /\ DOMAIN batches = 1..Len(batches)
           /\ \A b : Exists(b) => b \in DOMAIN batches /\ b \in Nat /\ b # 0
           /\ \A b \in DOMAIN batches : batches[b] \in BatchRec /\ batches[b].total \in Nat
           /\ \A i \in DOMAIN arrived : arrived[i].batch \in Nat
           /\ DOMAIN arrived = 1..Len(arrived) /\ Len(arrived) \in Nat
<1>1. batches \in Seq(BatchRec) /\ arrived \in Seq(Arrival)
  BY IntakeVariables
<1>2. Len(batches) \in Nat /\ DOMAIN batches = 1..Len(batches)
  BY <1>1
<1>3. \A b \in DOMAIN batches : batches[b] \in BatchRec /\ batches[b].total \in Nat
  <2>1. \A b \in DOMAIN batches : batches[b] \in BatchRec
    BY <1>1
  <2>2. QED
    BY <2>1 DEF BatchRec
<1>4. \A i \in DOMAIN arrived : arrived[i].batch \in Nat
  <2>1. \A i \in DOMAIN arrived : arrived[i] \in Arrival
    BY <1>1
  <2>2. QED
    BY <2>1 DEF Arrival
<1>5. DOMAIN arrived = 1..Len(arrived) /\ Len(arrived) \in Nat
  BY <1>1
<1>6. \A b : Exists(b) => b \in DOMAIN batches /\ b \in Nat /\ b # 0
  BY <1>2 DEF Exists
<1>7. QED
  BY <1>2, <1>3, <1>4, <1>5, <1>6

LEMMA AddingsFinite == ASSUME NEW b PROVE IsFiniteSet(Adding(b)) /\ Cardinality(Adding(b)) \in Nat
<1>1. PICK A : A = Adding(b)
  OBVIOUS
<1>2. A \subseteq Request
  BY <1>1 DEF Adding
<1>3. IsFiniteSet(A)
  BY <1>2, RequestsAssumption, FS_Subset
<1>4. Cardinality(A) \in Nat
  BY <1>3, FS_CardinalityType
<1>5. QED
  BY <1>1, <1>3, <1>4

\* What those may be doing that did not meet.
LEMMA BatchApart ==
    ASSUME IntakeMeets, IntakeMeets', met \subseteq met', ~BatchMet', NEW r \in Request, NEW v, Becomes(r, v)
    PROVE  /\ req[r].op \in Counters \/ v.op \in Counters =>
                 \A q \in Request \ {r} : req[q].op \notin Adders \cup Counters \cup {"rename"}
           /\ req[r].op \in Adders \/ v.op \in Adders => \A q \in Request \ {r} : req[q].op \notin Counters \cup {"rename"}
           /\ req[r].op = "delete" \/ v.op = "delete" => \A q \in Request \ {r} : req[q].op \notin Editors
<1> USE SavingKinds
<1>1. Counters \in SUBSET IntakeKinds /\ Adders \in SUBSET IntakeKinds /\ {"rename"} \in SUBSET IntakeKinds
      /\ {"delete"} \in SUBSET IntakeKinds /\ Editors \in SUBSET IntakeKinds
  BY DEF IntakeKinds
<1>2. ~Met(Counters, Adders \cup Counters)' /\ ~Met({"rename"}, Adders \cup Counters)' /\ ~Met(Editors, {"delete"})'
  BY DEF BatchMet, EditMet, Met
<1>3. ~Met(Adders, Counters)' /\ ~Met(Adders \cup Counters, {"rename"})' /\ ~Met({"delete"}, Editors)'
  <2>1. ASSUME NEW A, NEW B, Met(A, B)' PROVE Met(B, A)'
    <3>1. PICK a \in A, b \in B : {a, b} \in met'
      BY <2>1 DEF Met
    <3>2. {b, a} \in met'
      BY <3>1
    <3>3. QED
      BY <3>2 DEF Met
  <2>2. ~Met(Counters, Adders)'
    BY <1>2 DEF Met
  <2>3. QED
    BY <1>2, <2>1, <2>2
<1>4. req[r].op \in Counters \/ v.op \in Counters => \A q \in Request \ {r} : req[q].op \notin Adders \cup Counters
  <2>1. Adders \cup Counters \in SUBSET IntakeKinds
    BY <1>1
  <2>2. QED
    BY <1>1, <1>2, <2>1, Apart
<1>5. req[r].op \in Adders \/ v.op \in Adders => \A q \in Request \ {r} : req[q].op \notin Counters
  BY <1>1, <1>3, Apart
<1>6. req[r].op \in Adders \cup Counters \/ v.op \in Adders \cup Counters => \A q \in Request \ {r} : req[q].op \notin {"rename"}
  <2>1. Adders \cup Counters \in SUBSET IntakeKinds
    BY <1>1
  <2>2. QED
    BY <1>1, <1>3, <2>1, Apart
<1>7. req[r].op \in {"delete"} \/ v.op \in {"delete"} => \A q \in Request \ {r} : req[q].op \notin Editors
  BY <1>1, <1>3, Apart
<1>8. QED
  BY <1>4, <1>5, <1>6, <1>7

\* Leads keep their batches, and what is deleted.
BatchRowsStay == DOMAIN arrived' = DOMAIN arrived /\ \A i \in DOMAIN arrived : /\ arrived'[i].batch = arrived[i].batch
                                                                             /\ arrived'[i].live = arrived[i].live

LEMMA BatchFitsStay ==
    ASSUME BatchRowsStay, batches' = batches, NEW w, BatchFits(w)
    PROVE  BatchFits(w)'
<1>1. \A b : Exists(b)' = Exists(b) /\ Refers(b)' = Refers(b)
  BY DEF Exists, Refers
<1>2. ASSUME NEW b PROVE InBatch(b)' = InBatch(b)
  <2>1. {i \in DOMAIN arrived : arrived[i].batch = b /\ arrived[i].live} = {i \in DOMAIN arrived' : arrived'[i].batch = b /\ arrived'[i].live}
    BY DEF BatchRowsStay
  <2>2. QED
    BY <2>1 DEF InBatch
<1>3. w.op \in Editors /\ SameRow(w) => SameRow(w)'
  BY DEF SameRow, BatchRowsStay, BatchFits
<1>4. w.op = "delete" /\ w.next = "mark" =>
          w.leads \subseteq DOMAIN arrived' /\ \A i \in w.leads : arrived'[i].batch \in {0, w.batch}
  BY DEF BatchFits, BatchRowsStay
<1>5. w.op \in Editors => w.lead \in DOMAIN arrived' /\ w.row.batch <= Len(batches') /\ (SameRow(w)' \/ ~Refers(w.row.batch)')
  BY <1>1, <1>3 DEF BatchFits, BatchRowsStay
<1>6. QED
  BY <1>1, <1>2, <1>4, <1>5 DEF BatchFits, Counting

LEMMA BatchFitsSame ==
    ASSUME arrived' = arrived, batches' = batches, NEW w, BatchFits(w)
    PROVE  BatchFits(w)'
BY BatchFitsStay DEF BatchRowsStay

\* A request goes on that changes neither batches nor the batches of leads.
LEMMA BatchGoesOn ==
    ASSUME BatchFine, BatchRowsStay, batches' = batches, NEW r \in Request, NEW u, u = req[r], NEW v, Becomes(r, v),
           BatchFits(v), Unadded(u) <=> Unadded(v), Unadded(v) => v.batch = u.batch,
           Counting(u) => (Counting(v) /\ v.batch = u.batch) \/ ~Exists(u.batch) \/ Settled(u.batch)
    PROVE  BatchFine'
<1>1. req'[r] = v /\ \A q \in Request \ {r} : req'[q] = req[q]
  BY DEF Becomes
<1>2. \A q \in Request : BatchFits(req[q])'
  <2>1. BatchFits(v)'
    BY BatchFitsStay
  <2>2. ASSUME NEW q \in Request \ {r} PROVE BatchFits(req[q])'
    <3>1. PICK w : w = req[q]
      OBVIOUS
    <3>2. BatchFits(w)'
      BY <3>1, BatchFitsStay DEF BatchFine
    <3>3. QED
      BY <1>1, <3>1, <3>2
  <2>3. QED
    BY <1>1, <2>1, <2>2
<1>3. ASSUME NEW b PROVE Settled(b) => Settled(b)'
  <2>1. PICK A : A = Adding(b)
    OBVIOUS
  <2>2. Adding(b)' = A
    BY <1>1, <2>1 DEF Adding
  <2>3. {i \in DOMAIN arrived : arrived[i].batch = b /\ arrived[i].live} = {i \in DOMAIN arrived' : arrived'[i].batch = b /\ arrived'[i].live}
    BY DEF BatchRowsStay
  <2>4. InBatch(b)' = InBatch(b)
    BY <2>3 DEF InBatch
  <2>5. QED
    BY <2>1, <2>2, <2>4 DEF Settled
<1>4. ASSUME NEW b \in DOMAIN batches, Exists(b) PROVE (\E q \in Request : Counting(req'[q]) /\ req'[q].batch = b) \/ Settled(b)'
  BY <1>1, <1>3, <1>4 DEF BatchFine
<1>5. \A b : Exists(b)' = Exists(b)
  BY DEF Exists
<1>6. \A b \in DOMAIN batches' : Exists(b)' => (\E q \in Request : Counting(req[q])' /\ req'[q].batch = b) \/ Settled(b)'
  BY <1>4, <1>5 DEF Counting
<1>7. \A i \in DOMAIN arrived' : arrived'[i].batch <= Len(batches')
  BY DEF BatchFine, BatchRowsStay
<1>8. QED
  BY <1>2, <1>6, <1>7 DEF BatchFine

LEMMA BatchGoes ==
    ASSUME BatchFine, arrived' = arrived, batches' = batches, NEW r \in Request, NEW u, u = req[r], NEW v, Becomes(r, v),
           BatchFits(v), Unadded(u) <=> Unadded(v), Unadded(v) => v.batch = u.batch,
           Counting(u) => (Counting(v) /\ v.batch = u.batch) \/ ~Exists(u.batch) \/ Settled(u.batch)
    PROVE  BatchFine'
<1>1. BatchRowsStay
  BY DEF BatchRowsStay
<1>2. QED
  BY <1>1, BatchGoesOn

LEMMA BatchBegins ==
    ASSUME TypeInv, BatchFine, NEW r \in Request,
           \/ \E left \in Deliveries : SyncNow(r, left) \/ \E lenient \in BOOLEAN : Deliver(r, left, lenient)
           \/ \E on \in BOOLEAN : SetSource(r, on)
           \/ \E p \in Phone : ByForm(r, p)
           \/ \E ls \in (SUBSET DOMAIN arrived) \ {{}} : Delete(r, ls)
           \/ \E i \in DOMAIN arrived, p \in Phone : Amend(r, i, p)
           \/ \E b \in DOMAIN batches : Rename(r, b)
           \/ RunImport(r)
    PROVE  BatchFine'
<1> USE SavingKinds
<1>1. PICK u : u = req[r]
  OBVIOUS
<1>2. PICK v : v = req'[r]
  OBVIOUS
<1>3. arrived' = arrived /\ batches' = batches
  BY DEF SyncNow, Deliver, SetSource, ByForm, Delete, Amend, Rename, RunImport, intakeVars
<1>4. SUFFICES Begun(r, v) /\ BatchFits(v) /\ ~Unadded(v)
  BY <1>1, <1>3, BatchGoes DEF Begun, Free, Unadded, Counting
<1>5. Len(batches) \in Nat
  BY Numbered
<1>6. ASSUME NEW left \in Deliveries, SyncNow(r, left) \/ \E lenient \in BOOLEAN : Deliver(r, left, lenient)
      PROVE  Begun(r, v) /\ BatchFits(v) /\ ~Unadded(v)
  <2>1. Begun(r, v) /\ v.op \in Adders /\ HookLoads(v)
    BY <1>2, <1>6, HookBegins
  <2>2. v.batch = 0 /\ v.next \in {"cache", "batch", "config", "look", "error"}
    BY <2>1 DEF HookLoads, LookedUpTo, HookStays, HookDecided, HookAllowed
  <2>3. QED
    BY <1>5, <2>1, <2>2 DEF BatchFits, Unadded, Counting
<1>7. ASSUME NEW on \in BOOLEAN, SetSource(r, on) PROVE Begun(r, v) /\ BatchFits(v) /\ ~Unadded(v)
  <2>1. Begun(r, v) /\ v.op = "toggle"
    BY <1>2, <1>7, ToggleMoves
  <2>2. QED
    BY <2>1 DEF BatchFits, Unadded, Counting
<1>8. ASSUME NEW p \in Phone, ByForm(r, p) PROVE Begun(r, v) /\ BatchFits(v) /\ ~Unadded(v)
  <2>1. Begun(r, v) /\ v.op = "hand" /\ v.batch = 0
    BY <1>2, <1>8, FormMoves
  <2>2. QED
    BY <2>1 DEF BatchFits, Unadded, Counting
<1>9. ASSUME NEW ls \in (SUBSET DOMAIN arrived) \ {{}}, Delete(r, ls) PROVE Begun(r, v) /\ BatchFits(v) /\ ~Unadded(v)
  <2>1. Begun(r, v) /\ v.op = "delete" /\ v.next = "mark" /\ v.leads = ls /\ \A i \in ls : arrived[i].batch = v.batch
    BY <1>2, <1>9, DeleteMoves
  <2>2. PICK i \in ls : i \in DOMAIN arrived
    OBVIOUS
  <2>3. v.batch <= Len(batches)
    BY <2>1, <2>2 DEF BatchFine
  <2>4. QED
    BY <2>1, <2>3 DEF BatchFits, Unadded, Counting
<1>10. ASSUME NEW i \in DOMAIN arrived, NEW p \in Phone, Amend(r, i, p) PROVE Begun(r, v) /\ BatchFits(v) /\ ~Unadded(v)
  <2>1. Begun(r, v) /\ v.op \in Editors /\ v.lead = i /\ FormLoaded(v, p)
    BY <1>2, <1>10, RowMoves
  <2>2. v.row.batch = arrived[i].batch /\ v.row.live /\ arrived[i].live
    BY <2>1 DEF FormLoaded
  <2>3. SameRow(v) /\ v.row.batch <= Len(batches)
    BY <2>1, <2>2 DEF SameRow, BatchFine
  <2>4. QED
    BY <2>1, <2>3 DEF BatchFits, Unadded, Counting
<1>11. ASSUME NEW b \in DOMAIN batches, Rename(r, b) PROVE Begun(r, v) /\ BatchFits(v) /\ ~Unadded(v)
  <2>1. Begun(r, v) /\ v.op = "rename" /\ v.batch = b /\ v.row = batches[b] /\ Exists(b)
    BY <1>2, <1>11, RowMoves
  <2>2. QED
    BY <2>1 DEF BatchFits, Unadded, Counting
<1>12. ASSUME RunImport(r) PROVE Begun(r, v) /\ BatchFits(v) /\ ~Unadded(v)
  <2>1. Begun(r, v) /\ v.op = "import" /\ v.next = "parse" /\ v.was = 0
    BY <1>2, <1>12, FileBegins
  <2>2. QED
    BY <2>1 DEF BatchFits, Unadded, Counting
<1>13. QED
  BY <1>6, <1>7, <1>8, <1>9, <1>10, <1>11, <1>12

\* A delivery, the settings form or a lead by hand goes on.
LEMMA BatchHooks ==
    ASSUME TypeInv, BatchFine, NEW r \in Request, NEW u, u = req[r],
           \/ LookUp(r) \/ CreateFails(r) \/ NoteCreated(r) \/ SaveReceived(r) \/ SaveError(r) \/ SaveSource(r)
           \/ (CacheCount(r) /\ u.op # "import")
    PROVE  BatchFine'
<1> USE SavingKinds
<1>1. PICK v : v = req'[r]
  OBVIOUS
<1>2. arrived' = arrived /\ batches' = batches
  BY DEF LookUp, CreateFails, NoteCreated, SaveReceived, SaveError, SaveSource, CacheCount, intakeVars
<1>3. BatchFits(u) /\ Len(batches) \in Nat
  BY Numbered DEF BatchFine
<1>4. ~Counting(u)
  BY DEF LookUp, CreateFails, NoteCreated, SaveReceived, SaveError, SaveSource, CacheCount, At, Intakes, Counting
<1>5. SUFFICES /\ Becomes(r, v) /\ BatchFits(v)
               /\ Unadded(u) <=> Unadded(v)
               /\ Unadded(v) => v.batch = u.batch
  BY <1>2, <1>4, BatchGoes
<1>6. ASSUME v.op \in Adders, v.batch \in {u.batch, 0}, u.op \in Adders PROVE BatchFits(v)
  BY <1>3, <1>6 DEF BatchFits, Counting
<1>7. ASSUME LookUp(r) \/ CreateFails(r) \/ (CacheCount(r) /\ u.op \in Adders)
      PROVE  Becomes(r, v) /\ BatchFits(v) /\ ~Unadded(u) /\ ~Unadded(v)
  <2>1. u.op \in Adders /\ u.next \in {"look", "create", "cache"} /\ Becomes(r, v) /\ HookStays(u, v)
        /\ v.next \in {"cache", "batch", "config", "look", "error"}
    <3>1. CASE LookUp(r)
      BY <1>1, <3>1, HookMoves DEF LookedUpTo, HookDecided, HookAllowed, HookStays
    <3>2. CASE CreateFails(r)
      BY <1>1, <3>2, HookMoves
    <3>3. CASE CacheCount(r) /\ u.op \in Adders
      BY <1>1, <3>3, CacheMoves DEF HookAllowed
    <3>4. QED
      BY <1>7, <3>1, <3>2, <3>3
  <2>2. QED
    BY <1>6, <2>1 DEF HookStays, Unadded
<1>8. ASSUME CacheCount(r), u.op = "hand" PROVE Becomes(r, v) /\ BatchFits(v) /\ ~Unadded(u) /\ ~Unadded(v)
  <2>1. Becomes(r, v) /\ (v.op = "idle" \/ (v.op = "hand" /\ v.batch = u.batch))
    BY <1>1, <1>8, CacheMoves DEF HandStays
  <2>2. QED
    BY <1>3, <1>8, <2>1 DEF BatchFits, Unadded, Counting
<1>9. ASSUME NoteCreated(r)
      PROVE  /\ Becomes(r, v) /\ BatchFits(v)
             /\ Unadded(u) <=> Unadded(v)
             /\ Unadded(v) => v.batch = u.batch
  <2>1. CASE u.op = "hand"
    BY <1>1, <1>9, <2>1, FormMoves DEF BatchFits, Unadded, Counting
  <2>2. CASE u.op # "hand"
    BY <1>1, <1>6, <1>9, <2>2, HookMoves DEF Unadded
  <2>3. QED
    BY <2>1, <2>2
<1>10. ASSUME SaveReceived(r) \/ SaveError(r) \/ SaveSource(r) PROVE Becomes(r, v) /\ BatchFits(v) /\ ~Unadded(u) /\ ~Unadded(v)
  <2>1. Becomes(r, v) /\ v.op = "idle"
    BY <1>1, <1>10, HookMoves, ToggleMoves
  <2>2. ~Unadded(u)
    BY <1>10 DEF SaveReceived, SaveError, SaveSource, At, Unadded
  <2>3. QED
    BY <2>1, <2>2 DEF BatchFits, Unadded, Counting
<1>11. CacheCount(r) => u.op \in Makers
  BY CacheMoves
<1>12. QED
  BY <1>7, <1>8, <1>9, <1>10, <1>11

\* An import goes on, without opening its batch or inserting.
LEMMA BatchFiles ==
    ASSUME TypeInv, KeptInv, BatchFine, NEW r \in Request, NEW u, u = req[r],
           \/ Parse(r) \/ Unreadable(r) \/ ReadPhones(r) \/ ReadRows(r) \/ Inserted(r) \/ InsertFails(r) \/ FinishImport(r)
           \/ (CacheCount(r) /\ u.op = "import")
    PROVE  BatchFine'
<1> USE SavingKinds
<1>1. PICK v : v = req'[r]
  OBVIOUS
<1>2. arrived' = arrived /\ batches' = batches
  BY DEF Parse, Unreadable, ReadPhones, ReadRows, Inserted, InsertFails, FinishImport, CacheCount, intakeVars
<1>3. u.op = "import" /\ BatchFits(u)
  BY FileReads, FileInserts, FileEnds DEF BatchFine
<1>4. CASE Unreadable(r) \/ FinishImport(r)
  <2>1. u.next \in {"parse", "finish"} /\ Becomes(r, v) /\ v.op = "idle"
    BY <1>1, <1>4, FileEnds
  <2>2. QED
    BY <1>2, <1>3, <2>1, BatchGoes DEF BatchFits, Unadded, Counting
<1>5. CASE Parse(r)
  <2>1. u.next = "parse" /\ Becomes(r, v) /\ v.op = "import" /\ v.next = "open" /\ Placed(u, v)
    BY <1>1, <1>5, FileReads
  <2>2. QED
    BY <1>2, <1>3, <2>1, BatchGoes DEF BatchFits, Unadded, Counting, Placed
<1>6. ASSUME u.next \in {"phones", "rows", "cache", "bulk"}, Becomes(r, v), v.op = "import", v.batch = u.batch, v.was = u.was,
             v.next \in {"rows", "cache", "bulk", "recount"}
      PROVE  BatchFine'
  <2>1. BatchFits(v)
    BY <1>3, <1>6 DEF BatchFits, Counting
  <2>2. QED
    BY <1>2, <1>3, <1>6, <2>1, BatchGoes DEF Unadded, Counting
<1>7. CASE ReadPhones(r)
  BY <1>1, <1>6, <1>7, FileReads DEF Placed
<1>8. CASE ReadRows(r)
  <2>1. PICK w \in ImportReq : u.next = "rows" /\ Becomes(r, v) /\ w = AfterRows(u) /\ FileDecided(w, v)
    BY <1>1, <1>8, FileReads
  <2>2. u \in ImportReq /\ u.new = <<>> /\ u.ok = 0 /\ u.failed = 0 /\ u.dup = 0
    BY <1>3, <2>1, FileReads DEF KeptInv, Keeps, Early
  <2>3. w.batch = u.batch /\ w.was = u.was
    BY <2>1, <2>2, RowsAreRead DEF RowsRead, Placed
  <2>4. v.op = "import" /\ v.batch = w.batch /\ v.was = w.was /\ v.next \in {"cache", "bulk", "recount"}
    BY <2>1 DEF FileDecided, FileAllowed, FileStays
  <2>5. QED
    BY <1>6, <2>1, <2>3, <2>4
<1>9. CASE Inserted(r) \/ InsertFails(r)
  BY <1>1, <1>6, <1>9, FileInserts DEF Placed
<1>10. CASE CacheCount(r)
  BY <1>1, <1>3, <1>6, <1>10, CacheMoves DEF FileAllowed, FileStays
<1>11. QED
  BY <1>4, <1>5, <1>7, <1>8, <1>9, <1>10

LEMMA NoneAdding ==
    ASSUME \A q \in Request : ~Unadded(req[q]), NEW b
    PROVE  Adding(b) = {} /\ Cardinality(Adding(b)) = 0
<1>1. Adding(b) = {}
  BY DEF Adding
<1>2. QED
  BY <1>1, FS_EmptySet

\* A lead or a batch is saved as it is; a batch is loaded and counted.
LEMMA BatchRows ==
    ASSUME TypeInv, KeptInv, IntakeMeets, IntakeMeets', met \subseteq met', ~BatchMet', BatchFine, NEW r \in Request,
           SaveLead(r) \/ SaveBatch(r) \/ LoadBatch(r) \/ Recount(r)
    PROVE  BatchFine'
<1> USE SavingKinds
<1>1. PICK u : u = req[r]
  OBVIOUS
<1>2. PICK v : v = req'[r]
  OBVIOUS
<1>3. BatchFits(u) /\ arrived \in Seq(Arrival) /\ batches \in Seq(BatchRec)
  BY <1>1, IntakeVariables DEF BatchFine
<1>4. CASE SaveLead(r)
  <2>1. u.op \in Editors /\ Becomes(r, v) /\ v.op = "idle" /\ u.lead \in DOMAIN arrived
    BY <1>1, <1>2, <1>4, RowMoves, SaveLeadRows
  <2>2. arrived' = arrived \/ (Refers(u.row.batch) /\ arrived' = [arrived EXCEPT ![u.lead] = u.row])
    BY <1>1, <1>4, RowMoves
  <2>3. SameRow(u) \/ ~Refers(u.row.batch)
    BY <1>3, <2>1 DEF BatchFits
  <2>4. BatchRowsStay
    <3>1. CASE arrived' = arrived
      BY <3>1 DEF BatchRowsStay
    <3>2. CASE SameRow(u) /\ arrived' = [arrived EXCEPT ![u.lead] = u.row]
      BY <2>1, <3>2 DEF SameRow, BatchRowsStay
    <3>3. QED
      BY <2>2, <2>3, <3>1, <3>2
  <2>5. batches' = batches
    BY <1>4 DEF SaveLead
  <2>6. BatchFits(v) /\ ~Unadded(u) /\ ~Unadded(v) /\ ~Counting(u)
    BY <2>1 DEF BatchFits, Unadded, Counting
  <2>7. QED
    BY <1>1, <2>1, <2>4, <2>5, <2>6, BatchGoesOn
<1>5. CASE SaveBatch(r)
  <2>1. u.op = "rename" /\ Becomes(r, v) /\ v.op = "idle"
    BY <1>1, <1>2, <1>5, RowMoves
  <2>2. u.row = batches[u.batch] /\ Exists(u.batch)
    BY <1>3, <2>1 DEF BatchFits
  <2>3. batches' = [batches EXCEPT ![u.batch] = u.row]
    BY <1>1, <1>5, <2>2 DEF SaveBatch
  <2>4. batches' = batches
    BY <1>3, <2>2, <2>3
  <2>5. arrived' = arrived
    BY <1>5 DEF SaveBatch
  <2>6. QED
    BY <1>1, <2>1, <2>4, <2>5, BatchGoes DEF BatchFits, Unadded, Counting
<1>6. CASE LoadBatch(r)
  <2>1. u.op = "delete" /\ u.next = "load" /\ Becomes(r, v)
    BY <1>1, <1>2, <1>6, DeleteMoves
  <2>2. arrived' = arrived /\ batches' = batches
    BY <1>6 DEF LoadBatch, intakeVars
  <2>3. CASE v.op = "idle" /\ ~Exists(u.batch)
    BY <1>1, <2>1, <2>2, <2>3, BatchGoes DEF BatchFits, Unadded, Counting
  <2>4. CASE v.op = "delete" /\ v.next = "recount" /\ v.batch = u.batch /\ v.was = batches[u.batch].total
    <3>1. BatchFits(v)
      BY <1>3, <2>1, <2>4 DEF BatchFits, Counting
    <3>2. QED
      BY <1>1, <2>1, <2>2, <2>4, <3>1, BatchGoes DEF Unadded, Counting
  <2>5. QED
    BY <1>1, <1>2, <1>6, <2>3, <2>4, DeleteMoves
<1>7. CASE Recount(r)
  <2>1. u.op \in Counters /\ u.next = "recount" /\ Becomes(r, v)
    BY <1>1, <1>2, <1>7, CountMoves
  <2>2. arrived' = arrived /\ batches' = batches
    BY <1>7 DEF Recount, intakeVars
  <2>3. CASE InBatch(u.batch) = u.was /\ Ended(u, v)
    <3>1. v.op = "idle" \/ (v.op = "import" /\ v.next = "finish")
      BY <2>3 DEF Ended
    <3>2. BatchFits(v) /\ ~Counting(v) /\ ~Unadded(v) /\ ~Unadded(u)
      BY <2>1, <3>1 DEF BatchFits, Counting, Unadded
    <3>3. \A q \in Request : ~Unadded(req[q])
      BY <1>1, <2>1, BatchApart DEF Unadded
    <3>4. Cardinality(Adding(u.batch)) = 0
      BY <3>3, NoneAdding
    <3>5. Exists(u.batch) => batches[u.batch].total = u.was
      BY <1>3, <2>1 DEF BatchFits, Counting
    <3>6. Exists(u.batch) => Settled(u.batch)
      <4>1. InBatch(u.batch) \in Nat
        BY CountsAreNat
      <4>2. QED
        BY <2>3, <3>4, <3>5, <4>1 DEF Settled
    <3>7. QED
      BY <1>1, <2>1, <2>2, <3>2, <3>6, BatchGoes
  <2>4. CASE CountStays(u, v) /\ v.next = "total" /\ v.n = InBatch(u.batch)
    <3>1. v.op = u.op /\ v.batch = u.batch /\ v.was = u.was
      BY <2>4 DEF CountStays
    <3>2. BatchFits(v)
      BY <1>3, <2>1, <2>4, <3>1 DEF BatchFits, Counting
    <3>3. QED
      BY <1>1, <2>1, <2>2, <2>4, <3>1, <3>2, BatchGoes DEF Unadded, Counting
  <2>5. QED
    BY <1>1, <1>2, <1>7, <2>3, <2>4, CountMoves
<1>8. QED
  BY <1>4, <1>5, <1>6, <1>7

LEMMA BatchNumbers ==
    ASSUME TypeInv, NEW r \in Request, NEW w, w = req[r]
    PROVE  /\ w.op \in Adders \cup {"hand", "delete", "import", "rename"} => w.batch \in Nat
           /\ w.op \in Editors => w.row.batch \in Nat
<1>1. w.op \in IntakeKinds => w \in IntakeReq
  BY IntakeVariables, InIntake
<1>2. CASE w \in IntakeReq
  <2>1. w.op \in Editors => w.row \in Arrival
    BY <1>2, IntakeKind DEF AmendReq
  <2>2. w.op \in Editors => w.row.batch \in Nat
    BY <2>1 DEF Arrival
  <2>3. w.op \in Adders \cup {"hand", "delete", "import", "rename"} => w.batch \in Nat
    BY <1>2, IntakeKind DEF HookReq, HandReq, DeleteReq, ImportReq, RenameReq, Adders, Intakes
  <2>4. QED
    BY <2>2, <2>3
<1>3. CASE w.op \notin IntakeKinds
  BY <1>3 DEF IntakeKinds, Adders, Editors
<1>4. QED
  BY <1>1, <1>2, <1>3

\* A batch is opened: it has no lead yet, and none is about to be added.
LEMMA BatchOpens ==
    ASSUME TypeInv, BatchFine, arrived' = arrived, NEW r \in Request, NEW u, u = req[r], NEW v, Becomes(r, v),
           NEW row, row.total = 0, batches' = Append(batches, row),
           ~Unadded(u), ~Unadded(v), ~Counting(u), BatchFits(v)'
    PROVE  BatchFine'
<1>1. req'[r] = v /\ \A q \in Request \ {r} : req'[q] = req[q]
  BY DEF Becomes
<1>2. PICK n \in Nat : n = Len(batches)
  BY Numbered
<1>3. /\ DOMAIN batches = 1..n /\ DOMAIN batches' = 1..(n + 1) /\ Len(batches') = n + 1
      /\ \A b \in 1..n : batches'[b] = batches[b]
      /\ batches'[n + 1] = row
  BY <1>2, IntakeVariables
<1>4. \A b : Exists(b) => b \in 1..n /\ Exists(b)'
  BY <1>3 DEF Exists
<1>5. \A b \in 1..n : Exists(b)' => Exists(b)
  BY <1>3 DEF Exists
<1>6. \A b : InBatch(b)' = InBatch(b)
  BY SameCounts
<1>7. \A b \in Nat : b <= n => b <= n + 1
  BY <1>2
<1>8. ASSUME NEW q \in Request \ {r} PROVE BatchFits(req[q])'
  <2>1. PICK w : w = req[q]
    OBVIOUS
  <2>2. BatchFits(w)
    BY <2>1 DEF BatchFine
  <2>3. /\ w.op \in Adders \cup {"delete", "import"} => w.batch \in Nat
        /\ w.op \in Editors => w.row.batch \in Nat
    BY <2>1, BatchNumbers
  <2>4. w.op \in Adders \cup {"delete"} => w.batch <= Len(batches')
    BY <1>2, <1>3, <1>7, <2>2, <2>3 DEF BatchFits
  <2>5. w.op \in Editors =>
            w.lead \in DOMAIN arrived' /\ w.row.batch <= Len(batches') /\ (SameRow(w)' \/ ~Refers(w.row.batch)')
    <3>1. ASSUME w.op \in Editors, ~Refers(w.row.batch) PROVE ~Refers(w.row.batch)'
      <4>1. w.row.batch \in Nat /\ w.row.batch # 0 /\ w.row.batch <= n
        BY <1>2, <2>2, <2>3, <3>1 DEF BatchFits, Refers
      <4>2. w.row.batch \in 1..n
        BY <1>2, <4>1
      <4>3. QED
        BY <1>5, <3>1, <4>1, <4>2 DEF Refers
    <3>2. SameRow(w)' = SameRow(w)
      BY DEF SameRow
    <3>3. QED
      BY <1>2, <1>3, <1>7, <2>2, <2>3, <3>1, <3>2 DEF BatchFits
  <2>6. w.op = "rename" => Exists(w.batch)' /\ w.row = batches'[w.batch]
    BY <1>3, <1>4, <2>2 DEF BatchFits
  <2>7. Counting(w) => w.batch \in Nat /\ w.batch <= n
    BY <1>2, <2>2, <2>3 DEF BatchFits, Counting
  <2>8. Counting(w) => /\ w.batch <= Len(batches')
                       /\ w.next # "load" /\ Exists(w.batch)' => batches'[w.batch].total = w.was
                       /\ w.next = "total" /\ Exists(w.batch)' => w.n = InBatch(w.batch)'
    <3>1. Counting(w) /\ Exists(w.batch)' => Exists(w.batch) /\ batches'[w.batch] = batches[w.batch]
      <4>1. Counting(w) /\ Exists(w.batch)' => w.batch \in 1..n
        BY <1>2, <1>3, <2>7 DEF Exists
      <4>2. QED
        BY <1>3, <1>5, <4>1
    <3>2. QED
      BY <1>2, <1>3, <1>6, <1>7, <2>2, <2>7, <3>1 DEF BatchFits
  <2>9. BatchFits(w)'
    BY <2>2, <2>4, <2>5, <2>6, <2>8 DEF BatchFits, Counting
  <2>10. QED
    BY <1>1, <2>1, <2>9
<1>9. ASSUME NEW b PROVE Adding(b)' = Adding(b)
  BY <1>1 DEF Adding
<1>10. ASSUME NEW b \in 1..n, Exists(b) PROVE (\E q \in Request : Counting(req[q])' /\ req'[q].batch = b) \/ Settled(b)'
  <2>1. Settled(b) => Settled(b)'
    <3>1. PICK A : A = Adding(b)
      OBVIOUS
    <3>2. Adding(b)' = A
      BY <1>9, <3>1
    <3>3. QED
      BY <1>3, <1>6, <3>1, <3>2 DEF Settled
  <2>2. ASSUME NEW q \in Request, Counting(req[q]), req[q].batch = b PROVE Counting(req[q])' /\ req'[q].batch = b
    <3>1. q # r
      BY <2>2
    <3>2. req'[q] = req[q]
      BY <1>1, <3>1
    <3>3. QED
      BY <2>2, <3>2 DEF Counting
  <2>3. QED
    BY <1>3, <1>10, <2>1, <2>2 DEF BatchFine
<1>11. ASSUME NEW m \in Nat, m = n + 1 PROVE Settled(m)'
  <2>1. \A q \in Request : Unadded(req[q]) => req[q].batch \in Nat /\ req[q].batch <= n
    BY <1>2, BatchNumbers DEF BatchFine, BatchFits, Unadded
  <2>2. Adding(m) = {}
    BY <1>2, <1>11, <2>1 DEF Adding
  <2>3. Adding(m)' = {}
    BY <1>9, <2>2
  <2>4. InBatch(m) = 0
    <3>1. \A i \in DOMAIN arrived : arrived[i].batch \in Nat /\ arrived[i].batch <= n
      BY <1>2, Numbered DEF BatchFine
    <3>2. {i \in DOMAIN arrived : arrived[i].batch = m /\ arrived[i].live} = {}
      BY <1>2, <1>11, <3>1
    <3>3. QED
      BY <3>2, FS_EmptySet DEF InBatch
  <2>5. InBatch(m)' = 0
    BY <1>6, <2>4
  <2>6. Cardinality(Adding(m)') = 0
    BY <2>3, FS_EmptySet
  <2>7. batches'[m].total = 0
    BY <1>3, <1>11
  <2>8. QED
    BY <2>5, <2>6, <2>7 DEF Settled
<1>12. \A b \in DOMAIN batches' : Exists(b)' => (\E q \in Request : Counting(req[q])' /\ req'[q].batch = b) \/ Settled(b)'
  <2>1. \A b \in 1..(n + 1) : b \in 1..n \/ b = n + 1
    BY <1>2
  <2>2. n + 1 \in Nat
    BY <1>2
  <2>3. QED
    BY <1>3, <1>5, <1>10, <1>11, <2>1, <2>2
<1>13. \A i \in DOMAIN arrived' : arrived'[i].batch <= Len(batches')
  BY <1>2, <1>3, <1>7, Numbered DEF BatchFine
<1>14. \A q \in Request : BatchFits(req[q])'
  BY <1>1, <1>8
<1>15. QED
  BY <1>12, <1>13, <1>14 DEF BatchFine

\* A delivery looks for today's batch or opens it, an import opens its own.
LEMMA BatchLooks ==
    ASSUME TypeInv, BatchFine, NEW r \in Request, TodaysBatch(r) \/ OpenBatch(r)
    PROVE  BatchFine'
<1> USE SavingKinds
<1>1. PICK u : u = req[r]
  OBVIOUS
<1>2. PICK v : v = req'[r]
  OBVIOUS
<1>3. arrived' = arrived /\ batches \in Seq(BatchRec)
  BY IntakeVariables DEF TodaysBatch, OpenBatch
<1>4. CASE TodaysBatch(r)
  <2>1. /\ u.op \in Adders /\ u.next = "batch" /\ Becomes(r, v) /\ v.op = u.op /\ v.next = "create"
        /\ v.batch \in DOMAIN batches'
    BY <1>1, <1>2, <1>4, HookMoves
  <2>2. PICK row : row = [kind |-> "webhook", total |-> 0]
    OBVIOUS
  <2>3. batches' = batches \/ batches' = Append(batches, row)
    BY <1>4, <2>2 DEF TodaysBatch
  <2>4. v.batch <= Len(batches')
    BY <1>3, <2>1, <2>3
  <2>5. CASE batches' = batches
    BY <1>1, <1>3, <2>1, <2>4, <2>5, BatchGoes DEF BatchFits, Unadded, Counting
  <2>6. CASE batches' = Append(batches, row)
    <3>1. BatchFits(v)'
      BY <2>1, <2>4 DEF BatchFits, Counting
    <3>2. row.total = 0
      BY <2>2
    <3>3. QED
      BY <1>1, <1>3, <2>1, <2>6, <3>1, <3>2, BatchOpens DEF Unadded, Counting
  <2>7. QED
    BY <2>3, <2>5, <2>6
<1>5. CASE OpenBatch(r)
  <2>1. /\ u.op = "import" /\ u.next = "open" /\ Becomes(r, v) /\ v.op = "import" /\ v.next = "phones" /\ v.was = u.was
        /\ v.batch = Len(batches) + 1
    BY <1>1, <1>2, <1>5, FileReads
  <2>2. PICK row : row = [kind |-> "import", total |-> 0]
    OBVIOUS
  <2>3. batches' = Append(batches, row) /\ row.total = 0
    BY <1>5, <2>2 DEF OpenBatch
  <2>4. Len(batches') = Len(batches) + 1 /\ batches'[Len(batches) + 1] = row /\ Len(batches) \in Nat
    BY <1>3, <2>3
  <2>5. v.was = 0
    BY <1>1, <2>1 DEF BatchFine, BatchFits
  <2>6. v.batch <= Len(batches') /\ batches'[v.batch].total = v.was
    BY <2>1, <2>3, <2>4, <2>5
  <2>7. BatchFits(v)'
    BY <2>1, <2>6 DEF BatchFits, Counting
  <2>8. QED
    BY <1>1, <1>3, <2>1, <2>3, <2>7, BatchOpens DEF Unadded, Counting
<1>6. QED
  BY <1>4, <1>5

\* The requests are as before, but for one, and so is what they hold.
LEMMA BatchFitsOthers ==
    ASSUME NEW r \in Request, NEW v, Becomes(r, v), BatchFits(v)',
           \A q \in Request \ {r} : \A w : w = req[q] => BatchFits(w)'
    PROVE  \A q \in Request : BatchFits(req[q])'
<1>1. ASSUME NEW q \in Request PROVE BatchFits(req[q])'
  <2>1. CASE q = r
    BY <2>1 DEF Becomes
  <2>2. CASE q # r
    <3>1. PICK w : w = req[q]
      OBVIOUS
    <3>2. BatchFits(w)' /\ req'[q] = w
      BY <2>2, <3>1 DEF Becomes
    <3>3. QED
      BY <3>2
  <2>3. QED
    BY <2>1, <2>2
<1>2. QED
  BY <1>1

\* What a request that does not count holds, when leads come or the counts of
\* batches change.
LEMMA BatchFitsElse ==
    ASSUME TypeInv, BatchFine, NEW q \in Request, NEW w, w = req[q], ~Counting(w), w.op # "rename",
           Len(batches') = Len(batches), \A b : Exists(b)' => Exists(b),
           DOMAIN arrived \subseteq DOMAIN arrived',
           \A i \in DOMAIN arrived : arrived'[i].batch \in {arrived[i].batch, 0},
           w.op \in Editors => arrived'[w.lead] = arrived[w.lead] \/ (~Exists(w.row.batch)' /\ w.row.batch # 0)
    PROVE  BatchFits(w)'
<1>1. BatchFits(w)
  BY DEF BatchFine
<1>2. w.op \in Editors =>
          w.lead \in DOMAIN arrived' /\ w.row.batch <= Len(batches') /\ (SameRow(w)' \/ ~Refers(w.row.batch)')
  BY <1>1 DEF BatchFits, Refers, SameRow
<1>3. w.op = "delete" /\ w.next = "mark" =>
          w.leads \subseteq DOMAIN arrived' /\ \A i \in w.leads : arrived'[i].batch \in {0, w.batch}
  BY <1>1 DEF BatchFits
<1>4. QED
  BY <1>1, <1>2, <1>3 DEF BatchFits, Counting

\* The batch learns of the lead.
LEMMA BatchAdds ==
    ASSUME TypeInv, BatchFine, NEW r \in Request, NEW u, u = req[r], AddToBatch(r),
           \A q \in Request \ {r} : req[q].op \notin Counters \cup {"rename"}
    PROVE  BatchFine'
<1> USE SavingKinds
<1>1. PICK v : v = req'[r]
  OBVIOUS
<1>2. u.op \in Adders /\ u.next = "add" /\ Becomes(r, v) /\ v.op = u.op /\ v.next \in {"config", "look", "error"}
      /\ v.batch \in {0, u.batch}
  BY <1>1, HookMoves
<1>3. PICK c : c = u.batch
  OBVIOUS
<1>4. arrived' = arrived /\ batches \in Seq(BatchRec) /\ Len(batches) \in Nat
  BY IntakeVariables DEF AddToBatch
<1>5. batches' = IF Exists(c) THEN [batches EXCEPT ![c].total = @ + 1] ELSE batches
  BY <1>3 DEF AddToBatch
<1>6. /\ DOMAIN batches' = DOMAIN batches /\ Len(batches') = Len(batches)
      /\ \A b \in DOMAIN batches : b # c => batches'[b] = batches[b]
      /\ \A b : Exists(b)' <=> Exists(b)
  <2>1. CASE ~Exists(c)
    BY <1>5, <2>1 DEF Exists
  <2>2. CASE Exists(c)
    <3>1. c \in DOMAIN batches /\ batches[c] \in BatchRec
      BY <2>2, Numbered
    <3>2. batches' = [batches EXCEPT ![c].total = @ + 1]
      BY <1>5, <2>2
    <3>3. DOMAIN batches' = DOMAIN batches /\ Len(batches') = Len(batches)
      BY <1>4, <3>2
    <3>4. batches'[c].kind = batches[c].kind /\ \A b \in DOMAIN batches : b # c => batches'[b] = batches[b]
      BY <3>1, <3>2 DEF BatchRec
    <3>5. QED
      BY <3>3, <3>4 DEF Exists
  <2>3. QED
    BY <2>1, <2>2
<1>7. Exists(c) => batches'[c].total = batches[c].total + 1
  BY <1>4, <1>5, Numbered DEF BatchRec
<1>8. \A q \in Request : ~Counting(req[q])
  BY <1>2 DEF Counting
<1>9. \A b : InBatch(b)' = InBatch(b)
  BY <1>4, SameCounts
<1>10. ASSUME NEW q \in Request \ {r}, NEW w, w = req[q] PROVE BatchFits(w)'
  <2>1. ~Counting(w) /\ w.op # "rename"
    BY <1>8, <1>10
  <2>2. \A i \in DOMAIN arrived : arrived'[i].batch = arrived[i].batch
    BY <1>4
  <2>3. QED
    BY <1>4, <1>6, <1>10, <2>1, <2>2, BatchFitsElse
<1>11. BatchFits(v)'
  <2>1. u.batch <= Len(batches)
    BY <1>2 DEF BatchFine, BatchFits
  <2>2. QED
    BY <1>2, <1>4, <1>6, <2>1 DEF BatchFits, Counting
<1>12. ASSUME NEW b \in DOMAIN batches, Exists(b) PROVE Settled(b)'
  <2>1. Settled(b)
    BY <1>8, <1>12 DEF BatchFine
  <2>2. PICK A : A = Adding(b)
    OBVIOUS
  <2>3. IsFiniteSet(A) /\ Cardinality(A) \in Nat
    BY <2>2, AddingsFinite
  <2>4. PICK total \in Nat : total = batches[b].total
    BY Numbered
  <2>5. PICK k \in Nat : k = Cardinality(A)
    BY <2>3
  <2>6. total + k = InBatch(b)
    BY <2>1, <2>2, <2>4, <2>5 DEF Settled
  <2>7. CASE b = c
    <3>1. r \in A
      BY <1>2, <1>3, <2>2, <2>7 DEF Adding, Unadded
    <3>2. Adding(b)' = A \ {r}
      BY <1>2, <2>2 DEF Adding, Becomes, Unadded
    <3>3. Cardinality(A \ {r}) = k - 1
      BY <2>3, <2>5, <3>1, FS_RemoveElement
    <3>4. batches'[b].total = total + 1
      BY <1>7, <1>12, <2>4, <2>7
    <3>5. Cardinality(Adding(b)') = k - 1
      BY <3>2, <3>3
    <3>6. QED
      BY <1>9, <2>6, <3>4, <3>5 DEF Settled
  <2>8. CASE b # c
    <3>1. Adding(b)' = A
      BY <1>2, <1>3, <2>2, <2>8 DEF Adding, Becomes, Unadded
    <3>2. batches'[b].total = total
      BY <1>6, <2>4, <2>8
    <3>3. QED
      BY <1>9, <2>5, <2>6, <3>1, <3>2 DEF Settled
  <2>9. QED
    BY <2>7, <2>8
<1>13. \A i \in DOMAIN arrived' : arrived'[i].batch <= Len(batches')
  BY <1>4, <1>6 DEF BatchFine
<1>14. \A q \in Request : BatchFits(req[q])'
  BY <1>2, <1>10, <1>11, BatchFitsOthers
<1>15. \A b \in DOMAIN batches' : Exists(b)' => Settled(b)'
  BY <1>6, <1>12
<1>16. QED
  BY <1>13, <1>14, <1>15 DEF BatchFine

\* A batch is counted.
LEMMA BatchCounted ==
    ASSUME TypeInv, BatchFine, NEW r \in Request, NEW u, u = req[r], SaveTotal(r),
           \A q \in Request \ {r} : req[q].op \notin Adders \cup Counters \cup {"rename"}
    PROVE  BatchFine'
<1> USE SavingKinds
<1>1. PICK v : v = req'[r]
  OBVIOUS
<1>2. u.op \in Counters /\ u.next = "total" /\ u.n \in Nat /\ Becomes(r, v) /\ Ended(u, v)
  BY <1>1, CountMoves
<1>3. v.op = "idle" \/ (v.op = "import" /\ v.next = "finish")
  BY <1>2 DEF Ended
<1>4. PICK c : c = u.batch
  OBVIOUS
<1>5. arrived' = arrived /\ batches \in Seq(BatchRec) /\ Len(batches) \in Nat
  BY IntakeVariables DEF SaveTotal
<1>6. PICK n : n = u.n
  OBVIOUS
<1>7. batches' = IF Exists(c) THEN [batches EXCEPT ![c].total = n] ELSE batches
  BY <1>4, <1>6 DEF SaveTotal
<1>8. /\ DOMAIN batches' = DOMAIN batches /\ Len(batches') = Len(batches)
      /\ \A b \in DOMAIN batches : b # c => batches'[b] = batches[b]
      /\ \A b : Exists(b)' <=> Exists(b)
  <2>1. CASE ~Exists(c)
    BY <1>7, <2>1 DEF Exists
  <2>2. CASE Exists(c)
    <3>1. c \in DOMAIN batches /\ batches[c] \in BatchRec
      BY <2>2, Numbered
    <3>2. batches' = [batches EXCEPT ![c].total = n]
      BY <1>7, <2>2
    <3>3. DOMAIN batches' = DOMAIN batches /\ Len(batches') = Len(batches)
      BY <1>5, <3>2
    <3>4. batches'[c].kind = batches[c].kind /\ \A b \in DOMAIN batches : b # c => batches'[b] = batches[b]
      BY <3>1, <3>2 DEF BatchRec
    <3>5. QED
      BY <3>3, <3>4 DEF Exists
  <2>3. QED
    BY <2>1, <2>2
<1>9. Exists(c) => batches'[c].total = n
  BY <1>5, <1>7, Numbered DEF BatchRec
<1>10. \A q \in Request \ {r} : ~Counting(req[q]) /\ ~Unadded(req[q])
  BY DEF Counting, Unadded
<1>11. ~Counting(v) /\ ~Unadded(v) /\ ~Unadded(u)
  BY <1>2, <1>3 DEF Counting, Unadded
<1>12. \A b : InBatch(b)' = InBatch(b)
  BY <1>5, SameCounts
<1>13. ASSUME NEW q \in Request \ {r}, NEW w, w = req[q] PROVE BatchFits(w)'
  <2>1. ~Counting(w) /\ w.op # "rename"
    BY <1>10, <1>13
  <2>2. \A i \in DOMAIN arrived : arrived'[i].batch = arrived[i].batch
    BY <1>5
  <2>3. QED
    BY <1>5, <1>8, <1>13, <2>1, <2>2, BatchFitsElse
<1>14. BatchFits(v)'
  BY <1>3, <1>11 DEF BatchFits, Counting
<1>15. Exists(c) => n = InBatch(c)
  BY <1>2, <1>4, <1>6 DEF BatchFine, BatchFits, Counting
<1>16. \A b : Adding(b) = {} /\ Adding(b)' = {}
  BY <1>2, <1>10, <1>11 DEF Adding, Becomes
<1>17. Cardinality({}) = 0
  BY FS_EmptySet
<1>18. ASSUME NEW b \in DOMAIN batches, Exists(b) PROVE Settled(b)'
  <2>1. InBatch(b) \in Nat /\ batches[b].total \in Nat
    BY CountsAreNat, Numbered
  <2>2. CASE b = c
    <3>1. batches'[b].total = n /\ n = InBatch(b) /\ InBatch(b)' = InBatch(b)
      BY <1>9, <1>12, <1>15, <1>18, <2>2
    <3>2. Cardinality(Adding(b)') = 0
      BY <1>16, <1>17
    <3>3. QED
      BY <2>1, <3>1, <3>2 DEF Settled
  <2>3. CASE b # c
    <3>1. Settled(b)
      BY <1>4, <1>10, <1>18, <2>3 DEF BatchFine
    <3>2. batches[b].total = InBatch(b)
      <4>1. PICK k \in Nat, m \in Nat : k = InBatch(b) /\ m = batches[b].total
        BY <2>1
      <4>2. Cardinality(Adding(b)) = 0
        BY <1>16, <1>17
      <4>3. m + 0 = k
        BY <3>1, <4>1, <4>2 DEF Settled
      <4>4. QED
        BY <4>1, <4>3
    <3>3. batches'[b].total = InBatch(b) /\ InBatch(b)' = InBatch(b)
      BY <1>8, <1>12, <2>3, <3>2
    <3>4. Cardinality(Adding(b)') = 0
      BY <1>16, <1>17
    <3>5. QED
      BY <2>1, <3>3, <3>4 DEF Settled
  <2>4. QED
    BY <2>2, <2>3
<1>19. \A i \in DOMAIN arrived' : arrived'[i].batch <= Len(batches')
  BY <1>5, <1>8 DEF BatchFine
<1>20. \A q \in Request : BatchFits(req[q])'
  BY <1>2, <1>13, <1>14, BatchFitsOthers
<1>21. \A b \in DOMAIN batches' : Exists(b)' => Settled(b)'
  BY <1>8, <1>18
<1>22. QED
  BY <1>19, <1>20, <1>21 DEF BatchFine

\* A lead is created.
LEMMA BatchCreates ==
    ASSUME TypeInv, KeptInv, BatchFine, NEW r \in Request, NEW u, u = req[r], CreateLead(r),
           u.op \in Adders => \A q \in Request \ {r} : req[q].op \notin Counters \cup {"rename"}
    PROVE  BatchFine'
<1> USE SavingKinds
<1>1. PICK v : v = req'[r]
  OBVIOUS
<1>2. /\ u.op \in ByOne /\ u.next = "create" /\ Refers(u.batch) /\ Becomes(r, v)
      /\ v.op = u.op /\ v.next = "note" /\ v.batch = u.batch /\ Grown(1, u.batch, HowOf(u))
  BY <1>1, CreateMoves
<1>3. PICK c : c = u.batch
  OBVIOUS
<1>4. batches' = batches /\ Len(batches) \in Nat
  BY Numbered DEF CreateLead
<1>5. InBatch(c)' = InBatch(c) + 1 /\ \A b : b # c => InBatch(b)' = InBatch(b)
  BY <1>2, <1>3, GrownCounts
<1>6. \A b : Exists(b)' <=> Exists(b)
  BY <1>4 DEF Exists
<1>7. DOMAIN arrived \subseteq DOMAIN arrived' /\ \A i \in DOMAIN arrived : arrived'[i] = arrived[i]
  BY <1>2, Numbered DEF Grown
<1>8. BatchFits(u)
  BY DEF BatchFine
<1>9. u.op = "hand" => c = 0
  BY <1>3, <1>8 DEF BatchFits
<1>10. c <= Len(batches) /\ c \in Nat
  <2>1. c = 0 \/ Exists(c)
    BY <1>2, <1>3 DEF Refers
  <2>2. Exists(c) => c \in 1..Len(batches)
    BY Numbered
  <2>3. QED
    BY <1>4, <2>1, <2>2
<1>11. \A i \in DOMAIN arrived' : arrived'[i].batch <= Len(batches')
  <2>1. ASSUME NEW i \in DOMAIN arrived', i \notin DOMAIN arrived PROVE arrived'[i].batch = c
    <3>1. i \in 1..(Len(arrived) + 1) /\ i \notin 1..Len(arrived) /\ Len(arrived) \in Nat
      BY <1>2, <2>1, Numbered DEF Grown
    <3>2. i \in (Len(arrived) + 1)..(Len(arrived) + 1)
      BY <3>1
    <3>3. QED
      BY <1>2, <1>3, <3>2 DEF Grown
  <2>2. QED
    BY <1>4, <1>7, <1>10, <2>1 DEF BatchFine
<1>12. ASSUME NEW q \in Request \ {r}, NEW w, w = req[q] PROVE BatchFits(w)'
  <2>1. BatchFits(w)
    BY <1>12 DEF BatchFine
  <2>2. w.op \in Editors => w.lead \in DOMAIN arrived
    BY <1>12 DEF KeptInv, Keeps
  <2>3. CASE ~Counting(w) /\ w.op # "rename"
    <3>1. \A i \in DOMAIN arrived : arrived'[i].batch \in {arrived[i].batch, 0}
      BY <1>7
    <3>2. w.op \in Editors => arrived'[w.lead] = arrived[w.lead]
      BY <1>7, <2>2
    <3>3. QED
      BY <1>4, <1>6, <1>7, <1>12, <2>3, <3>1, <3>2, BatchFitsElse
  <2>4. CASE Counting(w) \/ w.op = "rename"
    <3>1. u.op = "hand"
      BY <1>2, <1>12, <2>4 DEF Counting, ByOne
    <3>2. Exists(w.batch) => InBatch(w.batch)' = InBatch(w.batch)
      BY <1>5, <1>9, <3>1, Numbered
    <3>3. QED
      BY <1>4, <1>6, <2>1, <2>4, <3>2 DEF BatchFits, Counting
  <2>5. QED
    BY <2>3, <2>4
<1>13. BatchFits(v)'
  BY <1>2, <1>3, <1>4, <1>9, <1>10 DEF BatchFits, Counting, ByOne
<1>14. ~Counting(u)
  BY <1>2 DEF Counting, ByOne
<1>15. ASSUME NEW b \in DOMAIN batches, Exists(b) PROVE (\E q \in Request : Counting(req[q])' /\ req'[q].batch = b) \/ Settled(b)'
  <2>1. ASSUME NEW q \in Request, Counting(req[q]), req[q].batch = b PROVE Counting(req[q])' /\ req'[q].batch = b
    <3>1. q # r
      BY <1>14, <2>1
    <3>2. req'[q] = req[q]
      BY <1>2, <3>1 DEF Becomes
    <3>3. QED
      BY <2>1, <3>2 DEF Counting
  <2>2. PICK A : A = Adding(b)
    OBVIOUS
  <2>3. IsFiniteSet(A) /\ Cardinality(A) \in Nat /\ InBatch(b) \in Nat
    BY <2>2, AddingsFinite, CountsAreNat
  <2>4. PICK total \in Nat : total = batches[b].total
    BY Numbered
  <2>5. PICK k \in Nat : k = Cardinality(A)
    BY <2>3
  <2>6. ASSUME Settled(b) PROVE Settled(b)'
    <3>1. total + k = InBatch(b)
      BY <2>2, <2>4, <2>5, <2>6 DEF Settled
    <3>2. batches'[b].total = total
      BY <1>4, <2>4
    <3>3. CASE b = c /\ u.op \in Adders
      <4>1. r \notin A /\ Adding(b)' = A \cup {r}
        BY <1>2, <1>3, <2>2, <3>3 DEF Adding, Becomes, Unadded
      <4>2. Cardinality(A \cup {r}) = k + 1
        BY <2>3, <2>5, <4>1, FS_AddElement
      <4>3. Cardinality(Adding(b)') = k + 1
        BY <4>1, <4>2
      <4>4. InBatch(b)' = InBatch(b) + 1
        BY <1>5, <3>3
      <4>5. QED
        BY <3>1, <3>2, <4>3, <4>4 DEF Settled
    <3>4. CASE b # c
      <4>1. Adding(b)' = A
        BY <1>2, <1>3, <2>2, <3>4 DEF Adding, Becomes, Unadded
      <4>2. InBatch(b)' = InBatch(b)
        BY <1>5, <3>4
      <4>3. QED
        BY <2>5, <3>1, <3>2, <4>1, <4>2 DEF Settled
    <3>5. b # 0 /\ (u.op \in Adders \/ u.op = "hand")
      BY <1>2, <1>15, Numbered DEF ByOne
    <3>6. QED
      BY <1>9, <3>3, <3>4, <3>5
  <2>7. QED
    BY <1>15, <2>1, <2>6 DEF BatchFine
<1>16. \A b \in DOMAIN batches' : Exists(b)' => (\E q \in Request : Counting(req[q])' /\ req'[q].batch = b) \/ Settled(b)'
  BY <1>4, <1>6, <1>15
<1>17. \A q \in Request : BatchFits(req[q])'
  BY <1>2, <1>12, <1>13, BatchFitsOthers
<1>18. QED
  BY <1>11, <1>16, <1>17 DEF BatchFine

\* Leads of the batch a request counts come or go: what else is as it was.
LEMMA BatchCountsOn ==
    ASSUME TypeInv, BatchFine, NEW r \in Request, NEW u, u = req[r], NEW v, Becomes(r, v), batches' = batches,
           ~Unadded(u), Counting(v), v.batch = u.batch, BatchFits(v)',
           \A q \in Request \ {r} : req[q].op \notin Adders \cup Counters \cup {"rename"},
           \A q \in Request \ {r} : \A w : w = req[q] => BatchFits(w)',
           \A b : b # u.batch /\ b # 0 => InBatch(b)' = InBatch(b),
           \A i \in DOMAIN arrived' : arrived'[i].batch <= Len(batches)
    PROVE  BatchFine'
<1> USE SavingKinds
<1>1. \A q \in Request \ {r} : ~Counting(req[q]) /\ ~Unadded(req[q])
  BY DEF Counting, Unadded
<1>2. ~Unadded(v)
  BY DEF Counting, Unadded
<1>3. req'[r] = v /\ Counting(req[r])' /\ req'[r].batch = u.batch
  BY DEF Becomes, Counting
<1>4. ASSUME NEW b \in DOMAIN batches, Exists(b) PROVE (\E q \in Request : Counting(req[q])' /\ req'[q].batch = b) \/ Settled(b)'
  <2>1. CASE b = u.batch
    BY <1>3, <2>1
  <2>2. CASE b # u.batch
    <3>1. Settled(b)
      BY <1>1, <1>4, <2>2 DEF BatchFine
    <3>2. Adding(b) = {} /\ Adding(b)' = {}
      BY <1>1, <1>2 DEF Adding, Becomes
    <3>3. Cardinality(Adding(b)) = 0 /\ Cardinality(Adding(b)') = 0
      BY <3>2, FS_EmptySet
    <3>4. InBatch(b)' = InBatch(b) /\ batches'[b].total = batches[b].total
      BY <1>4, <2>2, Numbered
    <3>5. QED
      BY <3>1, <3>3, <3>4 DEF Settled
  <2>3. QED
    BY <2>1, <2>2
<1>5. \A b \in DOMAIN batches' : Exists(b)' => (\E q \in Request : Counting(req[q])' /\ req'[q].batch = b) \/ Settled(b)'
  BY <1>4 DEF Exists
<1>6. \A q \in Request : BatchFits(req[q])'
  BY BatchFitsOthers
<1>7. \A i \in DOMAIN arrived' : arrived'[i].batch <= Len(batches')
  OBVIOUS
<1>8. QED
  BY <1>5, <1>6, <1>7 DEF BatchFine

\* A chunk of an import is inserted.
LEMMA BatchInserts ==
    ASSUME TypeInv, KeptInv, BatchFine, NEW r \in Request, NEW u, u = req[r], Insert(r),
           \A q \in Request \ {r} : req[q].op \notin Adders \cup Counters \cup {"rename"}
    PROVE  BatchFine'
<1> USE SavingKinds
<1>1. PICK v : v = req'[r]
  OBVIOUS
<1>2. /\ u.op = "import" /\ u.next = "bulk" /\ Refers(u.batch) /\ Becomes(r, v)
      /\ v.op = "import" /\ v.next = "bulk" /\ Placed(u, v) /\ v.done \in Nat /\ u.done < v.done
      /\ Grown(v.done - u.done, u.batch, "file")
  BY <1>1, FileInserts
<1>3. batches' = batches /\ Len(batches) \in Nat
  BY Numbered DEF Insert
<1>4. u.done \in Nat
  BY <1>2, MakerFields
<1>5. PICK k \in Nat : k = v.done - u.done
  BY <1>2, <1>4
<1>6. PICK c : c = u.batch
  OBVIOUS
<1>7. Grown(k, c, "file")
  BY <1>2, <1>5, <1>6
<1>8. \A b : b # c => InBatch(b)' = InBatch(b)
  BY <1>7, GrownCounts
<1>9. DOMAIN arrived \subseteq DOMAIN arrived' /\ \A i \in DOMAIN arrived : arrived'[i] = arrived[i]
  BY <1>7, Numbered DEF Grown
<1>10. BatchFits(u)
  BY DEF BatchFine
<1>11. c <= Len(batches)
  BY <1>2, <1>6, <1>10 DEF BatchFits, Counting
<1>12. \A i \in DOMAIN arrived' : arrived'[i].batch <= Len(batches)
  <2>1. ASSUME NEW i \in DOMAIN arrived', i \notin DOMAIN arrived PROVE arrived'[i].batch = c
    <3>1. i \in 1..(Len(arrived) + k) /\ i \notin 1..Len(arrived) /\ Len(arrived) \in Nat
      BY <1>7, <2>1, Numbered DEF Grown
    <3>2. i \in (Len(arrived) + 1)..(Len(arrived) + k)
      BY <3>1
    <3>3. QED
      BY <1>7, <3>2 DEF Grown
  <2>2. QED
    BY <1>9, <1>11, <2>1 DEF BatchFine
<1>13. \A b : Exists(b)' <=> Exists(b)
  BY <1>3 DEF Exists
<1>14. ASSUME NEW q \in Request \ {r}, NEW w, w = req[q] PROVE BatchFits(w)'
  <2>1. ~Counting(w) /\ w.op # "rename"
    BY <1>14 DEF Counting
  <2>2. w.op \in Editors => w.lead \in DOMAIN arrived
    BY <1>14 DEF KeptInv, Keeps
  <2>3. \A i \in DOMAIN arrived : arrived'[i].batch \in {arrived[i].batch, 0}
    BY <1>9
  <2>4. w.op \in Editors => arrived'[w.lead] = arrived[w.lead]
    BY <1>9, <2>2
  <2>5. QED
    BY <1>3, <1>9, <1>13, <1>14, <2>1, <2>3, <2>4, BatchFitsElse
<1>15. BatchFits(v)'
  BY <1>2, <1>3, <1>6, <1>10, <1>11, <1>13 DEF BatchFits, Counting, Placed
<1>16. ~Unadded(u) /\ Counting(v) /\ v.batch = c
  BY <1>2, <1>6 DEF Unadded, Counting, Placed
<1>17. QED
  BY <1>2, <1>3, <1>6, <1>8, <1>12, <1>14, <1>15, <1>16, BatchCountsOn

\* Leads are deleted.
LEMMA BatchMarks ==
    ASSUME TypeInv, KeptInv, BatchFine, NEW r \in Request, NEW u, u = req[r], MarkDeleted(r),
           \A q \in Request \ {r} : req[q].op \notin Adders \cup Counters \cup {"rename"} \cup Editors
    PROVE  BatchFine'
<1> USE SavingKinds
<1>1. PICK v : v = req'[r]
  OBVIOUS
<1>2. /\ u.op = "delete" /\ u.next = "mark" /\ Becomes(r, v) /\ v.op = "delete" /\ v.next = "load" /\ v.batch = u.batch
      /\ RowsStay
      /\ \A i \in DOMAIN arrived : /\ arrived'[i].batch = arrived[i].batch
                                   /\ arrived'[i].live => arrived[i].live
                                   /\ i \notin u.leads => arrived'[i] = arrived[i]
  BY <1>1, DeleteMoves
<1>3. batches' = batches /\ Len(batches) \in Nat
  BY Numbered DEF MarkDeleted
<1>4. BatchFits(u)
  BY DEF BatchFine
<1>5. \A i \in u.leads : i \in DOMAIN arrived /\ arrived[i].batch \in {0, u.batch}
  BY <1>2, <1>4 DEF BatchFits
<1>6. ASSUME NEW b, b # u.batch, b # 0 PROVE InBatch(b)' = InBatch(b)
  <2>1. \A i \in DOMAIN arrived : arrived[i].batch = b => i \notin u.leads
    BY <1>5, <1>6
  <2>2. \A i \in DOMAIN arrived : (arrived'[i].batch = b /\ arrived'[i].live) <=> (arrived[i].batch = b /\ arrived[i].live)
    BY <1>2, <2>1
  <2>3. QED
    BY <1>2, <2>2, StayCounts
<1>7. \A i \in DOMAIN arrived' : arrived'[i].batch <= Len(batches)
  BY <1>2 DEF BatchFine, RowsStay
<1>8. \A b : Exists(b)' <=> Exists(b)
  BY <1>3 DEF Exists
<1>9. ASSUME NEW q \in Request \ {r}, NEW w, w = req[q] PROVE BatchFits(w)'
  <2>1. ~Counting(w) /\ w.op # "rename" /\ w.op \notin Editors
    BY <1>9 DEF Counting
  <2>2. DOMAIN arrived \subseteq DOMAIN arrived' /\ \A i \in DOMAIN arrived : arrived'[i].batch \in {arrived[i].batch, 0}
    BY <1>2 DEF RowsStay
  <2>3. QED
    BY <1>3, <1>8, <1>9, <2>1, <2>2, BatchFitsElse
<1>10. BatchFits(v)'
  BY <1>2, <1>3, <1>4 DEF BatchFits, Counting
<1>11. ~Unadded(u) /\ Counting(v)
  BY <1>2 DEF Unadded, Counting
<1>12. QED
  BY <1>2, <1>3, <1>6, <1>7, <1>9, <1>10, <1>11, BatchCountsOn

\* A batch is deleted: its leads are of none.
LEMMA BatchDrops ==
    ASSUME TypeInv, KeptInv, BatchFine, NEW c \in DOMAIN batches, DropBatch(c), \A q \in Request : req[q].op # "rename"
    PROVE  BatchFine'
<1>1. /\ Exists(c) /\ req' = req
      /\ batches' = [batches EXCEPT ![c] = [kind |-> "none", total |-> 0]]
      /\ arrived' = [i \in DOMAIN arrived |-> IF arrived[i].batch = c THEN [arrived[i] EXCEPT !.batch = 0] ELSE arrived[i]]
  BY DEF DropBatch
<1>2. batches \in Seq(BatchRec) /\ Len(batches) \in Nat /\ c # 0
  BY <1>1, IntakeVariables, Numbered
<1>3. /\ DOMAIN batches' = DOMAIN batches /\ Len(batches') = Len(batches)
      /\ \A b \in DOMAIN batches : b # c => batches'[b] = batches[b]
      /\ batches'[c].kind = "none"
  BY <1>1, <1>2
<1>4. \A b : Exists(b)' <=> Exists(b) /\ b # c
  BY <1>3 DEF Exists
<1>5. DOMAIN arrived' = DOMAIN arrived /\ \A i \in DOMAIN arrived : arrived[i].batch # c => arrived'[i] = arrived[i]
  BY <1>1
<1>6. /\ RowsStay
      /\ \A i \in DOMAIN arrived : /\ arrived'[i].live = arrived[i].live
                                   /\ arrived'[i].batch = IF arrived[i].batch = c THEN 0 ELSE arrived[i].batch
  BY DropRows
<1>7. ASSUME NEW b, b # c, b # 0 PROVE InBatch(b)' = InBatch(b)
  <2>1. \A i \in DOMAIN arrived : (arrived'[i].batch = b /\ arrived'[i].live) <=> (arrived[i].batch = b /\ arrived[i].live)
    BY <1>6, <1>7
  <2>2. QED
    BY <1>6, <2>1, StayCounts
<1>8. \A b \in Nat : b <= Len(batches) => 0 <= Len(batches)
  BY <1>2
<1>9. \A i \in DOMAIN arrived' : arrived'[i].batch <= Len(batches')
  BY <1>2, <1>3, <1>5, <1>6 DEF BatchFine
<1>10. ASSUME NEW q \in Request, NEW w, w = req[q] PROVE BatchFits(w)'
  <2>1. BatchFits(w) /\ w.op # "rename"
    BY <1>10 DEF BatchFine
  <2>2. CASE Counting(w)
    <3>1. Exists(w.batch)' => Exists(w.batch) /\ w.batch # c /\ w.batch # 0 /\ batches'[w.batch] = batches[w.batch]
      BY <1>3, <1>4, Numbered
    <3>2. w.batch <= Len(batches')
      BY <1>3, <2>1, <2>2 DEF BatchFits
    <3>3. /\ w.next # "load" /\ Exists(w.batch)' => batches'[w.batch].total = w.was
          /\ w.next = "total" /\ Exists(w.batch)' => w.n = InBatch(w.batch)'
      BY <1>7, <2>1, <2>2, <3>1 DEF BatchFits
    <3>4. QED
      BY <1>3, <2>1, <2>2, <3>2, <3>3 DEF BatchFits, Counting, Editors
  <2>3. CASE ~Counting(w)
    <3>1. DOMAIN arrived \subseteq DOMAIN arrived' /\ \A i \in DOMAIN arrived : arrived'[i].batch \in {arrived[i].batch, 0}
      BY <1>5, <1>6
    <3>2. w.op \in Editors => w.lead \in DOMAIN arrived
      BY <1>10 DEF KeptInv, Keeps
    <3>3. w.op \in Editors => SameRow(w) \/ ~Refers(w.row.batch)
      BY <2>1 DEF BatchFits
    <3>4. w.op \in Editors => arrived'[w.lead] = arrived[w.lead] \/ (~Exists(w.row.batch)' /\ w.row.batch # 0)
      <4>1. CASE w.op \in Editors /\ ~Refers(w.row.batch)
        BY <1>4, <4>1 DEF Refers
      <4>2. CASE w.op \in Editors /\ SameRow(w) /\ w.row.batch = c
        BY <1>2, <1>4, <4>2
      <4>3. CASE w.op \in Editors /\ SameRow(w) /\ w.row.batch # c
        BY <1>5, <3>2, <4>3 DEF SameRow
      <4>4. QED
        BY <3>3, <4>1, <4>2, <4>3
    <3>5. QED
      BY <1>3, <1>4, <1>10, <2>1, <2>3, <3>1, <3>4, BatchFitsElse
  <2>4. QED
    BY <2>2, <2>3
<1>11. ASSUME NEW b \in DOMAIN batches, Exists(b), b # c
       PROVE  (\E q \in Request : Counting(req[q])' /\ req'[q].batch = b) \/ Settled(b)'
  <2>1. CASE \E q \in Request : Counting(req[q]) /\ req[q].batch = b
    BY <1>1, <2>1 DEF Counting
  <2>2. CASE Settled(b)
    <3>1. PICK A : A = Adding(b)
      OBVIOUS
    <3>2. Adding(b)' = A
      BY <1>1, <3>1 DEF Adding
    <3>3. InBatch(b)' = InBatch(b) /\ batches'[b].total = batches[b].total
      BY <1>3, <1>7, <1>11, Numbered
    <3>4. QED
      BY <2>2, <3>1, <3>2, <3>3 DEF Settled
  <2>3. QED
    BY <1>11, <2>1, <2>2 DEF BatchFine
<1>12. \A b \in DOMAIN batches' : Exists(b)' => (\E q \in Request : Counting(req[q])' /\ req'[q].batch = b) \/ Settled(b)'
  BY <1>3, <1>4, <1>11
<1>13. \A q \in Request : BatchFits(req[q])'
  <2>1. ASSUME NEW q \in Request PROVE BatchFits(req[q])'
    <3>1. PICK w : w = req[q]
      OBVIOUS
    <3>2. BatchFits(w)' /\ req'[q] = w
      BY <1>1, <1>10, <3>1
    <3>3. QED
      BY <3>2
  <2>2. QED
    BY <2>1
<1>14. QED
  BY <1>9, <1>12, <1>13 DEF BatchFine

LEMMA BatchStays ==
    ASSUME TypeInv, KeptInv, IntakeMeets, BatchInv, IntakeNext
    PROVE  BatchInv'
<1> USE SavingKinds
<1>1. IntakeMeets' /\ met \subseteq met' /\ crashed' = crashed
  BY IntakeMeet, IntakeNeverCrashes
<1>2. SUFFICES ASSUME ~crashed, ~BatchMet' PROVE BatchFine'
  BY <1>1 DEF BatchInv
<1>3. BatchFine
  <2>1. ~BatchMet
    BY <1>1, <1>2, StillMet DEF BatchMet, EditMet
  <2>2. QED
    BY <1>2, <2>1 DEF BatchInv
<1>4. ASSUME NEW r \in Request,
             \/ \E left \in Deliveries : SyncNow(r, left) \/ \E lenient \in BOOLEAN : Deliver(r, left, lenient)
             \/ \E on \in BOOLEAN : SetSource(r, on)
             \/ \E p \in Phone : ByForm(r, p)
             \/ \E ls \in (SUBSET DOMAIN arrived) \ {{}} : Delete(r, ls)
             \/ \E i \in DOMAIN arrived, p \in Phone : Amend(r, i, p)
             \/ \E b \in DOMAIN batches : Rename(r, b)
             \/ RunImport(r)
      PROVE  BatchFine'
  BY <1>3, <1>4, BatchBegins
<1>5. ASSUME NEW r \in Request,
             LookUp(r) \/ CreateFails(r) \/ NoteCreated(r) \/ SaveReceived(r) \/ SaveError(r) \/ SaveSource(r)
      PROVE  BatchFine'
  BY <1>3, <1>5, BatchHooks
<1>6. ASSUME NEW r \in Request,
             Parse(r) \/ Unreadable(r) \/ ReadPhones(r) \/ ReadRows(r) \/ Inserted(r) \/ InsertFails(r) \/ FinishImport(r)
      PROVE  BatchFine'
  BY <1>3, <1>6, BatchFiles
<1>7. ASSUME NEW r \in Request, CacheCount(r) PROVE BatchFine'
  BY <1>3, <1>7, BatchHooks, BatchFiles
<1>8. ASSUME NEW r \in Request, SaveLead(r) \/ SaveBatch(r) \/ LoadBatch(r) \/ Recount(r) PROVE BatchFine'
  BY <1>1, <1>2, <1>3, <1>8, BatchRows
<1>9. ASSUME NEW r \in Request, TodaysBatch(r) \/ OpenBatch(r) PROVE BatchFine'
  BY <1>3, <1>9, BatchLooks
<1>10. ASSUME NEW r \in Request, AddToBatch(r) \/ CreateLead(r) \/ Insert(r) \/ MarkDeleted(r) \/ SaveTotal(r) PROVE BatchFine'
  <2>1. PICK u : u = req[r]
    OBVIOUS
  <2>2. PICK v : v = req'[r]
    OBVIOUS
  <2>3. CASE AddToBatch(r)
    <3>1. Becomes(r, v) /\ u.op \in Adders
      BY <2>1, <2>2, <2>3, HookMoves
    <3>2. QED
      BY <1>1, <1>2, <1>3, <2>1, <2>3, <3>1, BatchApart, BatchAdds
  <2>4. CASE CreateLead(r)
    <3>1. Becomes(r, v)
      BY <2>1, <2>2, <2>4, CreateMoves
    <3>2. QED
      BY <1>1, <1>2, <1>3, <2>1, <2>4, <3>1, BatchApart, BatchCreates
  <2>5. CASE Insert(r)
    <3>1. Becomes(r, v) /\ u.op = "import"
      BY <2>1, <2>2, <2>5, FileInserts
    <3>2. QED
      BY <1>1, <1>2, <1>3, <2>1, <2>5, <3>1, BatchApart, BatchInserts
  <2>6. CASE MarkDeleted(r)
    <3>1. Becomes(r, v) /\ u.op = "delete"
      BY <2>1, <2>2, <2>6, DeleteMoves
    <3>2. \A q \in Request \ {r} : req[q].op \notin Adders \cup Counters \cup {"rename"} \cup Editors
      BY <1>1, <1>2, <2>1, <3>1, BatchApart
    <3>3. QED
      BY <1>3, <2>1, <2>6, <3>2, BatchMarks
  <2>7. CASE SaveTotal(r)
    <3>1. Becomes(r, v) /\ u.op \in Counters
      BY <2>1, <2>2, <2>7, CountMoves
    <3>2. QED
      BY <1>1, <1>2, <1>3, <2>1, <2>7, <3>1, BatchApart, BatchCounted
  <2>8. QED
    BY <1>10, <2>3, <2>4, <2>5, <2>6, <2>7
<1>11. ASSUME NEW b \in DOMAIN batches, DropBatch(b) PROVE BatchFine'
  <2>1. ASSUME NEW q \in Request, req[q].op = "rename" PROVE FALSE
    <3>1. ~Free(q)
      BY <2>1 DEF Free
    <3>2. {"drop", req[q].op} \in met'
      BY <1>11, <3>1 DEF DropBatch, Happens
    <3>3. {"rename", "drop"} \in met'
      <4>1. {"drop", req[q].op} = {"rename", "drop"}
        BY <2>1
      <4>2. QED
        BY <3>2, <4>1
    <3>4. Met({"rename"}, Adders \cup Counters \cup {"drop"})'
      BY <3>3, MetHere
    <3>5. QED
      BY <1>2, <3>4 DEF BatchMet
  <2>2. QED
    BY <1>3, <1>11, <2>1, BatchDrops
<1>12. ASSUME Expires \/ \E file \in Files, rule \in {"skip", "update", "create_new"} : UploadFile(file, rule)
       PROVE  BatchFine'
  <2>1. arrived' = arrived /\ batches' = batches /\ req' = req
    BY <1>12 DEF Expires, UploadFile
  <2>2. ASSUME NEW r \in Request PROVE BatchFine'
    <3>1. PICK u : u = req[r]
      OBVIOUS
    <3>2. Becomes(r, u) /\ BatchFits(u)
      BY <1>3, <2>1, <3>1 DEF Becomes, BatchFine
    <3>3. QED
      BY <1>3, <2>1, <3>1, <3>2, BatchGoes
  <2>3. CASE Request = {}
    <3>1. \A b : Exists(b)' = Exists(b) /\ InBatch(b)' = InBatch(b) /\ Adding(b)' = Adding(b)
      BY <2>1, <2>3, SameCounts DEF Exists, Adding
    <3>2. ASSUME NEW b \in DOMAIN batches, Exists(b) PROVE Settled(b)'
      BY <1>3, <2>1, <2>3, <3>1, <3>2 DEF BatchFine, Settled
    <3>3. \A b \in DOMAIN batches' : Exists(b)' => Settled(b)'
      BY <2>1, <3>1, <3>2
    <3>4. \A i \in DOMAIN arrived' : arrived'[i].batch <= Len(batches')
      BY <1>3, <2>1 DEF BatchFine
    <3>5. QED
      BY <2>3, <3>3, <3>4 DEF BatchFine
  <2>4. QED
    BY <2>2, <2>3
<1>13. QED
  BY <1>4, <1>5, <1>6, <1>7, <1>8, <1>9, <1>10, <1>11, <1>12 DEF IntakeNext

-----------------------------------------------------------------------------
(* The others leave the intake as it is; a process that dies may take one    *)
(* of its requests with it.                                                  *)

Aside ==
    /\ UNCHANGED intakeVars /\ met \subseteq met' /\ (crashed => crashed')
    /\ \A q \in Request : req'[q] = req[q] \/ req'[q].op \notin IntakeKinds
    /\ \A q \in Request : crashed' \/ req'[q] = req[q] \/ {req[q].op, req'[q].op} \cap IntakeKinds = {}

LEMMA AsideBy ==
    ASSUME NEW kinds, Only(kinds), kinds \cap IntakeKinds = {}, UNCHANGED intakeVars, crashed => crashed'
    PROVE  Aside
<1>1. "idle" \notin IntakeKinds
  BY DEF IntakeKinds
<1>2. ASSUME NEW q \in Request, req'[q] # req[q] PROVE {req[q].op, req'[q].op} \cap IntakeKinds = {}
  <2>1. {req[q].op, req'[q].op} \subseteq kinds \cup {"idle"}
    BY <1>2 DEF Only
  <2>2. QED
    BY <1>1, <2>1
<1>3. QED
  BY <1>2 DEF Aside, Only

LEMMA OthersAside ==
    ASSUME TypeInv, Next \/ UNCHANGED vars, ~(IntakeNext /\ IntakeFrames)
    PROVE  Aside
<1>1. CASE PresenceNext /\ PresenceFrames
  <2>1. PICK kinds : kinds = PresenceKinds
    OBVIOUS
  <2>2. kinds \cap IntakeKinds = {} /\ Only(kinds) /\ UNCHANGED intakeVars
    BY <1>1, <2>1, PresenceTyped DEF PresenceKinds, IntakeKinds, PresenceFrames
  <2>3. QED
    BY <1>1, <2>2, PresenceNeverCrashes, AsideBy
<1>2. CASE TranscriptionNext /\ RecordingFrames
  <2>1. PICK kinds : kinds = RecordingKinds
    OBVIOUS
  <2>2. kinds \cap IntakeKinds = {} /\ Only(kinds) /\ UNCHANGED intakeVars
    BY <1>2, <2>1, RecordingTyped DEF RecordingStep, RecordingKinds, IntakeKinds, RecordingFrames
  <2>3. QED
    BY <1>2, <2>2, RecordingNeverCrashes, AsideBy
<1>3. CASE DeskNext /\ DeskFrame
  <2>1. UNCHANGED intakeVars /\ (crashed => crashed')
    BY <1>3, NoneRecovers DEF DeskFrame
  <2>2. CASE Only(DeskKinds)
    <3>1. PICK kinds : kinds = DeskKinds
      OBVIOUS
    <3>2. kinds \cap IntakeKinds = {} /\ Only(kinds)
      BY <2>2, <3>1 DEF DeskKinds, DeskOps, IntakeKinds
    <3>3. QED
      BY <2>1, <3>2, AsideBy
  <2>3. CASE \E r \in Request : Becomes(r, Idle) /\ met' = met /\ crashed'
    <3>1. PICK r \in Request : Becomes(r, Idle) /\ met' = met /\ crashed'
      BY <2>3
    <3>2. Idle.op \notin IntakeKinds
      BY DEF Idle, IntakeKinds
    <3>3. \A q \in Request : req'[q] = req[q] \/ req'[q].op \notin IntakeKinds
      BY <3>1, <3>2 DEF Becomes
    <3>4. QED
      BY <2>1, <3>1, <3>3 DEF Aside
  <2>4. QED
    BY <1>3, <2>2, <2>3, DeskTyped
<1>4. CASE UNCHANGED vars
  BY <1>4 DEF vars, intakeVars, Aside
<1>5. QED
  BY <1>1, <1>2, <1>3, <1>4 DEF Next, DeskFrame, PresenceFrames, RecordingFrames, IntakeFrames

\* What is read of the intake's rows.
LEMMA AsideReads ==
    ASSUME Aside
    PROVE  /\ arrived' = arrived /\ batches' = batches /\ job' = job /\ source' = source /\ counted' = counted
           /\ LiveLeads' = LiveLeads /\ (\A h : From(h)' = From(h)) /\ (\A b : InBatch(b)' = InBatch(b))
           /\ (\A p : Live(p)' = Live(p)) /\ \A b : Exists(b)' = Exists(b)
<1>1. arrived' = arrived /\ batches' = batches /\ job' = job /\ source' = source /\ counted' = counted
  BY DEF Aside, intakeVars
<1>2. \A b : Exists(b)' = Exists(b)
  BY <1>1 DEF Exists
<1>3. QED
  BY <1>1, <1>2, SameCounts

LEMMA KindsOfIntake ==
    /\ Saving \subseteq IntakeKinds /\ Makers \subseteq IntakeKinds /\ ByOne \subseteq IntakeKinds /\ Adders \subseteq IntakeKinds
    /\ Counters \subseteq IntakeKinds /\ {"amend", "renumber", "import", "rename", "delete", "hand", "toggle"} \subseteq IntakeKinds
    /\ "idle" \notin IntakeKinds /\ Editors = {"amend", "renumber"}
BY DEF Saving, Makers, ByOne, Adders, Counters, IntakeKinds, Editors

LEMMA MeetsAside == ASSUME Aside, IntakeMeets PROVE IntakeMeets'
BY DEF Aside, IntakeMeets

LEMMA KeptAside == ASSUME Aside, KeptInv PROVE KeptInv'
<1>1. arrived' = arrived /\ job' = job /\ source' = source
  BY AsideReads
<1>2. ASSUME NEW q \in Request PROVE Keeps(req[q])'
  <2>1. PICK w : w = req'[q]
    OBVIOUS
  <2>2. CASE w = req[q]
    <3>1. Keeps(w)
      BY <2>2 DEF KeptInv
    <3>2. Keeps(w)'
      BY <1>1, <3>1 DEF Keeps
    <3>3. QED
      BY <2>1, <3>2
  <2>3. CASE w.op \notin IntakeKinds
    <3>1. Keeps(w)'
      BY <2>3, KindsOfIntake DEF Keeps
    <3>2. QED
      BY <2>1, <3>1
  <2>4. QED
    BY <2>1, <2>2, <2>3 DEF Aside
<1>3. QED
  BY <1>1, <1>2 DEF KeptInv

LEMMA LivesAside == ASSUME Aside, LivesInv PROVE LivesInv'
<1>1. arrived' = arrived /\ met \subseteq met'
  BY AsideReads DEF Aside
<1>2. CASE EditMet
  <2>1. EditMet'
    BY <1>1, <1>2, StillMet DEF EditMet
  <2>2. QED
    BY <2>1 DEF LivesInv
<1>3. CASE \A r \in Request : req[r].op \in Editors => arrived[req[r].lead].live
  BY <1>1, <1>3, KindsOfIntake DEF Aside, LivesInv
<1>4. QED
  BY <1>2, <1>3 DEF LivesInv

LEMMA PhoneAside == ASSUME Aside, PhoneInv PROVE PhoneInv'
<1>1. source' = source /\ job' = job /\ arrived' = arrived /\ met \subseteq met' /\ \A p : Live(p)' = Live(p)
  BY AsideReads DEF Aside
<1>2. CASE NumberMet \/ EditMet
  <2>1. NumberMet' \/ EditMet'
    BY <1>1, <1>2, StillMet DEF EditMet, NumberMet
  <2>2. QED
    BY <2>1 DEF PhoneInv
<1>3. CASE source.rule = "create_new" \/ job.rule = "create_new"
  BY <1>1, <1>3 DEF PhoneInv
<1>4. CASE PhoneFine
  <2>1. \A p \in Phone : Single(Live(p))'
    BY <1>1, <1>4 DEF PhoneFine
  <2>2. ASSUME NEW q \in Request PROVE PhoneFits(req[q])' /\ EditFits(req[q])'
    <3>1. PICK w : w = req'[q]
      OBVIOUS
    <3>2. CASE w = req[q]
      <4>1. PhoneFits(w) /\ EditFits(w)
        BY <1>4, <3>2 DEF PhoneFine
      <4>2. Unknown(w)' = Unknown(w)
        BY <1>1 DEF Unknown
      <4>3. PhoneFits(w)' /\ EditFits(w)'
        BY <1>1, <4>1, <4>2 DEF PhoneFits, EditFits
      <4>4. QED
        BY <3>1, <4>3
    <3>3. CASE w.op \notin IntakeKinds
      <4>1. PhoneFits(w)' /\ EditFits(w)'
        BY <3>3, KindsOfIntake DEF PhoneFits, EditFits
      <4>2. QED
        BY <3>1, <4>1
    <3>4. QED
      BY <3>1, <3>2, <3>3 DEF Aside
  <2>3. PhoneFine'
    BY <2>1, <2>2 DEF PhoneFine
  <2>4. QED
    BY <2>3 DEF PhoneInv
<1>5. QED
  BY <1>2, <1>3, <1>4 DEF PhoneInv

LEMMA WithinAside == ASSUME Aside, WithinInv PROVE WithinInv'
<1>1. counted' = counted /\ LiveLeads' = LiveLeads /\ met \subseteq met'
  BY AsideReads DEF Aside
<1>2. CASE Met(Makers, Makers) \/ {"chunks"} \in met \/ EditMet
  <2>1. Met(Makers, Makers)' \/ {"chunks"} \in met' \/ EditMet'
    BY <1>1, <1>2, StillMet DEF EditMet
  <2>2. QED
    BY <2>1 DEF WithinInv
<1>3. CASE crashed \/ crashed'
  BY <1>3 DEF Aside, WithinInv
<1>4. CASE WithinFine /\ ~crashed'
  <2>1. \A n : Covers(n)' = Covers(n)
    BY <1>1 DEF Covers, NoCount
  <2>2. (\E r \in Request : Pending(req[r])') \/ Covers(0)'
    <3>1. CASE Covers(0)
      BY <2>1, <3>1
    <3>2. CASE \E r \in Request : Pending(req[r])
      <4>1. PICK r \in Request : Pending(req[r])
        BY <3>2
      <4>2. req[r].op \in IntakeKinds
        BY <4>1, KindsOfIntake DEF Pending
      <4>3. req'[r] = req[r]
        BY <1>4, <4>2 DEF Aside
      <4>4. Pending(req[r])'
        BY <4>1, <4>3 DEF Pending
      <4>5. QED
        BY <4>4
    <3>3. QED
      BY <1>4, <3>1, <3>2 DEF WithinFine
  <2>3. ASSUME NEW q \in Request PROVE WithinFits(req[q])'
    <3>1. PICK w : w = req'[q]
      OBVIOUS
    <3>2. CASE w = req[q]
      <4>1. WithinFits(w)
        BY <1>4, <3>2 DEF WithinFine
      <4>2. WithinFits(w)'
        BY <1>1, <2>1, <4>1 DEF WithinFits
      <4>3. QED
        BY <3>1, <4>2
    <3>3. CASE w.op \notin IntakeKinds
      <4>1. WithinFits(w)'
        BY <3>3, KindsOfIntake DEF WithinFits
      <4>2. QED
        BY <3>1, <4>1
    <3>4. QED
      BY <3>1, <3>2, <3>3 DEF Aside
  <2>4. WithinFine'
    BY <1>1, <1>4, <2>2, <2>3 DEF WithinFine
  <2>5. QED
    BY <2>4 DEF WithinInv
<1>5. QED
  BY <1>2, <1>3, <1>4 DEF WithinInv

LEMMA SourceAside == ASSUME Aside, SourceInv PROVE SourceInv'
<1>1. source' = source /\ From("hook")' = From("hook") /\ met \subseteq met'
  BY AsideReads DEF Aside
<1>2. CASE Met(Saving, Saving)
  <2>1. Met(Saving, Saving)'
    BY <1>1, <1>2, StillMet
  <2>2. QED
    BY <2>1 DEF SourceInv
<1>3. CASE crashed \/ crashed'
  BY <1>3 DEF Aside, SourceInv
<1>4. CASE SourceFine /\ ~crashed'
  <2>1. \A q \in Request : req'[q] = req[q] \/ (req[q].op \notin Saving /\ req'[q].op \notin Saving)
    BY <1>4, KindsOfIntake DEF Aside
  <2>2. SourceFine'
    BY <1>1, <1>4, <2>1, SourceSame
  <2>3. QED
    BY <2>2 DEF SourceInv
<1>5. QED
  BY <1>2, <1>3, <1>4 DEF SourceInv

LEMMA ImportAside == ASSUME Aside, ImportInv PROVE ImportInv'
<1>1. job' = job /\ From("file")' = From("file") /\ met \subseteq met'
  BY AsideReads DEF Aside
<1>2. CASE crashed \/ crashed'
  BY <1>2 DEF Aside, ImportInv
<1>3. CASE ImportFine /\ ~crashed'
  <2>1. \A q \in Request : req'[q] = req[q] \/ (req[q].op # "import" /\ req'[q].op # "import")
    BY <1>3, KindsOfIntake DEF Aside
  <2>2. ImportFine'
    BY <1>1, <1>3, <2>1, ImportSame
  <2>3. QED
    BY <2>2 DEF ImportInv
<1>4. QED
  BY <1>2, <1>3 DEF ImportInv

LEMMA BatchAside == ASSUME Aside, BatchInv PROVE BatchInv'
<1>1. arrived' = arrived /\ batches' = batches /\ met \subseteq met'
  BY AsideReads DEF Aside
<1>2. CASE BatchMet
  <2>1. BatchMet'
    BY <1>1, <1>2, StillMet DEF BatchMet, EditMet
  <2>2. QED
    BY <2>1 DEF BatchInv
<1>3. CASE crashed \/ crashed'
  BY <1>3 DEF Aside, BatchInv
<1>4. CASE BatchFine /\ ~crashed'
  <2>1. ASSUME NEW q \in Request PROVE req'[q] = req[q] \/ (req[q].op \notin IntakeKinds /\ req'[q].op \notin IntakeKinds)
    BY <1>4 DEF Aside
  <2>2. ASSUME NEW q \in Request PROVE BatchFits(req[q])'
    <3>1. PICK w : w = req'[q]
      OBVIOUS
    <3>2. CASE w = req[q]
      <4>1. BatchFits(w)
        BY <1>4, <3>2 DEF BatchFine
      <4>2. BatchFits(w)'
        BY <1>1, <4>1, BatchFitsSame
      <4>3. QED
        BY <3>1, <4>2
    <3>3. CASE w.op \notin IntakeKinds
      <4>1. BatchFits(w)'
        BY <3>3, KindsOfIntake DEF BatchFits, Counting
      <4>2. QED
        BY <3>1, <4>1
    <3>4. QED
      BY <2>1, <3>1, <3>2, <3>3
  <2>3. ASSUME NEW b PROVE Adding(b)' = Adding(b)
    <3>1. ASSUME NEW q \in Request PROVE (Unadded(req'[q]) /\ req'[q].batch = b) <=> (Unadded(req[q]) /\ req[q].batch = b)
      BY <2>1, KindsOfIntake DEF Unadded
    <3>2. QED
      BY <3>1 DEF Adding, Unadded
  <2>4. ASSUME NEW b, NEW q \in Request, Counting(req[q]), req[q].batch = b PROVE Counting(req[q])' /\ req'[q].batch = b
    <3>1. req'[q] = req[q]
      BY <2>1, <2>4, KindsOfIntake DEF Counting
    <3>2. QED
      BY <2>4, <3>1 DEF Counting
  <2>5. ASSUME NEW b \in DOMAIN batches', Exists(b)'
        PROVE  (\E r \in Request : Counting(req[r])' /\ req'[r].batch = b) \/ Settled(b)'
    <3>1. b \in DOMAIN batches /\ Exists(b) /\ InBatch(b)' = InBatch(b)
      BY <1>1, <2>5, AsideReads
    <3>2. CASE \E r \in Request : Counting(req[r]) /\ req[r].batch = b
      BY <2>4, <3>2
    <3>3. CASE Settled(b)
      <4>1. Adding(b)' = Adding(b)
        BY <2>3
      <4>2. Settled(b)'
        BY <1>1, <3>1, <3>3, <4>1 DEF Settled
      <4>3. QED
        BY <4>2
    <3>4. QED
      BY <1>4, <3>1, <3>2, <3>3 DEF BatchFine
  <2>6. \A i \in DOMAIN arrived' : arrived'[i].batch <= Len(batches')
    BY <1>1, <1>4 DEF BatchFine
  <2>7. BatchFine'
    BY <2>2, <2>5, <2>6 DEF BatchFine
  <2>8. QED
    BY <2>7 DEF BatchInv
<1>5. QED
  BY <1>2, <1>3, <1>4 DEF BatchInv

-----------------------------------------------------------------------------
(* What comes is counted where it should be.                                *)

IntakeInv ==
    /\ IntakeMeets /\ KeptInv /\ LivesInv /\ PhoneInv
    /\ WithinInv /\ SourceInv /\ ImportInv /\ BatchInv

LEMMA IntakeKept == ASSUME TypeInv, TypeInv', IntakeInv, [Next]_vars PROVE IntakeInv'
<1> USE DEF IntakeInv
<1>1. CASE IntakeNext
  <2>1. IntakeMeets' /\ met \subseteq met'
    BY <1>1, IntakeMeet
  <2>2. KeptInv' /\ LivesInv' /\ PhoneInv'
    BY <1>1, KeptStays, LivesStay, PhoneStays
  <2>3. WithinInv' /\ SourceInv'
    BY <1>1, WithinStays, SourceStays
  <2>4. ImportInv' /\ BatchInv'
    BY <1>1, <2>1, ImportStays, BatchStays
  <2>5. QED
    BY <2>1, <2>2, <2>3, <2>4
<1>2. CASE ~IntakeNext
  <2>1. Aside
    BY <1>2, OthersAside
  <2>2. QED
    BY <2>1, MeetsAside, KeptAside, LivesAside, PhoneAside, WithinAside, SourceAside, ImportAside, BatchAside
<1>3. QED
  BY <1>1, <1>2

LEMMA IntakeInits == Init => IntakeInv
<1> SUFFICES ASSUME Init PROVE IntakeInv
  OBVIOUS
<1>1. TypeInv /\ \A r \in Request : req[r].op = "idle"
  BY Begins DEF Idle
<1>2. job = NoJob /\ counted = NoCount
  BY DEF Init, IntakeInit
<1>3. PICK n \in {0, 1} : /\ Len(arrived) = n /\ Len(batches) = n /\ source.received = n
                          /\ DOMAIN arrived = 1..n /\ DOMAIN batches = 1..n
                          /\ \A i \in 1..n : /\ arrived[i].live /\ arrived[i].batch = 1 /\ arrived[i].from = "hook"
                                             /\ batches[i].total = 1
  <2>1. CASE arrived = <<>> /\ batches = <<>> /\ source.received = 0
    <3>1. Len(arrived) = 0 /\ Len(batches) = 0 /\ DOMAIN arrived = 1..0 /\ DOMAIN batches = 1..0
      BY <2>1
    <3>2. QED
      BY <2>1, <3>1
  <2>2. ASSUME NEW p \in Phone, arrived = <<NewLead(p, 1, "hook")>>, batches = <<[kind |-> "webhook", total |-> 1]>>,
               source.received = 1
        PROVE  \E n \in {0, 1} : /\ Len(arrived) = n /\ Len(batches) = n /\ source.received = n
                                 /\ DOMAIN arrived = 1..n /\ DOMAIN batches = 1..n
                                 /\ \A i \in 1..n : /\ arrived[i].live /\ arrived[i].batch = 1 /\ arrived[i].from = "hook"
                                                    /\ batches[i].total = 1
    <3>1. Len(arrived) = 1 /\ Len(batches) = 1 /\ DOMAIN arrived = 1..1 /\ DOMAIN batches = 1..1
      BY <2>2
    <3>2. arrived[1].live /\ arrived[1].batch = 1 /\ arrived[1].from = "hook" /\ batches[1].total = 1
      BY <2>2 DEF NewLead
    <3>3. QED
      BY <2>2, <3>1, <3>2
  <2>3. QED
    BY <2>1, <2>2 DEF Init, IntakeInit
<1>4. \A i, j \in 1..n : i = j
  BY <1>3
<1>5. LiveLeads = n /\ From("hook") = n /\ From("file") = 0
  <2>1. {i \in DOMAIN arrived : arrived[i].live} = 1..n /\ {i \in DOMAIN arrived : arrived[i].from = "hook"} = 1..n
    BY <1>3
  <2>2. {i \in DOMAIN arrived : arrived[i].from = "file"} = {}
    BY <1>3
  <2>3. Cardinality(1..n) = n
    BY <1>3, FS_Interval
  <2>4. QED
    BY <2>1, <2>2, <2>3, FS_EmptySet DEF LiveLeads, From
<1>6. IntakeMeets /\ KeptInv /\ LivesInv
  BY <1>1, <1>2, KindsOfIntake DEF IntakeMeets, KeptInv, Keeps, LivesInv
<1>7. PhoneInv
  <2>1. \A p \in Phone : Single(Live(p))
    BY <1>3, <1>4 DEF Single, Live
  <2>2. QED
    BY <1>1, <2>1, KindsOfIntake DEF PhoneInv, PhoneFine, PhoneFits, EditFits
<1>8. WithinInv
  <2>1. LiveLeads <= MaxLeads
    BY <1>3, <1>5, CapIsNat
  <2>2. Covers(0)
    BY <1>2 DEF Covers
  <2>3. QED
    BY <1>1, <2>1, <2>2, KindsOfIntake DEF WithinInv, WithinFine, WithinFits
<1>9. SourceInv
  <2>1. FollowsSwitch(source)
    BY DEF Init, IntakeInit, FollowsSwitch
  <2>2. QED
    BY <1>1, <1>3, <1>5, <2>1, KindsOfIntake DEF SourceInv, SourceFine, SourceFits
<1>10. ImportInv
  <2>1. /\ job.st = "none" /\ job.total = 0 /\ job.ok = 0 /\ job.failed = 0 /\ job.dup = 0
    BY <1>2 DEF NoJob
  <2>2. QED
    BY <1>1, <1>5, <2>1 DEF ImportInv, ImportFine, Waiting
<1>11. BatchInv
  <2>1. \A r \in Request : BatchFits(req[r])
    BY <1>1, KindsOfIntake DEF BatchFits, Counting
  <2>2. ASSUME NEW b \in DOMAIN batches PROVE Settled(b)
    <3>1. n = 1 /\ b = 1 /\ batches[b].total = 1
      BY <1>3
    <3>2. Adding(b) = {} /\ Cardinality(Adding(b)) = 0
      BY <1>1, KindsOfIntake, NoneAdding DEF Unadded
    <3>3. {i \in DOMAIN arrived : arrived[i].batch = b /\ arrived[i].live} = {1}
      BY <1>3, <3>1
    <3>4. InBatch(b) = 1
      BY <3>3, FS_Singleton DEF InBatch
    <3>5. QED
      BY <3>1, <3>2, <3>4 DEF Settled
  <2>3. \A i \in DOMAIN arrived : arrived[i].batch <= Len(batches)
    BY <1>3
  <2>4. QED
    BY <2>1, <2>2, <2>3 DEF BatchInv, BatchFine
<1>12. QED
  BY <1>6, <1>7, <1>8, <1>9, <1>10, <1>11 DEF IntakeInv

LEMMA IntakeFollows == TypeInv /\ IntakeInv => IntakeAgrees
<1> SUFFICES ASSUME TypeInv, IntakeInv PROVE IntakeAgrees
  OBVIOUS
<1>1. WithinPlan
  BY DEF IntakeInv, WithinInv, WithinFine, EditMet, WithinPlan
<1>2. OnePerNumber
  BY SingleCount DEF IntakeInv, PhoneInv, PhoneFine, EditMet, NumberMet, OnePerNumber
<1>3. ASSUME Quiet, ~crashed PROVE BatchesAgree /\ ImportAddsUp /\ SourceAgrees
  <2>1. \A r \in Request : req[r].op = "idle"
    BY <1>3 DEF Quiet, Free
  <2>2. BatchesAgree
    <3>1. SUFFICES ASSUME ~BatchMet, NEW b \in DOMAIN batches, Exists(b) PROVE batches[b].total = InBatch(b)
      BY DEF BatchesAgree, BatchMet, EditMet
    <3>2. Settled(b)
      BY <1>3, <2>1, <3>1 DEF IntakeInv, BatchInv, BatchFine, Counting
    <3>3. Cardinality(Adding(b)) = 0
      BY <2>1, KindsOfIntake, NoneAdding DEF Unadded
    <3>4. batches[b].total \in Nat
      BY <3>1, Numbered
    <3>5. QED
      BY <3>2, <3>3, <3>4 DEF Settled
  <2>3. ImportAddsUp
    <3>1. ImportFine /\ job.st # "processing"
      BY <1>3, <2>1 DEF IntakeInv, ImportInv, ImportFine
    <3>2. /\ job.total \in Nat /\ job.ok \in Nat /\ job.failed \in Nat /\ job.dup \in Nat /\ From("file") \in Nat
          /\ Skipped(job.dup) \in {0, job.dup} /\ Doubles(job.dup) \in {0, job.dup}
      BY JobTypes
    <3>3. /\ job.total = job.ok + job.failed + Skipped(job.dup)
          /\ {"chunks"} \in met \/ From("file") + Doubles(job.dup) = job.ok
      <4>1. CASE job.st \in Waiting
        BY <3>1, <3>2, <4>1 DEF ImportFine
      <4>2. CASE job.st \notin Waiting
        BY <3>1, <4>2 DEF ImportFine
      <4>3. QED
        BY <4>1, <4>2
    <3>4. {"chunks"} \in met \/ From("file") = job.ok - Doubles(job.dup)
      BY <3>2, <3>3
    <3>5. QED
      BY <3>1, <3>3, <3>4 DEF ImportAddsUp, From, Skipped, Doubles
  <2>4. SourceAgrees
    <3>1. SUFFICES ASSUME ~Met(Saving, Saving)
                   PROVE  FollowsSwitch(source) /\ ({"halfway"} \in met \/ source.received = From("hook"))
      BY DEF SourceAgrees, Saving, FollowsSwitch, From
    <3>2. SourceFine
      BY <1>3, <3>1 DEF IntakeInv, SourceInv
    <3>3. QED
      BY <2>1, <3>2, KindsOfIntake DEF SourceFine
  <2>5. QED
    BY <2>2, <2>3, <2>4
<1>4. QED
  BY <1>1, <1>2, <1>3 DEF IntakeAgrees

\* The plan's cap holds, a number has one lead, and when nothing is in
\* progress a batch, an import and the source count the leads they brought;
\* unless two operations that write the same met, one failed half way, or a
\* worker died.
THEOREM IntakeHolds == Spec => []IntakeAgrees
<1>1. TypeInv /\ TypeInv' /\ IntakeInv /\ [Next]_vars => IntakeInv'
  BY IntakeKept
<1>2. QED
  BY <1>1, IntakeInits, IntakeFollows, TypeInvariant, PTL DEF Spec
=============================================================================

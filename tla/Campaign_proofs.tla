--------------------------- MODULE Campaign_proofs ---------------------------
(***************************************************************************)
(* Safety of Campaign for every set of leads, workers and requests and     *)
(* every bound.                                                            *)
(***************************************************************************)
EXTENDS CampaignRefinement, Sums, FiniteSetTheorems, TLAPS

USE CampaignAssumption

-----------------------------------------------------------------------------
(* Type correctness.                                                       *)

\* The operators that count rows and marked recipients return naturals.
LEMMA CardinalityOfLeads ==
    ASSUME NEW S \in SUBSET Lead
    PROVE  Cardinality(S) \in Nat
BY FS_Subset, FS_CardinalityType

\* A step of a launch or pause handler keeps the types.
LEMMA AdminType ==
    ASSUME TypeOK, NEW a \in Admin, AdminNext(a)
    PROVE  TypeOK'
<1> USE DEF Fault, Resume, requestFrame, bounds
<1>1. status' \in Statuses /\ taskId' \in Task \cup {NoTask} /\ revoked' \subseteq Task
  BY DEF TypeOK, AdminNext, LaunchRead, LaunchClaim, LaunchDispatch, LaunchGiveBack,
         LaunchSaveTaskId, PauseRead, PauseRevoke, PauseWrite, RequestCrash,
         Statuses, LAUNCHABLE_STATUSES, HALTED_STATUSES, RequestRec
<1>2. claims' \in Nat /\ pauses' \in Nat /\ faults' \in Nat /\ late' \in [Worker -> Nat]
  BY DEF TypeOK, AdminNext, LaunchRead, LaunchClaim, LaunchDispatch, LaunchGiveBack,
         LaunchSaveTaskId, PauseRead, PauseRevoke, PauseWrite, RequestCrash
<1>3. request' \in [Admin -> RequestRec]
  <2> USE DEF GoRequest, EndRequest, SetRequest, IdleRequest, RequestRec, RequestPcs,
              LAUNCHABLE_STATUSES, Task, NoTask
  <2>1. request \in [Admin -> RequestRec] /\ taskId \in Task \cup {NoTask}
    BY DEF TypeOK
  <2>2. CASE LaunchRead(a)
    BY <2>1, <2>2 DEF LaunchRead
  <2>3. CASE LaunchDispatch(a)
    BY <2>1, <2>3 DEF LaunchDispatch
  <2>4. CASE PauseRead(a)
    BY <2>1, <2>4 DEF PauseRead
  <2>5. CASE LaunchClaim(a) \/ PauseRevoke(a)
    BY <2>1, <2>5 DEF LaunchClaim, PauseRevoke
  <2>6. CASE LaunchGiveBack(a) \/ LaunchSaveTaskId(a) \/ PauseWrite(a) \/ RequestCrash(a)
    BY <2>1, <2>6 DEF LaunchGiveBack, LaunchSaveTaskId, PauseWrite, RequestCrash
  <2>7. QED
    BY <2>2, <2>3, <2>4, <2>5, <2>6 DEF AdminNext
<1>4. coord' \in [Task -> CoordRec]
  BY DEF TypeOK, AdminNext, LaunchRead, LaunchClaim, LaunchDispatch, LaunchGiveBack,
         LaunchSaveTaskId, PauseRead, PauseRevoke, PauseWrite, RequestCrash,
         CoordRec, CoordPcs
<1>5. UNCHANGED requestFrame
  BY DEF AdminNext, LaunchRead, LaunchClaim, LaunchDispatch, LaunchGiveBack,
         LaunchSaveTaskId, PauseRead, PauseRevoke, PauseWrite, RequestCrash
<1>6. QED
  BY <1>1, <1>2, <1>3, <1>4, <1>5 DEF TypeOK

\* A step of a scheduler run keeps the types.
LEMMA BeatType ==
    ASSUME TypeOK, NEW b \in Beat, BeatNext(b)
    PROVE  TypeOK'
<1> USE DEF TypeOK, Fault, Resume, schedFrame, bounds, Statuses, SchedPcs,
            LAUNCHABLE_STATUSES, HALTED_STATUSES
<1>1. CASE SchedScan(b)
  BY <1>1 DEF SchedScan
<1>2. CASE SchedRefuse(b)
  BY <1>2 DEF SchedRefuse
<1>3. CASE SchedClaim(b)
  BY <1>3 DEF SchedClaim
<1>4. CASE SchedDispatch(b)
  BY <1>4 DEF SchedDispatch, CoordPcs, CoordRec
<1>5. CASE SchedCrash(b)
  BY <1>5 DEF SchedCrash
<1>6. QED
  BY <1>1, <1>2, <1>3, <1>4, <1>5 DEF BeatNext

\* A step of a coordinator keeps the types.
LEMMA CoordType ==
    ASSUME TypeOK, NEW c \in Task, CoordNext(c)
    PROVE  TypeOK'
<1> USE DEF TypeOK, Fault, Resume, CoordTo, coordFrame, bounds, Statuses, CoordPcs, CoordRec,
            LAUNCHABLE_STATUSES, HALTED_STATUSES
<1>1. CASE CoordStart(c)
  BY <1>1 DEF CoordStart
<1>2. CASE CoordDiscard(c)
  BY <1>2 DEF CoordDiscard
<1>3. CASE CoordResolve(c)
  BY <1>3 DEF CoordResolve
<1>4. CASE CoordRefused(c)
  BY <1>4 DEF CoordRefused
<1>5. CASE CoordCreateRows(c)
  <2>1. row' \in [Lead -> RowStatuses]
    BY <1>5 DEF CoordCreateRows, NewRows, RowStatuses
  <2>2. total' \in Nat
    BY <1>5, CardinalityOfLeads DEF CoordCreateRows
  <2>3. QED
    BY <1>5, <2>1, <2>2 DEF CoordCreateRows
<1>6. CASE CoordSelect(c)
  BY <1>6 DEF CoordSelect, Pending
<1>7. CASE CoordDispatch(c)
  <2>1. PICK ids \in SUBSET coord[c].leads :
            /\ chunkQ' = chunkQ \cup {[task |-> c, ids |-> ids, copy |-> 0]}
            /\ coord' = [coord EXCEPT ![c] = [pc |-> "dispatching",
                                              leads |-> coord[c].leads \ ids]]
    BY <1>7 DEF CoordDispatch, CoordTo
  <2>2. [task |-> c, ids |-> ids, copy |-> 0] \in Chunk
    BY <2>1 DEF Chunk
  <2>3. coord[c].leads \ ids \in SUBSET Lead
    OBVIOUS
  <2>4. QED
    BY <1>7, <2>1, <2>2, <2>3 DEF CoordDispatch
<1>8. CASE CoordFinish(c)
  BY <1>8 DEF CoordFinish
<1>9. CASE CoordError(c)
  BY <1>9 DEF CoordError
<1>10. CASE CoordCrash(c)
  BY <1>10 DEF CoordCrash
<1>11. CASE CoordKilled(c)
  BY <1>11 DEF CoordKilled
<1>12. QED
  BY <1>1, <1>2, <1>3, <1>4, <1>5, <1>6, <1>7, <1>8, <1>9, <1>10, <1>11
  DEF CoordNext, CoordStep

\* Replacing a worker's record by one of the right type keeps the type.
LEMMA WorkerUpdate ==
    ASSUME worker \in [Worker -> WorkerRec], NEW w \in Worker,
           NEW r \in WorkerRec, SetWorker(w, r)
    PROVE  worker' \in [Worker -> WorkerRec]
BY DEF SetWorker

\* A step of a chunk keeps the types.
LEMMA WorkerType ==
    ASSUME TypeOK, NEW w \in Worker, WorkerNext(w)
    PROVE  TypeOK'
<1> USE DEF Fault, chunkFrame, bounds, W
<1>1. status' \in Statuses
  BY DEF TypeOK, Statuses, HALTED_STATUSES, WorkerNext, WorkerStep, ChunkStart,
         ChunkSelect, ChunkFailAll, ChunkEndLoop, ChunkTake, ChunkSkip, ChunkSend,
         ChunkMarkSent, ChunkLogActivity, ChunkMarkFailed, ChunkTally, ChunkProbe,
         ChunkClose, ChunkCrash
<1>2. row' \in [Lead -> RowStatuses]
  <2> USE DEF TypeOK, RowStatuses
  <2>1. CASE ChunkFailAll(w)
    BY <2>1 DEF ChunkFailAll
  <2>2. CASE ChunkSkip(w)
    BY <2>2 DEF ChunkSkip
  <2>3. CASE ChunkMarkSent(w)
    BY <2>3 DEF ChunkMarkSent
  <2>4. CASE ChunkMarkFailed(w)
    BY <2>4 DEF ChunkMarkFailed
  <2>5. CASE UNCHANGED row
    BY <2>5
  <2>6. QED
    BY <2>1, <2>2, <2>3, <2>4, <2>5
    DEF WorkerNext, WorkerStep, ChunkStart, ChunkSelect, ChunkEndLoop, ChunkTake, ChunkSend,
        ChunkLogActivity, ChunkTally, ChunkProbe, ChunkClose, ChunkCrash
<1>3. sentCount' \in Nat /\ failedCount' \in Nat
  <2>1. CASE ChunkTally(w)
    <3>1. W(w).sent \in Nat /\ W(w).failed \in Nat
      BY DEF TypeOK, WorkerRec
    <3>2. QED
      BY <2>1, <3>1 DEF TypeOK, ChunkTally, AddToCounter
  <2>2. CASE UNCHANGED <<sentCount, failedCount>>
    BY <2>2 DEF TypeOK
  <2>3. QED
    BY <2>1, <2>2
    DEF WorkerNext, WorkerStep, ChunkStart, ChunkSelect, ChunkFailAll, ChunkEndLoop,
        ChunkTake, ChunkSkip, ChunkSend, ChunkMarkSent, ChunkLogActivity, ChunkMarkFailed,
        ChunkProbe, ChunkClose, ChunkCrash
<1>4. delivered' \in [Lead -> Nat] /\ late' \in [Worker -> Nat]
  <2>1. CASE ChunkSend(w)
    <3>1. delivered \in [Lead -> Nat] /\ late \in [Worker -> Nat]
      BY DEF TypeOK
    <3> DEFINE l == W(w).cur
    <3>2. delivered' = [delivered EXCEPT ![l] = delivered[l] + 1]
      BY <2>1 DEF ChunkSend
    <3>3. late' = [late EXCEPT ![w] = IF Halted THEN late[w] + 1 ELSE late[w]]
      BY <2>1 DEF ChunkSend
    <3> HIDE DEF l
    <3>4. delivered' \in [Lead -> Nat]
      <4>1. CASE l \in Lead
        BY <3>1, <3>2, <4>1
      <4>2. CASE l \notin Lead
        BY <3>1, <3>2, <4>2, Zenon
      <4>3. QED
        BY <4>1, <4>2
    <3>5. late' \in [Worker -> Nat]
      BY <3>1, <3>3
    <3>6. QED
      BY <3>4, <3>5
  <2>2. CASE UNCHANGED <<delivered, late>>
    BY <2>2 DEF TypeOK
  <2>3. QED
    BY <2>1, <2>2
    DEF WorkerNext, WorkerStep, ChunkStart, ChunkSelect, ChunkFailAll, ChunkEndLoop,
        ChunkTake, ChunkSkip, ChunkMarkSent, ChunkLogActivity, ChunkMarkFailed,
        ChunkTally, ChunkProbe, ChunkClose, ChunkCrash
<1>8. chunkQ' \subseteq chunkQ
  <2>1. CASE ChunkStart(w)
    BY <2>1 DEF ChunkStart
  <2>2. CASE UNCHANGED chunkQ
    BY <2>2
  <2>3. QED
    BY <2>1, <2>2
    DEF WorkerNext, WorkerStep, ChunkSelect, ChunkFailAll, ChunkEndLoop,
        ChunkTake, ChunkSkip, ChunkSend, ChunkMarkSent, ChunkLogActivity, ChunkMarkFailed,
        ChunkTally, ChunkProbe, ChunkClose, ChunkCrash
<1>9. faults' = faults \/ faults' = faults + 1
  BY DEF WorkerNext, WorkerStep, ChunkStart,
         ChunkSelect, ChunkFailAll, ChunkEndLoop, ChunkTake, ChunkSkip, ChunkSend,
         ChunkMarkSent, ChunkLogActivity, ChunkMarkFailed, ChunkTally, ChunkProbe,
         ChunkClose, ChunkCrash
<1>7. UNCHANGED <<total, taskId, audience, reachable, coord, request, sched, revoked,
                  claims, pauses>>
  BY DEF WorkerNext, WorkerStep, ChunkStart,
         ChunkSelect, ChunkFailAll, ChunkEndLoop, ChunkTake, ChunkSkip, ChunkSend,
         ChunkMarkSent, ChunkLogActivity, ChunkMarkFailed, ChunkTally, ChunkProbe,
         ChunkClose, ChunkCrash
<1>5. worker' \in [Worker -> WorkerRec]
  <2>1. worker \in [Worker -> WorkerRec] /\ worker[w] \in WorkerRec
    BY DEF TypeOK
  <2>2. IdleWorker \in WorkerRec
    BY DEF IdleWorker, WorkerRec, WorkerPcs
  <2>3. CASE ChunkStart(w)
    <3>1. PICK m \in chunkQ :
              SetWorker(w, IF Halted THEN IdleWorker
                           ELSE [IdleWorker EXCEPT !.pc = "select", !.ids = m.ids])
      BY <2>3 DEF ChunkStart
    <3>2. m.ids \in SUBSET Lead
      BY DEF TypeOK, Chunk
    <3>3. [IdleWorker EXCEPT !.pc = "select", !.ids = m.ids] \in WorkerRec
      BY <3>2 DEF IdleWorker, WorkerRec, WorkerPcs
    <3>4. QED
      BY <2>1, <2>2, <3>1, <3>3, WorkerUpdate
  <2>4. CASE ChunkSelect(w)
    <3>1. Selectable(W(w).ids) \in SUBSET Lead
      BY <2>1 DEF Selectable, WorkerRec
    <3> DEFINE todo == Selectable(W(w).ids)
               r == [IdleWorker EXCEPT !.pc = "check", !.todo = todo,
                                       !.noAddress = WithoutAddress(todo)]
    <3>2. r \in WorkerRec
      BY <3>1 DEF IdleWorker, WorkerRec, WorkerPcs, WithoutAddress
    <3>3. SetWorker(w, r)
      BY <2>4 DEF ChunkSelect
    <3>4. QED
      BY <2>1, <3>2, <3>3, WorkerUpdate
  <2>5. CASE ChunkFailAll(w)
    <3> DEFINE marked == {l \in W(w).ids : row[l] = "pending"}
               r == [IdleWorker EXCEPT !.pc = "tally", !.failed = Cardinality(marked)]
    <3>1. Cardinality(marked) \in Nat
      BY <2>1, CardinalityOfLeads DEF WorkerRec
    <3>2. r \in WorkerRec
      BY <3>1 DEF IdleWorker, WorkerRec, WorkerPcs
    <3>3. SetWorker(w, r)
      BY <2>5 DEF ChunkFailAll
    <3> HIDE DEF r
    <3>4. QED
      BY <2>1, <3>2, <3>3, WorkerUpdate
  <2>6. CASE ChunkEndLoop(w) \/ ChunkProbe(w) \/ ChunkClose(w) \/ ChunkSend(w)
    <3>1. PICK pc \in WorkerPcs : GoWorker(w, pc)
      BY <2>6 DEF ChunkEndLoop, ChunkProbe, ChunkClose, ChunkSend, WorkerPcs
    <3>2. QED
      BY <2>1, <3>1 DEF GoWorker, WorkerRec
  <2>7. CASE ChunkTake(w)
    <3>1. PICK l \in Lead :
              SetWorker(w, [W(w) EXCEPT !.pc = "send", !.cur = l, !.todo = @ \ {l}])
      BY <2>1, <2>7 DEF ChunkTake, WorkerRec
    <3>2. [W(w) EXCEPT !.pc = "send", !.cur = l, !.todo = @ \ {l}] \in WorkerRec
      BY <2>1 DEF WorkerRec, WorkerPcs
    <3>3. QED
      BY <2>1, <3>1, <3>2, WorkerUpdate
  <2>8. CASE ChunkSkip(w)
    <3>1. PICK l \in Lead : SetWorker(w, [W(w) EXCEPT !.todo = @ \ {l}])
      BY <2>1, <2>8 DEF ChunkSkip, WorkerRec
    <3>2. [W(w) EXCEPT !.todo = @ \ {l}] \in WorkerRec
      BY <2>1 DEF WorkerRec
    <3>3. QED
      BY <2>1, <3>1, <3>2, WorkerUpdate
  <2>9. CASE ChunkMarkSent(w) \/ ChunkLogActivity(w)
    <3> DEFINE n == W(w).sent + 1
    <3>0. n \in Nat
      BY <2>1 DEF WorkerRec
    <3> HIDE DEF n
    <3>1. [W(w) EXCEPT !.pc = "check", !.cur = NoLead, !.sent = n] \in WorkerRec
      BY <2>1, <3>0 DEF WorkerRec, WorkerPcs
    <3> USE DEF n
    <3>2. CASE SentOne(w)
      BY <2>1, <3>1, <3>2, WorkerUpdate DEF SentOne
    <3>3. CASE GoWorker(w, "activity")
      BY <2>1, <3>3 DEF GoWorker, WorkerRec, WorkerPcs
    <3>4. QED
      BY <2>9, <3>2, <3>3 DEF ChunkMarkSent, ChunkLogActivity
  <2>10. CASE ChunkMarkFailed(w)
    <3> DEFINE n == W(w).failed + 1
    <3>0. n \in Nat
      BY <2>1 DEF WorkerRec
    <3> HIDE DEF n
    <3>1. [W(w) EXCEPT !.pc = "check", !.cur = NoLead, !.failed = n] \in WorkerRec
      BY <2>1, <3>0 DEF WorkerRec, WorkerPcs
    <3> USE DEF n
    <3>2. QED
      BY <2>1, <2>10, <3>1, WorkerUpdate DEF ChunkMarkFailed
  <2>11. CASE ChunkTally(w)
    BY <2>1, <2>11 DEF ChunkTally, SetWorker, IdleWorker, WorkerRec, WorkerPcs
  <2>12. CASE ChunkCrash(w)
    BY <2>1, <2>2, <2>12, WorkerUpdate DEF ChunkCrash
  <2>13. QED
    BY <2>3, <2>4, <2>5, <2>6, <2>7, <2>8, <2>9, <2>10, <2>11, <2>12
    DEF WorkerNext, WorkerStep
<1>6. QED
  BY <1>1, <1>2, <1>3, <1>4, <1>5, <1>7, <1>8, <1>9 DEF TypeOK

\* A step of the surroundings keeps the types.
LEMMA EnvType ==
    ASSUME TypeOK, EnvNext
    PROVE  TypeOK'
<1> USE DEF TypeOK, envFrame, bounds
<1>1. CASE \E l \in Lead : LeadJoins(l) \/ LeadUnreachable(l)
  BY <1>1 DEF LeadJoins, LeadUnreachable
<1>2. CASE \E m \in chunkQ : Redeliver(m)
  <2>1. PICK m \in chunkQ : Redeliver(m)
    BY <1>2
  <2>2. [m EXCEPT !.copy = @ + 1] \in Chunk
    BY <2>1 DEF Redeliver, Chunk
  <2>3. QED
    BY <2>1, <2>2 DEF Redeliver
<1>3. QED
  BY <1>1, <1>2 DEF EnvNext

\* Every reachable state of a campaign is well typed: each status, row and task
\* the code writes is one the models declare, and no counter is negative.
THEOREM TypeCorrect == Spec => []TypeOK
<1>1. Init => TypeOK
  BY DEF Init, TypeOK, Statuses, LAUNCHABLE_STATUSES, RowStatuses, IdleCoord, IdleWorker,
         IdleRequest, CoordRec, WorkerRec, RequestRec, CoordPcs, WorkerPcs, RequestPcs,
         SchedPcs, NoTask
<1>2. TypeOK /\ [Next]_vars => TypeOK'
  <2> SUFFICES ASSUME TypeOK, [Next]_vars PROVE TypeOK'
    OBVIOUS
  <2>1. CASE UNCHANGED vars
    BY <2>1 DEF TypeOK, vars
  <2>2. CASE Next
    BY <2>2, AdminType, BeatType, CoordType, WorkerType, EnvType DEF Next
  <2>3. QED
    BY <2>1, <2>2
<1>3. QED
  BY <1>1, <1>2, PTL DEF Spec

-----------------------------------------------------------------------------
(* A halted campaign stops each worker within one message.                 *)

\* While the campaign is not halted nothing counts as late; a worker that sent
\* a late message has none in hand, and takes none before the campaign resumes.
PromptInv ==
    /\ PromptStop
    /\ \A w \in Worker : late[w] = 1 => worker[w].pc # "send"
    /\ ~Halted => \A w \in Worker : late[w] = 0

\* Launching, pausing, scheduling and coordinating keep PromptInv: the steps that
\* let the campaign run again also restart the count.
LEMMA ControlPrompt ==
    ASSUME TypeOK, PromptInv,
           \/ \E a \in Admin : AdminNext(a)
           \/ \E b \in Beat : BeatNext(b)
           \/ \E c \in Task : CoordNext(c)
           \/ EnvNext
    PROVE  PromptInv'
<1>1. UNCHANGED worker
  BY DEF AdminNext, LaunchRead, LaunchClaim, LaunchDispatch, LaunchGiveBack,
         LaunchSaveTaskId, PauseRead, PauseRevoke, PauseWrite, RequestCrash,
         BeatNext, SchedScan, SchedRefuse, SchedClaim, SchedDispatch, SchedCrash,
         CoordNext, CoordStep, CoordStart, CoordDiscard, CoordResolve, CoordRefused,
         CoordCreateRows, CoordSelect, CoordDispatch, CoordFinish, CoordError,
         CoordCrash, CoordKilled, EnvNext, LeadJoins, LeadUnreachable, Redeliver,
         requestFrame, schedFrame, coordFrame, envFrame
<1>2. \/ late' = [w \in Worker |-> 0]
      \/ UNCHANGED late /\ (Halted => Halted')
      \/ UNCHANGED late /\ ~Halted
  BY DEF AdminNext, LaunchRead, LaunchClaim, LaunchDispatch, LaunchGiveBack,
         LaunchSaveTaskId, PauseRead, PauseRevoke, PauseWrite, RequestCrash,
         BeatNext, SchedScan, SchedRefuse, SchedClaim, SchedDispatch, SchedCrash,
         CoordNext, CoordStep, CoordStart, CoordDiscard, CoordResolve, CoordRefused,
         CoordCreateRows, CoordSelect, CoordDispatch, CoordFinish, CoordError,
         CoordCrash, CoordKilled, EnvNext, LeadJoins, LeadUnreachable, Redeliver,
         Resume, envFrame, Halted, HALTED_STATUSES
<1>3. QED
  BY <1>1, <1>2 DEF PromptInv, PromptStop

\* A chunk keeps PromptInv: it consults the status before it takes a recipient.
LEMMA WorkerPrompt ==
    ASSUME TypeOK, PromptInv, NEW w \in Worker, WorkerNext(w)
    PROVE  PromptInv'
<1>1. \A v \in Worker \ {w} : worker'[v] = worker[v]
  BY DEF TypeOK, W, GoWorker, SetWorker, SentOne, WorkerNext, WorkerStep, ChunkStart,
         ChunkSelect, ChunkFailAll, ChunkEndLoop, ChunkTake, ChunkSkip, ChunkSend,
         ChunkMarkSent, ChunkLogActivity, ChunkMarkFailed, ChunkTally, ChunkProbe,
         ChunkClose, ChunkCrash
<1>2. CASE ChunkSend(w)
  <2>1. worker'[w].pc = "accepted" /\ UNCHANGED status
    BY <1>2 DEF ChunkSend, GoWorker, W, TypeOK, WorkerRec
  <2>2. late' = [late EXCEPT ![w] = IF Halted THEN @ + 1 ELSE @] /\ worker[w].pc = "send"
    BY <1>2 DEF ChunkSend, W
  <2>3. late[w] = 0
    BY <2>2 DEF PromptInv, PromptStop, TypeOK
  <2>4. QED
    BY <1>1, <2>1, <2>2, <2>3 DEF PromptInv, PromptStop, Halted, TypeOK
<1>3. CASE ChunkTake(w)
  <2>1. UNCHANGED <<late, status>> /\ ~Halted
    BY <1>3 DEF ChunkTake, StopNow
  <2>2. QED
    BY <1>1, <2>1 DEF PromptInv, PromptStop, Halted
<1>4. CASE ~ChunkSend(w) /\ ~ChunkTake(w)
  <2>1. UNCHANGED late /\ (Halted => Halted')
    BY <1>4 DEF chunkFrame, Halted, HALTED_STATUSES, WorkerNext, WorkerStep,
         ChunkStart, ChunkSelect, ChunkFailAll, ChunkEndLoop, ChunkSkip,
         ChunkMarkSent, ChunkLogActivity, ChunkMarkFailed, ChunkTally, ChunkProbe,
         ChunkClose, ChunkCrash
  <2>2. worker'[w].pc # "send"
    <3>1. worker \in [Worker -> WorkerRec] /\ worker[w] \in WorkerRec
      BY DEF TypeOK
    <3> USE <3>1 DEF WorkerRec, IdleWorker, W, GoWorker, SetWorker, SentOne
    <3>2. CASE ChunkStart(w)
      BY <3>2 DEF ChunkStart
    <3>3. CASE ChunkSelect(w)
      BY <3>3 DEF ChunkSelect
    <3>8. CASE ChunkFailAll(w)
      BY <3>8 DEF ChunkFailAll
    <3>9. CASE ChunkTally(w) \/ ChunkCrash(w)
      BY <3>9 DEF ChunkTally, ChunkCrash
    <3>4. CASE ChunkEndLoop(w) \/ ChunkProbe(w) \/ ChunkClose(w)
      BY <3>4 DEF ChunkEndLoop, ChunkProbe, ChunkClose
    <3>5. CASE ChunkSkip(w)
      <4>1. PICK l \in Lead : SetWorker(w, [W(w) EXCEPT !.todo = @ \ {l}])
        BY <3>5 DEF ChunkSkip
      <4>2. worker'[w].pc = W(w).pc
        BY <4>1
      <4>3. QED
        BY <3>5, <4>2 DEF ChunkSkip
    <3>10. CASE ChunkMarkFailed(w)
      BY <3>10 DEF ChunkMarkFailed
    <3>6. CASE ChunkMarkSent(w) \/ ChunkLogActivity(w)
      BY <3>6 DEF ChunkMarkSent, ChunkLogActivity
    <3>7. QED
      BY <1>4, <3>2, <3>3, <3>4, <3>5, <3>6, <3>8, <3>9, <3>10 DEF WorkerNext, WorkerStep
  <2>3. ~Halted' => \A v \in Worker : late'[v] = 0
    BY <2>1 DEF PromptInv
  <2>4. QED
    BY <1>1, <2>1, <2>2, <2>3 DEF PromptInv, PromptStop
<1>5. QED
  BY <1>2, <1>3, <1>4

\* Once a campaign is paused, failed or completed, each worker hands at most one
\* more message to the provider until the campaign is launched again: the check
\* between two recipients is enough, for any number of workers and chunks.
THEOREM PauseStopsPromptly == Spec => []PromptStop
<1>1. Init => PromptInv
  BY DEF Init, PromptInv, PromptStop, IdleWorker
<1>2. TypeOK /\ PromptInv /\ [Next]_vars => PromptInv'
  <2> SUFFICES ASSUME TypeOK, PromptInv, [Next]_vars PROVE PromptInv'
    OBVIOUS
  <2>1. CASE UNCHANGED vars
    BY <2>1 DEF PromptInv, PromptStop, Halted, vars
  <2>2. CASE Next
    BY <2>2, ControlPrompt, WorkerPrompt DEF Next
  <2>3. QED
    BY <2>1, <2>2
<1>3. PromptInv => PromptStop
  BY DEF PromptInv
<1>4. QED
  BY <1>1, <1>2, <1>3, TypeCorrect, PTL DEF Spec

-----------------------------------------------------------------------------
(* Rows only move forward.                                                 *)

\* One step never makes a processed row pending, nor removes it.
LEMMA ProcessedStep ==
    ASSUME TypeOK, [Next]_vars
    PROVE  \A l \in Lead : row[l] \in {"sent", "failed", "skipped"} =>
              row'[l] \in {"sent", "failed", "skipped"}
<1>1. CASE UNCHANGED row
  BY <1>1
<1>2. ASSUME NEW c \in Task, CoordCreateRows(c)
      PROVE  \A l \in Lead : row[l] # "none" => row'[l] = row[l]
  BY <1>2 DEF CoordCreateRows, NewRows
<1>3. ASSUME NEW w \in Worker,
             ChunkFailAll(w) \/ ChunkSkip(w) \/ ChunkMarkSent(w) \/ ChunkMarkFailed(w)
      PROVE  \A l \in Lead : row'[l] = row[l] \/ row'[l] \in {"sent", "failed", "skipped"}
  BY <1>3 DEF TypeOK, ChunkFailAll, ChunkSkip, ChunkMarkSent, ChunkMarkFailed
<1>4. UNCHANGED row
      \/ (\E c \in Task : CoordCreateRows(c))
      \/ (\E w \in Worker :
             ChunkFailAll(w) \/ ChunkSkip(w) \/ ChunkMarkSent(w) \/ ChunkMarkFailed(w))
  <2>1. CASE UNCHANGED vars
    BY <2>1 DEF vars
  <2>2. CASE EnvNext
    BY <2>2 DEF EnvNext, LeadJoins, LeadUnreachable, Redeliver, envFrame
  <2>3. ASSUME NEW a \in Admin, AdminNext(a)
        PROVE  UNCHANGED row
    BY <2>3 DEF AdminNext, LaunchRead, LaunchClaim, LaunchDispatch, LaunchGiveBack,
         LaunchSaveTaskId, PauseRead, PauseRevoke, PauseWrite, RequestCrash, requestFrame
  <2>4. ASSUME NEW b \in Beat, BeatNext(b)
        PROVE  UNCHANGED row
    BY <2>4 DEF BeatNext, SchedScan, SchedRefuse, SchedClaim, SchedDispatch, SchedCrash,
                schedFrame
  <2>5. ASSUME NEW c \in Task, CoordNext(c)
        PROVE  UNCHANGED row \/ CoordCreateRows(c)
    BY <2>5 DEF CoordNext, CoordStep, CoordStart, CoordDiscard, CoordResolve, CoordRefused,
         CoordSelect, CoordDispatch, CoordFinish, CoordError, CoordCrash, CoordKilled
  <2>6. ASSUME NEW w \in Worker, WorkerNext(w)
        PROVE  UNCHANGED row \/ ChunkFailAll(w) \/ ChunkSkip(w) \/ ChunkMarkSent(w)
               \/ ChunkMarkFailed(w)
    BY <2>6 DEF WorkerNext, WorkerStep, ChunkStart, ChunkSelect, ChunkEndLoop, ChunkTake,
         ChunkSend, ChunkLogActivity, ChunkTally, ChunkProbe, ChunkClose, ChunkCrash
  <2>7. QED
    BY <2>1, <2>2, <2>3, <2>4, <2>5, <2>6 DEF Next
<1>5. QED
  BY <1>1, <1>2, <1>3, <1>4

\* A recipient recorded as sent, failed or skipped is never offered to a chunk
\* again, whatever relaunches, redelivered messages and crashes happen.
THEOREM ProcessedRowsStay == Spec => ProcessedStays
<1>1. TypeOK /\ [Next]_vars
      => [\A l \in Lead : row[l] \in {"sent", "failed", "skipped"} =>
             row'[l] \in {"sent", "failed", "skipped"}]_vars
  BY ProcessedStep
<1>2. QED
  BY <1>1, TypeCorrect, PTL DEF Spec, ProcessedStays

-----------------------------------------------------------------------------
(* A launch has one owner.                                                 *)

Unused(c) == coord[c].pc = "unused"

\* Until a pause or a fault: while the campaign is launchable nobody owns it,
\* and afterwards at most one request, scheduler run or coordinator does.
OwnerInv ==
    pauses = 0 /\ faults = 0 =>
        /\ status \in LAUNCHABLE_STATUSES =>
              /\ \A a \in Admin : request[a].pc # "claimed"
              /\ \A b \in Beat : sched[b] # "claimed"
              /\ \A c \in Task : Unused(c)
        /\ \A a \in Admin : request[a].pc = "claimed" =>
              /\ \A x \in Admin : request[x].pc = "claimed" => x = a
              /\ \A b \in Beat : sched[b] # "claimed"
              /\ \A c \in Task : Unused(c)
        /\ \A b \in Beat : sched[b] = "claimed" =>
              /\ \A x \in Beat : sched[x] = "claimed" => x = b
              /\ \A c \in Task : Unused(c)
        /\ \A c, d \in Task : ~Unused(c) /\ ~Unused(d) => c = d

\* The request handlers keep OwnerInv.
LEMMA AdminOwner ==
    ASSUME TypeOK, OwnerInv, NEW a \in Admin, AdminNext(a)
    PROVE  OwnerInv'
<1> USE DEF OwnerInv, Unused, requestFrame, bounds, SetRequest, GoRequest, EndRequest,
            IdleRequest
<1>1. request \in [Admin -> RequestRec] /\ pauses \in Nat /\ faults \in Nat
  BY DEF TypeOK
<1>2. CASE LaunchRead(a)
  BY <1>1, <1>2 DEF LaunchRead, RequestRec
<1>3. CASE LaunchClaim(a)
  BY <1>1, <1>3 DEF LaunchClaim, Claimable, RequestRec, LAUNCHABLE_STATUSES
<1>4. CASE LaunchDispatch(a)
  <2>1. PICK c \in Task : coord' = [coord EXCEPT ![c].pc = "queued"]
    BY <1>4 DEF LaunchDispatch
  <2>2. coord \in [Task -> CoordRec]
    BY DEF TypeOK
  <2>3. \A d \in Task \ {c} : coord'[d] = coord[d]
    BY <2>1, <2>2
  <2>4. \A x \in Admin \ {a} : request'[x] = request[x]
    BY <1>1, <1>4 DEF LaunchDispatch
  <2>5. request'[a].pc = "queued"
    BY <1>1, <1>4 DEF LaunchDispatch, RequestRec
  <2>6. QED
    BY <1>1, <1>4, <2>3, <2>4, <2>5 DEF LaunchDispatch
<1>5. CASE LaunchGiveBack(a) \/ RequestCrash(a)
  BY <1>1, <1>5 DEF LaunchGiveBack, RequestCrash, Fault
<1>6. CASE LaunchSaveTaskId(a) \/ PauseRead(a) \/ PauseRevoke(a)
  BY <1>1, <1>6 DEF LaunchSaveTaskId, PauseRead, PauseRevoke, RequestRec
<1>7. CASE PauseWrite(a)
  BY <1>1, <1>7 DEF PauseWrite
<1>8. QED
  BY <1>2, <1>3, <1>4, <1>5, <1>6, <1>7 DEF AdminNext

\* The scheduler keeps OwnerInv.
LEMMA BeatOwner ==
    ASSUME TypeOK, OwnerInv, NEW b \in Beat, BeatNext(b)
    PROVE  OwnerInv'
<1> USE DEF OwnerInv, Unused, schedFrame, bounds
<1>1. sched \in [Beat -> SchedPcs] /\ pauses \in Nat /\ faults \in Nat
  BY DEF TypeOK
<1>2. CASE SchedScan(b) \/ SchedRefuse(b)
  BY <1>1, <1>2 DEF SchedScan, SchedRefuse, LAUNCHABLE_STATUSES
<1>3. CASE SchedClaim(b)
  BY <1>1, <1>3 DEF SchedClaim, LAUNCHABLE_STATUSES
<1>4. CASE SchedDispatch(b)
  <2>1. PICK c \in Task : coord' = [coord EXCEPT ![c].pc = "queued"]
    BY <1>4 DEF SchedDispatch
  <2>2. coord \in [Task -> CoordRec]
    BY DEF TypeOK
  <2>3. \A d \in Task \ {c} : coord'[d] = coord[d]
    BY <2>1, <2>2
  <2>4. QED
    BY <1>1, <1>4, <2>3 DEF SchedDispatch
<1>5. CASE SchedCrash(b)
  BY <1>1, <1>5 DEF SchedCrash, Fault
<1>6. QED
  BY <1>2, <1>3, <1>4, <1>5 DEF BeatNext

\* Coordinators, chunks and the surroundings keep OwnerInv: none of them makes
\* the campaign launchable or a task used.
LEMMA TaskOwner ==
    ASSUME TypeOK, OwnerInv,
           \/ \E c \in Task : CoordNext(c)
           \/ \E w \in Worker : WorkerNext(w)
           \/ EnvNext
    PROVE  OwnerInv'
<1>1. CASE EnvNext
  BY <1>1 DEF EnvNext, LeadJoins, LeadUnreachable, Redeliver, envFrame, bounds, OwnerInv,
              Unused
<1>2. ASSUME NEW w \in Worker, WorkerNext(w)
      PROVE  OwnerInv'
  <2>1. /\ UNCHANGED <<coord, request, sched, pauses>>
        /\ faults' = faults \/ faults' = faults + 1
        /\ status' \in LAUNCHABLE_STATUSES => UNCHANGED status
    BY <1>2 DEF WorkerNext, WorkerStep, ChunkStart, ChunkSelect, ChunkFailAll, ChunkEndLoop,
         ChunkTake, ChunkSkip, ChunkSend, ChunkMarkSent, ChunkLogActivity, ChunkMarkFailed,
         ChunkTally, ChunkProbe, ChunkClose, ChunkCrash, Fault, chunkFrame, bounds,
         LAUNCHABLE_STATUSES
  <2>2. faults \in Nat
    BY DEF TypeOK
  <2>3. QED
    BY <2>1, <2>2 DEF OwnerInv, Unused
<1>3. ASSUME NEW c \in Task, CoordNext(c)
      PROVE  OwnerInv'
  <2>1. /\ UNCHANGED <<request, sched, pauses>>
        /\ faults' = faults \/ faults' = faults + 1
        /\ status' \in LAUNCHABLE_STATUSES => UNCHANGED status
    BY <1>3 DEF CoordNext, CoordStep, CoordStart, CoordDiscard, CoordResolve, CoordRefused,
         CoordCreateRows, CoordSelect, CoordDispatch, CoordFinish, CoordError, CoordCrash,
         CoordKilled, Fault, coordFrame, bounds, LAUNCHABLE_STATUSES
  <2>2. coord \in [Task -> CoordRec] /\ faults \in Nat
    BY DEF TypeOK
  <2>3. ~Unused(c)
    BY <1>3 DEF CoordNext, CoordStep, CoordStart, CoordDiscard, CoordResolve, CoordRefused,
         CoordCreateRows, CoordSelect, CoordDispatch, CoordFinish, CoordError, CoordCrash,
         CoordKilled, Executing, Unused
  <2>4. \E r : coord' = [coord EXCEPT ![c] = r]
    BY <1>3 DEF CoordNext, CoordStep, CoordStart, CoordDiscard, CoordResolve,
         CoordRefused, CoordCreateRows, CoordSelect, CoordDispatch, CoordFinish, CoordError,
         CoordCrash, CoordKilled, CoordTo
  <2>5. \A d \in Task \ {c} : coord'[d] = coord[d]
    BY <2>2, <2>4
  <2>6. \A d \in Task : ~Unused(d)' => ~Unused(d)
    BY <2>3, <2>5 DEF Unused
  <2> HIDE DEF Unused
  <2>7. QED
    BY <2>1, <2>2, <2>6 DEF OwnerInv
<1>4. QED
  BY <1>1, <1>2, <1>3

LEMMA OwnerInvariant == Spec => []OwnerInv
<1>1. Init => OwnerInv
  BY DEF Init, OwnerInv, Unused, IdleCoord, IdleRequest
<1>2. TypeOK /\ OwnerInv /\ [Next]_vars => OwnerInv'
  <2> SUFFICES ASSUME TypeOK, OwnerInv, [Next]_vars PROVE OwnerInv'
    OBVIOUS
  <2>1. CASE UNCHANGED vars
    BY <2>1 DEF OwnerInv, Unused, vars
  <2>2. CASE Next
    BY <2>2, AdminOwner, BeatOwner, TaskOwner DEF Next
  <2>3. QED
    BY <2>1, <2>2
<1>3. QED
  BY <1>1, <1>2, TypeCorrect, PTL DEF Spec

\* Two clicks, or a click and the scheduler, never launch a campaign twice: before
\* any pause or fault at most one coordinator was ever enqueued, and none while
\* the campaign can still be launched.
THEOREM LaunchHasOneOwner == Spec => []SoleOwner
<1>1. OwnerInv => SoleOwner
  BY DEF OwnerInv, SoleOwner, Unused
<1>2. QED
  BY <1>1, OwnerInvariant, PTL

-----------------------------------------------------------------------------
(* Completion.  Chunks exist only once their coordinator has created the    *)
(* recipients, and until a pause or a fault there is no other coordinator,  *)
(* so nobody is added between the last count of pending rows and the write. *)

Dispatched(c) == coord[c].pc \in {"dispatching", "done"}

DoneInv ==
    pauses = 0 /\ faults = 0 =>
        /\ \/ chunkQ # {} \/ status = "completed"
           \/ \E w \in Worker : worker[w].pc # "idle"
           => \E c \in Task : Dispatched(c)
        /\ status = "completed" \/ (\E w \in Worker : worker[w].pc = "close") => Pending = {}

\* Requests, the scheduler and the surroundings keep DoneInv.
LEMMA ControlDone ==
    ASSUME TypeOK, DoneInv,
           \/ \E a \in Admin : AdminNext(a)
           \/ \E b \in Beat : BeatNext(b)
           \/ EnvNext
    PROVE  DoneInv'
<1>1. coord \in [Task -> CoordRec] /\ pauses \in Nat /\ faults \in Nat
      /\ request \in [Admin -> RequestRec]
  BY DEF TypeOK
<1>2. UNCHANGED <<worker, row>> /\ (chunkQ' # {} => chunkQ # {})
  <2>1. CASE \E a \in Admin : AdminNext(a)
    BY <2>1 DEF AdminNext, LaunchRead, LaunchClaim, LaunchDispatch, LaunchGiveBack,
         LaunchSaveTaskId, PauseRead, PauseRevoke, PauseWrite, RequestCrash, requestFrame
  <2>2. CASE \E b \in Beat : BeatNext(b)
    BY <2>2 DEF BeatNext, SchedScan, SchedRefuse, SchedClaim, SchedDispatch, SchedCrash, schedFrame
  <2>3. CASE EnvNext
    BY <2>3 DEF EnvNext, LeadJoins, LeadUnreachable, Redeliver, envFrame
  <2>4. QED
    BY <2>1, <2>2, <2>3
<1>3. /\ status' = "completed" => status = "completed"
      /\ pauses' \in {pauses, pauses + 1} /\ faults' \in {faults, faults + 1}
  <2>1. ASSUME NEW a \in Admin, AdminNext(a)
        PROVE  /\ status' = "completed" => status = "completed"
               /\ pauses' \in {pauses, pauses + 1} /\ faults' \in {faults, faults + 1}
    <3>1. request[a].prev # "completed"
      BY <1>1 DEF RequestRec, LAUNCHABLE_STATUSES
    <3>2. QED
      BY <2>1, <3>1 DEF AdminNext, LaunchRead, LaunchClaim, LaunchDispatch, LaunchGiveBack,
           LaunchSaveTaskId, PauseRead, PauseRevoke, PauseWrite, RequestCrash, Fault, bounds
  <2>2. CASE \E b \in Beat : BeatNext(b)
    BY <2>2 DEF BeatNext, SchedScan, SchedRefuse, SchedClaim, SchedDispatch, SchedCrash, Fault,
                bounds
  <2>3. CASE EnvNext
    BY <2>3 DEF EnvNext, LeadJoins, LeadUnreachable, Redeliver, envFrame, bounds
  <2>4. QED
    BY <2>1, <2>2, <2>3
<1>4. \A c \in Task : Dispatched(c) => Dispatched(c)'
  <2>1. UNCHANGED coord \/ \E c \in Task : /\ coord[c].pc = "unused"
                                           /\ coord' = [coord EXCEPT ![c].pc = "queued"]
    <3>1. CASE \E a \in Admin : AdminNext(a)
      BY <3>1 DEF AdminNext, LaunchRead, LaunchClaim, LaunchDispatch, LaunchGiveBack,
           LaunchSaveTaskId, PauseRead, PauseRevoke, PauseWrite, RequestCrash, requestFrame
    <3>2. CASE \E b \in Beat : BeatNext(b)
      BY <3>2 DEF BeatNext, SchedScan, SchedRefuse, SchedClaim, SchedDispatch, SchedCrash, schedFrame
    <3>3. CASE EnvNext
      BY <3>3 DEF EnvNext, LeadJoins, LeadUnreachable, Redeliver, envFrame
    <3>4. QED
      BY <3>1, <3>2, <3>3
  <2>2. QED
    BY <1>1, <2>1 DEF Dispatched
<1>5. pauses' = 0 /\ faults' = 0 => pauses = 0 /\ faults = 0
  BY <1>1, <1>3
<1>6. Pending' = Pending
  BY <1>2 DEF Pending
<1> HIDE DEF Dispatched
<1>7. QED
  BY <1>2, <1>3, <1>4, <1>5, <1>6 DEF DoneInv

\* The coordinator keeps DoneInv: whoever creates rows is the only one, and has
\* not dispatched yet.
LEMMA CoordDone ==
    ASSUME TypeOK, OwnerInv, DoneInv, NEW c \in Task, CoordNext(c)
    PROVE  DoneInv'
<1>1. coord \in [Task -> CoordRec] /\ faults \in Nat
  BY DEF TypeOK
<1>2. UNCHANGED <<worker, pauses>> /\ faults' \in {faults, faults + 1}
  BY DEF CoordNext, CoordStep, CoordStart, CoordDiscard, CoordResolve, CoordRefused,
       CoordCreateRows, CoordSelect, CoordDispatch, CoordFinish, CoordError, CoordCrash,
       CoordKilled, Fault, coordFrame, bounds
<1>3. status' = "completed" => status = "completed"
  BY DEF CoordNext, CoordStep, CoordStart, CoordDiscard, CoordResolve, CoordRefused,
       CoordCreateRows, CoordSelect, CoordDispatch, CoordFinish, CoordError, CoordCrash,
       CoordKilled
<1>4. pauses' = 0 /\ faults' = 0 => pauses = 0 /\ faults = 0
  BY <1>1, <1>2
<1>5. CASE CoordDispatch(c)
  <2>1. coord[c].pc = "dispatching" /\ UNCHANGED row
    BY <1>5 DEF CoordDispatch
  <2>2. \E leads : coord' = [coord EXCEPT ![c] = [pc |-> "dispatching", leads |-> leads]]
    BY <1>5 DEF CoordDispatch, CoordTo
  <2>3. Dispatched(c)'
    BY <1>1, <2>2 DEF Dispatched
  <2>4. Pending' = Pending
    BY <2>1 DEF Pending
  <2>5. QED
    BY <1>2, <1>3, <1>4, <2>3, <2>4 DEF DoneInv
<1>6. CASE CoordCreateRows(c)
  <2>1. /\ coord[c].pc = "resolved" /\ UNCHANGED <<status, chunkQ>>
        /\ coord' = [coord EXCEPT ![c] = [pc |-> "created", leads |-> {}]]
    BY <1>6 DEF CoordCreateRows, CoordTo
  <2>2. \A d \in Task \ {c} : pauses = 0 /\ faults = 0 => coord[d].pc = "unused"
    BY <2>1 DEF OwnerInv, Unused
  <2>3. pauses = 0 /\ faults = 0 => \A d \in Task : ~Dispatched(d)
    BY <2>1, <2>2 DEF Dispatched
  <2>4. pauses = 0 /\ faults = 0 =>
          /\ chunkQ = {} /\ status # "completed" /\ \A w \in Worker : worker[w].pc = "idle"
    BY <2>3 DEF DoneInv
  <2>5. QED
    BY <1>2, <1>4, <2>1, <2>4 DEF DoneInv
<1>7. CASE ~CoordDispatch(c) /\ ~CoordCreateRows(c)
  <2>1. UNCHANGED <<row, chunkQ>>
    BY <1>7 DEF CoordNext, CoordStep, CoordStart, CoordDiscard, CoordResolve, CoordRefused,
         CoordSelect, CoordFinish, CoordError, CoordCrash, CoordKilled
  <2>2. \E pc \in CoordPcs, leads \in SUBSET Lead :
           /\ coord' = [coord EXCEPT ![c] = [pc |-> pc, leads |-> leads]]
           /\ coord[c].pc = "dispatching" => pc = "done"
           /\ coord[c].pc # "done"
    <3>1. audience \cap reachable \in SUBSET Lead /\ Pending \in SUBSET Lead
      BY DEF TypeOK, Pending
    <3>2. CASE CoordStart(c) \/ CoordResolve(c) \/ CoordSelect(c)
      BY <3>1, <3>2 DEF CoordStart, CoordResolve, CoordSelect, CoordTo, CoordPcs
    <3>3. CASE CoordDiscard(c) \/ CoordRefused(c) \/ CoordFinish(c)
      BY <3>3 DEF CoordDiscard, CoordRefused, CoordFinish, CoordTo, CoordPcs
    <3>4. CASE CoordError(c) \/ CoordCrash(c) \/ CoordKilled(c)
      BY <3>4 DEF CoordError, CoordCrash, CoordKilled, Executing, CoordTo, CoordPcs
    <3>5. QED
      BY <1>7, <3>2, <3>3, <3>4 DEF CoordNext, CoordStep
  <2>3. \A d \in Task : Dispatched(d) => Dispatched(d)'
    BY <1>1, <2>2 DEF Dispatched
  <2>4. Pending' = Pending
    BY <2>1 DEF Pending
  <2>5. QED
    BY <1>2, <1>3, <1>4, <2>1, <2>3, <2>4 DEF DoneInv
<1>8. QED
  BY <1>5, <1>6, <1>7

\* Chunks keep DoneInv: they only take pending rows away, and one that completes
\* the campaign has found none.
LEMMA WorkerDone ==
    ASSUME TypeOK, DoneInv, NEW w \in Worker, WorkerNext(w)
    PROVE  DoneInv'
<1>1. /\ worker \in [Worker -> WorkerRec] /\ row \in [Lead -> RowStatuses]
      /\ faults \in Nat /\ worker[w] \in WorkerRec
  BY DEF TypeOK
<1>2. UNCHANGED <<coord, pauses>> /\ faults' \in {faults, faults + 1}
  BY DEF WorkerNext, WorkerStep, ChunkStart, ChunkSelect, ChunkFailAll, ChunkEndLoop,
       ChunkTake, ChunkSkip, ChunkSend, ChunkMarkSent, ChunkLogActivity, ChunkMarkFailed,
       ChunkTally, ChunkProbe, ChunkClose, ChunkCrash, Fault, chunkFrame, bounds
<1>3. chunkQ # {} \/ worker[w].pc # "idle"
  BY DEF WorkerNext, WorkerStep, ChunkStart, ChunkSelect, ChunkFailAll, ChunkEndLoop,
       ChunkTake, ChunkSkip, ChunkSend, ChunkMarkSent, ChunkLogActivity, ChunkMarkFailed,
       ChunkTally, ChunkProbe, ChunkClose, ChunkCrash, W
<1>4. pauses = 0 /\ faults = 0 => \E c \in Task : Dispatched(c)'
  BY <1>2, <1>3 DEF DoneInv, Dispatched
<1>5. \A l \in Lead : row'[l] = "pending" => row[l] = "pending"
  BY <1>1 DEF WorkerNext, WorkerStep, ChunkStart, ChunkSelect, ChunkFailAll, ChunkEndLoop,
       ChunkTake, ChunkSkip, ChunkSend, ChunkMarkSent, ChunkLogActivity, ChunkMarkFailed,
       ChunkTally, ChunkProbe, ChunkClose, ChunkCrash
<1>6. Pending' \subseteq Pending
  BY <1>5 DEF Pending
<1>7. \A v \in Worker \ {w} : worker'[v] = worker[v]
  BY <1>1 DEF WorkerNext, WorkerStep, ChunkStart, ChunkSelect, ChunkFailAll, ChunkEndLoop,
         ChunkTake, ChunkSkip, ChunkSend, ChunkMarkSent, ChunkLogActivity, ChunkMarkFailed,
         ChunkTally, ChunkProbe, ChunkClose, ChunkCrash, SetWorker, GoWorker, SentOne, W
<1>8. status' = "completed" => status = "completed" \/ worker[w].pc = "close"
  BY DEF WorkerNext, WorkerStep, ChunkStart, ChunkSelect, ChunkFailAll, ChunkEndLoop,
       ChunkTake, ChunkSkip, ChunkSend, ChunkMarkSent, ChunkLogActivity, ChunkMarkFailed,
       ChunkTally, ChunkProbe, ChunkClose, ChunkCrash, W
<1>9. worker'[w].pc = "close" => Pending = {}
  <2> USE DEF SetWorker, GoWorker, W, IdleWorker
  <2>1. CASE ChunkProbe(w)
    BY <1>1, <2>1 DEF ChunkProbe, NothingPending
  <2>2. CASE \E pc \in WorkerPcs \ {"close"} : worker' = [worker EXCEPT ![w].pc = pc]
    BY <1>1, <2>2 DEF WorkerRec
  <2>3. CASE \E r : r.pc # "close" /\ worker' = [worker EXCEPT ![w] = r]
    BY <1>1, <2>3
  <2>4. CASE ChunkEndLoop(w) \/ ChunkSend(w) \/ ChunkClose(w) \/ (ChunkMarkSent(w) /\ Channel = "whatsapp")
    BY <2>2, <2>4 DEF ChunkEndLoop, ChunkSend, ChunkClose, ChunkMarkSent, WorkerPcs
  <2>5. CASE ChunkStart(w)
    <3>1. PICK m \in chunkQ :
              worker' = [worker EXCEPT ![w] =
                            IF Halted THEN IdleWorker
                            ELSE [IdleWorker EXCEPT !.pc = "select", !.ids = m.ids]]
      BY <2>5 DEF ChunkStart
    <3>2. QED
      BY <1>1, <3>1
  <2>6. CASE ChunkSelect(w) \/ ChunkFailAll(w) \/ ChunkTally(w) \/ ChunkCrash(w)
    <3>1. CASE ChunkSelect(w)
      BY <1>1, <3>1 DEF ChunkSelect
    <3>2. CASE ChunkFailAll(w)
      BY <1>1, <3>2 DEF ChunkFailAll
    <3>3. CASE ChunkTally(w) \/ ChunkCrash(w)
      BY <1>1, <3>3 DEF ChunkTally, ChunkCrash
    <3>4. QED
      BY <2>6, <3>1, <3>2, <3>3
  <2>7. CASE ChunkTake(w)
    <3>1. PICK l \in worker[w].todo :
              worker' = [worker EXCEPT ![w] = [W(w) EXCEPT !.pc = "send", !.cur = l, !.todo = @ \ {l}]]
      BY <2>7 DEF ChunkTake
    <3>2. worker'[w].pc = "send"
      BY <1>1, <3>1 DEF WorkerRec
    <3>3. QED
      BY <3>2
  <2>8. CASE ChunkSkip(w)
    <3>1. PICK l \in worker[w].todo : worker' = [worker EXCEPT ![w] = [W(w) EXCEPT !.todo = @ \ {l}]]
      BY <2>8 DEF ChunkSkip
    <3>2. worker[w].pc = "check"
      BY <2>8 DEF ChunkSkip
    <3>3. worker'[w].pc = "check"
      BY <1>1, <3>1, <3>2 DEF WorkerRec
    <3>4. QED
      BY <3>3
  <2>9. CASE ChunkLogActivity(w) \/ (ChunkMarkSent(w) /\ Channel # "whatsapp") \/ ChunkMarkFailed(w)
    <3>1. \/ worker' = [worker EXCEPT ![w] = [W(w) EXCEPT !.pc = "check", !.cur = NoLead, !.sent = @ + 1]]
          \/ worker' = [worker EXCEPT ![w] = [W(w) EXCEPT !.pc = "check", !.cur = NoLead, !.failed = @ + 1]]
      BY <2>9 DEF ChunkLogActivity, ChunkMarkSent, ChunkMarkFailed, SentOne
    <3>2. worker'[w].pc = "check"
      <4>1. CASE worker' = [worker EXCEPT ![w] = [W(w) EXCEPT !.pc = "check", !.cur = NoLead, !.sent = @ + 1]]
        BY <1>1, <4>1 DEF WorkerRec
      <4>2. CASE worker' = [worker EXCEPT ![w] = [W(w) EXCEPT !.pc = "check", !.cur = NoLead, !.failed = @ + 1]]
        BY <1>1, <4>2 DEF WorkerRec
      <4>3. QED
        BY <3>1, <4>1, <4>2
    <3>3. QED
      BY <3>2
  <2>10. QED
    BY <2>1, <2>4, <2>5, <2>6, <2>7, <2>8, <2>9 DEF WorkerNext, WorkerStep
<1>10. QED
  <2> SUFFICES ASSUME pauses' = 0, faults' = 0 PROVE
        /\ \E c \in Task : Dispatched(c)'
        /\ status' = "completed" \/ (\E v \in Worker : worker'[v].pc = "close") => Pending' = {}
    BY DEF DoneInv
  <2>1. pauses = 0 /\ faults = 0
    BY <1>1, <1>2
  <2>2. ASSUME status' = "completed" \/ (\E v \in Worker : worker'[v].pc = "close") PROVE Pending = {}
    BY <1>7, <1>8, <1>9, <2>1, <2>2 DEF DoneInv
  <2>3. QED
    BY <1>4, <1>6, <2>1, <2>2

\* Before any pause or fault, whatever clicks and scheduler runs meet and however
\* often chunks are delivered, a completed campaign has no recipient left.
THEOREM CompletionIsFinal == Spec => [](pauses = 0 /\ faults = 0 => CompletedMeansDone)
<1>1. Init => OwnerInv /\ DoneInv
  BY DEF Init, OwnerInv, DoneInv, Unused, IdleCoord, IdleRequest, IdleWorker
<1>2. TypeOK /\ OwnerInv /\ DoneInv /\ [Next]_vars => DoneInv'
  <2> SUFFICES ASSUME TypeOK, OwnerInv, DoneInv, [Next]_vars PROVE DoneInv'
    OBVIOUS
  <2>1. CASE UNCHANGED vars
    BY <2>1 DEF DoneInv, Dispatched, Pending, vars
  <2>2. CASE Next
    BY <2>2, ControlDone, CoordDone, WorkerDone DEF Next
  <2>3. QED
    BY <2>1, <2>2
<1>3. DoneInv => (pauses = 0 /\ faults = 0 => CompletedMeansDone)
  BY DEF DoneInv, CompletedMeansDone
<1>4. QED
  BY <1>1, <1>2, <1>3, OwnerInvariant, TypeCorrect, PTL DEF Spec

-----------------------------------------------------------------------------
(* At most one copy per customer, while no chunk is lost half-way.         *)

\* The leads a chunk execution still may touch.
Holds(w) == worker[w].ids \cup worker[w].todo \cup ({worker[w].cur} \ {NoLead})

\* No recipient is in the hands of two workers.
Exclusive == \A v, w \in Worker : v # w => Holds(v) \cap Holds(w) = {}

\* A row still pending has an undelivered message, unless a worker is about to
\* record it; what a worker is going to send is pending and undelivered.
SendInv ==
    /\ \A l \in Lead :
          /\ row[l] = "none" => delivered[l] = 0
          /\ row[l] = "pending" =>
                delivered[l] = 0 \/ \E w \in Worker : worker[w].cur = l
                                                      /\ worker[w].pc = "accepted"
          /\ delivered[l] <= 1
    /\ \A w \in Worker :
          /\ \A l \in worker[w].todo : row[l] = "pending" /\ l # worker[w].cur
          /\ worker[w].pc \in {"send", "accepted"} =>
                worker[w].cur \in Lead /\ row[worker[w].cur] = "pending"
          /\ worker[w].pc = "send" => delivered[worker[w].cur] = 0
          /\ worker[w].pc = "activity" => worker[w].cur \in Lead /\ row[worker[w].cur] = "sent"

\* Requests, the scheduler, coordinators and the surroundings add rows at most.
LEMMA ControlRows ==
    ASSUME TypeOK,
           \/ \E a \in Admin : AdminNext(a)
           \/ \E b \in Beat : BeatNext(b)
           \/ \E c \in Task : CoordNext(c)
           \/ EnvNext
    PROVE  \A l \in Lead : row'[l] = row[l] \/ (row[l] = "none" /\ row'[l] = "pending")
<1>1. CASE \E a \in Admin : AdminNext(a)
  BY <1>1 DEF AdminNext, LaunchRead, LaunchClaim, LaunchDispatch, LaunchGiveBack,
       LaunchSaveTaskId, PauseRead, PauseRevoke, PauseWrite, RequestCrash, requestFrame
<1>2. CASE \E b \in Beat : BeatNext(b)
  BY <1>2 DEF BeatNext, SchedScan, SchedRefuse, SchedClaim, SchedDispatch, SchedCrash,
              schedFrame
<1>3. CASE \E c \in Task : CoordNext(c)
  BY <1>3 DEF CoordNext, CoordStep, CoordStart, CoordDiscard, CoordResolve, CoordRefused,
       CoordCreateRows, CoordSelect, CoordDispatch, CoordFinish, CoordError, CoordCrash,
       CoordKilled, NewRows
<1>4. CASE EnvNext
  BY <1>4 DEF EnvNext, LeadJoins, LeadUnreachable, Redeliver, envFrame
<1>5. QED
  BY <1>1, <1>2, <1>3, <1>4

\* Requests, the scheduler, coordinators and the surroundings keep SendInv.
LEMMA ControlSend ==
    ASSUME TypeOK, SendInv,
           \/ \E a \in Admin : AdminNext(a)
           \/ \E b \in Beat : BeatNext(b)
           \/ \E c \in Task : CoordNext(c)
           \/ EnvNext
    PROVE  SendInv'
<1>1. UNCHANGED <<worker, delivered>>
  <2>1. CASE \E a \in Admin : AdminNext(a)
    BY <2>1 DEF AdminNext, LaunchRead, LaunchClaim, LaunchDispatch, LaunchGiveBack,
         LaunchSaveTaskId, PauseRead, PauseRevoke, PauseWrite, RequestCrash, requestFrame
  <2>2. CASE \E b \in Beat : BeatNext(b)
    BY <2>2 DEF BeatNext, SchedScan, SchedRefuse, SchedClaim, SchedDispatch, SchedCrash,
                schedFrame
  <2>3. CASE \E c \in Task : CoordNext(c)
    BY <2>3 DEF CoordNext, CoordStep, CoordStart, CoordDiscard, CoordResolve, CoordRefused,
         CoordCreateRows, CoordSelect, CoordDispatch, CoordFinish, CoordError, CoordCrash,
         CoordKilled, coordFrame
  <2>4. CASE EnvNext
    BY <2>4 DEF EnvNext, LeadJoins, LeadUnreachable, Redeliver, envFrame
  <2>5. QED
    BY <2>1, <2>2, <2>3, <2>4
<1>2. \A l \in Lead : row'[l] = row[l] \/ (row[l] = "none" /\ row'[l] = "pending")
  BY ControlRows
<1>3. \A w \in Worker : worker[w].todo \subseteq Lead
  BY DEF TypeOK, WorkerRec
<1>4. QED
  BY <1>1, <1>2, <1>3 DEF SendInv

\* One recipient handled by one worker: what a chunk step may do to the rows, the
\* deliveries and the record of its worker.
LEMMA WorkerSend ==
    ASSUME TypeOK, SendInv, Exclusive, NEW w \in Worker, WorkerNext(w), ~ChunkCrash(w)
    PROVE  SendInv'
<1>1. /\ worker \in [Worker -> WorkerRec] /\ row \in [Lead -> RowStatuses]
      /\ delivered \in [Lead -> Nat] /\ faults \in Nat
  BY DEF TypeOK
<1>2. /\ worker[w].ids \subseteq Lead /\ worker[w].todo \subseteq Lead
      /\ worker[w].cur \in Lead \cup {NoLead}
      /\ worker[w] = [pc |-> worker[w].pc, ids |-> worker[w].ids, todo |-> worker[w].todo,
                      noAddress |-> worker[w].noAddress, cur |-> worker[w].cur,
                      sent |-> worker[w].sent, failed |-> worker[w].failed]
  BY <1>1 DEF WorkerRec
<1>3. \E r : worker' = [worker EXCEPT ![w] = r]
  BY DEF WorkerNext, WorkerStep, ChunkStart, ChunkSelect, ChunkFailAll, ChunkEndLoop,
         ChunkTake, ChunkSkip, ChunkSend, ChunkMarkSent, ChunkLogActivity, ChunkMarkFailed,
         ChunkTally, ChunkProbe, ChunkClose, ChunkCrash, SetWorker, GoWorker, SentOne, W
<1>4. \A v \in Worker \ {w} : worker'[v] = worker[v]
  BY <1>1, <1>3
<1>5. \A v \in Worker \ {w} : Holds(v) \cap Holds(w) = {}
  BY DEF Exclusive
\* SendInv' follows from what w did to its own recipients.
<1>6. ASSUME \A l \in Lead : row'[l] # row[l] \/ delivered'[l] # delivered[l] => l \in Holds(w),
             \A l \in Lead :
                /\ row'[l] = "none" => delivered'[l] = 0
                /\ row'[l] = "pending" =>
                      \/ delivered'[l] = 0
                      \/ worker'[w].cur = l /\ worker'[w].pc = "accepted"
                      \/ \E v \in Worker \ {w} : worker[v].cur = l /\ worker[v].pc = "accepted"
                /\ delivered'[l] <= 1,
             /\ \A l \in worker'[w].todo : row'[l] = "pending" /\ l # worker'[w].cur
             /\ worker'[w].pc \in {"send", "accepted"} =>
                   worker'[w].cur \in Lead /\ row'[worker'[w].cur] = "pending"
             /\ worker'[w].pc = "send" => delivered'[worker'[w].cur] = 0
             /\ worker'[w].pc = "activity" => worker'[w].cur \in Lead /\ row'[worker'[w].cur] = "sent"
      PROVE  SendInv'
  <2>1. ASSUME NEW v \in Worker \ {w}
        PROVE  /\ \A l \in worker'[v].todo : row'[l] = "pending" /\ l # worker'[v].cur
               /\ worker'[v].pc \in {"send", "accepted"} =>
                     worker'[v].cur \in Lead /\ row'[worker'[v].cur] = "pending"
               /\ worker'[v].pc = "send" => delivered'[worker'[v].cur] = 0
               /\ worker'[v].pc = "activity" => worker'[v].cur \in Lead /\ row'[worker'[v].cur] = "sent"
    <3>1. worker'[v] = worker[v] /\ worker[v].todo \subseteq Lead
      BY <1>1, <1>4, <2>1 DEF WorkerRec
    <3>2. /\ \A l \in worker[v].todo : l \notin Holds(w)
          /\ worker[v].cur \in Lead => worker[v].cur \notin Holds(w)
      BY <1>5, <2>1 DEF Holds
    <3>3. /\ \A l \in worker[v].todo : row'[l] = row[l]
          /\ worker[v].cur \in Lead => /\ row'[worker[v].cur] = row[worker[v].cur]
                                       /\ delivered'[worker[v].cur] = delivered[worker[v].cur]
      BY <1>6, <3>1, <3>2
    <3>4. QED
      BY <3>1, <3>3, <2>1 DEF SendInv
  <2>2. QED
    BY <1>4, <1>6, <2>1 DEF SendInv
\* SendInv as it stands, with the worker of the step singled out.
<1>7. /\ \A l \in Lead :
            /\ row[l] = "none" => delivered[l] = 0
            /\ row[l] = "pending" =>
                  \/ delivered[l] = 0
                  \/ worker[w].cur = l /\ worker[w].pc = "accepted"
                  \/ \E v \in Worker \ {w} : worker[v].cur = l /\ worker[v].pc = "accepted"
            /\ delivered[l] <= 1
      /\ \A l \in worker[w].todo : row[l] = "pending" /\ l # worker[w].cur
      /\ worker[w].pc \in {"send", "accepted"} =>
            worker[w].cur \in Lead /\ row[worker[w].cur] = "pending"
      /\ worker[w].pc = "send" => delivered[worker[w].cur] = 0
  BY DEF SendInv
<1> USE DEF SetWorker, GoWorker, W, IdleWorker
<1>9. CASE ChunkStart(w) \/ ChunkTally(w)
  <2>1. UNCHANGED <<row, delivered>> /\ worker[w].pc # "accepted"
    BY <1>9 DEF ChunkStart, ChunkTally
  <2>2. worker'[w].pc \notin {"send", "accepted", "activity"} /\ worker'[w].todo = {}
    <3>1. CASE ChunkStart(w)
      <4>1. PICK m \in chunkQ :
                worker' = [worker EXCEPT ![w] =
                              IF Halted THEN IdleWorker
                              ELSE [IdleWorker EXCEPT !.pc = "select", !.ids = m.ids]]
        BY <3>1 DEF ChunkStart
      <4>2. QED
        BY <1>1, <4>1
    <3>2. CASE ChunkTally(w)
      BY <1>1, <3>2 DEF ChunkTally
    <3>3. QED
      BY <1>9, <3>1, <3>2
  <2>3. QED
    BY <1>6, <1>7, <2>1, <2>2
<1>17. CASE ChunkEndLoop(w) \/ ChunkProbe(w) \/ ChunkClose(w) \/ ChunkLogActivity(w)
  <2>1. UNCHANGED <<row, delivered>> /\ worker[w].pc # "accepted"
    BY <1>17 DEF ChunkEndLoop, ChunkProbe, ChunkClose, ChunkLogActivity
  <2>2. /\ worker'[w].pc \notin {"send", "accepted", "activity"}
        /\ worker'[w].todo = worker[w].todo
        /\ worker'[w].cur \in {worker[w].cur, NoLead}
    <3>1. CASE ChunkEndLoop(w) \/ ChunkProbe(w) \/ ChunkClose(w)
      <4>1. \E pc \in {"tally", "close", "idle"} : worker' = [worker EXCEPT ![w].pc = pc]
        BY <3>1 DEF ChunkEndLoop, ChunkProbe, ChunkClose
      <4>2. QED
        BY <1>1, <1>2, <4>1
    <3>2. CASE ChunkLogActivity(w)
      <4>1. worker' = [worker EXCEPT ![w] = [W(w) EXCEPT !.pc = "check", !.cur = NoLead,
                                                         !.sent = @ + 1]]
        BY <3>2 DEF ChunkLogActivity, SentOne
      <4>2. QED
        BY <1>1, <1>2, <4>1
    <3>3. QED
      BY <1>17, <3>1, <3>2
  <2>3. QED
    BY <1>2, <1>6, <1>7, <2>1, <2>2
<1>10. CASE ChunkSelect(w)
  <2>1. /\ UNCHANGED <<row, delivered>> /\ worker[w].pc # "accepted"
        /\ worker'[w].pc = "check" /\ worker'[w].todo = Selectable(worker[w].ids)
        /\ worker'[w].cur = NoLead
    BY <1>1, <1>10 DEF ChunkSelect
  <2>2. QED
    BY <1>2, <1>6, <1>7, <2>1 DEF Selectable
<1>11. CASE ChunkFailAll(w)
  <2>1. /\ worker[w].pc # "accepted" /\ UNCHANGED delivered
        /\ worker'[w].pc = "tally" /\ worker'[w].todo = {}
        /\ \A l \in Lead : row'[l] = IF l \in worker[w].ids /\ row[l] = "pending"
                                     THEN "failed" ELSE row[l]
    BY <1>1, <1>11 DEF ChunkFailAll
  <2>2. QED
    BY <1>6, <1>7, <2>1 DEF Holds
<1>12. CASE ChunkTake(w)
  <2>1. PICK l \in worker[w].todo : worker' = [worker EXCEPT ![w] =
                      [W(w) EXCEPT !.pc = "send", !.cur = l, !.todo = @ \ {l}]]
    BY <1>12 DEF ChunkTake
  <2>2. /\ worker'[w].pc = "send" /\ worker'[w].cur = l /\ worker'[w].todo = worker[w].todo \ {l}
    BY <1>1, <1>2, <2>1
  <2>3. UNCHANGED <<row, delivered>> /\ worker[w].pc = "check" /\ l \in Lead
    BY <1>2, <1>12 DEF ChunkTake
  <2>4. \A v \in Worker \ {w} : worker[v].cur # l
    BY <1>5, <2>3 DEF Holds
  <2>5. delivered[l] = 0
    BY <1>7, <2>3, <2>4
  <2>6. QED
    BY <1>6, <1>7, <2>2, <2>3, <2>5
<1>13. CASE ChunkSkip(w)
  <2>1. PICK l \in worker[w].todo :
              /\ row' = [row EXCEPT ![l] = "skipped"]
              /\ worker' = [worker EXCEPT ![w] = [W(w) EXCEPT !.todo = @ \ {l}]]
    BY <1>13 DEF ChunkSkip
  <2>2. /\ worker'[w].pc = "check" /\ worker'[w].todo = worker[w].todo \ {l}
        /\ worker'[w].cur = worker[w].cur
    BY <1>1, <1>2, <1>13, <2>1 DEF ChunkSkip
  <2>3. UNCHANGED delivered /\ worker[w].pc = "check" /\ l \in Holds(w)
    BY <1>13 DEF ChunkSkip, Holds
  <2>4. \A k \in Lead : row'[k] = IF k = l THEN "skipped" ELSE row[k]
    BY <1>1, <2>1
  <2>5. QED
    BY <1>2, <1>6, <1>7, <2>2, <2>3, <2>4
<1>14. CASE ChunkSend(w)
  <2>1. /\ worker[w].pc = "send" /\ worker[w].cur \in Lead /\ UNCHANGED row
        /\ delivered[worker[w].cur] = 0
    BY <1>7, <1>14 DEF ChunkSend
  <2>2. /\ worker'[w].pc = "accepted" /\ worker'[w].todo = worker[w].todo
        /\ worker'[w].cur = worker[w].cur
    BY <1>1, <1>2, <1>14 DEF ChunkSend
  <2>3. \A l \in Lead : delivered'[l] = IF l = worker[w].cur THEN 1 ELSE delivered[l]
    BY <1>1, <1>14, <2>1 DEF ChunkSend
  <2>4. worker[w].cur \in Holds(w)
    BY <2>1 DEF Holds
  <2>5. QED
    BY <1>6, <1>7, <2>1, <2>2, <2>3, <2>4
<1>15. CASE ChunkMarkSent(w) \/ ChunkMarkFailed(w)
  <2>1. UNCHANGED delivered /\ worker'[w].pc \in {"activity", "check"}
        /\ worker'[w].todo = worker[w].todo /\ worker'[w].cur \in {worker[w].cur, NoLead}
    <3>1. \/ worker' = [worker EXCEPT ![w].pc = "activity"]
          \/ worker' = [worker EXCEPT ![w] = [W(w) EXCEPT !.pc = "check", !.cur = NoLead,
                                                          !.sent = @ + 1]]
          \/ worker' = [worker EXCEPT ![w] = [W(w) EXCEPT !.pc = "check", !.cur = NoLead,
                                                          !.failed = @ + 1]]
      BY <1>15 DEF ChunkMarkSent, ChunkMarkFailed, SentOne
    <3>2. UNCHANGED delivered
      BY <1>15 DEF ChunkMarkSent, ChunkMarkFailed
    <3>3. /\ worker'[w].pc \in {"activity", "check"} /\ worker'[w].todo = worker[w].todo
          /\ worker'[w].cur \in {worker[w].cur, NoLead}
      <4>1. CASE worker' = [worker EXCEPT ![w].pc = "activity"]
        BY <1>1, <1>2, <4>1
      <4>2. CASE worker' = [worker EXCEPT ![w] = [W(w) EXCEPT !.pc = "check", !.cur = NoLead,
                                                              !.sent = @ + 1]]
        BY <1>1, <1>2, <4>2
      <4>3. CASE worker' = [worker EXCEPT ![w] = [W(w) EXCEPT !.pc = "check", !.cur = NoLead,
                                                              !.failed = @ + 1]]
        BY <1>1, <1>2, <4>3
      <4>4. QED
        BY <3>1, <4>1, <4>2, <4>3
    <3>4. QED
      BY <3>2, <3>3
  <2>2. \A l \in Lead : row'[l] = row[l] \/ (l = worker[w].cur /\ row'[l] \in {"sent", "failed"})
    BY <1>1, <1>15 DEF ChunkMarkSent, ChunkMarkFailed
  <2>3. worker[w].pc = "accepted" => row'[worker[w].cur] # "pending"
    BY <1>1, <1>7, <1>15 DEF ChunkMarkSent, ChunkMarkFailed
  <2>4. worker[w].cur \in Lead => worker[w].cur \in Holds(w)
    BY DEF Holds
  <2>5. worker'[w].pc = "activity" => worker'[w].cur \in Lead /\ row'[worker'[w].cur] = "sent"
    <3>1. CASE ChunkMarkSent(w)
      <4>1. worker[w].cur \in Lead
        BY <1>7, <3>1 DEF ChunkMarkSent
      <4>2. worker' = [worker EXCEPT ![w].pc = "activity"] \/ worker'[w].pc = "check"
        <5>1. CASE Channel = "whatsapp"
          BY <3>1, <5>1 DEF ChunkMarkSent
        <5>2. CASE Channel # "whatsapp"
          <6>1. worker' = [worker EXCEPT ![w] = [W(w) EXCEPT !.pc = "check", !.cur = NoLead,
                                                             !.sent = @ + 1]]
            BY <3>1, <5>2 DEF ChunkMarkSent, SentOne
          <6>2. QED
            BY <1>1, <1>2, <6>1
        <5>3. QED
          BY <5>1, <5>2
      <4>3. row'[worker[w].cur] = "sent"
        BY <1>1, <3>1, <4>1 DEF ChunkMarkSent
      <4>4. QED
        BY <1>1, <1>2, <4>1, <4>2, <4>3
    <3>2. CASE ChunkMarkFailed(w)
      BY <1>1, <1>2, <3>2 DEF ChunkMarkFailed
    <3>3. QED
      BY <1>15, <3>1, <3>2
  <2>6. QED
    BY <1>2, <1>6, <1>7, <2>1, <2>2, <2>3, <2>4, <2>5
<1>16. QED
  BY <1>9, <1>10, <1>11, <1>12, <1>13, <1>14, <1>15, <1>17 DEF WorkerNext, WorkerStep

\* Up to the first fault: no process was lost.
SendUntilFault == faults = 0 => SendInv

\* A fault is counted, and there are at most MaxFaults.
LEMMA FaultStep ==
    ASSUME [Next]_vars
    PROVE  faults' = faults \/ (faults < MaxFaults /\ faults' = faults + 1)
<1>1. CASE \E a \in Admin : AdminNext(a)
  BY <1>1 DEF AdminNext, LaunchRead, LaunchClaim, LaunchDispatch, LaunchGiveBack,
       LaunchSaveTaskId, PauseRead, PauseRevoke, PauseWrite, RequestCrash, Fault, bounds
<1>2. CASE \E b \in Beat : BeatNext(b)
  BY <1>2 DEF BeatNext, SchedScan, SchedRefuse, SchedClaim, SchedDispatch, SchedCrash,
            Fault, bounds
<1>3. CASE \E c \in Task : CoordNext(c)
  BY <1>3 DEF CoordNext, CoordStep, CoordStart, CoordDiscard, CoordResolve, CoordRefused,
       CoordCreateRows, CoordSelect, CoordDispatch, CoordFinish, CoordError, CoordCrash,
       CoordKilled, Fault, bounds
<1>4. CASE \E w \in Worker : WorkerNext(w)
  BY <1>4 DEF WorkerNext, WorkerStep, ChunkStart, ChunkSelect, ChunkFailAll, ChunkEndLoop,
       ChunkTake, ChunkSkip, ChunkSend, ChunkMarkSent, ChunkLogActivity, ChunkMarkFailed,
       ChunkTally, ChunkProbe, ChunkClose, ChunkCrash, Fault, chunkFrame, bounds
<1>5. CASE EnvNext
  BY <1>5 DEF EnvNext, LeadJoins, LeadUnreachable, Redeliver, envFrame, bounds
<1>6. CASE UNCHANGED vars
  BY <1>6 DEF vars
<1>7. QED
  BY <1>1, <1>2, <1>3, <1>4, <1>5, <1>6 DEF Next

\* The number of faults never falls, and a lost process counts.
LEMMA FaultsGrow ==
    ASSUME TypeOK, [Next]_vars
    PROVE  faults' = 0 => faults = 0 /\ \A w \in Worker : ~ChunkCrash(w)
<1>1. faults \in Nat
  BY DEF TypeOK
<1>2. faults' = faults \/ faults' = faults + 1
  BY FaultStep
<1>3. ASSUME NEW w \in Worker, ChunkCrash(w) PROVE faults' = faults + 1
  BY <1>3 DEF ChunkCrash, Fault
<1>4. QED
  BY <1>1, <1>2, <1>3

\* SendInv holds at first and is kept by every step but a lost process, as long
\* as recipients are in one pair of hands at a time.
LEMMA SendStep ==
    /\ Init => SendUntilFault
    /\ TypeOK /\ SendUntilFault /\ Exclusive /\ [Next]_vars => SendUntilFault'
<1>1. Init => SendUntilFault
  BY DEF Init, SendUntilFault, SendInv, IdleWorker
<1>2. ASSUME TypeOK, SendUntilFault, Exclusive, [Next]_vars, faults' = 0 PROVE SendInv'
  <2>1. SendInv /\ \A w \in Worker : ~ChunkCrash(w)
    BY <1>2, FaultsGrow DEF SendUntilFault
  <2>2. CASE UNCHANGED vars
    BY <2>1, <2>2 DEF SendInv, vars
  <2>3. CASE Next
    BY <1>2, <2>1, <2>3, ControlSend, WorkerSend DEF Next
  <2>4. QED
    BY <1>2, <2>2, <2>3
<1>3. QED
  BY <1>1, <1>2 DEF SendUntilFault

\* With one bulk_ops worker no customer receives a campaign twice before the
\* first fault, whatever pauses, relaunches and redelivered chunk messages
\* there are.
THEOREM OneWorkerAtMostOnce ==
    ASSUME \A v, w \in Worker : v = w
    PROVE  Spec => [](faults = 0 => AtMostOnce)
<1>1. Exclusive
  BY DEF Exclusive
<1>2. SendUntilFault => (faults = 0 => AtMostOnce)
  BY DEF SendUntilFault, SendInv, AtMostOnce
<1>3. Init => SendUntilFault
  BY SendStep
<1>4. TypeOK /\ SendUntilFault /\ [Next]_vars => SendUntilFault'
  BY <1>1, SendStep
<1>5. QED
  BY <1>2, <1>3, <1>4, TypeCorrect, PTL DEF Spec

-----------------------------------------------------------------------------
(* One launch: chunks partition the recipients.                            *)

\* A recipient is to be dispatched, in one waiting chunk or held by one worker.
PartitionInv ==
    /\ Exclusive
    /\ \A m, n \in chunkQ : m # n => m.ids \cap n.ids = {}
    /\ \A m \in chunkQ, w \in Worker : m.ids \cap Holds(w) = {}
    /\ \A m \in chunkQ : m.copy = 0
    /\ \A c \in Task :
          /\ coord[c].pc = "dispatching" =>
                /\ \A m \in chunkQ : m.ids \cap coord[c].leads = {}
                /\ \A w \in Worker : Holds(w) \cap coord[c].leads = {}
          /\ coord[c].pc \notin {"dispatching", "done"} =>
                /\ chunkQ = {}
                /\ \A w \in Worker : Holds(w) = {}

\* Steps that move no recipient keep PartitionInv.
LEMMA RestPartition ==
    ASSUME TypeOK, PartitionInv, MaxCopies = 0,
           \/ \E a \in Admin : AdminNext(a)
           \/ \E b \in Beat : BeatNext(b)
           \/ EnvNext
    PROVE  PartitionInv'
<1>1. UNCHANGED <<worker, chunkQ>>
  <2>1. CASE \E a \in Admin : AdminNext(a)
    BY <2>1 DEF AdminNext, LaunchRead, LaunchClaim, LaunchDispatch, LaunchGiveBack,
         LaunchSaveTaskId, PauseRead, PauseRevoke, PauseWrite, RequestCrash, requestFrame
  <2>2. CASE \E b \in Beat : BeatNext(b)
    BY <2>2 DEF BeatNext, SchedScan, SchedRefuse, SchedClaim, SchedDispatch, SchedCrash,
                schedFrame
  <2>3. CASE \E l \in Lead : LeadJoins(l) \/ LeadUnreachable(l)
    BY <2>3 DEF LeadJoins, LeadUnreachable, envFrame
  <2>4. ASSUME NEW m \in chunkQ, Redeliver(m)
        PROVE  FALSE
    BY <2>4 DEF PartitionInv, Redeliver
  <2>5. QED
    BY <2>1, <2>2, <2>3, <2>4 DEF EnvNext
<1>2. \A c \in Task : coord'[c] = coord[c] \/ (coord[c].pc = "unused" /\ coord'[c].pc = "queued")
  <2>1. coord \in [Task -> CoordRec]
    BY DEF TypeOK
  <2>2. UNCHANGED coord \/ \E c \in Task : /\ coord[c].pc = "unused"
                                           /\ coord' = [coord EXCEPT ![c].pc = "queued"]
    <3>1. CASE \E a \in Admin : AdminNext(a)
      BY <3>1 DEF AdminNext, LaunchRead, LaunchClaim, LaunchDispatch, LaunchGiveBack,
           LaunchSaveTaskId, PauseRead, PauseRevoke, PauseWrite, RequestCrash, requestFrame
    <3>2. CASE \E b \in Beat : BeatNext(b)
      BY <3>2 DEF BeatNext, SchedScan, SchedRefuse, SchedClaim, SchedDispatch, SchedCrash,
                  schedFrame
    <3>3. CASE EnvNext
      BY <3>3 DEF EnvNext, LeadJoins, LeadUnreachable, Redeliver, envFrame
    <3>4. QED
      BY <3>1, <3>2, <3>3
  <2>3. QED
    BY <2>1, <2>2 DEF CoordRec
<1>3. \A w \in Worker : Holds(w)' = Holds(w)
  BY <1>1 DEF Holds
<1>4. QED
  BY <1>1, <1>2, <1>3 DEF PartitionInv, Exclusive

\* The one coordinator keeps PartitionInv.
LEMMA CoordPartition ==
    ASSUME TypeOK, PartitionInv, MaxLaunches <= 1, NEW c \in Task, CoordNext(c)
    PROVE  PartitionInv'
<1>1. coord \in [Task -> CoordRec]
  BY DEF TypeOK
<1>2. \A d \in Task : d = c
  BY DEF Task
<1>3. UNCHANGED worker /\ \A w \in Worker : Holds(w)' = Holds(w)
  <2>1. UNCHANGED worker
    BY DEF CoordNext, CoordStep, CoordStart, CoordDiscard, CoordResolve, CoordRefused,
         CoordCreateRows, CoordSelect, CoordDispatch, CoordFinish, CoordError, CoordCrash,
         CoordKilled, coordFrame
  <2>2. QED
    BY <2>1 DEF Holds
<1>4. CASE CoordDispatch(c)
  <2>1. PICK ids \in SUBSET coord[c].leads :
              /\ chunkQ' = chunkQ \cup {[task |-> c, ids |-> ids, copy |-> 0]}
              /\ coord' = [coord EXCEPT ![c] = [pc |-> "dispatching",
                                                leads |-> coord[c].leads \ ids]]
    BY <1>4 DEF CoordDispatch, CoordTo
  <2>2. coord[c].pc = "dispatching"
    BY <1>4 DEF CoordDispatch
  <2>3. coord'[c].pc = "dispatching" /\ coord'[c].leads = coord[c].leads \ ids
    BY <1>1, <2>1
  <2> DEFINE new == [task |-> c, ids |-> ids, copy |-> 0]
  <2>4. new.ids = ids /\ new.copy = 0 /\ chunkQ' = chunkQ \cup {new}
    BY <2>1
  <2> HIDE DEF new
  <2>5. /\ \A m \in chunkQ : m.ids \cap ids = {}
        /\ \A w \in Worker : Holds(w) \cap ids = {}
    BY <2>1, <2>2 DEF PartitionInv
  <2>6. QED
    BY <1>2, <1>3, <2>1, <2>2, <2>3, <2>4, <2>5 DEF PartitionInv, Exclusive
<1>5. CASE CoordSelect(c)
  <2>1. /\ coord[c].pc = "created" /\ UNCHANGED chunkQ
        /\ coord' = [coord EXCEPT ![c] = [pc |-> "dispatching", leads |-> Pending]]
    BY <1>5 DEF CoordSelect, CoordTo
  <2>2. QED
    BY <1>1, <1>2, <1>3, <2>1 DEF PartitionInv, Exclusive
<1>6. CASE ~CoordDispatch(c) /\ ~CoordSelect(c)
  <2>1. UNCHANGED chunkQ
    BY <1>6 DEF CoordNext, CoordStep, CoordStart, CoordDiscard, CoordResolve, CoordRefused,
         CoordCreateRows, CoordFinish, CoordError, CoordCrash, CoordKilled
  <2>2. CASE CoordStart(c) \/ CoordResolve(c) \/ CoordCreateRows(c)
    <3>1. coord[c].pc \notin {"dispatching", "done"}
      BY <2>2 DEF CoordStart, CoordResolve, CoordCreateRows
    <3>2. \E pc \in {"started", "resolved", "created"} : \E leads :
             coord' = [coord EXCEPT ![c] = [pc |-> pc, leads |-> leads]]
      BY <2>2 DEF CoordStart, CoordResolve, CoordCreateRows, CoordTo
    <3>3. coord'[c].pc \in {"started", "resolved", "created"}
      BY <1>1, <3>2
    <3>4. QED
      BY <1>2, <1>3, <2>1, <3>1, <3>3 DEF PartitionInv, Exclusive
  <2>3. CASE CoordDiscard(c) \/ CoordRefused(c) \/ CoordFinish(c) \/ CoordError(c)
             \/ CoordCrash(c) \/ CoordKilled(c)
    <3>1. coord' = [coord EXCEPT ![c] = [pc |-> "done", leads |-> {}]]
      BY <2>3 DEF CoordDiscard, CoordRefused, CoordFinish, CoordError, CoordCrash,
                  CoordKilled, CoordTo
    <3>2. coord'[c].pc = "done"
      BY <1>1, <3>1
    <3>3. QED
      BY <1>2, <1>3, <2>1, <3>2 DEF PartitionInv, Exclusive
  <2>4. QED
    BY <1>6, <2>2, <2>3 DEF CoordNext, CoordStep
<1>7. QED
  BY <1>4, <1>5, <1>6

\* Chunks keep PartitionInv: a worker takes the recipients of the message it
\* receives, and only lets go of them afterwards.
LEMMA WorkerPartition ==
    ASSUME TypeOK, PartitionInv, NEW w \in Worker, WorkerNext(w)
    PROVE  PartitionInv'
<1>1. worker \in [Worker -> WorkerRec] /\ chunkQ \subseteq Chunk
  BY DEF TypeOK
<1>2. /\ worker[w].ids \subseteq Lead /\ worker[w].todo \subseteq Lead
      /\ worker[w].cur \in Lead \cup {NoLead}
      /\ worker[w] = [pc |-> worker[w].pc, ids |-> worker[w].ids, todo |-> worker[w].todo,
                      noAddress |-> worker[w].noAddress, cur |-> worker[w].cur,
                      sent |-> worker[w].sent, failed |-> worker[w].failed]
  BY <1>1 DEF WorkerRec
<1>3. UNCHANGED coord
  BY DEF WorkerNext, WorkerStep, ChunkStart, ChunkSelect, ChunkFailAll, ChunkEndLoop,
         ChunkTake, ChunkSkip, ChunkSend, ChunkMarkSent, ChunkLogActivity, ChunkMarkFailed,
         ChunkTally, ChunkProbe, ChunkClose, ChunkCrash, chunkFrame
<1>4. \E r : worker' = [worker EXCEPT ![w] = r]
  BY DEF WorkerNext, WorkerStep, ChunkStart, ChunkSelect, ChunkFailAll, ChunkEndLoop,
         ChunkTake, ChunkSkip, ChunkSend, ChunkMarkSent, ChunkLogActivity, ChunkMarkFailed,
         ChunkTally, ChunkProbe, ChunkClose, ChunkCrash, SetWorker, GoWorker, SentOne, W
<1>5. \A v \in Worker \ {w} : Holds(v)' = Holds(v)
  BY <1>1, <1>4 DEF Holds
<1> USE DEF SetWorker, GoWorker, W, IdleWorker
<1>6. CASE ChunkStart(w)
  <2>1. PICK m \in chunkQ :
              /\ chunkQ' = chunkQ \ {m}
              /\ worker' = [worker EXCEPT ![w] =
                              IF Halted THEN IdleWorker
                              ELSE [IdleWorker EXCEPT !.pc = "select", !.ids = m.ids]]
    BY <1>6 DEF ChunkStart
  <2>2. Holds(w)' \subseteq m.ids
    BY <1>1, <2>1 DEF Holds
  <2>3. \A c \in Task : coord[c].pc \in {"dispatching", "done"}
    BY <2>1 DEF PartitionInv
  <2>4. QED
    BY <1>3, <1>5, <2>1, <2>2, <2>3 DEF PartitionInv, Exclusive
<1>7. CASE ~ChunkStart(w)
  <2>1. UNCHANGED chunkQ
    BY <1>7 DEF WorkerNext, WorkerStep, ChunkSelect, ChunkFailAll, ChunkEndLoop,
         ChunkTake, ChunkSkip, ChunkSend, ChunkMarkSent, ChunkLogActivity, ChunkMarkFailed,
         ChunkTally, ChunkProbe, ChunkClose, ChunkCrash, chunkFrame
  <2>2. Holds(w)' \subseteq Holds(w)
    <3>1. CASE ChunkSelect(w)
      <4>1. /\ worker'[w].todo = Selectable(worker[w].ids) /\ worker'[w].cur = NoLead
            /\ worker'[w].ids = {}
        BY <1>1, <3>1 DEF ChunkSelect
      <4>2. QED
        BY <4>1 DEF Selectable, Holds
    <3>2. CASE ChunkFailAll(w) \/ ChunkTally(w) \/ ChunkCrash(w)
      <4>1. CASE ChunkFailAll(w)
        <5>1. worker'[w].todo = {} /\ worker'[w].cur = NoLead /\ worker'[w].ids = {}
          BY <1>1, <4>1 DEF ChunkFailAll
        <5>2. QED
          BY <5>1 DEF Holds
      <4>2. CASE ChunkTally(w) \/ ChunkCrash(w)
        <5>1. worker'[w].todo = {} /\ worker'[w].cur = NoLead /\ worker'[w].ids = {}
          BY <1>1, <4>2 DEF ChunkTally, ChunkCrash
        <5>2. QED
          BY <5>1 DEF Holds
      <4>3. QED
        BY <3>2, <4>1, <4>2
    <3>3. CASE ChunkTake(w)
      <4>1. PICK l \in worker[w].todo : worker' = [worker EXCEPT ![w] =
                      [W(w) EXCEPT !.pc = "send", !.cur = l, !.todo = @ \ {l}]]
        BY <3>3 DEF ChunkTake
      <4>2. /\ worker'[w].cur = l /\ worker'[w].todo = worker[w].todo \ {l}
            /\ worker'[w].ids = worker[w].ids
        BY <1>1, <1>2, <4>1
      <4>3. QED
        BY <4>2 DEF Holds
    <3>4. CASE ChunkSkip(w)
      <4>1. PICK l \in worker[w].todo :
                worker' = [worker EXCEPT ![w] = [W(w) EXCEPT !.todo = @ \ {l}]]
        BY <3>4 DEF ChunkSkip
      <4>2. /\ worker'[w].cur = worker[w].cur /\ worker'[w].todo = worker[w].todo \ {l}
            /\ worker'[w].ids = worker[w].ids
        BY <1>1, <1>2, <4>1
      <4>3. QED
        BY <4>2 DEF Holds
    <3>5. CASE ChunkEndLoop(w) \/ ChunkProbe(w) \/ ChunkClose(w) \/ ChunkSend(w)
               \/ (ChunkMarkSent(w) /\ Channel = "whatsapp")
      <4>1. \E pc \in WorkerPcs : worker' = [worker EXCEPT ![w].pc = pc]
        BY <3>5 DEF ChunkEndLoop, ChunkProbe, ChunkClose, ChunkSend, ChunkMarkSent, WorkerPcs
      <4>2. /\ worker'[w].cur = worker[w].cur /\ worker'[w].todo = worker[w].todo
            /\ worker'[w].ids = worker[w].ids
        BY <1>1, <1>2, <4>1
      <4>3. QED
        BY <4>2 DEF Holds
    <3>6. CASE ChunkLogActivity(w) \/ (ChunkMarkSent(w) /\ Channel # "whatsapp")
      <4>1. worker' = [worker EXCEPT ![w] = [W(w) EXCEPT !.pc = "check", !.cur = NoLead,
                                                         !.sent = @ + 1]]
        BY <3>6 DEF ChunkLogActivity, ChunkMarkSent, SentOne
      <4>2. /\ worker'[w].cur = NoLead /\ worker'[w].todo = worker[w].todo
            /\ worker'[w].ids = worker[w].ids
        BY <1>1, <1>2, <4>1
      <4>3. QED
        BY <4>2 DEF Holds
    <3>7. CASE ChunkMarkFailed(w)
      <4>1. worker' = [worker EXCEPT ![w] = [W(w) EXCEPT !.pc = "check", !.cur = NoLead,
                                                         !.failed = @ + 1]]
        BY <3>7 DEF ChunkMarkFailed
      <4>2. /\ worker'[w].cur = NoLead /\ worker'[w].todo = worker[w].todo
            /\ worker'[w].ids = worker[w].ids
        BY <1>1, <1>2, <4>1
      <4>3. QED
        BY <4>2 DEF Holds
    <3>8. QED
      BY <1>7, <3>1, <3>2, <3>3, <3>4, <3>5, <3>6, <3>7 DEF WorkerNext, WorkerStep
  <2>3. QED
    BY <1>3, <1>5, <2>1, <2>2 DEF PartitionInv, Exclusive
<1>8. QED
  BY <1>6, <1>7

\* PartitionInv holds at first and is kept by every step of a campaign that is
\* launched once and whose messages are delivered once.
LEMMA PartitionStep ==
    ASSUME MaxLaunches <= 1, MaxCopies = 0
    PROVE  /\ Init => PartitionInv
           /\ TypeOK /\ PartitionInv /\ [Next]_vars => PartitionInv'
<1>1. Init => PartitionInv
  BY DEF Init, PartitionInv, Exclusive, Holds, IdleWorker, IdleCoord
<1>2. ASSUME TypeOK, PartitionInv, [Next]_vars PROVE PartitionInv'
  <2>1. CASE UNCHANGED vars
    BY <1>2, <2>1 DEF PartitionInv, Exclusive, Holds, vars
  <2>2. CASE Next
    BY <1>2, <2>2, RestPartition, CoordPartition, WorkerPartition DEF Next
  <2>3. QED
    BY <1>2, <2>1, <2>2
<1>3. QED
  BY <1>1, <1>2

\* A campaign that was launched once, with no redelivered message, reaches nobody
\* twice before the first fault, however many workers share its chunks and
\* whenever it is paused.
THEOREM OneLaunchAtMostOnce ==
    ASSUME MaxLaunches <= 1, MaxCopies = 0
    PROVE  Spec => [](faults = 0 => AtMostOnce)
<1>1. Init => SendUntilFault /\ PartitionInv
  BY SendStep, PartitionStep
<1>2. TypeOK /\ PartitionInv /\ [Next]_vars => PartitionInv'
  BY PartitionStep
<1>3. TypeOK /\ SendUntilFault /\ PartitionInv /\ [Next]_vars => SendUntilFault'
  BY SendStep DEF PartitionInv
<1>4. SendUntilFault => (faults = 0 => AtMostOnce)
  BY DEF SendUntilFault, SendInv, AtMostOnce
<1>5. QED
  BY <1>1, <1>2, <1>3, <1>4, TypeCorrect, PTL DEF Spec

-----------------------------------------------------------------------------
(* The counters.  A worker carries what its chunk has yet to add, and adds it *)
(* before it lets the chunk go.                                             *)

SentDue == [w \in Worker |-> worker[w].sent]
FailedDue == [w \in Worker |-> worker[w].failed]
Logging == Cardinality({w \in Worker : worker[w].pc = "activity"})

CountInv ==
    /\ CountersExact
    /\ \A w \in Worker : worker[w].pc \in {"idle", "select", "probe", "close"} =>
                            worker[w].sent = 0 /\ worker[w].failed = 0

\* The sums of the counters' equations are over finite sets of numbers.
LEMMA CountTypes ==
    TypeOK => /\ Rows("sent") \in Nat /\ Rows("failed") \in Nat /\ Logging \in Nat
              /\ SumFunction(SentDue) \in Nat /\ SumFunction(FailedDue) \in Nat
<1> SUFFICES ASSUME TypeOK
             PROVE  /\ Rows("sent") \in Nat /\ Rows("failed") \in Nat /\ Logging \in Nat
                    /\ SumFunction(SentDue) \in Nat /\ SumFunction(FailedDue) \in Nat
  OBVIOUS
<1>1. Rows("sent") \in Nat /\ Rows("failed") \in Nat
  BY CardinalityOfLeads DEF Rows
<1>2. Logging \in Nat
  BY FS_Subset, FS_CardinalityType DEF Logging
<1>3. /\ DOMAIN SentDue = Worker /\ DOMAIN FailedDue = Worker
      /\ \A w \in Worker : SentDue[w] \in Nat /\ FailedDue[w] \in Nat
  BY DEF TypeOK, WorkerRec, SentDue, FailedDue
<1> HIDE DEF SentDue, FailedDue
<1>4. SumFunction(SentDue) \in Nat /\ SumFunction(FailedDue) \in Nat
  BY <1>3, SumNat DEF SumFunction
<1>5. QED
  BY <1>1, <1>2, <1>4

\* One worker's record changes.
LEMMA DueMoves ==
    ASSUME TypeOK, TypeOK', NEW w \in Worker, \A v \in Worker \ {w} : worker'[v] = worker[v]
    PROVE  /\ SumFunction(SentDue)' = SumFunction(SentDue) + worker'[w].sent - worker[w].sent
           /\ SumFunction(FailedDue)' = SumFunction(FailedDue) + worker'[w].failed - worker[w].failed
           /\ (worker'[w].pc = "activity" <=> worker[w].pc = "activity") => Logging' = Logging
           /\ worker'[w].pc = "activity" /\ worker[w].pc # "activity" => Logging' = Logging + 1
           /\ worker'[w].pc # "activity" /\ worker[w].pc = "activity" => Logging' = Logging - 1
<1>1. /\ DOMAIN SentDue = Worker /\ DOMAIN FailedDue = Worker
      /\ \A v \in Worker : SentDue[v] = worker[v].sent /\ FailedDue[v] = worker[v].failed
      /\ \A v \in Worker : SentDue[v] \in Nat /\ FailedDue[v] \in Nat
  BY DEF TypeOK, WorkerRec, SentDue, FailedDue
<1>2. /\ DOMAIN SentDue' = Worker /\ DOMAIN FailedDue' = Worker
      /\ \A v \in Worker : SentDue'[v] = worker'[v].sent /\ FailedDue'[v] = worker'[v].failed
      /\ \A v \in Worker : SentDue'[v] \in Nat /\ FailedDue'[v] \in Nat
  BY DEF TypeOK, WorkerRec, SentDue, FailedDue
<1>3. SumFunction(SentDue)' = SumFunction(SentDue) + worker'[w].sent - worker[w].sent
  <2> HIDE DEF SentDue
  <2>1. SumFunctionOnSet(SentDue', Worker) = SumFunctionOnSet(SentDue, Worker) + SentDue'[w] - SentDue[w]
    BY <1>1, <1>2, SumChange
  <2>2. QED
    BY <1>1, <1>2, <2>1 DEF SumFunction
<1>4. SumFunction(FailedDue)' = SumFunction(FailedDue) + worker'[w].failed - worker[w].failed
  <2> HIDE DEF FailedDue
  <2>1. SumFunctionOnSet(FailedDue', Worker) = SumFunctionOnSet(FailedDue, Worker) + FailedDue'[w] - FailedDue[w]
    BY <1>1, <1>2, SumChange
  <2>2. QED
    BY <1>1, <1>2, <2>1 DEF SumFunction
<1> DEFINE at == [v \in Worker |-> worker[v].pc]
           to == [v \in Worker |-> worker'[v].pc]
           N == Cardinality({v \in Worker : at[v] = "activity"})
           M == Cardinality({v \in Worker : to[v] = "activity"})
<1>5. N = Logging /\ M = Logging'
  BY DEF Logging
<1>6. /\ \A v \in Worker \ {w} : to[v] = at[v]
      /\ at[w] = worker[w].pc /\ to[w] = worker'[w].pc
  OBVIOUS
<1>7. M \in Nat /\ N \in Nat
  BY FS_Subset, FS_CardinalityType
<1>8. (to[w] = "activity" <=> at[w] = "activity") => M = N
  <2>1. ASSUME to[w] = "activity" <=> at[w] = "activity"
        PROVE  {v \in Worker : at[v] = "activity"} = {v \in Worker : to[v] = "activity"}
    BY <1>6, <2>1
  <2>2. QED
    BY <2>1
<1> HIDE DEF at, to
<1>9. to[w] = "activity" /\ at[w] # "activity" => M = N + 1
  BY <1>6, CountMore
<1>10. to[w] # "activity" /\ at[w] = "activity" => N = M + 1
  BY <1>6, CountMore
<1> HIDE DEF N, M
<1>11. QED
  BY <1>3, <1>4, <1>5, <1>6, <1>7, <1>8, <1>9, <1>10

\* One row changes its status.
LEMMA RowMoves ==
    ASSUME NEW l \in Lead, NEW st \in {"sent", "failed"}, \A k \in Lead \ {l} : row'[k] = row[k]
    PROVE  /\ (row'[l] = st <=> row[l] = st) => Rows(st)' = Rows(st)
           /\ row'[l] = st /\ row[l] # st => Rows(st)' = Rows(st) + 1
           /\ row'[l] # st /\ row[l] = st => Rows(st)' = Rows(st) - 1
<1>1. Rows(st) = Cardinality({k \in Lead : row[k] = st})
  BY DEF Rows
<1>2. Rows(st)' = Cardinality({k \in Lead : row'[k] = st})
  BY DEF Rows
<1>3. (row'[l] = st <=> row[l] = st) => {k \in Lead : row[k] = st} = {k \in Lead : row'[k] = st}
  OBVIOUS
<1>4. Rows(st) \in Nat /\ Rows(st)' \in Nat
  BY <1>1, <1>2, CardinalityOfLeads
<1>5. row'[l] = st /\ row[l] # st => Rows(st)' = Rows(st) + 1
  BY <1>1, <1>2, CountMore
<1>6. row'[l] # st /\ row[l] = st => Rows(st) = Rows(st)' + 1
  BY <1>1, <1>2, CountMore
<1>7. QED
  BY <1>1, <1>2, <1>3, <1>4, <1>5, <1>6

\* Requests, the scheduler, coordinators and the surroundings count nothing: the
\* rows they add are pending.
LEMMA ControlCount ==
    ASSUME TypeOK, CountInv,
           \/ \E a \in Admin : AdminNext(a)
           \/ \E b \in Beat : BeatNext(b)
           \/ \E c \in Task : CoordNext(c)
           \/ EnvNext
    PROVE  CountInv'
<1>1. UNCHANGED <<worker, sentCount, failedCount>>
  <2>1. CASE \E a \in Admin : AdminNext(a)
    BY <2>1 DEF AdminNext, LaunchRead, LaunchClaim, LaunchDispatch, LaunchGiveBack,
         LaunchSaveTaskId, PauseRead, PauseRevoke, PauseWrite, RequestCrash, requestFrame
  <2>2. CASE \E b \in Beat : BeatNext(b)
    BY <2>2 DEF BeatNext, SchedScan, SchedRefuse, SchedClaim, SchedDispatch, SchedCrash,
                schedFrame
  <2>3. CASE \E c \in Task : CoordNext(c)
    BY <2>3 DEF CoordNext, CoordStep, CoordStart, CoordDiscard, CoordResolve, CoordRefused,
         CoordCreateRows, CoordSelect, CoordDispatch, CoordFinish, CoordError, CoordCrash,
         CoordKilled, coordFrame
  <2>4. CASE EnvNext
    BY <2>4 DEF EnvNext, LeadJoins, LeadUnreachable, Redeliver, envFrame
  <2>5. QED
    BY <2>1, <2>2, <2>3, <2>4
<1>2. \A l \in Lead : row'[l] = row[l] \/ (row[l] = "none" /\ row'[l] = "pending")
  BY ControlRows
<1>3. Rows("sent")' = Rows("sent") /\ Rows("failed")' = Rows("failed")
  <2>1. /\ {l \in Lead : row'[l] = "sent"} = {l \in Lead : row[l] = "sent"}
        /\ {l \in Lead : row'[l] = "failed"} = {l \in Lead : row[l] = "failed"}
    BY <1>2
  <2>2. QED
    BY <2>1 DEF Rows
<1>4. QED
  BY <1>1, <1>3 DEF CountInv, CountersExact

\* Every step of a chunk that is not lost half-way keeps the books.
LEMMA WorkerCount ==
    ASSUME TypeOK, TypeOK', SendInv, CountInv, NEW w \in Worker, WorkerNext(w), ~ChunkCrash(w)
    PROVE  CountInv'
<1> DEFINE r == worker[w]
           s == worker'[w]
<1>1. /\ worker \in [Worker -> WorkerRec] /\ row \in [Lead -> RowStatuses]
      /\ r \in WorkerRec /\ s \in WorkerRec
      /\ r.sent \in Nat /\ r.failed \in Nat /\ s.sent \in Nat /\ s.failed \in Nat
      /\ sentCount \in Nat /\ failedCount \in Nat /\ sentCount' \in Nat /\ failedCount' \in Nat
  BY DEF TypeOK, WorkerRec
<1>2. /\ Rows("sent") \in Nat /\ Rows("failed") \in Nat /\ Logging \in Nat
      /\ SumFunction(SentDue) \in Nat /\ SumFunction(FailedDue) \in Nat
  BY CountTypes
<1>3. \E q : worker' = [worker EXCEPT ![w] = q]
  BY DEF WorkerNext, WorkerStep, ChunkStart, ChunkSelect, ChunkFailAll, ChunkEndLoop,
         ChunkTake, ChunkSkip, ChunkSend, ChunkMarkSent, ChunkLogActivity, ChunkMarkFailed,
         ChunkTally, ChunkProbe, ChunkClose, ChunkCrash, SetWorker, GoWorker, SentOne, W
<1>4. \A v \in Worker \ {w} : worker'[v] = worker[v]
  BY <1>1, <1>3
<1>5. /\ SumFunction(SentDue)' = SumFunction(SentDue) + s.sent - r.sent
      /\ SumFunction(FailedDue)' = SumFunction(FailedDue) + s.failed - r.failed
      /\ (s.pc = "activity" <=> r.pc = "activity") => Logging' = Logging
      /\ s.pc = "activity" /\ r.pc # "activity" => Logging' = Logging + 1
      /\ s.pc # "activity" /\ r.pc = "activity" => Logging' = Logging - 1
  BY <1>4, DueMoves
<1>6. /\ Rows("sent") = sentCount + SumFunction(SentDue) + Logging
      /\ Rows("failed") = failedCount + SumFunction(FailedDue)
      /\ r.pc \in {"idle", "select", "probe", "close"} => r.sent = 0 /\ r.failed = 0
  BY DEF CountInv, CountersExact, SentDue, FailedDue, Logging
\* What is to be shown of the step.
<1>7. ASSUME Rows("sent")' = sentCount' + SumFunction(SentDue)' + Logging',
             Rows("failed")' = failedCount' + SumFunction(FailedDue)',
             s.pc \in {"idle", "select", "probe", "close"} => s.sent = 0 /\ s.failed = 0
      PROVE  CountInv'
  <2>1. \A v \in Worker : worker'[v].pc \in {"idle", "select", "probe", "close"} =>
                             worker'[v].sent = 0 /\ worker'[v].failed = 0
    BY <1>4, <1>7 DEF CountInv
  <2>2. CountersExact'
    BY <1>7 DEF CountersExact, SentDue, FailedDue, Logging
  <2>3. QED
    BY <2>1, <2>2 DEF CountInv
<1>8. UNCHANGED row => Rows("sent")' = Rows("sent") /\ Rows("failed")' = Rows("failed")
  BY DEF Rows
<1> HIDE DEF SentDue, FailedDue, Logging
\* Steps that count nothing.
<1>9. CASE /\ UNCHANGED <<row, sentCount, failedCount>> /\ s.sent = r.sent /\ s.failed = r.failed
           /\ s.pc # "activity" /\ r.pc # "activity"
           /\ s.pc \in {"idle", "select", "probe", "close"} => s.sent = 0 /\ s.failed = 0
  <2> HIDE DEF r, s
  <2>1. Logging' = Logging
    BY <1>5, <1>9
  <2>2. QED
    BY <1>1, <1>2, <1>5, <1>6, <1>7, <1>8, <1>9, <2>1
<1>10. CASE ChunkStart(w) \/ ChunkSelect(w)
  <2>1. /\ UNCHANGED <<row, sentCount, failedCount>> /\ r.pc \in {"idle", "select"}
        /\ s.sent = 0 /\ s.failed = 0 /\ s.pc # "activity"
    <3>1. CASE ChunkStart(w)
      BY <1>1, <3>1 DEF ChunkStart, SetWorker, IdleWorker, W
    <3>2. CASE ChunkSelect(w)
      BY <1>1, <3>2 DEF ChunkSelect, SetWorker, IdleWorker, W
    <3>3. QED
      BY <1>10, <3>1, <3>2
  <2>2. QED
    BY <1>6, <1>9, <2>1
<1>11. CASE ChunkEndLoop(w) \/ ChunkTake(w) \/ ChunkSend(w) \/ ChunkProbe(w) \/ ChunkClose(w)
  <2>1. /\ UNCHANGED <<row, sentCount, failedCount>> /\ s.sent = r.sent /\ s.failed = r.failed
        /\ s.pc # "activity" /\ r.pc # "activity"
        /\ s.pc \in {"idle", "select", "probe", "close"} => r.pc \in {"probe", "close"}
    <3> USE DEF SetWorker, GoWorker, W, WorkerRec
    <3>1. CASE ChunkEndLoop(w) \/ ChunkSend(w)
      BY <1>1, <3>1 DEF ChunkEndLoop, ChunkSend
    <3>2. CASE ChunkTake(w)
      BY <1>1, <3>2 DEF ChunkTake
    <3>3. CASE ChunkProbe(w)
      BY <1>1, <3>3 DEF ChunkProbe
    <3>4. CASE ChunkClose(w)
      BY <1>1, <3>4 DEF ChunkClose
    <3>5. QED
      BY <1>11, <3>1, <3>2, <3>3, <3>4
  <2>2. QED
    BY <1>6, <1>9, <2>1
<1>12. CASE ChunkFailAll(w)
  <2> DEFINE marked == {l \in r.ids : row[l] = "pending"}
  <2>1. /\ r.pc = "select" /\ row' = [l \in Lead |-> IF l \in marked THEN "failed" ELSE row[l]]
        /\ s.pc = "tally" /\ s.sent = 0 /\ s.failed = Cardinality(marked)
        /\ UNCHANGED <<sentCount, failedCount>>
    BY <1>1, <1>12 DEF ChunkFailAll, SetWorker, IdleWorker, W
  <2>2. marked \subseteq Lead
    BY <1>1 DEF WorkerRec
  <2> HIDE DEF r, s
  <2>3. Rows("sent")' = Rows("sent")
    <3>1. {l \in Lead : row'[l] = "sent"} = {l \in Lead : row[l] = "sent"}
      BY <2>1
    <3>2. QED
      BY <3>1 DEF Rows
  <2>4. Rows("failed")' = Rows("failed") + Cardinality(marked)
    <3> DEFINE A == {l \in Lead : row[l] = "failed"}
    <3>1. A \cap marked = {} /\ A \cup marked = {l \in Lead : row'[l] = "failed"}
      BY <2>1, <2>2
    <3>2. IsFiniteSet(A) /\ IsFiniteSet(marked) /\ Cardinality({}) = 0
      BY <2>2, FS_Subset, FS_EmptySet
    <3>3. Rows("failed") = Cardinality(A) /\ Rows("failed")' = Cardinality(A \cup marked)
      BY <3>1 DEF Rows
    <3>4. Cardinality(A) \in Nat /\ Cardinality(marked) \in Nat
      BY <3>2, FS_CardinalityType
    <3> HIDE DEF A, marked
    <3>5. Cardinality(A \cup marked) = Cardinality(A) + Cardinality(marked) - Cardinality(A \cap marked)
      BY <3>2, FS_Union
    <3>6. Cardinality(A \cap marked) = 0
      BY <3>1, <3>2
    <3>7. QED
      BY <3>3, <3>4, <3>5, <3>6
  <2>5. Cardinality(marked) \in Nat
    BY <2>2, CardinalityOfLeads
  <2> HIDE DEF marked
  <2>6. Logging' = Logging /\ r.sent = 0 /\ r.failed = 0
    BY <1>5, <1>6, <2>1
  <2>7. /\ SumFunction(SentDue)' = SumFunction(SentDue)
        /\ SumFunction(FailedDue)' = SumFunction(FailedDue) + Cardinality(marked)
    BY <1>2, <1>5, <2>1, <2>5, <2>6
  <2>8. QED
    BY <1>1, <1>2, <1>6, <1>7, <2>1, <2>3, <2>4, <2>5, <2>6, <2>7
<1>13. CASE ChunkSkip(w)
  <2>1. PICK l \in r.todo : row' = [row EXCEPT ![l] = "skipped"]
    BY <1>13 DEF ChunkSkip, W
  <2>2. /\ r.pc = "check" /\ s.pc = "check" /\ s.sent = r.sent /\ s.failed = r.failed
        /\ UNCHANGED <<sentCount, failedCount>>
    BY <1>1, <1>13 DEF ChunkSkip, SetWorker, W, WorkerRec
  <2>3. l \in Lead /\ row[l] = "pending" /\ row'[l] = "skipped" /\ \A k \in Lead \ {l} : row'[k] = row[k]
    BY <1>1, <2>1 DEF SendInv, WorkerRec
  <2> HIDE DEF r, s
  <2>4. Rows("sent")' = Rows("sent") /\ Rows("failed")' = Rows("failed")
    BY <2>3, RowMoves
  <2>5. Logging' = Logging
    BY <1>5, <2>2
  <2>6. QED
    BY <1>1, <1>2, <1>5, <1>6, <1>7, <2>2, <2>4, <2>5
<1>14. CASE ChunkMarkSent(w)
  <2>1. /\ r.pc = "accepted" /\ row' = [row EXCEPT ![r.cur] = "sent"] /\ s.failed = r.failed
        /\ UNCHANGED <<sentCount, failedCount>>
        /\ \/ s.pc = "activity" /\ s.sent = r.sent
           \/ s.pc = "check" /\ s.sent = r.sent + 1
    <3>1. CASE Channel = "whatsapp"
      BY <1>1, <1>14, <3>1 DEF ChunkMarkSent, GoWorker, W, WorkerRec
    <3>2. CASE Channel # "whatsapp"
      <4>1. /\ r.pc = "accepted" /\ row' = [row EXCEPT ![r.cur] = "sent"]
            /\ worker' = [worker EXCEPT ![w] = [r EXCEPT !.pc = "check", !.cur = NoLead, !.sent = r.sent + 1]]
            /\ UNCHANGED <<sentCount, failedCount>>
        BY <1>14, <3>2 DEF ChunkMarkSent, SentOne, SetWorker, W
      <4>2. s = [r EXCEPT !.pc = "check", !.cur = NoLead, !.sent = r.sent + 1]
        BY <1>1, <4>1
      <4>3. s.pc = "check" /\ s.sent = r.sent + 1 /\ s.failed = r.failed
        BY <1>1, <4>2 DEF WorkerRec
      <4>4. QED
        BY <4>1, <4>3
    <3>3. QED
      BY <3>1, <3>2
  <2>2. /\ r.cur \in Lead /\ row[r.cur] = "pending" /\ row'[r.cur] = "sent"
        /\ \A k \in Lead \ {r.cur} : row'[k] = row[k]
    BY <1>1, <2>1 DEF SendInv
  <2> HIDE DEF r, s
  <2>3. Rows("sent")' = Rows("sent") + 1 /\ Rows("failed")' = Rows("failed")
    BY <2>2, RowMoves
  <2>4. s.pc = "activity" => Logging' = Logging + 1
    BY <1>5, <2>1
  <2>5. s.pc = "check" => Logging' = Logging
    BY <1>5, <2>1
  <2>6. QED
    BY <1>1, <1>2, <1>5, <1>6, <1>7, <2>1, <2>3, <2>4, <2>5
<1>15. CASE ChunkLogActivity(w)
  <2>1. /\ r.pc = "activity" /\ s.pc = "check" /\ s.sent = r.sent + 1 /\ s.failed = r.failed
        /\ UNCHANGED <<row, sentCount, failedCount>>
    BY <1>1, <1>15 DEF ChunkLogActivity, SentOne, SetWorker, W, WorkerRec
  <2> HIDE DEF r, s
  <2>2. Logging' = Logging - 1
    BY <1>5, <2>1
  <2>3. QED
    BY <1>1, <1>2, <1>5, <1>6, <1>7, <1>8, <2>1, <2>2
<1>16. CASE ChunkMarkFailed(w)
  <2>1. /\ r.pc \in {"send", "accepted", "activity"} /\ row' = [row EXCEPT ![r.cur] = "failed"]
        /\ s.pc = "check" /\ s.sent = r.sent /\ s.failed = r.failed + 1
        /\ UNCHANGED <<sentCount, failedCount>>
    BY <1>1, <1>16 DEF ChunkMarkFailed, SetWorker, W, WorkerRec
  <2>2. /\ r.cur \in Lead /\ row'[r.cur] = "failed"
        /\ row[r.cur] = (IF r.pc = "activity" THEN "sent" ELSE "pending")
        /\ \A k \in Lead \ {r.cur} : row'[k] = row[k]
    BY <1>1, <2>1 DEF SendInv
  <2> HIDE DEF r, s
  <2>3. /\ Rows("failed")' = Rows("failed") + 1
        /\ Rows("sent")' = IF r.pc = "activity" THEN Rows("sent") - 1 ELSE Rows("sent")
    BY <2>2, RowMoves
  <2>4. Logging' = IF r.pc = "activity" THEN Logging - 1 ELSE Logging
    BY <1>5, <2>1
  <2>5. QED
    BY <1>1, <1>2, <1>5, <1>6, <1>7, <2>1, <2>3, <2>4
<1>17. CASE ChunkTally(w)
  <2>1. /\ r.pc = "tally" /\ s.pc = "probe" /\ s.sent = 0 /\ s.failed = 0 /\ UNCHANGED row
        /\ sentCount' = sentCount + r.sent /\ failedCount' = failedCount + r.failed
    BY <1>1, <1>17 DEF ChunkTally, AddToCounter, SetWorker, IdleWorker, W
  <2> HIDE DEF r, s
  <2>2. Logging' = Logging
    BY <1>5, <2>1
  <2>3. QED
    BY <1>1, <1>2, <1>5, <1>6, <1>7, <1>8, <2>1, <2>2
<1>18. QED
  BY <1>10, <1>11, <1>12, <1>13, <1>14, <1>15, <1>16, <1>17 DEF WorkerNext, WorkerStep

\* The books are right until the first fault: a lost worker takes with it what
\* its chunk had yet to add.
CountUntilFault == faults = 0 => CountInv

LEMMA CountStep ==
    /\ Init => CountUntilFault
    /\ TypeOK /\ TypeOK' /\ SendUntilFault /\ CountUntilFault /\ [Next]_vars => CountUntilFault'
<1>1. ASSUME Init PROVE CountInv
  <2>1. /\ row = [l \in Lead |-> "none"] /\ sentCount = 0 /\ failedCount = 0
        /\ worker = [w \in Worker |-> IdleWorker]
    BY <1>1 DEF Init
  <2>2. {l \in Lead : row[l] = "sent"} = {} /\ {l \in Lead : row[l] = "failed"} = {}
    BY <2>1
  <2>3. /\ DOMAIN SentDue = Worker /\ DOMAIN FailedDue = Worker
        /\ \A w \in Worker : SentDue[w] = 0 /\ FailedDue[w] = 0
        /\ {w \in Worker : worker[w].pc = "activity"} = {}
    BY <2>1 DEF SentDue, FailedDue, IdleWorker
  <2>4. Rows("sent") = 0 /\ Rows("failed") = 0 /\ Logging = 0
    BY <2>2, <2>3, FS_EmptySet DEF Rows, Logging
  <2> HIDE DEF SentDue, FailedDue
  <2>5. SumFunction(SentDue) = 0 /\ SumFunction(FailedDue) = 0
    BY <2>3, SumZero DEF SumFunction
  <2>6. CountersExact
    BY <2>1, <2>4, <2>5 DEF CountersExact, SentDue, FailedDue, Logging
  <2>7. QED
    BY <2>1, <2>6 DEF CountInv, IdleWorker
<1>2. ASSUME TypeOK, TypeOK', SendUntilFault, CountUntilFault, [Next]_vars, faults' = 0
      PROVE  CountInv'
  <2>1. SendInv /\ CountInv /\ \A w \in Worker : ~ChunkCrash(w)
    BY <1>2, FaultsGrow DEF SendUntilFault, CountUntilFault
  <2>2. CASE UNCHANGED vars
    BY <2>1, <2>2 DEF CountInv, CountersExact, Rows, vars
  <2>3. CASE Next
    BY <1>2, <2>1, <2>3, ControlCount, WorkerCount DEF Next
  <2>4. QED
    BY <1>2, <2>2, <2>3
<1>3. QED
  BY <1>1, <1>2 DEF CountUntilFault

\* With one bulk_ops worker the counters account for every processed recipient
\* until a process is lost, whatever pauses, relaunches and redelivered chunk
\* messages there are.
THEOREM OneWorkerCounts ==
    ASSUME \A v, w \in Worker : v = w
    PROVE  Spec => [](faults = 0 => CountersExact)
<1>1. Exclusive
  BY DEF Exclusive
<1>2. CountUntilFault => (faults = 0 => CountersExact)
  BY DEF CountUntilFault, CountInv
<1>3. Init => SendUntilFault /\ CountUntilFault
  BY SendStep, CountStep
<1>4. TypeOK /\ TypeOK' /\ SendUntilFault /\ CountUntilFault /\ [Next]_vars
        => SendUntilFault' /\ CountUntilFault'
  BY <1>1, SendStep, CountStep
<1>5. QED
  BY <1>2, <1>3, <1>4, TypeCorrect, PTL DEF Spec

\* So do those of a campaign that is launched once and whose messages are
\* delivered once, with any number of workers.
THEOREM OneLaunchCounts ==
    ASSUME MaxLaunches <= 1, MaxCopies = 0
    PROVE  Spec => [](faults = 0 => CountersExact)
<1>1. Init => SendUntilFault /\ PartitionInv /\ CountUntilFault
  BY SendStep, PartitionStep, CountStep
<1>2. TypeOK /\ PartitionInv /\ [Next]_vars => PartitionInv'
  BY PartitionStep
<1>3. TypeOK /\ TypeOK' /\ SendUntilFault /\ PartitionInv /\ CountUntilFault /\ [Next]_vars
        => SendUntilFault' /\ CountUntilFault'
  BY SendStep, CountStep DEF PartitionInv
<1>4. CountUntilFault => (faults = 0 => CountersExact)
  BY DEF CountUntilFault, CountInv
<1>5. QED
  BY <1>1, <1>2, <1>3, <1>4, TypeCorrect, PTL DEF Spec

-----------------------------------------------------------------------------
(* The refinement: rows and hands, read as letters, only move as an Outreach *)
(* lets them, until a process is lost.                                      *)

Letters == [l \in Lead |-> Letter(l)]
Open == status \notin HALTED_STATUSES
OutreachStep == [Abstract!Next]_(Abstract!vars)

\* A step that moves no letter may switch the campaign.
LEMMA SwitchSteps ==
    ASSUME UNCHANGED delivered, \A l \in Lead : Letter(l)' = Letter(l)
    PROVE  OutreachStep
<1>1. Letters' = Letters
  BY DEF Letters
<1>2. Open' = Open \/ Open' = ~Open
  BY DEF Open
<1>3. QED
  BY <1>1, <1>2 DEF OutreachStep, Abstract!Next, Abstract!vars, Abstract!Switch, Letters, Open

LEMMA EnrolSteps ==
    ASSUME NEW S \in SUBSET Lead, UNCHANGED <<delivered, status>>,
           \A l \in S : Letter(l) = "none",
           \A l \in Lead : Letter(l)' = IF l \in S THEN "waiting" ELSE Letter(l)
    PROVE  OutreachStep
<1>1. Letters' = [l \in Lead |-> IF l \in S THEN "waiting" ELSE Letters[l]]
  BY DEF Letters
<1>2. \A l \in S : Letters[l] \in {"none"}
  BY DEF Letters
<1>3. Abstract!Enrol(S)
  BY <1>1, <1>2 DEF Abstract!Enrol, Abstract!Move, Letters
<1>4. QED
  BY <1>3 DEF OutreachStep, Abstract!Next

LEMMA CloseSteps ==
    ASSUME NEW S \in SUBSET Lead, UNCHANGED <<delivered, status>>,
           \A l \in S : Letter(l) \in {"waiting", "taken", "out"},
           \A l \in Lead : Letter(l)' = IF l \in S THEN "closed" ELSE Letter(l)
    PROVE  OutreachStep
<1>1. Letters' = [l \in Lead |-> IF l \in S THEN "closed" ELSE Letters[l]]
  BY DEF Letters
<1>2. \A l \in S : Letters[l] \in {"waiting", "taken", "out"}
  BY DEF Letters
<1>3. Abstract!Close(S)
  BY <1>1, <1>2 DEF Abstract!Close, Abstract!Move, Letters
<1>4. QED
  BY <1>3 DEF OutreachStep, Abstract!Next

LEMMA TakeSteps ==
    ASSUME NEW k \in Lead, UNCHANGED <<delivered, status>>, ~Halted,
           Letter(k) = "waiting",
           \A l \in Lead : Letter(l)' = IF l = k THEN "taken" ELSE Letter(l)
    PROVE  OutreachStep
<1>1. Letters' = [l \in Lead |-> IF l \in {k} THEN "taken" ELSE Letters[l]]
  BY DEF Letters
<1>2. \A l \in {k} : Letters[l] \in {"waiting"}
  BY DEF Letters
<1>3. Abstract!Take(k)
  BY <1>1, <1>2 DEF Abstract!Take, Abstract!Move, Letters, Halted
<1>4. QED
  BY <1>3 DEF OutreachStep, Abstract!Next

LEMMA DeliverSteps ==
    ASSUME NEW k \in Lead, UNCHANGED status,
           delivered' = [delivered EXCEPT ![k] = @ + 1],
           Letter(k) = "taken",
           \A l \in Lead : Letter(l)' = IF l = k THEN "out" ELSE Letter(l)
    PROVE  OutreachStep
<1>1. Letters' = [l \in Lead |-> IF l \in {k} THEN "out" ELSE Letters[l]]
  BY DEF Letters
<1>2. \A l \in {k} : Letters[l] \in {"taken"}
  BY DEF Letters
<1>3. Abstract!Deliver(k)
  BY <1>1, <1>2 DEF Abstract!Deliver, Abstract!Move, Letters
<1>4. QED
  BY <1>3 DEF OutreachStep, Abstract!Next

\* A row in nobody's hands, before and after, has the letter its status says.
LEMMA SameLetter ==
    ASSUME NEW l \in Lead, row'[l] = row[l],
           InHand(l, "send")' <=> InHand(l, "send"), InHand(l, "accepted")' <=> InHand(l, "accepted")
    PROVE  Letter(l)' = Letter(l)
BY DEF Letter

\* Requests, the scheduler, coordinators and the surroundings enrol recipients
\* or switch the campaign.
LEMMA ControlSimulates ==
    ASSUME TypeOK, SendInv,
           \/ \E a \in Admin : AdminNext(a)
           \/ \E b \in Beat : BeatNext(b)
           \/ \E c \in Task : CoordNext(c)
           \/ EnvNext
    PROVE  OutreachStep
<1>1. UNCHANGED <<worker, delivered>>
  <2>1. CASE \E a \in Admin : AdminNext(a)
    BY <2>1 DEF AdminNext, LaunchRead, LaunchClaim, LaunchDispatch, LaunchGiveBack,
         LaunchSaveTaskId, PauseRead, PauseRevoke, PauseWrite, RequestCrash, requestFrame
  <2>2. CASE \E b \in Beat : BeatNext(b)
    BY <2>2 DEF BeatNext, SchedScan, SchedRefuse, SchedClaim, SchedDispatch, SchedCrash,
                schedFrame
  <2>3. CASE \E c \in Task : CoordNext(c)
    BY <2>3 DEF CoordNext, CoordStep, CoordStart, CoordDiscard, CoordResolve, CoordRefused,
         CoordCreateRows, CoordSelect, CoordDispatch, CoordFinish, CoordError, CoordCrash,
         CoordKilled, coordFrame
  <2>4. CASE EnvNext
    BY <2>4 DEF EnvNext, LeadJoins, LeadUnreachable, Redeliver, envFrame
  <2>5. QED
    BY <2>1, <2>2, <2>3, <2>4
<1>2. \A l \in Lead, pc \in {"send", "accepted"} : InHand(l, pc)' <=> InHand(l, pc)
  BY <1>1 DEF InHand
<1>3. CASE UNCHANGED row
  <2>1. \A l \in Lead : Letter(l)' = Letter(l)
    BY <1>2, <1>3, SameLetter
  <2>2. QED
    BY <1>1, <2>1, SwitchSteps
<1>4. ASSUME NEW c \in Task, CoordCreateRows(c)
      PROVE  OutreachStep
  <2> DEFINE S == {l \in coord[c].leads : row[l] = "none"}
  <2>1. row' = NewRows(coord[c].leads) /\ UNCHANGED status
    BY <1>4 DEF CoordCreateRows
  <2>2. S \in SUBSET Lead
    BY DEF TypeOK, CoordRec
  <2>3. \A l \in S : row[l] = "none" /\ row'[l] = "pending"
    BY <2>1, <2>2 DEF NewRows
  <2>4. \A l \in Lead \ S : row'[l] = row[l]
    BY <2>1 DEF NewRows
  <2> HIDE DEF S
  <2>5. ASSUME NEW l \in S PROVE Letter(l) = "none" /\ Letter(l)' = "waiting"
    <3>1. ~InHand(l, "send") /\ ~InHand(l, "accepted")
      BY <2>3, <2>5 DEF SendInv, InHand
    <3>2. ~InHand(l, "send")' /\ ~InHand(l, "accepted")'
      BY <1>2, <2>2, <2>5, <3>1
    <3>3. QED
      BY <2>3, <2>5, <3>2 DEF Letter
  <2>6. ASSUME NEW l \in Lead \ S PROVE Letter(l)' = Letter(l)
    BY <1>2, <2>4, <2>6, SameLetter
  <2>7. QED
    BY <1>1, <2>1, <2>2, <2>5, <2>6, EnrolSteps
<1>5. UNCHANGED row \/ \E c \in Task : CoordCreateRows(c)
  <2>1. CASE \E a \in Admin : AdminNext(a)
    BY <2>1 DEF AdminNext, LaunchRead, LaunchClaim, LaunchDispatch, LaunchGiveBack,
         LaunchSaveTaskId, PauseRead, PauseRevoke, PauseWrite, RequestCrash, requestFrame
  <2>2. CASE \E b \in Beat : BeatNext(b)
    BY <2>2 DEF BeatNext, SchedScan, SchedRefuse, SchedClaim, SchedDispatch, SchedCrash,
                schedFrame
  <2>3. CASE \E c \in Task : CoordNext(c)
    BY <2>3 DEF CoordNext, CoordStep, CoordStart, CoordDiscard, CoordResolve, CoordRefused,
         CoordSelect, CoordDispatch, CoordFinish, CoordError, CoordCrash, CoordKilled
  <2>4. CASE EnvNext
    BY <2>4 DEF EnvNext, LeadJoins, LeadUnreachable, Redeliver, envFrame
  <2>5. QED
    BY <2>1, <2>2, <2>3, <2>4
<1>6. QED
  BY <1>3, <1>4, <1>5

\* A chunk takes letters, delivers them and closes them.
LEMMA WorkerSimulates ==
    ASSUME TypeOK, SendInv, Exclusive, NEW w \in Worker, WorkerNext(w), ~ChunkCrash(w)
    PROVE  OutreachStep
<1>1. /\ worker \in [Worker -> WorkerRec] /\ row \in [Lead -> RowStatuses]
      /\ delivered \in [Lead -> Nat]
  BY DEF TypeOK
<1>2. /\ worker[w].ids \subseteq Lead /\ worker[w].todo \subseteq Lead
      /\ worker[w].cur \in Lead \cup {NoLead}
      /\ worker[w] = [pc |-> worker[w].pc, ids |-> worker[w].ids, todo |-> worker[w].todo,
                      noAddress |-> worker[w].noAddress, cur |-> worker[w].cur,
                      sent |-> worker[w].sent, failed |-> worker[w].failed]
  BY <1>1 DEF WorkerRec
<1>3. \E r : worker' = [worker EXCEPT ![w] = r]
  BY DEF WorkerNext, WorkerStep, ChunkStart, ChunkSelect, ChunkFailAll, ChunkEndLoop,
         ChunkTake, ChunkSkip, ChunkSend, ChunkMarkSent, ChunkLogActivity, ChunkMarkFailed,
         ChunkTally, ChunkProbe, ChunkClose, ChunkCrash, SetWorker, GoWorker, SentOne, W
<1>4. \A v \in Worker \ {w} : worker'[v] = worker[v]
  BY <1>1, <1>3
\* Who holds a recipient: this worker or another one, and never both.
<1> DEFINE Own(l, pc) == worker[w].cur = l /\ worker[w].pc = pc
           Others(l, pc) == \E v \in Worker \ {w} : worker[v].cur = l /\ worker[v].pc = pc
<1>5. \A l, pc : (InHand(l, pc) <=> Own(l, pc) \/ Others(l, pc))
  BY DEF InHand
<1>6. \A l, pc : (InHand(l, pc)' <=> Own(l, pc)' \/ Others(l, pc))
  BY <1>4 DEF InHand
<1>7. \A l \in Lead \cap Holds(w) : \A pc : ~Others(l, pc)
  BY DEF Exclusive, Holds
<1> HIDE DEF Others
\* A step that leaves what this worker has in hand alone.
<1>8. ASSUME NEW l \in Lead, row'[l] = row[l],
             \A pc \in {"send", "accepted"} : Own(l, pc)' <=> Own(l, pc)
      PROVE  Letter(l)' = Letter(l)
  BY <1>5, <1>6, <1>8, SameLetter
<1> USE DEF SetWorker, GoWorker, W, IdleWorker
<1>9. ASSUME UNCHANGED <<row, delivered>>, worker[w].pc \notin {"send", "accepted"},
             worker'[w].pc \notin {"send", "accepted"}
      PROVE  OutreachStep
  <2>1. \A l \in Lead : Letter(l)' = Letter(l)
    BY <1>8, <1>9
  <2>2. QED
    BY <1>9, <2>1, SwitchSteps
<1>10. CASE ChunkStart(w)
  <2>1. PICK m \in chunkQ :
            worker' = [worker EXCEPT ![w] = IF Halted THEN IdleWorker
                                            ELSE [IdleWorker EXCEPT !.pc = "select", !.ids = m.ids]]
    BY <1>10 DEF ChunkStart
  <2>2. worker'[w].pc \in {"idle", "select"}
    BY <1>1, <2>1
  <2>3. UNCHANGED <<row, delivered>> /\ worker[w].pc = "idle"
    BY <1>10 DEF ChunkStart
  <2>4. QED
    BY <1>9, <2>2, <2>3
<1>11. CASE ChunkSelect(w) \/ ChunkTally(w)
  <2>1. UNCHANGED <<row, delivered>> /\ worker[w].pc \in {"select", "tally"}
    BY <1>11 DEF ChunkSelect, ChunkTally
  <2>2. CASE ChunkSelect(w)
    <3>1. worker'[w].pc = "check"
      BY <1>1, <2>2 DEF ChunkSelect
    <3>2. QED
      BY <1>9, <2>1, <3>1
  <2>3. CASE ChunkTally(w)
    <3>1. worker'[w].pc = "probe"
      BY <1>1, <2>3 DEF ChunkTally
    <3>2. QED
      BY <1>9, <2>1, <3>1
  <2>4. QED
    BY <1>11, <2>2, <2>3
<1>12. CASE ChunkEndLoop(w) \/ ChunkProbe(w) \/ ChunkClose(w)
  <2>1. /\ UNCHANGED <<row, delivered>> /\ worker[w].pc \in {"check", "probe", "close"}
        /\ \E pc \in {"tally", "close", "idle"} : worker' = [worker EXCEPT ![w].pc = pc]
    BY <1>12 DEF ChunkEndLoop, ChunkProbe, ChunkClose
  <2>2. worker'[w].pc \in {"tally", "close", "idle"}
    BY <1>1, <1>2, <2>1
  <2>3. QED
    BY <1>9, <2>1, <2>2
<1>13. CASE ChunkLogActivity(w)
  <2>1. /\ UNCHANGED <<row, delivered>> /\ worker[w].pc = "activity"
        /\ worker' = [worker EXCEPT ![w] = [W(w) EXCEPT !.pc = "check", !.cur = NoLead, !.sent = @ + 1]]
    BY <1>13 DEF ChunkLogActivity, SentOne
  <2>2. worker'[w].pc = "check"
    BY <1>1, <1>2, <2>1
  <2>3. QED
    BY <1>9, <2>1, <2>2
\* A pending row's letter is not closed; a processed one's is.
<1>14. ASSUME NEW l \in Lead, row[l] = "pending"
       PROVE  Letter(l) \in {"waiting", "taken", "out"}
  BY <1>14 DEF Letter
<1>15. ASSUME NEW l \in Lead, row'[l] \in {"sent", "failed", "skipped"}
       PROVE  Letter(l)' = "closed"
  BY <1>15 DEF Letter
<1>16. CASE ChunkFailAll(w)
  <2> DEFINE S == {l \in worker[w].ids : row[l] = "pending"}
  <2>1. /\ worker[w].pc = "select" /\ UNCHANGED <<delivered, status>>
        /\ worker'[w].pc = "tally"
        /\ row' = [l \in Lead |-> IF l \in S THEN "failed" ELSE row[l]]
    BY <1>1, <1>16 DEF ChunkFailAll
  <2>2. S \in SUBSET Lead /\ \A l \in S : row[l] = "pending"
    BY <1>2
  <2> HIDE DEF S
  <2>3. \A l \in S : Letter(l) \in {"waiting", "taken", "out"}
    BY <1>14, <2>2
  <2>4. \A l \in S : Letter(l)' = "closed"
    BY <1>15, <2>1, <2>2
  <2>5. \A l \in Lead \ S : Letter(l)' = Letter(l)
    BY <1>8, <2>1
  <2>6. QED
    BY <2>1, <2>2, <2>3, <2>4, <2>5, CloseSteps
<1>17. CASE ChunkTake(w)
  <2>1. PICK l \in worker[w].todo : worker' = [worker EXCEPT ![w] =
                      [W(w) EXCEPT !.pc = "send", !.cur = l, !.todo = @ \ {l}]]
    BY <1>17 DEF ChunkTake
  <2>2. worker'[w].pc = "send" /\ worker'[w].cur = l
    BY <1>1, <1>2, <2>1
  <2>3. /\ worker[w].pc = "check" /\ ~Halted /\ UNCHANGED <<row, delivered, status>>
    BY <1>17 DEF ChunkTake, StopNow
  <2>4. l \in Lead /\ l \in Holds(w) /\ row[l] = "pending"
    BY <1>2 DEF Holds, SendInv
  <2>5. ~Others(l, "send") /\ ~Others(l, "accepted")
    BY <1>7, <2>4
  <2>6. ~InHand(l, "send") /\ ~InHand(l, "accepted")
    BY <1>5, <2>3, <2>5
  <2>7. InHand(l, "send")' /\ ~InHand(l, "accepted")'
    BY <1>6, <2>2, <2>5
  <2>8. Letter(l) = "waiting" /\ Letter(l)' = "taken"
    BY <2>3, <2>4, <2>6, <2>7 DEF Letter
  <2>9. \A k \in Lead \ {l} : Letter(k)' = Letter(k)
    BY <1>8, <2>2, <2>3
  <2>10. QED
    BY <2>3, <2>4, <2>8, <2>9, TakeSteps
<1>18. CASE ChunkSkip(w)
  <2>1. PICK l \in worker[w].todo :
              /\ row' = [row EXCEPT ![l] = "skipped"]
              /\ worker' = [worker EXCEPT ![w] = [W(w) EXCEPT !.todo = @ \ {l}]]
    BY <1>18 DEF ChunkSkip
  <2>2. /\ worker[w].pc = "check" /\ UNCHANGED <<delivered, status>>
    BY <1>18 DEF ChunkSkip
  <2>3. worker'[w].pc = "check"
    BY <1>1, <1>2, <2>1, <2>2
  <2>4. l \in Lead /\ row[l] = "pending"
    BY <1>2 DEF SendInv
  <2>5. row'[l] = "skipped" /\ \A k \in Lead \ {l} : row'[k] = row[k]
    BY <1>1, <2>1, <2>4
  <2>6. Letter(l) \in {"waiting", "taken", "out"} /\ Letter(l)' = "closed"
    BY <1>14, <1>15, <2>4, <2>5
  <2>7. \A k \in Lead \ {l} : Letter(k)' = Letter(k)
    BY <1>8, <2>2, <2>3, <2>5
  <2>8. {l} \in SUBSET Lead
    BY <2>4
  <2>9. QED
    BY <2>2, <2>6, <2>7, <2>8, CloseSteps
<1>19. CASE ChunkSend(w)
  <2>1. PICK l : l = worker[w].cur
    OBVIOUS
  <2>2. /\ worker[w].pc = "send" /\ UNCHANGED <<row, status>>
        /\ delivered' = [delivered EXCEPT ![l] = @ + 1]
    BY <1>19, <2>1 DEF ChunkSend
  <2>3. l \in Lead /\ row[l] = "pending" /\ l \in Holds(w)
    BY <2>1, <2>2 DEF SendInv, Holds
  <2>4. worker'[w].pc = "accepted" /\ worker'[w].cur = l
    BY <1>1, <1>2, <1>19, <2>1 DEF ChunkSend
  <2>5. ~Others(l, "send") /\ ~Others(l, "accepted")
    BY <1>7, <2>3
  <2>6. InHand(l, "send") /\ ~InHand(l, "accepted")
    BY <1>5, <2>1, <2>2, <2>5
  <2>7. ~InHand(l, "send")' /\ InHand(l, "accepted")'
    BY <1>6, <2>4, <2>5
  <2>8. Letter(l) = "taken" /\ Letter(l)' = "out"
    BY <2>2, <2>3, <2>6, <2>7 DEF Letter
  <2>9. \A k \in Lead \ {l} : Letter(k)' = Letter(k)
    BY <1>8, <2>1, <2>2, <2>4
  <2>10. QED
    BY <2>2, <2>3, <2>8, <2>9, DeliverSteps
\* What becomes of the recipient in hand: sent or failed.
<1>20. ASSUME ChunkMarkSent(w) \/ ChunkMarkFailed(w) PROVE OutreachStep
  <2>1. PICK l : l = worker[w].cur
    OBVIOUS
  <2>2. /\ worker[w].pc \in {"send", "accepted", "activity"} /\ UNCHANGED <<delivered, status>>
        /\ row' = [row EXCEPT ![l] = "sent"] \/ row' = [row EXCEPT ![l] = "failed"]
    BY <1>20, <2>1 DEF ChunkMarkSent, ChunkMarkFailed
  <2>3. l \in Lead /\ row[l] \in {"pending", "sent"}
    BY <2>1, <2>2 DEF SendInv
  <2>4. row'[l] \in {"sent", "failed"} /\ \A k \in Lead \ {l} : row'[k] = row[k]
    BY <1>1, <2>2, <2>3
  <2>5. Letter(l)' = "closed"
    BY <1>15, <2>3, <2>4
  <2>6. worker'[w].pc \notin {"send", "accepted"}
    <3>1. \/ worker' = [worker EXCEPT ![w].pc = "activity"]
          \/ worker' = [worker EXCEPT ![w] = [W(w) EXCEPT !.pc = "check", !.cur = NoLead, !.sent = @ + 1]]
          \/ worker' = [worker EXCEPT ![w] = [W(w) EXCEPT !.pc = "check", !.cur = NoLead, !.failed = @ + 1]]
      BY <1>20 DEF ChunkMarkSent, ChunkMarkFailed, SentOne
    <3>2. CASE worker' = [worker EXCEPT ![w].pc = "activity"]
      BY <1>1, <1>2, <3>2
    <3>3. CASE worker' = [worker EXCEPT ![w] = [W(w) EXCEPT !.pc = "check", !.cur = NoLead, !.sent = @ + 1]]
      BY <1>1, <1>2, <3>3
    <3>4. CASE worker' = [worker EXCEPT ![w] = [W(w) EXCEPT !.pc = "check", !.cur = NoLead, !.failed = @ + 1]]
      BY <1>1, <1>2, <3>4
    <3>5. QED
      BY <3>1, <3>2, <3>3, <3>4
  <2>7. \A k \in Lead \ {l} : Letter(k)' = Letter(k)
    BY <1>8, <2>1, <2>4, <2>6
  <2>8. CASE row[l] = "pending"
    <3>1. Letter(l) \in {"waiting", "taken", "out"}
      BY <1>14, <2>3, <2>8
    <3>2. {l} \in SUBSET Lead
      BY <2>3
    <3>3. QED
      BY <2>2, <2>5, <2>7, <3>1, <3>2, CloseSteps
  <2>9. CASE row[l] = "sent"
    <3>1. Letter(l) = "closed"
      BY <2>9 DEF Letter
    <3>2. QED
      BY <2>2, <2>5, <2>7, <3>1, SwitchSteps
  <2>10. QED
    BY <2>3, <2>8, <2>9
<1>21. QED
  BY <1>10, <1>11, <1>12, <1>13, <1>16, <1>17, <1>18, <1>19, <1>20 DEF WorkerNext, WorkerStep

\* Every step but a lost process, and the initial states.
LEMMA Simulates ==
    /\ Init => Abstract!Init
    /\ TypeOK /\ SendUntilFault /\ Exclusive /\ [Next]_vars => (faults' = 0 => OutreachStep)
<1>1. Init => Abstract!Init
  <2> SUFFICES ASSUME Init PROVE Abstract!Init
    OBVIOUS
  <2>1. \A l \in Lead : Letter(l) = "none"
    BY DEF Init, Letter
  <2>2. status \notin HALTED_STATUSES /\ delivered = [l \in Lead |-> 0]
    BY DEF Init, HALTED_STATUSES
  <2>3. QED
    BY <2>1, <2>2 DEF Abstract!Init
<1>2. ASSUME TypeOK, SendUntilFault, Exclusive, [Next]_vars, faults' = 0 PROVE OutreachStep
  <2>1. SendInv /\ \A w \in Worker : ~ChunkCrash(w)
    BY <1>2, FaultsGrow DEF SendUntilFault
  <2>2. CASE UNCHANGED vars
    <3>1. \A l \in Lead : Letter(l)' = Letter(l)
      BY <2>2, SameLetter DEF vars, InHand
    <3>2. QED
      BY <2>2, <3>1, SwitchSteps DEF vars
  <2>3. CASE Next
    BY <1>2, <2>1, <2>3, ControlSimulates, WorkerSimulates DEF Next
  <2>4. QED
    BY <1>2, <2>2, <2>3
<1>3. QED
  BY <1>1, <1>2

\* With one bulk_ops worker a campaign is an Outreach up to the first fault,
\* whatever pauses, relaunches and redelivered messages there are: nobody is
\* taken after a stop, nobody is sent a second copy, nothing is reopened.
THEOREM OneWorkerOutreach ==
    ASSUME \A v, w \in Worker : v = w
    PROVE  Spec => OutreachUntilFault
<1>1. Exclusive
  BY DEF Exclusive
<1>2. Init => SendUntilFault /\ Abstract!Init
  BY SendStep, Simulates
<1>3. TypeOK /\ SendUntilFault /\ [Next]_vars => SendUntilFault'
  BY <1>1, SendStep
<1>4. TypeOK /\ SendUntilFault /\ [Next]_vars => [faults' = 0 => Abstract!Next]_(Abstract!vars)
  BY <1>1, Simulates DEF OutreachStep
<1>5. QED
  BY <1>2, <1>3, <1>4, TypeCorrect, PTL DEF Spec, OutreachUntilFault

\* So is a campaign that is launched once and whose messages are delivered once,
\* with any number of workers.
THEOREM OneLaunchUntilFault ==
    ASSUME MaxLaunches <= 1, MaxCopies = 0
    PROVE  Spec => OutreachUntilFault
<1>1. Init => SendUntilFault /\ PartitionInv /\ Abstract!Init
  BY SendStep, PartitionStep, Simulates
<1>2. TypeOK /\ PartitionInv /\ [Next]_vars => PartitionInv'
  BY PartitionStep
<1>3. TypeOK /\ SendUntilFault /\ PartitionInv /\ [Next]_vars => SendUntilFault'
  BY SendStep DEF PartitionInv
<1>4. TypeOK /\ SendUntilFault /\ PartitionInv /\ [Next]_vars
        => [faults' = 0 => Abstract!Next]_(Abstract!vars)
  BY Simulates DEF OutreachStep, PartitionInv
<1>5. QED
  BY <1>1, <1>2, <1>3, <1>4, TypeCorrect, PTL DEF Spec, OutreachUntilFault

\* A campaign that is launched once, without faults or redelivered messages,
\* implements the Outreach with any number of workers and pauses.
THEOREM OneLaunchOutreach ==
    ASSUME MaxLaunches <= 1, MaxCopies = 0, MaxFaults = 0
    PROVE  Spec => ImplementsOutreach
<1> DEFINE Faultless == faults = 0
<1>1. Init => SendUntilFault /\ PartitionInv /\ Faultless /\ Abstract!Init
  BY SendStep, PartitionStep, Simulates DEF Init
<1>2. TypeOK /\ PartitionInv /\ [Next]_vars => PartitionInv'
  BY PartitionStep
<1>3. TypeOK /\ SendUntilFault /\ PartitionInv /\ [Next]_vars => SendUntilFault'
  BY SendStep DEF PartitionInv
<1>4. Faultless /\ [Next]_vars => Faultless'
  BY FaultStep
<1>5. TypeOK /\ SendUntilFault /\ PartitionInv /\ Faultless /\ [Next]_vars
        => [Abstract!Next]_(Abstract!vars)
  BY <1>4, Simulates DEF OutreachStep, PartitionInv
<1> HIDE DEF Faultless
<1>6. Spec => Abstract!Init /\ [][Abstract!Next]_(Abstract!vars)
  BY <1>1, <1>2, <1>3, <1>4, <1>5, TypeCorrect, PTL DEF Spec
<1>7. QED
  BY <1>6 DEF ImplementsOutreach, Abstract!Spec
=============================================================================

-------------------------- MODULE Messages_proofs --------------------------
(***************************************************************************)
(* Safety of Messages for any number of sends, copies, messages, ads,      *)
(* handlers, retries and deliveries.                                       *)
(***************************************************************************)
EXTENDS Messages, FiniteSetTheorems, SequenceTheorems, WellFoundedInduction, TLAPS

USE OutboxAssumption, InboxAssumption

-----------------------------------------------------------------------------
(* Type correctness: TypeOK is inductive with what it leaves open, that     *)
(* leads, threads and rows are sequences, that at most one thread is open   *)
(* (so there is a latest one) and that the sender at the record of a copy   *)
(* has one.                                                                 *)

OneOpen(ts) == \A t, u \in OpenThreads(ts) : t = u

Sequenced ==
    /\ lead \in Seq(LeadStatus) /\ thread \in Seq(Thread) /\ OneOpen(thread)
    /\ stored \in [Message -> Seq(Stored)]
    /\ \A s \in Send : send[s].pc = "record" => send[s].copy \in Copy

TypeInv == TypeOK /\ Sequenced /\ met \subseteq SUBSET Message

OutTypes ==
    /\ send \in [Send -> SendRec]
    /\ \A s \in Send : send[s].pc = "record" => send[s].copy \in Copy
    /\ wire \in [Copy -> Status] /\ row \in [Copy -> Status]
    /\ post \subseteq Receipts /\ odd \subseteq Copy
InTypes ==
    /\ policy \in Policies
    /\ lead \in Seq(LeadStatus) /\ thread \in Seq(Thread) /\ OneOpen(thread)
    /\ stored \in [Message -> Seq(Stored)]
    /\ handler \in [Handler -> HandlerRec]
    /\ posts \in [Message -> 0..MaxPosts]
    /\ met \subseteq SUBSET Message
ClaimTypes == endpoint \in Endpoints /\ claimed \subseteq Receipts \cup {<<m>> : m \in Message}

LEMMA TypesJoin == TypeInv <=> OutTypes /\ InTypes /\ ClaimTypes
BY DEF TypeInv, TypeOK, Sequenced, OutTypes, InTypes, ClaimTypes

\* A task that moves on, or starts over.
LEMMA SendMoves ==
    ASSUME OutTypes, NEW s \in Send,
           NEW pc \in {"none", "queued", "log", "done", "refused", "failed", "lost"}, Go(s, pc)
    PROVE  send' \in [Send -> SendRec] /\ \A z \in Send : send'[z].pc = "record" => send'[z].copy \in Copy
<1> DEFINE h == [send[s] EXCEPT !.pc = pc]
<1>1. send[s] \in SendRec /\ send' = [send EXCEPT ![s] = h]
  BY DEF OutTypes, Go, Set
<1>2. h \in SendRec /\ h.pc # "record"
  BY <1>1 DEF SendRec
<1> HIDE DEF h
<1>3. QED
  BY <1>1, <1>2 DEF OutTypes

LEMMA SendAgain ==
    ASSUME OutTypes, NEW s \in Send, Again(s)
    PROVE  send' \in [Send -> SendRec] /\ \A z \in Send : send'[z].pc = "record" => send'[z].copy \in Copy
<1>1. CASE send[s].tries < MaxRetries
  <2> DEFINE h == [pc |-> "queued", tries |-> send[s].tries + 1, copy |-> NoCopy]
  <2>1. send[s] \in SendRec /\ send' = [send EXCEPT ![s] = h]
    BY <1>1 DEF OutTypes, Again, Set
  <2>2. h \in SendRec /\ h.pc # "record"
    BY <1>1, <2>1 DEF SendRec
  <2> HIDE DEF h
  <2>3. QED
    BY <2>1, <2>2 DEF OutTypes
<1>2. CASE ~(send[s].tries < MaxRetries)
  <2> DEFINE h == [send[s] EXCEPT !.pc = "failed"]
  <2>1. send[s] \in SendRec /\ send' = [send EXCEPT ![s] = h]
    BY <1>2 DEF OutTypes, Again, Set
  <2>2. h \in SendRec /\ h.pc # "record"
    BY <2>1 DEF SendRec
  <2> HIDE DEF h
  <2>3. QED
    BY <2>1, <2>2 DEF OutTypes
<1>3. QED
  BY <1>1, <1>2

LEMMA OutType ==
    ASSUME OutTypes, ClaimTypes, OutboxNext, endpoint' = endpoint
    PROVE  OutTypes' /\ ClaimTypes'
<1> USE DEF OutTypes, ClaimTypes
<1>1. ASSUME NEW s \in Send, Queue(s) \/ NotConnected(s) \/ Log(s) \/ Dies(s), UNCHANGED claimed
      PROVE  OutTypes' /\ ClaimTypes'
  <2>1. \E pc \in {"queued", "refused", "done", "lost"} : Go(s, pc)
    BY <1>1 DEF Queue, NotConnected, Log, Dies
  <2>2. UNCHANGED <<wire, row, post, odd>>
    BY <1>1 DEF Queue, NotConnected, Log, Dies
  <2>3. send' \in [Send -> SendRec] /\ \A z \in Send : send'[z].pc = "record" => send'[z].copy \in Copy
    BY <2>1, SendMoves
  <2>4. QED
    BY <1>1, <2>2, <2>3
<1>2. ASSUME NEW s \in Send, Record(s), UNCHANGED claimed
      PROVE  OutTypes' /\ ClaimTypes'
  <2>1. send' \in [Send -> SendRec] /\ \A z \in Send : send'[z].pc = "record" => send'[z].copy \in Copy
    BY <1>2, SendMoves DEF Record
  <2>2. row' \in [Copy -> Status]
    BY <1>2 DEF Record, Status
  <2>3. QED
    BY <1>2, <2>1, <2>2 DEF Record
<1>3. ASSUME NEW s \in Send, Fails(s), UNCHANGED claimed
      PROVE  OutTypes' /\ ClaimTypes'
  BY <1>3, SendAgain DEF Fails
<1>4. ASSUME NEW s \in Send, NEW c \in Copy, Hand(s, c), UNCHANGED claimed
      PROVE  OutTypes' /\ ClaimTypes'
  <2> DEFINE h == [send[s] EXCEPT !.pc = "record", !.copy = c]
  <2>1. send[s] \in SendRec /\ send' = [send EXCEPT ![s] = h]
    BY <1>4 DEF Hand, Set
  <2>2. h \in SendRec /\ h.copy \in Copy
    BY <2>1 DEF SendRec
  <2> HIDE DEF h
  <2>3. send' \in [Send -> SendRec] /\ \A z \in Send : send'[z].pc = "record" => send'[z].copy \in Copy
    BY <2>1, <2>2
  <2>4. wire' \in [Copy -> Status] /\ post' \subseteq Receipts
    BY <1>4 DEF Hand, Accepts, Status, Receipts
  <2>5. QED
    BY <1>4, <2>3, <2>4 DEF Hand
<1>5. ASSUME NEW s \in Send, NEW c \in Copy, HandUnanswered(s, c), UNCHANGED claimed
      PROVE  OutTypes' /\ ClaimTypes'
  <2>1. wire' \in [Copy -> Status] /\ post' \subseteq Receipts
    BY <1>5 DEF HandUnanswered, Accepts, Status, Receipts
  <2>2. QED
    BY <1>5, <2>1, SendAgain DEF HandUnanswered
<1>6. ASSUME NEW c \in Copy, Progress(c), UNCHANGED claimed
      PROVE  OutTypes' /\ ClaimTypes'
  BY <1>6 DEF Progress, Status, Receipts
<1>7. ASSUME NEW c \in Copy, NEW st \in Status \ {"none"},
             CommsReceipt(c, st) \/ MetaReceipt(c, st) \/ ReceiptLost(c, st)
      PROVE  OutTypes' /\ ClaimTypes'
  <2>1. send' = send /\ wire' = wire /\ post' \subseteq Receipts /\ odd' \subseteq Copy
    BY <1>7 DEF CommsReceipt, MetaReceipt, ReceiptLost, Delivered, Answered
  <2>2. row' \in [Copy -> Status]
    BY <1>7 DEF CommsReceipt, MetaReceipt, ReceiptLost
  <2>3. claimed' \subseteq Receipts \cup {<<m>> : m \in Message}
    <3>1. <<c, st>> \in Receipts
      BY DEF Receipts
    <3>2. claimed' = claimed \/ claimed' = claimed \cup {<<c, st>>}
      BY <1>7 DEF CommsReceipt, MetaReceipt, ReceiptLost
    <3>3. QED
      BY <3>1, <3>2
  <2>4. QED
    BY <2>1, <2>2, <2>3
<1>8. QED
  BY <1>1, <1>2, <1>3, <1>4, <1>5, <1>6, <1>7 DEF OutboxNext

-----------------------------------------------------------------------------
(* What is received.                                                        *)

LEMMA HandlerSets ==
    ASSUME handler \in [Handler -> HandlerRec], NEW h \in Handler, NEW r \in HandlerRec, SetHandler(h, r)
    PROVE  /\ handler' \in [Handler -> HandlerRec]
           /\ handler'[h] = r /\ \A g \in Handler \ {h} : handler'[g] = handler[g]
BY DEF SetHandler

LEMMA IdleType == Idle \in HandlerRec
<1>1. (CHOOSE m \in Message : TRUE) \in Message
  OBVIOUS
<1>2. QED
  BY <1>1 DEF Idle, HandlerRec, None

LEMMA LatestIsOpen ==
    ASSUME NEW ts \in Seq(Thread), OneOpen(ts)
    PROVE  /\ LatestOpen(ts) \in Nat
           /\ LatestOpen(ts) = None <=> OpenThreads(ts) = {}
           /\ OpenThreads(ts) # {} => LatestOpen(ts) \in OpenThreads(ts)
           /\ OpenThreads(ts) = {LatestOpen(ts)} \/ OpenThreads(ts) = {}
<1>1. OpenThreads(ts) \subseteq 1..Len(ts)
  BY DEF OpenThreads
<1>2. CASE OpenThreads(ts) = {}
  BY <1>2 DEF LatestOpen, None
<1>3. ASSUME NEW t \in OpenThreads(ts)
      PROVE  LatestOpen(ts) = t
  <2>1. \A u \in OpenThreads(ts) : u = t
    BY <1>3 DEF OneOpen
  <2>2. t <= t
    BY <1>1
  <2>3. QED
    BY <1>3, <2>1, <2>2 DEF LatestOpen
<1>4. QED
  BY <1>1, <1>2, <1>3 DEF None

\* The threads after a message: still a sequence with one open thread at most.
LEMMA ThreadedType ==
    ASSUME thread \in Seq(Thread), OneOpen(thread), NEW r \in HandlerRec, NEW l \in Nat
    PROVE  Threaded(r, l) \in Seq(Thread) /\ OneOpen(Threaded(r, l))
<1>1. CASE Reuses(r)
  <2> DEFINE ad == IF Clicked[r.msg] # NoAd /\ r.seen = NoAd THEN Clicked[r.msg] ELSE thread[r.thread].ad
             one == [thread[r.thread] EXCEPT !.ad = ad]
  <2>1. Threaded(r, l) = [thread EXCEPT ![r.thread] = one]
    BY <1>1 DEF Threaded
  <2>2. CASE r.thread \in DOMAIN thread
    <3>1. thread[r.thread] \in Thread /\ r.msg \in Message
      BY <2>2 DEF HandlerRec
    <3>2. one \in Thread /\ one.open = thread[r.thread].open
      BY <3>1 DEF Thread
    <3> HIDE DEF one
    <3>3. /\ Threaded(r, l) \in Seq(Thread) /\ Len(Threaded(r, l)) = Len(thread)
          /\ \A t \in 1..Len(thread) : Threaded(r, l)[t] = IF t = r.thread THEN one ELSE thread[t]
      BY <2>1, <2>2, <3>2, LenProperties, ExceptSeq
    <3>4. OpenThreads(Threaded(r, l)) = OpenThreads(thread)
      BY <3>2, <3>3, LenProperties DEF OpenThreads
    <3>5. QED
      BY <3>3, <3>4 DEF OneOpen
  <2>3. CASE r.thread \notin DOMAIN thread
    <3>1. [thread EXCEPT ![r.thread] = one] = thread
      BY <2>3, LenProperties
    <3>2. QED
      BY <2>1, <3>1
  <2>4. QED
    BY <2>2, <2>3
<1>2. CASE ~Reuses(r)
  <2> DEFINE rest == [t \in DOMAIN thread |-> [thread[t] EXCEPT !.open = @ /\ t # r.thread]]
             new == [lead |-> l, ad |-> Clicked[r.msg], open |-> TRUE]
  <2>1. Threaded(r, l) = IF OpenThreads(rest) # {} THEN rest ELSE Append(rest, new)
    BY <1>2 DEF Threaded
  <2>2. DOMAIN thread = 1..Len(thread) /\ Len(thread) \in Nat
    OBVIOUS
  <2>3. \A t \in DOMAIN thread : rest[t] \in Thread /\ (rest[t].open => thread[t].open)
    <3>1. SUFFICES ASSUME NEW t \in DOMAIN thread
                   PROVE  rest[t] \in Thread /\ (rest[t].open => thread[t].open)
      OBVIOUS
    <3>2. thread[t] \in Thread
      BY ElementOfSeq, LenProperties
    <3>3. rest[t] = [thread[t] EXCEPT !.open = @ /\ t # r.thread]
      OBVIOUS
    <3> DEFINE closed == thread[t].open /\ t # r.thread
    <3>4. closed \in BOOLEAN
      BY Zenon
    <3>5. \A b \in BOOLEAN : [thread[t] EXCEPT !.open = b] \in Thread /\ [thread[t] EXCEPT !.open = b].open = b
      BY <3>2 DEF Thread
    <3>6. QED
      BY <3>3, <3>4, <3>5, Zenon
  <2>4. rest \in Seq(Thread) /\ DOMAIN rest = 1..Len(thread) /\ Len(rest) = Len(thread)
    <3>1. rest \in [1..Len(thread) -> Thread]
      BY <2>2, <2>3
    <3> HIDE DEF rest
    <3>2. QED
      BY <2>2, <3>1
  <2>5. OpenThreads(rest) \subseteq OpenThreads(thread)
    BY <2>2, <2>3, <2>4 DEF OpenThreads
  <2>6. new \in Thread
    <3>1. r.msg \in Message
      BY DEF HandlerRec
    <3>2. QED
      BY <3>1 DEF Thread
  <2> HIDE DEF rest, new
  <2>7. CASE OpenThreads(rest) # {}
    BY <2>1, <2>4, <2>5, <2>7 DEF OneOpen
  <2>8. CASE OpenThreads(rest) = {}
    <3>1. Threaded(r, l) = Append(rest, new)
      BY <2>1, <2>8
    <3>2. /\ Append(rest, new) \in Seq(Thread)
          /\ DOMAIN Append(rest, new) = 1..(Len(rest) + 1)
          /\ \A t \in 1..Len(rest) : Append(rest, new)[t] = rest[t]
      BY <2>4, <2>6
    <3>3. OpenThreads(Append(rest, new)) \subseteq {Len(rest) + 1}
      BY <2>2, <2>4, <2>8, <3>2 DEF OpenThreads
    <3>4. QED
      BY <3>1, <3>2, <3>3 DEF OneOpen
  <2>9. QED
    BY <2>7, <2>8
<1>3. QED
  BY <1>1, <1>2

\* The two ways a row is stored.
LEMMA StoreType ==
    ASSUME stored \in [Message -> Seq(Stored)], NEW m \in Message, NEW l \in Nat, NEW t \in Nat, Store(m, l, t)
    PROVE  stored' \in [Message -> Seq(Stored)]
<1> DEFINE x == [lead |-> l, thread |-> t]
<1>1. x \in Stored
  BY DEF Stored
<1> HIDE DEF x
<1>2. stored[m] \in Seq(Stored)
  OBVIOUS
<1>3. Append(stored[m], x) \in Seq(Stored)
  BY <1>1, <1>2, AppendProperties
<1>4. stored' = [stored EXCEPT ![m] = Append(stored[m], x)]
  BY DEF Store, x
<1>5. QED
  BY <1>3, <1>4

LEMMA LeadSet ==
    ASSUME lead \in Seq(LeadStatus), NEW l \in DOMAIN lead, NEW st \in LeadStatus
    PROVE  /\ [lead EXCEPT ![l] = st] \in Seq(LeadStatus)
           /\ Len([lead EXCEPT ![l] = st]) = Len(lead)
BY LenProperties, ExceptSeq

Below == {p \in Nat \X Nat : p[1] < p[2]}

LEMMA BelowWellFounded == IsWellFoundedOn(Below, Nat)
BY NatLessThanWellFounded DEF OpToRel, Below

LEMMA FoundLeads ==
    ASSUME lead \in Seq(LeadStatus)
    PROVE  DOMAIN lead = 1..Len(lead) /\ Len(lead) \in Nat /\ Found \in SUBSET (1..Len(lead))
<1>1. DOMAIN lead = 1..Len(lead) /\ Len(lead) \in Nat
  BY LenProperties
<1>2. QED
  BY <1>1 DEF Found

\* The lead looked up is one that has the number, if any has.
LEMMA ContactFound ==
    ASSUME lead \in Seq(LeadStatus)
    PROVE  Contact \in Nat /\ (Found = {} => Contact = None) /\ (Found # {} => Contact \in Found)
<1>1. Found \subseteq Nat
  BY FoundLeads
<1>2. CASE Found = {}
  BY <1>2 DEF Contact, None
<1>3. CASE Found # {}
  <2>1. PICK l \in Found : \A k \in Found : ~(<<k, l>> \in Below)
    BY <1>1, <1>3, BelowWellFounded, WFMin
  <2>2. \A k \in Found : l <= k
    <3>1. ASSUME NEW k \in Found
          PROVE  l <= k
      <4>1. k \in Nat /\ l \in Nat
        BY <1>1
      <4>2. CASE k < l
        <5>1. <<k, l>> \in Below
          BY <4>1, <4>2 DEF Below
        <5>2. QED
          BY <2>1, <5>1
      <4>3. QED
        BY <4>1, <4>2
    <3>2. QED
      BY <3>1
  <2>3. Contact \in Found
    BY <1>3, <2>2 DEF Contact
  <2>4. QED
    BY <1>1, <1>3, <2>3
<1>4. QED
  BY <1>2, <1>3

LEMMA TakeUpType ==
    ASSUME InTypes, NEW h \in Handler, NEW m \in Message, TakeUp(h, m)
    PROVE  posts' \in [Message -> 0..MaxPosts] /\ met' \subseteq SUBSET Message
<1>1. posts' \in [Message -> 0..MaxPosts]
  BY DEF InTypes, TakeUp
<1>2. \A g \in Handler : handler[g].msg \in Message
  BY DEF InTypes, HandlerRec
<1>3. met' \subseteq SUBSET Message
  <2>1. \A g \in Handler : {m, handler[g].msg} \in SUBSET Message
    BY <1>2
  <2>2. met' = met \cup {{m, handler[g].msg} : g \in {g \in Handler : Busy(g)}}
    BY DEF TakeUp
  <2>3. met \subseteq SUBSET Message
    BY DEF InTypes
  <2>4. QED
    BY <2>1, <2>2, <2>3
<1>4. QED
  BY <1>1, <1>3

\* What MetaCommit makes of the leads.
LEMMA CommitLeads ==
    ASSUME InTypes, NEW h \in Handler, MetaCommit(h)
    PROVE  lead' \in Seq(LeadStatus)
<1> DEFINE r == handler[h]
           l == IF r.lead = None THEN Len(lead) + 1 ELSE r.lead
<1>1. lead \in Seq(LeadStatus) /\ "new" \in LeadStatus
  BY DEF InTypes, LeadStatus
<1>2. lead' = IF r.lead = None THEN Append(lead, "new")
              ELSE IF r.reopens /\ l \in Found THEN [lead EXCEPT ![l] = "new"] ELSE lead
  BY DEF MetaCommit
<1>3. CASE l \in DOMAIN lead
  BY <1>1, <1>2, <1>3, LeadSet, AppendProperties
<1>4. CASE l \notin DOMAIN lead
  <2>1. [lead EXCEPT ![l] = "new"] = lead
    BY <1>1, <1>4, LenProperties
  <2>2. QED
    BY <1>1, <1>2, <2>1, AppendProperties
<1>5. QED
  BY <1>3, <1>4

LEMMA InType ==
    ASSUME InTypes, ClaimTypes, InboxNext, endpoint' = endpoint
    PROVE  InTypes' /\ ClaimTypes'
<1>1. ASSUME NEW h \in Handler, NEW m \in Message, CommsCheck(h, m)
      PROVE  InTypes' /\ ClaimTypes'
  <2>1. posts' \in [Message -> 0..MaxPosts] /\ met' \subseteq SUBSET Message
    BY <1>1, TakeUpType DEF CommsCheck
  <2>2. handler' \in [Handler -> HandlerRec]
    <3>1. CASE UNCHANGED handler
      BY <3>1 DEF InTypes
    <3>2. ASSUME NEW l \in Found, SetHandler(h, [Idle EXCEPT !.pc = "create", !.msg = m, !.lead = l])
          PROVE  handler' \in [Handler -> HandlerRec]
      <4> DEFINE r == [Idle EXCEPT !.pc = "create", !.msg = m, !.lead = l]
      <4>1. l \in Nat
        BY FoundLeads DEF InTypes
      <4>2. r \in HandlerRec
        BY <4>1, IdleType DEF HandlerRec
      <4> HIDE DEF r
      <4>3. SetHandler(h, r)
        BY <3>2 DEF r
      <4>4. QED
        BY <4>2, <4>3, HandlerSets DEF InTypes
    <3>3. QED
      BY <1>1, <3>1, <3>2 DEF CommsCheck
  <2>3. UNCHANGED <<claimed, policy, lead, thread, stored>>
    BY <1>1 DEF CommsCheck
  <2>4. QED
    BY <2>1, <2>2, <2>3 DEF InTypes, ClaimTypes, OneOpen
<1>2. ASSUME NEW h \in Handler, CommsCreate(h)
      PROVE  InTypes' /\ ClaimTypes'
  <2>1. handler[h] \in HandlerRec /\ SetHandler(h, Idle) /\ UNCHANGED <<claimed, policy, lead, thread, posts, met>>
    BY <1>2 DEF CommsCreate, InTypes
  <2>2. handler' \in [Handler -> HandlerRec]
    BY <2>1, IdleType, HandlerSets DEF InTypes
  <2>3. handler[h].msg \in Message /\ handler[h].lead \in Nat /\ None \in Nat
    BY <2>1 DEF HandlerRec, None
  <2>4. stored' \in [Message -> Seq(Stored)]
    BY <1>2, <2>3, StoreType DEF CommsCreate, InTypes
  <2>5. QED
    BY <2>1, <2>2, <2>4 DEF InTypes, ClaimTypes, OneOpen
<1>3. ASSUME NEW h \in Handler, NEW m \in Message, MetaClaim(h, m)
      PROVE  InTypes' /\ ClaimTypes'
  <2>1. posts' \in [Message -> 0..MaxPosts] /\ met' \subseteq SUBSET Message
    BY <1>3, TakeUpType DEF MetaClaim
  <2> DEFINE first == Contact
             again == policy.reopen /\ Contact # None /\ lead[Contact] \in Closed
             r == [Idle EXCEPT !.pc = "thread", !.msg = m, !.lead = first, !.reopens = again]
  <2>2. handler' = handler \/ SetHandler(h, r)
    BY <1>3 DEF MetaClaim
  <2>3. r \in HandlerRec
    <3>1. first \in Nat
      BY ContactFound DEF InTypes
    <3>2. again \in BOOLEAN
      BY Zenon
    <3> HIDE DEF first, again
    <3>3. QED
      BY <3>1, <3>2, IdleType DEF HandlerRec
  <2> HIDE DEF r
  <2>4. handler' \in [Handler -> HandlerRec]
    BY <2>2, <2>3, HandlerSets DEF InTypes
  <2>5. claimed' = claimed \/ claimed' = claimed \cup {<<m>>}
    BY <1>3 DEF MetaClaim
  <2>6. UNCHANGED <<policy, lead, thread, stored>>
    BY <1>3 DEF MetaClaim
  <2>7. QED
    BY <2>1, <2>4, <2>5, <2>6 DEF InTypes, ClaimTypes, OneOpen
<1>4. ASSUME NEW h \in Handler, MetaThread(h)
      PROVE  InTypes' /\ ClaimTypes'
  <2> DEFINE t == LatestOpen(thread)
             ad == IF t = None THEN NoAd ELSE thread[t].ad
             r == [handler[h] EXCEPT !.pc = "write", !.thread = t, !.seen = ad]
  <2>1. SetHandler(h, r) /\ UNCHANGED <<claimed, policy, lead, thread, stored, posts, met>>
    BY <1>4 DEF MetaThread
  <2>2. t \in Nat /\ (t = None \/ t \in DOMAIN thread)
    BY LatestIsOpen DEF InTypes, OpenThreads
  <2>3. ad \in Ad \cup {NoAd}
    <3>1. CASE t = None
      BY <3>1
    <3>2. CASE t # None
      <4>1. thread[t] \in Thread
        BY <2>2, <3>2, ElementOfSeq, LenProperties DEF InTypes
      <4>2. QED
        BY <3>2, <4>1 DEF Thread
    <3>3. QED
      BY <3>1, <3>2
  <2>4. r \in HandlerRec
    <3> HIDE DEF t, ad
    <3>1. handler[h] \in HandlerRec
      BY DEF InTypes
    <3>2. QED
      BY <2>2, <2>3, <3>1 DEF HandlerRec
  <2> HIDE DEF r
  <2>5. handler' \in [Handler -> HandlerRec]
    BY <2>1, <2>4, HandlerSets DEF InTypes
  <2>6. QED
    BY <2>1, <2>5 DEF InTypes, ClaimTypes, OneOpen
<1>5. ASSUME NEW h \in Handler, MetaCommit(h)
      PROVE  InTypes' /\ ClaimTypes'
  <2> DEFINE r == handler[h]
             l == IF r.lead = None THEN Len(lead) + 1 ELSE r.lead
             t == IF Reuses(r) THEN r.thread ELSE LatestOpen(thread')
  <2>1. r \in HandlerRec /\ r.msg \in Message /\ r.lead \in Nat /\ r.thread \in Nat
    BY DEF InTypes, HandlerRec
  <2>2. l \in Nat
    BY <2>1, LenProperties DEF InTypes
  <2>3. /\ thread' = Threaded(r, l) /\ Store(r.msg, l, t)
        /\ claimed' = claimed \cup {<<r.msg>>} /\ SetHandler(h, Idle) /\ UNCHANGED <<policy, posts, met>>
    BY <1>5 DEF MetaCommit
  <2> HIDE DEF r, l
  <2>4. thread' \in Seq(Thread) /\ OneOpen(thread')
    BY <2>1, <2>2, <2>3, ThreadedType DEF InTypes
  <2>5. t \in Nat
    BY <2>1, <2>4, LatestIsOpen
  <2> HIDE DEF t
  <2>6. stored' \in [Message -> Seq(Stored)]
    BY <2>1, <2>2, <2>3, <2>5, StoreType DEF InTypes
  <2>7. handler' \in [Handler -> HandlerRec]
    BY <2>3, IdleType, HandlerSets DEF InTypes
  <2>8. lead' \in Seq(LeadStatus)
    BY <1>5, CommitLeads
  <2>9. claimed' \subseteq Receipts \cup {<<m>> : m \in Message}
    BY <2>1, <2>3 DEF ClaimTypes
  <2>10. QED
    BY <2>3, <2>4, <2>6, <2>7, <2>8, <2>9 DEF InTypes, ClaimTypes, OneOpen
<1>6. ASSUME NEW h \in Handler, Rollback(h)
      PROVE  InTypes' /\ ClaimTypes'
  BY <1>6, IdleType, HandlerSets DEF Rollback, InTypes, ClaimTypes, OneOpen
<1>7. ASSUME NEW l \in DOMAIN lead, NEW st \in LeadStatus, AgentSets(l, st)
      PROVE  InTypes' /\ ClaimTypes'
  <2>1. lead' \in Seq(LeadStatus)
    BY <1>7, LeadSet DEF AgentSets, InTypes
  <2>2. QED
    BY <1>7, <2>1 DEF AgentSets, InTypes, ClaimTypes, OneOpen
<1>8. ASSUME NEW l \in DOMAIN lead, LoseLead(l)
      PROVE  InTypes' /\ ClaimTypes'
  <2>1. lead' = [lead EXCEPT ![l] = "gone"] /\ "gone" \in LeadStatus
    BY <1>8 DEF LoseLead, LeadStatus
  <2>2. lead' \in Seq(LeadStatus)
    BY <2>1, LeadSet DEF InTypes
  <2>3. QED
    BY <1>8, <2>2 DEF LoseLead, InTypes, ClaimTypes, OneOpen
<1>9. QED
  BY <1>1, <1>2, <1>3, <1>4, <1>5, <1>6, <1>7, <1>8 DEF InboxNext

LEMMA TypeInvHolds == Spec => []TypeInv
<1>1. Init => TypeInv
  <2>1. ASSUME Init
        PROVE  OutTypes
    BY <2>1 DEF Init, OutboxInit, OutTypes, NoSend, SendRec, Status, Receipts
  <2>2. ASSUME Init
        PROVE  InTypes
    <3>1. lead \in Seq(LeadStatus)
      <4>1. \A st \in LeadStatus : <<st>> \in Seq(LeadStatus)
        OBVIOUS
      <4>2. lead = <<>> \/ \E st \in LeadStatus : lead = <<st>>
        BY <2>2 DEF Init, InboxInit
      <4>3. CASE lead = <<>>
        BY <4>3
      <4>4. ASSUME NEW st \in LeadStatus, lead = <<st>>
            PROVE  lead \in Seq(LeadStatus)
        BY <4>1, <4>4
      <4>5. QED
        BY <4>2, <4>3, <4>4
    <3>2. thread \in Seq(Thread) /\ OneOpen(thread)
      BY <2>2 DEF Init, InboxInit, OneOpen, OpenThreads
    <3>3. stored \in [Message -> Seq(Stored)] /\ posts \in [Message -> 0..MaxPosts]
      BY <2>2 DEF Init, InboxInit
    <3>4. handler \in [Handler -> HandlerRec]
      BY <2>2, IdleType DEF Init, InboxInit
    <3>5. QED
      BY <2>2, <3>1, <3>2, <3>3, <3>4 DEF Init, InboxInit, InTypes
  <2>3. ASSUME Init
        PROVE  ClaimTypes
    BY <2>3 DEF Init, WebhooksInit, ClaimTypes
  <2>4. QED
    BY <2>1, <2>2, <2>3, TypesJoin
<1>2. TypeInv /\ [Next]_vars => TypeInv'
  <2> SUFFICES ASSUME TypeInv, [Next]_vars
               PROVE  TypeInv'
    OBVIOUS
  <2>1. OutTypes /\ InTypes /\ ClaimTypes
    BY TypesJoin
  <2>2. CASE OutboxNext /\ UNCHANGED inVars /\ UNCHANGED endpoint
    <3>1. OutTypes' /\ ClaimTypes'
      BY <2>1, <2>2, OutType
    <3>2. InTypes'
      BY <2>1, <2>2 DEF inVars, InTypes, OneOpen
    <3>3. QED
      BY <3>1, <3>2 DEF TypeInv, TypeOK, Sequenced, OutTypes, InTypes, ClaimTypes
  <2>3. CASE InboxNext /\ UNCHANGED outVars /\ UNCHANGED endpoint
    <3>1. InTypes' /\ ClaimTypes'
      BY <2>1, <2>3, InType
    <3>2. OutTypes'
      BY <2>1, <2>3 DEF outVars, OutTypes
    <3>3. QED
      BY <3>1, <3>2 DEF TypeInv, TypeOK, Sequenced, OutTypes, InTypes, ClaimTypes
  <2>4. CASE UNCHANGED vars
    BY <2>1, <2>4 DEF vars, TypeInv, TypeOK, Sequenced, OneOpen
  <2>5. QED
    BY <2>2, <2>3, <2>4 DEF Next
<1>3. QED
  BY <1>1, <1>2, PTL DEF Spec

\* Every variable keeps its type, whatever the provider delivers, however
\* often and in which order, and whichever task or request dies.
THEOREM TypeCorrect == Spec => []TypeOK
<1>1. TypeInv => TypeOK
  BY DEF TypeInv
<1>2. QED
  BY TypeInvHolds, <1>1, PTL

-----------------------------------------------------------------------------
(* Receipts.  No row is ahead of the provider and no receipt either; the    *)
(* sender at the record of a copy is the only one and finds no row; and     *)
(* while nothing odd happened to a copy, the receipt of how far the         *)
(* provider got is still to come, or it is what the row says.               *)

Known == Status \ {"none"}

Senders ==
    \A s \in Send : send[s].pc = "record" =>
        /\ row[send[s].copy] = "none" /\ wire[send[s].copy] # "none"
        /\ \A z \in Send : send[z].pc = "record" /\ send[z].copy = send[s].copy => z = s
NotAhead ==
    \A c \in Copy :
        /\ row[c] # "none" => wire[c] # "none" /\ Rank[row[c]] <= Rank[wire[c]]
        /\ \A st \in Known : <<c, st>> \in post \cup claimed =>
              wire[c] # "none" /\ Rank[st] <= Rank[wire[c]]
Owed(c) ==
    wire[c] # "none" =>
        /\ endpoint = "comms" => row[c] = wire[c] \/ <<c, wire[c]>> \in post
        /\ endpoint = "meta" =>
              /\ <<c, wire[c]>> \in post \cup claimed
              /\ <<c, wire[c]>> \in claimed => row[c] = wire[c]
ReceiptInv == Senders /\ NotAhead /\ \A c \in Copy \ odd : Owed(c)

LEMMA RankFacts ==
    /\ DOMAIN Rank = Known
    /\ \A a \in Known : Rank[a] \in 1..4
    /\ \A a, b \in Known : Rank[a] = Rank[b] => a = b
    /\ Rank["sent"] = 1 /\ Rank["delivered"] = 2 /\ Rank["read"] = 3 /\ Rank["failed"] = 4
BY DEF Rank, Known, Status

\* The key of a message is not the key of a receipt.
LEMMA KeysApart ==
    ASSUME NEW m, NEW c, NEW st
    PROVE  <<m>> # <<c, st>>
<1>1. Len(<<m>>) = 1 /\ Len(<<c, st>>) = 2
  OBVIOUS
<1>2. QED
  BY <1>1

\* A sender that leaves the record disturbs no other.
LEMMA SendersMove ==
    ASSUME ReceiptInv, OutTypes, NEW s \in Send, Go(s, "done") \/ Again(s) \/ Go(s, "queued")
              \/ Go(s, "refused") \/ Go(s, "lost") \/ Go(s, "log")
    PROVE  \A z \in Send : send'[z].pc = "record" => z # s /\ send'[z] = send[z]
<1>1. \E h : h.pc # "record" /\ send' = [send EXCEPT ![s] = h]
  <2>1. CASE Again(s)
    <3>1. CASE send[s].tries < MaxRetries
      <4> DEFINE h == [pc |-> "queued", tries |-> send[s].tries + 1, copy |-> NoCopy]
      <4>1. send' = [send EXCEPT ![s] = h] /\ h.pc # "record"
        BY <2>1, <3>1 DEF Again, Set
      <4>2. QED
        BY <4>1
    <3>2. CASE ~(send[s].tries < MaxRetries)
      <4> DEFINE h == [send[s] EXCEPT !.pc = "failed"]
      <4>1. send[s] \in SendRec
        BY DEF OutTypes
      <4>2. send' = [send EXCEPT ![s] = h] /\ h.pc # "record"
        BY <2>1, <3>2, <4>1 DEF Again, Set, SendRec
      <4>3. QED
        BY <4>2
    <3>3. QED
      BY <3>1, <3>2
  <2>2. ASSUME NEW pc \in {"done", "queued", "refused", "lost", "log"}, Go(s, pc)
        PROVE  \E h : h.pc # "record" /\ send' = [send EXCEPT ![s] = h]
    <3> DEFINE h == [send[s] EXCEPT !.pc = pc]
    <3>1. send[s] \in SendRec
      BY DEF OutTypes
    <3>2. send' = [send EXCEPT ![s] = h] /\ h.pc # "record"
      BY <2>2, <3>1 DEF Go, Set, SendRec
    <3>3. QED
      BY <3>2
  <2>3. QED
    BY <2>1, <2>2
<1>2. PICK h : h.pc # "record" /\ send' = [send EXCEPT ![s] = h]
  BY <1>1
<1>3. QED
  BY <1>2 DEF OutTypes

\* The provider accepts a copy: nothing was known of it.
LEMMA AcceptsKeeps ==
    ASSUME ReceiptInv, OutTypes, NEW c \in Copy, Accepts(c), UNCHANGED <<row, odd, claimed, endpoint>>
    PROVE  NotAhead' /\ \A d \in Copy \ odd' : Owed(d)'
<1> USE RankFacts
<1>1. wire' = [wire EXCEPT ![c] = "sent"] /\ post' = post \cup {<<c, "sent">>} /\ wire[c] = "none"
  BY DEF Accepts
<1>2. wire'[c] = "sent" /\ \A d \in Copy \ {c} : wire'[d] = wire[d]
  BY <1>1 DEF OutTypes
<1>3. row[c] = "none" /\ \A st \in Known : <<c, st>> \notin post \cup claimed
  BY <1>1 DEF ReceiptInv, NotAhead
<1>4. \A d \in Copy, st \in Known : <<d, st>> \in post' => <<d, st>> \in post \/ (d = c /\ st = "sent")
  BY <1>1
<1>5. NotAhead'
  <2>1. ASSUME NEW d \in Copy
        PROVE  /\ row'[d] # "none" => wire'[d] # "none" /\ Rank[row'[d]] <= Rank[wire'[d]]
               /\ \A st \in Known : <<d, st>> \in post' \cup claimed' =>
                     wire'[d] # "none" /\ Rank[st] <= Rank[wire'[d]]
    <3>1. CASE d = c
      BY <1>2, <1>3, <1>4, <3>1
    <3>2. CASE d # c
      BY <1>2, <1>4, <3>2 DEF ReceiptInv, NotAhead
    <3>3. QED
      BY <3>1, <3>2
  <2>2. QED
    BY <2>1 DEF NotAhead
<1>6. ASSUME NEW d \in Copy \ odd'
      PROVE  Owed(d)'
  <2>1. CASE d = c
    <3>1. "sent" \in Known
      BY DEF Known, Status
    <3>2. QED
      BY <1>1, <1>2, <1>3, <2>1, <3>1 DEF Owed
  <2>2. CASE d # c
    BY <1>1, <1>2, <2>2 DEF ReceiptInv, Owed
  <2>3. QED
    BY <2>1, <2>2
<1>7. QED
  BY <1>5, <1>6

\* The senders, when no row and no state of the provider changes but at s.
LEMMA SendersKept ==
    ASSUME ReceiptInv, OutTypes, NEW s \in Send,
           \A z \in Send : send'[z].pc = "record" => z # s /\ send'[z] = send[z],
           \A z \in Send : z # s /\ send[z].pc = "record" =>
               row'[send[z].copy] = "none" /\ wire'[send[z].copy] # "none"
    PROVE  Senders'
BY DEF ReceiptInv, Senders

LEMMA TaskKeepsReceipts ==
    ASSUME ReceiptInv, OutTypes, NEW s \in Send, UNCHANGED <<claimed, endpoint>>,
           \/ Queue(s) \/ NotConnected(s) \/ Record(s) \/ Log(s) \/ Fails(s) \/ Dies(s)
           \/ \E c \in Copy : Hand(s, c) \/ HandUnanswered(s, c)
    PROVE  ReceiptInv'
<1> USE RankFacts
<1>1. CASE Queue(s) \/ NotConnected(s) \/ Log(s) \/ Fails(s) \/ Dies(s)
  <2>1. /\ Go(s, "done") \/ Again(s) \/ Go(s, "queued") \/ Go(s, "refused") \/ Go(s, "lost")
        /\ UNCHANGED <<wire, row, post, odd>>
    BY <1>1 DEF Queue, NotConnected, Log, Fails, Dies
  <2>2. Senders'
    BY <2>1, SendersMove, SendersKept DEF ReceiptInv, Senders
  <2>3. QED
    BY <2>1, <2>2 DEF ReceiptInv, NotAhead, Owed
<1>2. CASE Record(s)
  <2> DEFINE c == send[s].copy
  <2>1. /\ send[s].pc = "record" /\ Go(s, "log") /\ UNCHANGED <<wire, post, odd>>
        /\ row' = [row EXCEPT ![c] = "sent"]
    BY <1>2 DEF Record
  <2>2. c \in Copy /\ row[c] = "none" /\ wire[c] # "none"
    BY <2>1 DEF OutTypes, ReceiptInv, Senders
  <2>3. \A z \in Send : z # s /\ send[z].pc = "record" => send[z].copy # c
    BY <2>1 DEF ReceiptInv, Senders
  <2> HIDE DEF c
  <2>4. row'[c] = "sent" /\ \A d \in Copy \ {c} : row'[d] = row[d]
    BY <2>1, <2>2 DEF OutTypes
  <2>5. Senders'
    <3>1. \A z \in Send : z # s /\ send[z].pc = "record" =>
             row'[send[z].copy] = "none" /\ wire'[send[z].copy] # "none"
      BY <2>1, <2>3, <2>4 DEF ReceiptInv, Senders, OutTypes
    <3>2. QED
      BY <2>1, <3>1, SendersMove, SendersKept
  <2>6. wire[c] \in Known
    BY <2>2 DEF OutTypes, Known
  <2>7. NotAhead'
    <3>1. Rank["sent"] <= Rank[wire[c]]
      BY <2>6
    <3>2. QED
      BY <2>1, <2>2, <2>4, <3>1 DEF ReceiptInv, NotAhead
  <2>8. ASSUME NEW d \in Copy \ odd'
        PROVE  Owed(d)'
    <3>1. CASE d = c
      BY <2>1, <2>2, <2>4, <3>1 DEF ReceiptInv, Owed
    <3>2. CASE d # c
      BY <2>1, <2>4, <3>2 DEF ReceiptInv, Owed
    <3>3. QED
      BY <3>1, <3>2
  <2>9. QED
    BY <2>5, <2>7, <2>8 DEF ReceiptInv
<1>3. ASSUME NEW c \in Copy, Hand(s, c)
      PROVE  ReceiptInv'
  <2> DEFINE h == [send[s] EXCEPT !.pc = "record", !.copy = c]
  <2>1. Accepts(c) /\ UNCHANGED <<row, odd>> /\ send' = [send EXCEPT ![s] = h]
    BY <1>3 DEF Hand, Set
  <2>2. send[s] \in SendRec
    BY DEF OutTypes
  <2>3. h.copy = c
    BY <2>2 DEF SendRec
  <2> HIDE DEF h
  <2>4. send'[s].copy = c /\ \A z \in Send \ {s} : send'[z] = send[z]
    BY <2>1, <2>3 DEF OutTypes
  <2>5. wire[c] = "none" /\ row[c] = "none" /\ wire'[c] = "sent" /\ \A d \in Copy \ {c} : wire'[d] = wire[d]
    BY <2>1 DEF Accepts, OutTypes, ReceiptInv, NotAhead
  <2>6. Senders'
    BY <2>1, <2>4, <2>5 DEF ReceiptInv, Senders, OutTypes
  <2>7. QED
    BY <2>1, <2>6, AcceptsKeeps DEF ReceiptInv
<1>4. ASSUME NEW c \in Copy, HandUnanswered(s, c)
      PROVE  ReceiptInv'
  <2>1. Accepts(c) /\ UNCHANGED <<row, odd>> /\ Again(s)
    BY <1>4 DEF HandUnanswered
  <2>2. \A z \in Send : send[z].pc = "record" =>
           row'[send[z].copy] = "none" /\ wire'[send[z].copy] # "none"
    BY <2>1 DEF Accepts, OutTypes, ReceiptInv, Senders
  <2>3. Senders'
    BY <2>1, <2>2, SendersMove, SendersKept
  <2>4. QED
    BY <2>1, <2>3, AcceptsKeeps DEF ReceiptInv
<1>5. QED
  BY <1>1, <1>2, <1>3, <1>4

\* The provider gets further: past every receipt there is.
LEMMA ProgressKeepsReceipts ==
    ASSUME ReceiptInv, OutTypes, NEW c \in Copy, Progress(c), UNCHANGED <<claimed, endpoint>>
    PROVE  ReceiptInv'
<1> USE RankFacts
<1>1. PICK st \in {"delivered", "read", "failed"} :
         /\ wire[c] = "sent" \/ (wire[c] = "delivered" /\ st = "read")
         /\ wire' = [wire EXCEPT ![c] = st] /\ post' = post \cup {<<c, st>>}
  BY DEF Progress
<1>2. UNCHANGED <<send, row, odd>>
  BY DEF Progress
<1>3. st \in Known /\ wire[c] \in Known /\ Rank[st] > Rank[wire[c]]
  <2>1. st \in Known /\ wire[c] \in Known
    BY <1>1 DEF Known, Status
  <2>2. QED
    BY <1>1, <2>1
<1>4. wire'[c] = st /\ \A d \in Copy \ {c} : wire'[d] = wire[d]
  BY <1>1 DEF OutTypes
<1>5. <<c, st>> \notin post \cup claimed /\ <<c, st>> \in post'
  BY <1>1, <1>3 DEF ReceiptInv, NotAhead
<1>6. \A d \in Copy, k \in Known : <<d, k>> \in post' => <<d, k>> \in post \/ (d = c /\ k = st)
  BY <1>1
<1>7. \A d \in Copy : post \subseteq post' /\ (wire[d] # "none" => wire'[d] # "none")
  BY <1>1, <1>3, <1>4 DEF Known
<1>8. Senders'
  BY <1>2, <1>7 DEF ReceiptInv, Senders, OutTypes
<1>9. NotAhead'
  <2>1. ASSUME NEW d \in Copy
        PROVE  /\ row'[d] # "none" => wire'[d] # "none" /\ Rank[row'[d]] <= Rank[wire'[d]]
               /\ \A k \in Known : <<d, k>> \in post' \cup claimed' =>
                     wire'[d] # "none" /\ Rank[k] <= Rank[wire'[d]]
    <3>1. CASE d = c
      <4>1. row[c] # "none" => Rank[row[c]] <= Rank[wire[c]] /\ row[c] \in Known
        BY DEF ReceiptInv, NotAhead, OutTypes, Known
      <4>2. \A k \in Known : <<c, k>> \in post \cup claimed => Rank[k] <= Rank[wire[c]]
        BY DEF ReceiptInv, NotAhead
      <4>3. st # "none"
        BY <1>1
      <4>4. row'[c] # "none" => Rank[row'[c]] <= Rank[st]
        <5>1. row'[c] = row[c] /\ Rank[st] \in 1..4 /\ Rank[wire[c]] \in 1..4
          BY <1>2, <1>3
        <5>2. row[c] # "none" => Rank[row[c]] \in 1..4
          BY <4>1
        <5>3. QED
          BY <1>3, <4>1, <5>1, <5>2
      <4>5. \A k \in Known : <<c, k>> \in post' \cup claimed' => Rank[k] <= Rank[st]
        <5>1. ASSUME NEW k \in Known, <<c, k>> \in post' \cup claimed'
              PROVE  Rank[k] <= Rank[st]
          <6>1. <<c, k>> \in post \cup claimed \/ k = st
            BY <1>6, <5>1
          <6>2. Rank[k] \in 1..4 /\ Rank[st] \in 1..4 /\ Rank[wire[c]] \in 1..4
            BY <1>3
          <6>3. QED
            BY <1>3, <4>2, <6>1, <6>2
        <5>2. QED
          BY <5>1
      <4>6. QED
        BY <1>4, <3>1, <4>3, <4>4, <4>5
    <3>2. CASE d # c
      BY <1>2, <1>4, <1>6, <3>2 DEF ReceiptInv, NotAhead
    <3>3. QED
      BY <3>1, <3>2
  <2>2. QED
    BY <2>1 DEF NotAhead
<1>10. ASSUME NEW d \in Copy \ odd'
       PROVE  Owed(d)'
  <2>1. CASE d = c
    BY <1>4, <1>5, <2>1 DEF Owed
  <2>2. CASE d # c
    BY <1>2, <1>4, <1>7, <2>2 DEF ReceiptInv, Owed
  <2>3. QED
    BY <2>1, <2>2
<1>11. QED
  BY <1>8, <1>9, <1>10 DEF ReceiptInv

\* What every receipt does: it moves one row to it at most, and never one
\* there is not yet.
LEMMA ReceiptMoves ==
    ASSUME ReceiptInv, OutTypes, NEW c \in Copy, NEW st \in Known, <<c, st>> \in post,
           UNCHANGED <<send, wire>>, post' \subseteq post,
           \A k \in claimed' : k \in claimed \/ k = <<c, st>>,
           \A d \in Copy : row'[d] = row[d] \/ (d = c /\ row[d] # "none" /\ row'[d] = st)
    PROVE  Senders' /\ NotAhead'
<1> USE RankFacts
<1>1. Senders'
  <2>1. \A d \in Copy : row[d] = "none" => row'[d] = "none"
    OBVIOUS
  <2>2. QED
    BY <2>1 DEF ReceiptInv, Senders, OutTypes
<1>2. wire[c] # "none" /\ Rank[st] <= Rank[wire[c]]
  BY DEF ReceiptInv, NotAhead
<1>3. \A d \in Copy : row'[d] # "none" => wire[d] # "none" /\ Rank[row'[d]] <= Rank[wire[d]]
  BY <1>2 DEF ReceiptInv, NotAhead
<1>4. \A d \in Copy, k \in Known : <<d, k>> \in post' \cup claimed' => <<d, k>> \in post \cup claimed
  OBVIOUS
<1>5. \A d \in Copy, k \in Known : <<d, k>> \in post' \cup claimed' => wire[d] # "none" /\ Rank[k] <= Rank[wire[d]]
  BY <1>4 DEF ReceiptInv, NotAhead
<1>6. NotAhead'
  BY <1>3, <1>5 DEF NotAhead
<1>7. QED
  BY <1>1, <1>6

LEMMA CommsReceiptKeeps ==
    ASSUME ReceiptInv, OutTypes, NEW c \in Copy, NEW st \in Known, CommsReceipt(c, st), UNCHANGED endpoint
    PROVE  ReceiptInv'
<1> USE RankFacts
<1>1. /\ endpoint = "comms" /\ <<c, st>> \in post /\ UNCHANGED <<send, wire, claimed>>
      /\ post' = post \/ post' = post \ {<<c, st>>}
      /\ row' = [row EXCEPT ![c] = IF @ \in Behind(st) THEN st ELSE @]
      /\ odd' = IF row[c] = "none" THEN odd \cup {c} ELSE odd
  BY DEF CommsReceipt, Delivered, Answered
<1>2. row'[c] = (IF row[c] \in Behind(st) THEN st ELSE row[c]) /\ \A d \in Copy \ {c} : row'[d] = row[d]
  BY <1>1 DEF OutTypes
<1>3. Behind(st) \subseteq Known /\ "none" \notin Known
  BY DEF Behind, Known
<1>4. Senders' /\ NotAhead'
  BY <1>1, <1>2, <1>3, ReceiptMoves
<1>5. ASSUME NEW d \in Copy \ odd'
      PROVE  Owed(d)'
  <2>1. wire[d] # "none" => row[d] = wire[d] \/ <<d, wire[d]>> \in post
    BY <1>1, <1>5 DEF ReceiptInv, Owed
  <2>2. CASE d # c
    BY <1>1, <1>2, <2>1, <2>2 DEF Owed
  <2>3. CASE d = c
    <3>1. row[c] \in Known /\ wire[c] \in Known /\ Rank[row[c]] <= Rank[wire[c]] /\ Rank[st] <= Rank[wire[c]]
      BY <1>1, <1>5, <2>3 DEF ReceiptInv, NotAhead, OutTypes, Known
    <3>2. CASE st = wire[c]
      <4>1. row[c] \in Behind(st) \/ row[c] = st
        <5>1. Rank[row[c]] \in 1..4 /\ Rank[st] \in 1..4
          BY <3>1
        <5>2. CASE Rank[row[c]] = Rank[st]
          BY <3>1, <5>2
        <5>3. CASE Rank[row[c]] < Rank[st]
          BY <3>1, <5>3 DEF Behind
        <5>4. QED
          BY <3>1, <3>2, <5>1, <5>2, <5>3
      <4>2. QED
        BY <1>1, <1>2, <2>3, <3>2, <4>1 DEF Owed
    <3>3. CASE st # wire[c]
      <4>1. <<c, wire[c]>> \in post => <<c, wire[c]>> \in post'
        BY <1>1, <3>3
      <4>2. row[c] = wire[c] => row[c] \notin Behind(st)
        <5>1. Rank[wire[c]] \in 1..4 /\ Rank[st] \in 1..4 /\ Rank[st] # Rank[wire[c]]
          BY <3>1, <3>3
        <5>2. st # "failed"
          BY <3>1, <5>1
        <5>3. QED
          BY <3>1, <5>1, <5>2 DEF Behind
      <4>3. QED
        BY <1>1, <1>2, <2>1, <2>3, <4>1, <4>2 DEF Owed
    <3>4. QED
      BY <3>2, <3>3
  <2>4. QED
    BY <2>2, <2>3
<1>6. QED
  BY <1>4, <1>5 DEF ReceiptInv

LEMMA MetaReceiptKeeps ==
    ASSUME ReceiptInv, OutTypes, NEW c \in Copy, NEW st \in Known, MetaReceipt(c, st), UNCHANGED endpoint
    PROVE  ReceiptInv'
<1> USE RankFacts
<1>1. /\ endpoint = "meta" /\ <<c, st>> \in post /\ UNCHANGED <<send, wire>>
      /\ post' = post \/ post' = post \ {<<c, st>>}
  BY DEF MetaReceipt, Delivered, Answered
<1>2. Rank[st] <= Rank[wire[c]] /\ wire[c] \in Known
  BY <1>1 DEF ReceiptInv, NotAhead, OutTypes, Known
<1>3. CASE <<c, st>> \in claimed
  <2>1. UNCHANGED <<claimed, row, odd>>
    BY <1>3 DEF MetaReceipt, Fresh
  <2>2. Senders' /\ NotAhead'
    BY <1>1, <2>1, ReceiptMoves
  <2>3. \A d \in Copy : <<d, wire[d]>> \in post \cup claimed => <<d, wire[d]>> \in post' \cup claimed'
    BY <1>1, <1>3, <2>1
  <2>4. \A d \in Copy \ odd' : Owed(d)'
    BY <1>1, <2>1, <2>3 DEF ReceiptInv, Owed
  <2>5. QED
    BY <2>2, <2>4 DEF ReceiptInv
<1>4. CASE <<c, st>> \notin claimed
  <2>1. /\ claimed' = claimed \cup {<<c, st>>}
        /\ row' = [row EXCEPT ![c] = IF @ = "none" THEN @ ELSE st]
        /\ odd' = IF row[c] = "none" \/ (\E k \in claimed : k[1] = c /\ Rank[k[2]] > Rank[st])
                  THEN odd \cup {c} ELSE odd
    BY <1>4 DEF MetaReceipt, Fresh
  <2>2. row'[c] = (IF row[c] = "none" THEN row[c] ELSE st) /\ \A d \in Copy \ {c} : row'[d] = row[d]
    BY <2>1 DEF OutTypes
  <2>3. Senders' /\ NotAhead'
    BY <1>1, <2>1, <2>2, ReceiptMoves
  <2>4. ASSUME NEW d \in Copy \ odd'
        PROVE  Owed(d)'
    <3>1. d \in Copy \ odd
      BY <2>1, <2>4
    <3>2. CASE d # c
      <4>1. \A k : <<d, k>> # <<c, st>>
        BY <3>2
      <4>2. (<<d, wire[d]>> \in claimed' <=> <<d, wire[d]>> \in claimed)
            /\ (<<d, wire[d]>> \in post' <=> <<d, wire[d]>> \in post)
        BY <1>1, <2>1, <4>1
      <4>3. QED
        BY <1>1, <2>2, <3>1, <3>2, <4>2 DEF ReceiptInv, Owed
    <3>3. CASE d = c
      <4>1. row[c] # "none" /\ ~ \E k \in claimed : k[1] = c /\ Rank[k[2]] > Rank[st]
        BY <2>1, <2>4, <3>3
      <4>2. CASE st = wire[c]
        BY <1>1, <2>1, <2>2, <3>3, <4>1, <4>2 DEF Owed
      <4>3. CASE st # wire[c]
        <5>1. Rank[wire[c]] > Rank[st]
          <6>1. Rank[wire[c]] \in 1..4 /\ Rank[st] \in 1..4 /\ Rank[wire[c]] # Rank[st]
            BY <1>2, <4>3
          <6>2. QED
            BY <1>2, <6>1
        <5>2. <<c, wire[c]>> \notin claimed
          <6>1. <<c, wire[c]>>[1] = c /\ <<c, wire[c]>>[2] = wire[c]
            OBVIOUS
          <6>2. QED
            BY <4>1, <5>1, <6>1
        <5>3. <<c, wire[c]>> \in post'
          <6>1. <<c, wire[c]>> \in post
            BY <1>1, <1>2, <3>1, <3>3, <5>2 DEF ReceiptInv, Owed, Known
          <6>2. QED
            BY <1>1, <4>3, <6>1
        <5>4. <<c, wire[c]>> \notin claimed'
          BY <2>1, <4>3, <5>2
        <5>5. QED
          BY <1>1, <3>3, <5>3, <5>4 DEF Owed
      <4>4. QED
        BY <4>2, <4>3
    <3>4. QED
      BY <3>2, <3>3
  <2>5. QED
    BY <2>3, <2>4 DEF ReceiptInv
<1>5. QED
  BY <1>3, <1>4

LEMMA LostReceiptKeeps ==
    ASSUME ReceiptInv, OutTypes, NEW c \in Copy, NEW st \in Known, ReceiptLost(c, st), UNCHANGED endpoint
    PROVE  ReceiptInv'
<1>1. /\ <<c, st>> \in post /\ post' = post \ {<<c, st>>}
      /\ odd' = odd \cup {c} /\ UNCHANGED <<send, wire, row, claimed>>
  BY DEF ReceiptLost, Answered
<1>2. Senders' /\ NotAhead'
  BY <1>1, ReceiptMoves
<1>3. ASSUME NEW d \in Copy \ odd'
      PROVE  Owed(d)'
  <2>1. d # c /\ d \in Copy \ odd
    BY <1>1, <1>3
  <2>2. \A k : <<d, k>> \in post => <<d, k>> \in post'
    BY <1>1, <2>1
  <2>3. QED
    BY <1>1, <2>1, <2>2 DEF ReceiptInv, Owed
<1>4. QED
  BY <1>2, <1>3 DEF ReceiptInv

\* What is received claims keys of its own.
LEMMA InboxKeepsReceipts ==
    ASSUME ReceiptInv, InboxNext, UNCHANGED outVars, UNCHANGED endpoint
    PROVE  ReceiptInv'
<1>1. claimed' = claimed \/ \E m : claimed' = claimed \cup {<<m>>}
  BY DEF InboxNext, CommsCheck, CommsCreate, MetaClaim, MetaThread, MetaCommit, Rollback, AgentSets, LoseLead
<1>2. \A d, k : <<d, k>> \in claimed' <=> <<d, k>> \in claimed
  BY <1>1, KeysApart
<1>3. QED
  BY <1>2 DEF ReceiptInv, Senders, NotAhead, Owed, outVars

LEMMA ReceiptInvHolds == Spec => []ReceiptInv
<1>1. Init => ReceiptInv
  BY DEF Init, OutboxInit, WebhooksInit, NoSend, ReceiptInv, Senders, NotAhead, Owed
<1>2. TypeInv /\ ReceiptInv /\ [Next]_vars => ReceiptInv'
  <2> SUFFICES ASSUME TypeInv, ReceiptInv, [Next]_vars
               PROVE  ReceiptInv'
    OBVIOUS
  <2>1. OutTypes
    BY TypesJoin
  <2>2. CASE OutboxNext /\ UNCHANGED endpoint
    <3>1. ASSUME NEW s \in Send, UNCHANGED claimed,
                 \/ Queue(s) \/ NotConnected(s) \/ Record(s) \/ Log(s) \/ Fails(s) \/ Dies(s)
                 \/ \E c \in Copy : Hand(s, c) \/ HandUnanswered(s, c)
          PROVE  ReceiptInv'
      BY <2>1, <2>2, <3>1, TaskKeepsReceipts
    <3>2. ASSUME NEW c \in Copy, Progress(c), UNCHANGED claimed
          PROVE  ReceiptInv'
      BY <2>1, <2>2, <3>2, ProgressKeepsReceipts
    <3>3. ASSUME NEW c \in Copy, NEW st \in Status \ {"none"},
                 CommsReceipt(c, st) \/ MetaReceipt(c, st) \/ ReceiptLost(c, st)
          PROVE  ReceiptInv'
      BY <2>1, <2>2, <3>3, CommsReceiptKeeps, MetaReceiptKeeps, LostReceiptKeeps DEF Known
    <3>4. QED
      BY <2>2, <3>1, <3>2, <3>3 DEF OutboxNext
  <2>3. CASE InboxNext /\ UNCHANGED outVars /\ UNCHANGED endpoint
    BY <2>3, InboxKeepsReceipts
  <2>4. CASE UNCHANGED vars
    BY <2>4 DEF vars, ReceiptInv, Senders, NotAhead, Owed
  <2>5. QED
    BY <2>2, <2>3, <2>4 DEF Next
<1>3. QED
  BY <1>1, <1>2, TypeInvHolds, PTL DEF Spec

\* However often, late or out of order the receipts come, a row without a
\* receipt still to come says how far the provider got, but for copies with a
\* receipt that was lost, came before the row, or after a higher one.
THEOREM ReceiptsHold == Spec => []ReceiptsAgree
<1>1. ASSUME TypeInv, ReceiptInv
      PROVE  ReceiptsAgree
  <2>1. ASSUME NEW c \in Copy, row[c] # "none", row[c] # wire[c], c \notin odd
        PROVE  \E r \in post : r[1] = c
    <3>1. wire[c] # "none" /\ Owed(c) /\ endpoint \in Endpoints
      BY <1>1, <2>1, TypesJoin DEF ReceiptInv, NotAhead, ClaimTypes
    <3>2. <<c, wire[c]>> \in post
      BY <2>1, <3>1 DEF Owed, Endpoints
    <3>3. <<c, wire[c]>>[1] = c
      OBVIOUS
    <3>4. QED
      BY <3>2, <3>3
  <2>2. QED
    BY <2>1 DEF ReceiptsAgree
<1>2. QED
  BY <1>1, TypeInvHolds, ReceiptInvHolds, PTL

-----------------------------------------------------------------------------
(* What is received.  Two handlers at work at the same time have met.  At   *)
(* "comms" only a message whose deliveries met can be recorded twice.  At   *)
(* "meta" a message at work is not claimed yet and nobody else works on it; *)
(* as long as no two messages met, what its handler read of the threads is  *)
(* still true, and no other lead has the number than the one it found.      *)

Meets ==
    \A g, h \in Handler : Busy(g) /\ Busy(h) /\ g # h => {handler[g].msg, handler[h].msg} \in met

OneLead == \A k, l \in Found : k = l

CommsInv ==
    /\ \A h \in Handler : handler[h].pc \in {"idle", "create"}
    /\ \A m \in Message : \A i \in DOMAIN stored[m] : stored[m][i].thread = None
    /\ OneLead
    /\ \A m \in Message : {m} \notin met =>
          /\ Len(stored[m]) <= 1
          /\ (\E h \in Handler : Busy(h) /\ handler[h].msg = m) => stored[m] = <<>>

Claiming ==
    /\ \A h \in Handler : handler[h].pc \in {"idle", "thread", "write"}
    /\ \A m \in Message : Len(stored[m]) <= 1 /\ (<<m>> \notin claimed => stored[m] = <<>>)
    /\ \A h \in Handler : Busy(h) =>
          /\ <<handler[h].msg>> \notin claimed
          /\ \A g \in Handler : Busy(g) /\ handler[g].msg = handler[h].msg => g = h

Snapshot(h) ==
    /\ Found \subseteq {handler[h].lead}
    /\ handler[h].lead # None => handler[h].lead \in DOMAIN lead
    /\ handler[h].pc = "write" =>
          /\ handler[h].thread = LatestOpen(thread)
          /\ handler[h].seen = IF handler[h].thread = None THEN NoAd ELSE thread[handler[h].thread].ad
InThread(m, at, ts) ==
    /\ at.thread \in DOMAIN ts
    /\ ts[at.thread].lead \in {at.lead} \cup (DOMAIN lead \ Found)
    /\ Clicked[m] = NoAd \/ ts[at.thread].ad = Clicked[m]
OneNumber ==
    /\ OneLead /\ \A t \in DOMAIN thread : thread[t].lead \in DOMAIN lead
    /\ \A m \in Message : \A i \in DOMAIN stored[m] : InThread(m, stored[m][i], thread)
    /\ \A h \in Handler : Busy(h) => Snapshot(h)

InboundInv ==
    /\ Meets
    /\ endpoint = "comms" => CommsInv
    /\ endpoint = "meta" => Claiming /\ (Apart => OneNumber)

LEMMA MeetsKept ==
    ASSUME Meets, met \subseteq met',
           \A g \in Handler : handler'[g].pc # "idle" =>
               handler[g].pc # "idle" /\ handler'[g].msg = handler[g].msg
    PROVE  Meets'
BY DEF Meets, Busy

\* The observer sees h meet everybody at work.
LEMMA TakeUpMeets ==
    ASSUME InTypes, Meets, NEW h \in Handler, NEW m \in Message, TakeUp(h, m),
           handler'[h].msg = m \/ handler'[h].pc = "idle",
           \A g \in Handler \ {h} : handler'[g] = handler[g]
    PROVE  Meets'
<1>1. \A g \in Handler : Busy(g) => {m, handler[g].msg} \in met'
  BY DEF TakeUp
<1>2. met \subseteq met'
  BY DEF TakeUp
<1>3. ASSUME NEW f \in Handler, NEW g \in Handler, Busy(f)', Busy(g)', f # g
      PROVE  {handler'[f].msg, handler'[g].msg} \in met'
  <2>1. CASE f = h
    <3>1. handler'[f].msg = m /\ handler'[g] = handler[g] /\ Busy(g)
      BY <1>3, <2>1 DEF Busy
    <3>2. QED
      BY <1>1, <3>1
  <2>2. CASE g = h
    <3>1. handler'[g].msg = m /\ handler'[f] = handler[f] /\ Busy(f)
      BY <1>3, <2>2 DEF Busy
    <3>2. {handler'[f].msg, handler'[g].msg} = {m, handler[f].msg}
      BY <3>1
    <3>3. QED
      BY <1>1, <3>1, <3>2
  <2>3. CASE f # h /\ g # h
    BY <1>2, <1>3, <2>3 DEF Meets, Busy
  <2>4. QED
    BY <2>1, <2>2, <2>3
<1>4. QED
  BY <1>3 DEF Meets

LEMMA ApartBefore ==
    ASSUME met \subseteq met', Apart'
    PROVE  Apart
BY DEF Apart

\* A handler that stops leaves the others and the rest alone.
LEMMA StopKeeps ==
    ASSUME InTypes, InboundInv, NEW h \in Handler, SetHandler(h, Idle),
           UNCHANGED <<endpoint, claimed, policy, lead, thread, stored, posts, met>>
    PROVE  InboundInv'
<1>1. handler'[h].pc = "idle" /\ \A g \in Handler \ {h} : handler'[g] = handler[g]
  BY DEF SetHandler, InTypes, Idle
<1>2. \A g \in Handler : handler'[g].pc # "idle" => handler[g].pc # "idle" /\ handler'[g] = handler[g]
  BY <1>1
<1>3. Meets'
  BY <1>2, MeetsKept DEF InboundInv
<1>4. endpoint' = "comms" => CommsInv'
  BY <1>1, <1>2 DEF InboundInv, CommsInv, OneLead, Found, Busy
<1>5. endpoint' = "meta" => Claiming'
  BY <1>1, <1>2 DEF InboundInv, Claiming, Busy
<1>6. endpoint' = "meta" => (Apart' => OneNumber')
  BY <1>1, <1>2 DEF InboundInv, OneNumber, OneLead, Found, Snapshot, InThread, Busy, Apart
<1>7. QED
  BY <1>3, <1>4, <1>5, <1>6 DEF InboundInv

LEMMA CommsCheckKeeps ==
    ASSUME InTypes, InboundInv, NEW h \in Handler, NEW m \in Message, CommsCheck(h, m), UNCHANGED endpoint
    PROVE  InboundInv'
<1>1. /\ endpoint = "comms" /\ TakeUp(h, m) /\ ~Busy(h)
      /\ UNCHANGED <<claimed, policy, lead, thread, stored>>
  BY DEF CommsCheck, TakeUp
<1>2. /\ \A g \in Handler \ {h} : handler'[g] = handler[g]
      /\ \/ handler'[h] = handler[h]
         \/ stored[m] = <<>> /\ handler'[h].pc = "create" /\ handler'[h].msg = m
  <2>1. CASE UNCHANGED handler
    BY <2>1
  <2>2. ASSUME NEW l \in Found, stored[m] = <<>>,
               SetHandler(h, [Idle EXCEPT !.pc = "create", !.msg = m, !.lead = l])
        PROVE  /\ \A g \in Handler \ {h} : handler'[g] = handler[g]
               /\ stored[m] = <<>> /\ handler'[h].pc = "create" /\ handler'[h].msg = m
    <3> DEFINE r == [Idle EXCEPT !.pc = "create", !.msg = m, !.lead = l]
    <3>1. r.pc = "create" /\ r.msg = m
      BY IdleType DEF HandlerRec
    <3> HIDE DEF r
    <3>2. handler' = [handler EXCEPT ![h] = r]
      BY <2>2 DEF SetHandler, r
    <3>3. QED
      BY <2>2, <3>1, <3>2 DEF InTypes
  <2>3. QED
    BY <2>1, <2>2 DEF CommsCheck
<1>3. handler[h].pc = "idle"
  BY <1>1 DEF Busy
<1>4. Meets'
  <2>1. handler'[h].msg = m \/ handler'[h].pc = "idle"
    BY <1>2, <1>3
  <2>2. QED
    BY <1>1, <1>2, <2>1, TakeUpMeets DEF InboundInv
<1>5. met \subseteq met'
  BY <1>1 DEF TakeUp
<1>6. CommsInv'
  <2>1. \A g \in Handler : handler'[g].pc \in {"idle", "create"}
    BY <1>1, <1>2 DEF InboundInv, CommsInv
  <2>2. ASSUME NEW n \in Message, {n} \notin met'
        PROVE  /\ Len(stored[n]) <= 1
               /\ (\E g \in Handler : Busy(g)' /\ handler'[g].msg = n) => stored[n] = <<>>
    BY <1>1, <1>2, <1>3, <1>5, <2>2 DEF InboundInv, CommsInv, Busy
  <2>3. QED
    BY <1>1, <2>1, <2>2 DEF InboundInv, CommsInv, OneLead, Found
<1>7. QED
  BY <1>1, <1>4, <1>6 DEF InboundInv

LEMMA CommsCreateKeeps ==
    ASSUME InTypes, InboundInv, endpoint \in Endpoints, NEW h \in Handler, CommsCreate(h), UNCHANGED endpoint
    PROVE  InboundInv'
<1> DEFINE m == handler[h].msg
           x == [lead |-> handler[h].lead, thread |-> None]
<1>1. /\ handler[h].pc = "create" /\ SetHandler(h, Idle)
      /\ stored' = [stored EXCEPT ![m] = Append(stored[m], x)]
      /\ UNCHANGED <<claimed, policy, lead, thread, posts, met>>
  BY DEF CommsCreate, Store
<1>2. m \in Message /\ x \in Stored /\ x.thread = None /\ stored[m] \in Seq(Stored)
  BY DEF InTypes, HandlerRec, Stored, None
<1> HIDE DEF x
<1>3. /\ stored'[m] = Append(stored[m], x) /\ Len(stored'[m]) = Len(stored[m]) + 1
      /\ \A i \in DOMAIN stored'[m] : (i \in DOMAIN stored[m] /\ stored'[m][i] = stored[m][i]) \/ stored'[m][i] = x
      /\ \A n \in Message \ {m} : stored'[n] = stored[n]
  <2>1. stored'[m] = Append(stored[m], x) /\ \A n \in Message \ {m} : stored'[n] = stored[n]
    BY <1>1, <1>2 DEF InTypes
  <2>2. QED
    BY <1>2, <2>1, AppendProperties, LenProperties
<1>4. handler'[h].pc = "idle" /\ \A g \in Handler \ {h} : handler'[g] = handler[g]
  BY <1>1 DEF SetHandler, InTypes, Idle
<1>5. Meets'
  BY <1>1, <1>4, MeetsKept DEF InboundInv
<1>6. endpoint = "comms"
  BY <1>1 DEF InboundInv, Claiming, Endpoints
<1>7. CommsInv'
  <2>1. \A g \in Handler : handler'[g].pc \in {"idle", "create"}
    BY <1>4, <1>6 DEF InboundInv, CommsInv
  <2>2. \A n \in Message : \A i \in DOMAIN stored'[n] : stored'[n][i].thread = None
    <3>1. \A n \in Message : \A i \in DOMAIN stored[n] : stored[n][i].thread = None
      BY <1>6 DEF InboundInv, CommsInv
    <3>2. \A i \in DOMAIN stored'[m] : stored'[m][i].thread = None
      BY <1>2, <1>3, <3>1
    <3>3. \A n \in Message \ {m} : \A i \in DOMAIN stored'[n] : stored'[n][i].thread = None
      BY <1>3, <3>1
    <3>4. QED
      BY <3>2, <3>3
  <2>3. ASSUME NEW n \in Message, {n} \notin met
        PROVE  /\ Len(stored'[n]) <= 1
               /\ (\E g \in Handler : Busy(g)' /\ handler'[g].msg = n) => stored'[n] = <<>>
    <3>1. CASE n = m
      <4>1. stored[m] = <<>> /\ Len(stored[m]) = 0
        BY <1>1, <1>6, <2>3, <3>1 DEF InboundInv, CommsInv, Busy
      <4>2. \A g \in Handler : Busy(g)' => handler'[g].msg # m
        <5>1. ASSUME NEW g \in Handler, Busy(g)', handler'[g].msg = m
              PROVE  FALSE
          <6>1. g # h /\ Busy(g) /\ Busy(h) /\ handler[g].msg = m
            BY <1>1, <1>4, <5>1 DEF Busy
          <6>2. {m, m} \in met
            BY <6>1 DEF InboundInv, Meets
          <6>3. {m, m} = {m}
            OBVIOUS
          <6>4. QED
            BY <2>3, <3>1, <6>2, <6>3
        <5>2. QED
          BY <5>1
      <4>3. Len(stored'[m]) <= 1
        BY <1>3, <4>1
      <4>4. QED
        BY <3>1, <4>2, <4>3
    <3>2. CASE n # m
      BY <1>3, <1>4, <1>6, <2>3, <3>2 DEF InboundInv, CommsInv, Busy
    <3>3. QED
      BY <3>1, <3>2
  <2>4. QED
    BY <1>1, <1>6, <2>1, <2>2, <2>3 DEF InboundInv, CommsInv, OneLead, Found
<1>8. QED
  BY <1>5, <1>6, <1>7 DEF InboundInv

LEMMA MetaClaimKeeps ==
    ASSUME InTypes, InboundInv, NEW h \in Handler, NEW m \in Message, MetaClaim(h, m), UNCHANGED endpoint
    PROVE  InboundInv'
<1> DEFINE r == [Idle EXCEPT !.pc = "thread", !.msg = m, !.lead = Contact,
                             !.reopens = policy.reopen /\ Contact # None /\ lead[Contact] \in Closed]
<1>1. /\ endpoint = "meta" /\ ~Held(m) /\ TakeUp(h, m) /\ ~Busy(h)
      /\ UNCHANGED <<policy, lead, thread, stored>>
      /\ \/ UNCHANGED handler /\ (claimed' = claimed \/ claimed' = claimed \cup {<<m>>})
         \/ SetHandler(h, r) /\ claimed' = claimed /\ <<m>> \notin claimed
  BY DEF MetaClaim, TakeUp
<1>2. r.pc = "thread" /\ r.msg = m /\ r.lead = Contact
  BY IdleType DEF HandlerRec
<1> HIDE DEF r
<1>3. /\ \A g \in Handler \ {h} : handler'[g] = handler[g]
      /\ \/ handler'[h] = handler[h] /\ (claimed' = claimed \/ claimed' = claimed \cup {<<m>>})
         \/ handler'[h] = r /\ claimed' = claimed /\ <<m>> \notin claimed
  BY <1>1 DEF SetHandler, InTypes
<1>4. handler[h].pc = "idle" /\ \A g \in Handler : Busy(g) => handler[g].msg # m
  BY <1>1 DEF Busy, Held
<1>5. Meets'
  <2>1. handler'[h].msg = m \/ handler'[h].pc = "idle"
    BY <1>2, <1>3, <1>4
  <2>2. QED
    BY <1>1, <1>3, <2>1, TakeUpMeets DEF InboundInv
<1>6. met \subseteq met' /\ Claiming
  BY <1>1 DEF TakeUp, InboundInv
<1>7. Claiming'
  <2>1. \A g \in Handler : handler'[g].pc \in {"idle", "thread", "write"}
    BY <1>2, <1>3, <1>6 DEF Claiming
  <2>2. \A n \in Message : Len(stored[n]) <= 1 /\ (<<n>> \notin claimed' => stored[n] = <<>>)
    BY <1>3, <1>6 DEF Claiming
  <2>3. ASSUME NEW g \in Handler, handler'[g].pc # "idle"
        PROVE  /\ <<handler'[g].msg>> \notin claimed'
               /\ \A f \in Handler : handler'[f].pc # "idle" /\ handler'[f].msg = handler'[g].msg => f = g
    <3>1. CASE handler'[h] = handler[h]
      <4>1. g # h /\ handler'[g] = handler[g] /\ Busy(g) /\ handler[g].msg # m
        BY <1>3, <1>4, <2>3, <3>1 DEF Busy
      <4>2. <<handler[g].msg>> \notin claimed'
        <5>1. <<handler[g].msg>> # <<m>>
          BY <4>1
        <5>2. QED
          BY <1>3, <1>6, <4>1, <5>1 DEF Claiming
      <4>3. QED
        BY <1>3, <1>6, <3>1, <4>1, <4>2 DEF Claiming, Busy
    <3>2. CASE handler'[h] = r /\ claimed' = claimed /\ <<m>> \notin claimed
      BY <1>2, <1>3, <1>4, <1>6, <2>3, <3>2 DEF Claiming, Busy
    <3>3. QED
      BY <1>3, <3>1, <3>2
  <2>4. QED
    BY <1>1, <2>1, <2>2, <2>3 DEF Claiming, Busy
<1>8. ASSUME Apart'
      PROVE  OneNumber'
  <2>1. OneNumber
    BY <1>1, <1>6, <1>8, ApartBefore DEF InboundInv
  <2>2. Found' = Found
    BY <1>1 DEF Found
  <2>3. Found \subseteq {Contact} /\ (Contact # None => Contact \in DOMAIN lead)
    BY <2>1, ContactFound DEF InTypes, OneNumber, OneLead, Found
  <2>4. \A g \in Handler : handler'[g].pc # "idle" => Snapshot(g)'
    <3>1. ASSUME NEW g \in Handler, handler'[g].pc # "idle", handler'[g] = handler[g]
          PROVE  Snapshot(g)'
      BY <1>1, <2>1, <2>2, <3>1 DEF OneNumber, Snapshot, Busy
    <3>2. ASSUME handler'[h] = r
          PROVE  Snapshot(h)'
      BY <1>1, <1>2, <2>2, <2>3, <3>2 DEF Snapshot
    <3>3. QED
      BY <1>3, <3>1, <3>2
  <2>5. QED
    BY <1>1, <2>1, <2>2, <2>4 DEF OneNumber, OneLead, InThread, Busy
<1>9. QED
  BY <1>1, <1>5, <1>7, <1>8 DEF InboundInv

LEMMA MetaThreadKeeps ==
    ASSUME InTypes, InboundInv, endpoint \in Endpoints, NEW h \in Handler, MetaThread(h), UNCHANGED endpoint
    PROVE  InboundInv'
<1> DEFINE t == LatestOpen(thread)
           ad == IF t = None THEN NoAd ELSE thread[t].ad
           r == [handler[h] EXCEPT !.pc = "write", !.thread = t, !.seen = ad]
<1>1. /\ handler[h].pc = "thread" /\ SetHandler(h, r)
      /\ UNCHANGED <<claimed, policy, lead, thread, stored, posts, met>>
  BY DEF MetaThread
<1>2. r.pc = "write" /\ r.msg = handler[h].msg /\ r.lead = handler[h].lead /\ r.thread = t /\ r.seen = ad
  <2>1. handler[h] \in HandlerRec
    BY DEF InTypes
  <2> HIDE DEF t, ad
  <2>2. QED
    BY <2>1 DEF HandlerRec
<1> HIDE DEF r
<1>3. handler'[h] = r /\ \A g \in Handler \ {h} : handler'[g] = handler[g]
  BY <1>1 DEF SetHandler, InTypes
<1>4. \A g \in Handler : /\ handler'[g].pc # "idle" => handler[g].pc # "idle"
                         /\ handler'[g].msg = handler[g].msg /\ handler'[g].lead = handler[g].lead
  BY <1>1, <1>2, <1>3
<1>5. Meets'
  BY <1>1, <1>4, MeetsKept DEF InboundInv
<1>6. endpoint = "meta"
  BY <1>1 DEF InboundInv, CommsInv, Endpoints
<1>7. Claiming'
  <2>1. \A g \in Handler : handler'[g].pc \in {"idle", "thread", "write"}
    BY <1>2, <1>3, <1>6 DEF InboundInv, Claiming
  <2>2. QED
    BY <1>1, <1>4, <1>6, <2>1 DEF InboundInv, Claiming, Busy
<1>8. ASSUME Apart'
      PROVE  OneNumber'
  <2>1. OneNumber
    BY <1>1, <1>6, <1>8, ApartBefore DEF InboundInv
  <2>0. Found' = Found
    BY <1>1 DEF Found
  <2>2. ASSUME NEW g \in Handler, handler'[g].pc # "idle"
        PROVE  Snapshot(g)'
    <3>1. CASE g = h
      <4>1. Found \subseteq {handler[h].lead} /\ (handler[h].lead # None => handler[h].lead \in DOMAIN lead)
        BY <1>1, <2>1 DEF OneNumber, Snapshot, Busy
      <4>2. QED
        BY <1>1, <1>2, <1>3, <2>0, <3>1, <4>1 DEF Snapshot
    <3>2. CASE g # h
      BY <1>1, <1>3, <2>0, <2>1, <2>2, <3>2 DEF OneNumber, Snapshot, Busy
    <3>3. QED
      BY <3>1, <3>2
  <2>3. QED
    BY <1>1, <2>0, <2>1, <2>2 DEF OneNumber, OneLead, InThread, Busy
<1>9. QED
  BY <1>1, <1>5, <1>6, <1>7, <1>8 DEF InboundInv

\* What becomes of a lead leaves the rest alone: at most one has the number.
LEMMA LeadMoves ==
    ASSUME InTypes, InboundInv, UNCHANGED <<endpoint, claimed, thread, stored, handler, met>>,
           DOMAIN lead' = DOMAIN lead, Found' \subseteq Found
    PROVE  InboundInv'
<1>1. Meets'
  BY DEF InboundInv, Meets, Busy
<1>2. endpoint = "comms" => CommsInv'
  BY DEF InboundInv, CommsInv, OneLead, Busy
<1>3. endpoint = "meta" => Claiming'
  BY DEF InboundInv, Claiming, Busy
<1>4. ASSUME endpoint = "meta", Apart'
      PROVE  OneNumber'
  <2>1. OneNumber
    BY <1>4 DEF InboundInv, Apart
  <2>2. OneLead' /\ \A t \in DOMAIN thread' : thread'[t].lead \in DOMAIN lead'
    BY <2>1 DEF OneNumber, OneLead
  <2>3. \A m \in Message : \A i \in DOMAIN stored'[m] : InThread(m, stored[m][i], thread)'
    BY <2>1 DEF OneNumber, InThread
  <2>4. \A h \in Handler : Busy(h)' => Snapshot(h)'
    BY <2>1 DEF OneNumber, Snapshot, Busy
  <2>5. QED
    BY <2>2, <2>3, <2>4 DEF OneNumber
<1>5. QED
  BY <1>1, <1>2, <1>3, <1>4 DEF InboundInv

LEMMA LeadChanges ==
    ASSUME InTypes, InboundInv, NEW l \in DOMAIN lead,
           LoseLead(l) \/ \E st \in LeadStatus : AgentSets(l, st), UNCHANGED endpoint
    PROVE  InboundInv'
<1>1. /\ l \in Found /\ UNCHANGED <<claimed, policy, thread, stored, handler, posts, met>>
      /\ \E st \in LeadStatus : lead' = [lead EXCEPT ![l] = st]
  BY DEF LoseLead, AgentSets, LeadStatus
<1>2. DOMAIN lead' = DOMAIN lead /\ \A k \in DOMAIN lead : k # l => lead'[k] = lead[k]
  BY <1>1
<1>3. Found' \subseteq Found
  BY <1>1, <1>2 DEF Found
<1>4. QED
  BY <1>1, <1>2, <1>3, LeadMoves

\* The receipts claim keys of their own.
LEMMA OutboxKeepsInbound ==
    ASSUME InboundInv, OutboxNext, UNCHANGED inVars, UNCHANGED endpoint
    PROVE  InboundInv'
<1>1. claimed' = claimed \/ \E c, st : claimed' = claimed \cup {<<c, st>>}
  BY DEF OutboxNext, CommsReceipt, MetaReceipt, ReceiptLost
<1>2. \A m : <<m>> \in claimed' <=> <<m>> \in claimed
  BY <1>1, KeysApart
<1>3. Meets'
  BY DEF InboundInv, Meets, Busy, inVars
<1>4. endpoint = "comms" => CommsInv'
  BY DEF InboundInv, CommsInv, OneLead, Found, Busy, inVars
<1>5. endpoint = "meta" => Claiming'
  BY <1>2 DEF InboundInv, Claiming, Busy, inVars
<1>6. endpoint = "meta" => (Apart' => OneNumber')
  BY DEF InboundInv, OneNumber, OneLead, Found, Snapshot, InThread, Busy, Apart, inVars
<1>7. QED
  BY <1>3, <1>4, <1>5, <1>6 DEF InboundInv

\* The threads after a message whose handler read what is still true.
LEMMA ThreadedOne ==
    ASSUME thread \in Seq(Thread), OneOpen(thread), NEW l \in Nat, NEW r \in HandlerRec, r.thread = LatestOpen(thread),
           r.seen = IF r.thread = None THEN NoAd ELSE thread[r.thread].ad,
           NEW ts, ts = Threaded(r, l), NEW at, at = IF Reuses(r) THEN r.thread ELSE LatestOpen(ts)
    PROVE  /\ \A t \in DOMAIN ts : ts[t].lead = l \/ (t \in DOMAIN thread /\ ts[t].lead = thread[t].lead)
           /\ \A t \in DOMAIN thread : t \in DOMAIN ts /\ ts[t].lead = thread[t].lead /\ (ts[t].ad = thread[t].ad \/ thread[t].ad = NoAd)
           /\ at \in DOMAIN ts /\ (Clicked[r.msg] = NoAd \/ ts[at].ad = Clicked[r.msg])
<1>0. ts \in Seq(Thread) /\ OneOpen(ts) /\ r.msg \in Message
  BY ThreadedType DEF HandlerRec
<1>1. CASE Reuses(r)
  <2> DEFINE ad == IF Clicked[r.msg] # NoAd /\ r.seen = NoAd THEN Clicked[r.msg] ELSE thread[r.thread].ad
             one == [thread[r.thread] EXCEPT !.ad = ad]
  <2>1. ts = [thread EXCEPT ![r.thread] = one]
    BY <1>1 DEF Threaded
  <2>2. r.thread \in DOMAIN thread /\ r.seen = thread[r.thread].ad
    BY <1>1, LatestIsOpen DEF Reuses, OpenThreads
  <2>3. thread[r.thread] \in Thread /\ ad \in Ad \cup {NoAd}
    <3>1. thread[r.thread] \in Thread
      BY <2>2, ElementOfSeq, LenProperties
    <3>2. thread[r.thread].ad \in Ad \cup {NoAd} /\ Clicked[r.msg] \in Ad \cup {NoAd}
      BY <1>0, <3>1 DEF Thread
    <3>3. QED
      BY <3>1, <3>2
  <2>4. one \in Thread /\ one.lead = thread[r.thread].lead /\ one.ad = ad
    <3> HIDE DEF ad
    <3>1. QED
      BY <2>3 DEF Thread
  <2>5. Clicked[r.msg] = NoAd \/ ad = Clicked[r.msg]
    BY <1>1, <2>2 DEF Reuses, NewAd
  <2>6. ad = thread[r.thread].ad \/ thread[r.thread].ad = NoAd
    BY <2>2
  <2> HIDE DEF ad, one
  <2>7. DOMAIN ts = DOMAIN thread /\ \A t \in DOMAIN thread : ts[t] = IF t = r.thread THEN one ELSE thread[t]
    BY <2>1
  <2>8. \A t \in DOMAIN ts : ts[t].lead = l \/ (t \in DOMAIN thread /\ ts[t].lead = thread[t].lead)
    BY <2>2, <2>4, <2>7
  <2>9. \A t \in DOMAIN thread : t \in DOMAIN ts /\ ts[t].lead = thread[t].lead /\ (ts[t].ad = thread[t].ad \/ thread[t].ad = NoAd)
    BY <2>4, <2>6, <2>7
  <2>10. at \in DOMAIN ts /\ (Clicked[r.msg] = NoAd \/ ts[at].ad = Clicked[r.msg])
    BY <1>1, <2>2, <2>4, <2>5, <2>7
  <2>11. QED
    BY <2>8, <2>9, <2>10
<1>2. CASE ~Reuses(r)
  <2> DEFINE rest == [t \in DOMAIN thread |-> [thread[t] EXCEPT !.open = @ /\ t # r.thread]]
             new == [lead |-> l, ad |-> Clicked[r.msg], open |-> TRUE]
  <2>1. ts = IF OpenThreads(rest) # {} THEN rest ELSE Append(rest, new)
    BY <1>2 DEF Threaded
  <2>2. DOMAIN rest = DOMAIN thread
    OBVIOUS
  <2>3. \A t \in DOMAIN thread : /\ rest[t] \in Thread /\ rest[t].lead = thread[t].lead /\ rest[t].ad = thread[t].ad
                                 /\ (rest[t].open => thread[t].open /\ t # r.thread)
    <3>1. SUFFICES ASSUME NEW t \in DOMAIN thread
                   PROVE  /\ rest[t] \in Thread /\ rest[t].lead = thread[t].lead /\ rest[t].ad = thread[t].ad
                          /\ (rest[t].open => thread[t].open /\ t # r.thread)
      OBVIOUS
    <3>2. thread[t] \in Thread
      BY ElementOfSeq, LenProperties
    <3>3. rest[t] = [thread[t] EXCEPT !.open = @ /\ t # r.thread]
      OBVIOUS
    <3> DEFINE kept == thread[t].open /\ t # r.thread
    <3>4. kept \in BOOLEAN
      BY Zenon
    <3>5. \A b \in BOOLEAN : /\ [thread[t] EXCEPT !.open = b] \in Thread
                             /\ [thread[t] EXCEPT !.open = b].open = b
                             /\ [thread[t] EXCEPT !.open = b].lead = thread[t].lead
                             /\ [thread[t] EXCEPT !.open = b].ad = thread[t].ad
      BY <3>2 DEF Thread
    <3>6. QED
      BY <3>3, <3>4, <3>5, Zenon
  <2>4. OpenThreads(rest) = {}
    <3>1. ASSUME NEW t \in OpenThreads(rest)
          PROVE  FALSE
      <4>1. t \in DOMAIN thread /\ rest[t].open
        BY <2>2, <3>1 DEF OpenThreads
      <4>2. t \in OpenThreads(thread) /\ t # r.thread
        BY <2>3, <4>1 DEF OpenThreads
      <4>3. QED
        BY <4>2, LatestIsOpen
    <3>2. QED
      BY <3>1
  <2>5. new \in Thread /\ new.lead = l /\ new.ad = Clicked[r.msg] /\ new.open
    BY <1>0 DEF Thread
  <2>6. rest \in Seq(Thread) /\ Len(rest) = Len(thread)
    <3>1. rest \in [1..Len(thread) -> Thread] /\ Len(thread) \in Nat
      BY <2>3, LenProperties
    <3> HIDE DEF rest
    <3>2. QED
      BY <3>1
  <2> HIDE DEF rest, new
  <2>7. ts = Append(rest, new)
    BY <2>1, <2>4
  <2>8. /\ DOMAIN ts = 1..(Len(thread) + 1) /\ ts[Len(thread) + 1] = new /\ Len(thread) \in Nat
        /\ DOMAIN thread = 1..Len(thread) /\ \A t \in 1..Len(thread) : ts[t] = rest[t]
    BY <2>5, <2>6, <2>7, AppendProperties, LenProperties
  <2>9. \A t \in DOMAIN ts : ts[t].lead = l \/ (t \in DOMAIN thread /\ ts[t].lead = thread[t].lead)
    BY <2>3, <2>5, <2>8
  <2>10. \A t \in DOMAIN thread : t \in DOMAIN ts /\ ts[t].lead = thread[t].lead /\ (ts[t].ad = thread[t].ad \/ thread[t].ad = NoAd)
    BY <2>3, <2>8
  <2>11. Len(thread) + 1 \in OpenThreads(ts)
    BY <2>5, <2>8 DEF OpenThreads
  <2>12. at = Len(thread) + 1
    BY <1>0, <1>2, <2>11, LatestIsOpen
  <2>13. QED
    BY <2>5, <2>8, <2>9, <2>10, <2>12
<1>3. QED
  BY <1>1, <1>2

LEMMA PairSize ==
    ASSUME NEW a, NEW b, a # b
    PROVE  Cardinality({a, b}) # 1
<1>1. IsFiniteSet({a}) /\ Cardinality({a}) = 1
  BY FS_Singleton
<1>2. Cardinality({a} \cup {b}) = 1 + 1
  BY <1>1, FS_AddElement
<1>3. {a} \cup {b} = {a, b}
  OBVIOUS
<1>4. QED
  BY <1>2, <1>3

LEMMA MetaCommitKeeps ==
    ASSUME InTypes, InTypes', InboundInv, endpoint \in Endpoints, NEW h \in Handler, MetaCommit(h), UNCHANGED endpoint
    PROVE  InboundInv'
<1> DEFINE r == handler[h]
           m == r.msg
           l == IF r.lead = None THEN Len(lead) + 1 ELSE r.lead
           at == IF Reuses(r) THEN r.thread ELSE LatestOpen(thread')
           x == [lead |-> l, thread |-> at]
<1>1. /\ r.pc = "write" /\ thread' = Threaded(r, l) /\ SetHandler(h, Idle)
      /\ stored' = [stored EXCEPT ![m] = Append(stored[m], x)]
      /\ claimed' = claimed \cup {<<m>>} /\ UNCHANGED <<policy, posts, met>>
      /\ lead' = IF r.lead = None THEN Append(lead, "new")
                 ELSE IF r.reopens /\ l \in Found THEN [lead EXCEPT ![l] = "new"] ELSE lead
  BY DEF MetaCommit, Store
<1>2. r \in HandlerRec /\ m \in Message
  BY DEF InTypes, HandlerRec
<1>3. endpoint = "meta" /\ Claiming
  BY <1>1 DEF InboundInv, CommsInv, Endpoints
<1>4. stored[m] = <<>> /\ <<m>> \notin claimed /\ \A g \in Handler : Busy(g) /\ handler[g].msg = m => g = h
  BY <1>1, <1>2, <1>3 DEF Claiming, Busy
<1>5. stored'[m] = <<x>> /\ \A n \in Message \ {m} : stored'[n] = stored[n]
  <2>1. stored'[m] = Append(<<>>, x) /\ \A n \in Message \ {m} : stored'[n] = stored[n]
    BY <1>1, <1>2, <1>4 DEF InTypes
  <2>2. Append(<<>>, x) = <<x>>
    OBVIOUS
  <2>3. QED
    BY <2>1, <2>2
<1>6. handler'[h].pc = "idle" /\ \A g \in Handler \ {h} : handler'[g] = handler[g]
  BY <1>1 DEF SetHandler, InTypes, Idle
<1> HIDE DEF r, l, at, x
<1>7. Meets'
  BY <1>1, <1>6, MeetsKept DEF InboundInv
<1>8. Claiming'
  <2>1. \A g \in Handler : handler'[g].pc \in {"idle", "thread", "write"}
    BY <1>3, <1>6 DEF Claiming
  <2>2. ASSUME NEW n \in Message
        PROVE  Len(stored'[n]) <= 1 /\ (<<n>> \notin claimed' => stored'[n] = <<>>)
    <3>1. CASE n = m
      <4>1. Len(<<x>>) <= 1
        OBVIOUS
      <4>2. QED
        BY <1>1, <1>5, <3>1, <4>1
    <3>2. CASE n # m
      BY <1>1, <1>3, <1>5, <3>2 DEF Claiming
    <3>3. QED
      BY <3>1, <3>2
  <2>3. ASSUME NEW g \in Handler, handler'[g].pc # "idle"
        PROVE  /\ <<handler'[g].msg>> \notin claimed'
               /\ \A f \in Handler : handler'[f].pc # "idle" /\ handler'[f].msg = handler'[g].msg => f = g
    <3>1. g # h /\ handler'[g] = handler[g] /\ Busy(g) /\ handler[g].msg # m
      BY <1>4, <1>6, <2>3 DEF Busy
    <3>2. <<handler[g].msg>> # <<m>>
      BY <3>1
    <3>3. QED
      BY <1>1, <1>3, <1>6, <3>1, <3>2 DEF Claiming, Busy
  <2>4. QED
    BY <2>1, <2>2, <2>3 DEF Claiming, Busy
<1>9. ASSUME Apart'
      PROVE  OneNumber'
  <2>1. Apart /\ OneNumber
    BY <1>1, <1>3, <1>9 DEF Apart, InboundInv
  <2>2. Busy(h) /\ Snapshot(h) /\ r = handler[h]
    BY <1>1, <2>1 DEF OneNumber, Busy, r
  <2>3. \A g \in Handler : Busy(g) => g = h
    <3>1. ASSUME NEW g \in Handler, Busy(g), g # h
          PROVE  FALSE
      <4>1. {handler[g].msg, m} \in met
        BY <2>2, <3>1 DEF InboundInv, Meets
      <4>2. Cardinality({handler[g].msg, m}) = 1
        BY <2>1, <4>1 DEF Apart
      <4>3. handler[g].msg # m
        BY <1>4, <3>1
      <4>4. QED
        BY <4>2, <4>3, PairSize
    <3>2. QED
      BY <3>1
  <2>4. \A g \in Handler : ~Busy(g)'
    BY <1>6, <2>3 DEF Busy
  <2>5. /\ Found' \subseteq {l} /\ l \in DOMAIN lead' /\ l \in Nat
        /\ DOMAIN lead \subseteq DOMAIN lead' /\ Found' \cap DOMAIN lead \subseteq Found
    <3>0. /\ lead \in Seq(LeadStatus) /\ DOMAIN lead = 1..Len(lead) /\ Len(lead) \in Nat
          /\ Found \subseteq 1..Len(lead) /\ Found \subseteq {r.lead} /\ None = 0
      BY <2>2, FoundLeads DEF InTypes, Snapshot, None
    <3>1. CASE r.lead = None
      <4>1. Found = {} /\ l = Len(lead) + 1 /\ lead' = Append(lead, "new")
        BY <1>1, <3>0, <3>1 DEF l
      <4>2. DOMAIN lead' = 1..(Len(lead) + 1) /\ \A k \in 1..Len(lead) : lead'[k] = lead[k]
        BY <3>0, <4>1, AppendProperties
      <4>3. Found' \cap DOMAIN lead = {}
        BY <3>0, <4>1, <4>2 DEF Found
      <4>4. Found' \subseteq {l}
        <5>1. Found' \subseteq 1..(Len(lead) + 1)
          BY <4>2 DEF Found
        <5>2. QED
          BY <3>0, <4>1, <4>3, <5>1
      <4>5. QED
        BY <3>0, <4>1, <4>2, <4>3, <4>4
    <3>2. CASE r.lead # None
      <4>1. l = r.lead /\ l \in DOMAIN lead
        BY <2>2, <3>2 DEF l, Snapshot
      <4>2. lead' = lead \/ (l \in Found /\ lead' = [lead EXCEPT ![l] = "new"])
        BY <1>1, <3>2
      <4>3. DOMAIN lead' = DOMAIN lead /\ Found' \subseteq Found
        BY <4>2 DEF Found
      <4>4. QED
        BY <3>0, <4>1, <4>3
    <3>3. QED
      BY <3>1, <3>2
  <2>6. /\ \A t \in DOMAIN thread' : thread'[t].lead = l \/ (t \in DOMAIN thread /\ thread'[t].lead = thread[t].lead)
        /\ \A t \in DOMAIN thread : /\ t \in DOMAIN thread' /\ thread'[t].lead = thread[t].lead
                                    /\ (thread'[t].ad = thread[t].ad \/ thread[t].ad = NoAd)
        /\ at \in DOMAIN thread' /\ (Clicked[m] = NoAd \/ thread'[at].ad = Clicked[m])
    <3>1. /\ r.thread = LatestOpen(thread)
          /\ r.seen = IF r.thread = None THEN NoAd ELSE thread[r.thread].ad
      BY <1>1, <2>2 DEF Snapshot
    <3>2. thread' = Threaded(r, l) /\ at = IF Reuses(r) THEN r.thread ELSE LatestOpen(thread')
      BY <1>1 DEF at
    <3>3. thread \in Seq(Thread) /\ OneOpen(thread) /\ r \in HandlerRec /\ l \in Nat
      BY <1>2, <2>5 DEF InTypes
    <3> HIDE DEF m
    <3>4. /\ \A t \in DOMAIN thread' : thread'[t].lead = l \/ (t \in DOMAIN thread /\ thread'[t].lead = thread[t].lead)
          /\ \A t \in DOMAIN thread : /\ t \in DOMAIN thread' /\ thread'[t].lead = thread[t].lead
                                      /\ (thread'[t].ad = thread[t].ad \/ thread[t].ad = NoAd)
          /\ at \in DOMAIN thread' /\ (Clicked[r.msg] = NoAd \/ thread'[at].ad = Clicked[r.msg])
      BY <3>1, <3>2, <3>3, ThreadedOne, SMTT(30)
    <3>5. QED
      BY <3>4 DEF m
  <2>7. x.lead = l /\ x.thread = at
    BY DEF x
  <2>8. \A t \in DOMAIN thread : thread[t].lead \in DOMAIN lead
    BY <2>1 DEF OneNumber
  <2>9. \A t \in DOMAIN thread' : thread'[t].lead \in DOMAIN lead'
    BY <2>5, <2>6, <2>8
  <2>10. ASSUME NEW n \in Message, NEW i \in DOMAIN stored'[n]
         PROVE  InThread(n, stored[n][i], thread)'
    <3>1. CASE n = m
      <4>1. stored'[n][i] = x
        BY <1>5, <2>10, <3>1
      <4>2. thread'[at].lead \in {l} \cup (DOMAIN lead' \ Found')
        BY <2>5, <2>6, <2>9
      <4>3. QED
        BY <2>6, <2>7, <3>1, <4>1, <4>2 DEF InThread
    <3>2. CASE n # m
      <4>1. i \in DOMAIN stored[n] /\ stored'[n][i] = stored[n][i]
        BY <1>5, <2>10, <3>2
      <4> DEFINE y == stored[n][i]
      <4>2. InThread(n, y, thread)
        BY <2>1, <4>1 DEF OneNumber
      <4>3. y.thread \in DOMAIN thread' /\ (Clicked[n] = NoAd \/ thread'[y.thread].ad = Clicked[n])
        BY <2>6, <4>2 DEF InThread
      <4>4. thread'[y.thread].lead \in {y.lead} \cup (DOMAIN lead' \ Found')
        BY <2>5, <2>6, <4>2 DEF InThread
      <4>5. QED
        BY <4>1, <4>3, <4>4 DEF InThread
    <3>3. QED
      BY <3>1, <3>2
  <2>11. OneLead'
    BY <2>5 DEF OneLead
  <2>12. QED
    BY <2>4, <2>9, <2>10, <2>11 DEF OneNumber
<1>10. QED
  BY <1>1, <1>3, <1>7, <1>8, <1>9 DEF InboundInv

LEMMA InboundInvHolds == Spec => []InboundInv
<1>1. Init => InboundInv
  <2> SUFFICES ASSUME Init
               PROVE  InboundInv
    OBVIOUS
  <2>1. /\ \A h \in Handler : handler[h].pc = "idle"
        /\ thread = <<>> /\ \A m \in Message : stored[m] = <<>>
    BY DEF Init, InboxInit, Idle
  <2>2. OneLead
    <3>1. CASE lead = <<>>
      BY <3>1 DEF OneLead, Found
    <3>2. ASSUME NEW st \in LeadStatus, lead = <<st>>
          PROVE  OneLead
      <4>1. DOMAIN lead = {1}
        BY <3>2
      <4>2. QED
        BY <4>1 DEF OneLead, Found
    <3>3. QED
      BY <3>1, <3>2 DEF Init, InboxInit
  <2>3. Meets /\ CommsInv /\ Claiming /\ OneNumber
    BY <2>1, <2>2 DEF Meets, CommsInv, Claiming, OneNumber, Busy
  <2>4. QED
    BY <2>3 DEF InboundInv
<1>2. TypeInv /\ TypeInv' /\ InboundInv /\ [Next]_vars => InboundInv'
  <2> SUFFICES ASSUME TypeInv, TypeInv', InboundInv, [Next]_vars
               PROVE  InboundInv'
    OBVIOUS
  <2>1. InTypes /\ endpoint \in Endpoints
    BY TypesJoin DEF ClaimTypes
  <2>2. InTypes'
    BY DEF TypeInv, TypeOK, Sequenced, InTypes
  <2>3. CASE OutboxNext /\ UNCHANGED inVars /\ UNCHANGED endpoint
    BY <2>3, OutboxKeepsInbound
  <2>4. CASE InboxNext /\ UNCHANGED endpoint
    <3>1. ASSUME NEW h \in Handler, NEW m \in Message, CommsCheck(h, m) \/ MetaClaim(h, m)
          PROVE  InboundInv'
      BY <2>1, <2>4, <3>1, CommsCheckKeeps, MetaClaimKeeps
    <3>2. ASSUME NEW h \in Handler, CommsCreate(h) \/ MetaThread(h) \/ MetaCommit(h)
          PROVE  InboundInv'
      BY <2>1, <2>2, <2>4, <3>2, CommsCreateKeeps, MetaThreadKeeps, MetaCommitKeeps
    <3>3. ASSUME NEW h \in Handler, Rollback(h)
          PROVE  InboundInv'
      BY <2>1, <2>4, <3>3, StopKeeps DEF Rollback
    <3>4. ASSUME NEW l \in DOMAIN lead, LoseLead(l) \/ \E st \in LeadStatus : AgentSets(l, st)
          PROVE  InboundInv'
      BY <2>1, <2>4, <3>4, LeadChanges
    <3>5. QED
      BY <2>4, <3>1, <3>2, <3>3, <3>4 DEF InboxNext
  <2>5. CASE UNCHANGED vars
    BY <2>5 DEF vars, InboundInv, Meets, CommsInv, Claiming, OneNumber, OneLead, Found, Snapshot, InThread, Apart, Busy
  <2>6. QED
    BY <2>3, <2>4, <2>5 DEF Next
<1>3. QED
  BY <1>1, <1>2, TypeInvHolds, PTL DEF Spec

\* However often a message is delivered, it is recorded once, the number has
\* one lead, each ad a thread of its own, and a message is in a thread of its
\* lead or of one that is gone; but for deliveries that met.
THEOREM InboundHolds == Spec => []InboundKept
<1>1. ASSUME TypeInv, InboundInv
      PROVE  RecordedOnce
  <2>1. InTypes /\ endpoint \in Endpoints
    BY <1>1, TypesJoin DEF ClaimTypes
  <2>2. QED
    BY <1>1, <2>1 DEF RecordedOnce, InboundInv, CommsInv, Claiming, Endpoints
<1>2. ASSUME TypeInv, InboundInv
      PROVE  ThreadsApart
  <2>1. InTypes /\ endpoint \in Endpoints
    BY <1>2, TypesJoin DEF ClaimTypes
  <2>2. Cardinality(OpenThreads(thread)) <= 1
    <3>1. CASE OpenThreads(thread) = {}
      BY <3>1, FS_EmptySet
    <3>2. ASSUME NEW t \in OpenThreads(thread)
          PROVE  Cardinality(OpenThreads(thread)) <= 1
      <4>1. OpenThreads(thread) = {t}
        BY <2>1, <3>2 DEF InTypes, OneOpen
      <4>2. Cardinality({t}) = 1
        BY FS_Singleton
      <4>3. QED
        BY <4>1, <4>2
    <3>3. QED
      BY <3>1, <3>2
  <2>3. ASSUME Apart
        PROVE  OneLead
    BY <1>2, <2>1, <2>3 DEF InboundInv, CommsInv, OneNumber, Endpoints
  <2>4. ASSUME Apart
        PROVE  Cardinality(Found) <= 1
    <3>1. CASE Found = {}
      BY <3>1, FS_EmptySet
    <3>2. ASSUME NEW l \in Found
          PROVE  Cardinality(Found) <= 1
      <4>1. Found = {l}
        BY <2>3, <2>4, <3>2 DEF OneLead
      <4>2. Cardinality({l}) = 1
        BY FS_Singleton
      <4>3. QED
        BY <4>1, <4>2
    <3>3. QED
      BY <3>1, <3>2
  <2>5. CASE endpoint = "comms"
    BY <1>2, <2>2, <2>4, <2>5 DEF ThreadsApart, InboundInv, CommsInv
  <2>6. CASE endpoint = "meta"
    BY <1>2, <2>2, <2>4, <2>6 DEF ThreadsApart, InboundInv, OneNumber, InThread
  <2>7. QED
    BY <2>1, <2>5, <2>6 DEF Endpoints
<1>3. TypeInv /\ InboundInv => InboundKept
  BY <1>1, <1>2 DEF InboundKept
<1>4. QED
  BY <1>3, TypeInvHolds, InboundInvHolds, PTL
=============================================================================

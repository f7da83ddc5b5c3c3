-------------------------------- MODULE Inbox --------------------------------
(***************************************************************************)
(* WhatsApp messages from one customer's number, delivered at least once   *)
(* to one of the two endpoints.  "comms" records a message of a number it  *)
(* knows in two statements; "meta" finds or makes the lead and the open    *)
(* thread in one transaction that claims the message's id.  A message that *)
(* follows a click on an ad carries the ad.                                *)
(***************************************************************************)
EXTENDS Webhooks

CONSTANTS
    Message,      \* messages of the customer
    Ad, NoAd,     \* ads; no ad led to the message or the thread
    Clicked,      \* the ad each message carries
    Handler,      \* web requests or tasks at work
    MaxPosts      \* bound: deliveries of one message

ASSUME InboxAssumption ==
    /\ Message # {} /\ NoAd \notin Ad
    /\ Clicked \in [Message -> Ad \cup {NoAd}] /\ MaxPosts \in Nat

VARIABLES
    policy,       \* who may become a lead, and whether a closed one is reopened
    lead,         \* status of the leads with the number, in order of creation
    thread,       \* conversations: the lead, the ad, still open
    stored,       \* the rows of each message: its lead and thread
    handler,      \* what is being processed
    posts,        \* deliveries of each message so far
    met           \* observer: pairs of messages whose processing overlapped

inVars == <<policy, lead, thread, stored, handler, posts, met>>

\* gone: it was deleted, or has another number now.
LeadStatus == {"new", "lost", "converted", "gone"}
Closed == {"lost"}
Policies == [create : {"all", "ads", "none"}, reopen : BOOLEAN]
None == 0         \* no lead, no thread

Thread == [lead : Nat, ad : Ad \cup {NoAd}, open : BOOLEAN]
Stored == [lead : Nat, thread : Nat]
HandlerRec == [pc : {"idle", "create", "thread", "write"}, msg : Message,
               lead : Nat, reopens : BOOLEAN, thread : Nat, seen : Ad \cup {NoAd}]
Idle == [pc |-> "idle", msg |-> CHOOSE m \in Message : TRUE, lead |-> None, reopens |-> FALSE,
         thread |-> None, seen |-> NoAd]

InboxInit ==
    /\ policy \in Policies
    /\ lead \in {<<>>} \cup {<<st>> : st \in LeadStatus \ {"gone"}}
    /\ thread = <<>> /\ stored = [m \in Message |-> <<>>]
    /\ handler = [h \in Handler |-> Idle]
    /\ posts = [m \in Message |-> 0] /\ met = {}

\* The leads that have the number.
Found == {l \in DOMAIN lead : lead[l] # "gone"}

Busy(h) == handler[h].pc # "idle"
SetHandler(h, r) == handler' = [handler EXCEPT ![h] = r]
Store(m, l, t) == stored' = [stored EXCEPT ![m] = Append(@, [lead |-> l, thread |-> t])]

\* Handler h takes message m up; deliveries and meetings are counted.
TakeUp(h, m) ==
    /\ ~Busy(h) /\ posts[m] < MaxPosts
    /\ posts' = [posts EXCEPT ![m] = @ + 1]
    /\ met' = met \cup {{m, handler[g].msg} : g \in {g \in Handler : Busy(g)}}

-----------------------------------------------------------------------------
(* communications/whatsapp_webhooks.py.                                    *)

\* Known already, or from a number no lead has: nothing is recorded.
CommsCheck(h, m) ==
    /\ endpoint = "comms" /\ TakeUp(h, m)
    /\ IF stored[m] # <<>> \/ Found = {}
       THEN UNCHANGED handler
       ELSE \E l \in Found :
               SetHandler(h, [Idle EXCEPT !.pc = "create", !.msg = m, !.lead = l])
    /\ UNCHANGED <<claimed, policy, lead, thread, stored>>

CommsCreate(h) ==
    /\ handler[h].pc = "create"
    /\ Store(handler[h].msg, handler[h].lead, None)
    /\ SetHandler(h, Idle)
    /\ UNCHANGED <<claimed, policy, lead, thread, posts, met>>

-----------------------------------------------------------------------------
(* integrations/meta_whatsapp.py: process_message.                         *)

\* The unique key: another transaction that holds it is waited for.
HeldNever(m) == FALSE
Held(m) == \E g \in Handler : Busy(g) /\ handler[g].msg = m

MayCreate(m) == policy.create = "all" \/ (policy.create = "ads" /\ Clicked[m] # NoAd)
\* The first lead that has the number.
Contact == IF Found = {} THEN None ELSE CHOOSE l \in Found : \A k \in Found : l <= k

\* A number nobody may become a lead with is noted and ignored for good.
MetaClaim(h, m) ==
    /\ endpoint = "meta" /\ ~Held(m) /\ TakeUp(h, m)
    /\ IF <<m>> \in claimed
       THEN UNCHANGED <<claimed, handler>>
       ELSE IF Contact = None /\ ~MayCreate(m)
       THEN claimed' = claimed \cup {<<m>>} /\ UNCHANGED handler
       ELSE /\ SetHandler(h, [Idle EXCEPT !.pc = "thread", !.msg = m,
                                 !.lead = Contact,
                                 !.reopens = policy.reopen /\ Contact # None /\ lead[Contact] \in Closed])
            /\ UNCHANGED claimed
    /\ UNCHANGED <<policy, lead, thread, stored>>

OpenThreads(ts) == {t \in DOMAIN ts : ts[t].open}
LatestOpen(ts) == IF OpenThreads(ts) = {} THEN None
                  ELSE CHOOSE t \in OpenThreads(ts) : \A u \in OpenThreads(ts) : u <= t

MetaThread(h) ==
    /\ handler[h].pc = "thread"
    /\ LET t == LatestOpen(thread) IN
       SetHandler(h, [handler[h] EXCEPT !.pc = "write", !.thread = t,
                                        !.seen = IF t = None THEN NoAd ELSE thread[t].ad])
    /\ UNCHANGED <<claimed, policy, lead, thread, stored, posts, met>>

\* A different ad than the thread that was read came from is a new campaign
\* touch, with a thread of its own.
NewAd(r) == Clicked[r.msg] # NoAd /\ r.seen # NoAd /\ Clicked[r.msg] # r.seen
Reuses(r) == r.thread # None /\ ~NewAd(r)

\* The thread that was read, labelled with its first ad; or it is closed and
\* another is opened, unless a concurrent delivery has just opened one (the
\* partial unique index).
Threaded(r, l) ==
    IF Reuses(r)
    THEN [thread EXCEPT ![r.thread].ad = IF Clicked[r.msg] # NoAd /\ r.seen = NoAd THEN Clicked[r.msg] ELSE @]
    ELSE LET rest == [t \in DOMAIN thread |-> [thread[t] EXCEPT !.open = @ /\ t # r.thread]]
         IN  IF OpenThreads(rest) # {} THEN rest
             ELSE Append(rest, [lead |-> l, ad |-> Clicked[r.msg], open |-> TRUE])

\* The lead, its thread, the message; the transaction commits.
MetaCommit(h) ==
    /\ handler[h].pc = "write"
    /\ LET r == handler[h]
           l == IF r.lead = None THEN Len(lead) + 1 ELSE r.lead
       IN  /\ lead' = IF r.lead = None THEN Append(lead, "new")
                      ELSE IF r.reopens /\ l \in Found THEN [lead EXCEPT ![l] = "new"] ELSE lead
           /\ thread' = Threaded(r, l)
           /\ Store(r.msg, l, IF Reuses(r) THEN r.thread ELSE LatestOpen(thread'))
           /\ claimed' = claimed \cup {<<r.msg>>}
    /\ SetHandler(h, Idle)
    /\ UNCHANGED <<policy, posts, met>>

-----------------------------------------------------------------------------

\* An error, the lead quota, or a worker that dies: all is rolled back, the
\* claim included, and the delivery counts as processed.
Rollback(h) ==
    /\ Busy(h)
    /\ SetHandler(h, Idle)
    /\ UNCHANGED <<claimed, policy, lead, thread, stored, posts, met>>

\* An agent works the lead. Bound: only while a delivery is in progress.
AgentSets(l, st) ==
    /\ \E h \in Handler : Busy(h)
    /\ l \in Found /\ st \notin {lead[l], "gone"}
    /\ lead' = [lead EXCEPT ![l] = st]
    /\ UNCHANGED <<claimed, policy, thread, stored, handler, posts, met>>

\* A lead is deleted, or given another number; its threads stay as they are.
LoseLead(l) ==
    /\ l \in Found
    /\ lead' = [lead EXCEPT ![l] = "gone"]
    /\ UNCHANGED <<claimed, policy, thread, stored, handler, posts, met>>

InboxNext ==
    \/ \E h \in Handler :
          \/ \E m \in Message : CommsCheck(h, m) \/ MetaClaim(h, m)
          \/ CommsCreate(h) \/ MetaThread(h) \/ MetaCommit(h) \/ Rollback(h)
    \/ \E l \in DOMAIN lead : LoseLead(l) \/ \E st \in LeadStatus : AgentSets(l, st)
=============================================================================

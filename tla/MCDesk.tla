------------------------------- MODULE MCDesk -------------------------------
(* Desk for TLC: two agents, the second a manager, and two leads.           *)
EXTENDS Desk, TLC

\* Busy, call back later, not interested and sale done, as they are seeded.
Outcomes == {"busy", "callback", "refused", "sale"}
Dispositions == [o \in Outcomes |->
    CASE o = "busy" -> [to |-> NoStatus, on |-> FALSE, retry |-> 1, dnd |-> FALSE]
      [] o = "callback" -> [to |-> "follow_up", on |-> TRUE, retry |-> 1, dnd |-> FALSE]
      [] o = "refused" -> [to |-> "not_interested", on |-> TRUE, retry |-> 0, dnd |-> TRUE]
      [] o = "sale" -> [to |-> "converted", on |-> TRUE, retry |-> 0, dnd |-> FALSE]]
Minutes == [s \in Working |-> IF s = "available" THEN 1 ELSE 2]

Short == {{"pull", "release", "call"}, {"setting", "beat", "sweep", "minute"}, {"call", "status"}, {"call", "click", "outcome"}, {"call", "edit"},
          {"call", "complete"}, {"call", "schedule", "assign"},
          {"distribute", "edit"}, {"distribute", "call", "status"}}
Long == {{"pull", "release", "tick"}, {"pull", "release", "edit"}, {"pull", "assign", "tick", "switch"},
         {"call", "crash"}, {"schedule", "complete", "tick"}, {"distribute", "assign", "unassign"},
         {"setting", "crash"}}
Recordings == {{"file", "link", "transcribe", "analyse"},
               {"file", "transcribe", "analyse", "retranscribe", "reanalyse"},
               {"file", "transcribe", "backfill", "crash"}}
Arrivals == {{"hook", "delete"}, {"hook", "hand", "expire"}, {"hook", "import"}, {"import", "delete", "drop"},
             {"hook", "rename", "drop"}, {"sync", "hook", "toggle"}, {"amend", "delete", "hand"}, {"amend", "drop", "hook"},
             {"rename", "delete"}, {"import", "hand"}, {"hook", "crash"}, {"renumber", "hook"}, {"renumber", "amend", "hand"}}
AllMixes == Short \cup Long \cup Recordings \cup Arrivals
Bounds == [m \in AllMixes |->
    CASE m \in Arrivals -> IF "amend" \in m /\ "hand" \in m THEN 4 ELSE 2
      [] m \in Short -> 3
      [] OTHER -> IF "reanalyse" \in m THEN 6 ELSE 4]

\* Bound: which leads a mix is about, who calls them and with what outcomes.
Relevant ==
    /\ "pull" \notin mix => queue.fresh
    /\ mix \cap {"pull", "distribute"} = {} => lead[2] = FreshLead
    /\ mix \cap {"setting", "file"} # {} \/ mix \in Arrivals => lead[1] = FreshLead
    /\ mix \in Arrivals \/ (arrived = <<>> /\ source.rule = "skip")
    /\ mix \cap {"import", "hand", "sync"} # {} => source.rule = "skip"
    /\ {"hook", "import"} \subseteq mix => Invalid \notin Range(job.rows)
    /\ "file" \notin mix => recording = NoRecording
    /\ "reanalyse" \in mix => made.audio <= 1
    /\ \A c \in Call : call[c].agent \in Agent \ Manager => "pull" \in mix
    /\ \A c \in Call : call[c].lead = 2 => "pull" \in mix
    /\ \A r \in Request :
          CASE req[r].op = "edit" ->
                  /\ "pull" \in mix => req[r].row.st = "interested"
                  /\ "call" \in mix => req[r].row.st = "lost"
            [] req[r].op \in {"call", "outcome"} ->
                  /\ req[r].at = 0 \/ "schedule" \in mix
                  /\ "pull" \in mix => ~req[r].d.on
                  /\ "schedule" \in mix => req[r].d.on
                  /\ "distribute" \in mix => req[r].d = Disposition["callback"]
                  /\ "click" \in mix => req[r].d.to \in {NoStatus, "follow_up"}
            [] req[r].op = "hook" -> "import" \in mix => Len(req[r].left) <= 1
            [] req[r].op \in {"transcribe", "analyse"} -> "reanalyse" \in mix => req[r].mark = "processing"
            [] OTHER -> TRUE

\* The plans of up to four leads for up to three agents, against what
\* distribution.py promises: each lead goes to one of the agents or stays, in a
\* block per agent for an equal split; nobody is planned above the cap
\* (distribution.py:97-99); in turn and by load, a lead stays only when everyone
\* is full (equal_split leaves leads though others have room); without a cap
\* the shares differ by one at most, or the loads do of those who got one.
ASSUME PlanIsSound ==
    \A method \in Methods, n \in 0..4, agents \in {<<1>>, <<1, 2>>, <<3, 1, 2>>},
       open_ \in [1..3 -> 0..2], cap \in 0..3 :
       LET p == Plan(method, n, agents, open_, cap)
           team == Range(agents)
           full(a) == open_[a] + Given(p, a) >= cap IN
       /\ p \in [1..n -> team \cup {Nobody}]
       /\ cap # NoCap => \A a \in team : Given(p, a) = 0 \/ open_[a] + Given(p, a) <= cap
       /\ Nobody \in Range(p) => cap # NoCap /\ (method = "equal_split" \/ \A a \in team : full(a))
       /\ method = "equal_split" =>
             \A j, k \in 1..n : \A i \in j..k : p[j] = p[k] /\ p[j] # Nobody => p[i] = p[j]
       /\ cap = NoCap => \A a, b \in team :
             IF method = "least_loaded"
             THEN Given(p, a) > 0 => open_[a] + Given(p, a) <= open_[b] + Given(p, b) + 1
             ELSE Given(p, a) <= Given(p, b) + 1

Payloads == {<<p>> : p \in Phone} \cup {<<p, q>> : p, q \in Phone}
Sheets == {<<p, q>> : p, q \in Phone \cup {Invalid}}
Symmetry == Permutations(Request) \cup Permutations(Call) \cup Permutations(Phone)
=============================================================================

---------------------------- MODULE Distribution ----------------------------
(***************************************************************************)
(* How a set of leads is split across agents: the plan of                  *)
(* src/apps/leads/services/distribution.py, which touches no row.  Agents  *)
(* are their primary keys; a plan is the sequence of the leads' new        *)
(* owners, in the leads' order, Nobody for the leads left over.            *)
(***************************************************************************)
EXTENDS Naturals, Sequences, FiniteSets, FiniteSetsExt, Functions

CONSTANT Nobody   \* the owner of an unassigned lead

Methods == {"round_robin", "equal_split", "least_loaded"}
NoCap == 0        \* max_per_agent is not given; given, it is at least 1

Given(owners, a) == Cardinality({k \in DOMAIN owners : owners[k] = a})
\* can_take: room below the cap, over the agent's open leads and new ones.
CanTake(owners, a, open, cap) == cap = NoCap \/ open[a] + Given(owners, a) < cap

\* One at a time to the agent with the fewest leads; the lower key breaks ties.
LeastLoadedNext(owners, agents, open, cap) ==
    LET able == {a \in Range(agents) : CanTake(owners, a, open, cap)}
        load(a) == open[a] + Given(owners, a)
    IN  IF able = {} THEN Nobody
        ELSE CHOOSE a \in able : \A b \in able :
                load(a) < load(b) \/ (load(a) = load(b) /\ a <= b)
LeastLoaded(n, agents, open, cap) ==
    LET owners[k \in 0..n] ==
            IF k = 0 THEN <<>>
            ELSE Append(owners[k - 1], LeastLoadedNext(owners[k - 1], agents, open, cap))
    IN  owners[n]

\* In turn; an agent who is full is passed over.
RoundRobin(n, agents, open, cap) ==
    LET turn(i) == agents[(i % Len(agents)) + 1]
        state[k \in 0..n] ==
            IF k = 0 THEN [owners |-> <<>>, i |-> 0]
            ELSE LET s == state[k - 1]
                     able == {j \in 0..(Len(agents) - 1) : CanTake(s.owners, turn(s.i + j), open, cap)}
                 IN  IF able = {}
                     THEN [owners |-> Append(s.owners, Nobody), i |-> s.i + Len(agents)]
                     ELSE [owners |-> Append(s.owners, turn(s.i + Min(able))), i |-> s.i + Min(able) + 1]
    IN  state[n].owners

\* A block of consecutive leads for each agent, the first n % Len(agents)
\* blocks one longer; what exceeds the agent's room is left over.
EqualSplit(n, agents, open, cap) ==
    LET base == n \div Len(agents)
        extra == n % Len(agents)
        First(i) == (i - 1) * base + Min({i - 1, extra}) + 1
        BlockOf(k) == CHOOSE i \in DOMAIN agents :
                        First(i) <= k /\ (i = Len(agents) \/ k < First(i + 1))
        Fits(k) == cap = NoCap \/ open[agents[BlockOf(k)]] + (k - First(BlockOf(k))) < cap
    IN  [k \in 1..n |-> IF Fits(k) THEN agents[BlockOf(k)] ELSE Nobody]

Plan(method, n, agents, open, cap) ==
    CASE method = "round_robin" -> RoundRobin(n, agents, open, cap)
      [] method = "equal_split" -> EqualSplit(n, agents, open, cap)
      [] method = "least_loaded" -> LeastLoaded(n, agents, open, cap)
=============================================================================

-------------------------- MODULE DeskTypes_proofs --------------------------
(***************************************************************************)
(* What a plan of Distribution promises, and the types of Desk, for any    *)
(* leads, agents, calls, follow-ups, requests and mixes of operations;     *)
(* then what the steps of the intake do, and what they keep of its rows,   *)
(* numbers, cap and source.                                                *)
(* Induction goes through least counterexamples: a set of natural numbers  *)
(* that is not empty has a least element.                                  *)
(***************************************************************************)
EXTENDS Desk, Integers, SequenceTheorems, FiniteSetTheorems, WellFoundedInduction, TLAPS

-----------------------------------------------------------------------------
(* Natural numbers.                                                         *)

Below == {p \in Nat \X Nat : p[1] < p[2]}

LEMMA BelowWellFounded == IsWellFoundedOn(Below, Nat)
BY NatLessThanWellFounded DEF OpToRel, Below

LEMMA Least == ASSUME NEW S \in SUBSET Nat, S # {} PROVE \E x \in S : \A y \in S : x <= y
<1>1. PICK x \in S : \A y \in S : ~(<<y, x>> \in Below)
  BY BelowWellFounded, WFMin
<1>2. ASSUME NEW y \in S PROVE x <= y
  <2>0. x \in Nat /\ y \in Nat
    OBVIOUS
  <2>1. CASE y < x
    <3>1. <<y, x>> \in Below
      BY <2>0, <2>1 DEF Below
    <3>2. QED
      BY <1>1, <3>1
  <2>2. QED
    BY <2>0, <2>1
<1>3. QED
  BY <1>2

LEMMA MinIn == ASSUME NEW S \in SUBSET Nat, S # {} PROVE Min(S) \in S /\ \A y \in S : Min(S) <= y
<1>1. \E x \in S : \A y \in S : x <= y
  BY Least
<1>2. QED
  BY <1>1 DEF Min

\* Induction up to n.
LEMMA Climb ==
    ASSUME NEW n \in Nat, NEW S, 0 \in S, \A k \in 0..n : k \in S /\ k # n => k + 1 \in S
    PROVE  0..n \subseteq S
<1> DEFINE Bad == 0..n \ S
<1>1. Bad = {}
  <2> SUFFICES ASSUME Bad # {} PROVE FALSE
    OBVIOUS
  <2>0. Bad \in SUBSET Nat
    OBVIOUS
  <2> HIDE DEF Bad
  <2>1. PICK m \in Bad : \A y \in Bad : m <= y
    BY <2>0, Least
  <2>2. m \in 0..n /\ m \notin S /\ m # 0
    BY DEF Bad
  <2>3. m - 1 \in 0..n /\ m - 1 # n /\ m - 1 \notin Bad
    BY <2>1, <2>2
  <2>4. m - 1 \in S
    BY <2>3 DEF Bad
  <2>5. (m - 1) + 1 = m
    BY <2>2
  <2>6. QED
    BY <2>2, <2>3, <2>4, <2>5
<1>2. QED
  BY <1>1

\* A function that gives each number the successor of what it gives the number
\* before exists.
LEMMA Recursion ==
    ASSUME NEW n \in Nat, NEW T, NEW a \in T, NEW step \in [T -> T]
    PROVE  \E f \in [0..n -> T] : f = [k \in 0..n |-> IF k = 0 THEN a ELSE step[f[k - 1]]]
<1> DEFINE Fits(f, m) == \A k \in 0..m : f[k] = IF k = 0 THEN a ELSE step[f[k - 1]]
           S == {m \in 0..n : \E f \in [0..m -> T] : Fits(f, m)}
<1>1. 0 \in S
  <2> DEFINE f == [k \in 0..0 |-> a]
  <2>1. f \in [0..0 -> T] /\ f[0] = a /\ \A k \in 0..0 : k = 0
    OBVIOUS
  <2> HIDE DEF f
  <2>2. Fits(f, 0)
    BY <2>1
  <2>3. QED
    BY <2>1, <2>2
<1>2. ASSUME NEW m \in 0..n, m \in S, m # n PROVE m + 1 \in S
  <2>1. PICK f \in [0..m -> T] : Fits(f, m)
    BY <1>2
  <2> DEFINE g == [k \in 0..(m + 1) |-> IF k = m + 1 THEN step[f[m]] ELSE f[k]]
  <2>2. m \in Nat /\ m \in 0..m /\ m + 1 \in 0..n
    BY <1>2
  <2>3. g \in [0..(m + 1) -> T]
    BY <2>2
  <2>4. \A j \in 0..(m + 1) : g[j] = IF j = m + 1 THEN step[f[m]] ELSE f[j]
    OBVIOUS
  <2> HIDE DEF g
  <2>5. ASSUME NEW k \in 0..(m + 1) PROVE g[k] = IF k = 0 THEN a ELSE step[g[k - 1]]
    <3>1. CASE k = m + 1
      BY <2>2, <2>4, <3>1
    <3>2. CASE k = 0
      <4>1. 0 \in 0..m /\ 0 # m + 1
        BY <2>2
      <4>2. QED
        BY <2>1, <2>4, <3>2, <4>1
    <3>3. CASE k # m + 1 /\ k # 0
      <4>1. k \in 0..m /\ k - 1 \in 0..(m + 1) /\ k - 1 # m + 1
        BY <2>2, <3>3
      <4>2. f[k] = step[f[k - 1]]
        BY <2>1, <3>3, <4>1
      <4>3. QED
        BY <2>4, <3>3, <4>1, <4>2
    <3>4. QED
      BY <3>1, <3>2, <3>3
  <2>6. QED
    BY <2>2, <2>3, <2>5
<1> HIDE DEF S
<1>3. n \in S
  BY <1>1, <1>2, Climb
<1>4. PICK f \in [0..n -> T] : Fits(f, n)
  BY <1>3 DEF S
<1>5. QED
  BY <1>4

LEMMA DivMod ==
    ASSUME NEW m \in Nat, m > 0, NEW x \in Nat
    PROVE  x \div m \in Nat /\ x = m * (x \div m) + (x % m) /\ x % m \in 0..(m - 1)
BY SMTT(30)

LEMMA SmallMod == ASSUME NEW m \in Nat, m > 0, NEW x \in 0..(m - 1) PROVE x % m = x
BY SMTT(30)

LEMMA MoreThanOnce == ASSUME NEW m \in Nat, m > 0, NEW c \in Nat, c > 0 PROVE m * c >= m
BY SMTT(30)

LEMMA QuotientUnique ==
    ASSUME NEW m \in Nat, m > 0, NEW a \in Nat, NEW b \in Nat, NEW r \in 0..(m - 1), NEW s \in 0..(m - 1),
           m * a + r = m * b + s
    PROVE  ~(a < b)
<1> SUFFICES ASSUME a < b PROVE FALSE
  OBVIOUS
<1>1. PICK c \in Nat : b = a + c /\ c > 0
  <2>1. b - a \in Nat /\ b = a + (b - a) /\ b - a > 0
    OBVIOUS
  <2>2. QED
    BY <2>1
<1>2. m * b = m * a + m * c /\ m * a \in Nat /\ m * b \in Nat /\ m * c \in Nat
  BY <1>1
<1>3. m * c >= m
  BY <1>1, MoreThanOnce
<1>4. QED
  BY <1>2, <1>3

LEMMA AddMod == ASSUME NEW m \in Nat, m > 0, NEW x \in Nat PROVE (x + m) % m = x % m
<1> DEFINE q == x \div m
           r == x % m
           p == (x + m) \div m
           t == (x + m) % m
<1>1. q \in Nat /\ x = m * q + r /\ r \in 0..(m - 1)
  BY DivMod
<1>2. p \in Nat /\ x + m = m * p + t /\ t \in 0..(m - 1)
  BY DivMod
<1> HIDE DEF q, r, p, t
<1>3. m * (q + 1) = m * q + m /\ m * q \in Nat /\ m * p \in Nat
  BY <1>1, <1>2
<1>4. m * (q + 1) + r = m * p + t /\ q + 1 \in Nat
  BY <1>1, <1>2, <1>3
<1>5. ~(q + 1 < p) /\ ~(p < q + 1)
  BY <1>1, <1>2, <1>4, QuotientUnique
<1>6. q + 1 = p
  BY <1>1, <1>2, <1>5
<1>7. r = t
  BY <1>1, <1>2, <1>3, <1>6
<1>8. QED
  BY <1>7 DEF r, t

\* From any turn on, each of m agents has its turn within m turns.
LEMMA EveryTurn ==
    ASSUME NEW m \in Nat, m > 0, NEW i \in Nat, NEW p \in 0..(m - 1)
    PROVE  \E j \in 0..(m - 1) : (i + j) % m = p
<1> DEFINE S == {k \in 0..i : \A q \in 0..(m - 1) : \E j \in 0..(m - 1) : (k + j) % m = q}
<1>1. 0 \in S
  <2>1. \A q \in 0..(m - 1) : (0 + q) % m = q
    BY SmallMod
  <2>2. QED
    BY <2>1
<1>2. ASSUME NEW k \in 0..i, k \in S, k # i PROVE k + 1 \in S
  <2> SUFFICES ASSUME NEW q \in 0..(m - 1) PROVE \E j \in 0..(m - 1) : ((k + 1) + j) % m = q
    BY <1>2
  <2>1. PICK j \in 0..(m - 1) : (k + j) % m = q
    BY <1>2
  <2>2. CASE j > 0
    <3>1. j - 1 \in 0..(m - 1) /\ (k + 1) + (j - 1) = k + j
      BY <2>2
    <3>2. QED
      BY <2>1, <3>1
  <2>3. CASE j = 0
    <3>1. m - 1 \in 0..(m - 1) /\ (k + 1) + (m - 1) = k + m /\ k \in Nat
      OBVIOUS
    <3>2. \A x \in Nat : (x + m) % m = x % m
      BY AddMod
    <3>3. (k + m) % m = k % m
      BY <3>1, <3>2, Zenon
    <3>4. k + 0 = k
      OBVIOUS
    <3>5. (k + m) % m = q
      BY <2>1, <2>3, <3>3, <3>4
    <3>6. QED
      BY <3>1, <3>5
  <2>4. QED
    BY <2>2, <2>3
<1> HIDE DEF S
<1>3. i \in S
  BY <1>1, <1>2, Climb
<1>4. QED
  BY <1>3 DEF S

-----------------------------------------------------------------------------
(* A plan in the making: whoever has been given leads is within the cap,    *)
(* and a lead was left over only when everyone was full.                    *)

Team(agents, had) ==
    /\ agents \in Seq(Nat) /\ Len(agents) > 0
    /\ Nobody \notin Range(agents)
    /\ had \in [Range(agents) -> Nat]

Full(owners, a, had, cap) == had[a] + Given(owners, a) >= cap

Planned(owners, agents, had, cap) ==
    /\ owners \in Seq(Range(agents) \cup {Nobody})
    /\ cap # NoCap => \A a \in Range(agents) : Given(owners, a) = 0 \/ had[a] + Given(owners, a) <= cap
    /\ Nobody \in Range(owners) => cap # NoCap /\ \A a \in Range(agents) : Full(owners, a, had, cap)

LEMMA GivenType ==
    ASSUME NEW T, NEW owners \in Seq(T), NEW a
    PROVE  Given(owners, a) \in Nat /\ IsFiniteSet({k \in DOMAIN owners : owners[k] = a})
<1>1. IsFiniteSet(1..Len(owners))
  BY FS_Interval
<1>2. {k \in DOMAIN owners : owners[k] = a} \subseteq 1..Len(owners)
  OBVIOUS
<1>3. QED
  BY <1>1, <1>2, FS_Subset, FS_CardinalityType DEF Given

LEMMA GivenAppend ==
    ASSUME NEW T, NEW owners \in Seq(T), NEW x \in T, NEW a
    PROVE  Given(Append(owners, x), a) = IF x = a THEN Given(owners, a) + 1 ELSE Given(owners, a)
<1> DEFINE n == Len(owners)
           s == Append(owners, x)
           Of == {k \in DOMAIN owners : owners[k] = a}
<1>1. /\ DOMAIN s = 1..(n + 1) /\ DOMAIN owners = 1..n /\ n \in Nat
      /\ s[n + 1] = x /\ \A k \in 1..n : s[k] = owners[k]
  OBVIOUS
<1> HIDE DEF s, n
<1>2. CASE x = a
  <2>1. {k \in DOMAIN s : s[k] = a} = Of \cup {n + 1}
    BY <1>1, <1>2
  <2>2. n + 1 \notin Of
    BY <1>1
  <2>3. Cardinality(Of \cup {n + 1}) = Cardinality(Of) + 1
    <3>1. IsFiniteSet(Of)
      BY GivenType
    <3> HIDE DEF Of
    <3>2. QED
      BY <2>2, <3>1, FS_AddElement
  <2>4. QED
    BY <1>2, <2>1, <2>3 DEF Given, s
<1>3. CASE x # a
  <2>1. {k \in DOMAIN s : s[k] = a} = Of
    BY <1>1, <1>3
  <2>2. QED
    BY <1>3, <2>1 DEF Given, s
<1>4. QED
  BY <1>2, <1>3

LEMMA NothingPlanned ==
    ASSUME NEW agents, NEW had, NEW cap \in Nat, Team(agents, had)
    PROVE  Planned(<<>>, agents, had, cap)
<1>1. \A a \in Range(agents) : Given(<<>>, a) = 0
  <2>1. \A a : {k \in DOMAIN <<>> : <<>>[k] = a} = {}
    OBVIOUS
  <2>2. QED
    BY <2>1, FS_EmptySet DEF Given
<1>2. <<>> \in Seq(Range(agents) \cup {Nobody}) /\ Range(<<>>) = {}
  BY DEF Range
<1>3. QED
  BY <1>1, <1>2 DEF Planned

\* The next lead goes to an agent who can take it, or to nobody if none can.
LEMMA PlannedNext ==
    ASSUME NEW agents, NEW had, NEW cap \in Nat, Team(agents, had), NEW owners, Planned(owners, agents, had, cap),
           NEW x, \/ x \in Range(agents) /\ CanTake(owners, x, had, cap)
                  \/ x = Nobody /\ \A a \in Range(agents) : ~CanTake(owners, a, had, cap)
    PROVE  Planned(Append(owners, x), agents, had, cap)
<1> DEFINE T == Range(agents) \cup {Nobody}
           s == Append(owners, x)
<1>0. owners \in Seq(T) /\ x \in T /\ s \in Seq(T)
  BY DEF Planned
<1>1. \A a : Given(owners, a) \in Nat /\ Given(s, a) = IF x = a THEN Given(owners, a) + 1 ELSE Given(owners, a)
  <2> HIDE DEF s, T
  <2>1. \A a : Given(owners, a) \in Nat
    BY <1>0, GivenType
  <2>2. ASSUME NEW a PROVE Given(s, a) = IF x = a THEN Given(owners, a) + 1 ELSE Given(owners, a)
    BY <1>0, GivenAppend DEF s
  <2>3. QED
    BY <2>1, <2>2
<1>2. \A a \in Range(agents) : had[a] \in Nat
  BY DEF Team
<1>3. Range(s) = Range(owners) \cup {x}
  <2>1. /\ DOMAIN s = 1..(Len(owners) + 1) /\ DOMAIN owners = 1..Len(owners) /\ Len(owners) \in Nat
        /\ s[Len(owners) + 1] = x /\ \A k \in 1..Len(owners) : s[k] = owners[k]
    BY <1>0
  <2> HIDE DEF s
  <2>2. QED
    BY <2>1 DEF Range
<1> HIDE DEF s, T
<1>4. ASSUME cap # NoCap, NEW a \in Range(agents) PROVE Given(s, a) = 0 \/ had[a] + Given(s, a) <= cap
  <2>1. Given(owners, a) = 0 \/ had[a] + Given(owners, a) <= cap
    BY <1>4 DEF Planned
  <2>2. CASE x = a
    <3>1. had[a] + Given(owners, a) < cap
      BY <1>4, <2>2 DEF CanTake, Team
    <3>2. QED
      BY <1>1, <1>2, <2>2, <3>1
  <2>3. CASE x # a
    BY <1>1, <2>1, <2>3
  <2>4. QED
    BY <2>2, <2>3
<1>5. ASSUME Nobody \in Range(s) PROVE cap # NoCap /\ \A a \in Range(agents) : Full(s, a, had, cap)
  <2>1. Nobody \in Range(owners) \/ x = Nobody
    BY <1>3, <1>5
  <2>2. cap # NoCap /\ \A a \in Range(agents) : Full(owners, a, had, cap)
    <3>1. CASE Nobody \in Range(owners)
      BY <3>1 DEF Planned
    <3>2. CASE x = Nobody
      <4>1. \A a \in Range(agents) : ~CanTake(owners, a, had, cap)
        BY <3>2 DEF Team
      <4>2. \E a : a \in Range(agents)
        BY DEF Team, Range
      <4>3. QED
        BY <1>1, <1>2, <4>1, <4>2 DEF CanTake, Full
    <3>3. QED
      BY <2>1, <3>1, <3>2
  <2>3. QED
    BY <1>1, <1>2, <2>2 DEF Full
<1>6. QED
  BY <1>0, <1>4, <1>5 DEF Planned, s, T

-----------------------------------------------------------------------------
(* The three methods.                                                       *)

\* The agent with the fewest leads exists, and can take one more.
LEMMA NextIsAble ==
    ASSUME NEW agents, NEW had, NEW cap \in Nat, Team(agents, had), NEW owners, Planned(owners, agents, had, cap),
           NEW x, x = LeastLoadedNext(owners, agents, had, cap)
    PROVE  \/ x \in Range(agents) /\ CanTake(owners, x, had, cap)
           \/ x = Nobody /\ \A a \in Range(agents) : ~CanTake(owners, a, had, cap)
<1> DEFINE able == {a \in Range(agents) : CanTake(owners, a, had, cap)}
           load(a) == had[a] + Given(owners, a)
           loads == {load(a) : a \in able}
<1>1. able = {} => x = Nobody
  BY DEF LeastLoadedNext
<1>2. CASE able # {}
  <2>0. \A a \in able : load(a) \in Nat /\ a \in Nat
    <3>1. \A a \in Range(agents) : a \in Nat
      BY DEF Team, Range
    <3>2. \A a : Given(owners, a) \in Nat
      BY GivenType DEF Planned
    <3>3. \A a \in Range(agents) : had[a] \in Nat
      BY DEF Team
    <3>4. QED
      BY <3>1, <3>2, <3>3
  <2>1. loads \in SUBSET Nat /\ loads # {}
    BY <1>2, <2>0
  <2>x. x = CHOOSE a \in able : \A b \in able : load(a) < load(b) \/ (load(a) = load(b) /\ a <= b)
    BY <1>2 DEF LeastLoadedNext
  <2>e. \A m \in loads : \E a \in able : m = load(a)
    OBVIOUS
  <2>i. \A a \in able : load(a) \in loads
    OBVIOUS
  <2> HIDE DEF able, load, loads
  <2>2. PICK m \in loads : \A y \in loads : m <= y
    BY <2>1, Least
  <2> DEFINE first == {a \in able : load(a) = m}
  <2>3. first \in SUBSET Nat /\ first # {}
    BY <2>0, <2>e
  <2> HIDE DEF first
  <2>4. PICK a \in first : \A y \in first : a <= y
    BY <2>3, Least
  <2>5. \A b \in able : load(a) < load(b) \/ (load(a) = load(b) /\ a <= b)
    <3> SUFFICES ASSUME NEW b \in able PROVE load(a) < load(b) \/ (load(a) = load(b) /\ a <= b)
      OBVIOUS
    <3>1. a \in able /\ load(a) = m /\ m <= load(b) /\ m \in Nat /\ load(b) \in Nat
      BY <2>0, <2>1, <2>2, <2>4, <2>i DEF first
    <3>2. CASE load(b) = m
      <4>1. b \in first
        BY <3>2 DEF first
      <4>2. QED
        BY <2>4, <3>1, <3>2, <4>1
    <3>3. CASE load(b) # m
      BY <3>1, <3>3
    <3>4. QED
      BY <3>2, <3>3
  <2>6. a \in able
    BY <2>4 DEF first
  <2>7. x \in able
    BY <2>5, <2>6, <2>x
  <2>8. QED
    BY <2>7 DEF able
<1>3. QED
  BY <1>1, <1>2

\* Each lead goes to one of the agents or stays, whoever gets leads ends within
\* the cap, and a lead stays only when everyone is full (distribution.py:117-133).
THEOREM LeastLoadedKeepsCap ==
    ASSUME NEW n \in Nat, NEW agents, NEW had, NEW cap \in Nat, Team(agents, had)
    PROVE  /\ Planned(LeastLoaded(n, agents, had, cap), agents, had, cap)
           /\ Len(LeastLoaded(n, agents, had, cap)) = n
<1> DEFINE Step(s) == Append(s, LeastLoadedNext(s, agents, had, cap))
           T == {s \in Seq(Range(agents) \cup {Nobody}) : Planned(s, agents, had, cap)}
           Rule(g) == g = [k \in 0..n |-> IF k = 0 THEN <<>> ELSE Step(g[k - 1])]
           step == [s \in T |-> Step(s)]
<1>1. \A s \in T : Step(s) \in T /\ Len(Step(s)) = Len(s) + 1
  <2> SUFFICES ASSUME NEW s \in T PROVE Step(s) \in T /\ Len(Step(s)) = Len(s) + 1
    OBVIOUS
  <2>1. s \in Seq(Range(agents) \cup {Nobody}) /\ Planned(s, agents, had, cap)
    OBVIOUS
  <2>2. Planned(Step(s), agents, had, cap)
    BY <2>1, NextIsAble, PlannedNext
  <2>3. Step(s) \in Seq(Range(agents) \cup {Nobody})
    BY <2>2 DEF Planned
  <2>4. QED
    BY <2>1, <2>2, <2>3
<1>2. <<>> \in T
  BY NothingPlanned DEF Planned
<1> HIDE DEF T, Step
<1>3. \E g : Rule(g)
  <2>1. step \in [T -> T]
    BY <1>1
  <2>2. \A s \in T : step[s] = Step(s)
    OBVIOUS
  <2> HIDE DEF step
  <2>3. PICK f \in [0..n -> T] : f = [k \in 0..n |-> IF k = 0 THEN <<>> ELSE step[f[k - 1]]]
    BY <1>2, <2>1, Recursion
  <2>4. \A k \in 0..n : k # 0 => f[k - 1] \in T
    <3>1. \A k \in 0..n : k # 0 => k - 1 \in 0..n
      OBVIOUS
    <3>2. QED
      BY <2>3, <3>1
  <2>5. Rule(f)
    BY <2>2, <2>3, <2>4
  <2>6. QED
    BY <2>5
<1>4. PICK g : Rule(g) /\ LeastLoaded(n, agents, had, cap) = g[n]
  <2>1. LeastLoaded(n, agents, had, cap) = (CHOOSE g : Rule(g))[n]
    BY DEF LeastLoaded, Step
  <2>2. Rule(CHOOSE g : Rule(g))
    BY <1>3
  <2>3. QED
    BY <2>1, <2>2
<1> DEFINE S == {k \in 0..n : g[k] \in T /\ Len(g[k]) = k}
<1>5. 0 \in S
  <2>1. g[0] = <<>>
    BY <1>4
  <2>2. QED
    BY <1>2, <2>1
<1>6. ASSUME NEW k \in 0..n, k \in S, k # n PROVE k + 1 \in S
  <2>1. k + 1 \in 0..n /\ k + 1 # 0 /\ (k + 1) - 1 = k
    BY <1>6
  <2>2. g[k + 1] = Step(g[k])
    BY <1>4, <2>1
  <2>3. QED
    BY <1>1, <1>6, <2>1, <2>2
<1>7. n \in S
  <2> HIDE DEF S
  <2>1. QED
    BY <1>5, <1>6, Climb
<1>8. QED
  BY <1>4, <1>7 DEF T

\* The same in turn: an agent is passed over only when full, and the rotation
\* comes to every agent before it gives a lead up (distribution.py:154-168).
THEOREM RoundRobinKeepsCap ==
    ASSUME NEW n \in Nat, NEW agents, NEW had, NEW cap \in Nat, Team(agents, had)
    PROVE  /\ Planned(RoundRobin(n, agents, had, cap), agents, had, cap)
           /\ Len(RoundRobin(n, agents, had, cap)) = n
<1> DEFINE turn(i) == agents[(i % Len(agents)) + 1]
           able(s) == {j \in 0..(Len(agents) - 1) : CanTake(s.owners, turn(s.i + j), had, cap)}
           Step(s) == IF able(s) = {}
                      THEN [owners |-> Append(s.owners, Nobody), i |-> s.i + Len(agents)]
                      ELSE [owners |-> Append(s.owners, turn(s.i + Min(able(s)))), i |-> s.i + Min(able(s)) + 1]
           T == {s \in [owners : Seq(Range(agents) \cup {Nobody}), i : Nat] : Planned(s.owners, agents, had, cap)}
           first == [owners |-> <<>>, i |-> 0]
           Rule(g) == g = [k \in 0..n |-> IF k = 0 THEN first ELSE Step(g[k - 1])]
           step == [s \in T |-> Step(s)]
<1>0. agents \in Seq(Nat) /\ Len(agents) \in Nat /\ Len(agents) > 0
  BY DEF Team
<1>a. \A i \in Nat : turn(i) \in Range(agents)
  <2> SUFFICES ASSUME NEW i \in Nat PROVE turn(i) \in Range(agents)
    OBVIOUS
  <2>1. (i % Len(agents)) \in 0..(Len(agents) - 1)
    BY <1>0, DivMod
  <2>2. (i % Len(agents)) + 1 \in DOMAIN agents
    BY <1>0, <2>1
  <2>3. QED
    BY <2>2 DEF Range
<1>b. \A a \in Range(agents), i \in Nat : \E j \in 0..(Len(agents) - 1) : turn(i + j) = a
  <2> SUFFICES ASSUME NEW a \in Range(agents), NEW i \in Nat
               PROVE  \E j \in 0..(Len(agents) - 1) : turn(i + j) = a
    OBVIOUS
  <2>1. PICK q \in 1..Len(agents) : agents[q] = a
    BY <1>0 DEF Range
  <2>2. q - 1 \in 0..(Len(agents) - 1) /\ (q - 1) + 1 = q
    BY <1>0
  <2>3. PICK j \in 0..(Len(agents) - 1) : (i + j) % Len(agents) = q - 1
    BY <1>0, <2>2, EveryTurn
  <2>4. QED
    BY <2>1, <2>2, <2>3
<1> HIDE DEF turn
<1>1. \A s \in T : Step(s) \in T /\ Len(Step(s).owners) = Len(s.owners) + 1
  <2> SUFFICES ASSUME NEW s \in T PROVE Step(s) \in T /\ Len(Step(s).owners) = Len(s.owners) + 1
    OBVIOUS
  <2>1. s.owners \in Seq(Range(agents) \cup {Nobody}) /\ s.i \in Nat /\ Planned(s.owners, agents, had, cap)
    OBVIOUS
  <2> HIDE DEF T
  <2>2. CASE able(s) = {}
    <3>1. \A a \in Range(agents) : ~CanTake(s.owners, a, had, cap)
      BY <1>b, <2>1, <2>2
    <3>2. Planned(Append(s.owners, Nobody), agents, had, cap)
      BY <2>1, <3>1, PlannedNext
    <3>3. /\ Step(s) = [owners |-> Append(s.owners, Nobody), i |-> s.i + Len(agents)]
          /\ s.i + Len(agents) \in Nat /\ Len(Append(s.owners, Nobody)) = Len(s.owners) + 1
          /\ Append(s.owners, Nobody) \in Seq(Range(agents) \cup {Nobody})
      BY <1>0, <2>1, <2>2
    <3>4. QED
      BY <3>2, <3>3 DEF T
  <2>3. CASE able(s) # {}
    <3> DEFINE j == Min(able(s))
               x == turn(s.i + j)
    <3>1. j \in able(s)
      <4>1. able(s) \in SUBSET Nat
        OBVIOUS
      <4> HIDE DEF able
      <4>2. QED
        BY <2>3, <4>1, MinIn
    <3> HIDE DEF j
    <3>2. j \in Nat /\ s.i + j \in Nat /\ CanTake(s.owners, turn(s.i + j), had, cap)
      BY <2>1, <3>1
    <3>2a. x \in Range(agents) /\ CanTake(s.owners, x, had, cap)
      BY <1>a, <3>2
    <3> HIDE DEF able
    <3>3. Step(s) = [owners |-> Append(s.owners, x), i |-> s.i + j + 1]
      BY <2>3 DEF j
    <3> HIDE DEF x, Step
    <3>4. Planned(Append(s.owners, x), agents, had, cap)
      BY <2>1, <3>2a, PlannedNext
    <3>5. /\ Append(s.owners, x) \in Seq(Range(agents) \cup {Nobody}) /\ s.i + j + 1 \in Nat
          /\ Len(Append(s.owners, x)) = Len(s.owners) + 1
      BY <2>1, <3>2, <3>2a
    <3>6. Step(s).owners = Append(s.owners, x) /\ Step(s).i = s.i + j + 1
      BY <3>3
    <3>7. Step(s) \in [owners : Seq(Range(agents) \cup {Nobody}), i : Nat]
      BY <3>3, <3>5
    <3>8. QED
      BY <3>4, <3>5, <3>6, <3>7 DEF T
  <2>4. QED
    BY <2>2, <2>3
<1>2. first \in T
  BY NothingPlanned DEF Planned
<1> HIDE DEF T, Step, able
<1>3. \E g : Rule(g)
  <2>1. step \in [T -> T]
    BY <1>1
  <2>2. \A s \in T : step[s] = Step(s)
    OBVIOUS
  <2> HIDE DEF step, first
  <2>3. PICK f \in [0..n -> T] : f = [k \in 0..n |-> IF k = 0 THEN first ELSE step[f[k - 1]]]
    BY <1>2, <2>1, Recursion
  <2>4. ASSUME NEW k \in 0..n, k # 0 PROVE f[k - 1] \in T
    <3>1. k - 1 \in 0..n
      BY <2>4
    <3>2. QED
      BY <3>1
  <2>5. Rule(f)
    BY <2>2, <2>3, <2>4
  <2>6. QED
    BY <2>5
<1>4. PICK g : Rule(g) /\ RoundRobin(n, agents, had, cap) = g[n].owners
  <2>1. RoundRobin(n, agents, had, cap) = (CHOOSE g : Rule(g))[n].owners
    BY DEF RoundRobin, Step, able, turn
  <2>2. Rule(CHOOSE g : Rule(g))
    BY <1>3
  <2>3. QED
    BY <2>1, <2>2
<1> DEFINE S == {k \in 0..n : g[k] \in T /\ Len(g[k].owners) = k}
<1>5. 0 \in S
  <2>1. g[0] = first
    BY <1>4
  <2>2. QED
    BY <1>2, <2>1
<1>6. ASSUME NEW k \in 0..n, k \in S, k # n PROVE k + 1 \in S
  <2>1. k + 1 \in 0..n /\ k + 1 # 0 /\ (k + 1) - 1 = k
    BY <1>6
  <2>2. g[k + 1] = Step(g[k])
    BY <1>4, <2>1
  <2>3. QED
    BY <1>1, <1>6, <2>1, <2>2
<1>7. n \in S
  <2> HIDE DEF S
  <2>1. QED
    BY <1>5, <1>6, Climb
<1>8. QED
  BY <1>4, <1>7 DEF T

\* In blocks: every lead goes to one of the agents or stays, and whoever gets
\* leads ends within the cap (distribution.py:135-152).  A lead may stay though
\* another agent still has room.
THEOREM EqualSplitKeepsCap ==
    ASSUME NEW n \in Nat, NEW agents, NEW had, NEW cap \in Nat, Team(agents, had),
           \A i, j \in DOMAIN agents : agents[i] = agents[j] => i = j
    PROVE  LET owners == EqualSplit(n, agents, had, cap)
           IN  /\ owners \in [1..n -> Range(agents) \cup {Nobody}]
               /\ cap # NoCap => \A a \in Range(agents) :
                     Given(owners, a) = 0 \/ had[a] + Given(owners, a) <= cap
<1> DEFINE L == Len(agents)
           base == n \div L
           extra == n % L
           First(i) == (i - 1) * base + Min({i - 1, extra}) + 1
           Block(k, i) == First(i) <= k /\ (i = L \/ k < First(i + 1))
           BlockOf(k) == CHOOSE i \in DOMAIN agents : Block(k, i)
           Fits(k) == cap = NoCap \/ had[agents[BlockOf(k)]] + (k - First(BlockOf(k))) < cap
           owners == [k \in 1..n |-> IF Fits(k) THEN agents[BlockOf(k)] ELSE Nobody]
<1>1. /\ L \in Nat /\ L > 0 /\ DOMAIN agents = 1..L
      /\ \A a \in Range(agents) : had[a] \in Nat
      /\ Nobody \notin Range(agents)
  BY DEF Team
<1>2. EqualSplit(n, agents, had, cap) = owners
  BY DEF EqualSplit
<1>3. base \in Nat /\ extra \in Nat
  BY <1>1, DivMod
<1> HIDE DEF L, base, extra
<1>4. First(1) = 1
  <2>1. Min({0, extra}) = 0
    <3>1. {0, extra} \in SUBSET Nat /\ {0, extra} # {}
      BY <1>3
    <3>2. Min({0, extra}) \in {0, extra} /\ \A y \in {0, extra} : Min({0, extra}) <= y
      BY <3>1, MinIn
    <3>3. QED
      BY <1>3, <3>2
  <2>2. (1 - 1) * base = 0 /\ 1 - 1 = 0
    BY <1>3
  <2>3. QED
    BY <2>1, <2>2
<1>5. ASSUME NEW i \in 1..L PROVE First(i) \in Nat
  <2>1. i - 1 \in Nat /\ {i - 1, extra} # {} /\ {i - 1, extra} \in SUBSET Nat
    BY <1>1, <1>3
  <2>2. Min({i - 1, extra}) \in Nat
    <3>1. Min({i - 1, extra}) \in {i - 1, extra}
      BY <2>1, MinIn
    <3>2. QED
      BY <2>1, <1>3, <3>1
  <2>3. (i - 1) * base \in Nat
    BY <2>1, <1>3
  <2>4. QED
    BY <2>2, <2>3
<1> HIDE DEF First
<1>6. ASSUME NEW k \in 1..n PROVE BlockOf(k) \in DOMAIN agents /\ Block(k, BlockOf(k))
  <2>1. \E i \in DOMAIN agents : Block(k, i)
    <3> SUFFICES ASSUME \A i \in 1..L : ~Block(k, i) PROVE FALSE
      BY <1>1
    <3> DEFINE S == {i \in 0..(L - 1) : First(i + 1) <= k}
    <3>1. 0 \in S
      BY <1>1, <1>4
    <3>2. ASSUME NEW i \in 0..(L - 1), i \in S, i # L - 1 PROVE i + 1 \in S
      <4>1. i + 1 \in 1..L /\ i + 1 # L /\ (i + 1) + 1 \in 1..L /\ i + 1 \in 0..(L - 1)
        BY <1>1, <3>2
      <4>2. First(i + 1) <= k
        BY <3>2
      <4>3. ~(k < First((i + 1) + 1))
        BY <4>1, <4>2
      <4>4. First((i + 1) + 1) \in Nat
        BY <1>5, <4>1
      <4>5. First((i + 1) + 1) <= k
        BY <4>3, <4>4
      <4>6. QED
        BY <4>1, <4>5
    <3>3. L - 1 \in S
      <4>1. L - 1 \in Nat /\ L - 1 \in 0..(L - 1)
        BY <1>1
      <4> HIDE DEF S
      <4>2. QED
        BY <3>1, <3>2, <4>1, Climb
    <3>4. L \in 1..L /\ (L - 1) + 1 = L
      BY <1>1
    <3>5. Block(k, L)
      BY <3>3, <3>4
    <3>6. QED
      BY <3>4, <3>5
  <2> HIDE DEF Block
  <2>2. QED
    BY <2>1
<1>7. ASSUME NEW k \in 1..n PROVE agents[BlockOf(k)] \in Range(agents) /\ First(BlockOf(k)) <= k
  <2>1. BlockOf(k) \in DOMAIN agents /\ Block(k, BlockOf(k))
    BY <1>6
  <2>2. QED
    BY <2>1 DEF Range
<1> HIDE DEF BlockOf
<1>8. owners \in [1..n -> Range(agents) \cup {Nobody}]
  BY <1>7
<1>9. ASSUME cap # NoCap, NEW a \in Range(agents)
      PROVE  Given(owners, a) = 0 \/ had[a] + Given(owners, a) <= cap
  <2> DEFINE G == {k \in 1..n : owners[k] = a}
  <2>1. Given(owners, a) = Cardinality(G)
    BY DEF Given
  <2>2. PICK p \in DOMAIN agents : agents[p] = a
    BY DEF Range
  <2>3. First(p) \in Nat /\ had[a] \in Nat
    BY <1>1, <1>5, <2>2
  <2>4. ASSUME NEW k \in G PROVE BlockOf(k) = p /\ Fits(k)
    <3>1. k \in 1..n /\ owners[k] = a /\ a # Nobody
      BY <1>1, <2>4
    <3>2. Fits(k) /\ agents[BlockOf(k)] = a
      BY <3>1
    <3>3. BlockOf(k) \in DOMAIN agents
      BY <1>6, <3>1
    <3>4. QED
      BY <2>2, <3>2, <3>3
  <2>5. ASSUME NEW k \in G PROVE k \in Nat /\ First(p) <= k /\ had[a] + (k - First(p)) < cap
    <3>1. BlockOf(k) = p /\ Fits(k) /\ k \in 1..n
      BY <2>4
    <3>2. First(p) <= k
      BY <1>7, <3>1
    <3>3. had[a] + (k - First(p)) < cap
      BY <1>9, <2>2, <3>1
    <3>4. QED
      BY <3>1, <3>2, <3>3
  <2> HIDE DEF G, Fits
  <2>6. CASE G = {}
    <3>1. Cardinality(G) = 0
      BY <2>6, FS_EmptySet
    <3>2. QED
      BY <2>1, <3>1
  <2>7. CASE G # {}
    <3> DEFINE top == First(p) + (cap - had[a]) - 1
               room == First(p)..top
    <3>1. PICK k \in G : TRUE
      BY <2>7
    <3>2. cap - had[a] > 0 /\ top \in Int
      BY <2>3, <2>5, <3>1
    <3>3. G \subseteq room
      BY <2>3, <2>5
    <3>4. IsFiniteSet(room) /\ Cardinality(room) = cap - had[a]
      <4>1. First(p) \in Int /\ ~(First(p) > top) /\ top - First(p) + 1 = cap - had[a]
        BY <2>3, <3>2
      <4> HIDE DEF top
      <4>2. QED
        BY <3>2, <4>1, FS_Interval
    <3> HIDE DEF room
    <3>5. Cardinality(G) <= cap - had[a] /\ Cardinality(G) \in Nat
      BY <3>3, <3>4, FS_Subset, FS_CardinalityType
    <3>6. QED
      BY <2>1, <2>3, <3>5
  <2>8. QED
    BY <2>6, <2>7
<1>10. QED
  BY <1>2, <1>8, <1>9

-----------------------------------------------------------------------------
(* What a request of each kind carries.                                     *)

ScheduleReq == [op : {"schedule", "supersede"}, lead : Lead, at : Nat \ {0}, seen : Nat, owner : Agent]
CompleteReq == [op : {"complete"}, row : FollowUp, lead : Lead, seen : Nat]
PullReq == [op : {"pull"}, lead : Lead, agent : Agent, until : Nat, again : BOOLEAN]
ReleaseReq == [op : {"release"}, lead : Lead, how : {"dialed", "return", "skip"}, worked : BOOLEAN]
ClickReq == [op : {"click"}, lead : Lead, call : Call, st : Status, worked : BOOLEAN]
OutcomeReq == [op : {"call", "outcome", "replace", "book"}, lead : Lead, copy : LeadRec, on : BOOLEAN,
               st : Status, d : DispositionRec, named : BOOLEAN, at : Nat, owner : Agent]
StatusReq == [op : {"status"}, lead : Lead, to : Status, worked : BOOLEAN]
EditReq == [op : {"edit"}, lead : Lead, was : Owner, row : LeadRec]
FollowReq == [op : {"assign", "follow"}, leads : SUBSET Lead]
DistributeReq == {w \in [op : {"distribute"}, ids : Seq(Lead), cap : Nat, plan : Seq(Owner)] : Len(w.plan) = Len(w.ids)}
DeskReq == ScheduleReq \cup CompleteReq \cup PullReq \cup ReleaseReq \cup ClickReq \cup OutcomeReq
              \cup StatusReq \cup EditReq \cup FollowReq \cup DistributeReq

SweepItem == [agent : Staff, seen : Nat]
SettingReq == [op : {"setting"}, agent : Staff, to : WorkStatus, now : Nat \ {0}, row : PresenceRec,
               changed : BOOLEAN, todo : SUBSET SweepItem]
BeatReq == [op : {"beat"}, agent : Staff, to : WorkStatus, sets : BOOLEAN]
SweepReq == [op : {"sweep"}, todo : SUBSET SweepItem]
PresenceReq == SettingReq \cup BeatReq \cup SweepReq

Marks == {"processing", "pending", "skipped", "failed"}
UploadReq == [op : {"file", "link"}, next : {"write", "reset", "drop", "queue"}, rank : Ranks, replacing : BOOLEAN]
TaskSteps == {"handOff", "begin", "load", "save", "ask", "retry"}
TranscribeReq == [op : {"transcribe"}, task : {"transcribe", "force"}, audio : Nat, row : Nat, mark : Marks,
                  after : {"ask", "end", "retry"}, next : TaskSteps]
AnalyseReq == [op : {"analyse"}, task : {"analyse"}, text : Nat, row : Nat, mark : Marks,
               after : {"ask", "end", "retry"}, next : TaskSteps]
RecordingReq == UploadReq \cup TranscribeReq \cup AnalyseReq

HookReq == [op : Intakes, next : {"look", "cache", "batch", "create", "note", "add", "config", "error"},
            left : Seq(Phone), lenient : BOOLEAN, copy : SourceRec, batch : Nat, n : Nat, made : Nat]
HandReq == [op : {"hand"}, next : {"cache", "create", "note"}, left : Seq(Phone), batch : Nat, n : Nat]
DeleteReq == [op : {"delete"}, next : {"mark", "load", "recount", "total"}, leads : SUBSET Nat,
              batch : Nat, was : Nat, n : Nat]
AmendReq == [op : Editors, next : {"save"}, lead : Nat, row : Arrival]
RenameReq == [op : {"rename"}, next : {"save"}, batch : Nat, row : BatchRec]
ToggleReq == [op : {"toggle"}, next : {"save"}, copy : SourceRec]
ImportReq == [op : {"import"}, next : {"parse", "open", "phones", "rows", "cache", "bulk", "recount", "total", "finish"},
              batch : Nat, was : Nat, n : Nat, seen : SUBSET Phone, new : Seq(Phone), done : Nat,
              ok : Nat, failed : Nat, dup : Nat]
IntakeReq == HookReq \cup HandReq \cup DeleteReq \cup AmendReq \cup RenameReq \cup ToggleReq \cup ImportReq

IdleReq == {[op |-> "idle"]}
AnyReq == IdleReq \cup DeskReq \cup PresenceReq \cup RecordingReq \cup IntakeReq

DeskKinds == DeskOps \cup {"replace", "book", "follow"}
PresenceKinds == {"setting", "beat", "sweep"}
RecordingKinds == {"file", "link", "transcribe", "analyse"}
IntakeKinds == {"hook", "sync", "hand", "delete", "amend", "renumber", "rename", "toggle", "import"}

\* A request that has numbers to look up has one left.
Lookers == {"look", "cache", "batch", "create", "note", "add"}
LeftInHand(w) == w.op \in Intakes \cup {"hand"} /\ w.next \in Lookers => w.left # <<>>

\* A click's call is there and no other click's; a recording that a task
\* works on is there.
ClicksHold ==
    /\ \A r \in Request : req[r].op = "click" => call[req[r].call].lead = req[r].lead
    /\ \A r, q \in Request : req[r].op = "click" /\ req[q].op = "click" /\ req[r].call = req[q].call => r = q
AudioHolds ==
    /\ recording.audio \in 0..made.audio
    /\ made.texts \in Seq(1..made.audio)
    /\ \A r \in Request : req[r].op = "transcribe" => req[r].audio \in 1..made.audio
    /\ recording.audio = 0 =>
          /\ \A t \in Task : jobs[t] = 0
          /\ \A r \in Request :
                /\ req[r].op \notin {"transcribe", "analyse"}
                /\ req[r].op \in {"file", "link"} => req[r].next = "write"

DeskTypes ==
    /\ lead \in [Lead -> LeadRec]
    /\ call \in [Call -> CallRec]
    /\ followup \in [FollowUp -> FollowRec]
    /\ queue \in [on : BOOLEAN, fresh : BOOLEAN]
    /\ clock \in Nat \ {0}
PresenceTypes ==
    /\ presence \in [Staff -> PresenceRec]
    /\ open \in [Staff -> Seq(Interval)]
    /\ minute \in Nat \ {0}
RecordingTypes ==
    /\ recording \in RecordingRec /\ insight \in InsightRec
    /\ jobs \in [Task -> Nat]
    /\ made \in [audio : Nat, insight : Nat, texts : Seq(Nat)]
IntakeTypes ==
    /\ arrived \in Seq(Arrival) /\ batches \in Seq(BatchRec)
    /\ job \in JobRec /\ source \in SourceRec /\ counted \in Nat
RequestTypes ==
    /\ req \in [Request -> AnyReq]
    /\ \A pair \in met : pair \subseteq Ops
    /\ started \in Nat /\ mix \in Mixes /\ crashed \in BOOLEAN

TypeInv ==
    /\ DeskTypes /\ PresenceTypes /\ RecordingTypes /\ IntakeTypes /\ RequestTypes
    /\ ClicksHold /\ AudioHolds
    /\ \A r \in Request : LeftInHand(req[r])

-----------------------------------------------------------------------------
(* A request's kind says what it carries.                                   *)

LEMMA DeskKind ==
    ASSUME NEW w \in DeskReq
    PROVE  /\ w.op \in DeskKinds
           /\ w.op \in {"schedule", "supersede"} => w \in ScheduleReq
           /\ w.op = "complete" => w \in CompleteReq
           /\ w.op = "pull" => w \in PullReq
           /\ w.op = "release" => w \in ReleaseReq
           /\ w.op = "click" => w \in ClickReq
           /\ w.op \in {"call", "outcome", "replace", "book"} => w \in OutcomeReq
           /\ w.op = "status" => w \in StatusReq
           /\ w.op = "edit" => w \in EditReq
           /\ w.op \in {"assign", "follow"} => w \in FollowReq
           /\ w.op = "distribute" => w \in DistributeReq
<1>1. CASE w \in ScheduleReq
  BY <1>1 DEF ScheduleReq, DeskKinds, DeskOps
<1>2. CASE w \in CompleteReq
  BY <1>2 DEF CompleteReq, DeskKinds, DeskOps
<1>3. CASE w \in PullReq
  BY <1>3 DEF PullReq, DeskKinds, DeskOps
<1>4. CASE w \in ReleaseReq
  BY <1>4 DEF ReleaseReq, DeskKinds, DeskOps
<1>5. CASE w \in ClickReq
  BY <1>5 DEF ClickReq, DeskKinds, DeskOps
<1>6. CASE w \in OutcomeReq
  BY <1>6 DEF OutcomeReq, DeskKinds, DeskOps
<1>7. CASE w \in StatusReq
  BY <1>7 DEF StatusReq, DeskKinds, DeskOps
<1>8. CASE w \in EditReq
  BY <1>8 DEF EditReq, DeskKinds, DeskOps
<1>9. CASE w \in FollowReq
  BY <1>9 DEF FollowReq, DeskKinds, DeskOps
<1>10. CASE w \in DistributeReq
  BY <1>10 DEF DistributeReq, DeskKinds, DeskOps
<1>11. QED
  BY <1>1, <1>2, <1>3, <1>4, <1>5, <1>6, <1>7, <1>8, <1>9, <1>10 DEF DeskReq

LEMMA PresenceKind ==
    ASSUME NEW w \in PresenceReq
    PROVE  /\ w.op \in PresenceKinds
           /\ w.op = "setting" => w \in SettingReq
           /\ w.op = "beat" => w \in BeatReq
           /\ w.op = "sweep" => w \in SweepReq
<1>1. CASE w \in SettingReq
  BY <1>1 DEF SettingReq, PresenceKinds
<1>2. CASE w \in BeatReq
  BY <1>2 DEF BeatReq, PresenceKinds
<1>3. CASE w \in SweepReq
  BY <1>3 DEF SweepReq, PresenceKinds
<1>4. QED
  BY <1>1, <1>2, <1>3 DEF PresenceReq

LEMMA RecordingKind ==
    ASSUME NEW w \in RecordingReq
    PROVE  /\ w.op \in RecordingKinds
           /\ w.op \in {"file", "link"} => w \in UploadReq
           /\ w.op = "transcribe" => w \in TranscribeReq
           /\ w.op = "analyse" => w \in AnalyseReq
<1>1. CASE w \in UploadReq
  BY <1>1 DEF UploadReq, RecordingKinds
<1>2. CASE w \in TranscribeReq
  BY <1>2 DEF TranscribeReq, RecordingKinds
<1>3. CASE w \in AnalyseReq
  BY <1>3 DEF AnalyseReq, RecordingKinds
<1>4. QED
  BY <1>1, <1>2, <1>3 DEF RecordingReq

LEMMA IntakeKind ==
    ASSUME NEW w \in IntakeReq
    PROVE  /\ w.op \in IntakeKinds
           /\ w.op \in Intakes => w \in HookReq
           /\ w.op = "hand" => w \in HandReq
           /\ w.op = "delete" => w \in DeleteReq
           /\ w.op \in Editors => w \in AmendReq
           /\ w.op = "rename" => w \in RenameReq
           /\ w.op = "toggle" => w \in ToggleReq
           /\ w.op = "import" => w \in ImportReq
<1> USE DEF Intakes, IntakeKinds, Editors
<1>1. CASE w \in HookReq
  BY <1>1 DEF HookReq
<1>2. CASE w \in HandReq
  BY <1>2 DEF HandReq
<1>3. CASE w \in DeleteReq
  BY <1>3 DEF DeleteReq
<1>4. CASE w \in AmendReq
  BY <1>4 DEF AmendReq, Editors
<1>5. CASE w \in RenameReq
  BY <1>5 DEF RenameReq
<1>6. CASE w \in ToggleReq
  BY <1>6 DEF ToggleReq
<1>7. CASE w \in ImportReq
  BY <1>7 DEF ImportReq
<1>8. QED
  BY <1>1, <1>2, <1>3, <1>4, <1>5, <1>6, <1>7 DEF IntakeReq

Kinds == {"idle"} \cup DeskKinds \cup PresenceKinds \cup RecordingKinds \cup IntakeKinds

LEMMA KindOf ==
    ASSUME NEW w \in AnyReq
    PROVE  /\ w.op \in Kinds
           /\ w.op = "idle" => w = Idle
           /\ w.op \in DeskKinds => w \in DeskReq
           /\ w.op \in PresenceKinds => w \in PresenceReq
           /\ w.op \in RecordingKinds => w \in RecordingReq
           /\ w.op \in IntakeKinds => w \in IntakeReq
<1> USE DEF Kinds, DeskKinds, DeskOps, PresenceKinds, RecordingKinds, IntakeKinds
<1>1. CASE w \in IdleReq
  BY <1>1 DEF IdleReq, Idle
<1>2. CASE w \in DeskReq
  BY <1>2, DeskKind
<1>3. CASE w \in PresenceReq
  BY <1>3, PresenceKind
<1>4. CASE w \in RecordingReq
  BY <1>4, RecordingKind
<1>5. CASE w \in IntakeReq
  BY <1>5, IntakeKind
<1>6. QED
  BY <1>1, <1>2, <1>3, <1>4, <1>5 DEF AnyReq

LEMMA KindsAreOps == Kinds \subseteq Ops
BY DEF Kinds, Ops, DeskOps, DeskKinds, PresenceKinds, RecordingKinds, IntakeKinds

-----------------------------------------------------------------------------
(* Requests begin, go on and end one at a time.                             *)

\* Only requests of these kinds change, and they stay of these kinds.
Only(kinds) ==
    /\ met \subseteq met'
    /\ \A r \in Request : req'[r] # req[r] => {req[r].op, req'[r].op} \subseteq kinds \cup {"idle"}

\* The request r becomes w, and the others stay.
Becomes(r, w) == req'[r] = w /\ \A q \in Request \ {r} : req'[q] = req[q]

LEMMA SetReq ==
    ASSUME RequestTypes, NEW r \in Request, NEW w \in AnyReq, req' = [req EXCEPT ![r] = w]
    PROVE  req' \in [Request -> AnyReq] /\ Becomes(r, w)
BY DEF RequestTypes, Becomes

LEMMA Ends ==
    ASSUME RequestTypes, NEW r \in Request, End(r) \/ Finish(r), UNCHANGED <<met, started, mix>>, crashed' \in BOOLEAN
    PROVE  RequestTypes' /\ Becomes(r, Idle)
<1>1. Idle \in AnyReq
  BY DEF Idle, AnyReq, IdleReq
<1>2. req' = [req EXCEPT ![r] = Idle]
  BY DEF End, Finish, Idle
<1>3. QED
  BY <1>1, <1>2, SetReq DEF RequestTypes

LEMMA SameOp == ASSUME NEW w \in AnyReq PROVE [w EXCEPT !.op = w.op] = w
<1>1. CASE w \in IdleReq
  BY <1>1 DEF IdleReq
<1>2. CASE w \in DeskReq
  BY <1>2 DEF DeskReq, ScheduleReq, CompleteReq, PullReq, ReleaseReq, ClickReq, OutcomeReq, StatusReq,
              EditReq, FollowReq, DistributeReq
<1>3. CASE w \in PresenceReq
  BY <1>3 DEF PresenceReq, SettingReq, BeatReq, SweepReq
<1>4. CASE w \in RecordingReq
  BY <1>4 DEF RecordingReq, UploadReq, TranscribeReq, AnalyseReq
<1>5. CASE w \in IntakeReq
  BY <1>5 DEF IntakeReq, HookReq, HandReq, DeleteReq, AmendReq, RenameReq, ToggleReq, ImportReq
<1>6. QED
  BY <1>1, <1>2, <1>3, <1>4, <1>5 DEF AnyReq

\* What a request meets when it begins, or becomes one of another kind.
LEMMA Meeting ==
    ASSUME RequestTypes, NEW r \in Request, NEW kind \in Kinds, Meets(r, kind)
    PROVE  /\ \A pair \in met' : pair \subseteq Ops
           /\ met \subseteq met'
           /\ \A q \in Request \ {r} : ~Free(q) => {kind, req[q].op} \in met'
<1>1. \A q \in Request : req[q].op \in Ops
  BY KindOf, KindsAreOps DEF RequestTypes
<1>2. met' = met \cup {{kind, op} : op \in Others(r)}
  BY DEF Meets
<1>3. \A op \in Others(r) : op \in Ops
  BY <1>1 DEF Others
<1>4. kind \in Ops
  BY KindsAreOps
<1>5. \A q \in Request \ {r} : ~Free(q) => req[q].op \in Others(r)
  BY DEF Others
<1>6. \A pair \in met' : pair \subseteq Ops
  <2>1. \A op \in Others(r) : {kind, op} \subseteq Ops
    BY <1>3, <1>4
  <2>2. QED
    BY <1>2, <2>1 DEF RequestTypes
<1>7. QED
  BY <1>2, <1>5, <1>6

LEMMA Starts ==
    ASSUME RequestTypes, NEW r \in Request, NEW w \in AnyReq, Start(r, w.op, w), UNCHANGED <<mix, crashed>>
    PROVE  /\ RequestTypes' /\ Becomes(r, w)
           /\ Free(r) /\ Meets(r, w.op)
<1>1. w.op \in Kinds
  BY KindOf
<1>2. req' = [req EXCEPT ![r] = w]
  BY SameOp DEF Start
<1>3. Free(r) /\ Meets(r, w.op) /\ started' = started + 1
  BY DEF Start
<1>4. \A pair \in met' : pair \subseteq Ops
  BY <1>1, <1>3, Meeting
<1>5. req' \in [Request -> AnyReq] /\ Becomes(r, w)
  BY <1>2, SetReq
<1>6. QED
  BY <1>3, <1>4, <1>5 DEF RequestTypes

LEMMA Steps ==
    ASSUME RequestTypes, NEW r \in Request, NEW w \in AnyReq, req' = [req EXCEPT ![r] = w],
           UNCHANGED <<met, started, mix, crashed>>
    PROVE  RequestTypes' /\ Becomes(r, w)
BY SetReq DEF RequestTypes

LEMMA HappensTypes ==
    ASSUME RequestTypes, NEW kind \in Ops, Happens(kind), UNCHANGED <<req, mix, crashed>>
    PROVE  RequestTypes' /\ met \subseteq met'
<1>1. \A q \in Request : req[q].op \in Ops
  BY KindOf, KindsAreOps DEF RequestTypes
<1>2. met' = met \cup {{kind, req[q].op} : q \in {p \in Request : ~Free(p)}} \cup {{kind}}
  BY DEF Happens
<1>3. \A q \in Request : {kind, req[q].op} \subseteq Ops
  BY <1>1
<1>4. \A pair \in met' : pair \subseteq Ops
  BY <1>2, <1>3 DEF RequestTypes
<1>5. QED
  BY <1>2, <1>4 DEF Happens, RequestTypes

\* A request that becomes another of the same component.
LEMMA OneOf ==
    ASSUME RequestTypes, NEW kinds, NEW r \in Request, NEW w, Becomes(r, w),
           req[r].op \in kinds \cup {"idle"}, w.op \in kinds \cup {"idle"}, met \subseteq met'
    PROVE  Only(kinds)
BY DEF Only, Becomes

LEMMA Quietly ==
    ASSUME NEW kinds, UNCHANGED req, met \subseteq met'
    PROVE  Only(kinds)
BY DEF Only

\* Other components keep what holds of this one's requests.
LEMMA KeepClicks ==
    ASSUME ClicksHold, NEW kinds, Only(kinds), "click" \notin kinds, UNCHANGED call
    PROVE  ClicksHold'
<1>1. \A r \in Request : req'[r].op = "click" => req'[r] = req[r]
  BY DEF Only
<1>2. QED
  BY <1>1 DEF ClicksHold

LEMMA KeepAudio ==
    ASSUME AudioHolds, NEW kinds, Only(kinds), kinds \cap RecordingKinds = {}, UNCHANGED <<recording, jobs, made>>
    PROVE  AudioHolds'
<1>1. \A r \in Request : req'[r].op \in RecordingKinds => req'[r] = req[r]
  BY DEF Only, RecordingKinds
<1>2. QED
  BY <1>1 DEF AudioHolds, RecordingKinds

LEMMA KeepLeft ==
    ASSUME \A r \in Request : LeftInHand(req[r]), NEW kinds, Only(kinds), kinds \cap IntakeKinds = {}
    PROVE  \A r \in Request : LeftInHand(req[r])'
<1>1. \A r \in Request : req'[r].op \in Intakes \cup {"hand"} => req'[r] = req[r]
  BY DEF Only, IntakeKinds, Intakes
<1>2. QED
  BY <1>1 DEF LeftInHand

-----------------------------------------------------------------------------
(* Presence: types.                                                         *)

LEMMA RowTyped ==
    ASSUME PresenceTypes, NEW a \in Staff
    PROVE  RowOf(a) \in PresenceRec
BY DEF PresenceTypes, RowOf, PresenceRec, NotYet, WorkStatus

LEMMA SettingTyped ==
    ASSUME PresenceTypes, NEW a \in Staff, NEW to \in WorkStatus, NEW at \in Nat, NEW todo \in SUBSET SweepItem
    PROVE  Setting(a, to, at, todo) \in SettingReq
<1> DEFINE row == IF at = 0 THEN [RowOf(a) EXCEPT !.seen = minute] ELSE RowOf(a)
           now == IF at = 0 THEN minute ELSE at
<1>1. row \in PresenceRec
  BY RowTyped DEF PresenceTypes, PresenceRec
<1>2. now \in Nat \ {0}
  BY DEF PresenceTypes
<1>3. (RowOf(a).st # to) \in BOOLEAN
  OBVIOUS
<1>4. Setting(a, to, at, todo) = [op |-> "setting", agent |-> a, to |-> to, now |-> now, row |-> row,
                                  changed |-> RowOf(a).st # to, todo |-> todo]
  BY DEF Setting
<1> HIDE DEF row, now
<1>5. QED
  BY <1>1, <1>2, <1>3, <1>4 DEF SettingReq

LEMMA LoadTyped ==
    ASSUME PresenceTypes, NEW a \in Staff, NEW to, LoadAndClose(a, to)
    PROVE  presence' \in [Staff -> PresenceRec] /\ open' \in [Staff -> Seq(Interval)]
<1>1. ClosedLog(a, RowOf(a).st # to) \in Seq(Interval)
  BY DEF ClosedLog, PresenceTypes
<1>2. QED
  BY <1>1, RowTyped DEF LoadAndClose, PresenceTypes

LEMMA PresenceTyped ==
    ASSUME TypeInv, PresenceNext
    PROVE  PresenceTypes' /\ RequestTypes' /\ Only(PresenceKinds)
<1> USE DEF TypeInv
<1>1. req \in [Request -> AnyReq] /\ \A r \in Request : req[r].op \in PresenceKinds => req[r] \in PresenceReq
  BY KindOf DEF RequestTypes
<1>2. SettingReq \subseteq AnyReq /\ BeatReq \subseteq AnyReq /\ SweepReq \subseteq AnyReq
  BY DEF AnyReq, PresenceReq
<1>3. ASSUME NEW r \in Request, NEW a \in Staff, NEW to \in WorkStatus, Report(r, a, to)
      PROVE  PresenceTypes' /\ RequestTypes' /\ Only(PresenceKinds)
  <2> DEFINE w == Setting(a, to, 0, {})
  <2>1. w \in SettingReq
    BY SettingTyped
  <2>2. w.op = "setting"
    BY <2>1 DEF SettingReq
  <2> HIDE DEF w
  <2>3. Start(r, w.op, w) /\ UNCHANGED <<minute, mix, crashed>> /\ LoadAndClose(a, to)
    BY <1>3, <2>2 DEF Report, w
  <2>4. RequestTypes' /\ Becomes(r, w) /\ Free(r) /\ Meets(r, w.op)
    BY <1>2, <2>1, <2>3, Starts
  <2>5. met \subseteq met'
    BY <2>2, <2>4, Meeting DEF Kinds, PresenceKinds
  <2>6. QED
    BY <2>2, <2>3, <2>4, <2>5, LoadTyped, OneOf DEF PresenceTypes, Free, PresenceKinds
<1>4. ASSUME NEW r \in Request, NEW a \in Staff, NEW to \in WorkStatus, Heartbeat(r, a, to)
      PROVE  PresenceTypes' /\ RequestTypes' /\ Only(PresenceKinds)
  <2> DEFINE w == [op |-> "beat", agent |-> a, to |-> to, sets |-> presence[a] = NotYet \/ presence[a].st # to]
  <2>1. w \in BeatReq /\ w.op = "beat"
    BY DEF BeatReq
  <2> HIDE DEF w
  <2>3. Start(r, w.op, w) /\ UNCHANGED <<presenceVars, mix, crashed>>
    BY <1>4, <2>1 DEF Heartbeat, w
  <2>4. RequestTypes' /\ Becomes(r, w) /\ Free(r) /\ Meets(r, w.op)
    BY <1>2, <2>1, <2>3, Starts
  <2>5. met \subseteq met'
    BY <2>1, <2>4, Meeting DEF Kinds, PresenceKinds
  <2>6. QED
    BY <2>1, <2>3, <2>4, <2>5, OneOf DEF PresenceTypes, presenceVars, Free, PresenceKinds
<1>5. ASSUME NEW r \in Request, Sweep(r)
      PROVE  PresenceTypes' /\ RequestTypes' /\ Only(PresenceKinds)
  <2> DEFINE w == [op |-> "sweep", todo |-> {[agent |-> a, seen |-> presence[a].seen] :
                                                a \in {b \in Staff : Stale(b)}}]
  <2>1. \A a \in Staff : [agent |-> a, seen |-> presence[a].seen] \in SweepItem
    BY DEF PresenceTypes, PresenceRec, SweepItem
  <2>2. w \in SweepReq /\ w.op = "sweep"
    BY <2>1 DEF SweepReq
  <2> HIDE DEF w
  <2>3. Start(r, w.op, w) /\ UNCHANGED <<presenceVars, mix, crashed>>
    BY <1>5, <2>2 DEF Sweep, w
  <2>4. RequestTypes' /\ Becomes(r, w) /\ Free(r) /\ Meets(r, w.op)
    BY <1>2, <2>2, <2>3, Starts
  <2>5. met \subseteq met'
    BY <2>2, <2>4, Meeting DEF Kinds, PresenceKinds
  <2>6. QED
    BY <2>2, <2>3, <2>4, <2>5, OneOf DEF PresenceTypes, presenceVars, Free, PresenceKinds
<1>6. ASSUME NEW r \in Request, SweepOne(r)
      PROVE  PresenceTypes' /\ RequestTypes' /\ Only(PresenceKinds)
  <2>1. req[r] \in SweepReq
    BY <1>1, <1>6, PresenceKind DEF SweepOne, PresenceKinds
  <2>2. PICK one \in req[r].todo :
            /\ LoadAndClose(one.agent, "offline")
            /\ req' = [req EXCEPT ![r] = Setting(one.agent, "offline", one.seen, req[r].todo \ {one})]
    BY <1>1, <1>6 DEF SweepOne
  <2>3. one.agent \in Staff /\ one.seen \in Nat /\ req[r].todo \ {one} \in SUBSET SweepItem
    BY <2>1, <2>2 DEF SweepReq, SweepItem
  <2> DEFINE w == Setting(one.agent, "offline", one.seen, req[r].todo \ {one})
  <2>4. w \in SettingReq
    BY <2>3, SettingTyped DEF WorkStatus
  <2>5. w.op = "setting"
    BY <2>4 DEF SettingReq
  <2> HIDE DEF w
  <2>6. req' = [req EXCEPT ![r] = w] /\ UNCHANGED <<minute, started, mix, crashed>> /\ Meets(r, "setting")
    BY <1>6, <2>2 DEF SweepOne, w
  <2>7. req' \in [Request -> AnyReq] /\ Becomes(r, w)
    BY <1>2, <2>4, <2>6, SetReq
  <2>8. met \subseteq met' /\ \A pair \in met' : pair \subseteq Ops
    BY <2>6, Meeting DEF Kinds, PresenceKinds
  <2>9. RequestTypes' /\ Only(PresenceKinds)
    BY <1>6, <2>5, <2>6, <2>7, <2>8, OneOf DEF RequestTypes, SweepOne, PresenceKinds
  <2>10. QED
    BY <2>2, <2>3, <2>6, <2>9, LoadTyped DEF PresenceTypes
<1>7. ASSUME NEW r \in Request, HeartbeatSets(r)
      PROVE  PresenceTypes' /\ RequestTypes' /\ Only(PresenceKinds)
  <2>1. req[r] \in BeatReq
    BY <1>1, <1>7, PresenceKind DEF HeartbeatSets, PresenceKinds
  <2>3. req[r].agent \in Staff /\ req[r].to \in WorkStatus
    BY <2>1 DEF BeatReq
  <2> DEFINE w == Setting(req[r].agent, req[r].to, 0, {})
  <2>4. w \in SettingReq
    BY <2>3, SettingTyped
  <2>5. w.op = "setting"
    BY <2>4 DEF SettingReq
  <2> HIDE DEF w
  <2>6. req' = [req EXCEPT ![r] = w] /\ UNCHANGED <<minute, started, mix, crashed>> /\ Meets(r, "setting")
    BY <1>7 DEF HeartbeatSets, w
  <2>7. req' \in [Request -> AnyReq] /\ Becomes(r, w)
    BY <1>2, <2>4, <2>6, SetReq
  <2>8. met \subseteq met' /\ \A pair \in met' : pair \subseteq Ops
    BY <2>6, Meeting DEF Kinds, PresenceKinds
  <2>9. RequestTypes' /\ Only(PresenceKinds)
    BY <1>7, <2>5, <2>6, <2>7, <2>8, OneOf DEF RequestTypes, HeartbeatSets, PresenceKinds
  <2>10. QED
    BY <1>7, <2>3, <2>6, <2>9, LoadTyped DEF PresenceTypes, HeartbeatSets
<1>8. ASSUME NEW r \in Request, HeartbeatTouches(r)
      PROVE  PresenceTypes' /\ RequestTypes' /\ Only(PresenceKinds)
  <2>1. Finish(r) /\ UNCHANGED <<open, minute, met, started, mix, crashed>> /\ req[r].op = "beat"
        /\ presence' = [presence EXCEPT ![req[r].agent].seen = minute]
    BY <1>8 DEF HeartbeatTouches, Finish
  <2>2. RequestTypes' /\ Becomes(r, Idle)
    BY <2>1, Ends DEF RequestTypes
  <2>3. presence' \in [Staff -> PresenceRec]
    BY <2>1 DEF PresenceTypes, PresenceRec
  <2>4. QED
    BY <2>1, <2>2, <2>3, OneOf DEF PresenceTypes, PresenceKinds, Idle
<1>9. ASSUME NEW r \in Request, SaveStatus(r)
      PROVE  PresenceTypes' /\ RequestTypes' /\ Only(PresenceKinds)
  <2>1. req[r] \in SettingReq /\ req[r].op = "setting"
    BY <1>1, <1>9, PresenceKind DEF SaveStatus, PresenceKinds
  <2>2. /\ req[r].agent \in Staff /\ req[r].to \in WorkStatus /\ req[r].now \in Nat \ {0}
        /\ req[r].row \in PresenceRec /\ req[r].todo \in SUBSET SweepItem
    BY <2>1 DEF SettingReq
  <2> DEFINE w == IF req[r].todo = {} THEN Idle ELSE [op |-> "sweep", todo |-> req[r].todo]
  <2>3. w \in AnyReq /\ w.op \in {"idle", "sweep"}
    BY <1>2, <2>2 DEF SweepReq, AnyReq, IdleReq, Idle
  <2> HIDE DEF w
  <2>4. req' = [req EXCEPT ![r] = w] /\ UNCHANGED <<minute, met, started, mix, crashed>>
    BY <1>9 DEF SaveStatus, w, Idle
  <2>5. RequestTypes' /\ Becomes(r, w)
    BY <2>3, <2>4, Steps
  <2>6. presence' \in [Staff -> PresenceRec]
    <3>1. [st |-> req[r].to, seen |-> req[r].row.seen,
           session |-> IF req[r].to = "offline" THEN 0
                       ELSE IF req[r].row.session = 0 THEN req[r].now ELSE req[r].row.session] \in PresenceRec
      BY <2>2 DEF PresenceRec
    <3>2. QED
      BY <1>9, <3>1 DEF SaveStatus, PresenceTypes
  <2>7. open' \in [Staff -> Seq(Interval)]
    <3>1. req[r].to \in Working => [st |-> req[r].to, from |-> req[r].now] \in Interval
      BY <2>2 DEF Interval
    <3>2. QED
      BY <1>9, <2>2, <3>1 DEF SaveStatus, PresenceTypes
  <2>8. QED
    BY <2>1, <2>3, <2>4, <2>5, <2>6, <2>7, OneOf DEF PresenceTypes, PresenceKinds
<1>10. CASE Minute
  BY <1>10, Quietly DEF Minute, PresenceTypes, RequestTypes
<1>11. QED
  BY <1>3, <1>4, <1>5, <1>6, <1>7, <1>8, <1>9, <1>10 DEF PresenceNext

-----------------------------------------------------------------------------
(* The recording: types, and that what a task works on is there.            *)

RecordingStep == RecordingTypes' /\ AudioHolds' /\ RequestTypes' /\ Only(RecordingKinds)

\* A step of the request r, which becomes w.
LEMMA RecordingBy ==
    ASSUME TypeInv, RequestTypes', NEW r \in Request, req[r].op \in RecordingKinds \cup {"idle"},
           NEW w \in RecordingReq \cup IdleReq, Becomes(r, w), RecordingTypes', met \subseteq met',
           w.op = "transcribe" => w.audio \in 1..made'.audio,
           made'.audio >= made.audio, recording'.audio \in 0..made'.audio,
           made'.texts \in Seq(1..made'.audio),
           recording'.audio = 0 =>
              /\ recording.audio = 0 /\ \A t \in Task : jobs'[t] = 0
              /\ w.op \notin {"transcribe", "analyse"} /\ (w.op \in {"file", "link"} => w.next = "write")
    PROVE  RecordingStep
<1>1. w.op \in RecordingKinds \cup {"idle"}
  BY RecordingKind DEF IdleReq
<1>2. made.audio \in Nat /\ made'.audio \in Nat
  BY DEF TypeInv, RecordingTypes
<1>3. \A q \in Request : req'[q] = IF q = r THEN w ELSE req[q]
  BY DEF Becomes
<1>4. \A q \in Request : req'[q].op = "transcribe" => req'[q].audio \in 1..made'.audio
  <2>1. \A q \in Request : req[q].op = "transcribe" => req[q].audio \in 1..made.audio
    BY DEF TypeInv, AudioHolds
  <2>2. 1..made.audio \subseteq 1..made'.audio
    BY <1>2
  <2>3. QED
    BY <1>3, <2>1, <2>2
<1>5. AudioHolds'
  BY <1>3, <1>4 DEF TypeInv, AudioHolds
<1>6. QED
  BY <1>1, <1>5, OneOf DEF RecordingStep, TypeInv

\* A request goes on to the step next, or ends.
LEMMA Goes ==
    ASSUME RequestTypes, NEW r \in Request, NEW next, Goto(r, next), NEW w,
           w = IF next = "end" THEN Idle ELSE [req[r] EXCEPT !.next = next],
           w \in AnyReq
    PROVE  req' = [req EXCEPT ![r] = w] /\ req' \in [Request -> AnyReq] /\ Becomes(r, w)
<1>1. req' = [req EXCEPT ![r] = w]
  BY DEF Goto, Finish, RequestTypes, Idle
<1>2. QED
  BY <1>1, SetReq

LEMMA SeqAppend == ASSUME NEW S, NEW s \in Seq(S), NEW x \in S PROVE Append(s, x) \in Seq(S)
OBVIOUS

LEMMA WiderSeq == ASSUME NEW S, NEW T, S \subseteq T, NEW s \in Seq(S) PROVE s \in Seq(T)
<1>1. s \in [1..Len(s) -> T] /\ Len(s) \in Nat
  OBVIOUS
<1>2. QED
  BY <1>1, SeqDef

LEMMA UploadTyped ==
    ASSUME TypeInv, NEW r \in Request, NEW kind \in {"file", "link"}, NEW rank \in Ranks, Upload(r, kind, rank)
    PROVE  RecordingStep
<1> DEFINE w == [op |-> kind, next |-> "write", rank |-> rank, replacing |-> kind = "file" /\ recording.audio # 0]
<1>1. w \in UploadReq /\ w.op = kind /\ w.next = "write"
  BY DEF UploadReq
<1> HIDE DEF w
<1>2. w \in RecordingReq /\ w \in AnyReq
  BY <1>1 DEF RecordingReq, AnyReq
<1>3. Start(r, w.op, w) /\ UNCHANGED <<transcriptionVars, mix, crashed>>
  BY <1>1 DEF Upload, w
<1>4. RequestTypes' /\ Becomes(r, w) /\ Free(r) /\ Meets(r, w.op)
  BY <1>2, <1>3, Starts DEF TypeInv
<1>5. met \subseteq met'
  BY <1>1, <1>4, Meeting DEF TypeInv, Kinds, RecordingKinds
<1>6. UNCHANGED <<recording, insight, jobs, made>>
  BY <1>3 DEF transcriptionVars
<1>7. RecordingTypes' /\ made.audio \in Nat
  BY <1>6 DEF TypeInv, RecordingTypes
<1>8. /\ recording.audio \in 0..made.audio /\ made.texts \in Seq(1..made.audio)
      /\ recording.audio = 0 => \A t \in Task : jobs[t] = 0
  BY DEF TypeInv, AudioHolds
<1>9. made'.audio >= made.audio
  BY <1>6, <1>7
<1>10. req[r].op \in RecordingKinds \cup {"idle"} /\ w.op \notin {"transcribe", "analyse"}
  BY <1>1, <1>4 DEF Free
<1>11. QED
  BY <1>1, <1>2, <1>4, <1>5, <1>6, <1>7, <1>8, <1>9, <1>10, RecordingBy

LEMMA TaskTyped ==
    ASSUME TypeInv, NEW r \in Request, (\E task \in Task : Transcribe(r, task)) \/ Analyse(r)
    PROVE  RecordingStep
<1> USE DEF TypeInv
<1>1. PICK task \in Task : Take(task)
  BY DEF Transcribe, Analyse, Task
<1>2. jobs' \in [Task -> Nat] /\ recording.audio # 0 /\ recording.audio \in 1..made.audio
  BY <1>1 DEF Take, RecordingTypes, RecordingRec, AudioHolds
<1>3. UNCHANGED <<recording, insight, made, mix, crashed>>
  BY DEF Transcribe, Analyse
<1>4. PICK w \in TranscribeReq \cup AnalyseReq :
          Start(r, w.op, w) /\ (w.op = "transcribe" => w.audio = recording.audio)
  <2>1. CASE \E t \in Task : Transcribe(r, t)
    <3>1. PICK t \in {"transcribe", "force"} : Transcribe(r, t)
      BY <2>1 DEF Transcribe
    <3> DEFINE w == [op |-> "transcribe", task |-> t, audio |-> recording.audio, row |-> 0,
                     mark |-> "processing", after |-> "ask",
                     next |-> IF t = "transcribe" /\ recording.st = "done" /\ recording.text # 0
                              THEN "handOff" ELSE "begin"]
    <3>2. w \in TranscribeReq /\ w.op = "transcribe" /\ w.audio = recording.audio
      BY <1>2 DEF TranscribeReq, Marks, TaskSteps, RecordingTypes, RecordingRec
    <3>3. Start(r, "transcribe", w)
      BY <3>1 DEF Transcribe
    <3> HIDE DEF w
    <3>4. QED
      BY <3>2, <3>3
  <2>2. CASE Analyse(r)
    <3> DEFINE w == [op |-> "analyse", task |-> "analyse", text |-> recording.text, row |-> 0,
                     mark |-> "processing", after |-> "ask", next |-> "load"]
    <3>2. w \in AnalyseReq /\ w.op = "analyse"
      BY DEF AnalyseReq, Marks, TaskSteps, RecordingTypes, RecordingRec
    <3>3. Start(r, "analyse", w)
      BY <2>2 DEF Analyse
    <3> HIDE DEF w
    <3>4. QED
      BY <3>2, <3>3
  <2>3. QED
    BY <2>1, <2>2
<1>5. w \in RecordingReq /\ w \in AnyReq /\ w.op \in Kinds
  BY RecordingKind DEF RecordingReq, AnyReq, Kinds
<1>6. RequestTypes' /\ Becomes(r, w) /\ Free(r) /\ Meets(r, w.op)
  BY <1>3, <1>4, <1>5, Starts
<1>7. met \subseteq met'
  BY <1>5, <1>6, Meeting
<1>8. RecordingTypes'
  BY <1>2, <1>3 DEF RecordingTypes
<1>9. req[r].op \in RecordingKinds \cup {"idle"} /\ made.texts \in Seq(1..made.audio)
  BY <1>6 DEF Free, AudioHolds
<1>10. made'.audio >= made.audio /\ recording.audio \in 0..made.audio /\ recording'.audio # 0
  BY <1>2, <1>3 DEF RecordingTypes
<1>11. w.op = "transcribe" => w.audio \in 1..made'.audio
  BY <1>2, <1>3, <1>4
<1>12. QED
  BY <1>3, <1>5, <1>6, <1>7, <1>8, <1>9, <1>10, <1>11, RecordingBy

LEMMA UploadSteps ==
    ASSUME TypeInv, NEW r \in Request, AudioWrite(r) \/ ResetTranscript(r) \/ DropInsight(r) \/ QueuePipeline(r)
    PROVE  RecordingStep
<1> USE DEF TypeInv
<1>1. req[r] \in UploadReq /\ req[r].op \in {"file", "link"} /\ req[r].next # "end"
  BY KindOf, RecordingKind
     DEF AudioWrite, ResetTranscript, DropInsight, QueuePipeline, At, RequestTypes, RecordingKinds
<1>2. \A next \in {"reset", "drop", "queue"} : LET w == [req[r] EXCEPT !.next = next] IN
          w \in UploadReq /\ w.op = req[r].op /\ w.next = next
  BY <1>1 DEF UploadReq
<1>3. UploadReq \subseteq RecordingReq /\ RecordingReq \subseteq AnyReq /\ Idle \in IdleReq /\ IdleReq \subseteq AnyReq
      /\ Idle.op = "idle"
  BY DEF RecordingReq, AnyReq, IdleReq, Idle
<1>4. /\ recording.audio \in Nat /\ made.audio \in Nat /\ recording.audio <= made.audio
      /\ made.texts \in Seq(Nat) /\ made.texts \in Seq(1..made.audio)
  BY DEF RecordingTypes, RecordingRec, AudioHolds
<1>5. CASE AudioWrite(r)
  <2>1. PICK next \in {"reset", "queue"} : Goto(r, next)
    BY <1>5 DEF AudioWrite
  <2>2. PICK w : w = [req[r] EXCEPT !.next = next]
    OBVIOUS
  <2>3. w \in UploadReq /\ w.op = req[r].op /\ w.next = next
    BY <1>2, <2>2
  <2>4. req' \in [Request -> AnyReq] /\ Becomes(r, w)
    BY <1>3, <2>1, <2>2, <2>3, Goes
  <2>5. /\ made' = [made EXCEPT !.audio = @ + 1]
        /\ recording' = [recording EXCEPT !.audio = made.audio + 1, !.rank = req[r].rank]
        /\ UNCHANGED <<insight, jobs, started, mix, crashed>>
        /\ met' = met \/ met' = met \cup {{"relink"}}
    BY <1>5 DEF AudioWrite
  <2>6. RecordingTypes'
    <3>1. req[r].rank \in Ranks /\ made.audio + 1 \in Nat
      BY <1>1, <1>4 DEF UploadReq
    <3>2. recording' \in RecordingRec
      BY <2>5, <3>1 DEF RecordingTypes, RecordingRec
    <3>3. made' \in [audio : Nat, insight : Nat, texts : Seq(Nat)]
      BY <2>5, <3>1 DEF RecordingTypes
    <3>4. QED
      BY <2>5, <3>2, <3>3 DEF RecordingTypes
  <2>7. RequestTypes'
    BY <2>4, <2>5 DEF RequestTypes, Ops, DeskOps
  <2>8. made'.audio = made.audio + 1 /\ made'.texts = made.texts /\ recording'.audio = made.audio + 1
    BY <2>5 DEF RecordingTypes, RecordingRec
  <2>9. made'.texts \in Seq(1..made'.audio)
    <3>1. 1..made.audio \subseteq 1..made'.audio
      BY <1>4, <2>8
    <3>2. QED
      BY <1>4, <2>8, <3>1, WiderSeq
  <2>10. made'.audio >= made.audio /\ recording'.audio \in 0..made'.audio /\ recording'.audio # 0
    BY <1>4, <2>8
  <2>11. w \in RecordingReq \cup IdleReq /\ w.op # "transcribe"
    BY <1>1, <1>3, <2>3
  <2>12. met \subseteq met' /\ req[r].op \in RecordingKinds \cup {"idle"}
    BY <1>1, <2>5 DEF RecordingKinds
  <2>13. QED
    BY <2>4, <2>6, <2>7, <2>9, <2>10, <2>11, <2>12, RecordingBy
<1>6. CASE ResetTranscript(r) \/ DropInsight(r)
  <2>1. PICK next \in {"drop", "queue"} : Goto(r, next)
    BY <1>6 DEF ResetTranscript, DropInsight
  <2>2. PICK w : w = [req[r] EXCEPT !.next = next]
    OBVIOUS
  <2>3. w \in UploadReq /\ w.op = req[r].op /\ w.next = next
    BY <1>2, <2>2
  <2>4. req' \in [Request -> AnyReq] /\ Becomes(r, w)
    BY <1>3, <2>1, <2>2, <2>3, Goes
  <2>5. /\ UNCHANGED <<jobs, made, met, started, mix, crashed>>
        /\ \/ recording' = [recording EXCEPT !.text = 0, !.st = "pending"] /\ insight' = insight
           \/ insight' = NoInsight /\ recording' = recording
    BY <1>6 DEF ResetTranscript, DropInsight
  <2>6. RecordingTypes' /\ recording'.audio = recording.audio
    <3>0. recording \in RecordingRec
      BY DEF RecordingTypes
    <3>1. recording' \in RecordingRec /\ recording'.audio = recording.audio
      <4>1. CASE recording' = recording
        BY <3>0, <4>1
      <4>2. CASE recording' = [recording EXCEPT !.text = 0, !.st = "pending"]
        BY <3>0, <4>2 DEF RecordingRec
      <4>3. QED
        BY <2>5, <4>1, <4>2
    <3>2. insight' \in InsightRec
      BY <2>5 DEF RecordingTypes, InsightRec, NoInsight
    <3>3. QED
      BY <2>5, <3>1, <3>2 DEF RecordingTypes
  <2>7. RequestTypes'
    BY <2>4, <2>5 DEF RequestTypes
  <2>8. recording.audio # 0
    BY <1>1, <1>6 DEF AudioHolds, ResetTranscript, DropInsight, At
  <2>9. /\ w \in RecordingReq \cup IdleReq /\ w.op \notin {"transcribe", "analyse"}
        /\ met \subseteq met' /\ req[r].op \in RecordingKinds \cup {"idle"}
    BY <1>1, <1>3, <2>3, <2>5 DEF RecordingKinds
  <2>10. made'.audio >= made.audio /\ recording'.audio \in 0..made'.audio /\ recording'.audio # 0
         /\ made'.texts \in Seq(1..made'.audio)
    BY <1>4, <2>5, <2>6, <2>8
  <2>11. QED
    BY <2>4, <2>6, <2>7, <2>9, <2>10, RecordingBy
<1>7. CASE QueuePipeline(r)
  <2>1. Finish(r) /\ UNCHANGED <<recording, insight, made, met, started, mix, crashed>>
    BY <1>7 DEF QueuePipeline
  <2>2. RequestTypes' /\ Becomes(r, Idle)
    BY <2>1, Ends DEF RequestTypes
  <2>3. recording.audio # 0
    BY <1>1, <1>7 DEF AudioHolds, QueuePipeline, At
  <2>4. jobs' \in [Task -> Nat]
    BY <1>7 DEF QueuePipeline, Submit, RecordingTypes
  <2>5. RecordingTypes'
    BY <2>1, <2>4 DEF RecordingTypes
  <2>6. QED
    BY <1>1, <1>3, <1>4, <2>1, <2>2, <2>3, <2>5, RecordingBy DEF RecordingKinds
<1>8. QED
  BY <1>5, <1>6, <1>7

\* A task's steps: its number of the audio stays, and there is an audio.
LEMMA TaskBy ==
    ASSUME TypeInv, NEW r \in Request, req[r].op \in {"transcribe", "analyse"},
           NEW w \in TranscribeReq \cup AnalyseReq \cup IdleReq, Becomes(r, w), req' \in [Request -> AnyReq],
           w.op = "transcribe" => req[r].op = "transcribe" /\ w.audio = req[r].audio,
           RecordingTypes', recording'.audio = recording.audio, made'.audio = made.audio,
           made'.texts = made.texts \/ \E x \in 1..made.audio : made'.texts = Append(made.texts, x),
           met' = met \/ met' = met \cup {{"unsent"}}, UNCHANGED <<started, mix, crashed>>
    PROVE  RecordingStep
<1> USE DEF TypeInv
<1>1. recording.audio # 0 /\ recording.audio \in 1..made.audio
  BY DEF AudioHolds, RecordingTypes, RecordingRec
<1>2. w.op = "transcribe" => w.audio \in 1..made.audio
  BY DEF AudioHolds
<1>3. made'.texts \in Seq(1..made.audio)
  <2>1. PICK texts \in Seq(1..made.audio) : texts = made.texts
    BY DEF AudioHolds
  <2>2. ASSUME NEW x \in 1..made.audio PROVE Append(texts, x) \in Seq(1..made.audio)
    BY SeqAppend
  <2>3. QED
    BY <2>1, <2>2
<1>4. w \in RecordingReq \cup IdleReq /\ RequestTypes' /\ met \subseteq met'
  <2>1. \A pair \in met' : pair \subseteq Ops
    BY DEF RequestTypes, Ops
  <2>2. w \in RecordingReq \cup IdleReq /\ met \subseteq met'
    BY DEF RecordingReq
  <2>3. QED
    BY <2>1, <2>2 DEF RequestTypes
<1>5. made.audio \in Nat /\ recording'.audio \in 0..made'.audio
  BY <1>1 DEF RecordingTypes
<1>6. QED
  BY <1>1, <1>2, <1>3, <1>4, <1>5, RecordingBy DEF RecordingKinds

LEMMA TasksGoOn ==
    ASSUME TypeInv, NEW r \in Request,
           \/ Begin(r) \/ Transcribed(r) \/ NotTranscribed(r) \/ HandOff(r)
           \/ Analysed(r) \/ NotAnalysed(r) \/ LoadInsight(r) \/ SaveInsight(r) \/ Retry(r)
    PROVE  RecordingStep
<1> USE DEF TypeInv
<1>1. /\ req[r].op \in {"transcribe", "analyse"} /\ req[r] \in TranscribeReq \cup AnalyseReq
      /\ req[r].op = "transcribe" => req[r] \in TranscribeReq
      /\ req[r].op = "analyse" => req[r] \in AnalyseReq
  BY KindOf, RecordingKind
     DEF Begin, Transcribed, NotTranscribed, HandOff, Analysed, NotAnalysed, LoadInsight, SaveInsight, Retry,
         At, RequestTypes, RecordingKinds
<1>2. ASSUME NEW next \in TaskSteps \cup {"end"}
      PROVE  LET w == IF next = "end" THEN Idle ELSE [req[r] EXCEPT !.next = next] IN
             /\ w \in TranscribeReq \cup AnalyseReq \cup IdleReq /\ w \in AnyReq
             /\ w.op = "transcribe" => req[r].op = "transcribe" /\ w.audio = req[r].audio
  <2>1. CASE next = "end"
    BY <2>1 DEF Idle, IdleReq, AnyReq
  <2>2. CASE next # "end"
    BY <1>1, <2>2 DEF TranscribeReq, AnalyseReq, TaskSteps, AnyReq, RecordingReq
  <2>3. QED
    BY <2>1, <2>2
<1>3. ASSUME NEW mark \in Marks, NEW after \in {"ask", "end", "retry"}, NEW next \in TaskSteps, NEW row \in Nat
      PROVE  \A w \in { [req[r] EXCEPT !.mark = mark, !.after = after, !.next = next],
                        [req[r] EXCEPT !.row = row, !.next = next] } :
             /\ w \in TranscribeReq \cup AnalyseReq /\ w \in AnyReq
             /\ w.op = "transcribe" => req[r].op = "transcribe" /\ w.audio = req[r].audio
  BY <1>1 DEF TranscribeReq, AnalyseReq, AnyReq, RecordingReq
<1>4. /\ recording.audio \in Nat /\ made.audio \in Nat
      /\ recording \in RecordingRec /\ insight \in InsightRec /\ jobs \in [Task -> Nat]
      /\ made \in [audio : Nat, insight : Nat, texts : Seq(Nat)]
      /\ req \in [Request -> AnyReq]
  BY DEF RecordingTypes, RecordingRec, RequestTypes
<1>5. /\ req[r].row \in Nat /\ req[r].mark \in Marks /\ req[r].after \in {"ask", "end", "retry"}
      /\ req[r].task \in Task
  BY <1>1 DEF TranscribeReq, AnalyseReq, Task
\* A step that goes on to next, or ends.
<1>6. ASSUME NEW next \in TaskSteps \cup {"end"}, Goto(r, next), RecordingTypes',
             recording'.audio = recording.audio, made'.audio = made.audio,
             made'.texts = made.texts \/ \E x \in 1..made.audio : made'.texts = Append(made.texts, x),
             met' = met \/ met' = met \cup {{"unsent"}}, UNCHANGED <<started, mix, crashed>>
      PROVE  RecordingStep
  <2>1. PICK w : w = IF next = "end" THEN Idle ELSE [req[r] EXCEPT !.next = next]
    OBVIOUS
  <2>2. /\ w \in TranscribeReq \cup AnalyseReq \cup IdleReq /\ w \in AnyReq
        /\ w.op = "transcribe" => req[r].op = "transcribe" /\ w.audio = req[r].audio
    BY <1>2, <2>1
  <2>3. Becomes(r, w) /\ req' \in [Request -> AnyReq]
    BY <1>6, <2>1, <2>2, Goes
  <2>4. QED
    BY <1>1, <1>6, <2>2, <2>3, TaskBy
\* A step that gives the request other fields.
<1>7. ASSUME NEW w \in TranscribeReq \cup AnalyseReq, w \in AnyReq, req' = [req EXCEPT ![r] = w],
             w.op = "transcribe" => req[r].op = "transcribe" /\ w.audio = req[r].audio,
             RecordingTypes', recording'.audio = recording.audio, made'.audio = made.audio, made'.texts = made.texts,
             UNCHANGED <<met, started, mix, crashed>>
      PROVE  RecordingStep
  BY <1>1, <1>7, SetReq, TaskBy
<1>8. CASE Begin(r)
  <2>1. Goto(r, "load") /\ UNCHANGED <<insight, jobs, made, met, started, mix, crashed>>
        /\ recording' = [recording EXCEPT !.st = "processing"]
    BY <1>8 DEF Begin
  <2>2. RecordingTypes' /\ recording'.audio = recording.audio
    BY <1>4, <2>1 DEF RecordingTypes, RecordingRec
  <2>3. QED
    BY <1>6, <2>1, <2>2 DEF TaskSteps
<1>9. CASE Transcribed(r)
  <2>1. Goto(r, "handOff") /\ UNCHANGED <<insight, jobs, met, started, mix, crashed>>
        /\ made' = [made EXCEPT !.texts = Append(@, req[r].audio)]
        /\ recording' = [recording EXCEPT !.text = Len(made.texts) + 1, !.st = "done"]
        /\ req[r].op = "transcribe"
    BY <1>9 DEF Transcribed, At
  <2>2. req[r].audio \in 1..made.audio /\ req[r].audio \in Nat
    BY <1>4, <2>1 DEF AudioHolds
  <2>3. Append(made.texts, req[r].audio) \in Seq(Nat) /\ Len(made.texts) + 1 \in Nat
    BY <1>4, <2>2
  <2>4. RecordingTypes' /\ recording'.audio = recording.audio /\ made'.audio = made.audio
        /\ made'.texts = Append(made.texts, req[r].audio)
    BY <1>4, <2>1, <2>3, Zenon DEF RecordingTypes, RecordingRec
  <2>5. QED
    BY <1>6, <2>1, <2>2, <2>4 DEF TaskSteps
<1>10. CASE NotTranscribed(r)
  <2>1. PICK f \in Failures :
            /\ recording' = [recording EXCEPT !.st = f.st]
            /\ req' = [req EXCEPT ![r].mark = f.mark, ![r].after = f.after, ![r].next = "load"]
    BY <1>10 DEF NotTranscribed
  <2>2. f.st \in {"pending", "failed"} /\ f.mark \in Marks /\ f.after \in {"ask", "end", "retry"}
    BY <2>1 DEF Failures, Marks
  <2>3. UNCHANGED <<insight, jobs, made, met, started, mix, crashed>>
    BY <1>10 DEF NotTranscribed
  <2>4. RecordingTypes' /\ recording'.audio = recording.audio
    BY <1>4, <2>1, <2>2, <2>3 DEF RecordingTypes, RecordingRec
  <2>5. PICK w : w = [req[r] EXCEPT !.mark = f.mark, !.after = f.after, !.next = "load"]
    OBVIOUS
  <2>6. req' = [req EXCEPT ![r] = w]
    BY <1>4, <2>1, <2>5
  <2>7. QED
    BY <1>3, <1>4, <1>7, <2>2, <2>3, <2>4, <2>5, <2>6, Zenon DEF TaskSteps
<1>11. CASE HandOff(r)
  <2>1. Finish(r) /\ (Submit("analyse") \/ UNCHANGED jobs) /\ UNCHANGED <<recording, insight, made, started, mix, crashed>>
        /\ (met' = met \/ met' = met \cup {{"unsent"}})
    BY <1>11 DEF HandOff
  <2>2. Goto(r, "end")
    BY <2>1 DEF Goto
  <2>3. RecordingTypes'
    BY <1>4, <2>1 DEF RecordingTypes, Submit, Task
  <2>4. QED
    BY <1>6, <2>1, <2>2, <2>3
<1>12. CASE Retry(r)
  <2>1. Finish(r) /\ (Submit(req[r].task) \/ UNCHANGED jobs)
        /\ UNCHANGED <<recording, insight, made, met, started, mix, crashed>>
    BY <1>12 DEF Retry
  <2>2. Goto(r, "end")
    BY <2>1 DEF Goto
  <2>3. RecordingTypes'
    BY <1>4, <1>5, <2>1 DEF RecordingTypes, Submit
  <2>4. QED
    BY <1>6, <2>1, <2>2, <2>3
<1>13. CASE Analysed(r)
  <2>1. Finish(r) /\ UNCHANGED <<recording, jobs, made, met, started, mix, crashed>>
        /\ \/ insight' = [id |-> req[r].row, st |-> "done", of |-> req[r].text]
           \/ insight' = insight
        /\ At(r, {"analyse"}, "ask")
    BY <1>13 DEF Analysed
  <2>2. Goto(r, "end")
    BY <2>1 DEF Goto
  <2>3. req[r].text \in Nat
    <3>1. req[r] \in AnalyseReq
      BY <1>1, <2>1 DEF At
    <3>2. QED
      BY <3>1 DEF AnalyseReq
  <2>4. RecordingTypes'
    <3>1. insight' \in InsightRec
      BY <1>4, <1>5, <2>1, <2>3 DEF InsightRec
    <3>2. QED
      BY <1>4, <2>1, <3>1 DEF RecordingTypes
  <2>5. QED
    BY <1>6, <2>1, <2>2, <2>4
<1>14. CASE NotAnalysed(r)
  <2>1. PICK f \in Failures : req' = [req EXCEPT ![r].mark = f.mark, ![r].after = f.after, ![r].next = "save"]
    BY <1>14 DEF NotAnalysed
  <2>2. f.mark \in Marks /\ f.after \in {"ask", "end", "retry"}
    BY <2>1 DEF Failures, Marks
  <2>3. UNCHANGED <<recording, insight, jobs, made, met, started, mix, crashed>>
    BY <1>14 DEF NotAnalysed
  <2>5. PICK w : w = [req[r] EXCEPT !.mark = f.mark, !.after = f.after, !.next = "save"]
    OBVIOUS
  <2>6. req' = [req EXCEPT ![r] = w]
    BY <1>4, <2>1, <2>5
  <2>7. RecordingTypes'
    BY <2>3 DEF RecordingTypes
  <2>8. QED
    BY <1>3, <1>4, <1>7, <2>2, <2>3, <2>5, <2>6, <2>7, Zenon DEF TaskSteps
<1>15. CASE LoadInsight(r)
  <2>1. PICK row \in Nat :
            /\ IF insight.st = "none"
               THEN insight' = [id |-> row, st |-> "pending", of |-> 0] /\ made' = [made EXCEPT !.insight = row]
               ELSE UNCHANGED <<insight, made>>
            /\ \/ Goto(r, req[r].after)
               \/ req' = [req EXCEPT ![r].row = row, ![r].next = "save"]
    <3>1. (IF insight.st = "none" THEN made.insight + 1 ELSE insight.id) \in Nat
      BY <1>4 DEF InsightRec
    <3>2. QED
      BY <1>15, <3>1 DEF LoadInsight
  <2>2. UNCHANGED <<recording, jobs, met, started, mix, crashed>>
    BY <1>15 DEF LoadInsight
  <2>3. RecordingTypes' /\ made'.audio = made.audio /\ made'.texts = made.texts
    BY <1>4, <2>1, <2>2 DEF RecordingTypes, InsightRec
  <2>4. CASE Goto(r, req[r].after)
    BY <1>5, <1>6, <2>2, <2>3, <2>4 DEF TaskSteps
  <2>5. CASE req' = [req EXCEPT ![r].row = row, ![r].next = "save"]
    <3>1. PICK w : w = [req[r] EXCEPT !.row = row, !.next = "save"]
      OBVIOUS
    <3>2. req' = [req EXCEPT ![r] = w]
      BY <1>4, <2>5, <3>1
    <3>3. QED
      BY <1>3, <1>5, <1>7, <2>2, <2>3, <3>1, <3>2, Zenon DEF TaskSteps
  <2>6. QED
    BY <2>1, <2>4, <2>5
<1>16. CASE SaveInsight(r)
  <2>1. UNCHANGED <<recording, jobs, made, met, started, mix, crashed>>
        /\ \/ insight' = [insight EXCEPT !.st = req[r].mark] /\ Goto(r, req[r].after)
           \/ Finish(r) /\ UNCHANGED insight
    BY <1>16 DEF SaveInsight
  <2>2. RecordingTypes'
    BY <1>4, <1>5, <2>1 DEF RecordingTypes, InsightRec, Marks
  <2>3. Goto(r, req[r].after) \/ Goto(r, "end")
    BY <2>1 DEF Goto
  <2>4. QED
    BY <1>5, <1>6, <2>1, <2>2, <2>3 DEF TaskSteps
<1>17. QED
  BY <1>8, <1>9, <1>10, <1>11, <1>12, <1>13, <1>14, <1>15, <1>16

LEMMA AskedFor ==
    ASSUME TypeInv, Retranscribe \/ Reanalyse \/ Backfill \/ NothingToAnalyse
    PROVE  RecordingStep
<1> USE DEF TypeInv
<1>1. UNCHANGED <<recording, insight, made, req, mix, crashed>> /\ recording.audio # 0
  BY DEF Retranscribe, Reanalyse, Backfill, NothingToAnalyse, Take, AudioHolds, RecordingTypes, Task
<1>2. jobs' \in [Task -> Nat]
  BY DEF Retranscribe, Reanalyse, Backfill, NothingToAnalyse, Take, Submit, RecordingTypes, Task
<1>3. RequestTypes' /\ met \subseteq met'
  <2>1. CASE NothingToAnalyse
    BY <2>1 DEF NothingToAnalyse, RequestTypes
  <2>2. CASE Retranscribe \/ Reanalyse \/ Backfill
    <3>1. PICK kind \in {"retranscribe", "reanalyse", "backfill"} : Happens(kind)
      BY <2>2 DEF Retranscribe, Reanalyse, Backfill
    <3>2. QED
      BY <1>1, <3>1, HappensTypes DEF Ops
  <2>3. QED
    BY <2>1, <2>2
<1>4. RecordingTypes' /\ AudioHolds'
  BY <1>1, <1>2 DEF RecordingTypes, AudioHolds
<1>5. QED
  BY <1>1, <1>3, <1>4, Quietly DEF RecordingStep

LEMMA RecordingTyped == ASSUME TypeInv, TranscriptionNext PROVE RecordingStep
<1>1. CASE \E r \in Request, kind \in {"file", "link"}, rank \in Ranks : Upload(r, kind, rank)
  BY <1>1, UploadTyped
<1>2. CASE \E r \in Request : (\E task \in Task : Transcribe(r, task)) \/ Analyse(r)
  BY <1>2, TaskTyped
<1>3. CASE \E r \in Request : AudioWrite(r) \/ ResetTranscript(r) \/ DropInsight(r) \/ QueuePipeline(r)
  BY <1>3, UploadSteps
<1>4. CASE \E r \in Request :
           \/ Begin(r) \/ Transcribed(r) \/ NotTranscribed(r) \/ HandOff(r)
           \/ Analysed(r) \/ NotAnalysed(r) \/ LoadInsight(r) \/ SaveInsight(r) \/ Retry(r)
  BY <1>4, TasksGoOn
<1>5. CASE Retranscribe \/ Reanalyse \/ Backfill \/ NothingToAnalyse
  BY <1>5, AskedFor
<1>6. QED
  BY <1>1, <1>2, <1>3, <1>4, <1>5 DEF TranscriptionNext


-----------------------------------------------------------------------------
(* What the leads' operators compute.                                       *)

LEMMA DeskConstants ==
    /\ Agent \subseteq Nat \ {0} /\ IsFiniteSet(Agent) /\ Agent # {} /\ Nobody \notin Agent
    /\ Lead \subseteq Nat \ {0} /\ IsFiniteSet(Lead)
    /\ FollowUp \subseteq Nat \ {0} /\ IsFiniteSet(FollowUp) /\ IsFiniteSet(Call)
    /\ \A o \in Outcome : Disposition[o] \in DispositionRec
    /\ ByHand \subseteq Status /\ Later \subseteq Nat /\ Caps \subseteq Nat
    /\ Ttl \in Nat \ {0} /\ Cooldown \in Nat
<1> HIDE DEF DispositionRec, Status
<1>1. QED
  BY LeadDeskAssumption

\* A finite set of numbers is bounded and has a greatest element.
LEMMA Bounded == ASSUME NEW S \in SUBSET Nat, IsFiniteSet(S) PROVE \E b \in Nat : \A y \in S : y <= b
<1>0. PICK n \in Nat : ExistsBijection(1..n, S)
  BY FS_CardinalityType
<1>1. PICK f \in Bijection(1..n, S) : TRUE
  BY <1>0 DEF ExistsBijection
<1>2. f \in [1..n -> S] /\ \A y \in S : \E i \in 1..n : f[i] = y
  BY <1>1 DEF Bijection, Injection, Surjection
<1> DEFINE T == {k \in 0..n : \E b \in Nat : \A i \in 1..k : f[i] <= b}
<1>3. 0 \in T
  BY <1>1
<1>4. ASSUME NEW k \in 0..n, k \in T, k # n PROVE k + 1 \in T
  <2>1. PICK b \in Nat : \A i \in 1..k : f[i] <= b
    BY <1>4
  <2>0. k \in Nat /\ k + 1 \in 0..n /\ k + 1 \in 1..n /\ \A i \in 1..k : i \in 1..n
    BY <1>0, <1>4
  <2>2. f[k + 1] \in Nat
    BY <1>2, <2>0
  <2>3. PICK c \in Nat : b <= c /\ f[k + 1] <= c
    BY <2>2
  <2>4. \A i \in 1..k : f[i] \in Nat
    BY <1>2, <2>0
  <2>5. \A i \in 1..(k + 1) : f[i] <= c
    <3> SUFFICES ASSUME NEW i \in 1..(k + 1) PROVE f[i] <= c
      OBVIOUS
    <3>1. CASE i = k + 1
      BY <2>3, <3>1
    <3>2. CASE i # k + 1
      <4>1. i \in 1..k
        BY <2>0, <3>2
      <4>2. QED
        BY <2>1, <2>3, <2>4, <4>1
    <3>3. QED
      BY <3>1, <3>2
  <2>7. QED
    BY <2>0, <2>5
<1>5. 0..n \subseteq T
  <2> HIDE DEF T
  <2>1. \A k \in 0..n : k \in T /\ k # n => k + 1 \in T
    BY <1>4
  <2>2. QED
    BY <1>0, <1>3, <2>1, Climb
<1>6. n \in T
  <2> HIDE DEF T
  <2>1. n \in 0..n
    BY <1>0
  <2>2. QED
    BY <1>5, <2>1
<1>7. PICK b \in Nat : \A i \in 1..n : f[i] <= b
  BY <1>6
<1>8. QED
  BY <1>2, <1>7

LEMMA MaxIn == ASSUME NEW S \in SUBSET Nat, IsFiniteSet(S), S # {} PROVE Max(S) \in S /\ \A y \in S : y <= Max(S)
<1> DEFINE U == {b \in Nat : \A y \in S : y <= b}
<1>1. U \in SUBSET Nat /\ U # {}
  BY Bounded
<1>2. PICK m \in U : \A b \in U : m <= b
  <2> HIDE DEF U
  <2>1. QED
    BY <1>1, Least
<1>3. m \in Nat /\ \A y \in S : y <= m
  BY <1>2
<1>4. m \in S
  <2> SUFFICES ASSUME m \notin S PROVE FALSE
    OBVIOUS
  <2>1. \A y \in S : y < m
    BY <1>3
  <2>0. PICK y \in S : TRUE
    OBVIOUS
  <2>2. m # 0
    BY <1>3, <2>0, <2>1
  <2>3. m - 1 \in Nat /\ \A z \in S : z <= m - 1
    BY <1>3, <2>1, <2>2
  <2>4. QED
    BY <1>2, <1>3, <2>3
<1>5. \E x \in S : \A y \in S : x >= y
  BY <1>3, <1>4
<1>6. QED
  BY <1>5 DEF Max

LEMMA SubsetCount == ASSUME NEW S, IsFiniteSet(S), NEW T \in SUBSET S PROVE Cardinality(T) \in Nat /\ IsFiniteSet(T)
BY FS_Subset, FS_CardinalityType

\* A finite set of numbers can be put in order.
Sorted(s) == \A i, j \in DOMAIN s : i < j => s[i] < s[j]

LEMMA CanBeSorted ==
    ASSUME NEW S \in SUBSET Nat, IsFiniteSet(S)
    PROVE  \E s \in [1..Cardinality(S) -> S] : Sorted(s)
<1> DEFINE n == Cardinality(S)
           T == {k \in 0..n : \A R \in SUBSET S : Cardinality(R) = k => \E s \in [1..k -> R] : Sorted(s)}
<1>1. n \in Nat
  BY FS_CardinalityType
<1>2. 0 \in T
  <2> SUFFICES ASSUME NEW R \in SUBSET S, Cardinality(R) = 0 PROVE \E s \in [1..0 -> R] : Sorted(s)
    BY <1>1
  <2>1. <<>> \in [1..0 -> R] /\ Sorted(<<>>)
    BY DEF Sorted
  <2>2. QED
    BY <2>1
<1>3. ASSUME NEW k \in 0..n, k \in T, k # n PROVE k + 1 \in T
  <2>0. k + 1 \in 0..n /\ k \in Nat
    BY <1>1, <1>3
  <2> SUFFICES ASSUME NEW R \in SUBSET S, Cardinality(R) = k + 1 PROVE \E s \in [1..(k + 1) -> R] : Sorted(s)
    BY <2>0
  <2>1. IsFiniteSet(R) /\ R \in SUBSET Nat /\ R # {}
    <3>1. IsFiniteSet(R) /\ R \in SUBSET Nat
      BY FS_Subset
    <3>2. R = {} => Cardinality(R) = 0
      BY FS_EmptySet
    <3>3. QED
      BY <2>0, <3>1, <3>2
  <2>2. PICK m : m = Max(R)
    OBVIOUS
  <2>3. m \in R /\ \A y \in R : y <= m
    BY <2>1, <2>2, MaxIn
  <2>4. Cardinality(R \ {m}) = k
    <3>1. Cardinality(R \ {m}) = Cardinality(R) - 1
      BY <2>1, <2>3, FS_RemoveElement
    <3>2. QED
      BY <2>0, <3>1
  <2>5. PICK s \in [1..k -> R \ {m}] : Sorted(s)
    BY <1>3, <2>4
  <2> DEFINE t == [i \in 1..(k + 1) |-> IF i = k + 1 THEN m ELSE s[i]]
  <2>6. \A i \in 1..k : s[i] \in R /\ s[i] # m
    BY <2>5
  <2>7. t \in [1..(k + 1) -> R]
    BY <2>0, <2>3, <2>6
  <2>8. ASSUME NEW i \in 1..(k + 1), NEW j \in 1..(k + 1), i < j PROVE t[i] < t[j]
    <3>1. i \in 1..k /\ t[i] = s[i] /\ s[i] \in R /\ s[i] # m
      BY <2>0, <2>6, <2>8
    <3>2. CASE j = k + 1
      <4>1. t[j] = m /\ s[i] \in Nat /\ m \in Nat /\ s[i] <= m
        BY <2>1, <2>3, <3>1, <3>2
      <4>2. QED
        BY <3>1, <4>1
    <3>3. CASE j # k + 1
      BY <2>0, <2>5, <2>8, <3>1, <3>3 DEF Sorted
    <3>4. QED
      BY <3>2, <3>3
  <2>9. Sorted(t)
    BY <2>7, <2>8 DEF Sorted
  <2>10. QED
    BY <2>7, <2>9
<1>4. 0..n \subseteq T
  <2> HIDE DEF T, n
  <2>1. \A k \in 0..n : k \in T /\ k # n => k + 1 \in T
    BY <1>3
  <2>2. QED
    BY <1>1, <1>2, <2>1, Climb
<1>5. n \in T
  BY <1>1, <1>4
<1>6. QED
  BY <1>5

\* The order has every element once.
LEMMA Ordered ==
    ASSUME NEW S \in SUBSET Nat, IsFiniteSet(S)
    PROVE  /\ InOrder(S) \in Seq(S) /\ Len(InOrder(S)) = Cardinality(S) /\ Cardinality(S) \in Nat
           /\ \A i, j \in DOMAIN InOrder(S) : InOrder(S)[i] = InOrder(S)[j] => i = j
           /\ Range(InOrder(S)) = S
<1> DEFINE n == Cardinality(S)
<1>0. n \in Nat
  BY FS_CardinalityType
<1>1. PICK s : s = InOrder(S)
  OBVIOUS
<1>2. s \in [1..n -> S] /\ Sorted(s)
  BY <1>1, CanBeSorted DEF InOrder, Sorted
<1>3. s \in Seq(S) /\ Len(s) = n
  BY <1>0, <1>2
<1>4. \A i, j \in 1..n : s[i] = s[j] => i = j
  <2> SUFFICES ASSUME NEW i \in 1..n, NEW j \in 1..n, s[i] = s[j], i # j PROVE FALSE
    OBVIOUS
  <2>1. i < j \/ j < i
    BY <1>0
  <2>2. s[i] < s[j] \/ s[j] < s[i]
    BY <1>2, <2>1 DEF Sorted
  <2>3. s[i] \in Nat
    BY <1>2
  <2>4. QED
    BY <2>2, <2>3
<1>5. s \in Injection(1..n, S)
  BY <1>2, <1>4 DEF Injection, IsInjective
<1>6. IsFiniteSet(1..n) /\ Cardinality(1..n) = n
  BY <1>0, FS_Interval
<1>7. s \in Surjection(1..n, S)
  BY <1>5, <1>6, FS_Injection
<1>8. Range(s) = S
  BY <1>2, <1>7 DEF Surjection, Range
<1>9. QED
  BY <1>0, <1>1, <1>2, <1>3, <1>4, <1>8

-----------------------------------------------------------------------------

LEMMA EarliestType ==
    ASSUME NEW rows \in [FollowUp -> FollowRec], NEW l
    PROVE  Earliest(rows, l) \in Nat
<1>1. \A f \in FollowUp : rows[f].at \in Nat
  BY DEF FollowRec, NoFollow
<1> DEFINE S == {rows[f].at : f \in OpenOf(rows, l)}
<1>2. S \in SUBSET Nat
  BY <1>1 DEF OpenOf
<1>3. OpenOf(rows, l) # {} => S # {}
  OBVIOUS
<1>4. S # {} => Min(S) \in Nat
  <2> HIDE DEF S
  <2>1. QED
    BY <1>2, MinIn
<1>5. QED
  BY <1>3, <1>4 DEF Earliest

LEMMA BookedType ==
    ASSUME NEW rows \in [FollowUp -> FollowRec], NEW l \in Lead, NEW at \in Nat \ {0}, NEW auto \in BOOLEAN, NEW owner \in Agent
    PROVE  Booked(rows, l, at, auto, owner) \in [FollowUp -> FollowRec]
<1>1. [lead |-> l, at |-> at, auto |-> auto, owner |-> owner] \in FollowRec
  BY DEF FollowRec
<1>2. QED
  BY <1>1 DEF Booked

LEMMA WithoutType ==
    ASSUME NEW rows \in [FollowUp -> FollowRec], NEW fs
    PROVE  Without(rows, fs) \in [FollowUp -> FollowRec]
BY DEF Without, FollowRec

LEMMA RefreshedType ==
    ASSUME NEW rows \in [FollowUp -> FollowRec], NEW l, NEW seen, NEW now \in Nat
    PROVE  Refreshed(rows, l, seen, now) \in Nat
BY EarliestType DEF Refreshed

LEMMA FollowingType ==
    ASSUME NEW rows \in [FollowUp -> FollowRec], NEW ls \in SUBSET Lead, lead \in [Lead -> LeadRec]
    PROVE  FollowingOwner(rows, ls) \in [FollowUp -> FollowRec]
<1>1. ASSUME NEW f \in FollowUp, rows[f].lead \in ls, lead[rows[f].lead].owner # Nobody
      PROVE  [rows[f] EXCEPT !.owner = lead[rows[f].lead].owner] \in FollowRec
  <2>1. lead[rows[f].lead].owner \in Agent
    BY <1>1 DEF LeadRec, Owner
  <2>2. rows[f] \in [lead : Lead, at : Nat \ {0}, auto : BOOLEAN, owner : Agent]
    <3>1. 0 \notin Lead
      BY DeskConstants
    <3>2. QED
      BY <1>1, <3>1 DEF FollowRec, NoFollow
  <2>3. QED
    BY <2>1, <2>2 DEF FollowRec
<1>2. QED
  BY <1>1 DEF FollowingOwner

\* What next_status computes is a status; NoStatus stands for no status.
LEMMA NextStatusType ==
    ASSUME NEW s \in Status, NEW to, NEW on \in BOOLEAN
    PROVE  NextStatus(s, to, on) \in Status
<1>1. ASSUME NEW t \in Status, NEW u PROVE Ahead(t, u) \in Status
  BY DEF Ahead, Status
<1>2. "contacted" \in Status /\ "attempted" \in Status
  BY DEF Status, Stage
<1>3. Reached(s, to, on) \in Status
  BY <1>1, <1>2 DEF Reached
<1>4. QED
  BY <1>3 DEF NextStatus, Status, Final

LEMMA StatsKeeps ==
    ASSUME NEW row \in LeadRec, NEW calls, NEW l, NEW copy, copy = Stats(row, calls, l)
    PROVE  copy.st = row.st /\ copy.owner = row.owner /\ copy.next = row.next
<1>1. PICK n, k, m : copy = [row EXCEPT !.dials = n, !.answered = k, !.dialed = m]
  BY DEF Stats
<1>2. QED
  BY <1>1 DEF LeadRec

LEMMA StatsType ==
    ASSUME NEW row \in LeadRec, NEW calls \in [Call -> CallRec], NEW l
    PROVE  Stats(row, calls, l) \in LeadRec
<1> DEFINE of == {c \in Call : calls[c].lead = l}
           ats == {calls[c].at : c \in of}
<1>1. IsFiniteSet(Call)
  BY DeskConstants
<1>2. Cardinality(of) \in Nat /\ IsFiniteSet(of) /\ Cardinality({c \in of : calls[c].on}) \in Nat
  <2>1. of \in SUBSET Call /\ {c \in of : calls[c].on} \in SUBSET Call
    OBVIOUS
  <2> HIDE DEF of
  <2>2. QED
    BY <1>1, <2>1, SubsetCount
<1>3. ats \in SUBSET Nat
  BY DEF CallRec, NoCall
<1>4. IsFiniteSet(ats)
  <2> DEFINE f == [c \in of |-> calls[c].at]
  <2> HIDE DEF of
  <2>1. f \in Surjection(of, ats)
    BY DEF Surjection
  <2> HIDE DEF f, ats
  <2>2. QED
    BY <1>2, <2>1, FS_Surjection
<1>5. row.dialed \in Nat
  BY DEF LeadRec
<1>6. Max(ats \cup {row.dialed}) \in Nat
  <2> HIDE DEF ats
  <2>1. IsFiniteSet(ats \cup {row.dialed})
    BY <1>4, FS_AddElement
  <2>2. ats \cup {row.dialed} \in SUBSET Nat /\ ats \cup {row.dialed} # {}
    BY <1>3, <1>5
  <2>3. QED
    BY <2>1, <2>2, MaxIn
<1>7. Stats(row, calls, l) =
        [row EXCEPT !.dials = Cardinality(of), !.answered = Cardinality({c \in of : calls[c].on}),
                    !.dialed = Max(ats \cup {row.dialed})]
  BY DEF Stats
<1>8. QED
  <2> DEFINE n == Cardinality(of)
             k == Cardinality({c \in of : calls[c].on})
             m == Max(ats \cup {row.dialed})
  <2>1. n \in Nat /\ k \in Nat /\ m \in Nat /\ Stats(row, calls, l) = [row EXCEPT !.dials = n, !.answered = k, !.dialed = m]
    BY <1>2, <1>6, <1>7
  <2> HIDE DEF n, k, m
  <2>2. QED
    BY <2>1 DEF LeadRec

-----------------------------------------------------------------------------
(* The leads' types.                                                        *)

DeskStep == DeskTypes' /\ ClicksHold' /\ RequestTypes'

ClicksElsewhere(r) == \A q \in Request \ {r} : req[q].op = "click" => call'[req[q].call].lead = req[q].lead
ClickHolds(r, w) ==
    w.op = "click" => /\ call'[w.call].lead = w.lead
                      /\ \A q \in Request \ {r} : req[q].op = "click" => req[q].call # w.call

\* A step of the request r, which becomes w.
LEMMA DeskBy ==
    ASSUME TypeInv, NEW r \in Request, req[r].op \in DeskKinds \cup {"idle"},
           NEW w \in DeskReq \cup IdleReq, Becomes(r, w), RequestTypes', DeskTypes', met \subseteq met',
           ClickHolds(r, w), ClicksElsewhere(r)
    PROVE  DeskStep /\ Only(DeskKinds)
<1>1. w.op \in DeskKinds \cup {"idle"}
  BY DeskKind DEF IdleReq
<1>2. \A q \in Request : req'[q] = IF q = r THEN w ELSE req[q]
  BY DEF Becomes
<1>3. ClicksHold'
  BY <1>2 DEF TypeInv, ClicksHold, ClickHolds, ClicksElsewhere
<1>4. QED
  BY <1>1, <1>3, OneOf DEF DeskStep, TypeInv

LEMMA DeskBegins ==
    ASSUME TypeInv, NEW r \in Request, NEW w \in DeskReq, Start(r, w.op, w), UNCHANGED <<mix, crashed>>,
           DeskTypes', ClickHolds(r, w), ClicksElsewhere(r)
    PROVE  DeskStep /\ Only(DeskKinds)
<1>1. w \in AnyReq /\ w.op \in Kinds
  BY DeskKind DEF AnyReq, Kinds
<1>2. RequestTypes' /\ Becomes(r, w) /\ Free(r) /\ Meets(r, w.op)
  BY <1>1, Starts DEF TypeInv
<1>3. met \subseteq met'
  BY <1>1, <1>2, Meeting DEF TypeInv
<1>4. QED
  BY <1>2, <1>3, DeskBy DEF Free

\* Requests that leave the calls alone.
LEMMA CallsStay == ASSUME TypeInv, UNCHANGED call, NEW r \in Request PROVE ClicksElsewhere(r)
BY DEF TypeInv, ClicksHold, ClicksElsewhere

LEMMA DeskEnds ==
    ASSUME TypeInv, NEW r \in Request, req[r].op \in DeskKinds \cup {"idle"}, End(r),
           UNCHANGED <<met, started, mix, crashed>>, DeskTypes', ClicksElsewhere(r)
    PROVE  DeskStep /\ Only(DeskKinds)
<1>1. RequestTypes' /\ Becomes(r, Idle)
  BY Ends DEF TypeInv, RequestTypes
<1>2. Idle \in IdleReq /\ Idle.op = "idle"
  BY DEF Idle, IdleReq
<1>3. QED
  BY <1>1, <1>2, DeskBy DEF ClickHolds

LEMMA DeskGoesOn ==
    ASSUME TypeInv, NEW r \in Request, req[r].op \in DeskKinds, NEW w \in DeskReq, req' = [req EXCEPT ![r] = w],
           w.op # "click", UNCHANGED <<call, met, started, mix, crashed>>, DeskTypes'
    PROVE  DeskStep /\ Only(DeskKinds)
<1>1. w \in AnyReq
  BY DEF AnyReq
<1>2. RequestTypes' /\ Becomes(r, w)
  BY <1>1, Steps DEF TypeInv
<1>3. QED
  BY <1>2, CallsStay, DeskBy DEF ClickHolds

\* A request's fields.
LEMMA DeskFields ==
    ASSUME TypeInv, NEW r \in Request, req[r].op \in DeskKinds
    PROVE  req[r] \in DeskReq
BY KindOf DEF TypeInv, RequestTypes

LEMMA FollowUpsTyped ==
    ASSUME TypeInv, NEW r \in Request,
           \/ ScheduleWrite(r) \/ Supersede(r) \/ CompleteWrite(r)
           \/ \E a \in Agent, l \in Lead, at \in Later : Schedule(r, a, l, at)
           \/ \E f \in FollowUp : Complete(r, f)
    PROVE  DeskStep /\ Only(DeskKinds)
<1>0. /\ lead \in [Lead -> LeadRec] /\ followup \in [FollowUp -> FollowRec]
      /\ call \in [Call -> CallRec] /\ queue \in [on : BOOLEAN, fresh : BOOLEAN] /\ clock \in Nat \ {0}
      /\ req \in [Request -> AnyReq]
  BY DEF TypeInv, DeskTypes, RequestTypes
<1>1. CASE \E a \in Agent, l \in Lead, at \in Later : Schedule(r, a, l, at)
  <2>1. PICK a \in Agent, l \in Lead, at \in Later : Schedule(r, a, l, at)
    BY <1>1
  <2> DEFINE w == [op |-> "schedule", lead |-> l, at |-> at, seen |-> lead[l].next,
                   owner |-> IF lead[l].owner # Nobody THEN lead[l].owner ELSE a]
  <2>2. w \in ScheduleReq /\ w.op = "schedule"
    <3>1. at \in Nat \ {0}
      BY <1>0, <2>1, DeskConstants DEF Schedule
    <3>2. (IF lead[l].owner # Nobody THEN lead[l].owner ELSE a) \in Agent /\ lead[l].next \in Nat
      BY <1>0 DEF LeadRec, Owner
    <3>3. QED
      BY <3>1, <3>2 DEF ScheduleReq
  <2>3. Start(r, w.op, w) /\ UNCHANGED <<deskVars, mix>>
    BY <2>1 DEF Schedule
  <2> HIDE DEF w
  <2>4. w \in DeskReq
    BY <2>2 DEF DeskReq
  <2>5. DeskTypes' /\ UNCHANGED <<call, crashed, mix>>
    BY <1>0, <2>3 DEF deskVars, DeskTypes
  <2>6. QED
    BY <2>2, <2>3, <2>4, <2>5, DeskBegins, CallsStay DEF ClickHolds
<1>2. CASE \E f \in FollowUp : Complete(r, f)
  <2>1. PICK f \in FollowUp : Complete(r, f)
    BY <1>2
  <2> DEFINE w == [op |-> "complete", row |-> f, lead |-> followup[f].lead, seen |-> lead[followup[f].lead].next]
  <2>2. w \in CompleteReq /\ w.op = "complete"
    <3>1. followup[f].lead \in Lead
      BY <1>0, <2>1 DEF Complete, FollowRec, NoFollow
    <3>2. lead[followup[f].lead].next \in Nat
      BY <1>0, <3>1 DEF LeadRec
    <3>3. QED
      BY <3>1, <3>2 DEF CompleteReq
  <2>3. Start(r, w.op, w) /\ UNCHANGED <<deskVars, mix>>
    BY <2>1 DEF Complete
  <2> HIDE DEF w
  <2>4. w \in DeskReq
    BY <2>2 DEF DeskReq
  <2>5. DeskTypes' /\ UNCHANGED <<call, crashed, mix>>
    BY <1>0, <2>3 DEF deskVars, DeskTypes
  <2>6. QED
    BY <2>2, <2>3, <2>4, <2>5, DeskBegins, CallsStay DEF ClickHolds
<1>3. CASE ScheduleWrite(r)
  <2>1. req[r].op = "schedule" /\ req[r] \in ScheduleReq
    BY <1>0, <1>3, KindOf, DeskKind DEF ScheduleWrite, DeskKinds, DeskOps
  <2>2. req[r].lead \in Lead /\ req[r].at \in Nat \ {0} /\ req[r].owner \in Agent
    BY <2>1 DEF ScheduleReq
  <2>3. /\ followup' = Booked(followup, req[r].lead, req[r].at, FALSE, req[r].owner)
        /\ lead' = [lead EXCEPT ![req[r].lead].next = Earliest(followup', req[r].lead)]
        /\ req' = [req EXCEPT ![r].op = "supersede"]
        /\ UNCHANGED <<call, queue, clock, crashed, met, started, mix>>
    BY <1>3 DEF ScheduleWrite
  <2>4. followup' \in [FollowUp -> FollowRec]
    BY <1>0, <2>2, <2>3, BookedType
  <2>5. Earliest(followup', req[r].lead) \in Nat
    BY <2>4, EarliestType
  <2>6. lead' \in [Lead -> LeadRec]
    BY <1>0, <2>3, <2>5, Zenon DEF LeadRec
  <2>7. PICK w : w = [req[r] EXCEPT !.op = "supersede"]
    OBVIOUS
  <2>8. w \in ScheduleReq /\ w.op = "supersede" /\ req' = [req EXCEPT ![r] = w]
    BY <1>0, <2>1, <2>3, <2>7 DEF ScheduleReq
  <2>9. DeskTypes'
    BY <1>0, <2>3, <2>4, <2>6 DEF DeskTypes
  <2>10. w \in DeskReq /\ req[r].op \in DeskKinds
    BY <2>1, <2>8 DEF DeskReq, DeskKinds, DeskOps
  <2>11. QED
    BY <2>3, <2>8, <2>9, <2>10, DeskGoesOn
<1>4. CASE Supersede(r)
  <2>1. req[r].op = "supersede" /\ req[r] \in ScheduleReq
    BY <1>0, <1>4, KindOf, DeskKind DEF Supersede, DeskKinds, DeskOps
  <2>2. /\ followup' = Without(followup, AutoOf(followup, req[r].lead))
        /\ lead' = [lead EXCEPT ![req[r].lead].next =
                       IF AutoOf(followup, req[r].lead) = {} THEN @
                       ELSE Refreshed(followup', req[r].lead, req[r].seen, @)]
        /\ End(r) /\ UNCHANGED <<call, queue, clock, crashed, met, started, mix>>
    BY <1>4 DEF Supersede
  <2>3. followup' \in [FollowUp -> FollowRec]
    BY <1>0, <2>2, WithoutType
  <2>4. PICK n : n = IF AutoOf(followup, req[r].lead) = {} THEN lead[req[r].lead].next
                     ELSE Refreshed(followup', req[r].lead, req[r].seen, lead[req[r].lead].next)
    OBVIOUS
  <2>5. lead[req[r].lead].next \in Nat /\ req[r].lead \in Lead
    BY <1>0, <2>1 DEF LeadRec, ScheduleReq
  <2>6. n \in Nat
    BY <2>3, <2>4, <2>5, RefreshedType
  <2>7. lead' = [lead EXCEPT ![req[r].lead].next = n]
    BY <1>0, <2>2, <2>4, <2>5
  <2>8. lead' \in [Lead -> LeadRec]
    BY <1>0, <2>6, <2>7, Zenon DEF LeadRec
  <2>9. DeskTypes' /\ req[r].op \in DeskKinds
    BY <1>0, <2>1, <2>2, <2>3, <2>8 DEF DeskTypes, DeskKinds, DeskOps
  <2>10. QED
    BY <2>2, <2>9, DeskEnds, CallsStay
<1>5. CASE CompleteWrite(r)
  <2>1. req[r].op = "complete" /\ req[r] \in CompleteReq
    BY <1>0, <1>5, KindOf, DeskKind DEF CompleteWrite, DeskKinds, DeskOps
  <2>2. PICK rows : rows = IF followup[req[r].row].lead = req[r].lead
                           THEN Without(followup, {req[r].row}) ELSE followup
    OBVIOUS
  <2>3. /\ followup' = rows
        /\ lead' = [lead EXCEPT ![req[r].lead].next = Refreshed(rows, req[r].lead, req[r].seen, @)]
        /\ End(r) /\ UNCHANGED <<call, queue, clock, crashed, met, started, mix>>
    BY <1>5, <2>2 DEF CompleteWrite
  <2>4. rows \in [FollowUp -> FollowRec]
    BY <1>0, <2>2, WithoutType
  <2>5. lead[req[r].lead].next \in Nat /\ req[r].lead \in Lead
    BY <1>0, <2>1 DEF LeadRec, CompleteReq
  <2>6. PICK n : n = Refreshed(rows, req[r].lead, req[r].seen, lead[req[r].lead].next)
    OBVIOUS
  <2>7. n \in Nat
    BY <2>4, <2>5, <2>6, RefreshedType
  <2>8. lead' = [lead EXCEPT ![req[r].lead].next = n]
    BY <1>0, <2>3, <2>5, <2>6
  <2>9. lead' \in [Lead -> LeadRec]
    BY <1>0, <2>7, <2>8, Zenon DEF LeadRec
  <2>10. DeskTypes' /\ req[r].op \in DeskKinds
    BY <1>0, <2>1, <2>3, <2>4, <2>9 DEF DeskTypes, DeskKinds, DeskOps
  <2>11. QED
    BY <2>3, <2>10, DeskEnds, CallsStay
<1>6. QED
  BY <1>1, <1>2, <1>3, <1>4, <1>5

LEMMA DeskVariables ==
    ASSUME TypeInv
    PROVE  /\ lead \in [Lead -> LeadRec] /\ followup \in [FollowUp -> FollowRec]
           /\ call \in [Call -> CallRec] /\ queue \in [on : BOOLEAN, fresh : BOOLEAN] /\ clock \in Nat \ {0}
           /\ req \in [Request -> AnyReq]
BY DEF TypeInv, DeskTypes, RequestTypes

LEMMA NoLockType ==
    ASSUME NEW row \in LeadRec
    PROVE  NoLock(row) \in LeadRec /\ NoLock(row).owner = row.owner /\ NoLock(row).st = row.st
BY DEF NoLock, LeadRec, Owner

LEMMA DialedType ==
    ASSUME NEW row \in LeadRec, NEW b \in BOOLEAN, NEW at \in Nat
    PROVE  [row EXCEPT !.worked = b, !.dialed = at] \in LeadRec
BY DEF LeadRec

LEMMA QueueTyped ==
    ASSUME TypeInv, NEW r \in Request,
           \/ PullCommit(r) \/ ReleaseDialed(r) \/ ReleaseWrite(r)
           \/ \E a \in Agent, l \in Lead :
                 Pull(r, a, l) \/ \E how \in {"dialed", "return", "skip"} : Release(r, a, l, how)
    PROVE  DeskStep /\ Only(DeskKinds)
<1>0. /\ lead \in [Lead -> LeadRec] /\ followup \in [FollowUp -> FollowRec]
      /\ call \in [Call -> CallRec] /\ queue \in [on : BOOLEAN, fresh : BOOLEAN] /\ clock \in Nat \ {0}
      /\ req \in [Request -> AnyReq]
  BY DeskVariables
<1>1. CASE \E a \in Agent, l \in Lead : Pull(r, a, l)
  <2>1. PICK a \in Agent, l \in Lead : Pull(r, a, l)
    BY <1>1
  <2> DEFINE w == [op |-> "pull", lead |-> l, agent |-> a, until |-> clock + Ttl, again |-> l \in CheckedOut(a)]
  <2>2. w \in PullReq /\ w.op = "pull"
    <3>1. clock + Ttl \in Nat
      BY <1>0, DeskConstants
    <3>2. QED
      BY <3>1 DEF PullReq
  <2>3. Start(r, w.op, w) /\ UNCHANGED <<deskVars, mix>>
    BY <2>1 DEF Pull
  <2> HIDE DEF w
  <2>4. w \in DeskReq
    BY <2>2 DEF DeskReq
  <2>5. DeskTypes' /\ UNCHANGED <<call, crashed, mix>>
    BY <1>0, <2>3 DEF deskVars, DeskTypes
  <2>6. QED
    BY <2>2, <2>3, <2>4, <2>5, DeskBegins, CallsStay DEF ClickHolds
<1>2. CASE \E a \in Agent, l \in Lead, how \in {"dialed", "return", "skip"} : Release(r, a, l, how)
  <2>1. PICK a \in Agent, l \in Lead, how \in {"dialed", "return", "skip"} : Release(r, a, l, how)
    BY <1>2
  <2> DEFINE w == [op |-> "release", lead |-> l, how |-> how, worked |-> lead[l].worked]
  <2>2. w \in ReleaseReq /\ w.op = "release"
    BY <1>0 DEF ReleaseReq, LeadRec
  <2>3. Start(r, w.op, w) /\ UNCHANGED <<deskVars, mix>>
    BY <2>1 DEF Release
  <2> HIDE DEF w
  <2>4. w \in DeskReq
    BY <2>2 DEF DeskReq
  <2>5. DeskTypes' /\ UNCHANGED <<call, crashed, mix>>
    BY <1>0, <2>3 DEF deskVars, DeskTypes
  <2>6. QED
    BY <2>2, <2>3, <2>4, <2>5, DeskBegins, CallsStay DEF ClickHolds
<1>3. CASE PullCommit(r)
  <2>1. req[r].op = "pull" /\ req[r] \in PullReq
    BY <1>0, <1>3, KindOf, DeskKind DEF PullCommit, DeskKinds, DeskOps
  <2>2. /\ lead' = [lead EXCEPT ![req[r].lead] =
                       [@ EXCEPT !.by = req[r].agent, !.until = req[r].until, !.queued = TRUE]]
        /\ End(r) /\ UNCHANGED <<call, followup, queue, clock, crashed, met, started, mix>>
    BY <1>3 DEF PullCommit
  <2>3. req[r].lead \in Lead /\ req[r].agent \in Owner /\ req[r].until \in Nat
    BY <2>1 DEF PullReq, Owner
  <2>4. lead' \in [Lead -> LeadRec]
    BY <1>0, <2>2, <2>3, Zenon DEF LeadRec
  <2>5. DeskTypes' /\ req[r].op \in DeskKinds
    BY <1>0, <2>1, <2>2, <2>4 DEF DeskTypes, DeskKinds, DeskOps
  <2>6. QED
    BY <2>2, <2>5, DeskEnds, CallsStay
<1>4. CASE ReleaseDialed(r)
  <2>1. req[r].op = "release" /\ req[r] \in ReleaseReq
    BY <1>0, <1>4, KindOf, DeskKind DEF ReleaseDialed, DeskKinds, DeskOps
  <2>2. /\ lead' = [lead EXCEPT ![req[r].lead].worked = @ \/ ~req[r].worked, ![req[r].lead].dialed = clock]
        /\ req' = [req EXCEPT ![r].how = "return"]
        /\ UNCHANGED <<call, followup, queue, clock, crashed, met, started, mix>>
    BY <1>4 DEF ReleaseDialed
  <2>3. lead' \in [Lead -> LeadRec]
    <3>1. PICK b \in BOOLEAN : b = (lead[req[r].lead].worked \/ ~req[r].worked)
      OBVIOUS
    <3>2. req[r].lead \in Lead
      BY <2>1 DEF ReleaseReq
    <3>3. lead' = [lead EXCEPT ![req[r].lead] = [@ EXCEPT !.worked = b, !.dialed = clock]]
      BY <1>0, <2>2, <3>1, <3>2
    <3>4. [lead[req[r].lead] EXCEPT !.worked = b, !.dialed = clock] \in LeadRec
      <4>1. lead[req[r].lead] \in LeadRec /\ clock \in Nat
        BY <1>0, <3>2
      <4>2. QED
        BY <3>1, <4>1, DialedType
    <3>5. QED
      BY <1>0, <3>3, <3>4
  <2>4. PICK w : w = [req[r] EXCEPT !.how = "return"]
    OBVIOUS
  <2>5. w \in ReleaseReq /\ w.op = "release" /\ req' = [req EXCEPT ![r] = w]
    BY <1>0, <2>1, <2>2, <2>4 DEF ReleaseReq
  <2>6. DeskTypes' /\ req[r].op \in DeskKinds /\ w \in DeskReq
    BY <1>0, <2>1, <2>2, <2>3, <2>5 DEF DeskTypes, DeskKinds, DeskOps, DeskReq
  <2>7. QED
    BY <2>2, <2>5, <2>6, DeskGoesOn
<1>5. CASE ReleaseWrite(r)
  <2>1. req[r].op = "release" /\ req[r] \in ReleaseReq
    BY <1>0, <1>5, KindOf, DeskKind DEF ReleaseWrite, DeskKinds, DeskOps
  <2>2. /\ lead' = [lead EXCEPT ![req[r].lead] =
                       IF req[r].how = "return" THEN NoLock(@)
                       ELSE [@ EXCEPT !.queued = FALSE, !.until = clock + Ttl]]
        /\ End(r) /\ UNCHANGED <<call, followup, queue, clock, crashed, met, started, mix>>
    BY <1>5 DEF ReleaseWrite
  <2>3. req[r].lead \in Lead
    BY <2>1 DEF ReleaseReq
  <2>4. PICK row : row = IF req[r].how = "return" THEN NoLock(lead[req[r].lead])
                         ELSE [lead[req[r].lead] EXCEPT !.queued = FALSE, !.until = clock + Ttl]
    OBVIOUS
  <2>5. lead[req[r].lead] \in LeadRec /\ clock + Ttl \in Nat
    <3>1. Ttl \in Nat
      BY DeskConstants
    <3>2. QED
      BY <1>0, <2>3, <3>1
  <2>6. row \in LeadRec
    <3>1. [lead[req[r].lead] EXCEPT !.queued = FALSE, !.until = clock + Ttl] \in LeadRec
      BY <2>5 DEF LeadRec
    <3>2. QED
      BY <2>4, <2>5, <3>1, NoLockType
  <2>7. lead' = [lead EXCEPT ![req[r].lead] = row]
    BY <1>0, <2>2, <2>3, <2>4
  <2>8. DeskTypes' /\ req[r].op \in DeskKinds
    BY <1>0, <2>1, <2>2, <2>6, <2>7 DEF DeskTypes, DeskKinds, DeskOps
  <2>9. QED
    BY <2>2, <2>8, DeskEnds, CallsStay
<1>6. QED
  BY <1>1, <1>2, <1>3, <1>4, <1>5

\* Statements that touch every lead at once.
LEMMA DeskAtOnce ==
    ASSUME TypeInv, UNCHANGED <<call, req, met, started, mix, crashed>>, DeskTypes'
    PROVE  DeskStep /\ Only(DeskKinds)
BY Quietly DEF TypeInv, DeskStep, RequestTypes, ClicksHold

LEMMA SwitchTyped == ASSUME TypeInv, SwitchQueue \/ Tick PROVE DeskStep /\ Only(DeskKinds)
<1>0. /\ lead \in [Lead -> LeadRec] /\ followup \in [FollowUp -> FollowRec]
      /\ call \in [Call -> CallRec] /\ queue \in [on : BOOLEAN, fresh : BOOLEAN] /\ clock \in Nat \ {0}
  BY DeskVariables
<1>1. CASE SwitchQueue
  <2>1. UNCHANGED <<call, followup, clock, crashed, req, met, started, mix>>
    BY <1>1 DEF SwitchQueue
  <2>2. queue' \in [on : BOOLEAN, fresh : BOOLEAN]
    BY <1>0, <1>1 DEF SwitchQueue
  <2>3. lead' \in [Lead -> LeadRec]
    BY <1>0, <1>1, NoLockType DEF SwitchQueue
  <2>4. QED
    BY <1>0, <2>1, <2>2, <2>3, DeskAtOnce DEF DeskTypes
<1>2. CASE Tick
  BY <1>0, <1>2, DeskAtOnce DEF Tick, DeskTypes
<1>3. QED
  BY <1>1, <1>2

-----------------------------------------------------------------------------
(* Calls and outcomes.                                                      *)

LEMMA DispositionType ==
    ASSUME NEW d \in DispositionRec
    PROVE  d.on \in BOOLEAN /\ d.dnd \in BOOLEAN /\ d.retry \in Nat
BY DEF DispositionRec

LEMMA NoOutcomeType == NoOutcome \in DispositionRec /\ NoOutcome.to = NoStatus /\ NoOutcome.dnd = FALSE
BY DEF DispositionRec, NoOutcome

LEMMA ApplyingType ==
    ASSUME TypeInv, NEW op \in {"call", "outcome"}, NEW calls \in [Call -> CallRec], NEW c \in Call,
           calls[c].lead \in Lead, NEW d \in DispositionRec, NEW named \in BOOLEAN, NEW at \in Nat,
           NEW w, w = Applying(op, c, calls, d, named, at)
    PROVE  /\ w \in OutcomeReq /\ w.op = op /\ w.lead = calls[c].lead /\ w.on = calls[c].on
           /\ w.copy = Stats(lead[w.lead], calls, w.lead)
           /\ w.st = NextStatus(lead[w.lead].st, d.to, calls[c].on) /\ w.d = d
<1>1. /\ calls[c] \in [lead : Lead, agent : Agent, on : BOOLEAN, at : Nat \ {0}]
  <2>1. 0 \notin Lead
    BY DeskConstants
  <2>2. QED
    BY <2>1 DEF CallRec, NoCall
<1>2. PICK l \in Lead : l = calls[c].lead
  OBVIOUS
<1>3. lead[l] \in LeadRec /\ calls[c].on \in BOOLEAN /\ calls[c].agent \in Agent
  BY <1>1, DeskVariables
<1>4. PICK copy : copy = Stats(lead[l], calls, l)
  OBVIOUS
<1>5. copy \in LeadRec
  BY <1>3, <1>4, StatsType
<1>6. PICK st : st = NextStatus(lead[l].st, d.to, calls[c].on)
  OBVIOUS
<1>7. st \in Status
  <2>1. lead[l].st \in Status
    BY <1>3 DEF LeadRec
  <2>2. QED
    BY <1>3, <1>6, <2>1, NextStatusType
<1>8. PICK owner : owner = IF lead[l].owner # Nobody THEN lead[l].owner ELSE calls[c].agent
  OBVIOUS
<1>9. owner \in Agent
  BY <1>3, <1>8 DEF LeadRec, Owner
<1>10. w =
          [op |-> op, lead |-> l, copy |-> copy, on |-> calls[c].on, st |-> st, d |-> d,
           named |-> named, at |-> at, owner |-> owner]
  BY <1>2, <1>4, <1>6, <1>8 DEF Applying
<1>11. QED
  BY <1>2, <1>3, <1>4, <1>5, <1>6, <1>7, <1>9, <1>10 DEF OutcomeReq

LEMMA SavedType ==
    ASSUME NEW row \in LeadRec, NEW w \in OutcomeReq
    PROVE  /\ Saved(row, w) \in LeadRec
           /\ Saved(row, w).st = (IF w.st # w.copy.st THEN w.st ELSE row.st)
           /\ Saved(row, w).owner = row.owner /\ Saved(row, w).next = row.next
           /\ Saved(row, w).dials = w.copy.dials /\ Saved(row, w).answered = w.copy.answered
           /\ row.worked \/ w.op = "call" => Saved(row, w).worked
<1>1. PICK base : base = IF w.op = "call" THEN NoLock(row) ELSE row
  OBVIOUS
<1>2. base \in LeadRec /\ base.st = row.st /\ base.owner = row.owner /\ base.next = row.next /\ base.worked = row.worked
  BY <1>1, NoLockType DEF NoLock, LeadRec
<1>3. PICK worked \in BOOLEAN : worked = (base.worked \/ w.op = "call" \/ (w.st # w.copy.st /\ ~w.copy.worked))
  OBVIOUS
<1>4. PICK dnd \in BOOLEAN : dnd = (base.dnd \/ (w.d.dnd /\ ~w.copy.dnd))
  OBVIOUS
<1>5. PICK st \in Status : st = IF w.st # w.copy.st THEN w.st ELSE base.st
  BY <1>2 DEF OutcomeReq, LeadRec
<1>6. w.copy.dials \in Nat /\ w.copy.answered \in Nat /\ w.copy.dialed \in Nat
  BY DEF OutcomeReq, LeadRec
<1>7. Saved(row, w) = [base EXCEPT !.dials = w.copy.dials, !.answered = w.copy.answered, !.dialed = w.copy.dialed,
                                   !.worked = worked, !.st = st, !.dnd = dnd]
  BY <1>1, <1>3, <1>4, <1>5 DEF Saved
<1>8. QED
  BY <1>2, <1>3, <1>4, <1>5, <1>6, <1>7 DEF LeadRec

\* No request in progress holds a call that is not there.
LEMMA FreshCall ==
    ASSUME TypeInv, NEW c \in Call, call[c] = NoCall, NEW q \in Request, req[q].op = "click"
    PROVE  req[q].call # c /\ req[q].lead # 0
<1>1. req[q] \in ClickReq
  BY KindOf, DeskKind DEF TypeInv, RequestTypes, DeskKinds, DeskOps
<1>2. req[q].lead \in Lead /\ 0 \notin Lead
  BY <1>1, DeskConstants DEF ClickReq
<1>3. QED
  BY <1>2 DEF TypeInv, ClicksHold, NoCall

LEMMA CallsTyped ==
    ASSUME TypeInv, NEW r \in Request,
           \/ \E a \in Agent, l \in Lead, c \in Call :
                 Click(r, a, c, l) \/ \E o \in Outcome, at \in Later \cup {0} : LogCall(r, a, c, l, o, at)
           \/ \E c \in Call, o \in Outcome, at \in Later \cup {0} : SetOutcome(r, c, o, at)
    PROVE  DeskStep /\ Only(DeskKinds)
<1>0. /\ lead \in [Lead -> LeadRec] /\ followup \in [FollowUp -> FollowRec]
      /\ call \in [Call -> CallRec] /\ queue \in [on : BOOLEAN, fresh : BOOLEAN] /\ clock \in Nat \ {0}
      /\ req \in [Request -> AnyReq]
  BY DeskVariables
<1>1. CASE \E a \in Agent, l \in Lead, c \in Call : Click(r, a, c, l)
  <2>1. PICK a \in Agent, l \in Lead, c \in Call : Click(r, a, c, l)
    BY <1>1
  <2> DEFINE w == [op |-> "click", lead |-> l, call |-> c, st |-> lead[l].st, worked |-> lead[l].worked]
  <2>2. w \in ClickReq /\ w.op = "click" /\ w.lead = l /\ w.call = c
    BY <1>0 DEF ClickReq, LeadRec
  <2>3. Start(r, w.op, w) /\ UNCHANGED <<lead, followup, queue, clock, crashed, mix>> /\ call[c] = NoCall
        /\ call' = [call EXCEPT ![c] = [lead |-> l, agent |-> a, on |-> FALSE, at |-> clock]]
    BY <2>1 DEF Click
  <2> HIDE DEF w
  <2>4. w \in DeskReq
    BY <2>2 DEF DeskReq
  <2>5. call' \in [Call -> CallRec] /\ call'[c].lead = l
    BY <1>0, <2>3 DEF CallRec
  <2>6. DeskTypes'
    BY <1>0, <2>3, <2>5 DEF DeskTypes
  <2>7. ClickHolds(r, w)
    BY <2>2, <2>3, <2>5, FreshCall DEF ClickHolds
  <2>8. ClicksElsewhere(r)
    BY <1>0, <2>3, FreshCall DEF ClicksElsewhere, TypeInv, ClicksHold
  <2>9. QED
    BY <2>3, <2>4, <2>6, <2>7, <2>8, DeskBegins
<1>2. CASE \E a \in Agent, l \in Lead, c \in Call, o \in Outcome, at \in Later \cup {0} : LogCall(r, a, c, l, o, at)
  <2>1. PICK a \in Agent, l \in Lead, c \in Call, o \in Outcome, at \in Later \cup {0} : LogCall(r, a, c, l, o, at)
    BY <1>2
  <2>2. PICK w : w = Applying("call", c, call', Disposition[o], TRUE, at)
    OBVIOUS
  <2>3. Start(r, "call", w) /\ UNCHANGED <<lead, followup, queue, clock, crashed, mix>> /\ call[c] = NoCall
        /\ call' = [call EXCEPT ![c] = [lead |-> l, agent |-> a, on |-> Disposition[o].on, at |-> clock]]
    BY <2>1, <2>2 DEF LogCall
  <2>4. Disposition[o] \in DispositionRec /\ Disposition[o].on \in BOOLEAN /\ at \in Nat
    BY DeskConstants, DispositionType
  <2>5. call' \in [Call -> CallRec] /\ call'[c].lead = l
    BY <1>0, <2>3, <2>4 DEF CallRec
  <2>6. w \in OutcomeReq /\ w.op = "call"
    <3>1. PICK b \in BOOLEAN : b = TRUE
      OBVIOUS
    <3>2. PICK calls : calls = call'
      OBVIOUS
    <3>3. PICK d \in DispositionRec : d = Disposition[o]
      BY <2>4
    <3>4. w = Applying("call", c, calls, d, b, at) /\ calls \in [Call -> CallRec] /\ calls[c].lead \in Lead
      BY <2>2, <2>5, <3>1, <3>2, <3>3
    <3>5. QED
      BY <2>4, <3>4, ApplyingType
  <2>7. w \in DeskReq
    BY <2>6 DEF DeskReq
  <2>8. DeskTypes'
    BY <1>0, <2>3, <2>5 DEF DeskTypes
  <2>9. ClicksElsewhere(r)
    BY <1>0, <2>3, FreshCall DEF ClicksElsewhere, TypeInv, ClicksHold
  <2>10. QED
    BY <2>3, <2>6, <2>7, <2>8, <2>9, DeskBegins DEF ClickHolds
<1>3. CASE \E c \in Call, o \in Outcome, at \in Later \cup {0} : SetOutcome(r, c, o, at)
  <2>1. PICK c \in Call, o \in Outcome, at \in Later \cup {0} : SetOutcome(r, c, o, at)
    BY <1>3
  <2>2. PICK w : w = Applying("outcome", c, call', Disposition[o], TRUE, at)
    OBVIOUS
  <2>3. Start(r, "outcome", w) /\ UNCHANGED <<lead, followup, queue, clock, crashed, mix>> /\ call[c] # NoCall
        /\ call' = [call EXCEPT ![c].on = Disposition[o].on]
    BY <2>1, <2>2 DEF SetOutcome
  <2>4. Disposition[o] \in DispositionRec /\ Disposition[o].on \in BOOLEAN /\ at \in Nat
    BY DeskConstants, DispositionType
  <2>5. call[c] \in [lead : Lead, agent : Agent, on : BOOLEAN, at : Nat \ {0}]
    BY <1>0, <2>3 DEF CallRec
  <2>6. call' \in [Call -> CallRec] /\ \A d \in Call : call'[d].lead = call[d].lead
    BY <1>0, <2>3, <2>4, <2>5 DEF CallRec
  <2>7. w \in OutcomeReq /\ w.op = "outcome"
    <3>1. PICK b \in BOOLEAN : b = TRUE
      OBVIOUS
    <3>2. PICK calls : calls = call'
      OBVIOUS
    <3>3. PICK d \in DispositionRec : d = Disposition[o]
      BY <2>4
    <3>4. w = Applying("outcome", c, calls, d, b, at) /\ calls \in [Call -> CallRec] /\ calls[c].lead \in Lead
      BY <2>2, <2>5, <2>6, <3>1, <3>2, <3>3
    <3>5. QED
      BY <2>4, <3>4, ApplyingType
  <2>8. w \in DeskReq
    BY <2>7 DEF DeskReq
  <2>9. DeskTypes'
    BY <1>0, <2>3, <2>6 DEF DeskTypes
  <2>10. ClicksElsewhere(r)
    <3>1. ASSUME NEW q \in Request, req[q].op = "click" PROVE req[q].call \in Call
      BY <3>1, KindOf, DeskKind DEF TypeInv, RequestTypes, DeskKinds, DeskOps, ClickReq
    <3>2. QED
      BY <2>6, <3>1 DEF ClicksElsewhere, TypeInv, ClicksHold
  <2>11. QED
    BY <2>3, <2>7, <2>8, <2>9, <2>10, DeskBegins DEF ClickHolds
<1>4. QED
  BY <1>1, <1>2, <1>3

LEMMA OutcomesTyped ==
    ASSUME TypeInv, NEW r \in Request,
           ClickFails(r) \/ ClickDials(r) \/ OutcomeSave(r) \/ OutcomeReplace(r) \/ OutcomeBook(r)
    PROVE  DeskStep /\ Only(DeskKinds)
<1>0. /\ lead \in [Lead -> LeadRec] /\ followup \in [FollowUp -> FollowRec]
      /\ call \in [Call -> CallRec] /\ queue \in [on : BOOLEAN, fresh : BOOLEAN] /\ clock \in Nat \ {0}
      /\ req \in [Request -> AnyReq]
  BY DeskVariables
<1>1. CASE ClickFails(r)
  <2>1. req[r].op = "click" /\ req[r] \in ClickReq
    BY <1>0, <1>1, KindOf, DeskKind DEF ClickFails, DeskKinds, DeskOps
  <2>2. /\ call' = [call EXCEPT ![req[r].call] = NoCall]
        /\ lead' = [lead EXCEPT ![req[r].lead].st = req[r].st, ![req[r].lead].worked = req[r].worked]
        /\ End(r) /\ UNCHANGED <<followup, queue, clock, crashed, met, started, mix>>
    BY <1>1 DEF ClickFails
  <2>3. lead' \in [Lead -> LeadRec]
    BY <1>0, <2>1, <2>2 DEF LeadRec, ClickReq
  <2>4. call' \in [Call -> CallRec]
    BY <1>0, <2>2 DEF CallRec
  <2>5. DeskTypes' /\ req[r].op \in DeskKinds
    BY <1>0, <2>1, <2>2, <2>3, <2>4 DEF DeskTypes, DeskKinds, DeskOps
  <2>6. ClicksElsewhere(r)
    BY <1>0, <2>1, <2>2 DEF ClicksElsewhere, TypeInv, ClicksHold
  <2>7. QED
    BY <2>2, <2>5, <2>6, DeskEnds
<1>2. CASE ClickDials(r)
  <2>1. req[r].op = "click" /\ req[r] \in ClickReq
    BY <1>0, <1>2, KindOf, DeskKind DEF ClickDials, DeskKinds, DeskOps
  <2>2. PICK w : w = Applying("call", req[r].call, call, NoOutcome, FALSE, 0)
    OBVIOUS
  <2>3. req' = [req EXCEPT ![r] = w] /\ Meets(r, "call")
        /\ UNCHANGED <<lead, call, followup, queue, clock, crashed, started, mix>>
    BY <1>0, <1>2, <2>2 DEF ClickDials
  <2>4. req[r].call \in Call /\ call[req[r].call].lead \in Lead
    BY <2>1 DEF ClickReq, TypeInv, ClicksHold
  <2>5. w \in OutcomeReq /\ w.op = "call"
    <3>1. PICK b \in BOOLEAN : b = FALSE
      OBVIOUS
    <3>2. PICK d \in DispositionRec : d = NoOutcome
      BY NoOutcomeType
    <3>3. PICK c \in Call : c = req[r].call
      BY <2>4
    <3>4. w = Applying("call", c, call, d, b, 0) /\ call[c].lead \in Lead /\ 0 \in Nat
      BY <2>2, <2>4, <3>1, <3>2, <3>3
    <3>5. QED
      BY <1>0, <3>4, ApplyingType
  <2>6. w \in DeskReq /\ w \in AnyReq /\ "call" \in Kinds /\ req[r].op \in DeskKinds
    BY <2>1, <2>5 DEF DeskReq, AnyReq, Kinds, DeskKinds, DeskOps
  <2>7. met \subseteq met' /\ \A pair \in met' : pair \subseteq Ops
    BY <2>3, <2>6, Meeting DEF TypeInv
  <2>8. req' \in [Request -> AnyReq] /\ Becomes(r, w)
    BY <2>3, <2>6, SetReq DEF TypeInv
  <2>9. RequestTypes' /\ DeskTypes'
    BY <1>0, <2>3, <2>7, <2>8 DEF TypeInv, RequestTypes, DeskTypes
  <2>10. QED
    BY <2>3, <2>5, <2>6, <2>7, <2>8, <2>9, CallsStay, DeskBy DEF ClickHolds
<1>3. CASE OutcomeSave(r)
  <2>1. req[r].op \in {"call", "outcome"} /\ req[r] \in OutcomeReq
    BY <1>0, <1>3, KindOf, DeskKind DEF OutcomeSave, DeskKinds, DeskOps
  <2>2. req[r].lead \in Lead
    BY <2>1 DEF OutcomeReq
  <2>3. /\ lead' = [lead EXCEPT ![req[r].lead] = Saved(lead[req[r].lead], req[r])]
        /\ req' = [req EXCEPT ![r].op = "replace"] \/ End(r)
        /\ UNCHANGED <<call, followup, queue, clock, crashed, met, started, mix>>
    BY <1>0, <1>3, <2>2 DEF OutcomeSave
  <2>4. lead' \in [Lead -> LeadRec]
    BY <1>0, <2>1, <2>2, <2>3, SavedType
  <2>5. DeskTypes' /\ req[r].op \in DeskKinds
    BY <1>0, <2>1, <2>3, <2>4 DEF DeskTypes, DeskKinds, DeskOps
  <2>6. CASE End(r)
    BY <2>3, <2>5, <2>6, DeskEnds, CallsStay
  <2>7. CASE req' = [req EXCEPT ![r].op = "replace"]
    <3>1. PICK w : w = [req[r] EXCEPT !.op = "replace"]
      OBVIOUS
    <3>2. w \in OutcomeReq /\ w.op = "replace" /\ req' = [req EXCEPT ![r] = w]
      BY <1>0, <2>1, <2>7, <3>1 DEF OutcomeReq
    <3>3. w \in DeskReq
      BY <3>2 DEF DeskReq
    <3>4. QED
      BY <2>3, <2>5, <3>2, <3>3, DeskGoesOn
  <2>8. QED
    BY <2>3, <2>6, <2>7
<1>4. CASE OutcomeReplace(r)
  <2>1. req[r].op = "replace" /\ req[r] \in OutcomeReq
    BY <1>0, <1>4, KindOf, DeskKind DEF OutcomeReplace, DeskKinds, DeskOps
  <2>2. followup' = Replaced(followup, req[r]) /\ req' = [req EXCEPT ![r].op = "book"]
        /\ UNCHANGED <<lead, call, queue, clock, crashed, met, started, mix>>
    BY <1>4 DEF OutcomeReplace
  <2>3. followup' \in [FollowUp -> FollowRec]
    BY <1>0, <2>2, WithoutType DEF Replaced
  <2>4. PICK w : w = [req[r] EXCEPT !.op = "book"]
    OBVIOUS
  <2>5. w \in OutcomeReq /\ w.op = "book" /\ req' = [req EXCEPT ![r] = w]
    BY <1>0, <2>1, <2>2, <2>4 DEF OutcomeReq
  <2>6. DeskTypes' /\ req[r].op \in DeskKinds /\ w \in DeskReq
    BY <1>0, <2>1, <2>2, <2>3, <2>5 DEF DeskTypes, DeskKinds, DeskOps, DeskReq
  <2>7. QED
    BY <2>2, <2>5, <2>6, DeskGoesOn
<1>5. CASE OutcomeBook(r)
  <2>1. req[r].op = "book" /\ req[r] \in OutcomeReq
    BY <1>0, <1>5, KindOf, DeskKind DEF OutcomeBook, DeskKinds, DeskOps
  <2>2. /\ req[r].lead \in Lead /\ req[r].at \in Nat /\ req[r].owner \in Agent /\ req[r].d \in DispositionRec
    BY <2>1 DEF OutcomeReq
  <2>3. PICK rows : /\ \/ req[r].at # 0 /\ rows = Booked(followup, req[r].lead, req[r].at, FALSE, req[r].owner)
                       \/ req[r].d.retry # 0
                          /\ rows = Booked(followup, req[r].lead, clock + req[r].d.retry, TRUE, req[r].owner)
                       \/ rows = followup
                    /\ followup' = rows
                    /\ lead' = [lead EXCEPT ![req[r].lead].next = Refreshed(rows, req[r].lead, req[r].copy.next, @)]
    BY <1>5 DEF OutcomeBook
  <2>4. End(r) /\ UNCHANGED <<call, queue, clock, crashed, met, started, mix>>
    BY <1>5 DEF OutcomeBook
  <2>5. clock + req[r].d.retry \in Nat \ {0}
    <3>1. req[r].d.retry \in Nat
      BY <2>2, DispositionType
    <3>2. QED
      BY <1>0, <3>1
  <2>6. rows \in [FollowUp -> FollowRec]
    <3>1. CASE req[r].at # 0 /\ rows = Booked(followup, req[r].lead, req[r].at, FALSE, req[r].owner)
      <4>1. req[r].at \in Nat \ {0}
        BY <2>2, <3>1
      <4>2. QED
        BY <1>0, <2>2, <3>1, <4>1, BookedType
    <3>2. CASE rows = Booked(followup, req[r].lead, clock + req[r].d.retry, TRUE, req[r].owner)
      BY <1>0, <2>2, <2>5, <3>2, BookedType
    <3>3. QED
      BY <1>0, <2>3, <3>1, <3>2
  <2>7. lead[req[r].lead].next \in Nat
    BY <1>0, <2>2 DEF LeadRec
  <2>8. PICK n : n = Refreshed(rows, req[r].lead, req[r].copy.next, lead[req[r].lead].next)
    OBVIOUS
  <2>9. n \in Nat
    BY <2>6, <2>7, <2>8, RefreshedType
  <2>10. lead' = [lead EXCEPT ![req[r].lead].next = n]
    BY <1>0, <2>2, <2>3, <2>8
  <2>11. lead' \in [Lead -> LeadRec]
    BY <1>0, <2>9, <2>10, Zenon DEF LeadRec
  <2>12. DeskTypes' /\ req[r].op \in DeskKinds
    BY <1>0, <2>1, <2>3, <2>4, <2>6, <2>11 DEF DeskTypes, DeskKinds, DeskOps
  <2>13. QED
    BY <2>4, <2>12, DeskEnds, CallsStay
<1>6. QED
  BY <1>1, <1>2, <1>3, <1>4, <1>5

-----------------------------------------------------------------------------
(* Status and owner, assignment, distribution.                              *)

LEMMA OwnerSet ==
    ASSUME NEW row \in LeadRec, NEW o \in Owner
    PROVE  [row EXCEPT !.owner = o] \in LeadRec /\ [row EXCEPT !.owner = o].st = row.st
BY DEF LeadRec

LEMMA StatusSet ==
    ASSUME NEW row \in LeadRec, NEW s \in Status
    PROVE  [row EXCEPT !.st = s] \in LeadRec /\ [row EXCEPT !.st = s].owner = row.owner
BY DEF LeadRec

\* Agents and nobody may own a lead.
LEMMA Owners == Agent \subseteq Owner /\ Nobody \in Owner
BY DEF Owner

\* The plan is made for all agents, of their loads.
LEMMA AllAgents ==
    ASSUME TypeInv, NEW agents, agents = InOrder(Agent)
    PROVE  /\ Team(agents, Loads) /\ Range(agents) = Agent
           /\ \A i, j \in DOMAIN agents : agents[i] = agents[j] => i = j
<1>1. Agent \in SUBSET Nat /\ IsFiniteSet(Agent) /\ Agent # {} /\ Nobody \notin Agent
  BY DeskConstants
<1>2. agents \in Seq(Agent) /\ Range(agents) = Agent /\ Len(agents) \in Nat
      /\ \A i, j \in DOMAIN agents : agents[i] = agents[j] => i = j
  BY <1>1, Ordered
<1>3. Len(agents) > 0
  <2>1. Len(agents) # 0
    <3> SUFFICES ASSUME Len(agents) = 0 PROVE FALSE
      OBVIOUS
    <3>1. Range(agents) = {}
      BY <1>2 DEF Range
    <3>2. QED
      BY <1>1, <1>2, <3>1
  <2>2. QED
    BY <1>2, <2>1
<1>4. \A a \in Agent : OpenCount(a) \in Nat
  <2> SUFFICES ASSUME NEW a \in Agent PROVE OpenCount(a) \in Nat
    OBVIOUS
  <2>1. {l \in OwnedBy(a) : lead[l].st \notin Final} \in SUBSET Lead
    BY DEF OwnedBy
  <2>2. IsFiniteSet(Lead)
    BY DeskConstants
  <2>3. QED
    BY <2>1, <2>2, SubsetCount DEF OpenCount
<1>5. Loads \in [Agent -> Nat]
  BY <1>4 DEF Loads
<1>6. agents \in Seq(Nat)
  BY <1>1, <1>2, WiderSeq
<1>7. QED
  BY <1>1, <1>2, <1>3, <1>5, <1>6 DEF Team

OnceEach(s) == \A i, j \in DOMAIN s : s[i] = s[j] => i = j
Fair(plan, n, agents, loads, cap) ==
    /\ plan \in Seq(Range(agents) \cup {Nobody}) /\ Len(plan) = n
    /\ cap # NoCap => \A a \in Range(agents) : Given(plan, a) = 0 \/ loads[a] + Given(plan, a) <= cap

\* What every plan promises: an owner or nobody for each lead, and no more for
\* an agent than the cap leaves room for.
LEMMA PlanKeepsCap ==
    ASSUME NEW method \in Methods, NEW n \in Nat, NEW agents, NEW loads, NEW cap \in Nat, Team(agents, loads),
           OnceEach(agents), NEW plan, plan = Plan(method, n, agents, loads, cap)
    PROVE  Fair(plan, n, agents, loads, cap)
<1>1. CASE method = "round_robin"
  <2>1. plan = RoundRobin(n, agents, loads, cap)
    BY <1>1 DEF Plan
  <2>2. Planned(plan, agents, loads, cap) /\ Len(plan) = n
    BY <2>1, RoundRobinKeepsCap
  <2>3. QED
    BY <2>2 DEF Planned, Fair
<1>2. CASE method = "equal_split"
  <2>1. plan = EqualSplit(n, agents, loads, cap)
    BY <1>2 DEF Plan
  <2>2. /\ plan \in [1..n -> Range(agents) \cup {Nobody}]
        /\ cap # NoCap => \A a \in Range(agents) : Given(plan, a) = 0 \/ loads[a] + Given(plan, a) <= cap
    BY <2>1, EqualSplitKeepsCap DEF OnceEach
  <2>3. QED
    BY <2>2, SeqDef DEF Fair
<1>3. CASE method = "least_loaded"
  <2>1. plan = LeastLoaded(n, agents, loads, cap)
    BY <1>3 DEF Plan
  <2>2. Planned(plan, agents, loads, cap) /\ Len(plan) = n
    BY <2>1, LeastLoadedKeepsCap
  <2>3. QED
    BY <2>2 DEF Planned, Fair
<1>4. QED
  BY <1>1, <1>2, <1>3 DEF Methods

WithinCap(w) == w.cap # NoCap => \A a \in Agent : Given(w.plan, a) = 0 \/ OpenCount(a) + Given(w.plan, a) <= w.cap

\* What a distribution in progress carries.
LEMMA DistributeFields ==
    ASSUME TypeInv, NEW r \in Request, NEW unassigned \in BOOLEAN, NEW method \in Methods, NEW cap \in Caps,
           Distribute(r, unassigned, method, cap)
    PROVE  \E w \in DistributeReq :
              /\ Start(r, w.op, w) /\ w.op = "distribute"
              /\ WithinCap(w)
<1>1. PICK ls : ls = {l \in Lead : unassigned => lead[l].owner = Nobody}
  OBVIOUS
<1>2. PICK ids : ids = InOrder(ls)
  OBVIOUS
<1>3. PICK agents : agents = InOrder(Agent)
  OBVIOUS
<1>4. PICK plan : plan = Plan(method, Len(ids), agents, Loads, cap)
  OBVIOUS
<1>5. Start(r, "distribute", [op |-> "distribute", ids |-> ids, cap |-> cap, plan |-> plan])
  BY <1>1, <1>2, <1>3, <1>4 DEF Distribute
<1>6. ls \in SUBSET Lead /\ ls \in SUBSET Nat /\ IsFiniteSet(ls) /\ cap \in Nat
  <2>1. Lead \subseteq Nat /\ IsFiniteSet(Lead) /\ Caps \subseteq Nat
    BY DeskConstants
  <2>2. QED
    BY <1>1, <2>1, SubsetCount
<1>7. /\ ids \in Seq(ls) /\ Len(ids) \in Nat /\ Range(ids) = ls
      /\ \A i, j \in DOMAIN ids : ids[i] = ids[j] => i = j
  BY <1>2, <1>6, Ordered
<1>8. /\ Team(agents, Loads) /\ Range(agents) = Agent
      /\ \A i, j \in DOMAIN agents : agents[i] = agents[j] => i = j
  BY <1>3, AllAgents
<1>9. /\ plan \in Seq(Agent \cup {Nobody}) /\ Len(plan) = Len(ids)
      /\ cap # NoCap => \A a \in Agent : Given(plan, a) = 0 \/ Loads[a] + Given(plan, a) <= cap
  <2>1. PICK loads : loads = Loads
    OBVIOUS
  <2>2. Team(agents, loads) /\ plan = Plan(method, Len(ids), agents, loads, cap)
    BY <1>4, <1>8, <2>1
  <2>3. /\ plan \in Seq(Range(agents) \cup {Nobody}) /\ Len(plan) = Len(ids)
        /\ cap # NoCap => \A a \in Range(agents) : Given(plan, a) = 0 \/ loads[a] + Given(plan, a) <= cap
    <3>1. PICK n \in Nat : n = Len(ids)
      BY <1>7
    <3>2. plan = Plan(method, n, agents, loads, cap) /\ cap \in Nat /\ method \in Methods
      BY <1>6, <2>2, <3>1
    <3>3. OnceEach(agents)
      BY <1>8 DEF OnceEach
    <3>4. Fair(plan, n, agents, loads, cap)
      BY <2>2, <3>1, <3>2, <3>3, PlanKeepsCap
    <3>5. QED
      BY <3>1, <3>4 DEF Fair
  <2>4. QED
    BY <1>8, <2>1, <2>3
<1>10. ids \in Seq(Lead)
  BY <1>6, <1>7, WiderSeq
<1>11. PICK w : w = [op |-> "distribute", ids |-> ids, cap |-> cap, plan |-> plan]
  OBVIOUS
<1>12. w \in DistributeReq /\ w.op = "distribute" /\ w.ids = ids /\ w.plan = plan /\ w.cap = cap
  BY <1>6, <1>9, <1>10, <1>11 DEF DistributeReq, Owner
<1>13. \A a \in Agent : Loads[a] = OpenCount(a)
  BY DEF Loads
<1>14. WithinCap(w)
  BY <1>9, <1>12, <1>13 DEF WithinCap
<1>15. QED
  BY <1>5, <1>11, <1>12, <1>14

LEMMA OwnersBegin ==
    ASSUME TypeInv, NEW r \in Request,
           \/ \E a \in Agent, l \in Lead :
                 \/ \E to \in ByHand : SetStatus(r, a, l, to) \/ Edit(r, a, l, lead[l].owner, to)
                 \/ \E owner \in Owner : Edit(r, a, l, owner, lead[l].st)
           \/ \E ls \in (SUBSET Lead) \ {{}}, a \in Agent : Assign(r, ls, a)
           \/ \E unassigned \in BOOLEAN, method \in Methods, cap \in Caps : Distribute(r, unassigned, method, cap)
    PROVE  DeskStep /\ Only(DeskKinds)
<1>0. /\ lead \in [Lead -> LeadRec] /\ followup \in [FollowUp -> FollowRec]
      /\ call \in [Call -> CallRec] /\ queue \in [on : BOOLEAN, fresh : BOOLEAN] /\ clock \in Nat \ {0}
      /\ req \in [Request -> AnyReq]
  BY DeskVariables
<1>1. CASE \E a \in Agent, l \in Lead, to \in ByHand : SetStatus(r, a, l, to)
  <2>1. PICK a \in Agent, l \in Lead, to \in ByHand : SetStatus(r, a, l, to)
    BY <1>1
  <2> DEFINE w == [op |-> "status", lead |-> l, to |-> to, worked |-> lead[l].worked]
  <2>2. w \in StatusReq /\ w.op = "status"
    BY <1>0, DeskConstants DEF StatusReq, LeadRec
  <2>3. Start(r, w.op, w) /\ UNCHANGED <<deskVars, mix>>
    BY <2>1 DEF SetStatus
  <2> HIDE DEF w
  <2>4. w \in DeskReq
    BY <2>2 DEF DeskReq
  <2>5. DeskTypes' /\ UNCHANGED <<call, crashed, mix>>
    BY <1>0, <2>3 DEF deskVars, DeskTypes
  <2>6. QED
    BY <2>2, <2>3, <2>4, <2>5, DeskBegins, CallsStay DEF ClickHolds
<1>2. CASE \E a \in Agent, l \in Lead, owner \in Owner, to \in Status : Edit(r, a, l, owner, to)
  <2>1. PICK a \in Agent, l \in Lead, owner \in Owner, to \in Status : Edit(r, a, l, owner, to)
    BY <1>2
  <2> DEFINE w == [op |-> "edit", lead |-> l, was |-> lead[l].owner, row |-> [lead[l] EXCEPT !.owner = owner, !.st = to]]
  <2>2. w \in EditReq /\ w.op = "edit"
    BY <1>0, Zenon DEF EditReq, LeadRec
  <2>3. Start(r, w.op, w) /\ UNCHANGED <<deskVars, mix>>
    BY <2>1 DEF Edit
  <2> HIDE DEF w
  <2>4. w \in DeskReq
    BY <2>2 DEF DeskReq
  <2>5. DeskTypes' /\ UNCHANGED <<call, crashed, mix>>
    BY <1>0, <2>3 DEF deskVars, DeskTypes
  <2>6. QED
    BY <2>2, <2>3, <2>4, <2>5, DeskBegins, CallsStay DEF ClickHolds
<1>3. CASE \E ls \in (SUBSET Lead) \ {{}}, a \in Agent : Assign(r, ls, a)
  <2>1. PICK ls \in (SUBSET Lead) \ {{}}, a \in Agent : Assign(r, ls, a)
    BY <1>3
  <2> DEFINE w == [op |-> "assign", leads |-> ls]
  <2>2. w \in FollowReq /\ w.op = "assign"
    BY DEF FollowReq
  <2>3. Start(r, w.op, w) /\ UNCHANGED <<call, followup, queue, clock, crashed, mix>>
        /\ lead' = [l \in Lead |-> IF l \in ls THEN [lead[l] EXCEPT !.owner = a] ELSE lead[l]]
    BY <2>1 DEF Assign
  <2> HIDE DEF w
  <2>4. w \in DeskReq
    BY <2>2 DEF DeskReq
  <2>5. lead' \in [Lead -> LeadRec]
    BY <1>0, <2>3, OwnerSet, Owners
  <2>6. DeskTypes'
    BY <1>0, <2>3, <2>5 DEF DeskTypes
  <2>7. QED
    BY <2>2, <2>3, <2>4, <2>6, DeskBegins, CallsStay DEF ClickHolds
<1>4. CASE \E unassigned \in BOOLEAN, method \in Methods, cap \in Caps : Distribute(r, unassigned, method, cap)
  <2>1. PICK unassigned \in BOOLEAN, method \in Methods, cap \in Caps : Distribute(r, unassigned, method, cap)
    BY <1>4
  <2>2. PICK w \in DistributeReq : Start(r, w.op, w) /\ w.op = "distribute"
    BY <2>1, DistributeFields
  <2>3. UNCHANGED <<deskVars, mix>>
    BY <2>1 DEF Distribute
  <2>4. w \in DeskReq
    BY <2>2 DEF DeskReq
  <2>5. DeskTypes' /\ UNCHANGED <<call, crashed, mix>>
    BY <1>0, <2>3 DEF deskVars, DeskTypes
  <2>6. QED
    BY <2>2, <2>3, <2>4, <2>5, DeskBegins, CallsStay DEF ClickHolds
<1>5. \A l \in Lead : lead[l].owner \in Owner /\ lead[l].st \in Status
  BY <1>0 DEF LeadRec
<1>6. ByHand \subseteq Status
  BY DeskConstants
<1>7. QED
  BY <1>1, <1>2, <1>3, <1>4, <1>5, <1>6

\* The owner a plan names.
LEMMA PlannedType ==
    ASSUME NEW w \in DistributeReq, NEW l \in Lead
    PROVE  PlannedOwner(w, l) \in Owner
<1>1. CASE l \in Range(w.ids)
  <2>1. \E k \in DOMAIN w.ids : w.ids[k] = l
    BY <1>1 DEF Range
  <2>2. PICK k : k = CHOOSE j \in DOMAIN w.ids : w.ids[j] = l
    OBVIOUS
  <2>3. k \in DOMAIN w.ids
    BY <2>1, <2>2
  <2>4. w.ids \in Seq(Lead) /\ w.plan \in Seq(Owner) /\ Len(w.plan) = Len(w.ids)
    BY DEF DistributeReq
  <2>5. w.plan[k] \in Owner
    BY <1>1, <2>3, <2>4
  <2>6. QED
    BY <1>1, <2>2, <2>5 DEF PlannedOwner
<1>2. CASE l \notin Range(w.ids)
  BY <1>2, Owners DEF PlannedOwner
<1>3. QED
  BY <1>1, <1>2

LEMMA OwnersSettle ==
    ASSUME TypeInv, NEW r \in Request, StatusWrite(r) \/ EditWrite(r) \/ FollowOwner(r) \/ ApplyPlan(r)
    PROVE  DeskStep /\ Only(DeskKinds)
<1>0. /\ lead \in [Lead -> LeadRec] /\ followup \in [FollowUp -> FollowRec]
      /\ call \in [Call -> CallRec] /\ queue \in [on : BOOLEAN, fresh : BOOLEAN] /\ clock \in Nat \ {0}
      /\ req \in [Request -> AnyReq]
  BY DeskVariables
<1>1. CASE StatusWrite(r)
  <2>1. req[r].op = "status" /\ req[r] \in StatusReq
    BY <1>0, <1>1, KindOf, DeskKind DEF StatusWrite, DeskKinds, DeskOps
  <2>2. req[r].lead \in Lead /\ req[r].to \in Status
    BY <2>1 DEF StatusReq
  <2>3. /\ lead' = [lead EXCEPT ![req[r].lead].st = req[r].to,
                                ![req[r].lead].worked = @ \/ (req[r].to # "new" /\ ~req[r].worked)]
        /\ End(r) /\ UNCHANGED <<call, followup, queue, clock, crashed, met, started, mix>>
    BY <1>1 DEF StatusWrite
  <2>4. PICK b \in BOOLEAN : b = (lead[req[r].lead].worked \/ (req[r].to # "new" /\ ~req[r].worked))
    OBVIOUS
  <2>5. lead' = [lead EXCEPT ![req[r].lead] = [@ EXCEPT !.st = req[r].to, !.worked = b]]
    BY <1>0, <2>2, <2>3, <2>4
  <2>6. [lead[req[r].lead] EXCEPT !.st = req[r].to, !.worked = b] \in LeadRec
    <3>1. lead[req[r].lead] \in LeadRec
      BY <1>0, <2>2
    <3>2. QED
      BY <2>2, <2>4, <3>1 DEF LeadRec
  <2>7. DeskTypes' /\ req[r].op \in DeskKinds
    <3>1. lead' \in [Lead -> LeadRec]
      BY <1>0, <2>5, <2>6
    <3>2. QED
      BY <1>0, <2>1, <2>3, <3>1 DEF DeskTypes, DeskKinds, DeskOps
  <2>8. QED
    BY <2>3, <2>7, DeskEnds, CallsStay
<1>2. CASE EditWrite(r)
  <2>1. req[r].op = "edit" /\ req[r] \in EditReq
    BY <1>0, <1>2, KindOf, DeskKind DEF EditWrite, DeskKinds, DeskOps
  <2>2. req[r].lead \in Lead /\ req[r].row \in LeadRec
    BY <2>1 DEF EditReq
  <2>3. /\ lead' = [lead EXCEPT ![req[r].lead] = req[r].row]
        /\ Follow(r, {req[r].lead}) \/ End(r)
        /\ UNCHANGED <<call, followup, queue, clock, crashed, met, started, mix>>
    BY <1>2 DEF EditWrite
  <2>4. DeskTypes' /\ req[r].op \in DeskKinds
    BY <1>0, <2>1, <2>2, <2>3 DEF DeskTypes, DeskKinds, DeskOps
  <2>5. CASE End(r)
    BY <2>3, <2>4, <2>5, DeskEnds, CallsStay
  <2>6. CASE Follow(r, {req[r].lead})
    <3>1. PICK w : w = [op |-> "follow", leads |-> {req[r].lead}]
      OBVIOUS
    <3>2. w \in FollowReq /\ w.op = "follow" /\ req' = [req EXCEPT ![r] = w]
      BY <2>2, <2>6, <3>1 DEF FollowReq, Follow
    <3>3. w \in DeskReq
      BY <3>2 DEF DeskReq
    <3>4. QED
      BY <2>3, <2>4, <3>2, <3>3, DeskGoesOn
  <2>7. QED
    BY <2>3, <2>5, <2>6
<1>3. CASE FollowOwner(r)
  <2>1. req[r].op \in {"assign", "follow"} /\ req[r] \in FollowReq
    BY <1>0, <1>3, KindOf, DeskKind DEF FollowOwner, DeskKinds, DeskOps
  <2>2. followup' = FollowingOwner(followup, req[r].leads) /\ End(r)
        /\ UNCHANGED <<lead, call, queue, clock, crashed, met, started, mix>>
    BY <1>3 DEF FollowOwner
  <2>3. followup' \in [FollowUp -> FollowRec]
    <3>1. req[r].leads \in SUBSET Lead
      BY <2>1 DEF FollowReq
    <3>2. QED
      BY <1>0, <2>2, <3>1, FollowingType
  <2>4. DeskTypes' /\ req[r].op \in DeskKinds
    BY <1>0, <2>1, <2>2, <2>3 DEF DeskTypes, DeskKinds, DeskOps
  <2>5. QED
    BY <2>2, <2>4, DeskEnds, CallsStay
<1>4. CASE ApplyPlan(r)
  <2>1. req[r].op = "distribute" /\ req[r] \in DistributeReq
    BY <1>0, <1>4, KindOf, DeskKind DEF ApplyPlan, DeskKinds, DeskOps
  <2>2. PICK placed : placed = {l \in Lead : PlannedOwner(req[r], l) # Nobody}
    OBVIOUS
  <2> DEFINE owner(l) == IF l \in placed THEN PlannedOwner(req[r], l) ELSE lead[l].owner
  <2>3. /\ lead' = [l \in Lead |-> [lead[l] EXCEPT !.owner = owner(l)]]
        /\ followup' = [f \in FollowUp |->
                           IF followup[f].lead \in placed
                           THEN [followup[f] EXCEPT !.owner = owner(followup[f].lead)] ELSE followup[f]]
        /\ End(r) /\ UNCHANGED <<call, queue, clock, crashed, met, started, mix>>
    BY <1>4, <2>2 DEF ApplyPlan
  <2>4. \A l \in Lead : owner(l) \in Owner /\ (l \in placed => owner(l) \in Agent)
    BY <1>0, <2>1, <2>2, PlannedType DEF LeadRec, Owner
  <2> HIDE DEF owner
  <2>5. lead' \in [Lead -> LeadRec]
    BY <1>0, <2>3, <2>4, OwnerSet
  <2>6. ASSUME NEW f \in FollowUp, followup[f].lead \in placed
        PROVE  [followup[f] EXCEPT !.owner = owner(followup[f].lead)] \in FollowRec
    <3>1. 0 \notin Lead
      BY DeskConstants
    <3>2. followup[f] \in [lead : Lead, at : Nat \ {0}, auto : BOOLEAN, owner : Agent]
      BY <1>0, <2>2, <2>6, <3>1 DEF FollowRec, NoFollow
    <3>3. owner(followup[f].lead) \in Agent
      BY <2>2, <2>4, <2>6
    <3>4. QED
      BY <3>2, <3>3 DEF FollowRec
  <2>7. followup' \in [FollowUp -> FollowRec]
    BY <1>0, <2>3, <2>6
  <2>8. DeskTypes' /\ req[r].op \in DeskKinds
    BY <1>0, <2>1, <2>3, <2>5, <2>7 DEF DeskTypes, DeskKinds, DeskOps
  <2>9. QED
    BY <2>3, <2>8, DeskEnds, CallsStay
<1>5. QED
  BY <1>1, <1>2, <1>3, <1>4

LEMMA UnassignTyped ==
    ASSUME TypeInv, (\E a \in Agent : Unassign(a)) \/ (\E uncalled \in BOOLEAN : TakeBack(uncalled))
    PROVE  DeskStep /\ Only(DeskKinds)
<1>0. /\ lead \in [Lead -> LeadRec] /\ followup \in [FollowUp -> FollowRec]
      /\ call \in [Call -> CallRec] /\ queue \in [on : BOOLEAN, fresh : BOOLEAN] /\ clock \in Nat \ {0}
  BY DeskVariables
<1>1. Happens("unassign") /\ UNCHANGED <<call, followup, queue, clock, crashed, req, mix>>
  BY DEF Unassign, TakeBack
<1>2. lead' \in [Lead -> LeadRec]
  <2>1. CASE \E a \in Agent : Unassign(a)
    BY <1>0, <2>1, OwnerSet, Owners DEF Unassign
  <2>2. CASE \E uncalled \in BOOLEAN : TakeBack(uncalled)
    BY <1>0, <2>2, OwnerSet, NoLockType, Owners DEF TakeBack
  <2>3. QED
    BY <2>1, <2>2
<1>3. RequestTypes' /\ met \subseteq met'
  BY <1>1, HappensTypes DEF Ops, DeskOps, TypeInv
<1>4. DeskTypes' /\ ClicksHold'
  BY <1>0, <1>1, <1>2 DEF DeskTypes, TypeInv, ClicksHold
<1>5. QED
  BY <1>1, <1>3, <1>4, Quietly DEF DeskStep

\* A process that dies leaves an idle request.
LEMMA CrashTyped ==
    ASSUME TypeInv, NEW r \in Request, Crash(r)
    PROVE  DeskStep /\ Becomes(r, Idle) /\ met' = met /\ crashed'
<1>1. End(r) /\ crashed' = TRUE /\ UNCHANGED <<lead, call, followup, queue, clock, met, started, mix>>
  BY DEF Crash
<1>2. RequestTypes' /\ Becomes(r, Idle)
  BY <1>1, Ends DEF TypeInv
<1>3. \A q \in Request : req'[q] = IF q = r THEN Idle ELSE req[q]
  BY <1>2 DEF Becomes
<1>4. DeskTypes' /\ ClicksHold'
  BY <1>1, <1>3 DEF TypeInv, DeskTypes, ClicksHold, Idle
<1>5. QED
  BY <1>1, <1>2, <1>4 DEF DeskStep

LEMMA DeskTyped ==
    ASSUME TypeInv, DeskNext
    PROVE  /\ DeskStep
           /\ Only(DeskKinds) \/ \E r \in Request : Becomes(r, Idle) /\ met' = met /\ crashed'
<1>1. CASE \E r \in Request :
           \/ ScheduleWrite(r) \/ Supersede(r) \/ CompleteWrite(r)
           \/ \E a \in Agent, l \in Lead, at \in Later : Schedule(r, a, l, at)
           \/ \E f \in FollowUp : Complete(r, f)
  BY <1>1, FollowUpsTyped
<1>2. CASE \E r \in Request :
           \/ PullCommit(r) \/ ReleaseDialed(r) \/ ReleaseWrite(r)
           \/ \E a \in Agent, l \in Lead :
                 Pull(r, a, l) \/ \E how \in {"dialed", "return", "skip"} : Release(r, a, l, how)
  BY <1>2, QueueTyped
<1>3. CASE \E r \in Request :
           \/ \E a \in Agent, l \in Lead, c \in Call :
                 Click(r, a, c, l) \/ \E o \in Outcome, at \in Later \cup {0} : LogCall(r, a, c, l, o, at)
           \/ \E c \in Call, o \in Outcome, at \in Later \cup {0} : SetOutcome(r, c, o, at)
  BY <1>3, CallsTyped
<1>4. CASE \E r \in Request :
           ClickFails(r) \/ ClickDials(r) \/ OutcomeSave(r) \/ OutcomeReplace(r) \/ OutcomeBook(r)
  BY <1>4, OutcomesTyped
<1>5. CASE \E r \in Request :
           \/ \E a \in Agent, l \in Lead :
                 \/ \E to \in ByHand : SetStatus(r, a, l, to) \/ Edit(r, a, l, lead[l].owner, to)
                 \/ \E owner \in Owner : Edit(r, a, l, owner, lead[l].st)
           \/ \E ls \in (SUBSET Lead) \ {{}}, a \in Agent : Assign(r, ls, a)
           \/ \E unassigned \in BOOLEAN, method \in Methods, cap \in Caps : Distribute(r, unassigned, method, cap)
  BY <1>5, OwnersBegin
<1>6. CASE \E r \in Request : StatusWrite(r) \/ EditWrite(r) \/ FollowOwner(r) \/ ApplyPlan(r)
  BY <1>6, OwnersSettle
<1>7. CASE \E r \in Request : Crash(r)
  BY <1>7, CrashTyped
<1>8. CASE (\E a \in Agent : Unassign(a)) \/ (\E uncalled \in BOOLEAN : TakeBack(uncalled))
  BY <1>8, UnassignTyped
<1>9. CASE SwitchQueue \/ Tick
  BY <1>9, SwitchTyped
<1>10. QED
  <2>1. ASSUME NEW r \in Request, DeskLoad(r) \/ DeskWrite(r)
        PROVE  \/ \/ ScheduleWrite(r) \/ Supersede(r) \/ CompleteWrite(r)
                  \/ \E a \in Agent, l \in Lead, at \in Later : Schedule(r, a, l, at)
                  \/ \E f \in FollowUp : Complete(r, f)
               \/ \/ PullCommit(r) \/ ReleaseDialed(r) \/ ReleaseWrite(r)
                  \/ \E a \in Agent, l \in Lead :
                        Pull(r, a, l) \/ \E how \in {"dialed", "return", "skip"} : Release(r, a, l, how)
               \/ \/ \E a \in Agent, l \in Lead, c \in Call :
                        Click(r, a, c, l) \/ \E o \in Outcome, at \in Later \cup {0} : LogCall(r, a, c, l, o, at)
                  \/ \E c \in Call, o \in Outcome, at \in Later \cup {0} : SetOutcome(r, c, o, at)
               \/ ClickFails(r) \/ ClickDials(r) \/ OutcomeSave(r) \/ OutcomeReplace(r) \/ OutcomeBook(r)
               \/ \/ \E a \in Agent, l \in Lead :
                        \/ \E to \in ByHand : SetStatus(r, a, l, to) \/ Edit(r, a, l, lead[l].owner, to)
                        \/ \E owner \in Owner : Edit(r, a, l, owner, lead[l].st)
                  \/ \E ls \in (SUBSET Lead) \ {{}}, a \in Agent : Assign(r, ls, a)
                  \/ \E unassigned \in BOOLEAN, method \in Methods, cap \in Caps : Distribute(r, unassigned, method, cap)
               \/ StatusWrite(r) \/ EditWrite(r) \/ FollowOwner(r) \/ ApplyPlan(r)
               \/ Crash(r)
    BY <2>1 DEF DeskLoad, DeskWrite
  <2>2. QED
    BY <1>1, <1>2, <1>3, <1>4, <1>5, <1>6, <1>7, <1>8, <1>9, <2>1 DEF DeskNext

-----------------------------------------------------------------------------
(* The intake's types.                                                      *)

LEMMA IntakeConstants ==
    /\ Invalid \notin Phone /\ \A left \in Deliveries : left \in Seq(Phone) /\ left # <<>>
    /\ \A file \in Files : file \in Seq(Phone \cup {Invalid})
    /\ Chunk \in Nat \ {0} /\ MaxLeads \in Nat
BY IntakeAssumption

IntakeStep == IntakeTypes' /\ RequestTypes' /\ (\A r \in Request : LeftInHand(req[r])') /\ Only(IntakeKinds)

\* What a request of the intake may become.
Sound(w) == w \in IntakeReq \cup IdleReq /\ LeftInHand(w)

LEMMA IntakeVariables ==
    ASSUME TypeInv
    PROVE  /\ arrived \in Seq(Arrival) /\ batches \in Seq(BatchRec) /\ job \in JobRec /\ source \in SourceRec
           /\ counted \in Nat /\ req \in [Request -> AnyReq]
           /\ \A r \in Request : LeftInHand(req[r])
BY DEF TypeInv, IntakeTypes, RequestTypes

LEMMA IntakeBy ==
    ASSUME TypeInv, NEW r \in Request, req[r].op \in IntakeKinds \cup {"idle"}, NEW w, Sound(w), Becomes(r, w),
           RequestTypes', IntakeTypes', met \subseteq met'
    PROVE  IntakeStep
<1>1. w.op \in IntakeKinds \cup {"idle"}
  BY IntakeKind DEF Sound, IdleReq
<1>2. \A q \in Request : req'[q] = IF q = r THEN w ELSE req[q]
  BY DEF Becomes
<1>3. \A q \in Request : LeftInHand(req[q])'
  BY <1>2 DEF Sound, TypeInv, LeftInHand
<1>4. QED
  BY <1>1, <1>3, OneOf DEF IntakeStep, TypeInv

LEMMA IntakeBegins ==
    ASSUME TypeInv, NEW r \in Request, NEW w \in IntakeReq, LeftInHand(w), Start(r, w.op, w),
           UNCHANGED <<mix, crashed>>, IntakeTypes'
    PROVE  IntakeStep
<1>1. w \in AnyReq /\ w.op \in Kinds
  BY IntakeKind DEF AnyReq, Kinds
<1>2. RequestTypes' /\ Becomes(r, w) /\ Free(r) /\ Meets(r, w.op)
  BY <1>1, Starts DEF TypeInv
<1>3. met \subseteq met'
  BY <1>1, <1>2, Meeting DEF TypeInv
<1>4. QED
  BY <1>2, <1>3, IntakeBy DEF Free, Sound

\* A step that notes at most what is an operation by itself.
Noting == met' = met \/ \E op \in Ops : met' = met \cup {{op}}

LEMMA IntakeGoesOn ==
    ASSUME TypeInv, NEW r \in Request, req[r].op \in IntakeKinds, NEW w, Sound(w), req' = [req EXCEPT ![r] = w],
           Noting, UNCHANGED <<started, mix, crashed>>, IntakeTypes'
    PROVE  IntakeStep
<1>1. w \in AnyReq
  BY DEF AnyReq, Sound
<1>2. req' \in [Request -> AnyReq] /\ Becomes(r, w)
  BY <1>1, SetReq DEF TypeInv
<1>3. met \subseteq met' /\ \A pair \in met' : pair \subseteq Ops
  BY DEF Noting, TypeInv, RequestTypes
<1>4. RequestTypes'
  BY <1>2, <1>3 DEF TypeInv, RequestTypes
<1>5. QED
  BY <1>2, <1>3, <1>4, IntakeBy

LEMMA IdleIsSound == Sound(Idle)
BY DEF Sound, Idle, IdleReq, LeftInHand, Intakes

LEMMA IntakeEnds ==
    ASSUME TypeInv, NEW r \in Request, req[r].op \in IntakeKinds, Finish(r), Noting,
           UNCHANGED <<started, mix, crashed>>, IntakeTypes'
    PROVE  IntakeStep
<1>1. req' = [req EXCEPT ![r] = Idle]
  BY DEF Finish, Idle
<1>2. QED
  BY <1>1, IdleIsSound, IntakeGoesOn

\* Only requests that are free change, or none.
LEMMA IntakeAtOnce ==
    ASSUME TypeInv, UNCHANGED <<req, mix, crashed>>, met \subseteq met', RequestTypes', IntakeTypes'
    PROVE  IntakeStep
BY Quietly DEF TypeInv, IntakeStep, LeftInHand

-----------------------------------------------------------------------------
(* Counts of rows.                                                          *)

LEMMA RowsFinite == ASSUME NEW T, NEW s \in Seq(T), NEW R \in SUBSET (DOMAIN s) PROVE Cardinality(R) \in Nat /\ IsFiniteSet(R)
<1>1. IsFiniteSet(1..Len(s)) /\ DOMAIN s = 1..Len(s)
  BY FS_Interval
<1>2. QED
  BY <1>1, SubsetCount

LEMMA CountsAreNumbers == ASSUME TypeInv, NEW b PROVE LiveLeads \in Nat /\ InBatch(b) \in Nat
<1>1. arrived \in Seq(Arrival)
  BY IntakeVariables
<1>2. {i \in DOMAIN arrived : arrived[i].live} \in SUBSET DOMAIN arrived
      /\ {i \in DOMAIN arrived : arrived[i].batch = b /\ arrived[i].live} \in SUBSET DOMAIN arrived
  OBVIOUS
<1>3. QED
  BY <1>1, <1>2, RowsFinite DEF LiveLeads, InBatch

-----------------------------------------------------------------------------
(* The plan's cap.                                                          *)

HandFields == [op : {"hand"}, next : {"count", "cache", "create", "note"}, left : Seq(Phone), batch : Nat, n : Nat]
Looking(w) == w.op \in Intakes \cup {"hand"} => w.left # <<>>

LEMMA NextLeadType ==
    ASSUME NEW w \in HookReq, w.left # <<>>, NEW created \in {0, 1}
    PROVE  LET v == NextLead(w, created) IN v \in HookReq /\ LeftInHand(v) /\ v.op = w.op
<1>1. w.left \in Seq(Phone) /\ Len(w.left) \in Nat
  BY DEF HookReq
<1>2. Tail(w.left) \in Seq(Phone) /\ (Len(w.left) # 1 => Tail(w.left) # <<>>)
  <2>1. PICK s \in Seq(Phone) : s = w.left
    BY <1>1
  <2>2. s # <<>> /\ Len(s) \in Nat \ {0}
    BY <2>1
  <2>3. Tail(s) \in Seq(Phone) /\ Len(Tail(s)) = Len(s) - 1
    BY <2>2
  <2>4. Len(s) # 1 => Tail(s) # <<>>
    <3>1. PICK t \in Seq(Phone) : t = Tail(s)
      BY <2>3
    <3>2. t = <<>> => Len(t) = 0
      OBVIOUS
    <3>3. QED
      BY <2>2, <2>3, <3>1, <3>2
  <2>5. QED
    BY <2>1, <2>3, <2>4
<1>3. PICK left \in Seq(Phone) : left = Tail(w.left)
  BY <1>2
<1>4. PICK next \in {"config", "look"} : next = IF Len(w.left) = 1 THEN "config" ELSE "look"
  OBVIOUS
<1>5. w.made + created \in Nat
  BY DEF HookReq
<1>6. NextLead(w, created) = [w EXCEPT !.left = left, !.made = w.made + created, !.batch = 0, !.next = next]
  BY <1>3, <1>4 DEF NextLead, HookReq
<1>7. [w EXCEPT !.left = left, !.made = w.made + created, !.batch = 0, !.next = next] \in HookReq
  BY <1>5 DEF HookReq
<1>8. next \in Lookers => left # <<>>
  BY <1>2, <1>3, <1>4 DEF Lookers
<1>9. QED
  BY <1>6, <1>7, <1>8 DEF LeftInHand, HookReq

LEMMA HookSteps ==
    ASSUME NEW w \in HookReq, NEW next \in {"look", "cache", "batch", "create", "note", "add", "config", "error"}, NEW n \in Nat
    PROVE  /\ [w EXCEPT !.next = next] \in HookReq /\ [w EXCEPT !.n = n, !.next = next] \in HookReq
           /\ [w EXCEPT !.next = next, !.batch = n] \in HookReq
           /\ w.left # <<>> => /\ LeftInHand([w EXCEPT !.next = next])
                               /\ LeftInHand([w EXCEPT !.n = n, !.next = next])
                               /\ LeftInHand([w EXCEPT !.next = next, !.batch = n])
BY DEF HookReq, LeftInHand

LEMMA FailsType ==
    ASSUME NEW w \in HookReq, w.left # <<>>
    PROVE  Fails(w) \in HookReq /\ LeftInHand(Fails(w)) /\ Fails(w).op = w.op
<1>1. CASE w.lenient
  BY <1>1, NextLeadType DEF Fails
<1>2. CASE ~w.lenient
  <2>1. PICK v : v = [w EXCEPT !.next = "error"]
    OBVIOUS
  <2>2. v \in HookReq /\ LeftInHand(v)
    BY <2>1, HookSteps
  <2>3. v.op = w.op
    BY <2>1 DEF HookReq
  <2>4. QED
    BY <1>2, <2>1, <2>2, <2>3 DEF Fails
<1>3. QED
  BY <1>1, <1>2

LEMMA HandSteps ==
    ASSUME NEW w \in HandFields, NEW next \in {"cache", "create", "note"}, NEW n \in Nat, w.left # <<>>
    PROVE  /\ [w EXCEPT !.next = next] \in HandReq /\ [w EXCEPT !.n = n, !.next = next] \in HandReq
           /\ LeftInHand([w EXCEPT !.next = next]) /\ LeftInHand([w EXCEPT !.n = n, !.next = next])
BY DEF HandFields, HandReq, LeftInHand

ImportSteps == {"parse", "open", "phones", "rows", "cache", "bulk", "recount", "total", "finish"}

LEMMA ImportFields ==
    ASSUME NEW w \in ImportReq
    PROVE  /\ w.op = "import" /\ w.batch \in Nat /\ w.was \in Nat /\ w.n \in Nat /\ w.seen \in SUBSET Phone
           /\ w.new \in Seq(Phone) /\ w.done \in Nat /\ w.ok \in Nat /\ w.failed \in Nat /\ w.dup \in Nat
           /\ LeftInHand(w)
BY DEF ImportReq, LeftInHand, Intakes

LEMMA SubSeqType == ASSUME NEW T, NEW s \in Seq(T), NEW m \in 0..Len(s) PROVE SubSeq(s, 1, m) \in Seq(T)
OBVIOUS

\* What the count allows: the form's lead may be refused.
LEMMA AdmittedType ==
    ASSUME NEW w \in HookReq \cup HandFields \cup ImportReq, Looking(w), NEW n \in Nat, NEW v, v = Admitted(w, n)
    PROVE  \/ v \in IntakeReq /\ LeftInHand(v) /\ v.op = w.op
           \/ w.op = "hand" /\ v.next = "end"
<1>1. PICK allowance \in Nat : allowance = IF n < MaxLeads THEN MaxLeads - n ELSE 0
  <2>1. MaxLeads \in Nat
    BY IntakeConstants
  <2>2. (IF n < MaxLeads THEN MaxLeads - n ELSE 0) \in Nat
    BY <2>1
  <2>3. QED
    BY <2>2
<1>2. CASE w \in ImportReq
  <2>1. w.op = "import" /\ w.new \in Seq(Phone) /\ w.failed \in Nat /\ Len(w.new) \in Nat
    BY <1>2, ImportFields
  <2>2. PICK most : most = IF Len(w.new) < allowance THEN Len(w.new) ELSE allowance
    OBVIOUS
  <2>3. most \in 0..Len(w.new)
    BY <1>1, <2>1, <2>2
  <2>4. PICK new : new = SubSeq(w.new, 1, most)
    OBVIOUS
  <2>5. new \in Seq(Phone)
    BY <2>1, <2>3, <2>4, SubSeqType
  <2>6. PICK failed \in Nat : failed = w.failed + (Len(w.new) - most)
    BY <2>1, <2>3
  <2>7. PICK next \in {"recount", "bulk"} : next = IF most = 0 THEN "recount" ELSE "bulk"
    OBVIOUS
  <2>8. v = [w EXCEPT !.new = new, !.failed = failed, !.next = next]
    <3>1. Admitted(w, n) = [w EXCEPT !.new = SubSeq(@, 1, most), !.failed = @ + (Len(w.new) - most), !.next = next]
      BY <1>1, <2>1, <2>2, <2>7 DEF Admitted, Intakes
    <3>2. [w EXCEPT !.new = SubSeq(@, 1, most), !.failed = @ + (Len(w.new) - most), !.next = next]
            = [w EXCEPT !.new = new, !.failed = failed, !.next = next]
      BY <1>2, <2>4, <2>6 DEF ImportReq
    <3>3. QED
      BY <3>1, <3>2
  <2>9. v \in ImportReq /\ v.op = w.op
    BY <1>2, <2>5, <2>8 DEF ImportReq
  <2>10. QED
    BY <2>9, ImportFields DEF IntakeReq
<1>3. CASE w \in HandFields
  <2>1. w.op = "hand" /\ w.left # <<>>
    BY <1>3 DEF HandFields, Looking
  <2>2. v = [w EXCEPT !.next = IF allowance > 0 THEN "create" ELSE "end"]
    BY <1>1, <2>1 DEF Admitted, Intakes
  <2>3. CASE allowance > 0
    <3>1. v = [w EXCEPT !.next = "create"]
      BY <2>2, <2>3
    <3>2. v \in HandReq /\ LeftInHand(v)
      BY <1>3, <2>1, <3>1, HandSteps
    <3>3. QED
      BY <2>1, <3>2 DEF IntakeReq, HandReq
  <2>4. CASE ~(allowance > 0)
    <3>1. v = [w EXCEPT !.next = "end"]
      BY <2>2, <2>4
    <3>2. v.next = "end"
      BY <1>3, <3>1 DEF HandFields
    <3>3. QED
      BY <2>1, <3>2
  <2>5. QED
    BY <2>3, <2>4
<1>4. CASE w \in HookReq
  <2>1. w.op \in Intakes /\ w.left # <<>> /\ w.op \in {"hook", "sync"}
    BY <1>4 DEF HookReq, Looking, Intakes
  <2>2. \/ v = [w EXCEPT !.next = "batch"] \/ v = [w EXCEPT !.next = "config"]
        \/ v = NextLead(w, 0) \/ v = [w EXCEPT !.next = "error"]
    <3>1. allowance > 0 \/ allowance = 0
      BY <1>1
    <3>2. QED
      BY <1>1, <2>1, <3>1 DEF Admitted, Fails
  <2>3. v \in HookReq /\ LeftInHand(v)
    BY <1>4, <2>1, <2>2, HookSteps, NextLeadType, Zenon
  <2>4. v.op = w.op
    BY <1>4, <2>1, <2>2, NextLeadType DEF HookReq
  <2>5. QED
    BY <2>3, <2>4 DEF IntakeReq
<1>5. QED
  BY <1>2, <1>3, <1>4

LEMMA CountedType ==
    ASSUME TypeInv, NEW w \in HookReq \cup HandFields \cup ImportReq, Looking(w), NEW v, v = Counted(w)
    PROVE  \/ v \in IntakeReq /\ LeftInHand(v) /\ v.op = w.op
           \/ w.op = "hand" /\ v.next = "end"
<1>1. CASE v = Admitted(w, counted)
  BY <1>1, IntakeVariables, AdmittedType
<1>2. CASE v = [w EXCEPT !.n = LiveLeads, !.next = "cache"]
  <2>1. PICK n \in Nat : n = LiveLeads
    BY CountsAreNumbers
  <2>2. v = [w EXCEPT !.n = n, !.next = "cache"]
    BY <1>2, <2>1
  <2>3. CASE w \in HookReq
    <3>1. w.left # <<>>
      BY <2>3 DEF Looking, HookReq
    <3>2. v \in HookReq
      BY <2>2, <2>3 DEF HookReq
    <3>3. LeftInHand([w EXCEPT !.n = n, !.next = "cache"])
      BY <2>3, <3>1 DEF LeftInHand, HookReq
    <3>4. QED
      BY <2>2, <2>3, <3>2, <3>3 DEF IntakeReq, HookReq
  <2>4. CASE w \in HandFields
    <3>1. w.left # <<>>
      BY <2>4 DEF Looking, HandFields
    <3>2. v \in HandReq /\ LeftInHand(v)
      BY <2>2, <2>4, <3>1, HandSteps
    <3>3. QED
      BY <2>4, <3>2 DEF IntakeReq, HandReq, HandFields
  <2>5. CASE w \in ImportReq
    <3>1. v \in ImportReq
      BY <2>2, <2>5 DEF ImportReq
    <3>2. QED
      BY <2>5, <3>1, ImportFields DEF IntakeReq
  <2>6. QED
    BY <2>3, <2>4, <2>5
<1>3. QED
  BY <1>1, <1>2 DEF Counted

-----------------------------------------------------------------------------
(* Webhooks and syncs, the form, deletion, edits and batches.               *)

\* Rows appended, changed in place, or each replaced by another.
LEMMA AppendRow == ASSUME NEW T, NEW s \in Seq(T), NEW x \in T PROVE Append(s, x) \in Seq(T) /\ Len(Append(s, x)) \in Nat
OBVIOUS
LEMMA MapRows == ASSUME NEW T, NEW n \in Nat, NEW f \in [1..n -> T] PROVE f \in Seq(T)
OBVIOUS
LEMMA ChangeRow == ASSUME NEW T, NEW s \in Seq(T), NEW i, NEW x \in T PROVE [s EXCEPT ![i] = x] \in Seq(T)
<1>1. s \in [1..Len(s) -> T] /\ Len(s) \in Nat
  OBVIOUS
<1>2. [s EXCEPT ![i] = x] \in [1..Len(s) -> T]
  BY <1>1
<1>3. QED
  BY <1>1, <1>2, MapRows

LEMMA SameIntake == ASSUME TypeInv, UNCHANGED intakeVars PROVE IntakeTypes'
BY DEF TypeInv, IntakeTypes, intakeVars

\* A request in progress and what it carries.
LEMMA InIntake ==
    ASSUME TypeInv, NEW r \in Request, NEW u, u = req[r], u.op \in IntakeKinds
    PROVE  /\ u \in IntakeReq /\ LeftInHand(u) /\ req[r].op \in IntakeKinds
           /\ u.op \in Intakes => u \in HookReq
           /\ u.op = "hand" => u \in HandReq
           /\ u.op = "delete" => u \in DeleteReq
           /\ u.op \in Editors => u \in AmendReq
           /\ u.op = "rename" => u \in RenameReq
           /\ u.op = "toggle" => u \in ToggleReq
           /\ u.op = "import" => u \in ImportReq
BY KindOf, IntakeKind DEF TypeInv, RequestTypes

LEMMA HandIsField == ASSUME NEW u \in HandReq PROVE u \in HandFields
BY DEF HandReq, HandFields

LEMMA CacheTyped == ASSUME TypeInv, NEW r \in Request, CacheCount(r) PROVE IntakeStep
<1>1. PICK u : u = req[r]
  OBVIOUS
<1>2. u.op \in Intakes \cup {"hand", "import"} /\ u.next = "cache" /\ u.op \in IntakeKinds
  BY <1>1 DEF CacheCount, At, Intakes, IntakeKinds
<1>3. u \in HookReq \cup HandFields \cup ImportReq /\ u.n \in Nat /\ LeftInHand(u)
  BY <1>1, <1>2, InIntake, HandIsField DEF HookReq, HandReq, ImportReq
<1>4. Looking(u)
  BY <1>2, <1>3 DEF Looking, LeftInHand, Lookers
<1>5. PICK w : w = Admitted(u, u.n)
  OBVIOUS
<1>6. \/ w \in IntakeReq /\ LeftInHand(w) /\ w.op = u.op
      \/ u.op = "hand" /\ w.next = "end"
  BY <1>3, <1>4, <1>5, AdmittedType
<1>7. counted' = u.n /\ (IF w.next = "end" THEN Finish(r) ELSE Update(r, w))
      /\ UNCHANGED <<arrived, batches, job, source, met, started, mix, crashed>>
  BY <1>1, <1>5 DEF CacheCount
<1>8. IntakeTypes'
  BY <1>3, <1>7 DEF TypeInv, IntakeTypes
<1>9. CASE w.next = "end"
  BY <1>1, <1>2, <1>7, <1>8, <1>9, IntakeEnds DEF Noting
<1>10. CASE w.next # "end"
  <2>1. Sound(w) /\ req' = [req EXCEPT ![r] = w]
    BY <1>6, <1>7, <1>10 DEF Sound, Update
  <2>2. QED
    BY <1>1, <1>2, <1>7, <1>8, <2>1, IntakeGoesOn DEF Noting
<1>11. QED
  BY <1>9, <1>10

LEMMA LookedUpType ==
    ASSUME TypeInv, NEW w \in HookReq, w.left # <<>>, NEW v, v = LookedUp(w)
    PROVE  v \in IntakeReq /\ LeftInHand(v) /\ v.op = w.op
<1>1. CASE v = NextLead(w, 0)
  BY <1>1, NextLeadType DEF IntakeReq
<1>2. CASE v = Counted(w)
  BY <1>2, CountedType DEF Looking, HookReq, Intakes
<1>3. QED
  BY <1>1, <1>2 DEF LookedUp

LEMMA DeliveryType ==
    ASSUME TypeInv, NEW op \in Intakes, NEW left \in Deliveries, NEW lenient \in BOOLEAN, NEW v, v = Intaking(op, left, lenient)
    PROVE  v \in IntakeReq /\ LeftInHand(v) /\ v.op = op
<1>1. PICK w : w = [op |-> op, next |-> "look", left |-> left, lenient |-> lenient, copy |-> source, batch |-> 0,
                    n |-> 0, made |-> 0]
  OBVIOUS
<1>2. w \in HookReq /\ w.left # <<>> /\ w.op = op
  BY <1>1, IntakeConstants, IntakeVariables DEF HookReq
<1>3. QED
  BY <1>1, <1>2, LookedUpType DEF Intaking

LEMMA HooksTyped ==
    ASSUME TypeInv, NEW r \in Request,
           \/ \E left \in Deliveries : SyncNow(r, left) \/ \E lenient \in BOOLEAN : Deliver(r, left, lenient)
           \/ LookUp(r) \/ TodaysBatch(r) \/ CreateLead(r) \/ CreateFails(r)
           \/ NoteCreated(r) \/ AddToBatch(r) \/ SaveReceived(r) \/ SaveError(r)
    PROVE  IntakeStep
<1>1. ASSUME NEW left \in Deliveries, NEW lenient \in BOOLEAN, NEW op \in Intakes,
             Start(r, op, Intaking(op, left, lenient)), UNCHANGED <<intakeVars, mix, crashed>>
      PROVE  IntakeStep
  <2>1. PICK v : v = Intaking(op, left, lenient)
    OBVIOUS
  <2>2. v \in IntakeReq /\ LeftInHand(v) /\ v.op = op
    BY <2>1, DeliveryType
  <2>3. Start(r, v.op, v)
    BY <1>1, <2>1, <2>2
  <2>4. QED
    BY <1>1, <2>2, <2>3, SameIntake, IntakeBegins
<1>2. ASSUME NEW left \in Deliveries, SyncNow(r, left) PROVE IntakeStep
  <2>1. "sync" \in Intakes /\ TRUE \in BOOLEAN
    BY DEF Intakes
  <2>2. PICK lenient \in BOOLEAN, op \in Intakes : lenient = TRUE /\ op = "sync"
    BY <2>1
  <2>3. Start(r, op, Intaking(op, left, lenient)) /\ UNCHANGED <<intakeVars, mix, crashed>>
    BY <1>2, <2>2 DEF SyncNow
  <2>4. QED
    BY <1>1, <2>3
<1>3. ASSUME NEW left \in Deliveries, NEW lenient \in BOOLEAN, Deliver(r, left, lenient) PROVE IntakeStep
  <2>1. PICK op \in Intakes : op = "hook"
    BY DEF Intakes
  <2>2. Start(r, op, Intaking(op, left, lenient)) /\ UNCHANGED <<intakeVars, mix, crashed>>
    BY <1>3, <2>1 DEF Deliver
  <2>3. QED
    BY <1>1, <2>2
<1>4. PICK u : u = req[r]
  OBVIOUS
<1>5. u.op \in Intakes => /\ u \in HookReq /\ LeftInHand(u) /\ req[r].op \in IntakeKinds
                          /\ u.next \in Lookers => u.left # <<>>
  BY <1>4, InIntake DEF IntakeKinds, Intakes, LeftInHand
<1>6. CASE LookUp(r)
  <2>1. u.op \in Intakes /\ u.next = "look"
    BY <1>4, <1>6 DEF LookUp, At
  <2>2. PICK v : v = LookedUp(u)
    OBVIOUS
  <2>3. Sound(v)
    BY <1>5, <2>1, <2>2, LookedUpType DEF Sound, Lookers
  <2>4. req' = [req EXCEPT ![r] = v] /\ UNCHANGED <<intakeVars, met, started, mix, crashed>>
    BY <1>4, <1>6, <2>2 DEF LookUp, Update
  <2>5. QED
    BY <1>5, <2>1, <2>3, <2>4, SameIntake, IntakeGoesOn DEF Noting
<1>7. CASE TodaysBatch(r)
  <2>1. u.op \in Intakes /\ u.next = "batch"
    BY <1>4, <1>7 DEF TodaysBatch, At
  <2>2. Today \in SUBSET Nat
    BY IntakeVariables DEF Today
  <2>3. batches' \in Seq(BatchRec) /\ Len(batches') \in Nat
    <3>1. [kind |-> "webhook", total |-> 0] \in BatchRec
      BY DEF BatchRec
    <3>2. QED
      BY <1>7, <3>1, IntakeVariables, AppendRow DEF TodaysBatch
  <2>4. PICK b \in Nat : b = IF Today # {} THEN Min(Today) ELSE Len(batches')
    BY <2>2, <2>3, MinIn, Zenon
  <2>5. PICK v : v = [u EXCEPT !.next = "create", !.batch = b]
    OBVIOUS
  <2>6. Sound(v)
    BY <1>5, <2>1, <2>5, HookSteps, Zenon DEF Sound, Lookers, IntakeReq
  <2>7. req' = [req EXCEPT ![r] = v] /\ UNCHANGED <<arrived, job, source, counted, met, started, mix, crashed>>
    BY <1>4, <1>7, <2>4, <2>5 DEF TodaysBatch, Update
  <2>8. IntakeTypes'
    BY <2>3, <2>7 DEF TypeInv, IntakeTypes
  <2>9. QED
    BY <1>5, <2>1, <2>6, <2>7, <2>8, IntakeGoesOn DEF Noting
<1>8. u.op = "hand" => /\ u \in HandReq /\ LeftInHand(u) /\ req[r].op \in IntakeKinds
                       /\ u.next \in Lookers => u.left # <<>>
  BY <1>4, InIntake DEF IntakeKinds, LeftInHand
<1>9. CASE CreateLead(r)
  <2>1. u.op \in Intakes \cup {"hand"} /\ u.next = "create"
    BY <1>4, <1>9 DEF CreateLead, At
  <2>2. Head(u.left) \in Phone /\ u.batch \in Nat /\ u.left # <<>> /\ req[r].op \in IntakeKinds
    <3>1. u.left \in Seq(Phone) /\ u.batch \in Nat /\ u.left # <<>> /\ req[r].op \in IntakeKinds
      BY <1>5, <1>8, <2>1 DEF HookReq, HandReq, Lookers
    <3>2. QED
      BY <3>1
  <2>3. PICK from \in {"hand", "hook"} : from = IF u.op = "hand" THEN "hand" ELSE "hook"
    OBVIOUS
  <2>4. PICK row : row = NewLead(Head(u.left), u.batch, from)
    OBVIOUS
  <2>5. row \in Arrival
    BY <2>2, <2>4 DEF NewLead, Arrival
  <2>6. arrived' = Append(arrived, row) /\ UNCHANGED <<batches, job, source, counted, met, started, mix, crashed>>
        /\ req' = [req EXCEPT ![r].next = "note"]
    BY <1>4, <1>9, <2>3, <2>4 DEF CreateLead, Goto
  <2>7. arrived' \in Seq(Arrival)
    BY <2>5, <2>6, IntakeVariables, AppendRow
  <2>8. IntakeTypes'
    BY <2>6, <2>7 DEF TypeInv, IntakeTypes
  <2>9. PICK v : v = [u EXCEPT !.next = "note"]
    BY Zenon
  <2>10. Sound(v)
    <3>1. u \in HookReq => v \in HookReq /\ LeftInHand(v)
      BY <2>2, <2>9, HookSteps, Zenon
    <3>2. u \in HandReq => v \in HandReq /\ LeftInHand(v)
      BY <2>2, <2>9, HandIsField, HandSteps
    <3>3. QED
      BY <1>5, <1>8, <2>1, <3>1, <3>2 DEF Sound, IntakeReq
  <2>11. req' = [req EXCEPT ![r] = v]
    BY <1>4, <2>6, <2>9
  <2>12. QED
    BY <2>2, <2>6, <2>8, <2>10, <2>11, IntakeGoesOn DEF Noting
<1>10. CASE CreateFails(r)
  <2>1. u.op \in Intakes /\ u.next = "create"
    BY <1>4, <1>10 DEF CreateFails, At
  <2>2. PICK v : v = Fails(u)
    BY Zenon
  <2>3. Sound(v)
    BY <1>5, <2>1, <2>2, FailsType DEF Sound, Lookers, IntakeReq
  <2>4. req' = [req EXCEPT ![r] = v] /\ UNCHANGED <<intakeVars, met, started, mix, crashed>>
    BY <1>4, <1>10, <2>2 DEF CreateFails, Update
  <2>5. QED
    BY <1>5, <2>1, <2>3, <2>4, SameIntake, IntakeGoesOn DEF Noting
<1>11. counted + 1 \in Nat /\ Nudged(1) \in Nat
  BY IntakeConstants, IntakeVariables DEF Nudged, NoCount
<1>12. CASE NoteCreated(r)
  <2>1. u.op \in Intakes \cup {"hand"} /\ u.next = "note"
    BY <1>4, <1>12 DEF NoteCreated, At
  <2>2. UNCHANGED <<arrived, batches, job, source, met, started, mix, crashed>> /\ counted' = Nudged(1)
        /\ Goto(r, IF u.op = "hand" THEN "end" ELSE "add") /\ req[r].op \in IntakeKinds
    BY <1>4, <1>5, <1>8, <1>12, <2>1 DEF NoteCreated
  <2>3. IntakeTypes'
    BY <1>11, <2>2 DEF TypeInv, IntakeTypes
  <2>4. CASE u.op = "hand"
    <3>1. Finish(r)
      BY <2>2, <2>4 DEF Goto
    <3>2. QED
      BY <2>2, <2>3, <3>1, IntakeEnds DEF Noting
  <2>5. CASE u.op # "hand"
    <3>1. PICK v : v = [u EXCEPT !.next = "add"]
      BY Zenon
    <3>2. Sound(v)
      BY <1>5, <2>1, <2>5, <3>1, HookSteps, Zenon DEF Sound, Lookers, IntakeReq
    <3>3. req' = [req EXCEPT ![r] = v]
      BY <1>4, <2>2, <2>5, <3>1 DEF Goto
    <3>4. QED
      BY <2>2, <2>3, <3>2, <3>3, IntakeGoesOn DEF Noting
  <2>6. QED
    BY <2>4, <2>5
<1>13. CASE AddToBatch(r)
  <2>1. u.op \in Intakes /\ u.next = "add"
    BY <1>4, <1>13 DEF AddToBatch, At
  <2>2. PICK v : /\ \/ v = NextLead(u, 1) /\ met' = met
                    \/ v = Fails(u) /\ met' = met \cup {{"halfway"}}
                 /\ Update(r, v)
    BY <1>4, <1>13 DEF AddToBatch
  <2>3. Sound(v)
    BY <1>5, <2>1, <2>2, NextLeadType, FailsType DEF Sound, Lookers, IntakeReq
  <2>4. batches' \in Seq(BatchRec)
    <3>1. CASE ~Exists(u.batch)
      BY <1>4, <1>13, <3>1, IntakeVariables DEF AddToBatch
    <3>2. CASE Exists(u.batch)
      <4>1. PICK b : b = u.batch
        OBVIOUS
      <4>2. batches[b] \in BatchRec
        BY <3>2, <4>1, IntakeVariables DEF Exists
      <4>3. [batches[b] EXCEPT !.total = batches[b].total + 1] \in BatchRec
        BY <4>2 DEF BatchRec
      <4>4. batches' = [batches EXCEPT ![b] = [batches[b] EXCEPT !.total = batches[b].total + 1]]
        BY <1>4, <1>13, <3>2, <4>1, <4>2 DEF AddToBatch, BatchRec
      <4>5. QED
        BY <4>3, <4>4, IntakeVariables, ChangeRow
    <3>3. QED
      BY <3>1, <3>2
  <2>5. req' = [req EXCEPT ![r] = v] /\ UNCHANGED <<arrived, job, source, counted, started, mix, crashed>>
    BY <1>4, <1>13, <2>2 DEF AddToBatch, Update
  <2>6. IntakeTypes'
    BY <2>4, <2>5 DEF TypeInv, IntakeTypes
  <2>7. Noting
    BY <2>2 DEF Noting, Ops
  <2>8. QED
    BY <1>5, <2>1, <2>3, <2>5, <2>6, <2>7, IntakeGoesOn
<1>14. ASSUME NEW c \in SourceRec PROVE InStep(c) \in {"active", "inactive", "error"}
  BY DEF InStep, SourceRec
<1>15. CASE SaveReceived(r)
  <2>1. u.op \in Intakes
    BY <1>4, <1>15 DEF SaveReceived, At
  <2>2. PICK st \in {"active", "inactive", "error"}, n \in Nat : st = InStep(u.copy) /\ n = u.copy.received + u.made
    BY <1>5, <1>14, <2>1 DEF HookReq, SourceRec
  <2>3. source' = source \/ source' = [source EXCEPT !.received = n, !.st = st]
    BY <1>4, <1>15, <2>2 DEF SaveReceived
  <2>4. source' \in SourceRec
    BY <2>3, IntakeVariables DEF SourceRec
  <2>5. Finish(r) /\ UNCHANGED <<arrived, batches, job, counted, met, started, mix, crashed>>
    BY <1>15 DEF SaveReceived
  <2>6. IntakeTypes'
    BY <2>4, <2>5 DEF TypeInv, IntakeTypes
  <2>7. QED
    BY <1>5, <2>1, <2>5, <2>6, IntakeEnds DEF Noting
<1>16. CASE SaveError(r)
  <2>1. u.op \in Intakes
    BY <1>4, <1>16 DEF SaveError, At, Intakes
  <2>2. source' \in SourceRec
    BY <1>16, IntakeVariables DEF SaveError, SourceRec
  <2>3. Finish(r) /\ UNCHANGED <<arrived, batches, job, counted, started, mix, crashed>>
    BY <1>16 DEF SaveError
  <2>4. Noting
    BY <1>16 DEF SaveError, Noting, Ops
  <2>5. IntakeTypes'
    BY <2>2, <2>3 DEF TypeInv, IntakeTypes
  <2>6. QED
    BY <1>5, <2>1, <2>3, <2>4, <2>5, IntakeEnds
<1>17. QED
  BY <1>2, <1>3, <1>6, <1>7, <1>9, <1>10, <1>12, <1>13, <1>15, <1>16

LEMMA Exist ==
    ASSUME TypeInv, NEW b, Exists(b)
    PROVE  b \in Nat \ {0} /\ batches[b] \in BatchRec
BY IntakeVariables DEF Exists

\* The steps after a deletion or an import has counted a batch.
LEMMA AfterCount ==
    ASSUME TypeInv, NEW r \in Request, req[r].op \in {"delete", "import"}, After(r), UNCHANGED <<met, started, mix, crashed>>,
           IntakeTypes'
    PROVE  IntakeStep
<1>1. PICK u : u = req[r]
  OBVIOUS
<1>2. req[r].op \in IntakeKinds
  BY DEF IntakeKinds
<1>3. CASE u.op = "import"
  <2>1. PICK v : v = [u EXCEPT !.next = "finish"]
    OBVIOUS
  <2>2. v \in ImportReq
    BY <1>1, <1>2, <1>3, <2>1, InIntake DEF ImportReq
  <2>3. Sound(v)
    BY <2>2, ImportFields DEF Sound, IntakeReq
  <2>4. req' = [req EXCEPT ![r] = v]
    BY <1>1, <1>3, <2>1 DEF After, Goto
  <2>5. QED
    BY <1>2, <2>3, <2>4, IntakeGoesOn DEF Noting
<1>4. CASE u.op # "import"
  <2>1. Finish(r)
    BY <1>1, <1>4 DEF After, Goto
  <2>2. QED
    BY <1>2, <2>1, IntakeEnds DEF Noting
<1>5. QED
  BY <1>3, <1>4

LEMMA RowsTyped ==
    ASSUME TypeInv, NEW r \in Request,
           \/ \E p \in Phone : ByForm(r, p)
           \/ \E ls \in (SUBSET DOMAIN arrived) \ {{}} : Delete(r, ls)
           \/ \E i \in DOMAIN arrived, p \in Phone : Amend(r, i, p)
           \/ \E b \in DOMAIN batches : Rename(r, b)
           \/ \E on \in BOOLEAN : SetSource(r, on)
           \/ SaveSource(r) \/ MarkDeleted(r) \/ LoadBatch(r) \/ Recount(r) \/ SaveTotal(r)
           \/ SaveLead(r) \/ SaveBatch(r)
    PROVE  IntakeStep
<1>1. ASSUME NEW p \in Phone, ByForm(r, p) PROVE IntakeStep
  <2>1. PICK w : w = [op |-> "hand", next |-> "count", left |-> <<p>>, batch |-> 0, n |-> 0]
    OBVIOUS
  <2>2. w \in HandFields /\ w.left # <<>> /\ w.op = "hand"
    BY <2>1 DEF HandFields
  <2>3. PICK v : v = Counted(w)
    OBVIOUS
  <2>4. v.next # "end" /\ Start(r, "hand", v) /\ UNCHANGED <<intakeVars, mix, crashed>>
    BY <1>1, <2>1, <2>3 DEF ByForm
  <2>5. v \in IntakeReq /\ LeftInHand(v) /\ v.op = "hand"
    BY <2>2, <2>3, <2>4, CountedType DEF Looking
  <2>6. QED
    BY <2>4, <2>5, SameIntake, IntakeBegins
<1>2. ASSUME NEW ls \in (SUBSET DOMAIN arrived) \ {{}}, Delete(r, ls) PROVE IntakeStep
  <2>1. PICK i \in ls : i = CHOOSE k \in ls : TRUE
    <3>1. \E k : k \in ls
      <4>1. ls # {}
        BY Zenon
      <4>2. QED
        BY <4>1, Zenon
    <3>2. (CHOOSE k \in ls : TRUE) \in ls
      BY <3>1
    <3>3. QED
      BY <3>2
  <2>2. ls \in SUBSET Nat /\ arrived[i] \in Arrival
    BY IntakeVariables
  <2>3. PICK b \in Nat : b = arrived[i].batch
    BY <2>2 DEF Arrival
  <2>4. PICK v : v = [op |-> "delete", next |-> "mark", leads |-> ls, batch |-> b, was |-> 0, n |-> 0]
    OBVIOUS
  <2>5. Start(r, "delete", v) /\ UNCHANGED <<intakeVars, mix, crashed>>
    BY <1>2, <2>1, <2>3, <2>4 DEF Delete
  <2>6. v \in DeleteReq /\ v.op = "delete" /\ LeftInHand(v)
    BY <2>2, <2>4 DEF DeleteReq, LeftInHand, Intakes
  <2>7. QED
    BY <2>5, <2>6, SameIntake, IntakeBegins DEF IntakeReq
<1>3. ASSUME NEW i \in DOMAIN arrived, NEW p \in Phone, Amend(r, i, p) PROVE IntakeStep
  <2>0. i \in Nat /\ arrived[i] \in Arrival
    BY IntakeVariables
  <2>1. i \in Nat /\ [arrived[i] EXCEPT !.phone = p] \in Arrival
    BY <2>0 DEF Arrival
  <2>2. PICK kind \in Editors : kind = IF p = arrived[i].phone THEN "amend" ELSE "renumber"
    BY DEF Editors
  <2>3. PICK v : v = [op |-> kind, next |-> "save", lead |-> i, row |-> [arrived[i] EXCEPT !.phone = p]]
    OBVIOUS
  <2>4. Start(r, kind, v) /\ UNCHANGED <<intakeVars, mix, crashed>>
    BY <1>3, <2>2, <2>3 DEF Amend
  <2>5. v \in AmendReq /\ v.op = kind /\ LeftInHand(v)
    BY <2>1, <2>3 DEF AmendReq, LeftInHand, Intakes, Editors
  <2>6. QED
    BY <2>4, <2>5, SameIntake, IntakeBegins DEF IntakeReq
<1>4. ASSUME NEW b \in DOMAIN batches, Rename(r, b) PROVE IntakeStep
  <2>1. b \in Nat /\ batches[b] \in BatchRec
    BY IntakeVariables
  <2>2. PICK v : v = [op |-> "rename", next |-> "save", batch |-> b, row |-> batches[b]]
    OBVIOUS
  <2>3. Start(r, "rename", v) /\ UNCHANGED <<intakeVars, mix, crashed>>
    BY <1>4, <2>2 DEF Rename
  <2>4. v \in RenameReq /\ v.op = "rename" /\ LeftInHand(v)
    BY <2>1, <2>2 DEF RenameReq, LeftInHand, Intakes
  <2>5. QED
    BY <2>3, <2>4, SameIntake, IntakeBegins DEF IntakeReq
<1>5. ASSUME NEW on \in BOOLEAN, SetSource(r, on) PROVE IntakeStep
  <2>1. PICK c \in SourceRec : c = [source EXCEPT !.on = on]
    BY IntakeVariables DEF SourceRec
  <2>2. PICK v : v = [op |-> "toggle", next |-> "save", copy |-> c]
    OBVIOUS
  <2>3. Start(r, "toggle", v) /\ UNCHANGED <<intakeVars, mix, crashed>>
    BY <1>5, <2>1, <2>2 DEF SetSource
  <2>4. v \in ToggleReq /\ v.op = "toggle" /\ LeftInHand(v)
    BY <2>2 DEF ToggleReq, LeftInHand, Intakes
  <2>5. QED
    BY <2>3, <2>4, SameIntake, IntakeBegins DEF IntakeReq
<1>6. PICK u : u = req[r]
  OBVIOUS
<1>7. CASE SaveSource(r)
  <2>1. u.op = "toggle" /\ u.op \in IntakeKinds
    BY <1>6, <1>7 DEF SaveSource, At, IntakeKinds
  <2>2. u.copy \in SourceRec
    BY <1>6, <2>1, InIntake DEF ToggleReq
  <2>3. InStep(u.copy) \in {"active", "inactive", "error"}
    BY <2>2 DEF InStep, SourceRec
  <2>4. source' = [u.copy EXCEPT !.st = InStep(u.copy)] /\ Finish(r)
        /\ UNCHANGED <<arrived, batches, job, counted, met, started, mix, crashed>>
    BY <1>6, <1>7 DEF SaveSource
  <2>5. source' \in SourceRec
    BY <2>2, <2>3, <2>4 DEF SourceRec
  <2>6. IntakeTypes'
    BY <2>4, <2>5 DEF TypeInv, IntakeTypes
  <2>7. QED
    BY <1>6, <2>1, <2>4, <2>6, IntakeEnds DEF Noting
<1>8. u.op = "delete" => u \in DeleteReq /\ req[r].op \in IntakeKinds
  BY <1>6, InIntake DEF IntakeKinds
<1>9. \A v \in DeleteReq : Sound(v)
  BY DEF DeleteReq, Sound, LeftInHand, Intakes, IntakeReq
<1>10. CASE MarkDeleted(r)
  <2>1. u.op = "delete"
    BY <1>6, <1>10 DEF MarkDeleted, At
  <2>2. arrived \in [1..Len(arrived) -> Arrival] /\ Len(arrived) \in Nat /\ DOMAIN arrived = 1..Len(arrived)
    BY IntakeVariables
  <2>3. \A i \in DOMAIN arrived : [arrived[i] EXCEPT !.live = FALSE] \in Arrival
    BY <2>2 DEF Arrival
  <2>4. arrived' \in [1..Len(arrived) -> Arrival]
    BY <1>10, <2>2, <2>3 DEF MarkDeleted
  <2>5. arrived' \in Seq(Arrival)
    BY <2>2, <2>4, MapRows
  <2>6. PICK v : v = [u EXCEPT !.next = "load"]
    OBVIOUS
  <2>7. v \in DeleteReq
    BY <1>8, <2>1, <2>6 DEF DeleteReq
  <2>8. req' = [req EXCEPT ![r] = v] /\ UNCHANGED <<batches, job, source, counted, met, started, mix, crashed>>
    BY <1>6, <1>10, <2>6 DEF MarkDeleted, Goto
  <2>9. IntakeTypes'
    BY <2>5, <2>8 DEF TypeInv, IntakeTypes
  <2>10. QED
    BY <1>8, <1>9, <2>1, <2>7, <2>8, <2>9, IntakeGoesOn DEF Noting
<1>11. CASE LoadBatch(r)
  <2>1. u.op = "delete" /\ UNCHANGED <<intakeVars, met, started, mix, crashed>>
    BY <1>6, <1>11 DEF LoadBatch, At
  <2>2. CASE Finish(r)
    BY <1>8, <2>1, <2>2, SameIntake, IntakeEnds DEF Noting
  <2>3. CASE ~Finish(r)
    <3>1. Exists(u.batch) /\ req' = [req EXCEPT ![r] = [u EXCEPT !.was = batches[u.batch].total, !.next = "recount"]]
      BY <1>6, <1>11, <2>3 DEF LoadBatch, Update
    <3>2. PICK n \in Nat : n = batches[u.batch].total
      BY <3>1, Exist DEF BatchRec
    <3>3. PICK v : v = [u EXCEPT !.was = n, !.next = "recount"]
      OBVIOUS
    <3>4. v \in DeleteReq
      BY <1>8, <2>1, <3>3 DEF DeleteReq
    <3>5. QED
      BY <1>8, <1>9, <2>1, <3>1, <3>2, <3>3, <3>4, SameIntake, IntakeGoesOn DEF Noting
  <2>4. QED
    BY <2>2, <2>3
<1>12. u.op = "import" => u \in ImportReq /\ req[r].op \in IntakeKinds
  BY <1>6, InIntake DEF IntakeKinds
<1>13. \A v \in ImportReq : Sound(v)
  BY ImportFields DEF Sound, IntakeReq
<1>14. CASE Recount(r)
  <2>1. u.op \in {"delete", "import"} /\ UNCHANGED <<intakeVars, met, started, mix, crashed>>
    BY <1>6, <1>14 DEF Recount, At
  <2>2. CASE After(r)
    BY <1>6, <2>1, <2>2, SameIntake, AfterCount
  <2>3. CASE ~After(r)
    <3>1. PICK n \in Nat : n = InBatch(u.batch)
      BY CountsAreNumbers
    <3>2. PICK v : v = [u EXCEPT !.n = n, !.next = "total"]
      OBVIOUS
    <3>3. req' = [req EXCEPT ![r] = v]
      BY <1>6, <1>14, <2>3, <3>1, <3>2 DEF Recount, Update
    <3>4. (u \in DeleteReq => v \in DeleteReq) /\ (u \in ImportReq => v \in ImportReq)
      BY <3>2 DEF DeleteReq, ImportReq
    <3>5. Sound(v)
      BY <1>8, <1>9, <1>12, <1>13, <2>1, <3>4
    <3>6. QED
      BY <1>8, <1>12, <2>1, <3>3, <3>5, SameIntake, IntakeGoesOn DEF Noting
  <2>4. QED
    BY <2>2, <2>3
<1>15. CASE SaveTotal(r)
  <2>1. u.op \in {"delete", "import"} /\ After(r) /\ UNCHANGED <<arrived, job, source, counted, met, started, mix, crashed>>
    BY <1>6, <1>15 DEF SaveTotal, At
  <2>2. batches' = IF Exists(u.batch) THEN [batches EXCEPT ![u.batch].total = u.n] ELSE batches
    BY <1>6, <1>15 DEF SaveTotal
  <2>3. u.n \in Nat
    BY <1>8, <1>12, <2>1 DEF DeleteReq, ImportReq
  <2>4. batches' \in Seq(BatchRec)
    <3>1. CASE ~Exists(u.batch)
      BY <2>2, <3>1, IntakeVariables
    <3>2. CASE Exists(u.batch)
      <4>1. PICK b : b = u.batch
        OBVIOUS
      <4>2. [batches[b] EXCEPT !.total = u.n] \in BatchRec
        BY <2>3, <3>2, <4>1, Exist DEF BatchRec
      <4>3. batches' = [batches EXCEPT ![b] = [batches[b] EXCEPT !.total = u.n]]
        BY <2>2, <3>2, <4>1
      <4>4. QED
        BY <4>2, <4>3, IntakeVariables, ChangeRow
    <3>3. QED
      BY <3>1, <3>2
  <2>5. IntakeTypes'
    BY <2>1, <2>4 DEF TypeInv, IntakeTypes
  <2>6. QED
    BY <1>6, <2>1, <2>5, AfterCount
<1>16. CASE SaveLead(r)
  <2>1. u.op \in Editors /\ u.op \in IntakeKinds
    BY <1>6, <1>16 DEF SaveLead, At, IntakeKinds, Editors
  <2>2. u.row \in Arrival
    BY <1>6, <2>1, InIntake DEF AmendReq
  <2>3. (arrived' = arrived \/ arrived' = [arrived EXCEPT ![u.lead] = u.row]) /\ Finish(r)
        /\ UNCHANGED <<batches, job, source, counted, met, started, mix, crashed>>
    BY <1>6, <1>16 DEF SaveLead
  <2>4. arrived' \in Seq(Arrival)
    BY <2>2, <2>3, IntakeVariables, ChangeRow
  <2>5. IntakeTypes'
    BY <2>3, <2>4 DEF TypeInv, IntakeTypes
  <2>6. QED
    BY <1>6, <2>1, <2>3, <2>5, IntakeEnds DEF Noting
<1>17. CASE SaveBatch(r)
  <2>1. u.op = "rename" /\ u.op \in IntakeKinds
    BY <1>6, <1>17 DEF SaveBatch, At, IntakeKinds
  <2>2. u.row \in BatchRec
    BY <1>6, <2>1, InIntake DEF RenameReq
  <2>3. (batches' = batches \/ batches' = [batches EXCEPT ![u.batch] = u.row]) /\ Finish(r)
        /\ UNCHANGED <<arrived, job, source, counted, met, started, mix, crashed>>
    BY <1>6, <1>17 DEF SaveBatch
  <2>4. batches' \in Seq(BatchRec)
    BY <2>2, <2>3, IntakeVariables, ChangeRow
  <2>5. IntakeTypes'
    BY <2>3, <2>4 DEF TypeInv, IntakeTypes
  <2>6. QED
    BY <1>6, <2>1, <2>3, <2>5, IntakeEnds DEF Noting
<1>18. QED
  BY <1>1, <1>2, <1>3, <1>4, <1>5, <1>7, <1>10, <1>11, <1>14, <1>15, <1>16, <1>17

-----------------------------------------------------------------------------
(* Import of a file.                                                        *)

\* Recursion whose steps differ.
Within(n, T, step) == \A k \in 1..n : \A x \in T : step[k][x] \in T

LEMMA RecursionBy ==
    ASSUME NEW n \in Nat, NEW T, NEW a \in T, NEW step, Within(n, T, step)
    PROVE  \E f \in [0..n -> T] : \A k \in 0..n : f[k] = IF k = 0 THEN a ELSE step[k][f[k - 1]]
<1> DEFINE Fits(f, m) == \A k \in 0..m : f[k] = IF k = 0 THEN a ELSE step[k][f[k - 1]]
           S == {m \in 0..n : \E f \in [0..m -> T] : Fits(f, m)}
<1>1. 0 \in S
  <2> DEFINE f == [k \in 0..0 |-> a]
  <2>1. f \in [0..0 -> T] /\ f[0] = a /\ \A k \in 0..0 : k = 0
    OBVIOUS
  <2> HIDE DEF f
  <2>2. Fits(f, 0)
    BY <2>1
  <2>3. QED
    BY <2>1, <2>2
<1>2. ASSUME NEW m \in 0..n, m \in S, m # n PROVE m + 1 \in S
  <2>1. PICK f \in [0..m -> T] : Fits(f, m)
    BY <1>2
  <2> DEFINE g == [k \in 0..(m + 1) |-> IF k = m + 1 THEN step[m + 1][f[m]] ELSE f[k]]
  <2>2. m \in Nat /\ m \in 0..m /\ m + 1 \in 0..n /\ m + 1 \in 1..n
    BY <1>2
  <2>3. g \in [0..(m + 1) -> T]
    <3>1. f[m] \in T
      BY <2>2
    <3>2. step[m + 1][f[m]] \in T
      BY <2>2, <3>1 DEF Within
    <3>3. QED
      BY <2>2, <3>2
  <2>4. \A j \in 0..(m + 1) : g[j] = IF j = m + 1 THEN step[m + 1][f[m]] ELSE f[j]
    OBVIOUS
  <2> HIDE DEF g
  <2>5. ASSUME NEW k \in 0..(m + 1) PROVE g[k] = IF k = 0 THEN a ELSE step[k][g[k - 1]]
    <3>1. CASE k = m + 1
      <4>1. m \in 0..(m + 1) /\ m # m + 1 /\ k # 0 /\ k - 1 = m
        BY <2>2, <3>1
      <4>2. QED
        BY <2>4, <3>1, <4>1
    <3>2. CASE k = 0
      <4>1. 0 \in 0..m /\ 0 # m + 1
        BY <2>2
      <4>2. QED
        BY <2>1, <2>4, <3>2, <4>1
    <3>3. CASE k # m + 1 /\ k # 0
      <4>1. k \in 0..m /\ k - 1 \in 0..(m + 1) /\ k - 1 # m + 1
        BY <2>2, <3>3
      <4>2. f[k] = step[k][f[k - 1]]
        BY <2>1, <3>3, <4>1
      <4>3. QED
        BY <2>4, <3>3, <4>1, <4>2
    <3>4. QED
      BY <3>1, <3>2, <3>3
  <2>6. QED
    BY <2>2, <2>3, <2>5
<1> HIDE DEF S
<1>3. n \in S
  <2>1. \A k \in 0..n : k \in S /\ k # n => k + 1 \in S
    BY <1>2
  <2>2. QED
    BY <1>1, <2>1, Climb
<1>4. PICK f \in [0..n -> T] : Fits(f, n)
  BY <1>3 DEF S
<1>5. QED
  BY <1>4

LEMMA WithRowType ==
    ASSUME TypeInv, NEW w \in ImportReq, NEW p \in Phone \cup {Invalid}
    PROVE  WithRow(w, p) \in ImportReq
<1>1. w.failed + 1 \in Nat /\ w.dup + 1 \in Nat /\ w.ok + 1 \in Nat
  BY DEF ImportReq
<1>2. [w EXCEPT !.failed = @ + 1] \in ImportReq /\ [w EXCEPT !.dup = @ + 1] \in ImportReq
      /\ [w EXCEPT !.ok = @ + 1, !.dup = @ + 1] \in ImportReq
  BY <1>1 DEF ImportReq
<1>3. p # Invalid => [w EXCEPT !.new = Append(@, p)] \in ImportReq
  <2>1. p # Invalid => Append(w.new, p) \in Seq(Phone)
    BY AppendRow DEF ImportReq
  <2>2. QED
    BY <2>1 DEF ImportReq
<1>4. job.rule \in {"skip", "update", "create_new"}
  BY IntakeVariables DEF JobRec
<1>5. \/ WithRow(w, p) = [w EXCEPT !.failed = @ + 1]
      \/ WithRow(w, p) = [w EXCEPT !.dup = @ + 1]
      \/ WithRow(w, p) = [w EXCEPT !.ok = @ + 1, !.dup = @ + 1]
      \/ p # Invalid /\ WithRow(w, p) = [w EXCEPT !.new = Append(@, p)]
  BY <1>4 DEF WithRow
<1>6. QED
  BY <1>2, <1>3, <1>5

\* Reading the rows is a step for each.
LEMMA AfterRowsSteps ==
    ASSUME TypeInv, NEW w \in ImportReq
    PROVE  \E n \in Nat : \E g :
              /\ n = Len(job.rows) /\ g[0] = w /\ AfterRows(w) = g[n]
              /\ \A k \in 0..n : k # n =>
                    k + 1 \in 0..n /\ job.rows[k + 1] \in Phone \cup {Invalid} /\ g[k + 1] = WithRow(g[k], job.rows[k + 1])
<1>1. PICK n \in Nat : n = Len(job.rows) /\ \A k \in 1..n : job.rows[k] \in Phone \cup {Invalid}
  <2>1. job.rows \in Seq(Phone \cup {Invalid})
    BY IntakeVariables DEF JobRec
  <2>2. QED
    BY <2>1
<1> DEFINE step == [k \in 1..n |-> [x \in ImportReq |-> WithRow(x, job.rows[k])]]
           Rule(g) == g = [k \in 0..n |-> IF k = 0 THEN w ELSE WithRow(g[k - 1], job.rows[k])]
<1>2. \A k \in 1..n : \A x \in ImportReq : step[k][x] = WithRow(x, job.rows[k])
  OBVIOUS
<1>3. Within(n, ImportReq, step)
  <2>1. \A k \in 1..n : \A x \in ImportReq : WithRow(x, job.rows[k]) \in ImportReq
    BY <1>1, WithRowType
  <2> HIDE DEF step
  <2>2. QED
    BY <1>2, <2>1 DEF Within
<1> HIDE DEF step
<1>4. \E g : Rule(g)
  <2>1. PICK f \in [0..n -> ImportReq] : \A k \in 0..n : f[k] = IF k = 0 THEN w ELSE step[k][f[k - 1]]
    BY <1>3, RecursionBy
  <2>2. ASSUME NEW k \in 0..n, k # 0 PROVE k \in 1..n /\ f[k - 1] \in ImportReq
    <3>1. k - 1 \in 0..n
      BY <2>2
    <3>2. QED
      BY <2>2, <3>1
  <2>3. Rule(f)
    BY <1>2, <2>1, <2>2
  <2>4. QED
    BY <2>3
<1>5. PICK g : Rule(g) /\ AfterRows(w) = g[n]
  <2>1. AfterRows(w) = (CHOOSE g : Rule(g))[n]
    BY <1>1 DEF AfterRows
  <2>2. Rule(CHOOSE g : Rule(g))
    BY <1>4
  <2>3. QED
    BY <2>1, <2>2
<1>6. g[0] = w
  BY <1>5
<1>7. ASSUME NEW k \in 0..n, k # n
      PROVE  k + 1 \in 0..n /\ job.rows[k + 1] \in Phone \cup {Invalid} /\ g[k + 1] = WithRow(g[k], job.rows[k + 1])
  <2>1. k + 1 \in 0..n /\ k + 1 \in 1..n /\ k + 1 # 0 /\ (k + 1) - 1 = k
    BY <1>7
  <2>2. g[k + 1] = WithRow(g[k], job.rows[k + 1])
    BY <1>5, <2>1
  <2>3. QED
    BY <1>1, <2>1, <2>2
<1> HIDE DEF Rule
<1>8. QED
  BY <1>1, <1>5, <1>6, <1>7

LEMMA AfterRowsType ==
    ASSUME TypeInv, NEW w \in ImportReq
    PROVE  AfterRows(w) \in ImportReq
<1>0. PICK n \in Nat : \E g :
          /\ g[0] = w /\ AfterRows(w) = g[n]
          /\ \A k \in 0..n : k # n =>
                k + 1 \in 0..n /\ job.rows[k + 1] \in Phone \cup {Invalid} /\ g[k + 1] = WithRow(g[k], job.rows[k + 1])
  BY AfterRowsSteps
<1>1. PICK g :
          /\ g[0] = w /\ AfterRows(w) = g[n]
          /\ \A k \in 0..n : k # n =>
                k + 1 \in 0..n /\ job.rows[k + 1] \in Phone \cup {Invalid} /\ g[k + 1] = WithRow(g[k], job.rows[k + 1])
  BY <1>0
<1> DEFINE S == {k \in 0..n : g[k] \in ImportReq}
<1>2. 0 \in S
  BY <1>1
<1>3. ASSUME NEW k \in 0..n, k \in S, k # n PROVE k + 1 \in S
  BY <1>1, <1>3, WithRowType
<1> HIDE DEF S
<1>4. n \in S
  BY <1>2, <1>3, Climb
<1>5. QED
  BY <1>1, <1>4 DEF S

LEMMA ImportTyped ==
    ASSUME TypeInv, NEW r \in Request,
           \/ RunImport(r) \/ Parse(r) \/ Unreadable(r) \/ OpenBatch(r) \/ ReadPhones(r)
           \/ ReadRows(r) \/ Insert(r) \/ Inserted(r) \/ InsertFails(r) \/ FinishImport(r)
    PROVE  IntakeStep
<1>1. PICK u : u = req[r]
  OBVIOUS
<1>2. u.op = "import" => u \in ImportReq /\ req[r].op \in IntakeKinds
  BY <1>1, InIntake DEF IntakeKinds
<1>3. \A v \in ImportReq : Sound(v) /\ v.op = "import" /\ LeftInHand(v) /\ v \in IntakeReq
  BY ImportFields DEF Sound, IntakeReq
<1>4. CASE RunImport(r)
  <2>1. PICK v : v = [op |-> "import", next |-> "parse", batch |-> 0, was |-> 0, n |-> 0, seen |-> {},
                      new |-> <<>>, done |-> 0, ok |-> 0, failed |-> 0, dup |-> 0]
    OBVIOUS
  <2>2. v \in ImportReq
    BY <2>1 DEF ImportReq
  <2>3. Start(r, "import", v) /\ UNCHANGED <<arrived, batches, source, counted, mix, crashed>>
        /\ job' = [job EXCEPT !.st = "processing"]
    BY <1>4, <2>1 DEF RunImport
  <2>4. job' \in JobRec
    BY <2>3, IntakeVariables DEF JobRec
  <2>5. IntakeTypes'
    BY <2>3, <2>4 DEF TypeInv, IntakeTypes
  <2>6. QED
    BY <1>3, <2>2, <2>3, <2>5, IntakeBegins
<1>5. CASE Parse(r)
  <2>1. u.op = "import" /\ job' = [job EXCEPT !.total = Len(job.rows)]
        /\ UNCHANGED <<arrived, batches, source, counted, met, started, mix, crashed>>
        /\ req' = [req EXCEPT ![r].next = "open"]
    BY <1>1, <1>5 DEF Parse, At, Goto
  <2>2. PICK n \in Nat : n = Len(job.rows)
    BY IntakeVariables DEF JobRec
  <2>3. job' \in JobRec
    BY <2>1, <2>2, IntakeVariables DEF JobRec
  <2>4. IntakeTypes'
    BY <2>1, <2>3 DEF TypeInv, IntakeTypes
  <2>5. PICK v : v = [u EXCEPT !.next = "open"]
    OBVIOUS
  <2>6. v \in ImportReq
    BY <1>2, <2>1, <2>5 DEF ImportReq
  <2>7. QED
    BY <1>1, <1>2, <1>3, <2>1, <2>4, <2>5, <2>6, IntakeGoesOn DEF Noting
<1>6. CASE Unreadable(r)
  <2>1. u.op = "import" /\ job' = [job EXCEPT !.st = "failed"] /\ Finish(r)
        /\ UNCHANGED <<arrived, batches, source, counted, met, started, mix, crashed>>
    BY <1>1, <1>6 DEF Unreadable, At
  <2>2. job' \in JobRec
    BY <2>1, IntakeVariables DEF JobRec
  <2>3. IntakeTypes'
    BY <2>1, <2>2 DEF TypeInv, IntakeTypes
  <2>4. QED
    BY <1>2, <2>1, <2>3, IntakeEnds DEF Noting
<1>7. CASE OpenBatch(r)
  <2>1. u.op = "import" /\ UNCHANGED <<arrived, job, source, counted, met, started, mix, crashed>>
    BY <1>1, <1>7 DEF OpenBatch, At
  <2>2. batches' \in Seq(BatchRec) /\ Len(batches') \in Nat
    <3>1. [kind |-> "import", total |-> 0] \in BatchRec
      BY DEF BatchRec
    <3>2. QED
      BY <1>7, <3>1, IntakeVariables, AppendRow DEF OpenBatch
  <2>3. PICK n \in Nat : n = Len(batches')
    BY <2>2
  <2>4. PICK v : v = [u EXCEPT !.batch = n, !.next = "phones"]
    OBVIOUS
  <2>5. v \in ImportReq
    BY <1>2, <2>1, <2>4 DEF ImportReq
  <2>6. req' = [req EXCEPT ![r] = v]
    BY <1>1, <1>7, <2>3, <2>4 DEF OpenBatch, Update
  <2>7. IntakeTypes'
    BY <2>1, <2>2 DEF TypeInv, IntakeTypes
  <2>8. QED
    BY <1>2, <1>3, <2>1, <2>5, <2>6, <2>7, IntakeGoesOn DEF Noting
<1>8. CASE ReadPhones(r)
  <2>1. u.op = "import" /\ UNCHANGED <<intakeVars, met, started, mix, crashed>>
    BY <1>1, <1>8 DEF ReadPhones, At
  <2>2. PICK seen \in SUBSET Phone : seen = {p \in Phone : Live(p) # {}}
    OBVIOUS
  <2>3. PICK v : v = [u EXCEPT !.seen = seen, !.next = "rows"]
    OBVIOUS
  <2>4. v \in ImportReq
    BY <1>2, <2>1, <2>3 DEF ImportReq
  <2>5. req' = [req EXCEPT ![r] = v]
    BY <1>1, <1>8, <2>2, <2>3 DEF ReadPhones, Update
  <2>6. QED
    BY <1>2, <1>3, <2>1, <2>4, <2>5, SameIntake, IntakeGoesOn DEF Noting
<1>9. CASE ReadRows(r)
  <2>1. u.op = "import" /\ UNCHANGED <<intakeVars, met, started, mix, crashed>>
    BY <1>1, <1>9 DEF ReadRows, At
  <2>2. PICK w \in ImportReq : w = AfterRows(u)
    BY <1>2, <2>1, AfterRowsType
  <2>3. PICK v : v = Counted(w)
    OBVIOUS
  <2>4. w.op = "import" /\ Looking(w)
    BY <1>3 DEF Looking, Intakes
  <2>5. v \in IntakeReq /\ LeftInHand(v)
    BY <2>3, <2>4, CountedType
  <2>6. req' = [req EXCEPT ![r] = v]
    BY <1>1, <1>9, <2>2, <2>3 DEF ReadRows, Update
  <2>7. QED
    BY <1>2, <2>1, <2>5, <2>6, SameIntake, IntakeGoesOn DEF Noting, Sound
<1>10. CASE Insert(r)
  <2>1. u.op = "import" /\ UNCHANGED <<batches, job, source, counted, met, started, mix, crashed>>
        /\ u.done < Len(u.new)
    BY <1>1, <1>10 DEF Insert, At
  <2>2. PICK upto : upto = IF u.done + Chunk < Len(u.new) THEN u.done + Chunk ELSE Len(u.new)
    OBVIOUS
  <2>3. u.new \in Seq(Phone) /\ u.done \in Nat /\ u.batch \in Nat /\ Len(u.new) \in Nat
    BY <1>2, <2>1 DEF ImportReq
  <2>4. upto \in Nat /\ upto <= Len(u.new)
    BY <2>2, <2>3, IntakeConstants
  <2>5. PICK chunk \in Seq(Phone) : chunk = SubSeq(u.new, u.done + 1, upto)
    <3>1. SubSeq(u.new, u.done + 1, upto) \in Seq(Phone)
      BY <2>3, <2>4
    <3>2. QED
      BY <3>1
  <2>6. PICK rows : rows = [i \in DOMAIN chunk |-> NewLead(chunk[i], u.batch, "file")]
    OBVIOUS
  <2>7. rows \in Seq(Arrival)
    <3>1. \A i \in 1..Len(chunk) : NewLead(chunk[i], u.batch, "file") \in Arrival
      BY <2>3 DEF NewLead, Arrival
    <3>2. rows \in [1..Len(chunk) -> Arrival] /\ Len(chunk) \in Nat
      BY <2>6, <3>1
    <3>3. QED
      BY <3>2, MapRows
  <2>8. arrived' = arrived \o rows /\ req' = [req EXCEPT ![r] = [u EXCEPT !.done = upto]]
    BY <1>1, <1>10, <2>2, <2>5, <2>6 DEF Insert, Update
  <2>9. arrived' \in Seq(Arrival)
    BY <2>7, <2>8, IntakeVariables
  <2>10. IntakeTypes'
    BY <2>1, <2>9 DEF TypeInv, IntakeTypes
  <2>11. PICK v : v = [u EXCEPT !.done = upto]
    OBVIOUS
  <2>12. v \in ImportReq
    BY <1>2, <2>1, <2>4, <2>11 DEF ImportReq
  <2>13. QED
    BY <1>2, <1>3, <2>1, <2>8, <2>10, <2>11, <2>12, IntakeGoesOn DEF Noting
<1>11. u.op = "import" => Len(u.new) \in Nat
  BY <1>2 DEF ImportReq
<1>12. CASE Inserted(r)
  <2>1. u.op = "import" /\ UNCHANGED <<arrived, batches, job, source, met, started, mix, crashed>>
        /\ counted' = Nudged(Len(u.new))
    BY <1>1, <1>12 DEF Inserted, At
  <2>2. counted' \in Nat
    BY <1>11, <2>1, IntakeConstants, IntakeVariables DEF Nudged, NoCount
  <2>3. IntakeTypes'
    BY <2>1, <2>2 DEF TypeInv, IntakeTypes
  <2>4. PICK n \in Nat : n = u.ok + Len(u.new)
    BY <1>2, <1>11, <2>1 DEF ImportReq
  <2>5. PICK v : v = [u EXCEPT !.ok = n, !.next = "recount"]
    OBVIOUS
  <2>6. v \in ImportReq
    BY <1>2, <2>1, <2>5 DEF ImportReq
  <2>7. req' = [req EXCEPT ![r] = [u EXCEPT !.ok = @ + Len(u.new), !.next = "recount"]]
    BY <1>1, <1>12 DEF Inserted, Update
  <2>8. [u EXCEPT !.ok = @ + Len(u.new), !.next = "recount"] = v
    BY <1>2, <2>1, <2>4, <2>5 DEF ImportReq
  <2>9. QED
    BY <1>2, <1>3, <2>1, <2>3, <2>6, <2>7, <2>8, IntakeGoesOn DEF Noting
<1>13. CASE InsertFails(r)
  <2>1. u.op = "import" /\ UNCHANGED <<intakeVars, started, mix, crashed>> /\ Noting
    BY <1>1, <1>13 DEF InsertFails, At, Noting, Ops
  <2>2. PICK n \in Nat : n = u.failed + Len(u.new)
    BY <1>2, <1>11, <2>1 DEF ImportReq
  <2>3. PICK v : v = [u EXCEPT !.failed = n, !.next = "recount"]
    OBVIOUS
  <2>4. v \in ImportReq
    BY <1>2, <2>1, <2>3 DEF ImportReq
  <2>5. req' = [req EXCEPT ![r] = [u EXCEPT !.failed = @ + Len(u.new), !.next = "recount"]]
    BY <1>1, <1>13 DEF InsertFails, Update
  <2>6. [u EXCEPT !.failed = @ + Len(u.new), !.next = "recount"] = v
    BY <1>2, <2>1, <2>2, <2>3 DEF ImportReq
  <2>7. QED
    BY <1>2, <1>3, <2>1, <2>4, <2>5, <2>6, SameIntake, IntakeGoesOn
<1>14. CASE FinishImport(r)
  <2>1. u.op = "import" /\ Finish(r) /\ UNCHANGED <<arrived, batches, source, counted, met, started, mix, crashed>>
    BY <1>1, <1>14 DEF FinishImport, At
  <2>2. PICK st \in {"completed", "partial", "failed"} :
            st = IF u.failed = 0 THEN "completed" ELSE IF u.ok > 0 THEN "partial" ELSE "failed"
    OBVIOUS
  <2>3. job' = [job EXCEPT !.ok = u.ok, !.failed = u.failed, !.dup = u.dup, !.st = st]
    BY <1>1, <1>14, <2>2 DEF FinishImport
  <2>4. job' \in JobRec
    BY <1>2, <2>1, <2>3, IntakeVariables DEF JobRec, ImportReq
  <2>5. IntakeTypes'
    BY <2>1, <2>4 DEF TypeInv, IntakeTypes
  <2>6. QED
    BY <1>2, <2>1, <2>5, IntakeEnds DEF Noting
<1>15. QED
  BY <1>4, <1>5, <1>6, <1>7, <1>8, <1>9, <1>10, <1>12, <1>13, <1>14

LEMMA IntakeTyped ==
    ASSUME TypeInv, IntakeNext
    PROVE  IntakeStep
<1>1. ASSUME NEW b \in DOMAIN batches, DropBatch(b) PROVE IntakeStep
  <2>1. arrived \in [1..Len(arrived) -> Arrival] /\ Len(arrived) \in Nat /\ DOMAIN arrived = 1..Len(arrived)
    BY IntakeVariables
  <2>2. \A i \in DOMAIN arrived : [arrived[i] EXCEPT !.batch = 0] \in Arrival
    BY <2>1 DEF Arrival
  <2>3. arrived' \in [1..Len(arrived) -> Arrival]
    BY <1>1, <2>1, <2>2 DEF DropBatch
  <2>4. arrived' \in Seq(Arrival)
    BY <2>1, <2>3, MapRows
  <2>5. [kind |-> "none", total |-> 0] \in BatchRec
    BY DEF BatchRec
  <2>6. batches' \in Seq(BatchRec)
    BY <1>1, <2>5, IntakeVariables, ChangeRow DEF DropBatch
  <2>7. Happens("drop") /\ UNCHANGED <<job, source, counted, req, mix, crashed>> /\ "drop" \in Ops
    BY <1>1 DEF DropBatch, Ops
  <2>8. RequestTypes' /\ met \subseteq met'
    BY <2>7, HappensTypes DEF TypeInv
  <2>9. IntakeTypes'
    BY <2>4, <2>6, <2>7 DEF TypeInv, IntakeTypes
  <2>10. QED
    BY <2>7, <2>8, <2>9, IntakeAtOnce
<1>2. ASSUME NEW file \in Files, NEW rule \in {"skip", "update", "create_new"}, UploadFile(file, rule) PROVE IntakeStep
  <2>1. UNCHANGED <<arrived, batches, source, counted, req, met, started, mix, crashed>>
        /\ job' = [NoJob EXCEPT !.st = "pending", !.rows = file, !.rule = rule]
    BY <1>2 DEF UploadFile
  <2>2. job' \in JobRec
    BY <2>1, IntakeConstants DEF JobRec, NoJob
  <2>3. IntakeTypes' /\ RequestTypes'
    BY <2>1, <2>2 DEF TypeInv, IntakeTypes, RequestTypes
  <2>4. QED
    BY <2>1, <2>3, IntakeAtOnce
<1>3. CASE Expires
  <2>1. UNCHANGED <<arrived, batches, job, source, req, met, started, mix, crashed>> /\ counted' \in Nat
    BY <1>3, IntakeConstants DEF Expires, NoCount
  <2>2. IntakeTypes' /\ RequestTypes'
    BY <2>1 DEF TypeInv, IntakeTypes, RequestTypes
  <2>3. QED
    BY <2>1, <2>2, IntakeAtOnce
<1>4. ASSUME NEW r \in Request, CacheCount(r) PROVE IntakeStep
  BY <1>4, CacheTyped
<1>5. QED
  BY <1>1, <1>2, <1>3, <1>4, HooksTyped, RowsTyped, ImportTyped DEF IntakeNext

-----------------------------------------------------------------------------
(* Every step keeps the types.                                              *)

DeskFrame == UNCHANGED <<presenceVars, transcriptionVars, intakeVars>>
PresenceFrames == UNCHANGED <<lead, call, followup, queue, clock, transcriptionVars, intakeVars>>
RecordingFrames == UNCHANGED <<lead, call, followup, queue, clock, presenceVars, intakeVars>>
IntakeFrames == UNCHANGED <<lead, call, followup, queue, clock, presenceVars, transcriptionVars>>

LEMMA Unmoved ==
    ASSUME TypeInv
    PROVE  /\ UNCHANGED <<lead, call, followup, queue, clock>> => DeskTypes'
           /\ UNCHANGED presenceVars => PresenceTypes'
           /\ UNCHANGED transcriptionVars => RecordingTypes'
           /\ UNCHANGED intakeVars => IntakeTypes'
<1>1. UNCHANGED <<lead, call, followup, queue, clock>> => DeskTypes'
  BY DEF TypeInv, DeskTypes
<1>2. UNCHANGED presenceVars => PresenceTypes'
  BY DEF TypeInv, presenceVars, PresenceTypes
<1>3. UNCHANGED transcriptionVars => RecordingTypes'
  BY DEF TypeInv, transcriptionVars, RecordingTypes
<1>4. QED
  BY <1>1, <1>2, <1>3, SameIntake

LEMMA TypesStay ==
    ASSUME TypeInv, Next
    PROVE  TypeInv'
<1>0. \A r \in Request : LeftInHand(req[r])
  BY DEF TypeInv
<1>1. CASE DeskNext /\ DeskFrame
  <2>1. DeskTypes' /\ ClicksHold' /\ RequestTypes'
    BY <1>1, DeskTyped DEF DeskStep
  <2>2. PresenceTypes' /\ RecordingTypes' /\ IntakeTypes' /\ UNCHANGED <<recording, jobs, made>>
    BY <1>1, Unmoved DEF DeskFrame, transcriptionVars
  <2>3. AudioHolds' /\ \A r \in Request : LeftInHand(req[r])'
    <3>1. CASE Only(DeskKinds)
      <4>1. PICK kinds : kinds = DeskKinds
        OBVIOUS
      <4>2. kinds \cap RecordingKinds = {} /\ kinds \cap IntakeKinds = {} /\ Only(kinds)
        BY <3>1, <4>1 DEF DeskKinds, DeskOps, RecordingKinds, IntakeKinds
      <4>3. AudioHolds'
        BY <2>2, <4>2, KeepAudio DEF TypeInv
      <4>4. \A r \in Request : LeftInHand(req[r])'
        BY <1>0, <4>2, KeepLeft
      <4>5. QED
        BY <4>3, <4>4
    <3>2. CASE \E r \in Request : Becomes(r, Idle) /\ met' = met /\ crashed'
      <4>1. PICK r \in Request : Becomes(r, Idle)
        BY <3>2
      <4>2. \A q \in Request : req'[q] = req[q] \/ req'[q] = Idle
        BY <4>1 DEF Becomes
      <4>3. Idle.op = "idle"
        BY DEF Idle
      <4>4. AudioHolds'
        BY <2>2, <4>2, <4>3 DEF TypeInv, AudioHolds
      <4>5. \A q \in Request : LeftInHand(req[q])'
        BY <1>0, <4>2, <4>3 DEF LeftInHand, Intakes
      <4>6. QED
        BY <4>4, <4>5
    <3>3. QED
      BY <1>1, <3>1, <3>2, DeskTyped
  <2>4. QED
    BY <2>1, <2>2, <2>3 DEF TypeInv
<1>2. CASE PresenceNext /\ PresenceFrames
  <2>1. PresenceTypes' /\ RequestTypes' /\ Only(PresenceKinds)
    BY <1>2, PresenceTyped
  <2>2. DeskTypes' /\ RecordingTypes' /\ IntakeTypes' /\ UNCHANGED <<call, recording, jobs, made>>
    BY <1>2, Unmoved DEF PresenceFrames, transcriptionVars
  <2>3. PICK kinds : kinds = PresenceKinds
    OBVIOUS
  <2>4. "click" \notin kinds /\ kinds \cap RecordingKinds = {} /\ kinds \cap IntakeKinds = {} /\ Only(kinds)
    BY <2>1, <2>3 DEF PresenceKinds, RecordingKinds, IntakeKinds
  <2>5. ClicksHold' /\ AudioHolds'
    BY <2>2, <2>4, KeepClicks, KeepAudio DEF TypeInv
  <2>6. \A r \in Request : LeftInHand(req[r])'
    BY <1>0, <2>4, KeepLeft
  <2>7. QED
    BY <2>1, <2>2, <2>5, <2>6 DEF TypeInv
<1>3. CASE TranscriptionNext /\ RecordingFrames
  <2>1. RecordingTypes' /\ AudioHolds' /\ RequestTypes' /\ Only(RecordingKinds)
    BY <1>3, RecordingTyped DEF RecordingStep
  <2>2. DeskTypes' /\ PresenceTypes' /\ IntakeTypes' /\ UNCHANGED call
    BY <1>3, Unmoved DEF RecordingFrames
  <2>3. PICK kinds : kinds = RecordingKinds
    OBVIOUS
  <2>4. "click" \notin kinds /\ kinds \cap IntakeKinds = {} /\ Only(kinds)
    BY <2>1, <2>3 DEF RecordingKinds, IntakeKinds
  <2>5. ClicksHold'
    BY <2>2, <2>4, KeepClicks DEF TypeInv
  <2>6. \A r \in Request : LeftInHand(req[r])'
    BY <1>0, <2>4, KeepLeft
  <2>7. QED
    BY <2>1, <2>2, <2>5, <2>6 DEF TypeInv
<1>4. CASE IntakeNext /\ IntakeFrames
  <2>1. IntakeTypes' /\ RequestTypes' /\ (\A r \in Request : LeftInHand(req[r])') /\ Only(IntakeKinds)
    BY <1>4, IntakeTyped DEF IntakeStep
  <2>2. DeskTypes' /\ PresenceTypes' /\ RecordingTypes' /\ UNCHANGED <<call, recording, jobs, made>>
    BY <1>4, Unmoved DEF IntakeFrames, transcriptionVars
  <2>3. PICK kinds : kinds = IntakeKinds
    OBVIOUS
  <2>4. "click" \notin kinds /\ kinds \cap RecordingKinds = {} /\ Only(kinds)
    BY <2>1, <2>3 DEF RecordingKinds, IntakeKinds
  <2>5. ClicksHold' /\ AudioHolds'
    BY <2>2, <2>4, KeepClicks, KeepAudio DEF TypeInv
  <2>6. QED
    BY <2>1, <2>2, <2>5 DEF TypeInv
<1>5. QED
  BY <1>1, <1>2, <1>3, <1>4 DEF Next, DeskFrame, PresenceFrames, RecordingFrames, IntakeFrames

LEMMA Stutter ==
    ASSUME TypeInv, UNCHANGED vars
    PROVE  TypeInv'
<1> USE DEF vars
<1>1. DeskTypes' /\ PresenceTypes' /\ RecordingTypes' /\ IntakeTypes'
  BY DEF TypeInv, DeskTypes, PresenceTypes, RecordingTypes, IntakeTypes
<1>2. RequestTypes' /\ ClicksHold' /\ AudioHolds'
  BY DEF TypeInv, RequestTypes, ClicksHold, AudioHolds
<1>3. \A r \in Request : LeftInHand(req[r])'
  BY DEF TypeInv, LeftInHand
<1>4. QED
  BY <1>1, <1>2, <1>3 DEF TypeInv

LEMMA Begins ==
    ASSUME Init
    PROVE  TypeInv /\ (\A r \in Request : req[r] = Idle) /\ met = {} /\ crashed = FALSE
<1>1. (\A r \in Request : req[r] = Idle) /\ met = {} /\ crashed = FALSE /\ started = 0 /\ mix \in Mixes
  BY DEF Init
<1>2. Idle.op = "idle"
  BY DEF Idle
<1>3. DeskTypes
  <2>1. \A o \in Owner : [FreshLead EXCEPT !.owner = o] \in LeadRec
    BY DEF FreshLead, LeadRec, Status, Stage, Owner
  <2>2. lead \in [Lead -> LeadRec]
    BY <2>1 DEF Init, DeskInit
  <2>3. call \in [Call -> CallRec] /\ followup \in [FollowUp -> FollowRec]
    BY DEF Init, DeskInit, CallRec, FollowRec
  <2>4. queue \in [on : BOOLEAN, fresh : BOOLEAN] /\ clock \in Nat \ {0}
    <3>1. queue \in [on : {TRUE}, fresh : BOOLEAN] /\ clock = 1
      BY DEF Init, DeskInit
    <3>2. PICK on \in BOOLEAN : on = TRUE
      OBVIOUS
    <3>3. queue \in [on : {on}, fresh : BOOLEAN]
      BY <3>1, <3>2
    <3>4. QED
      BY <3>1, <3>3
  <2>5. QED
    BY <2>2, <2>3, <2>4 DEF DeskTypes
<1>4. PresenceTypes
  <2>1. NotYet \in PresenceRec
    BY DEF NotYet, PresenceRec, WorkStatus
  <2>2. QED
    BY <2>1 DEF Init, PresenceInit, PresenceTypes
<1>5. RecordingTypes /\ AudioHolds
  <2>1. jobs = [t \in Task |-> 0]
    BY DEF Init, TranscriptionInit
  <2>2. CASE recording = NoRecording /\ insight = NoInsight /\ made = [audio |-> 0, insight |-> 0, texts |-> <<>>]
    BY <1>1, <1>2, <2>1, <2>2
       DEF RecordingTypes, RecordingRec, InsightRec, NoRecording, NoInsight, AudioHolds
  <2>3. CASE /\ recording = [audio |-> 1, rank |-> 0, text |-> 1, st |-> "done"]
             /\ insight = [id |-> 1, st |-> "done", of |-> 1]
             /\ made = [audio |-> 1, insight |-> 1, texts |-> <<1>>]
    <3>1. <<1>> \in Seq(Nat) /\ <<1>> \in Seq(1..1)
      OBVIOUS
    <3>2. QED
      BY <1>1, <1>2, <2>1, <2>3, <3>1 DEF RecordingTypes, RecordingRec, InsightRec, AudioHolds
  <2>4. QED
    BY <2>2, <2>3 DEF Init, TranscriptionInit
<1>6. IntakeTypes
  <2>1. job \in JobRec
    BY DEF Init, IntakeInit, NoJob, JobRec
  <2>2. counted \in Nat
    BY IntakeConstants DEF Init, IntakeInit, NoCount
  <2>3. source \in SourceRec
    <3>1. PICK on \in BOOLEAN : on = TRUE
      OBVIOUS
    <3>2. \E rule \in {"skip", "create_new"}, n \in {0, 1} :
              source = [on |-> on, st |-> "active", rule |-> rule, received |-> n]
      BY <3>1 DEF Init, IntakeInit
    <3>3. QED
      BY <3>2 DEF SourceRec
  <2>4. arrived \in Seq(Arrival) /\ batches \in Seq(BatchRec)
    <3>1. CASE arrived = <<>> /\ batches = <<>>
      BY <3>1
    <3>2. CASE \E p \in Phone : arrived = <<NewLead(p, 1, "hook")>> /\ batches = <<[kind |-> "webhook", total |-> 1]>>
      <4>1. PICK p \in Phone : arrived = <<NewLead(p, 1, "hook")>> /\ batches = <<[kind |-> "webhook", total |-> 1]>>
        BY <3>2
      <4>2. NewLead(p, 1, "hook") \in Arrival /\ [kind |-> "webhook", total |-> 1] \in BatchRec
        BY DEF NewLead, Arrival, BatchRec
      <4>3. QED
        BY <4>1, <4>2
    <3>3. QED
      BY <3>1, <3>2 DEF Init, IntakeInit
  <2>5. QED
    BY <2>1, <2>2, <2>3, <2>4 DEF IntakeTypes
<1>7. RequestTypes
  <2>1. Idle \in AnyReq
    BY DEF Idle, AnyReq, IdleReq
  <2>2. req = [r \in Request |-> Idle]
    BY DEF Init
  <2>3. QED
    BY <1>1, <2>1, <2>2 DEF RequestTypes
<1>8. ClicksHold /\ \A r \in Request : LeftInHand(req[r])
  BY <1>1, <1>2 DEF ClicksHold, LeftInHand, Intakes
<1>9. QED
  BY <1>1, <1>3, <1>4, <1>5, <1>6, <1>7, <1>8 DEF TypeInv

LEMMA TypesAreOK == TypeInv => TypeOK
<1> SUFFICES ASSUME TypeInv PROVE TypeOK
  OBVIOUS
<1>1. \A a \in Staff : \A i \in DOMAIN open[a] : open[a][i] \in Interval
  BY DEF TypeInv, PresenceTypes
<1>2. \A i \in DOMAIN made.texts : made.texts[i] \in 1..made.audio
  <2>1. PICK texts, T : texts = made.texts /\ T = 1..made.audio
    OBVIOUS
  <2>2. texts \in Seq(T)
    BY <2>1 DEF TypeInv, AudioHolds
  <2>3. \A i \in DOMAIN texts : texts[i] \in T
    BY <2>2
  <2>4. QED
    BY <2>1, <2>3
<1>3. \A r \in Request : req[r].op \in Ops
  BY KindOf, KindsAreOps DEF TypeInv, RequestTypes
<1>4. QED
  BY <1>1, <1>2, <1>3 DEF TypeOK, TypeInv, DeskTypes, PresenceTypes, RecordingTypes, IntakeTypes, RequestTypes

\* The types of the desk, of its agents' presence, of the recording and of
\* the intake, and of what every request in progress holds of them.
THEOREM TypeInvariant == Spec => []TypeInv
<1>1. Init => TypeInv
  BY Begins
<1>2. TypeInv /\ [Next]_vars => TypeInv'
  BY TypesStay, Stutter
<1>3. QED
  BY <1>1, <1>2, PTL DEF Spec

\* Every variable keeps the type its declaration names.
THEOREM TypeCorrect == Spec => []TypeOK
BY TypeInvariant, TypesAreOK, PTL

-----------------------------------------------------------------------------
(* The intake.  What a request becomes by what it finds: a number known, the *)
(* cap reached.                                                              *)

LEMMA NextLeadDoes ==
    ASSUME NEW w \in HookReq, NEW more \in {0, 1}, w.left # <<>>, NEW v, v = NextLead(w, more)
    PROVE  /\ v \in HookReq /\ v.op = w.op /\ v.copy = w.copy /\ v.made = w.made + more /\ v.batch = 0
           /\ v.next \in {"config", "look"}
<1>1. v \in HookReq
  BY NextLeadType
<1>2. PICK left, next : left = Tail(w.left) /\ next = IF Len(w.left) = 1 THEN "config" ELSE "look"
  OBVIOUS
<1>3. v = [w EXCEPT !.left = left, !.made = @ + more, !.batch = 0, !.next = next]
  BY <1>2 DEF NextLead
<1>4. v.op = w.op /\ v.copy = w.copy /\ v.made = w.made + more /\ v.batch = 0 /\ v.next = next
  BY <1>3 DEF HookReq
<1>5. QED
  BY <1>1, <1>2, <1>4

\* What stays of a delivery or sync, of the form, of an import.
HookStays(w, v) == v \in HookReq /\ v.op = w.op /\ v.copy = w.copy /\ v.made = w.made /\ v.batch \in {w.batch, 0}
HandStays(w, v) == v.op = "hand" /\ v.left = w.left /\ v.batch = w.batch
FileStays(w, v) ==
    /\ v \in ImportReq /\ v.op = "import" /\ v.batch = w.batch /\ v.was = w.was /\ v.seen = w.seen /\ v.done = w.done
    /\ v.ok = w.ok /\ v.dup = w.dup
HookAllowed(w, v, n) ==
    /\ HookStays(w, v) /\ v.next \in {"batch", "config", "look", "error"}
    /\ v.next = "batch" => n < MaxLeads /\ v.left = w.left
FileAllowed(w, v, n) ==
    /\ FileStays(w, v) /\ v.next \in {"recount", "bulk"}
    /\ \E most \in 0..Len(w.new) :
          /\ v.new = SubSeq(w.new, 1, most) /\ v.failed = w.failed + (Len(w.new) - most)
          /\ v.next = "recount" <=> most = 0
          /\ most # 0 => n + most <= MaxLeads

\* A lead that fails.
LEMMA HookFails ==
    ASSUME NEW w \in HookReq, w.left # <<>>, NEW v, v = Fails(w)
    PROVE  HookStays(w, v) /\ v.next \in {"config", "look", "error"}
<1>1. CASE v = [w EXCEPT !.next = "error"]
  BY <1>1 DEF HookStays, HookReq
<1>2. CASE v = NextLead(w, 0)
  <2>1. PICK more \in {0, 1} : more = 0
    OBVIOUS
  <2>2. v \in HookReq /\ v.op = w.op /\ v.copy = w.copy /\ v.made = w.made + more /\ v.batch = 0 /\ v.next \in {"config", "look"}
    BY <1>2, <2>1, NextLeadDoes
  <2>3. v.made = w.made
    BY <2>1, <2>2 DEF HookReq
  <2>4. QED
    BY <2>2, <2>3 DEF HookStays
<1>3. QED
  BY <1>1, <1>2 DEF Fails

\* What the cap leaves.
LEMMA CapLeaves ==
    ASSUME NEW n \in Nat
    PROVE  \E allowance \in Nat : /\ allowance = (IF n < MaxLeads THEN MaxLeads - n ELSE 0)
                                  /\ allowance # 0 => n < MaxLeads /\ n + allowance = MaxLeads
<1>1. MaxLeads \in Nat
  BY IntakeConstants
<1>2. PICK a : a = IF n < MaxLeads THEN MaxLeads - n ELSE 0
  OBVIOUS
<1>3. a \in Nat /\ (a # 0 => n < MaxLeads /\ n + a = MaxLeads)
  BY <1>1, <1>2
<1>4. QED
  BY <1>2, <1>3

LEMMA HookAdmitted ==
    ASSUME NEW w \in HookReq, w.left # <<>>, NEW n \in Nat, NEW v, v = Admitted(w, n)
    PROVE  HookAllowed(w, v, n)
<1>1. MaxLeads \in Nat
  BY IntakeConstants
<1>2. PICK allowance \in Nat : /\ allowance = (IF n < MaxLeads THEN MaxLeads - n ELSE 0)
                               /\ allowance # 0 => n < MaxLeads /\ n + allowance = MaxLeads
  BY CapLeaves
<1>3. w.op \in Intakes /\ w.op \in {"hook", "sync"}
  BY DEF HookReq, Intakes
<1>4. \/ allowance > 0 /\ v = [w EXCEPT !.next = "batch"]
      \/ v = [w EXCEPT !.next = "config"] \/ v = Fails(w)
  <2>1. allowance > 0 \/ allowance = 0
    BY <1>2
  <2>2. QED
    BY <1>2, <1>3, <2>1 DEF Admitted
<1>5. CASE v = Fails(w)
  BY <1>5, HookFails DEF HookAllowed
<1>6. ASSUME NEW next \in {"batch", "config"}, v = [w EXCEPT !.next = next], next = "batch" => n < MaxLeads
      PROVE  HookAllowed(w, v, n)
  BY <1>6 DEF HookAllowed, HookStays, HookReq
<1>7. QED
  BY <1>2, <1>4, <1>5, <1>6

LEMMA HandAdmitted ==
    ASSUME NEW w \in HandFields, NEW n \in Nat, NEW v, v = Admitted(w, n)
    PROVE  HandStays(w, v) /\ v.next \in {"create", "end"} /\ (v.next = "create" => n < MaxLeads)
<1>1. MaxLeads \in Nat
  BY IntakeConstants
<1>2. PICK allowance \in Nat : /\ allowance = (IF n < MaxLeads THEN MaxLeads - n ELSE 0)
                               /\ allowance # 0 => n < MaxLeads /\ n + allowance = MaxLeads
  BY CapLeaves
<1>3. w.op = "hand"
  BY DEF HandFields
<1>4. PICK next \in {"create", "end"} : next = IF allowance > 0 THEN "create" ELSE "end"
  OBVIOUS
<1>5. v = [w EXCEPT !.next = next]
  BY <1>2, <1>3, <1>4 DEF Admitted, Intakes
<1>6. QED
  BY <1>2, <1>3, <1>4, <1>5 DEF HandStays, HandFields

LEMMA FileAdmitted ==
    ASSUME NEW w \in ImportReq, NEW n \in Nat, NEW v, v = Admitted(w, n)
    PROVE  FileAllowed(w, v, n)
<1>1. MaxLeads \in Nat
  BY IntakeConstants
<1>2. PICK allowance \in Nat : /\ allowance = (IF n < MaxLeads THEN MaxLeads - n ELSE 0)
                               /\ allowance # 0 => n < MaxLeads /\ n + allowance = MaxLeads
  BY CapLeaves
<1>3. w.op = "import" /\ w.new \in Seq(Phone) /\ w.failed \in Nat /\ Len(w.new) \in Nat
  BY ImportFields
<1>4. PICK most : most = IF Len(w.new) < allowance THEN Len(w.new) ELSE allowance
  OBVIOUS
<1>5. most \in 0..Len(w.new) /\ (most # 0 => n + most <= MaxLeads)
  BY <1>1, <1>2, <1>3, <1>4
<1>6. PICK new : new = SubSeq(w.new, 1, most)
  OBVIOUS
<1>7. new \in Seq(Phone)
  BY <1>3, <1>5, <1>6, SubSeqType
<1>8. PICK failed \in Nat : failed = w.failed + (Len(w.new) - most)
  BY <1>3, <1>5
<1>9. PICK next \in {"recount", "bulk"} : next = IF most = 0 THEN "recount" ELSE "bulk"
  OBVIOUS
<1>10. v = [w EXCEPT !.new = new, !.failed = failed, !.next = next]
  <2>1. Admitted(w, n) = [w EXCEPT !.new = SubSeq(@, 1, most), !.failed = @ + (Len(w.new) - most), !.next = next]
    BY <1>2, <1>3, <1>4, <1>9 DEF Admitted, Intakes
  <2>2. [w EXCEPT !.new = SubSeq(@, 1, most), !.failed = @ + (Len(w.new) - most), !.next = next]
          = [w EXCEPT !.new = new, !.failed = failed, !.next = next]
    BY <1>6, <1>8 DEF ImportReq
  <2>3. QED
    BY <2>1, <2>2
<1>11. FileStays(w, v) /\ v.new = new /\ v.failed = failed /\ v.next = next
  BY <1>7, <1>10 DEF ImportReq, FileStays
<1>12. QED
  BY <1>5, <1>6, <1>8, <1>9, <1>11 DEF FileAllowed

\* The count is taken from the cache, or the rows are counted.
HookDecided(w, v) ==
    \/ HookStays(w, v) /\ v.next = "cache" /\ v.left = w.left /\ v.n = LiveLeads
    \/ counted # NoCount /\ HookAllowed(w, v, counted)
FileDecided(w, v) ==
    \/ FileStays(w, v) /\ v.next = "cache" /\ v.new = w.new /\ v.failed = w.failed /\ v.n = LiveLeads
    \/ counted # NoCount /\ FileAllowed(w, v, counted)

LEMMA HookCounted ==
    ASSUME TypeInv, NEW w \in HookReq, w.left # <<>>, NEW v, v = Counted(w)
    PROVE  HookDecided(w, v)
<1>1. PICK n \in Nat : n = LiveLeads
  BY CountsAreNumbers
<1>2. CASE counted # NoCount
  BY <1>2, HookAdmitted, IntakeVariables DEF HookDecided, Counted
<1>3. CASE counted = NoCount
  <2>1. v = [w EXCEPT !.n = n, !.next = "cache"]
    BY <1>1, <1>3 DEF Counted
  <2>2. QED
    BY <1>1, <2>1 DEF HookDecided, HookStays, HookReq
<1>4. QED
  BY <1>2, <1>3

LEMMA FileCounted ==
    ASSUME TypeInv, NEW w \in ImportReq, NEW v, v = Counted(w)
    PROVE  FileDecided(w, v)
<1>1. PICK n \in Nat : n = LiveLeads
  BY CountsAreNumbers
<1>2. CASE counted # NoCount
  BY <1>2, FileAdmitted, IntakeVariables DEF FileDecided, Counted
<1>3. CASE counted = NoCount
  <2>1. v = [w EXCEPT !.n = n, !.next = "cache"]
    BY <1>1, <1>3 DEF Counted
  <2>2. QED
    BY <1>1, <2>1 DEF FileDecided, FileStays, ImportReq
<1>4. QED
  BY <1>2, <1>3

LEMMA HandCounted ==
    ASSUME TypeInv, NEW w \in HandFields, NEW v, v = Counted(w)
    PROVE  /\ HandStays(w, v) /\ v.next \in {"cache", "create", "end"}
           /\ v.next = "cache" => v.n = LiveLeads
           /\ v.next = "create" => counted # NoCount /\ counted < MaxLeads
<1>1. PICK n \in Nat : n = LiveLeads
  BY CountsAreNumbers
<1>2. CASE counted # NoCount
  BY <1>2, HandAdmitted, IntakeVariables DEF Counted
<1>3. CASE counted = NoCount
  <2>1. v = [w EXCEPT !.n = n, !.next = "cache"]
    BY <1>1, <1>3 DEF Counted
  <2>2. QED
    BY <1>1, <2>1 DEF HandStays, HandFields
<1>4. QED
  BY <1>2, <1>3

\* A number is looked up: known and left out, or the count decides.
LookedUpTo(w, v) ==
    /\ HookStays(w, v)
    /\ HookDecided(w, v) \/ v.next \in {"config", "look"}
    /\ v.next \in {"cache", "batch"} /\ w.copy.rule = "skip" => v.left = w.left /\ Live(Head(w.left)) = {}

LEMMA HookLookedUp ==
    ASSUME TypeInv, NEW w \in HookReq, w.left # <<>>, w.copy.rule \in {"skip", "create_new"}, NEW v, v = LookedUp(w)
    PROVE  LookedUpTo(w, v)
<1>1. CASE v = NextLead(w, 0)
  <2>1. PICK more \in {0, 1} : more = 0
    OBVIOUS
  <2>2. v \in HookReq /\ v.op = w.op /\ v.copy = w.copy /\ v.made = w.made + more /\ v.batch = 0 /\ v.next \in {"config", "look"}
    BY <1>1, <2>1, NextLeadDoes
  <2>3. v.made = w.made
    BY <2>1, <2>2 DEF HookReq
  <2>4. QED
    BY <2>2, <2>3 DEF HookStays, LookedUpTo
<1>2. CASE v = Counted(w) /\ (w.copy.rule = "skip" => Live(Head(w.left)) = {})
  <2>1. HookDecided(w, v)
    BY <1>2, HookCounted
  <2>2. QED
    BY <1>2, <2>1 DEF HookDecided, HookAllowed, LookedUpTo
<1>3. QED
  BY <1>1, <1>2 DEF LookedUp

-----------------------------------------------------------------------------
(* Leads that came, and what is counted of them.                            *)

From(how) == Cardinality({i \in DOMAIN arrived : arrived[i].from = how})

\* k rows are added at the end, of batch b, come from how.
Grown(k, b, how) ==
    /\ DOMAIN arrived' = 1..(Len(arrived) + k)
    /\ \A i \in DOMAIN arrived : arrived'[i] = arrived[i]
    /\ \A i \in (Len(arrived) + 1)..(Len(arrived) + k) :
          arrived'[i].live /\ arrived'[i].batch = b /\ arrived'[i].from = how
\* Rows stay, with where they came from.
RowsStay ==
    /\ DOMAIN arrived' = DOMAIN arrived
    /\ \A i \in DOMAIN arrived : arrived'[i].from = arrived[i].from
\* And with their numbers.
PhonesStay == \A i \in DOMAIN arrived : arrived'[i].phone = arrived[i].phone

LEMMA Rows == ASSUME TypeInv PROVE arrived \in Seq(Arrival) /\ Len(arrived) \in Nat /\ DOMAIN arrived = 1..Len(arrived)
BY IntakeVariables

LEMMA CountGrows ==
    ASSUME NEW m \in Nat, NEW k \in Nat, NEW S \in SUBSET (1..m), NEW T, T = S \cup ((m + 1)..(m + k))
    PROVE  Cardinality(T) = Cardinality(S) + k
<1>1. IsFiniteSet(1..m) /\ IsFiniteSet((m + 1)..(m + k))
  BY FS_Interval
<1>2. IsFiniteSet(S) /\ Cardinality(S) \in Nat
  BY <1>1, SubsetCount
<1>3. Cardinality((m + 1)..(m + k)) = k
  <2>1. m + 1 \in Int /\ m + k \in Int
    OBVIOUS
  <2>2. Cardinality((m + 1)..(m + k)) = IF m + 1 > m + k THEN 0 ELSE (m + k) - (m + 1) + 1
    BY <2>1, FS_Interval
  <2>3. QED
    BY <2>2
<1>4. S \cap ((m + 1)..(m + k)) = {}
  OBVIOUS
<1>5. Cardinality(T) = Cardinality(S) + Cardinality((m + 1)..(m + k)) - Cardinality(S \cap ((m + 1)..(m + k)))
  BY <1>1, <1>2, FS_Union
<1>6. Cardinality(S \cap ((m + 1)..(m + k))) = 0
  BY <1>4, FS_EmptySet
<1>7. Cardinality(T) = Cardinality(S) + k - 0
  BY <1>3, <1>5, <1>6
<1>8. QED
  BY <1>2, <1>7

LEMMA FewerCounted ==
    ASSUME NEW m \in Nat, NEW S \in SUBSET (1..m), NEW T \in SUBSET S
    PROVE  Cardinality(T) <= Cardinality(S)
<1>1. IsFiniteSet(1..m)
  BY FS_Interval
<1>2. IsFiniteSet(S)
  BY <1>1, SubsetCount
<1>3. QED
  BY <1>2, FS_Subset

LEMMA CountsAreNat == ASSUME TypeInv, NEW how, NEW b PROVE LiveLeads \in Nat /\ From(how) \in Nat /\ InBatch(b) \in Nat
<1>1. {i \in DOMAIN arrived : arrived[i].from = how} \in SUBSET DOMAIN arrived
  OBVIOUS
<1>2. QED
  BY <1>1, Rows, RowsFinite, CountsAreNumbers DEF From

LEMMA GrownCounts ==
    ASSUME TypeInv, NEW k \in Nat, NEW b, NEW how, Grown(k, b, how)
    PROVE  /\ LiveLeads' = LiveLeads + k
           /\ From(how)' = From(how) + k /\ \A h : h # how => From(h)' = From(h)
           /\ InBatch(b)' = InBatch(b) + k /\ \A c : c # b => InBatch(c)' = InBatch(c)
           /\ \A p : Live(p)' = Live(p) \cup {i \in (Len(arrived) + 1)..(Len(arrived) + k) : arrived'[i].phone = p}
<1>1. PICK m \in Nat : m = Len(arrived) /\ DOMAIN arrived = 1..m
  BY Rows
<1>2. PICK new : new = (m + 1)..(m + k)
  OBVIOUS
<1>3. /\ DOMAIN arrived' = (1..m) \cup new /\ (1..m) \cap new = {}
      /\ \A i \in 1..m : arrived'[i] = arrived[i]
      /\ \A i \in new : arrived'[i].live /\ arrived'[i].batch = b /\ arrived'[i].from = how
  BY <1>1, <1>2 DEF Grown
<1>4. LiveLeads' = LiveLeads + k
  <2>1. PICK S, T : S = {i \in DOMAIN arrived : arrived[i].live} /\ T = {i \in DOMAIN arrived' : arrived'[i].live}
    OBVIOUS
  <2>2. S \in SUBSET (1..m) /\ T = S \cup new
    BY <1>1, <1>3, <2>1
  <2>3. QED
    BY <1>2, <2>1, <2>2, CountGrows DEF LiveLeads
<1>5. From(how)' = From(how) + k
  <2>1. PICK S, T : S = {i \in DOMAIN arrived : arrived[i].from = how} /\ T = {i \in DOMAIN arrived' : arrived'[i].from = how}
    OBVIOUS
  <2>2. S \in SUBSET (1..m) /\ T = S \cup new
    BY <1>1, <1>3, <2>1
  <2>3. QED
    BY <1>2, <2>1, <2>2, CountGrows DEF From
<1>6. ASSUME NEW h, h # how PROVE From(h)' = From(h)
  <2>1. {i \in DOMAIN arrived : arrived[i].from = h} = {i \in DOMAIN arrived' : arrived'[i].from = h}
    BY <1>1, <1>3, <1>6
  <2>2. QED
    BY <2>1 DEF From
<1>7. InBatch(b)' = InBatch(b) + k
  <2>1. PICK S, T : /\ S = {i \in DOMAIN arrived : arrived[i].batch = b /\ arrived[i].live}
                    /\ T = {i \in DOMAIN arrived' : arrived'[i].batch = b /\ arrived'[i].live}
    OBVIOUS
  <2>2. S \in SUBSET (1..m) /\ T = S \cup new
    BY <1>1, <1>3, <2>1
  <2>3. QED
    BY <1>2, <2>1, <2>2, CountGrows DEF InBatch
<1>8. ASSUME NEW c, c # b PROVE InBatch(c)' = InBatch(c)
  <2>1. {i \in DOMAIN arrived : arrived[i].batch = c /\ arrived[i].live}
          = {i \in DOMAIN arrived' : arrived'[i].batch = c /\ arrived'[i].live}
    BY <1>1, <1>3, <1>8
  <2>2. QED
    BY <2>1 DEF InBatch
<1>9. ASSUME NEW p PROVE Live(p)' = Live(p) \cup {i \in new : arrived'[i].phone = p}
  BY <1>1, <1>3 DEF Live
<1>10. QED
  BY <1>1, <1>2, <1>4, <1>5, <1>6, <1>7, <1>8, <1>9

LEMMA StayCounts ==
    ASSUME TypeInv, RowsStay
    PROVE  /\ \A h : From(h)' = From(h)
           /\ (\A i \in DOMAIN arrived : arrived'[i].live => arrived[i].live) =>
                 LiveLeads' <= LiveLeads /\ (PhonesStay => \A p : Live(p)' \subseteq Live(p))
           /\ \A b : (\A i \in DOMAIN arrived : (arrived'[i].batch = b /\ arrived'[i].live) <=> (arrived[i].batch = b /\ arrived[i].live)) =>
                 InBatch(b)' = InBatch(b)
<1>1. PICK m \in Nat : DOMAIN arrived = 1..m /\ DOMAIN arrived' = 1..m
  BY Rows DEF RowsStay
<1>2. ASSUME NEW h PROVE From(h)' = From(h)
  <2>1. {i \in DOMAIN arrived : arrived[i].from = h} = {i \in DOMAIN arrived' : arrived'[i].from = h}
    BY DEF RowsStay
  <2>2. QED
    BY <2>1 DEF From
<1>3. ASSUME \A i \in DOMAIN arrived : arrived'[i].live => arrived[i].live
      PROVE  LiveLeads' <= LiveLeads /\ (PhonesStay => \A p : Live(p)' \subseteq Live(p))
  <2>1. PICK S, T : S = {i \in DOMAIN arrived : arrived[i].live} /\ T = {i \in DOMAIN arrived' : arrived'[i].live}
    OBVIOUS
  <2>2. S \in SUBSET (1..m) /\ T \in SUBSET S
    BY <1>1, <1>3, <2>1
  <2>3. LiveLeads' <= LiveLeads
    BY <2>1, <2>2, FewerCounted DEF LiveLeads
  <2>4. QED
    BY <1>3, <2>3 DEF Live, RowsStay, PhonesStay
<1>4. ASSUME NEW b, \A i \in DOMAIN arrived : (arrived'[i].batch = b /\ arrived'[i].live) <=> (arrived[i].batch = b /\ arrived[i].live)
      PROVE  InBatch(b)' = InBatch(b)
  <2>1. {i \in DOMAIN arrived : arrived[i].batch = b /\ arrived[i].live}
          = {i \in DOMAIN arrived' : arrived'[i].batch = b /\ arrived'[i].live}
    BY <1>1, <1>4
  <2>2. QED
    BY <2>1 DEF InBatch
<1>5. QED
  BY <1>2, <1>3, <1>4

LEMMA SameCounts ==
    ASSUME UNCHANGED arrived
    PROVE  /\ LiveLeads' = LiveLeads /\ (\A h : From(h)' = From(h)) /\ \A b : InBatch(b)' = InBatch(b)
           /\ \A p : Live(p)' = Live(p)
BY DEF LiveLeads, From, InBatch, Live

-----------------------------------------------------------------------------
(* What the steps of a delivery, a sync and the form do.                     *)

\* A request begins, and notes the operations it meets.
Begun(r, w) == Free(r) /\ Becomes(r, w) /\ Meets(r, w.op) /\ met \subseteq met'

ByOne == Adders \cup {"hand"}
HowOf(w) == IF w.op = "hand" THEN "hand" ELSE "hook"

LEMMA IntakeBegun ==
    ASSUME TypeInv, NEW r \in Request, NEW w \in IntakeReq, Start(r, w.op, w), UNCHANGED <<mix, crashed>>
    PROVE  Begun(r, w) /\ req'[r] = w
<1>1. w \in AnyReq /\ w.op \in Kinds
  BY IntakeKind DEF AnyReq, Kinds
<1>2. Becomes(r, w) /\ Free(r) /\ Meets(r, w.op)
  BY <1>1, Starts DEF TypeInv
<1>3. QED
  BY <1>1, <1>2, Meeting DEF TypeInv, Begun, Becomes

LEMMA GoesTo ==
    ASSUME TypeInv, NEW r \in Request, NEW w, req' = [req EXCEPT ![r] = w]
    PROVE  Becomes(r, w) /\ req'[r] = w
BY DEF TypeInv, RequestTypes, Becomes

\* A delivery or sync begins with a copy of the source.
HookLoads(v) == \E w \in HookReq : w.copy = source /\ w.made = 0 /\ w.batch = 0 /\ LookedUpTo(w, v)

LEMMA HookBegins ==
    ASSUME TypeInv, NEW r \in Request, NEW v, v = req'[r], NEW left \in Deliveries,
           SyncNow(r, left) \/ \E lenient \in BOOLEAN : Deliver(r, left, lenient)
    PROVE  Begun(r, v) /\ v.op \in Adders /\ HookLoads(v) /\ UNCHANGED <<intakeVars, crashed>>
<1>1. PICK lenient \in BOOLEAN, op \in Intakes :
          Start(r, op, Intaking(op, left, lenient)) /\ UNCHANGED <<intakeVars, mix, crashed>>
  <2>1. CASE SyncNow(r, left)
    <3>1. "sync" \in Intakes /\ TRUE \in BOOLEAN
      BY DEF Intakes
    <3>2. PICK lenient \in BOOLEAN, op \in Intakes : lenient = TRUE /\ op = "sync"
      BY <3>1
    <3>3. QED
      BY <2>1, <3>2 DEF SyncNow
  <2>2. CASE \E lenient \in BOOLEAN : Deliver(r, left, lenient)
    <3>1. PICK op \in Intakes : op = "hook"
      BY DEF Intakes
    <3>2. QED
      BY <2>2, <3>1 DEF Deliver
  <2>3. QED
    BY <2>1, <2>2
<1>2. PICK w : w = [op |-> op, next |-> "look", left |-> left, lenient |-> lenient, copy |-> source, batch |-> 0,
                    n |-> 0, made |-> 0]
  OBVIOUS
<1>3. w \in HookReq /\ w.left # <<>> /\ w.op = op /\ w.copy = source /\ w.made = 0 /\ w.batch = 0
      /\ w.copy.rule \in {"skip", "create_new"}
  BY <1>2, IntakeConstants, IntakeVariables DEF HookReq, SourceRec
<1>4. PICK x : x = LookedUp(w)
  OBVIOUS
<1>5. LookedUpTo(w, x) /\ x = Intaking(op, left, lenient)
  BY <1>2, <1>3, <1>4, HookLookedUp DEF Intaking
<1>6. x \in IntakeReq /\ x.op = op
  BY <1>5, DeliveryType
<1>7. Begun(r, x) /\ req'[r] = x
  BY <1>1, <1>5, <1>6, IntakeBegun
<1>8. QED
  BY <1>1, <1>3, <1>5, <1>6, <1>7 DEF HookLoads, Adders, Intakes

\* A webhook's or sync's step goes on, with its copy and what it made.
LEMMA HookMoves ==
    ASSUME TypeInv, NEW r \in Request, NEW u, u = req[r], NEW v, v = req'[r]
    PROVE  /\ u.op \in Adders => u \in HookReq /\ u.copy \in SourceRec
           /\ LookUp(r) =>
                 u.op \in Adders /\ u.next = "look" /\ LookedUpTo(u, v) /\ Becomes(r, v)
           /\ TodaysBatch(r) =>
                 /\ u.op \in Adders /\ u.next = "batch" /\ Becomes(r, v)
                 /\ v.op = u.op /\ v.next = "create" /\ v.left = u.left /\ v.copy = u.copy /\ v.made = u.made
                 /\ v.batch \in DOMAIN batches'
           /\ CreateFails(r) =>
                 /\ u.op \in Adders /\ u.next = "create" /\ Becomes(r, v)
                 /\ HookStays(u, v) /\ v.next \in {"config", "look", "error"}
           /\ NoteCreated(r) /\ u.op # "hand" =>
                 /\ u.op \in Adders /\ u.next = "note" /\ Becomes(r, v)
                 /\ v.op = u.op /\ v.next = "add" /\ v.copy = u.copy /\ v.made = u.made /\ v.batch = u.batch
           /\ AddToBatch(r) =>
                 /\ u.op \in Adders /\ u.next = "add" /\ Becomes(r, v)
                 /\ v.op = u.op /\ v.next \in {"config", "look", "error"} /\ v.copy = u.copy /\ v.batch \in {u.batch, 0}
                 /\ (v.made = u.made + 1 /\ v.next # "error") \/ (v.made = u.made /\ {"halfway"} \in met')
           /\ SaveReceived(r) \/ SaveError(r) => Becomes(r, Idle) /\ v = Idle /\ u.op \in Adders
<1>0. u.op \in Intakes => u \in HookReq /\ (u.next \in Lookers => u.left # <<>>) /\ u.copy \in SourceRec
                          /\ u.copy.rule \in {"skip", "create_new"}
  BY InIntake DEF IntakeKinds, Intakes, LeftInHand, HookReq, SourceRec
<1>1. Adders = Intakes
  BY DEF Adders, Intakes
<1>2. ASSUME LookUp(r) PROVE u.op \in Adders /\ u.next = "look" /\ LookedUpTo(u, v) /\ Becomes(r, v)
  <2>1. u.op \in Adders /\ u.next = "look" /\ req' = [req EXCEPT ![r] = LookedUp(u)]
    BY <1>1, <1>2 DEF LookUp, At, Update
  <2>2. PICK x : x = LookedUp(u)
    OBVIOUS
  <2>3. LookedUpTo(u, x)
    BY <1>0, <1>1, <2>1, <2>2, HookLookedUp DEF Lookers
  <2>4. QED
    BY <2>1, <2>2, <2>3, GoesTo
<1>3. ASSUME TodaysBatch(r)
      PROVE  /\ u.op \in Adders /\ u.next = "batch" /\ Becomes(r, v)
             /\ v.op = u.op /\ v.next = "create" /\ v.left = u.left /\ v.copy = u.copy /\ v.made = u.made
             /\ v.batch \in DOMAIN batches'
  <2>1. u.op \in Adders /\ u.next = "batch"
    BY <1>1, <1>3 DEF TodaysBatch, At
  <2>2. PICK b : b = IF Today # {} THEN Min(Today) ELSE Len(batches')
    OBVIOUS
  <2>3. req' = [req EXCEPT ![r] = [u EXCEPT !.next = "create", !.batch = b]]
    BY <1>3, <2>2 DEF TodaysBatch, Update
  <2>4. b \in DOMAIN batches'
    <3>1. CASE Today # {}
      <4>1. batches' = batches /\ Today \in SUBSET DOMAIN batches
        BY <1>3, <3>1 DEF TodaysBatch, Today
      <4>2. Today \in SUBSET Nat
        BY IntakeVariables DEF Today
      <4>3. Min(Today) \in Today
        BY <3>1, <4>2, MinIn
      <4>4. QED
        BY <2>2, <3>1, <4>1, <4>3
    <3>2. CASE Today = {}
      <4>1. batches' = Append(batches, [kind |-> "webhook", total |-> 0]) /\ batches \in Seq(BatchRec)
        BY <1>3, <3>2, IntakeVariables DEF TodaysBatch
      <4>2. Len(batches') \in DOMAIN batches'
        BY <4>1
      <4>3. QED
        BY <2>2, <3>2, <4>2
    <3>3. QED
      BY <3>1, <3>2
  <2>5. PICK x : x = [u EXCEPT !.next = "create", !.batch = b]
    OBVIOUS
  <2>6. x.op = u.op /\ x.next = "create" /\ x.left = u.left /\ x.copy = u.copy /\ x.made = u.made /\ x.batch = b
    BY <1>0, <1>1, <2>1, <2>5 DEF HookReq
  <2>7. Becomes(r, x) /\ v = x
    BY <2>3, <2>5, GoesTo
  <2>8. QED
    BY <2>1, <2>4, <2>6, <2>7
<1>4. ASSUME CreateFails(r)
      PROVE  /\ u.op \in Adders /\ u.next = "create" /\ Becomes(r, v)
             /\ HookStays(u, v) /\ v.next \in {"config", "look", "error"}
  <2>1. u.op \in Adders /\ u.next = "create"
    BY <1>1, <1>4 DEF CreateFails, At
  <2>2. PICK x : x = Fails(u)
    BY Zenon
  <2>3. HookStays(u, x) /\ x.next \in {"config", "look", "error"}
    BY <1>0, <1>1, <2>1, <2>2, HookFails DEF Lookers
  <2>4. req' = [req EXCEPT ![r] = x]
    BY <1>4, <2>2 DEF CreateFails, Update
  <2>5. QED
    BY <2>1, <2>3, <2>4, GoesTo
<1>5. ASSUME NoteCreated(r), u.op # "hand"
      PROVE  /\ u.op \in Adders /\ u.next = "note" /\ Becomes(r, v)
             /\ v.op = u.op /\ v.next = "add" /\ v.copy = u.copy /\ v.made = u.made /\ v.batch = u.batch
  <2>1. u.op \in Adders /\ u.next = "note"
    BY <1>1, <1>5 DEF NoteCreated, At
  <2>2. PICK x : x = [u EXCEPT !.next = "add"]
    BY Zenon
  <2>3. req' = [req EXCEPT ![r] = x]
    BY <1>5, <2>2 DEF NoteCreated, Goto
  <2>4. x.op = u.op /\ x.next = "add" /\ x.copy = u.copy /\ x.made = u.made /\ x.batch = u.batch
    BY <1>0, <1>1, <2>1, <2>2 DEF HookReq
  <2>5. QED
    BY <2>1, <2>3, <2>4, GoesTo
<1>6. ASSUME AddToBatch(r)
      PROVE  /\ u.op \in Adders /\ u.next = "add" /\ Becomes(r, v)
             /\ v.op = u.op /\ v.next \in {"config", "look", "error"} /\ v.copy = u.copy /\ v.batch \in {u.batch, 0}
             /\ (v.made = u.made + 1 /\ v.next # "error") \/ (v.made = u.made /\ {"halfway"} \in met')
  <2>1. u.op \in Adders /\ u.next = "add"
    BY <1>1, <1>6 DEF AddToBatch, At
  <2>2. u \in HookReq /\ u.left # <<>>
    BY <1>0, <1>1, <2>1 DEF Lookers
  <2>3. PICK more \in {0, 1} : more = 1
    OBVIOUS
  <2>4. CASE Update(r, NextLead(u, 1))
    <3>1. PICK x : x = NextLead(u, more)
      OBVIOUS
    <3>2. req' = [req EXCEPT ![r] = x]
      BY <2>3, <2>4, <3>1 DEF Update
    <3>3. x.op = u.op /\ x.next \in {"config", "look"} /\ x.copy = u.copy /\ x.made = u.made + more /\ x.batch = 0
      BY <2>2, <3>1, NextLeadDoes
    <3>4. QED
      BY <2>1, <2>3, <3>2, <3>3, GoesTo
  <2>5. CASE Update(r, Fails(u)) /\ met' = met \cup {{"halfway"}}
    <3>1. PICK x : x = Fails(u)
      OBVIOUS
    <3>2. req' = [req EXCEPT ![r] = x]
      BY <2>5, <3>1 DEF Update
    <3>3. HookStays(u, x) /\ x.next \in {"config", "look", "error"}
      BY <2>2, <3>1, HookFails
    <3>4. QED
      BY <2>1, <2>5, <3>2, <3>3, GoesTo DEF HookStays
  <2>6. QED
    BY <1>6, <2>4, <2>5 DEF AddToBatch
<1>7. ASSUME SaveReceived(r) \/ SaveError(r) PROVE Becomes(r, Idle) /\ v = Idle /\ u.op \in Adders
  <2>1. req' = [req EXCEPT ![r] = Idle] /\ u.op \in Adders
    BY <1>7 DEF SaveReceived, SaveError, Finish, Idle, At, Adders, Intakes
  <2>2. QED
    BY <2>1, GoesTo
<1>8. QED
  BY <1>0, <1>1, <1>2, <1>3, <1>4, <1>5, <1>6, <1>7

\* One lead comes: of a webhook or sync, or entered by hand.
LEMMA CreateMoves ==
    ASSUME TypeInv, NEW r \in Request, NEW u, u = req[r], NEW v, v = req'[r], CreateLead(r)
    PROVE  /\ u.op \in ByOne /\ u.next = "create" /\ Refers(u.batch) /\ Becomes(r, v)
           /\ v.op = u.op /\ v.next = "note" /\ v.batch = u.batch
           /\ u.op \in Adders => v.copy = u.copy /\ v.made = u.made
           /\ Grown(1, u.batch, HowOf(u)) /\ arrived'[Len(arrived) + 1].phone = Head(u.left)
<1>1. u.op \in ByOne /\ u.next = "create" /\ Refers(u.batch)
  BY DEF CreateLead, At, ByOne, Adders, Intakes
<1>2. (u.op \in Adders => u \in HookReq) /\ (u.op = "hand" => u \in HandReq)
  BY <1>1, InIntake DEF IntakeKinds, ByOne, Adders, Intakes
<1>3. PICK x : x = [u EXCEPT !.next = "note"]
  OBVIOUS
<1>4. Becomes(r, x) /\ v = x
  BY <1>3, GoesTo DEF CreateLead, Goto
<1>5. x.op = u.op /\ x.next = "note" /\ x.batch = u.batch /\ (u.op \in Adders => x.copy = u.copy /\ x.made = u.made)
  BY <1>1, <1>2, <1>3 DEF HookReq, HandReq, ByOne, Adders
<1>6. PICK row : row = NewLead(Head(u.left), u.batch, HowOf(u))
  OBVIOUS
<1>7. arrived' = Append(arrived, row) /\ row.live /\ row.batch = u.batch /\ row.from = HowOf(u) /\ row.phone = Head(u.left)
  BY <1>6 DEF CreateLead, NewLead, HowOf
<1>8. PICK m \in Nat : m = Len(arrived) /\ DOMAIN arrived = 1..m /\ arrived \in Seq(Arrival)
  BY Rows
<1>9. /\ DOMAIN arrived' = 1..(m + 1) /\ arrived'[m + 1] = row /\ \A i \in 1..m : arrived'[i] = arrived[i]
  BY <1>7, <1>8
<1>10. \A i \in (m + 1)..(m + 1) : i = m + 1
  OBVIOUS
<1>11. Grown(1, u.batch, HowOf(u))
  BY <1>7, <1>8, <1>9, <1>10 DEF Grown
<1>12. QED
  BY <1>1, <1>4, <1>5, <1>7, <1>8, <1>9, <1>11

LEMMA FormMoves ==
    ASSUME TypeInv, NEW r \in Request, NEW u, u = req[r], NEW v, v = req'[r]
    PROVE  /\ \A p \in Phone : ByForm(r, p) =>
                 /\ Begun(r, v) /\ v.op = "hand" /\ v.left = <<p>> /\ v.batch = 0 /\ Live(p) = {}
                 /\ v.next \in {"cache", "create"} /\ (v.next = "cache" => v.n = LiveLeads)
                 /\ v.next = "create" => counted # NoCount /\ counted < MaxLeads
           /\ NoteCreated(r) /\ u.op = "hand" => u.next = "note" /\ Becomes(r, Idle) /\ v = Idle
<1>1. ASSUME NEW p \in Phone, ByForm(r, p)
      PROVE  /\ Begun(r, v) /\ v.op = "hand" /\ v.left = <<p>> /\ v.batch = 0 /\ Live(p) = {}
             /\ v.next \in {"cache", "create"} /\ (v.next = "cache" => v.n = LiveLeads)
             /\ v.next = "create" => counted # NoCount /\ counted < MaxLeads
  <2>1. PICK w : w = [op |-> "hand", next |-> "count", left |-> <<p>>, batch |-> 0, n |-> 0]
    OBVIOUS
  <2>2. PICK x : x = Counted(w)
    OBVIOUS
  <2>3. w \in HandFields /\ w.left # <<>> /\ Looking(w) /\ w.left = <<p>> /\ w.batch = 0 /\ w.op = "hand"
    BY <2>1 DEF HandFields, Looking
  <2>4. Live(p) = {} /\ x.next # "end" /\ Start(r, "hand", x) /\ UNCHANGED <<mix, crashed>>
    BY <1>1, <2>1, <2>2 DEF ByForm
  <2>5. x \in IntakeReq /\ x.op = "hand"
    BY <2>2, <2>3, <2>4, CountedType
  <2>6. /\ HandStays(w, x) /\ x.next \in {"cache", "create", "end"}
        /\ x.next = "cache" => x.n = LiveLeads
        /\ x.next = "create" => counted # NoCount /\ counted < MaxLeads
    BY <2>2, <2>3, HandCounted
  <2>7. Begun(r, x) /\ v = x
    BY <2>4, <2>5, IntakeBegun
  <2>8. QED
    BY <2>3, <2>4, <2>5, <2>6, <2>7 DEF HandStays
<1>2. ASSUME NoteCreated(r), u.op = "hand" PROVE u.next = "note" /\ Becomes(r, Idle) /\ v = Idle
  <2>1. req' = [req EXCEPT ![r] = Idle] /\ u.next = "note"
    BY <1>2 DEF NoteCreated, At, Goto, Finish, Idle
  <2>2. QED
    BY <2>1, GoesTo
<1>3. QED
  BY <1>1, <1>2

\* The count is cached; the lead is allowed, or not, or so many of a file.
LEMMA CacheMoves ==
    ASSUME TypeInv, NEW r \in Request, NEW u, u = req[r], NEW v, v = req'[r], CacheCount(r)
    PROVE  /\ u.op \in Makers /\ u.next = "cache" /\ counted' = u.n /\ u.n \in Nat /\ Becomes(r, v)
           /\ UNCHANGED <<arrived, batches, job, source, met, crashed>>
           /\ u.op \in Adders => HookAllowed(u, v, u.n)
           /\ u.op = "hand" => \/ v = Idle
                               \/ HandStays(u, v) /\ v.next = "create" /\ u.n < MaxLeads
           /\ u.op = "import" => FileAllowed(u, v, u.n)
<1>1. /\ u.op \in Makers /\ u.next = "cache" /\ counted' = u.n
      /\ UNCHANGED <<arrived, batches, job, source, met, crashed>>
  BY DEF CacheCount, At, Makers, Intakes
<1>2. (u.op \in Adders => u \in HookReq /\ u.left # <<>>) /\ (u.op = "hand" => u \in HandFields) /\ (u.op = "import" => u \in ImportReq)
  BY <1>1, InIntake, HandIsField DEF IntakeKinds, Adders, Intakes, LeftInHand, Lookers
<1>3. u.n \in Nat
  BY <1>1, <1>2 DEF HookReq, HandFields, ImportReq, Makers, Adders
<1>4. PICK x : x = Admitted(u, u.n)
  OBVIOUS
<1>5. IF x.next = "end" THEN req' = [req EXCEPT ![r] = Idle] ELSE req' = [req EXCEPT ![r] = x]
  BY <1>4 DEF CacheCount, Finish, Idle, Update
<1>6. IF x.next = "end" THEN v = Idle ELSE v = x
  BY <1>5, GoesTo
<1>7. Becomes(r, v)
  BY <1>5, <1>6, GoesTo
<1>8. u.op \in Adders => HookAllowed(u, x, u.n) /\ x.next # "end"
  BY <1>2, <1>3, <1>4, HookAdmitted DEF HookAllowed
<1>9. ASSUME u.op = "import" PROVE FileAllowed(u, x, u.n) /\ x.next # "end"
  <2>1. FileAllowed(u, x, u.n)
    BY <1>2, <1>3, <1>4, <1>9, FileAdmitted
  <2>2. QED
    BY <2>1 DEF FileAllowed
<1>10. u.op = "hand" => HandStays(u, x) /\ x.next \in {"create", "end"} /\ (x.next = "create" => u.n < MaxLeads)
  BY <1>2, <1>3, <1>4, HandAdmitted
<1>11. QED
  BY <1>1, <1>3, <1>6, <1>7, <1>8, <1>9, <1>10

-----------------------------------------------------------------------------
(* What the steps of deletions, edits and the settings do.                   *)

LEMMA ToggleMoves ==
    ASSUME TypeInv, NEW r \in Request, NEW u, u = req[r], NEW v, v = req'[r]
    PROVE  /\ \A on \in BOOLEAN : SetSource(r, on) =>
                 Begun(r, v) /\ v.op = "toggle" /\ v.copy = [source EXCEPT !.on = on] /\ UNCHANGED <<intakeVars, crashed>>
           /\ SaveSource(r) => u.op = "toggle" /\ u.copy \in SourceRec /\ Becomes(r, Idle) /\ v = Idle
<1>1. ASSUME NEW on \in BOOLEAN, SetSource(r, on)
      PROVE  Begun(r, v) /\ v.op = "toggle" /\ v.copy = [source EXCEPT !.on = on] /\ UNCHANGED <<intakeVars, crashed>>
  <2>1. PICK copy : copy = [source EXCEPT !.on = on]
    OBVIOUS
  <2>2. PICK x : x = [op |-> "toggle", next |-> "save", copy |-> copy]
    OBVIOUS
  <2>3. copy \in SourceRec
    BY <2>1, IntakeVariables DEF SourceRec
  <2>4. x \in IntakeReq /\ x.op = "toggle" /\ x.copy = copy
    BY <2>2, <2>3 DEF IntakeReq, ToggleReq
  <2>5. Start(r, x.op, x) /\ UNCHANGED <<intakeVars, mix, crashed>>
    BY <1>1, <2>1, <2>2, <2>4 DEF SetSource
  <2>6. QED
    BY <2>1, <2>4, <2>5, IntakeBegun
<1>2. ASSUME SaveSource(r) PROVE u.op = "toggle" /\ u.copy \in SourceRec /\ Becomes(r, Idle) /\ v = Idle
  <2>1. req' = [req EXCEPT ![r] = Idle] /\ u.op = "toggle"
    BY <1>2 DEF SaveSource, At, Finish, Idle
  <2>2. u.copy \in SourceRec
    BY <2>1, InIntake DEF IntakeKinds, ToggleReq
  <2>3. QED
    BY <2>1, <2>2, GoesTo
<1>3. QED
  BY <1>1, <1>2

\* The edit form has loaded a lead that is not deleted, and gives it the number p.
FormLoaded(w, p) ==
    /\ w.row.batch = arrived[w.lead].batch /\ w.row.from = arrived[w.lead].from
    /\ arrived[w.lead].live /\ w.row.live /\ w.row.phone = p
    /\ w.op = "amend" => p = arrived[w.lead].phone
    /\ w.op = "renumber" => Live(p) = {}

LEMMA RowMoves ==
    ASSUME TypeInv, NEW r \in Request, NEW u, u = req[r], NEW v, v = req'[r]
    PROVE  /\ \A i \in DOMAIN arrived : \A p \in Phone : Amend(r, i, p) =>
                 Begun(r, v) /\ v.op \in Editors /\ v.lead = i /\ FormLoaded(v, p)
           /\ SaveLead(r) =>
                 /\ u.op \in Editors /\ Becomes(r, Idle) /\ v = Idle /\ u.row \in Arrival
                 /\ arrived' = arrived \/ (Refers(u.row.batch) /\ arrived' = [arrived EXCEPT ![u.lead] = u.row])
           /\ \A b \in DOMAIN batches : Rename(r, b) =>
                 Begun(r, v) /\ v.op = "rename" /\ v.batch = b /\ v.row = batches[b] /\ Exists(b)
           /\ SaveBatch(r) => u.op = "rename" /\ Becomes(r, Idle) /\ v = Idle /\ u.row \in BatchRec
<1>1. ASSUME NEW i \in DOMAIN arrived, NEW p \in Phone, Amend(r, i, p)
      PROVE  Begun(r, v) /\ v.op \in Editors /\ v.lead = i /\ FormLoaded(v, p)
  <2>1. PICK row : row = [arrived[i] EXCEPT !.phone = p]
    OBVIOUS
  <2>2. PICK kind \in Editors : kind = IF p = arrived[i].phone THEN "amend" ELSE "renumber"
    BY DEF Editors
  <2>3. PICK x : x = [op |-> kind, next |-> "save", lead |-> i, row |-> row]
    OBVIOUS
  <2>4. arrived[i] \in Arrival /\ i \in Nat
    BY Rows
  <2>5. row \in Arrival /\ row.phone = p /\ row.batch = arrived[i].batch /\ row.live = arrived[i].live /\ row.from = arrived[i].from
    BY <2>1, <2>4 DEF Arrival
  <2>6. x \in IntakeReq /\ x.op = kind /\ x.row = row /\ x.lead = i
    BY <2>3, <2>4, <2>5 DEF IntakeReq, AmendReq, Editors
  <2>7. Start(r, x.op, x) /\ UNCHANGED <<mix, crashed>> /\ arrived[i].live /\ (kind = "renumber" => Live(p) = {})
    BY <1>1, <2>1, <2>2, <2>3, <2>6 DEF Amend
  <2>8. Begun(r, x) /\ v = x
    BY <2>6, <2>7, IntakeBegun
  <2>9. kind = "amend" => p = arrived[i].phone
    BY <2>2
  <2>10. FormLoaded(x, p)
    BY <2>5, <2>6, <2>7, <2>9 DEF FormLoaded
  <2>11. QED
    BY <2>6, <2>8, <2>10
<1>2. ASSUME SaveLead(r)
      PROVE  /\ u.op \in Editors /\ Becomes(r, Idle) /\ v = Idle /\ u.row \in Arrival
             /\ arrived' = arrived \/ (Refers(u.row.batch) /\ arrived' = [arrived EXCEPT ![u.lead] = u.row])
  <2>1. req' = [req EXCEPT ![r] = Idle] /\ u.op \in Editors
    BY <1>2 DEF SaveLead, At, Finish, Idle
  <2>2. u.row \in Arrival
    BY <2>1, InIntake DEF IntakeKinds, AmendReq, Editors
  <2>3. QED
    BY <1>2, <2>1, <2>2, GoesTo DEF SaveLead
<1>3. ASSUME NEW b \in DOMAIN batches, Rename(r, b)
      PROVE  Begun(r, v) /\ v.op = "rename" /\ v.batch = b /\ v.row = batches[b] /\ Exists(b)
  <2>1. PICK row : row = batches[b]
    OBVIOUS
  <2>2. PICK x : x = [op |-> "rename", next |-> "save", batch |-> b, row |-> row]
    OBVIOUS
  <2>3. row \in BatchRec /\ b \in Nat
    BY <2>1, IntakeVariables
  <2>4. x \in IntakeReq /\ x.op = "rename" /\ x.row = row /\ x.batch = b
    BY <2>2, <2>3 DEF IntakeReq, RenameReq
  <2>5. Start(r, x.op, x) /\ UNCHANGED <<mix, crashed>> /\ Exists(b)
    BY <1>3, <2>1, <2>2, <2>4 DEF Rename
  <2>6. QED
    BY <2>1, <2>4, <2>5, IntakeBegun
<1>4. ASSUME SaveBatch(r) PROVE u.op = "rename" /\ Becomes(r, Idle) /\ v = Idle /\ u.row \in BatchRec
  <2>1. req' = [req EXCEPT ![r] = Idle] /\ u.op = "rename"
    BY <1>4 DEF SaveBatch, At, Finish, Idle
  <2>2. u.row \in BatchRec
    BY <2>1, InIntake DEF IntakeKinds, RenameReq
  <2>3. QED
    BY <2>1, <2>2, GoesTo
<1>5. QED
  BY <1>1, <1>2, <1>3, <1>4

\* Deletions count the batch again, as an import does when it ends.
CountStays(u, v) == v.op = u.op /\ v.batch = u.batch /\ v.was = u.was /\ (u.op = "delete" => v.leads = u.leads)
TallyStays(u, v) == u.op = "import" => v.ok = u.ok /\ v.failed = u.failed /\ v.dup = u.dup

LEMMA DeleteMoves ==
    ASSUME TypeInv, NEW r \in Request, NEW u, u = req[r], NEW v, v = req'[r]
    PROVE  /\ u.op = "delete" => u \in DeleteReq
           /\ \A ls \in (SUBSET DOMAIN arrived) \ {{}} : Delete(r, ls) =>
                 /\ Begun(r, v) /\ v.op = "delete" /\ v.next = "mark" /\ v.leads = ls
                 /\ \A i \in ls : arrived[i].batch = v.batch
           /\ MarkDeleted(r) =>
                 /\ u.op = "delete" /\ u.next = "mark" /\ Becomes(r, v)
                 /\ v.op = "delete" /\ v.next = "load" /\ v.batch = u.batch
                 /\ RowsStay /\ PhonesStay
                 /\ \A i \in DOMAIN arrived : /\ arrived'[i].batch = arrived[i].batch
                                              /\ arrived'[i].live => arrived[i].live
                                              /\ i \notin u.leads => arrived'[i] = arrived[i]
           /\ LoadBatch(r) =>
                 /\ u.op = "delete" /\ u.next = "load" /\ Becomes(r, v)
                 /\ \/ v = Idle /\ ~Exists(u.batch)
                    \/ /\ v.op = "delete" /\ v.next = "recount" /\ v.batch = u.batch
                       /\ Exists(u.batch) /\ v.was = batches[u.batch].total
<1>0. u.op = "delete" => u \in DeleteReq
  BY InIntake DEF IntakeKinds
<1>1. ASSUME NEW ls \in (SUBSET DOMAIN arrived) \ {{}}, Delete(r, ls)
      PROVE  /\ Begun(r, v) /\ v.op = "delete" /\ v.next = "mark" /\ v.leads = ls
             /\ \A i \in ls : arrived[i].batch = v.batch
  <2>1. PICK k : k = CHOOSE i \in ls : TRUE
    OBVIOUS
  <2>2. k \in ls
    BY <2>1
  <2>3. PICK b : b = arrived[k].batch
    OBVIOUS
  <2>4. PICK x : x = [op |-> "delete", next |-> "mark", leads |-> ls, batch |-> b, was |-> 0, n |-> 0]
    OBVIOUS
  <2>5. b \in Nat /\ ls \in SUBSET Nat
    <3>1. arrived[k] \in Arrival /\ DOMAIN arrived \subseteq Nat
      BY <2>2, Rows
    <3>2. QED
      BY <2>3, <3>1 DEF Arrival
  <2>6. x \in IntakeReq /\ x.op = "delete" /\ x.next = "mark" /\ x.leads = ls /\ x.batch = b
    BY <2>4, <2>5 DEF IntakeReq, DeleteReq
  <2>7. /\ Start(r, x.op, x) /\ UNCHANGED <<mix, crashed>>
        /\ \A i, j \in ls : arrived[i].live /\ arrived[i].batch = arrived[j].batch
    BY <1>1, <2>1, <2>3, <2>4, <2>6 DEF Delete
  <2>8. QED
    BY <2>2, <2>3, <2>6, <2>7, IntakeBegun
<1>2. ASSUME MarkDeleted(r)
      PROVE  /\ u.op = "delete" /\ u.next = "mark" /\ Becomes(r, v)
             /\ v.op = "delete" /\ v.next = "load" /\ v.batch = u.batch
             /\ RowsStay /\ PhonesStay
             /\ \A i \in DOMAIN arrived : /\ arrived'[i].batch = arrived[i].batch
                                          /\ arrived'[i].live => arrived[i].live
                                          /\ i \notin u.leads => arrived'[i] = arrived[i]
  <2>1. u.op = "delete" /\ u.next = "mark"
        /\ arrived' = [i \in DOMAIN arrived |-> IF i \in u.leads THEN [arrived[i] EXCEPT !.live = FALSE] ELSE arrived[i]]
    BY <1>2 DEF MarkDeleted, At
  <2>2. PICK x : x = [u EXCEPT !.next = "load"]
    OBVIOUS
  <2>3. Becomes(r, x) /\ v = x
    BY <1>2, <2>2, GoesTo DEF MarkDeleted, Goto
  <2>4. x.op = "delete" /\ x.next = "load" /\ x.batch = u.batch
    BY <1>0, <2>1, <2>2 DEF DeleteReq
  <2>5. \A i \in DOMAIN arrived : arrived[i] \in Arrival
    BY Rows
  <2>6. DOMAIN arrived' = DOMAIN arrived
    BY <2>1
  <2>7. ASSUME NEW i \in DOMAIN arrived
        PROVE  /\ arrived'[i].phone = arrived[i].phone /\ arrived'[i].from = arrived[i].from
               /\ arrived'[i].batch = arrived[i].batch /\ (arrived'[i].live => arrived[i].live)
               /\ i \notin u.leads => arrived'[i] = arrived[i]
    <3>1. PICK row : row = arrived[i]
      OBVIOUS
    <3>2. row \in Arrival /\ arrived'[i] = IF i \in u.leads THEN [row EXCEPT !.live = FALSE] ELSE row
      BY <2>1, <2>5, <3>1
    <3>3. QED
      BY <3>1, <3>2 DEF Arrival
  <2>8. QED
    BY <2>1, <2>3, <2>4, <2>6, <2>7 DEF RowsStay, PhonesStay
<1>3. ASSUME LoadBatch(r)
      PROVE  /\ u.op = "delete" /\ u.next = "load" /\ Becomes(r, v)
             /\ \/ v = Idle /\ ~Exists(u.batch)
                \/ /\ v.op = "delete" /\ v.next = "recount" /\ v.batch = u.batch
                   /\ Exists(u.batch) /\ v.was = batches[u.batch].total
  <2>1. u.op = "delete" /\ u.next = "load"
    BY <1>3 DEF LoadBatch, At
  <2>2. CASE ~Exists(u.batch)
    <3>1. req' = [req EXCEPT ![r] = Idle]
      BY <1>3, <2>2 DEF LoadBatch, Finish, Idle
    <3>2. QED
      BY <2>1, <2>2, <3>1, GoesTo
  <2>3. CASE Exists(u.batch)
    <3>1. PICK was : was = batches[u.batch].total
      OBVIOUS
    <3>2. PICK x : x = [u EXCEPT !.was = was, !.next = "recount"]
      OBVIOUS
    <3>3. Becomes(r, x) /\ v = x
      BY <1>3, <2>3, <3>1, <3>2, GoesTo DEF LoadBatch, Update
    <3>4. x.op = "delete" /\ x.next = "recount" /\ x.batch = u.batch /\ x.was = was
      BY <1>0, <2>1, <3>2 DEF DeleteReq
    <3>5. QED
      BY <2>1, <2>3, <3>1, <3>3, <3>4
  <2>4. QED
    BY <2>2, <2>3
<1>4. QED
  BY <1>0, <1>1, <1>2, <1>3

\* The count that was loaded is right, or is corrected.
Ended(u, v) == IF u.op = "delete" THEN v = Idle
               ELSE v.op = "import" /\ v.next = "finish" /\ TallyStays(u, v)

LEMMA CountMoves ==
    ASSUME TypeInv, NEW r \in Request, NEW u, u = req[r], NEW v, v = req'[r]
    PROVE  /\ Recount(r) =>
                 /\ u.op \in Counters /\ u.next = "recount" /\ Becomes(r, v)
                 /\ \/ InBatch(u.batch) = u.was /\ Ended(u, v)
                    \/ CountStays(u, v) /\ TallyStays(u, v) /\ v.next = "total" /\ v.n = InBatch(u.batch)
           /\ SaveTotal(r) => u.op \in Counters /\ u.next = "total" /\ u.n \in Nat /\ Becomes(r, v) /\ Ended(u, v)
<1>0. (u.op = "delete" => u \in DeleteReq) /\ (u.op = "import" => u \in ImportReq)
  BY InIntake DEF IntakeKinds
<1>1. ASSUME After(r), u.op \in Counters PROVE Becomes(r, v) /\ Ended(u, v)
  <2>1. CASE u.op = "delete"
    <3>1. req' = [req EXCEPT ![r] = Idle]
      BY <1>1, <2>1 DEF After, Goto, Finish, Idle
    <3>2. QED
      BY <2>1, <3>1, GoesTo DEF Ended
  <2>2. CASE u.op = "import"
    <3>1. PICK x : x = [u EXCEPT !.next = "finish"]
      OBVIOUS
    <3>2. Becomes(r, x) /\ v = x
      BY <1>1, <2>2, <3>1, GoesTo DEF After, Goto
    <3>3. x.op = "import" /\ x.next = "finish" /\ x.ok = u.ok /\ x.failed = u.failed /\ x.dup = u.dup
      BY <1>0, <2>2, <3>1 DEF ImportReq
    <3>4. QED
      BY <2>2, <3>2, <3>3 DEF Ended, TallyStays
  <2>3. QED
    BY <1>1, <2>1, <2>2 DEF Counters
<1>2. ASSUME Recount(r)
      PROVE  /\ u.op \in Counters /\ u.next = "recount" /\ Becomes(r, v)
             /\ \/ InBatch(u.batch) = u.was /\ Ended(u, v)
                \/ CountStays(u, v) /\ TallyStays(u, v) /\ v.next = "total" /\ v.n = InBatch(u.batch)
  <2>1. u.op \in Counters /\ u.next = "recount"
    BY <1>2 DEF Recount, At, Counters
  <2>2. PICK n : n = InBatch(u.batch)
    OBVIOUS
  <2>3. CASE n = u.was
    <3>1. After(r)
      BY <1>2, <2>2, <2>3 DEF Recount
    <3>2. QED
      BY <1>1, <2>1, <2>2, <2>3, <3>1
  <2>4. CASE n # u.was
    <3>1. PICK x : x = [u EXCEPT !.n = n, !.next = "total"]
      OBVIOUS
    <3>2. Becomes(r, x) /\ v = x
      BY <1>2, <2>2, <2>4, <3>1, GoesTo DEF Recount, Update
    <3>3. CASE u.op = "delete"
      <4>1. CountStays(u, x) /\ TallyStays(u, x) /\ x.next = "total" /\ x.n = n
        BY <1>0, <3>1, <3>3 DEF DeleteReq, CountStays, TallyStays
      <4>2. QED
        BY <2>1, <2>2, <3>2, <4>1
    <3>4. CASE u.op = "import"
      <4>1. CountStays(u, x) /\ TallyStays(u, x) /\ x.next = "total" /\ x.n = n
        BY <1>0, <3>1, <3>4 DEF ImportReq, CountStays, TallyStays
      <4>2. QED
        BY <2>1, <2>2, <3>2, <4>1
    <3>5. QED
      BY <2>1, <3>3, <3>4 DEF Counters
  <2>5. QED
    BY <2>3, <2>4
<1>3. ASSUME SaveTotal(r) PROVE u.op \in Counters /\ u.next = "total" /\ u.n \in Nat /\ Becomes(r, v) /\ Ended(u, v)
  <2>1. u.op \in Counters /\ u.next = "total" /\ After(r)
    BY <1>3 DEF SaveTotal, At, Counters
  <2>2. u.n \in Nat
    BY <1>0, <2>1 DEF DeleteReq, ImportReq, Counters
  <2>3. QED
    BY <1>1, <2>1, <2>2
<1>4. QED
  BY <1>2, <1>3

-----------------------------------------------------------------------------
(* What an import's steps do.                                                *)

\* Of the rows known before, those that are updated, and those left out.
Doubles(dup) == IF job.rule = "update" THEN dup ELSE 0
Skipped(dup) == IF job.rule = "skip" THEN dup ELSE 0

Placed(u, v) == v.batch = u.batch /\ v.was = u.was
Scored(u, v) == v.ok = u.ok /\ v.failed = u.failed /\ v.dup = u.dup

\* No number twice among those to be created, and none that is in seen.
Fresh(new, seen) ==
    \A i \in DOMAIN new : new[i] \notin seen /\ \A j \in DOMAIN new : j # i => new[j] # new[i]

\* What w has become when k rows are read.
RowsRead(w, v, k) ==
    /\ v \in ImportReq /\ Placed(w, v) /\ v.next = w.next /\ v.done = w.done /\ v.seen = w.seen
    /\ v.ok = Doubles(v.dup)
    /\ k = v.ok + v.failed + Skipped(v.dup) + Len(v.new)
    /\ job.rule # "create_new" => Fresh(v.new, w.seen)

LEMMA FreshAppended ==
    ASSUME NEW s \in Seq(Phone), NEW seen, Fresh(s, seen), NEW p \in Phone, p \notin seen \cup Range(s)
    PROVE  Fresh(Append(s, p), seen)
<1>1. PICK m \in Nat : m = Len(s) /\ DOMAIN s = 1..m
  OBVIOUS
<1>2. PICK t : t = Append(s, p)
  OBVIOUS
<1>3. DOMAIN t = 1..(m + 1) /\ t[m + 1] = p /\ \A i \in 1..m : t[i] = s[i]
  BY <1>1, <1>2
<1>4. \A i \in 1..m : s[i] # p
  BY <1>1 DEF Range
<1>5. Fresh(t, seen)
  <2> SUFFICES ASSUME NEW i \in 1..(m + 1)
               PROVE  t[i] \notin seen /\ \A j \in 1..(m + 1) : j # i => t[j] # t[i]
    BY <1>3 DEF Fresh
  <2>1. \A j \in 1..(m + 1) : j \in 1..m \/ j = m + 1
    OBVIOUS
  <2>2. \A j \in 1..m : s[j] \notin seen /\ \A k \in 1..m : k # j => s[k] # s[j]
    BY <1>1 DEF Fresh
  <2>3. QED
    BY <1>3, <1>4, <2>1, <2>2
<1>6. QED
  BY <1>2, <1>5

LEMMA RowReads ==
    ASSUME TypeInv, NEW w, NEW k \in Nat, NEW u, RowsRead(w, u, k), NEW p \in Phone \cup {Invalid}, NEW v, v = WithRow(u, p)
    PROVE  RowsRead(w, v, k + 1)
<1>1. u \in ImportReq /\ u.new \in Seq(Phone) /\ Len(u.new) \in Nat /\ u.ok \in Nat /\ u.failed \in Nat /\ u.dup \in Nat
  BY ImportFields DEF RowsRead
<1>2. job.rule \in {"skip", "update", "create_new"}
  BY IntakeVariables DEF JobRec
<1>3. v \in ImportReq
  BY <1>1, WithRowType
<1>4. k = u.ok + u.failed + Skipped(u.dup) + Len(u.new) /\ u.ok = Doubles(u.dup)
  BY DEF RowsRead
<1>5. Placed(w, u) /\ u.next = w.next /\ u.done = w.done /\ u.seen = w.seen /\ (job.rule # "create_new" => Fresh(u.new, w.seen))
  BY DEF RowsRead
<1>6. CASE v = [u EXCEPT !.failed = @ + 1]
  <2>1. v.failed = u.failed + 1 /\ v.ok = u.ok /\ v.dup = u.dup /\ v.new = u.new
        /\ v.batch = u.batch /\ v.was = u.was /\ v.next = u.next /\ v.done = u.done /\ v.seen = u.seen
    BY <1>1, <1>6 DEF ImportReq
  <2>2. Skipped(u.dup) \in Nat /\ Skipped(v.dup) = Skipped(u.dup) /\ Doubles(v.dup) = Doubles(u.dup) /\ Len(v.new) = Len(u.new)
    BY <1>1, <2>1 DEF Skipped
  <2>3. k + 1 = v.ok + v.failed + Skipped(v.dup) + Len(v.new) /\ v.ok = Doubles(v.dup)
    BY <1>1, <1>4, <2>1, <2>2
  <2>4. Placed(w, v) /\ v.next = w.next /\ v.done = w.done /\ v.seen = w.seen /\ (job.rule # "create_new" => Fresh(v.new, w.seen))
    BY <1>5, <2>1 DEF Placed
  <2>5. QED
    BY <1>3, <2>3, <2>4 DEF RowsRead
<1>7. CASE v = [u EXCEPT !.dup = @ + 1] /\ job.rule = "skip"
  <2>1. v.dup = u.dup + 1 /\ v.ok = u.ok /\ v.failed = u.failed /\ v.new = u.new
        /\ v.batch = u.batch /\ v.was = u.was /\ v.next = u.next /\ v.done = u.done /\ v.seen = u.seen
    BY <1>1, <1>7 DEF ImportReq
  <2>2. Skipped(v.dup) = Skipped(u.dup) + 1 /\ Skipped(u.dup) \in Nat /\ Doubles(v.dup) = Doubles(u.dup)
    BY <1>1, <1>7, <2>1 DEF Skipped, Doubles
  <2>3. k + 1 = v.ok + v.failed + Skipped(v.dup) + Len(v.new) /\ v.ok = Doubles(v.dup)
    BY <1>1, <1>4, <2>1, <2>2
  <2>4. Placed(w, v) /\ v.next = w.next /\ v.done = w.done /\ v.seen = w.seen /\ (job.rule # "create_new" => Fresh(v.new, w.seen))
    BY <1>5, <2>1 DEF Placed
  <2>5. QED
    BY <1>3, <2>3, <2>4 DEF RowsRead
<1>8. CASE v = [u EXCEPT !.ok = @ + 1, !.dup = @ + 1] /\ job.rule = "update"
  <2>1. v.dup = u.dup + 1 /\ v.ok = u.ok + 1 /\ v.failed = u.failed /\ v.new = u.new
        /\ v.batch = u.batch /\ v.was = u.was /\ v.next = u.next /\ v.done = u.done /\ v.seen = u.seen
    BY <1>1, <1>8 DEF ImportReq
  <2>2. Skipped(v.dup) = 0 /\ Skipped(u.dup) = 0 /\ Doubles(v.dup) = Doubles(u.dup) + 1 /\ Len(v.new) = Len(u.new)
    BY <1>1, <1>8, <2>1 DEF Skipped, Doubles
  <2>a. PICK ok \in Nat, failed \in Nat, len \in Nat : ok = u.ok /\ failed = u.failed /\ len = Len(u.new)
    BY <1>1
  <2>b. k = ok + failed + 0 + len
    BY <1>4, <2>2, <2>a
  <2>c. k + 1 = (ok + 1) + failed + 0 + len
    BY <2>b
  <2>3. k + 1 = v.ok + v.failed + Skipped(v.dup) + Len(v.new) /\ v.ok = Doubles(v.dup)
    BY <1>4, <2>1, <2>2, <2>a, <2>c
  <2>4. Placed(w, v) /\ v.next = w.next /\ v.done = w.done /\ v.seen = w.seen /\ (job.rule # "create_new" => Fresh(v.new, w.seen))
    BY <1>5, <2>1 DEF Placed
  <2>5. QED
    BY <1>3, <2>3, <2>4 DEF RowsRead
<1>9. CASE p # Invalid /\ v = [u EXCEPT !.new = Append(@, p)] /\ (job.rule # "create_new" => p \notin u.seen \cup Range(u.new))
  <2>1. v.new = Append(u.new, p) /\ v.dup = u.dup /\ v.ok = u.ok /\ v.failed = u.failed
        /\ v.batch = u.batch /\ v.was = u.was /\ v.next = u.next /\ v.done = u.done /\ v.seen = u.seen
    BY <1>1, <1>9 DEF ImportReq
  <2>2. Len(v.new) = Len(u.new) + 1
    BY <1>1, <2>1
  <2>3. job.rule # "create_new" => Fresh(v.new, w.seen)
    BY <1>1, <1>5, <1>9, <2>1, FreshAppended
  <2>4. Skipped(u.dup) \in Nat /\ Skipped(v.dup) = Skipped(u.dup) /\ Doubles(v.dup) = Doubles(u.dup)
    BY <1>1, <2>1 DEF Skipped
  <2>5. k + 1 = v.ok + v.failed + Skipped(v.dup) + Len(v.new) /\ v.ok = Doubles(v.dup)
    <3>1. PICK a, b, c, d \in Nat : a = u.ok /\ b = u.failed /\ c = Skipped(u.dup) /\ d = Len(u.new)
      BY <1>1, <2>4
    <3>2. k = a + b + c + d
      BY <1>4, <3>1
    <3>3. k + 1 = a + b + c + (d + 1)
      BY <3>2
    <3>4. QED
      BY <1>4, <2>1, <2>2, <2>4, <3>1, <3>3
  <2>6. Placed(w, v) /\ v.next = w.next /\ v.done = w.done /\ v.seen = w.seen
    BY <1>5, <2>1 DEF Placed
  <2>7. QED
    BY <1>3, <2>3, <2>5, <2>6 DEF RowsRead
<1>10. QED
  BY <1>2, <1>6, <1>7, <1>8, <1>9 DEF WithRow

LEMMA RowsAreRead ==
    ASSUME TypeInv, NEW w \in ImportReq, w.ok = 0, w.failed = 0, w.dup = 0, w.new = <<>>
    PROVE  RowsRead(w, AfterRows(w), Len(job.rows))
<1>0. PICK n \in Nat : \E g :
          /\ n = Len(job.rows) /\ g[0] = w /\ AfterRows(w) = g[n]
          /\ \A k \in 0..n : k # n =>
                k + 1 \in 0..n /\ job.rows[k + 1] \in Phone \cup {Invalid} /\ g[k + 1] = WithRow(g[k], job.rows[k + 1])
  BY AfterRowsSteps
<1>1. PICK g :
          /\ n = Len(job.rows) /\ g[0] = w /\ AfterRows(w) = g[n]
          /\ \A k \in 0..n : k # n =>
                k + 1 \in 0..n /\ job.rows[k + 1] \in Phone \cup {Invalid} /\ g[k + 1] = WithRow(g[k], job.rows[k + 1])
  BY <1>0
<1> DEFINE S == {k \in 0..n : RowsRead(w, g[k], k)}
<1>2. 0 \in S
  <2>1. Doubles(0) = 0 /\ Skipped(0) = 0
    BY DEF Doubles, Skipped
  <2>2. Len(w.new) = 0 /\ DOMAIN w.new = {}
    OBVIOUS
  <2>3. RowsRead(w, w, 0)
    BY <2>1, <2>2 DEF RowsRead, Placed, Fresh
  <2>4. QED
    BY <1>1, <2>3
<1>3. ASSUME NEW k \in 0..n, k \in S, k # n PROVE k + 1 \in S
  <2>1. PICK p \in Phone \cup {Invalid} : p = job.rows[k + 1]
    BY <1>1, <1>3
  <2>2. PICK u, v : u = g[k] /\ v = g[k + 1]
    OBVIOUS
  <2>3. v = WithRow(u, p) /\ RowsRead(w, u, k) /\ k \in Nat
    BY <1>1, <1>3, <2>1, <2>2
  <2>4. RowsRead(w, v, k + 1)
    BY <2>3, RowReads
  <2>5. QED
    BY <1>1, <1>3, <2>2, <2>4
<1> HIDE DEF S
<1>4. \A k \in 0..n : k \in S /\ k # n => k + 1 \in S
  BY <1>3
<1>5. 0..n \subseteq S
  BY <1>2, <1>4, Climb
<1>6. n \in 0..n
  OBVIOUS
<1>7. QED
  BY <1>1, <1>5, <1>6 DEF S

LEMMA FileBegins ==
    ASSUME TypeInv, NEW r \in Request, NEW v, v = req'[r], RunImport(r)
    PROVE  /\ Begun(r, v) /\ v.op = "import" /\ v.next = "parse" /\ v.batch = 0 /\ v.was = 0 /\ v.new = <<>> /\ v.done = 0
           /\ v.ok = 0 /\ v.failed = 0 /\ v.dup = 0
           /\ job.st = "pending" /\ job' = [job EXCEPT !.st = "processing"]
<1>1. PICK w : w = [op |-> "import", next |-> "parse", batch |-> 0, was |-> 0, n |-> 0, seen |-> {},
                    new |-> <<>>, done |-> 0, ok |-> 0, failed |-> 0, dup |-> 0]
  OBVIOUS
<1>2. w \in IntakeReq /\ w.op = "import" /\ w.next = "parse" /\ w.batch = 0 /\ w.was = 0 /\ w.new = <<>> /\ w.done = 0
      /\ w.ok = 0 /\ w.failed = 0 /\ w.dup = 0
  BY <1>1 DEF IntakeReq, ImportReq
<1>3. Start(r, w.op, w) /\ UNCHANGED <<mix, crashed>> /\ job.st = "pending" /\ job' = [job EXCEPT !.st = "processing"]
  BY <1>1, <1>2 DEF RunImport
<1>4. QED
  BY <1>2, <1>3, IntakeBegun

\* The file's rows are counted, its batch opened, the numbers read, then the
\* rows.
LEMMA FileReads ==
    ASSUME TypeInv, NEW r \in Request, NEW u, u = req[r], NEW v, v = req'[r]
    PROVE  /\ u.op = "import" => u \in ImportReq
           /\ Parse(r) =>
                 /\ u.op = "import" /\ u.next = "parse" /\ Becomes(r, v) /\ v.op = "import" /\ v.next = "open"
                 /\ v.new = u.new /\ v.done = u.done /\ Scored(u, v) /\ Placed(u, v) /\ job' = [job EXCEPT !.total = Len(job.rows)]
           /\ OpenBatch(r) =>
                 /\ u.op = "import" /\ u.next = "open" /\ Becomes(r, v) /\ v.op = "import" /\ v.next = "phones"
                 /\ v.new = u.new /\ v.done = u.done /\ Scored(u, v) /\ v.was = u.was /\ v.batch = Len(batches) + 1
                 /\ batches' = Append(batches, [kind |-> "import", total |-> 0])
           /\ ReadPhones(r) =>
                 /\ u.op = "import" /\ u.next = "phones" /\ Becomes(r, v) /\ v.op = "import" /\ v.next = "rows"
                 /\ v.new = u.new /\ v.done = u.done /\ Scored(u, v) /\ Placed(u, v)
                 /\ v.seen = {p \in Phone : Live(p) # {}}
           /\ ReadRows(r) =>
                 /\ u.op = "import" /\ u.next = "rows" /\ Becomes(r, v)
                 /\ \E w \in ImportReq : w = AfterRows(u) /\ FileDecided(w, v)
<1>0. u.op = "import" => u \in ImportReq
  BY InIntake DEF IntakeKinds
<1>1. ASSUME Parse(r)
      PROVE  /\ u.op = "import" /\ u.next = "parse" /\ Becomes(r, v) /\ v.op = "import" /\ v.next = "open"
             /\ v.new = u.new /\ v.done = u.done /\ Scored(u, v) /\ Placed(u, v) /\ job' = [job EXCEPT !.total = Len(job.rows)]
  <2>1. u.op = "import" /\ u.next = "parse" /\ job' = [job EXCEPT !.total = Len(job.rows)]
    BY <1>1 DEF Parse, At
  <2>2. PICK w : w = [u EXCEPT !.next = "open"]
    OBVIOUS
  <2>3. Becomes(r, w) /\ v = w
    BY <1>1, <2>2, GoesTo DEF Parse, Goto
  <2>4. w.op = "import" /\ w.next = "open" /\ w.new = u.new /\ w.done = u.done /\ Scored(u, w) /\ Placed(u, w)
    BY <1>0, <2>1, <2>2 DEF ImportReq, Scored, Placed
  <2>5. QED
    BY <2>1, <2>3, <2>4
<1>2. ASSUME OpenBatch(r)
      PROVE  /\ u.op = "import" /\ u.next = "open" /\ Becomes(r, v) /\ v.op = "import" /\ v.next = "phones"
             /\ v.new = u.new /\ v.done = u.done /\ Scored(u, v) /\ v.was = u.was /\ v.batch = Len(batches) + 1
             /\ batches' = Append(batches, [kind |-> "import", total |-> 0])
  <2>1. u.op = "import" /\ u.next = "open" /\ batches' = Append(batches, [kind |-> "import", total |-> 0])
    BY <1>2 DEF OpenBatch, At
  <2>2. PICK n : n = Len(batches')
    OBVIOUS
  <2>3. n = Len(batches) + 1
    BY <2>1, <2>2, IntakeVariables
  <2>4. PICK w : w = [u EXCEPT !.batch = n, !.next = "phones"]
    OBVIOUS
  <2>5. Becomes(r, w) /\ v = w
    BY <1>2, <2>2, <2>4, GoesTo DEF OpenBatch, Update
  <2>6. w.op = "import" /\ w.next = "phones" /\ w.new = u.new /\ w.done = u.done /\ Scored(u, w) /\ w.was = u.was /\ w.batch = n
    BY <1>0, <2>1, <2>4 DEF ImportReq, Scored
  <2>7. QED
    BY <2>1, <2>3, <2>5, <2>6
<1>3. ASSUME ReadPhones(r)
      PROVE  /\ u.op = "import" /\ u.next = "phones" /\ Becomes(r, v) /\ v.op = "import" /\ v.next = "rows"
             /\ v.new = u.new /\ v.done = u.done /\ Scored(u, v) /\ Placed(u, v)
             /\ v.seen = {p \in Phone : Live(p) # {}}
  <2>1. u.op = "import" /\ u.next = "phones"
    BY <1>3 DEF ReadPhones, At
  <2>2. PICK seen : seen = {p \in Phone : Live(p) # {}}
    OBVIOUS
  <2>3. PICK w : w = [u EXCEPT !.seen = seen, !.next = "rows"]
    OBVIOUS
  <2>4. Becomes(r, w) /\ v = w
    BY <1>3, <2>2, <2>3, GoesTo DEF ReadPhones, Update
  <2>5. w.op = "import" /\ w.next = "rows" /\ w.new = u.new /\ w.done = u.done /\ Scored(u, w) /\ Placed(u, w) /\ w.seen = seen
    BY <1>0, <2>1, <2>3 DEF ImportReq, Scored, Placed
  <2>6. QED
    BY <2>1, <2>2, <2>4, <2>5
<1>4. ASSUME ReadRows(r)
      PROVE  /\ u.op = "import" /\ u.next = "rows" /\ Becomes(r, v)
             /\ \E w \in ImportReq : w = AfterRows(u) /\ FileDecided(w, v)
  <2>1. u.op = "import" /\ u.next = "rows"
    BY <1>4 DEF ReadRows, At
  <2>2. PICK w \in ImportReq : w = AfterRows(u)
    BY <1>0, <2>1, AfterRowsType
  <2>3. PICK x : x = Counted(w)
    OBVIOUS
  <2>4. FileDecided(w, x)
    BY <2>3, FileCounted
  <2>5. Becomes(r, x) /\ v = x
    BY <1>4, <2>2, <2>3, GoesTo DEF ReadRows, Update
  <2>6. QED
    BY <2>1, <2>2, <2>4, <2>5
<1>5. QED
  BY <1>0, <1>1, <1>2, <1>3, <1>4

\* The leads come in chunks; a chunk may be refused.
LEMMA FileInserts ==
    ASSUME TypeInv, NEW r \in Request, NEW u, u = req[r], NEW v, v = req'[r]
    PROVE  /\ Insert(r) =>
                 /\ u.op = "import" /\ u.next = "bulk" /\ Refers(u.batch) /\ Becomes(r, v)
                 /\ v.op = "import" /\ v.next = "bulk" /\ Placed(u, v) /\ Scored(u, v) /\ v.new = u.new
                 /\ v.done \in Nat /\ u.done < v.done /\ v.done <= Len(u.new)
                 /\ Grown(v.done - u.done, u.batch, "file")
                 /\ \A i \in 1..(v.done - u.done) : arrived'[Len(arrived) + i].phone = u.new[u.done + i]
           /\ Inserted(r) =>
                 /\ u.op = "import" /\ u.next = "bulk" /\ u.done = Len(u.new) /\ Becomes(r, v)
                 /\ v.op = "import" /\ v.next = "recount" /\ Placed(u, v) /\ v.failed = u.failed /\ v.dup = u.dup
                 /\ v.ok = u.ok + Len(u.new) /\ counted' = Nudged(Len(u.new))
           /\ InsertFails(r) =>
                 /\ u.op = "import" /\ u.next = "bulk" /\ Becomes(r, v)
                 /\ v.op = "import" /\ v.next = "recount" /\ Placed(u, v) /\ v.ok = u.ok /\ v.dup = u.dup
                 /\ v.failed = u.failed + Len(u.new) /\ (u.done > 0 => {"chunks"} \in met')
<1>0. u.op = "import" => u \in ImportReq /\ u.new \in Seq(Phone) /\ Len(u.new) \in Nat /\ u.done \in Nat
                         /\ u.ok \in Nat /\ u.failed \in Nat
  BY InIntake, ImportFields DEF IntakeKinds
<1>1. ASSUME Insert(r)
      PROVE  /\ u.op = "import" /\ u.next = "bulk" /\ Refers(u.batch) /\ Becomes(r, v)
             /\ v.op = "import" /\ v.next = "bulk" /\ Placed(u, v) /\ Scored(u, v) /\ v.new = u.new
             /\ v.done \in Nat /\ u.done < v.done /\ v.done <= Len(u.new)
             /\ Grown(v.done - u.done, u.batch, "file")
             /\ \A i \in 1..(v.done - u.done) : arrived'[Len(arrived) + i].phone = u.new[u.done + i]
  <2>1. u.op = "import" /\ u.next = "bulk" /\ Refers(u.batch) /\ u.done < Len(u.new)
    BY <1>1 DEF Insert, At
  <2>2. PICK upto : upto = IF u.done + Chunk < Len(u.new) THEN u.done + Chunk ELSE Len(u.new)
    OBVIOUS
  <2>3. upto \in Nat /\ u.done < upto /\ upto <= Len(u.new)
    BY <1>0, <2>1, <2>2, IntakeConstants
  <2>4. PICK k \in Nat : k = upto - u.done
    BY <1>0, <2>1, <2>3
  <2>5. PICK s \in Seq(Phone) : s = u.new
    BY <1>0, <2>1
  <2>6. PICK chunk : chunk = SubSeq(s, u.done + 1, upto)
    OBVIOUS
  <2>7. chunk \in Seq(Phone) /\ Len(chunk) = k /\ DOMAIN chunk = 1..k /\ \A i \in 1..k : chunk[i] = s[u.done + i]
    <3>1. PICK d \in Nat : d = u.done
      BY <1>0, <2>1
    <3>2. upto <= Len(s) /\ d + 1 <= upto /\ Len(s) \in Nat
      BY <2>3, <2>5, <3>1
    <3>3. d + 1 \in 1..(Len(s) + 1) /\ upto \in ((d + 1) - 1)..Len(s) /\ upto - (d + 1) + 1 = k
      BY <2>3, <2>4, <3>1, <3>2
    <3>4. chunk \in Seq(Phone) /\ Len(chunk) = k /\ \A i \in 1..k : chunk[i] = s[(d + 1) + i - 1]
      <4>1. PICK a \in Int : a = d + 1
        BY <3>1
      <4>2. a <= upto /\ upto \in Int /\ upto - a + 1 = k /\ \A i \in a..upto : s[i] \in Phone
        BY <2>3, <3>1, <3>2, <3>3, <4>1
      <4>3. /\ SubSeq(s, a, upto) \in Seq(Phone)
            /\ Len(SubSeq(s, a, upto)) = IF a <= upto THEN upto - a + 1 ELSE 0
            /\ \A i \in 1..(upto - a + 1) : SubSeq(s, a, upto)[i] = s[a + i - 1]
        BY <4>2, SubSeqProperties
      <4>4. chunk = SubSeq(s, a, upto)
        BY <2>6, <3>1, <4>1
      <4>5. QED
        BY <4>1, <4>2, <4>3, <4>4
    <3>5. \A i \in 1..k : (d + 1) + i - 1 = d + i
      BY <3>1
    <3>6. QED
      BY <3>1, <3>4, <3>5
  <2>8. PICK rows : rows = [i \in DOMAIN chunk |-> NewLead(chunk[i], u.batch, "file")]
    OBVIOUS
  <2>9. DOMAIN rows = 1..k /\ \A i \in 1..k : /\ rows[i].phone = s[u.done + i] /\ rows[i].live
                                              /\ rows[i].batch = u.batch /\ rows[i].from = "file"
    BY <2>7, <2>8 DEF NewLead
  <2>10. arrived' = arrived \o rows /\ req' = [req EXCEPT ![r] = [u EXCEPT !.done = upto]]
    BY <1>1, <2>2, <2>5, <2>6, <2>8 DEF Insert, Update
  <2>11. PICK m \in Nat : m = Len(arrived) /\ DOMAIN arrived = 1..m /\ arrived \in Seq(Arrival)
    BY Rows
  <2>12. rows \in Seq(Arrival) /\ Len(rows) = k
    <3>1. u.batch \in Nat
      BY <1>0, <2>1 DEF ImportReq
    <3>2. \A i \in 1..k : NewLead(chunk[i], u.batch, "file") \in Arrival
      <4>1. \A i \in 1..k : chunk[i] \in Phone
        BY <2>7
      <4>2. QED
        BY <3>1, <4>1 DEF NewLead, Arrival
    <3>3. rows \in [1..k -> Arrival]
      BY <2>7, <2>8, <3>2
    <3>4. rows \in Seq(Arrival)
      BY <3>3, MapRows
    <3>5. QED
      BY <3>4, <2>9
  <2>13. /\ DOMAIN arrived' = 1..(m + k) /\ \A i \in 1..m : arrived'[i] = arrived[i]
         /\ \A i \in 1..k : arrived'[m + i] = rows[i]
    BY <2>10, <2>11, <2>12
  <2>14. ASSUME NEW i \in (m + 1)..(m + k)
         PROVE  arrived'[i].live /\ arrived'[i].batch = u.batch /\ arrived'[i].from = "file"
    <3>1. PICK j \in 1..k : i = m + j
      <4>1. i - m \in 1..k /\ i = m + (i - m)
        OBVIOUS
      <4>2. QED
        BY <4>1
    <3>2. QED
      BY <2>9, <2>13, <3>1
  <2>15. Grown(k, u.batch, "file")
    BY <2>11, <2>13, <2>14 DEF Grown
  <2>16. PICK w : w = [u EXCEPT !.done = upto]
    OBVIOUS
  <2>17. Becomes(r, w) /\ v = w
    BY <2>10, <2>16, GoesTo
  <2>18. w.op = "import" /\ w.next = "bulk" /\ Placed(u, w) /\ Scored(u, w) /\ w.new = u.new /\ w.done = upto
    BY <1>0, <2>1, <2>16 DEF ImportReq, Placed, Scored
  <2>19. \A i \in 1..k : arrived'[Len(arrived) + i].phone = u.new[u.done + i]
    BY <2>5, <2>9, <2>11, <2>13
  <2>20. QED
    BY <2>1, <2>3, <2>4, <2>15, <2>17, <2>18, <2>19
<1>2. ASSUME Inserted(r)
      PROVE  /\ u.op = "import" /\ u.next = "bulk" /\ u.done = Len(u.new) /\ Becomes(r, v)
             /\ v.op = "import" /\ v.next = "recount" /\ Placed(u, v) /\ v.failed = u.failed /\ v.dup = u.dup
             /\ v.ok = u.ok + Len(u.new) /\ counted' = Nudged(Len(u.new))
  <2>1. u.op = "import" /\ u.next = "bulk" /\ u.done = Len(u.new) /\ counted' = Nudged(Len(u.new))
    BY <1>2 DEF Inserted, At
  <2>2. PICK n : n = u.ok + Len(u.new)
    OBVIOUS
  <2>3. PICK w : w = [u EXCEPT !.ok = n, !.next = "recount"]
    OBVIOUS
  <2>4. [u EXCEPT !.ok = @ + Len(u.new), !.next = "recount"] = w
    BY <1>0, <2>1, <2>2, <2>3 DEF ImportReq
  <2>5. Becomes(r, w) /\ v = w
    BY <1>2, <2>4, GoesTo DEF Inserted, Update
  <2>6. w.op = "import" /\ w.next = "recount" /\ Placed(u, w) /\ w.failed = u.failed /\ w.dup = u.dup /\ w.ok = n
    BY <1>0, <2>1, <2>3 DEF ImportReq, Placed
  <2>7. QED
    BY <2>1, <2>2, <2>5, <2>6
<1>3. ASSUME InsertFails(r)
      PROVE  /\ u.op = "import" /\ u.next = "bulk" /\ Becomes(r, v)
             /\ v.op = "import" /\ v.next = "recount" /\ Placed(u, v) /\ v.ok = u.ok /\ v.dup = u.dup
             /\ v.failed = u.failed + Len(u.new) /\ (u.done > 0 => {"chunks"} \in met')
  <2>1. u.op = "import" /\ u.next = "bulk" /\ (u.done > 0 => {"chunks"} \in met')
    BY <1>3 DEF InsertFails, At
  <2>2. PICK n : n = u.failed + Len(u.new)
    OBVIOUS
  <2>3. PICK w : w = [u EXCEPT !.failed = n, !.next = "recount"]
    OBVIOUS
  <2>4. [u EXCEPT !.failed = @ + Len(u.new), !.next = "recount"] = w
    BY <1>0, <2>1, <2>2, <2>3 DEF ImportReq
  <2>5. Becomes(r, w) /\ v = w
    BY <1>3, <2>4, GoesTo DEF InsertFails, Update
  <2>6. w.op = "import" /\ w.next = "recount" /\ Placed(u, w) /\ w.ok = u.ok /\ w.dup = u.dup /\ w.failed = n
    BY <1>0, <2>1, <2>3 DEF ImportReq, Placed
  <2>7. QED
    BY <2>1, <2>2, <2>5, <2>6
<1>4. QED
  BY <1>1, <1>2, <1>3

\* It ends as it counted, or the file cannot be read.
LEMMA FileEnds ==
    ASSUME TypeInv, NEW r \in Request, NEW u, u = req[r], NEW v, v = req'[r]
    PROVE  /\ Unreadable(r) =>
                 /\ u.op = "import" /\ u.next = "parse" /\ Becomes(r, Idle) /\ v = Idle /\ job' = [job EXCEPT !.st = "failed"]
           /\ FinishImport(r) =>
                 /\ u.op = "import" /\ u.next = "finish" /\ Becomes(r, Idle) /\ v = Idle
                 /\ job'.st \in {"completed", "partial", "failed"} /\ job'.total = job.total /\ job'.rule = job.rule
                 /\ job'.ok = u.ok /\ job'.failed = u.failed /\ job'.dup = u.dup
<1>1. ASSUME Unreadable(r)
      PROVE  /\ u.op = "import" /\ u.next = "parse" /\ Becomes(r, Idle) /\ v = Idle /\ job' = [job EXCEPT !.st = "failed"]
  BY <1>1, GoesTo DEF Unreadable, At, Finish, Idle
<1>2. ASSUME FinishImport(r)
      PROVE  /\ u.op = "import" /\ u.next = "finish" /\ Becomes(r, Idle) /\ v = Idle
             /\ job'.st \in {"completed", "partial", "failed"} /\ job'.total = job.total /\ job'.rule = job.rule
             /\ job'.ok = u.ok /\ job'.failed = u.failed /\ job'.dup = u.dup
  <2>1. u.op = "import" /\ u.next = "finish" /\ Becomes(r, Idle) /\ v = Idle
    BY <1>2, GoesTo DEF FinishImport, At, Finish, Idle
  <2>2. PICK st \in {"completed", "partial", "failed"} :
            st = IF u.failed = 0 THEN "completed" ELSE IF u.ok > 0 THEN "partial" ELSE "failed"
    OBVIOUS
  <2>3. job' = [job EXCEPT !.ok = u.ok, !.failed = u.failed, !.dup = u.dup, !.st = st]
    BY <1>2, <2>2 DEF FinishImport
  <2>4. QED
    BY <2>1, <2>2, <2>3, IntakeVariables DEF JobRec
<1>3. QED
  BY <1>1, <1>2

-----------------------------------------------------------------------------
(* What every step of the intake keeps.                                      *)

Saving == Adders \cup {"toggle"}
Early == {"parse", "open", "phones", "rows"}

\* Two requests of the intake that are in progress are noted as having met.
IntakeMeets ==
    \A p, q \in Request : p # q /\ req[p].op \in IntakeKinds /\ req[q].op \in IntakeKinds => {req[p].op, req[q].op} \in met

\* The lead of an edit is there, and came from where it did when it was
\* loaded; a copy of the source has its rule; an import that has
\* not read its rows has counted none.
Keeps(w) ==
    /\ w.op \in Editors => w.lead \in DOMAIN arrived /\ w.row.live /\ w.row.from = arrived[w.lead].from
    /\ w.op \in Saving => w.copy.rule = source.rule
    /\ w.op = "import" => /\ w.next \in Early => w.new = <<>> /\ w.done = 0 /\ w.ok = 0 /\ w.failed = 0 /\ w.dup = 0
                          /\ w.next = "cache" => w.done = 0
                          /\ w.next = "bulk" => w.done <= Len(w.new)
KeptInv == (job.st = "none" => job = NoJob) /\ \A r \in Request : Keeps(req[r])

\* A request of the intake begins, goes on or ends.
GoesOn(r, v) ==
    \/ Begun(r, v) /\ v.op \in IntakeKinds
    \/ Becomes(r, v) /\ req[r].op \in IntakeKinds /\ v.op \in {req[r].op, "idle"}
\* What it loaded is there, or it loaded it before.
Brings(r, v) ==
    /\ v.op \in Editors => v.lead \in DOMAIN arrived /\ FormLoaded(v, v.row.phone)
    /\ v.op \in Saving => v.copy.rule = source.rule
    /\ v.op = "import" => /\ v.next \in Early => v.new = <<>> /\ v.done = 0 /\ v.ok = 0 /\ v.failed = 0 /\ v.dup = 0
                          /\ v.next = "cache" => v.done = 0
                          /\ v.next = "bulk" => v.done <= Len(v.new)

LEMMA HookGoes ==
    ASSUME TypeInv, KeptInv, NEW r \in Request, NEW v, v = req'[r],
           \/ \E left \in Deliveries : SyncNow(r, left) \/ \E lenient \in BOOLEAN : Deliver(r, left, lenient)
           \/ LookUp(r) \/ TodaysBatch(r) \/ CreateFails(r) \/ (NoteCreated(r) /\ req[r].op # "hand")
           \/ AddToBatch(r) \/ SaveReceived(r) \/ SaveError(r)
    PROVE  GoesOn(r, v) /\ Brings(r, v)
<1>1. PICK u : u = req[r]
  OBVIOUS
<1>2. Adders \subseteq IntakeKinds /\ Adders \subseteq Saving /\ Adders \cap Editors = {} /\ "import" \notin Adders /\ "idle" \notin Adders
  BY DEF Adders, Saving, IntakeKinds, Editors
<1>3. Idle.op \notin Saving \cup Editors \cup {"import"} /\ Idle.op = "idle"
  BY DEF Idle, Saving, Adders, Editors
<1>4. CASE \E left \in Deliveries : SyncNow(r, left) \/ \E lenient \in BOOLEAN : Deliver(r, left, lenient)
  <2>1. Begun(r, v) /\ v.op \in Adders /\ HookLoads(v)
    BY <1>4, HookBegins
  <2>2. v.copy = source
    BY <2>1 DEF HookLoads, LookedUpTo, HookStays
  <2>3. QED
    BY <1>2, <2>1, <2>2 DEF GoesOn, Brings
<1>5. ASSUME u.op \in Adders, Becomes(r, v), v.op = u.op, v.copy = u.copy PROVE GoesOn(r, v) /\ Brings(r, v)
  <2>1. u.copy.rule = source.rule
    BY <1>1, <1>2, <1>5 DEF KeptInv, Keeps
  <2>2. QED
    BY <1>1, <1>2, <1>5, <2>1 DEF GoesOn, Brings
<1>6. CASE LookUp(r) \/ TodaysBatch(r) \/ CreateFails(r) \/ (NoteCreated(r) /\ u.op # "hand") \/ AddToBatch(r)
  <2>1. u.op \in Adders /\ Becomes(r, v) /\ v.op = u.op /\ v.copy = u.copy
    BY <1>1, <1>6, HookMoves DEF LookedUpTo, HookStays
  <2>2. QED
    BY <1>5, <2>1
<1>7. CASE SaveReceived(r) \/ SaveError(r)
  <2>1. u.op \in Adders /\ Becomes(r, v) /\ v = Idle
    BY <1>1, <1>7, HookMoves
  <2>2. QED
    BY <1>1, <1>2, <1>3, <2>1 DEF GoesOn, Brings
<1>8. QED
  BY <1>1, <1>4, <1>6, <1>7

LEMMA HandGoes ==
    ASSUME TypeInv, KeptInv, NEW r \in Request, NEW v, v = req'[r],
           CreateLead(r) \/ (\E p \in Phone : ByForm(r, p)) \/ (NoteCreated(r) /\ req[r].op = "hand")
    PROVE  GoesOn(r, v) /\ Brings(r, v)
<1>1. PICK u : u = req[r]
  OBVIOUS
<1>2. ByOne \subseteq IntakeKinds /\ ByOne = Adders \cup {"hand"} /\ Adders \subseteq Saving
      /\ Saving \cap {"hand", "idle"} = {} /\ ByOne \cap (Editors \cup {"import", "idle"}) = {}
  BY DEF ByOne, Adders, Saving, IntakeKinds, Editors
<1>3. "hand" \in IntakeKinds /\ Idle.op = "idle" /\ "idle" \notin Editors
  BY DEF IntakeKinds, Idle, Editors
<1>4. CASE CreateLead(r)
  <2>1. u.op \in ByOne /\ Becomes(r, v) /\ v.op = u.op /\ (u.op \in Adders => v.copy = u.copy)
    BY <1>1, <1>4, CreateMoves
  <2>2. u.op \in Adders => u.copy.rule = source.rule
    BY <1>1, <1>2 DEF KeptInv, Keeps
  <2>3. QED
    BY <1>1, <1>2, <2>1, <2>2 DEF GoesOn, Brings
<1>5. CASE \E p \in Phone : ByForm(r, p)
  <2>1. Begun(r, v) /\ v.op = "hand"
    BY <1>5, FormMoves
  <2>2. QED
    BY <1>2, <1>3, <2>1 DEF GoesOn, Brings
<1>6. CASE NoteCreated(r) /\ u.op = "hand"
  <2>1. Becomes(r, v) /\ v = Idle
    BY <1>1, <1>6, FormMoves
  <2>2. QED
    BY <1>1, <1>2, <1>3, <1>6, <2>1 DEF GoesOn, Brings
<1>7. QED
  BY <1>1, <1>4, <1>5, <1>6

LEMMA RowGoes ==
    ASSUME TypeInv, KeptInv, NEW r \in Request, NEW v, v = req'[r],
           \/ \E i \in DOMAIN arrived, p \in Phone : Amend(r, i, p)
           \/ \E b \in DOMAIN batches : Rename(r, b)
           \/ \E on \in BOOLEAN : SetSource(r, on)
           \/ SaveLead(r) \/ SaveBatch(r) \/ SaveSource(r)
    PROVE  GoesOn(r, v) /\ Brings(r, v)
<1>1. PICK u : u = req[r]
  OBVIOUS
<1>2. /\ Editors \cup {"rename", "toggle"} \subseteq IntakeKinds /\ Saving \cap (Editors \cup {"rename", "idle", "import"}) = {}
      /\ Editors \cap {"rename", "toggle", "idle", "import"} = {} /\ Idle.op = "idle"
  BY DEF IntakeKinds, Saving, Adders, Idle, Editors
<1>3. CASE \E i \in DOMAIN arrived, p \in Phone : Amend(r, i, p)
  <2>1. PICK i \in DOMAIN arrived, p \in Phone : Begun(r, v) /\ v.op \in Editors /\ v.lead = i /\ FormLoaded(v, p)
    BY <1>1, <1>3, RowMoves
  <2>2. v.row.phone = p
    BY <2>1 DEF FormLoaded
  <2>3. QED
    BY <1>2, <2>1, <2>2 DEF GoesOn, Brings
<1>4. CASE \E b \in DOMAIN batches : Rename(r, b)
  <2>1. Begun(r, v) /\ v.op = "rename"
    BY <1>1, <1>4, RowMoves
  <2>2. QED
    BY <1>2, <2>1 DEF GoesOn, Brings
<1>5. CASE \E on \in BOOLEAN : SetSource(r, on)
  <2>1. PICK on \in BOOLEAN : SetSource(r, on)
    BY <1>5
  <2>2. Begun(r, v) /\ v.op = "toggle" /\ v.copy = [source EXCEPT !.on = on]
    BY <1>1, <2>1, ToggleMoves
  <2>3. v.copy.rule = source.rule
    BY <2>2, IntakeVariables DEF SourceRec
  <2>4. QED
    BY <1>2, <2>2, <2>3 DEF GoesOn, Brings
<1>6. CASE SaveLead(r) \/ SaveBatch(r) \/ SaveSource(r)
  <2>1. u.op \in Editors \cup {"rename", "toggle"} /\ Becomes(r, v) /\ v = Idle
    BY <1>1, <1>6, RowMoves, ToggleMoves
  <2>2. QED
    BY <1>1, <1>2, <2>1 DEF GoesOn, Brings
<1>7. QED
  BY <1>3, <1>4, <1>5, <1>6

LEMMA CountGoes ==
    ASSUME TypeInv, KeptInv, NEW r \in Request, NEW v, v = req'[r],
           \/ \E ls \in (SUBSET DOMAIN arrived) \ {{}} : Delete(r, ls)
           \/ MarkDeleted(r) \/ LoadBatch(r) \/ Recount(r) \/ SaveTotal(r)
    PROVE  GoesOn(r, v) /\ Brings(r, v)
<1>1. PICK u : u = req[r]
  OBVIOUS
<1>2. Counters \subseteq IntakeKinds /\ Saving \cap {"delete", "import", "idle"} = {} /\ Idle.op = "idle" /\ "delete" \in IntakeKinds
      /\ Counters = {"delete", "import"} /\ {"total", "finish"} \cap (Early \cup {"cache", "bulk"}) = {}
      /\ Editors = {"amend", "renumber"}
  BY DEF IntakeKinds, Saving, Adders, Idle, Counters, Early, Editors
<1>3. CASE \E ls \in (SUBSET DOMAIN arrived) \ {{}} : Delete(r, ls)
  <2>1. Begun(r, v) /\ v.op = "delete"
    BY <1>1, <1>3, DeleteMoves
  <2>2. QED
    BY <1>2, <2>1 DEF GoesOn, Brings
<1>4. CASE MarkDeleted(r) \/ LoadBatch(r)
  <2>1. u.op = "delete" /\ Becomes(r, v) /\ (v.op = "delete" \/ v = Idle)
    BY <1>1, <1>4, DeleteMoves
  <2>2. QED
    BY <1>1, <1>2, <2>1 DEF GoesOn, Brings
<1>5. CASE Recount(r) \/ SaveTotal(r)
  <2>1. u.op \in Counters /\ Becomes(r, v) /\ (Ended(u, v) \/ (v.op = u.op /\ v.next = "total"))
    BY <1>1, <1>5, CountMoves DEF CountStays
  <2>2. v.op \in {u.op, "idle"} /\ (v.op = "import" => v.next \in {"total", "finish"})
    BY <1>2, <2>1 DEF Ended
  <2>3. QED
    BY <1>1, <1>2, <2>1, <2>2 DEF GoesOn, Brings
<1>6. QED
  BY <1>3, <1>4, <1>5

LEMMA CacheGoes ==
    ASSUME TypeInv, KeptInv, NEW r \in Request, NEW v, v = req'[r], CacheCount(r)
    PROVE  GoesOn(r, v) /\ Brings(r, v)
<1>1. PICK u : u = req[r]
  OBVIOUS
<1>2. Makers = Adders \cup {"hand", "import"} /\ Makers \subseteq IntakeKinds /\ Saving = Adders \cup {"toggle"}
      /\ Adders = {"hook", "sync"} /\ Idle.op = "idle" /\ {"recount", "bulk"} \cap (Early \cup {"cache"}) = {}
      /\ Editors = {"amend", "renumber"}
  BY DEF Makers, Adders, IntakeKinds, Saving, Idle, Early, Editors
<1>3. u.op \in Makers /\ u.next = "cache" /\ Becomes(r, v)
  BY <1>1, CacheMoves
<1>4. CASE u.op \in Adders
  <2>1. v.op = u.op /\ v.copy = u.copy
    BY <1>1, <1>4, CacheMoves DEF HookAllowed, HookStays
  <2>2. u.copy.rule = source.rule
    BY <1>1, <1>2, <1>4 DEF KeptInv, Keeps
  <2>3. QED
    BY <1>1, <1>2, <1>3, <1>4, <2>1, <2>2 DEF GoesOn, Brings
<1>5. CASE u.op = "hand"
  <2>1. v.op \in {"hand", "idle"}
    BY <1>1, <1>2, <1>5, CacheMoves DEF HandStays
  <2>2. QED
    BY <1>1, <1>2, <1>3, <1>5, <2>1 DEF GoesOn, Brings
<1>6. CASE u.op = "import"
  <2>1. FileAllowed(u, v, u.n)
    BY <1>1, <1>6, CacheMoves
  <2>2. v.op = "import" /\ v.done = u.done /\ v.next \in {"recount", "bulk"} /\ v \in ImportReq
    BY <2>1 DEF FileAllowed, FileStays
  <2>3. u.done = 0 /\ Len(v.new) \in Nat
    BY <1>1, <1>3, <1>6, <2>2, ImportFields DEF KeptInv, Keeps
  <2>4. QED
    BY <1>1, <1>2, <1>3, <1>6, <2>2, <2>3 DEF GoesOn, Brings
<1>7. QED
  BY <1>2, <1>3, <1>4, <1>5, <1>6

LEMMA FileGoes ==
    ASSUME TypeInv, KeptInv, NEW r \in Request, NEW v, v = req'[r],
           \/ RunImport(r) \/ Parse(r) \/ Unreadable(r) \/ OpenBatch(r) \/ ReadPhones(r)
           \/ ReadRows(r) \/ Insert(r) \/ Inserted(r) \/ InsertFails(r) \/ FinishImport(r)
    PROVE  GoesOn(r, v) /\ Brings(r, v)
<1>1. PICK u : u = req[r]
  OBVIOUS
<1>2. "import" \in IntakeKinds /\ Saving \cap {"import", "idle"} = {} /\ Idle.op = "idle" /\ {"open", "phones", "rows"} \subseteq Early
      /\ {"recount", "bulk", "cache"} \cap Early = {} /\ Editors = {"amend", "renumber"}
  BY DEF IntakeKinds, Saving, Adders, Idle, Early, Editors
<1>3. u.op = "import" /\ u.next \in Early => u.new = <<>> /\ u.done = 0 /\ u.ok = 0 /\ u.failed = 0 /\ u.dup = 0
  BY <1>1 DEF KeptInv, Keeps
<1>4. CASE RunImport(r)
  <2>1. Begun(r, v) /\ v.op = "import" /\ v.next = "parse" /\ v.new = <<>> /\ v.done = 0 /\ v.ok = 0 /\ v.failed = 0 /\ v.dup = 0
    BY <1>4, FileBegins
  <2>2. QED
    BY <1>2, <2>1 DEF GoesOn, Brings
<1>5. CASE Parse(r) \/ OpenBatch(r) \/ ReadPhones(r)
  <2>1. /\ u.op = "import" /\ u.next \in Early /\ Becomes(r, v) /\ v.op = "import" /\ v.next \in {"open", "phones", "rows"}
        /\ v.new = u.new /\ v.done = u.done /\ Scored(u, v)
    BY <1>1, <1>5, FileReads DEF Early
  <2>2. QED
    BY <1>1, <1>2, <1>3, <2>1 DEF GoesOn, Brings, Scored
<1>6. CASE ReadRows(r)
  <2>1. PICK w \in ImportReq : /\ u.op = "import" /\ u.next = "rows" /\ Becomes(r, v)
                               /\ w = AfterRows(u) /\ FileDecided(w, v)
    BY <1>1, <1>6, FileReads
  <2>2. u \in ImportReq
    BY <1>1, <2>1, FileReads
  <2>3. w.done = 0
    BY <1>2, <1>3, <2>1, <2>2, RowsAreRead DEF RowsRead
  <2>4. v.op = "import" /\ v.done = 0 /\ v.next \in {"cache", "recount", "bulk"} /\ v \in ImportReq
    BY <2>1, <2>3 DEF FileDecided, FileAllowed, FileStays
  <2>5. Len(v.new) \in Nat
    BY <2>4, ImportFields
  <2>6. QED
    BY <1>1, <1>2, <2>1, <2>4, <2>5 DEF GoesOn, Brings
<1>7. CASE Insert(r) \/ Inserted(r) \/ InsertFails(r)
  <2>1. /\ u.op = "import" /\ Becomes(r, v) /\ v.op = "import" /\ v.next \in {"bulk", "recount"}
        /\ v.next = "bulk" => v.done <= Len(v.new)
    BY <1>1, <1>7, FileInserts
  <2>2. QED
    BY <1>1, <1>2, <2>1 DEF GoesOn, Brings
<1>8. CASE Unreadable(r) \/ FinishImport(r)
  <2>1. u.op = "import" /\ Becomes(r, v) /\ v = Idle
    BY <1>1, <1>8, FileEnds
  <2>2. QED
    BY <1>1, <1>2, <2>1 DEF GoesOn, Brings
<1>9. QED
  BY <1>4, <1>5, <1>6, <1>7, <1>8

\* Every step of the intake is one of a request, or leaves the requests alone.
LEMMA IntakeGoes ==
    ASSUME TypeInv, KeptInv, IntakeNext
    PROVE  UNCHANGED req \/ \E r \in Request : GoesOn(r, req'[r]) /\ Brings(r, req'[r])
<1>1. ASSUME NEW r \in Request,
             \/ \E left \in Deliveries : SyncNow(r, left) \/ \E lenient \in BOOLEAN : Deliver(r, left, lenient)
             \/ LookUp(r) \/ TodaysBatch(r) \/ CreateFails(r)
             \/ AddToBatch(r) \/ SaveReceived(r) \/ SaveError(r)
      PROVE  \E q \in Request : GoesOn(q, req'[q]) /\ Brings(q, req'[q])
  BY <1>1, HookGoes
<1>2. ASSUME NEW r \in Request, NoteCreated(r) \/ CreateLead(r) \/ \E p \in Phone : ByForm(r, p)
      PROVE  \E q \in Request : GoesOn(q, req'[q]) /\ Brings(q, req'[q])
  BY <1>2, HookGoes, HandGoes
<1>3. ASSUME NEW r \in Request,
             \/ \E i \in DOMAIN arrived, p \in Phone : Amend(r, i, p)
             \/ \E b \in DOMAIN batches : Rename(r, b)
             \/ \E on \in BOOLEAN : SetSource(r, on)
             \/ SaveLead(r) \/ SaveBatch(r) \/ SaveSource(r)
      PROVE  \E q \in Request : GoesOn(q, req'[q]) /\ Brings(q, req'[q])
  BY <1>3, RowGoes
<1>4. ASSUME NEW r \in Request,
             \/ \E ls \in (SUBSET DOMAIN arrived) \ {{}} : Delete(r, ls)
             \/ MarkDeleted(r) \/ LoadBatch(r) \/ Recount(r) \/ SaveTotal(r)
      PROVE  \E q \in Request : GoesOn(q, req'[q]) /\ Brings(q, req'[q])
  BY <1>4, CountGoes
<1>5. ASSUME NEW r \in Request,
             \/ RunImport(r) \/ Parse(r) \/ Unreadable(r) \/ OpenBatch(r) \/ ReadPhones(r)
             \/ ReadRows(r) \/ Insert(r) \/ Inserted(r) \/ InsertFails(r) \/ FinishImport(r) \/ CacheCount(r)
      PROVE  \E q \in Request : GoesOn(q, req'[q]) /\ Brings(q, req'[q])
  BY <1>5, FileGoes, CacheGoes
<1>6. CASE (\E b \in DOMAIN batches : DropBatch(b)) \/ Expires
           \/ \E file \in Files, rule \in {"skip", "update", "create_new"} : UploadFile(file, rule)
  BY <1>6 DEF DropBatch, Expires, UploadFile
<1>7. QED
  BY <1>1, <1>2, <1>3, <1>4, <1>5, <1>6 DEF IntakeNext

-----------------------------------------------------------------------------
(* Who changes what.                                                         *)

LEMMA ArrivedBy ==
    ASSUME IntakeNext
    PROVE  \/ UNCHANGED arrived
           \/ \E r \in Request : CreateLead(r) \/ Insert(r) \/ MarkDeleted(r) \/ SaveLead(r)
           \/ \E b \in DOMAIN batches : DropBatch(b)
BY Zenon DEF IntakeNext, intakeVars, SyncNow, Deliver, ByForm, Delete, Amend, Rename, SetSource, CacheCount, LookUp, TodaysBatch,
       CreateFails, NoteCreated, AddToBatch, SaveReceived, SaveError, SaveSource, LoadBatch, Recount, SaveTotal,
       SaveBatch, RunImport, Parse, Unreadable, OpenBatch, ReadPhones, ReadRows, Inserted, InsertFails,
       FinishImport, UploadFile, Expires

LEMMA BatchesBy ==
    ASSUME IntakeNext
    PROVE  \/ UNCHANGED batches
           \/ \E r \in Request : TodaysBatch(r) \/ AddToBatch(r) \/ SaveTotal(r) \/ SaveBatch(r) \/ OpenBatch(r)
           \/ \E b \in DOMAIN batches : DropBatch(b)
BY Zenon DEF IntakeNext, intakeVars, SyncNow, Deliver, ByForm, Delete, Amend, Rename, SetSource, CacheCount, LookUp, CreateLead,
       CreateFails, NoteCreated, SaveReceived, SaveError, SaveSource, MarkDeleted, LoadBatch, Recount, SaveLead,
       RunImport, Parse, Unreadable, ReadPhones, ReadRows, Insert, Inserted, InsertFails, FinishImport, UploadFile, Expires

LEMMA JobBy ==
    ASSUME IntakeNext
    PROVE  \/ UNCHANGED job
           \/ \E r \in Request : RunImport(r) \/ Parse(r) \/ Unreadable(r) \/ FinishImport(r)
           \/ \E file \in Files, rule \in {"skip", "update", "create_new"} : UploadFile(file, rule)
BY Zenon DEF IntakeNext, intakeVars, SyncNow, Deliver, ByForm, Delete, Amend, Rename, SetSource, CacheCount, LookUp, TodaysBatch,
       CreateLead, CreateFails, NoteCreated, AddToBatch, SaveReceived, SaveError, SaveSource, MarkDeleted, LoadBatch, Recount,
       SaveTotal, SaveLead, SaveBatch, OpenBatch, ReadPhones, ReadRows, Insert, Inserted, InsertFails, DropBatch, Expires

LEMMA SourceBy ==
    ASSUME IntakeNext
    PROVE  UNCHANGED source \/ \E r \in Request : SaveReceived(r) \/ SaveError(r) \/ SaveSource(r)
BY Zenon DEF IntakeNext, intakeVars, SyncNow, Deliver, ByForm, Delete, Amend, Rename, SetSource, CacheCount, LookUp, TodaysBatch,
       CreateLead, CreateFails, NoteCreated, AddToBatch, MarkDeleted, LoadBatch, Recount, SaveTotal, SaveLead, SaveBatch,
       RunImport, Parse, Unreadable, OpenBatch, ReadPhones, ReadRows, Insert, Inserted, InsertFails, FinishImport,
       DropBatch, UploadFile, Expires

LEMMA CountedBy ==
    ASSUME IntakeNext
    PROVE  \/ UNCHANGED counted
           \/ \E r \in Request : CacheCount(r) \/ NoteCreated(r) \/ Inserted(r)
           \/ Expires
BY Zenon DEF IntakeNext, intakeVars, SyncNow, Deliver, ByForm, Delete, Amend, Rename, SetSource, LookUp, TodaysBatch,
       CreateLead, CreateFails, AddToBatch, SaveReceived, SaveError, SaveSource, MarkDeleted, LoadBatch, Recount, SaveTotal,
       SaveLead, SaveBatch, RunImport, Parse, Unreadable, OpenBatch, ReadPhones, ReadRows, Insert, InsertFails,
       FinishImport, DropBatch, UploadFile

LEMMA MetHere == ASSUME NEW a, NEW b, NEW A, NEW B, a \in A, b \in B, {a, b} \in met' PROVE Met(A, B)'
BY DEF Met

LEMMA StillMet == ASSUME met \subseteq met', NEW A, NEW B, Met(A, B) PROVE Met(A, B)'
BY DEF Met

\* The requests of the intake go on meeting.
LEMMA IntakeMeet ==
    ASSUME TypeInv, KeptInv, IntakeMeets, IntakeNext
    PROVE  IntakeMeets' /\ met \subseteq met'
<1>1. met \subseteq met'
  BY IntakeTyped DEF IntakeStep, Only
<1>2. CASE UNCHANGED req
  BY <1>1, <1>2 DEF IntakeMeets
<1>3. CASE \E r \in Request : GoesOn(r, req'[r])
  <2>1. PICK r \in Request : GoesOn(r, req'[r])
    BY <1>3
  <2>2. PICK v : v = req'[r]
    OBVIOUS
  <2>3. \A q \in Request \ {r} : req'[q] = req[q]
    BY <2>1 DEF GoesOn, Begun, Becomes
  <2>4. \A q \in Request \ {r} : v.op \in IntakeKinds /\ req[q].op \in IntakeKinds => {v.op, req[q].op} \in met'
    <3>1. CASE Begun(r, v)
      <4>1. SUFFICES ASSUME v.op \in IntakeKinds PROVE \A q \in Request \ {r} : req[q].op \in IntakeKinds => {v.op, req[q].op} \in met'
        OBVIOUS
      <4>2. v.op \in Kinds /\ Meets(r, v.op)
        BY <3>1, <4>1 DEF Kinds, Begun
      <4>3. \A q \in Request \ {r} : ~Free(q) => {v.op, req[q].op} \in met'
        BY <4>2, Meeting DEF TypeInv
      <4>4. \A q \in Request : req[q].op \in IntakeKinds => ~Free(q)
        BY DEF Free, IntakeKinds
      <4>5. QED
        BY <4>3, <4>4
    <3>2. CASE req[r].op \in IntakeKinds /\ v.op \in {req[r].op, "idle"}
      BY <1>1, <3>2 DEF IntakeMeets, IntakeKinds
    <3>3. QED
      BY <2>1, <2>2, <3>1, <3>2 DEF GoesOn
  <2>5. ASSUME NEW p \in Request, NEW q \in Request, p # q, req'[p].op \in IntakeKinds, req'[q].op \in IntakeKinds
        PROVE  {req'[p].op, req'[q].op} \in met'
    <3>1. CASE p = r
      BY <2>2, <2>3, <2>4, <2>5, <3>1
    <3>2. CASE q = r
      <4>1. {v.op, req[p].op} = {req'[p].op, req'[q].op}
        BY <2>2, <2>3, <2>5, <3>2
      <4>2. QED
        BY <2>2, <2>3, <2>4, <2>5, <3>2, <4>1
    <3>3. CASE p # r /\ q # r
      BY <1>1, <2>3, <2>5, <3>3 DEF IntakeMeets
    <3>4. QED
      BY <3>1, <3>2, <3>3
  <2>6. QED
    BY <1>1, <2>5 DEF IntakeMeets
<1>4. QED
  BY <1>1, <1>2, <1>3, IntakeGoes

\* A request of kinds that have not met others is alone with those.
LEMMA Apart ==
    ASSUME IntakeMeets, IntakeMeets', met \subseteq met', NEW A \in SUBSET IntakeKinds, NEW B \in SUBSET IntakeKinds,
           ~Met(A, B)', NEW r \in Request, NEW v, Becomes(r, v), req[r].op \in A \/ v.op \in A
    PROVE  \A q \in Request \ {r} : req[q].op \notin B /\ req'[q] = req[q]
<1>1. \A q \in Request \ {r} : req'[q] = req[q] /\ req'[r] = v
  BY DEF Becomes
<1>2. ASSUME NEW q \in Request \ {r}, req[q].op \in B PROVE FALSE
  <2>1. CASE req[r].op \in A
    <3>1. {req[r].op, req[q].op} \in met'
      BY <1>2, <2>1 DEF IntakeMeets
    <3>2. QED
      BY <1>2, <2>1, <3>1, MetHere
  <2>2. CASE v.op \in A
    <3>1. {req'[r].op, req'[q].op} \in met' /\ req'[r].op = v.op /\ req'[q].op = req[q].op
      BY <1>1, <1>2, <2>2 DEF IntakeMeets
    <3>2. {v.op, req[q].op} \in met'
      BY <3>1
    <3>3. QED
      BY <1>2, <2>2, <3>2, MetHere
  <2>3. QED
    BY <2>1, <2>2
<1>3. QED
  BY <1>1, <1>2

-----------------------------------------------------------------------------
(* What stays of the rows, and who adds to them.                             *)

EditMet == Met(Editors, {"delete"})
\* The lead of an edit is not deleted meanwhile.
LivesInv == EditMet \/ \A r \in Request : req[r].op \in Editors => arrived[req[r].lead].live
Adds == \E r \in Request : CreateLead(r) \/ Insert(r)

\* Rows stay, with where they came from; more may come.
RowsKept ==
    /\ DOMAIN arrived \subseteq DOMAIN arrived'
    /\ \A i \in DOMAIN arrived : arrived'[i].from = arrived[i].from

LEMMA AddsGrow ==
    ASSUME TypeInv, Adds
    PROVE  \E k \in Nat, b \in Nat, how \in {"hand", "hook", "file"} : Grown(k, b, how)
<1>1. ASSUME NEW r \in Request, CreateLead(r) PROVE \E k \in Nat, b \in Nat, how \in {"hand", "hook", "file"} : Grown(k, b, how)
  <2>1. PICK u : u = req[r]
    OBVIOUS
  <2>2. u.op \in ByOne /\ Grown(1, u.batch, HowOf(u))
    BY <1>1, <2>1, CreateMoves
  <2>3. u.batch \in Nat
    BY <2>1, <2>2, IntakeVariables, KindOf, IntakeKind DEF ByOne, Adders, IntakeKinds, Intakes, HookReq, HandReq
  <2>4. HowOf(u) \in {"hand", "hook", "file"}
    BY DEF HowOf
  <2>5. QED
    BY <2>2, <2>3, <2>4
<1>2. ASSUME NEW r \in Request, Insert(r) PROVE \E k \in Nat, b \in Nat, how \in {"hand", "hook", "file"} : Grown(k, b, how)
  <2>1. PICK u : u = req[r]
    OBVIOUS
  <2>2. PICK v : v = req'[r]
    OBVIOUS
  <2>3. u.op = "import" /\ u \in ImportReq
    BY <1>2, <2>1, FileInserts, FileReads
  <2>4. v.done \in Nat /\ u.done < v.done /\ Grown(v.done - u.done, u.batch, "file")
    BY <1>2, <2>1, <2>2, FileInserts
  <2>5. u.batch \in Nat /\ u.done \in Nat
    BY <2>3, ImportFields
  <2>6. v.done - u.done \in Nat
    BY <2>4, <2>5
  <2>7. QED
    BY <2>4, <2>5, <2>6
<1>3. QED
  BY <1>1, <1>2 DEF Adds

LEMMA GrownKeeps ==
    ASSUME TypeInv, NEW k \in Nat, NEW b, NEW how, Grown(k, b, how)
    PROVE  RowsKept /\ \A i \in DOMAIN arrived : i \in DOMAIN arrived' /\ arrived'[i] = arrived[i]
<1>1. DOMAIN arrived = 1..Len(arrived) /\ Len(arrived) \in Nat
  BY Rows
<1>2. QED
  BY <1>1 DEF Grown, RowsKept

\* A row that is saved from a copy, and the rows of a batch that is deleted.
LEMMA SaveLeadRows ==
    ASSUME TypeInv, KeptInv, NEW r \in Request, SaveLead(r), NEW u, u = req[r]
    PROVE  /\ RowsStay /\ u.op \in Editors /\ u.lead \in DOMAIN arrived
           /\ \A i \in DOMAIN arrived : i # u.lead => arrived'[i] = arrived[i]
           /\ arrived' = arrived \/ (arrived'[u.lead] = u.row /\ Refers(u.row.batch) /\ arrived'[u.lead].live)
<1>1. u.op \in Editors /\ u.row \in Arrival
      /\ (arrived' = arrived \/ (Refers(u.row.batch) /\ arrived' = [arrived EXCEPT ![u.lead] = u.row]))
  BY RowMoves
<1>2. u.lead \in DOMAIN arrived /\ u.row.live /\ u.row.from = arrived[u.lead].from
  BY <1>1 DEF KeptInv, Keeps
<1>3. CASE arrived' = arrived
  BY <1>1, <1>2, <1>3 DEF RowsStay
<1>4. CASE Refers(u.row.batch) /\ arrived' = [arrived EXCEPT ![u.lead] = u.row]
  <2>1. DOMAIN arrived' = DOMAIN arrived /\ arrived'[u.lead] = u.row
    BY <1>2, <1>4
  <2>2. \A i \in DOMAIN arrived : i # u.lead => arrived'[i] = arrived[i]
    BY <1>4
  <2>3. RowsStay
    BY <1>2, <2>1, <2>2 DEF RowsStay
  <2>4. QED
    BY <1>1, <1>2, <1>4, <2>1, <2>2, <2>3
<1>5. QED
  BY <1>1, <1>3, <1>4

LEMMA DropRows ==
    ASSUME TypeInv, NEW b, DropBatch(b)
    PROVE  /\ RowsStay /\ PhonesStay
           /\ \A i \in DOMAIN arrived : /\ arrived'[i].live = arrived[i].live
                                        /\ arrived'[i].batch = IF arrived[i].batch = b THEN 0 ELSE arrived[i].batch
<1>1. \A i \in DOMAIN arrived : arrived[i] \in Arrival
  BY Rows
<1>2. arrived' = [i \in DOMAIN arrived |-> IF arrived[i].batch = b THEN [arrived[i] EXCEPT !.batch = 0] ELSE arrived[i]]
  BY DEF DropBatch
<1>3. DOMAIN arrived' = DOMAIN arrived
  BY <1>2
<1>4. ASSUME NEW i \in DOMAIN arrived
      PROVE  /\ arrived'[i].phone = arrived[i].phone /\ arrived'[i].from = arrived[i].from /\ arrived'[i].live = arrived[i].live
             /\ arrived'[i].batch = IF arrived[i].batch = b THEN 0 ELSE arrived[i].batch
  BY <1>1, <1>2 DEF Arrival
<1>5. QED
  BY <1>3, <1>4 DEF RowsStay, PhonesStay

\* Whoever does not add rows leaves them, and but for an edit their numbers; an
\* edit brings none back, as long as none was deleted meanwhile.
LEMMA RowsDo ==
    ASSUME TypeInv, KeptInv, IntakeNext
    PROVE  /\ RowsKept
           /\ ~Adds => RowsStay /\ (PhonesStay \/ \E r \in Request : SaveLead(r))
           /\ (\A i \in DOMAIN arrived : arrived[i].live => arrived'[i].live) \/ \E r \in Request : MarkDeleted(r)
           /\ ~Adds /\ LivesInv /\ ~EditMet => \A i \in DOMAIN arrived : arrived'[i].live => arrived[i].live
<1> DEFINE Goal ==
           /\ RowsKept
           /\ ~Adds => RowsStay /\ (PhonesStay \/ \E r \in Request : SaveLead(r))
           /\ (\A i \in DOMAIN arrived : arrived[i].live => arrived'[i].live) \/ \E r \in Request : MarkDeleted(r)
           /\ ~Adds /\ LivesInv /\ ~EditMet => \A i \in DOMAIN arrived : arrived'[i].live => arrived[i].live
<1>1. RowsStay => RowsKept
  BY DEF RowsStay, RowsKept
<1>2. CASE UNCHANGED arrived
  BY <1>1, <1>2 DEF RowsStay, PhonesStay
<1>3. CASE Adds
  <2>1. PICK k \in Nat, b \in Nat, how \in {"hand", "hook", "file"} : Grown(k, b, how)
    BY <1>3, AddsGrow
  <2>2. RowsKept /\ \A i \in DOMAIN arrived : arrived'[i] = arrived[i]
    BY <2>1, GrownKeeps
  <2>3. QED
    BY <1>3, <2>2
<1>4. ASSUME NEW r \in Request, MarkDeleted(r) PROVE Goal
  BY <1>1, <1>4, DeleteMoves
<1>5. ASSUME NEW r \in Request, SaveLead(r) PROVE Goal
  <2>1. PICK u : u = req[r]
    OBVIOUS
  <2>2. /\ RowsStay /\ u.op \in Editors /\ u.lead \in DOMAIN arrived
        /\ \A i \in DOMAIN arrived : i # u.lead => arrived'[i] = arrived[i]
        /\ arrived' = arrived \/ (arrived'[u.lead] = u.row /\ arrived'[u.lead].live)
    BY <1>5, <2>1, SaveLeadRows
  <2>3. LivesInv /\ ~EditMet => arrived[u.lead].live
    BY <2>1, <2>2 DEF LivesInv
  <2>4. \A i \in DOMAIN arrived : arrived[i].live => arrived'[i].live
    BY <2>2
  <2>5. LivesInv /\ ~EditMet => \A i \in DOMAIN arrived : arrived'[i].live => arrived[i].live
    BY <2>2, <2>3
  <2>6. QED
    BY <1>1, <1>5, <2>2, <2>4, <2>5
<1>6. ASSUME NEW b \in DOMAIN batches, DropBatch(b) PROVE Goal
  BY <1>1, <1>6, DropRows
<1>7. QED
  BY <1>2, <1>3, <1>4, <1>5, <1>6, ArrivedBy DEF Adds

\* The source keeps its rule; there is no job until a file is uploaded, and it
\* keeps its rule.
LEMMA RulesStay ==
    ASSUME TypeInv, KeptInv, IntakeNext
    PROVE  /\ source'.rule = source.rule
           /\ job'.st = "none" => job' = NoJob
           /\ job'.rule = job.rule \/ (job = NoJob /\ \A r \in Request : req'[r] = req[r])
<1>1. source'.rule = source.rule
  <2>1. ASSUME NEW r \in Request, SaveSource(r) PROVE source'.rule = source.rule
    <3>1. PICK u : u = req[r]
      OBVIOUS
    <3>2. u.op = "toggle" /\ u.copy \in SourceRec
      BY <2>1, <3>1, ToggleMoves
    <3>3. u.copy.rule = source.rule
      BY <3>1, <3>2 DEF KeptInv, Keeps, Saving
    <3>4. PICK st : st = InStep(u.copy)
      OBVIOUS
    <3>5. source' = [u.copy EXCEPT !.st = st]
      BY <2>1, <3>1, <3>4 DEF SaveSource
    <3>6. QED
      BY <3>2, <3>3, <3>5 DEF SourceRec
  <2>2. ASSUME NEW r \in Request, SaveReceived(r) \/ SaveError(r) PROVE source'.rule = source.rule
    <3>1. source \in SourceRec
      BY IntakeVariables
    <3>2. CASE SaveError(r)
      BY <3>1, <3>2 DEF SaveError, SourceRec
    <3>3. CASE SaveReceived(r)
      <4>1. PICK n : n = req[r].copy.received + req[r].made
        OBVIOUS
      <4>2. PICK st : st = InStep(req[r].copy)
        OBVIOUS
      <4>3. source' = source \/ source' = [source EXCEPT !.received = n, !.st = st]
        BY <3>3, <4>1, <4>2 DEF SaveReceived
      <4>4. QED
        BY <3>1, <4>3 DEF SourceRec
    <3>4. QED
      BY <2>2, <3>2, <3>3
  <2>3. QED
    BY <2>1, <2>2, SourceBy
<1>2. /\ job'.st = "none" => job' = NoJob
      /\ job'.rule = job.rule \/ (job = NoJob /\ \A r \in Request : req'[r] = req[r])
  <2>1. job \in JobRec /\ (job.st = "none" => job = NoJob)
    BY IntakeVariables DEF KeptInv
  <2>2. CASE UNCHANGED job
    BY <2>1, <2>2
  <2>3. ASSUME NEW r \in Request, RunImport(r) \/ Unreadable(r) \/ FinishImport(r)
        PROVE  job'.st # "none" /\ job'.rule = job.rule
    <3>1. RunImport(r) => job' = [job EXCEPT !.st = "processing"]
      BY FileBegins
    <3>2. Unreadable(r) => job' = [job EXCEPT !.st = "failed"]
      BY FileEnds
    <3>3. FinishImport(r) => job'.st \in {"completed", "partial", "failed"} /\ job'.rule = job.rule
      BY FileEnds
    <3>4. QED
      BY <2>1, <2>3, <3>1, <3>2, <3>3 DEF JobRec
  <2>4. ASSUME NEW r \in Request, Parse(r)
        PROVE  (job'.st = "none" => job' = NoJob) /\ job'.rule = job.rule
    <3>1. job' = [job EXCEPT !.total = Len(job.rows)]
      BY <2>4, FileReads
    <3>2. job'.st = job.st /\ job'.rule = job.rule
      BY <2>1, <3>1 DEF JobRec
    <3>3. job = NoJob => job' = NoJob
      BY <3>1 DEF NoJob
    <3>4. QED
      BY <2>1, <3>2, <3>3
  <2>5. ASSUME NEW file \in Files, NEW rule \in {"skip", "update", "create_new"}, UploadFile(file, rule)
        PROVE  job'.st # "none" /\ job = NoJob /\ req' = req
    BY <2>1, <2>5 DEF UploadFile, NoJob
  <2>6. QED
    BY <2>1, <2>2, <2>3, <2>4, <2>5, JobBy
<1>3. QED
  BY <1>1, <1>2

LEMMA KeptStays ==
    ASSUME TypeInv, KeptInv, IntakeNext
    PROVE  KeptInv'
<1>1. RowsKept /\ source'.rule = source.rule /\ (job'.st = "none" => job' = NoJob)
  BY RowsDo, RulesStay
<1>2. ASSUME NEW q \in Request, req'[q] = req[q] PROVE Keeps(req[q])'
  <2>1. PICK u : u = req[q]
    OBVIOUS
  <2>2. Keeps(u) /\ req'[q] = u
    BY <1>2, <2>1 DEF KeptInv
  <2>3. QED
    BY <1>1, <2>2 DEF Keeps, RowsKept
<1>3. ASSUME NEW r \in Request, GoesOn(r, req'[r]), Brings(r, req'[r]) PROVE Keeps(req[r])'
  <2>1. PICK v : v = req'[r]
    OBVIOUS
  <2>2. Brings(r, v)
    BY <1>3, <2>1
  <2>3. v.op \in Editors => v.lead \in DOMAIN arrived' /\ v.row.live /\ v.row.from = arrived'[v.lead].from
    BY <1>1, <2>2 DEF Brings, RowsKept, FormLoaded
  <2>4. v.op \in Saving => v.copy.rule = source'.rule
    BY <1>1, <2>2 DEF Brings
  <2>5. QED
    BY <2>1, <2>2, <2>3, <2>4 DEF Brings, Keeps
<1>4. \A q \in Request : Keeps(req[q])'
  <2>1. CASE UNCHANGED req
    BY <1>2, <2>1
  <2>2. ASSUME NEW r \in Request, GoesOn(r, req'[r]), Brings(r, req'[r]) PROVE \A q \in Request : Keeps(req[q])'
    BY <1>2, <1>3, <2>2 DEF GoesOn, Begun, Becomes
  <2>3. QED
    BY <2>1, <2>2, IntakeGoes
<1>5. QED
  BY <1>1, <1>4 DEF KeptInv

LEMMA LivesStay ==
    ASSUME TypeInv, KeptInv, IntakeMeets, LivesInv, IntakeNext
    PROVE  LivesInv'
<1>1. IntakeMeets' /\ met \subseteq met'
  BY IntakeMeet
<1>2. SUFFICES ASSUME ~EditMet' PROVE \A r \in Request : req'[r].op \in Editors => arrived'[req'[r].lead].live
  BY DEF LivesInv
<1>3. \A r \in Request : req[r].op \in Editors => req[r].lead \in DOMAIN arrived /\ arrived[req[r].lead].live
  BY <1>1, <1>2, StillMet DEF EditMet, LivesInv, KeptInv, Keeps
<1>4. UNCHANGED req \/ \E r \in Request : GoesOn(r, req'[r]) /\ Brings(r, req'[r])
  BY IntakeGoes
<1>5. \A r \in Request : req'[r].op \in Editors =>
          req'[r] = req[r] \/ (req'[r].lead \in DOMAIN arrived /\ arrived[req'[r].lead].live)
  BY <1>4 DEF GoesOn, Begun, Becomes, Brings, FormLoaded
<1>6. \A r \in Request : req'[r].op \in Editors => req'[r].lead \in DOMAIN arrived /\ arrived[req'[r].lead].live
  BY <1>3, <1>5
<1>7. CASE \A i \in DOMAIN arrived : arrived[i].live => arrived'[i].live
  BY <1>6, <1>7
<1>8. ASSUME NEW q \in Request, MarkDeleted(q) PROVE \A r \in Request : req'[r].op \notin Editors
  <2>1. PICK v : v = req'[q]
    OBVIOUS
  <2>2. req[q].op = "delete" /\ Becomes(q, v) /\ v.op = "delete"
    BY <1>8, <2>1, DeleteMoves
  <2>3. ~Met({"delete"}, Editors)'
    BY <1>2 DEF EditMet, Met
  <2>4. {"delete"} \in SUBSET IntakeKinds /\ Editors \in SUBSET IntakeKinds
    BY DEF IntakeKinds, Editors
  <2>5. \A r \in Request \ {q} : req[r].op \notin Editors /\ req'[r] = req[r]
    BY <1>1, <2>2, <2>3, <2>4, Apart
  <2>6. "delete" \notin Editors
    BY DEF Editors
  <2>7. QED
    BY <2>1, <2>2, <2>5, <2>6
<1>9. QED
  BY <1>7, <1>8, RowsDo

-----------------------------------------------------------------------------
(* One lead per number: what is looked up is not there when it is created.  *)

Single(S) == \A x, y \in S : x = y
\* The rows that an import has still to insert are of numbers nobody has.
Unknown(w) == \A k \in DOMAIN w.new : w.done < k => Live(w.new[k]) = {} /\ \A j \in DOMAIN w.new : j # k => w.new[j] # w.new[k]
PhoneFits(w) ==
    /\ w.op \in ByOne /\ w.next \in {"cache", "batch", "create"} => Live(Head(w.left)) = {}
    /\ w.op = "import" /\ w.next = "rows" => \A p \in Phone : p \notin w.seen => Live(p) = {}
    /\ w.op = "import" /\ w.next \in {"cache", "bulk"} => Unknown(w)
\* An edit keeps the lead's number, or gives it one that nobody has.
EditFits(w) ==
    /\ w.op = "amend" => w.row.phone = arrived[w.lead].phone
    /\ w.op = "renumber" => Live(w.row.phone) = {}
PhoneFine == (\A p \in Phone : Single(Live(p))) /\ \A r \in Request : PhoneFits(req[r]) /\ EditFits(req[r])
NumberMet == Met(Makers, Makers \cup {"renumber"}) \/ Met({"renumber"}, Editors)
PhoneInv ==
    NumberMet \/ EditMet \/ source.rule = "create_new" \/ job.rule = "create_new" \/ PhoneFine

LEMMA PhoneHook ==
    ASSUME TypeInv, KeptInv, source.rule = "skip", NEW r \in Request, NEW u, u = req[r], PhoneFits(u), NEW v, v = req'[r],
           \/ \E left \in Deliveries : SyncNow(r, left) \/ \E lenient \in BOOLEAN : Deliver(r, left, lenient)
           \/ LookUp(r) \/ TodaysBatch(r) \/ CreateFails(r) \/ (NoteCreated(r) /\ u.op # "hand")
           \/ AddToBatch(r) \/ SaveReceived(r) \/ SaveError(r)
    PROVE  Becomes(r, v) /\ PhoneFits(v)
<1>1. "import" \notin Adders /\ Adders \subseteq ByOne /\ Idle.op \notin ByOne \cup {"import"} /\ Adders \subseteq Saving
  BY DEF Adders, ByOne, Idle, Saving
<1>2. ASSUME NEW w \in HookReq, w.copy.rule = "skip", LookedUpTo(w, v)
      PROVE  v.op \in Adders /\ PhoneFits(v)
  <2>1. v.op \in Adders
    BY <1>2 DEF LookedUpTo, HookStays, HookReq, Adders, Intakes
  <2>2. v.next # "create"
    BY <1>2 DEF LookedUpTo, HookDecided, HookAllowed
  <2>3. v.next \in {"cache", "batch"} => Live(Head(v.left)) = {}
    BY <1>2 DEF LookedUpTo
  <2>4. QED
    BY <1>1, <2>1, <2>2, <2>3 DEF PhoneFits
<1>3. CASE \E left \in Deliveries : SyncNow(r, left) \/ \E lenient \in BOOLEAN : Deliver(r, left, lenient)
  <2>1. Becomes(r, v) /\ HookLoads(v)
    BY <1>3, HookBegins DEF Begun
  <2>2. QED
    BY <1>2, <2>1 DEF HookLoads
<1>4. CASE LookUp(r)
  <2>1. u.op \in Adders /\ u \in HookReq /\ LookedUpTo(u, v) /\ Becomes(r, v)
    BY <1>4, HookMoves
  <2>2. u.copy.rule = "skip"
    BY <1>1, <2>1 DEF KeptInv, Keeps
  <2>3. QED
    BY <1>2, <2>1, <2>2
<1>5. CASE TodaysBatch(r)
  <2>1. u.op \in Adders /\ u.next = "batch" /\ Becomes(r, v) /\ v.op = u.op /\ v.next = "create" /\ v.left = u.left
    BY <1>5, HookMoves
  <2>2. QED
    BY <1>1, <2>1 DEF PhoneFits
<1>6. CASE CreateFails(r) \/ (NoteCreated(r) /\ u.op # "hand") \/ AddToBatch(r)
  <2>1. u.op \in Adders /\ Becomes(r, v) /\ v.op = u.op /\ v.next \in {"config", "look", "error", "add"}
    BY <1>6, HookMoves DEF HookStays
  <2>2. QED
    BY <1>1, <2>1 DEF PhoneFits
<1>7. CASE SaveReceived(r) \/ SaveError(r)
  <2>1. Becomes(r, v) /\ v = Idle
    BY <1>7, HookMoves
  <2>2. QED
    BY <1>1, <2>1 DEF PhoneFits
<1>8. QED
  BY <1>3, <1>4, <1>5, <1>6, <1>7

LEMMA UnknownLeft ==
    ASSUME NEW w \in ImportReq, NEW most \in 0..Len(w.new), Unknown(w), NEW v, v.new = SubSeq(w.new, 1, most), v.done = w.done
    PROVE  Unknown(v)
<1>1. w.new \in Seq(Phone)
  BY ImportFields
<1>2. DOMAIN v.new = 1..most /\ 1..most \subseteq DOMAIN w.new /\ \A k \in 1..most : v.new[k] = w.new[k]
  BY <1>1
<1>3. QED
  BY <1>2 DEF Unknown

LEMMA PhoneCache ==
    ASSUME TypeInv, NEW r \in Request, NEW u, u = req[r], PhoneFits(u), NEW v, v = req'[r],
           CacheCount(r) \/ (\E p \in Phone : ByForm(r, p)) \/ (NoteCreated(r) /\ u.op = "hand")
    PROVE  Becomes(r, v) /\ PhoneFits(v)
<1>1. Makers = Adders \cup {"hand", "import"} /\ ByOne = Adders \cup {"hand"} /\ "import" \notin ByOne /\ Adders = {"hook", "sync"}
      /\ Idle.op = "idle"
  BY DEF Makers, Adders, ByOne, Idle
<1>2. CASE \E p \in Phone : ByForm(r, p)
  <2>1. PICK p \in Phone : ByForm(r, p)
    BY <1>2
  <2>2. Begun(r, v) /\ v.op = "hand" /\ v.left = <<p>> /\ Live(p) = {}
    BY <2>1, FormMoves
  <2>3. Head(v.left) = p
    BY <2>2
  <2>4. QED
    BY <1>1, <2>2, <2>3 DEF PhoneFits, Begun
<1>3. CASE NoteCreated(r) /\ u.op = "hand"
  <2>1. Becomes(r, v) /\ v = Idle
    BY <1>3, FormMoves
  <2>2. QED
    BY <1>1, <2>1 DEF PhoneFits
<1>4. CASE CacheCount(r)
  <2>1. u.op \in Makers /\ u.next = "cache" /\ Becomes(r, v)
    BY <1>4, CacheMoves
  <2>2. CASE u.op \in Adders
    <3>1. HookAllowed(u, v, u.n)
      BY <1>4, <2>2, CacheMoves
    <3>2. v.op = u.op /\ v.next \in {"batch", "config", "look", "error"} /\ (v.next = "batch" => v.left = u.left)
      BY <3>1 DEF HookAllowed, HookStays
    <3>3. QED
      BY <1>1, <2>1, <2>2, <3>2 DEF PhoneFits
  <2>3. CASE u.op = "hand"
    <3>1. v = Idle \/ (v.op = "hand" /\ v.left = u.left)
      BY <1>4, <2>3, CacheMoves DEF HandStays
    <3>2. QED
      BY <1>1, <2>1, <2>3, <3>1 DEF PhoneFits
  <2>4. CASE u.op = "import"
    <3>1. FileAllowed(u, v, u.n) /\ u \in ImportReq
      BY <1>4, <2>4, CacheMoves, FileReads
    <3>2. PICK most \in 0..Len(u.new) : v.new = SubSeq(u.new, 1, most)
      BY <3>1 DEF FileAllowed
    <3>3. v.op = "import" /\ v.done = u.done /\ v.next \in {"recount", "bulk"}
      BY <3>1 DEF FileAllowed, FileStays
    <3>4. Unknown(v)
      BY <2>1, <2>4, <3>1, <3>2, <3>3, UnknownLeft DEF PhoneFits
    <3>5. QED
      BY <1>1, <2>1, <3>3, <3>4 DEF PhoneFits
  <2>5. QED
    BY <1>1, <2>1, <2>2, <2>3, <2>4
<1>5. QED
  BY <1>2, <1>3, <1>4

LEMMA PhoneFile ==
    ASSUME TypeInv, KeptInv, job.rule # "create_new", NEW r \in Request, NEW u, u = req[r], PhoneFits(u), NEW v, v = req'[r],
           \/ RunImport(r) \/ Parse(r) \/ Unreadable(r) \/ OpenBatch(r) \/ ReadPhones(r)
           \/ ReadRows(r) \/ Inserted(r) \/ InsertFails(r) \/ FinishImport(r)
    PROVE  Becomes(r, v) /\ PhoneFits(v)
<1>1. "import" \notin ByOne /\ Idle.op \notin ByOne \cup {"import"}
  BY DEF Adders, ByOne, Idle
<1>2. CASE RunImport(r) \/ Parse(r) \/ OpenBatch(r) \/ Inserted(r) \/ InsertFails(r)
  <2>1. Becomes(r, v) /\ v.op = "import" /\ v.next \in {"parse", "open", "phones", "recount"}
    BY <1>2, FileBegins, FileReads, FileInserts DEF Begun
  <2>2. QED
    BY <1>1, <2>1 DEF PhoneFits
<1>3. CASE Unreadable(r) \/ FinishImport(r)
  <2>1. Becomes(r, v) /\ v = Idle
    BY <1>3, FileEnds
  <2>2. QED
    BY <1>1, <2>1 DEF PhoneFits
<1>4. CASE ReadPhones(r)
  <2>1. Becomes(r, v) /\ v.op = "import" /\ v.next = "rows" /\ v.seen = {p \in Phone : Live(p) # {}}
    BY <1>4, FileReads
  <2>2. QED
    BY <1>1, <2>1 DEF PhoneFits
<1>5. CASE ReadRows(r)
  <2>1. PICK w \in ImportReq : u.op = "import" /\ u.next = "rows" /\ Becomes(r, v) /\ w = AfterRows(u) /\ FileDecided(w, v)
    BY <1>5, FileReads
  <2>2. u \in ImportReq /\ u.new = <<>> /\ u.ok = 0 /\ u.failed = 0 /\ u.dup = 0
    BY <1>5, <2>1, FileReads DEF KeptInv, Keeps, Early
  <2>3. RowsRead(u, w, Len(job.rows))
    BY <2>1, <2>2, RowsAreRead
  <2>4. Fresh(w.new, u.seen) /\ w.new \in Seq(Phone)
    BY <2>1, <2>3, ImportFields DEF RowsRead
  <2>5. \A p \in Phone : p \notin u.seen => Live(p) = {}
    BY <2>1 DEF PhoneFits
  <2>6. \A k \in DOMAIN w.new : w.new[k] \in Phone
    BY <2>4
  <2>7. Unknown(w)
    BY <2>4, <2>5, <2>6 DEF Unknown, Fresh
  <2>8. CASE FileStays(w, v) /\ v.next = "cache" /\ v.new = w.new
    <3>1. v.op = "import" /\ v.done = w.done
      BY <2>8 DEF FileStays
    <3>2. Unknown(v)
      BY <2>7, <2>8, <3>1 DEF Unknown
    <3>3. QED
      BY <1>1, <2>1, <2>8, <3>1, <3>2 DEF PhoneFits
  <2>9. CASE FileAllowed(w, v, counted)
    <3>1. PICK most \in 0..Len(w.new) : v.new = SubSeq(w.new, 1, most)
      BY <2>9 DEF FileAllowed
    <3>2. v.op = "import" /\ v.done = w.done /\ v.next \in {"recount", "bulk"}
      BY <2>9 DEF FileAllowed, FileStays
    <3>3. Unknown(v)
      BY <2>7, <3>1, <3>2, UnknownLeft
    <3>4. QED
      BY <1>1, <2>1, <3>2, <3>3 DEF PhoneFits
  <2>10. QED
    BY <2>1, <2>8, <2>9 DEF FileDecided
<1>6. QED
  BY <1>2, <1>3, <1>4, <1>5

LEMMA CopyBegins ==
    ASSUME TypeInv, NEW r \in Request, NEW v, v = req'[r],
           \/ \E ls \in (SUBSET DOMAIN arrived) \ {{}} : Delete(r, ls)
           \/ \E i \in DOMAIN arrived, p \in Phone : Amend(r, i, p)
           \/ \E b \in DOMAIN batches : Rename(r, b)
           \/ \E on \in BOOLEAN : SetSource(r, on)
    PROVE  Becomes(r, v) /\ v.op \in Editors \cup {"delete", "rename", "toggle"} /\ Free(r)
<1>1. CASE \E ls \in (SUBSET DOMAIN arrived) \ {{}} : Delete(r, ls)
  BY <1>1, DeleteMoves DEF Begun
<1>2. CASE \E i \in DOMAIN arrived, p \in Phone : Amend(r, i, p)
  BY <1>2, RowMoves DEF Begun
<1>3. CASE \E b \in DOMAIN batches : Rename(r, b)
  BY <1>3, RowMoves DEF Begun
<1>4. CASE \E on \in BOOLEAN : SetSource(r, on)
  BY <1>4, ToggleMoves DEF Begun
<1>5. QED
  BY <1>1, <1>2, <1>3, <1>4

LEMMA PhoneOthers ==
    ASSUME TypeInv, NEW r \in Request, NEW v, v = req'[r],
           \/ \E ls \in (SUBSET DOMAIN arrived) \ {{}} : Delete(r, ls)
           \/ \E i \in DOMAIN arrived, p \in Phone : Amend(r, i, p)
           \/ \E b \in DOMAIN batches : Rename(r, b)
           \/ \E on \in BOOLEAN : SetSource(r, on)
           \/ SaveLead(r) \/ SaveBatch(r) \/ SaveSource(r) \/ MarkDeleted(r) \/ LoadBatch(r) \/ Recount(r) \/ SaveTotal(r)
    PROVE  Becomes(r, v) /\ PhoneFits(v)
<1>1. /\ ByOne \cap (Editors \cup {"delete", "rename", "toggle", "idle", "import"}) = {} /\ "import" \notin Editors
      /\ Idle.op = "idle" /\ Counters = {"delete", "import"}
  BY DEF Adders, ByOne, Idle, Counters, Editors
<1>2. CASE \/ \E ls \in (SUBSET DOMAIN arrived) \ {{}} : Delete(r, ls)
           \/ \E i \in DOMAIN arrived, p \in Phone : Amend(r, i, p)
           \/ \E b \in DOMAIN batches : Rename(r, b)
           \/ \E on \in BOOLEAN : SetSource(r, on)
  <2>1. Becomes(r, v) /\ v.op \in Editors \cup {"delete", "rename", "toggle"}
    BY <1>2, CopyBegins
  <2>2. QED
    BY <1>1, <2>1 DEF PhoneFits
<1>3. CASE SaveLead(r) \/ SaveBatch(r) \/ SaveSource(r) \/ MarkDeleted(r) \/ LoadBatch(r)
  <2>1. Becomes(r, v) /\ (v = Idle \/ v.op = "delete")
    BY <1>3, DeleteMoves, RowMoves, ToggleMoves
  <2>2. QED
    BY <1>1, <2>1 DEF PhoneFits
<1>4. CASE Recount(r) \/ SaveTotal(r)
  <2>1. PICK u : u = req[r]
    OBVIOUS
  <2>2. u.op \in Counters /\ Becomes(r, v) /\ (Ended(u, v) \/ (v.op = u.op /\ v.next = "total"))
    BY <1>4, <2>1, CountMoves DEF CountStays
  <2>3. v.op \in {"delete", "import", "idle"} /\ (v.op = "import" => v.next \in {"finish", "total"})
    BY <1>1, <2>2 DEF Ended
  <2>4. QED
    BY <1>1, <2>2, <2>3 DEF PhoneFits
<1>5. QED
  BY <1>2, <1>3, <1>4

LEMMA PhoneMoves ==
    ASSUME TypeInv, KeptInv, source.rule = "skip", job.rule # "create_new", \A r \in Request : PhoneFits(req[r]), IntakeNext, ~Adds
    PROVE  UNCHANGED req \/ \E r \in Request : \E v : Becomes(r, v) /\ PhoneFits(v)
<1> DEFINE Goal == UNCHANGED req \/ \E r \in Request : \E v : Becomes(r, v) /\ PhoneFits(v)
<1>1. ASSUME NEW r \in Request,
             \/ \E left \in Deliveries : SyncNow(r, left) \/ \E lenient \in BOOLEAN : Deliver(r, left, lenient)
             \/ LookUp(r) \/ TodaysBatch(r) \/ CreateFails(r) \/ NoteCreated(r)
             \/ AddToBatch(r) \/ SaveReceived(r) \/ SaveError(r) \/ CacheCount(r) \/ \E p \in Phone : ByForm(r, p)
      PROVE  Goal
  <2>1. PICK u : u = req[r]
    OBVIOUS
  <2>2. PICK v : v = req'[r]
    OBVIOUS
  <2>3. PhoneFits(u)
    BY <2>1
  <2>4. Becomes(r, v) /\ PhoneFits(v)
    BY <1>1, <2>1, <2>2, <2>3, PhoneHook, PhoneCache
  <2>5. QED
    BY <2>4
<1>2. ASSUME NEW r \in Request,
             \/ RunImport(r) \/ Parse(r) \/ Unreadable(r) \/ OpenBatch(r) \/ ReadPhones(r)
             \/ ReadRows(r) \/ Inserted(r) \/ InsertFails(r) \/ FinishImport(r)
      PROVE  Goal
  <2>1. PICK u : u = req[r]
    OBVIOUS
  <2>2. PICK v : v = req'[r]
    OBVIOUS
  <2>3. PhoneFits(u)
    BY <2>1
  <2>4. Becomes(r, v) /\ PhoneFits(v)
    BY <1>2, <2>1, <2>2, <2>3, PhoneFile
  <2>5. QED
    BY <2>4
<1>3. ASSUME NEW r \in Request,
             \/ \E ls \in (SUBSET DOMAIN arrived) \ {{}} : Delete(r, ls)
             \/ \E i \in DOMAIN arrived, p \in Phone : Amend(r, i, p)
             \/ \E b \in DOMAIN batches : Rename(r, b)
             \/ \E on \in BOOLEAN : SetSource(r, on)
             \/ SaveLead(r) \/ SaveBatch(r) \/ SaveSource(r) \/ MarkDeleted(r) \/ LoadBatch(r) \/ Recount(r) \/ SaveTotal(r)
      PROVE  Goal
  BY <1>3, PhoneOthers
<1>4. CASE (\E b \in DOMAIN batches : DropBatch(b)) \/ Expires
           \/ \E file \in Files, rule \in {"skip", "update", "create_new"} : UploadFile(file, rule)
  BY <1>4 DEF DropBatch, Expires, UploadFile
<1>5. QED
  BY <1>1, <1>2, <1>3, <1>4 DEF IntakeNext, Adds

\* Fewer leads that are not deleted take nothing away.
Fewer == LiveLeads' <= LiveLeads /\ (PhonesStay => \A p : Live(p)' \subseteq Live(p))

LEMMA FewerLeft ==
    ASSUME TypeInv, KeptInv, LivesInv, ~EditMet, IntakeNext, ~Adds
    PROVE  Fewer
BY RowsDo, StayCounts DEF Fewer

LEMMA PhoneShrinks ==
    ASSUME \A p : Live(p)' \subseteq Live(p), NEW w, PhoneFits(w)
    PROVE  PhoneFits(w)'
<1>1. \A p : Live(p) = {} => Live(p)' = {}
  OBVIOUS
<1>2. Unknown(w) => Unknown(w)'
  BY <1>1 DEF Unknown
<1>3. QED
  BY <1>1, <1>2 DEF PhoneFits

LEMMA PhoneGrows ==
    ASSUME TypeInv, NEW k \in Nat, NEW b, NEW how, Grown(k, b, how), PhoneFine,
           \A i, j \in (Len(arrived) + 1)..(Len(arrived) + k) : i # j => arrived'[i].phone # arrived'[j].phone,
           \A i \in (Len(arrived) + 1)..(Len(arrived) + k) : Live(arrived'[i].phone) = {}
    PROVE  \A p \in Phone : Single(Live(p)')
<1>1. SUFFICES ASSUME NEW p \in Phone PROVE Single(Live(p)')
  OBVIOUS
<1>2. PICK new : new = {i \in (Len(arrived) + 1)..(Len(arrived) + k) : arrived'[i].phone = p}
  OBVIOUS
<1>3. Live(p)' = Live(p) \cup new
  BY <1>2, GrownCounts
<1>4. new # {} => Live(p) = {}
  BY <1>2
<1>5. Single(new)
  BY <1>2 DEF Single
<1>6. Single(Live(p))
  BY DEF PhoneFine
<1>7. QED
  BY <1>3, <1>4, <1>5, <1>6 DEF Single

\* What the edits in progress will write, before the leads have changed.
LEMMA EditsFit ==
    ASSUME TypeInv, KeptInv, IntakeNext, \A q \in Request : EditFits(req[q])
    PROVE  \A q \in Request : req'[q].op \in Editors => req'[q].lead \in DOMAIN arrived /\ EditFits(req'[q])
<1>1. ASSUME NEW q \in Request, req[q].op \in Editors PROVE req[q].lead \in DOMAIN arrived /\ EditFits(req[q])
  BY <1>1 DEF KeptInv, Keeps
<1>2. ASSUME NEW r \in Request, NEW v, Becomes(r, v), Brings(r, v), v.op \in Editors
      PROVE  v.lead \in DOMAIN arrived /\ EditFits(v)
  BY <1>2 DEF Brings, FormLoaded, EditFits
<1>3. ASSUME NEW r \in Request, GoesOn(r, req'[r]), Brings(r, req'[r])
      PROVE  \A q \in Request : req'[q].op \in Editors => req'[q].lead \in DOMAIN arrived /\ EditFits(req'[q])
  <2>1. PICK v : v = req'[r]
    OBVIOUS
  <2>2. Becomes(r, v) /\ Brings(r, v)
    BY <1>3, <2>1 DEF GoesOn, Begun
  <2>3. QED
    BY <1>1, <1>2, <2>1, <2>2 DEF Becomes
<1>4. QED
  BY <1>1, <1>3, IntakeGoes

\* The numbers stay unless an edit gives a lead another.
Renumbers == \E r \in Request : SaveLead(r) /\ req[r].op = "renumber"
LEMMA PhonesKept ==
    ASSUME TypeInv, KeptInv, IntakeNext, ~Adds, \A q \in Request : EditFits(req[q]), ~Renumbers
    PROVE  RowsStay /\ PhonesStay
<1>1. ASSUME NEW r \in Request, SaveLead(r) PROVE PhonesStay
  <2>1. PICK u : u = req[r]
    OBVIOUS
  <2>2. /\ RowsStay /\ u.op \in Editors /\ u.lead \in DOMAIN arrived
        /\ \A i \in DOMAIN arrived : i # u.lead => arrived'[i] = arrived[i]
        /\ arrived' = arrived \/ arrived'[u.lead] = u.row
    BY <1>1, <2>1, SaveLeadRows
  <2>3. u.op = "amend"
    BY <1>1, <2>1, <2>2 DEF Editors, Renumbers
  <2>4. u.row.phone = arrived[u.lead].phone
    BY <2>1, <2>3 DEF EditFits
  <2>5. QED
    BY <2>2, <2>4 DEF PhonesStay
<1>2. QED
  BY <1>1, RowsDo

LEMMA PhoneStays ==
    ASSUME TypeInv, KeptInv, IntakeMeets, LivesInv, PhoneInv, IntakeNext
    PROVE  PhoneInv'
<1>1. IntakeMeets' /\ met \subseteq met'
  BY IntakeMeet
<1>2. SUFFICES ASSUME ~NumberMet', ~EditMet', source'.rule # "create_new", job'.rule # "create_new"
               PROVE  PhoneFine'
  BY DEF PhoneInv
<1>3. /\ ~NumberMet /\ ~EditMet /\ source.rule = "skip" /\ job.rule # "create_new"
  BY <1>1, <1>2, StillMet, RulesStay, IntakeVariables DEF EditMet, NumberMet, SourceRec, NoJob
<1>4. PhoneFine /\ \A q \in Request : EditFits(req[q])
  BY <1>3 DEF PhoneInv, PhoneFine
<1>0. \A q \in Request : req'[q].op \in Editors => req'[q].lead \in DOMAIN arrived /\ EditFits(req'[q])
  BY <1>4, EditsFit
<1>5. CASE ~Adds /\ ~Renumbers
  <2>0. RowsStay /\ PhonesStay
    BY <1>4, <1>5, PhonesKept
  <2>1. \A p : Live(p)' \subseteq Live(p)
    BY <1>3, <1>5, <2>0, FewerLeft DEF Fewer
  <2>2. \A p \in Phone : Single(Live(p))'
    BY <1>4, <2>1 DEF PhoneFine, Single
  <2>3. ASSUME NEW q \in Request, req'[q] = req[q] PROVE PhoneFits(req[q])'
    <3>1. PICK w : w = req[q]
      OBVIOUS
    <3>2. PhoneFits(w)
      BY <1>4, <3>1 DEF PhoneFine
    <3>3. PhoneFits(w)'
      BY <2>1, <3>2, PhoneShrinks
    <3>4. QED
      BY <2>3, <3>1, <3>3
  <2>4. ASSUME NEW r \in Request, NEW v, Becomes(r, v), PhoneFits(v) PROVE \A q \in Request : PhoneFits(req[q])'
    <3>1. PhoneFits(v)'
      BY <2>1, <2>4, PhoneShrinks
    <3>2. req'[r] = v /\ \A q \in Request \ {r} : req'[q] = req[q]
      BY <2>4 DEF Becomes
    <3>3. PhoneFits(req[r])'
      BY <3>1, <3>2
    <3>4. QED
      BY <2>3, <3>2, <3>3
  <2>5. \A q \in Request : PhoneFits(req[q])'
    BY <1>3, <1>4, <1>5, <2>3, <2>4, PhoneMoves DEF PhoneFine
  <2>6. ASSUME NEW q \in Request PROVE EditFits(req[q])'
    <3>1. PICK w : w = req'[q]
      OBVIOUS
    <3>2. w.op \in Editors => w.lead \in DOMAIN arrived /\ EditFits(w)
      BY <1>0, <3>1
    <3>3. w.op = "amend" => w.row.phone = arrived'[w.lead].phone
      BY <2>0, <3>2 DEF EditFits, PhonesStay, Editors
    <3>4. w.op = "renumber" => Live(w.row.phone)' = {}
      <4>1. PICK p : p = w.row.phone
        OBVIOUS
      <4>2. w.op = "renumber" => Live(p) = {}
        BY <3>2, <4>1 DEF EditFits, Editors
      <4>3. Live(p)' \subseteq Live(p)
        BY <2>1
      <4>4. QED
        BY <4>1, <4>2, <4>3
    <3>5. QED
      BY <3>1, <3>3, <3>4 DEF EditFits
  <2>7. QED
    BY <2>2, <2>5, <2>6 DEF PhoneFine
<1>11. ASSUME NEW r \in Request, SaveLead(r), req[r].op = "renumber" PROVE PhoneFine'
  <2>1. PICK u : u = req[r]
    OBVIOUS
  <2>2. Becomes(r, Idle) /\ u.op = "renumber"
    BY <1>11, <2>1, RowMoves
  <2>3. ~Met({"renumber"}, Makers \cup Editors)'
    BY <1>2 DEF NumberMet, Met
  <2>4. {"renumber"} \in SUBSET IntakeKinds /\ Makers \cup Editors \in SUBSET IntakeKinds
    BY DEF IntakeKinds, Makers, Editors
  <2>5. \A q \in Request \ {r} : req[q].op \notin Makers \cup Editors /\ req'[q] = req[q]
    BY <1>1, <2>1, <2>2, <2>3, <2>4, Apart
  <2>6. \A q \in Request : req'[q].op \notin Makers \cup Editors
    <3>1. Idle.op \notin Makers \cup Editors
      BY DEF Idle, Makers, Editors
    <3>2. req'[r] = Idle
      BY <2>2 DEF Becomes
    <3>3. QED
      BY <2>5, <3>1, <3>2
  <2>7. \A q \in Request : PhoneFits(req[q])' /\ EditFits(req[q])'
    BY <2>6 DEF PhoneFits, EditFits, Makers, Editors, ByOne, Adders
  <2>8. Live(u.row.phone) = {}
    BY <1>4, <2>1, <2>2 DEF EditFits
  <2>9. /\ DOMAIN arrived' = DOMAIN arrived
        /\ \A i \in DOMAIN arrived : i # u.lead => arrived'[i] = arrived[i]
        /\ arrived' = arrived \/ arrived'[u.lead] = u.row
    BY <1>11, <2>1, SaveLeadRows DEF RowsStay
  <2>10. ASSUME NEW p \in Phone PROVE Single(Live(p)')
    <3>1. Single(Live(p))
      BY <1>4 DEF PhoneFine
    <3>2. CASE arrived' = arrived
      BY <3>1, <3>2, SameCounts
    <3>3. CASE arrived'[u.lead] = u.row /\ p = u.row.phone
      <4>1. Live(p)' \subseteq {u.lead}
        <5>1. \A i \in DOMAIN arrived : ~(arrived[i].phone = p /\ arrived[i].live)
          BY <2>8, <3>3 DEF Live
        <5>2. \A i \in DOMAIN arrived' : arrived'[i].phone = p /\ arrived'[i].live => i = u.lead
          BY <2>9, <5>1
        <5>3. QED
          BY <5>2 DEF Live
      <4>2. QED
        BY <4>1 DEF Single
    <3>4. CASE arrived'[u.lead] = u.row /\ p # u.row.phone
      <4>1. \A i \in DOMAIN arrived' : arrived'[i].phone = p /\ arrived'[i].live =>
               i \in DOMAIN arrived /\ arrived[i].phone = p /\ arrived[i].live
        BY <2>9, <3>4
      <4>2. Live(p)' \subseteq Live(p)
        BY <4>1 DEF Live
      <4>3. QED
        BY <3>1, <4>2 DEF Single
    <3>5. QED
      BY <2>9, <3>2, <3>3, <3>4
  <2>11. QED
    BY <2>7, <2>10 DEF PhoneFine, Single
<1>6. Makers \in SUBSET IntakeKinds /\ ByOne \subseteq Makers /\ "import" \in Makers /\ "import" \notin ByOne
  BY DEF Makers, IntakeKinds, ByOne, Adders
<1>7. ASSUME NEW r \in Request, NEW v, Becomes(r, v), v.op \in Makers, PhoneFits(v)',
             NEW k \in Nat, NEW b, NEW how, Grown(k, b, how)
      PROVE  \A q \in Request : PhoneFits(req[q])' /\ EditFits(req[q])'
  <2>0. /\ ~Met(Makers, Makers \cup {"renumber"})' /\ Makers \cup {"renumber"} \in SUBSET IntakeKinds
        /\ Makers \cap Editors = {} /\ "amend" \in Editors
    BY <1>2, <1>6 DEF NumberMet, IntakeKinds, Makers, Editors
  <2>1. \A q \in Request \ {r} : req[q].op \notin Makers \cup {"renumber"} /\ req'[q] = req[q]
    BY <1>1, <1>6, <1>7, <2>0, Apart
  <2>2. \A q \in Request \ {r} : PhoneFits(req[q])'
    BY <1>6, <2>1 DEF PhoneFits
  <2>3. PhoneFits(req[r])' /\ req'[r].op \in Makers
    BY <1>7 DEF Becomes
  <2>4. \A i \in DOMAIN arrived : arrived'[i] = arrived[i]
    BY <1>7, GrownKeeps
  <2>5. ASSUME NEW q \in Request PROVE EditFits(req[q])'
    <3>1. PICK w : w = req'[q]
      OBVIOUS
    <3>2. w.op \in Editors => w.lead \in DOMAIN arrived /\ EditFits(w)
      BY <1>0, <3>1
    <3>3. w.op # "renumber"
      BY <2>0, <2>1, <2>3, <3>1 DEF Editors
    <3>4. w.op = "amend" => w.row.phone = arrived'[w.lead].phone
      BY <2>0, <2>4, <3>2 DEF EditFits
    <3>5. QED
      BY <3>1, <3>3, <3>4 DEF EditFits
  <2>6. QED
    BY <2>2, <2>3, <2>5
<1>8. ASSUME NEW r \in Request, CreateLead(r) PROVE PhoneFine'
  <2>1. PICK u : u = req[r]
    OBVIOUS
  <2>2. PICK v : v = req'[r]
    OBVIOUS
  <2>3. /\ u.op \in ByOne /\ u.next = "create" /\ Becomes(r, v) /\ v.op = u.op /\ v.next = "note"
        /\ Grown(1, u.batch, HowOf(u)) /\ arrived'[Len(arrived) + 1].phone = Head(u.left)
    BY <1>8, <2>1, <2>2, CreateMoves
  <2>4. Live(Head(u.left)) = {}
    BY <1>4, <2>1, <2>3 DEF PhoneFine, PhoneFits
  <2>5. \A i \in (Len(arrived) + 1)..(Len(arrived) + 1) : i = Len(arrived) + 1
    BY Rows
  <2>6. \A p \in Phone : Single(Live(p)')
    BY <1>4, <2>3, <2>4, <2>5, PhoneGrows
  <2>7. PhoneFits(v)'
    BY <1>6, <2>3 DEF PhoneFits
  <2>8. \A q \in Request : PhoneFits(req[q])' /\ EditFits(req[q])'
    BY <1>6, <1>7, <2>3, <2>7
  <2>9. QED
    BY <2>6, <2>8 DEF PhoneFine, Single
<1>9. ASSUME NEW r \in Request, Insert(r) PROVE PhoneFine'
  <2>1. PICK u : u = req[r]
    OBVIOUS
  <2>2. PICK v : v = req'[r]
    OBVIOUS
  <2>3. /\ u.op = "import" /\ u.next = "bulk" /\ Becomes(r, v) /\ v.op = "import" /\ v.next = "bulk" /\ v.new = u.new
        /\ v.done \in Nat /\ u.done < v.done /\ v.done <= Len(u.new)
        /\ Grown(v.done - u.done, u.batch, "file")
        /\ \A i \in 1..(v.done - u.done) : arrived'[Len(arrived) + i].phone = u.new[u.done + i]
    BY <1>9, <2>1, <2>2, FileInserts
  <2>4. u \in ImportReq
    BY <1>9, <2>1, <2>3, FileReads
  <2>5. u.done \in Nat /\ u.new \in Seq(Phone) /\ Len(arrived) \in Nat /\ DOMAIN u.new = 1..Len(u.new) /\ Len(u.new) \in Nat
    BY <2>4, ImportFields, Rows
  <2>6. PICK k \in Nat : k = v.done - u.done
    BY <2>3, <2>5
  <2>7. PICK len \in Nat : len = Len(arrived)
    BY <2>5
  <2>8. Unknown(u)
    BY <1>4, <2>1, <2>3 DEF PhoneFine, PhoneFits
  <2>9. \A i \in (len + 1)..(len + k) :
            \E j \in 1..k : i = len + j /\ u.done + j \in DOMAIN u.new /\ u.done < u.done + j /\ u.done + j <= v.done
    <3>1. SUFFICES ASSUME NEW i \in (len + 1)..(len + k)
                   PROVE  \E j \in 1..k : i = len + j /\ u.done + j \in DOMAIN u.new /\ u.done < u.done + j /\ u.done + j <= v.done
      OBVIOUS
    <3>2. i - len \in 1..k /\ i = len + (i - len) /\ i - len \in Nat
      BY <2>7
    <3>3. u.done + (i - len) \in 1..Len(u.new) /\ u.done < u.done + (i - len) /\ u.done + (i - len) <= v.done
      BY <2>3, <2>5, <2>6, <3>2
    <3>4. QED
      BY <2>5, <3>2, <3>3
  <2>10. \A j \in 1..k : arrived'[len + j].phone = u.new[u.done + j]
    BY <2>3, <2>6, <2>7
  <2>11. \A i \in (len + 1)..(len + k) :
            \E n \in DOMAIN u.new : /\ arrived'[i].phone = u.new[n] /\ u.done < n /\ n <= v.done
                                    /\ n = u.done + (i - len)
    <3>1. SUFFICES ASSUME NEW i \in (len + 1)..(len + k)
                   PROVE  \E n \in DOMAIN u.new : arrived'[i].phone = u.new[n] /\ u.done < n /\ n <= v.done /\ n = u.done + (i - len)
      OBVIOUS
    <3>2. PICK j \in 1..k : i = len + j /\ u.done + j \in DOMAIN u.new /\ u.done < u.done + j /\ u.done + j <= v.done
      BY <2>9
    <3>3. j = i - len
      BY <3>2
    <3>4. QED
      BY <2>10, <3>2, <3>3
  <2>12. \A i, j \in (len + 1)..(len + k) : i # j => arrived'[i].phone # arrived'[j].phone
    <3>1. SUFFICES ASSUME NEW i \in (len + 1)..(len + k), NEW j \in (len + 1)..(len + k), i # j
                   PROVE  arrived'[i].phone # arrived'[j].phone
      OBVIOUS
    <3>2. PICK m \in DOMAIN u.new : arrived'[i].phone = u.new[m] /\ u.done < m /\ m = u.done + (i - len)
      BY <2>11
    <3>3. PICK n \in DOMAIN u.new : arrived'[j].phone = u.new[n] /\ u.done < n /\ n = u.done + (j - len)
      BY <2>11
    <3>4. m # n
      BY <2>5, <3>1, <3>2, <3>3
    <3>5. QED
      BY <2>8, <3>2, <3>3, <3>4 DEF Unknown
  <2>13. \A i \in (len + 1)..(len + k) : Live(arrived'[i].phone) = {}
    <3>1. SUFFICES ASSUME NEW i \in (len + 1)..(len + k) PROVE Live(arrived'[i].phone) = {}
      OBVIOUS
    <3>2. PICK m \in DOMAIN u.new : arrived'[i].phone = u.new[m] /\ u.done < m
      BY <2>11
    <3>3. QED
      BY <2>8, <3>2 DEF Unknown
  <2>14. Grown(k, u.batch, "file")
    BY <2>3, <2>6
  <2>15. \A p \in Phone : Single(Live(p)')
    BY <1>4, <2>7, <2>12, <2>13, <2>14, PhoneGrows
  <2>16. Unknown(v)'
    <3>1. SUFFICES ASSUME NEW n \in DOMAIN u.new, v.done < n
                   PROVE  Live(u.new[n])' = {} /\ \A j \in DOMAIN u.new : j # n => u.new[j] # u.new[n]
      BY <2>3 DEF Unknown
    <3>2. u.done < n /\ n \in Nat
      BY <2>3, <2>5, <3>1
    <3>3. Live(u.new[n]) = {} /\ \A j \in DOMAIN u.new : j # n => u.new[j] # u.new[n]
      BY <2>8, <3>2 DEF Unknown
    <3>4. PICK p : p = u.new[n]
      OBVIOUS
    <3>5. Live(p)' = Live(p) \cup {i \in (len + 1)..(len + k) : arrived'[i].phone = p}
      BY <2>7, <2>14, GrownCounts
    <3>6. ASSUME NEW i \in (len + 1)..(len + k), arrived'[i].phone = p PROVE FALSE
      <4>1. PICK m \in DOMAIN u.new : arrived'[i].phone = u.new[m] /\ m <= v.done
        BY <2>11
      <4>2. m # n
        BY <2>3, <2>5, <3>1, <4>1
      <4>3. QED
        BY <3>3, <3>4, <3>6, <4>1, <4>2
    <3>7. Live(p)' = {}
      BY <3>3, <3>4, <3>5, <3>6
    <3>8. QED
      BY <3>3, <3>4, <3>7
  <2>17. PhoneFits(v)'
    BY <1>6, <2>3, <2>16 DEF PhoneFits
  <2>18. \A q \in Request : PhoneFits(req[q])' /\ EditFits(req[q])'
    BY <1>6, <1>7, <2>3, <2>14, <2>17
  <2>19. QED
    BY <2>15, <2>18 DEF PhoneFine, Single
<1>10. QED
  BY <1>5, <1>8, <1>9, <1>11 DEF Adds, Renumbers

LEMMA IntakeNeverCrashes == ASSUME IntakeNext PROVE crashed' = crashed
BY Zenon DEF IntakeNext, SyncNow, Deliver, ByForm, Delete, Amend, Rename, SetSource, CacheCount, LookUp, TodaysBatch, CreateLead,
       CreateFails, NoteCreated, AddToBatch, SaveReceived, SaveError, SaveSource, MarkDeleted, LoadBatch, Recount, SaveTotal,
       SaveLead, SaveBatch, RunImport, Parse, Unreadable, OpenBatch, ReadPhones, ReadRows, Insert, Inserted, InsertFails,
       FinishImport, DropBatch, UploadFile, Expires

-----------------------------------------------------------------------------
(* The plan's cap: the count that is kept is not below the rows, but for    *)
(* the leads that are about to be noted.                                     *)

Covers(n) == counted = NoCount \/ LiveLeads <= counted + n
\* It created leads that the count does not know yet.
Pending(w) == (w.op \in ByOne /\ w.next = "note") \/ (w.op = "import" /\ w.next = "bulk")
WithinFits(w) ==
    /\ w.op \in Makers /\ w.next = "cache" => LiveLeads <= w.n
    /\ w.op \in ByOne /\ w.next \in {"batch", "create"} => LiveLeads < MaxLeads
    /\ w.op \in ByOne /\ w.next = "note" => Covers(1)
    /\ w.op = "import" /\ w.next = "bulk" => LiveLeads + Len(w.new) <= MaxLeads + w.done /\ Covers(w.done)
WithinFine ==
    /\ LiveLeads <= MaxLeads
    /\ (\E r \in Request : Pending(req[r])) \/ Covers(0)
    /\ \A r \in Request : WithinFits(req[r])
WithinInv == crashed \/ Met(Makers, Makers) \/ {"chunks"} \in met \/ EditMet \/ WithinFine

LEMMA LiveLeadsIsNat == TypeInv => LiveLeads \in Nat
BY CountsAreNat
LEMMA CountIsNat == TypeInv => counted \in Nat
BY IntakeVariables
LEMMA CapIsNat == MaxLeads \in Nat /\ MaxLeads # 0 /\ NoCount \in Nat
BY IntakeAssumption DEF NoCount

LEMMA MakerFields ==
    ASSUME TypeInv, NEW r \in Request, NEW w, w = req[r]
    PROVE  /\ w.op \in Makers => w.n \in Nat
           /\ w.op = "import" => Len(w.new) \in Nat /\ w.done \in Nat /\ w \in ImportReq
<1>1. w \in AnyReq
  BY IntakeVariables
<1>2. Makers \subseteq IntakeKinds /\ Makers = {"hook", "sync", "hand", "import"} /\ Intakes = {"hook", "sync"}
  BY DEF Makers, IntakeKinds, Intakes
<1>3. w.op = "import" => w \in ImportReq
  BY <1>1, KindOf, IntakeKind DEF IntakeKinds
<1>4. w.op = "hand" => w \in HandReq
  BY <1>1, KindOf, IntakeKind DEF IntakeKinds
<1>5. w.op \in Intakes => w \in HookReq
  BY <1>1, <1>2, KindOf, IntakeKind
<1>6. w \in HandReq \cup HookReq => w.n \in Nat
  BY DEF HandReq, HookReq
<1>7. QED
  BY <1>2, <1>3, <1>4, <1>5, <1>6, ImportFields

Fielded(w) == (w.op \in Makers => w.n \in Nat) /\ (w.op = "import" => Len(w.new) \in Nat /\ w.done \in Nat)
FieldsInv == \A r \in Request : Fielded(req[r])
LEMMA AllFielded == TypeInv => FieldsInv
BY MakerFields DEF Fielded, FieldsInv

LEMMA WithinShrinks ==
    ASSUME TypeInv, TypeInv', LiveLeads' <= LiveLeads, counted' = counted \/ counted' = NoCount, NEW w, Fielded(w), WithinFits(w)
    PROVE  WithinFits(w)'
<1>1. (TypeInv => LiveLeads \in Nat)'
  BY LiveLeadsIsNat, PTL
<1>2. LiveLeads \in Nat /\ LiveLeads' \in Nat /\ counted \in Nat /\ MaxLeads \in Nat
  BY <1>1, LiveLeadsIsNat, CountIsNat, CapIsNat
<1>3. \A n \in Nat : Covers(n) => Covers(n)'
  BY <1>2 DEF Covers, NoCount
<1>4. ASSUME w.op \in Makers, w.next = "cache" PROVE LiveLeads' <= w.n
  BY <1>2, <1>4 DEF WithinFits, Fielded
<1>5. ASSUME w.op \in ByOne, w.next \in {"batch", "create"} PROVE LiveLeads' < MaxLeads
  BY <1>2, <1>5 DEF WithinFits
<1>6. ASSUME w.op \in ByOne, w.next = "note" PROVE Covers(1)'
  BY <1>3, <1>6 DEF WithinFits
<1>7. ASSUME w.op = "import", w.next = "bulk" PROVE LiveLeads' + Len(w.new) <= MaxLeads + w.done /\ Covers(w.done)'
  <2>1. Len(w.new) \in Nat /\ w.done \in Nat
    BY <1>7 DEF Fielded
  <2>2. LiveLeads + Len(w.new) <= MaxLeads + w.done /\ Covers(w.done)
    BY <1>7 DEF WithinFits
  <2>3. QED
    BY <1>2, <1>3, <2>1, <2>2
<1>8. QED
  BY <1>4, <1>5, <1>6, <1>7 DEF WithinFits

\* One who is not pending goes on, and the count stays.
LEMMA WithinCalm ==
    ASSUME TypeInv, TypeInv', WithinFine, LiveLeads' <= LiveLeads, counted' = counted,
           NEW r \in Request, NEW v, Becomes(r, v), ~Pending(req[r]), WithinFits(v)
    PROVE  WithinFine'
<1>1. (TypeInv => LiveLeads \in Nat)'
  BY LiveLeadsIsNat, PTL
<1>2. LiveLeads \in Nat /\ LiveLeads' \in Nat /\ counted \in Nat /\ MaxLeads \in Nat
  BY <1>1, LiveLeadsIsNat, CountIsNat, CapIsNat
<1>3. LiveLeads' <= MaxLeads
  BY <1>2 DEF WithinFine
<1>4. Covers(0) => Covers(0)'
  BY <1>2 DEF Covers, NoCount
<1>5. req'[r] = v /\ \A q \in Request \ {r} : req'[q] = req[q]
  BY DEF Becomes
<1>6. (\E q \in Request : Pending(req[q])) => (\E q \in Request : Pending(req[q]))'
  <2>1. ASSUME NEW q \in Request, Pending(req[q]) PROVE Pending(req[q])'
    <3>1. req'[q] = req[q]
      BY <1>5, <2>1
    <3>2. QED
      BY <2>1, <3>1 DEF Pending
  <2>2. QED
    BY <2>1
<1>7. ASSUME NEW q \in Request PROVE WithinFits(req[q])'
  <2>1. PICK w : w = req'[q]
    OBVIOUS
  <2>2. (TypeInv => FieldsInv)'
    BY AllFielded, PTL
  <2>3. Fielded(w)
    BY <2>1, <2>2 DEF Fielded, FieldsInv
  <2>4. WithinFits(w)
    BY <1>5, <2>1 DEF WithinFine
  <2>5. WithinFits(w)'
    BY <2>3, <2>4, WithinShrinks
  <2>6. QED
    BY <2>1, <2>5
<1>8. QED
  BY <1>3, <1>4, <1>6, <1>7 DEF WithinFine

LEMMA WithinStill ==
    ASSUME TypeInv, TypeInv', WithinFine, LiveLeads' <= LiveLeads, counted' = counted \/ counted' = NoCount, \A q \in Request : req'[q] = req[q]
    PROVE  WithinFine'
<1>1. (TypeInv => LiveLeads \in Nat)'
  BY LiveLeadsIsNat, PTL
<1>2. LiveLeads \in Nat /\ LiveLeads' \in Nat /\ counted \in Nat /\ MaxLeads \in Nat
  BY <1>1, LiveLeadsIsNat, CountIsNat, CapIsNat
<1>3. LiveLeads' <= MaxLeads
  BY <1>2 DEF WithinFine
<1>4. Covers(0) => Covers(0)'
  BY <1>2 DEF Covers, NoCount
<1>5. (\E q \in Request : Pending(req[q])) => (\E q \in Request : Pending(req[q]))'
  BY DEF Pending
<1>6. ASSUME NEW q \in Request PROVE WithinFits(req[q])'
  <2>1. PICK w : w = req[q]
    OBVIOUS
  <2>2. WithinFits(w) /\ Fielded(w)
    BY <2>1, AllFielded DEF WithinFine, FieldsInv
  <2>3. WithinFits(w)'
    BY <2>2, WithinShrinks
  <2>4. QED
    BY <2>1, <2>3
<1>7. QED
  BY <1>3, <1>4, <1>5, <1>6 DEF WithinFine

\* A maker that is alone.
Alone(r) == \A q \in Request \ {r} : req[q].op \notin Makers /\ req'[q] = req[q]

LEMMA MakersKinds ==
    /\ Makers = {"hook", "sync", "hand", "import"} /\ ByOne = {"hook", "sync", "hand"} /\ Adders = {"hook", "sync"}
    /\ Makers \in SUBSET IntakeKinds /\ Idle.op = "idle"
BY DEF Makers, ByOne, Adders, IntakeKinds, Idle

LEMMA AloneCovers ==
    ASSUME WithinFine, NEW r \in Request, Alone(r), ~Pending(req[r])
    PROVE  Covers(0)
BY MakersKinds DEF WithinFine, Alone, Pending

LEMMA AloneWithin ==
    ASSUME NEW r \in Request, NEW v, Becomes(r, v), Alone(r), LiveLeads' <= MaxLeads, Pending(v) \/ Covers(0)', WithinFits(v)'
    PROVE  WithinFine'
<1>1. req'[r] = v
  BY DEF Becomes
<1>2. \A q \in Request \ {r} : WithinFits(req[q])'
  BY MakersKinds DEF Alone, WithinFits
<1>3. WithinFits(req[r])' /\ (Pending(v) => Pending(req[r])')
  BY <1>1 DEF Pending
<1>4. QED
  BY <1>2, <1>3 DEF WithinFine

\* What the count allows, when nobody is about to note more.
LEMMA CountedAllows ==
    ASSUME TypeInv, Covers(0), counted # NoCount
    PROVE  counted < MaxLeads => LiveLeads < MaxLeads
<1>1. LiveLeads \in Nat /\ counted \in Nat /\ MaxLeads \in Nat
  BY LiveLeadsIsNat, CountIsNat, CapIsNat
<1>2. QED
  BY <1>1 DEF Covers

LEMMA WithinHook ==
    ASSUME TypeInv, WithinFine, NEW r \in Request, NEW u, u = req[r], NEW v, v = req'[r],
           u.op \in Makers \/ v.op \in Makers => Alone(r),
           \/ \E left \in Deliveries : SyncNow(r, left) \/ \E lenient \in BOOLEAN : Deliver(r, left, lenient)
           \/ LookUp(r) \/ TodaysBatch(r) \/ CreateFails(r) \/ AddToBatch(r) \/ SaveReceived(r) \/ SaveError(r)
           \/ \E p \in Phone : ByForm(r, p)
    PROVE  Becomes(r, v) /\ ~Pending(u) /\ WithinFits(v)
<1> USE MakersKinds
<1>1. ASSUME NEW w, LookedUpTo(w, v), v.op \in Adders, ~Pending(u) PROVE WithinFits(v)
  <2>1. Covers(0)
    BY <1>1, AloneCovers
  <2>2. v.next \in {"cache", "batch", "config", "look", "error"}
    BY <1>1 DEF LookedUpTo, HookDecided, HookAllowed
  <2>3. v.next = "cache" => v.n = LiveLeads
    BY <1>1 DEF LookedUpTo, HookDecided, HookAllowed
  <2>4. v.next = "batch" => counted # NoCount /\ counted < MaxLeads
    BY <1>1 DEF LookedUpTo, HookDecided, HookAllowed
  <2>5. v.next = "batch" => LiveLeads < MaxLeads
    BY <2>1, <2>4, CountedAllows
  <2>6. v.next = "cache" => LiveLeads <= v.n
    BY <2>3, LiveLeadsIsNat
  <2>7. QED
    BY <1>1, <2>2, <2>5, <2>6 DEF WithinFits
<1>2. CASE \E left \in Deliveries : SyncNow(r, left) \/ \E lenient \in BOOLEAN : Deliver(r, left, lenient)
  <2>1. Becomes(r, v) /\ HookLoads(v) /\ v.op \in Adders /\ Free(r)
    BY <1>2, HookBegins DEF Begun
  <2>2. ~Pending(u)
    BY <2>1 DEF Free, Pending
  <2>3. QED
    BY <1>1, <2>1, <2>2 DEF HookLoads
<1>3. CASE LookUp(r)
  <2>1. u.op \in Adders /\ u.next = "look" /\ LookedUpTo(u, v) /\ Becomes(r, v)
    BY <1>3, HookMoves
  <2>2. ~Pending(u) /\ v.op \in Adders
    BY <2>1 DEF Pending, LookedUpTo, HookStays
  <2>3. QED
    BY <1>1, <2>1, <2>2
<1>4. CASE TodaysBatch(r)
  <2>1. u.op \in Adders /\ u.next = "batch" /\ Becomes(r, v) /\ v.op = u.op /\ v.next = "create"
    BY <1>4, HookMoves
  <2>2. LiveLeads < MaxLeads
    BY <2>1 DEF WithinFine, WithinFits
  <2>3. QED
    BY <2>1, <2>2 DEF WithinFits, Pending
<1>5. CASE CreateFails(r) \/ AddToBatch(r)
  <2>1. u.op \in Adders /\ u.next # "note" /\ Becomes(r, v) /\ v.op = u.op /\ v.next \in {"config", "look", "error"}
    <3>1. CASE CreateFails(r)
      BY <3>1, HookMoves DEF HookStays
    <3>2. CASE AddToBatch(r)
      BY <3>2, HookMoves
    <3>3. QED
      BY <1>5, <3>1, <3>2
  <2>2. QED
    BY <2>1 DEF WithinFits, Pending
<1>6. CASE SaveReceived(r) \/ SaveError(r)
  <2>1. Becomes(r, v) /\ v = Idle
    BY <1>6, HookMoves
  <2>2. u.next # "note" /\ u.op # "import"
    BY <1>6 DEF SaveReceived, SaveError, At, Intakes
  <2>3. QED
    BY <2>1, <2>2 DEF WithinFits, Pending
<1>7. CASE \E p \in Phone : ByForm(r, p)
  <2>1. PICK p \in Phone : ByForm(r, p)
    BY <1>7
  <2>2. /\ Begun(r, v) /\ v.op = "hand" /\ v.next \in {"cache", "create"} /\ (v.next = "cache" => v.n = LiveLeads)
        /\ v.next = "create" => counted # NoCount /\ counted < MaxLeads
    BY <2>1, FormMoves
  <2>3. Becomes(r, v) /\ ~Pending(u)
    BY <2>2 DEF Begun, Free, Pending
  <2>4. Covers(0)
    BY <2>2, <2>3, AloneCovers
  <2>5. v.next = "create" => LiveLeads < MaxLeads
    BY <2>2, <2>4, CountedAllows
  <2>6. v.next = "cache" => LiveLeads <= v.n
    BY <2>2, LiveLeadsIsNat
  <2>7. QED
    BY <2>2, <2>3, <2>5, <2>6 DEF WithinFits
<1>8. QED
  BY <1>2, <1>3, <1>4, <1>5, <1>6, <1>7

\* Of the rows of a file as many are left as the count allows.
LEMMA FileWithin ==
    ASSUME TypeInv, NEW w \in ImportReq, w.done = 0, NEW n \in Nat, LiveLeads <= n, NEW v, FileAllowed(w, v, n)
    PROVE  v.op = "import" /\ v.next \in {"recount", "bulk"} /\ v.done = 0
           /\ (v.next = "bulk" => LiveLeads + Len(v.new) <= MaxLeads + v.done)
<1>1. PICK most \in 0..Len(w.new) :
          /\ v.new = SubSeq(w.new, 1, most) /\ (v.next = "recount" <=> most = 0)
          /\ most # 0 => n + most <= MaxLeads
  BY DEF FileAllowed
<1>2. v.op = "import" /\ v.next \in {"recount", "bulk"} /\ v.done = 0
  BY DEF FileAllowed, FileStays
<1>3. w.new \in Seq(Phone)
  BY ImportFields
<1>4. Len(v.new) = most
  BY <1>1, <1>3
<1>5. LiveLeads \in Nat /\ MaxLeads \in Nat /\ most \in Nat
  BY <1>3, LiveLeadsIsNat, CapIsNat
<1>6. v.next = "bulk" => n + most <= MaxLeads
  BY <1>1
<1>7. QED
  BY <1>2, <1>4, <1>5, <1>6

LEMMA WithinFile ==
    ASSUME TypeInv, KeptInv, WithinFine, NEW r \in Request, NEW u, u = req[r], NEW v, v = req'[r],
           u.op \in Makers \/ v.op \in Makers => Alone(r),
           \/ RunImport(r) \/ Parse(r) \/ Unreadable(r) \/ OpenBatch(r) \/ ReadPhones(r) \/ ReadRows(r) \/ FinishImport(r)
    PROVE  Becomes(r, v) /\ ~Pending(u) /\ WithinFits(v)
<1> USE MakersKinds
<1>1. CASE RunImport(r) \/ Parse(r) \/ OpenBatch(r) \/ ReadPhones(r)
  <2>1. Becomes(r, v) /\ v.op = "import" /\ v.next \in {"parse", "open", "phones", "rows"}
    BY <1>1, FileBegins, FileReads DEF Begun
  <2>2. Free(r) \/ (u.op = "import" /\ u.next \in {"parse", "open", "phones"})
    BY <1>1, FileBegins, FileReads DEF Begun
  <2>3. QED
    BY <2>1, <2>2 DEF WithinFits, Pending, Free
<1>2. CASE Unreadable(r) \/ FinishImport(r)
  <2>1. Becomes(r, v) /\ v = Idle /\ u.op = "import" /\ u.next \in {"parse", "finish"}
    BY <1>2, FileEnds
  <2>2. QED
    BY <2>1 DEF WithinFits, Pending
<1>3. CASE ReadRows(r)
  <2>1. PICK w \in ImportReq : u.op = "import" /\ u.next = "rows" /\ Becomes(r, v) /\ w = AfterRows(u) /\ FileDecided(w, v)
    BY <1>3, FileReads
  <2>2. u \in ImportReq /\ u.new = <<>> /\ u.ok = 0 /\ u.failed = 0 /\ u.dup = 0 /\ u.done = 0
    BY <1>3, <2>1, FileReads DEF KeptInv, Keeps, Early
  <2>3. w.done = 0
    BY <2>1, <2>2, RowsAreRead DEF RowsRead
  <2>4. ~Pending(u)
    BY <2>1 DEF Pending
  <2>5. Covers(0)
    BY <2>1, <2>4, AloneCovers
  <2>6. CASE FileStays(w, v) /\ v.next = "cache" /\ v.n = LiveLeads
    <3>1. v.op = "import"
      BY <2>6 DEF FileStays
    <3>2. LiveLeads <= v.n
      BY <2>6, LiveLeadsIsNat
    <3>3. QED
      BY <2>1, <2>4, <2>6, <3>1, <3>2 DEF WithinFits
  <2>7. CASE counted # NoCount /\ FileAllowed(w, v, counted)
    <3>1. LiveLeads <= counted /\ counted \in Nat
      BY <2>5, <2>7, CountIsNat, LiveLeadsIsNat DEF Covers
    <3>2. v.op = "import" /\ v.next \in {"recount", "bulk"} /\ v.done = 0
          /\ (v.next = "bulk" => LiveLeads + Len(v.new) <= MaxLeads + v.done)
      BY <2>3, <2>7, <3>1, FileWithin
    <3>3. QED
      BY <2>1, <2>4, <2>5, <3>2 DEF WithinFits
  <2>8. QED
    BY <2>1, <2>6, <2>7 DEF FileDecided
<1>4. QED
  BY <1>1, <1>2, <1>3

LEMMA WithinOthers ==
    ASSUME TypeInv, NEW r \in Request, NEW u, u = req[r], NEW v, v = req'[r],
           \/ \E ls \in (SUBSET DOMAIN arrived) \ {{}} : Delete(r, ls)
           \/ \E i \in DOMAIN arrived, p \in Phone : Amend(r, i, p)
           \/ \E b \in DOMAIN batches : Rename(r, b)
           \/ \E on \in BOOLEAN : SetSource(r, on)
           \/ SaveLead(r) \/ SaveBatch(r) \/ SaveSource(r) \/ MarkDeleted(r) \/ LoadBatch(r) \/ Recount(r) \/ SaveTotal(r)
    PROVE  Becomes(r, v) /\ ~Pending(u) /\ WithinFits(v)
<1> USE MakersKinds
<1>1. Counters = {"delete", "import"} /\ Editors = {"amend", "renumber"}
  BY DEF Counters, Editors
<1>2. CASE \/ \E ls \in (SUBSET DOMAIN arrived) \ {{}} : Delete(r, ls)
           \/ \E i \in DOMAIN arrived, p \in Phone : Amend(r, i, p)
           \/ \E b \in DOMAIN batches : Rename(r, b)
           \/ \E on \in BOOLEAN : SetSource(r, on)
  <2>1. Becomes(r, v) /\ v.op \in Editors \cup {"delete", "rename", "toggle"} /\ Free(r)
    BY <1>2, CopyBegins
  <2>2. QED
    BY <1>1, <2>1 DEF WithinFits, Free, Pending
<1>3. CASE SaveLead(r) \/ SaveBatch(r) \/ SaveSource(r) \/ MarkDeleted(r) \/ LoadBatch(r)
  <2>1. Becomes(r, v) /\ (v = Idle \/ v.op = "delete") /\ u.op \in Editors \cup {"delete", "rename", "toggle"}
    BY <1>3, DeleteMoves, RowMoves, ToggleMoves
  <2>2. QED
    BY <1>1, <2>1 DEF WithinFits, Pending
<1>4. CASE Recount(r) \/ SaveTotal(r)
  <2>1. u.op \in Counters /\ u.next \in {"recount", "total"} /\ Becomes(r, v) /\ (Ended(u, v) \/ (v.op = u.op /\ v.next = "total"))
    BY <1>4, CountMoves DEF CountStays
  <2>2. v.op \in {"delete", "import", "idle"} /\ (v.op = "import" => v.next \in {"finish", "total"})
    BY <1>1, <2>1 DEF Ended
  <2>3. QED
    BY <1>1, <2>1, <2>2 DEF WithinFits, Pending
<1>5. QED
  BY <1>2, <1>3, <1>4

LEMMA WithinAdds ==
    ASSUME TypeInv, TypeInv', WithinFine, NEW r \in Request, NEW u, u = req[r], NEW v, v = req'[r], Alone(r),
           CreateLead(r) \/ Insert(r)
    PROVE  WithinFine'
<1> USE MakersKinds
<1>1. LiveLeads \in Nat /\ counted \in Nat /\ MaxLeads \in Nat
  BY LiveLeadsIsNat, CountIsNat, CapIsNat
<1>2. counted' = counted
  BY DEF CreateLead, Insert
<1>3. CASE CreateLead(r)
  <2>1. u.op \in ByOne /\ u.next = "create" /\ Becomes(r, v) /\ v.op = u.op /\ v.next = "note" /\ Grown(1, u.batch, HowOf(u))
    BY <1>3, CreateMoves
  <2>2. LiveLeads' = LiveLeads + 1
    BY <2>1, GrownCounts
  <2>3. LiveLeads < MaxLeads /\ Covers(0)
    BY <2>1, AloneCovers DEF WithinFine, WithinFits, Pending
  <2>4. LiveLeads' <= MaxLeads /\ Covers(1)'
    BY <1>1, <1>2, <2>2, <2>3 DEF Covers, NoCount
  <2>5. Pending(v) /\ WithinFits(v)'
    BY <2>1, <2>4 DEF Pending, WithinFits
  <2>6. QED
    BY <2>1, <2>4, <2>5, AloneWithin
<1>4. CASE Insert(r)
  <2>1. /\ u.op = "import" /\ u.next = "bulk" /\ Becomes(r, v) /\ v.op = "import" /\ v.next = "bulk" /\ v.new = u.new
        /\ v.done \in Nat /\ u.done < v.done /\ v.done <= Len(u.new)
        /\ Grown(v.done - u.done, u.batch, "file")
    BY <1>4, FileInserts
  <2>2. u.done \in Nat /\ Len(u.new) \in Nat
    BY <2>1, MakerFields
  <2>3. PICK k \in Nat : k = v.done - u.done
    BY <2>1, <2>2
  <2>4. PICK len \in Nat : len = Len(u.new)
    BY <2>2
  <2>5. LiveLeads' = LiveLeads + k
    BY <2>1, <2>3, GrownCounts
  <2>6. LiveLeads + len <= MaxLeads + u.done /\ Covers(u.done)
    BY <2>1, <2>4 DEF WithinFine, WithinFits
  <2>a. PICK from \in Nat, to \in Nat : from = u.done /\ to = v.done
    BY <2>1, <2>2
  <2>b. k = to - from /\ to <= len /\ LiveLeads + len <= MaxLeads + from
    BY <2>1, <2>3, <2>4, <2>6, <2>a
  <2>c. LiveLeads' + len <= MaxLeads + to /\ LiveLeads' <= MaxLeads
    BY <1>1, <2>5, <2>b
  <2>7. LiveLeads' + len <= MaxLeads + v.done /\ LiveLeads' <= MaxLeads
    BY <2>a, <2>c
  <2>8. Covers(v.done)'
    <3>1. CASE counted = NoCount
      BY <1>2, <3>1 DEF Covers, NoCount
    <3>2. CASE LiveLeads <= counted + u.done
      BY <1>1, <1>2, <2>1, <2>2, <2>3, <2>5, <3>2 DEF Covers
    <3>3. QED
      BY <2>6, <3>1, <3>2 DEF Covers
  <2>9. Pending(v) /\ WithinFits(v)'
    BY <2>1, <2>4, <2>7, <2>8 DEF Pending, WithinFits
  <2>10. QED
    BY <2>1, <2>7, <2>9, AloneWithin
<1>5. QED
  BY <1>3, <1>4

LEMMA WithinCounts ==
    ASSUME TypeInv, TypeInv', KeptInv, WithinFine, {"chunks"} \notin met', NEW r \in Request, NEW u, u = req[r], NEW v, v = req'[r], Alone(r),
           CacheCount(r) \/ NoteCreated(r) \/ Inserted(r) \/ InsertFails(r)
    PROVE  WithinFine'
<1> USE MakersKinds
<1>1. LiveLeads \in Nat /\ counted \in Nat /\ MaxLeads \in Nat /\ NoCount \in Nat /\ LiveLeads <= MaxLeads
  BY LiveLeadsIsNat, CountIsNat, CapIsNat DEF WithinFine
<1>2. arrived' = arrived
  BY DEF CacheCount, NoteCreated, Inserted, InsertFails, intakeVars
<1>3. LiveLeads' = LiveLeads
  BY <1>2, SameCounts
<1>4. CASE NoteCreated(r)
  <2>1. u.op \in ByOne /\ u.next = "note" /\ Becomes(r, v) /\ (v = Idle \/ (v.op \in Adders /\ v.next = "add"))
    <3>1. CASE u.op = "hand"
      BY <1>4, <3>1, FormMoves
    <3>2. CASE u.op # "hand"
      BY <1>4, <3>2, HookMoves
    <3>3. QED
      BY <3>1, <3>2
  <2>2. Covers(1) /\ counted' = IF counted = NoCount THEN NoCount ELSE counted + 1
    BY <1>4, <2>1 DEF WithinFine, WithinFits, NoteCreated, Nudged
  <2>3. Covers(0)'
    BY <1>1, <1>3, <2>2 DEF Covers, NoCount
  <2>4. WithinFits(v)'
    BY <2>1 DEF WithinFits
  <2>5. QED
    BY <1>1, <1>3, <2>1, <2>3, <2>4, AloneWithin
<1>5. CASE Inserted(r)
  <2>1. /\ u.op = "import" /\ u.next = "bulk" /\ u.done = Len(u.new) /\ Becomes(r, v) /\ v.op = "import" /\ v.next = "recount"
        /\ counted' = Nudged(Len(u.new))
    BY <1>5, FileInserts
  <2>2. PICK len \in Nat : len = Len(u.new)
    BY <2>1, MakerFields
  <2>3. Covers(len) /\ counted' = IF counted = NoCount THEN NoCount ELSE counted + len
    BY <2>1, <2>2 DEF WithinFine, WithinFits, Nudged
  <2>4. Covers(0)'
    BY <1>1, <1>3, <2>3 DEF Covers, NoCount
  <2>5. WithinFits(v)'
    BY <2>1 DEF WithinFits
  <2>6. QED
    BY <1>1, <1>3, <2>1, <2>4, <2>5, AloneWithin
<1>6. CASE InsertFails(r)
  <2>1. u.op = "import" /\ u.next = "bulk" /\ Becomes(r, v) /\ v.op = "import" /\ v.next = "recount" /\ ~(u.done > 0)
    BY <1>6, FileInserts
  <2>2. u.done = 0 /\ counted' = counted
    BY <1>6, <2>1, MakerFields DEF InsertFails, intakeVars
  <2>3. Covers(0)
    BY <2>1, <2>2 DEF WithinFine, WithinFits
  <2>4. Covers(0)'
    BY <1>1, <1>3, <2>2, <2>3 DEF Covers, NoCount
  <2>5. WithinFits(v)'
    BY <2>1 DEF WithinFits
  <2>6. QED
    BY <1>1, <1>3, <2>1, <2>4, <2>5, AloneWithin
<1>7. CASE CacheCount(r)
  <2>1. u.op \in Makers /\ u.next = "cache" /\ counted' = u.n /\ u.n \in Nat /\ Becomes(r, v)
    BY <1>7, CacheMoves
  <2>2. LiveLeads <= u.n
    BY <2>1 DEF WithinFine, WithinFits
  <2>3. Covers(0)'
    BY <1>1, <1>3, <2>1, <2>2 DEF Covers, NoCount
  <2>4. u.n < MaxLeads => LiveLeads' < MaxLeads
    BY <1>1, <1>3, <2>1, <2>2
  <2>5. CASE u.op \in Adders
    <3>1. v.op = u.op /\ v.next \in {"batch", "config", "look", "error"} /\ (v.next = "batch" => u.n < MaxLeads)
      BY <1>7, <2>5, CacheMoves DEF HookAllowed, HookStays
    <3>2. WithinFits(v)'
      BY <2>4, <2>5, <3>1 DEF WithinFits
    <3>3. QED
      BY <1>1, <1>3, <2>1, <2>3, <3>2, AloneWithin
  <2>6. CASE u.op = "hand"
    <3>1. v = Idle \/ (v.op = "hand" /\ v.next = "create" /\ u.n < MaxLeads)
      BY <1>7, <2>6, CacheMoves DEF HandStays
    <3>2. WithinFits(v)'
      BY <2>4, <3>1 DEF WithinFits
    <3>3. QED
      BY <1>1, <1>3, <2>1, <2>3, <3>2, AloneWithin
  <2>7. CASE u.op = "import"
    <3>1. FileAllowed(u, v, u.n) /\ u \in ImportReq
      BY <1>7, <2>7, CacheMoves, FileReads
    <3>2. u.done = 0
      BY <2>1, <2>7 DEF KeptInv, Keeps
    <3>3. v.op = "import" /\ v.next \in {"recount", "bulk"} /\ v.done = 0
          /\ (v.next = "bulk" => LiveLeads + Len(v.new) <= MaxLeads + v.done)
      BY <2>1, <2>2, <3>1, <3>2, FileWithin
    <3>4. WithinFits(v)'
      BY <1>3, <2>3, <3>3 DEF WithinFits
    <3>5. QED
      BY <1>1, <1>3, <2>1, <2>3, <3>4, AloneWithin
  <2>8. QED
    BY <2>1, <2>5, <2>6, <2>7
<1>8. QED
  BY <1>4, <1>5, <1>6, <1>7

LEMMA WithinStays ==
    ASSUME TypeInv, TypeInv', KeptInv, IntakeMeets, LivesInv, WithinInv, IntakeNext
    PROVE  WithinInv'
<1>1. IntakeMeets' /\ met \subseteq met' /\ crashed' = crashed
  BY IntakeMeet, IntakeNeverCrashes
<1>2. SUFFICES ASSUME ~crashed', ~Met(Makers, Makers)', {"chunks"} \notin met', ~EditMet' PROVE WithinFine'
  BY DEF WithinInv
<1>3. ~EditMet /\ WithinFine
  BY <1>1, <1>2, StillMet DEF WithinInv, EditMet
<1>4. ASSUME NEW r \in Request, NEW v, Becomes(r, v), req[r].op \in Makers \/ v.op \in Makers PROVE Alone(r)
  BY <1>1, <1>2, <1>4, Apart, MakersKinds DEF Alone
<1>5. ASSUME NEW r \in Request, CreateLead(r) \/ Insert(r) PROVE WithinFine'
  <2>1. PICK u : u = req[r]
    OBVIOUS
  <2>2. PICK v : v = req'[r]
    OBVIOUS
  <2>3. u.op \in Makers /\ Becomes(r, v)
    BY <1>5, <2>1, <2>2, CreateMoves, FileInserts, MakersKinds
  <2>4. QED
    BY <1>3, <1>4, <1>5, <2>1, <2>2, <2>3, WithinAdds
<1>6. ASSUME NEW r \in Request, CacheCount(r) \/ NoteCreated(r) \/ Inserted(r) \/ InsertFails(r) PROVE WithinFine'
  <2>1. PICK u : u = req[r]
    OBVIOUS
  <2>2. PICK v : v = req'[r]
    OBVIOUS
  <2>3. u.op \in Makers /\ Becomes(r, v)
    <3>1. CASE CacheCount(r)
      BY <2>1, <2>2, <3>1, CacheMoves
    <3>2. CASE NoteCreated(r) /\ u.op = "hand"
      BY <2>1, <2>2, <3>2, FormMoves, MakersKinds
    <3>3. CASE NoteCreated(r) /\ u.op # "hand"
      BY <2>1, <2>2, <3>3, HookMoves, MakersKinds
    <3>4. CASE Inserted(r) \/ InsertFails(r)
      BY <2>1, <2>2, <3>4, FileInserts, MakersKinds
    <3>5. QED
      BY <1>6, <3>1, <3>2, <3>3, <3>4
  <2>4. QED
    BY <1>2, <1>3, <1>4, <1>6, <2>1, <2>2, <2>3, WithinCounts
<1>7. SUFFICES ASSUME ~Adds PROVE WithinFine'
  BY <1>5 DEF Adds
<1>8. LiveLeads' <= LiveLeads
  BY <1>3, <1>7, FewerLeft DEF Fewer
<1>9. ASSUME NEW r \in Request, NEW v, Becomes(r, v), ~Pending(req[r]), WithinFits(v), counted' = counted PROVE WithinFine'
  BY <1>3, <1>8, <1>9, WithinCalm
<1>10. ASSUME NEW r \in Request,
              \/ \E left \in Deliveries : SyncNow(r, left) \/ \E lenient \in BOOLEAN : Deliver(r, left, lenient)
              \/ LookUp(r) \/ TodaysBatch(r) \/ CreateFails(r) \/ AddToBatch(r) \/ SaveReceived(r) \/ SaveError(r)
              \/ \E p \in Phone : ByForm(r, p)
       PROVE  WithinFine'
  <2>1. PICK u : u = req[r]
    OBVIOUS
  <2>2. PICK v : v = req'[r]
    OBVIOUS
  <2>3. counted' = counted
    BY <1>10 DEF SyncNow, Deliver, LookUp, TodaysBatch, CreateFails, AddToBatch, SaveReceived, SaveError, ByForm, intakeVars
  <2>4. Becomes(r, v)
    BY <1>10, <2>1, <2>2, HookBegins, HookMoves, FormMoves DEF Begun
  <2>5. u.op \in Makers \/ v.op \in Makers => Alone(r)
    BY <1>4, <2>1, <2>4
  <2>6. Becomes(r, v) /\ ~Pending(u) /\ WithinFits(v)
    BY <1>3, <1>10, <2>1, <2>2, <2>5, WithinHook
  <2>7. QED
    BY <1>9, <2>1, <2>3, <2>6
<1>11. ASSUME NEW r \in Request,
              \/ RunImport(r) \/ Parse(r) \/ Unreadable(r) \/ OpenBatch(r) \/ ReadPhones(r) \/ ReadRows(r) \/ FinishImport(r)
       PROVE  WithinFine'
  <2>1. PICK u : u = req[r]
    OBVIOUS
  <2>2. PICK v : v = req'[r]
    OBVIOUS
  <2>3. counted' = counted
    BY <1>11 DEF RunImport, Parse, Unreadable, OpenBatch, ReadPhones, ReadRows, FinishImport, intakeVars
  <2>4. Becomes(r, v)
    BY <1>11, <2>1, <2>2, FileBegins, FileReads, FileEnds DEF Begun
  <2>5. u.op \in Makers \/ v.op \in Makers => Alone(r)
    BY <1>4, <2>1, <2>4
  <2>6. Becomes(r, v) /\ ~Pending(u) /\ WithinFits(v)
    BY <1>3, <1>11, <2>1, <2>2, <2>5, WithinFile
  <2>7. QED
    BY <1>9, <2>1, <2>3, <2>6
<1>12. ASSUME NEW r \in Request,
              \/ \E ls \in (SUBSET DOMAIN arrived) \ {{}} : Delete(r, ls)
              \/ \E i \in DOMAIN arrived, p \in Phone : Amend(r, i, p)
              \/ \E b \in DOMAIN batches : Rename(r, b)
              \/ \E on \in BOOLEAN : SetSource(r, on)
              \/ SaveLead(r) \/ SaveBatch(r) \/ SaveSource(r) \/ MarkDeleted(r) \/ LoadBatch(r) \/ Recount(r) \/ SaveTotal(r)
       PROVE  WithinFine'
  <2>1. PICK u : u = req[r]
    OBVIOUS
  <2>2. PICK v : v = req'[r]
    OBVIOUS
  <2>3. counted' = counted
    BY <1>12 DEF Delete, Amend, Rename, SetSource, SaveLead, SaveBatch, SaveSource, MarkDeleted, LoadBatch, Recount, SaveTotal, intakeVars
  <2>4. Becomes(r, v) /\ ~Pending(u) /\ WithinFits(v)
    BY <1>12, <2>1, <2>2, WithinOthers
  <2>5. QED
    BY <1>9, <2>1, <2>3, <2>4
<1>13. CASE (\E b \in DOMAIN batches : DropBatch(b)) \/ Expires
           \/ \E file \in Files, rule \in {"skip", "update", "create_new"} : UploadFile(file, rule)
  <2>1. (counted' = counted \/ counted' = NoCount) /\ req' = req
    BY <1>13 DEF DropBatch, Expires, UploadFile
  <2>2. QED
    BY <1>3, <1>8, <2>1, WithinStill
<1>14. QED
  BY <1>6, <1>7, <1>10, <1>11, <1>12, <1>13 DEF IntakeNext, Adds

-----------------------------------------------------------------------------
(* The source: what it counts is what came, as one saves its row at a time. *)

\* What a delivery will have counted, with the lead it has just created.
Told(w) == w.copy.received + w.made + (IF w.next \in {"note", "add"} THEN 1 ELSE 0) = From("hook")
SourceFits(w) ==
    /\ w.op \in Adders => w.copy = source /\ ({"halfway"} \in met \/ Told(w))
    /\ w.op = "toggle" => w.copy.received = source.received
FollowsSwitch(c) == (c.on => c.st # "inactive") /\ (~c.on => c.st # "active")
SourceFine ==
    /\ FollowsSwitch(source)
    /\ {"halfway"} \in met \/ (\E r \in Request : req[r].op \in Adders) \/ source.received = From("hook")
    /\ \A r \in Request : SourceFits(req[r])
SourceInv == crashed \/ Met(Saving, Saving) \/ SourceFine

LEMMA SavingKinds ==
    /\ Saving = {"hook", "sync", "toggle"} /\ Adders = {"hook", "sync"} /\ ByOne = {"hook", "sync", "hand"}
    /\ Makers = {"hook", "sync", "hand", "import"} /\ Counters = {"delete", "import"}
    /\ Saving \in SUBSET IntakeKinds /\ Idle.op = "idle" /\ Editors = {"amend", "renumber"}
BY DEF Saving, Makers, ByOne, Adders, Counters, IntakeKinds, Idle, Editors

LEMMA SourceSame ==
    ASSUME SourceFine, source' = source, From("hook")' = From("hook"), met \subseteq met',
           \A q \in Request : req'[q] = req[q] \/ (req[q].op \notin Saving /\ req'[q].op \notin Saving)
    PROVE  SourceFine'
<1> USE SavingKinds
<1>1. FollowsSwitch(source)'
  BY DEF SourceFine
<1>2. {"halfway"} \in met' \/ (\E r \in Request : req'[r].op \in Adders) \/ source'.received = From("hook")'
  BY DEF SourceFine
<1>3. ASSUME NEW q \in Request PROVE SourceFits(req[q])'
  <2>1. PICK w : w = req'[q]
    OBVIOUS
  <2>2. CASE req'[q] = req[q]
    <3>1. SourceFits(w)
      BY <2>1, <2>2 DEF SourceFine
    <3>2. SourceFits(w)'
      BY <3>1 DEF SourceFits, Told
    <3>3. QED
      BY <2>1, <3>2
  <2>3. CASE w.op \notin Saving
    <3>1. SourceFits(w)'
      BY <2>3 DEF SourceFits
    <3>2. QED
      BY <2>1, <3>1
  <2>4. QED
    BY <2>1, <2>2, <2>3
<1>4. QED
  BY <1>1, <1>2, <1>3 DEF SourceFine

\* One that saves the source's row, or will, with no other.
Lone(r) == \A q \in Request \ {r} : req[q].op \notin Saving /\ req'[q] = req[q]

LEMMA LoneSource ==
    ASSUME NEW r \in Request, NEW v, Becomes(r, v), Lone(r), FollowsSwitch(source'), SourceFits(v)',
           v.op \in Adders \/ {"halfway"} \in met' \/ source'.received = From("hook")'
    PROVE  SourceFine'
<1>1. req'[r] = v
  BY DEF Becomes
<1>2. ASSUME NEW q \in Request \ {r} PROVE SourceFits(req[q])'
  <2>1. PICK w : w = req'[q]
    OBVIOUS
  <2>2. w.op \notin Saving
    BY <2>1 DEF Lone
  <2>3. SourceFits(w)'
    BY <2>2, SavingKinds DEF SourceFits
  <2>4. QED
    BY <2>1, <2>3
<1>3. SourceFits(req[r])' /\ (v.op \in Adders => \E q \in Request : req'[q].op \in Adders)
  BY <1>1
<1>4. FollowsSwitch(source)'
  OBVIOUS
<1>5. QED
  BY <1>2, <1>3, <1>4 DEF SourceFine

LEMMA LoneTold ==
    ASSUME SourceFine, NEW r \in Request, Lone(r), req[r].op \notin Adders
    PROVE  {"halfway"} \in met \/ source.received = From("hook")
BY SavingKinds DEF SourceFine, Lone

LEMMA InStepFollows == ASSUME NEW c, NEW d, d.on = c.on, d.st = InStep(c) PROVE FollowsSwitch(d)
BY DEF InStep, FollowsSwitch

LEMMA HookTypes ==
    ASSUME TypeInv, NEW r \in Request, NEW u, u = req[r], u.op \in Adders
    PROVE  u.copy.received \in Nat /\ u.made \in Nat /\ u.copy \in SourceRec
<1>1. u \in HookReq
  BY HookMoves
<1>2. u.copy \in SourceRec /\ u.made \in Nat
  BY <1>1 DEF HookReq
<1>3. QED
  BY <1>2 DEF SourceRec

\* A delivery or sync goes on; its copy and what it made stay.
LEMMA SourceGoes ==
    ASSUME TypeInv, SourceFine, met \subseteq met', NEW r \in Request, NEW u, u = req[r], NEW v, v = req'[r], Lone(r),
           \/ LookUp(r) \/ TodaysBatch(r) \/ CreateFails(r) \/ (NoteCreated(r) /\ u.op # "hand")
           \/ (CacheCount(r) /\ u.op \in Adders)
    PROVE  SourceFine'
<1> USE SavingKinds
<1>1. /\ u.op \in Adders /\ Becomes(r, v) /\ v.op = u.op /\ v.copy = u.copy /\ v.made = u.made
      /\ u.next \in {"note", "add"} <=> v.next \in {"note", "add"}
  <2>1. CASE LookUp(r)
    <3>1. u.op \in Adders /\ u.next = "look" /\ LookedUpTo(u, v) /\ Becomes(r, v)
      BY <2>1, HookMoves
    <3>2. HookStays(u, v) /\ v.next \in {"cache", "batch", "config", "look", "error"}
      BY <3>1 DEF LookedUpTo, HookDecided, HookAllowed
    <3>3. QED
      BY <3>1, <3>2 DEF HookStays
  <2>2. CASE TodaysBatch(r)
    BY <2>2, HookMoves
  <2>3. CASE CreateFails(r)
    BY <2>3, HookMoves DEF HookStays
  <2>4. CASE NoteCreated(r) /\ u.op # "hand"
    BY <2>4, HookMoves
  <2>5. CASE CacheCount(r) /\ u.op \in Adders
    <3>1. u.next = "cache" /\ Becomes(r, v) /\ HookAllowed(u, v, u.n)
      BY <2>5, CacheMoves
    <3>2. QED
      BY <2>5, <3>1 DEF HookAllowed, HookStays
  <2>6. QED
    BY <2>1, <2>2, <2>3, <2>4, <2>5
<1>2. arrived' = arrived /\ source' = source
  BY DEF LookUp, TodaysBatch, CreateFails, NoteCreated, CacheCount, intakeVars
<1>3. From("hook")' = From("hook")
  BY <1>2, SameCounts
<1>4. SourceFits(u) /\ FollowsSwitch(source)
  BY DEF SourceFine
<1>5. Told(u) => Told(v)'
  BY <1>1, <1>3 DEF Told
<1>6. SourceFits(v)'
  BY <1>1, <1>2, <1>4, <1>5 DEF SourceFits
<1>7. QED
  BY <1>1, <1>2, <1>4, <1>6, LoneSource

LEMMA SourceAdds ==
    ASSUME TypeInv, SourceFine, met \subseteq met', NEW r \in Request, NEW u, u = req[r], NEW v, v = req'[r], Lone(r),
           AddToBatch(r) \/ (CreateLead(r) /\ u.op \in Adders)
    PROVE  SourceFine'
<1> USE SavingKinds
<1>1. u.op \in Adders
  BY HookMoves
<1>2. u.copy.received \in Nat /\ u.made \in Nat /\ From("hook") \in Nat /\ SourceFits(u) /\ FollowsSwitch(source)
  BY <1>1, HookTypes, CountsAreNat DEF SourceFine
<1>3. source' = source
  BY DEF AddToBatch, CreateLead
<1>4. CASE AddToBatch(r)
  <2>1. /\ u.next = "add" /\ Becomes(r, v) /\ v.op = u.op /\ v.next \in {"config", "look", "error"} /\ v.copy = u.copy
        /\ v.made = u.made + 1 \/ {"halfway"} \in met'
    BY <1>4, HookMoves
  <2>2. From("hook")' = From("hook")
    BY <1>4, SameCounts DEF AddToBatch
  <2>3. Told(u) => Told(v)' \/ {"halfway"} \in met'
    BY <1>2, <2>1, <2>2 DEF Told
  <2>4. SourceFits(v)'
    BY <1>1, <1>2, <1>3, <2>1, <2>3 DEF SourceFits
  <2>5. QED
    BY <1>1, <1>2, <1>3, <2>1, <2>4, LoneSource
<1>5. CASE CreateLead(r)
  <2>1. /\ u.next = "create" /\ Becomes(r, v) /\ v.op = u.op /\ v.next = "note" /\ v.copy = u.copy /\ v.made = u.made
        /\ Grown(1, u.batch, HowOf(u))
    BY <1>1, <1>5, CreateMoves
  <2>2. HowOf(u) = "hook"
    BY <1>1 DEF HowOf
  <2>3. From("hook")' = From("hook") + 1
    BY <2>1, <2>2, GrownCounts
  <2>4. Told(u) => Told(v)'
    BY <1>2, <2>1, <2>3 DEF Told
  <2>5. SourceFits(v)'
    BY <1>1, <1>2, <1>3, <2>1, <2>4 DEF SourceFits
  <2>6. QED
    BY <1>1, <1>2, <1>3, <2>1, <2>5, LoneSource
<1>6. QED
  BY <1>4, <1>5

LEMMA SourceBegins ==
    ASSUME TypeInv, SourceFine, met \subseteq met', NEW r \in Request, NEW v, v = req'[r], Lone(r),
           \/ \E left \in Deliveries : SyncNow(r, left) \/ \E lenient \in BOOLEAN : Deliver(r, left, lenient)
           \/ \E on \in BOOLEAN : SetSource(r, on)
    PROVE  SourceFine'
<1> USE SavingKinds
<1>1. source \in SourceRec /\ FollowsSwitch(source) /\ From("hook") \in Nat /\ source.received \in Nat
  BY IntakeVariables, CountsAreNat DEF SourceFine, SourceRec
<1>2. CASE \E left \in Deliveries : SyncNow(r, left) \/ \E lenient \in BOOLEAN : Deliver(r, left, lenient)
  <2>1. Begun(r, v) /\ v.op \in Adders /\ HookLoads(v) /\ UNCHANGED intakeVars
    BY <1>2, HookBegins
  <2>2. v.copy = source /\ v.made = 0 /\ v.next \in {"cache", "batch", "config", "look", "error"}
    BY <2>1 DEF HookLoads, LookedUpTo, HookStays, HookDecided, HookAllowed
  <2>3. {"halfway"} \in met \/ source.received = From("hook")
    BY <2>1, LoneTold DEF Begun, Free
  <2>4. source' = source /\ From("hook")' = From("hook")
    BY <2>1, SameCounts DEF intakeVars
  <2>5. source.received = From("hook") => Told(v)'
    BY <1>1, <2>2, <2>4 DEF Told
  <2>6. SourceFits(v)'
    BY <2>1, <2>2, <2>3, <2>4, <2>5 DEF SourceFits
  <2>7. QED
    BY <1>1, <2>1, <2>4, <2>6, LoneSource DEF Begun
<1>3. CASE \E on \in BOOLEAN : SetSource(r, on)
  <2>1. PICK on \in BOOLEAN : SetSource(r, on)
    BY <1>3
  <2>2. Begun(r, v) /\ v.op = "toggle" /\ v.copy = [source EXCEPT !.on = on] /\ UNCHANGED intakeVars
    BY <2>1, ToggleMoves
  <2>3. v.copy.received = source.received
    BY <1>1, <2>2 DEF SourceRec
  <2>4. {"halfway"} \in met \/ source.received = From("hook")
    BY <2>2, LoneTold DEF Begun, Free
  <2>5. source' = source /\ From("hook")' = From("hook")
    BY <2>2, SameCounts DEF intakeVars
  <2>6. SourceFits(v)'
    BY <2>2, <2>3, <2>5 DEF SourceFits
  <2>7. QED
    BY <1>1, <2>2, <2>4, <2>5, <2>6, LoneSource DEF Begun
<1>4. QED
  BY <1>2, <1>3

LEMMA SourceSaves ==
    ASSUME TypeInv, SourceFine, met \subseteq met', NEW r \in Request, NEW u, u = req[r], Lone(r),
           SaveReceived(r) \/ SaveError(r) \/ SaveSource(r)
    PROVE  SourceFine'
<1> USE SavingKinds
<1>1. source \in SourceRec /\ FollowsSwitch(source) /\ From("hook") \in Nat /\ SourceFits(u) /\ source.received \in Nat
  BY IntakeVariables, CountsAreNat DEF SourceFine, SourceRec
<1>2. PICK idle : idle = Idle
  OBVIOUS
<1>3. Becomes(r, idle)
  BY <1>2, HookMoves, ToggleMoves
<1>4. SourceFits(idle)'
  BY <1>2 DEF SourceFits
<1>5. From("hook")' = From("hook")
  BY SameCounts DEF SaveReceived, SaveError, SaveSource
<1>6. CASE SaveReceived(r)
  <2>1. u.op \in Adders /\ u.next = "config"
    BY <1>6, HookMoves DEF SaveReceived, At
  <2>2. u.copy.received \in Nat /\ u.made \in Nat /\ u.copy = source /\ ({"halfway"} \in met \/ Told(u))
    BY <1>1, <2>1, HookTypes DEF SourceFits
  <2>3. Told(u) => source.received + u.made = From("hook")
    BY <1>1, <2>1, <2>2 DEF Told
  <2>4. PICK n \in Nat : n = u.copy.received + u.made
    BY <2>2
  <2>5. PICK st : st = InStep(u.copy)
    OBVIOUS
  <2>6. CASE source' = source /\ u.made = 0
    <3>1. {"halfway"} \in met' \/ source'.received = From("hook")'
      BY <1>1, <1>5, <2>2, <2>3, <2>6
    <3>2. QED
      BY <1>1, <1>3, <1>4, <2>6, <3>1, LoneSource
  <2>7. CASE source' = [source EXCEPT !.received = n, !.st = st]
    <3>1. source'.received = n /\ source'.on = source.on /\ source'.st = st
      BY <1>1, <2>7 DEF SourceRec
    <3>2. FollowsSwitch(source')
      BY <2>2, <2>5, <3>1, InStepFollows
    <3>3. {"halfway"} \in met' \/ source'.received = From("hook")'
      BY <1>5, <2>2, <2>3, <2>4, <3>1
    <3>4. QED
      BY <1>3, <1>4, <3>2, <3>3, LoneSource
  <2>8. QED
    BY <1>6, <2>4, <2>5, <2>6, <2>7 DEF SaveReceived
<1>7. CASE SaveError(r)
  <2>1. u.op \in Adders /\ u.next = "error" /\ source' = [source EXCEPT !.st = "error"] /\ (u.made > 0 => {"halfway"} \in met')
    BY <1>7, HookMoves DEF SaveError, At
  <2>2. u.copy.received \in Nat /\ u.made \in Nat /\ u.copy = source /\ ({"halfway"} \in met \/ Told(u))
    BY <1>1, <2>1, HookTypes DEF SourceFits
  <2>3. source'.received = source.received /\ source'.st = "error"
    BY <1>1, <2>1 DEF SourceRec
  <2>4. Told(u) /\ u.made = 0 => source.received = From("hook")
    BY <1>1, <2>1, <2>2 DEF Told
  <2>5. u.made > 0 \/ u.made = 0
    BY <2>2
  <2>6. {"halfway"} \in met' \/ source'.received = From("hook")'
    BY <1>5, <2>1, <2>2, <2>3, <2>4, <2>5
  <2>7. FollowsSwitch(source')
    BY <2>3 DEF FollowsSwitch
  <2>8. QED
    BY <1>3, <1>4, <2>6, <2>7, LoneSource
<1>8. CASE SaveSource(r)
  <2>1. u.op = "toggle" /\ u.copy \in SourceRec
    BY <1>8, ToggleMoves
  <2>2. PICK c : c = u.copy
    OBVIOUS
  <2>3. PICK st : st = InStep(c)
    OBVIOUS
  <2>4. source' = [c EXCEPT !.st = st]
    BY <1>8, <2>2, <2>3 DEF SaveSource
  <2>5. source'.received = c.received /\ source'.on = c.on /\ source'.st = st
    BY <2>1, <2>2, <2>4 DEF SourceRec
  <2>6. c.received = source.received
    BY <1>1, <2>1, <2>2 DEF SourceFits
  <2>7. {"halfway"} \in met \/ source.received = From("hook")
    BY <2>1, LoneTold
  <2>8. FollowsSwitch(source')
    BY <2>3, <2>5, InStepFollows
  <2>9. {"halfway"} \in met' \/ source'.received = From("hook")'
    BY <1>5, <2>5, <2>6, <2>7
  <2>10. QED
    BY <1>3, <1>4, <2>8, <2>9, LoneSource
<1>9. QED
  BY <1>6, <1>7, <1>8

\* The requests of the other steps.
LEMMA FileOps ==
    ASSUME TypeInv, NEW r \in Request, NEW u, u = req[r], NEW v, v = req'[r],
           \/ RunImport(r) \/ Parse(r) \/ Unreadable(r) \/ OpenBatch(r) \/ ReadPhones(r)
           \/ ReadRows(r) \/ Insert(r) \/ Inserted(r) \/ InsertFails(r) \/ FinishImport(r)
    PROVE  Becomes(r, v) /\ u.op \in {"idle", "import"} /\ v.op \in {"idle", "import"}
<1> USE SavingKinds
<1>1. CASE RunImport(r)
  BY <1>1, FileBegins DEF Begun, Free
<1>2. CASE Parse(r) \/ OpenBatch(r) \/ ReadPhones(r)
  BY <1>2, FileReads
<1>3. CASE ReadRows(r)
  <2>1. PICK w \in ImportReq : u.op = "import" /\ Becomes(r, v) /\ FileDecided(w, v)
    BY <1>3, FileReads
  <2>2. QED
    BY <2>1 DEF FileDecided, FileAllowed, FileStays
<1>4. CASE Insert(r) \/ Inserted(r) \/ InsertFails(r)
  BY <1>4, FileInserts
<1>5. CASE Unreadable(r) \/ FinishImport(r)
  BY <1>5, FileEnds
<1>6. QED
  BY <1>1, <1>2, <1>3, <1>4, <1>5

LEMMA RowOps ==
    ASSUME TypeInv, NEW r \in Request, NEW u, u = req[r], NEW v, v = req'[r],
           \/ \E ls \in (SUBSET DOMAIN arrived) \ {{}} : Delete(r, ls)
           \/ \E i \in DOMAIN arrived, p \in Phone : Amend(r, i, p)
           \/ \E b \in DOMAIN batches : Rename(r, b)
           \/ SaveLead(r) \/ SaveBatch(r) \/ MarkDeleted(r) \/ LoadBatch(r) \/ Recount(r) \/ SaveTotal(r)
    PROVE  Becomes(r, v) /\ u.op \in {"idle", "delete", "amend", "renumber", "rename", "import"} /\ v.op \in {"idle", "delete", "amend", "renumber", "rename", "import"}
<1> USE SavingKinds
<1>1. CASE \E ls \in (SUBSET DOMAIN arrived) \ {{}} : Delete(r, ls)
  BY <1>1, DeleteMoves DEF Begun, Free
<1>2. CASE \E i \in DOMAIN arrived, p \in Phone : Amend(r, i, p)
  BY <1>2, RowMoves DEF Begun, Free, Editors
<1>3. CASE \E b \in DOMAIN batches : Rename(r, b)
  BY <1>3, RowMoves DEF Begun, Free
<1>4. CASE SaveLead(r) \/ SaveBatch(r)
  BY <1>4, RowMoves DEF Editors
<1>5. CASE MarkDeleted(r) \/ LoadBatch(r)
  BY <1>5, DeleteMoves
<1>6. CASE Recount(r) \/ SaveTotal(r)
  <2>1. u.op \in Counters /\ Becomes(r, v) /\ (Ended(u, v) \/ v.op = u.op)
    BY <1>6, CountMoves DEF CountStays
  <2>2. QED
    BY <2>1 DEF Ended
<1>7. QED
  BY <1>1, <1>2, <1>3, <1>4, <1>5, <1>6

LEMMA HandOps ==
    ASSUME TypeInv, NEW r \in Request, NEW u, u = req[r], NEW v, v = req'[r],
           (\E p \in Phone : ByForm(r, p)) \/ (u.op \notin Adders /\ (NoteCreated(r) \/ CreateLead(r) \/ CacheCount(r)))
    PROVE  Becomes(r, v) /\ u.op \in {"idle", "hand", "import"} /\ v.op \in {"idle", "hand", "import"}
<1> USE SavingKinds
<1>1. CASE \E p \in Phone : ByForm(r, p)
  BY <1>1, FormMoves DEF Begun, Free
<1>2. CASE u.op \notin Adders /\ NoteCreated(r)
  <2>1. u.op = "hand"
    BY <1>2 DEF NoteCreated, At, Intakes
  <2>2. QED
    BY <1>2, <2>1, FormMoves
<1>3. CASE u.op \notin Adders /\ CreateLead(r)
  BY <1>3, CreateMoves
<1>4. CASE u.op \notin Adders /\ CacheCount(r)
  <2>1. u.op \in {"hand", "import"} /\ Becomes(r, v)
    BY <1>4, CacheMoves
  <2>2. u.op = "hand" => v.op \in {"idle", "hand"}
    BY <1>4, CacheMoves DEF HandStays
  <2>3. u.op = "import" => v.op = "import"
    BY <1>4, CacheMoves DEF FileAllowed, FileStays
  <2>4. QED
    BY <2>1, <2>2, <2>3
<1>5. QED
  BY <1>1, <1>2, <1>3, <1>4

\* Leads of a source come one by one, from a delivery or a sync.
LEMMA HookCount ==
    ASSUME TypeInv, KeptInv, IntakeNext, ~\E r \in Request : CreateLead(r) /\ req[r].op \in Adders
    PROVE  From("hook")' = From("hook")
<1>1. ASSUME NEW r \in Request, CreateLead(r) PROVE From("hook")' = From("hook")
  <2>1. PICK u : u = req[r]
    OBVIOUS
  <2>2. u.op \in ByOne /\ u.op \notin Adders /\ Grown(1, u.batch, HowOf(u))
    BY <1>1, <2>1, CreateMoves
  <2>3. HowOf(u) # "hook"
    BY <2>2, SavingKinds DEF HowOf
  <2>4. QED
    BY <2>2, <2>3, GrownCounts
<1>2. ASSUME NEW r \in Request, Insert(r) PROVE From("hook")' = From("hook")
  <2>1. PICK u : u = req[r]
    OBVIOUS
  <2>2. PICK v : v = req'[r]
    OBVIOUS
  <2>3. u.op = "import" /\ v.done \in Nat /\ u.done < v.done /\ Grown(v.done - u.done, u.batch, "file")
    BY <1>2, <2>1, <2>2, FileInserts
  <2>4. u.done \in Nat
    BY <2>1, <2>3, MakerFields
  <2>5. PICK k \in Nat : k = v.done - u.done
    BY <2>3, <2>4
  <2>6. QED
    BY <2>3, <2>5, GrownCounts
<1>3. CASE ~Adds
  <2>1. RowsStay
    BY <1>3, RowsDo
  <2>2. QED
    BY <2>1, StayCounts
<1>4. QED
  BY <1>1, <1>2, <1>3 DEF Adds

LEMMA SourceStays ==
    ASSUME TypeInv, KeptInv, IntakeMeets, SourceInv, IntakeNext
    PROVE  SourceInv'
<1> USE SavingKinds
<1>1. IntakeMeets' /\ met \subseteq met' /\ crashed' = crashed
  BY IntakeMeet, IntakeNeverCrashes
<1>2. SUFFICES ASSUME ~crashed', ~Met(Saving, Saving)' PROVE SourceFine'
  BY DEF SourceInv
<1>3. SourceFine
  BY <1>1, <1>2, StillMet DEF SourceInv
<1>4. ASSUME NEW r \in Request, NEW v, Becomes(r, v), req[r].op \in Saving \/ v.op \in Saving PROVE Lone(r)
  BY <1>1, <1>2, <1>4, Apart DEF Lone
<1>5. ASSUME NEW r \in Request,
             \/ \E left \in Deliveries : SyncNow(r, left) \/ \E lenient \in BOOLEAN : Deliver(r, left, lenient)
             \/ \E on \in BOOLEAN : SetSource(r, on)
      PROVE  SourceFine'
  <2>1. PICK v : v = req'[r]
    OBVIOUS
  <2>2. Becomes(r, v) /\ v.op \in Saving
    BY <1>5, <2>1, HookBegins, ToggleMoves DEF Begun
  <2>3. QED
    BY <1>1, <1>3, <1>4, <1>5, <2>1, <2>2, SourceBegins
<1>6. ASSUME NEW r \in Request, NEW u, u = req[r], u.op \in Saving,
             \/ LookUp(r) \/ TodaysBatch(r) \/ CreateFails(r) \/ NoteCreated(r) \/ CacheCount(r) \/ AddToBatch(r) \/ CreateLead(r)
             \/ SaveReceived(r) \/ SaveError(r) \/ SaveSource(r)
      PROVE  SourceFine'
  <2>1. PICK v : v = req'[r]
    OBVIOUS
  <2>2. Becomes(r, v)
    <3>1. CASE CacheCount(r)
      BY <1>6, <2>1, <3>1, CacheMoves
    <3>2. CASE CreateLead(r)
      BY <1>6, <2>1, <3>2, CreateMoves
    <3>3. CASE SaveSource(r)
      BY <1>6, <2>1, <3>3, ToggleMoves
    <3>4. CASE LookUp(r) \/ TodaysBatch(r) \/ CreateFails(r) \/ NoteCreated(r) \/ AddToBatch(r)
      BY <1>6, <2>1, <3>4, HookMoves
    <3>5. CASE SaveReceived(r) \/ SaveError(r)
      BY <1>6, <2>1, <3>5, HookMoves
    <3>6. QED
      BY <1>6, <3>1, <3>2, <3>3, <3>4, <3>5
  <2>3. Lone(r)
    BY <1>4, <1>6, <2>2
  <2>4. u.op = "toggle" => SaveSource(r)
    BY <1>6 DEF LookUp, TodaysBatch, CreateFails, NoteCreated, CacheCount, AddToBatch, CreateLead, SaveReceived, SaveError, At, Intakes
  <2>5. CASE SaveReceived(r) \/ SaveError(r) \/ SaveSource(r)
    BY <1>1, <1>3, <1>6, <2>3, <2>5, SourceSaves
  <2>6. CASE AddToBatch(r) \/ (CreateLead(r) /\ u.op \in Adders)
    BY <1>1, <1>3, <1>6, <2>1, <2>3, <2>6, SourceAdds
  <2>7. CASE \/ LookUp(r) \/ TodaysBatch(r) \/ CreateFails(r) \/ (NoteCreated(r) /\ u.op # "hand")
             \/ (CacheCount(r) /\ u.op \in Adders)
    BY <1>1, <1>3, <1>6, <2>1, <2>3, <2>7, SourceGoes
  <2>8. QED
    BY <1>6, <2>4, <2>5, <2>6, <2>7
<1>7. ASSUME NEW r \in Request, NEW u, u = req[r], NEW v, v = req'[r], Becomes(r, v), u.op \notin Saving, v.op \notin Saving,
             source' = source, From("hook")' = From("hook")
      PROVE  SourceFine'
  BY <1>1, <1>3, <1>7, SourceSame DEF Becomes
<1>8. ASSUME NEW r \in Request, LookUp(r) \/ TodaysBatch(r) \/ CreateFails(r) \/ AddToBatch(r) \/ SaveReceived(r) \/ SaveError(r) \/ SaveSource(r)
      PROVE  SourceFine'
  <2>1. PICK u : u = req[r]
    OBVIOUS
  <2>2. u.op \in Saving
    BY <1>8, <2>1, HookMoves, ToggleMoves
  <2>3. QED
    BY <1>6, <1>8, <2>1, <2>2
<1>9. ASSUME NEW r \in Request, req[r].op \in Adders, CreateLead(r) PROVE SourceFine'
  BY <1>6, <1>9
<1>10. SUFFICES ASSUME ~\E r \in Request : CreateLead(r) /\ req[r].op \in Adders PROVE SourceFine'
  BY <1>9
<1>11. From("hook")' = From("hook")
  BY <1>10, HookCount
<1>12. ASSUME NEW r \in Request, NoteCreated(r) \/ CreateLead(r) \/ CacheCount(r) \/ \E p \in Phone : ByForm(r, p)
       PROVE  SourceFine'
  <2>1. PICK u : u = req[r]
    OBVIOUS
  <2>2. PICK v : v = req'[r]
    OBVIOUS
  <2>3. CASE u.op \in Adders /\ ~\E p \in Phone : ByForm(r, p)
    BY <1>6, <1>12, <2>1, <2>3
  <2>4. CASE u.op \notin Adders \/ \E p \in Phone : ByForm(r, p)
    <3>1. Becomes(r, v) /\ u.op \notin Saving /\ v.op \notin Saving
      BY <1>12, <2>1, <2>2, <2>4, HandOps
    <3>2. source' = source
      BY <1>12 DEF NoteCreated, CreateLead, CacheCount, ByForm, intakeVars
    <3>3. QED
      BY <1>7, <1>11, <2>1, <2>2, <3>1, <3>2
  <2>5. QED
    BY <2>3, <2>4
<1>13. ASSUME NEW r \in Request,
              \/ RunImport(r) \/ Parse(r) \/ Unreadable(r) \/ OpenBatch(r) \/ ReadPhones(r)
              \/ ReadRows(r) \/ Insert(r) \/ Inserted(r) \/ InsertFails(r) \/ FinishImport(r)
       PROVE  SourceFine'
  <2>1. source' = source
    BY <1>13 DEF RunImport, Parse, Unreadable, OpenBatch, ReadPhones, ReadRows, Insert, Inserted, InsertFails, FinishImport, intakeVars
  <2>2. PICK u : u = req[r]
    OBVIOUS
  <2>3. PICK v : v = req'[r]
    OBVIOUS
  <2>4. Becomes(r, v) /\ u.op \notin Saving /\ v.op \notin Saving
    BY <1>13, <2>2, <2>3, FileOps
  <2>5. QED
    BY <1>7, <1>11, <2>1, <2>2, <2>3, <2>4
<1>14. ASSUME NEW r \in Request,
              \/ \E ls \in (SUBSET DOMAIN arrived) \ {{}} : Delete(r, ls)
              \/ \E i \in DOMAIN arrived, p \in Phone : Amend(r, i, p)
              \/ \E b \in DOMAIN batches : Rename(r, b)
              \/ SaveLead(r) \/ SaveBatch(r) \/ MarkDeleted(r) \/ LoadBatch(r) \/ Recount(r) \/ SaveTotal(r)
       PROVE  SourceFine'
  <2>1. source' = source
    BY <1>14 DEF Delete, Amend, Rename, SaveLead, SaveBatch, MarkDeleted, LoadBatch, Recount, SaveTotal, intakeVars
  <2>2. PICK u : u = req[r]
    OBVIOUS
  <2>3. PICK v : v = req'[r]
    OBVIOUS
  <2>4. Becomes(r, v) /\ u.op \notin Saving /\ v.op \notin Saving
    BY <1>14, <2>2, <2>3, RowOps
  <2>5. QED
    BY <1>7, <1>11, <2>1, <2>2, <2>3, <2>4
<1>15. CASE (\E b \in DOMAIN batches : DropBatch(b)) \/ Expires
           \/ \E file \in Files, rule \in {"skip", "update", "create_new"} : UploadFile(file, rule)
  <2>1. source' = source /\ req' = req
    BY <1>15 DEF DropBatch, Expires, UploadFile
  <2>2. QED
    BY <1>1, <1>3, <1>11, <2>1, SourceSame
<1>16. QED
  BY <1>5, <1>8, <1>12, <1>13, <1>14, <1>15 DEF IntakeNext

=============================================================================

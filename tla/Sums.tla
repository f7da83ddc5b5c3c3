-------------------------------- MODULE Sums --------------------------------
(***************************************************************************)
(* Theorems about SumFunctionOnSet, the sum of an integer function over a  *)
(* finite set.  The community modules define it by a recursive function    *)
(* that takes the elements in the order CHOOSE gives them; the theorems    *)
(* say that the order does not matter.  The library's induction theorems   *)
(* take the property as an operator; the proofs here look at the least     *)
(* counterexample instead.                                                 *)
(***************************************************************************)
EXTENDS Integers, Functions, FiniteSetTheorems, WellFoundedInduction, TLAPS

\* The least element of a set of numbers.
LEMMA LeastElement ==
    ASSUME NEW N \in SUBSET Nat, N # {}
    PROVE  \E n \in N : \A k \in N : n <= k
<1> DEFINE Less == {p \in Nat \X Nat : p[1] < p[2]}
<1>1. IsWellFoundedOn(Less, Nat)
  BY NatLessThanWellFounded, Zenon DEF OpToRel
<1>2. PICK n \in N : \A k \in N : <<k, n>> \notin Less
  BY <1>1, WFMin, Zenon
<1>3. \A k \in N : ~(k < n)
  BY <1>2
<1>4. \A k \in N : n <= k
  BY <1>3
<1>5. QED
  BY <1>4

-----------------------------------------------------------------------------
(* The recursive function exists.                                           *)

Taken(s) == CHOOSE x \in s : TRUE
Left(s) == s \ {Taken(s)}
\* One more step of the recursion, from what h says of smaller sets.
SumStep(f, h, s) == IF s = {} THEN 0 ELSE f[Taken(s)] + h[Left(s)]
SmallSubsets(S, n) == {s \in SUBSET S : Cardinality(s) <= n}
IsSum(f, h, D) == h = [s \in D |-> SumStep(f, h, s)]
SumFcn(f, S) == CHOOSE h : IsSum(f, h, SUBSET S)

LEMMA SumIsSumFcn ==
    ASSUME NEW f, NEW S
    PROVE  SumFunctionOnSet(f, S) = SumFcn(f, S)[S]
BY DEF SumFunctionOnSet, FoldFunctionOnSet, MapThenFoldSet, SumFcn, IsSum, SumStep, Taken, Left

LEMMA LeftSmaller ==
    ASSUME NEW S, IsFiniteSet(S), NEW s \in SUBSET S, s # {}
    PROVE  /\ Taken(s) \in s /\ Left(s) \in SUBSET S
           /\ IsFiniteSet(s) /\ IsFiniteSet(Left(s))
           /\ Cardinality(s) \in Nat /\ Cardinality(s) > 0 /\ Cardinality(Left(s)) = Cardinality(s) - 1
<1>1. Taken(s) \in s
  BY DEF Taken
<1>2. IsFiniteSet(s)
  BY FS_Subset
<1>3. Cardinality(s) \in Nat /\ Cardinality(s) > 0
  BY <1>1, <1>2, FS_CardinalityType, FS_EmptySet
<1>4. IsFiniteSet(Left(s)) /\ Cardinality(Left(s)) = Cardinality(s) - 1
  BY <1>1, <1>2, FS_RemoveElement DEF Left
<1>5. QED
  BY <1>1, <1>2, <1>3, <1>4 DEF Left

LEMMA SmallSumFcn ==
    ASSUME NEW f, NEW S, IsFiniteSet(S), NEW n \in Nat
    PROVE  \E h : IsSum(f, h, SmallSubsets(S, n))
<1> USE DEF IsSum
<1> DEFINE Defined(k) == \E h : IsSum(f, h, SmallSubsets(S, k))
           Bad == {k \in Nat : ~Defined(k)}
<1>1. SUFFICES ASSUME Bad # {} PROVE FALSE
  OBVIOUS
<1>2. PICK k \in Bad : \A j \in Bad : k <= j
  BY <1>1, LeastElement
<1>c. \A s \in SUBSET S : Cardinality(s) \in Nat /\ (s = {} <=> Cardinality(s) = 0)
  BY FS_Subset, FS_CardinalityType, FS_EmptySet
<1>3. CASE k = 0
  <2> DEFINE h == [s \in SmallSubsets(S, 0) |-> 0]
  <2>1. \A s \in SmallSubsets(S, 0) : s = {}
    BY <1>c DEF SmallSubsets
  <2>2. h = [s \in SmallSubsets(S, 0) |-> SumStep(f, h, s)]
    BY <2>1 DEF SumStep
  <2>3. Defined(0)
    BY <2>2
  <2>4. QED
    BY <1>2, <1>3, <2>3
<1>4. CASE k # 0
  <2>1. k - 1 \in Nat /\ k - 1 \notin Bad
    BY <1>2, <1>4
  <2>2. PICK g : g = [s \in SmallSubsets(S, k - 1) |-> SumStep(f, g, s)]
    BY <2>1
  <2> DEFINE h == [s \in SmallSubsets(S, k) |-> SumStep(f, g, s)]
  <2>3. \A s \in SmallSubsets(S, k) : s # {} => Left(s) \in SmallSubsets(S, k - 1)
    BY <1>2, <2>1, LeftSmaller DEF SmallSubsets
  <2>4. \A s \in SmallSubsets(S, k - 1) : s \in SmallSubsets(S, k) /\ h[s] = g[s]
    BY <1>2, <1>c, <2>1, <2>2 DEF SmallSubsets
  <2>5. \A s \in SmallSubsets(S, k) : SumStep(f, g, s) = SumStep(f, h, s)
    BY <2>3, <2>4 DEF SumStep
  <2>6. h = [s \in SmallSubsets(S, k) |-> SumStep(f, h, s)]
    BY <2>5
  <2>7. Defined(k)
    BY <2>6
  <2>8. QED
    BY <1>2, <2>7
<1>5. QED
  BY <1>3, <1>4

LEMMA SumFcnIsSum ==
    ASSUME NEW f, NEW S, IsFiniteSet(S)
    PROVE  IsSum(f, SumFcn(f, S), SUBSET S)
<1> DEFINE n == Cardinality(S)
<1>1. n \in Nat /\ SmallSubsets(S, n) = SUBSET S
  BY FS_CardinalityType, FS_Subset DEF SmallSubsets
<1> HIDE DEF n
<1>2. \E h : IsSum(f, h, SmallSubsets(S, n))
  BY <1>1, SmallSumFcn
<1>3. \E h : IsSum(f, h, SUBSET S)
  BY <1>1, <1>2
<1>4. QED
  BY <1>3, Zenon DEF SumFcn

LEMMA SumFcnValue ==
    ASSUME NEW f, NEW S, IsFiniteSet(S), NEW s \in SUBSET S
    PROVE  SumFcn(f, S)[s] = IF s = {} THEN 0 ELSE f[Taken(s)] + SumFcn(f, S)[Left(s)]
<1> DEFINE h == SumFcn(f, S)
<1>1. IsSum(f, h, SUBSET S)
  BY SumFcnIsSum
<1> HIDE DEF h
<1>2. h[s] = SumStep(f, h, s)
  BY <1>1 DEF IsSum
<1>3. QED
  BY <1>2 DEF SumStep, h

-----------------------------------------------------------------------------
(* What it computes of a subset depends on that subset alone.               *)

LEMMA SumFcnSame ==
    ASSUME NEW f, NEW g, NEW S, NEW T, IsFiniteSet(S), IsFiniteSet(T),
           NEW r, r \in SUBSET S, r \in SUBSET T, \A x \in r : f[x] = g[x]
    PROVE  SumFcn(f, S)[r] = SumFcn(g, T)[r]
<1> DEFINE Same(s) == SumFcn(f, S)[s] = SumFcn(g, T)[s]
           Bad == {n \in Nat : \E s \in SUBSET r : Cardinality(s) = n /\ ~Same(s)}
<1>c. \A s \in SUBSET r : s \in SUBSET S /\ s \in SUBSET T /\ Cardinality(s) \in Nat
  BY FS_Subset, FS_CardinalityType
<1>1. SUFFICES ASSUME Bad # {} PROVE FALSE
  <2>1. r \in SUBSET r /\ (~Same(r) => Cardinality(r) \in Bad)
    BY <1>c
  <2>2. QED
    BY <1>1, <2>1
<1>2. PICK n \in Bad : \A k \in Bad : n <= k
  BY <1>1, LeastElement
<1>3. PICK s \in SUBSET r : Cardinality(s) = n /\ ~Same(s)
  BY <1>2
<1>v. /\ SumFcn(f, S)[s] = IF s = {} THEN 0 ELSE f[Taken(s)] + SumFcn(f, S)[Left(s)]
      /\ SumFcn(g, T)[s] = IF s = {} THEN 0 ELSE g[Taken(s)] + SumFcn(g, T)[Left(s)]
  BY <1>c, <1>3, SumFcnValue
<1>4. CASE s = {}
  BY <1>3, <1>4, <1>v
<1>5. CASE s # {}
  <2>1. /\ Taken(s) \in r /\ Left(s) \in SUBSET r
        /\ n \in Nat /\ Cardinality(Left(s)) = n - 1 /\ n > 0
    BY <1>c, <1>3, <1>5, LeftSmaller DEF Left
  <2>2. Cardinality(Left(s)) \notin Bad
    BY <1>2, <2>1
  <2>3. Same(Left(s))
    BY <1>c, <2>1, <2>2
  <2>4. QED
    BY <1>3, <1>5, <1>v, <2>1, <2>3
<1>6. QED
  BY <1>4, <1>5

-----------------------------------------------------------------------------
(* The sum.                                                                 *)

THEOREM SumEmpty ==
    ASSUME NEW f
    PROVE  SumFunctionOnSet(f, {}) = 0
<1>1. IsFiniteSet({})
  BY FS_EmptySet
<1>2. QED
  BY <1>1, SumIsSumFcn, SumFcnValue

\* The sum is of the values alone.
THEOREM SumSame ==
    ASSUME NEW f, NEW g, NEW S, IsFiniteSet(S), \A x \in S : f[x] = g[x]
    PROVE  SumFunctionOnSet(f, S) = SumFunctionOnSet(g, S)
BY SumIsSumFcn, SumFcnSame

LEMMA SumTaken ==
    ASSUME NEW f, NEW S, IsFiniteSet(S), S # {}
    PROVE  SumFunctionOnSet(f, S) = f[Taken(S)] + SumFunctionOnSet(f, Left(S))
<1>1. Taken(S) \in S /\ Left(S) \in SUBSET S /\ IsFiniteSet(Left(S))
  BY LeftSmaller
<1>2. SumFcn(f, S)[S] = f[Taken(S)] + SumFcn(f, S)[Left(S)]
  BY SumFcnValue
<1>3. SumFcn(f, S)[Left(S)] = SumFcn(f, Left(S))[Left(S)]
  BY <1>1, SumFcnSame
<1>4. QED
  BY <1>2, <1>3, SumIsSumFcn

THEOREM SumType ==
    ASSUME NEW f, NEW S, IsFiniteSet(S), \A x \in S : f[x] \in Int
    PROVE  SumFunctionOnSet(f, S) \in Int
<1> DEFINE Sum(s) == SumFunctionOnSet(f, s)
           Bad == {n \in Nat : \E s \in SUBSET S : Cardinality(s) = n /\ Sum(s) \notin Int}
<1>c. \A s \in SUBSET S : IsFiniteSet(s) /\ Cardinality(s) \in Nat
  BY FS_Subset, FS_CardinalityType
<1>1. SUFFICES ASSUME Bad # {} PROVE FALSE
  <2>1. Sum(S) \notin Int => Cardinality(S) \in Bad
    BY <1>c
  <2>2. QED
    BY <1>1, <2>1
<1>2. PICK n \in Bad : \A k \in Bad : n <= k
  BY <1>1, LeastElement
<1>3. PICK s \in SUBSET S : Cardinality(s) = n /\ Sum(s) \notin Int
  BY <1>2
<1>4. s # {}
  BY <1>3, SumEmpty
<1>5. Taken(s) \in S /\ Left(s) \in SUBSET S /\ n \in Nat /\ n > 0 /\ Cardinality(Left(s)) = n - 1
  BY <1>3, <1>4, LeftSmaller
<1>6. Cardinality(Left(s)) \notin Bad
  BY <1>2, <1>5
<1>7. Sum(Left(s)) \in Int
  BY <1>c, <1>5, <1>6
<1>8. Sum(s) = f[Taken(s)] + Sum(Left(s))
  BY <1>c, <1>4, SumTaken
<1>9. QED
  BY <1>3, <1>5, <1>7, <1>8

\* Any element may be taken out first.
THEOREM SumWithout ==
    ASSUME NEW f, NEW S, IsFiniteSet(S), \A x \in S : f[x] \in Int, NEW a \in S
    PROVE  SumFunctionOnSet(f, S) = f[a] + SumFunctionOnSet(f, S \ {a})
<1> DEFINE Sum(s) == SumFunctionOnSet(f, s)
           Splits(s) == \A x \in s : Sum(s) = f[x] + Sum(s \ {x})
           Bad == {n \in Nat : \E s \in SUBSET S : Cardinality(s) = n /\ ~Splits(s)}
<1>c. \A s \in SUBSET S : IsFiniteSet(s) /\ Cardinality(s) \in Nat /\ Sum(s) \in Int
  BY FS_Subset, FS_CardinalityType, SumType
<1>1. SUFFICES ASSUME Bad # {} PROVE FALSE
  <2>1. ~Splits(S) => Cardinality(S) \in Bad
    BY <1>c
  <2>2. QED
    BY <1>1, <2>1
<1>2. PICK n \in Bad : \A k \in Bad : n <= k
  BY <1>1, LeastElement
<1>3. PICK s \in SUBSET S : Cardinality(s) = n /\ ~Splits(s)
  BY <1>2
<1>4. PICK x \in s : Sum(s) # f[x] + Sum(s \ {x})
  BY <1>3
<1> DEFINE p == Taken(s)
<1>5. p \in s /\ Sum(s) = f[p] + Sum(s \ {p})
  BY <1>c, <1>4, SumTaken, LeftSmaller DEF Left
<1> HIDE DEF p
<1>6. x # p
  BY <1>4, <1>5
<1>7. \A y \in s : /\ s \ {y} \in SUBSET S
                   /\ Cardinality(s \ {y}) = n - 1
                   /\ Splits(s \ {y})
  <2> SUFFICES ASSUME NEW y \in s PROVE s \ {y} \in SUBSET S /\ Cardinality(s \ {y}) = n - 1 /\ Splits(s \ {y})
    OBVIOUS
  <2>1. Cardinality(s \ {y}) = n - 1
    BY <1>c, <1>3, FS_RemoveElement
  <2>2. n - 1 \notin Bad /\ n \in Nat
    BY <1>2
  <2>3. s \ {y} \in SUBSET S /\ n - 1 \in Nat
    BY <1>c, <2>1
  <2>4. QED
    BY <2>1, <2>2, <2>3
<1>8. Sum(s \ {p}) = f[x] + Sum((s \ {p}) \ {x})
  BY <1>4, <1>5, <1>6, <1>7
<1>9. Sum(s \ {x}) = f[p] + Sum((s \ {x}) \ {p})
  BY <1>4, <1>5, <1>6, <1>7
<1>10. (s \ {p}) \ {x} = (s \ {x}) \ {p} /\ (s \ {p}) \ {x} \in SUBSET S
  OBVIOUS
<1>11. f[x] \in Int /\ f[p] \in Int /\ Sum((s \ {p}) \ {x}) \in Int
  BY <1>c, <1>4, <1>5, <1>10
<1> DEFINE rest == Sum((s \ {p}) \ {x})
<1>12. /\ Sum(s \ {p}) = f[x] + rest /\ Sum(s \ {x}) = f[p] + rest
       /\ Sum(s) = f[p] + Sum(s \ {p}) /\ Sum(s) # f[x] + Sum(s \ {x})
       /\ f[x] \in Int /\ f[p] \in Int /\ rest \in Int
  BY <1>4, <1>5, <1>8, <1>9, <1>10, <1>11
<1> HIDE DEF Sum, rest, Bad
<1>13. QED
  BY <1>12

\* One value changes.
THEOREM SumChange ==
    ASSUME NEW f, NEW g, NEW S, IsFiniteSet(S), NEW a \in S,
           \A x \in S : f[x] \in Int /\ g[x] \in Int, \A x \in S \ {a} : g[x] = f[x]
    PROVE  SumFunctionOnSet(g, S) = SumFunctionOnSet(f, S) + g[a] - f[a]
<1>1. IsFiniteSet(S \ {a})
  BY FS_Subset
<1>2. SumFunctionOnSet(g, S \ {a}) = SumFunctionOnSet(f, S \ {a})
  BY <1>1, SumSame
<1>3. SumFunctionOnSet(f, S \ {a}) \in Int
  BY <1>1, SumType
<1>4. /\ SumFunctionOnSet(f, S) = f[a] + SumFunctionOnSet(f, S \ {a})
      /\ SumFunctionOnSet(g, S) = g[a] + SumFunctionOnSet(g, S \ {a})
  BY SumWithout
<1>5. QED
  BY <1>2, <1>3, <1>4

\* Sums of natural numbers are natural numbers, none less than a part of it.
THEOREM SumNat ==
    ASSUME NEW f, NEW S, IsFiniteSet(S), \A x \in S : f[x] \in Nat
    PROVE  /\ SumFunctionOnSet(f, S) \in Nat
           /\ \A a \in S : f[a] <= SumFunctionOnSet(f, S)
<1> DEFINE Sum(s) == SumFunctionOnSet(f, s)
           Bad == {n \in Nat : \E s \in SUBSET S : Cardinality(s) = n /\ Sum(s) \notin Nat}
<1>c. \A s \in SUBSET S : IsFiniteSet(s) /\ Cardinality(s) \in Nat
  BY FS_Subset, FS_CardinalityType
<1>1. SUFFICES \A s \in SUBSET S : Sum(s) \in Nat
  <2>1. SUFFICES ASSUME NEW a \in S PROVE f[a] <= Sum(S)
    BY <1>1
  <2>2. Sum(S) = f[a] + Sum(S \ {a})
    BY SumWithout
  <2>3. f[a] \in Nat /\ Sum(S \ {a}) \in Nat
    BY <1>1
  <2> HIDE DEF Sum
  <2>4. QED
    BY <2>2, <2>3
<1>2. SUFFICES ASSUME Bad # {} PROVE FALSE
  BY <1>c
<1>3. PICK n \in Bad : \A k \in Bad : n <= k
  BY <1>2, LeastElement
<1>4. PICK t \in SUBSET S : Cardinality(t) = n /\ Sum(t) \notin Nat
  BY <1>3
<1>5. t # {}
  BY <1>4, SumEmpty
<1>6. Taken(t) \in S /\ Left(t) \in SUBSET S /\ n \in Nat /\ n > 0 /\ Cardinality(Left(t)) = n - 1
  BY <1>4, <1>5, LeftSmaller
<1>7. Cardinality(Left(t)) \notin Bad
  BY <1>3, <1>6
<1>8. Sum(Left(t)) \in Nat
  BY <1>c, <1>6, <1>7
<1>9. Sum(t) = f[Taken(t)] + Sum(Left(t))
  BY <1>c, <1>4, <1>5, SumTaken
<1>10. QED
  BY <1>4, <1>6, <1>8, <1>9

\* Nothing is worth nothing.
THEOREM SumZero ==
    ASSUME NEW f, NEW S, IsFiniteSet(S), \A x \in S : f[x] = 0
    PROVE  SumFunctionOnSet(f, S) = 0
<1> DEFINE Sum(s) == SumFunctionOnSet(f, s)
           Bad == {n \in Nat : \E s \in SUBSET S : Cardinality(s) = n /\ Sum(s) # 0}
<1>c. \A s \in SUBSET S : IsFiniteSet(s) /\ Cardinality(s) \in Nat
  BY FS_Subset, FS_CardinalityType
<1>1. SUFFICES ASSUME Bad # {} PROVE FALSE
  <2>1. Sum(S) # 0 => Cardinality(S) \in Bad
    BY <1>c
  <2>2. QED
    BY <1>1, <2>1
<1>2. PICK n \in Bad : \A k \in Bad : n <= k
  BY <1>1, LeastElement
<1>3. PICK s \in SUBSET S : Cardinality(s) = n /\ Sum(s) # 0
  BY <1>2
<1>4. s # {}
  BY <1>3, SumEmpty
<1>5. Taken(s) \in S /\ Left(s) \in SUBSET S /\ n \in Nat /\ n > 0 /\ Cardinality(Left(s)) = n - 1
  BY <1>3, <1>4, LeftSmaller
<1>6. Cardinality(Left(s)) \notin Bad
  BY <1>2, <1>5
<1>7. Sum(Left(s)) = 0
  BY <1>c, <1>5, <1>6
<1>8. Sum(s) = f[Taken(s)] + Sum(Left(s))
  BY <1>c, <1>4, SumTaken
<1>9. QED
  BY <1>3, <1>5, <1>7, <1>8

\* One element joins those that have the value v: one more of them.
THEOREM CountMore ==
    ASSUME NEW f, NEW g, NEW S, IsFiniteSet(S), NEW a \in S, NEW v,
           f[a] # v, g[a] = v, \A x \in S \ {a} : g[x] = f[x]
    PROVE  Cardinality({x \in S : g[x] = v}) = Cardinality({x \in S : f[x] = v}) + 1
<1> DEFINE A == {x \in S : f[x] = v}
           B == {x \in S : g[x] = v}
<1>1. IsFiniteSet(A) /\ a \notin A /\ B = A \cup {a}
  BY FS_Subset
<1> HIDE DEF A, B
<1>2. Cardinality(B) = Cardinality(A) + 1
  BY <1>1, FS_AddElement
<1>3. QED
  BY <1>2 DEF A, B
=============================================================================

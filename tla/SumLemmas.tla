------------------------------ MODULE SumLemmas ------------------------------
(***************************************************************************)
(* Facts about SumFunctionOnSet(f, S), the sum of f[x] over a finite set,  *)
(* by which the proofs reason about the totals the code keeps.  The        *)
(* community modules define the sum by recursion over the subsets of S;    *)
(* induction over finite sets is argued here with a smallest               *)
(* counterexample.                                                         *)
(***************************************************************************)
EXTENDS Functions, FiniteSets, FiniteSetTheorems, WellFoundedInduction, TLAPS

\* A set of numbers that is not empty has a least one.
LEMMA LeastNumber ==
  ASSUME NEW B \in SUBSET Nat, B # {}
  PROVE  \E m \in B : \A k \in B : m <= k
<1> DEFINE R == {p \in Nat \X Nat : p[1] < p[2]}
<1>1. IsWellFoundedOn(R, Nat)
  BY NatLessThanWellFounded DEF OpToRel
<1>2. PICK m \in B : \A k \in B : ~(<<k, m>> \in R)
  BY <1>1, WFMin
<1>3. \A k \in B : <<k, m>> \notin R => m <= k
  OBVIOUS
<1>. QED
  BY <1>2, <1>3

\* A family of finite sets has a member no other member is strictly inside of.
LEMMA SmallestSet ==
  ASSUME NEW S, IsFiniteSet(S), NEW F \in SUBSET SUBSET S, F # {}
  PROVE  \E T \in F : \A U \in F : ~(U \subseteq T /\ U # T)
<1> DEFINE R == StrictSubsetOrdering(S)
           D == FiniteSubsetsOf(S)
<1>1. IsWellFoundedOn(R, D)
  BY FS_StrictSubsetOrderingWellFounded
<1>2. \A T \in SUBSET S : IsFiniteSet(T)
  BY FS_Subset
<1>3. F \subseteq D
  BY <1>2 DEF FiniteSubsetsOf
<1>4. \E T \in F : \A U \in F : ~(<<U, T>> \in R)
  BY <1>1, <1>3, WFMin
<1>. QED
  BY <1>4 DEF StrictSubsetOrdering

-----------------------------------------------------------------------------
(***************************************************************************)
(* The recursion equation of the sum.                                      *)
(***************************************************************************)
\* The element the recursion takes out of a set.
Picked(U) == CHOOSE x \in U : TRUE

\* h adds f up over each set of the family D.
Adds(h, f, D) ==
  h = [U \in D |-> IF U = {} THEN 0 ELSE f[Picked(U)] + h[U \ {Picked(U)}]]

LEMMA SumIsChosen ==
  ASSUME NEW f, NEW S
  PROVE  SumFunctionOnSet(f, S) = (CHOOSE h : Adds(h, f, SUBSET S))[S]
BY DEF SumFunctionOnSet, FoldFunctionOnSet, MapThenFoldSet, Adds, Picked

LEMMA PickedIn ==
  ASSUME NEW U, U # {}
  PROVE  Picked(U) \in U
BY DEF Picked

\* The sums over the subsets of at most n elements.
UpTo(S, n) == {U \in SUBSET S : Cardinality(U) <= n}

LEMMA AddsNothing ==
  ASSUME NEW f, NEW S, IsFiniteSet(S)
  PROVE  \E h : Adds(h, f, UpTo(S, 0))
<1>1. \A U \in UpTo(S, 0) : U = {}
  BY FS_Subset, FS_EmptySet, FS_CardinalityType DEF UpTo
<1> DEFINE h == [U \in UpTo(S, 0) |-> 0]
<1>2. Adds(h, f, UpTo(S, 0))
  BY <1>1 DEF Adds
<1>. QED
  BY <1>2

LEMMA AddsOneMore ==
  ASSUME NEW f, NEW S, IsFiniteSet(S), NEW n \in Nat,
         NEW g, Adds(g, f, UpTo(S, n))
  PROVE  \E h : Adds(h, f, UpTo(S, n + 1))
<1> DEFINE Step(U) ==
             IF U = {} THEN 0 ELSE f[Picked(U)] + g[U \ {Picked(U)}]
           h == [U \in UpTo(S, n + 1) |-> Step(U)]
<1>1. ASSUME NEW U \in UpTo(S, n + 1), U # {}
      PROVE  U \ {Picked(U)} \in UpTo(S, n) /\ U \ {Picked(U)} \in UpTo(S, n + 1)
  <2>1. IsFiniteSet(U) /\ Picked(U) \in U
    BY <1>1, FS_Subset, PickedIn DEF UpTo
  <2>2. /\ Cardinality(U \ {Picked(U)}) = Cardinality(U) - 1
        /\ Cardinality(U) \in Nat
    BY <2>1, FS_RemoveElement, FS_CardinalityType
  <2>. QED
    BY <2>2 DEF UpTo
<1>2. ASSUME NEW U \in UpTo(S, n)
      PROVE  g[U] = Step(U)
  BY DEF Adds
<1>3. ASSUME NEW U \in UpTo(S, n + 1), U # {}
      PROVE  h[U \ {Picked(U)}] = g[U \ {Picked(U)}]
  BY <1>1, <1>2, <1>3
<1>4. \A U \in UpTo(S, n + 1) :
        Step(U) = IF U = {} THEN 0 ELSE f[Picked(U)] + h[U \ {Picked(U)}]
  BY <1>3
<1>5. Adds(h, f, UpTo(S, n + 1))
  BY <1>4 DEF Adds
<1>. QED
  BY <1>5

LEMMA AddsUpTo ==
  ASSUME NEW f, NEW S, IsFiniteSet(S)
  PROVE  \A n \in Nat : \E h : Adds(h, f, UpTo(S, n))
<1> DEFINE Known(n) == \E h : Adds(h, f, UpTo(S, n))
           Bad == {n \in Nat : ~Known(n)}
<1>1. Known(0)
  BY AddsNothing
<1>2. \A n \in Nat : Known(n) => Known(n + 1)
  BY AddsOneMore
<1> HIDE DEF Known
<1>3. ASSUME Bad # {}
      PROVE  FALSE
  <2>1. PICK n \in Bad : \A m \in Bad : n <= m
    BY <1>3, LeastNumber
  <2>2. n \in Nat /\ ~Known(n)
    OBVIOUS
  <2>3. n # 0
    BY <1>1, <2>2
  <2>4. n - 1 \in Nat /\ n - 1 \notin Bad
    BY <2>1, <2>2, <2>3
  <2>5. Known(n - 1)
    BY <2>4
  <2>6. Known((n - 1) + 1)
    BY <1>2, <2>4, <2>5
  <2>. QED
    BY <2>2, <2>6
<1>4. \A n \in Nat : Known(n)
  BY <1>3
<1>. QED
  BY <1>4 DEF Known

LEMMA AddsExist ==
  ASSUME NEW f, NEW S, IsFiniteSet(S)
  PROVE  \E h : Adds(h, f, SUBSET S)
<1>1. Cardinality(S) \in Nat
  BY FS_CardinalityType
<1>2. \A U \in SUBSET S : Cardinality(U) <= Cardinality(S)
  BY FS_Subset
<1>3. UpTo(S, Cardinality(S)) = SUBSET S
  BY <1>2 DEF UpTo
<1>4. \E h : Adds(h, f, UpTo(S, Cardinality(S)))
  BY <1>1, AddsUpTo
<1>. QED
  BY <1>3, <1>4

\* One sum per subset, whichever set it was computed inside of.
LEMMA AddsUnique ==
  ASSUME NEW f, NEW S, NEW T \in SUBSET S, NEW g, NEW h, IsFiniteSet(S),
         Adds(g, f, SUBSET S), Adds(h, f, SUBSET T)
  PROVE  g[T] = h[T]
<1> DEFINE Bad == {U \in SUBSET T : g[U] # h[U]}
<1>1. SUFFICES ASSUME Bad # {}
               PROVE  FALSE
  OBVIOUS
<1>2. IsFiniteSet(T)
  BY FS_Subset
<1>3. PICK U \in Bad : \A V \in Bad : ~(V \subseteq U /\ V # U)
  <2>1. Bad \in SUBSET SUBSET T
    OBVIOUS
  <2> HIDE DEF Bad
  <2>. QED
    BY <1>1, <1>2, <2>1, SmallestSet
<1>4. /\ U \in SUBSET S
      /\ g[U] = IF U = {} THEN 0 ELSE f[Picked(U)] + g[U \ {Picked(U)}]
      /\ h[U] = IF U = {} THEN 0 ELSE f[Picked(U)] + h[U \ {Picked(U)}]
  BY DEF Adds
<1>5. U # {}
  BY <1>4
<1>6. g[U \ {Picked(U)}] = h[U \ {Picked(U)}]
  BY <1>3, <1>5, PickedIn
<1>. QED
  BY <1>4, <1>5, <1>6

LEMMA SumRecursion ==
  ASSUME NEW f, NEW S, IsFiniteSet(S), S # {}
  PROVE  SumFunctionOnSet(f, S) =
           f[Picked(S)] + SumFunctionOnSet(f, S \ {Picked(S)})
<1> DEFINE T == S \ {Picked(S)}
           g == CHOOSE k : Adds(k, f, SUBSET S)
           h == CHOOSE k : Adds(k, f, SUBSET T)
<1>1. Adds(g, f, SUBSET S)
  BY AddsExist
<1>2. Adds(h, f, SUBSET T)
  BY AddsExist, FS_Subset
<1>3. g[S] = f[Picked(S)] + g[T]
  BY <1>1 DEF Adds
<1>4. g[T] = h[T]
  <2>1. \A U \in SUBSET S : \A k, m :
          Adds(k, f, SUBSET S) /\ Adds(m, f, SUBSET U) => k[U] = m[U]
    BY AddsUnique
  <2>2. T \in SUBSET S
    OBVIOUS
  <2> HIDE DEF g, h, T
  <2>. QED
    BY <1>1, <1>2, <2>1, <2>2
<1>. QED
  BY <1>3, <1>4, SumIsChosen

LEMMA SumEmpty ==
  ASSUME NEW f
  PROVE  SumFunctionOnSet(f, {}) = 0
<1> DEFINE g == CHOOSE k : Adds(k, f, SUBSET {})
<1>1. Adds(g, f, SUBSET {})
  BY AddsExist, FS_EmptySet
<1>2. g[{}] = 0
  BY <1>1 DEF Adds
<1>. QED
  BY <1>2, SumIsChosen

-----------------------------------------------------------------------------
(***************************************************************************)
(* What a sum is made of.                                                  *)
(***************************************************************************)
\* A sum of integers is an integer.
LEMMA SumInt ==
  ASSUME NEW S, IsFiniteSet(S), NEW f, \A x \in S : f[x] \in Int
  PROVE  SumFunctionOnSet(f, S) \in Int
<1> DEFINE Bad == {U \in SUBSET S : SumFunctionOnSet(f, U) \notin Int}
<1>1. ASSUME Bad # {}
      PROVE  FALSE
  <2>1. Bad \in SUBSET SUBSET S
    OBVIOUS
  <2>2. PICK U \in Bad : \A V \in Bad : ~(V \subseteq U /\ V # U)
    <3> HIDE DEF Bad
    <3>. QED
      BY <1>1, <2>1, SmallestSet
  <2>3. U # {} /\ IsFiniteSet(U)
    <3>1. SumFunctionOnSet(f, {}) \in Int
      BY SumEmpty
    <3>2. U # {}
      BY <3>1
    <3>. QED
      BY <3>2, FS_Subset
  <2>4. Picked(U) \in U
    BY <2>3, PickedIn
  <2>5. SumFunctionOnSet(f, U \ {Picked(U)}) \in Int
    BY <2>2, <2>4
  <2>6. SumFunctionOnSet(f, U) =
          f[Picked(U)] + SumFunctionOnSet(f, U \ {Picked(U)})
    BY <2>3, SumRecursion
  <2>. QED
    BY <2>4, <2>5, <2>6
<1>. QED
  BY <1>1

\* Any element can be taken out of a sum, not only the one the recursion picks.
LEMMA SumTakeOut ==
  ASSUME NEW S, IsFiniteSet(S), NEW f, \A x \in S : f[x] \in Int, NEW x \in S
  PROVE  SumFunctionOnSet(f, S) = f[x] + SumFunctionOnSet(f, S \ {x})
<1> DEFINE Out(U, y) ==
             SumFunctionOnSet(f, U) = f[y] + SumFunctionOnSet(f, U \ {y})
           Bad == {U \in SUBSET S : \E y \in U : ~Out(U, y)}
<1>1. ASSUME Bad # {}
      PROVE  FALSE
  <2>1. Bad \in SUBSET SUBSET S
    OBVIOUS
  <2>2. PICK U \in Bad : \A V \in Bad : ~(V \subseteq U /\ V # U)
    <3> HIDE DEF Bad
    <3>. QED
      BY <1>1, <2>1, SmallestSet
  <2>3. PICK y \in U : ~Out(U, y)
    OBVIOUS
  <2> DEFINE p == Picked(U)
  <2>4. U # {} /\ IsFiniteSet(U) /\ U \in SUBSET S
    BY FS_Subset
  <2>5. p \in U
    BY <2>4, PickedIn
  <2>6. Out(U, p)
    BY <2>4, SumRecursion
  <2>7. y # p
    BY <2>3, <2>6
  <2> HIDE DEF p
  <2>8. \A V \in SUBSET U : V # U => \A z \in V : Out(V, z)
    BY <2>2, <2>4
  <2>9. Out(U \ {p}, y) /\ Out(U \ {y}, p)
    <3>1. /\ U \ {p} \in SUBSET U /\ U \ {p} # U /\ y \in U \ {p}
          /\ U \ {y} \in SUBSET U /\ U \ {y} # U /\ p \in U \ {y}
      BY <2>5, <2>7
    <3> HIDE DEF Out
    <3>. QED
      BY <2>8, <3>1
  <2>10. (U \ {p}) \ {y} = (U \ {y}) \ {p}
    OBVIOUS
  <2>11. /\ f[p] \in Int /\ f[y] \in Int
         /\ SumFunctionOnSet(f, (U \ {p}) \ {y}) \in Int
    BY <2>4, <2>5, SumInt, FS_Subset
  <2>12. /\ SumFunctionOnSet(f, U) = f[p] + SumFunctionOnSet(f, U \ {p})
         /\ SumFunctionOnSet(f, U \ {p})
              = f[y] + SumFunctionOnSet(f, (U \ {y}) \ {p})
         /\ SumFunctionOnSet(f, U \ {y})
              = f[p] + SumFunctionOnSet(f, (U \ {y}) \ {p})
         /\ SumFunctionOnSet(f, (U \ {y}) \ {p}) \in Int
    BY <2>6, <2>9, <2>10, <2>11
  <2>13. Out(U, y)
    BY <2>11, <2>12
  <2>. QED
    BY <2>3, <2>13
<1>2. \A U \in SUBSET S : \A y \in U : Out(U, y)
  BY <1>1
<1>. QED
  BY <1>2

LEMMA SumPutIn ==
  ASSUME NEW S, IsFiniteSet(S), NEW x, x \notin S, NEW f,
         \A y \in S \cup {x} : f[y] \in Int
  PROVE  SumFunctionOnSet(f, S \cup {x}) = f[x] + SumFunctionOnSet(f, S)
<1>1. IsFiniteSet(S \cup {x}) /\ (S \cup {x}) \ {x} = S
  BY FS_AddElement
<1>. QED
  BY <1>1, SumTakeOut

\* Sums of terms that are no larger, one by one, are no larger.
LEMMA SumMonotone ==
  ASSUME NEW S, NEW f, NEW g, IsFiniteSet(S),
         \A x \in S : f[x] \in Int /\ g[x] \in Int /\ f[x] <= g[x]
  PROVE  SumFunctionOnSet(f, S) <= SumFunctionOnSet(g, S)
<1> DEFINE Below(U) == SumFunctionOnSet(f, U) <= SumFunctionOnSet(g, U)
           Bad == {U \in SUBSET S : ~Below(U)}
<1>1. ASSUME Bad # {}
      PROVE  FALSE
  <2>1. Bad \in SUBSET SUBSET S
    OBVIOUS
  <2>2. PICK U \in Bad : \A V \in Bad : ~(V \subseteq U /\ V # U)
    <3> HIDE DEF Bad
    <3>. QED
      BY <1>1, <2>1, SmallestSet
  <2>3. U # {} /\ IsFiniteSet(U) /\ U \in SUBSET S
    <3>1. Below({})
      BY SumEmpty
    <3>. QED
      BY <3>1, FS_Subset
  <2>4. Picked(U) \in U /\ IsFiniteSet(U \ {Picked(U)})
    BY <2>3, PickedIn, FS_RemoveElement
  <2>5. Below(U \ {Picked(U)})
    BY <2>2, <2>3, <2>4
  <2>6. /\ SumFunctionOnSet(f, U \ {Picked(U)}) \in Int
        /\ SumFunctionOnSet(g, U \ {Picked(U)}) \in Int
    BY <2>3, <2>4, SumInt
  <2>7. /\ SumFunctionOnSet(f, U)
             = f[Picked(U)] + SumFunctionOnSet(f, U \ {Picked(U)})
        /\ SumFunctionOnSet(g, U)
             = g[Picked(U)] + SumFunctionOnSet(g, U \ {Picked(U)})
    BY <2>3, SumRecursion
  <2>8. /\ f[Picked(U)] \in Int /\ g[Picked(U)] \in Int
        /\ f[Picked(U)] <= g[Picked(U)]
    BY <2>3, <2>4
  <2>9. Below(U)
    BY <2>5, <2>6, <2>7, <2>8
  <2>. QED
    BY <2>9
<1>2. \A U \in SUBSET S : Below(U)
  BY <1>1
<1>. QED
  BY <1>2

\* Equal terms, equal sums: what a function is outside the set is no matter.
LEMMA SumEqual ==
  ASSUME NEW S, NEW f, NEW g, IsFiniteSet(S), \A x \in S : f[x] \in Int,
         \A x \in S : f[x] = g[x]
  PROVE  SumFunctionOnSet(f, S) = SumFunctionOnSet(g, S)
<1>1. /\ SumFunctionOnSet(f, S) <= SumFunctionOnSet(g, S)
      /\ SumFunctionOnSet(g, S) <= SumFunctionOnSet(f, S)
  BY SumMonotone
<1>2. SumFunctionOnSet(f, S) \in Int /\ SumFunctionOnSet(g, S) \in Int
  BY SumInt
<1>. QED
  BY <1>1, <1>2

\* Nothing adds up to nothing.
LEMMA SumZero ==
  ASSUME NEW S, NEW f, IsFiniteSet(S), \A x \in S : f[x] = 0
  PROVE  SumFunctionOnSet(f, S) = 0
<1> DEFINE Bad == {U \in SUBSET S : SumFunctionOnSet(f, U) # 0}
<1>1. ASSUME Bad # {}
      PROVE  FALSE
  <2>1. Bad \in SUBSET SUBSET S
    OBVIOUS
  <2>2. PICK U \in Bad : \A V \in Bad : ~(V \subseteq U /\ V # U)
    <3> HIDE DEF Bad
    <3>. QED
      BY <1>1, <2>1, SmallestSet
  <2>3. U # {} /\ IsFiniteSet(U)
    BY SumEmpty, FS_Subset
  <2>4. Picked(U) \in U
    BY <2>3, PickedIn
  <2>5. SumFunctionOnSet(f, U \ {Picked(U)}) = 0
    BY <2>2, <2>4
  <2>6. SumFunctionOnSet(f, U) =
          f[Picked(U)] + SumFunctionOnSet(f, U \ {Picked(U)})
    BY <2>3, SumRecursion
  <2>. QED
    BY <2>4, <2>5, <2>6
<1>. QED
  BY <1>1

\* No term below zero, no sum below zero, and each term within the sum.
LEMMA SumNat ==
  ASSUME NEW S, NEW f, IsFiniteSet(S), \A x \in S : f[x] \in Nat
  PROVE  /\ SumFunctionOnSet(f, S) \in Nat
         /\ \A x \in S : f[x] <= SumFunctionOnSet(f, S)
<1> DEFINE z == [x \in S |-> 0]
<1>1. \A U \in SUBSET S : SumFunctionOnSet(z, U) = 0
  BY SumZero, FS_Subset
<1>2. \A U \in SUBSET S : \A x \in U :
        z[x] \in Int /\ f[x] \in Int /\ z[x] <= f[x]
  OBVIOUS
<1> HIDE DEF z
<1>3. ASSUME NEW U \in SUBSET S
      PROVE  SumFunctionOnSet(f, U) \in Nat
  <2>1. IsFiniteSet(U)
    BY FS_Subset
  <2>2. SumFunctionOnSet(z, U) <= SumFunctionOnSet(f, U)
    BY <2>1, <1>2, SumMonotone
  <2>3. SumFunctionOnSet(f, U) \in Int
    BY <2>1, SumInt
  <2>. QED
    BY <1>1, <2>2, <2>3
<1>4. ASSUME NEW x \in S
      PROVE  f[x] <= SumFunctionOnSet(f, S)
  <2>1. SumFunctionOnSet(f, S) = f[x] + SumFunctionOnSet(f, S \ {x})
    BY SumTakeOut
  <2>2. SumFunctionOnSet(f, S \ {x}) \in Nat
    BY <1>3
  <2>. QED
    BY <2>1, <2>2
<1>. QED
  BY <1>3, <1>4

\* A sum of which one term changes moves by what that term moves.
LEMMA SumChange ==
  ASSUME NEW S, NEW f, NEW g, NEW x \in S, IsFiniteSet(S),
         \A y \in S : f[y] \in Int /\ g[y] \in Int,
         \A y \in S \ {x} : f[y] = g[y]
  PROVE  SumFunctionOnSet(g, S) = SumFunctionOnSet(f, S) + (g[x] - f[x])
<1>1. IsFiniteSet(S \ {x})
  BY FS_RemoveElement
<1>2. SumFunctionOnSet(f, S \ {x}) = SumFunctionOnSet(g, S \ {x})
  BY <1>1, SumEqual
<1>3. /\ SumFunctionOnSet(f, S) = f[x] + SumFunctionOnSet(f, S \ {x})
      /\ SumFunctionOnSet(g, S) = g[x] + SumFunctionOnSet(g, S \ {x})
  BY SumTakeOut
<1>4. SumFunctionOnSet(f, S \ {x}) \in Int
  BY <1>1, SumInt
<1>. QED
  BY <1>2, <1>3, <1>4

\* A part of the terms adds up to no more than all of them.
LEMMA SumSubset ==
  ASSUME NEW S, NEW T \in SUBSET S, NEW f, IsFiniteSet(S),
         \A x \in S : f[x] \in Nat
  PROVE  SumFunctionOnSet(f, T) <= SumFunctionOnSet(f, S)
<1> DEFINE Less(U) == SumFunctionOnSet(f, T) <= SumFunctionOnSet(f, U)
           Bad == {U \in SUBSET S : T \subseteq U /\ ~Less(U)}
<1>1. ASSUME Bad # {}
      PROVE  FALSE
  <2>1. Bad \in SUBSET SUBSET S
    OBVIOUS
  <2>2. PICK U \in Bad : \A V \in Bad : ~(V \subseteq U /\ V # U)
    <3> HIDE DEF Bad
    <3>. QED
      BY <1>1, <2>1, SmallestSet
  <2>3. U # T
    <3>1. IsFiniteSet(T) /\ \A x \in T : f[x] \in Int
      BY FS_Subset
    <3>2. SumFunctionOnSet(f, T) \in Int
      BY <3>1, SumInt
    <3>. QED
      BY <3>2
  <2>4. PICK x \in U : x \notin T
    BY <2>3
  <2>5. /\ IsFiniteSet(U) /\ \A y \in U : f[y] \in Int
        /\ U \ {x} \in SUBSET S /\ T \subseteq U \ {x} /\ f[x] \in Nat
    BY <2>4, FS_Subset
  <2>6. SumFunctionOnSet(f, U) = f[x] + SumFunctionOnSet(f, U \ {x})
    BY <2>5, SumTakeOut
  <2>7. Less(U \ {x})
    BY <2>2, <2>4, <2>5
  <2>8. /\ IsFiniteSet(U \ {x}) /\ IsFiniteSet(T)
        /\ \A y \in U \ {x} : f[y] \in Int
        /\ \A y \in T : f[y] \in Int
    BY <2>5, FS_Subset
  <2>9. /\ SumFunctionOnSet(f, U \ {x}) \in Int
        /\ SumFunctionOnSet(f, T) \in Int
    BY <2>8, SumInt
  <2>10. Less(U)
    BY <2>5, <2>6, <2>7, <2>9
  <2>. QED
    BY <2>10
<1>. QED
  BY <1>1

=============================================================================

-------------------------- MODULE LaunchPlanProofs --------------------------
(***************************************************************************)
(* Theorems of LaunchPlan, for any topologies, charts, pods of others,     *)
(* reserves, nodes and bounds.                                             *)
(***************************************************************************)
EXTENDS LaunchPlan, FiniteSetTheorems, TLAPS

-----------------------------------------------------------------------------
(***************************************************************************)
(* Sums.  The laws of a sum over a finite set need induction; here it is   *)
(* over sets (of naturals, of subsets), which WFMin allows.                *)
(***************************************************************************)

\* The order of the naturals, as a set.
Smaller == {ss \in Nat \X Nat : ss[1] < ss[2]}

\* No set of naturals descends for ever.
LEMMA SmallerWellFounded == IsWellFoundedOn(Smaller, Nat)
  BY NatLessThanWellFounded DEF OpToRel, Smaller

\* Induction over the naturals, for a set of them.
LEMMA NatsByStep ==
  ASSUME NEW T, 0 \in T, \A n \in Nat : n \in T => n + 1 \in T
  PROVE  \A n \in Nat : n \in T
<1> DEFINE Out == Nat \ T
<1>1. SUFFICES ASSUME Out # {} PROVE FALSE
  OBVIOUS
<1>2. PICK n \in Out : \A m \in Out : ~(<<m, n>> \in Smaller)
  BY <1>1, SmallerWellFounded, WFMin
<1>3. n \in Nat /\ n \notin T /\ n - 1 \in Nat /\ n - 1 < n /\ (n - 1) + 1 = n
  BY <1>2
<1>4. <<n - 1, n>> \in Smaller
  BY <1>3 DEF Smaller
<1>5. n - 1 \in T
  BY <1>2, <1>3, <1>4
<1>6. QED
  BY <1>3, <1>5

\* Induction over a finite set, for a set of its subsets.
LEMMA SetsByElement ==
  ASSUME NEW S, IsFiniteSet(S), NEW T, {} \in T,
         \A A \in SUBSET S : \A x \in S \ A : A \in T => A \cup {x} \in T
  PROVE  S \in T
<1> DEFINE N == {n \in Nat : \A A \in SUBSET S : Cardinality(A) = n => A \in T}
<1>1. 0 \in N
  BY FS_EmptySet, FS_Subset
<1>2. ASSUME NEW n \in Nat, n \in N PROVE n + 1 \in N
  <2>1. SUFFICES ASSUME NEW A \in SUBSET S, Cardinality(A) = n + 1 PROVE A \in T
    OBVIOUS
  <2>2. IsFiniteSet(A) /\ A # {}
    BY <2>1, FS_Subset, FS_EmptySet
  <2>3. PICK x \in A : TRUE
    BY <2>2
  <2>4. A \ {x} \in SUBSET S /\ x \in S \ (A \ {x}) /\ (A \ {x}) \cup {x} = A
    BY <2>3
  <2>5. Cardinality(A \ {x}) = n
    <3>1. Cardinality(A \ {x}) = Cardinality(A) - 1
      BY <2>2, <2>3, FS_RemoveElement
    <3>2. QED
      BY <2>1, <3>1
  <2>6. A \ {x} \in T
    BY <1>2, <2>4, <2>5
  <2>7. QED
    BY <2>4, <2>6
<1>3. Cardinality(S) \in Nat
  BY FS_CardinalityType
<1>4. Cardinality(S) \in N
  <2> HIDE DEF N
  <2> QED BY <1>1, <1>2, <1>3, NatsByStep
<1>5. QED
  BY <1>4

\* The sum of f over S; the fold takes out some member first.
Some(s) == CHOOSE x \in s : TRUE
SumOn(f, S) == SumFunctionOnSet(f, S)

\* What the fold computes on its way.
Sums(f, S, g) ==
  \A s \in SUBSET S : g[s] = IF s = {} THEN 0 ELSE f[Some(s)] + g[s \ {Some(s)}]

\* Some member of a set is one.
LEMMA SomeIsMember == ASSUME NEW s, s # {} PROVE Some(s) \in s
  BY DEF Some

\* The fold over the subsets of a finite set has a result for each.
LEMMA SumsExist ==
  ASSUME NEW S, IsFiniteSet(S), NEW f, \A x \in S : f[x] \in Int
  PROVE  \E g \in [SUBSET S -> Int] : Sums(f, S, g)
<1> DEFINE Next(g) == [s \in SUBSET S |-> IF s = {} THEN 0 ELSE f[Some(s)] + g[s \ {Some(s)}]]
           Good(g, n) == \A s \in SUBSET S : Cardinality(s) <= n => g[s] = Next(g)[s]
           N == {n \in Nat : \E g \in [SUBSET S -> Int] : Good(g, n)}
<1>1. ASSUME NEW g \in [SUBSET S -> Int] PROVE Next(g) \in [SUBSET S -> Int]
  <2>1. ASSUME NEW s \in SUBSET S, s # {} PROVE f[Some(s)] \in Int /\ g[s \ {Some(s)}] \in Int
    BY <2>1, SomeIsMember
  <2>2. QED
    BY <2>1
<1>2. 0 \in N
  <2> DEFINE g == [s \in SUBSET S |-> 0]
  <2>1. ASSUME NEW s \in SUBSET S, Cardinality(s) <= 0 PROVE s = {}
    BY <2>1, FS_Subset, FS_EmptySet, FS_CardinalityType
  <2>2. Good(g, 0)
    BY <2>1
  <2>3. g \in [SUBSET S -> Int]
    OBVIOUS
  <2>4. QED
    BY <2>2, <2>3
<1>3. ASSUME NEW n \in Nat, n \in N PROVE n + 1 \in N
  <2>1. PICK g \in [SUBSET S -> Int] : Good(g, n)
    BY <1>3
  <2>2. ASSUME NEW s \in SUBSET S, Cardinality(s) <= n + 1 PROVE Next(g)[s] = Next(Next(g))[s]
    <3>1. CASE s = {}
      BY <3>1
    <3>2. CASE s # {}
      <4>1. IsFiniteSet(s) /\ Some(s) \in s /\ Cardinality(s) \in Nat
        BY <3>2, FS_Subset, SomeIsMember, FS_CardinalityType
      <4>2. Cardinality(s \ {Some(s)}) <= n /\ s \ {Some(s)} \in SUBSET S
        <5>1. Cardinality(s \ {Some(s)}) = Cardinality(s) - 1
          BY <4>1, FS_RemoveElement
        <5>2. QED
          BY <2>2, <4>1, <5>1
      <4>3. g[s \ {Some(s)}] = Next(g)[s \ {Some(s)}]
        BY <2>1, <4>2
      <4>4. QED
        BY <3>2, <4>3
    <3>3. QED
      BY <3>1, <3>2
  <2>3. Next(g) \in [SUBSET S -> Int] /\ Good(Next(g), n + 1)
    <3> HIDE DEF Next
    <3> QED BY <1>1, <2>2
  <2>4. QED
    <3> HIDE DEF Next, Good
    <3> QED BY <2>3
<1>4. Cardinality(S) \in Nat
  BY FS_CardinalityType
<1>5. Cardinality(S) \in N
  <2> HIDE DEF N
  <2> QED BY <1>2, <1>3, <1>4, NatsByStep
<1>6. PICK g \in [SUBSET S -> Int] : Good(g, Cardinality(S))
  BY <1>5
<1>7. ASSUME NEW s \in SUBSET S PROVE g[s] = Next(g)[s]
  BY <1>6, FS_Subset
<1>8. QED
  BY <1>7 DEF Sums

\* It has one.
LEMMA SumsAgree ==
  ASSUME NEW S, IsFiniteSet(S), NEW f, NEW g, NEW h, Sums(f, S, g), Sums(f, S, h)
  PROVE  g[S] = h[S]
<1> DEFINE T == {s \in SUBSET S : \A t \in SUBSET s : g[t] = h[t]}
           N == {n \in Nat : \A s \in SUBSET S : Cardinality(s) = n => g[s] = h[s]}
<1>1. 0 \in N
  <2>1. g[{}] = h[{}]
    BY DEF Sums
  <2>2. QED
    BY <2>1, FS_Subset, FS_EmptySet
<1>2. ASSUME NEW n \in Nat, n \in N PROVE n + 1 \in N
  <2>1. SUFFICES ASSUME NEW s \in SUBSET S, Cardinality(s) = n + 1 PROVE g[s] = h[s]
    OBVIOUS
  <2>2. IsFiniteSet(s) /\ s # {}
    BY <2>1, FS_Subset, FS_EmptySet
  <2>3. Some(s) \in s
    BY <2>2, SomeIsMember
  <2>4. s \ {Some(s)} \in SUBSET S /\ Cardinality(s \ {Some(s)}) = n
    <3>1. Cardinality(s \ {Some(s)}) = Cardinality(s) - 1
      BY <2>2, <2>3, FS_RemoveElement
    <3>2. QED
      BY <2>1, <3>1
  <2>5. g[s \ {Some(s)}] = h[s \ {Some(s)}]
    BY <1>2, <2>4
  <2>6. QED
    BY <2>2, <2>5 DEF Sums
<1>3. Cardinality(S) \in N
  <2>1. Cardinality(S) \in Nat
    BY FS_CardinalityType
  <2> HIDE DEF N
  <2> QED BY <1>1, <1>2, <2>1, NatsByStep
<1>4. QED
  BY <1>3

\* So SumFunctionOnSet returns it.
LEMMA SumIs ==
  ASSUME NEW S, IsFiniteSet(S), NEW f, \A x \in S : f[x] \in Int, NEW g, Sums(f, S, g)
  PROVE  SumOn(f, S) = g[S] /\ SumOn(f, S) \in Int
<1> DEFINE Fix(h) == h = [s \in SUBSET S |-> IF s = {} THEN 0 ELSE f[Some(s)] + h[s \ {Some(s)}]]
           fold == CHOOSE h : Fix(h)
<1>1. SumOn(f, S) = fold[S]
  BY DEF SumOn, SumFunctionOnSet, FoldFunctionOnSet, MapThenFoldSet, Some
<1>2. PICK e \in [SUBSET S -> Int] : Sums(f, S, e)
  BY SumsExist
<1>3. Fix(e)
  BY <1>2 DEF Sums
<1>4. Fix(fold)
  BY <1>3
<1>5. Sums(f, S, fold)
  <2> HIDE DEF fold
  <2> QED BY <1>4 DEF Sums
<1>6. fold[S] = g[S] /\ fold[S] = e[S]
  <2> HIDE DEF fold
  <2> QED BY <1>2, <1>5, SumsAgree
<1>7. QED
  BY <1>1, <1>2, <1>6

\* The sum of nothing.
LEMMA SumOfNone == ASSUME NEW f PROVE SumOn(f, {}) = 0
<1>1. IsFiniteSet({})
  BY FS_EmptySet
<1>2. PICK g \in [SUBSET {} -> Int] : Sums(f, {}, g)
  BY <1>1, SumsExist
<1>3. SumOn(f, {}) = g[{}]
  BY <1>1, <1>2, SumIs
<1>4. QED
  BY <1>2, <1>3 DEF Sums

\* A sum of integers is an integer.
LEMMA SumType ==
  ASSUME NEW S, IsFiniteSet(S), NEW f, \A x \in S : f[x] \in Int
  PROVE  SumOn(f, S) \in Int
  BY SumsExist, SumIs

\* A sum is its first element and the sum of the others.
LEMMA SumOfRest ==
  ASSUME NEW S, IsFiniteSet(S), S # {}, NEW f, \A x \in S : f[x] \in Int
  PROVE  SumOn(f, S) = f[Some(S)] + SumOn(f, S \ {Some(S)})
<1> DEFINE R == S \ {Some(S)}
<1>1. PICK g \in [SUBSET S -> Int] : Sums(f, S, g)
  BY SumsExist
<1>2. SumOn(f, S) = g[S]
  BY <1>1, SumIs
<1>3. IsFiniteSet(R) /\ \A x \in R : f[x] \in Int
  BY FS_Subset
<1>4. Sums(f, R, g)
  BY <1>1 DEF Sums
<1>5. SumOn(f, R) = g[R]
  <2> HIDE DEF R
  <2> QED BY <1>3, <1>4, SumIs
<1>6. g[S] = f[Some(S)] + g[R]
  BY <1>1 DEF Sums
<1>7. QED
  BY <1>2, <1>5, <1>6

\* Whichever element is taken first.
LEMMA SumWithout ==
  ASSUME NEW S, IsFiniteSet(S), NEW f, \A x \in S : f[x] \in Int, NEW x \in S
  PROVE  SumOn(f, S) = f[x] + SumOn(f, S \ {x})
<1> DEFINE N == {n \in Nat : \A A \in SUBSET S : Cardinality(A) = n =>
                               \A a \in A : SumOn(f, A) = f[a] + SumOn(f, A \ {a})}
<1>1. 0 \in N
  BY FS_Subset, FS_EmptySet
<1>2. ASSUME NEW n \in Nat, n \in N PROVE n + 1 \in N
  <2>1. SUFFICES ASSUME NEW A \in SUBSET S, Cardinality(A) = n + 1, NEW a \in A
                 PROVE  SumOn(f, A) = f[a] + SumOn(f, A \ {a})
    OBVIOUS
  <2> DEFINE b == Some(A)
  <2>2. IsFiniteSet(A) /\ A # {} /\ b \in A
    BY FS_Subset, SomeIsMember
  <2>3. SumOn(f, A) = f[b] + SumOn(f, A \ {b})
    BY <2>2, SumOfRest
  <2>4. CASE a = b
    BY <2>3, <2>4
  <2>5. CASE a # b
    <3> HIDE DEF b
    <3>1. /\ Cardinality(A \ {a}) = Cardinality(A) - 1
          /\ Cardinality(A \ {b}) = Cardinality(A) - 1
      BY <2>2, FS_RemoveElement
    <3>2. Cardinality(A \ {a}) = n /\ Cardinality(A \ {b}) = n
      BY <2>1, <3>1
    <3>3. SumOn(f, A \ {b}) = f[a] + SumOn(f, (A \ {b}) \ {a})
      BY <1>2, <2>5, <3>2
    <3>4. SumOn(f, A \ {a}) = f[b] + SumOn(f, (A \ {a}) \ {b})
      BY <1>2, <2>2, <2>5, <3>2
    <3>5. SumOn(f, (A \ {a}) \ {b}) = SumOn(f, (A \ {b}) \ {a})
      <4>1. (A \ {a}) \ {b} = (A \ {b}) \ {a}
        OBVIOUS
      <4>2. QED
        BY <4>1
    <3>6. IsFiniteSet((A \ {a}) \ {b}) /\ \A y \in (A \ {a}) \ {b} : f[y] \in Int
      BY FS_Subset
    <3>7. SumOn(f, (A \ {a}) \ {b}) \in Int
      BY <3>6, SumType
    <3>8. f[a] \in Int /\ f[b] \in Int
      BY <2>2
    <3>9. QED
      BY <2>3, <3>3, <3>4, <3>5, <3>7, <3>8
  <2>6. QED
    BY <2>4, <2>5
<1>3. Cardinality(S) \in N
  <2>1. Cardinality(S) \in Nat
    BY FS_CardinalityType
  <2> HIDE DEF N
  <2> QED BY <1>1, <1>2, <2>1, NatsByStep
<1>4. QED
  BY <1>3

\* One element more.
LEMMA SumWith ==
  ASSUME NEW S, IsFiniteSet(S), NEW y, y \notin S, NEW f, \A x \in S \cup {y} : f[x] \in Int
  PROVE  /\ SumOn(f, S \cup {y}) = SumOn(f, S) + f[y]
         /\ SumOn(f, S) \in Int
<1>1. IsFiniteSet(S \cup {y}) /\ (S \cup {y}) \ {y} = S
  BY FS_AddElement
<1>2. SumOn(f, S \cup {y}) = f[y] + SumOn(f, S)
  BY <1>1, SumWithout
<1>3. SumOn(f, S) \in Int
  BY SumType
<1>4. QED
  BY <1>2, <1>3

\* A sum of larger numbers is larger.
LEMMA SumMonotone ==
  ASSUME NEW S, IsFiniteSet(S), NEW f, NEW g,
         \A x \in S : f[x] \in Int /\ g[x] \in Int /\ f[x] <= g[x]
  PROVE  SumOn(f, S) <= SumOn(g, S)
<1> DEFINE T == {A \in SUBSET S : SumOn(f, A) <= SumOn(g, A)}
<1>1. {} \in T
  BY SumOfNone
<1>2. ASSUME NEW A \in SUBSET S, NEW y \in S \ A, A \in T PROVE A \cup {y} \in T
  <2>1. IsFiniteSet(A)
    BY FS_Subset
  <2>2. SumOn(f, A \cup {y}) = SumOn(f, A) + f[y] /\ SumOn(f, A) \in Int
    BY <2>1, SumWith
  <2>3. SumOn(g, A \cup {y}) = SumOn(g, A) + g[y] /\ SumOn(g, A) \in Int
    BY <2>1, SumWith
  <2>4. QED
    BY <1>2, <2>2, <2>3
<1>3. S \in T
  <2> HIDE DEF T
  <2> QED BY <1>1, <1>2, SetsByElement
<1>4. QED
  BY <1>3

\* A sum depends on the numbers alone.
LEMMA SumSame ==
  ASSUME NEW S, IsFiniteSet(S), NEW f, NEW g, \A x \in S : f[x] \in Int /\ g[x] = f[x]
  PROVE  SumOn(f, S) = SumOn(g, S)
<1>1. SumOn(f, S) <= SumOn(g, S) /\ SumOn(g, S) <= SumOn(f, S)
  BY SumMonotone
<1>2. QED
  BY <1>1, SumType

\* One element after the other, of a part of the set that has each of them yet.
LEMMA SumOfParts ==
  ASSUME NEW S, IsFiniteSet(S), NEW D, IsFiniteSet(D), S \cap D = {},
         NEW f, \A x \in S \cup D : f[x] \in Int
  PROVE  SumOn(f, S \cup D) = SumOn(f, S) + SumOn(f, D)
<1> DEFINE T == {A \in SUBSET D : SumOn(f, S \cup A) = SumOn(f, S) + SumOn(f, A)}
<1>1. {} \in T
  <2>1. SumOn(f, S) \in Int /\ S \cup {} = S
    BY SumType
  <2>2. QED
    BY <2>1, SumOfNone
<1>2. ASSUME NEW A \in SUBSET D, NEW y \in D \ A, A \in T PROVE A \cup {y} \in T
  <2>1. IsFiniteSet(A) /\ IsFiniteSet(S \cup A) /\ y \notin S \cup A
        /\ S \cup (A \cup {y}) = (S \cup A) \cup {y}
    BY FS_Subset, FS_Union
  <2>2. SumOn(f, A \cup {y}) = SumOn(f, A) + f[y] /\ SumOn(f, A) \in Int
    BY <2>1, SumWith
  <2>3. SumOn(f, (S \cup A) \cup {y}) = SumOn(f, S \cup A) + f[y]
    BY <2>1, SumWith
  <2>4. SumOn(f, S) \in Int /\ f[y] \in Int
    BY SumType
  <2>5. SumOn(f, S \cup (A \cup {y})) = SumOn(f, S \cup A) + f[y]
    BY <2>1, <2>3
  <2>6. QED
    BY <1>2, <2>2, <2>4, <2>5
<1>3. D \in T
  <2> HIDE DEF T
  <2> QED BY <1>1, <1>2, SetsByElement
<1>4. QED
  BY <1>3

\* A sum of naturals is a natural.
LEMMA SumNat ==
  ASSUME NEW S, IsFiniteSet(S), NEW f, \A x \in S : f[x] \in Nat
  PROVE  SumOn(f, S) \in Nat
<1> DEFINE T == {A \in SUBSET S : SumOn(f, A) \in Nat}
<1>1. {} \in T
  BY SumOfNone
<1>2. ASSUME NEW A \in SUBSET S, NEW y \in S \ A, A \in T PROVE A \cup {y} \in T
  <2>1. IsFiniteSet(A)
    BY FS_Subset
  <2>2. SumOn(f, A \cup {y}) = SumOn(f, A) + f[y]
    <3>1. (\A x \in A \cup {y} : f[x] \in Int) /\ y \notin A
      OBVIOUS
    <3>2. QED
      BY <2>1, <3>1, SumWith
  <2>3. QED
    BY <1>2, <2>2
<1>3. S \in T
  <2> HIDE DEF T
  <2> QED BY <1>1, <1>2, SetsByElement
<1>4. QED
  BY <1>3

\* n times the same.
LEMMA SumOfEqual ==
  ASSUME NEW S, IsFiniteSet(S), NEW c \in Int, NEW f, \A x \in S : f[x] = c
  PROVE  SumOn(f, S) = Cardinality(S) * c
<1> DEFINE T == {A \in SUBSET S : SumOn(f, A) = Cardinality(A) * c}
<1>1. {} \in T
  BY SumOfNone, FS_EmptySet
<1>2. ASSUME NEW A \in SUBSET S, NEW y \in S \ A, A \in T PROVE A \cup {y} \in T
  <2>1. IsFiniteSet(A)
    BY FS_Subset
  <2>2. SumOn(f, A \cup {y}) = SumOn(f, A) + c
    <3>1. (\A x \in A \cup {y} : f[x] \in Int) /\ f[y] = c
      OBVIOUS
    <3>2. QED
      BY <2>1, <3>1, SumWith
  <2>3. Cardinality(A \cup {y}) = Cardinality(A) + 1 /\ Cardinality(A) \in Nat
    BY <2>1, FS_AddElement, FS_CardinalityType
  <2>4. \A n \in Nat : (n + 1) * c = n * c + c
    OBVIOUS
  <2>5. QED
    BY <1>2, <2>2, <2>3, <2>4
<1>3. S \in T
  <2> HIDE DEF T
  <2> QED BY <1>1, <1>2, SetsByElement
<1>4. QED
  BY <1>3

\* Fewer naturals sum up to less.
LEMMA SumOfSubset ==
  ASSUME NEW S, IsFiniteSet(S), NEW A \in SUBSET S, NEW f, \A x \in S : f[x] \in Nat
  PROVE  SumOn(f, A) <= SumOn(f, S)
<1>1. IsFiniteSet(A) /\ IsFiniteSet(S \ A) /\ A \cap (S \ A) = {} /\ A \cup (S \ A) = S
  BY FS_Subset
<1>2. SumOn(f, S) = SumOn(f, A) + SumOn(f, S \ A)
  <2>1. \A x \in A \cup (S \ A) : f[x] \in Int
    OBVIOUS
  <2>2. SumOn(f, A \cup (S \ A)) = SumOn(f, A) + SumOn(f, S \ A)
    BY <1>1, <2>1, SumOfParts
  <2>3. QED
    BY <1>1, <2>2
<1>3. SumOn(f, A) \in Nat /\ SumOn(f, S \ A) \in Nat
  BY <1>1, SumNat
<1>4. QED
  BY <1>2, <1>3

\* A sum is at most another that has at least as much for each of its elements.
LEMMA SumInjects ==
  ASSUME NEW S, IsFiniteSet(S), NEW T, IsFiniteSet(T),
         NEW h \in [S -> T], \A x, y \in S : h[x] = h[y] => x = y,
         NEW f, NEW g, \A y \in T : g[y] \in Nat,
         \A x \in S : f[x] \in Int /\ f[x] <= g[h[x]]
  PROVE  SumOn(f, S) <= SumOn(g, T)
<1> DEFINE I(A) == {h[x] : x \in A}
           Z == {A \in SUBSET S : SumOn(f, A) <= SumOn(g, I(A))}
<1>1. {} \in Z
  <2>1. I({}) = {}
    OBVIOUS
  <2>2. SumOn(g, I({})) = 0
    BY <2>1, SumOfNone
  <2>3. QED
    BY <2>2, SumOfNone
<1>2. ASSUME NEW A \in SUBSET S, NEW y \in S \ A, A \in Z PROVE A \cup {y} \in Z
  <2>1. IsFiniteSet(A) /\ IsFiniteSet(I(A)) /\ I(A) \subseteq T
    BY FS_Subset
  <2>2. h[y] \notin I(A) /\ I(A \cup {y}) = I(A) \cup {h[y]} /\ h[y] \in T
    OBVIOUS
  <2>3. SumOn(f, A \cup {y}) = SumOn(f, A) + f[y] /\ SumOn(f, A) \in Int
    BY <2>1, SumWith
  <2>4. SumOn(g, I(A) \cup {h[y]}) = SumOn(g, I(A)) + g[h[y]] /\ SumOn(g, I(A)) \in Int
    <3>1. \A x \in I(A) \cup {h[y]} : g[x] \in Int
      BY <2>1, <2>2
    <3> HIDE DEF I
    <3>2. QED
      BY <2>1, <2>2, <3>1, SumWith
  <2>5. SumOn(g, I(A \cup {y})) = SumOn(g, I(A)) + g[h[y]]
    <3> HIDE DEF I
    <3> QED BY <2>2, <2>4
  <2>6. f[y] \in Int /\ g[h[y]] \in Nat /\ f[y] <= g[h[y]]
    BY <2>2
  <2>7. SumOn(f, A) <= SumOn(g, I(A))
    BY <1>2
  <2>8. SumOn(f, A \cup {y}) <= SumOn(g, I(A \cup {y}))
    <3> HIDE DEF I
    <3> QED BY <2>3, <2>4, <2>5, <2>6, <2>7
  <2>9. QED
    BY <2>8
<1>3. S \in Z
  <2> HIDE DEF Z
  <2> QED BY <1>1, <1>2, SetsByElement
<1>4. I(S) \in SUBSET T
  OBVIOUS
<1>5. SumOn(g, I(S)) <= SumOn(g, T)
  <2> HIDE DEF I
  <2> QED BY <1>4, SumOfSubset
<1>6. SumOn(f, S) \in Int /\ SumOn(g, I(S)) \in Int /\ SumOn(g, T) \in Int
  <2>1. IsFiniteSet(I(S)) /\ \A y \in I(S) : g[y] \in Int
    BY <1>4, FS_Subset
  <2> HIDE DEF I
  <2>2. QED
    BY <2>1, SumType
<1>7. SumOn(f, S) <= SumOn(g, I(S))
  BY <1>3
<1>8. QED
  <2> HIDE DEF I
  <2> QED BY <1>5, <1>6, <1>7

\* Group by group.
LEMMA SumOfGroups ==
  ASSUME NEW D, IsFiniteSet(D), NEW W, \A d \in D : IsFiniteSet(W[d]),
         \A d, e \in D : d # e => W[d] \cap W[e] = {},
         NEW f, \A d \in D : \A x \in W[d] : f[x] \in Int,
         NEW g, \A d \in D : g[d] = SumOn(f, W[d]),
         NEW V, \A x : x \in V <=> \E d \in D : x \in W[d]
  PROVE  IsFiniteSet(V) /\ SumOn(f, V) = SumOn(g, D)
<1> DEFINE U(A) == UNION {W[d] : d \in A}
           Z == {A \in SUBSET D : IsFiniteSet(U(A)) /\ SumOn(f, U(A)) = SumOn(g, A)}
<1>1. {} \in Z
  <2>1. U({}) = {}
    OBVIOUS
  <2> HIDE DEF U
  <2>2. QED
    BY <2>1, SumOfNone, FS_EmptySet
<1>2. ASSUME NEW A \in SUBSET D, NEW y \in D \ A, A \in Z PROVE A \cup {y} \in Z
  <2>1. IsFiniteSet(A) /\ IsFiniteSet(U(A)) /\ IsFiniteSet(W[y])
    BY <1>2, FS_Subset
  <2>2. U(A) \cap W[y] = {} /\ U(A \cup {y}) = U(A) \cup W[y]
    OBVIOUS
  <2>3. \A x \in U(A) \cup W[y] : f[x] \in Int
    OBVIOUS
  <2>4. IsFiniteSet(U(A) \cup W[y]) /\ SumOn(f, U(A) \cup W[y]) = SumOn(f, U(A)) + SumOn(f, W[y])
    <3> HIDE DEF U
    <3>1. IsFiniteSet(U(A) \cup W[y])
      BY <2>1, FS_Union
    <3>2. SumOn(f, U(A) \cup W[y]) = SumOn(f, U(A)) + SumOn(f, W[y])
      BY <2>1, <2>2, <2>3, SumOfParts
    <3>3. QED
      BY <3>1, <3>2
  <2>5. \A d \in A \cup {y} : g[d] \in Int
    <3>1. SUFFICES ASSUME NEW d \in A \cup {y} PROVE g[d] \in Int
      OBVIOUS
    <3>2. d \in D /\ IsFiniteSet(W[d]) /\ \A x \in W[d] : f[x] \in Int
      OBVIOUS
    <3>3. QED
      BY <3>2, SumType
  <2>6. SumOn(g, A \cup {y}) = SumOn(g, A) + g[y]
    BY <2>1, <2>5, SumWith
  <2>7. IsFiniteSet(U(A \cup {y})) /\ SumOn(f, U(A \cup {y})) = SumOn(g, A \cup {y})
    <3>1. SumOn(f, U(A)) = SumOn(g, A) /\ g[y] = SumOn(f, W[y])
      BY <1>2
    <3> HIDE DEF U
    <3>2. QED
      BY <2>2, <2>4, <2>6, <3>1
  <2>8. QED
    BY <2>7
<1>3. D \in Z
  <2> HIDE DEF Z
  <2> QED BY <1>1, <1>2, SetsByElement
<1>4. U(D) = V
  OBVIOUS
<1>5. QED
  <2> HIDE DEF U
  <2> QED BY <1>3, <1>4

-----------------------------------------------------------------------------
(***************************************************************************)
(* One pod: what the loop of l3_pod_demand keeps, and that its result is   *)
(* the most the pod ever runs.                                             *)
(***************************************************************************)

\* The largest of a set.
LEMMA MaxIs ==
  ASSUME NEW S \in SUBSET Int, NEW m \in S, \A y \in S : m >= y
  PROVE  Max(S) = m
<1> DEFINE P(x) == x \in S /\ \A y \in S : x >= y
<1>1. P(m)
  OBVIOUS
<1>0. ASSUME NEW x, P(x) PROVE x = m
  <2>1. x \in Int /\ m \in Int /\ x >= m /\ m >= x
    BY <1>0
  <2>2. QED
    BY <2>1
<1>2. Max(S) = CHOOSE x : P(x)
  BY Zenon DEF Max
<1>3. QED
  <2> HIDE DEF P
  <2> QED BY <1>0, <1>1, <1>2

\* The larger of two.
LEMMA MaxOfTwo ==
  ASSUME NEW a \in Nat, NEW b \in Nat
  PROVE  Max({a, b}) = IF a >= b THEN a ELSE b
<1>1. CASE a >= b
  <2>1. \A y \in {a, b} : a >= y
    BY <1>1
  <2>2. Max({a, b}) = a
    BY <2>1, MaxIs
  <2>3. QED
    BY <1>1, <2>2
<1>2. CASE ~(a >= b)
  <2>1. \A y \in {a, b} : b >= y
    BY <1>2
  <2>2. Max({a, b}) = b
    BY <2>1, MaxIs
  <2>3. QED
    BY <1>2, <2>2
<1>3. QED
  BY <1>1, <1>2

\* What the loop over the init containers keeps.
AfterInit(use, c) ==
  LET sum == use.running ++ Request(c) IN
  [running |-> IF c.always THEN sum ELSE use.running, most |-> Join(use.most, sum)]
InitUses(pod, a) ==
  a = [i \in 0..Len(pod.inits) |-> IF i = 0 THEN [running |-> Zero, most |-> Zero]
                                   ELSE AfterInit(a[i - 1], pod.inits[i])]

\* The loop has a result.
LEMMA InitUseIs ==
  ASSUME NEW pod, Len(pod.inits) \in Nat
  PROVE  \E a : InitUses(pod, a) /\ InitUse(pod) = a[Len(pod.inits)]
<1> DEFINE n == Len(pod.inits)
           z == [running |-> Zero, most |-> Zero]
           St(use, i) == AfterInit(use, pod.inits[i])
           Next(a) == [i \in 0..n |-> IF i = 0 THEN z ELSE St(a[i - 1], i)]
           Good(a, k) == \A i \in 0..n : i <= k => a[i] = Next(a)[i]
           N == {k \in Nat : \E a : Good(a, k)}
<1> HIDE DEF n, z, St
<1>0. n \in Nat
  BY DEF n
<1>1. 0 \in N
  <2>1. Good(Next(z), 0)
    BY <1>0
  <2>2. QED
    BY <2>1
<1>2. ASSUME NEW k \in Nat, k \in N PROVE k + 1 \in N
  <2>1. PICK a : Good(a, k)
    BY <1>2
  <2>2. Good(Next(a), k + 1)
    <3>1. SUFFICES ASSUME NEW i \in 0..n, i <= k + 1 PROVE Next(a)[i] = Next(Next(a))[i]
      OBVIOUS
    <3>2. CASE i = 0
      BY <3>2
    <3>3. CASE i # 0
      <4>1. i - 1 \in 0..n /\ i - 1 <= k
        BY <1>0, <3>1, <3>3
      <4>2. a[i - 1] = Next(a)[i - 1]
        BY <2>1, <4>1
      <4>3. QED
        BY <3>3, <4>2
    <3>4. QED
      BY <3>2, <3>3
  <2>3. QED
    <3> HIDE DEF Good, Next
    <3> QED BY <2>2
<1>3. n \in N
  <2> HIDE DEF N
  <2> QED BY <1>0, <1>1, <1>2, NatsByStep
<1>4. PICK a : Good(a, n)
  BY <1>3
<1>5. Next(Next(a)) = Next(a)
  <2>1. \A i \in 0..n : a[i] = Next(a)[i]
    BY <1>0, <1>4
  <2>2. \A i \in 0..n : i # 0 => a[i - 1] = Next(a)[i - 1]
    BY <1>0, <2>1
  <2>3. QED
    BY <2>2
<1>6. InitUses(pod, Next(a))
  <2> DEFINE b == Next(a)
  <2>1. b = Next(b)
    BY <1>5
  <2> HIDE DEF b
  <2>2. InitUses(pod, b)
    BY <2>1 DEF InitUses, n, z, St
  <2>3. QED
    BY <2>2 DEF b
<1> DEFINE Fix(h) == h = [i \in 0..Len(pod.inits) |->
                        IF i = 0 THEN [running |-> Zero, most |-> Zero]
                        ELSE LET use == h[i - 1].running ++ Request(pod.inits[i]) IN
                             [running |-> IF pod.inits[i].always THEN use ELSE h[i - 1].running,
                              most |-> Join(h[i - 1].most, use)]]
           chosen == CHOOSE h : Fix(h)
<1>7. \A h : Fix(h) <=> InitUses(pod, h)
  BY DEF InitUses, AfterInit
<1>8. InitUse(pod) = chosen[Len(pod.inits)]
  BY DEF InitUse
<1>9. Fix(chosen)
  <2> HIDE DEF Fix
  <2> QED BY <1>6, <1>7
<1>10. QED
  <2> HIDE DEF Fix, chosen
  <2> QED BY <1>7, <1>8, <1>9

\* What the init containers ask for of one resource, and which keep running beside the i-th.
Asked(pod, x) == [j \in DOMAIN pod.inits |-> Request(pod.inits[j])[x]]
Beside(pod, i) == {j \in DOMAIN pod.inits : j < i /\ pod.inits[j].always}
Starting(pod, x, i) == Asked(pod, x)[i] + SumOn(Asked(pod, x), Beside(pod, i))

\* What the containers of a pod ask for is a number.
LEMMA RequestType ==
  ASSUME NEW pod, PodShape(pod)
  PROVE  /\ Len(pod.inits) \in Nat /\ DOMAIN pod.inits = 1..Len(pod.inits)
         /\ Len(pod.apps) \in Nat /\ DOMAIN pod.apps = 1..Len(pod.apps)
         /\ \A j \in DOMAIN pod.inits : Request(pod.inits[j]) \in Demand
         /\ \A j \in DOMAIN pod.inits : pod.inits[j].always \in BOOLEAN
         /\ \A j \in DOMAIN pod.apps : Request(pod.apps[j]) \in Demand
         /\ pod.overhead \in Demand
<1>1. /\ Len(pod.inits) \in Nat /\ DOMAIN pod.inits = 1..Len(pod.inits)
      /\ Len(pod.apps) \in Nat /\ DOMAIN pod.apps = 1..Len(pod.apps)
      /\ pod.overhead \in Demand
  BY DEF PodShape
<1>2. ASSUME NEW c, c.request \in [Resource -> Nat \cup {Missing}] PROVE Request(c) \in Demand
  BY <1>2 DEF Request, Demand
<1>3. \A j \in DOMAIN pod.inits : pod.inits[j] \in Range(pod.inits)
  BY DEF Range
<1>4. \A j \in DOMAIN pod.apps : pod.apps[j] \in Range(pod.apps)
  BY DEF Range
<1>5. \A c \in Range(pod.apps) \cup Range(pod.inits) :
        c.request \in [Resource -> Nat \cup {Missing}] /\ c.always \in BOOLEAN
  BY DEF PodShape
<1>6. QED
  BY <1>1, <1>2, <1>3, <1>4, <1>5

\* So is what the restartable ones ask for that run beside the i-th.
LEMMA BesideType ==
  ASSUME NEW pod, PodShape(pod), NEW x \in Resource, NEW i
  PROVE  /\ \A j \in DOMAIN pod.inits : Asked(pod, x)[j] \in Nat
         /\ IsFiniteSet(Beside(pod, i)) /\ Beside(pod, i) \subseteq DOMAIN pod.inits
         /\ SumOn(Asked(pod, x), Beside(pod, i)) \in Nat
<1>1. \A j \in DOMAIN pod.inits : Asked(pod, x)[j] \in Nat
  BY RequestType DEF Asked, Demand
<1>2. IsFiniteSet(DOMAIN pod.inits)
  BY RequestType, FS_Interval
<1>3. IsFiniteSet(Beside(pod, i)) /\ Beside(pod, i) \subseteq DOMAIN pod.inits
  BY <1>2, FS_Subset DEF Beside
<1>4. QED
  BY <1>1, <1>3, SumNat

\* After the loop, `running` is what the restartable init containers ask for, and
\* `most` is the most that one of them started with, next to those before it.
LEMMA InitUseSums ==
  ASSUME NEW pod, PodShape(pod), NEW x \in Resource, NEW n, n = Len(pod.inits)
  PROVE  /\ InitUse(pod).running[x] = SumOn(Asked(pod, x), Beside(pod, n + 1))
         /\ InitUse(pod).most[x] \in Nat
         /\ \A j \in 1..n : Starting(pod, x, j) <= InitUse(pod).most[x]
         /\ \/ InitUse(pod).most[x] = 0
            \/ \E j \in 1..n : InitUse(pod).most[x] = Starting(pod, x, j)
<1> DEFINE q == Asked(pod, x)
           Run(i) == SumOn(q, Beside(pod, i))
<1>1. PICK a : InitUses(pod, a) /\ InitUse(pod) = a[n]
  BY RequestType, InitUseIs
<1> DEFINE P(i) == /\ a[i].running[x] = Run(i + 1)
                   /\ a[i].most[x] \in Nat
                   /\ \A j \in 1..i : Starting(pod, x, j) <= a[i].most[x]
                   /\ \/ a[i].most[x] = 0
                      \/ \E j \in 1..i : a[i].most[x] = Starting(pod, x, j)
           T == {i \in Nat : i <= n => P(i)}
<1>2. n \in Nat /\ DOMAIN pod.inits = 1..n
  BY RequestType
<1>3. 0 \in T
  <2>1. a[0].running[x] = 0 /\ a[0].most[x] = 0
    BY <1>1, <1>2 DEF InitUses, Zero
  <2>2. Beside(pod, 0 + 1) = {}
    BY <1>2 DEF Beside
  <2>3. Run(0 + 1) = 0
    BY <2>2, SumOfNone
  <2>4. QED
    BY <2>1, <2>3
<1>4. ASSUME NEW i \in Nat, i \in T PROVE i + 1 \in T
  <2>1. SUFFICES ASSUME i + 1 <= n PROVE P(i + 1)
    OBVIOUS
  <2> DEFINE k == i + 1
             c == pod.inits[k]
  <2>2. k \in DOMAIN pod.inits /\ k \in 0..n /\ k # 0 /\ k - 1 = i /\ P(i)
    BY <1>2, <1>4, <2>1
  <2>3. a[k] = AfterInit(a[i], c)
    BY <1>1, <2>2 DEF InitUses
  <2>4. Request(c)[x] = q[k] /\ q[k] \in Nat /\ Run(k) \in Nat /\ c.always \in BOOLEAN
    BY <2>2, BesideType, RequestType DEF Asked
  <2>5. Starting(pod, x, k) = q[k] + Run(k)
    BY DEF Starting
  <2>6. (a[i].running ++ Request(c))[x] = Starting(pod, x, k)
    BY <2>2, <2>4, <2>5 DEF ++
  <2>7. a[k].running[x] = Run(k + 1)
    <3>1. CASE c.always
      <4>1. Beside(pod, k + 1) = Beside(pod, k) \cup {k} /\ k \notin Beside(pod, k)
        BY <1>2, <2>2, <3>1 DEF Beside
      <4>2. \A y \in Beside(pod, k) \cup {k} : q[y] \in Int
        BY <2>2, BesideType
      <4>3. SumOn(q, Beside(pod, k) \cup {k}) = Run(k) + q[k]
        <5> HIDE DEF q, k
        <5> QED BY <4>1, <4>2, BesideType, SumWith
      <4>4. a[k].running[x] = Starting(pod, x, k)
        BY <2>3, <2>6, <3>1 DEF AfterInit
      <4>5. QED
        <5>1. Run(k + 1) = Run(k) + q[k]
          BY <4>1, <4>3
        <5>2. a[k].running[x] = q[k] + Run(k)
          BY <2>5, <4>4
        <5>3. q[k] \in Nat /\ Run(k) \in Nat
          BY <2>4
        <5> HIDE DEF q, k, Run
        <5>4. QED
          BY <5>1, <5>2, <5>3
    <3>2. CASE ~c.always
      <4>1. Beside(pod, k + 1) = Beside(pod, k)
        BY <1>2, <2>2, <3>2 DEF Beside
      <4>2. a[k].running[x] = a[i].running[x]
        BY <2>3, <3>2 DEF AfterInit
      <4>3. QED
        BY <2>2, <4>1, <4>2
    <3>3. QED
      BY <3>1, <3>2
  <2>8. a[k].most[x] = Max({a[i].most[x], Starting(pod, x, k)})
    BY <2>3, <2>6 DEF AfterInit, Join
  <2>9. a[k].most[x] = IF a[i].most[x] >= Starting(pod, x, k) THEN a[i].most[x]
                       ELSE Starting(pod, x, k)
    BY <2>2, <2>4, <2>5, <2>8, MaxOfTwo
  <2>10. \A j \in 1..k : j \in 1..i \/ j = k
    OBVIOUS
  <2>11. \A j \in 1..i : Starting(pod, x, j) <= a[i].most[x] /\ Starting(pod, x, j) \in Nat
    <3>1. SUFFICES ASSUME NEW j \in 1..i PROVE Starting(pod, x, j) \in Nat
      BY <2>2
    <3>2. j \in DOMAIN pod.inits
      BY <1>2, <2>1
    <3>3. QED
      BY <3>2, BesideType DEF Starting
  <2>12. Starting(pod, x, k) \in Nat /\ a[i].most[x] \in Nat
    BY <2>2, <2>4, <2>5
  <2>13. /\ a[k].most[x] \in Nat
         /\ \A j \in 1..k : Starting(pod, x, j) <= a[k].most[x]
         /\ a[k].most[x] = 0 \/ \E j \in 1..k : a[k].most[x] = Starting(pod, x, j)
    <3>1. 1..i \subseteq 1..k /\ k \in 1..k
      OBVIOUS
    <3>2. a[i].most[x] = 0 \/ \E j \in 1..i : a[i].most[x] = Starting(pod, x, j)
      BY <2>2
    <3> HIDE DEF k, P
    <3>3. QED
      BY <2>9, <2>10, <2>11, <2>12, <3>1, <3>2
  <2>14. QED
    BY <2>7, <2>13
<1>5. n \in T
  <2> HIDE DEF T
  <2> QED BY <1>2, <1>3, <1>4, NatsByStep
<1>6. QED
  BY <1>1, <1>2, <1>5

\* A sum over the domain of a function.
LEMMA SumFunctionIs ==
  ASSUME NEW h, NEW S, IsFiniteSet(S), DOMAIN h = S, NEW f, \A y \in S : f[y] \in Int /\ h[y] = f[y]
  PROVE  SumFunction(h) = SumOn(f, S)
<1>1. SumFunction(h) = SumOn(h, S)
  BY DEF SumFunction, SumOn
<1>2. QED
  BY <1>1, SumSame

\* What the app containers ask for of one resource.
AppsAsked(pod, x) == [j \in DOMAIN pod.apps |-> Request(pod.apps[j])[x]]

\* What the app containers ask for is a number.
LEMMA AppsType ==
  ASSUME NEW pod, PodShape(pod), NEW x \in Resource
  PROVE  /\ IsFiniteSet(DOMAIN pod.apps) /\ \A j \in DOMAIN pod.apps : AppsAsked(pod, x)[j] \in Nat
         /\ SumOn(AppsAsked(pod, x), DOMAIN pod.apps) \in Nat
<1>1. IsFiniteSet(DOMAIN pod.apps)
  BY RequestType, FS_Interval
<1>2. \A j \in DOMAIN pod.apps : AppsAsked(pod, x)[j] \in Nat
  BY RequestType DEF AppsAsked, Demand
<1>3. QED
  BY <1>1, <1>2, SumNat

\* Of one resource: the largest start of an init container, or what runs in the end.
LEMMA OneIsPeak ==
  ASSUME NEW pod, PodShape(pod), NEW x \in Resource, NEW n, n = Len(pod.inits),
         NEW apps, apps = SumOn(AppsAsked(pod, x), DOMAIN pod.apps),
         NEW late, late = SumOn(Asked(pod, x), Beside(pod, n + 1)),
         NEW most, most = InitUse(pod).most[x]
  PROVE  PodDemand(pod)[x] = Peak(pod)[x] /\ Peak(pod)[x] \in Nat
<1> DEFINE f == AppsAsked(pod, x)
           q == Asked(pod, x)
           A == DOMAIN pod.apps
           I == DOMAIN pod.inits
<1>1. IsFiniteSet(A) /\ (\A j \in A : f[j] \in Nat) /\ I = 1..n
  BY AppsType, RequestType
<1>2. apps \in Nat
  BY AppsType
<1>3. late \in Nat
  BY BesideType
<1>4. SumOver(LAMBDA j : Request(pod.apps[j]), A)[x] = apps
  <2> DEFINE h == [e \in A |-> Request(pod.apps[e])[x]]
  <2>1. DOMAIN h = A /\ \A y \in A : f[y] \in Int /\ h[y] = f[y]
    <3>1. \A y \in A : f[y] = Request(pod.apps[y])[x]
      BY DEF AppsAsked
    <3> HIDE DEF f, A
    <3>2. QED
      BY <1>1, <3>1
  <2>2. SumOver(LAMBDA j : Request(pod.apps[j]), A)[x] = SumFunction(h)
    BY DEF SumOver
  <2>3. SumFunction(h) = SumOn(f, A)
    <3> HIDE DEF f, h
    <3> QED BY <1>1, <2>1, SumFunctionIs
  <2>4. QED
    BY <2>2, <2>3
<1>5. ASSUME NEW i PROVE SumOver(LAMBDA j : Request(pod.inits[j]), Beside(pod, i))[x] = SumOn(q, Beside(pod, i))
  <2> DEFINE B == Beside(pod, i)
             h == [e \in B |-> Request(pod.inits[e])[x]]
  <2>1. DOMAIN h = B /\ \A y \in B : q[y] \in Int /\ h[y] = q[y]
    <3>1. B \subseteq I /\ \A y \in I : q[y] \in Nat
      BY BesideType
    <3>2. \A y \in I : q[y] = Request(pod.inits[y])[x]
      BY DEF Asked
    <3> HIDE DEF q, B
    <3>3. QED
      BY <3>1, <3>2
  <2>2. SumOver(LAMBDA j : Request(pod.inits[j]), B)[x] = SumFunction(h)
    BY DEF SumOver
  <2>3. SumFunction(h) = SumOn(q, B)
    <3>1. IsFiniteSet(B)
      BY BesideType
    <3> HIDE DEF q, h, B
    <3>2. QED
      BY <2>1, <3>1, SumFunctionIs
  <2>4. QED
    BY <2>2, <2>3
<1>6. InitUse(pod).running[x] = late /\ most \in Nat
  BY InitUseSums
<1>7. PodDemand(pod)[x] = Max({most, apps + late}) + pod.overhead[x]
  BY <1>4, <1>6 DEF PodDemand, Join, ++
<1>8. Max({most, apps + late}) = IF most >= apps + late THEN most ELSE apps + late
  BY <1>2, <1>3, <1>6, MaxOfTwo
<1> DEFINE S == {apps + late} \cup {Starting(pod, x, i) : i \in 1..n}
           m == IF most >= apps + late THEN most ELSE apps + late
<1>9. Peak(pod)[x] = Max({apps + late} \cup {Starting(pod, x, i) : i \in 1..n}) + pod.overhead[x]
  <2> DEFINE Left(i) == {j \in I : j < i /\ pod.inits[j].always}
             ToStart(i) == Request(pod.inits[i]) ++ SumOver(LAMBDA j : Request(pod.inits[j]), Left(i))
             Started == SumOver(LAMBDA j : Request(pod.apps[j]), A)
                        ++ SumOver(LAMBDA j : Request(pod.inits[j]), Left(n + 1))
  <2>1. Peak(pod)[x] = Max({Started[x]} \cup {ToStart(i)[x] : i \in I}) + pod.overhead[x]
    BY DEF Peak, ++
  <2>2. \A i : Left(i) = Beside(pod, i)
    BY DEF Beside
  <2>3. Started[x] = apps + late
    BY <1>4, <1>5, <2>2 DEF ++
  <2>4. ASSUME NEW i \in I PROVE ToStart(i)[x] = Starting(pod, x, i)
    BY <1>5, <2>2 DEF ++, Starting, Asked
  <2>5. {ToStart(i)[x] : i \in I} = {Starting(pod, x, i) : i \in 1..n}
    <3> HIDE DEF ToStart, I
    <3> QED BY <1>1, <2>4
  <2>6. QED
    <3> HIDE DEF Started, ToStart
    <3> QED BY <2>1, <2>3, <2>5
<1>10. \A j \in 1..n : Starting(pod, x, j) <= most
  BY InitUseSums
<1>11. most = 0 \/ \E j \in 1..n : most = Starting(pod, x, j)
  BY InitUseSums
<1>12. \A j \in 1..n : Starting(pod, x, j) \in Nat
  BY RequestType, BesideType DEF Starting
<1>13. S \in SUBSET Int /\ m \in S /\ \A y \in S : m >= y
  <2>1. apps + late \in Nat /\ most \in Nat
    BY <1>2, <1>3, <1>6
  <2>2. S \in SUBSET Int
    BY <1>12, <2>1
  <2>3. m \in S
    <3>1. CASE most >= apps + late
      <4>1. CASE most = 0
        BY <2>1, <3>1, <4>1, <1>2, <1>3
      <4>2. CASE \E j \in 1..n : most = Starting(pod, x, j)
        BY <3>1, <4>2
      <4>3. QED
        BY <1>11, <4>1, <4>2
    <3>2. QED
      BY <3>1
  <2>4. m >= apps + late /\ m >= most
    BY <2>1
  <2>5. m \in Nat
    BY <2>1
  <2>6. ASSUME NEW j \in 1..n PROVE m >= Starting(pod, x, j)
    <3> DEFINE st == Starting(pod, x, j)
    <3>1. st \in Nat /\ st <= most
      BY <1>10, <1>12, Zenon
    <3> HIDE DEF m, st
    <3>2. m >= st
      BY <2>1, <2>4, <2>5, <3>1
    <3>3. QED
      BY <3>2 DEF st
  <2>7. QED
    <3> HIDE DEF m
    <3> QED BY <2>2, <2>3, <2>4, <2>6
<1>14. Max(S) = m
  <2> HIDE DEF S, m
  <2> QED BY <1>13, MaxIs
<1>15. pod.overhead[x] \in Nat /\ m \in Nat
  BY <1>2, <1>3, <1>6 DEF PodShape, Demand
<1>16. PodDemand(pod)[x] = m + pod.overhead[x] /\ Peak(pod)[x] = Max(S) + pod.overhead[x]
  BY <1>7, <1>8, <1>9
<1>17. QED
  <2> HIDE DEF S, m
  <2> QED BY <1>14, <1>15, <1>16

(***************************************************************************)
(* The demand of a pod, as l3_pod_demand computes it in one pass over its  *)
(* init containers, is the most the pod ever runs at once: whatever        *)
(* containers it has, restartable or not, in whatever order, and whichever *)
(* of them declare what they ask for.                                      *)
(***************************************************************************)
THEOREM PodDemandIsPeak ==
  ASSUME NEW pod, PodShape(pod)
  PROVE  PodDemand(pod) = Peak(pod) /\ Peak(pod) \in Demand
<1>1. ASSUME NEW x \in Resource PROVE PodDemand(pod)[x] = Peak(pod)[x] /\ Peak(pod)[x] \in Nat
  BY OneIsPeak
<1>2. /\ PodDemand(pod) = [x \in Resource |-> PodDemand(pod)[x]]
      /\ Peak(pod) = [x \in Resource |-> Peak(pod)[x]]
  BY DEF PodDemand, Peak, ++
<1>3. QED
  BY <1>1, <1>2 DEF Demand

-----------------------------------------------------------------------------
(***************************************************************************)
(* A rendered chart: its demand is what its pods come to.                  *)
(***************************************************************************)

\* What a set of pods needs of one resource.
LEMMA PeakOfIs ==
  ASSUME NEW S, IsFiniteSet(S), \A p \in S : PodShape(p.pod), NEW x \in Resource,
         NEW f, \A p \in S : f[p] = Peak(p.pod)[x]
  PROVE  /\ PeakOf(S)[x] = SumOn(f, S)
         /\ \A p \in S : f[p] \in Nat
         /\ PeakOf(S)[x] \in Nat
<1> DEFINE h == [p \in S |-> Peak(p.pod)[x]]
<1>1. PeakOf(S)[x] = SumFunction(h)
  BY DEF PeakOf, SumOver
<1>2. \A p \in S : f[p] \in Nat
  BY PodDemandIsPeak DEF Demand
<1>3. SumFunction(h) = SumOn(f, S)
  <2>1. DOMAIN h = S /\ \A p \in S : f[p] \in Int /\ h[p] = f[p]
    BY <1>2
  <2> HIDE DEF h
  <2>2. QED
    BY <2>1, SumFunctionIs
<1>4. SumOn(f, S) \in Nat
  BY <1>2, SumNat
<1>5. QED
  BY <1>1, <1>2, <1>3, <1>4

\* Workloads that say how many pods they have.
Counts(w) ==
  /\ w \in Seq(Range(w))
  /\ \A k \in DOMAIN w :
       /\ w[k].count \in Int \cup {Missing} /\ PodShape(w[k].pod)
       /\ ReplicaCount(w[k]) # Missing

\* Kubernetes starts as many pods as l3_render_demand counts.
LEMMA ReplicasAreCounted ==
  ASSUME NEW w, Counts(w), NEW k \in DOMAIN w
  PROVE  ReplicaCount(w[k]) \in Nat /\ Replicas(w[k]) = ReplicaCount(w[k])
  BY MissingAssumption DEF Counts, ReplicaCount, Replicas

\* The pods of one workload.
Copies(r, k, pod, n) ==
  {[release |-> r, namespace |-> Target, pod |-> pod, number |-> <<k, i>>, state |-> "unbound"] :
   i \in 1..n}

\* One for each replica.
LEMMA CopiesOfPod ==
  ASSUME NEW r, NEW k, NEW pod, NEW n \in Nat
  PROVE  IsFiniteSet(Copies(r, k, pod, n)) /\ Cardinality(Copies(r, k, pod, n)) = n
<1> DEFINE C == Copies(r, k, pod, n)
           copy(i) == [release |-> r, namespace |-> Target, pod |-> pod, number |-> <<k, i>>,
                       state |-> "unbound"]
           h == [i \in 1..n |-> copy(i)]
<1>1. \A i, j \in 1..n : copy(i) = copy(j) => i = j
  <2>1. SUFFICES ASSUME NEW i \in 1..n, NEW j \in 1..n, copy(i) = copy(j) PROVE i = j
    OBVIOUS
  <2>2. copy(i).number = copy(j).number
    BY <2>1
  <2>3. QED
    BY <2>2
<1>2. C = {copy(i) : i \in 1..n}
  BY DEF Copies
<1>3. h \in Bijection(1..n, C)
  <2> HIDE DEF copy, C
  <2> QED BY <1>1, <1>2 DEF Bijection, Injection, Surjection, IsInjective
<1>4. IsFiniteSet(1..n) /\ Cardinality(1..n) = n
  <2>1. 1 \in Int /\ n \in Int
    OBVIOUS
  <2>2. IsFiniteSet(1..n) /\ Cardinality(1..n) = IF 1 > n THEN 0 ELSE n - 1 + 1
    BY <2>1, FS_Interval
  <2>3. QED
    BY <2>2
<1>5. ExistsBijection(1..n, C)
  BY <1>3 DEF ExistsBijection
<1>6. QED
  BY <1>4, <1>5, FS_Bijection

\* The demand of a chart is that of each workload, times its pods.
LEMMA RenderSums ==
  ASSUME NEW w, Counts(w), NEW x \in Resource,
         NEW c, \A k \in DOMAIN w : c[k] = ReplicaCount(w[k]) * Peak(w[k].pod)[x]
  PROVE  /\ IsFiniteSet(DOMAIN w) /\ \A k \in DOMAIN w : c[k] \in Nat
         /\ RenderDemand(w).demand[x] = SumOn(c, DOMAIN w)
<1> DEFINE D == DOMAIN w
           Counted == {k \in DOMAIN w : ReplicaCount(w[k]) # Missing}
           Times(n, d) == [y \in Resource |-> n * d[y]]
           h == [k \in Counted |-> Times(ReplicaCount(w[k]), PodDemand(w[k].pod))[x]]
<1>1. IsFiniteSet(D)
  <2>1. PICK n \in Nat : D = 1..n
    BY DEF Counts
  <2>2. IsFiniteSet(1..n)
    BY FS_Interval
  <2>3. QED
    BY <2>1, <2>2
<1>2. ASSUME NEW k \in D
      PROVE  c[k] \in Nat /\ Times(ReplicaCount(w[k]), PodDemand(w[k].pod))[x] = c[k]
  <2>1. PodDemand(w[k].pod) = Peak(w[k].pod) /\ Peak(w[k].pod)[x] \in Nat
    BY PodDemandIsPeak DEF Counts, Demand
  <2>2. ReplicaCount(w[k]) \in Nat
    BY ReplicasAreCounted
  <2>3. c[k] = ReplicaCount(w[k]) * Peak(w[k].pod)[x]
    OBVIOUS
  <2>4. Times(ReplicaCount(w[k]), PodDemand(w[k].pod))[x] = ReplicaCount(w[k]) * Peak(w[k].pod)[x]
    BY <2>1
  <2>5. \A a, b \in Nat : a * b \in Nat
    OBVIOUS
  <2>6. QED
    BY <2>1, <2>2, <2>3, <2>4, <2>5
<1>3. Counted = D
  BY DEF Counts
<1>4. RenderDemand(w).demand[x] = SumFunction(h)
  BY DEF RenderDemand, SumOver
<1>5. DOMAIN h = D /\ \A k \in D : c[k] \in Int /\ h[k] = c[k]
  BY <1>2, <1>3
<1>6. SumFunction(h) = SumOn(c, D)
  <2> HIDE DEF h, D
  <2> QED BY <1>1, <1>5, SumFunctionIs
<1>7. QED
  BY <1>1, <1>2, <1>4, <1>6

\* The pods of a release come to what its rendering asks for.
LEMMA ChartPeak ==
  ASSUME NEW w, Counts(w), NEW r, NEW x \in Resource
  PROVE  /\ IsFiniteSet(PodsOf(r, w))
         /\ PeakOf(PodsOf(r, w))[x] = RenderDemand(w).demand[x]
<1> DEFINE D == DOMAIN w
           copy(k, i) == [release |-> r, namespace |-> Target, pod |-> w[k].pod, number |-> <<k, i>>,
                          state |-> "unbound"]
           W == [k \in D |-> {copy(k, i) : i \in 1..ReplicaCount(w[k])}]
           U == PodsOf(r, w)
           f == [p \in U |-> Peak(p.pod)[x]]
           c == [k \in D |-> ReplicaCount(w[k]) * Peak(w[k].pod)[x]]
<1>1. U = UNION {W[k] : k \in D}
  <2>1. \A k \in D : W[k] = {copy(k, i) : i \in 1..Replicas(w[k])}
    BY ReplicasAreCounted
  <2>2. QED
    BY <2>1 DEF PodsOf
<1>2. \A k \in D : \A p \in W[k] : p \in U /\ p.pod = w[k].pod /\ p.number[1] = k
  BY <1>1
<1>3. \A k \in D : Peak(w[k].pod)[x] \in Nat
  BY PodDemandIsPeak DEF Counts, Demand
<1>4. \A k \in D : IsFiniteSet(W[k]) /\ Cardinality(W[k]) = ReplicaCount(w[k])
  <2>1. SUFFICES ASSUME NEW k \in D
                 PROVE  IsFiniteSet(W[k]) /\ Cardinality(W[k]) = ReplicaCount(w[k])
    OBVIOUS
  <2> DEFINE n == ReplicaCount(w[k])
             pod == w[k].pod
  <2>2. n \in Nat
    BY ReplicasAreCounted
  <2>3. W[k] = Copies(r, k, pod, n)
    BY DEF Copies
  <2>4. QED
    <3> HIDE DEF n, pod, W
    <3>1. IsFiniteSet(W[k]) /\ Cardinality(W[k]) = n
      BY <2>2, <2>3, CopiesOfPod
    <3>2. QED
      BY <3>1 DEF n
<1>5. \A k \in D : \A p \in W[k] : f[p] = Peak(w[k].pod)[x]
  BY <1>2
<1>6. \A k \in D : c[k] = SumOn(f, W[k])
  <2>1. SUFFICES ASSUME NEW k \in D PROVE SumOn(f, W[k]) = ReplicaCount(w[k]) * Peak(w[k].pod)[x]
    OBVIOUS
  <2> DEFINE d == Peak(w[k].pod)[x]
  <2>2. d \in Int /\ \A p \in W[k] : f[p] = d
    BY <1>3, <1>5
  <2>3. SumOn(f, W[k]) = Cardinality(W[k]) * d
    <3> HIDE DEF f, W, d
    <3> QED BY <1>4, <2>2, SumOfEqual
  <2>4. QED
    BY <1>4, <2>3
<1>7. \A j, k \in D : j # k => W[j] \cap W[k] = {}
  <2> HIDE DEF W, U
  <2> QED BY <1>2
<1>8. IsFiniteSet(D) /\ RenderDemand(w).demand[x] = SumOn(c, D)
  <2>1. \A k \in D : c[k] = ReplicaCount(w[k]) * Peak(w[k].pod)[x]
    OBVIOUS
  <2> HIDE DEF c
  <2>2. QED
    BY <2>1, RenderSums
<1>9. \A k \in D : \A p \in W[k] : f[p] \in Int
  <2> HIDE DEF W, f
  <2> QED BY <1>3, <1>5
<1>10. IsFiniteSet(U) /\ SumOn(f, U) = SumOn(c, D)
  <2>1. \A p : p \in U <=> \E k \in D : p \in W[k]
    BY <1>1
  <2> HIDE DEF W, f, c, U, D
  <2>2. QED
    BY <1>4, <1>6, <1>7, <1>8, <1>9, <2>1, SumOfGroups
<1>11. \A p \in U : PodShape(p.pod) /\ f[p] = Peak(p.pod)[x]
  <2>1. \A p \in U : \E k \in D : p \in W[k]
    BY <1>1
  <2>2. \A k \in D : PodShape(w[k].pod)
    BY DEF Counts
  <2>3. \A p \in U : f[p] = Peak(p.pod)[x]
    OBVIOUS
  <2> HIDE DEF W, f, U, D
  <2>4. QED
    BY <1>2, <2>1, <2>2, <2>3
<1>12. PeakOf(U)[x] = SumOn(f, U)
  <2> HIDE DEF f, U
  <2> QED BY <1>10, <1>11, PeakOfIs
<1>13. QED
  BY <1>8, <1>10, <1>12

-----------------------------------------------------------------------------
(***************************************************************************)
(* What the operators of a launch return.                                  *)
(***************************************************************************)

\* A list without repetitions tells its members apart.
LEMMA InjectiveColumn ==
  ASSUME NEW f, IsInjective(f), NEW j \in DOMAIN f, NEW k \in DOMAIN f, f[j] = f[k]
  PROVE  j = k
  BY DEF IsInjective

\* The members of a valid topology are told apart by each of their three parts.
LEMMA ValidTellsApart ==
  ASSUME NEW params, Valid(params),
         NEW j \in DOMAIN params.sources, NEW k \in DOMAIN params.sources,
         \/ params.sources[j].id = params.sources[k].id
         \/ params.sources[j].flow.uuid = params.sources[k].flow.uuid
         \/ params.sources[j].pattern = params.sources[k].pattern
  PROVE  j = k
<1>1. CASE params.sources[j].id = params.sources[k].id
  <2> DEFINE f == Column(params, "id")
  <2>1. IsInjective(f) /\ f[j] = f[k] /\ j \in DOMAIN f /\ k \in DOMAIN f
    BY <1>1 DEF Valid, Column
  <2>2. QED
    BY <2>1, InjectiveColumn
<1>2. CASE params.sources[j].flow.uuid = params.sources[k].flow.uuid
  <2> DEFINE f == Uuids(params)
  <2>1. IsInjective(f) /\ f[j] = f[k] /\ j \in DOMAIN f /\ k \in DOMAIN f
    BY <1>2 DEF Valid, Uuids
  <2>2. QED
    BY <2>1, InjectiveColumn
<1>3. CASE params.sources[j].pattern = params.sources[k].pattern
  <2> DEFINE f == Column(params, "pattern")
  <2>1. IsInjective(f) /\ f[j] = f[k] /\ j \in DOMAIN f /\ k \in DOMAIN f
    BY <1>3 DEF Valid, Column
  <2>2. QED
    BY <2>1, InjectiveColumn
<1>4. QED
  BY <1>1, <1>2, <1>3

\* The viewer receives the flow of the one source it selects.
LEMMA ProjectionIsSelected ==
  ASSUME NEW params, Valid(params)
  PROVE  \E k \in DOMAIN params.sources :
           /\ params.sources[k].id = params.selection
           /\ ViewerProjection(params).flow = params.sources[k].flow
           /\ ViewerProjection(params).active = params.selection
<1>1. \E k \in DOMAIN params.sources : params.sources[k].id = params.selection
  BY DEF Valid
<1>2. QED
  BY <1>1 DEF ViewerProjection

\* The releases of a group: one for each source, with its values, none twice and
\* none called like the viewer's.
LEMMA GroupOfSources ==
  ASSUME NEW params, Valid(params), NEW role,
         NEW G, G = ReleaseGroup(params, Scalar(role))
  PROVE  /\ DOMAIN G = DOMAIN params.sources
         /\ \A k \in DOMAIN G :
              /\ G[k].release # Scalar(role)
              /\ G[k].sourceId = params.sources[k].id
              /\ G[k].flow = params.sources[k].flow
              /\ G[k].pattern = params.sources[k].pattern
         /\ \A j, k \in DOMAIN G : G[j].release = G[k].release => j = k
<1>1. /\ DOMAIN G = DOMAIN params.sources
      /\ \A k \in DOMAIN G :
              /\ G[k].release = <<Scalar(role), params.sources[k].id>>
              /\ G[k].sourceId = params.sources[k].id
              /\ G[k].flow = params.sources[k].flow
              /\ G[k].pattern = params.sources[k].pattern
  BY DEF ReleaseGroup
<1>2. \A x, y, z : <<x, y>> # <<z>>
  OBVIOUS
<1>3. \A k \in DOMAIN G : G[k].release # Scalar(role)
  BY <1>1, <1>2 DEF Scalar
<1>4. ASSUME NEW j \in DOMAIN G, NEW k \in DOMAIN G, G[j].release = G[k].release PROVE j = k
  <2>1. params.sources[j].id = params.sources[k].id
    BY <1>1, <1>4
  <2>2. QED
    BY <1>1, <2>1, ValidTellsApart
<1>5. QED
  BY <1>1, <1>3, <1>4

\* The demand of a launch has a budget if that of each release has one.
LEMMA BudgetOfAll ==
  ASSUME NEW rendered
  PROVE  SumDemand(rendered).budgeted <=> \A k \in DOMAIN rendered : rendered[k].budgeted
  BY DEF SumDemand

\* A rendered chart with a budget has workloads, and each says what it asks for.
LEMMA BudgetedChart ==
  ASSUME NEW chart, RenderDemand(chart).budgeted
  PROVE  /\ chart # <<>>
         /\ \A k \in DOMAIN chart : ReplicaCount(chart[k]) # Missing /\ Budgeted(chart[k].pod)
  BY DEF RenderDemand

-----------------------------------------------------------------------------
(***************************************************************************)
(* The inductive invariant: what a launch knows at each stage.             *)
(***************************************************************************)

\* A launch under way has inputs.
InputOK ==
  stage # "ready" =>
    plan.role \in Role /\ plan.params \in Params \cup {NoParams} /\ plan.chart \in Charts

\* Past the topology gate, the group is that of a valid topology.
GroupOK ==
  stage \in {"capacity", "render", "select", "install"} =>
    /\ Agreed
    /\ group = IF HasTopology THEN ReleaseGroup(plan.params, Scalar(plan.role)) ELSE <<>>

\* Every chart that the launch installs has a budget.
Budgets ==
  /\ RenderDemand(plan.chart[plan.role]).budgeted
  /\ group # <<>> => RenderDemand(plan.chart["source"]).budgeted

\* Past the capacity gate, it was judged.
JudgedOK == stage \in {"select", "install"} => plan.override \/ Budgets

\* Something is selected when a topology is installed.
SelectedOK == stage = "install" /\ HasTopology => active # NoSource

\* A release is installed as planned, or still to be.
InstalledOK ==
  stage = "install" =>
    /\ todo \in Seq(Releases)
    /\ \A r \in Releases :
         \/ \E k \in DOMAIN todo : todo[k] = r
         \/ r \in DOMAIN deployed /\ deployed[r] = ValuesOf(r)

PlanInv == InputOK /\ GroupOK /\ JudgedOK /\ SelectedOK /\ InstalledOK

\* A group is a list.
LEMMA GroupIsList ==
  ASSUME InputOK, GroupOK, stage \in {"capacity", "render", "select", "install"}
  PROVE  /\ \E n \in Nat : DOMAIN group = 1..n /\ group = [k \in 1..n |-> group[k]]
         /\ group # <<>> => HasTopology
<1>1. CASE ~HasTopology
  <2>1. group = <<>>
    BY <1>1 DEF GroupOK
  <2>2. DOMAIN group = 1..0 /\ group = [k \in 1..0 |-> group[k]]
    BY <2>1
  <2>3. QED
    BY <2>1, <2>2
<1>2. CASE HasTopology
  <2>1. plan.params.sources \in Seq(Range(plan.params.sources))
    BY <1>2, InputAssumption DEF InputOK, HasTopology
  <2>2. PICK n \in Nat : DOMAIN plan.params.sources = 1..n
    BY <2>1
  <2>3. DOMAIN group = 1..n /\ group = [k \in 1..n |-> group[k]]
    BY <1>2, <2>2 DEF GroupOK, ReleaseGroup
  <2>4. QED
    BY <1>2, <2>2, <2>3
<1>3. QED
  BY <1>1, <1>2

\* One before the copies of another.
LEMMA OneAndCopies ==
  ASSUME NEW x, NEW y, NEW n \in Nat
  PROVE  /\ DOMAIN (<<x>> \o [k \in 1..n |-> y]) = 1..(n + 1)
         /\ \A k \in 1..(n + 1) : (<<x>> \o [j \in 1..n |-> y])[k] = IF k = 1 THEN x ELSE y
<1> DEFINE S == {x, y}
           t == [k \in 1..n |-> y]
<1>1. <<x>> \in Seq(S) /\ t \in Seq(S) /\ Len(<<x>>) = 1 /\ Len(t) = n
  OBVIOUS
<1>2. QED
  BY <1>1

\* The demand of a launch has a budget if those of its two renderings have one.
LEMMA RunBudget ==
  ASSUME InputOK, GroupOK, stage \in {"render", "select", "install"}
  PROVE  RunDemand.budgeted <=> Budgets
<1> DEFINE x == RenderDemand(plan.chart[plan.role])
           y == RenderDemand(plan.chart["source"])
<1>1. PICK n \in Nat : DOMAIN group = 1..n /\ group = [k \in 1..n |-> group[k]]
  BY GroupIsList
<1> DEFINE all == <<x>> \o [k \in 1..n |-> y]
<1>2. RunDemand = SumDemand(all)
  BY <1>1, Zenon DEF RunDemand
<1>3. RunDemand.budgeted <=> \A k \in DOMAIN all : all[k].budgeted
  BY <1>2, BudgetOfAll
<1>4. Budgets <=> x.budgeted /\ (n > 0 => y.budgeted)
  <2>1. group # <<>> <=> n > 0
    BY <1>1
  <2>2. QED
    BY <2>1 DEF Budgets
<1> HIDE DEF x, y
<1>5. DOMAIN all = 1..(n + 1) /\ \A k \in 1..(n + 1) : all[k] = IF k = 1 THEN x ELSE y
  BY OneAndCopies
<1> HIDE DEF all
<1>6. QED
  BY <1>3, <1>4, <1>5

-----------------------------------------------------------------------------
(***************************************************************************)
(* Every stage of the launch keeps it.                                     *)
(***************************************************************************)

\* What follows from the inputs and the group stays while they do.
LEMMA PlanStays ==
  ASSUME UNCHANGED <<plan, group>>
  PROVE  /\ (HasTopology' <=> HasTopology) /\ (Agreed' <=> Agreed) /\ (Budgets' <=> Budgets)
         /\ Releases' = Releases /\ \A r : ValuesOf(r)' = ValuesOf(r)
<1>1. (HasTopology' <=> HasTopology) /\ (Agreed' <=> Agreed)
  BY DEF HasTopology, Agreed
<1>2. Budgets' <=> Budgets
  BY DEF Budgets
<1>3. Releases' = Releases
  BY DEF Releases
<1>4. ASSUME NEW r PROVE ValuesOf(r)' = ValuesOf(r)
  BY DEF ValuesOf, HasTopology
<1>5. QED
  BY <1>1, <1>2, <1>3, <1>4

\* A step that leaves the launch alone.
LEMMA StageStays ==
  ASSUME PlanInv, UNCHANGED <<active, deployed, stage, plan, group, todo>>
  PROVE  PlanInv'
<1>1. InputOK' /\ GroupOK'
  BY PlanStays DEF PlanInv, InputOK, GroupOK
<1>2. JudgedOK' /\ SelectedOK'
  BY PlanStays DEF PlanInv, JudgedOK, SelectedOK
<1>3. InstalledOK'
  BY PlanStays DEF PlanInv, InstalledOK
<1>4. QED
  BY <1>1, <1>2, <1>3 DEF PlanInv

\* A release after the other is installed.
LEMMA InstallStep ==
  ASSUME PlanInv, Install
  PROVE  InstalledOK'
<1>1. /\ stage = "install" /\ todo # <<>> /\ todo' = Tail(todo) /\ todo \in Seq(Releases)
      /\ UNCHANGED <<stage, plan, group>>
      /\ \A r \in Releases : \/ \E k \in DOMAIN todo : todo[k] = r
                             \/ r \in DOMAIN deployed /\ deployed[r] = ValuesOf(r)
  BY DEF Install, PlanInv, InstalledOK
<1> DEFINE h == Head(todo)
<1>2. todo' \in Seq(Releases) /\ h \in Releases
  BY <1>1
<1>3. /\ h \in DOMAIN deployed' /\ deployed'[h] = ValuesOf(h)
      /\ \A q \in DOMAIN deployed : q # h => q \in DOMAIN deployed' /\ deployed'[q] = deployed[q]
  BY DEF Install
<1>4. ASSUME NEW k \in DOMAIN todo, todo[k] # h PROVE \E j \in DOMAIN todo' : todo'[j] = todo[k]
  <2>1. k \in 1..Len(todo) /\ k # 1
    BY <1>1, <1>4
  <2>2. k - 1 \in DOMAIN Tail(todo) /\ Tail(todo)[k - 1] = todo[k]
    BY <1>1, <2>1
  <2>3. QED
    BY <1>1, <2>2
<1>5. Releases' = Releases /\ \A r : ValuesOf(r)' = ValuesOf(r)
  BY <1>1, PlanStays
<1>6. ASSUME NEW r \in Releases
      PROVE  \/ \E k \in DOMAIN todo' : todo'[k] = r
             \/ r \in DOMAIN deployed' /\ deployed'[r] = ValuesOf(r)
  <2> HIDE DEF h
  <2>1. CASE r = h
    BY <1>3, <2>1
  <2>2. CASE r # h
    BY <1>1, <1>3, <1>4, <2>2
  <2>3. QED
    BY <2>1, <2>2
<1>7. QED
  BY <1>2, <1>5, <1>6 DEF InstalledOK

\* All the releases of a launch are to be installed.
LEMMA SelectStep ==
  ASSUME PlanInv, Select
  PROVE  InstalledOK' /\ SelectedOK'
<1>1. /\ stage = "select" /\ UNCHANGED <<plan, group>>
      /\ todo' = <<Scalar(plan.role)>> \o [k \in DOMAIN group |-> group[k].release]
      /\ active' = IF active = NoSource THEN Candidate ELSE active
  BY DEF Select
<1>2. PICK n \in Nat : DOMAIN group = 1..n
  BY <1>1, GroupIsList DEF PlanInv
<1> DEFINE rest == [k \in DOMAIN group |-> group[k].release]
<1>3. Releases = {Scalar(plan.role)} \cup {group[k].release : k \in DOMAIN group}
  BY DEF Releases
<1>4. /\ <<Scalar(plan.role)>> \in Seq(Releases) /\ rest \in Seq(Releases)
      /\ Len(rest) = n /\ \A k \in DOMAIN group : rest[k] = group[k].release
  BY <1>2, <1>3
<1> HIDE DEF rest
<1>5. /\ todo' \in Seq(Releases) /\ todo'[1] = Scalar(plan.role) /\ 1 \in DOMAIN todo'
      /\ \A k \in DOMAIN group : k + 1 \in DOMAIN todo' /\ todo'[k + 1] = group[k].release
  BY <1>1, <1>2, <1>4 DEF rest
<1>6. ASSUME NEW r \in Releases PROVE \E k \in DOMAIN todo' : todo'[k] = r
  BY <1>3, <1>5
<1>7. InstalledOK'
  BY <1>1, <1>5, <1>6, PlanStays DEF InstalledOK
<1>8. HasTopology => active' # NoSource
  BY <1>1, InputAssumption DEF PlanInv, InputOK, HasTopology, Candidate, ViewerProjection
<1>9. QED
  BY <1>1, <1>7, <1>8, PlanStays DEF SelectedOK

\* Only what has a budget, or an override, gets past the capacity gate.
LEMMA AdmitStep ==
  ASSUME PlanInv, Admit
  PROVE  JudgedOK'
<1>1. stage = "render" /\ UNCHANGED <<plan, group>> /\ (RunDemand.budgeted \/ plan.override)
  BY DEF Admit, MissingBudget, facts
<1>2. RunDemand.budgeted <=> Budgets
  BY <1>1, RunBudget DEF PlanInv
<1>3. QED
  BY <1>1, <1>2, PlanStays DEF JudgedOK

\* The invariant is inductive.
LEMMA PlanStep == ASSUME PlanInv, [PlanNext]_planVars PROVE PlanInv'
<1>1. CASE Start
  BY <1>1 DEF Start, PlanInv, InputOK, GroupOK, JudgedOK, SelectedOK, InstalledOK
<1>2. CASE TopologyRefuses \/ GateRefuses \/ Finish
  BY <1>2 DEF TopologyRefuses, GateRefuses, Finish, Ends, PlanInv, InputOK, GroupOK, JudgedOK,
       SelectedOK, InstalledOK
<1>3. CASE Derive
  <2>1. /\ stage = "topology" /\ stage' = "capacity" /\ plan' = plan /\ Agreed
        /\ group' = IF HasTopology THEN ReleaseGroup(plan.params, Scalar(plan.role)) ELSE <<>>
    BY <1>3 DEF Derive
  <2>2. Agreed' /\ (HasTopology' <=> HasTopology)
    BY <2>1 DEF Agreed, HasTopology
  <2>3. QED
    BY <2>1, <2>2 DEF PlanInv, InputOK, GroupOK, JudgedOK, SelectedOK, InstalledOK
<1>4. CASE ListPods
  <2>1. stage = "capacity" /\ stage' = "render" /\ UNCHANGED <<plan, group>>
    BY <1>4 DEF ListPods
  <2>2. QED
    BY <2>1, PlanStays DEF PlanInv, InputOK, GroupOK, JudgedOK, SelectedOK, InstalledOK
<1>5. CASE Admit
  <2>1. stage = "render" /\ stage' = "select" /\ UNCHANGED <<plan, group>>
    BY <1>5 DEF Admit, facts
  <2>2. QED
    BY <1>5, <2>1, PlanStays, AdmitStep DEF PlanInv, InputOK, GroupOK, SelectedOK, InstalledOK
<1>6. CASE Select
  <2>1. stage = "select" /\ stage' = "install" /\ UNCHANGED <<plan, group>>
    BY <1>6 DEF Select
  <2>2. QED
    BY <1>6, <2>1, PlanStays, SelectStep DEF PlanInv, InputOK, GroupOK, JudgedOK
<1>7. CASE Install
  <2>1. stage = "install" /\ UNCHANGED <<stage, plan, group, active>>
    BY <1>7 DEF Install
  <2>2. QED
    BY <1>7, <2>1, PlanStays, InstallStep DEF PlanInv, InputOK, GroupOK, JudgedOK, SelectedOK
<1>8. CASE Bind \/ OthersChange \/ UNCHANGED planVars
  BY <1>8, StageStays DEF Bind, OthersChange, planVars, facts
<1>9. QED
  BY <1>1, <1>2, <1>3, <1>4, <1>5, <1>6, <1>7, <1>8 DEF PlanNext

\* It always holds.
LEMMA PlanAlways == PlanSpec => []PlanInv
<1>1. PlanInit => PlanInv
  BY DEF PlanInit, PlanInv, InputOK, GroupOK, JudgedOK, SelectedOK, InstalledOK
<1>2. QED
  BY <1>1, PlanStep, PTL DEF PlanSpec

-----------------------------------------------------------------------------
(***************************************************************************)
(* What is installed.                                                      *)
(***************************************************************************)

\* A rendering that says how many pods each workload has and what each asks for.
Declares(w) ==
  /\ w # <<>>
  /\ \A k \in DOMAIN w :
       /\ w[k].kind \in {"DaemonSet", "Pod"} \/ (w[k].count # Missing /\ w[k].count >= 0)
       /\ \A c \in ToSet(w[k].pod.apps) \cup ToSet(w[k].pod.inits) : HasBoth(c)

\* One with a budget does.
LEMMA BudgetedIsDeclared ==
  ASSUME NEW chart \in Charts, NEW role \in Role, NEW w, w = chart[role], RenderDemand(w).budgeted
  PROVE  Declares(w)
<1>1. w # <<>> /\ \A k \in DOMAIN w : ReplicaCount(w[k]) # Missing /\ Budgeted(w[k].pod)
  BY BudgetedChart
<1>2. ASSUME NEW k \in DOMAIN w
      PROVE  w[k].kind \in {"DaemonSet", "Pod"} \/ (w[k].count # Missing /\ w[k].count >= 0)
  <2>1. w[k].count \in Int \cup {Missing}
    BY InputAssumption
  <2>2. ReplicaCount(w[k]) # Missing
    BY <1>1
  <2>3. QED
    BY <2>1, <2>2 DEF ReplicaCount
<1>3. \A k \in DOMAIN w : \A c \in ToSet(w[k].pod.apps) \cup ToSet(w[k].pod.inits) : HasBoth(c)
  BY <1>1 DEF Budgeted
<1>4. QED
  BY <1>1, <1>2, <1>3 DEF Declares

\* A viewer of a topology receives the flow that it selects.
LEMMA ViewerValues ==
  ASSUME HasTopology
  PROVE  ValuesOf(Scalar(plan.role)).flow = ViewerProjection(plan.params).flow
  BY DEF ValuesOf

\* A release of the group is rendered as a source.
LEMMA WorkloadsOf ==
  ASSUME NEW r
  PROVE  ValuesOf(r).workloads
           = IF r = Scalar(plan.role) THEN plan.chart[plan.role] ELSE plan.chart["source"]
  BY DEF ValuesOf

(***************************************************************************)
(* Nothing whose demand is not declared, in any release of the launch, is  *)
(* installed without an override (capacity.yml, l3_render_demand,          *)
(* l3_sum_demand).                                                         *)
(***************************************************************************)
THEOREM UnbudgetedIsRefused == PlanSpec => []UnbudgetedNeedsOverride
<1>1. ASSUME PlanInv, stage = "install", ~plan.override PROVE Declared
  <2>1. Budgets /\ plan.chart \in Charts /\ plan.role \in Role /\ "source" \in Role
    BY <1>1 DEF PlanInv, InputOK, JudgedOK, Role
  <2>2. SUFFICES ASSUME NEW r \in Releases, NEW w, w = ValuesOf(r).workloads
                 PROVE  Declares(w)
    BY DEF Declared, Declares
  <2>3. CASE r = Scalar(plan.role)
    <3>1. w = plan.chart[plan.role]
      BY <2>2, <2>3, WorkloadsOf
    <3>2. RenderDemand(w).budgeted
      BY <2>1, <3>1 DEF Budgets
    <3>3. QED
      BY <2>1, <3>1, <3>2, BudgetedIsDeclared
  <2>4. CASE r # Scalar(plan.role)
    <3>1. w = plan.chart["source"]
      BY <2>2, <2>4, WorkloadsOf
    <3>2. group # <<>>
      BY <2>4 DEF Releases
    <3>3. RenderDemand(w).budgeted
      BY <2>1, <3>1, <3>2 DEF Budgets
    <3>4. QED
      BY <2>1, <3>1, <3>3, BudgetedIsDeclared
  <2>5. QED
    BY <2>3, <2>4
<1>2. PlanInv => UnbudgetedNeedsOverride
  BY <1>1 DEF UnbudgetedNeedsOverride
<1>3. QED
  BY <1>2, PlanAlways, PTL

(***************************************************************************)
(* A topology that was installed can be played: something is selected, and *)
(* if it is what the launch asked for, exactly one source of the launch    *)
(* sends the flow that the viewer receives, it is the selected one, and    *)
(* its picture differs from that of every other                            *)
(* (l3_validate_topology_params, l3_topology_release_group,                *)
(* l3_topology_viewer_projection).                                         *)
(***************************************************************************)
THEOREM InstalledTopologyPlays == PlanSpec => []TopologyIsPlayable
<1>1. ASSUME PlanInv, Installed, HasTopology
      PROVE  TopologyIsPlayable
  <2> DEFINE params == plan.params
             viewer == Scalar(plan.role)
             Sources == Releases \ {viewer}
             Sends(r) == deployed[r].flow.uuid = deployed[viewer].flow.uuid
  <2>1. /\ stage = "install" /\ Valid(params) /\ group = ReleaseGroup(params, viewer)
        /\ active # NoSource /\ \A r \in Releases : deployed[r] = ValuesOf(r)
    BY <1>1 DEF Installed, PlanInv, GroupOK, Agreed, SelectedOK, InstalledOK
  <2>2. /\ DOMAIN group = DOMAIN params.sources
        /\ \A k \in DOMAIN group :
              /\ group[k].release # viewer /\ group[k].sourceId = params.sources[k].id
              /\ group[k].flow = params.sources[k].flow
              /\ group[k].pattern = params.sources[k].pattern
        /\ \A j, k \in DOMAIN group : group[j].release = group[k].release => j = k
    BY <2>1, GroupOfSources
  <2>3. viewer \in Releases /\ Sources = {group[k].release : k \in DOMAIN group}
    BY <2>2 DEF Releases
  <2>4. PICK k \in DOMAIN params.sources :
          params.sources[k].id = params.selection
          /\ deployed[viewer].flow = params.sources[k].flow
    <3>1. deployed[viewer].flow = ViewerProjection(params).flow
      BY <1>1, <2>1, <2>3, ViewerValues
    <3>2. QED
      BY <2>1, <3>1, ProjectionIsSelected
  <2>5. ASSUME NEW j \in DOMAIN group
        PROVE  /\ deployed[group[j].release].sourceId = params.sources[j].id
               /\ deployed[group[j].release].flow = params.sources[j].flow
               /\ deployed[group[j].release].pattern = params.sources[j].pattern
    <3>1. deployed[group[j].release] = ValuesOf(group[j].release) /\ group[j].release # viewer
      BY <2>1, <2>2, <2>3
    <3>2. (CHOOSE i \in DOMAIN group : group[i].release = group[j].release) = j
      BY <2>2
    <3>3. ValuesOf(group[j].release)
            = [role |-> "source", workloads |-> plan.chart["source"], pattern |-> group[j].pattern,
               sourceId |-> group[j].sourceId, flow |-> group[j].flow]
      BY <3>1, <3>2, Zenon DEF ValuesOf
    <3>4. QED
      BY <2>2, <3>1, <3>3
  <2>6. \A j \in DOMAIN group : (Sends(group[j].release) <=> j = k)
    BY <2>1, <2>2, <2>4, <2>5, ValidTellsApart
  <2>7. \A j \in DOMAIN group : j # k =>
          deployed[group[j].release].pattern # deployed[group[k].release].pattern
    BY <2>1, <2>2, <2>4, <2>5, ValidTellsApart
  <2>8. ASSUME active = params.selection
        PROVE  \E r \in Sources :
              /\ deployed[r].sourceId = active
              /\ {q \in Sources : Sends(q)} = {r}
              /\ \A q \in Sources \ {r} : deployed[q].pattern # deployed[r].pattern
    <3>1. k \in DOMAIN group /\ group[k].release \in Sources
      BY <2>2, <2>3, <2>4
    <3>2. deployed[group[k].release].sourceId = active
      BY <2>4, <2>5, <2>8, <3>1
    <3>3. {q \in Sources : Sends(q)} = {group[k].release}
      BY <2>3, <2>6, <3>1
    <3>4. \A q \in Sources \ {group[k].release} :
             deployed[q].pattern # deployed[group[k].release].pattern
      BY <2>3, <2>7, <3>1
    <3>5. QED
      BY <3>1, <3>2, <3>3, <3>4
  <2>9. QED
    BY <2>1, <2>8 DEF TopologyIsPlayable
<1>2. PlanInv => TopologyIsPlayable
  BY <1>1 DEF TopologyIsPlayable
<1>3. QED
  BY <1>2, PlanAlways, PTL

-----------------------------------------------------------------------------
(***************************************************************************)
(* A launch: its demand is what the pods of its releases come to.          *)
(***************************************************************************)

\* The pods of a release are its own, and wait for a node.
LEMMA PodsOfType ==
  ASSUME NEW w, \A k \in DOMAIN w : PodShape(w[k].pod), NEW r, NEW p \in PodsOf(r, w)
  PROVE  /\ p.release = r /\ p.namespace = Target /\ p.state = "unbound"
         /\ PodShape(p.pod) /\ p = InState(p, "unbound")
<1>1. PICK k \in DOMAIN w : \E i \in 1..Replicas(w[k]) :
        p = [release |-> r, namespace |-> Target, pod |-> w[k].pod, number |-> <<k, i>>,
             state |-> "unbound"]
  BY DEF PodsOf
<1>2. QED
  BY <1>1 DEF InState

\* A chart is rendered to what Kubernetes takes; with a budget, its pods are counted.
LEMMA ChartCounts ==
  ASSUME NEW chart \in Charts, NEW role \in Role, NEW w, w = chart[role]
  PROVE  /\ \A k \in DOMAIN w : PodShape(w[k].pod)
         /\ RenderDemand(w).budgeted => Counts(w)
<1>1. \A k \in DOMAIN w : PodShape(w[k].pod)
  BY InputAssumption
<1>2. ASSUME RenderDemand(w).budgeted PROVE Counts(w)
  BY <1>2, BudgetedChart, InputAssumption DEF Counts
<1>3. QED
  BY <1>1, <1>2

\* The releases of a launch, in the order of its renderings.
LEMMA ReleasesInOrder ==
  ASSUME InputOK, GroupOK, stage \in {"render", "select", "install"},
         NEW n \in Nat, DOMAIN group = 1..n,
         NEW rel, rel = [k \in 1..(n + 1) |-> IF k = 1 THEN Scalar(plan.role) ELSE group[k - 1].release]
  PROVE  /\ \A r : r \in Releases <=> \E k \in 1..(n + 1) : r = rel[k]
         /\ \A j, k \in 1..(n + 1) : rel[j] = rel[k] => j = k
         /\ \A k \in 1..(n + 1) : k = 1 <=> rel[k] = Scalar(plan.role)
<1>1. ASSUME NEW j \in 1..n PROVE j + 1 \in 1..(n + 1) /\ j + 1 # 1 /\ (j + 1) - 1 = j
  BY <1>1
<1>2. \A r : r \in Releases <=> \E k \in 1..(n + 1) : r = rel[k]
  <2>1. \A r : r \in Releases <=> r = Scalar(plan.role) \/ \E j \in 1..n : r = group[j].release
    BY DEF Releases
  <2>2. ASSUME NEW k \in 1..(n + 1), k # 1 PROVE k - 1 \in 1..n
    BY <2>2
  <2>3. \A j \in 1..n : rel[j + 1] = group[j].release /\ j + 1 \in 1..(n + 1)
    BY <1>1
  <2>4. rel[1] = Scalar(plan.role) /\ 1 \in 1..(n + 1)
    OBVIOUS
  <2>5. \A k \in 1..(n + 1) : k # 1 => rel[k] = group[k - 1].release /\ k - 1 \in 1..n
    BY <2>2
  <2>6. ASSUME NEW k \in 1..(n + 1) PROVE rel[k] \in Releases
    BY <2>1, <2>4, <2>5
  <2>7. \A r \in Releases : \E k \in 1..(n + 1) : r = rel[k]
    <3>1. SUFFICES ASSUME NEW r \in Releases PROVE \E k \in 1..(n + 1) : r = rel[k]
      OBVIOUS
    <3>2. CASE r = Scalar(plan.role)
      BY <2>4, <3>2
    <3>3. CASE r # Scalar(plan.role)
      <4>1. PICK j \in 1..n : r = group[j].release
        BY <2>1, <3>3
      <4>2. QED
        BY <2>3, <4>1
    <3>4. QED
      BY <3>2, <3>3
  <2>8. QED
    BY <2>6, <2>7
<1>3. /\ \A j \in 1..n : group[j].release # Scalar(plan.role)
      /\ \A i, j \in 1..n : group[i].release = group[j].release => i = j
  <2>1. CASE HasTopology
    <3>1. Valid(plan.params) /\ group = ReleaseGroup(plan.params, Scalar(plan.role))
      BY <2>1 DEF GroupOK, Agreed
    <3>2. QED
      BY <3>1, GroupOfSources
  <2>2. CASE ~HasTopology
    <3>1. 1..n = {}
      BY <2>2 DEF GroupOK
    <3>2. QED
      BY <3>1
  <2>3. QED
    BY <2>1, <2>2
<1>4. \A k \in 1..(n + 1) : k # 1 => k - 1 \in 1..n
  OBVIOUS
<1>5. \A k \in 1..(n + 1) : k = 1 <=> rel[k] = Scalar(plan.role)
  BY <1>3, <1>4
<1>6. ASSUME NEW j \in 1..(n + 1), NEW k \in 1..(n + 1), rel[j] = rel[k] PROVE j = k
  <2>1. CASE j = 1 \/ k = 1
    BY <1>5, <1>6, <2>1
  <2>2. CASE j # 1 /\ k # 1
    <3>1. j - 1 = k - 1
      <4>1. rel[j] = group[j - 1].release /\ rel[k] = group[k - 1].release
        BY <2>2
      <4>2. QED
        BY <1>3, <1>4, <1>6, <2>2, <4>1
    <3>2. QED
      BY <3>1
  <2>3. QED
    BY <2>1, <2>2
<1>7. QED
  BY <1>2, <1>5, <1>6

\* The pods of a launch come to its demand.
LEMMA LaunchPeak ==
  ASSUME InputOK, GroupOK, stage \in {"render", "select", "install"},
         \A r \in Releases : Counts(ValuesOf(r).workloads), NEW x \in Resource
  PROVE  /\ IsFiniteSet(Wanted) /\ \A p \in Wanted : PodShape(p.pod) /\ p.state = "unbound"
         /\ PeakOf(Wanted)[x] = RunDemand.demand[x]
         /\ PeakOf(Wanted)[x] \in Nat
<1>1. PICK n \in Nat : DOMAIN group = 1..n /\ group = [k \in 1..n |-> group[k]]
  BY GroupIsList
<1> DEFINE D == 1..(n + 1)
           a == RenderDemand(plan.chart[plan.role])
           b == RenderDemand(plan.chart["source"])
           all == <<a>> \o [k \in 1..n |-> b]
           rel == [k \in D |-> IF k = 1 THEN Scalar(plan.role) ELSE group[k - 1].release]
           W == [k \in D |-> PodsOf(rel[k], ValuesOf(rel[k]).workloads)]
           f == [p \in Wanted |-> Peak(p.pod)[x]]
           c == [k \in D |-> all[k].demand[x]]
<1>2. /\ \A r : r \in Releases <=> \E k \in D : r = rel[k]
      /\ \A j, k \in D : rel[j] = rel[k] => j = k
      /\ \A k \in D : k = 1 <=> rel[k] = Scalar(plan.role)
  BY <1>1, ReleasesInOrder
<1>3. DOMAIN all = D /\ \A k \in D : all[k] = IF k = 1 THEN a ELSE b
  <2> HIDE DEF a, b
  <2> QED BY OneAndCopies
<1>4. \A k \in D : Counts(ValuesOf(rel[k]).workloads)
  <2> HIDE DEF D, rel
  <2> QED BY <1>2
<1>5. \A k \in D : all[k] = RenderDemand(ValuesOf(rel[k]).workloads)
  <2> HIDE DEF D, rel, all
  <2> QED BY <1>2, <1>3, WorkloadsOf DEF a, b
<1>6. IsFiniteSet(D)
  <2>1. 1 \in Int /\ n + 1 \in Int
    BY <1>1
  <2>2. QED
    BY <2>1, FS_Interval
<1>7. \A p : p \in Wanted <=> \E k \in D : p \in W[k]
  <2>1. \A p : p \in Wanted <=> \E r \in Releases : p \in PodsOf(r, ValuesOf(r).workloads)
    BY DEF Wanted
  <2>2. \A k \in D : W[k] = PodsOf(rel[k], ValuesOf(rel[k]).workloads)
    OBVIOUS
  <2> HIDE DEF D, rel, W
  <2>3. QED
    BY <1>2, <2>1, <2>2
<1>8. ASSUME NEW k \in D
      PROVE  /\ IsFiniteSet(W[k]) /\ PeakOf(W[k])[x] = all[k].demand[x]
             /\ \A p \in W[k] : p.release = rel[k] /\ PodShape(p.pod) /\ p.state = "unbound"
  <2> DEFINE w == ValuesOf(rel[k]).workloads
             r == rel[k]
  <2>1. Counts(w) /\ all[k] = RenderDemand(w) /\ W[k] = PodsOf(r, w)
    BY <1>4, <1>5
  <2> HIDE DEF w, r, W, all
  <2>2. IsFiniteSet(W[k]) /\ PeakOf(W[k])[x] = all[k].demand[x]
    BY <2>1, ChartPeak
  <2>3. \A p \in W[k] : p.release = r /\ PodShape(p.pod) /\ p.state = "unbound"
    BY <2>1, PodsOfType DEF Counts
  <2>4. QED
    BY <2>2, <2>3 DEF r
<1>9. \A k \in D : \A p \in W[k] : f[p] = Peak(p.pod)[x]
  <2> HIDE DEF W
  <2> QED BY <1>7
<1>10. ASSUME NEW k \in D PROVE c[k] = SumOn(f, W[k]) /\ \A p \in W[k] : f[p] \in Int
  <2>1. c[k] = all[k].demand[x]
    OBVIOUS
  <2> HIDE DEF W, f, c, all
  <2>2. PeakOf(W[k])[x] = SumOn(f, W[k]) /\ \A p \in W[k] : f[p] \in Nat
    BY <1>8, <1>9, PeakOfIs
  <2>3. QED
    BY <1>8, <2>1, <2>2
<1>11. \A j, k \in D : j # k => W[j] \cap W[k] = {}
  <2> HIDE DEF W, D, rel
  <2> QED BY <1>2, <1>8
<1>12. IsFiniteSet(Wanted) /\ SumOn(f, Wanted) = SumOn(c, D)
  <2>1. /\ \A k \in D : IsFiniteSet(W[k])
        /\ \A k \in D : \A p \in W[k] : f[p] \in Int
        /\ \A k \in D : c[k] = SumOn(f, W[k])
    <3> HIDE DEF W, D, f, c
    <3> QED BY <1>8, <1>10
  <2> HIDE DEF W, D, f, c, a, b, all, rel
  <2>2. QED
    BY <1>6, <1>7, <1>11, <2>1, SumOfGroups
<1>13. \A p \in Wanted : PodShape(p.pod) /\ p.state = "unbound"
  <2> HIDE DEF W, D, f, c
  <2> QED BY <1>7, <1>8
<1>14. PeakOf(Wanted)[x] = SumOn(f, Wanted) /\ PeakOf(Wanted)[x] \in Nat
  <2>1. \A p \in Wanted : f[p] = Peak(p.pod)[x]
    OBVIOUS
  <2> HIDE DEF f
  <2>2. QED
    BY <1>12, <1>13, <2>1, PeakOfIs
<1>15. RunDemand.demand[x] = SumOn(c, D)
  <2>1. RunDemand = SumDemand(all)
    BY <1>1, Zenon DEF RunDemand
  <2> DEFINE h == [e \in DOMAIN all |-> all[e].demand[x]]
  <2>2. RunDemand.demand[x] = SumFunction(h)
    <3> HIDE DEF all
    <3> QED BY <2>1 DEF SumDemand, SumOver
  <2>3. DOMAIN h = D /\ \A k \in D : h[k] = c[k]
    <3> HIDE DEF all, D
    <3> QED BY <1>3
  <2>4. \A k \in D : c[k] \in Int
    <3> HIDE DEF c, W, f
    <3> QED BY <1>8, <1>10, SumType
  <2>5. QED
    <3> HIDE DEF h, c, D
    <3> QED BY <1>6, <2>2, <2>3, <2>4, SumFunctionIs
<1>16. QED
  BY <1>12, <1>13, <1>14, <1>15

-----------------------------------------------------------------------------
(***************************************************************************)
(* The node: what is on it, for the launch and for others.                 *)
(***************************************************************************)

\* The cluster holds pods of others, and pods of what a launch may install.
OfOthers(p) == \E q \in Others : p = InState(q, p.state)
OfLaunch(p) == p.namespace = Target /\ p.release \in MayInstall

PodsOK ==
  /\ IsFiniteSet(pods)
  /\ \A p \in pods :
       /\ p = InState(p, p.state) /\ p.state \in {"unbound", "bound", "finished"}
       /\ PodShape(p.pod)
       /\ OfOthers(p) \/ OfLaunch(p)

\* As long as no pod of others changed, what was summed up is on the node.
ListedOK ==
  calm => /\ stage \in {"render", "select", "install"}
          /\ existing = Existing(pods, Releases, Target)

\* A launch past the capacity gate has an override, or fits by its sums.
ReserveOK == stage # "ready" => plan.reserve \in Reserves
FittedOK == stage \in {"select", "install"} => plan.override \/ (~Raises /\ FitsNow)

\* The live pods of a deployed release are among those it was deployed with.
Placed(r) == {p \in pods : p.release = r /\ p.namespace = Target /\ p.state # "finished"}
DeployedOK ==
  \A r \in DOMAIN deployed :
    /\ r \in MayInstall
    /\ \A p \in Placed(r) : InState(p, "unbound") \in PodsOf(r, deployed[r].workloads)
    /\ \A p, q \in Placed(r) : InState(p, "unbound") = InState(q, "unbound") => p = q

NodeInv == PodsOK /\ ListedOK /\ ReserveOK /\ FittedOK /\ DeployedOK

-----------------------------------------------------------------------------

\* Finitely many finite sets together are finite.
LEMMA FiniteGroups ==
  ASSUME NEW D, IsFiniteSet(D), NEW W, \A d \in D : IsFiniteSet(W[d]),
         NEW V, \A x : x \in V <=> \E d \in D : x \in W[d]
  PROVE  IsFiniteSet(V)
<1> DEFINE U(A) == UNION {W[d] : d \in A}
           Z == {A \in SUBSET D : IsFiniteSet(U(A))}
<1>1. {} \in Z
  <2>1. U({}) = {}
    OBVIOUS
  <2> HIDE DEF U
  <2>2. QED
    BY <2>1, FS_EmptySet
<1>2. ASSUME NEW A \in SUBSET D, NEW y \in D \ A, A \in Z PROVE A \cup {y} \in Z
  <2>1. U(A \cup {y}) = U(A) \cup W[y]
    OBVIOUS
  <2>2. IsFiniteSet(U(A)) /\ IsFiniteSet(W[y])
    BY <1>2
  <2>3. IsFiniteSet(U(A \cup {y}))
    <3> HIDE DEF U
    <3> QED BY <2>1, <2>2, FS_Union
  <2>4. QED
    BY <2>3
<1>3. D \in Z
  <2> HIDE DEF Z
  <2> QED BY <1>1, <1>2, SetsByElement
<1>4. U(D) = V
  OBVIOUS
<1>5. QED
  <2> HIDE DEF U
  <2> QED BY <1>3, <1>4

\* A release has finitely many pods, whether they are counted or not.
LEMMA PodsOfFinite ==
  ASSUME NEW w, w \in Seq(Range(w)), \A k \in DOMAIN w : w[k].count \in Int \cup {Missing}, NEW r
  PROVE  IsFiniteSet(PodsOf(r, w))
<1> DEFINE D == DOMAIN w
           W == [k \in D |-> Copies(r, k, w[k].pod, Replicas(w[k]))]
           U == PodsOf(r, w)
<1>1. \A p : p \in U <=> \E k \in D : p \in W[k]
  BY DEF PodsOf, Copies
<1>2. ASSUME NEW k \in D PROVE IsFiniteSet(W[k])
  <2> DEFINE n == Replicas(w[k])
             pod == w[k].pod
  <2>1. n \in Int /\ W[k] = Copies(r, k, pod, n)
    BY DEF Replicas
  <2> HIDE DEF W, n, pod
  <2>2. CASE n \in Nat
    BY <2>1, <2>2, CopiesOfPod
  <2>3. CASE n \notin Nat
    <3>1. 1..n = {}
      BY <2>1, <2>3
    <3>2. W[k] = {}
      BY <2>1, <3>1 DEF Copies
    <3>3. QED
      BY <3>2, FS_EmptySet
  <2>4. QED
    BY <2>2, <2>3
<1>3. IsFiniteSet(D)
  <2>1. PICK n \in Nat : D = 1..n
    OBVIOUS
  <2>2. IsFiniteSet(1..n)
    BY FS_Interval
  <2>3. QED
    BY <2>1, <2>2
<1>4. QED
  <2> HIDE DEF W, U, D
  <2>1. IsFiniteSet(U)
    BY <1>1, <1>2, <1>3, FiniteGroups
  <2>2. QED
    BY <2>1 DEF U

\* A launch installs what it may install.
LEMMA ReleasesMayBe ==
  ASSUME InputOK, GroupOK, stage \in {"capacity", "render", "select", "install"}
  PROVE  Releases \subseteq MayInstall
<1>1. Scalar(plan.role) \in MayInstall
  BY DEF InputOK, MayInstall
<1>2. ASSUME NEW k \in DOMAIN group PROVE group[k].release \in MayInstall
  <2>1. HasTopology
    BY <1>2 DEF GroupOK
  <2>2. /\ plan.role = "view" /\ plan.params \in Params /\ group = ReleaseGroup(plan.params, Scalar("view"))
    BY <2>1 DEF GroupOK, Agreed, InputOK, HasTopology
  <2>3. DOMAIN group = DOMAIN plan.params.sources
    BY <2>2 DEF ReleaseGroup
  <2>4. group[k].release \in {ReleaseGroup(plan.params, Scalar("view"))[j].release :
                              j \in DOMAIN plan.params.sources}
    BY <1>2, <2>2, <2>3
  <2>5. QED
    BY <2>2, <2>4 DEF MayInstall
<1>3. QED
  BY <1>1, <1>2 DEF Releases

\* What it installs are lists of workloads that Kubernetes takes.
LEMMA PlannedWorkloads ==
  ASSUME InputOK, stage # "ready", NEW r, NEW w, w = ValuesOf(r).workloads
  PROVE  /\ w \in Seq(Range(w))
         /\ \A k \in DOMAIN w : w[k].count \in Int \cup {Missing} /\ PodShape(w[k].pod)
<1>1. PICK role \in Role : w = plan.chart[role]
  BY WorkloadsOf DEF InputOK, Role
<1>2. QED
  BY <1>1, InputAssumption DEF InputOK

-----------------------------------------------------------------------------
\* What an installation and the scheduler do to the pods.

\* An installation replaces the live pods of one release by those of its chart.
LEMMA InstallPods ==
  ASSUME PlanInv, Install
  PROVE  \/ UNCHANGED <<pods, deployed>>
         \/ \E r \in Releases : \E w :
              /\ w = ValuesOf(r).workloads /\ r \in MayInstall
              /\ pods' = (pods \ Placed(r)) \cup PodsOf(r, w)
              /\ DOMAIN deployed' = DOMAIN deployed \cup {r}
              /\ deployed'[r].workloads = w
              /\ \A q \in DOMAIN deployed : q # r => deployed'[q] = deployed[q]
<1>1. stage = "install" /\ todo # <<>> /\ todo \in Seq(Releases)
  BY DEF Install, PlanInv, InstalledOK
<1> DEFINE r == Head(todo)
<1>2. r \in Releases
  BY <1>1
<1>3. r \in MayInstall
  BY <1>1, <1>2, ReleasesMayBe DEF PlanInv
<1>4. CASE ~(UNCHANGED <<pods, deployed>>)
  <2>1. /\ pods' = {p \in pods : ~(p.release = r /\ p.namespace = Target /\ p.state # "finished")}
                   \cup PodsOf(r, ValuesOf(r).workloads)
        /\ deployed' = [q \in DOMAIN deployed \cup {r} |-> IF q = r THEN ValuesOf(r) ELSE deployed[q]]
    BY <1>4, Zenon DEF Install
  <2>2. {p \in pods : ~(p.release = r /\ p.namespace = Target /\ p.state # "finished")} = pods \ Placed(r)
    BY DEF Placed
  <2> HIDE DEF r
  <2>3. QED
    BY <1>2, <1>3, <2>1, <2>2
<1>5. QED
  BY <1>4

\* The scheduler binds one pod, the same as before otherwise.
LEMMA BindPods ==
  ASSUME PodsOK, Bind
  PROVE  \E p \in pods :
           /\ p.state = "unbound" /\ InState(p, "bound").state = "bound"
           /\ pods' = (pods \ {p}) \cup {InState(p, "bound")}
           /\ calm' = (calm /\ Own(p))
<1>1. PICK p \in pods :
        /\ p.state = "unbound"
        /\ pods' = (pods \ {p}) \cup {[p EXCEPT !.state = "bound"]}
        /\ calm' = (calm /\ Own(p))
  BY DEF Bind
<1>2. p = InState(p, p.state)
  BY DEF PodsOK
<1>3. [p EXCEPT !.state = "bound"] = InState(p, "bound")
  BY <1>2 DEF InState
<1>4. QED
  BY <1>1, <1>3 DEF InState

\* A pod of others comes, or finishes.
LEMMA OthersPods ==
  ASSUME OthersChange
  PROVE  \E q \in Others :
           \/ pods' = pods \cup {InState(q, "unbound")}
           \/ \E state \in {"unbound", "bound"} :
                /\ InState(q, state) \in pods
                /\ pods' = (pods \ {InState(q, state)}) \cup {InState(q, "finished")}
  BY DEF OthersChange

\* Every step keeps the pods as they are made.
LEMMA PodsStep ==
  ASSUME PlanInv, PodsOK, [PlanNext]_planVars
  PROVE  PodsOK'
<1> DEFINE Good(p) == /\ p = InState(p, p.state) /\ p.state \in {"unbound", "bound", "finished"}
                      /\ PodShape(p.pod) /\ (OfOthers(p) \/ OfLaunch(p))
<1>0. /\ IsFiniteSet(pods) /\ \A p \in pods : Good(p)
      /\ PodsOK' <=> IsFiniteSet(pods') /\ \A p \in pods' : Good(p)
  BY DEF PodsOK, InState, OfOthers, OfLaunch, PodShape
<1>1. CASE Install
  <2>1. CASE UNCHANGED <<pods, deployed>>
    BY <1>0, <2>1
  <2>2. CASE ~UNCHANGED <<pods, deployed>>
    <3>1. PICK r \in Releases : \E w :
              /\ w = ValuesOf(r).workloads /\ r \in MayInstall
              /\ pods' = (pods \ Placed(r)) \cup PodsOf(r, w)
      BY <1>1, <2>2, InstallPods
    <3>2. PICK w : /\ w = ValuesOf(r).workloads /\ r \in MayInstall
                   /\ pods' = (pods \ Placed(r)) \cup PodsOf(r, w)
      BY <3>1
    <3>3. /\ w \in Seq(Range(w))
          /\ \A k \in DOMAIN w : w[k].count \in Int \cup {Missing} /\ PodShape(w[k].pod)
      <4>1. InputOK /\ stage # "ready"
        BY <1>1 DEF PlanInv, Install
      <4>2. QED
        BY <3>2, <4>1, PlannedWorkloads
    <3>4. \A p \in PodsOf(r, w) : Good(p)
      <4>1. SUFFICES ASSUME NEW p \in PodsOf(r, w) PROVE Good(p)
        OBVIOUS
      <4>2. /\ p.release = r /\ p.namespace = Target /\ p.state = "unbound"
            /\ PodShape(p.pod) /\ p = InState(p, "unbound")
        BY <3>3, PodsOfType
      <4>3. QED
        BY <3>2, <4>2 DEF OfLaunch
    <3>5. IsFiniteSet(pods \ Placed(r)) /\ IsFiniteSet(PodsOf(r, w))
      BY <1>0, <3>3, PodsOfFinite, FS_Subset
    <3>6. IsFiniteSet(pods')
      BY <3>2, <3>5, FS_Union
    <3>7. QED
      <4> HIDE DEF Good
      <4> QED BY <1>0, <3>2, <3>4, <3>6
  <2>3. QED
    BY <2>1, <2>2
<1>2. CASE Bind
  <2>1. PICK p \in pods : pods' = (pods \ {p}) \cup {InState(p, "bound")}
    BY <1>2, BindPods
  <2> DEFINE b == InState(p, "bound")
  <2>2. b = InState(b, b.state) /\ b.state = "bound" /\ b.pod = p.pod
        /\ b.release = p.release /\ b.namespace = p.namespace
    BY DEF InState
  <2>3. OfOthers(p) => OfOthers(b)
    BY <2>2 DEF OfOthers, InState
  <2>4. Good(b)
    BY <1>0, <2>2, <2>3 DEF OfLaunch
  <2>5. IsFiniteSet(pods')
    <3>1. IsFiniteSet(pods \ {p})
      BY <1>0, FS_Subset
    <3>2. QED
      BY <2>1, <3>1, FS_AddElement
  <2>6. QED
    <3> HIDE DEF Good, b
    <3> QED BY <1>0, <2>1, <2>4, <2>5 DEF b
<1>3. CASE OthersChange
  <2>1. PICK q \in Others :
           \/ pods' = pods \cup {InState(q, "unbound")}
           \/ \E state \in {"unbound", "bound"} :
                pods' = (pods \ {InState(q, state)}) \cup {InState(q, "finished")}
    BY <1>3, OthersPods
  <2>2. PICK S \in SUBSET pods, state \in {"unbound", "finished"} : pods' = S \cup {InState(q, state)}
    <3>1. CASE pods' = pods \cup {InState(q, "unbound")}
      BY <3>1
    <3>2. ASSUME NEW s \in {"unbound", "bound"}, pods' = (pods \ {InState(q, s)}) \cup {InState(q, "finished")}
          PROVE  \E S \in SUBSET pods, state \in {"unbound", "finished"} : pods' = S \cup {InState(q, state)}
      <4>1. pods \ {InState(q, s)} \in SUBSET pods
        OBVIOUS
      <4>2. QED
        BY <3>2, <4>1
    <3>3. QED
      BY <2>1, <3>1, <3>2
  <2> DEFINE b == InState(q, state)
  <2>3. Good(b)
    <3>1. b = InState(b, b.state) /\ b.state = state /\ b.pod = q.pod /\ b = InState(q, b.state)
      BY DEF InState
    <3>2. PodShape(q.pod)
      BY NodeAssumption
    <3>3. OfOthers(b)
      BY <3>1 DEF OfOthers
    <3>4. QED
      BY <3>1, <3>2, <3>3
  <2>4. IsFiniteSet(pods')
    <3>1. IsFiniteSet(S)
      BY <1>0, <2>2, FS_Subset
    <3>2. QED
      BY <2>2, <3>1, FS_AddElement
  <2>5. QED
    <3> HIDE DEF Good, b
    <3> QED BY <1>0, <2>2, <2>3, <2>4 DEF b
<1>4. CASE UNCHANGED pods
  BY <1>0, <1>4
<1>5. QED
  BY <1>1, <1>2, <1>3, <1>4 DEF PlanNext, Start, TopologyRefuses, GateRefuses, Finish, Ends,
     Derive, ListPods, Admit, Select, planVars, facts

\* The pods of others that count against a launch.
OthersBound == {p \in pods : p.state = "bound" /\ ~(p.release \in Releases /\ p.namespace = Target)}

\* What exists is the demand of the pods of others.
LEMMA ExistingOfOthers ==
  Existing(pods, Releases, Target) = SumOver(LAMBDA p : PodDemand(p.pod), OthersBound)
  BY DEF Existing, OthersBound

\* It depends on them alone.
LEMMA ExistingSame ==
  ASSUME NEW S, NEW R, NEW T, NEW Q,
         {p \in S : p.state = "bound" /\ ~(p.release \in R /\ p.namespace = Target)}
           = {p \in T : p.state = "bound" /\ ~(p.release \in Q /\ p.namespace = Target)}
  PROVE  Existing(S, R, Target) = Existing(T, Q, Target)
  BY DEF Existing

\* It stays while they do.
LEMMA ExistingStays ==
  ASSUME OthersBound' = OthersBound
  PROVE  Existing(pods, Releases, Target)' = Existing(pods, Releases, Target)
<1>1. Existing(pods', Releases', Target) = Existing(pods, Releases, Target)
  BY ExistingSame DEF OthersBound
<1>2. QED
  BY <1>1

\* A launch that others leave alone keeps what it summed up: its own pods do not count.
LEMMA ListedStep ==
  ASSUME PlanInv, PodsOK, ListedOK, [PlanNext]_planVars
  PROVE  ListedOK'
<1>1. CASE Start \/ TopologyRefuses \/ GateRefuses \/ Finish \/ Derive \/ OthersChange
  BY <1>1 DEF Start, TopologyRefuses, GateRefuses, Finish, Ends, Derive, OthersChange, ListedOK
<1>2. CASE ListPods
  <2>1. /\ stage' = "render" /\ existing' = Existing(pods, Releases, Target)
        /\ UNCHANGED <<pods, plan, group>>
    BY <1>2 DEF ListPods
  <2>2. Releases' = Releases
    BY <2>1, PlanStays
  <2>3. OthersBound' = OthersBound
    BY <2>1, <2>2 DEF OthersBound
  <2>4. QED
    BY <2>1, <2>3, ExistingStays DEF ListedOK
<1>3. CASE Admit \/ Select \/ UNCHANGED planVars
  <2>1. /\ UNCHANGED <<pods, plan, group, existing, calm>>
        /\ stage \in {"render", "select", "install"} => stage' \in {"render", "select", "install"}
    BY <1>3 DEF Admit, Select, planVars, facts
  <2>2. Releases' = Releases
    BY <2>1, PlanStays
  <2>3. OthersBound' = OthersBound
    BY <2>1, <2>2 DEF OthersBound
  <2>4. QED
    BY <2>1, <2>3, ExistingStays DEF ListedOK
<1>4. CASE Install
  <2>1. UNCHANGED <<stage, plan, group, existing, calm>>
    BY <1>4 DEF Install
  <2>2. Releases' = Releases
    BY <2>1, PlanStays
  <2>3. OthersBound' = OthersBound
    <3>1. CASE UNCHANGED <<pods, deployed>>
      BY <2>2, <3>1 DEF OthersBound
    <3>2. CASE ~UNCHANGED <<pods, deployed>>
      <4>1. PICK r \in Releases : \E w :
                w = ValuesOf(r).workloads /\ pods' = (pods \ Placed(r)) \cup PodsOf(r, w)
        BY <1>4, <3>2, InstallPods
      <4>2. PICK w : w = ValuesOf(r).workloads /\ pods' = (pods \ Placed(r)) \cup PodsOf(r, w)
        BY <4>1
      <4>3. \A p \in PodsOf(r, w) : p.state = "unbound"
        BY DEF PodsOf
      <4>4. \A p \in Placed(r) : p.release = r /\ p.namespace = Target
        BY DEF Placed
      <4>5. QED
        BY <2>2, <4>2, <4>3, <4>4 DEF OthersBound
    <3>3. QED
      BY <3>1, <3>2
  <2>4. QED
    BY <2>1, <2>3, ExistingStays DEF ListedOK
<1>5. CASE Bind
  <2>1. UNCHANGED <<stage, plan, group, existing>>
    BY <1>5 DEF Bind, facts
  <2>2. Releases' = Releases
    BY <2>1, PlanStays
  <2>3. PICK p \in pods :
           /\ p.state = "unbound" /\ pods' = (pods \ {p}) \cup {InState(p, "bound")}
           /\ calm' = (calm /\ Own(p))
    BY <1>5, BindPods
  <2>4. SUFFICES ASSUME calm' PROVE OthersBound' = OthersBound
    BY <2>1, <2>3, ExistingStays DEF ListedOK
  <2>5. Own(p) /\ InState(p, "bound").release = p.release /\ InState(p, "bound").namespace = p.namespace
    BY <2>3, <2>4 DEF InState
  <2>6. QED
    BY <2>2, <2>3, <2>5 DEF OthersBound, Own
<1>6. QED
  BY <1>1, <1>2, <1>3, <1>4, <1>5 DEF PlanNext

\* Past the gate, the verdict stays.
LEMMA FittedStep ==
  ASSUME PlanInv, ReserveOK, FittedOK, [PlanNext]_planVars
  PROVE  ReserveOK' /\ FittedOK'
<1>1. CASE Start
  BY <1>1 DEF Start, ReserveOK, FittedOK
<1>2. CASE TopologyRefuses \/ GateRefuses \/ Finish
  BY <1>2 DEF TopologyRefuses, GateRefuses, Finish, Ends, ReserveOK, FittedOK
<1>3. CASE Derive \/ ListPods
  BY <1>3 DEF Derive, ListPods, ReserveOK, FittedOK
<1>4. CASE Admit
  <2>1. /\ stage = "render" /\ stage' = "select" /\ UNCHANGED <<plan, group, existing>>
        /\ ~MissingBudget /\ ~PreflightError /\ ~NoFit
    BY <1>4 DEF Admit, facts
  <2>2. plan.override \/ (~Raises /\ FitsNow)
    BY <2>1 DEF MissingBudget, PreflightError, NoFit
  <2>3. (Raises' <=> Raises) /\ (FitsNow' <=> FitsNow)
    BY <2>1 DEF Raises, FitsNow, RunDemand
  <2>4. QED
    BY <2>1, <2>2, <2>3 DEF ReserveOK, FittedOK
<1>5. CASE Select \/ Install \/ Bind \/ OthersChange \/ UNCHANGED planVars
  <2>1. /\ UNCHANGED <<plan, group, existing>>
        /\ stage' = stage \/ (stage = "select" /\ stage' = "install")
    BY <1>5 DEF Select, Install, Bind, OthersChange, planVars, facts
  <2>2. (Raises' <=> Raises) /\ (FitsNow' <=> FitsNow)
    BY <2>1 DEF Raises, FitsNow, RunDemand
  <2>3. QED
    BY <2>1, <2>2 DEF ReserveOK, FittedOK
<1>6. QED
  BY <1>1, <1>2, <1>3, <1>4, <1>5 DEF PlanNext

\* No step adds a live pod to a release but its installation.
LEMMA DeployedStep ==
  ASSUME PlanInv, PodsOK, DeployedOK, [PlanNext]_planVars
  PROVE  DeployedOK'
<1> DEFINE Alive(S, r) == {p \in S : p.release = r /\ p.namespace = Target /\ p.state # "finished"}
           Fine(S, r, w) == /\ \A p \in Alive(S, r) : InState(p, "unbound") \in PodsOf(r, w)
                            /\ \A p, q \in Alive(S, r) : InState(p, "unbound") = InState(q, "unbound") => p = q
<1>0. /\ \A r \in DOMAIN deployed : r \in MayInstall /\ Fine(pods, r, deployed[r].workloads)
      /\ DeployedOK' <=> \A r \in DOMAIN deployed' : r \in MayInstall /\ Fine(pods', r, deployed'[r].workloads)
  BY DEF DeployedOK, Placed
<1>1. CASE Install
  <2>1. CASE UNCHANGED <<pods, deployed>>
    BY <1>0, <2>1
  <2>2. CASE ~UNCHANGED <<pods, deployed>>
    <3>1. PICK r \in Releases : \E w :
              /\ w = ValuesOf(r).workloads /\ r \in MayInstall
              /\ pods' = (pods \ Placed(r)) \cup PodsOf(r, w)
              /\ DOMAIN deployed' = DOMAIN deployed \cup {r}
              /\ deployed'[r].workloads = w
              /\ \A q \in DOMAIN deployed : q # r => deployed'[q] = deployed[q]
      BY <1>1, <2>2, InstallPods
    <3>2. PICK w :
              /\ w = ValuesOf(r).workloads /\ r \in MayInstall
              /\ pods' = (pods \ Placed(r)) \cup PodsOf(r, w)
              /\ DOMAIN deployed' = DOMAIN deployed \cup {r}
              /\ deployed'[r].workloads = w
              /\ \A q \in DOMAIN deployed : q # r => deployed'[q] = deployed[q]
      BY <3>1
    <3>3. \A k \in DOMAIN w : PodShape(w[k].pod)
      <4>1. InputOK /\ stage # "ready"
        BY <1>1 DEF PlanInv, Install
      <4>2. QED
        BY <3>2, <4>1, PlannedWorkloads
    <3>4. \A p \in PodsOf(r, w) : p.release = r /\ p = InState(p, "unbound")
      BY <3>3, PodsOfType
    <3>5. Alive(pods', r) \subseteq PodsOf(r, w)
      BY <3>2 DEF Placed
    <3>6. Fine(pods', r, w)
      BY <3>4, <3>5
    <3>7. ASSUME NEW q \in DOMAIN deployed, q # r PROVE Alive(pods', q) \subseteq Alive(pods, q)
      BY <3>2, <3>4, <3>7
    <3>8. ASSUME NEW q \in DOMAIN deployed, q # r
          PROVE  q \in MayInstall /\ Fine(pods', q, deployed'[q].workloads)
      <4>1. Fine(pods, q, deployed[q].workloads) /\ deployed'[q] = deployed[q]
        BY <1>0, <3>2, <3>8
      <4>2. Alive(pods', q) \subseteq Alive(pods, q)
        BY <3>7, <3>8
      <4> HIDE DEF Alive
      <4>3. QED
        BY <1>0, <4>1, <4>2
    <3>9. QED
      <4> HIDE DEF Fine
      <4> QED BY <1>0, <3>2, <3>6, <3>8
  <2>3. QED
    BY <2>1, <2>2
<1>2. CASE Bind
  <2>1. PICK p \in pods : p.state = "unbound" /\ pods' = (pods \ {p}) \cup {InState(p, "bound")}
    BY <1>2, BindPods
  <2> DEFINE b == InState(p, "bound")
  <2>2. /\ b.release = p.release /\ b.namespace = p.namespace
        /\ InState(b, "unbound") = InState(p, "unbound")
    BY DEF InState
  <2>3. deployed' = deployed
    BY <1>2 DEF Bind
  <2>4. ASSUME NEW r \in DOMAIN deployed PROVE Fine(pods', r, deployed[r].workloads)
    <3>1. Fine(pods, r, deployed[r].workloads)
      BY <1>0
    <3>2. \A q \in Alive(pods', r) :
             \/ q \in Alive(pods, r) /\ q # p
             \/ q = b /\ p \in Alive(pods, r)
      BY <2>1, <2>2
    <3> HIDE DEF Alive, b
    <3>3. QED
      BY <2>2, <3>1, <3>2
  <2>5. QED
    <3> HIDE DEF Fine
    <3> QED BY <1>0, <2>3, <2>4
<1>3. CASE OthersChange
  <2>1. PICK q \in Others :
           \/ pods' = pods \cup {InState(q, "unbound")}
           \/ \E state \in {"unbound", "bound"} :
                pods' = (pods \ {InState(q, state)}) \cup {InState(q, "finished")}
    BY <1>3, OthersPods
  <2>2. deployed' = deployed
    BY <1>3 DEF OthersChange
  <2>3. ASSUME NEW r \in DOMAIN deployed PROVE Alive(pods', r) \subseteq Alive(pods, r)
    <3>1. r \in MayInstall
      BY <1>0
    <3>2. q.namespace = Target => q.release # r
      BY <3>1, NodeAssumption
    <3>3. \A state : /\ InState(q, state).release = q.release
                     /\ InState(q, state).namespace = q.namespace
                     /\ InState(q, state).state = state
      BY DEF InState
    <3>4. QED
      BY <2>1, <3>2, <3>3
  <2>4. ASSUME NEW r \in DOMAIN deployed PROVE Fine(pods', r, deployed[r].workloads)
    <3>1. Fine(pods, r, deployed[r].workloads) /\ Alive(pods', r) \subseteq Alive(pods, r)
      BY <1>0, <2>3
    <3> HIDE DEF Alive
    <3>2. QED
      BY <3>1
  <2>5. QED
    <3> HIDE DEF Fine
    <3> QED BY <1>0, <2>2, <2>4
<1>4. CASE UNCHANGED <<pods, deployed>>
  BY <1>0, <1>4
<1>5. QED
  BY <1>1, <1>2, <1>3, <1>4 DEF PlanNext, Start, TopologyRefuses, GateRefuses, Finish, Ends,
     Derive, ListPods, Admit, Select, planVars, facts

\* The invariant holds in the beginning.
LEMMA NodeInit == ASSUME PlanInit PROVE NodeInv
<1>1. PICK state \in [Others -> {"absent", "bound", "finished"}] :
        pods = {InState(p, state[p]) : p \in {q \in Others : state[q] # "absent"}}
  BY DEF PlanInit
<1> DEFINE here == {q \in Others : state[q] # "absent"}
           h == [q \in here |-> InState(q, state[q])]
<1>2. IsFiniteSet(pods)
  <2>1. IsFiniteSet(here)
    BY NodeAssumption, FS_Subset
  <2>2. pods = {h[q] : q \in here}
    BY <1>1
  <2>3. DOMAIN h = here
    OBVIOUS
  <2> DEFINE W == [q \in here |-> {h[q]}]
  <2>4. \A q \in here : IsFiniteSet(W[q])
    BY FS_Singleton
  <2>5. \A p : p \in pods <=> \E q \in here : p \in W[q]
    BY <2>2
  <2>6. QED
    <3> HIDE DEF W, here, h
    <3> QED BY <2>1, <2>4, <2>5, FiniteGroups
<1>3. ASSUME NEW p \in pods
      PROVE  /\ p = InState(p, p.state) /\ p.state \in {"unbound", "bound", "finished"}
             /\ PodShape(p.pod) /\ OfOthers(p)
  <2>1. PICK q \in Others : state[q] # "absent" /\ p = InState(q, state[q])
    BY <1>1
  <2>2. state[q] \in {"bound", "finished"} /\ PodShape(q.pod)
    BY <2>1, NodeAssumption
  <2>3. p.state = state[q] /\ p = InState(p, p.state) /\ p.pod = q.pod
    BY <2>1 DEF InState
  <2>4. OfOthers(p)
    BY <2>1, <2>3 DEF OfOthers
  <2>5. QED
    BY <2>2, <2>3, <2>4
<1>4. PodsOK
  BY <1>2, <1>3 DEF PodsOK
<1>5. ListedOK /\ ReserveOK /\ FittedOK /\ DeployedOK
  BY DEF PlanInit, ListedOK, ReserveOK, FittedOK, DeployedOK
<1>6. QED
  BY <1>4, <1>5 DEF NodeInv

\* It always holds.
LEMMA NodeAlways == PlanSpec => [](PlanInv /\ NodeInv)
<1>1. PlanInit => PlanInv /\ NodeInv
  <2>1. PlanInit => PlanInv
    BY DEF PlanInit, PlanInv, InputOK, GroupOK, JudgedOK, SelectedOK, InstalledOK
  <2>2. QED
    BY <2>1, NodeInit
<1>2. PlanInv /\ NodeInv /\ [PlanNext]_planVars => (PlanInv /\ NodeInv)'
  BY PlanStep, PodsStep, ListedStep, FittedStep, DeployedStep DEF NodeInv
<1>3. QED
  BY <1>1, <1>2, PTL DEF PlanSpec

-----------------------------------------------------------------------------
(***************************************************************************)
(* The verdict.                                                            *)
(***************************************************************************)

\* The peaks of two disjoint sets of pods add up.
LEMMA PeakOfParts ==
  ASSUME NEW S, IsFiniteSet(S), NEW T, IsFiniteSet(T), S \cap T = {},
         \A p \in S \cup T : PodShape(p.pod), NEW x \in Resource
  PROVE  /\ PeakOf(S \cup T)[x] = PeakOf(S)[x] + PeakOf(T)[x]
         /\ PeakOf(S)[x] \in Nat /\ PeakOf(T)[x] \in Nat
<1> DEFINE f == [p \in S \cup T |-> Peak(p.pod)[x]]
<1>1. \A p \in S \cup T : f[p] = Peak(p.pod)[x]
  OBVIOUS
<1>2. IsFiniteSet(S \cup T)
  BY FS_Union
<1> HIDE DEF f
<1>3. PeakOf(S)[x] = SumOn(f, S) /\ PeakOf(S)[x] \in Nat
  BY <1>1, PeakOfIs
<1>4. PeakOf(T)[x] = SumOn(f, T) /\ PeakOf(T)[x] \in Nat
  BY <1>1, PeakOfIs
<1>5. PeakOf(S \cup T)[x] = SumOn(f, S \cup T) /\ \A p \in S \cup T : f[p] \in Nat
  BY <1>1, <1>2, PeakOfIs
<1>6. SumOn(f, S \cup T) = SumOn(f, S) + SumOn(f, T)
  BY <1>5, SumOfParts
<1>7. QED
  BY <1>3, <1>4, <1>5, <1>6

\* The sum of l3_existing_demand is the peaks of those pods.
LEMMA ExistingIsPeak ==
  ASSUME PodsOK, NEW x \in Resource
  PROVE  Existing(pods, Releases, Target)[x] = PeakOf(OthersBound)[x]
<1> DEFINE S == OthersBound
           h == [p \in S |-> PodDemand(p.pod)[x]]
           f == [p \in S |-> Peak(p.pod)[x]]
<1>1. IsFiniteSet(S) /\ \A p \in S : PodShape(p.pod)
  BY FS_Subset DEF PodsOK, OthersBound
<1>2. Existing(pods, Releases, Target)[x] = SumFunction(h)
  BY ExistingOfOthers DEF SumOver
<1>3. \A p \in S : f[p] = Peak(p.pod)[x]
  OBVIOUS
<1>4. DOMAIN h = S /\ \A p \in S : h[p] = f[p]
  BY <1>1, PodDemandIsPeak
<1>5. PeakOf(S)[x] = SumOn(f, S) /\ \A p \in S : f[p] \in Nat
  <2> HIDE DEF f, S
  <2> QED BY <1>1, <1>3, PeakOfIs
<1>6. SumFunction(h) = SumOn(f, S)
  <2> HIDE DEF f, h, S
  <2> QED BY <1>1, <1>4, <1>5, SumFunctionIs
<1>7. QED
  BY <1>2, <1>5, <1>6

\* A reserve is zero, or raises.
LEMMA ReserveIsZero ==
  ASSUME ReserveOK, stage # "ready"
  PROVE  /\ Raises <=> plan.reserve.type = "other"
         /\ ~Raises => Coerce(plan.reserve) = 0
<1>1. /\ plan.reserve.type \in {"int", "digits", "other"}
      /\ plan.reserve.type # "other" => plan.reserve.n = 0
  BY NodeAssumption DEF ReserveOK
<1>2. QED
  BY <1>1 DEF Raises, Coerce, Rejected

\* With a budget, the pods of every release are counted.
LEMMA BudgetsCount ==
  ASSUME InputOK, stage # "ready", Budgets, NEW r \in Releases
  PROVE  Counts(ValuesOf(r).workloads)
<1>1. plan.chart \in Charts /\ plan.role \in Role /\ "source" \in Role
  BY DEF InputOK, Role
<1>2. CASE r = Scalar(plan.role)
  <2>1. ValuesOf(r).workloads = plan.chart[plan.role]
    BY <1>2, WorkloadsOf
  <2>2. QED
    BY <1>1, <2>1, ChartCounts DEF Budgets
<1>3. CASE r # Scalar(plan.role)
  <2>1. ValuesOf(r).workloads = plan.chart["source"]
    BY <1>3, WorkloadsOf
  <2>2. group # <<>>
    BY <1>3 DEF Releases
  <2>3. QED
    BY <1>1, <2>1, <2>2, ChartCounts DEF Budgets
<1>4. QED
  BY <1>2, <1>3

\* The live pods of a launch that is installed come to no more than those it wants.
LEMMA InstalledPeak ==
  ASSUME PlanInv, NodeInv, Installed, NEW x \in Resource,
         IsFiniteSet(Wanted), \A p \in Wanted : PodShape(p.pod),
         NEW L, L = {p \in Live : Own(p)}
  PROVE  PeakOf(L)[x] <= PeakOf(Wanted)[x]
<1> DEFINE h == [p \in L |-> InState(p, "unbound")]
           f == [p \in L |-> Peak(p.pod)[x]]
           g == [p \in Wanted |-> Peak(p.pod)[x]]
<1>1. IsFiniteSet(L) /\ \A p \in L : PodShape(p.pod)
  BY FS_Subset DEF NodeInv, PodsOK, Live
<1>2. \A r \in Releases : r \in DOMAIN deployed /\ deployed[r] = ValuesOf(r)
  BY DEF Installed, PlanInv, InstalledOK
<1>3. \A p \in L : p.release \in Releases /\ p \in Placed(p.release)
  BY DEF Live, Own, Placed
<1>4. ASSUME NEW p \in L PROVE InState(p, "unbound") \in Wanted
  <2>1. p.release \in Releases /\ p \in Placed(p.release)
    BY <1>3
  <2>2. InState(p, "unbound") \in PodsOf(p.release, ValuesOf(p.release).workloads)
    BY <1>2, <2>1 DEF NodeInv, DeployedOK
  <2>3. QED
    BY <2>1, <2>2 DEF Wanted
<1>5. ASSUME NEW p \in L, NEW q \in L, InState(p, "unbound") = InState(q, "unbound") PROVE p = q
  <2>1. InState(p, "unbound").release = p.release /\ InState(q, "unbound").release = q.release
    BY DEF InState
  <2>2. p.release = q.release
    BY <1>5, <2>1
  <2>3. p.release \in DOMAIN deployed /\ p \in Placed(p.release) /\ q \in Placed(p.release)
    BY <1>2, <1>3, <2>2
  <2>4. QED
    BY <1>5, <2>3 DEF NodeInv, DeployedOK
<1>6. h \in [L -> Wanted] /\ \A p, q \in L : h[p] = h[q] => p = q
  BY <1>4, <1>5
<1>7. (\A p \in L : f[p] = Peak(p.pod)[x]) /\ (\A p \in Wanted : g[p] = Peak(p.pod)[x])
  OBVIOUS
<1>8. \A p \in L : f[p] = g[h[p]]
  BY <1>4 DEF InState
<1> HIDE DEF f, g, h
<1>9. /\ PeakOf(L)[x] = SumOn(f, L) /\ \A p \in L : f[p] \in Nat
      /\ PeakOf(Wanted)[x] = SumOn(g, Wanted) /\ \A p \in Wanted : g[p] \in Nat
  BY <1>1, <1>7, PeakOfIs
<1>10. \A p \in L : f[p] \in Int /\ f[p] <= g[h[p]]
  BY <1>8, <1>9
<1>11. SumOn(f, L) <= SumOn(g, Wanted)
  BY <1>1, <1>6, <1>9, <1>10, SumInjects
<1>12. QED
  BY <1>9, <1>11

(***************************************************************************)
(* A launch that was let through without an override fits: with all its    *)
(* pods at their peaks, next to all others, if none of the others came or  *)
(* went since the launch listed them and none was waiting (capacity.yml,   *)
(* l3_existing_demand, l3_render_demand, l3_sum_demand, l3_evaluate_fit).  *)
(***************************************************************************)
THEOREM AdmittedLaunchesFit == PlanSpec => []AdmittedFits
<1>1. ASSUME PlanInv, NodeInv, Installed, calm, ~plan.override,
             \A p \in pods : p.state = "unbound" => Own(p), NEW x \in Resource
      PROVE  PeakOf(Live)[x] <= Allocatable[x]
  <2> DEFINE L == {p \in Live : Own(p)}
             F == OthersBound
  <2>1. InputOK /\ GroupOK /\ stage = "install" /\ Budgets /\ ~Raises /\ FitsNow
    BY <1>1 DEF PlanInv, NodeInv, Installed, JudgedOK, FittedOK
  <2>2. \A r \in Releases : Counts(ValuesOf(r).workloads)
    BY <2>1, BudgetsCount
  <2>3. /\ IsFiniteSet(Wanted) /\ \A p \in Wanted : PodShape(p.pod)
        /\ PeakOf(Wanted)[x] = RunDemand.demand[x] /\ PeakOf(Wanted)[x] \in Nat
    BY <2>1, <2>2, LaunchPeak
  <2>4. PeakOf(L)[x] <= PeakOf(Wanted)[x]
    BY <1>1, <2>3, InstalledPeak
  <2>5. existing[x] = PeakOf(F)[x]
    BY <1>1, ExistingIsPeak DEF NodeInv, ListedOK
  <2>6. /\ IsFiniteSet(F) /\ IsFiniteSet(L) /\ F \cap L = {} /\ Live = F \cup L
        /\ \A p \in F \cup L : PodShape(p.pod)
    <3>1. IsFiniteSet(F) /\ IsFiniteSet(L)
      BY <1>1, FS_Subset DEF NodeInv, PodsOK, OthersBound, Live
    <3>2. \A p \in pods : p.state \in {"unbound", "bound", "finished"} /\ PodShape(p.pod)
      BY <1>1 DEF NodeInv, PodsOK
    <3>3. QED
      BY <1>1, <3>1, <3>2 DEF OthersBound, Live, Own
  <2>7. /\ PeakOf(Live)[x] = PeakOf(F)[x] + PeakOf(L)[x]
        /\ PeakOf(F)[x] \in Nat /\ PeakOf(L)[x] \in Nat
    <3> HIDE DEF F, L
    <3>1. /\ PeakOf(F \cup L)[x] = PeakOf(F)[x] + PeakOf(L)[x]
          /\ PeakOf(F)[x] \in Nat /\ PeakOf(L)[x] \in Nat
      BY <2>6, PeakOfParts
    <3>2. PeakOf(Live) = PeakOf(F \cup L)
      BY <2>6
    <3>3. QED
      BY <3>1, <3>2
  <2>8. Allocatable[x] - existing[x] - 0 >= RunDemand.demand[x]
    <3>1. Coerce(plan.reserve) = 0
      BY <1>1, <2>1, ReserveIsZero DEF NodeInv
    <3>2. Allocatable[x] - existing[x] - Coerce(plan.reserve) >= RunDemand.demand[x]
      BY <2>1 DEF FitsNow, Fits
    <3>3. QED
      BY <3>1, <3>2
  <2>9. Allocatable[x] \in Nat
    BY NodeAssumption DEF Demand
  <2>10. QED
    <3> HIDE DEF F, L
    <3> QED BY <2>3, <2>4, <2>5, <2>7, <2>8, <2>9
<1>2. PlanInv /\ NodeInv => AdmittedFits
  BY <1>1 DEF AdmittedFits, \preceq
<1>3. QED
  BY <1>2, NodeAlways, PTL

\* A chart that declares its demand has a budget.
LEMMA DeclaredIsBudgeted ==
  ASSUME NEW chart \in Charts, NEW role \in Role, NEW w, w = chart[role], Declares(w)
  PROVE  RenderDemand(w).budgeted
<1>1. w # <<>>
  BY DEF Declares
<1>2. ASSUME NEW k \in DOMAIN w PROVE ReplicaCount(w[k]) # Missing
  BY InputAssumption, MissingAssumption DEF Declares, ReplicaCount
<1>3. \A k \in DOMAIN w : Budgeted(w[k].pod)
  BY DEF Declares, Budgeted
<1>4. QED
  BY <1>1, <1>2, <1>3 DEF RenderDemand

\* So does a launch all of whose releases do.
LEMMA DeclaredBudgets ==
  ASSUME InputOK, GroupOK, stage = "render", Declared
  PROVE  Budgets
<1>1. plan.chart \in Charts /\ plan.role \in Role /\ "source" \in Role
  BY DEF InputOK, Role
<1>2. \A r \in Releases : Declares(ValuesOf(r).workloads)
  BY DEF Declared, Declares
<1>3. RenderDemand(plan.chart[plan.role]).budgeted
  <2>1. Scalar(plan.role) \in Releases
    BY DEF Releases
  <2>2. Declares(plan.chart[plan.role])
    BY <1>2, <2>1, WorkloadsOf
  <2>3. QED
    BY <1>1, <2>2, DeclaredIsBudgeted
<1>4. ASSUME group # <<>> PROVE RenderDemand(plan.chart["source"]).budgeted
  <2>1. PICK n \in Nat : DOMAIN group = 1..n /\ group = [k \in 1..n |-> group[k]]
    BY GroupIsList
  <2>2. 1 \in DOMAIN group
    BY <1>4, <2>1
  <2>3. HasTopology
    BY <1>4, GroupIsList
  <2>4. Valid(plan.params) /\ group = ReleaseGroup(plan.params, Scalar(plan.role))
    BY <2>3 DEF GroupOK, Agreed
  <2>5. group[1].release # Scalar(plan.role)
    BY <2>2, <2>4, GroupOfSources
  <2>6. group[1].release \in Releases
    BY <2>2 DEF Releases
  <2>7. Declares(plan.chart["source"])
    BY <1>2, <2>5, <2>6, WorkloadsOf
  <2>8. QED
    BY <1>1, <2>7, DeclaredIsBudgeted
<1>5. QED
  BY <1>3, <1>4 DEF Budgets

(***************************************************************************)
(* A launch whose demand is declared is refused only if the node cannot    *)
(* hold its pods next to those of others (capacity.yml, l3_evaluate_fit).  *)
(***************************************************************************)
THEOREM RefusedLaunchesAreTooBig == PlanSpec => RefusedIsTooBig
<1> DEFINE Big == ~(PeakOf({p \in Bound : ~Own(p)} \cup Wanted) \preceq Allocatable)
<1>1. ASSUME PlanInv, NodeInv, GateRefuses, calm, Declared, plan.reserve.type # "other"
      PROVE  Big
  <2>1. InputOK /\ GroupOK /\ stage = "render" /\ stage # "ready"
    BY <1>1 DEF PlanInv, GateRefuses
  <2>2. Budgets /\ RunDemand.budgeted
    BY <1>1, <2>1, DeclaredBudgets, RunBudget
  <2>3. ~Raises /\ Coerce(plan.reserve) = 0
    BY <1>1, <2>1, ReserveIsZero DEF NodeInv
  <2>4. ~FitsNow
    BY <1>1, <2>2, <2>3 DEF GateRefuses, MissingBudget, PreflightError, NoFit
  <2>5. PICK x \in Resource : ~(Allocatable[x] - existing[x] - 0 >= RunDemand.demand[x])
    BY <2>3, <2>4 DEF FitsNow, Fits
  <2> DEFINE F == OthersBound
  <2>6. \A r \in Releases : Counts(ValuesOf(r).workloads)
    BY <2>1, <2>2, BudgetsCount
  <2>7. /\ IsFiniteSet(Wanted) /\ \A p \in Wanted : PodShape(p.pod) /\ p.state = "unbound"
        /\ PeakOf(Wanted)[x] = RunDemand.demand[x] /\ PeakOf(Wanted)[x] \in Nat
    BY <2>1, <2>6, LaunchPeak
  <2>8. existing[x] = PeakOf(F)[x]
    BY <1>1, ExistingIsPeak DEF NodeInv, ListedOK
  <2>9. {p \in Bound : ~Own(p)} = F
    BY DEF Bound, Own, OthersBound
  <2>10. IsFiniteSet(F) /\ (\A p \in F : PodShape(p.pod) /\ p.state = "bound") /\ F \cap Wanted = {}
    <3>1. IsFiniteSet(F) /\ \A p \in F : PodShape(p.pod) /\ p.state = "bound"
      BY <1>1, FS_Subset DEF NodeInv, PodsOK, OthersBound
    <3> HIDE DEF F
    <3>2. QED
      BY <2>7, <3>1
  <2>11. /\ PeakOf(F \cup Wanted)[x] = PeakOf(F)[x] + PeakOf(Wanted)[x]
         /\ PeakOf(F)[x] \in Nat
    <3> HIDE DEF F
    <3> QED BY <2>7, <2>10, PeakOfParts
  <2>12. Allocatable[x] \in Nat
    BY NodeAssumption DEF Demand
  <2>13. ~(PeakOf(F \cup Wanted)[x] <= Allocatable[x])
    <3> HIDE DEF F
    <3> QED BY <2>5, <2>7, <2>8, <2>11, <2>12
  <2>14. QED
    <3> HIDE DEF F
    <3> QED BY <2>9, <2>13 DEF \preceq
<1>2. ASSUME PlanInv, NodeInv
      PROVE  [GateRefuses /\ calm /\ Declared /\ plan.reserve.type # "other" => Big]_planVars
  BY <1>1, <1>2
<1>3. QED
  BY <1>2, NodeAlways, PTL DEF RefusedIsTooBig
=============================================================================

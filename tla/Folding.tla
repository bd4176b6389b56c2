------------------------------ MODULE Folding -------------------------------
(***************************************************************************)
(* Lemmas about the recursive functions of the community modules: the sum  *)
(* of a function over a finite set, and the concatenation of a sequence of *)
(* sequences.  What is true of them for every argument is proved here from *)
(* a smallest one for which it would be false.                             *)
(***************************************************************************)
EXTENDS Integers, Sequences, SequencesExt, FiniteSetsExt, Functions,
        FiniteSetTheorems, WellFoundedInduction, SequenceTheorems, TLAPS

\* A set of natural numbers that is not empty has a least one.
LEMMA LeastNatural ==
  ASSUME NEW T \in SUBSET Nat, T # {}
  PROVE  \E m \in T : \A k \in T : m <= k
<1> DEFINE less == OpToRel(<, Nat)
<1>1. \A x, y \in Nat : <<x, y>> \in less <=> x < y
  BY DEF OpToRel
<1>2. \E m \in T : \A k \in T : ~(<<k, m>> \in less)
  <2>1. IsWellFoundedOn(less, Nat)
    BY NatLessThanWellFounded
  <2> HIDE DEF less
  <2> QED BY <2>1, WFMin
<1>3. PICK m \in T : \A k \in T : ~(<<k, m>> \in less)
  BY <1>2
<1>4. \A k \in T : ~(k < m)
  <2> HIDE DEF less
  <2> QED BY <1>1, <1>3
<1> QED BY <1>4

\* The least and the greatest member of a set of natural numbers
LEMMA LeastOf ==
  ASSUME NEW T \in SUBSET Nat, T # {}
  PROVE  Min(T) \in T
<1>1. \E m \in T : \A k \in T : m <= k
  BY LeastNatural
<1> QED BY <1>1 DEF Min

LEMMA GreatestOf ==
  ASSUME NEW b \in Nat, NEW T \in SUBSET (0 .. b), T # {}
  PROVE  Max(T) \in T /\ \A k \in T : Max(T) >= k
<1> DEFINE U == {b - k : k \in T}
<1>1. U \in SUBSET Nat /\ U # {}
  <2>1. \A k \in T : b - k \in Nat
    OBVIOUS
  <2> QED BY <2>1
<1>2. PICK m \in U : \A k \in U : m <= k
  <2> HIDE DEF U
  <2> QED BY <1>1, LeastNatural
<1>3. PICK g \in T : m = b - g
  BY <1>2
<1>4. \A k \in T : b - k \in U
  OBVIOUS
<1>5. \A k \in T : g >= k
  <2> HIDE DEF U
  <2>1. ASSUME NEW k \in T PROVE g >= k
    <3>1. b - g <= b - k /\ k \in Int /\ g \in Int
      BY <1>2, <1>3, <1>4
    <3> QED BY <3>1
  <2> QED BY <2>1
<1> QED BY <1>5 DEF Max

\* What is true of some finite set is true of one of no greater size than any
\* other: induction over finite sets, with the property as a set of sets.
LEMMA SmallestSubset ==
  ASSUME NEW S, IsFiniteSet(S), NEW T \in SUBSET SUBSET S, T # {}
  PROVE  \E X \in T : \A Y \in T : Y \subseteq X => Y = X
<1> DEFINE less == StrictSubsetOrdering(S)
<1>1. T \subseteq FiniteSubsetsOf(S)
  BY FS_FiniteSubsetsOfFinite
<1>2. \E X \in T : \A Y \in T : ~(<<Y, X>> \in less)
  <2>1. IsWellFoundedOn(less, FiniteSubsetsOf(S))
    BY FS_StrictSubsetOrderingWellFounded
  <2> HIDE DEF less
  <2> QED BY <1>1, <2>1, WFMin
<1>3. \A X, Y \in T : Y \subseteq X /\ Y # X => <<Y, X>> \in less
  BY DEF StrictSubsetOrdering
<1> QED BY <1>2, <1>3

\* One step of the recursion, from the sums g of smaller sets.
SumStep(f, g, s) == IF s = {} THEN 0 ELSE LET x == CHOOSE y \in s : TRUE IN f[x] + g[s \ {x}]

\* The recursion that sums f over a set
Sums(f, S) == CHOOSE g : g = [s \in SUBSET S |->
     SumStep(f, g, s)]

\* SumFunctionOnSet, as the library defines it, is that recursion.
LEMMA SumIsSums == \A f, S : SumFunctionOnSet(f, S) = Sums(f, S)[S]
BY DEF SumFunctionOnSet, FoldFunctionOnSet, MapThenFoldSet, Sums, SumStep

\* The recursion of the folds has a solution.
LEMMA SumsEquation ==
  ASSUME NEW S, IsFiniteSet(S), NEW f
  PROVE  Sums(f, S) = [s \in SUBSET S |-> SumStep(f, Sums(f, S), s)]
<1> DEFINE Solves(g, n) == /\ g = [s \in SUBSET S |-> g[s]]
                           /\ \A s \in SUBSET S : Cardinality(s) <= n => g[s] = SumStep(f, g, s)
           Unsolved == {n \in Nat : ~\E g : Solves(g, n)}
<1>1. \A s \in SUBSET S : /\ IsFiniteSet(s) /\ Cardinality(s) \in Nat
                          /\ Cardinality(s) <= Cardinality(S)
                          /\ Cardinality(s) = 0 <=> s = {}
                          /\ \A x \in s : Cardinality(s \ {x}) = Cardinality(s) - 1
  BY FS_Subset, FS_CardinalityType, FS_EmptySet, FS_RemoveElement
<1>2. Unsolved = {}
  <2>1. SUFFICES ASSUME Unsolved # {} PROVE FALSE
    OBVIOUS
  <2>2. PICK m \in Nat : m \in Unsolved /\ \A k \in Unsolved : m <= k
    <3>1. Unsolved \in SUBSET Nat
      OBVIOUS
    <3> HIDE DEF Unsolved
    <3> QED BY <2>1, <3>1, LeastNatural
  <2>3. m # 0
    <3>1. Solves([s \in SUBSET S |-> 0], 0)
      BY <1>1 DEF SumStep
    <3> HIDE DEF Solves
    <3> QED BY <2>2, <3>1
  <2>4. PICK g : Solves(g, m - 1)
    <3>1. m - 1 \in Nat /\ m - 1 \notin Unsolved
      <4> HIDE DEF Unsolved
      <4> QED BY <2>2, <2>3
    <3> HIDE DEF Solves
    <3> QED BY <3>1
  <2> DEFINE h == [s \in SUBSET S |-> SumStep(f, g, s)]
  <2>5. ASSUME NEW s \in SUBSET S, Cardinality(s) <= m PROVE h[s] = SumStep(f, h, s)
    <3>1. CASE s = {}
      BY <3>1 DEF SumStep
    <3>2. CASE s # {}
      <4> DEFINE x == CHOOSE y \in s : TRUE
                 r == s \ {x}
      <4>1. x \in s /\ r \in SUBSET S
        BY <3>2
      <4>2. Cardinality(r) <= m - 1
        BY <1>1, <2>5, <4>1
      <4>3. g[r] = SumStep(f, g, r)
        <5> HIDE DEF r
        <5> QED BY <2>4, <4>1, <4>2
      <4>4. h[r] = g[r]
        <5> HIDE DEF r
        <5> QED BY <4>1, <4>3
      <4> QED BY <3>2, <4>4 DEF SumStep
    <3> QED BY <3>1, <3>2
  <2>6. Solves(h, m)
    <3>1. h = [s \in SUBSET S |-> h[s]]
      OBVIOUS
    <3> HIDE DEF h
    <3> QED BY <2>5, <3>1
  <2> HIDE DEF h, Solves
  <2> QED BY <2>2, <2>6
<1>3. PICK g : Solves(g, Cardinality(S))
  BY <1>1, <1>2
<1>4. g = [s \in SUBSET S |-> SumStep(f, g, s)]
  <2> HIDE DEF SumStep
  <2> QED BY <1>1, <1>3
<1> QED BY <1>4 DEF Sums, SumStep

-----------------------------------------------------------------------------
(* Sums over a finite set                                                  *)

\* A sum does not depend on the set whose subsets the recursion ranges over.
LEMMA SumIsLocal ==
  ASSUME NEW S, IsFiniteSet(S), NEW R, IsFiniteSet(R), NEW f
  PROVE  \A s \in SUBSET S : s \in SUBSET R => Sums(f, S)[s] = Sums(f, R)[s]
<1> DEFINE Differ == {t \in SUBSET S : t \in SUBSET R /\ Sums(f, S)[t] # Sums(f, R)[t]}
<1>1. SUFFICES ASSUME Differ # {} PROVE FALSE
  OBVIOUS
<1>2. PICK t \in SUBSET S : t \in Differ /\ \A u \in Differ : u \subseteq t => u = t
  <2>1. Differ \in SUBSET SUBSET S
    OBVIOUS
  <2> HIDE DEF Differ
  <2> QED BY <1>1, <2>1, SmallestSubset
<1>3. t \in SUBSET R /\ Sums(f, S)[t] # Sums(f, R)[t]
  BY <1>2
<1>4. \A u \in SUBSET S : u \in SUBSET R /\ u \subseteq t /\ u # t => Sums(f, S)[u] = Sums(f, R)[u]
  BY <1>2
<1> HIDE DEF Differ
<1>5. Sums(f, S)[t] = SumStep(f, Sums(f, S), t) /\ Sums(f, R)[t] = SumStep(f, Sums(f, R), t)
  <2>1. Sums(f, S) = [s \in SUBSET S |-> SumStep(f, Sums(f, S), s)]
    BY SumsEquation
  <2>2. Sums(f, R) = [s \in SUBSET R |-> SumStep(f, Sums(f, R), s)]
    BY SumsEquation
  <2> QED BY <1>3, <2>1, <2>2
<1>6. CASE t = {}
  BY <1>3, <1>5, <1>6 DEF SumStep
<1>7. CASE t # {}
  <2> DEFINE x == CHOOSE y \in t : TRUE
             r == t \ {x}
  <2>1. x \in t /\ r \in SUBSET S /\ r \in SUBSET R /\ r \subseteq t /\ r # t
    BY <1>3, <1>7
  <2>2. Sums(f, S)[r] = Sums(f, R)[r]
    <3> HIDE DEF r
    <3> QED BY <1>4, <2>1
  <2>3. SumStep(f, Sums(f, S), t) = SumStep(f, Sums(f, R), t)
    BY <1>7, <2>2 DEF SumStep
  <2> QED BY <1>3, <1>5, <2>3
<1> QED BY <1>6, <1>7

\* The equation of a sum.
LEMMA SumChosen ==
  ASSUME NEW S, IsFiniteSet(S), NEW f
  PROVE  /\ S = {} => SumFunctionOnSet(f, S) = 0
         /\ S # {} => \E x \in S : SumFunctionOnSet(f, S) = f[x] + SumFunctionOnSet(f, S \ {x})
<1>1. SumFunctionOnSet(f, S) = SumStep(f, Sums(f, S), S)
  <2>1. Sums(f, S) = [s \in SUBSET S |-> SumStep(f, Sums(f, S), s)]
    BY SumsEquation
  <2>2. Sums(f, S)[S] = SumStep(f, Sums(f, S), S)
    BY <2>1
  <2> QED BY <2>2, SumIsSums
<1>2. CASE S = {}
  BY <1>1, <1>2 DEF SumStep
<1>3. CASE S # {}
  <2> DEFINE x == CHOOSE y \in S : TRUE
             r == S \ {x}
  <2>1. x \in S /\ r \in SUBSET S
    BY <1>3
  <2>2. IsFiniteSet(r)
    BY <2>1, FS_Subset
  <2>3. Sums(f, S)[r] = Sums(f, r)[r]
    <3> HIDE DEF r
    <3> QED BY <2>1, <2>2, SumIsLocal
  <2>4. Sums(f, r)[r] = SumFunctionOnSet(f, r)
    BY SumIsSums
  <2>5. SumFunctionOnSet(f, S) = f[x] + Sums(f, S)[r]
    BY <1>1, <1>3 DEF SumStep
  <2> QED BY <2>1, <2>3, <2>4, <2>5
<1> QED BY <1>2, <1>3

\* Any element may be taken first, and the sum is a number.
LEMMA SumElement ==
  ASSUME NEW S, IsFiniteSet(S), NEW f, \A x \in S : f[x] \in Nat
  PROVE  /\ SumFunctionOnSet(f, S) \in Nat
         /\ \A x \in S : /\ SumFunctionOnSet(f, S \ {x}) \in Nat
                         /\ SumFunctionOnSet(f, S) = f[x] + SumFunctionOnSet(f, S \ {x})
<1> DEFINE Total(s) == SumFunctionOnSet(f, s)
           Right(s) == /\ Total(s) \in Nat
                       /\ \A x \in s : Total(s \ {x}) \in Nat /\ Total(s) = f[x] + Total(s \ {x})
           Wrong == {s \in SUBSET S : ~Right(s)}
<1>1. SUFFICES ASSUME Wrong # {} PROVE FALSE
  OBVIOUS
<1>2. PICK t \in SUBSET S : t \in Wrong /\ \A u \in Wrong : u \subseteq t => u = t
  <2>1. Wrong \in SUBSET SUBSET S
    OBVIOUS
  <2> HIDE DEF Wrong
  <2> QED BY <1>1, <2>1, SmallestSubset
<1>3. ~Right(t)
  BY <1>2
<1>4. \A u \in SUBSET t : u # t => Right(u)
  <2> HIDE DEF Right
  <2> QED BY <1>2
<1> HIDE DEF Wrong
<1>5. IsFiniteSet(t) /\ \A s \in SUBSET S : IsFiniteSet(s)
  BY FS_Subset
<1>6. CASE t = {}
  BY <1>3, <1>5, <1>6, SumChosen
<1>7. CASE t # {}
  <2>1. PICK c \in t : Total(t) = f[c] + Total(t \ {c})
    BY <1>5, <1>7, SumChosen
  <2>2. \A x \in t : Right(t \ {x})
    <3> HIDE DEF Right
    <3> QED BY <1>4
  <2> HIDE DEF Total
  <2>3. \A x \in t : Total(t \ {x}) \in Nat
    BY <2>2
  <2>4. Total(t) \in Nat
    BY <2>1, <2>3
  <2>5. ASSUME NEW x \in t, x # c PROVE Total(t) = f[x] + Total(t \ {x})
    <3>1. Total(t \ {c}) = f[x] + Total((t \ {c}) \ {x})
      BY <2>2, <2>5
    <3>2. Total(t \ {x}) = f[c] + Total((t \ {x}) \ {c})
      BY <2>2, <2>5
    <3>3. (t \ {c}) \ {x} = (t \ {x}) \ {c}
      OBVIOUS
    <3>4. Total((t \ {c}) \ {x}) \in Nat /\ f[x] \in Nat /\ f[c] \in Nat
      BY <2>2, <2>5
    <3> QED BY <2>1, <3>1, <3>2, <3>3, <3>4
  <2> QED BY <1>3, <2>1, <2>3, <2>4, <2>5
<1> QED BY <1>6, <1>7

\* The sum of a set with one more element.
LEMMA SumAdjoin ==
  ASSUME NEW S, IsFiniteSet(S), NEW x, x \notin S, NEW f, \A y \in S \cup {x} : f[y] \in Nat
  PROVE  SumFunctionOnSet(f, S \cup {x}) = f[x] + SumFunctionOnSet(f, S)
<1>1. IsFiniteSet(S \cup {x}) /\ (S \cup {x}) \ {x} = S
  BY FS_AddElement
<1> QED BY <1>1, SumElement

\* Functions that agree on a set have the same sum.
LEMMA SumCongruent ==
  ASSUME NEW S, IsFiniteSet(S), NEW f, NEW g, \A x \in S : f[x] \in Nat /\ g[x] = f[x]
  PROVE  SumFunctionOnSet(g, S) = SumFunctionOnSet(f, S)
<1> DEFINE Wrong == {s \in SUBSET S : SumFunctionOnSet(g, s) # SumFunctionOnSet(f, s)}
<1>1. SUFFICES ASSUME Wrong # {} PROVE FALSE
  OBVIOUS
<1>2. PICK t \in SUBSET S : t \in Wrong /\ \A u \in Wrong : u \subseteq t => u = t
  <2>1. Wrong \in SUBSET SUBSET S
    OBVIOUS
  <2> HIDE DEF Wrong
  <2> QED BY <1>1, <2>1, SmallestSubset
<1>3. IsFiniteSet(t) /\ SumFunctionOnSet(g, t) # SumFunctionOnSet(f, t)
  BY <1>2, FS_Subset
<1>4. \A x \in t : SumFunctionOnSet(g, t \ {x}) = SumFunctionOnSet(f, t \ {x})
  BY <1>2
<1> HIDE DEF Wrong
<1>5. \A x \in t : SumFunctionOnSet(f, t) = f[x] + SumFunctionOnSet(f, t \ {x})
  BY <1>3, SumElement
<1>6. \A x \in t : SumFunctionOnSet(g, t) = g[x] + SumFunctionOnSet(g, t \ {x})
  BY <1>3, SumElement
<1>7. CASE t = {}
  BY <1>3, <1>7, SumChosen
<1>8. CASE t # {}
  <2>1. PICK x \in t : TRUE
    BY <1>8
  <2> QED BY <1>3, <1>4, <1>5, <1>6, <2>1
<1> QED BY <1>7, <1>8

\* A larger function on a larger set has a larger sum; no element exceeds the sum.
LEMMA SumMonotone ==
  ASSUME NEW S, IsFiniteSet(S), NEW R \in SUBSET S, NEW f, NEW g,
         \A x \in S : f[x] \in Nat, \A x \in R : g[x] \in Nat /\ g[x] <= f[x]
  PROVE  SumFunctionOnSet(g, R) <= SumFunctionOnSet(f, S)
<1> DEFINE Wrong == {s \in SUBSET S : ~(SumFunctionOnSet(g, s \cap R) <= SumFunctionOnSet(f, s))}
<1>1. SUFFICES ASSUME Wrong # {} PROVE FALSE
  <2>1. S \notin Wrong /\ S \cap R = R
    BY <1>1
  <2> QED BY <2>1
<1>2. PICK t \in SUBSET S : t \in Wrong /\ \A u \in Wrong : u \subseteq t => u = t
  <2>1. Wrong \in SUBSET SUBSET S
    OBVIOUS
  <2> HIDE DEF Wrong
  <2> QED BY <1>1, <2>1, SmallestSubset
<1>3. /\ IsFiniteSet(t) /\ IsFiniteSet(t \cap R)
      /\ ~(SumFunctionOnSet(g, t \cap R) <= SumFunctionOnSet(f, t))
  BY <1>2, FS_Subset
<1>4. \A x \in t : SumFunctionOnSet(g, (t \ {x}) \cap R) <= SumFunctionOnSet(f, t \ {x})
  BY <1>2
<1> HIDE DEF Wrong
<1>5. /\ SumFunctionOnSet(f, t) \in Nat
      /\ \A x \in t : /\ SumFunctionOnSet(f, t \ {x}) \in Nat
                      /\ SumFunctionOnSet(f, t) = f[x] + SumFunctionOnSet(f, t \ {x})
  BY <1>3, SumElement
<1>6. /\ SumFunctionOnSet(g, t \cap R) \in Nat
      /\ \A x \in t \cap R : /\ SumFunctionOnSet(g, (t \cap R) \ {x}) \in Nat
                             /\ SumFunctionOnSet(g, t \cap R) = g[x] + SumFunctionOnSet(g, (t \cap R) \ {x})
  <2>1. \A x \in t \cap R : g[x] \in Nat
    OBVIOUS
  <2> QED BY <1>3, <2>1, SumElement
<1>7. CASE t = {}
  <2>1. t \cap R = {}
    BY <1>7
  <2> QED BY <1>3, <1>7, <2>1, SumChosen
<1>8. CASE t # {}
  <2>1. PICK x \in t : TRUE
    BY <1>8
  <2>2. f[x] \in Nat /\ (x \in R => g[x] \in Nat /\ g[x] <= f[x])
    BY <2>1
  <2>3. CASE x \in R
    <3>1. (t \ {x}) \cap R = (t \cap R) \ {x}
      OBVIOUS
    <3>2. /\ SumFunctionOnSet(g, t \cap R) = g[x] + SumFunctionOnSet(g, (t \cap R) \ {x})
          /\ SumFunctionOnSet(g, (t \cap R) \ {x}) \in Nat
      BY <1>6, <2>1, <2>3
    <3>3. SumFunctionOnSet(g, (t \cap R) \ {x}) <= SumFunctionOnSet(f, t \ {x})
      BY <1>4, <2>1, <3>1
    <3>4. /\ SumFunctionOnSet(f, t) = f[x] + SumFunctionOnSet(f, t \ {x})
          /\ SumFunctionOnSet(f, t \ {x}) \in Nat
      BY <1>5, <2>1
    <3> QED BY <1>3, <2>2, <2>3, <3>2, <3>3, <3>4
  <2>4. CASE x \notin R
    <3>1. (t \ {x}) \cap R = t \cap R
      BY <2>4
    <3>2. SumFunctionOnSet(g, t \cap R) <= SumFunctionOnSet(f, t \ {x})
      BY <1>4, <2>1, <3>1
    <3> QED BY <1>3, <1>5, <1>6, <2>1, <2>2, <3>2
  <2> QED BY <2>3, <2>4
<1> QED BY <1>7, <1>8

\* What a change at one argument does to a sum.
LEMMA SumUpdate ==
  ASSUME NEW S, IsFiniteSet(S), NEW x \in S, NEW f, NEW g,
         \A y \in S : f[y] \in Nat /\ g[y] \in Nat, \A y \in S \ {x} : g[y] = f[y]
  PROVE  SumFunctionOnSet(g, S) + f[x] = SumFunctionOnSet(f, S) + g[x]
<1>1. IsFiniteSet(S \ {x})
  BY FS_Subset
<1>2. SumFunctionOnSet(g, S \ {x}) = SumFunctionOnSet(f, S \ {x})
  BY <1>1, SumCongruent
<1>3. /\ SumFunctionOnSet(f, S \ {x}) \in Nat
      /\ SumFunctionOnSet(f, S) = f[x] + SumFunctionOnSet(f, S \ {x})
  BY SumElement
<1>4. SumFunctionOnSet(g, S) = g[x] + SumFunctionOnSet(g, S \ {x})
  BY SumElement
<1> QED BY <1>2, <1>3, <1>4

\* Sums are additive.
LEMMA SumAdds ==
  ASSUME NEW S, IsFiniteSet(S), NEW f, NEW g, NEW h,
         \A x \in S : f[x] \in Nat /\ g[x] \in Nat /\ h[x] = f[x] + g[x]
  PROVE  SumFunctionOnSet(h, S) = SumFunctionOnSet(f, S) + SumFunctionOnSet(g, S)
<1> DEFINE Wrong == {s \in SUBSET S : SumFunctionOnSet(h, s) #
                                        SumFunctionOnSet(f, s) + SumFunctionOnSet(g, s)}
<1>1. SUFFICES ASSUME Wrong # {} PROVE FALSE
  OBVIOUS
<1>2. PICK t \in SUBSET S : t \in Wrong /\ \A u \in Wrong : u \subseteq t => u = t
  <2>1. Wrong \in SUBSET SUBSET S
    OBVIOUS
  <2> HIDE DEF Wrong
  <2> QED BY <1>1, <2>1, SmallestSubset
<1>3. /\ IsFiniteSet(t)
      /\ SumFunctionOnSet(h, t) # SumFunctionOnSet(f, t) + SumFunctionOnSet(g, t)
  BY <1>2, FS_Subset
<1>4. \A x \in t : SumFunctionOnSet(h, t \ {x}) =
                     SumFunctionOnSet(f, t \ {x}) + SumFunctionOnSet(g, t \ {x})
  BY <1>2
<1> HIDE DEF Wrong
<1>5. CASE t = {}
  BY <1>3, <1>5, SumChosen
<1>6. CASE t # {}
  <2>1. PICK x \in t : TRUE
    BY <1>6
  <2>2. /\ SumFunctionOnSet(f, t \ {x}) \in Nat
        /\ SumFunctionOnSet(f, t) = f[x] + SumFunctionOnSet(f, t \ {x})
    BY <1>3, <2>1, SumElement
  <2>3. /\ SumFunctionOnSet(g, t \ {x}) \in Nat
        /\ SumFunctionOnSet(g, t) = g[x] + SumFunctionOnSet(g, t \ {x})
    BY <1>3, <2>1, SumElement
  <2>4. \A y \in t : h[y] \in Nat
    OBVIOUS
  <2>5. SumFunctionOnSet(h, t) = h[x] + SumFunctionOnSet(h, t \ {x})
    BY <1>3, <2>1, <2>4, SumElement
  <2>6. f[x] \in Nat /\ g[x] \in Nat /\ h[x] = f[x] + g[x]
    BY <2>1
  <2> QED BY <1>3, <1>4, <2>1, <2>2, <2>3, <2>5, <2>6
<1> QED BY <1>5, <1>6

\* A sum is 0 exactly if all its terms are.
LEMMA SumIsZero ==
  ASSUME NEW S, IsFiniteSet(S), NEW f, \A x \in S : f[x] \in Nat
  PROVE  SumFunctionOnSet(f, S) = 0 <=> \A x \in S : f[x] = 0
<1>1. SumFunctionOnSet(f, S) \in Nat
  BY SumElement
<1>2. ASSUME \A x \in S : f[x] = 0 PROVE SumFunctionOnSet(f, S) = 0
  <2>1. SumFunctionOnSet(f, S) = SumFunctionOnSet(f, S) + SumFunctionOnSet(f, S)
    <3>1. \A x \in S : f[x] \in Nat /\ f[x] \in Nat /\ f[x] = f[x] + f[x]
      BY <1>2
    <3> QED BY <3>1, SumAdds
  <2>2. \A n \in Nat : n = n + n => n = 0
    OBVIOUS
  <2> QED BY <1>1, <2>1, <2>2
<1>3. ASSUME SumFunctionOnSet(f, S) = 0, NEW x \in S PROVE f[x] = 0
  <2>1. /\ SumFunctionOnSet(f, S \ {x}) \in Nat
        /\ SumFunctionOnSet(f, S) = f[x] + SumFunctionOnSet(f, S \ {x})
    BY SumElement
  <2> QED BY <1>3, <2>1
<1> QED BY <1>2, <1>3

\* A sum over S is the sum, over the classes h puts the elements of S in, of the
\* sums of the classes.
LEMMA SumByClass ==
  ASSUME NEW S, IsFiniteSet(S), NEW R, IsFiniteSet(R), NEW h, \A x \in S : h[x] \in R,
         NEW f, \A x \in S : f[x] \in Nat,
         NEW g, \A d \in R : g[d] = SumFunctionOnSet(f, {x \in S : h[x] = d})
  PROVE  SumFunctionOnSet(g, R) = SumFunctionOnSet(f, S)
<1> DEFINE Class(s, d) == {x \in s : h[x] = d}
           Shares(s) == [d \in R |-> SumFunctionOnSet(f, Class(s, d))]
           Wrong == {s \in SUBSET S : SumFunctionOnSet(Shares(s), R) # SumFunctionOnSet(f, s)}
<1>1. \A s \in SUBSET S, d \in R : /\ IsFiniteSet(s) /\ IsFiniteSet(Class(s, d))
                                   /\ Shares(s)[d] = SumFunctionOnSet(f, Class(s, d))
                                   /\ Shares(s)[d] \in Nat
  <2>1. ASSUME NEW s \in SUBSET S, NEW d \in R
        PROVE  IsFiniteSet(Class(s, d)) /\ SumFunctionOnSet(f, Class(s, d)) \in Nat
    <3>1. IsFiniteSet(Class(s, d))
      BY FS_Subset
    <3>2. \A x \in Class(s, d) : f[x] \in Nat
      OBVIOUS
    <3> HIDE DEF Class
    <3> QED BY <3>1, <3>2, SumElement
  <2> HIDE DEF Class
  <2> QED BY <2>1, FS_Subset
<1>2. Wrong = {}
  <2>1. SUFFICES ASSUME Wrong # {} PROVE FALSE
    OBVIOUS
  <2>2. PICK t \in SUBSET S : t \in Wrong /\ \A u \in Wrong : u \subseteq t => u = t
    <3>1. Wrong \in SUBSET SUBSET S
      OBVIOUS
    <3> HIDE DEF Wrong
    <3> QED BY <2>1, <3>1, SmallestSubset
  <2>3. SumFunctionOnSet(Shares(t), R) # SumFunctionOnSet(f, t)
    BY <2>2
  <2>4. \A x \in t : SumFunctionOnSet(Shares(t \ {x}), R) = SumFunctionOnSet(f, t \ {x})
    <3> HIDE DEF Shares
    <3> QED BY <2>2
  <2> HIDE DEF Wrong
  <2>5. CASE t = {}
    <3>1. \A d \in R : Shares(t)[d] = 0
      <4>1. \A d \in R : Class(t, d) = {}
        BY <2>5
      <4> HIDE DEF Class
      <4> QED BY <4>1, FS_EmptySet, SumChosen
    <3>2. SumFunctionOnSet(Shares(t), R) = 0
      <4> HIDE DEF Shares
      <4> QED BY <3>1, SumIsZero
    <3>3. SumFunctionOnSet(f, t) = 0
      BY <2>5, FS_EmptySet, SumChosen
    <3> QED BY <2>3, <3>2, <3>3
  <2>6. CASE t # {}
    <3>1. PICK x \in t : TRUE
      BY <2>6
    <3> DEFINE u == t \ {x}
               d == h[x]
    <3>2. u \in SUBSET S /\ d \in R /\ f[x] \in Nat
      BY <3>1
    <3>3. \A e \in R \ {d} : Shares(u)[e] = Shares(t)[e]
      <4>1. \A e \in R \ {d} : Class(u, e) = Class(t, e)
        BY <3>1
      <4> HIDE DEF Class
      <4> QED BY <4>1
    <3>4. Shares(t)[d] = f[x] + Shares(u)[d]
      <4>1. Class(u, d) = Class(t, d) \ {x} /\ x \in Class(t, d)
        BY <3>1
      <4>2. \A y \in Class(t, d) : f[y] \in Nat
        OBVIOUS
      <4>3. IsFiniteSet(Class(t, d))
        BY <1>1, <3>2
      <4> HIDE DEF Class, u, d
      <4>4. SumFunctionOnSet(f, Class(t, d)) = f[x] + SumFunctionOnSet(f, Class(u, d))
        BY <4>1, <4>2, <4>3, SumElement
      <4> QED BY <3>2, <4>4
    <3>5. \A e \in R : Shares(t)[e] \in Nat /\ Shares(u)[e] \in Nat
      <4> HIDE DEF Shares, u
      <4> QED BY <1>1, <3>2
    <3>6. SumFunctionOnSet(Shares(u), R) = SumFunctionOnSet(f, u)
      BY <2>4, <3>1
    <3>7. SumFunctionOnSet(f, t) = f[x] + SumFunctionOnSet(f, u) /\ SumFunctionOnSet(f, u) \in Nat
      BY <1>1, <3>1, SumElement
    <3>8. SumFunctionOnSet(Shares(t), R) \in Nat
      <4> HIDE DEF Shares
      <4> QED BY <3>5, SumElement
    <3>9. SumFunctionOnSet(Shares(t), R) + Shares(u)[d] = SumFunctionOnSet(Shares(u), R) + Shares(t)[d]
      <4> HIDE DEF Shares, u, d
      <4> QED BY <3>2, <3>3, <3>5, SumUpdate
    <3>10. Shares(u)[d] \in Nat
      BY <3>2, <3>5
    <3> HIDE DEF Shares, u, d
    <3> QED BY <2>3, <3>2, <3>4, <3>6, <3>7, <3>8, <3>9, <3>10
  <2> QED BY <2>5, <2>6
<1>3. SumFunctionOnSet(Shares(S), R) = SumFunctionOnSet(f, S)
  BY <1>2
<1>4. \A d \in R : Shares(S)[d] \in Nat /\ g[d] = Shares(S)[d]
  BY <1>1
<1> HIDE DEF Shares
<1> QED BY <1>3, <1>4, SumCongruent

-----------------------------------------------------------------------------
(* Sequences in sequence                                                   *)

\* Induction from a number to another, with the property as a set of numbers.
LEMMA Climb ==
  ASSUME NEW a \in Nat, NEW b \in Nat, NEW G, a \in G, \A k \in a .. b - 1 : k \in G => k + 1 \in G
  PROVE  \A k \in a .. b : k \in G
<1> DEFINE Wrong == {k \in a .. b : k \notin G}
<1>1. SUFFICES ASSUME Wrong # {} PROVE FALSE
  OBVIOUS
<1>2. PICK m \in Wrong : \A k \in Wrong : m <= k
  <2>1. Wrong \in SUBSET Nat
    OBVIOUS
  <2> HIDE DEF Wrong
  <2> QED BY <1>1, <2>1, LeastNatural
<1>3. m \in a .. b /\ m \notin G /\ m # a
  BY <1>2
<1>4. m - 1 \in a .. b - 1 /\ (m - 1) + 1 = m
  BY <1>3
<1>5. m - 1 \notin Wrong
  <2> HIDE DEF Wrong
  <2> QED BY <1>2, <1>4
<1>6. m - 1 \in G
  BY <1>4, <1>5
<1> QED BY <1>3, <1>4, <1>6

\* One step of the recursion that flattens.
FlattenStep(seqs, g, i) == IF i = 1 THEN seqs[i] ELSE g[i - 1] \o seqs[i]

\* FlattenSeq, as the library defines it, is the last of a chain of concatenations.
LEMMA FlattenEquation ==
  ASSUME NEW seqs, NEW n \in Nat \ {0}, Len(seqs) = n
  PROVE  \E g : FlattenSeq(seqs) = g[n] /\ \A i \in 1 .. n : g[i] = FlattenStep(seqs, g, i)
<1> DEFINE Solves(g, m) == /\ g = [i \in 1 .. n |-> g[i]]
                           /\ \A i \in 1 .. n : i <= m => g[i] = FlattenStep(seqs, g, i)
           Unsolved == {m \in Nat : ~\E g : Solves(g, m)}
           Flatten == CHOOSE g : g = [i \in 1 .. n |-> IF i = 1 THEN seqs[i] ELSE g[i - 1] \o seqs[i]]
<1>1. Unsolved = {}
  <2>1. SUFFICES ASSUME Unsolved # {} PROVE FALSE
    OBVIOUS
  <2>2. PICK m \in Nat : m \in Unsolved /\ \A k \in Unsolved : m <= k
    <3>1. Unsolved \in SUBSET Nat
      OBVIOUS
    <3> HIDE DEF Unsolved
    <3> QED BY <2>1, <3>1, LeastNatural
  <2>3. m # 0
    <3>1. Solves([i \in 1 .. n |-> 0], 0)
      OBVIOUS
    <3> HIDE DEF Solves
    <3> QED BY <2>2, <3>1
  <2>4. PICK g : Solves(g, m - 1)
    <3>1. m - 1 \in Nat /\ m - 1 \notin Unsolved
      <4> HIDE DEF Unsolved
      <4> QED BY <2>2, <2>3
    <3> HIDE DEF Solves
    <3> QED BY <3>1
  <2> DEFINE h == [i \in 1 .. n |-> FlattenStep(seqs, g, i)]
  <2>5. ASSUME NEW i \in 1 .. n, i <= m PROVE h[i] = FlattenStep(seqs, h, i)
    <3>1. CASE i = 1
      BY <3>1 DEF FlattenStep
    <3>2. CASE i # 1
      <4>1. i - 1 \in 1 .. n /\ i - 1 <= m - 1
        BY <2>5, <3>2
      <4>2. g[i - 1] = FlattenStep(seqs, g, i - 1)
        <5> HIDE DEF FlattenStep
        <5> QED BY <2>4, <4>1
      <4>3. h[i - 1] = g[i - 1]
        BY <4>1, <4>2
      <4> QED BY <3>2, <4>3 DEF FlattenStep
    <3> QED BY <3>1, <3>2
  <2>6. Solves(h, m)
    <3>1. h = [i \in 1 .. n |-> h[i]]
      OBVIOUS
    <3> HIDE DEF h
    <3> QED BY <2>5, <3>1
  <2> HIDE DEF h, Solves
  <2> QED BY <2>2, <2>6
<1>2. PICK g : Solves(g, n)
  BY <1>1
<1>3. g = [i \in 1 .. n |-> IF i = 1 THEN seqs[i] ELSE g[i - 1] \o seqs[i]]
  <2>a. \A i \in 1 .. n : i <= n => g[i] = FlattenStep(seqs, g, i)
    BY <1>2
  <2>1. \A i \in 1 .. n : g[i] = IF i = 1 THEN seqs[i] ELSE g[i - 1] \o seqs[i]
    BY <2>a DEF FlattenStep
  <2>2. g = [i \in 1 .. n |-> g[i]]
    BY <1>2
  <2> QED BY <2>1, <2>2
<1>4. Flatten = [i \in 1 .. n |-> IF i = 1 THEN seqs[i] ELSE Flatten[i - 1] \o seqs[i]]
  BY <1>3
<1>5. FlattenSeq(seqs) = Flatten[n]
  BY DEF FlattenSeq
<1> HIDE DEF Flatten
<1>6. \A i \in 1 .. n : Flatten[i] = FlattenStep(seqs, Flatten, i)
  BY <1>4 DEF FlattenStep
<1> QED BY <1>5, <1>6

\* L[n] \o ... \o L[1] \o L[0]
Flat(n, L) == FlattenSeq([k \in 1 .. n + 1 |-> L[n + 1 - k]])

Chained(n, L, h) == h[0] = <<>> /\ \A k \in 0 .. n : h[k + 1] = h[k] \o L[n - k]

\* The chain of concatenations by which it is made.
LEMMA FlatChain ==
  ASSUME NEW S, NEW n \in Nat, NEW L \in [0 .. n -> Seq(S)]
  PROVE  \E h : Flat(n, L) = h[n + 1] /\ Chained(n, L, h) /\ \A k \in 0 .. n + 1 : h[k] \in Seq(S)
<1> DEFINE seqs == [k \in 1 .. n + 1 |-> L[n + 1 - k]]
<1>1. /\ Len(seqs) = n + 1 /\ n + 1 \in Nat \ {0} /\ Flat(n, L) = FlattenSeq(seqs)
      /\ \A k \in 1 .. n + 1 : seqs[k] = L[n + 1 - k] /\ seqs[k] \in Seq(S)
  BY DEF Flat
<1> HIDE DEF seqs
<1>2. PICK g : FlattenSeq(seqs) = g[n + 1] /\ \A i \in 1 .. n + 1 : g[i] = FlattenStep(seqs, g, i)
  BY <1>1, FlattenEquation
<1>3. \A k \in 1 .. n + 1 : g[k] \in Seq(S)
  <2> DEFINE G == {k \in 1 .. n + 1 : g[k] \in Seq(S)}
  <2>1. 1 \in G
    BY <1>1, <1>2 DEF FlattenStep
  <2>2. \A k \in 1 .. (n + 1) - 1 : k \in G => k + 1 \in G
    <3> SUFFICES ASSUME NEW k \in 1 .. n, k \in G PROVE g[k + 1] \in Seq(S)
      OBVIOUS
    <3>1. k + 1 \in 1 .. n + 1 /\ k + 1 # 1 /\ (k + 1) - 1 = k
      OBVIOUS
    <3>2. g[k + 1] = g[k] \o seqs[k + 1]
      BY <1>2, <3>1 DEF FlattenStep
    <3>3. g[k] \in Seq(S) /\ seqs[k + 1] \in Seq(S)
      BY <1>1, <3>1
    <3> QED BY <3>2, <3>3, ConcatProperties
  <2> HIDE DEF G
  <2>3. 1 \in Nat /\ n + 1 \in Nat
    OBVIOUS
  <2>4. \A k \in 1 .. n + 1 : k \in G
    BY <2>1, <2>2, <2>3, Climb
  <2> QED BY <2>4 DEF G
<1> DEFINE h == [k \in 0 .. n + 1 |-> IF k = 0 THEN <<>> ELSE g[k]]
<1>4. \A k \in 0 .. n + 1 : h[k] \in Seq(S)
  BY <1>3
<1>5. Chained(n, L, h)
  <2>0. h[0] = <<>>
    OBVIOUS
  <2>4. ASSUME NEW k \in 0 .. n PROVE h[k + 1] = h[k] \o L[n - k]
    <3>1. k + 1 \in 1 .. n + 1 /\ seqs[k + 1] = L[n - k] /\ L[n - k] \in Seq(S)
      BY <1>1
    <3>2. g[k + 1] = FlattenStep(seqs, g, k + 1) /\ h[k + 1] = g[k + 1]
      BY <1>2, <3>1
    <3>3. CASE k = 0
      <4>1. g[k + 1] = L[n - k]
        BY <3>1, <3>2, <3>3 DEF FlattenStep
      <4>2. <<>> \o L[n - k] = L[n - k]
        BY <3>1, ConcatEmptySeq
      <4> HIDE DEF h
      <4> QED BY <2>0, <3>2, <3>3, <4>1, <4>2
    <3>4. CASE k # 0
      <4>1. k + 1 # 1 /\ (k + 1) - 1 = k /\ h[k] = g[k]
        BY <3>4
      <4> HIDE DEF h
      <4> QED BY <3>1, <3>2, <4>1 DEF FlattenStep
    <3> QED BY <3>3, <3>4
  <2> HIDE DEF h
  <2> QED BY <2>0, <2>4 DEF Chained
<1>6. h[n + 1] = g[n + 1]
  OBVIOUS
<1> HIDE DEF h
<1> QED BY <1>1, <1>2, <1>4, <1>5, <1>6

\* The type of what is made.
LEMMA FlatType ==
  ASSUME NEW S, NEW n \in Nat, NEW L \in [0 .. n -> Seq(S)]
  PROVE  Flat(n, L) \in Seq(S)
<1>1. PICK h : Flat(n, L) = h[n + 1] /\ Chained(n, L, h) /\ \A k \in 0 .. n + 1 : h[k] \in Seq(S)
  BY FlatChain
<1>2. n + 1 \in 0 .. n + 1
  OBVIOUS
<1> QED BY <1>1, <1>2

Agree(L, M, a, b) == \A i \in a .. b : M[i] = L[i]
AllEmpty(L, a, b) == \A i \in a .. b : L[i] = <<>>

\* Sequences that are empty down to the j-th make nothing.
LEMMA ChainEmpty ==
  ASSUME NEW n \in Nat, NEW L, NEW h, Chained(n, L, h),
         NEW j \in 0 .. n + 1, AllEmpty(L, j, n), NEW e \in 0 .. n + 1 - j
  PROVE  h[e] = <<>>
<1> DEFINE G == {k \in 0 .. n + 1 - j : h[k] = <<>>}
<1>1. 0 \in G
  BY DEF Chained
<1>2. \A k \in 0 .. (n + 1 - j) - 1 : k \in G => k + 1 \in G
  <2> SUFFICES ASSUME NEW k \in 0 .. n - j, k \in G PROVE h[k + 1] = <<>>
    OBVIOUS
  <2>1. k \in 0 .. n /\ n - k \in j .. n
    OBVIOUS
  <2>2. h[k + 1] = h[k] \o L[n - k] /\ h[k] = <<>> /\ L[n - k] = <<>>
    BY <2>1 DEF Chained, AllEmpty
  <2>3. <<>> \in Seq({})
    OBVIOUS
  <2>4. <<>> \o <<>> = <<>>
    BY <2>3, ConcatEmptySeq
  <2> QED BY <2>2, <2>4
<1> HIDE DEF G
<1>3. 0 \in Nat /\ n + 1 - j \in Nat
  OBVIOUS
<1>4. \A k \in 0 .. n + 1 - j : k \in G
  BY <1>1, <1>2, <1>3, Climb
<1> QED BY <1>4 DEF G

\* Sequences that agree down to the j-th make the same chain.
LEMMA ChainAgrees ==
  ASSUME NEW n \in Nat, NEW L, NEW M, NEW h, NEW g, Chained(n, L, h), Chained(n, M, g),
         NEW j \in 0 .. n + 1, Agree(L, M, j, n), NEW e \in 0 .. n + 1 - j
  PROVE  g[e] = h[e]
<1> DEFINE G == {k \in 0 .. n + 1 - j : g[k] = h[k]}
<1>1. 0 \in G
  BY DEF Chained
<1>2. \A k \in 0 .. (n + 1 - j) - 1 : k \in G => k + 1 \in G
  <2> SUFFICES ASSUME NEW k \in 0 .. n - j, k \in G PROVE g[k + 1] = h[k + 1]
    OBVIOUS
  <2>1. k \in 0 .. n /\ n - k \in j .. n
    OBVIOUS
  <2> QED BY <2>1 DEF Chained, Agree
<1> HIDE DEF G
<1>3. 0 \in Nat /\ n + 1 - j \in Nat
  OBVIOUS
<1>4. \A k \in 0 .. n + 1 - j : k \in G
  BY <1>1, <1>2, <1>3, Climb
<1> QED BY <1>4 DEF G

\* A sequence that got x at its end.
Lengthened(s, x, t) == t = s \o x

LEMMA Regrouped ==
  ASSUME NEW S, NEW x \in Seq(S), NEW s \in Seq(S), NEW t \in Seq(S)
  PROVE  (t \o s) \o x = t \o (s \o x)
BY ConcatAssociative

\* A concatenation gets what its last part gets.
LEMMA ConcatLengthened ==
  ASSUME NEW S, NEW x \in Seq(S), NEW s \in Seq(S), NEW t \in Seq(S), NEW v, Lengthened(s, x, v)
  PROVE  Lengthened(t \o s, x, t \o v)
<1>1. v = s \o x
  BY DEF Lengthened
<1> QED BY <1>1, Regrouped DEF Lengthened

\* A sequence that grows at its end, when those after it are empty.
LEMMA FlatGrows ==
  ASSUME NEW S, NEW n \in Nat, NEW L \in [0 .. n -> Seq(S)], NEW M \in [0 .. n -> Seq(S)],
         NEW j \in 0 .. n, NEW x \in Seq(S), M[j] = L[j] \o x,
         \A i \in 0 .. n : i # j => M[i] = L[i], \A i \in 0 .. j - 1 : L[i] = <<>>
  PROVE  Flat(n, M) = Flat(n, L) \o x
<1>1. PICK h : Flat(n, L) = h[n + 1] /\ Chained(n, L, h) /\ \A k \in 0 .. n + 1 : h[k] \in Seq(S)
  BY FlatChain
<1>2. PICK g : Flat(n, M) = g[n + 1] /\ Chained(n, M, g) /\ \A k \in 0 .. n + 1 : g[k] \in Seq(S)
  BY FlatChain
<1>3. g[n - j] = h[n - j]
  <2>1. j + 1 \in 0 .. n + 1 /\ n - j \in 0 .. n + 1 - (j + 1) /\ Agree(L, M, j + 1, n)
    BY DEF Agree
  <2> QED BY <1>1, <1>2, <2>1, ChainAgrees
<1> DEFINE G == {k \in n + 1 - j .. n + 1 : g[k] = h[k] \o x}
<1>4. n + 1 - j \in G
  <2>1. n - j \in 0 .. n /\ n - j \in 0 .. n + 1 /\ n - (n - j) = j /\ (n - j) + 1 = n + 1 - j
    OBVIOUS
  <2>2. g[n + 1 - j] = h[n - j] \o M[j] /\ h[n + 1 - j] = h[n - j] \o L[j]
    BY <1>1, <1>2, <1>3, <2>1 DEF Chained
  <2>3. h[n - j] \in Seq(S) /\ L[j] \in Seq(S)
    BY <1>1, <2>1
  <2>4. \A s, t \in Seq(S) : \A v : Lengthened(s, x, v) => Lengthened(t \o s, x, t \o v)
    BY ConcatLengthened
  <2>5. Lengthened(L[j], x, M[j])
    BY DEF Lengthened
  <2>6. Lengthened(h[n - j] \o L[j], x, h[n - j] \o M[j])
    BY <2>3, <2>4, <2>5
  <2>7. n + 1 - j \in n + 1 - j .. n + 1
    OBVIOUS
  <2> QED BY <2>2, <2>6, <2>7 DEF Lengthened
<1>5. \A k \in n + 1 - j .. (n + 1) - 1 : k \in G => k + 1 \in G
  <2>0. (n + 1) - 1 = n
    OBVIOUS
  <2> SUFFICES ASSUME NEW k \in n + 1 - j .. n, k \in G PROVE k + 1 \in G
    BY <2>0
  <2>1. k \in 0 .. n /\ n - k \in 0 .. j - 1 /\ n - k \in 0 .. n /\ n - k # j /\ k + 1 \in n + 1 - j .. n + 1
    OBVIOUS
  <2>2. L[n - k] = <<>> /\ M[n - k] = <<>>
    BY <2>1
  <2>3. g[k + 1] = g[k] \o <<>> /\ h[k + 1] = h[k] \o <<>>
    BY <1>1, <1>2, <2>1, <2>2 DEF Chained
  <2>4. g[k] \in Seq(S) /\ h[k] \in Seq(S)
    BY <1>1, <1>2, <2>1
  <2>5. g[k + 1] = g[k] /\ h[k + 1] = h[k]
    BY <2>3, <2>4, ConcatEmptySeq
  <2> QED BY <2>1, <2>5
<1>6. n + 1 - j \in Nat /\ n + 1 \in Nat /\ n + 1 \in n + 1 - j .. n + 1
  OBVIOUS
<1> HIDE DEF G
<1>7. \A k \in n + 1 - j .. n + 1 : k \in G
  BY <1>4, <1>5, <1>6, Climb
<1>8. n + 1 \in G
  BY <1>6, <1>7
<1> QED BY <1>1, <1>2, <1>8 DEF G

\* A sequence that lost the first c of its elements.
Shortened(s, c, t) == c \in 0 .. Len(s) /\ t = SubSeq(s, c + 1, Len(s))

\* A concatenation loses what its first part loses.
LEMMA SuffixOfConcat ==
  ASSUME NEW S, NEW s \in Seq(S), NEW t \in Seq(S), NEW c, NEW v, Shortened(s, c, v)
  PROVE  Shortened(s \o t, c, v \o t)
<1> DEFINE u == s \o t
<1>0. c \in 0 .. Len(s) /\ v = SubSeq(s, c + 1, Len(s)) /\ u = s \o t
  BY DEF Shortened
<1> HIDE DEF u
<1> DEFINE p == SubSeq(u, c + 1, Len(u))
           q == SubSeq(s, c + 1, Len(s))
<1>1. /\ u \in Seq(S) /\ Len(u) = Len(s) + Len(t) /\ Len(s) \in Nat /\ Len(t) \in Nat
      /\ \A i \in 1 .. Len(s) + Len(t) : u[i] = IF i <= Len(s) THEN s[i] ELSE t[i - Len(s)]
  BY <1>0, ConcatProperties
<1>2. \A i \in c + 1 .. Len(u) : u[i] \in S
  BY <1>0, <1>1, ElementOfSeq
<1>3. \A i \in c + 1 .. Len(s) : s[i] \in S
  BY <1>0, <1>1, ElementOfSeq
<1>4. /\ p \in Seq(S) /\ Len(p) = (IF c + 1 <= Len(u) THEN Len(u) - (c + 1) + 1 ELSE 0)
      /\ \A i \in 1 .. Len(u) - (c + 1) + 1 : p[i] = u[c + 1 + i - 1]
  BY <1>0, <1>1, <1>2, SubSeqProperties
<1>5. /\ q \in Seq(S) /\ Len(q) = (IF c + 1 <= Len(s) THEN Len(s) - (c + 1) + 1 ELSE 0)
      /\ \A i \in 1 .. Len(s) - (c + 1) + 1 : q[i] = s[c + 1 + i - 1]
  BY <1>0, <1>1, <1>3, SubSeqProperties
<1> HIDE DEF p, q
<1>6. /\ Len(p) = Len(s) + Len(t) - c /\ Len(q) = Len(s) - c
      /\ \A i \in 1 .. Len(s) + Len(t) - c : p[i] = u[c + i]
      /\ \A i \in 1 .. Len(s) - c : q[i] = s[c + i]
  <2>1. Len(p) = Len(s) + Len(t) - c /\ Len(q) = Len(s) - c
    BY <1>0, <1>1, <1>4, <1>5
  <2>2. ASSUME NEW i \in 1 .. Len(s) + Len(t) - c PROVE p[i] = u[c + i]
    <3>1. i \in 1 .. Len(u) - (c + 1) + 1 /\ c + 1 + i - 1 = c + i
      BY <1>0, <1>1
    <3> QED BY <1>4, <3>1
  <2>3. ASSUME NEW i \in 1 .. Len(s) - c PROVE q[i] = s[c + i]
    <3>1. i \in 1 .. Len(s) - (c + 1) + 1 /\ c + 1 + i - 1 = c + i
      BY <1>0, <1>1
    <3> QED BY <1>5, <3>1
  <2> QED BY <2>1, <2>2, <2>3
<1>7. /\ q \o t \in Seq(S) /\ Len(q \o t) = Len(q) + Len(t)
      /\ \A i \in 1 .. Len(q) + Len(t) : (q \o t)[i] = IF i <= Len(q) THEN q[i] ELSE t[i - Len(q)]
  BY <1>5, ConcatProperties
<1> DEFINE r == q \o t
<1>8. /\ r \in Seq(S) /\ Len(r) = Len(s) + Len(t) - c
      /\ \A i \in 1 .. Len(s) + Len(t) - c : r[i] = IF i <= Len(s) - c THEN q[i] ELSE t[i - (Len(s) - c)]
  BY <1>0, <1>1, <1>6, <1>7
<1> HIDE DEF r
<1>9. \A i \in 1 .. Len(p) : p[i] = r[i]
  <2> SUFFICES ASSUME NEW i \in 1 .. Len(s) + Len(t) - c PROVE p[i] = r[i]
    BY <1>6
  <2>1. c + i \in 1 .. Len(s) + Len(t) /\ (c + i) - Len(s) = i - (Len(s) - c)
    BY <1>0, <1>1
  <2>2. p[i] = IF c + i <= Len(s) THEN s[c + i] ELSE t[i - (Len(s) - c)]
    BY <1>0, <1>1, <1>6, <2>1
  <2>3. CASE i <= Len(s) - c
    BY <1>0, <1>1, <1>6, <1>8, <2>2, <2>3
  <2>4. CASE i > Len(s) - c
    BY <1>0, <1>1, <1>6, <1>8, <2>2, <2>4
  <2> QED BY <1>0, <1>1, <2>3, <2>4
<1>10. p = r
  <2>1. p \in Seq(S) /\ r \in Seq(S) /\ Len(p) = Len(r)
    BY <1>4, <1>6, <1>8
  <2> QED BY <1>9, <2>1, SeqEqual
<1>11. c \in 0 .. Len(u)
  BY <1>0, <1>1
<1> QED BY <1>0, <1>10, <1>11 DEF p, q, r, Shortened

\* The first sequence that is not empty loses its beginning.
LEMMA FlatShrinks ==
  ASSUME NEW S, NEW n \in Nat, NEW L \in [0 .. n -> Seq(S)], NEW M \in [0 .. n -> Seq(S)],
         NEW j \in 0 .. n, NEW c, Shortened(L[j], c, M[j]),
         \A i \in 0 .. n : i # j => M[i] = L[i], \A i \in j + 1 .. n : L[i] = <<>>
  PROVE  Shortened(Flat(n, L), c, Flat(n, M))
<1>1. PICK h : Flat(n, L) = h[n + 1] /\ Chained(n, L, h) /\ \A k \in 0 .. n + 1 : h[k] \in Seq(S)
  BY FlatChain
<1>2. PICK g : Flat(n, M) = g[n + 1] /\ Chained(n, M, g) /\ \A k \in 0 .. n + 1 : g[k] \in Seq(S)
  BY FlatChain
<1>3. g[n - j] = <<>> /\ h[n - j] = <<>>
  <2>1. /\ j + 1 \in 0 .. n + 1 /\ n - j \in 0 .. n + 1 - (j + 1)
        /\ AllEmpty(L, j + 1, n) /\ AllEmpty(M, j + 1, n)
    BY DEF AllEmpty
  <2>2. h[n - j] = <<>>
    BY <1>1, <2>1, ChainEmpty
  <2>3. g[n - j] = <<>>
    BY <1>2, <2>1, ChainEmpty
  <2> QED BY <2>2, <2>3
<1> DEFINE G == {k \in n + 1 - j .. n + 1 : Shortened(h[k], c, g[k])}
<1>4. n + 1 - j \in G
  <2>1. n - j \in 0 .. n /\ n - (n - j) = j /\ (n - j) + 1 = n + 1 - j
    OBVIOUS
  <2>2. g[n + 1 - j] = <<>> \o M[j] /\ h[n + 1 - j] = <<>> \o L[j]
    BY <1>1, <1>2, <1>3, <2>1 DEF Chained
  <2>3. M[j] \in Seq(S) /\ L[j] \in Seq(S)
    OBVIOUS
  <2>4. <<>> \o M[j] = M[j] /\ <<>> \o L[j] = L[j]
    BY <2>3, ConcatEmptySeq
  <2>5. n + 1 - j \in n + 1 - j .. n + 1
    OBVIOUS
  <2> QED BY <2>2, <2>4, <2>5
<1>5. \A k \in n + 1 - j .. (n + 1) - 1 : k \in G => k + 1 \in G
  <2>0. (n + 1) - 1 = n
    OBVIOUS
  <2> SUFFICES ASSUME NEW k \in n + 1 - j .. n, k \in G PROVE k + 1 \in G
    BY <2>0
  <2>1. k \in 0 .. n /\ k \in 0 .. n + 1 /\ n - k \in 0 .. n /\ n - k # j /\ k + 1 \in n + 1 - j .. n + 1
    OBVIOUS
  <2>2. M[n - k] = L[n - k] /\ L[n - k] \in Seq(S) /\ h[k] \in Seq(S)
    BY <1>1, <2>1
  <2>3. g[k + 1] = g[k] \o L[n - k] /\ h[k + 1] = h[k] \o L[n - k]
    BY <1>1, <1>2, <2>1, <2>2 DEF Chained
  <2>4. \A s, t \in Seq(S) : \A v : Shortened(s, c, v) => Shortened(s \o t, c, v \o t)
    BY SuffixOfConcat
  <2>5. Shortened(h[k], c, g[k])
    OBVIOUS
  <2>6. Shortened(h[k] \o L[n - k], c, g[k] \o L[n - k])
    BY <2>2, <2>4, <2>5
  <2> QED BY <2>1, <2>3, <2>6
<1>6. n + 1 - j \in Nat /\ n + 1 \in Nat /\ n + 1 \in n + 1 - j .. n + 1
  OBVIOUS
<1> HIDE DEF G
<1>7. \A k \in n + 1 - j .. n + 1 : k \in G
  BY <1>4, <1>5, <1>6, Climb
<1>8. n + 1 \in G
  BY <1>6, <1>7
<1> QED BY <1>1, <1>2, <1>8 DEF G

\* The j-th sequence takes the place of the next, which was empty.
Moved(L, M, n, j) ==
  /\ L[j + 1] = <<>> /\ M[j + 1] = L[j] /\ M[j] = <<>>
  /\ \A i \in 0 .. n : i # j /\ i # j + 1 => M[i] = L[i]

\* A sequence takes the place of the empty one before it.
LEMMA FlatMoves ==
  ASSUME NEW S, NEW n \in Nat, NEW L \in [0 .. n -> Seq(S)], NEW M \in [0 .. n -> Seq(S)],
         NEW j \in 0 .. n - 1, Moved(L, M, n, j)
  PROVE  Flat(n, M) = Flat(n, L)
<1>0. /\ L[j + 1] = <<>> /\ M[j + 1] = L[j] /\ M[j] = <<>>
      /\ \A i \in 0 .. n : i # j /\ i # j + 1 => M[i] = L[i]
  BY DEF Moved
<1>1. PICK h : Flat(n, L) = h[n + 1] /\ Chained(n, L, h) /\ \A k \in 0 .. n + 1 : h[k] \in Seq(S)
  BY FlatChain
<1>2. PICK g : Flat(n, M) = g[n + 1] /\ Chained(n, M, g) /\ \A k \in 0 .. n + 1 : g[k] \in Seq(S)
  BY FlatChain
<1>3. g[n - j - 1] = h[n - j - 1]
  <2>1. j + 2 \in 0 .. n + 1 /\ n - j - 1 \in 0 .. n + 1 - (j + 2) /\ Agree(L, M, j + 2, n)
    BY <1>0 DEF Agree
  <2> QED BY <1>1, <1>2, <2>1, ChainAgrees
<1> DEFINE G == {k \in n + 1 - j .. n + 1 : g[k] = h[k]}
<1>4. n + 1 - j \in G
  <2>1. /\ n - j - 1 \in 0 .. n /\ n - (n - j - 1) = j + 1 /\ (n - j - 1) + 1 = n - j
        /\ n - j \in 0 .. n /\ n - (n - j) = j /\ (n - j) + 1 = n + 1 - j
    OBVIOUS
  <2>2. g[n - j] = h[n - j - 1] \o L[j] /\ h[n - j] = h[n - j - 1] \o <<>>
    BY <1>0, <1>1, <1>2, <1>3, <2>1 DEF Chained
  <2>3. g[n + 1 - j] = g[n - j] \o <<>> /\ h[n + 1 - j] = h[n - j] \o L[j]
    BY <1>0, <1>1, <1>2, <2>1 DEF Chained
  <2>7. n - j - 1 \in 0 .. n + 1 /\ n - j \in 0 .. n + 1
    OBVIOUS
  <2>4. h[n - j - 1] \in Seq(S) /\ g[n - j] \in Seq(S)
    BY <1>1, <1>2, <2>7
  <2>5. h[n - j] = h[n - j - 1] /\ g[n + 1 - j] = g[n - j]
    BY <2>2, <2>3, <2>4, ConcatEmptySeq
  <2>6. n + 1 - j \in n + 1 - j .. n + 1
    OBVIOUS
  <2> QED BY <2>2, <2>3, <2>5, <2>6
<1>5. \A k \in n + 1 - j .. (n + 1) - 1 : k \in G => k + 1 \in G
  <2>0. (n + 1) - 1 = n
    OBVIOUS
  <2> SUFFICES ASSUME NEW k \in n + 1 - j .. n, k \in G PROVE k + 1 \in G
    BY <2>0
  <2>1. k \in 0 .. n /\ n - k \in 0 .. n /\ n - k # j /\ n - k # j + 1 /\ k + 1 \in n + 1 - j .. n + 1
    OBVIOUS
  <2>2. M[n - k] = L[n - k]
    BY <1>0, <2>1
  <2> QED BY <1>1, <1>2, <2>1, <2>2 DEF Chained
<1>6. n + 1 - j \in Nat /\ n + 1 \in Nat /\ n + 1 \in n + 1 - j .. n + 1
  OBVIOUS
<1> HIDE DEF G
<1>7. \A k \in n + 1 - j .. n + 1 : k \in G
  BY <1>4, <1>5, <1>6, Climb
<1>8. n + 1 \in G
  BY <1>6, <1>7
<1> QED BY <1>1, <1>2, <1>8 DEF G
=============================================================================

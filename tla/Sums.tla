-------------------------------- MODULE Sums --------------------------------
(***************************************************************************)
(* What SumFunctionOnSet adds up to.  The induction over finite sets is by *)
(* a least counterexample: any set of subsets of a finite set has a member *)
(* that none of the others is within.                                      *)
(***************************************************************************)
EXTENDS Integers, FiniteSets, Functions, FiniteSetTheorems, WellFoundedInduction, TLAPS

LEMMA SubsetInduction ==
    ASSUME NEW S, IsFiniteSet(S), NEW G,
           \A T \in SUBSET S : (\A U \in SUBSET T : U # T => U \in G) => T \in G
    PROVE  \A T \in SUBSET S : T \in G
<1> SUFFICES ASSUME NEW T \in SUBSET S, T \notin G PROVE FALSE
    OBVIOUS
<1> DEFINE Bad == {U \in SUBSET S : U \notin G}
<1>1. IsWellFoundedOn(StrictSubsetOrdering(S), FiniteSubsetsOf(S))
    BY FS_StrictSubsetOrderingWellFounded
<1>2. Bad \subseteq FiniteSubsetsOf(S) /\ Bad # {}
    BY FS_FiniteSubsetsOfFinite
<1>3. PICK U \in Bad : \A V \in Bad : ~ (<<V, U>> \in StrictSubsetOrdering(S))
  <2> HIDE DEF Bad
  <2> QED
    BY <1>1, <1>2, WFMin
<1>4. ASSUME NEW V \in SUBSET U, V # U PROVE V \in G
  <2>1. V \in SUBSET S
    OBVIOUS
  <2>2. <<V, U>> \in StrictSubsetOrdering(S)
    BY <1>4, <2>1 DEF StrictSubsetOrdering
  <2> QED
    BY <1>3, <2>1, <2>2
<1> QED
    BY <1>3, <1>4

-----------------------------------------------------------------------------
(* The recursive function SumFunctionOnSet is defined by.                  *)
One(s) == CHOOSE x \in s : TRUE
Adds(g, f, S) ==
    g = [s \in SUBSET S |-> IF s = {} THEN 0 ELSE f[One(s)] + g[s \ {One(s)}]]

LEMMA SumIsAdded ==
    ASSUME NEW f, NEW S
    PROVE  SumFunctionOnSet(f, S) = (CHOOSE g : Adds(g, f, S))[S]
BY DEF SumFunctionOnSet, FoldFunctionOnSet, MapThenFoldSet, Adds, One

(* It gives a subset the same sum whatever the set around it.              *)
LEMMA AddsRestricts ==
    ASSUME NEW f, NEW S, IsFiniteSet(S), NEW T \in SUBSET S, NEW g, Adds(g, f, S),
           NEW h, Adds(h, f, T)
    PROVE  g[T] = h[T]
<1> DEFINE G == {U \in SUBSET T : g[U] = h[U]}
<1>1. IsFiniteSet(T)
    BY FS_Subset
<1>2. ASSUME NEW U \in SUBSET T, \A V \in SUBSET U : V # U => V \in G PROVE U \in G
  <2>1. CASE U = {}
    BY <2>1 DEF Adds
  <2>2. CASE U # {}
    <3>1. One(U) \in U
      BY <2>2 DEF One
    <3>2. U \ {One(U)} \in G
      BY <1>2, <3>1
    <3>3. g[U] = f[One(U)] + g[U \ {One(U)}] /\ h[U] = f[One(U)] + h[U \ {One(U)}]
      BY <2>2 DEF Adds
    <3> QED
      BY <3>2, <3>3
  <2> QED
    BY <2>1, <2>2
<1> HIDE DEF G
<1>3. \A U \in SUBSET T : U \in G
    BY <1>1, <1>2, SubsetInduction
<1> QED
    BY <1>3 DEF G

(* It exists on every finite set.                                          *)
LEMMA AddsExists ==
    ASSUME NEW f, NEW S, IsFiniteSet(S)
    PROVE  \E g : Adds(g, f, S)
<1> DEFINE G == {T \in SUBSET S : \E g : Adds(g, f, T)}
           total(V) == (CHOOSE h : Adds(h, f, V))[V]
<1>1. ASSUME NEW T \in SUBSET S, \A U \in SUBSET T : U # T => U \in G PROVE T \in G
  <2> DEFINE g == [s \in SUBSET T |-> IF s = {} THEN 0
                                     ELSE f[One(s)] + total(s \ {One(s)})]
  <2>1. ASSUME NEW V \in SUBSET T, V # T PROVE g[V] = total(V)
    <3> DEFINE h == CHOOSE h : Adds(h, f, V)
    <3>1. V \in G
      BY <1>1, <2>1
    <3>2. Adds(h, f, V)
      BY <3>1
    <3>3. CASE V = {}
      <4>1. h[V] = 0
        BY <3>2, <3>3 DEF Adds
      <4>2. g[V] = 0
        BY <3>3
      <4> QED
        BY <4>1, <4>2
    <3>4. CASE V # {}
      <4> DEFINE W == V \ {One(V)}
                 i == CHOOSE i : Adds(i, f, W)
      <4>1. One(V) \in V
        BY <3>4 DEF One
      <4>2. W \in SUBSET V /\ W \in SUBSET T /\ W # T /\ IsFiniteSet(V)
        BY <4>1, FS_Subset
      <4>3. W \in G
        BY <1>1, <4>2
      <4>4. Adds(i, f, W)
        BY <4>3
      <4>5. h[V] = f[One(V)] + h[W]
        BY <3>2, <3>4 DEF Adds
      <4>6. h[W] = i[W]
        <5> HIDE DEF h, i, W
        <5> QED
          BY <3>2, <4>2, <4>4, AddsRestricts
      <4>7. g[V] = f[One(V)] + i[W]
        BY <3>4
      <4> QED
        BY <4>5, <4>6, <4>7
    <3> QED
      BY <3>3, <3>4
  <2>2. ASSUME NEW s \in SUBSET T, s # {} PROVE s \ {One(s)} \in SUBSET T /\ s \ {One(s)} # T
    BY <2>2 DEF One
  <2>3. g = [s \in SUBSET T |-> IF s = {} THEN 0 ELSE f[One(s)] + g[s \ {One(s)}]]
    <3> HIDE DEF total
    <3>1. ASSUME NEW s \in SUBSET T
          PROVE  g[s] = IF s = {} THEN 0 ELSE f[One(s)] + g[s \ {One(s)}]
      <4>1. CASE s = {}
        BY <4>1
      <4>2. CASE s # {}
        <5>1. g[s] = f[One(s)] + total(s \ {One(s)})
          BY <4>2
        <5>2. g[s \ {One(s)}] = total(s \ {One(s)})
          BY <2>1, <2>2, <4>2
        <5> QED
          BY <4>2, <5>1, <5>2
      <4> QED
        BY <4>1, <4>2
    <3> QED
      BY <3>1
  <2> HIDE DEF g
  <2> QED
    BY <2>3 DEF Adds
<1> HIDE DEF G
<1>2. S \in G
    BY <1>1, SubsetInduction
<1> QED
    BY <1>2 DEF G

LEMMA SumIsFrom ==
    ASSUME NEW f, NEW S, IsFiniteSet(S)
    PROVE  \E g : Adds(g, f, S) /\ SumFunctionOnSet(f, S) = g[S]
BY SumIsAdded, AddsExists

-----------------------------------------------------------------------------
(* A sum over nothing is zero, and any other adds one of its terms to the  *)
(* sum of the rest.                                                        *)
LEMMA SumOfNone == ASSUME NEW f PROVE SumFunctionOnSet(f, {}) = 0
<1>1. PICK g : Adds(g, f, {}) /\ SumFunctionOnSet(f, {}) = g[{}]
    BY SumIsFrom, FS_EmptySet
<1> QED
    BY <1>1 DEF Adds

LEMMA SumTakesOne ==
    ASSUME NEW f, NEW S, IsFiniteSet(S), S # {}
    PROVE  /\ One(S) \in S
           /\ SumFunctionOnSet(f, S) = f[One(S)] + SumFunctionOnSet(f, S \ {One(S)})
<1> DEFINE R == S \ {One(S)}
<1>1. One(S) \in S
    BY DEF One
<1>2. IsFiniteSet(R)
    BY FS_Subset
<1>3. PICK g : Adds(g, f, S) /\ SumFunctionOnSet(f, S) = g[S]
    BY SumIsFrom
<1>4. PICK h : Adds(h, f, R) /\ SumFunctionOnSet(f, R) = h[R]
  <2> HIDE DEF R
  <2> QED
    BY <1>2, SumIsFrom
<1>5. g[S] = f[One(S)] + g[R]
    BY <1>3 DEF Adds
<1>6. g[R] = h[R]
  <2>1. R \in SUBSET S
    OBVIOUS
  <2> HIDE DEF R
  <2> QED
    BY <1>3, <1>4, <2>1, AddsRestricts
<1> QED
    BY <1>1, <1>3, <1>4, <1>5, <1>6

(* A sum of naturals is one.                                               *)
LEMMA SumType ==
    ASSUME NEW f, NEW S, IsFiniteSet(S), \A x \in S : f[x] \in Nat
    PROVE  SumFunctionOnSet(f, S) \in Nat
<1> DEFINE G == {T \in SUBSET S : SumFunctionOnSet(f, T) \in Nat}
<1>1. ASSUME NEW T \in SUBSET S, \A U \in SUBSET T : U # T => U \in G PROVE T \in G
  <2>1. CASE T = {}
    BY <2>1, SumOfNone
  <2>2. CASE T # {}
    <3>1. IsFiniteSet(T)
      BY FS_Subset
    <3>2. One(T) \in T /\ SumFunctionOnSet(f, T) = f[One(T)] + SumFunctionOnSet(f, T \ {One(T)})
      BY <2>2, <3>1, SumTakesOne
    <3>3. T \ {One(T)} \in G
      BY <1>1, <3>2
    <3> QED
      BY <3>2, <3>3
  <2> QED
    BY <2>1, <2>2
<1> HIDE DEF G
<1>2. S \in G
    BY <1>1, SubsetInduction
<1> QED
    BY <1>2 DEF G

(* Which term is taken out first does not matter.                          *)
LEMMA SumTakesAny ==
    ASSUME NEW f, NEW S, IsFiniteSet(S), \A x \in S : f[x] \in Nat
    PROVE  \A x \in S : SumFunctionOnSet(f, S) = f[x] + SumFunctionOnSet(f, S \ {x})
<1> DEFINE G == {T \in SUBSET S : \A x \in T :
                    SumFunctionOnSet(f, T) = f[x] + SumFunctionOnSet(f, T \ {x})}
<1>1. ASSUME NEW T \in SUBSET S, \A U \in SUBSET T : U # T => U \in G PROVE T \in G
  <2> SUFFICES ASSUME NEW x \in T
               PROVE  SumFunctionOnSet(f, T) = f[x] + SumFunctionOnSet(f, T \ {x})
    OBVIOUS
  <2> DEFINE y == One(T)
  <2>1. IsFiniteSet(T)
    BY FS_Subset
  <2>2. y \in T /\ SumFunctionOnSet(f, T) = f[y] + SumFunctionOnSet(f, T \ {y})
    BY <2>1, SumTakesOne
  <2> HIDE DEF y
  <2>3. CASE x = y
    BY <2>2, <2>3
  <2>4. CASE x # y
    <3>1. T \ {y} \in G /\ T \ {x} \in G
      BY <1>1, <2>2
    <3>2. SumFunctionOnSet(f, T \ {y}) = f[x] + SumFunctionOnSet(f, (T \ {y}) \ {x})
      BY <2>4, <3>1
    <3>3. SumFunctionOnSet(f, T \ {x}) = f[y] + SumFunctionOnSet(f, (T \ {x}) \ {y})
      BY <2>2, <2>4, <3>1
    <3>4. (T \ {x}) \ {y} = (T \ {y}) \ {x}
      OBVIOUS
    <3>5. SumFunctionOnSet(f, (T \ {x}) \ {y}) \in Nat
      BY <2>1, FS_Subset, SumType
    <3> QED
      BY <2>2, <3>2, <3>3, <3>4, <3>5
  <2> QED
    BY <2>3, <2>4
<1> HIDE DEF G
<1>2. S \in G
    BY <1>1, SubsetInduction
<1> QED
    BY <1>2 DEF G

-----------------------------------------------------------------------------
(* A sum depends on its terms only.                                        *)
LEMMA SumAgrees ==
    ASSUME NEW f, NEW g, NEW S, IsFiniteSet(S), \A x \in S : f[x] = g[x]
    PROVE  SumFunctionOnSet(f, S) = SumFunctionOnSet(g, S)
<1> DEFINE G == {T \in SUBSET S : SumFunctionOnSet(f, T) = SumFunctionOnSet(g, T)}
<1>1. ASSUME NEW T \in SUBSET S, \A U \in SUBSET T : U # T => U \in G PROVE T \in G
  <2>1. CASE T = {}
    BY <2>1, SumOfNone
  <2>2. CASE T # {}
    <3>1. IsFiniteSet(T)
      BY FS_Subset
    <3>2. /\ One(T) \in T
          /\ SumFunctionOnSet(f, T) = f[One(T)] + SumFunctionOnSet(f, T \ {One(T)})
          /\ SumFunctionOnSet(g, T) = g[One(T)] + SumFunctionOnSet(g, T \ {One(T)})
      BY <2>2, <3>1, SumTakesOne
    <3>3. T \ {One(T)} \in G /\ f[One(T)] = g[One(T)]
      BY <1>1, <3>2
    <3> QED
      BY <3>2, <3>3
  <2> QED
    BY <2>1, <2>2
<1> HIDE DEF G
<1>2. S \in G
    BY <1>1, SubsetInduction
<1> QED
    BY <1>2 DEF G

(* The sum over two sets apart is the sum of theirs.                       *)
LEMMA SumOfParts ==
    ASSUME NEW f, NEW S, NEW R, IsFiniteSet(S), IsFiniteSet(R), S \cap R = {},
           \A x \in S \cup R : f[x] \in Nat
    PROVE  SumFunctionOnSet(f, S \cup R) = SumFunctionOnSet(f, S) + SumFunctionOnSet(f, R)
<1> DEFINE G == {T \in SUBSET S : SumFunctionOnSet(f, T \cup R)
                                    = SumFunctionOnSet(f, T) + SumFunctionOnSet(f, R)}
<1>1. SumFunctionOnSet(f, R) \in Nat
    BY SumType
<1>2. ASSUME NEW T \in SUBSET S, \A U \in SUBSET T : U # T => U \in G PROVE T \in G
  <2>1. CASE T = {}
    BY <1>1, <2>1, SumOfNone
  <2>2. CASE T # {}
    <3>1. PICK x \in T : TRUE
      BY <2>2
    <3>2. IsFiniteSet(T) /\ IsFiniteSet(T \cup R)
      BY FS_Subset, FS_Union
    <3>3. SumFunctionOnSet(f, T) = f[x] + SumFunctionOnSet(f, T \ {x})
      BY <3>1, <3>2, SumTakesAny
    <3>4. SumFunctionOnSet(f, T \cup R) = f[x] + SumFunctionOnSet(f, (T \cup R) \ {x})
      BY <3>1, <3>2, SumTakesAny
    <3>5. (T \cup R) \ {x} = (T \ {x}) \cup R
      BY <3>1
    <3>6. T \ {x} \in G
      BY <1>2, <3>1
    <3>7. SumFunctionOnSet(f, T \ {x}) \in Nat
      BY <3>2, FS_Subset, SumType
    <3>8. f[x] \in Nat
      BY <3>1
    <3>9. SumFunctionOnSet(f, (T \ {x}) \cup R)
            = SumFunctionOnSet(f, T \ {x}) + SumFunctionOnSet(f, R)
      BY <3>6
    <3>10. SumFunctionOnSet(f, T \cup R) = SumFunctionOnSet(f, T) + SumFunctionOnSet(f, R)
      <4> DEFINE rest == SumFunctionOnSet(f, T \ {x})
                 other == SumFunctionOnSet(f, R)
      <4>1. rest \in Nat /\ other \in Nat
        BY <1>1, <3>7
      <4>2. SumFunctionOnSet(f, T \cup R) = f[x] + (rest + other)
        BY <3>4, <3>5, <3>9
      <4>3. SumFunctionOnSet(f, T) = f[x] + rest
        BY <3>3
      <4> HIDE DEF rest, other
      <4>4. SumFunctionOnSet(f, T \cup R) = SumFunctionOnSet(f, T) + other
        BY <3>8, <4>1, <4>2, <4>3
      <4> QED
        BY <4>4 DEF other
    <3> QED
      BY <3>10
  <2> QED
    BY <2>1, <2>2
<1> HIDE DEF G
<1>3. S \in G
    BY <1>2, SubsetInduction
<1> QED
    BY <1>3 DEF G

(* A part of the terms adds up to no more than all of them.                *)
LEMMA SumOfPart ==
    ASSUME NEW f, NEW S, NEW T \in SUBSET S, IsFiniteSet(S), \A x \in S : f[x] \in Nat
    PROVE  SumFunctionOnSet(f, T) <= SumFunctionOnSet(f, S)
<1>1. IsFiniteSet(T) /\ IsFiniteSet(S \ T) /\ T \cup (S \ T) = S
    BY FS_Subset
<1>2. SumFunctionOnSet(f, S) = SumFunctionOnSet(f, T) + SumFunctionOnSet(f, S \ T)
    BY <1>1, SumOfParts
<1>3. SumFunctionOnSet(f, T) \in Nat /\ SumFunctionOnSet(f, S \ T) \in Nat
    BY <1>1, SumType
<1> QED
    BY <1>2, <1>3

LEMMA SumOfZeros ==
    ASSUME NEW f, NEW S, IsFiniteSet(S), \A x \in S : f[x] = 0
    PROVE  SumFunctionOnSet(f, S) = 0
<1> DEFINE G == {T \in SUBSET S : SumFunctionOnSet(f, T) = 0}
<1>1. ASSUME NEW T \in SUBSET S, \A U \in SUBSET T : U # T => U \in G PROVE T \in G
  <2>1. CASE T = {}
    BY <2>1, SumOfNone
  <2>2. CASE T # {}
    <3>1. IsFiniteSet(T)
      BY FS_Subset
    <3>2. One(T) \in T /\ SumFunctionOnSet(f, T) = f[One(T)] + SumFunctionOnSet(f, T \ {One(T)})
      BY <2>2, <3>1, SumTakesOne
    <3>3. T \ {One(T)} \in G
      BY <1>1, <3>2
    <3> QED
      BY <3>2, <3>3
  <2> QED
    BY <2>1, <2>2
<1> HIDE DEF G
<1>2. S \in G
    BY <1>1, SubsetInduction
<1> QED
    BY <1>2 DEF G

(* What counting one more, or more, at a place does to a sum.              *)
LEMMA SumCounts ==
    ASSUME NEW S, IsFiniteSet(S), NEW f, NEW g, NEW x, NEW d \in Nat,
           \A y \in S : f[y] \in Nat,
           \A y \in S : g[y] = IF y = x THEN f[y] + d ELSE f[y]
    PROVE  SumFunctionOnSet(g, S) = IF x \in S THEN SumFunctionOnSet(f, S) + d
                                              ELSE SumFunctionOnSet(f, S)
<1>1. CASE x \in S
  <2>1. IsFiniteSet(S \ {x})
    BY FS_Subset
  <2>2. SumFunctionOnSet(f, S) = f[x] + SumFunctionOnSet(f, S \ {x})
    BY <1>1, SumTakesAny
  <2>3. SumFunctionOnSet(g, S) = g[x] + SumFunctionOnSet(g, S \ {x})
    <3>1. ASSUME NEW y \in S PROVE g[y] \in Nat
      <4>1. f[y] \in Nat /\ g[y] = IF y = x THEN f[y] + d ELSE f[y]
        OBVIOUS
      <4> QED
        BY <4>1
    <3> QED
      BY <1>1, <3>1, SumTakesAny
  <2>4. SumFunctionOnSet(f, S \ {x}) = SumFunctionOnSet(g, S \ {x})
    <3>1. \A y \in S \ {x} : f[y] = g[y]
      OBVIOUS
    <3> QED
      BY <2>1, <3>1, SumAgrees
  <2>5. SumFunctionOnSet(f, S \ {x}) \in Nat
    BY <2>1, SumType
  <2> QED
    BY <1>1, <2>2, <2>3, <2>4, <2>5
<1>2. CASE x \notin S
  <2>1. \A y \in S : f[y] = g[y]
    BY <1>2
  <2> QED
    BY <1>2, <2>1, SumAgrees
<1> QED
    BY <1>1, <1>2
=============================================================================

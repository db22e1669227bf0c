-------------------------------- MODULE Sums ---------------------------------
(***************************************************************************)
(* Lemmas about least numbers and about sums over finite sets, as          *)
(* MapThenSumSet counts them.  They are stated of functions and sets: an   *)
(* induction over the size of a set is an argument from a least            *)
(* counterexample.                                                         *)
(***************************************************************************)
EXTENDS FiniteSetsExt, FiniteSetTheorems, WellFoundedInduction, TLAPS

SmallerThan == {p \in Nat \X Nat : p[1] < p[2]}

\* A set of numbers has a least one.
LEMMA LeastNumber ==
  ASSUME NEW T \in SUBSET Nat, T # {}
  PROVE  \E x \in T : \A y \in T : ~(y < x)
<1>1. SmallerThan = OpToRel(<, Nat)
  BY DEF SmallerThan, OpToRel
<1>2. IsWellFoundedOn(SmallerThan, Nat)
  BY <1>1, NatLessThanWellFounded
<1>3. PICK x \in T : \A y \in T : <<y, x>> \notin SmallerThan
  BY <1>2, WFMin
<1> QED
  BY <1>3 DEF SmallerThan

-----------------------------------------------------------------------------
(* The recursion of MapThenSumSet. *)

One(s) == CHOOSE x \in s : TRUE

\* What g[s] is in terms of g at a smaller set.
Adds(f, g, s) == IF s = {} THEN 0 ELSE f[One(s)] + g[s \ {One(s)}]

\* g sums the values of f over each subset of S.
SumsOver(f, S, g) == g = [s \in SUBSET S |-> Adds(f, g, s)]

\* A finite set without one of its elements is smaller by one.
LEMMA WithoutOne ==
  ASSUME NEW S, IsFiniteSet(S), NEW s \in SUBSET S, NEW x \in s
  PROVE  /\ s \ {x} \in SUBSET S /\ IsFiniteSet(s)
         /\ Cardinality(s) \in Nat \ {0} /\ Cardinality(s \ {x}) = Cardinality(s) - 1
<1>1. IsFiniteSet(s)
  BY FS_Subset
<1>2. Cardinality(s \ {x}) = Cardinality(s) - 1 /\ IsFiniteSet(s \ {x})
  BY <1>1, FS_RemoveElement
<1>3. Cardinality(s) \in Nat /\ Cardinality(s \ {x}) \in Nat
  BY <1>1, <1>2, FS_CardinalityType
<1> QED
  BY <1>1, <1>2, <1>3

\* What has every subset, if those smaller have it, all subsets have.
LEMMA BySize ==
  ASSUME NEW S, IsFiniteSet(S), NEW G \in SUBSET SUBSET S,
         \A s \in SUBSET S : (\A x \in s : s \ {x} \in G) => s \in G
  PROVE  G = SUBSET S
<1> DEFINE T == {Cardinality(s) : s \in (SUBSET S) \ G}
<1> SUFFICES ASSUME (SUBSET S) \ G # {} PROVE FALSE
  OBVIOUS
<1>1. T \in SUBSET Nat /\ T # {}
  <2>1. \A s \in SUBSET S : Cardinality(s) \in Nat
    BY FS_Subset, FS_CardinalityType
  <2> QED
    BY <2>1
<1> HIDE DEF T
<1>2. PICK n \in T : \A m \in T : ~(m < n)
  BY <1>1, LeastNumber
<1>3. PICK s \in (SUBSET S) \ G : n = Cardinality(s)
  BY <1>2 DEF T
<1>4. ASSUME NEW x \in s PROVE s \ {x} \in G
  <2>1. s \ {x} \in SUBSET S /\ Cardinality(s) \in Nat /\ Cardinality(s \ {x}) = Cardinality(s) - 1
    BY <1>3, WithoutOne
  <2>2. Cardinality(s \ {x}) < n
    BY <1>3, <2>1
  <2>3. Cardinality(s \ {x}) \notin T
    BY <1>2, <2>2
  <2> QED
    BY <2>1, <2>3 DEF T
<1> QED
  BY <1>3, <1>4

\* There is such a function.
LEMMA SumExists ==
  ASSUME NEW S, IsFiniteSet(S), NEW f
  PROVE  \E g : SumsOver(f, S, g)
<1> DEFINE Upto(n) == {s \in SUBSET S : Cardinality(s) <= n}
           Part(n, g) == \A s \in Upto(n) : g[s] = Adds(f, g, s)
           T == {n \in Nat : ~\E g : Part(n, g)}
<1>1. \A s \in SUBSET S : IsFiniteSet(s) /\ Cardinality(s) \in Nat
  BY FS_Subset, FS_CardinalityType
<1>2. T = {}
  <2> SUFFICES ASSUME T # {} PROVE FALSE
    OBVIOUS
  <2>1. T \in SUBSET Nat
    OBVIOUS
  <2>2. PICK n \in T : \A m \in T : ~(m < n)
    <3> HIDE DEF T
    <3> QED
      BY <2>1, LeastNumber
  <2>3. n \in Nat /\ ~\E g : Part(n, g)
    BY <2>2
  <2>4. n # 0
    <3> SUFFICES ASSUME n = 0 PROVE FALSE
      OBVIOUS
    <3> DEFINE g == [s \in SUBSET S |-> 0]
    <3>1. ASSUME NEW s \in Upto(0) PROVE g[s] = Adds(f, g, s)
      <4>1. Cardinality(s) = 0
        BY <1>1, <3>1
      <4>2. s = {}
        BY <1>1, <4>1, FS_EmptySet
      <4> QED
        BY <4>2 DEF Adds
    <3>2. Part(0, g)
      BY <3>1
    <3> QED
      BY <2>3, <3>2
  <2>5. PICK g : Part(n - 1, g)
    BY <2>2, <2>3, <2>4
  <2> DEFINE h == [s \in SUBSET S |-> Adds(f, g, s)]
  <2>6. \A s \in Upto(n - 1) : h[s] = g[s]
    BY <2>5
  <2>7. ASSUME NEW s \in Upto(n) PROVE h[s] = Adds(f, h, s)
    <3>1. CASE s = {}
      BY <3>1 DEF Adds
    <3>2. CASE s # {}
      <4>1. One(s) \in s
        BY <3>2 DEF One
      <4>2. s \ {One(s)} \in SUBSET S /\ Cardinality(s \ {One(s)}) = Cardinality(s) - 1
        BY <4>1, WithoutOne
      <4>3. s \ {One(s)} \in Upto(n - 1)
        BY <1>1, <2>3, <4>2
      <4>4. h[s \ {One(s)}] = g[s \ {One(s)}]
        BY <2>6, <4>3
      <4>5. h[s] = Adds(f, g, s)
        OBVIOUS
      <4> HIDE DEF h
      <4> QED
        BY <3>2, <4>4, <4>5 DEF Adds
    <3> QED
      BY <3>1, <3>2
  <2>8. Part(n, h)
    BY <2>7
  <2> HIDE DEF h, Part
  <2> QED
    BY <2>3, <2>8
<1>3. PICK g : Part(Cardinality(S), g)
  BY <1>1, <1>2
<1>4. \A s \in SUBSET S : s \in Upto(Cardinality(S))
  BY FS_Subset
<1> DEFINE h == [s \in SUBSET S |-> Adds(f, g, s)]
<1>5. \A s \in SUBSET S : h[s] = g[s]
  BY <1>3, <1>4
<1>6. \A s \in SUBSET S : Adds(f, h, s) = Adds(f, g, s)
  <2> SUFFICES ASSUME NEW s \in SUBSET S, s # {}
               PROVE  h[s \ {One(s)}] = g[s \ {One(s)}]
    BY DEF Adds
  <2> QED
    BY <1>5
<1>7. h = [s \in SUBSET S |-> Adds(f, h, s)]
  BY <1>6
<1> HIDE DEF h
<1>8. SumsOver(f, S, h)
  BY <1>7 DEF SumsOver
<1> QED
  BY <1>8

\* g[s] is the sum over s: nothing over the empty set, and each element adds its value.
Totals(f, S, g) ==
  /\ g[{}] = 0
  /\ \A s \in SUBSET S : g[s] \in Nat /\ \A y \in s : g[s] = f[y] + g[s \ {y}]

\* The sum over a set is that over the set without any one of its elements, and the element's.
LEMMA SumOfAny ==
  ASSUME NEW S, IsFiniteSet(S), NEW f, \A x \in S : f[x] \in Nat, NEW g, SumsOver(f, S, g)
  PROVE  Totals(f, S, g)
<1> DEFINE Good(s) == g[s] \in Nat /\ \A y \in s : g[s \ {y}] \in Nat /\ g[s] = f[y] + g[s \ {y}]
           G == {s \in SUBSET S : Good(s)}
<1>1. \A s \in SUBSET S : g[s] = Adds(f, g, s)
  <2> DEFINE h == [s \in SUBSET S |-> Adds(f, g, s)]
  <2>1. g = h
    BY DEF SumsOver
  <2>2. \A s \in SUBSET S : h[s] = Adds(f, g, s)
    OBVIOUS
  <2> HIDE DEF h
  <2> QED
    BY <2>1, <2>2
<1>2. g[{}] = 0
  BY <1>1 DEF Adds
<1>3. ASSUME NEW s \in SUBSET S, \A x \in s : s \ {x} \in G
      PROVE  Good(s)
  <2>1. CASE s = {}
    BY <1>2, <2>1
  <2>2. CASE s # {}
    <3> DEFINE x == One(s)
    <3>1. x \in s
      BY <2>2 DEF One
    <3>2. g[s] = f[x] + g[s \ {x}]
      BY <1>1, <2>2 DEF Adds
    <3> HIDE DEF x
    <3>3. \A y \in s : g[s \ {y}] \in Nat /\ f[y] \in Nat
      BY <1>3
    <3>4. ASSUME NEW y \in s, y # x PROVE g[s] = f[y] + g[s \ {y}]
      <4>1. g[s \ {x}] = f[y] + g[(s \ {x}) \ {y}]
        BY <1>3, <3>1, <3>4
      <4>2. g[s \ {y}] = f[x] + g[(s \ {y}) \ {x}]
        BY <1>3, <3>1, <3>4
      <4>3. (s \ {x}) \ {y} = (s \ {y}) \ {x}
        OBVIOUS
      <4>4. g[(s \ {y}) \ {x}] \in Nat
        BY <1>3, <3>1, <3>4
      <4> DEFINE r == g[(s \ {y}) \ {x}]
      <4>5. g[s \ {x}] = f[y] + r /\ g[s \ {y}] = f[x] + r /\ r \in Nat
        BY <4>1, <4>2, <4>3, <4>4
      <4> HIDE DEF r
      <4>6. f[x] \in Nat /\ f[y] \in Nat
        BY <3>1, <3>3
      <4> QED
        BY <3>2, <4>5, <4>6
    <3>5. \A y \in s : g[s] = f[y] + g[s \ {y}]
      BY <3>2, <3>4
    <3>6. g[s] \in Nat
      BY <3>1, <3>2, <3>3
    <3> QED
      BY <3>3, <3>5, <3>6
  <2> QED
    BY <2>1, <2>2
<1> HIDE DEF Good
<1>4. \A s \in SUBSET S : (\A x \in s : s \ {x} \in G) => s \in G
  BY <1>3
<1>5. G \in SUBSET SUBSET S
  OBVIOUS
<1> HIDE DEF G
<1>6. G = SUBSET S
  BY <1>4, <1>5, BySize
<1> QED
  BY <1>2, <1>6 DEF Good, G, Totals

\* Two sums are one when the terms of each are those of the other.
LEMMA SameTerms ==
  ASSUME NEW A, NEW B, IsFiniteSet(A), IsFiniteSet(B),
         NEW f, \A x \in A : f[x] \in Nat, NEW g, SumsOver(f, A, g),
         NEW e, NEW h, SumsOver(e, B, h),
         NEW b, \A k \in B : b[k] \in A /\ e[k] = f[b[k]],
         \A j, k \in B : b[j] = b[k] => j = k,
         \A x \in A : \E k \in B : b[k] = x
  PROVE  g[A] = h[B]
<1> DEFINE Image(t) == {b[k] : k \in t}
           G == {t \in SUBSET B : g[Image(t)] = h[t]}
<1>1. \A k \in B : e[k] \in Nat
  OBVIOUS
<1>2. Totals(f, A, g)
  BY SumOfAny
<1>3. Totals(e, B, h)
  BY <1>1, SumOfAny
<1>4. ASSUME NEW t \in SUBSET B, \A k \in t : t \ {k} \in G
      PROVE  t \in G
  <2>1. CASE t = {}
    <3>1. Image(t) = {}
      BY <2>1
    <3> QED
      BY <1>2, <1>3, <2>1, <3>1 DEF Totals
  <2>2. CASE t # {}
    <3>1. PICK k \in t : TRUE
      BY <2>2
    <3>2. Image(t) \in SUBSET A /\ b[k] \in Image(t)
      BY <3>1
    <3>3. Image(t) \ {b[k]} = Image(t \ {k})
      BY <3>1
    <3>4. g[Image(t \ {k})] = h[t \ {k}]
      BY <1>4, <3>1
    <3>5. e[k] = f[b[k]]
      BY <3>1
    <3> HIDE DEF Image
    <3>6. g[Image(t)] = f[b[k]] + g[Image(t) \ {b[k]}]
      BY <1>2, <3>2 DEF Totals
    <3>7. h[t] = e[k] + h[t \ {k}]
      BY <1>3, <3>1 DEF Totals
    <3> QED
      BY <3>3, <3>4, <3>5, <3>6, <3>7
  <2> QED
    BY <2>1, <2>2
<1>5. Image(B) = A
  OBVIOUS
<1>6. G \in SUBSET SUBSET B /\ B \in SUBSET B
  OBVIOUS
<1>7. \A t \in G : g[Image(t)] = h[t]
  OBVIOUS
<1> HIDE DEF G
<1>8. G = SUBSET B
  BY <1>4, <1>6, BySize
<1> QED
  BY <1>5, <1>6, <1>7, <1>8
=============================================================================

----------------------------- MODULE SumsProofs -----------------------------
(***************************************************************************)
(* Sums over finite sets: the sum of no values, of one value more, of      *)
(* values one of which changes, of zeros.  MapThenSumSet is a recursive    *)
(* function on the subsets of its set, so what is said of it here is       *)
(* proved by induction on their size, in the form of the least number      *)
(* principle: a set of counterexamples would have a least element.         *)
(***************************************************************************)
EXTENDS Sums, FiniteSetTheorems, WellFoundedInduction, TLAPS

(* A set of numbers that is not empty has a least element.                 *)
LEMMA NatMinimum ==
    ASSUME NEW T \in SUBSET Nat, T # {}
    PROVE  \E n \in T : \A m \in T : n <= m
  <1> DEFINE R == OpToRel(<, Nat)
  <1>1. IsWellFoundedOn(R, Nat)
    BY NatLessThanWellFounded
  <1>2. \A x, y \in Nat : <<y, x>> \in R <=> y < x
    BY DEF OpToRel
  <1> HIDE DEF R
  <1>3. \E x \in T : \A y \in T : ~(<<y, x>> \in R)
    BY <1>1, WFMin
  <1>4. PICK x \in T : \A y \in T : ~(<<y, x>> \in R)
    BY <1>3
  <1>5. \A y \in T : ~(y < x)
    BY <1>2, <1>4
  <1>6. x \in Nat /\ \A y \in T : y \in Nat
    OBVIOUS
  <1> QED
    BY <1>5, <1>6

\* g is a partial sum of d for each of the sets in U: the definition of the
\* recursive function in MapThenSumSet.
Sums(d, U, g) ==
    g = [s \in U |-> IF s = {} THEN 0
                     ELSE d[CHOOSE x \in s : TRUE] + g[s \ {CHOOSE x \in s : TRUE}]]

\* The subsets of S that have at most n elements.
UpTo(S, n) == {s \in SUBSET S : Cardinality(s) <= n}

(* Taking an element out of a set.                                         *)
LEMMA RemoveOne ==
    ASSUME NEW S, IsFiniteSet(S), NEW s \in SUBSET S, NEW x \in s
    PROVE  /\ IsFiniteSet(s) /\ s \ {x} \in SUBSET S
           /\ Cardinality(s) \in Nat /\ Cardinality(s \ {x}) = Cardinality(s) - 1
           /\ Cardinality(s) # 0
  <1>1. IsFiniteSet(s) /\ Cardinality(s) \in Nat
    BY FS_Subset, FS_CardinalityType
  <1>2. Cardinality(s \ {x}) = Cardinality(s) - 1
    BY <1>1, FS_RemoveElement
  <1>3. Cardinality(s) # 0
    BY <1>1, FS_EmptySet
  <1> QED
    BY <1>1, <1>2, <1>3

(* Some set of a collection is minimal: without any one of its elements it *)
(* is not in the collection.                                               *)
LEMMA MinimalSet ==
    ASSUME NEW S, IsFiniteSet(S), NEW B \in SUBSET SUBSET S, B # {}
    PROVE  \E s \in B : \A x \in s : s \ {x} \notin B
  <1> DEFINE T == {Cardinality(s) : s \in B}
  <1>1. T \in SUBSET Nat /\ T # {}
    <2>1. \A s \in B : Cardinality(s) \in Nat
      BY FS_Subset, FS_CardinalityType
    <2> QED
      BY <2>1
  <1>2. PICK n \in T : \A m \in T : n <= m
    BY <1>1, NatMinimum
  <1>3. PICK s \in B : Cardinality(s) = n
    BY <1>2
  <1>4. ASSUME NEW x \in s, s \ {x} \in B PROVE FALSE
    <2>1. Cardinality(s) \in Nat /\ Cardinality(s \ {x}) = Cardinality(s) - 1
      BY RemoveOne
    <2>2. n <= Cardinality(s \ {x})
      BY <1>2, <1>4
    <2> QED
      BY <1>3, <2>1, <2>2
  <1> QED
    BY <1>4

(* The partial sums exist.                                                 *)
LEMMA SumsExist ==
    ASSUME NEW S, IsFiniteSet(S), NEW d
    PROVE  \E g : Sums(d, SUBSET S, g)
  <1> DEFINE T == {n \in Nat : ~\E g : Sums(d, UpTo(S, n), g)}
  <1>1. T = {}
    <2> SUFFICES ASSUME T # {} PROVE FALSE
      OBVIOUS
    <2>1. PICK n \in T : \A m \in T : n <= m
      BY NatMinimum
    <2>2. CASE n = 0
      <3>1. \A s \in UpTo(S, 0) : s = {}
        <4> SUFFICES ASSUME NEW s \in SUBSET S, Cardinality(s) <= 0, NEW x \in s PROVE FALSE
          BY DEF UpTo
        <4>1. Cardinality(s) \in Nat /\ Cardinality(s) # 0
          BY RemoveOne
        <4> QED
          BY <4>1
      <3> DEFINE g == [s \in UpTo(S, 0) |-> 0]
      <3>2. Sums(d, UpTo(S, 0), g)
        BY <3>1 DEF Sums
      <3> QED
        BY <2>1, <2>2, <3>2
    <2>3. CASE n # 0
      <3>1. n - 1 \in Nat /\ n - 1 \notin T
        BY <2>1, <2>3
      <3>2. PICK g : Sums(d, UpTo(S, n - 1), g)
        BY <3>1
      <3> DEFINE Step(f, s) == IF s = {} THEN 0
                               ELSE d[CHOOSE x \in s : TRUE] + f[s \ {CHOOSE x \in s : TRUE}]
                 h == [s \in UpTo(S, n) |-> Step(g, s)]
      <3>3. \A s \in UpTo(S, n - 1) : s \in UpTo(S, n) /\ h[s] = g[s]
        <4>1. \A s \in UpTo(S, n - 1) : s \in UpTo(S, n)
          <5> SUFFICES ASSUME NEW s \in SUBSET S, Cardinality(s) <= n - 1
                       PROVE  Cardinality(s) <= n
            BY DEF UpTo
          <5>1. Cardinality(s) \in Nat
            BY FS_Subset, FS_CardinalityType
          <5> QED
            BY <3>1, <5>1
        <4>2. \A s \in UpTo(S, n - 1) : g[s] = Step(g, s)
          BY <3>2 DEF Sums
        <4> QED
          BY <4>1, <4>2
      <3>4. ASSUME NEW s \in UpTo(S, n) PROVE h[s] = Step(h, s)
        <4>1. CASE s = {}
          BY <4>1
        <4>2. CASE s # {}
          <5> DEFINE x == CHOOSE y \in s : TRUE
          <5>1. x \in s /\ s \in SUBSET S /\ Cardinality(s) <= n
            BY <4>2 DEF UpTo
          <5> HIDE DEF x
          <5>2. s \ {x} \in UpTo(S, n - 1)
            <6>1. /\ Cardinality(s) \in Nat /\ s \ {x} \in SUBSET S
                  /\ Cardinality(s \ {x}) = Cardinality(s) - 1
              BY <5>1, RemoveOne
            <6>2. Cardinality(s \ {x}) <= n - 1
              BY <3>1, <5>1, <6>1
            <6> QED
              BY <6>1, <6>2 DEF UpTo
          <5>3. g[s \ {x}] = h[s \ {x}]
            BY <3>3, <5>2
          <5>4. Step(g, s) = Step(h, s)
            BY <4>2, <5>3 DEF x
          <5> QED
            BY <5>4
        <4> QED
          BY <4>1, <4>2
      <3>5. Sums(d, UpTo(S, n), h)
        <4>1. h = [s \in UpTo(S, n) |-> Step(h, s)]
          <5>1. h = [s \in UpTo(S, n) |-> h[s]]
            OBVIOUS
          <5> HIDE DEF h
          <5> QED
            BY <3>4, <5>1
        <4> HIDE DEF h
        <4> QED
          BY <4>1 DEF Sums
      <3> QED
        BY <2>1, <3>5
    <2> QED
      BY <2>2, <2>3
  <1>2. Cardinality(S) \in Nat /\ \A s \in SUBSET S : Cardinality(s) <= Cardinality(S)
    BY FS_CardinalityType, FS_Subset
  <1>3. UpTo(S, Cardinality(S)) = SUBSET S
    BY <1>2 DEF UpTo
  <1>4. Cardinality(S) \notin T
    BY <1>1
  <1>5. \E g : Sums(d, UpTo(S, Cardinality(S)), g)
    BY <1>2, <1>4
  <1> QED
    BY <1>3, <1>5

\* The partial sum function that MapThenSumSet uses.
TheSums(d) == CHOOSE g : Sums(d, SUBSET DOMAIN d, g)

(* SumOf is one of them.                                                   *)
LEMMA SumOfIsSums ==
    ASSUME NEW d, IsFiniteSet(DOMAIN d)
    PROVE  /\ Sums(d, SUBSET DOMAIN d, TheSums(d))
           /\ SumOf(d) = TheSums(d)[DOMAIN d]
  <1>1. Sums(d, SUBSET DOMAIN d, TheSums(d))
    BY SumsExist DEF TheSums
  <1>2. SumOf(d) = TheSums(d)[DOMAIN d]
    BY DEF SumOf, MapThenSumSet, MapThenFoldSet, TheSums, Sums
  <1> QED
    BY <1>1, <1>2

\* What a partial sum of integers is.
Integral(d, S) == \A x \in S : d[x] \in Int

SumsUp(d, S, g) ==
    /\ g[{}] = 0
    /\ \A s \in SUBSET S : s # {} => \E x \in s : g[s] = d[x] + g[s \ {x}]
    /\ \A s \in SUBSET S : g[s] \in Int

SumsInAnyOrder(d, S, g) == \A s \in SUBSET S : \A x \in s : g[s] = d[x] + g[s \ {x}]

Without(d, x) == [y \in DOMAIN d \ {x} |-> d[y]]

(* The partial sums of integers.                                           *)
LEMMA SumsInt ==
    ASSUME NEW S, IsFiniteSet(S), NEW d, Integral(d, S), NEW g, Sums(d, SUBSET S, g)
    PROVE  SumsUp(d, S, g)
  <1> USE DEF Integral
  <1>1. g[{}] = 0
    BY DEF Sums
  <1>2. ASSUME NEW s \in SUBSET S, s # {}
        PROVE  \E x \in s : g[s] = d[x] + g[s \ {x}]
    <2>1. g[s] = d[CHOOSE x \in s : TRUE] + g[s \ {CHOOSE x \in s : TRUE}]
      BY <1>2 DEF Sums
    <2>2. (CHOOSE x \in s : TRUE) \in s
      BY <1>2
    <2> QED
      BY <2>1, <2>2
  <1> DEFINE B == {s \in SUBSET S : g[s] \notin Int}
  <1>3. B = {}
    <2> SUFFICES ASSUME B # {} PROVE FALSE
      OBVIOUS
    <2>1. PICK s \in B : \A x \in s : s \ {x} \notin B
      BY MinimalSet
    <2>2. s \in SUBSET S /\ g[s] \notin Int /\ s # {}
      BY <1>1, <2>1
    <2>3. PICK x \in s : g[s] = d[x] + g[s \ {x}]
      BY <1>2, <2>2
    <2>4. s \ {x} \in SUBSET S /\ s \ {x} \notin B
      BY <2>1, <2>2
    <2>5. g[s \ {x}] \in Int /\ d[x] \in Int
      BY <2>2, <2>4
    <2> QED
      BY <2>2, <2>3, <2>5
  <1> QED
    BY <1>1, <1>2, <1>3 DEF SumsUp

(* A partial sum does not depend on the order of the elements.             *)
LEMMA SumsRemove ==
    ASSUME NEW S, IsFiniteSet(S), NEW d, Integral(d, S), NEW g, Sums(d, SUBSET S, g)
    PROVE  SumsInAnyOrder(d, S, g)
  <1>0. SumsUp(d, S, g)
    BY SumsInt
  <1>1. /\ \A s \in SUBSET S : s # {} => \E x \in s : g[s] = d[x] + g[s \ {x}]
        /\ \A s \in SUBSET S : g[s] \in Int
    BY <1>0 DEF SumsUp
  <1> DEFINE Ok(s) == \A x \in s : g[s] = d[x] + g[s \ {x}]
             B == {s \in SUBSET S : ~Ok(s)}
  <1>2. B = {}
    <2> SUFFICES ASSUME B # {} PROVE FALSE
      OBVIOUS
    <2>1. PICK s \in B : \A x \in s : s \ {x} \notin B
      BY MinimalSet
    <2>2. s \in SUBSET S /\ ~Ok(s)
      BY <2>1
    <2>3. PICK x \in s : g[s] # d[x] + g[s \ {x}]
      BY <2>2
    <2>4. PICK y \in s : g[s] = d[y] + g[s \ {y}]
      BY <1>1, <2>2
    <2>5. x # y
      BY <2>3, <2>4
    <2>6. s \ {x} \in SUBSET S /\ s \ {y} \in SUBSET S
      BY <2>2
    <2>7. Ok(s \ {x}) /\ Ok(s \ {y})
      BY <2>1, <2>6
    <2> DEFINE r == (s \ {x}) \ {y}
    <2>8. r = (s \ {y}) \ {x} /\ r \in SUBSET S
      BY <2>6
    <2>9. g[s \ {x}] = d[y] + g[r] /\ g[s \ {y}] = d[x] + g[(s \ {y}) \ {x}]
      BY <2>5, <2>7
    <2> HIDE DEF r
    <2>10. g[r] \in Int /\ d[x] \in Int /\ d[y] \in Int
      BY <1>1, <2>2, <2>8 DEF Integral
    <2> QED
      BY <2>3, <2>4, <2>8, <2>9, <2>10
  <1> QED
    BY <1>2 DEF SumsInAnyOrder

(* Functions with the same values have the same partial sums.              *)
LEMMA SumsSame ==
    ASSUME NEW S, IsFiniteSet(S), NEW d, NEW e, \A x \in S : d[x] = e[x],
           NEW g, NEW h, NEW U, NEW V, SUBSET S \subseteq U, SUBSET S \subseteq V,
           Sums(d, U, g), Sums(e, V, h)
    PROVE  g[S] = h[S]
  <1> DEFINE B == {s \in SUBSET S : g[s] # h[s]}
  <1>1. B = {}
    <2> SUFFICES ASSUME B # {} PROVE FALSE
      OBVIOUS
    <2>1. PICK s \in B : \A x \in s : s \ {x} \notin B
      BY MinimalSet
    <2>2. s \in SUBSET S /\ g[s] # h[s] /\ s \in U /\ s \in V
      BY <2>1
    <2>3. CASE s = {}
      <3>1. g[s] = 0 /\ h[s] = 0
        BY <2>2, <2>3 DEF Sums
      <3> QED
        BY <2>2, <3>1
    <2>4. CASE s # {}
      <3> DEFINE x == CHOOSE y \in s : TRUE
      <3>1. x \in s
        BY <2>4
      <3>2. g[s] = d[x] + g[s \ {x}] /\ h[s] = e[x] + h[s \ {x}]
        BY <2>2, <2>4 DEF Sums
      <3> HIDE DEF x
      <3>3. s \ {x} \in SUBSET S /\ s \ {x} \notin B
        BY <2>1, <2>2, <3>1
      <3>4. g[s \ {x}] = h[s \ {x}] /\ d[x] = e[x]
        BY <2>2, <3>1, <3>3
      <3> QED
        BY <2>2, <3>2, <3>4
    <2> QED
      BY <2>3, <2>4
  <1> QED
    BY <1>1

-----------------------------------------------------------------------------
(* What the other modules use.                                             *)

(* The sum of integers is an integer.                                      *)
LEMMA SumInt ==
    ASSUME NEW S, IsFiniteSet(S), NEW d \in [S -> Int]
    PROVE  SumOf(d) \in Int
  <1>1. Sums(d, SUBSET S, TheSums(d)) /\ SumOf(d) = TheSums(d)[S]
    BY SumOfIsSums
  <1>2. SumsUp(d, S, TheSums(d))
    <2>1. Integral(d, S)
      BY DEF Integral
    <2> QED
      BY <1>1, <2>1, SumsInt
  <1> QED
    BY <1>1, <1>2 DEF SumsUp

(* The sum of nothing.                                                     *)
LEMMA SumEmpty ==
    ASSUME NEW d, DOMAIN d = {}
    PROVE  SumOf(d) = 0
  <1>1. IsFiniteSet({}) /\ {} \in SUBSET {}
    BY FS_EmptySet
  <1>2. Sums(d, SUBSET {}, TheSums(d)) /\ SumOf(d) = TheSums(d)[{}]
    BY <1>1, SumOfIsSums
  <1> QED
    BY <1>1, <1>2 DEF Sums

(* One value and the rest.                                                 *)
LEMMA SumRemove ==
    ASSUME NEW S, IsFiniteSet(S), NEW d \in [S -> Int], NEW x \in S
    PROVE  SumOf(d) = d[x] + SumOf(Without(d, x)) /\ SumOf(Without(d, x)) \in Int
  <1> DEFINE e == Without(d, x)
             R == S \ {x}
  <1>1. IsFiniteSet(R) /\ e \in [R -> Int]
    BY FS_Subset DEF Without
  <1>0. \A y \in R : d[y] = e[y]
    BY DEF Without
  <1>5. R \in SUBSET S /\ SUBSET R \subseteq SUBSET S /\ SUBSET R \subseteq SUBSET R
    OBVIOUS
  <1>6. S \in SUBSET S /\ R = S \ {x}
    OBVIOUS
  <1> HIDE DEF e, R
  <1>2. /\ Sums(d, SUBSET S, TheSums(d)) /\ SumOf(d) = TheSums(d)[S]
        /\ Sums(e, SUBSET R, TheSums(e)) /\ SumOf(e) = TheSums(e)[R]
    BY <1>1, SumOfIsSums
  <1>3. TheSums(d)[S] = d[x] + TheSums(d)[R]
    <2>1. Integral(d, S)
      BY DEF Integral
    <2>2. SumsInAnyOrder(d, S, TheSums(d))
      BY <1>2, <2>1, SumsRemove
    <2> QED
      BY <1>6, <2>2 DEF SumsInAnyOrder
  <1>4. TheSums(d)[R] = TheSums(e)[R]
    BY <1>0, <1>1, <1>2, <1>5, SumsSame
  <1>7. SumOf(e) \in Int
    BY <1>1, SumInt
  <1> QED
    BY <1>2, <1>3, <1>4, <1>7 DEF e

(* One value changes.                                                      *)
LEMMA SumChange ==
    ASSUME NEW S, IsFiniteSet(S), NEW d \in [S -> Int], NEW e \in [S -> Int], NEW x \in S,
           \A y \in S \ {x} : e[y] = d[y]
    PROVE  SumOf(e) = SumOf(d) + (e[x] - d[x])
  <1>1. Without(e, x) = Without(d, x)
    BY DEF Without
  <1>2. SumOf(d) = d[x] + SumOf(Without(d, x)) /\ SumOf(Without(d, x)) \in Int
    BY SumRemove
  <1>3. SumOf(e) = e[x] + SumOf(Without(e, x))
    BY SumRemove
  <1> QED
    BY <1>1, <1>2, <1>3

(* A sum of zeros.                                                         *)
LEMMA SumZero ==
    ASSUME NEW S, IsFiniteSet(S), NEW d \in [S -> Int], \A x \in S : d[x] = 0
    PROVE  SumOf(d) = 0
  <1> DEFINE g == TheSums(d)
             B == {s \in SUBSET S : g[s] # 0}
  <1>1. Sums(d, SUBSET S, g) /\ SumOf(d) = g[S]
    BY SumOfIsSums
  <1> HIDE DEF g
  <1>2. SumsUp(d, S, g)
    <2>1. Integral(d, S)
      BY DEF Integral
    <2> QED
      BY <1>1, <2>1, SumsInt
  <1>3. B = {}
    <2> SUFFICES ASSUME B # {} PROVE FALSE
      OBVIOUS
    <2>1. PICK s \in B : \A x \in s : s \ {x} \notin B
      BY MinimalSet
    <2>2. s \in SUBSET S /\ g[s] # 0 /\ s # {}
      BY <1>2, <2>1 DEF SumsUp
    <2>3. PICK x \in s : g[s] = d[x] + g[s \ {x}]
      BY <1>2, <2>2 DEF SumsUp
    <2>4. s \ {x} \in SUBSET S /\ s \ {x} \notin B
      BY <2>1, <2>2
    <2>5. g[s \ {x}] = 0 /\ d[x] = 0
      BY <2>2, <2>4
    <2> QED
      BY <2>2, <2>3, <2>5
  <1> QED
    BY <1>1, <1>3

-----------------------------------------------------------------------------
(* Sums in parts.                                                          *)

\* d on s alone; the elements of s that f sends to t; the sums of d over these.
On(d, s) == [x \in s |-> d[x]]
PartAt(f, s, t) == {x \in s : f[x] = t}
PartSums(d, f, s, T) == [t \in T |-> SumOf(On(d, PartAt(f, s, t)))]

LEMMA PartSumsInt ==
    ASSUME NEW S, IsFiniteSet(S), NEW d \in [S -> Int], NEW T, NEW f \in [S -> T],
           NEW s \in SUBSET S
    PROVE  /\ On(d, s) \in [s -> Int] /\ IsFiniteSet(s)
           /\ \A t \in T : /\ IsFiniteSet(PartAt(f, s, t))
                           /\ On(d, PartAt(f, s, t)) \in [PartAt(f, s, t) -> Int]
           /\ PartSums(d, f, s, T) \in [T -> Int]
  <1>1. \A p \in SUBSET S : IsFiniteSet(p) /\ On(d, p) \in [p -> Int]
    BY FS_Subset DEF On
  <1>2. \A t \in T : PartAt(f, s, t) \in SUBSET S
    BY DEF PartAt
  <1>3. \A p \in SUBSET S : SumOf(On(d, p)) \in Int
    BY <1>1, SumInt
  <1> QED
    BY <1>1, <1>2, <1>3 DEF PartSums

\* A sum is the sum of the sums over the parts of a partition.
LEMMA SumInParts ==
    ASSUME NEW S, IsFiniteSet(S), NEW d \in [S -> Int],
           NEW T, IsFiniteSet(T), NEW f \in [S -> T]
    PROVE  SumOf(d) = SumOf(PartSums(d, f, S, T))
  <1> DEFINE Ok(s) == SumOf(On(d, s)) = SumOf(PartSums(d, f, s, T))
             B == {s \in SUBSET S : ~Ok(s)}
  <1>1. B = {}
    <2> SUFFICES ASSUME B # {} PROVE FALSE
      OBVIOUS
    <2>1. PICK s \in B : \A x \in s : s \ {x} \notin B
      BY MinimalSet
    <2>2. s \in SUBSET S /\ ~Ok(s)
      BY <2>1
    <2>3. CASE s = {}
      <3>1. SumOf(On(d, s)) = 0
        BY <2>3, SumEmpty DEF On
      <3>2. \A t \in T : PartSums(d, f, s, T)[t] = 0
        <4>1. \A t \in T : DOMAIN On(d, PartAt(f, s, t)) = {}
          BY <2>3 DEF On, PartAt
        <4> QED
          BY <4>1, SumEmpty DEF PartSums
      <3>3. PartSums(d, f, s, T) \in [T -> Int]
        BY <2>2, PartSumsInt
      <3>4. SumOf(PartSums(d, f, s, T)) = 0
        BY <3>2, <3>3, SumZero
      <3> QED
        BY <2>2, <3>1, <3>4
    <2>4. CASE s # {}
      <3>1. PICK x \in s : TRUE
        BY <2>4
      <3>2. PICK r : r = s \ {x}
        OBVIOUS
      <3>3. r \in SUBSET S /\ Ok(r) /\ x \in S
        BY <2>1, <2>2, <3>1, <3>2
      <3> HIDE DEF B, Ok
      <3>4. \A p \in SUBSET S : x \in p =>
              SumOf(On(d, p)) = d[x] + SumOf(On(d, p \ {x})) /\ SumOf(On(d, p \ {x})) \in Int
        <4> SUFFICES ASSUME NEW p \in SUBSET S, x \in p
                     PROVE  /\ SumOf(On(d, p)) = d[x] + SumOf(On(d, p \ {x}))
                            /\ SumOf(On(d, p \ {x})) \in Int
          OBVIOUS
        <4>1. IsFiniteSet(p) /\ On(d, p) \in [p -> Int] /\ On(d, p)[x] = d[x]
          BY FS_Subset DEF On
        <4>2. Without(On(d, p), x) = On(d, p \ {x})
          BY DEF Without, On
        <4> QED
          BY <4>1, <4>2, SumRemove
      <3>5. SumOf(On(d, s)) = d[x] + SumOf(On(d, r)) /\ SumOf(On(d, r)) \in Int
        BY <2>2, <3>1, <3>2, <3>4
      <3>6. PICK t \in T : t = f[x]
        BY <3>3
      <3>7. PICK e1, e2 : e1 = PartSums(d, f, s, T) /\ e2 = PartSums(d, f, r, T)
        OBVIOUS
      <3>8. e1 \in [T -> Int] /\ e2 \in [T -> Int]
        BY <2>2, <3>3, <3>7, PartSumsInt
      <3>9. \A u \in T \ {t} : e1[u] = e2[u]
        <4>1. \A u \in T \ {t} : PartAt(f, s, u) = PartAt(f, r, u)
          BY <3>1, <3>2, <3>6 DEF PartAt
        <4> QED
          BY <3>7, <4>1 DEF PartSums
      <3>10. e1[t] = d[x] + e2[t]
        <4>1. /\ PartAt(f, s, t) \in SUBSET S /\ x \in PartAt(f, s, t)
              /\ PartAt(f, s, t) \ {x} = PartAt(f, r, t)
          BY <2>2, <3>1, <3>2, <3>6 DEF PartAt
        <4>2. SumOf(On(d, PartAt(f, s, t))) = d[x] + SumOf(On(d, PartAt(f, r, t)))
          BY <3>4, <4>1
        <4> QED
          BY <3>6, <3>7, <4>2 DEF PartSums
      <3>11. SumOf(e1) = SumOf(e2) + (e1[t] - e2[t])
        BY <3>8, <3>9, SumChange
      <3>12. SumOf(e2) = SumOf(On(d, r)) /\ e2[t] \in Int /\ d[x] \in Int
        BY <3>3, <3>7, <3>8 DEF Ok
      <3>13. SumOf(e1) = SumOf(On(d, s))
        BY <3>5, <3>10, <3>11, <3>12
      <3> QED
        BY <2>2, <3>7, <3>13 DEF Ok
    <2> QED
      BY <2>3, <2>4
  <1>2. On(d, S) = d
    BY DEF On
  <1> QED
    BY <1>1, <1>2

(* The sum of one value.                                                   *)
LEMMA SumOne ==
    ASSUME NEW x, NEW d \in [{x} -> Int]
    PROVE  SumOf(d) = d[x]
  <1>1. IsFiniteSet({x})
    BY FS_Singleton
  <1>2. SumOf(d) = d[x] + SumOf(Without(d, x))
    BY <1>1, SumRemove
  <1>3. DOMAIN Without(d, x) = {}
    BY DEF Without
  <1>4. SumOf(Without(d, x)) = 0
    BY <1>3, SumEmpty
  <1>5. d[x] \in Int
    OBVIOUS
  <1> QED
    BY <1>2, <1>4, <1>5

(* How many there are.                                                     *)
LEMMA SumCounts ==
    ASSUME NEW S, IsFiniteSet(S), NEW d \in [S -> Int], \A x \in S : d[x] = 1
    PROVE  SumOf(d) = Cardinality(S)
  <1> DEFINE Ok(s) == SumOf(On(d, s)) = Cardinality(s)
             B == {s \in SUBSET S : ~Ok(s)}
  <1>1. B = {}
    <2> SUFFICES ASSUME B # {} PROVE FALSE
      OBVIOUS
    <2>1. PICK s \in B : \A x \in s : s \ {x} \notin B
      BY MinimalSet
    <2>2. s \in SUBSET S /\ ~Ok(s)
      BY <2>1
    <2>3. CASE s = {}
      <3>1. SumOf(On(d, s)) = 0
        BY <2>3, SumEmpty DEF On
      <3> QED
        BY <2>2, <2>3, <3>1, FS_EmptySet
    <2>4. CASE s # {}
      <3>1. PICK x \in s : TRUE
        BY <2>4
      <3>2. PICK r : r = s \ {x}
        OBVIOUS
      <3>3. r \in SUBSET S /\ Ok(r) /\ d[x] = 1
        BY <2>1, <2>2, <3>1, <3>2
      <3>4. Cardinality(s) \in Nat /\ Cardinality(r) = Cardinality(s) - 1
        BY <2>2, <3>1, <3>2, RemoveOne
      <3>5. IsFiniteSet(s) /\ On(d, s) \in [s -> Int] /\ On(d, s)[x] = 1
        BY <2>2, <3>1, <3>3, FS_Subset DEF On
      <3>6. Without(On(d, s), x) = On(d, r)
        BY <3>2 DEF Without, On
      <3>7. SumOf(On(d, s)) = 1 + SumOf(On(d, r))
        BY <3>1, <3>5, <3>6, SumRemove
      <3> QED
        BY <2>2, <3>3, <3>4, <3>7
    <2> QED
      BY <2>3, <2>4
  <1>2. On(d, S) = d
    BY DEF On
  <1> QED
    BY <1>1, <1>2

(* The sum of a list is what adding up its elements in order comes to.     *)
LEMMA SumInOrder ==
    ASSUME NEW n \in Nat, NEW d \in [1 .. n -> Int], NEW h, h[0] = 0,
           \A k \in 1 .. n : h[k] = h[k - 1] + d[k]
    PROVE  SumOf(d) = h[n]
  <1> DEFINE Ok(k) == SumOf(On(d, 1 .. k)) = h[k]
             B == {k \in 0 .. n : ~Ok(k)}
  <1>1. B = {}
    <2> SUFFICES ASSUME B # {} PROVE FALSE
      OBVIOUS
    <2>0. B \in SUBSET Nat
      OBVIOUS
    <2>1. PICK k \in B : \A j \in B : k <= j
      BY <2>0, NatMinimum
    <2>2. k \in 0 .. n /\ ~Ok(k)
      BY <2>1
    <2>3. CASE k = 0
      <3>1. DOMAIN On(d, 1 .. 0) = {}
        BY DEF On
      <3>2. SumOf(On(d, 1 .. 0)) = 0
        BY <3>1, SumEmpty
      <3> QED
        BY <2>2, <2>3, <3>2
    <2>4. CASE k # 0
      <3>1. k - 1 \in 0 .. n /\ k - 1 \notin B /\ k \in 1 .. n
        BY <2>1, <2>2, <2>4
      <3>2. Ok(k - 1)
        BY <3>1
      <3>3. IsFiniteSet(1 .. k)
        BY FS_Interval
      <3>4. On(d, 1 .. k) \in [1 .. k -> Int] /\ On(d, 1 .. k)[k] = d[k] /\ k \in 1 .. k
        BY <3>1 DEF On
      <3>5. Without(On(d, 1 .. k), k) = On(d, 1 .. k - 1)
        <4>1. (1 .. k) \ {k} = 1 .. k - 1
          BY <3>1
        <4> QED
          BY <4>1 DEF Without, On
      <3>6. SumOf(On(d, 1 .. k)) = d[k] + SumOf(On(d, 1 .. k - 1))
            /\ SumOf(On(d, 1 .. k - 1)) \in Int
        BY <3>3, <3>4, <3>5, SumRemove
      <3>7. d[k] \in Int /\ h[k] = h[k - 1] + d[k]
        BY <3>1
      <3> QED
        BY <2>2, <3>2, <3>6, <3>7
    <2> QED
      BY <2>3, <2>4
  <1>2. Ok(n)
    BY <1>1
  <1>3. On(d, 1 .. n) = d
    BY DEF On
  <1> QED
    BY <1>2, <1>3

(* What a function makes of a finite set is finite.                        *)
LEMMA ImageFinite ==
    ASSUME NEW S, IsFiniteSet(S), NEW f, DOMAIN f = S, f = [x \in S |-> f[x]]
    PROVE  IsFiniteSet({f[x] : x \in S})
  <1> DEFINE T == {f[x] : x \in S}
  <1>1. f \in [S -> T]
    BY Zenon
  <1>2. \A y \in T : \E x \in S : f[x] = y
    OBVIOUS
  <1> HIDE DEF T
  <1>3. f \in Surjection(S, T)
    BY <1>1, <1>2 DEF Surjection
  <1>4. IsFiniteSet(T)
    BY <1>3, FS_Surjection
  <1> QED
    BY <1>4 DEF T

(* Values that are put at other places add up to the same.                 *)
LEMMA SumAlong ==
    ASSUME NEW S, IsFiniteSet(S), NEW d \in [S -> Int],
           NEW T, IsFiniteSet(T), NEW f \in [S -> T], NEW g,
           \A t \in T : g[t] \in S /\ PartAt(f, S, t) = {g[t]}
    PROVE  SumOf(d) = SumOf([t \in T |-> d[g[t]]])
  <1>1. SumOf(d) = SumOf(PartSums(d, f, S, T))
    BY SumInParts
  <1>2. ASSUME NEW t \in T
        PROVE  SumOf(On(d, PartAt(f, S, t))) = d[g[t]]
    <2>1. PICK x \in S : x = g[t] /\ PartAt(f, S, t) = {x}
      OBVIOUS
    <2>2. On(d, {x}) \in [{x} -> Int] /\ On(d, {x})[x] = d[x]
      BY DEF On
    <2>3. SumOf(On(d, {x})) = d[x]
      BY <2>2, SumOne
    <2> QED
      BY <2>1, <2>3
  <1>3. PartSums(d, f, S, T) = [t \in T |-> d[g[t]]]
    BY <1>2 DEF PartSums
  <1> QED
    BY <1>1, <1>3

(* Parts of parts.                                                         *)
PartsOfPart(d, f, g, S, U, t) ==
    [u \in U |-> SumOf(On(d, {x \in S : f[x] = t /\ g[x] = u}))]

LEMMA SumInTwo ==
    ASSUME NEW S, IsFiniteSet(S), NEW d \in [S -> Int],
           NEW T, IsFiniteSet(T), NEW f \in [S -> T],
           NEW U, IsFiniteSet(U), NEW g \in [S -> U]
    PROVE  SumOf(d) = SumOf([t \in T |-> SumOf(PartsOfPart(d, f, g, S, U, t))])
  <1>1. SumOf(d) = SumOf(PartSums(d, f, S, T))
    BY SumInParts
  <1>2. ASSUME NEW t \in T
        PROVE  SumOf(On(d, PartAt(f, S, t))) = SumOf(PartsOfPart(d, f, g, S, U, t))
    <2>1. PICK P \in SUBSET S : P = PartAt(f, S, t)
      BY DEF PartAt
    <2>2. PICK e, h : e = On(d, P) /\ h = On(g, P)
      OBVIOUS
    <2>3. IsFiniteSet(P) /\ e \in [P -> Int] /\ h \in [P -> U]
      BY <2>2, FS_Subset DEF On
    <2>4. SumOf(e) = SumOf(PartSums(e, h, P, U))
      BY <2>3, SumInParts
    <2>5. ASSUME NEW u \in U
          PROVE  On(e, PartAt(h, P, u)) = On(d, {x \in S : f[x] = t /\ g[x] = u})
      <3>1. PartAt(h, P, u) = {x \in S : f[x] = t /\ g[x] = u}
        BY <2>1, <2>2 DEF PartAt, On
      <3>2. PartAt(h, P, u) \in SUBSET P
        BY DEF PartAt
      <3>3. \A x \in P : e[x] = d[x]
        BY <2>2 DEF On
      <3> QED
        BY <3>1, <3>2, <3>3 DEF On
    <2>6. PartSums(e, h, P, U) = PartsOfPart(d, f, g, S, U, t)
      BY <2>5 DEF PartSums, PartsOfPart
    <2> QED
      BY <2>1, <2>2, <2>4, <2>6
  <1>3. PartSums(d, f, S, T) = [t \in T |-> SumOf(PartsOfPart(d, f, g, S, U, t))]
    BY <1>2 DEF PartSums
  <1> QED
    BY <1>1, <1>3

(* The sum of what a function has for a set.                               *)
LEMMA SumOver ==
    ASSUME NEW S, NEW q
    PROVE  MapThenSumSet(LAMBDA x : q[x], S) = SumOf(On(q, S))
  <1> DEFINE Pick(s) == CHOOSE x \in s : TRUE
             d == On(q, S)
             G(g) == g = [s \in SUBSET S |->
                             IF s = {} THEN 0 ELSE q[Pick(s)] + g[s \ {Pick(s)}]]
             H(g) == g = [s \in SUBSET S |->
                             IF s = {} THEN 0 ELSE d[Pick(s)] + g[s \ {Pick(s)}]]
  <1>1. DOMAIN d = S /\ \A x \in S : d[x] = q[x]
    BY DEF On
  <1>2. MapThenSumSet(LAMBDA x : q[x], S) = (CHOOSE g : G(g))[S]
    BY DEF MapThenSumSet, MapThenFoldSet
  <1>3. SumOf(d) = (CHOOSE g : H(g))[S]
    <2> HIDE DEF d
    <2> QED
      BY <1>1 DEF SumOf, MapThenSumSet, MapThenFoldSet
  <1>4. \A s \in SUBSET S : s # {} => d[Pick(s)] = q[Pick(s)]
    <2>1. \A s \in SUBSET S : s # {} => Pick(s) \in S
      OBVIOUS
    <2> HIDE DEF Pick, d
    <2> QED
      BY <1>1, <2>1
  <1>5. \A g : G(g) <=> H(g)
    <2> SUFFICES ASSUME NEW g PROVE G(g) <=> H(g)
      OBVIOUS
    <2>1. [s \in SUBSET S |-> IF s = {} THEN 0 ELSE q[Pick(s)] + g[s \ {Pick(s)}]]
          = [s \in SUBSET S |-> IF s = {} THEN 0 ELSE d[Pick(s)] + g[s \ {Pick(s)}]]
      <3> HIDE DEF Pick, d
      <3> QED
        BY <1>4
    <2> QED
      BY <2>1
  <1> HIDE DEF G, H
  <1>6. (CHOOSE g : G(g)) = (CHOOSE g : H(g))
    BY <1>5, Zenon
  <1> QED
    BY <1>2, <1>3, <1>6

-----------------------------------------------------------------------------
(* Greatest and least numbers, and what a fold over a list comes to.       *)

(* The greatest number of a finite set.                                    *)
LEMMA MaxIs ==
    ASSUME NEW S \in SUBSET Int, NEW m \in S, \A x \in S : x <= m
    PROVE  Max(S) = m
  <1>1. m \in S /\ \A x \in S : m >= x
    OBVIOUS
  <1>2. Max(S) \in S /\ \A x \in S : Max(S) >= x
    BY <1>1 DEF Max
  <1>3. Max(S) >= m /\ Max(S) <= m /\ Max(S) \in Int
    BY <1>2
  <1> QED
    BY <1>3

LEMMA MinIs ==
    ASSUME NEW S \in SUBSET Int, NEW m \in S, \A x \in S : m <= x
    PROVE  Min(S) = m
  <1>1. m \in S /\ \A x \in S : m <= x
    OBVIOUS
  <1>2. Min(S) \in S /\ \A x \in S : Min(S) <= x
    BY <1>1 DEF Min
  <1>3. Min(S) >= m /\ Min(S) <= m /\ Min(S) \in Int
    BY <1>2
  <1> QED
    BY <1>3

LEMMA MaxExists ==
    ASSUME NEW S \in SUBSET Int, IsFiniteSet(S), S # {}
    PROVE  Max(S) \in S /\ \A x \in S : x <= Max(S)
  <1> DEFINE Ok(s) == \E m \in s : \A x \in s : x <= m
             B == {s \in SUBSET S : s # {} /\ ~Ok(s)}
  <1>1. B = {}
    <2> SUFFICES ASSUME B # {} PROVE FALSE
      OBVIOUS
    <2>1. PICK s \in B : \A x \in s : s \ {x} \notin B
      BY MinimalSet
    <2>2. s \in SUBSET S /\ ~Ok(s)
      BY <2>1
    <2>3. PICK x \in s : x \in Int
      BY <2>1
    <2>4. CASE s \ {x} = {}
      <3>1. \A y \in s : y <= x
        BY <2>3, <2>4
      <3> QED
        BY <2>2, <2>3, <3>1
    <2>5. CASE s \ {x} # {}
      <3>1. Ok(s \ {x})
        BY <2>1, <2>2, <2>3, <2>5
      <3>2. PICK m \in s \ {x} : \A y \in s \ {x} : y <= m
        BY <3>1
      <3>3. m \in Int
        BY <2>2, <3>2
      <3>4. \A y \in s : y \in Int
        BY <2>2
      <3>5. \E k \in s : \A y \in s : y <= k
        <4>1. CASE x <= m
          BY <2>3, <3>2, <3>3, <3>4, <4>1
        <4>2. CASE ~(x <= m)
          BY <2>3, <3>2, <3>3, <3>4, <4>2
        <4> QED
          BY <4>1, <4>2
      <3> QED
        BY <2>2, <3>5
    <2> QED
      BY <2>4, <2>5
  <1>2. PICK m \in S : \A x \in S : x <= m
    BY <1>1
  <1> QED
    BY <1>2, MaxIs

\* g is a partial fold over the elements that c chooses one after the other,
\* F the table of the operator.
Folded(U, base, F, c, g) ==
    \A s \in U : g[s] = IF s = {} THEN base ELSE F[<<s, g[s \ {c[s]}]>>]

(* The partial folds exist.                                                *)
LEMMA FoldExists ==
    ASSUME NEW S, IsFiniteSet(S), NEW base \in Int,
           NEW F \in [(SUBSET S) \X Int -> Int],
           NEW c, \A s \in SUBSET S : s # {} => c[s] \in s
    PROVE  \E g \in [SUBSET S -> Int] : Folded(SUBSET S, base, F, c, g)
  <1> DEFINE Some(n) == \E g \in [UpTo(S, n) -> Int] : Folded(UpTo(S, n), base, F, c, g)
             T == {n \in Nat : ~Some(n)}
  <1>1. T = {}
    <2> SUFFICES ASSUME T # {} PROVE FALSE
      OBVIOUS
    <2>1. PICK n \in T : \A m \in T : n <= m
      BY NatMinimum
    <2>2. CASE n = 0
      <3>1. \A s \in UpTo(S, 0) : s = {}
        <4> SUFFICES ASSUME NEW s \in SUBSET S, Cardinality(s) <= 0, NEW x \in s PROVE FALSE
          BY DEF UpTo
        <4>1. Cardinality(s) \in Nat /\ Cardinality(s) # 0
          BY RemoveOne
        <4> QED
          BY <4>1
      <3> DEFINE g == [s \in UpTo(S, 0) |-> base]
      <3>2. g \in [UpTo(S, 0) -> Int] /\ Folded(UpTo(S, 0), base, F, c, g)
        BY <3>1 DEF Folded
      <3> QED
        BY <2>1, <2>2, <3>2
    <2>3. CASE n # 0
      <3>1. n - 1 \in Nat /\ n - 1 \notin T
        BY <2>1, <2>3
      <3>2. PICK g \in [UpTo(S, n - 1) -> Int] : Folded(UpTo(S, n - 1), base, F, c, g)
        BY <3>1
      <3> DEFINE Step(f, s) == IF s = {} THEN base ELSE F[<<s, f[s \ {c[s]}]>>]
                 h == [s \in UpTo(S, n) |-> Step(g, s)]
      <3>3. \A s \in UpTo(S, n - 1) : s \in UpTo(S, n) /\ h[s] = g[s]
        <4>1. \A s \in UpTo(S, n - 1) : s \in UpTo(S, n)
          <5> SUFFICES ASSUME NEW s \in SUBSET S, Cardinality(s) <= n - 1
                       PROVE  Cardinality(s) <= n
            BY DEF UpTo
          <5>1. Cardinality(s) \in Nat
            BY FS_Subset, FS_CardinalityType
          <5> QED
            BY <3>1, <5>1
        <4>2. \A s \in UpTo(S, n - 1) : g[s] = Step(g, s)
          BY <3>2 DEF Folded
        <4> QED
          BY <4>1, <4>2
      <3>4. ASSUME NEW s \in UpTo(S, n) PROVE h[s] = Step(h, s) /\ h[s] \in Int
        <4>1. CASE s = {}
          BY <4>1
        <4>2. CASE s # {}
          <5>1. PICK x \in s : x = c[s]
            BY <4>2 DEF UpTo
          <5>2. s \in SUBSET S /\ Cardinality(s) <= n
            BY DEF UpTo
          <5>3. s \ {x} \in UpTo(S, n - 1)
            <6>1. /\ Cardinality(s) \in Nat /\ s \ {x} \in SUBSET S
                  /\ Cardinality(s \ {x}) = Cardinality(s) - 1
              BY <5>2, RemoveOne
            <6>2. Cardinality(s \ {x}) <= n - 1
              BY <3>1, <5>2, <6>1
            <6> QED
              BY <6>1, <6>2 DEF UpTo
          <5>4. g[s \ {x}] = h[s \ {x}] /\ g[s \ {x}] \in Int
            BY <3>2, <3>3, <5>3
          <5>5. Step(g, s) = Step(h, s)
            BY <4>2, <5>1, <5>4
          <5>6. h[s] = F[<<s, g[s \ {x}]>>]
            BY <4>2, <5>1
          <5>7. h[s] \in Int
            BY <5>2, <5>4, <5>6
          <5> QED
            BY <5>5, <5>7
        <4> QED
          BY <4>1, <4>2
      <3>5. h \in [UpTo(S, n) -> Int] /\ Folded(UpTo(S, n), base, F, c, h)
        <4>1. h = [s \in UpTo(S, n) |-> h[s]]
          OBVIOUS
        <4> HIDE DEF h
        <4>2. h \in [UpTo(S, n) -> Int]
          BY <3>4, <4>1
        <4> QED
          BY <3>4, <4>2 DEF Folded
      <3> QED
        BY <2>1, <3>5
    <2> QED
      BY <2>2, <2>3
  <1>2. Cardinality(S) \in Nat /\ \A s \in SUBSET S : Cardinality(s) <= Cardinality(S)
    BY FS_CardinalityType, FS_Subset
  <1>3. UpTo(S, Cardinality(S)) = SUBSET S
    BY <1>2 DEF UpTo
  <1>4. Some(Cardinality(S))
    BY <1>1, <1>2
  <1> QED
    BY <1>3, <1>4

\* The number that the elements of an initial part of a list have last.
LEMMA MaxOfUpTo ==
    ASSUME NEW n \in Nat
    PROVE  /\ IsFiniteSet(1 .. n)
           /\ \A s \in SUBSET (1 .. n) : s # {} => Max(s) \in s
           /\ \A k \in 1 .. n : /\ 1 .. k \in SUBSET (1 .. n) /\ 1 .. k # {}
                                /\ Max(1 .. k) = k
                                /\ (1 .. k) \ {Max(1 .. k)} = 1 .. k - 1
  <1>1. IsFiniteSet(1 .. n)
    BY FS_Interval
  <1>2. \A s \in SUBSET (1 .. n) : s # {} => Max(s) \in s
    <2> SUFFICES ASSUME NEW s \in SUBSET (1 .. n), s # {} PROVE Max(s) \in s
      OBVIOUS
    <2>1. s \in SUBSET Int
      OBVIOUS
    <2>2. PICK S : S = 1 .. n
      OBVIOUS
    <2>3. IsFiniteSet(S) /\ s \in SUBSET S
      BY <1>1, <2>2
    <2>4. IsFiniteSet(s)
      BY <2>3, FS_Subset
    <2> QED
      BY <2>1, <2>4, MaxExists
  <1>3. ASSUME NEW k \in 1 .. n
        PROVE  /\ 1 .. k \in SUBSET (1 .. n) /\ 1 .. k # {} /\ Max(1 .. k) = k
               /\ (1 .. k) \ {Max(1 .. k)} = 1 .. k - 1
    <2>1. k \in 1 .. k /\ 1 .. k \in SUBSET Int /\ \A x \in 1 .. k : x <= k
      OBVIOUS
    <2>2. Max(1 .. k) = k
      BY <2>1, MaxIs
    <2> QED
      BY <2>1, <2>2
  <1> QED
    BY <1>1, <1>2, <1>3

\* The value of a list, the elements being put in one after the other: T[k, v]
\* is what v becomes with the k-th.
InTurn(T, n, base, h) ==
    /\ h[0] = base /\ \A k \in 0 .. n : h[k] \in Int
    /\ \A k \in 1 .. n : h[k] = T[<<k, h[k - 1]>>]

TableOf(T, n) == T \in [(1 .. n) \X Int -> Int]

\* g gives a value to every set of places of a list.
Solves(T, n, base, g) ==
    /\ g[{}] = base
    /\ \A s \in SUBSET (1 .. n) : s # {} =>
           LET m == Max(s) IN
           g[s \ {m}] \in Int => g[s] = T[<<m, g[s \ {m}]>>]

(* There is such a g, with numbers for values.                             *)
LEMMA SolvesExists ==
    ASSUME NEW n \in Nat, NEW base \in Int, NEW T, TableOf(T, n)
    PROVE  \E g \in [SUBSET (1 .. n) -> Int] : Solves(T, n, base, g)
  <1>1. PICK S : S = 1 .. n
    OBVIOUS
  <1> DEFINE c == [s \in SUBSET S |-> Max(s)]
             F == [p \in (SUBSET S) \X Int |->
                       IF p[1] = {} THEN 0 ELSE T[<<Max(p[1]), p[2]>>]]
  <1>2. IsFiniteSet(S) /\ \A s \in SUBSET S : s # {} => Max(s) \in s
    BY <1>1, MaxOfUpTo
  <1>3. \A s \in SUBSET S : s # {} => c[s] \in s
    BY <1>2
  <1>4. F \in [(SUBSET S) \X Int -> Int]
    <2>1. \A s \in SUBSET S, v \in Int : s # {} => T[<<Max(s), v>>] \in Int
      BY <1>1, <1>2 DEF TableOf
    <2> QED
      BY <2>1
  <1>5. PICK g \in [SUBSET S -> Int] : Folded(SUBSET S, base, F, c, g)
    <2> HIDE DEF c, F
    <2> QED
      BY <1>2, <1>3, <1>4, FoldExists
  <1>6. ASSUME NEW s \in SUBSET S, s # {}
        PROVE  g[s] = T[<<Max(s), g[s \ {Max(s)}]>>]
    <2>1. PICK v \in Int : v = g[s \ {Max(s)}]
      OBVIOUS
    <2>2. g[s] = F[<<s, v>>]
      BY <1>6, <2>1, <1>5 DEF Folded
    <2>3. F[<<s, v>>] = T[<<Max(s), v>>]
      BY <1>6
    <2> QED
      BY <2>1, <2>2, <2>3
  <1>7. g[{}] = base
    BY <1>5 DEF Folded
  <1> QED
    BY <1>1, <1>6, <1>7 DEF Solves

ValueInTurn(T, n, base, value) ==
    \E h : InTurn(T, n, base, h) /\ h[n] = value

(* Its value for the whole list is the last one of those in turn.          *)
LEMMA SolvesInTurn ==
    ASSUME NEW n \in Nat, NEW base \in Int, NEW T, TableOf(T, n),
           NEW g, Solves(T, n, base, g)
    PROVE  ValueInTurn(T, n, base, g[1 .. n])
  <1> DEFINE h == [k \in 0 .. n |-> g[1 .. k]]
  <1>1. h[0] = base /\ h[n] = g[1 .. n]
    <2>1. 1 .. 0 = {}
      OBVIOUS
    <2> QED
      BY <2>1 DEF Solves
  <1>2. ASSUME NEW k \in 1 .. n, h[k - 1] \in Int
        PROVE  h[k] = T[<<k, h[k - 1]>>]
    <2>1. /\ 1 .. k \in SUBSET (1 .. n) /\ 1 .. k # {}
          /\ Max(1 .. k) = k /\ (1 .. k) \ {Max(1 .. k)} = 1 .. k - 1
      BY MaxOfUpTo
    <2>2. k \in 0 .. n /\ k - 1 \in 0 .. n
      OBVIOUS
    <2>3. PICK s \in SUBSET (1 .. n) : s = 1 .. k
      BY <2>1
    <2>4. s # {} /\ Max(s) = k /\ s \ {k} = 1 .. k - 1
      BY <2>1, <2>3
    <2>5. h[k] = g[s] /\ h[k - 1] = g[s \ {k}]
      BY <2>2, <2>3, <2>4
    <2> HIDE DEF h
    <2> QED
      BY <1>2, <2>4, <2>5 DEF Solves
  <1> HIDE DEF h
  <1>3. \A k \in 0 .. n : h[k] \in Int
    <2> DEFINE B == {k \in 0 .. n : h[k] \notin Int}
    <2> SUFFICES ASSUME B # {} PROVE FALSE
      OBVIOUS
    <2>1. B \in SUBSET Nat
      OBVIOUS
    <2>2. PICK k \in B : \A j \in B : k <= j
      BY <2>1, NatMinimum
    <2>3. k # 0 /\ k - 1 \in 0 .. n /\ k - 1 \notin B /\ k \in 1 .. n
      BY <1>1, <2>2
    <2>4. PICK v \in Int : v = h[k - 1]
      BY <2>3
    <2>5. h[k] = T[<<k, v>>]
      BY <1>2, <2>3, <2>4
    <2> QED
      BY <2>2, <2>3, <2>5 DEF TableOf
  <1>4. \A k \in 1 .. n : h[k] = T[<<k, h[k - 1]>>]
    <2>1. \A k \in 1 .. n : k - 1 \in 0 .. n
      OBVIOUS
    <2> QED
      BY <1>2, <1>3, <2>1
  <1> QED
    BY <1>1, <1>3, <1>4 DEF InTurn, ValueInTurn

=============================================================================

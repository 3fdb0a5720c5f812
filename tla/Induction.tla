------------------------------ MODULE Induction ------------------------------
(***************************************************************************)
(* Induction and recursion on natural numbers and finite sets, as facts    *)
(* about sets and functions: what the proofs about folds and recursive     *)
(* functions rest on.                                                      *)
(***************************************************************************)
EXTENDS Integers, FiniteSetsExt, FiniteSetTheorems, WellFoundedInduction, TLAPS

(* The order of the natural numbers is well founded.                       *)
LEMMA WellOrdered == \E R : IsWellFoundedOn(R, Nat) /\ \A x, y \in Nat : y < x => <<y, x>> \in R
<1>1. \A x, y \in Nat : y < x => <<y, x>> \in OpToRel(<, Nat)
  BY DEF OpToRel
<1> QED
  BY <1>1, NatLessThanWellFounded

(* Every set of natural numbers that is not empty has a least element.     *)
LEMMA LeastElement ==
  ASSUME NEW T \in SUBSET Nat, T # {}
  PROVE  \E x \in T : \A y \in T : x <= y
<1>1. PICK R : IsWellFoundedOn(R, Nat) /\ \A x, y \in Nat : y < x => <<y, x>> \in R
  BY WellOrdered
<1>2. PICK x \in T : \A y \in T : <<y, x>> \notin R
  BY <1>1, WFMin
<1>3. ASSUME NEW y \in T PROVE x <= y
  <2>1. ~(y < x)
    BY <1>1, <1>2
  <2> QED
    BY <2>1
<1> QED
  BY <1>3

(* A set of numbers below a bound has a greatest element.                  *)
LEMMA GreatestElement ==
  ASSUME NEW n \in Nat, NEW T \in SUBSET (0 .. n), T # {}
  PROVE  \E x \in T : \A y \in T : x >= y
<1> DEFINE U == {n - x : x \in T}
<1>1. PICK u \in U : \A y \in U : u <= y
  <2>1. U \in SUBSET Nat
    BY SMT
  <2>2. U # {}
    BY Zenon
  <2> HIDE DEF U
  <2> QED
    BY <2>1, <2>2, LeastElement
<1>2. PICK x \in T : u = n - x
  BY <1>1
<1>3. \A y \in T : u <= n - y
  BY <1>1
<1> HIDE DEF U
<1> QED
  BY <1>2, <1>3

(* Induction on the natural numbers.                                       *)
LEMMA NumberInduction ==
  ASSUME NEW T \in SUBSET Nat, 0 \in T, \A n \in T : n + 1 \in T
  PROVE  T = Nat
<1>1. SUFFICES ASSUME Nat \ T # {} PROVE FALSE
  OBVIOUS
<1>2. PICK x \in Nat \ T : \A y \in Nat \ T : x <= y
  BY <1>1, LeastElement
<1>3. x - 1 \in T
  BY <1>2
<1> QED
  BY <1>2, <1>3

(* Induction on a finite set, one element at a time.                       *)
LEMMA SetInduction ==
  ASSUME NEW S, IsFiniteSet(S), NEW F, {} \in F,
         \A s \in SUBSET S : s # {} /\ (\A x \in s : s \ {x} \in F) => s \in F
  PROVE  SUBSET S \subseteq F
<1> DEFINE T == {n \in Nat : \A s \in SUBSET S : Cardinality(s) = n => s \in F}
<1>1. \A s \in SUBSET S : IsFiniteSet(s) /\ Cardinality(s) \in Nat /\ (Cardinality(s) = 0 <=> s = {})
  BY FS_Subset, FS_CardinalityType, FS_EmptySet
<1>2. 0 \in T
  BY <1>1
<1>3. ASSUME NEW n \in T
      PROVE  n + 1 \in T
  <2>1. ASSUME NEW s \in SUBSET S, Cardinality(s) = n + 1
        PROVE  s \in F
    <3>1. ASSUME NEW x \in s PROVE s \ {x} \in F
      <4>1. IsFiniteSet(s) /\ Cardinality(s) = n + 1 /\ n \in Nat
        BY <1>1, <2>1
      <4>2. Cardinality(s \ {x}) = Cardinality(s) - 1
        BY <4>1, FS_RemoveElement
      <4>3. Cardinality(s \ {x}) = n
        BY <4>1, <4>2
      <4>4. s \ {x} \in SUBSET S
        OBVIOUS
      <4> QED
        BY <4>3, <4>4
    <3>2. s # {}
      BY <1>1, <2>1
    <3> QED
      BY <3>1, <3>2
  <2> QED
    BY <2>1
<1>4. T = Nat
  <2> HIDE DEF T
  <2> QED
    BY <1>2, <1>3, NumberInduction, Zenon DEF T
<1> QED
  BY <1>1, <1>4

(* A predecessor p that makes a measure m of D with the bound N smaller.   *)
Descends(D, N, m, p) ==
  /\ N \in Nat /\ m \in [D -> 0 .. N] /\ p \in [D -> D]
  /\ \A d \in D : m[d] # 0 => m[p[d]] < m[d]

(* The function that is b where m is 0 and follows by g from its value at  *)
(* the predecessor elsewhere.                                              *)
IsRecursive(h, D, V, m, p, b, g) ==
  /\ h \in [D -> V]
  /\ \A d \in D : h[d] = IF m[d] = 0 THEN b ELSE g[<<d, h[p[d]]>>]

LEMMA Recursion ==
  ASSUME NEW D, NEW V, NEW N, NEW m, NEW p, Descends(D, N, m, p),
         NEW b \in V, NEW g \in [D \X V -> V]
  PROVE  \E h : IsRecursive(h, D, V, m, p, b, g)
<1> USE DEF Descends
<1> DEFINE Up(n) == {d \in D : m[d] <= n}
           Good(n, h) == \A d \in Up(n) : h[d] = IF m[d] = 0 THEN b ELSE g[<<d, h[p[d]]>>]
           T == {n \in Nat : \E h \in [Up(n) -> V] : Good(n, h)}
<1>1. 0 \in T
  <2>1. [d \in Up(0) |-> b] \in [Up(0) -> V]
    OBVIOUS
  <2>2. Good(0, [d \in Up(0) |-> b])
    OBVIOUS
  <2> QED
    BY <2>1, <2>2
<1>2. ASSUME NEW n \in T
      PROVE  n + 1 \in T
  <2>1. PICK h \in [Up(n) -> V] : Good(n, h)
    OBVIOUS
  <2> DEFINE k == [d \in Up(n + 1) |-> IF m[d] = 0 THEN b ELSE g[<<d, h[p[d]]>>]]
  <2>2. ASSUME NEW d \in Up(n + 1), m[d] # 0
        PROVE  p[d] \in Up(n) /\ h[p[d]] \in V
    BY <2>2, <2>1
  <2>3. k \in [Up(n + 1) -> V]
    BY <2>2
  <2>4. \A d \in Up(n) : d \in Up(n + 1) /\ k[d] = h[d]
    BY <2>1
  <2>5. Good(n + 1, k)
    <3>1. ASSUME NEW d \in Up(n + 1), m[d] # 0
          PROVE  k[d] = g[<<d, k[p[d]]>>]
      BY <2>2, <2>4, <3>1
    <3> QED
      BY <3>1
  <2> HIDE DEF k, Good, Up
  <2>6. \E l \in [Up(n + 1) -> V] : Good(n + 1, l)
    BY <2>3, <2>5
  <2> QED
    BY <2>6
<1>3. N \in T
  <2> HIDE DEF T
  <2>1. T = Nat
    BY <1>1, <1>2, NumberInduction, Zenon DEF T
  <2> QED
    BY <2>1
<1>4. Up(N) = D
  OBVIOUS
<1> QED
  BY <1>3, <1>4 DEF IsRecursive

(* Taking one element away makes subsets of a finite set smaller.          *)
LEMMA SetDescends ==
  ASSUME NEW S, IsFiniteSet(S), NEW p \in [SUBSET S -> SUBSET S],
         \A s \in SUBSET S : s # {} => \E x \in s : p[s] = s \ {x}
  PROVE  /\ Descends(SUBSET S, Cardinality(S), [s \in SUBSET S |-> Cardinality(s)], p)
         /\ \A s \in SUBSET S : Cardinality(s) = 0 <=> s = {}
<1> DEFINE N == Cardinality(S)
           m == [s \in SUBSET S |-> Cardinality(s)]
<1>1. ASSUME NEW s \in SUBSET S
      PROVE  IsFiniteSet(s) /\ Cardinality(s) \in Nat /\ Cardinality(s) <= N /\ (Cardinality(s) = 0 <=> s = {})
  <2>1. IsFiniteSet(s) /\ Cardinality(s) <= N
    BY FS_Subset
  <2> QED
    BY <2>1, FS_CardinalityType, FS_EmptySet
<1>2. N \in Nat /\ m \in [SUBSET S -> 0 .. N]
  BY <1>1, FS_CardinalityType
<1>3. ASSUME NEW s \in SUBSET S, m[s] # 0
      PROVE  m[p[s]] < m[s]
  <2>1. s # {}
    BY <1>1, <1>3
  <2>2. PICK x \in s : p[s] = s \ {x}
    BY <2>1
  <2>3. Cardinality(p[s]) = Cardinality(s) - 1
    BY <1>1, <2>2, FS_RemoveElement
  <2> QED
    BY <1>1, <2>3
<1> QED
  BY <1>1, <1>2, <1>3 DEF Descends

-----------------------------------------------------------------------------
(* Folds over sequences.  FoldLeft is defined by a recursion on the sets   *)
(* of places: the value of a set is the step from the value of the set     *)
(* without its largest place.                                              *)

(* The largest of some of the first n numbers.                             *)
LEMMA MaxOfFirst ==
  ASSUME NEW n \in Nat, NEW s \in SUBSET (1 .. n), s # {}
  PROVE  Max(s) \in s /\ \A x \in s : x <= Max(s)
<1>1. s \in SUBSET (0 .. n)
  OBVIOUS
<1>2. \E x \in s : \A y \in s : x >= y
  BY <1>1, GreatestElement
<1>3. Max(s) \in s /\ \A y \in s : Max(s) >= y
  BY <1>2 DEF Max
<1> QED
  BY <1>3

(* The set of the first i places, and what is left without the last one.   *)
LEMMA FirstPlaces ==
  ASSUME NEW n \in Nat, NEW i \in 1 .. n
  PROVE  /\ 1 .. i \in SUBSET (1 .. n) /\ 1 .. i # {}
         /\ Max(1 .. i) = i
         /\ (1 .. i) \ {i} = 1 .. (i - 1)
<1>1. i \in Nat /\ i <= n /\ i \in 1 .. i
  OBVIOUS
<1>2. 1 .. i \in SUBSET (1 .. i) /\ 1 .. i # {}
  BY <1>1
<1>3. Max(1 .. i) \in 1 .. i /\ i <= Max(1 .. i)
  BY <1>1, <1>2, MaxOfFirst
<1> QED
  BY <1>1, <1>2, <1>3

(* The function on sets of places that a fold with the step g computes.    *)
IsFold(h, n, V, b, g) ==
  /\ h \in [SUBSET (1 .. n) -> V]
  /\ \A s \in SUBSET (1 .. n) : h[s] = IF s = {} THEN b ELSE g[<<h[s \ {Max(s)}], Max(s)>>]

LEMMA Folding ==
  ASSUME NEW n \in Nat, NEW V, NEW b \in V, NEW g \in [V \X (1 .. n) -> V]
  PROVE  \E h : IsFold(h, n, V, b, g)
<1> DEFINE S == 1 .. n
           N == Cardinality(S)
           m == [s \in SUBSET S |-> Cardinality(s)]
           p == [s \in SUBSET S |-> s \ {Max(s)}]
           k == [d \in (SUBSET S) \X V |-> IF d[1] = {} THEN b ELSE g[<<d[2], Max(d[1])>>]]
<1>1. \A s \in SUBSET S : s # {} => Max(s) \in s
  BY MaxOfFirst
<1>2. IsFiniteSet(S)
  BY FS_Interval
<1> HIDE DEF S
<1>3. p \in [SUBSET S -> SUBSET S] /\ \A s \in SUBSET S : s # {} => \E x \in s : p[s] = s \ {x}
  BY <1>1
<1>4. Descends(SUBSET S, N, m, p) /\ \A s \in SUBSET S : Cardinality(s) = 0 <=> s = {}
  <2> HIDE DEF p
  <2> QED
    BY <1>2, <1>3, SetDescends
<1>5. k \in [(SUBSET S) \X V -> V]
  BY <1>1 DEF S
<1>6. PICK h : IsRecursive(h, SUBSET S, V, m, p, b, k)
  <2> HIDE DEF m, p, k, N
  <2> QED
    BY <1>4, <1>5, Recursion
<1>7. h \in [SUBSET S -> V] /\ \A s \in SUBSET S : h[s] = IF m[s] = 0 THEN b ELSE k[<<s, h[p[s]]>>]
  BY <1>6 DEF IsRecursive
<1>8. \A s \in SUBSET S : s # {} => h[s] = g[<<h[s \ {Max(s)}], Max(s)>>]
  BY <1>4, <1>7
<1>9. \A s \in SUBSET S : s = {} => h[s] = b
  BY <1>4, <1>7
<1>10. \A s \in SUBSET S : h[s] = IF s = {} THEN b ELSE g[<<h[s \ {Max(s)}], Max(s)>>]
  BY <1>8, <1>9
<1>11. IsFold(h, n, V, b, g)
  BY <1>7, <1>10 DEF IsFold, S
<1> QED
  BY <1>11
=============================================================================

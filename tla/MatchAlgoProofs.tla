--------------------------- MODULE MatchAlgoProofs ---------------------------
(***************************************************************************)
(* Theorems about match_algo: the comparison of two records, for all texts *)
(* and ways to compare.                                                    *)
(***************************************************************************)
EXTENDS MatchScan, Induction

-----------------------------------------------------------------------------
(* Sums.                                                                   *)

SomeOf(s) == CHOOSE x \in s : TRUE

(* A partial sum is one of the terms and the sum of the others.            *)
IsSum(h, fun, S) ==
  /\ h \in [SUBSET S -> Nat] /\ h[{}] = 0
  /\ \A s \in SUBSET S : s # {} => h[s] = fun[SomeOf(s)] + h[s \ {SomeOf(s)}]

LEMMA SomeOfIsIn == ASSUME NEW s, s # {} PROVE SomeOf(s) \in s
BY DEF SomeOf

LEMMA SumIsSum ==
  ASSUME NEW S, IsFiniteSet(S), NEW fun \in [S -> Nat]
  PROVE  \E h : IsSum(h, fun, S) /\ SumFunction(fun) = h[S]
<1> DEFINE body(h) == [s \in SUBSET S |-> IF s = {} THEN 0 ELSE fun[SomeOf(s)] + h[s \ {SomeOf(s)}]]
           iter == CHOOSE h : h = body(h)
<1>1. SumFunction(fun) = iter[S]
  BY Zenon DEF SumFunction, SumFunctionOnSet, FoldFunctionOnSet, MapThenFoldSet, SomeOf
<1>2. \E h : h = body(h)
  <2> DEFINE N == Cardinality(S)
             m == [s \in SUBSET S |-> Cardinality(s)]
             p == [s \in SUBSET S |-> s \ {SomeOf(s)}]
             g == [a \in (SUBSET S) \X Nat |-> IF a[1] = {} THEN 0 ELSE fun[SomeOf(a[1])] + a[2]]
  <2>1. p \in [SUBSET S -> SUBSET S] /\ \A s \in SUBSET S : s # {} => \E x \in s : p[s] = s \ {x}
    BY SomeOfIsIn
  <2>2. Descends(SUBSET S, N, m, p) /\ \A s \in SUBSET S : Cardinality(s) = 0 <=> s = {}
    <3> HIDE DEF p
    <3> QED
      BY <2>1, SetDescends
  <2>3. PICK h : IsRecursive(h, SUBSET S, Nat, m, p, 0, g)
    <3>1. g \in [(SUBSET S) \X Nat -> Nat]
      <4>1. ASSUME NEW s \in SUBSET S, s # {}, NEW v \in Nat
            PROVE  fun[SomeOf(s)] + v \in Nat
        <5>1. fun[SomeOf(s)] \in Nat
          BY <4>1, SomeOfIsIn
        <5> QED
          BY <5>1
      <4> QED
        BY <4>1
    <3> HIDE DEF m, p, g, N
    <3> QED
      BY <2>2, <3>1, Recursion
  <2>4. \A s \in SUBSET S : h[s] = IF s = {} THEN 0 ELSE fun[SomeOf(s)] + h[s \ {SomeOf(s)}]
    BY <2>2, <2>3 DEF IsRecursive
  <2>5. h = body(h)
    BY <2>3, <2>4 DEF IsRecursive
  <2> QED
    BY <2>5
<1>3. iter = body(iter)
  <2> HIDE DEF body
  <2> QED
    BY <1>2
<1> HIDE DEF iter
<1>4. /\ \A s \in SUBSET S : iter[s] = IF s = {} THEN 0 ELSE fun[SomeOf(s)] + iter[s \ {SomeOf(s)}]
      /\ iter = [s \in SUBSET S |-> iter[s]]
  BY <1>3
<1> HIDE DEF body
<1>5. \A s \in SUBSET S : iter[s] \in Nat
  <2> DEFINE F == {s \in SUBSET S : iter[s] \in Nat}
  <2>1. {} \in F
    <3>1. iter[{}] = 0
      BY <1>4
    <3> QED
      BY <3>1
  <2>2. ASSUME NEW s \in SUBSET S, s # {}, \A x \in s : s \ {x} \in F
        PROVE  s \in F
    <3>1. SomeOf(s) \in s
      BY <2>2, SomeOfIsIn
    <3>2. iter[s] = fun[SomeOf(s)] + iter[s \ {SomeOf(s)}]
      BY <1>4, <2>2
    <3>3. iter[s \ {SomeOf(s)}] \in Nat /\ fun[SomeOf(s)] \in Nat
      BY <2>2, <3>1
    <3> QED
      BY <3>2, <3>3
  <2> HIDE DEF F
  <2>3. SUBSET S \subseteq F
    BY <2>1, <2>2, SetInduction
  <2> QED
    BY <2>3 DEF F
<1>6. IsSum(iter, fun, S)
  BY <1>4, <1>5 DEF IsSum
<1> QED
  BY <1>1, <1>6

(* A sum of terms that are at most k times the terms of another is at most *)
(* k times the other.                                                      *)
LEMMA SumBound ==
  ASSUME NEW S, IsFiniteSet(S), NEW f \in [S -> Nat], NEW g \in [S -> Nat],
         \A x \in S : f[x] <= 100 * g[x]
  PROVE  /\ SumFunction(f) \in Nat /\ SumFunction(g) \in Nat
         /\ SumFunction(f) <= 100 * SumFunction(g)
<1>1. PICK hf : IsSum(hf, f, S) /\ SumFunction(f) = hf[S]
  BY SumIsSum
<1>2. PICK hg : IsSum(hg, g, S) /\ SumFunction(g) = hg[S]
  BY SumIsSum
<1> DEFINE F == {s \in SUBSET S : hf[s] <= 100 * hg[s]}
<1>3. {} \in F
  BY <1>1, <1>2 DEF IsSum
<1>4. ASSUME NEW s \in SUBSET S, s # {}, \A x \in s : s \ {x} \in F
      PROVE  s \in F
  <2> DEFINE x == SomeOf(s)
  <2>1. x \in s
    BY <1>4, SomeOfIsIn
  <2>2. hf[s] = f[x] + hf[s \ {x}] /\ hg[s] = g[x] + hg[s \ {x}]
    BY <1>1, <1>2, <1>4 DEF IsSum
  <2>3. hf[s \ {x}] \in Nat /\ hg[s \ {x}] \in Nat /\ f[x] \in Nat /\ g[x] \in Nat
    BY <1>1, <1>2, <2>1 DEF IsSum
  <2>4. hf[s \ {x}] <= 100 * hg[s \ {x}] /\ f[x] <= 100 * g[x]
    BY <1>4, <2>1
  <2> HIDE DEF x
  <2> QED
    BY <2>2, <2>3, <2>4
<1> HIDE DEF F
<1>5. SUBSET S \subseteq F
  BY <1>3, <1>4, SetInduction
<1> QED
  BY <1>1, <1>2, <1>5 DEF F, IsSum

(* A sum of positive terms is positive, unless there are none.             *)
LEMMA SumPositive ==
  ASSUME NEW S, IsFiniteSet(S), S # {}, NEW g \in [S -> Nat \ {0}]
  PROVE  SumFunction(g) > 0
<1>1. PICK h : IsSum(h, g, S) /\ SumFunction(g) = h[S]
  BY SumIsSum
<1>2. h[S] = g[SomeOf(S)] + h[S \ {SomeOf(S)}] /\ h[S \ {SomeOf(S)}] \in Nat
  BY <1>1 DEF IsSum
<1>3. g[SomeOf(S)] \in Nat \ {0}
  BY SomeOfIsIn
<1> QED
  BY <1>1, <1>2, <1>3

-----------------------------------------------------------------------------
(* Edit distances.                                                         *)

LEMMA MinOfThree ==
  ASSUME NEW x \in Nat, NEW y \in Nat, NEW z \in Nat
  PROVE  LET least == Min({x, y, z}) IN
         least \in {x, y, z} /\ least \in Nat /\ least <= x /\ least <= y /\ least <= z
<1>1. \E w \in {x, y, z} : \A v \in {x, y, z} : w <= v
  <2>1. CASE x <= y /\ x <= z
    BY <2>1
  <2>2. CASE y <= x /\ y <= z
    BY <2>2
  <2>3. CASE z <= x /\ z <= y
    BY <2>3
  <2> QED
    BY <2>1, <2>2, <2>3
<1>2. Min({x, y, z}) \in {x, y, z} /\ \A v \in {x, y, z} : Min({x, y, z}) <= v
  BY <1>1 DEF Min
<1> QED
  BY <1>2

(* A row of the table starts one further down and takes the least of three *)
(* ways to edit.                                                           *)
FollowsRow(row, prev, c, b) ==
  /\ row \in [0 .. Len(b) -> Nat]
  /\ row[0] = prev[0] + 1
  /\ \A j \in 1 .. Len(b) : row[j] = Min({prev[j] + 1, row[j - 1] + 1, prev[j - 1] + Cost(c, b[j])})

LEMMA RowFollows ==
  ASSUME NEW X, NEW b \in Seq(X), NEW c, NEW prev \in [0 .. Len(b) -> Nat]
  PROVE  FollowsRow(NextRow(prev, c, b), prev, c, b)
<1> DEFINE J == 0 .. Len(b)
           body(h) == [j \in J |-> IF j = 0 THEN prev[0] + 1
                                   ELSE Min({prev[j] + 1, h[j - 1] + 1, prev[j - 1] + Cost(c, b[j])})]
           curr == CHOOSE h : h = body(h)
<1>1. NextRow(prev, c, b) = curr
  BY Zenon DEF NextRow
<1>2. Len(b) \in Nat /\ 0 \in J
  OBVIOUS
<1>3. \A j \in J, v \in Nat : j # 0 =>
        Min({prev[j] + 1, v + 1, prev[j - 1] + Cost(c, b[j])}) \in Nat
  <2>1. ASSUME NEW j \in J, NEW v \in Nat, j # 0
        PROVE  prev[j] + 1 \in Nat /\ v + 1 \in Nat /\ prev[j - 1] + Cost(c, b[j]) \in Nat
    BY <1>2, <2>1 DEF Cost
  <2> QED
    BY <2>1, MinOfThree
<1>4. \E h : h = body(h)
  <2> DEFINE m == [j \in J |-> j]
             p == [j \in J |-> IF j = 0 THEN 0 ELSE j - 1]
             g == [d \in J \X Nat |-> IF d[1] = 0 THEN 0
                                      ELSE Min({prev[d[1]] + 1, d[2] + 1, prev[d[1] - 1] + Cost(c, b[d[1]])})]
  <2>1. Descends(J, Len(b), m, p)
    BY <1>2 DEF Descends
  <2>2. g \in [J \X Nat -> Nat]
    BY <1>3
  <2>3. prev[0] + 1 \in Nat
    BY <1>2
  <2>4. PICK h : IsRecursive(h, J, Nat, m, p, prev[0] + 1, g)
    <3> HIDE DEF J, m, p, g
    <3> QED
      BY <2>1, <2>2, <2>3, Recursion
  <2>5. ASSUME NEW j \in J
        PROVE  h[j] = IF j = 0 THEN prev[0] + 1
                      ELSE Min({prev[j] + 1, h[j - 1] + 1, prev[j - 1] + Cost(c, b[j])})
    <3>1. h[j] = IF j = 0 THEN prev[0] + 1 ELSE g[<<j, h[p[j]]>>]
      BY <2>4 DEF IsRecursive
    <3>2. h \in [J -> Nat]
      BY <2>4 DEF IsRecursive
    <3>3. CASE j = 0
      BY <3>1, <3>3
    <3>4. CASE j # 0
      <4>1. j - 1 \in J /\ p[j] = j - 1
        BY <1>2, <3>4
      <4>2. h[j - 1] \in Nat
        BY <3>2, <4>1
      <4>3. <<j, h[j - 1]>> \in J \X Nat
        BY <4>2
      <4> QED
        BY <3>1, <3>4, <4>1, <4>3
    <3> QED
      BY <3>3, <3>4
  <2>6. h = body(h)
    <3>1. h = [j \in J |-> h[j]]
      BY <2>4 DEF IsRecursive
    <3> HIDE DEF J
    <3> QED
      BY <3>1, <2>5
  <2> QED
    BY <2>6
<1>5. curr = body(curr)
  <2> HIDE DEF body
  <2> QED
    BY <1>4
<1> HIDE DEF curr
<1>6. /\ \A j \in J : curr[j] = IF j = 0 THEN prev[0] + 1
                                ELSE Min({prev[j] + 1, curr[j - 1] + 1, prev[j - 1] + Cost(c, b[j])})
      /\ curr = [j \in J |-> curr[j]]
  <2> HIDE DEF J
  <2> QED
    BY <1>5
<1> HIDE DEF body
<1>7. \A j \in J : curr[j] \in Nat
  <2> DEFINE T == {n \in Nat : n \in J => curr[n] \in Nat}
  <2>1. 0 \in T
    BY <1>2, <1>6
  <2>2. ASSUME NEW n \in T PROVE n + 1 \in T
    <3>1. CASE n + 1 \in J
      <4>1. n \in J /\ curr[n] \in Nat /\ n + 1 # 0 /\ (n + 1) - 1 = n
        BY <3>1
      <4>2. curr[n + 1] = Min({prev[n + 1] + 1, curr[n] + 1, prev[(n + 1) - 1] + Cost(c, b[n + 1])})
        BY <1>6, <3>1, <4>1
      <4>3. Min({prev[n + 1] + 1, curr[n] + 1, prev[(n + 1) - 1] + Cost(c, b[n + 1])}) \in Nat
        BY <1>3, <3>1, <4>1
      <4> QED
        BY <4>2, <4>3
    <3> QED
      BY <3>1
  <2> HIDE DEF T
  <2>3. T = Nat
    BY <2>1, <2>2, NumberInduction, Zenon DEF T
  <2> QED
    BY <2>3 DEF T
<1>8. curr \in [J -> Nat]
  <2> HIDE DEF J
  <2> QED
    BY <1>6, <1>7
<1>9. ASSUME NEW j \in 1 .. Len(b)
      PROVE  curr[j] = Min({prev[j] + 1, curr[j - 1] + 1, prev[j - 1] + Cost(c, b[j])})
  <2>1. j \in J /\ j # 0
    OBVIOUS
  <2> HIDE DEF J
  <2> QED
    BY <1>6, <2>1
<1>10. curr[0] = prev[0] + 1
  BY <1>2, <1>6
<1> QED
  BY <1>1, <1>8, <1>9, <1>10 DEF FollowsRow

(* The table of the distances of the beginnings of two texts.              *)
IsTable(M, a, b) ==
  /\ M \in [0 .. Len(a) -> [0 .. Len(b) -> Nat]]
  /\ \A j \in 0 .. Len(b) : M[0][j] = j
  /\ \A i \in 1 .. Len(a) : FollowsRow(M[i], M[i - 1], a[i], b)

(* What levenshtein returns is the last entry of the table.                *)
LEMMA LevenshteinTable ==
  ASSUME NEW X, NEW a \in Seq(X), NEW b \in Seq(X)
  PROVE  \E M : IsTable(M, a, b) /\ Levenshtein(a, b) = M[Len(a)][Len(b)]
<1> DEFINE R == [0 .. Len(b) -> Nat]
           S == DOMAIN a
           first == [j \in 0 .. Len(b) |-> j]
           body(h) == [s \in SUBSET S |-> IF s = {} THEN first
                                          ELSE NextRow(h[s \ {Max(s)}], a[Max(s)], b)]
           iter == CHOOSE h : h = body(h)
<1>1. Levenshtein(a, b) = iter[S][Len(b)]
  BY Zenon DEF Levenshtein, FoldLeft, MapThenFoldSet
<1>2. Len(a) \in Nat /\ Len(b) \in Nat /\ S = 1 .. Len(a) /\ IsFiniteSet(S) /\ first \in R
  BY FS_Interval
<1>3. \A s \in SUBSET S : s # {} => Max(s) \in s /\ \A x \in s : x <= Max(s)
  BY <1>2, MaxOfFirst
<1>4. \A c, v : v \in R => FollowsRow(NextRow(v, c, b), v, c, b) /\ NextRow(v, c, b) \in R
  <2> SUFFICES ASSUME NEW c, NEW v \in R PROVE FollowsRow(NextRow(v, c, b), v, c, b) /\ NextRow(v, c, b) \in R
    OBVIOUS
  <2>1. FollowsRow(NextRow(v, c, b), v, c, b)
    BY RowFollows
  <2> QED
    BY <2>1 DEF FollowsRow
<1>5. \E h : h = body(h)
  <2> DEFINE g == [d \in R \X S |-> NextRow(d[1], a[d[2]], b)]
  <2>1. g \in [R \X S -> R]
    <3> HIDE DEF S, R
    <3> QED
      BY <1>4
  <2>2. PICK h : IsFold(h, Len(a), R, first, g)
    <3> HIDE DEF R, first, g
    <3> QED
      BY <1>2, <2>1, Folding
  <2>3. h \in [SUBSET S -> R] /\ \A s \in SUBSET S :
          h[s] = IF s = {} THEN first ELSE g[<<h[s \ {Max(s)}], Max(s)>>]
    <3> HIDE DEF R, first, g
    <3> QED
      BY <1>2, <2>2 DEF IsFold
  <2>4. \A s \in SUBSET S : h[s] = IF s = {} THEN first ELSE NextRow(h[s \ {Max(s)}], a[Max(s)], b)
    <3> HIDE DEF S, R, first
    <3> QED
      BY <1>3, <2>3
  <2>5. h = body(h)
    <3> HIDE DEF S, R, first, g
    <3> QED
      BY <2>3, <2>4
  <2> QED
    BY <2>5
<1>6. iter = body(iter)
  <2> HIDE DEF body
  <2> QED
    BY <1>5
<1> HIDE DEF iter
<1>7. /\ iter[{}] = first
      /\ \A s \in SUBSET S : s # {} => iter[s] = NextRow(iter[s \ {Max(s)}], a[Max(s)], b)
  <2> HIDE DEF S, first
  <2> QED
    BY <1>6
<1> HIDE DEF body
<1> DEFINE M == [i \in 0 .. Len(a) |-> iter[1 .. i]]
<1>8. ASSUME NEW i \in 1 .. Len(a)
      PROVE  iter[1 .. i] = NextRow(iter[1 .. (i - 1)], a[i], b)
  <2>1. 1 .. i \in SUBSET S /\ 1 .. i # {} /\ Max(1 .. i) = i /\ (1 .. i) \ {i} = 1 .. (i - 1)
    BY <1>2, FirstPlaces
  <2> HIDE DEF S
  <2> QED
    BY <1>7, <2>1
<1>9. iter[1 .. 0] = first
  <2>1. 1 .. 0 = {}
    OBVIOUS
  <2> QED
    BY <1>7, <2>1
<1>10. \A i \in 0 .. Len(a) : iter[1 .. i] \in R
  <2> DEFINE T == {n \in Nat : n \in 0 .. Len(a) => iter[1 .. n] \in R}
  <2>1. 0 \in T
    BY <1>2, <1>9
  <2>2. ASSUME NEW n \in T PROVE n + 1 \in T
    <3>1. CASE n + 1 \in 1 .. Len(a)
      <4>1. iter[1 .. n] \in R /\ (n + 1) - 1 = n
        BY <3>1
      <4>2. iter[1 .. (n + 1)] = NextRow(iter[1 .. n], a[n + 1], b)
        BY <1>8, <3>1, <4>1
      <4> QED
        BY <1>4, <4>1, <4>2
    <3> QED
      BY <3>1
  <2> HIDE DEF T
  <2>3. T = Nat
    BY <2>1, <2>2, NumberInduction, Zenon DEF T
  <2> QED
    BY <2>3 DEF T
<1>11. IsTable(M, a, b)
  <2>1. M \in [0 .. Len(a) -> R]
    BY <1>10
  <2>2. \A j \in 0 .. Len(b) : M[0][j] = j
    BY <1>2, <1>9
  <2>3. ASSUME NEW i \in 1 .. Len(a)
        PROVE  FollowsRow(M[i], M[i - 1], a[i], b)
    <3>1. i \in 0 .. Len(a) /\ i - 1 \in 0 .. Len(a)
      OBVIOUS
    <3>2. M[i] = NextRow(M[i - 1], a[i], b) /\ M[i - 1] \in R
      BY <1>8, <1>10, <3>1
    <3> HIDE DEF M
    <3> QED
      BY <1>4, <3>2
  <2> HIDE DEF M
  <2> QED
    BY <2>1, <2>2, <2>3 DEF IsTable
<1>12. Levenshtein(a, b) = M[Len(a)][Len(b)]
  <2>1. Len(a) \in 0 .. Len(a)
    BY <1>2
  <2> QED
    BY <1>1, <1>2, <2>1
<1> HIDE DEF M
<1> QED
  BY <1>11, <1>12

(* The entries of a table.                                                 *)
HasEntries(M, a, b) ==
  /\ \A i \in 0 .. Len(a), j \in 0 .. Len(b) : M[i][j] \in Nat
  /\ \A j \in 0 .. Len(b) : M[0][j] = j
  /\ \A i \in 1 .. Len(a) : M[i][0] = M[i - 1][0] + 1
  /\ \A i \in 1 .. Len(a), j \in 1 .. Len(b) :
       M[i][j] = Min({M[i - 1][j] + 1, M[i][j - 1] + 1, M[i - 1][j - 1] + Cost(a[i], b[j])})

LEMMA TableEntries ==
  ASSUME NEW X, NEW a \in Seq(X), NEW b \in Seq(X), NEW M, IsTable(M, a, b)
  PROVE  HasEntries(M, a, b)
<1>1. \A i \in 0 .. Len(a), j \in 0 .. Len(b) : M[i][j] \in Nat
  BY DEF IsTable
<1>2. \A j \in 0 .. Len(b) : M[0][j] = j
  BY DEF IsTable
<1>3. ASSUME NEW i \in 1 .. Len(a)
      PROVE  /\ M[i][0] = M[i - 1][0] + 1
             /\ \A j \in 1 .. Len(b) :
                  M[i][j] = Min({M[i - 1][j] + 1, M[i][j - 1] + 1, M[i - 1][j - 1] + Cost(a[i], b[j])})
  <2>1. FollowsRow(M[i], M[i - 1], a[i], b)
    BY DEF IsTable
  <2> QED
    BY <2>1, Zenon DEF FollowsRow
<1> QED
  BY <1>1, <1>2, <1>3 DEF HasEntries

(* The table of the exchanged texts is the table turned over.              *)
LEMMA TableTurns ==
  ASSUME NEW X, NEW a \in Seq(X), NEW b \in Seq(X), NEW M, NEW N, IsTable(M, a, b), IsTable(N, b, a)
  PROVE  \A i \in 0 .. Len(a), j \in 0 .. Len(b) : M[i][j] = N[j][i]
<1> DEFINE T == {n \in Nat : \A i \in 0 .. Len(a), j \in 0 .. Len(b) : i + j <= n => M[i][j] = N[j][i]}
<1>0. HasEntries(M, a, b) /\ HasEntries(N, b, a)
  BY TableEntries
<1>1. Len(a) \in Nat /\ Len(b) \in Nat
  OBVIOUS
<1>2. /\ \A i \in 0 .. Len(a), j \in 0 .. Len(b) : M[i][j] \in Nat /\ N[j][i] \in Nat
      /\ \A j \in 0 .. Len(b) : M[0][j] = j
      /\ \A i \in 0 .. Len(a) : N[0][i] = i
  BY <1>0 DEF HasEntries
<1>3. /\ \A i \in 1 .. Len(a) : M[i][0] = M[i - 1][0] + 1
      /\ \A i \in 1 .. Len(b) : N[i][0] = N[i - 1][0] + 1
  BY <1>0 DEF HasEntries
<1>4. \A i \in 1 .. Len(a), j \in 1 .. Len(b) :
        /\ M[i][j] = Min({M[i - 1][j] + 1, M[i][j - 1] + 1, M[i - 1][j - 1] + Cost(a[i], b[j])})
        /\ N[j][i] = Min({N[j - 1][i] + 1, N[j][i - 1] + 1, N[j - 1][i - 1] + Cost(b[j], a[i])})
  BY <1>0 DEF HasEntries
<1>5. 0 \in T
  <2>1. ASSUME NEW i \in 0 .. Len(a), NEW j \in 0 .. Len(b), i + j <= 0
        PROVE  M[i][j] = N[j][i]
    <3>1. i = 0 /\ j = 0
      BY <2>1
    <3> QED
      BY <1>1, <1>2, <3>1
  <2> QED
    BY <2>1
<1>6. ASSUME NEW n \in T
      PROVE  n + 1 \in T
  <2>1. ASSUME NEW i \in 0 .. Len(a), NEW j \in 0 .. Len(b), i + j <= n + 1
        PROVE  M[i][j] = N[j][i]
    <3>1. \A k \in 0 .. Len(a), l \in 0 .. Len(b) : k + l < i + j => M[k][l] = N[l][k]
      BY <2>1
    <3>2. CASE i = 0 /\ j = 0
      BY <1>1, <1>2, <3>2
    <3>3. CASE i = 0 /\ j # 0
      <4>1. j \in 1 .. Len(b) /\ j - 1 \in 0 .. Len(b) /\ 0 \in 0 .. Len(a)
        BY <1>1, <3>3
      <4>2. M[0][j] = j /\ M[0][j - 1] = j - 1 /\ N[j][0] = N[j - 1][0] + 1
        BY <1>2, <1>3, <4>1
      <4>3. M[0][j - 1] = N[j - 1][0]
        BY <3>1, <3>3, <4>1
      <4> QED
        BY <3>3, <4>1, <4>2, <4>3
    <3>4. CASE i # 0 /\ j = 0
      <4>1. i \in 1 .. Len(a) /\ i - 1 \in 0 .. Len(a) /\ 0 \in 0 .. Len(b)
        BY <1>1, <3>4
      <4>2. N[0][i] = i /\ N[0][i - 1] = i - 1 /\ M[i][0] = M[i - 1][0] + 1
        BY <1>2, <1>3, <4>1
      <4>3. M[i - 1][0] = N[0][i - 1]
        BY <3>1, <3>4, <4>1
      <4> QED
        BY <3>4, <4>1, <4>2, <4>3
    <3>5. CASE i # 0 /\ j # 0
      <4>1. i \in 1 .. Len(a) /\ i - 1 \in 0 .. Len(a) /\ j \in 1 .. Len(b) /\ j - 1 \in 0 .. Len(b)
        BY <3>5
      <4>2. M[i - 1][j] = N[j][i - 1] /\ M[i][j - 1] = N[j - 1][i] /\ M[i - 1][j - 1] = N[j - 1][i - 1]
        BY <3>1, <4>1
      <4>3. Cost(a[i], b[j]) = Cost(b[j], a[i])
        BY DEF Cost
      <4>4. \A x, y, z : Min({x, y, z}) = Min({y, x, z})
        <5>1. \A x, y, z : {x, y, z} = {y, x, z}
          OBVIOUS
        <5> QED
          BY <5>1
      <4>5. M[i][j] = Min({M[i - 1][j] + 1, M[i][j - 1] + 1, M[i - 1][j - 1] + Cost(a[i], b[j])})
        BY <1>4, <4>1, Zenon
      <4>6. N[j][i] = Min({N[j - 1][i] + 1, N[j][i - 1] + 1, N[j - 1][i - 1] + Cost(b[j], a[i])})
        BY <1>4, <4>1, Zenon
      <4>7. M[i][j] = Min({N[j][i - 1] + 1, N[j - 1][i] + 1, N[j - 1][i - 1] + Cost(b[j], a[i])})
        BY <4>2, <4>3, <4>5, Zenon
      <4> QED
        BY <4>4, <4>6, <4>7, Zenon
    <3> QED
      BY <3>2, <3>3, <3>4, <3>5
  <2> QED
    BY <2>1
<1>7. T = Nat
  <2> HIDE DEF T
  <2> QED
    BY <1>5, <1>6, NumberInduction, Zenon DEF T
<1>8. ASSUME NEW i \in 0 .. Len(a), NEW j \in 0 .. Len(b)
      PROVE  M[i][j] = N[j][i]
  <2>1. i + j \in T
    <3> HIDE DEF T
    <3> QED
      BY <1>7
  <2> QED
    BY <2>1
<1> QED
  BY <1>8

(* NULL is a text of no characters.                                        *)
IsText(x) == x \in Seq(Range(x))

(* The distance of two texts is a number and the same both ways.           *)
LEMMA LevenshteinSymmetric ==
  ASSUME NEW a, NEW b, IsText(a), IsText(b)
  PROVE  Levenshtein(a, b) \in Nat /\ Levenshtein(a, b) = Levenshtein(b, a)
<1> DEFINE X == Range(a) \cup Range(b)
<1>1. a \in Seq(X) /\ b \in Seq(X)
  BY DEF IsText
<1> HIDE DEF X
<1>2. PICK M : IsTable(M, a, b) /\ Levenshtein(a, b) = M[Len(a)][Len(b)]
  BY <1>1, LevenshteinTable
<1>3. PICK N : IsTable(N, b, a) /\ Levenshtein(b, a) = N[Len(b)][Len(a)]
  BY <1>1, LevenshteinTable
<1>4. Len(a) \in 0 .. Len(a) /\ Len(b) \in 0 .. Len(b)
  BY <1>1
<1>5. M[Len(a)][Len(b)] = N[Len(b)][Len(a)]
  BY <1>1, <1>2, <1>3, <1>4, TableTurns
<1>6. M[Len(a)][Len(b)] \in Nat
  BY <1>2, <1>4 DEF IsTable
<1> QED
  BY <1>2, <1>3, <1>5, <1>6

-----------------------------------------------------------------------------
(* Alignments.                                                             *)

(* Pairs of positions that are in the same order in both texts.            *)
Ordered(pairs) ==
  \A p, q \in pairs : p = q \/ (p[1] < q[1] /\ p[2] < q[2]) \/ (q[1] < p[1] /\ q[2] < p[2])

(* The alignments of the first i and the first j characters, and what      *)
(* there is to edit if the characters of a pair are left or replaced.      *)
AlignUpTo(i, j) == {pairs \in SUBSET ((1 .. i) \X (1 .. j)) : Ordered(pairs)}
Alike(a, b, pairs) == {p \in pairs : a[p[1]] = b[p[2]]}
EditsOf(a, b, i, j, pairs) == i + j - Cardinality(pairs) - Cardinality(Alike(a, b, pairs))

LEMMA PairsAreFinite ==
  ASSUME NEW i \in Nat, NEW j \in Nat, NEW pairs \in AlignUpTo(i, j), NEW a, NEW b
  PROVE  /\ IsFiniteSet(pairs) /\ Cardinality(pairs) \in Nat
         /\ IsFiniteSet(Alike(a, b, pairs)) /\ Cardinality(Alike(a, b, pairs)) \in Nat
<1>1. IsFiniteSet((1 .. i) \X (1 .. j))
  <2>1. IsFiniteSet(1 .. i) /\ IsFiniteSet(1 .. j)
    BY FS_Interval
  <2> QED
    BY <2>1, FS_Product
<1>2. pairs \in SUBSET ((1 .. i) \X (1 .. j)) /\ Alike(a, b, pairs) \in SUBSET pairs
  BY DEF AlignUpTo, Alike
<1>3. IsFiniteSet(pairs)
  BY <1>1, <1>2, FS_Subset
<1>4. IsFiniteSet(Alike(a, b, pairs))
  BY <1>2, <1>3, FS_Subset
<1> QED
  BY <1>3, <1>4, FS_CardinalityType

(* An alignment of less is one of more, with one more character to edit.   *)
LEMMA Widen ==
  ASSUME NEW i \in Nat, NEW j \in Nat, NEW pairs, NEW a, NEW b
  PROVE  /\ pairs \in AlignUpTo(i, j) =>
              /\ pairs \in AlignUpTo(i + 1, j) /\ pairs \in AlignUpTo(i, j + 1)
              /\ EditsOf(a, b, i + 1, j, pairs) = EditsOf(a, b, i, j, pairs) + 1
              /\ EditsOf(a, b, i, j + 1, pairs) = EditsOf(a, b, i, j, pairs) + 1
<1> SUFFICES ASSUME pairs \in AlignUpTo(i, j)
             PROVE  /\ pairs \in AlignUpTo(i + 1, j) /\ pairs \in AlignUpTo(i, j + 1)
                    /\ EditsOf(a, b, i + 1, j, pairs) = EditsOf(a, b, i, j, pairs) + 1
                    /\ EditsOf(a, b, i, j + 1, pairs) = EditsOf(a, b, i, j, pairs) + 1
  OBVIOUS
<1>1. 1 .. i \subseteq 1 .. (i + 1) /\ 1 .. j \subseteq 1 .. (j + 1)
  OBVIOUS
<1>2. pairs \in AlignUpTo(i + 1, j) /\ pairs \in AlignUpTo(i, j + 1)
  BY <1>1 DEF AlignUpTo
<1>3. Cardinality(pairs) \in Nat /\ Cardinality(Alike(a, b, pairs)) \in Nat
  BY PairsAreFinite
<1> QED
  BY <1>2, <1>3 DEF EditsOf

(* The last characters may be aligned with each other.                     *)
LEMMA AddPair ==
  ASSUME NEW i \in Nat, NEW j \in Nat, NEW rest \in AlignUpTo(i, j), NEW a, NEW b,
         NEW pairs, pairs = rest \cup {<<i + 1, j + 1>>}
  PROVE  /\ pairs \in AlignUpTo(i + 1, j + 1)
         /\ EditsOf(a, b, i + 1, j + 1, pairs) = EditsOf(a, b, i, j, rest) + Cost(a[i + 1], b[j + 1])
<1> DEFINE last == <<i + 1, j + 1>>
<1>0. pairs = rest \cup {last}
  OBVIOUS
<1>1. rest \in SUBSET ((1 .. i) \X (1 .. j)) /\ Ordered(rest)
  BY DEF AlignUpTo
<1>2. \A p \in rest : p \in (1 .. i) \X (1 .. j) /\ p[1] \in 1 .. i /\ p[2] \in 1 .. j
  BY <1>1
<1>3. \A p \in rest : p[1] < i + 1 /\ p[2] < j + 1 /\ p # last
  BY <1>2
<1>4. last[1] = i + 1 /\ last[2] = j + 1 /\ last \in (1 .. i + 1) \X (1 .. j + 1) /\ last \notin rest
  BY <1>3
<1>5. pairs \in SUBSET ((1 .. i + 1) \X (1 .. j + 1))
  <2>1. (1 .. i) \X (1 .. j) \subseteq (1 .. i + 1) \X (1 .. j + 1)
    OBVIOUS
  <2> HIDE DEF last
  <2> QED
    BY <1>0, <1>1, <1>4, <2>1
<1>6. Ordered(pairs)
  <2> HIDE DEF last
  <2> QED
    BY <1>0, <1>1, <1>3, <1>4 DEF Ordered
<1>7. /\ IsFiniteSet(rest) /\ Cardinality(rest) \in Nat
      /\ IsFiniteSet(Alike(a, b, rest)) /\ Cardinality(Alike(a, b, rest)) \in Nat
  BY PairsAreFinite
<1>8. Cardinality(pairs) = Cardinality(rest) + 1
  <2> HIDE DEF last
  <2> QED
    BY <1>0, <1>4, <1>7, FS_AddElement
<1>9. Cardinality(Alike(a, b, pairs)) = Cardinality(Alike(a, b, rest)) + 1 - Cost(a[i + 1], b[j + 1])
  <2>1. CASE a[i + 1] = b[j + 1]
    <3>1. Alike(a, b, pairs) = Alike(a, b, rest) \cup {last} /\ last \notin Alike(a, b, rest)
      <4> HIDE DEF last
      <4> QED
        BY <1>0, <1>4, <2>1 DEF Alike
    <3> HIDE DEF last
    <3>2. Cardinality(Alike(a, b, pairs)) = Cardinality(Alike(a, b, rest)) + 1
      BY <1>7, <3>1, FS_AddElement
    <3> QED
      BY <1>7, <2>1, <3>2 DEF Cost
  <2>2. CASE a[i + 1] # b[j + 1]
    <3>1. Alike(a, b, pairs) = Alike(a, b, rest)
      <4> HIDE DEF last
      <4> QED
        BY <1>0, <1>4, <2>2 DEF Alike
    <3> HIDE DEF last
    <3> QED
      BY <1>7, <2>2, <3>1 DEF Cost
  <2> QED
    BY <2>1, <2>2
<1>10. Cost(a[i + 1], b[j + 1]) \in {0, 1}
  BY DEF Cost
<1> HIDE DEF last
<1>11. EditsOf(a, b, i + 1, j + 1, pairs) = EditsOf(a, b, i, j, rest) + Cost(a[i + 1], b[j + 1])
  BY <1>7, <1>8, <1>9, <1>10 DEF EditsOf
<1>12. pairs \in AlignUpTo(i + 1, j + 1)
  BY <1>5, <1>6 DEF AlignUpTo
<1> QED
  BY <1>11, <1>12

(* An alignment leaves one of the last characters alone, or pairs them.    *)
LEMMA LastPair ==
  ASSUME NEW i \in Nat, NEW j \in Nat, NEW pairs \in AlignUpTo(i + 1, j + 1)
  PROVE  \/ pairs \in AlignUpTo(i, j + 1)
         \/ pairs \in AlignUpTo(i + 1, j)
         \/ \E rest \in AlignUpTo(i, j) : pairs = rest \cup {<<i + 1, j + 1>>}
<1>1. pairs \in SUBSET ((1 .. i + 1) \X (1 .. j + 1)) /\ Ordered(pairs)
  BY DEF AlignUpTo
<1>2. \A p \in pairs : p = <<p[1], p[2]>> /\ p[1] \in 1 .. i + 1 /\ p[2] \in 1 .. j + 1
  BY <1>1
<1>3. CASE \A p \in pairs : p[1] # i + 1
  <2>1. \A p \in pairs : p[1] \in 1 .. i
    BY <1>2, <1>3
  <2>2. pairs \in SUBSET ((1 .. i) \X (1 .. j + 1))
    BY <1>2, <2>1
  <2> QED
    BY <1>1, <2>2 DEF AlignUpTo
<1>4. CASE \A p \in pairs : p[2] # j + 1
  <2>1. \A p \in pairs : p[2] \in 1 .. j
    BY <1>2, <1>4
  <2>2. pairs \in SUBSET ((1 .. i + 1) \X (1 .. j))
    BY <1>2, <2>1
  <2> QED
    BY <1>1, <2>2 DEF AlignUpTo
<1>5. CASE ~(\A p \in pairs : p[1] # i + 1) /\ ~(\A p \in pairs : p[2] # j + 1)
  <2>1. PICK p \in pairs : p[1] = i + 1
    BY <1>5
  <2>2. PICK q \in pairs : q[2] = j + 1
    BY <1>5
  <2>3. p = q
    <3>1. p = q \/ (p[1] < q[1] /\ p[2] < q[2]) \/ (q[1] < p[1] /\ q[2] < p[2])
      BY <1>1 DEF Ordered
    <3>2. p[1] \in 1 .. i + 1 /\ q[1] \in 1 .. i + 1 /\ p[2] \in 1 .. j + 1 /\ q[2] \in 1 .. j + 1
      BY <1>2
    <3> QED
      BY <2>1, <2>2, <3>1, <3>2
  <2>4. p = <<i + 1, j + 1>>
    BY <1>2, <2>1, <2>2, <2>3
  <2> DEFINE rest == pairs \ {p}
  <2>5. \A r \in rest : r[1] \in 1 .. i /\ r[2] \in 1 .. j
    <3> SUFFICES ASSUME NEW r \in rest PROVE r[1] \in 1 .. i /\ r[2] \in 1 .. j
      OBVIOUS
    <3>1. (p[1] < r[1] /\ p[2] < r[2]) \/ (r[1] < p[1] /\ r[2] < p[2])
      BY <1>1 DEF Ordered
    <3>2. r[1] \in 1 .. i + 1 /\ r[2] \in 1 .. j + 1
      BY <1>2
    <3> QED
      BY <2>1, <2>2, <2>3, <3>1, <3>2
  <2>6. rest \in SUBSET ((1 .. i) \X (1 .. j))
    BY <1>2, <2>5
  <2>7. Ordered(rest)
    BY <1>1 DEF Ordered
  <2>8. rest \in AlignUpTo(i, j)
    <3> HIDE DEF rest
    <3> QED
      BY <2>6, <2>7 DEF AlignUpTo
  <2>9. pairs = rest \cup {<<i + 1, j + 1>>}
    BY <2>4
  <2> QED
    BY <2>8, <2>9
<1> QED
  BY <1>3, <1>4, <1>5

(* What EditDistance takes the least of, for the beginnings of two texts.  *)
LeastEdits(v, a, b, i, j) ==
  /\ \A pairs \in AlignUpTo(i, j) : v <= EditsOf(a, b, i, j, pairs)
  /\ \E pairs \in AlignUpTo(i, j) : v = EditsOf(a, b, i, j, pairs)

LEMMA NothingToAlign ==
  ASSUME NEW i \in Nat, NEW j \in Nat, i = 0 \/ j = 0, NEW a, NEW b
  PROVE  LeastEdits(i + j, a, b, i, j)
<1>1. (1 .. i) \X (1 .. j) = {}
  <2>1. 1 .. i = {} \/ 1 .. j = {}
    OBVIOUS
  <2> QED
    BY <2>1
<1>2. AlignUpTo(i, j) = {{}}
  BY <1>1 DEF AlignUpTo, Ordered
<1>3. EditsOf(a, b, i, j, {}) = i + j
  <2>1. Alike(a, b, {}) = {}
    BY DEF Alike
  <2> QED
    BY <2>1, FS_EmptySet DEF EditsOf
<1> QED
  BY <1>2, <1>3 DEF LeastEdits

(* Three ways to edit are enough.                                          *)
LEMMA LeastOfThree ==
  ASSUME NEW i \in Nat, NEW j \in Nat, NEW a, NEW b, NEW x \in Nat, NEW y \in Nat, NEW z \in Nat,
         LeastEdits(x, a, b, i, j + 1), LeastEdits(y, a, b, i + 1, j), LeastEdits(z, a, b, i, j)
  PROVE  LeastEdits(Min({x + 1, y + 1, z + Cost(a[i + 1], b[j + 1])}), a, b, i + 1, j + 1)
<1> DEFINE c == Cost(a[i + 1], b[j + 1])
           least == Min({x + 1, y + 1, z + c})
<1>1. c \in {0, 1}
  BY DEF Cost
<1>2. ASSUME NEW rest \in AlignUpTo(i, j), NEW pairs, pairs = rest \cup {<<i + 1, j + 1>>}
      PROVE  pairs \in AlignUpTo(i + 1, j + 1) /\ EditsOf(a, b, i + 1, j + 1, pairs) = EditsOf(a, b, i, j, rest) + c
  BY <1>2, AddPair
<1> HIDE DEF c
<1>3. least \in {x + 1, y + 1, z + c} /\ least \in Nat /\ least <= x + 1 /\ least <= y + 1 /\ least <= z + c
  <2>1. x + 1 \in Nat /\ y + 1 \in Nat /\ z + c \in Nat
    BY <1>1
  <2> QED
    BY <2>1, MinOfThree
<1> HIDE DEF least
<1>4. ASSUME NEW k \in Nat, NEW l \in Nat, NEW pairs \in AlignUpTo(k, l)
      PROVE  EditsOf(a, b, k, l, pairs) \in Int
  BY PairsAreFinite DEF EditsOf
<1>5. ASSUME NEW pairs \in AlignUpTo(i + 1, j + 1)
      PROVE  least <= EditsOf(a, b, i + 1, j + 1, pairs)
  <2>1. CASE pairs \in AlignUpTo(i, j + 1)
    <3>1. EditsOf(a, b, i + 1, j + 1, pairs) = EditsOf(a, b, i, j + 1, pairs) + 1
      BY <2>1, Widen
    <3>2. x <= EditsOf(a, b, i, j + 1, pairs) /\ EditsOf(a, b, i, j + 1, pairs) \in Int
      BY <1>4, <2>1 DEF LeastEdits
    <3> QED
      BY <1>3, <3>1, <3>2
  <2>2. CASE pairs \in AlignUpTo(i + 1, j)
    <3>1. EditsOf(a, b, i + 1, j + 1, pairs) = EditsOf(a, b, i + 1, j, pairs) + 1
      BY <2>2, Widen
    <3>2. y <= EditsOf(a, b, i + 1, j, pairs) /\ EditsOf(a, b, i + 1, j, pairs) \in Int
      BY <1>4, <2>2 DEF LeastEdits
    <3> QED
      BY <1>3, <3>1, <3>2
  <2>3. CASE \E rest \in AlignUpTo(i, j) : pairs = rest \cup {<<i + 1, j + 1>>}
    <3>1. PICK rest \in AlignUpTo(i, j) : pairs = rest \cup {<<i + 1, j + 1>>}
      BY <2>3
    <3>2. EditsOf(a, b, i + 1, j + 1, pairs) = EditsOf(a, b, i, j, rest) + c
      BY <1>2, <3>1
    <3>3. z <= EditsOf(a, b, i, j, rest) /\ EditsOf(a, b, i, j, rest) \in Int
      BY <1>4 DEF LeastEdits
    <3> QED
      BY <1>1, <1>3, <3>2, <3>3
  <2> QED
    BY <2>1, <2>2, <2>3, LastPair
<1>6. \E pairs \in AlignUpTo(i + 1, j + 1) : least = EditsOf(a, b, i + 1, j + 1, pairs)
  <2>1. CASE least = x + 1
    <3>1. PICK pairs \in AlignUpTo(i, j + 1) : x = EditsOf(a, b, i, j + 1, pairs)
      BY DEF LeastEdits
    <3>2. pairs \in AlignUpTo(i + 1, j + 1) /\ EditsOf(a, b, i + 1, j + 1, pairs) = EditsOf(a, b, i, j + 1, pairs) + 1
      BY Widen
    <3> QED
      BY <2>1, <3>1, <3>2
  <2>2. CASE least = y + 1
    <3>1. PICK pairs \in AlignUpTo(i + 1, j) : y = EditsOf(a, b, i + 1, j, pairs)
      BY DEF LeastEdits
    <3>2. pairs \in AlignUpTo(i + 1, j + 1) /\ EditsOf(a, b, i + 1, j + 1, pairs) = EditsOf(a, b, i + 1, j, pairs) + 1
      BY Widen
    <3> QED
      BY <2>2, <3>1, <3>2
  <2>3. CASE least = z + c
    <3>1. PICK rest \in AlignUpTo(i, j) : z = EditsOf(a, b, i, j, rest)
      BY DEF LeastEdits
    <3> QED
      BY <1>2, <2>3, <3>1
  <2> QED
    BY <1>3, <2>1, <2>2, <2>3
<1> QED
  BY <1>5, <1>6 DEF LeastEdits, least, c

(* Every entry of the table is a least number of edits.                    *)
LEMMA TableIsLeast ==
  ASSUME NEW X, NEW a \in Seq(X), NEW b \in Seq(X), NEW M, IsTable(M, a, b)
  PROVE  \A i \in 0 .. Len(a), j \in 0 .. Len(b) : LeastEdits(M[i][j], a, b, i, j)
<1> DEFINE T == {n \in Nat : \A i \in 0 .. Len(a), j \in 0 .. Len(b) : i + j <= n =>
                    LeastEdits(M[i][j], a, b, i, j)}
           Edge == {n \in Nat : n \in 0 .. Len(a) => M[n][0] = n}
<1>1. Len(a) \in Nat /\ Len(b) \in Nat /\ 0 \in 0 .. Len(b)
  OBVIOUS
<1>2. /\ \A i \in 0 .. Len(a), j \in 0 .. Len(b) : M[i][j] \in Nat
      /\ \A j \in 0 .. Len(b) : M[0][j] = j
      /\ \A i \in 1 .. Len(a) : M[i][0] = M[i - 1][0] + 1
      /\ \A i \in 1 .. Len(a), j \in 1 .. Len(b) :
           M[i][j] = Min({M[i - 1][j] + 1, M[i][j - 1] + 1, M[i - 1][j - 1] + Cost(a[i], b[j])})
  BY TableEntries DEF HasEntries
<1>3. \A i \in 0 .. Len(a) : M[i][0] = i
  <2>1. 0 \in Edge
    BY <1>1, <1>2
  <2>2. ASSUME NEW n \in Edge PROVE n + 1 \in Edge
    <3>1. CASE n + 1 \in 1 .. Len(a)
      <4>1. M[n][0] = n /\ (n + 1) - 1 = n
        BY <3>1
      <4>2. M[n + 1][0] = M[(n + 1) - 1][0] + 1
        BY <1>2, <3>1
      <4> QED
        BY <4>1, <4>2
    <3> QED
      BY <3>1
  <2> HIDE DEF Edge
  <2>3. Edge = Nat
    BY <2>1, <2>2, NumberInduction, Zenon DEF Edge
  <2> QED
    BY <2>3 DEF Edge
<1>4. ASSUME NEW i \in 0 .. Len(a), NEW j \in 0 .. Len(b), i = 0 \/ j = 0
      PROVE  LeastEdits(M[i][j], a, b, i, j)
  <2>1. M[i][j] = i + j
    BY <1>2, <1>3, <1>4
  <2>2. i \in Nat /\ j \in Nat
    OBVIOUS
  <2> QED
    BY <1>4, <2>1, <2>2, NothingToAlign
<1>5. 0 \in T
  BY <1>4
<1>6. ASSUME NEW n \in T
      PROVE  n + 1 \in T
  <2>1. ASSUME NEW i \in 0 .. Len(a), NEW j \in 0 .. Len(b), i + j <= n + 1, i # 0, j # 0
        PROVE  LeastEdits(M[i][j], a, b, i, j)
    <3> DEFINE k == i - 1
               l == j - 1
    <3>1. /\ i \in 1 .. Len(a) /\ j \in 1 .. Len(b) /\ k \in 0 .. Len(a) /\ l \in 0 .. Len(b)
          /\ k \in Nat /\ l \in Nat /\ i = k + 1 /\ j = l + 1
          /\ k + j <= n /\ i + l <= n /\ k + l <= n
      BY <2>1
    <3> HIDE DEF k, l
    <3>2. LeastEdits(M[k][j], a, b, k, j) /\ LeastEdits(M[i][l], a, b, i, l) /\ LeastEdits(M[k][l], a, b, k, l)
      BY <3>1
    <3> HIDE DEF T
    <3>3. M[k][j] \in Nat /\ M[i][l] \in Nat /\ M[k][l] \in Nat
      BY <1>2, <3>1
    <3>4. M[i][j] = Min({M[k][j] + 1, M[i][l] + 1, M[k][l] + Cost(a[i], b[j])})
      BY <1>2, <3>1, Zenon DEF k, l
    <3>5. /\ LeastEdits(M[k][j], a, b, k, l + 1)
          /\ LeastEdits(M[i][l], a, b, k + 1, l)
      BY <3>1, <3>2
    <3>6. LeastEdits(Min({M[k][j] + 1, M[i][l] + 1, M[k][l] + Cost(a[k + 1], b[l + 1])}), a, b, k + 1, l + 1)
      BY <3>1, <3>2, <3>3, <3>5, LeastOfThree
    <3> QED
      BY <3>1, <3>4, <3>6
  <2> QED
    BY <1>4, <2>1
<1>7. T = Nat
  <2> HIDE DEF T
  <2> QED
    BY <1>5, <1>6, NumberInduction, Zenon DEF T
<1>8. ASSUME NEW i \in 0 .. Len(a), NEW j \in 0 .. Len(b)
      PROVE  LeastEdits(M[i][j], a, b, i, j)
  <2>1. i + j \in T
    <3> HIDE DEF T
    <3> QED
      BY <1>7
  <2> QED
    BY <2>1
<1> QED
  BY <1>8

(* levenshtein computes the edit distance: of all alignments of two texts, *)
(* it finds one that leaves the least to edit.                             *)
THEOREM LevenshteinIsEditDistance ==
  ASSUME NEW a, NEW b, IsText(a), IsText(b)
  PROVE  Levenshtein(a, b) = EditDistance(a, b)
<1> DEFINE X == Range(a) \cup Range(b)
           v == Levenshtein(a, b)
           D == {Len(a) + Len(b) - Cardinality(pairs) - Cardinality({p \in pairs : a[p[1]] = b[p[2]]}) :
                   pairs \in Alignments(a, b)}
<1>1. a \in Seq(X) /\ b \in Seq(X)
  BY DEF IsText
<1> HIDE DEF X
<1>2. PICK M : IsTable(M, a, b) /\ v = M[Len(a)][Len(b)]
  BY <1>1, LevenshteinTable
<1>3. Len(a) \in 0 .. Len(a) /\ Len(b) \in 0 .. Len(b) /\ DOMAIN a = 1 .. Len(a) /\ DOMAIN b = 1 .. Len(b)
  BY <1>1
<1>4. LeastEdits(v, a, b, Len(a), Len(b))
  BY <1>1, <1>2, <1>3, TableIsLeast
<1>5. Alignments(a, b) = AlignUpTo(Len(a), Len(b))
  BY <1>3 DEF Alignments, AlignUpTo, Ordered
<1>6. D = {EditsOf(a, b, Len(a), Len(b), pairs) : pairs \in AlignUpTo(Len(a), Len(b))}
  BY <1>5 DEF EditsOf, Alike
<1>7. v \in Nat
  BY LevenshteinSymmetric
<1> HIDE DEF D, v
<1>8. v \in D /\ \A w \in D : v <= w
  BY <1>4, <1>6 DEF LeastEdits
<1>9. \A w \in D : w \in Int
  <2>1. \A pairs \in AlignUpTo(Len(a), Len(b)) : EditsOf(a, b, Len(a), Len(b), pairs) \in Int
    BY <1>3, PairsAreFinite DEF EditsOf
  <2> QED
    BY <1>6, <2>1
<1>10. \A w \in D : (\A u \in D : w <= u) => w = v
  BY <1>7, <1>8, <1>9
<1>11. Min(D) = v
  BY <1>8, <1>10 DEF Min
<1> QED
  BY <1>11 DEF EditDistance, D, v

-----------------------------------------------------------------------------
(* Scores.                                                                 *)

LEMMA MaxOfTwo ==
  ASSUME NEW x \in Nat, NEW y \in Nat
  PROVE  Max({x, y}) \in Nat /\ Max({x, y}) = (IF x >= y THEN x ELSE y)
<1>1. \E w \in {x, y} : \A v \in {x, y} : w >= v
  OBVIOUS
<1>2. Max({x, y}) \in {x, y} /\ \A v \in {x, y} : Max({x, y}) >= v
  BY <1>1 DEF Max
<1> QED
  BY <1>2

LEMMA MinOfTwo ==
  ASSUME NEW x \in Nat, NEW y \in Nat
  PROVE  Min({x, y}) \in Nat /\ Min({x, y}) <= y
<1>1. \E w \in {x, y} : \A v \in {x, y} : w <= v
  OBVIOUS
<1>2. Min({x, y}) \in {x, y} /\ \A v \in {x, y} : Min({x, y}) <= v
  BY <1>1 DEF Min
<1> QED
  BY <1>2

(* A share of a whole is a percentage.                                     *)
LEMMA Percentage ==
  ASSUME NEW part \in Nat, NEW whole \in Nat, whole > 0, part <= 100 * whole
  PROVE  part \div whole \in 0 .. 100
OBVIOUS

(* A field's score is a percentage and the same both ways.                 *)
LEMMA FieldScoreIsFair ==
  ASSUME NEW spec, spec.exact \in BOOLEAN, NEW x, NEW y, IsText(x), IsText(y), x # Empty \/ y # Empty
  PROVE  FieldScore(spec, x, y) \in 0 .. 100 /\ FieldScore(spec, x, y) = FieldScore(spec, y, x)
<1> DEFINE longest == Max({Len(x), Len(y)})
           least == Min({Levenshtein(x, y), longest})
<1>1. Len(x) \in Nat /\ Len(y) \in Nat /\ (Len(x) > 0 \/ Len(y) > 0)
  BY DEF IsText, Empty
<1>2. longest \in Nat /\ longest > 0
  BY <1>1, MaxOfTwo
<1>3. least \in Nat /\ least <= longest
  <2> HIDE DEF longest
  <2> QED
    BY <1>2, LevenshteinSymmetric, MinOfTwo
<1>4. (100 * (longest - least)) \div longest \in 0 .. 100
  <2> HIDE DEF longest, least
  <2>1. 100 * (longest - least) \in Nat /\ 100 * (longest - least) <= 100 * longest
    BY <1>2, <1>3
  <2> QED
    BY <1>2, <2>1, Percentage
<1>5. {Len(x), Len(y)} = {Len(y), Len(x)} /\ Levenshtein(x, y) = Levenshtein(y, x)
  BY LevenshteinSymmetric
<1>6. FieldScore(spec, x, y) = IF spec.exact THEN (IF x # Empty /\ x = y THEN 100 ELSE 0)
                               ELSE (100 * (longest - least)) \div longest
  BY DEF FieldScore
<1>7. FieldScore(spec, y, x) = IF spec.exact THEN (IF y # Empty /\ y = x THEN 100 ELSE 0)
                               ELSE (100 * (longest - least)) \div longest
  BY <1>5 DEF FieldScore
<1> HIDE DEF longest, least
<1> QED
  BY <1>4, <1>6, <1>7

(* A row with a text in every field that is compared.                      *)
Comparable(row) == \A spec \in Specs : IsText(row[spec.field])

LEMMA RowsAreComparable ==
  ASSUME NEW row \in Rows, NEW columns, Compared \subseteq columns
  PROVE  /\ Comparable(row) /\ Comparable(Seen(columns, row))
         /\ \A spec \in Specs : Seen(columns, row)[spec.field] = row[spec.field]
<1>1. ASSUME NEW spec \in Specs
      PROVE  spec.field \in DOMAIN row /\ spec.field \in columns /\ IsText(row[spec.field])
  BY MatchScanAssumption DEF Compared, IsText
<1>2. \A spec \in Specs : Seen(columns, row)[spec.field] = row[spec.field]
  BY <1>1 DEF Seen
<1> QED
  BY <1>1, <1>2 DEF Comparable

(* The scores of two rows depend on the compared fields only.              *)
LEMMA ScoresAreOfFields ==
  ASSUME NEW r1, NEW r2, NEW q1, NEW q2,
         \A spec \in Specs : r1[spec.field] = r2[spec.field] /\ q1[spec.field] = q2[spec.field]
  PROVE  Compare(r1, q1) = Compare(r2, q2)
<1> DEFINE specs == {spec \in Specs : r1[spec.field] # Empty \/ q1[spec.field] # Empty}
<1>1. specs = {spec \in Specs : r2[spec.field] # Empty \/ q2[spec.field] # Empty}
  OBVIOUS
<1>2. Scores(r1, q1) = [spec \in specs |-> FieldScore(spec, r1[spec.field], q1[spec.field]) * spec.weight]
  BY DEF Scores
<1>3. Scores(r2, q2) = [spec \in specs |-> FieldScore(spec, r2[spec.field], q2[spec.field]) * spec.weight]
  BY <1>1 DEF Scores
<1>4. Scores(r1, q1) = Scores(r2, q2)
  <2>1. \A spec \in specs : r1[spec.field] = r2[spec.field] /\ q1[spec.field] = q2[spec.field]
    OBVIOUS
  <2> HIDE DEF specs
  <2> QED
    BY <1>2, <1>3, <2>1
<1> QED
  BY <1>4 DEF Compare

(* The score of two records is a percentage, and the same whichever of     *)
(* them is compared with the other (compare).                              *)
THEOREM CompareIsFair ==
  ASSUME NEW row, NEW other, Comparable(row), Comparable(other)
  PROVE  Compare(row, other) \in 0 .. 100 /\ Compare(row, other) = Compare(other, row)
<1> DEFINE specs == {spec \in Specs : row[spec.field] # Empty \/ other[spec.field] # Empty}
           scores == [spec \in specs |-> FieldScore(spec, row[spec.field], other[spec.field]) * spec.weight]
           weights == [spec \in specs |-> spec.weight]
<1>1. Scores(row, other) = scores /\ DOMAIN scores = specs
  BY DEF Scores
<1>2. IsFiniteSet(specs)
  BY MatchScanAssumption, FS_Subset
<1>3. ASSUME NEW spec \in specs
      PROVE  /\ spec.weight \in Nat \ {0}
             /\ FieldScore(spec, row[spec.field], other[spec.field]) \in 0 .. 100
             /\ FieldScore(spec, row[spec.field], other[spec.field])
                  = FieldScore(spec, other[spec.field], row[spec.field])
  <2>1. spec.weight \in Nat \ {0} /\ spec.exact \in BOOLEAN
    BY MatchScanAssumption
  <2>2. IsText(row[spec.field]) /\ IsText(other[spec.field])
    BY DEF Comparable
  <2>3. row[spec.field] # Empty \/ other[spec.field] # Empty
    OBVIOUS
  <2> HIDE DEF specs
  <2> QED
    BY <2>1, <2>2, <2>3, FieldScoreIsFair
<1>4. Scores(other, row) = scores
  <2>1. specs = {spec \in Specs : other[spec.field] # Empty \/ row[spec.field] # Empty}
    OBVIOUS
  <2>2. Scores(other, row) = [spec \in specs |-> FieldScore(spec, other[spec.field], row[spec.field]) * spec.weight]
    BY <2>1 DEF Scores
  <2> HIDE DEF specs
  <2> QED
    BY <1>3, <2>2
<1>5. Compare(row, other) = Compare(other, row)
  <2> HIDE DEF scores
  <2> QED
    BY <1>1, <1>4 DEF Compare
<1>6. scores \in [specs -> Nat] /\ weights \in [specs -> Nat \ {0}] /\ weights \in [specs -> Nat]
      /\ \A spec \in specs : scores[spec] <= 100 * weights[spec]
  <2>1. ASSUME NEW spec \in specs
        PROVE  scores[spec] \in Nat /\ weights[spec] \in Nat \ {0} /\ scores[spec] <= 100 * weights[spec]
    <3> DEFINE f == FieldScore(spec, row[spec.field], other[spec.field])
    <3>1. f \in 0 .. 100 /\ spec.weight \in Nat \ {0}
      BY <1>3
    <3>2. scores[spec] = f * spec.weight /\ weights[spec] = spec.weight
      OBVIOUS
    <3> HIDE DEF f
    <3>3. \A w \in Nat : f * w \in Nat /\ f * w <= 100 * w
      BY <3>1
    <3> HIDE DEF specs, scores, weights
    <3> QED
      BY <3>1, <3>2, <3>3
  <2> HIDE DEF specs
  <2> QED
    BY <2>1
<1>7. CASE specs = {}
  <2>1. DOMAIN Scores(row, other) = {}
    BY <1>1, <1>7
  <2>2. Compare(row, other) = 0
    BY <2>1 DEF Compare
  <2> QED
    BY <1>5, <2>2
<1>8. CASE specs # {}
  <2>1. Compare(row, other) = SumFunction(scores) \div SumFunction(weights)
    BY <1>1, <1>8 DEF Compare
  <2> HIDE DEF specs, scores, weights
  <2>2. /\ SumFunction(scores) \in Nat /\ SumFunction(weights) \in Nat
        /\ SumFunction(scores) <= 100 * SumFunction(weights)
    BY <1>2, <1>6, SumBound
  <2>3. SumFunction(weights) > 0
    BY <1>2, <1>6, <1>8, SumPositive
  <2>4. SumFunction(scores) \div SumFunction(weights) \in 0 .. 100
    BY <2>2, <2>3, Percentage
  <2> QED
    BY <1>5, <2>1, <2>4
<1> QED
  BY <1>7, <1>8
=============================================================================

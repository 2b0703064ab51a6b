---------------------------- MODULE Readings_proofs ----------------------------
(* Proofs about ScoreReadings and Analytics, for every template, database and *)
(* bound that their assumptions allow.  The sums of the scoring engine are    *)
(* folds of the library over a set; what they compute is proved here by       *)
(* induction on the size of the set.                                          *)
EXTENDS Analytics, FiniteSetTheorems, TLAPS

-----------------------------------------------------------------------------
(* Induction. *)

(* A set of naturals that is not empty has a least element. *)
LEMMA Least ==
  ASSUME NEW T, T \subseteq Nat, T # {}
  PROVE  \E n \in T : \A m \in T : n <= m
<1>1. IsWellFoundedOn(OpToRel(<, Nat), Nat)
  BY NatLessThanWellFounded
<1>2. PICK n \in T : \A m \in T : <<m, n>> \notin OpToRel(<, Nat)
  BY <1>1, WFMin
<1>3. \A m \in T : ~(m < n)
  BY <1>2 DEF OpToRel
<1> QED BY <1>3

(* The element the folds of the library take out of a set first. *)
First(s) == CHOOSE x \in s : TRUE
Rest(s) == s \ {First(s)}

(* The element that is taken out first is of the set. *)
LEMMA FirstIn ==
  ASSUME NEW s, s # {}
  PROVE  First(s) \in s
  BY DEF First

(* The subsets of a finite set are finite, and taking the first out counts.   *)
LEMMA SubsetSizes ==
  ASSUME NEW S, IsFiniteSet(S), NEW s \in SUBSET S
  PROVE  /\ IsFiniteSet(s) /\ Cardinality(s) \in Nat
         /\ Cardinality(s) <= Cardinality(S) /\ Cardinality(S) \in Nat
         /\ s = {} <=> Cardinality(s) = 0
         /\ s # {} => Rest(s) \in SUBSET S /\ Cardinality(Rest(s)) = Cardinality(s) - 1
<1>1. /\ IsFiniteSet(s) /\ Cardinality(s) \in Nat
      /\ Cardinality(s) <= Cardinality(S) /\ Cardinality(S) \in Nat
  BY FS_Subset, FS_CardinalityType
<1>2. s = {} <=> Cardinality(s) = 0
  BY <1>1, FS_EmptySet
<1>3. s # {} => Rest(s) \in SUBSET S /\ Cardinality(Rest(s)) = Cardinality(s) - 1
  BY <1>1, FirstIn, FS_RemoveElement DEF Rest
<1> QED BY <1>1, <1>2, <1>3

(* Induction over the subsets of a finite set, in the order of the folds: G   *)
(* holds them all when it holds {} and each set whose rest it holds.          *)
LEMMA SubsetInduction ==
  ASSUME NEW S, IsFiniteSet(S), NEW G,
         {} \in G,
         \A s \in SUBSET S : s # {} /\ Rest(s) \in G => s \in G
  PROVE  SUBSET S \subseteq G
<1> DEFINE Sizes == {n \in Nat : \E s \in SUBSET S : Cardinality(s) = n /\ s \notin G}
<1>1. SUFFICES ASSUME NEW s \in SUBSET S, s \notin G PROVE FALSE
  OBVIOUS
<1>2. Cardinality(s) \in Sizes
  BY <1>1, SubsetSizes
<1>3. PICK n \in Sizes : \A m \in Sizes : n <= m
  <2>1. Sizes \subseteq Nat /\ Sizes # {}
    BY <1>2
  <2> HIDE DEF Sizes
  <2> QED BY <2>1, Least
<1>4. PICK t \in SUBSET S : Cardinality(t) = n /\ t \notin G
  OBVIOUS
<1>5. t # {}
  BY <1>4
<1>6. Rest(t) \in SUBSET S /\ Cardinality(Rest(t)) = n - 1
  BY <1>4, <1>5, SubsetSizes
<1>7. n - 1 \in Nat
  BY <1>6, SubsetSizes
<1>8. Rest(t) \notin G
  BY <1>4, <1>5
<1>9. n - 1 \in Sizes
  BY <1>6, <1>7, <1>8
<1>10. n \in Nat
  OBVIOUS
<1> HIDE DEF Sizes
<1>11. n <= n - 1
  BY <1>3, <1>9
<1> QED BY <1>10, <1>11

-----------------------------------------------------------------------------
(* Folds. *)

(* The folds of a step over the subsets of a set, from a base. *)
FoldsOf(step, base, V, S) ==
  {t \in [SUBSET S -> V] :
     \A s \in SUBSET S : t[s] = IF s = {} THEN base ELSE step[s][t[Rest(s)]]}

(* Over the subsets of a finite set there is one: up to each size of them.    *)
LEMMA FoldsExist ==
  ASSUME NEW S, IsFiniteSet(S), NEW V, NEW base \in V, NEW step \in [SUBSET S -> [V -> V]]
  PROVE  FoldsOf(step, base, V, S) # {}
<1> DEFINE Small(n) == {s \in SUBSET S : Cardinality(s) <= n}
           Upto(n, t) == /\ t \in [Small(n) -> V]
                         /\ \A s \in Small(n) :
                              t[s] = IF s = {} THEN base ELSE step[s][t[Rest(s)]]
           Bad == {n \in Nat : ~ \E t : Upto(n, t)}
<1>1. \A s \in SUBSET S : /\ Cardinality(s) \in Nat /\ Cardinality(s) <= Cardinality(S)
                          /\ s = {} <=> Cardinality(s) = 0
                          /\ s # {} => /\ Rest(s) \in SUBSET S
                                       /\ Cardinality(Rest(s)) = Cardinality(s) - 1
  BY SubsetSizes
<1>2. \A s \in SUBSET S, x \in V : step[s][x] \in V
  OBVIOUS
<1>3. Bad = {}
  <2> SUFFICES ASSUME Bad # {} PROVE FALSE
    OBVIOUS
  <2>1. PICK n \in Bad : \A m \in Bad : n <= m
    <3>1. Bad \subseteq Nat
      OBVIOUS
    <3> HIDE DEF Bad
    <3> QED BY <3>1, Least
  <2>2. CASE n = 0
    <3>1. \A s \in Small(0) : s = {}
      BY <1>1
    <3> DEFINE t == [s \in Small(0) |-> base]
    <3>2. Upto(0, t)
      BY <3>1
    <3> HIDE DEF Upto
    <3> QED BY <2>1, <2>2, <3>2
  <2>3. CASE n # 0
    <3>1. n \in Nat /\ n - 1 \in Nat /\ n - 1 < n
      BY <2>1, <2>3
    <3>2. PICK t : Upto(n - 1, t)
      <4>1. n - 1 \notin Bad
        <5> HIDE DEF Bad
        <5> QED BY <2>1, <3>1
      <4> QED BY <3>1, <4>1
    <3>3. \A s \in Small(n) : s # {} => Rest(s) \in Small(n - 1) /\ Rest(s) \in Small(n)
      BY <1>1, <3>1
    <3>4. {} \in Small(n) /\ \A s \in Small(n) : s \in SUBSET S
      BY <1>1, <3>1
    <3>5. \A s \in Small(n - 1) : s \in Small(n)
      BY <1>1, <3>1
    <3> HIDE DEF Small
    <3> DEFINE u == [s \in Small(n) |-> IF s = {} THEN base ELSE step[s][t[Rest(s)]]]
    <3>6. \A s \in Small(n) : s # {} => t[Rest(s)] \in V
      BY <3>2, <3>3
    <3>7. u \in [Small(n) -> V]
      BY <1>2, <3>4, <3>6
    <3>8. \A s \in Small(n - 1) : u[s] = t[s]
      BY <3>2, <3>5
    <3>9. \A s \in Small(n) : s # {} => u[Rest(s)] = t[Rest(s)]
      <4> HIDE DEF u
      <4> QED BY <3>3, <3>8
    <3>10. \A s \in Small(n) : u[s] = IF s = {} THEN base ELSE step[s][u[Rest(s)]]
      BY <3>9
    <3> HIDE DEF u
    <3>11. Upto(n, u)
      BY <3>7, <3>10
    <3> HIDE DEF Upto
    <3> QED BY <2>1, <3>11
  <2> QED BY <2>2, <2>3
<1>4. Cardinality(S) \in Nat
  BY FS_CardinalityType
<1>5. PICK t : Upto(Cardinality(S), t)
  BY <1>3, <1>4
<1>6. Small(Cardinality(S)) = SUBSET S
  BY <1>1
<1> HIDE DEF Small
<1> QED BY <1>5, <1>6 DEF FoldsOf

-----------------------------------------------------------------------------
(* Sums. *)

(* The sums of f over the subsets of S, as the fold computes them. *)
AreSums(sums, f, S) ==
  sums = [s \in SUBSET S |-> IF s = {} THEN 0 ELSE f[First(s)] + sums[s \ {First(s)}]]
Sums(f, S) == CHOOSE sums : AreSums(sums, f, S)

(* The sum of the library is the last of these. *)
LEMMA SumIsLast ==
  ASSUME NEW f
  PROVE  SumFunction(f) = Sums(f, DOMAIN f)[DOMAIN f]
  BY DEF SumFunction, SumFunctionOnSet, FoldFunctionOnSet, MapThenFoldSet, Sums, AreSums, First

(* What the fold computes, step by step. *)
LEMMA SumsUnfold ==
  ASSUME NEW S, IsFiniteSet(S), NEW f \in [S -> Int]
  PROVE  /\ Sums(f, S)[{}] = 0
         /\ \A s \in SUBSET S : s # {} => Sums(f, S)[s] = f[First(s)] + Sums(f, S)[Rest(s)]
<1> DEFINE step == [s \in SUBSET S |->
                      [x \in Int |-> IF s = {} THEN 0 ELSE f[First(s)] + x]]
<1>1. \A s \in SUBSET S : s # {} => f[First(s)] \in Int
  BY FirstIn
<1>2. step \in [SUBSET S -> [Int -> Int]]
  BY <1>1
<1>3. FoldsOf(step, 0, Int, S) # {}
  <2> HIDE DEF step
  <2>1. 0 \in Int
    OBVIOUS
  <2> QED BY <1>2, <2>1, FoldsExist
<1>4. PICK t \in [SUBSET S -> Int] :
        \A s \in SUBSET S : t[s] = IF s = {} THEN 0 ELSE step[s][t[Rest(s)]]
  <2> HIDE DEF step
  <2> QED BY <1>3 DEF FoldsOf
<1>5. t = [s \in SUBSET S |-> IF s = {} THEN 0 ELSE f[First(s)] + t[s \ {First(s)}]]
  <2>1. \A s \in SUBSET S : s # {} => t[Rest(s)] \in Int
    BY <1>4, FirstIn DEF Rest
  <2>2. \A s \in SUBSET S : s # {} => step[s][t[Rest(s)]] = f[First(s)] + t[s \ {First(s)}]
    BY <2>1 DEF Rest
  <2> HIDE DEF step
  <2> QED BY <1>4, <2>2
<1>6. AreSums(Sums(f, S), f, S)
  BY <1>5 DEF Sums, AreSums
<1>7. {} \in SUBSET S
  OBVIOUS
<1> QED BY <1>6, <1>7 DEF Rest, AreSums

(* A sum of whole numbers is one, and what is larger everywhere sums to more. *)
LEMMA SumMonotone ==
  ASSUME NEW S, IsFiniteSet(S), NEW f \in [S -> Int], NEW g \in [S -> Int],
         \A i \in S : f[i] <= g[i]
  PROVE  /\ SumFunction(f) \in Int /\ SumFunction(g) \in Int
         /\ SumFunction(f) <= SumFunction(g)
<1> DEFINE F == Sums(f, S)
           G == Sums(g, S)
           Good == {s \in SUBSET S : F[s] \in Int /\ G[s] \in Int /\ F[s] <= G[s]}
<1>1. {} \in Good
  BY SumsUnfold
<1>2. ASSUME NEW s \in SUBSET S, s # {}, Rest(s) \in Good PROVE s \in Good
  <2>1. First(s) \in S
    BY <1>2, FirstIn
  <2>2. F[s] = f[First(s)] + F[Rest(s)] /\ G[s] = g[First(s)] + G[Rest(s)]
    BY <1>2, SumsUnfold
  <2>3. /\ F[Rest(s)] \in Int /\ G[Rest(s)] \in Int /\ F[Rest(s)] <= G[Rest(s)]
        /\ f[First(s)] \in Int /\ g[First(s)] \in Int /\ f[First(s)] <= g[First(s)]
    BY <1>2, <2>1
  <2> HIDE DEF F, G
  <2> QED BY <2>2, <2>3
<1>3. SUBSET S \subseteq Good
  <2> HIDE DEF Good
  <2> QED BY <1>1, <1>2, SubsetInduction
<1>4. S \in Good
  BY <1>3
<1>5. SumFunction(f) = F[S] /\ SumFunction(g) = G[S]
  BY SumIsLast
<1> QED BY <1>4, <1>5

(* A sum of whole numbers is a whole number. *)
LEMMA SumIsInt ==
  ASSUME NEW S, IsFiniteSet(S), NEW f \in [S -> Int]
  PROVE  SumFunction(f) \in Int
  BY SumMonotone

(* A factor goes out of the sum. *)
LEMMA SumScaled ==
  ASSUME NEW S, IsFiniteSet(S), NEW f \in [S -> Int], NEW c \in Int
  PROVE  SumFunction([i \in S |-> c * f[i]]) = c * SumFunction(f)
<1> DEFINE g == [i \in S |-> c * f[i]]
           F == Sums(f, S)
           G == Sums(g, S)
           Good == {s \in SUBSET S : F[s] \in Int /\ G[s] = c * F[s]}
<1>1. {} \in Good
  BY SumsUnfold
<1>2. ASSUME NEW s \in SUBSET S, s # {}, Rest(s) \in Good PROVE s \in Good
  <2>1. First(s) \in S
    BY <1>2, FirstIn
  <2>2. F[s] = f[First(s)] + F[Rest(s)] /\ G[s] = g[First(s)] + G[Rest(s)]
    BY <1>2, SumsUnfold
  <2>3. F[Rest(s)] \in Int /\ G[Rest(s)] = c * F[Rest(s)] /\ f[First(s)] \in Int
        /\ g[First(s)] = c * f[First(s)]
    BY <1>2, <2>1
  <2> HIDE DEF F, G, g
  <2>4. \A x, y \in Int : c * x + c * y = c * (x + y)
    OBVIOUS
  <2>5. c * f[First(s)] + c * F[Rest(s)] = c * (f[First(s)] + F[Rest(s)])
    BY <2>3, <2>4
  <2>6. F[s] \in Int
    BY <2>2, <2>3
  <2>7. G[s] = c * F[s]
    BY <2>2, <2>3, <2>5
  <2> QED BY <1>2, <2>6, <2>7
<1>3. SUBSET S \subseteq Good
  <2> HIDE DEF Good
  <2> QED BY <1>1, <1>2, SubsetInduction
<1>4. S \in Good
  BY <1>3
<1>5. SumFunction(f) = F[S] /\ SumFunction(g) = G[S]
  BY SumIsLast
<1> QED BY <1>4, <1>5

(* The sum of a constant. *)
LEMMA SumConstant ==
  ASSUME NEW S, IsFiniteSet(S), NEW c \in Int
  PROVE  SumFunction([i \in S |-> c]) = c * Cardinality(S)
<1> DEFINE g == [i \in S |-> c]
           G == Sums(g, S)
           Good == {s \in SUBSET S : G[s] = c * Cardinality(s)}
<1>1. {} \in Good
  BY SumsUnfold, FS_EmptySet
<1>2. ASSUME NEW s \in SUBSET S, s # {}, Rest(s) \in Good PROVE s \in Good
  <2>1. First(s) \in S
    BY <1>2, FirstIn
  <2>2. G[s] = g[First(s)] + G[Rest(s)] /\ g[First(s)] = c
    BY <1>2, <2>1, SumsUnfold
  <2>3. G[Rest(s)] = c * Cardinality(Rest(s))
    BY <1>2
  <2>4. Cardinality(s) \in Nat /\ Cardinality(Rest(s)) = Cardinality(s) - 1
    BY <1>2, SubsetSizes
  <2> HIDE DEF G, g
  <2>5. \A n \in Int : c + c * (n - 1) = c * n
    OBVIOUS
  <2> QED BY <2>2, <2>3, <2>4, <2>5
<1>3. SUBSET S \subseteq Good
  <2> HIDE DEF Good
  <2> QED BY <1>1, <1>2, SubsetInduction
<1>4. S \in Good
  BY <1>3
<1>5. SumFunction(g) = G[S]
  BY SumIsLast
<1> QED BY <1>4, <1>5

(* Naturals sum to a natural, to no less than any of them. *)
LEMMA SumAtLeast ==
  ASSUME NEW S, IsFiniteSet(S), NEW f \in [S -> Nat]
  PROVE  /\ SumFunction(f) \in Nat
         /\ \A i \in S : f[i] <= SumFunction(f)
<1> DEFINE F == Sums(f, S)
           Good == {s \in SUBSET S : F[s] \in Nat /\ \A i \in s : f[i] <= F[s]}
<1>1. {} \in Good
  BY SumsUnfold
<1>2. ASSUME NEW s \in SUBSET S, s # {}, Rest(s) \in Good PROVE s \in Good
  <2>1. First(s) \in S
    BY <1>2, FirstIn
  <2>2. F[s] = f[First(s)] + F[Rest(s)]
    BY <1>2, SumsUnfold
  <2>3. F[Rest(s)] \in Nat /\ f[First(s)] \in Nat
    BY <1>2, <2>1
  <2>4. \A i \in s : i = First(s) \/ (f[i] \in Nat /\ f[i] <= F[Rest(s)])
    BY <1>2 DEF Rest
  <2> HIDE DEF F
  <2> QED BY <2>2, <2>3, <2>4
<1>3. SUBSET S \subseteq Good
  <2> HIDE DEF Good
  <2> QED BY <1>1, <1>2, SubsetInduction
<1>4. S \in Good
  BY <1>3
<1>5. SumFunction(f) = F[S]
  BY SumIsLast
<1> QED BY <1>4, <1>5

-----------------------------------------------------------------------------
(* Averages. *)

(* A rounded quotient is the whole number that is nearest. *)
LEMMA RoundDivNearest ==
  ASSUME NEW a \in Int, NEW b \in Nat, b > 0
  PROVE  /\ RoundDiv(a, b) \in Int
         /\ 2 * (b * RoundDiv(a, b)) <= 2 * a + b
         /\ 2 * a < 2 * (b * RoundDiv(a, b)) + b
<1> DEFINE x == 2 * a + b
           d == 2 * b
<1>1. x \in Int /\ d \in Nat /\ d > 0
  OBVIOUS
<1>2. x \div d \in Int /\ d * (x \div d) <= x /\ x < d * (x \div d) + d
  <2> HIDE DEF x, d
  <2>1. /\ x \div d \in Int /\ x % d \in 0 .. (d - 1)
        /\ x = d * (x \div d) + (x % d)
    BY <1>1
  <2> QED BY <1>1, <2>1
<1>3. \A q \in Int : (2 * b) * q = 2 * (b * q)
  OBVIOUS
<1>4. RoundDiv(a, b) = x \div d
  BY DEF RoundDiv
<1> HIDE DEF x
<1>5. d * (x \div d) = 2 * (b * (x \div d))
  BY <1>2, <1>3
<1> QED BY <1>1, <1>2, <1>4, <1>5 DEF x

(* What weighs n and is at least c adds at least n times c. *)
LEMMA ProductAtLeast ==
  ASSUME NEW n \in Nat, NEW c \in Int, NEW x \in Int, n > 0 => c <= x
  PROVE  c * n <= n * x
<1>1. CASE n = 0
  BY <1>1
<1>2. CASE n > 0
  <2>1. x - c \in Nat
    BY <1>2
  <2>2. \A y \in Nat : n * y \in Nat
    OBVIOUS
  <2>3. n * (x - c) \in Nat
    BY <2>1, <2>2
  <2>4. n * (x - c) = n * x - c * n
    OBVIOUS
  <2> QED BY <2>3, <2>4
<1> QED BY <1>1, <1>2

(* The weighted average of items that weigh something lies between two that   *)
(* do, through its rounding.                                                 *)
LEMMA AverageBetween ==
  ASSUME NEW S, IsFiniteSet(S), NEW ws, NEW values \in [S -> Int],
         \A i \in S : ws[i] \in Nat
  PROVE  LET avg == WeightedAverage(ws, values) IN
         /\ avg \in Int
         /\ (\E i \in S : ws[i] > 0) =>
              /\ \E i \in S : ws[i] > 0 /\ values[i] <= avg
              /\ \E i \in S : ws[i] > 0 /\ avg <= values[i]
<1> DEFINE w == [i \in S |-> ws[i]]
           wv == [i \in S |-> ws[i] * values[i]]
           W == SumFunction(w)
           V == SumFunction(wv)
           avg == WeightedAverage(ws, values)
<1>1. w \in [S -> Nat] /\ wv \in [S -> Int]
  OBVIOUS
<1>2. W \in Nat /\ \A i \in S : ws[i] <= W
  BY <1>1, SumAtLeast
<1>3. V \in Int
  BY <1>1, SumIsInt
<1>4. avg = IF W <= 0 THEN 0 ELSE RoundDiv(V, W)
  BY DEF WeightedAverage
<1>5. avg \in Int
  <2> HIDE DEF W, V, avg
  <2> QED BY <1>2, <1>3, <1>4, RoundDivNearest
<1>6. ASSUME NEW j \in S, ws[j] > 0
      PROVE  /\ \E i \in S : ws[i] > 0 /\ values[i] <= avg
             /\ \E i \in S : ws[i] > 0 /\ avg <= values[i]
  <2>1. W > 0
    <3> HIDE DEF W
    <3> QED BY <1>2, <1>6
  <2>2. 2 * (W * avg) <= 2 * V + W /\ 2 * V < 2 * (W * avg) + W
    <3> HIDE DEF W, V, avg
    <3> QED BY <1>2, <1>3, <1>4, <2>1, RoundDivNearest
  <2>3. ASSUME \A i \in S : ws[i] > 0 => avg + 1 <= values[i] PROVE FALSE
    <3> DEFINE c == avg + 1
    <3>1. c \in Int
      BY <1>5
    <3>2. \A i \in S : c * w[i] <= wv[i]
      <4> TAKE i \in S
      <4>1. ws[i] \in Nat /\ values[i] \in Int /\ (ws[i] > 0 => c <= values[i])
        BY <2>3
      <4> HIDE DEF c
      <4>2. c * ws[i] <= ws[i] * values[i]
        BY <3>1, <4>1, ProductAtLeast
      <4> QED BY <4>2
    <3> DEFINE cw == [i \in S |-> c * w[i]]
    <3>3. cw \in [S -> Int] /\ \A i \in S : cw[i] <= wv[i]
      BY <1>1, <3>1, <3>2
    <3>4. SumFunction(cw) = c * W
      <4> HIDE DEF c
      <4> QED BY <1>1, <3>1, SumScaled
    <3>5. c * W <= V
      <4> HIDE DEF cw, c, wv
      <4> QED BY <1>1, <3>3, <3>4, SumMonotone
    <3>6. c * W = W * avg + W
      <4> HIDE DEF W, avg
      <4> QED BY <1>2, <1>5
    <3> HIDE DEF W, V, avg, c
    <3>7. W * avg \in Int
      BY <1>2, <1>5
    <3> QED BY <1>2, <1>3, <2>1, <2>2, <3>5, <3>6, <3>7
  <2>4. ASSUME \A i \in S : ws[i] > 0 => values[i] <= avg - 1 PROVE FALSE
    <3> DEFINE c == avg - 1
    <3>1. c \in Int
      BY <1>5
    <3>2. \A i \in S : wv[i] <= c * w[i]
      <4> TAKE i \in S
      <4>1. ws[i] \in Nat /\ values[i] \in Int /\ (ws[i] > 0 => values[i] <= c)
        BY <2>4
      <4> HIDE DEF c
      <4>2. values[i] * ws[i] <= ws[i] * c
        BY <3>1, <4>1, ProductAtLeast
      <4>3. values[i] * ws[i] = ws[i] * values[i] /\ ws[i] * c = c * ws[i]
        BY <3>1, <4>1
      <4> QED BY <4>2, <4>3
    <3> DEFINE cw == [i \in S |-> c * w[i]]
    <3>3. cw \in [S -> Int] /\ \A i \in S : wv[i] <= cw[i]
      BY <1>1, <3>1, <3>2
    <3>4. SumFunction(cw) = c * W
      <4> HIDE DEF c
      <4> QED BY <1>1, <3>1, SumScaled
    <3>5. V <= c * W
      <4> HIDE DEF cw, c, wv
      <4> QED BY <1>1, <3>3, <3>4, SumMonotone
    <3>6. c * W = W * avg - W
      <4> HIDE DEF W, avg
      <4> QED BY <1>2, <1>5
    <3> HIDE DEF W, V, avg, c
    <3>7. W * avg \in Int
      BY <1>2, <1>5
    <3> QED BY <1>2, <1>3, <2>1, <2>2, <3>5, <3>6, <3>7
  <2> HIDE DEF avg
  <2> QED BY <1>5, <2>3, <2>4
<1> HIDE DEF avg
<1>7. /\ avg \in Int
      /\ (\E i \in S : ws[i] > 0) =>
           /\ \E i \in S : ws[i] > 0 /\ values[i] <= avg
           /\ \E i \in S : ws[i] > 0 /\ avg <= values[i]
  BY <1>5, <1>6
<1> QED BY <1>7 DEF avg

-----------------------------------------------------------------------------
(* What the scores of an evaluation are. *)

(* Sections and KPI of a version are finitely many and weigh naturals. *)
LEMMA TemplateFinite ==
  ASSUME NEW v \in DOMAIN Template
  PROVE  /\ IsFiniteSet(Kpis(v)) /\ IsFiniteSet(SectionNumbers(v))
         /\ \A k \in Kpis(v) : /\ Template[v].kpis[k].weight \in Nat
                               /\ Template[v].kpis[k].section \in SectionNumbers(v)
                               /\ Template[v].kpis[k].active \in BOOLEAN
         /\ \A n \in SectionNumbers(v) : Template[v].sections[n] \in Nat
  BY TemplateAssumption DEF Kpis, SectionNumbers

(* What the scores of an evaluation are computed from. *)
WellAnswered(e) ==
  /\ evals[e].version \in DOMAIN Template
  /\ evals[e].answers \in [Kpis(evals[e].version) -> Responses \union {None}]

(* An answer that is there has a score. *)
LEMMA AnswersHaveScores ==
  ASSUME NEW e, WellAnswered(e)
  PROVE  /\ evals[e].version \in DOMAIN Template
         /\ Answered(e) \subseteq Kpis(evals[e].version)
         /\ \A k \in Answered(e) : ScoreOf(e, k) \in Nat
<1>1. /\ evals[e].version \in DOMAIN Template
      /\ evals[e].answers \in [Kpis(evals[e].version) -> Responses \union {None}]
  BY DEF WellAnswered
<1>2. \A k \in Answered(e) : evals[e].answers[k] \in Responses
  BY <1>1 DEF Answered
<1>3. \A x \in Responses : x.score \in Nat
  <2>1. \A x \in Responses : x.score \in Scores
    BY DEF Responses
  <2>2. Scores \subseteq 0..10
    BY ReadingsAssumption
  <2>3. \A n \in Scores : n \in Nat
    BY <2>2
  <2> QED BY <2>1, <2>3
<1> QED BY <1>1, <1>2, <1>3 DEF Answered, ScoreOf

(* The weights of a version are naturals. *)
LEMMA WeightsAre ==
  ASSUME NEW v, NEW w \in WeightsIn(v)
  PROVE  /\ DOMAIN w.sections = SectionNumbers(v)
         /\ \A n \in SectionNumbers(v) : w.sections[n] \in Nat
         /\ \A k \in Kpis(v) : w.kpis[k] \in Nat
  BY DEF WeightsIn

(* The average of some answers lies between two of them that weigh something. *)
LEMMA AverageOfAnswers ==
  ASSUME NEW e, WellAnswered(e), NEW w \in WeightsIn(evals[e].version),
         NEW ks, ks \subseteq Answered(e)
  PROVE  /\ Average(w, e, ks) \in Int
         /\ Between(Average(w, e, ks),
                    {100 * ScoreOf(e, k) : k \in {j \in ks : w.kpis[j] > 0}})
<1> DEFINE ws == w.kpis
           values == [k \in ks |-> 100 * ScoreOf(e, k)]
<1>1. IsFiniteSet(ks)
  BY AnswersHaveScores, TemplateFinite, FS_Subset
<1>2. values \in [ks -> Int] /\ \A k \in ks : ws[k] \in Nat
  BY AnswersHaveScores, WeightsAre
<1>3. Average(w, e, ks) = WeightedAverage(ws, values)
  BY DEF Average
<1>4. \A k \in ks : values[k] = 100 * ScoreOf(e, k)
  OBVIOUS
<1> HIDE DEF ws, values
<1>5. /\ Average(w, e, ks) \in Int
      /\ (\E k \in ks : ws[k] > 0) =>
           /\ \E k \in ks : ws[k] > 0 /\ values[k] <= Average(w, e, ks)
           /\ \E k \in ks : ws[k] > 0 /\ Average(w, e, ks) <= values[k]
  BY <1>1, <1>2, <1>3, AverageBetween
<1>6. Between(Average(w, e, ks), {100 * ScoreOf(e, k) : k \in {j \in ks : ws[j] > 0}})
  BY <1>4, <1>5 DEF Between
<1> QED BY <1>5, <1>6 DEF ws

(* The sections with an answer that counts, and the average of each. *)
LEMMA AveragesOfSections ==
  ASSUME NEW e, WellAnswered(e), NEW w \in WeightsIn(evals[e].version), NEW without
  PROVE  LET averages == Averages(w, e, SectionNumbers(evals[e].version), without) IN
         /\ DOMAIN averages = {n \in SectionNumbers(evals[e].version) :
                                 ScoredKpis(e, n, without) # {}}
         /\ averages \in [DOMAIN averages -> Int]
         /\ IsFiniteSet(DOMAIN averages)
         /\ \A n \in DOMAIN averages : averages[n] = Average(w, e, ScoredKpis(e, n, without))
<1> DEFINE numbers == SectionNumbers(evals[e].version)
           averages == Averages(w, e, numbers, without)
<1>1. /\ averages = [n \in {m \in numbers : ScoredKpis(e, m, without) # {}} |->
                       Average(w, e, ScoredKpis(e, n, without))]
  BY DEF Averages
<1>2. \A n : ScoredKpis(e, n, without) \subseteq Answered(e)
  BY DEF ScoredKpis
<1>3. \A n : Average(w, e, ScoredKpis(e, n, without)) \in Int
  BY <1>2, AverageOfAnswers
<1>4. IsFiniteSet({m \in numbers : ScoredKpis(e, m, without) # {}})
  BY AnswersHaveScores, TemplateFinite, FS_Subset
<1> QED BY <1>1, <1>3, <1>4

(* The global score lies between two of the averages that weigh something.    *)
LEMMA GlobalOfAverages ==
  ASSUME NEW v \in DOMAIN Template, NEW w \in WeightsIn(v), NEW averages,
         DOMAIN averages \subseteq SectionNumbers(v),
         averages \in [DOMAIN averages -> Int]
  PROVE  /\ GlobalScore(w, averages) \in Int
         /\ Between(GlobalScore(w, averages),
                    {averages[n] : n \in {m \in DOMAIN averages : w.sections[m] > 0}})
<1> DEFINE ws == w.sections
           S == DOMAIN averages
<1>1. IsFiniteSet(S) /\ \A n \in S : ws[n] \in Nat
  BY WeightsAre, TemplateFinite, FS_Subset
<1>2. GlobalScore(w, averages) = WeightedAverage(ws, averages)
  BY DEF GlobalScore
<1> HIDE DEF ws, S
<1>3. averages \in [S -> Int]
  BY DEF S
<1>4. /\ GlobalScore(w, averages) \in Int
      /\ (\E n \in S : ws[n] > 0) =>
           /\ \E n \in S : ws[n] > 0 /\ averages[n] <= GlobalScore(w, averages)
           /\ \E n \in S : ws[n] > 0 /\ GlobalScore(w, averages) <= averages[n]
  BY <1>1, <1>2, <1>3, AverageBetween
<1>5. Between(GlobalScore(w, averages), {averages[n] : n \in {m \in S : ws[m] > 0}})
  BY <1>4 DEF Between
<1> QED BY <1>4, <1>5 DEF ws, S

(* The scores that are computed have their types, and lie between what they    *)
(* average.                                                                   *)
LEMMA ComputedScores ==
  ASSUME NEW e, WellAnswered(e), NEW w \in WeightsIn(evals[e].version), NEW without
  PROVE  /\ ComputeScores(w, e, without) \in StoredScores(evals[e].version)
         /\ Under(e) = without /\ ScoredUnder(e).weights = w =>
              EvaluationBetween(e, ComputeScores(w, e, without))
<1> DEFINE numbers == SectionNumbers(evals[e].version)
           averages == Averages(w, e, numbers, without)
           scores == ComputeScores(w, e, without)
<1>1. /\ DOMAIN averages = {n \in numbers : ScoredKpis(e, n, without) # {}}
      /\ averages \in [DOMAIN averages -> Int]
      /\ \A n \in DOMAIN averages : averages[n] = Average(w, e, ScoredKpis(e, n, without))
  BY AveragesOfSections
<1>2. /\ scores.global = GlobalScore(w, averages)
      /\ scores = [global |-> scores.global, sections |-> scores.sections]
      /\ scores.sections = [n \in numbers |->
           IF n \in DOMAIN averages
           THEN [avg |-> averages[n], critical |-> averages[n] <= 100 * CRITICAL_THRESHOLD]
           ELSE [avg |-> 0, critical |-> FALSE]]
  BY DEF ComputeScores, ScoresFrom
<1>3. numbers = DOMAIN w.sections
  BY WeightsAre
<1>4. \A n : /\ ScoredKpis(e, n, without) \subseteq Answered(e)
             /\ Between(Average(w, e, ScoredKpis(e, n, without)),
                        {100 * ScoreOf(e, k) :
                           k \in {j \in ScoredKpis(e, n, without) : w.kpis[j] > 0}})
  <2>1. \A n : ScoredKpis(e, n, without) \subseteq Answered(e)
    BY DEF ScoredKpis
  <2> QED BY <2>1, AverageOfAnswers
<1> HIDE DEF numbers, averages, scores
<1>5. /\ GlobalScore(w, averages) \in Int
      /\ Between(GlobalScore(w, averages),
                 {averages[n] : n \in {m \in DOMAIN averages : w.sections[m] > 0}})
  <2>1. DOMAIN averages \subseteq SectionNumbers(evals[e].version)
    BY <1>1 DEF numbers
  <2> QED BY <1>1, <2>1, GlobalOfAverages DEF WellAnswered
<1>6. scores \in StoredScores(evals[e].version)
  <2>1. scores.sections \in [numbers -> [avg : Int, critical : BOOLEAN]]
    BY <1>1, <1>2
  <2> QED BY <1>2, <1>5, <2>1 DEF StoredScores, numbers
<1>7. ASSUME Under(e) = without, ScoredUnder(e).weights = w PROVE EvaluationBetween(e, scores)
  <2> DEFINE scored == [n \in DOMAIN w.sections |-> ScoredKpis(e, n, Under(e))]
  <2>1. \A n \in numbers : scored[n] = ScoredKpis(e, n, without)
    BY <1>3, <1>7
  <2> HIDE DEF scored
  <2>2. ASSUME NEW n \in numbers
        PROVE  /\ scored[n] = {} => scores.sections[n] = [avg |-> 0, critical |-> FALSE]
               /\ Between(scores.sections[n].avg,
                     {100 * ScoreOf(e, k) : k \in {j \in scored[n] : w.kpis[j] > 0}})
    <3>1. CASE scored[n] = {}
      <4>1. {100 * ScoreOf(e, k) : k \in {j \in scored[n] : w.kpis[j] > 0}} = {}
        BY <3>1
      <4> QED BY <1>1, <1>2, <2>1, <3>1, <4>1 DEF Between
    <3>2. CASE scored[n] # {}
      <4>1. scores.sections[n].avg = Average(w, e, scored[n])
        BY <1>1, <1>2, <2>1, <3>2
      <4> QED BY <1>4, <2>1, <3>2, <4>1
    <3> QED BY <3>1, <3>2
  <2>3. {scores.sections[n].avg : n \in {m \in numbers : scored[m] # {} /\ w.sections[m] > 0}}
          = {averages[n] : n \in {m \in DOMAIN averages : w.sections[m] > 0}}
    <3>1. \A m \in numbers : scored[m] # {} <=> m \in DOMAIN averages
      BY <1>1, <2>1
    <3>2. DOMAIN averages \subseteq numbers
      BY <1>1
    <3>3. \A m \in DOMAIN averages : scores.sections[m].avg = averages[m]
      BY <1>2, <3>2
    <3> QED BY <3>1, <3>2, <3>3
  <2>4. Between(scores.global, {scores.sections[n].avg :
                  n \in {m \in numbers : scored[m] # {} /\ w.sections[m] > 0}})
    BY <1>2, <1>5, <2>3
  <2> QED BY <1>3, <1>7, <2>2, <2>4 DEF EvaluationBetween, scored
<1> QED BY <1>6, <1>7 DEF scores

-----------------------------------------------------------------------------
(* Types. *)

(* The largest of some bounded naturals is one of them. *)
LEMMA MaxIn ==
  ASSUME NEW S, S \subseteq Nat, S # {}, NEW b \in Nat, \A n \in S : n <= b
  PROVE  Max(S) \in S /\ \A n \in S : n <= Max(S)
<1> DEFINE Bounds == {m \in Nat : \A n \in S : n <= m}
<1>1. PICK m \in Bounds : \A c \in Bounds : m <= c
  <2>1. Bounds \subseteq Nat /\ b \in Bounds
    OBVIOUS
  <2> HIDE DEF Bounds
  <2> QED BY <2>1, Least
<1>2. m \in Nat /\ \A n \in S : n <= m
  BY <1>1
<1>3. m \in S
  <2> SUFFICES ASSUME m \notin S PROVE FALSE
    OBVIOUS
  <2>1. \A n \in S : n \in Nat /\ n <= m /\ n # m
    BY <1>2
  <2>2. PICK n \in S : TRUE
    OBVIOUS
  <2>3. n \in Nat /\ n < m
    BY <1>2, <2>1
  <2>4. m > 0 /\ m - 1 \in Nat
    BY <1>2, <2>3
  <2>5. \A i \in S : i <= m - 1
    BY <1>2, <2>1
  <2>6. m - 1 \in Bounds
    BY <2>4, <2>5
  <2> HIDE DEF Bounds
  <2>7. m <= m - 1
    BY <1>1, <2>6
  <2> QED BY <1>2, <2>7
<1>4. \E x \in S : \A y \in S : x >= y
  BY <1>2, <1>3
<1>5. Max(S) \in S /\ \A y \in S : Max(S) >= y
  BY <1>4, Zenon DEF Max
<1> QED BY <1>5

(* A function from 1 to n is a sequence of its own values. *)
LEMMA SequenceOf ==
  ASSUME NEW s, NEW n \in Nat, s = [i \in 1..n |-> s[i]]
  PROVE  s \in Seq(ToSet(s)) /\ Len(s) = n /\ DOMAIN s = 1..n
<1>1. DOMAIN s = 1..n
  OBVIOUS
<1>2. \A i \in 1..n : s[i] \in ToSet(s)
  BY <1>1 DEF ToSet
<1>3. s \in [1..n -> ToSet(s)]
  BY <1>2
<1> HIDE DEF ToSet
<1> QED BY <1>1, <1>3

(* A sequence is a function from 1 to its length. *)
LEMMA SequenceIs ==
  ASSUME NEW s, s \in Seq(ToSet(s))
  PROVE  /\ Len(s) \in Nat /\ DOMAIN s = 1..Len(s)
         /\ s = [i \in 1..Len(s) |-> s[i]]
  OBVIOUS

(* What is appended comes last. *)
LEMMA AppendIs ==
  ASSUME NEW S, NEW s \in Seq(S), NEW x \in S
  PROVE  /\ Len(Append(s, x)) = Len(s) + 1 /\ DOMAIN Append(s, x) = 1..(Len(s) + 1)
         /\ Append(s, x) \in Seq(S)
         /\ \A i \in 1..Len(s) : Append(s, x)[i] = s[i]
         /\ Append(s, x)[Len(s) + 1] = x
<1>1. Append(s, x) \in Seq(S) /\ Len(Append(s, x)) = Len(s) + 1
  OBVIOUS
<1>2. \A i \in 1..Len(s) : Append(s, x)[i] = s[i]
  OBVIOUS
<1>3. Append(s, x)[Len(s) + 1] = x
  OBVIOUS
<1> QED BY <1>1, <1>2, <1>3

(* The evaluations are numbered from 1, and each is well answered. *)
LEMMA EvalsAre ==
  ASSUME TypeOK
  PROVE  /\ Len(evals) \in Nat /\ Evals = 1..Len(evals) /\ Len(under) = Len(evals)
         /\ \A e \in Evals : /\ WellAnswered(e) /\ evals[e].profile \in Profiles
                             /\ WeightsOf(e) \in WeightsIn(evals[e].version)
<1>1. Len(evals) \in Nat /\ Evals = 1..Len(evals) /\ Len(under) = Len(evals)
  BY SequenceIs DEF TypeOK, Evals
<1>2. \A e \in Evals : WellAnswered(e) /\ evals[e].profile \in Profiles
  BY DEF TypeOK, WellAnswered, Evaluations
<1>3. \A e \in Evals : WeightsOf(e) \in WeightsIn(evals[e].version)
  BY DEF TypeOK, WeightsOf
<1> QED BY <1>1, <1>2, <1>3

(* What is excluded for an evaluation is of the template. *)
LEMMA ExcludedTyped ==
  ASSUME NEW p \in Profiles, NEW v \in DOMAIN Template,
         excluded[p] \in [numbers : SUBSET AllNumbers, codes : SUBSET AllKpis]
  PROVE  ExpandExclusions(p, v) \in [sections : SUBSET AllNumbers, kpis : SUBSET AllKpis]
  BY DEF ExpandExclusions, AllNumbers, AllKpis, SectionNumbers, Kpis, KpisOf

(* What the types say of one evaluation, and of the columns beside. *)
Typed(e) == evals[e].version \in DOMAIN Template /\ evals[e] \in Evaluations(evals[e].version)
Exclusions == [numbers : SUBSET AllNumbers, codes : SUBSET AllKpis]
Unders == [without : [sections : SUBSET AllNumbers, kpis : SUBSET AllKpis],
           weights : AllWeights] \union {None}
WeightsTyped ==
  /\ weights \in [DOMAIN Template -> AllWeights]
  /\ \A v \in DOMAIN Template : weights[v] \in WeightsIn(v)
MeasuresTyped ==
  /\ measures \in Seq([eval : Evals, kpi : AllKpis, progress : Progress])
  /\ \A i \in DOMAIN measures : measures[i].kpi \in Kpis(evals[measures[i].eval].version)

(* The type invariant, in these parts. *)
LEMMA TypeParts ==
  TypeOK <=> /\ version \in DOMAIN Template
             /\ excluded \in [Profiles -> Exclusions]
             /\ evals \in Seq(ToSet(evals))
             /\ \A e \in Evals : Typed(e)
             /\ WeightsTyped
             /\ under \in Seq(Unders) /\ Len(under) = Len(evals)
             /\ MeasuresTyped
  BY DEF TypeOK, Typed, Exclusions, Unders, WeightsTyped, MeasuresTyped

(* Measures stay typed when evaluations are added and keep their versions.     *)
LEMMA MeasuresStay ==
  ASSUME MeasuresTyped, UNCHANGED measures, Evals \subseteq Evals',
         \A e \in Evals : evals'[e].version = evals[e].version
  PROVE  MeasuresTyped'
<1> DEFINE Kinds(es) == [eval : es, kpi : AllKpis, progress : Progress]
<1>1. measures \in Seq(Kinds(Evals)) /\ DOMAIN measures = 1..Len(measures)
  BY DEF MeasuresTyped
<1>2. \A i \in DOMAIN measures : measures[i] \in Kinds(Evals)
  <2> HIDE DEF Kinds
  <2> QED BY <1>1
<1>3. \A m \in Kinds(Evals) : m.eval \in Evals /\ m \in Kinds(Evals')
  OBVIOUS
<1>4. measures \in Seq(Kinds(Evals'))
  <2> HIDE DEF Kinds
  <2> QED BY <1>1, <1>2, <1>3
<1>5. \A i \in DOMAIN measures : measures[i].kpi \in Kpis(evals'[measures[i].eval].version)
  BY <1>2, <1>3 DEF MeasuresTyped
<1> QED BY <1>4, <1>5 DEF MeasuresTyped, AllKpis, Progress, Kpis

(* An evaluation that starts. *)
LEMMA CreateTyped ==
  ASSUME TypeOK, NEW p \in Profiles, CreateEvaluation(p)
  PROVE  /\ TypeOK'
         /\ \A e \in Evals : evals'[e] = evals[e] /\ under'[e] = under[e]
         /\ \A e \in Evals' \ Evals : evals'[e].status = "DRAFT"
<1> DEFINE new == [profile |-> p, version |-> version, status |-> "DRAFT",
                   answers |-> [k \in Kpis(version) |-> None], stored |-> None, at |-> 0]
           n == Len(evals)
<1>1. /\ evals' = Append(evals, new) /\ under' = Append(under, None)
      /\ UNCHANGED <<excluded, measures, version, weights>>
  BY DEF CreateEvaluation
<1>2. /\ n \in Nat /\ DOMAIN evals = 1..n /\ Len(under) = n
      /\ version \in DOMAIN Template /\ evals \in Seq(ToSet(evals)) /\ under \in Seq(Unders)
  BY SequenceIs, TypeParts
<1>3. /\ evals' = [i \in 1..(n + 1) |-> evals'[i]]
      /\ \A e \in 1..n : evals'[e] = evals[e]
      /\ evals'[n + 1] = new
  <2> HIDE DEF new
  <2> DEFINE S == ToSet(evals) \union {new}
  <2>1. evals \in Seq(S) /\ new \in S
    BY <1>2
  <2> HIDE DEF S
  <2>2. /\ Len(evals') = n + 1 /\ evals' \in Seq(S)
        /\ \A e \in 1..n : evals'[e] = evals[e]
        /\ evals'[n + 1] = new
    BY <1>1, <2>1, AppendIs
  <2> QED BY <2>2
<1>4. evals' \in Seq(ToSet(evals')) /\ Len(evals') = n + 1 /\ DOMAIN evals' = 1..(n + 1)
  <2> HIDE DEF n
  <2> QED BY <1>2, <1>3, SequenceOf
<1>5. /\ under' \in Seq(Unders) /\ Len(under') = n + 1
      /\ \A e \in 1..n : under'[e] = under[e]
  <2>1. None \in Unders
    BY DEF Unders
  <2> QED BY <1>1, <1>2, <2>1
<1>6. \A e \in 1..(n + 1) : e \in 1..n \/ e = n + 1
  BY <1>2
<1>7. new \in Evaluations(version)
  BY DEF Evaluations
<1> HIDE DEF n
<1>8. \A e \in 1..(n + 1) : Typed(e)'
  <2> TAKE e \in 1..(n + 1)
  <2>1. CASE e \in 1..n
    BY <1>2, <1>3, <2>1, TypeParts DEF Typed, Evals
  <2>2. CASE e = n + 1
    BY <1>2, <1>3, <1>7, <2>2 DEF Typed
  <2> QED BY <1>6, <2>1, <2>2
<1>9. MeasuresTyped'
  <2>1. \A e \in Evals : e \in Evals' /\ evals'[e] = evals[e]
    BY <1>2, <1>3, <1>4 DEF Evals
  <2> QED BY <1>1, <2>1, TypeParts, MeasuresStay
<1>10. TypeOK'
  BY <1>1, <1>2, <1>4, <1>5, <1>8, <1>9, TypeParts
  DEF Evals, TypeOK, Typed, Exclusions, Unders, WeightsTyped, MeasuresTyped
<1>11. \A e \in Evals' \ Evals : evals'[e].status = "DRAFT"
  BY <1>2, <1>3, <1>4, <1>6 DEF Evals
<1> QED BY <1>2, <1>3, <1>5, <1>10, <1>11 DEF Evals

(* An evaluation that is written again, in its place. *)
LEMMA WrittenTyped ==
  ASSUME TypeOK, NEW e \in Evals, NEW r \in Evaluations(evals[e].version),
         evals' = [evals EXCEPT ![e] = r], under' \in Seq(Unders), Len(under') = Len(under),
         UNCHANGED <<excluded, measures, version, weights>>
  PROVE  /\ TypeOK' /\ Evals' = Evals
         /\ evals'[e] = r
         /\ \A f \in Evals \ {e} : evals'[f] = evals[f]
<1> DEFINE n == Len(evals)
<1>1. /\ n \in Nat /\ Evals = 1..n /\ Len(under) = n /\ evals \in Seq(ToSet(evals))
      /\ evals = [i \in 1..n |-> evals[i]]
      /\ version \in DOMAIN Template /\ \A f \in Evals : Typed(f)
  BY SequenceIs, TypeParts DEF Evals
<1> HIDE DEF n
<1>2. /\ evals' = [i \in 1..n |-> evals'[i]]
      /\ evals'[e] = r
      /\ \A f \in Evals \ {e} : evals'[f] = evals[f]
  BY <1>1
<1>3. evals' \in Seq(ToSet(evals')) /\ Len(evals') = n /\ Evals' = 1..n
  <2>1. n \in Nat /\ evals' = [i \in 1..n |-> evals'[i]]
    BY <1>1, <1>2
  <2>2. evals' \in Seq(ToSet(evals')) /\ Len(evals') = n /\ DOMAIN evals' = 1..n
    BY <2>1, SequenceOf
  <2> QED BY <2>2 DEF Evals
<1>4. r.version = evals[e].version
  BY DEF Evaluations
<1>5. \A f \in 1..n : Typed(f)'
  <2> TAKE f \in 1..n
  <2>1. CASE f # e
    BY <1>1, <1>2, <2>1 DEF Typed
  <2>2. CASE f = e
    BY <1>1, <1>2, <1>4, <2>2 DEF Typed
  <2> QED BY <2>1, <2>2
<1>6. MeasuresTyped'
  <2>1. \A f \in Evals : evals'[f].version = evals[f].version
    BY <1>2, <1>4
  <2> QED BY <1>1, <1>3, <2>1, TypeParts, MeasuresStay
<1>7. TypeOK'
  BY <1>1, <1>3, <1>5, <1>6, TypeParts
     DEF TypeOK, Typed, Exclusions, Unders, WeightsTyped, MeasuresTyped
<1> QED BY <1>1, <1>2, <1>3, <1>7

(* What the types say of an evaluation, field by field. *)
LEMMA EvaluationFields ==
  ASSUME TypeOK, NEW e \in Evals
  PROVE  /\ evals[e].version \in DOMAIN Template
         /\ evals[e].profile \in Profiles
         /\ evals[e].status \in {"DRAFT", "IN_PROGRESS", "COMPLETED"}
         /\ evals[e].answers \in [Kpis(evals[e].version) -> Responses \union {None}]
         /\ evals[e].stored \in StoredScores(evals[e].version) \union {None}
         /\ evals[e].at \in Nat
         /\ evals[e] = [profile |-> evals[e].profile, version |-> evals[e].version,
                        status |-> evals[e].status, answers |-> evals[e].answers,
                        stored |-> evals[e].stored, at |-> evals[e].at]
<1>1. evals[e].version \in DOMAIN Template /\ evals[e] \in Evaluations(evals[e].version)
  BY DEF TypeOK
<1> QED BY <1>1 DEF Evaluations

(* A response that is written. *)
LEMMA UpsertTyped ==
  ASSUME TypeOK, NEW e \in Evals, NEW k \in Kpis(evals[e].version), NEW x \in Responses,
         UpsertResponse(e, k, x)
  PROVE  /\ TypeOK' /\ Evals' = Evals /\ evals'[e].status = "IN_PROGRESS"
         /\ \A f \in Evals \ {e} : evals'[f] = evals[f]
         /\ under' = under
<1> DEFINE r == [evals[e] EXCEPT !.answers[k] = x, !.status = "IN_PROGRESS"]
<1>1. /\ evals' = [evals EXCEPT ![e] = r]
      /\ UNCHANGED <<excluded, measures, version, weights, under>>
  BY DEF UpsertResponse
<1>2. r \in Evaluations(evals[e].version) /\ r.status = "IN_PROGRESS"
  <2>1. r = [profile |-> evals[e].profile, version |-> evals[e].version,
             status |-> "IN_PROGRESS", answers |-> [evals[e].answers EXCEPT ![k] = x],
             stored |-> evals[e].stored, at |-> evals[e].at]
    <3>1. PICK p, v, status, answers, stored, at :
            evals[e] = [profile |-> p, version |-> v, status |-> status, answers |-> answers,
                        stored |-> stored, at |-> at]
      <4> WITNESS evals[e].profile, evals[e].version, evals[e].status, evals[e].answers,
                  evals[e].stored, evals[e].at
      <4> QED BY EvaluationFields
    <3> DEFINE one == [evals[e] EXCEPT !.answers = [evals[e].answers EXCEPT ![k] = x]]
    <3>2. r = [one EXCEPT !.status = "IN_PROGRESS"]
      OBVIOUS
    <3>3. one = [profile |-> p, version |-> v, status |-> status,
                 answers |-> [evals[e].answers EXCEPT ![k] = x], stored |-> stored, at |-> at]
      BY <3>1
    <3> HIDE DEF one
    <3> QED BY <3>1, <3>2, <3>3
  <2>2. [evals[e].answers EXCEPT ![k] = x] \in [Kpis(evals[e].version) -> Responses \union {None}]
    BY EvaluationFields
  <2> HIDE DEF r
  <2> QED BY <2>1, <2>2, EvaluationFields DEF Evaluations
<1>3. under' \in Seq(Unders) /\ Len(under') = Len(under)
  BY <1>1, TypeParts
<1> HIDE DEF r
<1> QED BY <1>1, <1>2, <1>3, WrittenTyped

(* The number of the last completion is a natural. *)
LEMMA CompletionsAreNumbered ==
  ASSUME TypeOK, Evals # {}
  PROVE  LastCompletion \in Nat
<1> DEFINE at == [e \in Evals |-> evals[e].at]
           ats == {evals[e].at : e \in Evals}
<1>1. at \in [Evals -> Nat] /\ IsFiniteSet(Evals)
  <2>1. Len(evals) \in Nat /\ Evals = 1..Len(evals)
    BY EvalsAre
  <2>2. IsFiniteSet(Evals)
    BY <2>1, FS_Interval
  <2> QED BY <2>2, EvaluationFields
<1>2. SumFunction(at) \in Nat /\ \A e \in Evals : evals[e].at <= SumFunction(at)
  BY <1>1, SumAtLeast
<1>3. ats \subseteq Nat /\ ats # {} /\ \A n \in ats : n <= SumFunction(at)
  BY <1>2, EvaluationFields
<1> HIDE DEF ats, at
<1>4. Max(ats) \in ats
  BY <1>2, <1>3, MaxIn
<1> QED BY <1>3, <1>4 DEF LastCompletion, ats

(* A completion: it persists what it computes, under what it computes it.     *)
LEMMA CompleteTyped ==
  ASSUME TypeOK, NEW e \in Evals, Complete(e)
  PROVE  /\ TypeOK' /\ Evals' = Evals
         /\ \A f \in Evals \ {e} : evals'[f] = evals[f] /\ under'[f] = under[f]
         /\ evals'[e].version = evals[e].version /\ evals'[e].answers = evals[e].answers
         /\ evals'[e].stored = ScoresNow(e)
         /\ under'[e] = Terms(e)
<1> DEFINE stored == ScoresNow(e)
           r == [evals[e] EXCEPT !.status = "COMPLETED", !.at = LastCompletion + 1,
                                 !.stored = stored]
<1>1. /\ evals' = [evals EXCEPT ![e] = r] /\ under' = [under EXCEPT ![e] = Terms(e)]
      /\ UNCHANGED <<excluded, measures, version, weights>>
  BY DEF Complete
<1>2. stored \in StoredScores(evals[e].version)
  BY EvalsAre, ComputedScores DEF ScoresNow
<1>3. LastCompletion + 1 \in Nat
  BY CompletionsAreNumbered
<1>4. r \in Evaluations(evals[e].version)
  <2> HIDE DEF stored
  <2>1. r = [profile |-> evals[e].profile, version |-> evals[e].version,
             status |-> "COMPLETED", answers |-> evals[e].answers,
             stored |-> stored, at |-> LastCompletion + 1]
    <3>1. PICK p, v, status, answers, stored0, at :
            evals[e] = [profile |-> p, version |-> v, status |-> status, answers |-> answers,
                        stored |-> stored0, at |-> at]
      <4> WITNESS evals[e].profile, evals[e].version, evals[e].status, evals[e].answers,
                  evals[e].stored, evals[e].at
      <4> QED BY EvaluationFields
    <3> DEFINE one == [evals[e] EXCEPT !.status = "COMPLETED"]
               two == [one EXCEPT !.at = LastCompletion + 1]
    <3>2. r = [two EXCEPT !.stored = stored]
      OBVIOUS
    <3>3. one = [profile |-> p, version |-> v, status |-> "COMPLETED", answers |-> answers,
                 stored |-> stored0, at |-> at]
      BY <3>1
    <3> HIDE DEF one
    <3>4. two = [profile |-> p, version |-> v, status |-> "COMPLETED", answers |-> answers,
                 stored |-> stored0, at |-> LastCompletion + 1]
      BY <3>3
    <3> HIDE DEF two
    <3> QED BY <3>1, <3>2, <3>4
  <2> HIDE DEF r
  <2> QED BY <1>2, <1>3, <2>1, EvaluationFields DEF Evaluations
<1>5. Terms(e) \in Unders
  <2>1. evals[e].profile \in Profiles /\ evals[e].version \in DOMAIN Template
    BY EvaluationFields
  <2>2. excluded[evals[e].profile] \in Exclusions
    BY <2>1, TypeParts
  <2>3. ExcludedFor(e) \in [sections : SUBSET AllNumbers, kpis : SUBSET AllKpis]
    BY <2>1, <2>2, ExcludedTyped DEF ExcludedFor, Exclusions
  <2>4. WeightsOf(e) \in AllWeights
    BY <2>1, TypeParts DEF WeightsTyped, WeightsOf
  <2> QED BY <2>3, <2>4 DEF Terms, Unders
<1>6. /\ under' \in Seq(Unders) /\ Len(under') = Len(under) /\ under'[e] = Terms(e)
      /\ \A f \in Evals \ {e} : under'[f] = under[f]
  <2>1. under \in Seq(Unders) /\ DOMAIN under = Evals
    BY EvalsAre, TypeParts
  <2> QED BY <1>1, <1>5, <2>1
<1> HIDE DEF r, stored
<1>7. /\ TypeOK' /\ Evals' = Evals /\ evals'[e] = r
      /\ \A f \in Evals \ {e} : evals'[f] = evals[f]
  BY <1>1, <1>4, <1>6, WrittenTyped
<1>8. r.version = evals[e].version /\ r.answers = evals[e].answers /\ r.stored = stored
  BY EvaluationFields DEF r
<1> QED BY <1>6, <1>7, <1>8 DEF stored

-----------------------------------------------------------------------------
(* The scores an evaluation persists are those of its answers, under the       *)
(* exclusions and the weights of its completion, whatever changed since.      *)

(* The scores of some answers to a version. *)
ScoresOf(v, w, answers, without) ==
  LET kpis == Template[v].kpis
      scored(n) == {k \in {j \in Kpis(v) : answers[j] # None} \ without :
                      kpis[k].active /\ kpis[k].section = n}
      averages == [n \in {m \in SectionNumbers(v) : scored(m) # {}} |->
                     WeightedAverage(w.kpis, [k \in scored(n) |-> 100 * answers[k].score])]
  IN [global |-> WeightedAverage(w.sections, averages),
      sections |-> [n \in SectionNumbers(v) |->
        IF n \in DOMAIN averages
        THEN [avg |-> averages[n], critical |-> averages[n] <= 100 * CRITICAL_THRESHOLD]
        ELSE [avg |-> 0, critical |-> FALSE]]]

(* With given weights an evaluation is scored from its version and its answers *)
(* alone.                                                                     *)
LEMMA ScoresDepend ==
  ASSUME NEW e, NEW w, NEW without
  PROVE  /\ ComputeScores(w, e, without)
              = ScoresOf(evals[e].version, w, evals[e].answers, without)
         /\ ComputeScores(w, e, without)'
              = ScoresOf(evals'[e].version, w, evals'[e].answers, without)
<1>1. ComputeScores(w, e, without) = ScoresOf(evals[e].version, w, evals[e].answers, without)
  BY DEF ComputeScores, ScoresFrom, ScoresOf, Averages, GlobalScore, Average, ScoredKpis,
         Answered, ScoreOf
<1>2. ComputeScores(w, e, without)' = ScoresOf(evals'[e].version, w, evals'[e].answers, without)
  BY DEF ComputeScores, ScoresFrom, ScoresOf, Averages, GlobalScore, Average, ScoredKpis,
         Answered, ScoreOf, SectionNumbers, Kpis
<1> QED BY <1>1, <1>2

StoredFits ==
  \A e \in Evals : evals[e].status = "COMPLETED" =>
    /\ under[e].weights \in WeightsIn(evals[e].version)
    /\ \A without, w : without = under[e].without.kpis /\ w = under[e].weights =>
         evals[e].stored = ComputeScores(w, e, without)

Fits(e) ==
  evals[e].status = "COMPLETED" =>
    /\ under[e].weights \in WeightsIn(evals[e].version)
    /\ \A without, w : without = under[e].without.kpis /\ w = under[e].weights =>
         evals[e].stored = ScoresOf(evals[e].version, w, evals[e].answers, without)

(* What is persisted fits, evaluation by evaluation, in either state. *)
LEMMA StoredFitsEach ==
  /\ StoredFits <=> \A e \in Evals : Fits(e)
  /\ StoredFits' <=> \A e \in Evals' : Fits(e)'
<1>1. StoredFits <=> \A e \in Evals : Fits(e)
  BY ScoresDepend DEF StoredFits, Fits
<1>2. StoredFits' <=> \A e \in Evals' : Fits(e)'
  BY ScoresDepend DEF StoredFits, Fits
<1> QED BY <1>1, <1>2

ReadingsInv == TypeOK /\ StoredFits

(* Requests that leave the evaluations alone leave that too. *)
LEMMA OthersKeep ==
  ASSUME ReadingsInv, UNCHANGED <<evals, under>>, TypeOK'
  PROVE  ReadingsInv'
<1>1. Evals' = Evals /\ \A e \in Evals : Fits(e)' <=> Fits(e)
  BY DEF Evals, Fits
<1> QED BY <1>1, StoredFitsEach DEF ReadingsInv

(* An evaluation that starts has nothing persisted. *)
LEMMA CreateKeeps ==
  ASSUME ReadingsInv, NEW p \in Profiles, CreateEvaluation(p)
  PROVE  ReadingsInv'
<1>1. /\ TypeOK'
      /\ \A e \in Evals : evals'[e] = evals[e] /\ under'[e] = under[e]
      /\ \A e \in Evals' \ Evals : evals'[e].status = "DRAFT"
  BY CreateTyped DEF ReadingsInv
<1>2. \A e \in Evals' : Fits(e)'
  <2> TAKE e \in Evals'
  <2>1. CASE e \in Evals
    BY <1>1, <2>1, StoredFitsEach DEF ReadingsInv, Fits
  <2>2. CASE e \notin Evals
    BY <1>1, <2>2 DEF Fits
  <2> QED BY <2>1, <2>2
<1> QED BY <1>1, <1>2, StoredFitsEach DEF ReadingsInv

(* A response reopens what was completed, so nothing persisted is claimed of it. *)
LEMMA UpsertKeeps ==
  ASSUME ReadingsInv, NEW e \in Evals, NEW k \in Kpis(evals[e].version), NEW x \in Responses,
         UpsertResponse(e, k, x)
  PROVE  ReadingsInv'
<1>1. /\ TypeOK' /\ Evals' = Evals /\ evals'[e].status = "IN_PROGRESS"
      /\ \A f \in Evals \ {e} : evals'[f] = evals[f]
      /\ under' = under
  BY UpsertTyped DEF ReadingsInv
<1>2. \A f \in Evals : Fits(f)'
  <2> TAKE f \in Evals
  <2>1. CASE f = e
    BY <1>1, <2>1 DEF Fits
  <2>2. CASE f # e
    BY <1>1, <2>2, StoredFitsEach DEF ReadingsInv, Fits
  <2> QED BY <2>1, <2>2
<1> QED BY <1>1, <1>2, StoredFitsEach DEF ReadingsInv

(* A completion persists what it computes. *)
LEMMA CompleteKeeps ==
  ASSUME ReadingsInv, NEW e \in Evals, Complete(e)
  PROVE  ReadingsInv'
<1>1. /\ TypeOK' /\ Evals' = Evals
      /\ \A f \in Evals \ {e} : evals'[f] = evals[f] /\ under'[f] = under[f]
      /\ evals'[e].version = evals[e].version /\ evals'[e].answers = evals[e].answers
      /\ evals'[e].stored = ScoresNow(e)
      /\ under'[e] = Terms(e)
  BY CompleteTyped DEF ReadingsInv
<1>2. /\ WeightsOf(e) \in WeightsIn(evals[e].version)
      /\ ScoresNow(e) = ScoresOf(evals[e].version, WeightsOf(e), evals[e].answers,
                                 ExcludedFor(e).kpis)
      /\ under'[e].weights = WeightsOf(e) /\ under'[e].without = ExcludedFor(e)
  BY <1>1, EvalsAre, ScoresDepend DEF ReadingsInv, ScoresNow, Terms
<1>3. \A f \in Evals : Fits(f)'
  <2> TAKE f \in Evals
  <2>1. CASE f = e
    BY <1>1, <1>2, <2>1 DEF Fits
  <2>2. CASE f # e
    BY <1>1, <2>2, StoredFitsEach DEF ReadingsInv, Fits
  <2> QED BY <2>1, <2>2
<1> QED BY <1>1, <1>3, StoredFitsEach DEF ReadingsInv

(* What is excluded from now on touches nothing persisted. *)
LEMMA ApplicabilityKeeps ==
  ASSUME ReadingsInv, NEW p \in Profiles, NEW rows \in Rows, SetApplicability(p, rows)
  PROVE  ReadingsInv'
<1>1. rows \in Exclusions
  BY DEF Rows, Exclusions, AllNumbers, AllKpis
<1>2. /\ excluded' = [excluded EXCEPT ![p] = rows]
      /\ UNCHANGED <<evals, measures, version, weights, under>>
  BY DEF SetApplicability
<1>3. excluded' \in [Profiles -> Exclusions]
  BY <1>1, <1>2, TypeParts DEF ReadingsInv
<1>4. TypeOK'
  BY <1>2, <1>3 DEF ReadingsInv, TypeOK, Evals, Exclusions
<1> QED BY <1>2, <1>4, OthersKeep

(* Nor does a version that is published, *)
LEMMA PublishKeeps ==
  ASSUME ReadingsInv, PublishVersion
  PROVE  ReadingsInv'
<1>1. /\ version' \in DOMAIN Template
      /\ UNCHANGED <<evals, excluded, measures, weights, under>>
  BY DEF PublishVersion
<1>2. TypeOK'
  BY <1>1 DEF ReadingsInv, TypeOK, Evals
<1> QED BY <1>1, <1>2, OthersKeep

(* nor the weights that are provisioned again, *)
LEMMA WeightsKeep ==
  ASSUME ReadingsInv, WeightsTyped', UNCHANGED <<evals, excluded, measures, version, under>>
  PROVE  ReadingsInv'
<1>1. TypeOK'
  BY DEF ReadingsInv, TypeOK, Evals, WeightsTyped
<1> QED BY <1>1, OthersKeep

(* Weights of one version are replaced by weights of the same rows.           *)
LEMMA WeightsWritten ==
  ASSUME WeightsTyped, NEW v \in DOMAIN Template, NEW w \in WeightsIn(v),
         weights' = [weights EXCEPT ![v] = w]
  PROVE  WeightsTyped'
<1>1. w \in AllWeights
  BY DEF AllWeights
<1>2. weights' \in [DOMAIN Template -> AllWeights]
  BY <1>1 DEF WeightsTyped
<1>3. \A u \in DOMAIN Template : weights'[u] \in WeightsIn(u)
  BY DEF WeightsTyped
<1> QED BY <1>2, <1>3 DEF WeightsTyped, WeightsIn, AllWeights

(* Provisioning again keeps what the readings rest on.                        *)
LEMMA ReprovisionKeeps ==
  ASSUME ReadingsInv,
         \/ \E n \in SectionNumbers(1) : ReprovisionSection(n)
         \/ \E k \in Kpis(1) : ReprovisionKpi(k)
  PROVE  ReadingsInv'
<1>1. /\ WeightsTyped /\ 1 \in DOMAIN Template
      /\ weights[1] \in WeightsIn(1)
  BY TypeParts, DemoAssumption DEF ReadingsInv, WeightsTyped
<1>2. PICK sections, kpis : weights[1] = [sections |-> sections, kpis |-> kpis]
  BY <1>1 DEF WeightsIn
<1>3. sections \in [SectionNumbers(1) -> Nat] /\ kpis \in [Kpis(1) -> Nat]
  BY <1>1, <1>2 DEF WeightsIn
<1>4. CASE \E n \in SectionNumbers(1) : ReprovisionSection(n)
  <2>1. PICK n \in SectionNumbers(1) : ReprovisionSection(n)
    BY <1>4
  <2> DEFINE x == Provisioned.sections[n]
             w == [weights[1] EXCEPT !.sections = [weights[1].sections EXCEPT ![n] = x]]
  <2>2. x \in Nat
    BY <2>1, ProvisionedAssumption DEF ReprovisionSection
  <2>3. /\ weights' = [weights EXCEPT ![1] = w]
        /\ UNCHANGED <<evals, excluded, measures, version, under>>
    BY <2>1 DEF ReprovisionSection
  <2> HIDE DEF x
  <2>4. w = [sections |-> [sections EXCEPT ![n] = x], kpis |-> kpis]
    BY <1>2
  <2> HIDE DEF w
  <2>5. w \in WeightsIn(1)
    BY <1>3, <2>2, <2>4 DEF WeightsIn
  <2> QED BY <1>1, <2>3, <2>5, WeightsWritten, WeightsKeep
<1>5. CASE \E k \in Kpis(1) : ReprovisionKpi(k)
  <2>1. PICK k \in Kpis(1) : ReprovisionKpi(k)
    BY <1>5
  <2> DEFINE x == Provisioned.kpis[k].weight
             w == [weights[1] EXCEPT !.kpis = [weights[1].kpis EXCEPT ![k] = x]]
  <2>2. x \in Nat
    BY <2>1, ProvisionedAssumption DEF ReprovisionKpi
  <2>3. /\ weights' = [weights EXCEPT ![1] = w]
        /\ UNCHANGED <<evals, excluded, measures, version, under>>
    BY <2>1 DEF ReprovisionKpi
  <2> HIDE DEF x
  <2>4. w = [sections |-> sections, kpis |-> [kpis EXCEPT ![k] = x]]
    BY <1>2
  <2> HIDE DEF w
  <2>5. w \in WeightsIn(1)
    BY <1>3, <2>2, <2>4 DEF WeightsIn
  <2> QED BY <1>1, <2>3, <2>5, WeightsWritten, WeightsKeep
<1> QED BY <1>4, <1>5

(* nor a measure, *)
LEMMA MeasureKeeps ==
  ASSUME ReadingsInv, NEW e \in Evals, NEW k \in Kpis(evals[e].version), CreateMeasure(e, k)
  PROVE  ReadingsInv'
<1> DEFINE m == [eval |-> e, kpi |-> k, progress |-> 0]
           S == [eval : Evals, kpi : AllKpis, progress : Progress]
<1>1. /\ measures' = Append(measures, m)
      /\ UNCHANGED <<evals, excluded, version, weights, under>>
  BY DEF CreateMeasure
<1>2. m \in S /\ m.kpi \in Kpis(evals[m.eval].version)
  <2>1. k \in AllKpis
    BY EvaluationFields DEF AllKpis, ReadingsInv
  <2> QED BY <2>1 DEF Progress
<1>3. measures \in Seq(S) /\ Len(measures) \in Nat /\ DOMAIN measures = 1..Len(measures)
  BY TypeParts DEF ReadingsInv, MeasuresTyped
<1> HIDE DEF m, S
<1>4. /\ measures' \in Seq(S) /\ DOMAIN measures' = 1..(Len(measures) + 1)
      /\ \A i \in 1..Len(measures) : measures'[i] = measures[i]
      /\ measures'[Len(measures) + 1] = m
  BY <1>1, <1>2, <1>3, AppendIs
<1>5. \A i \in DOMAIN measures' : measures'[i].kpi \in Kpis(evals[measures'[i].eval].version)
  <2>1. \A i \in 1..(Len(measures) + 1) : i \in 1..Len(measures) \/ i = Len(measures) + 1
    BY <1>3
  <2> QED BY <1>2, <1>3, <1>4, <2>1, TypeParts DEF ReadingsInv, MeasuresTyped
<1>6. TypeOK'
  BY <1>1, <1>4, <1>5 DEF ReadingsInv, TypeOK, Evals, S
<1> QED BY <1>1, <1>6, OthersKeep

(* nor its progress. *)
LEMMA ProgressKeeps ==
  ASSUME ReadingsInv, NEW i \in DOMAIN measures, NEW progress \in Progress,
         UpdateProgress(i, progress)
  PROVE  ReadingsInv'
<1> DEFINE m == [measures[i] EXCEPT !.progress = progress]
           S == [eval : Evals, kpi : AllKpis, progress : Progress]
<1>1. /\ measures' = [measures EXCEPT ![i] = m]
      /\ UNCHANGED <<evals, excluded, version, weights, under>>
  BY DEF UpdateProgress
<1>2. measures \in Seq(S) /\ measures[i] \in S
  <2>1. measures \in Seq(S)
    BY TypeParts DEF ReadingsInv, MeasuresTyped
  <2> HIDE DEF S
  <2> QED BY <2>1
<1>3. m \in S /\ m.kpi = measures[i].kpi /\ m.eval = measures[i].eval
  BY <1>2
<1> HIDE DEF m, S
<1>4. /\ measures' \in Seq(S) /\ DOMAIN measures' = DOMAIN measures
      /\ \A j \in DOMAIN measures : measures'[j] = IF j = i THEN m ELSE measures[j]
  BY <1>1, <1>2, <1>3
<1>5. \A j \in DOMAIN measures' : measures'[j].kpi \in Kpis(evals[measures'[j].eval].version)
  BY <1>3, <1>4, TypeParts DEF ReadingsInv, MeasuresTyped
<1>6. TypeOK'
  BY <1>1, <1>4, <1>5 DEF ReadingsInv, TypeOK, Evals, S
<1> QED BY <1>1, <1>6, OthersKeep

(* The scores the demonstration data persist are those of their answers: they *)
(* answer every KPI, and every section has an active one.                     *)
LEMMA SeedIsScored ==
  ASSUME NEW answers \in [Kpis(1) -> Responses]
  PROVE  SeedScores(answers) = ScoresOf(1, FirstWeights(1), answers, {})
<1> DEFINE t == Template[1]
           scored(n) == {k \in {j \in Kpis(1) : answers[j] # None} \ {} :
                           t.kpis[k].active /\ t.kpis[k].section = n}
           w == FirstWeights(1)
           average(ks) == WeightedAverage(w.kpis, [k \in ks |-> 100 * answers[k].score])
<1>1. \A k \in Kpis(1) : answers[k] # None /\ t.kpis[k].active
  BY ReadingsAssumption, DemoAssumption DEF Responses, Kpis
<1>2. \A n : scored(n) = KpisOf(1, n)
  BY <1>1 DEF KpisOf
<1>3. \A n \in SectionNumbers(1) : scored(n) # {}
  <2>1. \A n \in SectionNumbers(1) : \E k \in Kpis(1) : t.kpis[k].section = n
    BY DemoAssumption DEF SectionNumbers, Kpis
  <2> QED BY <1>2, <2>1 DEF KpisOf
<1> DEFINE averages == [n \in {m \in SectionNumbers(1) : scored(m) # {}} |-> average(scored(n))]
           avg == [n \in SectionNumbers(1) |-> average(KpisOf(1, n))]
<1>4. averages = avg
  <2> HIDE DEF scored, average
  <2>1. {m \in SectionNumbers(1) : scored(m) # {}} = SectionNumbers(1)
    BY <1>3
  <2>2. \A n \in SectionNumbers(1) : average(scored(n)) = average(KpisOf(1, n))
    BY <1>2
  <2> QED BY <2>1, <2>2
<1>5. ScoresOf(1, FirstWeights(1), answers, {}) =
        [global |-> WeightedAverage(w.sections, averages),
         sections |-> [n \in SectionNumbers(1) |->
           IF n \in DOMAIN averages
           THEN [avg |-> averages[n], critical |-> averages[n] <= 100 * CRITICAL_THRESHOLD]
           ELSE [avg |-> 0, critical |-> FALSE]]]
  BY DEF ScoresOf
<1>6. SeedScores(answers) =
        [global |-> WeightedAverage(w.sections, avg),
         sections |-> [n \in SectionNumbers(1) |->
                         [avg |-> avg[n], critical |-> avg[n] <= 100 * CRITICAL_THRESHOLD]]]
  BY DEF SeedScores
<1>7. DOMAIN avg = SectionNumbers(1)
  OBVIOUS
<1> HIDE DEF averages, avg, t, w
<1> QED BY <1>4, <1>5, <1>6, <1>7 DEF w

(* The smallest of some naturals is one of them. *)
LEMMA MinIn ==
  ASSUME NEW S, S \subseteq Nat, S # {}
  PROVE  Min(S) \in S
<1>1. \E x \in S : \A y \in S : x <= y
  BY Least
<1> QED BY <1>1, Zenon DEF Min

(* The first evaluation of an organisation of the demonstration data.          *)
LEMMA FirstsAre ==
  ASSUME NEW p \in ToSet(DemoOwners)
  PROVE  FirstOf(p) \in DOMAIN DemoOwners
<1> DEFINE S == {i \in DOMAIN DemoOwners : DemoOwners[i] = p}
<1>1. DOMAIN DemoOwners \subseteq Nat
  BY DemoAssumption
<1>2. S \subseteq Nat /\ S # {}
  BY <1>1 DEF ToSet
<1> HIDE DEF S
<1>3. Min(S) \in S
  BY <1>2, MinIn
<1> QED BY <1>3 DEF FirstOf, S

(* The list the library makes of a finite set has each of its elements once.  *)
LEMMA ListIs ==
  ASSUME NEW S, IsFiniteSet(S)
  PROVE  /\ Cardinality(S) \in Nat
         /\ SetToSeq(S) \in [1..Cardinality(S) -> S]
         /\ DOMAIN SetToSeq(S) = 1..Cardinality(S) /\ Len(SetToSeq(S)) = Cardinality(S)
         /\ \A i, j \in 1..Cardinality(S) : SetToSeq(S)[i] = SetToSeq(S)[j] => i = j
         /\ \A x \in S : \E i \in 1..Cardinality(S) : SetToSeq(S)[i] = x
<1> DEFINE n == Cardinality(S)
<1>1. n \in Nat /\ ExistsBijection(1..n, S)
  BY FS_CardinalityType
<1>2. \E f \in [1..n -> S] : IsInjective(f)
  BY <1>1 DEF ExistsBijection, Bijection, Injection
<1>3. SetToSeq(S) \in [1..n -> S] /\ IsInjective(SetToSeq(S))
  BY <1>2, Zenon DEF SetToSeq
<1>4. SetToSeq(S) \in Injection(1..n, S)
  BY <1>3 DEF Injection
<1>5. Cardinality(1..n) = n
  BY <1>1, FS_Interval
<1>6. SetToSeq(S) \in Surjection(1..n, S)
  BY <1>4, <1>5, FS_Injection
<1>7. \A x \in S : \E i \in 1..n : SetToSeq(S)[i] = x
  BY <1>6 DEF Surjection
<1>8. \A i, j \in 1..n : SetToSeq(S)[i] = SetToSeq(S)[j] => i = j
  BY <1>3 DEF IsInjective
<1>9. DOMAIN SetToSeq(S) = 1..n /\ Len(SetToSeq(S)) = n
  BY <1>1, <1>3
<1> QED BY <1>1, <1>3, <1>7, <1>8, <1>9

(* The measures of the demonstration data are of KPI of first evaluations.      *)
LEMMA SeedMeasure ==
  ASSUME NEW answers, NEW plan \in SeedMeasures(answers)
  PROVE  /\ Len(plan) \in Nat /\ plan = [i \in 1..Len(plan) |-> plan[i]]
         /\ \A i \in DOMAIN plan :
              \E e \in {FirstOf(p) : p \in ToSet(DemoOwners)}, k \in Kpis(1), q \in Progress :
                plan[i] = [eval |-> e, kpi |-> k, progress |-> q]
<1> DEFINE firsts == {FirstOf(p) : p \in ToSet(DemoOwners)}
           ofList(list, progress) == [i \in DOMAIN list |->
             [eval |-> list[i][1], kpi |-> list[i][2], progress |-> progress[i]]]
<1>1. PICK planned \in SUBSET (firsts \X Kpis(1)) :
        \E progress \in [DOMAIN SetToSeq(planned) -> Progress] :
          plan = ofList(SetToSeq(planned), progress)
  BY DEF SeedMeasures
<1>2. IsFiniteSet(planned)
  <2>1. firsts \subseteq DOMAIN DemoOwners
    BY FirstsAre
  <2>2. IsFiniteSet(DOMAIN DemoOwners) /\ IsFiniteSet(Kpis(1))
    BY DemoAssumption, TemplateFinite, FS_Interval
  <2> HIDE DEF firsts
  <2>3. IsFiniteSet(firsts \X Kpis(1))
    BY <2>1, <2>2, FS_Subset, FS_Product
  <2> QED BY <2>3, FS_Subset
<1> DEFINE list == SetToSeq(planned)
           n == Cardinality(planned)
<1>3. n \in Nat /\ list \in [1..n -> planned] /\ DOMAIN list = 1..n
  BY <1>2, ListIs
<1>4. PICK progress \in [DOMAIN list -> Progress] : plan = ofList(list, progress)
  BY <1>1
<1> HIDE DEF firsts, list, n
<1>5. plan = [i \in 1..n |-> plan[i]] /\ DOMAIN plan = 1..n
  BY <1>3, <1>4
<1>6. Len(plan) = n
  BY <1>3, <1>5, SequenceOf
<1>7. ASSUME NEW i \in DOMAIN plan
      PROVE  \E e \in firsts, k \in Kpis(1), q \in Progress :
               plan[i] = [eval |-> e, kpi |-> k, progress |-> q]
  <2>1. i \in DOMAIN list /\ list[i] \in firsts \X Kpis(1)
    BY <1>1, <1>3, <1>5, <1>7
  <2>2. /\ list[i][1] \in firsts /\ list[i][2] \in Kpis(1) /\ progress[i] \in Progress
        /\ plan[i] = [eval |-> list[i][1], kpi |-> list[i][2], progress |-> progress[i]]
    BY <1>4, <2>1
  <2> QED BY <2>2
<1> QED BY <1>3, <1>5, <1>6, <1>7 DEF firsts

(* The weights a template starts with are naturals. *)
LEMMA FirstWeightsTyped ==
  ASSUME NEW v \in DOMAIN Template
  PROVE  FirstWeights(v) \in WeightsIn(v)
<1>1. Template[v].sections \in [SectionNumbers(v) -> Nat]
  BY TemplateAssumption DEF SectionNumbers
<1>2. \A k \in Kpis(v) : Template[v].kpis[k].weight \in Nat
  BY TemplateFinite
<1> QED BY <1>1, <1>2 DEF FirstWeights, WeightsIn

(* The demonstration data satisfy the invariant. *)
LEMMA InitReadings ==
  ASSUME Init
  PROVE  ReadingsInv
<1> DEFINE n == Len(DemoOwners)
<1>1. /\ n \in Nat /\ DOMAIN DemoOwners = 1..n
      /\ \A e \in 1..n : DemoOwners[e] \in Profiles
      /\ 1 \in DOMAIN Template
  BY DemoAssumption
<1>2. PICK scores \in DemoAnswers :
        /\ evals = [e \in DOMAIN scores |-> Seeded(DemoOwners[e], e, SeedAnswers(scores)[e])]
        /\ measures \in SeedMeasures(SeedAnswers(scores))
  BY DEF Init
<1> DEFINE answers == SeedAnswers(scores)
<1> HIDE DEF n
<1>3. /\ DOMAIN scores = 1..n
      /\ \A e \in 1..n : answers[e] \in [Kpis(1) -> Responses]
  <2>1. scores \in [1..n -> [Kpis(1) -> Scores]]
    BY <1>1, DemoAssumption DEF Kpis
  <2>2. \A e \in 1..n, k \in Kpis(1) :
          [score |-> scores[e][k], manual |-> FALSE] \in Responses
    BY <2>1 DEF Responses
  <2> QED BY <2>1, <2>2 DEF SeedAnswers
<1>4. /\ evals = [e \in 1..n |-> evals[e]] /\ Evals = 1..n
      /\ \A e \in 1..n : evals[e] = Seeded(DemoOwners[e], e, answers[e])
  BY <1>2, <1>3 DEF Evals
<1> HIDE DEF answers
<1>5. \A e \in 1..n : /\ evals[e].version = 1 /\ evals[e].answers = answers[e]
                      /\ evals[e].stored = SeedScores(answers[e])
  BY <1>4 DEF Seeded
<1> DEFINE first == FirstWeights(1)
<1>6. /\ first \in WeightsIn(1)
      /\ \A e \in 1..n : SeedScores(answers[e]) = ComputeScores(first, e, {})
  <2>1. first \in WeightsIn(1)
    BY <1>1, FirstWeightsTyped
  <2> QED BY <1>3, <1>5, <2>1, SeedIsScored, ScoresDepend
<1> HIDE DEF first
<1>7. \A e \in 1..n : SeedScores(answers[e]) \in StoredScores(1)
  <2> TAKE e \in 1..n
  <2>1. WellAnswered(e)
    BY <1>1, <1>3, <1>5 DEF WellAnswered
  <2>2. ComputeScores(first, e, {}) \in StoredScores(evals[e].version)
    BY <1>5, <1>6, <2>1, ComputedScores
  <2> QED BY <1>5, <1>6, <2>2
<1>8. \A e \in 1..n : Typed(e)
  <2> TAKE e \in 1..n
  <2>1. e \in Nat
    BY <1>1
  <2>2. answers[e] \in [Kpis(1) -> Responses \union {None}]
    BY <1>3
  <2>3. Seeded(DemoOwners[e], e, answers[e]) \in Evaluations(1)
    BY <1>1, <1>7, <2>1, <2>2 DEF Seeded, Evaluations
  <2> QED BY <1>1, <1>4, <1>5, <2>3 DEF Typed
<1>9. evals \in Seq(ToSet(evals)) /\ Len(evals) = n
  BY <1>1, <1>4, SequenceOf
<1> DEFINE terms == [without |-> [sections |-> {}, kpis |-> {}], weights |-> first]
<1>10. /\ under = [e \in 1..n |-> terms]
       /\ under \in Seq(Unders) /\ Len(under) = n
  <2>1. under = [e \in 1..n |-> terms]
    BY <1>1 DEF Init, first
  <2>2. terms \in Unders
    BY <1>1, <1>6 DEF Unders, AllWeights
  <2> HIDE DEF terms
  <2>3. under \in [1..n -> Unders]
    BY <2>1, <2>2
  <2>4. under \in Seq(Unders) /\ Len(under) = n
    BY <1>1, <2>3
  <2> QED BY <2>1, <2>4
<1>11. MeasuresTyped
  <2> DEFINE S == [eval : Evals, kpi : AllKpis, progress : Progress]
  <2>1. Len(measures) \in Nat /\ measures = [i \in 1..Len(measures) |-> measures[i]]
    BY <1>2, SeedMeasure DEF answers
  <2>2. ASSUME NEW i \in DOMAIN measures
        PROVE  measures[i] \in S /\ measures[i].kpi \in Kpis(evals[measures[i].eval].version)
    <3>1. PICK e \in {FirstOf(p) : p \in ToSet(DemoOwners)}, k \in Kpis(1), q \in Progress :
            measures[i] = [eval |-> e, kpi |-> k, progress |-> q]
      BY <1>2, SeedMeasure DEF answers
    <3>2. e \in 1..n
      BY <1>1, <3>1, FirstsAre
    <3>3. k \in AllKpis
      BY <1>1 DEF AllKpis
    <3> QED BY <1>4, <1>5, <3>1, <3>2, <3>3
  <2> HIDE DEF S
  <2>3. measures \in [1..Len(measures) -> S]
    BY <2>1, <2>2
  <2>4. measures \in Seq(S)
    BY <2>1, <2>3
  <2> QED BY <2>2, <2>4 DEF MeasuresTyped, S
<1>12. excluded \in [Profiles -> Exclusions] /\ version \in DOMAIN Template
  BY <1>1 DEF Init, Nothing, Exclusions
<1>13. WeightsTyped
  <2>1. weights = [v \in DOMAIN Template |-> FirstWeights(v)]
    BY DEF Init
  <2>2. \A v \in DOMAIN Template : FirstWeights(v) \in WeightsIn(v)
    BY FirstWeightsTyped
  <2> QED BY <2>1, <2>2 DEF WeightsTyped, AllWeights
<1>14. TypeOK
  BY <1>4, <1>8, <1>9, <1>10, <1>11, <1>12, <1>13, TypeParts
<1>15. \A e \in Evals : Fits(e)
  <2> TAKE e \in Evals
  <2>1. under[e].without.kpis = {} /\ under[e].weights = first
    BY <1>4, <1>10
  <2>2. evals[e].stored = ScoresOf(evals[e].version, first, evals[e].answers, {})
    BY <1>4, <1>5, <1>6, ScoresDepend
  <2>3. first \in WeightsIn(evals[e].version)
    BY <1>4, <1>5, <1>6
  <2> HIDE DEF terms
  <2> QED BY <2>1, <2>2, <2>3 DEF Fits
<1> QED BY <1>14, <1>15, StoredFitsEach DEF ReadingsInv

(* Every request keeps the invariant. *)
LEMMA ReadingsStep ==
  ASSUME ReadingsInv, [Next]_vars
  PROVE  ReadingsInv'
<1>1. CASE \E p \in Profiles : CreateEvaluation(p)
  BY <1>1, CreateKeeps
<1>2. CASE \E e \in Evals : \E k \in Kpis(evals[e].version), x \in Responses :
             UpsertResponse(e, k, x)
  BY <1>2, UpsertKeeps
<1>3. CASE \E e \in Evals : Complete(e)
  BY <1>3, CompleteKeeps
<1>4. CASE \E p \in Profiles, rows \in Rows : SetApplicability(p, rows)
  BY <1>4, ApplicabilityKeeps
<1>5. CASE PublishVersion
  BY <1>5, PublishKeeps
<1>6. CASE \E e \in Evals : \E k \in Kpis(evals[e].version) : CreateMeasure(e, k)
  BY <1>6, MeasureKeeps
<1>7. CASE \E i \in DOMAIN measures, progress \in Progress : UpdateProgress(i, progress)
  BY <1>7, ProgressKeeps
<1>8. CASE UNCHANGED vars
  <2>1. TypeOK' /\ UNCHANGED <<evals, under>>
    BY <1>8 DEF vars, ReadingsInv, TypeOK, Evals
  <2> QED BY <2>1, OthersKeep
<1>9. CASE \/ \E n \in SectionNumbers(1) : ReprovisionSection(n)
           \/ \E k \in Kpis(1) : ReprovisionKpi(k)
  BY <1>9, ReprovisionKeeps
<1> QED BY <1>1, <1>2, <1>3, <1>4, <1>5, <1>6, <1>7, <1>8, <1>9 DEF Next

(* The database of the readers is well typed: an evaluation answers the KPI of *)
(* its version and persists its sections, whatever version is published since, *)
(* and a measure is of a KPI of its evaluation.                               *)
THEOREM ReadingsTypeCorrect == Spec => []TypeOK
<1>1. Spec => []ReadingsInv
  BY InitReadings, ReadingsStep, PTL DEF Spec
<1>2. ReadingsInv => TypeOK
  BY DEF ReadingsInv
<1> QED BY <1>1, <1>2, PTL

(* What is answered for a score, and what has been persisted, is the same     *)
(* number: that of the answers, under the terms of the completion.            *)
LEMMA ResolvedScores ==
  ASSUME ReadingsInv, NEW e \in Evals
  PROVE  LET w == ScoredUnder(e).weights IN
         /\ w \in WeightsIn(evals[e].version)
         /\ ResolveScores(e) = ComputeScores(w, e, Under(e))
         /\ ResolveScores(e).global
              = GlobalScore(w, Averages(w, e, SectionNumbers(evals[e].version), Under(e)))
<1> DEFINE w == ScoredUnder(e).weights
<1>1. evals[e].status = "COMPLETED" =>
        /\ under[e].weights \in WeightsIn(evals[e].version)
        /\ evals[e].stored = ComputeScores(under[e].weights, e, under[e].without.kpis)
  BY DEF ReadingsInv, StoredFits
<1>2. w \in WeightsIn(evals[e].version)
  BY <1>1, EvalsAre DEF ReadingsInv, ScoredUnder, Terms
<1>3. ResolveScores(e) = ComputeScores(w, e, Under(e))
  BY <1>1 DEF ResolveScores, Under, ScoredUnder, Terms, ScoresNow
<1> HIDE DEF w
<1>4. ResolveScores(e).global
        = GlobalScore(w, Averages(w, e, SectionNumbers(evals[e].version), Under(e)))
  BY <1>3 DEF ComputeScores, ScoresFrom
<1> QED BY <1>2, <1>3, <1>4 DEF w

(* The evaluation readers take is one of the profile. *)
LEMMA LatestIs ==
  ASSUME ReadingsInv, NEW p, HasEvaluation(p)
  PROVE  Latest(p) \in Evals /\ Latest(p) \in Nat /\ evals[Latest(p)].profile = p
<1>1. Len(evals) \in Nat /\ Evals = 1..Len(evals)
  BY EvalsAre DEF ReadingsInv
<1>2. /\ EvalsOf(p) \subseteq Nat /\ EvalsOf(p) # {}
      /\ \A e \in EvalsOf(p) : e <= Len(evals)
  BY <1>1 DEF EvalsOf, HasEvaluation
<1>3. Max(EvalsOf(p)) \in EvalsOf(p)
  BY <1>1, <1>2, MaxIn
<1> QED BY <1>2, <1>3 DEF Latest, EvalsOf

(* There is an average when a section is scored. *)
LEMMA NoAverages ==
  ASSUME NEW w, NEW e, NEW without
  PROVE  Averages(w, e, SectionNumbers(evals[e].version), without) = <<>>
           <=> Unscored(e, without)
<1> DEFINE S == {m \in SectionNumbers(evals[e].version) : ScoredKpis(e, m, without) # {}}
           averages == [n \in S |-> Average(w, e, ScoredKpis(e, n, without))]
<1>1. Averages(w, e, SectionNumbers(evals[e].version), without) = averages
  BY DEF Averages
<1>2. S = {} <=> Unscored(e, without)
  BY DEF Unscored
<1>3. averages = <<>> <=> S = {}
  <2> HIDE DEF S
  <2>1. DOMAIN <<>> = {}
    OBVIOUS
  <2>2. averages = <<>> => S = {}
    BY <2>1
  <2>3. ASSUME S = {} PROVE averages = <<>>
    BY <2>3
  <2> QED BY <2>2, <2>3
<1> QED BY <1>1, <1>2, <1>3

(* A section that does not apply has no scored KPI, so leaving it out of what  *)
(* is averaged changes nothing.                                              *)
LEMMA DashboardAverages ==
  ASSUME ReadingsInv, NEW e \in Evals, NEW w
  PROVE  LET without == ExcludedFor(e)
             numbers == SectionNumbers(evals[e].version)
         IN Averages(w, e, numbers \ without.sections, without.kpis)
              = Averages(w, e, numbers, without.kpis)
<1> DEFINE without == ExcludedFor(e)
           numbers == SectionNumbers(evals[e].version)
<1>1. \A n \in without.sections : KpisOf(evals[e].version, n) \subseteq without.kpis
  BY DEF ExcludedFor, ExpandExclusions
<1>2. \A n \in without.sections : ScoredKpis(e, n, without.kpis) = {}
  BY <1>1 DEF ScoredKpis, Answered, KpisOf
<1>3. {m \in numbers \ without.sections : ScoredKpis(e, m, without.kpis) # {}}
        = {m \in numbers : ScoredKpis(e, m, without.kpis) # {}}
  BY <1>2
<1> HIDE DEF without, numbers
<1>4. Averages(w, e, numbers \ without.sections, without.kpis)
        = Averages(w, e, numbers, without.kpis)
  BY <1>3 DEF Averages
<1> QED BY <1>4 DEF without, numbers

(* The dashboard computes the score that was persisted. *)
LEMMA DashboardIsRight ==
  ReadingsInv => DashboardAgrees
<1> SUFFICES ASSUME ReadingsInv, NEW p \in Profiles, HasEvaluation(p), NEW e, e = Latest(p),
                    ScoredUnder(e) = Terms(e)
             PROVE  Dashboard(p).global = IF Unscored(e, ExcludedFor(e).kpis) THEN None
                                          ELSE ResolveScores(e).global
  BY DEF DashboardAgrees
<1>1. e \in Evals
  BY LatestIs
<1> DEFINE w == WeightsOf(e)
           averages == Averages(w, e, SectionNumbers(evals[e].version), ExcludedFor(e).kpis)
<1>2. Under(e) = ExcludedFor(e).kpis /\ ScoredUnder(e).weights = w
  BY DEF Under, Terms
<1>3. Dashboard(p).global = IF averages = <<>> THEN None ELSE GlobalScore(w, averages)
  BY <1>1, DashboardAverages DEF Dashboard
<1>4. averages = <<>> <=> Unscored(e, ExcludedFor(e).kpis)
  BY NoAverages
<1>5. ResolveScores(e).global = GlobalScore(w, averages)
  BY <1>1, <1>2, ResolvedScores
<1> HIDE DEF averages
<1> QED BY <1>3, <1>4, <1>5

(* So does the data set of the analytics. *)
LEMMA DatasetIsRight ==
  ReadingsInv => DatasetAgrees
<1> SUFFICES ASSUME ReadingsInv, NEW e \in Evals, Answered(e) \intersect Under(e) = {},
                    ScoredUnder(e).weights = WeightsOf(e)
             PROVE  EvaluationEntry(e).global = IF Unscored(e, {}) THEN None
                                                ELSE ResolveScores(e).global
  BY DEF DatasetAgrees
<1> DEFINE w == WeightsOf(e)
           numbers == SectionNumbers(evals[e].version)
           averages == Averages(w, e, numbers, {})
<1>1. \A n : ScoredKpis(e, n, Under(e)) = ScoredKpis(e, n, {})
  BY DEF ScoredKpis
<1>2. Averages(w, e, numbers, Under(e)) = averages
  BY <1>1 DEF Averages
<1>3. EvaluationEntry(e).global = IF averages = <<>> THEN None ELSE GlobalScore(w, averages)
  BY DEF EvaluationEntry
<1>4. averages = <<>> <=> Unscored(e, {})
  BY NoAverages
<1>5. ResolveScores(e).global = GlobalScore(w, averages)
  BY <1>2, ResolvedScores
<1> HIDE DEF averages
<1> QED BY <1>3, <1>4, <1>5

(* The two readers that compute scores again answer what the others persisted: *)
(* the dashboard unless exclusions or weights changed after the completion, as  *)
(* weights do when the organisation is provisioned again, and the data set of   *)
(* the analytics unless weights did or something that was answered is excluded. *)
THEOREM RecomputedScoresAgree == Spec => []RecomputedAgree
<1>1. Spec => []ReadingsInv
  BY InitReadings, ReadingsStep, PTL DEF Spec
<1>2. ReadingsInv => RecomputedAgree
  BY DashboardIsRight, DatasetIsRight DEF RecomputedAgree
<1> QED BY <1>1, <1>2, PTL

-----------------------------------------------------------------------------
(* The panel. *)

(* The products of f over the subsets of S, as the fold computes them. *)
AreProducts(products, f, S) ==
  products = [s \in SUBSET S |-> IF s = {} THEN 1 ELSE f[First(s)] * products[s \ {First(s)}]]
Products(f, S) == CHOOSE products : AreProducts(products, f, S)

(* What that fold computes, step by step. *)
LEMMA ProductsUnfold ==
  ASSUME NEW S, IsFiniteSet(S), NEW f \in [S -> Int]
  PROVE  /\ Products(f, S)[{}] = 1
         /\ \A s \in SUBSET S :
              s # {} => Products(f, S)[s] = f[First(s)] * Products(f, S)[Rest(s)]
<1> DEFINE step == [s \in SUBSET S |->
                      [x \in Int |-> IF s = {} THEN 1 ELSE f[First(s)] * x]]
<1>1. \A s \in SUBSET S : s # {} => f[First(s)] \in Int
  BY FirstIn
<1>2. step \in [SUBSET S -> [Int -> Int]]
  <2>1. \A x, y \in Int : x * y \in Int
    OBVIOUS
  <2> QED BY <1>1, <2>1
<1>3. FoldsOf(step, 1, Int, S) # {}
  <2> HIDE DEF step
  <2>1. 1 \in Int
    OBVIOUS
  <2> QED BY <1>2, <2>1, FoldsExist
<1>4. PICK t \in [SUBSET S -> Int] :
        \A s \in SUBSET S : t[s] = IF s = {} THEN 1 ELSE step[s][t[Rest(s)]]
  <2> HIDE DEF step
  <2> QED BY <1>3 DEF FoldsOf
<1>5. t = [s \in SUBSET S |-> IF s = {} THEN 1 ELSE f[First(s)] * t[s \ {First(s)}]]
  <2>1. \A s \in SUBSET S : s # {} => t[Rest(s)] \in Int
    BY <1>4, FirstIn DEF Rest
  <2>2. \A s \in SUBSET S : s # {} => step[s][t[Rest(s)]] = f[First(s)] * t[s \ {First(s)}]
    BY <2>1 DEF Rest
  <2> HIDE DEF step
  <2> QED BY <1>4, <2>2
<1>6. AreProducts(Products(f, S), f, S)
  BY <1>5 DEF Products, AreProducts
<1>7. {} \in SUBSET S
  OBVIOUS
<1> QED BY <1>6, <1>7 DEF Rest, AreProducts

(* Products and exact quotients of naturals. *)
LEMMA NatProducts ==
  ASSUME NEW x \in Nat, NEW y \in Nat
  PROVE  /\ x * y \in Nat /\ x * y = y * x
         /\ x > 0 /\ y > 0 => x * y > 0
         /\ y > 0 => (x * y) \div y = x
<1>1. x * y \in Nat /\ x * y = y * x
  OBVIOUS
<1>2. ASSUME x > 0, y > 0 PROVE x * y > 0
  <2>1. y <= x * y
    BY <1>2, ProductAtLeast
  <2> QED BY <1>1, <1>2, <2>1
<1>3. ASSUME y > 0 PROVE (x * y) \div y = x
  <2> DEFINE a == x * y
             k == a \div y
  <2>1. a \in Int
    OBVIOUS
  <2> HIDE DEF a
  <2>2. k \in Int /\ a % y \in 0 .. (y - 1) /\ a = y * k + (a % y)
    BY <1>3, <2>1
  <2>3. a % y \in Int /\ 0 <= a % y /\ a % y < y
    BY <2>2
  <2> DEFINE d == x - k
             b == a % y
  <2> HIDE DEF k, b
  <2>4. d \in Int /\ y * d = x * y - y * k
    BY <2>2
  <2> HIDE DEF d
  <2>5. y * d \in Int /\ 0 <= y * d /\ y * d < y
    BY <2>2, <2>3, <2>4 DEF a, b
  <2>6. ASSUME d >= 1 PROVE FALSE
    <3>1. 1 * y <= y * d
      BY <2>4, <2>6, ProductAtLeast
    <3> QED BY <2>5, <3>1
  <2>7. ASSUME d <= -1 PROVE FALSE
    <3>1. y * d <= y * (-1)
      <4>1. 1 * y <= y * (-d)
        BY <2>4, <2>7, ProductAtLeast
      <4> QED BY <2>4, <4>1
    <3> QED BY <1>3, <2>5, <3>1
  <2>8. d = 0
    BY <2>4, <2>6, <2>7
  <2> QED BY <2>2, <2>8 DEF d, k, a
<1> QED BY <1>1, <1>2, <1>3

(* What multiplies to the product of some positive numbers: each of them does. *)
LEMMA ProductDivides ==
  ASSUME NEW S, IsFiniteSet(S), NEW f \in [S -> Nat], \A i \in S : f[i] > 0,
         NEW product, product = Products(f, S)[S]
  PROVE  /\ product \in Nat /\ product > 0
         /\ \A i \in S : /\ product \div f[i] \in Nat /\ product \div f[i] > 0
                         /\ (product \div f[i]) * f[i] = product
<1> DEFINE P == Products(f, S)
           Good == {s \in SUBSET S : /\ P[s] \in Nat /\ P[s] > 0
                                     /\ \A i \in s : \E q \in Nat : P[s] = q * f[i]}
<1>0. f \in [S -> Int]
  OBVIOUS
<1>1. {} \in Good
  BY <1>0, ProductsUnfold
<1>2. ASSUME NEW s \in SUBSET S, s # {}, Rest(s) \in Good PROVE s \in Good
  <2>1. First(s) \in S
    BY <1>2, FirstIn
  <2>2. P[s] = f[First(s)] * P[Rest(s)]
    BY <1>0, <1>2, ProductsUnfold
  <2>3. P[Rest(s)] \in Nat /\ P[Rest(s)] > 0 /\ f[First(s)] \in Nat /\ f[First(s)] > 0
    BY <1>2, <2>1
  <2>4. \A i \in Rest(s) : \E q \in Nat : P[Rest(s)] = q * f[i]
    BY <1>2
  <2>5. \A i \in s : i = First(s) \/ i \in Rest(s)
    BY DEF Rest
  <2> HIDE DEF P
  <2>6. \A x, y \in Nat : x * y \in Nat /\ (x > 0 /\ y > 0 => x * y > 0) /\ x * y = y * x
    BY NatProducts
  <2>7. P[s] \in Nat /\ P[s] > 0
    BY <2>2, <2>3, <2>6
  <2>8. ASSUME NEW i \in s PROVE \E q \in Nat : P[s] = q * f[i]
    <3>1. CASE i = First(s)
      BY <2>2, <2>3, <2>6, <3>1
    <3>2. CASE i \in Rest(s)
      <4>1. PICK q \in Nat : P[Rest(s)] = q * f[i]
        BY <2>4, <3>2
      <4>2. f[i] \in Nat
        OBVIOUS
      <4>3. ASSUME NEW x \in Int, NEW y \in Int, NEW z \in Int
            PROVE  x * (y * z) = (x * y) * z
        OBVIOUS
      <4>4. P[s] = (f[First(s)] * q) * f[i]
        <5>1. P[s] = f[First(s)] * (q * f[i])
          BY <2>2, <4>1
        <5> QED BY <2>3, <4>2, <4>3, <5>1
      <4>5. f[First(s)] * q \in Nat
        BY <2>3, <2>6
      <4> QED BY <4>4, <4>5
    <3> QED BY <2>5, <3>1, <3>2
  <2> QED BY <1>2, <2>7, <2>8
<1>3. SUBSET S \subseteq Good
  <2> HIDE DEF Good
  <2> QED BY <1>1, <1>2, SubsetInduction
<1>4. S \in Good
  BY <1>3
<1>6. product \in Nat /\ product > 0 /\ \A i \in S : \E q \in Nat : product = q * f[i]
  <2> QED BY <1>4
<1>7. ASSUME NEW i \in S
      PROVE  /\ product \div f[i] \in Nat /\ product \div f[i] > 0
             /\ (product \div f[i]) * f[i] = product
  <2>1. PICK q \in Nat : product = q * f[i]
    BY <1>6
  <2>2. f[i] \in Nat /\ f[i] > 0
    OBVIOUS
  <2>4. product \div f[i] = q
    BY <2>1, <2>2, NatProducts
  <2>5. q # 0
    <3>1. 0 * f[i] = 0
      BY <2>2
    <3> QED BY <1>6, <2>1, <3>1
  <2> QED BY <2>1, <2>4, <2>5
<1> QED BY <1>6, <1>7

(* Some number is no more than the mean of all, and some no less.             *)
LEMMA MeanBetween ==
  ASSUME NEW S, IsFiniteSet(S), S # {}, NEW f \in [S -> Int]
  PROVE  /\ \E i \in S : Cardinality(S) * f[i] <= SumFunction(f)
         /\ \E i \in S : SumFunction(f) <= Cardinality(S) * f[i]
<1> DEFINE m == Cardinality(S)
           F == SumFunction(f)
           mf == [i \in S |-> m * f[i]]
<1>1. m \in Nat /\ m > 0
  BY FS_CardinalityType, FS_EmptySet
<1>2. F \in Int
  BY SumIsInt
<1> HIDE DEF m
<1>3. mf \in [S -> Int]
  <2>1. \A x \in Int : m * x \in Int
    BY <1>1
  <2> QED BY <2>1
<1>4. SumFunction(mf) = m * F
  BY <1>1, SumScaled
<1>5. ASSUME \A i \in S : F + 1 <= m * f[i] PROVE FALSE
  <2> DEFINE c == F + 1
             k == [i \in S |-> c]
  <2>1. c \in Int
    BY <1>2
  <2> HIDE DEF c
  <2>2. SumFunction(k) = c * m /\ k \in [S -> Int]
    BY <2>1, SumConstant DEF m
  <2>3. \A i \in S : k[i] <= mf[i]
    BY <1>5 DEF c
  <2> HIDE DEF k, mf
  <2>4. c * m <= m * F
    BY <1>3, <1>4, <2>2, <2>3, SumMonotone
  <2>5. c * m = m * F + m
    <3> HIDE DEF F
    <3> QED BY <1>1, <1>2 DEF c
  <2> HIDE DEF F
  <2>6. m * F \in Int
    BY <1>1, <1>2
  <2> QED BY <1>1, <2>4, <2>5, <2>6
<1>6. ASSUME \A i \in S : m * f[i] <= F - 1 PROVE FALSE
  <2> DEFINE c == F - 1
             k == [i \in S |-> c]
  <2>1. c \in Int
    BY <1>2
  <2> HIDE DEF c
  <2>2. SumFunction(k) = c * m /\ k \in [S -> Int]
    BY <2>1, SumConstant DEF m
  <2>3. \A i \in S : mf[i] <= k[i]
    BY <1>6 DEF c
  <2> HIDE DEF k, mf
  <2>4. m * F <= c * m
    BY <1>3, <1>4, <2>2, <2>3, SumMonotone
  <2>5. c * m = m * F - m
    <3> HIDE DEF F
    <3> QED BY <1>1, <1>2 DEF c
  <2> HIDE DEF F
  <2>6. m * F \in Int
    BY <1>1, <1>2
  <2> QED BY <1>1, <2>4, <2>5, <2>6
<1>7. \A i \in S : m * f[i] \in Int
  BY <1>3
<1> HIDE DEF F, mf
<1>8. /\ \E i \in S : m * f[i] <= F
      /\ \E i \in S : F <= m * f[i]
  BY <1>2, <1>5, <1>6, <1>7
<1> QED BY <1>8 DEF m, F

(* The compliance of some rows is no more than five tenths of a percent from   *)
(* one that is not above it, and from one that is not below.                  *)
LEMMA ComplianceBetween ==
  ASSUME NEW scored, IsFiniteSet(scored), scored # {},
         \A r \in scored : r.n \in Nat /\ r.n > 0 /\ r.sum \in Int
  PROVE  /\ Compliance(scored) \in Int
         /\ \E r \in scored : (10 * Compliance(scored) - 5) * r.n <= r.sum
         /\ \E r \in scored : r.sum <= (10 * Compliance(scored) + 5) * r.n
<1> DEFINE n == [r \in scored |-> r.n]
           common == Products(n, scored)[scored]
           g == [r \in scored |-> (common \div r.n) * r.sum]
           N == SumFunction(g)
           m == Cardinality(scored)
           c == Compliance(scored)
<1>1. Compliance(scored) = RoundDiv(N, common * m * 10)
  <2> HIDE DEF n, c, m
  <2>1. Compliance(scored) =
          LET product == Products([r \in scored |-> r.n], DOMAIN [r \in scored |-> r.n])
                           [DOMAIN [r \in scored |-> r.n]]
          IN IF scored = {} THEN 0
             ELSE RoundDiv(SumFunction([r \in scored |-> (product \div r.n) * r.sum]),
                           product * Cardinality(scored) * 10)
    BY DEF Compliance, FoldFunction, FoldFunctionOnSet, MapThenFoldSet, Products, AreProducts, First
  <2>2. DOMAIN [r \in scored |-> r.n] = scored
    OBVIOUS
  <2> QED BY <2>1, <2>2 DEF n, m
<1>2. /\ common \in Nat /\ common > 0
      /\ \A r \in scored : /\ common \div r.n \in Nat /\ common \div r.n > 0
                           /\ (common \div r.n) * r.n = common
  <2> DEFINE product == common
  <2>1. n \in [scored -> Nat] /\ \A r \in scored : n[r] > 0 /\ n[r] = r.n
    OBVIOUS
  <2> HIDE DEF n
  <2>2. /\ common \in Nat /\ common > 0
        /\ \A r \in scored : /\ common \div n[r] \in Nat /\ common \div n[r] > 0
                             /\ (common \div n[r]) * n[r] = common
    BY <2>1, ProductDivides
  <2> QED BY <2>1, <2>2
<1>3. m \in Nat /\ m > 0
  BY FS_CardinalityType, FS_EmptySet
<1> HIDE DEF common, m
<1>4. g \in [scored -> Int]
  <2>1. \A r \in scored : (common \div r.n) * r.sum \in Int
    BY <1>2
  <2> QED BY <2>1
<1>5. N \in Int
  BY <1>4, SumIsInt
<1> DEFINE A == common * m
<1>6. A \in Nat /\ A > 0
  BY <1>2, <1>3, NatProducts
<1> HIDE DEF A, N, c
<1>7. c \in Int /\ 2 * ((A * 10) * c) <= 2 * N + A * 10 /\ 2 * N < 2 * ((A * 10) * c) + A * 10
  <2>1. A * 10 \in Nat /\ A * 10 > 0
    BY <1>6
  <2>2. c = RoundDiv(N, A * 10)
    BY <1>1 DEF c, A
  <2> DEFINE b == A * 10
  <2> HIDE DEF b
  <2>3. c \in Int /\ 2 * (b * c) <= 2 * N + b /\ 2 * N < 2 * (b * c) + b
    BY <1>5, <2>1, <2>2, RoundDivNearest DEF b
  <2> QED BY <2>3 DEF b
<1>8. /\ A * (10 * c - 5) <= N
      /\ N < A * (10 * c + 5)
  <2>1. (A * 10) * c = 10 * (A * c) /\ A * c \in Int
    BY <1>6, <1>7
  <2>2. A * (10 * c - 5) = 10 * (A * c) - 5 * A /\ A * (10 * c + 5) = 10 * (A * c) + 5 * A
    BY <1>6, <1>7
  <2> DEFINE z == A * c
  <2> HIDE DEF z
  <2>3. z \in Int /\ 2 * (10 * z) <= 2 * N + A * 10 /\ 2 * N < 2 * (10 * z) + A * 10
    BY <1>7, <2>1 DEF z
  <2>4. 10 * z - 5 * A <= N /\ N < 10 * z + 5 * A
    BY <1>5, <1>6, <2>3
  <2> QED BY <2>2, <2>4 DEF z
<1>9. ASSUME NEW x \in Int, NEW r \in scored
      PROVE  /\ x * r.n \in Int
             /\ x * r.n >= r.sum + 1 => g[r] <= common * x - 1
             /\ x * r.n <= r.sum - 1 => g[r] >= common * x + 1
  <2> DEFINE q == common \div r.n
             d == x * r.n - r.sum
  <2>1. q \in Nat /\ q > 0 /\ q * r.n = common /\ r.n \in Nat /\ r.sum \in Int /\ g[r] = q * r.sum
    BY <1>2
  <2> HIDE DEF q, g
  <2>2. x * r.n \in Int /\ d \in Int
    BY <2>1
  <2>3. q * d = common * x - g[r]
    <3>1. q * d = q * (x * r.n) - q * r.sum
      BY <2>1, <2>2
    <3>2. q * (x * r.n) = (q * r.n) * x
      BY <2>1
    <3> QED BY <2>1, <3>1, <3>2
  <2>4. common * x \in Int /\ g[r] \in Int
    BY <1>2, <2>1
  <2> HIDE DEF d
  <2>5. ASSUME d >= 1 PROVE g[r] <= common * x - 1
    <3>1. 1 * q <= q * d
      BY <2>1, <2>2, <2>5, ProductAtLeast
    <3> QED BY <2>1, <2>3, <2>4, <3>1
  <2>6. ASSUME d <= -1 PROVE g[r] >= common * x + 1
    <3>1. 1 * q <= q * (-d)
      BY <2>1, <2>2, <2>6, ProductAtLeast
    <3>2. q * (-d) = -(q * d)
      BY <2>1, <2>2
    <3> QED BY <2>1, <2>3, <2>4, <3>1, <3>2
  <2> QED BY <2>1, <2>2, <2>5, <2>6 DEF d
<1>10. ASSUME NEW x \in Int
       PROVE  common * x \in Int /\ (common * x) * m = A * x
  BY <1>2, <1>3 DEF A
<1>11. ASSUME \A r \in scored : (10 * c - 5) * r.n >= r.sum + 1 PROVE FALSE
  <2> DEFINE x == 10 * c - 5
             k == common * x - 1
             ks == [r \in scored |-> k]
  <2>1. x \in Int
    BY <1>7
  <2>2. \A r \in scored : x * r.n >= r.sum + 1
    BY <1>11
  <2> HIDE DEF x
  <2>3. k \in Int /\ \A r \in scored : g[r] <= k
    BY <1>9, <1>10, <2>1, <2>2
  <2>4. k * m = A * x - m
    <3>1. \A y \in Int : (y - 1) * m = y * m - m
      BY <1>3
    <3> QED BY <1>10, <2>1, <3>1
  <2> HIDE DEF k
  <2>5. SumFunction(ks) = k * m /\ ks \in [scored -> Int] /\ \A r \in scored : g[r] <= ks[r]
    BY <2>3, SumConstant DEF m
  <2> HIDE DEF ks
  <2>6. N <= k * m
    <3> HIDE DEF g
    <3> QED BY <1>4, <2>5, SumMonotone DEF N
  <2>7. A * x <= N /\ A * x \in Int
    BY <1>6, <1>8, <2>1 DEF x
  <2> QED BY <1>3, <1>5, <2>4, <2>6, <2>7
<1>12. ASSUME \A r \in scored : (10 * c + 5) * r.n <= r.sum - 1 PROVE FALSE
  <2> DEFINE x == 10 * c + 5
             k == common * x + 1
             ks == [r \in scored |-> k]
  <2>1. x \in Int
    BY <1>7
  <2>2. \A r \in scored : x * r.n <= r.sum - 1
    BY <1>12
  <2> HIDE DEF x
  <2>3. k \in Int /\ \A r \in scored : g[r] >= k
    BY <1>9, <1>10, <2>1, <2>2
  <2>4. k * m = A * x + m
    <3>1. \A y \in Int : (y + 1) * m = y * m + m
      BY <1>3
    <3> QED BY <1>10, <2>1, <3>1
  <2> HIDE DEF k
  <2>5. SumFunction(ks) = k * m /\ ks \in [scored -> Int] /\ \A r \in scored : ks[r] <= g[r]
    <3>1. ks \in [scored -> Int] /\ \A r \in scored : ks[r] <= g[r]
      BY <1>4, <2>3
    <3> QED BY <2>3, <3>1, SumConstant DEF m
  <2> HIDE DEF ks
  <2>6. k * m <= N
    <3> HIDE DEF g
    <3> QED BY <1>4, <2>5, SumMonotone DEF N
  <2>7. N < A * x /\ A * x \in Int
    BY <1>6, <1>8, <2>1 DEF x
  <2> QED BY <1>3, <1>5, <2>4, <2>6, <2>7
<1>13. 10 * c - 5 \in Int /\ 10 * c + 5 \in Int
  BY <1>7
<1>14. /\ \E r \in scored : (10 * c - 5) * r.n <= r.sum
       /\ \E r \in scored : r.sum <= (10 * c + 5) * r.n
  <2>1. \A r \in scored : /\ (10 * c - 5) * r.n \in Int /\ (10 * c + 5) * r.n \in Int
                          /\ r.sum \in Int
    BY <1>9, <1>13
  <2> QED BY <1>11, <1>12, <2>1
<1> QED BY <1>7, <1>14 DEF c

(* What a function takes a finite set to is finite. *)
LEMMA ImageFinite ==
  ASSUME NEW S, IsFiniteSet(S), NEW f, DOMAIN f = S
  PROVE  IsFiniteSet({f[x] : x \in S})
<1> DEFINE T == {f[x] : x \in S}
           h == [x \in S |-> f[x]]
<1>1. h \in Surjection(S, T)
  BY DEF Surjection
<1> HIDE DEF T, h
<1>2. IsFiniteSet(T)
  BY <1>1, FS_Surjection
<1> QED BY <1>2 DEF T

(* The row of who has an evaluation shows the score of its summary. *)
LEMMA OwnRowIs ==
  ASSUME ReadingsInv, NEW p, HasEvaluation(p)
  PROVE  /\ OwnRow(p).eval \in Nat /\ OwnRow(p).profile = p
         /\ OwnRow(p).sum = ResolveScores(Latest(p)).global
         /\ OwnRow(p).sum \in Int /\ OwnRow(p).n = 1
<1>1. Latest(p) \in Evals /\ Latest(p) \in Nat
  BY LatestIs
<1>2. WellAnswered(Latest(p))
  BY <1>1, EvalsAre DEF ReadingsInv
<1>3. ResolveScores(Latest(p)).global \in Int
  BY <1>1, <1>2, ResolvedScores, ComputedScores DEF StoredScores
<1>4. OwnRow(p).sum = ResolveScores(Latest(p)).global
  BY DEF OwnRow, ResolveScores
<1> QED BY <1>1, <1>3, <1>4 DEF OwnRow

(* A consolidated row lies between the rows of the members. *)
LEMMA ConsolidatedIs ==
  ASSUME NEW p, NEW rows, IsFiniteSet(rows), rows # {}, \A r \in rows : r.sum \in Int
  PROVE  LET row == ConsolidatedRow(p, rows) IN
         /\ row.profile = p /\ row.sum \in Int /\ row.n \in Nat
         /\ \E r \in rows : row.n * r.sum <= row.sum
         /\ \E r \in rows : row.sum <= row.n * r.sum
<1> DEFINE f == [r \in rows |-> r.sum]
           row == ConsolidatedRow(p, rows)
<1>1. row.profile = p /\ row.sum = SumFunction(f) /\ row.n = Cardinality(rows)
  BY DEF ConsolidatedRow
<1>2. f \in [rows -> Int] /\ \A r \in rows : f[r] = r.sum
  OBVIOUS
<1> HIDE DEF f, row
<1>3. SumFunction(f) \in Int /\ Cardinality(rows) \in Nat
  BY <1>2, SumIsInt, FS_CardinalityType
<1>4. /\ \E r \in rows : Cardinality(rows) * f[r] <= SumFunction(f)
      /\ \E r \in rows : SumFunction(f) <= Cardinality(rows) * f[r]
  BY <1>2, MeanBetween
<1> QED BY <1>1, <1>2, <1>3, <1>4 DEF row

(* The rows of an association are finitely many, each with a score. *)
LEMMA MemberRows ==
  ASSUME ReadingsInv, NEW p
  PROVE  LET rows == {OwnRow(c) : c \in Evaluated(p)} IN
         IsFiniteSet(rows) /\ \A r \in rows : r.sum \in Int
<1> DEFINE f == [c \in Evaluated(p) |-> OwnRow(c)]
           rows == {OwnRow(c) : c \in Evaluated(p)}
<1>1. IsFiniteSet(Evaluated(p))
  BY ReadingsAssumption, FS_Subset DEF Evaluated, ChildrenOf
<1>2. rows = {f[c] : c \in Evaluated(p)} /\ DOMAIN f = Evaluated(p)
  OBVIOUS
<1>3. \A r \in rows : r.sum \in Int
  BY OwnRowIs DEF Evaluated
<1> HIDE DEF f
<1>4. IsFiniteSet(rows)
  BY <1>1, <1>2, ImageFinite
<1> QED BY <1>3, <1>4

(* What the panel shows of each organisation that has a score. *)
LEMMA RowsAre ==
  ASSUME ReadingsInv, NEW p
  PROVE  LET r == OrganisationRow(p) IN
         /\ r.n \in Nat /\ r.sum \in Int
         /\ r.n > 0 /\ r.eval = None =>
              Between(r.sum, {r.n * OwnRow(c).sum : c \in Evaluated(r.profile)})
<1> DEFINE r == OrganisationRow(p)
           rows == {OwnRow(c) : c \in Evaluated(p)}
<1>1. CASE HasEvaluation(p)
  <2>1. r = OwnRow(p)
    BY <1>1 DEF OrganisationRow
  <2> QED BY <1>1, <2>1, OwnRowIs, ReadingsAssumption
<1>2. CASE ~HasEvaluation(p) /\ p \in Level2 /\ Evaluated(p) # {}
  <2>1. r = ConsolidatedRow(p, rows)
    BY <1>2 DEF OrganisationRow
  <2>2. IsFiniteSet(rows) /\ rows # {} /\ \A x \in rows : x.sum \in Int
    BY <1>2, MemberRows
  <2> HIDE DEF r
  <2>3. /\ r.profile = p /\ r.sum \in Int /\ r.n \in Nat
        /\ \E x \in rows : r.n * x.sum <= r.sum
        /\ \E x \in rows : r.sum <= r.n * x.sum
    <3> HIDE DEF rows
    <3> QED BY <2>1, <2>2, ConsolidatedIs
  <2>4. Between(r.sum, {r.n * OwnRow(c).sum : c \in Evaluated(p)})
    <3> HIDE DEF Between
    <3>1. \E c \in Evaluated(p) : r.n * OwnRow(c).sum <= r.sum
      BY <2>3
    <3>2. \E c \in Evaluated(p) : r.sum <= r.n * OwnRow(c).sum
      BY <2>3
    <3> QED BY <3>1, <3>2 DEF Between
  <2> QED BY <2>3, <2>4 DEF r
<1>3. CASE ~HasEvaluation(p) /\ ~(p \in Level2 /\ Evaluated(p) # {})
  <2>1. r = NoRow(p)
    BY <1>3 DEF OrganisationRow
  <2> QED BY <2>1 DEF NoRow
<1> QED BY <1>1, <1>2, <1>3

(* The panel lies between its rows. *)
LEMMA PanelIsBetween ==
  ReadingsInv => PanelBetween(OrganisationsOverview)
<1> SUFFICES ASSUME ReadingsInv PROVE PanelBetween(OrganisationsOverview)
  OBVIOUS
<1> DEFINE rows == {OrganisationRow(p) : p \in TopLevel}
           scored == {r \in rows : r.n > 0}
           f == [p \in TopLevel |-> OrganisationRow(p)]
<1>1. /\ OrganisationsOverview.rows = rows
      /\ OrganisationsOverview.compliance = Compliance(scored)
  BY DEF OrganisationsOverview, OverviewOf, Quantify, MapThenSumSet, MapThenFoldSet
<1>2. \A r \in rows : /\ r.n \in Nat /\ r.sum \in Int
                      /\ r.n > 0 /\ r.eval = None =>
                           Between(r.sum, {r.n * OwnRow(c).sum : c \in Evaluated(r.profile)})
  BY RowsAre
<1>3. IsFiniteSet(scored)
  <2>1. IsFiniteSet(TopLevel)
    BY ReadingsAssumption, FS_Subset DEF TopLevel
  <2>2. rows = {f[p] : p \in TopLevel} /\ DOMAIN f = TopLevel
    OBVIOUS
  <2>3. IsFiniteSet(rows)
    <3> HIDE DEF f, rows
    <3> QED BY <2>1, <2>2, ImageFinite
  <2> HIDE DEF rows
  <2> QED BY <2>3, FS_Subset
<1>4. ASSUME scored # {}
      PROVE  /\ Compliance(scored) \in Int
             /\ \E r \in scored : (10 * Compliance(scored) - 5) * r.n <= r.sum
             /\ \E r \in scored : r.sum <= (10 * Compliance(scored) + 5) * r.n
  <2>1. \A r \in scored : r.n \in Nat /\ r.n > 0 /\ r.sum \in Int
    BY <1>2
  <2> HIDE DEF scored
  <2> QED BY <1>3, <1>4, <2>1, ComplianceBetween
<1>5. \A r \in scored : r \in rows /\ r.n > 0
  OBVIOUS
<1>6. scored = {r \in OrganisationsOverview.rows : r.n > 0}
  BY <1>1
<1> HIDE DEF rows, scored
<1>7. scored # {} =>
        /\ \E r \in scored : (10 * OrganisationsOverview.compliance - 5) * r.n <= r.sum
        /\ \E r \in scored : (10 * OrganisationsOverview.compliance + 5) * r.n >= r.sum
  BY <1>1, <1>4, <1>2, <1>5
<1>8. \A r \in scored : r.eval = None =>
        Between(r.sum, {r.n * OwnRow(c).sum : c \in Evaluated(r.profile)})
  BY <1>2, <1>5
<1> QED BY <1>6, <1>7, <1>8 DEF PanelBetween

(* Every average lies between what it averages, through the roundings: a       *)
(* section its answers, a global score its sections, the compliance of the     *)
(* panel its rows, and a consolidated row the members of the association; and  *)
(* a section without scored KPI is a zero that counts for nothing.            *)
THEOREM ScoresLieBetween == Spec => []ScoresBetween
<1>1. Spec => []ReadingsInv
  BY InitReadings, ReadingsStep, PTL DEF Spec
<1>2. ReadingsInv => ScoresBetween
  <2> SUFFICES ASSUME ReadingsInv PROVE ScoresBetween
    OBVIOUS
  <2>1. \A e \in Evals : EvaluationBetween(e, ResolveScores(e))
    BY EvalsAre, ResolvedScores, ComputedScores DEF ReadingsInv
  <2> QED BY <2>1, PanelIsBetween DEF ScoresBetween
<1> QED BY <1>1, <1>2, PTL

-----------------------------------------------------------------------------
(* What the readers of one tool answer. *)

(* Some element of a finite set has the largest number. *)
LEMMA LargestIn ==
  ASSUME NEW S, IsFiniteSet(S), S # {}, NEW number \in [S -> Int]
  PROVE  \E x \in S : \A y \in S : number[y] <= number[x]
<1> DEFINE Good == {s \in SUBSET S : s # {} => \E x \in s : \A y \in s : number[y] <= number[x]}
<1>1. {} \in Good
  OBVIOUS
<1>2. ASSUME NEW s \in SUBSET S, s # {}, Rest(s) \in Good PROVE s \in Good
  <2> DEFINE f == First(s)
  <2>1. f \in s /\ number[f] \in Int /\ \A y \in s : y = f \/ y \in Rest(s)
    BY <1>2, FirstIn DEF Rest
  <2> HIDE DEF f
  <2>2. CASE Rest(s) = {}
    BY <1>2, <2>1, <2>2
  <2>3. CASE Rest(s) # {}
    <3>1. PICK x \in Rest(s) : \A y \in Rest(s) : number[y] <= number[x]
      BY <1>2, <2>3
    <3>2. x \in s /\ \A y \in s : number[y] \in Int
      BY DEF Rest
    <3>3. CASE number[f] <= number[x]
      BY <1>2, <2>1, <3>1, <3>2, <3>3
    <3>4. CASE number[x] <= number[f]
      <4>1. \A y \in s : number[y] <= number[f]
        BY <2>1, <3>1, <3>2, <3>4
      <4> QED BY <1>2, <2>1, <4>1
    <3> QED BY <2>1, <3>2, <3>3, <3>4
  <2> QED BY <2>2, <2>3
<1>3. SUBSET S \subseteq Good
  <2> HIDE DEF Good
  <2> QED BY <1>1, <1>2, SubsetInduction
<1> QED BY <1>3

(* An order of a set by its numbers: the largest goes last. *)
InOrderOf(order, S, number) ==
  /\ order \in [1..Cardinality(S) -> S]
  /\ \A i, j \in DOMAIN order : i < j =>
       order[i] # order[j] /\ number[order[i]] <= number[order[j]]

(* So a finite set has an order, *)
LEMMA OrdersExist ==
  ASSUME NEW S, IsFiniteSet(S), NEW number \in [S -> Int]
  PROVE  \E order : InOrderOf(order, S, number)
<1> DEFINE Bad == {n \in Nat : \E s \in SUBSET S :
                      Cardinality(s) = n /\ ~ \E order : InOrderOf(order, s, number)}
<1>1. \A s \in SUBSET S : IsFiniteSet(s) /\ Cardinality(s) \in Nat
  BY SubsetSizes
<1>2. Bad = {}
  <2> SUFFICES ASSUME Bad # {} PROVE FALSE
    OBVIOUS
  <2>1. PICK n \in Bad : \A m \in Bad : n <= m
    <3>1. Bad \subseteq Nat
      OBVIOUS
    <3> HIDE DEF Bad
    <3> QED BY <3>1, Least
  <2>2. PICK s \in SUBSET S : Cardinality(s) = n /\ ~ \E order : InOrderOf(order, s, number)
    OBVIOUS
  <2>3. n \in Nat
    OBVIOUS
  <2> HIDE DEF Bad
  <2>4. s # {}
    <3>1. SUFFICES ASSUME s = {} PROVE FALSE
      OBVIOUS
    <3>2. Cardinality(s) = 0
      BY <3>1, FS_EmptySet
    <3> DEFINE none == [i \in 1..0 |-> i]
    <3>3. InOrderOf(none, s, number)
      BY <3>1, <3>2 DEF InOrderOf
    <3> QED BY <2>2, <3>3
  <2>5. PICK x \in s : \A y \in s : number[y] <= number[x]
    <3>1. [y \in s |-> number[y]] \in [s -> Int] /\ IsFiniteSet(s)
      BY <1>1
    <3>2. \E x \in s : \A y \in s : [z \in s |-> number[z]][y] <= [z \in s |-> number[z]][x]
      BY <2>4, <3>1, LargestIn
    <3> QED BY <3>2
  <2> DEFINE t == s \ {x}
  <2>6. t \in SUBSET S /\ Cardinality(t) = n - 1 /\ n - 1 \in Nat /\ n - 1 < n
    <3>1. Cardinality(t) = n - 1
      BY <1>1, <2>2, FS_RemoveElement
    <3>2. Cardinality(t) \in Nat
      BY <1>1
    <3> QED BY <2>3, <3>1, <3>2
  <2>7. PICK order : InOrderOf(order, t, number)
    <3>1. n - 1 \notin Bad
      BY <2>1, <2>3, <2>6
    <3> HIDE DEF t
    <3> QED BY <2>6, <3>1 DEF Bad
  <2> DEFINE all == [i \in 1..n |-> IF i = n THEN x ELSE order[i]]
  <2>8. /\ order \in [1..(n - 1) -> t]
        /\ \A i, j \in 1..(n - 1) : i < j =>
             order[i] # order[j] /\ number[order[i]] <= number[order[j]]
    <3> HIDE DEF t
    <3> QED BY <2>6, <2>7 DEF InOrderOf
  <2>9. \A i \in 1..n : i = n \/ (i \in 1..(n - 1) /\ i # n)
    BY <2>3
  <2>10. \A i \in 1..(n - 1) : order[i] \in s /\ order[i] # x
    BY <2>8
  <2>11. all \in [1..n -> s]
    BY <2>9, <2>10
  <2>12. ASSUME NEW i \in 1..n, NEW j \in 1..n, i < j
         PROVE  all[i] # all[j] /\ number[all[i]] <= number[all[j]]
    <3>1. i # n /\ i \in 1..(n - 1)
      BY <2>3, <2>9, <2>12
    <3>2. all[i] = order[i]
      BY <3>1
    <3>3. CASE j = n
      BY <2>5, <2>10, <3>1, <3>2, <3>3
    <3>4. CASE j # n
      <4>1. all[j] = order[j] /\ j \in 1..(n - 1)
        BY <2>9, <3>4
      <4> QED BY <2>8, <2>12, <3>1, <3>2, <4>1
    <3> QED BY <3>3, <3>4
  <2> HIDE DEF all
  <2>13. InOrderOf(all, s, number)
    BY <2>2, <2>11, <2>12 DEF InOrderOf
  <2> QED BY <2>2, <2>13
<1>3. Cardinality(S) \in Nat
  BY <1>1
<1> QED BY <1>2, <1>3

(* and the order the readers take lists all of it. *)
LEMMA InOrderIs ==
  ASSUME NEW S, IsFiniteSet(S), NEW number \in [S -> Int]
  PROVE  /\ InOrder(S, number) \in [1..Cardinality(S) -> S]
         /\ Len(InOrder(S, number)) = Cardinality(S)
         /\ DOMAIN InOrder(S, number) = 1..Cardinality(S)
<1>1. PICK order : InOrderOf(order, S, number)
  BY OrdersExist
<1>2. InOrder(S, number) \in [1..Cardinality(S) -> S]
  BY <1>1, Zenon DEF InOrder, InOrderOf
<1>3. Cardinality(S) \in Nat
  BY FS_CardinalityType
<1> QED BY <1>2, <1>3

(* As many as are taken to different things. *)
LEMMA ImageSize ==
  ASSUME NEW S, IsFiniteSet(S), NEW f, DOMAIN f = S, \A x, y \in S : f[x] = f[y] => x = y
  PROVE  IsFiniteSet({f[x] : x \in S}) /\ Cardinality({f[x] : x \in S}) = Cardinality(S)
<1> DEFINE T == {f[x] : x \in S}
           h == [x \in S |-> f[x]]
<1>1. h \in Surjection(S, T) /\ h \in Injection(S, T)
  BY DEF Surjection, Injection, IsInjective
<1> HIDE DEF T, h
<1>2. IsFiniteSet(T) /\ Cardinality(T) = Cardinality(S)
  BY <1>1, FS_Surjection
<1> QED BY <1>2 DEF T

(* The row of a profile in the panel. *)
LEMMA RowIsRight ==
  ASSUME ReadingsInv, NEW p \in Profiles, HasEvaluation(p)
  PROVE  RowAgrees(p, OrganisationRow(p), Summary(Latest(p)))
<1> DEFINE e == Latest(p)
           row == OrganisationRow(p)
           v == evals[e].version
<1>1. e \in Evals /\ v \in DOMAIN Template /\ WellAnswered(e)
  BY LatestIs, EvalsAre, EvaluationFields DEF ReadingsInv
<1>2. row = OwnRow(p)
  BY DEF OrganisationRow
<1>3. /\ row.eval = e /\ row.status = evals[e].status
      /\ row.sum = ResolveScores(e).global /\ row.sections = ResolveScores(e).sections
      /\ row.critical = Cardinality(Critical(e))
  <2> HIDE DEF e
  <2> QED BY <1>2 DEF OwnRow, ResolveScores, e
<1>4. Summary(e).scores = ResolveScores(e) /\ Summary(e).critical = Critical(e)
  BY DEF Summary
<1>5. ASSUME evals[e].status = "COMPLETED"
      PROVE  AssociationOverview(p).own.global = ResolveScores(e).global
  <2>1. evals[e].stored = ResolveScores(e)
    BY <1>5 DEF ResolveScores
  <2>2. ResolveScores(e) \in StoredScores(v)
    BY <1>1, ResolvedScores, ComputedScores
  <2>3. None \notin StoredScores(v)
    BY <1>1, ReadingsAssumption DEF StoredScores, SectionNumbers
  <2>4. evals[e].stored # None
    BY <2>1, <2>2, <2>3
  <2>5. AssociationOverview(p).own = ToolScore(p)
    BY DEF AssociationOverview
  <2>6. ToolScore(p).global = evals[e].stored.global
    BY <2>4 DEF ToolScore
  <2> QED BY <2>1, <2>5, <2>6
<1>6. Dashboard(p).alerts = Len(ImpactPriority(e))
  <2> DEFINE S == Critical(e) \ Measured(e)
             number == [k \in S |-> -Impact(e, k)]
  <2>1. \A k \in Critical(e) : k \in Kpis(v) /\ ScoreOf(e, k) \in Nat
    BY <1>1, AnswersHaveScores DEF Critical
  <2>2. IsFiniteSet(S)
    BY <1>1, <2>1, TemplateFinite, FS_Subset
  <2>3. \A k \in S : -Impact(e, k) \in Int
    <3> SUFFICES ASSUME NEW k \in S PROVE -Impact(e, k) \in Int
      OBVIOUS
    <3>1. WeightsOf(e).kpis[k] \in Nat /\ ScoreOf(e, k) \in Nat
      BY <1>1, <2>1, EvalsAre, WeightsAre DEF ReadingsInv
    <3>2. Impact(e, k) = WeightsOf(e).kpis[k] * (5 - ScoreOf(e, k))
      BY DEF Impact, CRITICAL_THRESHOLD
    <3>3. \A a \in Nat, b \in Int : -(a * b) \in Int
      OBVIOUS
    <3>4. 5 - ScoreOf(e, k) \in Int
      BY <3>1
    <3> QED BY <3>1, <3>2, <3>3, <3>4
  <2>4. number \in [S -> Int]
    BY <2>3
  <2>5. Dashboard(p).alerts = Cardinality(S)
    BY DEF Dashboard
  <2>6. ImpactPriority(e) = InOrder(S, number)
    BY DEF ImpactPriority
  <2> HIDE DEF S, number
  <2> QED BY <2>2, <2>4, <2>5, <2>6, InOrderIs
<1>7. ASSUME evals[e].status # "COMPLETED", NEW n
      PROVE  ScoredKpis(e, n, Under(e)) \subseteq EvaluationPayload(e).applicable
  <2> DEFINE without == ExcludedFor(e)
  <2>1. Under(e) = without.kpis
    BY <1>7 DEF Under, ScoredUnder, Terms
  <2>2. \A i \in without.sections : KpisOf(v, i) \subseteq without.kpis
    BY DEF ExcludedFor, ExpandExclusions
  <2>3. EvaluationPayload(e).applicable =
          {k \in Kpis(v) : Template[v].kpis[k].section \notin without.sections
                           /\ k \notin without.kpis}
    BY DEF EvaluationPayload, Kpis
  <2>4. \A k \in ScoredKpis(e, n, Under(e)) : k \in Kpis(v) /\ k \notin Under(e)
    BY DEF ScoredKpis, Answered
  <2>5. \A k \in Kpis(v) : k \in KpisOf(v, Template[v].kpis[k].section)
    BY DEF KpisOf
  <2> HIDE DEF without
  <2> QED BY <2>1, <2>2, <2>3, <2>4, <2>5
<1> HIDE DEF e, row
<1> QED BY <1>3, <1>4, <1>5, <1>6, <1>7 DEF RowAgrees, e, row

(* The measures of an evaluation that are concluded, and what the plan of a     *)
(* profile says of them.                                                      *)
DoneOf(e) == {i \in MeasuresOf(e) : MeasureStatus(measures[i]) = "DONE"}
PlanRows(p, e) == {i \in DOMAIN ProfilePlan(p) : ProfilePlan(p)[i].eval = e}
DoneRows(p, e) == {i \in PlanRows(p, e) : ProfilePlan(p)[i].status = "DONE"}

(* They are finitely many. *)
LEMMA MeasuresFinite ==
  ASSUME ReadingsInv
  PROVE  \A e : /\ IsFiniteSet(MeasuresOf(e)) /\ IsFiniteSet(DoneOf(e))
               /\ DoneOf(e) \subseteq MeasuresOf(e)
<1> TAKE e
<1>1. Len(measures) \in Nat /\ DOMAIN measures = 1..Len(measures)
  BY TypeParts DEF ReadingsInv, MeasuresTyped
<1>2. IsFiniteSet(DOMAIN measures)
  BY <1>1, FS_Interval
<1>3. MeasuresOf(e) \subseteq DOMAIN measures /\ DoneOf(e) \subseteq MeasuresOf(e)
  BY DEF MeasuresOf, DoneOf
<1> QED BY <1>2, <1>3, FS_Subset

(* The plan of a profile has a row for each measure of its evaluations. *)
LEMMA RowsCounted ==
  ASSUME NEW p, NEW e \in EvalsOf(p)
  PROVE  PlanRows(p, e) = MeasuresOf(e) /\ DoneRows(p, e) = DoneOf(e)
<1>1. /\ DOMAIN ProfilePlan(p) = Planned(p)
      /\ \A i \in Planned(p) : /\ ProfilePlan(p)[i].eval = measures[i].eval
                               /\ ProfilePlan(p)[i].status = MeasureStatus(measures[i])
  BY DEF ProfilePlan
<1>2. \A i : i \in MeasuresOf(e) <=> i \in Planned(p) /\ measures[i].eval = e
  BY DEF Planned, MeasuresOf
<1>3. PlanRows(p, e) = MeasuresOf(e)
  BY <1>1, <1>2 DEF PlanRows
<1> QED BY <1>1, <1>2, <1>3 DEF DoneRows, DoneOf

(* What the history of a profile says of one of its evaluations. *)
LEMMA HistoryIs ==
  ASSUME ReadingsInv, NEW p, NEW h \in ToSet(EvaluationHistory(p))
  PROVE  /\ h.eval \in EvalsOf(p)
         /\ h.global = ResolveScores(h.eval).global
         /\ h.total = Cardinality(MeasuresOf(h.eval))
         /\ h.done = Cardinality(DoneOf(h.eval))
<1> DEFINE completed == {e \in EvalsOf(p) : evals[e].status = "COMPLETED"}
           number == [e \in completed |-> evals[e].at]
           order == InOrder(completed, number)
<1>1. Len(evals) \in Nat /\ Evals = 1..Len(evals)
  BY EvalsAre DEF ReadingsInv
<1>2. completed \subseteq Evals /\ IsFiniteSet(completed)
  <2>1. IsFiniteSet(Evals) /\ completed \subseteq Evals
    BY <1>1, FS_Interval DEF EvalsOf
  <2> QED BY <2>1, FS_Subset
<1>3. number \in [completed -> Int]
  <2>1. TypeOK
    BY DEF ReadingsInv
  <2>2. ASSUME NEW e \in completed PROVE evals[e].at \in Int
    <3>1. e \in Evals
      BY <1>2
    <3>2. evals[e].at \in Nat
      BY <2>1, <3>1, EvaluationFields
    <3> QED BY <3>2
  <2> HIDE DEF completed
  <2> QED BY <2>2
<1>4. order \in [1..Cardinality(completed) -> completed]
  <2> HIDE DEF completed, number
  <2> QED BY <1>2, <1>3, InOrderIs
<1>5. PICK i \in DOMAIN order :
        h = [eval |-> order[i], global |-> evals[order[i]].stored.global,
             total |-> Cardinality(MeasuresOf(order[i])),
             done |-> Quantify(MeasuresOf(order[i]),
                               LAMBDA m : MeasureStatus(measures[m]) = "DONE")]
  BY DEF EvaluationHistory, ToSet, Quantify
<1>6. /\ h.eval = order[i] /\ h.global = evals[order[i]].stored.global
      /\ h.total = Cardinality(MeasuresOf(order[i])) /\ h.done = Cardinality(DoneOf(order[i]))
  BY <1>5 DEF Quantify, DoneOf
<1>7. order[i] \in completed
  BY <1>4
<1> HIDE DEF order
<1>8. h.eval \in EvalsOf(p) /\ h.eval \in Evals /\ evals[h.eval].status = "COMPLETED"
  BY <1>2, <1>6, <1>7
<1>9. h.global = ResolveScores(h.eval).global
  BY <1>6, <1>8 DEF ResolveScores
<1> QED BY <1>6, <1>8, <1>9

(* The bar of a profile is done when all its measures are. *)
LEMMA GanttIs ==
  ASSUME NEW p, Planned(p) # {}
  PROVE  Gantt(p).status = "DONE" <=> \A i \in Planned(p) : MeasureStatus(measures[i]) = "DONE"
<1> DEFINE statuses == {MeasureStatus(measures[i]) : i \in Planned(p)}
<1>1. Gantt(p).status = IF statuses = {"DONE"} THEN "DONE"
                        ELSE IF statuses = {"PENDING"} THEN "PENDING" ELSE "IN_PROGRESS"
  BY DEF Gantt, MapThenSumSet, MapThenFoldSet
<1>2. statuses = {"DONE"} <=> \A i \in Planned(p) : MeasureStatus(measures[i]) = "DONE"
  BY DEF MeasureStatus
<1> HIDE DEF statuses
<1> QED BY <1>1, <1>2

(* The history of a profile agrees with its plan. *)
LEMMA HistoryIsRight ==
  ASSUME ReadingsInv, NEW p \in Profiles
  PROVE  HistoryAgrees(p, ToSet(EvaluationHistory(p)))
<1> DEFINE history == ToSet(EvaluationHistory(p))
<1>1. ASSUME NEW h \in history
      PROVE  LET rows == {i \in DOMAIN ProfilePlan(p) : ProfilePlan(p)[i].eval = h.eval} IN
             /\ h.global = ResolveScores(h.eval).global
             /\ Cardinality(rows) = h.total
             /\ Quantify(rows, LAMBDA i : ProfilePlan(p)[i].status = "DONE") = h.done
  <2>1. /\ h.eval \in EvalsOf(p) /\ h.global = ResolveScores(h.eval).global
        /\ h.total = Cardinality(MeasuresOf(h.eval)) /\ h.done = Cardinality(DoneOf(h.eval))
    BY <1>1, HistoryIs
  <2>2. /\ Cardinality(PlanRows(p, h.eval)) = h.total
        /\ Cardinality(DoneRows(p, h.eval)) = h.done
    BY <2>1, RowsCounted
  <2> QED BY <2>1, <2>2 DEF Quantify, PlanRows, DoneRows
<1>2. ASSUME EvalsOf(p) = {h.eval : h \in history}, Planned(p) # {}
      PROVE  Gantt(p).status = "DONE" <=> \A h \in history : h.done = h.total
  <2>1. ASSUME NEW h \in history
        PROVE  h.done = h.total
                 <=> \A i \in MeasuresOf(h.eval) : MeasureStatus(measures[i]) = "DONE"
    <3>1. /\ h.eval \in EvalsOf(p) /\ h.eval \in Evals
          /\ h.total = Cardinality(MeasuresOf(h.eval)) /\ h.done = Cardinality(DoneOf(h.eval))
      BY <2>1, HistoryIs DEF EvalsOf
    <3>2. IsFiniteSet(MeasuresOf(h.eval)) /\ DoneOf(h.eval) \subseteq MeasuresOf(h.eval)
      BY MeasuresFinite
    <3>3. h.done = h.total <=> DoneOf(h.eval) = MeasuresOf(h.eval)
      BY <3>1, <3>2, FS_Subset
    <3>4. DoneOf(h.eval) = MeasuresOf(h.eval)
            <=> \A i \in MeasuresOf(h.eval) : MeasureStatus(measures[i]) = "DONE"
      BY DEF DoneOf
    <3> QED BY <3>3, <3>4
  <2>2. \A m \in Planned(p) : \E h \in history : m \in MeasuresOf(h.eval)
    BY <1>2 DEF Planned, MeasuresOf
  <2>3. \A h \in history : MeasuresOf(h.eval) \subseteq Planned(p)
    BY <1>2 DEF Planned, MeasuresOf
  <2> HIDE DEF history
  <2>4. (\A i \in Planned(p) : MeasureStatus(measures[i]) = "DONE")
          <=> \A h \in history : h.done = h.total
    BY <2>1, <2>2, <2>3
  <2> QED BY <1>2, <2>4, GanttIs
<1> HIDE DEF history
<1>3. HistoryAgrees(p, history)
  BY <1>1, <1>2 DEF HistoryAgrees, Quantify
<1> QED BY <1>3 DEF history

(* The readers of one tool agree: the panel, the history and the overview of   *)
(* an association show the score of the summary, whatever was excluded or      *)
(* weighed otherwise since; the alerts are the KPI the plan ranks, the plan     *)
(* lists the measures its history counts, however many a KPI has, and its bar  *)
(* is done when all of them are.                                              *)
THEOREM ReadersTellTheSame == Spec => []ReadersAgree
<1>1. Spec => []ReadingsInv
  BY InitReadings, ReadingsStep, PTL DEF Spec
<1>2. ReadingsInv => ReadersAgree
  BY RowIsRight, HistoryIsRight DEF ReadersAgree
<1> QED BY <1>1, <1>2, PTL

-----------------------------------------------------------------------------
(* Counting. *)

(* A function of whole numbers that is the sum of two, place by place. *)
AddsUp(h, f, g, S) ==
  /\ f \in [S -> Int] /\ g \in [S -> Int] /\ h \in [S -> Int]
  /\ \A i \in S : h[i] = f[i] + g[i]

(* Its sum is the sum of theirs. *)
LEMMA SumPlus ==
  ASSUME NEW S, IsFiniteSet(S), NEW f, NEW g, NEW h, AddsUp(h, f, g, S)
  PROVE  SumFunction(h) = SumFunction(f) + SumFunction(g)
<1>0. /\ f \in [S -> Int] /\ g \in [S -> Int] /\ h \in [S -> Int]
      /\ \A i \in S : h[i] = f[i] + g[i]
  BY DEF AddsUp
<1> DEFINE F == Sums(f, S)
           G == Sums(g, S)
           H == Sums(h, S)
           Good == {s \in SUBSET S : F[s] \in Int /\ G[s] \in Int /\ H[s] = F[s] + G[s]}
<1>1. {} \in Good
  BY <1>0, SumsUnfold
<1>2. ASSUME NEW s \in SUBSET S, s # {}, Rest(s) \in Good PROVE s \in Good
  <2>1. First(s) \in S
    BY <1>2, FirstIn
  <2>2. /\ F[s] = f[First(s)] + F[Rest(s)]
        /\ G[s] = g[First(s)] + G[Rest(s)]
        /\ H[s] = h[First(s)] + H[Rest(s)]
    BY <1>0, <1>2, SumsUnfold
  <2>3. /\ F[Rest(s)] \in Int /\ G[Rest(s)] \in Int /\ H[Rest(s)] = F[Rest(s)] + G[Rest(s)]
        /\ f[First(s)] \in Int /\ g[First(s)] \in Int
        /\ h[First(s)] = f[First(s)] + g[First(s)]
    BY <1>0, <1>2, <2>1
  <2> HIDE DEF F, G, H
  <2> QED BY <2>2, <2>3
<1>3. SUBSET S \subseteq Good
  <2> HIDE DEF Good
  <2> QED BY <1>1, <1>2, SubsetInduction
<1>4. S \in Good
  BY <1>3
<1>5. SumFunction(f) = F[S] /\ SumFunction(g) = G[S] /\ SumFunction(h) = H[S]
  BY <1>0, SumIsLast
<1> QED BY <1>4, <1>5

(* A sum of equal terms. *)
LEMMA SumOfSame ==
  ASSUME NEW S, IsFiniteSet(S), NEW c \in Int, NEW f \in [S -> Int], \A i \in S : f[i] = c
  PROVE  SumFunction(f) = c * Cardinality(S)
<1>1. f = [i \in S |-> c]
  OBVIOUS
<1>2. SumFunction([i \in S |-> c]) = c * Cardinality(S)
  BY SumConstant
<1> QED BY <1>1, <1>2

(* A sum of ones and zeros counts the ones. *)
LEMMA SumCounts ==
  ASSUME NEW S, IsFiniteSet(S), NEW A \in SUBSET S, NEW f \in [S -> Int],
         \A i \in S : f[i] = IF i \in A THEN 1 ELSE 0
  PROVE  SumFunction(f) = Cardinality(A)
<1> DEFINE F == Sums(f, S)
           Good == {s \in SUBSET S : F[s] = Cardinality(s \intersect A)}
<1>1. {} \in Good
  <2>1. {} \intersect A = {}
    OBVIOUS
  <2>2. Cardinality({}) = 0
    BY FS_EmptySet
  <2> QED BY <2>1, <2>2, SumsUnfold
<1>2. ASSUME NEW s \in SUBSET S, s # {}, Rest(s) \in Good PROVE s \in Good
  <2> DEFINE a == First(s)
             t == Rest(s) \intersect A
  <2>1. a \in S /\ a \in s /\ a \notin Rest(s)
    BY <1>2, FirstIn DEF Rest
  <2>2. F[s] = f[a] + Cardinality(t)
    BY <1>2, SumsUnfold
  <2>3. IsFiniteSet(t) /\ Cardinality(t) \in Nat /\ a \notin t
    BY <2>1, SubsetSizes
  <2>4. CASE a \in A
    <3>1. s \intersect A = t \union {a}
      BY <2>1, <2>4 DEF Rest
    <3>2. Cardinality(t \union {a}) = Cardinality(t) + 1
      <4> HIDE DEF t, a
      <4> QED BY <2>3, FS_AddElement
    <3>3. f[a] = 1
      BY <2>1, <2>4
    <3> HIDE DEF F, t, a
    <3>4. F[s] = Cardinality(s \intersect A)
      <4>1. F[s] = Cardinality(t \union {a})
        BY <2>2, <2>3, <3>2, <3>3
      <4> QED BY <3>1, <4>1
    <3> QED BY <1>2, <3>4
  <2>5. CASE a \notin A
    <3>1. s \intersect A = t
      BY <2>1, <2>5 DEF Rest
    <3>2. f[a] = 0
      BY <2>1, <2>5
    <3> HIDE DEF F, t, a
    <3>3. F[s] = Cardinality(s \intersect A)
      BY <2>2, <2>3, <3>1, <3>2
    <3> QED BY <1>2, <3>3
  <2> QED BY <2>4, <2>5
<1>3. SUBSET S \subseteq Good
  <2> HIDE DEF Good
  <2> QED BY <1>1, <1>2, SubsetInduction
<1>4. F[S] = Cardinality(A) /\ SumFunction(f) = F[S]
  <2>1. F[S] = Cardinality(S \intersect A) /\ S \intersect A = A
    BY <1>3
  <2> QED BY <2>1, SumIsLast
<1> QED BY <1>4

(* Pairs of a relation are as many by the one as by the other. *)
LEMMA CountedBothWays ==
  ASSUME NEW S, IsFiniteSet(S), NEW K, IsFiniteSet(K), NEW R \in [S -> SUBSET K],
         NEW byS \in [S -> Int], NEW byK \in [K -> Int],
         \A s \in S : byS[s] = Cardinality(R[s]),
         \A k \in K : byK[k] = Cardinality({s \in S : k \in R[s]})
  PROVE  SumFunction(byS) = SumFunction(byK)
<1> DEFINE count(T) == [k \in K |-> Cardinality({s \in T : k \in R[s]})]
           B == Sums(byS, S)
           Good == {T \in SUBSET S : B[T] = SumFunction(count(T))}
<1>1. \A T \in SUBSET S : /\ count(T) \in [K -> Int]
                          /\ \A k \in K : count(T)[k] = Cardinality({s \in T : k \in R[s]})
  <2>1. ASSUME NEW T \in SUBSET S, NEW k \in K PROVE Cardinality({s \in T : k \in R[s]}) \in Int
    <3>1. {s \in T : k \in R[s]} \in SUBSET S
      OBVIOUS
    <3> QED BY <3>1, SubsetSizes
  <2> QED BY <2>1
<1>2. {} \in Good
  <2>1. count({}) = [k \in K |-> 0]
    <3>1. \A k \in K : {s \in {} : k \in R[s]} = {}
      OBVIOUS
    <3> QED BY <3>1, FS_EmptySet
  <2>2. SumFunction(count({})) = 0
    <3>1. count({}) \in [K -> Int] /\ \A k \in K : count({})[k] = 0
      BY <2>1
    <3>2. Cardinality(K) \in Nat
      BY FS_CardinalityType
    <3> HIDE DEF count
    <3>3. SumFunction(count({})) = 0 * Cardinality(K)
      BY <3>1, SumOfSame
    <3> QED BY <3>2, <3>3
  <2>3. B[{}] = 0
    BY SumsUnfold
  <2> QED BY <2>2, <2>3
<1>3. ASSUME NEW T \in SUBSET S, T # {}, Rest(T) \in Good PROVE T \in Good
  <2> DEFINE a == First(T)
             U == Rest(T)
             ones == [k \in K |-> IF k \in R[a] THEN 1 ELSE 0]
  <2>1. a \in S /\ a \in T /\ a \notin U /\ U \in SUBSET S /\ T = U \union {a}
    BY <1>3, FirstIn DEF Rest
  <2>2. B[T] = byS[a] + SumFunction(count(U))
    <3>1. B[T] = byS[a] + B[U]
      BY <1>3, SumsUnfold
    <3> QED BY <1>3, <3>1
  <2> HIDE DEF a, U, B
  <2>3. SumFunction(ones) = byS[a] /\ ones \in [K -> Int]
    <3>1. R[a] \in SUBSET K /\ ones \in [K -> Int]
      BY <2>1
    <3>2. \A k \in K : ones[k] = IF k \in R[a] THEN 1 ELSE 0
      OBVIOUS
    <3> HIDE DEF ones
    <3> QED BY <2>1, <3>1, <3>2, SumCounts
  <2>4. ASSUME NEW k \in K PROVE count(T)[k] = ones[k] + count(U)[k]
    <3> DEFINE now == {s \in T : k \in R[s]}
               before == {s \in U : k \in R[s]}
    <3>1. count(T)[k] = Cardinality(now) /\ count(U)[k] = Cardinality(before)
      BY <1>1, <2>1
    <3>2. IsFiniteSet(before) /\ Cardinality(before) \in Nat /\ a \notin before
      <4>1. before \in SUBSET S /\ a \notin before
        BY <2>1
      <4> QED BY <4>1, SubsetSizes
    <3>3. CASE k \in R[a]
      <4>1. now = before \union {a}
        BY <2>1, <3>3
      <4> HIDE DEF now, before
      <4>2. Cardinality(now) = Cardinality(before) + 1
        BY <3>2, <4>1, FS_AddElement
      <4> QED BY <3>1, <3>2, <3>3, <4>2
    <3>4. CASE k \notin R[a]
      <4>1. now = before
        BY <2>1, <3>4
      <4> HIDE DEF now, before
      <4> QED BY <3>1, <3>2, <3>4, <4>1
    <3> QED BY <3>3, <3>4
  <2>5. count(T) \in [K -> Int] /\ count(U) \in [K -> Int]
    BY <1>1, <2>1
  <2> HIDE DEF count, ones
  <2>6. SumFunction(count(T)) = SumFunction(ones) + SumFunction(count(U))
    <3>1. AddsUp(count(T), ones, count(U), K)
      BY <2>3, <2>4, <2>5 DEF AddsUp
    <3> QED BY <3>1, SumPlus
  <2> QED BY <2>2, <2>3, <2>6
<1>4. SUBSET S \subseteq Good
  <2> HIDE DEF Good
  <2> QED BY <1>2, <1>3, SubsetInduction
<1>5. B[S] = SumFunction(count(S)) /\ SumFunction(byS) = B[S]
  BY <1>4, SumIsLast
<1>6. count(S) = byK
  BY <1>1
<1> QED BY <1>5, <1>6

(* The parts of a set, by what each element is taken to, add up to it. *)
LEMMA PartsAddUp ==
  ASSUME NEW S, IsFiniteSet(S), NEW K, IsFiniteSet(K), NEW f \in [S -> K],
         NEW byK \in [K -> Int],
         \A k \in K : byK[k] = Cardinality({s \in S : f[s] = k})
  PROVE  SumFunction(byK) = Cardinality(S)
<1> DEFINE R == [s \in S |-> {f[s]}]
           ones == [s \in S |-> 1]
<1>1. R \in [S -> SUBSET K] /\ ones \in [S -> Int]
  OBVIOUS
<1>2. \A s \in S : ones[s] = Cardinality(R[s])
  BY FS_Singleton
<1>3. \A k \in K : byK[k] = Cardinality({s \in S : k \in R[s]})
  <2>1. ASSUME NEW k \in K PROVE {s \in S : f[s] = k} = {s \in S : k \in R[s]}
    OBVIOUS
  <2> QED BY <2>1
<1>4. \A s \in S : ones[s] = 1
  OBVIOUS
<1> HIDE DEF R, ones
<1>5. SumFunction(ones) = SumFunction(byK)
  BY <1>1, <1>2, <1>3, CountedBothWays
<1>6. SumFunction(ones) = 1 * Cardinality(S) /\ Cardinality(S) \in Nat
  BY <1>1, <1>4, SumOfSame, FS_CardinalityType
<1> QED BY <1>5, <1>6

(* A part of a set has as many places of its list as it has elements. *)
LEMMA PlacesOf ==
  ASSUME NEW S, IsFiniteSet(S), NEW A \in SUBSET S
  PROVE  Cardinality({i \in 1..Cardinality(S) : SetToSeq(S)[i] \in A}) = Cardinality(A)
<1> DEFINE order == SetToSeq(S)
           I == {i \in 1..Cardinality(S) : order[i] \in A}
           f == [i \in I |-> order[i]]
<1>1. /\ Cardinality(S) \in Nat
      /\ \A i, j \in 1..Cardinality(S) : order[i] = order[j] => i = j
      /\ \A x \in S : \E i \in 1..Cardinality(S) : order[i] = x
  BY ListIs
<1>2. IsFiniteSet(I)
  <2>1. IsFiniteSet(1..Cardinality(S)) /\ I \subseteq 1..Cardinality(S)
    BY <1>1, FS_Interval
  <2> QED BY <2>1, FS_Subset
<1>3. DOMAIN f = I /\ \A i, j \in I : f[i] = f[j] => i = j
  BY <1>1
<1>4. {f[i] : i \in I} = A
  <2>1. \A i \in I : f[i] \in A
    OBVIOUS
  <2>2. \A x \in A : \E i \in I : f[i] = x
    BY <1>1
  <2> HIDE DEF f, I
  <2> QED BY <2>1, <2>2
<1> HIDE DEF f, I
<1>5. Cardinality({f[i] : i \in I}) = Cardinality(I)
  BY <1>2, <1>3, ImageSize
<1> QED BY <1>4, <1>5 DEF I

(* The larger and the smaller of two whole numbers. *)
LEMMA OfTwo ==
  ASSUME NEW a \in Int, NEW b \in Int
  PROVE  /\ Max({a, b}) \in {a, b} /\ Max({a, b}) >= a /\ Max({a, b}) >= b
         /\ Min({a, b}) \in {a, b} /\ Min({a, b}) <= a /\ Min({a, b}) <= b
<1>1. \E x \in {a, b} : \A y \in {a, b} : x >= y
  OBVIOUS
<1>2. \E x \in {a, b} : \A y \in {a, b} : x <= y
  OBVIOUS
<1>3. Max({a, b}) \in {a, b} /\ \A y \in {a, b} : Max({a, b}) >= y
  BY <1>1, Zenon DEF Max
<1>4. Min({a, b}) \in {a, b} /\ \A y \in {a, b} : Min({a, b}) <= y
  BY <1>2, Zenon DEF Min
<1> QED BY <1>3, <1>4

-----------------------------------------------------------------------------
(* The breakdowns of the analytics. *)

(* An evaluation in the data set: a score that is a number when there is one, *)
(* and the averages of some sections.                                         *)
LEMMA EntryIs ==
  ASSUME TypeOK, NEW e \in Evals
  PROVE  LET entry == EvaluationEntry(e) IN
         /\ entry.eval = e
         /\ entry.global \in Int \union {None}
         /\ entry.sections \in [DOMAIN entry.sections -> Int]
         /\ DOMAIN entry.sections \subseteq SectionNumbers(evals[e].version)
<1> DEFINE w == WeightsOf(e)
           averages == Averages(w, e, SectionNumbers(evals[e].version), {})
<1>1. /\ WellAnswered(e) /\ w \in WeightsIn(evals[e].version)
      /\ evals[e].version \in DOMAIN Template
  BY EvalsAre, EvaluationFields
<1>2. /\ DOMAIN averages \subseteq SectionNumbers(evals[e].version)
      /\ averages \in [DOMAIN averages -> Int]
  BY <1>1, AveragesOfSections
<1>3. EvaluationEntry(e) = [eval |-> e, sections |-> averages,
                            global |-> IF averages = <<>> THEN None ELSE GlobalScore(w, averages)]
  BY DEF EvaluationEntry
<1> HIDE DEF averages, w
<1>4. GlobalScore(w, averages) \in Int
  BY <1>1, <1>2, GlobalOfAverages
<1> QED BY <1>2, <1>3, <1>4

(* What the breakdowns need of the entries: organisations, evaluations and     *)
(* numbers.                                                                   *)
Entries(latest) ==
  /\ DOMAIN latest \subseteq Profiles
  /\ \A p \in DOMAIN latest :
       /\ latest[p].eval \in Evals
       /\ latest[p].global \in Int \union {None}
       /\ latest[p].sections \in [DOMAIN latest[p].sections -> Int]

(* The last evaluations with answers are such. *)
LEMMA LatestAreEntries ==
  ASSUME TypeOK
  PROVE  Entries(LatestByProfile)
<1>1. Len(evals) \in Nat /\ Evals = 1..Len(evals)
  BY EvalsAre
<1>2. ASSUME NEW p \in Profiles, WithAnswers(p) # {} PROVE Max(WithAnswers(p)) \in Evals
  <2>1. WithAnswers(p) \subseteq Nat /\ \A e \in WithAnswers(p) : e <= Len(evals) /\ e \in Evals
    BY <1>1 DEF WithAnswers, EvalsOf
  <2> QED BY <1>1, <1>2, <2>1, MaxIn
<1>3. DOMAIN LatestByProfile = {q \in Profiles : WithAnswers(q) # {}}
  BY DEF LatestByProfile
<1>4. \A p \in DOMAIN LatestByProfile :
        LatestByProfile[p] = EvaluationEntry(Max(WithAnswers(p)))
  BY DEF LatestByProfile
<1> QED BY <1>2, <1>3, <1>4, EntryIs DEF Entries

(* The organisations that have a score are finitely many, and their scores are *)
(* listed once each.                                                         *)
LEMMA GlobalsAre ==
  ASSUME NEW latest, Entries(latest), NEW S \in SUBSET Scored(latest)
  PROVE  LET globals == Globals(latest, S) IN
         /\ IsFiniteSet(S) /\ Cardinality(S) \in Nat
         /\ globals \in [1..Cardinality(S) -> Int]
         /\ globals = [i \in 1..Cardinality(S) |-> latest[SetToSeq(S)[i]].global]
         /\ DOMAIN globals = 1..Cardinality(S) /\ Len(globals) = Cardinality(S)
<1> DEFINE globals == Globals(latest, S)
           n == Cardinality(S)
<1>1. IsFiniteSet(S)
  BY ReadingsAssumption, FS_Subset DEF Entries, Scored
<1>2. n \in Nat /\ SetToSeq(S) \in [1..n -> S] /\ DOMAIN SetToSeq(S) = 1..n
  BY <1>1, ListIs
<1>3. \A p \in S : latest[p].global \in Int
  BY DEF Entries, Scored
<1>4. globals = [i \in 1..n |-> latest[SetToSeq(S)[i]].global]
  BY <1>2 DEF Globals, Each
<1>5. globals \in [1..n -> Int]
  BY <1>2, <1>3, <1>4
<1> HIDE DEF globals
<1>6. DOMAIN globals = 1..n /\ Len(globals) = n
  BY <1>2, <1>5
<1> QED BY <1>1, <1>2, <1>4, <1>5, <1>6 DEF globals

(* The histogram counts each organisation with a score once. *)
LEMMA HistogramAddsUp ==
  ASSUME NEW latest, Entries(latest)
  PROVE  Total(Overview(latest).histogram) = Cardinality(Scored(latest))
<1> DEFINE globals == Globals(latest, Scored(latest))
           n == Cardinality(Scored(latest))
           bin == [i \in 1..n |-> Bin(globals[i], 5, 1000)]
           histogram == Histogram(globals, 5, 1000)
<1>1. n \in Nat /\ globals \in [1..n -> Int] /\ DOMAIN globals = 1..n
  BY GlobalsAre
<1>2. Overview(latest).histogram = histogram
  BY DEF Overview
<1>3. \A v \in Int : Bin(v, 5, 1000) \in 1..5
  <2> SUFFICES ASSUME NEW v \in Int PROVE Bin(v, 5, 1000) \in 1..5
    OBVIOUS
  <2> DEFINE q == (v * 5) \div 1000
             low == Min({5 - 1, q})
             x == Max({0, low})
  <2>1. q \in Int
    OBVIOUS
  <2> HIDE DEF q
  <2>2. low \in {4, q} /\ low <= 4 /\ low \in Int
    <3>1. 5 - 1 = 4
      OBVIOUS
    <3> QED BY <2>1, <3>1, OfTwo
  <2> HIDE DEF low
  <2>3. x \in {0, low} /\ x >= 0
    BY <2>2, OfTwo
  <2> HIDE DEF x
  <2>4. x + 1 \in 1..5
    BY <2>2, <2>3
  <2> QED BY <2>4 DEF Bin, x, low, q
<1> HIDE DEF globals
<1>4. bin \in [1..n -> 1..5]
  BY <1>1, <1>3
<1>5. \A b \in 1..5 :
        {i \in DOMAIN globals : Bin(globals[i], 5, 1000) = b} = {i \in 1..n : bin[i] = b}
  BY <1>1
<1>6. IsFiniteSet(1..n) /\ Cardinality(1..n) = n /\ IsFiniteSet(1..5)
  <2>1. IsFiniteSet(1..n) /\ Cardinality(1..n) = IF 1 > n THEN 0 ELSE n - 1 + 1
    BY <1>1, FS_Interval
  <2>2. 1 \in Int /\ 5 \in Int
    OBVIOUS
  <2>3. IsFiniteSet(1..5)
    BY <2>2, FS_Interval
  <2> QED BY <1>1, <2>1, <2>3
<1>7. \A b \in 1..5 : histogram[b] = Cardinality({i \in 1..n : bin[i] = b})
  <2>1. histogram = [b \in 1..5 |->
                      Cardinality({i \in DOMAIN globals : Bin(globals[i], 5, 1000) = b})]
    BY DEF Histogram, Quantify
  <2> HIDE DEF histogram, bin
  <2> QED BY <1>5, <2>1
<1>8. \A b \in 1..5 : Cardinality({i \in 1..n : bin[i] = b}) \in Int
  <2>1. ASSUME NEW b \in 1..5 PROVE Cardinality({i \in 1..n : bin[i] = b}) \in Int
    <3> DEFINE part == {i \in 1..n : bin[i] = b}
    <3>1. part \in SUBSET (1..n)
      OBVIOUS
    <3> HIDE DEF part
    <3>2. Cardinality(part) \in Nat
      BY <1>6, <3>1, SubsetSizes
    <3> QED BY <3>2 DEF part
  <2> QED BY <2>1
<1>9. histogram \in [1..5 -> Int]
  <2>1. DOMAIN histogram = 1..5
    BY DEF Histogram
  <2>2. histogram = [b \in 1..5 |-> histogram[b]]
    BY DEF Histogram
  <2> HIDE DEF histogram, bin
  <2> QED BY <1>7, <1>8, <2>2
<1> HIDE DEF histogram, bin
<1>10. SumFunction(histogram) = Cardinality(1..n)
  <2> DEFINE bins == 1..5
             places == 1..n
  <2>1. /\ IsFiniteSet(places) /\ IsFiniteSet(bins)
        /\ bin \in [places -> bins] /\ histogram \in [bins -> Int]
        /\ \A b \in bins : histogram[b] = Cardinality({i \in places : bin[i] = b})
    BY <1>4, <1>6, <1>7, <1>9
  <2> HIDE DEF bins, places
  <2>2. SumFunction(histogram) = Cardinality(places)
    BY <2>1, PartsAddUp
  <2> QED BY <2>2 DEF places
<1> QED BY <1>2, <1>6, <1>10 DEF Total

(* The structure to compare by is a version of the template. *)
LEMMA ReferenceIs ==
  ASSUME TypeOK
  PROVE  Reference \in DOMAIN Template
<1>1. Len(evals) \in Nat /\ Evals = 1..Len(evals) /\ version \in DOMAIN Template
  BY EvalsAre DEF TypeOK
<1>2. \A e \in Evals : evals[e].version \in DOMAIN Template
  BY DEF TypeOK
<1>3. evals # <<>> => Len(evals) \in Evals
  BY <1>1 DEF TypeOK
<1> QED BY <1>1, <1>2, <1>3 DEF Reference

(* The critical KPI of the coverage are those of the gaps, while the structure *)
(* to compare by has what is answered.                                        *)
LEMMA CoverageAddsUp ==
  ASSUME TypeOK, NEW latest, Entries(latest),
         \A p \in DOMAIN latest : Answered(latest[p].eval) \subseteq DOMAIN SystemicGaps(latest)
  PROVE  Overview(latest).coverage.critical
           = Total([k \in DOMAIN SystemicGaps(latest) |->
                      Cardinality(SystemicGaps(latest)[k].critical)])
<1> DEFINE S == DOMAIN latest
           K == Kpis(Reference)
           R == [p \in S |-> Low(latest[p].eval)]
           byS == [p \in S |-> Cardinality(Low(latest[p].eval))]
           byK == [k \in K |-> Cardinality(SystemicGaps(latest)[k].critical)]
<1>1. Overview(latest).coverage.critical = Total(byS)
  BY DEF Overview
<1>2. DOMAIN SystemicGaps(latest) = K
  BY DEF SystemicGaps
<1>3. IsFiniteSet(S)
  BY ReadingsAssumption, FS_Subset DEF Entries
<1>4. IsFiniteSet(K)
  <2>1. Reference \in DOMAIN Template
    BY ReferenceIs
  <2> QED BY <2>1, TemplateFinite
<1>5. \A p \in S : R[p] = Low(latest[p].eval) /\ R[p] \in SUBSET K /\ IsFiniteSet(R[p])
  <2>1. ASSUME NEW p \in S PROVE Low(latest[p].eval) \in SUBSET K
    BY <1>2 DEF Low
  <2>2. \A p \in S : IsFiniteSet(Low(latest[p].eval))
    BY <1>4, <2>1, FS_Subset
  <2> QED BY <2>1, <2>2
<1>6. R \in [S -> SUBSET K] /\ byS \in [S -> Int] /\ \A p \in S : byS[p] = Cardinality(R[p])
  <2>1. \A p \in S : Cardinality(Low(latest[p].eval)) \in Int
    BY <1>5, FS_CardinalityType
  <2> HIDE DEF K
  <2> QED BY <1>5, <2>1
<1>7. ASSUME NEW k \in K
      PROVE  byK[k] = Cardinality({p \in S : k \in R[p]}) /\ byK[k] \in Int
  <2>1. SystemicGaps(latest)[k].critical
          = {p \in {q \in S : k \in Answered(latest[q].eval)} : k \in Low(latest[p].eval)}
    BY DEF SystemicGaps, Gap
  <2>2. SystemicGaps(latest)[k].critical = {p \in S : k \in R[p]}
    BY <2>1 DEF Low
  <2>3. byK[k] = Cardinality({p \in S : k \in R[p]})
    BY <2>2
  <2>4. {p \in S : k \in R[p]} \in SUBSET S
    OBVIOUS
  <2>5. Cardinality({p \in S : k \in R[p]}) \in Nat
    <3> DEFINE part == {p \in S : k \in R[p]}
    <3> HIDE DEF part
    <3>1. part \in SUBSET S
      BY <2>4 DEF part
    <3>2. Cardinality(part) \in Nat
      BY <1>3, <3>1, SubsetSizes
    <3> QED BY <3>2 DEF part
  <2> HIDE DEF byK
  <2> QED BY <2>3, <2>5
<1>8. byK \in [K -> Int]
  BY <1>7
<1> HIDE DEF S, K, R, byS, byK
<1>9. SumFunction(byS) = SumFunction(byK)
  BY <1>3, <1>4, <1>6, <1>7, <1>8, CountedBothWays
<1>10. Total(byS) = Total(byK)
  BY <1>9 DEF Total
<1>11. byK = [k \in DOMAIN SystemicGaps(latest) |-> Cardinality(SystemicGaps(latest)[k].critical)]
  BY <1>2 DEF byK
<1> QED BY <1>1, <1>10, <1>11

(* The segments have every organisation, and every one with a score. *)
LEMMA SegmentsAddUp ==
  ASSUME NEW latest, Entries(latest)
  PROVE  LET segments == Segments(latest) IN
         /\ Total([key \in DOMAIN segments |-> segments[key].organisations])
              = Cardinality(Profiles)
         /\ Total([key \in DOMAIN segments |-> segments[key].n]) = Cardinality(Scored(latest))
<1> DEFINE segments == Segments(latest)
           K == Range(SegmentOf)
           S == Scored(latest)
           all == [key \in K |-> segments[key].organisations]
           some == [key \in K |-> segments[key].n]
           own == [p \in S |-> SegmentOf[p]]
<1>1. DOMAIN segments = K
  BY DEF Segments
<1>2. IsFiniteSet(Profiles) /\ IsFiniteSet(K) /\ IsFiniteSet(S) /\ S \subseteq Profiles
  <2>1. IsFiniteSet(Profiles) /\ DOMAIN SegmentOf = Profiles
    BY ReadingsAssumption, SegmentAssumption
  <2>2. K = {SegmentOf[p] : p \in Profiles}
    BY <2>1 DEF Range
  <2>3. IsFiniteSet({SegmentOf[p] : p \in Profiles})
    BY <2>1, ImageFinite
  <2>4. S \subseteq Profiles
    BY DEF Scored, Entries
  <2> QED BY <2>1, <2>2, <2>3, <2>4, FS_Subset
<1>3. /\ [p \in Profiles |-> SegmentOf[p]] \in [Profiles -> K]
      /\ own \in [S -> K]
  BY <1>2, SegmentAssumption DEF Range
<1>4. ASSUME NEW key \in K
      PROVE  /\ all[key] = Cardinality({p \in Profiles : SegmentOf[p] = key})
             /\ some[key] = Cardinality({p \in S : own[p] = key})
             /\ all[key] \in Int /\ some[key] \in Int
  <2> DEFINE members == {p \in Profiles : SegmentOf[p] = key}
             scored == members \intersect S
  <2>1. /\ segments[key].organisations = Cardinality(members)
        /\ segments[key].n = Len(Globals(latest, scored))
    BY DEF Segments
  <2>2. scored \in SUBSET S
    OBVIOUS
  <2>3. scored = {p \in S : own[p] = key}
    BY <1>2
  <2>4. IsFiniteSet(members) /\ Cardinality(members) \in Nat
    <3>1. members \in SUBSET Profiles
      OBVIOUS
    <3> HIDE DEF members
    <3> QED BY <1>2, <3>1, SubsetSizes
  <2> HIDE DEF scored
  <2>5. Len(Globals(latest, scored)) = Cardinality(scored) /\ Cardinality(scored) \in Nat
    BY <2>2, GlobalsAre
  <2> HIDE DEF segments
  <2>6. all[key] = Cardinality(members) /\ some[key] = Cardinality(scored)
    BY <2>1, <2>5
  <2> HIDE DEF all, some
  <2> QED BY <2>3, <2>4, <2>5, <2>6
<1>5. all \in [K -> Int] /\ some \in [K -> Int]
  <2> HIDE DEF K, segments
  <2>1. all = [key \in K |-> all[key]] /\ some = [key \in K |-> some[key]]
    OBVIOUS
  <2> HIDE DEF all, some
  <2> QED BY <1>4, <2>1 DEF K
<1> DEFINE every == [p \in Profiles |-> SegmentOf[p]]
<1>6. \A key \in K : {p \in Profiles : SegmentOf[p] = key} = {p \in Profiles : every[p] = key}
  OBVIOUS
<1> HIDE DEF segments, K, S, all, some, own, every
<1>7. SumFunction(all) = Cardinality(Profiles)
  <2>1. \A key \in K : all[key] = Cardinality({p \in Profiles : every[p] = key})
    BY <1>4, <1>6
  <2>2. every \in [Profiles -> K]
    BY <1>3 DEF every
  <2> QED BY <1>2, <1>5, <2>1, <2>2, PartsAddUp
<1>8. SumFunction(some) = Cardinality(S)
  <2>1. \A key \in K : some[key] = Cardinality({p \in S : own[p] = key})
    BY <1>4
  <2>2. own \in [S -> K]
    BY <1>3
  <2> QED BY <1>2, <1>5, <2>1, <2>2, PartsAddUp
<1>9. /\ all = [key \in DOMAIN segments |-> segments[key].organisations]
      /\ some = [key \in DOMAIN segments |-> segments[key].n]
  BY <1>1 DEF all, some
<1> QED BY <1>7, <1>8, <1>9 DEF Total, segments, S

(* The four groups have every comparison once. *)
LEMMA GroupsAddUp ==
  ASSUME TypeOK
  PROVE  LET effect == MeasureEffectiveness IN
         Total([g \in Groups |-> effect.groups[g].n]) = effect.compared
<1> DEFINE effect == MeasureEffectiveness
           S == Comparisons
           sizes == [g \in Groups |-> effect.groups[g].n]
           group == [c \in S |-> IF ~c.low THEN "nonCritical"
                                 ELSE IF "DONE" \in c.statuses THEN "withDoneMeasure"
                                 ELSE IF c.statuses # {} THEN "withOpenMeasure"
                                 ELSE "withoutMeasure"]
<1>1. IsFiniteSet(S)
  <2> DEFINE history == CompletedByProfile
             completed(p) == {e \in EvalsOf(p) : evals[e].status = "COMPLETED"}
             number(p) == [e \in completed(p) |-> evals[e].at]
             answered(p) == Answered(Head(history[p])) \intersect Answered(Last(history[p]))
             of(p) == {Comparison(p, history[p], k) : k \in answered(p)}
             all == [p \in DOMAIN history |-> of(p)]
  <2>1. /\ DOMAIN history = {q \in Profiles : Cardinality(completed(q)) >= 2}
        /\ \A p \in DOMAIN history : history[p] = InOrder(completed(p), number(p))
    BY DEF CompletedByProfile
  <2>2. Len(evals) \in Nat /\ Evals = 1..Len(evals) /\ \A e \in Evals : WellAnswered(e)
    BY EvalsAre
  <2>3. ASSUME NEW p \in DOMAIN history PROVE IsFiniteSet(answered(p))
    <3>1. completed(p) \subseteq Evals /\ IsFiniteSet(completed(p))
      <4>1. IsFiniteSet(Evals) /\ completed(p) \subseteq Evals
        BY <2>2, FS_Interval DEF EvalsOf
      <4> QED BY <4>1, FS_Subset
    <3>2. number(p) \in [completed(p) -> Int]
      <4>1. \A e \in completed(p) : evals[e].at \in Int
        BY <3>1 DEF TypeOK, Evaluations
      <4> HIDE DEF completed
      <4> QED BY <4>1
    <3>3. Cardinality(completed(p)) >= 2 /\ Cardinality(completed(p)) \in Nat
      BY <2>1, <3>1, FS_CardinalityType
    <3>4. history[p] \in [1..Cardinality(completed(p)) -> completed(p)]
      <4> HIDE DEF completed, number, history
      <4> QED BY <2>1, <3>1, <3>2, InOrderIs
    <3>5. Head(history[p]) \in Evals
      <4> HIDE DEF completed, number, history
      <4>1. history[p] \in Seq(completed(p)) /\ Len(history[p]) = Cardinality(completed(p))
        BY <3>3, <3>4
      <4>2. Head(history[p]) = history[p][1] /\ 1 \in 1..Cardinality(completed(p))
        BY <3>3, <4>1
      <4> QED BY <3>1, <3>4, <4>2
    <3>6. /\ evals[Head(history[p])].version \in DOMAIN Template
          /\ Answered(Head(history[p])) \subseteq Kpis(evals[Head(history[p])].version)
      <4> HIDE DEF history
      <4> QED BY <2>2, <3>5, AnswersHaveScores
    <3>7. IsFiniteSet(Kpis(evals[Head(history[p])].version))
      <4> HIDE DEF history
      <4> QED BY <3>6, TemplateFinite
    <3> HIDE DEF history
    <3> QED BY <3>6, <3>7, FS_Subset
  <2>4. \A p \in DOMAIN history : IsFiniteSet(of(p))
    <3> HIDE DEF answered, history
    <3> SUFFICES ASSUME NEW p \in DOMAIN history PROVE IsFiniteSet(of(p))
      OBVIOUS
    <3> DEFINE f == [k \in answered(p) |-> Comparison(p, history[p], k)]
    <3>1. of(p) = {f[k] : k \in answered(p)} /\ DOMAIN f = answered(p)
      OBVIOUS
    <3>2. IsFiniteSet(answered(p))
      BY <2>3
    <3> HIDE DEF f, of
    <3>3. IsFiniteSet({f[k] : k \in answered(p)})
      BY <3>1, <3>2, ImageFinite
    <3> QED BY <3>1, <3>3
  <2>5. IsFiniteSet(DOMAIN history)
    <3>1. DOMAIN history \subseteq Profiles
      BY <2>1
    <3> HIDE DEF history
    <3> QED BY <3>1, ReadingsAssumption, FS_Subset
  <2>6. S = UNION {all[p] : p \in DOMAIN history}
    BY DEF Comparisons
  <2>7. DOMAIN all = DOMAIN history /\ \A p \in DOMAIN history : IsFiniteSet(all[p])
    <3> HIDE DEF of, history
    <3> QED BY <2>4
  <2> HIDE DEF all, history, S
  <2>8. IsFiniteSet({all[p] : p \in DOMAIN history})
    BY <2>5, <2>7, ImageFinite
  <2>9. \A T \in {all[p] : p \in DOMAIN history} : IsFiniteSet(T)
    BY <2>7
  <2>10. IsFiniteSet(UNION {all[p] : p \in DOMAIN history})
    BY <2>8, <2>9, FS_UNION
  <2> QED BY <2>6, <2>10
<1>2. IsFiniteSet(Groups)
  <2> DEFINE one == {"nonCritical"}
             two == one \union {"withDoneMeasure"}
             three == two \union {"withOpenMeasure"}
  <2>1. Groups = three \union {"withoutMeasure"}
    BY DEF Groups
  <2>2. IsFiniteSet(one)
    BY FS_Singleton
  <2> HIDE DEF one
  <2>3. IsFiniteSet(two)
    BY <2>2, FS_AddElement
  <2> HIDE DEF two
  <2>4. IsFiniteSet(three)
    BY <2>3, FS_AddElement
  <2> HIDE DEF three
  <2> QED BY <2>1, <2>4, FS_AddElement
<1>3. effect.compared = Cardinality(S)
  BY DEF MeasureEffectiveness
<1>4. group \in [S -> Groups]
  BY DEF Groups
<1>5. ASSUME NEW g \in Groups PROVE sizes[g] = Cardinality({c \in S : group[c] = g})
  <2>1. effect.groups[g].n = Cardinality({c \in S : InGroup(g, c)})
    BY DEF MeasureEffectiveness
  <2>2. ASSUME NEW c \in S PROVE InGroup(g, c) <=> group[c] = g
    <3> HIDE DEF S
    <3>1. g \in {"nonCritical", "withDoneMeasure", "withOpenMeasure", "withoutMeasure"}
      BY DEF Groups
    <3>2. CASE g = "nonCritical"
      BY <3>2 DEF InGroup
    <3>3. CASE g = "withDoneMeasure"
      BY <3>3 DEF InGroup
    <3>4. CASE g = "withOpenMeasure"
      BY <3>4 DEF InGroup
    <3>5. CASE g = "withoutMeasure"
      BY <3>5 DEF InGroup
    <3> QED BY <3>1, <3>2, <3>3, <3>4, <3>5
  <2>3. {c \in S : InGroup(g, c)} = {c \in S : group[c] = g}
    <3> HIDE DEF S, group
    <3> QED BY <2>2
  <2> HIDE DEF effect, S, group
  <2> QED BY <2>1, <2>3
<1>6. sizes \in [Groups -> Int]
  <2>1. ASSUME NEW g \in Groups PROVE sizes[g] \in Int
    <3> DEFINE part == {c \in S : group[c] = g}
    <3>1. part \in SUBSET S
      OBVIOUS
    <3> HIDE DEF part, S
    <3>2. Cardinality(part) \in Nat
      BY <1>1, <3>1, SubsetSizes
    <3> QED BY <1>5, <3>2 DEF part
  <2>2. sizes = [g \in Groups |-> sizes[g]]
    OBVIOUS
  <2> HIDE DEF sizes
  <2> QED BY <2>1, <2>2
<1> HIDE DEF effect, S, group, sizes
<1>7. SumFunction(sizes) = Cardinality(S)
  BY <1>1, <1>2, <1>4, <1>5, <1>6, PartsAddUp
<1> QED BY <1>3, <1>7 DEF Total, effect, sizes

(* Who has at most one in 200 above has 100 % of the cohort at or below. *)
LEMMA PlaceIsRight ==
  ASSUME NEW latest, Entries(latest), NEW p \in Scored(latest)
  PROVE  LET place == Benchmark(latest, p) IN
         place.percentile = 100 <=> 200 * (place.rank - 1) <= place.cohort
<1> DEFINE globals == Globals(latest, Scored(latest))
           own == latest[p].global
           n == Cardinality(Scored(latest))
           below == {i \in 1..n : globals[i] <= own}
           above == {i \in 1..n : globals[i] > own}
           q == Cardinality(below)
           r == Cardinality(above)
           x == RoundDiv(100 * q, n)
<1>1. /\ IsFiniteSet(Scored(latest)) /\ n \in Nat /\ globals \in [1..n -> Int]
      /\ DOMAIN globals = 1..n /\ Len(globals) = n
  BY GlobalsAre
<1>2. n > 0
  <2>1. n # 0
    BY <1>1, FS_EmptySet
  <2> QED BY <1>1, <2>1
<1>3. own \in Int
  BY DEF Entries, Scored
<1> HIDE DEF globals, own
<1>4. q + r = n /\ q \in Nat /\ r \in Nat
  <2>1. IsFiniteSet(1..n) /\ Cardinality(1..n) = n
    <3>1. IsFiniteSet(1..n) /\ Cardinality(1..n) = IF 1 > n THEN 0 ELSE n - 1 + 1
      BY <1>1, FS_Interval
    <3> QED BY <1>1, <3>1
  <2>2. below \in SUBSET (1..n) /\ above \in SUBSET (1..n)
    OBVIOUS
  <2>3. below \union above = 1..n /\ below \intersect above = {}
    BY <1>1, <1>3
  <2> HIDE DEF below, above
  <2>4. IsFiniteSet(below) /\ IsFiniteSet(above) /\ q \in Nat /\ r \in Nat
    BY <2>1, <2>2, SubsetSizes
  <2>5. Cardinality(below \union above) = q + r - Cardinality(below \intersect above)
    BY <2>4, FS_Union
  <2>6. Cardinality({}) = 0
    BY FS_EmptySet
  <2>7. Cardinality(below \union above) = n /\ Cardinality(below \intersect above) = 0
    BY <2>1, <2>3, <2>6
  <2> HIDE DEF q, r
  <2> QED BY <1>1, <2>4, <2>5, <2>7
<1>5. /\ Benchmark(latest, p).percentile = x
      /\ Benchmark(latest, p).rank = 1 + r
      /\ Benchmark(latest, p).cohort = n
  <2>1. globals # <<>>
    BY <1>1, <1>2
  <2>2. PercentileRank(own, globals) = x
    BY <1>1, <2>1 DEF PercentileRank, Quantify
  <2>3. Benchmark(latest, p).percentile = PercentileRank(own, globals)
    BY DEF Benchmark, own, globals
  <2>4. Benchmark(latest, p).cohort = n
    BY <1>1 DEF Benchmark, globals
  <2>5. Benchmark(latest, p).rank = 1 + Quantify(DOMAIN globals, LAMBDA i : globals[i] > own)
    BY DEF Benchmark, own, globals
  <2>6. Quantify(DOMAIN globals, LAMBDA i : globals[i] > own) = r
    BY <1>1 DEF Quantify
  <2> QED BY <2>2, <2>3, <2>4, <2>5, <2>6
<1> HIDE DEF q, r, n, below, above
<1>6. x \in Int /\ 2 * (n * x) <= 2 * (100 * q) + n /\ 2 * (100 * q) < 2 * (n * x) + n
  <2>1. 100 * q \in Int
    BY <1>4
  <2> QED BY <1>1, <1>2, <1>4, <2>1, RoundDivNearest
<1> HIDE DEF x
<1>7. \A a \in Nat, b \in Nat : n * a \in Nat /\ n * (a + b) = n * a + n * b
  BY <1>1
<1>8. x = 100 <=> 200 * r <= n
  <2>1. CASE x = 100
    <3>1. n * x = 100 * n
      BY <1>1, <2>1
    <3> QED BY <1>1, <1>4, <1>6, <2>1, <3>1
  <2>2. CASE x <= 99
    <3>1. 99 - x \in Nat
      BY <1>6, <2>2
    <3>2. \A y \in Nat : n * y \in Nat
      BY <1>1
    <3>3. n * (99 - x) \in Nat
      BY <3>1, <3>2
    <3>4. n * (99 - x) = 99 * n - n * x
      BY <1>1, <1>6
    <3>5. n * x \in Int
      BY <1>1, <1>6
    <3> QED BY <1>1, <1>4, <1>6, <2>2, <3>3, <3>4, <3>5
  <2>3. CASE x >= 101
    <3>1. x - 101 \in Nat
      BY <1>6, <2>3
    <3>2. \A y \in Nat : n * y \in Nat
      BY <1>1
    <3>3. n * (x - 101) \in Nat
      BY <3>1, <3>2
    <3>4. n * (x - 101) = n * x - 101 * n
      BY <1>1, <1>6
    <3>5. n * x \in Int
      BY <1>1, <1>6
    <3> QED BY <1>1, <1>2, <1>4, <1>6, <2>3, <3>3, <3>4, <3>5
  <2> QED BY <1>6, <2>1, <2>2, <2>3
<1>9. 200 * ((1 + r) - 1) = 200 * r
  BY <1>4
<1> QED BY <1>5, <1>8, <1>9

(* Every breakdown counts once what there is. *)
LEMMA CountsAreRight ==
  ASSUME TypeOK, NEW latest, Entries(latest)
  PROVE  CountedOnce(latest)
<1>1. Total(Overview(latest).histogram) = Cardinality(Scored(latest))
  BY HistogramAddsUp
<1>2. (\A p \in DOMAIN latest : Answered(latest[p].eval) \subseteq DOMAIN SystemicGaps(latest)) =>
        Overview(latest).coverage.critical
          = Total([k \in DOMAIN SystemicGaps(latest) |->
                     Cardinality(SystemicGaps(latest)[k].critical)])
  BY CoverageAddsUp
<1>3. LET segments == Segments(latest) IN
      /\ Total([key \in DOMAIN segments |-> segments[key].organisations]) = Cardinality(Profiles)
      /\ Total([key \in DOMAIN segments |-> segments[key].n]) = Cardinality(Scored(latest))
  BY SegmentsAddUp
<1>4. LET effect == MeasureEffectiveness IN
      Total([g \in Groups |-> effect.groups[g].n]) = effect.compared
  BY GroupsAddUp
<1>5. \A p \in Scored(latest) : LET place == Benchmark(latest, p) IN
        place.percentile = 100 <=> 200 * (place.rank - 1) <= place.cohort
  BY PlaceIsRight
<1> QED BY <1>1, <1>2, <1>3, <1>4, <1>5, Zenon DEF CountedOnce

(* The months of a trend have every completed evaluation with a score. *)
LEMMA MonthsAddUp ==
  ASSUME TypeOK, NEW month
  PROVE  LET trend == Trend(month) IN
         Total([m \in DOMAIN trend |-> trend[m].count])
           = Quantify(Evals, LAMBDA e : /\ evals[e].status = "COMPLETED"
                                        /\ EvaluationEntry(e).global # None)
<1> DEFINE S == {e \in Evals : evals[e].status = "COMPLETED" /\ EvaluationEntry(e).global # None}
           K == {month[evals[e].at] : e \in S}
           f == [e \in S |-> month[evals[e].at]]
           trend == Trend(month)
           counts == [m \in DOMAIN trend |-> trend[m].count]
<1>1. IsFiniteSet(S)
  <2>1. Len(evals) \in Nat /\ Evals = 1..Len(evals)
    BY EvalsAre
  <2>2. IsFiniteSet(Evals) /\ S \subseteq Evals
    BY <2>1, FS_Interval
  <2> HIDE DEF S
  <2> QED BY <2>2, FS_Subset
<1>2. DOMAIN trend = K
  BY DEF Trend
<1>3. ASSUME NEW m \in K PROVE trend[m].count = Len(SetToSeq({e \in S : f[e] = m}))
  <2> DEFINE part == {e \in S : month[evals[e].at] = m}
  <2>1. trend[m].count = Len(Each(part, LAMBDA e : EvaluationEntry(e).global))
    BY DEF Trend
  <2>2. part = {e \in S : f[e] = m} /\ part \in SUBSET S
    OBVIOUS
  <2>3. IsFiniteSet(part)
    <3> HIDE DEF part, S
    <3> QED BY <1>1, <2>2, FS_Subset
  <2> HIDE DEF part, S, f, trend
  <2>4. /\ Cardinality(part) \in Nat /\ DOMAIN SetToSeq(part) = 1..Cardinality(part)
        /\ Len(SetToSeq(part)) = Cardinality(part)
    BY <2>3, ListIs
  <2>5. Len(Each(part, LAMBDA e : EvaluationEntry(e).global)) = Cardinality(part)
    BY <2>4 DEF Each
  <2> QED BY <2>1, <2>2, <2>4, <2>5
<1>4. ASSUME NEW m \in K
      PROVE  counts[m] = Cardinality({e \in S : f[e] = m}) /\ counts[m] \in Int
  <2> DEFINE part == {e \in S : f[e] = m}
  <2>1. part \in SUBSET S /\ counts[m] = trend[m].count
    BY <1>2
  <2>2. counts[m] = Len(SetToSeq(part))
    BY <1>3, <2>1
  <2> HIDE DEF part, S, counts
  <2>3. IsFiniteSet(part) /\ Cardinality(part) \in Nat
    BY <1>1, <2>1, SubsetSizes
  <2>4. Len(SetToSeq(part)) = Cardinality(part)
    BY <2>3, ListIs
  <2>5. counts[m] = Cardinality(part) /\ counts[m] \in Int
    BY <2>2, <2>3, <2>4
  <2> QED BY <2>5 DEF part
<1>5. counts \in [K -> Int]
  <2>1. counts = [m \in K |-> counts[m]]
    BY <1>2
  <2> HIDE DEF counts, K
  <2> QED BY <1>4, <2>1
<1>6. f \in [S -> K] /\ K = {f[e] : e \in S} /\ DOMAIN f = S
  OBVIOUS
<1> HIDE DEF S, K, f, trend, counts
<1>7. IsFiniteSet(K)
  BY <1>1, <1>6, ImageFinite
<1>8. SumFunction(counts) = Cardinality(S)
  BY <1>1, <1>4, <1>5, <1>6, <1>7, PartsAddUp
<1>9. Cardinality(S) = Quantify(Evals, LAMBDA e : /\ evals[e].status = "COMPLETED"
                                                  /\ EvaluationEntry(e).global # None)
  BY DEF Quantify, S
<1> QED BY <1>8, <1>9 DEF Total, counts, trend

(* What is never in the other order never correlates against it: where the     *)
(* first variable is above its mean, the second is above all that it is where  *)
(* the first is not.                                                          *)
LEMMA SameOrderCorrelates ==
  ASSUME NEW n \in Nat, NEW xs \in [1..n -> Int], NEW ys \in [1..n -> Int],
         \A i, j \in 1..n : xs[i] < xs[j] => ys[i] < ys[j]
  PROVE  Pearson(xs, ys) \in {1, None}
<1> DEFINE X == Total(xs)
           Y == Total(ys)
           I == 1..n
           dx == [i \in I |-> n * xs[i] - X]
           products == [i \in I |-> Deviation(xs, n, i) * Deviation(ys, n, i)]
<1>1. Len(xs) = n /\ Len(ys) = n /\ xs \in Seq(Int) /\ ys \in Seq(Int)
  OBVIOUS
<1>2. Min({Len(xs), Len(ys)}) = n
  <2>1. n \in Int
    OBVIOUS
  <2> QED BY <1>1, <2>1, OfTwo
<1>3. SubSeq(xs, 1, n) = xs /\ SubSeq(ys, 1, n) = ys
  BY <1>1
<1>4. IsFiniteSet(I) /\ Cardinality(I) = n
  <2>1. IsFiniteSet(1..n) /\ Cardinality(1..n) = IF 1 > n THEN 0 ELSE n - 1 + 1
    BY FS_Interval
  <2> QED BY <2>1
<1>5. X \in Int /\ Y \in Int
  BY <1>4, SumIsInt DEF Total
<1> SUFFICES ASSUME ~(n < 3), Varies(xs, n) PROVE Sign(Total(products)) = 1
  BY <1>2 DEF Pearson
<1>6. \A i \in I : /\ Deviation(xs, n, i) = n * xs[i] - X
                   /\ Deviation(ys, n, i) = n * ys[i] - Y
  BY <1>3 DEF Deviation
<1> HIDE DEF X, Y
<1>7. \A x \in Int : n * x \in Int
  OBVIOUS
<1>8. dx \in [I -> Int] /\ \A i \in I : dx[i] = n * xs[i] - X
  BY <1>5, <1>7
<1>9. SumFunction(dx) = 0
  <2> DEFINE scaled == [i \in I |-> n * xs[i]]
             same == [i \in I |-> -X]
  <2>1. scaled \in [I -> Int] /\ same \in [I -> Int]
    BY <1>5, <1>7
  <2>2. \A i \in I : dx[i] = scaled[i] + same[i] /\ same[i] = -X
    BY <1>5, <1>7, <1>8
  <2>3. SumFunction(scaled) = n * X
    <3>1. n \in Int
      OBVIOUS
    <3>2. SumFunction([i \in I |-> n * xs[i]]) = n * SumFunction(xs)
      <4> HIDE DEF I
      <4>1. xs \in [I -> Int]
        BY DEF I
      <4> QED BY <1>4, <3>1, <4>1, SumScaled
    <3> QED BY <3>2 DEF X, Total
  <2> HIDE DEF scaled, same, dx, I
  <2>4. -X \in Int
    BY <1>5
  <2>5. SumFunction(same) = (-X) * n
    BY <1>4, <2>1, <2>2, <2>4, SumOfSame
  <2>6. SumFunction(dx) = SumFunction(scaled) + SumFunction(same)
    <3>1. AddsUp(dx, scaled, same, I)
      BY <1>8, <2>1, <2>2 DEF AddsUp
    <3> QED BY <1>4, <3>1, SumPlus
  <2>7. n * X + (-X) * n = 0
    BY <1>5
  <2> QED BY <2>3, <2>5, <2>6, <2>7
<1>10. \E i \in I : dx[i] # 0
  BY <1>6, <1>8 DEF Varies
<1> HIDE DEF dx, I
<1>11. \E i \in I : dx[i] > 0
  <2> SUFFICES ASSUME \A i \in I : ~(dx[i] > 0) PROVE FALSE
    OBVIOUS
  <2> DEFINE minus == [i \in I |-> (-1) * dx[i]]
  <2>1. minus \in [I -> Nat] /\ \A i \in I : minus[i] = (-1) * dx[i] /\ minus[i] \in Nat
    BY <1>8
  <2>2. SumFunction(minus) = (-1) * SumFunction(dx)
    <3>1. -1 \in Int
      OBVIOUS
    <3> QED BY <1>4, <1>8, <3>1, SumScaled
  <2> HIDE DEF minus
  <2>3. \A i \in I : minus[i] <= SumFunction(minus)
    BY <1>4, <2>1, SumAtLeast
  <2>4. \A i \in I : minus[i] <= 0 /\ dx[i] \in Int
    BY <1>8, <1>9, <2>2, <2>3
  <2> QED BY <1>10, <2>1, <2>4
<1>12. \E i \in I : dx[i] <= 0
  <2> SUFFICES ASSUME \A i \in I : ~(dx[i] <= 0) PROVE FALSE
    OBVIOUS
  <2>1. dx \in [I -> Nat]
    BY <1>8
  <2>2. \A i \in I : dx[i] <= SumFunction(dx)
    BY <1>4, <2>1, SumAtLeast
  <2> QED BY <1>8, <1>9, <1>10, <2>2
<1> DEFINE low == {i \in I : dx[i] <= 0}
           number == [i \in low |-> ys[i]]
<1>13. low # {} /\ IsFiniteSet(low) /\ number \in [low -> Int]
  <2>1. low # {} /\ low \subseteq I
    BY <1>12
  <2>2. number \in [low -> Int]
    BY DEF I
  <2> HIDE DEF low, number
  <2> QED BY <1>4, <2>1, <2>2, FS_Subset
<1>14. PICK m \in low : \A i \in low : ys[i] <= ys[m]
  <2> HIDE DEF low
  <2>1. \A i \in low : number[i] = ys[i]
    OBVIOUS
  <2> HIDE DEF number
  <2>2. \E m \in low : \A i \in low : number[i] <= number[m]
    BY <1>13, LargestIn
  <2> QED BY <2>1, <2>2
<1> DEFINE c == ys[m]
           g == [i \in I |-> dx[i] * (ys[i] - c)]
<1>15. c \in Int /\ \A i \in I : xs[i] \in Int /\ ys[i] \in Int /\ dx[i] \in Int
  BY <1>8 DEF I
<1>16. \A x, y \in Nat : x * y \in Nat
  OBVIOUS
<1>17. \A x, y \in Nat : x > 0 /\ y > 0 => x * y > 0
  OBVIOUS
<1>18. ASSUME NEW i \in I
       PROVE  /\ dx[i] * (ys[i] - c) \in Nat
              /\ dx[i] > 0 => dx[i] * (ys[i] - c) > 0
  <2>1. CASE dx[i] <= 0
    <3>1. ys[i] <= c
      BY <1>14, <2>1
    <3>2. -dx[i] \in Nat /\ c - ys[i] \in Nat
      BY <1>15, <2>1, <3>1
    <3>3. (-dx[i]) * (c - ys[i]) \in Nat
      BY <1>16, <3>2
    <3>4. \A x, y, z \in Int : (-x) * (y - z) = x * (z - y)
      OBVIOUS
    <3>5. (-dx[i]) * (c - ys[i]) = dx[i] * (ys[i] - c)
      BY <1>15, <3>4
    <3> QED BY <1>15, <2>1, <3>3, <3>5
  <2>2. CASE dx[i] > 0
    <3>1. m \in I /\ dx[m] <= 0
      BY <1>14
    <3>2. n * xs[m] < n * xs[i]
      <4>1. n * xs[m] \in Int /\ n * xs[i] \in Int
        BY <1>7, <1>15, <3>1
      <4>2. dx[m] = n * xs[m] - X /\ dx[i] = n * xs[i] - X
        BY <1>8, <3>1
      <4> DEFINE a == n * xs[m]
                 b == n * xs[i]
      <4>3. a \in Int /\ b \in Int /\ dx[m] = a - X /\ dx[i] = b - X
        BY <4>1, <4>2
      <4> HIDE DEF a, b, c, g, low, number
      <4>4. a < b
        BY <1>5, <2>2, <3>1, <4>3
      <4> QED BY <4>4 DEF a, b
    <3>3. xs[m] < xs[i]
      <4> SUFFICES ASSUME xs[i] <= xs[m] PROVE FALSE
        BY <1>15, <3>1
      <4>1. xs[m] - xs[i] \in Nat
        BY <1>15, <3>1
      <4>2. n * (xs[m] - xs[i]) \in Nat
        BY <1>16, <4>1
      <4>3. n * (xs[m] - xs[i]) = n * xs[m] - n * xs[i]
        BY <1>15, <3>1
      <4>4. n * xs[m] \in Int /\ n * xs[i] \in Int
        BY <1>7, <1>15, <3>1
      <4> QED BY <3>2, <4>2, <4>3, <4>4
    <3>4. ys[i] - c \in Nat /\ ys[i] - c > 0 /\ dx[i] \in Nat
      <4>1. c < ys[i]
        BY <3>1, <3>3 DEF I
      <4>2. c \in Int /\ ys[i] \in Int /\ dx[i] \in Int
        BY <1>15
      <4>3. \A a, b \in Int : a < b => b - a \in Nat /\ b - a > 0
        OBVIOUS
      <4> HIDE DEF c, g, low, number
      <4> QED BY <2>2, <4>1, <4>2, <4>3
    <3> HIDE DEF c
    <3> QED BY <1>16, <1>17, <2>2, <3>4
  <2> QED BY <1>15, <2>1, <2>2
<1>19. g \in [I -> Nat] /\ \A i \in I : g[i] = dx[i] * (ys[i] - c)
  BY <1>18
<1> HIDE DEF g, low, number
<1>20. SumFunction(g) \in Nat /\ SumFunction(g) > 0
  <2>1. SumFunction(g) \in Nat /\ \A i \in I : g[i] <= SumFunction(g)
    BY <1>4, <1>19, SumAtLeast
  <2> QED BY <1>11, <1>18, <1>19, <2>1
<1>21. Total(products) = n * SumFunction(g)
  <2> DEFINE k == n * c - Y
             scaled == [i \in I |-> n * g[i]]
             same == [i \in I |-> k * dx[i]]
  <2>1. k \in Int
    BY <1>5, <1>7, <1>15
  <2> HIDE DEF k
  <2>2. \A x, y \in Int : x * y \in Int
    OBVIOUS
  <2>3. g \in [I -> Int] /\ n \in Int
    BY <1>19
  <2>4. /\ scaled \in [I -> Int] /\ \A i \in I : scaled[i] = n * g[i]
        /\ same \in [I -> Int] /\ \A i \in I : same[i] = k * dx[i]
    BY <1>8, <2>1, <2>2, <2>3
  <2>5. SumFunction(scaled) = n * SumFunction(g)
    BY <1>4, <2>3, SumScaled
  <2>6. SumFunction(same) = k * SumFunction(dx)
    BY <1>4, <1>8, <2>1, SumScaled
  <2>7. ASSUME NEW i \in I PROVE products[i] = scaled[i] + same[i]
    <3>1. products[i] = dx[i] * (n * ys[i] - Y)
      BY <1>6, <1>8
    <3>2. \A d, a, b, y \in Int : d * (n * a - y) = n * (d * (a - b)) + (n * b - y) * d
      OBVIOUS
    <3>3. dx[i] * (n * ys[i] - Y) = n * (dx[i] * (ys[i] - c)) + (n * c - Y) * dx[i]
      <4>1. dx[i] \in Int /\ ys[i] \in Int /\ c \in Int
        BY <1>15
      <4> HIDE DEF c, products
      <4> QED BY <1>5, <3>2, <4>1
    <3> HIDE DEF c, products
    <3> QED BY <1>19, <2>4, <3>1, <3>3 DEF k
  <2>8. products \in [I -> Int]
    <3>1. products = [i \in I |-> products[i]]
      OBVIOUS
    <3> HIDE DEF products
    <3>2. \A i \in I : products[i] \in Int
      BY <2>4, <2>7
    <3> QED BY <3>1, <3>2
  <2> HIDE DEF products, scaled, same
  <2>9. SumFunction(products) = SumFunction(scaled) + SumFunction(same)
    <3>1. AddsUp(products, scaled, same, I)
      BY <2>4, <2>7, <2>8 DEF AddsUp
    <3> QED BY <1>4, <3>1, SumPlus
  <2>10. k * 0 = 0 /\ n * SumFunction(g) \in Int
    BY <1>20, <2>1, <2>2, <2>3
  <2> QED BY <1>9, <2>5, <2>6, <2>9, <2>10 DEF Total
<1> HIDE DEF products
<1>22. n * SumFunction(g) > 0 /\ n * SumFunction(g) \in Nat
  BY <1>16, <1>17, <1>20
<1> QED BY <1>21, <1>22 DEF Sign

(* A section that orders the organisations as their global scores do.        *)
LEMMA DriversFollow ==
  ASSUME NEW latest, Entries(latest), NEW sec, SameOrder(latest, sec)
  PROVE  Driver(latest, sec) \in {1, None}
<1> DEFINE S == Scored(latest) \intersect Having(latest, sec)
           order == SetToSeq(S)
           n == Cardinality(S)
           xs == [i \in DOMAIN order |-> latest[order[i]].sections[sec]]
           ys == [i \in DOMAIN order |-> latest[order[i]].global]
<1>1. IsFiniteSet(S)
  BY ReadingsAssumption, FS_Subset DEF Entries, Scored
<1>2. \A p \in S : latest[p].sections[sec] \in Int /\ latest[p].global \in Int
  BY DEF Entries, Scored, Having
<1>3. \A p, q \in S : latest[p].sections[sec] < latest[q].sections[sec]
                        => latest[p].global < latest[q].global
  BY DEF SameOrder
<1>4. Driver(latest, sec) = Pearson(xs, ys)
  BY DEF Driver
<1> HIDE DEF S
<1>5. n \in Nat /\ order \in [1..n -> S] /\ DOMAIN order = 1..n
  BY <1>1, ListIs
<1> HIDE DEF order, n
<1>6. xs \in [1..n -> Int] /\ ys \in [1..n -> Int]
  BY <1>2, <1>5
<1>7. \A i, j \in 1..n : xs[i] < xs[j] => ys[i] < ys[j]
  BY <1>3, <1>5
<1> HIDE DEF xs, ys
<1>8. Pearson(xs, ys) \in {1, None}
  BY <1>5, <1>6, <1>7, SameOrderCorrelates
<1> QED BY <1>4, <1>8

(* The trends follow the scores. *)
LEMMA TrendsAreRight ==
  ASSUME TypeOK, NEW latest, Entries(latest)
  PROVE  TrendsFollow(latest)
<1> DEFINE month == [at \in Nat |-> (at - 1) \div 2]
           trend == Trend(month)
<1>1. \A n \in References : SameOrder(latest, n) => Driver(latest, n) \in {1, None}
  BY DriversFollow
<1> HIDE DEF month
<1>2. Total([m \in DOMAIN trend |-> trend[m].count])
        = Quantify(Evals, LAMBDA e : /\ evals[e].status = "COMPLETED"
                                     /\ EvaluationEntry(e).global # None)
  BY MonthsAddUp
<1> QED BY <1>1, <1>2, Zenon DEF TrendsFollow, month

-----------------------------------------------------------------------------
(* Two tools. *)

(* The last evaluations of a tool, this one or another. *)
OfTool(x) ==
  /\ DOMAIN x \subseteq Profiles
  /\ \A p \in DOMAIN x : /\ x[p].global \in Int \union {None}
                         /\ x[p].sections \in [DOMAIN x[p].sections -> Int]

(* Sections of two tools that put the organisations in the same order. *)
LEMMA CrossesFollow ==
  ASSUME NEW a, NEW b, NEW sa, NEW sb, OfTool(a), OfTool(b), InStep(a, sa, b, sb)
  PROVE  CrossTool(a, sa, b, sb) \in {1, None}
<1> DEFINE S == Having(a, sa) \intersect Having(b, sb)
           order == SetToSeq(S)
           n == Cardinality(S)
           xs == [i \in DOMAIN order |-> a[order[i]].sections[sa]]
           ys == [i \in DOMAIN order |-> b[order[i]].sections[sb]]
<1>1. IsFiniteSet(S)
  BY ReadingsAssumption, FS_Subset DEF OfTool, Having
<1>2. \A p \in S : a[p].sections[sa] \in Int /\ b[p].sections[sb] \in Int
  BY DEF OfTool, Having
<1>3. \A p, q \in S : a[p].sections[sa] < a[q].sections[sa]
                        => b[p].sections[sb] < b[q].sections[sb]
  BY DEF InStep
<1>4. CrossTool(a, sa, b, sb) = Pearson(xs, ys)
  BY DEF CrossTool
<1> HIDE DEF S
<1>5. n \in Nat /\ order \in [1..n -> S] /\ DOMAIN order = 1..n
  BY <1>1, ListIs
<1> HIDE DEF order, n
<1>6. xs \in [1..n -> Int] /\ ys \in [1..n -> Int]
  BY <1>2, <1>5
<1>7. \A i, j \in 1..n : xs[i] < xs[j] => ys[i] < ys[j]
  BY <1>3, <1>5
<1> HIDE DEF xs, ys
<1>8. Pearson(xs, ys) \in {1, None}
  BY <1>5, <1>6, <1>7, SameOrderCorrelates
<1> QED BY <1>4, <1>8

(* When the organisations without a score are the same in both tools, each tool *)
(* keeps the same places, so the scores of each organisation are paired.       *)
LEMMA GlobalsFollow ==
  ASSUME NEW a, NEW b, OfTool(a), OfTool(b), ScoredAlike(a, b), GlobalsInStep(a, b)
  PROVE  GlobalCross(a, b) \in {1, None}
<1> DEFINE both == DOMAIN a \intersect DOMAIN b
           shared == SetToSeq(both)
           places(x) == {i \in DOMAIN shared : x[shared[i]].global # None}
           number(x) == [i \in places(x) |-> i]
           order(x) == InOrder(places(x), number(x))
           scores(x) == [j \in DOMAIN order(x) |-> x[shared[order(x)[j]]].global]
           N == Cardinality(both)
           n == Cardinality(places(a))
<1>1. IsFiniteSet(both)
  BY ReadingsAssumption, FS_Subset DEF OfTool
<1>2. GlobalCross(a, b) = Pearson(scores(a), scores(b))
  BY Zenon DEF GlobalCross
<1>3. N \in Nat /\ shared \in [1..N -> both] /\ DOMAIN shared = 1..N
  BY <1>1, ListIs
<1>4. places(a) = places(b)
  BY <1>3 DEF ScoredAlike
<1>5. order(b) = order(a)
  BY <1>4
<1>6. /\ IsFiniteSet(places(a))
      /\ number(a) \in [places(a) -> Int]
  <2>1. 1 \in Int /\ N \in Int
    BY <1>3
  <2>2. IsFiniteSet(1..N)
    BY <2>1, FS_Interval
  <2>3. places(a) \subseteq 1..N
    BY <1>3
  <2>4. \A i \in places(a) : i \in Int
    BY <2>3
  <2> HIDE DEF places
  <2>5. number(a) \in [places(a) -> Int]
    BY <2>4
  <2> QED BY <2>2, <2>3, <2>5, FS_Subset
<1>7. \A i \in places(a) : /\ shared[i] \in Scored(a) \intersect Scored(b)
                           /\ a[shared[i]].global \in Int /\ b[shared[i]].global \in Int
  BY <1>3, <1>4 DEF OfTool, Scored
<1> HIDE DEF places, number, shared, N
<1>8. n \in Nat /\ order(a) \in [1..n -> places(a)] /\ DOMAIN order(a) = 1..n
  BY <1>6, InOrderIs, FS_CardinalityType
<1> DEFINE xs == scores(a)
           ys == scores(b)
<1>9. xs \in [1..n -> Int] /\ ys \in [1..n -> Int]
  BY <1>5, <1>7, <1>8
<1>10. \A i, j \in 1..n : xs[i] < xs[j] => ys[i] < ys[j]
  BY <1>5, <1>7, <1>8 DEF GlobalsInStep
<1>11. Pearson(xs, ys) = GlobalCross(a, b)
  BY <1>2
<1> HIDE DEF xs, ys, n
<1>12. Pearson(xs, ys) \in {1, None}
  BY <1>8, <1>9, <1>10, SameOrderCorrelates
<1> QED BY <1>11, <1>12

(* The two kinds of correlation between tools follow the organisations. *)
LEMMA ToolsAreRight ==
  ASSUME NEW latest, Entries(latest)
  PROVE  ToolsFollow(latest, OtherTool)
<1>1. OfTool(latest)
  BY DEF Entries, OfTool
<1>2. OfTool(OtherTool)
  BY OtherToolAssumption DEF OfTool
<1> QED BY <1>1, <1>2, CrossesFollow, GlobalsFollow DEF ToolsFollow

-----------------------------------------------------------------------------
(* k-means. *)

(* a/x < b/y and b/y <= c/z make a/x < c/z. *)
LEMMA RatiosInOrder ==
  ASSUME NEW a \in Int, NEW b \in Int, NEW c \in Int,
         NEW x \in Nat \ {0}, NEW y \in Nat \ {0}, NEW z \in Nat \ {0},
         a * y < b * x, ~(c * y < b * z)
  PROVE  a * z < c * x
<1> SUFFICES ASSUME ~(a * z < c * x) PROVE FALSE
  OBVIOUS
<1>1. \A u, v \in Int : u * v \in Int
  OBVIOUS
<1>2. \A u, v \in Nat : u * v \in Nat
  OBVIOUS
<1>3. \A u, v \in Nat : u > 0 /\ v > 0 => u * v > 0
  OBVIOUS
<1>4. /\ a * z \in Int /\ c * x \in Int /\ a * y \in Int /\ b * x \in Int
      /\ c * y \in Int /\ b * z \in Int
  BY <1>1
<1>5. /\ a * z - c * x \in Nat
      /\ b * x - a * y \in Nat /\ b * x - a * y > 0
      /\ c * y - b * z \in Nat
  BY <1>4
<1>6. (a * z - c * x) * y \in Nat
  BY <1>2, <1>5
<1>7. (b * x - a * y) * z > 0 /\ (b * x - a * y) * z \in Nat
  BY <1>2, <1>3, <1>5
<1>8. (c * y - b * z) * x \in Nat
  BY <1>2, <1>5
<1>9. (a * z - c * x) * y + (b * x - a * y) * z + (c * y - b * z) * x = 0
  OBVIOUS
<1> QED BY <1>6, <1>7, <1>8, <1>9

(* What so many steps from a base go through. *)
ChainOf(t, V, base, step, n) ==
  /\ t \in [0..n -> V]
  /\ \A k \in 0..n : t[k] = IF k = 0 THEN base ELSE step[t[k - 1]]

(* Steps that stay in a set can be followed as far as one likes. *)
LEMMA ChainsExist ==
  ASSUME NEW V, NEW base \in V, NEW step \in [V -> V], NEW size \in Nat
  PROVE  \E t : ChainOf(t, V, base, step, size)
<1> DEFINE Chain(n, t) == ChainOf(t, V, base, step, n)
           Bad == {n \in Nat : ~ \E t : Chain(n, t)}
<1>1. Bad = {}
  <2> SUFFICES ASSUME Bad # {} PROVE FALSE
    OBVIOUS
  <2>1. PICK n \in Bad : \A m \in Bad : n <= m
    <3>1. Bad \subseteq Nat
      OBVIOUS
    <3> HIDE DEF Bad
    <3> QED BY <3>1, Least
  <2>2. n \in Nat /\ ~ \E t : Chain(n, t)
    OBVIOUS
  <2>3. CASE n = 0
    <3> DEFINE t == [k \in 0..0 |-> base]
    <3>1. Chain(0, t)
      BY DEF ChainOf
    <3> HIDE DEF Chain
    <3> QED BY <2>2, <2>3, <3>1
  <2>4. CASE n # 0
    <3>1. n - 1 \in Nat /\ n - 1 < n
      BY <2>2, <2>4
    <3>2. n - 1 \notin Bad
      <4> HIDE DEF Bad
      <4> QED BY <2>1, <2>2, <3>1
    <3>3. PICK t : Chain(n - 1, t)
      BY <3>1, <3>2
    <3> DEFINE u == [k \in 0..n |-> IF k = n THEN step[t[n - 1]] ELSE t[k]]
    <3>4. \A k \in 0..n : k = n \/ k \in 0..(n - 1)
      BY <2>2
    <3>5. t[n - 1] \in V /\ step[t[n - 1]] \in V
      BY <3>1, <3>3 DEF ChainOf
    <3>6. u \in [0..n -> V]
      BY <3>3, <3>4, <3>5 DEF ChainOf
    <3>7. ASSUME NEW k \in 0..n PROVE u[k] = IF k = 0 THEN base ELSE step[u[k - 1]]
      <4>1. CASE k = n
        <5>1. u[k - 1] = t[n - 1] /\ u[k] = step[t[n - 1]]
          BY <2>2, <3>1, <4>1
        <5> QED BY <2>4, <4>1, <5>1
      <4>2. CASE k # n
        <5>1. k \in 0..(n - 1) /\ u[k] = t[k]
          BY <3>4, <4>2
        <5>2. k # 0 => k - 1 \in 0..n /\ k - 1 # n
          BY <2>2, <5>1
        <5>3. k # 0 => u[k - 1] = t[k - 1]
          BY <5>2
        <5> HIDE DEF u
        <5> QED BY <3>3, <5>1, <5>3 DEF ChainOf
      <4> QED BY <4>1, <4>2
    <3> HIDE DEF u
    <3>8. Chain(n, u)
      BY <3>6, <3>7 DEF ChainOf
    <3> HIDE DEF Chain
    <3> QED BY <2>2, <3>8
  <2> QED BY <2>3, <2>4
<1> QED BY <1>1

(* Centroids over some dimensions, and what the loop keeps. *)
Centroids(D) == [sum : [D -> Int], n : Nat \ {0}]
RunsTyped(I, D, K) ==
  [centroids : [1..K -> Centroids(D)], assignments : [I -> 1..K],
   iterations : Nat, settled : BOOLEAN]

(* A distance is a whole number. *)
LEMMA DistanceIsInt ==
  ASSUME NEW D, IsFiniteSet(D), NEW p \in [D -> Int], NEW c \in Centroids(D)
  PROVE  SquaredDistance(p, c) \in Int /\ Square(c.n) \in Nat \ {0}
<1> DEFINE f == [d \in D |-> Square(c.n * p[d] - c.sum[d])]
<1>1. \A u, v \in Int : u * v \in Int
  OBVIOUS
<1>2. c.sum \in [D -> Int] /\ c.n \in Nat \ {0} /\ c.n \in Int
  BY DEF Centroids
<1>3. ASSUME NEW d \in D PROVE Square(c.n * p[d] - c.sum[d]) \in Int
  <2>1. c.n * p[d] \in Int /\ c.sum[d] \in Int
    BY <1>1, <1>2
  <2>2. c.n * p[d] - c.sum[d] \in Int
    BY <2>1
  <2> QED BY <1>1, <2>2 DEF Square
<1>4. f \in [D -> Int]
  BY <1>3
<1>5. SquaredDistance(p, c) = SumFunction(f)
  BY DEF SquaredDistance, Total
<1> HIDE DEF f
<1>6. SumFunction(f) \in Int
  BY <1>4, SumIsInt
<1>7. \A u \in Nat \ {0} : u * u \in Nat \ {0}
  OBVIOUS
<1> QED BY <1>2, <1>5, <1>6, <1>7 DEF Square

(* The nearest centroid is one of them, and none is closer. *)
LEMMA NearestIs ==
  ASSUME NEW D, IsFiniteSet(D), NEW p \in [D -> Int], NEW K \in Nat \ {0},
         NEW centroids \in [1..K -> Centroids(D)]
  PROVE  /\ NearestTo(p, centroids) \in 1..K
         /\ \A d \in 1..K : ~Closer(p, centroids[d], centroids[NearestTo(p, centroids)])
<1> DEFINE closer(c, d) == Closer(p, centroids[c], centroids[d])
           Nearest(n, c) == \A d \in 1..n : ~closer(d, c) /\ (d < c => closer(c, d))
           Bad == {n \in Nat : n > 0 /\ n <= K /\ ~ \E c \in 1..n : Nearest(n, c)}
<1>1. \A c, d, e \in 1..K : closer(c, d) /\ ~closer(e, d) => closer(c, e)
  <2> SUFFICES ASSUME NEW c \in 1..K, NEW d \in 1..K, NEW e \in 1..K,
                      closer(c, d), ~closer(e, d)
               PROVE  closer(c, e)
    OBVIOUS
  <2>1. /\ centroids[c] \in Centroids(D) /\ centroids[d] \in Centroids(D)
        /\ centroids[e] \in Centroids(D)
    OBVIOUS
  <2>2. /\ SquaredDistance(p, centroids[c]) \in Int /\ Square(centroids[c].n) \in Nat \ {0}
        /\ SquaredDistance(p, centroids[d]) \in Int /\ Square(centroids[d].n) \in Nat \ {0}
        /\ SquaredDistance(p, centroids[e]) \in Int /\ Square(centroids[e].n) \in Nat \ {0}
    BY <2>1, DistanceIsInt
  <2>3. /\ SquaredDistance(p, centroids[c]) * Square(centroids[d].n)
             < SquaredDistance(p, centroids[d]) * Square(centroids[c].n)
        /\ ~(SquaredDistance(p, centroids[e]) * Square(centroids[d].n)
               < SquaredDistance(p, centroids[d]) * Square(centroids[e].n))
    BY DEF Closer
  <2>4. SquaredDistance(p, centroids[c]) * Square(centroids[e].n)
          < SquaredDistance(p, centroids[e]) * Square(centroids[c].n)
    BY <2>2, <2>3, RatiosInOrder
  <2> QED BY <2>4 DEF Closer
<1>2. \A c, d \in 1..K : closer(c, d) => ~closer(d, c)
  <2> SUFFICES ASSUME NEW c \in 1..K, NEW d \in 1..K PROVE closer(c, d) => ~closer(d, c)
    OBVIOUS
  <2>1. /\ SquaredDistance(p, centroids[c]) \in Int /\ Square(centroids[c].n) \in Int
        /\ SquaredDistance(p, centroids[d]) \in Int /\ Square(centroids[d].n) \in Int
    BY DistanceIsInt
  <2>2. \A u, v \in Int : u * v \in Int
    OBVIOUS
  <2>3. /\ SquaredDistance(p, centroids[c]) * Square(centroids[d].n) \in Int
        /\ SquaredDistance(p, centroids[d]) * Square(centroids[c].n) \in Int
    BY <2>1, <2>2
  <2> QED BY <2>3 DEF Closer
<1> HIDE DEF closer
<1>3. Bad = {}
  <2> SUFFICES ASSUME Bad # {} PROVE FALSE
    OBVIOUS
  <2>1. PICK n \in Bad : \A m \in Bad : n <= m
    <3>1. Bad \subseteq Nat
      OBVIOUS
    <3> HIDE DEF Bad
    <3> QED BY <3>1, Least
  <2>2. n \in Nat /\ n > 0 /\ n <= K /\ ~ \E c \in 1..n : Nearest(n, c)
    OBVIOUS
  <2>3. CASE n = 1
    <3>1. Nearest(1, 1)
      BY <1>2
    <3> HIDE DEF Nearest
    <3> QED BY <2>2, <2>3, <3>1
  <2>4. CASE n # 1
    <3>1. n - 1 \in Nat /\ n - 1 < n /\ n - 1 > 0 /\ n - 1 <= K
      BY <2>2, <2>4
    <3>2. n - 1 \notin Bad
      <4> HIDE DEF Bad
      <4> QED BY <2>1, <2>2, <3>1
    <3>3. PICK c \in 1..(n - 1) : Nearest(n - 1, c)
      BY <3>1, <3>2
    <3>4. /\ c \in 1..n /\ c \in 1..K /\ c < n /\ n \in 1..n /\ n \in 1..K
          /\ \A d \in 1..n : d \in 1..K /\ (d = n \/ d \in 1..(n - 1))
      BY <2>2
    <3>5. CASE closer(n, c)
      <4>1. \A d \in 1..(n - 1) : closer(n, d)
        BY <1>1, <3>3, <3>4, <3>5
      <4>2. \A d \in 1..(n - 1) : ~closer(d, n)
        BY <1>1, <1>2, <3>4, <4>1
      <4>3. Nearest(n, n)
        BY <1>2, <3>4, <4>1, <4>2
      <4> HIDE DEF Nearest
      <4> QED BY <2>2, <3>4, <4>3
    <3>6. CASE ~closer(n, c)
      <4>1. Nearest(n, c)
        BY <2>2, <3>3, <3>4, <3>6
      <4> HIDE DEF Nearest
      <4> QED BY <2>2, <3>4, <4>1
    <3> QED BY <3>5, <3>6
  <2> QED BY <2>3, <2>4
<1>4. \E c \in 1..K : Nearest(K, c)
  <2>1. K \notin Bad
    BY <1>3
  <2> HIDE DEF Nearest
  <2> QED BY <2>1
<1>5. DOMAIN centroids = 1..K
  OBVIOUS
<1>6. NearestTo(p, centroids) = CHOOSE c \in 1..K : Nearest(K, c)
  BY <1>5 DEF NearestTo, closer
<1>7. NearestTo(p, centroids) \in 1..K /\ Nearest(K, NearestTo(p, centroids))
  <2> HIDE DEF Nearest
  <2> QED BY <1>4, <1>6, Zenon
<1> QED BY <1>7 DEF closer

(* Points by their number, centroids by theirs, and the centroid of each point. *)
PointsOver(I, D) == [I -> [D -> Int]]
CentroidsOver(K, D) == [1..K -> Centroids(D)]
AssignmentsOver(I, K) == [I -> 1..K]

(* Centroids that move are centroids, and moving again to the same members     *)
(* changes nothing.                                                          *)
LEMMA MovedIs ==
  ASSUME NEW I, IsFiniteSet(I), NEW D, NEW points \in PointsOver(I, D), NEW K \in Nat \ {0},
         NEW centroids \in CentroidsOver(K, D), NEW assignments \in AssignmentsOver(I, K)
  PROVE  /\ Moved(points, centroids, assignments) \in CentroidsOver(K, D)
         /\ Moved(points, Moved(points, centroids, assignments), assignments)
              = Moved(points, centroids, assignments)
<1> DEFINE moved == Moved(points, centroids, assignments)
           members(c) == {i \in I : assignments[i] = c}
           mean(c) == [sum |-> [d \in D |-> Total([i \in members(c) |-> points[i][d]])],
                       n |-> Cardinality(members(c))]
<1> USE DEF PointsOver, CentroidsOver, AssignmentsOver
<1>1. \A cs \in [1..K -> Centroids(D)] :
        Moved(points, cs, assignments)
          = [c \in 1..K |-> IF members(c) = {} THEN cs[c] ELSE mean(c)]
  <2> SUFFICES ASSUME NEW cs \in [1..K -> Centroids(D)]
               PROVE  Moved(points, cs, assignments)
                        = [c \in 1..K |-> IF members(c) = {} THEN cs[c] ELSE mean(c)]
    OBVIOUS
  <2>1. DOMAIN cs = 1..K /\ DOMAIN points = I
    OBVIOUS
  <2>2. \A c \in 1..K : DOMAIN cs[c].sum = D
    BY DEF Centroids
  <2> QED BY <2>1, <2>2 DEF Moved
<1>2. ASSUME NEW c \in 1..K, members(c) # {} PROVE mean(c) \in Centroids(D)
  <2>1. IsFiniteSet(members(c)) /\ Cardinality(members(c)) \in Nat
    <3>1. members(c) \in SUBSET I
      OBVIOUS
    <3> HIDE DEF members
    <3> QED BY <3>1, SubsetSizes
  <2>2. Cardinality(members(c)) # 0
    BY <1>2, <2>1, FS_EmptySet
  <2>3. \A d \in D : Total([i \in members(c) |-> points[i][d]]) \in Int
    <3> SUFFICES ASSUME NEW d \in D PROVE Total([i \in members(c) |-> points[i][d]]) \in Int
      OBVIOUS
    <3> DEFINE f == [i \in members(c) |-> points[i][d]]
    <3>1. f \in [members(c) -> Int]
      OBVIOUS
    <3> HIDE DEF members, f
    <3>2. SumFunction(f) \in Int
      BY <2>1, <3>1, SumIsInt
    <3> QED BY <3>2 DEF Total, f
  <2> HIDE DEF members
  <2>4. [d \in D |-> Total([i \in members(c) |-> points[i][d]])] \in [D -> Int]
    BY <2>3
  <2> QED BY <2>1, <2>2, <2>4 DEF Centroids
<1>3. moved = [c \in 1..K |-> IF members(c) = {} THEN centroids[c] ELSE mean(c)]
  BY <1>1
<1> HIDE DEF members, mean, moved
<1>4. moved \in [1..K -> Centroids(D)]
  BY <1>2, <1>3
<1>5. Moved(points, moved, assignments)
        = [c \in 1..K |-> IF members(c) = {} THEN moved[c] ELSE mean(c)]
  BY <1>1, <1>4
<1>6. Moved(points, moved, assignments) = moved
  BY <1>3, <1>5
<1> QED BY <1>4, <1>6 DEF moved

(* What every turn of the loop leaves: centroids that are where their members  *)
(* put them, after the first; and once it has settled, every point with the   *)
(* nearest one.                                                              *)
LoopInv(points, run, turn) ==
  /\ run.settled \/ run.iterations = turn
  /\ run.iterations > 0 => Moved(points, run.centroids, run.assignments) = run.centroids
  /\ run.settled => \A i \in DOMAIN points :
       run.assignments[i] = NearestTo(points[i], run.centroids)

(* A turn keeps it. *)
LEMMA TurnIs ==
  ASSUME NEW I, IsFiniteSet(I), NEW D, IsFiniteSet(D), NEW points \in [I -> [D -> Int]],
         NEW K \in Nat \ {0}, NEW run \in RunsTyped(I, D, K)
  PROVE  /\ Turn(points, run) \in RunsTyped(I, D, K)
         /\ \A turn \in Nat : LoopInv(points, run, turn)
                                => LoopInv(points, Turn(points, run), turn + 1)
<1> DEFINE next == [i \in I |-> NearestTo(points[i], run.centroids)]
           settled == next = run.assignments /\ run.iterations > 0
           moved == Moved(points, run.centroids, next)
           after == [centroids |-> moved, assignments |-> next,
                     iterations |-> IF settled THEN run.iterations ELSE run.iterations + 1,
                     settled |-> settled]
<1>1. /\ run.centroids \in [1..K -> Centroids(D)] /\ run.assignments \in [I -> 1..K]
      /\ run.iterations \in Nat /\ run.settled \in BOOLEAN
  BY DEF RunsTyped
<1>2. DOMAIN points = I /\ \A i \in I : points[i] \in [D -> Int]
  OBVIOUS
<1>3. Turn(points, run) = IF run.settled THEN run ELSE after
  BY <1>2 DEF Turn
<1>4. \A i \in I : NearestTo(points[i], run.centroids) \in 1..K
  BY <1>1, <1>2, NearestIs
<1>5. next \in [I -> 1..K]
  BY <1>4
<1>6. \A i \in I : next[i] = NearestTo(points[i], run.centroids)
  OBVIOUS
<1> HIDE DEF next
<1>7. moved \in [1..K -> Centroids(D)] /\ Moved(points, moved, next) = moved
  <2>1. /\ points \in PointsOver(I, D) /\ run.centroids \in CentroidsOver(K, D)
        /\ next \in AssignmentsOver(I, K)
    BY <1>1, <1>5 DEF PointsOver, CentroidsOver, AssignmentsOver
  <2>2. moved \in CentroidsOver(K, D) /\ Moved(points, moved, next) = moved
    BY <2>1, MovedIs
  <2> QED BY <2>2 DEF CentroidsOver
<1> HIDE DEF moved
<1>8. /\ after.centroids = moved /\ after.assignments = next
      /\ after.settled = settled /\ settled \in BOOLEAN
      /\ after.iterations = IF settled THEN run.iterations ELSE run.iterations + 1
  OBVIOUS
<1>9. after \in RunsTyped(I, D, K)
  <2>1. settled \in BOOLEAN
    OBVIOUS
  <2> HIDE DEF settled
  <2> QED BY <1>1, <1>5, <1>7, <2>1 DEF RunsTyped
<1>10. ASSUME NEW turn \in Nat, LoopInv(points, run, turn), ~run.settled
       PROVE  LoopInv(points, after, turn + 1)
  <2>1. run.iterations = turn
    BY <1>10 DEF LoopInv
  <2>2. settled => moved = run.centroids
    <3>1. ASSUME settled PROVE moved = run.centroids
      <4>1. Moved(points, run.centroids, run.assignments) = run.centroids
        BY <1>10, <3>1 DEF LoopInv
      <4> QED BY <3>1, <4>1 DEF moved
    <3> QED BY <3>1
  <2> HIDE DEF after
  <2>3. after.settled \/ after.iterations = turn + 1
    BY <1>8, <2>1
  <2>4. Moved(points, after.centroids, after.assignments) = after.centroids
    BY <1>7, <1>8
  <2>5. after.settled => \A i \in DOMAIN points :
          after.assignments[i] = NearestTo(points[i], after.centroids)
    <3> HIDE DEF settled
    <3> QED BY <1>2, <1>6, <1>8, <2>2
  <2> QED BY <2>3, <2>4, <2>5 DEF LoopInv
<1>11. \A turn \in Nat : LoopInv(points, run, turn) /\ run.settled
                           => LoopInv(points, run, turn + 1)
  BY DEF LoopInv
<1> HIDE DEF after
<1>12. CASE run.settled
  BY <1>3, <1>11, <1>12
<1>13. CASE ~run.settled
  BY <1>3, <1>9, <1>10, <1>13
<1> QED BY <1>12, <1>13

(* The turns of the loop, from some centroids. *)
RunsOf(points, centroids, runs) ==
  runs = [turn \in 0..MAX_ITERATIONS |->
           IF turn = 0
           THEN [centroids |-> centroids, assignments |-> [i \in DOMAIN points |-> 1],
                 iterations |-> 0, settled |-> FALSE]
           ELSE Turn(points, runs[turn - 1])]

(* What the loop returns is settled, or is what its last turn left. *)
LEMMA LloydIs ==
  ASSUME NEW I, IsFiniteSet(I), NEW D, IsFiniteSet(D), NEW points \in [I -> [D -> Int]],
         NEW K \in Nat \ {0}, NEW centroids \in [1..K -> Centroids(D)]
  PROVE  LET result == Lloyd(points, centroids) IN
         /\ result \in RunsTyped(I, D, K)
         /\ LoopInv(points, result, MAX_ITERATIONS)
<1> DEFINE V == RunsTyped(I, D, K)
           base == [centroids |-> centroids, assignments |-> [i \in I |-> 1],
                    iterations |-> 0, settled |-> FALSE]
           step == [run \in V |-> Turn(points, run)]
           runs == CHOOSE runs : RunsOf(points, centroids, runs)
           last == MAX_ITERATIONS
<1>1. Lloyd(points, centroids) = runs[last]
  BY DEF Lloyd, RunsOf
<1>2. last \in Nat
  BY DEF MAX_ITERATIONS
<1>3. base \in V /\ LoopInv(points, base, 0)
  <2>1. [i \in I |-> 1] \in [I -> 1..K]
    OBVIOUS
  <2> QED BY <2>1 DEF RunsTyped, LoopInv
<1>4. step \in [V -> V] /\ \A run \in V : step[run] = Turn(points, run)
  BY TurnIs
<1>5. \E t : RunsOf(points, centroids, t)
  <2> HIDE DEF V, base, step, last
  <2>0. PICK t : ChainOf(t, V, base, step, last)
    BY <1>2, <1>3, <1>4, ChainsExist
  <2>1. /\ t \in [0..last -> V]
        /\ \A k \in 0..last : t[k] = IF k = 0 THEN base ELSE step[t[k - 1]]
    BY <2>0 DEF ChainOf
  <2>2. \A k \in 0..last : k # 0 => k - 1 \in 0..last
    BY <1>2
  <2>3. \A k \in 0..last : t[k] = IF k = 0 THEN base ELSE Turn(points, t[k - 1])
    BY <1>4, <2>1, <2>2
  <2>4. t = [k \in 0..last |-> IF k = 0 THEN base ELSE Turn(points, t[k - 1])]
    BY <2>1, <2>3
  <2>5. DOMAIN points = I
    OBVIOUS
  <2>6. RunsOf(points, centroids, t)
    BY <2>4, <2>5 DEF RunsOf, base, last
  <2> QED BY <2>6
<1>6. RunsOf(points, centroids, runs)
  BY <1>5
<1>7. \A k \in 0..last : runs[k] = IF k = 0 THEN base ELSE Turn(points, runs[k - 1])
  <2>1. DOMAIN points = I
    OBVIOUS
  <2> HIDE DEF runs
  <2> QED BY <1>6, <2>1 DEF RunsOf
<1> DEFINE Bad == {k \in Nat : k \in 0..last /\ ~(runs[k] \in V /\ LoopInv(points, runs[k], k))}
<1> HIDE DEF runs, base, V, step, last
<1>8. Bad = {}
  <2> SUFFICES ASSUME Bad # {} PROVE FALSE
    OBVIOUS
  <2>1. PICK k \in Bad : \A m \in Bad : k <= m
    <3>1. Bad \subseteq Nat
      OBVIOUS
    <3> HIDE DEF Bad
    <3> QED BY <3>1, Least
  <2>2. k \in Nat /\ k \in 0..last /\ ~(runs[k] \in V /\ LoopInv(points, runs[k], k))
    OBVIOUS
  <2>3. k # 0
    BY <1>3, <1>7, <2>2
  <2>4. k - 1 \in Nat /\ k - 1 \in 0..last /\ k - 1 < k /\ (k - 1) + 1 = k
    BY <1>2, <2>2, <2>3
  <2>5. k - 1 \notin Bad
    <3> HIDE DEF Bad
    <3> QED BY <2>1, <2>4
  <2>6. runs[k - 1] \in V /\ LoopInv(points, runs[k - 1], k - 1)
    BY <2>4, <2>5
  <2>7. runs[k] = Turn(points, runs[k - 1])
    BY <1>7, <2>2, <2>3
  <2>8. Turn(points, runs[k - 1]) \in V /\ LoopInv(points, Turn(points, runs[k - 1]), (k - 1) + 1)
    BY <2>4, <2>6, TurnIs DEF V
  <2> QED BY <2>2, <2>4, <2>7, <2>8
<1>9. runs[last] \in V /\ LoopInv(points, runs[last], last)
  BY <1>2, <1>8
<1> QED BY <1>1, <1>9 DEF V, last

(* The centroids the loop starts from are points of the data. *)
LEMMA InitialCentroidsAre ==
  ASSUME NEW N \in Nat \ {0}, NEW D, IsFiniteSet(D), NEW points \in [1..N -> [D -> Int]],
         NEW K \in 1..N
  PROVE  InitialCentroids(points, K) \in [1..K -> Centroids(D)]
<1> DEFINE I == 1..N
           number == [i \in I |-> N * Total(points[i]) + i]
           order == InOrder(I, number)
           at(c) == ((2 * c - 1) * N) \div (2 * K) + 1
<1>1. IsFiniteSet(I) /\ Cardinality(I) = N /\ Len(points) = N /\ DOMAIN points = I
  <2>1. IsFiniteSet(1..N) /\ Cardinality(1..N) = IF 1 > N THEN 0 ELSE N - 1 + 1
    BY FS_Interval
  <2> QED BY <2>1
<1>2. number \in [I -> Int]
  <2>1. ASSUME NEW i \in I PROVE N * Total(points[i]) + i \in Int
    <3>1. points[i] \in [D -> Int]
      OBVIOUS
    <3>2. Total(points[i]) \in Int
      BY <3>1, SumIsInt DEF Total
    <3>3. \A x \in Int : N * x + i \in Int
      OBVIOUS
    <3> QED BY <3>2, <3>3
  <2> HIDE DEF I
  <2> QED BY <2>1
<1>3. order \in [1..N -> I]
  <2> HIDE DEF I, number
  <2>1. InOrder(I, number) \in [1..Cardinality(I) -> I]
    BY <1>1, <1>2, InOrderIs
  <2> QED BY <1>1, <2>1
<1>4. \A c \in 1..K : at(c) \in 1..N
  <2> SUFFICES ASSUME NEW c \in 1..K PROVE at(c) \in 1..N
    OBVIOUS
  <2> DEFINE x == (2 * c - 1) * N
             d == 2 * K
             q == x \div d
             r == x % d
  <2>1. 2 * c - 1 \in Nat /\ N \in Nat /\ K \in Nat /\ K > 0 /\ d \in Nat /\ d > 0
    OBVIOUS
  <2>2. \A u, v \in Nat : u * v \in Nat
    OBVIOUS
  <2>3. x \in Nat
    BY <2>1, <2>2
  <2>4. x < d * N
    <3>1. d - (2 * c - 1) \in Nat /\ d - (2 * c - 1) > 0
      OBVIOUS
    <3>2. \A u, v \in Nat : u > 0 /\ v > 0 => u * v > 0
      OBVIOUS
    <3>3. (d - (2 * c - 1)) * N > 0
      BY <3>1, <3>2
    <3>4. (d - (2 * c - 1)) * N = d * N - x
      OBVIOUS
    <3>5. d * N \in Nat
      BY <2>1, <2>2
    <3> QED BY <2>3, <3>3, <3>4, <3>5
  <2> HIDE DEF x, d
  <2>5. q \in Int /\ r \in 0..(d - 1) /\ x = d * q + r
    BY <2>1, <2>3
  <2> HIDE DEF q, r
  <2>6. q >= 0
    <3> SUFFICES ASSUME q < 0 PROVE FALSE
      BY <2>5
    <3>1. -q - 1 \in Nat
      BY <2>5
    <3>2. d * (-q - 1) \in Nat
      BY <2>1, <2>2, <3>1
    <3>3. \A u \in Int : d * (-u - 1) = -(d * u) - d /\ d * u \in Int
      BY <2>1
    <3>4. d * (-q - 1) = -(d * q) - d /\ d * q \in Int
      BY <2>5, <3>3
    <3>5. d * q <= -d /\ d * q \in Int /\ d \in Nat /\ r \in Int /\ r < d
      BY <2>1, <2>5, <3>2, <3>4
    <3> DEFINE y == d * q
    <3>6. x = y + r /\ x \in Nat /\ y <= -d /\ y \in Int
      BY <2>3, <2>5, <3>5
    <3> HIDE DEF y
    <3> QED BY <3>5, <3>6
  <2>7. q < N
    <3> SUFFICES ASSUME N <= q PROVE FALSE
      BY <2>1, <2>5
    <3>1. q - N \in Nat
      BY <2>1, <2>5
    <3>2. d * (q - N) \in Nat
      BY <2>1, <2>2, <3>1
    <3>3. \A u, v \in Int : d * (u - v) = d * u - d * v /\ d * u \in Int /\ d * v \in Int
      BY <2>1
    <3>4. d * (q - N) = d * q - d * N /\ d * q \in Int /\ d * N \in Int
      BY <2>1, <2>5, <3>3
    <3> DEFINE y == d * q
               z == d * N
    <3>5. y - z \in Nat /\ y \in Int /\ z \in Int /\ x = y + r /\ x < z
      BY <2>4, <2>5, <3>2, <3>4
    <3>6. r \in Nat
      BY <2>1, <2>5
    <3> HIDE DEF y, z
    <3> QED BY <3>5, <3>6
  <2> QED BY <2>1, <2>5, <2>6, <2>7 DEF q, x, d
<1> HIDE DEF at, order
<1>5. InitialCentroids(points, K) = [c \in 1..K |-> [sum |-> points[order[at(c)]], n |-> 1]]
  BY <1>1 DEF InitialCentroids, at, order
<1>6. \A c \in 1..K : points[order[at(c)]] \in [D -> Int]
  BY <1>3, <1>4
<1> QED BY <1>5, <1>6 DEF Centroids

(* Every point is in a cluster whose centroid none is nearer than, when the    *)
(* loop ended before its last turn.                                          *)
LEMMA KMeansIs ==
  ASSUME NEW N \in Nat, NEW D, IsFiniteSet(D), NEW points \in [1..N -> [D -> Int]],
         NEW k \in Nat, k > 0,
         KMeans(points, k).iterations < MAX_ITERATIONS
  PROVE  Settled(points, KMeans(points, k))
<1>1. CASE N = 0
  <2>1. DOMAIN points = {}
    BY <1>1
  <2> QED BY <2>1 DEF Settled
<1>2. CASE N # 0
  <2> DEFINE K == Max({1, Min({k, Len(points)})})
             centroids == InitialCentroids(points, K)
             result == Lloyd(points, centroids)
  <2>1. Len(points) = N /\ points # <<>> /\ DOMAIN points = 1..N
    BY <1>2
  <2>2. K \in 1..N
    <3> DEFINE low == Min({k, Len(points)})
    <3>1. low \in {k, N} /\ low <= k /\ low <= N
      <4>1. k \in Int /\ N \in Int
        OBVIOUS
      <4> QED BY <2>1, <4>1, OfTwo
    <3>2. low \in Int /\ low >= 1 /\ low <= N
      BY <1>2, <3>1
    <3> HIDE DEF low
    <3>3. Max({1, low}) \in {1, low} /\ Max({1, low}) >= 1
      <4>1. 1 \in Int
        OBVIOUS
      <4> QED BY <3>2, <4>1, OfTwo
    <3> QED BY <1>2, <3>2, <3>3 DEF low
  <2>3. KMeans(points, k) = result
    BY <2>1 DEF KMeans
  <2> HIDE DEF K
  <2>4. K \in Nat \ {0} /\ N \in Nat \ {0}
    BY <1>2, <2>2
  <2>5. centroids \in [1..K -> Centroids(D)]
    BY <2>2, <2>4, InitialCentroidsAre
  <2> HIDE DEF centroids
  <2>6. result \in RunsTyped(1..N, D, K) /\ LoopInv(points, result, MAX_ITERATIONS)
    <3> DEFINE I == 1..N
    <3>1. IsFiniteSet(I)
      BY <2>4, FS_Interval
    <3>2. points \in [I -> [D -> Int]]
      OBVIOUS
    <3> HIDE DEF I
    <3>3. result \in RunsTyped(I, D, K) /\ LoopInv(points, result, MAX_ITERATIONS)
      BY <2>4, <2>5, <3>1, <3>2, LloydIs
    <3> QED BY <3>3 DEF I
  <2> HIDE DEF result
  <2>7. /\ result.centroids \in [1..K -> Centroids(D)] /\ result.assignments \in [1..N -> 1..K]
        /\ result.iterations \in Nat /\ result.settled \in BOOLEAN
    BY <2>6 DEF RunsTyped
  <2>8. result.settled
    BY <2>3, <2>6, <2>7 DEF LoopInv, MAX_ITERATIONS
  <2>9. \A i \in 1..N : result.assignments[i] = NearestTo(points[i], result.centroids)
    BY <2>1, <2>6, <2>8 DEF LoopInv
  <2>10. \A i \in 1..N :
           /\ NearestTo(points[i], result.centroids) \in 1..K
           /\ \A c \in 1..K : ~Closer(points[i], result.centroids[c],
                                result.centroids[NearestTo(points[i], result.centroids)])
    <3>1. \A i \in 1..N : points[i] \in [D -> Int]
      OBVIOUS
    <3> QED BY <2>4, <2>7, <3>1, NearestIs
  <2>11. DOMAIN result.centroids = 1..K
    BY <2>7
  <2>12. Settled(points, result)
    BY <2>1, <2>9, <2>10, <2>11 DEF Settled
  <2> QED BY <2>3, <2>12
<1> QED BY <1>1, <1>2

(* So it is with the clusters of the organisations. *)
LEMMA ClustersAreRight ==
  ASSUME TypeOK, NEW latest, Entries(latest)
  PROVE  ClustersSettle(latest)
<1> DEFINE S == Scored(latest)
           N == Cardinality(S)
           dims == SetToSeq(References)
           D == 1..Cardinality(References)
           points == Points(latest)
<1>1. /\ N \in Nat /\ SetToSeq(S) \in [1..N -> S] /\ DOMAIN SetToSeq(S) = 1..N
      /\ S \subseteq DOMAIN latest
  <2>1. IsFiniteSet(S) /\ S \subseteq DOMAIN latest
    BY ReadingsAssumption, FS_Subset DEF Entries, Scored
  <2> HIDE DEF S
  <2> QED BY <2>1, ListIs
<1>2. DOMAIN dims = D /\ IsFiniteSet(D)
  <2>1. Reference \in DOMAIN Template
    BY ReferenceIs
  <2>2. IsFiniteSet(References)
    BY <2>1, TemplateFinite DEF References
  <2>3. DOMAIN dims = D /\ Cardinality(References) \in Nat
    BY <2>2, ListIs
  <2> QED BY <2>3, FS_Interval
<1>3. points = [i \in 1..N |-> [d \in D |->
                 IF dims[d] \in DOMAIN latest[SetToSeq(S)[i]].sections
                 THEN latest[SetToSeq(S)[i]].sections[dims[d]] ELSE 0]]
  <2> HIDE DEF D, S, N
  <2> QED BY <1>1, <1>2 DEF Points, Each, S
<1> HIDE DEF S, N, dims, D, points
<1>4. points \in [1..N -> [D -> Int]]
  <2>1. ASSUME NEW p \in S, NEW d \in D
        PROVE  (IF dims[d] \in DOMAIN latest[p].sections THEN latest[p].sections[dims[d]] ELSE 0)
                 \in Int
    <3>1. latest[p].sections \in [DOMAIN latest[p].sections -> Int]
      BY <1>1 DEF Entries
    <3> QED BY <3>1
  <2>2. \A i \in 1..N : SetToSeq(S)[i] \in S
    BY <1>1
  <2> QED BY <1>3, <2>1, <2>2
<1>5. ASSUME NEW k \in 1..6, Clusters(latest, k).iterations < MAX_ITERATIONS
      PROVE  Settled(Points(latest), Clusters(latest, k))
  <2> DEFINE K == Max({1, Min({k, 6})})
             low == Min({k, 6})
  <2>1. low \in {k, 6} /\ low \in Int
    <3>1. k \in Int /\ 6 \in Int
      OBVIOUS
    <3> QED BY <3>1, OfTwo
  <2> HIDE DEF low
  <2>2. Max({1, low}) \in {1, low} /\ Max({1, low}) >= 1
    BY <2>1, OfTwo
  <2>3. K \in Nat /\ K > 0
    BY <2>1, <2>2 DEF low
  <2>4. Clusters(latest, k) = KMeans(points, K)
    BY DEF Clusters, points
  <2> HIDE DEF K
  <2>5. Settled(points, KMeans(points, K))
    BY <1>1, <1>2, <1>4, <1>5, <2>3, <2>4, KMeansIs
  <2> QED BY <2>4, <2>5 DEF points
<1> QED BY <1>5 DEF ClustersSettle

(* What the analytics break the organisations down into adds up to them: each  *)
(* is in one bin of the histogram, one segment and one month, each compared    *)
(* KPI in one group, and each critical KPI in one gap; a settled cluster has   *)
(* its organisations nearest to it; a section that orders them as their global *)
(* scores do never correlates against them; and no more do two tools that put  *)
(* them in the same order.                                                    *)
THEOREM BreakdownsAddUp == Spec => []BreakdownsHold
<1>1. TypeOK => BreakdownsHold
  BY LatestAreEntries, CountsAreRight, ClustersAreRight, TrendsAreRight, ToolsAreRight
  DEF BreakdownsHold
<1> QED BY <1>1, ReadingsTypeCorrect, PTL

================================================================================

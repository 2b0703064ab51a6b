------------------------------ MODULE Statistics ------------------------------
(***************************************************************************)
(* The pure functions of the scoring engine and of the analytics.  Values  *)
(* are whole numbers of hundredths, so that rounding to two decimals is a  *)
(* rounded division; binary fractions are not modelled.  The square roots, *)
(* in the standard deviation and in the size of a correlation, are left    *)
(* out: a correlation is its sign.                                         *)
(***************************************************************************)
EXTENDS Integers, SequencesExt

CONSTANT None

(* Math.round of a / b, for b > 0: halves go up. *)
RoundDiv(a, b) == (2 * a + b) \div (2 * b)

(* The elements of a set by the number each has, the smallest first.          *)
InOrder(S, number) ==
  CHOOSE order \in [1..Cardinality(S) -> S] :
    \A i, j \in DOMAIN order : i < j =>
      order[i] # order[j] /\ number[order[i]] <= number[order[j]]

Total(s) == SumFunction(s)
Mean(s)  == IF s = <<>> THEN 0 ELSE RoundDiv(Total(s), Len(s))
Sorted(s) == SortSeq(s, <)

Median(s) ==
  LET half == Len(s) \div 2 IN
  IF s = <<>> THEN 0
  ELSE IF Len(s) % 2 = 1 THEN Sorted(s)[half + 1]
  ELSE RoundDiv(Sorted(s)[half] + Sorted(s)[half + 1], 2)

(* The share of the population that is not above a value, in whole percents.  *)
PercentileRank(v, population) ==
  IF population = <<>> THEN 0
  ELSE RoundDiv(100 * Quantify(DOMAIN population, LAMBDA i : population[i] <= v),
                Len(population))

(* The weighted average of the scoring engine: values in hundredths and their  *)
(* weights, functions over the same items.                                    *)
WeightedAverage(weights, values) ==
  LET items == DOMAIN values
      weight == SumFunction([i \in items |-> weights[i]])
  IN IF weight <= 0 THEN 0
     ELSE RoundDiv(SumFunction([i \in items |-> weights[i] * values[i]]), weight)

-----------------------------------------------------------------------------
(* Deviations are multiplied by n, which keeps them whole.                    *)
Deviation(s, n, i) == n * s[i] - Total(SubSeq(s, 1, n))
Varies(s, n) == \E i \in 1..n : Deviation(s, n, i) # 0
Sign(x) == IF x > 0 THEN 1 ELSE IF x < 0 THEN -1 ELSE 0

(* pearson takes what the two sequences have at the same places.              *)
Pearson(xs, ys) ==
  LET n == Min({Len(xs), Len(ys)}) IN
  IF n < 3 \/ ~Varies(xs, n) \/ ~Varies(ys, n) THEN None
  ELSE Sign(Total([i \in 1..n |-> Deviation(xs, n, i) * Deviation(ys, n, i)]))

(* The slope has the sign of the correlation; a constant y has a flat line.   *)
LinearRegression(xs, ys) ==
  LET n == Min({Len(xs), Len(ys)}) IN
  IF n < 3 \/ ~Varies(xs, n) THEN None
  ELSE Sign(Total([i \in 1..n |-> Deviation(xs, n, i) * Deviation(ys, n, i)]))

(* Equal intervals from 0 to top; the last one takes the top.                 *)
Bin(v, bins, top) == Max({0, Min({bins - 1, (v * bins) \div top})}) + 1
Histogram(values, bins, top) ==
  [b \in 1..bins |-> Quantify(DOMAIN values, LAMBDA i : Bin(values[i], bins, top) = b)]

-----------------------------------------------------------------------------
(* k-means.  A centroid is the sum of its n members, so a distance is exact   *)
(* after multiplying by n; distances are compared by their squares.          *)
Square(x) == x * x
SquaredDistance(p, c) ==
  Total([d \in DOMAIN p |-> Square(c.n * p[d] - c.sum[d])])
Closer(p, c, d) == SquaredDistance(p, c) * Square(d.n) < SquaredDistance(p, d) * Square(c.n)

(* The first of the nearest centroids. *)
NearestTo(p, centroids) ==
  CHOOSE c \in DOMAIN centroids :
    \A d \in DOMAIN centroids :
      /\ ~Closer(p, centroids[d], centroids[c])
      /\ d < c => Closer(p, centroids[c], centroids[d])

(* Initial centroids: points spaced over the order of their totals, of which   *)
(* equal ones keep their order.                                               *)
InitialCentroids(points, k) ==
  LET order == InOrder(DOMAIN points,
                 [i \in DOMAIN points |-> Len(points) * Total(points[i]) + i])
  IN [c \in 1..k |->
       [sum |-> points[order[((2 * c - 1) * Len(points)) \div (2 * k) + 1]], n |-> 1]]

(* Each centroid moves to the mean of its members, and stays without any.     *)
Moved(points, centroids, assignments) ==
  [c \in DOMAIN centroids |->
    LET members == {i \in DOMAIN points : assignments[i] = c} IN
    IF members = {} THEN centroids[c]
    ELSE [sum |-> [d \in DOMAIN centroids[c].sum |->
                     Total([i \in members |-> points[i][d]])],
          n |-> Cardinality(members)]]

MAX_ITERATIONS == 50

(* One turn of the loop: every point goes to its centroid and the centroids    *)
(* move; the loop ends after a turn that changed nothing, the first apart.    *)
Turn(points, run) ==
  LET next == [i \in DOMAIN points |-> NearestTo(points[i], run.centroids)]
      settled == next = run.assignments /\ run.iterations > 0
  IN IF run.settled THEN run
     ELSE [centroids |-> Moved(points, run.centroids, next), assignments |-> next,
           iterations |-> IF settled THEN run.iterations ELSE run.iterations + 1,
           settled |-> settled]

Lloyd(points, centroids) ==
  LET run[turn \in 0..MAX_ITERATIONS] ==
        IF turn = 0
        THEN [centroids |-> centroids, assignments |-> [i \in DOMAIN points |-> 1],
              iterations |-> 0, settled |-> FALSE]
        ELSE Turn(points, run[turn - 1])
  IN run[MAX_ITERATIONS]

KMeans(points, k) ==
  IF points = <<>> THEN [centroids |-> <<>>, assignments |-> <<>>, iterations |-> 0]
  ELSE Lloyd(points, InitialCentroids(points, Max({1, Min({k, Len(points)})})))

-----------------------------------------------------------------------------
(* Pages of a listing: limits, and the bound when no page is asked for.       *)
MAX_PAGE_SIZE    == 200
MAX_UNPAGED_ROWS == 500

PageArgs(page, limit) ==
  IF page = None THEN [skip |-> 0, take |-> MAX_UNPAGED_ROWS]
  ELSE [skip |-> (page - 1) * limit, take |-> limit]

Pages(total, limit) == Max({1, (total + limit - 1) \div limit})

=============================================================================

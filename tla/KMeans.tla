-------------------------------- MODULE KMeans --------------------------------
(* Clustering and the search for centroids (src/core/src/kmeans.rs).             *)
(*                                                                               *)
(* - The nearest centroids of a query or row: the direct selection, the bounded  *)
(*   one that range searches use, the batched one over a matrix product with its *)
(*   refinement at the boundary, and the assignment of rows in blocks.  A        *)
(*   distance is an integer; `exact` holds the directly computed distances of    *)
(*   the centroids, `approx` those expanded from the matrix product.             *)
(* - kmeans_train_with_init: subsampling, k-means++, Lloyd iterations with the   *)
(*   repair of empty clusters, convergence, and the best of several restarts.    *)
(*   Points are one-dimensional integers, scaled so that the means and the       *)
(*   perturbations of a repair are integers too.  What the seeded generator      *)
(*   returns is a choice of the step that draws.                                 *)
(* - kmeans_train_hierarchical: large numbers of centroids are reached by        *)
(*   splitting the largest cluster in two, over and over.  The small trainings   *)
(*   are abstracted to any assignment of the points they are given, which leaves *)
(*   equal points together; a centroid is a number that names the training it    *)
(*   came from.                                                                  *)
(*                                                                               *)
(* A behaviour is one of the two trainings.                                      *)
EXTENDS Integers, Sequences, FiniteSets, Functions, FiniteSetsExt, SequencesExt

CONSTANTS
  Infinity,     \* stands for every value that is not finite; the greatest one
  MaxElems,     \* MAX_MATRIX_ELEMS
  MinRows,      \* MIN_BLOCK_ROWS
  MinFlops,     \* MIN_BLOCK_FLOPS
  TargetBlocks

LesserOf(a, b) == IF a <= b THEN a ELSE b
GreaterOf(a, b) == IF a >= b THEN a ELSE b
CeilingDiv(a, b) == (a + b - 1) \div b

------------------------------------------------------------------------------
(* Selection.  A candidate is <<distance, centroid>>.                          *)

\* compare_distance_then_index
Closer(p, q) == p[1] < q[1] \/ (p[1] = q[1] /\ p[2] < q[2])

\* The n closest of a set of candidates, in order: select_nth and sort.
Prefix(candidates, n) ==
  [i \in 1..n |-> CHOOSE p \in candidates : Cardinality({q \in candidates : Closer(q, p)}) = i - 1]

All(distances) == {<<distances[c], c>> : c \in DOMAIN distances}

FindTopK(exact, nprobe) == Prefix(All(exact), LesserOf(nprobe, Len(exact)))

\* Faulty variant of CutBack: the cutoff is the first kept, not the last.
CutBackToFirst(s, nprobe, capacity) ==
  IF Cardinality(s.kept) = capacity /\ nprobe < capacity
  THEN LET best == Prefix(s.kept, nprobe) IN [kept |-> {best[i] : i \in 1..nprobe}, cutoff |-> best[1]]
  ELSE s

\* A candidate list that is cut back to nprobe whenever it is full.
CutBack(s, nprobe, capacity) ==
  IF Cardinality(s.kept) = capacity /\ nprobe < capacity
  THEN LET best == Prefix(s.kept, nprobe) IN [kept |-> {best[i] : i \in 1..nprobe}, cutoff |-> best[nprobe]]
  ELSE s

Offer(s, candidate, nprobe, capacity) ==
  IF ~Closer(candidate, s.cutoff) THEN s
  ELSE CutBack([s EXCEPT !.kept = @ \cup {candidate}], nprobe, capacity)

\* find_topk_checked: [ok, probes], or [ok, centroid] of the first distance that
\* is not finite.
FindTopKChecked(exact, nprobe) ==
  LET count == Len(exact)
      n == LesserOf(nprobe, count)
      capacity == LesserOf(2 * n, count)
      after[c \in 0..count] == IF c = 0 THEN [kept |-> {}, cutoff |-> <<Infinity, count + 1>>]
                               ELSE Offer(after[c - 1], <<exact[c], c>>, n, capacity)
      bad == {c \in 1..count : exact[c] = Infinity}
  IN  IF n = 0 THEN [ok |-> TRUE, probes |-> <<>>]
      ELSE IF bad # {} THEN [ok |-> FALSE, centroid |-> CHOOSE c \in bad : \A e \in bad : c <= e]
      ELSE [ok |-> TRUE, probes |-> Prefix(after[count].kept, LesserOf(n, Cardinality(after[count].kept)))]

------------------------------------------------------------------------------
(* The batched search                                                          *)

\* Faulty variant of Margin: one error, not two.
MarginOne(bound) == bound

\* Two distances at most `bound` off can pass each other within twice that.
Margin(bound) == 2 * bound

RefineTopKBoundary(exact, approx, nprobe, bound) ==
  LET boundary == Prefix(All(approx), nprobe)[nprobe][1]
      selected == {c \in DOMAIN approx : approx[c] < boundary - Margin(bound)}
      ambiguous == {c \in DOMAIN approx : approx[c] \in (boundary - Margin(bound))..(boundary + Margin(bound))}
      needed == nprobe - Cardinality(selected)
      taken == Prefix({<<exact[c], c>> : c \in ambiguous}, LesserOf(needed, Cardinality(ambiguous)))
      probes == {<<exact[c], c>> : c \in selected} \cup {taken[i] : i \in DOMAIN taken}
  IN  IF Cardinality(ambiguous) = Len(exact) THEN FindTopK(exact, nprobe)
      ELSE Prefix(probes, Cardinality(probes))

\* One query of find_topk_batch_with_centroid_norms; norms says whether the
\* norms of the centroids and of the query are finite.
FindTopKBatch(exact, approx, nprobe, nq, bound, norms) ==
  LET n == LesserOf(nprobe, Len(exact))
  IN  IF n = 0 THEN <<>>
      ELSE IF nq = 1 \/ n = Len(exact) \/ Len(exact) > MaxElems \/ ~norms THEN FindTopK(exact, n)
      ELSE IF \E c \in DOMAIN approx : approx[c] = Infinity THEN FindTopK(exact, n)
      ELSE RefineTopKBoundary(exact, approx, n, bound)

------------------------------------------------------------------------------
(* Assignment in blocks                                                        *)

MaxAssignRows(k) == GreaterOf(MaxElems \div GreaterOf(k, 1), 1)

\* Faulty variant of BudgetRows: the threads do not share the scratch.
BudgetRowsPerThread(k, threads) == MaxAssignRows(k)

BudgetRows(k, threads) == LesserOf(GreaterOf((MaxElems \div threads) \div GreaterOf(k, 1), 1), MaxAssignRows(k))

AssignmentBlockPlan(n, d, k, threads) ==
  LET minRows == LesserOf(GreaterOf(MinRows, CeilingDiv(MinFlops, GreaterOf(k * d * 2, 1))), MaxAssignRows(k))
      budgetRows == BudgetRows(k, threads)
      wanted == GreaterOf(CeilingDiv(n, TargetBlocks), minRows)
  IN  IF threads <= 1 THEN [rows |-> MaxAssignRows(k), parallel |-> FALSE]
      ELSE IF budgetRows < minRows THEN [rows |-> budgetRows, parallel |-> FALSE]
      ELSE [rows |-> LesserOf(LesserOf(wanted, MaxAssignRows(k)), budgetRows), parallel |-> TRUE]

\* The rows of `matrix` (the distances of each row) that a block covers.
BlockOf(matrix, first, rows) == SubSeq(matrix, first, LesserOf(first + rows - 1, Len(matrix)))

NearestIn(distances) == CHOOSE c \in DOMAIN distances : \A e \in DOMAIN distances : ~Closer(<<distances[e], e>>, <<distances[c], c>>)

AssignBlock(block) == [i \in DOMAIN block |-> NearestIn(block[i])]

\* Faulty variant of AssignClustersFast: a block that is not full is dropped.
AssignClustersFastWholeBlocks(matrix, d, k, threads) ==
  LET rows == AssignmentBlockPlan(Len(matrix), d, k, threads).rows
      from[b \in 0..Len(matrix)] ==
        IF b = 0 THEN <<>> ELSE IF b * rows > Len(matrix) THEN from[b - 1]
        ELSE from[b - 1] \o AssignBlock(BlockOf(matrix, (b - 1) * rows + 1, rows))
  IN  from[Len(matrix)]

AssignClustersFast(matrix, d, k, threads) ==
  LET rows == AssignmentBlockPlan(Len(matrix), d, k, threads).rows
      from[b \in 0..Len(matrix)] ==
        IF b = 0 THEN <<>> ELSE from[b - 1] \o AssignBlock(BlockOf(matrix, (b - 1) * rows + 1, rows))
  IN  IF Len(matrix) <= rows THEN AssignBlock(matrix) ELSE from[Len(matrix)]

\* The distances that assign_clusters_balanced_serial compares: the penalty of a
\* cluster grows with the rows of the chunk that came in with it; penalty[s] stands
\* for the factor times the logarithm of s, and is zero for sizes 0 and 1.
BalancedDistances(matrix, k, incoming, penalty) ==
  LET chunk == IF Len(matrix) * k > MaxElems THEN MaxElems \div k ELSE GreaterOf(Len(matrix), 1)
      Size(c, i) == LET first == ((i - 1) \div chunk) * chunk + 1
                    IN  Cardinality({j \in first..LesserOf(first + chunk - 1, Len(matrix)) : incoming[j] = c})
  IN  [i \in DOMAIN matrix |-> [c \in 1..k |-> matrix[i][c] + penalty[Size(c, i)]]]

AssignClustersBalanced(matrix, k, incoming, penalty) == AssignBlock(BalancedDistances(matrix, k, incoming, penalty))

------------------------------------------------------------------------------

CONSTANTS
  Inputs,      \* [data, initial, penalty]: the points, the initial centroids or <<>>, and
               \* the penalty of each cluster size, or None when balance_factor is zero
  None,
  K,
  MaxPoints,   \* max_points_per_centroid
  Niter, Nredo,
  Grain,       \* a draw of gen::<f32>() is r / Grain
  EpsDen,      \* EPS is 1 / EpsDen
  Tolerance,   \* converged below a relative change of 1 / Tolerance
  Unbounded,   \* f32::MAX
  Points,      \* the points of a hierarchical training, equal ones numbered first
  InitialK,    \* 16, or target_k when that is less
  TargetK,
  MinSplit     \* split_k * 2

VARIABLES
  phase,       \* "sample", "seed", "assign", "update", "redo", "split" or "done"
  \* of kmeans_train_with_init
  input,
  train,       \* train_data
  centroids, assigned, minDists,
  objective,   \* what the last assignment returned
  prevObj, iter, redo,
  best, bestObj,
  repaired,    \* the last update repaired an empty cluster
  shares,      \* the counts that the last update left
  \* of kmeans_train_hierarchical
  heap,        \* set of clusters [centroid, points]
  finalized,   \* sequence of clusters that are not split any more
  returned,    \* the centroids returned
  next,        \* the next centroid, or zero
  equal,       \* points that have the same coordinates
  turns        \* history: turns of the loop

lloydVars == <<input, train, centroids, assigned, minDists, objective, prevObj, iter, redo, best,
               bestObj, repaired, shares>>
splitVars == <<heap, finalized, returned, next, equal, turns>>
vars == <<phase, lloydVars, splitVars>>

------------------------------------------------------------------------------
(* kmeans_train_with_init *)

Square(x) == x * x
Zeros == [c \in 1..K |-> 0]
Distance(i, c) == Square(train[i] - centroids[c])
Restarts == IF input.initial # <<>> THEN 1 ELSE Nredo

LloydInit ==
  /\ input \in Inputs /\ phase = "sample"
  /\ train = <<>> /\ centroids = <<>> /\ assigned = <<>> /\ minDists = <<>>
  /\ objective = Unbounded /\ prevObj = Unbounded /\ iter = 0 /\ redo = 0
  /\ best = Zeros /\ bestObj = Unbounded /\ repaired = FALSE /\ shares = <<>>

------------------------------------------------------------------------------
Swapped(s, i, j) == [s EXCEPT ![i] = s[j], ![j] = s[i]]

\* subsample: the first positions of a partial shuffle.
Subsamples(data, count) ==
  LET shuffled[i \in 0..count] ==
        IF i = 0 THEN {data} ELSE UNION {{Swapped(s, i, j) : j \in i..Len(data)} : s \in shuffled[i - 1]}
  IN  {SubSeq(s, 1, count) : s \in shuffled[count]}

\* Points that are no more than the centroids are the centroids, in turn.
TooFew(count) == count <= K

\* Faulty variant of Repeated: the centroids that are left over stay zero.
RepeatedOnce(points) == [c \in 1..K |-> IF c <= Len(points) THEN points[c] ELSE 0]

Repeated(points) == [c \in 1..K |-> points[((c - 1) % Len(points)) + 1]]

Sample ==
  /\ phase = "sample"
  /\ \E chosen \in IF Len(input.data) > K * MaxPoints THEN Subsamples(input.data, K * MaxPoints)
                   ELSE {input.data} :
       /\ train' = chosen
       /\ IF TooFew(Len(chosen))
          THEN best' = Repeated(chosen) /\ phase' = "done" /\ UNCHANGED <<centroids, assigned>>
          ELSE /\ centroids' = input.initial /\ assigned' = [i \in DOMAIN chosen |-> 1]
               /\ phase' = (IF input.initial # <<>> THEN "assign" ELSE "seed") /\ UNCHANGED best
  /\ UNCHANGED <<input, minDists, objective, prevObj, iter, redo, bestObj, repaired, shares>>

------------------------------------------------------------------------------
(* kmeans_plusplus_init                                                        *)

\* The centroid that is drawn first.
SeedFirst ==
  /\ phase = "seed" /\ centroids = <<>>
  /\ \E first \in DOMAIN train : centroids' = <<train[first]>>
  /\ minDists' = [i \in DOMAIN train |-> Unbounded]
  /\ phase' = IF K = 1 THEN "assign" ELSE "seed"
  /\ UNCHANGED <<input, train, assigned, objective, prevObj, iter, redo, best, bestObj, repaired, shares>>

\* Faulty variant of Nearer: the distance to the last centroid replaces the least.
NearerLast(old, new) == new

Nearer(old, new) == IF new < old THEN new ELSE old

Cumulative(dists, i) == FoldFunctionOnSet(+, 0, dists, 1..i)

\* The first point at which the running sum reaches r / Grain of the total; the
\* last point if none does.
Drawn(dists, r) ==
  LET total == Cumulative(dists, Len(dists))
      reach == {i \in DOMAIN dists : Cumulative(dists, i) * Grain >= r * total}
  IN  IF reach = {} THEN Len(dists) ELSE Min(reach)

SeedNext ==
  /\ phase = "seed" /\ centroids # <<>> /\ Len(centroids) < K
  /\ minDists' = [i \in DOMAIN train |-> Nearer(minDists[i], Square(train[i] - centroids[Len(centroids)]))]
  /\ \E i \in {Drawn(minDists', r) : r \in 0..(Grain - 1)} : centroids' = Append(centroids, train[i])
  /\ phase' = IF Len(centroids) + 1 = K THEN "assign" ELSE "seed"
  /\ UNCHANGED <<input, train, assigned, objective, prevObj, iter, redo, best, bestObj, repaired, shares>>

------------------------------------------------------------------------------
(* One Lloyd iteration                                                         *)

\* Faulty variant of Compared: balance penalties are taken off.
ComparedInverted ==
  LET matrix == [i \in DOMAIN train |-> [c \in 1..K |-> Distance(i, c)]]
      balanced == BalancedDistances(matrix, K, assigned, input.penalty)
  IN  IF input.penalty = None THEN matrix ELSE [i \in DOMAIN train |-> [c \in 1..K |-> 2 * matrix[i][c] - balanced[i][c]]]

\* What assign_clusters_fast compares: distances, or distances with the penalties of
\* the sizes that the assignments had so far.
Compared ==
  LET matrix == [i \in DOMAIN train |-> [c \in 1..K |-> Distance(i, c)]]
  IN  IF input.penalty = None THEN matrix ELSE BalancedDistances(matrix, K, assigned, input.penalty)

Assign ==
  /\ phase = "assign" /\ iter < Niter
  /\ LET compared == Compared
     IN  /\ assigned' = AssignBlock(compared)
         /\ objective' = MapThenSumSet(LAMBDA i : compared[i][assigned'[i]], DOMAIN train)
  /\ phase' = "update"
  /\ UNCHANGED <<input, train, centroids, minDists, prevObj, iter, redo, best, bestObj, repaired, shares>>

Members(c) == {i \in DOMAIN train : assigned[i] = c}

\* Faulty variant of Means: the sums are divided by the number of points.
MeansOfAll ==
  [c \in 1..K |-> IF Members(c) = {} THEN centroids[c]
                  ELSE MapThenSumSet(LAMBDA i : train[i], Members(c)) \div Len(train)]

Means ==
  [c \in 1..K |-> IF Members(c) = {} THEN centroids[c]
                  ELSE MapThenSumSet(LAMBDA i : train[i], Members(c)) \div Cardinality(Members(c))]

\* The last of the largest clusters: max_by_key.
Donor(counts) == CHOOSE c \in 1..K : \A e \in 1..K : counts[e] < counts[c] \/ (counts[e] = counts[c] /\ e <= c)

Grown(x) == (x * (EpsDen + 1)) \div EpsDen
Shrunk(x) == (x * (EpsDen - 1)) \div EpsDen

\* Faulty variant of Repair: the donor keeps its count.
RepairKeepsDonor(s, c, random) ==
  LET donor == Donor(s.counts)
  IN  IF s.counts[c] > 0 THEN s
      ELSE IF s.counts[donor] <= 1 THEN [s EXCEPT !.means[c] = train[random]]
      ELSE [means |-> [s.means EXCEPT ![c] = Grown(s.means[donor]), ![donor] = Shrunk(@)],
            counts |-> [s.counts EXCEPT ![c] = s.counts[donor] \div 2]]

\* An empty cluster takes half of the largest: both centroids are moved apart.
Repair(s, c, random) ==
  LET donor == Donor(s.counts)
  IN  IF s.counts[c] > 0 THEN s
      ELSE IF s.counts[donor] <= 1 THEN [s EXCEPT !.means[c] = train[random]]
      ELSE [means |-> [s.means EXCEPT ![c] = Grown(s.means[donor]), ![donor] = Shrunk(@)],
            counts |-> [s.counts EXCEPT ![c] = s.counts[donor] \div 2, ![donor] = @ - s.counts[donor] \div 2]]

\* The set of one element: what the clusters repaired in order come to.
UpdatedCentroids(random) ==
  LET counts == [c \in 1..K |-> Cardinality(Members(c))]
      after[c \in 0..K] == IF c = 0 THEN {[means |-> Means, counts |-> counts]}
                           ELSE {Repair(s, c, random) : s \in after[c - 1]}
  IN  after[K]

Change(a, b) == IF a >= b THEN a - b ELSE b - a

\* The relative change of the objective is below the tolerance.
Converged(prev, obj) ==
  /\ prev # Unbounded
  /\ Change(prev, obj) <= (prev - 1) \div Tolerance \/ (prev = 0 /\ obj = 0)

Update ==
  /\ phase = "update"
  /\ \E updated \in UNION {UpdatedCentroids(random) : random \in DOMAIN train} :
       centroids' = updated.means /\ shares' = updated.counts
  /\ repaired' = \E c \in 1..K : Members(c) = {}
  /\ IF Converged(prevObj, objective)
     THEN phase' = "redo" /\ UNCHANGED <<prevObj, iter>>
     ELSE /\ prevObj' = objective /\ iter' = iter + 1
          /\ phase' = IF iter + 1 = Niter THEN "redo" ELSE "assign"
  /\ UNCHANGED <<input, train, assigned, minDists, objective, redo, best, bestObj>>

------------------------------------------------------------------------------
\* Faulty variant of Better: the last restart wins.
BetterLast(obj, than) == TRUE

Better(obj, than) == obj < than

Redo ==
  /\ phase = "redo"
  /\ IF Better(prevObj, bestObj) THEN best' = centroids /\ bestObj' = prevObj ELSE UNCHANGED <<best, bestObj>>
  /\ redo' = redo + 1
  /\ IF redo + 1 < Restarts
     THEN /\ phase' = "seed" /\ centroids' = <<>> /\ assigned' = [i \in DOMAIN train |-> 1]
          /\ prevObj' = Unbounded /\ iter' = 0 /\ objective' = Unbounded /\ repaired' = FALSE
     ELSE phase' = "done" /\ UNCHANGED <<centroids, assigned, prevObj, iter, objective, repaired>>
  /\ UNCHANGED <<input, train, minDists, shares>>

LloydNext == Sample \/ SeedFirst \/ SeedNext \/ Assign \/ Update \/ Redo

------------------------------------------------------------------------------
(* kmeans_train_hierarchical *)

Size(cluster) == Cardinality(cluster.points)
Largest == {c \in heap : \A other \in heap : Size(other) <= Size(c)}

\* Every assignment to the initial centroids; some clusters may be empty.
SplitInit ==
  /\ \E assignment \in [Points -> 1..InitialK] :
       heap = {[centroid |-> c, points |-> {p \in Points : assignment[p] = c}] : c \in 1..InitialK}
  /\ equal \in {{p \in Points : p < bound} : bound \in Points \cup {Max(Points) + 1}}
  /\ finalized = <<>> /\ returned = <<>> /\ next = InitialK + 1 /\ turns = 0 /\ phase = "split"

Growing == phase = "split" /\ Len(finalized) + Cardinality(heap) < TargetK

\* Faulty variant of Requeued: a degenerate split goes back to the heap.
RequeuedForever(cluster, children) ==
  IF Cardinality(children) < 2 THEN UNCHANGED <<heap, finalized>>
  ELSE heap' = (heap \ {cluster}) \cup children /\ UNCHANGED finalized

\* Faulty variant of Requeued: a degenerate split is dropped.
RequeuedUnlessDegenerate(cluster, children) ==
  heap' = (heap \ {cluster}) \cup (IF Cardinality(children) < 2 THEN {} ELSE children) /\ UNCHANGED finalized

\* What becomes of a cluster and its children that have points; a split that
\* did not part its points is final.
Requeued(cluster, children) ==
  IF Cardinality(children) < 2
  THEN heap' = heap \ {cluster} /\ finalized' = Append(finalized, cluster)
  ELSE heap' = (heap \ {cluster}) \cup children /\ UNCHANGED finalized

\* The children of a split whose first part is `first`, without an empty one.
Parts(cluster, first) ==
  {c \in {[centroid |-> next, points |-> first], [centroid |-> next + 1, points |-> cluster.points \ first]} :
     c.points # {}}

SplitLargest ==
  /\ Growing /\ heap # {}
  /\ \E cluster \in Largest :
       IF Size(cluster) < MinSplit
       THEN heap' = heap \ {cluster} /\ finalized' = Append(finalized, cluster) /\ UNCHANGED next
       ELSE \E first \in SUBSET cluster.points :
              LET children == Parts(cluster, first)
              IN  /\ equal \cap cluster.points \subseteq first \/ equal \cap first = {}
                  /\ Requeued(cluster, children)
                  /\ next' = IF Cardinality(children) < 2 THEN next ELSE next + 2
  /\ turns' = turns + 1
  /\ UNCHANGED <<returned, equal, phase>>

\* Faulty variant of Padded: what is missing is filled with zeros.
PaddedWithZeros(all) == [i \in 1..TargetK |-> IF i <= Len(all) THEN all[i] ELSE 0]

Padded(all) == [i \in 1..TargetK |-> all[((i - 1) % Len(all)) + 1]]

\* The order in which the heap gives up its clusters.
Orders == {s \in SetToSeqs(heap) : \A i \in 1..(Len(s) - 1) : Size(s[i]) >= Size(s[i + 1])}

Collect ==
  /\ phase = "split" /\ ~(Growing /\ heap # {})
  /\ \E order \in Orders :
       LET all == [i \in 1..(Len(finalized) + Len(order)) |->
                     IF i <= Len(finalized) THEN finalized[i].centroid ELSE order[i - Len(finalized)].centroid]
           taken == SubSeq(all, 1, IF Len(all) < TargetK THEN Len(all) ELSE TargetK)
       IN  returned' = Padded(taken)
  /\ phase' = "done"
  /\ UNCHANGED <<heap, finalized, next, equal, turns>>

SplitNext == SplitLargest \/ Collect

------------------------------------------------------------------------------

Init ==
  \/ LloydInit /\ heap = {} /\ finalized = <<>> /\ returned = <<>> /\ next = 0 /\ equal = {} /\ turns = 0
  \/ /\ SplitInit
     /\ input = 0 /\ train = 0 /\ centroids = 0 /\ assigned = 0 /\ minDists = 0 /\ objective = 0
     /\ prevObj = 0 /\ iter = 0 /\ redo = 0 /\ best = 0 /\ bestObj = 0 /\ repaired = 0 /\ shares = 0

Finished == phase = "done" /\ UNCHANGED vars

Next ==
  \/ next = 0 /\ LloydNext /\ UNCHANGED splitVars
  \/ next # 0 /\ SplitNext /\ UNCHANGED lloydVars
  \/ Finished

Spec == Init /\ [][Next]_vars

------------------------------------------------------------------------------
\* What the clusters the points are in cost them, above the distances
Penalties ==
  LET compared == Compared
  IN  MapThenSumSet(LAMBDA i : compared[i][assigned[i]] - Distance(i, assigned[i]), DOMAIN train)

\* An iteration never makes the clustering worse than the one before it, unless an empty
\* cluster was repaired in between: convergence is tested on the absolute change, which
\* only means something for a descent.  With a balance_factor the sizes have changed
\* since the objective was taken, and it can rise by at most what they now cost.
LloydDescends ==
  phase = "assign" /\ phase' = "update" /\ prevObj # Unbounded /\ ~repaired =>
    objective' <= prevObj + (IF input.penalty = None THEN 0 ELSE Penalties)

Lowest(s) == Min({s[i] : i \in DOMAIN s})
Highest(s) == Max({s[i] : i \in DOMAIN s})

\* The centroids returned come from the data: they lie among the points, or next
\* to them by the perturbation of the repairs; none is left at the origin that
\* best_centroids starts from, or at a sum that was not divided.
CentroidsComeFromData ==
  phase = "done" /\ next = 0 =>
    LET slack == Square(EpsDen)
    IN  \A c \in 1..K : /\ best[c] * slack >= Lowest(train) * Square(EpsDen - 1)
                        /\ best[c] * slack <= Highest(train) * Square(EpsDen + 1)

\* After an update every cluster has a share of the points and the shares add up
\* to all of them, so no centroid stays without points because its donor had
\* been emptied before it.
RepairSharesAllPoints ==
  phase \in {"assign", "redo"} /\ iter > 0 =>
    (\A c \in 1..K : shares[c] >= 1) /\ MapThenSumSet(LAMBDA c : shares[c], 1..K) = Len(train)

\* Draws above zero take a new value each time, while the points have one.
SeedsAreDistinct ==
  phase = "seed" /\ centroids # <<>> =>
    LET chosen == {centroids[i] : i \in DOMAIN centroids}
        new == centroids'[Len(centroids')]
    IN  {train[i] : i \in DOMAIN train} \subseteq chosen \/ new \notin chosen \/ new = train[1]

\* The restart that is returned is the best one.
BestRestartWins == redo' # redo => bestObj' <= prevObj /\ bestObj' <= bestObj

Clusters == heap \cup {finalized[i] : i \in DOMAIN finalized}

\* Splitting neither loses nor duplicates a training point, whatever the split
\* came to.
PointsArePartitioned ==
  next # 0 => /\ UNION {c.points : c \in Clusters} = Points
              /\ \A c \in Clusters : \A e \in Clusters \ {c} : c.points \cap e.points = {}

\* Exactly target_k centroids are returned, every one of a cluster that was
\* trained, and no cluster's centroid is cut off or left out: padding repeats
\* centroids, it never invents one.
ReturnsTrainedCentroids ==
  phase = "done" /\ next # 0 => /\ Len(returned) = TargetK
                                 /\ {returned[i] : i \in DOMAIN returned} = {c.centroid : c \in Clusters}

\* The splitting ends: every turn of the loop adds a cluster or takes one out of the heap
\* for good, also when points cannot be told apart and a split leaves them in one part.
SplittingEnds == next # 0 => turns <= 2 * Len(finalized) + Cardinality(heap)
==============================================================================

---------------------------- MODULE MCConstruction ----------------------------
(***************************************************************************)
(* Building an index: the graph of a DiskANN index, k-means and the search *)
(* for centroids, the trainer's sample, and the IVF indexes in memory.  A  *)
(* behaviour is one build, one training, one index in use, or one call of  *)
(* a function whose input is `call`; `part` says which.                    *)
(***************************************************************************)
EXTENDS Integers, Sequences, SequencesExt, FiniteSetsExt, Functions, TLC

CONSTANTS
  N, R, L, BatchNodes, Alpha, Vectors, Plans, Graphs, SampleSize, Nobody,   \* the graph
  Infinity, MaxElems, MinRows, MinFlops, TargetBlocks,                     \* centroid search
  CentroidDistances, Ks, ThreadCounts,
  Inputs, K, MaxPoints, Niter, Nredo, Grain, EpsDen, Tolerance, Unbounded,   \* k-means
  Points, InitialK, TargetK, MinSplit,
  Configs, MaxTraining, MinIvf, PerList, ScoreCells, Threads, Stream, Batch, \* the trainer
  None, NaN, Names, Versions, NList, Nearest, Greedy, Rank, Dist, Lower, Large, BatchSize, MaxRows

VARIABLES
  part, call, result, done,
  phase,     \* of the graph, of k-means or of the trainer
  graph, pos, mode, pass, todo, batch, selected, groups, before,
  shape, assignments, memberships, shard, given, visited, parent, eligible, status,
  input, train, centroids, assigned, minDists, objective, prevObj, iter, redo, best, bestObj,
  repaired, shares, heap, finalized, returned, next, equal, turns,
  config, rng, sample, seen, count, drawn, trained,
  pool, found

Graph == INSTANCE Vamana
Means == INSTANCE KMeans
Index == INSTANCE IvfIndexes

graphVars == <<graph, pos, mode, pass, todo, batch, selected, groups, before,
               shape, assignments, memberships, shard, given, visited, parent, eligible, status>>
meansVars == <<input, train, centroids, assigned, minDists, objective, prevObj, iter, redo, best,
               bestObj, repaired, shares, heap, finalized, returned, next, equal, turns>>
trainerVars == <<config, rng, sample, seen, count, drawn, trained>>
indexVars == <<pool, found>>
callVars == <<call, result, done>>
partsVars == <<part, callVars, phase, graphVars, meansVars, trainerVars, indexVars>>

GraphIdle ==
  /\ graph = 0 /\ pos = 0 /\ mode = 0 /\ pass = 0 /\ todo = 0 /\ batch = 0 /\ selected = 0 /\ groups = 0
  /\ before = 0 /\ shape = 0 /\ assignments = 0 /\ memberships = 0 /\ shard = 0 /\ given = 0
  /\ visited = 0 /\ parent = 0 /\ eligible = 0 /\ status = 0
MeansIdle ==
  /\ input = 0 /\ train = 0 /\ centroids = 0 /\ assigned = 0 /\ minDists = 0 /\ objective = 0
  /\ prevObj = 0 /\ iter = 0 /\ redo = 0 /\ best = 0 /\ bestObj = 0 /\ repaired = 0 /\ shares = 0
  /\ heap = 0 /\ finalized = 0 /\ returned = 0 /\ next = 0 /\ equal = 0 /\ turns = 0
TrainerIdle == config = 0 /\ rng = 0 /\ sample = 0 /\ seen = 0 /\ count = 0 /\ drawn = 0 /\ trained = 0
IndexIdle == pool = 0 /\ found = 0
NoCall == call = 0 /\ result = 0 /\ done = 0

Building == part = "graph" /\ status = "build"
Sharding == part = "graph" /\ phase = "shards"
Repairing == part = "graph" /\ phase = "repair"
Returned(fn) == part = "call" /\ done /\ call.fn = fn

-----------------------------------------------------------------------------
(* Four vectors of degree two, in batches of three nodes and then one; every     *)
(* graph of four nodes with lists of at most two neighbours and of five nodes    *)
(* with at most one, to be repaired; every assignment of four vectors to three   *)
(* or four shards and of five to four.                                           *)

MCVectors == {[metric |-> "L2", at |-> 0 :> 0 @@ 1 :> 1 @@ 2 :> 3 @@ 3 :> 7],
              [metric |-> "L2", at |-> 0 :> 2 @@ 1 :> 2 @@ 2 :> 0 @@ 3 :> 2],
              [metric |-> "InnerProduct", at |-> 0 :> -1 @@ 1 :> 1 @@ 2 :> 2 @@ 3 :> -2]}
MCAlpha == <<3, 2>>

Lists(n, v, d) == {SetToSortSeq(S, LAMBDA a, b : a < b) : S \in {T \in SUBSET ((0..(n - 1)) \ {v}) : Cardinality(T) <= d}}
AllGraphs(n, d) == {g \in [0..(n - 1) -> UNION {Lists(n, v, d) : v \in 0..(n - 1)}] :
                      \A v \in 0..(n - 1) : v \notin ToSet(g[v])}
MCGraphs == [graph : AllGraphs(4, 2), entry : {1}, degree : {2}]
            \cup [graph : AllGraphs(5, 1), entry : {2}, degree : {1}]

MCPlans == {[shards |-> 3, count |-> 3], [shards |-> 4, count |-> 4], [shards |-> 4, count |-> 5]}

-----------------------------------------------------------------------------
(* Calls of the algorithms of the graph builder.                                 *)

Places == {0, 1, 2, 4}
Alphas == {<<1, 1>>, <<3, 2>>}

Orders(S, k) == {SetToSortSeq(T, LAMBDA a, b : a < b) : T \in {U \in SUBSET S : Cardinality(U) <= k}}
CallGraphs(n, k) == {g \in [0..(n - 1) -> Orders(0..(n - 1), k)] : \A v \in DOMAIN g : v \notin ToSet(g[v])}
Line(n) == {[metric |-> "L2", at |-> p] : p \in {q \in [0..(n - 1) -> Places] : q[0] \in {0, 2}}}
           \cup {[metric |-> "InnerProduct", at |-> p] : p \in {q \in [0..(n - 1) -> {-1, 1, 2}] : q[0] = 1}}
Permutations4 == {p \in [0..3 -> 0..3] : IsInjective(p)}
Tagged == [v \in 0..3 |-> SetToSortSeq((0..3) \ {v, (v + 1) % 4}, LAMBDA a, b : a < b)]

Searched4 == {[metric |-> metric, at |-> 0 :> 0 @@ 1 :> 3 @@ 2 :> 1 @@ 3 :> 3] : metric \in {"L2", "InnerProduct"}}

GraphCalls ==
  [fn : {"greedy"}, graph : CallGraphs(4, 2), pos : Searched4, L : 1..3]
  \cup [fn : {"prune"}, pos : Line(5), candidates : SUBSET (0..4), R : 1..3, alpha : Alphas]
  \cup {c \in [fn : {"sample"}, draws : UNION {[1..k -> 0..3] : k \in 0..4}, node : 0..4] :
          \A i \in DOMAIN c.draws : c.draws[i] >= i - 1}
  \cup [fn : {"permute"}, newId : Permutations4]

GraphResult(c) ==
  CASE c.fn = "greedy" -> [found |-> Graph!GreedySearch(c.graph, c.pos, 0, 3, c.L).results]
    [] c.fn = "prune" -> [list |-> Graph!RobustPrune(c.pos, 0, c.candidates, c.R, c.alpha[1], c.alpha[2])]
    [] c.fn = "sample" -> [list |-> Graph!SampleNeighbors(c.draws, c.node)]
    [] c.fn = "permute" -> [graph |-> Graph!PermuteAndMapNeighbors(Tagged, c.newId)]

-----------------------------------------------------------------------------
(* Every call over a few centroids, with every error of the matrix product       *)
(* within its bound.                                                             *)

Clamped(x) == IF x < 0 THEN 0 ELSE x

\* The rows of the matrix of distances, k = 2.
Matrices == UNION {[1..n -> [1..2 -> 0..1]] : n \in 0..4}
Penalty == <<0, 0, 1, 1, 2>>

\* A search of a batch, of one query with checks, the plan of an assignment, and assignments
CentroidCall(asked) ==
  \/ \E exact \in [1..4 -> CentroidDistances], errors \in [1..4 -> -1..1], nprobe \in 1..3 :
       asked = [fn |-> "batch", exact |-> exact, nprobe |-> nprobe, bound |-> 1, nq |-> 2, norms |-> TRUE,
                  approx |-> [c \in 1..4 |-> Clamped(exact[c] + errors[c])]]
  \/ \E exact \in [1..3 -> {0, 1, Infinity}], nprobe \in 0..4, nq \in 1..2, norms \in BOOLEAN :
       asked = [fn |-> "batch", exact |-> exact, nprobe |-> nprobe, bound |-> 0, nq |-> nq, norms |-> norms,
                  approx |-> exact]
  \/ \E exact \in UNION {[1..k -> {0, 1, 2, 3}] : k \in 1..5}, nprobe \in 0..5 :
       asked = [fn |-> "checked", exact |-> exact, nprobe |-> nprobe]
  \/ \E exact \in [1..4 -> {0, 1, Infinity}], nprobe \in 0..3 :
       asked = [fn |-> "checked", exact |-> exact, nprobe |-> nprobe]
  \/ \E n \in 1..40, d \in 1..3, k \in Ks, threads \in ThreadCounts :
       asked = [fn |-> "plan", n |-> n, d |-> d, k |-> k, threads |-> threads]
  \/ \E matrix \in Matrices, threads \in ThreadCounts : \E incoming \in [DOMAIN matrix -> 1..2] :
       asked = [fn |-> "assign", matrix |-> matrix, threads |-> threads, incoming |-> incoming]

-----------------------------------------------------------------------------
(* Placements of up to seven points on a few multiples of 60 * 16, without and   *)
(* with initial centroids, so that clusters run empty; a trainer with budgets    *)
(* around the smallest that trains, and lists that set the IVF limit.            *)

Coordinates == {960, 1920, 3840}
Sorted(s) == \A i \in 1..(Len(s) - 1) : s[i] <= s[i + 1]

\* A penalty that is of the order of the squared distances
Balance == [n \in 0..6 |-> <<0, 0, 7, 11, 14, 16, 18>>[n + 1] * 100000]

Training(data, initial, penalty) == [data |-> data, initial |-> initial, penalty |-> penalty]

MCInputs ==
  {Training(s, <<>>, None) : s \in UNION {[1..n -> Coordinates] : n \in 1..4}}
  \cup {Training(s, c, None) : s \in {t \in [1..4 -> Coordinates] : Sorted(t)}, c \in [1..3 -> {960, 2400, 9600}]}
  \cup {Training(s, <<>>, p) : s \in {t \in [1..7 -> {960, 3840}] : Sorted(t)}, p \in {None, Balance}}
  \cup {Training(s, <<>>, Balance) : s \in {t \in [1..4 -> Coordinates] \cup [1..6 -> Coordinates] : Sorted(t)}}

MCConfigs ==
  [family : {"diskann"}, d : {3}, m : {1, 2, 3}, ksub : {2}, buffers : {1, 2},
   budget : {150, 200, 228, 260, 300, 400, 1000}, lists : {1}]
  \cup [family : {"ivf"}, d : {3}, m : {1}, ksub : {2}, buffers : {1}, budget : {0}, lists : {1, 2}]

-----------------------------------------------------------------------------
(* Two indexes of one build, two training runs, three lists, four rows; two      *)
(* kinds of PQ index, and the three other kinds.                                 *)

NearestLists == <<<<1, 2, 1, 2>>, <<2, 2, 3, 1>>>>
GreedyLists == <<<<1, 2, 3, 2>>, <<2, 1, 3, 1>>>>
Ranks == <<<<<<1, 3, 2>>, <<2, 1, 3>>>>, <<<<3, 2, 1>>, <<1, 2, 3>>>>>>
Distances == <<<<4, 1, 3, 2>>, <<1, NaN, 2, 1>>>>
LowerBounds == [q \in 1..2 |-> [id \in 1..4 |-> IF Distances[q][id] = NaN THEN NaN ELSE Distances[q][id] - 1]]

Kinds ==
  {Index!New("pq", TRUE, TRUE, TRUE), Index!New("pq", FALSE, FALSE, FALSE)}
  \cup {Index!New(kind, FALSE, FALSE, FALSE) : kind \in {"flat", "sq", "rq"}}

Additions == [main |-> {<<>>, <<1>>, <<2, 3, 4>>}, worker |-> {<<2, 3, 4>>}]

Call(q, k, nprobe, filter, maxCodes) == [q |-> q, k |-> k, nprobe |-> nprobe, filter |-> filter, maxCodes |-> maxCodes]
Calls == {Call(1, 2, 5, None, None), Call(2, 2, 2, {1, 3, 4}, None), Call(1, 3, 3, None, 2)}

IndexInit ==
  /\ pool \in [Names -> Kinds \cup {None}]
  /\ pool["main"] # None
  /\ pool["worker"] \in {None, pool["main"]}
  /\ pool["worker"] # None => pool["main"].kind = "pq" /\ pool["main"].fourBit
  /\ found = None

\* Bound: one index is trained while it holds rows, once, to another result.
Outlived == {m \in Names : pool[m] # None /\ pool[m].outlived # {}}
MayTrain(n, v) == IF Index!IdsOf(pool[n]) = {} THEN TRUE ELSE Outlived = {} /\ v # pool[n].centroids

\* Bound: the worker's index is merged, not searched.
Searched(n) == n = "main"

\* The caller takes the rows of a search before it goes on.
Taken == found # None /\ found' = None /\ UNCHANGED pool

IndexNext ==
  \/ Taken
  \/ found = None /\ \E n \in Names :
      \/ \E v \in Versions, builds \in BOOLEAN : MayTrain(n, v) /\ Index!TrainWithConfig(n, v, builds)
      \/ \E v \in Versions : Index!SetQuantizerCentroids(n, v)
      \/ \E b \in BOOLEAN : Index!SetApproximate(n, b)
      \/ \E m \in Names : Index!FromTrained(n, m) \/ Index!MergeFrom(n, m)
      \/ \E ids \in Additions[n], builds \in BOOLEAN : Index!Add(n, ids, builds)
      \/ Searched(n) /\ (Index!BuildSearchStructures(n) \/ Index!BuildPrecomputedTable(n))
      \/ Searched(n) /\ \E c \in Calls : Index!SearchWithFilter(n, c)

-----------------------------------------------------------------------------
PartsInit ==
  \/ /\ part = "graph" /\ Graph!Init
     /\ NoCall /\ MeansIdle /\ TrainerIdle /\ IndexIdle
  \/ /\ part = "means" /\ Means!Init
     /\ NoCall /\ GraphIdle /\ TrainerIdle /\ IndexIdle
  \/ /\ part = "trainer" /\ Index!TrainerInit
     /\ NoCall /\ GraphIdle /\ MeansIdle /\ IndexIdle
  \/ /\ part = "index" /\ IndexInit /\ phase = 0
     /\ NoCall /\ GraphIdle /\ MeansIdle /\ TrainerIdle
  \/ /\ part = "call" /\ (call \in GraphCalls \/ CentroidCall(call)) /\ result = 0 /\ done = FALSE
     /\ phase = 0 /\ GraphIdle /\ MeansIdle /\ TrainerIdle /\ IndexIdle

Evaluate ==
  /\ part = "call" /\ ~done /\ done' = TRUE
  /\ result' = IF call.fn \in {"greedy", "prune", "sample", "permute"} THEN GraphResult(call) ELSE 0
  /\ UNCHANGED <<call, phase, graphVars, meansVars, trainerVars, indexVars>>

\* What has nothing left to do: any other state without a step is a deadlock.
Ended ==
  /\ \/ part = "call" /\ done
     \/ Sharding /\ status = "merged"
     \/ Repairing /\ status = "ok"
  /\ UNCHANGED partsVars

PartsNext ==
  \/ /\ UNCHANGED part
     /\ \/ part = "graph" /\ Graph!Next /\ UNCHANGED <<callVars, meansVars, trainerVars, indexVars>>
        \/ part = "means" /\ Means!Next /\ UNCHANGED <<callVars, graphVars, trainerVars, indexVars>>
        \/ part = "trainer" /\ Index!TrainerNext /\ UNCHANGED <<callVars, graphVars, meansVars, indexVars>>
        \/ part = "index" /\ IndexNext /\ UNCHANGED <<callVars, phase, graphVars, meansVars, trainerVars>>
        \/ Evaluate
  \/ Ended

PartsSpec == PartsInit /\ [][PartsNext]_partsVars

-----------------------------------------------------------------------------
(* What the functions compute.                                                   *)

\* Best-first search by its definition: expand the nearest retained node that has
\* not been expanded, keep the L nearest of everything seen, until every retained
\* node is expanded.
RECURSIVE BestFirst(_, _, _, _, _, _, _)
BestFirst(g, at, q, width, met, kept, expanded) ==
  IF kept \subseteq expanded THEN kept
  ELSE LET v == Graph!NearestNode(at, q, kept \ expanded)
           offer(acc, u) ==
             IF u \in acc.seen THEN acc
             ELSE LET all == acc.kept \cup {u}
                  IN  [seen |-> acc.seen \cup {u},
                       kept |-> IF Cardinality(all) > width THEN all \ {Graph!Farthest(at, q, all)} ELSE all]
           after == FoldLeft(offer, [seen |-> met, kept |-> kept], g[v])
       IN  BestFirst(g, at, q, width, after.seen, after.kept, expanded \cup {v})

\* The search scratch, with evicted nodes left in the frontier, dropped lazily or by
\* a compaction, finds what best-first search by its definition finds
\* (GreedySearchScratch::insert_candidate, pop_nearest_unexpanded).
LazyFrontierIsExact ==
  Returned("greedy") =>
    result.found = BestFirst(call.graph, call.pos, 3, call.L, {0}, {0}, {})

\* A pruned list keeps the nearest candidate, never holds the node itself, and
\* leaves a candidate out only if the list is full or a closer selected neighbour
\* covers it (robust_prune_candidates_into).
PruneDropsOnlyTheCovered ==
  Returned("prune") =>
    LET wanted == call.candidates \ {0}
        kept == ToSet(result.list)
    IN  /\ kept \subseteq wanted /\ Len(result.list) <= call.R
        /\ wanted # {} => result.list[1] = Graph!NearestNode(call.pos, 0, wanted)
        /\ \A v \in wanted \ kept :
             \/ Len(result.list) = call.R
             \/ \E s \in kept : Graph!Closer(call.pos, 0, s, v)
                  /\ ~Graph!RetainAfterPrune(call.pos, 0, s, v, call.alpha[1], call.alpha[2])

\* Whatever the generator draws, the initial neighbours of a node are distinct
\* nodes other than itself (sample_random_neighbors_into).
SampledNeighborsAreDistinct ==
  Returned("sample") =>
    /\ IsInjective(result.list) /\ Len(result.list) = Len(call.draws)
    /\ ToSet(result.list) \subseteq (0..4) \ {call.node}

\* Renumbering in place, cycle by cycle with one buffer, yields the same graph with
\* every node and every neighbour renamed (permute_and_map_neighbors).
RenumberingPreservesEdges ==
  Returned("permute") =>
    \A v, u \in 0..3 :
      call.newId[u] \in ToSet(result.graph[call.newId[v]]) <=> u \in ToSet(Tagged[v])

\* A query probes the same lists with the same distances alone and in a batch,
\* whatever the errors of the matrix product within the bound: range searches
\* and cached probes rely on it.
BatchProbesAsAlone ==
  Returned("batch") =>
    Means!FindTopKBatch(call.exact, call.approx, call.nprobe, call.nq, call.bound, call.norms)
      = Means!FindTopK(call.exact, call.nprobe)

\* The bounded selection of range searches, cut back whenever it is full, loses
\* no probe and keeps the order of ties; a distance that is not finite is an
\* error naming its first centroid, selected or not.
CheckedMatchesFullSort ==
  Returned("checked") =>
    LET r == Means!FindTopKChecked(call.exact, call.nprobe)
        bad == {c \in DOMAIN call.exact : call.exact[c] = Infinity}
    IN  IF bad = {} \/ call.nprobe = 0 THEN r.ok /\ r.probes = Means!FindTopK(call.exact, call.nprobe)
        ELSE ~r.ok /\ r.centroid \in bad /\ \A c \in bad : r.centroid <= c

\* The matrix of one block fits the scratch of the process, and so do those of
\* all threads together while two rows of it do.
ScratchIsShared ==
  Returned("plan") =>
    LET plan == Means!AssignmentBlockPlan(call.n, call.d, call.k, call.threads)
    IN  /\ plan.rows >= 1 /\ plan.rows <= Means!MaxAssignRows(call.k)
        /\ plan.parallel /\ 2 * call.k <= MaxElems => call.threads * plan.rows * call.k <= MaxElems

\* Every row is assigned, to the first of its nearest centroids, however many
\* threads the blocks are planned for; and a balanced assignment never sends a
\* row to a cluster that is both farther and larger in its chunk.
RowsGoToTheNearest ==
  Returned("assign") =>
    LET m == call.matrix
        fast == Means!AssignClustersFast(m, 1, 2, call.threads)
        balanced == Means!AssignClustersBalanced(m, 2, call.incoming, [s \in 0..4 |-> Penalty[s + 1]])
        size == [c \in 1..2 |-> Cardinality({j \in DOMAIN m : call.incoming[j] = c})]
    IN  /\ Len(fast) = Len(m)
        /\ \A i \in DOMAIN m : fast[i] = (IF m[i][2] < m[i][1] THEN 2 ELSE 1)
        /\ Len(m) * 2 <= MaxElems =>
             \A i \in DOMAIN m : LET c == balanced[i]  e == 3 - c IN ~(m[i][e] < m[i][c] /\ size[e] <= size[c])

-----------------------------------------------------------------------------
(* Builds, shards and repairs.                                                   *)

\* What the batch must produce, whatever the order its workers finish in.
BatchResult(g, b) ==
  LET lists == [v \in ToSet(b) |-> Graph!SearchAndPrune(g, v)]
      stored == lists @@ g
      incoming == Graph!GroupReverseEdges(UNION {{<<u, v>> : u \in ToSet(lists[v])} : v \in DOMAIN lists})
  IN  [v \in Graph!Nodes |-> IF v \in DOMAIN incoming
                       THEN Graph!InsertReverseEdges(pos, v, stored[v], incoming[v], R, Graph!Ratio[1], Graph!Ratio[2])
                       ELSE stored[v]]

\* The graph after a batch is a function of the graph before it and of the batch,
\* "independent of Rayon scheduling and worker count" (run_pass).
IndependentOfScheduling ==
  Building /\ mode = "parallel" /\ phase = "next" /\ batch # <<>> => graph = BatchResult(before, batch)

\* A batch of a single node does what the sequential builder does for that node
\* (run_pass, run_sequential_pass, insert_reverse_edge).
SingleNodeBatchIsSequential ==
  Building /\ mode = "parallel" /\ phase = "next" /\ Len(batch) = 1 => graph = Graph!SequentialNode(before, batch[1])

\* Throughout both builds every node keeps between one and Degree distinct
\* neighbours other than itself: validate cannot fail on the graph, and no list
\* outgrows its storage (CompactAdjacency::push, replace).
GraphStaysValid ==
  Building =>
    Graph!ValidGraph(graph, Graph!Degree) /\ \A v \in Graph!Nodes : graph[v] # <<>>

\* Rebalancing never gives up: a capacity of ceil(2N / (k - 1)) leaves room somewhere
\* even though one shard cannot accept the node (overlapping_shard_capacity,
\* rebalance_overlapping_shards).
RebalancingSucceeds ==
  Sharding =>
    status # "cannot be capacity-balanced"

\* Once rebalanced no shard exceeds its capacity, every vector is still in two
\* distinct shards, and the membership lists agree with the assignments.
RebalancedWithinCapacity ==
  Sharding /\ status \in {"building", "merged"} =>
    \A s \in Graph!Shards :
      /\ Len(memberships[s]) <= Graph!Capacity /\ IsInjective(memberships[s])
      /\ ToSet(memberships[s]) = {v \in Graph!Nodes : s \in {assignments[v][1], assignments[v][2]}}
      /\ \A v \in Graph!Nodes : assignments[v][1] # assignments[v][2]

\* Merging keeps the lists valid, and joins each vector to its nearest neighbour
\* among all that its shards proposed: only a vector that is alone in both of its
\* shards is left without one.
MergeKeepsNeighbors ==
  Sharding /\ status = "merged" =>
    /\ Graph!ValidGraph(graph, Graph!Degree)
    /\ \A v \in Graph!Nodes : graph[v] = <<>> =>
         \A s \in Graph!Shards : v \in ToSet(memberships[s]) => Len(memberships[s]) = 1

\* What earlier shards contributed is only ever replaced by something closer: the
\* first neighbour of a vector never gets farther (robust prune of mapped and
\* current neighbours).
MergesOnlyImprove ==
  Sharding =>
    \A v \in Graph!Nodes : graph[v] # <<>> =>
       graph'[v] # <<>> /\ ~Graph!Closer(Graph!Pos, v, graph[v][1], graph'[v][1])

\* Repair cannot lose what it has: the nodes it counts as visited are exactly those
\* reachable in the graph as it now stands, so no edge it takes away was needed
\* (repair_connectivity_with_stats removes "a non-tree edge").
VisitedIsReachable ==
  Repairing =>
    visited = Graph!Reach(graph, {given.entry})

\* The list of sources is neither stale nor short: it names each visited node that
\* has a free slot or a non-tree edge, once (eligible_sources, is_repair_source).
EligibleIsExact ==
  Repairing =>
    /\ IsInjective(eligible)
    /\ ToSet(eligible) = {v \in visited : Graph!IsRepairSource(graph, v, Graph!MaxDegree, parent)}

\* Repair never reports that no edge can be replaced, and the graph it returns
\* passes validate and the reachability check of every build.
RepairSucceeds ==
  Repairing =>
    status \in {"running", "ok"}

-----------------------------------------------------------------------------
(* What the run checks.                                                          *)

\* The graph of a DiskANN index is what its definition asks for, however the workers of
\* a batch are scheduled: searches and prunes are exact, lists stay valid, shards are
\* balanced and merged without losing a vector, and a repair reaches every node without
\* cutting one off.
GraphsAreRight ==
  /\ LazyFrontierIsExact /\ PruneDropsOnlyTheCovered /\ SampledNeighborsAreDistinct /\ RenumberingPreservesEdges
  /\ IndependentOfScheduling /\ SingleNodeBatchIsSequential /\ GraphStaysValid
  /\ RebalancingSucceeds /\ RebalancedWithinCapacity /\ MergeKeepsNeighbors
  /\ VisitedIsReachable /\ EligibleIsExact /\ RepairSucceeds

\* Training sees a fair sample of the vectors within its budget, whatever batches they
\* came in, and returns centroids that come from the data: no point is lost when an
\* empty cluster is repaired or a cluster is split, splitting ends, and rows go to their
\* nearest centroid however the work is divided.
TrainingIsSound ==
  /\ part = "trainer" =>
       /\ Index!PlanFillsTheBudget /\ Index!TrainedOnTheWholeSample
       /\ Index!SampleIgnoresBatches /\ Index!EveryVectorEquallyLikely
  /\ part = "means" =>
       /\ next = 0 => Means!CentroidsComeFromData /\ Means!RepairSharesAllPoints
       /\ next # 0 => Means!PointsArePartitioned /\ Means!ReturnsTrainedCentroids /\ Means!SplittingEnds
  /\ BatchProbesAsAlone /\ CheckedMatchesFullSort /\ ScratchIsShared /\ RowsGoToTheNearest

\* After any order of training, replacing, adding, merging and building, an IVF index in
\* memory assigns rows by its own centroids, holds rows that fit its training unless it was
\* trained while it held them, keeps no stale table or block for the others, and answers
\* with the k nearest of the rows it may scan.
IndexesStayCoherent ==
  part = "index" =>
    /\ Index!GraphFollowsTheCentroids /\ Index!RowsMatchTheirIndex
    /\ Index!StructuresAreCurrent /\ Index!SearchIsExact

\* No step of a build undoes what an earlier one reached: a merge keeps the nearest
\* neighbour of a vector, Lloyd's iterations lower the objective unless a cluster was
\* repaired or balanced, seeds differ while points do, and the best restart is kept.
BuildersImprove ==
  [][/\ MergesOnlyImprove
     /\ part = "means" /\ next = 0 => Means!LloydDescends /\ Means!SeedsAreDistinct /\ Means!BestRestartWins]_partsVars
==============================================================================

-------------------------------- MODULE Vamana --------------------------------
(* The Vamana builder (src/core/src/vamana.rs): its algorithms, and the three     *)
(* procedures that make a graph from them.                                        *)
(*                                                                                *)
(* - A build makes two passes over the vectors.  In the parallel builder the      *)
(*   workers of a batch search and prune concurrently and then insert the reverse *)
(*   edges of different targets concurrently; nothing writes the graph while a    *)
(*   batch searches, so a search is one step, and an insertion holds the write    *)
(*   lock of its target.                                                          *)
(* - A sharded build gives every vector to the shards of its two nearest          *)
(*   centroids, rebalances overfull shards, builds each shard on its own and      *)
(*   merges it into the graph.  Centroid distances only choose among the allowed  *)
(*   shards, and a local graph is any of LocalLists.                              *)
(* - Either ends with repair_connectivity.  Distances only choose among the       *)
(*   sources and slots the code allows, so any of those may be chosen.            *)
(*                                                                                *)
(* A graph is a function from nodes 0..n-1 to sequences of neighbours; vectors    *)
(* are points on a line, `pos.at`, under the metric `pos.metric`: squared         *)
(* distance, or the negated product for an inner product.  Ties are broken by     *)
(* node.  A behaviour is one of the procedures, on a graph of its own.            *)
EXTENDS Integers, Sequences, SequencesExt, FiniteSetsExt

------------------------------------------------------------------------------
\* fvec_distance on a line.
Between(metric, x, y) == IF metric = "InnerProduct" THEN -(x * y) ELSE (x - y) * (x - y)

Distance(pos, a, b) == Between(pos.metric, pos.at[a], pos.at[b])

\* scored_node_order, for nodes scored against q.
Closer(pos, q, a, b) ==
  \/ Distance(pos, q, a) < Distance(pos, q, b)
  \/ Distance(pos, q, a) = Distance(pos, q, b) /\ a < b

NearestNode(pos, q, S) == CHOOSE a \in S : \A b \in S \ {a} : Closer(pos, q, a, b)
Farthest(pos, q, S) == CHOOSE a \in S : \A b \in S \ {a} : Closer(pos, q, b, a)

------------------------------------------------------------------------------
(* Greedy search with the scratch of the code: per node 0 unvisited, 1 visited, *)
(* 2 retained and not expanded, 3 expanded; `results` holds the L best, and     *)
(* `frontier` may hold nodes that were evicted since they were pushed.         *)

BeginSearch(n) == [states |-> [v \in 0..(n - 1) |-> 0], results |-> {}, frontier |-> {}]

\* Faulty variant of InsertCandidate: an evicted node stays retained.
InsertCandidateKeepsEvicted(s, pos, q, v, L) ==
  LET full == Cardinality(s.results) = L
      worst == Farthest(pos, q, s.results)
  IN  IF full /\ Closer(pos, q, worst, v) THEN [s EXCEPT !.states[v] = 1]
      ELSE [states |-> [s.states EXCEPT ![v] = 2],
            results |-> (IF full THEN s.results \ {worst} ELSE s.results) \cup {v},
            frontier |-> s.frontier \cup {v}]

InsertCandidate(s, pos, q, v, L) ==
  LET full == Cardinality(s.results) = L
      worst == Farthest(pos, q, s.results)
      states == IF full THEN [s.states EXCEPT ![worst] = 1, ![v] = 2] ELSE [s.states EXCEPT ![v] = 2]
      frontier == s.frontier \cup {v}
  IN  IF full /\ Closer(pos, q, worst, v) THEN [s EXCEPT !.states[v] = 1]
      ELSE [states |-> states,
            results |-> (IF full THEN s.results \ {worst} ELSE s.results) \cup {v},
            frontier |-> IF Cardinality(frontier) > 2 * L
                         THEN {u \in frontier : states[u] = 2} ELSE frontier]

Expand(s, graph, pos, q, v, L) ==
  FoldLeft(LAMBDA acc, u : IF acc.states[u] # 0 THEN acc ELSE InsertCandidate(acc, pos, q, u, L),
           [s EXCEPT !.states[v] = 3, !.frontier = @ \ {v}], graph[v])

RECURSIVE GreedyLoop(_, _, _, _, _)
GreedyLoop(s, graph, pos, q, L) ==
  IF s.frontier = {} THEN s
  ELSE LET v == NearestNode(pos, q, s.frontier)
       IN  GreedyLoop(IF s.states[v] = 2 THEN Expand(s, graph, pos, q, v, L)
                      ELSE [s EXCEPT !.frontier = @ \ {v}], graph, pos, q, L)

GreedySearch(graph, pos, entry, q, L) ==
  GreedyLoop(InsertCandidate(BeginSearch(Cardinality(DOMAIN graph)), pos, q, entry, L), graph, pos, q, L)

------------------------------------------------------------------------------
(* Pruning: alpha is a ratio of integers, num / den.                           *)

\* Faulty variant of RobustPrune: every candidate is taken, the nearest last.
RobustPruneFarFirst(pos, node, candidates, R, num, den) ==
  LET pool == SetToSortSeq(candidates \ {node}, LAMBDA a, b : Closer(pos, node, b, a))
  IN  SubSeq(pool, 1, Min({R, Len(pool)}))

\* A pivot covers what is nearer to it than to the node, alpha times; cosine distances
\* take the arm of L2, and inner products, which are negative, an arm of their own.
RetainAfterPrune(pos, node, pivot, v, num, den) ==
  IF pos.metric = "InnerProduct" THEN den * Distance(pos, pivot, v) >= num * Distance(pos, node, v)
  ELSE num * Distance(pos, pivot, v) > den * Distance(pos, node, v)

\* The nearest candidate is selected and drops those it covers, until none is
\* left or R are selected.
RobustPrune(pos, node, candidates, R, num, den) ==
  LET RECURSIVE prune(_, _)
      prune(pool, selected) ==
        IF pool = {} \/ Len(selected) = R THEN selected
        ELSE LET pivot == NearestNode(pos, node, pool)
             IN  prune({v \in pool \ {pivot} : RetainAfterPrune(pos, node, pivot, v, num, den)},
                       Append(selected, pivot))
  IN  prune(candidates \ {node}, <<>>)

------------------------------------------------------------------------------
(* Reverse edges, the initial random graph, and the final renumbering.         *)

\* group_reverse_edges: the sources of each target, in increasing order.
GroupReverseEdges(edges) ==
  [t \in {e[1] : e \in edges} |->
     SetToSortSeq({e[2] : e \in {f \in edges : f[1] = t}}, LAMBDA a, b : a < b)]

\* ParallelVamanaBuilder::insert_reverse_edges on the neighbours of one node.
InsertReverseEdges(pos, node, neighbors, incoming, R, num, den) ==
  LET missing == SelectSeq(incoming, LAMBDA v : v \notin ToSet(neighbors))
  IN  IF Len(neighbors) + Len(missing) <= R THEN neighbors \o missing
      ELSE RobustPrune(pos, node, ToSet(incoming) \cup ToSet(neighbors), R, num, den)

\* Faulty variant of SampleNeighbors: the displaced value is not remembered.
SampleNeighborsNoSwap(draws, node) ==
  [i \in DOMAIN draws |-> IF draws[i] >= node THEN draws[i] + 1 ELSE draws[i]]

\* sample_random_neighbors_into: a partial shuffle of the other nodes that keeps
\* only the displaced entries.  draws[i] is what the generator returned, in
\* (i-1)..(n-2).
SampleNeighbors(draws, node) ==
  LET next(acc, i) ==
        LET at(k) == IF k \in DOMAIN acc.swaps THEN acc.swaps[k] ELSE k
            picked == at(draws[i])
        IN  [swaps |-> IF draws[i] = i - 1 THEN acc.swaps
                       ELSE [k \in DOMAIN acc.swaps \cup {draws[i]} |->
                               IF k = draws[i] THEN at(i - 1) ELSE acc.swaps[k]],
             list |-> Append(acc.list, IF picked >= node THEN picked + 1 ELSE picked)]
  IN  FoldLeft(next, [swaps |-> [k \in {} |-> 0], list |-> <<>>], [i \in DOMAIN draws |-> i]).list

\* Faulty variant of PermuteNodes: every cycle is cut after its first move.
PermuteNodesOneMove(graph, newId) ==
  [v \in DOMAIN graph |-> IF \E u \in DOMAIN graph : newId[u] = v /\ u < v
                          THEN graph[CHOOSE u \in DOMAIN graph : newId[u] = v] ELSE graph[v]]

\* CompactAdjacency::permute_and_map_neighbors, first loop: each cycle of the
\* permutation is followed with one buffer.
PermuteNodes(graph, newId) ==
  LET RECURSIVE cycle(_, _, _, _)
      cycle(g, buffer, current, start) ==
        LET destination == newId[current]
            moved == [g EXCEPT ![destination] = buffer]
        IN  IF destination = start THEN moved
            ELSE cycle(moved, g[destination], destination, start)
      from(g, seen, start) ==
        IF start \in seen THEN [graph |-> g, seen |-> seen]
        ELSE [graph |-> cycle(g, g[start], start, start),
              seen |-> seen \cup LET RECURSIVE orbit(_)
                                     orbit(v) == IF newId[v] = start THEN {v} ELSE {v} \cup orbit(newId[v])
                                 IN  orbit(start)]
      n == Cardinality(DOMAIN graph)
  IN  FoldLeft(LAMBDA acc, start : from(acc.graph, acc.seen, start),
               [graph |-> graph, seen |-> {}], [i \in 1..n |-> i - 1]).graph

PermuteAndMapNeighbors(graph, newId) ==
  [v \in DOMAIN graph |->
     SetToSortSeq({newId[u] : u \in ToSet(PermuteNodes(graph, newId)[v])}, LAMBDA a, b : a < b)]

\* VamanaGraph::validate
ValidGraph(graph, R) ==
  \A v \in DOMAIN graph :
    /\ Len(graph[v]) <= R
    /\ IsInjective(graph[v])
    /\ ToSet(graph[v]) \subseteq DOMAIN graph \ {v}

RECURSIVE Reach(_, _)
Reach(graph, S) ==
  LET next == S \cup UNION {ToSet(graph[v]) : v \in S}
  IN  IF next = S THEN S ELSE Reach(graph, next)

\* VamanaGraph::is_fully_reachable
FullyReachable(graph, entry) == Reach(graph, {entry}) = DOMAIN graph

\* Faulty variant of ShardCapacity: the mean over all shards.
ShardCapacityMean(count, shards) == (2 * count + shards - 1) \div shards

\* overlapping_shard_capacity, for two shards or more.
ShardCapacity(count, shards) ==
  IF shards = 2 THEN count ELSE (2 * count + shards - 2) \div (shards - 1)

------------------------------------------------------------------------------

CONSTANTS
  N,            \* vectors of a build
  R,            \* max_degree
  L,            \* build_search_list_size
  BatchNodes,   \* PARALLEL_BUILD_BATCH_NODES
  Alpha,        \* alpha of the second pass, <<num, den>>
  Vectors,      \* the vector sets tried, each a metric and the positions of the nodes
  Plans,        \* sharded builds, [shards, count]
  Graphs,       \* the graphs handed to the repair, each with its entry and degree
  SampleSize,   \* CONNECTIVITY_SOURCE_SAMPLE_SIZE
  Nobody        \* no parent

VARIABLES
  graph,
  \* of a build
  pos, mode, pass,
  todo,      \* the nodes of this pass's shuffled order that are left
  batch,     \* the batch in flight
  selected,  \* the pruned lists of the batch's nodes searched so far
  groups,    \* reverse-edge groups not yet inserted
  phase,
  before,    \* the graph at the start of the batch, for the properties
  \* of a sharded build
  shape, assignments, memberships, shard,
  \* of a repair
  given, visited, parent, eligible,
  status     \* of both

buildVars  == <<pos, mode, pass, todo, batch, selected, groups, phase, before>>
shardVars  == <<shape, assignments, memberships, shard>>
repairVars == <<given, visited, parent, eligible>>
vars == <<graph, buildVars, shardVars, repairVars, status>>

Nodes == DOMAIN graph
Degree == Min({R, Cardinality(Nodes) - 1})

------------------------------------------------------------------------------
(* A build *)

Ratio == IF pass = 1 THEN <<1, 1>> ELSE Alpha

\* centroid_entry: the node nearest to the mean, all scaled by N for want of a division.
Entry ==
  LET total == FoldLeft(LAMBDA acc, v : acc + pos.at[v], 0, SetToSeq(Nodes))
      d(v) == Between(pos.metric, N * pos.at[v], total)
  IN  CHOOSE v \in Nodes : \A u \in Nodes \ {v} : d(v) < d(u) \/ (d(v) = d(u) /\ v < u)

\* What one worker computes for a node: greedy search from the entry, then a
\* prune of what it found together with the node's neighbours.
SearchAndPrune(g, v) ==
  RobustPrune(pos, v, GreedySearch(g, pos, Entry, v, L).results \cup ToSet(g[v]),
              R, Ratio[1], Ratio[2])

\* Faulty variant of SequentialNode: a full list refuses the reverse edge.
SequentialNodeFullRefuses(g, v) ==
  LET list == SearchAndPrune(g, v)
  IN  FoldLeft(LAMBDA acc, u : IF v \in ToSet(acc[u]) \/ Len(acc[u]) = R THEN acc
                               ELSE [acc EXCEPT ![u] = Append(@, v)],
               [g EXCEPT ![v] = list], list)

\* run_sequential_pass, for one node, with insert_reverse_edge for each selected.
SequentialNode(g, v) ==
  LET list == SearchAndPrune(g, v)
      insert(acc, u) ==
        IF v \in ToSet(acc[u]) THEN acc
        ELSE IF Len(acc[u]) < R THEN [acc EXCEPT ![u] = Append(@, v)]
        ELSE [acc EXCEPT ![u] = RobustPrune(pos, u, ToSet(@) \cup {v}, R, Ratio[1], Ratio[2])]
  IN  FoldLeft(insert, [g EXCEPT ![v] = list], list)

BuildInit ==
  /\ pos \in Vectors
  /\ mode \in {"parallel", "sequential"}
  /\ graph \in [0..(N - 1) -> {SetToSortSeq(S, LAMBDA a, b : a < b) : S \in kSubset(Min({R, N - 1}), 0..(N - 1))}]
  /\ \A v \in 0..(N - 1) : v \notin ToSet(graph[v])
  /\ pass = 1 /\ todo = 0..(N - 1) /\ phase = "next" /\ before = graph
  /\ batch = <<>> /\ selected = <<>> /\ groups = <<>>

StartBatch ==
  /\ mode = "parallel" /\ phase = "next" /\ todo # {}
  /\ \E S \in kSubset(Min({BatchNodes, Cardinality(todo)}), todo) :
       \E b \in SetToSeqs(S) : batch' = b
  /\ todo' = todo \ ToSet(batch')
  /\ selected' = <<>> /\ before' = graph /\ phase' = "search"
  /\ UNCHANGED <<pos, mode, graph, pass, groups>>

\* Faulty variant of SearchNode: the worker commits its list at once.
SearchNodeCommits(v) ==
  /\ phase = "search" /\ v \in ToSet(batch) \ DOMAIN selected
  /\ selected' = (v :> SearchAndPrune(graph, v)) @@ selected
  /\ graph' = [graph EXCEPT ![v] = selected'[v]]
  /\ UNCHANGED <<pos, mode, pass, todo, batch, groups, phase, before>>

\* A worker finishes one node of the batch.
SearchNode(v) ==
  /\ phase = "search" /\ v \in ToSet(batch) \ DOMAIN selected
  /\ selected' = (v :> SearchAndPrune(graph, v)) @@ selected
  /\ UNCHANGED <<pos, mode, graph, pass, todo, batch, groups, phase, before>>

\* All nodes searched: the lists are stored and the reverse edges grouped.
Commit ==
  /\ phase = "search" /\ DOMAIN selected = ToSet(batch)
  /\ graph' = selected @@ graph
  /\ groups' = GroupReverseEdges(UNION {{<<u, v>> : u \in ToSet(selected[v])} : v \in DOMAIN selected})
  /\ phase' = "reverse"
  /\ UNCHANGED <<pos, mode, pass, todo, batch, selected, before>>

\* Faulty variant of InsertGroup: the sources are appended without a prune.
InsertGroupUnpruned(t) ==
  /\ phase = "reverse" /\ t \in DOMAIN groups
  /\ graph' = [graph EXCEPT ![t] = @ \o SelectSeq(groups[t], LAMBDA v : v \notin ToSet(graph[t]))]
  /\ groups' = [u \in DOMAIN groups \ {t} |-> groups[u]]
  /\ UNCHANGED <<pos, mode, pass, todo, batch, selected, phase, before>>

\* A worker inserts the reverse edges of one target, under its write lock.
InsertGroup(t) ==
  /\ phase = "reverse" /\ t \in DOMAIN groups
  /\ graph' = [graph EXCEPT ![t] = InsertReverseEdges(pos, t, @, groups[t], R, Ratio[1], Ratio[2])]
  /\ groups' = [u \in DOMAIN groups \ {t} |-> groups[u]]
  /\ UNCHANGED <<pos, mode, pass, todo, batch, selected, phase, before>>

EndBatch ==
  /\ phase = "reverse" /\ DOMAIN groups = {}
  /\ phase' = "next"
  /\ UNCHANGED <<pos, mode, graph, pass, todo, batch, selected, groups, before>>

SequentialStep ==
  /\ mode = "sequential" /\ phase = "next"
  /\ \E v \in todo : graph' = SequentialNode(graph, v) /\ todo' = todo \ {v}
  /\ before' = graph
  /\ UNCHANGED <<pos, mode, pass, batch, selected, groups, phase>>

NextPass ==
  /\ phase = "next" /\ todo = {} /\ pass = 1
  /\ pass' = 2 /\ todo' = Nodes /\ batch' = <<>> /\ before' = graph
  /\ UNCHANGED <<pos, mode, graph, selected, groups, phase>>

Finish ==
  /\ phase = "next" /\ todo = {} /\ pass = 2
  /\ phase' = "finished"
  /\ UNCHANGED <<pos, mode, graph, pass, todo, batch, selected, groups, before>>

\* The finished build, so that any other state without a step is a deadlock.
Finished == phase = "finished" /\ UNCHANGED <<graph, buildVars>>

BuildNext ==
  \/ StartBatch \/ Commit \/ EndBatch \/ SequentialStep \/ NextPass \/ Finish \/ Finished
  \/ \E v \in Nodes : SearchNode(v) \/ InsertGroup(v)

------------------------------------------------------------------------------
(* A sharded build *)

Shards == 0..(shape.shards - 1)
Capacity == ShardCapacity(shape.count, shape.shards)
Pos == [metric |-> "L2", at |-> [v \in Nodes |-> v * v]]

\* nearest_two_centroids gives any two distinct shards; members are in node order.
ShardsInit ==
  /\ shape \in Plans
  /\ assignments \in [0..(shape.count - 1) -> {p \in Shards \X Shards : p[1] < p[2]}]
  /\ memberships = [s \in Shards |-> SelectSeq([i \in 1..shape.count |-> i - 1],
                                       LAMBDA v : s \in {assignments[v][1], assignments[v][2]})]
  /\ shard = 0 /\ graph = [v \in 0..(shape.count - 1) |-> <<>>] /\ status = "rebalancing"

\* Faulty variant of Replacements: the node's other shard is allowed.
ReplacementsOther(other) == {s \in Shards : Len(memberships[s]) < Capacity}

\* The shards with room, other than the node's other shard.
Replacements(other) == {s \in Shards \ {other} : Len(memberships[s]) < Capacity}

\* The last member of an overfull shard moves to a shard with room.
Move ==
  /\ status = "rebalancing" /\ Len(memberships[shard]) > Capacity
  /\ LET node == Last(memberships[shard])
         slot == IF assignments[node][1] = shard THEN 1 ELSE 2
         room == Replacements(assignments[node][3 - slot])
     IN  /\ status' = IF room = {} THEN "cannot be capacity-balanced" ELSE status
         /\ \E s \in IF room = {} THEN {shard} ELSE room :
              /\ assignments' = [assignments EXCEPT ![node][slot] = s]
              /\ memberships' = [[memberships EXCEPT ![shard] = Front(@)] EXCEPT ![s] = Append(@, node)]
  /\ UNCHANGED <<shape, shard, graph>>

NextShard ==
  /\ status = "rebalancing" /\ Len(memberships[shard]) <= Capacity
  /\ IF shard + 1 \in Shards THEN shard' = shard + 1 /\ UNCHANGED status
     ELSE shard' = 0 /\ status' = "building"
  /\ UNCHANGED <<shape, assignments, memberships, graph>>

\* Two shapes a local build may return for m members: a ring and a star.
LocalLists(m) ==
  {[i \in 1..m |-> <<(i % m) + 1>>], [i \in 1..m |-> IF i = 1 THEN <<2>> ELSE <<1>>]}

\* Faulty variant of MergeShard: the shard's lists overwrite those of earlier shards.
MergeShardOverwrites(members, local) ==
  [v \in Nodes |-> IF v \notin ToSet(members) THEN graph[v]
                   ELSE <<members[local[CHOOSE i \in DOMAIN members : members[i] = v][1]]>>]

\* A shard's lists, mapped to global nodes, are pruned together with the lists
\* that earlier shards left.
MergeShard(members, local) ==
  [v \in Nodes |->
     IF v \notin ToSet(members) THEN graph[v]
     ELSE LET i == CHOOSE j \in DOMAIN members : members[j] = v
              mapped == {members[local[i][k]] : k \in DOMAIN local[i]}
          IN  RobustPrune(Pos, v, mapped \cup ToSet(graph[v]), Degree, 1, 1)]

\* Faulty variant of TooSmall: a pair is skipped too.
TooSmallPairs(members) == Len(members) < 3

\* A shard of one vector has no edge to offer.
TooSmall(members) == Len(members) < 2

BuildShard ==
  /\ status = "building"
  /\ LET members == memberships[shard]
     IN  IF TooSmall(members) THEN UNCHANGED graph
         ELSE \E local \in LocalLists(Len(members)) : graph' = MergeShard(members, local)
  /\ IF shard + 1 \in Shards THEN shard' = shard + 1 /\ UNCHANGED status
     ELSE shard' = 0 /\ status' = "merged"
  /\ UNCHANGED <<shape, assignments, memberships>>

ShardsNext == Move \/ NextShard \/ BuildShard

------------------------------------------------------------------------------
(* repair_connectivity *)

MaxDegree == given.degree

\* Breadth-first search from the front of `queue`: who is reached, through whom,
\* and in which order the new nodes were found.
RECURSIVE Sweep(_, _, _, _, _)
Sweep(g, queue, seen, via, found) ==
  IF queue = <<>> THEN [seen |-> seen, via |-> via, found |-> found]
  ELSE LET v == Head(queue)
           new == SelectSeq(g[v], LAMBDA u : u \notin seen)
       IN  Sweep(g, Tail(queue) \o new, seen \cup ToSet(new),
                 [u \in DOMAIN via |-> IF u \in ToSet(new) THEN v ELSE via[u]], found \o new)

ReachabilityTree(g, entry) == Sweep(g, <<entry>>, {entry}, [v \in DOMAIN g |-> Nobody], <<>>)

\* Faulty variant of IsRepairSource: a full node never gives up an edge.
IsRepairSourceSpareOnly(g, v, degree, via) == Len(g[v]) < degree

IsRepairSource(g, v, degree, via) ==
  Len(g[v]) < degree \/ \E i \in DOMAIN g[v] : via[g[v][i]] # v

RepairInit ==
  /\ given \in Graphs
  /\ graph = given.graph
  /\ LET tree == ReachabilityTree(given.graph, given.entry)
     IN  /\ visited = tree.seen /\ parent = tree.via
         /\ eligible = SetToSortSeq({v \in tree.seen : IsRepairSource(given.graph, v, given.degree, tree.via)},
                                    LAMBDA a, b : a < b)
  /\ status = "running"

\* Vec::swap_remove
SwapRemove(s, i) == IF i = Len(s) THEN Front(s) ELSE [Front(s) EXCEPT ![i] = Last(s)]

\* select_repair_source: the nearest of a sample that starts anywhere, or, when
\* the sample holds none, the first source that still qualifies.
Selectable ==
  LET ok(i) == IsRepairSource(graph, eligible[i], MaxDegree, parent)
      n == Len(eligible)
      sample(start) == {i \in {((start + k) % n) + 1 : k \in 0..(Min({SampleSize, n}) - 1)} : ok(i)}
      good == {i \in 1..n : ok(i)}
  IN  UNION {IF sample(start) # {} THEN sample(start)
             ELSE IF good = {} THEN {} ELSE {Min(good)} : start \in 0..(n - 1)}

\* Faulty variant of Removable: any edge of a full source may go.
RemovableAny(source) == DOMAIN graph[source]

\* The slots a full source may give up: edges that are not tree edges.
Removable(source) == {i \in DOMAIN graph[source] : parent[graph[source][i]] # source}

\* Faulty variant of Requeue: the source is not offered again.
RequeueForgetsSource(g, source, tree, rest) ==
  rest \o SelectSeq(tree.found, LAMBDA v : IsRepairSource(g, v, MaxDegree, tree.via))

\* The source, the target and what the target brought along, if they qualify.
Requeue(g, source, tree, rest) ==
  rest \o SelectSeq(<<source>> \o tree.found, LAMBDA v : IsRepairSource(g, v, MaxDegree, tree.via))

\* One turn of the loop: the lowest unreached node becomes a child of a source.
Attach ==
  /\ status = "running" /\ visited # Nodes
  /\ LET target == Min(Nodes \ visited)
     IN  \E i \in Selectable :
           LET source == eligible[i]
           IN  \E list \in IF Len(graph[source]) = MaxDegree
                           THEN {SwapRemove(graph[source], k) : k \in Removable(source)}
                           ELSE {graph[source]} :
                 LET g == [graph EXCEPT ![source] = Append(list, target)]
                     tree == Sweep(g, <<target>>, visited \cup {target},
                                   [parent EXCEPT ![target] = source], <<target>>)
                 IN  /\ graph' = g /\ visited' = tree.seen /\ parent' = tree.via
                     /\ eligible' = Requeue(g, source, tree, SwapRemove(eligible, i))
  /\ UNCHANGED <<given, status>>

\* Every node reached, or no edge can be replaced.
Return ==
  /\ status = "running" /\ (visited = Nodes \/ Selectable = {})
  /\ status' = IF visited # Nodes THEN "no replaceable edge"
               ELSE IF ValidGraph(graph, MaxDegree) /\ FullyReachable(graph, given.entry)
               THEN "ok" ELSE "invalid"
  /\ UNCHANGED <<given, graph, visited, parent, eligible>>

RepairNext == Attach \/ Return

------------------------------------------------------------------------------

Init ==
  \/ /\ BuildInit
     /\ shape = 0 /\ assignments = 0 /\ memberships = 0 /\ shard = 0
     /\ given = 0 /\ visited = 0 /\ parent = 0 /\ eligible = 0 /\ status = "build"
  \/ /\ ShardsInit
     /\ pos = 0 /\ mode = 0 /\ pass = 0 /\ todo = 0 /\ batch = 0 /\ selected = 0
     /\ groups = 0 /\ phase = "shards" /\ before = 0
     /\ given = 0 /\ visited = 0 /\ parent = 0 /\ eligible = 0
  \/ /\ RepairInit
     /\ pos = 0 /\ mode = 0 /\ pass = 0 /\ todo = 0 /\ batch = 0 /\ selected = 0
     /\ groups = 0 /\ phase = "repair" /\ before = 0
     /\ shape = 0 /\ assignments = 0 /\ memberships = 0 /\ shard = 0

Next ==
  \/ status = "build" /\ BuildNext /\ UNCHANGED <<shardVars, repairVars, status>>
  \/ phase = "shards" /\ ShardsNext /\ UNCHANGED <<buildVars, repairVars>>
  \/ phase = "repair" /\ RepairNext /\ UNCHANGED <<buildVars, shardVars>>

Spec == Init /\ [][Next]_vars
==============================================================================

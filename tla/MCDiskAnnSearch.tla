---------------------------- MODULE MCDiskAnnSearch ----------------------------
(***************************************************************************)
(* Small instances of what one DiskANN reader does with windows: the graph *)
(* search on a healthy index ("graph"), with a corrupt page and failing    *)
(* reads ("errors") and along a path ("path"), the rerank of raw vectors   *)
(* ("rerank"), and the recency list of the caches ("list").  A behaviour   *)
(* is one of the parts; the variables of the others stay as they are.      *)
(***************************************************************************)
EXTENDS OffsetLru, Sequences, TLC

CONSTANTS
  Parts,             \* the parts of a run
  Nodes, Neighbors, Distances, PageOf, WindowOf, WindowLength, BeamWidth,
  SearchListSizes, SparseUpTo, Limit, RerankLimit, SearchSlack,
  Windows, WindowBytes, RerankSlack, Budgets, PoolLimits, MaxRanges, MaxBytes

VARIABLES
  part, phase, entries, recency, retained, queries,               \* of both
  dist, limit, visited, frontier, kept, expanded, selected, decoded, pages,
  mode, budget, keep, todo, plan, scored, pending, reserved, waiting, payloads, pool,
  stats, outcome

sharedVars == <<phase, entries, recency, retained, queries>>
graphVars  == <<dist, limit, visited, frontier, kept, expanded, selected, decoded, pages>>
rerankVars == <<mode, budget, keep, todo, plan, scored, pending, reserved, waiting,
                payloads, pool, stats, outcome>>
allVars    == <<part, vars, sharedVars, graphVars, rerankVars>>

-----------------------------------------------------------------------------
(* The instances. *)

\* A directed graph with an entry node of a high degree: its neighbours overflow the
\* frontier of a short search list.
MCNeighbors ==
  0 :> <<1, 2, 3, 4, 5>> @@ 1 :> <<2>> @@ 2 :> <<0, 4>> @@ 3 :> <<1, 5>>
  @@ 4 :> <<3>> @@ 5 :> <<4>>

\* Orders of the nodes by distance: up and down from every node, and one with ties.
MCDistances ==
  LET size == Cardinality(Nodes)
  IN  UNION { { [n \in Nodes |-> (n + k) % size],
                [n \in Nodes |-> (k + size - n) % size] } : k \in Nodes }
      \cup { [n \in Nodes |-> n \div 2] }

\* The nodes by number, and the other way round.
MCTwoDistances == { [n \in Nodes |-> n], [n \in Nodes |-> 10 - n] }

\* Each list in a page of its own, and each page in a window of its own.
MCOwn     == [n \in Nodes |-> n]

\* Two pages to a window.
MCPairs   == [p \in Nodes |-> p \div 2]

MCUnit    == [o \in Nodes |-> 1]

\* A path: every search walks it from end to end.
MCPath    == [n \in Nodes |-> IF n + 1 \in Nodes THEN <<n + 1>> ELSE <<>>]

\* Windows of one, two and two bytes.
MCWindowBytes == [o \in Windows |-> IF o = 0 THEN 1 ELSE 2]

\* Lists in windows of their own, and room for one round and one window more: every
\* search evicts windows, and needs some of them again.  Along a path, nodes are
\* expanded one by one and reranked together, with room for fewer windows.
Graph == INSTANCE GraphSearch
           WITH Entry <- 0, Hot <- {}, CorruptPages <- {}, Slack <- SearchSlack,
                Interleaved <- TRUE, MaxQueries <- 2

\* Windows of two pages, one of them preloaded and one page corrupt; room for a single
\* cold window, in buffers that may be larger than it, so that a query also fails
\* because a window is gone.
Errors == INSTANCE GraphSearch
            WITH Entry <- 0, Hot <- {0}, CorruptPages <- {3}, Slack <- RerankSlack,
                 Interleaved <- TRUE, MaxQueries <- 2, Distances <- MCTwoDistances,
                 WindowOf <- MCPairs, Limit <- 1, RerankLimit <- 3

Rerank == INSTANCE VectorRerank WITH Slack <- RerankSlack, MaxQueries <- 3

-----------------------------------------------------------------------------

\* The variables of the parts that do not run.
SharedOff ==
  phase = 0 /\ entries = 0 /\ recency = 0 /\ retained = 0 /\ queries = 0
GraphOff ==
  /\ dist = 0 /\ limit = 0 /\ visited = 0 /\ frontier = 0 /\ kept = 0 /\ expanded = 0
  /\ selected = 0 /\ decoded = 0 /\ pages = 0
RerankOff ==
  /\ mode = 0 /\ budget = 0 /\ keep = 0 /\ todo = 0 /\ plan = 0 /\ scored = 0
  /\ pending = 0 /\ reserved = 0 /\ waiting = 0 /\ payloads = 0 /\ pool = 0 /\ stats = 0
  /\ outcome = 0

PartsInit ==
  /\ part \in Parts
  /\ Init
  /\ \/ part \in {"graph", "path"} /\ Graph!Init /\ RerankOff
     \/ part = "errors" /\ Errors!Init /\ RerankOff
     \/ part = "rerank" /\ Rerank!Init /\ GraphOff
     \/ part = "list" /\ SharedOff /\ GraphOff /\ RerankOff

PartsNext ==
  /\ UNCHANGED part
  /\ \/ part \in {"graph", "path"} /\ Graph!Next /\ UNCHANGED <<vars, rerankVars>>
     \/ part = "errors" /\ Errors!Next /\ UNCHANGED <<vars, rerankVars>>
     \/ part = "rerank" /\ Rerank!Next /\ UNCHANGED <<vars, graphVars>>
     \/ part = "list" /\ Next /\ UNCHANGED <<sharedVars, graphVars, rerankVars>>

PartsSpec == PartsInit /\ [][PartsNext]_allVars

-----------------------------------------------------------------------------
(* Properties. *)

\* The candidates a search keeps are the closest of all the nodes it has visited, as
\* many as its list holds, and it expands none twice: neither the bound of the heap nor
\* marks left by an earlier query, with the other storage, make it miss one.
SearchKeepsClosest ==
  /\ part = "graph"  => Graph!KeepsClosestVisited /\ Graph!ExpandsOnce
  /\ part = "errors" => Errors!KeepsClosestVisited /\ Errors!ExpandsOnce

\* A search that stops before its list is used up has expanded every candidate it
\* keeps: pruning the frontier and stopping at the worst kept candidate lose none.
SearchStopsAtOptimum ==
  [][/\ part = "graph"  => Graph!StopsAtLocalOptimum
     /\ part = "errors" => Errors!StopsAtLocalOptimum]_allVars

\* What a round or a rerank reads, it reads from a window that is held, however the
\* windows were evicted and loaded in between, and from a page this query validated;
\* and each window of a rerank counts once, as a hit or as a miss, however often
\* another thread cancelled its read.
InputsAreHeld ==
  /\ part = "graph"  => Graph!RoundInputsAvailable
  /\ part = "errors" => Errors!ReadsValidatedPages
  /\ part = "rerank" => Rerank!ScoredWindowsLoaded /\ Rerank!EveryWindowCountedOnce

\* Caches and pools count the bytes they hold exactly and stay within their limits,
\* through evictions, takes that fail half way, shared payloads and lowered limits; a
\* query holds nothing when it has returned, with or without an error.
WindowBytesExact ==
  /\ part = "graph"  => Graph!QueryWindowsBounded
  /\ part = "errors" => Errors!QueryWindowsBounded
  /\ part = "rerank" => /\ Rerank!CacheAccounting
                        /\ Rerank!PoolAccounting
                        /\ Rerank!OverBudgetOnlyAfterFailedLoad

\* A rerank starts to load with a cache within the budget, whatever the one before it
\* left behind; the chunks of a batch are within the two limits that bound the bytes in
\* flight, and cover no window twice.
LoadsWithinLimits ==
  [][part = "rerank" => Rerank!PreparedWithinBudget /\ Rerank!ChunksWithinLimits]_allVars

\* Making room for the missing windows of a round evicts none that the round is about
\* to consume (the comment in prepare_adjacency_window_cache), along a path that is
\* reranked at the end.
PathInputsAvailable == part = "path" => Graph!RoundInputsAvailable

=============================================================================

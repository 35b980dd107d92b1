------------------------------ MODULE GraphSearch ------------------------------
(***************************************************************************)
(* One reader of a DiskANN index answering queries, one after another      *)
(* (core/src/diskann_search.rs: search_preprocessed,                       *)
(* generate_graph_candidates, load_adjacency_pages, rerank_interleaved and *)
(* the scratch state they share, DiskAnnQueryScratch).                     *)
(*                                                                         *)
(* The graph is searched in rounds.  A round selects the closest           *)
(* unexpanded candidates, loads the read windows their adjacency lists lie *)
(* in, and decodes the lists.  The windows stay in a cache of the query,   *)
(* AdjacencyWindowCache, of at most Limit bytes.  An interleaved index     *)
(* keeps the raw vectors next to the lists, so the final rerank reads from *)
(* the same windows.                                                       *)
(*                                                                         *)
(* A node is a number, a distance a rank.  How the windows of a round are  *)
(* obtained is the subject of SharedWindowCache: here they arrive in any   *)
(* order, or the read fails.                                               *)
(***************************************************************************)
EXTENDS WindowLru, SequencesExt

CONSTANTS
  Nodes,             \* nodes of the graph, ordered by number
  Neighbors,         \* adjacency list of a node
  Entry,             \* entry_node
  Distances,         \* the distances a query may have to the nodes
  PageOf,            \* page of the adjacency list of a node
  WindowOf,          \* offset of the read window of a page
  WindowLength,      \* length of the window at an offset
  Hot,               \* offsets of the windows preloaded by optimize_for_search
  CorruptPages,      \* pages whose contents do not pass validation
  Slack,             \* what a pooled buffer may be larger than its window
  Limit,             \* QUERY_ADJACENCY_WINDOW_LIMIT_BYTES
  BeamWidth,         \* graph_beam_width of the read plan
  SearchListSizes,   \* search list sizes of the queries
  SparseUpTo,        \* largest search list size for which visited is sparse
  RerankLimit,       \* max(4 * top_k, 64)
  Interleaved,       \* whether raw vectors lie next to the adjacency lists
  MaxQueries         \* bound: queries answered

AdjacencyWindows == { WindowOf[PageOf[n]] : n \in Nodes }

VARIABLES
  phase,     \* where the reader is in its query
  dist,      \* distances of the current query
  limit,     \* search_list_size of the current query
  visited,   \* visited, sparse_visited, uses_sparse_visited and touched_nodes
  frontier,  \* candidates not expanded yet
  kept,      \* retained_candidates
  expanded,  \* expanded_count
  selected,  \* selected_nodes, or the candidates of the rerank
  decoded,   \* the nodes whose lists this query has decoded
  pages,     \* loaded_adjacency_pages
  entries,   \* payload of a window the query holds, Absent for none
  recency,   \* the windows it holds, the oldest first
  retained,  \* retained_capacity
  queries    \* queries begun

cacheVars  == <<entries, recency, retained>>
searchVars == <<dist, limit, visited, frontier, kept>>
vars       == <<phase, searchVars, expanded, selected, decoded, pages, cacheVars,
                queries>>

-----------------------------------------------------------------------------
(* Candidates: ordered by distance, then by node. *)

CloserBy(d, m, n) == d[m] < d[n] \/ (d[m] = d[n] /\ m < n)
Closer(m, n)      == CloserBy(dist, m, n)

Worst(S) == CHOOSE n \in S : \A m \in S \ {n} : Closer(m, n)

Sorted(S) == SetToSortSeq(S, Closer)

\* The visited marks: a bit vector with the list of the nodes to reset, or a table.
Visited == IF visited.useSparse THEN visited.sparse ELSE visited.dense

\* Faulty variant of Mark: neighbours are scored without being marked.
MarkNothing(S) == visited

Mark(S) ==
  IF visited.useSparse
  THEN [visited EXCEPT !.sparse = @ \cup S]
  ELSE [visited EXCEPT !.dense = @ \cup S, !.touched = @ \cup S]

\* Faulty variant of Unmarked: the list of the nodes to reset is cleared unread.
UnmarkedTable(sparse) ==
  [dense |-> visited.dense, sparse |-> {}, touched |-> {}, useSparse |-> sparse]

\* begin_rerank resets the marks of the storage that the last query used;
\* begin_graph_search then chooses the storage of the next one.
Unmarked(sparse) ==
  IF visited.useSparse
  THEN [dense |-> visited.dense, sparse |-> {}, touched |-> {}, useSparse |-> sparse]
  ELSE [dense |-> visited.dense \ visited.touched, sparse |-> visited.sparse,
        touched |-> {}, useSparse |-> sparse]

\* insert_graph_candidate: keep the closest candidates, and prune the frontier
\* when it has grown to more than twice their number.
Insert(heaps, n) ==
  LET full  == Cardinality(heaps.kept) = limit
      kept1 == (IF full THEN heaps.kept \ {Worst(heaps.kept)} ELSE heaps.kept) \cup {n}
      next1 == heaps.frontier \cup {n}
  IN  IF full /\ ~Closer(n, Worst(heaps.kept))
      THEN heaps
      ELSE [kept     |-> kept1,
            frontier |-> IF Cardinality(next1) > 2 * limit
                         THEN { m \in next1 : ~Closer(Worst(kept1), m) } ELSE next1]

\* The candidates to rerank: the closest ones, and the others in their windows.
RerankCandidates ==
  LET candidates == Sorted(kept)
      seeds == { WindowOf[PageOf[candidates[i]]] :
                   i \in { j \in DOMAIN candidates : j <= RerankLimit } }
  IN  SelectSeq(candidates, LAMBDA n : WindowOf[PageOf[n]] \in seeds)

-----------------------------------------------------------------------------
(* The windows of the query. *)

WindowAt(n)  == WindowOf[PageOf[n]]
Held(o)      == entries[o] # Absent
Available(n) == WindowAt(n) \in Hot \/ Held(WindowAt(n))

\* Faulty variant of PagesToLoad: pages of windows the query holds are not validated.
PagesOfMissingWindows(nodes) == { PageOf[n] : n \in { m \in ToSet(nodes) : ~Available(m) } }

\* The pages to load for the nodes: not validated in this query, or evicted since.
PagesToLoad(nodes) ==
  { PageOf[n] : n \in { m \in ToSet(nodes) : PageOf[m] \notin pages \/ ~Available(m) } }

ColdWindows(nodes) == { WindowOf[p] : p \in PagesToLoad(nodes) } \ Hot

IncomingBytes(nodes) ==
  MapThenSumSet(LAMBDA o : WindowLength[o], { o \in ColdWindows(nodes) : ~Held(o) })

\* Faulty variant of TouchWindows: the inputs of the round are not touched.
TouchNothing(nodes) == recency

\* touch_windows: the inputs of the round become the most recent windows.
TouchWindows(nodes) ==
  FoldLeft(LAMBDA q, n : IF Held(WindowAt(n)) THEN LruTouch(q, WindowAt(n)) ELSE q,
           recency, nodes)

\* trim, from the order q down to a number of bytes, as what it leaves.
Trimmed(q, bytes) ==
  LET n == CHOOSE n \in 0 .. Len(q) : Pops(q, entries, retained, bytes, n)
  IN  [order   |-> SubSeq(q, n + 1, Len(q)),
       windows |-> [o \in AdjacencyWindows |-> IF o \in Oldest(q, n) THEN Absent ELSE entries[o]],
       bytes   |-> SaturatingSub(retained, Bytes(entries, Oldest(q, n)))]

\* load_adjacency_pages, when every read succeeds and every page is valid: room is
\* made, and the windows that are missing then are inserted in some order.
LoadPages(nodes) ==
  IF PagesToLoad(nodes) = {}
  THEN UNCHANGED <<cacheVars, pages>>
  ELSE LET kept1   == Trimmed(TouchWindows(nodes),
                              SaturatingSub(Limit, IncomingBytes(nodes)))
           lacking == { o \in ColdWindows(nodes) : kept1.windows[o] = Absent }
       IN  /\ PagesToLoad(nodes) \cap CorruptPages = {}
           /\ \E arrivals \in SetToSeqs(lacking), slack \in [lacking -> Slack] :
                /\ recency' = kept1.order \o arrivals
                /\ entries' = [o \in AdjacencyWindows |->
                                 IF o \in lacking
                                 THEN [length   |-> WindowLength[o],
                                       capacity |-> WindowLength[o] + slack[o]]
                                 ELSE kept1.windows[o]]
                /\ retained' = kept1.bytes + Bytes(entries', lacking)
           /\ pages' = pages \cup PagesToLoad(nodes)

\* recycle_adjacency_windows: the query gives all its windows back.
Recycled ==
  /\ entries'  = [o \in AdjacencyWindows |-> Absent]
  /\ recency'  = <<>>
  /\ retained' = 0

-----------------------------------------------------------------------------
(* The steps of a query. *)

\* generate_graph_candidates up to its loop.
BeginGraphSearch ==
  /\ phase = "idle"
  /\ queries < MaxQueries
  /\ queries' = queries + 1
  /\ dist'  \in Distances
  /\ limit' \in SearchListSizes
  /\ LET fresh == Unmarked(limit' <= SparseUpTo)
     IN  visited' = IF fresh.useSparse
                    THEN [fresh EXCEPT !.sparse = @ \cup {Entry}]
                    ELSE [fresh EXCEPT !.dense = @ \cup {Entry}, !.touched = {Entry}]
  /\ frontier' = {Entry}
  /\ kept'     = {Entry}
  /\ expanded' = 0
  /\ selected' = <<>>
  /\ decoded'  = {}
  /\ pages'    = {}
  /\ Recycled
  /\ phase'    = "select"

\* The rerank of candidates that a filter has chosen, without a graph search.
BeginRerank ==
  /\ phase = "idle"
  /\ Interleaved
  /\ queries < MaxQueries
  /\ queries' = queries + 1
  /\ dist'    \in Distances
  /\ visited' = Unmarked(visited.useSparse)
  /\ \E S \in SUBSET Nodes :
       /\ Cardinality(S) \in 1 .. RerankLimit
       /\ selected' = SetToSortSeq(S, LAMBDA m, n : CloserBy(dist', m, n))
  /\ frontier' = {} /\ kept' = {} /\ decoded' = {} /\ pages' = {} /\ expanded' = 0
  /\ Recycled
  /\ phase'   = "rerank"
  /\ UNCHANGED limit

\* Faulty variant of Eligible: the worst kept candidate is left out.
EligibleStrict == { n \in frontier : Closer(n, Worst(kept)) }

\* The candidates select_round may still take: those not worse than the worst kept.
Eligible == { n \in frontier : ~Closer(Worst(kept), n) }

\* Faulty variant of Room: the rest of the search list does not bound a round.
RoomOfBeam == BeamWidth

\* The number of nodes a round may take.
Room == Min({BeamWidth, limit - expanded})

SelectRound ==
  LET best == Sorted(Eligible)
  IN  /\ phase = "select"
      /\ expanded < limit
      /\ Eligible # {}
      /\ selected' = SubSeq(best, 1, Min({Room, Len(best)}))
      /\ frontier' = IF Len(best) < Room THEN {} ELSE frontier \ ToSet(selected')
      /\ phase'    = "load"
      /\ UNCHANGED <<dist, limit, visited, kept, expanded, decoded, pages, cacheVars,
                     queries>>

LoadRound ==
  /\ phase = "load"
  /\ LoadPages(selected)
  /\ expanded' = expanded + Len(selected)
  /\ phase'    = "decode"
  /\ UNCHANGED <<searchVars, selected, decoded, queries>>

\* Decode the next list, and score the neighbours not visited before; after the
\* last one, trim the windows.
Decode ==
  LET n     == Head(selected)
      fresh == SelectSeq(Neighbors[n], LAMBDA m : m \notin Visited)
      heaps == FoldLeft(Insert, [kept |-> kept, frontier |-> frontier], fresh)
      rest  == Trimmed(recency, Limit)
  IN  /\ phase = "decode"
      /\ Available(n)
      /\ visited'  = Mark(ToSet(fresh))
      /\ kept'     = heaps.kept
      /\ frontier' = heaps.frontier
      /\ decoded'  = decoded \cup {n}
      /\ selected' = Tail(selected)
      /\ \/ /\ Tail(selected) # <<>>
            /\ UNCHANGED <<phase, cacheVars>>
         \/ /\ Tail(selected) = <<>>
            /\ recency'  = rest.order
            /\ entries'  = rest.windows
            /\ retained' = rest.bytes
            /\ phase'    = "select"
      /\ UNCHANGED <<dist, limit, expanded, pages, queries>>

\* The search list is used up, or no candidate is left that could improve it: the
\* kept candidates are drained into the sorted list that a rerank works from.
FinishGraphSearch ==
  /\ phase = "select"
  /\ expanded >= limit \/ Eligible = {}
  /\ frontier' = IF expanded >= limit THEN frontier ELSE {}
  /\ kept' = {}
  /\ \/ /\ Interleaved
        /\ selected' = RerankCandidates
        /\ phase'    = "rerank"
        /\ UNCHANGED cacheVars
     \/ /\ selected' = <<>>   \* candidates for a filter, or raw vectors elsewhere
        /\ Recycled
        /\ phase'    = "idle"
  /\ UNCHANGED <<dist, limit, visited, expanded, decoded, pages, queries>>

LoadRerank ==
  /\ phase = "rerank"
  /\ LoadPages(selected)
  /\ phase' = "score"
  /\ UNCHANGED <<searchVars, expanded, selected, decoded, queries>>

\* Read the vector of the next candidate; the query returns after the last one.
Score ==
  /\ phase = "score"
  /\ Available(Head(selected))
  /\ selected' = Tail(selected)
  /\ \/ /\ Tail(selected) # <<>>
        /\ UNCHANGED <<phase, cacheVars>>
     \/ /\ Tail(selected) = <<>>
        /\ Recycled
        /\ phase' = "idle"
  /\ UNCHANGED <<searchVars, expanded, decoded, pages, queries>>

\* An error ends the query: a read fails, a page is not valid, or a list or vector
\* is to be read from a window the query does not hold.
Fail ==
  /\ \/ phase \in {"load", "rerank"} /\ PagesToLoad(selected) # {}
     \/ phase \in {"decode", "score"} /\ ~Available(Head(selected))
  /\ Recycled
  /\ selected' = <<>>
  /\ phase'    = "idle"
  /\ UNCHANGED <<searchVars, expanded, decoded, pages, queries>>

-----------------------------------------------------------------------------

Init ==
  /\ phase    = "idle"
  /\ dist     = [n \in Nodes |-> 0]
  /\ limit    = 1
  /\ visited  = [dense |-> {}, sparse |-> {}, touched |-> {}, useSparse |-> FALSE]
  /\ frontier = {}
  /\ kept     = {}
  /\ expanded = 0
  /\ selected = <<>>
  /\ decoded  = {}
  /\ pages    = {}
  /\ entries  = [o \in AdjacencyWindows |-> Absent]
  /\ recency  = <<>>
  /\ retained = 0
  /\ queries  = 0

Next ==
  \/ BeginGraphSearch
  \/ BeginRerank
  \/ SelectRound
  \/ LoadRound
  \/ Decode
  \/ FinishGraphSearch
  \/ LoadRerank
  \/ Score
  \/ Fail

Spec == Init /\ [][Next]_vars

-----------------------------------------------------------------------------
(* Properties. *)

\* The candidates a search keeps are the closest of all the nodes it has visited,
\* and as many as the search list holds: neither the bound of the heap nor marks
\* left by an earlier query, with the other storage, make it miss one.
KeepsClosestVisited ==
  phase \in {"select", "load", "decode"} =>
    /\ kept \subseteq Visited
    /\ Cardinality(kept) = Min({limit, Cardinality(Visited)})
    /\ \A m \in kept, n \in Visited \ kept : Closer(m, n)

\* A search that stops before its list is used up has expanded every candidate it
\* keeps: pruning the frontier and stopping at the worst kept candidate lose none.
StopsAtLocalOptimum ==
  phase = "select" /\ phase' \in {"rerank", "idle"} /\ expanded < limit
    => kept \subseteq decoded

\* A search expands a node at most once, and no more nodes than its list holds.
ExpandsOnce ==
  /\ phase \in {"load", "decode"} => ToSet(selected) \cap decoded = {}
  /\ IsInjective(selected)
  /\ Cardinality(decoded) <= limit

\* Making room for the missing windows of a round evicts none that the round is
\* about to consume: each list is decoded, and each vector scored, from a window
\* the query holds.
RoundInputsAvailable ==
  phase \in {"decode", "score"} => \A n \in ToSet(selected) : Available(n)

\* A list or a vector is read only from a page that was validated in this query,
\* however often its window was evicted and loaded again in between.
ReadsValidatedPages ==
  /\ phase \in {"decode", "score"} => \A n \in ToSet(selected) : PageOf[n] \in pages
  /\ pages \cap CorruptPages = {}

\* The query holds each window once and counts its bytes exactly; it is within its
\* limit between two rounds, and holds nothing when it has returned, with or
\* without an error.
QueryWindowsBounded ==
  LET held == { o \in AdjacencyWindows : Held(o) }
  IN  /\ ToSet(recency) = held
      /\ IsInjective(recency)
      /\ retained = Bytes(entries, held)
      /\ held \cap Hot = {}
      /\ phase \in {"select", "load"} => retained <= Limit
      /\ phase = "idle" => held = {}

=============================================================================

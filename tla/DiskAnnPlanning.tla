--------------------------- MODULE DiskAnnPlanning ---------------------------
(***************************************************************************)
(* The pure planning functions of the DiskANN search                       *)
(* (core/src/diskann_search.rs): which byte window holds a page or a raw   *)
(* vector, which candidates are worth an exact distance, how a filtered    *)
(* query is answered, which nodes a row-ID filter selects and how the      *)
(* bounded heaps keep the best candidates.                                 *)
(*                                                                         *)
(* Candidates are records with a node and an integer distance, compared as *)
(* the code compares them, by (distance, node).  Nodes count from 0.       *)
(***************************************************************************)
EXTENDS Integers, SequencesExt, FiniteSetsExt

CONSTANTS
  PageSize,      \* DISKANN_PAGE_SIZE
  MaxI64,        \* i64::MAX: a filter element above it names no row
  MinExactRerank, \* the 64 of `top_k * 4 max 64`
  MinGraphList,  \* the 200 below which a filtered query never uses the graph
  SmallWindow,   \* the 16 KiB above which the graph needs a full preload
  None

ASSUME PlanningAssumption ==
  /\ {PageSize, MaxI64, MinExactRerank, MinGraphList, SmallWindow} \subseteq Nat \ {0}

Least(a, b) == IF a < b THEN a ELSE b
Most(a, b) == IF a < b THEN b ELSE a
CeilDiv(a, b) == (a + b - 1) \div b

------------------------------------------------------------------------------
(* Read windows *)

\* VectorWindowPlanner::new: whole records per window, at least one.
RecordsPerWindow(windowBytes, recordSize) == Most(windowBytes \div recordSize, 1)

\* Faulty variant of WindowForNode: windows cut at window_bytes, as the pages' are.
WindowForNodeUnaligned(windowBytes, section, recordSize, node) ==
  LET start == ((node * recordSize) \div windowBytes) * windowBytes
  IN  IF node * recordSize >= section.length THEN None
      ELSE [offset |-> section.offset + start,
            length |-> Least(windowBytes, section.length - start)]

\* Faulty variant of WindowForNode: the window starts at the node itself.
WindowForNodeSliding(windowBytes, section, recordSize, node) ==
  LET per == RecordsPerWindow(windowBytes, recordSize)
      start == node * recordSize
  IN  IF start >= section.length THEN None
      ELSE [offset |-> section.offset + start,
            length |-> Least(per * recordSize, section.length - start)]

\* VectorWindowPlanner::window_for_node.
WindowForNode(windowBytes, section, recordSize, node) ==
  LET per == RecordsPerWindow(windowBytes, recordSize)
      start == (node \div per) * per * recordSize
  IN  IF node * recordSize >= section.length THEN None
      ELSE [offset |-> section.offset + start,
            length |-> Least(per * recordSize, section.length - start)]

\* plan_logical_pages and plan_nodes: a BTreeMap keyed by the window's offset, so
\* each window once, in offset order; what lies outside the section is skipped.
PlanWindows(windows) ==
  SetToSortSeq(windows \ {None}, LAMBDA a, b : a.offset < b.offset)

\* VectorWindowPlanner::record: the byte range of the record in the window's payload,
\* None where the code reports a window that starts after it or a truncated record.
RecordRange(section, recordSize, window, node) ==
  LET relative == section.offset + node * recordSize - window.offset
  IN  IF relative < 0 \/ relative + recordSize > window.length THEN None
      ELSE <<relative, relative + recordSize>>

------------------------------------------------------------------------------
(* Candidates *)

Better(a, b) == a.distance < b.distance \/ (a.distance = b.distance /\ a.node < b.node)

\* sort_candidates, and the order into_vec and sort leave a heap's content in.
SortCandidates(candidates) == SetToSortSeq(candidates, Better)

\* Faulty variant of PushBoundedCandidate: an equal-distance candidate never displaces.
PushBoundedCandidateByDistance(heap, candidate, limit) ==
  LET worst == CHOOSE w \in heap : \A o \in heap : o = w \/ Better(o, w)
  IN  CASE limit = 0 -> heap
        [] limit # 0 /\ Cardinality(heap) < limit -> heap \cup {candidate}
        [] OTHER -> IF candidate.distance < worst.distance
                    THEN (heap \ {worst}) \cup {candidate} ELSE heap

\* push_bounded_candidate and push_bounded_exact_result: a max-heap of the best `limit`.
PushBoundedCandidate(heap, candidate, limit) ==
  LET worst == CHOOSE w \in heap : \A o \in heap : o = w \/ Better(o, w)
  IN  CASE limit = 0 -> heap
        [] limit # 0 /\ Cardinality(heap) < limit -> heap \cup {candidate}
        [] OTHER -> IF Better(candidate, worst)
                    THEN (heap \ {worst}) \cup {candidate} ELSE heap

\* score_filtered_candidate_chunk, over the nodes of one chunk in their order.
ScoreFilteredCandidateChunk(heap, scored, limit) ==
  FoldLeft(LAMBDA h, c : PushBoundedCandidate(h, c, limit), heap, scored)

\* resolve_diskann_l_search.
ResolveLSearch(topK, lSearch) ==
  Most(topK, IF lSearch = 0 THEN Most(topK * 2, 100) ELSE lSearch)

\* Faulty variant of ExpandRerankCandidates: stops at the first candidate outside.
ExpandRerankCandidatesPrefix(candidates, seedCount, window) ==
  LET seeds == {window[candidates[i].node] : i \in 1..Least(seedCount, Len(candidates))}
      outside == {i \in 1..Len(candidates) : window[candidates[i].node] \notin seeds}
  IN  IF outside = {} THEN candidates
      ELSE SubSeq(candidates, 1, (CHOOSE i \in outside : \A j \in outside : i <= j) - 1)

\* expand_rerank_candidates_within_seed_windows: every candidate whose window the
\* first seed_count candidates already need.
ExpandRerankCandidates(candidates, seedCount, window) ==
  IF seedCount >= Len(candidates) THEN candidates
  ELSE LET seeds == {window[candidates[i].node] : i \in 1..seedCount}
       IN  SelectSeq(candidates, LAMBDA c : window[c.node] \in seeds)

------------------------------------------------------------------------------
(* Filters *)

\* desired_filtered_candidate_count.
DesiredFilteredCandidateCount(matching, topK) == Least(matching, Most(topK * 4, MinExactRerank))

\* adaptive_filtered_search_list_size.
AdaptiveFilteredSearchListSize(vectorCount, matching, target, configured) ==
  IF 0 \in {vectorCount, matching, target} THEN 0
  ELSE LET scaled == Least(2 * CeilDiv(target * vectorCount, matching), vectorCount)
       IN  Least(Most(configured, scaled), vectorCount)

\* Faulty variant of SelectFilteredStrategy: the graph's work is the list size alone.
SelectFilteredStrategyCheap(vectorCount, matching, topK, lSearch, degree, windowBytes, preloaded) ==
  LET target == DesiredFilteredCandidateCount(matching, topK)
      configured == ResolveLSearch(topK, lSearch)
      list == AdaptiveFilteredSearchListSize(vectorCount, matching, target, configured)
  IN  IF \/ vectorCount = 0 \/ matching # vectorCount \/ configured < MinGraphList
         \/ windowBytes > SmallWindow /\ ~preloaded
         \/ list > matching \div 2
      THEN [graph |-> FALSE, target |-> target, list |-> 0]
      ELSE [graph |-> TRUE, target |-> target, list |-> list]

\* select_filtered_candidate_strategy.
SelectFilteredStrategy(vectorCount, matching, topK, lSearch, degree, windowBytes, preloaded) ==
  LET target == DesiredFilteredCandidateCount(matching, topK)
      configured == ResolveLSearch(topK, lSearch)
      list == AdaptiveFilteredSearchListSize(vectorCount, matching, target, configured)
      work == Least(list * (degree + 1), vectorCount)
  IN  IF \/ vectorCount = 0 \/ matching # vectorCount \/ configured < MinGraphList
         \/ windowBytes > SmallWindow /\ ~preloaded
         \/ work > matching \div 2
      THEN [graph |-> FALSE, target |-> target, list |-> 0]
      ELSE [graph |-> TRUE, target |-> target, list |-> list]

\* matching_nodes_from_sequential_row_ids: nodes are 0..Len(rowIds)-1.
MatchingSequential(rowIds, filter) ==
  {n \in 0..(Len(rowIds) - 1) : rowIds[n + 1] >= 0 /\ rowIds[n + 1] \in filter}

\* row_id_order_partition_point: the binary search, `holds` false from some point on.
PartitionPoint(order, holds(_)) ==
  LET search[l \in 0..Len(order), r \in 0..Len(order)] ==
        IF l >= r THEN l
        ELSE LET middle == l + (r - l) \div 2
             IN  IF holds(order[middle + 1]) THEN search[middle + 1, r] ELSE search[l, middle]
  IN  search[0, Len(order)]

\* Faulty variant of MatchingRanges: a row ID selects at most one node.
MatchingRangesSingle(order, rowIds, filter) ==
  UNION {LET start == PartitionPoint(order, LAMBDA n : rowIds[n + 1] < id)
             end == PartitionPoint(order, LAMBDA n : rowIds[n + 1] <= id)
         IN  {order[i] : i \in (start + 1)..Least(end, start + 1)} : id \in {f \in filter : f <= MaxI64}}

\* matching_ranges_from_row_id_order and the insertion of its ranges in
\* matching_nodes_for_filter: `order` lists the nodes by (row ID, node).
MatchingRanges(order, rowIds, filter) ==
  UNION {LET start == PartitionPoint(order, LAMBDA n : rowIds[n + 1] < id)
             end == PartitionPoint(order, LAMBDA n : rowIds[n + 1] <= id)
         IN  {order[i] : i \in (start + 1)..end} : id \in {f \in filter : f <= MaxI64}}

\* The row-ID order section: the nodes by (row ID, node).
RowIdOrder(rowIds) ==
  SetToSortSeq(0..(Len(rowIds) - 1),
               LAMBDA a, b : rowIds[a + 1] < rowIds[b + 1] \/ (rowIds[a + 1] = rowIds[b + 1] /\ a < b))

------------------------------------------------------------------------------
(* Stability of two result lists *)

CountOf(s, x) == Cardinality({i \in DOMAIN s : s[i] = x})

\* Faulty variant of Overlap: a right-hand ID matches any number of left-hand ones.
OverlapUnconsumed(left, right) == Cardinality({i \in DOMAIN left : left[i] \in ToSet(right)})

\* The inner loop of topk_result_stability for one query, unfilled slots (distance
\* f32::MAX) already left out: every match consumes one count of the right-hand list.
Overlap(left, right) ==
  FoldLeft(LAMBDA acc, id :
             IF acc.counts[id] > 0
             THEN [overlap |-> acc.overlap + 1, counts |-> [acc.counts EXCEPT ![id] = @ - 1]]
             ELSE acc,
           [overlap |-> 0, counts |-> [id \in ToSet(left) |-> CountOf(right, id)]],
           left).overlap
=============================================================================

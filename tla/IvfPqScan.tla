------------------------------ MODULE IvfPqScan ------------------------------
(* The searches of an IVF-PQ reader (src/core/src/ivfpq.rs): one query, whose   *)
(* lists are scanned in parallel; a batch over a range of probe ranks with      *)
(* seeds, whose queries are scanned in parallel over shared lists; and a batch  *)
(* of range queries.  A distance table is known by the query and list it was    *)
(* built for; scanning with the wrong one, or with the wrong base distance,     *)
(* gives Garbage.                                                               *)
EXTENDS Integers, Sequences, SequencesExt, FiniteSets, FiniteSetsExt

CONSTANTS
  None, NaN, Infinity, Unbounded, Failed,
  Rows,        \* the row IDs of each list; lists lie in the file in this order
  MaxBatch,    \* MAX_IVF_BATCH_READ_BYTES, in rows; a list's payload is its rows
  ChunkRows,   \* rows of a streamed chunk
  CodeSize,    \* code bytes of a row: the columns of a transposed list
  MinQueries,  \* MIN_EPHEMERAL_PRECOMPUTE_QUERIES
  Threads      \* rayon::current_num_threads

VARIABLES
  index,    \* [residual, eightBit, precomputed, transposed, maxRanges, rank, dist]
  call,     \* the arguments of the running call
  lists,    \* lists still to be read
  heaps,    \* heap, or collector, of each query
  shared,   \* OnceLock of each query's table that no list changes
  norms,    \* stable_pq_norms is in place
  loaded,   \* lists of the current read
  eph,      \* those with an ephemeral table
  running,  \* tasks some thread is at
  local,    \* what the finished tasks of the current read collected
  builder,  \* RangeResultBuilder of the call
  metrics,  \* preads counted by MeasuredSeekRead, or None
  reads,    \* lists read during the call
  result

vars == <<index, call, lists, heaps, shared, norms, loaded, eph, running, local, builder, metrics, reads, result>>

H == INSTANCE Collectors
L == INSTANCE IvfLists WITH MaxBatchBytes <- MaxBatch, GroupBits <- 1, IdBits <- 1, I64Bytes <- 0,
       I32Bytes <- 0, F32Bytes <- 0, HeaderBytes <- 0, StreamSlack <- 0

Slots == DOMAIN call.queries
Active == call # None /\ result = None
Garbage == -1

ProbeEnd(c) == IF c.to < Len(Rows) THEN c.to ELSE Len(Rows)

\* The lists a call scans for one of its queries, by rank.
Probes(c, i) == SubSeq(index.rank[c.queries[i]], c.from + 1, ProbeEnd(c))

\* Faulty variant of UniqueLists: a list once for every query that probes it.
UniqueListsPerQuery(c) ==
  SortSeq(FlattenSeq([i \in DOMAIN c.queries |-> SelectSeq(Probes(c, i), LAMBDA l : Rows[l] # <<>>)]), LAMBDA a, b : a < b)

\* Unique lists with rows, in the order of their offsets
UniqueLists(c) ==
  SelectSeq([l \in DOMAIN Rows |-> l], LAMBDA l : Rows[l] # <<>> /\ \E i \in DOMAIN c.queries : l \in ToSet(Probes(c, i)))

------------------------------------------------------------------------------
(* Distance tables.  One of f32 takes a unit of memory, one of f64 two.        *)

QueryTablesFit(c) == Len(c.queries) <= c.budget

UsePrecomputed(c) ==
  /\ c.op # "range" /\ index.residual /\ index.precomputed
  /\ c.op = "batch" => c.mode # "off" /\ QueryTablesFit(c)

Reuses(c, worthwhile) == c.mode = "on" \/ (c.mode = "auto" /\ Len(c.queries) >= MinQueries /\ worthwhile)

AllowEphemeral(c) ==
  c.op = "batch" /\ index.eightBit /\ index.residual /\ ~UsePrecomputed(c) /\ Reuses(c, TRUE)

\* should_use_ephemeral_precomputation
ShouldUseEphemeral(tables, queries, probes) == tables + queries > 0 /\ probes >= 2 * (tables + queries)

\* The non-empty probes of every rank up to probe_end
NonEmptyProbes(c, i) == SelectSeq(SubSeq(index.rank[c.queries[i]], 1, ProbeEnd(c)), LAMBDA l : Rows[l] # <<>>)

\* A single query always shares the table of a list-independent query.
ReuseNonResidual(c) ==
  /\ ~index.residual
  /\ \/ c.op = "search"
     \/ /\ c.op = "batch" /\ index.eightBit /\ c.to - c.from > 1 /\ QueryTablesFit(c)
        /\ LET counts == [i \in DOMAIN c.queries |-> Len(NonEmptyProbes(c, i))]
           IN  Reuses(c, ShouldUseEphemeral(0, Cardinality({i \in DOMAIN counts : counts[i] > 0}),
                                            FoldFunction(LAMBDA a, b : a + b, 0, counts)))

\* fill_reader_sim_table: a table of the query, for the list when it is residual
SimTable(i, l) ==
  [query |-> call.queries[i], list |-> IF index.residual THEN l ELSE None, precomputed |-> UsePrecomputed(call)]

\* combine_stable_ephemeral_tables: the same entries as a residual table
CombinedTable(i, l) == [query |-> call.queries[i], list |-> l, precomputed |-> FALSE]

\* Faulty variant of RankOf: the rank among the ranks the call scans.
RankOfSkipped(i, l) == CHOOSE n \in DOMAIN Probes(call, i) : Probes(call, i)[n] = l

\* The rank of a list among all the probes of a query
RankOf(i, l) == CHOOSE n \in DOMAIN index.rank[call.queries[i]] : index.rank[call.queries[i]][n] = l

\* The coarse distance of that rank, known by its query and list
CoarseDist(i, rank) == <<call.queries[i], index.rank[call.queries[i]][rank]>>

\* Added to every distance: the coarse distance with a precomputed table, else zero
Dis0(i, l, ephemeral) == IF UsePrecomputed(call) /\ ~ephemeral THEN CoarseDist(i, RankOf(i, l)) ELSE None

Score(table, dis0, q, l, id) ==
  IF /\ table.query = q
     /\ table.list = IF index.residual THEN l ELSE None
     /\ dis0 = IF table.precomputed THEN <<q, l>> ELSE None
  THEN index.dist[q][id] ELSE Garbage

------------------------------------------------------------------------------
(* Scans                                                                       *)

MatchingRows(ids) == SelectSeq(ids, LAMBDA id : call.filter = None \/ id \in call.filter)
HasMatchingRows(l) == MatchingRows(Rows[l]) # <<>>

\* scan_reader_codes, into a heap
ScanReaderCodes(table, dis0, q, l, ids, heap) ==
  FoldLeft(LAMBDA h, id : H!PqPush(h, call.k, Score(table, dis0, q, l, id), id), heap, MatchingRows(ids))

\* The table of a scan of list l, given the OnceLock of the query
TableFor(i, l, cell) ==
  IF ~ReuseNonResidual(call) THEN SimTable(i, l) ELSE IF cell = None THEN SimTable(i, l) ELSE cell

\* The OnceLock after a scan that needed it: get_or_init
CellAfter(i, l, cell) ==
  IF ReuseNonResidual(call) /\ cell = None /\ HasMatchingRows(l) THEN SimTable(i, l) ELSE cell

Chunks(l) ==
  [n \in 1..((Len(Rows[l]) + ChunkRows - 1) \div ChunkRows) |->
     SubSeq(Rows[l], (n - 1) * ChunkRows + 1, IF n * ChunkRows < Len(Rows[l]) THEN n * ChunkRows ELSE Len(Rows[l]))]

Oversized(l) == L!IvfPayloadIsOversized(Len(Rows[l]))

NextLists ==
  LET n == L!BatchEnd([i \in DOMAIN lists |-> Len(Rows[lists[i]])], index.maxRanges)
  IN  SubSeq(lists, 1, IF n = 0 THEN 1 ELSE n)

Selects(i, l) == l \in ToSet(Probes(call, i))

------------------------------------------------------------------------------
(* Calls                                                                       *)

ValidateBatchSeed(c) == c.seeds = <<>> \/ \A i \in DOMAIN c.queries : Len(c.seeds[i]) = c.k

Start(c, first, b, r) ==
  /\ call' = c /\ heaps' = first /\ builder' = b /\ result' = r
  /\ lists' = IF r = None THEN UniqueLists(c) ELSE <<>>
  /\ shared' = [i \in DOMAIN c.queries |-> None]
  /\ norms' = FALSE /\ reads' = <<>>
  /\ metrics' = IF c.timing /\ r = None THEN 0 ELSE None
  /\ UNCHANGED <<index, loaded, eph, running, local>>

\* search_with_reader_filter, before its loop
BeginSearch(c) == IF c.k > 0 /\ c.to > 0 THEN Start(c, <<<<>>>>, None, None) ELSE Start(c, <<>>, None, Failed)

\* search_batch_reader_filter_with_reuse_mode_and_observer, before its loop
BeginBatch(c) ==
  IF c.queries = <<>> \/ c.k = 0 \/ c.from >= c.to \/ ~ValidateBatchSeed(c) THEN Start(c, <<>>, None, Failed)
  ELSE Start(c, [i \in DOMAIN c.queries |-> H!SeedHeap(c.k, IF c.seeds = <<>> THEN <<>> ELSE c.seeds[i])], None, None)

\* range_search_batch_with_filter, before its loop
BeginRange(c) ==
  LET fresh == H!NewBuilder(Len(c.queries))
      probed == FoldLeft(LAMBDA b, i : H!RecordListsProbed(b, i, Len(Probes(c, i))), fresh, [i \in DOMAIN c.queries |-> i])
  IN  IF c.queries = <<>> \/ c.to = 0 THEN Start(c, <<>>, None, Failed)
      ELSE IF c.band.lower # Unbounded /\ c.band.lower = c.band.upper THEN Start(c, <<>>, fresh, H!Build(fresh))
      ELSE Start(c, [i \in DOMAIN c.queries |-> H!NewCollector(c.band)], probed, None)

BeginCall(c) ==
  /\ ~Active
  /\ \/ c.op = "search" /\ BeginSearch(c)
     \/ c.op = "batch" /\ BeginBatch(c)
     \/ c.op = "range" /\ BeginRange(c)

------------------------------------------------------------------------------
(* The loop over the lists                                                     *)

Idle == loaded = <<>> /\ running = {}
Search == Active /\ call.op # "range"

\* Faulty variant of EndReadMetrics: an error leaves the counters on.
EndReadMetricsOnSuccess(failing) == metrics' = IF failing THEN metrics ELSE None

\* end_read_metrics, or end_read_metrics_on_error when the call fails
EndReadMetrics(failing) == metrics' = IF call.timing THEN None ELSE metrics

CountReads(n) == metrics' = IF metrics = None THEN None ELSE metrics + n

\* The preads of one streamed chunk: its rows lie together, or are a range in every
\* column, and pread_batched_slices asks for maxRanges of them at a time.
ChunkReads ==
  IF ~index.transposed \/ index.maxRanges = 0 THEN 1 ELSE (CodeSize + index.maxRanges - 1) \div index.maxRanges

\* Faulty variant of StreamReads: one pread for a list, whatever its chunks.
StreamReadsOne(l) == 1

\* try_for_each_streamed_list_chunk: the IDs, then the codes of every chunk
StreamReads(l) == 1 + Len(Chunks(l)) * ChunkReads

Fail ==
  /\ result' = Failed /\ EndReadMetrics(TRUE)
  /\ lists' = <<>> /\ heaps' = <<>> /\ loaded' = <<>>
  /\ UNCHANGED <<index, call, shared, norms, eph, running, local, builder, reads>>

\* Any read of the loop may fail.
ReadFails == Active /\ Idle /\ lists # <<>> /\ Fail

\* A chunk after another, each into the heap of every query that probes the list
StreamedHeap(i, l) ==
  LET table == TableFor(i, l, shared[i])
  IN  IF Selects(i, l)
      THEN FoldLeft(LAMBDA h, ids : ScanReaderCodes(table, Dis0(i, l, FALSE), call.queries[i], l, ids, h), heaps[i], Chunks(l))
      ELSE heaps[i]

StreamList ==
  /\ Search /\ Idle /\ lists # <<>> /\ Oversized(Head(lists))
  /\ LET l == Head(lists)
     IN  /\ heaps' = [i \in Slots |-> StreamedHeap(i, l)]
         /\ shared' = [i \in Slots |-> IF Selects(i, l) THEN CellAfter(i, l, shared[i]) ELSE shared[i]]
         /\ reads' = Append(reads, l)
         /\ CountReads(StreamReads(l))
  /\ lists' = Tail(lists)
  /\ UNCHANGED <<index, call, norms, loaded, eph, running, local, builder, result>>

MatchingProbes(i, batch) == SelectSeq(Probes(call, i), LAMBDA l : l \in ToSet(batch) /\ HasMatchingRows(l))

\* Faulty variant of ScratchCount: one query table, whatever the number of threads.
ScratchCountOne(activeQueries) == IF activeQueries < 1 THEN activeQueries ELSE 1

\* query_scratch_count: a thread has one query table.
ScratchCount(activeQueries) == IF activeQueries < Threads THEN activeQueries ELSE Threads

\* use_ephemeral_precomputed, for the lists of one read
UseEphemeral(batch) ==
  LET matching == Cardinality({l \in ToSet(batch) : HasMatchingRows(l)})
      counts == [i \in Slots |-> Len(MatchingProbes(i, batch))]
      active == Cardinality({i \in Slots : counts[i] > 0})
  IN  /\ AllowEphemeral(call)
      /\ matching > 0 /\ 2 * (matching + 1 + ScratchCount(active)) <= call.budget
      /\ call.mode = "on" \/ ShouldUseEphemeral(matching, active, FoldFunction(LAMBDA a, b : a + b, 0, counts))

\* read_inverted_list_payloads, with the tables of its lists
LoadLists ==
  /\ Search /\ Idle /\ lists # <<>> /\ ~Oversized(Head(lists))
  /\ LET batch == NextLists
         use == UseEphemeral(batch)
     IN  /\ loaded' = batch /\ reads' = reads \o batch
         /\ lists' = SubSeq(lists, Len(batch) + 1, Len(lists))
         /\ norms' = (norms \/ use)
         /\ eph' = IF use THEN {l \in ToSet(batch) : HasMatchingRows(l)} ELSE {}
         /\ local' = [t \in (IF call.op = "search" THEN DOMAIN batch ELSE Slots) |-> None]
  /\ CountReads(1)
  /\ UNCHANGED <<index, call, heaps, shared, running, builder, result>>

\* scan_reader_list, or a combined table for a list with an ephemeral one
ScanReaderList(i, l, heap) ==
  LET table == IF l \in eph THEN CombinedTable(i, l) ELSE TableFor(i, l, shared[i])
  IN  ScanReaderCodes(table, Dis0(i, l, l \in eph), call.queries[i], l, Rows[l], heap)

\* The slot and the lists of a task: a list of the single query, or a query
TaskSlot(t) == IF call.op = "search" THEN 1 ELSE t
TaskLists(t) == IF call.op = "search" THEN <<loaded[t]>> ELSE SelectSeq(Probes(call, t), LAMBDA l : l \in ToSet(loaded))

StartTask(t) ==
  /\ Active /\ loaded # <<>> /\ local[t] = None /\ t \notin running
  /\ Cardinality(running) < Threads
  /\ running' = running \cup {t}
  /\ UNCHANGED <<index, call, lists, heaps, shared, norms, loaded, eph, local, builder, metrics, reads, result>>

FinishTask(t) ==
  /\ Active /\ t \in running
  /\ LET i == TaskSlot(t)
     IN  /\ local' = [local EXCEPT ![t] = H!IntoSorted(FoldLeft(LAMBDA h, l : ScanReaderList(i, l, h), <<>>, TaskLists(t)))]
         /\ shared' = [shared EXCEPT ![i] = FoldLeft(LAMBDA cell, l : CellAfter(i, l, cell), @, TaskLists(t))]
  /\ running' = running \ {t}
  /\ UNCHANGED <<index, call, lists, heaps, norms, loaded, eph, builder, metrics, reads, result>>

\* The rows of the tasks, in their order, into the heaps of their queries
MergeTasks ==
  /\ Active /\ loaded # <<>> /\ \A t \in DOMAIN local : local[t] # None
  /\ heaps' = FoldLeft(LAMBDA hs, t : [hs EXCEPT ![TaskSlot(t)] =
                          FoldLeft(LAMBDA h, e : H!PqPush(h, call.k, e.d, e.id), @, local[t])],
                       heaps, [t \in DOMAIN local |-> t])
  /\ loaded' = <<>> /\ eph' = {} /\ local' = <<>>
  /\ UNCHANGED <<index, call, lists, shared, norms, running, builder, metrics, reads, result>>

\* Faulty variant of ScanPqRange: rows the filter drops are scanned.
ScanPqRangeUnfiltered(collector, i, l, ids) ==
  FoldLeft(LAMBDA c, id : H!RangePush(c, id, Score(SimTable(i, l), None, call.queries[i], l, id)), collector, ids)

\* scan_pq_range_list, for one query: the filter, then one push a row.  The threads
\* split the queries, each of which has a collector of its own.
ScanPqRange(collector, i, l, ids) ==
  FoldLeft(LAMBDA c, id : H!RangePush(c, id, Score(SimTable(i, l), None, call.queries[i], l, id)), collector, MatchingRows(ids))

RangeLists ==
  /\ Active /\ call.op = "range" /\ lists # <<>>
  /\ LET batch == IF Oversized(Head(lists)) THEN <<Head(lists)>> ELSE NextLists
         scan(i, c, l) == IF ~Selects(i, l) THEN c ELSE FoldLeft(LAMBDA d, ids : ScanPqRange(d, i, l, ids), c,
                                                                 IF Oversized(l) THEN Chunks(l) ELSE <<Rows[l]>>)
         after == [i \in Slots |-> FoldLeft(LAMBDA c, l : scan(i, c, l), heaps[i], batch)]
     IN  IF \E i \in Slots : after[i].failed THEN Fail
         ELSE /\ heaps' = after
              /\ builder' = FoldLeft(LAMBDA b, l : H!RecordListRead(b), builder, batch)
              /\ reads' = reads \o batch
              /\ lists' = SubSeq(lists, Len(batch) + 1, Len(lists))
              /\ UNCHANGED <<index, call, shared, norms, loaded, eph, running, local, metrics, result>>

\* A batch pads its rows to k with -1 and f32::MAX; a single query does not.
TopKRows(i) ==
  LET sorted == H!IntoSorted(heaps[i])
  IN  IF call.op = "search" THEN sorted
      ELSE [n \in 1..call.k |-> IF n <= Len(sorted) THEN sorted[n] ELSE [d |-> Infinity, id |-> -1]]

FinishSearch ==
  /\ Search /\ Idle /\ lists = <<>>
  /\ result' = [rows |-> [i \in Slots |-> TopKRows(i)], calls |-> metrics]
  /\ EndReadMetrics(FALSE)
  /\ UNCHANGED <<index, call, lists, heaps, shared, norms, loaded, eph, running, local, builder, reads>>

FinishRange ==
  /\ Active /\ call.op = "range" /\ lists = <<>>
  /\ result' = H!Build(FoldLeft(LAMBDA b, i : H!TakeRows(H!RecordScanned(b, i, heaps[i].scanned), i, heaps[i].rows),
                                builder, [i \in Slots |-> i]))
  /\ UNCHANGED <<index, call, lists, heaps, shared, norms, loaded, eph, running, local, builder, metrics, reads>>

Steps ==
  \/ StreamList \/ LoadLists \/ ReadFails
  \/ \E t \in DOMAIN local : StartTask(t) \/ FinishTask(t)
  \/ MergeTasks
  \/ RangeLists
  \/ FinishSearch \/ FinishRange

------------------------------------------------------------------------------
(* Properties                                                                  *)

Returned == call # None /\ result # None /\ result # Failed

\* What the first ranks of a query reach, through the filter
Reachable(c, i, from, to) ==
  {id \in UNION {ToSet(Rows[l]) : l \in ToSet(SubSeq(index.rank[c.queries[i]], from + 1, to))} :
     c.filter = None \/ id \in c.filter}

\* The k smallest distances of some rows
NearestDistances(q, ids, k) ==
  LET dist == index.dist[q]
      rows == {id \in ids : dist[id] # NaN}
      within(d) == Cardinality({id \in rows : dist[id] <= d})
  IN  [n \in 1..(IF Cardinality(rows) < k THEN Cardinality(rows) ELSE k) |->
         Min({d \in {dist[id] : id \in rows} : within(d) >= n})]

\* search_with_reader_filter and the batch search return the k nearest of the rows
\* their probes reach: whichever table was shared, precomputed or ephemeral, whichever
\* list was streamed, in whatever order the tasks ended; and a batch that goes on from
\* rank probe_start with the earlier results as seeds ends with the k nearest of all.
PqTopKIsExact ==
  Returned /\ call.op # "range" =>
    \A i \in Slots :
      LET first == IF call.op = "batch" /\ call.seeds = <<>> THEN call.from ELSE 0
          expected == NearestDistances(call.queries[i], Reachable(call, i, first, ProbeEnd(call)), call.k)
          got == SelectSeq(result.rows[i], LAMBDA e : e.id # -1)
      IN  /\ [n \in DOMAIN got |-> got[n].d] = expected
          /\ IsInjective([n \in DOMAIN got |-> got[n].id])
          /\ \A e \in ToSet(got) : index.dist[call.queries[i]][e.id] = e.d

\* Units of table memory of a batch search
TableUnits ==
  LET scratches == {t \in running : \E l \in ToSet(TaskLists(t)) : l \in eph}
      norm == IF norms THEN 1 ELSE 0
  IN  (IF UsePrecomputed(call) THEN Len(call.queries) ELSE 0)
        + Cardinality({i \in Slots : shared[i] # None})
        + 2 * (Cardinality(eph) + norm + Cardinality(scratches))

\* The tables a batch search keeps for reuse never exceed reuse_max_bytes: the inner
\* product tables of all queries, the shared tables, and the ephemeral tables of the
\* lists in memory with the norms and the query table of every running thread.
ReusedTablesWithinBudget == Active /\ call.op = "batch" => TableUnits = 0 \/ TableUnits <= call.budget

\* With timing on, the read counters run from the first read of a batch search to its
\* end, also when a read failed.  They count every pread of this call and no other: the
\* ID prefix and each chunk of a streamed list, in pieces of max_ranges_per_pread, and
\* one for each batch of lists that fits MAX_IVF_BATCH_READ_BYTES and those ranges.
ReadMetricsEndWithTheCall ==
  /\ ~Active => metrics = None
  /\ Active => (metrics # None) = call.timing
  /\ Returned /\ call.timing =>
       LET streamed == {l \in ToSet(reads) : Len(Rows[l]) > MaxBatch}
           batched == ToSet(reads) \ streamed
           pieces == IF index.transposed /\ index.maxRanges > 0
                     THEN Cardinality({c \in 1..CodeSize : c % index.maxRanges = 0 \/ c = CodeSize}) ELSE 1
           chunks(l) == Cardinality({n \in 1..Len(Rows[l]) : n % ChunkRows = 0 \/ n = Len(Rows[l])})
           batches == result.calls - MapThenSumSet(LAMBDA l : 1 + chunks(l) * pieces, streamed)
       IN  /\ batches <= Cardinality(batched)
           /\ MapThenSumSet(LAMBDA l : Len(Rows[l]), batched) <= batches * MaxBatch
           /\ index.maxRanges > 0 => Cardinality(batched) <= batches * index.maxRanges

\* A list is read once in a call, however many of its queries probe it, and only if
\* one does.
ListsReadOnce ==
  /\ call # None => IsInjective(reads)
  /\ Returned /\ reads # <<>> =>
       ToSet(reads) = {l \in DOMAIN Rows : Rows[l] # <<>> /\ \E i \in Slots : l \in ToSet(Probes(call, i))}

\* range_search_batch_with_filter returns exactly the rows the band admits, each once,
\* and counts every allowed row and every list read once.
PqRangeIsExact ==
  Returned /\ call.op = "range" =>
    /\ result.reads = Len(reads)
    /\ \A i \in Slots :
         LET dist == index.dist[call.queries[i]]
             ids == Reachable(call, i, 0, ProbeEnd(call))
             rows == H!QueryRows(result, i)
         IN  /\ IsInjective(rows)
             /\ ToSet(rows) = {[id |-> id, d |-> dist[id]] : id \in {j \in ids : H!Admits(call.band, dist[j])}}
             /\ (call.band.lower = Unbounded \/ call.band.lower # call.band.upper) =>
                  result.stats[i].scanned = Cardinality(ids) /\ \A id \in ids : dist[id] # NaN
=============================================================================

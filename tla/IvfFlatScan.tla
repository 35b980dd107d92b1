---------------------------- MODULE IvfFlatScan ----------------------------
(* The searches of an open IVF-FLAT reader (src/core/src/ivfflat_io.rs): a      *)
(* single query, a batch of queries over a range of probe ranks with the        *)
(* results of earlier ranks as seeds, and a batch of range queries.  A call      *)
(* reads the lists its queries probe, several at a time or, when one is          *)
(* oversized, in chunks, and offers their rows to one collector per query.       *)
(* Row IDs stand for rows; index.dist gives the distance the kernel computes     *)
(* and index.rank the order in which find_topk returns the centroids.            *)
(* A progressive search (src/core/src/index.rs) that found too few rows goes on  *)
(* with twice the probes: a batch continues only the queries that need it, in    *)
(* chunks, each round scanning only the new probe ranks with the earlier results *)
(* as seeds; a single query is searched again from the first rank.               *)
EXTENDS Collectors

CONSTANTS
  Rows,          \* the row IDs of each list
  Failed,        \* the result of a call that returned an error
  ListHeader,    \* payload of a non-empty list beside its rows
  MaxBatch,      \* MAX_IVF_BATCH_READ_BYTES
  MaxRanges,     \* max_ranges_per_pread of the input, zero for no limit
  ChunkRows,     \* rows of a streamed chunk
  ParallelRows,  \* PARALLEL_FLAT_SCAN_MIN_COMPONENTS, in rows
  RetryChunk,    \* queries that fit the retry buffer (MAX_IVF_BATCH_RETRY_BUFFER_BYTES)
  Available      \* available_matches: cardinality of the filter, or all vectors

VARIABLES
  index,     \* [metric, rank, dist], the last two by query
  loaded,    \* the metadata has been read
  call,      \* the arguments of the running call
  todo,      \* unique lists still to be scanned
  out,       \* heap, or merge bucket, of each query of the call
  tasks,     \* range search: the lists being scanned in parallel, with their queries
  builder,   \* RangeResultBuilder of the call
  fetched,   \* lists whose payload the call has read
  result,
  driver     \* the loop variables of a progressive search, or None

vars == <<index, loaded, call, todo, out, tasks, builder, fetched, result>>

L == INSTANCE IvfLists WITH MaxBatchBytes <- MaxBatch, GroupBits <- 1, IdBits <- 1, I64Bytes <- 0,
       I32Bytes <- 0, F32Bytes <- 0, HeaderBytes <- 0, StreamSlack <- 0

Slots == DOMAIN call.queries
Metric == index.metric

\* list_payload_len
ListPayloadLen(l) == IF Rows[l] = <<>> THEN 0 ELSE ListHeader + Len(Rows[l])

\* The probe ranks a call scans for one of its queries.
Probes(c, i) ==
  SubSeq(index.rank[c.queries[i]], c.from + 1, IF c.to < Len(Rows) THEN c.to ELSE Len(Rows))

\* list_to_queries
ListToQueries(c, l) == SelectSeq([i \in DOMAIN c.queries |-> i], LAMBDA i : l \in ToSet(Probes(c, i)))

\* unique_lists: in the order the queries first name them.
UniqueLists(c) ==
  FoldLeft(LAMBDA u, l : IF l \in ToSet(u) THEN u ELSE Append(u, l), <<>>,
           FlattenSeq([i \in DOMAIN c.queries |-> Probes(c, i)]))

------------------------------------------------------------------------------
(* Scanning rows into a collector                                              *)

EmptyHeap == [data |-> <<>>, worst |-> 0]

\* ReaderTopKHeap's cutoff
Cutoff(heap) == IF heap.worst = 0 THEN Infinity ELSE heap.data[heap.worst].d

\* fvec_l2sqr_unless_exceeds returns None
Exceeds(d, cutoff) == d # NaN /\ d > cutoff

Allowed(c, id) == c.filter = None \/ id \in c.filter

\* scan_flat_rows with a heap
ScanTopK(c, heap, q, ids) ==
  FoldLeft(LAMBDA h, id :
             LET d == index.dist[q][id]
             IN  IF ~Allowed(c, id) \/ (Metric = "L2" /\ Exceeds(d, Cutoff(h))) THEN h
                 ELSE ReaderPush(h, c.k, d, id),
           heap, ids)

\* scan_flat_rows with a range collector
ScanRange(c, q, ids) ==
  FoldLeft(LAMBDA r, id :
             LET d == index.dist[q][id]
             IN  IF ~Allowed(c, id) THEN r
                 ELSE IF Metric = "L2" /\ Exceeds(d, r.cutoff) THEN NoteAbandoned(r)
                 ELSE RangePush(r, id, d),
           NewCollector(c.band), ids)

\* merge_flat_results of what a list's own heap kept
MergeFlatResults(c, heap, local) ==
  FoldLeft(LAMBDA h, e : ReaderPush(h, c.k, e.d, e.id), heap, IntoSorted(local.data))

\* Faulty variant of ParallelScan: the lists of a batch share no heap, and the
\* last list's results replace the others'.
ParallelScanReplaces(c, heaps, lists) ==
  FoldLeft(LAMBDA hs, l :
             [i \in DOMAIN hs |-> IF i \in ToSet(ListToQueries(c, l))
                                  THEN MergeFlatResults(c, EmptyHeap, ScanTopK(c, EmptyHeap, c.queries[i], Rows[l]))
                                  ELSE hs[i]],
           heaps, lists)

\* The parallel arm: a heap of its own for each list and query, merged in the
\* order of the lists once all are scanned.
ParallelScan(c, heaps, lists) ==
  FoldLeft(LAMBDA hs, l :
             [i \in DOMAIN hs |-> IF i \in ToSet(ListToQueries(c, l))
                                  THEN MergeFlatResults(c, hs[i], ScanTopK(c, EmptyHeap, c.queries[i], Rows[l]))
                                  ELSE hs[i]],
           heaps, lists)

\* The serial arm, and each chunk of an oversized list.
SerialScan(c, heaps, l, ids) ==
  [i \in DOMAIN heaps |-> IF i \in ToSet(ListToQueries(c, l))
                          THEN ScanTopK(c, heaps[i], c.queries[i], ids) ELSE heaps[i]]

Pairs(c, lists) == FoldLeft(LAMBDA n, l : n + Len(Rows[l]) * Len(ListToQueries(c, l)), 0, lists)

Parallel(c, lists) == Len(lists) > 1 /\ Pairs(c, lists) >= ParallelRows

\* padded_flat_results
PaddedFlatResults(heap, k) ==
  IntoSorted(heap.data) \o [j \in 1..(k - Len(heap.data)) |-> [d |-> Infinity, id |-> -1]]

\* Faulty variant of SeedFlatHeap: the seeds of an earlier round are dropped.
SeedFlatHeapDrops(k, seeds) == EmptyHeap

\* seed_flat_heaps, for one query
SeedFlatHeap(k, seeds) ==
  FoldLeft(LAMBDA h, e : IF e.d = Infinity THEN h ELSE ReaderPush(h, k, e.d, e.id), EmptyHeap, seeds)

------------------------------------------------------------------------------
(* One iteration of the loop over the lists                                    *)

Oversized(l) == L!IvfPayloadIsOversized(ListPayloadLen(l))

\* The lists of the next read: the longest prefix within the bounds, one at least.
ReadEnd(lists) ==
  LET n == L!BatchEnd([i \in DOMAIN lists |-> ListPayloadLen(lists[i])], MaxRanges)
  IN  IF n = 0 THEN 1 ELSE n

\* for_each_streamed_list_chunk: the rows of each chunk.
Chunks(l) ==
  [n \in 1..((Len(Rows[l]) + ChunkRows - 1) \div ChunkRows) |->
     SubSeq(Rows[l], (n - 1) * ChunkRows + 1,
            IF n * ChunkRows < Len(Rows[l]) THEN n * ChunkRows ELSE Len(Rows[l]))]

NonEmpty(lists) == SelectSeq(lists, LAMBDA l : Rows[l] # <<>>)

Running == call # None /\ result = None
Idle == ~Running

\* A read that fails ends the call with an error; heaps and buckets go with it.
Fail ==
  /\ result' = Failed
  /\ todo' = <<>>
  /\ out' = <<>>
  /\ tasks' = <<>>
  /\ UNCHANGED <<index, loaded, call, builder, fetched>>

\* What every search begins with once its arguments are accepted.
Start(c, first) ==
  /\ call' = c
  /\ todo' = UniqueLists(c)
  /\ out' = first
  /\ tasks' = <<>>
  /\ fetched' = <<>>
  /\ result' = None
  /\ loaded' = TRUE
  /\ UNCHANGED index

Reject(c, read) ==
  /\ call' = c
  /\ loaded' = read
  /\ result' = Failed
  /\ todo' = <<>> /\ out' = <<>> /\ tasks' = <<>> /\ fetched' = <<>>
  /\ builder' = None
  /\ UNCHANGED index

\* ensure_loaded: read once; a failed read leaves the reader as it was.
EnsureLoaded(ok) == loaded \/ ok

\* search_with_filter, before its loop; k or nprobe zero is an error.
BeginSearch(c, ok) ==
  /\ Idle /\ c.op = "search"
  /\ IF EnsureLoaded(ok) /\ c.k > 0 /\ c.to > 0
     THEN Start(c, <<EmptyHeap>>) /\ builder' = None
     ELSE Reject(c, EnsureLoaded(ok))

\* validate_batch_seed
ValidateBatchSeed(c) == c.seeds = <<>> \/ \A i \in DOMAIN c.queries : Len(c.seeds[i]) = c.k

\* search_batch_ivfflat_reader_filter_range, before its loop
BeginBatch(c, ok) ==
  /\ Idle /\ c.op = "batch"
  /\ IF EnsureLoaded(ok) /\ c.queries # <<>> /\ c.k > 0 /\ c.from < c.to /\ ValidateBatchSeed(c)
     THEN /\ Start(c, [i \in DOMAIN c.queries |->
                         SeedFlatHeap(c.k, IF c.seeds = <<>> THEN <<>> ELSE c.seeds[i])])
          /\ builder' = None
     ELSE Reject(c, EnsureLoaded(ok))

\* band.is_empty
EmptyBand(band) == band.lower # Unbounded /\ band.lower = band.upper

\* range_search_batch_with_filter, before its loop.  An empty band is answered
\* without touching the index, but only once the arguments have been checked.
BeginRange(c, ok) ==
  LET fresh == NewBuilder(Len(c.queries))
  IN  /\ Idle /\ c.op = "range"
      /\ IF c.queries = <<>> \/ c.band.metric # Metric \/ c.to = 0 THEN Reject(c, loaded)
         ELSE IF EmptyBand(c.band)
         THEN /\ call' = c /\ result' = Build(fresh) /\ builder' = fresh
              /\ todo' = <<>> /\ out' = <<>> /\ tasks' = <<>> /\ fetched' = <<>>
              /\ UNCHANGED <<index, loaded>>
         ELSE IF ~EnsureLoaded(ok) THEN Reject(c, loaded)
         ELSE /\ Start(c, [i \in DOMAIN c.queries |-> [rows |-> <<>>, scanned |-> 0, abandoned |-> 0]])
              /\ builder' = FoldLeft(LAMBDA b, i : RecordListsProbed(b, i, Len(Probes(c, i))), fresh,
                                     [i \in DOMAIN c.queries |-> i])

\* Faulty variant of AfterTopK: the list after a streamed one is skipped.
AfterTopKSkips == IF Oversized(Head(todo)) /\ Len(todo) > 1 THEN Tail(Tail(todo))
                  ELSE SubSeq(todo, (IF Oversized(Head(todo)) THEN 1 ELSE ReadEnd(todo)) + 1, Len(todo))

\* batch_start after an iteration
AfterTopK == SubSeq(todo, (IF Oversized(Head(todo)) THEN 1 ELSE ReadEnd(todo)) + 1, Len(todo))

\* One iteration of the loops of search_with_filter and of the batch search.
TopKStep ==
  /\ Running /\ call.op \in {"search", "batch"} /\ todo # <<>>
  /\ LET first == Head(todo)
         lists == SubSeq(todo, 1, ReadEnd(todo))
     IN  IF Oversized(first)
         THEN /\ out' = FoldLeft(LAMBDA hs, ids : SerialScan(call, hs, first, ids), out, Chunks(first))
              /\ fetched' = Append(fetched, first)
         ELSE /\ out' = IF Parallel(call, lists) THEN ParallelScan(call, out, lists)
                        ELSE FoldLeft(LAMBDA hs, l : SerialScan(call, hs, l, Rows[l]), out, lists)
              /\ fetched' = fetched \o NonEmpty(lists)
  /\ todo' = AfterTopK
  /\ UNCHANGED <<index, loaded, call, tasks, builder, result>>

\* The results, padded to k per query
FinishTopK ==
  /\ Running /\ call.op \in {"search", "batch"} /\ todo = <<>>
  /\ result' = [i \in Slots |-> PaddedFlatResults(out[i], call.k)]
  /\ out' = <<>>
  /\ UNCHANGED <<index, loaded, call, todo, tasks, builder, fetched>>

------------------------------------------------------------------------------
(* The loop of the range search                                                *)

\* Faulty variant of MergeInto: the rows of the last task replace the others'.
MergeIntoReplaces(bucket, c) ==
  [rows |-> c.rows, scanned |-> bucket.scanned + c.scanned, abandoned |-> bucket.abandoned + c.abandoned]

\* merge_collector, under the query's lock
MergeInto(bucket, c) ==
  [rows |-> bucket.rows \o c.rows, scanned |-> bucket.scanned + c.scanned,
   abandoned |-> bucket.abandoned + c.abandoned]

\* One scan task: a list, or a chunk of one, for one query.
ScanOne(buckets, i, ids) == [buckets EXCEPT ![i] = MergeInto(@, ScanRange(call, call.queries[i], ids))]

\* record_list_read_for
RecordListReadFor(b, l) == IF Rows[l] = <<>> THEN b ELSE RecordListRead(b)

\* Faulty variant of RecordStreamed: every chunk counts as a read.
RecordStreamedChunks(b, l) == FoldLeft(LAMBDA x, ids : RecordListRead(x), b, Chunks(l))

\* An oversized list counts once, before its first chunk.
RecordStreamed(b, l) == RecordListReadFor(b, l)

\* The collector's push fails on a distance that is not finite.
NotFiniteFor(i, ids) == ScanRange(call, call.queries[i], ids).failed

StreamRange ==
  /\ Running /\ call.op = "range" /\ tasks = <<>> /\ todo # <<>> /\ Oversized(Head(todo))
  /\ LET l == Head(todo)
         slots == ListToQueries(call, l)
     IN  IF \E i \in ToSet(slots) : NotFiniteFor(i, Rows[l]) THEN Fail
         ELSE /\ out' = FoldLeft(LAMBDA o, ids : FoldLeft(LAMBDA p, i : ScanOne(p, i, ids), o, slots), out, Chunks(l))
              /\ builder' = RecordStreamed(builder, l)
              /\ fetched' = Append(fetched, l)
              /\ todo' = Tail(todo)
              /\ UNCHANGED <<index, loaded, call, tasks, result>>

\* Reading the next lists.  In the parallel arm each becomes a task; in the
\* serial one they are a queue of one task after another.
ReadRangeBatch ==
  /\ Running /\ call.op = "range" /\ tasks = <<>> /\ todo # <<>> /\ ~Oversized(Head(todo))
  /\ LET lists == SubSeq(todo, 1, ReadEnd(todo))
     IN  /\ tasks' = [n \in DOMAIN lists |->
                        [list |-> lists[n], slots |-> ListToQueries(call, lists[n]),
                         parallel |-> Parallel(call, lists)]]
         /\ builder' = FoldLeft(LAMBDA b, l : RecordListReadFor(b, l), builder, lists)
         /\ fetched' = fetched \o NonEmpty(lists)
         /\ todo' = SubSeq(todo, ReadEnd(todo) + 1, Len(todo))
  /\ UNCHANGED <<index, loaded, call, out, result>>

\* A task scans its list for the next of its queries.
RangeTask(n) ==
  /\ Running /\ call.op = "range" /\ n \in DOMAIN tasks
  /\ tasks[n].parallel \/ n = 1
  /\ LET i == Head(tasks[n].slots)
         rest == Tail(tasks[n].slots)
     IN  IF NotFiniteFor(i, Rows[tasks[n].list]) THEN Fail
         ELSE /\ out' = ScanOne(out, i, Rows[tasks[n].list])
              /\ tasks' = IF rest = <<>> THEN RemoveAt(tasks, n) ELSE [tasks EXCEPT ![n].slots = rest]
              /\ UNCHANGED <<index, loaded, call, todo, builder, fetched, result>>

FinishRange ==
  /\ Running /\ call.op = "range" /\ tasks = <<>> /\ todo = <<>>
  /\ result' = Build(FoldLeft(LAMBDA b, i :
                          TakeRows(RecordEarlyAbandoned(RecordScanned(b, i, out[i].scanned),
                                                            i, out[i].abandoned), i, out[i].rows),
                          builder, [i \in Slots |-> i]))
  /\ out' = <<>>
  /\ UNCHANGED <<index, loaded, call, todo, tasks, builder, fetched>>

\* A pread of the next lists, or of a chunk, fails.
ReadFails == Running /\ tasks = <<>> /\ todo # <<>> /\ Fail

Steps == TopKStep \/ FinishTopK \/ StreamRange \/ ReadRangeBatch \/ (\E n \in DOMAIN tasks : RangeTask(n))
         \/ FinishRange \/ ReadFails

------------------------------------------------------------------------------
(* progressive_ivf_search and progressive_ivf_batch_search                     *)

pvars == <<vars, driver>>

Required(k) == IF k < Available THEN k ELSE Available

\* ivf_search_result_is_complete
IsComplete(entries, required) == Cardinality({j \in DOMAIN entries : entries[j].d # Infinity}) >= required

\* Faulty variant of Doubled: the width never reaches the last list.
DoubledShort(n) == IF 2 * n < Len(Rows) THEN 2 * n ELSE Len(Rows) - 1

Doubled(n) == IF 2 * n < Len(Rows) THEN 2 * n ELSE Len(Rows)

Batch(queries, k, from, to, seeds, filter) ==
  [op |-> "batch", queries |-> queries, k |-> k, from |-> from, to |-> to, seeds |-> seeds,
   filter |-> filter, band |-> None]

Search(query, k, to, filter) == [Batch(<<query>>, k, 0, to, <<>>, filter) EXCEPT !.op = "search"]

\* The first search of either driver
BeginAuto(queries, k, nprobe, filter, ok) ==
  /\ driver = None
  /\ \/ BeginBatch(Batch(queries, k, 0, nprobe, <<>>, filter), ok)
     \/ Len(queries) = 1 /\ BeginSearch(Search(queries[1], k, nprobe, filter), ok)
  /\ driver' = [queries |-> queries, k |-> k, filter |-> filter, initial |-> nprobe, previous |-> 0,
                nprobe |-> nprobe, results |-> <<>>, active |-> [i \in DOMAIN queries |-> i],
                chunk |-> [i \in DOMAIN queries |-> i], next |-> <<>>, done |-> FALSE]

\* The slots of the driver whose results are not complete
Incomplete(results, slots, k) == SelectSeq(slots, LAMBDA i : ~IsComplete(results[i], Required(k)))

\* copy_from_slice of a round's results into their queries'
Placed(results, chunk, found) ==
  [i \in DOMAIN results |-> IF i \in ToSet(chunk) THEN found[CHOOSE n \in DOMAIN chunk : chunk[n] = i] ELSE results[i]]

Returned == call # None /\ result # None /\ driver # None /\ ~driver.done

Error == Returned /\ result = Failed /\ driver' = [driver EXCEPT !.results = Failed, !.done = TRUE] /\ UNCHANGED vars

\* What follows a search of the batch driver that succeeded: the chunk's results are
\* stored, then the next chunk of the round, or the next round, or the end.
StoreRound ==
  /\ Returned /\ result # Failed /\ call.op = "batch"
  /\ LET d == driver
         results == IF d.results = <<>> THEN result ELSE Placed(d.results, d.chunk, result)
         next == d.next \o Incomplete(results, d.chunk, d.k)
         left == SubSeq(d.active, Len(d.chunk) + 1, Len(d.active))
         over == left = <<>> /\ (d.nprobe >= Len(Rows) \/ Required(d.k) = 0 \/ next = <<>>)
         active == IF left = <<>> THEN next ELSE left
     IN  driver' = [d EXCEPT !.results = results, !.done = over, !.active = active,
                             !.next = IF left = <<>> THEN <<>> ELSE next,
                             !.previous = IF left = <<>> THEN d.nprobe ELSE @,
                             !.nprobe = IF left = <<>> /\ ~over THEN Doubled(@) ELSE @,
                             !.chunk = SubSeq(active, 1, IF RetryChunk < Len(active) THEN RetryChunk ELSE Len(active))]
  /\ call' = None
  /\ UNCHANGED <<index, loaded, todo, out, tasks, builder, fetched, result>>

\* Faulty variant of RoundStart: a round scans its queries' lists from the first rank.
RoundStartFirst == 0

\* A round scans the half-open range of new probe ranks.
RoundStart == driver.previous

SearchRound(ok) ==
  /\ driver # None /\ ~driver.done /\ call = None
  /\ LET d == driver
     IN  BeginBatch(Batch([n \in DOMAIN d.chunk |-> d.queries[d.chunk[n]]], d.k, RoundStart, d.nprobe,
                          [n \in DOMAIN d.chunk |-> d.results[d.chunk[n]]], d.filter), ok)
  /\ UNCHANGED driver

\* progressive_ivf_search: the single query is searched again with twice the probes.
Again(ok) ==
  /\ Returned /\ result # Failed /\ call.op = "search"
  /\ driver.nprobe < Len(Rows) /\ Required(driver.k) > 0 /\ ~IsComplete(result[1], Required(driver.k))
  /\ BeginSearch([call EXCEPT !.to = Doubled(driver.nprobe)], ok)
  /\ driver' = [driver EXCEPT !.nprobe = Doubled(@)]

StoreSingle ==
  /\ Returned /\ result # Failed /\ call.op = "search"
  /\ \/ driver.nprobe >= Len(Rows)
     \/ Required(driver.k) = 0
     \/ IsComplete(result[1], Required(driver.k))
  /\ driver' = [driver EXCEPT !.results = result, !.done = TRUE]
  /\ UNCHANGED vars

ProgressiveSteps ==
  \/ Error \/ StoreRound \/ StoreSingle
  \/ \E ok \in BOOLEAN : SearchRound(ok) \/ Again(ok)
  \/ driver # None /\ Steps /\ UNCHANGED driver

------------------------------------------------------------------------------
(* Properties                                                                  *)

\* The rows a query of a call can reach.
Reachable(c, i) == {id \in UNION {ToSet(Rows[l]) : l \in ToSet(Probes(c, i))} :
                      c.filter = None \/ id \in c.filter}

\* The distances of the k nearest of some rows and entries, padded.
Nearest(k, q, ids, seeds) ==
  LET entries == {<<index.dist[q][id], id, 0>> : id \in {j \in ids : index.dist[q][j] # NaN}}
                 \cup {<<seeds[j].d, seeds[j].id, j>> : j \in {j \in DOMAIN seeds : seeds[j].d # Infinity}}
      within(d) == Cardinality({e \in entries : e[1] <= d})
  IN  [n \in 1..k |-> Min({Infinity} \cup {d \in {e[1] : e \in entries} : within(d) >= n})]

Returns == call # None /\ result # None /\ result # Failed

\* search_with_filter and search_batch_ivfflat_reader_filter_range return, for each
\* query, the k smallest distances among its seeds and the allowed rows of the lists
\* it probes, each with the row it belongs to: however the lists were batched,
\* streamed, scanned in parallel and merged, and whatever the other queries probed.
TopKIsExact ==
  Returns /\ call.op \in {"search", "batch"} =>
    \A i \in Slots :
      LET seeds == IF call.seeds = <<>> THEN <<>> ELSE call.seeds[i]
      IN  /\ [n \in DOMAIN result[i] |-> result[i][n].d] = Nearest(call.k, call.queries[i], Reachable(call, i), seeds)
          /\ \A n \in DOMAIN result[i] :
               \/ result[i][n] = [d |-> Infinity, id |-> -1]
               \/ result[i][n] \in ToSet(seeds)
               \/ /\ result[i][n].id \in Reachable(call, i)
                  /\ result[i][n].d = index.dist[call.queries[i]][result[i][n].id]

\* range_search_batch_with_filter returns for each query exactly the allowed rows of
\* its probed lists that the band admits, each once: tasks of several lists merging
\* under the queries' locks never lose a row or give it to another query.
RangeIsExact ==
  Returns /\ call.op = "range" =>
    \A i \in Slots :
      LET dist == index.dist[call.queries[i]]
          rows == QueryRows(result, i)
      IN  /\ IsInjective(rows)
          /\ ToSet(rows) = {[id |-> id, d |-> dist[id]] : id \in {j \in Reachable(call, i) : Admits(call.band, dist[j])}}
          /\ EmptyBand(call.band) \/ \A id \in Reachable(call, i) : dist[id] # NaN

\* The statistics of a range search: each allowed row of a probed list is scanned
\* once, an abandoned row is a scanned one, and a list that several queries probe, or
\* that is read in several chunks, is one list read.
RangeStatsExact ==
  Returns /\ call.op = "range" /\ ~EmptyBand(call.band) =>
    /\ \A i \in Slots :
         LET s == result.stats[i]
             dist == index.dist[call.queries[i]]
         IN  /\ s.probed = Len(Probes(call, i))
             /\ s.scanned = Cardinality(Reachable(call, i))
             /\ s.committed = Len(QueryRows(result, i))
             /\ s.abandoned = IF Metric # "L2" \/ call.band.upper = Unbounded THEN 0
                              ELSE Cardinality({id \in Reachable(call, i) : dist[id] > call.band.upper})
    /\ result.reads = Cardinality({l \in ToSet(UniqueLists(call)) : Rows[l] # <<>>})

\* Each unique probed list is read once, whatever the number of queries that
\* selected it, and a call that succeeds has read all that hold rows.
EachListReadOnce ==
  /\ IsInjective(fetched)
  /\ Returns /\ (call.op # "range" \/ ~EmptyBand(call.band)) =>
       ToSet(fetched) = {l \in ToSet(UniqueLists(call)) : Rows[l] # <<>>}

\* The rows within the first n ranks of a query.
Within(q, n) ==
  {id \in UNION {ToSet(Rows[index.rank[q][r]]) : r \in 1..n} :
     (driver.filter = None \/ id \in driver.filter)}

\* The widths a search may have: the first, doubled up to the number of lists.
Widths == {Len(Rows)} \cup {w \in 1..Len(Rows) : \E e \in 0..Len(Rows) : w = driver.initial * (2 ^ e)}

\* Rows of a query that have a distance, within a width
Found(q, n) == {id \in Within(q, n) : index.dist[q][id] # NaN}

\* The first width with enough rows, or all lists.
FirstWidth(q) ==
  Min({Len(Rows)} \cup {w \in Widths : w >= driver.initial /\ Cardinality(Found(q, w)) >= Required(driver.k)})

\* progressive_ivf_batch_search and progressive_ivf_search return for each query what
\* one search over the first sufficient width would: rounds that scan only the new
\* ranks and merge into the seeds of the query lose nothing, in whatever chunks the
\* unfinished queries are retried, and a finished query is left alone.
ProgressiveIsExact ==
  driver # None /\ driver.done /\ driver.results # Failed =>
    \A i \in DOMAIN driver.queries :
      LET q == driver.queries[i]
      IN  [n \in DOMAIN driver.results[i] |-> driver.results[i][n].d]
            = Nearest(driver.k, q, Within(q, IF Required(driver.k) = 0 THEN driver.initial ELSE FirstWidth(q)), <<>>)

\* A row is in the results of a query at most once: no round offers again a row
\* that is already among the seeds.
NoRowTwice ==
  driver # None /\ driver.results \notin {<<>>, Failed} =>
    \A i \in DOMAIN driver.results : \A m, n \in DOMAIN driver.results[i] :
      m # n /\ driver.results[i][m].id = driver.results[i][n].id => driver.results[i][m].id = -1

\* Widening ends: what follows a search is the end of the call, a larger width, or
\* the remaining queries of the same round.
WideningAdvances ==
  driver # None /\ driver' # driver =>
    \/ driver'.done
    \/ driver'.nprobe > driver.nprobe
    \/ driver'.nprobe = driver.nprobe /\ Len(driver'.active) < Len(driver.active)
==============================================================================

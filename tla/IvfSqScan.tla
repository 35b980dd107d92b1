------------------------------ MODULE IvfSqScan ------------------------------
(* The searches of an IVF-SQ reader (src/core/src/ivfsq_io.rs) over its list    *)
(* cache: a single query, a batch over a range of probe ranks with seeds, and a *)
(* batch of range queries.  Lists come from the cache or from a read of the      *)
(* missing ones; an oversized list is streamed past the cache.  A scan computes  *)
(* the distances of a whole list against the cutoff its collector had when the   *)
(* scan began.                                                                   *)
EXTENDS SqListCache, SequencesExt

CONSTANTS
  NaN, Infinity, Unbounded, Failed,
  Rows,          \* the row IDs of each list
  MaxBatch,      \* MAX_IVF_BATCH_READ_BYTES, in rows; a list's payload is its rows
  ChunkRows,     \* rows of a streamed chunk
  BlockSize,     \* IVF_SQ_SCAN_BLOCK_SIZE
  ParallelRows   \* PARALLEL_SQ_SCAN_MIN_CANDIDATES

VARIABLES
  index,     \* [metric, rank, dist], the last two by query
  call,      \* the arguments of the running call
  lists,     \* unique lists still to be scanned
  out,       \* heap, or collector, of each query of the call
  tasks,     \* lists a single range query scans in parallel
  builder,   \* RangeResultBuilder of the call
  fetched,   \* lists read from the file during the call
  result

svars == <<index, call, lists, out, tasks, builder, fetched, result>>
vars == <<cvars, svars>>

H == INSTANCE Collectors
L == INSTANCE IvfLists WITH MaxBatchBytes <- MaxBatch, GroupBits <- 1, IdBits <- 1, I64Bytes <- 0,
       I32Bytes <- 0, F32Bytes <- 0, HeaderBytes <- 0, StreamSlack <- 0

Slots == DOMAIN call.queries
Running == call # None /\ result = None

\* The probe ranks a call scans for one of its queries.
Probes(c, i) ==
  SubSeq(index.rank[c.queries[i]], c.from + 1, IF c.to < Len(Rows) THEN c.to ELSE Len(Rows))

Seen(c) ==
  FoldLeft(LAMBDA u, l : IF l \in ToSet(u) THEN u ELSE Append(u, l), <<>>,
           FlattenSeq([i \in DOMAIN c.queries |-> Probes(c, i)]))

------------------------------------------------------------------------------
(* Scanning a list                                                             *)

Blocks(ids) == (Len(ids) + BlockSize - 1) \div BlockSize

\* Faulty variant of FilterMasks: the mask of the first block serves every block.
FilterMasksFirst(c, ids) ==
  [b \in 1..Blocks(ids) |-> {lane \in 0..(BlockSize - 1) : (b - 1) * BlockSize + lane + 1 <= Len(ids) /\ ids[lane + 1] \in c.filter}]

\* sq_filter_masks: the allowed lanes of each block
FilterMasks(c, ids) ==
  [b \in 1..Blocks(ids) |->
     {lane \in 0..(BlockSize - 1) :
        (b - 1) * BlockSize + lane + 1 <= Len(ids) /\ ids[(b - 1) * BlockSize + lane + 1] \in c.filter}]

\* The rows of a scan, in the order of their blocks and lanes
Selected(c, ids) ==
  IF c.filter = None THEN ids
  ELSE IF c.op # "range" THEN SelectSeq(ids, LAMBDA id : id \in c.filter)
  ELSE LET masks == FilterMasks(c, ids)
           at == SelectSeq([p \in 1..(Blocks(ids) * BlockSize) |-> p],
                           LAMBDA p : ((p - 1) % BlockSize) \in masks[((p - 1) \div BlockSize) + 1])
       IN  [n \in DOMAIN at |-> ids[at[n]]]

\* distance.is_finite() && distance >= cutoff
Abandoned(d, cutoff) == d # NaN /\ d >= cutoff

\* scan_sq_rows with a heap
ScanTopK(c, heap, q, ids) ==
  LET cutoff == H!DistanceLimit(heap)
  IN  FoldLeft(LAMBDA h, id : IF Abandoned(index.dist[q][id], cutoff) THEN h ELSE H!Collect(h, index.dist[q][id], id),
               heap, Selected(c, ids))

\* scan_sq_rows with a range collector
ScanRange(c, collector, q, ids) ==
  FoldLeft(LAMBDA r, id : IF Abandoned(index.dist[q][id], r.cutoff) THEN H!NoteAbandoned(r)
                          ELSE H!RangePush(r, id, index.dist[q][id]),
           collector, Selected(c, ids))

\* seed_heaps, for one query
SeedHeaps(k, seeds) ==
  FoldLeft(LAMBDA h, e : IF e.d = Infinity THEN h ELSE H!Push(h, e.d, e.id), H!NewHeap(k, Infinity), seeds)

PaddedResults(heap, k) ==
  H!IntoSorted(heap.data) \o [j \in 1..(k - Len(heap.data)) |-> [d |-> Infinity, id |-> -1]]

\* for_each_streamed_list_chunk: the rows of each chunk
Chunks(l) ==
  [n \in 1..((Len(Rows[l]) + ChunkRows - 1) \div ChunkRows) |->
     SubSeq(Rows[l], (n - 1) * ChunkRows + 1,
            IF n * ChunkRows < Len(Rows[l]) THEN n * ChunkRows ELSE Len(Rows[l]))]

Oversized(l) == L!IvfPayloadIsOversized(Len(Rows[l]))

\* The lists of the next read
NextLists ==
  LET n == L!BatchEnd([i \in DOMAIN lists |-> Len(Rows[lists[i]])], 0)
  IN  SubSeq(lists, 1, IF n = 0 THEN 1 ELSE n)

------------------------------------------------------------------------------
(* Calls                                                                       *)

Begin(c, first, b) ==
  /\ call' = c /\ lists' = Seen(c) /\ out' = first /\ builder' = b
  /\ tasks' = {} /\ fetched' = <<>> /\ result' = None
  /\ UNCHANGED <<index, cvars>>

Refuse(c) ==
  /\ call' = c /\ lists' = <<>> /\ out' = <<>> /\ builder' = None
  /\ tasks' = {} /\ fetched' = <<>> /\ result' = Failed
  /\ UNCHANGED <<index, cvars>>

\* search_with_filter, before its loop
BeginSearch(c) ==
  IF c.k > 0 /\ c.to > 0 THEN Begin(c, <<H!NewHeap(c.k, Infinity)>>, None) ELSE Refuse(c)

\* validate_batch_seed
ValidateBatchSeed(c) == c.seeds = <<>> \/ \A i \in DOMAIN c.queries : Len(c.seeds[i]) = c.k

\* search_batch_ivfsq_reader_filter_range; one query from the first rank without
\* seeds is a plain search.
BeginBatch(c) ==
  IF c.queries = <<>> \/ c.k = 0 \/ c.from >= c.to \/ ~ValidateBatchSeed(c) THEN Refuse(c)
  ELSE IF Len(c.queries) = 1 /\ c.from = 0 /\ c.seeds = <<>> THEN BeginSearch([c EXCEPT !.op = "search"])
  ELSE Begin(c, [i \in DOMAIN c.queries |-> SeedHeaps(c.k, IF c.seeds = <<>> THEN <<>> ELSE c.seeds[i])], None)

\* range_search_batch_with_filter, before its loop
BeginRange(c) ==
  LET fresh == H!NewBuilder(Len(c.queries))
  IN  IF c.queries = <<>> \/ c.band.metric # index.metric \/ c.to = 0 THEN Refuse(c)
      ELSE IF c.band.lower # Unbounded /\ c.band.lower = c.band.upper
      THEN /\ call' = c /\ result' = H!Build(fresh) /\ builder' = fresh
           /\ lists' = <<>> /\ out' = <<>> /\ tasks' = {} /\ fetched' = <<>>
           /\ UNCHANGED <<index, cvars>>
      ELSE Begin(c, [i \in DOMAIN c.queries |-> H!NewCollector(c.band)],
                 FoldLeft(LAMBDA b, i : H!RecordListsProbed(b, i, Len(Probes(c, i))), fresh,
                          [i \in DOMAIN c.queries |-> i]))

BeginCall(c) ==
  /\ ~Running
  /\ \/ c.op = "search" /\ BeginSearch(c)
     \/ c.op = "batch" /\ BeginBatch(c)
     \/ c.op = "range" /\ BeginRange(c)

------------------------------------------------------------------------------
(* The loop over the lists                                                     *)

Selects(i, l) == l \in ToSet(Probes(call, i))

Fail ==
  /\ result' = Failed
  /\ lists' = <<>> /\ out' = <<>> /\ tasks' = {}
  /\ UNCHANGED <<index, call, builder, fetched>>

\* What an oversized list adds to one query: chunk after chunk, straight into its
\* collector; several range queries collect a chunk on their own and merge it
\* (scan_sq_range_chunk).
Streamed(i, l) ==
  LET alone == \A j \in Slots \ {i} : ~Selects(j, l)
      chunk(o, ids) ==
        IF call.op # "range" THEN ScanTopK(call, o, call.queries[i], ids)
        ELSE IF alone THEN ScanRange(call, o, call.queries[i], ids)
        ELSE H!MergeCollector(o, ScanRange(call, H!NewCollector(call.band), call.queries[i], ids))
  IN  IF Selects(i, l) THEN FoldLeft(chunk, out[i], Chunks(l)) ELSE out[i]

Stream ==
  /\ Running /\ asked = <<>> /\ tasks = {} /\ lists # <<>> /\ Oversized(Head(lists))
  /\ LET l == Head(lists)
         after == [i \in Slots |-> Streamed(i, l)]
     IN  IF call.op = "range" /\ \E i \in Slots : after[i].failed THEN Fail
         ELSE /\ out' = after
              /\ builder' = IF call.op = "range" THEN H!RecordListRead(builder) ELSE builder
              /\ fetched' = Append(fetched, l)
              /\ lists' = Tail(lists)
              /\ UNCHANGED <<index, call, tasks, result>>
  /\ UNCHANGED cvars

\* A read of a chunk of an oversized list fails.
StreamFails ==
  /\ Running /\ asked = <<>> /\ tasks = {} /\ lists # <<>> /\ Oversized(Head(lists))
  /\ Fail /\ UNCHANGED cvars

\* read_scan_lists of the next lists, through the cache
AskCache ==
  /\ Running /\ tasks = {} /\ lists # <<>> /\ ~Oversized(Head(lists))
  /\ Read(NextLists) /\ UNCHANGED svars

\* The metadata is not edited here, so no slot is stale.
CacheAnswers ==
  /\ Running
  /\ LookUpHit \/ LookUpMiss \/ Skip \/ Evict \/ Insert
  /\ UNCHANGED svars

\* Faulty variant of CountedReads: lists served by the cache count too.
CountedReadsAll == asked

\* The lists the reads of a batch are counted for
CountedReads == misses

CacheReads ==
  /\ Running /\ ReadMisses
  /\ LET counted == SelectSeq(CountedReads, LAMBDA l : Rows[l] # <<>>)
     IN  builder' = IF call.op = "range" THEN FoldLeft(LAMBDA b, l : H!RecordListRead(b), builder, counted) ELSE builder
  /\ fetched' = fetched \o SelectSeq(misses, LAMBDA l : Rows[l] # <<>>)
  /\ UNCHANGED <<index, call, lists, out, tasks, result>>

CacheFails == Running /\ ReadFails /\ Fail

Candidates(batch) ==
  FoldLeft(LAMBDA n, l : n + Len(Rows[l]) * Cardinality({i \in Slots : Selects(i, l)}), 0, batch)

\* Faulty variant of LocalLimit: a list's heap starts from the best distance.
LocalLimitBest(heap) == IF heap.data = <<>> THEN Infinity ELSE H!IntoSorted(heap.data)[1].d

\* The cutoff a list of the parallel arm starts from
LocalLimit(heap) == H!DistanceLimit(heap)

\* The parallel arm of a single query: the first list goes into the heap, the others
\* into heaps bounded by its limit, merged in the order of the lists.
ParallelLists(heap, q, batch) ==
  LET first == ScanTopK(call, heap, q, Rows[batch[1]])
      local(l) == ScanTopK(call, H!NewHeap(call.k, LocalLimit(first)), q, Rows[l])
  IN  FoldLeft(LAMBDA h, l : FoldLeft(LAMBDA g, e : H!Push(g, e.d, e.id), h, H!IntoSorted(local(l).data)),
               first, Tail(batch))

\* The lists of a batch a query selected, in the order of its ranks
Own(i, batch) == SelectSeq(Probes(call, i), LAMBDA l : l \in ToSet(batch))

\* The scans of a batch that need no lock: top-k, and range queries one per thread.
Scanned(i, batch) ==
  IF call.op = "search" /\ Candidates(batch) >= ParallelRows THEN ParallelLists(out[i], call.queries[i], batch)
  ELSE FoldLeft(LAMBDA o, l : IF call.op = "range" THEN ScanRange(call, o, call.queries[i], Rows[l])
                              ELSE ScanTopK(call, o, call.queries[i], Rows[l]),
                out[i], Own(i, batch))

\* One range query over several lists scans them in parallel.
Shared(batch) == call.op = "range" /\ Len(call.queries) = 1 /\ Len(batch) > 1 /\ Candidates(batch) >= ParallelRows

ScanBatch ==
  /\ Running /\ ReturnLists
  /\ LET after == [i \in Slots |-> Scanned(i, asked)]
     IN  IF Shared(asked)
         THEN /\ tasks' = ToSet(asked)
              /\ lists' = SubSeq(lists, Len(asked) + 1, Len(lists))
              /\ UNCHANGED <<index, call, out, builder, fetched, result>>
         ELSE IF call.op = "range" /\ \E i \in Slots : after[i].failed THEN Fail
         ELSE /\ out' = after
              /\ lists' = SubSeq(lists, Len(asked) + 1, Len(lists))
              /\ UNCHANGED <<index, call, tasks, builder, fetched, result>>

\* A thread scans one of the lists and merges its rows under the lock.
RangeTask(l) ==
  /\ Running /\ l \in tasks
  /\ LET c == ScanRange(call, H!NewCollector(call.band), call.queries[1], Rows[l])
     IN  IF c.failed THEN Fail
         ELSE /\ out' = <<H!MergeCollector(out[1], c)>>
              /\ tasks' = tasks \ {l}
              /\ UNCHANGED <<index, call, lists, builder, fetched, result>>
  /\ UNCHANGED cvars

Finish ==
  /\ Running /\ asked = <<>> /\ tasks = {} /\ lists = <<>>
  /\ result' = IF call.op # "range" THEN [i \in Slots |-> PaddedResults(out[i], call.k)]
               ELSE H!Build(FoldLeft(LAMBDA b, i :
                      H!TakeRows(H!RecordEarlyAbandoned(H!RecordScanned(b, i, out[i].scanned), i, out[i].abandoned),
                                 i, out[i].rows), builder, [i \in Slots |-> i]))
  /\ out' = <<>>
  /\ UNCHANGED <<index, call, lists, tasks, builder, fetched, cvars>>

Steps ==
  \/ Stream \/ StreamFails
  \/ AskCache \/ CacheAnswers \/ CacheReads \/ CacheFails
  \/ ScanBatch \/ (\E l \in tasks : RangeTask(l))
  \/ Finish

------------------------------------------------------------------------------
(* Properties                                                                  *)

Returns == call # None /\ result # None /\ result # Failed
EmptyBand == call.band.lower # Unbounded /\ call.band.lower = call.band.upper

Reachable(i) ==
  {id \in UNION {ToSet(Rows[l]) : l \in ToSet(Probes(call, i))} : call.filter = None \/ id \in call.filter}

\* A query's k smallest distances among its reachable rows and its seeds, padded; a
\* row that is also a seed counts once, with the smaller distance.
Nearest(i) ==
  LET dist == index.dist[call.queries[i]]
      seeds == IF call.seeds = <<>> THEN <<>> ELSE call.seeds[i]
      rows == {id \in Reachable(i) : dist[id] # NaN} \cup {e.id : e \in {x \in ToSet(seeds) : x.d # Infinity}}
      of(id) == Min({dist[id] : x \in Reachable(i) \cap {id}} \cup {e.d : e \in {x \in ToSet(seeds) : x.id = id}})
      within(d) == Cardinality({id \in rows : of(id) <= d})
  IN  [n \in 1..call.k |-> Min({Infinity} \cup {d \in {of(id) : id \in rows} : within(d) >= n})]

\* search_with_filter and search_batch_ivfsq_reader_filter_range return the k nearest
\* of the rows a query reaches and of its seeds: whichever lists the cache served,
\* whichever were streamed, and whatever cutoff the parallel arm started from.
SqTopKIsExact ==
  Returns /\ call.op # "range" =>
    \A i \in Slots :
      /\ [n \in DOMAIN result[i] |-> result[i][n].d] = Nearest(i)
      /\ \A m, n \in DOMAIN result[i] : m # n /\ result[i][m].id = result[i][n].id => result[i][m].id = -1

\* range_search_batch_with_filter returns exactly the rows the band admits, each
\* once, and scans each allowed row once: block masks, chunk collectors and threads
\* merging under the lock lose and add nothing.
SqRangeIsExact ==
  Returns /\ call.op = "range" =>
    \A i \in Slots :
      LET dist == index.dist[call.queries[i]]
          rows == H!QueryRows(result, i)
          s == result.stats[i]
      IN  /\ IsInjective(rows)
          /\ ToSet(rows) = {[id |-> id, d |-> dist[id]] : id \in {j \in Reachable(i) : H!Admits(call.band, dist[j])}}
          /\ ~EmptyBand => /\ \A id \in Reachable(i) : dist[id] # NaN
                           /\ s.scanned = Cardinality(Reachable(i))
                           /\ s.abandoned = IF index.metric # "L2" \/ call.band.upper = Unbounded THEN 0
                                            ELSE Cardinality({id \in Reachable(i) : dist[id] >= call.band.upper})

\* list_reads of a range search counts the lists that were really read: those with
\* rows that the cache did not serve, each once.
ReadsAreCounted == Returns /\ call.op = "range" => IsInjective(fetched) /\ result.reads = Len(fetched)
==============================================================================

------------------------------ MODULE IvfRqScan ------------------------------
(* The searches of an IVF-RQ reader (src/core/src/ivfrq_io.rs): a batch of       *)
(* queries over a range of probe ranks, and a batch of range queries.  A list is *)
(* scanned block by block out of the blocked layout: a coarse estimate from the  *)
(* first plane decides, by its lower bound, which rows are refined with the      *)
(* other planes; wide full blocks take the coarse sums of FastScan, which are    *)
(* within ipError of the exact ones.  Numbers are integers; NaN is a factor that *)
(* is not finite.                                                                *)
EXTENDS Integers, Sequences, SequencesExt, FiniteSetsExt, Functions

CONSTANTS
  None, Failed, NaN, Infinity, Unbounded,
  BlockSize,      \* RQ_SCAN_BLOCK_SIZE
  PlaneSize,      \* bytes of a plane
  MaxBatch,       \* MAX_RQ_BATCH_READ_BYTES, in rows
  ParallelRows    \* PARALLEL_RQ_SCAN_MIN_CANDIDATES

VARIABLES
  index,     \* [metric, bits, wide, maxRanges, rows, code, factors] and, by query,
             \* [rank, gAdd, gError, lut, fastLut, ipError, half]
  call,      \* the arguments of the running call
  lists,     \* unique lists still to be read
  out,       \* per query: [heap, stats], or QueryMerge as [rows, scanned]
  tasks,     \* scans <<list, query>> the threads of a range search have left
  builder,   \* RangeResultBuilder
  stats,     \* aggregate_stats
  last,      \* last_search_stats
  result

vars == <<index, call, lists, out, tasks, builder, stats, last, result>>

H == INSTANCE Collectors

Smaller(a, b) == IF a < b THEN a ELSE b
Slots == DOMAIN call.queries
Running == call # None /\ result = None
Sum(n, f(_)) == FoldLeft(LAMBDA s, i : s + f(i), 0, [i \in 1..n |-> i])

ZeroStats ==
  [queries |-> 0, scanned |-> 0, eligible |-> 0, refined |-> 0, coarseBytes |-> 0, planeBytes |-> 0,
   evaluated |-> 0, admitted |-> 0, fast |-> 0, scalar |-> 0, seeded |-> 0, tasks |-> 0]

\* Faulty variant of Merge: the scanned rows of the other side are lost.
MergeLost(s, t) ==
  [f \in DOMAIN s |-> IF f \in DOMAIN t /\ (f # "scanned" \/ s[f] = 0) THEN s[f] + t[f] ELSE s[f]]

\* IVFRQSearchStats::merge
Merge(s, t) == [f \in DOMAIN s |-> IF f \in DOMAIN t THEN s[f] + t[f] ELSE s[f]]

------------------------------------------------------------------------------
(* The blocked layout                                                          *)

CodeSize == PlaneSize * index.bits
FactorFields == IF index.bits = 1 THEN 2 ELSE 5

\* What the writer's blocks hold for a list: by code byte, or by factor, then by lane.
Blocked(l, width, of(_, _)) ==
  LET ids == index.rows[l]
      block(start) == SubSeq(ids, start + 1, Smaller(start + BlockSize, Len(ids)))
  IN  FlattenSeq([b \in 1..((Len(ids) + BlockSize - 1) \div BlockSize) |->
        FlattenSeq([c \in 1..width |->
          [n \in DOMAIN block((b - 1) * BlockSize) |-> of(block((b - 1) * BlockSize)[n], c)]])])

BlockedCodes(l) == Blocked(l, CodeSize, LAMBDA id, c : index.code[id][c])
BlockedFactors(l) == Blocked(l, FactorFields, LAMBDA id, f : index.factors[id][f])

\* byte_subset_sum over the bytes of one plane of one lane
PlaneSum(table, codes, start, plane, lanes, lane) ==
  Sum(PlaneSize, LAMBDA byte :
        table[byte][codes[start * CodeSize + (plane * PlaneSize + byte - 1) * lanes + lane]])

\* full_unsigned: the planes after the first, added to the weighted coarse sum
FullSum(table, codes, start, lanes, lane, coarse) ==
  coarse * 2 ^ (index.bits - 1)
    + Sum(index.bits - 1, LAMBDA p : 2 ^ (index.bits - 1 - p) * PlaneSum(table, codes, start, p, lanes, lane))

\* read_block_factor: field f, counted from 0, of one lane
Factor(factors, start, lanes, f, lane) == factors[start * FactorFields + f * lanes + lane]

\* estimate
Estimate(ip, add, rescale, gAdd) == IF add = NaN THEN NaN ELSE add + gAdd + rescale * ip

Minus(d, slack) == IF d = NaN THEN NaN ELSE d - slack
Abs(n) == IF n < 0 THEN -n ELSE n

------------------------------------------------------------------------------
(* scan_blocked_list                                                           *)

\* A block of lanes of list l for query q; s is [heap, stats].
ScanBlock(s, l, q, start, lanes) ==
  LET codes == BlockedCodes(l)
      factors == BlockedFactors(l)
      Q == index.query[q]
      id(n) == index.rows[l][start + n]
      factor(f, n) == Factor(factors, start, lanes, f, n)
      fast == index.bits > 1 /\ index.wide /\ call.filter = None /\ lanes = BlockSize
      allowed == {n \in 1..lanes : call.filter = None \/ id(n) \in call.filter}
      coarse == [n \in allowed |-> PlaneSum(IF fast THEN Q.fastLut ELSE Q.lut, codes, start, 0, lanes, n)]
      estimate(n) == Estimate(coarse[n] - Q.half, factor(0, n), factor(1, n), Q.gAdd[l])
      lower(n) == Minus(estimate(n), factor(2, n) * Q.gError[l]
                                       + IF fast THEN Abs(factor(1, n)) * Q.ipError ELSE 0)
      refine == {n \in allowed : H!ShouldConsider(s.heap, lower(n))}
      full(n, sum) == Estimate(sum - (2 ^ index.bits - 1) * Q.half, factor(3, n), factor(4, n), Q.gAdd[l])
      offer(t, n, d, counts) ==
        [heap |-> H!Collect(t.heap, d, id(n)),
         stats |-> Merge(Merge(t.stats, counts),
                         [admitted |-> IF H!ShouldConsider(t.heap, d) THEN 1 ELSE 0])]
      refined(t, n) ==
        LET quick == full(n, FullSum(Q.lut, codes, start, lanes, n, coarse[n]))
            exact == full(n, FullSum(Q.lut, codes, start, lanes, n, PlaneSum(Q.lut, codes, start, 0, lanes, n)))
            slack == Abs(factor(4, n)) * 2 ^ (index.bits - 1) * Q.ipError
        IN  IF ~fast THEN offer(t, n, quick, [evaluated |-> 1])
            ELSE IF ~H!ShouldConsider(t.heap, Minus(quick, slack)) THEN t
            ELSE offer(t, n, exact, [evaluated |-> 1, coarseBytes |-> PlaneSize,
                                     planeBytes |-> (index.bits - 1) * PlaneSize])
      visited == [s EXCEPT !.stats = Merge(@, [scanned |-> lanes, eligible |-> Cardinality(allowed),
                                               fast |-> IF fast THEN 1 ELSE 0, scalar |-> IF fast THEN 0 ELSE 1])]
      chosen == [visited EXCEPT !.stats = Merge(@, [refined |-> Cardinality(refine),
                                      planeBytes |-> Cardinality(refine) * (index.bits - 1) * PlaneSize])]
      lane == [n \in 1..lanes |-> n]
  IN  IF index.bits = 1
      THEN FoldLeft(LAMBDA t, n : IF n \in allowed THEN offer(t, n, estimate(n), [evaluated |-> 0]) ELSE t,
                    visited, lane)
      ELSE FoldLeft(LAMBDA t, n : IF n \in refine THEN refined(t, n) ELSE t, chosen, lane)

\* The first `limit` rows of a list
ScanBlockedList(s, l, q, limit) ==
  LET end == Smaller(Len(index.rows[l]), limit)
  IN  FoldLeft(LAMBDA t, b : ScanBlock(t, l, q, (b - 1) * BlockSize, Smaller(end - (b - 1) * BlockSize, BlockSize)),
               s, [b \in 1..((end + BlockSize - 1) \div BlockSize) |-> b])

\* Faulty variant of RangeField: the coarse factors of a multi-bit code.
RangeFieldCoarse == 0

\* The first factor of the estimate a range search uses
RangeField == IF index.bits = 1 THEN 0 ELSE 3

\* scan_range_blocked_list; a factor that is not finite fails the scan.
ScanRangeBlockedList(l, q) ==
  LET ids == index.rows[l]
      codes == BlockedCodes(l)
      factors == BlockedFactors(l)
      Q == index.query[q]
      push(c, i) ==
        LET start == ((i - 1) \div BlockSize) * BlockSize
            lanes == Smaller(Len(ids) - start, BlockSize)
            n == i - start
            sum == FullSum(Q.lut, codes, start, lanes, n, PlaneSum(Q.lut, codes, start, 0, lanes, n))
        IN  H!RangePush(c, ids[i], Estimate(sum - (2 ^ index.bits - 1) * Q.half,
                          Factor(factors, start, lanes, RangeField, n),
                          Factor(factors, start, lanes, RangeField + 1, n), Q.gAdd[l]))
  IN  FoldLeft(LAMBDA c, i : IF call.filter = None \/ ids[i] \in call.filter THEN push(c, i) ELSE c,
               H!NewCollector(call.band), [i \in DOMAIN ids |-> i])

------------------------------------------------------------------------------
(* Calls                                                                       *)

\* The probe ranks a call scans for one of its queries
Probes(c, i) ==
  SubSeq(index.query[c.queries[i]].rank, c.from + 1, Smaller(c.to, Len(index.rows)))

Seen(c) ==
  FoldLeft(LAMBDA u, l : IF l \in ToSet(u) THEN u ELSE Append(u, l), <<>>,
           FlattenSeq([i \in DOMAIN c.queries |-> Probes(c, i)]))

\* seed_heaps, for one query
SeedHeaps(k, seeds) ==
  FoldLeft(LAMBDA h, e : IF e.d = Infinity THEN h ELSE H!Push(h, e.d, e.id), H!NewHeap(k, Infinity), seeds)

\* validate_batch_seed
ValidateBatchSeed(c) == c.seeds = <<>> \/ \A i \in DOMAIN c.queries : Len(c.seeds[i]) = c.k

Start(c, unique, first, b, r) ==
  /\ call' = c /\ lists' = unique /\ out' = first /\ builder' = b /\ result' = r
  /\ tasks' = {} /\ stats' = [ZeroStats EXCEPT !.queries = Len(c.queries)]
  /\ UNCHANGED <<index, last>>

\* search_batch_ivfrq_reader_filter_range, before its loop
BeginBatch(c) ==
  /\ ~Running /\ c.op = "batch"
  /\ IF c.queries = <<>> \/ c.k = 0 \/ c.from >= c.to \/ ~ValidateBatchSeed(c)
     THEN Start(c, <<>>, <<>>, None, Failed)
     ELSE Start(c, Seen(c),
                [i \in DOMAIN c.queries |->
                   [heap |-> SeedHeaps(c.k, IF c.seeds = <<>> THEN <<>> ELSE c.seeds[i]), stats |-> ZeroStats]],
                None, None)

\* range_search_batch_with_filter, before its loop
BeginRange(c) ==
  /\ ~Running /\ c.op = "range"
  /\ LET fresh == H!NewBuilder(Len(c.queries))
     IN  IF c.queries = <<>> \/ c.band.metric # index.metric \/ c.to = 0
         THEN Start(c, <<>>, <<>>, None, Failed)
         ELSE IF c.band.lower # Unbounded /\ c.band.lower = c.band.upper
         THEN Start(c, <<>>, <<>>, fresh, H!Build(fresh))
         ELSE Start(c, Seen(c), [i \in DOMAIN c.queries |-> [rows |-> <<>>, scanned |-> 0]],
                    FoldLeft(LAMBDA b, i : H!RecordListsProbed(b, i, Len(Probes(c, i))), fresh,
                             [i \in DOMAIN c.queries |-> i]), None)

Fail ==
  /\ result' = Failed
  /\ lists' = <<>> /\ out' = <<>> /\ tasks' = {}
  /\ UNCHANGED <<index, call, builder, stats, last>>

\* Faulty variant of BatchReadEnd: the ranges are counted one too late.
BatchReadEndLate(unique) ==
  LET step(a, i) ==
        LET rows == Len(index.rows[unique[i]])
        IN  IF a.end # 0 \/ rows = 0 THEN a
            ELSE IF a.ranges > index.maxRanges \/ (i > 1 /\ a.rows + rows > MaxBatch) THEN [a EXCEPT !.end = i]
            ELSE [a EXCEPT !.rows = @ + rows, !.ranges = @ + 1]
      at == FoldLeft(step, [rows |-> 0, ranges |-> 0, end |-> 0], [i \in DOMAIN unique |-> i]).end
  IN  IF at = 0 THEN Len(unique) ELSE at - 1

\* batch_read_end: how many lists the next read takes; maxRanges 0 is no limit.
BatchReadEnd(unique) ==
  LET step(a, i) ==
        LET rows == Len(index.rows[unique[i]])
        IN  IF a.end # 0 \/ rows = 0 THEN a
            ELSE IF \/ index.maxRanges > 0 /\ a.ranges >= index.maxRanges
                    \/ i > 1 /\ a.rows + rows > MaxBatch
            THEN [a EXCEPT !.end = i]
            ELSE [a EXCEPT !.rows = @ + rows, !.ranges = @ + 1]
      at == FoldLeft(step, [rows |-> 0, ranges |-> 0, end |-> 0], [i \in DOMAIN unique |-> i]).end
  IN  IF at = 0 THEN Len(unique) ELSE at - 1

Batch == SubSeq(lists, 1, BatchReadEnd(lists))
Rest == SubSeq(lists, BatchReadEnd(lists) + 1, Len(lists))
Candidates(batch) == Sum(Len(batch), LAMBDA i : Len(index.rows[batch[i]]))

\* Faulty variant of SeedVectors: the seed scan stops inside a block.
SeedVectorsHalf == BlockSize - 1

\* PARALLEL_RQ_SEED_VECTORS
SeedVectors == BlockSize

\* The parallel arm of a single query: the first rows of the first list with rows
\* seed the heap; every list is then scanned into a heap of its own below that
\* threshold, and the heaps are merged in the order of the lists.
ParallelLists(batch) ==
  LET q == call.queries[1]
      nonEmpty == SelectSeq(batch, LAMBDA l : index.rows[l] # <<>>)
      seeded == IF nonEmpty = <<>> THEN [heap |-> out[1].heap, stats |-> stats]
                ELSE ScanBlockedList([heap |-> out[1].heap, stats |-> Merge(stats, [seeded |-> 1])],
                                     Head(nonEmpty), q, SeedVectors)
      threshold == H!DistanceLimit(seeded.heap)
      local == [n \in DOMAIN batch |->
                  ScanBlockedList([heap |-> H!NewHeap(call.k, threshold), stats |-> ZeroStats],
                                  batch[n], q, Len(index.rows[batch[n]]))]
  IN  FoldLeft(LAMBDA s, n :
                 [heap |-> FoldLeft(LAMBDA h, e : H!Push(h, e.d, e.id), s.heap, H!IntoSorted(local[n].heap.data)),
                  stats |-> Merge(s.stats, local[n].stats)],
               [seeded EXCEPT !.stats = Merge(@, [tasks |-> Len(batch)])], [n \in DOMAIN batch |-> n])

\* The lists of a batch a query selected, in the order of its ranks
Own(i, batch) == SelectSeq(Probes(call, i), LAMBDA l : l \in ToSet(batch))

\* A pass of the top-k loop: read the next lists and scan them.
ScanBatch ==
  /\ Running /\ call.op = "batch" /\ lists # <<>>
  /\ \E batch \in {Batch} :
       IF Len(call.queries) = 1 /\ Candidates(batch) >= ParallelRows
       THEN \E merged \in {ParallelLists(batch)} :
              out' = <<[out[1] EXCEPT !.heap = merged.heap]>> /\ stats' = merged.stats
       ELSE /\ out' = [i \in Slots |->
                         FoldLeft(LAMBDA s, l : ScanBlockedList(s, l, call.queries[i], Len(index.rows[l])),
                                  out[i], Own(i, batch))]
            /\ UNCHANGED stats
  /\ lists' = Rest
  /\ UNCHANGED <<index, call, tasks, builder, last, result>>

PaddedResults(heap, k) ==
  H!IntoSorted(heap.data) \o [j \in 1..(k - Len(heap.data)) |-> [d |-> Infinity, id |-> -1]]

FinishBatch ==
  /\ Running /\ call.op = "batch" /\ lists = <<>>
  /\ last' = FoldLeft(LAMBDA s, i : Merge(s, out[i].stats), stats, [i \in Slots |-> i])
  /\ result' = [i \in Slots |-> PaddedResults(out[i].heap, call.k)]
  /\ out' = <<>>
  /\ UNCHANGED <<index, call, lists, tasks, builder, stats>>

Selects(i, l) == l \in ToSet(Probes(call, i))

\* scan_one: a scan of one list for one query, merged under the query's lock
ScanOne(outs, l, i) ==
  LET c == ScanRangeBlockedList(l, call.queries[i])
  IN  [outs EXCEPT ![i] = [rows |-> @.rows \o c.rows, scanned |-> @.scanned + c.scanned]]

ScanFails(l, i) == ScanRangeBlockedList(l, call.queries[i]).failed

\* A pass of the range loop: read the next lists, and scan them here or, when they
\* hold enough candidates, hand every list and query to the threads.
ReadRangeBatch ==
  /\ Running /\ call.op = "range" /\ lists # <<>> /\ tasks = {}
  /\ LET pairs == FlattenSeq([n \in DOMAIN Batch |->
                    SelectSeq([i \in Slots |-> <<Batch[n], i>>], LAMBDA t : Selects(t[2], t[1]))])
         count == FoldLeft(LAMBDA s, t : s + Len(index.rows[t[1]]), 0, pairs)
     IN  IF count < ParallelRows /\ \E t \in ToSet(pairs) : ScanFails(t[1], t[2]) THEN Fail
         ELSE /\ builder' = FoldLeft(LAMBDA b, l : IF index.rows[l] = <<>> THEN b ELSE H!RecordListRead(b),
                                     builder, Batch)
              /\ lists' = Rest
              /\ IF count >= ParallelRows THEN tasks' = ToSet(pairs) /\ UNCHANGED out
                 ELSE out' = FoldLeft(LAMBDA o, t : ScanOne(o, t[1], t[2]), out, pairs) /\ UNCHANGED tasks
              /\ UNCHANGED <<index, call, stats, last, result>>

\* A thread finishes one scan.
RangeTask(t) ==
  /\ Running /\ t \in tasks
  /\ IF ScanFails(t[1], t[2]) THEN Fail
     ELSE /\ out' = ScanOne(out, t[1], t[2])
          /\ tasks' = tasks \ {t}
          /\ UNCHANGED <<index, call, lists, builder, stats, last, result>>

\* read_inverted_lists fails.
ReadFails == Running /\ lists # <<>> /\ tasks = {} /\ Fail

FinishRange ==
  /\ Running /\ call.op = "range" /\ lists = <<>> /\ tasks = {}
  /\ result' = H!Build(FoldLeft(LAMBDA b, i : H!TakeRows(H!RecordScanned(b, i, out[i].scanned), i, out[i].rows),
                                builder, [i \in Slots |-> i]))
  /\ out' = <<>>
  /\ UNCHANGED <<index, call, lists, tasks, builder, stats, last>>

Steps ==
  \/ ScanBatch \/ FinishBatch
  \/ ReadRangeBatch \/ (\E t \in tasks : RangeTask(t)) \/ FinishRange
  \/ ReadFails

------------------------------------------------------------------------------
(* Properties                                                                  *)

Returns == call # None /\ result # None /\ result # Failed
EmptyBand == call.band.lower # Unbounded /\ call.band.lower = call.band.upper

Reachable(i) ==
  {id \in UNION {ToSet(index.rows[l]) : l \in ToSet(Probes(call, i))} : call.filter = None \/ id \in call.filter}

ListOf(id) == CHOOSE l \in DOMAIN index.rows : id \in ToSet(index.rows[l])

\* The estimate of a row from its own code and factors, with `planes` planes.
Planes(i, id, planes) ==
  LET Q == index.query[call.queries[i]]
      ip == Sum(planes, LAMBDA p : 2 ^ (planes - p)
                * Sum(PlaneSize, LAMBDA b : Q.lut[b][index.code[id][(p - 1) * PlaneSize + b]]))
            - (2 ^ planes - 1) * Q.half
      f == IF planes = 1 THEN 1 ELSE 4
  IN  Estimate(ip, index.factors[id][f], index.factors[id][f + 1], Q.gAdd[ListOf(id)])

Distance(i, id) == Planes(i, id, index.bits)
Bound(i, id) ==
  IF index.bits = 1 THEN Distance(i, id)
  ELSE Minus(Planes(i, id, 1), index.factors[id][3] * index.query[call.queries[i]].gError[ListOf(id)])

\* search_batch_ivfrq_reader_filter_range returns rows at their exact full estimate
\* (or at their seed's distance), sorted and each once, and leaves a reachable row
\* out only when its estimate, or its coarse bound, is not below the last distance
\* returned: neither FastScan, nor the seed block, nor the thresholds of the parallel
\* arm drop more than that.
RqTopKIsSound ==
  Returns /\ call.op = "batch" =>
    \A i \in Slots :
      LET rows == {e \in ToSet(result[i]) : e.id # -1}
          seeds == IF call.seeds = <<>> THEN {} ELSE {e \in ToSet(call.seeds[i]) : e.d # Infinity}
          kth == result[i][call.k].d
      IN  /\ \A e \in rows : e \in seeds \/ (e.id \in Reachable(i) /\ e.d = Distance(i, e.id))
          /\ \A m, n \in DOMAIN result[i] : m < n => result[i][m].d <= result[i][n].d
          /\ \A m, n \in DOMAIN result[i] : m # n /\ result[i][m].id = result[i][n].id => result[i][m].id = -1
          /\ \A id \in Reachable(i) :
               \/ Distance(i, id) = NaN \/ Bound(i, id) = NaN
               \/ \E e \in rows : e.id = id /\ e.d <= Distance(i, id)
               \/ Distance(i, id) >= kth \/ Bound(i, id) >= kth

\* range_search_batch_with_filter returns exactly the rows whose full estimate the
\* band admits, each once, and scans each allowed row once, in whatever order the
\* threads merge; it reads every probed list with rows once.
RqRangeIsExact ==
  Returns /\ call.op = "range" =>
    \A i \in Slots :
      LET rows == H!QueryRows(result, i)
      IN  /\ IsInjective(rows)
          /\ ToSet(rows) = {[id |-> id, d |-> Distance(i, id)] :
                              id \in {j \in Reachable(i) : H!Admits(call.band, Distance(i, j))}}
          /\ ~EmptyBand =>
               /\ result.stats[i].scanned = Cardinality(Reachable(i))
               /\ \A id \in Reachable(i) : Distance(i, id) # NaN
               /\ result.reads = Cardinality({l \in DOMAIN index.rows :
                                   index.rows[l] # <<>> /\ \E j \in Slots : Selects(j, l)})

\* The statistics of a search balance: every probed row is scanned once per query,
\* and once more only by a seed scan of at most one block; the evaluated rows are
\* among the refined ones, those among the eligible ones, and what was admitted was
\* evaluated.
RqStatsBalance ==
  Returns /\ call.op = "batch" =>
    LET probed == Sum(Len(call.queries), LAMBDA i : Sum(Len(Probes(call, i)), LAMBDA n : Len(index.rows[Probes(call, i)[n]])))
    IN  /\ last.queries = Len(call.queries)
        /\ last.scanned >= probed /\ last.scanned <= probed + last.seeded * BlockSize
        /\ last.eligible <= last.scanned
        /\ last.refined <= last.eligible
        /\ last.evaluated <= last.refined
        /\ last.admitted <= IF index.bits = 1 THEN last.eligible ELSE last.evaluated
        /\ last.planeBytes = (index.bits - 1) * PlaneSize * last.refined + (index.bits - 1) * last.coarseBytes

\* A read takes lists in order, within the ranges and the bytes of a batch unless it
\* holds a single list with rows, and always takes at least one.
RqReadBounds ==
  lists # <<>> /\ call' = call /\ result' = None /\ lists' # lists =>
    LET taken == SelectSeq(SubSeq(lists, 1, Len(lists) - Len(lists')), LAMBDA l : index.rows[l] # <<>>)
    IN  /\ Len(lists') < Len(lists)
        /\ index.maxRanges > 0 => Len(taken) <= index.maxRanges
        /\ Len(taken) > 1 => Candidates(taken) <= MaxBatch
==============================================================================

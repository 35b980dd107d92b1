------------------------------ MODULE Collectors ------------------------------
(* What the IVF scans hand their rows to, and the bands a range search is asked   *)
(* for.                                                                           *)
(*                                                                                *)
(* - The three top-k heaps: topk::TopKHeap, which keeps one entry per row and an  *)
(*   index of positions; ivfpq's TopKHeap, heapified when it fills; and           *)
(*   ivfflat_io's ReaderTopKHeap, an array with its worst index.  An entry is     *)
(*   [d, id]; NaN is a distance that is not a number, or not finite.              *)
(* - The collector of one range scan task (src/core/src/collect.rs), and the      *)
(*   builder that turns the rows of a batch of queries into one compressed result *)
(*   (src/core/src/range.rs).  A band is [metric, lower, upper].                  *)
(* - Distance bands (src/core/src/range.rs): a predicate on public distances      *)
(*   becomes a half-open interval of stored values.  The finite f32 axis is       *)
(*   miniaturised to axis = [m, top]: linear keys 0..(2*m+1) with values -m..m,   *)
(*   where two keys hold the value zero (-0.0 and +0.0), and L2 bit patterns      *)
(*   0..top, whose public value is an integer square root, so that several        *)
(*   patterns share one.  An endpoint is [v, op]; its value v is in halves, finer *)
(*   than the stored values.                                                      *)
EXTENDS Integers, Sequences, SequencesExt, FiniteSets, FiniteSetsExt, Functions

CONSTANTS
  NaN, Infinity,
  None,        \* no endpoint, no cut, no error
  Unbounded    \* Bound::Unbounded

------------------------------------------------------------------------------
(* Top-k heaps *)

Swap(data, i, j) == [data EXCEPT ![i] = data[j], ![j] = data[i]]

\* sift_down of either heap; entries are counted from 1.
SiftDown(data, start) ==
  LET RECURSIVE down(_, _)
      down(h, i) ==
        LET left == IF 2 * i <= Len(h) /\ h[2 * i].d > h[i].d THEN 2 * i ELSE i
            worst == IF 2 * i + 1 <= Len(h) /\ h[2 * i + 1].d > h[left].d THEN 2 * i + 1 ELSE left
        IN  IF worst = i THEN h ELSE down(Swap(h, i, worst), worst)
  IN  down(data, start)

SiftUp(data, start) ==
  LET RECURSIVE up(_, _)
      up(h, i) == IF i = 1 \/ h[i \div 2].d >= h[i].d THEN h ELSE up(Swap(h, i \div 2, i), i \div 2)
  IN  up(data, start)

------------------------------------------------------------------------------
(* topk::TopKHeap: [k, limit, data, positions].  positions is maintained entry  *)
(* by entry in the code, by swap_entries and at each insertion.                *)

NewHeap(k, limit) == [k |-> k, limit |-> limit, data |-> <<>>, positions |-> [id \in {} |-> 0]]

\* The positions after entries moved from `old` to `new`: swap_entries touches
\* those that moved.
Reindexed(positions, old, new) ==
  [id \in DOMAIN positions |->
     IF \E i \in DOMAIN new : new[i].id = id /\ (i \notin DOMAIN old \/ new[i] # old[i])
     THEN CHOOSE i \in DOMAIN new : new[i].id = id ELSE positions[id]]

Put(h, i, e) == IF i > Len(h.data) THEN Append(h.data, e) ELSE [h.data EXCEPT ![i] = e]

\* Faulty variant of Without: the row that is replaced keeps its position.
WithoutKeeps(positions, id) == positions

Without(positions, id) == [j \in DOMAIN positions \ {id} |-> positions[j]]

With(positions, id, i) == [j \in DOMAIN positions \cup {id} |-> IF j = id THEN i ELSE positions[j]]

\* Faulty variant of Improves: a row keeps the distance it was first offered at.
ImprovesNever(h, i, d) == FALSE

Improves(h, i, d) == d < h.data[i].d

Push(h, d, id) ==
  IF h.k = 0 \/ d = NaN \/ d >= h.limit THEN h
  ELSE IF id \in DOMAIN h.positions
  THEN LET i == h.positions[id]
           new == SiftDown([h.data EXCEPT ![i].d = d], i)
       IN  IF ~Improves(h, i, d) THEN h
           ELSE [h EXCEPT !.data = new, !.positions = Reindexed(@, h.data, new)]
  ELSE IF Len(h.data) < h.k
  THEN LET new == SiftUp(Append(h.data, [d |-> d, id |-> id]), Len(h.data) + 1)
       IN  [h EXCEPT !.data = new, !.positions = Reindexed(With(@, id, Len(new)), h.data, new)]
  ELSE IF d < h.data[1].d
  THEN LET new == SiftDown(Put(h, 1, [d |-> d, id |-> id]), 1)
       IN  [h EXCEPT !.data = new,
                     !.positions = Reindexed(With(Without(@, h.data[1].id), id, 1), h.data, new)]
  ELSE h

ShouldConsider(h, d) ==
  h.k > 0 /\ d # NaN /\ IF Len(h.data) < h.k THEN d < h.limit ELSE d < h.data[1].d

\* Collector::push for TopKHeap
Collect(h, d, id) == IF ShouldConsider(h, d) THEN Push(h, d, id) ELSE h

\* Faulty variant of DistanceLimit: the best distance instead of the worst.
DistanceLimitStale(h) == IF h.k > 0 /\ Len(h.data) = h.k THEN h.data[h.k].d ELSE h.limit

\* distance_limit, which is the collector's cutoff.
DistanceLimit(h) == IF h.k > 0 /\ Len(h.data) = h.k THEN h.data[1].d ELSE h.limit

------------------------------------------------------------------------------
(* ivfpq::TopKHeap and ivfflat_io::ReaderTopKHeap                              *)

BuildMaxHeap(data) ==
  FoldLeft(LAMBDA h, i : SiftDown(h, i), data,
           [j \in 1..(Len(data) \div 2) |-> (Len(data) \div 2) + 1 - j])

\* Faulty variant of PqPush: the heap is not built when it fills up.
PqPushUnbuilt(data, k, d, id) ==
  IF k = 0 \/ d = NaN THEN data
  ELSE IF Len(data) < k THEN Append(data, [d |-> d, id |-> id])
  ELSE IF d < data[1].d THEN SiftDown([data EXCEPT ![1] = [d |-> d, id |-> id]], 1) ELSE data

PqPush(data, k, d, id) ==
  IF k = 0 \/ d = NaN THEN data
  ELSE IF Len(data) < k
  THEN LET more == Append(data, [d |-> d, id |-> id])
       IN  IF Len(more) = k THEN BuildMaxHeap(more) ELSE more
  ELSE IF d < data[1].d THEN SiftDown([data EXCEPT ![1] = [d |-> d, id |-> id]], 1) ELSE data

\* refresh_worst: max_by returns the last of equal entries; 0 for none.
RefreshWorst(data, k) ==
  IF Len(data) < k THEN 0
  ELSE Max({i \in DOMAIN data : \A j \in DOMAIN data : data[j].d <= data[i].d})

ReaderPush(r, k, d, id) ==
  LET e == [d |-> d, id |-> id]
      stored(data) == [data |-> data, worst |-> RefreshWorst(data, k)]
  IN  IF k = 0 \/ d = NaN THEN r
      ELSE IF Len(r.data) < k THEN stored(Append(r.data, e))
      ELSE IF d < r.data[r.worst].d THEN stored([r.data EXCEPT ![r.worst] = e]) ELSE r

\* into_sorted: a stable sort by distance.
IntoSorted(data) ==
  [n \in DOMAIN data |->
     data[CHOOSE i \in DOMAIN data :
            Cardinality({j \in DOMAIN data : data[j].d < data[i].d \/ (data[j].d = data[i].d /\ j < i)}) = n - 1]]

\* Faulty variant of SeedHeap: padding entries are pushed as rows.
SeedHeapPadding(k, seeds) ==
  FoldLeft(LAMBDA h, s : PqPush(h, k, s.d, s.id), <<>>, seeds)

\* seed_heaps: earlier results are pushed first; Infinity (f32::MAX) pads them.
SeedHeap(k, seeds) ==
  FoldLeft(LAMBDA h, s : IF s.d = Infinity THEN h ELSE PqPush(h, k, s.d, s.id), <<>>, seeds)

------------------------------------------------------------------------------
(* Range collection *)

\* early_abandon_threshold: only a partial L2 sum bounds the distance.
EarlyAbandonThreshold(band) ==
  IF band.metric = "L2" /\ band.upper # Unbounded THEN band.upper ELSE Infinity

\* admit_raw
Admits(band, value) ==
  /\ value # NaN
  /\ band.lower = Unbounded \/ value >= band.lower
  /\ band.upper = Unbounded \/ value < band.upper

NewCollector(band) ==
  [band |-> band, cutoff |-> EarlyAbandonThreshold(band),
   rows |-> <<>>, scanned |-> 0, abandoned |-> 0, failed |-> FALSE]

NoteAbandoned(c) == [c EXCEPT !.abandoned = @ + 1, !.scanned = @ + 1]

RangePush(c, id, value) ==
  [c EXCEPT !.scanned = @ + 1,
            !.failed = @ \/ value = NaN,
            !.rows = IF Admits(c.band, value) THEN Append(@, [id |-> id, d |-> value]) ELSE @]

\* RangeCollector::merge
MergeCollector(c, other) ==
  [c EXCEPT !.scanned = @ + other.scanned, !.abandoned = @ + other.abandoned,
            !.rows = @ \o other.rows, !.failed = @ \/ other.failed]

NewBuilder(nq) ==
  [rows |-> [q \in 1..nq |-> <<>>],
   stats |-> [q \in 1..nq |-> [probed |-> 0, scanned |-> 0, abandoned |-> 0, committed |-> 0]],
   reads |-> 0]

RecordListRead(b) == [b EXCEPT !.reads = @ + 1]

RecordListsProbed(b, q, lists) == [b EXCEPT !.stats[q].probed = @ + lists]

RecordScanned(b, q, rows) == [b EXCEPT !.stats[q].scanned = @ + rows]

RecordEarlyAbandoned(b, q, rows) == [b EXCEPT !.stats[q].abandoned = @ + rows]

TakeRows(b, q, rows) ==
  [b EXCEPT !.stats[q].committed = @ + Len(rows), !.rows[q] = @ \o rows]

\* build: rows in query order, with the limits of each query.
Build(b) ==
  [lims |-> FoldLeft(LAMBDA l, r : Append(l, Last(l) + Len(r)), <<0>>, b.rows),
   labels |-> FlattenSeq(b.rows), stats |-> b.stats, reads |-> b.reads]

\* The rows of one query of a result, as RangeSearchResult::query slices them.
QueryRows(result, q) == SubSeq(result.labels, result.lims[q] + 1, result.lims[q + 1])

------------------------------------------------------------------------------
(* Bands *)

OrderedValue(axis, key) == IF key <= axis.m THEN key - axis.m ELSE key - axis.m - 1

SquareRoot(b) == CHOOSE r \in 0..b : r * r <= b /\ b < (r + 1) * (r + 1)

\* MetricType::public_distance of a stored value, in halves.
Public(metric, value) ==
  CASE metric = "L2" -> 2 * SquareRoot(value)
    [] metric = "Cosine" -> 2 * value
    [] metric = "InnerProduct" -> -2 * value

\* Binary search for the first key of low..high in a set closed upwards, or None.
FirstIn(low, high, admitted) ==
  LET search[w \in 0..(high - low)] ==
        [l \in low..(high - w) |->
           IF w = 0 THEN l
           ELSE LET middle == l + (w \div 2)
                IN  IF middle \in admitted THEN search[middle - l][l]
                    ELSE search[w - (middle - l) - 1][middle + 1]]
  IN  IF high \notin admitted THEN None ELSE search[high - low][low]

FirstGe(axis, v) == FirstIn(0, axis.top, {b \in 0..axis.top : Public("L2", b) >= v})
FirstGt(axis, v) == FirstIn(0, axis.top, {b \in 0..axis.top : Public("L2", b) > v})

\* Faulty variant of FirstLinearCut: an inclusive upper end is treated as exclusive.
FirstLinearCutLe(axis, endpoint) ==
  LET key == FirstIn(0, 2 * axis.m + 1,
                     {k \in 0..(2 * axis.m + 1) : IF endpoint.op = "Gt" THEN 2 * OrderedValue(axis, k) > endpoint.v
                                             ELSE 2 * OrderedValue(axis, k) >= endpoint.v})
  IN  IF key = None THEN None ELSE OrderedValue(axis, key)

\* first_linear_cut
FirstLinearCut(axis, endpoint) ==
  LET key == FirstIn(0, 2 * axis.m + 1,
                     {k \in 0..(2 * axis.m + 1) : IF endpoint.op \in {"Ge", "Lt"} THEN 2 * OrderedValue(axis, k) >= endpoint.v
                                             ELSE 2 * OrderedValue(axis, k) > endpoint.v})
  IN  IF key = None THEN None ELSE OrderedValue(axis, key)

Refuse(error) == [error |-> error, lower |-> Unbounded, upper |-> Unbounded]

\* from_raw
FromRaw(lower, upper, metric) ==
  IF metric = "L2" /\ \E b \in {lower, upper} : b # Unbounded /\ b < 0 THEN Refuse("negative cut")
  ELSE IF lower # Unbounded /\ upper # Unbounded /\ lower > upper THEN Refuse("inverted band")
  ELSE [error |-> None, lower |-> lower, upper |-> upper]

BoundOf(cut) == IF cut = None THEN Unbounded ELSE cut

Reversed(endpoint) ==
  IF endpoint = None THEN None
  ELSE [v |-> -endpoint.v,
        op |-> CASE endpoint.op = "Ge" -> "Le" [] endpoint.op = "Gt" -> "Lt"
                 [] endpoint.op = "Le" -> "Ge" [] endpoint.op = "Lt" -> "Gt"]

\* The branch of from_endpoints for cosine and inner product.
LinearBand(axis, low, high, metric) ==
  LET lower == IF metric = "InnerProduct" THEN Reversed(high) ELSE low
      upper == IF metric = "InnerProduct" THEN Reversed(low) ELSE high
      lowerCut == IF lower = None THEN None ELSE FirstLinearCut(axis, lower)
      upperCut == IF upper = None THEN None ELSE FirstLinearCut(axis, upper)
  IN  IF \/ lower # None /\ lowerCut = None
         \/ upperCut = -axis.m
         \/ lowerCut # None /\ upperCut # None /\ lowerCut > upperCut
      THEN FromRaw(0, 0, metric)
      ELSE FromRaw(BoundOf(lowerCut), BoundOf(upperCut), metric)

L2Band(axis, low, high) ==
  LET lower == IF low = None THEN Unbounded ELSE IF low.op = "Ge" THEN FirstGe(axis, low.v) ELSE FirstGt(axis, low.v)
      upper == IF high = None THEN Unbounded ELSE IF high.op = "Lt" THEN FirstGe(axis, high.v) ELSE FirstGt(axis, high.v)
  IN  IF None \in {lower, upper} THEN Refuse("unsupported endpoint") ELSE FromRaw(lower, upper, "L2")

\* Faulty variant of InvertedPublic: a band of a single value counts as inverted.
InvertedPublicEqual(low, high) == low # None /\ high # None /\ low.v >= high.v

InvertedPublic(low, high) == low # None /\ high # None /\ low.v > high.v

\* from_endpoints
FromEndpoints(axis, low, high, metric) ==
  IF (low # None /\ low.op \notin {"Ge", "Gt"}) \/ (high # None /\ high.op \notin {"Le", "Lt"})
  THEN Refuse("operator does not fit its side")
  ELSE IF metric = "L2" THEN L2Band(axis, low, high)
  ELSE IF InvertedPublic(low, high) THEN Refuse("inverted public band")
  ELSE LinearBand(axis, low, high, metric)
==============================================================================

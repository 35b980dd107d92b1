----------------------------- MODULE IvfIndexes ------------------------------
(* An index while it is built in memory.                                        *)
(*                                                                              *)
(* The IVF indexes: flat, scalar-quantized, RaBitQ and product-quantized        *)
(* (src/core/src/ivfflat.rs, ivfsq.rs, ivfrq.rs, ivfpq.rs), with the coarse     *)
(* assignment they share (coarse.rs).  What training produced is known by a     *)
(* version, 0 before the first; a row records the versions it was encoded with. *)
(* Using the wrong version gives Garbage.                                       *)
(*                                                                              *)
(* What they are trained on: the trainer (index.rs) and the PQ training of a    *)
(* DiskANN index (diskann.rs), with the sample a memory budget allows, the      *)
(* reservoir that batches of training vectors go through, and the training that *)
(* starts from it.  A vector is its position in the stream of all vectors added;*)
(* the generator that the seed fixes is the sequence of what it will draw.      *)
EXTENDS Integers, Sequences, SequencesExt, FiniteSets, FiniteSetsExt

CONSTANTS
  None, NaN, Infinity,
  Names,        \* indexes of one build
  NList,
  Nearest,      \* the list nearest to a row, by version
  Greedy,       \* the list a graph of that version finds for it
  Rank,         \* the lists of a query by version and query
  Dist,         \* the distance of query and row
  Lower,        \* RaBitQ's lower bound of that distance
  Large,        \* use_approximate_assignment: the centroids are large enough for a graph
  BatchSize,    \* BATCH_SIZE of IVFPQIndex::add
  MaxRows,      \* bound: rows of an index
  Configs,      \* [family, d, m, ksub, buffers, budget, lists]
  MaxTraining,  \* DISKANN_MAX_PQ_TRAINING_VECTORS
  MinIvf,       \* MIN_IVF_TRAINING_VECTORS
  PerList,      \* IVF_TRAINING_VECTORS_PER_LIST
  ScoreCells,   \* entries of the score matrix of a k-means task
  Threads,      \* rayon threads
  Stream,       \* bound on the vectors added
  Batch         \* bound on the vectors of a batch

VARIABLES
  pool,         \* the index of each name, or None
  found,        \* [name, call, rows] of the last search, or None
  config, rng,
  phase,        \* "open", "trained" or "failed"
  sample,       \* training_data, as positions in the stream
  seen,         \* training_vectors_seen
  count,        \* training_vector_count
  drawn,        \* values the generator has returned
  trained       \* what the quantizer was trained on

trainerVars == <<config, rng, phase, sample, seen, count, drawn, trained>>

------------------------------------------------------------------------------
(* The sample for training                                                     *)

Lesser(a, b) == IF a <= b THEN a ELSE b
Greater(a, b) == IF a >= b THEN a ELSE b
CeilDiv(a, b) == (a + b - 1) \div b

------------------------------------------------------------------------------
(* pq_training_plan_with_sample_buffers                                        *)

\* Faulty variant of PeakFor: the normalized copy of the sample is left out.
PeakForOneBuffer(c, n, parallelism) ==
  LET chunk == CeilDiv(c.d, Greater(c.m, 1))
      task == n * chunk * 8 + n * 12 + Lesser(n * c.ksub, ScoreCells) * 4 + chunk * c.ksub * 12
  IN  n * c.d * 4 + c.d * c.ksub * 4 + task * parallelism

\* Bytes of the sample and its copies, the codebook, and the tasks at work at once
PeakFor(c, n, parallelism) ==
  LET chunk == CeilDiv(c.d, Greater(c.m, 1))
      task == n * chunk * 8 + n * 12 + Lesser(n * c.ksub, ScoreCells) * 4 + chunk * c.ksub * 12
  IN  n * c.d * 4 * c.buffers + c.d * c.ksub * 4 + task * parallelism

\* The middle of the binary search, rounded up
Middle(low, high) == low + CeilDiv(high - low, 2)

LargestFitting(c, least, most) ==
  LET search[low \in Nat, high \in Nat] ==
        IF low >= high THEN low
        ELSE LET middle == Middle(low, high)
             IN  IF PeakFor(c, middle, 1) <= c.budget THEN search[middle, high] ELSE search[low, middle - 1]
  IN  search[least, most]

Parallelisms(c, n) == {p \in 1..Lesser(Threads, Greater(c.m, 1)) : PeakFor(c, n, p) <= c.budget}

\* The plan for n vectors: how many of them to train on, with how many workers
Plan(c, n) ==
  LET least == Lesser(n, Greater(c.ksub, 1))
      chosen == LargestFitting(c, least, Lesser(n, MaxTraining))
      workers == Parallelisms(c, chosen)
  IN  IF n = 0 THEN [ok |-> TRUE, count |-> 0, parallelism |-> 1]
      ELSE IF PeakFor(c, least, 1) > c.budget THEN [ok |-> FALSE, count |-> 0, parallelism |-> 1]
      ELSE [ok |-> TRUE, count |-> chosen,
            parallelism |-> IF workers = {} THEN 1 ELSE CHOOSE p \in workers : \A q \in workers : q <= p]

\* validate_diskann_training_budget
BudgetAllowsTraining(c) == Plan(c, c.ksub).ok

\* diskann_training_sample_limit and default_training_vector_count
SampleLimit(c) ==
  IF c.family = "diskann" THEN Plan(c, MaxTraining).count
  ELSE Greater(MinIvf, c.lists * PerList)

------------------------------------------------------------------------------
(* The reservoir                                                               *)

\* A vector beyond the limit takes the place that is drawn, if it is one.
Replaced(kept, limit, position, draw) ==
  IF draw < limit THEN [kept EXCEPT ![draw + 1] = position] ELSE kept

\* bounded_pq_training_sample: a sample of the n vectors of one call
DirectSample(n, limit, draws) ==
  LET after[i \in Nat] ==
        IF i <= limit THEN [k \in 1..Lesser(n, limit) |-> k - 1]
        ELSE Replaced(after[i - 1], limit, i - 1, draws[i - limit])
  IN  after[n]

\* Faulty variant of Draws: the position of the vector itself is never drawn.
DrawsExclusive(limit, n) == {r \in [1..(IF n > limit THEN n - limit ELSE 0) -> 0..(n - 1)] :
                               \A i \in DOMAIN r : r[i] < limit + i - 1}

\* gen_range(0..=stream_index), for each vector beyond the limit
Draws(limit, n) == {r \in [1..(IF n > limit THEN n - limit ELSE 0) -> 0..(n - 1)] :
                      \A i \in DOMAIN r : r[i] <= limit + i - 1}

\* Trainer::new: the plan's limit, or the refusal of the configuration
TrainerInit ==
  /\ config \in Configs
  /\ phase = IF config.family = "diskann" /\ ~BudgetAllowsTraining(config) THEN "failed" ELSE "open"
  /\ rng \in Draws(SampleLimit(config), Stream)
  /\ sample = <<>> /\ seen = 0 /\ count = 0 /\ drawn = 0 /\ trained = <<>>

\* Faulty variant of Offered: positions are counted in the batch.
OfferedByBatch(s, batchIndex) ==
  LET limit == SampleLimit(config)
  IN  IF batchIndex < limit /\ Len(s.kept) < limit THEN [s EXCEPT !.kept = Append(@, seen + batchIndex)]
      ELSE IF batchIndex < limit THEN [s EXCEPT !.kept[batchIndex + 1] = seen + batchIndex]
      ELSE [kept |-> Replaced(s.kept, limit, seen + batchIndex, rng[s.drawn + 1]), drawn |-> s.drawn + 1]

\* One vector of a batch
Offered(s, batchIndex) ==
  LET limit == SampleLimit(config)
      streamIndex == seen + batchIndex
  IN  IF streamIndex < limit THEN [s EXCEPT !.kept = Append(@, streamIndex)]
      ELSE [kept |-> Replaced(s.kept, limit, streamIndex, rng[s.drawn + 1]), drawn |-> s.drawn + 1]

\* add_training_vectors_mut
AddTrainingVectors(n) ==
  LET after[i \in 0..n] == IF i = 0 THEN [kept |-> sample, drawn |-> drawn] ELSE Offered(after[i - 1], i - 1)
  IN  /\ phase = "open" /\ seen + n <= Stream
      /\ sample' = after[n].kept /\ drawn' = after[n].drawn
      /\ seen' = seen + n /\ count' = Lesser(seen + n, SampleLimit(config))
      /\ UNCHANGED <<config, rng, phase, trained>>

\* A batch of the wrong length or with a value that is not finite is refused whole.
RejectTrainingVectors == phase = "open" /\ UNCHANGED trainerVars

\* Faulty variant of TrainOn: the plan also counts the vectors it is given.
TrainOnWithInput(c, data) ==
  LET plan == Plan([c EXCEPT !.buffers = @ + 1], Len(data))
      picked == DirectSample(Len(data), plan.count, rng)
  IN  [i \in DOMAIN picked |-> data[picked[i] + 1]]

\* DiskAnnIndex::train_with_config: plans again, for the vectors it is given.
TrainOn(c, data) ==
  LET plan == Plan(c, Len(data))
      picked == DirectSample(Len(data), plan.count, rng)
  IN  [i \in DOMAIN picked |-> data[picked[i] + 1]]

\* finish
Finish ==
  /\ phase = "open"
  /\ phase' = IF count = 0 THEN "failed" ELSE "trained"
  /\ trained' = IF count = 0 THEN trained ELSE IF config.family = "diskann" THEN TrainOn(config, sample) ELSE sample
  /\ UNCHANGED <<config, rng, sample, seen, count, drawn>>

Closed == phase # "open" /\ UNCHANGED trainerVars

TrainerNext == (\E n \in 1..Batch : AddTrainingVectors(n)) \/ RejectTrainingVectors \/ Finish \/ Closed

------------------------------------------------------------------------------
(* The indexes                                                                 *)

H == INSTANCE Collectors WITH Unbounded <- None

Garbage == -1
Lists == 1..NList
Fresh == [graph |-> None, attempted |-> FALSE, enabled |-> TRUE]

RowsOf(x) == FlattenSeq(x.lists)
IdsOf(x) == IF x = None THEN {} ELSE {r.id : r \in ToSet(RowsOf(x))}
IsEmpty(x) == \A l \in Lists : x.lists[l] = <<>>

------------------------------------------------------------------------------
(* CoarseAssignment                                                            *)

\* Faulty variant of Reset: another graph may be built, the old one stays until then.
ResetKeepsGraph(c) == [c EXCEPT !.attempted = FALSE]

Reset(c) == [c EXCEPT !.graph = None, !.attempted = FALSE]

SetApproximateEnabled(c, enabled) == [Reset(c) EXCEPT !.enabled = enabled]

\* The graph is built at the first use after a reset; it may fail to build.
Prepare(c, version, builds) ==
  IF c.attempted THEN c
  ELSE [c EXCEPT !.attempted = TRUE, !.graph = IF c.enabled /\ Large /\ builds THEN version ELSE @]

Assign(c, version, row) == IF c.graph = None THEN Nearest[version][row] ELSE Greedy[c.graph][row]

------------------------------------------------------------------------------
(* Training                                                                    *)

\* with_nbits, with_options and the two other constructors; outlived is history: the
\* rows that were added before the last training
New(kind, fourBit, opq, residual) ==
  [kind |-> kind, fourBit |-> fourBit, opq |-> opq, residual |-> residual,
   centroids |-> 0, codec |-> 0, rotation |-> 0, norms |-> 0, rotated |-> 0,
   coarse |-> Fresh, lists |-> [l \in Lists |-> <<>>], table |-> None, blocks |-> None,
   outlived |-> {}]

\* rebuild_centroid_norms and rebuild_rotated_centroids, of RaBitQ
WithDerived(x) == IF x.kind = "rq" THEN [x EXCEPT !.norms = x.centroids, !.rotated = x.centroids] ELSE x

\* train_with_config of a flat or RaBitQ index: the codec is not trained.
Trained(x, v) == WithDerived([x EXCEPT !.centroids = v, !.coarse = Reset(@)])

\* train_with_config of IVFSQIndex: bounds of the residuals of the assigned rows
TrainedSq(x, v, builds) == [Trained(x, v) EXCEPT !.coarse = Prepare(@, v, builds), !.codec = v]

\* train_with_config of IVFPQIndex: rotation, centroids of rotated rows, codebook of
\* the residuals of the assigned rows
TrainedPq(x, v, builds) ==
  [Trained(x, v) EXCEPT !.rotation = IF x.opq THEN v ELSE 0, !.codec = v,
                        !.coarse = IF x.residual THEN Prepare(@, v, builds) ELSE @]

\* The rows, the table and the block codes that an index has stay, and nothing asks
\* whether it has any; a trainer trains an index before it adds to it.
TrainWithConfig(n, v, builds) ==
  /\ pool[n] # None
  /\ LET x == pool[n]
         again == IF x.kind = "pq" THEN TrainedPq(x, v, builds)
                     ELSE IF x.kind = "sq" THEN TrainedSq(x, v, builds) ELSE Trained(x, v)
     IN  pool' = [pool EXCEPT ![n] = [again EXCEPT !.outlived = IdsOf(x)]]
  /\ found' = None

\* set_quantizer_centroids: asserts that no row was added.
SetQuantizerCentroids(n, v) ==
  /\ pool[n] # None /\ IsEmpty(pool[n])
  /\ pool' = [pool EXCEPT ![n] = [Trained(@, v) EXCEPT !.table = None, !.blocks = None]]
  /\ found' = None

\* set_approximate_coarse_assignment: the same assertion
SetApproximate(n, enabled) ==
  /\ pool[n] # None /\ IsEmpty(pool[n])
  /\ pool' = [pool EXCEPT ![n].coarse = SetApproximateEnabled(@, enabled)]
  /\ found' = None

\* from_trained: a worker's index, with no rows and nothing derived
FromTrained(n, m) ==
  /\ pool[n] # None /\ pool[n].kind = "pq" /\ pool[m] = None
  /\ LET x == pool[n]
         worker == [New("pq", x.fourBit, x.opq, x.residual) EXCEPT
                      !.centroids = x.centroids, !.codec = x.codec, !.rotation = x.rotation]
     IN  pool' = [pool EXCEPT ![m] = [worker EXCEPT !.coarse = SetApproximateEnabled(@, x.coarse.enabled)]]
  /\ found' = None

------------------------------------------------------------------------------
(* Adding rows                                                                 *)

Usable(x) == x # None /\ x.centroids # 0 /\ (x.kind = "pq" => x.codec # 0)

Encoded(x, id) == [id |-> id, centroids |-> x.centroids, codec |-> x.codec, rotation |-> x.rotation]

Appended(x, ids) ==
  LET own(l) == SelectSeq(ids, LAMBDA id : Assign(x.coarse, x.centroids, id) = l)
  IN  [x EXCEPT !.lists = [l \in Lists |-> @[l] \o [j \in DOMAIN own(l) |-> Encoded(x, own(l)[j])]]]

\* Faulty variant of Cleared: only the block codes are dropped.
ClearedBlocks(x) == [x EXCEPT !.blocks = None]

\* What IVFPQIndex derived from its rows and training is dropped.
Cleared(x) == [x EXCEPT !.table = None, !.blocks = None]

\* add of the flat, scalar-quantized and RaBitQ index: rows grouped by list
AddRows(x, ids, builds) == IF ids = <<>> THEN x ELSE Appended([x EXCEPT !.coarse = Prepare(@, x.centroids, builds)], ids)

\* add_batch of IVFPQIndex
AddBatch(x, ids, builds) == Cleared(AddRows(x, ids, builds))

\* IVFPQIndex::add: batches of BatchSize rows, none for no rows
AddBatches(x, ids, builds) ==
  FoldLeft(LAMBDA y, b : AddBatch(y, SubSeq(ids, (b - 1) * BatchSize + 1,
                                            IF b * BatchSize < Len(ids) THEN b * BatchSize ELSE Len(ids)), builds),
           x, [b \in 1..((Len(ids) + BatchSize - 1) \div BatchSize) |-> b])

\* Row IDs are the caller's; they are distinct here.
Add(n, ids, builds) ==
  /\ Usable(pool[n]) /\ \A m \in Names : ToSet(ids) \cap IdsOf(pool[m]) = {}
  /\ pool' = [pool EXCEPT ![n] = IF @.kind = "pq" THEN AddBatches(@, ids, builds) ELSE AddRows(@, ids, builds)]
  /\ found' = None

\* build_search_structures: block codes of every list, for 4-bit codes
BuildSearchStructures(n) ==
  /\ Usable(pool[n]) /\ pool[n].kind = "pq"
  /\ pool' = [pool EXCEPT ![n].blocks = IF pool[n].fourBit THEN pool[n].lists ELSE @]
  /\ found' = None

\* build_precomputed_table: only of a residual index
BuildPrecomputedTable(n) ==
  /\ Usable(pool[n]) /\ pool[n].kind = "pq"
  /\ pool' = [pool EXCEPT ![n].table = IF pool[n].residual THEN <<pool[n].centroids, pool[n].codec>> ELSE @]
  /\ found' = None

\* Faulty variant of MergeCompatible: the codebooks are not compared.
MergeCompatibleAnyCodebook(x, y) ==
  x.residual = y.residual /\ x.fourBit = y.fourBit /\ x.opq = y.opq /\ x.rotation = y.rotation /\ x.centroids = y.centroids

\* ensure_merge_compatible
MergeCompatible(x, y) ==
  /\ x.residual = y.residual /\ x.fourBit = y.fourBit /\ x.opq = y.opq
  /\ x.rotation = y.rotation /\ x.centroids = y.centroids /\ x.codec = y.codec

\* merge_from; merging an index twice would repeat its IDs.
MergeFrom(n, m) ==
  /\ n # m /\ Usable(pool[n]) /\ pool[n].kind = "pq" /\ pool[m] # None
  /\ IdsOf(pool[n]) \cap IdsOf(pool[m]) = {} /\ Len(RowsOf(pool[n])) + Len(RowsOf(pool[m])) <= MaxRows
  /\ pool' = [pool EXCEPT ![n] = IF ~MergeCompatible(@, pool[m]) THEN @
                                 ELSE Cleared([@ EXCEPT !.lists = [l \in Lists |-> @[l] \o pool[m].lists[l]],
                                                    !.outlived = @ \cup pool[m].outlived])]
  /\ found' = None

------------------------------------------------------------------------------
(* Searching                                                                   *)

Probes(x, call) == SubSeq(Rank[x.centroids][call.q], 1, IF call.nprobe < NList THEN call.nprobe ELSE NList)
Allowed(call, id) == call.filter = None \/ id \in call.filter

\* What a scan computes for the row at a position of a list
Score(x, q, l, pos) ==
  LET r == x.lists[l][pos]
      current == r.centroids = x.centroids /\ r.codec = x.codec /\ r.rotation = x.rotation
      derived == /\ x.table # None => x.table = <<x.centroids, x.codec>>
                 /\ x.blocks # None => pos <= Len(x.blocks[l]) /\ x.blocks[l][pos] = r
  IN  IF \/ x.kind = "flat"
         \/ x.kind = "sq" /\ current
         \/ x.kind = "rq" /\ current /\ x.norms = x.centroids /\ x.rotated = x.centroids
         \/ x.kind = "pq" /\ current /\ derived
      THEN Dist[q][r.id] ELSE Garbage

Positions(x, call, l) == SelectSeq([p \in DOMAIN x.lists[l] |-> p], LAMBDA p : Allowed(call, x.lists[l][p].id))

\* FlatTopKHeap::push: the last of the worst entries gives way.
FlatPush(data, k, d, id) ==
  IF k = 0 \/ d = NaN THEN data
  ELSE IF Len(data) < k THEN Append(data, [d |-> d, id |-> id])
  ELSE LET worst == Max({i \in DOMAIN data : \A j \in DOMAIN data : data[j].d <= data[i].d})
       IN  IF d < data[worst].d THEN [data EXCEPT ![worst] = [d |-> d, id |-> id]] ELSE data

\* IVFFlatIndex::search_with_filter, for one query
FlatRows(x, call) ==
  FoldLeft(LAMBDA data, l : FoldLeft(LAMBDA h, p : FlatPush(h, call.k, Score(x, call.q, l, p), x.lists[l][p].id),
                                     data, Positions(x, call, l)),
           <<>>, Probes(x, call))

\* scan_list of IVFRQIndex with more than one bit: the lower bound first
Considered(x, call, h, id) == x.kind # "rq" \/ Dist[call.q][id] = NaN \/ H!ShouldConsider(h, Lower[call.q][id])

\* search_with_filter and scan_list of IVFSQIndex and IVFRQIndex, for one query
HeapRows(x, call) ==
  FoldLeft(LAMBDA heap, l :
             FoldLeft(LAMBDA h, p : IF Considered(x, call, h, x.lists[l][p].id)
                                    THEN H!Collect(h, Score(x, call.q, l, p), x.lists[l][p].id) ELSE h,
                      heap, Positions(x, call, l)),
           H!NewHeap(call.k, Infinity), Probes(x, call)).data

\* Faulty variant of ScanCount: the budget of a list does not shrink.
ScanCountPerList(call, rowCount, scanned) == IF rowCount < call.maxCodes THEN rowCount ELSE call.maxCodes

\* The rows of a list search_with_max_codes still scans
ScanCount(call, rowCount, scanned) == IF rowCount < call.maxCodes - scanned THEN rowCount ELSE call.maxCodes - scanned

\* IVFPQIndex::search_with_filter and search_with_max_codes, for one query
PqRows(x, call) ==
  FoldLeft(LAMBDA s, l :
             LET rows == Positions(x, call, l)
                 rowCount == IF call.maxCodes = None THEN Len(rows) ELSE ScanCount(call, Len(rows), s.scanned)
             IN  IF rows = <<>> \/ (call.maxCodes # None /\ s.scanned >= call.maxCodes) THEN s
                 ELSE [heap |-> FoldLeft(LAMBDA h, p : H!PqPush(h, call.k, Score(x, call.q, l, p), x.lists[l][p].id),
                                         s.heap, SubSeq(rows, 1, rowCount)),
                       scanned |-> s.scanned + rowCount],
           [heap |-> <<>>, scanned |-> 0], Probes(x, call)).heap

\* Results are padded to k with -1 and f32::MAX.
Padded(data, k) ==
  LET sorted == H!IntoSorted(data)
  IN  [n \in 1..k |-> IF n <= Len(sorted) THEN sorted[n] ELSE [d |-> Infinity, id |-> -1]]

SearchWithFilter(n, call) ==
  /\ Usable(pool[n]) /\ found = None /\ (call.maxCodes # None => pool[n].kind = "pq")
  /\ LET x == pool[n]
         data == IF x.kind = "flat" THEN FlatRows(x, call) ELSE IF x.kind = "pq" THEN PqRows(x, call) ELSE HeapRows(x, call)
     IN  found' = [name |-> n, call |-> call, rows |-> Padded(data, call.k)]
  /\ UNCHANGED pool

------------------------------------------------------------------------------

\* The sample depends on the vectors and not on the batches they came in: it is what
\* one call with all of them keeps, and the low-level DiskANN training of the same
\* vectors would take the same ones.
SampleIgnoresBatches ==
  phase # "failed" =>
    /\ sample = DirectSample(seen, SampleLimit(config), rng)
    /\ Len(sample) = count
    /\ config.family = "diskann" => Plan(config, seen).count = count

\* Every vector seen has the same chance to be in the sample, over all the
\* generator may return.
EveryVectorEquallyLikely ==
  phase = "open" /\ seen > 0 /\ (\A i \in DOMAIN rng : rng[i] = 0) =>
    LET limit == SampleLimit(config)
        all == Draws(limit, seen)
        keeping(v) == {r \in all : \E i \in 1..count : DirectSample(seen, limit, r)[i] = v}
    IN  \A v \in 0..(seen - 1) : Cardinality(keeping(v)) * seen = count * Cardinality(all)

\* The training that plans again for the reservoir takes all of it: the limit of the
\* trainer fits the same budget.
TrainedOnTheWholeSample == phase = "trained" => trained = sample

\* The plan is the largest sample that fits, with its copies, the codebook and the
\* scratch of its workers, and the configuration is refused only when the smallest does not.
PlanFillsTheBudget ==
  config.family = "diskann" =>
    LET plan == Plan(config, MaxTraining)
        bytes(n, p) ==
          LET chunk == CeilDiv(config.d, config.m)
          IN  n * config.d * 4 * config.buffers + config.d * config.ksub * 4
              + p * (n * chunk * 8 + n * 12 + Lesser(n * config.ksub, ScoreCells) * 4 + chunk * config.ksub * 12)
        fits(n, p) == bytes(n, p) <= config.budget
    IN  /\ plan.ok = BudgetAllowsTraining(config) /\ plan.ok = fits(config.ksub, 1)
        /\ plan.ok => /\ fits(plan.count, plan.parallelism)
                      /\ \A n \in (plan.count + 1)..MaxTraining : ~fits(n, 1)
                      /\ \A p \in (plan.parallelism + 1)..Lesser(Threads, config.m) : ~fits(plan.count, p)

(* Properties                                                                  *)

\* A graph that assigns rows was built from the centroids in use, whatever was
\* trained, replaced or switched off before: CoarseAssignment is reset in time.
GraphFollowsTheCentroids ==
  \A n \in Names : pool[n] # None /\ pool[n].coarse.graph # None => pool[n].coarse.graph = pool[n].centroids

\* Every row added since the last training was encoded with the centroids, codebook and
\* rotation the index has now, and the index has no other rows unless it was trained with
\* rows in it: merges of separately trained indexes are refused, a worker's rows fit the
\* index they are merged into, and centroids are replaced only in an empty index.
RowsMatchTheirIndex ==
  \A n \in Names : pool[n] # None =>
    \A r \in ToSet(RowsOf(pool[n])) :
      \/ r.id \in pool[n].outlived
      \/ r.centroids = pool[n].centroids /\ r.codec = pool[n].codec /\ r.rotation = pool[n].rotation

\* The block codes are absent or repeat exactly the rows, and once an index has a row of
\* its last training the precomputed table is absent or of that training: adding and
\* merging drop both.
StructuresAreCurrent ==
  \A n \in Names : pool[n] # None =>
    /\ ~IsEmpty(pool[n]) => pool[n].blocks \in {None, pool[n].lists}
    /\ IdsOf(pool[n]) \subseteq pool[n].outlived \/ pool[n].table \in {None, <<pool[n].centroids, pool[n].codec>>}

\* The rows a search may return: of its probes, allowed, and for a budget of codes
\* the first rows in the order of the probes
Candidates(x, call) ==
  LET ids == FlattenSeq([i \in DOMAIN Probes(x, call) |->
               SelectSeq([p \in DOMAIN x.lists[Probes(x, call)[i]] |-> x.lists[Probes(x, call)[i]][p].id],
                         LAMBDA id : Allowed(call, id))])
  IN  ToSet(IF call.maxCodes = None \/ Len(ids) < call.maxCodes THEN ids ELSE SubSeq(ids, 1, call.maxCodes))

\* A search of an index in memory returns the k nearest of the rows it may scan: with
\* or without tables and block codes, after any order of training, adding, merging
\* and building; search_with_max_codes scans exactly its budget.  Codes of an earlier
\* training have no distance; a flat index holds vectors and stays exact with them.
SearchIsExact ==
  found # None /\ (pool[found.name].kind = "flat" \/ Candidates(pool[found.name], found.call) \cap pool[found.name].outlived = {}) =>
    LET x == pool[found.name]
        dist == Dist[found.call.q]
        ids == {id \in Candidates(x, found.call) : dist[id] # NaN}
        within(d) == Cardinality({id \in ids : dist[id] <= d})
    IN  [n \in DOMAIN found.rows |-> found.rows[n].d] =
          [n \in 1..found.call.k |-> Min({Infinity} \cup {d \in {dist[id] : id \in ids} : within(d) >= n})]
==============================================================================

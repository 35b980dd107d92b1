------------------------------ MODULE MCKernels ------------------------------
(* The distance kernels, the product quantizer and its scans (ProductQuantizer)  *)
(* and the scalar and RaBitQ quantizers (Quantizers): every call of a bounded    *)
(* set, evaluated once.  A component is taken twice where rounding matters: with *)
(* rounding, where the order of a sum shows, and exactly.                        *)
EXTENDS ProductQuantizer

CONSTANTS
  Unit, CodeMax, BlockSize, MinCheckpoint,
  RotationBlock, ByteBits, U8Max, U16Range, ChunkBytes, Refinements

VARIABLES call, done
vars == <<call, done>>

Exact == INSTANCE ProductQuantizer WITH Precision <- 20

\* The codec with the 16 centroids of a wider code.
Codec == INSTANCE ProductQuantizer WITH KSub <- 16
ExactCodec == INSTANCE ProductQuantizer WITH Precision <- 20, KSub <- 16

\* The ranges of the scalar quantizers divide the unit of ExactQuant, in which no
\* quotient is cut.
Quant == INSTANCE Quantizers WITH Infinity <- 1000
ExactQuant == INSTANCE Quantizers WITH Infinity <- 1000, Unit <- 60

Archs == {"avx2", "neon", "scalar"}
Metrics == {"L2", "Cosine", "InnerProduct"}

\* A vector of n elements; seed 0 is the zero vector.
V(seed, n) == [i \in 1..n |-> IF seed = 0 THEN 0 ELSE ((seed * i * i + 3 * i) % 13) - 6]

VectorCalls ==
  [op : {"cut"}, arch : Archs, n : 0..34, seed : 1..3, threshold : {-1, 0, 40, 200, 512, 900, Infinity}]
  \cup [op : {"scaled"}, arch : Archs, n : {0, 7, 8, 9, 31, 32, 33}, seed : 1..3, scale : 0..2,
        threshold : {-1, 0, 60, 300, 900}]
  \cup [op : {"scaled"}, arch : {"avx2", "neon"}, n : {64, 67}, seed : 1..3, scale : {1}, threshold : {300, 900, 1500, 2500}]
  \cup [op : {"sum"}, arch : Archs, n : 0..33, seed : 0..3]
  \cup [op : {"batch"}, arch : Archs, dsub : 1..9, ksub : {1, 7, 8, 9}, seed : 1..3]
  \cup [op : {"table"}, arch : Archs, m : 1..17, ksub : {2, KSub}, seed : 1..3]
  \cup [op : {"rank"}, arch : Archs, metric : Metrics, n : {1, 8, 11}, query : 0..2, vector : 0..3]

\* Layouts by name: 4-bit with a lone last nibble, uniform, and 8-bit with uneven chunks.
Layouts ==
  {Codec!NewQuantizer(5, 4, <<0, 2, 4, 5>>), Codec!NewQuantizer(2, 4, <<0, 1, 2>>),
   Codec!NewQuantizer(9, 8, <<0, 5, 9>>), Codec!NewQuantizer(4, 8, <<0, 4>>), Codec!NewQuantizer(3, 8, <<0, 1, 3>>)}

CodecCalls ==
  [op : {"balanced"}, d : 1..9, m : 1..9]
  \cup [op : {"offsets"}, d : 0..3, nbits : {4, 5}, offsets : UNION {[1..n -> 0..3] : n \in 0..3}]
  \cup [op : {"argmin"}, scores : [1..8 -> {1, 2, NaN}]]
  \cup [op : {"argmin"}, scores : [1..8 -> {1, NaN, Infinity}]]
  \cup [op : {"kernel"}, arch : Archs, dsub : 4..6, x : 1..6, book : 1..6]
  \cup [op : {"encode"}, arch : Archs, pq : Layouts, x : 1..3, old : 1..2, book : 2..3, n : {1, 5}, workers : {0, 2}]
  \cup [op : {"lookup"}, arch : Archs, pq : Layouts, x : 1..4, y : 2..3, book : 1..3]

\* Distance tables: spread, all negative, and constant.
TableOf(seed, n) == IF seed = 0 THEN [i \in 1..n |-> 5] ELSE [i \in 1..n |-> ((seed * i * i + 5 * i) % 17) - 8 * seed + 8]

\* Codes by row and chunk.
CodeOf(seed, row, sub) == (seed * row + row * sub + sub + 3 * seed) % 4

Ids(n) == [i \in 1..n |-> 100 + i]
Filters(n) == {None, {}, {102}, {101, 100 + n}, {100 + i : i \in {j \in 1..n : j % 2 = 0}}, 101..(100 + n)}

Uniform == {NewQuantizer(4, 8, <<0, 2, 4>>), NewQuantizer(6, 4, <<0, 3, 6>>)}

Steps == [list : 0..1, oversized : BOOLEAN]

ScanCalls ==
  [op : {"rows"}, n : 0..7, filter : SUBSET (101..107)]
  \cup {c \in [op : {"scan8"}, arch : Archs, transposed : BOOLEAN, m : {1, 5}, n : {1, 4, 7, 8, 11, 16},
               filter : UNION {Filters(n) : n \in {1, 4, 7, 8, 11, 16}}, seed : 1..2, dis0 : {0, 7}] :
          c.filter \in Filters(c.n)}
  \cup {c \in [op : {"scan4"}, arch : Archs, layout : {"rows", "columns", "blocks"}, m : {2, 4, 6},
               n : {1, 5, 6, 8, 9, 13}, filter : UNION {Filters(n) : n \in {1, 5, 6, 8, 9, 13}}, seed : 0..2] :
          c.filter \in Filters(c.n)}
  \cup [op : {"tables"}, arch : Archs, pq : Uniform, book : 1..2, q : 1..4, c : 1..4]
  \cup [op : {"range"}, arch : Archs, pq : Uniform, transposed : BOOLEAN,
        metric : {"L2", "InnerProduct", "Cosine"}, residual : BOOLEAN, index : 0..1, steps : [1..3 -> Steps]]

ScalarMetrics == {"L2", "IP", "Cosine"}

Spread(seed, d) == [i \in 1..d |-> ((seed * i * i + 3 * i + seed) % 13) - 6]

\* A quantizer with constant dimensions among others
Scalar(seed, d) ==
  LET mins == [i \in 1..d |-> -((seed + i) % 4)]
  IN  Quant!WithDimensionBounds(mins, [i \in 1..d |-> mins[i] + ((seed * i) % 7)])

CodeRow(seed, d) == [i \in 1..d |-> (seed * i + i * i) % (CodeMax + 1)]

ScalarCalls ==
  [op : {"residual"}, arch : Archs, d : {1, 3, 4, 7, 8, 9, 12, 15, 16, 17, 19, 20, 23}, sq : 1..5, row : 1..3, offset : 1..3]
  \cup [op : {"train"}, arch : Archs, d : 1..9, rows : UNION {[1..n -> 1..3] : n \in 0..3}, offset : 1..2]
  \cup [op : {"half"}, arch : Archs, d : {1, 3, 4, 7, 8, 9, 17}, sq : 1..6, row : 1..6]
  \cup [op : {"decode"}, arch : Archs, d : {1, 7, 8, 9, 16, 19}, sq : 1..6, code : 1..4, offset : 0..2]
  \cup [op : {"row"}, arch : Archs, d : {1, 7, 8, 9, 17}, sq : 1..6, code : 1..3, offset : 0..2, query : 0..3, metric : ScalarMetrics]
  \cup [op : {"blocked"}, arch : Archs, d : {1, 3, 9}, sq : 1..3, count : {0, 1, 3, 4, 5, 9}, offset : 1..2, query : 1..2,
        metric : ScalarMetrics, block : {3, BlockSize}, cutoff : {0, 20, 60, 100, 200, 99999}]

Vec(n, S) == [1..n -> S]
Draws == {d \in [1..4 -> 1..4] : \A i \in 1..4 : d[i] <= i}
SignChoices == {<<FALSE, TRUE, TRUE, FALSE>>, <<TRUE, FALSE, FALSE, FALSE>>}

RotatedCalls ==
  [op : {"rotate"}, signs : SignChoices, draws : Draws, x : Vec(3, {0, 1, -2}), y : {<<1, 2, -1>>, <<0, 1, 1>>}]
  \cup [op : {"code"}, bits : 1..3, residual : Vec(4, {-3, -1, 0, 2}), query : {<<1, -2, 3, 5>>, <<0, 4, -1, 2>>}]
  \cup [op : {"fastscan"}, query : Vec(4, {-5, 0, 2, 7}), bytes : Vec(1, 0..15)]
  \cup [op : {"accumulate"}, planeSize : {8, 120, 121, 128, 240, 264}, high : {0, 254, 255}, low : {255}]
  \cup [op : {"bound"}, bits : 1..2, metric : Metrics, residual : Vec(2, -2..2), centroid : Vec(2, {-1, 0, 2}),
        query : Vec(2, {-2, 0, 1})]

Init ==
  /\ \/ call \in VectorCalls \/ call \in CodecCalls \/ call \in ScanCalls
     \/ call \in ScalarCalls \/ call \in RotatedCalls
  /\ done = FALSE
Evaluate == ~done /\ done' = TRUE /\ UNCHANGED call
Finished == done /\ UNCHANGED vars
Next == Evaluate \/ Finished
Spec == Init /\ [][Next]_vars

Op(op) == done /\ call.op = op

\* The sum of n terms.
Total(n, terms) == LET s[i \in 0..n] == IF i = 0 THEN 0 ELSE s[i - 1] + terms[i] IN s[n]

------------------------------------------------------------------------------
(* The kernels                                                                  *)

A == V(call.seed, call.n)
B == V(call.seed + 2, call.n)

\* fvec_l2sqr_unless_exceeds gives the very value of fvec_l2sqr, to the last bit, when
\* that value is within the threshold, and None exactly when it is above it: no probe of
\* a partial sum, in any build and at any length, abandons a vector it should keep.
UnlessExceedsIsExact ==
  Op("cut") =>
    LET d == FvecL2sqr(call.arch, A, B)
        cut == FvecL2sqrUnlessExceeds(call.arch, A, B, call.threshold)
    IN  IF call.threshold = Infinity THEN cut = d
        ELSE cut = IF call.threshold < 0 \/ d > call.threshold THEN None ELSE d

\* Each distance of fvec_l2sqr_four has the bits fvec_l2sqr gives for that candidate,
\* so batching four candidates changes no pruning decision.
FourIsFourTimesOne ==
  Op("sum") =>
    LET cs == [c \in 1..4 |-> V(c, call.n)]
    IN  FvecL2sqrFour(call.arch, A, cs) = [c \in 1..4 |-> FvecL2sqr(call.arch, A, cs[c])]

\* fvec_l2sqr_scaled_exceeds decides scale * distance > threshold, whichever block,
\* register or tail element passes the threshold first.
ScaledExceedsDecides ==
  Op("scaled") =>
    (Exact!FvecL2sqrScaledExceeds(call.arch, A, B, call.scale, call.threshold)
       <=> call.scale * Total(call.n, [i \in 1..call.n |-> (A[i] - B[i]) * (A[i] - B[i])]) > call.threshold)

\* In exact arithmetic every build of every kernel computes its formula: no lane is
\* dropped between the body and the tail, and none is counted twice.
KernelsComputeTheirSums ==
  Op("sum") =>
    /\ Exact!FvecL2sqr(call.arch, A, B) = Total(call.n, [i \in 1..call.n |-> (A[i] - B[i]) * (A[i] - B[i])])
    /\ Exact!FvecInnerProduct(call.arch, A, B) = Total(call.n, [i \in 1..call.n |-> A[i] * B[i]])
    /\ Exact!FvecNormL2sqr(call.arch, A) = Total(call.n, [i \in 1..call.n |-> A[i] * A[i]])
    /\ Exact!FvecMadd(call.arch, A, B, -2) = [i \in 1..call.n |-> A[i] - 2 * B[i]]

\* The expanded form |q|^2 + |c|^2 - 2 q.c and the direct form give the same distances
\* in exact arithmetic, and neither gives a negative one after rounding.
BatchIsDistance ==
  Op("batch") =>
    LET q == V(call.seed, call.dsub)
        cs == V(call.seed, call.dsub * call.ksub)
        at(j, i) == cs[(j - 1) * call.dsub + i]
    IN  /\ \A j \in 1..call.ksub : FvecL2sqrBatch(call.arch, q, cs, call.dsub, call.ksub)[j] >= 0
        /\ Exact!FvecL2sqrBatch(call.arch, q, cs, call.dsub, call.ksub)
             = [j \in 1..call.ksub |-> Total(call.dsub, [i \in 1..call.dsub |-> (q[i] - at(j, i)) * (q[i] - at(j, i))])]

\* The gathered lookups, the four-code lookup and the scalar loop read the same table
\* entries for a code, at every number of subquantizers.
LookupsAgree ==
  Op("table") =>
    LET table == V(call.seed, call.m * call.ksub)
        codes == [i \in 1..(4 * call.m) |-> (call.seed * i + i \div 3) % call.ksub]
        row(j) == SubSeq(codes, j * call.m + 1, (j + 1) * call.m)
        direct(j) == Total(call.m, [i \in 1..call.m |-> table[(i - 1) * call.ksub + row(j)[i] + 1]])
    IN  /\ \A j \in 0..3 : Exact!PqDistanceFromTable(call.arch, table, row(j), call.m, call.ksub) = direct(j)
        /\ Exact!PqDistanceFourCodes(table, codes, call.m, call.ksub, [j \in 1..4 |-> (j - 1) * call.m])
             = [j \in 1..4 |-> direct(j - 1)]

\* A prepared query ranks a vector as fvec_distance does, with the vector's norm cached
\* or not; a zero vector is at cosine distance one.
PreparedQueryRanks ==
  Op("rank") =>
    LET q == V(call.query, call.n)
        v == V(call.vector, call.n)
        norm == Total(call.n, [i \in 1..call.n |-> v[i] * v[i]])
        qNorm == Total(call.n, [i \in 1..call.n |-> q[i] * q[i]])
        cosine == IF norm = 0 \/ qNorm = 0 THEN [ip |-> 0, norms |-> 1]
                  ELSE [ip |-> Total(call.n, [i \in 1..call.n |-> q[i] * v[i]]), norms |-> norm * qNorm]
        prepared == Exact!QueryDistance(call.arch, q, call.metric)
    IN  /\ FvecDistancesBatch(call.arch, q, v, 1, call.n, call.metric)
             = <<FvecDistance(call.arch, q, v, call.metric)>>
        /\ \A cached \in {None, norm} :
             Exact!DistanceTo(call.arch, prepared, v, cached) = Exact!FvecDistance(call.arch, q, v, call.metric)
        /\ call.metric = "Cosine" => Exact!FvecDistance(call.arch, q, v, call.metric) = cosine

------------------------------------------------------------------------------
(* The codec of the product quantizer                                           *)

Book(seed) == V(seed, call.pq.d * Codec!Ksub(call.pq))

\* The component of a codebook: chunk sub, centroid j, component k.
At(book, sub, j, k) == book[call.pq.offsets[sub + 1] * Codec!Ksub(call.pq) + j * Codec!ChunkDim(call.pq, sub) + k]

\* The first nearest centroid of each chunk, by its definition.
Nearest(book, x) ==
  [s \in 1..Codec!M(call.pq) |->
     LET dist(j) == Total(Codec!ChunkDim(call.pq, s - 1), [k \in 1..Codec!ChunkDim(call.pq, s - 1) |->
                            LET e == x[call.pq.offsets[s] + k] - At(book, s - 1, j, k) IN e * e])
         all == [j \in 0..(Codec!Ksub(call.pq) - 1) |-> dist(j)]
     IN  CHOOSE j \in DOMAIN all : \A i \in DOMAIN all : all[j] < all[i] \/ (all[j] = all[i] /\ j <= i)]

\* A balanced layout partitions the components into chunks that differ by at most one,
\* the wider first, and is a layout the loader accepts (with_nbits_balanced,
\* try_with_chunk_offsets).
BalancedLayoutPartitions ==
  Op("balanced") =>
    (call.m <= call.d =>
      LET pq == Codec!WithNbitsBalanced(call.d, call.m, 4)
          dims == [s \in 0..(call.m - 1) |-> Codec!ChunkDim(pq, s)]
      IN  /\ Codec!TryWithChunkOffsets(call.d, 4, pq.offsets) = pq
          /\ \A s, t \in DOMAIN dims : s <= t => dims[s] - dims[t] \in {0, 1}
          /\ (call.d % call.m = 0 => pq = Codec!WithNbits(call.d, call.m, 4)))

\* The loader accepts exactly the offsets whose chunks are nonempty and cover 0..d
\* (try_with_chunk_offsets).
OffsetsAcceptedPartition ==
  Op("offsets") =>
    ((Codec!TryWithChunkOffsets(call.d, call.nbits, call.offsets) # None)
       <=> /\ call.nbits = 4 /\ Len(call.offsets) >= 2
           /\ \A v \in 0..(call.d - 1) :
                Cardinality({i \in 1..(Len(call.offsets) - 1) : call.offsets[i] <= v /\ v < call.offsets[i + 1]}) = 1
           /\ \A i \in 1..(Len(call.offsets) - 1) : call.offsets[i] \in 0..(call.d - 1) /\ call.offsets[i + 1] \in 1..call.d
           /\ \A i \in 1..(Len(call.offsets) - 1) : call.offsets[i] < call.offsets[i + 1])

\* Every SIMD argmin picks the centroid the scalar loop picks: the first of the smallest,
\* never a NaN, and zero when no score is below f32::MAX (score_argmin_*).
ArgminLanesAgree ==
  /\ Op("argmin") => \A width \in {4, 8} : Codec!LaneArgmin(call.scores, width) = Codec!ArgminCode(call.scores)
  /\ Op("kernel") =>
       LET q == V(call.x, call.dsub)
           t == V(call.book, call.dsub * 16)
       IN  Codec!ScoreArgmin(call.arch, q, t, 16) = Codec!ScoreArgminScalar(q, t, 16)

\* A batch is encoded with the codebook that is set now, even when the lazy transpose was
\* built for an earlier one, and a row's code depends neither on the block it falls in nor
\* on the number of workers (encode_batch_blocked, set_centroids).
BatchUsesCurrentCodebook ==
  Op("encode") =>
   \E old \in {ExactCodec!TrySetCentroids(call.arch, call.pq, Book(call.old))} :
   \E data \in {V(call.x, call.n * call.pq.d)} :
   \E warmed \in {ExactCodec!EncodeBatchBlocked(call.arch, old, data, call.n, call.workers).pq} :
   \E new \in {ExactCodec!TrySetCentroids(call.arch, warmed, Book(call.book))} :
    LET codes == ExactCodec!EncodeBatchBlocked(call.arch, new, data, call.n, call.workers).codes
        row(i) == SubSeq(data, (i - 1) * call.pq.d + 1, i * call.pq.d)
        nearest(i) == Nearest(Book(call.book), row(i))
        low(c, p) == c[2 * p - 1]
        high(c, p) == IF 2 * p <= Codec!M(call.pq) THEN c[2 * p] ELSE 0
    IN  codes = [i \in 1..call.n |->
                   IF call.pq.nbits = 8 THEN nearest(i)
                   ELSE LET c == nearest(i)
                        IN  [p \in 1..((Codec!M(call.pq) + 1) \div 2) |-> low(c, p) + 16 * high(c, p)]]

\* The canonical encoder and the blocked one agree in exact arithmetic, and decoding a code
\* gives, chunk by chunk, the nearest centroid (encode, decode).
DecodeIsNearest ==
  Op("lookup") =>
   \E pq \in {ExactCodec!TrySetCentroids(call.arch, call.pq, Book(call.book))} :
   \E x \in {V(call.x, call.pq.d)} :
   \E near \in {Nearest(Book(call.book), x)} :
    LET sub(i) == CHOOSE s \in 0..(Codec!M(pq) - 1) : pq.offsets[s + 1] < i /\ i <= pq.offsets[s + 2]
    IN  ExactCodec!Decode(pq, ExactCodec!Encode(call.arch, pq, x))
          = [i \in 1..pq.d |-> At(Book(call.book), sub(i), near[sub(i) + 1], i - pq.offsets[sub(i) + 1])]

\* Summing a distance table over a code gives the distance from the query to the vector the
\* code stands for, for every metric and layout (compute_distance_table,
\* distance_from_table); no L2 entry is negative after rounding.
TableGivesDecodedDistance ==
  Op("lookup") =>
   \E pq \in {ExactCodec!TrySetCentroids(call.arch, call.pq, Book(call.book))} :
   \E near \in {Nearest(Book(call.book), V(call.x, pq.d))} :
    LET codes == IF pq.nbits = 8 THEN near
                 ELSE [p \in 1..((Codec!M(pq) + 1) \div 2) |-> near[2 * p - 1] + 16 * IF 2 * p <= Codec!M(pq) THEN near[2 * p] ELSE 0]
        sub(i) == CHOOSE s \in 0..(Codec!M(pq) - 1) : pq.offsets[s + 1] < i /\ i <= pq.offsets[s + 2]
        v == [i \in 1..pq.d |-> At(Book(call.book), sub(i), near[sub(i) + 1], i - pq.offsets[sub(i) + 1])]
        q == V(call.y, pq.d)
        ip == Total(pq.d, [i \in 1..pq.d |-> q[i] * v[i]])
        sum(table) == ExactCodec!DistanceFromTable(call.arch, pq, table, codes)
    IN  /\ sum(ExactCodec!ComputeDistanceTable(call.arch, pq, q, "L2")) = Total(pq.d, [i \in 1..pq.d |-> (q[i] - v[i]) * (q[i] - v[i])])
        /\ sum(ExactCodec!ComputeDistanceTable(call.arch, pq, q, "InnerProduct")) = -ip
        /\ sum(ExactCodec!ComputeInnerProductTable(call.arch, pq, q)) = ip
        /\ \E rounded \in {Codec!TrySetCentroids(call.arch, call.pq, Book(call.book))} :
             \A entry \in Range(Codec!ComputeDistanceTable(call.arch, rounded, q, "Cosine")) : entry >= 0

------------------------------------------------------------------------------
(* The scans of a list                                                          *)

\* The rows that pass a filter, in order.
Passing(ids, filter) ==
  SelectSeq([i \in 1..Len(ids) |-> i - 1], LAMBDA p : IF filter = None THEN TRUE ELSE ids[p + 1] \in filter)

\* What a scan has to push when row p is at dist(p).
Expected(ids, filter, dist(_)) ==
  LET rows == Passing(ids, filter) IN [i \in 1..Len(rows) |-> [dist |-> dist(rows[i]), id |-> ids[rows[i] + 1]]]

\* A layout of bytes(row, column) in `columns` columns.
Laid(n, columns, transposed, byte(_, _)) ==
  [i \in 1..(n * columns) |->
     IF transposed THEN byte((i - 1) % n, (i - 1) \div n) ELSE byte((i - 1) \div columns, (i - 1) % columns)]

\* The rows a filter lets through are the same, in the same order, as positions and as a
\* bitmap, and membership agrees with them, whatever the length of the list
\* (matching_rows, MatchingRowIter, contains).
RowsAreTheFiltered ==
  Op("rows") =>
    LET ids == Ids(call.n)
        rows == MatchingRows(ids, call.filter)
    IN  /\ Positions(rows) = Passing(ids, call.filter)
        /\ RowCount(rows) = Len(Positions(rows))
        /\ \A p \in 0..(call.n + WordBits) :
             RowsContain(rows, p) <=> (p < call.n /\ (100 + p + 1) \in call.filter)

\* An 8-bit scan pushes every row that passes, once, at the sum of its table entries:
\* dense or sparse, by fours or by columns, whatever the filter and the length
\* (scan_codes_batched, scan_codes_transposed_with_scratch).
EightBitScanIsExact ==
  Op("scan8") =>
    LET table == TableOf(call.seed, call.m * KSub)
        codes == Laid(call.n, call.m, call.transposed, LAMBDA row, sub : CodeOf(call.seed, row, sub))
        pq == NewQuantizer(call.m, 8, [c \in 1..(call.m + 1) |-> c - 1])
        ids == Ids(call.n)
        rows == Exact!MatchingRows(ids, call.filter)
    IN  Exact!ScanReaderCodes(call.arch, pq, table, codes, ids, call.transposed, call.dis0, rows)
          = Expected(ids, call.filter, LAMBDA p :
              call.dis0 + Total(call.m, [s \in 1..call.m |-> table[(s - 1) * KSub + CodeOf(call.seed, p, s - 1) + 1]]))

\* With rounding too, a filter only selects among the results of a column scan: it changes
\* no distance, though sparse filters take another loop (scan_codes_transposed_with_scratch).
FilterChangesNoDistance ==
  Op("scan8") /\ call.transposed =>
    LET table == TableOf(call.seed, call.m * KSub)
        codes == Laid(call.n, call.m, TRUE, LAMBDA row, sub : CodeOf(call.seed, row, sub))
        ids == Ids(call.n)
        all == ScanCodesTransposed(table, codes, ids, call.m, KSub, call.dis0, None)
        some == ScanCodesTransposed(table, codes, ids, call.m, KSub, call.dis0, MatchingRows(ids, call.filter))
    IN  some = SelectSeq(all, LAMBDA r : IF call.filter = None THEN TRUE ELSE r.id \in call.filter)

Scan4(table, pq, ids, rows) ==
  LET cs == call.m \div 2
      byte(row, pair) == CodeOf(call.seed, row, 2 * pair) + 16 * CodeOf(call.seed, row, 2 * pair + 1)
      codes == Laid(call.n, cs, call.layout = "columns", byte)
      dists == Exact!Fastscan4bit(call.arch, table, Exact!PackCodesBlockLayout(codes, call.n, cs), call.n, call.m)
  IN  IF call.layout = "blocks" THEN Exact!PushSelected(ids, rows, LAMBDA p : dists[p + 1])
      ELSE Exact!ScanReaderCodes(call.arch, pq, table, codes, ids, call.layout = "columns", 0, rows)

\* A 4-bit scan of any layout pushes every row that passes, once: the first FLAT_NUM rows
\* exactly, a later one below its distance by less than one quantisation step per chunk,
\* and every row exactly when a sum of bytes could overflow its accumulator
\* (scan_4bit_simd, scan_codes_4bit_transposed, fastscan_4bit).
FourBitScanWithinAStep ==
  Op("scan4") =>
   \E table \in {TableOf(call.seed, call.m * KSub4)}, ids \in {Ids(call.n)} :
   \E pq \in {NewQuantizer(call.m, 4, [c \in 1..(call.m + 1) |-> c - 1])} :
   \E got \in {Scan4(table, pq, ids, Exact!MatchingRows(ids, call.filter))} :
    LET want == Expected(ids, call.filter, LAMBDA p :
                  ByteMax * Total(call.m, [s \in 1..call.m |-> table[(s - 1) * KSub4 + CodeOf(call.seed, p, s - 1) + 1]]))
        entries == {table[i] : i \in DOMAIN table}
        spread == CHOOSE w \in {a - b : a, b \in entries} : \A a, b \in entries : a - b <= w
    IN  /\ Len(got) = Len(want)
        /\ \A i \in DOMAIN want :
             LET below == want[i].dist - got[i].dist
             IN  /\ got[i].id = want[i].id
                 /\ below >= 0 /\ (below = 0 \/ below < call.m * spread)
                 /\ (got[i].id - 100 <= FlatNum \/ call.m * ByteMax > AccumulatorMax => below = 0)

\* The block layout loses no byte (pack_codes_block_layout, unpack_codes_block_layout).
BlockLayoutRoundTrips ==
  Op("scan4") =>
    LET cs == call.m \div 2
        codes == [i \in 1..(call.n * cs) |-> i]
        packed == PackCodesBlockLayout(codes, call.n, cs)
    IN  /\ UnpackCodesBlockLayout(packed, call.n, cs) = codes
        /\ {i \in DOMAIN packed : packed[i] # 0} = {i \in DOMAIN packed : \E j \in DOMAIN codes : packed[i] = codes[j]}
        /\ Len(packed) = cs * Bbs * ((call.n + Bbs - 1) \div Bbs)

\* The distance from a query to the row a code stands for, by its definition.
Reached(pq, book, q, c, code, metric) ==
  LET sub(i) == (i - 1) \div Dsub(pq)
      v == [i \in 1..pq.d |-> c[i] + book[(sub(i) * Ksub(pq) + code[sub(i) + 1]) * Dsub(pq) + ((i - 1) % Dsub(pq)) + 1]]
  IN  IF metric = "InnerProduct" THEN -Total(pq.d, [i \in 1..pq.d |-> q[i] * v[i]])
      ELSE Total(pq.d, [i \in 1..pq.d |-> (q[i] - v[i]) * (q[i] - v[i])])

Zero(n) == [i \in 1..n |-> 0]

\* Every way to a residual distance reaches the same distance: the table of the residual,
\* the precomputed table with the coarse distance added, and the stable tables a batch
\* shares (fill_reader_sim_table, build_precomputed_table, compute_precomputed_table,
\* combine_stable_ephemeral_tables).
TablesReachOneDistance ==
  Op("tables") =>
   \E book \in {V(call.book, call.pq.d * Ksub(call.pq))} :
   \E pq \in {Exact!TrySetCentroids(call.arch, call.pq, book)} :
   \E q \in {V(call.q, pq.d)}, c \in {V(call.c + 2, pq.d)} :
   \E ipTable \in {Exact!ComputeInnerProductTable(call.arch, pq, q)} :
    LET coarse == Total(pq.d, [i \in 1..pq.d |-> (q[i] - c[i]) * (q[i] - c[i])])
        fill(precomputed) == Exact!FillReaderSimTable(call.arch, pq, q, "L2", TRUE, c, precomputed, ipTable)
        direct == fill(None)
        index == fill(Exact!PrecomputedListTable(call.arch, pq, c))
        reader == fill(Exact!ReaderPrecomputedTable(call.arch, pq, c))
        stable == Exact!CombineStableTables(pq, Exact!FillStableListTable(pq, c, Exact!StablePqNorms(pq)),
                                            Exact!FillStableQueryTable(pq, q), q, c)
        sum(table, code) == Total(M(pq), [s \in 1..M(pq) |-> table[(s - 1) * Ksub(pq) + code[s] + 1]])
    IN  \A code \in [1..M(pq) -> 0..(Ksub(pq) - 1)] :
          LET d == Reached(pq, book, q, c, code, "L2")
          IN  /\ sum(direct, code) = d /\ sum(stable, code) = d
              /\ coarse + sum(index, code) = d /\ coarse + sum(reader, code) = d

\* A range query's cached table is never served for a list it was not built for: whatever
\* the order of streamed and batched lists, every row is collected at its own distance
\* (scan_pq_range_list, build_pq_range_table).
RangeTablesFollowTheList ==
  Op("range") =>
   \E book \in {V(1, call.pq.d * Ksub(call.pq))} :
   \E pq \in {Exact!TrySetCentroids(call.arch, call.pq, book)} :
   \E q \in {V(2, pq.d)}, c \in {[list \in 0..1 |-> IF call.residual THEN V(list + 3, pq.d) ELSE None]} :
   \E code \in {[list \in 0..1 |-> [row \in 0..2 |-> [s \in 1..M(pq) |-> CodeOf(list + 1, row, s - 1)]]]} :
    LET ids == Ids(3)
        byte(list, row, col) == IF pq.nbits = 8 THEN code[list][row][col + 1]
                                ELSE code[list][row][2 * col + 1] + 16 * code[list][row][2 * col + 2]
        codes(list) == Laid(3, IF pq.nbits = 8 THEN M(pq) ELSE M(pq) \div 2, call.transposed,
                            LAMBDA row, col : byte(list, row, col))
        limit(step) == IF ~step.oversized /\ call.residual /\ call.metric # "InnerProduct" THEN 0
                       ELSE Exact!PqRangeCacheQueryLimit(pq, M(pq) * Ksub(pq) * 4 + 1)
        scan(query, step) ==
          Exact!ScanPqRangeQuery(call.arch, pq, query, step.list, c[step.list], ids, codes(step.list),
                                 call.transposed, None, limit(step))
        wanted(step) ==
          [r \in 1..3 |-> [id |-> ids[r],
                           dist |-> Reached(pq, book, q, IF call.residual THEN c[step.list] ELSE Zero(pq.d),
                                            code[step.list][r - 1], call.metric)]]
        r[i \in 0..3] ==
          IF i = 0 THEN [query |-> [index |-> call.index, vector |-> q, metric |-> call.metric, table |-> <<>>,
                                    tableList |-> None], pushes |-> <<>>]
          ELSE scan(r[i - 1].query, call.steps[i])
    IN  \A i \in 1..3 : r[i].pushes = wanted(call.steps[i])

------------------------------------------------------------------------------
(* The scalar quantizer                                                         *)

SpreadOrZero(seed, d) == IF seed = 0 THEN [i \in 1..d |-> 0] ELSE Spread(seed, d)

\* What a code stands for, in units of ExactQuant
Meaning(sq, code, offset) ==
  [i \in DOMAIN code |-> (sq.mins[i] + offset[i]) * 60 + code[i] * (sq.maxs[i] - sq.mins[i]) * (60 \div CodeMax)]

ExactDistance(metric, query, values) ==
  LET dot == Quant!SumTo(Len(query), [i \in 1..Len(query) |-> query[i] * values[i]])
      norms == Quant!SumTo(Len(query), [i \in 1..Len(query) |-> query[i] * query[i]]) * Quant!SumTo(Len(query), [i \in 1..Len(query) |-> values[i] * values[i]])
  IN  IF metric = "L2" THEN Quant!SumTo(Len(query), [i \in 1..Len(query) |-> (query[i] * 60 - values[i]) * (query[i] * 60 - values[i])])
      ELSE IF metric = "IP" THEN -dot
      ELSE IF norms > 0 THEN <<dot, norms>> ELSE <<0, 0>>

\* Encoding the rows of a partition straight from the data gives the codes that
\* encode_batch gives for the materialised residuals, in every build and for every
\* dimension, although a quotient is rounded differently in a register and in the
\* scalar tail ("Keep the same four-dimension SIMD boundary as encode_batch").
ResidualCodesMatchBatch ==
  Op("residual") =>
    LET sq == Scalar(call.sq, call.d)
        data == [r \in 1..3 |-> Spread(r, call.d)]
        offset == Spread(call.offset, call.d)
    IN  Quant!EncodeResidualRows(call.arch, sq, data, <<call.row, 1>>, offset) =
          [n \in 1..2 |-> LET v == data[<<call.row, 1>>[n]]
                          IN  Quant!Encode(call.arch, sq, [i \in 1..call.d |-> v[i] - offset[i]])]

\* The bounds of a partition are the least and the greatest residual of its rows in
\* each dimension, and the global bounds span them; rows given twice change nothing.
\* A quantizer trained on no rows has the bounds of a new one.
BoundsAreTight ==
  Op("train") =>
    LET d == call.d
        data == [r \in 1..3 |-> Spread(r, d)]
        offset == Spread(call.offset, d)
        values(i) == {data[call.rows[n]][i] : n \in DOMAIN call.rows}
        least(S) == CHOOSE x \in S : \A y \in S : x <= y
        most(S) == CHOOSE x \in S : \A y \in S : x >= y
        trained == Quant!Train(call.arch, d, [n \in DOMAIN call.rows |-> data[call.rows[n]]])
        residual == Quant!TrainResidualRows(call.arch, data, call.rows, offset)
    IN  IF call.rows = <<>> THEN trained = Quant!NewQuantizer(d)
        ELSE /\ \A i \in 1..d : /\ trained.mins[i] = least(values(i)) /\ trained.maxs[i] = most(values(i))
                                /\ residual.mins[i] = least(values(i)) - offset[i]
                                /\ residual.maxs[i] = most(values(i)) - offset[i]
             /\ trained.min = least(UNION {values(i) : i \in 1..d})
             /\ trained.max = most(UNION {values(i) : i \in 1..d})

\* A value inside the bounds comes back within half a step of where it was, and one
\* outside comes back as the nearer bound, with the encoder and decoder of any build.
DecodedWithinHalfAStep ==
  Op("half") =>
    LET sq == Scalar(call.sq, call.d)
        v == Spread(call.row, call.d)
        back == ExactQuant!DecodeBatch(sq, ExactQuant!Encode(call.arch, sq, v))
    IN  \A i \in 1..call.d :
          LET range == sq.maxs[i] - sq.mins[i]
              error == back[i] - v[i] * 60
          IN  IF v[i] <= sq.mins[i] THEN back[i] = sq.mins[i] * 60
              ELSE IF v[i] >= sq.maxs[i] THEN back[i] = sq.maxs[i] * 60
              ELSE 2 * CodeMax * error <= range * 60 /\ -2 * CodeMax * error <= range * 60

\* Every decoder gives a code the same value: the register kernels with their scalar
\* tails, the table of decoded values and the plain loop, with the centroid added,
\* constant dimensions included.
DecodersAgree ==
  Op("decode") =>
    LET sq == Scalar(call.sq, call.d)
        code == CodeRow(call.code, call.d)
        offset == SpreadOrZero(call.offset, call.d)
        expected == Meaning(sq, code, offset)
    IN  /\ ExactQuant!DecodeBatchWithOffset(call.arch, sq, code, offset) = expected
        /\ \A i \in 1..call.d : ExactQuant!BuildDecodeLut(sq)[i][code[i]] + offset[i] * 60 = expected[i]
        /\ [i \in 1..call.d |-> ExactQuant!DecodeBatch(sq, code)[i] + offset[i] * 60] = expected

\* The distance of a query to a code is its distance to the decoded row, whichever
\* path computes it: a register kernel and its tail, the table, or the loop that
\* takes no offset; a zero vector has cosine distance 1.
RowDistancesAgree ==
  Op("row") =>
    LET sq == Scalar(call.sq, call.d)
        code == CodeRow(call.code, call.d)
        offset == SpreadOrZero(call.offset, call.d)
        query == SpreadOrZero(call.query, call.d)
        zero == SpreadOrZero(0, call.d)
        lut == ExactQuant!BuildDecodeLut(sq)
        expected == ExactDistance(call.metric, query, Meaning(sq, code, offset))
    IN  /\ ExactQuant!DistanceToCode(call.arch, sq, query, code, offset, TRUE, call.metric) = expected
        /\ ExactQuant!DistanceToCodeLut(lut, query, code, offset, TRUE, call.metric) = expected
        /\ \A get \in {ExactQuant!DistanceToCode(call.arch, sq, query, code, <<>>, FALSE, call.metric),
                       ExactQuant!DistanceToCodeLut(lut, query, code, <<>>, FALSE, call.metric)} :
             get = ExactDistance(call.metric, query, Meaning(sq, code, zero))

\* A blocked scan reports the distance of every row to its own code, in the whole
\* blocks and in the short last one; only an L2 row that is at the cutoff or beyond
\* may get a smaller number, and that number is still not below the cutoff.
BlockedDistancesDecide ==
  Op("blocked") =>
    LET d == call.d
        sq == Scalar(call.sq, d)
        offset == Spread(call.offset, d)
        query == Spread(call.query, d)
        code(r) == CodeRow(r * r + call.sq, d)
        limit == call.cutoff * 3600
        codes == [p \in 1..(call.count * d) |->
                    LET start == call.block * ((p - 1) \div (call.block * d))
                        len == IF call.count - start < call.block THEN call.count - start ELSE call.block
                        at == p - 1 - start * d
                    IN  code(start + (at % len) + 1)[(at \div len) + 1]]
        got == ExactQuant!DistancesToBlockedCodes(call.arch, sq, query, codes, call.count, offset, call.metric, call.block, limit)
    IN  /\ Len(got) = call.count
        /\ \A r \in 1..call.count :
             LET expected == ExactDistance(call.metric, query, Meaning(sq, code(r), offset))
             IN  \/ got[r] = expected
                 \/ call.metric = "L2" /\ got[r] >= limit /\ got[r] <= expected

------------------------------------------------------------------------------
(* RaBitQ                                                                       *)

\* A rotation of any number of rounds keeps inner products, up to the scaling of the
\* Hadamard passes: the sign masks, the butterflies and the shuffled permutation lose
\* nothing and mix nothing up (RQRotation::rotate).
RotationIsIsometry ==
  Op("rotate") =>
    LET round == [signs |-> call.signs, draws |-> call.draws]
        rounds == <<round, [round EXCEPT !.signs = <<TRUE, TRUE, FALSE, TRUE>>]>>
        r(v) == Quant!Rotate(rounds, v, Quant!PaddedDimension(Len(v)))
    IN  /\ {Quant!Permutation(call.draws)[i] : i \in 1..4} = 1..4
        /\ Quant!Dot(r(call.x), r(call.y)) = RotationBlock ^ 2 * Quant!Dot(call.x, call.y)

\* The first stored plane of a code is the sign of the residual at every width, so
\* the coarse estimate of a multi-bit code is that of the one-bit code; only a zero
\* residual has all-zero levels (quantize_centered_levels, encode_with_scratch).
CoarsePlaneIsSign ==
  Op("code") =>
    LET levels == Quant!QuantizeCenteredLevels(call.residual, call.bits)
        planes == Quant!RqEncode(levels, call.bits)
        flat == \A i \in 1..4 : call.residual[i] = 0
    IN  /\ \A i \in 1..4 : levels[i] \in 0..Quant!MaxCode(call.bits)
        /\ planes[1] = IF flat THEN 0 ELSE Quant!SumTo(4, [i \in 1..4 |-> IF call.residual[i] >= 0 THEN 2 ^ (i - 1) ELSE 0])

\* The byte tables and the weighted planes compute the inner product of the query
\* with the centred levels (full_inner_product over encode's code).
PlanesGiveInnerProduct ==
  Op("code") =>
    LET levels == Quant!QuantizeCenteredLevels(call.residual, call.bits)
    IN  Quant!FullInnerProduct(call.query, Quant!RqEncode(levels, call.bits), call.bits)
          = Quant!SumTo(4, [i \in 1..4 |-> call.query[i] * (2 * levels[i] - Quant!MaxCode(call.bits))])

\* The FastScan sum of any code is within fastscan_ip_error of the exact sum, which
\* is what lets scan_blocked_list prune with it (prepare_query).
FastScanWithinError ==
  Op("fastscan") =>
    LET tables == Quant!FastScanTables(call.query)
    IN  Quant!Abs(Quant!FastScanScalar(tables, call.bytes) - U8Max * Quant!UnsignedPlaneInnerProduct(call.query, call.bytes))
          <= tables.error

\* The u16 accumulators of the vector kernels never wrap, whatever the table holds
\* and however wide the plane: they agree with the scalar kernel's u32 sums.
AccumulatorsAreExact ==
  Op("accumulate") =>
    LET pairs == [b \in 1..call.planeSize |-> call.low + call.high]
    IN  Quant!FastScanVector(call.planeSize, pairs) = call.planeSize * (call.low + call.high)

\* The lower bound of a coarse or full estimate is a bound: the estimate is off from
\* the true distance by at most f_error * g_error, for every metric (compute_factors,
\* query_terms, estimate).
EstimateWithinBound ==
  Op("bound") =>
    LET levels == Quant!QuantizeCenteredLevels(call.residual, call.bits)
        code == Quant!Doubled(levels, call.bits)
        f == Quant!ComputeFactors(call.residual, call.centroid, code, call.metric)
        t == Quant!QueryTerms(call.query, call.centroid, call.metric)
        row == [i \in 1..2 |-> call.centroid[i] + call.residual[i]]
        gap == Quant!Sub(call.query, row)
        true2 == CASE call.metric = "L2" -> 2 * Quant!Dot(gap, gap)
                   [] call.metric = "Cosine" -> Quant!Dot(gap, gap)
                   [] call.metric = "InnerProduct" -> -2 * Quant!Dot(call.query, row)
        miss == Quant!Estimate2(f, t, Quant!Dot(call.query, code)) - true2 * f.den
    IN  miss * miss <= 4 * f.error2 * t.error2

------------------------------------------------------------------------------
(* What the run checks                                                          *)

\* Every build of every kernel and every scan of a list computes the distance its
\* formula defines: early abandonment, batching, tails, filters, cached tables and code
\* layouts change which instructions run, never which row is reported at which distance
\* (distance.rs, pq.rs, fastscan.rs, ivfpq.rs).
KernelsAgree ==
  /\ UnlessExceedsIsExact
  /\ FourIsFourTimesOne
  /\ ScaledExceedsDecides
  /\ KernelsComputeTheirSums
  /\ BatchIsDistance
  /\ LookupsAgree
  /\ PreparedQueryRanks
  /\ RowsAreTheFiltered
  /\ EightBitScanIsExact
  /\ FilterChangesNoDistance
  /\ FourBitScanWithinAStep
  /\ BlockLayoutRoundTrips
  /\ TablesReachOneDistance
  /\ RangeTablesFollowTheList

\* A code stands for what it was made from, within the quantizer's promise: the nearest
\* centroid of each chunk, a value within half a step, an estimate within its error
\* bound; and every encoder, decoder and distance of one quantizer agrees with the others
\* (pq.rs, sq.rs, rq.rs).
QuantizersAreFaithful ==
  /\ BalancedLayoutPartitions
  /\ OffsetsAcceptedPartition
  /\ ArgminLanesAgree
  /\ BatchUsesCurrentCodebook
  /\ DecodeIsNearest
  /\ TableGivesDecodedDistance
  /\ ResidualCodesMatchBatch
  /\ BoundsAreTight
  /\ DecodedWithinHalfAStep
  /\ DecodersAgree
  /\ RowDistancesAgree
  /\ BlockedDistancesDecide
  /\ RotationIsIsometry
  /\ CoarsePlaneIsSign
  /\ PlanesGiveInnerProduct
  /\ FastScanWithinError
  /\ AccumulatorsAreExact
  /\ EstimateWithinBound
==============================================================================

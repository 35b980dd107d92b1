-------------------------- MODULE ProductQuantizer ---------------------------
(* The distance kernels of src/core/src/distance.rs, in each of their builds:   *)
(* AVX2, NEON and scalar.  A kernel is a body over registers of lanes, a        *)
(* horizontal reduction and a scalar tail.  Numbers are integers that every     *)
(* operation rounds to Precision significant bits, so that two orders of the    *)
(* same sum differ, as they do in f32.  Positions count from 1.                 *)
(*                                                                              *)
(* Over them the product quantizer of pq.rs: its chunk layouts, the caches      *)
(* derived from its codebook, its encoders and its distance tables.  A          *)
(* quantizer is [d, nbits, offsets, centroids, norms, finite, transposed];      *)
(* chunks, rows and codes count from 0.                                         *)
(*                                                                              *)
(* And the scans of an IVF-PQ list over it (ivfpq.rs, fastscan.rs, distance.rs):*)
(* the rows a filter lets through, the scan of each code layout and width, and  *)
(* the ways a distance table is come by.  A scan is the sequence of its pushes, *)
(* [dist, id].  Distances of 4-bit scans are in units of 1 / ByteMax, so that   *)
(* quantised ones stay whole.                                                   *)
EXTENDS Integers, Sequences, SequencesExt, FiniteSets

CONSTANTS
  None, Infinity,
  Precision,     \* significant bits of a number
  ProbeStride,   \* L2_PROBE_STRIDE
  AbandonBlock,  \* elements between two tests of fvec_l2sqr_scaled_exceeds
  KSub,          \* the width of a table row the gather kernels take, 256
  NaN,
  KSub4,         \* ksub of a 4-bit quantizer, 16 (KSub is that of an 8-bit one)
  MaxBlockRows   \* MAX_ENCODE_BLOCK_ROWS

Abs(x) == IF x < 0 THEN -x ELSE x
Larger(x, y) == IF x > y THEN x ELSE y

\* The unit in the last place of a magnitude, and the multiple of it that is nearest.
Ulp(m) == 2 ^ Cardinality({k \in Precision..20 : m >= 2 ^ k})
ToUnits(m, ulp) == ((m + ulp \div 2) \div ulp) * ulp

\* Round to nearest, away from zero on a tie.
Rounded(x) == IF x < 0 THEN -ToUnits(-x, Ulp(-x)) ELSE ToUnits(x, Ulp(x))

Add(x, y) == Rounded(x + y)
Sub(x, y) == Rounded(x - y)
Mul(x, y) == Rounded(x * y)
Square(x) == Mul(x, x)

\* The loop over from + 1..to that takes `start` to step(... step(start, from + 1) ..., to).
Running(start, from, to, step(_, _)) ==
  LET r[i \in from..to] == IF i = from THEN start ELSE step(r[i - 1], i) IN r[to]

\* `start` and, one after the other, the terms at from + 1..to.
Summed(start, from, to, terms) ==
  LET s[i \in from..to] == IF i = from THEN start ELSE Add(s[i - 1], terms[i]) IN s[to]

------------------------------------------------------------------------------
(* Registers                                                                   *)

\* The lanes of an accumulator after `blocks` steps from position `from`.
LaneSums(from, blocks, width, terms) ==
  [lane \in 1..width |->
     Summed(0, 0, blocks, [b \in 1..blocks |-> terms[from + (b - 1) * width + lane]])]

\* The upper half added to the lower half, and every second lane to the one before it.
Folded(v, half) == [i \in 1..half |-> Add(v[i], v[i + half])]
Paired(v, half) == [i \in 1..half |-> Add(v[2 * i - 1], v[2 * i])]

HorizontalSumAvx2(v) == Folded(Folded(Folded(v, 4), 2), 1)[1]

\* vaddvq_f32 of the sum of two registers
HorizontalSumNeon(v) == Paired(Paired(Folded(v, 4), 2), 1)[1]

Reduce(arch, v) == IF arch = "avx2" THEN HorizontalSumAvx2(v) ELSE HorizontalSumNeon(v)

ScalarSum(n, terms) == Summed(0, 0, n, terms)

\* Body, reduction and tail of a sum of n terms.
SimdSum(arch, n, terms) ==
  Summed(Reduce(arch, LaneSums(0, n \div 8, 8, terms)), 8 * (n \div 8), n, terms)

\* Whether an input of n elements takes the register kernel.
TakesRegisters(arch, n) == arch = "neon" \/ (arch = "avx2" /\ n >= 8)

------------------------------------------------------------------------------
(* Squared distances                                                           *)

FvecL2sqrScalar(a, b) == ScalarSum(Len(a), [i \in 1..Len(a) |-> Square(Sub(a[i], b[i]))])
FvecL2sqrAvx2(a, b) == SimdSum("avx2", Len(a), [i \in 1..Len(a) |-> Square(Sub(a[i], b[i]))])
FvecL2sqrNeon(a, b) == SimdSum("neon", Len(a), [i \in 1..Len(a) |-> Square(Sub(a[i], b[i]))])

FvecL2sqr(arch, a, b) ==
  IF ~TakesRegisters(arch, Len(a)) THEN FvecL2sqrScalar(a, b)
  ELSE IF arch = "avx2" THEN FvecL2sqrAvx2(a, b) ELSE FvecL2sqrNeon(a, b)

\* Four candidates at once: one register (or scalar) of sums per candidate.
FvecL2sqrFourScalar(a, cs) ==
  Running(<<0, 0, 0, 0>>, 0, Len(a),
          LAMBDA sums, i : [c \in 1..4 |-> Add(sums[c], Square(Sub(a[i], cs[c][i])))])

FourRegisters(arch, a, cs) ==
  LET zero == [c \in 1..4 |-> [lane \in 1..8 |-> 0]]
      step(sums, b) == [c \in 1..4 |-> [lane \in 1..8 |->
        LET i == 8 * (b - 1) + lane IN Add(sums[c][lane], Square(Sub(a[i], cs[c][i])))]]
      sums == Running(zero, 0, Len(a) \div 8, step)
  IN  Running([c \in 1..4 |-> Reduce(arch, sums[c])], 8 * (Len(a) \div 8), Len(a),
              LAMBDA r, i : [c \in 1..4 |-> Add(r[c], Square(Sub(a[i], cs[c][i])))])

FvecL2sqrFourAvx2(a, cs) == FourRegisters("avx2", a, cs)

\* Faulty variant of FvecL2sqrFourNeon: the lanes are reduced in another order.
FourNeonOtherOrder(a, cs) == FourRegisters("avx2", a, cs)

FvecL2sqrFourNeon(a, cs) == FourRegisters("neon", a, cs)

FvecL2sqrFour(arch, a, cs) ==
  IF ~TakesRegisters(arch, Len(a)) THEN FvecL2sqrFourScalar(a, cs)
  ELSE IF arch = "avx2" THEN FvecL2sqrFourAvx2(a, cs) ELSE FvecL2sqrFourNeon(a, cs)

------------------------------------------------------------------------------
(* fvec_l2sqr_unless_exceeds: the distance, or None once it passes a threshold *)

Kept(d, threshold) == IF d > threshold THEN None ELSE d

\* Elements from + 1..to added to a sum, which is then tested.
Probed(sum, a, b, from, to, threshold) ==
  IF sum = None THEN None
  ELSE Kept(Summed(sum, from, to, [i \in 1..to |-> Square(Sub(a[i], b[i]))]), threshold)

FvecL2sqrUnlessExceedsScalar(a, b, threshold) ==
  LET n == Len(a)
      blocks == IF n = 0 THEN 0 ELSE (n - 1) \div ProbeStride
      body == Running(0, 0, blocks,
                      LAMBDA s, k : Probed(s, a, b, (k - 1) * ProbeStride, k * ProbeStride, threshold))
  IN  Probed(body, a, b, blocks * ProbeStride, n, threshold)

\* Faulty variant of UnlessExceedsRegisters: the sum is tested against the threshold
\* at the strides only.
UnlessExceedsStridesOnly(arch, a, b, threshold) ==
  LET n == Len(a)
      terms == [i \in 1..n |-> Square(Sub(a[i], b[i]))]
      partial(k) == Reduce(arch, LaneSums(0, k, 8, terms))
      strides == {k \in 1..(n \div 8) : (8 * k) % ProbeStride = 0}
  IN  IF \E k \in strides : partial(k) > threshold THEN None ELSE SimdSum(arch, n, terms)

\* The sum is read at stride boundaries, after the body, and after every tail element.
UnlessExceedsRegisters(arch, a, b, threshold) ==
  LET n == Len(a)
      body == n \div 8
      terms == [i \in 1..n |-> Square(Sub(a[i], b[i]))]
      partial(k) == Reduce(arch, LaneSums(0, k, 8, terms))
      strides == {k \in 1..body : (8 * k) % ProbeStride = 0}
  IN  IF \E k \in strides \cup {body} : partial(k) > threshold THEN None
      ELSE Running(partial(body), 8 * body, n, LAMBDA s, i : Probed(s, a, b, i - 1, i, threshold))

FvecL2sqrUnlessExceedsAvx2(a, b, threshold) == UnlessExceedsRegisters("avx2", a, b, threshold)
FvecL2sqrUnlessExceedsNeon(a, b, threshold) == UnlessExceedsRegisters("neon", a, b, threshold)

FvecL2sqrUnlessExceeds(arch, a, b, threshold) ==
  IF threshold = Infinity THEN FvecL2sqr(arch, a, b)
  ELSE IF threshold < 0 THEN None
  ELSE IF ~TakesRegisters(arch, Len(a)) THEN FvecL2sqrUnlessExceedsScalar(a, b, threshold)
  ELSE IF arch = "avx2" THEN FvecL2sqrUnlessExceedsAvx2(a, b, threshold)
  ELSE FvecL2sqrUnlessExceedsNeon(a, b, threshold)

------------------------------------------------------------------------------
(* fvec_l2sqr_scaled_exceeds: [total, over]                                    *)

\* Faulty variant of Accrued: the distance is compared before it is scaled.
AccruedUnscaled(state, added, scale, threshold) ==
  IF state.over THEN state
  ELSE LET total == Add(state.total, added) IN [total |-> total, over |-> total > threshold]

Accrued(state, added, scale, threshold) ==
  IF state.over THEN state
  ELSE LET total == Add(state.total, added) IN [total |-> total, over |-> Mul(scale, total) > threshold]

FvecL2sqrScaledExceedsScalar(a, b, scale, threshold) ==
  Running([total |-> 0, over |-> FALSE], 0, Len(a),
          LAMBDA s, i : Accrued(s, Square(Sub(a[i], b[i])), scale, threshold)).over

\* Blocks by four accumulators, the remaining registers as one block, then the tail.
\* An accumulator is `width` lanes and sees every fourth register of its block.
ScaledExceedsRegisters(arch, a, b, scale, threshold) ==
  LET n == Len(a)
      width == IF arch = "avx2" THEN 8 ELSE 4
      terms == [i \in 1..n |-> Square(Sub(a[i], b[i]))]
      rounds == AbandonBlock \div (4 * width)
      strided(from, k) ==
        [lane \in 1..width |->
           Summed(0, 0, rounds, [r \in 1..rounds |-> terms[from + (4 * (r - 1) + k - 1) * width + lane]])]
      four(from) ==
        LET v == [k \in 1..4 |-> strided(from, k)]
        IN  [lane \in 1..width |-> Add(Add(v[1][lane], v[2][lane]), Add(v[3][lane], v[4][lane]))]
      across(v) == IF arch = "avx2" THEN HorizontalSumAvx2(v) ELSE Paired(Paired(v, 2), 1)[1]
      blocks == n \div AbandonBlock
      rest == blocks * AbandonBlock
      registers == (n - rest) \div 8
      body == Running([total |-> 0, over |-> FALSE], 0, blocks,
                      LAMBDA s, k : Accrued(s, across(four((k - 1) * AbandonBlock)), scale, threshold))
      middle == Accrued(body, Reduce(arch, LaneSums(rest, registers, 8, terms)), scale, threshold)
  IN  Running(middle, rest + 8 * registers, n, LAMBDA s, i : Accrued(s, terms[i], scale, threshold)).over

FvecL2sqrScaledExceedsAvx2(a, b, scale, threshold) == ScaledExceedsRegisters("avx2", a, b, scale, threshold)
FvecL2sqrScaledExceedsNeon(a, b, scale, threshold) == ScaledExceedsRegisters("neon", a, b, scale, threshold)

FvecL2sqrScaledExceeds(arch, a, b, scale, threshold) ==
  \/ threshold < 0
  \/ IF ~TakesRegisters(arch, Len(a)) THEN FvecL2sqrScaledExceedsScalar(a, b, scale, threshold)
     ELSE IF arch = "avx2" THEN FvecL2sqrScaledExceedsAvx2(a, b, scale, threshold)
     ELSE FvecL2sqrScaledExceedsNeon(a, b, scale, threshold)

------------------------------------------------------------------------------
(* Inner products, norms, multiply-add                                         *)

FvecInnerProductScalar(a, b) == ScalarSum(Len(a), [i \in 1..Len(a) |-> Mul(a[i], b[i])])
FvecInnerProductAvx2(a, b) == SimdSum("avx2", Len(a), [i \in 1..Len(a) |-> Mul(a[i], b[i])])
FvecInnerProductNeon(a, b) == SimdSum("neon", Len(a), [i \in 1..Len(a) |-> Mul(a[i], b[i])])

FvecInnerProduct(arch, a, b) ==
  IF ~TakesRegisters(arch, Len(a)) THEN FvecInnerProductScalar(a, b)
  ELSE IF arch = "avx2" THEN FvecInnerProductAvx2(a, b) ELSE FvecInnerProductNeon(a, b)

FvecNormL2sqrScalar(a) == ScalarSum(Len(a), [i \in 1..Len(a) |-> Square(a[i])])
FvecNormL2sqrAvx2(a) == SimdSum("avx2", Len(a), [i \in 1..Len(a) |-> Square(a[i])])
FvecNormL2sqrNeon(a) == SimdSum("neon", Len(a), [i \in 1..Len(a) |-> Square(a[i])])

FvecNormL2sqr(arch, a) ==
  IF ~TakesRegisters(arch, Len(a)) THEN FvecNormL2sqrScalar(a)
  ELSE IF arch = "avx2" THEN FvecNormL2sqrAvx2(a) ELSE FvecNormL2sqrNeon(a)

\* Faulty variant of MaddRegisters: the tail is not written.
MaddBodyOnly(width, a, b, bf) ==
  [i \in 1..Len(a) |-> IF i <= width * (Len(a) \div width) THEN Add(a[i], Mul(bf, b[i])) ELSE 0]

\* Registers of `width` lanes are written whole, then the tail element by element.
MaddRegisters(width, a, b, bf) ==
  LET body == width * (Len(a) \div width)
  IN  [i \in 1..body |-> Add(a[i], Mul(bf, b[i]))]
        \o [i \in 1..(Len(a) - body) |-> Add(a[body + i], Mul(bf, b[body + i]))]

FvecMaddAvx2(a, b, bf) == MaddRegisters(8, a, b, bf)
FvecMaddNeon(a, b, bf) == MaddRegisters(4, a, b, bf)
FvecMaddScalar(a, b, bf) == [i \in 1..Len(a) |-> Add(a[i], Mul(bf, b[i]))]

FvecMadd(arch, a, b, bf) ==
  IF arch = "avx2" THEN FvecMaddAvx2(a, b, bf)
  ELSE IF arch = "neon" THEN FvecMaddNeon(a, b, bf) ELSE FvecMaddScalar(a, b, bf)

\* sgemm_a_bt of one row, alpha = 1 and beta = 0: k products of length d.  Its summation is
\* that of the matrixmultiply crate, taken here in the order of the elements; the shapes it
\* asserts are those of its callers.
SgemmRow(q, centroids, d, k) ==
  [j \in 1..k |-> ScalarSum(d, [i \in 1..d |-> Mul(q[i], centroids[(j - 1) * d + i])])]

FvecIpBatch(arch, q, centroids, dsub, ksub) ==
  IF dsub >= 4 /\ ksub >= 8 THEN SgemmRow(q, centroids, dsub, ksub)
  ELSE [j \in 1..ksub |-> FvecInnerProduct(arch, SubSeq(q, 1, dsub), SubSeq(centroids, (j - 1) * dsub + 1, j * dsub))]

\* Faulty variant of Clamped: a rounding error leaves a negative distance.
ClampedNever(d) == d

\* f32::max(0.0)
Clamped(d) == Larger(d, 0)

FvecL2sqrBatch(arch, q, centroids, dsub, ksub) ==
  LET centroid(j) == SubSeq(centroids, (j - 1) * dsub + 1, j * dsub)
      qNorm == FvecNormL2sqr(arch, SubSeq(q, 1, dsub))
      ip == FvecIpBatch(arch, q, centroids, dsub, ksub)
  IN  [j \in 1..ksub |->
         IF dsub >= 4 /\ ksub >= 8
         THEN Clamped(Sub(Add(qNorm, FvecNormL2sqr(arch, centroid(j))), Mul(2, ip[j])))
         ELSE FvecL2sqr(arch, SubSeq(q, 1, dsub), centroid(j))]

------------------------------------------------------------------------------
(* Table lookups: a code holds m bytes, counted from 0; a table row has ksub   *)

Entry(table, ksub, sub, code) == table[sub * ksub + code + 1]

PqDistanceScalar(table, codes, m, ksub) ==
  ScalarSum(m, [i \in 1..m |-> Entry(table, ksub, i - 1, codes[i])])

\* Gathered at 8 (AVX2) or 4 (NEON) subquantizers at a time.
PqDistanceAvx2(table, codes, m) ==
  SimdSum("avx2", m, [i \in 1..m |-> LET base == 8 * ((i - 1) \div 8)
                                  IN  table[base * KSub + ((i - 1) % 8) * KSub + codes[i] + 1]])

\* Faulty variant of PqDistanceNeon: the subquantizers after the last whole four are left out.
PqDistanceNeonNoTail(table, codes, m) ==
  Paired(Paired(LaneSums(0, m \div 4, 4, [i \in 1..m |-> Entry(table, KSub, i - 1, codes[i])]), 2), 1)[1]

PqDistanceNeon(table, codes, m) ==
  LET terms == [i \in 1..m |-> Entry(table, KSub, i - 1, codes[i])]
  IN  Summed(Paired(Paired(LaneSums(0, m \div 4, 4, terms), 2), 1)[1], 4 * (m \div 4), m, terms)

PqDistanceFromTable(arch, table, codes, m, ksub) ==
  IF arch = "avx2" /\ m >= 8 /\ ksub = KSub THEN PqDistanceAvx2(table, codes, m)
  ELSE IF arch = "neon" /\ m >= 4 /\ ksub = KSub THEN PqDistanceNeon(table, codes, m)
  ELSE PqDistanceScalar(table, codes, m, ksub)

PqDistanceFourCodes(table, codes, m, ksub, offsets) ==
  Running(<<0, 0, 0, 0>>, 0, m,
          LAMBDA d, i : [j \in 1..4 |-> Add(d[j], Entry(table, ksub, i - 1, codes[offsets[j] + i]))])

------------------------------------------------------------------------------
(* Ranking distances.  A cosine is kept as [ip, norms], the product of the two *)
(* squared norms standing for the product of the norms.                        *)

FvecCosineDistanceWithNorms(arch, a, b, aNorm, bNorm) ==
  IF aNorm * bNorm > 0 THEN [ip |-> FvecInnerProduct(arch, a, b), norms |-> aNorm * bNorm]
  ELSE [ip |-> 0, norms |-> 1]

FvecDistance(arch, query, vector, metric) ==
  CASE metric = "L2" -> FvecL2sqr(arch, query, vector)
    [] metric = "InnerProduct" -> -FvecInnerProduct(arch, query, vector)
    [] metric = "Cosine" -> FvecCosineDistanceWithNorms(arch, query, vector, FvecNormL2sqr(arch, query),
                                                        FvecNormL2sqr(arch, vector))

\* Faulty variant of QueryDistance: the query's norm is left at zero for cosine too.
QueryDistanceNoNorm(arch, query, metric) == [query |-> query, metric |-> metric, norm |-> 0]

\* QueryDistance::new
QueryDistance(arch, query, metric) ==
  [query |-> query, metric |-> metric,
   norm |-> IF metric = "Cosine" THEN FvecNormL2sqr(arch, query) ELSE 0]

\* QueryDistance::distance_to; vectorNorm is a cached norm or None.
DistanceTo(arch, q, vector, vectorNorm) ==
  CASE q.metric = "L2" -> FvecL2sqr(arch, q.query, vector)
    [] q.metric = "InnerProduct" -> -FvecInnerProduct(arch, q.query, vector)
    [] q.metric = "Cosine" ->
         FvecCosineDistanceWithNorms(arch, q.query, vector, q.norm,
                                     IF vectorNorm = None THEN FvecNormL2sqr(arch, vector) ELSE vectorNorm)

FvecDistancesBatch(arch, query, vectors, n, d, metric) ==
  [i \in 1..n |-> DistanceTo(arch, QueryDistance(arch, query, metric), SubSeq(vectors, (i - 1) * d + 1, i * d), None)]

------------------------------------------------------------------------------
(* The quantizer                                                               *)

Lesser(x, y) == IF x < y THEN x ELSE y
DivCeil(a, b) == (a + b - 1) \div b

------------------------------------------------------------------------------
(* Layouts                                                                     *)

KsubOf(nbits) == IF nbits = 4 THEN KSub4 ELSE KSub

\* with_validated_chunk_offsets
NewQuantizer(d, nbits, offsets) ==
  [d |-> d, nbits |-> nbits, offsets |-> offsets, centroids |-> <<>>, norms |-> <<>>, finite |-> TRUE,
   transposed |-> None]

M(pq) == Len(pq.offsets) - 1
Ksub(pq) == KsubOf(pq.nbits)
ChunkDim(pq, sub) == pq.offsets[sub + 2] - pq.offsets[sub + 1]
ChunkOf(pq, sub, x) == SubSeq(x, pq.offsets[sub + 1] + 1, pq.offsets[sub + 2])
CentroidChunkBase(pq, sub) == pq.offsets[sub + 1] * Ksub(pq)

\* The largest chunk, dsub
Dsub(pq) == CHOOSE w \in {ChunkDim(pq, s) : s \in 0..(M(pq) - 1)} :
              \A s \in 0..(M(pq) - 1) : ChunkDim(pq, s) <= w

WithNbits(d, m, nbits) == NewQuantizer(d, nbits, [c \in 1..(m + 1) |-> (c - 1) * (d \div m)])

\* Faulty variant of Wider: one chunk too many takes an extra component.
WiderOneMore(chunk, d, m) == chunk <= d % m

\* Whether a chunk of the balanced layout has one more component.
Wider(chunk, d, m) == chunk < d % m

WithNbitsBalanced(d, m, nbits) ==
  LET end[c \in 0..m] == IF c = 0 THEN 0 ELSE end[c - 1] + d \div m + IF Wider(c - 1, d, m) THEN 1 ELSE 0
  IN  NewQuantizer(d, nbits, [c \in 1..(m + 1) |-> end[c - 1]])

\* Faulty variant of TryWithChunkOffsets: an empty chunk passes.
TryOffsetsEmptyChunk(d, nbits, offsets) ==
  IF \/ d = 0 \/ nbits \notin {4, 8} \/ Len(offsets) < 2
     \/ offsets[1] # 0 \/ offsets[Len(offsets)] # d
     \/ \E i \in 1..(Len(offsets) - 1) : offsets[i] > offsets[i + 1]
  THEN None
  ELSE NewQuantizer(d, nbits, offsets)

TryWithChunkOffsets(d, nbits, offsets) ==
  IF \/ d = 0 \/ nbits \notin {4, 8} \/ Len(offsets) < 2
     \/ offsets[1] # 0 \/ offsets[Len(offsets)] # d
     \/ \E i \in 1..(Len(offsets) - 1) : offsets[i] >= offsets[i + 1]
  THEN None
  ELSE NewQuantizer(d, nbits, offsets)

CodeSize(pq) == IF pq.nbits = 4 THEN DivCeil(M(pq), 2) ELSE M(pq)

------------------------------------------------------------------------------
(* The codebook and what is derived from it                                    *)

Centroid(pq, centroids, sub, j) ==
  LET dim == ChunkDim(pq, sub)
      base == CentroidChunkBase(pq, sub) + j * dim
  IN  SubSeq(centroids, base + 1, base + dim)

TryComputeCentroidNorms(arch, pq, centroids) ==
  [i \in 1..(M(pq) * Ksub(pq)) |->
     FvecNormL2sqr(arch, Centroid(pq, centroids, (i - 1) \div Ksub(pq), (i - 1) % Ksub(pq)))]

\* Faulty variant of TrySetCentroids: the transposed copy of the old codebook stays.
SetCentroidsKeepTransposed(arch, pq, centroids) ==
  [pq EXCEPT !.norms = TryComputeCentroidNorms(arch, pq, centroids), !.centroids = centroids,
             !.finite = \A i \in DOMAIN centroids : centroids[i] # NaN]

TrySetCentroids(arch, pq, centroids) ==
  [pq EXCEPT !.norms = TryComputeCentroidNorms(arch, pq, centroids), !.centroids = centroids,
             !.finite = \A i \in DOMAIN centroids : centroids[i] # NaN, !.transposed = None]

ComputeCentroidNorms(arch, pq) ==
  IF pq.norms # <<>> THEN pq.norms ELSE TryComputeCentroidNorms(arch, pq, pq.centroids)

\* [dsub][ksub] blocks at a uniform stride
BuildTransposedCodebook(pq) ==
  LET stride == Dsub(pq) * Ksub(pq)
      at(i) ==
        LET sub == i \div stride
            k == (i % stride) \div Ksub(pq)
            j == i % Ksub(pq)
        IN  IF k < ChunkDim(pq, sub) THEN Centroid(pq, pq.centroids, sub, j)[k + 1] ELSE 0
  IN  [table |-> [i \in 1..(M(pq) * stride) |-> at(i - 1)], stride |-> stride]

\* get_or_init of the OnceLock
WithTransposed(pq) == IF pq.transposed = None THEN [pq EXCEPT !.transposed = BuildTransposedCodebook(pq)] ELSE pq

------------------------------------------------------------------------------
(* The nearest centroid                                                        *)

\* An f32 comparison with values that may be NaN, or not below f32::MAX (Infinity).
Below(x, y) == /\ x \notin {NaN, Infinity} /\ y # NaN
               /\ (y = Infinity \/ x < y)

ArgminCode(distances) ==
  Running([best |-> 0, dist |-> Infinity], 0, Len(distances),
          LAMBDA s, j : IF Below(distances[j], s.dist) THEN [best |-> j - 1, dist |-> distances[j]] ELSE s).best

ComputeSubL2Distances(arch, pq, x, sub) ==
  LET dim == ChunkDim(pq, sub)
      q == ChunkOf(pq, sub, x)
      cs == SubSeq(pq.centroids, CentroidChunkBase(pq, sub) + 1, CentroidChunkBase(pq, sub) + Ksub(pq) * dim)
      ip == FvecIpBatch(arch, q, cs, dim, Ksub(pq))
      qNorm == FvecNormL2sqr(arch, q)
      norms == ComputeCentroidNorms(arch, pq)
  IN  IF dim >= 4 /\ Ksub(pq) >= 8
      THEN [j \in 1..Ksub(pq) |-> Clamped(Sub(Add(qNorm, norms[sub * Ksub(pq) + j]), Mul(2, ip[j])))]
      ELSE FvecL2sqrBatch(arch, q, cs, dim, Ksub(pq))

\* score_argmin_accumulate: one fused multiply-add per component
Scores(q, t, ksub) ==
  Running([j \in 1..ksub |-> 0], 0, Len(q),
          LAMBDA s, k : [j \in 1..ksub |-> LET diff == Sub(q[k], t[(k - 1) * ksub + j])
                                           IN  Rounded(s[j] + diff * diff)])

ScoreArgminScalar(q, t, ksub) == ArgminCode(Scores(q, t, ksub))
ScoreArgminAvx2Generic(q, t, ksub) == ArgminCode(Scores(q, t, ksub))

\* Faulty variant of LanesReduced: a later lane wins a tie though its index is larger.
LanesReducedAnyTie(lanes) ==
  Running(lanes[1], 1, Len(lanes), LAMBDA b, l : IF Below(b.val, lanes[l].val) THEN b ELSE lanes[l]).idx

\* The reduction over lanes: the smallest value, then the smallest index.
LanesReduced(lanes) ==
  Running(lanes[1], 1, Len(lanes),
          LAMBDA b, l : IF \/ Below(lanes[l].val, b.val)
                           \/ lanes[l].val = b.val /\ lanes[l].idx < b.idx
                        THEN lanes[l] ELSE b).idx

\* The running minimum of each lane, over registers of `width` scores.
LaneArgmin(scores, width) ==
  LET lane(l) ==
        Running([val |-> Infinity, idx |-> 0], 0, Len(scores) \div width,
                LAMBDA b, r : LET i == (r - 1) * width + l
                              IN  IF Below(scores[i], b.val) THEN [val |-> scores[i], idx |-> i - 1] ELSE b)
  IN  LanesReduced([l \in 1..width |-> lane(l)])

\* The first component is multiplied, the others are fused.
ScoreArgminNeonGeneric(q, t, ksub) ==
  LET first == [j \in 1..ksub |-> Square(Sub(q[1], t[j]))]
      scores == Running(first, 1, Len(q),
                        LAMBDA s, k : [j \in 1..ksub |-> LET diff == Sub(q[k], t[(k - 1) * ksub + j])
                                                         IN  Rounded(s[j] + diff * diff)])
  IN  LaneArgmin(scores, 4)

FourComponents(q, t, ksub, j) ==
  LET diff(k) == Sub(q[k], t[(k - 1) * ksub + j])
  IN  Rounded(Rounded(Rounded(Square(diff(1)) + diff(2) * diff(2)) + diff(3) * diff(3)) + diff(4) * diff(4))

ScoreArgminNeonD4(q, t, ksub) == LaneArgmin([j \in 1..ksub |-> FourComponents(q, t, ksub, j)], 4)
ScoreArgminAvx2D4(q, t, ksub) == LaneArgmin([j \in 1..ksub |-> FourComponents(q, t, ksub, j)], 8)

\* score_argmin with the kernel score_argmin_kernel picks
ScoreArgmin(arch, q, t, ksub) ==
  CASE arch = "neon" /\ Len(q) = 4 /\ ksub % 4 = 0 -> ScoreArgminNeonD4(q, t, ksub)
    [] arch = "neon" /\ Len(q) > 4 /\ ksub % 16 = 0 -> ScoreArgminNeonGeneric(q, t, ksub)
    [] arch = "avx2" /\ Len(q) = 4 /\ ksub % 8 = 0 -> ScoreArgminAvx2D4(q, t, ksub)
    [] arch = "avx2" /\ (Len(q) # 4 \/ ksub % 8 # 0) -> ScoreArgminAvx2Generic(q, t, ksub)
    [] OTHER -> ScoreArgminScalar(q, t, ksub)

------------------------------------------------------------------------------
(* Encoders                                                                    *)

SubCode(arch, pq, x, sub) == ArgminCode(ComputeSubL2Distances(arch, pq, x, sub))

\* Two codes to a byte, the first in the low nibble; an odd last one is padded with zero.
Packed(codes) ==
  [pair \in 1..DivCeil(Len(codes), 2) |->
     codes[2 * pair - 1] + 16 * IF 2 * pair <= Len(codes) THEN codes[2 * pair] ELSE 0]

Encode(arch, pq, x) ==
  LET bytes(codes) == IF pq.nbits = 4 THEN Packed(codes) ELSE codes
  IN  bytes([s \in 1..M(pq) |-> SubCode(arch, pq, x, s - 1)])

\* Row i of a flat batch
RowOf(pq, data, i) == SubSeq(data, i * pq.d + 1, (i + 1) * pq.d)

EncodeBatch(arch, pq, data, n) == [i \in 1..n |-> Encode(arch, pq, RowOf(pq, data, i - 1))]

EncodeBlockRows(rows, workers) == Larger(1, Lesser(MaxBlockRows, DivCeil(rows, Larger(workers, 1))))

\* The blocks of rows the workers encode
Blocks(n, blockRows) ==
  [b \in 1..DivCeil(n, blockRows) |->
     [row0 |-> (b - 1) * blockRows, rows |-> Lesser(blockRows, n - (b - 1) * blockRows)]]

EncodedByBlocks(n, blockRows, code(_)) ==
  FlattenSeq([b \in 1..DivCeil(n, blockRows) |->
    LET block == Blocks(n, blockRows)[b] IN [r \in 1..block.rows |-> code(block.row0 + r - 1)]])

EncodeBatch8bitSgemm(arch, pq, data, n, workers) ==
  LET norms == ComputeCentroidNorms(arch, pq)
      distances(x, sub) ==
        LET dim == ChunkDim(pq, sub)
            q == ChunkOf(pq, sub, x)
            ip == SgemmRow(q, SubSeq(pq.centroids, CentroidChunkBase(pq, sub) + 1,
                                     CentroidChunkBase(pq, sub) + Ksub(pq) * dim), dim, Ksub(pq))
            qNorm == FvecNormL2sqr(arch, q)
        IN  [j \in 1..Ksub(pq) |-> Clamped(Sub(Add(qNorm, norms[sub * Ksub(pq) + j]), Mul(2, ip[j])))]
  IN  EncodedByBlocks(n, EncodeBlockRows(n, workers),
        LAMBDA i : [s \in 1..M(pq) |-> ArgminCode(distances(RowOf(pq, data, i), s - 1))])

\* On a quantizer whose transposed codebook is in place
EncodeBatch8bitTransposed(arch, pq, data, n, workers) ==
  LET T == pq.transposed
      block(sub) == SubSeq(T.table, sub * T.stride + 1, sub * T.stride + ChunkDim(pq, sub) * Ksub(pq))
  IN  EncodedByBlocks(n, EncodeBlockRows(n, workers),
        LAMBDA i : [s \in 1..M(pq) |->
          ScoreArgmin(arch, ChunkOf(pq, s - 1, RowOf(pq, data, i)), block(s - 1), Ksub(pq))])

TakesTransposed(arch, pq) ==
  pq.nbits = 8 /\ (\A sub \in 0..(M(pq) - 1) : ChunkDim(pq, sub) >= 4) /\ arch # "scalar"

\* [pq, codes]: the quantizer after its lazy transpose, and the codes by row
EncodeBatchBlocked(arch, pq, data, n, workers) ==
  IF TakesTransposed(arch, pq)
  THEN LET ready == WithTransposed(pq)
       IN  [pq |-> ready, codes |-> EncodeBatch8bitTransposed(arch, ready, data, n, workers)]
  ELSE [pq |-> pq,
        codes |-> IF pq.nbits = 8 /\ (\A sub \in 0..(M(pq) - 1) : ChunkDim(pq, sub) >= 4) /\ pq.finite
                  THEN EncodeBatch8bitSgemm(arch, pq, data, n, workers)
                  ELSE EncodeBatch(arch, pq, data, n)]

\* Faulty variant of CodeAt: the nibbles of a byte are swapped.
CodeAtSwapped(pq, codes, sub) ==
  IF pq.nbits # 4 THEN codes[sub + 1]
  ELSE LET byte == codes[sub \div 2 + 1] IN IF sub % 2 = 0 THEN byte \div 16 ELSE byte % 16

\* The code of one chunk
CodeAt(pq, codes, sub) ==
  IF pq.nbits # 4 THEN codes[sub + 1]
  ELSE LET byte == codes[sub \div 2 + 1] IN IF sub % 2 = 0 THEN byte % 16 ELSE byte \div 16

Decode(pq, codes) ==
  FlattenSeq([s \in 1..M(pq) |-> Centroid(pq, pq.centroids, s - 1, CodeAt(pq, codes, s - 1))])

------------------------------------------------------------------------------
(* Distance tables: ksub entries per chunk                                     *)

\* Faulty variant of ComputeDistanceTable: the cached norms are those of the first chunk.
DistanceTableFirstNorms(arch, pq, query, metric) ==
  FlattenSeq([s \in 1..M(pq) |->
    LET q == ChunkOf(pq, s - 1, query)
        qNorm == FvecNormL2sqr(arch, q)
        norms == ComputeCentroidNorms(arch, pq)
        ip(j) == FvecInnerProduct(arch, q, Centroid(pq, pq.centroids, s - 1, j - 1))
    IN  [j \in 1..Ksub(pq) |-> IF metric = "InnerProduct" THEN -ip(j)
                               ELSE Clamped(Sub(Add(qNorm, norms[j]), Mul(2, ip(j))))]])

ComputeDistanceTable(arch, pq, query, metric) ==
  LET norms == ComputeCentroidNorms(arch, pq)
      row(sub) ==
        LET dim == ChunkDim(pq, sub)
            q == ChunkOf(pq, sub, query)
            cs == SubSeq(pq.centroids, CentroidChunkBase(pq, sub) + 1, CentroidChunkBase(pq, sub) + Ksub(pq) * dim)
            ip == IF dim >= 4 THEN SgemmRow(q, cs, dim, Ksub(pq)) ELSE FvecIpBatch(arch, q, cs, dim, Ksub(pq))
            qNorm == FvecNormL2sqr(arch, q)
        IN  [j \in 1..Ksub(pq) |->
               IF metric = "InnerProduct" THEN -ip[j]
               ELSE Clamped(Sub(Add(qNorm, norms[sub * Ksub(pq) + j]), Mul(2, ip[j])))]
  IN  FlattenSeq([s \in 1..M(pq) |-> row(s - 1)])

ComputeInnerProductTable(arch, pq, query) ==
  FlattenSeq([s \in 1..M(pq) |->
    FvecIpBatch(arch, ChunkOf(pq, s - 1, query),
                SubSeq(pq.centroids, CentroidChunkBase(pq, s - 1) + 1,
                       CentroidChunkBase(pq, s - 1) + Ksub(pq) * ChunkDim(pq, s - 1)),
                ChunkDim(pq, s - 1), Ksub(pq))])

DistanceFromTable4bit(pq, table, codes) ==
  ScalarSum(M(pq), [s \in 1..M(pq) |-> Entry(table, Ksub(pq), s - 1, CodeAt(pq, codes, s - 1))])

DistanceFromTable(arch, pq, table, codes) ==
  IF pq.nbits = 4 THEN DistanceFromTable4bit(pq, table, codes)
  ELSE PqDistanceFromTable(arch, table, codes, M(pq), Ksub(pq))

------------------------------------------------------------------------------
CONSTANTS
  WordBits,       \* bits of a word of a row bitmap, 64
  FlatNum,        \* FLAT_NUM, the rows a 4-bit scan computes exactly
  Bbs,            \* BBS
  ByteMax,        \* u8::MAX
  AccumulatorMax  \* u16::MAX

------------------------------------------------------------------------------
(* The rows of a list that pass a filter: [positions, bitmap, len]             *)

WithBit(words, p) == [words EXCEPT ![p \div WordBits + 1] = @ \cup {p % WordBits}]

\* Faulty variant of Spilled: the positions gathered so far are not carried over.
SpilledFresh(positions, p, words) == WithBit([w \in 1..words |-> {}], p)

\* The bitmap that replaces the positions when one more would not fit.
Spilled(positions, p, words) ==
  Running(WithBit([w \in 1..words |-> {}], p), 0, Len(positions), LAMBDA b, i : WithBit(b, positions[i]))

MatchingRows(ids, filter) ==
  LET words == DivCeil(Len(ids), WordBits)
      step(s, i) ==
        IF ids[i] \notin filter THEN s
        ELSE IF s.bitmap # None THEN [s EXCEPT !.bitmap = WithBit(@, i - 1), !.len = @ + 1]
        ELSE IF Len(s.positions) < words THEN [s EXCEPT !.positions = Append(@, i - 1), !.len = @ + 1]
        ELSE [positions |-> <<>>, bitmap |-> Spilled(s.positions, i - 1, words), len |-> s.len + 1]
  IN  IF filter = None THEN None
      ELSE Running([positions |-> <<>>, bitmap |-> None, len |-> 0], 0, Len(ids), step)

RowCount(rows) == IF rows.bitmap = None THEN Len(rows.positions) ELSE rows.len

RowsContain(rows, p) ==
  IF rows.bitmap = None THEN \E i \in DOMAIN rows.positions : rows.positions[i] = p
  ELSE p \div WordBits < Len(rows.bitmap) /\ (p % WordBits) \in rows.bitmap[p \div WordBits + 1]

\* MatchingRowIter: the words in order, the bits of a word from the lowest
Positions(rows) ==
  IF rows.bitmap = None THEN rows.positions
  ELSE FlattenSeq([w \in 1..Len(rows.bitmap) |->
         SelectSeq([b \in 1..WordBits |-> (w - 1) * WordBits + b - 1],
                   LAMBDA p : (p % WordBits) \in rows.bitmap[w])])

HasMatchingRows(rows) == rows = None \/ RowCount(rows) > 0

ShouldScanSparse(count, rows, divisor) == rows # None /\ RowCount(rows) * divisor <= count

\* What a scan pushes once it knows every row's distance.
PushSelected(ids, rows, dist(_)) ==
  LET chosen == IF rows = None THEN [i \in 1..Len(ids) |-> i - 1] ELSE Positions(rows)
  IN  [i \in 1..Len(chosen) |-> [dist |-> dist(chosen[i]), id |-> ids[chosen[i] + 1]]]

------------------------------------------------------------------------------
(* 8-bit scans                                                                 *)

RowMajorDivisor == 4
TransposedDivisor == 8

\* Faulty variant of ScanCodesBatched: the rows after the last four are filtered by nothing.
ScanBatchedTailUnfiltered(arch, table, codes, ids, m, ksub, dis0, rows) ==
  LET count == Len(ids)
      one(p) == Add(dis0, PqDistanceFromTable(arch, table, SubSeq(codes, p * m + 1, (p + 1) * m), m, ksub))
      all == [i \in 1..count |-> i - 1]
      taken == IF rows = None THEN all ELSE SelectSeq(all, LAMBDA p : p >= 4 * (count \div 4) \/ RowsContain(rows, p))
  IN  [i \in 1..Len(taken) |-> [dist |-> one(taken[i]), id |-> ids[taken[i] + 1]]]

\* scan_codes_batched: row-major, four rows at a time, then one by one
ScanCodesBatched(arch, table, codes, ids, m, ksub, dis0, rows) ==
  LET count == Len(ids)
      one(p) == Add(dis0, PqDistanceFromTable(arch, table, SubSeq(codes, p * m + 1, (p + 1) * m), m, ksub))
      four(p) == LET first == 4 * (p \div 4)
                 IN  Add(dis0, PqDistanceFourCodes(table, codes, m, ksub,
                                                   [j \in 1..4 |-> (first + j - 1) * m])[(p % 4) + 1])
      all == [i \in 1..count |-> i - 1]
      taken == IF rows = None THEN all ELSE SelectSeq(all, LAMBDA p : RowsContain(rows, p))
  IN  IF ShouldScanSparse(count, rows, RowMajorDivisor) THEN PushSelected(ids, rows, one)
      ELSE [i \in 1..Len(taken) |->
              [dist |-> IF taken[i] < 4 * (count \div 4) THEN four(taken[i]) ELSE one(taken[i]),
               id |-> ids[taken[i] + 1]]]

TransposedColumnInit(column, table, dis0) == [i \in 1..Len(column) |-> Add(dis0, table[column[i] + 1])]
TransposedColumnAdd(dists, column, table) == [i \in 1..Len(dists) |-> Add(dists[i], table[column[i] + 1])]

\* Faulty variant of SparseDistance: the base distance is added last.
SparseDistanceBaseLast(table, codes, count, m, ksub, dis0, p) ==
  Add(Running(0, 0, m, LAMBDA d, s : Add(d, Entry(table, ksub, s - 1, codes[(s - 1) * count + p + 1]))), dis0)

\* The distance of one row of the columns
SparseDistance(table, codes, count, m, ksub, dis0, p) ==
  Running(dis0, 0, m, LAMBDA d, s : Add(d, Entry(table, ksub, s - 1, codes[(s - 1) * count + p + 1])))

\* scan_codes_transposed_with_scratch: codes in m columns of `count`
ScanCodesTransposed(table, codes, ids, m, ksub, dis0, rows) ==
  LET count == Len(ids)
      column(sub) == SubSeq(codes, sub * count + 1, (sub + 1) * count)
      tableRow(sub) == SubSeq(table, sub * ksub + 1, (sub + 1) * ksub)
      dists == Running(TransposedColumnInit(column(0), tableRow(0), dis0), 1, m,
                       LAMBDA d, s : TransposedColumnAdd(d, column(s - 1), tableRow(s - 1)))
  IN  IF ShouldScanSparse(count, rows, TransposedDivisor) THEN PushSelected(ids, rows, LAMBDA p : SparseDistance(table, codes, count, m, ksub, dis0, p))
      ELSE PushSelected(ids, rows, LAMBDA p : dists[p + 1])

------------------------------------------------------------------------------
(* 4-bit scans: an exact prefix, then table entries quantised to a byte        *)

\* Faulty variant of MaxU16Subquantizers: one pair too many is accumulated.
MaxU16TooMany == AccumulatorMax \div ByteMax + 1

MaxU16Subquantizers == AccumulatorMax \div ByteMax

FlatEnd(count, m) == IF m > MaxU16Subquantizers THEN count ELSE Lesser(count, FlatNum)

LowNibble(byte) == byte % 16
HighNibble(byte) == byte \div 16

\* The exact distance of a row whose code has byte(pair).
FlatDistance(table, m, byte(_)) ==
  ByteMax * Running(0, 0, m \div 2,
    LAMBDA s, pair : Add(Add(s, Entry(table, KSub4, 2 * pair - 2, LowNibble(byte(pair - 1)))),
                         Entry(table, KSub4, 2 * pair - 1, HighNibble(byte(pair - 1)))))

Smallest(table) == CHOOSE x \in {table[i] : i \in DOMAIN table} : \A i \in DOMAIN table : x <= table[i]
Largest(table) == CHOOSE x \in {table[i] : i \in DOMAIN table} : \A i \in DOMAIN table : x >= table[i]

\* quantize_distance_table; hint is None for NEG_INFINITY.  A range of 1e-10 quantises
\* equal entries to zero, as one of 1 does here.
QuantizeDistanceTable(table, hint) ==
  LET qmin == Smallest(table)
      qmax == IF hint = None THEN Largest(table) ELSE Larger(hint, Largest(table))
      range == Larger(qmax - qmin, 1)
  IN  [qmin |-> qmin, range |-> range,
       qtable |-> [i \in 1..Len(table) |-> Larger(0, Lesser(ByteMax, ((table[i] - qmin) * ByteMax) \div range))]]

\* The accumulator of a row, pair by pair.
Accumulated(qtable, m, byte(_)) ==
  Running(0, 0, m \div 2,
    LAMBDA s, pair : (s + Entry(qtable, KSub4, 2 * pair - 2, LowNibble(byte(pair - 1)))
                        + Entry(qtable, KSub4, 2 * pair - 1, HighNibble(byte(pair - 1)))) % (AccumulatorMax + 1))

Dequantised(q, quantised, m) == q * quantised.range + ByteMax * quantised.qmin * m

QuantisedDistance(quantised, m, byte(_)) == Dequantised(Accumulated(quantised.qtable, m, byte), quantised, m)

\* scan_4bit_simd: row-major
Scan4bitSimd(table, codes, count, m) ==
  LET byte(i) == [pair \in 0..(m \div 2 - 1) |-> codes[i * (m \div 2) + pair + 1]]
      quantised == QuantizeDistanceTable(table, None)
  IN  [i \in 1..count |-> LET b == byte(i - 1)
                          IN  IF i <= FlatEnd(count, m) THEN FlatDistance(table, m, LAMBDA p : b[p])
                              ELSE QuantisedDistance(quantised, m, LAMBDA p : b[p])]

ScanCodes4bit(table, codes, ids, m, dis0, rows) ==
  LET dists == Scan4bitSimd(table, codes, Len(ids), m)
  IN  PushSelected(ids, rows, LAMBDA p : ByteMax * dis0 + dists[p + 1])

\* scan_codes_4bit_transposed: codes in m / 2 columns of `count`
ScanCodes4bitTransposed(table, codes, ids, m, dis0, rows) ==
  LET count == Len(ids)
      quantised == QuantizeDistanceTable(table, None)
      byte(p, pair) == codes[pair * count + p + 1]
      dists == [i \in 1..count |->
                  IF i <= FlatEnd(count, m) THEN FlatDistance(table, m, LAMBDA pair : byte(i - 1, pair))
                  ELSE QuantisedDistance(quantised, m, LAMBDA pair : byte(i - 1, pair))]
  IN  PushSelected(ids, rows, LAMBDA p : ByteMax * dis0 + dists[p + 1])

------------------------------------------------------------------------------
(* FastScan: blocks of Bbs rows, one byte per row and pair                     *)

\* Faulty variant of PackCodesBlockLayout: the bytes of a row stay together.
PackRowsTogether(codes, n, cs) ==
  [i \in 1..(DivCeil(n, Bbs) * cs * Bbs) |-> IF i <= n * cs THEN codes[i] ELSE 0]

PackCodesBlockLayout(codes, n, cs) ==
  LET at(i) == LET block == i \div (cs * Bbs)
                   pair == (i % (cs * Bbs)) \div Bbs
                   row == block * Bbs + (i % Bbs)
               IN  IF row < n THEN codes[row * cs + pair + 1] ELSE 0
  IN  [i \in 1..(DivCeil(n, Bbs) * cs * Bbs) |-> at(i - 1)]

\* The byte of a row and pair
PackedByte(packed, cs, row, pair) == packed[(row \div Bbs) * cs * Bbs + pair * Bbs + (row % Bbs) + 1]

UnpackCodesBlockLayout(packed, n, cs) ==
  [i \in 1..(n * cs) |-> PackedByte(packed, cs, (i - 1) \div cs, (i - 1) % cs)]

Quarter(v, k) == SubSeq(v, (k - 1) * (Len(v) \div 4) + 1, k * (Len(v) \div 4))

\* unpacklo and unpackhi widen within a 128-bit lane; permute2x128 0x20 and 0x31 put the
\* lanes back in row order.
FastscanBlockAvx2(sums) ==
  LET lo == Quarter(sums, 1) \o Quarter(sums, 3)
      hi == Quarter(sums, 2) \o Quarter(sums, 4)
      half(v, k) == SubSeq(v, (k - 1) * (Len(v) \div 2) + 1, k * (Len(v) \div 2))
  IN  (half(lo, 1) \o half(hi, 1)) \o (half(lo, 2) \o half(hi, 2))

\* Four accumulators, two for each half of the block
FastscanBlockNeon(sums) == ((Quarter(sums, 1) \o Quarter(sums, 2)) \o Quarter(sums, 3)) \o Quarter(sums, 4)

FastscanBlock(arch, sums) ==
  IF arch = "avx2" THEN FastscanBlockAvx2(sums)
  ELSE IF arch = "neon" THEN FastscanBlockNeon(sums) ELSE sums

\* The first block that is quantised
StartBlock(flatEnd) == DivCeil(flatEnd, Bbs)

\* Exact up to flat_end, exact up to the first whole block, quantised after it.
Fastscan4bit(arch, table, codes, n, m) ==
  LET cs == m \div 2
      flatEnd == FlatEnd(n, m)
      quantised == QuantizeDistanceTable(table, Largest(table))
      exact(row) == FlatDistance(table, m, LAMBDA pair : PackedByte(codes, cs, row, pair))
      sums(block) == [v \in 1..Bbs |-> Accumulated(quantised.qtable, m,
                                         LAMBDA pair : PackedByte(codes, cs, block * Bbs + v - 1, pair))]
      scanned == [block \in StartBlock(flatEnd)..(DivCeil(n, Bbs) - 1) |-> FastscanBlock(arch, sums(block))]
  IN  [i \in 1..n |->
         IF flatEnd = n \/ i <= StartBlock(flatEnd) * Bbs THEN exact(i - 1)
         ELSE Dequantised(scanned[(i - 1) \div Bbs][((i - 1) % Bbs) + 1], quantised, m)]

------------------------------------------------------------------------------
(* scan_reader_codes                                                           *)

ScanReaderCodes(arch, pq, table, codes, ids, transposed, dis0, rows) ==
  CASE rows # None /\ RowCount(rows) = 0 -> <<>>
    [] HasMatchingRows(rows) /\ pq.nbits = 4 /\ transposed -> ScanCodes4bitTransposed(table, codes, ids, M(pq), dis0, rows)
    [] HasMatchingRows(rows) /\ pq.nbits = 4 /\ ~transposed -> ScanCodes4bit(table, codes, ids, M(pq), dis0, rows)
    [] HasMatchingRows(rows) /\ pq.nbits = 8 /\ transposed ->
         ScanCodesTransposed(table, codes, ids, M(pq), Ksub(pq), dis0, rows)
    [] HasMatchingRows(rows) /\ pq.nbits = 8 /\ ~transposed ->
         ScanCodesBatched(arch, table, codes, ids, M(pq), Ksub(pq), dis0, rows)

------------------------------------------------------------------------------
(* Distance tables for a query and a list whose coarse centroid is c           *)

\* build_precomputed_table, one list
PrecomputedListTable(arch, pq, c) ==
  LET norms == ComputeCentroidNorms(arch, pq)
  IN  FlattenSeq([s \in 1..M(pq) |-> [j \in 1..Ksub(pq) |->
        Add(norms[(s - 1) * Ksub(pq) + j],
            Mul(2, FvecInnerProduct(arch, ChunkOf(pq, s - 1, c), Centroid(pq, pq.centroids, s - 1, j - 1))))]])

\* compute_precomputed_table of the reader sums in scalar order
ReaderPrecomputedTable(arch, pq, c) ==
  LET norms == ComputeCentroidNorms(arch, pq)
  IN  FlattenSeq([s \in 1..M(pq) |-> [j \in 1..Ksub(pq) |->
        Add(norms[(s - 1) * Ksub(pq) + j],
            Mul(2, FvecInnerProductScalar(ChunkOf(pq, s - 1, c), Centroid(pq, pq.centroids, s - 1, j - 1))))]])

\* precomputed is the list's table or None
FillReaderSimTable(arch, pq, query, metric, byResidual, c, precomputed, ipTable) ==
  IF precomputed # None THEN FvecMadd(arch, precomputed, ipTable, -2)
  ELSE LET target == IF byResidual THEN FvecMadd(arch, query, c, -1) ELSE query
       IN  ComputeDistanceTable(arch, pq, target, metric)

\* The stable tables are summed in f64: exactly, here.
DotExact(a, b) == Running(0, 0, Len(a), LAMBDA s, i : s + a[i] * b[i])

StablePqNorms(pq) ==
  FlattenSeq([s \in 1..M(pq) |-> [j \in 1..Ksub(pq) |->
    LET x == Centroid(pq, pq.centroids, s - 1, j - 1) IN DotExact(x, x)]])

FillStableListTable(pq, c, norms) ==
  FlattenSeq([s \in 1..M(pq) |-> [j \in 1..Ksub(pq) |->
    norms[(s - 1) * Ksub(pq) + j] + 2 * DotExact(ChunkOf(pq, s - 1, c), Centroid(pq, pq.centroids, s - 1, j - 1))]])

FillStableQueryTable(pq, query) ==
  FlattenSeq([s \in 1..M(pq) |-> [j \in 1..Ksub(pq) |->
    DotExact(ChunkOf(pq, s - 1, query), Centroid(pq, pq.centroids, s - 1, j - 1))]])

\* Faulty variant of ResidualNorm: the norm of the query's chunk.
ResidualNormOfQuery(pq, query, c, sub) == DotExact(ChunkOf(pq, sub, query), ChunkOf(pq, sub, query))

ResidualNorm(pq, query, c, sub) ==
  LET r == [i \in 1..ChunkDim(pq, sub) |-> ChunkOf(pq, sub, query)[i] - ChunkOf(pq, sub, c)[i]] IN DotExact(r, r)

CombineStableTables(pq, listTable, queryTable, query, c) ==
  FlattenSeq([s \in 1..M(pq) |-> [j \in 1..Ksub(pq) |->
    LET at == (s - 1) * Ksub(pq) + j
    IN  Rounded(Clamped(ResidualNorm(pq, query, c, s - 1) + listTable[at] - 2 * queryTable[at]))]])

ShouldUseEphemeral(lists, queries, probes) == lists + queries > 0 /\ probes >= 2 * (lists + queries)

------------------------------------------------------------------------------
(* Range scans; a query is [index, vector, metric, table, tableList]           *)

PqRangeCacheQueryLimit(pq, budget) == budget \div (M(pq) * Ksub(pq) * 4)

\* c is the coarse centroid of a residual list, or None
BuildPqRangeTable(arch, pq, query, metric, c) ==
  LET ip == metric = "InnerProduct"
      q == IF c # None /\ ~ip THEN [i \in 1..Len(query) |-> Sub(query[i], c[i])] ELSE query
      offset == IF c # None /\ ip THEN -FvecInnerProduct(arch, query, c) ELSE 0
      entry(s, j) ==
        LET codeword == Centroid(pq, pq.centroids, s, j)
        IN  IF ~ip THEN FvecL2sqr(arch, ChunkOf(pq, s, q), codeword)
            ELSE Add(-FvecInnerProduct(arch, ChunkOf(pq, s, q), codeword), IF s = 0 THEN offset ELSE 0)
  IN  FlattenSeq([s \in 1..M(pq) |-> [j \in 1..Ksub(pq) |-> entry(s - 1, j - 1)]])

\* The code of a chunk in either layout
RangeCode(pq, codes, count, transposed, row, sub) ==
  LET column == IF pq.nbits = 4 THEN sub \div 2 ELSE sub
      byte == codes[(IF transposed THEN column * count + row ELSE row * CodeSize(pq) + column) + 1]
  IN  IF pq.nbits # 4 THEN byte ELSE IF sub % 2 = 0 THEN LowNibble(byte) ELSE HighNibble(byte)

\* Cosine distances are halves: kept doubled, as the L2 distance of unit vectors.
ScanPqRangeCodes(pq, table, ipOffset, ids, codes, transposed, rows) ==
  LET entry(p, s) == Add(Entry(table, Ksub(pq), s, RangeCode(pq, codes, Len(ids), transposed, p, s)),
                         IF s = 0 THEN ipOffset ELSE 0)
  IN  PushSelected(ids, rows, LAMBDA p : Running(0, 0, M(pq), LAMBDA d, s : Add(d, entry(p, s - 1))))

\* Faulty variant of TableIsStale: a table once built is never rebuilt.
TableNeverStale(query, listId, tableC) == query.tableList = None

\* A cached table is rebuilt for another list only when it depends on the list.
TableIsStale(query, listId, tableC) ==
  query.tableList = None \/ (tableC # None /\ query.tableList # listId)

\* The table a scan uses: the cached one, refreshed when it is stale, or one of its own.
\* tableC is the centroid that the table depends on.
RangeTable(arch, pq, query, listId, tableC, cached) ==
  IF cached /\ ~TableIsStale(query, listId, tableC) THEN query.table
  ELSE BuildPqRangeTable(arch, pq, query.vector, query.metric, tableC)

\* scan_query of scan_pq_range_list: [query, pushes]
ScanPqRangeQuery(arch, pq, query, listId, c, ids, codes, transposed, rows, cachedQueries) ==
  LET cached == query.index < cachedQueries
      cachedIp == cached /\ query.metric = "InnerProduct"
      tableC == IF cachedIp THEN None ELSE c
      ipOffset == IF cachedIp /\ c # None THEN -FvecInnerProduct(arch, query.vector, c) ELSE 0
      scanned(table) ==
        [query |-> IF cached /\ TableIsStale(query, listId, tableC)
                   THEN [query EXCEPT !.table = table, !.tableList = listId] ELSE query,
         pushes |-> ScanPqRangeCodes(pq, table, ipOffset, ids, codes, transposed, rows)]
  IN  scanned(RangeTable(arch, pq, query, listId, tableC, cached))
==============================================================================

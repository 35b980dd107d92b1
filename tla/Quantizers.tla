----------------------------- MODULE Quantizers ------------------------------
(* The scalar quantizer of src/core/src/sq.rs in its three builds (arch): AVX2,  *)
(* NEON and scalar.  A quantizer is [mins, maxs], one bound per dimension; data  *)
(* is integer, and a quotient is cut to a multiple of 1 / Unit, so that two      *)
(* formulas for the same code can differ as they do in f32.  Decoded values      *)
(* and distances count in those fractions.  Positions count from 1.              *)
(*                                                                               *)
(* The RaBitQ quantizer of src/core/src/rq.rs: the rotation, the quantization of *)
(* a residual to levels, its bit planes, the tables of a query and the FastScan  *)
(* sums over them, and the factors that turn an inner product with a code into a *)
(* distance.  Values are integers and a fraction is kept with its denominator;   *)
(* a centred level is doubled, so that it is an integer too.                     *)
EXTENDS Integers, Sequences, SequencesExt, FiniteSetsExt, Functions

CONSTANTS
  Unit,
  CodeMax,         \* the largest code, 255
  BlockSize,       \* rows of a block the register kernels take, 32
  Infinity,        \* beyond every value, the bound before the first row
  MinCheckpoint    \* dimensions before the test of the cutoff, 32

Lesser(x, y) == IF x < y THEN x ELSE y
Greater(x, y) == IF x > y THEN x ELSE y
SumTo(n, terms) == LET s[i \in 0..n] == IF i = 0 THEN 0 ELSE s[i - 1] + terms[i] IN s[n]

\* Elements a body of registers of some width covers
Body(width, d) == width * (d \div width)
From(s, body) == SubSeq(s, body + 1, Len(s))

------------------------------------------------------------------------------
(* Training                                                                    *)

NewQuantizer(d) == [mins |-> [i \in 1..d |-> 0], maxs |-> [i \in 1..d |-> 0], min |-> 0, max |-> 0]

\* refresh_global_bounds
WithDimensionBounds(mins, maxs) ==
  LET fold(s, start, pick(_, _)) == LET f[i \in 0..Len(s)] == IF i = 0 THEN start ELSE pick(f[i - 1], s[i]) IN f[Len(s)]
  IN  [mins |-> mins, maxs |-> maxs,
       min |-> IF mins = <<>> THEN 0 ELSE fold(mins, Infinity, Lesser),
       max |-> IF maxs = <<>> THEN 0 ELSE fold(maxs, -Infinity, Greater)]

\* Bounds before the first row
NoBounds(d) == [mins |-> [i \in 1..d |-> Infinity], maxs |-> [i \in 1..d |-> -Infinity]]

BoundsScalar(sq, row, from) ==
  [mins |-> [i \in 1..Len(row) |-> IF i > from THEN Lesser(sq.mins[i], row[i]) ELSE sq.mins[i]],
   maxs |-> [i \in 1..Len(row) |-> IF i > from THEN Greater(sq.maxs[i], row[i]) ELSE sq.maxs[i]]]

\* Faulty variant of BoundsRegisters: the dimensions after the last register are left out.
BoundsWithoutTail(width, sq, row) ==
  LET lanes == 1..Body(width, Len(row))
  IN  [mins |-> [i \in 1..Len(row) |-> IF i \in lanes THEN Lesser(sq.mins[i], row[i]) ELSE sq.mins[i]],
       maxs |-> [i \in 1..Len(row) |-> IF i \in lanes THEN Greater(sq.maxs[i], row[i]) ELSE sq.maxs[i]]]

BoundsRegisters(width, sq, row) ==
  LET lanes == 1..Body(width, Len(row))
      body == [mins |-> [i \in 1..Len(row) |-> IF i \in lanes THEN Lesser(sq.mins[i], row[i]) ELSE sq.mins[i]],
               maxs |-> [i \in 1..Len(row) |-> IF i \in lanes THEN Greater(sq.maxs[i], row[i]) ELSE sq.maxs[i]]]
  IN  BoundsScalar(body, row, Body(width, Len(row)))

UpdateBoundsAvx2(sq, row) == BoundsRegisters(8, sq, row)
UpdateBoundsNeon(sq, row) == BoundsRegisters(4, sq, row)

UpdateBoundsBatch(arch, sq, row) ==
  IF arch = "neon" THEN UpdateBoundsNeon(sq, row)
  ELSE IF arch = "avx2" /\ Len(row) >= 8 THEN UpdateBoundsAvx2(sq, row) ELSE BoundsScalar(sq, row, 0)

UpdateRows(arch, d, data, rows) ==
  LET b[i \in 0..Len(rows)] == IF i = 0 THEN NoBounds(d) ELSE UpdateBoundsBatch(arch, b[i - 1], data[rows[i]])
  IN  b[Len(rows)]

Train(arch, d, data) ==
  LET b == UpdateRows(arch, d, data, [i \in 1..Len(data) |-> i])
  IN  IF Len(data) = 0 \/ d = 0 THEN NewQuantizer(d) ELSE WithDimensionBounds(b.mins, b.maxs)

\* train_residual_rows: the bounds of the rows, less the centroid
TrainResidualRows(arch, data, rows, offset) ==
  LET b == UpdateRows(arch, Len(offset), data, rows)
  IN  WithDimensionBounds([i \in DOMAIN offset |-> b.mins[i] - offset[i]], [i \in DOMAIN offset |-> b.maxs[i] - offset[i]])

------------------------------------------------------------------------------
(* Encoding                                                                    *)

\* clamp and round of a non-negative number of units
Code(x) == (2 * Lesser(CodeMax * Unit, Greater(0, x)) + Unit) \div (2 * Unit)

\* Faulty variant of EncodeValue: truncated, not rounded.
EncodeValueTruncated(value, min, max) ==
  IF min >= max THEN 0
  ELSE Lesser(CodeMax * Unit, Greater(0, ((value - min) * CodeMax * Unit) \div (max - min))) \div Unit

EncodeValue(value, min, max) ==
  IF min >= max THEN 0 ELSE Code(((value - min) * CodeMax * Unit) \div (max - min))

\* The factor a register kernel multiplies with; 0 for a constant dimension
Scale(min, max) == IF min < max THEN (CodeMax * Unit) \div (max - min) ELSE 0

EncodeLane(value, min, scale) == Code((value - min) * scale)

EncodeBatchScalar(sq, v, from) ==
  [i \in 1..(Len(v) - from) |-> EncodeValue(v[from + i], sq.mins[from + i], sq.maxs[from + i])]

EncodeRegisters(width, sq, v) ==
  [i \in 1..Body(width, Len(v)) |-> EncodeLane(v[i], sq.mins[i], Scale(sq.mins[i], sq.maxs[i]))]

EncodeBatchAvx2(sq, v) == EncodeRegisters(8, sq, v) \o EncodeBatchScalar(sq, v, Body(8, Len(v)))
EncodeBatchNeon(sq, v) == EncodeRegisters(4, sq, v) \o EncodeBatchScalar(sq, v, Body(4, Len(v)))

Encode(arch, sq, v) ==
  IF arch = "neon" THEN EncodeBatchNeon(sq, v)
  ELSE IF arch = "avx2" /\ Len(v) >= 8 THEN EncodeBatchAvx2(sq, v) ELSE EncodeBatchScalar(sq, v, 0)

\* Faulty variant of ResidualNeon: registers of sixteen only, the rest is scalar.
ResidualNeonWide(vector, offset, mins, scales) ==
  [i \in 1..Body(16, Len(vector)) |-> EncodeLane(vector[i] - offset[i], mins[i], scales[i])]

\* encode_residual_neon: steps of sixteen, then of four
ResidualNeon(vector, offset, mins, scales) ==
  LET wide == Body(16, Len(vector))
      four == Body(4, Len(vector) - wide)
  IN  [i \in 1..wide |-> EncodeLane(vector[i] - offset[i], mins[i], scales[i])]
        \o [i \in 1..four |-> EncodeLane(vector[wide + i] - offset[wide + i], mins[wide + i], scales[wide + i])]

\* encode_residual_avx2: half is rounded up from the floor.
ResidualAvx2(vector, offset, mins, scales) ==
  [i \in 1..Body(8, Len(vector)) |->
     LET x == Lesser(CodeMax * Unit, Greater(0, (vector[i] - offset[i] - mins[i]) * scales[i]))
         floor == x \div Unit
     IN  IF 2 * (x - floor * Unit) >= Unit THEN floor + 1 ELSE floor]

EncodeResidual(arch, sq, vector, offset, scales) ==
  LET head == IF arch = "neon" THEN ResidualNeon(vector, offset, sq.mins, scales)
              ELSE IF arch = "avx2" THEN ResidualAvx2(vector, offset, sq.mins, scales) ELSE <<>>
  IN  head \o EncodeBatchScalar(sq, [i \in 1..Len(vector) |-> vector[i] - offset[i]], Len(head))

\* encode_residual_rows: the codes of each of the rows
EncodeResidualRows(arch, sq, data, rows, offset) ==
  LET scales == [i \in DOMAIN sq.mins |-> Scale(sq.mins[i], sq.maxs[i])]
  IN  [n \in DOMAIN rows |-> EncodeResidual(arch, sq, data[rows[n]], offset, scales)]

------------------------------------------------------------------------------
(* Decoding                                                                    *)

DecodeValue(code, min, max) ==
  IF min >= max THEN min * Unit ELSE min * Unit + (code * (max - min) * Unit) \div CodeMax

\* Faulty variant of DecodeLane: the centroid is left out of a constant dimension.
DecodeLaneConstant(code, min, max, offset) ==
  IF min >= max THEN min * Unit ELSE (offset + min) * Unit + code * ((max - min) * (Unit \div CodeMax))

DecodeLane(code, min, max, offset) ==
  IF min >= max THEN (min + offset) * Unit ELSE (offset + min) * Unit + code * ((max - min) * (Unit \div CodeMax))

DecodeScalar(sq, code, offset, from) ==
  [i \in 1..(Len(code) - from) |->
     DecodeValue(code[from + i], sq.mins[from + i], sq.maxs[from + i]) + offset[from + i] * Unit]

DecodeRegisters(sq, code, offset) ==
  [i \in 1..Body(8, Len(code)) |-> DecodeLane(code[i], sq.mins[i], sq.maxs[i], offset[i])]

DecodeAvx2(sq, code, offset) == DecodeRegisters(sq, code, offset) \o DecodeScalar(sq, code, offset, Body(8, Len(code)))

\* Two registers of four in a step of eight
DecodeNeon(sq, code, offset) == DecodeRegisters(sq, code, offset) \o DecodeScalar(sq, code, offset, Body(8, Len(code)))

DecodeBatchWithOffset(arch, sq, code, offset) ==
  IF arch = "neon" THEN DecodeNeon(sq, code, offset)
  ELSE IF arch = "avx2" /\ Len(code) >= 8 THEN DecodeAvx2(sq, code, offset) ELSE DecodeScalar(sq, code, offset, 0)

DecodeBatch(sq, code) == [i \in 1..Len(code) |-> DecodeValue(code[i], sq.mins[i], sq.maxs[i])]

\* build_decode_lut: every code of every dimension
BuildDecodeLut(sq) == [i \in DOMAIN sq.mins |-> [c \in 0..CodeMax |-> DecodeValue(c, sq.mins[i], sq.maxs[i])]]

------------------------------------------------------------------------------
(* Distances of a row.  A cosine distance is told by its dot product and the    *)
(* product of the squared norms, both 0 for the distance 1 of a zero vector.    *)

Cosine(dot, queryNorm, norm) == IF queryNorm * norm > 0 THEN <<dot, queryNorm * norm>> ELSE <<0, 0>>
QueryNorm(query) == SumTo(Len(query), [i \in 1..Len(query) |-> query[i] * query[i]])

Term(l2, q, decoded) == IF l2 THEN (q * Unit - decoded) * (q * Unit - decoded) ELSE q * decoded

SqDistanceScalar(l2, sq, query, code, offset) ==
  SumTo(Len(code), [i \in 1..Len(code) |-> Term(l2, query[i], offset[i] * Unit + DecodeValue(code[i], sq.mins[i], sq.maxs[i]))])

\* Faulty variant of SqDistanceRegisters: the tail reads the query from its start.
SqDistanceShifted(l2, sq, query, code, offset) ==
  LET body == Body(8, Len(code))
  IN  SumTo(body, [i \in 1..body |-> Term(l2, query[i], (sq.mins[i] + offset[i]) * Unit
                                                 + code[i] * ((sq.maxs[i] - sq.mins[i]) * (Unit \div CodeMax)))])
        + SqDistanceScalar(l2, [mins |-> From(sq.mins, body), maxs |-> From(sq.maxs, body)],
                           query, From(code, body), From(offset, body))

\* The registers decode without a test for a constant dimension; the tail is scalar.
SqDistanceRegisters(l2, sq, query, code, offset) ==
  LET body == Body(8, Len(code))
  IN  SumTo(body, [i \in 1..body |-> Term(l2, query[i], (sq.mins[i] + offset[i]) * Unit
                                                 + code[i] * ((sq.maxs[i] - sq.mins[i]) * (Unit \div CodeMax)))])
        + SqDistanceScalar(l2, [mins |-> From(sq.mins, body), maxs |-> From(sq.maxs, body)],
                           From(query, body), From(code, body), From(offset, body))

SqDistanceAvx2(l2, sq, query, code, offset) == SqDistanceRegisters(l2, sq, query, code, offset)
SqDistanceNeon(l2, sq, query, code, offset) == SqDistanceRegisters(l2, sq, query, code, offset)

SqL2WithOffset(arch, sq, query, code, offset) ==
  IF Len(code) < 8 \/ arch = "scalar" THEN SqDistanceScalar(TRUE, sq, query, code, offset)
  ELSE IF arch = "avx2" THEN SqDistanceAvx2(TRUE, sq, query, code, offset)
  ELSE SqDistanceNeon(TRUE, sq, query, code, offset)

SqInnerProductWithOffset(arch, sq, query, code, offset) ==
  IF Len(code) < 8 \/ arch = "scalar" THEN SqDistanceScalar(FALSE, sq, query, code, offset)
  ELSE IF arch = "avx2" THEN SqDistanceAvx2(FALSE, sq, query, code, offset)
  ELSE SqDistanceNeon(FALSE, sq, query, code, offset)

\* Cosine of a query and a decoded row
CosineOf(query, values) ==
  Cosine(SumTo(Len(query), [i \in 1..Len(query) |-> query[i] * values[i]]), QueryNorm(query),
         SumTo(Len(query), [i \in 1..Len(query) |-> values[i] * values[i]]))

\* decode_value_with_offset: the offset is left out on request.
Value(decoded, offset, i, useOffset) == IF useOffset THEN decoded + offset[i] * Unit ELSE decoded

\* distance_to_code_impl: without an offset no register kernel is used.
DistanceToCode(arch, sq, query, code, offset, useOffset, metric) ==
  LET decoded == [i \in DOMAIN code |-> DecodeValue(code[i], sq.mins[i], sq.maxs[i])]
  IN  IF metric = "L2"
      THEN IF useOffset THEN SqL2WithOffset(arch, sq, query, code, offset)
           ELSE SumTo(Len(code), [i \in 1..Len(code) |-> Term(TRUE, query[i], decoded[i])])
      ELSE IF metric = "IP"
      THEN IF useOffset THEN -SqInnerProductWithOffset(arch, sq, query, code, offset)
           ELSE -SumTo(Len(code), [i \in 1..Len(code) |-> Term(FALSE, query[i], decoded[i])])
      ELSE CosineOf(query, [i \in DOMAIN code |-> Value(decoded[i], offset, i, useOffset)])

\* distance_to_code_lut_impl
DistanceToCodeLut(lut, query, code, offset, useOffset, metric) ==
  LET values == [i \in DOMAIN code |-> Value(lut[i][code[i]], offset, i, useOffset)]
  IN  IF metric = "L2" THEN SumTo(Len(code), [i \in 1..Len(code) |-> Term(TRUE, query[i], values[i])])
      ELSE IF metric = "IP" THEN -SumTo(Len(code), [i \in 1..Len(code) |-> Term(FALSE, query[i], values[i])])
      ELSE CosineOf(query, values)

------------------------------------------------------------------------------
(* Distances of blocked codes: a block keeps the codes of one dimension          *)
(* together; the last block has the rows that are left.                         *)

Checkpoint(d) == Lesser(Greater(d \div 2, MinCheckpoint), d)
Steps(sq, i) == (sq.maxs[i] - sq.mins[i]) * (Unit \div CodeMax)

\* Faulty variant of Abandons: one row of the block beyond the cutoff is enough.
AbandonsAny(partial, cutoff) == \E r \in DOMAIN partial : partial[r] >= cutoff

\* A block is left when all of its rows are at the cutoff.
Abandons(partial, cutoff) == \A r \in DOMAIN partial : partial[r] >= cutoff

\* One block of len rows from row start: the first dimensions, the test, the others
BlockL2(biases, scales, codes, start, len, cutoff) ==
  LET d == Len(biases)
      term(r, i) == LET x == biases[i] - codes[start * d + (i - 1) * len + r] * scales[i] IN x * x
      first == [r \in 1..len |-> SumTo(Checkpoint(d), [i \in 1..Checkpoint(d) |-> term(r, i)])]
  IN  IF Checkpoint(d) > 0 /\ Abandons(first, cutoff) THEN first
      ELSE [r \in 1..len |-> first[r] + SumTo(d - Checkpoint(d), [i \in 1..(d - Checkpoint(d)) |-> term(r, Checkpoint(d) + i)])]

\* Row r of count rows in blocks
BlockStart(r, block) == block * ((r - 1) \div block)
BlockLen(start, count, block) == Lesser(block, count - start)

BlockedSqL2Scalar(biases, scales, codes, count, block, cutoff) ==
  [r \in 1..count |->
     LET start == BlockStart(r, block)
     IN  BlockL2(biases, scales, codes, start, BlockLen(start, count, block), cutoff)[r - start]]

\* Whole blocks in registers, the rest scalar from a slice of the codes
BlockedRegisters(biases, scales, codes, count, cutoff) ==
  LET full == Body(BlockSize, count)
      body == [r \in 1..full |-> BlockL2(biases, scales, codes, BlockStart(r, BlockSize), BlockSize, cutoff)[r - BlockStart(r, BlockSize)]]
  IN  IF full = count THEN body
      ELSE body \o BlockedSqL2Scalar(biases, scales, From(codes, full * Len(biases)), count - full, BlockSize, cutoff)

BlockedSqL2Avx2(biases, scales, codes, count, cutoff) == BlockedRegisters(biases, scales, codes, count, cutoff)
BlockedSqL2Neon(biases, scales, codes, count, cutoff) == BlockedRegisters(biases, scales, codes, count, cutoff)

BlockedSqL2(arch, biases, scales, codes, count, block, cutoff) ==
  IF block # BlockSize \/ arch = "scalar" THEN BlockedSqL2Scalar(biases, scales, codes, count, block, cutoff)
  ELSE IF arch = "avx2" THEN BlockedSqL2Avx2(biases, scales, codes, count, cutoff)
  ELSE BlockedSqL2Neon(biases, scales, codes, count, cutoff)

\* distances_to_blocked_codes_with_offset
DistancesToBlockedCodes(arch, sq, query, codes, count, offset, metric, block, cutoff) ==
  LET d == Len(query)
      scales == [i \in 1..d |-> Steps(sq, i)]
      value(r, i) == LET start == BlockStart(r, block)
                     IN  (offset[i] + sq.mins[i]) * Unit
                           + codes[start * d + (i - 1) * BlockLen(start, count, block) + r - start] * scales[i]
      values(r) == [i \in 1..d |-> value(r, i)]
  IN  IF metric = "L2"
      THEN BlockedSqL2(arch, [i \in 1..d |-> (query[i] - offset[i] - sq.mins[i]) * Unit], scales, codes, count, block, cutoff)
      ELSE IF metric = "IP" THEN [r \in 1..count |-> -SumTo(d, [i \in 1..d |-> query[i] * value(r, i)])]
      ELSE [r \in 1..count |-> CosineOf(query, values(r))]

------------------------------------------------------------------------------
(* RaBitQ                                                                       *)

CONSTANTS
  RotationBlock,   \* RQ_ROTATION_BLOCK_SIZE, 64
  ByteBits,        \* 8; a nibble is half of it
  U8Max, U16Range, \* 255 and 2^16
  ChunkBytes,      \* MAX_BYTES_PER_U16_CHUNK, 120
  Refinements      \* QUANTIZATION_REFINEMENT_ROUNDS

Dot(a, b) == SumTo(Len(a), [i \in 1..Len(a) |-> a[i] * b[i]])
Abs(n) == IF n < 0 THEN -n ELSE n
Least(S) == CHOOSE x \in S : \A y \in S : x <= y
Greatest(S) == CHOOSE x \in S : \A y \in S : x >= y
Swapped(s, i, j) == [s EXCEPT ![i] = s[j], ![j] = s[i]]

\* f32::round of p / q for q > 0: halves away from zero
Round(p, q) == IF p >= 0 THEN (2 * p + q) \div (2 * q) ELSE -((q - 2 * p) \div (2 * q))
Clamp(x, lo, hi) == IF x < lo THEN lo ELSE IF x > hi THEN hi ELSE x

------------------------------------------------------------------------------
(* RQRotation                                                                  *)

\* padded_dimension
PaddedDimension(d) == (((IF d = 0 THEN 1 ELSE d) + RotationBlock - 1) \div RotationBlock) * RotationBlock

\* The permutation of a round from the draws of the generator: draws[i] <= i is the
\* place swapped with i, for i from the last place down.
Permutation(draws) ==
  FoldLeft(LAMBDA p, n : Swapped(p, Len(draws) + 1 - n, draws[Len(draws) + 1 - n]),
           [i \in DOMAIN draws |-> i], [n \in 1..(Len(draws) - 1) |-> n])

\* Faulty variant of Butterfly: the second half sees the first half's new value.
ButterflyInPlace(v, i, j) == [v EXCEPT ![i] = v[i] + v[j], ![j] = v[i] + v[j] - v[j]]

Butterfly(v, i, j) == [v EXCEPT ![i] = v[i] + v[j], ![j] = v[i] - v[j]]

\* hadamard_64 of a block, without its last scaling by 1 / sqrt(RotationBlock)
Hadamard(block) ==
  LET pass[width \in 1..RotationBlock] ==
        LET before == IF width = 1 THEN block ELSE pass[width \div 2]
        IN  FoldLeft(LAMBDA v, i : IF ((i - 1) \div width) % 2 = 0 THEN Butterfly(v, i, i + width) ELSE v,
                     before, [i \in 1..RotationBlock |-> i])
  IN  pass[RotationBlock \div 2]

\* apply_in_place: rounds is a sequence of [signs, draws]; unscaled.
ApplyInPlace(rounds, values) ==
  FoldLeft(LAMBDA v, r :
             LET signed == [i \in DOMAIN v |-> IF r.signs[i] THEN -v[i] ELSE v[i]]
                 mixed == FlattenSeq([b \in 1..(Len(v) \div RotationBlock) |->
                            Hadamard(SubSeq(signed, (b - 1) * RotationBlock + 1, b * RotationBlock))])
                 perm == Permutation(r.draws)
             IN  [to \in DOMAIN v |-> mixed[CHOOSE from \in DOMAIN v : perm[from] = to]],
           values, rounds)

\* rotate
Rotate(rounds, input, padded) ==
  ApplyInPlace(rounds, [i \in 1..padded |-> IF i <= Len(input) THEN input[i] ELSE 0])

------------------------------------------------------------------------------
(* Levels, planes and codes                                                    *)

MaxCode(bits) == 2 ^ bits - 1

\* Faulty variant of Level: towards zero instead of to the nearest.
LevelTruncated(value, scale, bits) ==
  Clamp((2 * value * scale.den + MaxCode(bits) * scale.num) \div (2 * scale.num), 0, MaxCode(bits))

\* (value / scale + center).round().clamp(0, max_code), for scale = num / den > 0
Level(value, scale, bits) ==
  Clamp(Round(2 * value * scale.den + MaxCode(bits) * scale.num, 2 * scale.num), 0, MaxCode(bits))

Doubled(levels, bits) == [i \in DOMAIN levels |-> 2 * levels[i] - MaxCode(bits)]

\* quantize_centered_levels: the scale is refined to the best one for the levels.
QuantizeCenteredLevels(residual, bits) ==
  LET largest == Greatest({Abs(residual[i]) : i \in DOMAIN residual})
      step(s, n) ==
        LET levels == [i \in DOMAIN residual |-> Level(residual[i], s.scale, bits)]
            dot == Dot(residual, Doubled(levels, bits))
            norm == Dot(Doubled(levels, bits), Doubled(levels, bits))
        IN  IF s.done THEN s
            ELSE IF dot <= 0 \/ norm <= 0 THEN [levels |-> levels, scale |-> s.scale, done |-> TRUE]
            ELSE [levels |-> levels, scale |-> [num |-> 2 * dot, den |-> norm], done |-> FALSE]
  IN  IF largest = 0 THEN [i \in DOMAIN residual |-> 0]
      ELSE FoldLeft(step, [levels |-> <<>>, scale |-> [num |-> 2 * largest, den |-> MaxCode(bits)], done |-> FALSE],
                    [n \in 1..Refinements |-> n]).levels

Bit(value, n) == (value \div 2 ^ n) % 2

\* Faulty variant of SourceBit: the planes are stored lowest bit first.
SourceBitLow(bits, plane) == plane

\* The bit of a level that a stored plane holds: the highest comes first.
SourceBit(bits, plane) == bits - 1 - plane

\* The code of encode_with_scratch: byte by byte, plane after plane.
RqEncode(levels, bits) ==
  LET planeSize == Len(levels) \div ByteBits
  IN  [c \in 1..(bits * planeSize) |->
         LET plane == (c - 1) \div planeSize
             first == ((c - 1) % planeSize) * ByteBits
         IN  SumTo(ByteBits, [b \in 1..ByteBits |-> Bit(levels[first + b], SourceBit(bits, plane)) * 2 ^ (b - 1)])]

------------------------------------------------------------------------------
(* The tables of a query: prepare_query                                        *)

TrailingZeros(p) == Least({n \in 0..ByteBits : Bit(p, n) = 1})

\* byte_subset_sums and nibble_subset_sums: entry p of a group adds its lowest bit
\* to the entry without it.
SubsetSums(query, width, group) ==
  LET lut[p \in 0..(2 ^ width - 1)] ==
        IF p = 0 THEN 0
        ELSE lut[p - 2 ^ TrailingZeros(p)] + query[(group - 1) * width + TrailingZeros(p) + 1]
  IN  lut

Groups(query, width) == Len(query) \div width

UnsignedPlaneInnerProduct(query, bytes) ==
  SumTo(Len(bytes), [b \in 1..Len(bytes) |-> SubsetSums(query, ByteBits, b)[bytes[b]]])

\* full_inner_product, doubled
FullInnerProduct(query, code, bits) ==
  LET planeSize == Len(code) \div bits
      plane(p) == SubSeq(code, p * planeSize + 1, (p + 1) * planeSize)
  IN  2 * SumTo(bits, [n \in 1..bits |-> 2 ^ (bits - n) * UnsignedPlaneInnerProduct(query, plane(n - 1))])
        - MaxCode(bits) * SumTo(Len(query), [i \in 1..Len(query) |-> query[i]])

Nibble == ByteBits \div 2

Spread(lut) == Greatest({lut[p] : p \in DOMAIN lut}) - Least({lut[p] : p \in DOMAIN lut})

\* Faulty variant of GroupError: the smallest deviation of a group.
GroupErrorLeast(deviations) == Least(deviations)

GroupError(deviations) == Greatest(deviations)

\* The FastScan tables: [min, lut] by nibble group, with scale = range / U8Max.
\* Reconstructed values and the error are scaled by U8Max.
FastScanTables(query) ==
  LET sums == [g \in 1..Groups(query, Nibble) |-> SubsetSums(query, Nibble, g)]
      range == Greatest({Spread(sums[g]) : g \in DOMAIN sums})
      low(g) == Least({sums[g][p] : p \in DOMAIN sums[g]})
      value(g, p) == IF range = 0 THEN 0 ELSE Clamp(Round((sums[g][p] - low(g)) * U8Max, range), 0, U8Max)
      off(g, p) == Abs(low(g) * U8Max + range * value(g, p) - sums[g][p] * U8Max)
  IN  [lut |-> [g \in DOMAIN sums |-> [p \in DOMAIN sums[g] |-> value(g, p)]],
       range |-> range,
       offset |-> SumTo(Len(sums), [g \in 1..Len(sums) |-> low(g)]),
       error |-> SumTo(Len(sums), [g \in 1..Len(sums) |-> GroupError({off(g, p) : p \in DOMAIN sums[g]})])]

\* fastscan_coarse_block_scalar for one lane, scaled by U8Max
FastScanScalar(tables, bytes) ==
  tables.offset * U8Max
    + tables.range * SumTo(Len(bytes), [b \in 1..Len(bytes) |->
        tables.lut[2 * b - 1][bytes[b] % 2 ^ Nibble] + tables.lut[2 * b][bytes[b] \div 2 ^ Nibble]])

\* Faulty variant of ChunkEnds: a chunk of 132 bytes.
ChunkEndsLong(planeSize) ==
  [n \in 1..(((planeSize + ChunkBytes + 11) \div (ChunkBytes + 12)) + 1) |->
     IF (n - 1) * (ChunkBytes + 12) < planeSize THEN (n - 1) * (ChunkBytes + 12) ELSE planeSize]

\* for chunk_start in (0..plane_size).step_by(MAX_BYTES_PER_U16_CHUNK)
ChunkEnds(planeSize) ==
  [n \in 1..(((planeSize + ChunkBytes - 1) \div ChunkBytes) + 1) |->
     IF (n - 1) * ChunkBytes < planeSize THEN (n - 1) * ChunkBytes ELSE planeSize]

\* The vector kernels: u16 accumulators for a chunk of bytes, added to u32 totals.
\* pairs[b] is the sum of the two table entries of byte b.
FastScanVector(planeSize, pairs) ==
  LET ends == ChunkEnds(planeSize)
      chunk(n) == FoldLeft(LAMBDA a, b : (a + pairs[b]) % U16Range, 0,
                           [i \in 1..(ends[n + 1] - ends[n]) |-> ends[n] + i])
  IN  SumTo(Len(ends) - 1, [n \in 1..(Len(ends) - 1) |-> chunk(n)])

------------------------------------------------------------------------------
(* Factors: compute_factors, query_terms, estimate and lower_bound             *)

Sub(a, b) == [i \in DOMAIN a |-> a[i] - b[i]]

\* Faulty variant of ErrorFactor: the error of L2 is not doubled.
ErrorFactorOne(metric) == 1

\* Squared
ErrorFactor(metric) == IF metric = "L2" THEN 4 ELSE 1

\* The factors of a residual, with the centroid and the doubled code; scaled by den.
\* Errors are kept squared.
ComputeFactors(residual, centroid, code, metric) ==
  LET norm == Dot(residual, residual)
      m == Dot(residual, code)
      flat == norm = 0 \/ m = 0
      den == IF flat THEN 1 ELSE m
      rescale == IF flat THEN 0 ELSE norm
      miss == [i \in DOMAIN residual |-> den * residual[i] - rescale * code[i]]
      miss2 == Dot(miss, miss)
      cip == Dot(centroid, code)
  IN  [den |-> den,
       add2 |-> CASE metric = "L2" -> 2 * (norm * den + 2 * rescale * cip)
                  [] metric = "Cosine" -> norm * den + 2 * rescale * cip
                  [] metric = "InnerProduct" -> 2 * (rescale * cip - Dot(residual, centroid) * den),
       rescale2 |-> IF metric = "L2" THEN -4 * rescale ELSE -2 * rescale,
       error2 |-> ErrorFactor(metric) * miss2]

\* query_terms_from_coarse_distance: twice the added term, and the squared error
QueryTerms(query, centroid, metric) ==
  LET norm == Dot(Sub(query, centroid), Sub(query, centroid))
  IN  [add2 |-> CASE metric = "L2" -> 2 * norm
                  [] metric = "Cosine" -> norm
                  [] metric = "InnerProduct" -> norm - Dot(query, query) - Dot(centroid, centroid),
       error2 |-> norm]

\* Twice the estimate, scaled by den; ip is the inner product with the doubled code.
Estimate2(f, t, ip) == f.add2 + t.add2 * f.den + f.rescale2 * ip
==============================================================================

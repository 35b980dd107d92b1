---------------------------- MODULE IndexOptions -----------------------------
(* What is resolved when a caller does not pin it (src/core/src/autotune.rs and  *)
(* src/core/src/index.rs): the lists and the width of a search, and              *)
(* VectorIndexBuildPlan::from_options, which turns the options of a table into   *)
(* the configuration an index is built with, or rejects them.                    *)
(*                                                                               *)
(* Options are a function from the keys that are given; a ratio is a pair        *)
(* <<numerator, denominator>>, a recall a percentage.  Options whose value goes  *)
(* straight to the configuration and meets nothing else there (ScalarKeys) are   *)
(* "valid" or "invalid".                                                         *)
EXTENDS Integers, Sequences, FiniteSets

CONSTANTS
  Unset,        \* an Option that is None
  Auto,         \* the value "auto" of an option
  VectorsPerList, ListFraction, MinNprobe, CandidatesPerResult,
  RotationBlock \* RQ_ROTATION_BLOCK_SIZE

Rejected == -1   \* an io::Error where a width is expected

AtMost(a, b) == IF a <= b THEN a ELSE b
AtLeast(a, b) == IF a >= b THEN a ELSE b
DivCeil(a, b) == (a + b - 1) \div b

------------------------------------------------------------------------------
(* infer_ivf_nlist                                                             *)

FloorPowerOfTwo(value) ==
  LET grow[p \in Nat] == IF 2 * p <= value THEN grow[2 * p] ELSE p
  IN  grow[1]

\* floor(sqrt(n))
FloorRoot(n) == CHOOSE r \in 0..n : r * r <= n /\ (r + 1) * (r + 1) > n

\* Faulty variant of InferIvfNlist: the cap of the training density is not
\* rounded down.
InferIvfNlistRawCap(count) ==
  LET lower == FloorPowerOfTwo(AtLeast(FloorRoot(count), 1))
      nearest == IF 4 * count <= 9 * lower * lower THEN lower ELSE 2 * lower
  IN  IF count = 0 THEN Rejected ELSE AtLeast(AtMost(nearest, count \div VectorsPerList), 1)

\* root - lower <= upper - root, squared
InferIvfNlist(count) ==
  LET lower == FloorPowerOfTwo(AtLeast(FloorRoot(count), 1))
      nearest == IF 4 * count <= 9 * lower * lower THEN lower ELSE 2 * lower
      trainingCap == AtLeast(count \div VectorsPerList, 1)
  IN  IF count = 0 THEN Rejected ELSE AtLeast(AtMost(nearest, FloorPowerOfTwo(trainingCap)), 1)

------------------------------------------------------------------------------
(* infer_ivf_nprobe_with_filter_expansion_cap                                  *)

UnfilteredNprobe(nlist, count, topK) ==
  LET averageRows == AtLeast(DivCeil(count, nlist), 1)
      lists == DivCeil(topK * CandidatesPerResult, averageRows)
  IN  AtMost(AtLeast(AtLeast(MinNprobe, DivCeil(nlist, ListFraction)), lists), nlist)

\* Faulty variant of FilteredNprobe: the selectivity rounds the width down.
FilteredNprobeRoundsDown(base, nlist, count, matching, factor) ==
  LET scaled == AtMost((base * count) \div AtMost(matching, count), nlist)
      cap == IF factor = Unset THEN nlist ELSE AtMost(base * factor, nlist)
  IN  AtMost(scaled, cap)

FilteredNprobe(base, nlist, count, matching, factor) ==
  LET scaled == AtMost(DivCeil(base * count, AtMost(matching, count)), nlist)
      cap == IF factor = Unset THEN nlist ELSE AtMost(base * factor, nlist)
  IN  AtMost(scaled, cap)

InferIvfNprobe(nlist, count, topK, matching, factor) ==
  IF nlist = 0 \/ count = 0 \/ topK = 0 \/ factor = 0 THEN Rejected
  ELSE LET base == UnfilteredNprobe(nlist, count, topK)
       IN  IF matching = Unset THEN base
           ELSE IF matching = 0 THEN 1
           ELSE AtLeast(FilteredNprobe(base, nlist, count, matching, factor), 1)

------------------------------------------------------------------------------
(* VectorSearchParams: p is [topK, mode, width, factor]                        *)

InferDiskannLSearch(topK) == IF topK = 0 THEN Rejected ELSE AtLeast(2 * topK, 100)

ValidParams(p) ==
  /\ p.topK > 0
  /\ p.factor # Unset => p.factor > 0 /\ p.mode = "Auto"

ResolveIvfNprobe(p, nlist, count, matching) ==
  IF p.mode = "Auto" THEN InferIvfNprobe(nlist, count, p.topK, matching, p.factor)
  ELSE IF p.mode = "IvfNProbe" /\ p.width > 0 THEN AtMost(p.width, nlist)
  ELSE Rejected

\* Faulty variant of ResolveDiskannLSearch: a calibrated or given list may be
\* shorter than the results asked for.
ResolveDiskannLSearchShort(p, calibrated) ==
  IF p.factor # Unset THEN Rejected
  ELSE IF p.mode = "Auto" THEN (IF calibrated # Unset THEN calibrated ELSE InferDiskannLSearch(p.topK))
  ELSE IF p.mode = "DiskAnnLSearch" /\ p.width > 0 THEN p.width
  ELSE Rejected

ResolveDiskannLSearch(p, calibrated) ==
  IF p.factor # Unset THEN Rejected
  ELSE IF p.mode = "Auto"
       THEN AtLeast(IF calibrated # Unset THEN calibrated ELSE InferDiskannLSearch(p.topK), p.topK)
  ELSE IF p.mode = "DiskAnnLSearch" /\ p.width > 0 THEN AtLeast(p.width, p.topK)
  ELSE Rejected

------------------------------------------------------------------------------
(* RaBitQ budgets and calibration                                              *)

PaddedDimension(dim) == DivCeil(AtLeast(dim, 1), RotationBlock) * RotationBlock

FactorBytes(bits) == IF bits = 1 THEN 8 ELSE 20

\* Faulty variant of InferRqBits: every width is charged the one-bit factors.
InferRqBitsCheapFactors(dim, maxBytes) ==
  LET fits == {bits \in 1..8 : (PaddedDimension(dim) * bits) \div 8 + 8 <= maxBytes}
  IN  IF fits = {} \/ dim = 0 THEN Rejected
      ELSE CHOOSE bits \in fits : \A other \in fits : other <= bits

InferRqBits(dim, maxBytes) ==
  LET fits == {bits \in 1..8 : (PaddedDimension(dim) * bits) \div 8 + FactorBytes(bits) <= maxBytes}
  IN  IF fits = {} \/ dim = 0 THEN Rejected
      ELSE CHOOSE bits \in fits : \A other \in fits : other <= bits

Meets(c, o) ==
  /\ o.recall # Unset => c.recall >= o.recall
  /\ o.bytes # Unset => c.bytes <= o.bytes
  /\ o.seconds # Unset => c.seconds <= o.seconds

\* Faulty variant of Before: build time decides before the size.
BeforeByTime(a, b) ==
  \/ a.seconds < b.seconds
  \/ a.seconds = b.seconds /\ a.bytes < b.bytes
  \/ a.seconds = b.seconds /\ a.bytes = b.bytes /\ a.recall > b.recall

\* The order of min_by.
Before(a, b) ==
  \/ a.bytes < b.bytes
  \/ a.bytes = b.bytes /\ a.seconds < b.seconds
  \/ a.bytes = b.bytes /\ a.seconds = b.seconds /\ a.recall > b.recall

\* The position of the candidate, or 0: the first of the least ones.
SelectCalibratedCandidate(candidates, o) ==
  LET met == {i \in DOMAIN candidates : Meets(candidates[i], o)}
      least == {i \in met : \A j \in met : ~Before(candidates[j], candidates[i])}
  IN  IF met = {} THEN 0 ELSE CHOOSE i \in least : \A j \in least : i <= j

------------------------------------------------------------------------------
(* VectorIndexBuildPlan                                                        *)

Page == 4096
RowIdBytes == 10                \* PERSISTED_ROW_ID_ESTIMATE_BYTES
DefaultRatio == <<1, 16>>       \* DEFAULT_PQ_CODE_RATIO
DefaultRqBits == 4

Given(o, key) == key \in DOMAIN o
Optional(o, key, default) == IF Given(o, key) THEN o[key] ELSE default
Pinned(o, key) == Given(o, key) /\ o[key] # Auto

------------------------------------------------------------------------------
(* ConfigOptions: the keys an index type reads                                  *)

CommonKeys == {"index.type", "dimension", "metric", "expected-vector-count", "target-recall",
               "max-bytes-per-vector", "max-build-seconds", "deployment-profile"}
IvfKeys == {"nlist", "ivf.coarse-assignment", "ivf.train.max-points-per-centroid"}
ScalarKeys == {"metric", "max-build-seconds", "diskann.seed", "diskann.memory-budget-bytes", "ivf.coarse-assignment",
               "ivf.train.max-points-per-centroid", "pq.train.max-points-per-centroid", "ivf.pq-encoding",
               "diskann.alpha", "diskann.build-distance"}

UsedKeys(type) ==
  CommonKeys \cup
  CASE type \in {"ivf_flat", "ivf_sq"} -> IvfKeys
    [] type = "ivf_pq" -> IvfKeys \cup {"pq.m", "pq.code-ratio", "use-opq", "ivf.pq-encoding",
                                        "pq.train.max-points-per-centroid"}
    [] type = "ivf_rq" -> IvfKeys \cup {"rq.bits"}
    [] type = "diskann" -> {"pq.bits", "pq.m", "pq.code-ratio", "pq.train.max-points-per-centroid",
         "diskann.build-preset", "diskann.max-degree", "diskann.build-search-list-size", "diskann.alpha",
         "diskann.storage-layout", "diskann.raw-vector-encoding", "diskann.build-distance",
         "diskann.seed", "diskann.memory-budget-bytes"}
    [] OTHER -> {}

\* Faulty variant of RejectUnknown: an option of another index type is ignored.
RejectUnknownMisspelt(o) == DOMAIN o \subseteq UNION {UsedKeys(t) : t \in {"ivf_pq", "ivf_rq", "diskann"}}

RejectUnknown(o) == DOMAIN o \subseteq UsedKeys(o["index.type"])

------------------------------------------------------------------------------
(* Product quantizer                                                           *)

ValidRatio(bits, ratio) == bits \in {4, 8} /\ ratio[1] > 0 /\ 32 * ratio[1] <= bits * ratio[2]

\* Target of code_ratio, as a fraction.
TargetM(dim, bits, ratio) == <<dim * 32 * ratio[1], bits * ratio[2]>>

\* round() is half up
InferPqM(dim, bits, ratio) ==
  LET t == TargetM(dim, bits, ratio) IN AtMost(AtLeast((2 * t[1] + t[2]) \div (2 * t[2]), 1), dim)

\* The divisor nearest to the target; the larger of two equally near ones.
InferUniformPqM(dim, bits, ratio) ==
  LET t == TargetM(dim, bits, ratio)
      away(m) == IF m * t[2] >= t[1] THEN m * t[2] - t[1] ELSE t[1] - m * t[2]
      divisors == {m \in 1..dim : dim % m = 0}
  IN  CHOOSE m \in divisors : \A e \in divisors : away(m) < away(e) \/ (away(m) = away(e) /\ m >= e)

\* codeBytes is max_code_bytes.
CodeRatio(o, dim, bits, codeBytes) ==
  IF Given(o, "pq.code-ratio") THEN o["pq.code-ratio"]
  ELSE IF codeBytes = Unset THEN DefaultRatio
  ELSE IF codeBytes * 32 <= bits * 4 * dim THEN <<codeBytes, 4 * dim>> ELSE <<bits, 32>>

PqM(o, dim, bits, uniform, codeBytes) ==
  LET ratio == CodeRatio(o, dim, bits, codeBytes)
  IN  IF ~ValidRatio(bits, ratio) THEN Rejected
      ELSE IF Given(o, "pq.m") THEN o["pq.m"]
      ELSE IF uniform THEN InferUniformPqM(dim, bits, ratio) ELSE InferPqM(dim, bits, ratio)

------------------------------------------------------------------------------
(* DiskANN build parameters                                                    *)

ElementSize(encoding) == IF encoding = "f32" THEN 4 ELSE 2

\* Faulty variant of PresetLayout: the size of the record is not looked at.
PresetLayoutAlways(preset, dim, profile) ==
  IF profile \in {"memory", "local_storage"} THEN "interleaved" ELSE "compact"

PresetLayout(preset, dim, profile) ==
  LET record == dim * ElementSize(preset.encoding) + preset.degree * 4
  IN  IF profile \in {"memory", "local_storage"} /\ record <= Page THEN "interleaved" ELSE "compact"

DiskAnnPreset(name) ==
  CASE name = "fast_build" -> [degree |-> 48, list |-> 64, encoding |-> "f16"]
    [] name = "balanced" -> [degree |-> 64, list |-> 100, encoding |-> "f16"]
    [] name = "high_recall" -> [degree |-> 96, list |-> 200, encoding |-> "f32"]

PresetName(o) ==
  LET recall == Optional(o, "target-recall", 90)
  IN  IF Given(o, "diskann.build-preset") THEN o["diskann.build-preset"]
      ELSE IF recall >= 97 THEN "high_recall" ELSE IF recall <= 85 THEN "fast_build" ELSE "balanced"

RawVectorEncoding(o, dim, degree, preset) ==
  IF Pinned(o, "diskann.raw-vector-encoding") THEN o["diskann.raw-vector-encoding"]
  ELSE IF Given(o, "diskann.raw-vector-encoding") THEN preset.encoding
  ELSE IF Given(o, "max-bytes-per-vector") /\ o["max-bytes-per-vector"] < 4 * dim + 4 * degree THEN "f16"
  ELSE preset.encoding

DiskAnnOptions(o, dim) ==
  LET preset == DiskAnnPreset(PresetName(o))
      degree == Optional(o, "diskann.max-degree", preset.degree)
  IN  [degree |-> degree,
       list |-> Optional(o, "diskann.build-search-list-size", AtLeast(preset.list, degree)),
       layout |-> IF Pinned(o, "diskann.storage-layout") THEN o["diskann.storage-layout"]
                  ELSE PresetLayout(preset, dim, Optional(o, "deployment-profile", "auto")),
       encoding |-> RawVectorEncoding(o, dim, degree, preset)]

DiskAnnPqBits(o, dim) ==
  IF Given(o, "pq.bits") THEN o["pq.bits"]
  ELSE IF Given(o, "max-bytes-per-vector") /\ o["max-bytes-per-vector"] < 4 * dim + 256 THEN 4 ELSE 8

DiskAnnRowBytes(dim, m, bits, build) ==
  dim * ElementSize(build.encoding) + (m * bits + 7) \div 8 + (build.degree * 4 + 8) + RowIdBytes + 12

ValidDiskAnn(c) ==
  /\ c.m \in 1..c.dim /\ c.bits \in {4, 8}
  /\ c.build.degree \in 1..1023 /\ c.build.list >= c.build.degree
  /\ c.build.layout = "interleaved" => c.dim * ElementSize(c.build.encoding) + c.build.degree * 4 <= Page

------------------------------------------------------------------------------
(* The configuration of each index type                                        *)

Nlist(o) ==
  IF Pinned(o, "nlist") THEN o["nlist"]
  ELSE IF Given(o, "expected-vector-count") THEN InferIvfNlist(o["expected-vector-count"]) ELSE Rejected

\* persisted_code_budget
CodeBudget(o) ==
  IF ~Given(o, "max-bytes-per-vector") THEN Unset
  ELSE IF o["max-bytes-per-vector"] > RowIdBytes THEN o["max-bytes-per-vector"] - RowIdBytes ELSE Rejected

RqBits(o, dim) ==
  IF Given(o, "rq.bits") THEN o["rq.bits"]
  ELSE IF CodeBudget(o) = Unset THEN DefaultRqBits
  ELSE IF CodeBudget(o) = Rejected THEN Rejected ELSE InferRqBits(dim, CodeBudget(o))

\* Faulty variant of UseOpq: "auto" turns it on whatever the recall.
UseOpqAutoOn(o) ==
  IF Pinned(o, "use-opq") THEN o["use-opq"] ELSE Given(o, "use-opq") \/ Optional(o, "target-recall", 0) >= 90

UseOpq(o) == IF Pinned(o, "use-opq") THEN o["use-opq"] ELSE Optional(o, "target-recall", 0) >= 90

DiskAnnConfig(o, dim) ==
  LET bits == DiskAnnPqBits(o, dim)
      build == DiskAnnOptions(o, dim)
      left == IF Given(o, "max-bytes-per-vector")
              THEN o["max-bytes-per-vector"] - DiskAnnRowBytes(dim, 0, bits, build) ELSE Unset
  IN  [type |-> "diskann", dim |-> dim, nlist |-> 1, bits |-> bits, build |-> build,
       m |-> IF left # Unset /\ left < 0 THEN Rejected ELSE PqM(o, dim, bits, FALSE, left)]

Config(o) ==
  LET type == o["index.type"]  dim == o["dimension"]
  IN  CASE type \in {"ivf_flat", "ivf_sq"} -> [type |-> type, dim |-> dim, nlist |-> Nlist(o)]
        [] type = "ivf_pq" ->
             [type |-> type, dim |-> dim, nlist |-> Nlist(o), opq |-> UseOpq(o),
              m |-> IF CodeBudget(o) = Rejected THEN Rejected ELSE PqM(o, dim, 8, TRUE, CodeBudget(o))]
        [] type = "ivf_rq" -> [type |-> type, dim |-> dim, nlist |-> Nlist(o), bits |-> RqBits(o, dim)]
        [] type = "diskann" -> DiskAnnConfig(o, dim)

ValidConfig(c) ==
  /\ c.nlist > 0
  /\ c.type = "ivf_pq" => c.m > 0 /\ c.dim % c.m = 0
  /\ c.type = "ivf_rq" => c.bits \in 1..8
  /\ c.type = "diskann" => ValidDiskAnn(c)

------------------------------------------------------------------------------
(* validate_persisted_size_objective                                           *)

RowBytes(c) ==
  CASE c.type = "ivf_flat" -> 4 * c.dim + RowIdBytes
    [] c.type = "ivf_sq" -> c.dim + RowIdBytes
    [] c.type = "ivf_pq" -> c.m + RowIdBytes
    [] c.type = "ivf_rq" -> (PaddedDimension(c.dim) * c.bits + 7) \div 8 + FactorBytes(c.bits) + RowIdBytes
    [] c.type = "diskann" -> DiskAnnRowBytes(c.dim, c.m, c.bits, c.build)

FixedBytes(c) ==
  LET lists == c.nlist * c.dim * 4 + c.nlist * 24
  IN  CASE c.type \in {"ivf_flat", "ivf_rq"} -> lists
        [] c.type = "ivf_sq" -> lists + c.nlist * c.dim * 8
        [] c.type = "ivf_pq" -> lists + c.dim * 256 * 4 + (IF c.opq THEN c.dim * c.dim * 4 ELSE 0)
        [] c.type = "diskann" -> c.dim * 2 ^ c.bits * 4

\* Faulty variant of EstimatedBytes: the fixed data is divided rounding down.
EstimatedBytesRoundsDown(c, count) ==
  RowBytes(c) + (IF count = Unset THEN 0 ELSE FixedBytes(c) \div count)

EstimatedBytes(c, count) ==
  RowBytes(c) + (IF count = Unset THEN 0 ELSE (FixedBytes(c) + count - 1) \div count)

FitsObjective(o, c) ==
  Given(o, "max-bytes-per-vector") =>
    EstimatedBytes(c, Optional(o, "expected-vector-count", Unset)) <= o["max-bytes-per-vector"]

------------------------------------------------------------------------------
NoPlan == [ok |-> FALSE]

\* The values that are parsed before any of them is used.
ParsedOptions(o) ==
  /\ {"index.type", "dimension", "metric"} \subseteq DOMAIN o
  /\ o["dimension"] > 0
  /\ Optional(o, "expected-vector-count", 1) > 0
  /\ Optional(o, "target-recall", 0) \in 0..100
  /\ \A key \in ScalarKeys \cap DOMAIN o : o[key] = "valid"

FromOptions(o) ==
  IF ~ParsedOptions(o) \/ ~RejectUnknown(o) THEN NoPlan
  ELSE LET c == Config(o)
       IN  IF ValidConfig(c) /\ FitsObjective(o, c) THEN [ok |-> TRUE, config |-> c] ELSE NoPlan
==============================================================================

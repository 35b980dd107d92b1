----------------------------- MODULE IndexFacade -----------------------------
(* The facade over the five index families (src/core/src/index.rs): a writer     *)
(* made from a configuration, the file it writes, and the reader opened on it,   *)
(* whose calls are validated, dispatched on the family and answered.  The        *)
(* family's own reader is what the other modules describe; here a call of it is  *)
(* the order in which it decodes, checks, resets, loads and scans.               *)
EXTENDS IndexOptions, SequencesExt

CONSTANTS
  Configs,     \* configurations that validate_config accepts
  Requests,    \* top-K calls
  RangeCalls,  \* range calls
  Malformed,   \* bytes that are not a serialized bitmap
  MaxRows,     \* bound: rows added to a writer
  MaxRounds    \* bound: family calls of one automatic search

VARIABLES
  writer,  \* VectorIndexWriter, or Unset
  file,    \* the bytes at the path: [magic, length, config, rows], or Unset
  reader,  \* VectorIndexReader, or Unset
  tuned,   \* history: the answer of the last calibration that succeeded
  call     \* the last call of the reader and its answer

vars == <<writer, file, reader, tuned, call>>

Ivf == {"ivf_flat", "ivf_sq", "ivf_pq", "ivf_rq"}
Metric == {"l2", "cosine", "inner_product"}

NoStats == [queries |-> 0, scanned |-> 0]
Idle == [op |-> "none", outcome |-> "none"]

Init == writer = Unset /\ file = Unset /\ reader = Unset /\ tuned = Unset /\ call = Idle

------------------------------------------------------------------------------
(* The writer                                                                  *)

\* What of a configuration the family's index keeps (from_config).
FromConfig(c) ==
  [type |-> c.type, dimension |-> c.dimension, metric |-> c.metric,
   nlist |-> IF c.type = "diskann" THEN Unset ELSE c.nlist,
   pqM |-> IF c.type \in {"ivf_pq", "diskann"} THEN c.m ELSE Unset,
   pqBits |-> IF c.type = "ivf_pq" THEN 8 ELSE IF c.type = "diskann" THEN c.bits ELSE Unset,
   rqBits |-> IF c.type = "ivf_rq" THEN c.bits ELSE Unset]

\* A trainer of the configuration finished: VectorIndexWriter::new.
Create ==
  /\ writer = Unset /\ file = Unset
  /\ \E c \in Configs : writer' = [index |-> FromConfig(c), config |-> c, rows |-> 0]
  /\ UNCHANGED <<file, reader, tuned, call>>

\* add_vectors: wellFormed means that the data has n * dimension finite values.
AddVectors ==
  /\ writer # Unset /\ reader = Unset /\ call = Idle
  /\ \E n \in 0..2, ids \in 0..2, wellFormed \in BOOLEAN :
       LET valid == n > 0 /\ wellFormed /\ ids = n
       IN  /\ writer.rows + n <= MaxRows
           /\ writer' = [writer EXCEPT !.rows = IF valid THEN @ + n ELSE @]
           /\ call' = [op |-> "add", n |-> n, ids |-> ids, wellFormed |-> wellFormed,
                       outcome |-> IF valid THEN "ok" ELSE "InvalidInput"]
  /\ UNCHANGED <<file, reader, tuned>>

\* write: a graph needs a row; an output that fails leaves a prefix of the file.
Write ==
  /\ writer # Unset /\ reader = Unset /\ call = Idle
  /\ IF writer.index.type = "diskann" /\ writer.rows = 0
     THEN call' = [op |-> "write", outcome |-> "InvalidInput"] /\ UNCHANGED file
     ELSE \E length \in {0, 4, 64} :
            /\ file' = [magic |-> writer.index.type, length |-> length, index |-> writer.index,
                        config |-> writer.config, rows |-> writer.rows]
            /\ call' = [op |-> "write", outcome |-> IF length = 64 THEN "ok" ELSE "io"]
  /\ UNCHANGED <<writer, reader, tuned>>

\* The path holds something else.
Foreign ==
  /\ file = Unset /\ writer = Unset
  /\ \E length \in {0, 4, 64} : file' = [magic |-> "other", length |-> length]
  /\ UNCHANGED <<writer, reader, tuned, call>>

------------------------------------------------------------------------------
(* open_with_options                                                           *)

\* Faulty variant of OpenError: the error of the header read is returned as it is.
OpenErrorOfHeader(headerRead, magicRead) ==
  IF ~headerRead THEN "io" ELSE IF file.magic = "other" THEN "unknown magic" ELSE "none"

\* A header that cannot be read is read again as four bytes, to name a file that is no
\* index.
OpenError(headerRead, magicRead) ==
  IF ~headerRead THEN (IF magicRead /\ file.magic = "other" THEN "unknown magic" ELSE "io")
  ELSE IF file.magic = "other" THEN "unknown magic" ELSE "none"

\* headerUp and magicUp: the storage answers; opened: the family's own open succeeds.
Open ==
  /\ file # Unset /\ reader = Unset /\ call = Idle
  /\ \E headerUp, magicUp, opened \in BOOLEAN :
       LET headerRead == headerUp /\ file.length >= 64
           magicRead == magicUp /\ file.length >= 4
           error == OpenError(headerRead, magicRead)
           outcome == IF error # "none" THEN error ELSE IF opened THEN "ok" ELSE "io"
       IN  /\ call' = [op |-> "open", headerRead |-> headerRead, magicRead |-> magicRead,
                       outcome |-> outcome]
           /\ reader' = IF outcome # "ok" THEN Unset
                        ELSE [header |-> file.index, total |-> file.rows, resident |-> FALSE,
                              stats |-> NoStats, calibrated |-> Unset]
  /\ UNCHANGED <<writer, file, tuned>>

\* Faulty variant of Metadata: the lists of the header are reported for every family.
MetadataRawLists(r) ==
  [type |-> r.header.type, dimension |-> r.header.dimension, metric |-> r.header.metric,
   nlist |-> r.header.nlist, total |-> r.total, pqM |-> r.header.pqM,
   pqBits |-> IF r.header.type = "ivf_sq" THEN 8 ELSE r.header.pqBits, rqBits |-> r.header.rqBits]

\* metadata: the graph has no lists, and IVF-SQ reports the width of its codes.
Metadata(r) ==
  [type |-> r.header.type, dimension |-> r.header.dimension, metric |-> r.header.metric,
   nlist |-> IF r.header.type = "diskann" THEN 1 ELSE r.header.nlist,
   total |-> r.total, pqM |-> r.header.pqM,
   pqBits |-> IF r.header.type = "ivf_sq" THEN 8 ELSE r.header.pqBits,
   rqBits |-> r.header.rqBits]

\* ResolvedVectorIndexConfig::from
Resolved(c) ==
  [type |-> c.type, dimension |-> c.dimension, metric |-> c.metric,
   nlist |-> IF c.type = "diskann" THEN 1 ELSE c.nlist,
   pqM |-> IF c.type \in {"ivf_pq", "diskann"} THEN c.m ELSE Unset,
   pqBits |-> IF c.type = "ivf_pq" THEN 8 ELSE IF c.type = "diskann" THEN c.bits ELSE Unset,
   rqBits |-> IF c.type = "ivf_rq" THEN c.bits ELSE Unset]

------------------------------------------------------------------------------
(* A call of the reader: the facade checks it and hands it to the family, whose *)
(* entry point takes the steps of call.todo, in the order of its code.  A step  *)
(* may end the call; call.before is a history, the reader as the call met it.   *)

Reply(op, q, outcome, width, steps) ==
  [op |-> op, request |-> q, outcome |-> outcome, width |-> width, rounds |-> <<>>,
   todo |-> steps, saved |-> NoStats, failed |-> FALSE, before |-> reader]

Refuse(op, q, outcome) == call' = Reply(op, q, outcome, Unset, <<>>) /\ UNCHANGED reader
Dispatch(op, q, width, steps) == call' = Reply(op, q, "running", width, steps) /\ UNCHANGED reader

At(step) == call.outcome = "running" /\ call.todo # <<>> /\ Head(call.todo) = step
Proceed == call' = [call EXCEPT !.todo = Tail(@)]
Leave(outcome) == call' = [call EXCEPT !.todo = <<>>, !.outcome = outcome]

ValidQueries(q) == q.wellFormed /\ q.count > 0

\* The query shape, the width and the metric, which the families check once more.
FamilyRefuses(op, r, q) ==
  \/ ~q.wellFormed
  \/ op # "warmup" /\ q.count = 0
  \/ op = "search" /\ q.params.topK = 0
  \/ op = "range" /\ (q.nprobe = 0 \/ q.metric # r.header.metric)
  \/ op = "calibrate" /\ q.topK = 0

CheckAgain ==
  /\ At("check") /\ UNCHANGED <<writer, file, reader, tuned>>
  /\ IF FamilyRefuses(call.op, reader, call.request) THEN Leave("InvalidInput") ELSE Proceed

DecodeFilter ==
  /\ At("decode") /\ UNCHANGED <<writer, file, reader, tuned>>
  /\ IF call.request.filter = Malformed THEN Leave("InvalidInput") ELSE Proceed

\* DiskANN resets its statistics on entry, whether the search succeeds.
ResetStats ==
  /\ At("reset") /\ Proceed
  /\ reader' = [reader EXCEPT !.stats = [queries |-> call.request.count, scanned |-> 0]]
  /\ UNCHANGED <<writer, file, tuned>>

\* An empty DiskANN filter or an empty band is answered before the family loads.
AnswerEmpty ==
  /\ At("empty") /\ UNCHANGED <<writer, file, reader, tuned>>
  /\ LET q == call.request
         empty == IF call.op = "range" THEN q.empty ELSE q.filter = 0
     IN  IF empty THEN call' = [call EXCEPT !.todo = <<>>] ELSE Proceed

\* ensure_loaded, ensure_resident: the family loads itself on its first use.
EnsureLoaded ==
  /\ At("load") /\ UNCHANGED <<writer, file, tuned>>
  /\ \/ reader' = [reader EXCEPT !.resident = TRUE] /\ Proceed
     \/ ~reader.resident /\ Leave("io") /\ UNCHANGED reader

Scan ==
  /\ At("scan") /\ UNCHANGED <<writer, file, reader, tuned>>
  /\ Proceed \/ Leave("io")

------------------------------------------------------------------------------
(* Top-K calls: q is [batch, wellFormed, count, filter, params]                *)

\* The cardinality of the filter, which only an automatic width asks for.
MatchingCount(q) == IF q.filter # Unset /\ q.params.mode = "Auto" THEN q.filter ELSE Unset

Width(r, q) ==
  IF r.header.type = "diskann" THEN ResolveDiskannLSearch(q.params, r.calibrated)
  ELSE ResolveIvfNprobe(q.params, r.header.nlist, r.total, MatchingCount(q))

\* Faulty variant of FacadeRefuses: the family is left to look at the queries.
FacadeRefusesLate(r, q) ==
  ~ValidParams(q.params) \/ MatchingCount(q) = Malformed \/ Width(r, q) = Rejected

\* What the facade turns down: the queries, the parameters, the filter where the width
\* needs it, the width.  A filter with an explicit width is left to the family.
FacadeRefuses(r, q) ==
  \/ ~ValidQueries(q) \/ ~ValidParams(q.params)
  \/ MatchingCount(q) = Malformed
  \/ Width(r, q) = Rejected

IfFiltered(q, steps) == IF q.filter # Unset THEN steps ELSE <<>>

\* Faulty variant of FamilySearch: DiskANN resets its statistics first on every path.
FamilySearchResetsFirst(type, q) ==
  IF type # "diskann"
  THEN IfFiltered(q, <<"decode">>) \o <<"load", "check", "scan">>
       \o (IF type = "ivf_rq" THEN <<"count">> ELSE <<>>)
  ELSE <<"reset", "check">> \o IfFiltered(q, <<"decode", "empty">>) \o <<"load", "scan">>

\* The entry points of the families.  IVF: the filter is decoded, then the reader loads
\* itself and only then looks at its arguments; IVF-RQ stores its statistics at the end.
\* DiskANN: a single search without a filter resets the statistics before it looks at
\* the query, one with a filter after both were found valid; a batch trusts its queries.
FamilySearch(type, q) ==
  IF type # "diskann"
  THEN IfFiltered(q, <<"decode">>) \o <<"load", "check", "scan">>
       \o (IF type = "ivf_rq" THEN <<"count">> ELSE <<>>)
  ELSE IF q.filter = Unset
       THEN (IF q.batch THEN <<"reset">> ELSE <<"reset", "check">>) \o <<"load", "scan">>
       ELSE (IF q.batch THEN <<>> ELSE <<"check">>) \o <<"decode", "reset", "empty", "load", "scan">>

\* search, search_with_roaring_filter, search_batch, search_batch_with_roaring_filter
Search ==
  /\ reader # Unset /\ call = Idle
  /\ \E q \in Requests :
       IF FacadeRefuses(reader, q) THEN Refuse("search", q, "InvalidInput")
       ELSE /\ call' = [Reply("search", q, "running", Width(reader, q), FamilySearch(reader.header.type, q))
                         EXCEPT !.rounds = <<q.count>>]
            /\ UNCHANGED reader
  /\ UNCHANGED <<writer, file, tuned>>

RoundStats(queries) == [queries |-> queries, scanned |-> queries]

\* IVF-RQ leaves the statistics of each of its calls that succeeds.
CountRound ==
  /\ At("count") /\ Proceed
  /\ reader' = [reader EXCEPT !.stats = RoundStats(call.rounds[Len(call.rounds)])]
  /\ UNCHANGED <<writer, file, tuned>>

RoundDone == call.op = "search" /\ call.outcome = "running" /\ call.todo = <<>>

\* Only an automatic IVF search that found too little and can still widen has another
\* round, of all queries or, in a batch, of a chunk of the incomplete ones.
NextRound ==
  /\ RoundDone /\ UNCHANGED <<writer, file, reader, tuned>>
  /\ LET q == call.request
         available == IF MatchingCount(q) = Unset THEN reader.total ELSE q.filter
     IN  /\ reader.header.type # "diskann" /\ q.params.mode = "Auto"
         /\ call.width < reader.header.nlist /\ AtMost(q.params.topK, available) > 0
         /\ Len(call.rounds) < MaxRounds
         /\ \E n \in 1..q.count :
              call' = [call EXCEPT !.rounds = Append(@, n),
                                   !.todo = FamilySearch(reader.header.type, q)]

\* IVFRQSearchStats::merge over the rounds
Merged(rounds) == FoldLeft(LAMBDA sum, n : [queries |-> sum.queries + n, scanned |-> sum.scanned + n],
                           NoStats, rounds)

\* Faulty variant of StatsAfter: a batch reports its last round.
StatsAfterLastRound(r, q, rounds) == r.stats

\* An IVF-RQ batch that succeeds stores the sum of its rounds with the caller's number of
\* queries.
StatsAfter(r, q, rounds) ==
  IF r.header.type = "ivf_rq" /\ q.batch THEN [Merged(rounds) EXCEPT !.queries = q.count] ELSE r.stats

FinishSearch ==
  /\ RoundDone /\ Leave("ok")
  /\ reader' = [reader EXCEPT !.stats = StatsAfter(reader, call.request, call.rounds)]
  /\ UNCHANGED <<writer, file, tuned>>

------------------------------------------------------------------------------
(* Range calls: c is [wellFormed, count, nprobe, metric, empty, filter]        *)

\* Faulty variant of SupportsRangeSearch: the metric alone decides.
SupportsRangeSearchByMetric(r) == Metadata(r).metric \in Metric

\* supports_range_search of the reader and of its IndexType
SupportsRangeSearch(r) == Metadata(r).type \in Ivf /\ Metadata(r).metric \in Metric

\* Faulty variant of RangeError: the family is matched before the filter is decoded.
RangeErrorFamilyFirst(r, c) ==
  IF ~ValidQueries(c) \/ c.nprobe = 0 \/ c.metric # r.header.metric THEN "InvalidInput"
  ELSE IF r.header.type = "diskann" THEN "Unsupported"
  ELSE IF c.filter = Malformed THEN "InvalidInput" ELSE "none"

\* validate_query(s), validate_range_request and the filter come before the match on
\* the family.
RangeError(r, c) ==
  IF ~ValidQueries(c) \/ c.nprobe = 0 \/ c.metric # r.header.metric \/ c.filter = Malformed
  THEN "InvalidInput"
  ELSE IF r.header.type = "diskann" THEN "Unsupported" ELSE "none"

\* range_search and its filtered and batched forms
RangeSearch ==
  /\ reader # Unset /\ call = Idle
  /\ \E c \in RangeCalls :
       LET error == RangeError(reader, c)
       IN  IF error # "none" THEN Refuse("range", c, error)
           ELSE Dispatch("range", c, Unset, <<"check", "empty", "load", "scan">>)
  /\ UNCHANGED <<writer, file, tuned>>

------------------------------------------------------------------------------
(* Preparation: q is [wellFormed, count], of a calibration also [topK]         *)

\* optimize_for_search of the family, which may fail after it has loaded itself.
Optimize ==
  /\ At("optimize") /\ UNCHANGED <<writer, file, tuned>>
  /\ \/ reader' = [reader EXCEPT !.resident = TRUE] /\ Proceed
     \/ \E loaded \in BOOLEAN : reader' = [reader EXCEPT !.resident = @ \/ loaded] /\ Leave("io")

SaveStats == At("save") /\ call' = [call EXCEPT !.todo = Tail(@), !.saved = reader.stats] /\ UNCHANGED <<writer, file, reader, tuned>>

RestoreStats ==
  /\ At("restore") /\ Proceed
  /\ reader' = [reader EXCEPT !.stats = call.saved]
  /\ UNCHANGED <<writer, file, tuned>>

\* Faulty variant of Replay: the first search that fails is returned at once.
ReplayReturnsAtOnce ==
  /\ At("replay") /\ UNCHANGED <<writer, file, tuned>>
  /\ reader' = [reader EXCEPT !.stats = [queries |-> 1, scanned |-> 0]]
  /\ Proceed \/ Leave("io")

\* The searches of a warm-up, each of which resets the statistics; the first that fails
\* is returned, after the statistics are put back.
Replay ==
  /\ At("replay") /\ UNCHANGED <<writer, file, tuned>>
  /\ reader' = [reader EXCEPT !.stats = [queries |-> 1, scanned |-> 0]]
  /\ \E failed \in BOOLEAN : call' = [call EXCEPT !.todo = Tail(@), !.failed = failed]

\* One search_batch of a calibration; when it fails the statistics are not put back.
Sample ==
  /\ At("sample") /\ UNCHANGED <<writer, file, tuned>>
  /\ reader' = [reader EXCEPT !.stats = [queries |-> call.request.count, scanned |-> 0]]
  /\ Proceed \/ Leave("io")

\* Faulty variant of Calibrated: the width of an earlier call is kept.
CalibratedOnce(r, width) == IF r.calibrated # Unset THEN r ELSE [r EXCEPT !.calibrated = width]

Calibrated(r, width) == [r EXCEPT !.calibrated = width]

\* The narrowest width that is stable enough, or the widest.
Choose ==
  /\ At("choose") /\ UNCHANGED <<writer, file>>
  /\ \E width \in {AtLeast(w, call.request.topK) : w \in {100, 200, 400}} :
       /\ reader' = Calibrated(reader, width) /\ tuned' = width
       /\ call' = [call EXCEPT !.todo = Tail(@), !.width = width]

OptimizeForSearch ==
  /\ reader # Unset /\ call = Idle
  /\ Dispatch("optimize", Unset, Unset, <<"optimize">>)
  /\ UNCHANGED <<writer, file, tuned>>

\* Only DiskANN replays the queries; without one it is optimized and nothing else.
WarmupQueries ==
  /\ reader # Unset /\ call = Idle
  /\ \E wellFormed \in BOOLEAN, count \in 0..1 :
       LET q == [wellFormed |-> wellFormed, count |-> count]
       IN  IF ~wellFormed THEN Refuse("warmup", q, "InvalidInput")
           ELSE Dispatch("warmup", q, Unset,
                         IF reader.header.type # "diskann" THEN <<"optimize">>
                         ELSE <<"check", "optimize">> \o
                              (IF count = 0 THEN <<>> ELSE <<"save", "replay", "restore">>))
  /\ UNCHANGED <<writer, file, tuned>>

CalibrateSearchWidth ==
  /\ reader # Unset /\ call = Idle
  /\ \E wellFormed \in BOOLEAN, count \in 0..2, topK \in {0, 1, 150} :
       LET q == [wellFormed |-> wellFormed, count |-> count, topK |-> topK]
       IN  IF ~ValidQueries(q) \/ topK = 0 \/ reader.header.type # "diskann"
           THEN Refuse("calibrate", q, "InvalidInput")
           ELSE Dispatch("calibrate", q, Unset, <<"check", "optimize", "save", "sample", "sample",
                                                  "sample", "restore", "choose">>)
  /\ UNCHANGED <<writer, file, tuned>>

\* The family's answer is the facade's.
Finish ==
  /\ call.outcome = "running" /\ call.todo = <<>> /\ call.op # "search"
  /\ Leave(IF call.failed THEN "io" ELSE "ok")
  /\ UNCHANGED <<writer, file, reader, tuned>>

\* The caller takes the answer; the writer and the reader serve one call at a time.
Return ==
  /\ call # Idle /\ call.outcome # "running"
  /\ call' = Idle /\ UNCHANGED <<writer, file, reader, tuned>>

Next ==
  \/ Return
  \/ Create \/ AddVectors \/ Write \/ Foreign \/ Open
  \/ Search \/ RangeSearch \/ OptimizeForSearch \/ WarmupQueries \/ CalibrateSearchWidth
  \/ CheckAgain \/ DecodeFilter \/ ResetStats \/ AnswerEmpty \/ EnsureLoaded \/ Scan
  \/ CountRound \/ NextRound \/ FinishSearch
  \/ Optimize \/ SaveStats \/ RestoreStats \/ Replay \/ Sample \/ Choose \/ Finish

Spec == Init /\ [][Next]_vars

------------------------------------------------------------------------------
(* Properties                                                                  *)

CallerBug(c) ==
  \/ ~c.wellFormed \/ c.count = 0 \/ c.filter = Malformed
  \/ call.op = "range" /\ (c.nprobe = 0 \/ c.metric # reader.header.metric)

\* A request that is wrong in itself is answered InvalidInput by every family, also by
\* the one that serves no range search and by the ones that decode the filter late: a
\* caller that falls back to a scan on Unsupported never hides its own bug
\* (validate_range_request).
CallerBugsComeFirst ==
  call.op \in {"search", "range"} /\ call.outcome # "running" /\ CallerBug(call.request)
  => call.outcome = "InvalidInput"

\* supports_range_search tells exactly whether a valid range request is Unsupported.
CapabilityIsHonest ==
  call.op = "range" /\ call.outcome \notin {"InvalidInput", "running"}
  => (call.outcome = "Unsupported" <=> ~SupportsRangeSearch(reader))

\* The statistics of an IVF-RQ batch that succeeded cover all of its rounds, and count
\* every query of the caller once; those of a single search are its last round's, which
\* scanned all of the probes again.
StatsCoverTheCall ==
  call.op = "search" /\ call.outcome = "ok" /\ reader.header.type = "ivf_rq"
  => /\ reader.stats.queries = call.request.count
     /\ LET scans == UNION {{<<i, n>> : n \in 1..call.rounds[i]} :
                              i \in IF call.request.batch THEN DOMAIN call.rounds ELSE {Len(call.rounds)}}
        IN  reader.stats.scanned = Cardinality(scans)

\* An automatic DiskANN search uses the width of the last calibration that succeeded,
\* whatever failed since, and an explicit width is used as it is; neither is below the
\* number of results.
CalibrationGoverns ==
  call.op = "search" /\ call.outcome # "InvalidInput" /\ reader.header.type = "diskann"
  => LET p == call.request.params
         wanted == IF p.mode # "Auto" THEN p.width
                   ELSE IF tuned # Unset THEN tuned ELSE AtLeast(2 * p.topK, 100)
     IN  call.width = AtLeast(wanted, p.topK)

\* The metadata of a reader on a written file is what the configuration resolved to,
\* and the rows are those that the writer had accepted, except that IVF-SQ also reports
\* its code width.
MetadataAgreesWithConfig ==
  reader # Unset
  => LET m == Metadata(reader)
         c == Resolved(file.config)
     IN  /\ \A field \in DOMAIN c \ {"pqBits"} : m[field] = c[field]
         /\ m.pqBits = IF c.type = "ivf_sq" THEN 8 ELSE c.pqBits
         /\ m.total = file.rows

\* Opening a file that is no index says so whenever its first four bytes could be read,
\* also when the file is shorter than a header; an index is never called unknown.
OpenNamesTheMagic ==
  call.op = "open"
  => (call.outcome = "unknown magic" <=> file.magic = "other" /\ (call.headerRead \/ call.magicRead))

Ended == call.op \notin {"none", "add", "write", "open"} /\ call.outcome # "running"

\* A call of the reader that ends with a refusal, in the facade or steps later in the
\* family, leaves the reader as the call met it: not loaded, its statistics and its
\* calibrated width kept.  The families load themselves or reset their statistics before
\* they look at their arguments, so this rests on what the facade checked before.
RefusalIsClean ==
  Ended /\ call.outcome \in {"InvalidInput", "Unsupported"} => reader = call.before

\* Range searches, warm-ups and optimizations leave the statistics of the last top-K
\* search, whether they succeed or fail, and so does a calibration that succeeds.
OnlyTopKCounts ==
  Ended /\ call.op # "search" /\ (call.op = "calibrate" => call.outcome = "ok")
  => reader.stats = call.before.stats

\* Only a calibration that succeeds changes the calibrated width.
OnlyCalibrationTunes ==
  Ended /\ reader.calibrated # call.before.calibrated => call.op = "calibrate" /\ call.outcome = "ok"
==============================================================================

------------------------------- MODULE MCPlans -------------------------------
(***************************************************************************)
(* What is decided before bytes move: how the memory budget of a reader is *)
(* divided, which windows and strategy a search plans, which widths a      *)
(* query resolves to and which plan the options of a table resolve to.     *)
(* The first is a machine; the others are functions, and a behaviour is    *)
(* one call of one of them: `call` is its input, `result` what it returns. *)
(***************************************************************************)
EXTENDS MemoryBudget, SequencesExt, FiniteSetsExt, TLC

CONSTANTS
  None, PageSize, MaxI64, MinExactRerank, MinGraphList, SmallWindow,
  Unset, Auto, VectorsPerList, ListFraction, MinNprobe, CandidatesPerResult, RotationBlock

VARIABLES call, result

Planning == INSTANCE DiskAnnPlanning
Options == INSTANCE IndexOptions

allVars == <<vars, call, result>>

Returned(fn) == call.fn = fn /\ result # None

-----------------------------------------------------------------------------
(* Budgets: one unit is 4 KiB of window, or one preload alignment.  They run   *)
(* from one that cannot hold the resident sections to one that holds all.      *)

Layout(c, dc, r, codes, a, n) ==
  [codebook |-> c, decodedCodebook |-> dc, rowIds |-> r, codes |-> codes, adjacencyIndex |-> a,
   norms |-> n, validation |-> 0]

MCLayouts == {Layout(0, 0, 2, 0, 1, 0), Layout(1, 1, 2, 1, 1, 1), Layout(1, 1, 1, 0, 2, 3)}

MCPreloadCap == [local |-> 4, remote |-> 8]
MCPerCacheCap == [local |-> 5, remote |-> 1000]
MCPlanOf == [local |-> [window |-> 8, beam |-> 4, filteredBeam |-> 4],
             remote |-> [window |-> 32, beam |-> 16, filteredBeam |-> 4]]
MCCapabilities == {[preferred |-> 0, maxRanges |-> 0], [preferred |-> 1, maxRanges |-> 1],
                   [preferred |-> 9, maxRanges |-> 3], [preferred |-> 500, maxRanges |-> 8]}

-----------------------------------------------------------------------------
(* Reads.  Window and record sizes include a record larger than a window, one  *)
(* that divides it and one that does not; the row IDs include repeated and     *)
(* negative ones, the filter an element above i64::MAX.                        *)

SomeCandidates == {[node |-> n, distance |-> d] : n \in 0..3, d \in 0..1}

DistinctNodes(s) == \A i, j \in DOMAIN s : i # j => s[i].node # s[j].node

ReadCalls ==
  [fn : {"window"}, window : {4, 6, 8}, record : 1..9, count : 1..5, offset : {0, 8}]
  \cup {c \in [fn : {"heap"}, scored : BoundedSeq(SomeCandidates, 3), limit : 0..3] :
          DistinctNodes(c.scored)}
  \cup {[fn |-> "expand", candidates |-> Planning!SortCandidates(S), seeds |-> k, per |-> p, count |-> 3] :
          S \in {T \in SUBSET SomeCandidates : \A a, b \in T : a # b => a.node # b.node},
          k \in 1..3, p \in 1..3}
  \cup [fn : {"strategy"}, count : {0, 4, 40, 100, 1000}, matching : {0, 4, 20, 100, 1000},
        topK : {1, 10, 30}, lSearch : {0, 4, 20}, degree : {0, 1, 4}, window : {16, 64},
        preloaded : BOOLEAN]
  \cup [fn : {"rows"}, rowIds : BoundedSeq({-1, 0, 1, 3}, 4), filter : SUBSET {0, 1, 2, 3, 9}]
  \cup [fn : {"stability"}, left : BoundedSeq(1..3, 3), right : BoundedSeq(1..3, 3)]

ReadFunctions == {"window", "heap", "expand", "strategy", "rows", "stability"}

Planned(c) ==
  CASE c.fn = "window" ->
         [n \in 0..(c.count - 1) |->
            Planning!WindowForNode(c.window, [offset |-> c.offset, length |-> c.count * c.record], c.record, n)]
    [] c.fn = "heap" -> Planning!SortCandidates(Planning!ScoreFilteredCandidateChunk({}, c.scored, c.limit))
    [] c.fn = "expand" -> Planning!ExpandRerankCandidates(c.candidates, c.seeds, [n \in 0..c.count |-> n \div c.per])
    [] c.fn = "strategy" -> Planning!SelectFilteredStrategy(c.count, c.matching, c.topK, c.lSearch, c.degree,
                                                  c.window, c.preloaded)
    [] c.fn = "rows" -> Planning!MatchingRanges(Planning!RowIdOrder(c.rowIds), c.rowIds, c.filter)
    [] c.fn = "stability" -> Planning!Overlap(c.left, c.right)

-----------------------------------------------------------------------------
(* Widths. *)

Counts == 0..300 \cup 560..600 \cup 4000..4200 \cup {8191, 8192, 9216, 9217, 16384, 36864, 36865, 65536}
Nlists == {1, 5, 16, 40, 160}
TopKs == {1, 10, 300}
Factors == {1, 2, 3}
Widths == {0, 1, 12, 400}

SearchParams ==
  {p \in [topK : TopKs, mode : {"Auto", "IvfNProbe", "DiskAnnLSearch"}, width : Widths,
          factor : Factors \cup {Unset}] : Options!ValidParams(p)}
Candidates == [recall : {90, 95}, bytes : {8, 16}, seconds : {1, 2}]
Objectives == [recall : {Unset, 93}, bytes : {Unset, 10}, seconds : {Unset, 1}]

WidthCalls ==
  [fn : {"nlist"}, count : Counts]
  \cup [fn : {"nprobe"}, p : SearchParams, nlist : Nlists, count : {40, 1000},
        matching : {Unset, 0, 1, 7, 39, 40, 500, 2000}]
  \cup [fn : {"lsearch"}, p : SearchParams, calibrated : {Unset, 3, 150}]
  \cup [fn : {"select"}, o : Objectives, candidates : UNION {[1..n -> Candidates] : n \in 0..2}]

-----------------------------------------------------------------------------
(* Options. *)

\* The options of a record, without the ones that are Unset.
Table(r) == [key \in {k \in DOMAIN r : r[k] # Unset} |-> r[key]]
OneOf(key, values) == {key :> v : v \in values}
Join(A, B) == {a @@ b : <<a, b>> \in A \X B}

Basic(types, dims) ==
  Join(OneOf("index.type", types), Join(OneOf("dimension", dims), OneOf("metric", {"valid"})))

\* Each family is a pair of sets of tables, joined in Init.
IvfTables ==
  <<Join(Basic({"ivf_flat", "ivf_sq", "ivf_pq", "ivf_rq"}, {1, 6, 10, 64, 65}), OneOf("nlist", {Unset, Auto, 0, 4})),
    Join(OneOf("expected-vector-count", {Unset, 0, 1, 700, 1000}),
         OneOf("max-bytes-per-vector", {Unset, 10, 14, 15, 20, 26, 32, 46, 60, 61, 74, 75, 266, 300}))>>

PqTables ==
  <<Join(Basic({"ivf_pq"}, {6, 10, 12}),
      Join(Join(OneOf("nlist", {2}), OneOf("pq.m", {Unset, 0, 2, 5})),
           OneOf("pq.code-ratio", {Unset, <<1, 16>>, <<1, 8>>, <<1, 4>>, <<1, 3>>, <<0, 1>>}))),
    Join(Join(OneOf("use-opq", {Unset, Auto, TRUE, FALSE}), OneOf("target-recall", {Unset, 90, 101})),
         Join(OneOf("expected-vector-count", {Unset, 700}), OneOf("max-bytes-per-vector", {Unset, 14, 40})))>>

RqTables ==
  <<Join(Basic({"ivf_rq"}, {64, 65}), Join(OneOf("nlist", {2}), OneOf("rq.bits", {Unset, 0, 1, 2, 8, 9}))),
    OneOf("max-bytes-per-vector", {Unset, 25, 26, 45, 46, 47, 54, 62, 94, 200})>>

\* The bytes of a DiskANN row of each element size and preset degree, exactly,
\* one less, and with room for a few PQ codes.
RowBudgets ==
  {Unset} \cup {e * 20 + 4 * degree + 30 + spare : e \in {2, 4}, degree \in {48, 64, 96}, spare \in {-1, 0, 1, 3, 20}}

DiskAnnSizes ==
  <<Join(Basic({"diskann"}, {20}), Join(OneOf("max-bytes-per-vector", RowBudgets), OneOf("target-recall", {Unset, 85, 97}))),
    Join(Join(OneOf("pq.bits", {Unset, 4, 5}), OneOf("pq.m", {Unset, 2, 21})),
      Join(OneOf("diskann.raw-vector-encoding", {Unset, Auto, "f32"}),
           Join(OneOf("diskann.max-degree", {Unset, 20}), OneOf("expected-vector-count", {Unset, 1000}))))>>

DiskAnnLayouts ==
  <<Join(Basic({"diskann"}, {12, 927, 928, 929, 1920, 1921}),
      Join(OneOf("deployment-profile", {Unset, "memory", "local_storage", "object_store"}),
           OneOf("diskann.build-preset", {Unset, "fast_build", "high_recall"}))),
    Join(Join(OneOf("diskann.max-degree", {Unset, 0, 600, 1024}), OneOf("diskann.build-search-list-size", {Unset, 90})),
      Join(OneOf("diskann.storage-layout", {Unset, Auto, "compact", "interleaved"}),
        Join(OneOf("diskann.raw-vector-encoding", {Unset, "f32", "f16"}), OneOf("target-recall", {Unset, 80}))))>>

\* An option of another type, a missing one and one that is not valid.
Misfits ==
  <<Basic({"ivf_flat", "ivf_pq", "ivf_rq", "ivf_sq", "diskann"}, {12}) \cup OneOf("dimension", {12}),
    Join(OneOf("expected-vector-count", {1000}),
      UNION {OneOf(key, {"valid", "invalid"}) : key \in Options!ScalarKeys} \cup OneOf("pq.m", {4}) \cup OneOf("rq.bits", {2})
      \cup OneOf("nlist", {2}) \cup OneOf("diskann.max-degree", {70}) \cup OneOf("use-opq", {TRUE}))>>

-----------------------------------------------------------------------------

\* The planning functions are called beside a reader of an empty index.
Idle ==
  /\ index = [budget |-> 3, steady |-> 0, peak |-> 0, order |-> 0, adjacency |-> 0, vectors |-> 0,
              tier |-> "local", caps |-> [preferred |-> 0, maxRanges |-> 0]]
  /\ opts = ResolveCacheBudgets(index.tier, index.budget, index.steady, index.adjacency, index.vectors)
  /\ resident = FALSE /\ caches = [adjacency |-> 0, raw |-> 0] /\ hot = 0
  /\ order = "NotLoaded" /\ transient = 0 /\ copy = 0 /\ phase = "idle" /\ lost = FALSE

PartsInit ==
  /\ result = None
  /\ \/ Init /\ call = [fn |-> "budget"]
     \/ Idle /\ call \in ReadCalls
     \/ Idle /\ call \in WidthCalls
     \/ /\ Idle
        /\ \E family \in {IvfTables, PqTables, RqTables, DiskAnnSizes, DiskAnnLayouts, Misfits} :
             \E a \in family[1], b \in family[2] : call = [fn |-> "options", options |-> Table(a @@ b)]

\* A planning function returns.
Evaluate ==
  /\ call.fn # "budget" /\ result = None
  /\ result' = IF call.fn \in ReadFunctions THEN Planned(call) ELSE "returned"
  /\ UNCHANGED <<vars, call>>

PartsNext == Evaluate \/ (call.fn = "budget" /\ Next /\ UNCHANGED <<call, result>>)

PartsSpec == PartsInit /\ [][PartsNext]_allVars

-----------------------------------------------------------------------------
(* Planned reads. *)

\* Every raw vector lies whole inside the window planned for its node, at a
\* place the record lookup finds, and inside the section.  A window never cuts
\* a record in two, whatever the window and record sizes
\* (VectorWindowPlanner::window_for_node, record).
RecordsLieWholeInTheirWindow ==
  Returned("window") =>
    LET section == [offset |-> call.offset, length |-> call.count * call.record]
    IN  \A n \in 0..(call.count - 1) :
          /\ result[n] # None
          /\ Planning!RecordRange(section, call.record, result[n], n) # None
          /\ result[n].offset + result[n].length <= section.offset + section.length

\* Two planned windows are the same or disjoint: reranking reads no byte of the
\* section twice (VectorWindowPlanner::plan_nodes).
PlannedWindowsAreDisjoint ==
  Returned("window") =>
    LET plan == Planning!PlanWindows({result[n] : n \in DOMAIN result})
    IN  \A i \in 1..(Len(plan) - 1) : plan[i].offset + plan[i].length <= plan[i + 1].offset

\* Whatever the order the nodes are scored in, the bounded heap ends with the
\* `limit` best of them by (distance, node) (push_bounded_candidate).
HeapKeepsTheBest ==
  Returned("heap") =>
    LET sorted == Planning!SortCandidates(ToSet(call.scored))
    IN  result = SubSeq(sorted, 1, Planning!Least(call.limit, Len(sorted)))

\* The expansion keeps every seed, keeps the candidates' order, and costs no read:
\* the windows of what it selects are the windows of the seeds; and nothing that
\* is free is left out (expand_rerank_candidates_within_seed_windows).
ExpansionIsFreeAndComplete ==
  Returned("expand") =>
    LET window(c) == c.node \div call.per
        seeds == {call.candidates[i] : i \in 1..Planning!Least(call.seeds, Len(call.candidates))}
        free == {c \in ToSet(call.candidates) : \E s \in seeds : window(s) = window(c)}
    IN  /\ ToSet(result) = free
        /\ \A i, j \in DOMAIN result : i < j => Planning!Better(result[i], result[j])

\* A filtered query goes to the graph only when the graph can deliver the target
\* number of candidates and evaluates at most half the distances the scan would
\* (select_filtered_candidate_strategy).
GraphOnlyWhenItPays ==
  Returned("strategy") /\ result.graph =>
    /\ result.target <= result.list
    /\ result.list * (call.degree + 1) <= call.matching \div 2

\* The binary search over the row-ID order selects the nodes the sequential scan
\* selects, with repeated, negative and out-of-range row IDs
\* (matching_ranges_from_row_id_order, matching_nodes_from_sequential_row_ids).
OrderLookupAgreesWithScan ==
  Returned("rows") => result = Planning!MatchingSequential(call.rowIds, call.filter)

\* The counted overlap is the size of the multiset intersection
\* (topk_result_stability).
OverlapIsMultisetIntersection ==
  Returned("stability") =>
    result = MapThenSumSet(LAMBDA id : Planning!Least(Planning!CountOf(call.left, id), Planning!CountOf(call.right, id)),
                           ToSet(call.left))

-----------------------------------------------------------------------------
(* Resolved widths. *)

PowersOfTwo == {1, 2, 4, 8, 16, 32, 64, 128, 256}
Dense(count, n) == n = 1 \/ count >= n * VectorsPerList

\* infer_ivf_nlist chooses a power of two that leaves every list its training
\* vectors, or one list, and among those none is nearer to the square root of
\* the number of vectors: rounding the cap cannot break the power of two, and
\* capping cannot pass over a nearer one.
NlistIsNearestDense ==
  Returned("nlist") /\ call.count > 0 =>
    LET chosen == Options!InferIvfNlist(call.count)
        Nearer(p) == IF p < chosen THEN (p + chosen) * (p + chosen) > 4 * call.count
                                   ELSE (p + chosen) * (p + chosen) < 4 * call.count
    IN  /\ chosen \in PowersOfTwo /\ Dense(call.count, chosen)
        /\ \A p \in PowersOfTwo \ {chosen} : Dense(call.count, p) => ~Nearer(p)

WidthOf(c) == Options!ResolveIvfNprobe(c.p, c.nlist, c.count, c.matching)
Unfiltered(c) == WidthOf([c EXCEPT !.matching = Unset])

\* An automatic filtered search probes enough lists for as many matching rows,
\* on the average, as the unfiltered one has rows, unless it probes every list
\* or the caller's expansion factor stops it; never past that factor; and fewer
\* matching rows never make it narrower, short of none at all.
FilterWidensBySelectivity ==
  Returned("nprobe") /\ call.p.mode = "Auto" /\ call.matching \notin {Unset, 0} =>
    LET width == WidthOf(call)
        capped == call.p.factor # Unset /\ width = Unfiltered(call) * call.p.factor
    IN  /\ width = call.nlist \/ capped \/ width * call.matching >= Unfiltered(call) * call.count
        /\ call.p.factor # Unset => width <= Unfiltered(call) * call.p.factor
        /\ \A more \in call.matching..(call.matching + 3) : WidthOf([call EXCEPT !.matching = more]) <= width

\* The width is not of the other family, and not a zero.
OfFamily(p, other) == p.mode # other /\ (p.mode = "Auto" \/ p.width > 0)

\* A resolved width can serve the query: 1..nlist lists, and no fewer when a
\* filter expansion cap is given than without a filter; a DiskANN search list
\* that holds top_k results, calibrated or given.
WidthServesTheQuery ==
  /\ Returned("nprobe") /\ OfFamily(call.p, "DiskAnnLSearch") =>
       /\ WidthOf(call) \in 1..call.nlist
       /\ call.matching \notin {Unset, 0} => WidthOf(call) >= Unfiltered(call)
  /\ Returned("lsearch") /\ OfFamily(call.p, "IvfNProbe") /\ call.p.factor = Unset =>
       Options!ResolveDiskannLSearch(call.p, call.calibrated) >= call.p.topK

\* The calibrated candidate meets every target, no smaller one does, no equally
\* small one builds faster, and there is none only if no candidate meets them.
CalibratedIsSmallest ==
  Returned("select") =>
    LET i == Options!SelectCalibratedCandidate(call.candidates, call.o)
        Good == {j \in DOMAIN call.candidates : Options!Meets(call.candidates[j], call.o)}
    IN  /\ (i = 0) = (Good = {})
        /\ i # 0 => /\ i \in Good
                    /\ \A j \in Good : LET a == call.candidates[i]  b == call.candidates[j]
                                       IN  a.bytes < b.bytes \/ (a.bytes = b.bytes /\ a.seconds <= b.seconds)

-----------------------------------------------------------------------------
(* Resolved options. *)

options == call.options
Plan == Options!FromOptions(options)
Type == options["index.type"]
Without(key) == [k \in DOMAIN options \ {key} |-> options[k]]
With(key, value) == (key :> value) @@ options

\* What a row of the index holds: its code, its factors, its raw vector and its
\* neighbours, as the writers lay them out.
Payload(c) ==
  CASE c.type = "ivf_flat" -> 4 * c.dim
    [] c.type = "ivf_sq" -> c.dim
    [] c.type = "ivf_pq" -> c.m
    [] c.type = "ivf_rq" -> c.bits * (((c.dim + 63) \div 64) * 8) + (IF c.bits = 1 THEN 2 ELSE 5) * 4
    [] c.type = "diskann" -> (IF c.bits = 4 THEN (c.m + 1) \div 2 ELSE c.m) + 4 * c.build.degree
                             + c.dim * (IF c.build.encoding = "f32" THEN 4 ELSE 2)

\* What the index holds once: centroids and list table, quantizer, rotation.
Shared(c) ==
  CASE c.type \in {"ivf_flat", "ivf_rq"} -> c.nlist * (4 * c.dim + 24)
    [] c.type = "ivf_sq" -> c.nlist * (12 * c.dim + 24)
    [] c.type = "ivf_pq" -> c.nlist * (4 * c.dim + 24) + 1024 * c.dim + (IF c.opq THEN 4 * c.dim * c.dim ELSE 0)
    [] c.type = "diskann" -> (IF c.bits = 4 THEN 64 ELSE 1024) * c.dim

\* A plan accepted under max-bytes-per-vector stays within it for the vectors
\* expected, whatever mixture of pinned and inferred sizes led to it: payload,
\* a row ID of any length, and the shared data of the whole index.
AcceptedPlanFits ==
  Returned("options") /\ Plan.ok /\ Options!Given(options, "max-bytes-per-vector") =>
    LET c == Plan.config  count == Options!Optional(options, "expected-vector-count", 0)
    IN  /\ Payload(c) + Options!RowIdBytes <= options["max-bytes-per-vector"]
        /\ count > 0 => count * (Payload(c) + Options!RowIdBytes) + Shared(c) <= count * options["max-bytes-per-vector"]

\* What the caller pins, the plan has; and no plan ignores an option, be it of
\* another index type.
PinnedIsKept ==
  Returned("options") /\ Plan.ok =>
    LET c == Plan.config
        Kept(key, value) == Options!Pinned(options, key) => value = options[key]
    IN  CASE Type = "diskann" ->
               /\ Kept("pq.m", c.m) /\ Kept("pq.bits", c.bits) /\ Kept("diskann.max-degree", c.build.degree)
               /\ Kept("diskann.storage-layout", c.build.layout) /\ ~Options!Given(options, "nlist")
               /\ Kept("diskann.raw-vector-encoding", c.build.encoding) /\ ~Options!Given(options, "rq.bits")
               /\ Kept("diskann.build-search-list-size", c.build.list) /\ ~Options!Given(options, "use-opq")
          [] Type = "ivf_pq" -> /\ Kept("nlist", c.nlist) /\ Kept("pq.m", c.m) /\ Kept("use-opq", c.opq)
                                /\ ~Options!Given(options, "rq.bits") /\ ~Options!Given(options, "diskann.max-degree")
          [] Type = "ivf_rq" -> Kept("nlist", c.nlist) /\ Kept("rq.bits", c.bits) /\ ~Options!Given(options, "pq.m")
          [] OTHER -> Kept("nlist", c.nlist) /\ ~Options!Given(options, "pq.m") /\ ~Options!Given(options, "rq.bits")

\* What is only described (dimension, metric, count, recall, deployment) is
\* planned, never refused: the presets, the layout chosen for the deployment and
\* the sizes inferred for any dimension pass the checks of the format.
DescribedIsPlanned ==
  Returned("options") /\ DOMAIN options \subseteq {"index.type", "dimension", "metric", "expected-vector-count", "target-recall",
                                    "deployment-profile", "diskann.build-preset"}
       /\ Options!ParsedOptions(options) /\ (Options!Given(options, "expected-vector-count") \/ Type = "diskann") => Plan.ok

SizeKey == IF Type = "ivf_rq" THEN "rq.bits" ELSE "pq.m"
SizeOf(plan) == IF Type = "ivf_rq" THEN plan.config.bits ELSE plan.config.m

\* Under a budget per row, the code an RQ or DiskANN plan infers is the widest
\* that would be accepted if it were pinned, and when none is inferred none
\* would be accepted.
WidestCodeThatFits ==
  Returned("options") /\ {"index.type", "max-bytes-per-vector"} \subseteq DOMAIN options /\ Type \in {"ivf_rq", "diskann"}
       /\ ~Options!Given(options, SizeKey) /\ ~Options!Given(options, "expected-vector-count") =>
    \A size \in 1..(IF Type = "ivf_rq" THEN 8 ELSE options["dimension"]) :
      Options!FromOptions(With(SizeKey, size)).ok => Plan.ok /\ SizeOf(Plan) >= size

\* "auto" is the same as no option at all.
AutoIsOmitted ==
  Returned("options") => \A key \in DOMAIN options \ {"diskann.raw-vector-encoding"} :
            options[key] = Auto => Plan = Options!FromOptions(Without(key))

\* docs/diskann.html gives diskann.raw-vector-encoding as "auto or omitted;
\* preset/budget resolves F32 or F16": the two resolve to the same plan.
EncodingAutoIsOmitted ==
  Returned("options") /\ Options!Optional(options, "diskann.raw-vector-encoding", "f32") = Auto =>
    Plan = Options!FromOptions(Without("diskann.raw-vector-encoding"))

-----------------------------------------------------------------------------
(* What the runs check, beside the properties of MemoryBudget. *)

\* A search reads each record whole and no byte twice, scores the best candidates, and
\* selects the rows of a filter exactly, whichever lookup and whichever strategy it
\* takes.
PlannedReadsAreExact ==
  /\ RecordsLieWholeInTheirWindow /\ PlannedWindowsAreDisjoint /\ HeapKeepsTheBest
  /\ ExpansionIsFreeAndComplete /\ GraphOnlyWhenItPays /\ OrderLookupAgreesWithScan
  /\ OverlapIsMultisetIntersection

\* What is inferred for a query or an index serves it: lists dense enough to train and
\* nearest to the square root, widths that widen with selectivity and hold the results,
\* the smallest calibrated candidate.
InferredWidthsServe ==
  NlistIsNearestDense /\ FilterWidensBySelectivity /\ WidthServesTheQuery /\ CalibratedIsSmallest

\* A plan keeps what is pinned, plans whatever is only described, stays within the bytes
\* per vector with the widest code that fits, and reads "auto" as no option.
PlansKeepTheirWord ==
  AcceptedPlanFits /\ PinnedIsKept /\ DescribedIsPlanned /\ WidestCodeThatFits /\ AutoIsOmitted
=============================================================================

----------------------------- MODULE MCIvfSearch -----------------------------
(***************************************************************************)
(* The searches of the four IVF readers and of the progressive driver, the *)
(* list cache of IVF-SQ, the collectors and the range bands.  A behaviour  *)
(* is that of one of them; `part` says which.  The readers share the names *)
(* of their variables: `lists` also stands for todo of an IVF-FLAT reader. *)
(***************************************************************************)
EXTENDS SqListCache, SequencesExt, FiniteSetsExt

CONSTANTS
  NaN, Infinity, Unbounded, Failed,
  OfferedIds, OfferedDistances, Ks, Limit, MaxOffers

VARIABLES
  part,
  index, call, lists, out, tasks, builder, fetched, result,                         \* of several readers
  loaded, driver,                                                                   \* of IVF-FLAT
  stats, last,                                                                      \* of IVF-RQ
  heaps, shared, norms, eph, running, local, metrics, reads,                        \* of IVF-PQ
  offers                                                                            \* of the heaps

svars == <<index, call, lists, out, tasks, builder, fetched, result>>
pqvars == <<heaps, shared, norms, eph, running, local, metrics, reads>>
partsVars == <<part, svars, loaded, driver, stats, last, pqvars, offers, cvars>>

Band(metric, lower, upper) == [metric |-> metric, lower |-> lower, upper |-> upper]

Call(op, queries, k, from, to, seeds, filter, band) ==
  [op |-> op, queries |-> queries, k |-> k, from |-> from, to |-> to, seeds |-> seeds,
   filter |-> filter, band |-> band]

Axis == [m |-> 3, top |-> 12]

Heap == INSTANCE Collectors

-----------------------------------------------------------------------------
(* IVF-FLAT: four lists, one empty and one oversized, two queries, every kind of *)
(* call.                                                                         *)

FlatListRows == <<<<1, 2>>, <<>>, <<3>>, <<4, 5, 6, 7, 8>>>>

Flat == INSTANCE IvfFlatScan WITH Rows <- FlatListRows, todo <- lists, ListHeader <- 1, MaxBatch <- 5,
          MaxRanges <- 0, ChunkRows <- 2, ParallelRows <- 2, RetryChunk <- 1, Available <- 2

FlatIds == UNION {ToSet(FlatListRows[l]) : l \in DOMAIN FlatListRows}

\* Orders of the centroids and distances of the rows, by query
FlatRankOrders == {<<1, 2, 3, 4>>, <<4, 3, 2, 1>>, <<2, 3, 4, 1>>}

FlatDistances ==
  {[id \in FlatIds |-> id % 3], [id \in FlatIds |-> 4 - (id \div 2)],
   [id \in FlatIds |-> IF id = 4 THEN NaN ELSE (id * id) % 4]}

FlatIndex == {[metric |-> m, rank |-> <<r1, r2>>, dist |-> <<d1, d2>>] :
            m \in {"L2", "Cosine"}, r1, r2 \in FlatRankOrders, d1, d2 \in FlatDistances}

FlatQueries == {<<1>>, <<2>>, <<1, 2>>}
FlatFilters == {None, {2, 3, 5}}

FlatSeeds(queries) == {[i \in DOMAIN queries |-> <<[d |-> 1, id |-> 90], [d |-> Infinity, id |-> -1]>>]}

FlatCalls ==
  {Call("search", <<q>>, k, 0, to, <<>>, f, None) : q \in {1}, k \in {0, 2}, to \in {0, 3}, f \in FlatFilters}
  \cup {Call("batch", qs, 2, from, to, <<>>, f, None) : qs \in FlatQueries \cup {<<>>}, from \in {0, 1}, to \in {1, 4}, f \in FlatFilters}
  \cup UNION {{Call("batch", qs, k, 1, 4, s, f, None) : s \in FlatSeeds(qs), k \in {2, 3}, f \in FlatFilters} : qs \in FlatQueries}
  \cup {Call("range", qs, 0, 0, to, <<>>, f, b) :
          qs \in FlatQueries, to \in {0, 2, 9}, f \in FlatFilters,
          b \in {Band(Flat!Metric, Unbounded, 2), Band(Flat!Metric, 1, Unbounded), Band(Flat!Metric, 1, 1), Band("Other", 0, 1)}}

-----------------------------------------------------------------------------
(* Progressive search: four lists, three queries in a batch, one of them retried *)
(* at a time.                                                                    *)

ProgListRows == <<<<1>>, <<>>, <<2>>, <<3, 4, 5>>>>

Prog == INSTANCE IvfFlatScan WITH Rows <- ProgListRows, todo <- lists, ListHeader <- 1, MaxBatch <- 3,
          MaxRanges <- 0, ChunkRows <- 2, ParallelRows <- 2, RetryChunk <- 1, Available <- 2

ProgIds == UNION {ToSet(ProgListRows[l]) : l \in DOMAIN ProgListRows}

ProgRankOrders == {<<1, 2, 3, 4>>, <<2, 3, 1, 4>>, <<2, 1, 4, 3>>}
ProgDistances == {[id \in ProgIds |-> 6 - id], [id \in ProgIds |-> IF id = 2 THEN NaN ELSE id % 2]}

ProgIndex == {[metric |-> "L2", rank |-> <<r1, r2, r3>>, dist |-> <<d1, d2, d1>>] :
            r1, r2, r3 \in ProgRankOrders, d1, d2 \in ProgDistances}

-----------------------------------------------------------------------------
(* IVF-SQ: four lists, one empty and one oversized, two queries, and any         *)
(* sequence of calls over a cache with room for some of the lists.               *)

SqListRows == <<<<1, 2, 8>>, <<>>, <<3>>, <<4, 5, 6, 7, 9>>>>
ListBytes == [l \in Lists |-> [s \in Shapes |-> 1 + Len(SqListRows[l]) + s]]

Sq == INSTANCE IvfSqScan WITH Rows <- SqListRows, MaxBatch <- 4, ChunkRows <- 2, BlockSize <- 2, ParallelRows <- 4

SqIds == UNION {ToSet(SqListRows[l]) : l \in Lists}

SqRankOrders == {<<1, 2, 3, 4>>, <<4, 3, 1, 2>>}
SqDistances == {[id \in SqIds |-> id % 3], [id \in SqIds |-> IF id = 5 THEN NaN ELSE 4 - (id \div 2)]}

SqIndex == {[metric |-> m, rank |-> <<r, <<3, 1, 4, 2>>>>, dist |-> <<d1, d2>>] :
            m \in {"L2", "Cosine"}, r \in SqRankOrders, d1, d2 \in SqDistances}

SqSeed == <<[d |-> 1, id |-> 3], [d |-> Infinity, id |-> -1]>>
SqFilters == {None, {2, 3, 4, 7, 8}}

SqCalls ==
  {Call("search", <<1>>, k, 0, 3, <<>>, f, None) : k \in {0, 2}, f \in SqFilters}
  \cup {Call("batch", qs, 2, from, 4, <<>>, f, None) : qs \in {<<>>, <<1>>, <<1, 2>>}, from \in {0, 4}, f \in SqFilters}
  \cup {Call("batch", <<2, 1>>, k, 1, 4, <<SqSeed, SqSeed>>, None, None) : k \in {2, 3}}
  \cup {Call("range", qs, 0, 0, to, <<>>, f, b) :
          qs \in {<<1>>, <<1, 2>>}, to \in {0, 3}, f \in SqFilters,
          b \in {Band(index.metric, Unbounded, 2), Band(index.metric, 1, 1)}}

-----------------------------------------------------------------------------
(* IVF-RQ: four lists, one empty, rows of two planes or one, and two queries     *)
(* whose FastScan table is off by at most one in either direction.               *)

Rq == INSTANCE IvfRqScan WITH BlockSize <- 2, PlaneSize <- 1, MaxBatch <- 5, ParallelRows <- 4

RqListRows == <<<<1, 2, 3>>, <<>>, <<4, 5>>, <<6, 7, 8, 9>>>>
RqIds == 1..9

\* Code bytes take the values 0..3; a factor row is add, rescale, error, full add,
\* full rescale.
RqCodes == [id \in RqIds |-> <<id % 4, (id \div 2) % 4>>]
RqTight == [id \in RqIds |-> <<8 - id, 1, 2, 6 - id, 1>>]
RqSteep == [id \in RqIds |-> <<(id * 5) % 7, 0 - 1, 1, (id * 3) % 8, IF id % 2 = 0 THEN 1 ELSE 0 - 1>>]
RqBroken == [id \in RqIds |-> IF id = 8 THEN <<NaN, 1, 1, NaN, 1>> ELSE <<id % 3, 1, 1, id % 5, 1>>]

RqQuery(rank, up) ==
  [rank |-> rank,
   gAdd |-> [l \in 1..4 |-> l % 3], gError |-> [l \in 1..4 |-> 1 + (l % 2)],
   lut |-> <<[p \in 0..3 |-> 2 * p]>>,
   fastLut |-> <<[p \in 0..3 |-> 2 * p + (IF up THEN (p % 3) - 1 ELSE 1 - (p % 2))]>>,
   ipError |-> 1, half |-> 3]

RqIndex ==
  {[metric |-> m, bits |-> b, wide |-> w, maxRanges |-> r, rows |-> RqListRows, code |-> RqCodes, factors |-> f,
    query |-> <<RqQuery(<<1, 2, 3, 4>>, u), RqQuery(<<4, 3, 2, 1>>, ~u)>>] :
     m \in {"L2"}, b \in {1, 2}, w \in BOOLEAN, r \in {0, 1}, f \in {RqTight, RqSteep, RqBroken}, u \in BOOLEAN}

RqSeed == <<[d |-> 1, id |-> 4], [d |-> Infinity, id |-> -1]>>
RqFilters == {None, {2, 3, 4, 7, 8}}

RqCalls ==
  {Call("batch", qs, k, from, 4, <<>>, f, None) :
      qs \in {<<>>, <<1>>, <<2>>, <<1, 2>>}, k \in {1, 2}, from \in {0, 1}, f \in RqFilters}
  \cup {Call("batch", <<1>>, k, 1, 4, <<RqSeed>>, None, None) : k \in {2, 3}}
  \cup {Call("range", qs, 0, 0, to, <<>>, f, b) :
          qs \in {<<1>>, <<1, 2>>}, to \in {0, 4}, f \in RqFilters,
          b \in {Band("L2", Unbounded, 4), Band("L2", 1, 1), Band("Cosine", 0, 4)}}

-----------------------------------------------------------------------------
(* IVF-PQ: four lists, one empty and one oversized, three queries, two threads.  *)

PqListRows == <<<<1, 2>>, <<>>, <<3>>, <<4, 5, 6, 7>>>>

Pq == INSTANCE IvfPqScan WITH Rows <- PqListRows, MaxBatch <- 3, ChunkRows <- 3, CodeSize <- 3, MinQueries <- 2, Threads <- 2

PqIds == 1..7

PqQueries == 1..3
PqRanks == <<<<1, 2, 3, 4>>, <<4, 3, 1, 2>>, <<3, 1, 4, 2>>>>
PqDistances == <<[id \in PqIds |-> (id * 3) % 7], [id \in PqIds |-> IF id = 5 THEN NaN ELSE 8 - id], [id \in PqIds |-> id % 3]>>

\* A table of the lists is built only for residual encoding.  How many ranges a read takes
\* does not depend on the encoding: one at a time is tried with the simplest.
PqIndex ==
  {x \in [residual : BOOLEAN, eightBit : BOOLEAN, precomputed : BOOLEAN, transposed : BOOLEAN, maxRanges : {0, 1, 2},
          rank : {PqRanks}, dist : {PqDistances}] :
     /\ x.precomputed => x.residual
     /\ x.transposed = (x.maxRanges > 0)
     /\ x.maxRanges = 1 => ~x.residual /\ x.eightBit}

PqFilters == {None, {2, 4, 7}}

PqCall(op, queries, k, to, filter) ==
  [op |-> op, queries |-> queries, k |-> k, from |-> 0, to |-> to, seeds |-> <<>>, filter |-> filter,
   mode |-> "on", budget |-> 0, timing |-> FALSE, band |-> None]

\* The results of the ranks before from, padded to k
PqEarlier(c, i) ==
  LET ids == {id \in Pq!Reachable(c, i, 0, c.from) : index.dist[c.queries[i]][id] # NaN}
      ordered == SetToSortSeq(ids, LAMBDA a, b : index.dist[c.queries[i]][a] < index.dist[c.queries[i]][b]
                                                   \/ (index.dist[c.queries[i]][a] = index.dist[c.queries[i]][b] /\ a < b))
  IN  [n \in 1..c.k |-> IF n <= Len(ordered) THEN [d |-> index.dist[c.queries[i]][ordered[n]], id |-> ordered[n]]
                        ELSE [d |-> Infinity, id |-> -1]]

PqSeeded(c) == [c EXCEPT !.seeds = [i \in DOMAIN c.queries |-> PqEarlier(c, i)]]

PqSearches == {PqCall("search", <<q>>, k, to, f) : q \in PqQueries, k \in {0, 2}, to \in {0, 3, 9}, f \in PqFilters}

PqBatches ==
  {[PqCall("batch", qs, 2, 4, f) EXCEPT !.from = from, !.mode = mode, !.budget = budget, !.timing = timing] :
     qs \in {<<1>>, <<2, 3>>, <<2, 3, 2>>}, f \in PqFilters, from \in {0, 1, 4}, mode \in {"off", "on", "auto"},
     budget \in {0, 2, 6, 8, 10}, timing \in BOOLEAN}
  \cup {PqCall("batch", <<>>, 2, 4, None), PqCall("batch", <<1>>, 0, 4, None),
        [PqCall("batch", <<1>>, 2, 4, None) EXCEPT !.seeds = <<<<>>>>]}

PqProgressive == {PqSeeded(c) : c \in {b \in PqBatches : b.from = 1 /\ b.k = 2 /\ b.timing}}

PqRanges ==
  {[PqCall("range", qs, 0, to, f) EXCEPT !.band = [metric |-> "L2", lower |-> lo, upper |-> 4]] :
     qs \in {<<>>, <<1, 3>>, <<2>>}, to \in {0, 2, 4}, f \in PqFilters, lo \in {Unbounded, 2, 4}}

\* A call that follows another on the same reader
PqAgain == PqCall("search", <<3>>, 2, 3, None)

-----------------------------------------------------------------------------
(* Every pair of endpoints around and beyond the axis, for the three metrics.    *)

Ops == {"Ge", "Gt", "Le", "Lt"}
Endpoints == {None} \cup [v : -9..9, op : Ops]

-----------------------------------------------------------------------------

NoScan ==
  /\ index = 0 /\ lists = 0 /\ out = 0 /\ tasks = 0 /\ builder = 0 /\ fetched = 0
NoFlat == loaded = 0 /\ driver = 0
NoRq == stats = 0 /\ last = 0
NoPq ==
  /\ heaps = 0 /\ shared = 0 /\ norms = 0 /\ eph = 0 /\ running = 0 /\ local = 0
  /\ metrics = 0 /\ reads = 0
NoCache == CacheInit /\ meta = [l \in Lists |-> 0]

FlatInit(indexes) ==
  /\ index \in indexes /\ loaded = FALSE /\ call = None /\ result = None /\ driver = None
  /\ lists = <<>> /\ out = <<>> /\ tasks = <<>> /\ fetched = <<>> /\ builder = None
  /\ NoRq /\ NoPq /\ NoCache /\ offers = 0

PartsInit ==
  \/ part = "flat" /\ FlatInit(FlatIndex)
  \/ part = "progressive" /\ FlatInit(ProgIndex)
  \/ /\ part = "sq" /\ index \in SqIndex
     /\ call = None /\ result = None /\ builder = None
     /\ lists = <<>> /\ out = <<>> /\ tasks = {} /\ fetched = <<>>
     /\ NoFlat /\ NoRq /\ NoPq /\ NoCache /\ offers = 0
  \/ /\ part = "cache" /\ CacheInit /\ meta[4] = 0 /\ call = 0 /\ result = 0
     /\ NoScan /\ NoFlat /\ NoRq /\ NoPq /\ offers = 0
  \/ /\ part = "rq" /\ index \in RqIndex
     /\ call = None /\ result = None /\ builder = None /\ lists = <<>> /\ out = <<>> /\ tasks = {}
     /\ fetched = 0 /\ stats = Rq!ZeroStats /\ last = Rq!ZeroStats
     /\ NoFlat /\ NoPq /\ NoCache /\ offers = 0
  \/ /\ part = "pq" /\ index \in PqIndex
     /\ call = None /\ lists = <<>> /\ heaps = <<>> /\ shared = <<>> /\ norms = FALSE /\ loaded = <<>>
     /\ eph = {} /\ running = {} /\ local = <<>> /\ builder = None /\ metrics = None /\ reads = <<>>
     /\ result = None /\ out = 0 /\ tasks = 0 /\ fetched = 0 /\ driver = 0
     /\ NoRq /\ NoCache /\ offers = 0
  \/ /\ part = "heaps" /\ call = 0 /\ result = 0
     /\ \E k \in Ks : offers = [k |-> k, heap |-> Heap!NewHeap(k, Limit), pq |-> <<>>,
                                reader |-> [data |-> <<>>, worst |-> 0], offered |-> <<>>]
     /\ NoScan /\ NoFlat /\ NoRq /\ NoPq /\ NoCache
  \/ /\ part = "band" /\ result = None
     /\ call \in [low : Endpoints, high : Endpoints, metric : {"L2", "Cosine", "InnerProduct"}]
     /\ NoScan /\ NoFlat /\ NoRq /\ NoPq /\ NoCache /\ offers = 0

\* One call at a time on a reader; the behaviour ends when the call has returned.
FlatNext ==
  \/ call = None /\ \E c \in FlatCalls, ok \in BOOLEAN :
       Flat!BeginSearch(c, ok) \/ Flat!BeginBatch(c, ok) \/ Flat!BeginRange(c, ok)
  \/ Flat!Steps
  \/ (Flat!Returns \/ result = Failed) /\ UNCHANGED <<svars, loaded>>

ProgNext ==
  \/ \E qs \in {<<1>>, <<2, 1>>, <<1, 2, 3>>}, k \in {1, 2, 3}, n \in {1, 3}, f \in {None, {1, 4}}, ok \in BOOLEAN :
       Prog!BeginAuto(qs, k, n, f, ok)
  \/ Prog!ProgressiveSteps
  \/ driver # None /\ driver.done /\ UNCHANGED <<svars, loaded, driver>>

SqNext == (\E c \in SqCalls : Sq!BeginCall(c)) \/ Sq!Steps

\* Reads of three of the lists, in either shape.
SqCacheNext ==
  \/ \E l \in 1..3, shape \in Shapes : Edit(l, shape)
  \/ \E asking \in Requests : 4 \notin ToSet(asking) /\ Read(asking)
  \/ CacheSteps
  \/ ReturnLists

RqNext ==
  \/ call = None /\ \E c \in RqCalls : Rq!BeginBatch(c) \/ Rq!BeginRange(c)
  \/ Rq!Steps
  \/ result # None /\ UNCHANGED <<svars, stats, last>>

\* A call may follow another on the same reader.
PqNext ==
  \/ call = None /\ \E c \in PqSearches \cup PqBatches \cup PqProgressive \cup PqRanges : Pq!BeginCall(c)
  \/ call # None /\ Pq!BeginCall(PqAgain)
  \/ Pq!Steps

Offer(d, id) ==
  /\ Len(offers.offered) < MaxOffers
  /\ offers' = [offers EXCEPT !.offered = Append(@, [d |-> d, id |-> id]), !.heap = Heap!Collect(@, d, id),
                              !.pq = Heap!PqPush(@, offers.k, d, id), !.reader = Heap!ReaderPush(@, offers.k, d, id)]

OfferNext == \E d \in OfferedDistances, id \in OfferedIds : Offer(d, id) \/ (id = Min(OfferedIds) /\ Offer(NaN, id))

Derive == result = None /\ result' = Heap!FromEndpoints(Axis, call.low, call.high, call.metric)
Derived == part = "band" /\ result # None

\* All offers made, or the band derived: any other state without a step is a deadlock.
Ended == (Derived \/ (part = "heaps" /\ Len(offers.offered) = MaxOffers)) /\ UNCHANGED partsVars

PartsNext ==
  \/ /\ UNCHANGED part
     /\ \/ part = "flat" /\ FlatNext /\ UNCHANGED <<driver, stats, last, pqvars, offers, cvars>>
        \/ part = "progressive" /\ ProgNext /\ UNCHANGED <<stats, last, pqvars, offers, cvars>>
        \/ part = "sq" /\ SqNext /\ UNCHANGED <<loaded, driver, stats, last, pqvars, offers>>
        \/ part = "cache" /\ SqCacheNext /\ UNCHANGED <<svars, loaded, driver, stats, last, pqvars, offers>>
        \/ part = "rq" /\ RqNext /\ UNCHANGED <<fetched, loaded, driver, pqvars, offers, cvars>>
        \/ part = "pq" /\ PqNext /\ UNCHANGED <<out, tasks, fetched, driver, stats, last, offers, cvars>>
        \/ part = "heaps" /\ OfferNext /\ UNCHANGED <<svars, loaded, driver, stats, last, pqvars, cvars>>
        \/ /\ part = "band" /\ Derive
           /\ UNCHANGED <<index, call, lists, out, tasks, builder, fetched, loaded, driver, stats, last, pqvars,
                          offers, cvars>>
  \/ Ended

PartsSpec == PartsInit /\ [][PartsNext]_partsVars

-----------------------------------------------------------------------------
(* The heaps, offered the same rows.                                             *)

Count(s, d) == Cardinality({i \in DOMAIN s : s[i].d = d})

\* How many of the k smallest of s have distance d.
Share(s, d) ==
  LET closer == Cardinality({i \in DOMAIN s : s[i].d < d})
  IN  Max({0, Min({Count(s, d), offers.k - closer})})

Scored == SelectSeq(offers.offered, LAMBDA e : e.d # NaN)

\* The nearest offer of each row.
PerRow ==
  LET ids == {Scored[i].id : i \in DOMAIN Scored}
      best(id) == Min({Scored[i].d : i \in {j \in DOMAIN Scored : Scored[j].id = id}})
  IN  SelectSeq(SetToSeq({[d |-> best(id), id |-> id] : id \in ids}), LAMBDA e : e.d < Limit)

\* Whatever the order of the offers, and however often a row comes back after it was
\* evicted, TopKHeap holds the k nearest rows below its limit, each once and at its
\* smallest distance (TopKHeap::push).
HeapHoldsNearestRows ==
  /\ \A d \in OfferedDistances : Count(offers.heap.data, d) = Share(PerRow, d)
  /\ \A i \in DOMAIN offers.heap.data : \E j \in DOMAIN PerRow : PerRow[j] = offers.heap.data[i]
  /\ \A i, j \in DOMAIN offers.heap.data : offers.heap.data[i].id = offers.heap.data[j].id => i = j

\* The position index names each entry's slot and nothing else, through every swap
\* and replacement (swap_entries).
PositionsAreExact ==
  /\ DOMAIN offers.heap.positions = {offers.heap.data[i].id : i \in DOMAIN offers.heap.data}
  /\ \A id \in DOMAIN offers.heap.positions : offers.heap.data[offers.heap.positions[id]].id = id

\* The cutoff a scan abandons rows against never excludes a row the heap would take
\* (Collector::cutoff, should_consider).
CutoffIsSafe ==
  \A d \in OfferedDistances, id \in OfferedIds :
    d >= Heap!DistanceLimit(offers.heap) => Heap!Push(offers.heap, d, id).data = offers.heap.data

\* ivfpq's heap, built when it fills, and the reader's array with a worst index hold
\* the same k smallest distances (TopKHeap::push, ReaderTopKHeap::push).
ScanHeapsAgree ==
  \A d \in OfferedDistances :
    Count(offers.pq, d) = Share(Scored, d) /\ Count(offers.reader.data, d) = Share(Scored, d)

\* Search results, padded to k and used as seeds, restore the heap they came from, so
\* that a later round continues where this one stopped (seed_heaps).
SeedsRestoreTheHeap ==
  LET padded == [n \in 1..offers.k |-> IF n <= Len(offers.pq) THEN Heap!IntoSorted(offers.pq)[n] ELSE [d |-> Infinity, id |-> -1]]
  IN  /\ Len(Heap!SeedHeap(offers.k, padded)) = Len(offers.pq)
      /\ \A i \in DOMAIN offers.pq : \E j \in DOMAIN offers.pq : Heap!SeedHeap(offers.k, padded)[j] = offers.pq[i]

-----------------------------------------------------------------------------
(* The bands.                                                                    *)

Stored == IF call.metric = "L2" THEN 0..Axis.top ELSE -Axis.m..Axis.m

Holds(endpoint, p) ==
  endpoint = None
  \/ CASE endpoint.op = "Ge" -> p >= endpoint.v [] endpoint.op = "Gt" -> p > endpoint.v
       [] endpoint.op = "Le" -> p <= endpoint.v [] endpoint.op = "Lt" -> p < endpoint.v

Satisfies(value) ==
  Holds(call.low, Heap!Public(call.metric, value)) /\ Holds(call.high, Heap!Public(call.metric, value))

\* A band that is returned admits exactly the stored values whose public distance
\* satisfies the predicate, for every metric, operator and endpoint, including those
\* between, at, below and above all representable values (from_endpoints, admit_raw).
BandIsThePredicate ==
  Derived /\ result.error = None => \A value \in Stored : Heap!Admits(result, value) <=> Satisfies(value)

\* A predicate that some stored value satisfies is refused only when its endpoint has
\* no representable L2 cut: no other error hides rows ("has to fail loud rather than
\* quietly return no rows").
RefusalsHideNoRows ==
  Derived /\ result.error # None =>
    \/ result.error = "operator does not fit its side"
    \/ result.error = "unsupported endpoint" /\ call.metric = "L2"
       /\ \E e \in {call.low, call.high} : e # None /\ e.v >= Heap!Public("L2", Axis.top)
    \/ \A value \in Stored : ~Satisfies(value)

-----------------------------------------------------------------------------
(* What the run checks.                                                          *)

\* Every search returns exactly what it should: the k nearest of the rows its probes
\* reach, or the rows its band admits, each once; whatever was cached, streamed, read
\* together, scanned in parallel or in rounds, whatever cutoffs and lower bounds skipped,
\* and from whatever predicate the band was derived.  A reported RaBitQ distance is that
\* of its row.
SearchesAreExact ==
  /\ part = "flat" => Flat!TopKIsExact /\ Flat!RangeIsExact
  /\ part = "progressive" => Prog!NoRowTwice /\ Prog!ProgressiveIsExact
  /\ part = "sq" => Sq!SqTopKIsExact /\ Sq!SqRangeIsExact
  /\ part = "rq" => Rq!RqTopKIsSound /\ Rq!RqRangeIsExact
  /\ part = "pq" => Pq!PqTopKIsExact /\ Pq!PqRangeIsExact
  /\ part = "heaps" => HeapHoldsNearestRows /\ PositionsAreExact /\ CutoffIsSafe /\ ScanHeapsAgree /\ SeedsRestoreTheHeap
  /\ BandIsThePredicate /\ RefusalsHideNoRows

\* What a search reports and reserves is what it did: each list read once and counted
\* once, the statistics of a range or RaBitQ search balance, the bytes of the SQ cache
\* add up, reused tables stay within their budget, and read metrics end with the call.
ScansAreAccounted ==
  /\ part = "flat" => Flat!EachListReadOnce /\ Flat!RangeStatsExact
  /\ part = "sq" => Sq!ReadsAreCounted
  /\ part = "rq" => Rq!RqStatsBalance
  /\ part = "pq" => Pq!ReusedTablesWithinBudget /\ Pq!ReadMetricsEndWithTheCall /\ Pq!ListsReadOnce
  /\ RetainedIsExact

\* A search makes progress: every round of a progressive search widens it, serves more of
\* its queries or ends it, and every read of IVF-RQ takes a list within its bounds.
ScansAdvance ==
  [][/\ part = "progressive" => Prog!WideningAdvances
     /\ part = "rq" => Rq!RqReadBounds]_partsVars
==============================================================================

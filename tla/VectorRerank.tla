------------------------------ MODULE VectorRerank ------------------------------
(***************************************************************************)
(* The raw-vector side of a DiskANN query (core/src/diskann_search.rs):    *)
(* the windows of the raw-vector section that the exact rerank reads, the  *)
(* cache of them that a reader keeps from one query to the next            *)
(* (VectorWindowCache), and the pool of buffers they are read into         *)
(* (WindowBufferPool).                                                     *)
(*                                                                         *)
(* A single query reranks all of its windows at once (rerank); a batch     *)
(* streams its windows in chunks (rerank_candidate_batch_streaming).  With *)
(* a budget of zero the windows are read into buffers of the reader and    *)
(* given back; otherwise they go through the shared cache, which answers a *)
(* lookup in any of its three ways (its own steps are those of             *)
(* SharedWindowCache).                                                     *)
(***************************************************************************)
EXTENDS WindowLru, SequencesExt

CONSTANTS
  Windows,     \* offsets of the windows of the raw-vector section
  WindowBytes, \* length of the window at an offset
  Slack,       \* how much larger a buffer of another thread may be than its window
  Budgets,     \* values raw_vector_cache_bytes takes
  PoolLimits,  \* values of the pool's retained_capacity_limit
  MaxRanges,   \* FILTERED_BATCH_RERANK_MAX_RANGES
  MaxBytes,    \* FILTERED_BATCH_RERANK_MAX_BYTES
  MaxQueries   \* bound: reranks begun

VARIABLES
  phase,    \* where the reader is in its rerank
  mode,     \* rerank of one query, or of a batch
  budget,   \* raw_vector_cache_bytes
  keep,     \* retain_vector_windows
  todo,     \* windows of the batch that no chunk has covered yet, ascending
  plan,     \* windows of the query, or of the current chunk
  scored,   \* windows whose records this rerank has scored
  pending, reserved, waiting,  \* the sets of load_vector_windows
  payloads, \* capacities of the buffers taken for the reads, in their order
  entries, recency, retained,  \* VectorWindowCache
  pool,     \* WindowBufferPool: buffers, retained_capacity, retained_capacity_limit
  stats,    \* hits and misses of the current load
  outcome,  \* how the last rerank ended
  queries   \* reranks begun

cacheVars == <<entries, recency, retained>>
loadVars  == <<pending, reserved, waiting, payloads>>
vars == <<phase, mode, budget, keep, todo, plan, scored, loadVars, cacheVars, pool,
          stats, outcome, queries>>

Ascending(S)  == SetToSortSeq(S, <)
Held          == { o \in Windows : entries[o] # Absent }
SumOf(s)      == FoldSeq(LAMBDA x, y : x + y, 0, s)
PlanBytes(S)  == SumOf([i \in 1 .. Cardinality(S) |-> WindowBytes[Ascending(S)[i]]])

-----------------------------------------------------------------------------
(* WindowBufferPool. *)

\* A buffer that would take the pool over its limit is dropped.
PoolRecycle(p, capacity) ==
  IF p.retained + capacity > p.limit THEN p
  ELSE [p EXCEPT !.retained = @ + capacity, !.buffers = Append(@, capacity)]

PoolRecycleAll(p, capacities) == FoldLeft(PoolRecycle, p, capacities)

SwapRemove(s, i) ==
  IF i = Len(s) THEN Front(s) ELSE [Front(s) EXCEPT ![i] = Last(s)]

\* The index take() chooses: the last buffer when it fits exactly, else the smallest
\* that fits (the first of those), else the largest (the last of those).
BestFit(buffers, length) ==
  LET D == DOMAIN buffers
      fits == { i \in D : buffers[i] >= length }
  IN  IF buffers[Len(buffers)] = length THEN Len(buffers)
      ELSE IF fits # {}
      THEN CHOOSE i \in fits : \A j \in fits :
             buffers[i] < buffers[j] \/ (buffers[i] = buffers[j] /\ i <= j)
      ELSE CHOOSE i \in D : \A j \in D :
             buffers[i] > buffers[j] \/ (buffers[i] = buffers[j] /\ i >= j)

\* Faulty variant of PoolTake: the bytes of a buffer that is taken stay counted.
PoolTakeKeepsCount(p, length) ==
  IF p.buffers = << >> THEN [pool |-> p, capacity |-> length, found |-> 0]
  ELSE LET i == BestFit(p.buffers, length)
       IN  [pool |-> [p EXCEPT !.buffers = SwapRemove(@, i)],
            found |-> p.buffers[i],
            capacity |-> IF p.buffers[i] < length THEN length ELSE p.buffers[i]]

\* A buffer leaves the pool, and is grown to the length if it is shorter.
PoolTake(p, length) ==
  IF p.buffers = << >> THEN [pool |-> p, capacity |-> length, found |-> 0]
  ELSE LET i == BestFit(p.buffers, length)
       IN  [pool |-> [p EXCEPT !.buffers = SwapRemove(@, i), !.retained = @ - p.buffers[i]],
            found |-> p.buffers[i],
            capacity |-> IF p.buffers[i] < length THEN length ELSE p.buffers[i]]

\* Faulty variant of SetPoolLimit: the limit is one byte too large.
SetPoolLimitOffByOne(p, limit) == [p EXCEPT !.limit = limit + 1]

\* The buffers that have to go, the last ones first, when the limit is lowered.
SetPoolLimit(p, limit) ==
  LET kept == CHOOSE n \in 0 .. Len(p.buffers) :
                /\ SumOf(SubSeq(p.buffers, 1, n)) <= limit
                /\ n = Len(p.buffers) \/ SumOf(SubSeq(p.buffers, 1, n + 1)) > limit
  IN  [buffers |-> SubSeq(p.buffers, 1, kept), limit |-> limit,
       retained |-> SumOf(SubSeq(p.buffers, 1, kept))]

-----------------------------------------------------------------------------
(* VectorWindowCache, as the record c of entries, recency and retained. *)

CacheRec == [entries |-> entries, recency |-> recency, retained |-> retained]

CacheBecomes(c) ==
  entries' = c.entries /\ recency' = c.recency /\ retained' = c.retained

CacheInsert(c, o, payload) ==
  [entries  |-> [c.entries EXCEPT ![o] = payload],
   recency  |-> LruTouch(c.recency, o),
   retained |-> SaturatingSub(c.retained, c.entries[o].capacity) + payload.capacity]

\* The buffers that owned payloads of the evicted offsets give back to the pool.
OwnedBuffers(c, offsets) ==
  LET owned == SelectSeq(offsets, LAMBDA o : c.entries[o] # Absent /\ c.entries[o].owned)
  IN  [i \in DOMAIN owned |-> c.entries[owned[i]].capacity]

\* Faulty variant of CacheTrim: the bytes of the evicted windows stay counted.
CacheTrimKeepsCount(c, p, limit) ==
  LET n == CHOOSE k \in 0 .. Len(c.recency) : Pops(c.recency, c.entries, c.retained, limit, k)
      gone == SubSeq(c.recency, 1, n)
  IN  [cache |-> [entries |-> [o \in Windows |-> IF o \in ToSet(gone) THEN Absent
                                                ELSE c.entries[o]],
                  recency |-> SubSeq(c.recency, n + 1, Len(c.recency)),
                  retained |-> c.retained],
       pool  |-> PoolRecycleAll(p, OwnedBuffers(c, gone))]

\* Evict the oldest windows while the cache holds more than the limit.
CacheTrim(c, p, limit) ==
  LET n == CHOOSE k \in 0 .. Len(c.recency) : Pops(c.recency, c.entries, c.retained, limit, k)
      gone == SubSeq(c.recency, 1, n)
  IN  [cache |-> [entries |-> [o \in Windows |-> IF o \in ToSet(gone) THEN Absent
                                                ELSE c.entries[o]],
                  recency |-> SubSeq(c.recency, n + 1, Len(c.recency)),
                  retained |-> SaturatingSub(c.retained, Bytes(c.entries, ToSet(gone)))],
       pool  |-> PoolRecycleAll(p, OwnedBuffers(c, gone))]

\* recycle(): every window goes, in the order in which HashMap::drain gives them.
CacheRecycle(c, p, order) ==
  [cache |-> [entries |-> [o \in Windows |-> Absent], recency |-> << >>, retained |-> 0],
   pool  |-> PoolRecycleAll(p, OwnedBuffers(c, order))]

DrainOrders == SetToSeqs(Held)

TouchWindows(c, offsets) == [c EXCEPT !.recency = FoldLeft(LruTouch, @, offsets)]

-----------------------------------------------------------------------------
(* A rerank. *)

Init ==
  /\ phase = "idle" /\ mode = "single" /\ budget \in Budgets /\ keep = FALSE
  /\ todo = << >> /\ plan = {} /\ scored = {}
  /\ pending = {} /\ reserved = << >> /\ waiting = {} /\ payloads = << >>
  /\ entries = [o \in Windows |-> Absent] /\ recency = << >> /\ retained = 0
  /\ pool \in [buffers : {<< >>}, retained : {0}, limit : PoolLimits]
  /\ stats = [hits |-> 0, misses |-> 0] /\ outcome = "none" /\ queries = 0

\* Between two reranks a batch gives its workers new limits.
Resize ==
  /\ phase = "idle"
  /\ \E b \in Budgets, l \in PoolLimits :
       /\ budget' = b
       /\ pool' = SetPoolLimit(pool, l)
  /\ outcome' = "resized"
  /\ UNCHANGED <<phase, mode, keep, todo, plan, scored, loadVars, cacheVars, stats, queries>>

\* load_vector_windows begins with the windows that the reader does not hold.
StartLoad(windows, c) ==
  /\ phase' = "load"
  /\ plan' = windows
  /\ pending' = { o \in windows : c.entries[o] = Absent }
  /\ stats' = [hits |-> Cardinality({ o \in windows : c.entries[o] # Absent }), misses |-> 0]
  /\ reserved' = << >> /\ waiting' = {} /\ payloads' = << >>
  /\ CacheBecomes(c)

\* Faulty variant of BeginSingle: the cache is not prepared for the windows.
BeginSingleUnprepared(windows, order) ==
  /\ keep' = (PlanBytes(windows) <= budget)
  /\ StartLoad(windows, CacheRec) /\ UNCHANGED pool

\* Faulty variant of BeginSingle: the windows to load are found before the cache is
\* prepared.
BeginSinglePlansFirst(windows, order) ==
  /\ keep' = (PlanBytes(windows) <= budget)
  /\ phase' = "load" /\ plan' = windows
  /\ pending' = { o \in windows : entries[o] = Absent }
  /\ stats' = [hits |-> Cardinality(windows \cap Held), misses |-> 0]
  /\ reserved' = << >> /\ waiting' = {} /\ payloads' = << >>
  /\ LET r == IF keep' THEN CacheTrim(CacheRec, pool, budget)
              ELSE CacheRecycle(CacheRec, pool, order)
     IN  CacheBecomes(r.cache) /\ pool' = r.pool

\* rerank: prepare_vector_window_cache keeps what it has only if the windows of this
\* query fit in the budget together.
BeginSingle(windows, order) ==
  /\ keep' = (PlanBytes(windows) <= budget)
  /\ LET r == IF keep' THEN CacheTrim(CacheRec, pool, budget)
              ELSE CacheRecycle(CacheRec, pool, order)
     IN  StartLoad(windows, r.cache) /\ pool' = r.pool

Begin ==
  /\ phase = "idle" /\ queries < MaxQueries
  /\ queries' = queries + 1 /\ scored' = {} /\ outcome' = "running"
  /\ \E windows \in SUBSET Windows \ {{}} :
       \/ /\ mode' = "single" /\ todo' = << >>
          /\ \E order \in DrainOrders : BeginSingle(windows, order)
       \/ /\ mode' = "stream" /\ todo' = Ascending(windows) /\ keep' = TRUE
          /\ phase' = "chunk" /\ plan' = {}
          /\ UNCHANGED <<loadVars, cacheVars, pool, stats>>
  /\ UNCHANGED budget

\* Faulty variant of ChunkLength: the bytes are compared before the window is added.
ChunkLengthOffByOne(ws) ==
  CHOOSE n \in 1 .. Len(ws) :
    LET fits(k) == k <= MaxRanges /\ SumOf([i \in 1 .. k - 1 |-> WindowBytes[ws[i]]]) <= MaxBytes
    IN  fits(n) /\ (n = Len(ws) \/ ~fits(n + 1))

\* plan_streaming_window_chunks: the longest run of windows within both limits, and
\* at least one window.
ChunkLength(ws) ==
  CHOOSE n \in 1 .. Len(ws) :
    LET fits(k) == k <= MaxRanges
                   /\ (k = 1 \/ SumOf([i \in 1 .. k |-> WindowBytes[ws[i]]]) <= MaxBytes)
    IN  fits(n) /\ (n = Len(ws) \/ ~fits(n + 1))

NextChunk ==
  /\ phase = "chunk" /\ todo # << >>
  /\ LET n == ChunkLength(todo)
     IN  /\ StartLoad(ToSet(SubSeq(todo, 1, n)), CacheRec)
         /\ todo' = SubSeq(todo, n + 1, Len(todo))
  /\ UNCHANGED <<mode, budget, keep, scored, pool, outcome, queries>>

\* The results of a batch: the windows it keeps stay for the next query.
FinishStream ==
  /\ phase = "chunk" /\ todo = << >>
  /\ phase' = "idle" /\ outcome' = "ok"
  /\ UNCHANGED <<mode, budget, keep, todo, plan, scored, loadVars, cacheVars, pool, stats,
                 queries>>

\* An error.  A single query leaves its cache as it is; a batch recycles it.
Fail(c, p) ==
  /\ phase' = "idle" /\ outcome' = "load failed"
  /\ reserved' = << >> /\ waiting' = {} /\ payloads' = << >> /\ pending' = {}
  /\ \E order \in SetToSeqs(ToSet(c.recency)) :
       LET r == CacheRecycle(c, p, order)
       IN  IF mode = "stream" THEN CacheBecomes(r.cache) /\ pool' = r.pool
           ELSE CacheBecomes(c) /\ pool' = p
  /\ UNCHANGED <<mode, budget, keep, todo, plan, scored, stats, queries>>

\* The buffers for the windows ws: what take() gives one after another.
TakeAll(p, ws) ==
  FoldLeft(LAMBDA acc, o : LET t == PoolTake(acc.pool, WindowBytes[o])
                           IN  [pool |-> t.pool, capacities |-> Append(acc.capacities, t.capacity)],
           [pool |-> p, capacities |-> << >>], ws)

\* The windows to read: those that are missing, or those reserved in the shared cache.
ToRead == IF budget = 0 THEN Ascending(pending) ELSE reserved

\* Taking a buffer fails when it has to grow.  What this take found goes back to the
\* pool; the buffers taken before it do so only if the windows were reserved.
TakeFails ==
  /\ phase = "buffers"
  /\ \E k \in DOMAIN ToRead :
       LET before == TakeAll(pool, SubSeq(ToRead, 1, k - 1))
           taken  == PoolTake(before.pool, WindowBytes[ToRead[k]])
           back   == PoolRecycle(taken.pool, taken.found)
       IN  /\ taken.found < WindowBytes[ToRead[k]]
           /\ Fail(CacheRec, IF budget = 0 THEN back
                             ELSE PoolRecycleAll(back, before.capacities))

TakeBuffers ==
  /\ phase = "buffers"
  /\ LET t == TakeAll(pool, ToRead) IN payloads' = t.capacities /\ pool' = t.pool
  /\ phase' = "read"
  /\ UNCHANGED <<mode, budget, keep, todo, plan, scored, pending, reserved, waiting, cacheVars,
                 stats, outcome, queries>>

LoadPrivate ==
  /\ phase = "load" /\ pending # {} /\ budget = 0
  /\ phase' = "buffers"
  /\ stats' = [stats EXCEPT !.misses = Cardinality(pending)]
  /\ UNCHANGED <<mode, budget, keep, todo, plan, scored, loadVars, cacheVars, pool, outcome,
                 queries>>

\* Faulty variant of LookupAll: windows that another thread is reading count as misses.
LookupAllCountsWaits(hit, own, payload) ==
  /\ CacheBecomes(FoldLeft(LAMBDA c, o : CacheInsert(c, o, payload[o]), CacheRec,
                           Ascending(hit)))
  /\ reserved' = Ascending(own)
  /\ waiting' = pending \ (hit \cup own)
  /\ stats' = [hits |-> stats.hits + Cardinality(hit),
               misses |-> stats.misses + Cardinality(pending \ hit)]

\* One pass of lookup_or_reserve over the missing windows: some are hits, some become
\* this reader's to read, some are being read by another thread.
LookupAll(hit, own, payload) ==
  /\ CacheBecomes(FoldLeft(LAMBDA c, o : CacheInsert(c, o, payload[o]), CacheRec,
                           Ascending(hit)))
  /\ reserved' = Ascending(own)
  /\ waiting' = pending \ (hit \cup own)
  /\ stats' = [hits |-> stats.hits + Cardinality(hit),
               misses |-> stats.misses + Cardinality(own)]

LoadShared ==
  /\ phase = "load" /\ pending # {} /\ budget # 0
  /\ \E hit \in SUBSET pending : \E own \in SUBSET (pending \ hit) :
       \E extra \in [hit -> Slack] :
         LookupAll(hit, own, [o \in hit |-> [capacity |-> WindowBytes[o] + extra[o],
                                             owned |-> FALSE]])
  /\ phase' = IF reserved' = << >> THEN "wait" ELSE "buffers"
  /\ UNCHANGED <<mode, budget, keep, todo, plan, scored, pending, payloads, pool, outcome, queries>>

\* The read fails: the reservations are cancelled, the buffers go back.
ReadFails == phase = "read" /\ Fail(CacheRec, PoolRecycleAll(pool, payloads))

\* The read succeeds: private payloads own their buffers, others are published.
ReadSucceeds ==
  /\ phase = "read"
  /\ CacheBecomes(FoldLeft(LAMBDA c, i : CacheInsert(c, ToRead[i],
                              [capacity |-> payloads[i], owned |-> budget = 0]),
                           CacheRec, [i \in DOMAIN ToRead |-> i]))
  /\ phase' = IF budget = 0 THEN "load" ELSE "wait"
  /\ pending' = IF budget = 0 THEN {} ELSE pending
  /\ reserved' = << >> /\ payloads' = << >>
  /\ UNCHANGED <<mode, budget, keep, todo, plan, scored, waiting, pool, stats, outcome, queries>>

\* wait_for gives the payload that another thread published, or nothing when that
\* thread cancelled; what is still missing is looked up again.
Wait ==
  /\ phase = "wait"
  /\ \E got \in SUBSET waiting : \E extra \in [got -> Slack] :
       LET c == FoldLeft(LAMBDA acc, o : CacheInsert(acc, o,
                           [capacity |-> WindowBytes[o] + extra[o], owned |-> FALSE]),
                         CacheRec, Ascending(got))
       IN  /\ CacheBecomes(c)
           /\ stats' = [stats EXCEPT !.hits = @ + Cardinality(got)]
           /\ pending' = { o \in pending : c.entries[o] = Absent }
  /\ waiting' = {} /\ phase' = "load"
  /\ UNCHANGED <<mode, budget, keep, todo, plan, scored, reserved, payloads, pool, outcome, queries>>

LoadDone ==
  /\ phase = "load" /\ pending = {}
  /\ phase' = "score"
  /\ UNCHANGED <<mode, budget, keep, todo, plan, scored, loadVars, cacheVars, pool, stats, outcome,
                 queries>>

\* Faulty variant of AfterScore: the windows of a batch are not trimmed.
AfterScoreUntrimmed(order) ==
  LET touched == TouchWindows(CacheRec, Ascending(plan))
  IN  IF keep THEN [cache |-> touched, pool |-> pool]
      ELSE CacheRecycle(CacheRec, pool, order)

\* The windows that were read become the newest ones and the cache is trimmed; windows
\* too large to keep are given back.
AfterScore(order) ==
  LET touched == TouchWindows(CacheRec, Ascending(plan))
  IN  IF keep THEN CacheTrim(touched, pool, budget) ELSE CacheRecycle(CacheRec, pool, order)

\* Every record is found in a window that is loaded, and scored.
Score ==
  /\ phase = "score" /\ plan \subseteq Held
  /\ \E order \in DrainOrders :
       LET r == AfterScore(order) IN CacheBecomes(r.cache) /\ pool' = r.pool
  /\ scored' = scored \cup plan
  /\ phase' = IF mode = "stream" THEN "chunk" ELSE "idle"
  /\ outcome' = IF mode = "stream" THEN outcome ELSE "ok"
  /\ UNCHANGED <<mode, budget, keep, todo, plan, loadVars, stats, queries>>

\* A window is missing, a record is not finite, or a row ID cannot be read: the cache
\* is given back in both modes.
ScoreFails ==
  /\ phase = "score"
  /\ \E order \in DrainOrders :
       LET r == CacheRecycle(CacheRec, pool, order) IN CacheBecomes(r.cache) /\ pool' = r.pool
  /\ phase' = "idle" /\ outcome' = "score failed"
  /\ UNCHANGED <<mode, budget, keep, todo, plan, scored, loadVars, stats, queries>>

Next ==
  \/ Resize \/ Begin \/ NextChunk \/ FinishStream
  \/ LoadPrivate \/ LoadShared \/ TakeFails \/ TakeBuffers \/ ReadFails \/ ReadSucceeds
  \/ Wait \/ LoadDone \/ Score \/ ScoreFails

Spec == Init /\ [][Next]_vars

-----------------------------------------------------------------------------

\* Every record of the rerank is scored from a window that is loaded: no preparation,
\* insertion or eviction between the load and the scoring takes a window of the plan
\* away (the errors "DiskANN vector window is not loaded" cannot happen).
ScoredWindowsLoaded == phase = "score" => plan \subseteq Held

\* The byte count of the cache is what its payloads occupy, and its recency list names
\* each of them once, after every insert, touch, trim, recycle and failure.
CacheAccounting ==
  /\ retained = Bytes(entries, Held)
  /\ ToSet(recency) = Held /\ Len(recency) = Cardinality(Held)

\* The pool counts the capacities of the buffers it holds and stays within its limit,
\* through takes that fail half way, shared payloads and lowered limits.
PoolAccounting == pool.retained = SumOf(pool.buffers) /\ pool.retained <= pool.limit

\* A reader holds more than its budget between two reranks only if the load of a single
\* query failed after it had inserted windows, or the budget was lowered since.
OverBudgetOnlyAfterFailedLoad ==
  phase = "idle" /\ retained > budget
    => outcome = "resized" \/ (outcome = "load failed" /\ mode = "single")

\* A single query starts to load with a cache within the budget, whatever the rerank
\* before it left behind, so one failed load is not added to the next.
PreparedWithinBudget == phase = "idle" /\ phase' = "load" => retained' <= budget

\* Each window of a load is counted once, as a hit or as a miss, however often another
\* thread cancelled its read and the window had to be looked up again.
EveryWindowCountedOnce ==
  phase = "score" => stats.hits + stats.misses = Cardinality(plan)

\* The chunks of a batch are within the two limits that bound the bytes in flight, and
\* the batch ends only when every window has been scored.
ChunksWithinLimits ==
  phase = "chunk" /\ phase' = "load"
    => /\ Cardinality(plan') <= MaxRanges
       /\ Cardinality(plan') = 1 \/ PlanBytes(plan') <= MaxBytes
       /\ scored \cap plan' = {}

=============================================================================

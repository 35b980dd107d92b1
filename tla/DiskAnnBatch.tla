----------------------------- MODULE DiskAnnBatch -----------------------------
(***************************************************************************)
(* The query entry points of a DiskANN reader (core/src/diskann_search.rs):*)
(* search, search_batch, their roaring-filtered forms, warmup_queries and  *)
(* calibrate_l_search; the serial, session and chunked execution of a      *)
(* batch on cloned worker readers; and the statistics each of them leaves. *)
(*                                                                         *)
(* A reader is the part of DiskAnnIndexReader the entry points decide on:  *)
(* interleaved (of its header), resident, hot (adjacency_fully_preloaded), *)
(* calibrated and stats; `self` is the caller's, `workers` its             *)
(* batch_workers.  While a call runs, `job`                                *)
(* holds the arguments and locals of the running function.  The workers of *)
(* one par_iter_mut step independently, and any of them may fail.  What a  *)
(* query finds is the query itself: an answer is the pair of the query     *)
(* that was reranked and the query its candidates were generated for.      *)
(*                                                                         *)
(* The counters of DiskAnnSearchStats are grouped: graph, exhaustive and   *)
(* fallbacks are the filtered_* counters, generated stands for the pq_ and *)
(* adjacency_ ones, reranked for the rerank_ and raw_vector_ ones.         *)
(***************************************************************************)
EXTENDS DiskAnnPlanning, TLC

CONSTANTS
  Threads,       \* rayon::current_num_threads()
  ChunkSize,     \* BATCH_QUERY_CHUNK_SIZE
  PerWorker,     \* PARALLEL_SESSION_MAX_QUERIES_PER_WORKER
  PreloadsAll,   \* whether the budget lets optimize_for_search preload every page
  VectorCount, Degree, WindowBytes,   \* of the header and the read plan
  LSearch,       \* the width the caller asks for
  MaxQueries, MaxCalls,   \* bounds
  Filters        \* matching nodes of the filters passed; 0: none match, None: no filter

VARIABLES self, workers, job, call, reply, calls

vars == <<self, workers, job, call, reply, calls>>

ZeroStats == [queries |-> 0, chunks |-> 0, maxChunk |-> 0, graph |-> 0, exhaustive |-> 0,
              fallbacks |-> 0, generated |-> 0, reranked |-> 0, sessions |-> 0]

\* merge_candidate_generation.
MergeCandidateGeneration(s, w) ==
  [s EXCEPT !.graph = @ + w.graph, !.exhaustive = @ + w.exhaustive,
            !.fallbacks = @ + w.fallbacks, !.generated = @ + w.generated]

\* merge_complete_query.
MergeCompleteQuery(s, w) ==
  [MergeCandidateGeneration(s, w) EXCEPT
     !.reranked = @ + w.reranked, !.sessions = @ + Most(w.queries, 1)]

\* record_query_chunk.
RecordQueryChunk(s, n) == [s EXCEPT !.chunks = @ + 1, !.maxChunk = Most(@, n)]

\* try_clone_with_shared_state.
CloneReader(r) == [r EXCEPT !.stats = ZeroStats]

\* Faulty variant of RefreshSharedState: keeps the worker's preloaded adjacency.
RefreshSharedStateCold(w, r) ==
  [w EXCEPT !.resident = r.resident, !.calibrated = r.calibrated]

\* refresh_shared_state_from.
RefreshSharedState(w, r) ==
  [w EXCEPT !.resident = r.resident, !.calibrated = r.calibrated, !.hot = r.hot]

Strategy(r, lSearch, matching) ==
  SelectFilteredStrategy(VectorCount, matching, 1, lSearch, Degree, WindowBytes, r.hot)

\* The statistics a query's candidate generation leaves on the reader that ran it:
\* generate_graph_candidates, and generate_filtered_candidates with its fallback.
Generate(s, r, lSearch, filter, short) ==
  IF filter = None THEN [s EXCEPT !.generated = @ + 1]
  ELSE IF Strategy(r, lSearch, filter).graph
  THEN IF short THEN [s EXCEPT !.graph = @ + 1, !.fallbacks = @ + 1, !.exhaustive = @ + 1,
                               !.generated = @ + 2]
       ELSE [s EXCEPT !.graph = @ + 1, !.generated = @ + 1]
  ELSE [s EXCEPT !.exhaustive = @ + 1, !.generated = @ + 1]

\* search_preprocessed and search_with_matching_nodes with the reset before it: one
\* query from its own statistics to its reranked answer.
CompleteQuery(r, lSearch, filter, short) ==
  [Generate([ZeroStats EXCEPT !.queries = 1], r, lSearch, filter, short) EXCEPT !.reranked = @ + 1]

------------------------------------------------------------------------------

Idle == [phase |-> "idle"]
Pending == [outcome |-> "pending", answers |-> <<>>]
Reply(how, result) == [outcome |-> how, answers |-> result]

Init ==
  /\ \E interleaved \in BOOLEAN :
       self = [interleaved |-> interleaved, resident |-> FALSE, hot |-> FALSE, calibrated |-> 0,
               stats |-> ZeroStats]
  /\ workers = <<>> /\ job = Idle /\ reply = Pending /\ calls = 0
  /\ call = [fn |-> "none"]

Arguments(fn, n, filter, topK, l) ==
  [fn |-> fn, queries |-> n, filter |-> filter, topK |-> topK, lSearch |-> l,
   saved |-> self.stats, calibrated |-> self.calibrated]

Enqueue(n, filter, topK, l) ==
  [phase |-> "enter", queries |-> n, filter |-> filter, topK |-> topK, lSearch |-> l]

\* Faulty variant of ChosenWidth: the wider of two agreeing widths is chosen.
ChosenWidthWide(stable) == IF stable[1] THEN 200 ELSE 400

\* The width calibrate_l_search settles on; stable[i]: widths i and i+1 agree to 98%.
ChosenWidth(stable) == IF stable[1] THEN 100 ELSE IF stable[2] THEN 200 ELSE 400

\* Faulty variant of AfterWarmup: an error skips the restore.
AfterWarmupEarly(how, r, saved) == IF how = "err" THEN r ELSE [r EXCEPT !.stats = saved]

\* warmup_queries after its replay: the saved statistics come back in every case.
AfterWarmup(how, r, saved) == [r EXCEPT !.stats = saved]

\* The end of the function that runs a batch or a replay, and what its caller does: a
\* calibration goes on with the next width, or returns the error as it is.
Finish(how, result, r, ws) ==
  \/ /\ call.fn = "batch"
     /\ job' = Idle /\ reply' = Reply(how, result) /\ self' = r /\ workers' = ws /\ UNCHANGED call
  \/ /\ call.fn = "warmup"
     /\ job' = Idle /\ reply' = Reply(how, <<>>) /\ workers' = ws /\ UNCHANGED call
     /\ self' = AfterWarmup(how, r, call.saved)
  \/ /\ call.fn = "calibrate" /\ how # "ok"
     /\ job' = Idle /\ reply' = Reply(how, <<>>) /\ self' = r /\ workers' = ws /\ UNCHANGED call
  \/ /\ call.fn = "calibrate" /\ how = "ok" /\ call.round < 3
     /\ job' = Enqueue(call.queries, None, 1, 100 * 2 ^ call.round)
     /\ call' = [call EXCEPT !.round = @ + 1] /\ self' = r /\ workers' = ws /\ UNCHANGED reply
  \/ /\ call.fn = "calibrate" /\ how = "ok" /\ call.round = 3
     /\ job' = Idle /\ reply' = Reply(how, <<>>) /\ UNCHANGED call
     /\ self' = [r EXCEPT !.stats = call.saved, !.calibrated = ChosenWidth(call.stable)]
     /\ workers' = [i \in DOMAIN ws |-> [ws[i] EXCEPT !.calibrated = ChosenWidth(call.stable)]]

\* ensure_resident and optimize_for_search; either may fail before it changes anything.
Resident(r) == [r EXCEPT !.resident = TRUE]
Optimized(r) == [r EXCEPT !.resident = TRUE, !.hot = PreloadsAll]

NewCall == job = Idle /\ calls < MaxCalls /\ calls' = calls + 1

\* search_batch and search_batch_with_roaring_filter are called.
CallBatch ==
  /\ NewCall /\ reply' = Pending /\ UNCHANGED <<self, workers>>
  /\ \E n \in 0..MaxQueries, filter \in Filters, topK \in 0..1 :
       /\ call' = Arguments("batch", n, filter, topK, LSearch)
       /\ job' = Enqueue(n, filter, topK, LSearch)

\* warmup_queries: the queries are replayed one by one on the parent.
CallWarmup ==
  /\ NewCall /\ UNCHANGED workers
  /\ \E n \in 0..MaxQueries :
       /\ call' = Arguments("warmup", n, None, 1, 0)
       /\ \/ reply' = Reply("err", <<>>) /\ UNCHANGED <<self, job>>
          \/ /\ self' = Optimized(self)
             /\ IF n = 0 THEN reply' = Reply("ok", <<>>) /\ UNCHANGED job
                ELSE /\ reply' = Pending
                     /\ job' = [phase |-> "run", mode |-> "replay", queries |-> n, filter |-> None,
                                lSearch |-> 0, result |-> <<>>, aggregate |-> ZeroStats]

\* calibrate_l_search: three batches of growing width.
CallCalibrate ==
  /\ NewCall /\ UNCHANGED workers
  /\ \E n \in 1..MaxQueries, stable \in [1..2 -> BOOLEAN] :
       /\ call' = [round |-> 1, stable |-> stable] @@ Arguments("calibrate", n, None, 1, 100)
       /\ \/ reply' = Reply("err", <<>>) /\ UNCHANGED <<self, job>>
          \/ self' = Optimized(self) /\ reply' = Pending /\ job' = Enqueue(n, None, 1, 100)

\* search and search_with_decoded_roaring_filter: one query on the parent.
CallSingle ==
  /\ NewCall /\ UNCHANGED <<workers, job>>
  /\ \E filter \in Filters, short, fails \in BOOLEAN :
       LET fresh == [ZeroStats EXCEPT !.queries = 1]
       IN  /\ call' = Arguments("single", 1, filter, 1, LSearch)
           /\ reply' = IF fails THEN Reply("err", <<>>)
                       ELSE Reply("ok", << <<1, IF filter = 0 THEN 0 ELSE 1>> >>)
           /\ self' = [Resident(self) EXCEPT !.stats =
                         IF fails \/ filter = 0 THEN fresh ELSE CompleteQuery(self, LSearch, filter, short)]

------------------------------------------------------------------------------
(* From the call to the way its queries are executed *)

Run(mode, r, ws) ==
  /\ self' = [r EXCEPT !.stats = IF mode = "sessions" THEN RecordQueryChunk(@, job.queries) ELSE @]
  /\ workers' = ws /\ UNCHANGED <<call, reply>>
  /\ job' = [phase |-> "run", mode |-> mode, queries |-> job.queries, filter |-> job.filter,
             lSearch |-> job.lSearch, start |-> 0, result |-> <<>>, parts |-> [w \in DOMAIN ws |-> <<>>],
             aggregate |-> [ZeroStats EXCEPT !.queries = job.queries, !.maxChunk = job.queries,
                                             !.chunks = IF job.queries = 0 THEN 0 ELSE 1]]

Alone == IF self.interleaved THEN "direct" ELSE "serial"

\* The start of search_batch and search_batch_with_roaring_filter.
Enter ==
  /\ job.phase = "enter" /\ UNCHANGED calls
  /\ LET fresh == [self EXCEPT !.stats = [ZeroStats EXCEPT !.queries = job.queries]]
         filtered == job.filter # None
         ready == IF filtered THEN Resident(fresh) ELSE fresh
         scan == filtered /\ ~self.interleaved /\ ~Strategy(self, job.lSearch, job.filter).graph
     IN  \/ job.topK = 0 /\ Finish("ok", <<>>, fresh, workers)
         \/ job.topK # 0 /\ filtered /\ Finish("err", <<>>, fresh, workers)
         \/ /\ job.topK # 0 /\ job.filter = 0
            /\ Finish("ok", [q \in 1..job.queries |-> <<q, 0>>], ready, workers)
         \/ /\ job.topK # 0 /\ job.filter # 0
            /\ IF scan THEN Run("exhaustive", ready, workers)
               ELSE IF Least(job.queries, Threads) <= 1 THEN Run(Alone, ready, <<>>)
               ELSE /\ job' = [job EXCEPT !.phase = "take"] /\ self' = ready
                    /\ UNCHANGED <<workers, call, reply>>

\* take_batch_workers and the choice between sessions and chunks.  The retained
\* workers are cut to the count, missing ones cloned; a reader that cannot be
\* cloned sends the batch to the serial path, with the clones made so far retained.
TakeBatchWorkers ==
  /\ job.phase = "take" /\ UNCHANGED calls
  /\ LET count == Least(job.queries, Threads)
         ready == IF job.filter = None THEN Optimized(self) ELSE Resident(self)
         kept == SubSeq(workers, 1, Least(Len(workers), count))
         with(n) == kept \o [i \in 1..n |-> CloneReader(ready)]
         all == with(count - Len(kept))
     IN  \/ Finish("err", <<>>, self, workers)                    \* nothing is ready
         \/ Run(IF self.interleaved \/ job.queries <= count * PerWorker THEN "sessions" ELSE "chunks",
                ready, [i \in 1..count |-> RefreshSharedState(all[i], ready)])
         \/ \E n \in 0..(count - Len(kept) - 1) :                 \* try_clone_reader
              Run(Alone, ready, with(n)) \/ Finish("err", <<>>, ready, with(n))

------------------------------------------------------------------------------
(* Running the queries *)

ChunkCount == Least(ChunkSize, job.queries - job.start)

\* (worker_index..n).step_by(worker_count): the queries of worker w of k, numbered from 1.
ShareOf(w, k, n) == SelectSeq([i \in 1..n |-> i], LAMBDA q : (q - 1) % k = w - 1)

Todo(w) ==
  LET n == IF job.mode = "chunks" THEN ChunkCount ELSE job.queries
      share == ShareOf(w, Len(job.parts), n)
  IN  SubSeq(share, Len(job.parts[w]) + 1, Len(share))

\* A worker of search_batch_in_parallel_sessions runs its next query to the end.
SessionStep(w) ==
  /\ job.phase = "run" /\ job.mode = "sessions" /\ Todo(w) # <<>>
  /\ \E short \in BOOLEAN :
       LET s == CompleteQuery(workers[w], job.lSearch, job.filter, short)
       IN  /\ workers' = [workers EXCEPT ![w].stats = s]
           /\ job' = [job EXCEPT !.parts[w] = Append(@, [q |-> Head(Todo(w)), stats |-> s])]
  /\ UNCHANGED <<self, call, reply, calls>>

\* A worker of a chunk generates the candidates of its next query; its statistics
\* were reset when the chunk started.
ChunkStep(w) ==
  /\ job.phase = "run" /\ job.mode = "chunks" /\ Todo(w) # <<>>
  /\ \E short \in BOOLEAN :
       LET before == IF job.parts[w] = <<>> THEN ZeroStats ELSE workers[w].stats
           s == Generate(before, workers[w], job.lSearch, job.filter, short)
       IN  /\ workers' = [workers EXCEPT ![w].stats = s]
           /\ job' = [job EXCEPT !.parts[w] = Append(@, [q |-> Head(Todo(w)), stats |-> s])]
  /\ UNCHANGED <<self, call, reply, calls>>

\* A worker fails: collect drops every output, the workers are put back.
WorkerFails(w) ==
  /\ job.phase = "run" /\ job.mode \in {"sessions", "chunks"} /\ Todo(w) # <<>>
  /\ Finish("err", <<>>, self, workers)
  /\ UNCHANGED calls

AllOutputs == FlattenSeq(job.parts)

\* Faulty variant of CollectSessions: the outputs are concatenated worker by worker.
CollectSessionsByWorker(outputs, n) == [i \in DOMAIN outputs |-> <<i, outputs[i].q>>]

\* The slots of collect_parallel_session_outputs: None where it reports a missing,
\* duplicate or unknown query.
CollectSessions(outputs, n) ==
  IF \/ \E i \in DOMAIN outputs : outputs[i].q \notin 1..n
     \/ \E q \in 1..n : Cardinality({i \in DOMAIN outputs : outputs[i].q = q}) # 1
  THEN None
  ELSE [q \in 1..n |-> <<q, (CHOOSE o \in ToSet(outputs) : o.q = q).q>>]

\* collect_parallel_session_outputs once every worker is done.
FinishSessions ==
  /\ job.phase = "run" /\ job.mode = "sessions" /\ \A w \in DOMAIN job.parts : Todo(w) = <<>>
  /\ LET collected == CollectSessions(AllOutputs, job.queries)
         merged == FoldLeft(LAMBDA s, o : MergeCompleteQuery(s, o.stats), self.stats, AllOutputs)
     IN  IF collected = None THEN Finish("internal", <<>>, self, workers)
         ELSE Finish("ok", collected, [self EXCEPT !.stats = merged], workers)
  /\ UNCHANGED calls

\* Faulty variant of LastOutputs: every output's running statistics are merged.
LastOutputsAll(parts) == FlattenSeq(parts)

\* The (partition, worker.last_search_stats) of each worker of a chunk.
LastOutputs(parts) ==
  FlattenSeq([w \in DOMAIN parts |-> IF parts[w] = <<>> THEN <<>> ELSE <<Last(parts[w])>>])

\* Reranked answers of a chunk that starts at `start`: rerank_candidate_batch_streaming
\* scatters by the query index each partition entry carries.
ChunkAnswers(start, outputs, n) ==
  [i \in 1..n |-> <<start + i, start + (CHOOSE q \in {o.q : o \in ToSet(outputs)} : q = i)>>]

\* The end of one chunk: statistics merged, candidates reranked on the parent, which
\* may fail; then the next chunk, or the end of the batch.
FinishChunk ==
  /\ job.phase = "run" /\ job.mode = "chunks" /\ \A w \in DOMAIN job.parts : Todo(w) = <<>>
  /\ LET merged == FoldLeft(LAMBDA s, o : MergeCandidateGeneration(s, o.stats),
                            RecordQueryChunk(self.stats, ChunkCount), LastOutputs(job.parts))
         after == [self EXCEPT !.stats = [merged EXCEPT !.reranked = @ + ChunkCount]]
         result == job.result \o ChunkAnswers(job.start, AllOutputs, ChunkCount)
     IN  \/ Finish("err", <<>>, [self EXCEPT !.stats = merged], workers)
         \/ IF job.start + ChunkCount = job.queries THEN Finish("ok", result, after, workers)
            ELSE /\ self' = after
                 /\ job' = [job EXCEPT !.start = @ + ChunkCount, !.result = result,
                                       !.parts = [w \in DOMAIN job.parts |-> <<>>]]
                 /\ UNCHANGED <<workers, call, reply>>
  /\ UNCHANGED calls

\* One chunk on the parent, whose statistics accumulate; `short` says which filtered
\* graph queries fall back.  The rerank that ends the chunk may fail.
ParentChunk(short) ==
  LET merged == FoldLeft(LAMBDA s, b : Generate(s, self, job.lSearch, job.filter, b),
                         RecordQueryChunk(self.stats, ChunkCount), short)
      after == [Resident(self) EXCEPT !.stats = [merged EXCEPT !.reranked = @ + ChunkCount]]
      result == job.result \o [i \in 1..ChunkCount |-> <<job.start + i, job.start + i>>]
  IN  \/ job.queries = 0 /\ Finish("ok", <<>>, self, workers)
      \/ job.queries # 0 /\ Finish("err", <<>>, [self EXCEPT !.stats = merged], workers)
      \/ /\ job.queries # 0 /\ job.start + ChunkCount = job.queries
         /\ Finish("ok", result, after, workers)
      \/ /\ job.start + ChunkCount < job.queries /\ self' = after
         /\ job' = [job EXCEPT !.start = @ + ChunkCount, !.result = result]
         /\ UNCHANGED <<workers, call, reply>>

\* search_batch_serial and search_batch_with_matching_nodes_serial.
SerialChunk ==
  /\ job.phase = "run" /\ job.mode = "serial" /\ UNCHANGED calls
  /\ \E short \in [1..ChunkCount -> BOOLEAN] : ParentChunk(short)

\* search_batch_filtered_exhaustive: every query of the chunk scans the matching nodes.
ExhaustiveChunk ==
  /\ job.phase = "run" /\ job.mode = "exhaustive" /\ UNCHANGED calls
  /\ ParentChunk([i \in 1..ChunkCount |-> FALSE])

\* search_batch_direct_serial, its filtered form and the replay of warmup_queries: one
\* query after the other on the parent, each resetting the parent's statistics.
DirectQuery ==
  /\ job.phase = "run" /\ job.mode \in {"direct", "replay"}
  /\ \E short \in BOOLEAN :
       LET s == CompleteQuery(self, job.lSearch, job.filter, short)
           done == [Resident(self) EXCEPT !.stats = s]
           result == Append(job.result, <<Len(job.result) + 1, Len(job.result) + 1>>)
       IN  IF Len(job.result) = job.queries
           THEN Finish("ok", job.result,
                       IF job.mode = "direct"
                       THEN [self EXCEPT !.stats = [job.aggregate EXCEPT !.sessions = 0]] ELSE self, workers)
           ELSE \/ Finish("err", <<>>, [done EXCEPT !.stats = [ZeroStats EXCEPT !.queries = 1]], workers)
                \/ /\ self' = done
                   /\ job' = [job EXCEPT !.result = result, !.aggregate = MergeCompleteQuery(@, s)]
                   /\ UNCHANGED <<workers, call, reply>>
  /\ UNCHANGED calls

Next ==
  \/ CallBatch \/ CallWarmup \/ CallCalibrate \/ CallSingle \/ Enter \/ TakeBatchWorkers
  \/ \E w \in 1..Threads : w \in DOMAIN workers /\ (SessionStep(w) \/ ChunkStep(w) \/ WorkerFails(w))
  \/ FinishSessions \/ FinishChunk \/ SerialChunk \/ ExhaustiveChunk \/ DirectQuery

Spec == Init /\ [][Next]_vars

------------------------------------------------------------------------------

Answered(fn) == job = Idle /\ call.fn = fn /\ reply.outcome = "ok"
Matched == call.topK # 0 /\ (call.filter = None \/ call.filter # 0)

\* A batch answers every query once and in the caller's order, whichever worker ran it
\* and in whatever order they finished, and the internal errors of
\* collect_parallel_session_outputs are never reported.
AnswersInCallerOrder ==
  /\ reply.outcome # "internal"
  /\ Answered("batch") /\ call.topK # 0 =>
       reply.answers = [q \in 1..call.queries |-> <<q, IF call.filter = 0 THEN 0 ELSE q>>]

\* The statistics of a successful batch count each of its queries exactly once, on
\* every path: serial, sessions, chunks, with the fallbacks of filtered graph queries
\* (merge_candidate_generation, merge_complete_query, record_query_chunk).
StatsCountEachQueryOnce ==
  Answered("batch") =>
    LET s == self.stats
        n == IF Matched THEN call.queries ELSE 0
    IN  /\ s.queries = call.queries /\ s.reranked = n
        /\ s.generated = n + s.fallbacks
        /\ s.graph + s.exhaustive - s.fallbacks = (IF call.filter = None THEN 0 ELSE n)
        /\ s.sessions \in {0, n}
        /\ s.maxChunk * s.chunks >= n

\* Every query of a filtered batch is answered with the strategy the parent's current
\* state calls for: a worker retained from before the adjacency was preloaded must
\* not decide on what it was cloned with (take_batch_workers).
OneStrategyPerBatch ==
  Answered("batch") /\ Matched /\ call.filter # None =>
    self.stats.graph =
      IF Strategy(self, call.lSearch, call.filter).graph THEN call.queries ELSE 0

\* warmup_queries leaves the reported statistics alone, also when a query fails.
WarmupKeepsStats == job = Idle /\ call.fn = "warmup" => self.stats = call.saved

\* A calibration that succeeds keeps the statistics and sets the narrowest width that
\* agrees with the next one, on the parent and on every retained worker; one that
\* fails leaves the previous width in force.
CalibrationAllOrNothing ==
  job = Idle /\ call.fn = "calibrate" =>
    IF reply.outcome = "ok"
    THEN LET width == {100 * 2 ^ (i - 1) : i \in {j \in 1..2 : call.stable[j]}} \cup {400}
         IN  /\ self.stats = call.saved
             /\ \A r \in {self} \cup ToSet(workers) : r.calibrated = Min(width)
    ELSE self.calibrated = call.calibrated
=============================================================================

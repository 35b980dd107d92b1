---------------------------- MODULE BindingCalls -----------------------------
(* Calls across the bindings, and what they say about what happened.            *)
(*                                                                              *)
(* A search through the C interface (src/ffi/src/lib.rs and range.rs), as the   *)
(* Python binding makes it: parameters in three layouts, the checks in order,   *)
(* the result copied into the caller's buffers or handed over as an object, and *)
(* the message of a failure, which the caller reads after the call.  The        *)
(* conversion of the Java parameters is here for comparison.                    *)
(*                                                                              *)
(* The application's files behind the Java and the Python binding               *)
(* (jni/src/stream.rs, ffi/src/lib.rs, python/paimon_vindex/__init__.py): a     *)
(* positional read of several ranges, the pieces of an index on their way out,  *)
(* and what becomes of a failure in them.  Beside them the log sink             *)
(* (core/src/logging.rs, jni/src/log_bridge.rs), whose records go through the   *)
(* same JNI environment.  A native method runs on the application's thread;     *)
(* reads may run on a worker thread, which is attached to the JVM for the read  *)
(* only.  `pending` is the exception a thread has raised and nobody has cleared,*)
(* by who raised it: while there is one, every further JNI call of that thread  *)
(* fails.                                                                       *)
EXTENDS Integers, Sequences, FiniteSets

CONSTANTS
  Threads,
  Requests,      \* records with the fields used below
  Garbage,       \* memory behind the end of the caller's structure
  DefaultBytes,  \* DEFAULT_IVFPQ_BATCH_TABLE_REUSE_MAX_BYTES
  Dimension,
  MaxBytes,      \* isize::MAX
  Calls,         \* bound on the calls of one thread
  Binding,       \* "java" or "python"
  Ranges,        \* numbers of ranges of a read to try
  ChunkRanges,   \* MAX_JNI_RANGES_PER_CALL
  Pieces,        \* bound on the pieces an index is written in
  PieceBytes,
  LogFaults,     \* what may fail in forwarding a record
  Records,       \* bound on the records of a method
  Methods,       \* bound on the methods called
  None

\* LogFaults is a subset of {"frame", "string", "call", "panic"}.

VARIABLES
  phase,         \* [t -> idle, failed, holding (a range result), viewed]
  request,       \* [t -> the last request]
  reply,         \* [t -> what its call returned]
  out,           \* [t -> the caller's result buffer]
  lastError,     \* LAST_ERROR, one for each thread
  message,       \* [t -> what the caller reported]
  results,       \* [t -> range results it owns]
  calls,         \* [t -> calls made]
  method,        \* [kind, result, count]: the native method, "none" between two
  pending,       \* [thread -> None or who raised the exception]
  read,          \* [on, n, next, got]: the read in progress or the last one
  output,        \* [bytes, pos]: what the application's file has, what the adapter counts
  sink,          \* where diagnostic records go
  records        \* records of this method

searchVars == <<phase, request, reply, out, lastError, message, results, calls>>
streamVars == <<method, pending, read, output, sink, records>>

------------------------------------------------------------------------------
(* Parameters                                                                  *)

\* PaimonVindexSearchParamsEx: where each field starts and ends
Offset == [topK |-> 8, kind |-> 16, width |-> 24, factor |-> 32, reuse |-> 40, bytes |-> 48]
End == [topK |-> 16, kind |-> 20, width |-> 32, factor |-> 40, reuse |-> 44, bytes |-> 56]
Defaults == [topK |-> 0, kind |-> 0, width |-> 0, factor |-> 0, reuse |-> 2, bytes |-> DefaultBytes]

Bad(error) == [error |-> error, params |-> Defaults]
Good(params) == [error |-> None, params |-> params]

\* search_params_from_ffi
ParamsV1(r) ==
  IF r.kind \notin 0..2 THEN Bad("width type")
  ELSE IF r.kind = 0 /\ r.width # 0 THEN Bad("automatic width")
  ELSE Good([Defaults EXCEPT !.topK = r.topK, !.kind = r.kind, !.width = r.width])

WithReuse(result, reuse, bytes) ==
  IF result.error # None THEN result
  ELSE IF reuse \notin 0..2 THEN Bad("reuse mode")
  ELSE IF bytes = 0 THEN Bad("reuse bytes")
  ELSE Good([result.params EXCEPT !.reuse = reuse, !.bytes = bytes])

ParamsV2(r) == WithReuse(ParamsV1(r), r.reuse, r.bytes)

\* What is in memory: the fields the caller's structure has, wholly
Memory(r, field) == IF End[field] <= r.size THEN r[field] ELSE Garbage

\* Faulty variant of ExField: a field that starts in the structure is read.
ExFieldFromStart(r, field) == IF Offset[field] >= r.size THEN Defaults[field] ELSE Memory(r, field)

\* search_params_ex_field
ExField(r, field) == IF End[field] > r.size THEN Defaults[field] ELSE Memory(r, field)

ParamsEx(r) ==
  IF "params" \in r.nulls THEN Bad("params null")
  ELSE IF r.size < End["width"] THEN Bad("size")
  ELSE LET head == ParamsV1([r EXCEPT !.topK = ExField(r, "topK"), !.kind = ExField(r, "kind"), !.width = ExField(r, "width")])
       IN  WithReuse([head EXCEPT !.params.factor = ExField(r, "factor")], ExField(r, "reuse"), ExField(r, "bytes"))

\* search_params of JNI: its checks come in another order, and signed values are refused.
ParamsJava(r) ==
  IF r.factor < 0 THEN Bad("factor")
  ELSE IF r.reuse \notin 0..2 THEN Bad("reuse mode")
  ELSE IF r.bytes <= 0 THEN Bad("reuse bytes")
  ELSE IF r.topK < 0 \/ r.width < 0 THEN Bad("parameters")
  ELSE IF r.kind \notin 0..2 THEN Bad("width type")
  ELSE IF r.kind = 0 /\ r.width # 0 THEN Bad("automatic width")
  ELSE Good([topK |-> r.topK, kind |-> r.kind, width |-> r.width, factor |-> r.factor, reuse |-> r.reuse, bytes |-> r.bytes])

Params(r) == IF r.api = "v1" THEN ParamsV1(r) ELSE IF r.api = "v2" THEN ParamsV2(r) ELSE ParamsEx(r)

------------------------------------------------------------------------------
(* The call                                                                    *)

\* The first of the checks that fails, of those made in this order
FirstError(errors) ==
  IF \A i \in DOMAIN errors : errors[i] = None THEN None
  ELSE errors[CHOOSE i \in DOMAIN errors : errors[i] # None /\ \A j \in 1..(i - 1) : errors[j] = None]

Unless(holds, error) == IF holds THEN None ELSE error

\* checked_len: a product is at most usize::MAX, which is twice isize::MAX and one.
CheckedLen(a, b) == Unless(a * b <= 2 * MaxBytes + 1, "length overflow")

\* The bytes of an element: f32, u8, i64, f32, usize, and the four counters of a query
ElementBytes == [query |-> 4, filter |-> 1, ids |-> 8, distances |-> 4, offsets |-> 8, stats |-> 32]
FitsMemory(name, len) == Unless(len * ElementBytes[name] <= MaxBytes, "byte length overflow")

\* validate_slice_layout
SliceLayout(r, name, len) == FirstError(<<FitsMemory(name, len), Unless(name \notin r.unaligned, "unaligned")>>)

\* const_slice and mut_slice: no pointer is needed for nothing.
Slice(r, name, len) ==
  IF len = 0 THEN None ELSE IF name \in r.nulls THEN "null" ELSE SliceLayout(r, name, len)

\* range_slice asks for the layout first.
RangeSlice(r, name, len) ==
  FirstError(<<FitsMemory(name, len), Unless(len = 0 \/ name \notin r.unaligned, "unaligned"), Slice(r, name, len)>>)

\* What the core returns for k rows of each query: the hits of the query, padded
Hits(r, k) == [i \in 1..(r.queries * k) |-> i]

\* Faulty variant of CopyResult: the identifiers are copied before the distances are looked at.
CopyEagerly(r, buffer, expected, hits) ==
  IF Len(hits) # expected THEN [error |-> "length mismatch", out |-> buffer]
  ELSE IF r.len < expected THEN [error |-> "buffers too small", out |-> buffer]
  ELSE IF Slice(r, "ids", expected) # None THEN [error |-> Slice(r, "ids", expected), out |-> buffer]
  ELSE LET ids == [i \in DOMAIN buffer |-> IF i <= expected THEN [buffer[i] EXCEPT !.id = hits[i]] ELSE buffer[i]]
       IN  IF Slice(r, "distances", expected) # None THEN [error |-> Slice(r, "distances", expected), out |-> ids]
           ELSE [error |-> None, out |-> [i \in DOMAIN ids |-> IF i <= expected THEN [ids[i] EXCEPT !.distance = hits[i]] ELSE ids[i]]]

\* copy_search_result
CopyResult(r, buffer, expected, hits) ==
  LET error == FirstError(<<Unless(Len(hits) = expected, "length mismatch"), Unless(r.len >= expected, "buffers too small"),
                            Slice(r, "ids", expected), Slice(r, "distances", expected)>>)
      copied == [i \in DOMAIN buffer |-> IF i <= expected THEN [id |-> hits[i], distance |-> hits[i]] ELSE buffer[i]]
  IN  [error |-> error, out |-> IF error = None THEN copied ELSE buffer]

\* The search functions: one query or a batch, filtered or not
SearchCall(r, buffer) ==
  LET params == Params(r)
      count == IF r.batch THEN r.queries ELSE 1
      k == params.params.topK
      error == FirstError(<<Unless("handle" \notin r.nulls, "handle null"),
                            CheckedLen(count, Dimension), Slice(r, "query", count * Dimension),
                            IF r.filtered THEN Slice(r, "filter", 1) ELSE None,
                            params.error, IF r.batch THEN CheckedLen(count, k) ELSE None,
                            Unless(r.core = "ok", r.core)>>)
  IN  IF error # None THEN [error |-> error, out |-> buffer]
      ELSE CopyResult(r, buffer, count * k, Hits([r EXCEPT !.queries = count], k))

\* range_bound, range_metric and DistanceBand::from_raw: each kind is known, a cut is a
\* number, none below zero for squared L2 (metric 0), and the band is not inverted.
RangeParams(r) ==
  LET known(b) == Unless(b.kind \in 0..1, "bound kind")
      cuts(b) == IF b.kind = 0 THEN None
                 ELSE FirstError(<<Unless(b.finite, "cut not finite"), Unless(r.kind # 0 \/ b.value >= 0, "cut negative")>>)
      both == r.lower.kind = 1 /\ r.upper.kind = 1
  IN  FirstError(<<known(r.lower), known(r.upper), Unless(r.kind \in 0..2, "metric"), cuts(r.lower), cuts(r.upper),
                   Unless(~both \/ r.lower.value <= r.upper.value, "inverted band")>>)

\* range_search: the checks before the core, then a new result
RangeCall(r) ==
  LET count == IF r.batch THEN r.queries ELSE 1
  IN  FirstError(<<Unless("out" \notin r.nulls, "out null"), Unless("handle" \notin r.nulls, "handle null"),
                   CheckedLen(count, Dimension), Unless(r.len = count * Dimension, "query length"),
                   FitsMemory("offsets", count + 1), FitsMemory("stats", count), RangeSlice(r, "query", r.len),
                   RangeParams(r), IF r.filtered THEN RangeSlice(r, "filter", 1) ELSE None,
                   Unless(r.core = "ok", r.core)>>)

\* Faulty variant of SetError: one message for all threads.
SetErrorShared(t, error) == [u \in Threads |-> error]

\* set_error
SetError(t, error) == [lastError EXCEPT ![t] = error]

\* ffi_status: an error or a panic leaves its message; success leaves the old one.
Returns(t, error) ==
  /\ reply' = [reply EXCEPT ![t] = error]
  /\ lastError' = IF error = None THEN lastError ELSE SetError(t, error)

Empty == [i \in 1..4 |-> [id |-> None, distance |-> None]]

SearchInit ==
  /\ phase = [t \in Threads |-> "idle"] /\ request = [t \in Threads |-> None] /\ reply = [t \in Threads |-> None]
  /\ out = [t \in Threads |-> Empty] /\ lastError = [t \in Threads |-> None]
  /\ message = [t \in Threads |-> None] /\ results = [t \in Threads |-> 0]
  /\ calls = [t \in Threads |-> 0]

Search(t, r) ==
  LET done == SearchCall(r, Empty)
  IN  /\ phase[t] = "idle" /\ r.op = "search"
      /\ calls' = [calls EXCEPT ![t] = @ + 1]
      /\ request' = [request EXCEPT ![t] = r] /\ out' = [out EXCEPT ![t] = done.out]
      /\ Returns(t, done.error)
      /\ phase' = [phase EXCEPT ![t] = IF done.error = None THEN "idle" ELSE "failed"]
      /\ message' = [message EXCEPT ![t] = None]
      /\ UNCHANGED results

Range(t, r) ==
  LET error == RangeCall(r)
  IN  /\ phase[t] = "idle" /\ r.op = "range"
      /\ calls' = [calls EXCEPT ![t] = @ + 1]
      /\ request' = [request EXCEPT ![t] = r] /\ out' = [out EXCEPT ![t] = Empty]
      /\ Returns(t, error)
      /\ phase' = [phase EXCEPT ![t] = IF error = None THEN "holding" ELSE "failed"]
      /\ results' = IF error = None THEN [results EXCEPT ![t] = @ + 1] ELSE results
      /\ message' = [message EXCEPT ![t] = None]

\* _check_error: the caller takes the message of its thread.
CheckError(t) ==
  /\ phase[t] = "failed"
  /\ message' = [message EXCEPT ![t] = lastError[t]] /\ phase' = [phase EXCEPT ![t] = "idle"]
  /\ UNCHANGED <<request, reply, out, lastError, results, calls>>

\* _range_result_copy: the view is read, or (ok = FALSE) raises.
CopyView(t, ok) ==
  /\ phase[t] = "holding"
  /\ phase' = [phase EXCEPT ![t] = IF ok THEN "copied" ELSE "raised"]
  /\ UNCHANGED <<request, reply, out, lastError, message, results, calls>>

\* Faulty variant of Destroy: only after a copy that succeeded.
DestroyCopied(t) ==
  /\ phase[t] \in {"copied", "raised"}
  /\ results' = IF phase[t] = "copied" THEN [results EXCEPT ![t] = @ - 1] ELSE results
  /\ phase' = [phase EXCEPT ![t] = "idle"]
  /\ UNCHANGED <<request, reply, out, lastError, message, calls>>

\* finally: result_destroy
Destroy(t) ==
  /\ phase[t] \in {"copied", "raised"}
  /\ results' = [results EXCEPT ![t] = @ - 1]
  /\ phase' = [phase EXCEPT ![t] = "idle"]
  /\ UNCHANGED <<request, reply, out, lastError, message, calls>>

Finished == (\A t \in Threads : phase[t] = "idle" /\ calls[t] = Calls) /\ UNCHANGED searchVars

SearchNext ==
  \/ Finished
  \/ \E t \in Threads :
       \/ calls[t] < Calls /\ \E r \in Requests : Search(t, r) \/ Range(t, r)
       \/ CheckError(t) \/ Destroy(t) \/ \E ok \in BOOLEAN : CopyView(t, ok)


------------------------------------------------------------------------------

\* The message a caller reports for a failed call is that of this call, whatever
\* the calls of other threads and its own earlier ones left behind.
ErrorIsTheCallsOwn ==
  \A t \in Threads : /\ phase[t] = "failed" => lastError[t] = reply[t]
                     /\ message[t] # None => message[t] = reply[t]

\* A search fills the rows of its result, identifiers and distances, and nothing
\* behind them; a failed one leaves the caller's buffers as they were.
BuffersAllOrNothing ==
  \A t \in Threads : request[t] # None =>
    LET r == request[t]
        rows == IF reply[t] # None \/ r.op = "range" THEN 0 ELSE r.topK * (IF r.batch THEN r.queries ELSE 1)
    IN  /\ rows <= r.len
        /\ \A i \in 1..4 : /\ out[t][i].id = (IF i <= rows THEN i ELSE None)
                           /\ out[t][i].distance = out[t][i].id

\* The three layouts and the Java binding mean the same by the same request: a field
\* the caller's structure does not hold in full has its default, and memory behind
\* the structure is never taken for a parameter.
LayoutsAgree ==
  \A t \in Threads : request[t] # None =>
    LET r == request[t]
        has(field) == End[field] <= r.size
        seen == [r EXCEPT !.factor = IF has("factor") THEN @ ELSE 0, !.reuse = IF has("reuse") THEN @ ELSE 2,
                          !.bytes = IF has("bytes") THEN @ ELSE DefaultBytes]
        same(a, b) == (a.error = None) = (b.error = None) /\ (a.error = None => a.params = b.params)
    IN  r.size >= 32 /\ "params" \notin r.nulls =>
          /\ same(ParamsEx(r), ParamsJava(seen))
          /\ r.size = 32 => same(ParamsEx(r), ParamsV1(r))
          /\ r.size >= 56 /\ r.factor = 0 => same(ParamsEx(r), ParamsV2(r))

\* A range result is destroyed once, also when copying it out fails.
ResultsAreDestroyed ==
  \A t \in Threads : results[t] = IF phase[t] \in {"holding", "copied", "raised"} THEN 1 ELSE 0

------------------------------------------------------------------------------
(* Streams                                                                     *)

StreamThreads == {"app", "worker"}
NoRead == [on |-> None, n |-> 0, next |-> 1, got |-> {}]
NoOutput == [bytes |-> 0, pos |-> 0]

StreamInit ==
  /\ method = [kind |-> "none", result |-> None, count |-> 0]
  /\ pending = [t \in StreamThreads |-> None] /\ read = NoRead /\ output = NoOutput
  /\ sink = "stderr" /\ records = 0

Running(kind) == method.kind = kind /\ method.result = None
Fails == method' = [method EXCEPT !.result = "failed"]

\* JNI_OnLoad: the bridge is installed unless its class or method is missing, which is
\* no reason to fail; what the lookup raised is cleared.
OnLoad ==
  /\ Binding = "java" /\ method.count = 0 /\ sink = "stderr"
  /\ sink' = "bridge" /\ UNCHANGED <<method, pending, read, output, records>>

\* The application calls a native method: opening, a search, writing the index, or one
\* that does neither.  Whatever the last one raised has been handled.
Call(kind) ==
  /\ method.kind = "none" \/ method.result \in {"returned", "thrown"}
  /\ method.count < Methods
  /\ method' = [kind |-> kind, result |-> None, count |-> method.count + 1]
  /\ pending' = [pending EXCEPT !["app"] = None]
  /\ read' = NoRead /\ output' = NoOutput /\ records' = 0
  /\ UNCHANGED sink

------------------------------------------------------------------------------
(* Reading *)

\* read_capabilities, and the checks of VectorIndexReader.__init__: the hints of the input
\* are numbers that fit, or opening fails, with an exception of the input or of its own.
ReadHints ==
  /\ Running("open")
  /\ \/ method' = [method EXCEPT !.kind = "search"] /\ UNCHANGED pending
     \/ Fails /\ UNCHANGED pending
     \/ Fails /\ pending["app"] = None /\ pending' = [pending EXCEPT !["app"] = "input"]
  /\ UNCHANGED <<read, output, sink, records>>

\* pread up to its first chunk; an empty read is done.  A worker is attached first,
\* which may fail.
BeginRead ==
  /\ Running("search") /\ read.on = None
  /\ \E n \in Ranges, t \in StreamThreads :
       \/ read' = [on |-> t, n |-> n, next |-> 1, got |-> {}] /\ UNCHANGED method
       \/ Binding = "java" /\ t = "worker" /\ n > 0 /\ Fails /\ UNCHANGED read
  /\ UNCHANGED <<pending, output, sink, records>>

InRead == Running("search") /\ read.on # None /\ read.next <= read.n

\* A worker is detached when its read is over, and with it goes what it raised.
Detached(raised) == [pending EXCEPT ![read.on] = IF read.on = "worker" THEN None ELSE raised]

\* Faulty variant of Chunk: the last range of a full chunk is left to the next one.
ChunkShort == read.next .. (IF read.n < read.next + ChunkRanges - 1 THEN read.n
                            ELSE read.next + ChunkRanges - 2)

\* The ranges of one call into Java
Chunk == read.next .. (IF read.n < read.next + ChunkRanges - 1 THEN read.n ELSE read.next + ChunkRanges - 1)

\* pread_chunk: arrays are made, the input fills or replaces them, and they are copied
\* one after the other; a replaced array must have the length asked for.  Allocations,
\* the input and the copies may raise, a wrong length does not.
JavaChunk ==
  /\ Binding = "java" /\ InRead /\ pending[read.on] = None
  /\ \/ /\ read' = [read EXCEPT !.next = read.next + ChunkRanges, !.got = @ \cup Chunk]
        /\ UNCHANGED <<method, pending>>
     \/ \E copied \in SUBSET Chunk :
          /\ \A r \in Chunk \ copied : \A c \in copied : c < r
          /\ copied # Chunk
          /\ read' = [read EXCEPT !.got = @ \cup copied] /\ Fails
          /\ \/ UNCHANGED pending
             \/ pending' = Detached("input")
  /\ UNCHANGED <<output, sink, records>>

\* The first JNI call of a chunk on a thread with an exception pending fails.
JavaChunkPending ==
  /\ Binding = "java" /\ InRead /\ pending[read.on] # None
  /\ Fails /\ UNCHANGED <<pending, read, output, sink, records>>

\* Faulty variant of PythonRead: the length of a chunk is not looked at.
PythonReadUnchecked ==
  /\ Binding = "python" /\ InRead
  /\ \E full \in SUBSET (1..read.n) :
       read' = [read EXCEPT !.next = read.n + 1, !.got = full] /\ UNCHANGED method
  /\ UNCHANGED <<pending, output, sink, records>>

\* read_ranges_callback and FfiInputFile::pread: the chunks pread_many returns are copied
\* in order up to the first of another length; their number is compared before.
PythonRead ==
  /\ Binding = "python" /\ InRead
  /\ \/ read' = [read EXCEPT !.next = read.n + 1, !.got = 1..read.n] /\ UNCHANGED method
     \/ \E good \in 0..(read.n - 1) : read' = [read EXCEPT !.got = 1..good] /\ Fails
  /\ UNCHANGED <<pending, output, sink, records>>

------------------------------------------------------------------------------
(* Writing *)

\* Faulty variant of JavaWrite: an exception after the bytes were taken is not looked at.
JavaWriteUnchecked ==
  /\ Binding = "java" /\ Running("write") /\ output.pos < Pieces * PieceBytes
  /\ output' = [output EXCEPT !.bytes = @ + PieceBytes, !.pos = @ + PieceBytes]
  /\ pending' \in {pending, [pending EXCEPT !["app"] = "input"]}
  /\ UNCHANGED <<method, read, sink, records>>

\* Faulty variant of JavaWrite: a stream that raised is taken to have the bytes.
JavaWriteLost ==
  /\ Binding = "java" /\ Running("write") /\ output.pos < Pieces * PieceBytes
  /\ \E wrote \in 0..PieceBytes : output' = [bytes |-> output.bytes + wrote, pos |-> output.pos + PieceBytes]
  /\ UNCHANGED <<method, pending, read, sink, records>>

\* write_chunk and JniOutputStream: the array is made and handed to the application's
\* stream; the position advances when that returned.
JavaWrite ==
  /\ Binding = "java" /\ Running("write") /\ output.pos < Pieces * PieceBytes
  /\ \/ /\ pending["app"] = None
        /\ output' = [output EXCEPT !.bytes = @ + PieceBytes, !.pos = @ + PieceBytes]
        /\ UNCHANGED <<method, pending>>
     \/ /\ pending["app"] = None /\ pending' = [pending EXCEPT !["app"] = "input"]
        /\ \E wrote \in 0..PieceBytes : output' = [output EXCEPT !.bytes = @ + wrote]
        /\ Fails
     \/ pending["app"] # None /\ Fails /\ UNCHANGED <<pending, output>>
  /\ UNCHANGED <<read, sink, records>>

\* Faulty variant of PythonWrite: a short write is taken for a whole one.
PythonWriteShort ==
  /\ Binding = "python" /\ Running("write") /\ output.pos < Pieces * PieceBytes
  /\ \E wrote \in 0..PieceBytes :
       output' = [output EXCEPT !.bytes = @ + wrote, !.pos = @ + PieceBytes]
  /\ UNCHANGED <<method, pending, read, sink, records>>

\* write_callback and FfiOutputFile::write_all: a file says how much it wrote, or nothing
\* when it wrote all; a short write and a raised exception are failures.
PythonWrite ==
  /\ Binding = "python" /\ Running("write") /\ output.pos < Pieces * PieceBytes
  /\ \/ /\ output' = [output EXCEPT !.bytes = @ + PieceBytes, !.pos = @ + PieceBytes]
        /\ UNCHANGED method
     \/ \E wrote \in 0..PieceBytes : output' = [output EXCEPT !.bytes = @ + wrote] /\ Fails
  /\ UNCHANGED <<pending, read, sink, records>>

------------------------------------------------------------------------------
(* Diagnostic records *)

\* The installed sink and forward: a local frame, the message as a Java string, the call.
\* An exception of the call is cleared and a panic is caught; an exception of the frame
\* or the string stays.  (What is not delivered goes to stderr.)
Forward ==
  \/ UNCHANGED pending
  \/ /\ pending["app"] = None /\ LogFaults \cap {"frame", "string"} # {}
     /\ pending' = [pending EXCEPT !["app"] = "log"]

\* emit_log, on the thread of the method.
Emit ==
  /\ method.kind # "none" /\ method.result = None /\ records < Records
  /\ IF sink = "bridge" THEN Forward ELSE UNCHANGED pending
  /\ records' = records + 1
  /\ UNCHANGED <<method, read, output, sink>>

------------------------------------------------------------------------------
(* The end of a method *)

\* The method has done its work.  A search builds its result with JNI calls, which fail
\* with an exception pending; the C interface flushes what it wrote.
Finish ==
  /\ method.kind \in {"search", "write", "add"} /\ method.result = None
  /\ method.kind = "search" => read.on # None /\ ~InRead
  /\ \/ /\ ~(Binding = "java" /\ method.kind = "search" /\ pending["app"] # None)
        /\ method' = [method EXCEPT !.result = "returned"]
     \/ Binding = "java" /\ method.kind = "search" /\ pending["app"] # None /\ Fails
     \/ Binding = "python" /\ method.kind = "write" /\ Fails
  /\ UNCHANGED <<pending, read, output, sink, records>>

\* Faulty variant of Throw: an exception is taken to be pending already.
ThrowAssumed ==
  /\ method.result = "failed" /\ method' = [method EXCEPT !.result = "thrown"]
  /\ UNCHANGED <<pending, read, output, sink, records>>

\* throw_and_return: a new exception, unless one is pending and keeps it from being made;
\* the C interface returns -1 and the binding raises.
Throw ==
  /\ method.result = "failed" /\ method' = [method EXCEPT !.result = "thrown"]
  /\ pending' = [pending EXCEPT !["app"] = IF @ = None THEN "method" ELSE @]
  /\ UNCHANGED <<read, output, sink, records>>

StreamNext ==
  \/ OnLoad \/ \E kind \in {"open", "search", "write", "add"} : Call(kind)
  \/ ReadHints \/ BeginRead \/ JavaChunk \/ JavaChunkPending \/ PythonRead
  \/ JavaWrite \/ PythonWrite
  \/ Emit \/ Finish \/ Throw


------------------------------------------------------------------------------

\* A read that succeeded has filled every range, whatever the application's input
\* returned and however many calls it took; half-filled buffers are never taken for data.
ReadIsWhole ==
  method.kind = "search" /\ method.result = "returned" => read.got = 1..read.n

\* The position the writer lays sections out by is the length of the file as long as
\* writing goes on, and writing returns only with everything written.
PositionIsFileLength ==
  method.kind = "write" /\ method.result \in {None, "returned"} =>
    output.pos = output.bytes

\* A method that fails raises in the application, also when the failure happened on a
\* worker thread, whose own exception is gone with its attachment.
FailureIsRaised == method.result = "thrown" => pending["app"] # None

\* A method that succeeded raises nothing the input or output raised on its way: no
\* exception is left for the application to find after a result (what a
\* record that could not be forwarded raised stays, whatever the log bridge promises).
SuccessIsClean == method.result = "returned" => pending["app"] \in {None, "log"}
==============================================================================

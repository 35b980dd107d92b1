----------------------------- MODULE MCBindings ------------------------------
(* The Java and the Python binding over the native library: threads that share   *)
(* handles and the objects they own (NativeHandles), searches through the C      *)
(* interface and the application's files (BindingCalls).  `part` says which of    *)
(* them a behaviour is about; handles and objects of the others                  *)
(* stay as they begin, and the rest of their state is 0.                         *)
(*                                                                              *)
(* Of the handles there are a reader and a writer; the callbacks of the reader   *)
(* may use both, those of the writer the writer itself.                          *)
EXTENDS Integers, NativeHandles

CONSTANTS
  OneThread, ThreeThreads, Reader, Writer,
  Garbage, DefaultBytes, Dimension, MaxBytes,
  Ranges, ChunkRanges, Pieces, PieceBytes, Records, Methods

VARIABLES
  part,
  phase, request, reply, out, lastError, message, results, calls,
  method, pending, read, output, sink, records
hvars == <<lock, entered, owner, depth, handle, freed, stack, started>>
tvars == <<ptr, native, todo>>
fvars == <<phase, request, reply, out, lastError, message, results, calls>>
svars == <<method, pending, read, output, sink, records>>
partVars == <<part, binding, hvars, tvars, fvars, svars>>

MCMayUse == [h \in {Reader, Writer} |-> IF h = Reader THEN {Reader, Writer} ELSE {Writer}]

\* Fewer calls, whose ends are awaited
Short == INSTANCE NativeHandles WITH Reads <- 1, Calls <- 1

------------------------------------------------------------------------------
(* Requests: a valid one of each interface with up to two deviations from it.   *)

Unbounded == [kind |-> 0, finite |-> TRUE, value |-> 0]
Cut(x) == [kind |-> 1, finite |-> TRUE, value |-> x]
Bounds == {Unbounded, Cut(-1), Cut(0), Cut(1), [kind |-> 1, finite |-> FALSE, value |-> 0], [kind |-> 2, finite |-> TRUE, value |-> 0]}

Bases ==
  {[op |-> op, api |-> api, batch |-> batch, filtered |-> TRUE, queries |-> 2, topK |-> 2, kind |-> 1, width |-> 3,
    factor |-> 0, reuse |-> 1, bytes |-> 7, size |-> 56, len |-> IF op = "range" /\ ~batch THEN 2 ELSE 4,
    nulls |-> {}, unaligned |-> {}, lower |-> Unbounded, upper |-> Cut(1), core |-> "ok"] :
      op \in {"search", "range"}, api \in {"v1", "v2", "ex"}, batch \in BOOLEAN}

Deviations ==
  {[f |-> "topK", v |-> 0], [f |-> "topK", v |-> 1], [f |-> "kind", v |-> 0], [f |-> "kind", v |-> 3], [f |-> "width", v |-> 0],
   [f |-> "factor", v |-> 4], [f |-> "reuse", v |-> 3], [f |-> "bytes", v |-> 0], [f |-> "len", v |-> 3],
   [f |-> "size", v |-> 24], [f |-> "size", v |-> 32], [f |-> "size", v |-> 40], [f |-> "size", v |-> 43],
   [f |-> "size", v |-> 44], [f |-> "size", v |-> 52], [f |-> "size", v |-> 64],
   [f |-> "queries", v |-> 0], [f |-> "queries", v |-> 1],
   \* at the bounds of a word and of the memory
   [f |-> "queries", v |-> 4], [f |-> "queries", v |-> 15], [f |-> "queries", v |-> 16], [f |-> "queries", v |-> 128],
   [f |-> "topK", v |-> 8], [f |-> "topK", v |-> 128], [f |-> "len", v |-> 8], [f |-> "len", v |-> 16],
   [f |-> "len", v |-> 30]}

Nulls == {{}} \cup {{n} : n \in {"handle", "query", "filter", "params", "ids", "distances", "out"}}
Unaligned == {{}} \cup {{n} : n \in {"query", "ids", "distances"}}

With(r, d) == [r EXCEPT ![d.f] = d.v]

OneRequest ==
  UNION {{With(With(b, d), e) : d \in Deviations, e \in Deviations} : b \in Bases}
  \cup {[b EXCEPT !.nulls = n, !.queries = q, !.core = c, !.filtered = f] :
          b \in Bases, n \in Nulls, q \in {0, 2}, c \in {"ok", "error", "panic"}, f \in BOOLEAN}
  \cup {[b EXCEPT !.unaligned = u, !.nulls = n, !.queries = q] : b \in Bases, u \in Unaligned, n \in Nulls, q \in {0, 2}}
  \cup {[b EXCEPT !.lower = lower, !.upper = upper, !.kind = metric] :
          b \in {c \in Bases : c.op = "range"}, lower \in Bounds, upper \in Bounds, metric \in 0..3}

\* For two threads: a request that succeeds and two that fail in different ways.
TwoRequests ==
  LET b == CHOOSE r \in Bases : r.op = "search" /\ r.api = "v1" /\ r.batch
      r == CHOOSE x \in Bases : x.op = "range" /\ x.batch
  IN  {b, [b EXCEPT !.core = "error"], [b EXCEPT !.len = 3], r, [r EXCEPT !.core = "panic"]}

Alone == INSTANCE BindingCalls WITH Threads <- OneThread, Requests <- OneRequest, Calls <- 1,
           Binding <- "python", LogFaults <- {}
Java == INSTANCE BindingCalls WITH Threads <- ThreeThreads, Requests <- TwoRequests, Calls <- 2,
          Binding <- "java", LogFaults <- {"frame", "string", "call", "panic"}
Python == INSTANCE BindingCalls WITH Threads <- ThreeThreads, Requests <- TwoRequests, Calls <- 2,
            Binding <- "python", LogFaults <- {}

------------------------------------------------------------------------------
SearchesIdle ==
  /\ phase = 0 /\ request = 0 /\ reply = 0 /\ out = 0
  /\ lastError = 0 /\ message = 0 /\ results = 0 /\ calls = 0
StreamsIdle == method = 0 /\ pending = 0 /\ read = 0 /\ output = 0 /\ sink = 0 /\ records = 0

PartsInit ==
  /\ Init /\ OwnershipInit
  /\ \/ part \in {"handles", "objects"} /\ SearchesIdle /\ StreamsIdle
     \/ part = "short calls" /\ SearchesIdle /\ StreamsIdle
     \/ part = "one search" /\ binding = "python" /\ Alone!SearchInit /\ StreamsIdle
     \/ part = "searches" /\ binding = "python" /\ Python!SearchInit /\ StreamsIdle
     \/ part = "java streams" /\ binding = "java" /\ Java!StreamInit /\ SearchesIdle
     \/ part = "python streams" /\ binding = "python" /\ Python!StreamInit /\ SearchesIdle

\* The application has called the methods it is to call.
StreamsEnd ==
  /\ part \in {"java streams", "python streams"}
  /\ method.count = Methods /\ method.result \in {"returned", "thrown"}
  /\ UNCHANGED partVars

PartsNext ==
  \/ part = "handles" /\ Next /\ UNCHANGED <<part, tvars, fvars, svars>>
  \/ part = "short calls" /\ Short!Next /\ UNCHANGED <<part, tvars, fvars, svars>>
  \/ part = "objects" /\ OwnershipNext /\ UNCHANGED <<part, hvars, fvars, svars>>
  \/ part = "one search" /\ Alone!SearchNext /\ UNCHANGED <<part, binding, hvars, tvars, svars>>
  \/ part = "searches" /\ Python!SearchNext /\ UNCHANGED <<part, binding, hvars, tvars, svars>>
  \/ part = "java streams" /\ Java!StreamNext /\ UNCHANGED <<part, binding, hvars, tvars, fvars>>
  \/ part = "python streams" /\ Python!StreamNext /\ UNCHANGED <<part, binding, hvars, tvars, fvars>>
  \/ StreamsEnd

\* The fairness of NativeHandles!Spec, for the behaviours whose end is awaited: native
\* calls and callbacks end, and a lock that stays free is got.
ShortStep(t) == part = "short calls" /\ Short!Step(t) /\ UNCHANGED <<part, tvars, fvars, svars>>

PartsSpec ==
  /\ PartsInit /\ [][PartsNext]_partVars
  /\ \A t \in Threads \cup Workers : WF_partVars(ShortStep(t))

------------------------------------------------------------------------------
(* What the run checks                                                          *)

\* A call across the binding says what happened: the three layouts of the parameters and
\* the Java ones mean the same, result buffers are filled wholly or not at all, the
\* message a thread reads is that of its own failure, a range result is destroyed
\* once; a read that returned is whole, the position of a writer is the length of its
\* file, a failure on any thread is raised in the application and a success raises
\* nothing the streams raised (BindingCalls).
CallsTellTheTruth ==
  /\ part = "one search" => Alone!LayoutsAgree /\ Alone!BuffersAllOrNothing
  /\ part = "searches" => Python!ErrorIsTheCallsOwn /\ Python!ResultsAreDestroyed
  /\ part = "java streams" =>
       /\ Java!ReadIsWhole /\ Java!PositionIsFileLength
       /\ Java!FailureIsRaised /\ Java!SuccessIsClean
  /\ part = "python streams" => Python!ReadIsWhole /\ Python!PositionIsFileLength

\* Every operation the application starts returns or raises, also from callbacks that
\* use the handle again, as long as the callbacks use the handles in one order
\* (_NativeHandleLock, nativeHandleOwner).
CallsEnd == \A t \in Threads : []<>(part = "short calls" => stack[t] = <<>>)
==============================================================================

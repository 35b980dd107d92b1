---------------------------- MODULE NativeHandles ----------------------------
(* Threads of an application that share native handles through the Python or     *)
(* the Java binding: the lock that serialises a handle, the callbacks a native   *)
(* call makes into the application, on its own thread and (a DiskANN batch       *)
(* search) on worker threads, and the refusal of a callback that comes back to   *)
(* the handle it serves.                                                        *)
(*                                                                              *)
(* A thread runs a stack of activations [h, op, pc, reads]: an operation on      *)
(* handle h with the callbacks it will still make, or (op "callback", on a       *)
(* worker) the application's code called for it.                                *)
(*                                                                              *)
(* After it, who owns the native objects on the way from a trainer over its      *)
(* training to a writer, in the C interface (src/ffi, with the Python objects    *)
(* over it) and in JNI (with the Java objects).  There an operation under an     *)
(* object's lock is one step, since the lock keeps its handle to one thread;     *)
(* opening a writer takes the pointer out of the training under its lock and     *)
(* goes on without it.  Native calls may fail at any time.                       *)
EXTENDS Naturals, Sequences

CONSTANTS
  Threads,     \* threads of the application
  Clients,     \* threads that train and write, below
  Workers,     \* threads of the native library
  Handles,
  Tracked,     \* the handles that are readers: their callbacks are counted, a writer's are not
  MayUse,      \* [h -> the handles its callbacks may go on to use]
  Reads,       \* callbacks of a native call
  Calls,       \* operations a thread starts outside of callbacks
  Trainers,    \* number of trainer objects; the other objects come from them
  None

VARIABLES
  binding,     \* "python" or "java", which the application uses
  lock,        \* [h -> the thread inside the mutex or monitor]
  entered,     \* [h -> times that thread entered it; a Python Lock is entered once]
  owner,       \* [h -> _owner, nativeHandleOwner]
  depth,       \* [h -> [thread -> callbacks of h it is in]]
  handle,      \* [h -> does the object still have its pointer]
  freed,       \* [h -> times the native object was freed]
  stack,       \* [thread -> activations, the current one last]
  started      \* [thread -> operations started outside of callbacks]
vars == <<binding, lock, entered, owner, depth, handle, freed, stack, started>>

All == Threads \cup Workers

ASSUME HandlesAssumption ==
  /\ Threads \cap Workers = {} /\ Tracked \subseteq Handles
  /\ Reads \in Nat
  /\ None \notin All

Init ==
  /\ binding \in {"python", "java"}
  /\ lock = [h \in Handles |-> None] /\ entered = [h \in Handles |-> 0]
  /\ owner = [h \in Handles |-> None] /\ depth = [h \in Handles |-> [t \in All |-> 0]]
  /\ handle = [h \in Handles |-> TRUE] /\ freed = [h \in Handles |-> 0]
  /\ stack = [t \in All |-> <<>>] /\ started = [t \in Threads |-> 0]

Top(t) == stack[t][Len(stack[t])]
At(t, pc) == stack[t] # <<>> /\ Top(t).pc = pc
Moved(t, pc) == [stack EXCEPT ![t][Len(stack[t])].pc = pc]
Pushed(t, activation) == [stack EXCEPT ![t] = Append(@, activation)]
Popped(t) == [stack EXCEPT ![t] = SubSeq(@, 1, Len(@) - 1)]

Operation(h, op) == [h |-> h, op |-> op, pc |-> "check", reads |-> Reads]

\* The application calls an operation: from a thread of its own,
Call(t, h, op) ==
  /\ stack[t] = <<>> /\ started[t] < Calls
  /\ started' = [started EXCEPT ![t] = @ + 1]
  /\ stack' = Pushed(t, Operation(h, op))
  /\ UNCHANGED <<lock, entered, owner, depth, handle, freed>>

\* or from a callback, once in each.
CallBack(t, h, op) ==
  /\ At(t, "callback") /\ h \in MayUse[Top(t).h]
  /\ stack' = [stack EXCEPT ![t] = Append([@ EXCEPT ![Len(@)].pc = "called"], Operation(h, op))]
  /\ UNCHANGED <<lock, entered, owner, depth, handle, freed, started>>

\* Faulty variant of Reenters: the callbacks on worker threads are not counted.
ReentersAsOwner(t, h) == owner[h] = t

\* __enter__ and rejectCallbackReentry: the handle is in use by this very thread.
Reenters(t, h) ==
  \/ binding = "python" /\ (owner[h] = t \/ depth[h][t] > 0)
  \/ binding = "java" /\ h \in Tracked /\ depth[h][t] > 0

\* Faulty variant of Check: an operation that would reenter waits for its turn.
CheckWaits(t) ==
  /\ At(t, "check")
  /\ stack' = IF Reenters(t, Top(t).h) THEN stack ELSE Moved(t, "acquire")
  /\ UNCHANGED <<lock, entered, owner, depth, handle, freed, started>>

Check(t) ==
  /\ At(t, "check")
  /\ stack' = IF Reenters(t, Top(t).h) THEN Popped(t) ELSE Moved(t, "acquire")
  /\ UNCHANGED <<lock, entered, owner, depth, handle, freed, started>>

\* A Lock is taken once; a monitor lets its own thread in again.
MayEnter(t, h) == lock[h] = None \/ (binding = "java" /\ lock[h] = t)

Acquire(t) ==
  LET h == Top(t).h
  IN  /\ At(t, "acquire") /\ MayEnter(t, h)
      /\ lock' = [lock EXCEPT ![h] = t] /\ entered' = [entered EXCEPT ![h] = @ + 1]
      /\ stack' = Moved(t, "own")
      /\ UNCHANGED <<owner, depth, handle, freed, started>>

\* _owner = current; enterNativeHandle throws when the monitor was entered again.
Own(t) ==
  LET h == Top(t).h
  IN  /\ At(t, "own")
      /\ IF binding = "java" /\ owner[h] = t
         THEN stack' = Moved(t, "release") /\ UNCHANGED owner
         ELSE stack' = Moved(t, "run") /\ owner' = [owner EXCEPT ![h] = t]
      /\ UNCHANGED <<lock, entered, depth, handle, freed, started>>

\* The body: close frees what is there and forgets it, any other operation requires
\* an open handle and goes into native code.
Run(t) ==
  LET h == Top(t).h
      close == Top(t).op = "close"
  IN  /\ At(t, "run")
      /\ stack' = Moved(t, IF close \/ ~handle[h] THEN "disown" ELSE "native")
      /\ handle' = IF close THEN [handle EXCEPT ![h] = FALSE] ELSE handle
      /\ freed' = IF close /\ handle[h] THEN [freed EXCEPT ![h] = @ + 1] ELSE freed
      /\ UNCHANGED <<lock, entered, owner, depth, started>>

Counted(h, t, n) == IF h \in Tracked THEN [depth EXCEPT ![h][t] = n] ELSE depth

\* A native call calls back, on its own thread
Callback(t) ==
  /\ At(t, "native") /\ Top(t).reads > 0
  /\ stack' = [Moved(t, "callback") EXCEPT ![t][Len(stack[t])].reads = @ - 1]
  /\ depth' = Counted(Top(t).h, t, depth[Top(t).h][t] + 1)
  /\ UNCHANGED <<lock, entered, owner, handle, freed, started>>

\* or, for a reader, on an idle worker, whatever its own thread does meanwhile.
CallbackOnWorker(t, i, w) ==
  LET h == stack[t][i].h
  IN  /\ stack[t][i].pc \in {"native", "callback", "called"} /\ stack[t][i].reads > 0
      /\ h \in Tracked /\ stack[t][i].op # "callback" /\ stack[w] = <<>>
      /\ stack' = [stack EXCEPT ![t][i].reads = @ - 1,
                               ![w] = <<[h |-> h, op |-> "callback", pc |-> "callback", reads |-> 0]>>]
      /\ depth' = Counted(h, w, depth[h][w] + 1)
      /\ UNCHANGED <<lock, entered, owner, handle, freed, started>>

CallbackReturn(t) ==
  LET h == Top(t).h
  IN  /\ At(t, "callback") \/ At(t, "called")
      /\ stack' = IF Top(t).op = "callback" THEN Popped(t) ELSE Moved(t, "native")
      /\ depth' = Counted(h, t, depth[h][t] - 1)
      /\ UNCHANGED <<lock, entered, owner, handle, freed, started>>

\* The activations on workers that serve a call of h
Serving(h) == {w \in Workers : \E i \in DOMAIN stack[w] : stack[w][i].op = "callback" /\ stack[w][i].h = h}

\* A native call returns when its callbacks have.
NativeReturn(t) ==
  /\ At(t, "native")
  /\ Serving(Top(t).h) = {}
  /\ stack' = Moved(t, "disown")
  /\ UNCHANGED <<lock, entered, owner, depth, handle, freed, started>>

\* __exit__ and exitNativeHandle
Disown(t) ==
  /\ At(t, "disown")
  /\ owner' = [owner EXCEPT ![Top(t).h] = None] /\ stack' = Moved(t, "release")
  /\ UNCHANGED <<lock, entered, depth, handle, freed, started>>

Release(t) ==
  LET h == Top(t).h
  IN  /\ At(t, "release")
      /\ entered' = [entered EXCEPT ![h] = @ - 1]
      /\ lock' = IF entered[h] = 1 THEN [lock EXCEPT ![h] = None] ELSE lock
      /\ stack' = Popped(t)
      /\ UNCHANGED <<owner, depth, handle, freed, started>>

\* Steps of the bindings and of native code; the application's are its own choice.
Step(t) ==
  /\ UNCHANGED binding
  /\ \/ Check(t) \/ Acquire(t) \/ Own(t) \/ Run(t)
     \/ CallbackReturn(t) \/ NativeReturn(t) \/ Disown(t) \/ Release(t)

Finished ==
  /\ \A t \in All : stack[t] = <<>>
  /\ \A t \in Threads : started[t] = Calls
  /\ UNCHANGED vars

Next ==
  /\ UNCHANGED binding
  /\ \/ \E t \in Threads, h \in Handles, op \in {"use", "close"} : Call(t, h, op)
     \/ \E t \in All, h \in Handles, op \in {"use", "close"} : CallBack(t, h, op)
     \/ \E t \in All : Step(t) \/ Callback(t)
     \/ \E t \in All, w \in Workers : \E i \in DOMAIN stack[t] : CallbackOnWorker(t, i, w)
     \/ Finished

\* Native calls and callbacks end, and a lock that stays free is got.
Spec == Init /\ [][Next]_vars /\ \A t \in All : WF_vars(Step(t))

------------------------------------------------------------------------------

\* Threads in the native code of a handle or in its callbacks
Inside(h) ==
  {t \in Threads \cup Workers : \E i \in DOMAIN stack[t] :
     stack[t][i].h = h /\ stack[t][i].op # "callback" /\ stack[t][i].pc \in {"native", "callback", "called"}}

\* One native call at a time has a handle, and none has a freed one: the &mut that
\* reader_mut, writer_mut and deref_reader make is the only reference, whatever
\* threads call, close, or come back from callbacks.
HandleIsExclusive ==
  \A h \in Handles :
    /\ freed[h] <= 1
    /\ Inside(h) # {} => freed[h] = 0 /\ \E t \in All : Inside(h) = {t}
    /\ Serving(h) # {} => Inside(h) # {}

\* A thread waits for no handle that waits for it: not for one whose native call it
\* is in, and not for one whose callback it runs for a call on another thread.  Only
\* a monitor it holds itself lets it in, to be turned away by enterNativeHandle.
NoWaitForItself ==
  \A t \in All : At(t, "acquire") =>
    LET h == Top(t).h
    IN  (\E i \in 1..(Len(stack[t]) - 1) : stack[t][i].h = h) => binding = "java" /\ lock[h] = t

\* What a refused operation finds is what it leaves: the outer call still owns the
\* handle after a reentrant one was turned away, so the owner is not cleared early.
OwnerCoversTheCall ==
  \A h \in Handles : Inside(h) # {} => owner[h] \in Inside(h) /\ lock[h] = owner[h]

------------------------------------------------------------------------------
(* Ownership                                                                    *)

VARIABLES
  ptr,         \* [object -> native pointer or None], by kind
  native,      \* the native objects by pointer, [kind, full, live, late]: full is inner = Some
  todo         \* [thread -> the rest of opening a writer]
ovars == <<binding, ptr, native, todo>>

Kinds == {"trainer", "training", "writer"}
New(kind) == [kind |-> kind, full |-> TRUE, live |-> TRUE, late |-> FALSE]
Fresh == Len(native) + 1
Alloc(n, kind) == [p \in DOMAIN n \cup {Fresh} |-> IF p = Fresh THEN New(kind) ELSE n[p]]

\* Any access to a freed object is remembered as late, a second free too.
Used(n, p) == [n EXCEPT ![p].late = @ \/ ~n[p].live]
Free(n, p) == [Used(n, p) EXCEPT ![p].live = FALSE]

Objects == [kind : Kinds, of : 1..Trainers]

\* What is left of opening a writer: the pointer taken from the training, and the
\* writer it gave.
Openings == [pc : {"open", "free", "keep"}, training : Nat, writer : Nat \cup {None}, of : 1..Trainers]

ASSUME OwnershipAssumption == Trainers \in Nat /\ None \notin Nat /\ None \notin Openings

OwnershipInit ==
  /\ binding \in {"python", "java"}
  /\ ptr = [o \in Objects |-> IF o.kind = "trainer" THEN o.of ELSE None]
  /\ native = [p \in 1..Trainers |-> New("trainer")]
  /\ todo = [t \in Clients |-> None]

Idle(t) == todo[t] = None
Obj(kind, of) == [kind |-> kind, of |-> of]

\* dimension, add_training_vectors, add_vectors, write: a call on an open object
Use(t, o) ==
  /\ Idle(t) /\ o.kind # "training" /\ ptr[o] # None
  /\ native' = Used(native, ptr[o])
  /\ UNCHANGED <<ptr, todo>>

Close(t, o) ==
  /\ Idle(t)
  /\ native' = IF ptr[o] = None THEN native ELSE Free(native, ptr[o])
  /\ ptr' = [ptr EXCEPT ![o] = None]
  /\ UNCHANGED todo

\* finish_training and finishTraining: the trainer is consumed and freed whether it
\* succeeds (ok) or not.
FinishTraining(t, of, ok) ==
  LET p == ptr[Obj("trainer", of)]
      dropped == Free([native EXCEPT ![p].full = FALSE], p)
  IN  /\ Idle(t) /\ p # None
      /\ native' = IF ok /\ native[p].full THEN Alloc(dropped, "training") ELSE dropped
      /\ ptr' = [ptr EXCEPT ![Obj("trainer", of)] = None,
                            ![Obj("training", of)] = IF ok /\ native[p].full THEN Fresh ELSE None]
      /\ UNCHANGED todo

\* _take_handle, takeNativePointer
TakeHandle(t, of) ==
  /\ Idle(t) /\ ptr[Obj("training", of)] # None
  /\ ptr' = [ptr EXCEPT ![Obj("training", of)] = None]
  /\ todo' = [todo EXCEPT ![t] = [pc |-> "open", training |-> ptr[Obj("training", of)], writer |-> None, of |-> of]]
  /\ UNCHANGED native

\* writer_open empties the training; createWriter drops its box as well.
WriterOpen(t, ok) ==
  LET p == todo[t].training
      emptied == [Used(native, p) EXCEPT ![p].full = FALSE]
      rest == IF binding = "java" THEN Free(emptied, p) ELSE emptied
      opened == ok /\ native[p].full
  IN  /\ ~Idle(t) /\ todo[t].pc = "open"
      /\ native' = IF opened THEN Alloc(rest, "writer") ELSE rest
      /\ todo' = [todo EXCEPT ![t].writer = IF opened THEN Fresh ELSE None,
                              ![t].pc = IF binding = "java" THEN "keep" ELSE "free"]
      /\ UNCHANGED ptr

\* training_free, also when no writer was opened
TrainingFree(t) ==
  /\ ~Idle(t) /\ todo[t].pc = "free"
  /\ native' = Free(native, todo[t].training)
  /\ todo' = [todo EXCEPT ![t].pc = "keep"]
  /\ UNCHANGED ptr

\* The constructor ends with the pointer in its object, or raises.
KeepWriter(t) ==
  /\ ~Idle(t) /\ todo[t].pc = "keep"
  /\ ptr' = IF todo[t].writer = None THEN ptr ELSE [ptr EXCEPT ![Obj("writer", todo[t].of)] = todo[t].writer]
  /\ todo' = [todo EXCEPT ![t] = None]
  /\ UNCHANGED native

OwnershipNext ==
  /\ UNCHANGED binding
  /\ \E t \in Clients :
    \/ \E o \in Objects : Use(t, o) \/ Close(t, o)
    \/ \E of \in 1..Trainers : TakeHandle(t, of) \/ \E ok \in BOOLEAN : FinishTraining(t, of, ok)
    \/ \E ok \in BOOLEAN : WriterOpen(t, ok)
    \/ TrainingFree(t) \/ KeepWriter(t)

OwnershipSpec == OwnershipInit /\ [][OwnershipNext]_ovars

------------------------------------------------------------------------------

\* No native object is used or freed after it was freed, whichever threads use,
\* finish, close and open writers at once, and whichever native calls fail.
NoLateUse == \A p \in DOMAIN native : ~native[p].late

\* The objects and the constructors under way that would free a pointer
Holders(p) ==
  {<<o, "object">> : o \in {x \in Objects : ptr[x] = p}}
  \cup {<<t, "training">> : t \in {x \in Clients : ~Idle(x) /\ todo[x].pc # "keep" /\ todo[x].training = p}}
  \cup {<<t, "writer">> : t \in {x \in Clients : ~Idle(x) /\ todo[x].writer = p}}

\* A native object that lives has one owner: nothing leaks when finishing or opening
\* fails half-way, and no two owners would free it.
OwnedOnce == \A p \in DOMAIN native : native[p].live => \E s \in Holders(p) : Holders(p) = {s}

\* Whatever threads call, close and come back from callbacks, one native call at a time
\* has a handle and none a freed one, no thread waits for itself, and the owner stays
\* that of the outer call when a reentrant one is turned away.  On the way from a
\* trainer to a writer every native object has one owner that frees it once, whichever
\* calls fail.
HandlesAreSafe ==
  /\ HandleIsExclusive /\ NoWaitForItself /\ OwnerCoversTheCall
  /\ NoLateUse /\ OwnedOnce
==============================================================================

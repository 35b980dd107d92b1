----------------------------- MODULE SqListCache -----------------------------
(***************************************************************************)
(* The cache of decoded inverted lists of an IVF-SQ reader                  *)
(* (src/core/src/ivfsq_io.rs): one slot per list, a FIFO queue of the lists *)
(* that fill their slot, and a count of the bytes they retain.  A read of    *)
(* several lists looks each one up, reads the missing ones together and then *)
(* inserts them.  The offset, count, ID bytes and dimension of a list stand  *)
(* for its shape; the reader's fields are public and may be edited.          *)
(***************************************************************************)
EXTENDS Integers, Sequences, FiniteSets

CONSTANTS
  Lists,    \* list IDs
  Shapes,   \* what the reader's metadata may say of a list
  Bytes,    \* retained_bytes of a list of a given shape
  Budget,   \* memory_budget_bytes beside the resident metadata
  Fixed,    \* bytes of the slots and of the queue
  None      \* an empty slot

ASSUME CacheAssumption ==
  /\ None \notin Shapes
  /\ Bytes \in [Lists -> [Shapes -> Nat]]
  /\ Budget \in Nat /\ Fixed \in Nat

VARIABLES
  meta,      \* the metadata of the open reader
  entries,   \* the slots: the shape a cached list was read with
  order,     \* lists in the order they were inserted
  retained,  \* retained_bytes
  asked,     \* the lists of the running read, none when idle
  todo,      \* lists still to be looked up
  misses,    \* lists to read, then to insert
  reading,   \* the misses have been read
  served     \* the shape each list of the read was served with

cvars == <<meta, entries, order, retained, asked, todo, misses, reading, served>>

HasCache == Budget > Fixed
CapacityBytes == Budget - Fixed

Retained(l) == Bytes[l][entries[l]]

\* order.retain(|id| id != l), for a queue that holds l once
Without(s, l) ==
  LET at == CHOOSE i \in DOMAIN s : s[i] = l
  IN  [i \in 1 .. Len(s) - 1 |-> IF i < at THEN s[i] ELSE s[i + 1]]

-----------------------------------------------------------------------------

\* A low-level caller edits the public metadata of a list.
Edit(l, shape) ==
  /\ asked = << >>
  /\ meta' = [meta EXCEPT ![l] = shape]
  /\ UNCHANGED <<entries, order, retained, asked, todo, misses, reading, served>>

\* read_scan_lists_with_count is called; without a cache every list is a miss.
Read(lists) ==
  /\ asked = << >> /\ lists # << >>
  /\ asked' = lists
  /\ todo' = IF HasCache THEN lists ELSE << >>
  /\ misses' = IF HasCache THEN << >> ELSE lists
  /\ reading' = FALSE
  /\ served' = [l \in Lists |-> None]
  /\ UNCHANGED <<meta, entries, order, retained>>

\* Faulty variant of Hit: a filled slot is served whatever the metadata says.
HitAnyShape(l) == entries[l] # None

Hit(l) == entries[l] # None /\ entries[l] = meta[l]

LookUpHit ==
  /\ todo # << >> /\ Hit(Head(todo))
  /\ served' = [served EXCEPT ![Head(todo)] = entries[Head(todo)]]
  /\ todo' = Tail(todo)
  /\ UNCHANGED <<meta, entries, order, retained, asked, misses, reading>>

\* Faulty variant of Dequeued: a stale list stays in the queue.
DequeuedNever(l) == order

\* Faulty variant of Dequeued: the place of the list is blanked, not removed.
DequeuedBlank(l) == [i \in DOMAIN order |-> IF order[i] = l THEN None ELSE order[i]]

Dequeued(l) == Without(order, l)

\* A slot of another shape is emptied before the list is read again.
LookUpStale ==
  /\ todo # << >> /\ entries[Head(todo)] # None /\ ~Hit(Head(todo))
  /\ LET l == Head(todo)
     IN  /\ entries' = [entries EXCEPT ![l] = None]
         /\ retained' = retained - Retained(l)
         /\ order' = Dequeued(l)
         /\ misses' = Append(misses, l)
  /\ todo' = Tail(todo)
  /\ UNCHANGED <<meta, asked, reading, served>>

LookUpMiss ==
  /\ todo # << >> /\ entries[Head(todo)] = None
  /\ misses' = Append(misses, Head(todo))
  /\ todo' = Tail(todo)
  /\ UNCHANGED <<meta, entries, order, retained, asked, reading, served>>

\* read_inverted_lists of the misses fails: the slots emptied so far stay empty.
ReadFails ==
  /\ asked # << >> /\ todo = << >> /\ misses # << >> /\ ~reading
  /\ asked' = << >>
  /\ misses' = << >>
  /\ served' = [l \in Lists |-> None]
  /\ UNCHANGED <<meta, entries, order, retained, todo, reading>>

ReadMisses ==
  /\ asked # << >> /\ todo = << >> /\ misses # << >> /\ ~reading
  /\ reading' = TRUE
  /\ UNCHANGED <<meta, entries, order, retained, asked, todo, misses, served>>

\* The first of the lists just read
Loaded == Head(misses)

\* Faulty variant of NeedsRoom: a list that fits an empty cache is taken to fit.
NeedsRoomNever == Bytes[Loaded][meta[Loaded]] > CapacityBytes

NeedsRoom == Bytes[Loaded][meta[Loaded]] > CapacityBytes - retained

\* insert returns at once: there is no cache, the list is too large, or its slot is full.
Skip ==
  /\ reading /\ misses # << >>
  /\ ~HasCache \/ Bytes[Loaded][meta[Loaded]] > CapacityBytes \/ entries[Loaded] # None
  /\ served' = [served EXCEPT ![Loaded] = meta[Loaded]]
  /\ misses' = Tail(misses)
  /\ UNCHANGED <<meta, entries, order, retained, asked, todo, reading>>

Inserting ==
  /\ reading /\ misses # << >> /\ HasCache
  /\ Bytes[Loaded][meta[Loaded]] <= CapacityBytes /\ entries[Loaded] = None

\* Faulty variant of Released: an evicted list keeps its bytes.
ReleasedNothing(l) == 0

\* What remove gives back
Released(l) == IF entries[l] = None THEN 0 ELSE Retained(l)

\* The loop of insert: the oldest list makes room.
Evict ==
  /\ Inserting /\ NeedsRoom /\ order # << >>
  /\ retained' = retained - Released(Head(order))
  /\ entries' = [entries EXCEPT ![Head(order)] = None]
  /\ order' = Tail(order)
  /\ UNCHANGED <<meta, asked, todo, misses, reading, served>>

Insert ==
  /\ Inserting /\ ~NeedsRoom
  /\ entries' = [entries EXCEPT ![Loaded] = meta[Loaded]]
  /\ order' = Append(order, Loaded)
  /\ retained' = retained + Bytes[Loaded][meta[Loaded]]
  /\ served' = [served EXCEPT ![Loaded] = meta[Loaded]]
  /\ misses' = Tail(misses)
  /\ UNCHANGED <<meta, asked, todo, reading>>

\* All lists have been served.
ReturnLists ==
  /\ asked # << >> /\ todo = << >> /\ misses = << >>
  /\ asked' = << >>
  /\ reading' = FALSE
  /\ UNCHANGED <<meta, entries, order, retained, todo, misses, served>>

CacheSteps ==
  \/ LookUpHit \/ LookUpStale \/ LookUpMiss
  \/ ReadFails \/ ReadMisses
  \/ Skip \/ Evict \/ Insert

CacheInit ==
  /\ meta \in [Lists -> Shapes]
  /\ entries = [l \in Lists |-> None]
  /\ order = << >> /\ retained = 0
  /\ asked = << >> /\ todo = << >> /\ misses = << >> /\ reading = FALSE
  /\ served = [l \in Lists |-> None]

\* A read names each of its lists once.
Requests == {s \in UNION {[1 .. n -> Lists] : n \in 1 .. Cardinality(Lists)} :
               \A i, j \in DOMAIN s : s[i] = s[j] => i = j}

CacheNext ==
  \/ \E l \in Lists, shape \in Shapes : Edit(l, shape)
  \/ \E lists \in Requests : Read(lists)
  \/ CacheSteps
  \/ ReturnLists

CacheSpec == CacheInit /\ [][CacheNext]_cvars

-----------------------------------------------------------------------------
(* Properties. *)

\* The variables have their types.
CacheTypeOK ==
  /\ meta \in [Lists -> Shapes]
  /\ entries \in [Lists -> Shapes \cup {None}]
  /\ order \in Seq(Lists)
  /\ retained \in Int
  /\ asked \in Seq(Lists) /\ todo \in Seq(Lists) /\ misses \in Seq(Lists)
  /\ reading \in BOOLEAN
  /\ served \in [Lists -> Shapes \cup {None}]

\* The queue holds exactly the lists whose slot is filled, each once: after any
\* history of edits, failed reads and evictions, remove(oldest) frees a slot.
QueueIsSlots ==
  /\ \A i, j \in DOMAIN order : order[i] = order[j] => i = j
  /\ {order[i] : i \in DOMAIN order} = {l \in Lists : entries[l] # None}

\* The cache never retains more than its budget.
WithinBudget == HasCache => retained <= CapacityBytes

\* A list is served in the shape the reader's metadata gives it now ("Never serve a
\* payload for a different range or shape").
ServedFresh == asked # << >> => \A l \in Lists : served[l] \in {None, meta[l]}

\* retained_bytes is the sum over the filled slots, so making room for a list that
\* fits never finds the queue empty: the expect in insert cannot fail.
RetainedIsExact ==
  LET sum[S \in SUBSET Lists] ==
        IF S = {} THEN 0 ELSE LET l == CHOOSE l \in S : TRUE IN Retained(l) + sum[S \ {l}]
  IN  /\ retained = sum[{l \in Lists : entries[l] # None}]
      /\ Inserting /\ NeedsRoom => order # << >>

\* The cache of a reader is sound: its queue and its slots agree, it stays within its
\* budget, and it serves no list in another shape than the metadata gives it.
CacheIsSound == QueueIsSlots /\ WithinBudget /\ ServedFresh
==============================================================================

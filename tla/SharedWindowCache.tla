--------------------------- MODULE SharedWindowCache ---------------------------
(***************************************************************************)
(* The read-window cache that the DiskANN readers of one index share       *)
(* (core/src/diskann_io.rs, SharedWindowCache) together with the loop that *)
(* drives it in every search worker (core/src/diskann_search.rs,           *)
(* load_adjacency_windows and load_vector_windows).                        *)
(*                                                                         *)
(* A worker asks the cache for each window it needs.  The answer is a      *)
(* payload, a reservation (the worker must read the window and publish or  *)
(* cancel it) or the news that another worker holds the reservation.  The  *)
(* cache is split in shards: a shard has one mutex and one condition       *)
(* variable, so one critical section is one step here.                     *)
(*                                                                         *)
(* A payload is abstracted to its length and its allocated capacity.  A    *)
(* window is an offset: the planner of worker w gives it the length        *)
(* PlannedLength[w][o].                                                    *)
(***************************************************************************)
EXTENDS WindowLru

CONSTANTS
  Workers,          \* search workers sharing the cache
  Offsets,          \* window offsets, ordered as the planner orders them
  NumShards,        \* number of shards
  ShardOf,          \* shard_index: the shard of an offset
  PlannedLength,    \* length the planner of a worker gives to an offset
  Slack,            \* what a pooled buffer may be larger than its window
  Totals,           \* capacities set_total_capacity is called with
  InitialTotal,     \* capacity the cache is created with
  ConcurrentResize, \* whether a resize may overlap a load
  MaxLoads,         \* bound: loads a worker starts
  Nobody            \* the owner of an offset that nobody has reserved

Shards == 0 .. NumShards - 1

ASSUME ConstantsAssumption ==
  /\ Offsets \subseteq Nat
  /\ IsFiniteSet(Offsets)
  /\ NumShards \in Nat \ {0}
  /\ ShardOf \in [Offsets -> Shards]
  /\ PlannedLength \in [Workers -> [Offsets -> Nat \ {0}]]
  /\ Slack \subseteq Nat
  /\ Totals \subseteq Nat
  /\ InitialTotal \in Nat
  /\ ConcurrentResize \in BOOLEAN
  /\ MaxLoads \in Nat
  /\ Nobody \notin Workers

VARIABLES
  capacity,  \* capacity_bytes of a shard, an atomic outside the mutex
  entries,   \* payload of an offset, Absent when it is not cached
  loading,   \* offsets some worker has reserved
  recency,   \* cached offsets of a shard, the oldest first (OffsetLru)
  retained,  \* retained_bytes of a shard
  resize,    \* progress of a call of set_total_capacity
  phase,     \* where a worker is in its load loop
  request,   \* the windows of its current load, {} when it has returned
  pending,   \* those that its query does not hold yet
  todo,      \* those still to be looked up in this round
  reserved,  \* those it must read in this round
  waiting,   \* those it waits for in this round
  local,     \* lengths of the windows its query holds, 0 for none
  loads      \* loads it has started

cacheVars == <<entries, loading, recency, retained>>
loadVars  == <<phase, request, pending, todo, reserved, waiting, local, loads>>
vars      == <<capacity, cacheVars, resize, loadVars>>

Phases == {"idle", "lookup", "read", "cancel", "publish", "wait", "asleep",
           "retain"}

-----------------------------------------------------------------------------
(* Helpers of the cache state. *)

\* The share of a total capacity that shard s gets.
ShardCapacity(total, s) ==
  (total \div NumShards) + (IF s < total % NumShards THEN 1 ELSE 0)

\* The loop run on shard s, from the order q, the payloads e and the byte count.
EvictOver(s, q, e, bytes, limit) ==
  \E n \in 0 .. Len(q) :
    /\ Pops(q, e, bytes, limit, n)
    /\ recency'  = [recency EXCEPT ![s] = SubSeq(q, n + 1, Len(q))]
    /\ entries'  = [o \in Offsets |-> IF o \in Oldest(q, n) THEN Absent ELSE e[o]]
    /\ retained' = [retained EXCEPT
                      ![s] = SaturatingSub(bytes, Bytes(e, Oldest(q, n)))]

\* Planners emit windows by ascending offset, and the loops keep that order.
IsFirst(o, S) == o \in S /\ \A p \in S : o <= p

\* The workers that sleep on the condition variable of shard s.
AsleepIn(s) == { w \in Workers : /\ phase[w] = "asleep"
                                 /\ \E o \in waiting[w] :
                                      IsFirst(o, waiting[w]) /\ ShardOf[o] = s }

\* Faulty variant of Notified: nobody is notified.
NotifiedNone(s) == phase

\* Faulty variant of Notified: notify_one instead of notify_all.
NotifiedOne(s) ==
  IF AsleepIn(s) = {}
  THEN phase
  ELSE [phase EXCEPT ![CHOOSE w \in AsleepIn(s) : TRUE] = "wait"]

\* notify_all on the condition variable of shard s: every worker asleep on it
\* re-acquires the mutex and checks its condition again.
Notified(s) == [w \in Workers |-> IF w \in AsleepIn(s) THEN "wait" ELSE phase[w]]

\* Faulty variant of Charge: a payload is charged by its length.
ChargeLength(payload) == payload.length

\* What a payload counts for in retained_bytes: its allocated capacity.
Charge(payload) == payload.capacity

\* Faulty variant of Matches: a payload of any length is accepted.
MatchesAnyLength(w, o) == entries[o].length # 0

\* A payload is cached for o and has the length that worker w asked for.
Matches(w, o) == entries[o].length = PlannedLength[w][o]

\* The windows that the query does not hold, by offset alone.
Missing(windows, held) == { o \in windows : held[o] = 0 }

\* Faulty variant of Releases: cancel stops after its first window.
ReleasesFirst(w, s) == [offsets |-> { o \in reserved[w] : IsFirst(o, reserved[w]) },
                        last    |-> TRUE]

\* What cancel releases when it locks shard s, and whether s is its last shard.
Releases(w, s) == [offsets |-> { o \in reserved[w] : ShardOf[o] = s },
                   last    |-> \A o \in reserved[w] : ShardOf[o] = s]

-----------------------------------------------------------------------------
(* The load loop of a worker. *)

\* A query trims the windows it holds and asks for some.  Which ones it keeps is
\* decided by its own cache, and left open here.
StartLoad(w) ==
  /\ phase[w] = "idle"
  /\ loads[w] < MaxLoads
  /\ ConcurrentResize \/ resize.phase = "idle"
  /\ \E windows \in (SUBSET Offsets) \ {{}}, kept \in SUBSET Offsets :
       LET held    == [o \in Offsets |-> IF o \in kept THEN local[w][o] ELSE 0]
           missing == Missing(windows, held)
       IN  /\ request' = [request EXCEPT ![w] = IF missing = {} THEN {} ELSE windows]
           /\ local'   = [local EXCEPT ![w] = held]
           /\ pending' = [pending EXCEPT ![w] = missing]
           /\ todo'    = [todo EXCEPT ![w] = missing]
           /\ phase'   = [phase EXCEPT
                            ![w] = IF missing = {} THEN "idle" ELSE "lookup"]
  /\ loads' = [loads EXCEPT ![w] = @ + 1]
  /\ UNCHANGED <<capacity, cacheVars, resize, reserved, waiting>>

\* Faulty variant of AfterLookup: the loop waits before it reads.
AfterLookupWaitsFirst(res, wait) ==
  IF wait # {} THEN "wait" ELSE IF res # {} THEN "read" ELSE "retain"

\* What the loop does when the last window of the round has been looked up.
AfterLookup(res, wait) ==
  IF res # {} THEN "read" ELSE IF wait # {} THEN "wait" ELSE "retain"

\* lookup_or_reserve finds a payload of the wanted length.
Hit(w, o) ==
  LET s == ShardOf[o]
  IN  /\ Matches(w, o)
      /\ recency' = [recency EXCEPT ![s] = LruTouch(@, o)]
      /\ local'   = [local EXCEPT ![w][o] = entries[o].length]
      /\ phase'   = [phase EXCEPT ![w] = IF todo[w] = {o}
                                         THEN AfterLookup(reserved[w], waiting[w])
                                         ELSE "lookup"]
      /\ UNCHANGED <<entries, loading, retained, reserved, waiting>>

\* Faulty variant of DropMismatch: the payload stays.
DropMismatchKeeps(o) == UNCHANGED <<entries, recency, retained>>

\* Faulty variant of DropMismatch: its bytes stay counted.
DropMismatchKeepsBytes(o) ==
  LET s == ShardOf[o]
  IN  /\ entries'  = [entries EXCEPT ![o] = Absent]
      /\ recency'  = [recency EXCEPT
                        ![s] = IF entries[o] = Absent THEN @ ELSE LruRemove(@, o)]
      /\ UNCHANGED retained

\* lookup_or_reserve drops a payload of another length before it goes on.
DropMismatch(o) ==
  LET s == ShardOf[o]
  IN  /\ entries'  = [entries EXCEPT ![o] = Absent]
      /\ recency'  = [recency EXCEPT
                        ![s] = IF entries[o] = Absent THEN @ ELSE LruRemove(@, o)]
      /\ retained' = [retained EXCEPT ![s] = SaturatingSub(@, Charge(entries[o]))]

Join(w, o) ==
  /\ ~Matches(w, o)
  /\ o \in loading
  /\ DropMismatch(o)
  /\ waiting' = [waiting EXCEPT ![w] = @ \cup {o}]
  /\ phase'   = [phase EXCEPT ![w] = IF todo[w] = {o}
                                     THEN AfterLookup(reserved[w], waiting'[w])
                                     ELSE "lookup"]
  /\ UNCHANGED <<loading, reserved, local>>

Reserve(w, o) ==
  /\ ~Matches(w, o)
  /\ o \notin loading
  /\ DropMismatch(o)
  /\ loading'  = loading \cup {o}
  /\ reserved' = [reserved EXCEPT ![w] = @ \cup {o}]
  /\ phase'    = [phase EXCEPT ![w] = IF todo[w] = {o} THEN "read" ELSE "lookup"]
  /\ UNCHANGED <<waiting, local>>

Lookup(w) ==
  /\ phase[w] = "lookup"
  /\ \E o \in todo[w] :
       /\ IsFirst(o, todo[w])
       /\ Hit(w, o) \/ Join(w, o) \/ Reserve(w, o)
       /\ todo' = [todo EXCEPT ![w] = @ \ {o}]
  /\ UNCHANGED <<capacity, resize, request, pending, loads>>

\* All the reserved windows are read with one pread_ranges.
ReadSucceeds(w) ==
  /\ phase[w] = "read"
  /\ phase' = [phase EXCEPT ![w] = "publish"]
  /\ UNCHANGED <<capacity, cacheVars, resize, request, pending, todo, reserved,
                 waiting, local, loads>>

\* A buffer cannot be allocated, or the read fails.
ReadFails(w) ==
  /\ phase[w] = "read"
  /\ phase' = [phase EXCEPT ![w] = "cancel"]
  /\ UNCHANGED <<capacity, cacheVars, resize, request, pending, todo, reserved,
                 waiting, local, loads>>

\* cancel releases the reservations shard by shard; the load then returns an
\* error and forgets what it was waiting for.
Cancel(w) ==
  /\ phase[w] = "cancel"
  /\ \E s \in Shards :
       LET release == Releases(w, s)
           left    == IF release.last THEN {} ELSE reserved[w] \ release.offsets
       IN  /\ release.offsets # {}
           /\ \A o \in reserved[w] : s <= ShardOf[o]
           /\ loading'  = loading \ release.offsets
           /\ reserved' = [reserved EXCEPT ![w] = left]
           /\ phase'    = [Notified(s) EXCEPT
                             ![w] = IF release.last THEN "idle" ELSE "cancel"]
           /\ waiting'  = [waiting EXCEPT ![w] = IF release.last THEN {} ELSE @]
           /\ pending'  = [pending EXCEPT ![w] = IF release.last THEN {} ELSE @]
           /\ request'  = [request EXCEPT ![w] = IF release.last THEN {} ELSE @]
  /\ UNCHANGED <<capacity, entries, recency, retained, resize, todo, local, loads>>

\* The payload goes to the query first and is then published.
Publish(w) ==
  /\ phase[w] = "publish"
  /\ \E o \in reserved[w], slack \in Slack :
       LET s       == ShardOf[o]
           length  == PlannedLength[w][o]
           payload == [length |-> length, capacity |-> length + slack]
           bytes   == SaturatingSub(retained[s], Charge(entries[o])) + Charge(payload)
       IN  /\ IsFirst(o, reserved[w])
           /\ local'    = [local EXCEPT ![w][o] = length]
           /\ loading'  = loading \ {o}
           /\ EvictOver(s, LruTouch(recency[s], o),
                        [entries EXCEPT ![o] = payload], bytes, capacity[s])
           /\ reserved' = [reserved EXCEPT ![w] = @ \ {o}]
           /\ phase'    = [Notified(s) EXCEPT
                             ![w] = IF reserved[w] # {o} THEN "publish"
                                    ELSE IF waiting[w] # {} THEN "wait"
                                    ELSE "retain"]
  /\ UNCHANGED <<capacity, resize, request, pending, todo, waiting, loads>>

\* wait_for goes to sleep while the offset is being loaded, and otherwise returns
\* the payload if it is still cached with the wanted length.
WaitFor(w) ==
  /\ phase[w] = "wait"
  /\ \E o \in waiting[w] :
       LET s     == ShardOf[o]
           found == Matches(w, o)
       IN  /\ IsFirst(o, waiting[w])
           /\ \/ /\ o \in loading
                 /\ phase' = [phase EXCEPT ![w] = "asleep"]
                 /\ UNCHANGED <<recency, waiting, local>>
              \/ /\ o \notin loading
                 /\ recency' = IF found THEN [recency EXCEPT ![s] = LruTouch(@, o)]
                                        ELSE recency
                 /\ local'   = IF found THEN [local EXCEPT ![w][o] = entries[o].length]
                                        ELSE local
                 /\ waiting' = [waiting EXCEPT ![w] = @ \ {o}]
                 /\ phase'   = [phase EXCEPT ![w] = IF waiting[w] = {o} THEN "retain"
                                                                        ELSE "wait"]
  /\ UNCHANGED <<capacity, entries, loading, retained, resize, request, pending,
                 todo, reserved, loads>>

\* A condition variable may wake a waiter that nobody notified.
SpuriousWakeup(w) ==
  /\ phase[w] = "asleep"
  /\ phase' = [phase EXCEPT ![w] = "wait"]
  /\ UNCHANGED <<capacity, cacheVars, resize, request, pending, todo, reserved,
                 waiting, local, loads>>

\* Faulty variant of Retain: a window waited for once is taken to be there.
RetainNothing(w) ==
  /\ phase[w] = "retain"
  /\ pending' = [pending EXCEPT ![w] = {}]
  /\ request' = [request EXCEPT ![w] = {}]
  /\ phase'   = [phase EXCEPT ![w] = "idle"]
  /\ UNCHANGED <<capacity, cacheVars, resize, todo, reserved, waiting, local, loads>>

\* pending.retain: what the query still lacks is looked up in another round.
Retain(w) ==
  /\ phase[w] = "retain"
  /\ LET missing == Missing(pending[w], local[w])
     IN  /\ pending' = [pending EXCEPT ![w] = missing]
         /\ todo'    = [todo EXCEPT ![w] = missing]
         /\ phase'   = [phase EXCEPT
                          ![w] = IF missing = {} THEN "idle" ELSE "lookup"]
         /\ request' = [request EXCEPT ![w] = IF missing = {} THEN {} ELSE @]
  /\ UNCHANGED <<capacity, cacheVars, resize, reserved, waiting, local, loads>>

-----------------------------------------------------------------------------
(* set_total_capacity: shard by shard, the capacity is stored before the   *)
(* mutex is taken, and the shard is trimmed under the mutex.               *)

\* Faulty variant of NextShard: the loop runs one shard too far.
NextShardPastEnd(s) ==
  [phase |-> IF s < NumShards THEN "store" ELSE "idle", total |-> resize.total,
   shard |-> s + 1]

\* After shard s comes the next one, or the call returns.
NextShard(s) ==
  IF s + 1 \in Shards
  THEN [phase |-> "store", total |-> resize.total, shard |-> s + 1]
  ELSE [phase |-> "idle", total |-> resize.total, shard |-> s]

StartResize ==
  /\ resize.phase = "idle"
  /\ ConcurrentResize \/ \A w \in Workers : phase[w] = "idle"
  /\ \E total \in Totals :
       resize' = [phase |-> "store", total |-> total, shard |-> 0]
  /\ UNCHANGED <<capacity, cacheVars, loadVars>>

StoreCapacity ==
  /\ resize.phase = "store"
  /\ capacity' = [capacity EXCEPT
                    ![resize.shard] = ShardCapacity(resize.total, resize.shard)]
  /\ resize'   = [resize EXCEPT !.phase = "trim"]
  /\ UNCHANGED <<cacheVars, loadVars>>

TrimShard ==
  /\ resize.phase = "trim"
  /\ LET s == resize.shard
     IN  /\ EvictOver(s, recency[s], entries, retained[s],
                      ShardCapacity(resize.total, s))
         /\ resize' = NextShard(s)
  /\ UNCHANGED <<capacity, loading, loadVars>>

-----------------------------------------------------------------------------

Init ==
  /\ capacity = [s \in Shards |-> ShardCapacity(InitialTotal, s)]
  /\ entries  = [o \in Offsets |-> Absent]
  /\ loading  = {}
  /\ recency  = [s \in Shards |-> <<>>]
  /\ retained = [s \in Shards |-> 0]
  /\ resize   = [phase |-> "idle", total |-> InitialTotal, shard |-> 0]
  /\ phase    = [w \in Workers |-> "idle"]
  /\ request  = [w \in Workers |-> {}]
  /\ pending  = [w \in Workers |-> {}]
  /\ todo     = [w \in Workers |-> {}]
  /\ reserved = [w \in Workers |-> {}]
  /\ waiting  = [w \in Workers |-> {}]
  /\ local    = [w \in Workers |-> [o \in Offsets |-> 0]]
  /\ loads    = [w \in Workers |-> 0]

\* The steps a worker takes by itself once a load has started.
LoadStep(w) ==
  \/ Lookup(w)
  \/ ReadSucceeds(w)
  \/ ReadFails(w)
  \/ Cancel(w)
  \/ Publish(w)
  \/ WaitFor(w)
  \/ Retain(w)

ResizeStep == StoreCapacity \/ TrimShard

Next ==
  \/ \E w \in Workers : StartLoad(w) \/ LoadStep(w) \/ SpuriousWakeup(w)
  \/ StartResize
  \/ ResizeStep

Spec == Init /\ [][Next]_vars

\* A thread that can run, runs: the mutexes are held for finite critical
\* sections, and a read returns.  Nobody is obliged to start a load or a resize,
\* and a condition variable is not obliged to wake up by itself.
Fairness ==
  /\ \A w \in Workers : WF_vars(LoadStep(w))
  /\ WF_vars(ResizeStep)

FairSpec == Spec /\ Fairness

-----------------------------------------------------------------------------
(* Properties. *)

\* The variables have the types of the fields they model.
TypeOK ==
  /\ capacity \in [Shards -> Nat]
  /\ entries  \in [Offsets -> Payloads]
  /\ loading  \in SUBSET Offsets
  /\ recency  \in [Shards -> Seq(Offsets)]
  /\ retained \in [Shards -> Nat]
  /\ resize   \in [phase : {"idle", "store", "trim"}, total : Nat, shard : Shards]
  /\ phase    \in [Workers -> Phases]
  /\ request  \in [Workers -> SUBSET Offsets]
  /\ pending  \in [Workers -> SUBSET Offsets]
  /\ todo     \in [Workers -> SUBSET Offsets]
  /\ reserved \in [Workers -> SUBSET Offsets]
  /\ waiting  \in [Workers -> SUBSET Offsets]
  /\ local    \in [Workers -> [Offsets -> Nat]]
  /\ loads    \in [Workers -> Nat]

\* The loading set of the cache is exactly the disjoint union of the reservations
\* that running loads hold: no window is read by two workers at a time, and no
\* reservation outlives the load that made it, on the error paths included.
ReservationOwned ==
  /\ \A o \in loading : \E w \in Workers : o \in reserved[w]
  /\ \A w \in Workers : reserved[w] \subseteq loading
  /\ \A v, w \in Workers : v # w => reserved[v] \cap reserved[w] = {}
  /\ \A w \in Workers :
       reserved[w] # {} => phase[w] \in {"lookup", "read", "cancel", "publish"}

\* An offset that is being loaded is not cached: publish never replaces a payload,
\* and nobody is served a payload that a running read is about to replace.
NeverCachedWhileLoading == \A o \in loading : entries[o] = Absent

\* The recency list of a shard enumerates the cached offsets of the shard once
\* each, and retained_bytes is what their payloads occupy: more than the capacity
\* only between the store and the trim of a resize of that very shard.
AccountingExact ==
  \A s \in Shards :
    LET held == { o \in Offsets : ShardOf[o] = s /\ entries[o] # Absent }
    IN  /\ Oldest(recency[s], Len(recency[s])) = held
        /\ Len(recency[s]) = Cardinality(held)
        /\ retained[s] = Bytes(entries, held)
        /\ retained[s] > capacity[s] => resize.phase = "trim" /\ resize.shard = s

\* A worker sleeps only for an offset that is being loaded by a worker that is not
\* itself waiting: no wakeup is lost and no two workers wait for each other.
SleepsOnRunningLoader ==
  \A w \in Workers : phase[w] = "asleep" =>
    \E o \in waiting[w], v \in Workers :
      /\ IsFirst(o, waiting[w])
      /\ o \in reserved[v]
      /\ phase[v] \in {"lookup", "read", "cancel", "publish"}

\* A load that returns without an error leaves every requested window with the
\* query, with the length its planner gave to it.
LoadDelivers ==
  [][\A w \in Workers :
       phase[w] = "retain" /\ phase'[w] = "idle"
         => \A o \in request[w] : local[w][o] = PlannedLength[w][o]]_vars

\* What the cache promises, as a specification of its own.
Owner == [o \in Offsets |-> IF \E w \in Workers : o \in reserved[w]
                            THEN CHOOSE w \in Workers : o \in reserved[w]
                            ELSE Nobody]

Flight == INSTANCE SingleFlight
            WITH owner <- Owner, cached <- { o \in Offsets : entries[o] # Absent }

\* The cache and its load loop implement single flight: an offset has at most one
\* owner, only its owner makes it cached, and every reservation is resolved.
ImplementsSingleFlight == Flight!FairSpec

=============================================================================

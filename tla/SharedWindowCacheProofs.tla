------------------------ MODULE SharedWindowCacheProofs ------------------------
(***************************************************************************)
(* Proofs about SharedWindowCache for every number of workers, offsets and *)
(* shards, every assignment of offsets to shards, every capacity and every *)
(* interleaving of resizes.                                                *)
(***************************************************************************)
EXTENDS SharedWindowCache, FiniteSetTheorems, TLAPS

-----------------------------------------------------------------------------
(* Lemmas about the helpers. *)

\* What SubSeq takes out of a sequence.
LEMMA SubSeqIs ==
  ASSUME NEW S, NEW q \in Seq(S), NEW m \in 1 .. Len(q) + 1, NEW n \in 0 .. Len(q),
         m <= n + 1
  PROVE  /\ SubSeq(q, m, n) \in Seq(S)
         /\ Len(SubSeq(q, m, n)) = n - m + 1
         /\ \A i \in 1 .. n - m + 1 : SubSeq(q, m, n)[i] = q[i + m - 1]
<1>1. Len(q) \in Nat /\ \A i \in 1 .. Len(q) : q[i] \in S
  OBVIOUS
<1>2. PICK s : s = SubSeq(q, m, n)
  BY Zenon
<1>3. s \in Seq(S)
  BY <1>1, <1>2
<1>4. \A i \in 1 .. n - m + 1 : s[i] = q[i + m - 1]
  BY <1>1, <1>2
<1>5. DOMAIN s = 1 .. n - m + 1
  BY <1>1, <1>2
<1>6. Len(s) = n - m + 1
  BY <1>1, <1>3, <1>5
<1> QED
  BY <1>2, <1>3, <1>4, <1>6, Zenon

\* Removing an offset from a recency order leaves a sequence over the same set.
LEMMA LruRemoveType ==
  ASSUME NEW S, NEW q \in Seq(S), NEW o
  PROVE  LruRemove(q, o) \in Seq(S)
<1>1. CASE \E i \in DOMAIN q : q[i] = o
  <2> DEFINE i    == CHOOSE j \in DOMAIN q : q[j] = o
             rest == SubSeq(q, 1, i - 1) \o SubSeq(q, i + 1, Len(q))
  <2>1. i \in 1 .. Len(q)
    BY <1>1
  <2>2. LruRemove(q, o) = rest
    BY <1>1, Zenon DEF LruRemove
  <2> HIDE DEF i
  <2>3. \A j \in 1 .. Len(q) : q[j] \in S
    OBVIOUS
  <2>4. SubSeq(q, 1, i - 1) \in Seq(S)
    BY <2>1, <2>3
  <2>5. SubSeq(q, i + 1, Len(q)) \in Seq(S)
    BY <2>1, <2>3
  <2>6. rest \in Seq(S)
    BY <2>4, <2>5
  <2> QED
    BY <2>2, <2>6, Zenon
<1>2. CASE ~ \E i \in DOMAIN q : q[i] = o
  BY <1>2, Zenon DEF LruRemove
<1> QED
  BY <1>1, <1>2, Zenon

\* Touching an offset leaves a sequence over the same set.
LEMMA LruTouchType ==
  ASSUME NEW S, NEW q \in Seq(S), NEW o \in S
  PROVE  LruTouch(q, o) \in Seq(S)
BY LruRemoveType DEF LruTouch

\* The n oldest offsets of an order over Offsets are offsets.
LEMMA OldestSubset ==
  ASSUME NEW q \in Seq(Offsets), NEW n \in 0 .. Len(q)
  PROVE  Oldest(q, n) \in SUBSET Offsets
BY DEF Oldest

\* The payloads of some offsets occupy a finite number of bytes.
LEMMA BytesType ==
  ASSUME NEW e \in [Offsets -> Payloads], NEW S \in SUBSET Offsets
  PROVE  /\ IsFiniteSet(Footprint(e, S))
         /\ Bytes(e, S) \in Nat
<1> DEFINE part(o) == {o} \X (1 .. e[o].capacity)
<1>1. IsFiniteSet(S)
  BY ConstantsAssumption, FS_Subset, Zenon
<1>2. ASSUME NEW o \in S
      PROVE  IsFiniteSet(part(o))
  <2>1. e[o].capacity \in Nat
    BY <1>2, Zenon DEF Payloads
  <2>2. IsFiniteSet(1 .. e[o].capacity)
    BY <2>1, FS_Interval
  <2>3. IsFiniteSet({o})
    BY FS_Singleton, Zenon
  <2> QED
    BY <2>2, <2>3, FS_Product, Zenon
<1>3. IsFiniteSet({ part(o) : o \in S })
  <2> DEFINE T == { part(o) : o \in S }
             f == [o \in S |-> part(o)]
  <2>1. f \in Surjection(S, T)
    BY Zenon DEF Surjection
  <2> HIDE DEF f, T
  <2>2. IsFiniteSet(T)
    BY <1>1, <2>1, FS_Surjection, Zenon
  <2> QED
    BY <2>2, Zenon DEF T
<1>4. IsFiniteSet(UNION { part(o) : o \in S })
  BY <1>2, <1>3, FS_UNION, Zenon
<1>5. IsFiniteSet(Footprint(e, S))
  BY <1>4, Zenon DEF Footprint
<1> QED
  BY <1>5, FS_CardinalityType, Zenon DEF Bytes

\* Saturating subtraction of natural numbers.
LEMMA SaturatingSubType ==
  ASSUME NEW a \in Nat, NEW b \in Nat
  PROVE  SaturatingSub(a, b) \in Nat /\ SaturatingSub(a, b) <= a
BY DEF SaturatingSub

\* A shard gets a natural number of bytes.
LEMMA ShardCapacityType ==
  ASSUME NEW total \in Nat, NEW s \in Shards
  PROVE  ShardCapacity(total, s) \in Nat
<1>1. total \div NumShards \in Nat
  BY ConstantsAssumption
<1> QED
  BY <1>1 DEF ShardCapacity

\* The eviction loop leaves the types of the state it works on.
LEMMA EvictOverType ==
  ASSUME recency \in [Shards -> Seq(Offsets)], retained \in [Shards -> Nat],
         NEW s \in Shards, NEW q \in Seq(Offsets),
         NEW e \in [Offsets -> Payloads], NEW bytes \in Nat, NEW limit \in Nat,
         EvictOver(s, q, e, bytes, limit)
  PROVE  /\ recency'  \in [Shards -> Seq(Offsets)]
         /\ entries'  \in [Offsets -> Payloads]
         /\ retained' \in [Shards -> Nat]
         /\ \A o \in Offsets : entries'[o] = Absent \/ entries'[o] = e[o]
<1>1. PICK n \in 0 .. Len(q) :
        /\ recency'  = [recency EXCEPT ![s] = SubSeq(q, n + 1, Len(q))]
        /\ entries'  = [o \in Offsets |->
                          IF o \in Oldest(q, n) THEN Absent ELSE e[o]]
        /\ retained' = [retained EXCEPT
                          ![s] = SaturatingSub(bytes, Bytes(e, Oldest(q, n)))]
  BY Zenon DEF EvictOver
<1>2. SubSeq(q, n + 1, Len(q)) \in Seq(Offsets)
  <2>1. \A j \in n + 1 .. Len(q) : q[j] \in Offsets
    OBVIOUS
  <2> QED
    BY <2>1
<1>3. SaturatingSub(bytes, Bytes(e, Oldest(q, n))) \in Nat
  BY OldestSubset, BytesType, SaturatingSubType, Zenon
<1>4. Absent \in Payloads
  BY Zenon DEF Absent, Payloads
<1>5. recency' \in [Shards -> Seq(Offsets)]
  BY <1>1, <1>2, Zenon
<1>6. entries' \in [Offsets -> Payloads]
  BY <1>1, <1>4, Zenon
<1>7. retained' \in [Shards -> Nat]
  BY <1>1, <1>3, Zenon
<1>8. \A o \in Offsets : entries'[o] = Absent \/ entries'[o] = e[o]
  BY <1>1, Zenon
<1> QED
  BY <1>5, <1>6, <1>7, <1>8, Zenon

\* Dropping a payload of another length leaves the types of the cache state.
LEMMA DropMismatchType ==
  ASSUME TypeOK, NEW o \in Offsets, DropMismatch(o)
  PROVE  /\ recency'  \in [Shards -> Seq(Offsets)]
         /\ entries'  \in [Offsets -> Payloads]
         /\ retained' \in [Shards -> Nat]
<1> USE DEF TypeOK
<1>1. ShardOf[o] \in Shards
  BY ConstantsAssumption, Zenon
<1>2. LruRemove(recency[ShardOf[o]], o) \in Seq(Offsets)
  BY <1>1, LruRemoveType, Zenon
<1>3. recency' \in [Shards -> Seq(Offsets)]
  BY <1>1, <1>2, Zenon DEF DropMismatch
<1>4. entries' \in [Offsets -> Payloads]
  BY Zenon DEF DropMismatch, Absent, Payloads
<1>5. SaturatingSub(retained[ShardOf[o]], Charge(entries[o])) \in Nat
  BY <1>1, SaturatingSubType, Zenon DEF Charge, Payloads
<1>6. retained' \in [Shards -> Nat]
  BY <1>1, <1>5, Zenon DEF DropMismatch
<1> QED
  BY <1>3, <1>4, <1>6, Zenon

\* Notifying a shard moves workers from asleep to wait, and no other worker.
LEMMA NotifiedType ==
  ASSUME phase \in [Workers -> Phases], NEW s
  PROVE  /\ Notified(s) \in [Workers -> Phases]
         /\ \A w \in Workers : \/ Notified(s)[w] = phase[w]
                               \/ phase[w] = "asleep" /\ Notified(s)[w] = "wait"
BY Zenon DEF Notified, AsleepIn, Phases

-----------------------------------------------------------------------------
(* Type correctness. *)

\* The cache starts empty and nobody has started a load.
LEMMA InitType == Init => TypeOK
<1> SUFFICES ASSUME Init PROVE TypeOK
  BY Zenon
<1>1. capacity \in [Shards -> Nat]
  BY ConstantsAssumption, ShardCapacityType, Zenon DEF Init
<1>2. entries \in [Offsets -> Payloads]
  BY Zenon DEF Init, Absent, Payloads
<1>3. recency \in [Shards -> Seq(Offsets)]
  BY DEF Init
<1>4. resize \in [phase : {"idle", "store", "trim"}, total : Nat, shard : Shards]
  BY ConstantsAssumption DEF Init, Shards
<1> QED
  BY <1>1, <1>2, <1>3, <1>4, Zenon DEF Init, TypeOK, Phases

\* A lookup, whatever its answer, keeps the types.
LEMMA LookupType ==
  ASSUME TypeOK, NEW w \in Workers, Lookup(w)
  PROVE  TypeOK'
<1>1. PICK o \in todo[w] :
        /\ Hit(w, o) \/ Join(w, o) \/ Reserve(w, o)
        /\ todo' = [todo EXCEPT ![w] = @ \ {o}]
  BY Zenon DEF Lookup
<1>2. o \in Offsets /\ ShardOf[o] \in Shards
  BY ConstantsAssumption, Zenon DEF TypeOK
<1>3. todo' \in [Workers -> SUBSET Offsets]
  BY <1>1, Zenon DEF TypeOK
<1>4. CASE Hit(w, o)
  <2>1. recency' \in [Shards -> Seq(Offsets)]
    BY <1>2, <1>4, LruTouchType, Zenon DEF Hit, TypeOK
  <2>2. local' \in [Workers -> [Offsets -> Nat]]
    BY <1>2, <1>4, Zenon DEF Hit, TypeOK, Payloads
  <2>3. phase' \in [Workers -> Phases]
    BY <1>4, Zenon DEF Hit, TypeOK, AfterLookup, Phases
  <2> QED
    BY <1>3, <1>4, <2>1, <2>2, <2>3, Zenon DEF Lookup, Hit, TypeOK
<1>5. CASE Join(w, o)
  <2>1. waiting' \in [Workers -> SUBSET Offsets]
    BY <1>2, <1>5, Zenon DEF Join, TypeOK
  <2>2. phase' \in [Workers -> Phases]
    BY <1>5, Zenon DEF Join, TypeOK, AfterLookup, Phases
  <2>3. DropMismatch(o)
    BY <1>5, Zenon DEF Join
  <2> QED
    BY <1>2, <1>3, <1>5, <2>1, <2>2, <2>3, DropMismatchType, Zenon DEF Lookup, Join, TypeOK
<1>6. CASE Reserve(w, o)
  <2>1. reserved' \in [Workers -> SUBSET Offsets] /\ loading' \in SUBSET Offsets
    BY <1>2, <1>6, Zenon DEF Reserve, TypeOK
  <2>2. phase' \in [Workers -> Phases]
    BY <1>6, Zenon DEF Reserve, TypeOK, Phases
  <2>3. DropMismatch(o)
    BY <1>6, Zenon DEF Reserve
  <2> QED
    BY <1>2, <1>3, <1>6, <2>1, <2>2, <2>3, DropMismatchType, Zenon
    DEF Lookup, Reserve, TypeOK
<1> QED
  BY <1>1, <1>4, <1>5, <1>6, Zenon

\* Publishing a window keeps the types.
LEMMA PublishType ==
  ASSUME TypeOK, NEW w \in Workers, Publish(w)
  PROVE  TypeOK'
<1> DEFINE payload(o, slack) == [length   |-> PlannedLength[w][o],
                                 capacity |-> PlannedLength[w][o] + slack]
<1>1. PICK o \in reserved[w], slack \in Slack :
        /\ local' = [local EXCEPT ![w][o] = PlannedLength[w][o]]
        /\ loading' = loading \ {o}
        /\ EvictOver(ShardOf[o], LruTouch(recency[ShardOf[o]], o),
                     [entries EXCEPT ![o] = payload(o, slack)],
                     SaturatingSub(retained[ShardOf[o]], Charge(entries[o]))
                       + Charge(payload(o, slack)),
                     capacity[ShardOf[o]])
        /\ reserved' = [reserved EXCEPT ![w] = @ \ {o}]
        /\ phase' = [Notified(ShardOf[o]) EXCEPT
                       ![w] = IF reserved[w] # {o} THEN "publish"
                              ELSE IF waiting[w] # {} THEN "wait"
                              ELSE "retain"]
  BY Zenon DEF Publish
<1>2. /\ o \in Offsets
      /\ ShardOf[o] \in Shards
      /\ PlannedLength[w][o] \in Nat
      /\ slack \in Nat
  BY ConstantsAssumption DEF TypeOK
<1>3. payload(o, slack) \in Payloads
  BY <1>2 DEF Payloads
<1>4. LruTouch(recency[ShardOf[o]], o) \in Seq(Offsets)
  BY <1>2, LruTouchType, Zenon DEF TypeOK
<1>5. [entries EXCEPT ![o] = payload(o, slack)] \in [Offsets -> Payloads]
  BY <1>3, Zenon DEF TypeOK
<1>6. SaturatingSub(retained[ShardOf[o]], Charge(entries[o]))
        + Charge(payload(o, slack)) \in Nat
  <2>1. Charge(entries[o]) \in Nat /\ retained[ShardOf[o]] \in Nat
    BY <1>2, Zenon DEF TypeOK, Charge, Payloads
  <2>2. Charge(payload(o, slack)) \in Nat
    BY <1>2 DEF Charge
  <2>3. SaturatingSub(retained[ShardOf[o]], Charge(entries[o])) \in Nat
    BY <2>1, SaturatingSubType, Zenon
  <2> QED
    BY <2>2, <2>3
<1>7. /\ recency'  \in [Shards -> Seq(Offsets)]
      /\ entries'  \in [Offsets -> Payloads]
      /\ retained' \in [Shards -> Nat]
  <2> HIDE DEF payload
  <2>1. capacity[ShardOf[o]] \in Nat
    BY <1>2, Zenon DEF TypeOK
  <2> QED
    BY <1>1, <1>2, <1>4, <1>5, <1>6, <2>1, EvictOverType, Zenon DEF TypeOK
<1>8. phase' \in [Workers -> Phases]
  <2>1. Notified(ShardOf[o]) \in [Workers -> Phases]
    BY NotifiedType, Zenon DEF TypeOK
  <2> QED
    BY <1>1, <2>1, Zenon DEF Phases
<1>9. local' \in [Workers -> [Offsets -> Nat]]
  BY <1>1, <1>2, Zenon DEF TypeOK
<1>10. loading' \in SUBSET Offsets /\ reserved' \in [Workers -> SUBSET Offsets]
  BY <1>1, Zenon DEF TypeOK
<1> QED
  BY <1>7, <1>8, <1>9, <1>10, Zenon DEF Publish, TypeOK

\* Cancelling a load shard by shard keeps the types.
LEMMA CancelType ==
  ASSUME TypeOK, NEW w \in Workers, Cancel(w)
  PROVE  TypeOK'
<1>1. PICK s \in Shards :
        LET release == Releases(w, s)
            left    == IF release.last THEN {} ELSE reserved[w] \ release.offsets
        IN  /\ loading'  = loading \ release.offsets
            /\ reserved' = [reserved EXCEPT ![w] = left]
            /\ phase'    = [Notified(s) EXCEPT
                              ![w] = IF release.last THEN "idle" ELSE "cancel"]
            /\ waiting'  = [waiting EXCEPT ![w] = IF release.last THEN {} ELSE @]
            /\ pending'  = [pending EXCEPT ![w] = IF release.last THEN {} ELSE @]
            /\ request'  = [request EXCEPT ![w] = IF release.last THEN {} ELSE @]
  BY Zenon DEF Cancel
<1>2. phase' \in [Workers -> Phases]
  <2>1. Notified(s) \in [Workers -> Phases]
    BY NotifiedType, Zenon DEF TypeOK
  <2> QED
    BY <1>1, <2>1, Zenon DEF Phases
<1>3. /\ loading'  \in SUBSET Offsets
      /\ reserved' \in [Workers -> SUBSET Offsets]
      /\ waiting'  \in [Workers -> SUBSET Offsets]
      /\ pending'  \in [Workers -> SUBSET Offsets]
      /\ request'  \in [Workers -> SUBSET Offsets]
  BY <1>1, Zenon DEF TypeOK
<1> QED
  BY <1>2, <1>3, Zenon DEF Cancel, TypeOK

\* Waiting for a window keeps the types.
LEMMA WaitForType ==
  ASSUME TypeOK, NEW w \in Workers, WaitFor(w)
  PROVE  TypeOK'
<1>1. PICK o \in waiting[w] :
        \/ /\ phase' = [phase EXCEPT ![w] = "asleep"]
           /\ UNCHANGED <<recency, waiting, local>>
        \/ /\ recency' = IF Matches(w, o)
                         THEN [recency EXCEPT ![ShardOf[o]] = LruTouch(@, o)]
                         ELSE recency
           /\ local'   = IF Matches(w, o)
                         THEN [local EXCEPT ![w][o] = entries[o].length]
                         ELSE local
           /\ waiting' = [waiting EXCEPT ![w] = @ \ {o}]
           /\ phase'   = [phase EXCEPT ![w] = IF waiting[w] = {o} THEN "retain"
                                                                 ELSE "wait"]
  BY Zenon DEF WaitFor
<1>2. o \in Offsets /\ ShardOf[o] \in Shards
  BY ConstantsAssumption, Zenon DEF TypeOK
<1>3. LruTouch(recency[ShardOf[o]], o) \in Seq(Offsets)
  BY <1>2, LruTouchType, Zenon DEF TypeOK
<1>4. recency' \in [Shards -> Seq(Offsets)]
  BY <1>1, <1>3, ZenonT(30) DEF TypeOK
<1>5. local' \in [Workers -> [Offsets -> Nat]]
  <2>1. entries[o].length \in Nat
    BY <1>2, Zenon DEF TypeOK, Payloads
  <2>2. [local EXCEPT ![w][o] = entries[o].length] \in [Workers -> [Offsets -> Nat]]
    BY <1>2, <2>1, Zenon DEF TypeOK
  <2>3. local' = local \/ local' = [local EXCEPT ![w][o] = entries[o].length]
    BY <1>1, Zenon
  <2> QED
    BY <2>2, <2>3, Zenon DEF TypeOK
<1>6. waiting' \in [Workers -> SUBSET Offsets] /\ phase' \in [Workers -> Phases]
  <2>1. waiting' = waiting \/ waiting' = [waiting EXCEPT ![w] = @ \ {o}]
    BY <1>1, Zenon
  <2>2. \E p \in {"asleep", "retain", "wait"} : phase' = [phase EXCEPT ![w] = p]
    BY <1>1, Zenon
  <2>3. waiting' \in [Workers -> SUBSET Offsets]
    <3>1. [waiting EXCEPT ![w] = @ \ {o}] \in [Workers -> SUBSET Offsets]
      BY Zenon DEF TypeOK
    <3> QED
      BY <2>1, <3>1, Zenon DEF TypeOK
  <2>4. phase' \in [Workers -> Phases]
    BY <2>2, Zenon DEF TypeOK, Phases
  <2> QED
    BY <2>3, <2>4, Zenon
<1> QED
  BY <1>4, <1>5, <1>6, Zenon DEF WaitFor, TypeOK

\* The steps of a resize keep the types.
LEMMA ResizeType ==
  ASSUME TypeOK, StartResize \/ ResizeStep
  PROVE  TypeOK'
<1>1. CASE StartResize
  <2>1. PICK total \in Totals :
          resize' = [phase |-> "store", total |-> total, shard |-> 0]
    BY <1>1, Zenon DEF StartResize
  <2>2. 0 \in Shards /\ total \in Nat
    BY ConstantsAssumption DEF Shards
  <2> QED
    BY <1>1, <2>1, <2>2, Zenon DEF StartResize, cacheVars, loadVars, TypeOK
<1>2. CASE StoreCapacity
  <2>1. ShardCapacity(resize.total, resize.shard) \in Nat
    BY ShardCapacityType, Zenon DEF TypeOK
  <2> QED
    BY <1>2, <2>1, Zenon DEF StoreCapacity, cacheVars, loadVars, TypeOK
<1>3. CASE TrimShard
  <2>1. resize.shard \in Shards /\ resize.total \in Nat
    BY Zenon DEF TypeOK
  <2>2. EvictOver(resize.shard, recency[resize.shard], entries,
                  retained[resize.shard], ShardCapacity(resize.total, resize.shard))
    BY <1>3, Zenon DEF TrimShard
  <2>3. ShardCapacity(resize.total, resize.shard) \in Nat
    BY <2>1, ShardCapacityType, Zenon
  <2>4. recency[resize.shard] \in Seq(Offsets) /\ retained[resize.shard] \in Nat
    BY <2>1, Zenon DEF TypeOK
  <2>5. /\ recency'  \in [Shards -> Seq(Offsets)]
        /\ entries'  \in [Offsets -> Payloads]
        /\ retained' \in [Shards -> Nat]
    BY <2>1, <2>2, <2>3, <2>4, EvictOverType, Zenon DEF TypeOK
  <2>6. resize' \in [phase : {"idle", "store", "trim"}, total : Nat, shard : Shards]
    BY <1>3, <2>1, Zenon DEF TrimShard, NextShard, TypeOK
  <2> QED
    BY <1>3, <2>5, <2>6, Zenon DEF TrimShard, loadVars, TypeOK
<1> QED
  BY <1>1, <1>2, <1>3, Zenon DEF ResizeStep

\* Every step of the cache, of a worker or of a resize keeps the types.
LEMMA NextType == TypeOK /\ [Next]_vars => TypeOK'
<1> SUFFICES ASSUME TypeOK, [Next]_vars PROVE TypeOK'
  BY Zenon
<1>1. ASSUME NEW w \in Workers, StartLoad(w)
      PROVE  TypeOK'
  BY <1>1, SMTT(30) DEF StartLoad, Missing, cacheVars, TypeOK, Phases
<1>2. ASSUME NEW w \in Workers,
             ReadSucceeds(w) \/ ReadFails(w) \/ SpuriousWakeup(w)
      PROVE  TypeOK'
  BY <1>2, Zenon DEF ReadSucceeds, ReadFails, SpuriousWakeup, cacheVars, TypeOK, Phases
<1>3. ASSUME NEW w \in Workers, Retain(w)
      PROVE  TypeOK'
  BY <1>3, Zenon DEF Retain, Missing, cacheVars, TypeOK, Phases
<1>4. CASE UNCHANGED vars
  BY <1>4, Zenon DEF vars, cacheVars, loadVars, TypeOK
<1> QED
  BY <1>1, <1>2, <1>3, <1>4, LookupType, PublishType, CancelType, WaitForType,
     ResizeType, Zenon DEF Next, LoadStep

\* The fields of the cache, of the load loop and of a resize always have the types
\* of SharedWindowCacheState and of the locals of load_adjacency_windows.
THEOREM TypeCorrect == Spec => []TypeOK
<1>1. Init => TypeOK
  BY InitType, Zenon
<1>2. TypeOK /\ [Next]_vars => TypeOK'
  BY NextType, Zenon
<1> QED
  BY <1>1, <1>2, PTL DEF Spec

-----------------------------------------------------------------------------
(* Safety.  The inductive invariant adds to the invariants that the runs   *)
(* check why they are preserved: a sleeper's offset is in the loading set, *)
(* and a query holds, with the planned length, every requested window that *)
(* is no longer pending.                                                   *)

\* A worker sleeps only while the first offset it waits for is being loaded:
\* whoever takes the offset out of the loading set notifies its shard.
SleeperAwaitsLoad ==
  \A w \in Workers : phase[w] = "asleep" =>
    \E o \in waiting[w] : IsFirst(o, waiting[w]) /\ o \in loading

\* A window enters a query with the planned length only, and a window leaves
\* pending only when the query holds it.
QueryHoldsRest ==
  \A w \in Workers :
    /\ \A o \in Offsets : local[w][o] \in {0, PlannedLength[w][o]}
    /\ \A o \in request[w] \ pending[w] : local[w][o] # 0

IInv ==
  /\ TypeOK
  /\ ReservationOwned
  /\ NeverCachedWhileLoading
  /\ SleeperAwaitsLoad
  /\ QueryHoldsRest

\* Initially nothing is reserved, cached or requested.
LEMMA InitInv == Init => IInv
<1> SUFFICES ASSUME Init PROVE IInv
  BY Zenon
<1>1. TypeOK
  BY InitType, Zenon
<1>2. ReservationOwned /\ NeverCachedWhileLoading
  BY Zenon DEF Init, ReservationOwned, NeverCachedWhileLoading
<1>3. SleeperAwaitsLoad /\ QueryHoldsRest
  BY Zenon DEF Init, SleeperAwaitsLoad, QueryHoldsRest
<1> QED
  BY <1>1, <1>2, <1>3, Zenon DEF IInv

\* Starting a load: the worker held no reservation, and the windows that are not
\* missing are those the query holds.
LEMMA StartLoadInv ==
  ASSUME IInv, NEW w \in Workers, StartLoad(w)
  PROVE  IInv'
<1>1. TypeOK'
  BY NextType, Zenon DEF Next, IInv
<1>2. /\ phase \in [Workers -> Phases]
      /\ request \in [Workers -> SUBSET Offsets]
      /\ pending \in [Workers -> SUBSET Offsets]
      /\ local \in [Workers -> [Offsets -> Nat]]
  BY Zenon DEF IInv, TypeOK
<1>3. PICK windows \in SUBSET Offsets, held \in [Offsets -> Nat] :
        /\ \A o \in Offsets : held[o] = local[w][o] \/ held[o] = 0
        /\ request' = [request EXCEPT
                         ![w] = IF Missing(windows, held) = {} THEN {} ELSE windows]
        /\ local'   = [local EXCEPT ![w] = held]
        /\ pending' = [pending EXCEPT ![w] = Missing(windows, held)]
        /\ \E p \in {"idle", "lookup"} : phase' = [phase EXCEPT ![w] = p]
  <2>1. PICK windows \in (SUBSET Offsets) \ {{}}, kept \in SUBSET Offsets :
          LET held    == [o \in Offsets |-> IF o \in kept THEN local[w][o] ELSE 0]
              missing == Missing(windows, held)
          IN  /\ request' = [request EXCEPT
                               ![w] = IF missing = {} THEN {} ELSE windows]
              /\ local'   = [local EXCEPT ![w] = held]
              /\ pending' = [pending EXCEPT ![w] = missing]
              /\ phase'   = [phase EXCEPT
                               ![w] = IF missing = {} THEN "idle" ELSE "lookup"]
    BY Zenon DEF StartLoad
  <2> DEFINE held == [o \in Offsets |-> IF o \in kept THEN local[w][o] ELSE 0]
  <2>2. held \in [Offsets -> Nat]
    BY <1>2
  <2>3. \A o \in Offsets : held[o] = local[w][o] \/ held[o] = 0
    BY Zenon
  <2>4. \E p \in {"idle", "lookup"} : phase' = [phase EXCEPT ![w] = p]
    BY <2>1, Zenon
  <2> HIDE DEF held
  <2> WITNESS windows \in SUBSET Offsets, held \in [Offsets -> Nat]
  <2> QED
    BY <2>1, <2>3, <2>4, Zenon DEF held
<1>4. /\ phase[w] = "idle"
      /\ phase'[w] \in {"idle", "lookup"}
      /\ \A v \in Workers : v # w => phase'[v] = phase[v]
      /\ UNCHANGED <<entries, loading, reserved, waiting>>
  BY <1>2, <1>3, Zenon DEF StartLoad, cacheVars
<1>5. ReservationOwned'
  BY <1>4, Zenon DEF IInv, ReservationOwned
<1>6. NeverCachedWhileLoading'
  BY <1>4, Zenon DEF IInv, NeverCachedWhileLoading
<1>7. SleeperAwaitsLoad'
  BY <1>4, Zenon DEF IInv, SleeperAwaitsLoad, IsFirst
<1>8. QueryHoldsRest'
  <2> SUFFICES ASSUME NEW v \in Workers
               PROVE  /\ \A o \in Offsets : local'[v][o] \in {0, PlannedLength[v][o]}
                      /\ \A o \in request'[v] \ pending'[v] : local'[v][o] # 0
    BY Zenon DEF QueryHoldsRest
  <2>1. /\ \A o \in Offsets : local[v][o] \in {0, PlannedLength[v][o]}
        /\ \A o \in request[v] \ pending[v] : local[v][o] # 0
    BY Zenon DEF IInv, QueryHoldsRest
  <2>2. CASE v # w
    BY <1>2, <1>3, <2>1, <2>2, Zenon
  <2>3. CASE v = w
    <3>1. /\ local'[v] = held
          /\ pending'[v] = Missing(windows, held)
          /\ request'[v] \subseteq windows
      BY <1>2, <1>3, <2>3, Zenon
    <3> QED
      BY <1>3, <2>1, <2>3, <3>1 DEF Missing
  <2> QED
    BY <2>2, <2>3, Zenon
<1> QED
  BY <1>1, <1>5, <1>6, <1>7, <1>8, Zenon DEF IInv

\* A step of one worker that leaves alone the cached payloads, the loading set and
\* every reservation, and does not put the worker to sleep.
LEMMA QuietStep ==
  ASSUME IInv, TypeOK', NEW w \in Workers,
         UNCHANGED <<entries, loading, reserved>>,
         \A v \in Workers : v # w =>
           phase'[v] = phase[v] /\ waiting'[v] = waiting[v],
         reserved[w] # {} => phase'[w] \in {"lookup", "read", "cancel", "publish"},
         phase'[w] # "asleep",
         QueryHoldsRest'
  PROVE  IInv'
<1>1. ReservationOwned'
  BY Zenon DEF IInv, ReservationOwned
<1>2. NeverCachedWhileLoading'
  BY Zenon DEF IInv, NeverCachedWhileLoading
<1>3. SleeperAwaitsLoad'
  BY Zenon DEF IInv, SleeperAwaitsLoad, IsFirst
<1> QED
  BY <1>1, <1>2, <1>3, Zenon DEF IInv

\* A query that is given a window of the planned length still holds the rest.
LEMMA QueryGains ==
  ASSUME IInv, NEW w \in Workers, NEW o \in Offsets,
         UNCHANGED <<request, pending>>,
         local' = local \/ local' = [local EXCEPT ![w][o] = PlannedLength[w][o]]
  PROVE  QueryHoldsRest'
<1>1. /\ local \in [Workers -> [Offsets -> Nat]]
      /\ PlannedLength[w][o] \in Nat \ {0}
  BY ConstantsAssumption DEF IInv, TypeOK
<1>2. ASSUME NEW v \in Workers, NEW p \in Offsets
      PROVE  \/ local'[v][p] = local[v][p]
             \/ local'[v][p] = PlannedLength[v][p] /\ local'[v][p] # 0
  <2>1. CASE local' = local
    BY <2>1, Zenon
  <2>2. CASE local' = [local EXCEPT ![w][o] = PlannedLength[w][o]]
    BY <1>1, <2>2, Zenon
  <2> QED
    BY <2>1, <2>2, Zenon
<1>3. ASSUME NEW v \in Workers
      PROVE  /\ \A p \in Offsets : local'[v][p] \in {0, PlannedLength[v][p]}
             /\ \A p \in request'[v] \ pending'[v] : local'[v][p] # 0
  <2>1. /\ \A p \in Offsets : local[v][p] \in {0, PlannedLength[v][p]}
        /\ \A p \in request[v] \ pending[v] : local[v][p] # 0
        /\ request[v] \subseteq Offsets
    BY Zenon DEF IInv, TypeOK, QueryHoldsRest
  <2> QED
    BY <1>2, <2>1, Zenon
<1> QED
  BY <1>3, Zenon DEF QueryHoldsRest

\* A lookup: a hit has the planned length, an offset is reserved only when nobody
\* loads it, and reserving drops what was cached.
LEMMA LookupInv ==
  ASSUME IInv, NEW w \in Workers, Lookup(w)
  PROVE  IInv'
<1>1. TypeOK'
  BY LookupType, Zenon DEF IInv
<1>2. PICK o \in todo[w] : Hit(w, o) \/ Join(w, o) \/ Reserve(w, o)
  BY Zenon DEF Lookup
<1>3. /\ o \in Offsets
      /\ phase[w] = "lookup"
      /\ UNCHANGED <<request, pending>>
      /\ phase \in [Workers -> Phases]
      /\ waiting \in [Workers -> SUBSET Offsets]
      /\ reserved \in [Workers -> SUBSET Offsets]
      /\ entries \in [Offsets -> Payloads]
  BY Zenon DEF Lookup, IInv, TypeOK
<1>4. CASE Hit(w, o)
  <2>1. local' = [local EXCEPT ![w][o] = PlannedLength[w][o]]
    BY <1>4, Zenon DEF Hit, Matches
  <2>2. QueryHoldsRest'
    BY <1>3, <2>1, QueryGains, Zenon
  <2>3. /\ UNCHANGED <<entries, loading, reserved>>
        /\ \A v \in Workers : v # w =>
             phase'[v] = phase[v] /\ waiting'[v] = waiting[v]
        /\ reserved[w] # {} => phase'[w] \in {"lookup", "read"}
        /\ phase'[w] # "asleep"
    BY <1>3, <1>4, Zenon DEF Hit, AfterLookup
  <2> QED
    BY <1>1, <2>2, <2>3, QuietStep, Zenon
<1>5. CASE Join(w, o)
  <2>1. /\ UNCHANGED <<loading, reserved, local>>
        /\ DropMismatch(o)
        /\ \A v \in Workers : v # w =>
             phase'[v] = phase[v] /\ waiting'[v] = waiting[v]
        /\ phase'[w] \in {"lookup", "read", "wait", "retain"}
        /\ reserved[w] # {} => phase'[w] \in {"lookup", "read"}
    BY <1>3, <1>5, Zenon DEF Join, AfterLookup
  <2>2. \A p \in Offsets : entries'[p] = entries[p] \/ entries'[p] = Absent
    BY <1>3, <2>1, Zenon DEF DropMismatch
  <2>3. ReservationOwned'
    BY <2>1, Zenon DEF IInv, ReservationOwned
  <2>4. NeverCachedWhileLoading'
    BY <2>1, <2>2, Zenon DEF IInv, TypeOK, NeverCachedWhileLoading
  <2>5. SleeperAwaitsLoad'
    BY <2>1, Zenon DEF IInv, SleeperAwaitsLoad, IsFirst
  <2>6. QueryHoldsRest'
    BY <1>3, <2>1, Zenon DEF IInv, QueryHoldsRest
  <2> QED
    BY <1>1, <2>3, <2>4, <2>5, <2>6, Zenon DEF IInv
<1>6. CASE Reserve(w, o)
  <2>1. /\ UNCHANGED <<waiting, local>>
        /\ DropMismatch(o)
        /\ o \notin loading
        /\ loading' = loading \cup {o}
        /\ reserved'[w] = reserved[w] \cup {o}
        /\ \A v \in Workers : v # w =>
             phase'[v] = phase[v] /\ reserved'[v] = reserved[v]
        /\ phase'[w] \in {"lookup", "read"}
    BY <1>3, <1>6, Zenon DEF Reserve
  <2>2. /\ entries'[o] = Absent
        /\ \A p \in Offsets : p # o => entries'[p] = entries[p]
    BY <1>3, <2>1, Zenon DEF DropMismatch
  <2>3. ReservationOwned'
    BY <2>1 DEF IInv, ReservationOwned
  <2>4. NeverCachedWhileLoading'
    BY <2>1, <2>2, Zenon DEF IInv, TypeOK, NeverCachedWhileLoading
  <2>5. SleeperAwaitsLoad'
    BY <2>1, Zenon DEF IInv, SleeperAwaitsLoad, IsFirst
  <2>6. QueryHoldsRest'
    BY <1>3, <2>1, Zenon DEF IInv, QueryHoldsRest
  <2> QED
    BY <1>1, <2>3, <2>4, <2>5, <2>6, Zenon DEF IInv
<1> QED
  BY <1>2, <1>4, <1>5, <1>6, Zenon

\* A step that takes the offsets freed of shard s out of the loading set and out
\* of the reservations of worker w, and notifies the shard.
Released(w, s, freed) ==
  /\ freed \subseteq reserved[w]
  /\ \A o \in freed : ShardOf[o] = s
  /\ loading' = loading \ freed
  /\ reserved'[w] = reserved[w] \ freed
  /\ \A v \in Workers : v # w => /\ phase'[v] = Notified(s)[v]
                                 /\ waiting'[v] = waiting[v]
                                 /\ reserved'[v] = reserved[v]
  /\ phase'[w] # "asleep"
  /\ reserved'[w] # {} => phase'[w] \in {"cancel", "publish"}
  /\ \A o \in Offsets \ freed : entries'[o] = Absent \/ entries'[o] = entries[o]

\* Such a step keeps what the inductive invariant says of reservations and sleepers.
LEMMA ReleaseStep ==
  ASSUME IInv, TypeOK', QueryHoldsRest',
         NEW w \in Workers, NEW s, NEW freed, Released(w, s, freed)
  PROVE  IInv'
<1> USE DEF Released
<1>1. \A v \in Workers : v # w =>
        \/ phase'[v] = phase[v]
        \/ phase[v] = "asleep" /\ phase'[v] = "wait"
  BY Zenon DEF Notified, AsleepIn
<1>2. /\ \A o \in loading : \E v \in Workers : o \in reserved[v]
      /\ \A v \in Workers : reserved[v] \subseteq loading
      /\ \A u, v \in Workers : u # v => reserved[u] \cap reserved[v] = {}
      /\ \A v \in Workers :
           reserved[v] # {} => phase[v] \in {"lookup", "read", "cancel", "publish"}
  BY Zenon DEF IInv, ReservationOwned
<1>3. ReservationOwned'
  <2>1. ASSUME NEW o \in loading'
        PROVE  \E v \in Workers : o \in reserved'[v]
    BY <1>2, Zenon
  <2>2. ASSUME NEW v \in Workers
        PROVE  reserved'[v] \subseteq loading'
    <3>1. reserved'[v] \cap freed = {}
      BY <1>2, Zenon
    <3> QED
      BY <1>2, <3>1, Zenon
  <2>3. \A u, v \in Workers : u # v => reserved'[u] \cap reserved'[v] = {}
    BY <1>2
  <2>4. ASSUME NEW v \in Workers, reserved'[v] # {}
        PROVE  phase'[v] \in {"lookup", "read", "cancel", "publish"}
    BY <1>1, <1>2, <2>4, Zenon
  <2> QED
    BY <2>1, <2>2, <2>3, <2>4, Zenon DEF ReservationOwned
<1>4. NeverCachedWhileLoading'
  BY Zenon DEF IInv, TypeOK, NeverCachedWhileLoading
<1>5. SleeperAwaitsLoad'
  <2> SUFFICES ASSUME NEW v \in Workers, phase'[v] = "asleep"
               PROVE  \E o \in waiting'[v] : IsFirst(o, waiting'[v]) /\ o \in loading'
    BY Zenon DEF SleeperAwaitsLoad, IsFirst
  <2>1. v # w /\ phase[v] = "asleep" /\ waiting'[v] = waiting[v]
    BY <1>1, Zenon
  <2>2. PICK o \in waiting[v] : IsFirst(o, waiting[v]) /\ o \in loading
    BY <2>1, Zenon DEF IInv, SleeperAwaitsLoad
  <2>3. v \notin AsleepIn(s)
    BY <2>1, Zenon DEF Notified
  <2>4. ShardOf[o] # s
    BY <2>1, <2>2, <2>3, Zenon DEF AsleepIn
  <2> QED
    BY <2>1, <2>2, <2>4, Zenon
<1> QED
  BY <1>3, <1>4, <1>5, Zenon DEF IInv

\* Cancelling: what leaves the loading set is what the worker had reserved in the
\* shard, and the sleepers of the shard are notified.
LEMMA CancelInv ==
  ASSUME IInv, NEW w \in Workers, Cancel(w)
  PROVE  IInv'
<1> DEFINE freed(s) == { o \in reserved[w] : ShardOf[o] = s }
           last(s)  == \A o \in reserved[w] : ShardOf[o] = s
<1>1. TypeOK'
  BY CancelType, Zenon DEF IInv
<1>2. PICK s \in Shards :
        LET release == Releases(w, s)
            left    == IF release.last THEN {} ELSE reserved[w] \ release.offsets
        IN  /\ loading'  = loading \ release.offsets
            /\ reserved' = [reserved EXCEPT ![w] = left]
            /\ phase'    = [Notified(s) EXCEPT
                              ![w] = IF release.last THEN "idle" ELSE "cancel"]
            /\ waiting'  = [waiting EXCEPT ![w] = IF release.last THEN {} ELSE @]
            /\ pending'  = [pending EXCEPT ![w] = IF release.last THEN {} ELSE @]
            /\ request'  = [request EXCEPT ![w] = IF release.last THEN {} ELSE @]
  BY Zenon DEF Cancel
<1>3. Releases(w, s).offsets = freed(s) /\ Releases(w, s).last = last(s)
  BY Zenon DEF Releases
<1>4. last(s) => reserved[w] \ freed(s) = {}
  BY Zenon
<1>5. \A o \in freed(s) : ShardOf[o] = s
  BY Zenon
<1>6. freed(s) \in SUBSET reserved[w]
  BY Zenon
<1> HIDE DEF freed, last
<1>7. /\ reserved \in [Workers -> SUBSET Offsets]
      /\ waiting \in [Workers -> SUBSET Offsets]
      /\ pending \in [Workers -> SUBSET Offsets]
      /\ request \in [Workers -> SUBSET Offsets]
      /\ Notified(s) \in [Workers -> Phases]
  BY NotifiedType, Zenon DEF IInv, TypeOK
<1>8. /\ loading' = loading \ freed(s)
      /\ reserved'[w] = reserved[w] \ freed(s)
      /\ \A v \in Workers : v # w => reserved'[v] = reserved[v]
  BY <1>2, <1>3, <1>4, <1>7, Zenon
<1>9. /\ \A v \in Workers : v # w => /\ phase'[v] = Notified(s)[v]
                                      /\ waiting'[v] = waiting[v]
      /\ phase'[w] = IF last(s) THEN "idle" ELSE "cancel"
  BY <1>2, <1>3, <1>7, Zenon
<1>10. reserved'[w] # {} => phase'[w] = "cancel"
  BY <1>4, <1>8, <1>9, Zenon
<1>11. UNCHANGED <<entries, local>>
  BY Zenon DEF Cancel
<1>12. QueryHoldsRest'
  <2>1. \A v \in Workers : \/ request'[v] = request[v] /\ pending'[v] = pending[v]
                           \/ request'[v] = {}
    BY <1>2, <1>7, Zenon
  <2> QED
    BY <1>11, <2>1, Zenon DEF IInv, QueryHoldsRest
<1>13. Released(w, s, freed(s))
  BY <1>5, <1>6, <1>8, <1>9, <1>10, <1>11, Zenon DEF Released
<1> QED
  BY <1>1, <1>12, <1>13, ReleaseStep, Zenon

\* Publishing: the offset leaves the loading set and the reservation at once, the
\* query holds the window, and the sleepers of the shard are notified.
LEMMA PublishInv ==
  ASSUME IInv, NEW w \in Workers, Publish(w)
  PROVE  IInv'
<1>1. TypeOK'
  BY PublishType, Zenon DEF IInv
<1>2. PICK o \in reserved[w] :
        /\ local' = [local EXCEPT ![w][o] = PlannedLength[w][o]]
        /\ loading' = loading \ {o}
        /\ \E s, q, payload, bytes, limit :
             EvictOver(s, q, [entries EXCEPT ![o] = payload], bytes, limit)
        /\ reserved' = [reserved EXCEPT ![w] = @ \ {o}]
        /\ phase' = [Notified(ShardOf[o]) EXCEPT
                       ![w] = IF reserved[w] # {o} THEN "publish"
                              ELSE IF waiting[w] # {} THEN "wait"
                              ELSE "retain"]
  BY Zenon DEF Publish
<1>3. /\ o \in Offsets
      /\ reserved \in [Workers -> SUBSET Offsets]
      /\ entries \in [Offsets -> Payloads]
      /\ Notified(ShardOf[o]) \in [Workers -> Phases]
  BY NotifiedType, Zenon DEF IInv, TypeOK
<1>4. UNCHANGED <<waiting, request, pending>>
  BY Zenon DEF Publish
<1>5. /\ reserved'[w] = reserved[w] \ {o}
      /\ \A v \in Workers : v # w => reserved'[v] = reserved[v]
  BY <1>2, <1>3, Zenon
<1>6. /\ \A v \in Workers : v # w => phase'[v] = Notified(ShardOf[o])[v]
      /\ phase'[w] = IF reserved[w] # {o} THEN "publish"
                     ELSE IF waiting[w] # {} THEN "wait"
                     ELSE "retain"
  BY <1>2, <1>3, Zenon
<1>7. /\ phase'[w] # "asleep"
      /\ reserved'[w] # {} => phase'[w] = "publish"
  BY <1>5, <1>6, Zenon
<1>8. \A p \in Offsets \ {o} : entries'[p] = Absent \/ entries'[p] = entries[p]
  BY <1>2, <1>3 DEF EvictOver
<1>9. QueryHoldsRest'
  BY <1>2, <1>3, <1>4, QueryGains, Zenon
<1>10. Released(w, ShardOf[o], {o})
  BY <1>2, <1>4, <1>5, <1>6, <1>7, <1>8, Zenon DEF Released
<1> QED
  BY <1>1, <1>9, <1>10, ReleaseStep, Zenon

\* Waiting: a worker goes to sleep only when it has just seen its offset in the
\* loading set, and takes over a payload of the planned length only.
LEMMA WaitForInv ==
  ASSUME IInv, NEW w \in Workers, WaitFor(w)
  PROVE  IInv'
<1> USE DEF IInv
<1>1. TypeOK'
  BY WaitForType, Zenon
<1>2. PICK o \in waiting[w] :
        /\ IsFirst(o, waiting[w])
        /\ \/ /\ o \in loading
              /\ phase' = [phase EXCEPT ![w] = "asleep"]
              /\ UNCHANGED <<waiting, local>>
           \/ /\ o \notin loading
              /\ local'   = IF Matches(w, o)
                            THEN [local EXCEPT ![w][o] = entries[o].length]
                            ELSE local
              /\ waiting' = [waiting EXCEPT ![w] = @ \ {o}]
              /\ phase'   = [phase EXCEPT ![w] = IF waiting[w] = {o} THEN "retain"
                                                                    ELSE "wait"]
  BY Zenon DEF WaitFor
<1>3. /\ phase[w] = "wait"
      /\ o \in Offsets
      /\ UNCHANGED <<entries, loading, reserved, request, pending>>
  BY Zenon DEF WaitFor, TypeOK
<1>4. reserved[w] = {}
  BY <1>3, Zenon DEF ReservationOwned
<1>10. /\ phase \in [Workers -> Phases]
       /\ waiting \in [Workers -> SUBSET Offsets]
       /\ local \in [Workers -> [Offsets -> Nat]]
  BY Zenon DEF TypeOK
<1>5. /\ \A v \in Workers : v # w => phase'[v] = phase[v] /\ waiting'[v] = waiting[v]
      /\ phase'[w] = "asleep" => waiting'[w] = waiting[w] /\ o \in loading
  BY <1>2, <1>10, Zenon
<1>6. ReservationOwned'
  BY <1>3, <1>4, <1>5, Zenon DEF ReservationOwned
<1>7. NeverCachedWhileLoading'
  BY <1>3, Zenon DEF NeverCachedWhileLoading
<1>8. SleeperAwaitsLoad'
  <2> SUFFICES ASSUME NEW v \in Workers, phase'[v] = "asleep"
               PROVE  \E p \in waiting'[v] : IsFirst(p, waiting'[v]) /\ p \in loading'
    BY Zenon DEF SleeperAwaitsLoad, IsFirst
  <2>1. CASE v = w
    BY <1>2, <1>3, <1>5, <2>1, Zenon
  <2>2. CASE v # w
    BY <1>3, <1>5, <2>2, Zenon DEF SleeperAwaitsLoad
  <2> QED
    BY <2>1, <2>2, Zenon
<1>9. QueryHoldsRest'
  <2>1. local' = local \/ local' = [local EXCEPT ![w][o] = PlannedLength[w][o]]
    BY <1>2, Zenon DEF Matches
  <2>2. CASE local' = local
    BY <1>3, <2>2, Zenon DEF QueryHoldsRest
  <2>3. CASE local' = [local EXCEPT ![w][o] = PlannedLength[w][o]]
    BY <1>3, <2>3, QueryGains, Zenon
  <2> QED
    BY <2>1, <2>2, <2>3, Zenon
<1> QED
  BY <1>1, <1>6, <1>7, <1>8, <1>9, Zenon

\* The steps that move only the worker itself: a read, a wakeup and the end of a
\* round, which drops from pending what the query holds.
LEMMA WorkerStepInv ==
  ASSUME IInv, NEW w \in Workers,
         ReadSucceeds(w) \/ ReadFails(w) \/ SpuriousWakeup(w) \/ Retain(w)
  PROVE  IInv'
<1> USE DEF IInv
<1>1. TypeOK'
  BY NextType, Zenon DEF Next, LoadStep
<1>2. CASE ReadSucceeds(w) \/ ReadFails(w) \/ SpuriousWakeup(w)
  <2>1. /\ \/ phase[w] = "read" /\ phase' = [phase EXCEPT ![w] = "publish"]
           \/ phase[w] = "read" /\ phase' = [phase EXCEPT ![w] = "cancel"]
           \/ phase[w] = "asleep" /\ phase' = [phase EXCEPT ![w] = "wait"]
        /\ UNCHANGED <<entries, loading, reserved, waiting, request, pending, local>>
    BY <1>2, Zenon DEF ReadSucceeds, ReadFails, SpuriousWakeup, cacheVars
  <2>2. ReservationOwned'
    BY <2>1, ZenonT(30) DEF ReservationOwned, TypeOK
  <2>3. NeverCachedWhileLoading'
    BY <2>1, Zenon DEF NeverCachedWhileLoading
  <2>4. SleeperAwaitsLoad'
    BY <2>1, Zenon DEF SleeperAwaitsLoad, TypeOK, IsFirst
  <2>5. QueryHoldsRest'
    BY <2>1, Zenon DEF QueryHoldsRest
  <2> QED
    BY <1>1, <2>2, <2>3, <2>4, <2>5, Zenon
<1>3. CASE Retain(w)
  <2> DEFINE missing == Missing(pending[w], local[w])
  <2>1. /\ phase[w] = "retain"
        /\ phase'   = [phase EXCEPT ![w] = IF missing = {} THEN "idle" ELSE "lookup"]
        /\ pending' = [pending EXCEPT ![w] = missing]
        /\ request' = [request EXCEPT ![w] = IF missing = {} THEN {} ELSE @]
        /\ UNCHANGED <<entries, loading, reserved, waiting, local>>
    BY <1>3, Zenon DEF Retain, cacheVars
  <2>2. \A o \in pending[w] : o \in missing \/ local[w][o] # 0
    BY Zenon DEF Missing
  <2> HIDE DEF missing
  <2>3. ReservationOwned'
    BY <2>1, Zenon DEF ReservationOwned, TypeOK
  <2>4. NeverCachedWhileLoading'
    BY <2>1, Zenon DEF NeverCachedWhileLoading
  <2>5. SleeperAwaitsLoad'
    BY <2>1, Zenon DEF SleeperAwaitsLoad, TypeOK, IsFirst
  <2>6. QueryHoldsRest'
    BY <2>1, <2>2, ZenonT(30) DEF QueryHoldsRest, TypeOK
  <2> QED
    BY <1>1, <2>3, <2>4, <2>5, <2>6, Zenon
<1> QED
  BY <1>2, <1>3, Zenon

\* A resize evicts, and touches neither reservations nor workers.
LEMMA ResizeInv ==
  ASSUME IInv, StartResize \/ ResizeStep
  PROVE  IInv'
<1> USE DEF IInv
<1>1. TypeOK'
  BY ResizeType, Zenon
<1>2. UNCHANGED <<loading, loadVars>>
  BY Zenon DEF StartResize, ResizeStep, StoreCapacity, TrimShard, cacheVars, loadVars
<1>3. \A o \in Offsets : entries'[o] = Absent \/ entries'[o] = entries[o]
  <2>1. CASE UNCHANGED entries
    BY <2>1, Zenon
  <2>2. CASE TrimShard
    BY <2>2, Zenon DEF TrimShard, EvictOver
  <2> QED
    BY <2>1, <2>2, Zenon DEF StartResize, ResizeStep, StoreCapacity, cacheVars
<1>4. NeverCachedWhileLoading'
  BY <1>2, <1>3, Zenon DEF NeverCachedWhileLoading, TypeOK
<1>5. ReservationOwned' /\ SleeperAwaitsLoad' /\ QueryHoldsRest'
  BY <1>2, Zenon DEF loadVars, ReservationOwned, SleeperAwaitsLoad, QueryHoldsRest, IsFirst
<1> QED
  BY <1>1, <1>4, <1>5, Zenon

\* Every step keeps the inductive invariant.
LEMMA NextInv == IInv /\ [Next]_vars => IInv'
<1> SUFFICES ASSUME IInv, [Next]_vars PROVE IInv'
  BY Zenon
<1>1. CASE UNCHANGED vars
  <2>1. TypeOK'
    BY <1>1, NextType, Zenon DEF IInv
  <2>2. UNCHANGED <<entries, loading, phase, request, pending, reserved, waiting, local>>
    BY <1>1, Zenon DEF vars, cacheVars, loadVars
  <2>3. ReservationOwned' /\ NeverCachedWhileLoading'
    BY <2>2, Zenon DEF IInv, ReservationOwned, NeverCachedWhileLoading
  <2>4. SleeperAwaitsLoad' /\ QueryHoldsRest'
    BY <2>2, Zenon DEF IInv, SleeperAwaitsLoad, QueryHoldsRest, IsFirst
  <2> QED
    BY <2>1, <2>3, <2>4, Zenon DEF IInv
<1> QED
  BY <1>1, StartLoadInv, LookupInv, CancelInv, PublishInv, WaitForInv, WorkerStepInv,
     ResizeInv, Zenon DEF Next, LoadStep

\* The inductive invariant holds throughout.
LEMMA Invariance == Spec => []IInv
<1>1. Init => IInv
  BY InitInv, Zenon
<1>2. IInv /\ [Next]_vars => IInv'
  BY NextInv, Zenon
<1> QED
  BY <1>1, <1>2, PTL DEF Spec

\* lookup_or_reserve, publish and cancel keep the loading set equal to the disjoint
\* union of the reservations of running loads, whatever fails and whoever resizes.
THEOREM Reservations == Spec => []ReservationOwned
<1>1. IInv => ReservationOwned
  BY Zenon DEF IInv
<1> QED
  BY <1>1, Invariance, PTL

\* publish never replaces a payload, and no lookup is served a payload that a
\* running read will replace.
THEOREM NeverBoth == Spec => []NeverCachedWhileLoading
<1>1. IInv => NeverCachedWhileLoading
  BY Zenon DEF IInv
<1> QED
  BY <1>1, Invariance, PTL

\* A worker asleep in wait_for sleeps on an offset that a worker which is not
\* itself waiting has reserved: publish and cancel lose no wakeup, and the workers
\* cannot all wait for each other.
THEOREM NoLostWakeup == Spec => []SleepsOnRunningLoader
<1>1. IInv => SleepsOnRunningLoader
  BY Zenon DEF IInv, SleeperAwaitsLoad, ReservationOwned, SleepsOnRunningLoader
<1> QED
  BY <1>1, Invariance, PTL

\* A load that returns Ok leaves every requested window with the query at the
\* length its planner gave to it, however often windows were evicted in between.
THEOREM Delivery == Spec => LoadDelivers
<1> DEFINE Delivers == \A w \in Workers :
             phase[w] = "retain" /\ phase'[w] = "idle"
               => \A o \in request[w] : local[w][o] = PlannedLength[w][o]
<1>1. IInv /\ [Next]_vars => [Delivers]_vars
  <2> SUFFICES ASSUME IInv, Next, NEW w \in Workers,
                      phase[w] = "retain", phase'[w] = "idle",
                      NEW o \in request[w]
               PROVE  local[w][o] = PlannedLength[w][o]
    BY Zenon DEF vars
  <2>4. phase \in [Workers -> Phases]
    BY Zenon DEF IInv, TypeOK
  <2>1. Retain(w)
    <3>1. ASSUME NEW v \in Workers, StartLoad(v)
          PROVE  FALSE
      BY <3>1, <2>4, Zenon DEF StartLoad
    <3>2. ASSUME NEW v \in Workers, Lookup(v)
          PROVE  FALSE
      BY <3>2, <2>4, Zenon DEF Lookup, Hit, Join, Reserve, AfterLookup
    <3>3. ASSUME NEW v \in Workers,
                 ReadSucceeds(v) \/ ReadFails(v) \/ SpuriousWakeup(v)
          PROVE  FALSE
      BY <3>3, <2>4, Zenon DEF ReadSucceeds, ReadFails, SpuriousWakeup
    <3>4. ASSUME NEW v \in Workers, Cancel(v)
          PROVE  FALSE
      <4>1. PICK s \in Shards :
              phase' = [Notified(s) EXCEPT
                          ![v] = IF Releases(v, s).last THEN "idle" ELSE "cancel"]
        BY <3>4, Zenon DEF Cancel
      <4>2. v # w
        BY <3>4, Zenon DEF Cancel
      <4> QED
        BY <2>4, <4>1, <4>2, NotifiedType, Zenon
    <3>5. ASSUME NEW v \in Workers, Publish(v)
          PROVE  FALSE
      <4>1. PICK o1 \in reserved[v] :
              phase' = [Notified(ShardOf[o1]) EXCEPT
                          ![v] = IF reserved[v] # {o1} THEN "publish"
                                 ELSE IF waiting[v] # {} THEN "wait"
                                 ELSE "retain"]
        BY <3>5, Zenon DEF Publish
      <4>2. v # w
        BY <3>5, Zenon DEF Publish
      <4> QED
        BY <2>4, <4>1, <4>2, NotifiedType, Zenon
    <3>6. ASSUME NEW v \in Workers, WaitFor(v)
          PROVE  FALSE
      BY <3>6, <2>4, Zenon DEF WaitFor
    <3>7. ASSUME NEW v \in Workers, Retain(v)
          PROVE  v = w
      BY <3>7, <2>4, Zenon DEF Retain
    <3>8. ASSUME StartResize \/ ResizeStep
          PROVE  FALSE
      BY <3>8, Zenon DEF StartResize, ResizeStep, StoreCapacity, TrimShard, loadVars
    <3> QED
      BY <3>1, <3>2, <3>3, <3>4, <3>5, <3>6, <3>7, <3>8, Zenon DEF Next, LoadStep
  <2>2. Missing(pending[w], local[w]) = {}
    BY <2>1, <2>4, Zenon DEF Retain
  <2>3. local[w][o] # 0
    BY <2>2, Zenon DEF IInv, Missing, QueryHoldsRest
  <2> QED
    BY <2>3, Zenon DEF IInv, QueryHoldsRest, TypeOK
<1> QED
  BY <1>1, Invariance, PTL DEF Spec, LoadDelivers

-----------------------------------------------------------------------------
(* Refinement.  Reservations are disjoint, so that the owner of an offset   *)
(* is the worker that has reserved it; each step of the cache is then a     *)
(* step of SingleFlight, or leaves its variables alone.                     *)

\* An offset is owned by the worker that has reserved it, or by nobody.
OwnerReserves ==
  /\ Owner \in [Offsets -> Workers \cup {Nobody}]
  /\ \A o \in Offsets, w \in Workers : Owner[o] = w <=> o \in reserved[w]

\* That is so in every state whose reservations are disjoint.
LEMMA OwnerOfReserved == IInv => OwnerReserves
<1> SUFFICES ASSUME IInv PROVE OwnerReserves
  BY Zenon
<1>1. ASSUME NEW o \in Offsets, NEW w \in Workers, o \in reserved[w]
      PROVE  Owner[o] = w
  <2> DEFINE c == CHOOSE v \in Workers : o \in reserved[v]
  <2>1. c \in Workers /\ o \in reserved[c]
    BY <1>1, Zenon
  <2>2. Owner[o] = c
    BY <1>1, Zenon DEF Owner
  <2> HIDE DEF c
  <2> QED
    BY <1>1, <2>1, <2>2, Zenon DEF IInv, ReservationOwned
<1>2. ASSUME NEW o \in Offsets, ~ \E w \in Workers : o \in reserved[w]
      PROVE  Owner[o] = Nobody
  BY <1>2, Zenon DEF Owner
<1>3. Owner \in [Offsets -> Workers \cup {Nobody}]
  BY <1>1, <1>2, Zenon DEF Owner
<1> QED
  BY <1>1, <1>2, <1>3, ConstantsAssumption, Zenon DEF OwnerReserves

\* The offsets with a payload.
Cached == { o \in Offsets : entries[o] # Absent }

\* A step that touches no reservation and caches nothing new evicts.
LEMMA EvictStep ==
  ASSUME UNCHANGED reserved,
         \A o \in Offsets : entries'[o] = Absent \/ entries'[o] = entries[o]
  PROVE  Flight!Next
<1>1. UNCHANGED Owner
  BY Zenon DEF Owner
<1>2. Cached' \in SUBSET Cached
  BY Zenon DEF Cached
<1> QED
  BY <1>1, <1>2, Zenon DEF Flight!Next, Flight!Evict, Cached

\* A lookup evicts at most what it drops, or reserves an offset without an owner.
LEMMA LookupFlies ==
  ASSUME IInv, IInv', NEW w \in Workers, Lookup(w)
  PROVE  Flight!Next
<1>1. PICK o \in todo[w] : Hit(w, o) \/ Join(w, o) \/ Reserve(w, o)
  BY Zenon DEF Lookup
<1>2. o \in Offsets /\ entries \in [Offsets -> Payloads]
  BY Zenon DEF IInv, TypeOK
<1>3. CASE Hit(w, o)
  BY <1>3, EvictStep, Zenon DEF Hit
<1>4. CASE Join(w, o)
  BY <1>2, <1>4, EvictStep, Zenon DEF Join, DropMismatch
<1>5. CASE Reserve(w, o)
  <2>1. /\ o \notin loading
        /\ reserved' = [reserved EXCEPT ![w] = @ \cup {o}]
        /\ entries' = [entries EXCEPT ![o] = Absent]
    BY <1>5, Zenon DEF Reserve, DropMismatch
  <2>2. OwnerReserves /\ OwnerReserves'
    BY OwnerOfReserved, PTL
  <2>3. Owner[o] = Nobody
    <3>1. \A v \in Workers : o \notin reserved[v]
      BY <2>1, Zenon DEF IInv, ReservationOwned
    <3> QED
      BY <1>2, <2>2, <3>1 DEF OwnerReserves
  <2>4. Owner' = [Owner EXCEPT ![o] = w]
    <3>1. reserved \in [Workers -> SUBSET Offsets]
      BY Zenon DEF IInv, TypeOK
    <3>2. Owner'[o] = w
      BY <1>2, <2>1, <2>2, <3>1 DEF OwnerReserves
    <3>3. ASSUME NEW p \in Offsets, p # o
          PROVE  Owner'[p] = Owner[p]
      BY <2>1, <2>2, <3>1, <3>3 DEF OwnerReserves
    <3> QED
      BY <1>2, <2>2, <3>2, <3>3, Zenon DEF OwnerReserves
  <2>5. Cached' = Cached \ {o}
    BY <1>2, <2>1, Zenon DEF Cached
  <2>6. Flight!Reserve(w, o)
    BY <2>3, <2>4, <2>5, Zenon DEF Flight!Reserve, Cached
  <2> QED
    BY <1>2, <2>6, Zenon DEF Flight!Next
<1> QED
  BY <1>1, <1>3, <1>4, <1>5, Zenon

\* Publishing gives up the reservation, and caches nothing but the offset.
LEMMA PublishFlies ==
  ASSUME IInv, IInv', NEW w \in Workers, Publish(w)
  PROVE  Flight!Next
<1>1. PICK o \in reserved[w] :
        /\ \E s, q, payload, bytes, limit :
             EvictOver(s, q, [entries EXCEPT ![o] = payload], bytes, limit)
        /\ reserved' = [reserved EXCEPT ![w] = @ \ {o}]
  BY Zenon DEF Publish
<1>2. /\ o \in Offsets
      /\ entries \in [Offsets -> Payloads]
      /\ reserved \in [Workers -> SUBSET Offsets]
  BY Zenon DEF IInv, TypeOK
<1>3. OwnerReserves /\ OwnerReserves'
  BY OwnerOfReserved, PTL
<1>4. Owner[o] = w
  BY <1>2, <1>3, Zenon DEF OwnerReserves
<1>5. Owner' = [Owner EXCEPT ![o] = Nobody]
  <2>1. Owner'[o] = Nobody
    <3>1. \A v \in Workers : o \notin reserved'[v]
      BY <1>1, <1>2, Zenon DEF IInv, ReservationOwned
    <3> QED
      BY <1>2, <1>3, <3>1 DEF OwnerReserves
  <2>2. ASSUME NEW p \in Offsets, p # o
        PROVE  Owner'[p] = Owner[p]
    <3>1. \A v \in Workers : p \in reserved'[v] <=> p \in reserved[v]
      BY <1>1, <1>2, <2>2, Zenon
    <3> QED
      BY <1>3, <3>1 DEF OwnerReserves
  <2> QED
    BY <1>2, <1>3, <2>1, <2>2, Zenon DEF OwnerReserves
<1>6. Cached' \in SUBSET (Cached \cup {o})
  BY <1>1, <1>2 DEF Cached, EvictOver
<1>7. Flight!Publish(w, o)
  BY <1>4, <1>5, <1>6, Zenon DEF Flight!Publish, Cached
<1> QED
  BY <1>2, <1>7, Zenon DEF Flight!Next

\* Cancelling gives up the reservations of one shard.
LEMMA CancelFlies ==
  ASSUME IInv, IInv', NEW w \in Workers, Cancel(w)
  PROVE  Flight!Next
<1> DEFINE freed(s) == { o \in reserved[w] : ShardOf[o] = s }
<1>1. PICK s \in Shards :
        LET release == Releases(w, s)
            left    == IF release.last THEN {} ELSE reserved[w] \ release.offsets
        IN  /\ release.offsets # {}
            /\ reserved' = [reserved EXCEPT ![w] = left]
  BY Zenon DEF Cancel
<1>2. /\ Releases(w, s).offsets = freed(s)
      /\ Releases(w, s).last => reserved[w] \ freed(s) = {}
  BY Zenon DEF Releases
<1>3. freed(s) \in SUBSET reserved[w]
  BY Zenon
<1> HIDE DEF freed
<1>4. freed(s) # {} /\ reserved' = [reserved EXCEPT ![w] = @ \ freed(s)]
  BY <1>1, <1>2, Zenon
<1>5. reserved \in [Workers -> SUBSET Offsets]
  BY Zenon DEF IInv, TypeOK
<1>6. OwnerReserves /\ OwnerReserves'
  BY OwnerOfReserved, PTL
<1>7. \A o \in freed(s) : Owner[o] = w
  BY <1>3, <1>5, <1>6 DEF OwnerReserves
<1>8. Owner' = [o \in Offsets |-> IF o \in freed(s) THEN Nobody ELSE Owner[o]]
  <2>1. ASSUME NEW o \in Offsets, o \in freed(s)
        PROVE  Owner'[o] = Nobody
    <3>1. \A v \in Workers : o \notin reserved'[v]
      BY <1>3, <1>4, <1>5, <2>1 DEF IInv, ReservationOwned
    <3> QED
      BY <1>6, <3>1 DEF OwnerReserves
  <2>2. ASSUME NEW o \in Offsets, o \notin freed(s)
        PROVE  Owner'[o] = Owner[o]
    <3>1. \A v \in Workers : o \in reserved'[v] <=> o \in reserved[v]
      BY <1>4, <1>5, <2>2, Zenon
    <3> QED
      BY <1>6, <3>1 DEF OwnerReserves
  <2> QED
    BY <1>6, <2>1, <2>2, Zenon DEF OwnerReserves
<1>9. UNCHANGED Cached
  BY Zenon DEF Cancel, Cached
<1>10. Flight!Release(w, freed(s))
  BY <1>4, <1>7, <1>8, <1>9, Zenon DEF Flight!Release, Cached
<1>11. freed(s) \in SUBSET Offsets
  BY <1>3, <1>5, Zenon
<1> QED
  BY <1>10, <1>11, Zenon DEF Flight!Next

\* SharedWindowCache and the load loop of its users are a single-flight cache: an
\* offset has one owner at a time, becomes cached only when its owner publishes
\* it, and is given up by nobody but its owner.
THEOREM SingleFlightSafety == Spec => Flight!Spec
<1>1. Init => Flight!Init
  BY Zenon DEF Init, Flight!Init, Owner
<1>2. IInv /\ IInv' /\ [Next]_vars => [Flight!Next]_(Flight!vars)
  <2> SUFFICES ASSUME IInv, IInv', [Next]_vars
               PROVE  Flight!Next \/ UNCHANGED Flight!vars
    BY Zenon
  <2>1. ASSUME NEW w \in Workers,
               \/ StartLoad(w) \/ ReadSucceeds(w) \/ ReadFails(w) \/ WaitFor(w)
               \/ SpuriousWakeup(w) \/ Retain(w)
        PROVE  Flight!Next
    <3>1. UNCHANGED <<reserved, entries>>
      BY <2>1, Zenon DEF StartLoad, ReadSucceeds, ReadFails, WaitFor, SpuriousWakeup, Retain,
                  cacheVars
    <3> QED
      BY <3>1, EvictStep, Zenon
  <2>2. CASE StartResize \/ StoreCapacity
    BY <2>2, EvictStep, Zenon DEF StartResize, StoreCapacity, cacheVars, loadVars
  <2>3. CASE TrimShard
    BY <2>3, EvictStep, Zenon DEF TrimShard, EvictOver, loadVars
  <2>4. CASE UNCHANGED vars
    BY <2>4, Zenon DEF vars, cacheVars, loadVars, Flight!vars, Owner
  <2> QED
    BY <2>1, <2>2, <2>3, <2>4, LookupFlies, PublishFlies, CancelFlies, Zenon
    DEF Next, LoadStep, ResizeStep
<1> QED
  BY <1>1, <1>2, Invariance, PTL DEF Spec, Flight!Spec

-----------------------------------------------------------------------------
(* Accounting.  A recency order is an enumeration of a set of offsets; the  *)
(* bytes of disjoint sets of payloads add up.  The inductive invariant adds *)
(* to the other one that a resize trims a shard to the capacity it has just *)
(* stored.                                                                  *)

\* The order q names each offset of S once, and nothing else.
Enumerates(q, S) ==
  /\ q \in Seq(Offsets)
  /\ Oldest(q, Len(q)) = S
  /\ \A i, j \in 1 .. Len(q) : q[i] = q[j] => i = j

\* An enumeration is as long as its set has elements.
LEMMA EnumerationLength ==
  ASSUME NEW q, NEW S, Enumerates(q, S)
  PROVE  Len(q) = Cardinality(S)
<1>1. /\ Len(q) \in Nat
      /\ q \in [1 .. Len(q) -> Offsets]
      /\ \A o : o \in S <=> \E i \in 1 .. Len(q) : q[i] = o
      /\ \A i, j \in 1 .. Len(q) : q[i] = q[j] => i = j
  BY DEF Enumerates, Oldest
<1>2. q \in [1 .. Len(q) -> S]
  BY <1>1, Zenon
<1>3. q \in Bijection(1 .. Len(q), S)
  BY <1>1, <1>2, Zenon DEF Bijection, Injection, Surjection, IsInjective
<1>4. ExistsBijection(1 .. Len(q), S)
  BY <1>3, Zenon DEF ExistsBijection
<1>5. IsFiniteSet(1 .. Len(q)) /\ Cardinality(1 .. Len(q)) = Len(q)
  BY <1>1, FS_Interval, SMTT(30)
<1> QED
  BY <1>4, <1>5, FS_Bijection, Zenon

\* OffsetLru::remove takes an offset out of the enumeration.
LEMMA RemoveEnumerates ==
  ASSUME NEW q, NEW S, Enumerates(q, S), NEW o
  PROVE  Enumerates(LruRemove(q, o), S \ {o})
<1>1. /\ q \in Seq(Offsets)
      /\ Len(q) \in Nat
      /\ DOMAIN q = 1 .. Len(q)
      /\ \A j \in 1 .. Len(q) : q[j] \in Offsets
      /\ \A p : p \in S <=> \E j \in 1 .. Len(q) : q[j] = p
      /\ \A j, k \in 1 .. Len(q) : q[j] = q[k] => j = k
  BY DEF Enumerates, Oldest
<1>2. CASE ~ \E j \in 1 .. Len(q) : q[j] = o
  <2>1. LruRemove(q, o) = q /\ S \ {o} = S
    BY <1>1, <1>2, Zenon DEF LruRemove
  <2> QED
    BY <2>1, Zenon
<1>3. CASE \E j \in 1 .. Len(q) : q[j] = o
  <2> DEFINE i == CHOOSE j \in 1 .. Len(q) : q[j] = o
             a == SubSeq(q, 1, i - 1)
             b == SubSeq(q, i + 1, Len(q))
             r == a \o b
  <2>1. i \in 1 .. Len(q) /\ q[i] = o
    BY <1>3, Zenon
  <2>2. LruRemove(q, o) = r
    BY <1>1, <1>3, Zenon DEF LruRemove
  <2> HIDE DEF i
  <2>3. /\ a \in Seq(Offsets)
        /\ Len(a) = i - 1
        /\ \A j \in 1 .. i - 1 : a[j] = q[j]
    <3>1. i - 1 \in 0 .. Len(q) /\ 1 \in 1 .. Len(q) + 1
      BY <1>1, <2>1
    <3> QED
      BY <1>1, <2>1, <3>1, SubSeqIs
  <2>4. /\ b \in Seq(Offsets)
        /\ Len(b) = Len(q) - i
        /\ \A j \in 1 .. Len(q) - i : b[j] = q[i + j]
    <3>1. i + 1 \in 1 .. Len(q) + 1 /\ Len(q) \in 0 .. Len(q) /\ i + 1 <= Len(q) + 1
      BY <1>1, <2>1
    <3>2. /\ b \in Seq(Offsets)
          /\ Len(b) = Len(q) - (i + 1) + 1
          /\ \A j \in 1 .. Len(q) - (i + 1) + 1 : b[j] = q[j + (i + 1) - 1]
      <4>1. PICK m \in 1 .. Len(q) + 1, n \in 0 .. Len(q) : m = i + 1 /\ n = Len(q) /\ m <= n + 1
        BY <3>1, Zenon
      <4> QED
        BY <1>1, <4>1, SubSeqIs, SMTT(30)
    <3> HIDE DEF b
    <3> QED
      BY <1>1, <2>1, <3>2
  <2> HIDE DEF a, b
  <2>5. /\ r \in Seq(Offsets)
        /\ Len(r) = Len(q) - 1
        /\ \A j \in 1 .. Len(q) - 1 : r[j] = IF j < i THEN q[j] ELSE q[j + 1]
    <3>1. /\ r \in Seq(Offsets)
          /\ Len(r) = Len(a) + Len(b)
          /\ \A j \in 1 .. Len(a) + Len(b) :
               r[j] = IF j <= Len(a) THEN a[j] ELSE b[j - Len(a)]
      BY <2>3, <2>4
    <3>2. ASSUME NEW j \in 1 .. Len(q) - 1
          PROVE  r[j] = IF j < i THEN q[j] ELSE q[j + 1]
      <4>1. CASE j < i
        BY <1>1, <2>1, <2>3, <2>4, <3>1, <4>1
      <4>2. CASE ~(j < i)
        <5>1. j - (i - 1) \in 1 .. Len(q) - i /\ i + (j - (i - 1)) = j + 1
          BY <1>1, <2>1, <4>2
        <5>2. r[j] = b[j - (i - 1)]
          BY <1>1, <2>1, <2>3, <2>4, <3>1, <4>2
        <5>3. b[j - (i - 1)] = q[j + 1]
          BY <2>4, <5>1, Zenon
        <5> QED
          BY <4>2, <5>2, <5>3, Zenon
      <4> QED
        BY <4>1, <4>2, Zenon
    <3> QED
      BY <1>1, <2>1, <2>3, <2>4, <3>1, <3>2
  <2> HIDE DEF r
  <2>6. \A j, k \in 1 .. Len(r) : r[j] = r[k] => j = k
    <3> SUFFICES ASSUME NEW j \in 1 .. Len(r), NEW k \in 1 .. Len(r), r[j] = r[k]
                 PROVE  j = k
      BY Zenon
    <3> DEFINE at(k0) == IF k0 < i THEN k0 ELSE k0 + 1
    <3>1. at(j) \in 1 .. Len(q) /\ at(k) \in 1 .. Len(q)
      BY <1>1, <2>1, <2>5
    <3>2. r[j] = q[at(j)] /\ r[k] = q[at(k)]
      BY <2>5, Zenon
    <3>3. at(j) = at(k)
      BY <1>1, <3>1, <3>2, Zenon
    <3> QED
      BY <2>1, <2>5, <3>3
  <2>7. Oldest(r, Len(r)) = S \ {o}
    <3>1. ASSUME NEW j \in 1 .. Len(r)
          PROVE  r[j] \in S \ {o}
      BY <1>1, <2>1, <2>5
    <3>2. ASSUME NEW p \in S \ {o}
          PROVE  \E j \in 1 .. Len(r) : r[j] = p
      <4>1. PICK k \in 1 .. Len(q) : q[k] = p
        BY <1>1, Zenon
      <4>2. k # i
        BY <2>1, <4>1, Zenon
      <4>3. CASE k < i
        BY <1>1, <2>1, <2>5, <4>1, <4>3
      <4>4. CASE k > i
        <5>1. k - 1 \in 1 .. Len(r) /\ r[k - 1] = q[k]
          BY <1>1, <2>1, <2>5, <4>4
        <5> QED
          BY <4>1, <5>1, Zenon
      <4> QED
        BY <2>1, <4>2, <4>3, <4>4
    <3> QED
      BY <3>1, <3>2, Zenon DEF Oldest
  <2> QED
    BY <2>2, <2>5, <2>6, <2>7, Zenon DEF Enumerates
<1> QED
  BY <1>2, <1>3, Zenon

\* OffsetLru::touch adds an offset to the enumeration, or moves it.
LEMMA TouchEnumerates ==
  ASSUME NEW q, NEW S, Enumerates(q, S), NEW o \in Offsets
  PROVE  Enumerates(LruTouch(q, o), S \cup {o})
<1> DEFINE r == LruRemove(q, o)
           t == LruTouch(q, o)
<1>1. Enumerates(r, S \ {o})
  BY RemoveEnumerates, Zenon
<1>2. /\ r \in Seq(Offsets)
      /\ Len(r) \in Nat
      /\ \A p : p \in S \ {o} <=> \E j \in 1 .. Len(r) : r[j] = p
      /\ \A j, k \in 1 .. Len(r) : r[j] = r[k] => j = k
  BY <1>1 DEF Enumerates, Oldest
<1>3. t = Append(r, o)
  BY Zenon DEF LruTouch
<1> HIDE DEF r, t
<1>4. /\ t \in Seq(Offsets)
      /\ Len(t) = Len(r) + 1
      /\ \A j \in 1 .. Len(r) : t[j] = r[j]
      /\ t[Len(r) + 1] = o
  BY <1>2, <1>3
<1>5. \A j, k \in 1 .. Len(t) : t[j] = t[k] => j = k
  <2>1. \A j \in 1 .. Len(r) : t[j] # o
    BY <1>2, <1>4, Zenon
  <2> SUFFICES ASSUME NEW j \in 1 .. Len(t), NEW k \in 1 .. Len(t), t[j] = t[k]
               PROVE  j = k
    BY Zenon
  <2>2. j \in 1 .. Len(r) \/ j = Len(r) + 1
    BY <1>2, <1>4
  <2>3. k \in 1 .. Len(r) \/ k = Len(r) + 1
    BY <1>2, <1>4
  <2> QED
    BY <1>2, <1>4, <2>1, <2>2, <2>3, Zenon
<1>6. Oldest(t, Len(t)) = S \cup {o}
  <2>1. ASSUME NEW j \in 1 .. Len(t)
        PROVE  t[j] \in S \cup {o}
    <3>1. j \in 1 .. Len(r) \/ j = Len(r) + 1
      BY <1>2, <1>4
    <3> QED
      BY <1>2, <1>4, <3>1, Zenon
  <2>2. ASSUME NEW p \in S \cup {o}
        PROVE  \E j \in 1 .. Len(t) : t[j] = p
    <3>1. CASE p = o
      BY <1>2, <1>4, <3>1
    <3>2. CASE p # o
      BY <1>2, <1>4, <3>2
    <3> QED
      BY <3>1, <3>2, Zenon
  <2> QED
    BY <2>1, <2>2, Zenon DEF Oldest
<1>7. Enumerates(t, S \cup {o})
  BY <1>4, <1>5, <1>6, Zenon DEF Enumerates
<1> QED
  BY <1>7, Zenon DEF t

\* What the eviction loop leaves enumerates what it did not pop.
LEMMA PopEnumerates ==
  ASSUME NEW q, NEW S, Enumerates(q, S), NEW n \in 0 .. Len(q)
  PROVE  /\ Enumerates(SubSeq(q, n + 1, Len(q)), S \ Oldest(q, n))
         /\ Oldest(q, n) \in SUBSET S
<1> DEFINE r == SubSeq(q, n + 1, Len(q))
<1>1. /\ q \in Seq(Offsets)
      /\ Len(q) \in Nat
      /\ \A j \in 1 .. Len(q) : q[j] \in Offsets
      /\ \A p : p \in S <=> \E j \in 1 .. Len(q) : q[j] = p
      /\ \A j, k \in 1 .. Len(q) : q[j] = q[k] => j = k
  BY DEF Enumerates, Oldest
<1>2. \A p : p \in Oldest(q, n) <=> \E j \in 1 .. n : q[j] = p
  BY Zenon DEF Oldest
<1>3. /\ r \in Seq(Offsets)
      /\ Len(r) = Len(q) - n
      /\ \A j \in 1 .. Len(q) - n : r[j] = q[n + j]
  <2>1. n + 1 \in 1 .. Len(q) + 1 /\ Len(q) \in 0 .. Len(q) /\ n + 1 <= Len(q) + 1
    BY <1>1
  <2>2. /\ r \in Seq(Offsets)
        /\ Len(r) = Len(q) - (n + 1) + 1
        /\ \A j \in 1 .. Len(q) - (n + 1) + 1 : r[j] = q[j + (n + 1) - 1]
    <3>1. PICK m \in 1 .. Len(q) + 1, k \in 0 .. Len(q) : m = n + 1 /\ k = Len(q) /\ m <= k + 1
      BY <2>1, Zenon
    <3> QED
      BY <1>1, <3>1, SubSeqIs
  <2> QED
    BY <1>1, <2>2
<1> HIDE DEF r
<1>4. \A j, k \in 1 .. Len(r) : r[j] = r[k] => j = k
  <2> SUFFICES ASSUME NEW j \in 1 .. Len(r), NEW k \in 1 .. Len(r), r[j] = r[k]
               PROVE  j = k
    BY Zenon
  <2> QED
    BY <1>1, <1>3
<1>5. Oldest(r, Len(r)) = S \ Oldest(q, n)
  <2>1. ASSUME NEW j \in 1 .. Len(r)
        PROVE  r[j] \in S \ Oldest(q, n)
    <3>1. n + j \in 1 .. Len(q) /\ r[j] = q[n + j]
      BY <1>1, <1>3
    <3>2. ASSUME NEW k \in 1 .. n, q[k] = r[j]
          PROVE  FALSE
      BY <1>1, <3>1, <3>2
    <3> QED
      BY <1>1, <1>2, <3>1, <3>2, Zenon
  <2>2. ASSUME NEW p \in S \ Oldest(q, n)
        PROVE  \E j \in 1 .. Len(r) : r[j] = p
    <3>1. PICK k \in 1 .. Len(q) : q[k] = p
      BY <1>1, Zenon
    <3>2. k > n
      BY <1>1, <1>2, <3>1
    <3>3. k - n \in 1 .. Len(r) /\ r[k - n] = q[k]
      BY <1>1, <1>3, <3>2
    <3> QED
      BY <3>1, <3>3, Zenon
  <2> QED
    BY <2>1, <2>2, Zenon DEF Oldest
<1>6. Enumerates(r, S \ Oldest(q, n))
  BY <1>3, <1>4, <1>5, Zenon DEF Enumerates
<1> QED
  BY <1>1, <1>2, <1>6 DEF r

\* The bytes of two disjoint sets of payloads add up.
LEMMA BytesAdd ==
  ASSUME NEW e \in [Offsets -> Payloads], NEW S \in SUBSET Offsets,
         NEW T \in SUBSET Offsets, S \cap T = {}
  PROVE  Bytes(e, S \cup T) = Bytes(e, S) + Bytes(e, T)
<1> DEFINE A == Footprint(e, S)
           B == Footprint(e, T)
<1>1. IsFiniteSet(A) /\ IsFiniteSet(B)
  BY BytesType, Zenon
<1>2. Footprint(e, S \cup T) = A \cup B
  BY Zenon DEF Footprint
<1>3. A \cap B = {}
  BY DEF Footprint
<1> HIDE DEF A, B
<1>4. Cardinality(A \cup B) = Cardinality(A) + Cardinality(B) - Cardinality({})
  BY <1>1, <1>3, FS_Union
<1>5. Cardinality(A) \in Nat /\ Cardinality(B) \in Nat /\ Cardinality({}) = 0
  BY <1>1, FS_CardinalityType, FS_EmptySet, Zenon
<1>6. /\ Bytes(e, S \cup T) = Cardinality(A \cup B)
      /\ Bytes(e, S) = Cardinality(A)
      /\ Bytes(e, T) = Cardinality(B)
  BY <1>2, Zenon DEF Bytes, A, B
<1> QED
  BY <1>4, <1>5, <1>6

\* The bytes of one payload are its capacity.
LEMMA BytesOfOne ==
  ASSUME NEW e \in [Offsets -> Payloads], NEW o \in Offsets
  PROVE  Bytes(e, {o}) = e[o].capacity
<1> DEFINE c == e[o].capacity
           F == {o} \X (1 .. c)
<1>1. c \in Nat
  BY Zenon DEF Payloads
<1>2. Footprint(e, {o}) = F
  BY Zenon DEF Footprint
<1> HIDE DEF c
<1>3. IsFiniteSet(1 .. c) /\ Cardinality(1 .. c) = c
  BY <1>1, FS_Interval
<1>4. IsFiniteSet({o}) /\ Cardinality({o}) = 1
  BY FS_Singleton, Zenon
<1>5. Cardinality(F) = Cardinality({o}) * Cardinality(1 .. c)
  BY <1>3, <1>4, FS_Product, Zenon
<1> HIDE DEF F
<1>6. Cardinality(F) = c
  BY <1>1, <1>3, <1>4, <1>5
<1> QED
  BY <1>2, <1>6, Zenon DEF Bytes, c

\* The bytes depend on the payloads of the set alone.
LEMMA BytesLocal ==
  ASSUME NEW e, NEW f, NEW S, \A o \in S : e[o] = f[o]
  PROVE  Bytes(e, S) = Bytes(f, S)
<1>1. Footprint(e, S) = Footprint(f, S)
  BY Zenon DEF Footprint
<1> QED
  BY <1>1, Zenon DEF Bytes

\* The offsets of shard s that have a payload under e.
HeldIn(e, s) == { o \in Offsets : ShardOf[o] = s /\ e[o] # Absent }

\* Shard s, with the order q, the payloads e and the count bytes, is in step.
InStep(s, q, e, bytes) ==
  /\ Enumerates(q, HeldIn(e, s))
  /\ bytes = Bytes(e, HeldIn(e, s))

\* The eviction loop leaves its shard in step, and within the limit.
LEMMA EvictInStep ==
  ASSUME recency \in [Shards -> Seq(Offsets)], retained \in [Shards -> Nat],
         NEW s \in Shards, NEW q, NEW e \in [Offsets -> Payloads], NEW bytes,
         NEW limit \in Nat, InStep(s, q, e, bytes),
         EvictOver(s, q, e, bytes, limit)
  PROVE  /\ InStep(s, recency'[s], entries', retained'[s])
         /\ retained'[s] <= limit
         /\ \A t \in Shards : t # s => /\ recency'[t] = recency[t]
                                       /\ retained'[t] = retained[t]
         /\ \A o \in Offsets : ShardOf[o] # s => entries'[o] = e[o]
<1> DEFINE H == HeldIn(e, s)
<1>1. PICK n \in 0 .. Len(q) :
        /\ Pops(q, e, bytes, limit, n)
        /\ recency'  = [recency EXCEPT ![s] = SubSeq(q, n + 1, Len(q))]
        /\ entries'  = [o \in Offsets |->
                          IF o \in Oldest(q, n) THEN Absent ELSE e[o]]
        /\ retained' = [retained EXCEPT
                          ![s] = SaturatingSub(bytes, Bytes(e, Oldest(q, n)))]
  BY Zenon DEF EvictOver
<1> DEFINE P == Oldest(q, n)
<1>2. /\ Enumerates(q, H)
      /\ bytes = Bytes(e, H)
      /\ H \in SUBSET Offsets
  BY Zenon DEF InStep, HeldIn
<1>3. Enumerates(SubSeq(q, n + 1, Len(q)), H \ P) /\ P \in SUBSET H
  BY <1>2, PopEnumerates, Zenon
<1>4. HeldIn(entries', s) = H \ P
  BY <1>1, Zenon DEF HeldIn
<1>5. \A o \in Offsets : ShardOf[o] # s => entries'[o] = e[o]
  BY <1>1, <1>3, Zenon DEF HeldIn
<1>6. Bytes(entries', H \ P) = Bytes(e, H \ P)
  <2>1. \A o \in H \ P : entries'[o] = e[o]
    BY <1>1, <1>2, Zenon
  <2> QED
    BY <2>1, BytesLocal, ZenonT(30)
<1> HIDE DEF H, P
<1>7. /\ Bytes(e, H) = Bytes(e, P) + Bytes(e, H \ P)
      /\ Bytes(e, P) \in Nat
      /\ Bytes(e, H \ P) \in Nat
  <2>1. P \cup (H \ P) = H /\ P \cap (H \ P) = {}
    BY <1>3, Zenon
  <2>2. P \in SUBSET Offsets /\ H \ P \in SUBSET Offsets
    BY <1>2, <1>3, Zenon
  <2>3. Bytes(e, P \cup (H \ P)) = Bytes(e, P) + Bytes(e, H \ P)
    BY <2>1, <2>2, BytesAdd, Zenon
  <2> QED
    BY <2>1, <2>2, <2>3, BytesType, Zenon
<1>8. SaturatingSub(bytes, Bytes(e, P)) = Bytes(e, H \ P)
  BY <1>2, <1>7 DEF SaturatingSub
<1>9. /\ recency'[s] = SubSeq(q, n + 1, Len(q))
      /\ retained'[s] = Bytes(e, H \ P)
      /\ \A t \in Shards : t # s => /\ recency'[t] = recency[t]
                                    /\ retained'[t] = retained[t]
  BY <1>1, <1>8, Zenon DEF P
<1>10. Bytes(e, H \ P) <= limit
  <2>1. CASE SaturatingSub(bytes, Bytes(e, P)) <= limit
    BY <1>8, <2>1, Zenon
  <2>2. CASE n = Len(q)
    <3>1. H \ P = {}
      BY <1>2, <2>2, Zenon DEF Enumerates, P
    <3>2. Footprint(e, {}) = {}
      BY Zenon DEF Footprint
    <3>3. Bytes(e, H \ P) = 0
      BY <3>1, <3>2, FS_EmptySet, Zenon DEF Bytes
    <3> QED
      BY <3>3
  <2> QED
    BY <1>1, <2>1, <2>2, Zenon DEF Pops, P
<1>11. InStep(s, recency'[s], entries', retained'[s])
  BY <1>3, <1>4, <1>6, <1>9, Zenon DEF InStep
<1> QED
  BY <1>5, <1>9, <1>10, <1>11, Zenon

\* Every shard is in step; it is over its capacity only while a resize is about to
\* trim it, and a resize trims to the capacity that it has stored.
Accounts ==
  /\ \A s \in Shards : InStep(s, recency[s], entries, retained[s])
  /\ \A s \in Shards : \/ retained[s] <= capacity[s]
                       \/ resize.phase = "trim" /\ resize.shard = s
  /\ resize.phase = "trim"
       => capacity[resize.shard] = ShardCapacity(resize.total, resize.shard)

\* Accounts says in a form that is preserved what AccountingExact says.
LEMMA AccountsExact ==
  ASSUME IInv, Accounts
  PROVE  AccountingExact
<1> SUFFICES ASSUME NEW s \in Shards
             PROVE  /\ Oldest(recency[s], Len(recency[s])) = HeldIn(entries, s)
                    /\ Len(recency[s]) = Cardinality(HeldIn(entries, s))
                    /\ retained[s] = Bytes(entries, HeldIn(entries, s))
                    /\ retained[s] > capacity[s]
                         => resize.phase = "trim" /\ resize.shard = s
  BY Zenon DEF AccountingExact, HeldIn
<1>1. InStep(s, recency[s], entries, retained[s])
  BY Zenon DEF Accounts
<1>2. Len(recency[s]) = Cardinality(HeldIn(entries, s))
  BY <1>1, EnumerationLength, Zenon DEF InStep
<1>3. retained[s] > capacity[s] => resize.phase = "trim" /\ resize.shard = s
  BY DEF Accounts, IInv, TypeOK
<1> QED
  BY <1>1, <1>2, <1>3, Zenon DEF InStep, Enumerates

\* A step that leaves the cache, its capacities and the resize alone.
LEMMA AccountsKept ==
  ASSUME Accounts, UNCHANGED <<entries, recency, retained, capacity, resize>>
  PROVE  Accounts'
BY Zenon DEF Accounts, InStep, HeldIn

\* A payload of the length a worker asked for is there.
LEMMA MatchesHeld ==
  ASSUME NEW w, NEW o, Matches(w, o), PlannedLength[w][o] # 0
  PROVE  entries[o] # Absent
<1>1. Absent.length = 0
  BY Zenon DEF Absent
<1> QED
  BY <1>1, Zenon DEF Matches

\* A step that moves a cached offset to the end of its order.
LEMMA AccountsTouch ==
  ASSUME IInv, Accounts, NEW o \in Offsets, entries[o] # Absent,
         recency' = [recency EXCEPT ![ShardOf[o]] = LruTouch(@, o)],
         UNCHANGED <<entries, retained, capacity, resize>>
  PROVE  Accounts'
<1>1. ShardOf[o] \in Shards /\ recency \in [Shards -> Seq(Offsets)]
  BY ConstantsAssumption, Zenon DEF IInv, TypeOK
<1>2. ASSUME NEW s \in Shards
      PROVE  InStep(s, recency'[s], entries', retained'[s])
  <2>1. Enumerates(recency[s], HeldIn(entries, s))
        /\ retained[s] = Bytes(entries, HeldIn(entries, s))
    BY Zenon DEF Accounts, InStep
  <2>2. CASE s = ShardOf[o]
    <3>1. HeldIn(entries, s) \cup {o} = HeldIn(entries, s)
      BY <2>2, Zenon DEF HeldIn
    <3>2. recency'[s] = LruTouch(recency[s], o)
      BY <1>1, <2>2, Zenon
    <3>3. Enumerates(LruTouch(recency[s], o), HeldIn(entries, s) \cup {o})
      BY <2>1, TouchEnumerates, Zenon
    <3> QED
      BY <2>1, <3>1, <3>2, <3>3, Zenon DEF InStep
  <2>3. CASE s # ShardOf[o]
    BY <1>1, <2>1, <2>3, Zenon DEF InStep
  <2> QED
    BY <2>2, <2>3, Zenon
<1> QED
  BY <1>2, Zenon DEF Accounts

\* A step that drops the payload of an offset, if it has one.
LEMMA AccountsDrop ==
  ASSUME IInv, Accounts, NEW o \in Offsets, DropMismatch(o),
         UNCHANGED <<capacity, resize>>
  PROVE  Accounts'
<1> DEFINE z == ShardOf[o]
           H == HeldIn(entries, z)
<1>1. /\ z \in Shards
      /\ recency \in [Shards -> Seq(Offsets)]
      /\ retained \in [Shards -> Nat]
      /\ entries \in [Offsets -> Payloads]
      /\ capacity \in [Shards -> Nat]
  BY ConstantsAssumption, Zenon DEF IInv, TypeOK
<1>2. /\ Enumerates(recency[z], H)
      /\ retained[z] = Bytes(entries, H)
  BY <1>1, Zenon DEF Accounts, InStep
<1>3. /\ entries' = [entries EXCEPT ![o] = Absent]
      /\ recency'[z] = IF entries[o] = Absent THEN recency[z]
                                              ELSE LruRemove(recency[z], o)
      /\ retained'[z] = SaturatingSub(retained[z], entries[o].capacity)
      /\ \A s \in Shards : s # z => /\ recency'[s] = recency[s]
                                    /\ retained'[s] = retained[s]
  BY <1>1, Zenon DEF DropMismatch, Charge
<1>4. HeldIn(entries', z) = H \ {o}
  BY <1>1, <1>3, Zenon DEF HeldIn
<1>5. Bytes(entries', H \ {o}) = Bytes(entries, H \ {o})
  <2>1. \A p \in H \ {o} : entries'[p] = entries[p]
    BY <1>1, <1>3, Zenon DEF HeldIn
  <2> QED
    BY <2>1, BytesLocal
<1>6. H \in SUBSET Offsets /\ (o \in H <=> entries[o] # Absent)
  BY Zenon DEF HeldIn
<1> HIDE DEF H
<1>7. /\ Enumerates(recency'[z], H \ {o})
      /\ retained'[z] = Bytes(entries, H \ {o})
      /\ retained'[z] <= retained[z]
  <2>1. CASE entries[o] = Absent
    <3>1. H \ {o} = H /\ recency'[z] = recency[z] /\ entries[o].capacity = 0
      <4>1. H \ {o} = H
        BY <1>6, <2>1, Zenon
      <4>2. recency'[z] = recency[z]
        BY <1>3, <2>1, Zenon
      <4>3. entries[o].capacity = 0
        BY <2>1 DEF Absent
      <4> QED
        BY <4>1, <4>2, <4>3, Zenon
    <3>2. retained[z] \in Nat
      BY <1>1, Zenon
    <3>3. retained'[z] = retained[z]
      <4>1. retained'[z] = SaturatingSub(retained[z], 0)
        BY <1>3, <3>1, Zenon
      <4>2. SaturatingSub(retained[z], 0) = retained[z]
        BY <3>2 DEF SaturatingSub
      <4> QED
        BY <4>1, <4>2, Zenon
    <3>4. retained'[z] <= retained[z]
      BY <3>2, <3>3
    <3>5. retained'[z] = Bytes(entries, H \ {o})
      BY <1>2, <3>1, <3>3, Zenon
    <3> QED
      BY <1>2, <3>1, <3>4, <3>5, Zenon
  <2>2. CASE entries[o] # Absent
    <3>1. Enumerates(recency'[z], H \ {o})
      BY <1>2, <1>3, <2>2, RemoveEnumerates
    <3>2. Bytes(entries, H) = Bytes(entries, H \ {o}) + entries[o].capacity
      <4>1. (H \ {o}) \cup {o} = H /\ (H \ {o}) \cap {o} = {}
        BY <1>6, <2>2, Zenon
      <4>2. Bytes(entries, (H \ {o}) \cup {o})
              = Bytes(entries, H \ {o}) + Bytes(entries, {o})
        BY <1>1, <1>6, <4>1, BytesAdd, Zenon
      <4> QED
        BY <1>1, <4>1, <4>2, BytesOfOne, Zenon
    <3>3. Bytes(entries, H \ {o}) \in Nat /\ entries[o].capacity \in Nat
      <4>1. H \ {o} \in SUBSET Offsets
        BY <1>6, Zenon
      <4> QED
        BY <1>1, <4>1, BytesType, Zenon DEF Payloads
    <3>4. retained'[z] = Bytes(entries, H \ {o}) /\ retained'[z] <= retained[z]
      BY <1>2, <1>3, <3>2, <3>3 DEF SaturatingSub
    <3> QED
      BY <3>1, <3>4, Zenon
  <2> QED
    BY <2>1, <2>2, Zenon
<1>8. ASSUME NEW s \in Shards
      PROVE  InStep(s, recency'[s], entries', retained'[s])
  <2>1. CASE s = z
    BY <1>4, <1>5, <1>7, <2>1, Zenon DEF InStep
  <2>2. CASE s # z
    <3>1. HeldIn(entries', s) = HeldIn(entries, s)
      BY <1>1, <1>3, <2>2, Zenon DEF HeldIn
    <3>2. \A p \in HeldIn(entries, s) : entries'[p] = entries[p]
      BY <1>1, <1>3, <2>2, Zenon DEF HeldIn
    <3>3. Bytes(entries', HeldIn(entries, s)) = Bytes(entries, HeldIn(entries, s))
      BY <3>2, BytesLocal, Zenon
    <3>4. recency'[s] = recency[s] /\ retained'[s] = retained[s]
      BY <1>3, <2>2, Zenon
    <3>5. InStep(s, recency[s], entries, retained[s])
      BY Zenon DEF Accounts
    <3> QED
      BY <3>1, <3>3, <3>4, <3>5, Zenon DEF InStep
  <2> QED
    BY <2>1, <2>2, Zenon
<1>9. ASSUME NEW s \in Shards
      PROVE  \/ retained'[s] <= capacity'[s]
             \/ resize'.phase = "trim" /\ resize'.shard = s
  <2>1. retained'[s] \in Nat /\ retained[s] \in Nat /\ capacity[s] \in Nat
    <3>1. retained' \in [Shards -> Nat]
      BY DropMismatchType, Zenon DEF IInv
    <3> QED
      BY <1>1, <3>1, Zenon DEF IInv, TypeOK
  <2>2. retained'[s] <= retained[s]
    <3>1. CASE s = z
      BY <1>7, <3>1, Zenon
    <3>2. CASE s # z
      BY <1>3, <2>1, <3>2
    <3> QED
      BY <3>1, <3>2, Zenon
  <2>3. capacity'[s] = capacity[s] /\ resize' = resize
    BY <1>1, Zenon
  <2>4. \/ retained[s] <= capacity[s]
        \/ resize.phase = "trim" /\ resize.shard = s
    BY Zenon DEF Accounts
  <2> QED
    BY <2>1, <2>2, <2>3, <2>4
<1> QED
  BY <1>8, <1>9, Zenon DEF Accounts

\* Publishing: the offset was not cached, so that its payload is counted once, and
\* the loop ends within the capacity of the shard.
LEMMA AccountsPublish ==
  ASSUME IInv, Accounts, NEW w \in Workers, Publish(w)
  PROVE  Accounts'
<1>1. PICK o \in reserved[w], slack \in Slack :
        LET length  == PlannedLength[w][o]
            payload == [length |-> length, capacity |-> length + slack]
        IN  EvictOver(ShardOf[o], LruTouch(recency[ShardOf[o]], o),
                      [entries EXCEPT ![o] = payload],
                      SaturatingSub(retained[ShardOf[o]], Charge(entries[o]))
                        + Charge(payload),
                      capacity[ShardOf[o]])
  BY Zenon DEF Publish
<1> DEFINE z == ShardOf[o]
           c == PlannedLength[w][o] + slack
           payload == [length |-> PlannedLength[w][o], capacity |-> c]
           e == [entries EXCEPT ![o] = payload]
           H == HeldIn(entries, z)
<1>2. /\ o \in Offsets
      /\ z \in Shards
      /\ PlannedLength[w][o] \in Nat \ {0}
      /\ slack \in Nat
      /\ recency \in [Shards -> Seq(Offsets)]
      /\ retained \in [Shards -> Nat]
      /\ entries \in [Offsets -> Payloads]
      /\ capacity \in [Shards -> Nat]
  BY ConstantsAssumption DEF IInv, TypeOK
<1>3. entries[o] = Absent
  BY Zenon DEF IInv, ReservationOwned, NeverCachedWhileLoading
<1>4. payload \in Payloads /\ payload # Absent
  <2>1. c \in Nat
    BY <1>2
  <2>2. payload.length # 0
    BY <1>2, Zenon
  <2>3. payload \in Payloads
    BY <1>2, <2>1, Zenon DEF Payloads
  <2>4. Absent.length = 0
    BY Zenon DEF Absent
  <2> QED
    BY <2>2, <2>3, <2>4, Zenon
<1>5. UNCHANGED <<capacity, resize>>
  BY Zenon DEF Publish
<1>6. SaturatingSub(retained[z], Charge(entries[o])) + Charge(payload) = retained[z] + c
  <2>1. Charge(entries[o]) = 0
    BY <1>3 DEF Charge, Absent
  <2>2. Charge(payload) = c
    BY Zenon DEF Charge
  <2>3. retained[z] \in Nat
    BY <1>2, Zenon
  <2>4. SaturatingSub(retained[z], 0) = retained[z]
    BY <2>3 DEF SaturatingSub
  <2> QED
    BY <2>1, <2>2, <2>4, Zenon
<1>7. c \in Nat /\ payload.capacity = c
  BY <1>2
<1> HIDE DEF c, payload
<1>8. /\ e \in [Offsets -> Payloads]
      /\ e[o] = payload
      /\ \A p \in Offsets : p # o => e[p] = entries[p]
  BY <1>2, <1>4, Zenon
<1> HIDE DEF e
<1>9. HeldIn(e, z) = H \cup {o} /\ o \notin H /\ H \in SUBSET Offsets
  BY <1>2, <1>3, <1>4, <1>8, Zenon DEF HeldIn
<1>10. Bytes(e, H) = Bytes(entries, H)
  <2>1. \A p \in H : e[p] = entries[p]
    BY <1>8, <1>9, Zenon
  <2> QED
    BY <2>1, BytesLocal, Zenon
<1>11. /\ Enumerates(recency[z], H)
       /\ retained[z] = Bytes(entries, H)
  BY <1>2, Zenon DEF Accounts, InStep
<1> HIDE DEF H
<1>12. Bytes(e, H \cup {o}) = retained[z] + c
  <2>1. Bytes(e, H \cup {o}) = Bytes(e, H) + Bytes(e, {o})
    <3>1. {o} \in SUBSET Offsets /\ H \cap {o} = {}
      BY <1>2, <1>9, Zenon
    <3> QED
      BY <1>8, <1>9, <3>1, BytesAdd, Zenon
  <2>2. Bytes(e, {o}) = c
    BY <1>2, <1>7, <1>8, BytesOfOne, Zenon
  <2> QED
    BY <1>10, <1>11, <2>1, <2>2, Zenon
<1>13. InStep(z, LruTouch(recency[z], o), e, retained[z] + c)
  <2>1. Enumerates(LruTouch(recency[z], o), H \cup {o})
    BY <1>2, <1>9, <1>11, TouchEnumerates, Zenon
  <2> QED
    BY <1>9, <1>12, <2>1, Zenon DEF InStep
<1>14. EvictOver(z, LruTouch(recency[z], o), e, retained[z] + c, capacity[z])
  BY <1>1, <1>6, Zenon DEF e, payload, c
<1>15. /\ InStep(z, recency'[z], entries', retained'[z])
       /\ retained'[z] <= capacity[z]
       /\ \A t \in Shards : t # z => /\ recency'[t] = recency[t]
                                     /\ retained'[t] = retained[t]
       /\ \A p \in Offsets : ShardOf[p] # z => entries'[p] = e[p]
  <2>1. capacity[z] \in Nat
    BY <1>2, Zenon
  <2> HIDE DEF z
  <2> QED
    BY <1>2, <1>8, <1>13, <1>14, <2>1, EvictInStep, Zenon
<1>16. ASSUME NEW s \in Shards, s # z
       PROVE  InStep(s, recency'[s], entries', retained'[s])
  <2>1. HeldIn(entries', s) = HeldIn(entries, s)
    BY <1>8, <1>15, <1>16, Zenon DEF HeldIn
  <2>2. \A p \in HeldIn(entries, s) : entries'[p] = entries[p]
    BY <1>8, <1>15, <1>16, Zenon DEF HeldIn
  <2>3. Bytes(entries', HeldIn(entries, s)) = Bytes(entries, HeldIn(entries, s))
    BY <2>2, BytesLocal, Zenon
  <2>4. recency'[s] = recency[s] /\ retained'[s] = retained[s]
    BY <1>15, <1>16, Zenon
  <2>5. InStep(s, recency[s], entries, retained[s])
    BY Zenon DEF Accounts
  <2> QED
    BY <2>1, <2>3, <2>4, <2>5, Zenon DEF InStep
<1> QED
  BY <1>5, <1>15, <1>16, Zenon DEF Accounts

\* A resize: storing a capacity can leave one shard over it, the one that the next
\* step of the call trims.
LEMMA AccountsResize ==
  ASSUME IInv, Accounts, StartResize \/ StoreCapacity \/ TrimShard
  PROVE  Accounts'
<1>1. /\ recency \in [Shards -> Seq(Offsets)]
      /\ retained \in [Shards -> Nat]
      /\ entries \in [Offsets -> Payloads]
      /\ capacity \in [Shards -> Nat]
      /\ resize \in [phase : {"idle", "store", "trim"}, total : Nat, shard : Shards]
  BY Zenon DEF IInv, TypeOK
<1>2. CASE StartResize
  <2>1. resize.phase = "idle" /\ resize'.phase = "store"
    BY <1>2 DEF StartResize
  <2>2. UNCHANGED <<entries, recency, retained, capacity>>
    BY <1>2, Zenon DEF StartResize, cacheVars
  <2> QED
    BY <2>1, <2>2, Zenon DEF Accounts, InStep, HeldIn
<1>3. CASE StoreCapacity
  <2>1. /\ resize.phase = "store"
        /\ capacity' = [capacity EXCEPT
                          ![resize.shard] = ShardCapacity(resize.total, resize.shard)]
        /\ resize'.phase = "trim"
        /\ resize'.shard = resize.shard
        /\ resize'.total = resize.total
    BY <1>1, <1>3, Zenon DEF StoreCapacity
  <2>2. UNCHANGED <<entries, recency, retained>>
    BY <1>3, Zenon DEF StoreCapacity, cacheVars
  <2>3. \A s \in Shards : InStep(s, recency'[s], entries', retained'[s])
    BY <2>2, Zenon DEF Accounts, InStep, HeldIn
  <2>4. \A s \in Shards : \/ retained'[s] <= capacity'[s]
                          \/ resize'.phase = "trim" /\ resize'.shard = s
    BY <1>1, <2>1, <2>2, Zenon DEF Accounts
  <2>5. capacity'[resize'.shard] = ShardCapacity(resize'.total, resize'.shard)
    BY <1>1, <2>1, Zenon
  <2> QED
    BY <2>3, <2>4, <2>5, Zenon DEF Accounts
<1>4. CASE TrimShard
  <2> DEFINE z == resize.shard
  <2>1. /\ resize.phase = "trim"
        /\ EvictOver(z, recency[z], entries, retained[z],
                     ShardCapacity(resize.total, z))
        /\ resize' = NextShard(z)
        /\ UNCHANGED capacity
    BY <1>4, Zenon DEF TrimShard
  <2>2. z \in Shards /\ resize'.phase # "trim"
    BY <1>1, <2>1, Zenon DEF NextShard
  <2>3. capacity[z] = ShardCapacity(resize.total, z) /\ capacity[z] \in Nat
    BY <1>1, <2>1, <2>2, Zenon DEF Accounts
  <2>4. InStep(z, recency[z], entries, retained[z])
    BY <2>2, Zenon DEF Accounts
  <2>5. EvictOver(z, recency[z], entries, retained[z], capacity[z])
    BY <2>1, <2>3, Zenon
  <2>6. /\ InStep(z, recency'[z], entries', retained'[z])
        /\ retained'[z] <= capacity[z]
        /\ \A t \in Shards : t # z => /\ recency'[t] = recency[t]
                                      /\ retained'[t] = retained[t]
        /\ \A p \in Offsets : ShardOf[p] # z => entries'[p] = entries[p]
    <3> HIDE DEF z
    <3> QED
      BY <1>1, <2>2, <2>3, <2>4, <2>5, EvictInStep, Zenon
  <2>7. ASSUME NEW s \in Shards, s # z
        PROVE  /\ InStep(s, recency'[s], entries', retained'[s])
               /\ retained'[s] <= capacity[s]
    <3>1. HeldIn(entries', s) = HeldIn(entries, s)
      BY <2>6, <2>7, Zenon DEF HeldIn
    <3>2. \A p \in HeldIn(entries, s) : entries'[p] = entries[p]
      BY <2>6, <2>7, Zenon DEF HeldIn
    <3>3. Bytes(entries', HeldIn(entries, s)) = Bytes(entries, HeldIn(entries, s))
      BY <3>2, BytesLocal, Zenon
    <3>4. InStep(s, recency[s], entries, retained[s]) /\ retained[s] <= capacity[s]
      BY <2>7, Zenon DEF Accounts
    <3> QED
      BY <2>6, <2>7, <3>1, <3>3, <3>4, Zenon DEF InStep
  <2> HIDE DEF z
  <2>8. \A s \in Shards : /\ InStep(s, recency'[s], entries', retained'[s])
                          /\ retained'[s] <= capacity[s]
    BY <2>6, <2>7, Zenon
  <2> QED
    BY <2>1, <2>2, <2>8, Zenon DEF Accounts
<1> QED
  BY <1>2, <1>3, <1>4, Zenon

\* The cache starts empty.
LEMMA AccountsInit == Init => Accounts
<1> SUFFICES ASSUME Init PROVE Accounts
  BY Zenon
<1>1. capacity \in [Shards -> Nat]
  BY InitType, Zenon DEF TypeOK
<1>2. ASSUME NEW s \in Shards
      PROVE  InStep(s, recency[s], entries, retained[s])
  <2>1. recency[s] = <<>> /\ retained[s] = 0 /\ HeldIn(entries, s) = {}
    BY Zenon DEF Init, HeldIn
  <2>2. Bytes(entries, {}) = 0
    BY FS_EmptySet, Zenon DEF Bytes, Footprint
  <2>3. Enumerates(<<>>, {})
    <3>1. <<>> \in Seq(Offsets) /\ Len(<<>>) = 0
      OBVIOUS
    <3>2. 1 .. 0 = {}
      OBVIOUS
    <3>3. Oldest(<<>>, 0) = {}
      BY <3>2, Zenon DEF Oldest
    <3> QED
      BY <3>1, <3>2, <3>3, Zenon DEF Enumerates
  <2> QED
    BY <2>1, <2>2, <2>3, Zenon DEF InStep
<1>3. \A s \in Shards : retained[s] <= capacity[s]
  BY <1>1 DEF Init
<1>4. resize.phase # "trim"
  BY Zenon DEF Init
<1> QED
  BY <1>2, <1>3, <1>4, Zenon DEF Accounts

\* A lookup touches a payload that fits, and drops one that does not.
LEMMA AccountsLookup ==
  ASSUME IInv, Accounts, NEW w \in Workers, Lookup(w)
  PROVE  Accounts'
<1>1. PICK o \in todo[w] : Hit(w, o) \/ Join(w, o) \/ Reserve(w, o)
  BY Zenon DEF Lookup
<1>2. o \in Offsets /\ PlannedLength[w][o] # 0
  BY ConstantsAssumption DEF IInv, TypeOK
<1>3. UNCHANGED <<capacity, resize>>
  BY Zenon DEF Lookup
<1>4. CASE Hit(w, o)
  <2>1. entries[o] # Absent
    BY <1>2, <1>4, MatchesHeld, Zenon DEF Hit
  <2> QED
    BY <1>2, <1>3, <1>4, <2>1, AccountsTouch, Zenon DEF Hit
<1>5. CASE Join(w, o) \/ Reserve(w, o)
  BY <1>2, <1>3, <1>5, AccountsDrop, Zenon DEF Join, Reserve
<1> QED
  BY <1>1, <1>4, <1>5, Zenon

\* A wait touches the payload it returns.
LEMMA AccountsWaitFor ==
  ASSUME IInv, Accounts, NEW w \in Workers, WaitFor(w)
  PROVE  Accounts'
<1>1. UNCHANGED <<capacity, resize, entries, retained>>
  BY Zenon DEF WaitFor
<1>2. PICK o \in waiting[w] :
        \/ UNCHANGED recency
        \/ /\ Matches(w, o)
           /\ recency' = [recency EXCEPT ![ShardOf[o]] = LruTouch(@, o)]
  BY Zenon DEF WaitFor
<1>3. o \in Offsets /\ PlannedLength[w][o] # 0
  BY ConstantsAssumption DEF IInv, TypeOK
<1>4. CASE UNCHANGED recency
  BY <1>1, <1>4, AccountsKept, Zenon
<1>5. CASE /\ Matches(w, o)
           /\ recency' = [recency EXCEPT ![ShardOf[o]] = LruTouch(@, o)]
  <2>1. entries[o] # Absent
    BY <1>3, <1>5, MatchesHeld, Zenon
  <2> QED
    BY <1>1, <1>3, <1>5, <2>1, AccountsTouch, Zenon
<1> QED
  BY <1>2, <1>4, <1>5, Zenon

\* Every step keeps the accounts.
LEMMA NextAccounts == IInv /\ Accounts /\ [Next]_vars => Accounts'
<1> SUFFICES ASSUME IInv, Accounts, [Next]_vars
             PROVE  Accounts'
  BY Zenon
<1>1. ASSUME NEW w \in Workers,
             \/ StartLoad(w) \/ ReadSucceeds(w) \/ ReadFails(w) \/ Cancel(w)
             \/ Retain(w) \/ SpuriousWakeup(w)
      PROVE  Accounts'
  <2>1. UNCHANGED <<entries, recency, retained, capacity, resize>>
    BY <1>1, Zenon DEF StartLoad, ReadSucceeds, ReadFails, Cancel, Retain, SpuriousWakeup,
                cacheVars
  <2> QED
    BY <2>1, AccountsKept, Zenon
<1>2. CASE UNCHANGED vars
  <2>1. UNCHANGED <<entries, recency, retained, capacity, resize>>
    BY <1>2, Zenon DEF vars, cacheVars
  <2> QED
    BY <2>1, AccountsKept, Zenon
<1> QED
  BY <1>1, <1>2, AccountsLookup, AccountsPublish, AccountsWaitFor, AccountsResize, Zenon
     DEF Next, LoadStep, ResizeStep

\* The byte count, the recency order and the payloads of every shard agree in every
\* state: lookup_or_reserve, publish, wait_for and set_total_capacity keep them in
\* step whatever the interleaving, and a shard is over its capacity only between
\* the store and the trim of its own resize.
THEOREM Accounting == Spec => []AccountingExact
<1>1. Init => Accounts
  BY AccountsInit, Zenon
<1>2. IInv /\ Accounts /\ [Next]_vars => Accounts'
  BY NextAccounts, Zenon
<1>3. IInv /\ Accounts => AccountingExact
  BY AccountsExact, Zenon
<1> QED
  BY <1>1, <1>2, <1>3, Invariance, PTL DEF Spec

=============================================================================

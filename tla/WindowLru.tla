------------------------------- MODULE WindowLru -------------------------------
(***************************************************************************)
(* What the window caches of DiskANN have in common: the shared ones       *)
(* (core/src/diskann_io.rs, SharedWindowCache) and those of a query        *)
(* (core/src/diskann_search.rs, AdjacencyWindowCache).  Each keeps its     *)
(* payloads by offset, a recency order of the offsets (OffsetLru) and a    *)
(* byte count, and evicts the oldest offsets while the count is over a     *)
(* limit.                                                                  *)
(***************************************************************************)
EXTENDS Naturals, FiniteSets, Sequences

\* A payload is its length and its allocated capacity.
Payloads == [length : Nat, capacity : Nat]

\* What an offset without a payload is mapped to.
Absent == [length |-> 0, capacity |-> 0]

SaturatingSub(a, b) == IF a < b THEN 0 ELSE a - b

\* OffsetLru::remove and OffsetLru::touch on the order they maintain.
LruRemove(q, o) ==
  IF \E i \in DOMAIN q : q[i] = o
  THEN LET i == CHOOSE j \in DOMAIN q : q[j] = o
       IN  SubSeq(q, 1, i - 1) \o SubSeq(q, i + 1, Len(q))
  ELSE q

LruTouch(q, o) == Append(LruRemove(q, o), o)

\* The bytes that the payloads of the offsets in S occupy under e: a payload of
\* capacity c at offset o is the set of the pairs <<o, 1>> .. <<o, c>>.
Footprint(e, S) == UNION { {o} \X (1 .. e[o].capacity) : o \in S }
Bytes(e, S)     == Cardinality(Footprint(e, S))

\* The n oldest offsets of q.
Oldest(q, n) == { q[i] : i \in 1 .. n }

\* Faulty variant of Pops: the loop stops one byte above the limit.
PopsOneByteShort(q, e, bytes, limit, n) ==
  /\ \A m \in 0 .. n - 1 : SaturatingSub(bytes, Bytes(e, Oldest(q, m))) > limit + 1
  /\ \/ SaturatingSub(bytes, Bytes(e, Oldest(q, n))) <= limit + 1
     \/ n = Len(q)

\* The eviction loop pops n times: it was over the limit before each pop, and
\* stops within the limit or when nothing is left to pop.
Pops(q, e, bytes, limit, n) ==
  /\ \A m \in 0 .. n - 1 : SaturatingSub(bytes, Bytes(e, Oldest(q, m))) > limit
  /\ \/ SaturatingSub(bytes, Bytes(e, Oldest(q, n))) <= limit
     \/ n = Len(q)

=============================================================================

-------------------------- MODULE MCSharedWindowCache --------------------------
(* Small instances of SharedWindowCache for TLC. *)
EXTENDS SharedWindowCache

CONSTANTS w1, w2

\* The windows share a shard, and evict each other; the other shard stays empty.
MCShardOf == [o \in Offsets |-> 0]

\* In-tree planners derive the length of a window from its offset alone, and agree
\* about offset 0; the interface of the cache permits the disagreement about offset
\* 1, where a worker finds a payload of the wrong length and drops it.
MCLengths == [w \in Workers |-> [o \in Offsets |-> IF o = 1 /\ w = w1 THEN 1 ELSE 2]]

=============================================================================

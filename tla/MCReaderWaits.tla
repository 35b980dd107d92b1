----------------------------- MODULE MCReaderWaits -----------------------------
(***************************************************************************)
(* The two places where the readers of a DiskANN index wait for each       *)
(* other, under fairness: the verdict on an adjacency page and the load of *)
(* a window.  They share no state, and a behaviour is one of either.       *)
(***************************************************************************)
EXTENDS AdjacencyValidation

CONSTANTS Workers, Offsets, NumShards, ShardOf, PlannedLength, Slack, Totals,
          InitialTotal, ConcurrentResize, MaxLoads, Nobody

VARIABLES part, capacity, entries, loading, recency, retained, resize, loadPhase,
          request, pending, todo, reserved, waiting, local, loads

\* A shard for each window, and room for the second only: the payload of the first
\* is gone again before the workers that wait for it have woken up.
MCShardOf == [o \in Offsets |-> o % NumShards]
MCLengths == [w \in Workers |-> [o \in Offsets |-> IF o = 1 THEN 1 ELSE 2]]

Cache == INSTANCE SharedWindowCache WITH phase <- loadPhase

loadVars == <<capacity, entries, loading, recency, retained, resize, loadPhase,
              request, pending, todo, reserved, waiting, local, loads>>
allVars  == <<part, vars, loadVars>>

PartsInit == part \in {"pages", "windows"} /\ Init /\ Cache!Init

PartsNext ==
  \/ part = "pages" /\ Next /\ UNCHANGED <<part, loadVars>>
  \/ part = "windows" /\ Cache!Next /\ UNCHANGED <<part, vars>>

\* A caller inside get_or_validate and a worker inside a load keep running.
PartsSpec ==
  /\ PartsInit /\ [][PartsNext]_allVars
  /\ \A c \in Callers :
       WF_allVars(part = "pages" /\ Step(c) /\ UNCHANGED <<part, loadVars>>)
  /\ \A w \in Workers :
       WF_allVars(part = "windows" /\ Cache!LoadStep(w) /\ UNCHANGED <<part, vars>>)

\* Every call of get_or_validate returns or unwinds, and every load returns with or
\* without an error: no notification is lost, whatever panics or fails.  The instance
\* starts finitely many, so this is that in the end nobody is inside one.
WaitsEnd ==
  <>[](/\ \A c \in Callers : phase[c] = "idle"
       /\ \A w \in Workers : loadPhase[w] = "idle")

\* The cache and its load loop implement single flight: an offset has at most one
\* owner, only its owner makes it cached, and every reservation is resolved.
CacheIsSingleFlight == Cache!ImplementsSingleFlight

=============================================================================

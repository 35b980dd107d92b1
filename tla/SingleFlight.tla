------------------------------ MODULE SingleFlight ------------------------------
(***************************************************************************)
(* What the shared window cache of DiskANN promises to its users           *)
(* (core/src/diskann_io.rs, SharedWindowCache): an offset is loaded by at  *)
(* most one worker at a time, it becomes cached only when that worker      *)
(* publishes it, and its owner either publishes or releases it.  What is   *)
(* cached may be evicted at any time.                                      *)
(***************************************************************************)
CONSTANTS Workers, Offsets, Nobody

VARIABLES
  owner,   \* the worker that has reserved an offset, or Nobody
  cached   \* the offsets with a payload

vars == <<owner, cached>>

Init ==
  /\ owner  = [o \in Offsets |-> Nobody]
  /\ cached = {}

\* Reserving an offset drops a payload that did not fit the request.
Reserve(w, o) ==
  /\ owner[o] = Nobody
  /\ owner'  = [owner EXCEPT ![o] = w]
  /\ cached' = cached \ {o}

\* Publishing makes room by evicting, and may evict the new payload itself.
Publish(w, o) ==
  /\ owner[o] = w
  /\ owner'  = [owner EXCEPT ![o] = Nobody]
  /\ cached' \in SUBSET (cached \cup {o})

\* A failed load releases some of its reservations at a time.
Release(w, S) ==
  /\ S # {}
  /\ \A o \in S : owner[o] = w
  /\ owner' = [o \in Offsets |-> IF o \in S THEN Nobody ELSE owner[o]]
  /\ UNCHANGED cached

Evict ==
  /\ cached' \in SUBSET cached
  /\ UNCHANGED owner

Next ==
  \/ \E w \in Workers, o \in Offsets : Reserve(w, o) \/ Publish(w, o)
  \/ \E w \in Workers, S \in SUBSET Offsets : Release(w, S)
  \/ Evict

Resolve(o) ==
  \E w \in Workers : Publish(w, o) \/ \E S \in SUBSET Offsets : o \in S /\ Release(w, S)

Spec == Init /\ [][Next]_vars

\* The owner of an offset does not sit on it.
FairSpec == Spec /\ \A o \in Offsets : WF_vars(Resolve(o))

=============================================================================

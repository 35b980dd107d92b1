------------------------------ MODULE RecencyOrder ------------------------------
(***************************************************************************)
(* What OffsetLru (core/src/diskann_io.rs) promises to the window caches:  *)
(* an order of distinct offsets, the oldest first, in which a touched      *)
(* offset becomes the newest.                                              *)
(***************************************************************************)
EXTENDS WindowLru

CONSTANTS Offsets, None

VARIABLES
  order,  \* the offsets, the oldest first
  popped  \* what the last pop_oldest returned

vars == <<order, popped>>

Init == order = <<>> /\ popped = None

TouchOffset(o) ==
  /\ order' = LruTouch(order, o)
  /\ UNCHANGED popped

RemoveOffset(o) ==
  /\ order' = LruRemove(order, o)
  /\ UNCHANGED popped

PopOldest ==
  IF order = <<>>
  THEN popped' = None /\ UNCHANGED order
  ELSE popped' = Head(order) /\ order' = Tail(order)

Clear == order' = <<>> /\ UNCHANGED popped

Next ==
  \/ \E o \in Offsets : TouchOffset(o) \/ RemoveOffset(o)
  \/ PopOldest
  \/ Clear

Spec == Init /\ [][Next]_vars

=============================================================================

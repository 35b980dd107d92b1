------------------------------- MODULE OffsetLru -------------------------------
(***************************************************************************)
(* The recency list of the window caches as the code keeps it              *)
(* (core/src/diskann_io.rs, OffsetLru): a map from an offset to its older  *)
(* and its newer neighbour, and the two ends of the list.                  *)
(***************************************************************************)
EXTENDS WindowLru, FiniteSetTheorems, TLAPS

CONSTANTS
  Offsets,  \* window offsets
  None      \* Option::None

ASSUME NoneAssumption == None \notin Offsets

VARIABLES
  lru,    \* the fields links, oldest and newest
  popped  \* what the last pop_oldest returned

vars == <<lru, popped>>

Present(l) == DOMAIN l.links

Empty == [links |-> << >>, oldest |-> None, newest |-> None]

-----------------------------------------------------------------------------

\* Faulty variant of Detach: the newest end is not moved.
DetachKeepsNewest(l, o) ==
  LET link == l.links[o]
  IN  [links  |->
         [x \in Present(l) |->
            [older |-> IF x = link.newer THEN link.older ELSE l.links[x].older,
             newer |-> IF x = link.older THEN link.newer ELSE l.links[x].newer]],
       oldest |-> IF link.older = None THEN link.newer ELSE l.oldest,
       newest |-> l.newest]

\* Faulty variant of Detach: the older neighbour keeps its link.
DetachKeepsOlder(l, o) ==
  LET link == l.links[o]
  IN  [links  |->
         [x \in Present(l) |->
            [older |-> IF x = link.newer THEN link.older ELSE l.links[x].older,
             newer |-> l.links[x].newer]],
       oldest |-> IF link.older = None THEN link.newer ELSE l.oldest,
       newest |-> IF link.newer = None THEN link.older ELSE l.newest]

\* Takes o out of the list: its neighbours are linked to each other, and an end
\* that was o moves.  The link of o itself stays as it is.
Detach(l, o) ==
  LET link == l.links[o]
  IN  [links  |->
         [x \in Present(l) |->
            [older |-> IF x = link.newer THEN link.older ELSE l.links[x].older,
             newer |-> IF x = link.older THEN link.newer ELSE l.links[x].newer]],
       oldest |-> IF link.older = None THEN link.newer ELSE l.oldest,
       newest |-> IF link.newer = None THEN link.older ELSE l.newest]

\* Faulty variant of Attach: an empty list is taken to have a newest offset.
AttachLinksNone(l, o) ==
  LET links == [x \in Present(l) \cup {o, l.newest} |->
                  IF x = o             THEN [older |-> l.newest, newer |-> None]
                  ELSE IF x = l.newest THEN [older |-> None, newer |-> o]
                  ELSE l.links[x]]
  IN  [links |-> links, oldest |-> IF l.newest = None THEN o ELSE l.oldest, newest |-> o]

\* Puts o, whose link may be stale, behind the newest offset.
Attach(l, o) ==
  LET links == [x \in Present(l) \cup {o} |->
                  IF x = o             THEN [older |-> l.newest, newer |-> None]
                  ELSE IF x = l.newest THEN [l.links[x] EXCEPT !.newer = o]
                  ELSE l.links[x]]
  IN  [links  |-> links,
       oldest |-> IF l.newest = None THEN o ELSE l.oldest,
       newest |-> o]

Touched(l, o) ==
  IF l.newest = o THEN l
  ELSE Attach(IF o \in Present(l) THEN Detach(l, o) ELSE l, o)

Removed(l, o) ==
  LET rest == Detach(l, o)
  IN  IF o \notin Present(l) THEN l
      ELSE [rest EXCEPT !.links = [x \in Present(l) \ {o} |-> rest.links[x]]]

-----------------------------------------------------------------------------

Touch(o) ==
  /\ lru' = Touched(lru, o)
  /\ UNCHANGED popped

Remove(o) ==
  /\ lru' = Removed(lru, o)
  /\ UNCHANGED popped

PopOldest ==
  /\ popped' = lru.oldest
  /\ lru' = IF lru.oldest = None THEN lru ELSE Removed(lru, lru.oldest)

Clear ==
  /\ lru' = Empty
  /\ UNCHANGED popped

Init == lru = Empty /\ popped = None

Next ==
  \/ \E o \in Offsets : Touch(o) \/ Remove(o)
  \/ PopOldest
  \/ Clear

Spec == Init /\ [][Next]_vars

-----------------------------------------------------------------------------
(* Properties. *)

Links == [older : Offsets \cup {None}, newer : Offsets \cup {None}]

IsList(l) ==
  /\ l = [links |-> l.links, oldest |-> l.oldest, newest |-> l.newest]
  /\ Present(l) \subseteq Offsets
  /\ l.links \in [Present(l) -> Links]
  /\ l.oldest \in Offsets \cup {None}
  /\ l.newest \in Offsets \cup {None}

\* The fields have their types.
TypeOK == IsList(lru) /\ popped \in Offsets \cup {None}

\* The offsets of P form lists: every link between them is symmetric, and exactly
\* the two ends have no neighbour on their side.
Linked(l, P) ==
  /\ l.oldest \in P \cup {None}
  /\ l.newest \in P \cup {None}
  /\ l.oldest = None <=> l.newest = None
  /\ \A o \in P :
       LET link == l.links[o]
       IN  /\ link.older = None <=> o = l.oldest
           /\ link.newer = None <=> o = l.newest
           /\ link.older # None => link.older \in P /\ l.links[link.older].newer = o
           /\ link.newer # None => link.newer \in P /\ l.links[link.newer].older = o

\* Every link names a present neighbour that links back, so no expect of touch,
\* remove or detach ever panics under the mutex of a cache.
WellLinked == Linked(lru, Present(lru))

\* The list runs through the offsets of q, from the oldest to the newest.
RunsThrough(l, q) ==
  /\ l.oldest = IF q = <<>> THEN None ELSE q[1]
  /\ l.newest = IF q = <<>> THEN None ELSE q[Len(q)]
  /\ \A i \in 1 .. Len(q) :
       /\ l.links[q[i]].older = IF i = 1 THEN None ELSE q[i - 1]
       /\ l.links[q[i]].newer = IF i = Len(q) THEN None ELSE q[i + 1]

\* The orders of the present offsets that the list runs through.
Runs(l) == { q \in [1 .. Cardinality(Present(l)) -> Present(l)] : RunsThrough(l, q) }

\* The one order of a list; of links that are not a list, no order of offsets.
OrderOf(l) == IF Runs(l) = {} THEN <<None>> ELSE CHOOSE q \in Runs(l) : TRUE

Order == INSTANCE RecencyOrder WITH order <- OrderOf(lru)

\* The linked list implements the recency order: it holds every offset once, and
\* pop_oldest returns the one that was touched least recently.
ImplementsRecencyOrder == Order!Spec

-----------------------------------------------------------------------------
(***************************************************************************)
(* Proof that the linked list is well linked after any sequence of its     *)
(* operations, for any set of offsets.                                     *)
(***************************************************************************)

\* Detaching o leaves a list of the other offsets.
LEMMA DetachLinked ==
  ASSUME NEW l, IsList(l), Linked(l, Present(l)), NEW o \in Present(l)
  PROVE  /\ IsList(Detach(l, o))
         /\ Present(Detach(l, o)) = Present(l)
         /\ Linked(Detach(l, o), Present(l) \ {o})
<1> DEFINE d    == Detach(l, o)
           link == l.links[o]
           P    == Present(l) \ {o}
<1>1. /\ None \notin Present(l)
      /\ link \in Links
      /\ \A x \in Present(l) : l.links[x] \in Links
  BY NoneAssumption, Zenon DEF IsList
<1>2. /\ d = [links |-> d.links, oldest |-> d.oldest, newest |-> d.newest]
      /\ d.oldest = IF link.older = None THEN link.newer ELSE l.oldest
      /\ d.newest = IF link.newer = None THEN link.older ELSE l.newest
      /\ d.links \in [Present(l) -> Links]
      /\ \A x \in Present(l) : d.links[x].older =
           IF x = link.newer THEN link.older ELSE l.links[x].older
      /\ \A x \in Present(l) : d.links[x].newer =
           IF x = link.older THEN link.newer ELSE l.links[x].newer
  BY <1>1, Zenon DEF Detach, Links
<1>3. IsList(d) /\ Present(d) = Present(l)
  BY <1>1, <1>2, Zenon DEF IsList, Present, Links
<1> HIDE DEF d
<1>4. ASSUME NEW x \in Present(l)
      PROVE  /\ l.links[x].older = None <=> x = l.oldest
             /\ l.links[x].newer = None <=> x = l.newest
             /\ l.links[x].older # None =>
                  /\ l.links[x].older \in Present(l)
                  /\ l.links[l.links[x].older].newer = x
             /\ l.links[x].newer # None =>
                  /\ l.links[x].newer \in Present(l)
                  /\ l.links[l.links[x].newer].older = x
  BY Zenon DEF Linked
<1>5. /\ d.oldest \in P \cup {None}
      /\ d.newest \in P \cup {None}
      /\ d.oldest = None <=> d.newest = None
  <2>1. /\ l.oldest \in Present(l) \cup {None}
        /\ l.newest \in Present(l) \cup {None}
        /\ l.oldest = None <=> l.newest = None
    BY Zenon DEF Linked
  <2>2. d.oldest \in P \cup {None}
    BY <1>1, <1>2, <1>4, <2>1
  <2>3. d.newest \in P \cup {None}
    BY <1>1, <1>2, <1>4, <2>1
  <2>4. d.oldest = None <=> d.newest = None
    BY <1>1, <1>2, <1>4, <2>1
  <2> QED
    BY <2>2, <2>3, <2>4, Zenon
<1>6. ASSUME NEW x \in P
      PROVE  /\ d.links[x].older = None <=> x = d.oldest
             /\ d.links[x].older # None =>
                  d.links[x].older \in P /\ d.links[d.links[x].older].newer = x
  <2>1. CASE x = link.newer
    <3>1. d.links[x].older = link.older
      BY <1>2, <2>1, Zenon
    <3>2. link.older # None => d.links[link.older].newer = x
      BY <1>2, <1>4, <2>1, Zenon
    <3>3. link.older # o
      BY <1>1, <1>4, <2>1, Zenon
    <3>4. l.links[x].older = o /\ l.oldest # x
      BY <1>1, <1>4, <2>1
    <3> QED
      BY <1>1, <1>2, <1>4, <2>1, <3>1, <3>2, <3>3, <3>4, Zenon
  <2>2. CASE x # link.newer
    <3>1. d.links[x].older = l.links[x].older
      BY <1>2, <2>2, Zenon
    <3>2. l.links[x].older # o
      BY <1>1, <1>4, <2>2, Zenon
    <3>3. l.links[x].older # None => l.links[x].older # link.older
      BY <1>1, <1>4
    <3>4. d.oldest = x <=> l.oldest = x
      BY <1>1, <1>2, <1>4, <2>2, Zenon
    <3> QED
      BY <1>1, <1>2, <1>4, <3>1, <3>2, <3>3, <3>4
  <2> QED
    BY <2>1, <2>2, Zenon
<1>7. ASSUME NEW x \in P
      PROVE  /\ d.links[x].newer = None <=> x = d.newest
             /\ d.links[x].newer # None =>
                  d.links[x].newer \in P /\ d.links[d.links[x].newer].older = x
  <2>1. CASE x = link.older
    <3>1. d.links[x].newer = link.newer
      BY <1>2, <2>1, Zenon
    <3>2. link.newer # None => d.links[link.newer].older = x
      BY <1>2, <1>4, <2>1, Zenon
    <3>3. link.newer # o
      BY <1>1, <1>4, <2>1, Zenon
    <3>4. l.links[x].newer = o /\ l.newest # x
      BY <1>1, <1>4, <2>1
    <3> QED
      BY <1>1, <1>2, <1>4, <2>1, <3>1, <3>2, <3>3, <3>4, Zenon
  <2>2. CASE x # link.older
    <3>1. d.links[x].newer = l.links[x].newer
      BY <1>2, <2>2, Zenon
    <3>2. l.links[x].newer # o
      BY <1>1, <1>4, <2>2
    <3>3. l.links[x].newer # None => l.links[x].newer # link.newer
      BY <1>1, <1>4
    <3>4. d.newest = x <=> l.newest = x
      BY <1>1, <1>2, <1>4, <2>2, Zenon
    <3> QED
      BY <1>1, <1>2, <1>4, <3>1, <3>2, <3>3, <3>4
  <2> QED
    BY <2>1, <2>2, Zenon
<1>8. Linked(d, P)
  BY <1>5, <1>6, <1>7, Zenon DEF Linked
<1> QED
  BY <1>3, <1>8, Zenon DEF d

\* Attaching o to a list of the other offsets gives a list of all of them.
LEMMA AttachLinked ==
  ASSUME NEW l, IsList(l), NEW o \in Offsets, Linked(l, Present(l) \ {o})
  PROVE  /\ IsList(Attach(l, o))
         /\ Linked(Attach(l, o), Present(Attach(l, o)))
<1> DEFINE a == Attach(l, o)
           P == Present(l) \ {o}
<1>1. /\ None \notin Present(l) /\ None # o
      /\ \A x \in Present(l) : l.links[x] \in Links
  BY NoneAssumption, Zenon DEF IsList
<1>2. /\ l.oldest \in P \cup {None}
      /\ l.newest \in P \cup {None}
      /\ l.oldest = None <=> l.newest = None
      /\ \A x \in P :
           /\ l.links[x].older = None <=> x = l.oldest
           /\ l.links[x].newer = None <=> x = l.newest
           /\ l.links[x].older # None =>
                l.links[x].older \in P /\ l.links[l.links[x].older].newer = x
           /\ l.links[x].newer # None =>
                l.links[x].newer \in P /\ l.links[l.links[x].newer].older = x
  BY Zenon DEF Linked
<1>3. /\ a = [links |-> a.links, oldest |-> a.oldest, newest |-> a.newest]
      /\ DOMAIN a.links = P \cup {o}
      /\ a.links[o].older = l.newest
      /\ a.links[o].newer = None
      /\ \A x \in P : a.links[x].older = l.links[x].older
      /\ \A x \in P : a.links[x].newer = IF x = l.newest THEN o
                                          ELSE l.links[x].newer
      /\ a.oldest = IF l.newest = None THEN o ELSE l.oldest
      /\ a.newest = o
  BY <1>1, Zenon DEF Attach, Links
<1> HIDE DEF a
<1>4. a.links \in [P \cup {o} -> Links]
  BY <1>1, <1>2, <1>3 DEF Links, IsList, Attach, a
<1>5. IsList(a) /\ Present(a) = P \cup {o}
  BY <1>3, <1>4, Zenon DEF IsList, Present
<1>6. /\ a.oldest \in P \cup {o, None}
      /\ a.newest \in P \cup {o, None}
      /\ a.oldest = None <=> a.newest = None
  BY <1>1, <1>2, <1>3, Zenon
<1>7. ASSUME NEW x \in P
      PROVE  /\ a.links[x].older = None <=> x = a.oldest
             /\ a.links[x].newer = None <=> x = a.newest
             /\ a.links[x].older # None =>
                  /\ a.links[x].older \in P \cup {o}
                  /\ a.links[a.links[x].older].newer = x
             /\ a.links[x].newer # None =>
                  /\ a.links[x].newer \in P \cup {o}
                  /\ a.links[a.links[x].newer].older = x
  <2>1. /\ a.links[x].older = None <=> x = a.oldest
        /\ a.links[x].newer = None <=> x = a.newest
    BY <1>1, <1>2, <1>3
  <2>2. a.links[x].older # None => /\ a.links[x].older \in P \cup {o}
                                   /\ a.links[a.links[x].older].newer = x
    BY <1>1, <1>2, <1>3
  <2>3. a.links[x].newer # None => /\ a.links[x].newer \in P \cup {o}
                                   /\ a.links[a.links[x].newer].older = x
    BY <1>1, <1>2, <1>3
  <2> QED
    BY <2>1, <2>2, <2>3, Zenon
<1>8. /\ a.links[o].older = None <=> o = a.oldest
      /\ a.links[o].newer = None <=> o = a.newest
      /\ a.links[o].older # None =>
           a.links[o].older \in P \cup {o} /\ a.links[a.links[o].older].newer = o
      /\ a.links[o].newer # None =>
           a.links[o].newer \in P \cup {o} /\ a.links[a.links[o].newer].older = o
  BY <1>1, <1>2, <1>3, Zenon
<1>9. Linked(a, P \cup {o})
  BY <1>6, <1>7, <1>8, Zenon DEF Linked
<1> QED
  BY <1>5, <1>9, Zenon DEF a

\* touch keeps the list well linked.
LEMMA TouchedLinked ==
  ASSUME NEW l, IsList(l), Linked(l, Present(l)), NEW o \in Offsets
  PROVE  IsList(Touched(l, o)) /\ Linked(Touched(l, o), Present(Touched(l, o)))
<1>1. CASE l.newest = o
  BY <1>1, Zenon DEF Touched
<1>2. CASE l.newest # o /\ o \in Present(l)
  <2>1. IsList(Detach(l, o)) /\ Linked(Detach(l, o), Present(Detach(l, o)) \ {o})
    BY <1>2, DetachLinked, Zenon
  <2> QED
    BY <1>2, <2>1, AttachLinked, Zenon DEF Touched
<1>3. CASE l.newest # o /\ o \notin Present(l)
  <2>1. Present(l) \ {o} = Present(l)
    BY <1>3, Zenon
  <2> QED
    BY <1>3, <2>1, AttachLinked, Zenon DEF Touched
<1> QED
  BY <1>1, <1>2, <1>3, Zenon

\* remove keeps the list well linked.
LEMMA RemovedLinked ==
  ASSUME NEW l, IsList(l), Linked(l, Present(l)), NEW o
  PROVE  IsList(Removed(l, o)) /\ Linked(Removed(l, o), Present(Removed(l, o)))
<1>1. CASE o \notin Present(l)
  BY <1>1, Zenon DEF Removed
<1>2. CASE o \in Present(l)
  <2> DEFINE d == Detach(l, o)
             P == Present(l) \ {o}
             r == [d EXCEPT !.links = [x \in P |-> d.links[x]]]
  <2>1. IsList(d) /\ Present(d) = Present(l) /\ Linked(d, P)
    BY <1>2, DetachLinked, Zenon
  <2>2. Removed(l, o) = r
    BY <1>2, Zenon DEF Removed
  <2> HIDE DEF d
  <2>3. /\ r = [links |-> r.links, oldest |-> r.oldest, newest |-> r.newest]
        /\ r.links = [x \in P |-> d.links[x]]
        /\ r.oldest = d.oldest
        /\ r.newest = d.newest
    BY <2>1 DEF IsList
  <2> HIDE DEF r
  <2>4. \A x \in P : r.links[x] = d.links[x] /\ d.links[x] \in Links
    BY <2>1, <2>3, Zenon DEF IsList
  <2>5. Present(r) = P
    BY <2>3, Zenon DEF Present
  <2>6. r.links \in [P -> Links]
    BY <2>3, <2>4, Zenon
  <2>7. IsList(r)
    BY <2>1, <2>3, <2>5, <2>6, Zenon DEF IsList
  <2>8. Linked(r, P)
    BY <2>1, <2>3, <2>4 DEF Linked
  <2> QED
    BY <2>2, <2>5, <2>7, <2>8, Zenon
<1> QED
  BY <1>1, <1>2, Zenon

IInv == TypeOK /\ WellLinked

\* The fields keep their types, and every link stays symmetric.
LEMMA Inductive == Spec => []IInv
<1>1. IsList(Empty) /\ Linked(Empty, Present(Empty))
  <2>1. Present(Empty) = {}
    BY DEF Present, Empty
  <2>2. Empty.links \in [{} -> Links]
    BY DEF Empty
  <2> QED
    BY <2>1, <2>2, Zenon DEF IsList, Linked, Empty
<1>2. Init => IInv
  BY <1>1, Zenon DEF Init, IInv, TypeOK, WellLinked
<1>3. IInv /\ [Next]_vars => IInv'
  <2> SUFFICES ASSUME IInv, [Next]_vars PROVE IInv'
    BY Zenon
  <2> USE DEF IInv, TypeOK, WellLinked
  <2>1. ASSUME NEW o \in Offsets, Touch(o) PROVE IInv'
    BY <2>1, TouchedLinked, Zenon DEF Touch
  <2>2. ASSUME NEW o \in Offsets, Remove(o) PROVE IInv'
    BY <2>2, RemovedLinked, Zenon DEF Remove
  <2>3. CASE PopOldest
    <3>1. popped' \in Offsets \cup {None}
      BY <2>3, Zenon DEF PopOldest, IsList
    <3> QED
      BY <2>3, <3>1, RemovedLinked, Zenon DEF PopOldest
  <2>4. CASE Clear
    BY <1>1, <2>4, Zenon DEF Clear
  <2>5. CASE UNCHANGED vars
    BY <2>5, Zenon DEF vars, IsList, Linked, Present
  <2> QED
    BY <2>1, <2>2, <2>3, <2>4, <2>5, Zenon DEF Next
<1> QED
  BY <1>2, <1>3, PTL DEF Spec

\* touch, remove, pop_oldest and clear keep every link symmetric, so none of the
\* expects of OffsetLru can fail, whatever the caches ask of it.
THEOREM ListWellLinked == Spec => []WellLinked
<1>1. IInv => WellLinked
  BY Zenon DEF IInv
<1> QED
  BY <1>1, Inductive, PTL

-----------------------------------------------------------------------------
(***************************************************************************)
(* Proof that the linked list implements the recency order.  In every      *)
(* state the list runs through some order of the present offsets, and      *)
(* through no other; each operation turns that order into the one that the *)
(* abstract operation gives.                                               *)
(***************************************************************************)

\* A set of numbers has a least one.
LEMMA LeastNumber ==
  ASSUME NEW T \in SUBSET Nat, T # {}
  PROVE  \E n \in T : \A m \in T : n <= m
<1>1. PICK R : /\ IsWellFoundedOn(R, Nat)
               /\ \A m, n \in Nat : m < n => <<m, n>> \in R
  <2>1. \A m, n \in Nat : m < n => <<m, n>> \in OpToRel(<, Nat)
    BY Zenon DEF OpToRel
  <2> QED
    BY <2>1, NatLessThanWellFounded, Zenon
<1>2. IsWellFoundedOn(R, Nat) /\ T \subseteq Nat
  BY <1>1, Zenon
<1>3. PICK n \in T : \A m \in T : ~(<<m, n>> \in R)
  BY <1>2, WFMin, Zenon
<1>4. ASSUME NEW m \in T PROVE n <= m
  <2>1. n \in Nat /\ m \in Nat
    BY Zenon
  <2>2. ~(m < n)
    BY <1>1, <1>3, <2>1, Zenon
  <2> QED
    BY <2>1, <2>2
<1> QED
  BY <1>4, Zenon

\* q names each of the present offsets once, and the list runs through it.
Lists(l, q) ==
  /\ q \in Seq(Offsets)
  /\ \A x : x \in Present(l) <=> \E i \in 1 .. Len(q) : q[i] = x
  /\ \A i, j \in 1 .. Len(q) : q[i] = q[j] => i = j
  /\ RunsThrough(l, q)

\* A list runs through one order only.
LEMMA OneRun ==
  ASSUME NEW l, NEW n \in Nat, NEW P, NEW q \in [1 .. n -> P], NEW r \in [1 .. n -> P],
         RunsThrough(l, q), RunsThrough(l, r)
  PROVE  q = r
<1> DEFINE T == { i \in 1 .. n : q[i] # r[i] }
<1>1. Len(q) = n /\ Len(r) = n
  OBVIOUS
<1>2. ASSUME NEW k \in 1 .. n, k # n
      PROVE  l.links[q[k]].newer = q[k + 1] /\ l.links[r[k]].newer = r[k + 1]
  BY <1>1, <1>2, Zenon DEF RunsThrough
<1>3. ASSUME T # {} PROVE FALSE
  <2>1. T \in SUBSET Nat
    OBVIOUS
  <2>2. PICK i \in T : \A m \in T : i <= m
    BY <1>3, <2>1, LeastNumber, Zenon
  <2>3. i \in 1 .. n /\ q[i] # r[i]
    BY Zenon
  <2>4. CASE i = 1
    <3>1. q # <<>> /\ r # <<>>
      BY <1>1, <2>3
    <3> QED
      BY <2>3, <2>4, <3>1, Zenon DEF RunsThrough
  <2>5. CASE i # 1
    <3>1. i - 1 \in 1 .. n /\ i - 1 # n /\ (i - 1) + 1 = i
      BY <2>3, <2>5
    <3>2. i - 1 \notin T
      BY <2>2, <2>3
    <3>3. q[i - 1] = r[i - 1]
      BY <3>1, <3>2, Zenon
    <3>4. l.links[q[i - 1]].newer = q[i] /\ l.links[r[i - 1]].newer = r[i]
      BY <1>2, <3>1, Zenon
    <3> QED
      BY <2>3, <3>3, <3>4, Zenon
  <2> QED
    BY <2>4, <2>5, Zenon
<1> QED
  BY <1>3

\* An order that names each present offset once is as long as they are many.
LEMMA ListLength ==
  ASSUME NEW l, NEW q, Lists(l, q)
  PROVE  /\ Cardinality(Present(l)) = Len(q)
         /\ q \in [1 .. Len(q) -> Present(l)]
<1>1. /\ Len(q) \in Nat
      /\ q \in [1 .. Len(q) -> Offsets]
  BY DEF Lists
<1>2. q \in [1 .. Len(q) -> Present(l)]
  BY <1>1, Zenon DEF Lists
<1>3. q \in Bijection(1 .. Len(q), Present(l))
  BY <1>1, <1>2, Zenon DEF Lists, Bijection, Injection, Surjection, IsInjective
<1>4. ExistsBijection(1 .. Len(q), Present(l))
  BY <1>3, Zenon DEF ExistsBijection
<1>5. IsFiniteSet(1 .. Len(q)) /\ Cardinality(1 .. Len(q)) = Len(q)
  BY <1>1, FS_Interval, SMTT(30)
<1> QED
  BY <1>2, <1>4, <1>5, FS_Bijection, Zenon

\* OrderOf finds it.
LEMMA OrderIs ==
  ASSUME NEW l, NEW q, Lists(l, q)
  PROVE  OrderOf(l) = q
<1>1. /\ Cardinality(Present(l)) = Len(q)
      /\ q \in [1 .. Len(q) -> Present(l)]
      /\ Len(q) \in Nat
      /\ RunsThrough(l, q)
  BY ListLength DEF Lists
<1>2. q \in Runs(l)
  BY <1>1, Zenon DEF Runs
<1>3. \A r \in Runs(l) : r = q
  <2> TAKE r \in Runs(l)
  <2>1. r \in [1 .. Len(q) -> Present(l)] /\ RunsThrough(l, r)
    BY <1>1, Zenon DEF Runs
  <2> QED
    BY <1>1, <2>1, OneRun, Zenon
<1> QED
  BY <1>2, <1>3, Zenon DEF OrderOf

\* What SubSeq takes out of a sequence.
LEMMA SubSeqIs ==
  ASSUME NEW S, NEW q \in Seq(S), NEW m \in 1 .. Len(q) + 1, NEW n \in 0 .. Len(q),
         m <= n + 1
  PROVE  /\ SubSeq(q, m, n) \in Seq(S)
         /\ Len(SubSeq(q, m, n)) = n - m + 1
         /\ \A i \in 1 .. n - m + 1 : SubSeq(q, m, n)[i] = q[i + m - 1]
<1>1. Len(q) \in Nat /\ \A i \in 1 .. Len(q) : q[i] \in S
  OBVIOUS
<1>2. PICK s : s = SubSeq(q, m, n)
  BY Zenon
<1>3. s \in Seq(S)
  BY <1>1, <1>2
<1>4. \A i \in 1 .. n - m + 1 : s[i] = q[i + m - 1]
  BY <1>1, <1>2
<1>5. DOMAIN s = 1 .. n - m + 1
  BY <1>1, <1>2
<1>6. Len(s) = n - m + 1
  BY <1>1, <1>3, <1>5
<1> QED
  BY <1>2, <1>3, <1>4, <1>6, Zenon

\* LruRemove closes the gap that an offset leaves.
LEMMA RemoveAt ==
  ASSUME NEW q \in Seq(Offsets), NEW i \in 1 .. Len(q),
         \A j, k \in 1 .. Len(q) : q[j] = q[k] => j = k
  PROVE  /\ LruRemove(q, q[i]) \in Seq(Offsets)
         /\ Len(LruRemove(q, q[i])) = Len(q) - 1
         /\ \A j \in 1 .. Len(q) - 1 :
              LruRemove(q, q[i])[j] = IF j < i THEN q[j] ELSE q[j + 1]
<1> DEFINE a == SubSeq(q, 1, i - 1)
           b == SubSeq(q, i + 1, Len(q))
           r == a \o b
<1>1. /\ Len(q) \in Nat
      /\ DOMAIN q = 1 .. Len(q)
      /\ \A j \in 1 .. Len(q) : q[j] \in Offsets
  OBVIOUS
<1>2. (CHOOSE j \in DOMAIN q : q[j] = q[i]) = i
  BY <1>1, Zenon
<1>3. LruRemove(q, q[i]) = r
  BY <1>1, <1>2, Zenon DEF LruRemove
<1>4. /\ a \in Seq(Offsets)
      /\ Len(a) = i - 1
      /\ \A j \in 1 .. i - 1 : a[j] = q[j]
  <2>1. i - 1 \in 0 .. Len(q) /\ 1 \in 1 .. Len(q) + 1
    BY <1>1
  <2> QED
    BY <1>1, <2>1, SubSeqIs
<1>5. /\ b \in Seq(Offsets)
      /\ Len(b) = Len(q) - i
      /\ \A j \in 1 .. Len(q) - i : b[j] = q[i + j]
  <2>1. i + 1 \in 1 .. Len(q) + 1 /\ Len(q) \in 0 .. Len(q) /\ i + 1 <= Len(q) + 1
    BY <1>1
  <2>2. /\ b \in Seq(Offsets)
        /\ Len(b) = Len(q) - (i + 1) + 1
        /\ \A j \in 1 .. Len(q) - (i + 1) + 1 : b[j] = q[j + (i + 1) - 1]
    <3>1. PICK m \in 1 .. Len(q) + 1, n \in 0 .. Len(q) : m = i + 1 /\ n = Len(q) /\ m <= n + 1
      BY <2>1, Zenon
    <3> QED
      BY <3>1, SubSeqIs
  <2> HIDE DEF b
  <2> QED
    BY <1>1, <2>2
<1> HIDE DEF a, b
<1>6. /\ r \in Seq(Offsets)
      /\ Len(r) = Len(a) + Len(b)
      /\ \A j \in 1 .. Len(a) + Len(b) :
           r[j] = IF j <= Len(a) THEN a[j] ELSE b[j - Len(a)]
  <2>1. a \in Seq(Offsets) /\ b \in Seq(Offsets)
    BY <1>4, <1>5, Zenon
  <2> QED
    BY <2>1
<1> HIDE DEF r
<1>7. ASSUME NEW j \in 1 .. Len(q) - 1
      PROVE  r[j] = IF j < i THEN q[j] ELSE q[j + 1]
  <2>1. CASE j < i
    <3>1. j \in 1 .. Len(a) + Len(b) /\ j <= Len(a) /\ j \in 1 .. i - 1
      BY <1>1, <1>4, <1>5, <2>1
    <3>2. r[j] = a[j]
      BY <1>6, <3>1, Zenon
    <3> QED
      BY <1>4, <2>1, <3>1, <3>2, Zenon
  <2>2. CASE ~(j < i)
    <3>1. j - (i - 1) \in 1 .. Len(q) - i /\ i + (j - (i - 1)) = j + 1
      BY <1>1, <2>2
    <3>2. r[j] = b[j - (i - 1)]
      <4>1. j \in 1 .. Len(a) + Len(b) /\ ~(j <= Len(a)) /\ Len(a) = i - 1
        BY <1>1, <1>4, <1>5, <2>2
      <4>2. r[j] = b[j - Len(a)]
        BY <1>6, <4>1, Zenon
      <4> QED
        BY <4>1, <4>2, Zenon
    <3>3. b[j - (i - 1)] = q[j + 1]
      BY <1>5, <3>1, Zenon
    <3> QED
      BY <2>2, <3>2, <3>3, Zenon
  <2> QED
    BY <2>1, <2>2, Zenon
<1>8. Len(r) = Len(q) - 1
  BY <1>1, <1>4, <1>5, <1>6
<1> QED
  BY <1>3, <1>6, <1>7, <1>8, Zenon

\* Detaching keeps the fields' types and the keys of the map.
LEMMA DetachIsList ==
  ASSUME NEW l, IsList(l), NEW o \in Present(l)
  PROVE  IsList(Detach(l, o)) /\ Present(Detach(l, o)) = Present(l)
<1> DEFINE d    == Detach(l, o)
           link == l.links[o]
<1>1. /\ link \in Links
      /\ \A x \in Present(l) : l.links[x] \in Links
  BY Zenon DEF IsList
<1>2. /\ d = [links |-> d.links, oldest |-> d.oldest, newest |-> d.newest]
      /\ d.oldest = IF link.older = None THEN link.newer ELSE l.oldest
      /\ d.newest = IF link.newer = None THEN link.older ELSE l.newest
      /\ d.links \in [Present(l) -> Links]
  BY <1>1, Zenon DEF Detach, Links
<1> QED
  BY <1>1, <1>2, Zenon DEF IsList, Present, Links

\* detach: the list runs through the other offsets, in the same order.
LEMMA DetachRuns ==
  ASSUME NEW l, IsList(l), NEW q, Lists(l, q), NEW i \in 1 .. Len(q)
  PROVE  RunsThrough(Detach(l, q[i]), LruRemove(q, q[i]))
<1> DEFINE o    == q[i]
           d    == Detach(l, o)
           n    == Len(q)
           r    == LruRemove(q, o)
<1>1. /\ n \in Nat /\ q \in Seq(Offsets)
      /\ None \notin Offsets
      /\ \A j \in 1 .. n : q[j] \in Present(l) /\ q[j] \in Offsets /\ q[j] # None
      /\ \A j, k \in 1 .. n : q[j] = q[k] => j = k
  BY NoneAssumption DEF Lists
<1>2. /\ r \in Seq(Offsets) /\ Len(r) = n - 1
      /\ \A j \in 1 .. n - 1 : r[j] = IF j < i THEN q[j] ELSE q[j + 1]
  BY <1>1, RemoveAt, Zenon
<1>3. \A j \in 1 .. n :
        /\ l.links[q[j]].older = IF j = 1 THEN None ELSE q[j - 1]
        /\ l.links[q[j]].newer = IF j = n THEN None ELSE q[j + 1]
  BY Zenon DEF Lists, RunsThrough
<1>4. n # 0 => l.oldest = q[1] /\ l.newest = q[n]
  BY <1>1 DEF Lists, RunsThrough
<1> DEFINE older == IF i = 1 THEN None ELSE q[i - 1]
           newer == IF i = n THEN None ELSE q[i + 1]
<1>5. l.links[o].older = older /\ l.links[o].newer = newer
  BY <1>3, Zenon
<1>6. /\ d.oldest = IF older = None THEN newer ELSE l.oldest
      /\ d.newest = IF newer = None THEN older ELSE l.newest
      /\ \A x \in Present(l) : d.links[x].older =
           IF x = newer THEN older ELSE l.links[x].older
      /\ \A x \in Present(l) : d.links[x].newer =
           IF x = older THEN newer ELSE l.links[x].newer
  BY <1>5 DEF Detach
<1> HIDE DEF d, r
<1>7. ASSUME NEW j \in 1 .. n, j # i
      PROVE  /\ q[j] = newer <=> j = i + 1
             /\ q[j] = older <=> j = i - 1
  BY <1>1, <1>7
<1>8. ASSUME NEW j \in 1 .. n - 1
      PROVE  /\ d.links[r[j]].older = IF j = 1 THEN None ELSE r[j - 1]
             /\ d.links[r[j]].newer = IF j = n - 1 THEN None ELSE r[j + 1]
  <2>1. CASE j < i
    <3>1. r[j] = q[j] /\ j \in 1 .. n /\ j # i
      BY <1>1, <1>2, <2>1
    <3>2. d.links[r[j]].older = IF j = 1 THEN None ELSE q[j - 1]
      <4>1. q[j] # newer /\ q[j] \in Present(l)
        BY <1>1, <1>7, <2>1, <3>1
      <4>2. d.links[q[j]].older = l.links[q[j]].older
        BY <1>6, <4>1, Zenon
      <4> QED
        BY <1>3, <3>1, <4>2, Zenon
    <3>3. j # 1 => r[j - 1] = q[j - 1]
      BY <1>1, <1>2, <2>1
    <3>4. CASE j = i - 1
      <4>1. d.links[r[j]].newer = newer
        BY <1>1, <1>6, <1>7, <3>1, <3>4, Zenon
      <4>2. j # n - 1 => r[j + 1] = q[i + 1] /\ i # n
        BY <1>1, <1>2, <3>4
      <4>3. j = n - 1 => i = n
        BY <1>1, <3>4
      <4> QED
        BY <3>2, <3>3, <4>1, <4>2, <4>3, Zenon
    <3>5. CASE j # i - 1
      <4>1. d.links[r[j]].newer = q[j + 1]
        <5>1. q[j] # older /\ q[j] \in Present(l) /\ j # n
          BY <1>1, <1>7, <2>1, <3>1, <3>5
        <5>2. d.links[q[j]].newer = l.links[q[j]].newer
          BY <1>6, <5>1, Zenon
        <5> QED
          BY <1>3, <3>1, <5>1, <5>2, Zenon
      <4>2. j # n - 1 /\ r[j + 1] = q[j + 1]
        BY <1>1, <1>2, <2>1, <3>5
      <4> QED
        BY <3>2, <3>3, <4>1, <4>2, Zenon
    <3> QED
      BY <3>4, <3>5, Zenon
  <2>2. CASE ~(j < i)
    <3>1. r[j] = q[j + 1] /\ j + 1 \in 1 .. n /\ j + 1 # i /\ j + 1 # i - 1
      BY <1>1, <1>2, <2>2
    <3>2. d.links[r[j]].newer = IF j + 1 = n THEN None ELSE q[j + 2]
      <4>1. q[j + 1] # older /\ q[j + 1] \in Present(l) /\ (j + 1) + 1 = j + 2
        BY <1>1, <1>7, <3>1
      <4>2. d.links[q[j + 1]].newer = l.links[q[j + 1]].newer
        BY <1>6, <4>1, Zenon
      <4>3. l.links[q[j + 1]].newer = IF j + 1 = n THEN None ELSE q[(j + 1) + 1]
        BY <1>3, <3>1, Zenon
      <4> QED
        BY <3>1, <4>1, <4>2, <4>3, Zenon
    <3>3. j # n - 1 => r[j + 1] = q[j + 2]
      BY <1>1, <1>2, <2>2
    <3>4. CASE j = i
      <4>1. d.links[r[j]].older = older
        BY <1>1, <1>6, <1>7, <3>1, <3>4, Zenon
      <4>2. j # 1 => r[j - 1] = q[i - 1]
        BY <1>1, <1>2, <3>4
      <4> QED
        BY <1>1, <3>2, <3>3, <3>4, <4>1, <4>2
    <3>5. CASE j # i
      <4>1. d.links[r[j]].older = q[j]
        <5>1. q[j + 1] # newer /\ q[j + 1] \in Present(l) /\ j + 1 # 1 /\ (j + 1) - 1 = j
          BY <1>1, <1>7, <2>2, <3>1, <3>5
        <5>2. d.links[q[j + 1]].older = l.links[q[j + 1]].older
          BY <1>6, <5>1, Zenon
        <5>3. l.links[q[j + 1]].older = q[(j + 1) - 1]
          BY <1>3, <3>1, <5>1, Zenon
        <5> QED
          BY <3>1, <5>1, <5>2, <5>3, Zenon
      <4>2. j # 1 /\ r[j - 1] = q[j]
        <5>1. j - 1 \in 1 .. n - 1 /\ ~(j - 1 < i) /\ (j - 1) + 1 = j
          BY <1>1, <2>2, <3>5
        <5>2. r[j - 1] = q[(j - 1) + 1]
          BY <1>2, <5>1, Zenon
        <5> QED
          BY <5>1, <5>2
      <4> QED
        BY <1>1, <3>2, <3>3, <4>1, <4>2
    <3> QED
      BY <3>4, <3>5, Zenon
  <2> QED
    BY <2>1, <2>2, Zenon
<1>9. /\ d.oldest = IF r = <<>> THEN None ELSE r[1]
      /\ d.newest = IF r = <<>> THEN None ELSE r[Len(r)]
  <2>1. CASE n = 1
    <3>1. i = 1 /\ r = <<>>
      BY <1>1, <1>2, <2>1
    <3> QED
      BY <1>6, <2>1, <3>1, Zenon
  <2>2. CASE n # 1
    <3>1. r # <<>> /\ n > 1
      BY <1>1, <1>2, <2>2
    <3>2. d.oldest = r[1]
      <4>1. CASE i = 1
        BY <1>1, <1>2, <1>6, <3>1, <4>1
      <4>2. CASE i # 1
        <5>1. older # None /\ r[1] = q[1]
          BY <1>1, <1>2, <3>1, <4>2
        <5> QED
          BY <1>4, <1>6, <3>1, <5>1
      <4> QED
        BY <4>1, <4>2, Zenon
    <3>3. d.newest = r[n - 1]
      <4>1. CASE i = n
        BY <1>1, <1>2, <1>6, <3>1, <4>1, SMTT(30)
      <4>2. CASE i # n
        <5>1. newer # None /\ r[n - 1] = q[n]
          BY <1>1, <1>2, <3>1, <4>2
        <5> QED
          BY <1>4, <1>6, <3>1, <5>1
      <4> QED
        BY <4>1, <4>2, Zenon
    <3> QED
      BY <1>2, <3>1, <3>2, <3>3, Zenon
  <2> QED
    BY <2>1, <2>2, Zenon
<1>10. RunsThrough(d, r)
  BY <1>2, <1>8, <1>9, Zenon DEF RunsThrough
<1> QED
  BY <1>10, Zenon DEF d, r

\* attach: the list runs through its offsets, and then through the new one.
LEMMA AttachRuns ==
  ASSUME NEW l, IsList(l), NEW r \in Seq(Offsets), RunsThrough(l, r),
         \A j \in 1 .. Len(r) : r[j] \in Present(l),
         \A j, k \in 1 .. Len(r) : r[j] = r[k] => j = k,
         NEW o \in Offsets, \A j \in 1 .. Len(r) : r[j] # o
  PROVE  RunsThrough(Attach(l, o), Append(r, o))
<1> DEFINE a == Attach(l, o)
           t == Append(r, o)
           n == Len(r)
<1>1. /\ n \in Nat
      /\ None \notin Offsets
      /\ \A j \in 1 .. n : r[j] \in Offsets
      /\ l.links \in [Present(l) -> Links]
  BY NoneAssumption DEF IsList
<1>2. /\ t \in Seq(Offsets) /\ Len(t) = n + 1 /\ t # <<>>
      /\ \A j \in 1 .. n : t[j] = r[j]
      /\ t[n + 1] = o
  BY <1>1
<1>3. /\ a.links[o].older = l.newest
      /\ a.links[o].newer = None
      /\ \A x \in Present(l) : x # o => a.links[x].older = l.links[x].older
      /\ \A x \in Present(l) : x # o =>
           a.links[x].newer = IF x = l.newest THEN o ELSE l.links[x].newer
      /\ a.oldest = IF l.newest = None THEN o ELSE l.oldest
      /\ a.newest = o
  BY <1>1, Zenon DEF Attach, Links
<1>4. /\ n = 0 => l.oldest = None /\ l.newest = None
      /\ n # 0 => l.oldest = r[1] /\ l.newest = r[n] /\ l.newest # None
  BY <1>1 DEF RunsThrough
<1>5. \A j \in 1 .. n :
        /\ l.links[r[j]].older = IF j = 1 THEN None ELSE r[j - 1]
        /\ l.links[r[j]].newer = IF j = n THEN None ELSE r[j + 1]
  BY Zenon DEF RunsThrough
<1> HIDE DEF a, t
<1>6. ASSUME NEW j \in 1 .. n + 1
      PROVE  /\ a.links[t[j]].older = IF j = 1 THEN None ELSE t[j - 1]
             /\ a.links[t[j]].newer = IF j = n + 1 THEN None ELSE t[j + 1]
  <2>1. CASE j = n + 1
    <3>1. t[j] = o
      BY <1>2, <2>1, Zenon
    <3>2. j # 1 => t[j - 1] = r[n] /\ n # 0
      BY <1>1, <1>2, <2>1
    <3> QED
      BY <1>1, <1>3, <1>4, <2>1, <3>1, <3>2
  <2>2. CASE j # n + 1
    <3>1. j \in 1 .. n /\ t[j] = r[j] /\ r[j] \in Present(l) /\ r[j] # o
      BY <1>1, <1>2, <2>2
    <3>2. j # 1 => t[j - 1] = r[j - 1]
      BY <1>1, <1>2, <3>1
    <3>3. r[j] = l.newest <=> j = n
      BY <1>1, <1>4, <3>1
    <3>4. t[j + 1] = IF j = n THEN o ELSE r[j + 1]
      BY <1>1, <1>2, <3>1
    <3> QED
      BY <1>3, <1>5, <2>2, <3>1, <3>2, <3>3, <3>4, SMTT(30)
  <2> QED
    BY <2>1, <2>2, Zenon
<1>7. a.oldest = t[1] /\ a.newest = t[n + 1]
  <2>1. CASE n = 0
    BY <1>2, <1>3, <1>4, <2>1
  <2>2. CASE n # 0
    BY <1>1, <1>2, <1>3, <1>4, <2>2
  <2> QED
    BY <2>1, <2>2, Zenon
<1>8. RunsThrough(a, t)
  BY <1>2, <1>6, <1>7 DEF RunsThrough
<1> QED
  BY <1>8, Zenon DEF a, t

\* remove: the order of the list loses the offset.
LEMMA RemovedLists ==
  ASSUME NEW l, IsList(l), NEW q, Lists(l, q), NEW o \in Offsets
  PROVE  Lists(Removed(l, o), LruRemove(q, o))
<1>1. /\ Len(q) \in Nat /\ q \in Seq(Offsets) /\ DOMAIN q = 1 .. Len(q)
      /\ \A x : x \in Present(l) <=> \E i \in 1 .. Len(q) : q[i] = x
      /\ \A i, j \in 1 .. Len(q) : q[i] = q[j] => i = j
  BY DEF Lists
<1>2. CASE o \notin Present(l)
  <2>1. LruRemove(q, o) = q
    BY <1>1, <1>2, Zenon DEF LruRemove
  <2> QED
    BY <1>2, <2>1, Zenon DEF Removed
<1>3. CASE o \in Present(l)
  <2>1. PICK i \in 1 .. Len(q) : q[i] = o
    BY <1>1, <1>3, Zenon
  <2> DEFINE n == Len(q)
             r == LruRemove(q, o)
             d == Detach(l, o)
             m == Removed(l, o)
  <2>2. /\ r \in Seq(Offsets) /\ Len(r) = n - 1
        /\ \A j \in 1 .. n - 1 : r[j] = IF j < i THEN q[j] ELSE q[j + 1]
    BY <1>1, <2>1, RemoveAt, ZenonT(30)
  <2>3. RunsThrough(d, r)
    BY <2>1, DetachRuns, Zenon
  <2>4. /\ Present(m) = Present(l) \ {o}
        /\ m.oldest = d.oldest /\ m.newest = d.newest
        /\ \A x \in Present(l) \ {o} : m.links[x] = d.links[x]
    BY <1>3, Zenon DEF Removed, Present, Detach
  <2> HIDE DEF r, d, m
  <2>5. ASSUME NEW j \in 1 .. n - 1
        PROVE  r[j] \in Present(l) /\ r[j] # o
    <3>1. CASE j < i
      <4>1. r[j] = q[j] /\ j \in 1 .. n /\ j # i
        BY <1>1, <2>2, <3>1
      <4> QED
        BY <1>1, <2>1, <4>1, Zenon
    <3>2. CASE ~(j < i)
      <4>1. r[j] = q[j + 1] /\ j + 1 \in 1 .. n /\ j + 1 # i
        BY <1>1, <2>2, <3>2
      <4> QED
        BY <1>1, <2>1, <4>1, Zenon
    <3> QED
      BY <3>1, <3>2, Zenon
  <2>6. ASSUME NEW x \in Present(l), x # o
        PROVE  \E j \in 1 .. n - 1 : r[j] = x
    <3>1. PICK k \in 1 .. n : q[k] = x
      BY <1>1, Zenon
    <3>2. CASE k < i
      <4>1. k \in 1 .. n - 1
        BY <1>1, <3>2
      <4> QED
        BY <2>2, <3>1, <3>2, <4>1, Zenon
    <3>3. CASE ~(k < i)
      <4>1. k - 1 \in 1 .. n - 1 /\ ~(k - 1 < i) /\ (k - 1) + 1 = k
        BY <1>1, <2>1, <2>6, <3>1, <3>3
      <4>2. r[k - 1] = q[k]
        BY <2>2, <4>1, Zenon
      <4> QED
        BY <3>1, <4>1, <4>2, Zenon
    <3> QED
      BY <3>2, <3>3, Zenon
  <2>7. ASSUME NEW j \in 1 .. n - 1, NEW k \in 1 .. n - 1, r[j] = r[k]
        PROVE  j = k
    <3> DEFINE jj == IF j < i THEN j ELSE j + 1
               kk == IF k < i THEN k ELSE k + 1
    <3>1. jj \in 1 .. n /\ kk \in 1 .. n
      BY <1>1
    <3>2. r[j] = q[jj] /\ r[k] = q[kk]
      BY <2>2, Zenon
    <3>3. jj = kk
      BY <1>1, <2>7, <3>1, <3>2, Zenon
    <3> QED
      BY <3>3
  <2>8. RunsThrough(m, r)
    <3>1. ASSUME NEW j \in 1 .. Len(r)
          PROVE  m.links[r[j]] = d.links[r[j]]
      BY <2>2, <2>4, <2>5, Zenon
    <3>2. ASSUME NEW j \in 1 .. Len(r)
          PROVE  /\ m.links[r[j]].older = IF j = 1 THEN None ELSE r[j - 1]
                 /\ m.links[r[j]].newer = IF j = Len(r) THEN None ELSE r[j + 1]
      BY <2>3, <3>1, Zenon DEF RunsThrough
    <3> QED
      BY <2>3, <2>4, <3>2, Zenon DEF RunsThrough
  <2>9. \A x : x \in Present(m) <=> \E j \in 1 .. Len(r) : r[j] = x
    BY <2>2, <2>4, <2>5, <2>6, Zenon
  <2>10. \A j, k \in 1 .. Len(r) : r[j] = r[k] => j = k
    BY <2>2, <2>7, Zenon
  <2>11. Lists(m, r)
    BY <2>2, <2>8, <2>9, <2>10, Zenon DEF Lists
  <2> QED
    BY <2>11, Zenon DEF m, r
<1> QED
  BY <1>2, <1>3, Zenon

\* Appending to an order.
LEMMA AppendNames ==
  ASSUME NEW r \in Seq(Offsets), NEW o \in Offsets, NEW P,
         \A x : x \in P <=> \E j \in 1 .. Len(r) : r[j] = x,
         \A j, k \in 1 .. Len(r) : r[j] = r[k] => j = k,
         o \notin P
  PROVE  /\ Append(r, o) \in Seq(Offsets)
         /\ \A x : x \in P \cup {o} <=> \E j \in 1 .. Len(Append(r, o)) : Append(r, o)[j] = x
         /\ \A j, k \in 1 .. Len(Append(r, o)) :
              Append(r, o)[j] = Append(r, o)[k] => j = k
<1> DEFINE t == Append(r, o)
           n == Len(r)
<1>1. n \in Nat
  OBVIOUS
<1>2. /\ t \in Seq(Offsets) /\ Len(t) = n + 1
      /\ \A j \in 1 .. n : t[j] = r[j]
      /\ t[n + 1] = o
  BY <1>1
<1> HIDE DEF t
<1>3. \A j \in 1 .. n + 1 : j \in 1 .. n \/ j = n + 1
  BY <1>1
<1>4. \A j \in 1 .. n : j \in 1 .. n + 1
  BY <1>1
<1>5. n + 1 \in 1 .. n + 1
  BY <1>1
<1>6. \A j \in 1 .. n : r[j] # o
  BY Zenon
<1>7. ASSUME NEW x
      PROVE  x \in P \cup {o} <=> \E j \in 1 .. n + 1 : t[j] = x
  <2>1. ASSUME x \in P PROVE \E j \in 1 .. n + 1 : t[j] = x
    <3>1. PICK j \in 1 .. n : r[j] = x
      BY <2>1, Zenon
    <3> QED
      BY <1>2, <1>4, <3>1, Zenon
  <2>2. ASSUME NEW j \in 1 .. n + 1, t[j] = x PROVE x \in P \cup {o}
    BY <1>2, <1>3, <2>2, Zenon
  <2> QED
    BY <1>2, <1>5, <2>1, <2>2, Zenon
<1>8. ASSUME NEW j \in 1 .. n + 1, NEW k \in 1 .. n + 1, t[j] = t[k]
      PROVE  j = k
  BY <1>2, <1>3, <1>6, <1>8
<1> QED
  BY <1>2, <1>7, <1>8, Zenon DEF t

\* touch: the offset becomes the newest of the order.
LEMMA TouchedLists ==
  ASSUME NEW l, IsList(l), NEW q, Lists(l, q), NEW o \in Offsets
  PROVE  Lists(Touched(l, o), LruTouch(q, o))
<1> DEFINE r == LruRemove(q, o)
           t == Append(r, o)
           n == Len(q)
<1>1. /\ n \in Nat /\ q \in Seq(Offsets) /\ DOMAIN q = 1 .. n
      /\ \A x : x \in Present(l) <=> \E i \in 1 .. n : q[i] = x
      /\ \A i, j \in 1 .. n : q[i] = q[j] => i = j
      /\ RunsThrough(l, q)
      /\ None \notin Offsets
  BY NoneAssumption DEF Lists
<1>2. Lists(Removed(l, o), r)
  BY RemovedLists, Zenon
<1>3. Present(Removed(l, o)) = Present(l) \ {o}
  BY Zenon DEF Removed, Present, Detach
<1>4. /\ r \in Seq(Offsets)
      /\ \A x : x \in Present(l) \ {o} <=> \E j \in 1 .. Len(r) : r[j] = x
      /\ \A j, k \in 1 .. Len(r) : r[j] = r[k] => j = k
  BY <1>2, <1>3, Zenon DEF Lists
<1>5. LruTouch(q, o) = t
  BY Zenon DEF LruTouch
<1> HIDE DEF r
<1>6. CASE l.newest = o
  <2>1. q # <<>> /\ q[n] = o
    BY <1>1, <1>6, Zenon DEF RunsThrough
  <2>2. n # 0 /\ n \in 1 .. n
    BY <1>1, <2>1
  <2>3. /\ Len(r) = n - 1
        /\ \A j \in 1 .. n - 1 : r[j] = IF j < n THEN q[j] ELSE q[j + 1]
    <3>1. PICK i \in 1 .. n : i = n /\ q[i] = o
      BY <2>1, <2>2, Zenon
    <3>2. /\ Len(r) = n - 1
          /\ \A j \in 1 .. n - 1 : r[j] = IF j < i THEN q[j] ELSE q[j + 1]
      <4>1. /\ Len(LruRemove(q, q[i])) = n - 1
            /\ \A j \in 1 .. n - 1 :
                 LruRemove(q, q[i])[j] = IF j < i THEN q[j] ELSE q[j + 1]
        BY <1>1, RemoveAt, Zenon
      <4> QED
        BY <3>1, <4>1, Zenon DEF r
    <3> QED
      BY <3>1, <3>2, Zenon
  <2>4. /\ t \in Seq(Offsets) /\ Len(t) = n /\ t[n] = o
        /\ \A j \in 1 .. n - 1 : t[j] = q[j]
    <3>1. \A j \in 1 .. n - 1 : r[j] = q[j]
      BY <1>1, <2>3
    <3>2. /\ t \in Seq(Offsets) /\ Len(t) = Len(r) + 1
          /\ \A j \in 1 .. Len(r) : t[j] = r[j]
          /\ t[Len(r) + 1] = o
      BY <1>4
    <3>3. Len(r) + 1 = n
      BY <1>1, <2>3
    <3> QED
      BY <2>3, <3>1, <3>2, <3>3, Zenon
  <2> HIDE DEF t
  <2>5. \A j \in 1 .. n : t[j] = q[j]
    BY <1>1, <2>1, <2>4
  <2>6. t = q
    BY <1>1, <2>4, <2>5
  <2> QED
    BY <1>5, <1>6, <2>6, Zenon DEF Touched
<1>7. CASE l.newest # o
  <2> DEFINE b == IF o \in Present(l) THEN Detach(l, o) ELSE l
  <2>1. Touched(l, o) = Attach(b, o)
    BY <1>7, Zenon DEF Touched
  <2>2. RunsThrough(b, r)
    <3>1. CASE o \in Present(l)
      <4>1. PICK i \in 1 .. n : q[i] = o
        BY <1>1, <3>1, Zenon
      <4> QED
        BY <3>1, <4>1, DetachRuns, Zenon DEF r
    <3>2. CASE o \notin Present(l)
      <4>1. r = q
        BY <1>1, <3>2, Zenon DEF LruRemove, r
      <4> QED
        BY <1>1, <3>2, <4>1, Zenon
    <3> QED
      BY <3>1, <3>2, Zenon
  <2>3. IsList(b) /\ Present(b) = Present(l)
    BY DetachIsList, Zenon
  <2> HIDE DEF b
  <2>4. \A j \in 1 .. Len(r) : r[j] \in Present(b) /\ r[j] # o
    BY <1>4, <2>3, Zenon
  <2>5. RunsThrough(Attach(b, o), t)
    BY <1>4, <2>2, <2>3, <2>4, AttachRuns, Zenon
  <2>6. Present(Attach(b, o)) = (Present(l) \ {o}) \cup {o}
    BY <2>3, Zenon DEF Attach, Present
  <2>7. /\ t \in Seq(Offsets)
        /\ \A x : x \in (Present(l) \ {o}) \cup {o} <=> \E j \in 1 .. Len(t) : t[j] = x
        /\ \A j, k \in 1 .. Len(t) : t[j] = t[k] => j = k
    <3> DEFINE P == Present(l) \ {o}
    <3>1. /\ r \in Seq(Offsets) /\ o \notin P
          /\ \A x : x \in P <=> \E j \in 1 .. Len(r) : r[j] = x
          /\ \A j, k \in 1 .. Len(r) : r[j] = r[k] => j = k
      BY <1>4, Zenon
    <3> HIDE DEF P
    <3>2. /\ t \in Seq(Offsets)
          /\ \A x : x \in P \cup {o} <=> \E j \in 1 .. Len(t) : t[j] = x
          /\ \A j, k \in 1 .. Len(t) : t[j] = t[k] => j = k
      BY <3>1, AppendNames, Zenon
    <3> QED
      BY <3>2, Zenon DEF P
  <2> HIDE DEF t
  <2>8. Lists(Attach(b, o), t)
    BY <2>5, <2>6, <2>7, Zenon DEF Lists
  <2> QED
    BY <1>5, <2>1, <2>8, Zenon
<1> QED
  BY <1>6, <1>7, Zenon

\* The empty list has the empty order.
LEMMA EmptyLists == Lists(Empty, <<>>)
<1>1. Present(Empty) = {}
  BY DEF Present, Empty
<1>2. <<>> \in Seq(Offsets) /\ Len(<<>>) = 0
  OBVIOUS
<1>3. 1 .. 0 = {}
  OBVIOUS
<1>4. RunsThrough(Empty, <<>>)
  BY <1>2, <1>3, Zenon DEF RunsThrough, Empty
<1> QED
  BY <1>1, <1>2, <1>3, <1>4, Zenon DEF Lists

\* pop_oldest takes the offset that the order begins with.
LEMMA PoppedLists ==
  ASSUME NEW l, IsList(l), NEW q, Lists(l, q)
  PROVE  /\ l.oldest = None <=> q = <<>>
         /\ q # <<>> => /\ l.oldest = Head(q)
                        /\ Lists(Removed(l, l.oldest), Tail(q))
<1>1. /\ Len(q) \in Nat /\ q \in Seq(Offsets)
      /\ \A i, j \in 1 .. Len(q) : q[i] = q[j] => i = j
      /\ RunsThrough(l, q)
      /\ None \notin Offsets
  BY NoneAssumption DEF Lists
<1>2. CASE q = <<>>
  BY <1>1, <1>2, Zenon DEF RunsThrough
<1>3. CASE q # <<>>
  <2>1. 1 \in 1 .. Len(q)
    BY <1>1, <1>3
  <2>2. l.oldest = q[1] /\ q[1] \in Offsets /\ q[1] = Head(q)
    BY <1>1, <1>3, <2>1 DEF RunsThrough
  <2>3. Lists(Removed(l, q[1]), LruRemove(q, q[1]))
    BY <2>2, RemovedLists, Zenon
  <2> DEFINE r == LruRemove(q, q[1])
             t == Tail(q)
  <2>4. PICK i \in 1 .. Len(q) : i = 1
    BY <2>1, Zenon
  <2>5. /\ r \in Seq(Offsets) /\ Len(r) = Len(q) - 1
        /\ \A j \in 1 .. Len(q) - 1 : r[j] = IF j < i THEN q[j] ELSE q[j + 1]
    BY <1>1, <2>4, RemoveAt, Zenon
  <2>6. /\ t \in Seq(Offsets) /\ Len(t) = Len(q) - 1
        /\ \A j \in 1 .. Len(q) - 1 : t[j] = q[j + 1]
    BY <1>1, <1>3
  <2> HIDE DEF r, t
  <2>7. \A j \in 1 .. Len(q) - 1 : r[j] = q[j + 1]
    BY <1>1, <2>4, <2>5
  <2>8. r = t
    BY <2>5, <2>6, <2>7
  <2> QED
    BY <1>1, <1>3, <2>2, <2>3, <2>8, Zenon DEF r, t
<1> QED
  BY <1>2, <1>3, Zenon

\* The invariant: the list runs through some order of the present offsets.
Ordered == IsList(lru) /\ \E q : Lists(lru, q)

\* OffsetLru implements the recency order that the caches rely on: whatever the
\* sequence of operations, the links hold every present offset once, touch makes
\* an offset the newest, and pop_oldest returns the least recently touched one.
THEOREM ListImplementsOrder == Spec => ImplementsRecencyOrder
<1>1. Init => Ordered /\ Order!Init
  <2> SUFFICES ASSUME Init PROVE Ordered /\ Order!Init
    BY Zenon
  <2>1. Lists(lru, <<>>)
    BY EmptyLists, Zenon DEF Init
  <2>2. OrderOf(lru) = <<>>
    BY <2>1, OrderIs, Zenon
  <2>3. IsList(lru)
    <3>1. Present(Empty) = {}
      BY DEF Present, Empty
    <3>2. Empty.links \in [{} -> Links]
      BY DEF Empty
    <3> QED
      BY <3>1, <3>2, Zenon DEF IsList, Empty, Init
  <2> QED
    BY <2>1, <2>2, <2>3, Zenon DEF Ordered, Order!Init, Init
<1>2. Spec => []IInv
  BY Inductive, Zenon
<1>3. IInv /\ IInv' /\ Ordered /\ [Next]_vars => Ordered' /\ [Order!Next]_(Order!vars)
  <2> SUFFICES ASSUME IInv, IInv', Ordered, [Next]_vars
               PROVE  Ordered' /\ [Order!Next]_(Order!vars)
    BY Zenon
  <2>1. PICK q : Lists(lru, q)
    BY Zenon DEF Ordered
  <2>2. IsList(lru) /\ IsList(lru')
    BY Zenon DEF IInv, TypeOK, IsList, Present
  <2>3. OrderOf(lru) = q
    BY <2>1, OrderIs, Zenon
  <2>4. ASSUME NEW t, Lists(lru', t)
        PROVE  Ordered' /\ OrderOf(lru') = t
    BY <2>2, <2>4, OrderIs, Zenon DEF Ordered
  <2>5. ASSUME NEW o \in Offsets, Touch(o)
        PROVE  Ordered' /\ [Order!Next]_(Order!vars)
    <3>1. Lists(lru', LruTouch(q, o))
      BY <2>1, <2>2, <2>5, TouchedLists, Zenon DEF Touch
    <3>2. Ordered' /\ OrderOf(lru') = LruTouch(q, o)
      BY <2>4, <3>1, Zenon
    <3>3. Order!TouchOffset(o)
      BY <2>3, <2>5, <3>2, Zenon DEF Order!TouchOffset, Order!LruTouch, Order!LruRemove,
         LruTouch, LruRemove, Touch
    <3> QED
      BY <3>2, <3>3, Zenon DEF Order!Next
  <2>6. ASSUME NEW o \in Offsets, Remove(o)
        PROVE  Ordered' /\ [Order!Next]_(Order!vars)
    <3>1. Lists(lru', LruRemove(q, o))
      BY <2>1, <2>2, <2>6, RemovedLists, Zenon DEF Remove
    <3>2. Ordered' /\ OrderOf(lru') = LruRemove(q, o)
      BY <2>4, <3>1, Zenon
    <3>3. Order!RemoveOffset(o)
      BY <2>3, <2>6, <3>2, Zenon DEF Order!RemoveOffset, Order!LruRemove, LruRemove, Remove
    <3> QED
      BY <3>2, <3>3, Zenon DEF Order!Next
  <2>7. CASE PopOldest
    <3>1. CASE lru.oldest = None
      <4>1. q = <<>> /\ lru' = lru /\ popped' = None
        BY <2>1, <2>2, <2>7, <3>1, PoppedLists DEF PopOldest
      <4>2. Ordered' /\ OrderOf(lru') = q
        BY <2>1, <2>4, <4>1, Zenon
      <4>3. Order!PopOldest
        BY <2>3, <4>1, <4>2, Zenon DEF Order!PopOldest
      <4> QED
        BY <4>2, <4>3, Zenon DEF Order!Next
    <3>2. CASE lru.oldest # None
      <4>1. /\ q # <<>> /\ lru.oldest = Head(q)
            /\ Lists(lru', Tail(q))
            /\ popped' = Head(q)
        BY <2>1, <2>2, <2>7, <3>2, PoppedLists, Zenon DEF PopOldest
      <4>2. Ordered' /\ OrderOf(lru') = Tail(q)
        BY <2>4, <4>1, Zenon
      <4>3. Order!PopOldest
        BY <2>3, <4>1, <4>2, Zenon DEF Order!PopOldest
      <4> QED
        BY <4>2, <4>3, Zenon DEF Order!Next
    <3> QED
      BY <3>1, <3>2, Zenon
  <2>8. CASE Clear
    <3>1. Ordered' /\ OrderOf(lru') = <<>>
      BY <2>4, <2>8, EmptyLists, Zenon DEF Clear
    <3>2. Order!Clear
      BY <2>8, <3>1, Zenon DEF Order!Clear, Clear
    <3> QED
      BY <3>1, <3>2, Zenon DEF Order!Next
  <2>9. CASE UNCHANGED vars
    <3>1. lru' = lru /\ popped' = popped
      BY <2>9, Zenon DEF vars
    <3>2. Ordered' /\ OrderOf(lru') = q
      BY <2>1, <2>4, <3>1, Zenon
    <3> QED
      BY <2>3, <3>1, <3>2, Zenon DEF Order!vars
  <2> QED
    BY <2>5, <2>6, <2>7, <2>8, <2>9, Zenon DEF Next
<1> QED
  BY <1>1, <1>2, <1>3, PTL DEF Spec, ImplementsRecencyOrder, Order!Spec

=============================================================================

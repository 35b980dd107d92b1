------------------------ MODULE NativeOwnershipProofs ------------------------
(***************************************************************************)
(* Proofs about the way from trainers to writers of NativeHandles: however *)
(* many trainers and threads there are, a native object has one owner, and *)
(* nothing uses or frees it after it was freed.                            *)
(***************************************************************************)
EXTENDS NativeHandles, TLAPS

(***************************************************************************)
(* Ownership.  A pointer is held by an object, by a constructor as the     *)
(* training it took, or by a constructor as the writer it was given.  The  *)
(* invariant: a live native object is held once and a freed one not at all *)
(* (Owned); it is inductive because the objects that come from one trainer *)
(* never hold a pointer at the same time (Staged), so that no pointer is   *)
(* overwritten.                                                            *)
(***************************************************************************)

Natives == [kind : Kinds, full : BOOLEAN, live : BOOLEAN, late : BOOLEAN]

OwnershipTypes ==
  /\ binding \in {"python", "java"}
  /\ \E n \in Nat : native \in [1 .. n -> Natives]
  /\ ptr \in [Objects -> DOMAIN native \cup {None}]
  /\ todo \in [Clients -> Openings \cup {None}]
  /\ \A t \in Clients : todo[t] # None =>
       /\ todo[t].pc # "keep" => todo[t].training \in DOMAIN native
       /\ todo[t].writer \in DOMAIN native \cup {None}
       /\ todo[t].pc = "open" => todo[t].writer = None

Owned ==
  \A p \in DOMAIN native :
    /\ ~native[p].late
    /\ native[p].live => \E s : Holders(p) = {s}
    /\ ~native[p].live => Holders(p) = {}

Staged ==
  /\ \A of \in 1 .. Trainers :
       /\ ptr[Obj("trainer", of)] # None =>
            ptr[Obj("training", of)] = None /\ ptr[Obj("writer", of)] = None
       /\ ptr[Obj("training", of)] # None => ptr[Obj("writer", of)] = None
  /\ \A t \in Clients : todo[t] # None =>
       /\ ptr[Obj("trainer", todo[t].of)] = None
       /\ ptr[Obj("training", todo[t].of)] = None
       /\ ptr[Obj("writer", todo[t].of)] = None
       /\ \A u \in Clients : todo[u] # None /\ todo[u].of = todo[t].of => u = t

OInv == OwnershipTypes /\ Owned /\ Staged

\* Who holds a pointer.
LEMMA HoldersAre ==
  ASSUME NEW p, NEW s
  PROVE  s \in Holders(p) <=>
           \/ \E o \in Objects : s = <<o, "object">> /\ ptr[o] = p
           \/ \E t \in Clients : /\ s = <<t, "training">>
                                 /\ todo[t] # None /\ todo[t].pc # "keep"
                                 /\ todo[t].training = p
           \/ \E t \in Clients : /\ s = <<t, "writer">>
                                 /\ todo[t] # None /\ todo[t].writer = p
BY DEF Holders, Idle

\* Objects are told apart by their kind and their trainer.
LEMMA ObjectsAre ==
  /\ \A kind \in Kinds, of \in 1 .. Trainers : Obj(kind, of) \in Objects
  /\ \A k, l \in Kinds, a, b \in 1 .. Trainers : Obj(k, a) = Obj(l, b) => k = l /\ a = b
BY DEF Obj, Objects

\* A use marks an object late only if it was freed.
LEMMA UsedIs ==
  ASSUME NEW D, NEW n \in [D -> Natives], NEW p \in D
  PROVE  /\ Used(n, p) \in [D -> Natives]
         /\ \A q \in D : q # p => Used(n, p)[q] = n[q]
         /\ Used(n, p)[p].live <=> n[p].live
         /\ Used(n, p)[p].late <=> n[p].late \/ ~n[p].live
BY Zenon DEF Used, Natives

\* Freeing ends the life of one object.
LEMMA FreeIs ==
  ASSUME NEW D, NEW n \in [D -> Natives], NEW p \in D
  PROVE  /\ Free(n, p) \in [D -> Natives]
         /\ \A q \in D : q # p => Free(n, p)[q] = n[q]
         /\ ~Free(n, p)[p].live
         /\ Free(n, p)[p].late <=> n[p].late \/ ~n[p].live
<1>1. /\ Used(n, p) \in [D -> Natives]
      /\ \A q \in D : q # p => Used(n, p)[q] = n[q]
      /\ Used(n, p)[p].late <=> n[p].late \/ ~n[p].live
  BY UsedIs
<1> QED
  BY <1>1, ZenonT(30) DEF Free, Natives

\* Emptying an object keeps its life.
LEMMA EmptiedIs ==
  ASSUME NEW D, NEW n \in [D -> Natives], NEW p \in D
  PROVE  /\ [n EXCEPT ![p].full = FALSE] \in [D -> Natives]
         /\ \A q \in D : q # p => [n EXCEPT ![p].full = FALSE][q] = n[q]
         /\ [n EXCEPT ![p].full = FALSE][p].live <=> n[p].live
         /\ [n EXCEPT ![p].full = FALSE][p].late <=> n[p].late
BY Zenon DEF Natives

\* Allocating adds one live object, whose pointer nobody holds yet.
LEMMA AllocIs ==
  ASSUME NEW n \in Nat, native \in [1 .. n -> Natives], NEW m \in [1 .. n -> Natives],
         NEW kind \in Kinds
  PROVE  /\ Fresh = n + 1
         /\ Alloc(m, kind) \in [1 .. n + 1 -> Natives]
         /\ \A q \in 1 .. n : Alloc(m, kind)[q] = m[q]
         /\ Alloc(m, kind)[n + 1].live
         /\ ~Alloc(m, kind)[n + 1].late
<1>1. Fresh = n + 1
  <2>1. Len(native) = n
    OBVIOUS
  <2> QED
    BY <2>1 DEF Fresh
<1>2. 1 .. n + 1 = 1 .. n \cup {n + 1} /\ n + 1 \notin 1 .. n
  OBVIOUS
<1>3. DOMAIN m = 1 .. n
  OBVIOUS
<1>4. New(kind) \in Natives /\ New(kind).live /\ ~New(kind).late
  BY DEF New, Natives
<1>5. Alloc(m, kind) = [p \in 1 .. n + 1 |-> IF p = n + 1 THEN New(kind) ELSE m[p]]
  BY <1>1, <1>2, <1>3 DEF Alloc
<1>6. \A q \in 1 .. n : q # n + 1 /\ q \in 1 .. n + 1
  OBVIOUS
<1> QED
  BY <1>1, <1>2, <1>4, <1>5, <1>6

\* The same of the next state.
LEMMA HoldersNext ==
  ASSUME NEW p, NEW s
  PROVE  s \in Holders(p)' <=>
           \/ \E o \in Objects : s = <<o, "object">> /\ ptr'[o] = p
           \/ \E t \in Clients : /\ s = <<t, "training">>
                                 /\ todo'[t] # None /\ todo'[t].pc # "keep"
                                 /\ todo'[t].training = p
           \/ \E t \in Clients : /\ s = <<t, "writer">>
                                 /\ todo'[t] # None /\ todo'[t].writer = p
BY DEF Holders, Idle

\* A pointer that is held is that of a live object, and has one holder.
LEMMA HeldAlone ==
  ASSUME OInv
  PROVE  /\ \A o \in Objects : ptr[o] # None =>
              /\ ptr[o] \in DOMAIN native /\ native[ptr[o]].live
              /\ Holders(ptr[o]) = {<<o, "object">>}
         /\ \A t \in Clients : todo[t] # None /\ todo[t].pc # "keep" =>
              /\ todo[t].training \in DOMAIN native /\ native[todo[t].training].live
              /\ Holders(todo[t].training) = {<<t, "training">>}
         /\ \A t \in Clients : todo[t] # None /\ todo[t].writer # None =>
              /\ todo[t].writer \in DOMAIN native /\ native[todo[t].writer].live
              /\ Holders(todo[t].writer) = {<<t, "writer">>}
<1>1. ASSUME NEW p \in DOMAIN native, NEW s \in Holders(p)
      PROVE  native[p].live /\ Holders(p) = {s}
  BY DEF OInv, Owned
<1>2. ASSUME NEW o \in Objects, ptr[o] # None
      PROVE  ptr[o] \in DOMAIN native /\ <<o, "object">> \in Holders(ptr[o])
  BY <1>2, HoldersAre DEF OInv, OwnershipTypes
<1>3. ASSUME NEW t \in Clients, todo[t] # None, todo[t].pc # "keep"
      PROVE  todo[t].training \in DOMAIN native /\ <<t, "training">> \in Holders(todo[t].training)
  BY <1>3, HoldersAre DEF OInv, OwnershipTypes
<1>4. ASSUME NEW t \in Clients, todo[t] # None, todo[t].writer # None
      PROVE  todo[t].writer \in DOMAIN native /\ <<t, "writer">> \in Holders(todo[t].writer)
  BY <1>4, HoldersAre DEF OInv, OwnershipTypes
<1> QED
  BY <1>1, <1>2, <1>3, <1>4, Zenon

\* Using an open object.
LEMMA UseKeeps ==
  ASSUME OInv, NEW t \in Clients, NEW o \in Objects, Use(t, o), UNCHANGED binding
  PROVE  OInv'
<1>0. PICK p : p = ptr[o]
  OBVIOUS
<1>1. PICK n \in Nat : native \in [1 .. n -> Natives]
  BY DEF OInv, OwnershipTypes
<1>2. p \in 1 .. n /\ native[p].live /\ ~native[p].late
  BY <1>0, <1>1, HeldAlone, Zenon DEF Use, OInv, Owned
<1>3. native' = Used(native, p) /\ ptr' = ptr /\ todo' = todo
  BY <1>0 DEF Use
<1>4. /\ native' \in [1 .. n -> Natives]
      /\ \A q \in 1 .. n : (native'[q].live <=> native[q].live) /\ ~native'[q].late
  <2>1. /\ native' \in [1 .. n -> Natives]
        /\ \A q \in 1 .. n : q # p => native'[q] = native[q]
        /\ native'[p].live <=> native[p].live
        /\ native'[p].late <=> native[p].late \/ ~native[p].live
    BY <1>1, <1>2, <1>3, UsedIs
  <2>2. \A q \in 1 .. n : ~native[q].late
    BY <1>1 DEF OInv, Owned
  <2> QED
    BY <1>2, <2>1, <2>2
<1>5. \A q : Holders(q)' = Holders(q)
  BY <1>3 DEF Holders, Idle
<1>6. DOMAIN native' = DOMAIN native /\ DOMAIN native = 1 .. n
  BY <1>1, <1>4
<1>7. OwnershipTypes'
  BY <1>3, <1>4, <1>6, Zenon DEF OInv, OwnershipTypes
<1>8. Owned'
  BY <1>4, <1>5, <1>6, Zenon DEF OInv, Owned
<1>9. Staged'
  BY <1>3 DEF OInv, Staged
<1> QED
  BY <1>7, <1>8, <1>9 DEF OInv

\* Closing an object frees what it holds.
LEMMA CloseKeeps ==
  ASSUME OInv, NEW t \in Clients, NEW o \in Objects, Close(t, o), UNCHANGED binding
  PROVE  OInv'
<1>0. PICK p : p = ptr[o]
  OBVIOUS
<1>1. PICK n \in Nat : native \in [1 .. n -> Natives]
  BY DEF OInv, OwnershipTypes
<1>2. /\ ptr \in [Objects -> 1 .. n \cup {None}]
      /\ todo' = todo /\ ptr' = [ptr EXCEPT ![o] = None]
      /\ native' = IF p = None THEN native ELSE Free(native, p)
      /\ None \notin 1 .. n
  BY <1>0, <1>1, OwnershipAssumption DEF OInv, OwnershipTypes, Close
<1>3. /\ ptr' \in [Objects -> 1 .. n \cup {None}]
      /\ ptr'[o] = None
      /\ \A x \in Objects : x # o => ptr'[x] = ptr[x]
  BY <1>2
<1>4. ASSUME NEW q \in 1 .. n, NEW s
      PROVE  s \in Holders(q)' <=> s \in Holders(q) /\ s # <<o, "object">>
  <2>1. \A x \in Objects : ptr'[x] = q <=> ptr[x] = q /\ x # o
    BY <1>2, <1>3
  <2> QED
    BY <1>2, <2>1, HoldersAre, HoldersNext
<1>5. CASE p = None
  <2>1. \A q \in 1 .. n : <<o, "object">> \notin Holders(q)
    <3>1. \A q \in 1 .. n : ptr[o] # q
      BY <1>0, <1>2, <1>5
    <3> QED
      BY <3>1, HoldersAre
  <2>2. \A q \in 1 .. n : Holders(q)' = Holders(q)
    BY <1>4, <2>1
  <2>3. native' = native
    BY <1>2, <1>5
  <2>4. ptr' = ptr
    BY <1>0, <1>2, <1>3, <1>5, Zenon
  <2>5. Owned'
    BY <1>1, <2>2, <2>3, Zenon DEF OInv, Owned
  <2>6. OwnershipTypes' /\ Staged'
    BY <1>2, <2>3, <2>4 DEF OInv, OwnershipTypes, Staged
  <2> QED
    BY <2>5, <2>6 DEF OInv
<1>6. CASE p # None
  <2>1. p \in 1 .. n /\ native[p].live /\ ~native[p].late /\ Holders(p) = {<<o, "object">>}
    BY <1>0, <1>1, <1>6, HeldAlone, Zenon DEF OInv, Owned
  <2>2. /\ native' \in [1 .. n -> Natives]
        /\ \A q \in 1 .. n : q # p => native'[q] = native[q]
        /\ ~native'[p].live /\ ~native'[p].late
    <3>1. native' = Free(native, p)
      BY <1>2, <1>6
    <3>2. /\ native' \in [1 .. n -> Natives]
          /\ \A q \in 1 .. n : q # p => native'[q] = native[q]
          /\ ~native'[p].live
          /\ native'[p].late <=> native[p].late \/ ~native[p].live
      <4>1. p \in 1 .. n
        BY <2>1
      <4> HIDE DEF Holders
      <4> QED
        BY <1>1, <3>1, <4>1, FreeIs
    <3> QED
      BY <2>1, <3>2
  <2>3. Holders(p)' = {}
    BY <1>4, <2>1
  <2>4. ASSUME NEW q \in 1 .. n, q # p
        PROVE  Holders(q)' = Holders(q)
    <3>1. <<o, "object">> \notin Holders(q)
      BY <1>0, <2>4, HoldersAre
    <3> QED
      BY <1>4, <3>1
  <2>5. Owned'
    BY <1>1, <2>1, <2>2, <2>3, <2>4, ZenonT(30) DEF OInv, Owned
  <2>6. OwnershipTypes'
    BY <1>1, <1>2, <1>3, <2>2 DEF OInv, OwnershipTypes
  <2>7. Staged'
    BY <1>2, <1>3, ObjectsAre DEF OInv, Staged
  <2> QED
    BY <2>5, <2>6, <2>7 DEF OInv
<1> QED
  BY <1>5, <1>6

\* A constructor takes the pointer of a training.
LEMMA TakeHandleKeeps ==
  ASSUME OInv, NEW t \in Clients, NEW of \in 1 .. Trainers, TakeHandle(t, of), UNCHANGED binding
  PROVE  OInv'
<1>0. PICK o, p : o = Obj("training", of) /\ p = ptr[o]
  OBVIOUS
<1>1. PICK n \in Nat : native \in [1 .. n -> Natives]
  BY DEF OInv, OwnershipTypes
<1> DEFINE opening == [pc |-> "open", training |-> p, writer |-> None, of |-> of]
<1>2. /\ o \in Objects /\ todo[t] = None /\ p # None
      /\ ptr' = [ptr EXCEPT ![o] = None] /\ todo' = [todo EXCEPT ![t] = opening]
      /\ native' = native
  BY <1>0, ObjectsAre DEF TakeHandle, Idle, Kinds
<1>3. p \in 1 .. n /\ native[p].live /\ Holders(p) = {<<o, "object">>}
  BY <1>0, <1>1, <1>2, HeldAlone
<1>4. /\ ptr \in [Objects -> 1 .. n \cup {None}]
      /\ todo \in [Clients -> Openings \cup {None}]
      /\ None \notin 1 .. n
  BY <1>1, OwnershipAssumption DEF OInv, OwnershipTypes
<1>5. /\ opening \in Openings /\ opening # None
      /\ opening.pc = "open" /\ opening.training = p /\ opening.writer = None /\ opening.of = of
  BY <1>3, OwnershipAssumption DEF Openings
<1> HIDE DEF opening
<1>6. /\ ptr' \in [Objects -> 1 .. n \cup {None}] /\ ptr'[o] = None
      /\ \A x \in Objects : x # o => ptr'[x] = ptr[x]
  BY <1>2, <1>4
<1>7. /\ todo' \in [Clients -> Openings \cup {None}] /\ todo'[t] = opening
      /\ \A u \in Clients : u # t => todo'[u] = todo[u]
  BY <1>2, <1>4, <1>5
<1>8. ASSUME NEW q \in 1 .. n, NEW s
      PROVE  s \in Holders(q)' <=> \/ s \in Holders(q) /\ s # <<o, "object">>
                                   \/ s = <<t, "training">> /\ q = p
  <2>1. \A x \in Objects : ptr'[x] = q <=> ptr[x] = q /\ x # o
    BY <1>4, <1>6
  <2>2. \A u \in Clients : (todo'[u] # None /\ todo'[u].writer = q) <=> (todo[u] # None /\ todo[u].writer = q)
    BY <1>2, <1>4, <1>5, <1>7
  <2>3. \A u \in Clients : (todo'[u] # None /\ todo'[u].pc # "keep" /\ todo'[u].training = q)
                     <=> \/ todo[u] # None /\ todo[u].pc # "keep" /\ todo[u].training = q
                         \/ u = t /\ q = p
    BY <1>2, <1>5, <1>7
  <2> QED
    BY <2>1, <2>2, <2>3, HoldersAre, HoldersNext
<1>9. Holders(p)' = {<<t, "training">>}
  BY <1>3, <1>8
<1>10. ASSUME NEW q \in 1 .. n, q # p
       PROVE  Holders(q)' = Holders(q)
  <2>1. <<o, "object">> \notin Holders(q)
    BY <1>0, <1>10, HoldersAre
  <2> QED
    BY <1>8, <1>10, <2>1
<1>11. Owned'
  BY <1>1, <1>2, <1>3, <1>9, <1>10, Zenon DEF OInv, Owned
<1>12. OwnershipTypes'
  BY <1>1, <1>2, <1>3, <1>5, <1>6, <1>7, Zenon DEF OInv, OwnershipTypes
<1>13. Staged'
  <2>1. /\ \A x \in Objects : ptr'[x] # None => ptr[x] # None /\ x # o
        /\ ptr[Obj("trainer", of)] = None /\ ptr[Obj("writer", of)] = None
    BY <1>0, <1>2, <1>4, <1>6, ObjectsAre DEF OInv, Staged
  <2>2. \A u \in Clients : todo[u] # None => todo[u].of # of /\ todo[u].of \in 1 .. Trainers
    BY <1>0, <1>2, <1>4 DEF OInv, Staged, Openings
  <2> QED
    BY <1>0, <1>2, <1>5, <1>7, <2>1, <2>2, ObjectsAre DEF OInv, Staged, Kinds
<1> QED
  BY <1>11, <1>12, <1>13 DEF OInv

\* A constructor frees the training it took, whatever came of it.
LEMMA TrainingFreeKeeps ==
  ASSUME OInv, NEW t \in Clients, TrainingFree(t), UNCHANGED binding
  PROVE  OInv'
<1>0. PICK p : p = todo[t].training
  OBVIOUS
<1>1. PICK n \in Nat : native \in [1 .. n -> Natives]
  BY DEF OInv, OwnershipTypes
<1>2. /\ todo[t] # None /\ todo[t].pc = "free"
      /\ native' = Free(native, p) /\ todo' = [todo EXCEPT ![t].pc = "keep"]
      /\ ptr' = ptr
  BY <1>0 DEF TrainingFree, Idle
<1>3. p \in 1 .. n /\ native[p].live /\ ~native[p].late /\ Holders(p) = {<<t, "training">>}
  BY <1>0, <1>1, <1>2, HeldAlone, Zenon DEF OInv, Owned
<1>4. /\ native' \in [1 .. n -> Natives]
      /\ \A q \in 1 .. n : q # p => native'[q] = native[q]
      /\ ~native'[p].live /\ ~native'[p].late
  <2>1. p \in 1 .. n
    BY <1>3
  <2>2. /\ native' \in [1 .. n -> Natives]
        /\ \A q \in 1 .. n : q # p => native'[q] = native[q]
        /\ ~native'[p].live
        /\ native'[p].late <=> native[p].late \/ ~native[p].live
    BY <1>1, <1>2, <2>1, FreeIs
  <2> QED
    BY <1>3, <2>2
<1>5. /\ todo' \in [Clients -> Openings \cup {None}]
      /\ todo'[t] # None /\ todo'[t].pc = "keep"
      /\ todo'[t].writer = todo[t].writer /\ todo'[t].of = todo[t].of
      /\ \A u \in Clients : u # t => todo'[u] = todo[u]
  BY <1>2, OwnershipAssumption DEF OInv, OwnershipTypes, Openings
<1>6. ASSUME NEW q \in 1 .. n, NEW s
      PROVE  s \in Holders(q)' <=> s \in Holders(q) /\ s # <<t, "training">>
  <2>1. \A u \in Clients : (todo'[u] # None /\ todo'[u].writer = q) <=> (todo[u] # None /\ todo[u].writer = q)
    BY <1>2, <1>5
  <2>2. \A u \in Clients : (todo'[u] # None /\ todo'[u].pc # "keep" /\ todo'[u].training = q)
                     <=> u # t /\ todo[u] # None /\ todo[u].pc # "keep" /\ todo[u].training = q
    BY <1>2, <1>5
  <2> QED
    BY <1>2, <2>1, <2>2, HoldersAre, HoldersNext
<1>7. Holders(p)' = {}
  BY <1>3, <1>6
<1>8. ASSUME NEW q \in 1 .. n, q # p
      PROVE  Holders(q)' = Holders(q)
  <2>1. <<t, "training">> \notin Holders(q)
    BY <1>0, <1>8, HoldersAre
  <2> QED
    BY <1>6, <2>1
<1>9. Owned'
  BY <1>1, <1>3, <1>4, <1>7, <1>8, Zenon DEF OInv, Owned
<1>10. OwnershipTypes'
  BY <1>1, <1>2, <1>4, <1>5 DEF OInv, OwnershipTypes
<1>11. Staged'
  BY <1>2, <1>5 DEF OInv, Staged
<1> QED
  BY <1>9, <1>10, <1>11 DEF OInv

\* A constructor hands the writer to its object, or raises.
LEMMA KeepWriterKeeps ==
  ASSUME OInv, NEW t \in Clients, KeepWriter(t), UNCHANGED binding
  PROVE  OInv'
<1>0. PICK o, p, of : o = Obj("writer", of) /\ p = todo[t].writer /\ of = todo[t].of
  OBVIOUS
<1>1. PICK n \in Nat : native \in [1 .. n -> Natives]
  BY DEF OInv, OwnershipTypes
<1>2. /\ todo[t] # None /\ todo[t].pc = "keep"
      /\ ptr' = IF p = None THEN ptr ELSE [ptr EXCEPT ![o] = p]
      /\ todo' = [todo EXCEPT ![t] = None] /\ native' = native
  BY <1>0 DEF KeepWriter, Idle
<1>3. /\ ptr \in [Objects -> 1 .. n \cup {None}]
      /\ todo \in [Clients -> Openings \cup {None}]
      /\ None \notin 1 .. n /\ p \in 1 .. n \cup {None}
  BY <1>0, <1>1, <1>2, OwnershipAssumption DEF OInv, OwnershipTypes
<1>4. /\ of \in 1 .. Trainers /\ o \in Objects /\ ptr[o] = None
      /\ ptr[Obj("trainer", of)] = None /\ ptr[Obj("training", of)] = None
  BY <1>0, <1>2, <1>3, ObjectsAre DEF OInv, Staged, Openings, Kinds
<1>5. /\ ptr' \in [Objects -> 1 .. n \cup {None}] /\ ptr'[o] = p
      /\ \A x \in Objects : x # o => ptr'[x] = ptr[x]
  BY <1>2, <1>3, <1>4
<1>6. /\ todo' \in [Clients -> Openings \cup {None}] /\ todo'[t] = None
      /\ \A u \in Clients : u # t => todo'[u] = todo[u]
  BY <1>2, <1>3
<1>7. ASSUME NEW q \in 1 .. n, NEW s
      PROVE  s \in Holders(q)' <=> \/ s \in Holders(q) /\ s # <<t, "writer">>
                                   \/ s = <<o, "object">> /\ q = p
  <2>1. \A x \in Objects : ptr'[x] = q <=> ptr[x] = q \/ (x = o /\ q = p)
    BY <1>3, <1>4, <1>5
  <2>2. \A u \in Clients : (todo'[u] # None /\ todo'[u].writer = q)
                     <=> u # t /\ todo[u] # None /\ todo[u].writer = q
    BY <1>6
  <2>3. \A u \in Clients : (todo'[u] # None /\ todo'[u].pc # "keep" /\ todo'[u].training = q)
                     <=> todo[u] # None /\ todo[u].pc # "keep" /\ todo[u].training = q
    BY <1>2, <1>6
  <2> QED
    BY <1>4, <2>1, <2>2, <2>3, HoldersAre, HoldersNext
<1>8. ASSUME p # None
      PROVE  Holders(p)' = {<<o, "object">>} /\ native[p].live
  <2>1. p \in 1 .. n /\ native[p].live /\ Holders(p) = {<<t, "writer">>}
    BY <1>0, <1>1, <1>2, <1>3, <1>8, HeldAlone
  <2> QED
    BY <1>7, <2>1
<1>9. ASSUME NEW q \in 1 .. n, q # p
      PROVE  Holders(q)' = Holders(q)
  <2>1. <<t, "writer">> \notin Holders(q)
    BY <1>0, <1>9, HoldersAre
  <2> QED
    BY <1>7, <1>9, <2>1
<1>10. Owned'
  <2>1. ASSUME NEW q \in 1 .. n
        PROVE  /\ native[q].live => \E s : Holders(q)' = {s}
               /\ ~native[q].live => Holders(q)' = {}
    BY <1>1, <1>3, <1>8, <1>9, Zenon DEF OInv, Owned
  <2> QED
    BY <1>1, <1>2, <2>1, Zenon DEF OInv, Owned
<1>11. OwnershipTypes'
  BY <1>1, <1>2, <1>5, <1>6 DEF OInv, OwnershipTypes
<1>12. Staged'
  <2>1. \A u \in Clients : todo'[u] # None =>
          u # t /\ todo'[u] = todo[u] /\ todo[u].of # of /\ todo[u].of \in 1 .. Trainers
    BY <1>0, <1>2, <1>3, <1>6 DEF OInv, Staged, Openings
  <2>2. \A k \in Kinds, a \in 1 .. Trainers : k # "writer" \/ a # of => ptr'[Obj(k, a)] = ptr[Obj(k, a)]
    BY <1>0, <1>4, <1>5, ObjectsAre DEF Kinds
  <2> QED
    BY <1>4, <2>1, <2>2 DEF OInv, Staged, Kinds
<1> QED
  BY <1>10, <1>11, <1>12 DEF OInv

\* Finishing consumes and frees the trainer, and gives a training when it succeeds.
LEMMA FinishTrainingKeeps ==
  ASSUME OInv, NEW t \in Clients, NEW of \in 1 .. Trainers, NEW ok \in BOOLEAN,
         FinishTraining(t, of, ok), UNCHANGED binding
  PROVE  OInv'
<1>0. PICK o, r, p : o = Obj("trainer", of) /\ r = Obj("training", of) /\ p = ptr[o]
  OBVIOUS
<1>1. PICK n \in Nat : native \in [1 .. n -> Natives]
  BY DEF OInv, OwnershipTypes
<1>2. PICK m : m = [native EXCEPT ![p].full = FALSE]
  BY Zenon
<1> DEFINE d == Free(m, p)
           made == ok /\ native[p].full
<1>0a. todo' = todo
  BY DEF FinishTraining
<1>3. /\ p # None
      /\ native' = IF made THEN Alloc(d, "training") ELSE d
      /\ ptr' = [ptr EXCEPT ![o] = None, ![r] = IF made THEN Fresh ELSE None]
  BY <1>0, <1>2 DEF FinishTraining
<1> HIDE DEF made
<1>4. /\ ptr \in [Objects -> 1 .. n \cup {None}]
      /\ todo \in [Clients -> Openings \cup {None}]
      /\ None \notin Nat
  BY <1>1, OwnershipAssumption DEF OInv, OwnershipTypes
<1>5. o \in Objects /\ r \in Objects /\ r # o
  BY <1>0, ObjectsAre DEF Kinds
<1>6. p \in 1 .. n /\ native[p].live /\ ~native[p].late /\ Holders(p) = {<<o, "object">>}
  BY <1>0, <1>1, <1>3, <1>5, HeldAlone, Zenon DEF OInv, Owned
<1>7. ptr[r] = None /\ ptr[Obj("writer", of)] = None
  BY <1>0, <1>3 DEF OInv, Staged
<1>8. /\ d \in [1 .. n -> Natives]
      /\ \A q \in 1 .. n : q # p => d[q] = native[q]
      /\ ~d[p].live /\ ~d[p].late
  <2>0. p \in 1 .. n
    BY <1>6
  <2>1. /\ m \in [1 .. n -> Natives] /\ \A q \in 1 .. n : q # p => m[q] = native[q]
        /\ m[p].live <=> native[p].live
        /\ m[p].late <=> native[p].late
    BY <1>1, <1>2, <2>0, EmptiedIs, Zenon
  <2>2. /\ d \in [1 .. n -> Natives] /\ \A q \in 1 .. n : q # p => d[q] = m[q]
        /\ ~d[p].live
        /\ d[p].late <=> m[p].late \/ ~m[p].live
    BY <2>0, <2>1, FreeIs
  <2> HIDE DEF d
  <2> QED
    BY <1>6, <2>1, <2>2
<1> HIDE DEF d
<1>9. PICK k \in Nat :
        /\ k = IF made THEN n + 1 ELSE n
        /\ native' \in [1 .. k -> Natives] /\ \A q \in 1 .. n : native'[q] = d[q]
        /\ made => native'[n + 1].live /\ ~native'[n + 1].late
        /\ ptr' = [ptr EXCEPT ![o] = None, ![r] = IF made THEN n + 1 ELSE None]
  <2>1. CASE made
    <3>1. native \in [1 .. n -> Natives] /\ "training" \in Kinds
      BY <1>1 DEF Kinds
    <3>2. /\ Fresh = n + 1 /\ Alloc(d, "training") \in [1 .. n + 1 -> Natives]
          /\ \A q \in 1 .. n : Alloc(d, "training")[q] = d[q]
          /\ Alloc(d, "training")[n + 1].live /\ ~Alloc(d, "training")[n + 1].late
      BY <1>8, <3>1, AllocIs
    <3>3. native' = Alloc(d, "training")
      BY <1>3, <2>1
    <3> QED
      BY <1>3, <2>1, <3>2, <3>3
  <2>2. CASE ~made
    BY <1>3, <1>8, <2>2
  <2> QED
    BY <2>1, <2>2
<1>10. /\ ptr' \in [Objects -> 1 .. k \cup {None}] /\ ptr'[o] = None
       /\ ptr'[r] = IF made THEN n + 1 ELSE None
       /\ \A x \in Objects : x # o /\ x # r => ptr'[x] = ptr[x]
  <2>1. 1 .. n \subseteq 1 .. k /\ (made => n + 1 \in 1 .. k)
    BY <1>9
  <2> QED
    BY <1>4, <1>5, <1>9, <2>1
<1>11. ASSUME NEW q \in 1 .. n, NEW s
       PROVE  s \in Holders(q)' <=> s \in Holders(q) /\ s # <<o, "object">>
  <2>1. q # n + 1 /\ q # None
    BY <1>4
  <2>2. \A x \in Objects : ptr'[x] = q <=> ptr[x] = q /\ x # o
    BY <1>5, <1>7, <1>10, <2>1
  <2> QED
    BY <1>0a, <2>2, HoldersAre, HoldersNext
<1>12. Holders(p)' = {}
  BY <1>6, <1>11
<1>13. ASSUME NEW q \in 1 .. n, q # p
       PROVE  Holders(q)' = Holders(q)
  <2>1. <<o, "object">> \notin Holders(q)
    BY <1>0, <1>13, HoldersAre
  <2> QED
    BY <1>11, <2>1
<1>14. ASSUME made
       PROVE  Holders(n + 1)' = {<<r, "object">>}
  <2>1. \A x \in Objects : ptr'[x] = n + 1 <=> x = r
    BY <1>4, <1>5, <1>10, <1>14
  <2>2. \A u \in Clients : todo[u] # None => /\ todo[u].writer # n + 1
                                             /\ todo[u].pc # "keep" => todo[u].training # n + 1
    BY <1>1, <1>4 DEF OInv, OwnershipTypes
  <2>3. \A s : s \in Holders(n + 1)' <=> s = <<r, "object">>
    BY <1>0a, <1>5, <2>1, <2>2, HoldersNext
  <2> QED
    BY <2>3
<1>15. Owned'
  <2>1. ASSUME NEW q \in 1 .. n
        PROVE  /\ ~native'[q].late
               /\ native'[q].live => \E s : Holders(q)' = {s}
               /\ ~native'[q].live => Holders(q)' = {}
    <3>1. CASE q = p
      BY <1>8, <1>9, <1>12, <3>1
    <3>2. CASE q # p
      <4>1. native'[q] = native[q] /\ Holders(q)' = Holders(q)
        BY <1>8, <1>9, <1>13, <3>2
      <4> QED
        BY <1>1, <4>1, Zenon DEF OInv, Owned
    <3> QED
      BY <3>1, <3>2, Zenon
  <2>2. \A q \in 1 .. k : q \in 1 .. n \/ (made /\ q = n + 1)
    BY <1>9
  <2>3. DOMAIN native' = 1 .. k
    BY <1>9
  <2> QED
    BY <1>9, <1>14, <2>1, <2>2, <2>3, Zenon DEF Owned
<1>16. OwnershipTypes'
  <2>1. DOMAIN native' = 1 .. k /\ DOMAIN native = 1 .. n /\ 1 .. n \subseteq 1 .. k
    BY <1>1, <1>9
  <2> QED
    BY <1>0a, <1>9, <1>10, <2>1, Zenon DEF OInv, OwnershipTypes
<1>17. Staged'
  <2>1. /\ ptr'[Obj("trainer", of)] = None /\ ptr'[Obj("writer", of)] = None
        /\ \A j \in Kinds, a \in 1 .. Trainers : a # of => ptr'[Obj(j, a)] = ptr[Obj(j, a)]
    BY <1>0, <1>5, <1>7, <1>10, ObjectsAre DEF Kinds
  <2>2. \A u \in Clients : todo[u] # None => todo[u].of # of /\ todo[u].of \in 1 .. Trainers
    BY <1>0, <1>3, <1>4 DEF OInv, Staged, Openings
  <2>3. \A a \in 1 .. Trainers : a # of => /\ ptr'[Obj("trainer", a)] = ptr[Obj("trainer", a)]
                                           /\ ptr'[Obj("training", a)] = ptr[Obj("training", a)]
                                           /\ ptr'[Obj("writer", a)] = ptr[Obj("writer", a)]
    BY <2>1 DEF Kinds
  <2> QED
    BY <1>0a, <2>1, <2>2, <2>3 DEF OInv, Staged
<1> QED
  BY <1>15, <1>16, <1>17 DEF OInv

\* Opening a writer empties the training; JNI frees it as well, the C interface leaves
\* that to the constructor.
LEMMA WriterOpenKeeps ==
  ASSUME OInv, NEW t \in Clients, NEW ok \in BOOLEAN, WriterOpen(t, ok), UNCHANGED binding
  PROVE  OInv'
<1>0. PICK p, m : p = todo[t].training /\ m = Used(native, p)
  OBVIOUS
<1>1. PICK n \in Nat : native \in [1 .. n -> Natives]
  BY DEF OInv, OwnershipTypes
<1>2. PICK e : e = [m EXCEPT ![p].full = FALSE]
  BY Zenon
<1> DEFINE java == binding = "java"
           d == IF java THEN Free(e, p) ELSE e
           opened == ok /\ native[p].full
<1>3. /\ todo[t] # None /\ todo[t].pc = "open" /\ ptr' = ptr
      /\ native' = IF opened THEN Alloc(d, "writer") ELSE d
      /\ todo' = [todo EXCEPT ![t].writer = IF opened THEN Fresh ELSE None,
                              ![t].pc = IF java THEN "keep" ELSE "free"]
  BY <1>0, <1>2 DEF WriterOpen, Idle
<1> HIDE DEF opened, java
<1>4. /\ ptr \in [Objects -> 1 .. n \cup {None}]
      /\ todo \in [Clients -> Openings \cup {None}]
      /\ None \notin Nat /\ todo[t].writer = None
  BY <1>1, <1>3, OwnershipAssumption DEF OInv, OwnershipTypes
<1>5. p \in 1 .. n /\ native[p].live /\ ~native[p].late /\ Holders(p) = {<<t, "training">>}
  BY <1>0, <1>1, <1>3, HeldAlone, Zenon DEF OInv, Owned
<1>6. /\ d \in [1 .. n -> Natives]
      /\ \A q \in 1 .. n : q # p => d[q] = native[q]
      /\ d[p].live <=> ~java
      /\ ~d[p].late
  <2>0. p \in 1 .. n
    BY <1>5
  <2>1. /\ m \in [1 .. n -> Natives] /\ \A q \in 1 .. n : q # p => m[q] = native[q]
        /\ m[p].live <=> native[p].live
        /\ m[p].late <=> native[p].late \/ ~native[p].live
    BY <1>0, <1>1, <2>0, UsedIs
  <2>2. /\ e \in [1 .. n -> Natives] /\ \A q \in 1 .. n : q # p => e[q] = m[q]
        /\ e[p].live <=> m[p].live
        /\ e[p].late <=> m[p].late
    BY <1>2, <2>0, <2>1, EmptiedIs
  <2>3. /\ Free(e, p) \in [1 .. n -> Natives] /\ \A q \in 1 .. n : q # p => Free(e, p)[q] = e[q]
        /\ ~Free(e, p)[p].live
        /\ Free(e, p)[p].late <=> e[p].late \/ ~e[p].live
    BY <2>0, <2>2, FreeIs, SMTT(30)
  <2>4. CASE java
    <3>1. d = Free(e, p)
      BY <2>4
    <3> HIDE DEF d
    <3> QED
      BY <1>5, <2>1, <2>2, <2>3, <2>4, <3>1
  <2>5. CASE ~java
    <3>1. d = e
      BY <2>5
    <3> HIDE DEF d
    <3> QED
      BY <1>5, <2>1, <2>2, <2>5, <3>1
  <2> QED
    BY <2>4, <2>5
<1> HIDE DEF d
<1>7. PICK k \in Nat :
        /\ k = IF opened THEN n + 1 ELSE n
        /\ native' \in [1 .. k -> Natives] /\ \A q \in 1 .. n : native'[q] = d[q]
        /\ opened => native'[n + 1].live /\ ~native'[n + 1].late
        /\ todo' = [todo EXCEPT ![t].writer = IF opened THEN n + 1 ELSE None,
                                ![t].pc = IF java THEN "keep" ELSE "free"]
  <2>1. CASE opened
    <3>1. native \in [1 .. n -> Natives] /\ "writer" \in Kinds
      BY <1>1 DEF Kinds
    <3>2. /\ Fresh = n + 1 /\ Alloc(d, "writer") \in [1 .. n + 1 -> Natives]
          /\ \A q \in 1 .. n : Alloc(d, "writer")[q] = d[q]
          /\ Alloc(d, "writer")[n + 1].live /\ ~Alloc(d, "writer")[n + 1].late
      BY <1>6, <3>1, AllocIs
    <3>3. native' = Alloc(d, "writer")
      BY <1>3, <2>1
    <3> QED
      BY <1>3, <2>1, <3>2, <3>3
  <2>2. CASE ~opened
    BY <1>3, <1>6, <2>2
  <2> QED
    BY <2>1, <2>2
<1>8. PICK now \in Openings :
        /\ todo' = [todo EXCEPT ![t] = now]
        /\ now.pc = IF java THEN "keep" ELSE "free"
        /\ now.writer = IF opened THEN n + 1 ELSE None
        /\ now.training = p /\ now.of = todo[t].of
  <2>1. todo[t] \in Openings
    BY <1>3, <1>4
  <2>2. PICK w, c : /\ w = IF opened THEN n + 1 ELSE None
                    /\ c = IF java THEN "keep" ELSE "free"
    OBVIOUS
  <2>3. w \in Nat \cup {None} /\ c \in {"open", "free", "keep"}
    BY <2>2
  <2>4. PICK now : now = [todo[t] EXCEPT !.writer = w, !.pc = c]
    OBVIOUS
  <2>5. todo' = [todo EXCEPT ![t] = now]
    <3>1. todo' = [todo EXCEPT ![t].writer = w, ![t].pc = c]
      BY <1>7, <2>2
    <3> QED
      BY <1>4, <2>4, <3>1, Zenon
  <2>6. /\ now \in Openings /\ now.pc = c /\ now.writer = w
        /\ now.training = todo[t].training /\ now.of = todo[t].of
    BY <2>1, <2>3, <2>4, Zenon DEF Openings
  <2> QED
    BY <1>0, <2>2, <2>5, <2>6, Zenon
<1>9. /\ todo' \in [Clients -> Openings \cup {None}] /\ todo'[t] = now /\ now # None
      /\ \A u \in Clients : u # t => todo'[u] = todo[u]
  BY <1>4, <1>8, OwnershipAssumption
<1>10. ASSUME NEW q \in 1 .. n, NEW s
       PROVE  s \in Holders(q)' <=> s \in Holders(q) /\ (java => s # <<t, "training">>)
  <2>1. q # n + 1 /\ q # None
    BY <1>4
  <2>2. \A u \in Clients : (todo'[u] # None /\ todo'[u].writer = q) <=> (todo[u] # None /\ todo[u].writer = q)
    BY <1>4, <1>8, <1>9, <2>1
  <2>3. \A u \in Clients : (todo'[u] # None /\ todo'[u].pc # "keep" /\ todo'[u].training = q)
                     <=> /\ todo[u] # None /\ todo[u].pc # "keep" /\ todo[u].training = q
                         /\ java => u # t
    <3>1. todo[t] # None /\ todo[t].pc = "open" /\ todo[t].training = p
      BY <1>0, <1>3
    <3>2. now.training = p /\ (now.pc = "keep" <=> java)
      BY <1>8
    <3> QED
      BY <1>9, <3>1, <3>2
  <2>4. ptr' = ptr
    BY <1>3
  <2> QED
    BY <2>2, <2>3, <2>4, HoldersAre, HoldersNext
<1>11. Holders(p)' = IF java THEN {} ELSE {<<t, "training">>}
  BY <1>5, <1>10
<1>12. ASSUME NEW q \in 1 .. n, q # p
       PROVE  Holders(q)' = Holders(q)
  <2>1. <<t, "training">> \notin Holders(q)
    BY <1>0, <1>12, HoldersAre
  <2> QED
    BY <1>10, <2>1
<1>13. ASSUME opened
       PROVE  Holders(n + 1)' = {<<t, "writer">>}
  <2>1. \A x \in Objects : ptr'[x] # n + 1
    BY <1>3, <1>4
  <2>2. \A u \in Clients : todo'[u] # None =>
          /\ todo'[u].writer = n + 1 <=> u = t
          /\ todo'[u].pc # "keep" => todo'[u].training # n + 1
    BY <1>1, <1>4, <1>5, <1>8, <1>9, <1>13 DEF OInv, OwnershipTypes
  <2>3. \A s : s \in Holders(n + 1)' <=> s = <<t, "writer">>
    BY <1>9, <2>1, <2>2, HoldersNext
  <2> QED
    BY <2>3
<1>14. Owned'
  <2>1. ASSUME NEW q \in 1 .. n
        PROVE  /\ ~native'[q].late
               /\ native'[q].live => \E s : Holders(q)' = {s}
               /\ ~native'[q].live => Holders(q)' = {}
    <3>1. CASE q = p
      BY <1>6, <1>7, <1>11, <3>1, Zenon
    <3>2. CASE q # p
      <4>1. native'[q] = native[q] /\ Holders(q)' = Holders(q)
        BY <1>6, <1>7, <1>12, <3>2
      <4> QED
        BY <1>1, <4>1, Zenon DEF OInv, Owned
    <3> QED
      BY <3>1, <3>2, Zenon
  <2>2. \A q \in 1 .. k : q \in 1 .. n \/ (opened /\ q = n + 1)
    BY <1>7
  <2>3. DOMAIN native' = 1 .. k
    BY <1>7
  <2> QED
    BY <1>7, <1>13, <2>1, <2>2, <2>3, Zenon DEF Owned
<1>15. OwnershipTypes'
  <2>1. DOMAIN native' = 1 .. k /\ DOMAIN native = 1 .. n /\ 1 .. n \subseteq 1 .. k
        /\ (opened => n + 1 \in 1 .. k)
    BY <1>1, <1>7
  <2>2. /\ now.training \in 1 .. k /\ now.writer \in 1 .. k \cup {None} /\ now.pc # "open"
    BY <1>5, <1>8, <2>1
  <2>3. ptr' = ptr
    BY <1>3
  <2> QED
    BY <1>7, <1>9, <2>1, <2>2, <2>3, Zenon DEF OInv, OwnershipTypes
<1>16. Staged'
  <2>1. \A u \in Clients : /\ todo'[u] # None <=> todo[u] # None
                           /\ todo[u] # None => todo'[u].of = todo[u].of
    BY <1>3, <1>8, <1>9, Zenon
  <2>2. ptr' = ptr
    BY <1>3
  <2> QED
    BY <2>1, <2>2 DEF OInv, Staged
<1> QED
  BY <1>14, <1>15, <1>16 DEF OInv

\* Every step on the way from trainers to writers keeps the invariant.
LEMMA OwnershipInductive == OwnershipSpec => []OInv
<1>1. OwnershipInit => OInv
  <2> SUFFICES ASSUME OwnershipInit PROVE OInv
    OBVIOUS
  <2>1. New("trainer") \in Natives /\ New("trainer").live /\ ~New("trainer").late
    BY DEF New, Natives, Kinds
  <2>2. native \in [1 .. Trainers -> Natives] /\ DOMAIN native = 1 .. Trainers
    BY <2>1 DEF OwnershipInit
  <2>3. \A t \in Clients : todo[t] = None
    BY DEF OwnershipInit
  <2>4. \A k \in Kinds, a \in 1 .. Trainers : ptr[Obj(k, a)] = IF k = "trainer" THEN a ELSE None
    BY DEF OwnershipInit, Obj, Objects
  <2>5. OwnershipTypes
    BY <2>2, <2>3, OwnershipAssumption DEF OwnershipInit, OwnershipTypes, Objects
  <2>6. ASSUME NEW p \in 1 .. Trainers
        PROVE  Holders(p) = {<<Obj("trainer", p), "object">>}
    <3>1. \A x \in Objects : ptr[x] = p <=> x = Obj("trainer", p)
      BY <2>6, OwnershipAssumption DEF OwnershipInit, Objects, Obj, Kinds
    <3>2. Obj("trainer", p) \in Objects
      BY ObjectsAre DEF Kinds
    <3> QED
      BY <2>3, <3>1, <3>2, HoldersAre
  <2>7. Owned
    BY <2>1, <2>2, <2>6, ZenonT(30) DEF OwnershipInit, Owned
  <2>8. Staged
    BY <2>3, <2>4 DEF Staged, Kinds
  <2> QED
    BY <2>5, <2>7, <2>8 DEF OInv
<1>2. OInv /\ [OwnershipNext]_ovars => OInv'
  <2> SUFFICES ASSUME OInv, [OwnershipNext]_ovars PROVE OInv'
    OBVIOUS
  <2>1. CASE UNCHANGED ovars
    <3>1. \A p : Holders(p)' = Holders(p)
      BY <2>1 DEF ovars, Holders, Idle
    <3>2. Owned'
      BY <2>1, <3>1 DEF ovars, OInv, Owned
    <3>3. OwnershipTypes' /\ Staged'
      BY <2>1 DEF ovars, OInv, OwnershipTypes, Staged
    <3> QED
      BY <3>2, <3>3 DEF OInv
  <2>2. CASE OwnershipNext
    BY <2>2, UseKeeps, CloseKeeps, TakeHandleKeeps, FinishTrainingKeeps, WriterOpenKeeps,
       TrainingFreeKeeps, KeepWriterKeeps DEF OwnershipNext
  <2> QED
    BY <2>1, <2>2
<1> QED
  BY <1>1, <1>2, PTL DEF OwnershipSpec

\* No native object is used or freed after it was freed, and one that lives has one
\* owner, whichever threads use, finish, close and open writers at once and whichever
\* native calls fail, for any number of trainers and threads.
THEOREM OwnershipSafety == OwnershipSpec => [](NoLateUse /\ OwnedOnce)
<1>1. OInv => NoLateUse /\ OwnedOnce
  <2> SUFFICES ASSUME OInv PROVE NoLateUse /\ OwnedOnce
    OBVIOUS
  <2>1. NoLateUse
    BY DEF OInv, Owned, NoLateUse
  <2>2. ASSUME NEW p \in DOMAIN native, native[p].live
        PROVE  \E s \in Holders(p) : Holders(p) = {s}
    <3>1. PICK s : Holders(p) = {s}
      BY <2>2 DEF OInv, Owned
    <3> QED
      BY <3>1
  <2> QED
    BY <2>1, <2>2 DEF OwnedOnce
<1> QED
  BY <1>1, OwnershipInductive, PTL

==============================================================================

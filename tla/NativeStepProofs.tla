-------------------------- MODULE NativeStepProofs ---------------------------
(***************************************************************************)
(* The steps of a call on a handle outside of callbacks keep the invariant:*)
(* it is refused or goes on, enters the lock, becomes the owner, runs,     *)
(* returns from native code, gives the handle up and leaves the lock.      *)
(***************************************************************************)
EXTENDS NativeCallProofs, TLAPS

\* An operation passes the refusals, or is turned away.
LEMMA CheckKeeps ==
  ASSUME HInv, NEW t \in All, Check(t), UNCHANGED binding
  PROVE  HInv'
<1> USE DEF HInv
<1>1. PICK n \in Nat, h \in Handles : n = N(t) /\ h = H(t, n)
  BY TopIs, Zenon DEF Check
<1>2. /\ stack[t] # <<>> /\ n \in 1 .. N(t) /\ Pc(t, n) = "check" /\ Top(t).h = h
      /\ UNCHANGED <<binding, lock, entered, owner, depth, handle, freed>>
      /\ stack' = IF Reenters(t, h) THEN Popped(t) ELSE Moved(t, "acquire")
  BY <1>1, TopIs, Zenon DEF Check
<1>3. Op(t, n) # "callback" /\ ~Holds(t, n) /\ ~Owns(t, n) /\ ~Within(t, n)
  BY <1>2, Zenon DEF Shape, Holds, Owns, Within
<1>4. CASE Reenters(t, h)
  <2>1. stack' = Popped(t)
    BY <1>2, <1>4, Zenon
  <2>2. /\ Shape' /\ Nesting' /\ Owning' /\ Freeing' /\ Served'
        /\ stack' \in [All -> Seq(Activations)]
        /\ \A u \in All : \A i \in 1 .. N(u)' :
             /\ i \in 1 .. N(u) /\ ~(u = t /\ i = n)
             /\ H(u, i)' = H(u, i) /\ Op(u, i)' = Op(u, i) /\ Pc(u, i)' = Pc(u, i)
             /\ (Holds(u, i)' <=> Holds(u, i))
        /\ \A u \in All : \A i \in 1 .. N(u) : ~(u = t /\ i = n) => i \in 1 .. N(u)'
    BY <1>1, <1>2, <1>3, <2>1, PopKeeps, Zenon
  <2>3. Locking'
    BY <1>2, <1>3, <2>2, LockingKept, Zenon
  <2>4. Counting'
    <3>1. ASSUME NEW g \in Handles, NEW u \in All
          PROVE  (\E i \in 1 .. N(u)' : H(u, i)' = g /\ Pc(u, i)' \in {"callback", "called"})
                   <=> \E i \in 1 .. N(u) : H(u, i) = g /\ Pc(u, i) \in {"callback", "called"}
      BY <1>2, <2>2, Zenon
    <3> QED
      BY <1>2, <3>1, Zenon DEF Counting
  <2>5. HandleTypes'
    BY <1>2, <2>2, Zenon DEF HandleTypes
  <2> QED
    BY <2>2, <2>3, <2>4, <2>5, Zenon
<1>5. CASE ~Reenters(t, h)
  <2>1. Moves(t, n, "acquire")
    BY <1>1, <1>2, <1>3, <1>5, Zenon DEF Moves, Places
  <2>2. ASSUME NEW i \in 1 .. N(t), i < n, H(t, i) = h
        PROVE  binding = "java" /\ h \notin Tracked
    <3>1. Pc(t, i) = "called"
      BY <1>1, <2>2, Zenon DEF Shape
    <3>2. h \in Tracked => depth[h][t] > 0
      BY <2>2, <3>1 DEF Counting
    <3>3. h \notin Tracked => Op(t, i) # "callback" /\ owner[h] = t
      BY <2>2, <3>1, Zenon DEF Shape, Owning, Owns
    <3> QED
      BY <1>5, <3>2, <3>3, Zenon DEF Reenters, HandleTypes
  <2>3. Shape' /\ Nesting' /\ Counting'
    BY <1>1, <1>2, <2>1, <2>2, MoveKeeps, Zenon
  <2>4. Locking' /\ Owning' /\ Freeing' /\ Served'
    BY <1>2, <1>3, <2>1, MoveSpares
  <2>5. stack' \in [All -> Seq(Activations)]
    BY <2>1, MovesAre, Zenon
  <2>6. HandleTypes'
    BY <1>2, <2>5, Zenon DEF HandleTypes
  <2> QED
    BY <2>3, <2>4, <2>6, Zenon
<1> QED
  BY <1>4, <1>5, Zenon

\* A monitor entered again is left again; any other entry makes its thread the owner.
LEMMA OwnKeeps ==
  ASSUME HInv, NEW t \in All, Own(t), UNCHANGED binding
  PROVE  HInv'
<1> USE DEF HInv
<1>1. PICK n \in Nat, h \in Handles : n = N(t) /\ h = H(t, n)
  BY TopIs, Zenon DEF Own
<1>2. /\ stack[t] # <<>> /\ n \in 1 .. N(t) /\ Pc(t, n) = "own" /\ Top(t).h = h
      /\ UNCHANGED <<binding, lock, entered, depth, handle, freed>>
      /\ IF binding = "java" /\ owner[h] = t
         THEN stack' = Moved(t, "release") /\ UNCHANGED owner
         ELSE stack' = Moved(t, "run") /\ owner' = [owner EXCEPT ![h] = t]
  BY <1>1, TopIs, Zenon DEF Own
<1>3. Op(t, n) # "callback" /\ Holds(t, n) /\ ~Owns(t, n) /\ ~Within(t, n) /\ lock[h] = t
  BY <1>1, <1>2 DEF Shape, Holds, Owns, Within, Locking
<1>4. PICK pc \in {"release", "run"} :
        /\ stack' = Moved(t, pc)
        /\ IF pc = "release" THEN UNCHANGED owner ELSE owner' = [owner EXCEPT ![h] = t]
        /\ pc = "release" <=> binding = "java" /\ owner[h] = t
  BY <1>2, Zenon
<1>5. Moves(t, n, pc)
  BY <1>1, <1>2, <1>3, <1>4, Zenon DEF Moves, Places
<1>6. ASSUME NEW i \in 1 .. N(t), i < n, H(t, i) = h
      PROVE  pc = "release" /\ binding = "java" /\ h \notin Tracked
  <2>1. binding = "java" /\ h \notin Tracked
    BY <1>1, <1>2, <1>6, Zenon DEF Nesting
  <2>2. Owns(t, i)
    BY <1>1, <1>6, <2>1, Zenon DEF Shape, Owns
  <2> QED
    BY <1>4, <1>6, <2>1, <2>2, Zenon DEF Owning
<1>7. Shape' /\ Nesting' /\ Counting'
  BY <1>1, <1>2, <1>5, <1>6, MoveKeeps, Zenon
<1>8. Locking' /\ Freeing' /\ Served'
  BY <1>2, <1>3, <1>5, MoveSpares, Zenon
<1>9. owner \in [Handles -> All \cup {None}] /\ owner' \in [Handles -> All \cup {None}]
  BY <1>4, Zenon DEF HandleTypes
<1>10. Owning'
  <2>1. ASSUME NEW u \in All, NEW i \in 1 .. N(u), Owns(u, i)
        PROVE  owner'[H(u, i)] = u
    <3>1. owner[H(u, i)] = u /\ lock[H(u, i)] = u /\ H(u, i) \in Handles
      BY <2>1, ActivationTypes DEF Owning, Locking, Owns, Holds
    <3> QED
      BY <1>3, <1>4, <1>9, <3>1, Zenon
  <2>2. pc = "run" => owner'[h] = t
    BY <1>4, <1>9, Zenon
  <2>3. \A u \in All : N(u)' = N(u) /\ \A i \in 1 .. N(u) : H(u, i)' = H(u, i)
    BY <1>5, MovesAre, Zenon
  <2>4. ASSUME NEW u \in All, NEW i \in 1 .. N(u), Owns(u, i)'
        PROVE  Owns(u, i) \/ (u = t /\ i = n /\ pc = "run")
    BY <1>5, <2>4, MovesAre
  <2> QED
    BY <1>1, <2>1, <2>2, <2>3, <2>4 DEF Owning
<1>11. stack' \in [All -> Seq(Activations)]
  BY <1>5, MovesAre, Zenon
<1>12. HandleTypes'
  BY <1>2, <1>9, <1>11, Zenon DEF HandleTypes
<1> QED
  BY <1>7, <1>8, <1>10, <1>12, Zenon

\* A call goes into native code when the handle is open; close frees it once.
LEMMA RunKeeps ==
  ASSUME HInv, NEW t \in All, Run(t), UNCHANGED binding
  PROVE  HInv'
<1> USE DEF HInv
<1>1. PICK n \in Nat, h \in Handles : n = N(t) /\ h = H(t, n)
  BY TopIs, Zenon DEF Run
<1> DEFINE close == Op(t, n) = "close"
<1>2. /\ stack[t] # <<>> /\ n \in 1 .. N(t) /\ Pc(t, n) = "run"
      /\ UNCHANGED <<binding, lock, entered, owner, depth>>
      /\ stack' = Moved(t, IF close \/ ~handle[h] THEN "disown" ELSE "native")
      /\ handle' = IF close THEN [handle EXCEPT ![h] = FALSE] ELSE handle
      /\ freed' = IF close /\ handle[h] THEN [freed EXCEPT ![h] = @ + 1] ELSE freed
  BY <1>1, TopIs, Zenon DEF Run
<1> HIDE DEF close
<1>3. Op(t, n) # "callback" /\ Holds(t, n) /\ Owns(t, n) /\ ~Within(t, n) /\ lock[h] = t
  BY <1>1, <1>2 DEF Shape, Holds, Owns, Within, Locking
<1>4. PICK pc \in {"disown", "native"} :
        stack' = Moved(t, pc) /\ (pc = "native" => handle[h] /\ ~close)
  BY <1>2, Zenon
<1>5. Moves(t, n, pc)
  BY <1>1, <1>2, <1>3, <1>4, Zenon DEF Moves, Places
<1>6. \A i \in 1 .. N(t) : H(t, i) = h => i = n
  BY <1>1, <1>2, Alone, Zenon
<1>7. Shape' /\ Nesting' /\ Counting'
  BY <1>1, <1>2, <1>5, <1>6, MoveKeeps
<1>8. Locking' /\ Owning' /\ Served'
  BY <1>2, <1>3, <1>4, <1>5, MoveSpares, Zenon
<1>9. /\ handle' \in [Handles -> BOOLEAN] /\ freed' \in [Handles -> Nat]
      /\ \A g \in Handles : g # h => handle'[g] = handle[g] /\ freed'[g] = freed[g]
      /\ handle'[h] <=> handle[h] /\ ~close
      /\ freed'[h] = IF close /\ handle[h] THEN freed[h] + 1 ELSE freed[h]
  BY <1>2 DEF HandleTypes
<1>10. Freeing'
  <2>1. \A g \in Handles : freed'[g] = IF handle'[g] THEN 0 ELSE 1
    <3>1. freed'[h] = IF handle'[h] THEN 0 ELSE 1
      BY <1>9 DEF Freeing
    <3> QED
      BY <1>9, <3>1, Zenon DEF Freeing
  <2>2. ASSUME NEW u \in All, NEW i \in 1 .. N(u), Within(u, i)
        PROVE  handle'[H(u, i)]
    <3>1. H(u, i) \in Handles /\ handle[H(u, i)] /\ lock[H(u, i)] = u
      BY <2>2, ActivationTypes DEF Freeing, Locking, Holds, Within
    <3>2. H(u, i) # h
      BY <1>3, <1>6, <2>2, <3>1, Zenon
    <3> QED
      BY <1>9, <3>1, <3>2, Zenon
  <2>3. pc = "native" => handle'[h]
    BY <1>4, <1>9, Zenon
  <2>4. \A u \in All : N(u)' = N(u) /\ \A i \in 1 .. N(u) : H(u, i)' = H(u, i)
    BY <1>5, MovesAre, Zenon
  <2>5. ASSUME NEW u \in All, NEW i \in 1 .. N(u), Within(u, i)'
        PROVE  Within(u, i) \/ (u = t /\ i = n /\ pc = "native")
    BY <1>5, <2>5, MovesAre
  <2> QED
    BY <1>1, <2>1, <2>2, <2>3, <2>4, <2>5 DEF Freeing
<1>11. stack' \in [All -> Seq(Activations)]
  BY <1>5, MovesAre, Zenon
<1>12. HandleTypes'
  BY <1>2, <1>9, <1>11, Zenon DEF HandleTypes
<1> QED
  BY <1>7, <1>8, <1>10, <1>12, Zenon

\* A native call returns when nothing serves it any more.
LEMMA NativeReturnKeeps ==
  ASSUME HInv, NEW t \in All, NativeReturn(t), UNCHANGED binding
  PROVE  HInv'
<1> USE DEF HInv
<1>1. PICK n \in Nat, h \in Handles : n = N(t) /\ h = H(t, n)
  BY TopIs, Zenon DEF NativeReturn
<1>2. /\ stack[t] # <<>> /\ n \in 1 .. N(t) /\ Pc(t, n) = "native"
      /\ UNCHANGED <<binding, lock, entered, owner, depth, handle, freed>>
      /\ stack' = Moved(t, "disown") /\ Serving(h) = {}
  BY <1>1, TopIs, Zenon DEF NativeReturn
<1>3. Op(t, n) # "callback" /\ Holds(t, n) /\ Owns(t, n) /\ Within(t, n)
  BY <1>1, <1>2, Zenon DEF Shape, Holds, Owns, Within
<1>4. Moves(t, n, "disown")
  BY <1>1, <1>2, <1>3, Zenon DEF Moves, Places
<1>5. \A i \in 1 .. N(t) : H(t, i) = h => i = n
  BY <1>1, <1>2, Alone, Zenon
<1>6. Shape' /\ Nesting' /\ Counting'
  BY <1>1, <1>2, <1>4, <1>5, MoveKeeps
<1>7. Locking' /\ Owning' /\ Freeing'
  BY <1>2, <1>3, <1>4, MoveSpares
<1>8. \A u \in All : /\ N(u)' = N(u)
                     /\ \A i \in 1 .. N(u) :
                          /\ H(u, i)' = H(u, i) /\ Op(u, i)' = Op(u, i)
                          /\ ~(u = t /\ i = n) => (Within(u, i)' <=> Within(u, i))
  BY <1>4, MovesAre, Zenon
<1>9. Served'
  <2>1. ASSUME NEW w \in All, NEW i \in 1 .. N(w), Op(w, i) = "callback"
        PROVE  \E u \in All : \E j \in 1 .. N(u) : H(u, j)' = H(w, i) /\ Within(u, j)'
    <3>1. w \in Workers /\ i \in DOMAIN stack[w]
      BY <2>1, ActivationTypes DEF Shape, N
    <3>2. H(w, i) # h
      BY <1>2, <2>1, <3>1, Zenon DEF Serving, H, Op
    <3>3. PICK u \in All : \E j \in 1 .. N(u) : H(u, j) = H(w, i) /\ Within(u, j)
      BY <2>1, Zenon DEF Served
    <3>4. PICK j \in 1 .. N(u) : H(u, j) = H(w, i) /\ Within(u, j)
      BY <3>3, Zenon
    <3> QED
      BY <1>1, <1>8, <3>2, <3>4, Zenon
  <2> QED
    BY <1>8, <2>1 DEF Served
<1>10. stack' \in [All -> Seq(Activations)]
  BY <1>4, MovesAre, Zenon
<1>11. HandleTypes'
  BY <1>2, <1>10, Zenon DEF HandleTypes
<1> QED
  BY <1>6, <1>7, <1>9, <1>11, Zenon

\* The owner is forgotten when no other activation relies on it.
LEMMA DisownKeeps ==
  ASSUME HInv, NEW t \in All, Disown(t), UNCHANGED binding
  PROVE  HInv'
<1> USE DEF HInv
<1>1. PICK n \in Nat, h \in Handles : n = N(t) /\ h = H(t, n)
  BY TopIs, Zenon DEF Disown
<1>2. /\ stack[t] # <<>> /\ n \in 1 .. N(t) /\ Pc(t, n) = "disown"
      /\ UNCHANGED <<binding, lock, entered, depth, handle, freed>>
      /\ stack' = Moved(t, "release") /\ owner' = [owner EXCEPT ![h] = None]
  BY <1>1, TopIs, Zenon DEF Disown
<1>3. Op(t, n) # "callback" /\ Holds(t, n) /\ Owns(t, n) /\ ~Within(t, n) /\ lock[h] = t
  BY <1>1, <1>2 DEF Shape, Holds, Owns, Within, Locking
<1>4. Moves(t, n, "release")
  BY <1>1, <1>2, <1>3, Zenon DEF Moves, Places
<1>5. \A i \in 1 .. N(t) : H(t, i) = h => i = n
  BY <1>1, <1>2, Alone, Zenon
<1>6. Shape' /\ Nesting' /\ Counting'
  BY <1>1, <1>2, <1>4, <1>5, MoveKeeps
<1>7. Locking' /\ Freeing' /\ Served'
  BY <1>2, <1>3, <1>4, MoveSpares
<1>8. Owning'
  <2>1. ASSUME NEW u \in All, NEW i \in 1 .. N(u), Owns(u, i), ~(u = t /\ i = n)
        PROVE  owner'[H(u, i)] = u
    <3>1. owner[H(u, i)] = u /\ lock[H(u, i)] = u /\ H(u, i) \in Handles
      BY <2>1, ActivationTypes DEF Owning, Locking, Owns, Holds
    <3>2. H(u, i) # h
      BY <1>3, <1>5, <2>1, <3>1, Zenon
    <3> QED
      BY <1>2, <3>1, <3>2, Zenon DEF HandleTypes
  <2>2. \A u \in All : N(u)' = N(u) /\ \A i \in 1 .. N(u) : H(u, i)' = H(u, i)
    BY <1>4, MovesAre, Zenon
  <2>3. ASSUME NEW u \in All, NEW i \in 1 .. N(u), Owns(u, i)'
        PROVE  Owns(u, i) /\ ~(u = t /\ i = n)
    BY <1>4, <2>3, MovesAre
  <2> QED
    BY <2>1, <2>2, <2>3 DEF Owning
<1>9. stack' \in [All -> Seq(Activations)]
  BY <1>4, MovesAre, Zenon
<1>10. HandleTypes'
  BY <1>2, <1>9, Zenon DEF HandleTypes
<1> QED
  BY <1>6, <1>7, <1>8, <1>10, Zenon

\* Below the current activation of a thread its handles are all different.
LEMMA Below ==
  ASSUME HandleTypes, Shape, Nesting, NEW t \in All, NEW i \in 1 .. N(t), NEW j \in 1 .. N(t),
         i < N(t), j < N(t), H(t, i) = H(t, j)
  PROVE  i = j
<1>1. N(t) \in Nat
  BY ActivationTypes, Zenon
<1>2. Pc(t, i) = "called" /\ Pc(t, j) = "called"
  BY Zenon DEF Shape
<1>3. ~(i < j) /\ ~(j < i)
  BY <1>2, Zenon DEF Nesting
<1> QED
  BY <1>1, <1>3

\* A thread enters a free lock, or a monitor it is in already.
LEMMA AcquireKeeps ==
  ASSUME HInv, NEW t \in All, Acquire(t), UNCHANGED binding
  PROVE  HInv'
<1> USE DEF HInv
<1>1. PICK n \in Nat, h \in Handles : n = N(t) /\ h = H(t, n)
  BY TopIs, Zenon DEF Acquire
<1>2. /\ stack[t] # <<>> /\ n \in 1 .. N(t) /\ Pc(t, n) = "acquire"
      /\ UNCHANGED <<binding, owner, depth, handle, freed>>
      /\ stack' = Moved(t, "own") /\ lock[h] \in {None, t}
      /\ lock' = [lock EXCEPT ![h] = t] /\ entered' = [entered EXCEPT ![h] = @ + 1]
  BY <1>1, TopIs, Zenon DEF Acquire, MayEnter
<1>3. Op(t, n) # "callback" /\ ~Holds(t, n) /\ ~Owns(t, n) /\ ~Within(t, n)
  BY <1>1, <1>2, Zenon DEF Shape, Holds, Owns, Within
<1>4. Moves(t, n, "own")
  BY <1>1, <1>2, <1>3, Zenon DEF Moves, Places
<1>5. /\ stack' \in [All -> Seq(Activations)]
      /\ \A u \in All : /\ N(u)' = N(u)
                        /\ \A i \in 1 .. N(u) :
                             /\ H(u, i)' = H(u, i)
                             /\ (Holds(u, i)' <=> Holds(u, i) \/ (u = t /\ i = n))
  BY <1>1, <1>4, MovesAre
<1>6. /\ lock' \in [Handles -> All \cup {None}] /\ entered' \in [Handles -> Nat]
      /\ lock'[h] = t /\ entered'[h] = entered[h] + 1
      /\ \A g \in Handles : g # h => lock'[g] = lock[g] /\ entered'[g] = entered[g]
  BY <1>2 DEF HandleTypes
<1>7. Locking'
  <2>1. ASSUME NEW u \in All, NEW i \in 1 .. N(u), Holds(u, i)
        PROVE  H(u, i) \in Handles /\ (H(u, i) = h => u = t /\ lock[h] = t /\ i < n)
    <3>1. H(u, i) \in Handles /\ lock[H(u, i)] = u
      BY <2>1, ActivationTypes, Zenon DEF Locking
    <3>2. H(u, i) = h => u = t
      BY <1>2, <3>1, HandlesAssumption, Zenon
    <3> QED
      BY <1>1, <1>3, <2>1, <3>1, <3>2
  <2>2. ASSUME NEW u \in All, NEW i \in 1 .. N(u), Holds(u, i)'
        PROVE  lock'[H(u, i)'] = u
    <3>1. H(u, i)' = H(u, i) /\ (Holds(u, i) \/ (u = t /\ i = n))
      BY <1>5, <2>2, Zenon
    <3>2. Holds(u, i) => lock[H(u, i)] = u
      BY Zenon DEF Locking
    <3> QED
      BY <1>1, <1>6, <2>1, <3>1, <3>2, Zenon
  <2>3. \A g \in Handles : lock'[g] = None => entered'[g] = 0
    BY <1>6, HandlesAssumption DEF Locking
  <2>4. ASSUME NEW g \in Handles, NEW u \in All, lock'[g] = u
        PROVE  \E i \in 1 .. N(u) : H(u, i)' = g /\ Holds(u, i)'
    <3>1. CASE g = h
      BY <1>1, <1>2, <1>5, <1>6, <2>4, <3>1, Zenon
    <3>2. CASE g # h
      <4>1. \E i \in 1 .. N(u) : H(u, i) = g /\ Holds(u, i)
        BY <1>6, <2>4, <3>2, Zenon DEF Locking
      <4> QED
        BY <1>5, <4>1, Zenon
    <3> QED
      BY <3>1, <3>2, Zenon
  <2>5. entered'[h] = IF \E j \in 1 .. N(t) : H(t, j) = h /\ Holds(t, j) THEN 2 ELSE 1
    <3>1. CASE \E j \in 1 .. N(t) : H(t, j) = h /\ Holds(t, j)
      <4>1. PICK j \in 1 .. N(t) : H(t, j) = h /\ Holds(t, j)
        BY <3>1, Zenon
      <4>2. ~ \E k \in 1 .. N(t) : k # j /\ H(t, k) = H(t, j) /\ Holds(t, k)
        BY <1>1, <2>1, <4>1, Below, Zenon
      <4>3. entered[h] = 1
        BY <4>1, <4>2, Zenon DEF Locking
      <4> QED
        BY <1>6, <3>1, <4>3
    <3>2. CASE ~ \E j \in 1 .. N(t) : H(t, j) = h /\ Holds(t, j)
      <4>1. lock[h] = None
        BY <1>2, <3>2, Zenon DEF Locking
      <4>2. entered[h] = 0
        BY <4>1, Zenon DEF Locking
      <4> QED
        BY <1>6, <3>2, <4>2
    <3> QED
      BY <3>1, <3>2, Zenon
  <2>6. ASSUME NEW u \in All, NEW i \in 1 .. N(u), Holds(u, i)'
        PROVE  entered'[H(u, i)'] =
                 IF \E j \in 1 .. N(u)' : j # i /\ H(u, j)' = H(u, i)' /\ Holds(u, j)' THEN 2 ELSE 1
    <3>0. (\E j \in 1 .. N(u)' : j # i /\ H(u, j)' = H(u, i)' /\ Holds(u, j)')
            <=> \E j \in 1 .. N(u) : j # i /\ H(u, j) = H(u, i) /\ (Holds(u, j) \/ (u = t /\ j = n))
      BY <1>5, Zenon
    <3>1. CASE u = t /\ i = n
      <4>1. (\E j \in 1 .. N(u) : j # i /\ H(u, j) = H(u, i) /\ (Holds(u, j) \/ (u = t /\ j = n)))
              <=> \E j \in 1 .. N(t) : H(t, j) = h /\ Holds(t, j)
        BY <1>1, <1>3, <3>1, Zenon
      <4>2. H(u, i)' = h
        BY <1>1, <1>5, <3>1, Zenon
      <4> QED
        BY <2>5, <3>0, <4>1, <4>2, Zenon
    <3>2. CASE ~(u = t /\ i = n) /\ H(u, i) = h
      <4>1. Holds(u, i) /\ u = t /\ i # n /\ n \in 1 .. N(u) /\ H(u, n) = h
        BY <1>1, <1>2, <1>5, <2>1, <2>6, <3>2, Zenon
      <4>2. \E j \in 1 .. N(u) : j # i /\ H(u, j) = H(u, i) /\ (Holds(u, j) \/ (u = t /\ j = n))
        BY <3>2, <4>1, Zenon
      <4>3. entered'[h] = 2
        BY <2>5, <3>2, <4>1, Zenon
      <4>4. H(u, i)' = h
        BY <1>5, <3>2, Zenon
      <4> QED
        BY <3>0, <4>2, <4>3, <4>4, Zenon
    <3>3. CASE ~(u = t /\ i = n) /\ H(u, i) # h
      <4>1. Holds(u, i) /\ H(u, i)' = H(u, i) /\ H(u, i) \in Handles
        BY <1>5, <2>1, <2>6, <3>3, Zenon
      <4>2. (\E j \in 1 .. N(u) : j # i /\ H(u, j) = H(u, i) /\ (Holds(u, j) \/ (u = t /\ j = n)))
              <=> \E j \in 1 .. N(u) : j # i /\ H(u, j) = H(u, i) /\ Holds(u, j)
        BY <1>1, <3>3, Zenon
      <4>3. entered'[H(u, i)] = entered[H(u, i)]
        BY <1>6, <3>3, <4>1, Zenon
      <4> QED
        BY <3>0, <4>1, <4>2, <4>3, Zenon DEF Locking
    <3> QED
      BY <3>1, <3>2, <3>3, Zenon
  <2> QED
    BY <1>5, <2>2, <2>3, <2>4, <2>6 DEF Locking
<1>8. ASSUME NEW i \in 1 .. N(t), i < n, H(t, i) = h
      PROVE  binding = "java" /\ h \notin Tracked
  BY <1>1, <1>2, <1>8, Zenon DEF Nesting
<1>9. Shape' /\ Nesting' /\ Counting'
  BY <1>1, <1>2, <1>4, <1>8, MoveKeeps, Zenon
<1>10. Owning' /\ Freeing' /\ Served'
  BY <1>2, <1>3, <1>4, MoveSpares
<1>11. HandleTypes'
  BY <1>2, <1>5, <1>6, Zenon DEF HandleTypes
<1> QED
  BY <1>7, <1>9, <1>10, <1>11, Zenon

\* A thread leaves a lock, for good or back to its outer call.
LEMMA ReleaseKeeps ==
  ASSUME HInv, NEW t \in All, Release(t), UNCHANGED binding
  PROVE  HInv'
<1> USE DEF HInv
<1>1. PICK n \in Nat, h \in Handles : n = N(t) /\ h = H(t, n)
  BY TopIs, Zenon DEF Release
<1>2. /\ stack[t] # <<>> /\ n \in 1 .. N(t) /\ Pc(t, n) = "release" /\ stack' = Popped(t)
      /\ UNCHANGED <<binding, owner, depth, handle, freed>>
      /\ entered' = [entered EXCEPT ![h] = @ - 1]
      /\ lock' = IF entered[h] = 1 THEN [lock EXCEPT ![h] = None] ELSE lock
  BY <1>1, TopIs, Zenon DEF Release
<1>3. Op(t, n) # "callback" /\ Holds(t, n) /\ ~Within(t, n) /\ lock[h] = t
  BY <1>1, <1>2 DEF Shape, Holds, Within, Locking
<1>4. /\ Shape' /\ Nesting' /\ Owning' /\ Freeing' /\ Served'
      /\ stack' \in [All -> Seq(Activations)]
      /\ \A u \in All : \A i \in 1 .. N(u)' :
           /\ i \in 1 .. N(u) /\ ~(u = t /\ i = n)
           /\ H(u, i)' = H(u, i) /\ Op(u, i)' = Op(u, i) /\ Pc(u, i)' = Pc(u, i)
           /\ (Holds(u, i)' <=> Holds(u, i))
      /\ \A u \in All : \A i \in 1 .. N(u) : ~(u = t /\ i = n) => i \in 1 .. N(u)'
  BY <1>1, <1>2, <1>3, PopKeeps, Zenon
<1> DEFINE again == \E j \in 1 .. N(t) : j # n /\ H(t, j) = h /\ Holds(t, j)
<1>5. entered[h] = IF again THEN 2 ELSE 1
  BY <1>1, <1>2, <1>3, Zenon DEF Locking
<1> HIDE DEF again
<1>6. /\ entered' \in [Handles -> Nat] /\ lock' \in [Handles -> All \cup {None}]
      /\ entered'[h] = IF again THEN 1 ELSE 0
      /\ lock'[h] = IF again THEN t ELSE None
      /\ \A g \in Handles : g # h => lock'[g] = lock[g] /\ entered'[g] = entered[g]
  <2>1. entered \in [Handles -> Nat] /\ lock \in [Handles -> All \cup {None}]
    BY Zenon DEF HandleTypes
  <2>2. CASE again
    <3>1. entered' = [entered EXCEPT ![h] = 1] /\ lock' = lock
      BY <1>2, <1>5, <2>2
    <3> QED
      BY <1>3, <2>1, <2>2, <3>1, Zenon
  <2>3. CASE ~again
    <3>1. entered' = [entered EXCEPT ![h] = 0] /\ lock' = [lock EXCEPT ![h] = None]
      BY <1>2, <1>5, <2>3
    <3> QED
      BY <2>1, <2>3, <3>1, Zenon
  <2> QED
    BY <2>2, <2>3, Zenon
<1>7. Locking'
  <2>1. ASSUME NEW u \in All, NEW i \in 1 .. N(u)', Holds(u, i)'
        PROVE  /\ i \in 1 .. N(u) /\ Holds(u, i) /\ H(u, i)' = H(u, i) /\ H(u, i) \in Handles
               /\ lock[H(u, i)] = u /\ ~(u = t /\ i = n)
               /\ H(u, i) = h => u = t /\ again
    <3>1. i \in 1 .. N(u) /\ Holds(u, i) /\ H(u, i)' = H(u, i) /\ ~(u = t /\ i = n)
      BY <1>4, <2>1, Zenon
    <3>2. H(u, i) \in Handles /\ lock[H(u, i)] = u
      BY <3>1, ActivationTypes, Zenon DEF Locking
    <3>3. H(u, i) = h => u = t /\ again
      BY <1>3, <3>1, <3>2, Zenon DEF again
    <3> QED
      BY <3>1, <3>2, <3>3, Zenon
  <2>2. \A u \in All : \A i \in 1 .. N(u)' : Holds(u, i)' => lock'[H(u, i)'] = u
    BY <1>6, <2>1
  <2>3. \A g \in Handles : lock'[g] = None => entered'[g] = 0
    BY <1>6, HandlesAssumption DEF Locking
  <2>4. ASSUME NEW g \in Handles, NEW u \in All, lock'[g] = u
        PROVE  \E i \in 1 .. N(u)' : H(u, i)' = g /\ Holds(u, i)'
    <3>1. \E i \in 1 .. N(u) : H(u, i) = g /\ Holds(u, i) /\ ~(u = t /\ i = n)
      <4>1. CASE g = h
        BY <1>6, <2>4, <4>1, HandlesAssumption, Zenon DEF again
      <4>2. CASE g # h
        BY <1>1, <1>6, <2>4, <4>2 DEF Locking
      <4> QED
        BY <4>1, <4>2, Zenon
    <3> QED
      BY <1>4, <3>1, Zenon
  <2>5. ASSUME NEW u \in All, NEW i \in 1 .. N(u)', Holds(u, i)'
        PROVE  entered'[H(u, i)'] =
                 IF \E j \in 1 .. N(u)' : j # i /\ H(u, j)' = H(u, i)' /\ Holds(u, j)' THEN 2 ELSE 1
    <3>0. (\E j \in 1 .. N(u)' : j # i /\ H(u, j)' = H(u, i)' /\ Holds(u, j)')
            <=> \E j \in 1 .. N(u) : j # i /\ H(u, j) = H(u, i) /\ Holds(u, j) /\ ~(u = t /\ j = n)
      BY <1>4, <2>1, <2>5, Zenon
    <3>1. CASE H(u, i) = h
      <4>1. u = t /\ again /\ i \in 1 .. N(t) /\ i < n
        BY <1>1, <2>1, <2>5, <3>1, ActivationTypes
      <4>2. ASSUME NEW j \in 1 .. N(t), j # i, H(t, j) = H(t, i), j # n
            PROVE  FALSE
        <5>1. j < n
          BY <1>1, <4>2, ActivationTypes
        <5> QED
          BY <1>1, <4>1, <4>2, <5>1, Below, Zenon
      <4>3. entered'[H(u, i)'] = 1
        BY <1>6, <2>1, <2>5, <3>1, <4>1, Zenon
      <4> QED
        BY <3>0, <4>1, <4>2, <4>3, Zenon
    <3>2. CASE H(u, i) # h
      <4>1. (\E j \in 1 .. N(u) : j # i /\ H(u, j) = H(u, i) /\ Holds(u, j) /\ ~(u = t /\ j = n))
              <=> \E j \in 1 .. N(u) : j # i /\ H(u, j) = H(u, i) /\ Holds(u, j)
        BY <1>1, <3>2, Zenon
      <4>2. i \in 1 .. N(u) /\ Holds(u, i) /\ entered'[H(u, i)'] = entered[H(u, i)]
        BY <1>6, <2>1, <2>5, <3>2, Zenon
      <4> QED
        BY <3>0, <4>1, <4>2, Zenon DEF Locking
    <3> QED
      BY <3>1, <3>2, Zenon
  <2> QED
    BY <2>2, <2>3, <2>4, <2>5, Zenon DEF Locking
<1>8. Counting'
  <2>1. ASSUME NEW g \in Handles, NEW u \in All
        PROVE  (\E i \in 1 .. N(u)' : H(u, i)' = g /\ Pc(u, i)' \in {"callback", "called"})
                 <=> \E i \in 1 .. N(u) : H(u, i) = g /\ Pc(u, i) \in {"callback", "called"}
    BY <1>2, <1>4, Zenon
  <2> QED
    BY <1>2, <2>1, Zenon DEF Counting
<1>9. HandleTypes'
  BY <1>2, <1>4, <1>6, Zenon DEF HandleTypes
<1> QED
  BY <1>4, <1>7, <1>8, <1>9, Zenon

==============================================================================

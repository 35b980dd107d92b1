------------------------- MODULE NativeHandlesProofs -------------------------
(***************************************************************************)
(* Proofs about NativeHandles: whatever threads, handles, callbacks and    *)
(* trainers there are, a handle serves one native call at a time, and a    *)
(* native object has one owner that frees it once.                         *)
(***************************************************************************)
EXTENDS NativeStepProofs, NativeOwnershipProofs, TLAPS

\* A counter of callbacks set for one handle and thread.
LEMMA CountedIs ==
  ASSUME HandleTypes, NEW h \in Handles, NEW t \in All, NEW n \in Nat, depth' = Counted(h, t, n)
  PROVE  /\ depth' \in [Handles -> [All -> Nat]]
         /\ h \in Tracked => depth'[h][t] = n
         /\ h \notin Tracked => depth'[h][t] = depth[h][t]
         /\ \A g \in Handles, u \in All : g # h \/ u # t => depth'[g][u] = depth[g][u]
<1>1. depth \in [Handles -> [All -> Nat]]
  BY Zenon DEF HandleTypes
<1>2. CASE h \in Tracked
  <2>1. depth' = [depth EXCEPT ![h] = [depth[h] EXCEPT ![t] = n]]
    BY <1>2, Zenon DEF Counted
  <2>2. [depth[h] EXCEPT ![t] = n] \in [All -> Nat]
    BY <1>1, Zenon
  <2> QED
    BY <1>1, <1>2, <2>1, <2>2
<1>3. CASE h \notin Tracked
  BY <1>1, <1>3, Zenon DEF Counted
<1> QED
  BY <1>2, <1>3, Zenon

\* A native call calls back on its own thread.
LEMMA CallbackKeeps ==
  ASSUME HInv, NEW t \in All, Callback(t), UNCHANGED binding
  PROVE  HInv'
<1> USE DEF HInv
<1>1. PICK n \in Nat, h \in Handles : n = N(t) /\ h = H(t, n)
  BY TopIs, Zenon DEF Callback
<1>2. /\ stack[t] # <<>> /\ n \in 1 .. N(t) /\ Pc(t, n) = "native" /\ Top(t).reads > 0
      /\ UNCHANGED <<binding, lock, entered, owner, handle, freed>>
      /\ stack' = [Moved(t, "callback") EXCEPT ![t][Len(stack[t])].reads = @ - 1]
      /\ depth' = Counted(h, t, depth[h][t] + 1)
  BY <1>1, TopIs, Zenon DEF Callback
<1>3. Op(t, n) # "callback" /\ Holds(t, n) /\ Owns(t, n) /\ Within(t, n)
  BY <1>1, <1>2, Zenon DEF Shape, Holds, Owns, Within
<1>4. /\ stack' \in [All -> Seq(Activations)]
      /\ \A u \in All : /\ N(u)' = N(u)
                        /\ \A i \in 1 .. N(u) :
                             /\ H(u, i)' = H(u, i) /\ Op(u, i)' = Op(u, i)
                             /\ Pc(u, i)' = IF u = t /\ i = n THEN "callback" ELSE Pc(u, i)
  BY <1>1, <1>2, CallbackIs, Zenon
<1>5. \A u \in All : \A i \in 1 .. N(u) :
        /\ (Holds(u, i)' <=> Holds(u, i)) /\ (Owns(u, i)' <=> Owns(u, i))
        /\ (Within(u, i)' <=> Within(u, i))
  BY <1>2, <1>3, <1>4 DEF Holds, Owns, Within
<1>6. Shape'
  BY <1>1, <1>2, <1>3, <1>4 DEF Shape
<1>7. \A i \in 1 .. N(t) : H(t, i) = h => i = n
  BY <1>1, <1>2, Alone, Zenon
<1>8. Nesting'
  BY <1>1, <1>2, <1>4, <1>7 DEF Nesting
<1>9. Locking'
  BY <1>2, <1>4, <1>5, LockingKept, Zenon
<1>10. Owning'
  BY <1>2, <1>4, <1>5 DEF Owning
<1>11. Freeing'
  BY <1>2, <1>4, <1>5 DEF Freeing
<1>12. Served'
  BY <1>4, <1>5 DEF Served
<1>13. depth[h][t] = 0
  BY <1>2, <1>7, Zenon DEF Counting
<1>14. /\ depth' \in [Handles -> [All -> Nat]]
       /\ depth'[h][t] = IF h \in Tracked THEN 1 ELSE 0
       /\ \A g \in Handles, u \in All : g # h \/ u # t => depth'[g][u] = depth[g][u]
  <2>1. depth' = Counted(h, t, 1)
    BY <1>2, <1>13
  <2> QED
    BY <1>13, <2>1, CountedIs
<1>15. Counting'
  <2>1. ASSUME NEW g \in Handles, NEW u \in All, g # h \/ u # t
        PROVE  (\E i \in 1 .. N(u)' : H(u, i)' = g /\ Pc(u, i)' \in {"callback", "called"})
                 <=> \E i \in 1 .. N(u) : H(u, i) = g /\ Pc(u, i) \in {"callback", "called"}
    BY <1>1, <1>4, <2>1, Zenon
  <2>2. \E i \in 1 .. N(t)' : H(t, i)' = h /\ Pc(t, i)' \in {"callback", "called"}
    BY <1>1, <1>2, <1>4, Zenon
  <2>3. ASSUME NEW g \in Handles, NEW u \in All
        PROVE  depth'[g][u] = IF g \in Tracked /\ \E i \in 1 .. N(u)' :
                                   H(u, i)' = g /\ Pc(u, i)' \in {"callback", "called"}
                              THEN 1 ELSE 0
    <3>1. CASE g = h /\ u = t
      BY <1>14, <2>2, <3>1, Zenon
    <3>2. CASE g # h \/ u # t
      BY <1>14, <2>1, <3>2 DEF Counting
    <3> QED
      BY <3>1, <3>2, Zenon
  <2> QED
    BY <2>3, Zenon DEF Counting
<1>16. HandleTypes'
  BY <1>2, <1>4, <1>14, Zenon DEF HandleTypes
<1> QED
  BY <1>6, <1>8, <1>9, <1>10, <1>11, <1>12, <1>15, <1>16, Zenon

\* A callback returns to the native call, or ends the work of a worker.
LEMMA CallbackReturnKeeps ==
  ASSUME HInv, NEW t \in All, CallbackReturn(t), UNCHANGED binding
  PROVE  HInv'
<1> USE DEF HInv
<1>1. PICK n \in Nat, h \in Handles : n = N(t) /\ h = H(t, n)
  BY TopIs, Zenon DEF CallbackReturn
<1>2. /\ stack[t] # <<>> /\ n \in 1 .. N(t) /\ Pc(t, n) \in {"callback", "called"}
      /\ UNCHANGED <<binding, lock, entered, owner, handle, freed>>
      /\ stack' = IF Op(t, n) = "callback" THEN Popped(t) ELSE Moved(t, "native")
      /\ depth' = Counted(h, t, depth[h][t] - 1)
  BY <1>1, TopIs, Zenon DEF CallbackReturn
<1>3. \A i \in 1 .. N(t) : H(t, i) = h => i = n
  BY <1>1, <1>2, Alone, Zenon
<1>4. depth[h][t] = IF h \in Tracked THEN 1 ELSE 0
  BY <1>1, <1>2, Zenon DEF Counting
<1>5. /\ depth' \in [Handles -> [All -> Nat]] /\ depth'[h][t] = 0
      /\ \A g \in Handles, u \in All : g # h \/ u # t => depth'[g][u] = depth[g][u]
  <2>1. depth' = Counted(h, t, 0)
    BY <1>2, <1>4 DEF Counted
  <2> QED
    BY <1>4, <2>1, CountedIs
<1>6. ASSUME \A g \in Handles, u \in All :
               (\E i \in 1 .. N(u)' : H(u, i)' = g /\ Pc(u, i)' \in {"callback", "called"})
                 <=> \E i \in 1 .. N(u) : /\ H(u, i) = g /\ Pc(u, i) \in {"callback", "called"}
                                          /\ ~(u = t /\ i = n)
      PROVE  Counting'
  <2>1. ASSUME NEW g \in Handles, NEW u \in All
        PROVE  depth'[g][u] = IF g \in Tracked /\ \E i \in 1 .. N(u)' :
                                   H(u, i)' = g /\ Pc(u, i)' \in {"callback", "called"}
                              THEN 1 ELSE 0
    <3>1. CASE g = h /\ u = t
      BY <1>3, <1>5, <1>6, <3>1
    <3>2. CASE g # h \/ u # t
      <4>1. (\E i \in 1 .. N(u)' : H(u, i)' = g /\ Pc(u, i)' \in {"callback", "called"})
              <=> \E i \in 1 .. N(u) : H(u, i) = g /\ Pc(u, i) \in {"callback", "called"}
        BY <1>1, <1>6, <3>2, Zenon
      <4> QED
        BY <1>5, <3>2, <4>1 DEF Counting
    <3> QED
      BY <3>1, <3>2, Zenon
  <2> QED
    BY <2>1, Zenon DEF Counting
<1>7. CASE Op(t, n) = "callback"
  <2>1. stack' = Popped(t) /\ ~Within(t, n) /\ ~Holds(t, n)
    BY <1>2, <1>7, Zenon DEF Within, Holds
  <2>2. /\ Shape' /\ Nesting' /\ Owning' /\ Freeing' /\ Served'
        /\ stack' \in [All -> Seq(Activations)]
        /\ \A u \in All : \A i \in 1 .. N(u)' :
             /\ i \in 1 .. N(u) /\ ~(u = t /\ i = n)
             /\ H(u, i)' = H(u, i) /\ Op(u, i)' = Op(u, i) /\ Pc(u, i)' = Pc(u, i)
             /\ (Holds(u, i)' <=> Holds(u, i))
        /\ \A u \in All : \A i \in 1 .. N(u) : ~(u = t /\ i = n) => i \in 1 .. N(u)'
    BY <1>1, <1>2, <2>1, PopKeeps, Zenon
  <2>3. Locking'
    BY <1>2, <2>1, <2>2, LockingKept, Zenon
  <2>4. Counting'
    BY <1>6, <2>2, Zenon
  <2>5. HandleTypes'
    BY <1>2, <1>5, <2>2, Zenon DEF HandleTypes
  <2> QED
    BY <2>2, <2>3, <2>4, <2>5, Zenon
<1>8. CASE Op(t, n) # "callback"
  <2>1. stack' = Moved(t, "native") /\ "native" \in Places
    BY <1>2, <1>8, Zenon DEF Places
  <2>2. /\ stack' \in [All -> Seq(Activations)]
        /\ \A u \in All : /\ N(u)' = N(u)
                          /\ \A i \in 1 .. N(u) :
                               /\ H(u, i)' = H(u, i) /\ Op(u, i)' = Op(u, i)
                               /\ Pc(u, i)' = IF u = t /\ i = n THEN "native" ELSE Pc(u, i)
    BY <1>1, <1>2, <2>1, MovedIs
  <2>3. \A u \in All : \A i \in 1 .. N(u) :
          /\ (Holds(u, i)' <=> Holds(u, i)) /\ (Owns(u, i)' <=> Owns(u, i))
          /\ (Within(u, i)' <=> Within(u, i))
    BY <1>2, <1>8, <2>2 DEF Holds, Owns, Within
  <2>4. Shape'
    BY <1>1, <1>2, <1>8, <2>2 DEF Shape
  <2>5. Nesting'
    BY <1>1, <1>2, <1>3, <2>2 DEF Nesting
  <2>6. Locking'
    BY <1>2, <2>2, <2>3, LockingKept, Zenon
  <2>7. Owning'
    BY <1>2, <2>2, <2>3 DEF Owning
  <2>8. Freeing'
    BY <1>2, <2>2, <2>3 DEF Freeing
  <2>9. Served'
    BY <2>2, <2>3 DEF Served
  <2>10. Counting'
    BY <1>6, <2>2, Zenon
  <2>11. HandleTypes'
    BY <1>2, <1>5, <2>2, Zenon DEF HandleTypes
  <2> QED
    BY <2>4, <2>5, <2>6, <2>7, <2>8, <2>9, <2>10, <2>11, Zenon
<1> QED
  BY <1>7, <1>8, Zenon

\* A native call of a reader calls back on a worker.
LEMMA CallbackOnWorkerKeeps ==
  ASSUME HInv, NEW t \in All, NEW w \in Workers, NEW i \in DOMAIN stack[t],
         CallbackOnWorker(t, i, w), UNCHANGED binding
  PROVE  HInv'
<1> USE DEF HInv
<1>1. /\ stack' \in [All -> Seq(Activations)] /\ i \in 1 .. N(t) /\ t # w /\ w \in All
      /\ N(w) = 0 /\ N(w)' = 1 /\ \A u \in All : u # w => N(u)' = N(u)
      /\ \A u \in All : \A j \in 1 .. N(u) :
           H(u, j)' = H(u, j) /\ Op(u, j)' = Op(u, j) /\ Pc(u, j)' = Pc(u, j)
      /\ H(w, 1)' = H(t, i) /\ Op(w, 1)' = "callback" /\ Pc(w, 1)' = "callback"
  BY CallbackOnWorkerIs, Zenon
<1>0. N(w) = 0 /\ N(w)' = 1 /\ \A u \in All : u # w => N(u)' = N(u)
  BY <1>1, Zenon
<1>2. PICK h \in Handles : h = H(t, i)
  BY <1>1, ActivationTypes, Zenon
<1>3. /\ h \in Tracked /\ Within(t, i) /\ depth' = Counted(h, w, depth[h][w] + 1)
      /\ UNCHANGED <<binding, lock, entered, owner, handle, freed>>
  BY <1>2, Zenon DEF CallbackOnWorker, Within, H, Op, Pc
<1>4. /\ \A u \in All : \A j \in 1 .. N(u) :
           /\ j \in 1 .. N(u)' /\ (Holds(u, j)' <=> Holds(u, j))
           /\ (Owns(u, j)' <=> Owns(u, j)) /\ (Within(u, j)' <=> Within(u, j))
      /\ ~Holds(w, 1)' /\ ~Owns(w, 1)' /\ ~Within(w, 1)'
  <2>1. ASSUME NEW u \in All, NEW j \in 1 .. N(u)
        PROVE  /\ (Holds(u, j)' <=> Holds(u, j)) /\ (Owns(u, j)' <=> Owns(u, j))
               /\ (Within(u, j)' <=> Within(u, j))
    BY <1>1, Zenon DEF Holds, Owns, Within
  <2>2. ASSUME NEW u \in All, NEW j \in 1 .. N(u)
        PROVE  j \in 1 .. N(u)'
    <3>1. CASE u = w
      BY <1>0, <3>1
    <3>2. CASE u # w
      BY <1>0, <3>2, Zenon
    <3> QED
      BY <3>1, <3>2, Zenon
  <2>3. ~Holds(w, 1)' /\ ~Owns(w, 1)' /\ ~Within(w, 1)'
    BY <1>1, Zenon DEF Holds, Owns, Within
  <2> QED
    BY <2>1, <2>2, <2>3, Zenon
<1>5. \A u \in All : \A j \in 1 .. N(u)' : j \in 1 .. N(u) \/ (u = w /\ j = 1)
  BY <1>0
<1>6. depth[h][w] = 0
  BY <1>1 DEF Counting
<1>7. /\ depth' \in [Handles -> [All -> Nat]] /\ depth'[h][w] = 1
      /\ \A g \in Handles, u \in All : g # h \/ u # w => depth'[g][u] = depth[g][u]
  <2>1. depth' = Counted(h, w, 1)
    BY <1>3, <1>6
  <2> QED
    BY <1>1, <1>3, <2>1, CountedIs
<1>8. Shape'
  BY <1>1, <1>2, <1>3, <1>5 DEF Shape
<1>9. Nesting'
  BY <1>1, <1>3, <1>5 DEF Nesting
<1>10. Locking'
  BY <1>1, <1>3, <1>4, <1>5, LockingKept, Zenon
<1>11. Owning'
  <2>1. ASSUME NEW u \in All, NEW j \in 1 .. N(u)', Owns(u, j)'
        PROVE  owner'[H(u, j)'] = u
    <3>1. j \in 1 .. N(u)
      BY <1>4, <1>5, <2>1, Zenon
    <3>2. Owns(u, j) /\ H(u, j)' = H(u, j)
      BY <1>1, <1>4, <2>1, <3>1, Zenon
    <3> QED
      BY <1>3, <3>1, <3>2, Zenon DEF Owning
  <2> QED
    BY <2>1, Zenon DEF Owning
<1>12. Freeing'
  <2>1. ASSUME NEW u \in All, NEW j \in 1 .. N(u)', Within(u, j)'
        PROVE  handle'[H(u, j)']
    <3>1. j \in 1 .. N(u)
      BY <1>4, <1>5, <2>1, Zenon
    <3>2. Within(u, j) /\ H(u, j)' = H(u, j)
      BY <1>1, <1>4, <2>1, <3>1, Zenon
    <3> QED
      BY <1>3, <3>1, <3>2, Zenon DEF Freeing
  <2> QED
    BY <1>3, <2>1, Zenon DEF Freeing
<1>13. Served'
  <2>1. ASSUME NEW u \in All, NEW j \in 1 .. N(u)', Op(u, j)' = "callback"
        PROVE  \E v \in All : \E k \in 1 .. N(v) : H(v, k) = H(u, j)' /\ Within(v, k)
    <3>1. CASE j \in 1 .. N(u)
      <4>1. Op(u, j) = "callback" /\ H(u, j)' = H(u, j)
        BY <1>1, <2>1, <3>1, Zenon
      <4> QED
        BY <3>1, <4>1, Zenon DEF Served
    <3>2. CASE u = w /\ j = 1
      BY <1>1, <1>3, <3>2, Zenon
    <3> QED
      BY <1>5, <2>1, <3>1, <3>2, Zenon
  <2>2. ASSUME NEW v \in All, NEW k \in 1 .. N(v), Within(v, k)
        PROVE  k \in 1 .. N(v)' /\ H(v, k)' = H(v, k) /\ Within(v, k)'
    BY <1>1, <1>4, <2>2, Zenon
  <2>3. ASSUME NEW u \in All, NEW j \in 1 .. N(u)', Op(u, j)' = "callback"
        PROVE  \E v \in All : \E k \in 1 .. N(v)' : H(v, k)' = H(u, j)' /\ Within(v, k)'
    <3>1. PICK v \in All : \E k \in 1 .. N(v) : H(v, k) = H(u, j)' /\ Within(v, k)
      BY <2>1, <2>3, Zenon
    <3>2. PICK k \in 1 .. N(v) : H(v, k) = H(u, j)' /\ Within(v, k)
      BY <3>1, Zenon
    <3> QED
      BY <2>2, <3>2, Zenon
  <2> QED
    BY <2>3, Zenon DEF Served
<1>14. Counting'
  <2>1. ASSUME NEW g \in Handles, NEW u \in All
        PROVE  depth'[g][u] = IF g \in Tracked /\ \E j \in 1 .. N(u)' :
                                   H(u, j)' = g /\ Pc(u, j)' \in {"callback", "called"}
                              THEN 1 ELSE 0
    <3>1. CASE u = w /\ g = h
      BY <1>1, <1>2, <1>3, <1>7, <3>1
    <3>2. CASE u = w /\ g # h
      <4>1. depth'[g][u] = 0
        BY <1>1, <1>7, <3>2 DEF Counting
      <4>2. ~ \E j \in 1 .. N(u)' : H(u, j)' = g
        BY <1>1, <1>2, <1>5, <3>2
      <4> QED
        BY <4>1, <4>2, Zenon
    <3>3. CASE u # w
      <4>1. (\E j \in 1 .. N(u)' : H(u, j)' = g /\ Pc(u, j)' \in {"callback", "called"})
              <=> \E j \in 1 .. N(u) : H(u, j) = g /\ Pc(u, j) \in {"callback", "called"}
        BY <1>1, <3>3
      <4> QED
        BY <1>7, <3>3, <4>1 DEF Counting
    <3> QED
      BY <3>1, <3>2, <3>3, Zenon
  <2> QED
    BY <2>1, Zenon DEF Counting
<1>15. HandleTypes'
  BY <1>1, <1>3, <1>7, Zenon DEF HandleTypes
<1> QED
  BY <1>8, <1>9, <1>10, <1>11, <1>12, <1>13, <1>14, <1>15, Zenon

\* Every step of threads, workers and callbacks keeps the invariant.
LEMMA HandlesInductive == Spec => []HInv
<1>1. Init => HInv
  <2> SUFFICES ASSUME Init PROVE HInv
    BY Zenon
  <2>1. \A t \in All : stack[t] = <<>> /\ N(t) = 0
    BY Zenon DEF Init, N
  <2>2. stack \in [All -> Seq(Activations)]
    BY DEF Init
  <2>3. depth \in [Handles -> [All -> Nat]] /\ \A h \in Handles, t \in All : depth[h][t] = 0
    BY Zenon DEF Init
  <2>4. HandleTypes
    BY <2>2, <2>3, Zenon DEF Init, HandleTypes
  <2>5. \A t \in All : \A i \in 1 .. N(t) : FALSE
    BY <2>1
  <2>6. Shape /\ Nesting /\ Owning /\ Served
    BY <2>5, Zenon DEF Shape, Nesting, Owning, Served
  <2>7. Locking
    BY <2>5, HandlesAssumption, Zenon DEF Init, Locking
  <2>8. Counting
    BY <2>3, <2>5, Zenon DEF Counting
  <2>9. Freeing
    BY <2>5, Zenon DEF Init, Freeing
  <2> QED
    BY <2>4, <2>6, <2>7, <2>8, <2>9, Zenon DEF HInv
<1>2. HInv /\ [Next]_vars => HInv'
  <2> SUFFICES ASSUME HInv, [Next]_vars PROVE HInv'
    BY Zenon
  <2>1. CASE UNCHANGED vars
    <3>1. \A t : N(t)' = N(t) /\ \A i : H(t, i)' = H(t, i) /\ Op(t, i)' = Op(t, i) /\ Pc(t, i)' = Pc(t, i)
      BY <2>1, Zenon DEF vars, N, H, Op, Pc
    <3>2. \A t, i : (Holds(t, i)' <=> Holds(t, i)) /\ (Owns(t, i)' <=> Owns(t, i)) /\ (Within(t, i)' <=> Within(t, i))
      BY <3>1 DEF Holds, Owns, Within
    <3>3. HandleTypes'
      BY <2>1, Zenon DEF HInv, HandleTypes, vars
    <3>4. Shape' /\ Nesting'
      BY <2>1, <3>1, Zenon DEF HInv, Shape, Nesting, vars
    <3>5. Locking'
      BY <2>1, <3>1, <3>2, LockingKept, Zenon DEF HInv, vars
    <3>6. Owning' /\ Served'
      BY <2>1, <3>1, <3>2, Zenon DEF HInv, Owning, Served, vars
    <3>7. Counting'
      BY <2>1, <3>1, Zenon DEF HInv, Counting, vars
    <3>8. Freeing'
      BY <2>1, <3>1, <3>2, Zenon DEF HInv, Freeing, vars
    <3> QED
      BY <3>3, <3>4, <3>5, <3>6, <3>7, <3>8, Zenon DEF HInv
  <2>2. CASE Next
    <3>0. UNCHANGED binding
      BY <2>2, Zenon DEF Next
    <3>1. ASSUME NEW t \in Threads, NEW h \in Handles, NEW op \in {"use", "close"}, Call(t, h, op)
          PROVE  HInv'
      BY <3>0, <3>1, CallKeeps, Zenon DEF All
    <3>2. ASSUME NEW t \in All, NEW h \in Handles, NEW op \in {"use", "close"}, CallBack(t, h, op)
          PROVE  HInv'
      BY <3>0, <3>2, CallKeeps, Zenon
    <3>3. ASSUME NEW t \in All, Step(t)
          PROVE  HInv'
      BY <3>0, <3>3, CheckKeeps, AcquireKeeps, OwnKeeps, RunKeeps, CallbackReturnKeeps,
         NativeReturnKeeps, DisownKeeps, ReleaseKeeps, Zenon DEF Step
    <3>4. ASSUME NEW t \in All, Callback(t)
          PROVE  HInv'
      BY <3>0, <3>4, CallbackKeeps, Zenon
    <3>5. ASSUME NEW t \in All, NEW w \in Workers, NEW i \in DOMAIN stack[t], CallbackOnWorker(t, i, w)
          PROVE  HInv'
      BY <3>0, <3>5, CallbackOnWorkerKeeps, Zenon
    <3>6. Finished => UNCHANGED vars
      BY Zenon DEF Finished
    <3> QED
      BY <2>1, <2>2, <3>1, <3>2, <3>3, <3>4, <3>5, <3>6, Zenon DEF Next
  <2> QED
    BY <2>1, <2>2, Zenon
<1> QED
  BY <1>1, <1>2, PTL DEF Spec

\* For any threads, workers, handles and callbacks: one native call at a time has a
\* handle and none a freed one, no thread waits for itself, and the owner stays that of
\* the outer call when a reentrant one is turned away.
THEOREM HandleSafety == Spec => [](HandleIsExclusive /\ NoWaitForItself /\ OwnerCoversTheCall)
<1>1. HInv => HandleIsExclusive /\ NoWaitForItself /\ OwnerCoversTheCall
  <2> SUFFICES ASSUME HInv PROVE HandleIsExclusive /\ NoWaitForItself /\ OwnerCoversTheCall
    BY Zenon
  <2> USE DEF HInv
  <2>1. \A t \in All : DOMAIN stack[t] = 1 .. N(t)
    BY ActivationTypes DEF N
  <2>2. ASSUME NEW h \in Handles, NEW t
        PROVE  t \in Inside(h) <=> t \in All /\ \E i \in 1 .. N(t) : H(t, i) = h /\ Within(t, i)
    BY <2>1, Zenon DEF Inside, All, H, Within, Op, Pc
  <2>3. ASSUME NEW h \in Handles, NEW t \in Inside(h)
        PROVE  t \in All /\ lock[h] = t /\ owner[h] = t /\ handle[h]
    <3>1. PICK i \in 1 .. N(t) : t \in All /\ H(t, i) = h /\ Within(t, i)
      BY <2>2, Zenon
    <3>2. Holds(t, i) /\ Owns(t, i)
      BY <3>1, Zenon DEF Within, Holds, Owns
    <3> QED
      BY <3>1, <3>2 DEF Locking, Owning, Freeing
  <2>4. ASSUME NEW h \in Handles
        PROVE  /\ freed[h] <= 1
               /\ Inside(h) # {} => freed[h] = 0 /\ \E t \in All : Inside(h) = {t}
               /\ Serving(h) # {} => Inside(h) # {}
    <3>1. freed[h] <= 1
      BY DEF Freeing
    <3>2. ASSUME Inside(h) # {}
          PROVE  freed[h] = 0 /\ \E t \in All : Inside(h) = {t}
      <4>1. PICK t : t \in Inside(h)
        BY <3>2, Zenon
      <4>2. handle[h] /\ t \in All /\ Inside(h) = {t}
        BY <2>3, <4>1, Zenon
      <4> QED
        BY <4>2, Zenon DEF Freeing
    <3>3. ASSUME Serving(h) # {}
          PROVE  Inside(h) # {}
      <4>1. PICK w \in Workers : \E i \in DOMAIN stack[w] : stack[w][i].op = "callback" /\ stack[w][i].h = h
        BY <3>3, Zenon DEF Serving
      <4>2. w \in All /\ \E i \in 1 .. N(w) : Op(w, i) = "callback" /\ H(w, i) = h
        BY <2>1, <4>1, Zenon DEF All, Op, H
      <4>3. \E t \in All : \E j \in 1 .. N(t) : H(t, j) = h /\ Within(t, j)
        BY <4>2, Zenon DEF Served
      <4> QED
        BY <2>2, <4>3, Zenon
    <3> QED
      BY <3>1, <3>2, <3>3, Zenon
  <2>5. HandleIsExclusive
    BY <2>4, Zenon DEF HandleIsExclusive
  <2>6. OwnerCoversTheCall
    BY <2>3, Zenon DEF OwnerCoversTheCall
  <2>7. ASSUME NEW t \in All, At(t, "acquire"), NEW i \in 1 .. Len(stack[t]) - 1, stack[t][i].h = Top(t).h
        PROVE  binding = "java" /\ lock[Top(t).h] = t
    <3>1. PICK n \in Nat, h \in Handles : n = N(t) /\ h = H(t, n)
      BY <2>7, TopIs, Zenon
    <3>2. Top(t).h = h /\ n \in 1 .. N(t) /\ Pc(t, n) = "acquire"
      BY <2>7, <3>1, TopIs, Zenon
    <3>3. i \in 1 .. N(t) /\ i < n /\ H(t, i) = h
      BY <2>7, <3>1, <3>2 DEF N, H
    <3>4. binding = "java" /\ h \notin Tracked
      BY <3>1, <3>2, <3>3, Zenon DEF Nesting
    <3>5. Holds(t, i)
      BY <3>1, <3>3, <3>4, Zenon DEF Shape, Holds
    <3> QED
      BY <3>2, <3>3, <3>4, <3>5 DEF Locking
  <2>8. NoWaitForItself
    BY <2>7, Zenon DEF NoWaitForItself
  <2> QED
    BY <2>5, <2>6, <2>8, Zenon
<1> QED
  BY <1>1, HandlesInductive, PTL

\* All that is promised of handles, when the operations on them and the way from
\* trainers to writers go on side by side.
THEOREM NativeSafety == Spec /\ OwnershipSpec => []HandlesAreSafe
<1>1. HandleIsExclusive /\ NoWaitForItself /\ OwnerCoversTheCall /\ NoLateUse /\ OwnedOnce => HandlesAreSafe
  BY Zenon DEF HandlesAreSafe
<1> QED
  BY <1>1, HandleSafety, OwnershipSafety, PTL

==============================================================================

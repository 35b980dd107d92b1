-------------------------- MODULE NativeCallProofs ---------------------------
(***************************************************************************)
(* The inductive invariant of the operations on handles of NativeHandles,  *)
(* what a step does to the activations of a thread, and what a call, a step*)
(* within a call and its end keep of the invariant.                        *)
(***************************************************************************)
EXTENDS NativeHandles, TLAPS

(***************************************************************************)
(* Handles.  The activations are seen through what the invariant is about: *)
(* how many a thread has, and the handle, operation and place of each.     *)
(***************************************************************************)

Places == {"check", "acquire", "own", "run", "native", "callback", "called", "disown", "release"}
Activations == [h : Handles, op : {"use", "close", "callback"}, pc : Places, reads : Nat]

N(t) == Len(stack[t])
H(t, i) == stack[t][i].h
Op(t, i) == stack[t][i].op
Pc(t, i) == stack[t][i].pc

\* An activation that has entered the lock of its handle, one that is beyond Own and
\* has not disowned the handle, and one in native code.
Holds(t, i) ==
  Op(t, i) # "callback" /\ Pc(t, i) \in {"own", "run", "native", "callback", "called", "disown", "release"}
Owns(t, i) ==
  Op(t, i) # "callback" /\ Pc(t, i) \in {"run", "native", "callback", "called", "disown"}
Within(t, i) == Op(t, i) # "callback" /\ Pc(t, i) \in {"native", "callback", "called"}

HandleTypes ==
  /\ binding \in {"python", "java"}
  /\ lock \in [Handles -> All \cup {None}] /\ entered \in [Handles -> Nat]
  /\ owner \in [Handles -> All \cup {None}] /\ depth \in [Handles -> [All -> Nat]]
  /\ handle \in [Handles -> BOOLEAN] /\ freed \in [Handles -> Nat]
  /\ stack \in [All -> Seq(Activations)]

\* An activation with another one above it has called it; a callback on a worker is the
\* first thing there, for a reader.
Shape ==
  \A t \in All : \A i \in 1 .. N(t) :
    /\ i < N(t) => Pc(t, i) = "called"
    /\ Op(t, i) = "callback" =>
         i = 1 /\ t \in Workers /\ H(t, i) \in Tracked /\ Pc(t, i) \in {"callback", "called"}

\* Two activations of a thread on one handle: the upper one was not let through yet, or
\* it is in a monitor of a writer that its own thread holds, to be turned away.
Nesting ==
  \A t \in All : \A i, j \in 1 .. N(t) : i < j /\ H(t, i) = H(t, j) =>
    \/ Pc(t, j) = "check"
    \/ /\ binding = "java" /\ H(t, j) \notin Tracked
       /\ Pc(t, j) \in {"acquire", "own", "release"}

Locking ==
  /\ \A t \in All : \A i \in 1 .. N(t) : Holds(t, i) => lock[H(t, i)] = t
  /\ \A h \in Handles : lock[h] = None => entered[h] = 0
  /\ \A h \in Handles, t \in All :
       lock[h] = t => \E i \in 1 .. N(t) : H(t, i) = h /\ Holds(t, i)
  /\ \A t \in All : \A i \in 1 .. N(t) : Holds(t, i) =>
       entered[H(t, i)] =
         IF \E j \in 1 .. N(t) : j # i /\ H(t, j) = H(t, i) /\ Holds(t, j) THEN 2 ELSE 1

Owning == \A t \in All : \A i \in 1 .. N(t) : Owns(t, i) => owner[H(t, i)] = t

\* Callbacks are counted for readers, once.
Counting ==
  \A h \in Handles, t \in All :
    depth[h][t] =
      IF h \in Tracked /\ \E i \in 1 .. N(t) : H(t, i) = h /\ Pc(t, i) \in {"callback", "called"}
      THEN 1 ELSE 0

Freeing ==
  /\ \A h \in Handles : freed[h] = IF handle[h] THEN 0 ELSE 1
  /\ \A t \in All : \A i \in 1 .. N(t) : Within(t, i) => handle[H(t, i)]

\* A callback on a worker serves a native call that is still on.
Served ==
  \A w \in All : \A i \in 1 .. N(w) : Op(w, i) = "callback" =>
    \E t \in All : \E j \in 1 .. N(t) : H(t, j) = H(w, i) /\ Within(t, j)

HInv == HandleTypes /\ Shape /\ Nesting /\ Locking /\ Owning /\ Counting /\ Freeing /\ Served

\* What activations are made of.
LEMMA ActivationTypes ==
  ASSUME HandleTypes, NEW t \in All
  PROVE  /\ stack[t] \in Seq(Activations) /\ N(t) \in Nat
         /\ \A i \in 1 .. N(t) :
              /\ stack[t][i] \in Activations
              /\ H(t, i) \in Handles /\ Op(t, i) \in {"use", "close", "callback"} /\ Pc(t, i) \in Places
         /\ stack[t] # <<>> <=> N(t) > 0
<1>1. stack[t] \in Seq(Activations)
  BY Zenon DEF HandleTypes
<1>2. N(t) \in Nat /\ \A i \in 1 .. N(t) : stack[t][i] \in Activations
  BY <1>1 DEF N
<1>3. stack[t] # <<>> <=> N(t) > 0
  BY <1>1, <1>2 DEF N
<1> QED
  BY <1>1, <1>2, <1>3, Zenon DEF Activations, H, Op, Pc

\* A step of the current activation.
LEMMA MovedIs ==
  ASSUME HandleTypes, NEW t \in All, stack[t] # <<>>, NEW pc \in Places, stack' = Moved(t, pc)
  PROVE  /\ stack' \in [All -> Seq(Activations)]
         /\ \A u \in All : /\ N(u)' = N(u)
                           /\ \A i \in 1 .. N(u) :
                                /\ H(u, i)' = H(u, i) /\ Op(u, i)' = Op(u, i)
                                /\ Pc(u, i)' = IF u = t /\ i = N(t) THEN pc ELSE Pc(u, i)
<1>1. /\ stack \in [All -> Seq(Activations)] /\ stack[t] \in Seq(Activations)
      /\ N(t) \in Nat /\ N(t) \in 1 .. N(t) /\ stack[t][N(t)] \in Activations
  BY ActivationTypes DEF HandleTypes
<1>2. PICK a : a = [stack[t][N(t)] EXCEPT !.pc = pc]
  BY Zenon
<1>3. a \in Activations /\ a.h = H(t, N(t)) /\ a.op = Op(t, N(t)) /\ a.pc = pc
  BY <1>1, <1>2, Zenon DEF Activations, H, Op
<1>4. PICK s : s = [stack[t] EXCEPT ![N(t)] = a]
  BY Zenon
<1>5. /\ s \in Seq(Activations) /\ Len(s) = N(t) /\ s[N(t)] = a
      /\ \A i \in 1 .. N(t) : i # N(t) => s[i] = stack[t][i]
  BY <1>1, <1>3, <1>4 DEF N
<1>6. stack' = [stack EXCEPT ![t] = s]
  BY <1>2, <1>4, Zenon DEF Moved, N
<1>7. stack' \in [All -> Seq(Activations)] /\ stack'[t] = s /\ \A u \in All : u # t => stack'[u] = stack[u]
  BY <1>1, <1>5, <1>6, Zenon
<1>8. ASSUME NEW u \in All, u # t
      PROVE  N(u)' = N(u) /\ \A i \in 1 .. N(u) : H(u, i)' = H(u, i) /\ Op(u, i)' = Op(u, i) /\ Pc(u, i)' = Pc(u, i)
  BY <1>7, <1>8, Zenon DEF N, H, Op, Pc
<1>9. N(t)' = N(t)
  BY <1>5, <1>7, Zenon DEF N
<1>10. ASSUME NEW i \in 1 .. N(t)
       PROVE  /\ H(t, i)' = H(t, i) /\ Op(t, i)' = Op(t, i)
              /\ Pc(t, i)' = IF i = N(t) THEN pc ELSE Pc(t, i)
  <2>1. CASE i = N(t)
    <3>1. stack'[t][i] = a
      BY <1>5, <1>7, <2>1, Zenon
    <3> QED
      BY <1>3, <2>1, <3>1, Zenon DEF H, Op, Pc
  <2>2. CASE i # N(t)
    <3>1. stack'[t][i] = stack[t][i]
      BY <1>5, <1>7, <2>2, Zenon
    <3> QED
      BY <2>2, <3>1, Zenon DEF H, Op, Pc
  <2> QED
    BY <2>1, <2>2, Zenon
<1>11. ASSUME NEW u \in All
       PROVE  /\ N(u)' = N(u)
              /\ \A i \in 1 .. N(u) :
                   /\ H(u, i)' = H(u, i) /\ Op(u, i)' = Op(u, i)
                   /\ Pc(u, i)' = IF u = t /\ i = N(t) THEN pc ELSE Pc(u, i)
  <2>1. CASE u = t
    BY <1>9, <1>10, <2>1, Zenon
  <2>2. CASE u # t
    BY <1>8, <2>2, Zenon
  <2> QED
    BY <2>1, <2>2, Zenon
<1> QED
  BY <1>7, <1>11, Zenon

\* The end of the current activation.
LEMMA PoppedIs ==
  ASSUME HandleTypes, NEW t \in All, stack[t] # <<>>, stack' = Popped(t)
  PROVE  /\ stack' \in [All -> Seq(Activations)]
         /\ N(t)' = N(t) - 1 /\ \A u \in All : u # t => N(u)' = N(u)
         /\ \A u \in All : \A i \in 1 .. N(u) : u # t \/ i # N(t) =>
              H(u, i)' = H(u, i) /\ Op(u, i)' = Op(u, i) /\ Pc(u, i)' = Pc(u, i)
<1>1. /\ stack \in [All -> Seq(Activations)] /\ stack[t] \in Seq(Activations)
      /\ N(t) \in Nat /\ N(t) > 0
  BY ActivationTypes, Zenon DEF HandleTypes
<1>2. PICK s : s = SubSeq(stack[t], 1, N(t) - 1)
  BY Zenon
<1>3. /\ s \in Seq(Activations) /\ Len(s) = N(t) - 1
      /\ \A i \in 1 .. N(t) - 1 : s[i] = stack[t][i]
  <2>1. N(t) - 1 \in Nat /\ \A i \in 1 .. N(t) - 1 : stack[t][i] \in Activations
    BY <1>1 DEF N
  <2>2. \A i \in 1 .. N(t) - 1 : s[i] = stack[t][i]
    BY <1>1, <1>2, <2>1 DEF N
  <2>3. s \in Seq(Activations)
    BY <1>1, <1>2, <2>1 DEF N
  <2>4. DOMAIN s = 1 .. N(t) - 1
    BY <1>1, <1>2, <2>1 DEF N
  <2>5. Len(s) = N(t) - 1
    BY <2>1, <2>3, <2>4
  <2> QED
    BY <2>2, <2>3, <2>5, Zenon
<1>4. stack' = [stack EXCEPT ![t] = s]
  BY <1>2, Zenon DEF Popped, N
<1>5. stack' \in [All -> Seq(Activations)] /\ stack'[t] = s /\ \A u \in All : u # t => stack'[u] = stack[u]
  BY <1>1, <1>3, <1>4, Zenon
<1>6. ASSUME NEW u \in All, NEW i \in 1 .. N(u), u # t \/ i # N(t)
      PROVE  stack'[u][i] = stack[u][i]
  BY <1>1, <1>3, <1>5, <1>6
<1>7. N(t)' = N(t) - 1 /\ \A u \in All : u # t => N(u)' = N(u)
  BY <1>3, <1>5, Zenon DEF N
<1>8. ASSUME NEW u \in All, NEW i \in 1 .. N(u), u # t \/ i # N(t)
      PROVE  H(u, i)' = H(u, i) /\ Op(u, i)' = Op(u, i) /\ Pc(u, i)' = Pc(u, i)
  BY <1>6, <1>8, Zenon DEF H, Op, Pc
<1> QED
  BY <1>5, <1>7, <1>8, Zenon

\* A call, from outside or from a callback, which then has called.
LEMMA PushedIs ==
  ASSUME HandleTypes, NEW t \in All, NEW h \in Handles, NEW op \in {"use", "close"},
         \/ stack' = Pushed(t, Operation(h, op)) /\ stack[t] = <<>>
         \/ /\ stack[t] # <<>>
            /\ stack' = [stack EXCEPT ![t] = Append([@ EXCEPT ![Len(@)].pc = "called"], Operation(h, op))]
  PROVE  /\ stack' \in [All -> Seq(Activations)]
         /\ N(t)' = N(t) + 1 /\ \A u \in All : u # t => N(u)' = N(u)
         /\ \A u \in All : \A i \in 1 .. N(u) :
              /\ H(u, i)' = H(u, i) /\ Op(u, i)' = Op(u, i)
              /\ Pc(u, i)' = IF u = t /\ i = N(t) THEN "called" ELSE Pc(u, i)
         /\ \A n : n = N(t) + 1 => H(t, n)' = h /\ Op(t, n)' = op /\ Pc(t, n)' = "check"
<1> DEFINE a == Operation(h, op)
<1>1. /\ stack \in [All -> Seq(Activations)] /\ stack[t] \in Seq(Activations) /\ N(t) \in Nat
      /\ stack[t] # <<>> => N(t) \in 1 .. N(t) /\ stack[t][N(t)] \in Activations
      /\ stack[t] = <<>> => N(t) = 0
  BY ActivationTypes DEF HandleTypes
<1>2. a \in Activations /\ a.h = h /\ a.op = op /\ a.pc = "check"
  BY HandlesAssumption, Zenon DEF Operation, Activations, Places
<1> HIDE DEF a
<1>3. PICK r \in Seq(Activations) :
        /\ Len(r) = N(t) /\ stack' = [stack EXCEPT ![t] = Append(r, a)]
        /\ \A i \in 1 .. N(t) : /\ r[i].h = H(t, i) /\ r[i].op = Op(t, i)
                                /\ r[i].pc = IF i = N(t) THEN "called" ELSE Pc(t, i)
  <2>1. CASE stack[t] = <<>>
    <3>1. stack' = [stack EXCEPT ![t] = Append(stack[t], a)]
      BY <2>1, Zenon DEF Pushed, a
    <3>2. Len(stack[t]) = N(t) /\ \A i \in 1 .. N(t) : FALSE
      BY <1>1, <2>1 DEF N
    <3> QED
      BY <1>1, <3>1, <3>2, Zenon
  <2>2. CASE stack[t] # <<>>
    <3>1. PICK b : b = [stack[t][N(t)] EXCEPT !.pc = "called"]
      BY Zenon
    <3>2. b \in Activations /\ b.h = H(t, N(t)) /\ b.op = Op(t, N(t)) /\ b.pc = "called"
      BY <1>1, <2>2, <3>1, Zenon DEF Activations, H, Op, Places
    <3>3. PICK r : r = [stack[t] EXCEPT ![N(t)] = b]
      BY Zenon
    <3>4. /\ r \in Seq(Activations) /\ Len(r) = N(t) /\ r[N(t)] = b
          /\ \A i \in 1 .. N(t) : i # N(t) => r[i] = stack[t][i]
      BY <1>1, <2>2, <3>2, <3>3 DEF N
    <3>5. stack' = [stack EXCEPT ![t] = Append(r, a)]
      BY <2>2, <3>1, <3>3, Zenon DEF a, N
    <3>6. \A i \in 1 .. N(t) : /\ r[i].h = H(t, i) /\ r[i].op = Op(t, i)
                               /\ r[i].pc = IF i = N(t) THEN "called" ELSE Pc(t, i)
      BY <3>2, <3>4, Zenon DEF H, Op, Pc
    <3> QED
      BY <3>4, <3>5, <3>6, Zenon
  <2> QED
    BY <2>1, <2>2, Zenon
<1>4. PICK s : s = Append(r, a)
  BY Zenon
<1>5. s \in Seq(Activations) /\ Len(s) = N(t) + 1 /\ s[N(t) + 1] = a /\ \A i \in 1 .. N(t) : s[i] = r[i]
  BY <1>1, <1>2, <1>3, <1>4
<1>6. stack' \in [All -> Seq(Activations)] /\ stack'[t] = s /\ \A u \in All : u # t => stack'[u] = stack[u]
  BY <1>1, <1>3, <1>4, <1>5, Zenon
<1>7. N(t)' = N(t) + 1 /\ \A u \in All : u # t => N(u)' = N(u)
  BY <1>5, <1>6, Zenon DEF N
<1>8. ASSUME NEW u \in All, NEW i \in 1 .. N(u)
      PROVE  /\ H(u, i)' = H(u, i) /\ Op(u, i)' = Op(u, i)
             /\ Pc(u, i)' = IF u = t /\ i = N(t) THEN "called" ELSE Pc(u, i)
  <2>1. CASE u = t
    <3>1. stack'[u][i] = r[i]
      BY <1>5, <1>6, <2>1, Zenon
    <3>2. H(u, i)' = r[i].h /\ Op(u, i)' = r[i].op /\ Pc(u, i)' = r[i].pc
      BY <3>1, Zenon DEF H, Op, Pc
    <3> QED
      BY <1>3, <2>1, <3>2, Zenon
  <2>2. CASE u # t
    BY <1>6, <2>2, Zenon DEF H, Op, Pc
  <2> QED
    BY <2>1, <2>2, Zenon
<1>9. ASSUME NEW n, n = N(t) + 1
      PROVE  H(t, n)' = h /\ Op(t, n)' = op /\ Pc(t, n)' = "check"
  <2>1. stack'[t][n] = a
    BY <1>5, <1>6, <1>9, Zenon
  <2> QED
    BY <1>2, <2>1, Zenon DEF H, Op, Pc
<1> QED
  BY <1>6, <1>7, <1>8, <1>9, Zenon

\* A callback on the thread of the call itself, which costs the call one of its reads.
LEMMA CallbackIs ==
  ASSUME HandleTypes, NEW t \in All, stack[t] # <<>>, Top(t).reads > 0,
         stack' = [Moved(t, "callback") EXCEPT ![t][Len(stack[t])].reads = @ - 1]
  PROVE  /\ stack' \in [All -> Seq(Activations)]
         /\ \A u \in All : /\ N(u)' = N(u)
                           /\ \A i \in 1 .. N(u) :
                                /\ H(u, i)' = H(u, i) /\ Op(u, i)' = Op(u, i)
                                /\ Pc(u, i)' = IF u = t /\ i = N(t) THEN "callback" ELSE Pc(u, i)
<1>1. /\ stack \in [All -> Seq(Activations)] /\ stack[t] \in Seq(Activations)
      /\ N(t) \in Nat /\ N(t) \in 1 .. N(t) /\ stack[t][N(t)] \in Activations
  BY ActivationTypes DEF HandleTypes
<1>2. PICK b : b = [stack[t][N(t)] EXCEPT !.pc = "callback"]
  BY Zenon
<1>3. PICK r : r = [stack[t] EXCEPT ![N(t)] = b]
  BY Zenon
<1>4. b \in Activations /\ b.h = H(t, N(t)) /\ b.op = Op(t, N(t)) /\ b.pc = "callback"
      /\ b.reads = stack[t][N(t)].reads
  BY <1>1, <1>2, Zenon DEF Activations, H, Op, Places
<1>5. /\ r \in Seq(Activations) /\ Len(r) = N(t) /\ r[N(t)] = b
      /\ \A i \in 1 .. N(t) : i # N(t) => r[i] = stack[t][i]
  BY <1>1, <1>3, <1>4 DEF N
<1>6. Moved(t, "callback") = [stack EXCEPT ![t] = r]
  BY <1>2, <1>3, Zenon DEF Moved, N
<1>7. PICK c : c = [b EXCEPT !.reads = @ - 1]
  BY Zenon
<1>8. c \in Activations /\ c.h = H(t, N(t)) /\ c.op = Op(t, N(t)) /\ c.pc = "callback"
  <2>1. b.reads \in Nat /\ b.reads > 0
    BY <1>1, <1>4, Zenon DEF Activations, Top, N
  <2>2. b.reads - 1 \in Nat
    BY <2>1
  <2> QED
    BY <1>4, <1>7, <2>2, Zenon DEF Activations
<1>9. PICK s : s = [r EXCEPT ![N(t)] = c]
  BY Zenon
<1>10. /\ s \in Seq(Activations) /\ Len(s) = N(t) /\ s[N(t)] = c
       /\ \A i \in 1 .. N(t) : i # N(t) => s[i] = stack[t][i]
  BY <1>1, <1>5, <1>8, <1>9
<1>11. stack' = [stack EXCEPT ![t] = s]
  <2>1. stack' = [Moved(t, "callback") EXCEPT ![t][N(t)].reads = @ - 1]
    BY Zenon DEF N
  <2>2. Moved(t, "callback")[t] = r /\ r[N(t)] = b
    BY <1>1, <1>5, <1>6, Zenon
  <2>3. stack' = [Moved(t, "callback") EXCEPT ![t] = s]
    BY <1>7, <1>9, <2>1, <2>2, Zenon
  <2> QED
    BY <1>1, <1>6, <2>3, Zenon
<1>12. stack' \in [All -> Seq(Activations)] /\ stack'[t] = s /\ \A u \in All : u # t => stack'[u] = stack[u]
  BY <1>1, <1>10, <1>11, Zenon
<1>13. N(t)' = N(t) /\ \A u \in All : u # t => N(u)' = N(u)
  BY <1>10, <1>12, Zenon DEF N
<1>14. ASSUME NEW u \in All, NEW i \in 1 .. N(u)
       PROVE  /\ H(u, i)' = H(u, i) /\ Op(u, i)' = Op(u, i)
              /\ Pc(u, i)' = IF u = t /\ i = N(t) THEN "callback" ELSE Pc(u, i)
  <2>1. CASE u = t /\ i = N(t)
    <3>1. stack'[u][i] = c
      BY <1>10, <1>12, <2>1, Zenon
    <3> QED
      BY <1>8, <2>1, <3>1, Zenon DEF H, Op, Pc
  <2>2. CASE ~(u = t /\ i = N(t))
    <3>1. stack'[u][i] = stack[u][i]
      BY <1>10, <1>12, <2>2, Zenon
    <3>2. H(u, i)' = H(u, i) /\ Op(u, i)' = Op(u, i) /\ Pc(u, i)' = Pc(u, i)
      BY <3>1, Zenon DEF H, Op, Pc
    <3> QED
      BY <2>2, <3>2, Zenon
  <2> QED
    BY <2>1, <2>2, Zenon
<1> QED
  BY <1>12, <1>13, <1>14, Zenon

\* A callback on an idle worker, which costs the call one of its reads.
LEMMA CallbackOnWorkerIs ==
  ASSUME HandleTypes, NEW t \in All, NEW w \in Workers, NEW i \in DOMAIN stack[t],
         CallbackOnWorker(t, i, w)
  PROVE  /\ stack' \in [All -> Seq(Activations)] /\ i \in 1 .. N(t) /\ t # w /\ w \in All
         /\ N(w) = 0 /\ N(w)' = 1 /\ \A u \in All : u # w => N(u)' = N(u)
         /\ \A u \in All : \A j \in 1 .. N(u) :
              H(u, j)' = H(u, j) /\ Op(u, j)' = Op(u, j) /\ Pc(u, j)' = Pc(u, j)
         /\ H(w, 1)' = H(t, i) /\ Op(w, 1)' = "callback" /\ Pc(w, 1)' = "callback"
<1>1. /\ stack \in [All -> Seq(Activations)] /\ stack[t] \in Seq(Activations) /\ w \in All
      /\ i \in 1 .. N(t) /\ stack[t][i] \in Activations /\ H(t, i) \in Handles
  <2>1. i \in 1 .. N(t)
    BY ActivationTypes DEF N
  <2> QED
    BY <2>1, ActivationTypes, Zenon DEF HandleTypes, All
<1>2. t # w /\ N(w) = 0 /\ stack[t][i].reads > 0
  BY <1>1 DEF CallbackOnWorker, N
<1> DEFINE a == [stack[t][i] EXCEPT !.reads = @ - 1]
           b == [h |-> H(t, i), op |-> "callback", pc |-> "callback", reads |-> 0]
           s == [stack[t] EXCEPT ![i] = a]
<1>3. a \in Activations /\ a.h = H(t, i) /\ a.op = Op(t, i) /\ a.pc = Pc(t, i)
  <2>1. stack[t][i].reads \in Nat /\ stack[t][i].reads - 1 \in Nat
    BY <1>1, <1>2 DEF Activations
  <2> QED
    BY <1>1, <2>1, Zenon DEF Activations, H, Op, Pc
<1>4. b \in Activations /\ b.h = H(t, i) /\ b.op = "callback" /\ b.pc = "callback"
  BY <1>1, Zenon DEF Activations, Places
<1>5. stack' = [stack EXCEPT ![t] = s, ![w] = <<b>>]
  BY <1>1, <1>2, Zenon DEF CallbackOnWorker, H
<1> HIDE DEF a
<1>6. /\ s \in Seq(Activations) /\ Len(s) = N(t) /\ s[i] = a
      /\ \A j \in 1 .. N(t) : j # i => s[j] = stack[t][j]
  BY <1>1, <1>3 DEF N
<1> HIDE DEF b, s
<1>7. <<b>> \in Seq(Activations) /\ Len(<<b>>) = 1 /\ <<b>>[1] = b
  BY <1>4
<1>7a. PICK q \in Seq(Activations) : q = <<b>>
  BY <1>7, Zenon
<1>8. /\ stack' \in [All -> Seq(Activations)] /\ stack'[t] = s /\ stack'[w] = <<b>>
      /\ \A u \in All : u # t /\ u # w => stack'[u] = stack[u]
  <2>1. stack' = [stack EXCEPT ![t] = s, ![w] = q] /\ s \in Seq(Activations)
    BY <1>5, <1>6, <1>7a, Zenon
  <2>2. /\ stack' \in [All -> Seq(Activations)] /\ stack'[t] = s /\ stack'[w] = q
        /\ \A u \in All : u # t /\ u # w => stack'[u] = stack[u]
    BY <1>1, <1>2, <2>1, Zenon
  <2> QED
    BY <1>7a, <2>2, Zenon
<1>9. N(w)' = 1 /\ \A u \in All : u # w => N(u)' = N(u)
  BY <1>6, <1>7, <1>8, Zenon DEF N
<1>10. ASSUME NEW u \in All, NEW j \in 1 .. N(u)
       PROVE  H(u, j)' = H(u, j) /\ Op(u, j)' = Op(u, j) /\ Pc(u, j)' = Pc(u, j)
  <2>0. u # w
    BY <1>2
  <2>1. CASE u = t /\ j = i
    <3>1. stack'[u][j] = a
      BY <1>6, <1>8, <2>1, Zenon
    <3> QED
      BY <1>3, <2>1, <3>1, Zenon DEF H, Op, Pc
  <2>2. CASE ~(u = t /\ j = i)
    <3>1. stack'[u][j] = stack[u][j]
      BY <1>6, <1>8, <2>0, <2>2, Zenon
    <3> QED
      BY <3>1, Zenon DEF H, Op, Pc
  <2> QED
    BY <2>1, <2>2, Zenon
<1>11. stack'[w][1] = b
  BY <1>7, <1>8, Zenon
<1>12. b.h = H(w, 1)' /\ Op(w, 1)' = "callback" /\ Pc(w, 1)' = "callback"
  BY <1>4, <1>11, Zenon DEF H, Op, Pc
<1> QED
  BY <1>1, <1>2, <1>4, <1>8, <1>9, <1>10, <1>12, Zenon

\* The current activation.
LEMMA TopIs ==
  ASSUME HandleTypes, NEW t \in All, NEW pc, At(t, pc)
  PROVE  /\ stack[t] # <<>> /\ N(t) \in Nat /\ N(t) \in 1 .. N(t) /\ Pc(t, N(t)) = pc
         /\ Top(t).h = H(t, N(t)) /\ Top(t).op = Op(t, N(t)) /\ H(t, N(t)) \in Handles
<1>1. stack[t] # <<>> /\ N(t) \in Nat /\ N(t) > 0
  BY ActivationTypes, Zenon DEF At
<1>2. N(t) \in 1 .. N(t)
  BY <1>1
<1>3. H(t, N(t)) \in Handles
  BY <1>2, ActivationTypes, Zenon
<1> QED
  BY <1>1, <1>2, <1>3, Zenon DEF At, Top, N, H, Op, Pc

\* An activation beyond the refusals is the only one of its thread on its handle.
LEMMA Alone ==
  ASSUME HandleTypes, Nesting, NEW t \in All, NEW n \in 1 .. N(t), n = N(t),
         Pc(t, n) \notin {"check", "acquire", "own", "release"}
  PROVE  \A i \in 1 .. N(t) : H(t, i) = H(t, n) => i = n
<1>1. N(t) \in Nat
  BY ActivationTypes, Zenon
<1>2. ASSUME NEW i \in 1 .. N(t), H(t, i) = H(t, n), i # n
      PROVE  FALSE
  <2>1. i < n
    BY <1>1, <1>2
  <2> QED
    BY <1>2, <2>1, Zenon DEF Nesting
<1> QED
  BY <1>2, Zenon

\* A step that neither enters nor leaves a lock.
LEMMA LockingKept ==
  ASSUME HandleTypes, Locking, UNCHANGED <<lock, entered>>,
         \A u \in All : \A i \in 1 .. N(u)' : Holds(u, i)' => i \in 1 .. N(u) /\ Holds(u, i),
         \A u \in All : \A i \in 1 .. N(u) : Holds(u, i) =>
            i \in 1 .. N(u)' /\ Holds(u, i)' /\ H(u, i)' = H(u, i)
  PROVE  Locking'
<1>1. \A u \in All : \A i \in 1 .. N(u)' : Holds(u, i)' => lock'[H(u, i)'] = u
  BY DEF Locking
<1>2. ASSUME NEW h \in Handles, NEW u \in All, lock'[h] = u
      PROVE  \E i \in 1 .. N(u)' : H(u, i)' = h /\ Holds(u, i)'
  <2>1. \E i \in 1 .. N(u) : H(u, i) = h /\ Holds(u, i)
    BY <1>2, Zenon DEF Locking
  <2> QED
    BY <2>1, Zenon
<1>3. ASSUME NEW u \in All, NEW i \in 1 .. N(u)', Holds(u, i)'
      PROVE  entered'[H(u, i)'] =
               IF \E j \in 1 .. N(u)' : j # i /\ H(u, j)' = H(u, i)' /\ Holds(u, j)' THEN 2 ELSE 1
  <2>1. i \in 1 .. N(u) /\ Holds(u, i) /\ H(u, i)' = H(u, i)
    BY <1>3, Zenon
  <2>2. (\E j \in 1 .. N(u)' : j # i /\ H(u, j)' = H(u, i)' /\ Holds(u, j)')
          <=> (\E j \in 1 .. N(u) : j # i /\ H(u, j) = H(u, i) /\ Holds(u, j))
    BY <2>1, Zenon
  <2> QED
    BY <2>1, <2>2 DEF Locking
<1> QED
  BY <1>1, <1>2, <1>3, Zenon DEF Locking

\* A call, from outside or from a callback, starts with nothing in its hands.
LEMMA CallKeeps ==
  ASSUME HInv, NEW t \in All, NEW h \in Handles, NEW op \in {"use", "close"},
         \/ Call(t, h, op)
         \/ CallBack(t, h, op),
         UNCHANGED binding
  PROVE  HInv'
<1> USE DEF HInv
<1>1. /\ \/ stack' = Pushed(t, Operation(h, op)) /\ stack[t] = <<>>
         \/ /\ stack[t] # <<>>
            /\ stack' = [stack EXCEPT ![t] = Append([@ EXCEPT ![Len(@)].pc = "called"], Operation(h, op))]
      /\ UNCHANGED <<binding, lock, entered, owner, depth, handle, freed>>
      /\ stack[t] # <<>> => Pc(t, N(t)) = "callback"
  BY TopIs, Zenon DEF Call, CallBack, At
<1>2. PICK n \in Nat : n = N(t)
  BY ActivationTypes, Zenon
<1>0. UNCHANGED <<binding, lock, entered, owner, depth, handle, freed>>
  BY <1>1, Zenon
<1>3. /\ stack' \in [All -> Seq(Activations)]
      /\ N(t)' = n + 1 /\ \A u \in All : u # t => N(u)' = N(u)
      /\ \A u \in All : \A i \in 1 .. N(u) :
           /\ H(u, i)' = H(u, i) /\ Op(u, i)' = Op(u, i)
           /\ Pc(u, i)' = IF u = t /\ i = n THEN "called" ELSE Pc(u, i)
      /\ H(t, n + 1)' = h /\ Op(t, n + 1)' = op /\ Pc(t, n + 1)' = "check"
  BY <1>1, <1>2, PushedIs, SMTT(30)
<1>4. n > 0 => Pc(t, n) = "callback"
  BY <1>1, <1>2, ActivationTypes, Zenon
<1>5. \A u \in All : N(u) \in Nat
  BY ActivationTypes, Zenon
<1>6. \A u \in All : \A i \in 1 .. N(u)' : i \in 1 .. N(u) \/ (u = t /\ i = n + 1)
  BY <1>2, <1>3, <1>5
<1>7. \A u \in All : \A i \in 1 .. N(u) :
         /\ i \in 1 .. N(u)' /\ H(u, i)' = H(u, i) /\ Op(u, i)' = Op(u, i)
         /\ Pc(u, i)' \in {"callback", "called"} <=> Pc(u, i) \in {"callback", "called"}
         /\ Pc(u, i) # "callback" => Pc(u, i)' = Pc(u, i)
  BY <1>2, <1>3, <1>4, <1>5
<1>8. \A u \in All : \A i \in 1 .. N(u) :
         (Holds(u, i)' <=> Holds(u, i)) /\ (Owns(u, i)' <=> Owns(u, i)) /\ (Within(u, i)' <=> Within(u, i))
  BY <1>7 DEF Holds, Owns, Within
<1>9. n + 1 \in 1 .. N(t)' /\ Op(t, n + 1)' # "callback" /\ Pc(t, n + 1)' = "check"
      /\ ~Holds(t, n + 1)' /\ ~Owns(t, n + 1)' /\ ~Within(t, n + 1)'
  BY <1>3 DEF Holds, Owns, Within
<1>10. HandleTypes'
  BY <1>0, <1>3, Zenon DEF HandleTypes
<1>11. Shape'
  <2>1. ASSUME NEW u \in All, NEW i \in 1 .. N(u)', i < N(u)'
        PROVE  Pc(u, i)' = "called"
    <3>1. CASE u = t /\ i = n
      BY <1>2, <1>3, <3>1
    <3>2. CASE ~(u = t /\ i = n)
      <4>1. i \in 1 .. N(u) /\ i < N(u)
        BY <1>2, <1>3, <1>5, <2>1, <3>2
      <4> QED
        BY <1>7, <4>1, Zenon DEF Shape
    <3> QED
      BY <3>1, <3>2, Zenon
  <2>2. ASSUME NEW u \in All, NEW i \in 1 .. N(u)', Op(u, i)' = "callback"
        PROVE  i = 1 /\ u \in Workers /\ H(u, i)' \in Tracked /\ Pc(u, i)' \in {"callback", "called"}
    <3>1. i \in 1 .. N(u)
      BY <1>6, <1>9, <2>2, Zenon
    <3> QED
      BY <1>7, <2>2, <3>1, Zenon DEF Shape
  <2> QED
    BY <2>1, <2>2, Zenon DEF Shape
<1>12. Nesting'
  <2>1. ASSUME NEW u \in All, NEW i \in 1 .. N(u)', NEW j \in 1 .. N(u)', i < j, H(u, i)' = H(u, j)'
        PROVE  \/ Pc(u, j)' = "check"
               \/ binding' = "java" /\ H(u, j)' \notin Tracked /\ Pc(u, j)' \in {"acquire", "own", "release"}
    <3>1. CASE j \in 1 .. N(u)
      <4>1. i \in 1 .. N(u)
        BY <1>5, <2>1, <3>1
      <4>2. H(u, i) = H(u, j)
        BY <1>7, <2>1, <3>1, <4>1, Zenon
      <4>3. \/ Pc(u, j) = "check"
            \/ binding = "java" /\ H(u, j) \notin Tracked /\ Pc(u, j) \in {"acquire", "own", "release"}
        BY <2>1, <3>1, <4>1, <4>2, Zenon DEF Nesting
      <4> QED
        BY <1>0, <1>7, <3>1, <4>3, Zenon
    <3>2. CASE u = t /\ j = n + 1
      BY <1>9, <3>2, Zenon
    <3> QED
      BY <1>6, <3>1, <3>2, Zenon
  <2> QED
    BY <2>1, Zenon DEF Nesting
<1>13. Locking'
  BY <1>0, <1>6, <1>7, <1>8, <1>9, LockingKept, Zenon
<1>14. Owning'
  BY <1>0, <1>6, <1>7, <1>8, <1>9 DEF Owning
<1>15. Counting'
  <2>1. ASSUME NEW g \in Handles, NEW u \in All
        PROVE  (\E i \in 1 .. N(u)' : H(u, i)' = g /\ Pc(u, i)' \in {"callback", "called"})
                 <=> \E i \in 1 .. N(u) : H(u, i) = g /\ Pc(u, i) \in {"callback", "called"}
    BY <1>6, <1>7, <1>9, Zenon
  <2> QED
    BY <1>0, <2>1, Zenon DEF Counting
<1>16. Freeing'
  BY <1>0, <1>6, <1>7, <1>8, <1>9 DEF Freeing
<1>17. Served'
  BY <1>6, <1>7, <1>8, <1>9 DEF Served
<1> QED
  BY <1>10, <1>11, <1>12, <1>13, <1>14, <1>15, <1>16, <1>17, Zenon

\* The end of an activation that is not in native code, as far as the others go.
LEMMA PopKeeps ==
  ASSUME HInv, NEW t \in All, NEW n \in Nat, n = N(t), stack[t] # <<>>, stack' = Popped(t),
         UNCHANGED <<binding, owner, handle, freed>>, ~Within(t, n)
  PROVE  /\ Shape' /\ Nesting' /\ Owning' /\ Freeing' /\ Served'
         /\ stack' \in [All -> Seq(Activations)]
         /\ n \in 1 .. N(t)
         /\ \A u \in All : \A i \in 1 .. N(u)' :
              /\ i \in 1 .. N(u) /\ ~(u = t /\ i = n)
              /\ H(u, i)' = H(u, i) /\ Op(u, i)' = Op(u, i) /\ Pc(u, i)' = Pc(u, i)
              /\ (Holds(u, i)' <=> Holds(u, i))
         /\ \A u \in All : \A i \in 1 .. N(u) : ~(u = t /\ i = n) => i \in 1 .. N(u)'
<1> USE DEF HInv
<1>1. /\ stack' \in [All -> Seq(Activations)]
      /\ N(t)' = n - 1 /\ \A u \in All : u # t => N(u)' = N(u)
      /\ \A u \in All : \A i \in 1 .. N(u) : u # t \/ i # n =>
           H(u, i)' = H(u, i) /\ Op(u, i)' = Op(u, i) /\ Pc(u, i)' = Pc(u, i)
  BY PoppedIs, Zenon
<1>2. n > 0 /\ \A u \in All : N(u) \in Nat
  BY ActivationTypes, Zenon
<1>3. /\ n \in 1 .. N(t)
      /\ \A u \in All : \A i \in 1 .. N(u)' : i \in 1 .. N(u) /\ ~(u = t /\ i = n) /\ (i < N(u)' => i < N(u))
  BY <1>1, <1>2
<1>4. \A u \in All : \A i \in 1 .. N(u) : ~(u = t /\ i = n) => i \in 1 .. N(u)'
  BY <1>1, <1>2
<1>5. \A u \in All : \A i \in 1 .. N(u)' :
         H(u, i)' = H(u, i) /\ Op(u, i)' = Op(u, i) /\ Pc(u, i)' = Pc(u, i)
  BY <1>1, <1>3, Zenon
<1>6. \A u \in All : \A i \in 1 .. N(u)' :
         (Holds(u, i)' <=> Holds(u, i)) /\ (Owns(u, i)' <=> Owns(u, i)) /\ (Within(u, i)' <=> Within(u, i))
  BY <1>5 DEF Holds, Owns, Within
<1>7. Shape'
  BY <1>3, <1>5 DEF Shape
<1>8. Nesting'
  BY <1>3, <1>5 DEF Nesting
<1>9. Owning'
  BY <1>3, <1>5, <1>6, Zenon DEF Owning
<1>10. Freeing'
  BY <1>3, <1>5, <1>6 DEF Freeing
<1>11. Served'
  <2>1. ASSUME NEW w \in All, NEW i \in 1 .. N(w)', Op(w, i)' = "callback"
        PROVE  \E u \in All : \E j \in 1 .. N(u)' : H(u, j)' = H(w, i)' /\ Within(u, j)'
    <3>1. PICK u \in All : \E j \in 1 .. N(u) : H(u, j) = H(w, i) /\ Within(u, j)
      BY <1>3, <1>5, <2>1, Zenon DEF Served
    <3>2. PICK j \in 1 .. N(u) : H(u, j) = H(w, i) /\ Within(u, j)
      BY <3>1, Zenon
    <3>3. j \in 1 .. N(u)'
      BY <1>4, <3>2, Zenon
    <3> QED
      BY <1>5, <1>6, <2>1, <3>2, <3>3, Zenon
  <2> QED
    BY <2>1, Zenon DEF Served
<1> QED
  BY <1>1, <1>3, <1>4, <1>5, <1>6, <1>7, <1>8, <1>9, <1>10, <1>11, Zenon

\* An activation outside of callbacks moves to another place outside of callbacks.
Moves(t, n, pc) ==
  /\ n = N(t) /\ n \in 1 .. N(t) /\ stack[t] # <<>> /\ stack' = Moved(t, pc)
  /\ Op(t, n) # "callback" /\ Pc(t, n) \notin {"callback", "called"}
  /\ pc \in Places /\ pc \notin {"callback", "called"}

\* What such a step changes.
LEMMA MovesAre ==
  ASSUME HandleTypes, NEW t \in All, NEW n \in Nat, NEW pc, Moves(t, n, pc)
  PROVE  /\ stack' \in [All -> Seq(Activations)]
         /\ \A u \in All : N(u)' = N(u) /\ N(u) \in Nat
         /\ \A u \in All : \A i \in 1 .. N(u) :
              /\ H(u, i)' = H(u, i) /\ Op(u, i)' = Op(u, i)
              /\ ~(u = t /\ i = n) =>
                   /\ Pc(u, i)' = Pc(u, i)
                   /\ (Holds(u, i)' <=> Holds(u, i)) /\ (Owns(u, i)' <=> Owns(u, i))
                   /\ (Within(u, i)' <=> Within(u, i))
         /\ Pc(t, n)' = pc
         /\ Holds(t, n)' <=> pc \in {"own", "run", "native", "disown", "release"}
         /\ Owns(t, n)' <=> pc \in {"run", "native", "disown"}
         /\ Within(t, n)' <=> pc = "native"
<1> USE DEF Moves
<1>1. stack' \in [All -> Seq(Activations)]
  BY MovedIs, Zenon
<1>2. \A u \in All : N(u)' = N(u) /\ N(u) \in Nat
  BY MovedIs, ActivationTypes, Zenon
<1>3. \A u \in All : \A i \in 1 .. N(u) :
        /\ H(u, i)' = H(u, i) /\ Op(u, i)' = Op(u, i)
        /\ Pc(u, i)' = IF u = t /\ i = n THEN pc ELSE Pc(u, i)
  BY MovedIs
<1>4. ASSUME NEW u \in All, NEW i \in 1 .. N(u), ~(u = t /\ i = n)
      PROVE  /\ Pc(u, i)' = Pc(u, i)
             /\ (Holds(u, i)' <=> Holds(u, i)) /\ (Owns(u, i)' <=> Owns(u, i))
             /\ (Within(u, i)' <=> Within(u, i))
  <2>1. Pc(u, i)' = Pc(u, i) /\ Op(u, i)' = Op(u, i)
    BY <1>3, <1>4, Zenon
  <2> QED
    BY <2>1, Zenon DEF Holds, Owns, Within
<1>5. Pc(t, n)' = pc /\ Op(t, n)' # "callback"
  BY <1>3, Zenon
<1>6. /\ Holds(t, n)' <=> pc \in {"own", "run", "native", "disown", "release"}
      /\ Owns(t, n)' <=> pc \in {"run", "native", "disown"}
      /\ Within(t, n)' <=> pc = "native"
  BY <1>5, Zenon DEF Holds, Owns, Within
<1> QED
  BY <1>1, <1>2, <1>3, <1>4, <1>5, <1>6, Zenon

\* It disturbs neither the callbacks nor, above another activation on its handle, Nesting
\* when it goes where Nesting lets it.
LEMMA MoveKeeps ==
  ASSUME HInv, NEW t \in All, NEW n \in Nat, NEW pc, Moves(t, n, pc), UNCHANGED <<binding, depth>>,
         \A i \in 1 .. N(t) : i < n /\ H(t, i) = H(t, n) =>
           binding = "java" /\ H(t, n) \notin Tracked /\ pc \in {"acquire", "own", "release"}
  PROVE  Shape' /\ Nesting' /\ Counting'
<1> USE DEF HInv
<1>1. /\ n = N(t) /\ n \in 1 .. N(t) /\ Op(t, n) # "callback"
      /\ Pc(t, n) \notin {"callback", "called"} /\ pc \notin {"callback", "called"}
  BY Zenon DEF Moves
<1>2. \A u \in All : N(u)' = N(u) /\ N(u) \in Nat
  BY MovesAre, Zenon
<1>3. \A u \in All : \A i \in 1 .. N(u) :
        /\ H(u, i)' = H(u, i) /\ Op(u, i)' = Op(u, i)
        /\ Pc(u, i)' = IF u = t /\ i = n THEN pc ELSE Pc(u, i)
  BY MovesAre
<1>4. Shape'
  <2>1. ASSUME NEW u \in All, NEW i \in 1 .. N(u)
        PROVE  /\ i < N(u) => Pc(u, i)' = "called"
               /\ Op(u, i)' = "callback" =>
                    i = 1 /\ u \in Workers /\ H(u, i)' \in Tracked /\ Pc(u, i)' \in {"callback", "called"}
    <3>1. CASE u = t /\ i = n
      BY <1>1, <1>3, <3>1
    <3>2. CASE ~(u = t /\ i = n)
      BY <1>3, <3>2, Zenon DEF Shape
    <3> QED
      BY <3>1, <3>2, Zenon
  <2> QED
    BY <1>2, <2>1, Zenon DEF Shape
<1>5. Nesting'
  <2>1. ASSUME NEW u \in All, NEW i \in 1 .. N(u), NEW j \in 1 .. N(u), i < j, H(u, i) = H(u, j)
        PROVE  \/ Pc(u, j)' = "check"
               \/ /\ binding' = "java" /\ H(u, j)' \notin Tracked
                  /\ Pc(u, j)' \in {"acquire", "own", "release"}
    <3>1. CASE u = t /\ j = n
      BY <1>3, <2>1, <3>1, Zenon
    <3>2. CASE ~(u = t /\ j = n)
      BY <1>3, <2>1, <3>2 DEF Nesting
    <3> QED
      BY <3>1, <3>2, Zenon
  <2> QED
    BY <1>2, <1>3, <2>1 DEF Nesting
<1>6. Counting'
  <2>1. ASSUME NEW g \in Handles, NEW u \in All
        PROVE  (\E i \in 1 .. N(u)' : H(u, i)' = g /\ Pc(u, i)' \in {"callback", "called"})
                 <=> \E i \in 1 .. N(u) : H(u, i) = g /\ Pc(u, i) \in {"callback", "called"}
    <3>1. \A i \in 1 .. N(u) : Pc(u, i)' \in {"callback", "called"} <=> Pc(u, i) \in {"callback", "called"}
      BY <1>1, <1>3, Zenon
    <3> QED
      BY <1>2, <1>3, <3>1, Zenon
  <2> QED
    BY <2>1, Zenon DEF Counting
<1> QED
  BY <1>4, <1>5, <1>6, Zenon

\* It keeps what it does not touch: the lock when it stays inside or outside of it, the
\* owner when it does not come to rely on it, the handle when it does not enter native
\* code, and the worker callbacks when it does not leave native code.
LEMMA MoveSpares ==
  ASSUME HInv, NEW t \in All, NEW n \in Nat, NEW pc, Moves(t, n, pc)
  PROVE  /\ (/\ UNCHANGED <<lock, entered>>
             /\ Holds(t, n) <=> pc \in {"own", "run", "native", "disown", "release"}) => Locking'
         /\ UNCHANGED owner /\ (pc \in {"run", "native", "disown"} => Owns(t, n)) => Owning'
         /\ UNCHANGED <<handle, freed>> /\ pc # "native" => Freeing'
         /\ ~Within(t, n) => Served'
<1> USE DEF HInv
<1>0. n \in 1 .. N(t)
  BY Zenon DEF Moves
<1>1. \A u \in All : N(u)' = N(u)
  BY MovesAre, Zenon
<1>2. \A u \in All : \A i \in 1 .. N(u) :
        /\ H(u, i)' = H(u, i) /\ Op(u, i)' = Op(u, i)
        /\ ~(u = t /\ i = n) =>
             /\ (Holds(u, i)' <=> Holds(u, i)) /\ (Owns(u, i)' <=> Owns(u, i))
             /\ (Within(u, i)' <=> Within(u, i))
  BY MovesAre
<1>3. /\ Holds(t, n)' <=> pc \in {"own", "run", "native", "disown", "release"}
      /\ Owns(t, n)' <=> pc \in {"run", "native", "disown"}
      /\ Within(t, n)' <=> pc = "native"
  BY MovesAre, Zenon
<1>4. ASSUME UNCHANGED <<lock, entered>>,
             Holds(t, n) <=> pc \in {"own", "run", "native", "disown", "release"}
      PROVE  Locking'
  <2>1. \A u \in All : \A i \in 1 .. N(u) : Holds(u, i)' <=> Holds(u, i)
    BY <1>2, <1>3, <1>4, Zenon
  <2> QED
    BY <1>1, <1>2, <1>4, <2>1, LockingKept, Zenon
<1>5. ASSUME UNCHANGED owner, pc \in {"run", "native", "disown"} => Owns(t, n)
      PROVE  Owning'
  <2>1. ASSUME NEW u \in All, NEW i \in 1 .. N(u), Owns(u, i)'
        PROVE  owner'[H(u, i)'] = u
    <3>1. Owns(u, i) /\ H(u, i)' = H(u, i)
      BY <1>2, <1>3, <1>5, <2>1, Zenon
    <3> QED
      BY <1>5, <3>1, Zenon DEF Owning
  <2> QED
    BY <1>1, <2>1, Zenon DEF Owning
<1>6. ASSUME UNCHANGED <<handle, freed>>, pc # "native"
      PROVE  Freeing'
  <2>1. ASSUME NEW u \in All, NEW i \in 1 .. N(u), Within(u, i)'
        PROVE  handle'[H(u, i)']
    <3>1. Within(u, i) /\ H(u, i)' = H(u, i)
      BY <1>2, <1>3, <1>6, <2>1, Zenon
    <3> QED
      BY <1>6, <3>1, Zenon DEF Freeing
  <2> QED
    BY <1>1, <1>6, <2>1, Zenon DEF Freeing
<1>7. ASSUME ~Within(t, n)
      PROVE  Served'
  <2>1. ASSUME NEW w \in All, NEW i \in 1 .. N(w), Op(w, i)' = "callback"
        PROVE  \E u \in All : \E j \in 1 .. N(u) : H(u, j)' = H(w, i)' /\ Within(u, j)'
    <3>1. PICK u \in All : \E j \in 1 .. N(u) : H(u, j) = H(w, i) /\ Within(u, j)
      BY <1>2, <2>1, Zenon DEF Served
    <3>2. PICK j \in 1 .. N(u) : H(u, j) = H(w, i) /\ Within(u, j)
      BY <3>1, Zenon
    <3>3. H(u, j)' = H(w, i)' /\ Within(u, j)'
      BY <1>2, <1>7, <3>2, Zenon
    <3> QED
      BY <3>3, Zenon
  <2> QED
    BY <1>1, <2>1, Zenon DEF Served
<1> QED
  BY <1>4, <1>5, <1>6, <1>7, Zenon

==============================================================================

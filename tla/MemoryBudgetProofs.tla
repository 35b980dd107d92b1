-------------------------- MODULE MemoryBudgetProofs --------------------------
(* The reader stays within its budget, and strands none of it, for every budget, *)
(* section size and deployment tier.                                             *)
EXTENDS MemoryBudget, TLAPS

------------------------------------------------------------------------------
(* Arithmetic                                                                  *)

\* Rounding down to a multiple does not grow, and stays a count.
LEMMA RoundDown ==
  ASSUME NEW a \in Nat, NEW b \in Nat \ {0}
  PROVE  (a \div b) * b \in Nat /\ (a \div b) * b <= a
  OBVIOUS

\* A proportional share of at most the whole.
LEMMA Share ==
  ASSUME NEW a \in Nat, NEW b \in Nat, NEW c \in Nat \ {0}, a <= c, b <= c
  PROVE  /\ (a * b) \div c \in Nat
         /\ (a * b) \div c <= b
         /\ a - ((a * b) \div c) <= c - b
  OBVIOUS
\* A multiple leaves no remainder.
LEMMA Multiple ==
  ASSUME NEW a \in Nat, NEW b \in Nat \ {0}
  PROVE  ((a \div b) * b) % b = 0
  OBVIOUS

\* The lesser of two counts
LEMMA LeastOf ==
  ASSUME NEW a \in Nat, NEW b \in Nat
  PROVE  Least(a, b) \in Nat /\ Least(a, b) <= a /\ Least(a, b) <= b /\ Least(a, b) \in {a, b}
  BY DEF Least

\* The same of three
LEMMA LeastOfThree ==
  ASSUME NEW a \in Nat, NEW b \in Nat, NEW c \in Nat
  PROVE  LET m == Least(Least(a, b), c)
         IN  m \in Nat /\ m <= a /\ m <= b /\ m <= c /\ m \in {a, b, c}
  BY DEF Least

\* A saturating_sub that does not saturate
LEMMA MinusOf ==
  ASSUME NEW a \in Nat, NEW b \in Nat, b <= a
  PROVE  Minus(a, b) = a - b /\ a - b \in Nat
  BY DEF Minus, Most

------------------------------------------------------------------------------
(* The operators                                                               *)

Sizes == [budget : Nat, steady : Nat, peak : Nat, order : Nat, adjacency : Nat, vectors : Nat,
          tier : Tiers, caps : Capabilities]
Options == [max : Nat, preload : Nat, adjacency : Nat, raw : Nat]

\* Loading the resident sections never needs less than keeping them.
LEMMA PeakCoversSteady ==
  ASSUME NEW l \in Layouts
  PROVE  SteadyBytes(l) \in Nat /\ PeakBytes(l) \in Nat /\ SteadyBytes(l) <= PeakBytes(l)
<1>1. /\ l \in [codebook : Nat, decodedCodebook : Nat, rowIds : Nat, codes : Nat,
                adjacencyIndex : Nat, norms : Nat, validation : Nat]
      /\ RowIdHeader <= l.rowIds /\ RowIdHeader \in Nat
  BY SizesAssumption, BudgetAssumption
<1>2. DecodedRowIds(l) \in Nat
  BY <1>1 DEF DecodedRowIds
<1>3. SteadyBytes(l) \in Nat
  BY <1>1, <1>2 DEF SteadyBytes
<1> QED
  BY <1>1, <1>2, <1>3 DEF PeakBytes, Most

\* resolve_cache_budgets hands out at most what the resident sections leave, and keeps
\* a byte back only when both caches are as large as they may be.
LEMMA BudgetsFit ==
  ASSUME index \in Sizes,
         opts = ResolveCacheBudgets(index.tier, index.budget, index.steady, index.adjacency, index.vectors)
  PROVE  opts \in Options /\ opts.max = index.budget /\ BudgetsAssigned
<1> DEFINE tier == index.tier
           budget == index.budget
           steady == index.steady
           adjacency == index.adjacency
           raw == index.vectors
<1>0. tier \in Tiers /\ budget \in Nat /\ steady \in Nat /\ adjacency \in Nat /\ raw \in Nat
  BY DEF Sizes
<1> DEFINE available == Minus(budget, steady)
           cap == PerCacheCap[tier]
           preload == Least(Least(available \div 2, PreloadCap[tier]), adjacency)
           after == Minus(available, preload)
           cold == Minus(adjacency, preload)
           adj0 == Least(Least(after \div 2, cap), cold)
           raw0 == Least(Least(Minus(after, adj0), cap), raw)
           rest == Minus(Minus(after, adj0), raw0)
           adjExtra == Least(Least(rest, Minus(cap, adj0)), Minus(cold, adj0))
           rawExtra == Least(Least(Minus(rest, adjExtra), Minus(cap, raw0)), Minus(raw, raw0))
<1>1. PreloadCap[tier] \in Nat /\ cap \in Nat /\ available \in Nat
  BY <1>0, SizesAssumption DEF Minus, Most
<1>2. opts = [max |-> budget, preload |-> preload, adjacency |-> adj0 + adjExtra, raw |-> raw0 + rawExtra]
  BY Zenon DEF ResolveCacheBudgets
<1> HIDE DEF available, cap, tier, budget, steady, adjacency, raw
<1>3. preload \in Nat /\ preload <= available /\ preload <= adjacency
  <2>1. available \div 2 \in Nat /\ available \div 2 <= available
    BY <1>1
  <2>2. preload \in Nat /\ preload <= available \div 2 /\ preload <= adjacency
    BY <1>0, <1>1, <2>1, LeastOfThree, Zenon
  <2> HIDE DEF preload
  <2> QED
    BY <1>0, <1>1, <2>1, <2>2
<1> HIDE DEF preload
<1>4. after \in Nat /\ after = available - preload /\ cold \in Nat /\ cold = adjacency - preload
  <2>1. Minus(available, preload) = available - preload /\ available - preload \in Nat
    BY <1>0, <1>1, <1>3, MinusOf, Zenon
  <2>2. Minus(adjacency, preload) = adjacency - preload /\ adjacency - preload \in Nat
    BY <1>0, <1>3, MinusOf, Zenon
  <2> QED
    BY <2>1, <2>2
<1> HIDE DEF after, cold
<1>5. adj0 \in Nat /\ adj0 <= after /\ adj0 <= cap /\ adj0 <= cold
  <2>1. after \div 2 \in Nat /\ after \div 2 <= after
    BY <1>4
  <2>2. adj0 \in Nat /\ adj0 <= after \div 2 /\ adj0 <= cap /\ adj0 <= cold
    BY <1>0, <1>1, <1>4, <2>1, LeastOfThree, Zenon
  <2> HIDE DEF adj0
  <2> QED
    BY <1>4, <2>1, <2>2
<1> HIDE DEF adj0
<1>6. /\ Minus(after, adj0) = after - adj0 /\ after - adj0 \in Nat
      /\ Minus(cap, adj0) = cap - adj0 /\ cap - adj0 \in Nat
      /\ Minus(cold, adj0) = cold - adj0 /\ cold - adj0 \in Nat
  BY <1>0, <1>1, <1>4, <1>5, MinusOf, Zenon
<1>7. raw0 \in Nat /\ raw0 <= after - adj0 /\ raw0 <= cap /\ raw0 <= raw
  <2>1. raw0 \in Nat /\ raw0 <= Minus(after, adj0) /\ raw0 <= cap /\ raw0 <= raw
    BY <1>0, <1>1, <1>6, LeastOfThree, ZenonT(30)
  <2> HIDE DEF raw0
  <2> QED
    BY <1>6, <2>1
<1> HIDE DEF raw0
<1>8. /\ rest \in Nat /\ rest = after - adj0 - raw0
      /\ Minus(cap, raw0) = cap - raw0 /\ cap - raw0 \in Nat
      /\ Minus(raw, raw0) = raw - raw0 /\ raw - raw0 \in Nat
  <2>1. Minus(after - adj0, raw0) = after - adj0 - raw0 /\ after - adj0 - raw0 \in Nat
    BY <1>6, <1>7, MinusOf, Zenon
  <2>2. rest = Minus(after - adj0, raw0)
    BY <1>6
  <2>3. Minus(cap, raw0) = cap - raw0 /\ cap - raw0 \in Nat
    BY <1>0, <1>1, <1>7, MinusOf, Zenon
  <2>4. Minus(raw, raw0) = raw - raw0 /\ raw - raw0 \in Nat
    BY <1>0, <1>7, MinusOf, Zenon
  <2> QED
    BY <2>1, <2>2, <2>3, <2>4
<1> HIDE DEF rest
<1>9. /\ adjExtra \in Nat /\ adjExtra <= rest
      /\ adjExtra < rest => adj0 + adjExtra = Least(cap, cold)
  <2>1. /\ adjExtra \in Nat /\ adjExtra <= rest /\ adjExtra <= cap - adj0 /\ adjExtra <= cold - adj0
        /\ adjExtra \in {rest, cap - adj0, cold - adj0}
    <3>1. adjExtra = Least(Least(rest, cap - adj0), cold - adj0)
      BY <1>6
    <3> HIDE DEF adjExtra
    <3> QED
      BY <1>6, <1>8, <3>1, LeastOfThree, ZenonT(30)
  <2> HIDE DEF adjExtra
  <2> QED
    BY <1>0, <1>1, <1>4, <1>5, <1>8, <2>1 DEF Least
<1> HIDE DEF adjExtra
<1>10. /\ rawExtra \in Nat /\ rawExtra <= rest - adjExtra
       /\ rawExtra < rest - adjExtra => raw0 + rawExtra = Least(cap, raw)
  <2>1. Minus(rest, adjExtra) = rest - adjExtra /\ rest - adjExtra \in Nat
    BY <1>8, <1>9, MinusOf, Zenon
  <2>2. /\ rawExtra \in Nat /\ rawExtra <= rest - adjExtra /\ rawExtra <= cap - raw0 /\ rawExtra <= raw - raw0
        /\ rawExtra \in {rest - adjExtra, cap - raw0, raw - raw0}
    <3>1. rawExtra = Least(Least(rest - adjExtra, cap - raw0), raw - raw0)
      BY <1>8, <2>1
    <3> HIDE DEF rawExtra
    <3> QED
      BY <1>8, <2>1, <3>1, LeastOfThree, ZenonT(30)
  <2> HIDE DEF rawExtra
  <2> QED
    BY <1>0, <1>1, <1>7, <1>8, <1>9, <2>2 DEF Least
<1> HIDE DEF rawExtra
<1>11. preload + (adj0 + adjExtra) + (raw0 + rawExtra) <= available
  BY <1>0, <1>1, <1>3, <1>4, <1>5, <1>7, <1>8, <1>9, <1>10
<1>12. ASSUME preload + (adj0 + adjExtra) + (raw0 + rawExtra) < available
       PROVE  adj0 + adjExtra = Least(cap, cold) /\ raw0 + rawExtra = Least(cap, raw)
  BY <1>0, <1>1, <1>3, <1>4, <1>5, <1>7, <1>8, <1>9, <1>10, <1>12
<1>13. opts \in Options
  BY <1>0, <1>2, <1>3, <1>5, <1>7, <1>9, <1>10 DEF Options
<1>14. opts.max = budget /\ opts.preload = preload /\ opts.adjacency = adj0 + adjExtra /\ opts.raw = raw0 + rawExtra
  BY <1>2
<1> QED
  BY <1>4, <1>11, <1>12, <1>13, <1>14
     DEF BudgetsAssigned, available, cap, tier, budget, steady, adjacency, raw

\* Resizing gives out exactly the total, cut to what was configured, and neither cache
\* gets more than its own.
LEMMA ResizedSplit ==
  ASSUME opts \in Options, NEW total \in Nat
  PROVE  /\ Resized(total) \in [adjacency : Nat, raw : Nat]
         /\ Resized(total).adjacency + Resized(total).raw = Least(total, opts.adjacency + opts.raw)
         /\ Resized(total).adjacency <= opts.adjacency /\ Resized(total).raw <= opts.raw
<1> DEFINE desired == opts.adjacency + opts.raw
           granted == Least(total, desired)
           share == (granted * opts.adjacency) \div desired
<1>1. desired \in Nat /\ granted \in Nat /\ granted <= desired /\ opts.adjacency <= desired
      /\ opts.adjacency \in Nat /\ opts.raw \in Nat /\ desired - opts.adjacency = opts.raw
  BY DEF Options, Least
<1>2. CASE desired = 0
  <2>1. Resized(total) = [adjacency |-> 0, raw |-> granted]
    BY <1>1, <1>2 DEF Resized
  <2> QED
    BY <1>1, <1>2, <2>1
<1>3. CASE desired # 0
  <2>1. Resized(total) = [adjacency |-> share, raw |-> granted - share]
    BY <1>3 DEF Resized
  <2>2. share \in Nat /\ share <= opts.adjacency /\ granted - share <= desired - opts.adjacency
    BY <1>1, <1>3, Share, Zenon
  <2>3. share <= granted
    <3>1. (opts.adjacency * granted) \div desired <= granted
      BY <1>1, <1>3, Share
    <3>2. opts.adjacency * granted = granted * opts.adjacency
      BY <1>1
    <3> QED
      BY <3>1, <3>2
  <2> HIDE DEF desired, share
  <2> QED
    BY <1>1, <2>1, <2>2, <2>3 DEF granted
<1> QED
  BY <1>2, <1>3

------------------------------------------------------------------------------
(* The inductive invariant                                                     *)

Types ==
  /\ index \in Sizes /\ opts \in Options /\ caches \in [adjacency : Nat, raw : Nat]
  /\ hot \in Nat /\ transient \in Nat /\ copy \in Nat /\ resident \in BOOLEAN /\ lost \in BOOLEAN
  /\ phase \in {"idle", "order", "share", "preload", "sharePreload", "validate"}
  /\ order \in {"NotLoaded", "Loaded", "UnavailableByBudget"}

\* What opening the index settles
Opened ==
  /\ opts.max = index.budget /\ BudgetsAssigned
  /\ index.steady <= index.peak

Preloading == phase \in {"preload", "sharePreload", "validate"}

\* What a phase holds beside the retained state, and what it may assume
Phases ==
  /\ ~resident => phase = "idle" /\ hot = 0 /\ order = "NotLoaded" /\ caches = [adjacency |-> 0, raw |-> 0]
  /\ resident => index.peak <= opts.max
  /\ phase = "idle" => transient = 0
  /\ phase \in {"order", "share"} => order = "NotLoaded"
  /\ phase = "order" => transient = index.order + Least(index.order, DecodeBuffer)
  /\ phase = "share" => transient = index.order
  /\ Preloading => hot = 0
  /\ copy = IF phase \in {"share", "sharePreload"} THEN transient ELSE 0

\* What is retained and what a load has reserved fit in the budget together.
Reserved == resident => Retained + transient <= opts.max

\* The caches have all that is left over when a preload will have finished.
PreloadStrandsNothing ==
  Preloading =>
    caches.adjacency + caches.raw =
      Least(opts.adjacency + opts.raw, opts.max - index.steady - OrderBytes - transient)

\* A preload is a whole section or whole pages.
PreloadPages == Preloading => transient = index.adjacency \/ transient % Alignment = 0

IInv ==
  /\ Types /\ Opened /\ Phases /\ Reserved /\ NoCapacityStranded /\ PreloadStrandsNothing
  /\ SplitWithinConfigured /\ PreloadPages /\ PreloadIsWholePages

\* Every initial state satisfies the invariant.
LEMMA InitIInv == Init => IInv
<1> SUFFICES ASSUME Init PROVE IInv
  OBVIOUS
<1> USE DEF Init
<1>1. PICK b \in Budgets, l \in Layouts, o \in Orders, a \in Adjacencies, v \in Vectors, t \in Tiers,
           c \in Capabilities :
        index = [budget |-> b, steady |-> SteadyBytes(l), peak |-> PeakBytes(l), order |-> o,
                 adjacency |-> a, vectors |-> v, tier |-> t, caps |-> c]
  OBVIOUS
<1>2. index \in Sizes /\ index.steady <= index.peak
  BY <1>1, PeakCoversSteady, SizesAssumption DEF Sizes
<1>3. opts \in Options /\ opts.max = index.budget /\ BudgetsAssigned
  BY <1>2, BudgetsFit
<1>4. Types /\ Opened /\ Phases
  BY <1>2, <1>3, Zenon DEF Types, Opened, Phases, Preloading
<1>5. Reserved /\ NoCapacityStranded /\ PreloadStrandsNothing /\ PreloadPages
  BY DEF Reserved, NoCapacityStranded, PreloadStrandsNothing, PreloadPages, Preloading
<1>6. SplitWithinConfigured
  BY <1>3 DEF SplitWithinConfigured, Options
<1>7. PreloadIsWholePages
  BY BudgetAssumption DEF PreloadIsWholePages
<1> QED
  BY <1>4, <1>5, <1>6, <1>7 DEF IInv

\* The preloaded prefix fits what is left of the budget, and is whole.
LEMMA PreloadFits ==
  ASSUME Types, Available \in Nat
  PROVE  /\ PreloadLength \in Nat /\ PreloadLength <= Available
         /\ PreloadLength = index.adjacency \/ PreloadLength % Alignment = 0
<1> DEFINE pages == CeilDiv(Least(opts.preload, index.adjacency), Alignment)
           requested == Least(pages * Alignment, index.adjacency)
           granted == Least(requested, Available)
<1>1. /\ Alignment \in Nat \ {0} /\ index.adjacency \in Nat /\ opts.preload \in Nat
  BY BudgetAssumption DEF Types, Sizes, Options
<1>2. pages \in Nat
  BY <1>1 DEF CeilDiv, Least
<1> HIDE DEF pages
<1>3. pages * Alignment \in Nat
  BY <1>1, <1>2
<1>4. requested \in Nat
  BY <1>1, <1>3, LeastOf, Zenon
<1> HIDE DEF requested
<1>5. granted \in Nat /\ granted <= Available
  BY <1>4, LeastOf, Zenon
<1>6. PreloadLength = IF granted < index.adjacency THEN (granted \div Alignment) * Alignment ELSE granted
  BY DEF PreloadLength, requested, pages
<1> HIDE DEF granted
<1>7. CASE granted < index.adjacency
  <2>1. PreloadLength = (granted \div Alignment) * Alignment
    BY <1>6, <1>7
  <2>2. (granted \div Alignment) * Alignment \in Nat /\ (granted \div Alignment) * Alignment <= granted
        /\ ((granted \div Alignment) * Alignment) % Alignment = 0
    BY <1>1, <1>5, RoundDown, Multiple
  <2> HIDE DEF granted
  <2> QED
    BY <1>5, <2>1, <2>2
<1>8. CASE ~(granted < index.adjacency)
  <2>1. PreloadLength = granted /\ granted <= index.adjacency
    <3>1. requested <= index.adjacency
      BY <1>1, <1>3, LeastOf, Zenon DEF requested
    <3>2. granted <= requested
      BY <1>4, LeastOf, Zenon DEF granted
    <3> QED
      BY <1>1, <1>4, <1>5, <1>6, <1>8, <3>1, <3>2
  <2> QED
    BY <1>1, <1>5, <1>8, <2>1
<1> QED
  BY <1>7, <1>8

\* What the step lemmas use of the types
Counts ==
  /\ index.budget \in Nat /\ index.steady \in Nat /\ index.peak \in Nat /\ index.order \in Nat
  /\ index.adjacency \in Nat /\ opts.max \in Nat /\ opts.preload \in Nat /\ opts.adjacency \in Nat
  /\ opts.raw \in Nat /\ caches.adjacency \in Nat /\ caches.raw \in Nat /\ OrderBytes \in Nat
  /\ DecodeBuffer \in Nat /\ Alignment \in Nat \ {0}

\* The components of a well-typed state are counts.
LEMMA TypesCount == Types => Counts
  BY BudgetAssumption DEF Types, Counts, Sizes, Options, OrderBytes

\* Making the sections resident starts the caches at their configured size.
LEMMA EnsureResidentStep == IInv /\ EnsureResident => IInv'
<1> SUFFICES ASSUME IInv, EnsureResident PROVE IInv'
  OBVIOUS
<1>1. Counts
  BY TypesCount DEF IInv
<1>2. /\ resident' = TRUE /\ caches' = [adjacency |-> opts.adjacency, raw |-> opts.raw]
      /\ UNCHANGED <<index, opts, hot, order, transient, copy, phase, lost>>
      /\ hot = 0 /\ order = "NotLoaded" /\ phase = "idle" /\ transient = 0 /\ index.peak <= opts.max
  BY DEF EnsureResident, IInv, Phases
<1>3. opts.adjacency + opts.raw <= opts.max - index.steady
  <2>1. index.steady <= opts.max /\ opts.max = index.budget
    BY <1>1, <1>2 DEF IInv, Opened, Counts
  <2>2. opts.preload + opts.adjacency + opts.raw <= Minus(index.budget, index.steady)
    BY DEF IInv, Opened, BudgetsAssigned
  <2> QED
    BY <1>1, <2>1, <2>2 DEF Counts, Minus, Most
<1>4. Types' /\ Opened' /\ Phases'
  BY <1>1, <1>2, Zenon DEF IInv, Types, Opened, BudgetsAssigned, Phases, Preloading, Counts
<1>5. Reserved' /\ NoCapacityStranded' /\ PreloadStrandsNothing'
  BY <1>1, <1>2, <1>3
     DEF Reserved, Retained, NoCapacityStranded, PreloadStrandsNothing, Preloading, OrderBytes, Counts, Least
<1>6. SplitWithinConfigured' /\ PreloadPages' /\ PreloadIsWholePages'
  BY <1>1, <1>2 DEF SplitWithinConfigured, PreloadPages, Preloading, IInv, PreloadIsWholePages, Counts
<1> QED
  BY <1>4, <1>5, <1>6 DEF IInv

\* A refused order changes nothing that is counted; an accepted one has its peak taken
\* from the caches before anything is allocated.
LEMMA BeginOrderStep == IInv /\ BeginOrder => IInv'
<1> SUFFICES ASSUME IInv, BeginOrder PROVE IInv'
  OBVIOUS
<1>1. Counts /\ opts \in Options
  BY TypesCount DEF IInv, Types
<1>2. /\ phase = "idle" /\ resident /\ order = "NotLoaded" /\ transient = 0 /\ OrderBytes = 0
      /\ hot \in Nat /\ copy = 0 /\ UNCHANGED <<index, opts, resident, hot, copy, lost>>
  BY DEF BeginOrder, IInv, Phases, Types, OrderBytes
<1>3. CASE OrderPeak > opts.max
  <2>1. order' = "UnavailableByBudget" /\ UNCHANGED <<caches, transient, phase>> /\ OrderBytes' = 0
    BY <1>3 DEF BeginOrder, OrderBytes
  <2>2. Types' /\ Opened' /\ Phases'
    BY <1>2, <2>1 DEF IInv, Types, Opened, BudgetsAssigned, Phases, Preloading
  <2>3. Reserved' /\ NoCapacityStranded' /\ PreloadStrandsNothing'
    BY <1>2, <2>1 DEF IInv, Reserved, Retained, NoCapacityStranded, PreloadStrandsNothing, Preloading
  <2>4. SplitWithinConfigured' /\ PreloadPages' /\ PreloadIsWholePages'
    BY <1>2, <2>1 DEF IInv, SplitWithinConfigured, PreloadPages, Preloading, PreloadIsWholePages
  <2> QED
    BY <2>2, <2>3, <2>4 DEF IInv
<1>4. CASE ~(OrderPeak > opts.max)
  <2> DEFINE scratch == Least(index.order, DecodeBuffer)
  <2>1. /\ caches' = Resized(opts.max - OrderPeak) /\ transient' = index.order + scratch
        /\ phase' = "order" /\ order' = order /\ OrderBytes' = 0
    BY <1>2, <1>4 DEF BeginOrder, OrderBytes
  <2>2. scratch \in Nat /\ OrderPeak = index.steady + hot + index.order + scratch
    BY <1>1 DEF OrderPeak, Counts, Least
  <2> HIDE DEF scratch
  <2>3. opts.max - OrderPeak \in Nat
    BY <1>1, <1>2, <1>4, <2>2 DEF Counts
  <2>4. /\ caches' \in [adjacency : Nat, raw : Nat]
        /\ caches'.adjacency + caches'.raw <= opts.max - OrderPeak
        /\ caches'.adjacency <= opts.adjacency /\ caches'.raw <= opts.raw
    <3>1. opts.adjacency + opts.raw \in Nat
      BY <1>1 DEF Counts
    <3>2. Least(opts.max - OrderPeak, opts.adjacency + opts.raw) <= opts.max - OrderPeak
      BY <2>3, <3>1, LeastOf, Zenon
    <3> QED
      BY <1>1, <2>1, <2>3, <3>2, ResizedSplit
  <2>5. transient' \in Nat
    BY <1>1, <2>1, <2>2 DEF Counts
  <2>6. Types' /\ Opened' /\ Phases'
    BY <1>2, <2>1, <2>4, <2>5, Zenon DEF IInv, Types, Opened, BudgetsAssigned, Phases, Preloading, scratch
  <2>7. Reserved'
    BY <1>1, <1>2, <2>1, <2>2, <2>4 DEF Reserved, Retained, Counts
  <2>8. NoCapacityStranded' /\ PreloadStrandsNothing'
    BY <2>1 DEF NoCapacityStranded, PreloadStrandsNothing, Preloading
  <2>9. SplitWithinConfigured' /\ PreloadPages' /\ PreloadIsWholePages'
    BY <1>2, <2>1, <2>4 DEF IInv, SplitWithinConfigured, PreloadPages, Preloading, PreloadIsWholePages
  <2> QED
    BY <2>6, <2>7, <2>8, <2>9 DEF IInv
<1> QED
  BY <1>3, <1>4

\* A load that fails keeps the caches as they are and holds nothing.
LEMMA FailStep == IInv /\ (OrderFails \/ PreloadFails) => IInv'
<1> SUFFICES ASSUME IInv, OrderFails \/ PreloadFails PROVE IInv'
  OBVIOUS
<1>1. Counts /\ hot \in Nat /\ transient \in Nat
  BY TypesCount DEF IInv, Types
<1>2. /\ UNCHANGED <<index, opts, resident, caches, hot, order, copy>> /\ OrderBytes' = OrderBytes
      /\ phase \in {"order", "preload", "validate"} /\ resident
      /\ phase' = "idle" /\ transient' = 0 /\ lost' = TRUE /\ copy = 0
  BY Zenon DEF OrderFails, PreloadFails, IInv, Phases, Types, OrderBytes
<1>3. Types' /\ Opened' /\ Phases'
  BY <1>1, <1>2 DEF IInv, Types, Opened, BudgetsAssigned, Phases, Preloading
<1>4. Reserved'
  BY <1>1, <1>2 DEF IInv, Reserved, Retained, Counts
<1>5. NoCapacityStranded' /\ PreloadStrandsNothing' /\ PreloadPages'
  BY <1>2 DEF NoCapacityStranded, PreloadStrandsNothing, PreloadPages, Preloading
<1>6. SplitWithinConfigured' /\ PreloadIsWholePages'
  BY <1>2 DEF IInv, SplitWithinConfigured, PreloadIsWholePages
<1> QED
  BY <1>3, <1>4, <1>5, <1>6 DEF IInv

\* The copy of a decoded order takes the place of the decode scratch.
LEMMA ShareOrderStep == IInv /\ ShareOrder => IInv'
<1> SUFFICES ASSUME IInv, ShareOrder PROVE IInv'
  OBVIOUS
<1>1. Counts /\ hot \in Nat
  BY TypesCount DEF IInv, Types
<1>2. /\ UNCHANGED <<index, opts, resident, caches, hot, order, lost>> /\ OrderBytes' = OrderBytes
      /\ resident /\ order = "NotLoaded" /\ phase = "order" /\ phase' = "share"
      /\ transient' = index.order /\ copy' = index.order
  BY Zenon DEF ShareOrder, IInv, Phases, OrderBytes
<1>3. transient \in Nat /\ index.order <= transient
  BY <1>1, <1>2 DEF IInv, Types, Phases, Counts, Least
<1>4. Types' /\ Opened' /\ Phases'
  BY <1>1, <1>2 DEF IInv, Types, Opened, BudgetsAssigned, Phases, Preloading, Counts
<1>5. Reserved'
  BY <1>1, <1>2, <1>3 DEF IInv, Reserved, Retained, Counts
<1>6. NoCapacityStranded' /\ PreloadStrandsNothing' /\ PreloadPages'
  BY <1>2 DEF NoCapacityStranded, PreloadStrandsNothing, PreloadPages, Preloading
<1>7. SplitWithinConfigured' /\ PreloadIsWholePages'
  BY <1>2 DEF IInv, SplitWithinConfigured, PreloadIsWholePages
<1> QED
  BY <1>4, <1>5, <1>6, <1>7 DEF IInv

\* Copying a payload and dropping the vector it was read into keep the reservation.
LEMMA CopyPreloadStep == IInv /\ (SharePreload \/ ValidatePreload) => IInv'
<1> SUFFICES ASSUME IInv, SharePreload \/ ValidatePreload PROVE IInv'
  OBVIOUS
<1>1. /\ UNCHANGED <<index, opts, resident, caches, hot, order, transient, lost>>
      /\ OrderBytes' = OrderBytes /\ Retained' = Retained
      /\ phase \in {"preload", "sharePreload"} /\ phase' \in {"sharePreload", "validate"}
      /\ copy' = IF phase' = "sharePreload" THEN transient ELSE 0
  BY Zenon DEF SharePreload, ValidatePreload, OrderBytes, Retained
<1>2. copy' \in Nat
  BY <1>1 DEF IInv, Types
<1>3. Types' /\ Opened' /\ Phases'
  BY <1>1, <1>2 DEF IInv, Types, Opened, BudgetsAssigned, Phases, Preloading
<1>4. Reserved' /\ NoCapacityStranded'
  BY <1>1, Zenon DEF IInv, Reserved, NoCapacityStranded
<1>5. PreloadStrandsNothing' /\ PreloadPages'
  BY <1>1 DEF IInv, PreloadStrandsNothing, PreloadPages, Preloading
<1>6. SplitWithinConfigured' /\ PreloadIsWholePages'
  BY <1>1 DEF IInv, SplitWithinConfigured, PreloadIsWholePages
<1> QED
  BY <1>3, <1>4, <1>5, <1>6 DEF IInv

\* A published order gives the caches back what its decode held and no more.
LEMMA FinishOrderStep == IInv /\ FinishOrder => IInv'
<1> SUFFICES ASSUME IInv, FinishOrder PROVE IInv'
  OBVIOUS
<1>1. Counts /\ opts \in Options /\ hot \in Nat
  BY TypesCount DEF IInv, Types
<1> DEFINE total == Minus(opts.max, index.steady + hot + index.order)
<1>2. /\ phase = "share" /\ phase' = "idle" /\ transient' = 0 /\ lost' = FALSE /\ order' = "Loaded"
      /\ caches' = Resized(total) /\ UNCHANGED <<index, opts, resident, hot>>
      /\ resident /\ OrderBytes = 0 /\ OrderBytes' = index.order /\ transient = index.order /\ copy' = 0
  BY DEF FinishOrder, IInv, Phases, OrderBytes
<1>3. total \in Nat /\ total = opts.max - index.steady - hot - index.order
  <2>1. Retained + index.order <= opts.max
    BY <1>2 DEF IInv, Reserved
  <2>2. index.steady + hot + index.order <= opts.max
    BY <1>1, <1>2, <2>1 DEF Retained, Counts
  <2> QED
    BY <1>1, <2>2 DEF Counts, Minus, Most
<1> HIDE DEF total
<1>4. /\ caches' \in [adjacency : Nat, raw : Nat]
      /\ caches'.adjacency + caches'.raw = Least(total, opts.adjacency + opts.raw)
      /\ caches'.adjacency <= opts.adjacency /\ caches'.raw <= opts.raw
  BY <1>1, <1>2, <1>3, ResizedSplit
<1>5. Types' /\ Opened' /\ Phases'
  BY <1>2, <1>4, Zenon DEF IInv, Types, Opened, BudgetsAssigned, Phases, Preloading
<1>6. Reserved' /\ NoCapacityStranded'
  BY <1>1, <1>2, <1>3, <1>4 DEF Reserved, Retained, NoCapacityStranded, Counts, Least
<1>7. PreloadStrandsNothing' /\ PreloadPages'
  BY <1>2 DEF PreloadStrandsNothing, PreloadPages, Preloading
<1>8. SplitWithinConfigured' /\ PreloadIsWholePages'
  BY <1>2, <1>4 DEF IInv, SplitWithinConfigured, PreloadIsWholePages
<1> QED
  BY <1>5, <1>6, <1>7, <1>8 DEF IInv

\* A preload takes its prefix from the caches before it reads it.
LEMMA BeginPreloadStep == IInv /\ BeginPreload => IInv'
<1> SUFFICES ASSUME IInv, BeginPreload PROVE IInv'
  OBVIOUS
<1>1. Counts /\ opts \in Options /\ Types
  BY TypesCount DEF IInv, Types
<1>2. /\ phase = "idle" /\ resident /\ hot = 0 /\ transient = 0 /\ copy = 0
      /\ UNCHANGED <<index, opts, resident, hot, order, copy>> /\ OrderBytes' = OrderBytes
      /\ caches' = Resized(Minus(Available, PreloadLength))
      /\ \/ PreloadLength = 0 /\ lost' = FALSE /\ phase' = "idle" /\ transient' = 0
         \/ PreloadLength # 0 /\ lost' = lost /\ phase' = "preload" /\ transient' = PreloadLength
  BY Zenon DEF BeginPreload, IInv, Phases, OrderBytes
<1>3. Available \in Nat /\ Available = opts.max - index.steady - OrderBytes
  <2>1. index.steady + OrderBytes <= opts.max
    BY <1>1, <1>2 DEF IInv, Reserved, Retained, Counts
  <2> QED
    BY <1>1, <2>1 DEF Available, Counts, Minus, Most
<1>4. /\ PreloadLength \in Nat /\ PreloadLength <= Available
      /\ PreloadLength = index.adjacency \/ PreloadLength % Alignment = 0
  BY <1>1, <1>3, PreloadFits
<1> DEFINE total == Minus(Available, PreloadLength)
<1>5. total \in Nat /\ total = opts.max - index.steady - OrderBytes - PreloadLength
  BY <1>1, <1>3, <1>4 DEF Counts, Minus, Most
<1> HIDE DEF total
<1>6. /\ caches' \in [adjacency : Nat, raw : Nat]
      /\ caches'.adjacency + caches'.raw = Least(total, opts.adjacency + opts.raw)
      /\ caches'.adjacency <= opts.adjacency /\ caches'.raw <= opts.raw
  <2>1. caches' = Resized(total)
    BY <1>2 DEF total
  <2> QED
    BY <1>1, <1>5, <2>1, ResizedSplit
<1>7. Types' /\ Opened' /\ Phases'
  BY <1>2, <1>4, <1>6, Zenon DEF IInv, Types, Opened, BudgetsAssigned, Phases, Preloading
<1>8. Reserved' /\ NoCapacityStranded' /\ PreloadStrandsNothing'
  <2>1. Least(total, opts.adjacency + opts.raw) = Least(opts.adjacency + opts.raw, total)
        /\ Least(total, opts.adjacency + opts.raw) <= total
    BY <1>1, <1>5 DEF Counts, Least
  <2> QED
    BY <1>1, <1>2, <1>4, <1>5, <1>6, <2>1
       DEF Reserved, Retained, NoCapacityStranded, PreloadStrandsNothing, Preloading, Counts
<1>9. SplitWithinConfigured' /\ PreloadPages' /\ PreloadIsWholePages'
  BY <1>2, <1>4, <1>6 DEF IInv, SplitWithinConfigured, PreloadPages, Preloading, PreloadIsWholePages
<1> QED
  BY <1>7, <1>8, <1>9 DEF IInv

\* A finished preload is retained with the bytes it was loaded into.
LEMMA FinishPreloadStep == IInv /\ FinishPreload => IInv'
<1> SUFFICES ASSUME IInv, FinishPreload PROVE IInv'
  OBVIOUS
<1>1. Counts /\ transient \in Nat
  BY TypesCount DEF IInv, Types
<1>2. /\ phase = "validate" /\ phase' = "idle" /\ hot' = transient /\ transient' = 0 /\ lost' = FALSE
      /\ UNCHANGED <<index, opts, resident, caches, order, copy>> /\ OrderBytes' = OrderBytes
      /\ hot = 0 /\ copy = 0 /\ resident
  BY DEF FinishPreload, IInv, Phases, Preloading, OrderBytes
<1>3. Types' /\ Opened' /\ Phases'
  BY <1>1, <1>2, Zenon DEF IInv, Types, Opened, BudgetsAssigned, Phases, Preloading
<1>4. Reserved' /\ NoCapacityStranded' /\ PreloadStrandsNothing'
  <2>1. opts.max - index.steady - OrderBytes - transient = opts.max - index.steady - transient - OrderBytes
    BY <1>1 DEF Counts
  <2> QED
    BY <1>1, <1>2, <2>1
       DEF IInv, Reserved, Retained, NoCapacityStranded, PreloadStrandsNothing, Preloading, Counts
<1>5. SplitWithinConfigured' /\ PreloadPages' /\ PreloadIsWholePages'
  BY <1>2 DEF IInv, SplitWithinConfigured, PreloadPages, Preloading, PreloadIsWholePages
<1> QED
  BY <1>3, <1>4, <1>5 DEF IInv

\* Every step keeps the invariant.
LEMMA NextIInv == IInv /\ [Next]_vars => IInv'
<1>1. ASSUME IInv, UNCHANGED vars PROVE IInv'
  <2>1. OrderBytes' = OrderBytes /\ Retained' = Retained
    BY <1>1 DEF vars, OrderBytes, Retained
  <2>2. BudgetsAssigned'
    BY <1>1, Zenon DEF vars, IInv, Opened, BudgetsAssigned
  <2>3. Types' /\ Opened' /\ Phases'
    BY <1>1, <2>2 DEF vars, IInv, Types, Opened, Phases, Preloading
  <2>4. Reserved' /\ NoCapacityStranded' /\ PreloadStrandsNothing'
    BY <1>1, <2>1 DEF vars, IInv, Reserved, NoCapacityStranded, PreloadStrandsNothing, Preloading
  <2>5. SplitWithinConfigured' /\ PreloadPages' /\ PreloadIsWholePages'
    BY <1>1 DEF vars, IInv, SplitWithinConfigured, PreloadPages, Preloading, PreloadIsWholePages
  <2> QED
    BY <2>3, <2>4, <2>5 DEF IInv
<1> QED
  BY <1>1, EnsureResidentStep, BeginOrderStep, FailStep, ShareOrderStep, FinishOrderStep,
     BeginPreloadStep, CopyPreloadStep, FinishPreloadStep DEF Next

\* The inductive invariant holds throughout.
THEOREM Invariance == Spec => []IInv
  BY InitIInv, NextIInv, PTL DEF Spec

------------------------------------------------------------------------------

\* Whatever the sizes of the index and the order in which the row-ID order and the
\* adjacency prefix are loaded or fail to load, the reader keeps and allocates no more
\* than its memory budget, except while Arc::from copies the section just loaded, and
\* then it exceeds the budget by at most that copy (diskann_io.rs, ensure_row_id_order
\* and optimize_for_search).
THEOREM BudgetNeverExceeded == Spec => []WithinBudget
<1>1. IInv => WithinBudget
  <2> SUFFICES ASSUME IInv, resident
               PROVE  Retained + transient + copy - opts.max
                        <= IF phase \in {"share", "sharePreload"} THEN transient ELSE 0
    BY DEF WithinBudget
  <2>1. Counts /\ hot \in Nat /\ transient \in Nat
    BY TypesCount DEF IInv, Types
  <2>2. Retained \in Nat /\ opts.max \in Nat /\ Retained + transient <= opts.max
    BY <2>1 DEF IInv, Reserved, Retained, Counts
  <2>3. copy = IF phase \in {"share", "sharePreload"} THEN transient ELSE 0
    BY DEF IInv, Phases
  <2> QED
    BY <2>1, <2>2, <2>3
<1> QED
  BY <1>1, Invariance, PTL

\* No successful load leaves the caches smaller than the budget allows: what a load
\* reserved and no longer holds is theirs again (resize_shared_cache_budgets).
THEOREM CapacityIsReturned == Spec => []NoCapacityStranded
<1>1. IInv => NoCapacityStranded
  BY DEF IInv
<1> QED
  BY <1>1, Invariance, PTL

\* The rounding of the proportional split never gives a cache more than its share
\* (resize_shared_cache_budgets).
THEOREM SplitNeverExceedsOptions == Spec => []SplitWithinConfigured
<1>1. IInv => SplitWithinConfigured
  BY DEF IInv
<1> QED
  BY <1>1, Invariance, PTL

\* resolve_cache_budgets assigns no byte twice and keeps one back only when neither
\* cache could use it.
THEOREM EveryUsableByteAssigned == Spec => []BudgetsAssigned
<1>1. IInv => BudgetsAssigned
  BY DEF IInv, Opened
<1> QED
  BY <1>1, Invariance, PTL

\* What optimize_for_search preloads ends on a page boundary or with the section.
THEOREM PreloadEndsOnAPage == Spec => []PreloadIsWholePages
<1>1. IInv => PreloadIsWholePages
  BY DEF IInv
<1> QED
  BY <1>1, Invariance, PTL

\* Rounding up to a multiple does not shrink, and gives a multiple.
LEMMA RoundUp ==
  ASSUME NEW a \in Nat, NEW b \in Nat \ {0}
  PROVE  /\ CeilDiv(a, b) * b \in Nat
         /\ a <= CeilDiv(a, b) * b
         /\ (CeilDiv(a, b) * b) % b = 0
<1> DEFINE q == (a + b - 1) \div b
<1>1. q \in Nat /\ a + b - 1 < (q + 1) * b
  OBVIOUS
<1> HIDE DEF q
<1>2. (q + 1) * b = q * b + b /\ q * b \in Nat
  BY <1>1
<1>3. (q * b) % b = 0
  BY <1>1
<1> QED
  BY <1>1, <1>2, <1>3 DEF CeilDiv, q

\* with_capabilities clamps and rounds any hint to whole pages within its bounds.
LEMMA HintsAreClamped ==
  ASSUME NEW plan \in [window : Nat, beam : Nat, filteredBeam : Nat],
         NEW caps \in [preferred : Nat, maxRanges : Nat]
  PROVE  LET w == WithCapabilities(plan, caps).window
         IN  w % MinWindow = 0 /\ w \in MinWindow..MaxWindow
<1> DEFINE hinted == IF caps.preferred > 0 THEN caps.preferred ELSE plan.window
           clamped == Least(Most(hinted, MinWindow), MaxWindow)
           rounded == CeilDiv(clamped, MinWindow) * MinWindow
<1>1. /\ MinWindow \in Nat \ {0} /\ MaxWindow \in Nat
      /\ MaxWindow % MinWindow = 0 /\ MinWindow <= MaxWindow
  BY BudgetAssumption
<1>2. hinted \in Nat
  OBVIOUS
<1>3. WithCapabilities(plan, caps).window = Least(rounded, MaxWindow)
  BY DEF WithCapabilities
<1> HIDE DEF hinted
<1>4. clamped \in Nat /\ MinWindow <= clamped
  BY <1>1, <1>2 DEF Least, Most
<1> HIDE DEF clamped
<1>5. rounded \in Nat /\ clamped <= rounded /\ rounded % MinWindow = 0
  BY <1>1, <1>4, RoundUp
<1> HIDE DEF rounded
<1>6. Least(rounded, MaxWindow) \in {rounded, MaxWindow} /\ Least(rounded, MaxWindow) <= MaxWindow
  BY <1>1, <1>5, LeastOf, Zenon
<1>7. MinWindow <= rounded
  BY <1>1, <1>4, <1>5
<1> QED
  BY <1>1, <1>3, <1>5, <1>6, <1>7

\* The shared caches, the configured budgets, the preloaded prefix and the read window
\* divide the budget exactly in every state of the reader, for every size of index,
\* every deployment tier and every hint of a storage adapter (resolve_cache_budgets,
\* resize_shared_cache_budgets, ReadPlan::with_capabilities).
THEOREM DivisionIsExact == Spec => []BudgetIsDivided
<1>1. IInv => WindowsHoldWholePages
  <2> SUFFICES ASSUME IInv PROVE WindowsHoldWholePages
    OBVIOUS
  <2>1. index.tier \in Tiers /\ index.caps \in Capabilities
    BY DEF IInv, Types, Sizes
  <2>2. /\ PlanOf[index.tier] \in [window : Nat, beam : Nat, filteredBeam : Nat]
        /\ index.caps \in [preferred : Nat, maxRanges : Nat]
    BY <2>1, SizesAssumption
  <2> QED
    BY <2>2, HintsAreClamped DEF WindowsHoldWholePages, ReadPlan
<1>2. IInv => BudgetIsDivided
  BY <1>1 DEF IInv, Opened, BudgetIsDivided
<1> QED
  BY <1>2, Invariance, PTL
==============================================================================

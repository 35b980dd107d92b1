----------------------------- MODULE MemoryBudget -----------------------------
(***************************************************************************)
(* How a DiskANN reader divides its memory budget (core/src/read_options.rs *)
(* and core/src/diskann_io.rs): the budgets resolved when the index is     *)
(* opened, the resident sections, the row-ID order a selective filter      *)
(* loads and the adjacency prefix optimize_for_search preloads, each of    *)
(* which takes its bytes from the capacity of the two shared caches before *)
(* it reads, and gives back what is left once it is done.                  *)
(*                                                                         *)
(* Sizes are in units.  `transient` is what a running load holds beside    *)
(* the retained state, `copy` what Arc::from holds beside that while it    *)
(* copies a loaded section; `lost` remembers that a load failed after it   *)
(* had shrunk the caches and nothing has resized them since.               *)
(***************************************************************************)
EXTENDS Integers

CONSTANTS
  Budgets, Orders, Adjacencies, Vectors,   \* sizes to try
  Layouts,        \* sizes of the resident sections: [codebook, decodedCodebook, rowIds,
                  \* codes, adjacencyIndex, norms, validation]
  RowIdHeader,    \* ROW_ID_SECTION_HEADER_SIZE
  Tiers,          \* DeploymentProfile
  PreloadCap,     \* [Tiers -> Nat]: preload_cap
  PerCacheCap,    \* [Tiers -> Nat]: per_cache_cap
  Alignment,      \* DISKANN_ADJACENCY_PRELOAD_ALIGNMENT
  DecodeBuffer,   \* DISKANN_RESIDENT_DECODE_BUFFER_SIZE
  PlanOf,         \* [Tiers -> [window, beam, filteredBeam]]: DeploymentProfile::read_plan
  MinWindow, MaxWindow,   \* the clamp of with_capabilities
  Capabilities    \* SeekReadCapabilities to try: [preferred, maxRanges]

ASSUME BudgetAssumption ==
  /\ {Alignment, DecodeBuffer, MinWindow, RowIdHeader} \subseteq Nat \ {0}
  /\ MaxWindow \in Nat /\ MaxWindow % MinWindow = 0 /\ MinWindow <= MaxWindow

\* Sizes are counts, and the row-ID section holds at least its header.
ASSUME SizesAssumption ==
  /\ Budgets \subseteq Nat /\ Orders \subseteq Nat /\ Adjacencies \subseteq Nat /\ Vectors \subseteq Nat
  /\ Layouts \subseteq [codebook : Nat, decodedCodebook : Nat, rowIds : Nat, codes : Nat,
                       adjacencyIndex : Nat, norms : Nat, validation : Nat]
  /\ \A l \in Layouts : RowIdHeader <= l.rowIds
  /\ PreloadCap \in [Tiers -> Nat] /\ PerCacheCap \in [Tiers -> Nat]
  /\ PlanOf \in [Tiers -> [window : Nat, beam : Nat, filteredBeam : Nat]]
  /\ Capabilities \subseteq [preferred : Nat, maxRanges : Nat]

VARIABLES index, opts, resident, caches, hot, order, transient, copy, phase, lost

vars == <<index, opts, resident, caches, hot, order, transient, copy, phase, lost>>

Least(a, b) == IF a < b THEN a ELSE b
Most(a, b) == IF a < b THEN b ELSE a
Minus(a, b) == Most(a - b, 0)       \* saturating_sub
CeilDiv(a, b) == (a + b - 1) \div b

------------------------------------------------------------------------------
(* Resident sections *)

DecodedRowIds(l) == l.rowIds - RowIdHeader      \* resident_row_id_bytes

\* resident_steady_bytes.
SteadyBytes(l) ==
  l.decodedCodebook + DecodedRowIds(l) + l.codes + l.adjacencyIndex + l.validation + l.norms

\* resident_peak_bytes: the largest of the three decoding stages and the result.
PeakBytes(l) ==
  LET codebookDecode == l.codebook + l.rowIds + l.codes + l.adjacencyIndex + 1 + l.decodedCodebook
      rowIdDecode == l.rowIds + l.codes + l.adjacencyIndex + l.decodedCodebook + DecodedRowIds(l) + 1
      adjacencyDecode == l.codes + 2 * l.adjacencyIndex + l.decodedCodebook + DecodedRowIds(l) + 1
  IN  Most(Most(codebookDecode, rowIdDecode), Most(adjacencyDecode, SteadyBytes(l)))

------------------------------------------------------------------------------
(* Options *)

\* Faulty variant of ResolveCacheBudgets: the raw vectors' share ignores the preload.
ResolveCacheBudgetsTwice(tier, budget, steady, adjacency, raw) ==
  LET available == Minus(budget, steady)
      preload == Least(Least(available \div 2, PreloadCap[tier]), adjacency)
      cold == Minus(adjacency, preload)
      adj0 == Least(Least(Minus(available, preload) \div 2, PerCacheCap[tier]), cold)
      raw0 == Least(Least(Minus(available, adj0), PerCacheCap[tier]), raw)
  IN  [max |-> budget, preload |-> preload, adjacency |-> adj0, raw |-> raw0]

\* resolve_cache_budgets: half to the preload, half of the rest to the adjacency cache,
\* the rest to the raw vectors, then what is unassigned to whoever still can use it.
ResolveCacheBudgets(tier, budget, steady, adjacency, raw) ==
  LET available == Minus(budget, steady)
      preload == Least(Least(available \div 2, PreloadCap[tier]), adjacency)
      after == Minus(available, preload)
      cap == PerCacheCap[tier]
      cold == Minus(adjacency, preload)
      adj0 == Least(Least(after \div 2, cap), cold)
      raw0 == Least(Least(Minus(after, adj0), cap), raw)
      rest == Minus(Minus(after, adj0), raw0)
      adjExtra == Least(Least(rest, Minus(cap, adj0)), Minus(cold, adj0))
      rawExtra == Least(Least(Minus(rest, adjExtra), Minus(cap, raw0)), Minus(raw, raw0))
  IN  [max |-> budget, preload |-> preload, adjacency |-> adj0 + adjExtra, raw |-> raw0 + rawExtra]

\* Faulty variant of WithCapabilities: the preferred window is taken as it is.
WithCapabilitiesRaw(plan, caps) ==
  [plan EXCEPT !.window = IF caps.preferred > 0 THEN caps.preferred ELSE @]

\* ReadPlan::with_capabilities.
WithCapabilities(plan, caps) ==
  LET hinted == IF caps.preferred > 0 THEN caps.preferred ELSE plan.window
      clamped == Least(Most(hinted, MinWindow), MaxWindow)
      capped(beam) == IF caps.maxRanges > 0 THEN Most(Least(beam, caps.maxRanges), 1) ELSE beam
  IN  [window |-> Least(CeilDiv(clamped, MinWindow) * MinWindow, MaxWindow),
       beam |-> capped(plan.beam), filteredBeam |-> capped(plan.filteredBeam)]

\* DiskAnnIndexReader::read_plan, and the part of it vector_read_plan reports.
ReadPlan == WithCapabilities(PlanOf[index.tier], index.caps)

------------------------------------------------------------------------------
(* The reader *)

Init ==
  /\ \E b \in Budgets, l \in Layouts, o \in Orders, a \in Adjacencies, v \in Vectors, t \in Tiers,
        c \in Capabilities :
       index = [budget |-> b, steady |-> SteadyBytes(l), peak |-> PeakBytes(l), order |-> o,
                adjacency |-> a, vectors |-> v, tier |-> t, caps |-> c]
  /\ opts = ResolveCacheBudgets(index.tier, index.budget, index.steady, index.adjacency, index.vectors)
  /\ resident = FALSE /\ caches = [adjacency |-> 0, raw |-> 0] /\ hot = 0
  /\ order = "NotLoaded" /\ transient = 0 /\ copy = 0 /\ phase = "idle" /\ lost = FALSE

OrderBytes == IF order = "Loaded" THEN index.order ELSE 0

\* Faulty variant of Resized: the total is not cut to what was configured.
ResizedUncut(total) ==
  LET desired == opts.adjacency + opts.raw
      adjacency == IF desired = 0 THEN 0 ELSE (total * opts.adjacency) \div desired
  IN  [adjacency |-> adjacency, raw |-> total - adjacency]

\* resize_shared_cache_budgets: the total is cut to what was configured and split in
\* the configured proportion.
Resized(total) ==
  LET desired == opts.adjacency + opts.raw
      granted == Least(total, desired)
      adjacency == IF desired = 0 THEN 0 ELSE (granted * opts.adjacency) \div desired
  IN  [adjacency |-> adjacency, raw |-> granted - adjacency]

\* ensure_resident: refused by the budget, or read; the read may fail.
EnsureResident ==
  /\ phase = "idle" /\ ~resident /\ index.peak <= opts.max
  /\ resident' = TRUE /\ caches' = [adjacency |-> opts.adjacency, raw |-> opts.raw]
  /\ UNCHANGED <<index, opts, hot, order, transient, copy, phase, lost>>

\* Faulty variant of OrderPeak: the decode scratch is forgotten.
OrderPeakNoScratch == index.steady + hot + index.order

\* row_id_order_peak_bytes.
OrderPeak == index.steady + hot + index.order + Least(index.order, DecodeBuffer)

\* ensure_row_id_order up to its read: refused for good by the budget, or the decode
\* peak is taken from the caches first.
BeginOrder ==
  /\ phase = "idle" /\ resident /\ order = "NotLoaded"
  /\ IF OrderPeak > opts.max
     THEN order' = "UnavailableByBudget" /\ UNCHANGED <<caches, transient, phase>>
     ELSE /\ caches' = Resized(opts.max - OrderPeak)
          /\ transient' = index.order + Least(index.order, DecodeBuffer)
          /\ phase' = "order" /\ UNCHANGED order
  /\ UNCHANGED <<index, opts, resident, hot, copy, lost>>

\* read_u32_section or validate_row_id_order fails: the state stays NotLoaded and the
\* caches keep the size they were cut to.
OrderFails ==
  /\ phase = "order"
  /\ phase' = "idle" /\ transient' = 0 /\ lost' = TRUE
  /\ UNCHANGED <<index, opts, resident, caches, hot, order, copy>>

\* The scratch buffer is gone; Arc::from copies the decoded order.
ShareOrder ==
  /\ phase = "order"
  /\ phase' = "share" /\ transient' = index.order /\ copy' = index.order
  /\ UNCHANGED <<index, opts, resident, caches, hot, order, lost>>

\* Faulty variant of FinishOrder: the caches keep the size reserved for the decode.
FinishOrderKeepsPeak ==
  /\ phase = "share"
  /\ phase' = "idle" /\ transient' = 0 /\ copy' = 0 /\ lost' = FALSE /\ order' = "Loaded"
  /\ UNCHANGED <<index, opts, resident, caches, hot>>

\* The order is published and the caches get back what the decode peak held.
FinishOrder ==
  /\ phase = "share"
  /\ phase' = "idle" /\ transient' = 0 /\ copy' = 0 /\ lost' = FALSE /\ order' = "Loaded"
  /\ caches' = Resized(Minus(opts.max, index.steady + hot + index.order))
  /\ UNCHANGED <<index, opts, resident, hot>>

Available == Minus(Minus(opts.max, index.steady), OrderBytes)

\* Faulty variant of PreloadLength: a short preload is not cut to whole pages.
PreloadLengthUnaligned ==
  Least(Least(CeilDiv(Least(opts.preload, index.adjacency), Alignment) * Alignment, index.adjacency),
        Available)

\* The prefix optimize_for_search preloads: rounded up to the alignment, cut to what
\* the budget leaves, and then down to whole units unless it is the whole section.
PreloadLength ==
  LET requested == Least(CeilDiv(Least(opts.preload, index.adjacency), Alignment) * Alignment,
                         index.adjacency)
      granted == Least(requested, Available)
  IN  IF granted < index.adjacency THEN (granted \div Alignment) * Alignment ELSE granted

\* optimize_for_search up to its read.
BeginPreload ==
  /\ phase = "idle" /\ resident /\ opts.preload # 0 /\ hot = 0
  /\ caches' = Resized(Minus(Available, PreloadLength))
  /\ IF PreloadLength = 0 THEN lost' = FALSE /\ UNCHANGED <<phase, transient>>
     ELSE phase' = "preload" /\ transient' = PreloadLength /\ UNCHANGED lost
  /\ UNCHANGED <<index, opts, resident, hot, order, copy>>

\* The read, or the validation of a page of the copy, fails.
PreloadFails ==
  /\ phase \in {"preload", "validate"}
  /\ phase' = "idle" /\ transient' = 0 /\ lost' = TRUE
  /\ UNCHANGED <<index, opts, resident, caches, hot, order, copy>>

\* Arc::from copies the payload that was read.
SharePreload ==
  /\ phase = "preload"
  /\ phase' = "sharePreload" /\ copy' = transient
  /\ UNCHANGED <<index, opts, resident, caches, hot, order, transient, lost>>

\* The vector is gone; the pages of the copy are validated.
ValidatePreload ==
  /\ phase = "sharePreload"
  /\ phase' = "validate" /\ copy' = 0
  /\ UNCHANGED <<index, opts, resident, caches, hot, order, transient, lost>>

FinishPreload ==
  /\ phase = "validate"
  /\ phase' = "idle" /\ hot' = transient /\ transient' = 0 /\ lost' = FALSE
  /\ UNCHANGED <<index, opts, resident, caches, order, copy>>

Next ==
  \/ EnsureResident
  \/ BeginOrder \/ OrderFails \/ ShareOrder \/ FinishOrder
  \/ BeginPreload \/ PreloadFails \/ SharePreload \/ ValidatePreload \/ FinishPreload

Spec == Init /\ [][Next]_vars

------------------------------------------------------------------------------

Retained == index.steady + hot + OrderBytes + caches.adjacency + caches.raw

\* The sections a reader keeps, its caches at full capacity and the buffers a load
\* decodes into exceed the memory budget only while Arc::from copies the section just
\* loaded, which no reservation covers, and then by no more than that one copy, in
\* whatever order the loads come and whichever of them fail ("Total bytes available to
\* required resident state and retained caches", VectorIndexReaderOptions).
WithinBudget ==
  LET excess == Retained + transient + copy - opts.max
  IN  resident => excess <= (IF phase \in {"share", "sharePreload"} THEN transient ELSE 0)

\* Capacity is given away only for something: unless a failed load cut the caches,
\* they have all the bytes they were configured with that the retained sections leave
\* (ensure_row_id_order and optimize_for_search resize before they read).
NoCapacityStranded ==
  resident /\ phase = "idle" /\ ~lost =>
    caches.adjacency + caches.raw =
      Least(opts.adjacency + opts.raw, opts.max - index.steady - hot - OrderBytes)

\* Neither cache ever gets more than it was configured with, whatever the rounding of
\* the proportional split (resize_shared_cache_budgets).
SplitWithinConfigured == caches.adjacency <= opts.adjacency /\ caches.raw <= opts.raw

\* The configured budgets fit in what the resident sections leave, and bytes stay
\* unassigned only when neither cache may hold more (resolve_cache_budgets).
BudgetsAssigned ==
  LET available == Minus(index.budget, index.steady)
      used == opts.preload + opts.adjacency + opts.raw
  IN  /\ used <= available
      /\ used < available =>
           /\ opts.adjacency = Least(PerCacheCap[index.tier], index.adjacency - opts.preload)
           /\ opts.raw = Least(PerCacheCap[index.tier], index.vectors)

\* The preloaded prefix ends on a page boundary, so every page of it is validated and
\* no page is half preloaded.
PreloadIsWholePages == hot = index.adjacency \/ hot % Alignment = 0

\* Whatever an adapter hints, a read window holds whole pages and stays between one
\* page and the upper bound (ReadPlan::with_capabilities).
WindowsHoldWholePages ==
  ReadPlan.window % MinWindow = 0 /\ ReadPlan.window \in MinWindow..MaxWindow

\* The division of the budget leaves nothing out and nothing over: no cache gets more
\* than it was configured with, bytes stay unassigned only when nobody may hold them,
\* and preloaded prefixes and read windows hold whole pages.
BudgetIsDivided ==
  SplitWithinConfigured /\ BudgetsAssigned /\ PreloadIsWholePages /\ WindowsHoldWholePages

=============================================================================

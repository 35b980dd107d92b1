------------------------- MODULE ReaderStateProofs --------------------------
(***************************************************************************)
(* Proofs about what the calls on one reader share: the verdicts on the    *)
(* adjacency pages of a DiskANN index (AdjacencyValidation) and the list   *)
(* cache of an IVF-SQ index (SqListCache).                                 *)
(***************************************************************************)
EXTENDS AdjacencyValidation, SqListCache, TLAPS

(***************************************************************************)
(* Verdicts, for every number of callers, pages, calls and panics, and every*)
(* set of corrupt pages.                                                   *)
(***************************************************************************)

\* A page has a claim in the state validating, and only then.
ClaimedOnce ==
  /\ \A c \in Callers : phase[c] \in Claiming => states[page[c]] = "validating"
  /\ \A p \in Pages : states[p] = "validating" =>
       \E c \in Callers : page[c] = p /\ phase[c] \in Claiming
  /\ \A c, d \in Callers :
       phase[c] \in Claiming /\ phase[d] \in Claiming /\ page[c] = page[d] => c = d

\* What a stored verdict, an entry of the error map and the place of a caller say
\* about the bytes of a page.
EvidenceTrue ==
  /\ \A p \in Pages : /\ states[p] = "valid" => p \notin Corrupt
                      /\ states[p] = "invalid" => p \in Corrupt /\ p \in errors
  /\ \A c \in Callers :
       /\ phase[c] # "idle" => page[c] \in Pages
       /\ phase[c] = "publish_valid" => page[c] \notin Corrupt
       /\ phase[c] = "record" => page[c] \in Corrupt
       /\ phase[c] = "publish_invalid" => page[c] \in Corrupt /\ page[c] \in errors
       /\ phase[c] = "fetch" => states[page[c]] = "invalid"

\* The inductive invariant.
IInv == TypeOK /\ ClaimedOnce /\ EvidenceTrue /\ VerdictSound /\ SleepsOnClaim

\* A step of caller c that neither takes, passes on nor gives up a claim, and that
\* leaves the verdicts and the other callers alone.
Unclaimed(c) ==
  /\ UNCHANGED <<states, errors>>
  /\ phase[c] \notin Claiming
  /\ phase'[c] \notin Claiming
  /\ \A d \in Callers : d # c => /\ phase'[d] = phase[d]
                                 /\ page'[d] = page[d]
                                 /\ result'[d] = result[d]

-----------------------------------------------------------------------------

\* Every step keeps the types.
LEMMA NextType == TypeOK /\ EvidenceTrue /\ [Next]_vars => TypeOK'
<1> SUFFICES ASSUME TypeOK, EvidenceTrue, [Next]_vars
             PROVE  TypeOK'
  OBVIOUS
<1> USE ConstantsAssumption DEF TypeOK
<1>1. CASE UNCHANGED vars
  BY <1>1 DEF vars
<1>2. ASSUME NEW c \in Callers, Call(c)
      PROVE  TypeOK'
  BY <1>2 DEF Call, Phases, Results, Indices, Pages
<1>3. ASSUME NEW c \in Callers, Load(c)
      PROVE  TypeOK'
  BY <1>3 DEF Load, Goto, Return, Phases, Results
<1>4. ASSUME NEW c \in Callers, Exchange(c)
      PROVE  TypeOK'
  BY <1>4 DEF Exchange, Goto, Phases, States
<1>5. ASSUME NEW c \in Callers, Validate(c) \/ Panic(c) \/ Wait(c) \/ SpuriousWakeup(c)
      PROVE  TypeOK'
  BY <1>5 DEF Validate, Panic, Wait, SpuriousWakeup, Goto, Phases
<1>6. ASSUME NEW c \in Callers, Release(c)
      PROVE  TypeOK'
  <2>1. Woken \in [Callers -> Phases]
    BY DEF Woken, Phases
  <2> QED
    BY <1>6, <2>1, Zenon DEF Release, Verdict, Phases, States, Results
<1>7. ASSUME NEW c \in Callers, Fetch(c)
      PROVE  TypeOK'
  BY <1>7 DEF Fetch, Return, Phases, Results
<1>8. ASSUME NEW c \in Callers, Record(c)
      PROVE  TypeOK'
  BY <1>8 DEF Record, Remembered, Goto, Phases, EvidenceTrue
<1> QED
  BY <1>1, <1>2, <1>3, <1>4, <1>5, <1>6, <1>7, <1>8 DEF Next, Step

\* A step without a claim keeps the invariant when the caller ends up at a place and
\* with a result that the verdicts justify.
LEMMA UnclaimedInv ==
  ASSUME IInv, TypeOK', NEW c \in Callers, Unclaimed(c),
         phase'[c] # "idle" => page'[c] \in Pages,
         phase'[c] = "fetch" => states[page'[c]] = "invalid",
         phase'[c] = "asleep" => states[page'[c]] = "validating",
         result'[c] = "ok" => page'[c] \in Pages \ Corrupt,
         result'[c] = "page_error" => page'[c] \in Corrupt,
         result'[c] # "generic_error"
  PROVE  IInv'
<1>1. ClaimedOnce'
  BY DEF IInv, ClaimedOnce, Unclaimed
<1>2. EvidenceTrue'
  BY DEF IInv, EvidenceTrue, Unclaimed, Claiming
<1>3. VerdictSound'
  BY DEF IInv, VerdictSound, Unclaimed
<1>4. SleepsOnClaim'
  BY DEF IInv, SleepsOnClaim, Unclaimed
<1> QED
  BY <1>1, <1>2, <1>3, <1>4 DEF IInv

\* Entering and leaving get_or_validate, reading a verdict, and sleeping.
LEMMA CallerInv ==
  ASSUME IInv, TypeOK', NEW c \in Callers,
         Call(c) \/ Load(c) \/ Wait(c) \/ SpuriousWakeup(c) \/ Fetch(c)
  PROVE  IInv'
<1>1. /\ phase \in [Callers -> Phases]
      /\ page \in [Callers -> Indices]
      /\ result \in [Callers -> Results]
  BY DEF IInv, TypeOK
<1>2. /\ phase[c] # "idle" => page[c] \in Pages
      /\ result[c] = "ok" => page[c] \in Pages \ Corrupt
      /\ result[c] = "page_error" => page[c] \in Corrupt
      /\ result[c] # "generic_error"
      /\ \A p \in Pages : /\ states[p] = "valid" => p \notin Corrupt
                          /\ states[p] = "invalid" => p \in Corrupt /\ p \in errors
      /\ phase[c] = "fetch" => states[page[c]] = "invalid"
  BY DEF IInv, EvidenceTrue, VerdictSound
<1>3. CASE Call(c)
  <2>1. Unclaimed(c)
    BY <1>1, <1>3 DEF Call, Unclaimed, Claiming
  <2>2. /\ phase'[c] \in {"load", "idle"}
        /\ phase'[c] = "load" => page'[c] \in Pages
        /\ result'[c] \in {"none", "out_of_range"}
    BY <1>1, <1>3 DEF Call
  <2> QED
    BY <2>1, <2>2, UnclaimedInv
<1>4. CASE Load(c)
  <2>1. Unclaimed(c)
    BY <1>1, <1>4 DEF Load, Goto, Return, Unclaimed, Claiming
  <2>2. /\ page'[c] = page[c]
        /\ phase[c] = "load"
        /\ \/ phase'[c] \in {"exchange", "lock"} /\ result'[c] = result[c]
           \/ states[page[c]] = "valid" /\ phase'[c] = "idle" /\ result'[c] = "ok"
           \/ /\ states[page[c]] = "invalid"
              /\ phase'[c] = "fetch" /\ result'[c] = result[c]
    BY <1>1, <1>4 DEF Load, Goto, Return
  <2> QED
    BY <1>2, <2>1, <2>2, UnclaimedInv
<1>5. CASE Wait(c) \/ SpuriousWakeup(c)
  <2>1. Unclaimed(c)
    BY <1>1, <1>5 DEF Wait, SpuriousWakeup, Goto, Unclaimed, Claiming
  <2>2. /\ page'[c] = page[c] /\ result'[c] = result[c]
        /\ phase[c] # "idle"
        /\ phase'[c] \in {"load", "lock", "asleep"}
        /\ phase'[c] = "asleep" => states[page[c]] = "validating"
    BY <1>1, <1>5 DEF Wait, SpuriousWakeup, Goto
  <2> QED
    BY <1>2, <2>1, <2>2, UnclaimedInv
<1>6. CASE Fetch(c)
  <2>1. Unclaimed(c)
    BY <1>1, <1>6 DEF Fetch, Return, Unclaimed, Claiming
  <2>2. /\ page'[c] = page[c] /\ phase[c] = "fetch" /\ phase'[c] = "idle"
        /\ result'[c] = IF page[c] \in errors THEN "page_error" ELSE "generic_error"
    BY <1>1, <1>6 DEF Fetch, Return
  <2> QED
    BY <1>2, <2>1, <2>2, UnclaimedInv
<1> QED
  BY <1>3, <1>4, <1>5, <1>6

\* Taking a claim: the state was unvalidated, so nobody held one.
LEMMA ExchangeInv ==
  ASSUME IInv, TypeOK', NEW c \in Callers, Exchange(c)
  PROVE  IInv'
<1>1. /\ phase \in [Callers -> Phases]
      /\ states \in [Pages -> States]
      /\ page[c] \in Pages
      /\ phase[c] = "exchange"
  BY DEF IInv, TypeOK, EvidenceTrue, Exchange
<1>2. CASE ~MayClaim(page[c])
  <2>1. Unclaimed(c)
    BY <1>1, <1>2 DEF Exchange, Goto, Unclaimed, Claiming
  <2>2. phase'[c] = "load" /\ page'[c] = page[c] /\ result'[c] = result[c]
    BY <1>1, <1>2 DEF Exchange, Goto
  <2> QED
    BY <1>1, <2>1, <2>2, UnclaimedInv DEF IInv, VerdictSound
<1>3. CASE MayClaim(page[c])
  <2>1. /\ states[page[c]] = "unvalidated"
        /\ states'[page[c]] = "validating"
        /\ \A p \in Pages : p # page[c] => states'[p] = states[p]
        /\ phase'[c] = "validate"
        /\ \A d \in Callers : d # c => phase'[d] = phase[d]
        /\ UNCHANGED <<errors, page, result>>
    BY <1>1, <1>3 DEF Exchange, Goto, MayClaim
  <2>2. \A d \in Callers : phase[d] \in Claiming => page[d] # page[c] /\ page[d] \in Pages
    BY <2>1 DEF IInv, ClaimedOnce, EvidenceTrue, Claiming
  <2>3. ClaimedOnce'
    BY <1>1, <2>1, <2>2 DEF IInv, ClaimedOnce, Claiming
  <2>4. EvidenceTrue'
    BY <1>1, <2>1 DEF IInv, EvidenceTrue
  <2>5. VerdictSound'
    BY <2>1 DEF IInv, VerdictSound
  <2>6. SleepsOnClaim'
    BY <1>1, <2>1 DEF IInv, SleepsOnClaim, EvidenceTrue
  <2> QED
    BY <2>3, <2>4, <2>5, <2>6 DEF IInv
<1> QED
  BY <1>2, <1>3

\* Working under a claim: the caller keeps it, and what it writes down is true.
LEMMA HolderInv ==
  ASSUME IInv, TypeOK', NEW c \in Callers, Validate(c) \/ Panic(c) \/ Record(c)
  PROVE  IInv'
<1>1. phase \in [Callers -> Phases]
  BY DEF IInv, TypeOK
<1>2. /\ phase[c] \in Claiming
      /\ phase'[c] \in Claiming
      /\ \A d \in Callers : d # c => phase'[d] = phase[d]
      /\ UNCHANGED <<states, page, result>>
      /\ errors \subseteq errors'
  BY <1>1 DEF Validate, Panic, Record, Remembered, Goto, Claiming
<1>3. /\ page[c] \in Pages
      /\ phase'[c] = "publish_valid" => page[c] \notin Corrupt
      /\ phase'[c] = "record" => page[c] \in Corrupt
      /\ phase'[c] = "publish_invalid" => page[c] \in Corrupt /\ page[c] \in errors'
      /\ phase'[c] \notin {"idle", "fetch", "asleep"}
  BY <1>1 DEF IInv, EvidenceTrue, Validate, Panic, Record, Remembered, Goto
<1>4. ClaimedOnce'
  BY <1>2 DEF IInv, ClaimedOnce
<1>5. EvidenceTrue'
  BY <1>2, <1>3 DEF IInv, EvidenceTrue
<1>6. VerdictSound'
  BY <1>2 DEF IInv, VerdictSound
<1>7. SleepsOnClaim'
  BY <1>2, <1>3 DEF IInv, SleepsOnClaim
<1> QED
  BY <1>4, <1>5, <1>6, <1>7 DEF IInv

\* Giving up a claim: the verdict is stored, and every sleeper looks again.
LEMMA ReleaseInv ==
  ASSUME IInv, TypeOK', NEW c \in Callers, Release(c)
  PROVE  IInv'
<1>1. /\ phase \in [Callers -> Phases]
      /\ states \in [Pages -> States]
      /\ result \in [Callers -> Results]
      /\ page[c] \in Pages
  BY DEF IInv, TypeOK, EvidenceTrue, Release
<1>2. /\ phase'[c] = "idle"
      /\ \A d \in Callers : d # c => /\ phase'[d] # "asleep"
                                     /\ phase'[d] = phase[d] \/
                                        (phase[d] = "asleep" /\ phase'[d] = "lock")
  BY <1>1 DEF Release, Woken
<1>3. /\ states'[page[c]] = Verdict(phase[c])
      /\ \A p \in Pages : p # page[c] => states'[p] = states[p]
      /\ \A d \in Callers : d # c => result'[d] = result[d]
      /\ UNCHANGED <<errors, page>>
  BY <1>1 DEF Release
<1>4. \/ /\ phase[c] = "publish_valid" /\ result'[c] = "ok"
         /\ states'[page[c]] = "valid" /\ page[c] \notin Corrupt
      \/ /\ phase[c] = "publish_invalid" /\ result'[c] = "page_error"
         /\ states'[page[c]] = "invalid" /\ page[c] \in Corrupt /\ page[c] \in errors
      \/ /\ phase[c] = "unwind" /\ result'[c] = "panic"
         /\ states'[page[c]] = "unvalidated"
  BY <1>1, <1>3 DEF Release, Verdict, IInv, EvidenceTrue
<1>5. \A d \in Callers : d # c /\ phase[d] \in Claiming => page[d] # page[c]
  BY <1>4 DEF IInv, ClaimedOnce, Claiming
<1>6. \A d \in Callers : d # c => (phase'[d] \in Claiming <=> phase[d] \in Claiming)
  BY <1>2 DEF Claiming
<1>7. phase'[c] \notin Claiming
  BY <1>2 DEF Claiming
<1>8. ClaimedOnce'
  <2>1. ASSUME NEW d \in Callers, phase'[d] \in Claiming
        PROVE  states'[page'[d]] = "validating"
    <3>1. d # c /\ phase[d] \in Claiming /\ page[d] # page[c] /\ page[d] \in Pages
      BY <1>5, <1>6, <1>7, <2>1 DEF IInv, EvidenceTrue, Claiming
    <3> QED
      BY <1>3, <3>1 DEF IInv, ClaimedOnce
  <2>2. ASSUME NEW p \in Pages, states'[p] = "validating"
        PROVE  \E d \in Callers : page'[d] = p /\ phase'[d] \in Claiming
    <3>1. p # page[c] /\ states[p] = "validating"
      BY <1>3, <1>4, <2>2
    <3> QED
      BY <1>3, <1>6, <3>1 DEF IInv, ClaimedOnce
  <2>3. \A d, e \in Callers :
          phase'[d] \in Claiming /\ phase'[e] \in Claiming /\ page'[d] = page'[e] => d = e
    BY <1>3, <1>6, <1>7 DEF IInv, ClaimedOnce
  <2> QED
    BY <2>1, <2>2, <2>3 DEF ClaimedOnce
<1>9. EvidenceTrue'
  <2>1. ASSUME NEW p \in Pages
        PROVE  /\ states'[p] = "valid" => p \notin Corrupt
               /\ states'[p] = "invalid" => p \in Corrupt /\ p \in errors'
    BY <1>3, <1>4 DEF IInv, EvidenceTrue
  <2>2. ASSUME NEW d \in Callers, phase'[d] = "fetch"
        PROVE  states'[page'[d]] = "invalid"
    <3>1. d # c /\ states[page[d]] = "invalid" /\ page[d] \in Pages
      BY <1>2, <2>2 DEF IInv, EvidenceTrue
    <3>2. page[d] # page[c]
      BY <1>4, <3>1 DEF IInv, ClaimedOnce, Claiming
    <3> QED
      BY <1>3, <3>1, <3>2
  <2> QED
    BY <1>2, <1>3, <2>1, <2>2 DEF IInv, EvidenceTrue
<1>10. VerdictSound'
  BY <1>1, <1>3, <1>4 DEF IInv, VerdictSound
<1>11. SleepsOnClaim'
  BY <1>2 DEF SleepsOnClaim
<1> QED
  BY <1>8, <1>9, <1>10, <1>11 DEF IInv

\* The inductive invariant holds throughout.
LEMMA Invariance == Spec => []IInv
<1>1. Init => IInv
  <2> SUFFICES ASSUME Init
               PROVE  IInv
    OBVIOUS
  <2>1. TypeOK
    BY ConstantsAssumption DEF Init, TypeOK, States, Phases, Results, Pages, Indices
  <2>2. ClaimedOnce /\ SleepsOnClaim /\ VerdictSound /\ EvidenceTrue
    BY DEF Init, ClaimedOnce, Claiming, EvidenceTrue, VerdictSound, SleepsOnClaim
  <2> QED
    BY <2>1, <2>2 DEF IInv
<1>2. IInv /\ [Next]_vars => IInv'
  <2> SUFFICES ASSUME IInv, [Next]_vars
               PROVE  IInv'
    OBVIOUS
  <2>1. TypeOK'
    BY NextType DEF IInv
  <2>2. CASE UNCHANGED vars
    BY <2>1, <2>2 DEF vars, IInv, ClaimedOnce, EvidenceTrue, VerdictSound, SleepsOnClaim
  <2> QED
    BY <2>1, <2>2, CallerInv, ExchangeInv, HolderInv, ReleaseInv DEF Next, Step
<1> QED
  BY <1>1, <1>2, PTL DEF Spec

-----------------------------------------------------------------------------

\* The compare-and-exchange and the two ways a claim ends keep it unique: a page is
\* in the state validating exactly while one caller holds its claim.
THEOREM ClaimUnique == Spec => []OneClaim
<1>1. IInv => OneClaim
  BY DEF IInv, ClaimedOnce, OneClaim
<1> QED
  BY <1>1, Invariance, PTL

\* get_or_validate tells every caller the truth about the bytes of a page, and the
\* error map has an entry by the time a caller looks for one.
THEOREM VerdictsTrue == Spec => []VerdictSound
<1>1. IInv => VerdictSound
  BY DEF IInv
<1> QED
  BY <1>1, Invariance, PTL

\* A waiter sleeps only while the page it waits for is being validated: neither
\* publish nor the drop of a claim during a panic loses a wakeup.
THEOREM NoSleeperForgotten == Spec => []SleepsOnClaim
<1>1. IInv => SleepsOnClaim
  BY DEF IInv
<1> QED
  BY <1>1, Invariance, PTL

\* No step takes a verdict back.
THEOREM VerdictStays == Spec => VerdictFinal
<1> DEFINE Final == \A p \in Pages :
             states[p] \in {"valid", "invalid"} => states'[p] = states[p]
<1>1. IInv /\ [Next]_vars => [Final]_vars
  <2> SUFFICES ASSUME IInv, Next, NEW p \in Pages, states[p] \in {"valid", "invalid"}
               PROVE  states'[p] = states[p]
    BY DEF vars
  <2>1. states \in [Pages -> States]
    BY DEF IInv, TypeOK
  <2>2. ASSUME NEW c \in Callers, Exchange(c)
        PROVE  states'[p] = states[p]
    BY <2>1, <2>2 DEF Exchange, MayClaim
  <2>3. ASSUME NEW c \in Callers, Release(c)
        PROVE  states'[p] = states[p]
    <3>1. page[c] # p
      BY <2>3 DEF Release, IInv, ClaimedOnce, Claiming
    <3> QED
      BY <2>1, <2>3, <3>1 DEF Release
  <2>4. ASSUME NEW c \in Callers,
               \/ Call(c) \/ Load(c) \/ Validate(c) \/ Record(c) \/ Wait(c) \/ Fetch(c)
               \/ Panic(c) \/ SpuriousWakeup(c)
        PROVE  UNCHANGED states
    BY <2>4 DEF Call, Load, Validate, Record, Wait, Fetch, Panic, SpuriousWakeup
  <2> QED
    BY <2>2, <2>3, <2>4 DEF Next, Step
<1> QED
  BY <1>1, Invariance, PTL DEF Spec, VerdictFinal

-----------------------------------------------------------------------------
(***************************************************************************)
(* The list cache keeps its queue equal to its filled slots, stays within its*)
(* budget and serves every list in the shape the reader asks for, for any  *)
(* lists, shapes, sizes and budget.                                        *)
(***************************************************************************)

\* The conjunction is inductive as it stands.
CacheInv == CacheTypeOK /\ QueueIsSlots /\ WithinBudget /\ ServedFresh

\* Removing one element of a queue without repetitions removes that list only.
LEMMA WithoutKeepsTheRest ==
  ASSUME NEW s \in Seq(Lists), \A i, j \in DOMAIN s : s[i] = s[j] => i = j,
         NEW l \in {s[i] : i \in DOMAIN s}
  PROVE  /\ Without(s, l) \in Seq(Lists)
         /\ \A i, j \in DOMAIN Without(s, l) : Without(s, l)[i] = Without(s, l)[j] => i = j
         /\ {Without(s, l)[i] : i \in DOMAIN Without(s, l)} = {s[i] : i \in DOMAIN s} \ {l}
<1> DEFINE at == CHOOSE i \in DOMAIN s : s[i] = l
           w  == Without(s, l)
<1>1. at \in 1 .. Len(s) /\ s[at] = l /\ DOMAIN s = 1 .. Len(s) /\ Len(s) \in Nat
  OBVIOUS
<1>2. w = [i \in 1 .. Len(s) - 1 |-> IF i < at THEN s[i] ELSE s[i + 1]]
  BY DEF Without
<1> HIDE DEF at, w
<1>3. /\ Len(s) - 1 \in Nat
      /\ \A i \in 1 .. Len(s) - 1 : w[i] = (IF i < at THEN s[i] ELSE s[i + 1])
      /\ DOMAIN w = 1 .. Len(s) - 1
  BY <1>1, <1>2
<1>4. w \in Seq(Lists)
  <2>1. \A i \in 1 .. Len(s) - 1 : w[i] \in Lists
    BY <1>1, <1>3
  <2> QED
    BY <1>2, <1>3, <2>1, SMTT(30)
<1>5. \A i, j \in DOMAIN w : w[i] = w[j] => i = j
  <2>1. \A i, j \in 1 .. Len(s) : s[i] = s[j] => i = j
    BY <1>1
  <2>2. SUFFICES ASSUME NEW i \in 1 .. Len(s) - 1, NEW j \in 1 .. Len(s) - 1, w[i] = w[j] PROVE i = j
    BY <1>3
  <2>3. \A n \in 1 .. Len(s) - 1 : n \in 1 .. Len(s) /\ n + 1 \in 1 .. Len(s)
    BY <1>1
  <2> QED
    BY <1>1, <1>3, <2>1, <2>2, <2>3
<1>6. {w[i] : i \in DOMAIN w} \subseteq {s[i] : i \in DOMAIN s} \ {l}
  BY <1>1, <1>3
<1>7. ASSUME NEW j \in DOMAIN s, s[j] # l
      PROVE  s[j] \in {w[i] : i \in DOMAIN w}
  <2>1. CASE j < at
    BY <1>1, <1>3, <2>1
  <2>2. CASE j > at
    <3>1. j - 1 \in DOMAIN w /\ w[j - 1] = s[j]
      BY <1>1, <1>3, <2>2
    <3> QED
      BY <3>1
  <2> QED
    BY <1>1, <1>7, <2>1, <2>2
<1>8. {w[i] : i \in DOMAIN w} = {s[i] : i \in DOMAIN s} \ {l}
  BY <1>6, <1>7
<1> QED
  BY <1>4, <1>5, <1>8, Zenon DEF w

\* CacheInv holds initially.
LEMMA InitCacheInv == CacheInit => CacheInv
<1> SUFFICES ASSUME CacheInit PROVE CacheInv
  OBVIOUS
<1>1. CacheTypeOK
  <2>1. [l \in Lists |-> None] \in [Lists -> Shapes \cup {None}]
    OBVIOUS
  <2>2. << >> \in Seq(Lists) /\ 0 \in Int /\ FALSE \in BOOLEAN
    OBVIOUS
  <2> QED
    BY <2>1, <2>2, Zenon DEF CacheInit, CacheTypeOK
<1>2. QueueIsSlots
  <2>1. DOMAIN order = {} /\ {l \in Lists : entries[l] # None} = {}
    BY DEF CacheInit
  <2> QED
    BY <2>1 DEF QueueIsSlots
<1>3. WithinBudget /\ ServedFresh
  BY CacheAssumption DEF CacheInit, WithinBudget, ServedFresh, HasCache, CapacityBytes
<1> QED
  BY <1>1, <1>2, <1>3 DEF CacheInv

\* The bytes of a filled slot, or of a list just read, are a natural number.
LEMMA BytesAreNat ==
  ASSUME CacheTypeOK, NEW l \in Lists
  PROVE  /\ Bytes[l][meta[l]] \in Nat
         /\ entries[l] # None => Bytes[l][entries[l]] \in Nat
         /\ CapacityBytes \in Int
  BY CacheAssumption DEF CacheTypeOK, CapacityBytes

\* Every step of the reader preserves CacheInv.
LEMMA StepCacheInv == CacheInv /\ [CacheNext]_cvars => CacheInv'
<1> SUFFICES ASSUME CacheInv, [CacheNext]_cvars PROVE CacheInv'
  OBVIOUS
<1> USE DEF CacheInv
<1>1. CASE UNCHANGED cvars
  BY <1>1 DEF cvars, CacheTypeOK, QueueIsSlots, WithinBudget, ServedFresh
<1>2. ASSUME NEW l \in Lists, NEW shape \in Shapes, Edit(l, shape) PROVE CacheInv'
  BY <1>2 DEF Edit, CacheTypeOK, QueueIsSlots, WithinBudget, ServedFresh
<1>3. ASSUME NEW lists \in Requests, Read(lists) PROVE CacheInv'
  <2>1. lists \in Seq(Lists)
    BY DEF Requests
  <2> QED
    <3>1. CacheTypeOK'
      BY <1>3, <2>1, Zenon DEF Read, CacheTypeOK
    <3>2. QueueIsSlots' /\ WithinBudget' /\ ServedFresh'
      BY <1>3 DEF Read, QueueIsSlots, WithinBudget, ServedFresh, CacheTypeOK
    <3> QED
      BY <3>1, <3>2
<1>4. CASE LookUpHit
  BY <1>4 DEF LookUpHit, Hit, CacheTypeOK, QueueIsSlots, WithinBudget, ServedFresh
<1>5. CASE LookUpStale
  <2> DEFINE l == Head(todo)
  <2>1. l \in Lists /\ entries[l] # None
    BY <1>5 DEF LookUpStale, CacheTypeOK
  <2>2. l \in {order[i] : i \in DOMAIN order}
    BY <2>1 DEF QueueIsSlots
  <2>3. /\ Without(order, l) \in Seq(Lists)
        /\ \A i, j \in DOMAIN Without(order, l) : Without(order, l)[i] = Without(order, l)[j] => i = j
        /\ {Without(order, l)[i] : i \in DOMAIN Without(order, l)} = {order[i] : i \in DOMAIN order} \ {l}
    BY <2>2, WithoutKeepsTheRest, Zenon DEF CacheTypeOK, QueueIsSlots
  <2>4. /\ entries' = [entries EXCEPT ![l] = None]
        /\ order' = Without(order, l)
        /\ retained' = retained - Retained(l)
        /\ misses' = Append(misses, l) /\ todo' = Tail(todo) /\ todo # << >>
        /\ UNCHANGED <<meta, asked, reading, served>>
    BY <1>5 DEF LookUpStale, Dequeued
  <2>5. Retained(l) \in Nat
    BY <2>1, BytesAreNat DEF Retained
  <2> HIDE DEF l
  <2>6. CacheTypeOK'
    BY <2>1, <2>3, <2>4, <2>5 DEF CacheTypeOK
  <2>7. QueueIsSlots'
    <3>1. {k \in Lists : entries'[k] # None} = {k \in Lists : entries[k] # None} \ {l}
      BY <2>1, <2>4 DEF CacheTypeOK
    <3> QED
      <4>1. {order'[i] : i \in DOMAIN order'} = {k \in Lists : entries'[k] # None}
        <5>1. {order'[i] : i \in DOMAIN order'} = {order[i] : i \in DOMAIN order} \ {l}
          BY <2>3, <2>4, Zenon
        <5>2. {order[i] : i \in DOMAIN order} = {k \in Lists : entries[k] # None}
          BY Zenon DEF QueueIsSlots
        <5> QED
          BY <3>1, <5>1, <5>2, Zenon
      <4> QED
        BY <2>3, <2>4, <4>1, Zenon DEF QueueIsSlots
  <2>8. WithinBudget' /\ ServedFresh'
    BY <2>1, <2>4, <2>5, BytesAreNat DEF WithinBudget, ServedFresh, HasCache, CapacityBytes, CacheTypeOK
  <2> QED
    BY <2>6, <2>7, <2>8
<1>6. CASE LookUpMiss
  BY <1>6 DEF LookUpMiss, CacheTypeOK, QueueIsSlots, WithinBudget, ServedFresh
<1>7. CASE ReadFails
  BY <1>7 DEF ReadFails, CacheTypeOK, QueueIsSlots, WithinBudget, ServedFresh
<1>8. CASE ReadMisses
  BY <1>8 DEF ReadMisses, CacheTypeOK, QueueIsSlots, WithinBudget, ServedFresh
<1>9. CASE Skip
  BY <1>9 DEF Skip, Loaded, CacheTypeOK, QueueIsSlots, WithinBudget, ServedFresh
<1>10. CASE Evict
  <2> DEFINE l == Head(order)
  <2>1. l \in Lists /\ order # << >> /\ order[1] = l /\ entries[l] # None
    <3>1. l \in Lists /\ order # << >> /\ order[1] = l /\ 1 \in DOMAIN order
      BY <1>10 DEF Evict, CacheTypeOK
    <3> QED
      BY <3>1 DEF QueueIsSlots
  <2>2. /\ entries' = [entries EXCEPT ![l] = None]
        /\ order' = Tail(order)
        /\ retained' = retained - Released(l)
        /\ UNCHANGED <<meta, asked, todo, misses, reading, served>>
    BY <1>10 DEF Evict
  <2>3. Released(l) \in Nat
    BY <2>1, BytesAreNat DEF Retained, Released
  <2>4. /\ Tail(order) \in Seq(Lists)
        /\ DOMAIN Tail(order) = 1 .. Len(order) - 1
        /\ DOMAIN order = 1 .. Len(order) /\ Len(order) \in Nat
        /\ \A i \in 1 .. Len(order) - 1 : Tail(order)[i] = order[i + 1]
    BY <2>1 DEF CacheTypeOK
  <2> HIDE DEF l
  <2>5. CacheTypeOK'
    BY <2>1, <2>2, <2>3, <2>4 DEF CacheTypeOK
  <2>6. QueueIsSlots'
    <3>1. {k \in Lists : entries'[k] # None} = {k \in Lists : entries[k] # None} \ {l}
      BY <2>1, <2>2 DEF CacheTypeOK
    <3>2. \A i, j \in 1 .. Len(order) - 1 : Tail(order)[i] = Tail(order)[j] => i = j
      BY <2>4 DEF QueueIsSlots
    <3>3. {Tail(order)[i] : i \in 1 .. Len(order) - 1} \subseteq {order[i] : i \in DOMAIN order} \ {l}
      BY <2>1, <2>4 DEF QueueIsSlots
    <3>4. ASSUME NEW j \in DOMAIN order, order[j] # l
          PROVE  order[j] \in {Tail(order)[i] : i \in 1 .. Len(order) - 1}
      <4>1. j - 1 \in 1 .. Len(order) - 1 /\ Tail(order)[j - 1] = order[j]
        BY <2>1, <2>4, <3>4
      <4> QED
        BY <4>1
    <3>5. {Tail(order)[i] : i \in 1 .. Len(order) - 1} = {order[i] : i \in DOMAIN order} \ {l}
      BY <3>3, <3>4
    <3> QED
      <4>1. {order'[i] : i \in DOMAIN order'} = {k \in Lists : entries'[k] # None}
        <5>1. {order'[i] : i \in DOMAIN order'} = {order[i] : i \in DOMAIN order} \ {l}
          BY <2>2, <2>4, <3>5, Zenon
        <5>2. {order[i] : i \in DOMAIN order} = {k \in Lists : entries[k] # None}
          BY Zenon DEF QueueIsSlots
        <5> QED
          BY <3>1, <5>1, <5>2, Zenon
      <4> QED
        BY <2>2, <2>4, <3>2, <4>1, Zenon DEF QueueIsSlots
  <2>7. WithinBudget' /\ ServedFresh'
    BY <2>1, <2>2, <2>3, BytesAreNat DEF WithinBudget, ServedFresh, HasCache, CapacityBytes, CacheTypeOK
  <2> QED
    BY <2>5, <2>6, <2>7
<1>11. CASE Insert
  <2> DEFINE l == Loaded
             b == Bytes[l][meta[l]]
  <2>1. l \in Lists /\ entries[l] = None /\ misses # << >>
    BY <1>11 DEF Insert, Inserting, Loaded, CacheTypeOK
  <2>2. /\ entries' = [entries EXCEPT ![l] = meta[l]]
        /\ order' = Append(order, l)
        /\ retained' = retained + b
        /\ served' = [served EXCEPT ![l] = meta[l]]
        /\ misses' = Tail(misses)
        /\ UNCHANGED <<meta, asked, todo, reading>>
    BY <1>11 DEF Insert
  <2>3. b \in Nat /\ CapacityBytes \in Int /\ retained \in Int /\ ~(b > CapacityBytes - retained)
    BY <1>11, <2>1, BytesAreNat DEF Insert, NeedsRoom, CacheTypeOK
  <2>4. /\ Append(order, l) \in Seq(Lists)
        /\ DOMAIN Append(order, l) = 1 .. Len(order) + 1
        /\ DOMAIN order = 1 .. Len(order) /\ Len(order) \in Nat
        /\ \A i \in 1 .. Len(order) : Append(order, l)[i] = order[i]
        /\ Append(order, l)[Len(order) + 1] = l
    BY <2>1 DEF CacheTypeOK
  <2> HIDE DEF l, b
  <2>5. CacheTypeOK'
    <3>1. meta[l] \in Shapes /\ retained + b \in Int
      BY <2>1, <2>3 DEF CacheTypeOK
    <3>2. Tail(misses) \in Seq(Lists)
      BY <2>1 DEF CacheTypeOK
    <3>3. /\ [entries EXCEPT ![l] = meta[l]] \in [Lists -> Shapes \cup {None}]
          /\ [served EXCEPT ![l] = meta[l]] \in [Lists -> Shapes \cup {None}]
      BY <2>1, <3>1, Zenon DEF CacheTypeOK
    <3> QED
      BY <2>2, <2>4, <3>1, <3>2, <3>3, Zenon DEF CacheTypeOK
  <2>6. QueueIsSlots'
    <3>1. {k \in Lists : entries'[k] # None} = {k \in Lists : entries[k] # None} \cup {l}
      BY <2>1, <2>2, CacheAssumption, Zenon DEF CacheTypeOK
    <3>2. l \notin {order[i] : i \in DOMAIN order}
      BY <2>1 DEF QueueIsSlots
    <3>3. \A i, j \in 1 .. Len(order) + 1 : Append(order, l)[i] = Append(order, l)[j] => i = j
      BY <2>4, <3>2 DEF QueueIsSlots
    <3>4. {Append(order, l)[i] : i \in 1 .. Len(order) + 1} = {order[i] : i \in DOMAIN order} \cup {l}
      <4>1. \A i \in 1 .. Len(order) + 1 : i \in 1 .. Len(order) \/ i = Len(order) + 1
        BY <2>4
      <4>2. 1 .. Len(order) \subseteq 1 .. Len(order) + 1 /\ Len(order) + 1 \in 1 .. Len(order) + 1
        BY <2>4
      <4> QED
        BY <2>4, <4>1, <4>2
    <3> QED
      <4>1. {order'[i] : i \in DOMAIN order'} = {k \in Lists : entries'[k] # None}
        <5>1. {order'[i] : i \in DOMAIN order'} = {order[i] : i \in DOMAIN order} \cup {l}
          BY <2>2, <2>4, <3>4, Zenon
        <5>2. {order[i] : i \in DOMAIN order} = {k \in Lists : entries[k] # None}
          BY Zenon DEF QueueIsSlots
        <5> QED
          BY <3>1, <5>1, <5>2, Zenon
      <4> QED
        BY <2>2, <2>4, <3>3, <4>1, Zenon DEF QueueIsSlots
  <2>7. WithinBudget'
    BY <2>2, <2>3 DEF WithinBudget, HasCache, CapacityBytes
  <2>8. ServedFresh'
    BY <2>1, <2>2 DEF ServedFresh, CacheTypeOK
  <2> QED
    BY <2>5, <2>6, <2>7, <2>8
<1>12. CASE ReturnLists
  <2>1. CacheTypeOK'
    BY <1>12, Zenon DEF ReturnLists, CacheTypeOK
  <2>2. QueueIsSlots' /\ WithinBudget' /\ ServedFresh'
    BY <1>12 DEF ReturnLists, QueueIsSlots, WithinBudget, ServedFresh
  <2> QED
    BY <2>1, <2>2
<1> QED
  BY <1>1, <1>2, <1>3, <1>4, <1>5, <1>6, <1>7, <1>8, <1>9, <1>10, <1>11, <1>12
     DEF CacheNext, CacheSteps

\* The variables of the cache keep their types after any history of edits, reads,
\* failed reads, evictions and insertions.
THEOREM CacheTypeCorrect == CacheSpec => []CacheTypeOK
<1>1. CacheInv => CacheTypeOK
  BY DEF CacheInv
<1> QED
  BY <1>1, InitCacheInv, StepCacheInv, PTL DEF CacheSpec

\* remove(oldest) in SqListCache::insert always frees a slot: the queue never names
\* an empty slot, nor a list twice, even after metadata edits and failed reads.
THEOREM QueueIsAlwaysSlots == CacheSpec => []QueueIsSlots
<1>1. CacheInv => QueueIsSlots
  BY DEF CacheInv
<1> QED
  BY <1>1, InitCacheInv, StepCacheInv, PTL DEF CacheSpec

\* The bytes SqListCache retains never exceed what the memory budget leaves it.
THEOREM CacheWithinBudget == CacheSpec => []WithinBudget
<1>1. CacheInv => WithinBudget
  BY DEF CacheInv
<1> QED
  BY <1>1, InitCacheInv, StepCacheInv, PTL DEF CacheSpec

\* read_scan_lists_with_count never serves a payload read for another shape than
\* the one the reader's metadata has now.
THEOREM CacheServesFresh == CacheSpec => []ServedFresh
<1>1. CacheInv => ServedFresh
  BY DEF CacheInv
<1> QED
  BY <1>1, InitCacheInv, StepCacheInv, PTL DEF CacheSpec

\* All three together: SqListCache stays sound after any history of edits, reads, failed
\* reads, evictions and insertions.
THEOREM CacheSound == CacheSpec => []CacheIsSound
<1>1. CacheInv => CacheIsSound
  BY DEF CacheInv, CacheIsSound
<1> QED
  BY <1>1, InitCacheInv, StepCacheInv, PTL DEF CacheSpec

=============================================================================

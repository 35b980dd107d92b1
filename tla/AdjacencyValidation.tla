-------------------------- MODULE AdjacencyValidation --------------------------
(***************************************************************************)
(* The cache of adjacency page verdicts that the readers of one DiskANN    *)
(* index share (core/src/diskann_io.rs, AdjacencyValidationCache).         *)
(*                                                                         *)
(* A page is validated by the caller that moves its state from unvalidated *)
(* to validating with a compare-and-exchange.  The claim it then holds     *)
(* publishes a verdict, or takes the state back to unvalidated when it is  *)
(* dropped by a panic.  The other callers sleep on one condition variable  *)
(* that all the pages share, or return the verdict.                        *)
(*                                                                         *)
(* A step is one access to the atomic of a page, or one critical section.  *)
(***************************************************************************)
EXTENDS Naturals

CONSTANTS
  Callers,   \* threads decoding adjacency pages
  NumPages,  \* adjacency pages of the index
  Corrupt,   \* pages whose bytes validate() rejects
  MaxCalls,  \* bound: calls a caller makes
  MaxPanics  \* bound: validations that panic

Pages == 0 .. NumPages - 1

\* What get_or_validate may be called with: the last one is out of range.
Indices == 0 .. NumPages

ASSUME ConstantsAssumption ==
  /\ NumPages \in Nat
  /\ Corrupt \subseteq Pages
  /\ MaxCalls \in Nat
  /\ MaxPanics \in Nat

VARIABLES
  states,  \* the atomic of a page
  errors,  \* pages with an entry in the error map
  phase,   \* where a caller is in get_or_validate
  page,    \* the page_index it was last called with
  result,  \* what its last call returned
  calls,   \* calls it has started
  panics   \* validations that have panicked

vars == <<states, errors, phase, page, result, calls, panics>>

States  == {"unvalidated", "validating", "valid", "invalid"}
Phases  == {"idle", "load", "exchange", "validate", "record", "publish_valid",
            "publish_invalid", "unwind", "lock", "asleep", "fetch"}
Results == {"none", "ok", "page_error", "generic_error", "out_of_range", "panic"}

-----------------------------------------------------------------------------

\* A caller leaves get_or_validate.
Return(c, value) ==
  /\ phase'  = [phase EXCEPT ![c] = "idle"]
  /\ result' = [result EXCEPT ![c] = value]
  /\ UNCHANGED page

Goto(c, p) ==
  /\ phase' = [phase EXCEPT ![c] = p]
  /\ UNCHANGED <<page, result>>

\* An index that is out of range is refused at once.
Call(c) ==
  /\ phase[c] = "idle"
  /\ calls[c] < MaxCalls
  /\ calls' = [calls EXCEPT ![c] = @ + 1]
  /\ \E p \in Indices :
       /\ page'   = [page EXCEPT ![c] = p]
       /\ phase'  = [phase EXCEPT ![c] = IF p \in Pages THEN "load" ELSE "idle"]
       /\ result' = [result EXCEPT ![c] = IF p \in Pages THEN "none"
                                                         ELSE "out_of_range"]
  /\ UNCHANGED <<states, errors, panics>>

Load(c) ==
  /\ phase[c] = "load"
  /\ LET state == states[page[c]]
     IN  \/ state = "unvalidated" /\ Goto(c, "exchange")
         \/ state = "validating"  /\ Goto(c, "lock")
         \/ state = "valid"       /\ Return(c, "ok")
         \/ state = "invalid"     /\ Goto(c, "fetch")
  /\ UNCHANGED <<states, errors, calls, panics>>

\* Faulty variant of MayClaim: the state is stored without comparing it.
MayClaimAnyway(p) == TRUE

\* The compare-and-exchange of a claim succeeds.
MayClaim(p) == states[p] = "unvalidated"

Exchange(c) ==
  /\ phase[c] = "exchange"
  /\ \/ /\ MayClaim(page[c])
        /\ states' = [states EXCEPT ![page[c]] = "validating"]
        /\ Goto(c, "validate")
     \/ /\ ~MayClaim(page[c])
        /\ Goto(c, "load")
        /\ UNCHANGED states
  /\ UNCHANGED <<errors, calls, panics>>

\* validate() returns.
Validate(c) ==
  /\ phase[c] = "validate"
  /\ Goto(c, IF page[c] \in Corrupt THEN "record" ELSE "publish_valid")
  /\ UNCHANGED <<states, errors, calls, panics>>

\* validate() panics: the claim is dropped while the caller unwinds.
Panic(c) ==
  /\ phase[c] = "validate"
  /\ panics < MaxPanics
  /\ panics' = panics + 1
  /\ Goto(c, "unwind")
  /\ UNCHANGED <<states, errors, calls>>

\* Faulty variant of Remembered: the error is not entered in the map.
RememberedNowhere(p) == errors

\* The error map once the error of p has been entered.
Remembered(p) == errors \cup {p}

Record(c) ==
  /\ phase[c] = "record"
  /\ errors' = Remembered(page[c])
  /\ Goto(c, "publish_invalid")
  /\ UNCHANGED <<states, calls, panics>>

\* Faulty variant of Woken: nobody is notified.
WokenNone == phase

\* notify_all: every sleeper, whatever its page, checks its condition again.
Woken == [c \in Callers |-> IF phase[c] = "asleep" THEN "lock" ELSE phase[c]]

\* Faulty variant of Verdict: a dropped claim stores a code of its own.
VerdictOfPanic(p) == CASE p = "publish_valid"   -> "valid"
                       [] p = "publish_invalid" -> "invalid"
                       [] p = "unwind"          -> "unwound"

\* Faulty variant of Verdict: a dropped claim leaves the state as it was.
VerdictKeepsClaim(p) == CASE p = "publish_valid"   -> "valid"
                          [] p = "publish_invalid" -> "invalid"
                          [] p = "unwind"          -> "validating"

\* The state a claim stores at the end of each path.
Verdict(p) == CASE p = "publish_valid"   -> "valid"
                [] p = "publish_invalid" -> "invalid"
                [] p = "unwind"          -> "unvalidated"

\* Under the wait lock, the claim stores the state and notifies.
Release(c) ==
  /\ phase[c] \in {"publish_valid", "publish_invalid", "unwind"}
  /\ states' = [states EXCEPT ![page[c]] = Verdict(phase[c])]
  /\ phase'  = [Woken EXCEPT ![c] = "idle"]
  /\ result' = [result EXCEPT ![c] = CASE phase[c] = "publish_valid"   -> "ok"
                                       [] phase[c] = "publish_invalid" -> "page_error"
                                       [] phase[c] = "unwind"          -> "panic"]
  /\ UNCHANGED <<errors, page, calls, panics>>

\* wait_while, under the wait lock: the state is loaded again.
Wait(c) ==
  /\ phase[c] = "lock"
  /\ Goto(c, IF states[page[c]] = "validating" THEN "asleep" ELSE "load")
  /\ UNCHANGED <<states, errors, calls, panics>>

SpuriousWakeup(c) ==
  /\ phase[c] = "asleep"
  /\ Goto(c, "lock")
  /\ UNCHANGED <<states, errors, calls, panics>>

\* The cached error of an invalid page, or a generic one when there is none.
Fetch(c) ==
  /\ phase[c] = "fetch"
  /\ Return(c, IF page[c] \in errors THEN "page_error" ELSE "generic_error")
  /\ UNCHANGED <<states, errors, calls, panics>>

-----------------------------------------------------------------------------

Init ==
  /\ states = [p \in Pages |-> "unvalidated"]
  /\ errors = {}
  /\ phase  = [c \in Callers |-> "idle"]
  /\ page   = [c \in Callers |-> NumPages]
  /\ result = [c \in Callers |-> "none"]
  /\ calls  = [c \in Callers |-> 0]
  /\ panics = 0

Step(c) ==
  \/ Load(c)
  \/ Exchange(c)
  \/ Validate(c)
  \/ Record(c)
  \/ Release(c)
  \/ Wait(c)
  \/ Fetch(c)

Next == \E c \in Callers : Call(c) \/ Step(c) \/ Panic(c) \/ SpuriousWakeup(c)

Spec == Init /\ [][Next]_vars

\* A caller inside get_or_validate keeps running: validate() reads bytes that are
\* in memory, and the locks are held for finite critical sections.
FairSpec == Spec /\ \A c \in Callers : WF_vars(Step(c))

-----------------------------------------------------------------------------
(* Properties. *)

\* The variables have the types of the fields they model.
TypeOK ==
  /\ states \in [Pages -> States]
  /\ errors \in SUBSET Pages
  /\ phase  \in [Callers -> Phases]
  /\ page   \in [Callers -> Indices]
  /\ result \in [Callers -> Results]
  /\ calls  \in [Callers -> Nat]
  /\ panics \in Nat

Claiming == {"validate", "record", "publish_valid", "publish_invalid", "unwind"}

\* A page is in the state validating exactly while one caller holds the claim: a
\* page is never validated twice at a time, and no claim is forgotten.
OneClaim ==
  \A p \in Pages :
    LET holders == { c \in Callers : page[c] = p /\ phase[c] \in Claiming }
    IN  /\ states[p] = "validating" <=> holders # {}
        /\ \A c, d \in holders : c = d

\* Whatever a caller is told about a page is the truth about its bytes: a rejected
\* page is never accepted, by any caller, and reports its own error.
VerdictSound ==
  \A c \in Callers :
    /\ result[c] = "ok"         => page[c] \in Pages \ Corrupt
    /\ result[c] = "page_error" => page[c] \in Corrupt
    /\ result[c] # "generic_error"

\* A verdict is final: no later call, panic or race takes it back, so the state of
\* a page moves between unvalidated and validating until it gets its verdict.
VerdictFinal ==
  [][\A p \in Pages : states[p] \in {"valid", "invalid"} => states'[p] = states[p]]_vars

\* A sleeper sleeps for a page that is still being validated.
SleepsOnClaim ==
  \A c \in Callers : phase[c] = "asleep" => states[page[c]] = "validating"

=============================================================================

---------------------------- MODULE MCReaderCalls ----------------------------
(***************************************************************************)
(* The calls of a reader, one after the other: the query entry points of a *)
(* DiskANN reader ("batch"), and the facade over the five families, from   *)
(* the writer's configuration to the answers of its reader ("facade").  A  *)
(* behaviour is one of the two; the variables of the other stay unset.     *)
(***************************************************************************)
EXTENDS DiskAnnBatch

CONSTANTS Unset, Auto, Malformed, VectorsPerList, ListFraction, MinNprobe,
          CandidatesPerResult, RotationBlock, MaxRows, MaxRounds

VARIABLES part, writer, file, reader, tuned, asked

-----------------------------------------------------------------------------
(* The instances. *)

\* Filters of the DiskANN reader: none, one that matches nothing, a narrow one and one
\* that matches every vector, the only one the graph strategy accepts.
MCFilters == {None, 0, 10, VectorCount}

MCConfig(type, metric, nlist, m, bits) ==
  [type |-> type, metric |-> metric, dimension |-> 4, nlist |-> nlist, m |-> m, bits |-> bits]

\* One configuration of each family.
MCConfigs ==
  {MCConfig("ivf_flat", "l2", 3, 0, 0), MCConfig("ivf_sq", "cosine", 1, 0, 0),
   MCConfig("ivf_pq", "inner_product", 3, 2, 4), MCConfig("ivf_rq", "l2", 3, 0, 5),
   MCConfig("diskann", "inner_product", 9, 2, 4)}

MCParams ==
  {[topK |-> k, mode |-> width[1], width |-> width[2], factor |-> factor] :
     k \in {0, 1, 150}, factor \in {Unset, 0, 2},
     width \in {<<"Auto", 0>>, <<"IvfNProbe", 0>>, <<"IvfNProbe", 2>>,
                <<"DiskAnnLSearch", 0>>, <<"DiskAnnLSearch", 120>>}}

\* Requests of the facade, wrong in none, one or more ways.
MCRequests ==
  {[batch |-> batch, wellFormed |-> TRUE, count |-> 1, filter |-> filter, params |-> p] :
     batch \in BOOLEAN, filter \in {Unset, Malformed, 0, 2}, p \in MCParams}
  \union
  {[batch |-> TRUE, wellFormed |-> formed, count |-> n, filter |-> filter, params |-> p] :
     formed \in BOOLEAN, n \in {0, 2}, filter \in {Unset, Malformed},
     p \in {p \in MCParams : p.topK = 1 /\ p.factor = Unset}}

MCRangeCalls ==
  [wellFormed : BOOLEAN, count : {0, 1, 2}, nprobe : {0, 2}, metric : {"l2", "cosine", "inner_product"},
   empty : BOOLEAN, filter : {Unset, Malformed, 1}]

-----------------------------------------------------------------------------

Facade == INSTANCE IndexFacade WITH
            call <- asked, Configs <- MCConfigs, Requests <- MCRequests, RangeCalls <- MCRangeCalls

facadeVars == <<writer, file, reader, tuned, asked>>
allVars    == <<part, vars, facadeVars>>

PartsInit ==
  \/ /\ part = "batch" /\ Init
     /\ writer = 0 /\ file = 0 /\ reader = 0 /\ tuned = 0 /\ asked = 0
  \/ /\ part = "facade" /\ Facade!Init
     /\ self = 0 /\ workers = 0 /\ job = 0 /\ call = 0 /\ reply = 0 /\ calls = 0

PartsNext ==
  \/ part = "batch" /\ Next /\ UNCHANGED <<part, facadeVars>>
  \/ part = "facade" /\ Facade!Next /\ UNCHANGED <<part, vars>>

PartsSpec == PartsInit /\ [][PartsNext]_allVars

-----------------------------------------------------------------------------
(* What the run checks. *)

\* A batch answers every query once, in the caller's order, with the strategy the
\* reader's current state calls for, and its statistics count each query once, on every
\* path (serial, sessions, chunks, exhaustive); a warm-up leaves the statistics, and a
\* calibration sets its width on the reader and every retained worker or not at all.
BatchesAreExact ==
  part = "batch" =>
    /\ AnswersInCallerOrder /\ OneStrategyPerBatch /\ StatsCountEachQueryOnce
    /\ WarmupKeepsStats /\ CalibrationAllOrNothing

\* The facade answers for its families: a caller's mistake is reported before what a
\* family does not support, supports_range_search tells the truth, the statistics of an
\* IVF-RQ batch cover its rounds, the last calibration that succeeded governs, the
\* metadata is the configuration's, and a foreign file is named as such.
FacadeIsHonest ==
  part = "facade" =>
    /\ Facade!CallerBugsComeFirst /\ Facade!CapabilityIsHonest /\ Facade!StatsCoverTheCall
    /\ Facade!CalibrationGoverns /\ Facade!MetadataAgreesWithConfig /\ Facade!OpenNamesTheMagic

\* A call of the facade that is refused, however late, leaves the reader as it met it; no
\* call but a top-K search and a calibration that fails changes the statistics, and none
\* but a calibration that succeeds changes the width of the automatic searches.
RefusedLeavesNoTrace ==
  part = "facade" =>
    Facade!RefusalIsClean /\ Facade!OnlyTopKCounts /\ Facade!OnlyCalibrationTunes
=============================================================================

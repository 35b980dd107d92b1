------------------------------- MODULE MCFiles -------------------------------
(***************************************************************************)
(* The files of every index family: what is written is what is read.  The  *)
(* writer of a DiskANN file is a machine; the other parts are functions,   *)
(* and a behaviour is one call of one of them: `call` is its input and     *)
(* `result` what it returns, where the call itself does not say it.        *)
(***************************************************************************)
EXTENDS Integers, Sequences, SequencesExt, FiniteSetsExt

CONSTANTS
  None,
  FormatPage, ByteBits, RawSize, BlockNodes, MaxRelative,        \* the DiskANN format
  PageSize, HeaderSize, SectionHeader, BufferSize, MaxDegree, Shapes,   \* its writer
  GroupBits, IdBits, I64Bytes, I32Bytes, F32Bytes, HeaderBytes, MaxBatchBytes, StreamSlack,
  ListBatch,                                                     \* MaxBatchBytes of the lists
  ByteChoices, BufferLen, LenChoices, MaxLists, RowChoices,
  MidIds, MaxMid, Metrics, PackedKsub, WideKsub

VARIABLES call, result, done, shape, out, buffer, pc, status

Disk == INSTANCE DiskAnnFormat WITH PageSize <- FormatPage, IdBits <- 6
Writer == INSTANCE DiskAnnFormat
Lists == INSTANCE IvfLists WITH MaxBatchBytes <- ListBatch

\* One configuration of each family, and of IVF-PQ and IVF-RQ a second one with the
\* other width of codes.
Flat == INSTANCE IvfFormats WITH Dim <- 5, M <- 1, Ksub <- WideKsub,
          RotationBlock <- 8, Bits <- 1, Rounds <- 4, BlockSize <- 2
Pq == INSTANCE IvfFormats WITH Dim <- 4, M <- 4, Ksub <- WideKsub,
          RotationBlock <- 8, Bits <- 1, Rounds <- 4, BlockSize <- 2
Pq4 == INSTANCE IvfFormats WITH Dim <- 6, M <- 6, Ksub <- PackedKsub,
          RotationBlock <- 8, Bits <- 1, Rounds <- 4, BlockSize <- 2
Sq == INSTANCE IvfFormats WITH Dim <- 4, M <- 1, Ksub <- WideKsub,
          RotationBlock <- 8, Bits <- 1, Rounds <- 4, BlockSize <- 2
Rq == INSTANCE IvfFormats WITH Dim <- 9, M <- 1, Ksub <- WideKsub,
          RotationBlock <- 8, Bits <- 2, Rounds <- 4, BlockSize <- 2
Rq1 == INSTANCE IvfFormats WITH Dim <- 3, M <- 1, Ksub <- WideKsub,
          RotationBlock <- 8, Bits <- 1, Rounds <- 4, BlockSize <- 2

writerVars == <<shape, out, buffer, pc, status>>
allVars == <<call, result, done, writerVars>>

Returned(fn) == call.fn = fn /\ done

-----------------------------------------------------------------------------
(* The DiskANN format: small graphs whose lists need both encodings and several *)
(* pages, pages with two bytes overwritten, all short lists of row IDs, and all  *)
(* candidate orders of them.                                                     *)

Graph3 == {{0, 1}, {1, 2}, {0, 1, 2}}
Graph5 == {{0}, {1, 3}, {2, 4}, 0..4}

SortedSeq(S) == SetToSortSeq(S, LAMBDA a, b : a < b)

\* Every node of a built graph with two nodes or more has a neighbour.
GraphsOf(n, choices) ==
  {[k \in 1..n |-> SortedSeq(g[k] \ {k - 1})] :
     g \in {h \in [1..n -> choices] : \A k \in 1..n : h[k] \ {k - 1} # {}}}

Graphs == {<< <<>> >>} \cup GraphsOf(2, {{0, 1}}) \cup GraphsOf(3, Graph3) \cup GraphsOf(5, Graph5)

VectorOf(k, prefix) == [b \in 1..prefix |-> (k + b) % 3]

\* Row IDs of six bits: spans of every width up to the full one.
SixBitIds == {-32, -9, -2, -1, 0, 5, 18, 31}

PageCalls ==
  [fn : {"graph"}, graph : Graphs, prefix : 0..2]
  \cup [fn : {"page"}, graph : GraphsOf(2, {{0, 1}}) \cup GraphsOf(3, Graph3), prefix : 0..1, page : 0..1,
        position : 1..(FormatPage - 1), bytes : (0..(Disk!Byte - 1)) \X (0..(Disk!Byte - 1))]
  \cup [fn : {"ids"}, ids : BoundedSeq(SixBitIds, 3) \ {<<>>}]
  \cup [fn : {"order"}, ids : BoundedSeq(0..2, 3) \ {<<>>}, order : BoundedSeq(0..3, 3)]

Header(layout, graph, prefix) ==
  [count |-> Len(graph), maxDegree |-> 4, prefix |-> prefix, pages |-> layout.pages]

WrittenPage(graph, prefix, layout, page) ==
  Disk!WritePage(graph, [k \in DOMAIN graph |-> VectorOf(k, prefix)], layout.locators, page)

\* What the reader makes of a file.
ReadGraph(header, index, pages) ==
  IF /\ Disk!ValidateAdjacencyIndex(header, index)
     /\ \A p \in DOMAIN pages : Disk!ValidatePage(header, index, p, pages[p])
  THEN [status |-> "read", graph |->
          [k \in 1..header.count |->
             LET at == Disk!Locator(index, k)
             IN  Disk!DecodeList(SubSeq(pages[at.page], at.offset + 1, FormatPage), at.degree, at.encoding).list]]
  ELSE [status |-> "refused", graph |-> <<>>]

\* The graph of call c through a file of that layout.
ThroughPages(c, layout, index, pages) ==
  IF index = None \/ \E p \in DOMAIN pages : pages[p] = None THEN [status |-> "unwritten", graph |-> <<>>]
  ELSE ReadGraph(Header(layout, c.graph, c.prefix), index, pages)
ThroughFile(c, layout) ==
  IF layout = None THEN [status |-> "unplanned", graph |-> <<>>]
  ELSE ThroughPages(c, layout, Disk!WriteAdjacencyIndex(layout.locators),
                    [p \in 0..(layout.pages - 1) |-> WrittenPage(c.graph, c.prefix, layout, p)])

\* One page of call c with two of its bytes replaced, and what the reader says of it.
PageVerdict(c, layout, page) ==
  [bytes |-> page,
   accepted |-> Disk!ValidatePage(Header(layout, c.graph, c.prefix),
                                  Disk!WriteAdjacencyIndex(layout.locators), c.page, page)]
ReplacedPage(c, layout) ==
  IF layout = None \/ c.page >= layout.pages THEN [bytes |-> <<>>, accepted |-> FALSE]
  ELSE PageVerdict(c, layout, [WrittenPage(c.graph, c.prefix, layout, c.page) EXCEPT
                                 ![c.position] = c.bytes[1], ![c.position + 1] = c.bytes[2]])

IdsThrough(c, storage) ==
  IF Disk!ValidRowIdHeader(storage, Len(c.ids)) /\ Disk!ValidRowIds(storage)
  THEN [node \in DOMAIN c.ids |-> Disk!RowIdAt(storage, node - 1)] ELSE None

Computed(c) ==
  CASE c.fn = "graph" -> ThroughFile(c, Disk!PlanLayout(c.graph, c.prefix))
    [] c.fn = "page" -> ReplacedPage(c, Disk!PlanLayout(c.graph, c.prefix))
    [] c.fn = "ids" -> IdsThrough(c, Disk!EncodeRowIds(c.ids))
    [] c.fn = "order" -> [accepted |-> Disk!ValidOrder(c.ids, c.order)]

-----------------------------------------------------------------------------
(* The DiskANN writer: both layouts, both code widths, an odd number of          *)
(* subquantizers, a row-ID section without payload, and shapes that are refused. *)

MCShapes ==
  [d : {1, 3}, count : {1, 3}, entry : {0, 2}, m : {1, 3}, bits : {4, 8}, degree : {2}, list : {2},
   layout : {"Compact", "Interleaved"}, elem : {2}, rowIds : {8, 9}, pages : {1, 2}]

-----------------------------------------------------------------------------
(* Inverted lists. *)

\* The ends of the range, and IDs around zero.
IdChoices == {-(2 ^ (IdBits - 1)), -5, -1, 0, 1, 6, 2 ^ (IdBits - 1) - 1}

\* Row IDs in the order a writer sorts them.
SortedIds == {s \in BoundedSeq(IdChoices, 3) : \A i \in 1..(Len(s) - 1) : s[i] <= s[i + 1]}

ListCalls ==
  [fn : {"varints"}, ids : SortedIds]
    \cup [fn : {"decode"}, base : IdChoices, buf : BoundedSeq(ByteChoices, BufferLen), count : 0..2]
    \cup [fn : {"batch"}, lens : BoundedSeq(LenChoices, MaxLists), ranges : 0..2]
    \cup [fn : {"stream"}, count : 1..8, row : RowChoices, align : {1, 2, 4}]
    \cup [fn : {"aligned"}, len : 0..20, start : 0..20, align : {4, 16}]

-----------------------------------------------------------------------------
(* The IVF files. *)

Formats == {"flat", "pq", "pq4", "sq", "rq", "rq1"}

\* Three lists; the middle one has any IDs, in any order, repeated ones included.
IdLists == {<<a, b, c>> : a \in {<<>>, <<1, -2>>}, b \in BoundedSeq(MidIds \cup {-3}, MaxMid), c \in {<<>>, <<3>>}}

\* Row p of list l carries the code 10 * l + p.
Rows(ids) == [l \in DOMAIN ids |-> [p \in DOMAIN ids[l] |-> [id |-> ids[l][p], code |-> 10 * l + p]]]

Counted(base, n) == [i \in 1..n |-> base + i]

IndexOf(format, ids) ==
  CASE format = "flat" -> [metric |-> 0, centroids |-> Counted(200, 15), lists |-> Rows(ids)]
    [] format \in {"pq", "pq4"} ->
         [metric |-> 0, opq |-> format = "pq", residual |-> TRUE,
          rotation |-> Counted(100, 16), centroids |-> Counted(200, IF format = "pq" THEN 12 ELSE 18),
          pqCentroids |-> Counted(400, IF format = "pq" THEN 4 * WideKsub ELSE 6 * PackedKsub), lists |-> Rows(ids)]
    [] format = "sq" ->
         [metric |-> 0, bounds |-> <<<<2, 1, 3, 2>>, <<5, 6, 4, 3>>>>,
          listBounds |-> [l \in 1..3 |-> <<<<l, l, l, 0>>, <<l, l + 1, l + 2, l>>>>],
          centroids |-> Counted(200, 12), lists |-> Rows(ids)]
    [] format = "rq" -> [metric |-> 0, seed |-> 7, centroids |-> Counted(200, 27), lists |-> Rows(ids)]
    [] OTHER -> [metric |-> 0, seed |-> 7, centroids |-> Counted(200, 9), lists |-> Rows(ids)]

Written(format, ids) ==
  CASE format = "flat" -> Flat!WriteIvfFlatIndex(IndexOf(format, ids))
    [] format = "pq" -> Pq!WriteIvfPqIndex(IndexOf(format, ids))
    [] format = "pq4" -> Pq4!WriteIvfPqIndex(IndexOf(format, ids))
    [] format = "sq" -> Sq!WriteIvfSqIndex(IndexOf(format, ids))
    [] format = "rq" -> Rq!WriteIvfRqIndex(IndexOf(format, ids))
    [] OTHER -> Rq1!WriteIvfRqIndex(IndexOf(format, ids))

\* open and ensure_loaded together
Load(format, file) ==
  LET opened == CASE format = "flat" -> Flat!FlatOpenWithHeader(file.header)
                  [] format = "pq" -> Pq!PqOpenWithHeader(file.header)
                  [] format = "pq4" -> Pq4!PqOpenWithHeader(file.header)
                  [] format = "sq" -> Sq!SqHeaderOk(file.header)
                  [] OTHER -> Rq!RqOpenWithHeader(file.header)
  IN  IF ~opened THEN [ok |-> FALSE]
      ELSE CASE format = "flat" -> Flat!FlatEnsureLoaded(file)
             [] format = "pq" -> Pq!PqEnsureLoaded(file)
             [] format = "pq4" -> Pq4!PqEnsureLoaded(file)
             [] format = "sq" -> Sq!SqOpenWithHeader(file)
             [] OTHER -> Rq!RqEnsureLoaded(file)

\* Values that no writer puts in a field of the header.
WrongValues(header, field) ==
  CASE field \in {"magic"} -> {"other"}
    [] field \in {"d", "nlist"} -> {0, -1}
    [] field = "flags" -> {{}, header.flags \cup {"unknown"}, header.flags \ {"delta"}}
    [] field = "total" -> {-1, header.total + 1}
    [] field = "metric" -> {99}
    [] field = "bits" -> {0, 9}
    [] field = "summary" -> {<<header.summary[1] + 1, header.summary[2]>>}
    [] OTHER -> {0, header[field] + 1} \ {header[field]}

FormatCalls ==
  [fn : {"read"}, format : Formats, ids : IdLists]
    \cup UNION {UNION {{[fn |-> "header", format |-> f, field |-> x, value |-> v] :
                           v \in WrongValues(Written(f, <<<<1>>, <<2, 3>>, <<>>>>).header, x)} :
                        x \in DOMAIN Written(f, <<<<1>>, <<2, 3>>, <<>>>>).header \ {"seed"}} : f \in Formats}

-----------------------------------------------------------------------------

Idle == shape = 0 /\ out = 0 /\ buffer = 0 /\ pc = 0 /\ status = 0

PartsInit ==
  /\ result = <<>> /\ done = FALSE
  /\ \/ Writer!Init /\ call = [fn |-> "write"]
     \/ Idle /\ call \in PageCalls
     \/ Idle /\ call \in ListCalls
     \/ Idle /\ call \in FormatCalls

\* A file and what a reader that opens it holds.
Opened(format, file) == [file |-> file, loaded |-> Load(format, file)]

\* A function of the format returns.
Evaluate ==
  /\ call.fn # "write" /\ ~done /\ done' = TRUE
  /\ result' = CASE call.fn \in {"graph", "page", "ids", "order"} -> Computed(call)
                 [] call.fn = "read" -> Opened(call.format, Written(call.format, call.ids))
                 [] OTHER -> result
  /\ UNCHANGED <<call, writerVars>>

PartsNext == Evaluate \/ (call.fn = "write" /\ Writer!Next /\ UNCHANGED <<call, result, done>>)

PartsSpec == PartsInit /\ [][PartsNext]_allVars

-----------------------------------------------------------------------------
(* DiskANN pages. *)

\* Whatever graph the builder hands over, the file that is planned and written is
\* accepted by every check of the reader, and the reader finds at each node's
\* locator exactly that node's neighbours (plan_adjacency_layout,
\* write_adjacency_pages, write_adjacency_index against decode_adjacency_index
\* and validate_adjacency_page_payload).
WrittenGraphReadsBack == 
  Returned("graph") => result.status = "unplanned" \/ result = [status |-> "read", graph |-> call.graph]

\* A planned record never exceeds its page, so planning fails only for a list that
\* no page can hold (plan_adjacency_layout).
OnlyOversizedListsAreRefused ==
  Returned("graph") /\ result.status = "unplanned" =>
    \E k \in DOMAIN call.graph : call.prefix + Disk!PlanList(call.graph[k]).len > FormatPage

\* A page the reader accepts is byte for byte the page the writer would have
\* written for the lists it decodes from it: no overlong varint, no second
\* encoding of a list and no stray byte goes unnoticed
\* (validate_adjacency_page_payload, read_u32_varint).
AcceptedPagesAreCanonical ==
  Returned("page") /\ result.accepted =>
    \E locators \in {Disk!PlanLayout(call.graph, call.prefix).locators} :
    LET list(k) == IF locators[k].page # call.page THEN call.graph[k]
                   ELSE Disk!DecodeList(SubSeq(result.bytes, locators[k].offset + 1, FormatPage),
                                   locators[k].degree, locators[k].encoding).list
        vector(k) == IF locators[k].page # call.page THEN <<>>
                     ELSE SubSeq(result.bytes, locators[k].offset - call.prefix + 1, locators[k].offset)
    IN  result.bytes = Disk!WritePage([k \in DOMAIN call.graph |-> list(k)],
                                 [k \in DOMAIN call.graph |-> vector(k)], locators, call.page)

\* Row IDs of any sign and span come back from the packed section at every node,
\* also when a value straddles three bytes and when the span needs all the bits
\* of a row ID (RowIdStorage::encode_from_fn, get).
RowIdsReadBack == Returned("ids") => result = call.ids

\* The only order the reader accepts for given row IDs is the one the writer
\* stores; in particular every node appears in it exactly once
\* (validate_row_id_order against write_diskann_index_with_stats).
OnlyTheWrittenOrderIsAccepted ==
  Returned("order") => (result.accepted <=> call.order = Disk!WrittenOrder(call.ids))

-----------------------------------------------------------------------------
(* Inverted lists. *)

\* encode_delta_varint_ids and decode_delta_varint_ids: any sorted IDs, negative,
\* repeated or a full range apart, are read back as they were written.
IdsReadBack ==
  Returned("varints") /\ call.ids # <<>> =>
    Lists!DecodeDeltaVarintIds(call.ids[1], Lists!EncodeDeltaVarintIds(call.ids), Len(call.ids))
      = [ok |-> TRUE, ids |-> call.ids]

\* decode_delta_varint_ids on bytes from a file.  What either decoder accepts is as many
\* IDs as counted, sorted from the base on, that are read back when they are written again.
\* The bytes need not be the writer's: overlong varints and a first ID beyond the base
\* are accepted, but only what the writer stores is as short.  The shared decoder uses
\* every byte; that of IVF-FLAT takes what the shared one takes of some prefix.
AcceptedIdsAreWellFormed ==
  Returned("decode") =>
    LET decode(buf) == Lists!DecodeDeltaVarintIds(call.base, buf, call.count)
        whole == decode(call.buf)
        flat == Flat!FlatDecodeIds(call.base, call.buf, call.count)
        again == Lists!EncodeDeltaVarintIds(flat.ids)
        canonical == Tail(Lists!EncodeDeltaVarintIds(<<call.base>> \o flat.ids))
    IN  /\ flat.ok =>
             /\ Len(flat.ids) = call.count
             /\ \A i \in DOMAIN flat.ids : flat.ids[i] >= (IF i = 1 THEN call.base ELSE flat.ids[i - 1])
             /\ flat.ids # <<>> => Lists!DecodeDeltaVarintIds(flat.ids[1], again, call.count) = flat
             /\ \E n \in 0..Len(call.buf) : decode(SubSeq(call.buf, 1, n)) = flat
        /\ whole.ok =>
             /\ whole = flat
             /\ \A extra \in ByteChoices : ~decode(Append(call.buf, extra)).ok
             /\ Len(canonical) < Len(call.buf) \/ canonical = call.buf

\* bounded_ivf_payload_batch_end: the longest non-empty prefix of lists within
\* the bytes and the ranges, however the lists without rows are spread.
BatchIsLongestFitting ==
  Returned("batch") =>
    LET end == Lists!BatchEnd(call.lens, call.ranges)
        nonEmpty(n) == Cardinality({i \in 1..n : call.lens[i] # 0})
        fits(n) == Lists!SumOf(SubSeq(call.lens, 1, n)) <= ListBatch
                     /\ nonEmpty(n) <= Lists!RangeLimit(call.ranges, call.lens)
    IN  /\ call.lens # <<>> => end >= 1
        /\ end > 1 => fits(end)
        /\ end < Len(call.lens) => ~fits(end + 1)

\* pread_batched_slices: each payload is requested once, in order, and a pread
\* exceeds the bound only with a single payload.
PreadsCoverPayloadsOnce ==
  Returned("batch") =>
    LET preads == Lists!PreadBatches(call.lens, call.ranges)
    IN  /\ \A i \in DOMAIN preads :
             /\ preads[i][1] = (IF i = 1 THEN 0 ELSE preads[i - 1][2])
             /\ preads[i][2] > preads[i][1]
             /\ preads[i][2] - preads[i][1] <= Lists!RangeLimit(call.ranges, call.lens)
             /\ preads[i][2] - preads[i][1] > 1 =>
                  Lists!SumOf(SubSeq(call.lens, preads[i][1] + 1, preads[i][2])) <= ListBatch
        /\ call.lens # <<>> => Last(preads)[2] = Len(call.lens)

\* for_each_streamed_list_chunk: the chunks cover a list's rows once and in order,
\* the codes of a chunk and the retained IDs stay within the bound, and only the
\* last chunk ends inside a block.
ChunksCoverRowsOnce ==
  Returned("stream") =>
    LET chunks == Lists!StreamChunks(call.count, call.row, call.align)
        failed == Last(chunks).rows = 0
    IN  \A i \in DOMAIN chunks :
          /\ chunks[i].first = (IF i = 1 THEN 0 ELSE chunks[i - 1].first + chunks[i - 1].rows)
          /\ chunks[i].rows > 0 => chunks[i].rows * call.row + call.count * I64Bytes <= ListBatch
          /\ i < Len(chunks) => chunks[i].rows % call.align = 0
          /\ ~failed /\ i = Len(chunks) => chunks[i].first + chunks[i].rows = call.count

\* AlignedFlatPayload, AlignedCodePayload: the suffix starts on an aligned address
\* and the payload ends inside the storage, for every prefix length.
SuffixIsAligned ==
  Returned("aligned") /\ call.start <= call.len =>
    LET a == Lists!AlignedPayload(call.len, call.start, call.align)
    IN  /\ (a.readStart + call.start) % call.align = 0
        /\ a.readStart + call.len <= a.words * call.align
        /\ a.words * call.align < call.len + 2 * call.align

-----------------------------------------------------------------------------
(* IVF files. *)

Reading(formats) == Returned("read") /\ call.format \in formats

\* What a search should find in list l: its rows by ID, each with its own code.
Wanted(l, width) ==
  LET sorted == Flat!SortedRows(Rows(call.ids)[l])
  IN  [i \in DOMAIN sorted |-> [id |-> sorted[i].id, cells |-> [c \in 1..width |-> <<sorted[i].code, c>>]]]

\* IVF-FLAT: a file that was written loads with its centroids, and each list read
\* whole or streamed gives its rows in ID order, every vector with its own ID.
FlatReadsBack ==
  Reading({"flat"}) =>
    LET file == result.file
        loaded == result.loaded
    IN  /\ loaded.ok /\ loaded.centroids = IndexOf("flat", call.ids).centroids
        /\ \A l \in DOMAIN call.ids :
             \E whole \in {Flat!FlatReadInvertedList(file, loaded.table, l)} :
             \E streamed \in {Flat!FlatStreamList(file, loaded.table, l)} :
               /\ whole.ok /\ Flat!FlatRowsOf(whole.ids, whole.codes) = Wanted(l, 5)
               /\ call.ids[l] # <<>> =>
                    /\ streamed.ok
                    /\ FlattenSeq([i \in DOMAIN streamed.chunks |->
                         Flat!FlatRowsOf(streamed.chunks[i].ids, streamed.chunks[i].codes)]) = Wanted(l, 5)

\* IVF-PQ: the same with and without a rotation, for one-byte and for packed
\* codes: the columns a chunk gathers belong to the rows whose IDs it carries.
PqReadsBack ==
  /\ Reading({"pq"}) =>
       LET file == result.file
           loaded == result.loaded
       IN  /\ loaded.ok /\ loaded.rotation = IndexOf("pq", call.ids).rotation
           /\ loaded.centroids = IndexOf("pq", call.ids).centroids
           /\ loaded.pqCentroids = IndexOf("pq", call.ids).pqCentroids
           /\ \A l \in DOMAIN call.ids :
                \E whole \in {Pq!PqReadInvertedList(file, loaded.table, l)} :
                \E streamed \in {Pq!PqStreamList(file, loaded.table, l)} :
                  /\ whole.ok /\ Pq!PqRowsOf(whole.ids, whole.codes) = Wanted(l, 4)
                  /\ call.ids[l] # <<>> =>
                       /\ streamed.ok
                       /\ FlattenSeq([i \in DOMAIN streamed.chunks |->
                            Pq!PqRowsOf(streamed.chunks[i].ids, streamed.chunks[i].codes)]) = Wanted(l, 4)
  /\ Reading({"pq4"}) =>
       LET file == result.file
           loaded == result.loaded
       IN  /\ loaded.ok /\ loaded.centroids = IndexOf("pq4", call.ids).centroids
           /\ \A l \in DOMAIN call.ids :
                \E whole \in {Pq4!PqReadInvertedList(file, loaded.table, l)} :
                  whole.ok /\ Pq4!PqRowsOf(whole.ids, whole.codes) = Wanted(l, 3)

\* IVF-SQ: bounds, centroids and lists are read back, and a streamed chunk, whose
\* blocks are counted from its own first row, shows the same codes as the list.
SqReadsBack ==
  Reading({"sq"}) =>
    LET file == result.file
        loaded == result.loaded
    IN  /\ loaded.ok /\ loaded.bounds = IndexOf("sq", call.ids).bounds
        /\ loaded.listBounds = IndexOf("sq", call.ids).listBounds
        /\ loaded.centroids = IndexOf("sq", call.ids).centroids
        /\ \A l \in DOMAIN call.ids :
             \E whole \in {Sq!SqReadInvertedList(file, loaded.table, l)} :
             \E streamed \in {Sq!SqStreamList(file, loaded.table, l)} :
               /\ whole.ok /\ Sq!SqRowsOf(whole.ids, whole.codes) = Wanted(l, 4)
               /\ call.ids[l] # <<>> =>
                    /\ streamed.ok
                    /\ FlattenSeq([i \in DOMAIN streamed.chunks |->
                         Sq!SqRowsOf(streamed.chunks[i].ids, streamed.chunks[i].codes)]) = Wanted(l, 4)

\* IVF-RQ: codes and factors of a row are found at its lane of its block, the last
\* block being narrower, for one bit and for several.
RqReadsBack ==
  /\ Reading({"rq"}) =>
       LET file == result.file
           loaded == result.loaded
       IN  /\ loaded.ok /\ loaded.centroids = IndexOf("rq", call.ids).centroids
           /\ \A l \in DOMAIN call.ids :
                \E list \in {Rq!RqReadInvertedList(file, loaded.table, l)} :
                LET sorted == Flat!SortedRows(Rows(call.ids)[l])
                IN  list.ok /\ Rq!RqRowsOf(list)
                      = [i \in DOMAIN sorted |-> [id |-> sorted[i].id, cells |-> Wanted(l, 4)[i].cells,
                                                  factors |-> [f \in 1..5 |-> 1000 + 10 * sorted[i].code + f]]]
  /\ Reading({"rq1"}) =>
       LET file == result.file
           loaded == result.loaded
       IN  /\ loaded.ok
           /\ \A l \in DOMAIN call.ids :
                \E list \in {Rq1!RqReadInvertedList(file, loaded.table, l)} :
                    list.ok /\ [i \in DOMAIN list.ids |-> [id |-> list.ids[i], cells |-> Rq1!RqRowsOf(list)[i].cells]]
                                 = Wanted(l, 1)

\* open and ensure_loaded: a header field with a value no writer puts there is
\* refused before a list is read, in every format.
ForeignHeadersAreRefused ==
  Returned("header") =>
    \E file \in {Written(call.format, <<<<1>>, <<2, 3>>, <<>>>>)} :
        /\ Load(call.format, file).ok
        /\ ~Load(call.format, [file EXCEPT !.header[call.field] = call.value]).ok

-----------------------------------------------------------------------------
(* What the run checks. *)

\* Whatever an index holds, the file written from it is accepted by every check of its
\* reader and gives the same index back: graphs and row IDs of a DiskANN file, row IDs,
\* codes and factors of every IVF family, read whole or in chunks.
WrittenIsReadBack ==
  /\ WrittenGraphReadsBack /\ OnlyOversizedListsAreRefused /\ RowIdsReadBack
  /\ IdsReadBack /\ FlatReadsBack /\ PqReadsBack /\ SqReadsBack /\ RqReadsBack

\* What a reader accepts is sound: a DiskANN page or order is the one its writer would have
\* stored, the IDs of an inverted list are sorted, complete and read back, in whatever
\* encoding they came, and a header field with a foreign value is refused in every format.
AcceptedFilesAreSound ==
  /\ AcceptedPagesAreCanonical /\ OnlyTheWrittenOrderIsAccepted /\ AcceptedIdsAreWellFormed
  /\ ForeignHeadersAreRefused
  /\ call.fn = "write" => Writer!AcceptedHeadersAreSound

\* Wherever the writer of a DiskANN file stops, its output loads only if it is whole,
\* and then every section lies where the header, written first, says.
NoPartialFileLoads ==
  call.fn = "write" => Writer!TruncatedFileNeverLoads /\ Writer!SectionsLieWhereTheHeaderSays

\* The reads of inverted lists cover every payload and every row once and in order, in
\* pieces within the bounds, and place codes on aligned addresses.
ListReadsCoverOnce ==
  BatchIsLongestFitting /\ PreadsCoverPayloadsOnce /\ ChunksCoverRowsOnce /\ SuffixIsAligned
=============================================================================

---------------------------- MODULE DiskAnnFormat ----------------------------
(* The DiskANN file format (src/core/src/diskann_io.rs): how adjacency lists   *)
(* are encoded, packed into pages and located, how row IDs are bit-packed, how *)
(* the header lays the sections out, and everything the reader validates when  *)
(* it loads them.  The widths are scaled: a byte has ByteBits bits, a varint   *)
(* byte one payload bit less, a u32 RawSize bytes, a row ID IdBits bits, and a *)
(* u16 relative locator holds at most MaxRelative.  None stands for an error.  *)
(*                                                                             *)
(* After it, writing a file and opening what is on disk: the header that fixes *)
(* the place of the seven sections before any is written, the chunked writer   *)
(* between the sections and the output, padding, an output that may fail or    *)
(* stop at any byte, and the reads of a reader that opens the file.  There     *)
(* contents are extents: how many bytes of which section.                      *)
EXTENDS Integers, Sequences, SequencesExt, FiniteSetsExt

CONSTANTS PageSize, ByteBits, RawSize, IdBits, BlockNodes, MaxRelative, None

\* MaxRelative is at least BlockNodes * PageSize - 1, as u32::MAX is in the code.

Byte == 2^ByteBits
Payload == 2^(ByteBits - 1)
MaxU32 == Byte^RawSize
CeilDiv(a, b) == (a + b - 1) \div b
VarintMax == CeilDiv(ByteBits * RawSize, ByteBits - 1)
Delta == "DeltaVarint"
Raw == "RawU32"

------------------------------------------------------------------------------
(* Adjacency lists.                                                            *)

VarintLen(value) == CHOOSE k \in 1..VarintMax :
                      value < Payload^k /\ (k > 1 => value >= Payload^(k - 1))

AppendVarint(value) ==
  [i \in 1..VarintLen(value) |->
     ((value \div Payload^(i - 1)) % Payload) + (IF i < VarintLen(value) THEN Payload ELSE 0)]

\* Faulty variant of ReadVarint: an overlong varint is accepted.
ReadVarintOverlong(bytes, position) ==
  LET ends == {i \in 0..(VarintMax - 1) : position + i < Len(bytes) /\ bytes[position + i + 1] < Payload}
      n == Min(ends)
  IN  IF ends = {} THEN None
      ELSE [value |-> MapThenSumSet(LAMBDA i : (bytes[position + i + 1] % Payload) * Payload^i, 0..n),
            next |-> position + n + 1]

\* The reader's varint: at most VarintMax bytes, no bits beyond a u32 in the
\* last one, and no final zero byte after a continuation.
ReadVarint(bytes, position) ==
  LET ends == {i \in 0..(VarintMax - 1) : position + i < Len(bytes) /\ bytes[position + i + 1] < Payload}
      n == Min(ends)
      last == bytes[position + n + 1]
  IN  IF \/ ends = {}
         \/ n = VarintMax - 1 /\ last >= MaxU32 \div Payload^n
         \/ n > 0 /\ last = 0
      THEN None
      ELSE [value |-> MapThenSumSet(LAMBDA i : (bytes[position + i + 1] % Payload) * Payload^i, 0..n),
            next |-> position + n + 1]

Increasing(list) == \A i \in 2..Len(list) : list[i - 1] < list[i]
Deltas(list) == [i \in DOMAIN list |-> IF i = 1 THEN list[1] ELSE list[i] - list[i - 1]]

DeltaLen(list) == MapThenSumSet(LAMBDA i : VarintLen(Deltas(list)[i]), DOMAIN list)

MinimalEncoding(list) ==
  IF list = <<>> \/ DeltaLen(list) < Len(list) * RawSize THEN Delta ELSE Raw

PlanList(list) ==
  IF ~Increasing(list) THEN None
  ELSE [encoding |-> MinimalEncoding(list),
        len |-> IF MinimalEncoding(list) = Delta THEN DeltaLen(list) ELSE Len(list) * RawSize]

RawBytes(value) == [i \in 1..RawSize |-> (value \div Byte^(i - 1)) % Byte]

EncodeList(list) ==
  FlattenSeq(IF PlanList(list).encoding = Delta
             THEN [i \in DOMAIN list |-> AppendVarint(Deltas(list)[i])]
             ELSE [i \in DOMAIN list |-> RawBytes(list[i])])

DecodeDelta(bytes, degree) ==
  LET next(state, k) ==
        IF state = None THEN None
        ELSE LET read == ReadVarint(bytes, state.consumed)
                 previous == IF state.list = <<>> THEN 0 ELSE Last(state.list)
             IN  IF read = None THEN None
                 ELSE IF previous + read.value >= MaxU32 THEN None
                 ELSE [list |-> Append(state.list, previous + read.value), consumed |-> read.next]
  IN  FoldLeft(next, [list |-> <<>>, consumed |-> 0], [k \in 1..degree |-> k])

DecodeRaw(bytes, degree) ==
  IF Len(bytes) < degree * RawSize THEN None
  ELSE [list |-> [i \in 1..degree |->
                    MapThenSumSet(LAMBDA b : bytes[(i - 1) * RawSize + b] * Byte^(b - 1), 1..RawSize)],
        consumed |-> degree * RawSize]

DecodeList(bytes, degree, encoding) ==
  IF encoding = Delta THEN DecodeDelta(bytes, degree) ELSE DecodeRaw(bytes, degree)

------------------------------------------------------------------------------
(* Pages and locators.  A graph is a sequence of lists of nodes 0..n-1, node v  *)
(* at position v + 1; prefix is the size of the interleaved raw vector, or 0.  *)

Fits(used, bytes) == used + bytes <= PageSize

\* Faulty variant of PlanLayout: what does not fit the first page is refused.
PlanLayoutNoSecondPage(graph, prefix) ==
  LET used(k) == MapThenSumSet(LAMBDA j : prefix + PlanList(graph[j]).len, 1..k)
  IN  IF used(Len(graph)) > PageSize THEN None
      ELSE [pages |-> 1, used |-> used(Len(graph)),
            locators |-> [k \in DOMAIN graph |->
              [page |-> 0, offset |-> used(k - 1) + prefix, degree |-> Len(graph[k]),
               encoding |-> PlanList(graph[k]).encoding]]]

\* Records are packed in node order; one that does not fit the rest of the
\* page opens the next.
PlanLayout(graph, prefix) ==
  LET next(state, list) ==
        LET plan == PlanList(list)
            fits == Fits(state.used, prefix + plan.len)
            page == IF fits THEN state.pages - 1 ELSE state.pages
            start == IF fits THEN state.used ELSE 0
        IN  IF state = None \/ plan = None THEN None
            ELSE IF prefix + plan.len > PageSize THEN None
            ELSE [pages |-> page + 1, used |-> start + prefix + plan.len,
                  locators |-> Append(state.locators,
                    [page |-> page, offset |-> start + prefix,
                     degree |-> Len(list), encoding |-> plan.encoding])]
  IN  FoldLeft(next, [pages |-> 1, used |-> 0, locators |-> <<>>], graph)

\* A page starts as zeroes; each of its records overwrites its own range.
WritePage(graph, vectors, locators, page) ==
  LET here == {k \in DOMAIN locators : locators[k].page = page}
      bytes == [k \in here |-> vectors[k] \o EncodeList(graph[k])]
      from == [k \in here |-> locators[k].offset - Len(vectors[k])]
      over(b) == {k \in here : b > from[k] /\ b <= from[k] + Len(bytes[k])}
  IN  IF \E k \in here : from[k] < 0 \/ from[k] + Len(bytes[k]) > PageSize THEN None
      ELSE [b \in 1..PageSize |->
              LET k == Max(over(b)) IN IF over(b) = {} THEN 0 ELSE bytes[k][b - from[k]]]

Absolute(locator) == locator.page * PageSize + locator.offset

WriteAdjacencyIndex(locators) ==
  LET n == Len(locators)
      base(k) == Absolute(locators[((k - 1) \div BlockNodes) * BlockNodes + 1])
      relative(k) == Absolute(locators[k]) - base(k)
  IN  IF \E k \in 1..n : relative(k) \notin 0..MaxRelative THEN None
      ELSE [blocks |-> [b \in 1..CeilDiv(n, BlockNodes) |-> base((b - 1) * BlockNodes + 1)],
            relative |-> [k \in 1..n |-> relative(k)],
            degree |-> [k \in 1..n |-> locators[k].degree],
            encoding |-> [k \in 1..n |-> locators[k].encoding]]

Locator(index, k) ==
  LET absolute == index.blocks[(k - 1) \div BlockNodes + 1] + index.relative[k]
  IN  [page |-> absolute \div PageSize, offset |-> absolute % PageSize,
       degree |-> index.degree[k], encoding |-> index.encoding[k]]

\* Faulty variant of Follows: the raw vector before the record is forgotten.
FollowsWithoutPrefix(header, first, before, locator) ==
  IF first THEN locator.offset = header.prefix
  ELSE IF before.encoding = Raw
  THEN locator.offset = before.offset + before.degree * RawSize
  ELSE locator.offset >= before.offset + before.degree

\* A record's place given its predecessor on the page, if any: exactly after a
\* raw list, whose length the locator tells, and not too early after the others.
Follows(header, first, before, locator) ==
  IF first THEN locator.offset = header.prefix
  ELSE IF before.encoding = Raw
  THEN locator.offset = before.offset + before.degree * RawSize + header.prefix
  ELSE locator.offset >= before.offset + (IF before.degree # 0 THEN 1 ELSE 0) + header.prefix

\* What the reader requires of the locators before it trusts any: blocks start
\* at their own offset, pages are used in order from page 0 and without gaps.
ValidateAdjacencyIndex(header, index) ==
  LET at == [k \in 1..Len(index.relative) |-> Locator(index, k)]
      Ordered(k) ==
        IF k = 1 THEN at[k].page = 0
        ELSE at[k].page \in at[k - 1].page..(at[k - 1].page + 1)
      InPage(k) ==
        /\ (k - 1) % BlockNodes = 0 => index.relative[k] = 0
        /\ at[k].page < header.pages
        /\ at[k].degree <= header.maxDegree
        /\ at[k].offset >= header.prefix
        /\ at[k].encoding = Raw => at[k].offset + at[k].degree * RawSize <= PageSize
      Placed(k) ==
        IF k = 1 THEN at[k].offset = header.prefix
        ELSE Follows(header, at[k - 1].page # at[k].page, at[k - 1], at[k])
  IN  /\ Len(index.relative) = header.count
      /\ \A k \in 1..header.count : InPage(k) /\ Ordered(k) /\ Placed(k)
      /\ at[header.count].page + 1 = header.pages

\* Binary search over the locators of a validated index: the number of them
\* whose page is below the wanted one.
PartitionPoint(index, count, wanted) ==
  LET search[left \in 0..count, right \in 0..count] ==
        LET middle == left + (right - left) \div 2
        IN  IF left >= right THEN left
            ELSE IF Locator(index, middle + 1).page < wanted
            THEN search[middle + 1, right] ELSE search[left, middle]
  IN  search[0, count]

NonFinite == Byte - 1

ZeroTail(bytes, end) == \A b \in (end + 1)..PageSize : bytes[b] = 0

\* What the reader requires of a page before it is searched: its records are
\* contiguous from the start, finite, decodable, in range, without self edges,
\* increasing and minimally encoded; and the rest of the page is zero.
ValidatePage(header, index, page, bytes) ==
  \E first \in {PartitionPoint(index, header.count, page)} :
  \E end \in {PartitionPoint(index, header.count, page + 1)} :
  \E at \in {[k \in (first + 1)..end |-> Locator(index, k)]} :
  \E read \in {[k \in (first + 1)..end |->
                  DecodeList(SubSeq(bytes, at[k].offset + 1, PageSize), at[k].degree, at[k].encoding)]} :
  LET listEnd(k) == at[k].offset + read[k].consumed
      ValidRecord(k) ==
        /\ at[k].offset - header.prefix = (IF k = first + 1 THEN 0 ELSE listEnd(k - 1))
        /\ \A b \in (at[k].offset - header.prefix + 1)..at[k].offset : bytes[b] # NonFinite
        /\ read[k] # None
        /\ \A i \in DOMAIN read[k].list : read[k].list[i] < header.count /\ read[k].list[i] # k - 1
        /\ Increasing(read[k].list)
        /\ at[k].encoding = MinimalEncoding(read[k].list)
  IN  /\ Len(bytes) = PageSize /\ first # end
      /\ \A k \in (first + 1)..end : ValidRecord(k)
      /\ ZeroTail(bytes, listEnd(end))

------------------------------------------------------------------------------
(* Row IDs: frame-of-reference bit packing.  A payload byte is the set of its   *)
(* one bits, so that |= is a union.                                            *)

Bits(value, width) == {i \in 0..(width - 1) : (value \div 2^i) % 2 = 1}
ValueOf(bits) == MapThenSumSet(LAMBDA i : 2^i, bits)
BitWidth(span) == CHOOSE w \in 0..IdBits : span < 2^w /\ (w > 0 => span >= 2^(w - 1))
PackedLen(count, width) == (count * width + ByteBits - 1) \div ByteBits

\* The bits that packing `delta` for position `node` sets in byte b.
PackedBits(node, width, delta, b) ==
  LET at == node * width
  IN  {i \in 0..(ByteBits - 1) : b * ByteBits + i - at \in Bits(delta, width)}

\* Faulty variant of UnpackDelta: only the first two bytes of a value are read.
UnpackDeltaTwoBytes(payload, node, width) ==
  LET at == node * width
      bytes == (at \div ByteBits)..((at \div ByteBits) + 1)
      set == UNION {{b * ByteBits + i : i \in payload[b + 1]} : b \in bytes \cap 0..(Len(payload) - 1)}
  IN  IF width = 0 THEN 0 ELSE ValueOf({i \in 0..(width - 1) : at + i \in set})

UnpackDelta(payload, node, width) ==
  LET at == node * width
      shift == at % ByteBits
      first == at \div ByteBits
      bytes == first..(first + CeilDiv(shift + width, ByteBits) - 1)
      set == UNION {{b * ByteBits + i : i \in payload[b + 1]} : b \in bytes}
  IN  IF width = 0 THEN 0
      ELSE IF bytes \subseteq 0..(Len(payload) - 1)
      THEN ValueOf({i \in 0..(width - 1) : at + i \in set})
      ELSE None

EncodeRowIds(ids) ==
  LET base == Min(ToSet(ids))
      width == BitWidth(Max(ToSet(ids)) - base)
  IN  IF ids = <<>> THEN None
      ELSE IF width = IdBits THEN [encoding |-> "RAW_I64", width |-> IdBits, count |-> Len(ids),
                                   base |-> 0, payload |-> ids]
      ELSE [encoding |-> "FOR_BITPACK", width |-> width, count |-> Len(ids), base |-> base,
            payload |-> [b \in 1..PackedLen(Len(ids), width) |->
              UNION {PackedBits(node, width, ids[node + 1] - base, b - 1) : node \in 0..(Len(ids) - 1)}]]

IsRowId(value) == value \in -(2^(IdBits - 1))..(2^(IdBits - 1) - 1)

\* RowIdStorage::get and one step of try_for_each: node is below the count.
RowIdAt(storage, node) ==
  IF storage.encoding = "RAW_I64" THEN storage.payload[node + 1]
  ELSE LET delta == UnpackDelta(storage.payload, node, storage.width)
       IN  IF delta = None THEN None
           ELSE IF IsRowId(storage.base + delta) THEN storage.base + delta ELSE None

\* decode_row_id_section_header on a section of the given payload.
ValidRowIdHeader(storage, count) ==
  /\ storage.count = count
  /\ \/ /\ storage.encoding = "RAW_I64" /\ storage.width = IdBits /\ storage.base = 0
        /\ Len(storage.payload) = count
     \/ /\ storage.encoding = "FOR_BITPACK" /\ storage.width < IdBits
        /\ Len(storage.payload) = PackedLen(count, storage.width)

ValidRowIds(storage) ==
  LET tail == (storage.count * storage.width) % ByteBits
  IN  /\ storage.encoding = "FOR_BITPACK" /\ tail # 0 /\ storage.payload # <<>> =>
           Last(storage.payload) \subseteq 0..(tail - 1)
      /\ \A node \in 0..(storage.count - 1) : RowIdAt(storage, node) # None

\* Faulty variant of ValidOrder: equal row IDs may come in any order.
ValidOrderByIdOnly(ids, order) ==
  /\ Len(order) = Len(ids)
  /\ \A i \in DOMAIN order : order[i] \in 0..(Len(ids) - 1)
  /\ \A i \in 2..Len(order) : ids[order[i - 1] + 1] <= ids[order[i] + 1]

\* validate_row_id_order: (row ID, node) strictly increases along the order.
ValidOrder(ids, order) ==
  LET id(i) == ids[order[i] + 1]
  IN  /\ Len(order) = Len(ids)
      /\ \A i \in DOMAIN order : order[i] \in 0..(Len(ids) - 1)
      /\ \A i \in 2..Len(order) :
           id(i - 1) < id(i) \/ (id(i - 1) = id(i) /\ order[i - 1] < order[i])

\* The order the writer stores.
WrittenOrder(ids) ==
  SetToSortSeq(0..(Len(ids) - 1),
    LAMBDA a, b : ids[a + 1] < ids[b + 1] \/ (ids[a + 1] = ids[b + 1] /\ a < b))

------------------------------------------------------------------------------
(* The layout of a file.                                                       *)

CONSTANTS
  HeaderSize,      \* DISKANN_HEADER_SIZE
  SectionHeader,   \* PQ_CODEBOOK_HEADER_SIZE and ROW_ID_SECTION_HEADER_SIZE
  BufferSize,      \* DISKANN_WRITE_BUFFER_SIZE
  MaxDegree,       \* 1023
  Shapes           \* the indexes to be written

\* HeaderSize is at most PageSize; BufferSize is positive.

VARIABLES shape, out, buffer, pc, status

vars == <<shape, out, buffer, pc, status>>

Size(extents) == FoldLeft(LAMBDA total, e : total + e.len, 0, extents)

\* The first `count` bytes of some extents, and the rest.
Split(extents, count) ==
  LET next(acc, e) ==
        LET first == Min({e.len, count - Size(acc.head)})
        IN  [head |-> IF first = 0 THEN acc.head ELSE Append(acc.head, [e EXCEPT !.len = first]),
             tail |-> IF first = e.len THEN acc.tail ELSE Append(acc.tail, [e EXCEPT !.len = e.len - first])]
  IN  FoldLeft(next, [head |-> <<>>, tail |-> <<>>], extents)

AlignUp(value) == CeilDiv(value, PageSize) * PageSize
Ksub(bits) == IF bits = 4 THEN 16 ELSE 256
CodeSize(m, bits) == IF bits = 4 THEN CeilDiv(m, 2) ELSE m
CodebookLen(s) == SectionHeader + (s.m + 1) * 4 + s.d * Ksub(s.bits) * 4
AdjacencyIndexLen(count) == CeilDiv(count, BlockNodes) * 8 + count * 4
RecordSize(s) == s.d * s.elem
Interleaved(s) == s.layout = "Interleaved"

\* validate_diskann_format_configuration
ValidConfiguration(s) ==
  /\ s.d > 0 /\ s.m \in 1..s.d /\ s.bits \in {4, 8}
  /\ s.degree \in 1..MaxDegree /\ s.list >= s.degree
  /\ Interleaved(s) => RecordSize(s) + s.degree * 4 <= PageSize

\* DiskAnnHeader::for_layout_with_adjacency_pages_and_pq_bits: the sections
\* follow one another from the first page, the adjacency pages page-aligned.
LayoutFor(s) ==
  LET lens == <<CodebookLen(s), s.rowIds, s.count * CodeSize(s.m, s.bits), s.count * 4,
                AdjacencyIndexLen(s.count), s.pages * PageSize,
                IF Interleaved(s) THEN 0 ELSE s.count * RecordSize(s)>>
      place(acc, len) ==
        LET from == IF Len(acc) = 0 THEN PageSize ELSE Last(acc).offset + Last(acc).length
        IN  Append(acc, [offset |-> IF Len(acc) = 5 THEN AlignUp(from) ELSE from, length |-> len])
  IN  IF \/ ~ValidConfiguration(s) \/ s.count = 0 \/ s.entry >= s.count \/ s.pages = 0
         \/ s.rowIds \notin SectionHeader..(SectionHeader + s.count * 8)
      THEN None
      ELSE LET sections == FoldLeft(place, <<>>, lens)
           IN  [sections |-> sections, record |-> RecordSize(s),
                fileLen |-> sections[7].offset + sections[7].length]

\* Faulty variant of ValidLayout: only the lengths are compared.
ValidLayoutByLength(s, stored) ==
  LET expected == LayoutFor([s EXCEPT !.rowIds = stored.sections[2].length,
                                      !.pages = stored.sections[6].length \div PageSize])
  IN  /\ expected # None
      /\ \A i \in 1..7 : stored.sections[i].length = expected.sections[i].length

\* DiskAnnHeader::validate_layout: the stored header must be the one
\* its own counts lead to.
ValidLayout(s, stored) ==
  LET expected == LayoutFor([s EXCEPT !.rowIds = stored.sections[2].length,
                                      !.pages = stored.sections[6].length \div PageSize])
  IN  /\ stored.sections[6].length % PageSize = 0
      /\ expected # None
      /\ stored = expected

\* DiskAnnHeader::decode on a stored header; magic, version and reserved bytes
\* are those of the writer.
DecodeHeader(s, stored) ==
  /\ s.layout \in {"Compact", "Interleaved"} /\ s.bits \in {4, 8} /\ s.elem \in {2, 4}
  /\ ValidLayout(s, stored)

------------------------------------------------------------------------------
(* The writer.                                                                 *)

Layout == LayoutFor(shape)

Op(op, tag, len) == [op |-> op, tag |-> tag, len |-> len]
Repeat(count, op) == [i \in 1..count |-> op]

CodebookWrites(s) ==
  <<Op("write", 1, SectionHeader)>> \o Repeat(s.m + 1, Op("write", 1, 4))
  \o <<Op("write", 1, s.d * Ksub(s.bits) * 4)>>

RowIdWrites(s) == <<Op("write", 2, SectionHeader), Op("write", 2, s.rowIds - SectionHeader)>>

VectorWrites(s) ==
  <<Op("new", 0, 0)>> \o Repeat(s.count, Op("write", 7, RecordSize(s))) \o <<Op("finish", 0, 0)>>

\* write_diskann_index_with_stats, as the sequence of its calls on the output
\* (0 tags header and padding, 1 to 7 the sections).
Program(s, layout) ==
  LET at(i) == layout.sections[i].offset
      resident ==
        CodebookWrites(s) \o RowIdWrites(s)
        \o Repeat(s.count, Op("write", 3, CodeSize(s.m, s.bits)))
        \o Repeat(s.count, Op("write", 4, 4))
        \o Repeat(CeilDiv(s.count, BlockNodes), Op("write", 5, 8))
        \o Repeat(2 * s.count, Op("write", 5, 2))
  IN  <<Op("direct", 0, HeaderSize), Op("pad", 0, at(1)), Op("new", 0, 0)>>
      \o resident
      \o <<Op("finish", 0, 0), Op("pad", 0, at(6)), Op("new", 0, 0)>>
      \o Repeat(s.pages, Op("write", 6, PageSize))
      \o <<Op("finish", 0, 0)>> \o (IF Interleaved(s) THEN <<>> ELSE VectorWrites(s)) \o <<Op("end", 0, layout.fileLen)>>

Current == Program(shape, Layout)[pc]

Init ==
  /\ shape \in Shapes
  /\ out = <<>> /\ buffer = <<>> /\ pc = 1
  /\ status = IF LayoutFor(shape) = None THEN "refused" ELSE "writing"

\* write_all either takes all the bytes or fails after some of them.
Emit(extents, nextBuffer) ==
  \/ out' = out \o extents /\ buffer' = nextBuffer /\ pc' = pc + 1 /\ status' = "writing"
  \/ \E count \in {0, Size(extents) - 1} :
       /\ Size(extents) > 0
       /\ out' = out \o Split(extents, count).head
       /\ buffer' = <<>> /\ pc' = pc /\ status' = "failed"

Direct == Current.op = "direct" /\ Emit(<<[tag |-> 0, len |-> Current.len]>>, buffer)

PadTo ==
  /\ Current.op = "pad"
  /\ IF Size(out) > Current.len
     THEN status' = "misplaced" /\ UNCHANGED <<out, buffer, pc>>
     ELSE Emit(IF Current.len = Size(out) THEN <<>> ELSE <<[tag |-> 0, len |-> Current.len - Size(out)]>>,
               buffer)

\* A new chunked writer starts empty: what its predecessor still held is gone.
NewWriter == Current.op = "new" /\ Emit(<<>>, <<>>)

\* Bytes fill the buffer; a full buffer is written out when more bytes come.
WriteBytes ==
  /\ Current.op = "write"
  /\ LET all == Append(buffer, [tag |-> Current.tag, len |-> Current.len])
         kept == IF Size(all) = 0 THEN 0 ELSE ((Size(all) - 1) % BufferSize) + 1
         parts == Split(all, Size(all) - kept)
     IN  Emit(parts.head, parts.tail)

\* Faulty variant of Finish: the buffer is not flushed.
FinishUnflushed == Current.op = "finish" /\ Emit(<<>>, buffer)

Finish == Current.op = "finish" /\ Emit(buffer, <<>>)

End ==
  /\ Current.op = "end"
  /\ status' = IF Size(out) = Current.len THEN "written" ELSE "misplaced"
  /\ UNCHANGED <<out, buffer, pc>>

Next ==
  /\ status = "writing"
  /\ UNCHANGED shape
  /\ Direct \/ PadTo \/ NewWriter \/ WriteBytes \/ Finish \/ End

Spec == Init /\ [][Next]_vars

------------------------------------------------------------------------------
(* The reader, on the bytes that reached the output.                           *)

\* Faulty variant of ResidentReads: the last byte of the file is not probed.
ResidentReadsNoProbe(layout) ==
  {layout.sections[i] : i \in {1, 2, 3, 5}}

\* read_resident_sections: four sections and the last byte of the file.
ResidentReads(layout) ==
  {layout.sections[i] : i \in {1, 2, 3, 5}} \cup {[offset |-> layout.fileLen - 1, length |-> 1]}

\* A pread past the end of the file fails.
Readable(range) == range.offset + range.length <= Size(out)

Loads ==
  /\ Readable([offset |-> 0, length |-> HeaderSize])
  /\ \A range \in ResidentReads(Layout) : Readable(range)

\* The bytes of a range of the output, as extents.
Contents(range) == Split(Split(out, range.offset + range.length).head, range.offset).tail

------------------------------------------------------------------------------
\* A file written without an error loads; and whenever the writer stops, by finishing, by an error of the output or by a
\* crash between any two of its calls, a reader loads the file only if all of it
\* is there: the header, which is written first and is valid from then on, never
\* makes a truncated file usable (read_resident_sections, "file length probe").
TruncatedFileNeverLoads ==
  status # "refused" =>
    /\ Loads => Size(out) = Layout.fileLen
    /\ status = "written" => Loads

\* Every section of a written file lies exactly where the header, encoded before
\* any section was, says: buffering, padding and finishing lose, reorder or
\* misplace nothing, and a writer that meets no error reaches the predicted
\* length (write_diskann_index_with_stats, ChunkedSectionWriter).
SectionsLieWhereTheHeaderSays ==
  /\ status # "misplaced"
  /\ status = "written" =>
       \A i \in 1..7 : \A k \in DOMAIN Contents(Layout.sections[i]) :
         /\ Contents(Layout.sections[i])[k].tag = i
         /\ Size(Contents(Layout.sections[i])) = Layout.sections[i].length

\* A stored header that differs from the written one in one offset, one length or
\* the file length is refused, or describes sections that are in order, disjoint,
\* inside the file and page-aligned where pages are read
\* (DiskAnnHeader::validate_layout).
AcceptedHeadersAreSound ==
  status = "writing" /\ pc = 1 =>
    \A i \in 1..7, by \in {-1, 1, PageSize} :
      LET variants == {[Layout EXCEPT !.sections[i].offset = @ + by],
                       [Layout EXCEPT !.sections[i].length = @ + by],
                       [Layout EXCEPT !.fileLen = @ + by]}
          sound(h) == /\ \A j \in 1..6 : h.sections[j].offset + h.sections[j].length <= h.sections[j + 1].offset
                      /\ h.sections[7].offset + h.sections[7].length = h.fileLen
                      /\ h.sections[6].offset % PageSize = 0 /\ h.sections[1].offset >= HeaderSize
      IN  \A h \in variants : h.sections[2].length >= 0 /\ DecodeHeader(shape, h) => sound(h)
==============================================================================

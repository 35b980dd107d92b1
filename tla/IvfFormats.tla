------------------------------ MODULE IvfFormats ------------------------------
(* The files of the four IVF families: how each index is written, opened and      *)
(* loaded, and the ways a list is read, whole or in chunks.  A list is a sequence *)
(* of rows [id, code]; a file is [header, bytes]; a loaded index carries the      *)
(* table of its lists.                                                            *)
EXTENDS IvfLists

CONSTANTS
  Dim, Metrics,
  M, Ksub, PackedKsub, WideKsub,   \* IVF-PQ; the codebooks of 4-bit and 8-bit codes, 16 and 256
  RotationBlock, Bits, Rounds,     \* IVF-RQ
  BlockSize                        \* rows of a block of IVF-SQ or IVF-RQ

IdHeaderBytes == I64Bytes + I32Bytes
Smaller(a, b) == IF a < b THEN a ELSE b

------------------------------------------------------------------------------
(* The IVF-FLAT file: write_ivfflat_index, open, ensure_loaded, and the two     *)
(* ways a list is read, whole in a batch or in chunks.  An index is             *)
(* [metric, centroids, lists]; a list is a sequence of rows [id, code] whose    *)
(* vector is FlatRowBytes cells <<code, i>>; a file is [header, bytes].             *)

FlatRowBytes == Dim * F32Bytes

VectorCells(row) == [i \in 1..FlatRowBytes |-> <<row.code, i>>]

\* list_payload_len
FlatListPayloadLen(count, idLen) == IF count = 0 THEN 0 ELSE IdHeaderBytes + idLen + count * FlatRowBytes

\* Faulty variant of PayloadCells: the vectors stay in insertion order.
PayloadCellsUnsorted(rows, sorted, idBytes) ==
  LeBytes(sorted[1].id, I64Bytes) \o LeBytes(Len(idBytes), I32Bytes) \o Raw(idBytes)
    \o FlattenSeq([i \in DOMAIN rows |-> VectorCells(rows[i])])

PayloadCells(rows, sorted, idBytes) ==
  LeBytes(sorted[1].id, I64Bytes) \o LeBytes(Len(idBytes), I32Bytes) \o Raw(idBytes)
    \o FlattenSeq([i \in DOMAIN sorted |-> VectorCells(sorted[i])])

WriteIvfFlatIndex(index) ==
  LET lists == index.lists
      sorted == [l \in DOMAIN lists |-> SortedRows(lists[l])]
      idBytes == [l \in DOMAIN lists |-> EncodeDeltaVarintIds(Ids(sorted[l]))]
      counts == [l \in DOMAIN lists |-> Len(lists[l])]
      idLens == [l \in DOMAIN lists |-> Len(idBytes[l])]
      sizes == [l \in DOMAIN lists |-> FlatListPayloadLen(counts[l], idLens[l])]
      front == Zeros(HeaderBytes) \o F32Slice(index.centroids)
      offsets == ListOffsets(Len(front) + Len(lists) * EntryBytes, sizes)
  IN  [header |-> [magic |-> "flat", version |-> 1, d |-> Dim, nlist |-> Len(lists),
                   metric |-> index.metric, total |-> SumOf(counts), flags |-> {"delta"}, reserved |-> 0],
       bytes |-> front \o TableBytes(offsets, counts, idLens)
                   \o FlattenSeq([l \in DOMAIN lists |->
                                    IF lists[l] = <<>> THEN <<>>
                                    ELSE PayloadCells(lists[l], sorted[l], idBytes[l])])]

\* Faulty variant of FlatOpenWithHeader: flags the code does not know are ignored.
FlatOpenWithHeaderAnyFlags(h) ==
  /\ h.magic = "flat" /\ h.version = 1 /\ h.d > 0 /\ h.nlist > 0
  /\ h.metric \in Metrics /\ h.reserved = 0 /\ {"delta"} \subseteq h.flags

FlatOpenWithHeader(h) ==
  /\ h.magic = "flat" /\ h.version = 1 /\ h.d > 0 /\ h.nlist > 0
  /\ h.metric \in Metrics /\ h.reserved = 0
  /\ h.flags \subseteq {"delta"} /\ {"delta"} \subseteq h.flags

\* ensure_loaded: centroids and offset table in one range.
FlatEnsureLoaded(file) ==
  LET h == file.header
      centroidBytes == h.nlist * h.d * F32Bytes
      len == centroidBytes + h.nlist * EntryBytes
      cells == ReadAt(file.bytes, HeaderBytes, len)
      table == DecodeTable(SubSeq(cells, centroidBytes + 1, len))
  IN  [ok |-> /\ CanRead(file.bytes, HeaderBytes, len)
              /\ \A l \in 1..h.nlist : /\ table.counts[l] >= 0 /\ table.idLens[l] >= 0
                                       /\ table.counts[l] > 0 => table.idLens[l] > 0
              /\ SumOf(table.counts) = h.total,
       table |-> table, centroids |-> BytesToF32Vec(SubSeq(cells, 1, centroidBytes))]

\* ivfflat_io's own decode_delta_varint_ids, which does not look past the last ID.
FlatDecodeIds(base, buf, count) ==
  LET a == DecodeLoop(base, buf, count) IN [ok |-> a.ok, ids |-> a.ids]

\* read_inverted_lists for one list; an empty one is not read.
FlatReadInvertedList(file, table, l) ==
  LET count == table.counts[l]
      idLen == table.idLens[l]
      len == FlatListPayloadLen(count, idLen)
      cells == ReadAt(file.bytes, table.offsets[l], len)
      decoded == FlatDecodeIds(FromLe(cells), Values(SubSeq(cells, IdHeaderBytes + 1, IdHeaderBytes + idLen)), count)
  IN  IF count = 0 THEN [ok |-> TRUE, ids |-> <<>>, codes |-> <<>>]
      ELSE IF ~CanRead(file.bytes, table.offsets[l], len) \/ FromLe(SubSeq(cells, I64Bytes + 1, len)) # idLen
      THEN [ok |-> FALSE, ids |-> <<>>, codes |-> <<>>]
      ELSE [ok |-> decoded.ok, ids |-> decoded.ids, codes |-> SubSeq(cells, IdHeaderBytes + idLen + 1, len)]

\* for_each_streamed_list_chunk: the chunks [ids, codes] in order.
FlatStreamList(file, table, l) ==
  LET idLen == table.idLens[l]
      read == ReadDeltaVarintIdsAt(file.bytes, table.offsets[l], table.counts[l], idLen)
      chunks == StreamChunks(table.counts[l], FlatRowBytes, 1)
      at(c) == table.offsets[l] + IdHeaderBytes + idLen + c.first * FlatRowBytes
  IN  [ok |-> read.ok /\ \A i \in DOMAIN chunks :
                            chunks[i].rows > 0 /\ CanRead(file.bytes, at(chunks[i]), chunks[i].rows * FlatRowBytes),
       chunks |-> [i \in DOMAIN chunks |->
                     [ids |-> SubSeq(read.ids, chunks[i].first + 1, chunks[i].first + chunks[i].rows),
                      codes |-> ReadAt(file.bytes, at(chunks[i]), chunks[i].rows * FlatRowBytes)]]]

\* The rows a scan sees in the codes of a list or of a chunk: row-major.
FlatRowsOf(ids, codes) ==
  [i \in DOMAIN ids |-> [id |-> ids[i], cells |-> SubSeq(codes, (i - 1) * FlatRowBytes + 1, i * FlatRowBytes)]]

------------------------------------------------------------------------------
(* The IVF-PQ file of io.rs.  The codes of a list are stored by column, so one   *)
(* chunk of a streamed list is gathered with a range per column.  An index is   *)
(* [metric, opq, residual, rotation, centroids, pqCentroids, lists].            *)

Dsub == Dim \div M
PqCodeSize == IF Ksub = PackedKsub THEN M \div 2 ELSE M

PqListPayloadLen(count, idLen) == IF count = 0 THEN 0 ELSE IdHeaderBytes + idLen + count * PqCodeSize

\* transpose_sorted_pq_codes; the tiles only order the copies.
TransposeSortedPqCodes(sorted) ==
  LET n == Len(sorted)
  IN  [k \in 1..(n * PqCodeSize) |-> <<sorted[((k - 1) % n) + 1].code, ((k - 1) \div n) + 1>>]

WriteIvfPqIndex(index) ==
  LET lists == index.lists
      sorted == [l \in DOMAIN lists |-> SortedRows(lists[l])]
      idBytes == [l \in DOMAIN lists |-> EncodeDeltaVarintIds(Ids(sorted[l]))]
      counts == [l \in DOMAIN lists |-> Len(lists[l])]
      idLens == [l \in DOMAIN lists |-> Len(idBytes[l])]
      sizes == [l \in DOMAIN lists |-> PqListPayloadLen(counts[l], idLens[l])]
      front == Zeros(HeaderBytes) \o (IF index.opq THEN F32Slice(index.rotation) ELSE <<>>)
                 \o F32Slice(index.centroids) \o F32Slice(index.pqCentroids)
      offsets == ListOffsets(Len(front) + Len(lists) * EntryBytes, sizes)
  IN  [header |-> [magic |-> "pq", version |-> 1, d |-> Dim, nlist |-> Len(lists),
                   m |-> M, ksub |-> Ksub, dsub |-> Dsub,
                   metric |-> index.metric, total |-> SumOf(counts),
                   flags |-> {"delta", "transposed"} \cup (IF index.opq THEN {"opq"} ELSE {})
                               \cup (IF index.residual THEN {"residual"} ELSE {}),
                   reserved |-> 0],
       bytes |-> front \o TableBytes(offsets, counts, idLens)
                   \o FlattenSeq([l \in DOMAIN lists |->
                        IF lists[l] = <<>> THEN <<>>
                        ELSE LeBytes(sorted[l][1].id, I64Bytes) \o LeBytes(idLens[l], I32Bytes)
                               \o Raw(idBytes[l]) \o TransposeSortedPqCodes(sorted[l])])]

PqOpenWithHeader(h) ==
  /\ h.magic = "pq" /\ h.version = 1
  /\ h.d > 0 /\ h.nlist > 0 /\ h.m > 0 /\ h.ksub > 0 /\ h.dsub > 0
  /\ h.ksub \in {PackedKsub, WideKsub} /\ h.d = h.m * h.dsub /\ (h.ksub = PackedKsub => h.m % 2 = 0)
  /\ h.metric \in Metrics /\ h.total >= 0 /\ h.reserved = 0
  /\ h.flags \subseteq {"opq", "residual", "delta", "transposed"}
  /\ {"delta", "transposed"} \subseteq h.flags

\* ensure_loaded: rotation if the flag is set, centroids, codebooks and table in
\* one range.
PqEnsureLoaded(file) ==
  LET h == file.header
      rotation == IF "opq" \in h.flags THEN h.d * h.d * F32Bytes ELSE 0
      centroids == h.nlist * h.d * F32Bytes
      pqCentroids == h.m * h.ksub * h.dsub * F32Bytes
      len == rotation + centroids + pqCentroids + h.nlist * EntryBytes
      cells == ReadAt(file.bytes, HeaderBytes, len)
      section(start, size) == BytesToF32Vec(SubSeq(cells, start + 1, start + size))
      table == DecodeTable(SubSeq(cells, rotation + centroids + pqCentroids + 1, len))
  IN  [ok |-> /\ CanRead(file.bytes, HeaderBytes, len)
              /\ \A l \in 1..h.nlist : table.counts[l] >= 0 /\ table.idLens[l] >= 0
              /\ SumOf(table.counts) = h.total,
       table |-> table,
       rotation |-> section(0, rotation),
       centroids |-> section(rotation, centroids),
       pqCentroids |-> section(rotation + centroids, pqCentroids)]

\* decode_delta_list_payload
DecodeDeltaListPayload(cells, count, idLen) ==
  LET header == IdHeaderBytes + idLen
      decoded == DecodeDeltaVarintIds(FromLe(cells), Values(SubSeq(cells, IdHeaderBytes + 1, header)), count)
  IN  IF Len(cells) < header \/ FromLe(SubSeq(cells, I64Bytes + 1, Len(cells))) # idLen
      THEN [ok |-> FALSE, ids |-> <<>>, codes |-> <<>>]
      ELSE [ok |-> decoded.ok, ids |-> decoded.ids, codes |-> SubSeq(cells, header + 1, Len(cells))]

\* read_inverted_list_payloads for one list
PqReadInvertedList(file, table, l) ==
  LET len == PqListPayloadLen(table.counts[l], table.idLens[l])
  IN  IF table.counts[l] = 0 THEN [ok |-> TRUE, ids |-> <<>>, codes |-> <<>>]
      ELSE IF table.idLens[l] = 0 \/ ~CanRead(file.bytes, table.offsets[l], len)
      THEN [ok |-> FALSE, ids |-> <<>>, codes |-> <<>>]
      ELSE DecodeDeltaListPayload(ReadAt(file.bytes, table.offsets[l], len), table.counts[l], table.idLens[l])

\* Faulty variant of ColumnOffset: columns are taken to be one chunk apart.
ColumnOffsetInChunk(codeOffset, column, count, c) == codeOffset + column * c.rows + c.first

\* Where a chunk's part of a column starts in the file.
ColumnOffset(codeOffset, column, count, c) == codeOffset + column * count + c.first

\* try_for_each_streamed_list_chunk: one range per column of a chunk.
PqStreamList(file, table, l) ==
  LET count == table.counts[l]
      idLen == table.idLens[l]
      read == ReadDeltaVarintIdsAt(file.bytes, table.offsets[l], count, idLen)
      chunks == StreamChunks(count, PqCodeSize, 1)
      codeOffset == table.offsets[l] + IdHeaderBytes + idLen
      at(c, column) == ColumnOffset(codeOffset, column, count, c)
  IN  [ok |-> read.ok /\ \A i \in DOMAIN chunks : \A column \in 0..(PqCodeSize - 1) :
                 chunks[i].rows > 0 /\ CanRead(file.bytes, at(chunks[i], column), chunks[i].rows),
       chunks |-> [i \in DOMAIN chunks |->
                     [ids |-> SubSeq(read.ids, chunks[i].first + 1, chunks[i].first + chunks[i].rows),
                      codes |-> FlattenSeq([column \in 1..PqCodeSize |->
                                  ReadAt(file.bytes, at(chunks[i], column - 1), chunks[i].rows)])]]]

\* The rows a scan sees: code c of row i is at c * rows + i.
PqRowsOf(ids, codes) ==
  [i \in DOMAIN ids |-> [id |-> ids[i], cells |-> [c \in 1..PqCodeSize |-> codes[(c - 1) * Len(ids) + i]]]]

------------------------------------------------------------------------------
(* The IVF-SQ file of ivfsq_io.rs: bounds of the global and of each list's       *)
(* quantizer before the centroids, the codes of a list in blocks of rows stored *)
(* by dimension, and the IDs behind the codes.  An index is                     *)
(* [metric, bounds, listBounds, centroids, lists] with bounds <<mins, maxs>>.    *)

SqListPayloadLen(count, idLen) == IF count = 0 THEN 0 ELSE IdHeaderBytes + idLen + count * Dim

\* sq_global_bounds
SqGlobalBounds(bounds) == <<Min(ToSet(bounds[1])), Max(ToSet(bounds[2]))>>

\* validate_sq_bounds
ValidateSqBounds(bounds) == \A i \in 1..Dim : bounds[1][i] <= bounds[2][i]

\* block_sorted_sq_codes: the last block is narrower.
BlockSortedSqCodes(sorted) ==
  [k \in 1..(Len(sorted) * Dim) |->
     LET start == ((k - 1) \div (BlockSize * Dim)) * BlockSize
         lanes == Smaller(BlockSize, Len(sorted) - start)
         within == (k - 1) - start * Dim
     IN  <<sorted[start + (within % lanes) + 1].code, (within \div lanes) + 1>>]

\* The transposed lists are written in batches of at most the scratch bytes; the
\* bytes written do not depend on the batches.
WriteIvfSqIndex(index) ==
  LET lists == index.lists
      sorted == [l \in DOMAIN lists |-> SortedRows(lists[l])]
      idBytes == [l \in DOMAIN lists |-> EncodeDeltaVarintIds(Ids(sorted[l]))]
      counts == [l \in DOMAIN lists |-> Len(lists[l])]
      idLens == [l \in DOMAIN lists |-> Len(idBytes[l])]
      sizes == [l \in DOMAIN lists |-> SqListPayloadLen(counts[l], idLens[l])]
      pair(b) == F32Slice(b[1]) \o F32Slice(b[2])
      front == Zeros(HeaderBytes) \o pair(index.bounds)
                 \o FlattenSeq([l \in DOMAIN lists |-> pair(index.listBounds[l])]) \o F32Slice(index.centroids)
      offsets == ListOffsets(Len(front) + Len(lists) * EntryBytes, sizes)
  IN  [header |-> [magic |-> "sq", version |-> 1, d |-> Dim, nlist |-> Len(lists),
                   metric |-> index.metric, total |-> SumOf(counts), bits |-> 8,
                   flags |-> {"delta", "blocked"}, summary |-> SqGlobalBounds(index.bounds), reserved |-> 0],
       bytes |-> front \o TableBytes(offsets, counts, idLens)
                   \o FlattenSeq([l \in DOMAIN lists |->
                        IF lists[l] = <<>> THEN <<>>
                        ELSE BlockSortedSqCodes(sorted[l]) \o LeBytes(sorted[l][1].id, I64Bytes)
                               \o LeBytes(idLens[l], I32Bytes) \o Raw(idBytes[l])])]

\* The header part of open_with_header_and_options
SqHeaderOk(h) ==
  /\ h.magic = "sq" /\ h.version = 1 /\ h.d > 0 /\ h.nlist > 0 /\ h.metric \in Metrics
  /\ h.total >= 0 /\ h.bits = 8 /\ h.reserved = 0
  /\ h.flags \subseteq {"delta", "blocked"} /\ {"delta", "blocked"} \subseteq h.flags

Summarised(h, bounds) == h.summary = SqGlobalBounds(bounds)

\* The rest of open_with_header_and_options, which loads all metadata at once.
SqOpenWithHeader(file) ==
  LET h == file.header
      boundsBytes == (h.nlist + 1) * h.d * 2 * F32Bytes
      centroidBytes == h.nlist * h.d * F32Bytes
      len == boundsBytes + centroidBytes + h.nlist * EntryBytes
      cells == ReadAt(file.bytes, HeaderBytes, len)
      section(start, size) == BytesToF32Vec(SubSeq(cells, start + 1, start + size))
      bounds(n) == LET w == h.d * F32Bytes IN <<section(2 * n * w, w), section((2 * n + 1) * w, w)>>
      table == DecodeTable(SubSeq(cells, boundsBytes + centroidBytes + 1, len))
  IN  IF ~SqHeaderOk(h) \/ ~CanRead(file.bytes, HeaderBytes, len) THEN [ok |-> FALSE]
      ELSE [ok |-> /\ \A n \in 0..h.nlist : ValidateSqBounds(bounds(n))
                   /\ Summarised(h, bounds(0))
                   /\ \A l \in 1..h.nlist : /\ table.counts[l] >= 0 /\ table.idLens[l] >= 0
                                            /\ table.counts[l] > 0 => table.idLens[l] > 0
                   /\ SumOf(table.counts) = h.total,
            table |-> table, bounds |-> bounds(0),
            listBounds |-> [l \in 1..h.nlist |-> bounds(l)],
            centroids |-> section(boundsBytes, centroidBytes)]

\* decode_list_payload
DecodeListPayload(cells, count, idLen) ==
  LET codeBytes == count * Dim
      ids == SubSeq(cells, codeBytes + 1, Len(cells))
      decoded == DecodeDeltaVarintIds(FromLe(ids), Values(SubSeq(ids, IdHeaderBytes + 1, Len(ids))), count)
  IN  IF FromLe(SubSeq(ids, I64Bytes + 1, Len(ids))) # idLen
      THEN [ok |-> FALSE, ids |-> <<>>, codes |-> <<>>]
      ELSE [ok |-> decoded.ok, ids |-> decoded.ids, codes |-> SubSeq(cells, 1, codeBytes)]

\* read_inverted_lists for one list
SqReadInvertedList(file, table, l) ==
  LET len == SqListPayloadLen(table.counts[l], table.idLens[l])
  IN  IF table.counts[l] = 0 THEN [ok |-> TRUE, ids |-> <<>>, codes |-> <<>>]
      ELSE IF ~CanRead(file.bytes, table.offsets[l], len) THEN [ok |-> FALSE, ids |-> <<>>, codes |-> <<>>]
      ELSE DecodeListPayload(ReadAt(file.bytes, table.offsets[l], len), table.counts[l], table.idLens[l])

\* Faulty variant of ChunkAlignment: a chunk may end inside a block.
ChunkAlignmentNone == 1

ChunkAlignment == BlockSize

\* for_each_streamed_list_chunk: a chunk is a whole number of blocks, or the rest.
SqStreamList(file, table, l) ==
  LET count == table.counts[l]
      read == ReadDeltaVarintIdsAt(file.bytes, table.offsets[l] + count * Dim, count, table.idLens[l])
      chunks == StreamChunks(count, Dim, ChunkAlignment)
      at(c) == table.offsets[l] + c.first * Dim
  IN  [ok |-> read.ok /\ \A i \in DOMAIN chunks :
                            chunks[i].rows > 0 /\ CanRead(file.bytes, at(chunks[i]), chunks[i].rows * Dim),
       chunks |-> [i \in DOMAIN chunks |->
                     [ids |-> SubSeq(read.ids, chunks[i].first + 1, chunks[i].first + chunks[i].rows),
                      codes |-> ReadAt(file.bytes, at(chunks[i]), chunks[i].rows * Dim)]]]

\* The rows a scan sees in blocked codes: the blocks are counted from the first
\* row it was given.
SqRowsOf(ids, codes) ==
  [i \in DOMAIN ids |->
     LET start == ((i - 1) \div BlockSize) * BlockSize
         lanes == Smaller(BlockSize, Len(ids) - start)
     IN  [id |-> ids[i], cells |-> [c \in 1..Dim |-> codes[start * Dim + (c - 1) * lanes + (i - start)]]]]

------------------------------------------------------------------------------
(* The IVF-RQ file of ivfrq_io.rs: the codes of a list in blocks of rows, by bit *)
(* plane and byte, then the factors of every block, by field.  A list is always *)
(* read whole.  An index is [metric, seed, centroids, lists]; factor f of a row *)
(* is the value FactorValue(row, f).                                           *)

\* padded_dimension: the next multiple of the rotation block, 64.
PaddedDimension(d) == ((d + RotationBlock - 1) \div RotationBlock) * RotationBlock
PaddedDim == PaddedDimension(Dim)

PlaneSize == PaddedDim \div 8
RqCodeSize == Bits * PlaneSize
\* index_factors_fields
FactorFields == IF Bits = 1 THEN 2 ELSE 5
PrefixBytes == I64Bytes + 2 * I32Bytes

FactorValue(row, f) == 1000 + 10 * row.code + f

RqListPayloadLen(count, idLen) ==
  IF count = 0 THEN 0 ELSE PrefixBytes + idLen + count * RqCodeSize + count * FactorFields * F32Bytes

\* order.chunks(RQ_SCAN_BLOCK_SIZE)
Blocks(rows) ==
  [b \in 1..((Len(rows) + BlockSize - 1) \div BlockSize) |->
     SubSeq(rows, (b - 1) * BlockSize + 1, Smaller(b * BlockSize, Len(rows)))]

\* Faulty variant of BlockFactors: the factors of a row stay together.
BlockFactorsByRow(block) ==
  FlattenSeq([i \in DOMAIN block |-> [f \in 1..FactorFields |-> FactorValue(block[i], f)]])

BlockFactors(block) ==
  FlattenSeq([f \in 1..FactorFields |-> [i \in DOMAIN block |-> FactorValue(block[i], f)]])

\* block_list: the codes and the factors of a list, block by block.
BlockList(rows) ==
  LET blocks == Blocks(rows)
  IN  [codes |-> FlattenSeq([b \in DOMAIN blocks |->
                   FlattenSeq([c \in 1..RqCodeSize |-> [i \in DOMAIN blocks[b] |-> <<blocks[b][i].code, c>>]])]),
       factors |-> FlattenSeq([b \in DOMAIN blocks |-> BlockFactors(blocks[b])])]

WriteIvfRqIndex(index) ==
  LET lists == index.lists
      sorted == [l \in DOMAIN lists |-> SortedRows(lists[l])]
      idBytes == [l \in DOMAIN lists |-> EncodeDeltaVarintIds(Ids(sorted[l]))]
      counts == [l \in DOMAIN lists |-> Len(lists[l])]
      idLens == [l \in DOMAIN lists |-> Len(idBytes[l])]
      sizes == [l \in DOMAIN lists |-> RqListPayloadLen(counts[l], idLens[l])]
      front == Zeros(HeaderBytes) \o F32Slice(index.centroids)
      offsets == ListOffsets(Len(front) + Len(lists) * EntryBytes, sizes)
      payload(l) ==
        LET blocked == BlockList(sorted[l])
        IN  LeBytes(sorted[l][1].id, I64Bytes) \o LeBytes(idLens[l], I32Bytes)
              \o LeBytes(Len(blocked.codes), I32Bytes) \o Raw(idBytes[l]) \o blocked.codes
              \o F32Slice(blocked.factors)
  IN  [header |-> [magic |-> "rq", version |-> 1, d |-> Dim, padded |-> PaddedDim, nlist |-> Len(lists),
                   metric |-> index.metric, flags |-> {"delta", "blocked", "soa"}, bits |-> Bits,
                   total |-> SumOf(counts), seed |-> index.seed, rounds |-> Rounds,
                   plane |-> PlaneSize, rotation |-> 2, layout |-> 3],
       bytes |-> front \o TableBytes(offsets, counts, idLens)
                   \o FlattenSeq([l \in DOMAIN lists |-> IF lists[l] = <<>> THEN <<>> ELSE payload(l)])]

RqOpenWithHeader(h) ==
  /\ h.magic = "rq" /\ h.version = 1 /\ h.d > 0 /\ h.padded > 0
  /\ h.padded = PaddedDimension(h.d) /\ h.nlist > 0 /\ h.metric \in Metrics
  /\ h.plane > 0 /\ h.total >= 0 /\ h.plane = h.padded \div 8 /\ h.bits \in 1..8
  /\ h.rounds = Rounds /\ h.rotation = 2 /\ h.layout = 3
  /\ h.flags = {"delta", "blocked", "soa"}

RqEnsureLoaded(file) ==
  LET h == file.header
      centroidBytes == h.nlist * h.d * F32Bytes
      len == centroidBytes + h.nlist * EntryBytes
      cells == ReadAt(file.bytes, HeaderBytes, len)
      table == DecodeTable(SubSeq(cells, centroidBytes + 1, len))
  IN  [ok |-> /\ CanRead(file.bytes, HeaderBytes, len)
              /\ \A l \in 1..h.nlist : table.counts[l] >= 0 /\ table.idLens[l] >= 0
              /\ SumOf(table.counts) = h.total,
       table |-> table, centroids |-> BytesToF32Vec(SubSeq(cells, 1, centroidBytes))]

\* decode_inverted_list_payload
DecodeInvertedListPayload(cells, count, idLen) ==
  LET codeStart == PrefixBytes + idLen
      factorStart == codeStart + count * RqCodeSize
      decoded == DecodeDeltaVarintIds(FromLe(cells), Values(SubSeq(cells, PrefixBytes + 1, codeStart)), count)
      factors == BytesToF32Vec(SubSeq(cells, factorStart + 1, Len(cells)))
  IN  IF \/ cells[I64Bytes + 1][1] # idLen
         \/ cells[I64Bytes + I32Bytes + 1][1] # count * RqCodeSize
         \/ Len(factors) # count * FactorFields
      THEN [ok |-> FALSE, ids |-> <<>>, codes |-> <<>>, factors |-> <<>>]
      ELSE [ok |-> decoded.ok, ids |-> decoded.ids,
            codes |-> SubSeq(cells, codeStart + 1, factorStart), factors |-> factors]

\* read_inverted_list, and read_inverted_lists for one list
RqReadInvertedList(file, table, l) ==
  LET len == RqListPayloadLen(table.counts[l], table.idLens[l])
  IN  IF table.counts[l] = 0 THEN [ok |-> TRUE, ids |-> <<>>, codes |-> <<>>, factors |-> <<>>]
      ELSE IF ~CanRead(file.bytes, table.offsets[l], len)
      THEN [ok |-> FALSE, ids |-> <<>>, codes |-> <<>>, factors |-> <<>>]
      ELSE DecodeInvertedListPayload(ReadAt(file.bytes, table.offsets[l], len), table.counts[l], table.idLens[l])

BlockLanes(count, start) == Smaller(BlockSize, count - start)

\* The rows a scan sees: a block's codes start at start * CodeSize, its factors
\* at start * FactorFields, both with the block's lanes next to each other.
RqRowsOf(list) ==
  [i \in DOMAIN list.ids |->
     LET start == ((i - 1) \div BlockSize) * BlockSize
         lanes == BlockLanes(Len(list.ids), start)
         code(c) == start * RqCodeSize + (c - 1) * lanes + (i - start)
         factor(f) == start * FactorFields + (f - 1) * lanes + (i - start)
     IN  [id |-> list.ids[i],
          cells |-> [c \in 1..RqCodeSize |-> list.codes[code(c)]],
          factors |-> [f \in 1..FactorFields |-> list.factors[factor(f)]]]]
==============================================================================

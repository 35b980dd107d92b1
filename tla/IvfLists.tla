------------------------------- MODULE IvfLists -------------------------------
(* What the four IVF formats share when they store and read inverted lists: the *)
(* delta-varint row IDs, the prefix of lists one batch reads, the chunks of a   *)
(* list too large to be read at once, and the multi-range pread.  Every        *)
(* operator is a function of its arguments.  A byte of the file is a pair       *)
(* <<value, index>>: an integer of w bytes is the cells <<v, 1>> .. <<v, w>>.    *)
EXTENDS Integers, Sequences, SequencesExt, FiniteSetsExt

CONSTANTS GroupBits,     \* value bits in a byte of a varint (7)
          IdBits,        \* width of a row ID (64)
          I64Bytes, I32Bytes, F32Bytes,   \* widths in the file (8, 4, 4)
          HeaderBytes,   \* the header, 64 in every format
          MaxBatchBytes, \* MAX_IVF_BATCH_READ_BYTES
          StreamSlack    \* IVF_STREAM_ALLOCATION_SLACK

LastGroup == (IdBits - 1) \div GroupBits   \* groups before the last one (9)

\* The last group of a varint holds a single bit, as bit 63 of a u64 does.
\* IdBits = LastGroup * GroupBits + 1, and MaxBatchBytes exceeds StreamSlack.

SumOf(s) == LET sum[i \in 0..Len(s)] == IF i = 0 THEN 0 ELSE sum[i - 1] + s[i] IN sum[Len(s)]

------------------------------------------------------------------------------
(* Bytes                                                                       *)

LeBytes(v, w) == [i \in 1..w |-> <<v, i>>]
FromLe(cells) == cells[1][1]
Raw(bytes) == [i \in DOMAIN bytes |-> <<bytes[i], 0>>]
Values(cells) == [i \in DOMAIN cells |-> cells[i][1]]

\* write_f32_slice and bytes_to_f32_vec
F32Slice(values) == FlattenSeq([i \in DOMAIN values |-> LeBytes(values[i], F32Bytes)])
BytesToF32Vec(cells) == [i \in 1..(Len(cells) \div F32Bytes) |-> cells[(i - 1) * F32Bytes + 1][1]]
Zeros(n) == Raw([i \in 1..n |-> 0])

\* One range of a pread: the whole range or an error.
CanRead(file, pos, len) == pos >= 0 /\ pos + len <= Len(file)
ReadAt(file, pos, len) == SubSeq(file, pos + 1, pos + len)

------------------------------------------------------------------------------
(* Delta-varint row IDs                                                        *)

Continue == 2 ^ GroupBits
AsUnsigned(id) == id % 2 ^ IdBits
AsSigned(u) == IF u >= 2 ^ (IdBits - 1) THEN u - 2 ^ IdBits ELSE u

\* write_u64_varint
WriteVarint(value) ==
  LET RECURSIVE put(_)
      put(v) == IF v < Continue THEN <<v>> ELSE <<Continue + (v % Continue)>> \o put(v \div Continue)
  IN  put(value)

\* read_u64_varint at pos: [ok, value, pos].  A varint ends at its first byte
\* without the continuation bit, which must come within the width of an ID, and
\* the last group may only hold the top bit.  A zero group may come last.
ReadVarint(bytes, pos) ==
  LET ends == {n \in 1..(LastGroup + 1) :
                 /\ pos + n <= Len(bytes) /\ bytes[pos + n] < Continue
                 /\ \A m \in 1..(n - 1) : bytes[pos + m] >= Continue}
      n == CHOOSE x \in ends : TRUE
  IN  IF ends = {} \/ (n = LastGroup + 1 /\ bytes[pos + n] > 1)
      THEN [ok |-> FALSE, value |-> 0, pos |-> pos]
      ELSE [ok |-> TRUE, pos |-> pos + n,
            value |-> SumOf([m \in 1..n |-> (bytes[pos + m] % Continue) * Continue ^ (m - 1)])]

\* Faulty variant of EncodeDeltaVarintIds: every delta is taken from the base.
EncodeDeltaVarintIdsFromBase(ids) ==
  FlattenSeq([i \in DOMAIN ids |-> WriteVarint((ids[i] - ids[1]) % 2 ^ IdBits)])

EncodeDeltaVarintIds(ids) ==
  FlattenSeq([i \in DOMAIN ids |->
                WriteVarint((ids[i] - ids[IF i = 1 THEN 1 ELSE i - 1]) % 2 ^ IdBits)])

\* The loop of decode_delta_varint_ids: [ok, pos, ids] after count IDs.
DecodeLoop(base, buf, count) ==
  LET push(a, r, id) == IF ~a.ok \/ ~r.ok \/ id < a.prev THEN [a EXCEPT !.ok = FALSE]
                        ELSE [ok |-> TRUE, pos |-> r.pos, prev |-> id, ids |-> Append(a.ids, id)]
      next(a, r) == push(a, r, AsSigned(AsUnsigned(a.prev + r.value)))
      after[i \in 0..count] ==
        IF i = 0 THEN [ok |-> TRUE, pos |-> 0, prev |-> base, ids |-> <<>>]
        ELSE next(after[i - 1], ReadVarint(buf, after[i - 1].pos))
  IN  after[count]

\* Faulty variant of DecodeDeltaVarintIds: bytes left over are ignored.
DecodeDeltaVarintIdsLoose(base, buf, count) ==
  LET all(a) == [ok |-> a.ok, ids |-> a.ids] IN all(DecodeLoop(base, buf, count))

DecodeDeltaVarintIds(base, buf, count) ==
  LET all(a) == [ok |-> a.ok /\ a.pos = Len(buf), ids |-> a.ids] IN all(DecodeLoop(base, buf, count))

\* read_delta_varint_ids_at: base, length and encoded IDs, if the encoded and
\* the decoded IDs fit the bound together.
ReadDeltaVarintIdsAt(file, offset, count, idBytesLen) ==
  LET prefix == I64Bytes + I32Bytes + idBytesLen
      cells == ReadAt(file, offset, prefix)
  IN  IF prefix + count * I64Bytes > MaxBatchBytes \/ ~CanRead(file, offset, prefix)
         \/ FromLe(SubSeq(cells, I64Bytes + 1, I64Bytes + I32Bytes)) # idBytesLen
      THEN [ok |-> FALSE, ids |-> <<>>]
      ELSE DecodeDeltaVarintIds(FromLe(cells), Values(SubSeq(cells, I64Bytes + I32Bytes + 1, prefix)), count)

------------------------------------------------------------------------------
(* How much is read at a time                                                  *)

IvfPayloadIsOversized(len) == len > MaxBatchBytes

\* Faulty variant of AlignDown: a chunk may end inside a block.
AlignDownNever(rows, remaining, alignment) == rows

AlignDown(rows, remaining, alignment) ==
  IF rows < remaining THEN rows - (rows % alignment) ELSE rows

\* bounded_ivf_stream_chunk_rows; 0 when the code returns an error.
StreamChunkRows(remaining, rowBytes, retained, alignment) ==
  LET available == MaxBatchBytes - retained - StreamSlack
      fit == available \div rowBytes
  IN  IF available < 0 THEN 0
      ELSE AlignDown(IF fit < remaining THEN fit ELSE remaining, remaining, alignment)

\* The rows <<first, last>> of the chunks a streamed list is read in; one that
\* would hold no row ends the call with an error.
StreamChunks(count, rowBytes, alignment) ==
  LET retained == count * I64Bytes
      RECURSIVE from(_)
      from(start) ==
        LET rows == StreamChunkRows(count - start, rowBytes, retained, alignment)
        IN  IF start = count THEN <<>>
            ELSE IF rows = 0 THEN <<[first |-> start, rows |-> 0]>>
            ELSE <<[first |-> start, rows |-> rows]>> \o from(start + rows)
  IN  from(0)

\* max_ranges_per_pread: zero is no limit.
RangeLimit(maxRanges, lens) == IF maxRanges = 0 THEN Len(lens) ELSE maxRanges

\* Faulty variant of BatchEnd: a list without rows takes a range too.
BatchEndCountsEmpty(lens, maxRanges) ==
  FoldLeft(LAMBDA a, i :
             LET ranges == a.ranges + 1
                 bytes == a.bytes + lens[i]
             IN  IF a.done \/ (i > 1 /\ (ranges > RangeLimit(maxRanges, lens) \/ bytes > MaxBatchBytes))
                 THEN [a EXCEPT !.done = TRUE]
                 ELSE [done |-> FALSE, ranges |-> ranges, bytes |-> bytes, end |-> i],
           [done |-> FALSE, ranges |-> 0, bytes |-> 0, end |-> 0],
           [i \in DOMAIN lens |-> i]).end

\* bounded_ivf_payload_batch_end
BatchEnd(lens, maxRanges) ==
  FoldLeft(LAMBDA a, i :
             LET ranges == a.ranges + (IF lens[i] = 0 THEN 0 ELSE 1)
                 bytes == a.bytes + lens[i]
             IN  IF a.done \/ (i > 1 /\ (ranges > RangeLimit(maxRanges, lens) \/ bytes > MaxBatchBytes))
                 THEN [a EXCEPT !.done = TRUE]
                 ELSE [done |-> FALSE, ranges |-> ranges, bytes |-> bytes, end |-> i],
           [done |-> FALSE, ranges |-> 0, bytes |-> 0, end |-> 0],
           [i \in DOMAIN lens |-> i]).end

\* Faulty variant of PreadEnd: only the number of ranges bounds a pread.
PreadEndUnbounded(lens, start, maxRanges) ==
  LET last == start + RangeLimit(maxRanges, lens) IN IF last < Len(lens) THEN last ELSE Len(lens)

\* The inner loop of pread_batched_slices_with_limit: where the pread that starts
\* after `start` payloads ends.
PreadEnd(lens, start, maxRanges) ==
  FoldLeft(LAMBDA a, i :
             LET next == a.bytes + lens[i]
             IN  IF a.done \/ i - start > RangeLimit(maxRanges, lens)
                    \/ (i > start + 1 /\ next > MaxBatchBytes)
                 THEN [a EXCEPT !.done = TRUE]
                 ELSE [done |-> FALSE, bytes |-> next, end |-> i],
           [done |-> FALSE, bytes |-> 0, end |-> start + 1],
           [j \in 1..(Len(lens) - start) |-> start + j]).end

\* pread_batched_slices_with_limit: the payloads <<start, end>> of each pread.
PreadBatches(lens, maxRanges) ==
  LET RECURSIVE from(_)
      from(start) == IF start = Len(lens) THEN <<>>
                     ELSE <<<<start, PreadEnd(lens, start, maxRanges)>>>> \o from(PreadEnd(lens, start, maxRanges))
  IN  from(0)

\* Faulty variant of AlignedPayload: the offset of the suffix is kept.
AlignedPayloadOffset(payloadLen, suffixStart, alignment) ==
  [readStart |-> suffixStart % alignment,
   words |-> ((suffixStart % alignment) + payloadLen + alignment - 1) \div alignment]

\* AlignedFlatPayload and AlignedCodePayload: where in storage of words of
\* `alignment` bytes the payload is read so that its suffix is aligned.
AlignedPayload(payloadLen, suffixStart, alignment) ==
  LET readStart == (alignment - (suffixStart % alignment)) % alignment
  IN  [readStart |-> readStart,
       words |-> (readStart + payloadLen + alignment - 1) \div alignment]

\* The offsets the writers put in the table: empty lists take no bytes.
ListOffsets(dataStart, sizes) ==
  [l \in DOMAIN sizes |-> dataStart + SumOf(SubSeq(sizes, 1, l - 1))]

\* sort_by_key on the row ID: a stable order of a list's rows.
SortedRows(rows) ==
  [n \in DOMAIN rows |->
     rows[CHOOSE i \in DOMAIN rows :
            Cardinality({j \in DOMAIN rows :
                           rows[j].id < rows[i].id \/ (rows[j].id = rows[i].id /\ j < i)}) = n - 1]]

Ids(rows) == [i \in DOMAIN rows |-> rows[i].id]

\* One entry of the offset table per list.
TableBytes(offsets, counts, idLens) ==
  FlattenSeq([l \in DOMAIN offsets |-> LeBytes(offsets[l], I64Bytes) \o LeBytes(counts[l], I32Bytes)
                                        \o LeBytes(idLens[l], I32Bytes)])

EntryBytes == I64Bytes + 2 * I32Bytes

\* The table decoded: [offsets, counts, idLens].
DecodeTable(cells) ==
  LET n == Len(cells) \div EntryBytes
      field(l, at) == cells[(l - 1) * EntryBytes + at][1]
  IN  [offsets |-> [l \in 1..n |-> field(l, 1)],
       counts |-> [l \in 1..n |-> field(l, I64Bytes + 1)],
       idLens |-> [l \in 1..n |-> field(l, I64Bytes + I32Bytes + 1)]]
==============================================================================

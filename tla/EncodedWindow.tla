--------------------------- MODULE EncodedWindow ---------------------------
(***************************************************************************)
(* One window of a COPY ingest (EncodedIngestWindow): staged rows are      *)
(* encoded column by column into chunks that are kept raw or compressed in *)
(* a shared arena, or, once the window has proved incompressible, retained *)
(* as Arrow batches and encoded while they are uploaded.                   *)
(***************************************************************************)
EXTENDS IngestQueue

CONSTANTS
    ChunkBytes,  \* ENCODE_CHUNK_BYTES
    MinBuffer,   \* MIN_ENCODE_BUFFER_BYTES
    SlabBytes    \* COMPRESSED_ARENA_SLAB_BYTES

ASSUME WindowAssumption ==
    /\ {ChunkBytes, MinBuffer, SlabBytes} \subseteq Nat \ {0}
    /\ MinBuffer <= ChunkBytes

\* The encoder of monetdb-arrow.  A byte is named by its row, its column and its
\* place in the value; values that refer to earlier ones are in WireColumns.
Bytes(row, k) == [i \in 1..row.bytes[k] |-> <<row.id, k, i>>]
encode_column(rows, k) == FlattenSeq([i \in DOMAIN rows |-> Bytes(rows[i], k)])
estimated_encoded_size(rows, k) == Total([i \in DOMAIN rows |-> rows[i].bytes[k]])

\* encode_column_chunks: each array is cut into slices of as many rows as make a
\* chunk of its average row, at least one; a piece may be longer than a chunk.
RowsPerChunk(rows, k) ==
    IF estimated_encoded_size(rows, k) = 0 THEN AtLeastOne(Len(rows))
    ELSE AtLeastOne(Least((ChunkBytes * Len(rows)) \div estimated_encoded_size(rows, k), Len(rows)))
RowSlice(rows, n, i) == SubSeq(rows, (i - 1) * n + 1, Least(i * n, Len(rows)))
Slices(rows, n) == [i \in 1..((Len(rows) + n - 1) \div n) |-> RowSlice(rows, n, i)]
ArrayPieces(rows, k) ==
    LET slices == Slices(rows, RowsPerChunk(rows, k))
    IN  [i \in DOMAIN slices |-> encode_column(slices[i], k)]
encode_column_chunks(batches, k) ==
    FlattenSeq([i \in DOMAIN batches |-> ArrayPieces(batches[i].rows, k)])

\* LZ4: a block or a frame made of tokens that only decompress together.
Compress(bytes, format, len) == [i \in 1..len |-> <<bytes, format, len, i>>]
Garbled == << <<0, 0, 0>> >>
Decompress(data, format) ==
    IF data # <<>> /\ data = Compress(data[1][1], format, Len(data)) THEN data[1][1] ELSE Garbled

\* How well a chunk compresses is the data's choice; seven eighths keep it.
Shrunk(n) == (n * 7) \div 8
Shrinks(n, pick) == pick # "no" /\ Shrunk(n) > 0

Planes(s, width) == Len(s) \div width
shuffle_bytes_into(s, width) ==
    [i \in 1..Len(s) |->
        IF i > Planes(s, width) * width THEN s[i]
        ELSE s[((i - 1) % Planes(s, width)) * width + (i - 1) \div Planes(s, width) + 1]]
unshuffle_bytes(s, width) ==
    [i \in 1..Len(s) |->
        IF i > Planes(s, width) * width THEN s[i]
        ELSE s[((i - 1) % width) * Planes(s, width) + (i - 1) \div width + 1]]

\* CompressedArena: the last slab is used while it has room.
HasRoom(arena, data) ==
    arena # <<>> /\ Last(arena).size - Len(Last(arena).data) >= Len(data)
Allocated(arena, data) ==
    IF HasRoom(arena, data) THEN arena
    ELSE Append(arena, [size |-> IF Len(data) > SlabBytes THEN Len(data) ELSE SlabBytes, data |-> <<>>])
Placed(arena, data) ==
    [arena EXCEPT ![Len(arena)].data = @ \o data]
store(arena, data) == Placed(Allocated(arena, data), data)
slice(arena, c) == SubSeq(arena[c.slab].data, c.offset + 1, c.offset + c.len)
Located(arena, data) ==
    [slab |-> Len(arena), offset |-> Len(Last(arena).data) - Len(data), len |-> Len(data)]

EmptyColumn == [chunks |-> <<>>, buffer |-> <<>>, capacity |-> 0, mode |-> "unknown"]
EmptyWindow(wire) ==
    [rows |-> <<>>, estimated |-> 0, encoded |-> 0, arena |-> <<>>, wire |-> wire,
     columns |-> [k \in Columns |-> EmptyColumn], incompressible |-> FALSE, eligible |-> TRUE,
     retain |-> FALSE, retained |-> <<>>, pinned |-> 0]

\* finish_pending of column k: pick is what compression makes of the chunk,
\* "plain" or "shuffle" when that is the smaller one, "no" if neither is small
\* enough.
Probed(w, k, pick) ==
    IF pick = "shuffle" /\ FixedWidth[k] > 1 /\ Len(w.columns[k].buffer) >= FixedWidth[k] THEN "shuffle"
    ELSE "plain"

SelectTransform(w, k, pick) ==
    IF w.columns[k].mode # "unknown" THEN w.columns[k].mode
    ELSE IF w.wire = "lz4" THEN "plain"
    ELSE Probed(w, k, pick)

FormatOf(w, transform) == IF w.wire # "none" /\ transform = "plain" THEN "frame" ELSE "block"

Keep(w, k, chunk, mode) ==
    [w EXCEPT !.columns[k] = [chunks |-> Append(@.chunks, chunk), buffer |-> <<>>, capacity |-> 0, mode |-> mode]]

store_raw(w, k) ==
    Keep(w, k, [kind |-> "raw", data |-> w.columns[k].buffer], "disabled")

StoreLz4(w, k, data, transform) ==
    Keep([w EXCEPT !.arena = store(@, data)], k,
         [kind |-> "lz4", at |-> Located(store(w.arena, data), data), decoded |-> Len(w.columns[k].buffer),
          transform |-> transform, format |-> FormatOf(w, transform)], transform)

Transformed(input, transform, width) ==
    IF transform = "shuffle" THEN shuffle_bytes_into(input, width) ELSE input

CompressedLen(n, pick) == IF Shrinks(n, pick) THEN Shrunk(n) ELSE n + 1

compress_bytes(w, k, transform, pick) ==
    Compress(Transformed(w.columns[k].buffer, transform, FixedWidth[k]), FormatOf(w, transform),
             CompressedLen(Len(w.columns[k].buffer), pick))

finish_pending(w, k, pick) ==
    IF w.columns[k].buffer = <<>> THEN w
    ELSE IF w.columns[k].mode = "disabled" THEN store_raw(w, k)
    ELSE IF w.wire = "lz4" \/ Shrinks(Len(w.columns[k].buffer), pick)
    THEN StoreLz4(w, k, compress_bytes(w, k, SelectTransform(w, k, pick), pick), SelectTransform(w, k, pick))
    ELSE store_raw(w, k)

Clamped(n) == IF n < MinBuffer THEN MinBuffer ELSE Least(n, ChunkBytes)
Opened(w, k, bytes) ==
    IF w.columns[k].capacity # 0 THEN w ELSE [w EXCEPT !.columns[k].capacity = Clamped(Len(bytes))]
Room(w, k) == w.columns[k].capacity - Len(w.columns[k].buffer)
Copied(w, k, bytes) == [w EXCEPT !.columns[k].buffer = @ \o SubSeq(bytes, 1, Least(Len(bytes), Room(w, k)))]
FinishFull(w, k, pick) == IF Room(w, k) = 0 THEN finish_pending(w, k, pick) ELSE w

\* One round of push: what fits the buffer is copied, and a full one finished.
push(w, k, bytes, pick) == FinishFull(Copied(Opened(w, k, bytes), k, bytes), k, pick)
Pushed(w, k, bytes) == Least(Len(bytes), Room(Opened(w, k, bytes), k))

Sizes(chunks) ==
    Total([i \in DOMAIN chunks |-> IF chunks[i].kind = "raw" THEN Len(chunks[i].data) ELSE chunks[i].at.len])
RawSizes(chunks) ==
    Total([i \in DOMAIN chunks |-> IF chunks[i].kind = "raw" THEN Len(chunks[i].data) ELSE 0])
AllChunks(w) == FlattenSeq([k \in Columns |-> w.columns[k].chunks])
encoded_stored_bytes(w) == Sizes(AllChunks(w))
physical_stored_bytes(w) ==
    RawSizes(AllChunks(w)) + Total([i \in DOMAIN w.arena |-> w.arena[i].size]) + w.pinned

\* What append does to the window's mode once the staged rows are encoded.
Judged(w) ==
    [w EXCEPT !.incompressible = w.wire # "lz4" /\ encoded_stored_bytes(w) * 8 > w.encoded * 7,
              !.retain = w.wire # "lz4" /\ encoded_stored_bytes(w) * 8 > w.encoded * 7 /\ w.eligible]

Noted(w, batches) ==
    [w EXCEPT !.rows = @ \o RowsOf(batches), !.estimated = @ + BytesOf(batches),
              !.eligible = @ /\ \A i \in DOMAIN RowsOf(batches) : ~RowsOf(batches)[i].null]

\* append to a window that retains Arrow; pinned: the buffers the batches keep
\* alive, which is up to the source.
Retained(w, batches, pinned) ==
    [Noted(w, batches) EXCEPT !.retained = @ \o batches, !.pinned = pinned]

PlainFrame(c) == c.kind = "lz4" /\ c.transform = "plain" /\ c.format = "frame"

uses_wire_lz4_first(w) ==
    \/ w.wire = "lz4"
    \/ /\ w.wire = "auto"
       /\ w.retained = <<>>
       /\ \A k \in Columns : w.columns[k].chunks # <<>> /\ PlainFrame(w.columns[k].chunks[1])
uses_wire_lz4(w) ==
    \/ w.wire = "lz4"
    \/ /\ w.wire = "auto"
       /\ w.retained = <<>>
       /\ \A k \in Columns :
             /\ w.columns[k].chunks # <<>>
             /\ \A i \in DOMAIN w.columns[k].chunks : PlainFrame(w.columns[k].chunks[i])

\* A chunk the server could not undo: the callback refuses to send it.
ClientOnly(w, k) ==
    \E i \in DOMAIN w.columns[k].chunks :
        w.columns[k].chunks[i].kind = "lz4" /\ ~PlainFrame(w.columns[k].chunks[i])

\* What the upload callback writes of one encoded chunk, as the server reads it.
Undone(c, decoded, width) ==
    IF c.transform = "shuffle" THEN unshuffle_bytes(decoded, width) ELSE decoded

Written(w, c, width, lz4) ==
    IF c.kind = "raw" THEN IF lz4 THEN Garbled ELSE c.data
    ELSE IF lz4 THEN Decompress(slice(w.arena, c.at), "frame")
    ELSE Undone(c, Decompress(slice(w.arena, c.at), c.format), width)

WrittenColumn(w, k, lz4) ==
    FlattenSeq([i \in DOMAIN w.columns[k].chunks |-> Written(w, w.columns[k].chunks[i], FixedWidth[k], lz4)])

=============================================================================

---------------------------- MODULE WireColumns -----------------------------
(***************************************************************************)
(* A whole column: encode.rs from Arrow arrays to the pieces of a COPY      *)
(* BINARY upload, decode.rs from the bytes of one Xexportbin column back to *)
(* Arrow values.                                                            *)
(*                                                                         *)
(* The wire form of a column is a sequence: slots (WireCells) for the types *)
(* whose rows have one size, words of four octets for addresses, bytes for  *)
(* strings and blobs.  Blob lengths fit one byte here, so that the other    *)
(* seven of a header only hold its sign.                                    *)
(***************************************************************************)
EXTENDS WireCells, SequencesExt

CONSTANTS ShortMax,      \* 63: the longest distance of a one-byte back-reference
          Radix,         \* 128: the values of a 7-bit group
          UsizeMax,      \* usize::MAX
          OffsetMax,     \* i32::MAX, the largest Arrow offset
          ExpandFactor,  \* 16
          ExpandFloor    \* 1 MiB

ASSUME LimitsAssumption ==
    /\ ShortMax \in 1..63 /\ Radix \in 2..128
    /\ {UsizeMax, OffsetMax, ExpandFactor, ExpandFloor} \subseteq Nat \ {0}

StringTypes  == {"Varchar", "Url", "Json"}
AddressTypes == {"Inet4", "Inet6"}

\* The bytes of one element of the wire form.
ElementBytes(m) ==
    CASE m.name \in AddressTypes -> 4
      [] m.name \in StringTypes \cup {"Blob"} -> 1
      [] OTHER -> FixedWireWidth(m)

Bytes(m, wire) == ElementBytes(m) * Len(wire)

AllOk(results) == \A i \in DOMAIN results : results[i] # Fail
Values(results) == [i \in DOMAIN results |-> results[i][1]]

-----------------------------------------------------------------------------
(* Encoding.                                                                *)

\* encode_dictionary_strings and array.iter(): the text of every row, or Fail
\* for a key outside the dictionary.
StringRows(f, cells) ==
    LET Row(c) == IF ~c.valid THEN <<>> ELSE IF f.type = "Dictionary" THEN f.dict[c.value + 1]
                                        ELSE <<c.value>>
    IN
    IF f.type = "Dictionary" /\ \E i \in DOMAIN cells : cells[i].valid /\ cells[i].value >= Len(f.dict)
      THEN Fail
      ELSE Ok([i \in DOMAIN cells |-> Row(cells[i])])

\* append_backref.
LongDigits[d \in Nat] ==
    IF d \div Radix = 0 THEN <<d % Radix>> ELSE <<128 + (d % Radix)>> \o LongDigits[d \div Radix]

AppendBackref(distance) ==
    IF distance <= ShortMax THEN <<128 + distance>> ELSE <<128>> \o LongDigits[distance]

\* encode_strings: `seen` holds the last row of every value, `null` the last
\* NULL row.
EncodeStrings(rows) ==
    LET Before(i) == { j \in 1 .. i - 1 : rows[j] = rows[i] }
        Previous(i) == CHOOSE j \in Before(i) : \A k \in Before(i) : k <= j
        Item(i) ==
            IF rows[i] = <<>>
              THEN IF Before(i) # {} /\ i - Previous(i) < ShortMax + 1
                     THEN AppendBackref(i - Previous(i)) ELSE <<128, 0>>
            ELSE IF Before(i) = {} THEN rows[i][1] \o <<0>> ELSE AppendBackref(i - Previous(i))
    IN
    IF \E i \in DOMAIN rows : rows[i] # <<>> /\ Contains(rows[i][1], 0) THEN Fail
    ELSE Ok(FlattenSeq([i \in DOMAIN rows |-> Item(i)]))

BlobHeader(n) == IF n = -1 THEN [i \in 1..8 |-> 255] ELSE [i \in 1..8 |-> IF i = 1 THEN n ELSE 0]

\* encode_blobs.
EncodeBlobs(cells) ==
    FlattenSeq([i \in DOMAIN cells |->
        IF cells[i].valid THEN BlobHeader(Len(cells[i].value)) \o cells[i].value ELSE BlobHeader(-1)])

\* encode_column.
EncodeColumn(f, cells) ==
    Then(MonetTypeForField(f), LAMBDA m :
        LET Slots(slots) == IF AllOk(slots) THEN Ok(Values(slots)) ELSE Fail IN
        IF m.name = "Inet" THEN Fail
        ELSE IF f.type = "Null" THEN Ok(FlattenSeq([i \in DOMAIN cells |-> <<128, 0>>]))
        ELSE IF m.name \in StringTypes THEN Then(StringRows(f, cells), EncodeStrings)
        ELSE IF m.name = "Blob" THEN Ok(EncodeBlobs(cells))
        ELSE IF m.name \in AddressTypes
          THEN Then(Slots([i \in DOMAIN cells |-> EncodeAddress(cells[i])]), LAMBDA addresses :
                    Ok(FlattenSeq([i \in DOMAIN addresses |-> AddressWords(m, addresses[i])])))
        ELSE Slots([i \in DOMAIN cells |-> EncodeCell(f, m, cells[i])]))

\* The text of an address in an estimate.
AddressText == [i \in 1..7 |-> 46]

\* estimated_strings, estimated_dictionary_strings and
\* estimated_dictionary_values.
EstimatedStrings(rows) ==
    FoldLeft(LAMBDA n, row : n + (IF row = <<>> THEN 2 ELSE Len(row[1]) + 1), 0, rows)

\* estimated_blobs.
EstimatedBlobs(cells) ==
    FoldLeft(LAMBDA n, c : n + 8 + (IF c.valid THEN Len(c.value) ELSE 0), 0, cells)

\* estimated_encoded_size.
EstimatedEncodedSize(f, cells) ==
    Then(MonetTypeForField(f), LAMBDA m :
        IF f.type = "Null" THEN Ok(2 * Len(cells))
        ELSE IF FixedWireWidth(m) > 0 THEN Ok(FixedWireWidth(m) * Len(cells))
        ELSE IF m.name = "Blob" THEN Ok(EstimatedBlobs(cells))
        ELSE IF m.name \in AddressTypes \cup {"Inet"}
          THEN Ok(EstimatedStrings([i \in DOMAIN cells |-> IF cells[i].valid THEN <<AddressText>> ELSE <<>>]))
        ELSE Then(StringRows(f, cells), LAMBDA rows : Ok(EstimatedStrings(rows))))

\* Mutants: every integer buffer is borrowed, nulls included; the sentinel in
\* a buffer is an error even under a null row.
BorrowedWireBytes_nulls(f, cells) ==
    IF f.type \in DOMAIN IntWidth THEN Ok(<<[i \in DOMAIN cells |-> cells[i].value]>>) ELSE Ok(<<>>)
BorrowedWireBytes_sentinel(f, cells) ==
    IF f.type \in DOMAIN IntWidth /\ \E i \in DOMAIN cells : cells[i].value = -Half[IntWidth[f.type]]
      THEN Fail ELSE Ok(<<>>)

\* borrowed_wire_bytes: Fail, or the array's own buffer if it needs no change.
\* The buffer of a null row is looked at as well.
BorrowedWireBytes(f, cells) ==
    LET w        == IntWidth[f.type]
        sentinel == { i \in DOMAIN cells : cells[i].value = -Half[w] }
        first    == CHOOSE i \in sentinel : \A j \in sentinel : i <= j
        whole    == \A i \in DOMAIN cells : cells[i].valid
        borrowed == IF whole THEN Ok(<<[i \in DOMAIN cells |-> cells[i].value]>>) ELSE Ok(<<>>)
    IN
    IF f.type \in DOMAIN IntWidth
      THEN IF sentinel = {} THEN borrowed ELSE IF cells[first].valid THEN Fail ELSE Ok(<<>>)
    ELSE IF f.type \in {"Float32", "Float64"}
      THEN IF \E i \in DOMAIN cells : cells[i].valid /\ cells[i].value \in {"nan", "inf"}
             THEN Fail ELSE borrowed
    ELSE Ok(<<>>)

\* The rows of one emitted piece of an array of n rows.
RowsPerChunk(n, estimated, target) ==
    LET rows   == IF n = 0 THEN 1 ELSE n
        wanted == IF estimated = 0 THEN rows ELSE (target * n) \div estimated
    IN  IF wanted < 1 THEN 1 ELSE IF wanted > rows THEN rows ELSE wanted

\* The pieces of one array, each a Result.
ArrayPieces(f, cells, target) ==
    LET Slice(k, rows) == SubSeq(cells, (k - 1) * rows + 1,
                                 IF k * rows > Len(cells) THEN Len(cells) ELSE k * rows)
        Piece(s) == Then(BorrowedWireBytes(f, s), LAMBDA b : IF b # <<>> THEN b ELSE EncodeColumn(f, s))
        Pieces(rows) == [k \in 1 .. (Len(cells) + rows - 1) \div rows |-> Piece(Slice(k, rows))]
        All(estimated) == IF estimated = Fail THEN <<Fail>>
                          ELSE Pieces(RowsPerChunk(Len(cells), estimated[1], target))
    IN  All(EstimatedEncodedSize(f, cells))

\* encode_column_chunks: what reached the sink, and whether every row did.
EncodeColumnChunks(f, arrays, target) ==
    LET Sent(pieces) == { k \in 0 .. Len(pieces) : \A i \in 1..k : pieces[i] # Fail }
        Upload(pieces, last) == [bytes |-> FlattenSeq(Values(SubSeq(pieces, 1, last))),
                                 complete |-> last = Len(pieces)]
        Until(pieces) == Upload(pieces, Max(Sent(pieces)))
    IN  Until(FlattenSeq([k \in DOMAIN arrays |-> ArrayPieces(f, arrays[k], target)]))

-----------------------------------------------------------------------------
(* Decoding.                                                                *)

\* str::from_utf8 on text of one- and two-byte characters (external).
IsUtf8(s) ==
    \A i \in DOMAIN s :
        \/ s[i] < 128
        \/ s[i] \in 194..223 /\ i < Len(s) /\ s[i + 1] \in 128..191
        \/ s[i] \in 128..191 /\ i > 1 /\ s[i - 1] \in 194..223

\* long_backref on the bytes after position pos: Fail, or an item with the
\* distance and the position after it.
LongBackref(bytes, pos) ==
    LET ends == { i \in pos + 1 .. Len(bytes) : bytes[i] < 128 }
        last == Min(ends)
        Unit(i) == Radix ^ (i - pos - 1)
        Low(i)  == bytes[i] % 128
        distance == FoldLeft(LAMBDA d, i : d + Low(i) * Unit(i), 0, [k \in 1 .. last - pos |-> pos + k])
    IN
    IF \/ ends = {}
       \/ \E i \in pos + 1 .. last : Unit(i) > UsizeMax \/ Low(i) > UsizeMax \div Unit(i)
       \/ distance > UsizeMax
      THEN Fail
      ELSE Ok([back |-> TRUE, distance |-> distance, text |-> <<>>, pos |-> last])

\* The literal that starts after pos, terminator included.
LiteralString(bytes, pos) ==
    LET Literal(text, end) ==
            IF IsUtf8(text) THEN Ok([back |-> FALSE, distance |-> 0, text |-> text, pos |-> end]) ELSE Fail
        Until(ends) == IF ends = {} THEN Fail ELSE Literal(SubSeq(bytes, pos + 1, Min(ends) - 1), Min(ends))
    IN  Until({ i \in pos + 1 .. Len(bytes) : bytes[i] = 0 })

\* The item after pos that both passes read: Fail, a back-reference (distance 0
\* is NULL) or a literal.
StringItem(bytes, pos) ==
    LET Item(first) ==
            IF first = 128 THEN LongBackref(bytes, pos + 1)
            ELSE IF first \in 129 .. 128 + ShortMax
              THEN Ok([back |-> TRUE, distance |-> first - 128, text |-> <<>>, pos |-> pos + 1])
            ELSE LiteralString(bytes, pos)
    IN  IF pos >= Len(bytes) THEN Fail ELSE Item(bytes[pos + 1])

TextBytes(rows) ==
    FoldLeft(LAMBDA n, row : n + (IF row = <<>> THEN 0 ELSE Len(row[1])), 0, rows)

\* A row that was read; the text so far must fit its limit.
StringRow(s, value, pos, limit) ==
    LET Row(rows) == IF value # <<>> /\ TextBytes(rows) > limit THEN [s EXCEPT !.state = "failed"]
                     ELSE [s EXCEPT !.pos = pos, !.rows = rows]
    IN  Row(Append(s.rows, value))

\* One row of decode_strings_without_backrefs: state is "ok", "failed" or, at
\* the first back-reference, "fallback".
PlainStringRow(bytes, s) ==
    LET Row(item) ==
            IF item = Fail THEN [s EXCEPT !.state = "failed"]
            ELSE IF item[1].back /\ item[1].distance # 0 THEN [s EXCEPT !.state = "fallback"]
            ELSE StringRow(s, IF item[1].back THEN <<>> ELSE <<item[1].text>>, item[1].pos, OffsetMax)
    IN  IF s.state # "ok" THEN s ELSE Row(StringItem(bytes, s.pos))

\* One row of decode_strings_with_backrefs; its history is the rows so far.
BackrefStringRow(bytes, s) ==
    LET expanded == IF ExpandFactor * Len(bytes) > ExpandFloor THEN ExpandFactor * Len(bytes) ELSE ExpandFloor
        limit    == IF expanded < OffsetMax THEN expanded ELSE OffsetMax
        n        == Len(s.rows)
        Row(item) ==
            IF item = Fail \/ item[1].distance > n THEN [s EXCEPT !.state = "failed"]
            ELSE StringRow(s, IF ~item[1].back THEN <<item[1].text>>
                              ELSE IF item[1].distance = 0 THEN <<>> ELSE s.rows[n + 1 - item[1].distance],
                           item[1].pos, limit)
    IN  IF s.state # "ok" THEN s ELSE Row(StringItem(bytes, s.pos))

\* decode_strings.
DecodeStrings(bytes, rows) ==
    LET start == [state |-> "ok", pos |-> 0, rows |-> <<>>]
        plain[r \in 0..rows] == IF r = 0 THEN start ELSE PlainStringRow(bytes, plain[r - 1])
        full[r \in 0..rows]  == IF r = 0 THEN start ELSE BackrefStringRow(bytes, full[r - 1])
        Finished(s) == IF s.state = "ok" /\ s.pos = Len(bytes) THEN Ok(s.rows) ELSE Fail
        Passes(s)   == Finished(IF s.state = "fallback" THEN full[rows] ELSE s)
    IN
    IF rows > Len(bytes) \/ Len(bytes) > OffsetMax THEN Fail ELSE Passes(plain[rows])

\* One row of decode_blob.
BlobRow(bytes, s) ==
    LET header == SubSeq(bytes, s.pos + 1, s.pos + 8)
        length == IF header[8] >= 128 THEN header[1] - 256 ELSE header[1]
        end    == s.pos + 8 + length
        rows   == Append(s.rows, <<SubSeq(bytes, s.pos + 9, end)>>)
    IN
    IF s.state # "ok" THEN s
    ELSE IF s.pos + 8 > Len(bytes) THEN [s EXCEPT !.state = "failed"]
    ELSE IF length = -1 THEN [s EXCEPT !.pos = @ + 8, !.rows = Append(@, <<>>)]
    ELSE IF length < -1 \/ end > Len(bytes) \/ TextBytes(rows) > OffsetMax
      THEN [s EXCEPT !.state = "failed"]
    ELSE [s EXCEPT !.pos = end, !.rows = rows]

\* decode_blob.
DecodeBlob(bytes, rows) ==
    LET start == [state |-> "ok", pos |-> 0, rows |-> <<>>]
        scan[r \in 0..rows] == IF r = 0 THEN start ELSE BlobRow(bytes, scan[r - 1])
        Finished(s) == IF s.state = "ok" /\ s.pos = Len(bytes) THEN Ok(s.rows) ELSE Fail
    IN
    IF 8 * rows > Len(bytes) \/ Len(bytes) - 8 * rows > OffsetMax THEN Fail ELSE Finished(scan[rows])

\* decode_column; expect_fixed compares the length of the column with the
\* declared rows.
DecodeColumn(m, wire, rows) ==
    LET Cells(cells) == IF AllOk(cells) THEN Ok(Values(cells)) ELSE Fail IN
    IF m.name \in {"Geometry", "Inet", "Xml"} THEN Fail
    ELSE IF m.name \in StringTypes THEN DecodeStrings(wire, rows)
    ELSE IF m.name = "Blob" THEN DecodeBlob(wire, rows)
    ELSE IF m.name \in AddressTypes THEN DecodeInet(wire, rows)
    ELSE IF Len(wire) # rows THEN Fail ELSE Cells([i \in DOMAIN wire |-> DecodeCell(m, wire[i])])

-----------------------------------------------------------------------------
(* The server's loader and exporter (external).                             *)

\* COPY BINARY reads a string column byte by byte.
ServerString(s, b) ==
    LET Row(v) == [s EXCEPT !.rows = Append(@, v), !.mode = "start", !.text = <<>>,
                            !.distance = 0, !.unit = 1]
        Back(d) == IF d = 0 THEN Row(<<>>) ELSE Row(s.rows[Len(s.rows) + 1 - d])
        total  == s.distance + (b % 128) * s.unit
    IN
    CASE s.mode = "start" /\ b = 128 -> [s EXCEPT !.mode = "long"]
      [] s.mode = "start" /\ b \in 129 .. 128 + ShortMax -> Back(b - 128)
      [] s.mode = "long" /\ b >= 128 -> [s EXCEPT !.distance = total, !.unit = @ * Radix]
      [] s.mode = "long" /\ b < 128 -> Back(total)
      [] b = 0 /\ s.mode # "long" -> Row(<<s.text>>)
      [] OTHER -> [s EXCEPT !.mode = "text", !.text = Append(@, b)]

ServerBlobs(bytes) ==
    LET next[pos \in 0 .. Len(bytes)] ==
            IF pos >= Len(bytes) THEN <<>>
            ELSE IF bytes[pos + 8] >= 128 THEN << <<>> >> \o next[pos + 8]
            ELSE << <<SubSeq(bytes, pos + 9, pos + 8 + bytes[pos + 1])>> >> \o next[pos + 8 + bytes[pos + 1]]
    IN  next[0]

ServerAddresses(m, words) ==
    LET width == Len(AddressWords(m, "zero"))
    IN  [i \in 1 .. Len(words) \div width |-> ServerReads(m, words[i * width])]

ServerLoads(m, wire) ==
    IF m.name \in StringTypes
      THEN FoldLeft(ServerString, [rows |-> <<>>, mode |-> "start", text |-> <<>>, distance |-> 0,
                                   unit |-> 1], wire).rows
    ELSE IF m.name = "Blob" THEN ServerBlobs(wire)
    ELSE IF m.name \in AddressTypes THEN ServerAddresses(m, wire)
    ELSE [i \in DOMAIN wire |-> ServerReads(m, wire[i])]

\* Xexportbin writes strings as literals; the decoder also admits exporters
\* that refer back, the long form possibly padded with empty groups.
ServerExports(m, table, style) ==
    LET Before(i) == { j \in 1 .. i - 1 : table[j] = table[i] }
        distance(i) == i - (CHOOSE j \in Before(i) : \A k \in Before(i) : k <= j)
        Literal(v) == IF v = <<>> THEN <<128, 0>> ELSE v[1] \o <<0>>
        Text(i) ==
            CASE style = "literal" \/ Before(i) = {} -> Literal(table[i])
              [] style = "backref" /\ Before(i) # {} -> AppendBackref(distance(i))
              [] style = "padded" /\ Before(i) # {} -> <<128, 128 + (distance(i) % Radix),
                                                        128 + (distance(i) \div Radix), 0>>
        Blob(v) == IF v = <<>> THEN BlobHeader(-1) ELSE BlobHeader(Len(v[1])) \o v[1]
    IN
    CASE m.name \in StringTypes -> FlattenSeq([i \in DOMAIN table |-> Text(i)])
      [] m.name = "Blob" -> FlattenSeq([i \in DOMAIN table |-> Blob(table[i])])
      [] m.name \in AddressTypes ->
           FlattenSeq([i \in DOMAIN table |-> AddressWords(m, ServerSlot(m, table[i]))])
      [] OTHER -> [i \in DOMAIN table |-> ServerSlot(m, table[i])]
=============================================================================

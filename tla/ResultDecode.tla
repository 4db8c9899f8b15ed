---------------------------- MODULE ResultDecode ----------------------------
(***************************************************************************)
(* One window of a result set, from the server's response to Arrow columns: *)
(* exportbin.rs parses an Xexportbin frame, decode.rs validates it against   *)
(* the request and decodes its columns, sharing the frame's allocation       *)
(* where the layout allows, and turns the text rows of an inline result into *)
(* the same wire form first.                                                *)
(*                                                                         *)
(* A frame is its header fields, the offset of its body, its table of        *)
(* contents and its size in bytes; data[k] is what the server wrote as       *)
(* column k.                                                                *)
(***************************************************************************)
EXTENDS WireColumns

-----------------------------------------------------------------------------
(* exportbin.rs.                                                            *)

\* column_range.
ColumnRangeOk(entry, body, tocPos) ==
    entry.start >= 0 /\ entry.length >= 0 /\ entry.start >= body /\ entry.start + entry.length <= tocPos

\* parse_frame, with parse_header and find_error_message.
ParseFrame(fr) ==
    LET n        == fr.columns
        occupied == { k \in DOMAIN fr.toc : fr.toc[k].length > 0 }
        End(k)   == fr.toc[k].start + fr.toc[k].length
    IN
    IF fr.error \/ fr.size < 11 \/ fr.body > 128 \/ fr.tocPos < 0 THEN Fail
    ELSE IF n > fr.size \div 16 \/ fr.tocPos < fr.body \/ fr.tocPos + 16 * n + 8 # fr.size THEN Fail
    ELSE IF \E k \in 1..n : ~ColumnRangeOk(fr.toc[k], fr.body, fr.tocPos) THEN Fail
    ELSE IF \E j, k \in occupied : fr.toc[j].start <= fr.toc[k].start /\ j # k /\ End(j) > fr.toc[k].start
      THEN Fail
    ELSE Ok(fr)

-----------------------------------------------------------------------------
(* decode.rs.                                                               *)

\* Mutant: the window of a frame is not compared with the request.
FrameMatches_anyWindow(fr, ms, request) ==
    fr.id = request.id /\ Len(ms) = Len(fr.toc) /\ fr.rows <= request.rows

\* validate_frame.
FrameMatches(fr, ms, request) ==
    /\ fr.id = request.id
    /\ fr.start = request.start
    /\ Len(ms) = Len(fr.toc)
    /\ fr.rows <= request.rows

\* The bytes of column k: its range, which damage may have shortened; Fail if it
\* ends inside a value, which expect_fixed and decode_inet refuse for any rows.
ColumnSlice(fr, ms, k) ==
    LET width == ElementBytes(ms[k]) IN
    IF fr.toc[k].length % width # 0 THEN Fail
    ELSE Ok(SubSeq(fr.data[k], 1, fr.toc[k].length \div width))

\* The types whose Arrow layout is the wire layout; 0 for the others.
Alignment(m) ==
    IF m.name \in {"TinyInt", "SmallInt", "Int", "Real", "MonthInterval", "BigInt", "Oid", "Double",
                   "DayInterval", "SecInterval", "HugeInt"}
       \/ (m.name = "Decimal" /\ m.precision \in 19..38)
      THEN FixedWireWidth(m) ELSE 0

SumOver(S, Op(_)) == FoldLeft(LAMBDA n, k : n + Op(k), 0, SetToSeq(S))

\* adoption_is_worthwhile: three quarters of the bytes.
AdoptionIsWorthwhile(adoptable, bytes) == bytes > 0 /\ adoptable >= bytes - bytes \div 4

\* prefers_owned_types.
PrefersOwned(ms) ==
    /\ \A k \in DOMAIN ms : FixedWireWidth(ms[k]) > 0
    /\ AdoptionIsWorthwhile(
         SumOver({ k \in DOMAIN ms : Alignment(ms[k]) > 0 }, LAMBDA k : FixedWireWidth(ms[k])),
         SumOver(DOMAIN ms, LAMBDA k : FixedWireWidth(ms[k])))

\* Mutant: padding is counted once, not for every column.
OwnedFrameCapacity_once(ms, rows) ==
    IF \E k \in DOMAIN ms : FixedWireWidth(ms[k]) = 0 THEN 0
    ELSE 128 + SumOver(DOMAIN ms, LAMBDA k : rows * FixedWireWidth(ms[k])) + 31 + 16 * Len(ms) + 8

\* owned_frame_capacity; 0 stands for None.
OwnedFrameCapacity(ms, rows) ==
    IF \E k \in DOMAIN ms : FixedWireWidth(ms[k]) = 0 THEN 0
    ELSE 128 + SumOver(DOMAIN ms, LAMBDA k : 31 + rows * FixedWireWidth(ms[k])) + 31 + 16 * Len(ms) + 8

Aligned(fr, ms, k) ==
    Alignment(ms[k]) > 0 /\ (fr.base + fr.toc[k].start) % Alignment(ms[k]) = 0

\* should_adopt_frame.
ShouldAdoptFrame(fr, ms) ==
    AdoptionIsWorthwhile(SumOver({ k \in DOMAIN ms : Aligned(fr, ms, k) }, LAMBDA k : fr.toc[k].length),
                         SumOver(DOMAIN ms, LAMBDA k : fr.toc[k].length))

\* adopt_primitive: a null bitmap over the frame's own bytes.
AdoptPrimitive(m, wire) ==
    LET Null(x) == CASE m.name = "Oid" -> x = Half[8]
                     [] m.name \in {"Real", "Double"} -> x = "nan"
                     [] OTHER -> x = -Half[FixedWireWidth(m)]
    IN  Ok([i \in DOMAIN wire |-> IF Null(wire[i]) THEN <<>> ELSE <<wire[i]>>])

\* adopt_decimal: the values stay where they are but every one is validated.
AdoptDecimal(precision, wire) ==
    IF \E i \in DOMAIN wire : DecodeDecimal(precision, 16, wire[i]) = Fail THEN Fail
    ELSE Ok([i \in DOMAIN wire |-> IF wire[i] = -Half[16] THEN <<>> ELSE <<wire[i]>>])

\* decode_owned_column.
DecodeOwnedColumn(fr, ms, k) ==
    LET m == ms[k]
        Adopt(wire) ==
            IF ~Aligned(fr, ms, k) THEN DecodeColumn(m, wire, fr.rows)
            ELSE IF Len(wire) # fr.rows THEN Fail
            ELSE IF m.name = "HugeInt" THEN AdoptDecimal(38, wire)
            ELSE IF m.name = "Decimal" THEN AdoptDecimal(m.precision, wire)
            ELSE AdoptPrimitive(m, wire)
    IN  Then(ColumnSlice(fr, ms, k), Adopt)

\* record_batch over decoded columns.
RecordBatch(columns) == IF AllOk(columns) THEN Ok(Values(columns)) ELSE Fail

\* decode_columns.
DecodeColumns(fr, ms) ==
    RecordBatch([k \in DOMAIN ms |->
        Then(ColumnSlice(fr, ms, k), LAMBDA wire : DecodeColumn(ms[k], wire, fr.rows))])

\* decode_frame and decode_frame_with_schema.
DecodeFrame(fr, ms, request) ==
    IF ParseFrame(fr) = Fail \/ ~FrameMatches(fr, ms, request) THEN Fail ELSE DecodeColumns(fr, ms)

\* decode_frame_owned and decode_frame_owned_with_schema.
DecodeFrameOwned(fr, ms, request) ==
    IF ParseFrame(fr) = Fail \/ ~FrameMatches(fr, ms, request) THEN Fail
    ELSE IF ~ShouldAdoptFrame(fr, ms) THEN DecodeColumns(fr, ms)
    ELSE RecordBatch([k \in DOMAIN ms |-> DecodeOwnedColumn(fr, ms, k)])

\* append_time_wire and raw_time_from_naive over normalize_time: local time
\* less its offset, within the day.
NormalizeTime(t, east) == AppendTime((ServerTime(t) - east * Thousand * Thousand) % DayMicros)[1]

\* normalize_timestamp: the UTC date must fit the wire's year.
NormalizeTimestamp(s, east) ==
    LET micros == UnixDays(s.date) * DayMicros + ServerTime(s.time) - east * Thousand * Thousand IN
    Then(DateFromUnixDays(micros \div DayMicros), LAMBDA date :
        IF date.year \notin Signed(2) THEN Fail
        ELSE Ok([time |-> AppendTime(micros % DayMicros)[1], date |-> date]))

\* RawDecimal::at_scale of the MAPI client (external): fewer fractional digits
\* than wanted are padded, more are refused.
AtScale(d, scale) == IF d.scale > scale THEN Fail ELSE Ok(d.digits * 10 ^ (scale - d.scale))

\* append_decimal_wire_value.
AppendDecimalWireValue(m, d) ==
    IF d \notin Signed(FixedWireWidth(m)) \/ d = NullSlot(m) THEN Fail ELSE Ok(<<d>>)

\* append_inline_wire_value; text is NULL or a parsed field.
AppendInlineWireValue(m, text) ==
    IF m.name \in {"Inet", "Geometry", "Xml"} THEN Fail
    ELSE IF m.name \in StringTypes THEN Ok(IF text = <<>> THEN <<128, 0>> ELSE text[1] \o <<0>>)
    ELSE IF m.name = "Blob"
      THEN Ok(IF text = <<>> THEN BlobHeader(-1) ELSE BlobHeader(Len(text[1])) \o text[1])
    ELSE IF m.name \in AddressTypes
      THEN Ok(AddressWords(m, IF text = <<>> THEN NullSlot(m) ELSE text[1]))
    ELSE IF text = <<>> THEN Ok(<<NullSlot(m)>>)
    ELSE IF m.name = "Bool" THEN Ok(<<IF text[1] THEN 1 ELSE 0>>)
    ELSE IF m.name = "Decimal"
      THEN Then(AtScale(text[1], m.scale), LAMBDA d : AppendDecimalWireValue(m, d))
    ELSE IF m.name \in {"DayInterval", "SecInterval"} THEN Then(AtScale(text[1], 3), LAMBDA d : Ok(<<d>>))
    ELSE IF m.name = "TimeTz" THEN Ok(<<NormalizeTime(text[1].time, text[1].east)>>)
    ELSE IF m.name = "TimestampTz"
      THEN Then(NormalizeTimestamp(text[1].local, text[1].east), LAMBDA utc : Ok(<<utc>>))
    ELSE Ok(<<text[1]>>)

\* decode_inline_rows: texts are the cursor's rows of one column.
DecodeInlineRows(m, texts, expected) ==
    LET Column(values) == IF AllOk(values) THEN DecodeColumn(m, FlattenSeq(Values(values)), Len(texts))
                          ELSE Fail
    IN
    IF FieldForMonetType(m) = Fail \/ Len(texts) # expected THEN Fail
    ELSE Column([i \in DOMAIN texts |-> AppendInlineWireValue(m, texts[i])])

-----------------------------------------------------------------------------
(* The server's side (external).                                            *)

\* Columns and the table of contents start at multiples of 32 after the header.
AlignUp(n) == ((n + 31) \div 32) * 32

ServerFrame(ms, wires, request, place) ==
    LET start[k \in 1 .. Len(ms) + 1] ==
            AlignUp(IF k = 1 THEN place.header ELSE start[k - 1] + Bytes(ms[k - 1], wires[k - 1]))
        tocPos == start[Len(ms) + 1]
    IN
    [error |-> FALSE, id |-> request.id, columns |-> Len(ms), rows |-> request.rows,
     start |-> request.start, body |-> place.header, base |-> place.base, data |-> wires,
     toc |-> [k \in 1 .. Len(ms) |-> [start |-> start[k], length |-> Bytes(ms[k], wires[k])]],
     tocPos |-> tocPos, size |-> tocPos + 16 * Len(ms) + 8]

\* The text of a stored value, as the MAPI client parses it: time zones are the
\* session's, intervals are seconds with three decimals.
ServerText(m, v, east) ==
    LET shifted == v[1] + east * Thousand * Thousand IN
    IF v = <<>> THEN <<>>
    ELSE IF m.name = "Decimal" THEN <<[digits |-> v[1], scale |-> m.scale]>>
    ELSE IF m.name \in {"DayInterval", "SecInterval"} THEN <<[digits |-> v[1], scale |-> 3]>>
    ELSE IF m.name = "TimeTz" THEN <<[time |-> AppendTime(shifted % DayMicros)[1], east |-> east]>>
    ELSE IF m.name = "TimestampTz"
      THEN <<[local |-> ServerSlot(Monet("Timestamp", 0, 0), <<shifted>>), east |-> east]>>
    ELSE IF m.name \in StringTypes \cup {"Blob", "Bool"} THEN v
    ELSE <<ServerSlot(m, v)>>
=============================================================================

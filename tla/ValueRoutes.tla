----------------------------- MODULE ValueRoutes ----------------------------
(***************************************************************************)
(* The two ways an Arrow column reaches a table (COPY BINARY from encoded   *)
(* pieces, INSERT from rendered literals) and the two ways it comes back    *)
(* (Xexportbin frames, inline text rows), composed from the codec modules.  *)
(* A behaviour builds one column row by row, writes it, and reads a window  *)
(* of the table; the table may also hold what another client stored, and a  *)
(* response may be late, cut short or an error.                             *)
(***************************************************************************)
EXTENDS ResultDecode, SqlLiterals

CONSTANTS Columns,       \* sequence of [field, cells, max, foreign]
          Targets,       \* upload piece sizes, in bytes
          InsertRows,    \* the INSERT route's row limit
          InsertBytes,   \* half of PARAMETER_UPDATE_BATCH_BYTES
          Places,        \* [base, header]: a response's address and header length
          Offsets        \* the session's time zone, in seconds east

VARIABLES column,    \* index of the column under test
          phase,     \* "arrow", "table", "query", "response" or "done"
          cells,     \* the Arrow column
          route,     \* how the table was written
          table,     \* Fail, or Ok(the stored rows)
          response,  \* the server's answer to the window request
          result     \* Fail, or Ok(decoded columns)

vars == <<column, phase, cells, route, table, response, result>>

field == Columns[column].field
monet == MonetTypeForField(field)
none  == <<>>

Init ==
    /\ column \in DOMAIN Columns
    /\ phase = "arrow" /\ cells = <<>> /\ route = "none"
    /\ table = Fail /\ response = none /\ result = Fail

\* A row of the caller's array.
AppendRow ==
    /\ phase = "arrow" /\ Len(cells) < Columns[column].max
    /\ \E c \in Columns[column].cells : cells' = Append(cells, c)
    /\ UNCHANGED <<column, phase, route, table, response, result>>

\* The server's row count must be the window's.
Stored(rows) == IF Len(rows) = Len(cells) THEN Ok(rows) ELSE Fail

\* The upload of one window's column, from arrays cut anywhere.
CopyInto(target, cut) ==
    LET arrays == <<SubSeq(cells, 1, cut), SubSeq(cells, cut + 1, Len(cells))>>
        Load(m, upload) == IF upload.complete THEN Stored(ServerLoads(m, upload.bytes)) ELSE Fail
    IN
    /\ phase = "arrow" /\ cells # <<>>
    /\ table' = Then(monet, LAMBDA m : Load(m, EncodeColumnChunks(field, arrays, target)))
    /\ phase' = "table" /\ route' = "copy"
    /\ UNCHANGED <<column, cells, response, result>>

\* route_ingest_reader and execute_ingest's INSERT: the batch is encoded once
\* only to be validated, then every row is rendered.
InsertInto ==
    LET size      == EstimatedEncodedSize(field, cells)
        Row(m, c) == Then(Literal(field, c), LAMBDA l : ServerParses(m, l))
        Insert(rows) == IF AllOk(rows) THEN Stored(Values(rows)) ELSE Fail
    IN
    /\ phase = "arrow" /\ cells # <<>> /\ Len(cells) <= InsertRows
    /\ size # Fail => size[1] <= InsertBytes
    /\ table' = IF size = Fail \/ EncodeColumn(field, cells) = Fail THEN Fail
                ELSE Insert([i \in DOMAIN cells |-> Row(monet[1], cells[i])])
    /\ phase' = "table" /\ route' = "insert"
    /\ UNCHANGED <<column, cells, response, result>>

\* Another client wrote the rows (external).
ForeignTable ==
    /\ phase = "arrow" /\ cells = <<>>
    /\ \E rows \in Columns[column].foreign : table' = Ok(rows)
    /\ phase' = "query"
    /\ UNCHANGED <<column, cells, route, response, result>>

\* A later query reads the table.
Query ==
    /\ phase = "table" /\ table # Fail
    /\ phase' = "query" /\ cells' = <<>> /\ route' = "none"
    /\ UNCHANGED <<column, table, response, result>>

\* The window under request, and the types of the result's columns: the column
\* alone, or beside an INT.
request(start) == [id |-> 7, start |-> start, rows |-> Len(table[1]) - start]
types(wide)    == IF wide THEN <<monet[1], Monet("Int", 0, 0)>> ELSE <<monet[1]>>
Window(start)  == SubSeq(table[1], start + 1, Len(table[1]))

\* What may happen to an answer: nothing; an error instead of it or inside it;
\* an answer to another request; a connection that ends early; a server that
\* counts wrong.
Damaged(fr, how) ==
    CASE how = "none"    -> fr
      [] how = "error"   -> [fr EXCEPT !.error = TRUE]
      [] how = "failed"  -> [fr EXCEPT !.tocPos = -fr.body]
      [] how = "result"  -> [fr EXCEPT !.id = @ + 1]
      [] how = "window"  -> [fr EXCEPT !.start = @ + 1]
      [] how = "header"  -> [fr EXCEPT !.body = 129]
      [] how = "cut"     -> [fr EXCEPT !.size = @ - 1]
      [] how = "columns" -> [fr EXCEPT !.columns = @ + 1, !.size = @ + 16,
                                       !.toc = Append(@, [start |-> fr.tocPos, length |-> 0])]
      [] how = "rows"    -> [fr EXCEPT !.rows = @ + 1]
      [] how = "fewer"   -> [fr EXCEPT !.rows = @ - 1]
      [] how = "quarter" -> [fr EXCEPT !.rows = @ \div 4]
      [] how = "short"   -> [fr EXCEPT !.toc[1].length = @ - ElementBytes(monet[1])]
      [] how = "ragged"  -> [fr EXCEPT !.toc[1].length = @ - 1]
      [] how = "cropped" -> [fr EXCEPT !.toc[1].length = @ \div 4]
      [] how = "long"    -> [fr EXCEPT !.toc[1].length = fr.tocPos]
      [] how = "overlap" -> [fr EXCEPT !.toc[Len(fr.toc)].start = fr.toc[1].start]

Damages(wide) ==
    {"error", "failed", "header", "result", "window", "cut", "columns", "rows", "fewer", "quarter",
     "short", "ragged", "cropped", "long"}
      \cup (IF wide THEN {"overlap"} ELSE {})

\* Xexportbin answers (external).
ExportBinary(start, wide, style, place, how) ==
    LET rows  == Window(start)
        wires == <<ServerExports(monet[1], rows, style), [i \in DOMAIN rows |-> i]>>
    IN
    /\ phase = "query" /\ rows # <<>>
    /\ style # "literal" => monet[1].name \in StringTypes
    /\ response' = [route |-> "binary", start |-> start, wide |-> wide, how |-> how, style |-> style,
                    frame |-> Damaged(ServerFrame(types(wide), wires, request(start), place), how)]
    /\ phase' = "response"
    /\ UNCHANGED <<column, cells, route, table, result>>

\* A small result arrives as text (external); a local date has a year of its
\* own that must exist.
ExportInline(east) ==
    LET Local(v) == DateFromUnixDays((v + east * Thousand * Thousand) \div DayMicros)[1] IN
    /\ phase = "query"
    /\ monet[1].name = "TimestampTz" =>
         \A i \in DOMAIN table[1] : table[1][i] # <<>> => Local(table[1][i][1]).year \in Signed(2)
    /\ response' = [route |-> "inline", start |-> 0, wide |-> FALSE, how |-> "none", style |-> "literal",
                    texts |-> [i \in DOMAIN table[1] |-> ServerText(monet[1], table[1][i], east)]]
    /\ phase' = "response"
    /\ UNCHANGED <<column, cells, route, table, result>>

\* The driver decodes the response.
Decode ==
    /\ phase = "response"
    /\ result' = IF response.route = "inline"
                   THEN Then(DecodeInlineRows(monet[1], response.texts, Len(table[1])), LAMBDA c : Ok(<<c>>))
                 ELSE IF PrefersOwned(types(response.wide))
                   THEN DecodeFrameOwned(response.frame, types(response.wide), request(response.start))
                 ELSE DecodeFrame(response.frame, types(response.wide), request(response.start))
    /\ phase' = "done"
    /\ UNCHANGED <<column, cells, route, table, response>>

Done == phase \in {"done"} \/ (phase = "table" /\ table = Fail)

Next ==
    \/ AppendRow
    \/ \E target \in Targets, cut \in 0 .. Len(cells) : CopyInto(target, cut)
    \/ InsertInto
    \/ ForeignTable
    \/ Query
    \/ \E start \in 0..1, wide \in BOOLEAN, style \in {"literal", "backref", "padded"}, place \in Places :
          ExportBinary(start, wide, style, place, "none")
    \/ \E wide \in BOOLEAN : \E how \in Damages(wide) :
          ExportBinary(0, wide, "literal", [base |-> 0, header |-> 20], how)
    \/ \E east \in Offsets : ExportInline(east)
    \/ Decode
    \/ Done /\ UNCHANGED vars

Spec == Init /\ [][Next]_vars

-----------------------------------------------------------------------------
(* The reference: which cells a column of MonetDB's type can hold, and as    *)
(* what.                                                                    *)

FirstDay == UnixDays([day |-> 1, month |-> 1, year |-> -4712])
LastDay  == UnixDays([day |-> 31, month |-> 12, year |-> Half[2] - 1])

UnitsPerDay(unit) ==
    CASE unit = "s" -> DayMillis \div Thousand [] unit = "ms" -> DayMillis
      [] unit = "us" -> DayMicros [] unit = "ns" -> DayMicros * Thousand

Representable(f, c) ==
    LET m == MonetTypeForField(f)
        v == c.value
    IN
    /\ m # Fail /\ m[1].name # "Inet"
    /\ c.valid =>
       /\ f.type \in DOMAIN IntWidth => v # -Half[IntWidth[f.type]]
       /\ m[1].name = "Oid" => v < Half[8]
       /\ f.type \in {"Float16", "Float32", "Float64"} => v \notin {"nan", "inf"}
       /\ m[1].name = "Decimal" => -Pow10[f.precision] < v /\ v < Pow10[f.precision]
       /\ f.type = "Decimal128" /\ m[1].name = "HugeInt" => v # -Half[16]
       /\ m[1].name \in {"Uuid", "Inet4", "Inet6"} => v \notin {"zero", "bad"}
       /\ f.type = "Utf8" /\ m[1].name \in StringTypes => ~Contains(v, 0)
       /\ f.type = "Dictionary" => v < Len(f.dict) /\ (f.dict[v + 1] = <<>> \/ ~Contains(f.dict[v + 1][1], 0))
       /\ f.type = "Date32" => v \in FirstDay..LastDay
       /\ f.type = "Date64" => v % DayMillis = 0 /\ v \div DayMillis \in FirstDay..LastDay
       /\ f.type \in {"Time32", "Time64"} => v \in 0 .. UnitsPerDay(f.unit) - 1
       /\ f.type = "Timestamp" => v \div UnitsPerDay(f.unit) \in FirstDay..LastDay
       /\ f.unit = "ns" => v % Thousand = 0
       /\ f.type = "Duration" =>
            CASE f.unit = "s"  -> Abs(v) <= (Half[8] - 1) \div Thousand
              [] f.unit = "ms" -> v # -Half[8]
              [] f.unit = "us" -> v % Thousand = 0
              [] f.unit = "ns" -> v % (Thousand * Thousand) = 0
       /\ m[1].name = "DayInterval" => v % UnitsPerDay(f.unit) = 0

Canonical(f, c) ==
    LET v == c.value IN
    IF ~c.valid \/ f.type = "Null" THEN <<>>
    ELSE IF f.type = "Dictionary" THEN f.dict[v + 1]
    ELSE IF f.type = "Date64" THEN <<v \div DayMillis>>
    ELSE IF f.type \in {"Time32", "Time64", "Timestamp"}
      THEN <<IF f.unit = "ns" THEN v \div Thousand ELSE v * MicrosPer(f.unit)>>
    ELSE IF f.type = "Duration"
      THEN CASE f.unit = "s" -> <<v * Thousand>> [] f.unit = "ms" -> <<v>>
             [] f.unit = "us" -> <<v \div Thousand>> [] f.unit = "ns" -> <<v \div (Thousand * Thousand)>>
    ELSE <<v>>

\* A date or a timestamp after the year 9999.
LateDate(f, c) ==
    LET last == UnixDays([day |-> 31, month |-> 12, year |-> 9999]) IN
    /\ c.valid
    /\ \/ f.type = "Date32" /\ c.value > last
       \/ f.type = "Date64" /\ c.value \div DayMillis > last
       \/ f.type = "Timestamp" /\ c.value \div UnitsPerDay(f.unit) > last

\* All of the column, exactly; or, if some row has no MonetDB value, nothing.
StoresTheColumn ==
    table = IF \A i \in DOMAIN cells : Representable(field, cells[i])
              THEN Ok([i \in DOMAIN cells |-> Canonical(field, cells[i])]) ELSE Fail

\* What a window of rows in the given wire form may exceed: 38 digits, an
\* Arrow offset, the growth allowed to back-references.
Readable(m, rows, wire) ==
    LET text  == TextBytes(rows)
        limit == IF ExpandFactor * Len(wire) > ExpandFloor THEN ExpandFactor * Len(wire) ELSE ExpandFloor
    IN
    CASE m.name = "HugeInt" ->
           \A i \in DOMAIN rows : rows[i] # <<>> => -Pow10[38] < rows[i][1] /\ rows[i][1] < Pow10[38]
      [] m.name \in StringTypes ->
           /\ Len(wire) <= OffsetMax /\ text <= OffsetMax
           /\ wire # ServerExports(m, rows, "literal") => text <= limit
      [] m.name = "Blob" -> text <= OffsetMax
      [] OTHER -> TRUE

-----------------------------------------------------------------------------
(* Properties.                                                              *)

\* encode_column_chunks: however the caller's arrays are cut and however small
\* the upload's pieces are, COPY BINARY stores every cell of the column as its
\* MonetDB value, or the column is refused because some cell has none.  No
\* value is ever stored as NULL or as another value, and no NULL as a value.
CopyStoresTheColumn == phase = "table" /\ route = "copy" => StoresTheColumn

\* route_ingest_reader and literal: a batch that runs as INSERT stores exactly
\* what COPY BINARY would have stored, or is refused where it would be.  The one
\* difference between the routes is a date after the year 9999: date_literal and
\* timestamp_literal write its sign, and the server refuses the statement.
InsertStoresTheColumn ==
    phase = "table" /\ route = "insert" =>
        IF \E i \in DOMAIN cells : LateDate(field, cells[i]) THEN table = Fail ELSE StoresTheColumn

\* decode_frame, decode_frame_owned and decode_inline_rows: a window decodes to
\* the rows the server holds, whichever way it came and whatever memory the
\* frame landed in; it is refused only where Arrow cannot hold the rows.
ReadsBackWhatIsStored ==
    phase = "done" /\ response.how = "none" =>
        LET rows == Window(response.start)
            wire == ServerExports(monet[1], rows, response.style)
            ids  == [i \in DOMAIN rows |-> <<i>>]
        IN  result = IF ~Readable(monet[1], rows, wire) THEN Fail
                     ELSE Ok(IF response.wide THEN <<rows, ids>> ELSE <<rows>>)

\* The first column is of addresses and has the announced rows at the width of
\* the other address type.
OtherWidth(fr) ==
    \/ monet[1].name = "Inet4" /\ fr.toc[1].length = 16 * fr.rows
    \/ monet[1].name = "Inet6" /\ fr.toc[1].length = 4 * fr.rows

\* parse_frame, validate_frame, expect_fixed and decode_inet: an error, an answer
\* to another request, a frame that ends early or one whose counts and ranges
\* disagree is refused; its bytes never become rows.  Only addresses are told
\* apart by their number alone: four times too few or too many octets for the
\* announced rows are read as addresses of the other kind.
OtherAnswersAreRefused ==
    phase = "done" /\ response.how # "none" => result = Fail \/ OtherWidth(response.frame)

\* owned_frame_capacity: the allocation made before the request holds the whole
\* answer, padding and table of contents included.
CapacityHoldsTheFrame ==
    phase = "response" /\ response.route = "binary" /\ response.how = "none" =>
        LET capacity == OwnedFrameCapacity(types(response.wide), request(response.start).rows) IN
        capacity # 0 => response.frame.size <= capacity

\* field_for_monet_type against monet_type_for_field, and both codecs: a column
\* read from a table is written back to the same type with the same rows, null
\* rows keeping whatever the frame held in their place.
ReadColumnsWriteBack ==
    phase = "done" /\ response.how = "none" /\ result # Fail =>
        LET m    == monet[1]
            f    == FieldForMonetType(m)[1]
            rows == result[1][1]
            back == [i \in DOMAIN rows |->
                       [valid |-> rows[i] # <<>>,
                        value |-> IF rows[i] # <<>> THEN rows[i][1]
                                  ELSE IF m.name \in StringTypes \cup {"Blob"} THEN <<>> ELSE NullSlot(m)]]
        IN
        /\ MonetTypeForField(f) = Ok(m)
        /\ \A target \in Targets :
             LET upload == EncodeColumnChunks(f, <<back>>, target) IN
             upload.complete /\ ServerLoads(m, upload.bytes) = rows
=============================================================================

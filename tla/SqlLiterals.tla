---------------------------- MODULE SqlLiterals -----------------------------
(***************************************************************************)
(* parameters.rs: the SQL literal of an Arrow cell, for bound parameters    *)
(* and for small ingests that run as INSERT, and how MonetDB reads it       *)
(* (external).  A literal is a record that keeps what its text says: signs, *)
(* digits, fields of a date or a time, the bytes between quotes.            *)
(***************************************************************************)
EXTENDS WireColumns

NullLiteral == [kind |-> "null"]

-----------------------------------------------------------------------------
(* Rendering.                                                               *)

\* u128::to_string: decimal digits, most significant first.
Digits[n \in Nat] == IF n < 10 THEN <<n>> ELSE Append(Digits[n \div 10], n % 10)

Abs(n) == IF n < 0 THEN -n ELSE n

\* decimal_literal: at least one digit before the point.
DecimalLiteral(value, scale) ==
    LET digits == Digits[Abs(value)]
        padded == IF scale > 0 /\ Len(digits) <= scale
                    THEN [i \in 1 .. scale + 1 - Len(digits) |-> 0] \o digits ELSE digits
        whole  == Len(padded) - scale
    IN
    IF scale < 0 THEN Fail
    ELSE Ok([kind |-> "decimal", negative |-> value < 0, whole |-> SubSeq(padded, 1, whole),
             fraction |-> SubSeq(padded, whole + 1, Len(padded))])

\* float_literal.
FloatLiteral(x) == IF x \in {"nan", "inf"} THEN Fail ELSE Ok([kind |-> "float", value |-> x])

\* quote_string and quote_raw_string: a quote is doubled.
QuoteString(s) ==
    IF Contains(s, 0) THEN Fail
    ELSE Ok([kind |-> "string",
             text |-> FlattenSeq([i \in DOMAIN s |-> IF s[i] = 39 THEN <<39, 39>> ELSE <<s[i]>>])])

\* blob_literal: two hexadecimal digits per byte.
BlobLiteral(b) ==
    [kind |-> "blob", hex |-> FlattenSeq([i \in DOMAIN b |-> <<b[i] \div 16, b[i] % 16>>])]

\* uuid_literal.
UuidLiteral(octets) == [kind |-> "uuid", value |-> octets]

\* dictionary_literal and dictionary_value: a key may refer to a null value.
DictionaryLiteral(f, c) ==
    Then(StringRows(f, <<c>>), LAMBDA rows :
        IF rows[1] = <<>> THEN Ok(NullLiteral) ELSE QuoteString(rows[1][1]))

\* chrono's Display of a date: a year after 9999 has a plus sign.
DateText(days) ==
    Then(DateFromUnixDays(days), LAMBDA date : Ok([date |-> date, plus |-> date.year > 9999]))

\* date_literal and date_from_days.
DateLiteral(days) ==
    Then(DateText(days), LAMBDA text : Ok([kind |-> "date", text |-> text]))

\* format_time.
FormatTime(micros) ==
    LET seconds == micros \div (Thousand * Thousand) IN
    IF micros \notin 0 .. DayMicros - 1 THEN Fail
    ELSE Ok([hour |-> seconds \div (Sixty * Sixty), minute |-> (seconds \div Sixty) % Sixty,
             second |-> seconds % Sixty, micros |-> micros % (Thousand * Thousand)])

\* time32_literal and time64_literal.
TimeLiteral(unit, value) ==
    IF unit = "ns" /\ value % Thousand # 0 THEN Fail
    ELSE Then(FormatTime(IF unit = "ns" THEN TruncDiv(value, Thousand) ELSE value * MicrosPer(unit)),
              LAMBDA time : Ok([kind |-> "time", time |-> time]))

\* timestamp_literal: chrono's date and the time of day of the same instant.
TimestampLiteral(unit, value) ==
    LET At(micros) ==
            Then(DateText(micros \div DayMicros), LAMBDA text :
                Then(FormatTime(micros % DayMicros), LAMBDA time :
                    Ok([kind |-> "timestamp", text |-> text, time |-> time])))
    IN
    IF unit = "ns" THEN IF value % Thousand # 0 THEN Fail ELSE At(TruncDiv(value, Thousand))
    ELSE Then(CheckedMul(value, MicrosPer(unit)), At)

\* duration_millis.
DurationMillis(unit, value) ==
    LET divisor == CASE unit = "us" -> Thousand [] unit = "ns" -> Thousand * Thousand [] OTHER -> 1 IN
    IF unit = "s" THEN CheckedMul(value, Thousand)
    ELSE IF value % divisor # 0 THEN Fail ELSE Ok(TruncDiv(value, divisor))

\* Mutant: a fraction of a second even when it is zero.
IntervalFraction_always(millis) == <<millis>>

\* interval_fraction: nothing for a whole second.
IntervalFraction(millis) == IF millis = 0 THEN <<>> ELSE <<millis>>

\* duration_literal and day_interval_literal.
IntervalLiteral(unit, value, days) ==
    LET Interval(millis, total) ==
            [kind |-> "interval", negative |-> millis < 0,
             days |-> IF days THEN total \div (Sixty * Sixty * Hours) ELSE 0,
             hours |-> IF days THEN (total \div (Sixty * Sixty)) % Hours ELSE 0,
             minutes |-> IF days THEN (total \div Sixty) % Sixty ELSE 0,
             seconds |-> IF days THEN total % Sixty ELSE total,
             fraction |-> IntervalFraction(Abs(millis) % Thousand)]
    IN  Then(DurationMillis(unit, value), LAMBDA millis : Ok(Interval(millis, Abs(millis) \div Thousand)))

IntegerTypes == DOMAIN IntWidth \cup DOMAIN UIntWidth

\* literal.
Literal(f, c) ==
    CASE ~c.valid \/ f.type = "Null" -> Ok(NullLiteral)
      [] c.valid /\ f.type = "Boolean" -> Ok([kind |-> "boolean", value |-> c.value])
      [] c.valid /\ f.type = "Int32" /\ f.ext = "monetdb.interval_month" ->
           Ok([kind |-> "months", value |-> c.value])
      [] c.valid /\ f.type \in IntegerTypes /\ f.ext # "monetdb.interval_month" ->
           IF f.ext = "monetdb.oid" /\ c.value >= Half[8] THEN Fail
           ELSE Ok([kind |-> "integer", value |-> c.value])
      [] c.valid /\ f.type \in {"Float16", "Float32", "Float64"} -> FloatLiteral(c.value)
      [] c.valid /\ f.type = "Decimal128" -> DecimalLiteral(c.value, f.scale)
      [] c.valid /\ f.type = "Utf8" /\ f.ext \in {"monetdb.inet4", "monetdb.inet6"} ->
           Ok([kind |-> "address", value |-> c.value])
      [] c.valid /\ f.type = "Utf8" /\ f.ext \notin {"monetdb.inet4", "monetdb.inet6"} -> QuoteString(c.value)
      [] c.valid /\ f.type = "Dictionary" -> DictionaryLiteral(f, c)
      [] c.valid /\ f.ext = "arrow.uuid" -> Ok(UuidLiteral(c.value))
      [] c.valid /\ f.type \in {"Binary", "FixedSizeBinary"} /\ f.ext # "arrow.uuid" ->
           Ok(BlobLiteral(c.value))
      [] c.valid /\ f.type = "Date32" -> DateLiteral(c.value)
      [] c.valid /\ f.type = "Date64" ->
           IF c.value % DayMillis # 0 THEN Fail ELSE DateLiteral(TruncDiv(c.value, DayMillis))
      [] c.valid /\ f.type \in {"Time32", "Time64"} -> TimeLiteral(f.unit, c.value)
      [] c.valid /\ f.type = "Timestamp" -> TimestampLiteral(f.unit, c.value)
      [] c.valid /\ f.type = "Duration" -> IntervalLiteral(f.unit, c.value, f.ext = "monetdb.interval_day")

-----------------------------------------------------------------------------
(* The server (external): what a literal stores in a column of type m, or   *)
(* Fail where it is refused.                                                *)

Number(digits) == FoldLeft(LAMBDA n, d : 10 * n + d, 0, digits)

Unquote(text) ==
    LET scan == FoldLeft(LAMBDA s, b : IF b = 39 /\ ~s.quote THEN [s EXCEPT !.quote = TRUE]
                                       ELSE [text |-> Append(s.text, b), quote |-> FALSE],
                         [text |-> <<>>, quote |-> FALSE], text)
    IN  IF scan.quote THEN Fail ELSE Ok(scan.text)

\* A date starts with a digit or a minus.
ServerDate(text) == IF text.plus THEN Fail ELSE Ok(UnixDays(text.date))

ServerParses(m, l) ==
    LET Sign(n) == IF l.negative THEN -n ELSE n
        places  == m.scale - Len(l.fraction)
        unscaled == Number(l.whole \o l.fraction)
        millis  == (((l.days * Hours + l.hours) * Sixty + l.minutes) * Sixty + l.seconds) * Thousand
                   + (IF l.fraction = <<>> THEN 0 ELSE l.fraction[1])
    IN
    CASE l.kind = "null" -> Ok(<<>>)
      [] l.kind \in {"boolean", "months", "float", "uuid", "address"} -> Ok(<<l.value>>)
      [] l.kind = "integer" ->
           IF m.name = "Oid" \/ l.value \in Signed(FixedWireWidth(m)) THEN Ok(<<l.value>>) ELSE Fail
      [] l.kind = "decimal" ->
           IF m.name = "Decimal" THEN IF places < 0 THEN Fail ELSE Ok(<<Sign(unscaled * 10 ^ places)>>)
           ELSE Ok(<<Sign(unscaled)>>)
      [] l.kind = "string" -> Then(Unquote(l.text), LAMBDA text : Ok(<<text>>))
      [] l.kind = "blob" -> Ok(<<[i \in 1 .. Len(l.hex) \div 2 |-> 16 * l.hex[2 * i - 1] + l.hex[2 * i]]>>)
      [] l.kind = "date" -> Then(ServerDate(l.text), LAMBDA day : Ok(<<day>>))
      [] l.kind = "time" -> Ok(<<ServerTime(l.time)>>)
      [] l.kind = "timestamp" ->
           Then(ServerDate(l.text), LAMBDA day : Ok(<<day * DayMicros + ServerTime(l.time)>>))
      \* parse_interval leaves a zero fraction as trailing input
      [] l.kind = "interval" -> IF l.fraction = <<0>> THEN Fail ELSE Ok(<<Sign(millis)>>)
=============================================================================

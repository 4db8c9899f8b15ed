----------------------------- MODULE WireCells ------------------------------
(***************************************************************************)
(* One value of a column on its way between Arrow and MonetDB's binary      *)
(* format: the type mapping of encode.rs, decode.rs and wire.rs, the slot   *)
(* a fixed-width value occupies in a COPY BINARY or Xexportbin column, and  *)
(* what the server keeps of it (external).                                  *)
(*                                                                         *)
(* An Arrow cell is [valid, value]; a null cell still has a value in its    *)
(* buffer.  A stored or decoded value is an option: <<>> is SQL NULL.  An   *)
(* operation that can fail returns Fail or Ok(x).  Integers have the width  *)
(* of their type; Half[w] is 2^(8w-1), Pow10[p] is 10^p and the calendar    *)
(* units are constants, so that small instances keep every boundary.        *)
(***************************************************************************)
EXTENDS Integers, Sequences, FiniteSets

CONSTANTS Half,        \* [Widths -> Nat]: the magnitude of MIN of a signed type
          Pow10,       \* [1..38 -> Nat]
          Thousand,    \* microseconds per millisecond, milliseconds per second
          Sixty,       \* seconds per minute, minutes per hour
          Hours        \* hours per day

Widths == {1, 2, 4, 8, 16}

\* The backing integer of a decimal: fixed_wire_width and encode_decimal.
DecimalWidth(p) ==
    CASE p \in 1..2   -> 1
      [] p \in 3..4   -> 2
      [] p \in 5..9   -> 4
      [] p \in 10..18 -> 8
      [] p \in 19..38 -> 16

\* What the driver relies on: unsigned types fit the next wider signed type,
\* a decimal of p digits fits its backing integer with MIN to spare, and the
\* microseconds of a second never reach the u32 that marks a nil time.
ASSUME UnitsAssumption ==
    Thousand \in Nat \ {0} /\ Sixty \in Nat \ {0} /\ Hours \in Nat \ {0}
ASSUME WidthsAssumption ==
    /\ Half \in [Widths -> Nat \ {0}] /\ Pow10 \in [1..38 -> Nat \ {0}]
    /\ 2 * Half[1] <= Half[2] /\ 2 * Half[2] <= Half[4]
    /\ 2 * Half[4] <= Half[8] /\ 2 * Half[8] <= Half[16]
    /\ \A p \in 1..38 : Pow10[p] <= Half[DecimalWidth(p)]
    /\ Thousand * Thousand < 2 * Half[4]

Fail  == <<>>
Ok(x) == <<x>>

\* Rust's `?`.
Then(r, Op(_)) == IF r = Fail THEN Fail ELSE Op(r[1])

DayMillis == Thousand * Sixty * Sixty * Hours
DayMicros == DayMillis * Thousand

\* Rust's integer division rounds toward zero.
TruncDiv(a, b) == IF a >= 0 THEN a \div b ELSE -((-a) \div b)

Signed(w) == -Half[w] .. Half[w] - 1

\* i64::checked_mul by a positive factor.
CheckedMul(a, f) ==
    IF a <= (Half[8] - 1) \div f /\ -a <= Half[8] \div f THEN Ok(a * f) ELSE Fail

-----------------------------------------------------------------------------
(* Types.  A field is [type, ext, unit, precision, scale, tz, dict]; the    *)
(* offset widths of strings and blobs are one type.                         *)

PlainTypes ==
    [Null |-> "Varchar", Boolean |-> "Bool", Int8 |-> "TinyInt", Int16 |-> "SmallInt",
     Int32 |-> "Int", Int64 |-> "BigInt", UInt8 |-> "SmallInt", UInt16 |-> "Int",
     UInt32 |-> "BigInt", UInt64 |-> "HugeInt", Float16 |-> "Real", Float32 |-> "Real",
     Float64 |-> "Double", Decimal128 |-> "Decimal", Utf8 |-> "Varchar",
     Dictionary |-> "Varchar", Binary |-> "Blob", FixedSizeBinary |-> "Blob",
     Date32 |-> "Date", Date64 |-> "Date", Time32 |-> "Time", Time64 |-> "Time",
     Timestamp |-> "Timestamp", Duration |-> "SecInterval"]

ExtensionTypes ==
    { <<"Int32", "monetdb.interval_month", "MonthInterval">>,
      <<"UInt64", "monetdb.oid", "Oid">>, <<"Decimal128", "monetdb.hugeint", "HugeInt">>,
      <<"Utf8", "arrow.json", "Json">>, <<"Utf8", "monetdb.inet", "Inet">>,
      <<"Utf8", "monetdb.inet4", "Inet4">>, <<"Utf8", "monetdb.inet6", "Inet6">>,
      <<"Utf8", "monetdb.url", "Url">>, <<"FixedSizeBinary", "arrow.uuid", "Uuid">>,
      <<"Time64", "monetdb.timetz", "TimeTz">>,
      <<"Duration", "monetdb.interval_day", "DayInterval">> }

\* The MonetDB type's name; the decimals also have a precision and a scale.
Monet(n, p, s) == [name |-> n, precision |-> p, scale |-> s]

\* encode.rs monet_type_for_field.
MonetTypeForField(f) ==
    LET ext == { x \in ExtensionTypes : x[1] = f.type /\ x[2] = f.ext } IN
    IF f.type \notin DOMAIN PlainTypes \/ (f.type = "Decimal128" /\ f.scale < 0) THEN Fail
    ELSE IF \E x \in ext : x[3] = "HugeInt" => f.precision = 38 /\ f.scale = 0
      THEN Ok(Monet((CHOOSE x \in ext : TRUE)[3], 0, 0))
    ELSE IF f.type = "Decimal128" THEN Ok(Monet("Decimal", f.precision, f.scale))
    ELSE IF f.type = "Timestamp" /\ f.tz THEN Ok(Monet("TimestampTz", 0, 0))
    ELSE Ok(Monet(PlainTypes[f.type], 0, 0))

\* wire.rs fixed_wire_width; 0 stands for None.
FixedWireWidth(m) ==
    CASE m.name \in {"Bool", "TinyInt"} -> 1
      [] m.name = "SmallInt" -> 2
      [] m.name \in {"Int", "Real", "MonthInterval", "Date"} -> 4
      [] m.name \in {"BigInt", "Oid", "Double", "DayInterval", "SecInterval", "Time",
                     "TimeTz"} -> 8
      [] m.name \in {"Timestamp", "TimestampTz"} -> 12
      [] m.name \in {"HugeInt", "Uuid"} -> 16
      [] m.name = "Decimal" -> IF m.precision \in 1..38 THEN DecimalWidth(m.precision) ELSE 0
      [] OTHER -> 0

\* decode.rs data_type_for_monet_type and field_for_monet_type: the field a
\* result column of type m is read as.
FieldForMonetType(m) ==
    LET type ==
          CASE m.name \in {"HugeInt", "Decimal"} -> "Decimal128"
            [] m.name = "Oid" -> "UInt64"
            [] m.name \in {"Varchar", "Url", "Json", "Inet4", "Inet6"} -> "Utf8"
            [] m.name = "MonthInterval" -> "Int32"
            [] m.name \in {"DayInterval", "SecInterval"} -> "Duration"
            [] m.name \in {"Time", "TimeTz"} -> "Time64"
            [] m.name \in {"Timestamp", "TimestampTz"} -> "Timestamp"
            [] m.name = "Uuid" -> "FixedSizeBinary"
            [] m.name = "Date" -> "Date32"
            [] m.name = "Real" -> "Float32"
            [] OTHER -> CHOOSE t \in {"Boolean", "Int8", "Int16", "Int32", "Int64", "Float64",
                                      "Binary"} : PlainTypes[t] = m.name
        ext == { x \in ExtensionTypes : x[3] = m.name }
    IN
    IF \/ m.name \in {"Geometry", "Inet", "Xml"}
       \/ m.name = "Decimal" /\ ~(m.precision \in 1..38 /\ m.scale \in 0..m.precision)
      THEN Fail
    ELSE Ok([type |-> type, ext |-> IF ext = {} THEN "" ELSE (CHOOSE x \in ext : TRUE)[2],
             unit |-> CASE type = "Duration" -> "ms"
                        [] type \in {"Time64", "Timestamp"} -> "us"
                        [] OTHER -> "",
             precision |-> IF m.name = "HugeInt" THEN 38 ELSE m.precision,
             scale |-> m.scale, tz |-> m.name = "TimestampTz", dict |-> <<>>])
-----------------------------------------------------------------------------
(* The proleptic Gregorian calendar of chrono (external) and the day count   *)
(* of decode.rs.                                                            *)

Leap(y) == (y % 4 = 0 /\ y % 100 # 0) \/ y % 400 = 0

DaysBeforeMonth(y, m) ==
    <<0, 31, 59, 90, 120, 151, 181, 212, 243, 273, 304, 334>>[m] + (IF m > 2 /\ Leap(y) THEN 1 ELSE 0)

MonthDays(y, m) ==
    IF m = 2 /\ Leap(y) THEN 29 ELSE <<31, 28, 31, 30, 31, 30, 31, 31, 30, 31, 30, 31>>[m]

\* Days from 0000-01-01 to the first of January of year y.
DaysBeforeYear(y) == 365 * y + (y + 3) \div 4 - (y + 99) \div 100 + (y + 399) \div 400

\* Days from 1970-01-01.
UnixDays(d) == DaysBeforeYear(d.year) + DaysBeforeMonth(d.year, d.month) + d.day - 1 - 719528

\* The year of the 400-year era that a day of the era is in, and the month a
\* day of the year is in.
YearOfEra(day) ==
    CHOOSE y \in (day \div 366) .. (day \div 365) :
        DaysBeforeYear(y) <= day /\ day < DaysBeforeYear(y + 1)
MonthOf(y, day) ==
    CHOOSE m \in 1..12 : /\ DaysBeforeMonth(y, m) <= day
                         /\ day < DaysBeforeMonth(y, m) + MonthDays(y, m)

\* wire.rs date_from_unix_days: chrono's dates end with the years -262143 and
\* 262142.
DateFromUnixDays(days) ==
    LET Date(y, day, m)     == [day |-> day - DaysBeforeMonth(y, m) + 1, month |-> m, year |-> y]
        InYear(y, day)      == Date(y, day, MonthOf(y, day))
        InEra(era, day, y)  == InYear(400 * era + y, day - DaysBeforeYear(y))
        AtDay(n)            == InEra(n \div 146097, n % 146097, YearOfEra(n % 146097))
        Checked(date)       == IF -262143 <= date.year /\ date.year <= 262142 THEN Ok(date) ELSE Fail
    IN  Checked(AtDay(days + 719528))

\* decode.rs valid_ymd: the remainders are Rust's, but only zero matters.
ValidYmd(year, month, day) == month \in 1..12 /\ day # 0 /\ day <= MonthDays(year, month)

\* Mutant: the era of a negative year is rounded toward zero.
DaysFromCivil_truncated(y, month, day) ==
    LET year  == IF month <= 2 THEN y - 1 ELSE y
        era   == TruncDiv(year, 400)
        yoe   == year - era * 400
        shift == IF month > 2 THEN month - 3 ELSE month + 9
    IN  era * 146097 + yoe * 365 + yoe \div 4 - yoe \div 100 + (153 * shift + 2) \div 5 + day - 719469

\* decode.rs days_from_civil.
DaysFromCivil(y, month, day) ==
    LET year  == IF month <= 2 THEN y - 1 ELSE y
        era   == TruncDiv(IF year >= 0 THEN year ELSE year - 399, 400)
        yoe   == year - era * 400
        shift == IF month > 2 THEN month - 3 ELSE month + 9
        doy   == (153 * shift + 2) \div 5 + day - 1
        doe   == yoe * 365 + yoe \div 4 - yoe \div 100 + doy
    IN  era * 146097 + doe - 719468

-----------------------------------------------------------------------------
(* Encoding a fixed-width cell: encode.rs.                                  *)

NilDate == [day |-> 255, month |-> 255, year |-> -1]
NilTime == [micros |-> 2 * Half[4] - 1, second |-> 255, minute |-> 255, hour |-> 255, pad |-> 255]

\* append_date: MonetDB's first year is -4712, its last fits an i16.
AppendDate(days) ==
    Then(DateFromUnixDays(days), LAMBDA date : IF date.year \in -4712 .. Half[2] - 1 THEN Ok(date) ELSE Fail)

\* append_time.
AppendTime(micros) ==
    LET seconds == micros \div (Thousand * Thousand) IN
    IF micros \notin 0 .. DayMicros - 1 THEN Fail
    ELSE Ok([micros |-> micros % (Thousand * Thousand), second |-> seconds % Sixty,
             minute |-> (seconds \div Sixty) % Sixty, hour |-> seconds \div (Sixty * Sixty),
             pad |-> 0])

\* append_timestamp: rem_euclid and div_euclid by a positive divisor.
AppendTimestamp(micros) ==
    Then(AppendTime(micros % DayMicros), LAMBDA time :
        Then(AppendDate(micros \div DayMicros), LAMBDA date : Ok([time |-> time, date |-> date])))

\* encode_primitive, copy_native_with_nulls.
EncodePrimitive(w, c) ==
    IF ~c.valid THEN Ok(-Half[w]) ELSE IF c.value = -Half[w] THEN Fail ELSE Ok(c.value)

\* The unsigned! macro: the wire type is wider than the Arrow type.
EncodeUnsigned(w, c) == IF ~c.valid THEN Ok(-Half[w]) ELSE Ok(c.value)

\* encode_oid.
EncodeOid(c) ==
    IF ~c.valid THEN Ok(Half[8]) ELSE IF c.value >= Half[8] THEN Fail ELSE Ok(c.value)

\* encode_bool.
EncodeBool(c) == IF ~c.valid THEN Ok(128) ELSE Ok(IF c.value THEN 1 ELSE 0)

\* encode_f16, encode_f32 and encode_f64; a float is a name.
EncodeFloat(c) ==
    IF ~c.valid THEN Ok("nan") ELSE IF c.value \in {"nan", "inf"} THEN Fail ELSE Ok(c.value)

\* encode_decimal.
EncodeDecimal(p, enforce, c) ==
    LET w == DecimalWidth(p) IN
    IF p \notin 1..38 THEN Fail
    ELSE IF ~c.valid THEN Ok(-Half[w])
    ELSE IF enforce /\ (c.value <= -Pow10[p] \/ c.value >= Pow10[p]) THEN Fail
    ELSE IF c.value \notin Signed(w) \/ c.value = -Half[w] THEN Fail
    ELSE Ok(c.value)

\* encode_uuid: the octets of "zero" are all zero.
EncodeUuid(c) == IF ~c.valid THEN Ok("zero") ELSE IF c.value = "zero" THEN Fail ELSE Ok(c.value)

\* encode_addresses: "bad" is text that does not parse as an address.
EncodeAddress(c) ==
    IF ~c.valid THEN Ok("zero") ELSE IF c.value \in {"bad", "zero"} THEN Fail ELSE Ok(c.value)

\* The octets of an address, in words of four: one for INET4, four for INET6.
AddressWords(m, x) == [i \in 1 .. (IF m.name = "Inet4" THEN 1 ELSE 4) |-> x]

\* encode_date32 and encode_date64.
EncodeDate(type, c) ==
    IF ~c.valid THEN Ok(NilDate)
    ELSE IF type = "Date32" THEN AppendDate(c.value)
    ELSE IF c.value % DayMillis # 0 THEN Fail ELSE AppendDate(TruncDiv(c.value, DayMillis))

MicrosPer(unit) == CASE unit = "s" -> Thousand * Thousand [] unit = "ms" -> Thousand [] OTHER -> 1

\* encode_time32, encode_time64 and encode_time_values.
EncodeTime(unit, c) ==
    IF ~c.valid THEN Ok(NilTime)
    ELSE IF unit # "ns" THEN AppendTime(c.value * MicrosPer(unit))
    ELSE IF c.value % Thousand # 0 THEN Fail ELSE AppendTime(TruncDiv(c.value, Thousand))

\* encode_timestamp and encode_timestamp_values.
EncodeTimestamp(unit, c) ==
    IF ~c.valid THEN Ok([time |-> NilTime, date |-> NilDate])
    ELSE IF unit = "ns"
      THEN IF c.value % Thousand # 0 THEN Fail ELSE AppendTimestamp(TruncDiv(c.value, Thousand))
    ELSE Then(CheckedMul(c.value, MicrosPer(unit)), AppendTimestamp)

\* encode_duration and encode_duration_values.
EncodeDuration(unit, wholeDays, c) ==
    LET divisor == CASE unit = "us" -> Thousand [] unit = "ns" -> Thousand * Thousand [] OTHER -> 1
        millis  == CheckedMul(TruncDiv(c.value, divisor), IF unit = "s" THEN Thousand ELSE 1)
    IN
    IF ~c.valid THEN Ok(-Half[8])
    ELSE IF c.value % divisor # 0 \/ millis = Fail THEN Fail
    ELSE IF millis[1] = -Half[8] \/ (wholeDays /\ millis[1] % DayMillis # 0) THEN Fail
    ELSE millis

IntWidth  == [Int8 |-> 1, Int16 |-> 2, Int32 |-> 4, Int64 |-> 8]
UIntWidth == [UInt8 |-> 2, UInt16 |-> 4, UInt32 |-> 8, UInt64 |-> 16]

\* encode_column on one row, for the types whose rows have a fixed size.
EncodeCell(f, m, c) ==
    CASE f.type = "Boolean"         -> EncodeBool(c)
      [] f.type \in DOMAIN IntWidth -> EncodePrimitive(IntWidth[f.type], c)
      [] m.name = "Oid"             -> EncodeOid(c)
      [] f.type \in DOMAIN UIntWidth /\ m.name # "Oid" -> EncodeUnsigned(UIntWidth[f.type], c)
      [] f.type \in {"Float16", "Float32", "Float64"}  -> EncodeFloat(c)
      [] f.type = "Decimal128"      -> EncodeDecimal(f.precision, m.name # "HugeInt", c)
      [] m.name = "Uuid"            -> EncodeUuid(c)
      [] m.name = "Date"            -> EncodeDate(f.type, c)
      [] m.name \in {"Time", "TimeTz"}                 -> EncodeTime(f.unit, c)
      [] f.type = "Timestamp"       -> EncodeTimestamp(f.unit, c)
      [] f.type = "Duration"        -> EncodeDuration(f.unit, m.name = "DayInterval", c)

-----------------------------------------------------------------------------
(* Decoding a fixed-width slot: decode.rs.                                  *)

\* date_value and time_value.
DateValue(d) ==
    IF d.month = 255 THEN IF d = NilDate THEN Ok(<<>>) ELSE Fail
    ELSE IF ~ValidYmd(d.year, d.month, d.day) THEN Fail
    ELSE Ok(<<DaysFromCivil(d.year, d.month, d.day)>>)

TimeValue(t) ==
    IF t.micros = NilTime.micros THEN IF t = NilTime THEN Ok(<<>>) ELSE Fail
    ELSE IF \/ t.micros >= Thousand * Thousand \/ t.second >= Sixty \/ t.minute >= Sixty
            \/ t.hour >= Hours
      THEN Fail
    ELSE Ok(<<((t.hour * Sixty + t.minute) * Sixty + t.second) * Thousand * Thousand + t.micros>>)

\* decode_timestamp.
TimestampValue(s) ==
    Then(TimeValue(s.time), LAMBDA time :
        Then(DateValue(s.date), LAMBDA date :
            IF (time = <<>>) # (date = <<>>) THEN Fail
            ELSE IF date = <<>> THEN Ok(<<>>) ELSE Ok(<<date[1] * DayMicros + time[1]>>)))

\* decode_primitive and adopt_primitive.
DecodePrimitive(w, x) == IF x = -Half[w] THEN Ok(<<>>) ELSE Ok(<<x>>)

\* decode_decimal and validate_decimal_values: a HUGEINT is a decimal of 38
\* digits.
DecodeDecimal(p, w, x) ==
    IF x = -Half[w] THEN Ok(<<>>)
    ELSE IF x <= -Pow10[p] \/ x >= Pow10[p] THEN Fail ELSE Ok(<<x>>)

\* decode_bool.
DecodeBool(x) ==
    IF x \notin {0, 1, 128} THEN Fail ELSE IF x = 128 THEN Ok(<<>>) ELSE Ok(<<x = 1>>)

\* decode_uuid: zero octets are nil.
DecodeUuid(x) == IF x = "zero" THEN Ok(<<>>) ELSE Ok(<<x>>)

\* decode_inet: an address has four octets if that many per row are there, else
\* sixteen, whichever of the two types it is of.  Zero octets are nil; words of
\* more than one address are "mixed".
DecodeInet(words, rows) ==
    LET width  == IF Len(words) = rows THEN 1 ELSE 4
        Row(i) == { words[j] : j \in (i - 1) * width + 1 .. i * width }
        Address(row) == IF row = {"zero"} THEN <<>>
                        ELSE IF Cardinality(row) = 1 THEN <<CHOOSE x \in row : TRUE>> ELSE <<"mixed">>
    IN
    IF Len(words) \notin {rows, 4 * rows} THEN Fail ELSE Ok([i \in 1..rows |-> Address(Row(i))])

\* decode_column on one slot, for the types whose rows have one size.
DecodeCell(m, x) ==
    CASE m.name = "Bool"   -> DecodeBool(x)
      [] m.name \in {"TinyInt", "SmallInt", "Int", "BigInt", "MonthInterval", "DayInterval",
                     "SecInterval"} -> DecodePrimitive(FixedWireWidth(m), x)
      [] m.name = "Oid"    -> IF x = Half[8] THEN Ok(<<>>) ELSE Ok(<<x>>)
      [] m.name = "HugeInt" -> DecodeDecimal(38, 16, x)
      [] m.name = "Decimal" -> DecodeDecimal(m.precision, DecimalWidth(m.precision), x)
      [] m.name \in {"Real", "Double"} -> IF x = "nan" THEN Ok(<<>>) ELSE Ok(<<x>>)
      [] m.name = "Uuid"   -> DecodeUuid(x)
      [] m.name = "Date"   -> DateValue(x)
      [] m.name \in {"Time", "TimeTz"} -> TimeValue(x)
      [] m.name \in {"Timestamp", "TimestampTz"} -> TimestampValue(x)

\* append_null_wire_value, for the same types and one word of an address.
NullSlot(m) ==
    CASE m.name = "Bool" -> 128
      [] m.name \in {"TinyInt", "SmallInt", "Int", "BigInt", "HugeInt", "MonthInterval",
                     "DayInterval", "SecInterval", "Decimal"} -> -Half[FixedWireWidth(m)]
      [] m.name = "Oid"  -> Half[8]
      [] m.name \in {"Real", "Double"} -> "nan"
      [] m.name \in {"Uuid", "Inet4", "Inet6"} -> "zero"
      [] m.name = "Date" -> NilDate
      [] m.name \in {"Time", "TimeTz"} -> NilTime
      [] m.name \in {"Timestamp", "TimestampTz"} -> [time |-> NilTime, date |-> NilDate]

-----------------------------------------------------------------------------
(* The server (external).  It keeps a date as a day count, a time and a      *)
(* timestamp in microseconds.                                               *)

ServerTime(t) == ((t.hour * Sixty + t.minute) * Sixty + t.second) * Thousand * Thousand + t.micros

\* What COPY BINARY makes of a slot: nil, or a date before the first year,
\* becomes NULL.
ServerReads(m, x) ==
    IF x = NullSlot(m) THEN <<>>
    ELSE IF m.name = "Bool" THEN <<x = 1>>
    ELSE IF m.name = "Date" THEN IF x.year < -4712 THEN <<>> ELSE <<UnixDays(x)>>
    ELSE IF m.name \in {"Time", "TimeTz"} THEN <<ServerTime(x)>>
    ELSE IF m.name \in {"Timestamp", "TimestampTz"}
      THEN IF x.date.year < -4712 THEN <<>> ELSE <<UnixDays(x.date) * DayMicros + ServerTime(x.time)>>
    ELSE <<x>>

\* The slot Xexportbin writes for a stored value.
ServerSlot(m, v) ==
    LET Time(us) == AppendTime(us)[1] IN
    IF v = <<>> THEN NullSlot(m)
    ELSE IF m.name = "Bool" THEN IF v[1] THEN 1 ELSE 0
    ELSE IF m.name = "Date" THEN DateFromUnixDays(v[1])[1]
    ELSE IF m.name \in {"Time", "TimeTz"} THEN Time(v[1])
    ELSE IF m.name \in {"Timestamp", "TimestampTz"}
      THEN [time |-> Time(v[1] % DayMicros), date |-> DateFromUnixDays(v[1] \div DayMicros)[1]]
    ELSE v[1]
=============================================================================

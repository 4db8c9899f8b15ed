---------------------------- MODULE MCValueRoutes ---------------------------
(***************************************************************************)
(* An instance of ValueRoutes for TLC: every Arrow type the driver maps, each *)
(* with cells at its boundaries.  TLC's integers have 32 bits, so the wide    *)
(* integers and the units of a day are scaled down in proportion: a day has   *)
(* 2 hours of 2 minutes of 2 seconds of 2 milliseconds of 2 microseconds,     *)
(* and the calendar is the real one.                                          *)
(***************************************************************************)
EXTENDS ValueRoutes

MCHalf == [w \in Widths |-> CASE w = 1 -> 128 [] w = 2 -> 32768 [] w = 4 -> 2^28
                              [] w = 8 -> 2^29 [] w = 16 -> 2^30]
MCPow10 == [p \in 1..38 |-> IF p <= 4 THEN 10^p ELSE IF p <= 9 THEN 10^5 + p
                            ELSE IF p <= 18 THEN 10^8 + p ELSE 10^9]

F(type, ext, unit, p, s, tz, dict) ==
    [type |-> type, ext |-> ext, unit |-> unit, precision |-> p, scale |-> s, tz |-> tz, dict |-> dict]
Plain(type)      == F(type, "", "", 0, 0, FALSE, <<>>)
Ext(type, ext)   == F(type, ext, "", 0, 0, FALSE, <<>>)
Unit(type, unit) == F(type, "", unit, 0, 0, FALSE, <<>>)
Dec(p, s)        == F("Decimal128", "", "", p, s, FALSE, <<>>)

\* values are the valid cells, nulls what lies under the null ones.
Col(f, values, nulls, max, foreign) ==
    [field |-> f, max |-> max, foreign |-> foreign,
     cells |-> [valid : {TRUE}, value : values] \cup [valid : {FALSE}, value : nulls]]
C(f, values, nulls) == Col(f, values, nulls, 2, {})

a == <<97>>
Text == {<<>>, a, <<195, 128>>, <<120, 120, 120, 120, 120, 120>>}

Days(y, m, d) == UnixDays([day |-> d, month |-> m, year |-> y])
MinDay == Days(-4712, 1, 1)
MaxDay == Days(32767, 12, 31)

FourAddresses == [1..4 -> {<<>>, <<"address">>, <<"other">>}]

MCPlaces == {[base |-> 0, header |-> 20], [base |-> 8, header |-> 128], [base |-> 1, header |-> 97]}
MCOffsets == {-3, 0, 3}

MCColumns ==
    << C(Plain("Int8"), {0, 127, -127, -128}, {5, -128}),
       C(Plain("Int16"), {1, -32768}, {-32768}),
       C(Plain("Int32"), {1, -(2^28)}, {0}),
       C(Ext("Int32", "monetdb.interval_month"), {1, -(2^28)}, {0}),
       C(Plain("Int64"), {-1, 2^29 - 1, -(2^29)}, {0, -(2^29)}),
       C(Plain("UInt8"), {0, 255}, {0}),
       C(Plain("UInt16"), {0, 65535}, {0}),
       C(Plain("UInt32"), {0, 2^29 - 1}, {0}),
       Col(Plain("UInt64"), {0, 2^30 - 1}, {0}, 2,
           {<< <<2^30 - 1>> >>, << <<-(10^9)>>, <<>> >>, << <<10^9 - 1>>, <<>> >>}),
       C(Ext("UInt64", "monetdb.oid"), {0, 2^29 - 1, 2^29, 2^30 - 1}, {0}),
       C(Plain("Float16"), {"zero", "inf"}, {"zero"}),
       C(Plain("Float32"), {"zero", "one", "inf", "nan"}, {"zero", "nan"}),
       C(Plain("Float64"), {"one", "inf", "nan"}, {"inf"}),
       C(Plain("Boolean"), {TRUE, FALSE}, {TRUE}),
       C(Dec(2, 1), {5, -99, 99, 100, -128}, {100}),
       C(Dec(4, 4), {5, -5, 9999, 10000}, {0}),
       C(Dec(9, 0), {0, 10^5 + 9, -(10^5) - 8}, {0}),
       C(Dec(18, 2), {7, -12345, 10^8 + 18}, {0}),
       C(Dec(38, 3), {-1, 10^9 - 1, 10^9, -(2^30)}, {0}),
       C(Dec(5, -1), {0}, {0}),
       C(F("Decimal128", "monetdb.hugeint", "", 38, 0, FALSE, <<>>),
         {0, 10^9, -(2^30), 1 - 2^30}, {0}),
       Col(Plain("Utf8"), Text, {<<>>}, 3, {}),
       C(Ext("Utf8", "arrow.json"), {<<39>>, <<97, 0>>, <<39, 98, 39>>}, {<<>>}),
       C(Ext("Utf8", "monetdb.url"), {a}, {<<>>}),
       C(Ext("Utf8", "monetdb.inet"), {a}, {<<>>}),
       Col(Ext("Utf8", "monetdb.inet4"), {"zero", "bad", "address"}, {"bad"}, 2, FourAddresses),
       Col(Ext("Utf8", "monetdb.inet6"), {"zero", "bad", "address"}, {"bad"}, 2, FourAddresses),
       Col(F("Dictionary", "", "", 0, 0, FALSE, << <<a>>, <<>>, << <<98, 99>> >> >>),
           {0, 1, 2, 3}, {0, 3}, 3, {}),
       C(Plain("Binary"), {<<>>, <<7>>, <<0, 255>>, [i \in 1..21 |-> 1]}, {<<>>}),
       C(Plain("FixedSizeBinary"), {<<16, 32>>}, {<<>>}),
       C(Ext("FixedSizeBinary", "arrow.uuid"), {"zero", "uuid"}, {"zero"}),
       Col(Plain("Date32"), {0, -1, MinDay - 1, MinDay, MaxDay, MaxDay + 1, Days(2000, 2, 29), Days(1900, 3, 1),
                           Days(-4, 2, 29), Days(-1, 12, 31), Days(9999, 12, 31), Days(10000, 1, 1),
                           95100000, -97000000}, {0}, 1, {}),
       Col(Plain("Date64"), {0, 8, -16, 16 * MinDay, 16 * (MinDay - 1), 16 * MaxDay, 16 * (MaxDay + 1)}, {8}, 1, {}),
       C(Unit("Time32", "s"), {0, 7, 8, -1}, {8}),
       C(Unit("Time32", "ms"), {15, 16}, {0}),
       C(Unit("Time64", "us"), {0, 31, 32}, {0}),
       C(Unit("Time64", "ns"), {1, 62, 64, -2}, {0}),
       C(F("Time64", "monetdb.timetz", "us", 0, 0, FALSE, <<>>), {0, 13, 31}, {0}),
       Col(Unit("Timestamp", "s"), {0, -1, 8 * MinDay, 8 * MaxDay + 7, 8 * (MaxDay + 1), 2^29 - 1, -(2^29)}, {0}, 1, {}),
       C(Unit("Timestamp", "ms"), {-1, 16 * MinDay - 1, 16 * MaxDay + 15}, {0}),
       C(Unit("Timestamp", "us"), {-1, 33, 32 * Days(10000, 1, 1) - 1, 32 * Days(10000, 1, 1), 32 * MinDay - 1, 32 * MinDay}, {0}),
       C(Unit("Timestamp", "ns"), {1, -2, 66}, {0}),
       C(F("Timestamp", "", "us", 0, 0, TRUE, <<>>), {0, -1, 32 * MinDay, 32 * MaxDay + 31}, {0}),
       C(Unit("Duration", "s"), {1, -3, 2^28, -(2^28), 1 - 2^28}, {0}),
       C(Unit("Duration", "ms"), {1, -3, 2^29 - 1, -(2^29)}, {0}),
       C(Unit("Duration", "us"), {-4, 3}, {0}),
       C(Unit("Duration", "ns"), {-4, 8, 6}, {0}),
       C(F("Duration", "monetdb.interval_day", "ms", 0, 0, FALSE, <<>>), {0, -16, 48, 8}, {0}),
       C(Plain("Null"), {}, {<<>>}),
       C(Plain("List"), {<<>>}, {<<>>}) >>
=============================================================================

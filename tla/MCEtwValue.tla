----------------------------- MODULE MCEtwValue ------------------------------
(***************************************************************************)
(* EtwValue with one call for each case of AddValue, of the maps and of    *)
(* the result codes, and addresses for each case of AppendIPv6.            *)
(*                                                                         *)
(* Texts are at most about 20 characters here, a conversion being one:     *)
(* m_stringBuffer has room for 6 of them at first and m_stringBuffer2 for  *)
(* 7, and when they have grown, for all.  A file time has 6 bits.          *)
(***************************************************************************)
EXTENDS EtwValue

MCInlineCapacity == [b \in Buffers |-> IF b = "m_stringBuffer" THEN 6 ELSE 7]

-----------------------------------------------------------------------------
V(inType, outType, cb, data) ==
    [inType |-> inType, outType |-> outType, cb |-> cb, data |-> data]

Format(v)    == [op |-> "Format", entry |-> "value", value |-> v, map |-> NoMap, ahead |-> 0,
                 format |-> << >>]
Json(v)      == [Format(v) EXCEPT !.op = "AddAsJson", !.ahead = 1]
Mapped(c, m) == [c EXCEPT !.entry = "mapInfo", !.map = m]
Named(c, m)  == [c EXCEPT !.entry = "map", !.map = m]

Entries(s) == [k \in 1 .. Len(s) |-> [value |-> s[k], name |-> k]]
Map(flags, values) == [flags |-> flags, entries |-> Entries(values)]

Values    == Map({"MANIFEST_VALUEMAP"}, <<1, 5, 5>>)
WbemValues == Map({"WBEM_VALUEMAP"}, <<2>>)
Indexed   == Map({"WBEM_VALUEMAP", "WBEM_NO_MAP"}, <<0, 1>>)
BitMap3   == Map({"MANIFEST_BITMAP"}, <<0, 1, 6, 2>>)
WbemBits  == Map({"WBEM_BITMAP"}, <<4>>)
FlagBits  == Map({"WBEM_VALUEMAP", "WBEM_FLAG"}, <<1>>)
Pattern   == Map({"MANIFEST_PATTERNMAP"}, <<1>>)

U32(n)    == V("UINT32", "NULL", 4, <<n>>)

\* A quote, a backslash, a control character with and without its own escape.
Awkward == <<34, 92, 10, 31>>

TextCalls ==
    {Format(V("UNICODESTRING", "NULL", 8, Awkward)), Json(V("UNICODESTRING", "NULL", 9, Awkward)),
     [Json(V("UNICODECHAR", "STRING", 2, <<65>>)) EXCEPT !.ahead = 7],
     Json(V("ANSISTRING", "STRING", 3, <<34, 195, 169>>)),
     [Format(V("ANSICHAR", "NULL", 1, <<65>>)) EXCEPT !.op = "Add", !.ahead = 7],
     [Format(V("COUNTEDANSISTRING", "UTF8", 3, <<65, 66, 67>>)) EXCEPT !.op = "Add", !.ahead = 5],
     Format(V("ANSISTRING", "NULL", 0, << >>)), Json(V("NULL", "NULL", 0, << >>)),
     Json(V("UINT8", "STRING", 1, <<92>>)), Format(V("INT8", "STRING", 1, <<65>>)),
     Json(V("UINT16", "STRING", 2, <<34>>))}

NumberCalls ==
    {Json(V("INT8", "NULL", 1, <<-1>>)), Json(V("UINT8", "HEXINT8", 1, <<9>>)),
     Format(V("INT16", "NULL", 2, <<-2>>)), Format(V("INT64", "NULL", 8, <<-3>>)),
     Format(V("UINT16", "HEXINT16", 2, <<258>>)), Format(V("UINT16", "PORT", 2, <<258>>)),
     Format(V("UINT32", "IPV4", 4, <<10, 0, 2, 255>>)), Format(V("UINT32", "CodePointer", 4, <<7>>)),
     Format(V("UINT64", "NULL", 8, <<7>>)), Format(V("UINT64", "HEXINT64", 8, <<7>>)),
     Format(V("HEXINT64", "NULL", 8, <<7>>)), Json(V("HEXINT32", "NULL", 4, <<7>>)),
     Format(V("FLOAT", "NULL", 4, <<1>>)), Json(V("DOUBLE", "NULL", 8, <<-1>>)),
     Json(V("BOOLEAN", "NULL", 4, <<2>>)), Format(V("BOOLEAN", "NULL", 4, <<0>>)),
     Format(V("POINTER", "NULL", 4, <<7>>)), Json(V("SIZET", "LONG", 8, <<-7>>)),
     Format(V("POINTER", "UNSIGNEDLONG", 4, <<7>>)), Format(V("POINTER", "NULL", 3, <<7>>)),
     Json(V("UINT32", "NULL", 3, <<7>>))}

OtherCalls ==
    {Json(V("GUID", "NULL", 16, <<1>>)), Json(V("BINARY", "NULL", 3, <<1, 2, 3>>)),
     Format(V("BINARY", "IPV6", 3, <<1, 2, 3>>)), Format(V("SID", "NULL", 7, <<1, 0, 0, 5>>)),
     Json(V("SID", "NULL", 16, <<1, 2, 0, 5, 32, 544>>)), Format(V("WBEMSID", "NULL", 8, <<1, 0, 1, 5>>)),
     Format(V("SID", "NULL", 12, <<1, 2, 0, 5>>)),
     Format(V("BINARY", "SOCKETADDRESS", 16, <<2, 0, 0, 127, 0, 0, 1>>)),
     Json(V("BINARY", "SOCKETADDRESS", 16, <<2, 80, 0, 127, 0, 0, 1>>)),
     Format(V("BINARY", "SOCKETADDRESS", 10, <<33, 0, 0, 10, 11>>)),
     Format(V("BINARY", "SOCKETADDRESS", 1, <<2>>)),
     Format(V("BINARY", "SOCKETADDRESS", 24, <<23, 0, 0, 0, 0, 0, 0, 0, 0, 0, 1>>)),
     Json(V("BINARY", "SOCKETADDRESS", 28, <<23, 80, 3, 65152, 0, 0, 0, 0, 0, 0, 1>>))}

TimeCalls ==
    {Format(V("FILETIME", utc, 8, <<t>>)) : t \in {-32, 0, 1, 30, 31}, utc \in {"NULL", "DATETIME_UTC"}}
    \cup {Json(V("SYSTEMTIME", utc, 16, <<t>>)) : t \in {-1, 3}, utc \in {"NULL", "DATETIME_UTC"}}
    \cup {Format(V("FILETIME", "NULL", 4, <<1>>))}

MapCalls ==
    {Mapped(Format(U32(n)), m) : n \in {0, 5}, m \in {Values, WbemValues, Indexed}}
    \cup {Mapped(Format(U32(n)), BitMap3) : n \in {0, 1, 7, 8, 12}} \cup {Mapped(Json(U32(3)), BitMap3)}
    \cup {Mapped(Format(V("UINT8", "HEXINT8", 1, <<5>>)), m) : m \in {WbemBits, FlagBits}}
    \cup {Mapped(Format(V("UINT16", "NULL", 2, <<5>>)), Pattern),
          Mapped(Format(V("HEXINT32", "NULL", 4, <<1>>)), Indexed),
          Mapped(Format(V("UINT32", "NULL", 3, <<1>>)), Values),
          Mapped(Format(V("INT32", "NULL", 4, <<1>>)), Values),
          Mapped(Format(U32(1)), NoMap),
          Named(Json(V("UINT16", "NULL", 2, <<1>>)), Values)}

\* A call of AddProperty with flags, width, precision, length and specifier.
Formatting(v, f) == [Format(v) EXCEPT !.op = "Printf", !.entry = "printf", !.format = f, !.ahead = 2]

F(flags, width, precision, length, specifier) ==
    flags \o width \o precision \o length \o <<specifier, "!">>

Specifiers == {"d", "p", "c", "s", "g"}
Widths     == {<< >>, <<"8">>, <<"*">>}
Precisions == {<< >>, <<".">>, <<".", "2">>}

Formatted ==
    {F(flags, width, precision, << >>, c) :
        flags \in {<< >>, <<"-", "0", "-">>}, width \in Widths, precision \in Precisions, c \in Specifiers}
    \cup {F(<< >>, << >>, << >>, length, c) : length \in Lengths, c \in {"u", "s"}}
    \cup {<<"1", "2", "3", "4", "5", "d", "!">>, <<".", "1", "2", "3", "4", "d", "!">>,
          <<"*", "8", "d", "!">>, <<"n", "!">>, <<"0", "8", "x">>, <<"8", "I", "6", "d", "!">>,
          <<"l", "h", "d", "!">>, <<"d", "d", "!">>, << >>,
          <<"-", "#", "-", " ", "+", "0", "1", "0", "0", "0", ".", "1", "0", "0", "0", "X", "!">>}

Simple == {F(<<"0">>, <<"4">>, precision, << >>, c) : precision \in {<< >>, <<".", "3">>},
                                                     c \in Specifiers}

Starred == {F(flags, << >>, <<".", "*">>, << >>, c) : flags \in {<< >>, <<"-">>}, c \in Specifiers}

PrintedValues ==
    {V("INT8", "NULL", 1, <<-2>>), V("ANSICHAR", "STRING", 1, <<0>>), V("ANSICHAR", "STRING", 1, <<195>>),
     V("UINT16", "PORT", 2, <<258>>), V("UNICODECHAR", "STRING", 2, <<65>>), V("HEXINT32", "NULL", 4, <<7>>),
     V("BOOLEAN", "NULL", 4, <<1>>), V("INT64", "NULL", 8, <<-3>>), V("FILETIME", "NULL", 8, <<1>>),
     V("SIZET", "NULL", 4, <<7>>), V("DOUBLE", "NULL", 8, <<5>>), V("BINARY", "IPV6", 16, <<1, 0, 0, 0, 0, 0, 0, 8>>),
     V("UNICODESTRING", "NULL", 8, <<65, 0, 66, 67>>)}

PrintfCalls ==
    {Formatting(v, f) : v \in {V("UINT32", "NULL", 4, <<7>>), V("UNICODESTRING", "NULL", 6, <<65, 0, 66>>)},
                   f \in Formatted \cup Starred}
    \cup {Formatting(v, f) : v \in PrintedValues, f \in Simple}
    \cup {[Formatting(U32(1), f) EXCEPT !.map = Values] : f \in {F(<< >>, << >>, << >>, << >>, "s"),
                                                         F(<< >>, <<"8">>, << >>, << >>, "s")}}
    \cup {[Format(V("UNICODESTRING", "NULL", 6, <<65, 0, 66>>)) EXCEPT !.op = "Add", !.ahead = 2]}

Code(inType, outType, n) == V(inType, outType, 4, <<n>>)

CodeCalls ==
    {Format(Code("INT32", "HRESULT", n)) : n \in {1, 9}}
    \cup {Json(Code("UINT32", outType, 2)) : outType \in {"WIN32ERROR", "NTSTATUS"}}
    \cup {Named(Format(Code("UINT32", "NTSTATUS", 1)), NoMap)}

HexCodeCalls == {Format(Code("HEXINT32", outType, 2)) : outType \in {"WIN32ERROR", "NTSTATUS"}}

\* Group i of the address is the i-th of s.
A(s) == [i \in 1 .. 8 |-> s[i]]
ISATAP == 24318

Addresses ==
    {<<0, 0, 0, 0, 0, 0, 0, 0>>, <<0, 0, 0, 0, 0, 0, 0, 1>>, <<0, 0, 0, 0, 0, 0, 256, 1>>,
     <<0, 0, 0, 0, 0, 65535, 256, 1>>, <<0, 0, 0, 0, 65535, 0, 256, 1>>,
     <<0, 0, 0, 0, 65535, 0, 0, 1>>, <<1, 2, 3, 4, 5, 6, 7, 8>>, <<1, 0, 3, 4, 5, 6, 7, 8>>,
     <<1, 0, 0, 4, 5, 0, 0, 8>>, <<1, 0, 0, 4, 0, 0, 0, 8>>, <<0, 0, 3, 4, 5, 6, 7, 8>>,
     <<1, 2, 3, 4, 5, 6, 0, 0>>, <<1, 2, 3, 4, 5, 6, 7, 0>>, <<0, 2, 3, 4, 5, 6, 7, 8>>,
     <<1, 0, 0, 0, 0, 0, 0, 0>>, <<65152, 0, 0, 0, 0, ISATAP, 49320, 257>>,
     <<65152, 0, 0, 0, 512, ISATAP, 0, 257>>, <<0, 0, 0, 0, 0, ISATAP, 0, 1>>,
     <<0, 0, 0, 0, 0, ISATAP, 1, 1>>, <<8193, 3512, 4660, 22136, 512, ISATAP, 65535, 65535>>,
     <<65535, 65535, 65535, 65535, 65535, 65535, 65535, 65535>>,
     <<8193, 0, 0, 1, 0, 0, 1, 0>>}

AddressCalls == {Format(V("BINARY", "IPV6", 16, a)) : a \in Addresses}

AllCalls == TextCalls \cup NumberCalls \cup OtherCalls \cup TimeCalls \cup MapCalls
            \cup CodeCalls \cup HexCodeCalls \cup PrintfCalls \cup AddressCalls

\* Only the calls for times are repeated with other settings: no other reads them.
MCCalls(format, bias) == IF format = InitialFormat /\ bias = 1 THEN AllCalls ELSE TimeCalls

MCHexCalls(format, bias)  == HexCodeCalls
MCMbcsCalls(format, bias) == TextCalls

MCFormats ==
    {InitialFormat,
     [type |-> "Internet", flags |-> {"Local"}],
     [type |-> "Wpp", flags |-> {"Local", "NoTimeZoneSuffix", "AssumeFileTimeUTC"}],
     [type |-> "Wpp", flags |-> {"AssumeFileTimeUTC", "LowPrecision"}],
     [type |-> "Max", flags |-> {}],
     [type |-> "Wpp", flags |-> {"Unknown"}]}
MCMinTime == -32
MCBiases == {-2, 1}
=============================================================================

---------------------------- MODULE EtwValueTypes ----------------------------
(***************************************************************************)
(* AddValue as a table: what it appends for a value, and of which          *)
(* ValueType the text is.                                                  *)
(*                                                                         *)
(* A value is [inType, outType, cb, data]: cb is its size in bytes, data   *)
(* the numbers that its type divides it into (the characters of a string,  *)
(* the bytes of a dump, one number for an integer).  The text may take     *)
(* several appends; each is [fn, chars, count], see EtwText.               *)
(***************************************************************************)
EXTENDS EtwAddress, EtwSettings, EtwCallbacks

CONSTANT AddressRoom     (* what AppendIPv6 reserves: 46 *)

ASSUME AddressAssumption == AddressRoom \in Nat /\ AddressRoom >= 46

WideTypes ==
    {"UNICODESTRING", "ManifestCountedString", "COUNTEDSTRING", "REVERSEDCOUNTEDSTRING",
     "NONNULLTERMINATEDSTRING", "UNICODECHAR"}

MbcsTypes ==
    {"ANSISTRING", "ManifestCountedAnsiString", "COUNTEDANSISTRING",
     "REVERSEDCOUNTEDANSISTRING", "NONNULLTERMINATEDANSISTRING", "ANSICHAR"}

SignedTypes   == {"INT8", "INT16", "INT32", "INT64"}
UnsignedTypes == {"UINT8", "UINT16", "UINT32", "UINT64"}
HexTypes      == {"HEXINT32", "HEXINT64"}
PointerTypes  == {"POINTER", "SIZET"}

\* The sizes that AddValue takes for a type; for the others it takes any.
Sizes(inType) ==
    CASE inType \in {"INT8", "UINT8"} -> {1}
      [] inType \in {"INT16", "UINT16"} -> {2}
      [] inType \in {"INT32", "UINT32", "HEXINT32", "FLOAT", "BOOLEAN"} -> {4}
      [] inType \in {"INT64", "UINT64", "HEXINT64", "DOUBLE", "FILETIME"} -> {8}
      [] inType \in PointerTypes -> {4, 8}
      [] inType \in {"GUID", "SYSTEMTIME"} -> {16}
      [] OTHER -> Nat

SizeIsValid(v) ==
    IF v.inType \in {"SID", "WBEMSID"} THEN v.cb >= 8 ELSE v.cb \in Sizes(v.inType)

IsText(v) == v.outType = "STRING"

\* The value is a text, of which data has the characters or the bytes.
IsTextual(v) ==
    v.inType \in WideTypes \cup MbcsTypes \/ (v.inType \in {"INT8", "UINT8", "UINT16"} /\ IsText(v))

\* The values of one number.
NumberTypes ==
    SignedTypes \cup UnsignedTypes \cup HexTypes \cup PointerTypes
    \cup {"FLOAT", "DOUBLE", "BOOLEAN", "GUID", "FILETIME", "SYSTEMTIME"}

\* data has the numbers that the type, the size and the first of them ask for.
WellFormedValue(v) ==
    LET Has(n) == Len(v.data) >= n
    IN  /\ v.data \in Seq(Int) /\ v.cb \in Nat
        /\ IsTextual(v) => v.data \in Seq(Nat)
        /\ v.inType \in NumberTypes \cup {"UNICODECHAR", "ANSICHAR"} => Has(1)
        /\ v.inType \in WideTypes => Has(v.cb \div 2)
        /\ v.inType = "UINT32" /\ v.outType = "IPV4" => Has(4)
        /\ v.inType \in {"SID", "WBEMSID"} /\ v.cb >= 8 =>
             Has(2) /\ (v.data[1] = 1 /\ v.cb = 8 + 4 * v.data[2] => Has(4 + v.data[2]))
        /\ v.inType \notin NumberTypes /\ v.outType = "IPV6" /\ v.cb = 16 => Has(8)
        /\ v.inType \notin NumberTypes /\ v.outType = "SOCKETADDRESS" =>
             /\ Has(1)
             /\ v.data[1] = 2 /\ v.cb >= 8 => Has(7)
             /\ v.data[1] = 23 /\ v.cb >= 24 => Has(11)
             /\ v.data[1] = 33 /\ v.cb >= 10 => Has(5)

-----------------------------------------------------------------------------
(* Appends. *)

Printf(chars)     == [fn |-> "printf", chars |-> chars, count |-> 0]
Write(chars)     == [fn |-> "wide", chars |-> chars, count |-> 0]
Convert(v, chars) == [fn |-> "mbcs", chars |-> chars, count |-> v.cb]

Chars(codes) == [k \in 1 .. Len(codes) |-> Ch(codes[k])]

\* MultiByteToWideChar: a lead byte of a two-byte sequence and the byte after
\* it are one character.
IsLead(code) == code >= 192
Converted(codes) ==
    LET From[i \in 1 .. Len(codes) + 2] ==
          IF i > Len(codes) THEN << >>
          ELSE IF IsLead(codes[i]) /\ i < Len(codes)
          THEN <<Ch(64 * (codes[i] - 192) + (codes[i + 1] % 64))>> \o From[i + 2]
          ELSE <<Ch(codes[i])>> \o From[i + 1]
    IN  From[1]

\* AppendHexDump: "0x" and two digits for each byte.
HexDump(v) ==
    <<Write(<<Mark("0x")>> \o [k \in 1 .. Len(v.data) |-> <<"%02X", v.data[k]>>])>>

ByteSwapped(n) == 256 * (n % 256) + n \div 256

IPv4Text(v) == Dotted(v.data[1], v.data[2], v.data[3], v.data[4])

Groups(v, first) == [i \in 0 .. 7 |-> v.data[first + i]]

Reserve(chars) == [fn |-> "reserved", chars |-> chars, count |-> AddressRoom]

\* AppendSockAddr.  data is the family, the port and the scope as they are
\* shown, and then the address.
SockAddr(v) ==
    LET port == v.data[2]
        scope == v.data[3]
        If(condition, append) == IF condition THEN <<append>> ELSE << >>
    IN  CASE v.data[1] = 2 /\ v.cb >= 8 ->
               <<Printf(Dotted(v.data[4], v.data[5], v.data[6], v.data[7]))>>
               \o If(port # 0, Printf(<<Colon, Unsigned(port)>>))
          [] v.data[1] = 23 /\ v.cb >= 24 ->
               If(port # 0, Write(<<Mark("[")>>))
               \o <<Reserve(IPv6(Groups(v, 4)))>>
               \o If(v.cb >= 28 /\ scope # 0, Printf(<<Mark("%"), Unsigned(scope)>>))
               \o If(port # 0, Printf(<<Mark("]"), Colon, Unsigned(port)>>))
          [] v.data[1] = 33 /\ v.cb >= 10 ->
               <<Printf(<<<<"%02X", v.data[4]>>, <<"%02X", v.data[5]>>>>)>>
          [] OTHER -> HexDump(v)

\* A SID.  data is the revision, SubAuthorityCount, the two parts of the
\* authority, and the sub-authorities.
Sid(v) ==
    IF v.data[1] # 1 \/ v.cb # 8 + 4 * v.data[2] THEN HexDump(v)
    ELSE <<Printf(IF v.data[3] # 0 THEN <<Mark("S-1-"), <<"0x%llX", v.data[3]>>, <<"0x%llX", v.data[4]>>>>
                                  ELSE <<Mark("S-1-"), Unsigned(v.data[4])>>)>>
         \o [i \in 1 .. v.data[2] |-> Printf(<<Mark("-"), Unsigned(v.data[4 + i])>>)]

-----------------------------------------------------------------------------
(* AddValue. *)

\* The value is shown in hexadecimal.
InHex(v) ==
    \/ v.inType \in HexTypes
    \/ v.inType = "UINT8" /\ v.outType = "HEXINT8"
    \/ v.inType = "UINT16" /\ v.outType = "HEXINT16"
    \/ v.inType = "UINT32" /\ v.outType \in {"HEXINT32", "ERRORCODE", "CodePointer"}
    \/ v.inType = "UINT64" /\ v.outType \in {"HEXINT64", "CodePointer"}
    \/ v.inType \in PointerTypes /\ v.outType \notin {"LONG", "UNSIGNEDLONG"}

InDecimal(v) == v.inType \in SignedTypes \cup UnsignedTypes \cup PointerTypes /\ ~InHex(v)

HasSign(v) == v.inType \in SignedTypes \/ (v.inType \in PointerTypes /\ v.outType = "LONG")

\* The numbers of Infinity and NaN, which JSON has no literals for.
NotFinite == {-1, -2}

\* m_timestampFormat and outType say whether the time zone is known.
TimeIsUtc(v, flags) ==
    \/ v.outType = "DATETIME_UTC"
    \/ v.inType = "FILETIME" /\ "AssumeFileTimeUTC" \in flags

TimeText(v, flags, bias) ==
    LET text == IF v.inType = "FILETIME" THEN FileTimeText(v.data[1], flags, bias, TimeIsUtc(v, flags))
                                         ELSE SystemTimeText(v.data[1], flags, bias, TimeIsUtc(v, flags))
        \* push_back for "Z", AppendPrintf for the rest
        AppendOf(char) == IF char = Utc THEN Write(<<char>>) ELSE Printf(<<char>>)
    IN  [k \in 1 .. Len(text) |-> AppendOf(text[k])]

\* Mutant: the flag that forbids escaping is given to every text.
TypeOf_AllClean(v) == "JsonCleanString"

TypeOf(v) ==
    CASE v.inType \in WideTypes \cup MbcsTypes -> "JsonString"
      [] v.inType \in {"INT8", "UINT8", "UINT16"} /\ IsText(v) -> "JsonString"
      [] InDecimal(v) /\ ~(v.inType \in {"INT8", "UINT8", "UINT16"} /\ IsText(v)) ->
           (IF v.inType = "UINT32" /\ v.outType = "IPV4" THEN "JsonCleanString" ELSE "JsonLiteral")
      [] v.inType = "BOOLEAN" -> "JsonLiteral"
      [] v.inType \in {"FLOAT", "DOUBLE"} ->
           (IF v.data[1] \in NotFinite THEN "JsonCleanString" ELSE "JsonLiteral")
      [] OTHER -> "JsonCleanString"

NumberAppends(v) ==
    LET n == v.data[1] IN
    CASE v.inType \in {"INT8", "UINT8"} /\ IsText(v) -> <<Convert(v, Converted(v.data))>>
      [] v.inType = "UINT16" /\ IsText(v) -> <<Write(<<Ch(n)>>)>>
      [] v.inType = "UINT16" /\ v.outType = "PORT" -> <<Printf(<<Unsigned(ByteSwapped(n))>>)>>
      [] v.inType = "UINT32" /\ v.outType = "IPV4" -> <<Printf(IPv4Text(v))>>
      [] InHex(v) -> <<Printf(<<Hex(n)>>)>>
      [] OTHER -> <<Printf(<<IF HasSign(v) THEN Signed(n) ELSE Unsigned(n)>>)>>

ValueAppends(v, flags, bias) ==
    CASE v.inType = "NULL" -> << >>
      [] v.inType \in WideTypes -> <<Write(Chars(SubSeq(v.data, 1, v.cb \div 2)))>>
      [] v.inType \in MbcsTypes -> <<Convert(v, Converted(v.data))>>
      [] InDecimal(v) \/ InHex(v) -> NumberAppends(v)
      [] v.inType \in {"FLOAT", "DOUBLE"} -> <<Printf(<<<<"%g", v.data[1]>>>>)>>
      [] v.inType = "BOOLEAN" -> <<Write(<<Mark(IF v.data[1] # 0 THEN "true" ELSE "false")>>)>>
      [] v.inType = "GUID" -> <<Printf(<<Mark("{"), <<"guid", v.data[1]>>, Mark("}")>>)>>
      [] v.inType \in {"FILETIME", "SYSTEMTIME"} -> TimeText(v, flags, bias)
      [] v.inType \in {"SID", "WBEMSID"} -> Sid(v)
      [] OTHER ->           \* BINARY, HEXDUMP and every type that has no case
           (CASE v.outType = "IPV6" /\ v.cb = 16 -> <<Reserve(IPv6(Groups(v, 1)))>>
              [] v.outType = "SOCKETADDRESS" -> SockAddr(v)
              [] OTHER -> HexDump(v))

-----------------------------------------------------------------------------
(* Result codes: the out-types that ask the callbacks, and how they are shown. *)

DomainOf(v) ==
    CASE v.inType = "INT32" /\ v.outType = "HRESULT" -> "HR"
      [] v.inType \in {"UINT32", "HEXINT32"} /\ v.outType = "WIN32ERROR" -> "WIN"
      [] v.inType \in {"UINT32", "HEXINT32"} /\ v.outType = "NTSTATUS" -> "NT"
      [] OTHER -> "none"

IsResultCode(v) == DomainOf(v) # "none"

CodeInHex(v) == DomainOf(v) # "WIN" \/ v.inType = "HEXINT32"

\* AddValueWithMapInfo: the types that a map may be for.
MayHaveMap(v) == v.inType \in {"UINT8", "UINT16", "UINT32", "HEXINT32"} /\ v.cb \in Sizes(v.inType)

MapInHex(v) ==
    \/ v.inType = "HEXINT32"
    \/ <<v.inType, v.outType>> \in {<<"UINT8", "HEXINT8">>, <<"UINT16", "HEXINT16">>,
                                    <<"UINT32", "HEXINT32">>}
=============================================================================

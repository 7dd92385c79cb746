------------------------------ MODULE EtwTypes ------------------------------
(***************************************************************************)
(* The data the decoder reads, and the size rules it applies to it.        *)
(*                                                                         *)
(* An event is decoded with a TRACE_EVENT_INFO (tei), an array of          *)
(* EVENT_PROPERTY_INFO whose first TopLevelPropertyCount entries are the    *)
(* top-level fields and whose other entries are the members of structs,    *)
(* and with the bytes of the event's payload, UserData.  This module says  *)
(* what those look like and, for every TDH in-type, how many payload bytes *)
(* a value of the type takes (StartValue and StartArray of                 *)
(* EtwEnumerator.cpp).  It has no state.                                   *)
(***************************************************************************)
EXTENDS Integers, Sequences

Octet  == 256
Word   == 65536            \* USHORT arithmetic is modulo 2^16
BYTE   == 0 .. Octet - 1
USHORT == 0 .. Word - 1

-----------------------------------------------------------------------------
(***************************************************************************)
(* TDH in-types, grouped by the switch cases of StartValue and StartArray. *)
(* "Unsupported" stands for every value that reaches the default case.     *)
(***************************************************************************)
OneByteTypes   == {"INT8", "UINT8", "ANSICHAR"}
TwoByteTypes   == {"INT16", "UINT16", "UNICODECHAR"}
FourByteTypes  == {"INT32", "UINT32", "HEXINT32", "FLOAT", "BOOLEAN"}
EightByteTypes == {"INT64", "UINT64", "DOUBLE", "FILETIME", "HEXINT64"}
WideByteTypes  == {"GUID", "SYSTEMTIME"}
PointerTypes   == {"POINTER", "SIZET"}

SimpleTypes == UNION {OneByteTypes, TwoByteTypes, FourByteTypes,
                      EightByteTypes, WideByteTypes, PointerTypes}

CountedTypes  == {"COUNTEDSTRING", "REVERSEDCOUNTEDSTRING",
                  "COUNTEDANSISTRING", "REVERSEDCOUNTEDANSISTRING",
                  "ManifestCountedString", "ManifestCountedAnsiString",
                  "ManifestCountedBinary"}
ReversedTypes == {"REVERSEDCOUNTEDSTRING", "REVERSEDCOUNTEDANSISTRING"}

ComplexTypes == CountedTypes \cup
    {"NULL", "UNICODESTRING", "ANSISTRING", "BINARY", "SID", "HEXDUMP",
     "NONNULLTERMINATEDSTRING", "NONNULLTERMINATEDANSISTRING", "WBEMSID"}

SupportedTypes == SimpleTypes \cup ComplexTypes
InType         == SupportedTypes \cup {"Unsupported"}

\* The in-types whose values StartValue keeps for later lengths and counts.
RememberedTypes == {"UINT8", "UINT16", "UINT32", "HEXINT32"}

\* m_cbElement: 0 for a type of variable size.
ElementSize(t, pointerSize) ==
    CASE t \in OneByteTypes   -> 1
      [] t \in TwoByteTypes   -> 2
      [] t \in FourByteTypes  -> 4
      [] t \in EightByteTypes -> 8
      [] t \in WideByteTypes  -> 16
      [] t \in PointerTypes   -> pointerSize
      [] OTHER                -> 0

\* m_cookedInType: the canonical type under which the item is presented.
CookedInType(t) ==
    CASE t \in {"ManifestCountedString", "COUNTEDSTRING",
                "REVERSEDCOUNTEDSTRING", "NONNULLTERMINATEDSTRING"} -> "UNICODESTRING"
      [] t \in {"ManifestCountedAnsiString", "COUNTEDANSISTRING",
                "REVERSEDCOUNTEDANSISTRING", "NONNULLTERMINATEDANSISTRING"} -> "ANSISTRING"
      [] t \in {"ManifestCountedBinary", "HEXDUMP"} -> "BINARY"
      [] t = "WBEMSID" -> "SID"
      [] OTHER -> t

-----------------------------------------------------------------------------
(***************************************************************************)
(* EVENT_PROPERTY_INFO.  count and length are unions in the source: under  *)
(* ParamCount and ParamLength they hold the index of another property.     *)
(***************************************************************************)
PropertyFlag == {"Struct", "ParamCount", "ParamFixedCount",
                 "ParamLength", "ParamFixedLength"}

EventPropertyInfo ==
    [Flags             : SUBSET PropertyFlag,
     InType            : InType,
     OutType           : {"NULL", "IPV6"},
     count             : USHORT,
     length            : USHORT,
     StructStartIndex  : USHORT,
     NumOfStructMembers: USHORT]

(***************************************************************************)
(* What TDH guarantees of a TRACE_EVENT_INFO and the decoder relies on:    *)
(* every index in it names a property, and the members of a struct come    *)
(* after the struct itself (so structs do not contain themselves).         *)
(***************************************************************************)
WellFormedTei(tei) ==
    LET n == tei.PropertyCount
    IN  /\ tei.DecodingSource \in {"WPP", "Other"}
        /\ n \in USHORT
        /\ tei.TopLevelPropertyCount \in 0 .. n
        /\ tei.props \in [0 .. n - 1 -> EventPropertyInfo]
        /\ \A i \in 0 .. n - 1 :
             LET epi == tei.props[i]
             IN  /\ "ParamCount"  \in epi.Flags => epi.count < n
                 /\ "ParamLength" \in epi.Flags => epi.length < n
                 /\ "Struct" \in epi.Flags =>
                      /\ i < epi.StructStartIndex
                      /\ epi.StructStartIndex + epi.NumOfStructMembers <= n

WellFormedEvent(e) ==
    /\ WellFormedTei(e.tei)
    /\ e.UserData \in Seq(BYTE)
    /\ Len(e.UserData) \in USHORT
    /\ e.pointerSize \in {0, 4, 8}    \* EVENT_HEADER_FLAG_{32,64}_BIT_HEADER

-----------------------------------------------------------------------------
(* Reading the payload: d is UserData, p the offset of the first byte read. *)

ReadUINT16(d, p) == d[p + 1] + 256 * d[p + 2]
ReadReversedUINT16(d, p) == 256 * d[p + 1] + d[p + 2]

\* A UINT32 capped at 0xffff, as m_integerValues keeps it.
ReadCappedUINT32(d, p) ==
    IF d[p + 3] = 0 /\ d[p + 4] = 0 THEN ReadUINT16(d, p) ELSE Word - 1

RememberedValue(t, d, p) ==
    CASE t = "UINT8"  -> d[p + 1]
      [] t = "UINT16" -> ReadUINT16(d, p)
      [] OTHER        -> ReadCappedUINT32(d, p)

\* strnlen and unaligned_wcsnlen: characters of w bytes before the first nul,
\* or max when there is none.
BoundedLength(d, p, w, max) ==
    LET IsEnd(n) == n = max \/ \A k \in 1 .. w : d[p + w * n + k] = 0
    IN  CHOOSE n \in 0 .. max : IsEnd(n) /\ \A m \in 0 .. max : IsEnd(m) => n <= m

HasLength(epi) ==
    \/ "ParamLength" \in epi.Flags
    \/ epi.length # 0
    \/ "ParamFixedLength" \in epi.Flags

\* integerValues is m_integerValues: the last value seen of each property.
CurrentPropertyLength(epi, integerValues) ==
    IF "ParamLength" \in epi.Flags THEN integerValues[epi.length] ELSE epi.length

RoundedToEven(n) == n - (n % 2)

(***************************************************************************)
(* Where a value lies: skip is the prefix between m_pbDataNext and         *)
(* m_pbCooked, cooked and raw are m_cbCooked and m_cbRaw.  Both are        *)
(* USHORTs: the sums that give raw wrap.  A prefix that does not fit is    *)
(* reported as a raw size that does not fit either.                        *)
(***************************************************************************)
Extent(skip, cooked, raw) ==
    [skip |-> skip, cooked |-> cooked % Word, raw |-> raw % Word]

NulTerminatedExtent(d, p, w) ==
    LET cbRemaining == Len(d) - p
        n == BoundedLength(d, p, w, cbRemaining \div w)
    IN  IF n = cbRemaining \div w THEN Extent(0, w * n, cbRemaining)
                                  ELSE Extent(0, w * n, w * n + w)

CountedExtent(t, d, p) ==
    IF Len(d) - p < 2 THEN Extent(0, 0, 2) ELSE
    LET n == IF t \in ReversedTypes THEN ReadReversedUINT16(d, p) ELSE ReadUINT16(d, p)
    IN  Extent(2, IF CookedInType(t) = "UNICODESTRING" THEN RoundedToEven(n) ELSE n, n + 2)

\* Mutant: the size of the value is that of the item, prefix included.
HexDumpExtent_PrefixCounted(d, p) ==
    IF Len(d) - p < 4 THEN Extent(0, 0, 4)
                      ELSE Extent(4, ReadUINT16(d, p) + 4, ReadUINT16(d, p) + 4)

HexDumpExtent(d, p) ==
    IF Len(d) - p < 4 THEN Extent(0, 0, 4)
                      ELSE Extent(4, ReadUINT16(d, p), ReadUINT16(d, p) + 4)

\* A SID, after a TOKEN_USER of `skip` bytes in a WBEMSID.
SidExtent(d, p, skip) ==
    IF Len(d) - p < skip + 8 THEN Extent(0, 0, skip + 8) ELSE
    LET n == 8 + 4 * d[p + skip + 2] IN Extent(skip, n, skip + n)

\* A string of w-byte characters: of a given length, or nul-terminated.
StringExtent(epi, w, length, d, p) ==
    IF HasLength(epi) THEN Extent(0, w * length, w * length)
                      ELSE NulTerminatedExtent(d, p, w)

\* An IPv6 address without a length is 16 bytes.
BinaryExtent(epi, length) ==
    IF HasLength(epi) \/ epi.OutType # "IPV6" THEN Extent(0, length, length)
                                             ELSE Extent(0, 16, 16)

ComplexExtent(epi, integerValues, pointerSize, d, p) ==
    LET t           == epi.InType
        cbRemaining == Len(d) - p
        length      == CurrentPropertyLength(epi, integerValues)
    IN  CASE t = "UNICODESTRING" -> StringExtent(epi, 2, length, d, p)
          [] t = "ANSISTRING" -> StringExtent(epi, 1, length, d, p)
          [] t = "BINARY" -> BinaryExtent(epi, length)
          [] t \in CountedTypes -> CountedExtent(t, d, p)
          [] t = "HEXDUMP" -> HexDumpExtent(d, p)
          [] t = "NONNULLTERMINATEDSTRING" -> Extent(0, RoundedToEven(cbRemaining), cbRemaining)
          [] t = "NONNULLTERMINATEDANSISTRING" -> Extent(0, cbRemaining, cbRemaining)
          [] t = "SID" -> SidExtent(d, p, 0)
          [] t = "WBEMSID" -> SidExtent(d, p, 2 * pointerSize)
          [] OTHER -> Extent(0, 0, 0)      \* TDH_INTYPE_NULL

ValueExtent(epi, integerValues, pointerSize, d, p) ==
    IF epi.InType \in SimpleTypes
    THEN LET n == ElementSize(epi.InType, pointerSize) IN Extent(0, n, n)
    ELSE ComplexExtent(epi, integerValues, pointerSize, d, p)

\* Mutant: TDH_INTYPE_BINARY leaves before the check too.
ExtentIsChecked_NotBinary(epi) ==
    /\ epi.InType \notin {"NULL", "BINARY"}
    /\ epi.InType \in {"UNICODESTRING", "ANSISTRING"} => HasLength(epi)

\* The cases that leave StartValue before its final check of m_cbRaw: their
\* extent has "already validated that m_cbRaw <= cbRemaining".
ExtentIsChecked(epi) ==
    /\ epi.InType # "NULL"
    /\ epi.InType \in {"UNICODESTRING", "ANSISTRING"} => HasLength(epi)
=============================================================================

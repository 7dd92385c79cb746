---------------------------- MODULE EtwCallbacks -----------------------------
(***************************************************************************)
(* The default EtwEnumeratorCallbacks: what FormatMapValue and             *)
(* FormatResultCodeValue append.                                           *)
(*                                                                         *)
(* A map is [flags, entries], an entry [value, name]; the name stands for  *)
(* the string without its trailing spaces.  A 32-bit value is a number     *)
(* below 2^BitCount, for its bits Bits(n).                                 *)
(***************************************************************************)
EXTENDS EtwCharacters

CONSTANTS
    BitCount,      (* 32                                                    *)
    NtBit          (* FACILITY_NT_BIT, as a number below 2^BitCount         *)

ASSUME CallbacksAssumption == BitCount \in Nat /\ NtBit \in Nat \ {0}

Bits(n) == {k \in 0 .. BitCount - 1 : (n \div 2^k) % 2 = 1}

\* The number that has these bits, the highest first.
NumberOf(bits) ==
    LET Up[k \in 0 .. BitCount] ==
          IF k = 0 THEN 0 ELSE 2 * Up[k - 1] + (IF BitCount - k \in bits THEN 1 ELSE 0)
    IN  Up[BitCount]

Number(hexadecimal, n) == IF hexadecimal THEN Hex(n) ELSE Unsigned(n)

Name(entry) == <<"name", entry.name>>
Unknown == Mark("??")

-----------------------------------------------------------------------------
(* FormatMapValue. *)

WithoutNoMap(map) == map.flags \ {"WBEM_NO_MAP"}

IsValueMap(map) == WithoutNoMap(map) \in {{"MANIFEST_VALUEMAP"}, {"WBEM_VALUEMAP"}}
IsIndexed(map)  == "WBEM_NO_MAP" \in map.flags

IsBitMap(map) ==
    WithoutNoMap(map) \in {{"MANIFEST_BITMAP"}, {"WBEM_BITMAP"}, {"WBEM_VALUEMAP", "WBEM_FLAG"}}

\* The entries that an indexed map has at the value, or a map has for it.
EntriesFor(map, value) ==
    IF IsIndexed(map) THEN {value + 1} \cap DOMAIN map.entries
    ELSE {i \in DOMAIN map.entries : map.entries[i].value = value}

\* "value(name)", with the first of the entries, or "value(??)".
ValueMapText(map, hexadecimal, value) ==
    LET found == EntriesFor(map, value)
        first == CHOOSE i \in found : \A j \in found : i <= j
    IN  <<Number(hexadecimal, value), Mark("("),
          IF found = {} THEN Unknown ELSE Name(map.entries[first]), Mark(")")>>

\* (value & mask) == mask, and a mask of zero is for a value of zero.
Matches(entry, value) ==
    /\ Bits(entry.value) \subseteq Bits(value)
    /\ entry.value # 0 \/ value = 0

\* "value[name" or ",name".
BitText(entry, hexadecimal, value, isFirst) ==
    IF isFirst THEN <<Number(hexadecimal, value), Mark("["), Name(entry)>>
               ELSE <<Mark(","), Name(entry)>>

\* After the loop: "]", ",rest]", and when nothing matched, "value[]" or "value[??]".
BitMapEnd(hexadecimal, value, matched, found) ==
    CASE ~found -> <<Number(hexadecimal, value), Mark("[")>>
                   \o (IF value = 0 THEN << >> ELSE <<Unknown>>) \o <<Mark("]")>>
      [] found /\ matched # Bits(value) ->
           <<Mark(","), Hex(NumberOf(Bits(value) \ matched)), Mark("]")>>
      [] OTHER -> <<Mark("]")>>

-----------------------------------------------------------------------------
(* FormatResultCodeValue. *)

HasNtBit(value) == (value \div NtBit) % 2 = 1

\* Where the message for the code is looked up, and for which code.
Lookup(domain, value) ==
    CASE domain = "WIN" -> <<"system", value>>
      [] domain = "HR" /\ HasNtBit(value) -> <<"ntdll", value - NtBit>>
      [] domain = "HR" /\ ~HasNtBit(value) -> <<"system", value>>
      [] domain = "NT" -> <<"ntdll", value>>

\* "value(domain=message)" or "value(domain=??)".
ResultCodeText(domain, hexadecimal, value, isKnown) ==
    <<Number(hexadecimal, value), Mark("("), Mark(domain), Mark("="),
      IF isKnown THEN Lookup(domain, value) ELSE Unknown, Mark(")")>>

-----------------------------------------------------------------------------
(* Reading the texts back. *)

MaskOf(map, name) ==
    UNION {Bits(map.entries[i].value) : i \in {j \in DOMAIN map.entries : map.entries[j].name = name}}

ValueMapIsRead(s, map, value) ==
    /\ Len(s) = 4
    /\ s[1][2] = value
    /\ IF s[3] = Unknown THEN \A i \in DOMAIN map.entries : map.entries[i].value # value
       ELSE \E i \in DOMAIN map.entries : map.entries[i].value = value /\ Name(map.entries[i]) = s[3]

\* The names that are listed and the rest in hexadecimal are together the
\* value, and apart from each other; nothing that matches is left out.
BitMapIsRead(s, map, value) ==
    LET names  == {k \in 3 .. Len(s) : s[k][1] = "name"}
        rests  == {k \in 3 .. Len(s) : s[k][1] = "0x%X"}
        listed == UNION {MaskOf(map, s[k][2]) : k \in names}
        rest   == UNION {Bits(s[k][2]) : k \in rests}
    IN  /\ s[1][2] = value
        /\ s[2] = Mark("[") /\ s[Len(s)] = Mark("]")
        /\ listed \cap rest = {}
        /\ (\E k \in 3 .. Len(s) : s[k] = Unknown) => names = {} /\ value # 0
        /\ (\A k \in 3 .. Len(s) : s[k] # Unknown) => listed \cup rest = Bits(value)
        /\ \A i \in DOMAIN map.entries :
             Bits(map.entries[i].value) \subseteq Bits(value) /\ map.entries[i].value # 0 =>
               \E k \in names : s[k] = Name(map.entries[i])

ResultCodeIsRead(s, domain, value) ==
    /\ s[1][2] = value
    /\ s[3] = Mark(domain)
    /\ s[5] \in {Unknown, <<"system", value>>, <<"ntdll", value>>, <<"ntdll", value - NtBit>>}
    /\ s[5][1] = "ntdll" <=> s[5] # Unknown /\ (domain = "NT" \/ (domain = "HR" /\ HasNtBit(value)))
=============================================================================

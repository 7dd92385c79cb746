----------------------------- MODULE EtwAddress ------------------------------
(***************************************************************************)
(* AppendIPv4, AppendIPv6 and AppendSockAddr: the text of an address.      *)
(*                                                                         *)
(* An IPv6 address is its eight groups, ap[0] to ap[7], in network order.  *)
(***************************************************************************)
EXTENDS EtwCharacters

Group(g) == <<"%x", g>>
Colon == Mark(":")
Gap   == Mark("::")

\* "%u.%u.%u.%u" of four bytes.
Dotted(b1, b2, b3, b4) ==
    <<Unsigned(b1), Mark("."), Unsigned(b2), Mark("."), Unsigned(b3), Mark("."), Unsigned(b4)>>

LastFourBytes(ap) == Dotted(ap[6] \div 256, ap[6] % 256, ap[7] \div 256, ap[7] % 256)

\* "%x" of the group at first, and ":%x" of those after it and before end.
GroupsOf(ap, first, end) ==
    [k \in 1 .. 2 * (end - first) - 1 |->
        IF k % 2 = 1 THEN Group(ap[first + k \div 2]) ELSE Colon]

\* The n groups from first on are zero.
IsZeroRun(ap, endHex, first, n) ==
    first + n <= endHex /\ \A k \in first .. first + n - 1 : ap[k] = 0

HasZeroRun(ap, endHex, n) == \E first \in 0 .. endHex - n : IsZeroRun(ap, endHex, first, n)

\* maxLen: the loop starts at 1, so that a single zero is no run.
ZeroRunLength(ap, endHex) ==
    CHOOSE n \in 1 .. endHex :
        /\ n > 1 => HasZeroRun(ap, endHex, n)
        /\ \A m \in n + 1 .. endHex : ~HasZeroRun(ap, endHex, m)

\* maxFirst: where the first of the longest runs is, endHex if there is none.
ZeroRunFirst(ap, endHex, length) ==
    IF length = 1 THEN endHex
    ELSE CHOOSE first \in 0 .. endHex - length :
           /\ IsZeroRun(ap, endHex, first, length)
           /\ \A other \in 0 .. first - 1 : ~IsZeroRun(ap, endHex, other, length)

\* The middle says that the last four bytes are an IPv4 address (ISATAP).
EndHex(ap) == IF ap[4] \in {0, 512} /\ ap[5] = 24318 THEN 6 ELSE 8       \* 0x0200, 0x5EFE

StartsWithZeros(ap) == \A i \in 0 .. 3 : ap[i] = 0

IPv6(ap) ==
    LET endHex == EndHex(ap)
        length == ZeroRunLength(ap, endHex)
        first  == ZeroRunFirst(ap, endHex, length)
        after  == first + length
    IN  CASE \A i \in 0 .. 7 : ap[i] = 0 -> <<Gap>>
          [] StartsWithZeros(ap) /\ ap[6] # 0 /\ ap[4] = 0 /\ ap[5] = 0 ->
               <<Gap>> \o LastFourBytes(ap)
          [] StartsWithZeros(ap) /\ ap[6] # 0 /\ ap[4] = 0 /\ ap[5] = 65535 ->
               <<Gap, Group(65535), Colon>> \o LastFourBytes(ap)
          [] StartsWithZeros(ap) /\ ap[6] # 0 /\ ap[4] = 65535 /\ ap[5] = 0 ->
               <<Gap, Group(65535), Colon, Group(0), Colon>> \o LastFourBytes(ap)
          [] OTHER ->
               (IF first = 0 THEN << >> ELSE GroupsOf(ap, 0, first))
               \o (CASE after < endHex -> <<Gap>> \o GroupsOf(ap, after, endHex)
                     [] after >= endHex /\ first # endHex -> <<Gap>>
                     [] OTHER -> << >>)
               \o (IF endHex = 6 THEN <<Colon>> \o LastFourBytes(ap) ELSE << >>)

-----------------------------------------------------------------------------
(* Reading an address back, as RFC 4291 has it. *)

Select(s, kind) == SelectSeq(s, LAMBDA c : c[1] = kind)

\* Groups and decimal bytes, two of which are one group.
GroupsRead(s) ==
    LET hex == Select(s, "%x")
        dec == Select(s, "%u")
    IN  [k \in 1 .. Len(hex) |-> hex[k][2]]
        \o [k \in 1 .. Len(dec) \div 2 |-> 256 * dec[2 * k - 1][2] + dec[2 * k][2]]

IsNumber(c) == c[1] \in {"%x", "%u"}

\* Numbers and separators alternate, and only "::" begins or ends the text.
WellPunctuated(s) ==
    /\ \A k \in 1 .. Len(s) - 1 : IsNumber(s[k]) # IsNumber(s[k + 1])
    /\ s[1] = Gap \/ IsNumber(s[1])
    /\ s[Len(s)] = Gap \/ IsNumber(s[Len(s)])
    /\ Len(Select(s, "::")) <= 1

AddressRead(s) ==
    LET gaps == {k \in 1 .. Len(s) : s[k] = Gap}
        gap  == IF gaps = {} THEN Len(s) + 1 ELSE CHOOSE k \in gaps : TRUE
        left  == GroupsRead(SubSeq(s, 1, gap - 1))
        right == GroupsRead(SubSeq(s, gap + 1, Len(s)))
    IN  [i \in 0 .. 7 |->
           CASE i < Len(left) -> left[i + 1]
             [] i >= 8 - Len(right) -> right[i + 1 - (8 - Len(right))]
             [] OTHER -> 0]

\* How many wide characters the text takes.
WidthOf(c) ==
    CASE c[1] = "%x" -> (IF c[2] < 16 THEN 1 ELSE IF c[2] < 256 THEN 2
                         ELSE IF c[2] < 4096 THEN 3 ELSE 4)
      [] c[1] = "%u" -> (IF c[2] < 10 THEN 1 ELSE IF c[2] < 100 THEN 2 ELSE 3)
      [] c = Gap -> 2
      [] OTHER -> 1

Width(s) ==
    LET Sum[k \in 0 .. Len(s)] == IF k = 0 THEN 0 ELSE Sum[k - 1] + WidthOf(s[k])
    IN  Sum[Len(s)]

\* No run of zeros among the groups in hexadecimal is longer than the one that
\* "::" stands for ("Find longest substring of zeroes"), and a run of two or
\* more is never spelled out.
GapIsLongest(ap, s) ==
    LET hidden == 8 - Len(GroupsRead(s))
        zeros(i, j) == \A k \in i .. j : ap[k] = 0
    IN  \A i, j \in 0 .. EndHex(ap) - 1 :
          i < j /\ zeros(i, j) => j - i + 1 <= hidden

AddressIsRead(ap, s) ==
    /\ WellPunctuated(s)
    /\ AddressRead(s) = ap
    /\ GapIsLongest(ap, s)
    /\ Width(s) <= 46
=============================================================================

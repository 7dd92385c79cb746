---------------------------- MODULE EtwCharacters ----------------------------
(***************************************************************************)
(* The characters of a formatted value, and how a JSON string has them.    *)
(*                                                                         *)
(* A character is a pair of a kind and a number.  A character of a string  *)
(* in the event is <<"ch", code>>; what one conversion of a format writes  *)
(* is one character too: <<"%u", n>> is n in decimal, <<"%d", n>> n with a *)
(* sign, <<"0x%X", n>> n in hexadecimal.  Literal text is a Mark.          *)
(***************************************************************************)
EXTENDS Integers, Sequences

\* The kinds: conversions, what stands for a text that is not modelled (a name,
\* a message, a date), and literal text.  Some are the conversions, and some the
\* flags and digits, of the printf format of a parameter.
Conversions ==
    {"%u", "%d", "%x", "%02X", "0x%X", "0x%llX", "%g",
     "c", "C", "d", "i", "o", "u", "x", "X", "p", "f", "F", "e", "E", "g", "G", "a", "A"}
Texts       == {"guid", "name", "system", "ntdll", "date.3", "date.7", "+HH:MM"}
Literals    ==
    {"0x", ":", "::", ".", "[", "]", "(", ")", "=", ",", "%", "-", "{", "}", "S-1-", "??",
     "HR", "NT", "WIN", "true", "false", "0000-00-00", "Z", "+", " ", "#", "h", "l",
     "0", "1", "2", "3", "4", "5", "6", "7", "8", "9"}

Kinds == {"ch"} \cup Conversions \cup Texts \cup Literals

\* What texts are made of.
Characters == {c \in Kinds \X Int : c[1] = "ch" => c[2] >= 0}

Ch(code)   == <<"ch", code>>
Mark(text) == <<text, 0>>

\* What is in a place that nothing was written to.
Unwritten == Mark("unwritten")

Signed(n)   == <<"%d", n>>
Unsigned(n) == <<"%u", n>>
Hex(n)      == <<"0x%X", n>>

QuoteCode == 34
BackslashCode == 92

QuoteMark == Ch(QuoteCode)
Backslash == Ch(BackslashCode)

\* Control characters that have an escape of their own: \b \t \n \f \r.
EscapeLetter == [c \in {8, 9, 10, 12, 13} |->
    CASE c = 8 -> 98 [] c = 9 -> 116 [] c = 10 -> 110 [] c = 12 -> 102 [] c = 13 -> 114]

IsControl(c) == c[1] = "ch" /\ c[2] < 32

HexDigit(n) == IF n < 10 THEN Ch(48 + n) ELSE Ch(55 + n)

\* The body of the loop in AppendStringAsJson: what it writes for a character.
JsonEscape(c) ==
    CASE IsControl(c) /\ c[2] \in DOMAIN EscapeLetter -> <<Backslash, Ch(EscapeLetter[c[2]])>>
      [] IsControl(c) /\ c[2] \notin DOMAIN EscapeLetter ->
           <<Backslash, Ch(117), Ch(48), Ch(48), HexDigit(c[2] \div 16), HexDigit(c[2] % 16)>>
      [] c \in {QuoteMark, Backslash} -> <<Backslash, c>>
      [] OTHER -> <<c>>

-----------------------------------------------------------------------------
(* Reading a JSON string back, as RFC 8259 has it. *)

Malformed == Mark("malformed")

DigitOf(c) == IF c[2] < 58 THEN c[2] - 48 ELSE c[2] - 55

\* The character that the escape at i stands for.
Unescaped(s, i) ==
    CASE i + 5 <= Len(s) /\ s[i + 1] = Ch(117) -> Ch(16 * DigitOf(s[i + 4]) + DigitOf(s[i + 5]))
      [] i < Len(s) /\ s[i + 1] \in {QuoteMark, Backslash} -> s[i + 1]
      [] i < Len(s) /\ \E c \in DOMAIN EscapeLetter : s[i + 1] = Ch(EscapeLetter[c]) ->
           Ch(CHOOSE c \in DOMAIN EscapeLetter : s[i + 1] = Ch(EscapeLetter[c]))
      [] OTHER -> Malformed

EscapeLength(s, i) == IF i < Len(s) /\ s[i + 1] = Ch(117) THEN 6 ELSE 2

\* What the string between the quotes says.
JsonText(s) ==
    LET From[i \in 1 .. Len(s) + 6] ==
          IF i > Len(s) THEN << >>
          ELSE IF s[i] = Backslash THEN <<Unescaped(s, i)>> \o From[i + EscapeLength(s, i)]
          ELSE <<IF s[i] = QuoteMark \/ IsControl(s[i]) THEN Malformed ELSE s[i]>> \o From[i + 1]
    IN  From[1]
=============================================================================

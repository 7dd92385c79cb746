-------------------------- MODULE EtwAttributeList --------------------------
(***************************************************************************)
(* The name/value pairs that an attribute string stands for: "a semicolon- *)
(* separated list of Name=Value pairs.  Values can be quoted, and quotes   *)
(* can be included in a value by doubling them."  Defined by what is       *)
(* inside quotes, with no buffer.                                          *)
(***************************************************************************)
EXTENDS Integers, Sequences, FiniteSets

DoubleQuote == "\""

\* An odd number of quotes precedes the i-th character.
Inside(s, i) == Cardinality({j \in 1 .. i - 1 : s[j] = DoubleQuote}) % 2 = 1

\* The separators, which are outside quotes.
IsSemicolon(s, i) == s[i] = ";" /\ ~Inside(s, i)
IsEqual(s, i)     == s[i] = "=" /\ ~Inside(s, i)

First(S) == CHOOSE i \in S : \A j \in S : i <= j

\* In a text that begins at a, a quote is a character if it follows the quote
\* that seemed to close the quoted region.
Kept(s, a, i) == s[i] # DoubleQuote \/ (~Inside(s, i) /\ i > a /\ s[i - 1] = DoubleQuote)

\* The text from a to each later position.
TextFrom(s, a) ==
    LET To[i \in 0 .. Len(s)] ==
          IF i < a THEN << >> ELSE IF Kept(s, a, i) THEN Append(To[i - 1], s[i]) ELSE To[i - 1]
    IN  To

\* Where the attribute that begins at a ends: at the separator, or after the
\* last character.
Semicolons(s, a) == {i \in a .. Len(s) : IsSemicolon(s, i)}
EndOf(s, a) == IF Semicolons(s, a) = {} THEN Len(s) + 1 ELSE First(Semicolons(s, a))

\* Where its name ends: at the "=", or with the attribute.
Equals(s, a) == {i \in a .. EndOf(s, a) - 1 : IsEqual(s, i)}
Middle(s, a) == IF Equals(s, a) = {} THEN EndOf(s, a) ELSE First(Equals(s, a))

NameAt(s, a)  == TextFrom(s, a)[Middle(s, a) - 1]
ValueAt(s, a) == IF Equals(s, a) = {} THEN << >>
                 ELSE TextFrom(s, Middle(s, a) + 1)[EndOf(s, a) - 1]

AttributeAt(s, a) == [name |-> NameAt(s, a), value |-> ValueAt(s, a)]

\* An attribute that is empty is not listed.
ListedAt(s, a) ==
    IF NameAt(s, a) = << >> /\ ValueAt(s, a) = << >> THEN << >> ELSE <<AttributeAt(s, a)>>

\* The pairs from the attribute that begins at a on.
PairsFrom(s) ==
    LET From[a \in 1 .. Len(s) + 2] ==
          IF a > Len(s) THEN << >> ELSE ListedAt(s, a) \o From[EndOf(s, a) + 1]
    IN  From

PairsOf(s) == PairsFrom(s)[1]
=============================================================================

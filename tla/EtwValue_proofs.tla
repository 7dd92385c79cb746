--------------------------- MODULE EtwValue_proofs ---------------------------
(***************************************************************************)
(* Proofs about the formatting of a value, from the bottom up:             *)
(*                                                                         *)
(*   - characters: the escapes of a JSON string read back as the text;     *)
(*   - times: what the settings make of a time reads back as that time;    *)
(*   - appends: what they do to the buffers, first that they stay inside   *)
(*     and leave nothing unwritten, then the text they add, exactly;       *)
(*   - calls: what a call returns, and that its type and LastError agree;  *)
(*   - texts: the characters of every value, map, bit and code, as the     *)
(*     type of the value promises them;                                    *)
(*   - a value that is added as JSON, step by step: AddInv, and that the   *)
(*     output is a JSON value;                                             *)
(*   - printf formats: what is copied of one, and what is printed with it; *)
(*   - the owner of the buffers: a call does with them only what TextSpec  *)
(*     allows, so that what is proved of TextSpec holds of every call.     *)
(***************************************************************************)
EXTENDS EtwValue, EtwInduction, SequenceTheorems, TLAPS

-----------------------------------------------------------------------------
(***************************************************************************)
(* Characters, and the escapes of a JSON string: what is read back from    *)
(* the escapes of a text is the text.                                      *)
(***************************************************************************)
\* The characters that need no escape and are none: not those of a string.
CleanCharacters == {c \in Characters : c[1] # "ch"}

LEMMA CleanIsCharacters == CleanCharacters \subseteq Characters
BY DEF CleanCharacters

\* A conversion, or what stands for a text.
LEMMA ConversionIsClean ==
  ASSUME NEW kind \in Conversions \cup Texts, NEW n \in Int
  PROVE  <<kind, n>> \in CleanCharacters
<1>1. kind \in Kinds /\ kind # "ch"
  BY DEF Kinds, Conversions, Texts
<1> QED BY <1>1 DEF CleanCharacters, Characters

\* Literal text.
LEMMA MarkIsClean ==
  ASSUME NEW t \in Literals
  PROVE  Mark(t) \in CleanCharacters
<1>1. t \in Kinds /\ t # "ch"
  BY DEF Kinds, Literals
<1> QED BY <1>1 DEF CleanCharacters, Characters, Mark

\* A character of a string.
LEMMA ChIsCharacter ==
  ASSUME NEW n \in Nat
  PROVE  Ch(n) \in Characters
BY DEF Ch, Characters, Kinds

LEMMA NotCharacters ==
  /\ Unwritten \notin Characters
  /\ Malformed \notin Characters
<1>1. "unwritten" \notin Kinds /\ "malformed" \notin Kinds
  BY DEF Kinds, Conversions, Texts, Literals
<1> QED BY <1>1 DEF Unwritten, Malformed, Mark, Characters

LEMMA QuoteIsCharacter == QuoteMark \in Characters /\ Backslash \in Characters
BY ChIsCharacter DEF QuoteMark, Backslash, QuoteCode, BackslashCode

\* The characters with codes below 32.
LEMMA ControlFacts ==
  ASSUME NEW c \in Characters, IsControl(c)
  PROVE  /\ c = Ch(c[2]) /\ c[2] \in 0 .. 31
BY DEF IsControl, Characters, Ch

LEMMA HexDigits ==
  ASSUME NEW n \in 0 .. 15
  PROVE  HexDigit(n) \in Characters /\ DigitOf(HexDigit(n)) = n
<1>1. CASE n < 10
  <2>1. HexDigit(n) = Ch(48 + n) /\ 48 + n \in Nat /\ 48 + n < 58
    BY <1>1 DEF HexDigit
  <2>2. HexDigit(n)[2] = 48 + n
    BY <2>1 DEF Ch
  <2> QED BY <2>1, <2>2, ChIsCharacter DEF DigitOf
<1>2. CASE ~(n < 10)
  <2>1. HexDigit(n) = Ch(55 + n) /\ 55 + n \in Nat /\ ~(55 + n < 58)
    BY <1>2 DEF HexDigit
  <2>2. HexDigit(n)[2] = 55 + n
    BY <2>1 DEF Ch
  <2> QED BY <2>1, <2>2, ChIsCharacter DEF DigitOf
<1> QED BY <1>1, <1>2

\* The escapes of one character that are two characters long: a backslash and
\* the letter of a control character, a quote or a backslash.
ShortEscape(c) == IF c \in {QuoteMark, Backslash} THEN c ELSE Ch(EscapeLetter[c[2]])

HasShortEscape(c) ==
    \/ IsControl(c) /\ c[2] \in DOMAIN EscapeLetter
    \/ ~IsControl(c) /\ c \in {QuoteMark, Backslash}

\* The others: \u00 and two digits.
LongEscape(c) ==
    <<Backslash, Ch(117), Ch(48), Ch(48), HexDigit(c[2] \div 16), HexDigit(c[2] % 16)>>

LEMMA EscapeCases ==
  ASSUME NEW c \in Characters
  PROVE  \/ /\ IsControl(c) /\ c[2] \in DOMAIN EscapeLetter
            /\ JsonEscape(c) = <<Backslash, ShortEscape(c)>>
         \/ /\ IsControl(c) /\ c[2] \notin DOMAIN EscapeLetter
            /\ JsonEscape(c) = LongEscape(c)
         \/ /\ ~IsControl(c) /\ c \in {QuoteMark, Backslash}
            /\ JsonEscape(c) = <<Backslash, ShortEscape(c)>>
         \/ /\ ~IsControl(c) /\ c \notin {QuoteMark, Backslash}
            /\ JsonEscape(c) = <<c>>
<1>1. IsControl(c) => c \notin {QuoteMark, Backslash}
  BY DEF IsControl, QuoteMark, Backslash, Ch, QuoteCode, BackslashCode
<1> QED BY <1>1 DEF JsonEscape, ShortEscape, LongEscape

LEMMA LettersAreCharacters ==
  /\ DOMAIN EscapeLetter = {8, 9, 10, 12, 13}
  /\ EscapeLetter[8] = 98 /\ EscapeLetter[9] = 116 /\ EscapeLetter[10] = 110
  /\ EscapeLetter[12] = 102 /\ EscapeLetter[13] = 114
BY DEF EscapeLetter

LEMMA EscapeIsText ==
  ASSUME NEW c \in Characters
  PROVE  /\ JsonEscape(c) \in Seq(Characters) /\ JsonEscape(c) # << >>
         /\ Len(JsonEscape(c)) \in Nat \ {0}
<1>1. ASSUME IsControl(c), c[2] \in DOMAIN EscapeLetter PROVE ShortEscape(c) \in Characters
  <2>1. EscapeLetter[c[2]] \in Nat
    BY <1>1, LettersAreCharacters
  <2> QED BY <2>1, ChIsCharacter DEF ShortEscape
<1>2. ASSUME IsControl(c) PROVE HexDigit(c[2] \div 16) \in Characters /\ HexDigit(c[2] % 16) \in Characters
  <2>1. c[2] \div 16 \in 0 .. 15 /\ c[2] % 16 \in 0 .. 15
    BY <1>2, ControlFacts
  <2> QED BY <2>1, HexDigits
<1>3. /\ Backslash \in Characters /\ Ch(117) \in Characters /\ Ch(48) \in Characters
      /\ c \in {QuoteMark, Backslash} => ShortEscape(c) \in Characters
  BY QuoteIsCharacter, ChIsCharacter DEF ShortEscape
<1> DEFINE e == JsonEscape(c)
<1>4. CASE e = <<Backslash, ShortEscape(c)>> /\ ShortEscape(c) \in Characters
  BY <1>3, <1>4
<1>5. CASE /\ IsControl(c)
           /\ e = LongEscape(c)
  BY <1>2, <1>3, <1>5 DEF LongEscape
<1>6. CASE e = <<c>>
  BY <1>6
<1> HIDE DEF e
<1>7. \/ e = <<Backslash, ShortEscape(c)>> /\ ShortEscape(c) \in Characters
      \/ IsControl(c) /\ e = LongEscape(c)
      \/ e = <<c>>
  BY <1>1, <1>3, EscapeCases DEF e
<1> QED BY <1>4, <1>5, <1>6, <1>7 DEF e


-----------------------------------------------------------------------------
(* Texts that are put together. *)

\* The texts of a sequence, one after the other.
Joined(ss) ==
    LET Up[k \in 0 .. Len(ss)] == IF k = 0 THEN << >> ELSE Up[k - 1] \o ss[k]
    IN  Up

LEMMA JoinedIs ==
  ASSUME NEW V, NEW ss \in Seq(Seq(V))
  PROVE  /\ \A k \in 0 .. Len(ss) : Joined(ss)[k] \in Seq(V)
         /\ Joined(ss)[0] = << >>
         /\ \A k \in 1 .. Len(ss) : Joined(ss)[k] = Joined(ss)[k - 1] \o ss[k]
<1> DEFINE n == Len(ss)
           W == Seq(V)
           empty == << >>
           next == [k \in 1 .. n |-> [s \in W |-> s \o ss[k]]]
           J == CHOOSE J : J = [k \in 0 .. n |-> IF k = 0 THEN << >> ELSE J[k - 1] \o ss[k]]
<1>1. n \in Nat /\ (\A k \in 1 .. n : ss[k] \in W) /\ empty \in W
  BY ElementOfSeq, LenProperties, EmptySeq
<1>2. \A k \in 1 .. n : \A s \in W : s \o ss[k] \in W
  BY <1>1, ConcatProperties
<1> HIDE DEF W, n, empty
<1>3. next \in [1 .. n -> [W -> W]]
  BY <1>2
<1> HIDE DEF next
<1>4. PICK f \in [0 .. n -> W] :
        f[0] = empty /\ \A k \in 1 .. n : f[k] = next[k][f[k - 1]]
  <2>1. Stepwise(W, n, empty, next)
    BY <1>1, <1>3 DEF Stepwise
  <2> QED BY <2>1, Upwards
<1>5. f = [k \in 0 .. n |-> IF k = 0 THEN empty ELSE f[k - 1] \o ss[k]]
  <2>1. \A k \in 1 .. n : k - 1 \in 0 .. n
    BY <1>1
  <2>2. \A k \in 1 .. n : f[k] = f[k - 1] \o ss[k]
    BY <1>4, <2>1 DEF next
  <2>3. \A k \in 0 .. n : f[k] = IF k = 0 THEN empty ELSE f[k - 1] \o ss[k]
    <3>1. \A k \in 0 .. n : k = 0 \/ k \in 1 .. n
      BY <1>1
    <3> QED BY <1>4, <2>2, <3>1
  <2> QED BY <1>4, <2>3
<1>6. J = [k \in 0 .. n |-> IF k = 0 THEN empty ELSE J[k - 1] \o ss[k]]
  BY <1>5 DEF empty
<1>7. Joined(ss) = J
  BY DEF Joined, n
<1> HIDE DEF J
<1>8. J[0] = empty /\ \A k \in 1 .. n : J[k] = J[k - 1] \o ss[k]
  <2> DEFINE E(k) == IF k = 0 THEN empty ELSE J[k - 1] \o ss[k]
  <2>1. J = [k \in 0 .. n |-> E(k)]
    BY <1>6
  <2>2. \A k \in 0 .. n : J[k] = E(k)
    <3> HIDE DEF E
    <3> QED BY <2>1
  <2>3. 0 \in 0 .. n /\ \A k \in 1 .. n : k \in 0 .. n /\ k # 0
    BY <1>1
  <2>4. \A k \in 1 .. n : E(k) = J[k - 1] \o ss[k]
    BY <2>3
  <2> HIDE DEF E
  <2>5. E(0) = empty
    BY DEF E
  <2> QED BY <2>2, <2>3, <2>4, <2>5
<1>9. \A k \in 0 .. n : J[k] \in W
  <2> DEFINE S == {k \in Nat : J[k] \in W}
  <2>1. 0 \in S
    BY <1>1, <1>8
  <2>2. \A k \in 0 .. n - 1 : k \in S => k + 1 \in S
    <3> SUFFICES ASSUME NEW k \in 0 .. n - 1, k \in S PROVE k + 1 \in S
      OBVIOUS
    <3>1. PICK j \in 1 .. n : j = k + 1 /\ j - 1 = k /\ j \in Nat
      BY <1>1
    <3>2. J[j] = J[j - 1] \o ss[j]
      BY <1>8
    <3>3. J[j - 1] \in W
      BY <3>1
    <3>4. J[j] \in W
      BY <1>2, <3>2, <3>3
    <3> QED BY <3>1, <3>4
  <2> HIDE DEF S
  <2>3. \A k \in 0 .. n : k \in S
    BY <1>1, <2>1, <2>2, BoundedInduction
  <2> QED BY <2>3 DEF S
<1> QED BY <1>7, <1>8, <1>9 DEF W, n, empty

\* A text and one more: its length and its characters.
LEMMA ConcatIs ==
  ASSUME NEW V, NEW a \in Seq(V), NEW b \in Seq(V)
  PROVE  /\ a \o b \in Seq(V)
         /\ Len(a \o b) = Len(a) + Len(b)
         /\ Len(a) \in Nat /\ Len(b) \in Nat
         /\ \A i \in 1 .. Len(a) : (a \o b)[i] = a[i]
         /\ \A i \in 1 .. Len(b) : (a \o b)[Len(a) + i] = b[i]
OBVIOUS

LEMMA JoinedStep ==
  ASSUME NEW V, NEW ss \in Seq(Seq(V)), NEW k \in 1 .. Len(ss)
  PROVE  LET J == Joined(ss)
         IN  /\ Len(J[k]) = Len(J[k - 1]) + Len(ss[k])
             /\ \A i \in 1 .. Len(J[k - 1]) : J[k][i] = J[k - 1][i]
             /\ \A i \in 1 .. Len(ss[k]) : J[k][Len(J[k - 1]) + i] = ss[k][i]
<1> DEFINE a == Joined(ss)[k - 1]
           b == ss[k]
<1>1. k - 1 \in 0 .. Len(ss)
  BY LenProperties
<1>2. a \in Seq(V) /\ b \in Seq(V) /\ Joined(ss)[k] = a \o b
  BY <1>1, JoinedIs, ElementOfSeq
<1> HIDE DEF a, b
<1>3. /\ Len(a \o b) = Len(a) + Len(b)
      /\ \A i \in 1 .. Len(a) : (a \o b)[i] = a[i]
      /\ \A i \in 1 .. Len(b) : (a \o b)[Len(a) + i] = b[i]
  BY <1>2, ConcatIs
<1> QED BY <1>2, <1>3 DEF a, b

\* Where each of them is in the whole.
LEMMA JoinedAt ==
  ASSUME NEW V, NEW ss \in Seq(Seq(V)), NEW k \in 1 .. Len(ss)
  PROVE  LET J == Joined(ss)
             s == J[Len(ss)]
         IN  /\ Len(J[k - 1]) \in Nat
             /\ Len(J[k]) = Len(J[k - 1]) + Len(ss[k])
             /\ Len(J[k]) <= Len(s)
             /\ \A i \in 1 .. Len(ss[k]) : s[Len(J[k - 1]) + i] = ss[k][i]
<1> DEFINE n == Len(ss)
           J == Joined(ss)
           Keeps(m) == Len(J[k]) <= Len(J[m]) /\ \A i \in 1 .. Len(J[k]) : J[m][i] = J[k][i]
           S == {m \in Nat : m >= k => Keeps(m)}
<1>1. /\ n \in Nat /\ \A m \in 0 .. n : J[m] \in Seq(V) /\ Len(J[m]) \in Nat
      /\ \A m \in 1 .. n : J[m] = J[m - 1] \o ss[m] /\ ss[m] \in Seq(V) /\ Len(ss[m]) \in Nat
  BY JoinedIs, ElementOfSeq, LenProperties
<1> HIDE DEF J, n
<1>2. \A m \in 1 .. n : /\ Len(J[m]) = Len(J[m - 1]) + Len(ss[m])
                         /\ \A i \in 1 .. Len(J[m - 1]) : J[m][i] = J[m - 1][i]
  <2> SUFFICES ASSUME NEW m \in 1 .. n
               PROVE  /\ Len(J[m]) = Len(J[m - 1]) + Len(ss[m])
                      /\ \A i \in 1 .. Len(J[m - 1]) : J[m][i] = J[m - 1][i]
    OBVIOUS
  <2>1. m \in 1 .. Len(ss)
    BY DEF n
  <2> QED BY <2>1, JoinedStep, ZenonT(60) DEF J
<1>k. k \in 1 .. n
  BY DEF n
<1>3. 0 \in S
  BY <1>1, <1>k
<1>4. \A m \in 0 .. n - 1 : m \in S => m + 1 \in S
  <2> SUFFICES ASSUME NEW m \in 0 .. n - 1, m \in S PROVE m + 1 \in S
    OBVIOUS
  <2>1. m + 1 \in 1 .. n /\ m + 1 - 1 = m /\ m \in 0 .. n /\ m + 1 \in 0 .. n /\ m + 1 \in Nat
    BY <1>1
  <2>2. CASE m + 1 = k
    <3>1. Keeps(k)
      BY <1>1, <1>k
    <3> QED BY <2>1, <2>2, <3>1
  <2>3. CASE m + 1 > k
    <3>1. Keeps(m)
      BY <1>1, <1>k, <2>3
    <3>2. /\ Len(J[m + 1]) = Len(J[m]) + Len(ss[m + 1])
          /\ \A i \in 1 .. Len(J[m]) : J[m + 1][i] = J[m][i]
      <4>1. PICK j \in 1 .. n : j = m + 1 /\ j - 1 = m
        BY <2>1
      <4>2. /\ Len(J[j]) = Len(J[j - 1]) + Len(ss[j])
            /\ \A i \in 1 .. Len(J[j - 1]) : J[j][i] = J[j - 1][i]
        BY <1>2
      <4> QED BY <4>1, <4>2
    <3>3. Len(J[m]) \in Nat /\ Len(J[m + 1]) \in Nat /\ Len(ss[m + 1]) \in Nat /\ Len(J[k]) \in Nat
      <4>1. k \in 0 .. n
        BY <1>1, <1>k
      <4> QED BY <1>1, <2>1, <4>1
    <3>4. Len(J[k]) <= Len(J[m + 1])
      <4>1. Len(J[k]) <= Len(J[m])
        BY <3>1
      <4>2. Len(J[m + 1]) = Len(J[m]) + Len(ss[m + 1])
        BY <3>2
      <4> DEFINE x == Len(J[k])
                 y == Len(J[m])
                 z == Len(ss[m + 1])
      <4>3. x \in Nat /\ y \in Nat /\ z \in Nat /\ x <= y /\ Len(J[m + 1]) = y + z
        BY <3>3, <4>1, <4>2
      <4> HIDE DEF x, y, z
      <4>4. x <= y + z
        BY <4>3
      <4> QED BY <4>3, <4>4 DEF x
    <3>5. \A i \in 1 .. Len(J[k]) : i \in 1 .. Len(J[m])
      <4>1. Len(J[k]) <= Len(J[m])
        BY <3>1
      <4> QED BY <3>3, <4>1
    <3>6. Keeps(m + 1)
      BY <3>1, <3>2, <3>4, <3>5
    <3> HIDE DEF Keeps
    <3> QED BY <2>1, <3>6
  <2>4. CASE m + 1 < k
    BY <1>k, <2>1, <2>4
  <2> QED BY <1>k, <2>1, <2>2, <2>3, <2>4
<1> HIDE DEF S, Keeps
<1>5. n \in S /\ n >= k
  <2>1. \A m \in 0 .. n : m \in S
    BY <1>1, <1>3, <1>4, BoundedInduction
  <2> QED BY <1>1, <1>k, <2>1
<1>6. Keeps(n)
  BY <1>1, <1>5 DEF S
<1>7. ASSUME NEW i \in 1 .. Len(ss[k]) PROVE J[n][Len(J[k - 1]) + i] = ss[k][i]
  <2>1. k - 1 \in 0 .. n
    BY <1>1, <1>k
  <2>2. Len(J[k - 1]) \in Nat /\ Len(ss[k]) \in Nat /\ Len(J[k]) = Len(J[k - 1]) + Len(ss[k])
    BY <1>1, <1>2, <1>k, <2>1
  <2>3. Len(J[k - 1]) + i \in 1 .. Len(J[k])
    <3> DEFINE x == Len(J[k - 1])
               y == Len(ss[k])
    <3>1. x \in Nat /\ y \in Nat /\ Len(J[k]) = x + y /\ i \in 1 .. y
      BY <2>2
    <3> HIDE DEF x, y
    <3>2. x + i \in 1 .. x + y
      BY <3>1
    <3> QED BY <3>1, <3>2 DEF x
  <2>4. J[n][Len(J[k - 1]) + i] = J[k][Len(J[k - 1]) + i]
    BY <1>6, <2>3 DEF Keeps
  <2>5. J[k][Len(J[k - 1]) + i] = ss[k][i]
    <3>1. \A j \in 1 .. Len(ss[k]) : J[k][Len(J[k - 1]) + j] = ss[k][j]
      BY JoinedStep DEF J
    <3> QED BY <3>1
  <2> QED BY <2>4, <2>5
<1>8. Len(J[k - 1]) \in Nat /\ Len(J[k]) = Len(J[k - 1]) + Len(ss[k]) /\ Len(J[k]) <= Len(J[n])
  <2>1. k - 1 \in 0 .. n
    BY <1>1, <1>k
  <2> QED BY <1>1, <1>2, <1>6, <1>k, <2>1 DEF Keeps
<1> QED BY <1>7, <1>8 DEF J, n

-----------------------------------------------------------------------------
(* Reading the escapes back. *)

\* What is read at p is an escape that is there, and what it stands for.
ReadAt(s, p, c) ==
    /\ s[p] = Backslash => Unescaped(s, p) = c /\ EscapeLength(s, p) = Len(JsonEscape(c))
    /\ s[p] # Backslash => /\ s[p] = c /\ Len(JsonEscape(c)) = 1
                           /\ ~(s[p] = QuoteMark \/ IsControl(s[p]))

LEMMA ShortEscapeIsRead ==
  ASSUME NEW s, NEW p \in Nat, NEW c \in Characters, Len(s) \in Nat, p + 1 <= Len(s),
         JsonEscape(c) = <<Backslash, ShortEscape(c)>>,
         s[p] = Backslash, s[p + 1] = ShortEscape(c), HasShortEscape(c)
  PROVE  ReadAt(s, p, c)
<1> DEFINE letter == ShortEscape(c)
<1>1. Len(JsonEscape(c)) = 2
  OBVIOUS
<1>2. letter # Ch(117) /\ (IsControl(c) => letter \notin {QuoteMark, Backslash})
  <2>1. CASE IsControl(c) /\ c[2] \in DOMAIN EscapeLetter
    <3>1. c \notin {QuoteMark, Backslash}
      BY <2>1 DEF IsControl, QuoteMark, Backslash, Ch, QuoteCode, BackslashCode
    <3>2. letter = Ch(EscapeLetter[c[2]]) /\ EscapeLetter[c[2]] \in {98, 116, 110, 102, 114}
      BY <2>1, <3>1, LettersAreCharacters DEF ShortEscape
    <3>3. letter[2] \in {98, 116, 110, 102, 114}
      BY <3>2 DEF Ch
    <3>4. Ch(117)[2] = 117 /\ QuoteMark[2] = 34 /\ Backslash[2] = 92
      BY DEF Ch, QuoteMark, Backslash, QuoteCode, BackslashCode
    <3> HIDE DEF letter
    <3> QED BY <3>3, <3>4
  <2>2. CASE ~IsControl(c) /\ c \in {QuoteMark, Backslash}
    BY <2>2 DEF ShortEscape, QuoteMark, Backslash, Ch, QuoteCode, BackslashCode
  <2> QED BY <2>1, <2>2 DEF HasShortEscape
<1>3. EscapeLength(s, p) = 2
  BY <1>2 DEF EscapeLength
<1>4. p < Len(s)
  OBVIOUS
<1>5. Unescaped(s, p) = c
  <2>1. CASE ~IsControl(c) /\ c \in {QuoteMark, Backslash}
    <3>1. letter = c
      BY <2>1 DEF ShortEscape
    <3>2. ~\E k \in DOMAIN EscapeLetter : letter = Ch(EscapeLetter[k])
      BY <2>1, <3>1, LettersAreCharacters, SMTT(30) DEF QuoteMark, Backslash, Ch, QuoteCode, BackslashCode
    <3> HIDE DEF letter
    <3> QED BY <1>2, <1>4, <2>1, <3>1, <3>2 DEF Unescaped, letter
  <2>2. CASE IsControl(c) /\ c[2] \in DOMAIN EscapeLetter
    <3>1. letter = Ch(EscapeLetter[c[2]])
      <4>1. c \notin {QuoteMark, Backslash}
        BY <2>2 DEF IsControl, QuoteMark, Backslash, Ch, QuoteCode, BackslashCode
      <4> QED BY <2>2, <4>1 DEF ShortEscape
    <3>2. \A k \in DOMAIN EscapeLetter : letter = Ch(EscapeLetter[k]) => k = c[2]
      <4>1. \A k, j \in {8, 9, 10, 12, 13} : EscapeLetter[k] = EscapeLetter[j] => k = j
        BY LettersAreCharacters
      <4>2. \A x, y : Ch(x) = Ch(y) => x = y
        BY DEF Ch
      <4>3. SUFFICES ASSUME NEW k \in DOMAIN EscapeLetter, letter = Ch(EscapeLetter[k])
                     PROVE  k = c[2]
        OBVIOUS
      <4>4. EscapeLetter[k] = EscapeLetter[c[2]]
        BY <3>1, <4>2, <4>3
      <4> QED BY <2>2, <4>1, <4>4, LettersAreCharacters
    <3>3. (CHOOSE k \in DOMAIN EscapeLetter : letter = Ch(EscapeLetter[k])) = c[2]
      BY <2>2, <3>1, <3>2
    <3>4. c = Ch(c[2])
      BY <2>2, ControlFacts
    <3>5. Unescaped(s, p) = Ch(CHOOSE k \in DOMAIN EscapeLetter : letter = Ch(EscapeLetter[k]))
      <4>1. s[p + 1] = letter
        OBVIOUS
      <4> HIDE DEF letter
      <4> QED BY <1>2, <1>4, <2>2, <3>1, <4>1 DEF Unescaped
    <3> QED BY <3>3, <3>4, <3>5
  <2> QED BY <2>1, <2>2 DEF HasShortEscape
<1> QED BY <1>1, <1>3, <1>5 DEF ReadAt

LEMMA TwoHexDigits ==
  ASSUME NEW n \in 0 .. 31
  PROVE  /\ n \div 16 \in 0 .. 15 /\ n % 16 \in 0 .. 15
         /\ 16 * DigitOf(HexDigit(n \div 16)) + DigitOf(HexDigit(n % 16)) = n
<1> DEFINE h == n \div 16
           l == n % 16
<1>1. h \in 0 .. 15 /\ l \in 0 .. 15
  OBVIOUS
<1>2. (n < 16 => h = 0 /\ l = n) /\ (n >= 16 => h = 1 /\ l = n - 16)
  OBVIOUS
<1> HIDE DEF h, l
<1>3. 16 * h + l = n
  BY <1>2
<1>4. DigitOf(HexDigit(h)) = h /\ DigitOf(HexDigit(l)) = l
  BY <1>1, HexDigits
<1>5. 16 * DigitOf(HexDigit(h)) + DigitOf(HexDigit(l)) = n
  BY <1>3, <1>4
<1> QED BY <1>1, <1>5 DEF h, l

LEMMA LongEscapeIsRead ==
  ASSUME NEW s, NEW p \in Nat, NEW c \in Characters, Len(s) \in Nat, p + 5 <= Len(s),
         IsControl(c),
         JsonEscape(c) = LongEscape(c),
         s[p] = Backslash, s[p + 1] = Ch(117),
         s[p + 4] = HexDigit(c[2] \div 16), s[p + 5] = HexDigit(c[2] % 16)
  PROVE  ReadAt(s, p, c)
<1>1. Len(JsonEscape(c)) = 6
  BY DEF LongEscape
<1>2. c[2] \in 0 .. 31 /\ c = Ch(c[2])
  BY ControlFacts
<1>5. Ch(16 * DigitOf(s[p + 4]) + DigitOf(s[p + 5])) = c
  <2>1. 16 * DigitOf(HexDigit(c[2] \div 16)) + DigitOf(HexDigit(c[2] % 16)) = c[2]
    BY <1>2, TwoHexDigits
  <2> QED BY <1>2, <2>1
<1>6. s[p + 1] \notin {QuoteMark, Backslash}
  <2>1. Ch(117)[2] = 117 /\ QuoteMark[2] = 34 /\ Backslash[2] = 92
    BY DEF Ch, QuoteMark, Backslash, QuoteCode, BackslashCode
  <2> QED BY <2>1
<1>7. ~\E k \in DOMAIN EscapeLetter : s[p + 1] = Ch(EscapeLetter[k])
  <2>1. \A k \in DOMAIN EscapeLetter : EscapeLetter[k] # 117
    BY LettersAreCharacters
  <2>2. \A x, y : Ch(x) = Ch(y) => x = y
    BY DEF Ch
  <2> QED BY <2>1, <2>2
<1>8. Unescaped(s, p) = c
  BY <1>5, <1>6, <1>7 DEF Unescaped
<1>9. EscapeLength(s, p) = 6
  BY DEF EscapeLength
<1> QED BY <1>1, <1>8, <1>9 DEF ReadAt

LEMMA EscapeIsRead ==
  ASSUME NEW s, NEW p \in Nat, NEW c \in Characters, Len(s) \in Nat,
         p + Len(JsonEscape(c)) - 1 <= Len(s),
         \A i \in 1 .. Len(JsonEscape(c)) : s[p - 1 + i] = JsonEscape(c)[i]
  PROVE  ReadAt(s, p, c)
<1> DEFINE e == JsonEscape(c)
<1>1. CASE e = <<Backslash, ShortEscape(c)>> /\ HasShortEscape(c)
  <2>1. Len(e) = 2 /\ e[1] = Backslash /\ e[2] = ShortEscape(c)
    BY <1>1
  <2> HIDE DEF e
  <2>2. \A i \in 1 .. 2 : s[p - 1 + i] = e[i]
    BY <2>1 DEF e
  <2>3. s[p] = Backslash /\ s[p + 1] = ShortEscape(c) /\ p + 1 <= Len(s)
    <3>1. p - 1 + 1 = p /\ p - 1 + 2 = p + 1 /\ p + 2 - 1 = p + 1
      OBVIOUS
    <3>2. s[p - 1 + 1] = e[1] /\ s[p - 1 + 2] = e[2]
      BY <2>2
    <3> QED BY <2>1, <3>1, <3>2 DEF e
  <2> QED BY <1>1, <2>3, ShortEscapeIsRead DEF e
<1>2. CASE IsControl(c) /\ e = LongEscape(c)
  <2>1. Len(e) = 6 /\ e[1] = Backslash /\ e[2] = Ch(117)
        /\ e[5] = HexDigit(c[2] \div 16) /\ e[6] = HexDigit(c[2] % 16)
    BY <1>2 DEF LongEscape
  <2> HIDE DEF e
  <2>2. \A i \in 1 .. 6 : s[p - 1 + i] = e[i]
    BY <2>1 DEF e
  <2>3. /\ s[p] = Backslash /\ s[p + 1] = Ch(117) /\ p + 5 <= Len(s)
        /\ s[p + 4] = HexDigit(c[2] \div 16) /\ s[p + 5] = HexDigit(c[2] % 16)
    <3>1. /\ p - 1 + 1 = p /\ p - 1 + 2 = p + 1 /\ p + 6 - 1 = p + 5
          /\ p - 1 + 5 = p + 4 /\ p - 1 + 6 = p + 5
      OBVIOUS
    <3>2. s[p - 1 + 1] = e[1] /\ s[p - 1 + 2] = e[2] /\ s[p - 1 + 5] = e[5] /\ s[p - 1 + 6] = e[6]
      BY <2>2
    <3>3. p + Len(e) - 1 <= Len(s)
      BY DEF e
    <3> QED BY <2>1, <3>1, <3>2, <3>3
  <2> QED BY <1>2, <2>3, LongEscapeIsRead DEF e
<1>3. CASE ~IsControl(c) /\ c \notin {QuoteMark, Backslash} /\ e = <<c>>
  <2>1. Len(e) = 1 /\ e[1] = c
    BY <1>3
  <2> HIDE DEF e
  <2>2. s[p - 1 + 1] = e[1] /\ p - 1 + 1 = p
    BY <2>1 DEF e
  <2>3. s[p] = c
    BY <2>1, <2>2
  <2> QED BY <1>3, <2>1, <2>3 DEF ReadAt, e
<1> HIDE DEF e
<1>4. \/ e = <<Backslash, ShortEscape(c)>> /\ HasShortEscape(c)
      \/ IsControl(c) /\ e = LongEscape(c)
      \/ ~IsControl(c) /\ c \notin {QuoteMark, Backslash} /\ e = <<c>>
  BY EscapeCases DEF e, HasShortEscape
<1> QED BY <1>1, <1>2, <1>3, <1>4

\* What is read at each position, and where it is gone on.
JsonPiece(s) == [i \in 1 .. Len(s) |->
    <<IF s[i] = Backslash THEN Unescaped(s, i)
      ELSE IF s[i] = QuoteMark \/ IsControl(s[i]) THEN Malformed ELSE s[i]>>]

JsonNext(s) == [i \in 1 .. Len(s) |-> i + (IF s[i] = Backslash THEN EscapeLength(s, i) ELSE 1)]

LEMMA JsonTextReads ==
  ASSUME NEW s, Len(s) \in Nat
  PROVE  \E t : /\ JsonText(s) = t[1]
                /\ \A i \in 1 .. Len(s) + 6 : i > Len(s) => t[i] = << >>
                /\ \A i \in 1 .. Len(s) : t[i] = JsonPiece(s)[i] \o t[JsonNext(s)[i]]
<1> DEFINE n == Len(s)
           m == n + 6
           piece == JsonPiece(s)
           next == JsonNext(s)
           V == {Unescaped(s, i) : i \in 1 .. n} \cup {s[i] : i \in 1 .. n} \cup {Malformed}
           E(i, g) == IF i > n THEN << >>
                      ELSE IF s[i] = Backslash
                      THEN <<Unescaped(s, i)>> \o g[i + EscapeLength(s, i)]
                      ELSE <<IF s[i] = QuoteMark \/ IsControl(s[i]) THEN Malformed ELSE s[i]>>
                           \o g[i + 1]
           t == CHOOSE t : t = [i \in 1 .. m |-> E(i, t)]
<1>0. n \in Nat
  OBVIOUS
<1>1. Piecewise(V, n, m, piece, next)
  <2>1. n \in Nat /\ m \in Nat /\ n <= m
    <3> HIDE DEF n
    <3> QED BY <1>0
  <2>2. ASSUME NEW i \in 1 .. n PROVE piece[i] \in Seq(V)
    <3>1. piece[i] = <<IF s[i] = Backslash THEN Unescaped(s, i)
                       ELSE IF s[i] = QuoteMark \/ IsControl(s[i]) THEN Malformed ELSE s[i]>>
      BY DEF JsonPiece
    <3>2. (IF s[i] = Backslash THEN Unescaped(s, i)
           ELSE IF s[i] = QuoteMark \/ IsControl(s[i]) THEN Malformed ELSE s[i]) \in V
      OBVIOUS
    <3> HIDE DEF V
    <3> QED BY <3>1, <3>2
  <2>3. ASSUME NEW i \in 1 .. n PROVE next[i] \in 1 .. m /\ i < next[i]
    BY DEF JsonNext, EscapeLength
  <2>4. piece \in [1 .. n -> Seq(V)]
    <3>1. piece = [i \in 1 .. n |-> piece[i]]
      BY DEF JsonPiece
    <3> HIDE DEF piece, V
    <3> QED BY <2>2, <3>1
  <2>5. next \in [1 .. n -> 1 .. m]
    <3>1. next = [i \in 1 .. n |-> next[i]]
      BY DEF JsonNext
    <3> HIDE DEF next, m
    <3> QED BY <2>3, <3>1
  <2> HIDE DEF piece, next, V, n, m
  <2> QED BY <2>1, <2>3, <2>4, <2>5 DEF Piecewise
<1>2. \A g : \A i \in 1 .. m : E(i, g) = IF i > n THEN << >> ELSE piece[i] \o g[next[i]]
  <2> SUFFICES ASSUME NEW g, NEW i \in 1 .. m
               PROVE  E(i, g) = IF i > n THEN << >> ELSE piece[i] \o g[next[i]]
    OBVIOUS
  <2>1. CASE i > n
    BY <2>1
  <2>2. CASE ~(i > n) /\ s[i] = Backslash
    <3>1. i \in 1 .. n
      <4> HIDE DEF n
      <4> QED BY <1>0, <2>2
    <3>2. piece[i] = <<Unescaped(s, i)>> /\ next[i] = i + EscapeLength(s, i)
      BY <2>2, <3>1 DEF JsonPiece, JsonNext
    <3> QED BY <2>2, <3>2
  <2>3. CASE ~(i > n) /\ s[i] # Backslash
    <3>1. i \in 1 .. n
      <4> HIDE DEF n
      <4> QED BY <1>0, <2>3
    <3>2. /\ piece[i] = <<IF s[i] = QuoteMark \/ IsControl(s[i]) THEN Malformed ELSE s[i]>>
          /\ next[i] = i + 1
      BY <2>3, <3>1 DEF JsonPiece, JsonNext
    <3> QED BY <2>3, <3>2
  <2> QED BY <2>1, <2>2, <2>3
<1> HIDE DEF E
<1>3. \A g : ReadOn(n, m, piece, next, g) <=> g = [i \in 1 .. m |-> E(i, g)]
  <2> SUFFICES ASSUME NEW g
               PROVE  [i \in 1 .. m |-> E(i, g)]
                        = [i \in 1 .. m |-> IF i > n THEN << >> ELSE piece[i] \o g[next[i]]]
    BY DEF ReadOn
  <2> HIDE DEF piece, next, m
  <2> QED BY <1>2
<1>4. ReadOn(n, m, piece, next, t)
  <2>1. PICK g : ReadOn(n, m, piece, next, g)
    <3> HIDE DEF n, m, piece, next, V
    <3> QED BY <1>1, Onwards
  <2>2. t = [i \in 1 .. m |-> E(i, t)]
    <3>1. g = [i \in 1 .. m |-> E(i, g)]
      BY <1>3, <2>1
    <3> QED BY <3>1
  <2> HIDE DEF t
  <2> QED BY <1>3, <2>2
<1>5. JsonText(s) = t[1]
  BY DEF JsonText, E
<1> HIDE DEF t
<1>6. /\ \A i \in 1 .. m : i > n => t[i] = << >>
      /\ \A i \in 1 .. n : t[i] = piece[i] \o t[next[i]]
  <2> HIDE DEF n, m, piece, next, V
  <2>1. MadeOf(V, n, m, piece, next, t)
    BY <1>1, <1>4, OnwardsType
  <2> QED BY <2>1 DEF MadeOf
<1> QED BY <1>5, <1>6

\* A text, the characters of which are read one after the other.
LEMMA CharactersCollected ==
  ASSUME NEW V, NEW chars \in Seq(V), NEW t, NEW at,
         t[at[Len(chars) + 1]] = << >>,
         \A k \in 1 .. Len(chars) : t[at[k]] = <<chars[k]>> \o t[at[k + 1]]
  PROVE  t[at[1]] = chars
<1> DEFINE n == Len(chars)
           From(k) == SubSeq(chars, k, n)
           S == {j \in Nat : j <= n => t[at[n - j + 1]] = From(n - j + 1)}
<1>1. n \in Nat /\ \A k \in 1 .. n : chars[k] \in V
  BY ElementOfSeq, LenProperties
<1>2. From(n + 1) = << >> /\ From(1) = chars
  OBVIOUS
<1>3. ASSUME NEW k \in 1 .. n PROVE <<chars[k]>> \o From(k + 1) = From(k)
  <2>1. k \in 1 .. Len(chars) /\ Len(chars) \in k .. Len(chars)
    BY <1>1
  <2>2. SubSeq(chars, k, Len(chars)) = <<chars[k]>> \o SubSeq(chars, k + 1, Len(chars))
    BY <2>1, SubSeqRecursiveFirst, Zenon
  <2> QED BY <2>2, Zenon
<1> HIDE DEF From
<1>4. 0 \in S
  BY <1>1, <1>2
<1>5. ASSUME NEW j \in Nat, j \in S PROVE j + 1 \in S
  <2>1. CASE j + 1 <= n
    <3>0. n - j \in 1 .. n /\ n - j = n - (j + 1) + 1
      BY <1>1, <2>1
    <3>1. PICK k \in 1 .. n : k = n - j /\ k = n - (j + 1) + 1
      BY <3>0, Zenon
    <3>2. t[at[k + 1]] = From(k + 1)
      BY <1>1, <1>5, <2>1, <3>1
    <3>3. t[at[k]] = <<chars[k]>> \o From(k + 1)
      BY <3>2
    <3>4. t[at[k]] = From(k)
      BY <1>3, <3>3
    <3> QED BY <3>1, <3>4
  <2>2. CASE ~(j + 1 <= n)
    BY <2>2
  <2> QED BY <2>1, <2>2
<1>6. n \in S
  <2> HIDE DEF S
  <2>1. \A j \in Nat : j \in S
    BY <1>4, <1>5, Induction
  <2> QED BY <1>1, <2>1
<1>7. n - n + 1 = 1 /\ n <= n
  BY <1>1
<1> QED BY <1>2, <1>6, <1>7

\* The escapes of the characters of a text.
Escapes(chars) == [k \in 1 .. Len(chars) |-> JsonEscape(chars[k])]

LEMMA EscapesAre ==
  ASSUME NEW chars \in Seq(Characters)
  PROVE  /\ Escapes(chars) \in Seq(Seq(Characters)) /\ Len(Escapes(chars)) = Len(chars)
         /\ \A k \in 1 .. Len(chars) :
              /\ Escapes(chars)[k] = JsonEscape(chars[k])
              /\ chars[k] \in Characters
              /\ Len(Escapes(chars)[k]) \in Nat \ {0}
<1> DEFINE n == Len(chars)
           W == Seq(Characters)
<1>1. n \in Nat /\ \A k \in 1 .. n : chars[k] \in Characters
  BY ElementOfSeq, LenProperties
<1>2. \A k \in 1 .. n : JsonEscape(chars[k]) \in W /\ Len(JsonEscape(chars[k])) \in Nat \ {0}
  BY <1>1, EscapeIsText
<1> HIDE DEF n, W
<1>3. Escapes(chars) \in [1 .. n -> W] /\ \A k \in 1 .. n : Escapes(chars)[k] = JsonEscape(chars[k])
  BY <1>2 DEF Escapes, n
<1>4. Escapes(chars) \in Seq(W) /\ Len(Escapes(chars)) = n
  BY <1>1, <1>3
<1> QED BY <1>1, <1>2, <1>3, <1>4 DEF n, W

\* What is read back from the escapes of a text, put together, is the text.
LEMMA EscapesReadBack ==
  ASSUME NEW chars \in Seq(Characters)
  PROVE  JsonText(Joined(Escapes(chars))[Len(chars)]) = chars
<1> DEFINE n == Len(chars)
           ss == Escapes(chars)
           J == Joined(ss)
           s == J[n]
           at == [k \in 1 .. n + 1 |-> Len(J[k - 1]) + 1]
<1>1. /\ ss \in Seq(Seq(Characters)) /\ Len(ss) = n /\ n \in Nat
      /\ \A k \in 1 .. n : /\ ss[k] = JsonEscape(chars[k]) /\ chars[k] \in Characters
                           /\ Len(ss[k]) \in Nat \ {0}
  <2>1. n \in Nat
    BY LenProperties
  <2> QED BY <2>1, EscapesAre
<1>2. s \in Seq(Characters) /\ Len(s) \in Nat /\ Len(J[0]) = 0
  <2>1. J[0] = << >> /\ \A k \in 0 .. n : J[k] \in Seq(Characters)
    <3> HIDE DEF ss, n
    <3> QED BY <1>1, JoinedIs
  <2>2. n \in 0 .. n
    BY <1>1
  <2> HIDE DEF J, n
  <2>3. Len(J[0]) = 0
    BY <2>1
  <2> QED BY <2>1, <2>2, <2>3, LenProperties
<1>3. PICK t : /\ JsonText(s) = t[1]
               /\ \A i \in 1 .. Len(s) + 6 : i > Len(s) => t[i] = << >>
               /\ \A i \in 1 .. Len(s) : t[i] = JsonPiece(s)[i] \o t[JsonNext(s)[i]]
  <2> HIDE DEF s
  <2> QED BY <1>2, JsonTextReads
<1>4. ASSUME NEW k \in 1 .. n
      PROVE  t[at[k]] = <<chars[k]>> \o t[at[k + 1]]
  <2> DEFINE e == JsonEscape(chars[k])
             before == Len(J[k - 1])
             p == before + 1
  <2>1. /\ before \in Nat /\ Len(J[k]) = before + Len(e)
        /\ Len(J[k]) <= Len(s) /\ \A i \in 1 .. Len(e) : s[before + i] = e[i]
    <3>1. k \in 1 .. Len(ss) /\ ss[k] = e /\ ss \in Seq(Seq(Characters)) /\ Len(ss) = n
      BY <1>1
    <3> HIDE DEF ss, n, e
    <3>2. /\ Len(J[k - 1]) \in Nat /\ Len(J[k]) = Len(J[k - 1]) + Len(ss[k])
          /\ Len(J[k]) <= Len(J[Len(ss)])
          /\ \A i \in 1 .. Len(ss[k]) : J[Len(ss)][Len(J[k - 1]) + i] = ss[k][i]
      BY <3>1, JoinedAt
    <3> QED BY <3>1, <3>2
  <2>2. Len(e) \in Nat \ {0} /\ chars[k] \in Characters
    BY <1>1
  <2>3. at[k] = p /\ at[k + 1] = p + Len(e)
    <3>1. k \in 1 .. n + 1 /\ k + 1 \in 1 .. n + 1 /\ k + 1 - 1 = k
      BY <1>1
    <3>2. at[k] = Len(J[k - 1]) + 1 /\ at[k + 1] = Len(J[k]) + 1
      <4> HIDE DEF J, n
      <4> QED BY <3>1
    <3>3. Len(J[k]) + 1 = p + Len(e)
      <4> DEFINE x == Len(J[k])
                 y == Len(e)
      <4>1. x = before + y /\ y \in Nat /\ before \in Nat
        BY <2>1, <2>2
      <4> HIDE DEF x, y, before
      <4>2. x + 1 = before + 1 + y
        BY <4>1
      <4> QED BY <4>2 DEF x, y
    <3> QED BY <3>2, <3>3
  <2>4. p \in 1 .. Len(s) /\ p + Len(e) - 1 <= Len(s) /\ p \in Nat
        /\ \A i \in 1 .. Len(e) : s[p - 1 + i] = e[i]
    <3> DEFINE x == Len(J[k])
               y == Len(e)
               z == Len(s)
    <3>1. /\ x = before + y /\ y \in Nat \ {0} /\ before \in Nat /\ x <= z /\ z \in Nat
          /\ \A i \in 1 .. y : s[before + i] = e[i]
      BY <1>2, <2>1, <2>2
    <3> HIDE DEF x, y, z, before, s, e
    <3>2. p \in 1 .. z /\ p + y - 1 <= z /\ p \in Nat /\ p - 1 = before
      BY <3>1
    <3>3. \A i \in 1 .. y : s[p - 1 + i] = e[i]
      BY <3>1, <3>2
    <3> QED BY <3>2, <3>3 DEF y, z
  <2>5. ReadAt(s, p, chars[k])
    <3> HIDE DEF s, p
    <3> QED BY <1>2, <2>2, <2>4, EscapeIsRead
  <2>6. JsonPiece(s)[p] = <<chars[k]>> /\ JsonNext(s)[p] = p + Len(e)
    <3> HIDE DEF s, p
    <3>1. /\ JsonPiece(s)[p] = <<IF s[p] = Backslash THEN Unescaped(s, p)
                                 ELSE IF s[p] = QuoteMark \/ IsControl(s[p]) THEN Malformed ELSE s[p]>>
          /\ JsonNext(s)[p] = p + (IF s[p] = Backslash THEN EscapeLength(s, p) ELSE 1)
      BY <2>4 DEF JsonPiece, JsonNext
    <3> QED BY <2>5, <3>1 DEF ReadAt
  <2> HIDE DEF s, p, at
  <2>7. t[p] = <<chars[k]>> \o t[p + Len(e)]
    BY <1>3, <2>4, <2>6
  <2> QED BY <2>3, <2>7
<1>5. t[at[n + 1]] = << >> /\ at[1] = 1
  <2>1. n + 1 \in 1 .. n + 1 /\ 1 \in 1 .. n + 1 /\ n + 1 - 1 = n /\ 1 - 1 = 0
    BY <1>1
  <2>2. at[n + 1] = Len(s) + 1 /\ at[1] = Len(J[0]) + 1
    <3> HIDE DEF J, n
    <3>1. \A k \in 1 .. n + 1 : at[k] = Len(J[k - 1]) + 1
      OBVIOUS
    <3>2. PICK j \in 1 .. n + 1 : j = n + 1 /\ j - 1 = n
      <4>1. n \in Nat
        BY <1>1
      <4>2. \E j \in 1 .. n + 1 : j = n + 1 /\ j - 1 = n
        BY <4>1
      <4> QED BY <4>2
    <3>3. at[j] = Len(J[j - 1]) + 1
      BY <3>1
    <3>4. at[1] = Len(J[1 - 1]) + 1
      BY <2>1, <3>1
    <3> HIDE DEF at
    <3> QED BY <2>1, <3>2, <3>3, <3>4
  <2> HIDE DEF s, at
  <2>3. Len(s) + 1 \in 1 .. Len(s) + 6 /\ Len(s) + 1 > Len(s)
    BY <1>2
  <2>4. at[1] = 1
    BY <1>2, <2>2
  <2> QED BY <1>3, <2>2, <2>3, <2>4
<1>6. t[at[1]] = chars
  <2> HIDE DEF at, s
  <2> QED BY <1>4, <1>5, CharactersCollected
<1> QED BY <1>3, <1>5, <1>6

\* A text of clean characters needs no escapes: it is read as it is.
LEMMA CleanTextReadsBack ==
  ASSUME NEW s \in Seq(CleanCharacters)
  PROVE  JsonText(s) = s
<1> DEFINE n == Len(s)
           at == [k \in 1 .. n + 1 |-> k]
<1>1. n \in Nat /\ \A k \in 1 .. n : s[k] \in CleanCharacters
  BY ElementOfSeq, LenProperties
<1>2. PICK t : /\ JsonText(s) = t[1]
               /\ \A i \in 1 .. n + 6 : i > n => t[i] = << >>
               /\ \A i \in 1 .. n : t[i] = JsonPiece(s)[i] \o t[JsonNext(s)[i]]
  BY <1>1, JsonTextReads
<1>3. ASSUME NEW k \in 1 .. n PROVE JsonPiece(s)[k] = <<s[k]>> /\ JsonNext(s)[k] = k + 1
  <2>1. s[k][1] # "ch"
    BY <1>1 DEF CleanCharacters
  <2>2. s[k] # Backslash /\ s[k] # QuoteMark /\ ~IsControl(s[k])
    BY <2>1 DEF Backslash, QuoteMark, IsControl, Ch
  <2> QED BY <2>2 DEF JsonPiece, JsonNext
<1> HIDE DEF n
<1>4. at[1] = 1 /\ at[n + 1] = n + 1 /\ \A k \in 1 .. n : at[k] = k /\ at[k + 1] = k + 1
  BY <1>1
<1> HIDE DEF at
<1>5. t[at[n + 1]] = << >>
  <2>1. n + 1 \in 1 .. n + 6 /\ n + 1 > n
    BY <1>1
  <2> QED BY <1>2, <1>4, <2>1
<1>6. \A k \in 1 .. n : t[at[k]] = <<s[k]>> \o t[at[k + 1]]
  <2> SUFFICES ASSUME NEW k \in 1 .. n PROVE t[at[k]] = <<s[k]>> \o t[at[k + 1]]
    OBVIOUS
  <2>1. t[k] = JsonPiece(s)[k] \o t[JsonNext(s)[k]]
    BY <1>2
  <2>2. at[k] = k /\ at[k + 1] = k + 1
    BY <1>4
  <2> QED BY <1>3, <2>1, <2>2
<1>7. t[at[1]] = s
  BY <1>5, <1>6, CharactersCollected DEF n
<1> QED BY <1>2, <1>4, <1>7

-----------------------------------------------------------------------------
(***************************************************************************)
(* Settings.  AdjustFileTime saturates, and the text of a FILETIME can be  *)
(* read back, for every time, bias and format.                             *)
(***************************************************************************)
BiasRange == -MaxBias .. MaxBias

\* A time and a bias as 24 hours or less, far enough from MININT64.
AdjustableTime == MinTime + MaxBias * PerMinute .. MaxTime

Saturated(n) == IF n < 0 THEN 0 ELSE IF n > MaxTime THEN MaxTime ELSE n

\* A bias of 24 hours at most is a shift of 24 hours at most.
LEMMA ShiftIsBounded ==
  ASSUME NEW b \in BiasRange
  PROVE  /\ b * PerMinute \in Int
         /\ b * PerMinute <= MaxBias * PerMinute
         /\ -(MaxBias * PerMinute) <= b * PerMinute
         /\ b < 0 => b * PerMinute <= 0
         /\ b >= 0 => 0 <= b * PerMinute
<1>1. MaxBias \in Nat /\ PerMinute \in Nat /\ b \in Int /\ b <= MaxBias /\ -MaxBias <= b
  BY SettingsAssumption DEF BiasRange
<1>2. \A x, y, z \in Int : z >= 0 /\ x <= y => x * z <= y * z
  OBVIOUS
<1>3. b * PerMinute <= MaxBias * PerMinute /\ (-MaxBias) * PerMinute <= b * PerMinute
  BY <1>1, <1>2
<1>4. (-MaxBias) * PerMinute = -(MaxBias * PerMinute)
  BY <1>1
<1>5. b < 0 => b * PerMinute <= 0 * PerMinute
  BY <1>1, <1>2
<1>6. b >= 0 => 0 * PerMinute <= b * PerMinute
  BY <1>1, <1>2
<1> QED BY <1>1, <1>3, <1>4, <1>5, <1>6

\* The sign of the sum, with the signs of what was added, tells an overflow
\* from a negative time: AdjustFileTime is the sum, saturated.
THEOREM AdjustFileTimeSaturates ==
  ASSUME NEW t \in AdjustableTime, NEW b \in BiasRange
  PROVE  AdjustFileTime(t, b) = Saturated(t + b * PerMinute)
<1> DEFINE d == b * PerMinute
           m == MaxBias * PerMinute
<1>1. /\ MaxTime \in Nat /\ MinTime = -MaxTime - 1 /\ b \in Int
      /\ m \in Nat /\ m <= MaxTime
  BY SettingsAssumption DEF BiasRange
<1>2. d \in Int /\ d <= m /\ -m <= d /\ (b < 0 => d <= 0)
      /\ (b >= 0 => 0 <= d)
  BY ShiftIsBounded
<1>3. t \in Int /\ t <= MaxTime /\ MinTime + m <= t
  BY <1>1 DEF AdjustableTime
<1>4. AdjustFileTime(t, b) =
        CASE Wrapped(t + d) >= 0 -> Wrapped(t + d)
          [] Wrapped(t + d) < 0 /\ (t < 0 \/ b < 0) -> 0
          [] OTHER -> MaxTime
  BY DEF AdjustFileTime
<1> HIDE DEF d, m
<1>5. MinTime <= t + d
  BY <1>1, <1>2, <1>3
<1>6. CASE t + d > MaxTime
  <2>1. Wrapped(t + d) = t + d - (MaxTime - MinTime + 1) /\ Wrapped(t + d) < 0
    BY <1>1, <1>2, <1>3, <1>6 DEF Wrapped, Span
  <2>2. ~(t < 0) /\ ~(b < 0)
    BY <1>1, <1>2, <1>3, <1>6
  <2>3. AdjustFileTime(t, b) = MaxTime
    BY <1>1, <1>2, <1>3, <1>4, <2>1, <2>2
  <2>4. Saturated(t + d) = MaxTime
    BY <1>1, <1>2, <1>3, <1>6 DEF Saturated
  <2> QED BY <2>3, <2>4 DEF d
<1>7. CASE ~(t + d > MaxTime)
  <2>1. Wrapped(t + d) = t + d
    BY <1>1, <1>2, <1>3, <1>5, <1>7 DEF Wrapped
  <2>2. t + d < 0 => t < 0 \/ b < 0
    BY <1>1, <1>2, <1>3
  <2>3. AdjustFileTime(t, b) = IF t + d < 0 THEN 0 ELSE t + d
    BY <1>1, <1>2, <1>3, <1>4, <2>1, <2>2
  <2>4. Saturated(t + d) = IF t + d < 0 THEN 0 ELSE t + d
    BY <1>1, <1>2, <1>3, <1>7 DEF Saturated
  <2> QED BY <2>3, <2>4 DEF d
<1> QED BY <1>6, <1>7

-----------------------------------------------------------------------------
\* The text is the date, and the zone unless it is not to be told.
LEMMA TextOfDate ==
  ASSUME NEW date, NEW digits, NEW flags, NEW bias
  PROVE  LET s == AdjustedSystemTime(date, digits, flags, bias)
         IN  /\ s[1] = Date(date, digits)
             /\ "NoTimeZoneSuffix" \in flags => Len(s) = 1
             /\ "NoTimeZoneSuffix" \notin flags =>
                  /\ Len(s) = 2
                  /\ s[2] = IF "Local" \in flags THEN Offset(bias) ELSE Utc
BY DEF AdjustedSystemTime

\* What both texts show: the adjusted time, in the zone that was asked for.
LEMMA AdjustedReadsBack ==
  ASSUME NEW t \in AdjustableTime, NEW b \in BiasRange, NEW flags, NEW utc \in BOOLEAN,
         NEW digits, NEW s,
         LET adjusted == IF utc /\ "Local" \in flags THEN AdjustFileTime(t, b) ELSE t
         IN  s = AdjustedSystemTime(FileTimeToDate(adjusted), digits,
                                    IF utc THEN flags ELSE WithoutSuffix(flags), b)
  PROVE  TimeIsRead(s, t, flags, b, utc)
<1> DEFINE shift    == IF utc /\ "Local" \in flags THEN b ELSE 0
           adjusted == IF utc /\ "Local" \in flags THEN AdjustFileTime(t, b) ELSE t
           applied  == IF utc THEN flags ELSE WithoutSuffix(flags)
<1>1. /\ s[1] = Date(FileTimeToDate(adjusted), digits)
      /\ "NoTimeZoneSuffix" \in applied => Len(s) = 1
      /\ "NoTimeZoneSuffix" \notin applied =>
           Len(s) = 2 /\ s[2] = IF "Local" \in applied THEN Offset(b) ELSE Utc
  BY TextOfDate
<1>2. Len(s) = 2 <=> utc /\ "NoTimeZoneSuffix" \notin flags
  BY <1>1 DEF WithoutSuffix
<1>3. t \in Int /\ b \in Int /\ PerMinute \in Nat /\ MaxTime \in Nat
  BY SettingsAssumption DEF AdjustableTime, BiasRange
<1>4. ASSUME t >= 0, Representable(t, shift)
      PROVE  adjusted = t + shift * PerMinute /\ adjusted >= 0
  <2>1. CASE utc /\ "Local" \in flags
    <3>1. shift = b /\ adjusted = Saturated(t + b * PerMinute)
      BY <2>1, AdjustFileTimeSaturates
    <3>2. t + b * PerMinute \in 0 .. MaxTime
      BY <1>4, <3>1 DEF Representable
    <3> DEFINE n == t + b * PerMinute
    <3>3. n \in 0 .. MaxTime
      BY <3>2
    <3> HIDE DEF n
    <3>4. Saturated(n) = n /\ n >= 0
      BY <1>3, <3>3 DEF Saturated
    <3>5. adjusted = n
      BY <3>1, <3>4 DEF n
    <3> QED BY <3>1, <3>4, <3>5 DEF n
  <2>2. CASE ~(utc /\ "Local" \in flags)
    <3>1. shift = 0 /\ adjusted = t
      BY <2>2
    <3>2. 0 * PerMinute = 0
      BY <1>3
    <3> QED BY <1>3, <1>4, <3>1, <3>2
  <2> QED BY <2>1, <2>2
<1>5. ASSUME t >= 0, Representable(t, shift)
      PROVE  /\ s[1] # Mark("0000-00-00") /\ s[1][2] = adjusted
             /\ Len(s) = 2 /\ s[2] # Utc => s[2][2] * PerMinute = adjusted - t
             /\ Len(s) = 2 /\ s[2] = Utc => adjusted = t
             /\ Len(s) # 2 => shift * PerMinute = adjusted - t
  <2> HIDE DEF adjusted, shift
  <2>1. adjusted = t + shift * PerMinute /\ adjusted >= 0
    BY <1>4, <1>5
  <2>2. adjusted \in Int /\ shift * PerMinute \in Int
    BY <1>3, <2>1 DEF adjusted, shift
  <2>3. FileTimeToDate(adjusted) = adjusted /\ adjusted # InvalidDate
    BY <2>1, <2>2 DEF FileTimeToDate, InvalidDate
  <2>4. s[1] # Mark("0000-00-00") /\ s[1][2] = adjusted
    BY <1>1, <2>3 DEF Date, Mark
  <2>5. Len(s) # 2 => shift * PerMinute = adjusted - t
    BY <1>3, <2>1, <2>2
  <2>6. CASE Len(s) = 2 /\ "Local" \in flags
    <3>1. s[2] = Offset(b) /\ shift = b
      BY <1>1, <1>2, <2>6 DEF shift
    <3>2. s[2][2] = b /\ s[2] # Utc
      BY <3>1 DEF Offset, Utc, Mark
    <3> QED BY <1>3, <2>1, <2>2, <2>4, <2>6, <3>1, <3>2
  <2>7. CASE Len(s) = 2 /\ "Local" \notin flags
    <3>1. s[2] = Utc /\ shift = 0
      BY <1>1, <1>2, <2>7 DEF shift
    <3>2. adjusted = t
      BY <1>3, <2>1, <3>1
    <3> QED BY <2>4, <2>7, <3>1, <3>2
  <2> QED BY <2>4, <2>5, <2>6, <2>7
<1>6. ASSUME t >= 0, Representable(t, shift)
      PROVE  /\ s[1] # Mark("0000-00-00")
             /\ IF Len(s) = 2 /\ s[2] # Utc THEN s[1][2] - s[2][2] * PerMinute = t
                ELSE IF Len(s) = 2 THEN s[1][2] = t
                ELSE s[1][2] - shift * PerMinute = t
  <2>1. adjusted \in Int
    BY <1>3, <1>4, <1>6
  <2> HIDE DEF adjusted, shift
  <2> QED BY <1>3, <1>5, <1>6, <2>1
<1> QED BY <1>2, <1>6 DEF TimeIsRead

\* The text of a FILETIME says what instant it is, in the zone that the
\* settings ask for, unless the instant is no date or the bias leads away from
\* those a FILETIME can hold.
THEOREM FileTimeReadsBack ==
  ASSUME NEW t \in AdjustableTime, NEW b \in BiasRange, NEW flags, NEW utc \in BOOLEAN
  PROVE  TimeIsRead(FileTimeText(t, flags, b, utc), t, flags, b, utc)
BY AdjustedReadsBack DEF FileTimeText

\* So does the text of a SYSTEMTIME, although it goes through a file time only
\* when it is adjusted.
THEOREM SystemTimeReadsBack ==
  ASSUME NEW t \in 0 .. MaxTime, NEW b \in BiasRange, NEW flags, NEW utc \in BOOLEAN
  PROVE  TimeIsRead(SystemTimeText(t, flags, b, utc), t, flags, b, utc)
<1>1. t \in AdjustableTime /\ t # InvalidDate /\ FileTimeToDate(t) = t
  BY SettingsAssumption DEF AdjustableTime, InvalidDate, FileTimeToDate
<1>2. DateToFileTime(t) = t
  BY <1>1 DEF DateToFileTime
<1> QED BY <1>1, <1>2, AdjustedReadsBack DEF SystemTimeText

-----------------------------------------------------------------------------
(***************************************************************************)
(* Appends.  For every text, capacity and escape: no write goes past the   *)
(* end of a buffer, what was there before stays, and an append that        *)
(* succeeds leaves no hole.                                                *)
(*                                                                         *)
(* The inductive invariant says how far AppendStringAsJson has got: the    *)
(* buffer is as long as if nothing more had to be escaped, and everything  *)
(* up to the pointer, moved by the length of each escape, is written.      *)
(***************************************************************************)
Stored == Characters \cup {Unwritten}

AppendCall ==
    [fn: Functions, to: Buffers, chars: Seq(Characters), count: Nat, before: Seq(Stored),
     begun: BOOLEAN, next: Nat, offset: Nat]

TextType ==
    /\ text \in [Buffers -> Seq(Stored)]
    /\ capacity \in [Buffers -> Nat]
    /\ Appending => append \in AppendCall

AllWritten(s, first, last) == \A k \in first .. last : s[k] \in Characters

\* What an append has done to its buffer so far.
Progress ==
    LET s == text[append.to]
    IN  /\ append.fn # "json" \/ ~append.begun => s = append.before
        /\ append.fn = "reserved" => Len(append.chars) <= append.count
        /\ append.fn = "json" /\ ~append.begun => append.next = 0
        /\ append.fn = "json" /\ append.begun =>
             /\ Begins(append.before, s)
             /\ append.next <= Len(append.chars)
             /\ Len(append.before) < append.offset
             /\ Len(s) = BaseSize + append.offset
             /\ AllWritten(s, Len(append.before) + 1, append.offset + append.next)

TextInv == TextType /\ TextInBuffer /\ (Appending => Progress)

\* The step that an append takes on its buffer.
StepIsWhole ==
    LET s == text'[append.to]
    IN  /\ Begins(append.before, s)
        /\ ~Appending' /\ status' = "SUCCESS" =>
             AllWritten(s, Len(append.before) + 1, Len(s))

-----------------------------------------------------------------------------
(* Lemmas about room, and about setting a text. *)

\* A type invariant, spelled out for the append that runs.
LEMMA CallFacts ==
  ASSUME TextInv, Appending
  PROVE  /\ append \in AppendCall
         /\ append.to \in Buffers
         /\ append.chars \in Seq(Characters)
         /\ append.chars \in Seq(Stored)
         /\ append.before \in Seq(Stored)
         /\ append.count \in Nat /\ append.next \in Nat /\ append.offset \in Nat
         /\ append.begun \in BOOLEAN
         /\ text[append.to] \in Seq(Stored)
         /\ Len(text[append.to]) \in Nat /\ Len(append.chars) \in Nat
         /\ Len(append.before) \in Nat
         /\ capacity[append.to] \in Nat
         /\ Len(text[append.to]) <= capacity[append.to]
<1>1. append \in AppendCall
  BY DEF TextInv, TextType
<1>2. /\ append.to \in Buffers /\ append.chars \in Seq(Characters)
      /\ append.before \in Seq(Stored) /\ append.count \in Nat
      /\ append.next \in Nat /\ append.offset \in Nat /\ append.begun \in BOOLEAN
  BY <1>1 DEF AppendCall
<1>3. append.chars \in Seq(Stored)
  <2>1. Characters \subseteq Stored
    BY DEF Stored
  <2> QED BY <1>2, <2>1, SeqMonotonic
<1>4. text[append.to] \in Seq(Stored) /\ capacity[append.to] \in Nat
  BY <1>2 DEF TextInv, TextType
<1>5. Len(text[append.to]) <= capacity[append.to]
  BY <1>2 DEF TextInv, TextInBuffer
<1> QED BY <1>1, <1>2, <1>3, <1>4, <1>5, LenProperties

\* reserve and resize never take room away.
LEMMA MakesRoomResult ==
  ASSUME TextInv, Appending, NEW n \in Nat, MakesRoom(n)
  PROVE  /\ capacity' \in [Buffers -> Nat]
         /\ n <= capacity'[append.to]
         /\ \A b \in Buffers : capacity[b] <= capacity'[b]
<1>1. capacity \in [Buffers -> Nat] /\ append.to \in Buffers
  BY CallFacts DEF TextInv, TextType
<1>2. CASE n <= capacity[append.to] /\ UNCHANGED capacity
  BY <1>1, <1>2
<1>3. ASSUME n > capacity[append.to],
             NEW c \in Capacities, n <= c, capacity' = [capacity EXCEPT ![append.to] = c]
      PROVE  /\ capacity' \in [Buffers -> Nat]
             /\ n <= capacity'[append.to]
             /\ \A b \in Buffers : capacity[b] <= capacity'[b]
  <2>1. c \in Nat
    BY TextAssumption
  <2> QED BY <1>1, <1>3, <2>1
<1> QED BY <1>2, <1>3 DEF MakesRoom

\* A text is set that its buffer has room for.
LEMMA SetTextResult ==
  ASSUME TextInv, Appending, NEW s \in Seq(Stored), SetText(s),
         capacity' \in [Buffers -> Nat], Len(s) <= capacity'[append.to],
         \A b \in Buffers : capacity[b] <= capacity'[b]
  PROVE  /\ text' \in [Buffers -> Seq(Stored)]
         /\ text'[append.to] = s
         /\ TextInBuffer'
<1>1. text \in [Buffers -> Seq(Stored)] /\ append.to \in Buffers
  BY CallFacts DEF TextInv, TextType
<1>2. text' = [text EXCEPT ![append.to] = s]
  BY DEF SetText
<1>3. text' \in [Buffers -> Seq(Stored)] /\ text'[append.to] = s
  BY <1>1, <1>2
<1>4. ASSUME NEW b \in Buffers PROVE Len(text'[b]) <= capacity'[b]
  <2>1. CASE b = append.to
    BY <1>3, <2>1
  <2>2. CASE b # append.to
    <3>1. text'[b] = text[b] /\ text[b] \in Seq(Stored)
      BY <1>1, <1>2, <2>2
    <3>2. Len(text[b]) \in Nat /\ Len(text[b]) <= capacity[b] /\ capacity[b] \in Nat
      BY <3>1, LenProperties DEF TextInv, TextInBuffer, TextType
    <3>3. capacity[b] <= capacity'[b] /\ capacity'[b] \in Nat
      OBVIOUS
    <3> QED BY <3>1, <3>2, <3>3
  <2> QED BY <2>1, <2>2
<1> QED BY <1>3, <1>4 DEF TextInBuffer
\* Until it ends, an append other than AppendStringAsJson writes nothing.
LEMMA BeforeIsKept ==
  ASSUME TextInv, Appending
  PROVE  Begins(append.before, text[append.to])
<1>1. append.before \in Seq(Stored) /\ Len(append.before) \in Nat
  BY CallFacts
<1>2. CASE append.fn # "json" \/ ~append.begun
  BY <1>1, <1>2 DEF TextInv, Progress, Begins
<1>3. CASE append.fn = "json" /\ append.begun
  BY <1>3 DEF TextInv, Progress
<1> QED BY <1>2, <1>3

-----------------------------------------------------------------------------
(* The steps of an append. *)

\* The append fails and leaves its buffer as it is.
LEMMA FailingIsSafe ==
  ASSUME TextInv, Appending, UNCHANGED <<text, capacity>>,
         append' = NoAppend, status' # "SUCCESS"
  PROVE  TextInv' /\ StepIsWhole
<1>1. ~Appending'
  BY DEF Appending
<1>2. TextType' /\ TextInBuffer'
  BY <1>1 DEF TextInv, TextType, TextInBuffer
<1>3. StepIsWhole
  BY BeforeIsKept DEF StepIsWhole
<1> QED BY <1>1, <1>2, <1>3 DEF TextInv

\* It goes on and has written nothing, with more room perhaps.
LEMMA WaitingIsSafe ==
  ASSUME TextInv, Appending, UNCHANGED text,
         capacity' \in [Buffers -> Nat], \A b \in Buffers : capacity[b] <= capacity'[b],
         \/ append' = append
         \/ append.fn = "mbcs" /\ append' = [append EXCEPT !.begun = TRUE]
  PROVE  TextInv' /\ StepIsWhole
<1>1. append \in AppendCall
  BY CallFacts
<1>2. append' \in AppendCall
  BY <1>1 DEF AppendCall
<1>3. Appending'
  <2>1. append'.fn = append.fn /\ append.fn \in Functions
    BY <1>1 DEF AppendCall
  <2>2. NoAppend.fn = "none"
    BY DEF NoAppend
  <2> QED BY <2>1, <2>2 DEF Appending, Functions
<1>4. TextInBuffer'
  <2>1. ASSUME NEW b \in Buffers PROVE Len(text[b]) <= capacity'[b]
    <3>1. text[b] \in Seq(Stored) /\ capacity[b] \in Nat /\ capacity'[b] \in Nat
      BY DEF TextInv, TextType
    <3>2. Len(text[b]) \in Nat /\ Len(text[b]) <= capacity[b]
      BY <3>1, LenProperties DEF TextInv, TextInBuffer
    <3> QED BY <3>1, <3>2
  <2> QED BY <2>1 DEF TextInBuffer
<1>5. Progress'
  <2>1. /\ append'.to = append.to /\ append'.chars = append.chars /\ append'.count = append.count
        /\ append'.before = append.before /\ append'.fn = append.fn
        /\ append'.next = append.next /\ append'.offset = append.offset
        /\ append.fn # "mbcs" => append'.begun = append.begun
    BY <1>1 DEF AppendCall
  <2>2. CASE append.fn = "mbcs"
    BY <2>1, <2>2 DEF TextInv, Progress
  <2>3. CASE append.fn # "mbcs"
    BY <2>1, <2>3 DEF TextInv, Progress, BaseSize
  <2> QED BY <2>2, <2>3
<1>6. TextType'
  BY <1>2 DEF TextInv, TextType
<1>7. StepIsWhole
  BY <1>3, BeforeIsKept DEF StepIsWhole
<1> QED BY <1>4, <1>5, <1>6, <1>7 DEF TextInv

\* It appends all of its characters at once, and succeeds.
LEMMA AppendingAllIsSafe ==
  ASSUME TextInv, Appending, append.fn # "json",
         SetText(text[append.to] \o append.chars), append' = NoAppend,
         capacity' \in [Buffers -> Nat], \A b \in Buffers : capacity[b] <= capacity'[b],
         Len(text[append.to]) + Len(append.chars) <= capacity'[append.to]
  PROVE  TextInv' /\ StepIsWhole
<1> DEFINE s == text[append.to] \o append.chars
<1>1. /\ s \in Seq(Stored)
      /\ Len(s) = Len(text[append.to]) + Len(append.chars)
      /\ \A k \in 1 .. Len(text[append.to]) + Len(append.chars) :
           s[k] = IF k <= Len(text[append.to]) THEN text[append.to][k]
                  ELSE append.chars[k - Len(text[append.to])]
  BY CallFacts, ConcatProperties, ZenonT(40)
<1>2. text' \in [Buffers -> Seq(Stored)] /\ text'[append.to] = s /\ TextInBuffer'
  <2> HIDE DEF s
  <2>1. SetText(s)
    BY DEF s
  <2>2. Len(s) <= capacity'[append.to]
    BY <1>1
  <2> QED BY <1>1, <2>1, <2>2, SetTextResult
<1>3. text[append.to] = append.before
  BY DEF TextInv, Progress
<1> DEFINE n == Len(append.before)
           m == Len(append.chars)
<1>7. /\ n \in Nat /\ m \in Nat /\ Len(s) = n + m
      /\ \A k \in 1 .. n + m : s[k] = IF k <= n THEN append.before[k] ELSE append.chars[k - n]
  BY <1>1, <1>3, CallFacts
<1>8. \A k \in 1 .. m : append.chars[k] \in Characters
  BY CallFacts, ElementOfSeq
<1> HIDE DEF s, n, m
<1>4. Begins(append.before, s)
  <2>1. n <= Len(s) /\ \A k \in 1 .. n : append.before[k] = s[k]
    BY <1>7
  <2> QED BY <2>1 DEF Begins, n
<1>5. AllWritten(s, n + 1, Len(s))
  <2>1. ASSUME NEW k \in n + 1 .. Len(s) PROVE s[k] \in Characters
    <3>1. k \in 1 .. n + m /\ ~(k <= n) /\ k - n \in 1 .. m
      BY <1>7, <2>1
    <3> QED BY <1>7, <1>8, <3>1
  <2> QED BY <2>1 DEF AllWritten
<1>6. StepIsWhole
  BY <1>2, <1>4, <1>5 DEF StepIsWhole, n
<1> QED BY <1>2, <1>6 DEF TextInv, TextType, Appending

\* resize(n), and what is written at `first`.
LEMMA ResizedResult ==
  ASSUME TextInv, Appending, NEW n \in Nat, NEW first \in Nat \ {0}, NEW s \in Seq(Characters)
  PROVE  /\ Resized(n, first, s) \in Seq(Stored)
         /\ Len(Resized(n, first, s)) = n
         /\ \A k \in 1 .. n : Resized(n, first, s)[k] =
              IF k \in first .. first + Len(s) - 1 THEN s[k - first + 1]
              ELSE IF k <= Len(text[append.to]) THEN text[append.to][k]
              ELSE Unwritten
<1> DEFINE old == text[append.to]
           r   == Resized(n, first, s)
           E(k) == IF k \in first .. first + Len(s) - 1 THEN s[k - first + 1]
                   ELSE IF k <= Len(old) THEN old[k]
                   ELSE Unwritten
<1>1. r = [k \in 1 .. n |-> E(k)]
  BY DEF Resized, Size
<1>2. /\ Len(old) \in Nat /\ Len(s) \in Nat
      /\ \A k \in 1 .. Len(old) : old[k] \in Stored
      /\ \A k \in 1 .. Len(s) : s[k] \in Characters
  BY CallFacts, ElementOfSeq, LenProperties
<1>3. ASSUME NEW k \in 1 .. n PROVE E(k) \in Stored
  <2>1. CASE k \in first .. first + Len(s) - 1
    <3>1. k - first + 1 \in 1 .. Len(s)
      BY <1>2, <2>1
    <3>2. s[k - first + 1] \in Characters
      BY <1>2, <3>1
    <3> QED BY <2>1, <3>2 DEF Stored
  <2>2. CASE k \notin first .. first + Len(s) - 1 /\ k <= Len(old)
    <3>1. k \in 1 .. Len(old)
      BY <1>2, <2>2
    <3> QED BY <1>2, <2>2, <3>1
  <2>3. CASE k \notin first .. first + Len(s) - 1 /\ ~(k <= Len(old))
    BY <2>3 DEF Stored
  <2> QED BY <2>1, <2>2, <2>3
<1> HIDE DEF r, E, old
<1>4. r \in [1 .. n -> Stored]
  BY <1>1, <1>3
<1>5. r \in Seq(Stored) /\ Len(r) = n
  BY <1>4
<1>6. \A k \in 1 .. n : r[k] = E(k)
  BY <1>1
<1> QED BY <1>5, <1>6 DEF r, E, old

LEMMA JsonBeginsIsSafe ==
  ASSUME TextInv, Appending, JsonBegins, ~OutOfMemory
  PROVE  TextInv' /\ StepIsWhole
<1> DEFINE old == text[append.to]
           offset == Len(old) + 1
           n == BaseSize + offset
           r == Resized(n, offset, <<QuoteMark>>)
<1>1. /\ append \in AppendCall /\ append.fn = "json" /\ ~append.begun /\ append.next = 0
      /\ old = append.before
  BY CallFacts DEF JsonBegins, Runs, TextInv, Progress
<1>2. /\ MakesRoom(n) /\ SetText(r)
      /\ append' = [append EXCEPT !.begun = TRUE, !.offset = offset]
  BY DEF JsonBegins, Size, BaseSize
<1>3. /\ Len(old) \in Nat /\ Len(append.chars) \in Nat
      /\ n \in Nat /\ offset \in Nat \ {0}
      /\ n = Len(append.chars) + 1 + offset
  <2>1. Len(old) \in Nat /\ Len(append.chars) \in Nat
    BY CallFacts
  <2>2. n = Len(append.chars) + 1 + offset
    BY DEF BaseSize
  <2>3. \A i, j \in Nat : i + 1 \in Nat \ {0} /\ j + 1 + (i + 1) \in Nat
    OBVIOUS
  <2> QED BY <2>1, <2>2, <2>3
<1>4. <<QuoteMark>> \in Seq(Characters) /\ Len(<<QuoteMark>>) = 1 /\ <<QuoteMark>>[1] = QuoteMark
      /\ QuoteMark \in Characters
  BY QuoteIsCharacter
<1>5. /\ r \in Seq(Stored) /\ Len(r) = n
      /\ \A k \in 1 .. n : r[k] = IF k \in offset .. offset THEN <<QuoteMark>>[k - offset + 1]
                                 ELSE IF k <= Len(old) THEN old[k] ELSE Unwritten
  <2> DEFINE q == <<QuoteMark>>
  <2> HIDE DEF n, offset, q
  <2>1. offset + Len(q) - 1 = offset /\ q \in Seq(Characters)
    BY <1>3, <1>4 DEF q
  <2>2. /\ Resized(n, offset, q) \in Seq(Stored)
        /\ Len(Resized(n, offset, q)) = n
        /\ \A k \in 1 .. n : Resized(n, offset, q)[k] =
             IF k \in offset .. offset + Len(q) - 1 THEN q[k - offset + 1]
             ELSE IF k <= Len(text[append.to]) THEN text[append.to][k]
             ELSE Unwritten
    BY <1>3, <2>1, ResizedResult, ZenonT(40)
  <2> QED BY <2>1, <2>2 DEF q
<1> HIDE DEF r, n
<1>6. /\ text' \in [Buffers -> Seq(Stored)] /\ text'[append.to] = r /\ TextInBuffer'
      /\ capacity' \in [Buffers -> Nat]
  <2>1. /\ capacity' \in [Buffers -> Nat] /\ n <= capacity'[append.to]
        /\ \A b \in Buffers : capacity[b] <= capacity'[b]
    BY <1>2, <1>3, MakesRoomResult
  <2> QED BY <1>2, <1>5, <2>1, SetTextResult
<1>7. /\ append' \in AppendCall /\ append'.fn = "json" /\ append'.begun
      /\ append'.to = append.to /\ append'.chars = append.chars
      /\ append'.before = append.before /\ append'.next = 0 /\ append'.offset = offset
  BY <1>1, <1>2, <1>3 DEF AppendCall
<1>8. Appending'
  BY <1>7 DEF Appending, NoAppend
<1>12. /\ Len(old) < offset /\ Len(old) + 1 = offset /\ offset < n
       /\ \A k \in 1 .. Len(old) : k \in 1 .. n /\ k \notin offset .. offset
  <2>1. \A i, j \in Nat : /\ i < i + 1 /\ i + 1 < j + 1 + (i + 1)
                          /\ \A k \in 1 .. i : k \in 1 .. j + 1 + (i + 1) /\ k \notin i + 1 .. i + 1
    OBVIOUS
  <2> QED BY <1>3, <2>1
<1> HIDE DEF offset, old
<1>9. Begins(append.before, r)
  <2>2. \A k \in 1 .. Len(old) : old[k] = r[k]
    BY <1>3, <1>5, <1>12
  <2>3. Len(old) <= Len(r)
    BY <1>3, <1>5, <1>12
  <2> QED BY <1>1, <2>2, <2>3 DEF Begins
<1>10. AllWritten(r, Len(append.before) + 1, offset)
  <2>1. \A k \in Len(old) + 1 .. offset : k = offset
    BY <1>3, <1>12
  <2>2. offset \in 1 .. n /\ offset \in offset .. offset /\ offset - offset + 1 = 1
    BY <1>3
  <2>3. r[offset] = QuoteMark
    BY <1>4, <1>5, <2>2
  <2> QED BY <1>1, <1>4, <2>1, <2>3 DEF AllWritten
<1>11. Progress'
  <2>1. offset + 0 = offset
    BY <1>3
  <2>2. BaseSize' = Len(append.chars) + 1
    BY <1>7 DEF BaseSize
  <2>3. text'[append'.to] = r
    BY <1>6, <1>7
  <2>4. /\ Len(append.before) < offset /\ 0 <= Len(append.chars)
        /\ Len(r) = Len(append.chars) + 1 + offset
    BY <1>1, <1>3, <1>5, <1>12
  <2> QED BY <1>7, <1>9, <1>10, <2>1, <2>2, <2>3, <2>4 DEF Progress
<1> QED BY <1>6, <1>7, <1>8, <1>9, <1>11 DEF TextInv, TextType, StepIsWhole

\* Where the pointer of AppendStringAsJson is after an escape of n characters:
\* i characters were there before, the offset was o, x of m characters are done.
LEMMA PointerArithmetic ==
  ASSUME NEW i \in Nat, NEW o \in Nat, NEW x \in Nat, NEW m \in Nat, NEW n \in Nat,
         i < o, x < m, n > 0
  PROVE  /\ o + n - 1 \in Nat /\ i < o + n - 1 /\ x + 1 \in Nat /\ x + 1 <= m
         /\ o + x + 1 \in Nat \ {0}
         /\ m + 1 + (o + n - 1) \in Nat
         /\ i <= m + 1 + (o + n - 1)
         /\ \A k \in 1 .. i : /\ k \in 1 .. m + 1 + (o + n - 1)
                              /\ k \notin o + x + 1 .. o + x + 1 + n - 1
                              /\ k <= m + 1 + o
         /\ \A k \in i + 1 .. o + n - 1 + (x + 1) :
              /\ k \in 1 .. m + 1 + (o + n - 1)
              /\ k \in o + x + 1 .. o + x + 1 + n - 1 => k - (o + x + 1) + 1 \in 1 .. n
              /\ k \notin o + x + 1 .. o + x + 1 + n - 1 =>
                   k \in i + 1 .. o + x /\ k <= m + 1 + o
OBVIOUS

LEMMA JsonCharacterIsSafe ==
  ASSUME TextInv, Appending, JsonCharacter, ~OutOfMemory
  PROVE  TextInv' /\ StepIsWhole
<1> DEFINE old   == text[append.to]
           chars == JsonEscape(append.chars[append.next + 1])
           i     == Len(append.before)
           o     == append.offset
           x     == append.next
           m     == Len(append.chars)
           o2    == o + Len(chars) - 1
           first == o + x + 1
           n     == m + 1 + o2
           r     == Resized(n, first, chars)
<1>1. /\ append \in AppendCall /\ append.fn = "json" /\ append.begun
      /\ i \in Nat /\ o \in Nat /\ x \in Nat /\ m \in Nat
      /\ x < m /\ append.to \in Buffers
  BY CallFacts DEF JsonCharacter, Runs
<1>2. /\ i < o /\ Len(old) = m + 1 + o
      /\ Begins(append.before, old) /\ AllWritten(old, i + 1, o + x)
  BY <1>1 DEF TextInv, Progress, BaseSize
<1>3. /\ MakesRoom(n) /\ SetText(r)
      /\ append' = [append EXCEPT !.offset = o2, !.next = @ + 1]
  BY DEF JsonCharacter, BaseSize
<1>4. chars \in Seq(Characters) /\ Len(chars) \in Nat /\ Len(chars) > 0
  <2>1. append.chars[append.next + 1] \in Characters
    BY <1>1, CallFacts, ElementOfSeq
  <2>2. chars \in Seq(Characters) /\ chars # << >>
    BY <2>1, EscapeIsText
  <2> HIDE DEF chars
  <2> QED BY <2>2, EmptySeq, LenProperties
<1>5. \A k \in 1 .. Len(chars) : chars[k] \in Characters
  <2> HIDE DEF chars
  <2> QED BY <1>4, ElementOfSeq
<1>6. /\ o2 \in Nat /\ i < o2 /\ x + 1 \in Nat /\ x + 1 <= m
      /\ first \in Nat \ {0} /\ n \in Nat /\ i <= n
      /\ \A k \in 1 .. i : /\ k \in 1 .. n /\ k \notin first .. first + Len(chars) - 1
                           /\ k <= Len(old)
      /\ \A k \in i + 1 .. o2 + (x + 1) :
           /\ k \in 1 .. n
           /\ k \in first .. first + Len(chars) - 1 => k - first + 1 \in 1 .. Len(chars)
           /\ k \notin first .. first + Len(chars) - 1 => k \in i + 1 .. o + x /\ k <= Len(old)
  <2> DEFINE len == Len(chars)
  <2>1. len \in Nat /\ len > 0
    BY <1>4
  <2> HIDE DEF len, i, o, x, m
  <2> QED BY <1>1, <1>2, <2>1, PointerArithmetic DEF len
<1>7. /\ r \in Seq(Stored) /\ Len(r) = n
      /\ \A k \in 1 .. n : r[k] = IF k \in first .. first + Len(chars) - 1
                                  THEN chars[k - first + 1]
                                  ELSE IF k <= Len(old) THEN old[k] ELSE Unwritten
  <2> HIDE DEF n, first, chars
  <2> QED BY <1>4, <1>6, ResizedResult
<1> HIDE DEF r, n, first, o2, chars
<1>8. /\ text' \in [Buffers -> Seq(Stored)] /\ text'[append.to] = r /\ TextInBuffer'
      /\ capacity' \in [Buffers -> Nat]
  <2>1. /\ capacity' \in [Buffers -> Nat] /\ n <= capacity'[append.to]
        /\ \A b \in Buffers : capacity[b] <= capacity'[b]
    BY <1>3, <1>6, MakesRoomResult
  <2> QED BY <1>3, <1>7, <2>1, SetTextResult
<1>9. /\ append' \in AppendCall /\ append'.fn = "json" /\ append'.begun
      /\ append'.to = append.to /\ append'.chars = append.chars
      /\ append'.before = append.before /\ append'.next = x + 1 /\ append'.offset = o2
  BY <1>1, <1>3, <1>6 DEF AppendCall
<1>10. Appending'
  BY <1>9 DEF Appending, NoAppend
<1> HIDE DEF old
<1>11. Begins(append.before, r)
  <2>1. \A k \in 1 .. i : append.before[k] = r[k]
    BY <1>2, <1>6, <1>7 DEF Begins
  <2> QED BY <1>6, <1>7, <2>1 DEF Begins
<1>12. AllWritten(r, i + 1, o2 + (x + 1))
  <2>1. ASSUME NEW k \in i + 1 .. o2 + (x + 1) PROVE r[k] \in Characters
    <3>1. CASE k \in first .. first + Len(chars) - 1
      BY <1>5, <1>6, <1>7, <3>1
    <3>2. CASE k \notin first .. first + Len(chars) - 1
      <4>1. k \in i + 1 .. o + x /\ r[k] = old[k]
        BY <1>6, <1>7, <3>2
      <4> QED BY <1>2, <4>1 DEF AllWritten
    <3> QED BY <3>1, <3>2
  <2> QED BY <2>1 DEF AllWritten
<1>13. Progress'
  <2>1. text'[append'.to] = r /\ BaseSize' = m + 1
    BY <1>8, <1>9 DEF BaseSize
  <2>2. Len(r) = m + 1 + o2
    BY <1>7 DEF n
  <2> QED BY <1>6, <1>9, <1>11, <1>12, <2>1, <2>2 DEF Progress
<1> QED BY <1>8, <1>9, <1>10, <1>11, <1>13 DEF TextInv, TextType, StepIsWhole

LEMMA JsonEndsIsSafe ==
  ASSUME TextInv, Appending, JsonEnds
  PROVE  TextInv' /\ StepIsWhole
<1> DEFINE old == text[append.to]
           i   == Len(append.before)
           o   == append.offset
           m   == Len(append.chars)
           p   == o + m + 1
           s   == [old EXCEPT ![p] = QuoteMark]
<1>1. /\ append.fn = "json" /\ append.begun /\ append.next = m
      /\ i \in Nat /\ o \in Nat /\ m \in Nat /\ old \in Seq(Stored)
      /\ capacity[append.to] \in Nat /\ Len(old) <= capacity[append.to]
  BY CallFacts DEF JsonEnds, Runs
<1>2. /\ i < o /\ Len(old) = m + 1 + o
      /\ Begins(append.before, old) /\ AllWritten(old, i + 1, o + m)
  BY <1>1 DEF TextInv, Progress, BaseSize
<1>3. SetText(s) /\ append' = NoAppend /\ UNCHANGED capacity
  BY <1>1 DEF JsonEnds, Returns
<1>4. QuoteMark \in Stored /\ QuoteMark \in Characters
  BY QuoteIsCharacter DEF Stored
<1> HIDE DEF old, i, o, m
<1>5. /\ p \in 1 .. Len(old) /\ i <= Len(old)
      /\ \A k \in 1 .. i : k \in 1 .. Len(old) /\ k # p
      /\ \A k \in i + 1 .. Len(old) : k \in 1 .. Len(old) /\ (k # p => k \in i + 1 .. o + m)
  BY <1>1, <1>2
<1>6. /\ s \in Seq(Stored) /\ Len(s) = Len(old)
      /\ \A k \in 1 .. Len(old) : s[k] = IF k = p THEN QuoteMark ELSE old[k]
  <2> HIDE DEF p
  <2> QED BY <1>1, <1>4, <1>5, ExceptSeq
<1> HIDE DEF s, p
<1>7. /\ text' \in [Buffers -> Seq(Stored)] /\ text'[append.to] = s /\ TextInBuffer'
  <2>1. /\ capacity' \in [Buffers -> Nat]
        /\ \A b \in Buffers : capacity[b] <= capacity'[b]
    BY <1>3 DEF TextInv, TextType
  <2>2. Len(s) <= capacity'[append.to]
    BY <1>1, <1>3, <1>6
  <2> QED BY <1>3, <1>6, <2>1, <2>2, SetTextResult
<1>8. Begins(append.before, s)
  <2>1. \A k \in 1 .. i : append.before[k] = s[k]
    BY <1>2, <1>5, <1>6 DEF Begins, i
  <2> QED BY <1>5, <1>6, <2>1 DEF Begins, i
<1>9. AllWritten(s, i + 1, Len(s))
  BY <1>2, <1>4, <1>5, <1>6 DEF AllWritten
<1>10. StepIsWhole
  BY <1>7, <1>8, <1>9 DEF StepIsWhole, i
<1>11. TextType'
  BY <1>3, <1>7 DEF TextInv, TextType, Appending
<1> QED BY <1>3, <1>7, <1>10, <1>11 DEF TextInv, Appending

-----------------------------------------------------------------------------
(* Every step. *)

\* AppendMbcs of no bytes appends nothing.
LEMMA NothingIsSafe ==
  ASSUME TextInv, Appending, append.fn # "json", UNCHANGED <<text, capacity>>,
         append' = NoAppend
  PROVE  TextInv' /\ StepIsWhole
<1>1. append.to \in Buffers /\ append.before \in Seq(Stored) /\ text[append.to] = append.before
  BY CallFacts DEF TextInv, Progress
<1>2. ~Appending'
  BY DEF Appending
<1>3. TextInv'
  BY <1>2 DEF TextInv, TextType, TextInBuffer
<1>4. AllWritten(append.before, Len(append.before) + 1, Len(append.before))
  <2>1. Len(append.before) \in Nat
    BY CallFacts
  <2> QED BY <2>1 DEF AllWritten
<1>5. StepIsWhole
  BY <1>1, <1>4, BeforeIsKept DEF StepIsWhole
<1> QED BY <1>3, <1>5

\* Room that is refused leaves the text and the capacity as they are.
LEMMA RefusalIsSafe ==
  ASSUME TextInv, Appending, NEW n, RoomRefused(n), OutOfMemory
  PROVE  TextInv' /\ StepIsWhole
<1>1. UNCHANGED <<text, capacity>> /\ append' = NoAppend /\ status' # "SUCCESS"
  BY DEF RoomRefused, OutOfMemory, Returns
<1> QED BY <1>1, FailingIsSafe

\* A JSON step that goes on is not one that ran out of memory.
LEMMA GoingOnIsNoFailure ==
  ASSUME append \in AppendCall, append.fn = "json", append'.fn = append.fn
  PROVE  ~OutOfMemory
BY DEF OutOfMemory, Returns, NoAppend

\* Sizes that are compared with a capacity.
LEMMA SizeIs == Size = Len(text[append.to])
BY DEF Size

LEMMA RoomFacts ==
  ASSUME TextInv, Appending
  PROVE  /\ Size + Len(append.chars) \in Nat /\ Size + append.count \in Nat
         /\ capacity[append.to] + PrintfGrowth \in Nat
         /\ Len(append.chars) <= Available => Size + Len(append.chars) <= capacity[append.to]
         /\ \A c \in Nat : Len(append.chars) <= append.count /\ Size + append.count <= c =>
              Size + Len(append.chars) <= c
<1>1. /\ Size \in Nat /\ Len(append.chars) \in Nat /\ append.count \in Nat
      /\ capacity[append.to] \in Nat /\ PrintfGrowth \in Nat
  BY CallFacts, SizeIs, TextAssumption
<1>2. \A i, j, k, c \in Nat :
        /\ i + j \in Nat
        /\ j <= c - i => i + j <= c
        /\ j <= k /\ i + k <= c => i + j <= c
  OBVIOUS
<1> QED BY <1>1, <1>2 DEF Available

LEMMA TextStepIsSafe ==
  ASSUME TextInv, Appending, TextNext
  PROVE  TextInv' /\ StepIsWhole
<1>1. /\ Size + Len(append.chars) \in Nat /\ Size + append.count \in Nat
      /\ capacity[append.to] + PrintfGrowth \in Nat
      /\ append \in AppendCall
  BY CallFacts, RoomFacts
<1>2. /\ PrintfGrowth \in Nat
      /\ capacity \in [Buffers -> Nat]
      /\ \A b \in Buffers : capacity[b] <= capacity[b]
  BY TextAssumption DEF TextInv, TextType
<1>3. CASE Wide
  <2>1. CASE /\ MakesRoom(Size + Len(append.chars)) /\ Returns("SUCCESS")
             /\ SetText(text[append.to] \o append.chars)
    <3>1. /\ capacity' \in [Buffers -> Nat] /\ Size + Len(append.chars) <= capacity'[append.to]
          /\ \A b \in Buffers : capacity[b] <= capacity'[b]
      BY <1>1, <2>1, MakesRoomResult
    <3> QED BY <1>3, <2>1, <3>1, AppendingAllIsSafe, SizeIs DEF Returns, Wide, Runs
  <2>2. CASE RoomRefused(Size + Len(append.chars)) /\ OutOfMemory
    BY <2>2, RefusalIsSafe
  <2> QED BY <1>3, <2>1, <2>2 DEF Wide
<1>4. CASE PrintfFits
  <2>1. capacity' = capacity /\ Size + Len(append.chars) <= capacity'[append.to]
    BY <1>4, RoomFacts DEF PrintfFits
  <2> QED BY <1>2, <1>4, <2>1, AppendingAllIsSafe, SizeIs DEF PrintfFits, Returns, Runs
<1>5. CASE PrintfGrows
  <2>1. CASE /\ MakesRoom(capacity[append.to] + PrintfGrowth)
             /\ UNCHANGED <<text, append, status>>
    <3>1. /\ capacity' \in [Buffers -> Nat]
          /\ \A b \in Buffers : capacity[b] <= capacity'[b]
      BY <1>1, <1>2, <2>1, MakesRoomResult
    <3> QED BY <2>1, <3>1, WaitingIsSafe
  <2>2. CASE RoomRefused(capacity[append.to] + PrintfGrowth) /\ OutOfMemory
    BY <2>2, RefusalIsSafe
  <2> QED BY <1>5, <2>1, <2>2 DEF PrintfGrows
<1>6. CASE MbcsReserves
  <2>1. CASE Returns("SUCCESS") /\ UNCHANGED <<text, capacity>>
    BY <1>6, <2>1, NothingIsSafe DEF MbcsReserves, Runs, Returns
  <2>2. CASE /\ MakesRoom(Size + append.count) \/ RoomRefused(Size + append.count)
             /\ append' = [append EXCEPT !.begun = TRUE]
             /\ UNCHANGED <<text, status>>
    <3>1. /\ capacity' \in [Buffers -> Nat]
          /\ \A b \in Buffers : capacity[b] <= capacity'[b]
      BY <1>1, <1>2, <2>2, MakesRoomResult DEF RoomRefused
    <3> QED BY <1>6, <2>2, <3>1, WaitingIsSafe DEF MbcsReserves, Runs
  <2> QED BY <1>6, <2>1, <2>2 DEF MbcsReserves
<1>7. CASE MbcsFits
  <2>1. capacity' = capacity /\ Size + Len(append.chars) <= capacity'[append.to]
    BY <1>7, RoomFacts DEF MbcsFits
  <2> QED BY <1>2, <1>7, <2>1, AppendingAllIsSafe, SizeIs DEF MbcsFits, Converting, Returns, Runs
<1>8. CASE MbcsGrows
  <2>1. CASE /\ MakesRoom(Size + Len(append.chars))
             /\ UNCHANGED <<text, append, status>>
    <3>1. /\ capacity' \in [Buffers -> Nat]
          /\ \A b \in Buffers : capacity[b] <= capacity'[b]
      BY <1>1, <2>1, MakesRoomResult
    <3> QED BY <2>1, <3>1, WaitingIsSafe
  <2>2. CASE RoomRefused(Size + Len(append.chars)) /\ OutOfMemory
    BY <2>2, RefusalIsSafe
  <2> QED BY <1>8, <2>1, <2>2 DEF MbcsGrows
<1>9. CASE MbcsFails
  BY <1>9, FailingIsSafe DEF MbcsFails, Returns
<1>10. CASE MbcsAsserts
  BY <1>10, FailingIsSafe DEF MbcsAsserts, Returns
<1>11. CASE JsonBegins
  <2>1. CASE append' = [append EXCEPT !.begun = TRUE, !.offset = Size + 1]
    <3>1. append.fn = "json" /\ append'.fn = append.fn
      BY <1>1, <1>11, <2>1 DEF JsonBegins, Runs, AppendCall
    <3> QED BY <1>1, <1>11, <3>1, GoingOnIsNoFailure, JsonBeginsIsSafe
  <2>2. CASE RoomRefused(BaseSize + (Size + 1)) /\ OutOfMemory
    BY <2>2, RefusalIsSafe
  <2> QED BY <1>11, <2>1, <2>2 DEF JsonBegins
<1>12. CASE JsonCharacter
  <2> DEFINE offset == append.offset + Len(JsonEscape(append.chars[append.next + 1])) - 1
  <2>1. CASE append' = [append EXCEPT !.offset = offset, !.next = @ + 1]
    <3>1. append.fn = "json" /\ append'.fn = append.fn
      BY <1>1, <1>12, <2>1 DEF JsonCharacter, Runs, AppendCall
    <3> QED BY <1>1, <1>12, <3>1, GoingOnIsNoFailure, JsonCharacterIsSafe
  <2>2. CASE RoomRefused(BaseSize + offset) /\ OutOfMemory
    BY <2>2, RefusalIsSafe
  <2> QED BY <1>12, <2>1, <2>2 DEF JsonCharacter
<1>13. CASE JsonEnds
  BY <1>13, JsonEndsIsSafe
<1>14. CASE Reserved
  <2>1. CASE /\ MakesRoom(Size + append.count) /\ Returns("SUCCESS")
             /\ SetText(text[append.to] \o append.chars)
    <3>1. Len(append.chars) <= append.count
      BY <1>14 DEF Reserved, Runs, TextInv, Progress
    <3>2. /\ capacity' \in [Buffers -> Nat] /\ Size + append.count <= capacity'[append.to]
          /\ \A b \in Buffers : capacity[b] <= capacity'[b]
      BY <1>1, <2>1, MakesRoomResult
    <3>3. Size + Len(append.chars) <= capacity'[append.to]
      <4>1. capacity'[append.to] \in Nat
        BY <3>2, CallFacts
      <4> QED BY <3>1, <3>2, <4>1, RoomFacts
    <3> QED BY <1>14, <2>1, <3>2, <3>3, AppendingAllIsSafe, SizeIs DEF Returns, Reserved, Runs
  <2>2. CASE RoomRefused(Size + append.count) /\ OutOfMemory
    BY <2>2, RefusalIsSafe
  <2> QED BY <1>14, <2>1, <2>2 DEF Reserved
<1> QED
  BY <1>3, <1>4, <1>5, <1>6, <1>7, <1>8, <1>9, <1>10, <1>11, <1>12, <1>13, <1>14
  DEF TextNext

\* Between two appends: a call that begins has done nothing yet.
LEMMA BeginningIsSafe ==
  ASSUME TextInv, ~Appending, BeginAnyAppend
  PROVE  TextInv'
<1>1. PICK fn \in Functions, to \in Buffers, chars \in Seq(Characters), count \in Nat :
        /\ fn = "reserved" => Len(chars) <= count
        /\ BeginAppend(fn, to, chars, count)
        /\ UNCHANGED <<text, capacity, status>>
  BY DEF BeginAnyAppend
<1>2. append' = [fn |-> fn, to |-> to, chars |-> chars, count |-> count,
                 before |-> text[to], begun |-> FALSE, next |-> 0, offset |-> 0]
  BY <1>1 DEF BeginAppend
<1>3. append' \in AppendCall /\ text'[to] = text[to]
  BY <1>1, <1>2 DEF AppendCall, TextInv, TextType
<1>4. TextType' /\ TextInBuffer'
  BY <1>1, <1>3 DEF TextInv, TextType, TextInBuffer
<1>5. Progress'
  <2>1. /\ append'.to = to /\ append'.fn = fn /\ append'.chars = chars
        /\ append'.count = count /\ append'.before = text[to]
        /\ append'.begun = FALSE /\ append'.next = 0
    BY <1>2
  <2> QED BY <1>1, <1>3, <2>1 DEF Progress
<1> QED BY <1>4, <1>5 DEF TextInv

\* A text that is cut off at its end is no longer than it was.
LEMMA TruncatingIsSafe ==
  ASSUME TextInv, ~Appending, Truncate
  PROVE  TextInv'
<1>1. PICK n \in [Buffers -> Nat] :
        /\ \A b \in Buffers : n[b] <= Len(text[b])
        /\ text' = [b \in Buffers |-> SubSeq(text[b], 1, n[b])]
  BY DEF Truncate
<1>2. capacity' = capacity /\ append' = append
  BY DEF Truncate
<1>3. ASSUME NEW b \in Buffers
      PROVE  text'[b] \in Seq(Stored) /\ Len(text'[b]) <= capacity'[b]
  <2>1. text[b] \in Seq(Stored) /\ n[b] \in Nat /\ n[b] <= Len(text[b])
        /\ Len(text[b]) <= capacity[b] /\ capacity[b] \in Nat /\ Len(text[b]) \in Nat
    BY <1>1, <1>3, LenProperties DEF TextInv, TextType, TextInBuffer
  <2>2. text'[b] = SubSeq(text[b], 1, n[b])
    BY <1>1
  <2>3. text'[b] \in Seq(Stored) /\ Len(text'[b]) = n[b]
    <3>1. \A k \in 1 .. n[b] : k \in 1 .. Len(text[b])
      BY <2>1
    <3>2. \A k \in 1 .. n[b] : text[b][k] \in Stored
      BY <2>1, <3>1, ElementOfSeq
    <3> QED BY <2>1, <2>2, <3>2, SubSeqProperties
  <2> QED BY <1>2, <2>1, <2>3
<1>4. text' \in [Buffers -> Seq(Stored)]
  BY <1>1, <1>3
<1> QED BY <1>2, <1>3, <1>4 DEF TextInv, TextType, TextInBuffer, Appending

\* So is a text some characters of which are replaced.
LEMMA ReplacingIsSafe ==
  ASSUME TextInv, ~Appending, Replace
  PROVE  TextInv'
<1>1. PICK b \in Buffers, s \in Seq(Stored) :
        Len(s) = Len(text[b]) /\ text' = [text EXCEPT ![b] = s]
  BY DEF Replace, Stored
<1>2. capacity' = capacity /\ append' = append
  BY DEF Replace
<1>3. ASSUME NEW c \in Buffers
      PROVE  text'[c] \in Seq(Stored) /\ Len(text'[c]) <= capacity'[c]
  <2>1. text'[c] = IF c = b THEN s ELSE text[c]
    BY <1>1 DEF TextInv, TextType
  <2> QED BY <1>1, <1>2, <2>1 DEF TextInv, TextType, TextInBuffer
<1>4. text' \in [Buffers -> Seq(Stored)]
  BY <1>1, <1>3 DEF TextInv, TextType
<1> QED BY <1>2, <1>3, <1>4 DEF TextInv, TextType, TextInBuffer, Appending

LEMMA InitTextInv == InitText => TextInv
<1> SUFFICES ASSUME InitText PROVE TextInv
  OBVIOUS
<1> DEFINE empty == << >>
<1>0. empty \in Seq(Stored) /\ Len(empty) = 0
  BY EmptySeq
<1> HIDE DEF empty
<1>1. \A b \in Buffers : /\ text[b] = empty /\ capacity[b] \in Nat /\ 0 <= capacity[b]
                         /\ Len(text[b]) = 0
  <2>1. \A b \in Buffers : text[b] = empty
    BY DEF InitText, empty
  <2>2. \A b \in Buffers : capacity[b] \in Nat
    BY TextAssumption DEF InitText
  <2>3. \A n \in Nat : 0 <= n
    OBVIOUS
  <2> QED BY <1>0, <2>1, <2>2, <2>3
<1>2. TextType
  BY <1>0, TextAssumption DEF InitText, TextType, Appending, empty
<1>3. TextInBuffer
  BY <1>1 DEF TextInBuffer
<1> QED BY <1>2, <1>3 DEF InitText, TextInv, Appending

\* The name says what a step of the whole is.
TextStep == TextNext \/ (~Appending /\ (BeginAnyAppend \/ Truncate \/ Replace))

LEMMA TextInvIsKept ==
  ASSUME TextInv, [TextStep]_textVars
  PROVE  TextInv'
<1>1. CASE TextNext
  <2>1. Appending
    BY <1>1 DEF TextNext, Wide, PrintfFits, PrintfGrows, MbcsReserves, MbcsFits, MbcsGrows,
         MbcsFails, MbcsAsserts, Converting, JsonBegins, JsonCharacter, JsonEnds, Reserved, Runs
  <2> QED BY <1>1, <2>1, TextStepIsSafe
<1>2. CASE ~Appending /\ BeginAnyAppend
  BY <1>2, BeginningIsSafe
<1>3. CASE ~Appending /\ Truncate
  BY <1>3, TruncatingIsSafe
<1>4. CASE ~Appending /\ Replace
  BY <1>4, ReplacingIsSafe
<1>5. CASE UNCHANGED textVars
  BY <1>5 DEF textVars, TextInv, TextType, TextInBuffer, Appending, Progress, BaseSize
<1> QED BY <1>1, <1>2, <1>3, <1>4, <1>5 DEF TextStep

-----------------------------------------------------------------------------
(* Theorems. *)

\* No append writes past the end of its buffer: whatever is appended, whichever
\* characters are escaped, and wherever room is refused (AppendStringAsJson,
\* AppendMbcs, AppendPrintfV, AppendWide and AppendIPv6).
THEOREM TextStaysInBuffer == TextSpec => []TextInBuffer
<1>1. TextInv => TextInBuffer
  BY DEF TextInv
<1>2. TextInv /\ [TextStep]_textVars => TextInv'
  BY TextInvIsKept
<1> QED BY <1>1, <1>2, InitTextInv, PTL DEF TextSpec, TextStep

\* An append keeps what was there before, also when it fails, and one that
\* succeeds has written every character it has made room for: the pointer of
\* AppendStringAsJson and the size it resizes to agree at every escape.
THEOREM TextIsWholeHolds == TextSpec => TextIsWhole
<1>1. TextInv /\ [TextStep]_textVars => TextInv'
  BY TextInvIsKept
<1>2. TextInv /\ [TextStep]_textVars =>
        [Appending => StepIsWhole]_textVars
  <2> SUFFICES ASSUME TextInv, TextStep, Appending PROVE StepIsWhole
    OBVIOUS
  <2> QED BY TextStepIsSafe DEF TextStep
<1>3. [Appending => StepIsWhole]_textVars =>
        [Appending =>
           LET s == text'[append.to]
           IN  /\ Begins(append.before, s)
               /\ ~Appending' /\ status' = "SUCCESS" =>
                    \A k \in Len(append.before) + 1 .. Len(s) : s[k] \in Characters]_textVars
  BY DEF StepIsWhole, AllWritten
<1> QED BY <1>1, <1>2, <1>3, InitTextInv, PTL DEF TextSpec, TextStep, TextIsWhole

-----------------------------------------------------------------------------
(***************************************************************************)
(* Values.  ValueType_None and LastError agree when a value has been       *)
(* formatted, for every value, map, setting and capacity, wherever memory  *)
(* runs out.                                                               *)
(*                                                                         *)
(* The property is about the end of a call.  What makes it inductive is    *)
(* what the steps before leave in `type`: nothing before the value has     *)
(* been looked at, and a type, never None, while it is being appended.     *)
(***************************************************************************)
Results == {"SUCCESS", "OUTOFMEMORY", "CONVERSION_ERROR", "ASSERT"}

Agrees == /\ type = "None" <=> lastError # "SUCCESS"
          /\ lastError # "Earlier"

AgreeInv ==
    /\ status \in Results
    /\ step \in {"asJson", "asString", "inJson", "returned"} => Agrees
    /\ step \in {"appending", "inJson", "printed"} => type # "None"
    /\ step \in {"idle", "cleared", "ahead"} => type = "None"

\* The call is one that the program makes, with the settings that it has.
CallInv ==
    /\ timestampFormat \in Formats \cup {InitialFormat}
    /\ timeZoneBiasMinutes \in Biases
    /\ step \notin {"idle", "cleared"} =>
         /\ WellFormedCall(call)
         /\ parsed = IF call.op = "Printf" THEN UsedPrintf(call.format) ELSE NoPrintf

-----------------------------------------------------------------------------
\* A value that has a type is shown with it.
LEMMA EveryValueHasAType == \A v : TypeOf(v) # "None"
BY DEF TypeOf

\* What an append returns.
LEMMA AppendResults ==
  ASSUME status \in Results, TextNext
  PROVE  status' \in Results
BY DEF Results, TextNext, Wide, PrintfFits, PrintfGrows, MbcsReserves, MbcsFits, MbcsGrows,
       MbcsFails, MbcsAsserts, JsonBegins, JsonCharacter, JsonEnds, Reserved, OutOfMemory, Returns

\* A step that goes on to look for a map, a code or a value.
LEMMA GoingOnAgrees ==
  ASSUME AgreeInv, UNCHANGED status, UNCHANGED type,
         step' \in EntrySteps \cup {"mapTooSmall", "bitmap", "code", "fallBack"}
  PROVE  AgreeInv'
BY DEF AgreeInv, EntrySteps

\* A step that begins to append a value.
LEMMA ShowingAgrees ==
  ASSUME AgreeInv, UNCHANGED status, NEW t, NEW appends, t # "None", Shows(t, appends)
  PROVE  AgreeInv'
BY DEF AgreeInv, Shows

\* `return m_lastError == ERROR_SUCCESS ? type : ValueType_None`.
LEMMA ReturningAgrees ==
  ASSUME AgreeInv, UNCHANGED status, NEW error, NEW t, Return(error, t),
         error # "Earlier", error = "SUCCESS" => t # "None"
  PROVE  AgreeInv'
<1>1. step' \in {"asJson", "asString", "returned"}
  BY DEF Return, AfterValue
<1>2. Agrees'
  BY DEF Return, Agrees
<1> QED BY <1>1, <1>2 DEF AgreeInv

-----------------------------------------------------------------------------
LEMMA InitAgrees == Init => AgreeInv
BY DEF Init, InitText, AgreeInv, Results

\* No step changes the call or the settings.
LEMMA StepKeepsCall ==
  ASSUME ValueStep
  PROVE  /\ UNCHANGED <<call, parsed, timestampFormat, timeZoneBiasMinutes>>
         /\ step \notin {"idle", "cleared"}
<1>1. CASE MakeAppend \/ AppendStep
  BY <1>1 DEF MakeAppend, AppendStep, Running, settingVars, valueVars, callVars
<1>2. CASE AheadEnds \/ AheadFails \/ MapFound \/ MapNotFound \/ MapFails \/ MapTooSmall
  BY <1>2 DEF AheadEnds, AheadFails, MapFound, MapNotFound, MapFails, MapTooSmall,
              Between, GoTo, Return, TextStays, settingVars
<1>3. CASE MapWrongSize \/ MapGrows \/ MapOutOfMemory \/ MapNotUsed \/ ValueMap \/ BitMap
  BY <1>3 DEF MapWrongSize, MapGrows, MapOutOfMemory, MapNotUsed, ValueMap, BitMap,
              Between, GoTo, Return, TextStays, settingVars
<1>4. CASE OtherMap \/ BitMapEntry \/ BitMapEnds \/ WrongSize \/ PlainValue \/ ResultCode
  BY <1>4 DEF OtherMap, BitMapEntry, BitMapEnds, WrongSize, PlainValue, ResultCode,
              Between, GoTo, Return, TextStays, settingVars
<1>5. CASE CodeShown \/ CodeNotFound \/ CodeFallsBack \/ CodeJumpsBack
  BY <1>5 DEF CodeShown, CodeNotFound, CodeFallsBack, CodeJumpsBack,
              Between, GoTo, TextStays, settingVars
<1>6. CASE Appended \/ AppendFails \/ JsonAppends \/ JsonEnd
  BY <1>6 DEF Appended, AppendFails, JsonAppends, JsonEnd, Between, Return, TextStays, settingVars
<1>7. CASE PrintfIgnored \/ PrintfNumber \/ PrintfText \/ PrintfString
  BY <1>7 DEF PrintfIgnored, PrintfNumber, PrintfText, PrintfString, Between, GoTo, TextStays,
              settingVars
<1>8. CASE PrintfNoString \/ PrintfEnds \/ PrintfFails
  BY <1>8 DEF PrintfNoString, PrintfEnds, PrintfFails, Between, GoTo, TextStays, settingVars
<1> QED BY <1>1, <1>2, <1>3, <1>4, <1>5, <1>6, <1>7, <1>8 DEF ValueStep

LEMMA InitCallInv == Init => CallInv
BY DEF Init, InitSettings, CallInv

LEMMA CallInvIsKept ==
  ASSUME CallInv, [Next]_vars
  PROVE  CallInv'
<1>1. CASE Begin
  <2>1. /\ UNCHANGED <<timestampFormat, timeZoneBiasMinutes>>
        /\ call' \in Calls(timestampFormat, timeZoneBiasMinutes)
        /\ parsed' = IF call'.op = "Printf" THEN UsedPrintf(call'.format) ELSE NoPrintf
    BY <1>1 DEF Begin, settingVars
  <2>2. WellFormedCall(call')
    BY <2>1, CallsAssumption DEF CallInv
  <2> QED BY <2>1, <2>2 DEF CallInv
<1>2. CASE ValueStep
  BY <1>2, StepKeepsCall DEF CallInv
<1>3. CASE Set
  <2>1. step' = "idle" /\ step = "idle"
    BY <1>3 DEF Set, callVars
  <2>2. timestampFormat' \in Formats \cup {InitialFormat} /\ timeZoneBiasMinutes' \in Biases
    BY <1>3 DEF Set, CallInv, SetTimestampFormat, SetTimeZoneBiasMinutes
  <2> QED BY <2>1, <2>2 DEF CallInv
<1>4. CASE Clear
  BY <1>4 DEF Clear, CallInv, settingVars
<1>5. CASE UNCHANGED vars
  BY <1>5 DEF vars, settingVars, valueVars, callVars, CallInv
<1> QED BY <1>1, <1>2, <1>3, <1>4, <1>5 DEF Next

LEMMA StepAgrees ==
  ASSUME AgreeInv, CallInv, ValueStep
  PROVE  AgreeInv'
<1>1. CASE MakeAppend
  BY <1>1 DEF MakeAppend, AgreeInv, Agrees
<1>2. CASE AppendStep
  <2>1. status' \in Results
    BY <1>2, AppendResults DEF AppendStep, AgreeInv
  <2>2. UNCHANGED <<step, type, lastError, call>>
    BY <1>2 DEF AppendStep, valueVars, callVars
  <2> QED BY <2>1, <2>2 DEF AgreeInv, Agrees
<1>3. CASE AheadEnds
  <2>1. step' = call.entry /\ call.entry \in EntrySteps /\ UNCHANGED <<type, status>>
    BY <1>3 DEF AheadEnds, GoTo, Between, TextStays, textVars, CallInv, WellFormedCall
  <2> QED BY <2>1, GoingOnAgrees
<1>4. CASE AheadFails
  <2>1. /\ type = "None" /\ UNCHANGED <<type, status>>
        /\ lastError' = status /\ status # "SUCCESS" /\ status \in Results
        /\ step' = "returned"
    BY <1>4 DEF AheadFails, Failed, Between, TextStays, textVars, AgreeInv
  <2> QED BY <2>1 DEF AgreeInv, Agrees, Results
<1>5. CASE MapFound \/ MapNotFound \/ MapTooSmall \/ MapGrows \/ MapNotUsed \/ OtherMap
           \/ ResultCode \/ CodeNotFound \/ CodeJumpsBack
  BY <1>5, GoingOnAgrees
  DEF MapFound, MapNotFound, MapTooSmall, MapGrows, MapNotUsed, OtherMap, ResultCode,
      CodeNotFound, CodeJumpsBack, GoTo, TextStays, textVars, EntrySteps
<1>6. CASE MapFails \/ MapWrongSize \/ MapOutOfMemory \/ WrongSize
  BY <1>6, ReturningAgrees
  DEF MapFails, MapWrongSize, MapOutOfMemory, WrongSize, TextStays, textVars
<1>7. CASE ValueMap \/ BitMapEnds \/ CodeShown \/ CodeFallsBack
  BY <1>7, ShowingAgrees
  DEF ValueMap, BitMapEnds, CodeShown, CodeFallsBack, TextStays, textVars
<1>8. CASE BitMap
  BY <1>8, GoingOnAgrees DEF BitMap, TextStays, textVars
<1>9. CASE BitMapEntry
  <2>1. step = "bitmap" /\ UNCHANGED <<step, type, status>>
    BY <1>9 DEF BitMapEntry, Between, TextStays, textVars
  <2> QED BY <2>1, GoingOnAgrees
<1>10. CASE PlainValue
  BY <1>10, ShowingAgrees, EveryValueHasAType DEF PlainValue, TextStays, textVars
<1>11. CASE Appended
  <2>1. type # "None" /\ UNCHANGED status /\ Return("SUCCESS", type)
    BY <1>11 DEF Appended, Between, AgreeInv
  <2> QED BY <2>1, ReturningAgrees
<1>12. CASE AppendFails
  <2>1. status \in Results /\ status # "SUCCESS" /\ UNCHANGED status /\ Return(status, type)
    BY <1>12 DEF AppendFails, Failed, TextStays, textVars, AgreeInv
  <2>2. status # "Earlier"
    BY <2>1 DEF Results
  <2> QED BY <2>1, <2>2, ReturningAgrees
<1>13. CASE JsonAppends
  <2>1. /\ step = "asJson" /\ step' = "inJson" /\ type # "None"
        /\ UNCHANGED <<type, status, lastError>>
    BY <1>13 DEF JsonAppends, Between, TextStays, textVars
  <2> QED BY <2>1 DEF AgreeInv, Agrees
<1>14. CASE JsonEnd
  <2>1. /\ step' = "returned" /\ UNCHANGED status
        /\ type' = IF lastError' = "SUCCESS" THEN type ELSE "None"
    BY <1>14 DEF JsonEnd
  <2>2. CASE step = "asJson" /\ type = "None" /\ UNCHANGED lastError
    BY <2>1, <2>2 DEF AgreeInv, Agrees
  <2>3. CASE step = "inJson" /\ lastError' = status
    BY <2>1, <2>3 DEF AgreeInv, Agrees, Results
  <2> QED BY <1>14, <2>2, <2>3 DEF JsonEnd, Between
<1>15. CASE PrintfIgnored \/ PrintfText
  <2>1. step' \in EntrySteps /\ UNCHANGED <<type, status>>
    BY <1>15 DEF PrintfIgnored, PrintfText, NameStep, EntrySteps, GoTo, TextStays, textVars
  <2> QED BY <2>1, GoingOnAgrees
<1>16. CASE PrintfNumber
  <2>1. step' = "printed" /\ type' = "JsonString" /\ UNCHANGED status
    BY <1>16 DEF PrintfNumber, TextStays, textVars
  <2> QED BY <2>1 DEF AgreeInv
<1>17. CASE PrintfString
  <2>1. step' = "printed" /\ type # "None" /\ UNCHANGED <<type, status>>
    BY <1>17 DEF PrintfString, TextStays, textVars
  <2> QED BY <2>1 DEF AgreeInv
<1>18. CASE PrintfNoString
  <2>1. step = "asString" /\ step' = "returned" /\ UNCHANGED <<type, status, lastError>>
    BY <1>18 DEF PrintfNoString, Between, GoTo, TextStays, textVars
  <2> QED BY <2>1 DEF AgreeInv, Agrees
<1>19. CASE PrintfEnds
  <2>1. /\ step = "printed" /\ step' = "returned" /\ lastError' = "SUCCESS"
        /\ UNCHANGED <<type, status>>
    BY <1>19 DEF PrintfEnds, Between
  <2> QED BY <2>1 DEF AgreeInv, Agrees
<1>20. CASE PrintfFails
  <2>1. /\ step' = "returned" /\ type' = "None" /\ lastError' = status
        /\ status # "SUCCESS" /\ UNCHANGED status
    BY <1>20 DEF PrintfFails, Failed, TextStays, textVars
  <2> QED BY <2>1 DEF AgreeInv, Agrees, Results
<1> QED
  BY <1>1, <1>2, <1>3, <1>4, <1>5, <1>6, <1>7, <1>8, <1>9, <1>10, <1>11, <1>12, <1>13, <1>14,
     <1>15, <1>16, <1>17, <1>18, <1>19, <1>20
  DEF ValueStep

LEMMA NextAgrees ==
  ASSUME AgreeInv, CallInv, [Next]_vars
  PROVE  AgreeInv'
<1>1. CASE Begin
  BY <1>1 DEF Begin, AgreeInv, textVars
<1>5. CASE Clear
  BY <1>5 DEF Clear, AgreeInv, Results
<1>2. CASE ValueStep
  BY <1>2, StepAgrees
<1>3. CASE Set
  <2>1. step = "idle" /\ UNCHANGED <<step, type, status>>
    BY <1>3 DEF Set, textVars, callVars
  <2> QED BY <2>1 DEF AgreeInv
<1>4. CASE UNCHANGED vars
  BY <1>4 DEF vars, textVars, valueVars, callVars, AgreeInv, Agrees
<1> QED BY <1>1, <1>2, <1>3, <1>4, <1>5 DEF Next

\* ValueType_None is returned exactly when LastError is not ERROR_SUCCESS, on
\* every path of AddValueWithMapName, AddValueWithMapInfo, AddValue,
\* AddCurrentValueAsJson and AddProperty with a printf format: what their callers ASSERT.
THEOREM TypeAgrees == Spec => []TypeAgreesWithError
<1>1. AgreeInv => TypeAgreesWithError
  BY DEF AgreeInv, Agrees, TypeAgreesWithError
<1> QED BY <1>1, InitAgrees, NextAgrees, InitCallInv, CallInvIsKept, PTL DEF Spec

-----------------------------------------------------------------------------
(***************************************************************************)
(* What an append leaves in its buffer, character by character.            *)
(***************************************************************************)
\* What AppendStringAsJson has written of the escapes: a quote and those of the
\* characters that it has read, up to its pointer.
EscapesWritten ==
    LET s == text[append.to]
        u == Joined(Escapes(append.chars))[append.next]
        b == Len(append.before)
    IN  /\ append.offset + append.next = b + 1 + Len(u)
        /\ s[b + 1] = QuoteMark
        /\ \A k \in 1 .. Len(u) : s[b + 1 + k] = u[k]

JsonInv == Appending /\ append.fn = "json" /\ append.begun => EscapesWritten

\* The string between its quotes.
Quoted(chars) == <<QuoteMark>> \o Joined(Escapes(chars))[Len(chars)] \o <<QuoteMark>>

\* What an append that succeeds has put after what was there before.
Whole(fn, chars) == IF fn = "json" THEN Quoted(chars) ELSE chars

\* The append goes on: only AppendStringAsJson has changed its buffer.
GoesOn ==
    /\ append' \in AppendCall
    /\ append'.fn = append.fn /\ append'.to = append.to /\ append'.chars = append.chars
    /\ append'.before = append.before /\ append'.count = append.count
    /\ append.fn # "json" => text' = text
    /\ text' \in [Buffers -> Seq(Stored)]
    /\ \A b \in Buffers : b # append.to => text'[b] = text[b]

\* It ends, and has made its text whole or, if it failed or if AppendMbcs was
\* given no bytes, has not changed it.
Ends ==
    /\ append' = NoAppend
    /\ \/ text' = text /\ (status' # "SUCCESS" \/ (append.fn = "mbcs" /\ append.count = 0))
       \/ /\ status' = "SUCCESS"
          /\ text' = [text EXCEPT ![append.to] = append.before \o Whole(append.fn, append.chars)]
          /\ append.before \o Whole(append.fn, append.chars) \in Seq(Stored)

-----------------------------------------------------------------------------
LEMMA EscapedFacts ==
  ASSUME NEW chars \in Seq(Characters), NEW n \in 0 .. Len(chars)
  PROVE  /\ Joined(Escapes(chars))[n] \in Seq(Characters)
         /\ Len(Joined(Escapes(chars))[n]) \in Nat
<1>1. Escapes(chars) \in Seq(Seq(Characters)) /\ Len(Escapes(chars)) = Len(chars)
  BY EscapesAre
<1>2. Joined(Escapes(chars))[n] \in Seq(Characters)
  <2> HIDE DEF Escapes
  <2> QED BY <1>1, JoinedIs
<1> QED BY <1>2, LenProperties

\* One more escape.
LEMMA EscapedNext ==
  ASSUME NEW chars \in Seq(Characters), NEW n \in 0 .. Len(chars), n < Len(chars)
  PROVE  LET u == Joined(Escapes(chars))
             e == JsonEscape(chars[n + 1])
         IN  /\ Len(u[n + 1]) = Len(u[n]) + Len(e)
             /\ \A i \in 1 .. Len(u[n]) : u[n + 1][i] = u[n][i]
             /\ \A i \in 1 .. Len(e) : u[n + 1][Len(u[n]) + i] = e[i]
<1> DEFINE ss == Escapes(chars)
<1>1. ss \in Seq(Seq(Characters)) /\ Len(ss) = Len(chars) /\ Len(chars) \in Nat
  BY EscapesAre, LenProperties
<1>2. PICK k \in 1 .. Len(chars) : k = n + 1 /\ k - 1 = n
  BY <1>1
<1>3. ss[k] = JsonEscape(chars[k])
  BY EscapesAre
<1> HIDE DEF ss
<1>4. /\ Len(Joined(ss)[k]) = Len(Joined(ss)[k - 1]) + Len(ss[k])
      /\ \A i \in 1 .. Len(Joined(ss)[k - 1]) : Joined(ss)[k][i] = Joined(ss)[k - 1][i]
      /\ \A i \in 1 .. Len(ss[k]) : Joined(ss)[k][Len(Joined(ss)[k - 1]) + i] = ss[k][i]
  <2>1. k \in 1 .. Len(ss)
    BY <1>1
  <2> QED BY <1>1, <2>1, JoinedStep, ZenonT(40)
<1> QED BY <1>2, <1>3, <1>4 DEF ss

\* The first quote.
LEMMA JsonBeginsIs ==
  ASSUME TextInv, Appending, JsonBegins, ~OutOfMemory
  PROVE  EscapesWritten'
<1> DEFINE old == text[append.to]
           offset == Len(old) + 1
           n == BaseSize + offset
           q == <<QuoteMark>>
           r == Resized(n, offset, q)
<1>1. /\ append \in AppendCall /\ append.next = 0 /\ old = append.before
      /\ append.to \in Buffers /\ append.chars \in Seq(Characters)
      /\ text \in [Buffers -> Seq(Stored)]
  BY CallFacts DEF JsonBegins, Runs, TextInv, Progress, TextType
<1>2. SetText(r) /\ append' = [append EXCEPT !.begun = TRUE, !.offset = offset]
  BY DEF JsonBegins, Size, BaseSize
<1>3. /\ Len(old) \in Nat /\ Len(append.chars) \in Nat /\ n = Len(append.chars) + 1 + offset
      /\ n \in Nat /\ offset \in Nat \ {0} /\ offset \in 1 .. n
  <2>1. Len(old) \in Nat /\ Len(append.chars) \in Nat
    BY CallFacts
  <2>2. n = Len(append.chars) + 1 + offset
    BY DEF BaseSize
  <2>3. \A i, j \in Nat : /\ i + 1 \in Nat \ {0} /\ j + 1 + (i + 1) \in Nat
                          /\ i + 1 \in 1 .. j + 1 + (i + 1)
    OBVIOUS
  <2> QED BY <2>1, <2>2, <2>3
<1>4. q \in Seq(Characters) /\ Len(q) = 1 /\ q[1] = QuoteMark
  BY QuoteIsCharacter
<1> HIDE DEF q
<1>5. r[offset] = QuoteMark
  <2> HIDE DEF n, offset
  <2>1. /\ r \in Seq(Stored) /\ Len(r) = n
        /\ \A k \in 1 .. n : r[k] =
             IF k \in offset .. offset + Len(q) - 1 THEN q[k - offset + 1]
             ELSE IF k <= Len(text[append.to]) THEN text[append.to][k]
             ELSE Unwritten
    <3>1. n \in Nat /\ offset \in Nat \ {0} /\ q \in Seq(Characters)
      BY <1>3, <1>4
    <3> QED BY <3>1, ResizedResult
  <2>2. offset \in offset .. offset + Len(q) - 1 /\ offset - offset + 1 = 1
    BY <1>3, <1>4
  <2>3. r[offset] = q[offset - offset + 1]
    BY <1>3, <2>1, <2>2
  <2> QED BY <1>4, <2>2, <2>3
<1>6. /\ append'.to = append.to /\ append'.chars = append.chars /\ append'.next = 0
      /\ append'.before = append.before /\ append'.offset = offset
  BY <1>1, <1>2 DEF AppendCall
<1>7. text'[append.to] = r
  BY <1>1, <1>2 DEF SetText
<1>8. Joined(Escapes(append.chars))[0] = << >>
  BY <1>1, EscapesAre, JoinedIs
<1> HIDE DEF r, n, old
<1>9. offset + 0 = Len(append.before) + 1 + 0 /\ Len(append.before) + 1 = offset
  BY <1>1, <1>3
<1> HIDE DEF offset
<1>10. Len(<< >>) = 0 /\ \A k \in 1 .. 0 : FALSE
  OBVIOUS
<1> QED BY <1>5, <1>6, <1>7, <1>8, <1>9, <1>10 DEF EscapesWritten

\* Where what has been written, and the next escape, are: b characters were
\* there before, len have been written, and the escape has n.
LEMMA EscapeArithmetic ==
  ASSUME NEW b \in Nat, NEW o \in Nat, NEW x \in Nat, NEW m \in Nat, NEW n \in Nat, NEW len \in Nat,
         o + x = b + 1 + len, x < m, n > 0
  PROVE  /\ o + x + 1 = b + 1 + len + 1
         /\ o + n - 1 + (x + 1) = b + 1 + (len + n)
         /\ b + 1 \in 1 .. m + 1 + (o + n - 1)
         /\ b + 1 \notin o + x + 1 .. o + x + 1 + n - 1 /\ b + 1 <= m + 1 + o
         /\ \A k \in 1 .. len : /\ b + 1 + k \in 1 .. m + 1 + (o + n - 1)
                                /\ b + 1 + k \notin o + x + 1 .. o + x + 1 + n - 1
                                /\ b + 1 + k <= m + 1 + o
         /\ \A k \in 1 .. n : /\ b + 1 + (len + k) \in 1 .. m + 1 + (o + n - 1)
                              /\ b + 1 + (len + k) \in o + x + 1 .. o + x + 1 + n - 1
                              /\ b + 1 + (len + k) - (o + x + 1) + 1 = k
OBVIOUS

\* A sequence that is put together of two, at an offset of another.
BothAt(len, n, at, u, v, e, s) ==
    /\ len \in Nat /\ n \in Nat /\ at \in Nat
    /\ \A k \in 1 .. len : v[k] = u[k] /\ s[at + k] = u[k]
    /\ \A k \in 1 .. n : v[len + k] = e[k] /\ s[at + (len + k)] = e[k]

LEMMA JoinedAtOffset ==
  ASSUME NEW len, NEW n, NEW at, NEW u, NEW v, NEW e, NEW s, BothAt(len, n, at, u, v, e, s)
  PROVE  \A k \in 1 .. len + n : s[at + k] = v[k]
<1>0. /\ len \in Nat /\ n \in Nat /\ at \in Nat
      /\ \A k \in 1 .. len : v[k] = u[k] /\ s[at + k] = u[k]
      /\ \A k \in 1 .. n : v[len + k] = e[k] /\ s[at + (len + k)] = e[k]
  BY DEF BothAt
<1> SUFFICES ASSUME NEW k \in 1 .. len + n PROVE s[at + k] = v[k]
  OBVIOUS
<1>1. CASE k <= len
  BY <1>0, <1>1
<1>2. CASE ~(k <= len)
  <2>1. PICK j \in 1 .. n : k = len + j
    <3>1. k - len \in 1 .. n /\ k = len + (k - len)
      BY <1>0, <1>2
    <3> QED BY <3>1
  <2>2. v[len + j] = e[j] /\ s[at + (len + j)] = e[j]
    BY <1>0
  <2> QED BY <2>1, <2>2
<1> QED BY <1>1, <1>2

\* The characters that are written from `first` on, counted otherwise.
LEMMA WrittenAt ==
  ASSUME NEW b \in Nat, NEW was \in Nat, NEW len \in Nat, NEW n \in Nat, NEW first \in Nat, NEW e, NEW r,
         \A k \in 1 .. len : /\ b + 1 + (was + k) \in 1 .. n
                             /\ b + 1 + (was + k) \in first .. first + len - 1
                             /\ b + 1 + (was + k) - first + 1 = k,
         \A k \in first .. first + len - 1 : k \in 1 .. n => r[k] = e[k - first + 1]
  PROVE  \A k \in 1 .. len : r[b + 1 + (was + k)] = e[k]
<1> SUFFICES ASSUME NEW k \in 1 .. len PROVE r[b + 1 + (was + k)] = e[k]
  OBVIOUS
<1>1. PICK at \in Nat : at = b + 1 + (was + k)
  OBVIOUS
<1>2. at \in 1 .. n /\ at \in first .. first + len - 1 /\ at - first + 1 = k
  BY <1>1
<1>3. r[at] = e[at - first + 1]
  BY <1>2
<1> QED BY <1>1, <1>2, <1>3

\* An escape.
LEMMA JsonCharacterIs ==
  ASSUME TextInv, Appending, EscapesWritten, JsonCharacter, ~OutOfMemory
  PROVE  EscapesWritten'
<1> DEFINE old   == text[append.to]
           e     == JsonEscape(append.chars[append.next + 1])
           u     == Joined(Escapes(append.chars))[append.next]
           v     == Joined(Escapes(append.chars))[append.next + 1]
           b     == Len(append.before)
           o     == append.offset
           x     == append.next
           m     == Len(append.chars)
           o2    == o + Len(e) - 1
           first == o + x + 1
           n     == m + 1 + o2
           r     == Resized(n, first, e)
<1>1. /\ append \in AppendCall /\ append.to \in Buffers /\ append.chars \in Seq(Characters)
      /\ text \in [Buffers -> Seq(Stored)]
      /\ b \in Nat /\ o \in Nat /\ x \in Nat /\ m \in Nat /\ x < m
      /\ append.fn = "json" /\ append.begun
  BY CallFacts DEF JsonCharacter, Runs, TextInv, TextType
<1>2. Len(old) = m + 1 + o
  BY <1>1 DEF TextInv, Progress, BaseSize
<1>3. SetText(r) /\ append' = [append EXCEPT !.offset = o2, !.next = @ + 1]
  BY DEF JsonCharacter, BaseSize
<1>4. o + x = b + 1 + Len(u) /\ old[b + 1] = QuoteMark /\ \A k \in 1 .. Len(u) : old[b + 1 + k] = u[k]
  BY DEF EscapesWritten
<1>5. e \in Seq(Characters) /\ Len(e) \in Nat \ {0}
  <2>1. append.chars[append.next + 1] \in Characters
    BY <1>1, CallFacts, ElementOfSeq
  <2> QED BY <2>1, EscapeIsText
<1>6. /\ Len(v) = Len(u) + Len(e) /\ Len(u) \in Nat
      /\ \A i \in 1 .. Len(u) : v[i] = u[i]
      /\ \A i \in 1 .. Len(e) : v[Len(u) + i] = e[i]
  <2>1. x \in 0 .. Len(append.chars) /\ x < Len(append.chars)
    BY <1>1
  <2>2. Len(u) \in Nat
    BY <1>1, <2>1, EscapedFacts
  <2> QED BY <1>1, <2>1, <2>2, EscapedNext
<1> DEFINE len == Len(e)
           was == Len(u)
<1> HIDE DEF e, u, v, b, o, x, m
<1>7. /\ first = b + 1 + was + 1
      /\ o2 + (x + 1) = b + 1 + (was + len)
      /\ b + 1 \in 1 .. n /\ b + 1 \notin first .. first + len - 1 /\ b + 1 <= Len(old)
      /\ \A k \in 1 .. was : /\ b + 1 + k \in 1 .. n /\ b + 1 + k \notin first .. first + len - 1
                             /\ b + 1 + k <= Len(old)
      /\ \A k \in 1 .. len : /\ b + 1 + (was + k) \in 1 .. n
                             /\ b + 1 + (was + k) \in first .. first + len - 1
                             /\ b + 1 + (was + k) - first + 1 = k
  <2>1. len \in Nat /\ len > 0 /\ was \in Nat /\ o + x = b + 1 + was
    BY <1>4, <1>5, <1>6
  <2> HIDE DEF len, was
  <2>2. /\ o + x + 1 = b + 1 + was + 1
        /\ o + len - 1 + (x + 1) = b + 1 + (was + len)
        /\ b + 1 \in 1 .. m + 1 + (o + len - 1)
        /\ b + 1 \notin o + x + 1 .. o + x + 1 + len - 1 /\ b + 1 <= m + 1 + o
        /\ \A k \in 1 .. was : /\ b + 1 + k \in 1 .. m + 1 + (o + len - 1)
                               /\ b + 1 + k \notin o + x + 1 .. o + x + 1 + len - 1
                               /\ b + 1 + k <= m + 1 + o
        /\ \A k \in 1 .. len : /\ b + 1 + (was + k) \in 1 .. m + 1 + (o + len - 1)
                               /\ b + 1 + (was + k) \in o + x + 1 .. o + x + 1 + len - 1
                               /\ b + 1 + (was + k) - (o + x + 1) + 1 = k
    BY <1>1, <2>1, EscapeArithmetic
  <2>3. o2 = o + len - 1 /\ n = m + 1 + (o + len - 1) /\ first = o + x + 1
    BY DEF len
  <2> HIDE DEF o2, n, first
  <2> QED BY <1>2, <2>2, <2>3
<1>8. n \in Nat /\ first \in Nat \ {0}
  <2>1. len \in Nat /\ len > 0
    BY <1>5
  <2> HIDE DEF len
  <2> QED BY <1>1, <2>1 DEF len
<1>9. \A k \in 1 .. n : r[k] = IF k \in first .. first + len - 1 THEN e[k - first + 1]
                               ELSE IF k <= Len(old) THEN old[k] ELSE Unwritten
  <2> HIDE DEF n, first
  <2> QED BY <1>5, <1>8, ResizedResult
<1> HIDE DEF r, n, first, o2, len, was, old
<1>10. r[b + 1] = QuoteMark
  BY <1>4, <1>7, <1>9
<1>11. \A k \in 1 .. was : r[b + 1 + k] = u[k]
  <2> SUFFICES ASSUME NEW k \in 1 .. was PROVE r[b + 1 + k] = u[k]
    OBVIOUS
  <2>1. r[b + 1 + k] = old[b + 1 + k]
    BY <1>7, <1>9
  <2>2. old[b + 1 + k] = u[k]
    BY <1>4 DEF was
  <2> QED BY <2>1, <2>2
<1>12. \A k \in 1 .. len : r[b + 1 + (was + k)] = e[k]
  <2>1. b \in Nat /\ was \in Nat /\ len \in Nat /\ n \in Nat /\ first \in Nat
    BY <1>1, <1>5, <1>6, <1>8 DEF was, len
  <2>2. \A k \in 1 .. len : /\ b + 1 + (was + k) \in 1 .. n
                            /\ b + 1 + (was + k) \in first .. first + len - 1
                            /\ b + 1 + (was + k) - first + 1 = k
    BY <1>7
  <2>3. \A k \in first .. first + len - 1 : k \in 1 .. n => r[k] = e[k - first + 1]
    BY <1>9
  <2> QED BY <2>1, <2>2, <2>3, WrittenAt
<1>13. \A k \in 1 .. was + len : r[b + 1 + k] = v[k]
  <2>1. was \in Nat /\ len \in Nat /\ b + 1 \in Nat
    BY <1>1, <1>5, <1>6 DEF was, len
  <2>2. \A k \in 1 .. was : v[k] = u[k] /\ r[b + 1 + k] = u[k]
    BY <1>6, <1>11 DEF was
  <2>3. \A k \in 1 .. len : v[was + k] = e[k] /\ r[b + 1 + (was + k)] = e[k]
    BY <1>6, <1>12 DEF was, len
  <2> DEFINE at == b + 1
  <2> HIDE DEF at
  <2>4. \A k \in 1 .. was + len : r[at + k] = v[k]
    <3>1. BothAt(was, len, at, u, v, e, r)
      BY <2>1, <2>2, <2>3 DEF BothAt, at
    <3> QED BY <3>1, JoinedAtOffset
  <2> QED BY <2>4 DEF at
<1>14. /\ append'.to = append.to /\ append'.chars = append.chars /\ append'.next = x + 1
       /\ append'.before = append.before /\ append'.offset = o2
  BY <1>1, <1>3 DEF AppendCall, x
<1>15. text'[append.to] = r
  BY <1>1, <1>3 DEF SetText
<1>16. Len(v) = was + len
  BY <1>6 DEF was, len
<1>17. v = Joined(Escapes(append.chars))[x + 1]
  BY DEF v, x
<1> QED BY <1>7, <1>10, <1>13, <1>14, <1>15, <1>16, <1>17 DEF EscapesWritten, b

\* t is a and then b.
Follows(t, a, b) ==
    /\ Len(t) = Len(a) + Len(b)
    /\ \A i \in 1 .. Len(a) : t[i] = a[i]
    /\ \A i \in 1 .. Len(b) : t[Len(a) + i] = b[i]

LEMMA FollowsIs ==
  ASSUME NEW V, NEW a \in Seq(V), NEW b \in Seq(V)
  PROVE  Follows(a \o b, a, b)
BY ConcatIs DEF Follows

\* A text that is put together of a beginning, a quote, a middle and a quote.
LEMMA QuotedIs ==
  ASSUME NEW V, NEW before \in Seq(V), NEW u \in Seq(V), NEW q \in V, NEW s \in Seq(V),
         Len(s) = Len(before) + 2 + Len(u),
         \A k \in 1 .. Len(before) : s[k] = before[k],
         s[Len(before) + 1] = q, s[Len(s)] = q,
         \A k \in 1 .. Len(u) : s[Len(before) + 1 + k] = u[k]
  PROVE  s = before \o (<<q>> \o u \o <<q>>)
<1> DEFINE one == <<q>>
           b == Len(before)
           len == Len(u)
           w == one \o u \o one
           t == before \o w
<1>1. one \in Seq(V) /\ Len(one) = 1 /\ one[1] = q /\ b \in Nat /\ len \in Nat
  BY LenProperties
<1> HIDE DEF one
<1>2. /\ w \in Seq(V) /\ Len(w) = len + 2 /\ w[1] = q /\ w[len + 2] = q
      /\ \A k \in 1 .. len : w[1 + k] = u[k]
  <2> DEFINE a == one \o u
  <2>1. /\ a \in Seq(V) /\ Len(a) = 1 + len /\ a[1] = q /\ \A k \in 1 .. len : a[1 + k] = u[k]
    <3>2. one \o u \in Seq(V)
      BY <1>1, ConcatProperties
    <3>1. Follows(one \o u, one, u)
      BY <1>1, FollowsIs
    <3> QED BY <1>1, <3>1, <3>2 DEF Follows
  <2> HIDE DEF a
  <2>2. /\ a \o one \in Seq(V) /\ Len(a \o one) = 1 + len + 1
        /\ \A k \in 1 .. 1 + len : (a \o one)[k] = a[k]
        /\ (a \o one)[1 + len + 1] = q
    <3>2. a \o one \in Seq(V)
      BY <1>1, <2>1, ConcatProperties
    <3>1. Follows(a \o one, a, one)
      BY <1>1, <2>1, FollowsIs
    <3> QED BY <1>1, <2>1, <3>1, <3>2 DEF Follows
  <2>3. /\ 1 \in 1 .. 1 + len /\ 1 + len + 1 = len + 2
        /\ \A k \in 1 .. len : 1 + k \in 1 .. 1 + len
    BY <1>1
  <2>4. w = a \o one
    BY DEF a
  <2> HIDE DEF w, len
  <2> QED BY <2>1, <2>2, <2>3, <2>4
<1> HIDE DEF w
<1>3. /\ t \in Seq(V) /\ Len(t) = b + (len + 2)
      /\ \A k \in 1 .. b : t[k] = before[k]
      /\ \A k \in 1 .. len + 2 : t[b + k] = w[k]
  <2>2. t \in Seq(V)
    BY <1>2, ConcatProperties
  <2>1. Follows(t, before, w)
    BY <1>2, FollowsIs
  <2> HIDE DEF t, len
  <2> QED BY <1>2, <2>1, <2>2 DEF Follows
<1> HIDE DEF t
<1>4. Len(s) = Len(t) /\ b + 2 + len = b + (len + 2) /\ Len(s) = b + (len + 2)
  BY <1>1, <1>3
<1>5. \A k \in 1 .. len + 2 : s[b + k] = w[k]
  <2> SUFFICES ASSUME NEW k \in 1 .. len + 2 PROVE s[b + k] = w[k]
    OBVIOUS
  <2>1. CASE k = 1
    BY <1>2, <2>1
  <2>2. CASE k = len + 2
    BY <1>2, <1>4, <2>2
  <2>3. CASE k # 1 /\ k # len + 2
    <3> HIDE DEF len, b
    <3>1. PICK j \in 1 .. len : k = 1 + j /\ b + 1 + j = b + k
      <4>1. k - 1 \in 1 .. len /\ k = 1 + (k - 1) /\ b + 1 + (k - 1) = b + k
        BY <1>1, <2>3
      <4> QED BY <4>1
    <3>2. w[1 + j] = u[j]
      BY <1>2
    <3>3. s[b + 1 + j] = u[j]
      BY DEF b, len
    <3> QED BY <3>1, <3>2, <3>3
  <2> QED BY <2>1, <2>2, <2>3
<1>6. \A k \in 1 .. Len(s) : s[k] = t[k]
  <2> SUFFICES ASSUME NEW k \in 1 .. Len(s) PROVE s[k] = t[k]
    OBVIOUS
  <2>1. CASE k <= b
    BY <1>1, <1>3, <2>1
  <2>2. CASE ~(k <= b)
    <3> HIDE DEF len, b
    <3>1. PICK j \in 1 .. len + 2 : k = b + j
      <4>1. k - b \in 1 .. len + 2 /\ k = b + (k - b)
        BY <1>1, <1>4, <2>2
      <4> QED BY <4>1
    <3>2. s[b + j] = w[j] /\ t[b + j] = w[j]
      BY <1>3, <1>5
    <3> QED BY <3>1, <3>2
  <2> QED BY <2>1, <2>2
<1>7. s = t
  BY <1>3, <1>4, <1>6, SeqEqual
<1> QED BY <1>7 DEF t, w, one

-----------------------------------------------------------------------------
\* The last quote.
LEMMA JsonEndsIs ==
  ASSUME TextInv, Appending, EscapesWritten, JsonEnds
  PROVE  /\ append.before \o Quoted(append.chars) \in Seq(Stored)
         /\ SetText(append.before \o Quoted(append.chars))
<1> DEFINE old == text[append.to]
           u   == Joined(Escapes(append.chars))[Len(append.chars)]
           b   == Len(append.before)
           m   == Len(append.chars)
           p   == append.offset + append.next + 1
           s   == [old EXCEPT ![p] = QuoteMark]
<1>1. /\ append.to \in Buffers /\ append.chars \in Seq(Characters)
      /\ append.before \in Seq(Stored) /\ old \in Seq(Stored) /\ Len(old) \in Nat
      /\ b \in Nat /\ append.offset \in Nat /\ m \in Nat /\ append.next = m
      /\ append.fn = "json" /\ append.begun
  BY CallFacts DEF JsonEnds, Runs
<1>2. Len(old) = m + 1 + append.offset /\ Begins(append.before, old)
  BY <1>1 DEF TextInv, Progress, BaseSize
<1>3. u \in Seq(Characters) /\ Len(u) \in Nat
  <2>1. m \in 0 .. Len(append.chars)
    BY <1>1
  <2> QED BY <1>1, <2>1, EscapedFacts
<1>4. /\ append.offset + m = b + 1 + Len(u)
      /\ old[b + 1] = QuoteMark
      /\ \A k \in 1 .. Len(u) : old[b + 1 + k] = u[k]
  BY <1>1 DEF EscapesWritten
<1>5. SetText(s)
  BY DEF JsonEnds
<1>6. p = Len(old) /\ p = b + 2 + Len(u) /\ p \in 1 .. Len(old)
  <2> DEFINE o == append.offset
             l == Len(u)
             n == Len(old)
  <2>1. o \in Nat /\ m \in Nat /\ b \in Nat /\ l \in Nat /\ n \in Nat /\ n = m + 1 + o
        /\ o + m = b + 1 + l /\ p = o + m + 1
    BY <1>1, <1>2, <1>3, <1>4
  <2> HIDE DEF o, m, b, l, n, p
  <2>2. p = n /\ p = b + 2 + l /\ p \in 1 .. n
    BY <2>1
  <2> QED BY <2>2 DEF n, l
<1>7. QuoteMark \in Stored /\ u \in Seq(Stored)
  <2>1. Characters \subseteq Stored
    BY DEF Stored
  <2> QED BY <1>3, <2>1, QuoteIsCharacter, SeqMonotonic
<1> HIDE DEF u, p
<1>8. /\ s \in Seq(Stored) /\ Len(s) = Len(old)
      /\ \A k \in 1 .. Len(old) : s[k] = IF k = p THEN QuoteMark ELSE old[k]
  <2> HIDE DEF old
  <2>1. old \in Seq(Stored) /\ p \in 1 .. Len(old) /\ QuoteMark \in Stored
    BY <1>1, <1>6, <1>7
  <2> QED BY <2>1, ExceptSeq
<1>9. \A k \in 1 .. b : s[k] = append.before[k]
  <2> SUFFICES ASSUME NEW k \in 1 .. b PROVE s[k] = append.before[k]
    OBVIOUS
  <2>1. k \in 1 .. Len(old) /\ k # p
    BY <1>1, <1>3, <1>6
  <2>2. old[k] = append.before[k]
    BY <1>2 DEF Begins
  <2> QED BY <1>8, <2>1, <2>2
<1> HIDE DEF old, s, b, m
<1>10. s[b + 1] = QuoteMark /\ s[Len(s)] = QuoteMark
  <2>1. b + 1 \in 1 .. Len(old) /\ Len(old) \in 1 .. Len(old)
    BY <1>1, <1>3, <1>6
  <2>2. s[b + 1] = IF b + 1 = p THEN QuoteMark ELSE old[b + 1]
    BY <1>8, <2>1
  <2>3. s[Len(old)] = IF Len(old) = p THEN QuoteMark ELSE old[Len(old)]
    BY <1>8, <2>1
  <2> QED BY <1>4, <1>6, <1>8, <2>2, <2>3
<1>11. \A k \in 1 .. Len(u) : s[b + 1 + k] = u[k]
  <2> SUFFICES ASSUME NEW k \in 1 .. Len(u) PROVE s[b + 1 + k] = u[k]
    OBVIOUS
  <2>1. b + 1 + k \in 1 .. Len(old) /\ b + 1 + k # p
    BY <1>1, <1>3, <1>6
  <2>2. s[b + 1 + k] = old[b + 1 + k]
    <3>1. s[b + 1 + k] = IF b + 1 + k = p THEN QuoteMark ELSE old[b + 1 + k]
      BY <1>8, <2>1
    <3> QED BY <2>1, <3>1
  <2> QED BY <1>4, <2>2
<1>12. Len(s) = Len(append.before) + 2 + Len(u)
  BY <1>6, <1>8 DEF b
<1>13. s = append.before \o (<<QuoteMark>> \o u \o <<QuoteMark>>)
  BY <1>1, <1>7, <1>8, <1>9, <1>10, <1>11, <1>12, QuotedIs, ZenonT(40) DEF b
<1>14. s = append.before \o Quoted(append.chars)
  BY <1>13 DEF Quoted, u
<1> QED BY <1>5, <1>8, <1>14

\* An append that appends all of its text.
LEMMA AppendingAllEnds ==
  ASSUME TextInv, Appending, append.fn # "json", append' = NoAppend, status' = "SUCCESS",
         SetText(text[append.to] \o append.chars)
  PROVE  Ends
<1>1. /\ text[append.to] = append.before /\ append.before \in Seq(Stored)
      /\ append.chars \in Seq(Stored)
  BY CallFacts DEF TextInv, Progress
<1>2. append.before \o append.chars \in Seq(Stored)
  BY <1>1, ConcatProperties
<1> QED BY <1>1, <1>2 DEF Ends, Whole, SetText

\* One that fails.
LEMMA FailingEnds ==
  ASSUME append' = NoAppend, UNCHANGED text,
         status' # "SUCCESS" \/ (append.fn = "mbcs" /\ append.count = 0)
  PROVE  Ends
BY DEF Ends

\* One that waits for room.
LEMMA WaitingGoesOn ==
  ASSUME TextInv, Appending, UNCHANGED text, append.fn # "json",
         append' = append \/ append' = [append EXCEPT !.begun = TRUE]
  PROVE  GoesOn
<1>1. append \in AppendCall /\ text \in [Buffers -> Seq(Stored)]
  BY CallFacts DEF TextInv, TextType
<1>2. append' \in AppendCall /\ append'.fn = append.fn /\ append'.to = append.to
      /\ append'.chars = append.chars /\ append'.before = append.before
      /\ append'.count = append.count
  BY <1>1 DEF AppendCall
<1> QED BY <1>1, <1>2 DEF GoesOn

\* AppendStringAsJson on its way.
LEMMA JsonGoesOn ==
  ASSUME TextInv, Appending, TextInv', NEW s, SetText(s), NEW offset, NEW next, offset \in Nat, next \in Nat,
         append.fn = "json",
         append' = [append EXCEPT !.begun = TRUE, !.offset = offset, !.next = next]
  PROVE  GoesOn
<1>1. append \in AppendCall /\ text \in [Buffers -> Seq(Stored)] /\ append.to \in Buffers
  BY CallFacts DEF TextInv, TextType
<1>2. append' \in AppendCall /\ append'.fn = append.fn /\ append'.to = append.to
      /\ append'.chars = append.chars /\ append'.before = append.before
      /\ append'.count = append.count
  BY <1>1 DEF AppendCall
<1>3. text' \in [Buffers -> Seq(Stored)]
  BY DEF TextInv, TextType
<1>4. \A b \in Buffers : b # append.to => text'[b] = text[b]
  BY <1>1 DEF SetText
<1> QED BY <1>2, <1>3, <1>4 DEF GoesOn

\* Each step of an append.
LEMMA AppendStepIs ==
  ASSUME TextInv, JsonInv, Appending, TextNext
  PROVE  (GoesOn \/ Ends) /\ JsonInv'
<1>0. TextInv' /\ append \in AppendCall /\ append.next \in Nat
  BY TextStepIsSafe, CallFacts
<1>1. ASSUME Ends PROVE JsonInv'
  BY <1>1 DEF Ends, JsonInv, Appending
<1>2. ASSUME GoesOn, append.fn # "json" PROVE JsonInv'
  BY <1>2 DEF GoesOn, JsonInv
<1>3. ASSUME OutOfMemory PROVE Ends
  BY <1>3, FailingEnds DEF OutOfMemory, Returns
<1>4. CASE Wide
  <2>1. Ends
    BY <1>3, <1>4, AppendingAllEnds DEF Wide, Runs, Returns
  <2> QED BY <1>1, <2>1
<1>5. CASE PrintfFits
  <2>1. Ends
    BY <1>5, AppendingAllEnds DEF PrintfFits, Runs, Returns
  <2> QED BY <1>1, <2>1
<1>6. CASE PrintfGrows
  <2>1. append.fn = "printf"
    BY <1>6 DEF PrintfGrows, Runs
  <2>2. OutOfMemory \/ UNCHANGED <<text, append, status>>
    BY <1>6 DEF PrintfGrows
  <2> QED BY <1>1, <1>2, <1>3, <2>1, <2>2, WaitingGoesOn
<1>7. CASE MbcsReserves
  <2>1. append.fn = "mbcs" /\ UNCHANGED text
    BY <1>7 DEF MbcsReserves, Runs
  <2>2. \/ append' = NoAppend /\ append.count = 0
        \/ append' = [append EXCEPT !.begun = TRUE]
    BY <1>7 DEF MbcsReserves, Returns
  <2>3. Ends \/ GoesOn
    BY <2>1, <2>2, FailingEnds, WaitingGoesOn
  <2> QED BY <1>1, <1>2, <2>1, <2>3
<1>8. CASE MbcsFits
  <2>1. Ends
    BY <1>8, AppendingAllEnds DEF MbcsFits, Converting, Runs, Returns
  <2> QED BY <1>1, <2>1
<1>9. CASE MbcsGrows
  <2>1. append.fn = "mbcs"
    BY <1>9 DEF MbcsGrows, Converting, Runs
  <2>2. OutOfMemory \/ UNCHANGED <<text, append, status>>
    BY <1>9 DEF MbcsGrows
  <2> QED BY <1>1, <1>2, <1>3, <2>1, <2>2, WaitingGoesOn
<1>10. CASE MbcsFails \/ MbcsAsserts
  <2>1. Ends
    BY <1>10, FailingEnds DEF MbcsFails, MbcsAsserts, Returns
  <2> QED BY <1>1, <2>1
<1>11. CASE JsonBegins
  <2>1. append.fn = "json"
    BY <1>11 DEF JsonBegins, Runs
  <2>2. CASE OutOfMemory
    BY <1>1, <1>3, <2>2
  <2>3. CASE ~OutOfMemory
    <3>1. EscapesWritten'
      BY <1>11, <2>3, JsonBeginsIs
    <3>2. PICK s, offset : SetText(s) /\ append' = [append EXCEPT !.begun = TRUE, !.offset = offset]
                           /\ offset = Size + 1
      BY <1>11, <2>3 DEF JsonBegins
    <3>3. offset \in Nat
      BY <3>2, CallFacts DEF Size
    <3>4. append' = [append EXCEPT !.begun = TRUE, !.offset = offset, !.next = append.next]
      BY <1>0, <3>2 DEF AppendCall
    <3>5. GoesOn
      BY <1>0, <2>1, <3>2, <3>3, <3>4, JsonGoesOn
    <3> QED BY <3>1, <3>5 DEF JsonInv
  <2> QED BY <2>2, <2>3
<1>12. CASE JsonCharacter
  <2>1. append.fn = "json" /\ append.begun = TRUE /\ EscapesWritten
    BY <1>0, <1>12 DEF JsonCharacter, Runs, JsonInv, AppendCall
  <2>2. CASE OutOfMemory
    BY <1>1, <1>3, <2>2
  <2>3. CASE ~OutOfMemory
    <3>1. EscapesWritten'
      BY <1>12, <2>1, <2>3, JsonCharacterIs
    <3>2. PICK s, offset : /\ SetText(s)
                           /\ append' = [append EXCEPT !.offset = offset, !.next = @ + 1]
      BY <1>12, <2>3 DEF JsonCharacter
    <3>3. append'.fn = append.fn /\ append'.offset = offset
      BY <1>0, <3>2 DEF AppendCall
    <3>4. offset \in Nat
      <4>1. append' # NoAppend
        BY <2>1, <3>3 DEF NoAppend
      <4>2. append' \in AppendCall
        BY <1>0, <4>1 DEF TextInv, TextType, Appending
      <4> QED BY <3>3, <4>2 DEF AppendCall
    <3>5. append' = [append EXCEPT !.begun = TRUE, !.offset = offset, !.next = append.next + 1]
      BY <1>0, <2>1, <3>2 DEF AppendCall
    <3>6. append.next + 1 \in Nat
      BY <1>0
    <3>7. GoesOn
      BY <1>0, <2>1, <3>2, <3>4, <3>5, <3>6, JsonGoesOn
    <3> QED BY <3>1, <3>7 DEF JsonInv
  <2> QED BY <2>2, <2>3
<1>13. CASE JsonEnds
  <2>1. /\ append.fn = "json" /\ append.begun /\ EscapesWritten /\ append' = NoAppend
        /\ status' = "SUCCESS"
    BY <1>13 DEF JsonEnds, Runs, JsonInv, Returns
  <2>2. Ends
    BY <1>13, <2>1, JsonEndsIs DEF Ends, Whole, SetText
  <2> QED BY <1>1, <2>2
<1>14. CASE Reserved
  <2>1. Ends
    BY <1>3, <1>14, AppendingAllEnds DEF Reserved, Runs, Returns
  <2> QED BY <1>1, <2>1
<1> QED
  BY <1>4, <1>5, <1>6, <1>7, <1>8, <1>9, <1>10, <1>11, <1>12, <1>13, <1>14 DEF TextNext

LEMMA AppendsRun == TextNext => Appending
BY DEF TextNext, Wide, PrintfFits, PrintfGrows, MbcsReserves, MbcsFits, MbcsGrows, MbcsFails,
       MbcsAsserts, Converting, JsonBegins, JsonCharacter, JsonEnds, Reserved, Runs

LEMMA JsonInvIsKept ==
  ASSUME TextInv, JsonInv, [TextStep]_textVars
  PROVE  JsonInv'
<1>1. CASE TextNext
  BY <1>1, AppendsRun, AppendStepIs
<1>2. CASE ~Appending /\ BeginAnyAppend
  BY <1>2 DEF BeginAnyAppend, BeginAppend, JsonInv
<1>3. CASE ~Appending /\ (Truncate \/ Replace)
  BY <1>3 DEF Truncate, Replace, JsonInv, Appending
<1>4. CASE UNCHANGED textVars
  BY <1>4 DEF textVars, JsonInv, EscapesWritten, Appending
<1> QED BY <1>1, <1>2, <1>3, <1>4 DEF TextStep

\* An append that succeeds has put exactly its text after what was there, with
\* the escapes and the quotes of a JSON string if it was to; but AppendMbcs adds
\* nothing if it is given no bytes.
AppendsAsAsked ==
    [][Appending /\ ~Appending' /\ status' = "SUCCESS" =>
         \/ text' = [text EXCEPT ![append.to] = append.before \o Whole(append.fn, append.chars)]
         \/ append.fn = "mbcs" /\ append.count = 0 /\ text' = text]_textVars

\* So AppendStringAsJson leaves no hole and no wrong character where it resized
\* the buffer and moved its pointer, nor any other append where it grew.
THEOREM AppendsAreExact == TextSpec => AppendsAsAsked
<1>1. TextInv /\ [TextStep]_textVars => TextInv'
  BY TextInvIsKept
<1>2. TextInv /\ JsonInv /\ [TextStep]_textVars => JsonInv'
  BY JsonInvIsKept
<1>3. TextInv /\ JsonInv /\ [TextStep]_textVars => [Appending => GoesOn \/ Ends]_textVars
  <2> SUFFICES ASSUME TextInv, JsonInv, TextStep, Appending PROVE GoesOn \/ Ends
    OBVIOUS
  <2> QED BY AppendStepIs DEF TextStep
<1>4. [Appending => GoesOn \/ Ends]_textVars =>
        [Appending /\ ~Appending' /\ status' = "SUCCESS" =>
           \/ text' = [text EXCEPT ![append.to] = append.before \o Whole(append.fn, append.chars)]
           \/ append.fn = "mbcs" /\ append.count = 0 /\ text' = text]_textVars
  <2> SUFFICES ASSUME Appending => GoesOn \/ Ends, Appending, ~Appending', status' = "SUCCESS"
               PROVE  \/ text' = [text EXCEPT ![append.to] = append.before \o Whole(append.fn, append.chars)]
                      \/ append.fn = "mbcs" /\ append.count = 0 /\ text' = text
    OBVIOUS
  <2>1. ~GoesOn
    BY DEF GoesOn, Appending, AppendCall, NoAppend, Functions
  <2> QED BY <2>1 DEF Ends
<1>5. InitText => JsonInv
  BY DEF InitText, JsonInv, Appending
<1> QED BY <1>1, <1>2, <1>3, <1>4, <1>5, InitTextInv, PTL DEF TextSpec, TextStep, AppendsAsAsked

-----------------------------------------------------------------------------
(***************************************************************************)
(* What a value is shown as: every append is of characters, as the type of *)
(* its text promises.                                                      *)
(***************************************************************************)
\* The appends that a value may ask for.
Appends ==
    {a \in [fn: {"wide", "printf", "mbcs", "reserved"}, chars: Seq(Characters), count: Nat] :
        a.fn = "reserved" => Len(a.chars) <= a.count}

CleanAppends == {a \in Appends : a.chars \in Seq(CleanCharacters)}

\* What the appends for a text of type t are like.
AppendsFor(appends, t) ==
    /\ appends \in Seq(Appends)
    /\ t = "JsonCleanString" => appends \in Seq(CleanAppends)
    /\ t = "JsonLiteral" =>
         Len(appends) = 1 /\ appends[1].fn # "mbcs" /\ IsJsonLiteral(appends[1].chars)

LEMMA CleanTexts == Seq(CleanCharacters) \subseteq Seq(Characters)
BY CleanIsCharacters, SeqMonotonic

LEMMA PrintfIs ==
  ASSUME NEW chars \in Seq(Characters)
  PROVE  /\ Printf(chars) \in Appends /\ Printf(chars).fn = "printf" /\ Printf(chars).chars = chars
         /\ Write(chars) \in Appends /\ Write(chars).fn = "wide" /\ Write(chars).chars = chars
BY DEF Printf, Write, Appends

LEMMA CleanPrintfIs ==
  ASSUME NEW chars \in Seq(CleanCharacters)
  PROVE  Printf(chars) \in CleanAppends /\ Write(chars) \in CleanAppends
<1>1. chars \in Seq(Characters)
  BY CleanTexts
<1> QED BY <1>1, PrintfIs DEF CleanAppends

LEMMA ConvertIs ==
  ASSUME NEW chars \in Seq(Characters), NEW v, v.cb \in Nat
  PROVE  Convert(v, chars) \in Appends
BY DEF Convert, Appends

LEMMA ReserveIs ==
  ASSUME NEW chars \in Seq(CleanCharacters), Len(chars) <= 46
  PROVE  Reserve(chars) \in CleanAppends
<1>1. chars \in Seq(Characters) /\ Len(chars) \in Nat
  BY CleanTexts, LenProperties
<1>2. Len(chars) <= AddressRoom /\ AddressRoom \in Nat
  BY <1>1, AddressAssumption
<1> QED BY <1>1, <1>2 DEF Reserve, CleanAppends, Appends

\* A text of one append.
LEMMA OneAppend ==
  ASSUME NEW a \in Appends, NEW t, t = "JsonCleanString" => a \in CleanAppends,
         t = "JsonLiteral" => a.fn # "mbcs" /\ IsJsonLiteral(a.chars)
  PROVE  AppendsFor(<<a>>, t)
BY DEF AppendsFor

LEMMA CleanAppendsFor ==
  ASSUME NEW appends \in Seq(CleanAppends)
  PROVE  AppendsFor(appends, "JsonCleanString")
<1>1. appends \in Seq(Appends)
  <2>1. CleanAppends \subseteq Appends
    BY DEF CleanAppends
  <2> QED BY <2>1, SeqMonotonic
<1> QED BY <1>1 DEF AppendsFor

\* The characters of a string in the event.
LEMMA CharsAre ==
  ASSUME NEW codes \in Seq(Nat)
  PROVE  Chars(codes) \in Seq(Characters)
<1>1. \A k \in 1 .. Len(codes) : Ch(codes[k]) \in Characters
  BY ElementOfSeq, ChIsCharacter
<1>2. Len(codes) \in Nat
  BY LenProperties
<1> DEFINE n == Len(codes)
<1> HIDE DEF n
<1>3. [k \in 1 .. n |-> Ch(codes[k])] \in Seq(Characters)
  BY <1>1, <1>2, IsASeq DEF n
<1> QED BY <1>3 DEF Chars, n

\* MultiByteToWideChar: what is made of one byte or two.
ConvertedPiece(codes) == [i \in 1 .. Len(codes) |->
    IF IsLead(codes[i]) /\ i < Len(codes)
    THEN <<Ch(64 * (codes[i] - 192) + (codes[i + 1] % 64))>> ELSE <<Ch(codes[i])>>]

ConvertedNext(codes) == [i \in 1 .. Len(codes) |->
    IF IsLead(codes[i]) /\ i < Len(codes) THEN i + 2 ELSE i + 1]

LEMMA TwoBytes ==
  ASSUME NEW c \in Nat, NEW d \in Nat, c >= 192
  PROVE  64 * (c - 192) + (d % 64) \in Nat
<1>1. d % 64 \in Nat
  OBVIOUS
<1>2. 64 * (c - 192) \in Nat
  OBVIOUS
<1> QED BY <1>1, <1>2

LEMMA ConvertedIs ==
  ASSUME NEW codes \in Seq(Nat)
  PROVE  Converted(codes) \in Seq(Characters)
<1> DEFINE n == Len(codes)
           m == n + 2
           piece == ConvertedPiece(codes)
           next == ConvertedNext(codes)
           V == Characters
           E(i, g) == IF i > n THEN << >>
                      ELSE IF IsLead(codes[i]) /\ i < n
                      THEN <<Ch(64 * (codes[i] - 192) + (codes[i + 1] % 64))>> \o g[i + 2]
                      ELSE <<Ch(codes[i])>> \o g[i + 1]
           t == CHOOSE t : t = [i \in 1 .. m |-> E(i, t)]
<1>0. n \in Nat /\ \A i \in 1 .. n : codes[i] \in Nat
  BY LenProperties, ElementOfSeq
<1>1. Piecewise(V, n, m, piece, next)
  <2>1. n \in Nat /\ m \in Nat /\ n <= m
    <3> HIDE DEF n
    <3> QED BY <1>0
  <2>2. ASSUME NEW i \in 1 .. n PROVE piece[i] \in Seq(V)
    <3>1. CASE IsLead(codes[i]) /\ i < n
      <4>1. i + 1 \in 1 .. n
        <5> HIDE DEF n
        <5> QED BY <1>0, <3>1
      <4>2. codes[i] \in Nat /\ codes[i] >= 192 /\ codes[i + 1] \in Nat
        BY <1>0, <3>1, <4>1 DEF IsLead
      <4>3. Ch(64 * (codes[i] - 192) + (codes[i + 1] % 64)) \in V
        BY <4>2, TwoBytes, ChIsCharacter
      <4>4. piece[i] = <<Ch(64 * (codes[i] - 192) + (codes[i + 1] % 64))>>
        BY <3>1 DEF ConvertedPiece
      <4> HIDE DEF V
      <4> QED BY <4>3, <4>4
    <3>2. CASE ~(IsLead(codes[i]) /\ i < n)
      <4>1. Ch(codes[i]) \in V
        BY <1>0, ChIsCharacter
      <4>2. piece[i] = <<Ch(codes[i])>>
        BY <3>2 DEF ConvertedPiece
      <4> HIDE DEF V
      <4> QED BY <4>1, <4>2
    <3> QED BY <3>1, <3>2
  <2>3. ASSUME NEW i \in 1 .. n PROVE next[i] \in 1 .. m /\ i < next[i]
    BY <1>0 DEF ConvertedNext
  <2>4. piece \in [1 .. n -> Seq(V)]
    <3>1. piece = [i \in 1 .. n |-> piece[i]]
      BY DEF ConvertedPiece
    <3> HIDE DEF piece, V
    <3> QED BY <2>2, <3>1
  <2>5. next \in [1 .. n -> 1 .. m]
    <3>1. next = [i \in 1 .. n |-> next[i]]
      BY DEF ConvertedNext
    <3> HIDE DEF next, m
    <3> QED BY <2>3, <3>1
  <2> HIDE DEF piece, next, V, n, m
  <2> QED BY <2>1, <2>3, <2>4, <2>5 DEF Piecewise
<1>2. \A g : \A i \in 1 .. m : E(i, g) = IF i > n THEN << >> ELSE piece[i] \o g[next[i]]
  <2> SUFFICES ASSUME NEW g, NEW i \in 1 .. m
               PROVE  E(i, g) = IF i > n THEN << >> ELSE piece[i] \o g[next[i]]
    OBVIOUS
  <2>1. CASE i > n
    BY <2>1
  <2>2. CASE ~(i > n)
    <3>1. i \in 1 .. n
      <4> HIDE DEF n
      <4> QED BY <1>0, <2>2
    <3>2. CASE IsLead(codes[i]) /\ i < n
      <4>1. /\ piece[i] = <<Ch(64 * (codes[i] - 192) + (codes[i + 1] % 64))>>
            /\ next[i] = i + 2
        BY <3>1, <3>2 DEF ConvertedPiece, ConvertedNext
      <4> QED BY <2>2, <3>2, <4>1
    <3>3. CASE ~(IsLead(codes[i]) /\ i < n)
      <4>1. piece[i] = <<Ch(codes[i])>> /\ next[i] = i + 1
        BY <3>1, <3>3 DEF ConvertedPiece, ConvertedNext
      <4> QED BY <2>2, <3>3, <4>1
    <3> QED BY <3>2, <3>3
  <2> QED BY <2>1, <2>2
<1> HIDE DEF E
<1>3. \A g : ReadOn(n, m, piece, next, g) <=> g = [i \in 1 .. m |-> E(i, g)]
  <2> SUFFICES ASSUME NEW g
               PROVE  [i \in 1 .. m |-> E(i, g)]
                        = [i \in 1 .. m |-> IF i > n THEN << >> ELSE piece[i] \o g[next[i]]]
    BY DEF ReadOn
  <2> HIDE DEF piece, next, m
  <2> QED BY <1>2
<1>4. ReadOn(n, m, piece, next, t)
  <2>1. PICK g : ReadOn(n, m, piece, next, g)
    <3> HIDE DEF n, m, piece, next, V
    <3> QED BY <1>1, Onwards
  <2>2. t = [i \in 1 .. m |-> E(i, t)]
    <3>1. g = [i \in 1 .. m |-> E(i, g)]
      BY <1>3, <2>1
    <3> QED BY <3>1
  <2> HIDE DEF t
  <2> QED BY <1>3, <2>2
<1>5. Converted(codes) = t[1]
  BY DEF Converted, E
<1> HIDE DEF t
<1>6. t[1] \in Seq(V)
  <2>1. 1 \in 1 .. m
    BY <1>0
  <2> HIDE DEF n, m, piece, next, V
  <2>2. MadeOf(V, n, m, piece, next, t)
    BY <1>1, <1>4, OnwardsType
  <2> QED BY <2>1, <2>2 DEF MadeOf
<1> QED BY <1>5, <1>6

-----------------------------------------------------------------------------
(* Addresses. *)

LEMMA CleanKinds ==
  ASSUME NEW n \in Int
  PROVE  /\ Unsigned(n) \in CleanCharacters /\ Signed(n) \in CleanCharacters
         /\ Hex(n) \in CleanCharacters /\ Group(n) \in CleanCharacters
         /\ <<"%02X", n>> \in CleanCharacters /\ <<"0x%llX", n>> \in CleanCharacters
         /\ <<"%g", n>> \in CleanCharacters /\ <<"guid", n>> \in CleanCharacters
         /\ <<"date.3", n>> \in CleanCharacters /\ <<"date.7", n>> \in CleanCharacters
         /\ <<"+HH:MM", n>> \in CleanCharacters
         /\ <<"name", n>> \in CleanCharacters /\ <<"system", n>> \in CleanCharacters
         /\ <<"ntdll", n>> \in CleanCharacters
<1>1. /\ "%u" \in Conversions /\ "%d" \in Conversions /\ "0x%X" \in Conversions /\ "%x" \in Conversions
      /\ "%02X" \in Conversions /\ "0x%llX" \in Conversions /\ "%g" \in Conversions
  BY DEF Conversions
<1>2. /\ "guid" \in Texts /\ "date.3" \in Texts /\ "date.7" \in Texts /\ "+HH:MM" \in Texts
      /\ "name" \in Texts /\ "system" \in Texts /\ "ntdll" \in Texts
  BY DEF Texts
<1> QED BY <1>1, <1>2, ConversionIsClean DEF Unsigned, Signed, Hex, Group

LEMMA CleanMarks ==
  /\ Colon \in CleanCharacters /\ Gap \in CleanCharacters /\ Mark(".") \in CleanCharacters
  /\ Mark("[") \in CleanCharacters /\ Mark("]") \in CleanCharacters /\ Mark("%") \in CleanCharacters
  /\ Mark("S-1-") \in CleanCharacters /\ Mark("-") \in CleanCharacters /\ Mark("0x") \in CleanCharacters
  /\ Mark("{") \in CleanCharacters /\ Mark("}") \in CleanCharacters /\ Mark("Z") \in CleanCharacters
  /\ Mark("0000-00-00") \in CleanCharacters
  /\ Mark("true") \in CleanCharacters /\ Mark("false") \in CleanCharacters
  /\ Mark("(") \in CleanCharacters /\ Mark(")") \in CleanCharacters /\ Mark(",") \in CleanCharacters
  /\ Mark("=") \in CleanCharacters /\ Mark("??") \in CleanCharacters
  /\ Mark("HR") \in CleanCharacters /\ Mark("NT") \in CleanCharacters /\ Mark("WIN") \in CleanCharacters
<1>1. {":", "::", ".", "[", "]", "%", "S-1-", "-", "0x", "{", "}", "Z", "0000-00-00", "true", "false",
       "(", ")", ",", "=", "??", "HR", "NT", "WIN"} \subseteq Literals
  BY DEF Literals
<1> QED BY <1>1, MarkIsClean DEF Colon, Gap

LEMMA DottedIs ==
  ASSUME NEW a \in Int, NEW b \in Int, NEW c \in Int, NEW d \in Int
  PROVE  Dotted(a, b, c, d) \in Seq(CleanCharacters) /\ Len(Dotted(a, b, c, d)) = 7
<1>1. /\ Unsigned(a) \in CleanCharacters /\ Unsigned(b) \in CleanCharacters
      /\ Unsigned(c) \in CleanCharacters /\ Unsigned(d) \in CleanCharacters
      /\ Mark(".") \in CleanCharacters
  BY CleanKinds, CleanMarks
<1> QED BY <1>1 DEF Dotted

LEMMA LastFourBytesIs ==
  ASSUME NEW ap \in [0 .. 7 -> Int]
  PROVE  LastFourBytes(ap) \in Seq(CleanCharacters) /\ Len(LastFourBytes(ap)) = 7
<1>1. ap[6] \in Int /\ ap[7] \in Int
  OBVIOUS
<1>2. \A n \in Int : n \div 256 \in Int /\ n % 256 \in Int
  OBVIOUS
<1>3. /\ ap[6] \div 256 \in Int /\ ap[6] % 256 \in Int
      /\ ap[7] \div 256 \in Int /\ ap[7] % 256 \in Int
  BY <1>1, <1>2
<1> DEFINE a == ap[6] \div 256
           b == ap[6] % 256
           c == ap[7] \div 256
           d == ap[7] % 256
<1>4. LastFourBytes(ap) = Dotted(a, b, c, d)
  BY DEF LastFourBytes
<1> HIDE DEF a, b, c, d
<1>5. a \in Int /\ b \in Int /\ c \in Int /\ d \in Int
  BY <1>3 DEF a, b, c, d
<1>6. Dotted(a, b, c, d) \in Seq(CleanCharacters) /\ Len(Dotted(a, b, c, d)) = 7
  BY <1>5, DottedIs
<1> QED BY <1>4, <1>6

LEMMA GroupsOfIs ==
  ASSUME NEW ap \in [0 .. 7 -> Int], NEW first \in Nat, NEW end \in Nat, first < end, end <= 8
  PROVE  /\ GroupsOf(ap, first, end) \in Seq(CleanCharacters)
         /\ Len(GroupsOf(ap, first, end)) = 2 * (end - first) - 1
<1> DEFINE n == 2 * (end - first) - 1
           c(k) == IF k % 2 = 1 THEN Group(ap[first + k \div 2]) ELSE Colon
<1>1. n \in Nat
  OBVIOUS
<1>2. ASSUME NEW k \in 1 .. n PROVE c(k) \in CleanCharacters
  <2>1. CASE k % 2 = 1
    <3>1. k \div 2 \in 0 .. end - first - 1
      BY <2>1
    <3>2. first + k \div 2 \in 0 .. 7
      BY <3>1
    <3>3. ap[first + k \div 2] \in Int
      BY <3>2
    <3>4. Group(ap[first + k \div 2]) \in CleanCharacters
      BY <3>3, CleanKinds
    <3> QED BY <2>1, <3>4
  <2>2. CASE k % 2 # 1
    BY <2>2, CleanMarks
  <2> QED BY <2>1, <2>2
<1>3. GroupsOf(ap, first, end) = [k \in 1 .. n |-> c(k)]
  BY DEF GroupsOf
<1> HIDE DEF n, c
<1>4. [k \in 1 .. n |-> c(k)] \in Seq(CleanCharacters) /\ Len([k \in 1 .. n |-> c(k)]) = n
  BY <1>1, <1>2
<1> QED BY <1>3, <1>4 DEF n

\* The longest run of zeros.
LEMMA ZeroRunLengthIs ==
  ASSUME NEW ap, NEW e \in Nat, e >= 1
  PROVE  /\ ZeroRunLength(ap, e) \in 1 .. e
         /\ ZeroRunLength(ap, e) > 1 => HasZeroRun(ap, e, ZeroRunLength(ap, e))
<1> DEFINE P(n) == n > 1 => HasZeroRun(ap, e, n)
           T == {k \in 0 .. e - 1 : P(e - k)}
           Q(n) == (n > 1 => HasZeroRun(ap, e, n)) /\ \A m \in n + 1 .. e : ~HasZeroRun(ap, e, m)
<1>1. e - 1 \in T /\ T \in SUBSET Nat
  <2>1. e - 1 \in 0 .. e - 1 /\ e - (e - 1) = 1 /\ ~(1 > 1)
    OBVIOUS
  <2>2. P(1)
    BY <2>1
  <2> HIDE DEF P
  <2> QED BY <2>1, <2>2
<1>2. PICK k \in T : \A j \in T : k <= j
  <2> HIDE DEF T
  <2> QED BY <1>1, LeastElement
<1>3. k \in 0 .. e - 1 /\ P(e - k)
  OBVIOUS
<1> DEFINE n == e - k
<1>4. n \in 1 .. e
  BY <1>3
<1>5. \A m \in n + 1 .. e : ~HasZeroRun(ap, e, m)
  <2> SUFFICES ASSUME NEW m \in n + 1 .. e, HasZeroRun(ap, e, m) PROVE FALSE
    OBVIOUS
  <2>1. e - m \in 0 .. e - 1 /\ e - (e - m) = m /\ ~(k <= e - m)
    BY <1>3
  <2>2. P(e - (e - m))
    BY <2>1
  <2> HIDE DEF P
  <2>3. e - m \in T
    BY <2>1, <2>2
  <2> QED BY <1>2, <2>1, <2>3
<1>6. \E i \in 1 .. e : Q(i)
  <2>1. Q(n)
    BY <1>3, <1>5
  <2> HIDE DEF Q, n
  <2> QED BY <1>4, <2>1
<1>7. ZeroRunLength(ap, e) = CHOOSE i \in 1 .. e : Q(i)
  BY DEF ZeroRunLength
<1> DEFINE l == ZeroRunLength(ap, e)
<1>8. l \in 1 .. e /\ Q(l)
  <2> HIDE DEF Q
  <2> QED BY <1>6, <1>7
<1> QED BY <1>8

LEMMA ZeroRunFirstIs ==
  ASSUME NEW ap, NEW e \in Nat, NEW n \in 1 .. e, n > 1 => HasZeroRun(ap, e, n)
  PROVE  ZeroRunFirst(ap, e, n) \in 0 .. e
<1>1. CASE n = 1
  BY <1>1 DEF ZeroRunFirst
<1>2. CASE n # 1
  <2> DEFINE T == {f \in 0 .. e - n : IsZeroRun(ap, e, f, n)}
             Q(f) == IsZeroRun(ap, e, f, n) /\ \A other \in 0 .. f - 1 : ~IsZeroRun(ap, e, other, n)
  <2>1. T # {} /\ T \in SUBSET Nat
    BY <1>2 DEF HasZeroRun
  <2>2. PICK f \in T : \A g \in T : f <= g
    <3> HIDE DEF T
    <3> QED BY <2>1, LeastElement
  <2>3. f \in 0 .. e - n /\ IsZeroRun(ap, e, f, n)
    OBVIOUS
  <2>4. \A other \in 0 .. f - 1 : ~IsZeroRun(ap, e, other, n)
    <3> SUFFICES ASSUME NEW other \in 0 .. f - 1, IsZeroRun(ap, e, other, n) PROVE FALSE
      OBVIOUS
    <3>1. other \in 0 .. e - n /\ ~(f <= other)
      BY <2>3
    <3>2. other \in T
      BY <3>1
    <3> QED BY <2>2, <3>1, <3>2
  <2>5. Q(f)
    BY <2>3, <2>4
  <2>6. ZeroRunFirst(ap, e, n) = CHOOSE i \in 0 .. e - n : Q(i)
    BY <1>2 DEF ZeroRunFirst
  <2> HIDE DEF Q
  <2>7. ZeroRunFirst(ap, e, n) \in 0 .. e - n
    BY <2>3, <2>5, <2>6
  <2> QED BY <2>7
<1> QED BY <1>1, <1>2

\* What is put together of two texts of clean characters.
LEMMA CleanConcat ==
  ASSUME NEW a \in Seq(CleanCharacters), NEW b \in Seq(CleanCharacters)
  PROVE  /\ a \o b \in Seq(CleanCharacters) /\ Len(a \o b) = Len(a) + Len(b)
         /\ Len(a) \in Nat /\ Len(b) \in Nat
BY ConcatIs

\* The groups before the gap, the gap and the groups after it.
LEMMA PartsOfAddress ==
  ASSUME NEW ap \in [0 .. 7 -> Int], NEW e \in {6, 8}, NEW first \in 0 .. e, NEW length \in 1 .. e
  PROVE  LET after == first + length
             left == IF first = 0 THEN << >> ELSE GroupsOf(ap, 0, first)
             right == CASE after < e -> <<Gap>> \o GroupsOf(ap, after, e)
                        [] after >= e /\ first # e -> <<Gap>>
                        [] OTHER -> << >>
         IN  /\ left \in Seq(CleanCharacters) /\ Len(left) <= 15
             /\ right \in Seq(CleanCharacters) /\ Len(right) <= 16
<1> DEFINE after == first + length
           left == IF first = 0 THEN << >> ELSE GroupsOf(ap, 0, first)
           right == CASE after < e -> <<Gap>> \o GroupsOf(ap, after, e)
                      [] after >= e /\ first # e -> <<Gap>>
                      [] OTHER -> << >>
<1>1. left \in Seq(CleanCharacters) /\ Len(left) <= 15
  <2>1. CASE first = 0
    BY <2>1
  <2>2. CASE first # 0
    <3>1. 0 \in Nat /\ first \in Nat /\ 0 < first /\ first <= 8
      BY <2>2
    <3>2. /\ GroupsOf(ap, 0, first) \in Seq(CleanCharacters)
          /\ Len(GroupsOf(ap, 0, first)) = 2 * (first - 0) - 1
      BY <3>1, GroupsOfIs
    <3>3. 2 * (first - 0) - 1 <= 15
      BY <3>1
    <3> QED BY <2>2, <3>2, <3>3
  <2> QED BY <2>1, <2>2
<1>2. right \in Seq(CleanCharacters) /\ Len(right) <= 16
  <2> DEFINE gap == <<Gap>>
  <2>0. gap \in Seq(CleanCharacters) /\ Len(gap) = 1
    <3>1. Gap \in CleanCharacters
      BY CleanMarks
    <3> QED BY <3>1
  <2>1. CASE after < e
    <3> DEFINE g == GroupsOf(ap, after, e)
    <3>1. after \in Nat /\ e \in Nat /\ e <= 8 /\ after >= 1
      OBVIOUS
    <3>2. g \in Seq(CleanCharacters) /\ Len(g) = 2 * (e - after) - 1
      BY <2>1, <3>1, GroupsOfIs
    <3>3. 2 * (e - after) - 1 <= 15
      BY <2>1, <3>1
    <3>4. right = gap \o g
      <4>1. ~(after >= e)
        BY <2>1, <3>1
      <4> QED BY <2>1, <4>1
    <3> HIDE DEF gap, g, right, after
    <3>5. gap \o g \in Seq(CleanCharacters) /\ Len(gap \o g) = Len(gap) + Len(g)
      BY <2>0, <3>2, CleanConcat
    <3> QED BY <2>0, <3>1, <3>2, <3>3, <3>4, <3>5
  <2>2. CASE ~(after < e)
    <3> DEFINE empty == << >>
    <3>1. right = gap \/ right = empty
      BY <2>2
    <3>2. empty \in Seq(CleanCharacters) /\ Len(empty) = 0
      BY EmptySeq
    <3> HIDE DEF gap, empty, right
    <3>3. CASE right = gap
      <4>1. right \in Seq(CleanCharacters)
        BY <2>0, <3>3
      <4>2. Len(right) = 1
        BY <2>0, <3>3
      <4> QED BY <4>1, <4>2
    <3>4. CASE right = empty
      BY <3>2, <3>4
    <3> QED BY <3>1, <3>3, <3>4
  <2> QED BY <2>1, <2>2
<1> QED BY <1>1, <1>2

\* AppendIPv6: the text has room in the 46 characters that are reserved for it.
LEMMA IPv6Is ==
  ASSUME NEW ap \in [0 .. 7 -> Int]
  PROVE  IPv6(ap) \in Seq(CleanCharacters) /\ Len(IPv6(ap)) <= 46
<1> DEFINE e      == EndHex(ap)
           length == ZeroRunLength(ap, e)
           first  == ZeroRunFirst(ap, e, length)
           after  == first + length
           left   == IF first = 0 THEN << >> ELSE GroupsOf(ap, 0, first)
           right  == CASE after < e -> <<Gap>> \o GroupsOf(ap, after, e)
                       [] after >= e /\ first # e -> <<Gap>>
                       [] OTHER -> << >>
           colon  == <<Colon>>
           bytes  == LastFourBytes(ap)
           end    == IF e = 6 THEN colon \o bytes ELSE << >>
           isZero == \A i \in 0 .. 7 : ap[i] = 0
           a      == StartsWithZeros(ap) /\ ap[6] # 0 /\ ap[4] = 0 /\ ap[5] = 0
           b      == StartsWithZeros(ap) /\ ap[6] # 0 /\ ap[4] = 0 /\ ap[5] = 65535
           c      == StartsWithZeros(ap) /\ ap[6] # 0 /\ ap[4] = 65535 /\ ap[5] = 0
           one    == <<Gap>>
           three  == <<Gap, Group(65535), Colon>>
           five   == <<Gap, Group(65535), Colon, Group(0), Colon>>
<1>1. e \in {6, 8} /\ e \in Nat /\ e >= 1
  BY DEF EndHex
<1>2. length \in 1 .. e /\ (length > 1 => HasZeroRun(ap, e, length))
  <2> HIDE DEF e
  <2> QED BY <1>1, ZeroRunLengthIs
<1>3. first \in 0 .. e
  <2> HIDE DEF e, length
  <2> QED BY <1>1, <1>2, ZeroRunFirstIs
<1>4. left \in Seq(CleanCharacters) /\ Len(left) <= 15 /\ right \in Seq(CleanCharacters) /\ Len(right) <= 16
  <2> HIDE DEF e, length, first
  <2> QED BY <1>1, <1>2, <1>3, PartsOfAddress
<1>5. bytes \in Seq(CleanCharacters) /\ Len(bytes) = 7
  BY LastFourBytesIs
<1>6. /\ colon \in Seq(CleanCharacters) /\ Len(colon) = 1
      /\ one \in Seq(CleanCharacters) /\ Len(one) = 1
      /\ three \in Seq(CleanCharacters) /\ Len(three) = 3
      /\ five \in Seq(CleanCharacters) /\ Len(five) = 5
  <2>1. \A n \in Int : Group(n) \in CleanCharacters
    BY CleanKinds
  <2>2. 65535 \in Int /\ 0 \in Int
    OBVIOUS
  <2> DEFINE g == Group(65535)
             h == Group(0)
  <2>3. g \in CleanCharacters /\ h \in CleanCharacters
    BY <2>1, <2>2
  <2>4. Gap \in CleanCharacters /\ Colon \in CleanCharacters
    BY CleanMarks
  <2> HIDE DEF g, h
  <2>5. /\ <<Gap, g, Colon>> \in Seq(CleanCharacters) /\ Len(<<Gap, g, Colon>>) = 3
        /\ <<Gap, g, Colon, h, Colon>> \in Seq(CleanCharacters) /\ Len(<<Gap, g, Colon, h, Colon>>) = 5
    BY <2>3, <2>4
  <2>6. three = <<Gap, g, Colon>> /\ five = <<Gap, g, Colon, h, Colon>>
    BY DEF g, h
  <2>7. /\ colon \in Seq(CleanCharacters) /\ Len(colon) = 1
        /\ one \in Seq(CleanCharacters) /\ Len(one) = 1
    BY <2>4
  <2> QED BY <2>5, <2>6, <2>7
<1>7. IPv6(ap) = CASE isZero -> one
                   [] a -> one \o bytes
                   [] b -> three \o bytes
                   [] c -> five \o bytes
                   [] OTHER -> left \o right \o end
  BY DEF IPv6
<1> HIDE DEF e, length, first, left, right, colon, bytes, isZero, a, b, c, one, three, five
<1>8. end \in Seq(CleanCharacters) /\ Len(end) <= 8
  <2>1. colon \o bytes \in Seq(CleanCharacters) /\ Len(colon \o bytes) = Len(colon) + Len(bytes)
    BY <1>5, <1>6, CleanConcat
  <2> QED BY <1>5, <1>6, <2>1
<1> HIDE DEF end
<1>9. /\ one \o bytes \in Seq(CleanCharacters) /\ Len(one \o bytes) <= 46
      /\ three \o bytes \in Seq(CleanCharacters) /\ Len(three \o bytes) <= 46
      /\ five \o bytes \in Seq(CleanCharacters) /\ Len(five \o bytes) <= 46
  <2>1. one \o bytes \in Seq(CleanCharacters) /\ Len(one \o bytes) = Len(one) + Len(bytes)
    BY <1>5, <1>6, CleanConcat
  <2>2. three \o bytes \in Seq(CleanCharacters) /\ Len(three \o bytes) = Len(three) + Len(bytes)
    BY <1>5, <1>6, CleanConcat
  <2>3. five \o bytes \in Seq(CleanCharacters) /\ Len(five \o bytes) = Len(five) + Len(bytes)
    BY <1>5, <1>6, CleanConcat
  <2> QED BY <1>5, <1>6, <2>1, <2>2, <2>3
<1>10. left \o right \o end \in Seq(CleanCharacters) /\ Len(left \o right \o end) <= 46
  <2> DEFINE lr == left \o right
  <2>1. lr \in Seq(CleanCharacters) /\ Len(lr) = Len(left) + Len(right)
        /\ Len(left) \in Nat /\ Len(right) \in Nat
    BY <1>4, CleanConcat
  <2> HIDE DEF lr
  <2>2. lr \o end \in Seq(CleanCharacters) /\ Len(lr \o end) = Len(lr) + Len(end) /\ Len(end) \in Nat
    BY <1>8, <2>1, CleanConcat
  <2>3. Len(lr \o end) <= 46
    BY <1>4, <1>8, <2>1, <2>2
  <2> QED BY <2>2, <2>3 DEF lr
<1>11. Len(one) <= 46
  BY <1>6
<1> QED BY <1>6, <1>7, <1>9, <1>10, <1>11

-----------------------------------------------------------------------------
(* Dumps, socket addresses, SIDs and timestamps. *)

\* A text of one clean append, and one that may have another.
LEMMA OneCleanAppend ==
  ASSUME NEW a \in CleanAppends, NEW condition
  PROVE  /\ <<a>> \in Seq(CleanAppends)
         /\ (IF condition THEN <<a>> ELSE << >>) \in Seq(CleanAppends)
OBVIOUS

LEMMA CleanAppendsConcat ==
  ASSUME NEW a \in Seq(CleanAppends), NEW b \in Seq(CleanAppends)
  PROVE  a \o b \in Seq(CleanAppends)
BY ConcatProperties

LEMMA OneCleanCharacter ==
  ASSUME NEW c \in CleanCharacters
  PROVE  <<c>> \in Seq(CleanCharacters)
OBVIOUS

LEMMA TwoCleanCharacters ==
  ASSUME NEW c \in CleanCharacters, NEW d \in CleanCharacters
  PROVE  <<c, d>> \in Seq(CleanCharacters)
OBVIOUS

LEMMA ThreeCleanCharacters ==
  ASSUME NEW c \in CleanCharacters, NEW d \in CleanCharacters, NEW e \in CleanCharacters
  PROVE  <<c, d, e>> \in Seq(CleanCharacters)
OBVIOUS

LEMMA HexDumpIs ==
  ASSUME NEW v, v.data \in Seq(Int)
  PROVE  HexDump(v) \in Seq(CleanAppends)
<1> DEFINE n == Len(v.data)
           c(k) == <<"%02X", v.data[k]>>
           digits == [k \in 1 .. n |-> c(k)]
           head == <<Mark("0x")>>
<1>1. n \in Nat
  BY LenProperties
<1>2. \A k \in 1 .. n : c(k) \in CleanCharacters
  BY ElementOfSeq, CleanKinds
<1>3. head \in Seq(CleanCharacters)
  BY CleanMarks, OneCleanCharacter
<1>4. digits \in Seq(CleanCharacters)
  <2> HIDE DEF n, c
  <2> QED BY <1>1, <1>2
<1>5. HexDump(v) = <<Write(head \o digits)>>
  BY DEF HexDump
<1> HIDE DEF head, digits
<1>6. head \o digits \in Seq(CleanCharacters)
  BY <1>3, <1>4, CleanConcat
<1>7. Write(head \o digits) \in CleanAppends
  BY <1>6, CleanPrintfIs
<1> QED BY <1>5, <1>7, OneCleanAppend

\* An address in the data of a value.
LEMMA GroupsAre ==
  ASSUME NEW v, v.data \in Seq(Int), NEW first \in Nat \ {0}, Len(v.data) >= first + 7
  PROVE  Reserve(IPv6(Groups(v, first))) \in CleanAppends
<1>1. \A i \in 0 .. 7 : v.data[first + i] \in Int
  <2> SUFFICES ASSUME NEW i \in 0 .. 7 PROVE v.data[first + i] \in Int
    OBVIOUS
  <2>1. Len(v.data) \in Nat
    BY LenProperties
  <2>2. first + i \in 1 .. Len(v.data)
    BY <2>1
  <2> QED BY <2>2, ElementOfSeq
<1>2. Groups(v, first) \in [0 .. 7 -> Int]
  BY <1>1 DEF Groups
<1>3. IPv6(Groups(v, first)) \in Seq(CleanCharacters) /\ Len(IPv6(Groups(v, first))) <= 46
  BY <1>2, IPv6Is
<1> QED BY <1>3, ReserveIs

LEMMA NumbersAre ==
  ASSUME NEW v, v.data \in Seq(Int), NEW n \in Nat, Len(v.data) >= n
  PROVE  \A k \in 1 .. n : v.data[k] \in Int
<1> SUFFICES ASSUME NEW k \in 1 .. n PROVE v.data[k] \in Int
  OBVIOUS
<1>1. Len(v.data) \in Nat
  BY LenProperties
<1>2. k \in 1 .. Len(v.data)
  BY <1>1
<1> QED BY <1>2, ElementOfSeq

LEMMA SockAddrIs ==
  ASSUME NEW v, WellFormedValue(v), v.inType \notin NumberTypes, v.outType = "SOCKETADDRESS"
  PROVE  SockAddr(v) \in Seq(CleanAppends)
<1>1. /\ v.data \in Seq(Int) /\ v.cb \in Nat /\ Len(v.data) >= 1
      /\ v.data[1] = 2 /\ v.cb >= 8 => Len(v.data) >= 7
      /\ v.data[1] = 23 /\ v.cb >= 24 => Len(v.data) >= 11
      /\ v.data[1] = 33 /\ v.cb >= 10 => Len(v.data) >= 5
  BY DEF WellFormedValue
<1>2. HexDump(v) \in Seq(CleanAppends)
  BY <1>1, HexDumpIs
<1>3. ASSUME NEW n \in Int
      PROVE  /\ Printf(<<Colon, Unsigned(n)>>) \in CleanAppends
             /\ Printf(<<Mark("%"), Unsigned(n)>>) \in CleanAppends
             /\ Printf(<<Mark("]"), Colon, Unsigned(n)>>) \in CleanAppends
  <2>1. Unsigned(n) \in CleanCharacters /\ Colon \in CleanCharacters
        /\ Mark("%") \in CleanCharacters /\ Mark("]") \in CleanCharacters
    BY CleanKinds, CleanMarks
  <2>2. /\ <<Colon, Unsigned(n)>> \in Seq(CleanCharacters)
        /\ <<Mark("%"), Unsigned(n)>> \in Seq(CleanCharacters)
    BY <2>1, TwoCleanCharacters
  <2>3. <<Mark("]"), Colon, Unsigned(n)>> \in Seq(CleanCharacters)
    BY <2>1, ThreeCleanCharacters
  <2> QED BY <2>2, <2>3, CleanPrintfIs
<1>4. Write(<<Mark("[")>>) \in CleanAppends
  <2>1. <<Mark("[")>> \in Seq(CleanCharacters)
    BY CleanMarks, OneCleanCharacter
  <2> QED BY <2>1, CleanPrintfIs
<1> DEFINE port == v.data[2]
           scope == v.data[3]
           If(condition, append_) == IF condition THEN <<append_>> ELSE << >>
<1>5. CASE v.data[1] = 2 /\ v.cb >= 8
  <2>1. \A k \in 1 .. 7 : v.data[k] \in Int
    BY <1>1, <1>5, NumbersAre
  <2>2. Dotted(v.data[4], v.data[5], v.data[6], v.data[7]) \in Seq(CleanCharacters)
    <3> DEFINE d == v.data[4]
               e == v.data[5]
               f == v.data[6]
               g == v.data[7]
    <3>1. d \in Int /\ e \in Int /\ f \in Int /\ g \in Int
      BY <2>1
    <3> HIDE DEF d, e, f, g
    <3>2. Dotted(d, e, f, g) \in Seq(CleanCharacters)
      BY <3>1, DottedIs
    <3> QED BY <3>2 DEF d, e, f, g
  <2> DEFINE a == <<Printf(Dotted(v.data[4], v.data[5], v.data[6], v.data[7]))>>
             b == If(port # 0, Printf(<<Colon, Unsigned(port)>>))
  <2>3. a \in Seq(CleanAppends)
    BY <2>2, CleanPrintfIs, OneCleanAppend
  <2>4. b \in Seq(CleanAppends)
    <3>1. port \in Int
      BY <2>1
    <3>2. Printf(<<Colon, Unsigned(port)>>) \in CleanAppends
      BY <1>3, <3>1
    <3> QED BY <3>2, OneCleanAppend
  <2>5. SockAddr(v) = a \o b
    BY <1>5 DEF SockAddr
  <2> HIDE DEF a, b
  <2> QED BY <2>3, <2>4, <2>5, CleanAppendsConcat
<1>6. CASE v.data[1] = 23 /\ v.cb >= 24
  <2>1. \A k \in 1 .. 11 : v.data[k] \in Int
    BY <1>1, <1>6, NumbersAre
  <2>2. port \in Int /\ scope \in Int
    BY <2>1
  <2>3. Reserve(IPv6(Groups(v, 4))) \in CleanAppends
    <3>1. Len(v.data) >= 4 + 7 /\ 4 \in Nat \ {0}
      BY <1>1, <1>6
    <3> QED BY <1>1, <3>1, GroupsAre
  <2> DEFINE a == If(port # 0, Write(<<Mark("[")>>))
             b == <<Reserve(IPv6(Groups(v, 4)))>>
             c == If(v.cb >= 28 /\ scope # 0, Printf(<<Mark("%"), Unsigned(scope)>>))
             d == If(port # 0, Printf(<<Mark("]"), Colon, Unsigned(port)>>))
  <2>4. a \in Seq(CleanAppends)
    BY <1>4, OneCleanAppend
  <2>5. b \in Seq(CleanAppends)
    BY <2>3, OneCleanAppend
  <2>6. c \in Seq(CleanAppends)
    <3>1. Printf(<<Mark("%"), Unsigned(scope)>>) \in CleanAppends
      BY <1>3, <2>2
    <3> QED BY <3>1, OneCleanAppend
  <2>7. d \in Seq(CleanAppends)
    <3>1. Printf(<<Mark("]"), Colon, Unsigned(port)>>) \in CleanAppends
      BY <1>3, <2>2
    <3> QED BY <3>1, OneCleanAppend
  <2>8. SockAddr(v) = a \o b \o c \o d
    BY <1>6 DEF SockAddr
  <2> HIDE DEF a, b, c, d
  <2>9. a \o b \in Seq(CleanAppends)
    BY <2>4, <2>5, CleanAppendsConcat
  <2>10. a \o b \o c \in Seq(CleanAppends)
    BY <2>6, <2>9, CleanAppendsConcat
  <2> QED BY <2>7, <2>8, <2>10, CleanAppendsConcat
<1>7. CASE v.data[1] = 33 /\ v.cb >= 10
  <2>1. \A k \in 1 .. 5 : v.data[k] \in Int
    BY <1>1, <1>7, NumbersAre
  <2>2. <<"%02X", v.data[4]>> \in CleanCharacters /\ <<"%02X", v.data[5]>> \in CleanCharacters
    <3>1. v.data[4] \in Int /\ v.data[5] \in Int
      BY <2>1
    <3> QED BY <3>1, CleanKinds
  <2>3. <<<<"%02X", v.data[4]>>, <<"%02X", v.data[5]>>>> \in Seq(CleanCharacters)
    BY <2>2, TwoCleanCharacters
  <2>4. SockAddr(v) = <<Printf(<<<<"%02X", v.data[4]>>, <<"%02X", v.data[5]>>>>)>>
    BY <1>7 DEF SockAddr
  <2> QED BY <2>3, <2>4, CleanPrintfIs, OneCleanAppend
<1>8. CASE ~(v.data[1] = 2 /\ v.cb >= 8) /\ ~(v.data[1] = 23 /\ v.cb >= 24) /\ ~(v.data[1] = 33 /\ v.cb >= 10)
  BY <1>2, <1>8 DEF SockAddr
<1> QED BY <1>5, <1>6, <1>7, <1>8

LEMMA SidIs ==
  ASSUME NEW v, WellFormedValue(v), v.inType \in {"SID", "WBEMSID"}, v.cb >= 8
  PROVE  Sid(v) \in Seq(CleanAppends)
<1>1. /\ v.data \in Seq(Int) /\ v.cb \in Nat /\ Len(v.data) >= 2
      /\ v.data[1] = 1 /\ v.cb = 8 + 4 * v.data[2] => Len(v.data) >= 4 + v.data[2]
  BY DEF WellFormedValue
<1>2. HexDump(v) \in Seq(CleanAppends)
  BY <1>1, HexDumpIs
<1>3. CASE v.data[1] # 1 \/ v.cb # 8 + 4 * v.data[2]
  BY <1>2, <1>3 DEF Sid
<1>4. CASE v.data[1] = 1 /\ v.cb = 8 + 4 * v.data[2]
  <2> DEFINE n == v.data[2]
             authority == IF v.data[3] # 0
                          THEN <<Mark("S-1-"), <<"0x%llX", v.data[3]>>, <<"0x%llX", v.data[4]>>>>
                          ELSE <<Mark("S-1-"), Unsigned(v.data[4])>>
             head == <<Printf(authority)>>
             sub(i) == Printf(<<Mark("-"), Unsigned(v.data[4 + i])>>)
             subs == [i \in 1 .. n |-> sub(i)]
  <2>1. n \in Nat
    <3>1. v.data[2] \in Int
      BY <1>1, NumbersAre
    <3> QED BY <1>1, <1>4, <3>1
  <2>2. \A k \in 1 .. 4 + n : v.data[k] \in Int
    <3>1. 4 + n \in Nat /\ Len(v.data) >= 4 + n
      BY <1>1, <1>4, <2>1, SMTT(30)
    <3> QED BY <1>1, <3>1, NumbersAre
  <2>3. authority \in Seq(CleanCharacters)
    <3>1. v.data[3] \in Int /\ v.data[4] \in Int
      BY <2>1, <2>2
    <3>2. /\ Mark("S-1-") \in CleanCharacters /\ <<"0x%llX", v.data[3]>> \in CleanCharacters
          /\ <<"0x%llX", v.data[4]>> \in CleanCharacters /\ Unsigned(v.data[4]) \in CleanCharacters
      BY <3>1, CleanMarks, CleanKinds
    <3> QED BY <3>2, TwoCleanCharacters, ThreeCleanCharacters
  <2>4. ASSUME NEW i \in 1 .. n PROVE sub(i) \in CleanAppends
    <3>1. 4 + i \in 1 .. 4 + n
      <4> HIDE DEF n
      <4> QED BY <2>1
    <3>2. v.data[4 + i] \in Int
      BY <2>2, <3>1
    <3>3. Mark("-") \in CleanCharacters /\ Unsigned(v.data[4 + i]) \in CleanCharacters
      BY <3>2, CleanMarks, CleanKinds
    <3>4. <<Mark("-"), Unsigned(v.data[4 + i])>> \in Seq(CleanCharacters)
      BY <3>3, TwoCleanCharacters
    <3> QED BY <3>4, CleanPrintfIs
  <2>5. Sid(v) = head \o subs
    BY <1>4 DEF Sid
  <2> HIDE DEF authority, sub, n
  <2>6. head \in Seq(CleanAppends)
    BY <2>3, CleanPrintfIs, OneCleanAppend
  <2>7. subs \in Seq(CleanAppends)
    BY <2>1, <2>4
  <2> HIDE DEF head, subs
  <2> QED BY <2>5, <2>6, <2>7, CleanAppendsConcat
<1> QED BY <1>3, <1>4

\* A date and a zone.
LEMMA AdjustedSystemTimeIs ==
  ASSUME NEW date \in Int, NEW digits, NEW flags, NEW bias \in Int
  PROVE  AdjustedSystemTime(date, digits, flags, bias) \in Seq(CleanCharacters)
<1>1. Date(date, digits) \in CleanCharacters
  BY CleanKinds, CleanMarks DEF Date
<1>2. Offset(bias) \in CleanCharacters /\ Utc \in CleanCharacters
  BY CleanKinds, CleanMarks DEF Offset, Utc
<1>3. <<Date(date, digits)>> \in Seq(CleanCharacters)
  BY <1>1, OneCleanCharacter
<1>4. <<Date(date, digits), IF "Local" \in flags THEN Offset(bias) ELSE Utc>> \in Seq(CleanCharacters)
  BY <1>1, <1>2, TwoCleanCharacters
<1> QED BY <1>3, <1>4 DEF AdjustedSystemTime

LEMMA AdjustedIs ==
  ASSUME NEW t \in Int, NEW bias \in Int
  PROVE  AdjustFileTime(t, bias) \in Int
<1>1. MaxTime \in Int /\ MinTime \in Int /\ PerMinute \in Int
  BY SettingsAssumption
<1> DEFINE n == t + bias * PerMinute
<1>2. n \in Int
  BY <1>1
<1> HIDE DEF n
<1>3. Wrapped(n) \in Int
  BY <1>1, <1>2 DEF Wrapped, Span
<1> DEFINE w == Wrapped(n)
<1>4. AdjustFileTime(t, bias) = CASE w >= 0 -> w
                                  [] w < 0 /\ (t < 0 \/ bias < 0) -> 0
                                  [] OTHER -> MaxTime
  BY DEF AdjustFileTime, n
<1> HIDE DEF w
<1> QED BY <1>1, <1>3, <1>4 DEF w

LEMMA TimeTextIs ==
  ASSUME NEW v, v.data[1] \in Int, NEW flags, NEW bias \in Int
  PROVE  TimeText(v, flags, bias) \in Seq(CleanAppends)
<1> DEFINE t == v.data[1]
           utc == TimeIsUtc(v, flags)
           s == IF v.inType = "FILETIME" THEN FileTimeText(t, flags, bias, utc)
                                         ELSE SystemTimeText(t, flags, bias, utc)
           AppendOf(char) == IF char = Utc THEN Write(<<char>>) ELSE Printf(<<char>>)
           n == Len(s)
<1>1. t \in Int /\ AdjustFileTime(t, bias) \in Int
  BY AdjustedIs
<1>2. \A i \in Int : FileTimeToDate(i) \in Int /\ DateToFileTime(i) \in Int
  BY DEF FileTimeToDate, DateToFileTime, InvalidDate
<1>3. FileTimeText(t, flags, bias, utc) \in Seq(CleanCharacters)
  <2> DEFINE adjusted == IF utc /\ "Local" \in flags THEN AdjustFileTime(t, bias) ELSE t
             date == FileTimeToDate(adjusted)
  <2>1. date \in Int
    BY <1>1, <1>2
  <2>2. FileTimeText(t, flags, bias, utc)
          = AdjustedSystemTime(date, IF "LowPrecision" \in flags THEN 3 ELSE 7,
                               IF utc THEN flags ELSE WithoutSuffix(flags), bias)
    BY DEF FileTimeText
  <2> HIDE DEF date, utc
  <2> QED BY <2>1, <2>2, AdjustedSystemTimeIs
<1>4. SystemTimeText(t, flags, bias, utc) \in Seq(CleanCharacters)
  <2> DEFINE adjusted == IF utc /\ "Local" \in flags
                         THEN FileTimeToDate(AdjustFileTime(DateToFileTime(t), bias)) ELSE t
  <2>1. DateToFileTime(t) \in Int
    BY <1>1, <1>2
  <2>2. AdjustFileTime(DateToFileTime(t), bias) \in Int
    BY <2>1, AdjustedIs
  <2>3. adjusted \in Int
    BY <1>1, <1>2, <2>2
  <2>4. SystemTimeText(t, flags, bias, utc)
          = AdjustedSystemTime(adjusted, 3, IF utc THEN flags ELSE WithoutSuffix(flags), bias)
    BY DEF SystemTimeText
  <2> HIDE DEF adjusted, utc
  <2> QED BY <2>3, <2>4, AdjustedSystemTimeIs
<1>5. s \in Seq(CleanCharacters)
  BY <1>3, <1>4
<1>6. TimeText(v, flags, bias) = [k \in 1 .. n |-> AppendOf(s[k])]
  BY DEF TimeText
<1> HIDE DEF s
<1>7. n \in Nat /\ \A k \in 1 .. n : s[k] \in CleanCharacters
  BY <1>5, LenProperties, ElementOfSeq
<1>8. \A k \in 1 .. n : AppendOf(s[k]) \in CleanAppends
  BY <1>7, OneCleanCharacter, CleanPrintfIs
<1> HIDE DEF n, AppendOf
<1> QED BY <1>6, <1>7, <1>8

-----------------------------------------------------------------------------
\* A number in decimal is a JSON literal.
LEMMA LiteralAppends ==
  ASSUME NEW n \in Int
  PROVE  /\ AppendsFor(<<Printf(<<Unsigned(n)>>)>>, "JsonLiteral")
         /\ AppendsFor(<<Printf(<<Signed(n)>>)>>, "JsonLiteral")
         /\ AppendsFor(<<Printf(<<Hex(n)>>)>>, "JsonCleanString")
         /\ AppendsFor(<<Printf(<<<<"%g", n>>>>)>>, "JsonCleanString")
         /\ n \notin NotFinite => AppendsFor(<<Printf(<<<<"%g", n>>>>)>>, "JsonLiteral")
<1>1. /\ Unsigned(n) \in CleanCharacters /\ Signed(n) \in CleanCharacters
      /\ Hex(n) \in CleanCharacters /\ <<"%g", n>> \in CleanCharacters
  BY CleanKinds
<1>2. ASSUME NEW c \in CleanCharacters
      PROVE  /\ Printf(<<c>>) \in CleanAppends /\ Printf(<<c>>) \in Appends
             /\ Printf(<<c>>).fn = "printf" /\ Printf(<<c>>).chars = <<c>>
  <2>1. <<c>> \in Seq(CleanCharacters) /\ <<c>> \in Seq(Characters)
    BY OneCleanCharacter, CleanTexts
  <2> QED BY <2>1, CleanPrintfIs, PrintfIs
<1>3. IsJsonLiteral(<<Unsigned(n)>>) /\ IsJsonLiteral(<<Signed(n)>>)
  BY DEF IsJsonLiteral, Unsigned, Signed
<1>4. n \notin NotFinite => IsJsonLiteral(<<<<"%g", n>>>>)
  BY DEF IsJsonLiteral
<1>5. AppendsFor(<<Printf(<<Unsigned(n)>>)>>, "JsonLiteral")
  BY <1>1, <1>2, <1>3, OneAppend
<1>6. AppendsFor(<<Printf(<<Signed(n)>>)>>, "JsonLiteral")
  BY <1>1, <1>2, <1>3, OneAppend
<1>7. AppendsFor(<<Printf(<<Hex(n)>>)>>, "JsonCleanString")
  BY <1>1, <1>2, OneAppend
<1>8. AppendsFor(<<Printf(<<<<"%g", n>>>>)>>, "JsonCleanString")
  BY <1>1, <1>2, OneAppend
<1>9. n \notin NotFinite => AppendsFor(<<Printf(<<<<"%g", n>>>>)>>, "JsonLiteral")
  BY <1>1, <1>2, <1>4, OneAppend
<1> QED BY <1>5, <1>6, <1>7, <1>8, <1>9

LEMMA BooleanAppends ==
  ASSUME NEW condition
  PROVE  AppendsFor(<<Write(<<Mark(IF condition THEN "true" ELSE "false")>>)>>, "JsonLiteral")
<1> DEFINE c == Mark(IF condition THEN "true" ELSE "false")
<1>1. c \in CleanCharacters
  BY CleanMarks
<1>2. <<c>> \in Seq(Characters)
  BY <1>1, OneCleanCharacter, CleanTexts
<1>3. IsJsonLiteral(<<c>>)
  BY DEF IsJsonLiteral, Mark
<1> HIDE DEF c
<1>4. Write(<<c>>) \in Appends /\ Write(<<c>>).fn = "wide" /\ Write(<<c>>).chars = <<c>>
  BY <1>2, PrintfIs
<1> QED BY <1>3, <1>4, OneAppend DEF c

LEMMA TextAppends ==
  ASSUME NEW v, v.data \in Seq(Nat), v.cb \in Nat
  PROVE  /\ AppendsFor(<<Convert(v, Converted(v.data))>>, "JsonString")
         /\ Len(v.data) >= v.cb \div 2 =>
              AppendsFor(<<Write(Chars(SubSeq(v.data, 1, v.cb \div 2)))>>, "JsonString")
         /\ Len(v.data) >= 1 => AppendsFor(<<Write(<<Ch(v.data[1])>>)>>, "JsonString")
<1>1. Converted(v.data) \in Seq(Characters)
  BY ConvertedIs
<1>2. AppendsFor(<<Convert(v, Converted(v.data))>>, "JsonString")
  BY <1>1, ConvertIs, OneAppend
<1>3. ASSUME Len(v.data) >= v.cb \div 2
      PROVE  AppendsFor(<<Write(Chars(SubSeq(v.data, 1, v.cb \div 2)))>>, "JsonString")
  <2> DEFINE n == v.cb \div 2
             codes == SubSeq(v.data, 1, n)
  <2>1. n \in Nat
    <3>1. \A k \in Nat : k \div 2 \in Nat
      OBVIOUS
    <3> QED BY <3>1
  <2> HIDE DEF n
  <2>2. codes \in Seq(Nat)
    BY <1>3, <2>1, SubSeqProperties DEF n
  <2> HIDE DEF codes
  <2>3. Write(Chars(codes)) \in Appends
    BY <2>2, CharsAre, PrintfIs
  <2> QED BY <2>3, OneAppend DEF codes, n
<1>4. ASSUME Len(v.data) >= 1
      PROVE  AppendsFor(<<Write(<<Ch(v.data[1])>>)>>, "JsonString")
  <2>1. v.data[1] \in Nat
    BY <1>4, ElementOfSeq, LenProperties
  <2>2. Ch(v.data[1]) \in Characters
    BY <2>1, ChIsCharacter
  <2>3. <<Ch(v.data[1])>> \in Seq(Characters)
    BY <2>2
  <2>4. Write(<<Ch(v.data[1])>>) \in Appends
    BY <2>3, PrintfIs
  <2> QED BY <2>4, OneAppend
<1> QED BY <1>2, <1>3, <1>4

-----------------------------------------------------------------------------
IsNarrowText(v) == v.inType \in {"INT8", "UINT8", "UINT16"} /\ IsText(v)

\* What a number is appended as, case by case.
LEMMA NumberCases ==
  ASSUME NEW v, InDecimal(v) \/ InHex(v)
  PROVE  LET n == v.data[1]
         IN  \/ IsNarrowText(v) /\ NumberAppends(v) = <<Convert(v, Converted(v.data))>>
                /\ TypeOf(v) = "JsonString"
             \/ IsNarrowText(v) /\ NumberAppends(v) = <<Write(<<Ch(n)>>)>>
                /\ TypeOf(v) = "JsonString"
             \/ NumberAppends(v) = <<Printf(<<Unsigned(ByteSwapped(n))>>)>>
                /\ TypeOf(v) = "JsonLiteral"
             \/ v.inType = "UINT32" /\ v.outType = "IPV4" /\ NumberAppends(v) = <<Printf(IPv4Text(v))>>
                /\ TypeOf(v) = "JsonCleanString"
             \/ NumberAppends(v) = <<Printf(<<Hex(n)>>)>> /\ TypeOf(v) = "JsonCleanString"
             \/ NumberAppends(v) = <<Printf(<<Signed(n)>>)>> /\ TypeOf(v) = "JsonLiteral"
             \/ NumberAppends(v) = <<Printf(<<Unsigned(n)>>)>> /\ TypeOf(v) = "JsonLiteral"
<1> DEFINE n == v.data[1]
           convert == <<Convert(v, Converted(v.data))>>
           write == <<Write(<<Ch(n)>>)>>
           port == <<Printf(<<Unsigned(ByteSwapped(n))>>)>>
           ipv4 == <<Printf(IPv4Text(v))>>
           hex == <<Printf(<<Hex(n)>>)>>
           number == <<Printf(<<IF HasSign(v) THEN Signed(n) ELSE Unsigned(n)>>)>>
<1>1. NumberAppends(v) =
        CASE v.inType \in {"INT8", "UINT8"} /\ IsText(v) -> convert
          [] v.inType = "UINT16" /\ IsText(v) -> write
          [] v.inType = "UINT16" /\ v.outType = "PORT" -> port
          [] v.inType = "UINT32" /\ v.outType = "IPV4" -> ipv4
          [] InHex(v) -> hex
          [] OTHER -> number
  BY DEF NumberAppends
<1>2. number = <<Printf(<<Signed(n)>>)>> \/ number = <<Printf(<<Unsigned(n)>>)>>
  OBVIOUS
<1> HIDE DEF convert, write, port, ipv4, hex, number
<1>3. CASE InHex(v)
  <2>1. NumberAppends(v) = hex
    BY <1>1, <1>3 DEF InHex, IsText, HexTypes, PointerTypes
  <2>2. TypeOf(v) = "JsonCleanString"
    BY <1>3 DEF InHex, InDecimal, IsText, HexTypes, PointerTypes, TypeOf, WideTypes, MbcsTypes
  <2> QED BY <2>1, <2>2 DEF hex
<1>4. CASE ~InHex(v) /\ InDecimal(v)
  <2>0. v.inType \notin WideTypes \cup MbcsTypes /\ v.inType # "BOOLEAN"
        /\ v.inType \notin {"FLOAT", "DOUBLE"}
    BY <1>4 DEF InDecimal, SignedTypes, UnsignedTypes, PointerTypes, WideTypes, MbcsTypes
  <2>1. CASE IsNarrowText(v)
    <3>1. TypeOf(v) = "JsonString"
      BY <2>0, <2>1 DEF TypeOf, IsNarrowText
    <3>2. NumberAppends(v) = convert \/ NumberAppends(v) = write
      BY <1>1, <1>4, <2>1 DEF IsNarrowText, IsText
    <3> QED BY <2>1, <3>1, <3>2 DEF convert, write
  <2>2. CASE ~IsNarrowText(v) /\ v.inType = "UINT32" /\ v.outType = "IPV4"
    <3>1. TypeOf(v) = "JsonCleanString"
      BY <1>4, <2>0, <2>2 DEF TypeOf, IsNarrowText
    <3>2. NumberAppends(v) = ipv4
      BY <1>1, <1>4, <2>2 DEF IsNarrowText
    <3> QED BY <2>2, <3>1, <3>2 DEF ipv4
  <2>3. CASE ~IsNarrowText(v) /\ ~(v.inType = "UINT32" /\ v.outType = "IPV4")
    <3>1. TypeOf(v) = "JsonLiteral"
      BY <1>4, <2>0, <2>3 DEF TypeOf, IsNarrowText
    <3>2. NumberAppends(v) = port \/ NumberAppends(v) = number
      BY <1>1, <1>4, <2>3 DEF IsNarrowText
    <3> QED BY <1>2, <3>1, <3>2 DEF port
  <2> QED BY <2>1, <2>2, <2>3
<1> QED BY <1>3, <1>4

LEMMA NumberAppendsFor ==
  ASSUME NEW v, WellFormedValue(v), InDecimal(v) \/ InHex(v)
  PROVE  AppendsFor(NumberAppends(v), TypeOf(v))
<1> DEFINE n == v.data[1]
<1>0. v.inType \in NumberTypes
  BY DEF InDecimal, InHex, NumberTypes, SignedTypes, UnsignedTypes, HexTypes, PointerTypes
<1>1. v.data \in Seq(Int) /\ v.cb \in Nat /\ Len(v.data) >= 1
  BY <1>0 DEF WellFormedValue
<1>2. n \in Int
  BY <1>1, NumbersAre
<1>3. ByteSwapped(n) \in Int
  <2>1. \A k \in Int : 256 * (k % 256) + k \div 256 \in Int
    OBVIOUS
  <2> HIDE DEF n
  <2> QED BY <1>2, <2>1 DEF ByteSwapped
<1>4. IsNarrowText(v) => v.data \in Seq(Nat)
  BY DEF IsNarrowText, WellFormedValue, IsTextual
<1>5. ASSUME v.inType = "UINT32", v.outType = "IPV4"
      PROVE  AppendsFor(<<Printf(IPv4Text(v))>>, "JsonCleanString")
  <2> DEFINE d == v.data[1]
             e == v.data[2]
             f == v.data[3]
             g == v.data[4]
  <2>1. Len(v.data) >= 4
    BY <1>5 DEF WellFormedValue
  <2>2. \A k \in 1 .. 4 : v.data[k] \in Int
    BY <1>1, <2>1, NumbersAre
  <2>3. d \in Int /\ e \in Int /\ f \in Int /\ g \in Int
    BY <2>2
  <2> HIDE DEF d, e, f, g
  <2>4. Dotted(d, e, f, g) \in Seq(CleanCharacters)
    BY <2>3, DottedIs
  <2>5. Printf(Dotted(d, e, f, g)) \in CleanAppends
    BY <2>4, CleanPrintfIs
  <2>6. Printf(Dotted(d, e, f, g)) \in Appends
    BY <2>5 DEF CleanAppends
  <2>7. AppendsFor(<<Printf(Dotted(d, e, f, g))>>, "JsonCleanString")
    BY <2>5, <2>6, OneAppend
  <2> QED BY <2>7 DEF IPv4Text, d, e, f, g
<1>6. /\ IsNarrowText(v) => AppendsFor(<<Convert(v, Converted(v.data))>>, "JsonString")
      /\ IsNarrowText(v) => AppendsFor(<<Write(<<Ch(n)>>)>>, "JsonString")
  BY <1>1, <1>4, TextAppends
<1>7. /\ AppendsFor(<<Printf(<<Unsigned(ByteSwapped(n))>>)>>, "JsonLiteral")
      /\ AppendsFor(<<Printf(<<Unsigned(n)>>)>>, "JsonLiteral")
      /\ AppendsFor(<<Printf(<<Signed(n)>>)>>, "JsonLiteral")
      /\ AppendsFor(<<Printf(<<Hex(n)>>)>>, "JsonCleanString")
  BY <1>2, <1>3, LiteralAppends
<1> DEFINE convert == <<Convert(v, Converted(v.data))>>
           write == <<Write(<<Ch(n)>>)>>
           port == <<Printf(<<Unsigned(ByteSwapped(n))>>)>>
           ipv4 == <<Printf(IPv4Text(v))>>
           hex == <<Printf(<<Hex(n)>>)>>
           signed == <<Printf(<<Signed(n)>>)>>
           unsigned == <<Printf(<<Unsigned(n)>>)>>
           appends == NumberAppends(v)
           t == TypeOf(v)
<1>8. \/ IsNarrowText(v) /\ appends = convert /\ t = "JsonString"
      \/ IsNarrowText(v) /\ appends = write /\ t = "JsonString"
      \/ appends = port /\ t = "JsonLiteral"
      \/ v.inType = "UINT32" /\ v.outType = "IPV4" /\ appends = ipv4 /\ t = "JsonCleanString"
      \/ appends = hex /\ t = "JsonCleanString"
      \/ appends = signed /\ t = "JsonLiteral"
      \/ appends = unsigned /\ t = "JsonLiteral"
  BY NumberCases, Zenon
<1>9. /\ IsNarrowText(v) => AppendsFor(convert, "JsonString")
      /\ IsNarrowText(v) => AppendsFor(write, "JsonString")
      /\ AppendsFor(port, "JsonLiteral") /\ AppendsFor(unsigned, "JsonLiteral")
      /\ AppendsFor(signed, "JsonLiteral") /\ AppendsFor(hex, "JsonCleanString")
      /\ v.inType = "UINT32" /\ v.outType = "IPV4" => AppendsFor(ipv4, "JsonCleanString")
  BY <1>5, <1>6, <1>7
<1> HIDE DEF convert, write, port, ipv4, hex, signed, unsigned, appends, t
<1>10. AppendsFor(appends, t)
  BY <1>8, <1>9
<1> QED BY <1>10 DEF appends, t

\* A result code that is shown as a number.
LEMMA FallenBackFor ==
  ASSUME NEW v, WellFormedValue(v), IsResultCode(v), v.inType # "HEXINT32"
  PROVE  AppendsFor(NumberAppends(v), "JsonLiteral")
<1>1. \/ v.inType = "INT32" /\ v.outType = "HRESULT"
      \/ v.inType = "UINT32" /\ v.outType \in {"WIN32ERROR", "NTSTATUS"}
  BY DEF IsResultCode, DomainOf
<1>2. InDecimal(v) /\ ~InHex(v)
  BY <1>1 DEF InDecimal, InHex, SignedTypes, UnsignedTypes, HexTypes, PointerTypes
<1>3. TypeOf(v) = "JsonLiteral"
  BY <1>1, <1>2 DEF TypeOf, WideTypes, MbcsTypes
<1> QED BY <1>2, <1>3, NumberAppendsFor

-----------------------------------------------------------------------------
\* The types that AddValue has a case of its own for.
NamedTypes ==
    {"NULL", "BOOLEAN", "GUID", "FLOAT", "DOUBLE", "FILETIME", "SYSTEMTIME", "SID", "WBEMSID"}
    \cup WideTypes \cup MbcsTypes
    \cup SignedTypes \cup UnsignedTypes \cup HexTypes \cup PointerTypes

\* The values that are neither text nor number nor BOOLEAN are clean.
LEMMA OtherTypes ==
  ASSUME NEW v,
         v.inType \notin WideTypes \cup MbcsTypes \cup SignedTypes \cup UnsignedTypes \cup PointerTypes,
         v.inType \notin {"BOOLEAN", "FLOAT", "DOUBLE"}
  PROVE  TypeOf(v) = "JsonCleanString"
<1>1. ~InDecimal(v) /\ v.inType \notin {"INT8", "UINT8", "UINT16"}
  BY DEF InDecimal, SignedTypes, UnsignedTypes
<1> QED BY <1>1 DEF TypeOf

LEMMA NumbersOrNot ==
  ASSUME NEW v
  PROVE  InDecimal(v) \/ InHex(v) <=>
           v.inType \in SignedTypes \cup UnsignedTypes \cup HexTypes \cup PointerTypes
BY DEF InDecimal, InHex, SignedTypes, UnsignedTypes, HexTypes, PointerTypes

LEMMA TypesApart ==
  ASSUME NEW t
  PROVE  /\ t \in WideTypes =>
              t \notin {"NULL", "BOOLEAN", "GUID", "FLOAT", "DOUBLE", "FILETIME", "SYSTEMTIME", "SID",
                        "WBEMSID"} \cup MbcsTypes \cup SignedTypes \cup UnsignedTypes \cup HexTypes
                        \cup PointerTypes
         /\ t \in MbcsTypes =>
              t \notin {"NULL", "BOOLEAN", "GUID", "FLOAT", "DOUBLE", "FILETIME", "SYSTEMTIME", "SID",
                        "WBEMSID"} \cup SignedTypes \cup UnsignedTypes \cup HexTypes \cup PointerTypes
         /\ t \in SignedTypes \cup UnsignedTypes \cup HexTypes \cup PointerTypes =>
              t \notin {"NULL", "BOOLEAN", "GUID", "FLOAT", "DOUBLE", "FILETIME", "SYSTEMTIME", "SID",
                        "WBEMSID"}
BY DEF WideTypes, MbcsTypes, SignedTypes, UnsignedTypes, HexTypes, PointerTypes

\* What a value is appended as, case by case.
LEMMA ValueCases ==
  ASSUME NEW v, NEW flags, NEW bias
  PROVE  LET appends == ValueAppends(v, flags, bias)
             t == v.inType
         IN  /\ t = "NULL" => appends = << >>
             /\ t \in WideTypes => appends = <<Write(Chars(SubSeq(v.data, 1, v.cb \div 2)))>>
             /\ t \in MbcsTypes => appends = <<Convert(v, Converted(v.data))>>
             /\ t \in SignedTypes \cup UnsignedTypes \cup HexTypes \cup PointerTypes =>
                  appends = NumberAppends(v)
             /\ t \in {"FLOAT", "DOUBLE"} => appends = <<Printf(<<<<"%g", v.data[1]>>>>)>>
             /\ t = "BOOLEAN" =>
                  appends = <<Write(<<Mark(IF v.data[1] # 0 THEN "true" ELSE "false")>>)>>
             /\ t = "GUID" =>
                  appends = <<Printf(<<Mark("{"), <<"guid", v.data[1]>>, Mark("}")>>)>>
             /\ t \in {"FILETIME", "SYSTEMTIME"} => appends = TimeText(v, flags, bias)
             /\ t \in {"SID", "WBEMSID"} => appends = Sid(v)
             /\ t \notin NamedTypes =>
                  appends = CASE v.outType = "IPV6" /\ v.cb = 16 -> <<Reserve(IPv6(Groups(v, 1)))>>
                              [] v.outType = "SOCKETADDRESS" -> SockAddr(v)
                              [] OTHER -> HexDump(v)
<1> DEFINE t == v.inType
           wide == <<Write(Chars(SubSeq(v.data, 1, v.cb \div 2)))>>
           mbcs == <<Convert(v, Converted(v.data))>>
           number == NumberAppends(v)
           float == <<Printf(<<<<"%g", v.data[1]>>>>)>>
           bool == <<Write(<<Mark(IF v.data[1] # 0 THEN "true" ELSE "false")>>)>>
           guid == <<Printf(<<Mark("{"), <<"guid", v.data[1]>>, Mark("}")>>)>>
           time == TimeText(v, flags, bias)
           sid == Sid(v)
           other == CASE v.outType = "IPV6" /\ v.cb = 16 -> <<Reserve(IPv6(Groups(v, 1)))>>
                      [] v.outType = "SOCKETADDRESS" -> SockAddr(v)
                      [] OTHER -> HexDump(v)
           isNumber == InDecimal(v) \/ InHex(v)
           nothing == << >>
<1>1. ValueAppends(v, flags, bias) =
        CASE t = "NULL" -> nothing
          [] t \in WideTypes -> wide
          [] t \in MbcsTypes -> mbcs
          [] isNumber -> number
          [] t \in {"FLOAT", "DOUBLE"} -> float
          [] t = "BOOLEAN" -> bool
          [] t = "GUID" -> guid
          [] t \in {"FILETIME", "SYSTEMTIME"} -> time
          [] t \in {"SID", "WBEMSID"} -> sid
          [] OTHER -> other
  BY DEF ValueAppends
<1>2. isNumber <=> t \in SignedTypes \cup UnsignedTypes \cup HexTypes \cup PointerTypes
  BY NumbersOrNot
<1> DEFINE a == ValueAppends(v, flags, bias)
<1> HIDE DEF a, t, wide, mbcs, number, float, bool, guid, time, sid, other, isNumber, nothing
<1>3. /\ t = "NULL" => a = nothing
      /\ t \in WideTypes => a = wide
      /\ t \in MbcsTypes => a = mbcs
      /\ t \in SignedTypes \cup UnsignedTypes \cup HexTypes \cup PointerTypes => a = number
      /\ t \in {"FLOAT", "DOUBLE"} => a = float
      /\ t = "BOOLEAN" => a = bool
      /\ t = "GUID" => a = guid
      /\ t \in {"FILETIME", "SYSTEMTIME"} => a = time
      /\ t \in {"SID", "WBEMSID"} => a = sid
      /\ t \notin NamedTypes => a = other
  BY <1>1, <1>2, TypesApart DEF NamedTypes, a
<1> QED
  BY <1>3 DEF a, t, wide, mbcs, number, float, bool, guid, time, sid, other, nothing

\* Every value is appended as the type of its text promises: text that is not
\* to be escaped has nothing that must be, and what is no string is a literal.
THEOREM ValueAppendsFor ==
  ASSUME NEW v, WellFormedValue(v), SizeIsValid(v), NEW flags, NEW bias \in Int
  PROVE  AppendsFor(ValueAppends(v, flags, bias), TypeOf(v))
<1> DEFINE appends == ValueAppends(v, flags, bias)
           t == v.inType
<1>0. v.data \in Seq(Int) /\ v.cb \in Nat
  BY DEF WellFormedValue
<1>1. CASE t = "NULL"
  <2>1. appends = << >>
    BY <1>1, ValueCases
  <2>2. TypeOf(v) = "JsonCleanString"
    BY <1>1, OtherTypes DEF WideTypes, MbcsTypes, SignedTypes, UnsignedTypes, PointerTypes
  <2>3. << >> \in Seq(CleanAppends)
    OBVIOUS
  <2> HIDE DEF appends
  <2>4. AppendsFor(appends, "JsonCleanString")
    BY <2>1, <2>3, CleanAppendsFor
  <2> QED BY <2>2, <2>4 DEF appends
<1>2. CASE t \in WideTypes \cup MbcsTypes
  <2>1. TypeOf(v) = "JsonString"
    <3>1. ~InDecimal(v) /\ t \notin {"INT8", "UINT8", "UINT16"}
          /\ t \notin {"BOOLEAN", "FLOAT", "DOUBLE"}
      BY <1>2 DEF InDecimal, WideTypes, MbcsTypes, SignedTypes, UnsignedTypes, PointerTypes
    <3> QED BY <1>2, <3>1 DEF TypeOf
  <2>2. v.data \in Seq(Nat)
    BY <1>2 DEF WellFormedValue, IsTextual
  <2>3. t \in WideTypes => Len(v.data) >= v.cb \div 2
    BY DEF WellFormedValue
  <2> DEFINE wide == <<Write(Chars(SubSeq(v.data, 1, v.cb \div 2)))>>
             mbcs == <<Convert(v, Converted(v.data))>>
  <2>4. AppendsFor(mbcs, "JsonString") /\ (t \in WideTypes => AppendsFor(wide, "JsonString"))
    BY <1>0, <2>2, <2>3, TextAppends
  <2>5. (t \in WideTypes => appends = wide) /\ (t \in MbcsTypes => appends = mbcs)
    BY ValueCases, Zenon
  <2> HIDE DEF appends, wide, mbcs
  <2>6. AppendsFor(appends, "JsonString")
    BY <1>2, <2>4, <2>5
  <2> QED BY <2>1, <2>6 DEF appends
<1>3. CASE t \in SignedTypes \cup UnsignedTypes \cup HexTypes \cup PointerTypes
  <2>1. appends = NumberAppends(v)
    BY <1>3, ValueCases, Zenon
  <2>2. InDecimal(v) \/ InHex(v)
    BY <1>3, NumbersOrNot
  <2>3. AppendsFor(NumberAppends(v), TypeOf(v))
    BY <2>2, NumberAppendsFor
  <2> HIDE DEF appends
  <2>4. AppendsFor(appends, TypeOf(v))
    BY <2>1, <2>3
  <2> QED BY <2>4 DEF appends
<1>4. CASE t \in {"FLOAT", "DOUBLE", "BOOLEAN"}
  <2>1. v.data[1] \in Int
    <3>1. Len(v.data) >= 1
      BY <1>4 DEF WellFormedValue, NumberTypes
    <3> QED BY <1>0, <3>1, NumbersAre
  <2>2. ~InDecimal(v) /\ t \notin WideTypes \cup MbcsTypes /\ t \notin {"INT8", "UINT8", "UINT16"}
    BY <1>4 DEF InDecimal, WideTypes, MbcsTypes, SignedTypes, UnsignedTypes, PointerTypes
  <2>3. TypeOf(v) = IF t = "BOOLEAN" THEN "JsonLiteral"
                    ELSE IF v.data[1] \in NotFinite THEN "JsonCleanString" ELSE "JsonLiteral"
    BY <1>4, <2>2 DEF TypeOf
  <2> DEFINE float == <<Printf(<<<<"%g", v.data[1]>>>>)>>
             bool == <<Write(<<Mark(IF v.data[1] # 0 THEN "true" ELSE "false")>>)>>
  <2>4. (t = "BOOLEAN" => appends = bool) /\ (t \in {"FLOAT", "DOUBLE"} => appends = float)
    BY ValueCases, Zenon
  <2>5. AppendsFor(bool, "JsonLiteral") /\ AppendsFor(float, "JsonCleanString")
        /\ (v.data[1] \notin NotFinite => AppendsFor(float, "JsonLiteral"))
    BY <2>1, LiteralAppends, BooleanAppends
  <2> HIDE DEF appends, bool, float
  <2>6. AppendsFor(appends, TypeOf(v))
    BY <1>4, <2>3, <2>4, <2>5
  <2> QED BY <2>6 DEF appends
<1>5. CASE t = "GUID"
  <2>1. v.data[1] \in Int
    <3>1. Len(v.data) >= 1
      BY <1>5 DEF WellFormedValue, NumberTypes
    <3> QED BY <1>0, <3>1, NumbersAre
  <2> DEFINE guid == <<Mark("{"), <<"guid", v.data[1]>>, Mark("}")>>
  <2>2. guid \in Seq(CleanCharacters)
    BY <2>1, CleanMarks, CleanKinds, ThreeCleanCharacters
  <2>3. appends = <<Printf(guid)>>
    BY <1>5, ValueCases, Zenon
  <2>4. TypeOf(v) = "JsonCleanString"
    BY <1>5, OtherTypes DEF WideTypes, MbcsTypes, SignedTypes, UnsignedTypes, PointerTypes
  <2> HIDE DEF appends, guid
  <2>5. appends \in Seq(CleanAppends)
    BY <2>2, <2>3, CleanPrintfIs, OneCleanAppend
  <2>6. AppendsFor(appends, "JsonCleanString")
    BY <2>5, CleanAppendsFor
  <2> QED BY <2>4, <2>6 DEF appends
<1>6. CASE t \in {"FILETIME", "SYSTEMTIME"}
  <2>1. v.data[1] \in Int
    <3>1. Len(v.data) >= 1
      BY <1>6 DEF WellFormedValue, NumberTypes
    <3> QED BY <1>0, <3>1, NumbersAre
  <2>2. appends = TimeText(v, flags, bias)
    BY <1>6, ValueCases, Zenon
  <2>3. TimeText(v, flags, bias) \in Seq(CleanAppends)
    BY <2>1, TimeTextIs
  <2>4. TypeOf(v) = "JsonCleanString"
    BY <1>6, OtherTypes DEF WideTypes, MbcsTypes, SignedTypes, UnsignedTypes, PointerTypes
  <2> HIDE DEF appends
  <2>5. AppendsFor(appends, "JsonCleanString")
    BY <2>2, <2>3, CleanAppendsFor
  <2> QED BY <2>4, <2>5 DEF appends
<1>7. CASE t \in {"SID", "WBEMSID"}
  <2>1. appends = Sid(v)
    BY <1>7, ValueCases, Zenon
  <2>2. v.cb >= 8
    BY <1>7 DEF SizeIsValid
  <2>3. Sid(v) \in Seq(CleanAppends)
    BY <1>7, <2>2, SidIs
  <2>4. TypeOf(v) = "JsonCleanString"
    BY <1>7, OtherTypes DEF WideTypes, MbcsTypes, SignedTypes, UnsignedTypes, PointerTypes
  <2> HIDE DEF appends
  <2>5. AppendsFor(appends, "JsonCleanString")
    BY <2>1, <2>3, CleanAppendsFor
  <2> QED BY <2>4, <2>5 DEF appends
<1>8. CASE t \notin NamedTypes
  <2>1. v.inType \notin NumberTypes
    BY <1>8 DEF NamedTypes, NumberTypes
  <2> DEFINE ipv6 == <<Reserve(IPv6(Groups(v, 1)))>>
             sockaddr == SockAddr(v)
             dump == HexDump(v)
  <2>2. appends = CASE v.outType = "IPV6" /\ v.cb = 16 -> ipv6
                    [] v.outType = "SOCKETADDRESS" -> sockaddr
                    [] OTHER -> dump
    BY <1>8, ValueCases, Zenon
  <2>3. v.outType = "IPV6" /\ v.cb = 16 => ipv6 \in Seq(CleanAppends)
    <3> SUFFICES ASSUME v.outType = "IPV6", v.cb = 16 PROVE ipv6 \in Seq(CleanAppends)
      OBVIOUS
    <3>1. Len(v.data) >= 8
      BY <2>1 DEF WellFormedValue
    <3>2. Reserve(IPv6(Groups(v, 1))) \in CleanAppends
      <4>1. 1 \in Nat \ {0} /\ Len(v.data) >= 1 + 7
        BY <1>0, <3>1, LenProperties
      <4> QED BY <1>0, <4>1, GroupsAre
    <3> QED BY <3>2, OneCleanAppend
  <2>4. v.outType = "SOCKETADDRESS" => sockaddr \in Seq(CleanAppends)
    BY <2>1, SockAddrIs
  <2>5. dump \in Seq(CleanAppends)
    BY <1>0, HexDumpIs
  <2>6. TypeOf(v) = "JsonCleanString"
    BY <1>8, OtherTypes DEF NamedTypes
  <2> HIDE DEF appends, ipv6, sockaddr, dump
  <2>7. appends \in Seq(CleanAppends)
    BY <2>2, <2>3, <2>4, <2>5
  <2>8. AppendsFor(appends, "JsonCleanString")
    BY <2>7, CleanAppendsFor
  <2> QED BY <2>6, <2>8 DEF appends
<1> QED BY <1>1, <1>2, <1>3, <1>4, <1>5, <1>6, <1>7, <1>8 DEF NamedTypes

-----------------------------------------------------------------------------
(* Maps and result codes. *)

LEMMA NumberOfIs ==
  ASSUME NEW bits
  PROVE  NumberOf(bits) \in Int
<1> DEFINE n == BitCount
           bit(k) == IF n - k \in bits THEN 1 ELSE 0
           next == [k \in 1 .. n |-> [i \in Int |-> 2 * i + bit(k)]]
           J == CHOOSE J : J = [k \in 0 .. n |-> IF k = 0 THEN 0
                                                 ELSE 2 * J[k - 1] + (IF n - k \in bits THEN 1 ELSE 0)]
<1>1. n \in Nat
  BY CallbacksAssumption
<1>2. \A k \in 1 .. n : bit(k) \in Int
  OBVIOUS
<1> HIDE DEF n, bit
<1>3. next \in [1 .. n -> [Int -> Int]]
  BY <1>2
<1> HIDE DEF next
<1>4. PICK f \in [0 .. n -> Int] :
        f[0] = 0 /\ \A k \in 1 .. n : f[k] = next[k][f[k - 1]]
  <2>1. Stepwise(Int, n, 0, next)
    BY <1>1, <1>3 DEF Stepwise
  <2> QED BY <2>1, Upwards
<1>5. f = [k \in 0 .. n |-> IF k = 0 THEN 0 ELSE 2 * f[k - 1] + bit(k)]
  <2>1. \A k \in 1 .. n : k - 1 \in 0 .. n
    BY <1>1
  <2>2. \A k \in 1 .. n : f[k] = 2 * f[k - 1] + bit(k)
    BY <1>4, <2>1 DEF next
  <2>3. \A k \in 0 .. n : f[k] = IF k = 0 THEN 0 ELSE 2 * f[k - 1] + bit(k)
    <3>1. \A k \in 0 .. n : k = 0 \/ k \in 1 .. n
      BY <1>1
    <3> QED BY <1>4, <2>2, <3>1
  <2> QED BY <1>4, <2>3
<1>6. J = [k \in 0 .. n |-> IF k = 0 THEN 0 ELSE 2 * J[k - 1] + bit(k)]
  BY <1>5 DEF bit
<1>7. NumberOf(bits) = J[n]
  BY DEF NumberOf, n
<1> HIDE DEF J
<1>8. J[0] = 0 /\ \A k \in 1 .. n : J[k] = 2 * J[k - 1] + bit(k)
  <2> DEFINE E(k) == IF k = 0 THEN 0 ELSE 2 * J[k - 1] + bit(k)
  <2>1. J = [k \in 0 .. n |-> E(k)]
    BY <1>6
  <2>2. \A k \in 0 .. n : J[k] = E(k)
    <3> HIDE DEF E
    <3> QED BY <2>1
  <2>3. 0 \in 0 .. n /\ \A k \in 1 .. n : k \in 0 .. n /\ k # 0
    BY <1>1
  <2>4. \A k \in 1 .. n : E(k) = 2 * J[k - 1] + bit(k)
    BY <2>3
  <2> HIDE DEF E
  <2>5. E(0) = 0
    BY DEF E
  <2> QED BY <2>2, <2>3, <2>4, <2>5
<1>9. \A k \in 0 .. n : J[k] \in Int
  <2> DEFINE S == {k \in Nat : J[k] \in Int}
  <2>1. 0 \in S
    BY <1>1, <1>8
  <2>2. \A k \in 0 .. n - 1 : k \in S => k + 1 \in S
    <3> SUFFICES ASSUME NEW k \in 0 .. n - 1, k \in S PROVE k + 1 \in S
      OBVIOUS
    <3>1. PICK j \in 1 .. n : j = k + 1 /\ j - 1 = k /\ j \in Nat
      BY <1>1
    <3>2. J[j] = 2 * J[j - 1] + bit(j)
      BY <1>8
    <3>3. J[j - 1] \in Int /\ bit(j) \in Int
      BY <1>2, <3>1
    <3>4. J[j] \in Int
      BY <3>2, <3>3
    <3> QED BY <3>1, <3>4
  <2> HIDE DEF S
  <2>3. \A k \in 0 .. n : k \in S
    BY <1>1, <2>1, <2>2, BoundedInduction
  <2> QED BY <2>3 DEF S
<1> QED BY <1>1, <1>7, <1>9

LEMMA NumberIsClean ==
  ASSUME NEW hexadecimal, NEW n \in Int
  PROVE  Number(hexadecimal, n) \in CleanCharacters
BY CleanKinds DEF Number

\* A map as the callbacks are given it.
IsMap(map) == map.entries \in Seq([value: Nat, name: Int])

LEMMA NameIsClean ==
  ASSUME NEW map, IsMap(map), NEW i \in DOMAIN map.entries
  PROVE  Name(map.entries[i]) \in CleanCharacters
<1> DEFINE entry == map.entries[i]
<1>1. entry \in [value: Nat, name: Int]
  <2> DEFINE entries == map.entries
  <2>1. entries \in Seq([value: Nat, name: Int]) /\ i \in DOMAIN entries
    BY DEF IsMap
  <2> HIDE DEF entries
  <2>2. entries[i] \in [value: Nat, name: Int]
    <3> DEFINE V == [value: Nat, name: Int]
    <3>1. entries \in Seq(V)
      BY <2>1
    <3> HIDE DEF V
    <3>2. i \in 1 .. Len(entries)
      BY <2>1, <3>1, LenProperties
    <3>3. entries[i] \in V
      BY <3>1, <3>2, ElementOfSeq
    <3> QED BY <3>3 DEF V
  <2> QED BY <2>2 DEF entries
<1> HIDE DEF entry
<1>2. entry.name \in Int
  BY <1>1
<1>3. Name(entry) \in CleanCharacters
  BY <1>2, CleanKinds DEF Name
<1> QED BY <1>3 DEF entry

LEMMA SixCharacters ==
  ASSUME NEW a \in CleanCharacters, NEW b \in CleanCharacters, NEW c \in CleanCharacters,
         NEW d \in CleanCharacters, NEW e \in CleanCharacters, NEW f \in CleanCharacters
  PROVE  /\ <<a>> \in Seq(Characters) /\ <<a, b>> \in Seq(Characters)
         /\ <<a, b, c>> \in Seq(Characters) /\ <<a, b, c, d>> \in Seq(Characters)
         /\ <<a, b, c, d, e, f>> \in Seq(Characters)
BY CleanIsCharacters

LEMMA ValueMapTextIs ==
  ASSUME NEW map, IsMap(map), NEW hexadecimal, NEW n \in Int
  PROVE  ValueMapText(map, hexadecimal, n) \in Seq(Characters)
<1> DEFINE found == EntriesFor(map, n)
           first == CHOOSE i \in found : \A j \in found : i <= j
           name == IF found = {} THEN Unknown ELSE Name(map.entries[first])
<1>1. found \subseteq DOMAIN map.entries
  BY DEF EntriesFor
<1>2. DOMAIN map.entries \subseteq Nat
  BY DEF IsMap
<1>3. found # {} => first \in found
  <2> HIDE DEF found
  <2> QED BY <1>1, <1>2, LeastElement
<1>4. Unknown \in CleanCharacters
  BY CleanMarks DEF Unknown
<1>5. name \in CleanCharacters
  <2> HIDE DEF found, first
  <2>1. CASE found = {}
    BY <1>4, <2>1
  <2>2. CASE found # {}
    <3>1. first \in DOMAIN map.entries
      BY <1>1, <1>3, <2>2
    <3>2. Name(map.entries[first]) \in CleanCharacters
      BY <3>1, NameIsClean
    <3> QED BY <2>2, <3>2
  <2> QED BY <2>1, <2>2
<1>6. ValueMapText(map, hexadecimal, n) = <<Number(hexadecimal, n), Mark("("), name, Mark(")")>>
  BY DEF ValueMapText
<1> HIDE DEF name
<1>7. Number(hexadecimal, n) \in CleanCharacters /\ Mark("(") \in CleanCharacters /\ Mark(")") \in CleanCharacters
  BY CleanMarks, NumberIsClean
<1> DEFINE a == Number(hexadecimal, n)
           b == Mark("(")
           c == Mark(")")
<1> HIDE DEF a, b, c
<1>8. <<a, b, name, c>> \in Seq(Characters)
  BY <1>5, <1>7, SixCharacters DEF a, b, c
<1> QED BY <1>6, <1>8 DEF a, b, c

LEMMA BitTextIs ==
  ASSUME NEW map, IsMap(map), NEW i \in DOMAIN map.entries, NEW hexadecimal, NEW n \in Int, NEW isFirst
  PROVE  BitText(map.entries[i], hexadecimal, n, isFirst) \in Seq(Characters)
<1> DEFINE name == Name(map.entries[i])
           a == Number(hexadecimal, n)
           b == Mark("[")
           c == Mark(",")
<1>1. name \in CleanCharacters /\ a \in CleanCharacters
  BY NameIsClean, NumberIsClean
<1>2. b \in CleanCharacters /\ c \in CleanCharacters
  BY CleanMarks
<1>3. BitText(map.entries[i], hexadecimal, n, isFirst) = IF isFirst THEN <<a, b, name>> ELSE <<c, name>>
  BY DEF BitText
<1> HIDE DEF name, a, b, c
<1>4. <<a, b, name>> \in Seq(Characters) /\ <<c, name>> \in Seq(Characters)
  BY <1>1, <1>2, SixCharacters
<1> QED BY <1>3, <1>4

LEMMA BitMapEndIs ==
  ASSUME NEW hexadecimal, NEW n \in Int, NEW matched, NEW found
  PROVE  BitMapEnd(hexadecimal, n, matched, found) \in Seq(Characters)
<1> DEFINE a == Number(hexadecimal, n)
           b == Mark("[")
           c == Mark("]")
           d == Mark(",")
           h == Hex(NumberOf(Bits(n) \ matched))
           u == Unknown
<1>1. a \in CleanCharacters
  BY NumberIsClean
<1>2. b \in CleanCharacters /\ c \in CleanCharacters /\ d \in CleanCharacters /\ u \in CleanCharacters
  BY CleanMarks DEF Unknown
<1>3. h \in CleanCharacters
  BY NumberOfIs, CleanKinds
<1>4. BitMapEnd(hexadecimal, n, matched, found) =
        CASE ~found -> <<a, b>> \o (IF n = 0 THEN << >> ELSE <<u>>) \o <<c>>
          [] found /\ matched # Bits(n) -> <<d, h, c>>
          [] OTHER -> <<c>>
  BY DEF BitMapEnd
<1> HIDE DEF a, b, c, d, h, u
<1> DEFINE s == <<a, b>>
           t == IF n = 0 THEN << >> ELSE <<u>>
           last == <<c>>
<1>5. /\ s \in Seq(Characters) /\ last \in Seq(Characters)
      /\ <<u>> \in Seq(Characters) /\ <<d, h, c>> \in Seq(Characters)
  BY <1>1, <1>2, <1>3, SixCharacters
<1>6. t \in Seq(Characters)
  <2>1. << >> \in Seq(Characters)
    OBVIOUS
  <2> QED BY <1>5, <2>1
<1> HIDE DEF s, t, last
<1>7. s \o t \o last \in Seq(Characters)
  BY <1>5, <1>6, ConcatProperties
<1> QED BY <1>4, <1>5, <1>7 DEF s, t, last

LEMMA ResultCodeTextIs ==
  ASSUME NEW domain \in {"HR", "NT", "WIN"}, NEW hexadecimal, NEW n \in Int, NEW isKnown
  PROVE  ResultCodeText(domain, hexadecimal, n, isKnown) \in Seq(Characters)
<1> DEFINE a == Number(hexadecimal, n)
           b == Mark("(")
           c == Mark(domain)
           d == Mark("=")
           e == IF isKnown THEN Lookup(domain, n) ELSE Unknown
           f == Mark(")")
<1>1. n - NtBit \in Int
  BY CallbacksAssumption
<1>2. Lookup(domain, n) \in CleanCharacters
  <2> DEFINE m == n - NtBit
  <2>1. /\ <<"system", n>> \in CleanCharacters /\ <<"ntdll", n>> \in CleanCharacters
        /\ <<"ntdll", m>> \in CleanCharacters
    BY <1>1, CleanKinds
  <2>2. Lookup(domain, n) \in {<<"system", n>>, <<"ntdll", n>>, <<"ntdll", m>>}
    BY DEF Lookup
  <2> QED BY <2>1, <2>2
<1>3. /\ b \in CleanCharacters /\ d \in CleanCharacters /\ f \in CleanCharacters
      /\ Unknown \in CleanCharacters
  BY CleanMarks DEF Unknown
<1>4. c \in CleanCharacters
  BY CleanMarks
<1>5. a \in CleanCharacters /\ e \in CleanCharacters
  BY <1>2, <1>3, NumberIsClean
<1>6. ResultCodeText(domain, hexadecimal, n, isKnown) = <<a, b, c, d, e, f>>
  BY DEF ResultCodeText
<1> HIDE DEF a, b, c, d, e, f
<1> QED BY <1>3, <1>4, <1>5, <1>6, SixCharacters

-----------------------------------------------------------------------------
(***************************************************************************)
(* A value that is added as JSON, step by step.                            *)
(***************************************************************************)
\* The steps in which no append waits or runs.
Quiet ==
    EntrySteps \cup {"idle", "cleared", "returned", "asString", "asJson", "mapTooSmall", "code",
                     "fallBack"}

\* Those in which they do.
AppendSteps == {"ahead", "bitmap", "appending", "inJson", "printed"}

BitMapFields == {"next", "matched", "found", "failed"}

\* What holds between the steps of every call.
QuietInv ==
    /\ capacity \in [Buffers -> Nat]
    /\ step \in Quiet \cup AppendSteps
    /\ step \in Quiet => todo = << >> /\ made = 0 /\ ~Appending
    /\ step \in {"idle", "cleared"} => text = [b \in Buffers |-> << >>]
    /\ DOMAIN bitmap = BitMapFields /\ bitmap.next \in Nat \ {0}

\* What a buffer has without what the append that runs has done so far.
Settled(b) == IF Appending /\ append.to = b THEN append.before ELSE text[b]

\* How many appends of this step have ended, and whether none has failed.
Ended == IF Appending THEN made - 1 ELSE made
Live  == Appending \/ ~Failed

\* What was added to a buffer after what is ahead.
SizeOf(b) == Len(Settled(b))
AfterAhead(s) == SubSeq(s, call.ahead + 1, Len(s))
AddedTo(b) == AfterAhead(Settled(b))

IsAdded == step \notin {"idle", "cleared"} /\ call.op = "AddAsJson"

AnyAppend ==
    {a \in [fn: Functions, chars: Seq(Characters), count: Nat] :
        a.fn = "reserved" => Len(a.chars) <= a.count}

\* Only the last append, to the output, is AppendStringAsJson.
Waiting ==
    {t \in [to: Buffers, append: AnyAppend] :
        t.append.fn = "json" => t.to = "m_stringBuffer2"}

AppendsInv ==
    /\ TextInv /\ JsonInv
    /\ todo \in Seq(Waiting) /\ made \in 0 .. Len(todo)
    /\ Appending => /\ step \in AppendSteps
                    /\ made \in 1 .. Len(todo)
                    /\ append.to = todo[made].to
                    /\ append.fn = todo[made].append.fn /\ append.chars = todo[made].append.chars
    /\ Settled("m_stringBuffer") \in Seq(Characters)

\* The text of each type.
IsTextFor(t, s) ==
    /\ s \in Seq(Characters)
    /\ t = "JsonCleanString" => s \in Seq(CleanCharacters)
    /\ t = "JsonLiteral" => IsJsonLiteral(s)

\* What JsonValueIsValid asks for.
IsJsonFor(t, s) ==
    IF t \in {"JsonString", "JsonCleanString"}
    THEN IsQuoted(s) /\ IsWellFormed(JsonText(SubSeq(s, 2, Len(s) - 1)))
    ELSE IsJsonLiteral(s)

IsAhead ==
    /\ todo = Ahead(call)
    /\ Live => /\ SizeOf("m_stringBuffer2") = (IF Ended >= 1 THEN call.ahead ELSE 0)
               /\ SizeOf("m_stringBuffer")  = (IF Ended >= 2 THEN call.ahead ELSE 0)

IsLooking == SizeOf("m_stringBuffer2") = call.ahead /\ SizeOf("m_stringBuffer") = call.ahead

IsToScratch ==
    /\ SizeOf("m_stringBuffer2") = call.ahead
    /\ call.ahead <= SizeOf("m_stringBuffer")
    /\ \A k \in 1 .. Len(todo) : todo[k].to = "m_stringBuffer" /\ todo[k].append \in Appends

IsAppending ==
    /\ type \in {"JsonString", "JsonCleanString", "JsonLiteral"}
    /\ type = "JsonCleanString" =>
         /\ AddedTo("m_stringBuffer") \in Seq(CleanCharacters)
         /\ \A k \in 1 .. Len(todo) : todo[k].append.chars \in Seq(CleanCharacters)
    /\ type = "JsonLiteral" =>
         /\ Len(todo) = 1 /\ IsJsonLiteral(todo[1].append.chars) /\ todo[1].append.fn # "mbcs"
         /\ Live => AddedTo("m_stringBuffer") = IF Ended = 0 THEN << >> ELSE todo[1].append.chars

IsScratch ==
    /\ SizeOf("m_stringBuffer2") = call.ahead
    /\ call.ahead <= SizeOf("m_stringBuffer")
    /\ type \in {"JsonString", "JsonCleanString", "JsonLiteral"}
    /\ IsTextFor(type, AddedTo("m_stringBuffer"))

InJson ==
    /\ Len(todo) = 1 /\ todo[1].to = "m_stringBuffer2"
    /\ todo[1].append.fn \in {"wide", "json"}
    /\ IsJsonFor(type, Whole(todo[1].append.fn, todo[1].append.chars))
    /\ Live => AddedTo("m_stringBuffer2") =
                 IF Ended = 0 THEN << >> ELSE Whole(todo[1].append.fn, todo[1].append.chars)
    /\ call.ahead <= SizeOf("m_stringBuffer2")

\* What holds in each step.
AddedInv ==
    /\ step \notin {"asString", "printed"}
    /\ step = "ahead" => IsAhead
    /\ step \in EntrySteps \cup {"mapTooSmall", "code", "fallBack"} => IsLooking
    /\ step \in {"code", "fallBack"} => IsResultCode(call.value)
    /\ step = "bitmap" => HasMap
    /\ step \in {"bitmap", "appending"} => IsToScratch
    /\ step = "appending" => IsAppending
    /\ step = "asJson" /\ type # "None" => IsScratch
    /\ step = "inJson" => InJson
    /\ step = "returned" /\ lastError = "SUCCESS" => IsJsonFor(type, AddedTo("m_stringBuffer2"))

AddInv == IsAdded => (step # "returned" => AppendsInv) /\ AddedInv

-----------------------------------------------------------------------------
\* What follows the first n elements.
LEMMA RestIs ==
  ASSUME NEW S, NEW s \in Seq(S), NEW n \in Nat, n <= Len(s)
  PROVE  /\ SubSeq(s, n + 1, Len(s)) \in Seq(S)
         /\ Len(SubSeq(s, n + 1, Len(s))) = Len(s) - n
         /\ \A k \in 1 .. Len(s) - n : SubSeq(s, n + 1, Len(s))[k] = s[n + k]
<1> DEFINE len == Len(s)
           r == SubSeq(s, n + 1, len)
<1>1. len \in Nat /\ \A k \in 1 .. len : s[k] \in S
  BY LenProperties, ElementOfSeq
<1>2. r = [k \in 1 .. len - (n + 1) + 1 |-> s[n + 1 + k - 1]]
  BY DEF r
<1> HIDE DEF r, len
<1>3. len - (n + 1) + 1 = len - n /\ len - n \in Nat
  BY <1>1 DEF len
<1>4. \A k \in 1 .. len - n : n + 1 + k - 1 = n + k /\ n + k \in 1 .. len
  BY <1>1, <1>3
<1>5. r = [k \in 1 .. len - n |-> s[n + k]]
  BY <1>2, <1>3, <1>4
<1>6. \A k \in 1 .. len - n : s[n + k] \in S
  BY <1>1, <1>4
<1> DEFINE m == len - n
<1>7. r = [k \in 1 .. m |-> s[n + k]] /\ m \in Nat /\ \A k \in 1 .. m : s[n + k] \in S
  BY <1>3, <1>5, <1>6
<1> HIDE DEF m
<1>8. r \in Seq(S) /\ Len(r) = m /\ \A k \in 1 .. m : r[k] = s[n + k]
  BY <1>7
<1> QED BY <1>8 DEF r, len, m

LEMMA RestOfNothing ==
  ASSUME NEW S, NEW s \in Seq(S), NEW n \in Nat, n = Len(s)
  PROVE  SubSeq(s, n + 1, Len(s)) = << >>
<1>1. Len(SubSeq(s, n + 1, Len(s))) = 0 /\ SubSeq(s, n + 1, Len(s)) \in Seq(S)
  BY RestIs
<1> QED BY <1>1

LEMMA RestOfConcat ==
  ASSUME NEW S, NEW s \in Seq(S), NEW a \in Seq(S), NEW n \in Nat, n <= Len(s)
  PROVE  /\ SubSeq(s \o a, n + 1, Len(s \o a)) = SubSeq(s, n + 1, Len(s)) \o a
         /\ n <= Len(s \o a)
<1> DEFINE t == s \o a
           r == SubSeq(s, n + 1, Len(s))
           u == SubSeq(t, n + 1, Len(t))
           w == r \o a
           len == Len(s)
           more == Len(a)
<1>1. /\ t \in Seq(S) /\ Len(t) = len + more /\ len \in Nat /\ more \in Nat
      /\ \A i \in 1 .. len : t[i] = s[i]
      /\ \A i \in 1 .. more : t[len + i] = a[i]
  BY ConcatIs
<1>2. r \in Seq(S) /\ Len(r) = len - n /\ \A k \in 1 .. len - n : r[k] = s[n + k]
  BY RestIs
<1> HIDE DEF t, r
<1>3. n <= Len(t)
  BY <1>1
<1>4. /\ w \in Seq(S) /\ Len(w) = Len(r) + more
      /\ \A i \in 1 .. Len(r) : w[i] = r[i]
      /\ \A i \in 1 .. more : w[Len(r) + i] = a[i]
  <2>1. r \in Seq(S)
    BY <1>2
  <2> QED BY <2>1, ConcatIs
<1>5. /\ u \in Seq(S) /\ Len(u) = Len(t) - n
      /\ \A k \in 1 .. Len(t) - n : u[k] = t[n + k]
  BY <1>1, <1>3, RestIs
<1> HIDE DEF w, u, len, more
<1>6. Len(u) = Len(w)
  BY <1>1, <1>2, <1>4, <1>5
<1>7. \A k \in 1 .. Len(u) : u[k] = w[k]
  <2> SUFFICES ASSUME NEW k \in 1 .. Len(u) PROVE u[k] = w[k]
    OBVIOUS
  <2>0. u[k] = t[n + k]
    BY <1>5
  <2>1. CASE k <= len - n
    <3>1. k \in 1 .. len - n /\ n + k \in 1 .. len /\ k \in 1 .. Len(r)
      BY <1>1, <1>2, <1>3, <1>5, <2>1 DEF len
    <3>2. w[k] = r[k] /\ r[k] = s[n + k] /\ t[n + k] = s[n + k]
      BY <1>1, <1>2, <1>4, <3>1
    <3> QED BY <2>0, <3>2
  <2>2. CASE ~(k <= len - n)
    <3>0. len - n \in Nat
      BY <1>1 DEF len
    <3>1. PICK j \in 1 .. more : k = (len - n) + j /\ n + k = len + j
      <4>1. k - (len - n) \in 1 .. more
        BY <1>1, <1>5, <2>2, <3>0
      <4>2. k = (len - n) + (k - (len - n)) /\ n + k = len + (k - (len - n))
        BY <1>1, <1>5, <3>0
      <4> QED BY <4>1, <4>2
    <3>2. w[Len(r) + j] = a[j] /\ t[len + j] = a[j]
      BY <1>1, <1>4
    <3> QED BY <1>2, <2>0, <3>1, <3>2
  <2> QED BY <2>1, <2>2
<1>8. u = w
  BY <1>4, <1>5, <1>6, <1>7, SeqEqual
<1> QED BY <1>3, <1>8 DEF u, w, t, r

-----------------------------------------------------------------------------
LEMMA RoomIsCapacity ==
  ASSUME capacity \in [Buffers -> Nat], NEW n, MakesRoom(n) \/ RoomRefused(n)
  PROVE  capacity' \in [Buffers -> Nat]
BY TextAssumption DEF MakesRoom, RoomRefused

LEMMA CapacityIsKept ==
  ASSUME capacity \in [Buffers -> Nat], TextNext
  PROVE  capacity' \in [Buffers -> Nat]
<1>1. \/ UNCHANGED capacity
      \/ \E n : MakesRoom(n) \/ RoomRefused(n)
  BY DEF TextNext, Wide, PrintfFits, PrintfGrows, MbcsReserves, MbcsFits, MbcsGrows, MbcsFails,
         MbcsAsserts, JsonBegins, JsonCharacter, JsonEnds, Reserved
<1> QED BY <1>1, RoomIsCapacity

LEMMA InitQuiet == Init => QuietInv
BY TextAssumption DEF Init, InitText, QuietInv, NoBits, Appending, BitMapFields, Quiet

\* A step of a call that begins no append and does not run one.
LEMMA ReturningIsQuiet ==
  ASSUME QuietInv, NEW error, NEW t, Return(error, t), ~Appending, UNCHANGED <<capacity, append>>
  PROVE  QuietInv'
BY DEF QuietInv, Return, AfterValue, Appending, BitMapFields, Quiet

LEMMA ShowingIsQuiet ==
  ASSUME QuietInv, UNCHANGED <<capacity, append, bitmap>>, step' \in AppendSteps
  PROVE  QuietInv'
BY DEF QuietInv, Quiet, AppendSteps, EntrySteps, Appending

LEMMA GoingIsQuiet ==
  ASSUME QuietInv, ~Appending, UNCHANGED <<capacity, append, bitmap>>, todo' = << >>, made' = 0,
         step' \in (Quiet \cup AppendSteps) \ {"idle", "cleared"}
  PROVE  QuietInv'
BY DEF QuietInv, Appending

LEMMA StepIsQuiet ==
  ASSUME QuietInv, CallInv, ValueStep
  PROVE  QuietInv'
<1>0. step \notin {"idle", "cleared"} /\ call.entry \in EntrySteps
  BY StepKeepsCall DEF CallInv, WellFormedCall
<1>1. CASE MakeAppend
  <2>1. step \notin Quiet
    BY <1>1 DEF MakeAppend, QuietInv
  <2> QED BY <1>1, <2>1 DEF MakeAppend, QuietInv
<1>2. CASE AppendStep
  <2>1. step \notin Quiet
    BY <1>2, AppendsRun DEF AppendStep, QuietInv
  <2>2. capacity' \in [Buffers -> Nat]
    BY <1>2, CapacityIsKept DEF AppendStep, QuietInv
  <2> QED BY <1>0, <1>2, <2>1, <2>2 DEF AppendStep, QuietInv, valueVars, callVars
<1>3. CASE AheadEnds
  BY <1>0, <1>3, GoingIsQuiet DEF AheadEnds, GoTo, Between, TextStays, textVars, EntrySteps, Quiet
<1>4. CASE AheadFails
  BY <1>4, GoingIsQuiet DEF AheadFails, Quiet, Between, TextStays, textVars
<1>5. CASE MapFails \/ MapWrongSize \/ MapOutOfMemory \/ WrongSize \/ AppendFails \/ Appended
  BY <1>5, ReturningIsQuiet DEF MapFails, MapWrongSize, MapOutOfMemory, WrongSize, AppendFails, Appended,
                     Between, TextStays, textVars
<1>6. CASE \/ MapFound \/ MapNotFound \/ MapTooSmall \/ MapGrows \/ MapNotUsed \/ OtherMap
           \/ ResultCode \/ CodeNotFound \/ CodeJumpsBack \/ PrintfIgnored \/ PrintfText
           \/ PrintfNoString
  <2>1. todo = << >> /\ made = 0
    BY <1>6 DEF QuietInv, Quiet, EntrySteps, Between, MapFound, MapNotFound, MapTooSmall, MapGrows,
                MapNotUsed, OtherMap, ResultCode, CodeNotFound, CodeJumpsBack, PrintfIgnored,
                PrintfText, PrintfNoString
  <2> QED BY <1>6, <2>1, GoingIsQuiet
          DEF GoTo, Quiet, EntrySteps, AppendSteps, Between, TextStays, textVars, NameStep, MapFound, MapNotFound, MapTooSmall, MapGrows,
              MapNotUsed, OtherMap, ResultCode, CodeNotFound, CodeJumpsBack, PrintfIgnored,
              PrintfText, PrintfNoString
<1>7. CASE \/ ValueMap \/ BitMap \/ PlainValue \/ CodeShown \/ CodeFallsBack \/ JsonAppends
           \/ PrintfNumber \/ PrintfString
  <2>1. step' \in AppendSteps
    BY <1>7 DEF AppendSteps, Shows, ValueMap, BitMap, PlainValue, CodeShown, CodeFallsBack, JsonAppends,
                PrintfNumber, PrintfString
  <2> QED BY <1>7, <2>1, ShowingIsQuiet
          DEF TextStays, textVars, ValueMap, BitMap, PlainValue, CodeShown, CodeFallsBack, JsonAppends,
              PrintfNumber, PrintfString
<1>8. CASE JsonEnd \/ PrintfEnds \/ PrintfFails
  BY <1>8, GoingIsQuiet DEF JsonEnd, PrintfEnds, PrintfFails, Quiet, Between, TextStays, textVars
<1>9. CASE BitMapEntry
  <2>1. step' = "bitmap" /\ UNCHANGED capacity
    BY <1>9 DEF BitMapEntry, Between, TextStays, textVars
  <2>2. DOMAIN bitmap' = BitMapFields /\ bitmap'.next \in Nat \ {0}
    <3>1. \/ bitmap' = [bitmap EXCEPT !.next = @ + 1]
          \/ \E bits : bitmap' = [bitmap EXCEPT !.next = @ + 1, !.found = TRUE, !.matched = bits]
      BY <1>9 DEF BitMapEntry
    <3>2. DOMAIN bitmap' = DOMAIN bitmap /\ bitmap'.next = bitmap.next + 1
      BY <3>1 DEF QuietInv, BitMapFields
    <3> QED BY <3>2 DEF QuietInv
  <2> QED BY <2>1, <2>2 DEF QuietInv, Quiet, AppendSteps, EntrySteps
<1>10. CASE BitMapEnds
  <2>1. step' = "appending" /\ UNCHANGED capacity
    BY <1>10 DEF BitMapEnds, Shows, TextStays, textVars
  <2>2. DOMAIN bitmap' = BitMapFields /\ bitmap'.next \in Nat \ {0}
    <3>1. bitmap' = [bitmap EXCEPT !.failed = Failed]
      BY <1>10 DEF BitMapEnds
    <3> QED BY <3>1 DEF QuietInv, BitMapFields
  <2> QED BY <2>1, <2>2 DEF QuietInv, Quiet, AppendSteps, EntrySteps
<1> QED
  BY <1>1, <1>2, <1>3, <1>4, <1>5, <1>6, <1>7, <1>8, <1>9, <1>10 DEF ValueStep

LEMMA QuietInvIsKept ==
  ASSUME QuietInv, CallInv, [Next]_vars
  PROVE  QuietInv'
<1>1. CASE Clear
  BY <1>1 DEF Clear, QuietInv, Quiet, EntrySteps, Appending, NoBits, BitMapFields
<1>2. CASE Begin
  BY <1>2 DEF Begin, QuietInv, Quiet, AppendSteps, EntrySteps, textVars
<1>3. CASE ValueStep
  BY <1>3, StepIsQuiet
<1>4. CASE Set
  BY <1>4 DEF Set, QuietInv, Quiet, EntrySteps, textVars, callVars, Appending
<1>5. CASE UNCHANGED vars
  BY <1>5 DEF QuietInv, Quiet, EntrySteps, Appending, vars, textVars, valueVars, callVars
<1> QED BY <1>1, <1>2, <1>3, <1>4, <1>5 DEF Next

-----------------------------------------------------------------------------
\* The next append begins: the buffers have what they had.
SettledStays ==
    /\ Live /\ Live' /\ Ended' = Ended
    /\ \A b \in Buffers : Settled(b)' = Settled(b)

LEMMA MakeAppendIs ==
  ASSUME QuietInv, AppendsInv, MakeAppend
  PROVE  AppendsInv' /\ SettledStays
<1> DEFINE w == todo[made + 1]
           a == w.append
<1>1. /\ ~Appending /\ ~Failed /\ made' = made + 1 /\ UNCHANGED <<text, capacity, status, step, todo>>
      /\ BeginAppend(a.fn, w.to, a.chars, a.count)
  BY DEF MakeAppend
<1>2. made \in Nat /\ made + 1 \in 1 .. Len(todo) /\ todo \in Seq(Waiting)
  BY LenProperties DEF MakeAppend, AppendsInv
<1>3. w \in Waiting
  <2> DEFINE m == made + 1
  <2> HIDE DEF m
  <2>1. m \in 1 .. Len(todo)
    BY <1>2 DEF m
  <2>2. todo[m] \in Waiting
    BY <1>2, <2>1, ElementOfSeq
  <2> QED BY <2>2 DEF m
<1>4. /\ a.fn \in Functions /\ w.to \in Buffers /\ a.chars \in Seq(Characters) /\ a.count \in Nat
      /\ a.fn = "reserved" => Len(a.chars) <= a.count
  BY <1>3 DEF Waiting, AnyAppend
<1> HIDE DEF a, w
<1>5. BeginAnyAppend
  BY <1>1, <1>4 DEF BeginAnyAppend
<1>6. TextInv'
  BY <1>1, <1>5, BeginningIsSafe DEF AppendsInv
<1>7. /\ append'.fn = a.fn /\ append'.to = w.to /\ append'.chars = a.chars
      /\ append'.before = text[w.to] /\ append'.begun = FALSE
  BY <1>1 DEF BeginAppend
<1>8. Appending'
  <2>1. a.fn # "none"
    BY <1>4 DEF Functions
  <2> QED BY <1>7, <2>1 DEF Appending, NoAppend
<1>9. JsonInv'
  BY <1>7 DEF JsonInv
<1>10. step \in AppendSteps
  <2>1. step \notin Quiet
    BY DEF MakeAppend, QuietInv
  <2> QED BY <2>1 DEF QuietInv
<1>11. \A b \in Buffers : Settled(b)' = Settled(b)
  BY <1>1, <1>7, <1>8 DEF Settled
<1>12. Ended' = Ended /\ Live /\ Live'
  BY <1>1, <1>2, <1>8 DEF Ended, Live
<1>13. Settled("m_stringBuffer")' \in Seq(Characters)
  BY <1>11, ValueAssumption DEF AppendsInv
<1> QED
  BY <1>1, <1>2, <1>6, <1>7, <1>8, <1>9, <1>10, <1>11, <1>12, <1>13 DEF AppendsInv, SettledStays, a, w

\* The append that runs ends well: a is what it was to append.
SettledGrows ==
    LET w == todo[made]
        a == w.append
    IN  /\ Live /\ Live' /\ Ended' = Ended + 1 /\ Ended = made - 1
        /\ \/ \A b \in Buffers : Settled(b)' = IF b = w.to THEN Settled(b) \o Whole(a.fn, a.chars)
                                                           ELSE Settled(b)
           \/ a.fn = "mbcs" /\ \A b \in Buffers : Settled(b)' = Settled(b)

\* It fails.
SettledFails ==
    /\ ~Live'
    /\ \A b \in Buffers : b = "m_stringBuffer" \/ todo[made].append.fn # "json" =>
                            Settled(b)' = Settled(b)
    /\ todo[made].to = "m_stringBuffer2" =>
         Settled("m_stringBuffer2") = append.before /\ Begins(append.before, Settled("m_stringBuffer2")')

LEMMA AppendStepHappens ==
  ASSUME AppendsInv, AppendStep
  PROVE  /\ Appending /\ TextInv' /\ JsonInv' /\ (GoesOn \/ Ends) /\ StepIsWhole
         /\ UNCHANGED <<step, todo, made, type, call, bitmap, lastError>>
         /\ made \in 1 .. Len(todo) /\ made \in Nat
         /\ append.to = todo[made].to /\ append.to \in Buffers
         /\ append.fn = todo[made].append.fn /\ append.chars = todo[made].append.chars
         /\ todo[made] \in Waiting
<1>1. Appending /\ TextNext
  BY AppendsRun DEF AppendStep
<1>2. TextInv' /\ JsonInv' /\ (GoesOn \/ Ends) /\ StepIsWhole
  BY <1>1, TextStepIsSafe, AppendStepIs DEF AppendsInv
<1>3. todo[made] \in Waiting /\ made \in Nat /\ made \in 1 .. Len(todo)
  <2>1. made \in 1 .. Len(todo) /\ todo \in Seq(Waiting)
    BY <1>1 DEF AppendsInv
  <2> QED BY <2>1, ElementOfSeq, LenProperties
<1>4. append.to \in Buffers
  BY <1>3, <1>1 DEF AppendsInv, Waiting
<1> QED BY <1>1, <1>2, <1>3, <1>4 DEF AppendStep, AppendsInv, valueVars, callVars

LEMMA AppendStepGoesOn ==
  ASSUME AppendsInv, AppendStep, GoesOn
  PROVE  AppendsInv' /\ SettledStays
<1>1. /\ Appending /\ TextInv' /\ JsonInv'
      /\ UNCHANGED <<step, todo, made>> /\ append.to \in Buffers /\ made \in 1 .. Len(todo)
  BY AppendStepHappens
<1>2. Appending'
  <2>1. append'.fn \in Functions
    BY DEF GoesOn, AppendCall
  <2> QED BY <2>1 DEF Appending, NoAppend, Functions
<1>3. \A b \in Buffers : Settled(b)' = Settled(b)
  BY <1>1, <1>2 DEF GoesOn, Settled
<1>4. Live /\ Live' /\ Ended' = Ended
  BY <1>1, <1>2 DEF Live, Ended
<1>5. Settled("m_stringBuffer")' \in Seq(Characters)
  BY <1>3, ValueAssumption DEF AppendsInv
<1> QED BY <1>1, <1>2, <1>3, <1>4, <1>5 DEF AppendsInv, SettledStays, GoesOn

LEMMA AppendStepEnds ==
  ASSUME AppendsInv, AppendStep, Ends
  PROVE  AppendsInv' /\ (SettledGrows \/ SettledFails)
<1> DEFINE w == todo[made]
           a == w.append
<1>1. /\ Appending /\ TextInv' /\ JsonInv' /\ StepIsWhole
      /\ UNCHANGED <<step, todo, made>> /\ append.to \in Buffers /\ made \in 1 .. Len(todo)
      /\ append.to = w.to /\ append.fn = a.fn /\ append.chars = a.chars /\ w \in Waiting
      /\ made \in Nat
  BY AppendStepHappens
<1> HIDE DEF w, a
<1>2. ~Appending'
  BY DEF Ends, Appending
<1>3. \A b \in Buffers : /\ Settled(b) = IF b = append.to THEN append.before ELSE text[b]
                         /\ Settled(b)' = text'[b]
  BY <1>1, <1>2 DEF Settled
<1>4. a.fn # "json" => text[append.to] = append.before
  BY <1>1 DEF AppendsInv, TextInv, Progress
<1>5. Live /\ Ended = made - 1 /\ Ended' = made
  BY <1>1, <1>2 DEF Live, Ended
<1>6. w.to = "m_stringBuffer" => a.fn # "json"
  BY <1>1 DEF Waiting, a
<1>7. text \in [Buffers -> Seq(Stored)]
  BY DEF AppendsInv, TextInv, TextType
<1>8. CASE status' = "SUCCESS" /\ text' # text
  <2>1. /\ text' = [text EXCEPT ![append.to] = append.before \o Whole(append.fn, append.chars)]
    BY <1>8 DEF Ends
  <2>2. Live' /\ Ended' = Ended + 1
    BY <1>1, <1>2, <1>5, <1>8 DEF Live, Failed
  <2>3. \A b \in Buffers : Settled(b)' = IF b = w.to THEN Settled(b) \o Whole(a.fn, a.chars)
                                                     ELSE Settled(b)
    <3>1. \A b \in Buffers : text'[b] = IF b = append.to THEN append.before \o Whole(append.fn, append.chars)
                                                          ELSE text[b]
      BY <1>7, <2>1
    <3> QED BY <1>1, <1>3, <3>1, ZenonT(60)
  <2>4. SettledGrows
    BY <1>5, <2>2, <2>3 DEF SettledGrows, w, a
  <2>5. Settled("m_stringBuffer")' \in Seq(Characters)
    <3>1. CASE w.to = "m_stringBuffer"
      <4>1. Whole(a.fn, a.chars) = a.chars
        BY <1>6, <3>1 DEF Whole
      <4>2. a.chars \in Seq(Characters) /\ Settled("m_stringBuffer") \in Seq(Characters)
        BY <1>1, CallFacts DEF AppendsInv
      <4>3. Settled("m_stringBuffer")' = Settled("m_stringBuffer") \o a.chars
        BY <2>3, <3>1, <4>1, ValueAssumption
      <4> DEFINE s == Settled("m_stringBuffer")
                 c == a.chars
      <4> HIDE DEF s, c
      <4>4. s \o c \in Seq(Characters)
        BY <4>2, ConcatProperties DEF s, c
      <4> QED BY <4>3, <4>4 DEF s, c
    <3>2. CASE w.to # "m_stringBuffer"
      BY <2>3, <3>2, ValueAssumption DEF AppendsInv
    <3> QED BY <3>1, <3>2
  <2> QED BY <1>1, <1>2, <2>4, <2>5 DEF AppendsInv
<1>9. CASE status' = "SUCCESS" /\ text' = text
  <2>1. append.before \o Whole(append.fn, append.chars) = text[append.to] \/ append.fn = "mbcs"
    BY <1>1, <1>7, <1>9 DEF Ends
  <2>2. Live' /\ Ended' = Ended + 1
    BY <1>1, <1>2, <1>5, <1>9 DEF Live, Failed
  <2>3. \/ \A b \in Buffers : Settled(b)' = IF b = w.to THEN Settled(b) \o Whole(a.fn, a.chars)
                                                        ELSE Settled(b)
        \/ a.fn = "mbcs" /\ \A b \in Buffers : Settled(b)' = Settled(b)
    <3>1. CASE append.fn = "mbcs"
      BY <1>1, <1>3, <1>4, <1>9, <3>1
    <3>2. CASE append.fn # "mbcs"
      BY <1>1, <1>3, <1>9, <2>1, <3>2
    <3> QED BY <3>1, <3>2
  <2>4. SettledGrows
    BY <1>5, <2>2, <2>3 DEF SettledGrows, w, a
  <2>5. Settled("m_stringBuffer")' \in Seq(Characters)
    <3>1. Settled("m_stringBuffer")' = Settled("m_stringBuffer")
      BY <1>1, <1>3, <1>4, <1>6, <1>9, ValueAssumption
    <3> QED BY <3>1 DEF AppendsInv
  <2> QED BY <1>1, <1>2, <2>4, <2>5 DEF AppendsInv
<1>10. CASE status' # "SUCCESS"
  <2>1. text' = text
    BY <1>10 DEF Ends
  <2>2. ~Live'
    BY <1>1, <1>2, <1>10 DEF Live, Failed
  <2>3. \A b \in Buffers : b = "m_stringBuffer" \/ a.fn # "json" => Settled(b)' = Settled(b)
    BY <1>1, <1>3, <1>4, <1>6, <2>1
  <2>4. w.to = "m_stringBuffer2" =>
          Settled("m_stringBuffer2") = append.before /\ Begins(append.before, Settled("m_stringBuffer2")')
    BY <1>1, <1>3 DEF StepIsWhole
  <2>5. Settled("m_stringBuffer")' \in Seq(Characters)
    BY <2>3, ValueAssumption DEF AppendsInv
  <2>6. SettledFails
    BY <2>2, <2>3, <2>4 DEF SettledFails, w, a
  <2> QED BY <1>1, <1>2, <2>5, <2>6 DEF AppendsInv
<1> QED BY <1>8, <1>9, <1>10

-----------------------------------------------------------------------------
LEMMA WholeIs ==
  ASSUME NEW chars \in Seq(Characters), NEW fn
  PROVE  Whole(fn, chars) \in Seq(Characters)
<1> DEFINE u == Joined(Escapes(chars))[Len(chars)]
           q == <<QuoteMark>>
<1>1. u \in Seq(Characters)
  <2>1. Len(chars) \in 0 .. Len(chars)
    BY LenProperties
  <2> QED BY <2>1, EscapedFacts
<1>2. q \in Seq(Characters)
  BY QuoteIsCharacter
<1> HIDE DEF u, q
<1>3. q \o u \in Seq(Characters)
  BY <1>1, <1>2, ConcatProperties
<1>4. q \o u \o q \in Seq(Characters)
  BY <1>2, <1>3, ConcatProperties
<1>5. Quoted(chars) \in Seq(Characters)
  BY <1>4 DEF Quoted, u, q
<1> QED BY <1>5 DEF Whole

LEMMA SettledIs ==
  ASSUME AppendsInv, NEW b \in Buffers
  PROVE  Settled(b) \in Seq(Stored)
<1>1. text[b] \in Seq(Stored)
  BY DEF AppendsInv, TextInv, TextType
<1>2. Appending => append.before \in Seq(Stored)
  BY CallFacts DEF AppendsInv
<1> QED BY <1>1, <1>2 DEF Settled

LEMMA TwoOnes ==
  ASSUME NEW x, NEW y
  PROVE  <<x>> \o <<y>> = <<x, y>>
<1> DEFINE a == <<x>>
           b == <<y>>
           V == {x, y}
           t == <<x, y>>
<1>1. /\ a \in Seq(V) /\ b \in Seq(V) /\ Len(a) = 1 /\ Len(b) = 1 /\ a[1] = x /\ b[1] = y
      /\ t \in Seq(V) /\ Len(t) = 2 /\ t[1] = x /\ t[2] = y
  OBVIOUS
<1> HIDE DEF a, b, t, V
<1>2. /\ a \o b \in Seq(V) /\ Len(a \o b) = 2 /\ (a \o b)[1] = x /\ (a \o b)[1 + 1] = y
  <2>0. a \in Seq(V) /\ b \in Seq(V)
    BY <1>1
  <2>1. a \o b \in Seq(V)
    BY <2>0, ConcatIs
  <2>2. Follows(a \o b, a, b)
    BY <2>0, FollowsIs
  <2> QED BY <1>1, <2>1, <2>2 DEF Follows
<1>3. \A k \in 1 .. 2 : (a \o b)[k] = t[k]
  BY <1>1, <1>2
<1>4. a \o b = t
  BY <1>1, <1>2, <1>3, SeqEqual
<1> QED BY <1>4 DEF a, b, t

LEMMA AheadIs ==
  ASSUME NEW c, c.op # "Format", c.ahead \in Nat
  PROVE  /\ Ahead(c) \in Seq(Waiting) /\ Len(Ahead(c)) = 2
         /\ Ahead(c)[1].to = "m_stringBuffer2" /\ Ahead(c)[2].to = "m_stringBuffer"
         /\ \A k \in 1 .. 2 : /\ Ahead(c)[k].append.fn = "wide"
                              /\ Len(Ahead(c)[k].append.chars) = c.ahead
<1> DEFINE n == c.ahead
           s == [k \in 1 .. n |-> Ch(97)]
           a == Write(s)
           one == At("m_stringBuffer2", <<a>>)
           two == At("m_stringBuffer", <<a>>)
<1>1. s \in Seq(Characters) /\ Len(s) = n
  <2>1. Ch(97) \in Characters
    BY ChIsCharacter
  <2> DEFINE ch == Ch(97)
  <2> HIDE DEF ch
  <2> QED BY <2>1 DEF ch
<1> HIDE DEF s
<1>2. a \in AnyAppend /\ a.fn = "wide" /\ a.chars = s
  BY <1>1 DEF Write, AnyAppend, Functions
<1> HIDE DEF a
<1>3. one = <<[to |-> "m_stringBuffer2", append |-> a]>> /\ two = <<[to |-> "m_stringBuffer", append |-> a]>>
  BY DEF At
<1>4. /\ [to |-> "m_stringBuffer2", append |-> a] \in Waiting
      /\ [to |-> "m_stringBuffer", append |-> a] \in Waiting
  BY <1>2, ValueAssumption DEF Waiting
<1>5. Ahead(c) = one \o two
  BY DEF Ahead, Filler, a, s
<1> HIDE DEF one, two
<1>6. Ahead(c) = <<[to |-> "m_stringBuffer2", append |-> a], [to |-> "m_stringBuffer", append |-> a]>>
  BY <1>3, <1>5, TwoOnes
<1>7. Ahead(c) \in Seq(Waiting) /\ Len(Ahead(c)) = 2
  BY <1>4, <1>6
<1>8. /\ Ahead(c)[1] = [to |-> "m_stringBuffer2", append |-> a]
      /\ Ahead(c)[2] = [to |-> "m_stringBuffer", append |-> a]
  BY <1>6
<1>9. \A k \in 1 .. 2 : Ahead(c)[k].append = a
  BY <1>8
<1> QED BY <1>1, <1>2, <1>7, <1>8, <1>9

-----------------------------------------------------------------------------
LEMMA StayingKeepsAdded ==
  ASSUME AddedInv, SettledStays, UNCHANGED <<step, todo, type, call, lastError>>
  PROVE  AddedInv'
<1>1. \A b \in {"m_stringBuffer", "m_stringBuffer2"} : /\ SizeOf(b)' = SizeOf(b)
                                                       /\ AddedTo(b)' = AddedTo(b)
  BY ValueAssumption DEF SettledStays, SizeOf, AddedTo, AfterAhead
<1>2. IsAhead => IsAhead'
  BY <1>1 DEF IsAhead, SettledStays
<1>3. (IsLooking => IsLooking') /\ (IsToScratch => IsToScratch') /\ (HasMap => HasMap')
  BY <1>1 DEF IsLooking, IsToScratch, HasMap
<1>4. IsAppending => IsAppending'
  BY <1>1 DEF IsAppending, SettledStays
<1>5. (IsScratch => IsScratch') /\ (InJson => InJson')
  BY <1>1 DEF IsScratch, InJson, SettledStays
<1> QED BY <1>1, <1>2, <1>3, <1>4, <1>5 DEF AddedInv

\* A buffer that grows.
LEMMA GrownBuffer ==
  ASSUME AppendsInv, NEW b \in Buffers, NEW c \in Seq(Characters), Settled(b)' = Settled(b) \o c,
         call' = call, call.ahead \in Nat
  PROVE  /\ SizeOf(b)' = SizeOf(b) + Len(c) /\ SizeOf(b) \in Nat /\ Len(c) \in Nat
         /\ call.ahead <= SizeOf(b) => AddedTo(b)' = AddedTo(b) \o c
<1> DEFINE s == Settled(b)
           n == call.ahead
<1>1. s \in Seq(Stored) /\ c \in Seq(Stored)
  <2>1. Characters \subseteq Stored
    BY DEF Stored
  <2> QED BY <2>1, SettledIs, SeqMonotonic
<1>2. SizeOf(b)' = Len(s \o c) /\ SizeOf(b) = Len(s)
  BY DEF SizeOf
<1>3. AddedTo(b)' = SubSeq(s \o c, n + 1, Len(s \o c)) /\ AddedTo(b) = SubSeq(s, n + 1, Len(s))
  BY DEF AddedTo, AfterAhead
<1> HIDE DEF s
<1>4. Len(s \o c) = Len(s) + Len(c) /\ Len(s) \in Nat /\ Len(c) \in Nat
  BY <1>1, ConcatIs
<1>5. n <= Len(s) => SubSeq(s \o c, n + 1, Len(s \o c)) = SubSeq(s, n + 1, Len(s)) \o c
  BY <1>1, RestOfConcat
<1> QED BY <1>2, <1>3, <1>4, <1>5

\* What the appends do to the buffers, for one that ends.
LEMMA GrownBuffers ==
  ASSUME AppendsInv, SettledGrows, call' = call, call.ahead \in Nat, todo[made] \in Waiting
  PROVE  LET w == todo[made]
             c == Whole(w.append.fn, w.append.chars)
         IN  \A b \in Buffers :
               /\ SizeOf(b) \in Nat /\ Len(c) \in Nat
               /\ b = w.to /\ w.append.fn # "mbcs" =>
                    /\ SizeOf(b)' = SizeOf(b) + Len(c)
                    /\ call.ahead <= SizeOf(b) => AddedTo(b)' = AddedTo(b) \o c
               /\ b = w.to /\ w.append.fn = "mbcs" =>
                    \/ SizeOf(b)' = SizeOf(b) /\ AddedTo(b)' = AddedTo(b)
                    \/ /\ SizeOf(b)' = SizeOf(b) + Len(c)
                       /\ call.ahead <= SizeOf(b) => AddedTo(b)' = AddedTo(b) \o c
               /\ b # w.to => SizeOf(b)' = SizeOf(b) /\ AddedTo(b)' = AddedTo(b)
<1> DEFINE w == todo[made]
           c == Whole(w.append.fn, w.append.chars)
<1>1. c \in Seq(Characters)
  <2>1. w.append.chars \in Seq(Characters)
    BY DEF Waiting, AnyAppend
  <2> QED BY <2>1, WholeIs
<1>2. \/ \A b \in Buffers : Settled(b)' = IF b = w.to THEN Settled(b) \o c ELSE Settled(b)
      \/ w.append.fn = "mbcs" /\ \A b \in Buffers : Settled(b)' = Settled(b)
  BY DEF SettledGrows
<1> HIDE DEF w, c
<1> SUFFICES ASSUME NEW b \in Buffers
             PROVE  /\ SizeOf(b) \in Nat /\ Len(c) \in Nat
                    /\ b = w.to /\ w.append.fn # "mbcs" =>
                         /\ SizeOf(b)' = SizeOf(b) + Len(c)
                         /\ call.ahead <= SizeOf(b) => AddedTo(b)' = AddedTo(b) \o c
                    /\ b = w.to /\ w.append.fn = "mbcs" =>
                         \/ SizeOf(b)' = SizeOf(b) /\ AddedTo(b)' = AddedTo(b)
                         \/ /\ SizeOf(b)' = SizeOf(b) + Len(c)
                            /\ call.ahead <= SizeOf(b) => AddedTo(b)' = AddedTo(b) \o c
                    /\ b # w.to => SizeOf(b)' = SizeOf(b) /\ AddedTo(b)' = AddedTo(b)
  BY DEF w, c
<1>3. SizeOf(b) \in Nat /\ Len(c) \in Nat
  BY <1>1, SettledIs, LenProperties DEF SizeOf
<1>4. Settled(b)' = Settled(b) => SizeOf(b)' = SizeOf(b) /\ AddedTo(b)' = AddedTo(b)
  BY DEF SizeOf, AddedTo, AfterAhead
<1>5. ASSUME Settled(b)' = Settled(b) \o c
      PROVE  /\ SizeOf(b)' = SizeOf(b) + Len(c)
             /\ call.ahead <= SizeOf(b) => AddedTo(b)' = AddedTo(b) \o c
  BY <1>1, <1>5, GrownBuffer
<1> QED BY <1>2, <1>3, <1>4, <1>5

-----------------------------------------------------------------------------
LEMMA NothingBefore ==
  ASSUME NEW V, NEW s \in Seq(V)
  PROVE  << >> \o s = s
BY ConcatEmptySeq

\* The append that ends adds what the step is to add.
LEMMA GrowingKeepsAdded ==
  ASSUME AppendsInv, AddedInv, SettledGrows, call.op = "AddAsJson", call.ahead \in Nat,
         step \in {"ahead", "bitmap", "appending", "inJson"},
         made \in 1 .. Len(todo), made \in Nat, todo[made] \in Waiting,
         UNCHANGED <<step, todo, type, call, lastError>>
  PROVE  AddedInv'
<1> DEFINE w == todo[made]
           fn == w.append.fn
           chars == w.append.chars
           c == Whole(fn, chars)
           sb == "m_stringBuffer"
           s2 == "m_stringBuffer2"
           n == call.ahead
<1>1. /\ Live /\ Live' /\ Ended' = Ended + 1 /\ Ended = made - 1
      /\ chars \in Seq(Characters) /\ Len(chars) \in Nat /\ w.to \in {sb, s2}
  <2>1. chars \in Seq(Characters)
    BY DEF Waiting, AnyAppend
  <2> QED BY <2>1, LenProperties, ValueAssumption DEF SettledGrows, Waiting
<1>2. \A b \in {sb, s2} :
        /\ SizeOf(b) \in Nat /\ Len(c) \in Nat
        /\ b = w.to /\ fn # "mbcs" =>
             /\ SizeOf(b)' = SizeOf(b) + Len(c)
             /\ n <= SizeOf(b) => AddedTo(b)' = AddedTo(b) \o c
        /\ b = w.to /\ fn = "mbcs" =>
             \/ SizeOf(b)' = SizeOf(b) /\ AddedTo(b)' = AddedTo(b)
             \/ /\ SizeOf(b)' = SizeOf(b) + Len(c)
                /\ n <= SizeOf(b) => AddedTo(b)' = AddedTo(b) \o c
        /\ b # w.to => SizeOf(b)' = SizeOf(b) /\ AddedTo(b)' = AddedTo(b)
  BY GrownBuffers, ValueAssumption
<1>3. fn # "json" => c = chars
  BY DEF Whole
<1>4. c \in Seq(Characters)
  BY <1>1, WholeIs
<1> HIDE DEF w, fn, chars, c
<1>5. CASE step = "ahead"
  <2>1. /\ todo = Ahead(call) /\ SizeOf(s2) = (IF Ended >= 1 THEN n ELSE 0)
        /\ SizeOf(sb) = (IF Ended >= 2 THEN n ELSE 0)
    BY <1>1, <1>5 DEF AddedInv, IsAhead
  <2>2. /\ Len(todo) = 2 /\ todo[1].to = s2 /\ todo[2].to = sb
        /\ \A k \in 1 .. 2 : todo[k].append.fn = "wide" /\ Len(todo[k].append.chars) = n
    BY <2>1, AheadIs
  <2>3. fn = "wide" /\ Len(c) = n /\ made \in 1 .. 2
    BY <1>3, <2>2 DEF w, fn, chars
  <2>4. /\ SizeOf(s2)' = (IF Ended' >= 1 THEN n ELSE 0)
        /\ SizeOf(sb)' = (IF Ended' >= 2 THEN n ELSE 0)
    <3>1. CASE made = 1
      <4>1. w.to = s2
        BY <2>2, <3>1 DEF w
      <4>2. SizeOf(s2)' = SizeOf(s2) + n /\ SizeOf(sb)' = SizeOf(sb)
        BY <1>2, <2>3, <4>1
      <4>3. SizeOf(s2) = 0 /\ SizeOf(sb) = 0 /\ Ended' = 1
        BY <1>1, <2>1, <3>1
      <4> QED BY <4>2, <4>3
    <3>2. CASE made = 2
      <4>1. w.to = sb
        BY <2>2, <3>2 DEF w
      <4>2. SizeOf(sb)' = SizeOf(sb) + n /\ SizeOf(s2)' = SizeOf(s2)
        BY <1>2, <2>3, <4>1
      <4>3. SizeOf(s2) = n /\ SizeOf(sb) = 0 /\ Ended' = 2
        BY <1>1, <2>1, <3>2
      <4> QED BY <4>2, <4>3
    <3> QED BY <2>3, <3>1, <3>2
  <2>5. IsAhead'
    BY <1>1, <2>1, <2>4 DEF IsAhead
  <2> QED BY <1>5, <2>5 DEF AddedInv, EntrySteps
<1>6. CASE step \in {"bitmap", "appending"}
  <2>1. IsToScratch /\ w.to = sb /\ w.append \in Appends
    BY <1>6 DEF AddedInv, IsToScratch, w
  <2>2. fn # "json" /\ c = chars
    BY <1>3, <2>1 DEF Appends, fn
  <2>3. n <= SizeOf(sb) /\ SizeOf(s2) = n
    BY <2>1 DEF IsToScratch
  <2>4. /\ SizeOf(s2)' = n
        /\ \/ SizeOf(sb)' = SizeOf(sb) /\ AddedTo(sb)' = AddedTo(sb) /\ fn = "mbcs"
           \/ SizeOf(sb)' = SizeOf(sb) + Len(c) /\ AddedTo(sb)' = AddedTo(sb) \o chars
    BY <1>2, <2>1, <2>2, <2>3
  <2>5. n <= SizeOf(sb)'
    BY <1>2, <2>3, <2>4
  <2>6. IsToScratch'
    BY <2>1, <2>4, <2>5 DEF IsToScratch
  <2>7. ASSUME step = "appending" PROVE IsAppending'
    <3>1. IsAppending
      BY <2>7 DEF AddedInv
    <3>2. ASSUME type = "JsonCleanString" PROVE AddedTo(sb)' \in Seq(CleanCharacters)
      <4>1. AddedTo(sb) \in Seq(CleanCharacters) /\ chars \in Seq(CleanCharacters)
        BY <3>1, <3>2 DEF IsAppending, chars, w
      <4>2. AddedTo(sb) \o chars \in Seq(CleanCharacters)
        BY <4>1, CleanConcat
      <4> QED BY <2>4, <4>1, <4>2
    <3>3. ASSUME type = "JsonLiteral" PROVE AddedTo(sb)' = todo[1].append.chars /\ Ended' # 0
      <4>0. Len(todo) = 1 /\ todo[1].append.fn # "mbcs"
        BY <3>1, <3>3 DEF IsAppending
      <4>1. Len(todo) = 1 /\ made = 1 /\ Ended = 0 /\ fn # "mbcs"
        BY <1>1, <4>0 DEF fn, w
      <4>2. AddedTo(sb) = << >>
        BY <1>1, <3>1, <3>3, <4>1 DEF IsAppending
      <4>3. AddedTo(sb)' = << >> \o chars
        BY <2>4, <4>1, <4>2
      <4>4. << >> \o chars = chars
        BY <1>1, NothingBefore
      <4> QED BY <1>1, <4>1, <4>3, <4>4 DEF chars, w
    <3> QED BY <3>1, <3>2, <3>3 DEF IsAppending
  <2>8. HasMap => HasMap'
    BY DEF HasMap
  <2> QED BY <1>6, <2>6, <2>7, <2>8 DEF AddedInv, EntrySteps
<1>7. CASE step = "inJson"
  <2>1. InJson
    BY <1>7 DEF AddedInv
  <2>2. /\ Len(todo) = 1 /\ made = 1 /\ Ended = 0 /\ w.to = s2 /\ fn # "mbcs"
        /\ AddedTo(s2) = << >> /\ n <= SizeOf(s2)
    BY <1>1, <2>1 DEF InJson, fn, w
  <2>3. SizeOf(s2)' = SizeOf(s2) + Len(c) /\ AddedTo(s2)' = << >> \o c
    BY <1>2, <2>2
  <2>4. << >> \o c = c
    BY <1>4, NothingBefore
  <2>5. n <= SizeOf(s2)' /\ AddedTo(s2)' = Whole(todo[1].append.fn, todo[1].append.chars) /\ Ended' # 0
    BY <1>1, <1>2, <2>2, <2>3, <2>4 DEF c, fn, chars, w
  <2>6. InJson'
    BY <2>1, <2>5 DEF InJson
  <2> QED BY <1>7, <2>6 DEF AddedInv, EntrySteps
<1> QED BY <1>5, <1>6, <1>7

LEMMA FailingKeepsAdded ==
  ASSUME AppendsInv, AddedInv, SettledFails, call.ahead \in Nat,
         step \in {"ahead", "bitmap", "appending", "inJson"},
         made \in 1 .. Len(todo), Settled("m_stringBuffer2")' \in Seq(Stored),
         UNCHANGED <<step, todo, type, call, lastError>>
  PROVE  AddedInv'
<1>1. ~Live'
  BY DEF SettledFails
<1>2. CASE step = "ahead"
  BY <1>1, <1>2 DEF AddedInv, EntrySteps, IsAhead
<1>3. CASE step \in {"bitmap", "appending"}
  <2>1. IsToScratch /\ todo[made].append \in Appends
    BY <1>3 DEF AddedInv, IsToScratch
  <2>2. todo[made].append.fn # "json"
    BY <2>1 DEF Appends
  <2>3. \A b \in Buffers : Settled(b)' = Settled(b)
    BY <2>2 DEF SettledFails
  <2>4. \A b \in {"m_stringBuffer", "m_stringBuffer2"} : /\ SizeOf(b)' = SizeOf(b)
                                                         /\ AddedTo(b)' = AddedTo(b)
    BY <2>3, ValueAssumption DEF SizeOf, AddedTo, AfterAhead
  <2>5. IsToScratch'
    BY <2>1, <2>4 DEF IsToScratch
  <2>6. step = "appending" => IsAppending'
    BY <1>1, <2>4 DEF AddedInv, IsAppending
  <2>7. HasMap => HasMap'
    BY DEF HasMap
  <2> QED BY <1>3, <2>5, <2>6, <2>7 DEF AddedInv, EntrySteps
<1>4. CASE step = "inJson"
  <2>0. InJson
    BY <1>4, SMTT(30) DEF AddedInv
  <2>1. InJson /\ Len(todo) = 1 /\ made = 1
    BY <2>0, SMTT(30) DEF InJson
  <2>2. call.ahead <= SizeOf("m_stringBuffer2") /\ todo[made].to = "m_stringBuffer2"
    BY <2>1 DEF InJson
  <2>3. SizeOf("m_stringBuffer2") <= SizeOf("m_stringBuffer2")'
    BY <2>2 DEF SettledFails, Begins, SizeOf
  <2>4. SizeOf("m_stringBuffer2")' \in Nat /\ SizeOf("m_stringBuffer2") \in Nat
    BY SettledIs, ValueAssumption, LenProperties DEF SizeOf
  <2>5. call.ahead <= SizeOf("m_stringBuffer2")'
    BY <2>2, <2>3, <2>4
  <2>6. InJson'
    BY <1>1, <2>1, <2>5 DEF InJson
  <2> QED BY <1>4, <2>6 DEF AddedInv, EntrySteps
<1> QED BY <1>2, <1>3, <1>4

-----------------------------------------------------------------------------
LEMMA MakeAppendKeepsAdded ==
  ASSUME QuietInv, AppendsInv, AddedInv, MakeAppend
  PROVE  AppendsInv' /\ AddedInv'
<1>1. AppendsInv' /\ SettledStays
  BY MakeAppendIs
<1>2. UNCHANGED <<step, todo, type, call, lastError>>
  BY DEF MakeAppend
<1> QED BY <1>1, <1>2, StayingKeepsAdded

LEMMA AppendStepKeepsAdded ==
  ASSUME AppendsInv, AddedInv, AppendStep, call.op = "AddAsJson", call.ahead \in Nat
  PROVE  AppendsInv' /\ AddedInv'
<1>1. /\ GoesOn \/ Ends
      /\ UNCHANGED <<step, todo, type, call, lastError>>
      /\ made \in 1 .. Len(todo) /\ made \in Nat /\ todo[made] \in Waiting
      /\ step \in {"ahead", "bitmap", "appending", "inJson"}
  BY AppendStepHappens DEF AppendsInv, AppendSteps, AddedInv
<1>2. CASE GoesOn
  BY <1>1, <1>2, AppendStepGoesOn, StayingKeepsAdded
<1>3. CASE Ends
  <2>1. AppendsInv' /\ (SettledGrows \/ SettledFails)
    BY <1>3, AppendStepEnds
  <2>2. CASE SettledGrows
    BY <1>1, <2>1, <2>2, GrowingKeepsAdded
  <2>3. CASE SettledFails
    <3>1. Settled("m_stringBuffer2")' \in Seq(Stored)
      <4>1. /\ text' \in [Buffers -> Seq(Stored)]
            /\ Appending' => append'.before \in Seq(Stored)
        BY <2>1 DEF AppendsInv, TextInv, TextType, AppendCall
      <4> QED BY <4>1, ValueAssumption DEF Settled
    <3> QED BY <1>1, <2>1, <2>3, <3>1, FailingKeepsAdded
  <2> QED BY <2>1, <2>2, <2>3
<1> QED BY <1>1, <1>2, <1>3

-----------------------------------------------------------------------------
\* Between two appends.
LEMMA SettledBetween ==
  ASSUME ~Appending, NEW b
  PROVE  Settled(b) = text[b]
BY DEF Settled

\* Other appends are to be made.
LEMMA NewTodo ==
  ASSUME AppendsInv, ~Appending, TextStays, todo' \in Seq(Waiting), made' = 0, call' = call
  PROVE  /\ AppendsInv' /\ Live' /\ Ended' = 0
         /\ \A b \in {"m_stringBuffer", "m_stringBuffer2"} : SizeOf(b)' = SizeOf(b) /\ AddedTo(b)' = AddedTo(b)
<1>1. ~Appending' /\ UNCHANGED <<text, capacity, append, status>>
  BY DEF TextStays, textVars, Appending
<1>2. \A b : Settled(b)' = Settled(b)
  BY <1>1 DEF Settled
<1>3. TextInv' /\ JsonInv'
  BY <1>1 DEF AppendsInv, TextInv, TextType, TextInBuffer, JsonInv
<1>4. Live' /\ Ended' = 0
  BY <1>1 DEF Live, Failed, Ended
<1>5. made' \in 0 .. Len(todo')
  BY LenProperties
<1>6. AppendsInv'
  BY <1>1, <1>2, <1>3, <1>5 DEF AppendsInv
<1> QED BY <1>2, <1>4, <1>6 DEF SizeOf, AddedTo, AfterAhead

LEMMA NoTodo == << >> \in Seq(Waiting) /\ Len(<< >>) = 0
OBVIOUS

LEMMA AppendsAreWaiting ==
  ASSUME NEW appends \in Seq(Appends), NEW to \in Buffers
  PROVE  /\ At(to, appends) \in Seq(Waiting) /\ Len(At(to, appends)) = Len(appends)
         /\ \A k \in 1 .. Len(appends) : /\ At(to, appends)[k].to = to
                                         /\ At(to, appends)[k].append = appends[k]
                                         /\ appends[k] \in Appends
<1> DEFINE t == At(to, appends)
           n == Len(appends)
<1>1. n \in Nat /\ \A k \in 1 .. n : appends[k] \in Appends
  BY LenProperties, ElementOfSeq
<1>2. \A a \in Appends : a \in AnyAppend /\ a.fn # "json"
  BY DEF Appends, AnyAppend, Functions
<1>3. t = [k \in 1 .. n |-> [to |-> to, append |-> appends[k]]]
  BY DEF At
<1> HIDE DEF t, n
<1>4. \A k \in 1 .. n : [to |-> to, append |-> appends[k]] \in Waiting
  BY <1>1, <1>2 DEF Waiting
<1>5. t \in Seq(Waiting) /\ Len(t) = n
  BY <1>1, <1>3, <1>4
<1> QED BY <1>1, <1>3, <1>5 DEF t, n

-----------------------------------------------------------------------------
\* The value is shown by appends to the scratch buffer.
LEMMA ShowingKeepsAdded ==
  ASSUME AppendsInv, AddedInv, ~Appending, TextStays, call' = call, call.op = "AddAsJson",
         NEW t \in {"JsonString", "JsonCleanString", "JsonLiteral"}, NEW appends,
         AppendsFor(appends, t), Shows(t, appends),
         SizeOf("m_stringBuffer2") = call.ahead, call.ahead <= SizeOf("m_stringBuffer"),
         t # "JsonString" => AddedTo("m_stringBuffer") = << >>
  PROVE  AppendsInv' /\ AddedInv'
<1> DEFINE sb == "m_stringBuffer"
           s2 == "m_stringBuffer2"
           n == Len(appends)
<1>1. /\ todo' = At(sb, appends) /\ made' = 0 /\ type' = t /\ step' = "appending"
      /\ appends \in Seq(Appends)
  BY DEF Shows, Do, Target, IsProperty, AppendsFor
<1>2. /\ todo' \in Seq(Waiting) /\ Len(todo') = n /\ n \in Nat
      /\ \A k \in 1 .. n : todo'[k].to = sb /\ todo'[k].append = appends[k] /\ appends[k] \in Appends
  BY <1>1, AppendsAreWaiting, ValueAssumption, LenProperties
<1>3. /\ AppendsInv' /\ Live' /\ Ended' = 0
      /\ \A b \in {sb, s2} : SizeOf(b)' = SizeOf(b) /\ AddedTo(b)' = AddedTo(b)
  BY <1>1, <1>2, NewTodo
<1>4. IsToScratch'
  BY <1>2, <1>3 DEF IsToScratch
<1>5. ASSUME t = "JsonCleanString"
      PROVE  /\ AddedTo(sb)' \in Seq(CleanCharacters)
             /\ \A k \in 1 .. n : todo'[k].append.chars \in Seq(CleanCharacters)
  <2>1. appends \in Seq(CleanAppends)
    BY <1>5 DEF AppendsFor
  <2>2. \A k \in 1 .. n : appends[k] \in CleanAppends
    BY <2>1, ElementOfSeq
  <2>3. \A k \in 1 .. n : appends[k].chars \in Seq(CleanCharacters)
    BY <2>2 DEF CleanAppends
  <2>4. AddedTo(sb)' = << >>
    BY <1>3, <1>5
  <2>5. AddedTo(sb)' \in Seq(CleanCharacters)
    <3>1. << >> \in Seq(CleanCharacters)
      OBVIOUS
    <3> QED BY <2>4, <3>1, Zenon
  <2> QED BY <1>2, <2>3, <2>5
<1>6. ASSUME t = "JsonLiteral"
      PROVE  /\ n = 1 /\ IsJsonLiteral(todo'[1].append.chars) /\ todo'[1].append.fn # "mbcs"
             /\ AddedTo(sb)' = << >>
  BY <1>2, <1>3, <1>6 DEF AppendsFor
<1>7. IsAppending'
  BY <1>1, <1>2, <1>3, <1>5, <1>6 DEF IsAppending
<1> QED BY <1>1, <1>3, <1>4, <1>7 DEF AddedInv, EntrySteps

\* The value is still being looked up.
LEMMA LookingOn ==
  ASSUME AppendsInv, IsLooking, ~Appending, TextStays, call' = call, todo' = << >>, made' = 0,
         step' \in EntrySteps \cup {"mapTooSmall", "code", "fallBack"},
         step' \in {"code", "fallBack"} => IsResultCode(call.value)
  PROVE  AppendsInv' /\ AddedInv'
<1>1. /\ AppendsInv'
      /\ \A b \in {"m_stringBuffer", "m_stringBuffer2"} : SizeOf(b)' = SizeOf(b)
  BY NewTodo, NoTodo
<1>2. IsLooking'
  BY <1>1 DEF IsLooking
<1> QED BY <1>1, <1>2 DEF AddedInv, EntrySteps

\* It is not found, or not shown.
LEMMA ReturningFailure ==
  ASSUME AppendsInv, ~Appending, TextStays, NEW error, NEW t, Return(error, t), error # "SUCCESS",
         call.op = "AddAsJson", ~IsFormatted
  PROVE  AppendsInv' /\ AddedInv'
<1>1. /\ todo' = << >> /\ made' = 0 /\ call' = call /\ step' = "asJson" /\ type' = "None"
  BY DEF Return, AfterValue
<1>2. AppendsInv'
  BY <1>1, NewTodo, NoTodo
<1> QED BY <1>1, <1>2 DEF AddedInv, EntrySteps

\* Nothing has been written to the scratch buffer.
LEMMA NothingAdded ==
  ASSUME AppendsInv, NEW b \in Buffers, call.ahead \in Nat, SizeOf(b) = call.ahead
  PROVE  AddedTo(b) = << >>
<1>1. Settled(b) \in Seq(Stored) /\ call.ahead = Len(Settled(b))
  BY SettledIs DEF SizeOf
<1> DEFINE s == Settled(b)
<1> HIDE DEF s
<1>2. SubSeq(s, call.ahead + 1, Len(s)) = << >>
  BY <1>1, RestOfNothing DEF s
<1> QED BY <1>2 DEF AddedTo, AfterAhead, s

-----------------------------------------------------------------------------
LEMMA AddedCallIs ==
  ASSUME CallInv, IsAdded
  PROVE  /\ WellFormedCall(call) /\ WellFormedValue(call.value) /\ call.op = "AddAsJson"
         /\ call.ahead \in Nat /\ ~IsFormatted /\ timeZoneBiasMinutes \in Int
         /\ call.entry \in EntrySteps
<1>1. WellFormedCall(call) /\ parsed = NoPrintf /\ call.op = "AddAsJson" /\ timeZoneBiasMinutes \in Biases
  BY DEF CallInv, IsAdded
<1>2. timeZoneBiasMinutes \in -MaxBias .. MaxBias
  BY <1>1, SettingsAssumption
<1>3. timeZoneBiasMinutes \in Int
  BY <1>2
<1> QED BY <1>1, <1>3 DEF WellFormedCall, IsFormatted

LEMMA FirstNumber ==
  ASSUME NEW v, WellFormedValue(v), v.inType \in NumberTypes
  PROVE  v.data[1] \in Int
<1>1. v.data \in Seq(Int) /\ Len(v.data) >= 1
  BY DEF WellFormedValue
<1> DEFINE d == v.data
<1> HIDE DEF d
<1>2. d \in Seq(Int) /\ Len(d) >= 1 /\ Len(d) \in Nat
  BY <1>1, LenProperties DEF d
<1>3. 1 \in 1 .. Len(d)
  BY <1>2
<1>4. d[1] \in Int
  BY <1>2, <1>3, ElementOfSeq
<1> QED BY <1>4 DEF d

LEMMA MapIs ==
  ASSUME WellFormedCall(call), HasMap
  PROVE  IsMap(call.map) /\ Number32 \in Int
<1>1. WellFormedValue(call.value)
  BY DEF WellFormedCall
<1>2. call.value.inType \in NumberTypes
  BY DEF HasMap, MayHaveMap, NumberTypes, UnsignedTypes, HexTypes
<1>3. IsMap(call.map)
  BY DEF WellFormedCall, HasMap, IsMap
<1> QED BY <1>1, <1>2, <1>3, FirstNumber DEF Number32

LEMMA CodeIs ==
  ASSUME WellFormedCall(call), IsResultCode(call.value)
  PROVE  DomainOf(call.value) \in {"HR", "NT", "WIN"} /\ Number32 \in Int
<1> DEFINE v == call.value
<1>1. WellFormedValue(v)
  BY DEF WellFormedCall
<1>2. DomainOf(v) # "none"
  BY DEF IsResultCode
<1> HIDE DEF v
<1>3. v.inType \in {"INT32", "UINT32", "HEXINT32"} /\ DomainOf(v) \in {"HR", "NT", "WIN"}
  BY <1>2 DEF DomainOf
<1>4. v.inType \in NumberTypes
  BY <1>3 DEF NumberTypes, SignedTypes, UnsignedTypes, HexTypes
<1>5. v.data[1] \in Int
  BY <1>1, <1>4, FirstNumber
<1> QED BY <1>3, <1>5 DEF Number32, v

LEMMA TextFor ==
  ASSUME NEW chars \in Seq(Characters)
  PROVE  AppendsFor(<<Printf(chars)>>, "JsonString") /\ AppendsFor(<<Write(chars)>>, "JsonString")
BY PrintfIs, OneAppend

LEMMA TypesOfValues == \A v : TypeOf(v) \in {"JsonString", "JsonCleanString", "JsonLiteral"}
<1> SUFFICES ASSUME NEW v PROVE TypeOf(v) \in {"JsonString", "JsonCleanString", "JsonLiteral"}
  OBVIOUS
<1> QED BY DEF TypeOf

-----------------------------------------------------------------------------
\* What is already in the buffers has been written.
LEMMA AheadEndsAdded ==
  ASSUME CallInv, IsAdded, AppendsInv, AddedInv, AheadEnds
  PROVE  AppendsInv' /\ AddedInv'
<1>1. /\ ~Appending /\ Made /\ IsAhead /\ call' = call /\ todo' = << >> /\ made' = 0
      /\ step' = call.entry /\ TextStays
  BY DEF AheadEnds, Between, GoTo, AddedInv
<1>2. call.op = "AddAsJson" /\ call.ahead \in Nat /\ step' \in EntrySteps
  BY <1>1, AddedCallIs
<1>3. made = 2
  BY <1>1, <1>2, AheadIs DEF IsAhead, Made
<1>4. Live /\ Ended = 2
  BY <1>1, <1>3 DEF Live, Failed, Made, Ended
<1>5. IsLooking
  BY <1>1, <1>4 DEF IsAhead, IsLooking
<1> QED BY <1>1, <1>2, <1>5, LookingOn DEF EntrySteps

LEMMA AheadFailsAdded ==
  ASSUME AppendsInv, AheadFails
  PROVE  AppendsInv' /\ AddedInv'
<1>1. /\ ~Appending /\ TextStays /\ call' = call /\ todo' = << >> /\ made' = 0
      /\ step' = "returned" /\ lastError' # "SUCCESS"
  BY DEF AheadFails, Between, Failed
<1>2. AppendsInv'
  BY <1>1, NewTodo, NoTodo
<1> QED BY <1>1, <1>2 DEF AddedInv, EntrySteps

\* The value is looked up.
LEMMA LookingKeepsAdded ==
  ASSUME QuietInv, CallInv, IsAdded, AppendsInv, AddedInv,
         \/ MapFound \/ MapNotFound \/ MapTooSmall \/ MapGrows \/ MapNotUsed \/ OtherMap
         \/ ResultCode \/ CodeNotFound \/ CodeJumpsBack \/ PrintfIgnored
  PROVE  AppendsInv' /\ AddedInv'
<1>1. /\ step \in EntrySteps \cup {"mapTooSmall", "code", "fallBack"} /\ ~Appending /\ TextStays
      /\ UNCHANGED <<call, todo, made>>
  BY DEF EntrySteps, Between, GoTo, MapFound, MapNotFound, MapTooSmall, MapGrows, MapNotUsed, OtherMap,
         ResultCode, CodeNotFound, CodeJumpsBack, PrintfIgnored
<1>2. todo' = << >> /\ made' = 0
  BY <1>1 DEF QuietInv, Quiet
<1>3. IsLooking
  BY <1>1 DEF AddedInv
<1>4. /\ step' \in EntrySteps \cup {"mapTooSmall", "code", "fallBack"}
      /\ step' \in {"code", "fallBack"} => IsResultCode(call.value)
  BY DEF EntrySteps, Between, GoTo, NameStep, MapFound, MapNotFound, MapTooSmall, MapGrows, MapNotUsed, OtherMap,
         ResultCode, CodeNotFound, CodeJumpsBack, PrintfIgnored, AddedInv
<1> QED BY <1>1, <1>2, <1>3, <1>4, LookingOn

LEMMA FailureKeepsAdded ==
  ASSUME CallInv, IsAdded, AppendsInv,
         MapFails \/ MapWrongSize \/ MapOutOfMemory \/ WrongSize \/ AppendFails
  PROVE  AppendsInv' /\ AddedInv'
<1>1. call.op = "AddAsJson" /\ ~IsFormatted
  BY AddedCallIs
<1>2. CASE MapFails \/ MapWrongSize \/ MapOutOfMemory \/ WrongSize
  BY <1>1, <1>2, ReturningFailure DEF MapFails, MapWrongSize, MapOutOfMemory, WrongSize, Between
<1>3. CASE AppendFails
  BY <1>1, <1>3, ReturningFailure DEF AppendFails, Between, Failed
<1> QED BY <1>2, <1>3

LEMMA BitMapAdded ==
  ASSUME QuietInv, CallInv, IsAdded, AppendsInv, AddedInv, BitMap
  PROVE  AppendsInv' /\ AddedInv'
<1>1. /\ step = "mapInfo" /\ ~Appending /\ HasMap /\ step' = "bitmap" /\ TextStays
      /\ UNCHANGED <<call, todo, made>>
  BY DEF BitMap, Between
<1>2. todo' = << >> /\ made' = 0
  BY <1>1 DEF QuietInv, Quiet, EntrySteps
<1>3. IsLooking /\ call.ahead \in Nat
  BY <1>1, AddedCallIs DEF AddedInv, EntrySteps
<1>4. /\ AppendsInv'
      /\ \A b \in {"m_stringBuffer", "m_stringBuffer2"} : SizeOf(b)' = SizeOf(b)
  BY <1>1, <1>2, NewTodo, NoTodo
<1>5. IsToScratch'
  BY <1>1, <1>2, <1>3, <1>4, NoTodo DEF IsLooking, IsToScratch
<1>6. HasMap'
  BY <1>1 DEF HasMap
<1> QED BY <1>1, <1>4, <1>5, <1>6 DEF AddedInv, EntrySteps

\* The values, and what is shown of a map or a result code.
LEMMA ShownKeepsAdded ==
  ASSUME CallInv, IsAdded, AppendsInv, AddedInv,
         ValueMap \/ PlainValue \/ CodeShown \/ CodeFallsBack
  PROVE  AppendsInv' /\ AddedInv'
<1>1. /\ step \in {"mapInfo", "value", "code", "fallBack"} /\ ~Appending /\ TextStays /\ call' = call
  BY DEF ValueMap, PlainValue, CodeShown, CodeFallsBack, Between
<1>2. /\ WellFormedValue(call.value) /\ call.op = "AddAsJson" /\ call.ahead \in Nat
      /\ timeZoneBiasMinutes \in Int
  BY AddedCallIs
<1>3. IsLooking
  BY <1>1 DEF AddedInv, EntrySteps
<1>4. /\ SizeOf("m_stringBuffer2") = call.ahead /\ call.ahead <= SizeOf("m_stringBuffer")
      /\ AddedTo("m_stringBuffer") = << >>
  BY <1>2, <1>3, NothingAdded, ValueAssumption DEF IsLooking
<1>5. ASSUME NEW t \in {"JsonString", "JsonCleanString", "JsonLiteral"}, NEW appends,
             AppendsFor(appends, t), Shows(t, appends)
      PROVE  AppendsInv' /\ AddedInv'
  BY <1>1, <1>2, <1>4, <1>5, ShowingKeepsAdded
<1>6. CASE ValueMap
  <2>1. IsMap(call.map) /\ Number32 \in Int
    BY <1>6, AddedCallIs, MapIs DEF ValueMap
  <2>2. ValueMapText(call.map, MapInHex(call.value), Number32) \in Seq(Characters)
    BY <2>1, ValueMapTextIs
  <2>3. AppendsFor(<<Printf(ValueMapText(call.map, MapInHex(call.value), Number32))>>, "JsonString")
    BY <2>2, TextFor
  <2> QED BY <1>5, <1>6, <2>3 DEF ValueMap
<1>7. CASE PlainValue
  <2>1. AppendsFor(ValueAppends(call.value, timestampFormat.flags, timeZoneBiasMinutes), TypeOf(call.value))
    BY <1>2, <1>7, ValueAppendsFor DEF PlainValue
  <2>2. TypeOf(call.value) \in {"JsonString", "JsonCleanString", "JsonLiteral"}
    BY TypesOfValues
  <2> QED BY <1>5, <1>7, <2>1, <2>2 DEF PlainValue
<1>8. CASE CodeShown
  <2>1. DomainOf(call.value) \in {"HR", "NT", "WIN"} /\ Number32 \in Int
    BY <1>8, AddedCallIs, CodeIs DEF CodeShown, Between, AddedInv
  <2>2. PICK isKnown \in BOOLEAN :
          Shows("JsonString", <<Printf(ResultCodeText(DomainOf(call.value), CodeInHex(call.value), Number32, isKnown))>>)
    BY <1>8 DEF CodeShown
  <2>3. ResultCodeText(DomainOf(call.value), CodeInHex(call.value), Number32, isKnown) \in Seq(Characters)
    BY <2>1, ResultCodeTextIs
  <2>4. AppendsFor(<<Printf(ResultCodeText(DomainOf(call.value), CodeInHex(call.value), Number32, isKnown))>>,
                   "JsonString")
    BY <2>3, TextFor
  <2> QED BY <1>5, <2>2, <2>4
<1>9. CASE CodeFallsBack
  <2>1. IsResultCode(call.value) /\ call.value.inType # "HEXINT32"
    BY <1>9 DEF CodeFallsBack, Between, AddedInv
  <2>2. AppendsFor(NumberAppends(call.value), "JsonLiteral")
    BY <1>2, <2>1, FallenBackFor
  <2> QED BY <1>5, <1>9, <2>2 DEF CodeFallsBack
<1> QED BY <1>6, <1>7, <1>8, <1>9

\* An entry of a bit map.
LEMMA BitMapEntryAdded ==
  ASSUME QuietInv, CallInv, IsAdded, AppendsInv, AddedInv, BitMapEntry
  PROVE  AppendsInv' /\ AddedInv'
<1> DEFINE i == bitmap.next
           entry == call.map.entries[i]
           chars == BitText(entry, MapInHex(call.value), Number32, ~bitmap.found)
<1>1. /\ step = "bitmap" /\ step' = "bitmap" /\ ~Appending /\ TextStays /\ call' = call
      /\ i <= Len(call.map.entries)
      /\ Do(<<Printf(chars)>>) \/ (todo' = << >> /\ made' = 0)
  BY DEF BitMapEntry, Between
<1>2. HasMap /\ IsToScratch /\ call.op = "AddAsJson"
  BY <1>1, AddedCallIs DEF AddedInv
<1>3. IsMap(call.map) /\ Number32 \in Int /\ i \in DOMAIN call.map.entries
  <2>1. IsMap(call.map) /\ Number32 \in Int
    BY <1>2, AddedCallIs, MapIs
  <2>2. i \in Nat \ {0} /\ DOMAIN call.map.entries = 1 .. Len(call.map.entries) /\ Len(call.map.entries) \in Nat
    BY <2>1, LenProperties DEF IsMap, QuietInv
  <2> QED BY <1>1, <2>1, <2>2
<1>4. chars \in Seq(Characters)
  BY <1>3, BitTextIs
<1> HIDE DEF chars
<1>5. <<Printf(chars)>> \in Seq(Appends)
  BY <1>4, TextFor DEF AppendsFor
<1>6. /\ todo' \in Seq(Waiting) /\ made' = 0
      /\ \A k \in 1 .. Len(todo') : todo'[k].to = "m_stringBuffer" /\ todo'[k].append \in Appends
  <2>1. CASE todo' = << >> /\ made' = 0
    BY <2>1, NoTodo
  <2>2. CASE Do(<<Printf(chars)>>)
    <3>1. todo' = At("m_stringBuffer", <<Printf(chars)>>) /\ made' = 0
      BY <1>2, <2>2 DEF Do, Target, IsProperty
    <3> QED BY <1>5, <3>1, AppendsAreWaiting, ValueAssumption, ZenonT(40)
  <2> QED BY <1>1, <2>1, <2>2
<1>7. /\ AppendsInv'
      /\ \A b \in {"m_stringBuffer", "m_stringBuffer2"} : SizeOf(b)' = SizeOf(b)
  BY <1>1, <1>6, NewTodo
<1>8. IsToScratch' /\ HasMap'
  BY <1>1, <1>2, <1>6, <1>7 DEF IsToScratch, HasMap
<1> QED BY <1>1, <1>7, <1>8 DEF AddedInv, EntrySteps

LEMMA BitMapEndsAdded ==
  ASSUME CallInv, IsAdded, AppendsInv, AddedInv, BitMapEnds
  PROVE  AppendsInv' /\ AddedInv'
<1> DEFINE end == BitMapEnd(MapInHex(call.value), Number32, bitmap.matched, bitmap.found /\ ~Failed)
           appends == <<IF end = <<Mark("]")>> THEN Write(end) ELSE Printf(end)>>
<1>1. step = "bitmap" /\ ~Appending /\ TextStays /\ call' = call /\ Shows("JsonString", appends)
  BY DEF BitMapEnds, Between
<1>2. HasMap /\ IsToScratch /\ call.op = "AddAsJson"
  BY <1>1, AddedCallIs DEF AddedInv
<1>3. Number32 \in Int
  BY <1>2, AddedCallIs, MapIs
<1>4. end \in Seq(Characters)
  BY <1>3, BitMapEndIs
<1>5. AppendsFor(appends, "JsonString")
  <2> HIDE DEF end
  <2> QED BY <1>4, TextFor
<1> HIDE DEF appends
<1> QED BY <1>1, <1>2, <1>5, ShowingKeepsAdded DEF IsToScratch

-----------------------------------------------------------------------------
\* What stands between two quotes.
LEMMA QuotedParts ==
  ASSUME NEW V, NEW q \in V, NEW u \in Seq(V), NEW t, t = <<q>> \o u \o <<q>>
  PROVE  /\ t \in Seq(V) /\ Len(t) = Len(u) + 2 /\ t[1] = q /\ t[Len(t)] = q
         /\ SubSeq(t, 2, Len(t) - 1) = u
<1> DEFINE one == <<q>>
           a == one \o u
           w == a \o one
           len == Len(u)
<1>1. one \in Seq(V) /\ Len(one) = 1 /\ one[1] = q /\ len \in Nat
  BY LenProperties
<1> HIDE DEF one
<1>2. a \in Seq(V) /\ Len(a) = 1 + len /\ a[1] = q /\ \A k \in 1 .. len : a[1 + k] = u[k]
  <2>1. one \o u \in Seq(V)
    BY <1>1, ConcatProperties
  <2>2. Follows(one \o u, one, u)
    BY <1>1, FollowsIs
  <2> QED BY <1>1, <2>1, <2>2 DEF Follows
<1> HIDE DEF a
<1>3. /\ w \in Seq(V) /\ Len(w) = 1 + len + 1
      /\ \A k \in 1 .. 1 + len : w[k] = a[k]
      /\ w[1 + len + 1] = q
  <2>1. a \o one \in Seq(V)
    BY <1>1, <1>2, ConcatProperties
  <2>2. Follows(a \o one, a, one)
    BY <1>1, <1>2, FollowsIs
  <2> QED BY <1>1, <1>2, <2>1, <2>2 DEF Follows
<1>4. t = w
  BY DEF w, a, one
<1> HIDE DEF w, len
<1>5. /\ t \in Seq(V) /\ Len(t) = len + 2 /\ t[1] = q /\ t[Len(t)] = q
      /\ \A k \in 1 .. len : t[1 + k] = u[k]
  <2>1. 1 \in 1 .. 1 + len /\ \A k \in 1 .. len : 1 + k \in 1 .. 1 + len
    BY <1>1
  <2>2. 1 + len + 1 = len + 2
    BY <1>1
  <2> QED BY <1>2, <1>3, <1>4, <2>1, <2>2
<1> DEFINE r == SubSeq(t, 2, Len(t) - 1)
           m == Len(t) - 1
<1>6. r = [k \in 1 .. m - 2 + 1 |-> t[2 + k - 1]]
  BY DEF r, m
<1>7. m - 2 + 1 = len /\ \A k \in 1 .. len : 2 + k - 1 = 1 + k
  BY <1>1, <1>5 DEF m
<1> HIDE DEF r, m
<1>8. r = [k \in 1 .. len |-> t[2 + k - 1]]
  BY <1>6, <1>7
<1>9. \A k \in 1 .. len : r[k] = u[k]
  BY <1>5, <1>7, <1>8
<1>10. r = [k \in 1 .. len |-> u[k]]
  BY <1>8, <1>9
<1>11. u \in [1 .. len -> V]
  BY LenProperties DEF len
<1>12. u = [k \in 1 .. len |-> u[k]]
  BY <1>11
<1>13. r = u
  BY <1>10, <1>12
<1> QED BY <1>5, <1>13 DEF r, len

\* A JSON string has its quotes and is well formed, whether it was escaped or
\* had no need to be.
LEMMA StringsAreJson ==
  ASSUME NEW s \in Seq(Characters), NEW u \in Seq(Characters), JsonText(u) = s,
         NEW t \in {"JsonString", "JsonCleanString"}
  PROVE  IsJsonFor(t, <<QuoteMark>> \o u \o <<QuoteMark>>)
<1> DEFINE w == <<QuoteMark>> \o u \o <<QuoteMark>>
<1>1. /\ Len(w) = Len(u) + 2 /\ w[1] = QuoteMark /\ w[Len(w)] = QuoteMark
      /\ SubSeq(w, 2, Len(w) - 1) = u
  BY QuotedParts, QuoteIsCharacter
<1> HIDE DEF w
<1>2. Len(w) >= 2
  BY <1>1, LenProperties
<1>3. IsQuoted(w)
  BY <1>1, <1>2 DEF IsQuoted
<1>4. IsWellFormed(s)
  <2>1. \A k \in DOMAIN s : s[k] \in Characters
    BY LenProperties, ElementOfSeq
  <2> QED BY <2>1, NotCharacters DEF IsWellFormed
<1>5. JsonText(SubSeq(w, 2, Len(w) - 1)) = s
  BY <1>1
<1> QED BY <1>3, <1>4, <1>5 DEF IsJsonFor, w

LEMMA AppendedTextIsJson ==
  ASSUME NEW t \in {"JsonString", "JsonCleanString", "JsonLiteral"}, NEW s, IsTextFor(t, s)
  PROVE  /\ t = "JsonCleanString" => IsJsonFor(t, <<QuoteMark>> \o s \o <<QuoteMark>>)
         /\ t = "JsonString" => IsJsonFor(t, Quoted(s))
         /\ t = "JsonLiteral" => IsJsonFor(t, s)
<1>1. s \in Seq(Characters)
  BY DEF IsTextFor
<1>2. ASSUME t = "JsonCleanString" PROVE IsJsonFor(t, <<QuoteMark>> \o s \o <<QuoteMark>>)
  <2>1. s \in Seq(CleanCharacters)
    BY <1>2 DEF IsTextFor
  <2>2. JsonText(s) = s
    BY <2>1, CleanTextReadsBack
  <2>3. t \in {"JsonString", "JsonCleanString"}
    BY <1>2
  <2> QED BY <1>1, <2>2, <2>3, StringsAreJson, Zenon
<1>3. ASSUME t = "JsonString" PROVE IsJsonFor(t, Quoted(s))
  <2> DEFINE u == Joined(Escapes(s))[Len(s)]
  <2>1. JsonText(u) = s
    BY <1>1, EscapesReadBack
  <2>2. u \in Seq(Characters)
    <3>1. Len(s) \in 0 .. Len(s)
      BY <1>1, LenProperties
    <3> QED BY <1>1, <3>1, EscapedFacts
  <2>a. t \in {"JsonString", "JsonCleanString"}
    BY <1>3
  <2> HIDE DEF u
  <2>3. IsJsonFor(t, <<QuoteMark>> \o u \o <<QuoteMark>>)
    BY <1>1, <2>a, <2>1, <2>2, StringsAreJson, Zenon
  <2> QED BY <2>3 DEF Quoted, u
<1>4. ASSUME t = "JsonLiteral" PROVE IsJsonFor(t, s)
  BY <1>4 DEF IsTextFor, IsJsonFor
<1> QED BY <1>2, <1>3, <1>4

-----------------------------------------------------------------------------
\* The text of the value is in the scratch buffer.
LEMMA AppendedAdded ==
  ASSUME CallInv, IsAdded, AppendsInv, AddedInv, Appended
  PROVE  AppendsInv' /\ AddedInv'
<1> DEFINE sb == "m_stringBuffer"
           s2 == "m_stringBuffer2"
<1>1. /\ step = "appending" /\ ~Appending /\ Made /\ Return("SUCCESS", type)
      /\ UNCHANGED <<capacity, append, status, settingVars>>
  BY DEF Appended, Between
<1>2. call.op = "AddAsJson" /\ call.ahead \in Nat /\ ~IsFormatted
  BY AddedCallIs
<1>3. text' = text
  <2>1. text \in [Buffers -> Seq(Stored)]
    BY DEF AppendsInv, TextInv, TextType
  <2>2. text' = [text EXCEPT ![sb] = text[sb]]
    BY <1>2 DEF Appended, NulsReplaced, Target, IsProperty
  <2> QED BY <2>1, <2>2
<1>4. todo' = << >> /\ made' = 0 /\ call' = call /\ step' = "asJson" /\ type' = type
  BY <1>1, <1>2 DEF Return, AfterValue
<1>5. /\ AppendsInv'
      /\ \A b \in {sb, s2} : SizeOf(b)' = SizeOf(b) /\ AddedTo(b)' = AddedTo(b)
  <2>1. TextStays
    BY <1>1, <1>3 DEF TextStays, textVars
  <2> QED BY <1>1, <1>4, <2>1, NewTodo, NoTodo
<1>6. IsToScratch /\ IsAppending
  BY <1>1 DEF AddedInv
<1>7. AddedTo(sb) \in Seq(Characters)
  <2> DEFINE s == Settled(sb)
  <2>1. s \in Seq(Characters) /\ call.ahead <= Len(s)
    BY <1>6 DEF AppendsInv, IsToScratch, SizeOf
  <2> HIDE DEF s
  <2>2. SubSeq(s, call.ahead + 1, Len(s)) \in Seq(Characters)
    BY <1>2, <2>1, RestIs
  <2> QED BY <2>2 DEF AddedTo, AfterAhead, s
<1>8. ASSUME type = "JsonLiteral" PROVE IsJsonLiteral(AddedTo(sb))
  <2>1. Len(todo) = 1 /\ IsJsonLiteral(todo[1].append.chars)
    BY <1>6, <1>8 DEF IsAppending
  <2>2. Live /\ Ended = 1
    BY <1>1, <2>1 DEF Live, Failed, Made, Ended
  <2>3. AddedTo(sb) = todo[1].append.chars
    BY <1>6, <1>8, <2>2 DEF IsAppending
  <2> QED BY <2>1, <2>3
<1>9. IsTextFor(type, AddedTo(sb))
  BY <1>6, <1>7, <1>8 DEF IsAppending, IsTextFor
<1>10. IsScratch'
  BY <1>4, <1>5, <1>6, <1>9 DEF IsScratch, IsToScratch, IsAppending
<1> QED BY <1>4, <1>5, <1>10 DEF AddedInv, EntrySteps

\* It is appended to the output, in quotes if it is a string.
LEMMA JsonAppendsAdded ==
  ASSUME CallInv, IsAdded, AppendsInv, AddedInv, JsonAppends
  PROVE  AppendsInv' /\ AddedInv'
<1> DEFINE sb == "m_stringBuffer"
           s2 == "m_stringBuffer2"
           s == ScratchText
           a == JsonAppend
           w == [to |-> s2, append |-> a]
<1>1. /\ step = "asJson" /\ ~Appending /\ type # "None" /\ todo' = At(s2, <<a>>) /\ made' = 0
      /\ step' = "inJson" /\ TextStays /\ UNCHANGED <<call, type>>
  BY DEF JsonAppends, Between
<1>2. IsScratch /\ call.ahead \in Nat
  BY <1>1, AddedCallIs DEF AddedInv
<1>3. s = AddedTo(sb)
  BY <1>1, SettledBetween DEF ScratchText, AddedTo, AfterAhead
<1> HIDE DEF s
<1>4. type \in {"JsonString", "JsonCleanString", "JsonLiteral"} /\ IsTextFor(type, s)
  BY <1>2, <1>3 DEF IsScratch
<1>5. s \in Seq(Characters)
  BY <1>4 DEF IsTextFor
<1>6. /\ type = "JsonCleanString" => a = Write(<<QuoteMark>> \o s \o <<QuoteMark>>)
      /\ type = "JsonString" => a = [fn |-> "json", chars |-> s, count |-> 0]
      /\ type = "JsonLiteral" => a = Write(s)
  BY DEF JsonAppend, s
<1> HIDE DEF a
<1> DEFINE q == <<QuoteMark>> \o s \o <<QuoteMark>>
<1>7. q \in Seq(Characters)
  BY <1>5, QuotedParts, QuoteIsCharacter
<1>8. /\ type = "JsonCleanString" => IsJsonFor(type, q)
      /\ type = "JsonString" => IsJsonFor(type, Quoted(s))
      /\ type = "JsonLiteral" => IsJsonFor(type, s)
  BY <1>4, AppendedTextIsJson
<1> HIDE DEF q
<1>9. a \in AnyAppend /\ a.fn \in {"wide", "json"} /\ IsJsonFor(type, Whole(a.fn, a.chars))
  <2> HIDE DEF a
  <2>0. \A c \in Seq(Characters) :
          /\ [fn |-> "wide", chars |-> c, count |-> 0] \in AnyAppend
          /\ [fn |-> "json", chars |-> c, count |-> 0] \in AnyAppend
    BY DEF AnyAppend, Functions
  <2>1. ASSUME NEW c \in Seq(Characters), a = Write(c), IsJsonFor(type, c)
        PROVE  a \in AnyAppend /\ a.fn = "wide" /\ IsJsonFor(type, Whole(a.fn, a.chars))
    <3>1. a = [fn |-> "wide", chars |-> c, count |-> 0]
      BY <2>1 DEF Write
    <3>2. a.fn = "wide" /\ a.chars = c /\ a \in AnyAppend
      BY <2>0, <3>1
    <3>3. Whole(a.fn, a.chars) = c
      BY <3>2 DEF Whole
    <3> QED BY <2>1, <3>2, <3>3
  <2>2. CASE type = "JsonCleanString"
    BY <1>6, <1>7, <1>8, <2>1, <2>2 DEF q
  <2>3. CASE type = "JsonString"
    <3>1. a = [fn |-> "json", chars |-> s, count |-> 0]
      BY <1>6, <2>3
    <3>2. a.fn = "json" /\ a.chars = s /\ a \in AnyAppend
      BY <1>5, <2>0, <3>1
    <3>3. Whole(a.fn, a.chars) = Quoted(s)
      BY <3>2 DEF Whole
    <3> QED BY <1>8, <2>3, <3>2, <3>3
  <2>4. CASE type = "JsonLiteral"
    BY <1>5, <1>6, <1>8, <2>1, <2>4
  <2> QED BY <1>4, <2>2, <2>3, <2>4
<1>10. w \in Waiting /\ w.to = s2 /\ w.append = a
  BY <1>9, ValueAssumption DEF Waiting
<1>11. todo' = <<w>>
  BY <1>1 DEF At
<1> HIDE DEF w
<1>12. todo' \in Seq(Waiting) /\ Len(todo') = 1 /\ todo'[1] = w
  BY <1>10, <1>11
<1>13. /\ AppendsInv' /\ Live' /\ Ended' = 0
       /\ \A b \in {sb, s2} : SizeOf(b)' = SizeOf(b) /\ AddedTo(b)' = AddedTo(b)
  BY <1>1, <1>12, NewTodo
<1>14. AddedTo(s2) = << >> /\ SizeOf(s2) = call.ahead
  BY <1>2, NothingAdded, ValueAssumption DEF IsScratch
<1>15. InJson'
  <2>1. AddedTo(s2)' = << >> /\ call.ahead <= SizeOf(s2)'
    BY <1>2, <1>13, <1>14
  <2> QED BY <1>1, <1>9, <1>10, <1>12, <1>13, <2>1 DEF InJson
<1> QED BY <1>1, <1>13, <1>15 DEF AddedInv, EntrySteps

\* The scratch buffer is emptied.
LEMMA JsonEndAdded ==
  ASSUME AgreeInv, CallInv, IsAdded, AppendsInv, AddedInv, JsonEnd
  PROVE  step' = "returned" /\ AddedInv'
<1> DEFINE s2 == "m_stringBuffer2"
<1>1. step' = "returned" /\ ~Appending /\ UNCHANGED <<call, append>>
  BY DEF JsonEnd, Between
<1>2. ASSUME lastError' = "SUCCESS" PROVE IsJsonFor(type', AddedTo(s2)')
  <2>1. ~(step = "asJson" /\ type = "None" /\ UNCHANGED lastError)
    BY <1>2 DEF AgreeInv, Agrees
  <2>2. step = "inJson" /\ Made /\ InJson
    BY <1>2, <2>1 DEF JsonEnd, Between, AddedInv, Failed
  <2>3. Live /\ Ended = 1
    BY <1>1, <2>2 DEF Live, Failed, Made, Ended, InJson
  <2>4. IsJsonFor(type, AddedTo(s2))
    BY <2>2, <2>3 DEF InJson
  <2>5. type' = type
    BY <1>2 DEF JsonEnd
  <2>6. AddedTo(s2)' = AddedTo(s2)
    <3>1. text \in [Buffers -> Seq(Stored)]
      BY DEF AppendsInv, TextInv, TextType
    <3>2. text'[s2] = text[s2]
      BY <3>1, ValueAssumption DEF JsonEnd
    <3>3. ~Appending'
      BY <1>1 DEF Appending
    <3>4. Settled(s2)' = text'[s2] /\ Settled(s2) = text[s2]
      BY <1>1, <3>3 DEF Settled
    <3> QED BY <1>1, <3>2, <3>4 DEF AddedTo, AfterAhead
  <2> QED BY <2>4, <2>5, <2>6
<1> QED BY <1>1, <1>2 DEF AddedInv, EntrySteps

\* The call is made.
LEMMA BeginAdded ==
  ASSUME QuietInv, CallInv', Begin, IsAdded'
  PROVE  AppendsInv' /\ AddedInv'
<1> DEFINE sb == "m_stringBuffer"
           s2 == "m_stringBuffer2"
<1>1. /\ step \in {"idle", "cleared"} /\ step' = "ahead" /\ todo' = Ahead(call')
      /\ UNCHANGED <<text, capacity, append, status, made>>
  BY DEF Begin, textVars
<1>2. call'.op = "AddAsJson" /\ call'.ahead \in Nat
  BY <1>1 DEF IsAdded, CallInv, WellFormedCall
<1>3. /\ made' = 0 /\ append' = NoAppend /\ text' = [b \in Buffers |-> << >>]
      /\ capacity' \in [Buffers -> Nat]
  BY <1>1 DEF QuietInv, Quiet, Appending
<1>4. todo' \in Seq(Waiting) /\ Len(todo') = 2
  BY <1>1, <1>2, AheadIs
<1>5. ~Appending'
  BY <1>3 DEF Appending
<1>6. TextInv' /\ JsonInv'
  <2>1. << >> \in Seq(Stored) /\ Len(<< >>) = 0
    OBVIOUS
  <2> DEFINE none == << >>
  <2> HIDE DEF none
  <2>2. text' \in [Buffers -> Seq(Stored)] /\ \A b \in Buffers : Len(text'[b]) = 0
    BY <1>3, <2>1 DEF none
  <2>3. TextInBuffer'
    BY <1>3, <2>2 DEF TextInBuffer
  <2> QED BY <1>3, <1>5, <2>2, <2>3 DEF TextInv, TextType, JsonInv
<1>7. Settled(sb)' = << >> /\ Settled(s2)' = << >>
  BY <1>3, <1>5, ValueAssumption DEF Settled
<1>8. AppendsInv'
  <2>1. << >> \in Seq(Characters)
    OBVIOUS
  <2>2. Settled(sb)' \in Seq(Characters)
    BY <1>7, <2>1, Zenon
  <2>3. made' \in 0 .. Len(todo')
    BY <1>3, <1>4
  <2> QED BY <1>4, <1>5, <1>6, <2>2, <2>3 DEF AppendsInv
<1>9. SizeOf(sb)' = 0 /\ SizeOf(s2)' = 0 /\ Ended' = 0
  BY <1>3, <1>5, <1>7 DEF SizeOf, Ended
<1>10. IsAhead'
  BY <1>1, <1>9 DEF IsAhead
<1> QED BY <1>1, <1>8, <1>10 DEF AddedInv, EntrySteps

-----------------------------------------------------------------------------
\* The steps that a value which is added as JSON does not take.
LEMMA NotPrinted ==
  ASSUME AddedInv, ~IsFormatted,
         PrintfNumber \/ PrintfText \/ PrintfString \/ PrintfNoString \/ PrintfEnds \/ PrintfFails
  PROVE  FALSE
BY DEF PrintfNumber, PrintfText, PrintfString, PrintfNoString, PrintfEnds, PrintfFails, Between,
       AddedInv

\* No step follows the return.
LEMMA StepsBeforeReturn ==
  ASSUME QuietInv, ValueStep
  PROVE  step # "returned"
<1>1. ASSUME step = "returned" PROVE FALSE
  <2>1. todo = << >> /\ made = 0 /\ ~Appending
    BY <1>1 DEF QuietInv, Quiet
  <2>2. ~MakeAppend /\ ~AppendStep
    BY <1>1, <2>1, AppendsRun DEF MakeAppend, AppendStep
  <2> QED
    BY <1>1, <2>2
    DEF ValueStep, Between, EntrySteps, AheadEnds, AheadFails, MapFound, MapNotFound, MapFails,
        MapTooSmall, MapWrongSize, MapGrows, MapOutOfMemory, MapNotUsed, ValueMap, BitMap, OtherMap,
        BitMapEntry, BitMapEnds, WrongSize, PlainValue, ResultCode, CodeShown, CodeNotFound,
        CodeFallsBack, CodeJumpsBack, Appended, AppendFails, JsonAppends, JsonEnd, PrintfIgnored,
        PrintfNumber, PrintfText, PrintfString, PrintfNoString, PrintfEnds, PrintfFails
<1> QED BY <1>1

\* A step of the call.
LEMMA StepKeepsAdded ==
  ASSUME QuietInv, AgreeInv, CallInv, AddInv, ValueStep, IsAdded
  PROVE  (step' # "returned" => AppendsInv') /\ AddedInv'
<1>1. AppendsInv /\ AddedInv
  BY StepsBeforeReturn DEF AddInv
<1>2. call.op = "AddAsJson" /\ call.ahead \in Nat /\ ~IsFormatted
  BY AddedCallIs
<1>3. CASE MakeAppend
  BY <1>1, <1>3, MakeAppendKeepsAdded
<1>4. CASE AppendStep
  BY <1>1, <1>2, <1>4, AppendStepKeepsAdded
<1>5. CASE AheadEnds
  BY <1>1, <1>5, AheadEndsAdded
<1>6. CASE AheadFails
  BY <1>1, <1>6, AheadFailsAdded
<1>7. CASE \/ MapFound \/ MapNotFound \/ MapTooSmall \/ MapGrows \/ MapNotUsed \/ OtherMap
           \/ ResultCode \/ CodeNotFound \/ CodeJumpsBack \/ PrintfIgnored
  BY <1>1, <1>7, LookingKeepsAdded
<1>8. CASE MapFails \/ MapWrongSize \/ MapOutOfMemory \/ WrongSize \/ AppendFails
  BY <1>1, <1>8, FailureKeepsAdded
<1>9. CASE BitMap
  BY <1>1, <1>9, BitMapAdded
<1>10. CASE BitMapEntry
  BY <1>1, <1>10, BitMapEntryAdded
<1>11. CASE BitMapEnds
  BY <1>1, <1>11, BitMapEndsAdded
<1>12. CASE ValueMap \/ PlainValue \/ CodeShown \/ CodeFallsBack
  BY <1>1, <1>12, ShownKeepsAdded
<1>13. CASE Appended
  BY <1>1, <1>13, AppendedAdded
<1>14. CASE JsonAppends
  BY <1>1, <1>14, JsonAppendsAdded
<1>15. CASE JsonEnd
  BY <1>1, <1>15, JsonEndAdded
<1>16. CASE PrintfNumber \/ PrintfText \/ PrintfString \/ PrintfNoString \/ PrintfEnds \/ PrintfFails
  BY <1>1, <1>2, <1>16, NotPrinted
<1> QED
  BY <1>3, <1>4, <1>5, <1>6, <1>7, <1>8, <1>9, <1>10, <1>11, <1>12, <1>13, <1>14, <1>15, <1>16
  DEF ValueStep

LEMMA AddInvIsKept ==
  ASSUME QuietInv, AgreeInv, CallInv, CallInv', AddInv, [Next]_vars
  PROVE  AddInv'
<1>1. CASE Clear
  BY <1>1 DEF Clear, AddInv, IsAdded
<1>2. CASE Begin
  BY <1>2, BeginAdded DEF AddInv
<1>3. CASE ValueStep
  <2>1. call' = call /\ step \notin {"idle", "cleared"}
    BY <1>3, StepKeepsCall
  <2>2. IsAdded' => IsAdded
    BY <2>1 DEF IsAdded
  <2>3. IsAdded => (step' # "returned" => AppendsInv') /\ AddedInv'
    BY <1>3, StepKeepsAdded
  <2> QED BY <2>2, <2>3 DEF AddInv
<1>4. CASE Set
  BY <1>4 DEF Set, callVars, AddInv, IsAdded
<1>5. CASE UNCHANGED vars
  <2>1. UNCHANGED <<text, capacity, append, status, call, todo, made, step, type, lastError>>
    BY <1>5 DEF vars, textVars, valueVars, callVars
  <2>2. IsAdded' = IsAdded
    BY <2>1 DEF IsAdded
  <2>3. AppendsInv => AppendsInv'
    <3>1. TextInv => TextInv'
      BY <2>1, TextInvIsKept DEF textVars
    <3>2. JsonInv => JsonInv'
      BY <2>1 DEF JsonInv, EscapesWritten, Appending
    <3>3. UNCHANGED <<Appending, Settled("m_stringBuffer")>>
      BY <2>1 DEF Appending, Settled
    <3> QED BY <2>1, <3>1, <3>2, <3>3 DEF AppendsInv
  <2>4. AddedInv => AddedInv'
    BY <2>1 DEF AddedInv, IsAhead, IsLooking, HasMap, IsToScratch, IsAppending, IsScratch, InJson,
                AddedTo, AfterAhead, SizeOf, Settled, Live, Ended, Appending, Failed
  <2> QED BY <2>1, <2>2, <2>3, <2>4 DEF AddInv
<1> QED BY <1>1, <1>2, <1>3, <1>4, <1>5 DEF Next

LEMMA InitAdded == Init => AddInv
BY DEF Init, AddInv, IsAdded

\* What is added as JSON is one JSON value: a string with both quotes, in which
\* every character that must be is escaped, or a number, true or false; for
\* every value, map, code and setting that the call may have, whatever was in
\* both buffers before and however often they were made larger.
THEOREM JsonValuesAreValid == Spec => []JsonValueIsValid
<1>1. AddInv /\ QuietInv => JsonValueIsValid
  <2> SUFFICES ASSUME AddInv, QuietInv, Finished, call.op = "AddAsJson"
               PROVE  IF IsJsonString THEN IsQuoted(OutputText) /\ IsWellFormed(ValueText)
                                      ELSE IsJsonLiteral(OutputText)
    BY DEF JsonValueIsValid
  <2>1. step = "returned" /\ lastError = "SUCCESS" /\ IsAdded
    BY DEF Finished, IsAdded
  <2>2. IsJsonFor(type, AddedTo("m_stringBuffer2"))
    BY <2>1 DEF AddInv, AddedInv
  <2>3. ~Appending
    BY <2>1 DEF QuietInv, Quiet
  <2>4. OutputText = AddedTo("m_stringBuffer2")
    BY <2>3 DEF OutputText, AddedTo, AfterAhead, Settled
  <2>5. IsJsonFor(type, OutputText)
    BY <2>2, <2>4
  <2> QED BY <2>5 DEF IsJsonFor, IsJsonString, ValueText
<1> QED BY <1>1, InitAgrees, NextAgrees, InitCallInv, CallInvIsKept, InitQuiet, QuietInvIsKept,
           InitAdded, AddInvIsKept, PTL DEF Spec

-----------------------------------------------------------------------------
(***************************************************************************)
(* The printf format of a value: what is copied of it, and what is printed *)
(* with it.                                                                *)
(***************************************************************************)
\* The characters are those asked for, and as many as may be.
LEMMA RunIs ==
  ASSUME NEW f, NEW i \in Nat, NEW S, NEW max \in Nat
  PROVE  /\ Run(f, i, S, max) \in 0 .. max
         /\ \A k \in i .. i + Run(f, i, S, max) - 1 : CharAt(f, k) \in S
<1> DEFINE Is(n) == \A k \in i .. i + n - 1 : CharAt(f, k) \in S
           T == {n \in 0 .. max : n = max \/ ~Is(n + 1)}
           Q(n) == Is(n) /\ (n = max \/ ~Is(n + 1))
<1>1. max \in T /\ T \in SUBSET Nat
  OBVIOUS
<1>2. PICK n \in T : \A m \in T : n <= m
  <2> HIDE DEF T
  <2> QED BY <1>1, LeastElement
<1>3. n \in 0 .. max /\ (n = max \/ ~Is(n + 1))
  OBVIOUS
<1>4. Is(n)
  <2>1. CASE n = 0
    BY <2>1
  <2>2. CASE n # 0
    <3>1. PICK m \in 0 .. max : m = n - 1 /\ m + 1 = n /\ m # max /\ ~(n <= m)
      BY <1>3, <2>2
    <3>2. m \notin T
      BY <1>2, <3>1
    <3>3. Is(m + 1)
      BY <3>1, <3>2
    <3> QED BY <3>1, <3>3
  <2> QED BY <2>1, <2>2
<1>5. Q(n)
  BY <1>3, <1>4
<1>6. Run(f, i, S, max) = CHOOSE m \in 0 .. max : Q(m)
  BY DEF Run
<1> HIDE DEF Q
<1>7. Run(f, i, S, max) \in 0 .. max /\ Q(Run(f, i, S, max))
  BY <1>3, <1>5, <1>6
<1> QED BY <1>7 DEF Q

\* They end with the format.
LEMMA RunEnds ==
  ASSUME NEW f, Len(f) \in Nat, NEW i \in Nat, i >= 1, i <= Len(f) + 1, NEW S, "NUL" \notin S, NEW max \in Nat
  PROVE  LET n == Run(f, i, S, max)
         IN  /\ n \in Nat /\ i + n <= Len(f) + 1
             /\ \A k \in i .. i + n - 1 : k \in 1 .. Len(f) /\ f[k] \in S
<1> DEFINE n == Run(f, i, S, max)
<1>1. n \in 0 .. max /\ \A k \in i .. i + n - 1 : CharAt(f, k) \in S
  BY RunIs
<1> HIDE DEF n
<1>2. \A k \in i .. i + n - 1 : k <= Len(f) /\ f[k] \in S
  BY <1>1 DEF CharAt
<1>3. i + n <= Len(f) + 1
  <2>1. CASE n = 0
    BY <2>1
  <2>2. CASE n # 0
    <3>1. PICK k \in i .. i + n - 1 : k = i + n - 1
      BY <1>1, <2>2
    <3>2. k <= Len(f)
      BY <1>2
    <3> QED BY <1>1, <3>1, <3>2
  <2> QED BY <2>1, <2>2
<1>4. \A k \in i .. i + n - 1 : k \in 1 .. Len(f)
  BY <1>1, <1>3
<1> QED BY <1>1, <1>2, <1>3, <1>4 DEF n

LEMMA PartOfFormat ==
  ASSUME NEW f \in Seq(STRING), NEW S, NEW i \in Nat, NEW j \in Nat, 1 <= i, i <= j, j <= Len(f) + 1,
         \A k \in i .. j - 1 : f[k] \in S
  PROVE  /\ SubSeq(f, i, j - 1) \in Seq(S)
         /\ Len(SubSeq(f, i, j - 1)) = j - i
         /\ \A k \in 1 .. j - i : SubSeq(f, i, j - 1)[k] = f[i + k - 1]
<1>1. Len(f) \in Nat
  BY LenProperties
<1> DEFINE s == SubSeq(f, i, j - 1)
<1>2. s \in Seq(STRING) /\ Len(s) = j - i /\ \A k \in 1 .. j - i : s[k] = f[i + k - 1]
  BY <1>1, SubSeqProperties
<1> HIDE DEF s
<1>3. \A k \in 1 .. Len(s) : s[k] \in S
  <2> SUFFICES ASSUME NEW k \in 1 .. j - i PROVE s[k] \in S
    BY <1>2
  <2>1. PICK m \in i .. j - 1 : m = i + k - 1
    OBVIOUS
  <2> QED BY <1>2, <2>1
<1>4. s \in Seq(S)
  BY <1>2, <1>3
<1> QED BY <1>2, <1>4 DEF s

-----------------------------------------------------------------------------
\* A part of the format that may end with a '*', which is not copied.
IsPart(f, S, i, j, e) ==
    /\ f \in Seq(STRING) /\ "*" \notin S /\ i \in Nat /\ j \in Nat /\ e \in Nat
    /\ 1 <= i /\ i <= e /\ j <= Len(f) + 1 /\ \A k \in i .. e - 1 : f[k] \in S
    /\ j = e \/ (j = e + 1 /\ f[e] = "*")

IsCopied(f, S, i, e, s) ==
    s \in Seq(S) /\ Len(s) = e - i /\ \A k \in 1 .. e - i : s[k] = f[i + k - 1]

LEMMA CopiedPart ==
  ASSUME NEW f, NEW S, NEW i, NEW j, NEW e, IsPart(f, S, i, j, e)
  PROVE  IsCopied(f, S, i, e, WithoutStar(SubSeq(f, i, j - 1)))
<1>a. /\ f \in Seq(STRING) /\ "*" \notin S /\ i \in Nat /\ j \in Nat /\ e \in Nat
      /\ 1 <= i /\ i <= e /\ j <= Len(f) + 1 /\ \A k \in i .. e - 1 : f[k] \in S
      /\ j = e \/ (j = e + 1 /\ f[e] = "*")
  BY DEF IsPart
<1>0. Len(f) \in Nat /\ e <= Len(f) + 1 /\ i <= j
  BY <1>a, LenProperties
<1> DEFINE p == SubSeq(f, i, e - 1)
           s == SubSeq(f, i, j - 1)
<1>1. p \in Seq(S) /\ Len(p) = e - i /\ \A k \in 1 .. e - i : p[k] = f[i + k - 1]
  BY <1>0, <1>a, PartOfFormat
<1>2. s \in Seq(STRING) /\ Len(s) = j - i /\ \A k \in 1 .. j - i : s[k] = f[i + k - 1]
  BY <1>0, <1>a, SubSeqProperties
<1>3. CASE j = e
  <2>1. s = p
    BY <1>3
  <2>2. p = << >> \/ p[Len(p)] # "*"
    <3> HIDE DEF p
    <3>1. Len(p) = 0 \/ Len(p) \in 1 .. Len(p)
      BY <1>0, <1>1, <1>a
    <3>2. Len(p) \in 1 .. Len(p) => p[Len(p)] \in S
      BY <1>1, ElementOfSeq
    <3>3. Len(p) = 0 => p = << >>
      BY <1>1, EmptySeq
    <3> QED BY <1>a, <3>1, <3>2, <3>3
  <2>3. WithoutStar(s) = p
    <3> HIDE DEF p, s
    <3> QED BY <2>1, <2>2 DEF WithoutStar
  <2> QED BY <1>1, <2>3 DEF s, IsCopied
<1>4. CASE j = e + 1 /\ f[e] = "*"
  <2> HIDE DEF p, s
  <2>0. j - i = e - i + 1 /\ j - i \in Nat \ {0} /\ j - i \in 1 .. j - i /\ e - i \in Nat
    BY <1>0, <1>4, <1>a
  <2>1. s # << >> /\ s[Len(s)] = "*"
    <3>1. s[j - i] = f[i + (j - i) - 1]
      BY <1>2, <2>0
    <3>2. i + (j - i) - 1 = e
      BY <1>0, <1>4, <1>a
    <3>3. Len(s) # 0
      BY <1>2, <2>0
    <3> QED BY <1>2, <1>4, <3>1, <3>2, <3>3, EmptySeq
  <2>2. WithoutStar(s) = SubSeq(s, 1, Len(s) - 1)
    BY <2>1 DEF WithoutStar
  <2> DEFINE t == SubSeq(s, 1, Len(s) - 1)
  <2>3. t \in Seq(STRING) /\ Len(t) = e - i /\ \A k \in 1 .. e - i : t[k] = s[k]
    BY <1>2, <2>0, SubSeqProperties
  <2> HIDE DEF t
  <2>4. \A k \in 1 .. e - i : t[k] = f[i + k - 1]
    BY <1>2, <2>0, <2>3
  <2>5. t = p
    BY <1>1, <2>3, <2>4, SeqEqual
  <2> QED BY <1>1, <2>2, <2>5 DEF s, t, IsCopied
<1> QED BY <1>3, <1>4, <1>a

\* The digits of a width or a precision.
LEMMA NoDigits == /\ "*" \notin Digits /\ "NUL" \notin Digits /\ "." \notin Digits /\ FirstDigits \subseteq Digits
                  /\ MaxDigits = 4
BY DEF Digits, FirstDigits, MaxDigits

\* The flags, then.
LEMMA FlagsAre ==
  ASSUME NEW f \in Seq(STRING)
  PROVE  /\ FlagsEnd(f) \in 1 .. Len(f) + 1
         /\ SubSeq(f, 1, FlagsEnd(f) - 1) \in Seq(Flags)
<1>1. Len(f) \in Nat
  BY LenProperties
<1> DEFINE n == Run(f, 1, Flags, Len(f))
<1>2. "NUL" \notin Flags
  BY DEF Flags
<1>3. n \in Nat /\ 1 + n <= Len(f) + 1 /\ \A k \in 1 .. 1 + n - 1 : k \in 1 .. Len(f) /\ f[k] \in Flags
  BY <1>1, <1>2, RunEnds
<1>4. FlagsEnd(f) = 1 + n
  BY DEF FlagsEnd
<1> HIDE DEF n
<1>5. SubSeq(f, 1, 1 + n - 1) \in Seq(Flags)
  BY <1>1, <1>3, PartOfFormat
<1> QED BY <1>1, <1>3, <1>4, <1>5

\* The width.
LEMMA WidthIs ==
  ASSUME NEW f \in Seq(STRING), NEW i \in 1 .. Len(f) + 1
  PROVE  LET j == WidthEnd(f)[i]
             w == WithoutStar(SubSeq(f, i, j - 1))
         IN  j \in i .. Len(f) + 1 /\ w \in Seq(Digits) /\ Len(w) <= MaxDigits
<1> DEFINE n == Run(f, i, Digits, MaxDigits)
           j == WidthEnd(f)[i]
           w == WithoutStar(SubSeq(f, i, j - 1))
<1>1. Len(f) \in Nat /\ i \in Nat /\ i >= 1 /\ i <= Len(f) + 1 /\ MaxDigits \in Nat
  BY LenProperties, NoDigits
<1>2. j = CASE CharAt(f, i) \in FirstDigits -> i + n
            [] CharAt(f, i) = "*" -> i + 1
            [] OTHER -> i
  BY DEF WidthEnd
<1>3. n \in 0 .. MaxDigits /\ i + n <= Len(f) + 1 /\ \A k \in i .. i + n - 1 : f[k] \in Digits
  BY <1>1, RunIs, RunEnds, NoDigits
<1> HIDE DEF n
<1>4. PICK e \in Nat : /\ i <= e /\ e - i <= MaxDigits /\ j <= Len(f) + 1
                       /\ \A k \in i .. e - 1 : f[k] \in Digits
                       /\ j = e \/ (j = e + 1 /\ f[e] = "*")
  <2>1. CASE CharAt(f, i) \in FirstDigits
    <3>1. j = i + n
      <4>1. CharAt(f, i) # "*"
        BY <2>1, NoDigits
      <4> QED BY <1>2, <2>1, <4>1
    <3> QED BY <1>1, <1>3, <3>1, NoDigits
  <2>2. CASE CharAt(f, i) = "*"
    <3>1. j = i + 1
      <4>1. CharAt(f, i) \notin FirstDigits
        BY <2>2, NoDigits
      <4> QED BY <1>2, <2>2, <4>1
    <3>2. i <= Len(f) /\ f[i] = "*"
      BY <2>2 DEF CharAt
    <3> QED BY <1>1, <3>1, <3>2, NoDigits
  <2>3. CASE CharAt(f, i) \notin FirstDigits /\ CharAt(f, i) # "*"
    <3>1. j = i
      BY <1>2, <2>3
    <3> QED BY <1>1, <3>1, NoDigits
  <2> QED BY <2>1, <2>2, <2>3
<1> HIDE DEF j
<1>5. j \in Nat
  BY <1>4
<1>6. w \in Seq(Digits) /\ Len(w) = e - i
  <2>1. IsPart(f, Digits, i, j, e)
    BY <1>1, <1>4, <1>5, NoDigits DEF IsPart
  <2>2. IsCopied(f, Digits, i, e, w)
    BY <2>1, CopiedPart
  <2> QED BY <2>2 DEF IsCopied
<1> QED BY <1>1, <1>4, <1>5, <1>6 DEF j

\* The precision: nothing, or a point and digits.
IsPoint(c) ==
    /\ c \in Seq(Digits \cup {"."})
    /\ Len(c) <= 1 + MaxDigits
    /\ c # << >> => c[1] = "." /\ \A k \in 2 .. Len(c) : c[k] \in Digits

LEMMA PrecisionIs ==
  ASSUME NEW f \in Seq(STRING), NEW i \in 1 .. Len(f) + 1
  PROVE  LET j == PrecisionEnd(f)[i]
             c == WithoutStar(SubSeq(f, i, j - 1))
         IN  j \in i .. Len(f) + 1 /\ IsPoint(c) /\ (c # << >> => CharAt(f, i) = ".")
<1> DEFINE n == Run(f, i + 1, Digits, MaxDigits)
           j == PrecisionEnd(f)[i]
           c == WithoutStar(SubSeq(f, i, j - 1))
           S == Digits \cup {"."}
<1>1. Len(f) \in Nat /\ i \in Nat /\ i >= 1 /\ i <= Len(f) + 1 /\ MaxDigits \in Nat
  BY LenProperties, NoDigits
<1>2. j = CASE CharAt(f, i) # "." -> i
            [] CharAt(f, i) = "." /\ CharAt(f, i + 1) = "*" -> i + 2
            [] OTHER -> i + 1 + n
  BY DEF PrecisionEnd
<1>3. i <= Len(f) =>
        n \in 0 .. MaxDigits /\ i + 1 + n <= Len(f) + 1 /\ \A k \in i + 1 .. i + 1 + n - 1 : f[k] \in Digits
  <2> SUFFICES ASSUME i <= Len(f)
               PROVE  n \in 0 .. MaxDigits /\ i + 1 + n <= Len(f) + 1 /\ \A k \in i + 1 .. i + 1 + n - 1 : f[k] \in Digits
    OBVIOUS
  <2>1. i + 1 \in Nat /\ i + 1 >= 1 /\ i + 1 <= Len(f) + 1
    BY <1>1
  <2> QED BY <1>1, <2>1, RunIs, RunEnds, NoDigits
<1> HIDE DEF n
<1>4. PICK e \in Nat : /\ i <= e /\ e - i <= 1 + MaxDigits /\ j <= Len(f) + 1
                       /\ \A k \in i .. e - 1 : f[k] \in S
                       /\ e > i => CharAt(f, i) = "." /\ f[i] = "." /\ \A k \in i + 1 .. e - 1 : f[k] \in Digits
                       /\ j = e \/ (j = e + 1 /\ f[e] = "*")
  <2>1. CASE CharAt(f, i) # "."
    <3>1. j = i
      BY <1>2, <2>1
    <3> QED BY <1>1, <3>1, NoDigits
  <2>2. CASE CharAt(f, i) = "." /\ CharAt(f, i + 1) = "*"
    <3>1. j = i + 2
      BY <1>2, <2>2
    <3>2. i <= Len(f) /\ f[i] = "." /\ i + 1 <= Len(f) /\ f[i + 1] = "*"
      BY <2>2 DEF CharAt
    <3> QED BY <1>1, <2>2, <3>1, <3>2, NoDigits
  <2>3. CASE CharAt(f, i) = "." /\ CharAt(f, i + 1) # "*"
    <3>1. j = i + 1 + n
      BY <1>2, <2>3
    <3>2. i <= Len(f) /\ f[i] = "."
      BY <2>3 DEF CharAt
    <3>3. n \in 0 .. MaxDigits /\ i + 1 + n <= Len(f) + 1 /\ \A k \in i + 1 .. i + 1 + n - 1 : f[k] \in Digits
      BY <1>3, <3>2
    <3>4. \A k \in i .. i + 1 + n - 1 : k = i \/ k \in i + 1 .. i + 1 + n - 1
      BY <1>1, <3>3
    <3> QED BY <1>1, <2>3, <3>1, <3>2, <3>3, <3>4, NoDigits
  <2> QED BY <2>1, <2>2, <2>3
<1> HIDE DEF j, S
<1>5. j \in Nat /\ "*" \notin S
  BY <1>4, NoDigits DEF S
<1>6. c \in Seq(S) /\ Len(c) = e - i /\ \A k \in 1 .. e - i : c[k] = f[i + k - 1]
  <2>1. IsPart(f, S, i, j, e)
    BY <1>1, <1>4, <1>5 DEF IsPart
  <2>2. IsCopied(f, S, i, e, c)
    BY <2>1, CopiedPart
  <2> QED BY <2>2 DEF IsCopied
<1> HIDE DEF c
<1>7. c # << >> => e > i
  <2>1. Len(c) = 0 => c = << >>
    BY <1>6, EmptySeq
  <2> QED BY <1>4, <1>6, <2>1
<1>8. e > i => c[1] = "." /\ \A k \in 2 .. Len(c) : c[k] \in Digits
  <2> SUFFICES ASSUME e > i PROVE c[1] = "." /\ \A k \in 2 .. Len(c) : c[k] \in Digits
    OBVIOUS
  <2>1. 1 \in 1 .. e - i /\ i + 1 - 1 = i
    BY <1>1, <1>4
  <2>2. c[1] = f[i]
    BY <1>6, <2>1
  <2>3. \A k \in 2 .. Len(c) : k \in 1 .. e - i /\ i + k - 1 \in i + 1 .. e - 1
    BY <1>1, <1>4, <1>6
  <2> QED BY <1>4, <1>6, <2>2, <2>3
<1>9. IsPoint(c)
  BY <1>1, <1>4, <1>6, <1>7, <1>8 DEF IsPoint, S
<1> QED BY <1>1, <1>4, <1>5, <1>7, <1>9 DEF c, j

-----------------------------------------------------------------------------
\* Some of the first k elements of s, each once.
IsSomeOf(s, k, u) ==
    /\ u \in Seq(Flags)
    /\ \A i \in 1 .. Len(u) : \E j \in 1 .. k : u[i] = s[j]
    /\ \A i, j \in 1 .. Len(u) : i # j => u[i] # u[j]

LEMMA OneMoreFlag ==
  ASSUME NEW s \in Seq(Flags), NEW k \in 1 .. Len(s), NEW u, IsSomeOf(s, k - 1, u),
         \A j \in 1 .. k - 1 : s[j] # s[k]
  PROVE  IsSomeOf(s, k, Append(u, s[k]))
<1>1. /\ u \in Seq(Flags) /\ s[k] \in Flags /\ Len(u) \in Nat
      /\ \A i \in 1 .. Len(u) : \E j \in 1 .. k - 1 : u[i] = s[j]
      /\ \A i, j \in 1 .. Len(u) : i # j => u[i] # u[j]
  BY ElementOfSeq, LenProperties DEF IsSomeOf
<1> DEFINE n == Len(u)
           v == Append(u, s[k])
<1>2. v \in Seq(Flags) /\ Len(v) = n + 1 /\ v[n + 1] = s[k] /\ \A i \in 1 .. n : v[i] = u[i]
  BY <1>1, AppendProperties
<1> HIDE DEF v
<1>3. k \in 1 .. k /\ \A j \in 1 .. k - 1 : j \in 1 .. k
  BY LenProperties
<1>4. \A i \in 1 .. n + 1 : i \in 1 .. n \/ i = n + 1
  BY <1>1
<1>5. ASSUME NEW i \in 1 .. Len(v) PROVE \E j \in 1 .. k : v[i] = s[j]
  <2>1. CASE i \in 1 .. n
    <3>1. PICK j \in 1 .. k - 1 : u[i] = s[j]
      BY <1>1, <2>1
    <3> QED BY <1>2, <1>3, <2>1, <3>1
  <2>2. CASE i = n + 1
    BY <1>2, <1>3, <2>2
  <2> QED BY <1>2, <1>4, <2>1, <2>2
<1>6. \A i \in 1 .. n : u[i] # s[k]
  BY <1>1
<1>7. ASSUME NEW i \in 1 .. Len(v), NEW j \in 1 .. Len(v), i # j PROVE v[i] # v[j]
  BY <1>1, <1>2, <1>4, <1>6, <1>7
<1> QED BY <1>2, <1>5, <1>7 DEF IsSomeOf, v

\* What has been seen before is not copied again.
LEMMA DistinctIs ==
  ASSUME NEW s \in Seq(Flags)
  PROVE  IsSomeOf(s, Len(s), Distinct(s))
<1> DEFINE n == Len(s)
           V == Seq(Flags)
           seen(k) == \E j \in 1 .. k - 1 : s[j] = s[k]
           next == [k \in 1 .. n |-> [u \in V |-> IF seen(k) THEN u ELSE Append(u, s[k])]]
           J == CHOOSE J : J = [k \in 0 .. n |-> IF k = 0 THEN << >>
                                                 ELSE IF \E j \in 1 .. k - 1 : s[j] = s[k] THEN J[k - 1]
                                                 ELSE Append(J[k - 1], s[k])]
           empty == << >>
           E(k, g) == IF k = 0 THEN empty ELSE IF seen(k) THEN g[k - 1] ELSE Append(g[k - 1], s[k])
<1>1. n \in Nat /\ \A k \in 1 .. n : s[k] \in Flags
  BY LenProperties, ElementOfSeq
<1>2. empty \in V
  OBVIOUS
<1>3. next \in [1 .. n -> [V -> V]]
  <2>1. ASSUME NEW k \in 1 .. n, NEW u \in V PROVE (IF seen(k) THEN u ELSE Append(u, s[k])) \in V
    BY <1>1, AppendProperties
  <2> HIDE DEF V, seen
  <2> QED BY <2>1
<1>4. PICK f \in [0 .. n -> V] : f[0] = empty /\ \A k \in 1 .. n : f[k] = next[k][f[k - 1]]
  <2>1. Stepwise(V, n, empty, next)
    BY <1>1, <1>2, <1>3 DEF Stepwise
  <2> HIDE DEF V, n, empty, next
  <2> QED BY <2>1, Upwards
<1>5. f = [k \in 0 .. n |-> E(k, f)]
  <2> HIDE DEF V, seen, empty, n
  <2>0. \A k \in 1 .. n : k - 1 \in 0 .. n
    BY <1>1
  <2>1. \A k \in 1 .. n : k - 1 \in 0 .. n /\ f[k - 1] \in V
    BY <2>0
  <2>2. \A k \in 1 .. n : f[k] = IF seen(k) THEN f[k - 1] ELSE Append(f[k - 1], s[k])
    BY <1>4, <2>1
  <2>3. \A k \in 0 .. n : k = 0 \/ (k \in 1 .. n /\ k # 0)
    BY <1>1
  <2>4. \A k \in 0 .. n : f[k] = E(k, f)
    BY <1>4, <2>2, <2>3
  <2> HIDE DEF E
  <2> QED BY <2>4
<1>6. J = [k \in 0 .. n |-> E(k, J)]
  BY <1>5, Zenon
<1>7. Distinct(s) = J[n]
  BY DEF Distinct
<1> HIDE DEF J
<1>8. \A k \in 0 .. n : J[k] = E(k, J)
  <2> HIDE DEF E
  <2> QED BY <1>6
<1> DEFINE S == {k \in Nat : IsSomeOf(s, k, J[k])}
<1>9. 0 \in S
  <2>1. J[0] = empty
    BY <1>1, <1>8
  <2>2. IsSomeOf(s, 0, empty)
    BY <1>2 DEF IsSomeOf
  <2> QED BY <2>1, <2>2
<1>10. \A k \in 0 .. n - 1 : k \in S => k + 1 \in S
  <2> SUFFICES ASSUME NEW k \in 0 .. n - 1, k \in S PROVE k + 1 \in S
    OBVIOUS
  <2>1. PICK m \in 1 .. n : m = k + 1 /\ m - 1 = k /\ m \in Nat /\ m \in 0 .. n /\ m # 0
    BY <1>1
  <2>2. IsSomeOf(s, m - 1, J[m - 1])
    BY <2>1
  <2>3. J[m] = IF seen(m) THEN J[m - 1] ELSE Append(J[m - 1], s[m])
    BY <1>8, <2>1
  <2>4. CASE seen(m)
    <3>1. \A j \in 1 .. m - 1 : j \in 1 .. m
      OBVIOUS
    <3>2. IsSomeOf(s, m, J[m - 1])
      BY <2>2, <3>1 DEF IsSomeOf
    <3>3. J[m] = J[m - 1]
      BY <2>3, <2>4, Zenon
    <3> QED BY <2>1, <3>2, <3>3
  <2>5. CASE ~seen(m)
    <3>1. IsSomeOf(s, m, Append(J[m - 1], s[m]))
      BY <2>2, <2>5, OneMoreFlag
    <3>2. J[m] = Append(J[m - 1], s[m])
      BY <2>3, <2>5, Zenon
    <3> QED BY <2>1, <3>1, <3>2
  <2> QED BY <2>4, <2>5
<1> HIDE DEF S
<1>11. \A k \in 0 .. n : k \in S
  BY <1>1, <1>9, <1>10, BoundedInduction
<1> QED BY <1>1, <1>7, <1>11 DEF S

\* There are five flags, so at most five are copied.
LEMMA FiveFlags ==
  ASSUME NEW s, NEW k, NEW u, IsSomeOf(s, k, u)
  PROVE  u \in Seq(Flags) /\ Len(u) <= 5
<1>1. u \in Seq(Flags) /\ Len(u) \in Nat /\ \A i \in 1 .. Len(u) : u[i] \in Flags
  BY ElementOfSeq, LenProperties DEF IsSomeOf
<1>2. \A i, j \in 1 .. Len(u) : i # j => u[i] # u[j]
  BY DEF IsSomeOf
<1>3. ASSUME Len(u) > 5 PROVE FALSE
  <2>1. /\ 1 \in 1 .. Len(u) /\ 2 \in 1 .. Len(u) /\ 3 \in 1 .. Len(u)
        /\ 4 \in 1 .. Len(u) /\ 5 \in 1 .. Len(u) /\ 6 \in 1 .. Len(u)
    BY <1>1, <1>3
  <2>2. /\ u[1] \in Flags /\ u[2] \in Flags /\ u[3] \in Flags
        /\ u[4] \in Flags /\ u[5] \in Flags /\ u[6] \in Flags
    BY <1>1, <2>1
  <2>3. /\ u[1] # u[2] /\ u[1] # u[3] /\ u[1] # u[4] /\ u[1] # u[5] /\ u[1] # u[6]
        /\ u[2] # u[3] /\ u[2] # u[4] /\ u[2] # u[5] /\ u[2] # u[6]
        /\ u[3] # u[4] /\ u[3] # u[5] /\ u[3] # u[6]
        /\ u[4] # u[5] /\ u[4] # u[6] /\ u[5] # u[6]
    BY <1>2, <2>1
  <2> DEFINE a == u[1]
             b == u[2]
             c == u[3]
             d == u[4]
             e == u[5]
             f == u[6]
  <2> HIDE DEF a, b, c, d, e, f
  <2>4. /\ a \in Flags /\ b \in Flags /\ c \in Flags /\ d \in Flags /\ e \in Flags /\ f \in Flags
        /\ a # b /\ a # c /\ a # d /\ a # e /\ a # f /\ b # c /\ b # d /\ b # e /\ b # f
        /\ c # d /\ c # e /\ c # f /\ d # e /\ d # f /\ e # f
    BY <2>2, <2>3 DEF a, b, c, d, e, f
  <2> QED BY <2>4 DEF Flags
<1> QED BY <1>1, <1>3

-----------------------------------------------------------------------------
\* The characters that are copied before a precision.
Before == Digits \cup Flags \cup {"%"}

\* What is copied: the flags and the width, and then the precision.
IsCopy(p, before, point) ==
    /\ before \in Seq(Before) /\ Len(before) <= 6 + MaxDigits
    /\ IsPoint(point)
    /\ p.copied = before \o point
    /\ p.copiedBeforePrecision = Len(before) \/ (p.copiedBeforePrecision = 0 /\ point = << >>)
    /\ p.category # "None" =>
         p.specifier \in DOMAIN Category /\ p.category = Category[p.specifier]

LEMMA ParsedIs ==
  ASSUME NEW f \in Seq(STRING)
  PROVE  \E before, point : IsCopy(ParsedPrintf(f), before, point)
<1> DEFINE width     == FlagsEnd(f)
           precision == WidthEnd(f)[width]
           length    == PrecisionEnd(f)[precision]
           specifier == LengthEnd(f)[length]
           isValid   == CharAt(f, specifier) \in DOMAIN Category
           flags     == Distinct(SubSeq(f, 1, width - 1))
           digits    == WithoutStar(SubSeq(f, width, precision - 1))
           percent   == <<"%">>
           before    == percent \o flags \o digits
           point     == WithoutStar(SubSeq(f, precision, length - 1))
           p         == ParsedPrintf(f)
<1>1. width \in 1 .. Len(f) + 1 /\ SubSeq(f, 1, width - 1) \in Seq(Flags)
  BY FlagsAre
<1>2. flags \in Seq(Flags) /\ Len(flags) <= 5
  <2> DEFINE s == SubSeq(f, 1, width - 1)
  <2>1. s \in Seq(Flags)
    BY <1>1
  <2> HIDE DEF s
  <2>2. Distinct(s) \in Seq(Flags) /\ Len(Distinct(s)) <= 5
    BY <2>1, DistinctIs, FiveFlags
  <2> QED BY <2>2 DEF s
<1>3. precision \in 1 .. Len(f) + 1 /\ digits \in Seq(Digits) /\ Len(digits) <= MaxDigits
  <2> HIDE DEF width
  <2>1. precision \in width .. Len(f) + 1 /\ digits \in Seq(Digits) /\ Len(digits) <= MaxDigits
    BY <1>1, WidthIs
  <2>2. width \in Nat /\ width >= 1
    BY <1>1, LenProperties
  <2> HIDE DEF precision
  <2> QED BY <2>1, <2>2, LenProperties
<1>4. IsPoint(point) /\ (point # << >> => CharAt(f, precision) = ".")
  <2> HIDE DEF precision
  <2> QED BY <1>3, PrecisionIs
<1>5. /\ p.copied = before \o point
      /\ p.copiedBeforePrecision = IF CharAt(f, precision) = "." THEN Len(before) ELSE 0
      /\ p.specifier = CharAt(f, specifier)
      /\ p.category = IF isValid THEN Category[CharAt(f, specifier)] ELSE "None"
  BY DEF ParsedPrintf
<1> HIDE DEF width, precision, length, specifier, flags, digits, p, point
<1>6. before \in Seq(Before) /\ Len(before) <= 6 + MaxDigits
  <2>1. /\ percent \in Seq(Before) /\ Len(percent) = 1
        /\ flags \in Seq(Before) /\ digits \in Seq(Before)
    <3>1. Flags \subseteq Before /\ Digits \subseteq Before /\ "%" \in Before
      BY DEF Before
    <3>2. flags \in Seq(Before) /\ digits \in Seq(Before)
      BY <1>2, <1>3, <3>1, SeqMonotonic
    <3> HIDE DEF Before
    <3> QED BY <3>1, <3>2
  <2> HIDE DEF percent
  <2>2. percent \o flags \in Seq(Before) /\ Len(percent \o flags) = 1 + Len(flags)
    BY <2>1, ConcatProperties, ZenonT(40)
  <2>3. before \in Seq(Before) /\ Len(before) = 1 + Len(flags) + Len(digits)
    <3> DEFINE first == percent \o flags
    <3>1. before = first \o digits
      OBVIOUS
    <3> HIDE DEF first, before
    <3>2. first \in Seq(Before) /\ Len(first) = 1 + Len(flags) /\ digits \in Seq(Before)
      BY <2>1, <2>2 DEF first
    <3> QED BY <3>1, <3>2, ConcatProperties, ZenonT(40)
  <2>4. Len(flags) \in Nat /\ Len(digits) \in Nat
    BY <1>2, <1>3, LenProperties
  <2> HIDE DEF before
  <2> QED BY <1>2, <1>3, <2>3, <2>4, NoDigits
<1> HIDE DEF before
<1>7. IsCopy(p, before, point)
  BY <1>4, <1>5, <1>6 DEF IsCopy
<1> QED BY <1>7 DEF p

\* What is copied of a format has room in m_format.
LEMMA CopyFits ==
  ASSUME NEW f \in Seq(STRING)
  PROVE  Len(ParsedPrintf(f).copied) <= MaxPrefix
<1>1. PICK before, point : IsCopy(ParsedPrintf(f), before, point)
  BY ParsedIs
<1>2. /\ before \in Seq(Before) /\ Len(before) <= 6 + MaxDigits
      /\ point \in Seq(Digits \cup {"."}) /\ Len(point) <= 1 + MaxDigits
      /\ ParsedPrintf(f).copied = before \o point
  BY <1>1 DEF IsCopy, IsPoint
<1> DEFINE V == Before \cup {"."}
<1>3. before \in Seq(V) /\ point \in Seq(V)
  <2>1. Before \subseteq V /\ Digits \cup {"."} \subseteq V
    BY DEF Before
  <2> HIDE DEF V
  <2> QED BY <1>2, <2>1, SeqMonotonic
<1>4. Len(before \o point) = Len(before) + Len(point) /\ Len(before) \in Nat /\ Len(point) \in Nat
  <2> HIDE DEF V
  <2> QED BY <1>3, ConcatProperties, LenProperties
<1> QED BY <1>2, <1>4, NoDigits DEF MaxPrefix

-----------------------------------------------------------------------------
\* The beginning of a text that was put together of two.
LEMMA FrontIs ==
  ASSUME NEW V, NEW s \in Seq(V), NEW t \in Seq(V)
  PROVE  /\ SubSeq(s \o t, 1, Len(s \o t) - Len(t)) = s
         /\ Len(s \o t) = Len(s) + Len(t)
         /\ \A i \in 1 .. Len(t) : (s \o t)[Len(s) + i] = t[i]
<1> DEFINE u == s \o t
           n == Len(s)
           r == SubSeq(u, 1, n)
<1>1. /\ u \in Seq(V) /\ Len(u) = n + Len(t) /\ n \in Nat /\ Len(t) \in Nat
      /\ \A i \in 1 .. n : u[i] = s[i]
      /\ \A i \in 1 .. Len(t) : u[n + i] = t[i]
  BY ConcatIs
<1>2. \A i \in 1 .. n : s[i] \in V
  BY ElementOfSeq
<1> HIDE DEF u, n
<1>3. r \in Seq(V) /\ Len(r) = n /\ \A i \in 1 .. n : r[i] = u[i]
  <2>1. \A i \in 1 .. n : u[i] \in V
    BY <1>1, <1>2
  <2>2. n \in Int /\ 1 \in Int
    BY <1>1
  <2>3. /\ r \in Seq(V) /\ Len(r) = IF 1 <= n THEN n - 1 + 1 ELSE 0
        /\ \A i \in 1 .. n - 1 + 1 : r[i] = u[1 + i - 1]
    BY <2>1, <2>2, SubSeqProperties
  <2> HIDE DEF r
  <2> QED BY <1>1, <2>3
<1> HIDE DEF r
<1>4. r = s
  <2>1. Len(r) = Len(s) /\ \A i \in 1 .. Len(r) : r[i] = s[i]
    BY <1>1, <1>3 DEF n
  <2> QED BY <1>3, <2>1, SeqEqual
<1>5. Len(u) - Len(t) = n
  BY <1>1
<1> QED BY <1>1, <1>4, <1>5 DEF u, n, r

\* Marks are characters.
LEMMA MarksAre ==
  ASSUME NEW f \in Seq(Literals)
  PROVE  Marks(f) \in Seq(Characters)
<1>1. Len(f) \in Nat /\ \A k \in 1 .. Len(f) : f[k] \in Literals
  BY LenProperties, ElementOfSeq
<1>2. \A k \in 1 .. Len(f) : Mark(f[k]) \in Characters
  BY <1>1, MarkIsClean, CleanIsCharacters
<1> DEFINE c(k) == Mark(f[k])
           n == Len(f)
<1>3. Marks(f) = [k \in 1 .. n |-> c(k)]
  BY DEF Marks
<1>4. n \in Nat /\ \A k \in 1 .. n : c(k) \in Characters
  BY <1>1, <1>2
<1> HIDE DEF c, n
<1> QED BY <1>3, <1>4

LEMMA CopiesAreLiterals ==
  ASSUME NEW p, NEW before, NEW point, IsCopy(p, before, point)
  PROVE  /\ before \in Seq(Literals) /\ point \in Seq(Literals)
         /\ p.copied \in Seq(Literals)
<1>1. Before \subseteq Literals /\ Digits \cup {"."} \subseteq Literals
  BY DEF Before, Digits, FirstDigits, Flags, Literals
<1>2. before \in Seq(Before) /\ point \in Seq(Digits \cup {"."}) /\ p.copied = before \o point
  BY DEF IsCopy, IsPoint
<1>3. before \in Seq(Literals) /\ point \in Seq(Literals)
  <2> HIDE DEF Before, Literals
  <2> QED BY <1>1, <1>2, SeqMonotonic
<1> QED BY <1>2, <1>3, ConcatProperties

\* A number is printed by the last character of its format.
LEMMA NumberPrinted ==
  ASSUME NEW copied \in Seq(Literals), NEW more \in Seq(Literals), NEW c \in Conversions, NEW n \in Int
  PROVE  PrintedNumber(copied \o more \o <<c>>, n) \in Seq(Characters)
<1> DEFINE V == Literals \cup Conversions
           s == copied \o more
           t == <<c>>
           f == s \o t
           front == SubSeq(f, 1, Len(f) - 1)
<1>1. s \in Seq(Literals)
  BY ConcatProperties
<1>2. s \in Seq(V) /\ t \in Seq(V) /\ Len(t) = 1 /\ t[1] = c /\ 1 \in 1 .. Len(t)
  <2>1. Literals \subseteq V /\ c \in V
    OBVIOUS
  <2> HIDE DEF V, s
  <2> QED BY <1>1, <2>1, SeqMonotonic
<1> HIDE DEF V, s, t
<1>3. front = s /\ f[Len(f)] = c
  <2>1. /\ SubSeq(f, 1, Len(f) - Len(t)) = s /\ Len(f) = Len(s) + Len(t)
        /\ \A i \in 1 .. Len(t) : f[Len(s) + i] = t[i]
    BY <1>2, FrontIs, ZenonT(40)
  <2> HIDE DEF f
  <2> QED BY <1>2, <2>1
<1> DEFINE last == <<f[Len(f)], n>>
<1>4. last \in Characters
  BY <1>3, ConversionIsClean, CleanIsCharacters
<1>5. Marks(front) \in Seq(Characters)
  BY <1>1, <1>3, MarksAre
<1>6. PrintedNumber(f, n) = Marks(front) \o <<last>>
  BY DEF PrintedNumber
<1> HIDE DEF last, front, f
<1>7. Marks(front) \o <<last>> \in Seq(Characters)
  <2> DEFINE a == Marks(front)
             b == <<last>>
  <2>1. a \in Seq(Characters) /\ b \in Seq(Characters)
    BY <1>4, <1>5
  <2> HIDE DEF a, b
  <2>2. a \o b \in Seq(Characters)
    BY <2>1, ConcatProperties
  <2> QED BY <2>2 DEF a, b
<1> QED BY <1>6, <1>7 DEF f, s, t

LEMMA SwappedIs == ASSUME NEW n \in Int PROVE ByteSwapped(n) \in Int
<1>1. n % 256 \in Int /\ n \div 256 \in Int
  OBVIOUS
<1> DEFINE a == n % 256
           b == n \div 256
<1> HIDE DEF a, b
<1>2. 256 * a + b \in Int
  BY <1>1 DEF a, b
<1> QED BY <1>2 DEF ByteSwapped, a, b

\* The specifiers, by the category.
LEMMA SpecifiersAre ==
  ASSUME NEW c \in DOMAIN Category
  PROVE  /\ Category[c] = "Integer" => c \in Integerlike
         /\ Category[c] = "Float" => c \in Floatlike
         /\ Category[c] = "Character" => c \in Characterlike
         /\ Category[c] = "String" => c \in Stringlike
BY DEF Category, Characterlike, Integerlike, Floatlike, Stringlike

\* What is printed as a number is text.
LEMMA PrintedIs ==
  ASSUME NEW v, WellFormedValue(v), NEW p, NEW before, NEW point, IsCopy(p, before, point),
         MatchesType(p.category, v)
  PROVE  Printed(p, v) \in Seq(Characters)
<1>1. p.copied \in Seq(Literals)
  BY CopiesAreLiterals
<1>2. p.category # "None" => p.specifier \in DOMAIN Category /\ p.category = Category[p.specifier]
  BY DEF IsCopy
<1>3. v.data[1] \in Int
  <2>1. v.inType \in NumberTypes \cup {"UNICODECHAR", "ANSICHAR"}
    BY DEF MatchesType, IntegerSize, NumberTypes, SignedTypes, UnsignedTypes, HexTypes, PointerTypes
  <2>2. v.data \in Seq(Int) /\ Len(v.data) >= 1
    BY <2>1 DEF WellFormedValue
  <2> DEFINE d == v.data
  <2> HIDE DEF d
  <2>3. d \in Seq(Int) /\ 1 \in 1 .. Len(d)
    BY <2>2, LenProperties DEF d
  <2>4. d[1] \in Int
    BY <2>3, ElementOfSeq
  <2> QED BY <2>4 DEF d
<1> DEFINE none == << >>
<1>4. none \in Seq(Literals) /\ <<"h", "h">> \in Seq(Literals) /\ <<"h">> \in Seq(Literals)
      /\ <<"l", "l">> \in Seq(Literals) /\ <<"l">> \in Seq(Literals)
  <2>1. "h" \in Literals /\ "l" \in Literals
    BY DEF Literals
  <2> HIDE DEF Literals
  <2> QED BY <2>1
<1>5. CASE p.category = "Integer"
  <2>1. IntegerSize(v) \in {1, 2, 4, 8}
    BY <1>5 DEF MatchesType, IntegerSize
  <2> DEFINE more == IntegerLength[IntegerSize(v)]
             c == Specifier(p)
             n == PrintedInteger(v)
  <2>2. more \in {none, <<"h", "h">>, <<"h">>, <<"l", "l">>}
    <3> DEFINE size == IntegerSize(v)
    <3> HIDE DEF size
    <3> QED BY <2>1 DEF IntegerLength, size
  <2>3. more \in Seq(Literals)
    <3> HIDE DEF more
    <3> QED BY <1>4, <2>2
  <2>4. c \in Conversions
    BY <1>2, <1>5, SpecifiersAre DEF Specifier, Integerlike, Conversions
  <2>5. n \in Int
    BY <1>3, SwappedIs DEF PrintedInteger
  <2>6. Printed(p, v) = PrintedNumber(p.copied \o more \o <<c>>, n)
    BY <1>5 DEF Printed, MakeIntegerFormat
  <2> HIDE DEF more, c, n
  <2> QED BY <1>1, <2>3, <2>4, <2>5, <2>6, NumberPrinted
<1>6. CASE p.category = "Float"
  <2> DEFINE c == p.specifier
  <2>1. c \in Conversions
    BY <1>2, <1>6, SpecifiersAre DEF Floatlike, Conversions
  <2>2. p.copied \o none = p.copied
    BY <1>1, ConcatEmptySeq
  <2>3. Printed(p, v) = PrintedNumber(p.copied \o <<c>>, v.data[1])
    BY <1>6 DEF Printed, MakeFloatFormat
  <2> HIDE DEF c, none
  <2>4. PrintedNumber(p.copied \o none \o <<c>>, v.data[1]) \in Seq(Characters)
    BY <1>1, <1>3, <1>4, <2>1, NumberPrinted
  <2> QED BY <2>2, <2>3, <2>4
<1>7. CASE p.category = "Character"
  <2> DEFINE n == IF v.data[1] = 0 THEN 32 ELSE v.data[1]
             more == <<"l">>
             t == <<"l", "c">>
             last == <<"c">>
  <2>1. n \in Int /\ "c" \in Conversions /\ more \in Seq(Literals)
    BY <1>3, <1>4 DEF Conversions
  <2>2. Printed(p, v) = PrintedNumber(p.copied \o t, n)
    BY <1>7 DEF Printed, MakeCharacterFormat
  <2>3. more \o last = t
    BY TwoOnes
  <2>4. p.copied \o more \o last = p.copied \o t
    <3> DEFINE V == Literals \cup {"c"}
    <3>1. p.copied \in Seq(V) /\ more \in Seq(V) /\ last \in Seq(V)
      <4>1. Literals \subseteq V /\ "c" \in V
        OBVIOUS
      <4> HIDE DEF V, more
      <4> QED BY <1>1, <2>1, <4>1, SeqMonotonic
    <3> DEFINE copied == p.copied
    <3>2. copied \in Seq(V) /\ more \in Seq(V) /\ last \in Seq(V)
      BY <3>1
    <3> HIDE DEF V, more, last, t, copied
    <3>3. (copied \o more) \o last = copied \o (more \o last)
      BY <3>2, ConcatAssociative
    <3>4. copied \o more \o last = copied \o t
      BY <2>3, <3>3, Zenon
    <3> QED BY <3>4, Zenon DEF copied
  <2> HIDE DEF n, more, t
  <2>5. PrintedNumber(p.copied \o more \o last, n) \in Seq(Characters)
    BY <1>1, <2>1, NumberPrinted
  <2> QED BY <2>2, <2>4, <2>5
<1> QED BY <1>5, <1>6, <1>7 DEF MatchesType

-----------------------------------------------------------------------------
\* The number that digits stand for.
LEMMA NumberInIs ==
  ASSUME NEW digits \in Seq(Digits)
  PROVE  NumberIn(digits) \in Nat
<1> DEFINE n == Len(digits)
           d(k) == DigitValue[digits[k]]
           next == [k \in 1 .. n |-> [i \in Nat |-> 10 * i + d(k)]]
           J == CHOOSE J : J = [k \in 0 .. n |-> IF k = 0 THEN 0 ELSE 10 * J[k - 1] + DigitValue[digits[k]]]
<1>1. n \in Nat
  BY LenProperties
<1>2. \A k \in 1 .. n : d(k) \in Nat
  <2>1. \A c \in Digits : DigitValue[c] \in Nat
    BY DEF DigitValue, Digits, FirstDigits
  <2> HIDE DEF n
  <2>2. \A k \in 1 .. n : digits[k] \in Digits
    BY ElementOfSeq DEF n
  <2> QED BY <2>1, <2>2
<1>3. NumberIn(digits) = J[n]
  BY DEF NumberIn
<1> HIDE DEF n, d
<1>4. next \in [1 .. n -> [Nat -> Nat]]
  <2>1. \A k \in 1 .. n, i \in Nat : 10 * i + d(k) \in Nat
    BY <1>2
  <2> QED BY <2>1
<1> HIDE DEF next
<1>5. PICK f \in [0 .. n -> Nat] :
        f[0] = 0 /\ \A k \in 1 .. n : f[k] = next[k][f[k - 1]]
  <2>1. Stepwise(Nat, n, 0, next)
    BY <1>1, <1>4 DEF Stepwise
  <2> QED BY <2>1, Upwards
<1>6. f = [k \in 0 .. n |-> IF k = 0 THEN 0 ELSE 10 * f[k - 1] + d(k)]
  <2>1. \A k \in 1 .. n : k - 1 \in 0 .. n
    BY <1>1
  <2>2. \A k \in 1 .. n : f[k] = 10 * f[k - 1] + d(k)
    BY <1>5, <2>1 DEF next
  <2>3. \A k \in 0 .. n : f[k] = IF k = 0 THEN 0 ELSE 10 * f[k - 1] + d(k)
    <3>1. \A k \in 0 .. n : k = 0 \/ k \in 1 .. n
      BY <1>1
    <3> QED BY <1>5, <2>2, <3>1
  <2> QED BY <1>5, <2>3
<1>7. J = [k \in 0 .. n |-> IF k = 0 THEN 0 ELSE 10 * J[k - 1] + d(k)]
  BY <1>6 DEF d
<1> HIDE DEF J
<1>8. J[0] = 0 /\ \A k \in 1 .. n : J[k] = 10 * J[k - 1] + d(k)
  <2> DEFINE E(k) == IF k = 0 THEN 0 ELSE 10 * J[k - 1] + d(k)
  <2>1. J = [k \in 0 .. n |-> E(k)]
    BY <1>7
  <2>2. \A k \in 0 .. n : J[k] = E(k)
    <3> HIDE DEF E
    <3> QED BY <2>1
  <2>3. 0 \in 0 .. n /\ \A k \in 1 .. n : k \in 0 .. n /\ k # 0
    BY <1>1
  <2>4. \A k \in 1 .. n : E(k) = 10 * J[k - 1] + d(k)
    BY <2>3
  <2> HIDE DEF E
  <2>5. E(0) = 0
    BY DEF E
  <2> QED BY <2>2, <2>3, <2>4, <2>5
<1>9. \A k \in 0 .. n : J[k] \in Nat
  <2> DEFINE S == {k \in Nat : J[k] \in Nat}
  <2>1. 0 \in S
    BY <1>1, <1>8
  <2>2. \A k \in 0 .. n - 1 : k \in S => k + 1 \in S
    <3> SUFFICES ASSUME NEW k \in 0 .. n - 1, k \in S PROVE k + 1 \in S
      OBVIOUS
    <3>1. PICK j \in 1 .. n : j = k + 1 /\ j - 1 = k /\ j \in Nat
      BY <1>1
    <3>2. J[j] = 10 * J[j - 1] + d(j)
      BY <1>8
    <3>3. J[j - 1] \in Nat /\ d(j) \in Nat
      BY <1>2, <3>1
    <3>4. J[j] \in Nat
      BY <3>2, <3>3
    <3> QED BY <3>1, <3>4
  <2> HIDE DEF S
  <2>3. \A k \in 0 .. n : k \in S
    BY <1>1, <2>1, <2>2, BoundedInduction
  <2> QED BY <2>3 DEF S
<1>10. n \in 0 .. n
  BY <1>1
<1> QED BY <1>3, <1>9, <1>10

\* A precision is cut from the format of a string unless it was for a string.
LEMMA StringFormatIs ==
  ASSUME NEW p, NEW before, NEW point, IsCopy(p, before, point)
  PROVE  \E q : IsPoint(q) /\ MakeStringFormat(p) = before \o q \o <<"l", "s">>
<1> DEFINE t == <<"l", "s">>
           none == << >>
<1>1. before \in Seq(Literals) /\ point \in Seq(Literals)
  BY CopiesAreLiterals
<1>2. p.copied = before \o point /\ IsPoint(point) /\ Len(before) \in Nat
      /\ (p.copiedBeforePrecision # 0 => p.copiedBeforePrecision = Len(before))
  BY <1>1, LenProperties DEF IsCopy
<1>3. MakeStringFormat(p) = (IF p.category # "String" /\ p.copiedBeforePrecision # 0
                             THEN SubSeq(p.copied, 1, p.copiedBeforePrecision) ELSE p.copied) \o t
  BY DEF MakeStringFormat
<1> HIDE DEF t, none
<1>4. CASE p.category # "String" /\ p.copiedBeforePrecision # 0
  <2> DEFINE b == before \o point
             r == SubSeq(b, 1, Len(before))
  <2>1. Len(b) - Len(point) = Len(before)
    <3>1. Len(b) = Len(before) + Len(point) /\ Len(point) \in Nat
      BY <1>1, FrontIs, LenProperties
    <3> HIDE DEF b
    <3> QED BY <1>2, <3>1
  <2>2. SubSeq(b, 1, Len(b) - Len(point)) = before
    BY <1>1, FrontIs
  <2>3. r = before
    BY <2>1, <2>2
  <2>4. MakeStringFormat(p) = r \o t
    BY <1>2, <1>3, <1>4
  <2> HIDE DEF r, b
  <2>5. before \o none = before
    BY <1>1, ConcatEmptySeq DEF none
  <2>6. IsPoint(none)
    BY DEF IsPoint, none, MaxDigits
  <2>7. MakeStringFormat(p) = before \o none \o t
    BY <2>3, <2>4, <2>5
  <2> QED BY <2>6, <2>7 DEF t
<1>5. CASE ~(p.category # "String" /\ p.copiedBeforePrecision # 0)
  <2>1. MakeStringFormat(p) = before \o point \o t
    BY <1>2, <1>3, <1>5
  <2> QED BY <1>2, <2>1 DEF t
<1> QED BY <1>4, <1>5

\* Where the precision is in the format of a string.
LEMMA PointIs ==
  ASSUME NEW before \in Seq(Before), NEW q, IsPoint(q)
  PROVE  LET f == before \o q \o <<"l", "s">>
             x == Len(before) + 1
         IN  /\ Len(f) \in Nat /\ x \in Nat
             /\ SubSeq(f, 1, Len(f) - 2) \in Seq(Literals)
             /\ \A k \in 1 .. Len(f) : f[k] = "." => k = x
             /\ SubSeq(f, x + 1, Len(f) - 2) \in Seq(Digits)
<1> DEFINE V == Literals \cup {"s"}
           t == <<"l", "s">>
           b == before \o q
           f == b \o t
           n == Len(before)
           m == Len(q)
<1>1. before \in Seq(V) /\ q \in Seq(V) /\ before \in Seq(Literals) /\ q \in Seq(Literals)
  <2>1. Before \subseteq Literals /\ Digits \cup {"."} \subseteq Literals /\ Literals \subseteq V
    BY DEF Before, Digits, FirstDigits, Flags, Literals
  <2>2. q \in Seq(Digits \cup {"."})
    BY DEF IsPoint
  <2> HIDE DEF V
  <2>3. before \in Seq(Literals) /\ q \in Seq(Literals)
    BY <2>1, <2>2, SeqMonotonic
  <2> QED BY <2>1, <2>3, SeqMonotonic
<1>2. t \in Seq(V) /\ Len(t) = 2 /\ t[1] = "l" /\ t[2] = "s"
  <2>1. "l" \in V /\ "s" \in V
    BY DEF Literals
  <2> HIDE DEF V
  <2> QED BY <2>1
<1>3. n \in Nat /\ m \in Nat
  BY <1>1, LenProperties
<1>4. b \in Seq(Literals) /\ b \in Seq(V) /\ Len(b) = n + m
      /\ (\A k \in 1 .. n : b[k] = before[k]) /\ (\A k \in 1 .. m : b[n + k] = q[k])
  <2> HIDE DEF V, b, n, m
  <2>1. b \in Seq(V) /\ b \in Seq(Literals)
    BY <1>1, ConcatProperties DEF b
  <2> QED BY <1>1, <2>1, ConcatIs DEF b, n, m
<1> HIDE DEF V, b, t, n, m
<1>5. Len(f) = n + m + 2 /\ (\A k \in 1 .. n + m : f[k] = b[k]) /\ (\A k \in 1 .. 2 : f[n + m + k] = t[k])
      /\ SubSeq(f, 1, Len(f) - 2) = b
  <2>1. /\ Len(f) = Len(b) + Len(t) /\ (\A k \in 1 .. Len(b) : f[k] = b[k])
        /\ \A k \in 1 .. Len(t) : f[Len(b) + k] = t[k]
    <3>1. b \in Seq(V) /\ t \in Seq(V)
      BY <1>2, <1>4
    <3> QED BY <3>1, ConcatIs
  <2>2. SubSeq(f, 1, Len(f) - Len(t)) = b
    BY <1>2, <1>4, FrontIs
  <2> HIDE DEF f
  <2> QED BY <1>2, <1>4, <2>1, <2>2
<1> HIDE DEF f
<1>6. \A k \in 1 .. n : f[k] \in Before
  <2>1. \A k \in 1 .. n : before[k] \in Before
    BY ElementOfSeq DEF n
  <2> QED BY <1>3, <1>4, <1>5, <2>1
<1>7. \A k \in n + 2 .. n + m : f[k] \in Digits
  <2> SUFFICES ASSUME NEW k \in n + 2 .. n + m PROVE f[k] \in Digits
    OBVIOUS
  <2>1. \A i \in 2 .. m : q[i] \in Digits
    <3>1. ASSUME m >= 2 PROVE q # << >>
      BY <3>1 DEF m
    <3> QED BY <1>3, <3>1 DEF IsPoint, m
  <2>2. k - n \in 2 .. m /\ k - n \in 1 .. m /\ k \in 1 .. n + m /\ n + (k - n) = k
    BY <1>3
  <2>3. b[k] = q[k - n]
    BY <1>4, <2>2
  <2> QED BY <1>5, <2>1, <2>2, <2>3
<1>8. f[n + m + 1] = "l" /\ f[n + m + 2] = "s"
  BY <1>2, <1>5
<1>9. \A k \in 1 .. Len(f) : f[k] = "." => k = n + 1
  <2> SUFFICES ASSUME NEW k \in 1 .. Len(f), f[k] = "." PROVE k = n + 1
    OBVIOUS
  <2>1. "." \notin Before /\ "." \notin Digits
    BY DEF Before, Digits, FirstDigits, Flags
  <2>2. \/ k \in 1 .. n \/ k = n + 1 \/ k \in n + 2 .. n + m \/ k = n + m + 1 \/ k = n + m + 2
    BY <1>3, <1>5
  <2> QED BY <1>6, <1>7, <1>8, <2>1, <2>2
<1>10. SubSeq(f, n + 1 + 1, Len(f) - 2) \in Seq(Digits)
  <2>1. n + 1 + 1 \in Nat /\ Len(f) - 2 \in Nat /\ n + 1 + 1 = n + 2 /\ Len(f) - 2 = n + m
    BY <1>3, <1>5
  <2>2. SubSeq(f, n + 2, n + m) \in Seq(Digits)
    <3>1. \A k \in n + 2 .. n + m : f[k] \in Digits
      BY <1>7
    <3> QED BY <1>3, <3>1, SubSeqProperties
  <2> QED BY <2>1, <2>2
<1>11. SubSeq(f, 1, Len(f) - 2) \in Seq(Literals) /\ Len(f) \in Nat /\ n + 1 \in Nat
  BY <1>3, <1>4, <1>5
<1> QED BY <1>9, <1>10, <1>11 DEF f, b, t, n

\* A text is printed up to its NUL, as far as the precision goes.
LEMMA StringPrinted ==
  ASSUME NEW before \in Seq(Before), NEW q, IsPoint(q), NEW s \in Seq(Characters)
  PROVE  PrintedString(before \o q \o <<"l", "s">>, s) \in Seq(Characters)
<1> DEFINE f == before \o q \o <<"l", "s">>
           x == Len(before) + 1
           points == {k \in 1 .. Len(f) : f[k] = "."}
           ends   == {k \in 1 .. Len(s) : s[k] = Ch(0)}
           end    == CHOOSE k \in ends : \A j \in ends : k <= j
           whole  == IF ends = {} THEN s ELSE SubSeq(s, 1, end - 1)
           point  == CHOOSE k \in points : TRUE
           size   == NumberIn(SubSeq(f, point + 1, Len(f) - 2))
           cut    == IF points = {} \/ size > Len(whole) THEN whole ELSE SubSeq(whole, 1, size)
           marks  == Marks(SubSeq(f, 1, Len(f) - 2))
<1>1. PrintedString(f, s) = marks \o cut
  BY DEF PrintedString
<1>2. /\ Len(f) \in Nat /\ x \in Nat
      /\ SubSeq(f, 1, Len(f) - 2) \in Seq(Literals)
      /\ \A k \in 1 .. Len(f) : f[k] = "." => k = x
      /\ SubSeq(f, x + 1, Len(f) - 2) \in Seq(Digits)
  BY PointIs
<1> HIDE DEF f, x
<1>3. marks \in Seq(Characters)
  BY <1>2, MarksAre
<1>4. Len(s) \in Nat /\ \A k \in 1 .. Len(s) : s[k] \in Characters
  BY LenProperties, ElementOfSeq
<1>5. ends # {} => end \in 1 .. Len(s)
  <2> SUFFICES ASSUME ends # {} PROVE end \in 1 .. Len(s)
    OBVIOUS
  <2>1. ends \in SUBSET Nat
    BY <1>4
  <2>2. \E k \in ends : \A j \in ends : k <= j
    <3> HIDE DEF ends
    <3> QED BY <2>1, LeastElement
  <2>3. end \in ends
    <3> HIDE DEF ends
    <3> QED BY <2>2
  <2> QED BY <2>3
<1> HIDE DEF ends, end, points, point
<1>6. whole \in Seq(Characters)
  <2>1. ASSUME ends # {} PROVE SubSeq(s, 1, end - 1) \in Seq(Characters)
    <3>1. end - 1 \in Nat /\ \A k \in 1 .. end - 1 : k \in 1 .. Len(s)
      BY <1>4, <1>5, <2>1
    <3>2. \A k \in 1 .. end - 1 : s[k] \in Characters
      BY <1>4, <3>1
    <3> QED BY <3>1, <3>2, SubSeqProperties
  <2> QED BY <2>1
<1> HIDE DEF whole
<1>7. points # {} => size \in Nat
  <2> SUFFICES ASSUME points # {} PROVE size \in Nat
    OBVIOUS
  <2>1. point \in points
    BY DEF point
  <2>2. point = x
    BY <1>2, <2>1 DEF points
  <2>3. SubSeq(f, point + 1, Len(f) - 2) \in Seq(Digits)
    BY <1>2, <2>2
  <2> QED BY <2>3, NumberInIs
<1> HIDE DEF size
<1>8. cut \in Seq(Characters)
  <2>1. ASSUME points # {}, ~(size > Len(whole)) PROVE SubSeq(whole, 1, size) \in Seq(Characters)
    <3>1. Len(whole) \in Nat /\ \A k \in 1 .. Len(whole) : whole[k] \in Characters
      BY <1>6, LenProperties, ElementOfSeq
    <3>2. size \in Nat /\ \A k \in 1 .. size : whole[k] \in Characters
      BY <1>7, <2>1, <3>1
    <3> QED BY <3>2, SubSeqProperties
  <2> QED BY <1>6, <2>1
<1> HIDE DEF cut, marks
<1>9. marks \o cut \in Seq(Characters)
  BY <1>3, <1>8, ConcatProperties
<1> QED BY <1>1, <1>9 DEF f

\* What a text is printed as with the format of a parameter.
LEMMA StringPrintedIs ==
  ASSUME NEW f \in Seq(STRING), NEW s \in Seq(Characters)
  PROVE  PrintedString(MakeStringFormat(ParsedPrintf(f)), s) \in Seq(Characters)
<1> DEFINE p == ParsedPrintf(f)
<1>1. PICK before, point : IsCopy(p, before, point)
  BY ParsedIs
<1> HIDE DEF p
<1>2. PICK q : IsPoint(q) /\ MakeStringFormat(p) = before \o q \o <<"l", "s">>
  BY <1>1, StringFormatIs
<1>3. before \in Seq(Before)
  BY <1>1 DEF IsCopy
<1> DEFINE format == before \o q \o <<"l", "s">>
<1>4. PrintedString(format, s) \in Seq(Characters)
  BY <1>2, <1>3, StringPrinted
<1> HIDE DEF format
<1>5. MakeStringFormat(p) = format
  BY <1>2 DEF format
<1> QED BY <1>4, <1>5 DEF p

-----------------------------------------------------------------------------
(***************************************************************************)
(* The owner of the buffers does what TextSpec allows: whatever the call,  *)
(* its appends are of characters, and it drops no more than there is.      *)
(***************************************************************************)
SomeTypes == {"JsonString", "JsonCleanString", "JsonLiteral"}

\* The scratch buffer has what was ahead of the call, until it is emptied.
ScratchInv ==
    /\ step = "ahead" =>
         /\ todo = Ahead(call)
         /\ Live => SizeOf("m_stringBuffer") = (IF Ended >= 2 THEN call.ahead ELSE 0)
    /\ step \notin {"idle", "cleared", "ahead", "returned"} => call.ahead <= SizeOf("m_stringBuffer")

IsUnderWay ==
    /\ step \in {"code", "fallBack"} => IsResultCode(call.value)
    /\ step = "bitmap" => HasMap
    /\ step \in {"asJson", "inJson"} => call.op = "AddAsJson"
    /\ step \in {"asString", "printed"} => IsFormatted

OwnerInv ==
    /\ AppendsInv
    /\ type \in {"None"} \cup SomeTypes
    /\ IsUnderWay
    /\ call.op # "Format" => ScratchInv

LEMMA MadeCallIs ==
  ASSUME CallInv, step \notin {"idle", "cleared"}
  PROVE  /\ WellFormedCall(call) /\ WellFormedValue(call.value) /\ call.ahead \in Nat
         /\ call.entry \in EntrySteps /\ timeZoneBiasMinutes \in Int
         /\ IsFormatted => call.op = "Printf" /\ call.format \in Seq(STRING) /\ parsed = ParsedPrintf(call.format)
         /\ Target \in Buffers
<1>1. WellFormedCall(call) /\ timeZoneBiasMinutes \in Biases
      /\ parsed = IF call.op = "Printf" THEN UsedPrintf(call.format) ELSE NoPrintf
  BY DEF CallInv
<1>2. timeZoneBiasMinutes \in -MaxBias .. MaxBias
  BY <1>1, SettingsAssumption
<1>3. timeZoneBiasMinutes \in Int
  BY <1>2
<1>4. IsFormatted => call.op = "Printf" /\ parsed = ParsedPrintf(call.format)
  BY <1>1 DEF IsFormatted, UsedPrintf
<1>5. Target \in Buffers
  BY ValueAssumption DEF Target
<1> QED BY <1>1, <1>3, <1>4, <1>5 DEF WellFormedCall

-----------------------------------------------------------------------------
\* An append begins or goes on.
LEMMA StayingKeepsOwner ==
  ASSUME OwnerInv, AppendsInv', SettledStays, UNCHANGED <<step, todo, type, call, parsed>>
  PROVE  OwnerInv'
<1>1. SizeOf("m_stringBuffer")' = SizeOf("m_stringBuffer")
  BY ValueAssumption DEF SettledStays, SizeOf
<1>2. ScratchInv => ScratchInv'
  BY <1>1 DEF ScratchInv, SettledStays
<1>3. IsUnderWay'
  BY DEF OwnerInv, IsUnderWay, HasMap, IsFormatted
<1> QED BY <1>2, <1>3 DEF OwnerInv

\* It ends well: a buffer has grown.
LEMMA GrowingKeepsOwner ==
  ASSUME OwnerInv, AppendsInv', SettledGrows, call.ahead \in Nat,
         step \in AppendSteps, made \in 1 .. Len(todo), made \in Nat, todo[made] \in Waiting,
         UNCHANGED <<step, todo, type, call, parsed>>
  PROVE  OwnerInv'
<1> DEFINE w == todo[made]
           fn == w.append.fn
           chars == w.append.chars
           c == Whole(fn, chars)
           sb == "m_stringBuffer"
           n == call.ahead
<1>0. AppendsInv
  BY DEF OwnerInv
<1>1. /\ Live /\ Live' /\ Ended' = Ended + 1 /\ Ended = made - 1
      /\ chars \in Seq(Characters) /\ w.to \in {sb, "m_stringBuffer2"}
  <2>1. chars \in Seq(Characters)
    BY DEF Waiting, AnyAppend
  <2> QED BY <2>1, ValueAssumption DEF SettledGrows, Waiting
<1>2. /\ SizeOf(sb) \in Nat /\ Len(c) \in Nat
      /\ w.to = sb /\ fn # "mbcs" => SizeOf(sb)' = SizeOf(sb) + Len(c)
      /\ w.to = sb /\ fn = "mbcs" => SizeOf(sb)' = SizeOf(sb) \/ SizeOf(sb)' = SizeOf(sb) + Len(c)
      /\ w.to # sb => SizeOf(sb)' = SizeOf(sb)
  BY <1>0, GrownBuffers, ValueAssumption
<1>3. fn # "json" => c = chars
  BY DEF Whole
<1> HIDE DEF w, fn, chars, c
<1>4. ASSUME step = "ahead", call.op # "Format" PROVE ScratchInv'
  <2>1. todo = Ahead(call) /\ SizeOf(sb) = (IF Ended >= 2 THEN n ELSE 0)
    BY <1>1, <1>4 DEF OwnerInv, ScratchInv
  <2>2. /\ Len(todo) = 2 /\ todo[1].to = "m_stringBuffer2" /\ todo[2].to = sb
        /\ \A k \in 1 .. 2 : todo[k].append.fn = "wide" /\ Len(todo[k].append.chars) = n
    BY <1>4, <2>1, AheadIs
  <2>3. fn = "wide" /\ Len(c) = n /\ made \in 1 .. 2
    BY <1>3, <2>2 DEF w, fn, chars
  <2>4. SizeOf(sb)' = (IF Ended' >= 2 THEN n ELSE 0)
    <3>1. CASE made = 1
      <4>1. w.to # sb
        BY <2>2, <3>1 DEF w
      <4>2. SizeOf(sb)' = SizeOf(sb) /\ SizeOf(sb) = 0 /\ Ended' = 1
        BY <1>1, <1>2, <2>1, <3>1, <4>1
      <4> QED BY <4>2
    <3>2. CASE made = 2
      <4>1. w.to = sb
        BY <2>2, <3>2 DEF w
      <4>2. SizeOf(sb)' = SizeOf(sb) + n /\ SizeOf(sb) = 0 /\ Ended' = 2
        BY <1>1, <1>2, <2>1, <2>3, <3>2, <4>1
      <4> QED BY <4>2
    <3> QED BY <2>3, <3>1, <3>2
  <2> QED BY <1>4, <2>1, <2>4 DEF ScratchInv
<1>5. ASSUME step # "ahead", call.op # "Format" PROVE ScratchInv'
  <2>1. n <= SizeOf(sb)
    BY <1>5 DEF OwnerInv, ScratchInv, AppendSteps
  <2>2. n <= SizeOf(sb)'
    BY <1>2, <2>1
  <2> QED BY <1>5, <2>2 DEF ScratchInv
<1>6. IsUnderWay'
  BY DEF OwnerInv, IsUnderWay, HasMap, IsFormatted
<1> QED BY <1>4, <1>5, <1>6 DEF OwnerInv

\* It fails: the scratch buffer has what it had.
LEMMA FailingKeepsOwner ==
  ASSUME OwnerInv, AppendsInv', SettledFails, step \in AppendSteps,
         UNCHANGED <<step, todo, type, call, parsed>>
  PROVE  OwnerInv'
<1>1. ~Live' /\ SizeOf("m_stringBuffer")' = SizeOf("m_stringBuffer")
  BY ValueAssumption DEF SettledFails, SizeOf
<1>2. ScratchInv => ScratchInv'
  BY <1>1 DEF ScratchInv
<1>3. IsUnderWay'
  BY DEF OwnerInv, IsUnderWay, HasMap, IsFormatted
<1> QED BY <1>2, <1>3 DEF OwnerInv

LEMMA AppendingKeepsOwner ==
  ASSUME QuietInv, CallInv, OwnerInv, MakeAppend \/ AppendStep
  PROVE  OwnerInv'
<1>0. AppendsInv
  BY DEF OwnerInv
<1>1. CASE MakeAppend
  <2>1. AppendsInv' /\ SettledStays
    BY <1>0, <1>1, MakeAppendIs
  <2>2. UNCHANGED <<step, todo, type, call, parsed>>
    BY <1>1 DEF MakeAppend
  <2> QED BY <2>1, <2>2, StayingKeepsOwner
<1>2. CASE AppendStep
  <2>1. /\ GoesOn \/ Ends
        /\ UNCHANGED <<step, todo, type, call, parsed>>
        /\ made \in 1 .. Len(todo) /\ made \in Nat /\ todo[made] \in Waiting
        /\ step \in AppendSteps
    <3>1. UNCHANGED parsed
      BY <1>2 DEF AppendStep, valueVars, callVars
    <3> QED BY <1>0, <1>2, <3>1, AppendStepHappens DEF AppendsInv
  <2>2. call.ahead \in Nat
    BY <2>1, MadeCallIs DEF AppendSteps
  <2>3. CASE GoesOn
    BY <1>0, <1>2, <2>1, <2>3, AppendStepGoesOn, StayingKeepsOwner
  <2>4. CASE Ends
    <3>1. AppendsInv' /\ (SettledGrows \/ SettledFails)
      BY <1>0, <1>2, <2>4, AppendStepEnds
    <3> QED BY <2>1, <2>2, <3>1, GrowingKeepsOwner, FailingKeepsOwner
  <2> QED BY <2>1, <2>3, <2>4
<1> QED BY <1>1, <1>2

-----------------------------------------------------------------------------
\* What follows an append or another step, without one of its own.
IsNext ==
    /\ step' \notin {"idle", "cleared", "ahead"}
    /\ step' \in {"code", "fallBack"} => IsResultCode(call.value)
    /\ step' = "bitmap" => HasMap
    /\ step' \in {"asJson", "inJson"} => call.op = "AddAsJson"
    /\ step' \in {"asString", "printed"} => IsFormatted

\* The call is past what was ahead of it.
IsPast == call.op # "Format" => call.ahead <= SizeOf("m_stringBuffer")

LEMMA NextStepKeepsOwner ==
  ASSUME OwnerInv, ~Appending, TextStays, UNCHANGED <<call, parsed>>,
         todo' \in Seq(Waiting), made' = 0, type' \in {"None"} \cup SomeTypes,
         IsNext, step' # "returned" => IsPast
  PROVE  OwnerInv'
<1>1. /\ AppendsInv'
      /\ SizeOf("m_stringBuffer")' = SizeOf("m_stringBuffer")
  BY NewTodo DEF OwnerInv
<1>2. IsUnderWay'
  BY DEF IsNext, IsUnderWay, HasMap, IsFormatted
<1>3. call.op # "Format" => ScratchInv'
  BY <1>1 DEF ScratchInv, IsPast, IsNext
<1> QED BY <1>1, <1>2, <1>3 DEF OwnerInv

LEMMA PastAhead ==
  ASSUME OwnerInv, step \notin {"idle", "cleared", "ahead", "returned"}
  PROVE  IsPast
BY DEF OwnerInv, ScratchInv, IsPast

\* The value is shown.
LEMMA ShowingKeepsOwner ==
  ASSUME OwnerInv, CallInv, step \notin {"idle", "cleared", "ahead", "returned"},
         ~Appending, TextStays, UNCHANGED <<call, parsed>>,
         NEW t \in SomeTypes, NEW appends, AppendsFor(appends, t), Shows(t, appends)
  PROVE  OwnerInv'
<1>1. /\ todo' = At(Target, appends) /\ made' = 0 /\ type' = t /\ step' = "appending"
      /\ appends \in Seq(Appends)
  BY DEF Shows, Do, AppendsFor
<1>2. Target \in Buffers
  BY MadeCallIs
<1>3. todo' \in Seq(Waiting)
  BY <1>1, <1>2, AppendsAreWaiting
<1>4. IsPast /\ IsNext
  BY <1>1, PastAhead DEF IsNext
<1> QED BY <1>1, <1>3, <1>4, NextStepKeepsOwner

\* What was ahead is there, or is not.
LEMMA AheadKeepsOwner ==
  ASSUME OwnerInv, CallInv, AheadEnds \/ AheadFails
  PROVE  OwnerInv'
<1>1. /\ step = "ahead" /\ ~Appending /\ TextStays /\ UNCHANGED <<call, parsed, type>>
      /\ todo' = << >> /\ made' = 0
  BY DEF AheadEnds, AheadFails, Between, GoTo
<1>2. WellFormedCall(call) /\ call.ahead \in Nat /\ call.entry \in EntrySteps
  BY <1>1, MadeCallIs
<1>3. type' \in {"None"} \cup SomeTypes
  BY <1>1 DEF OwnerInv
<1>4. CASE AheadEnds
  <2>1. step' = call.entry /\ Made
    BY <1>4 DEF AheadEnds, GoTo
  <2>2. ASSUME call.op # "Format" PROVE call.ahead <= SizeOf("m_stringBuffer")
    <3>1. todo = Ahead(call) /\ Len(todo) = 2
      BY <1>1, <1>2, <2>2, AheadIs DEF OwnerInv, ScratchInv
    <3>2. Live /\ Ended = 2
      BY <1>1, <2>1, <3>1 DEF Live, Failed, Made, Ended
    <3>3. SizeOf("m_stringBuffer") = call.ahead
      BY <1>1, <2>2, <3>2 DEF OwnerInv, ScratchInv
    <3> QED BY <1>2, <3>3
  <2>3. IsNext /\ IsPast
    BY <1>2, <2>1, <2>2 DEF IsNext, IsPast, EntrySteps
  <2> QED BY <1>1, <1>3, <2>3, NoTodo, NextStepKeepsOwner
<1>5. CASE AheadFails
  <2>1. step' = "returned" /\ IsNext
    BY <1>5 DEF AheadFails, IsNext
  <2> QED BY <1>1, <1>3, <2>1, NoTodo, NextStepKeepsOwner
<1> QED BY <1>4, <1>5

\* The value, or what it is shown as, is looked up.
LEMMA LookingKeepsOwner ==
  ASSUME QuietInv, CallInv, OwnerInv,
         \/ MapFound \/ MapNotFound \/ MapTooSmall \/ MapGrows \/ MapNotUsed \/ OtherMap
         \/ ResultCode \/ CodeNotFound \/ CodeJumpsBack \/ PrintfIgnored \/ PrintfText \/ PrintfNoString
         \/ BitMap
  PROVE  OwnerInv'
<1>1. /\ step \in EntrySteps \cup {"mapTooSmall", "code", "fallBack", "asString"} /\ ~Appending /\ TextStays
      /\ UNCHANGED <<call, parsed, type, todo, made>>
  BY DEF EntrySteps, Between, GoTo, MapFound, MapNotFound, MapTooSmall, MapGrows, MapNotUsed, OtherMap,
         ResultCode, CodeNotFound, CodeJumpsBack, PrintfIgnored, PrintfText, PrintfNoString, BitMap
<1>2. todo' = << >> /\ made' = 0
  BY <1>1 DEF QuietInv, Quiet
<1>3. IsNext
  BY DEF IsNext, EntrySteps, Between, GoTo, NameStep, MapFound, MapNotFound, MapTooSmall, MapGrows,
         MapNotUsed, OtherMap, ResultCode, CodeNotFound, CodeJumpsBack, PrintfIgnored, PrintfText,
         PrintfNoString, BitMap, OwnerInv, IsUnderWay
<1>4. IsPast
  BY <1>1, PastAhead DEF EntrySteps
<1>5. type' \in {"None"} \cup SomeTypes
  BY <1>1 DEF OwnerInv
<1> QED BY <1>1, <1>2, <1>3, <1>4, <1>5, NoTodo, NextStepKeepsOwner

\* It is not shown.
LEMMA FailureKeepsOwner ==
  ASSUME OwnerInv, CallInv,
         \/ MapFails \/ MapWrongSize \/ MapOutOfMemory \/ WrongSize \/ AppendFails \/ PrintfFails
  PROVE  OwnerInv'
<1>1. /\ step \notin {"idle", "cleared", "ahead", "returned"} /\ ~Appending /\ TextStays
      /\ UNCHANGED <<call, parsed>> /\ todo' = << >> /\ made' = 0
      /\ step' \in {AfterValue, "returned"} /\ type' \in {type, "None"}
  BY DEF MapFails, MapWrongSize, MapOutOfMemory, WrongSize, AppendFails, PrintfFails, Between, Return
<1>2. type' \in {"None"} \cup SomeTypes
  BY <1>1 DEF OwnerInv
<1>3. IsNext /\ IsPast
  BY <1>1, PastAhead DEF IsNext, AfterValue
<1> QED BY <1>1, <1>2, <1>3, NoTodo, NextStepKeepsOwner

\* The value is shown, or what was looked up for it.
LEMMA ShownKeepsOwner ==
  ASSUME CallInv, OwnerInv,
         ValueMap \/ PlainValue \/ CodeShown \/ CodeFallsBack \/ BitMapEnds
  PROVE  OwnerInv'
<1>1. /\ step \in {"mapInfo", "value", "code", "fallBack", "bitmap"} /\ ~Appending /\ TextStays
      /\ UNCHANGED <<call, parsed>>
  BY DEF ValueMap, PlainValue, CodeShown, CodeFallsBack, BitMapEnds, Between
<1>2. WellFormedCall(call) /\ WellFormedValue(call.value) /\ timeZoneBiasMinutes \in Int
  BY <1>1, MadeCallIs
<1>3. IsUnderWay
  BY DEF OwnerInv
<1>4. ASSUME NEW t \in SomeTypes, NEW appends, AppendsFor(appends, t), Shows(t, appends)
      PROVE  OwnerInv'
  BY <1>1, <1>4, ShowingKeepsOwner
<1>5. "JsonString" \in SomeTypes /\ "JsonLiteral" \in SomeTypes
  BY DEF SomeTypes
<1>6. CASE ValueMap
  <2> DEFINE chars == ValueMapText(call.map, MapInHex(call.value), Number32)
  <2>1. IsMap(call.map) /\ Number32 \in Int
    BY <1>2, <1>6, MapIs DEF ValueMap
  <2>2. chars \in Seq(Characters)
    BY <2>1, ValueMapTextIs
  <2>3. AppendsFor(<<Printf(chars)>>, "JsonString")
    BY <2>2, TextFor
  <2> QED BY <1>4, <1>5, <1>6, <2>3 DEF ValueMap
<1>7. CASE PlainValue
  <2>1. AppendsFor(ValueAppends(call.value, timestampFormat.flags, timeZoneBiasMinutes), TypeOf(call.value))
    BY <1>2, <1>7, ValueAppendsFor DEF PlainValue
  <2>2. TypeOf(call.value) \in SomeTypes
    BY TypesOfValues DEF SomeTypes
  <2> QED BY <1>4, <1>7, <2>1, <2>2 DEF PlainValue
<1>8. CASE CodeShown
  <2>1. DomainOf(call.value) \in {"HR", "NT", "WIN"} /\ Number32 \in Int
    BY <1>2, <1>3, <1>8, CodeIs DEF CodeShown, Between, IsUnderWay
  <2>2. PICK isKnown \in BOOLEAN :
          Shows("JsonString", <<Printf(ResultCodeText(DomainOf(call.value), CodeInHex(call.value), Number32, isKnown))>>)
    BY <1>8 DEF CodeShown
  <2> DEFINE chars == ResultCodeText(DomainOf(call.value), CodeInHex(call.value), Number32, isKnown)
  <2>3. chars \in Seq(Characters)
    BY <2>1, ResultCodeTextIs
  <2>4. AppendsFor(<<Printf(chars)>>, "JsonString")
    BY <2>3, TextFor
  <2> QED BY <1>4, <1>5, <2>2, <2>4
<1>9. CASE CodeFallsBack
  <2>1. IsResultCode(call.value) /\ call.value.inType # "HEXINT32"
    BY <1>3, <1>9 DEF CodeFallsBack, Between, IsUnderWay
  <2>2. AppendsFor(NumberAppends(call.value), "JsonLiteral")
    BY <1>2, <2>1, FallenBackFor
  <2> QED BY <1>4, <1>5, <1>9, <2>2 DEF CodeFallsBack
<1>10. CASE BitMapEnds
  <2> DEFINE end == BitMapEnd(MapInHex(call.value), Number32, bitmap.matched, bitmap.found /\ ~Failed)
             appends == <<IF end = <<Mark("]")>> THEN Write(end) ELSE Printf(end)>>
  <2>1. step = "bitmap" /\ Shows("JsonString", appends)
    BY <1>10 DEF BitMapEnds, Between
  <2>2. Number32 \in Int
    BY <1>2, <1>3, <2>1, MapIs DEF IsUnderWay
  <2>3. end \in Seq(Characters)
    BY <2>2, BitMapEndIs
  <2>4. AppendsFor(appends, "JsonString")
    <3> HIDE DEF end
    <3> QED BY <2>3, TextFor
  <2> HIDE DEF appends
  <2> QED BY <1>4, <1>5, <2>1, <2>4
<1> QED BY <1>6, <1>7, <1>8, <1>9, <1>10

\* An entry of a bit map.
LEMMA BitMapEntryKeepsOwner ==
  ASSUME QuietInv, CallInv, OwnerInv, BitMapEntry
  PROVE  OwnerInv'
<1> DEFINE i == bitmap.next
           entry == call.map.entries[i]
           chars == BitText(entry, MapInHex(call.value), Number32, ~bitmap.found)
<1>1. /\ step = "bitmap" /\ step' = "bitmap" /\ ~Appending /\ TextStays /\ UNCHANGED <<call, parsed, type>>
      /\ i <= Len(call.map.entries)
      /\ Do(<<Printf(chars)>>) \/ (todo' = << >> /\ made' = 0)
  BY DEF BitMapEntry, Between
<1>2. HasMap /\ WellFormedCall(call) /\ Target \in Buffers
  BY <1>1, MadeCallIs DEF OwnerInv, IsUnderWay
<1>3. IsMap(call.map) /\ Number32 \in Int /\ i \in DOMAIN call.map.entries
  <2>1. IsMap(call.map) /\ Number32 \in Int
    BY <1>2, MapIs
  <2>2. i \in Nat \ {0} /\ DOMAIN call.map.entries = 1 .. Len(call.map.entries) /\ Len(call.map.entries) \in Nat
    BY <2>1, LenProperties DEF IsMap, QuietInv
  <2> QED BY <1>1, <2>1, <2>2
<1>4. chars \in Seq(Characters)
  BY <1>3, BitTextIs
<1> HIDE DEF chars
<1>5. <<Printf(chars)>> \in Seq(Appends)
  BY <1>4, TextFor DEF AppendsFor
<1>6. todo' \in Seq(Waiting) /\ made' = 0
  <2>1. CASE todo' = << >> /\ made' = 0
    BY <2>1, NoTodo
  <2>2. CASE Do(<<Printf(chars)>>)
    <3>1. todo' = At(Target, <<Printf(chars)>>) /\ made' = 0
      BY <2>2 DEF Do
    <3> QED BY <1>2, <1>5, <3>1, AppendsAreWaiting
  <2> QED BY <1>1, <2>1, <2>2
<1>7. IsNext /\ IsPast /\ type' \in {"None"} \cup SomeTypes
  BY <1>1, <1>2, PastAhead DEF IsNext, OwnerInv
<1> QED BY <1>1, <1>6, <1>7, NextStepKeepsOwner

-----------------------------------------------------------------------------
\* What is in the scratch buffer after what was ahead.
LEMMA ScratchTextIs ==
  ASSUME OwnerInv, CallInv, ~Appending, step \notin {"idle", "cleared", "ahead", "returned"},
         call.op # "Format"
  PROVE  /\ ScratchText \in Seq(Characters)
         /\ call.ahead \in Nat /\ call.ahead <= Len(text["m_stringBuffer"])
         /\ text["m_stringBuffer"] \in Seq(Characters)
<1> DEFINE s == text["m_stringBuffer"]
<1>1. s \in Seq(Characters) /\ call.ahead <= Len(s)
  <2>1. Settled("m_stringBuffer") = s
    BY SettledBetween
  <2>2. Settled("m_stringBuffer") \in Seq(Characters)
    BY DEF OwnerInv, AppendsInv
  <2>3. call.ahead <= SizeOf("m_stringBuffer")
    BY PastAhead DEF IsPast
  <2> QED BY <2>1, <2>2, <2>3 DEF SizeOf
<1>2. call.ahead \in Nat
  BY MadeCallIs
<1>3. ScratchText = SubSeq(s, call.ahead + 1, Len(s))
  BY DEF ScratchText
<1> HIDE DEF s
<1>4. SubSeq(s, call.ahead + 1, Len(s)) \in Seq(Characters)
  BY <1>1, <1>2, RestIs
<1> QED BY <1>1, <1>2, <1>3, <1>4 DEF s

\* It is added to JSON.
LEMMA JsonAppendsKeepsOwner ==
  ASSUME CallInv, OwnerInv, JsonAppends
  PROVE  OwnerInv'
<1> DEFINE s == ScratchText
           a == JsonAppend
           w == [to |-> "m_stringBuffer2", append |-> a]
           q == <<QuoteMark>> \o s \o <<QuoteMark>>
<1>1. /\ step = "asJson" /\ ~Appending /\ type # "None" /\ todo' = At("m_stringBuffer2", <<a>>) /\ made' = 0
      /\ step' = "inJson" /\ TextStays /\ UNCHANGED <<call, parsed, type>>
  BY DEF JsonAppends, Between
<1>2. type \in SomeTypes /\ call.op = "AddAsJson"
  BY <1>1 DEF OwnerInv, IsUnderWay
<1>3. s \in Seq(Characters)
  BY <1>1, <1>2, ScratchTextIs
<1>4. \/ a = Write(q) \/ a = Write(s) \/ a = [fn |-> "json", chars |-> s, count |-> 0]
  BY <1>2 DEF JsonAppend, SomeTypes
<1> HIDE DEF s, a
<1>5. q \in Seq(Characters)
  BY <1>3, QuotedParts, QuoteIsCharacter
<1> HIDE DEF q
<1>6. a \in AnyAppend
  BY <1>3, <1>4, <1>5 DEF Write, AnyAppend, Functions
<1>7. w \in Waiting
  BY <1>6, ValueAssumption DEF Waiting
<1>8. todo' = <<w>>
  BY <1>1 DEF At
<1> HIDE DEF w
<1>9. todo' \in Seq(Waiting)
  BY <1>7, <1>8
<1>10. IsNext /\ IsPast /\ type' \in {"None"} \cup SomeTypes
  BY <1>1, <1>2, PastAhead DEF IsNext
<1> QED BY <1>1, <1>9, <1>10, NextStepKeepsOwner

\* The value is printed with its format.
LEMMA PrintfKeepsOwner ==
  ASSUME CallInv, OwnerInv, PrintfNumber \/ PrintfString
  PROVE  OwnerInv'
<1>1. /\ step \in {"printf", "asString"} /\ ~Appending /\ TextStays /\ made' = 0
      /\ step' = "printed" /\ UNCHANGED <<call, parsed>> /\ type' \in {type, "JsonString"}
  BY DEF PrintfNumber, PrintfString, Between
<1>2. IsFormatted
  BY <1>1 DEF PrintfNumber, PrintfString, Between, OwnerInv, IsUnderWay
<1>3. /\ WellFormedValue(call.value) /\ call.op = "Printf" /\ call.format \in Seq(STRING)
      /\ parsed = ParsedPrintf(call.format)
  BY <1>1, <1>2, MadeCallIs
<1>4. IsNext /\ IsPast /\ type' \in {"None"} \cup SomeTypes
  BY <1>1, <1>2, PastAhead DEF IsNext, OwnerInv, SomeTypes
<1> DEFINE s2 == "m_stringBuffer2"
           sb == "m_stringBuffer"
<1>5. \A chars \in Seq(Characters), b \in {sb, s2} :
        At(b, <<Printf(chars)>>) \in Seq(Waiting) /\ At(b, <<Write(chars)>>) \in Seq(Waiting)
  <2> SUFFICES ASSUME NEW chars \in Seq(Characters), NEW b \in {sb, s2}
               PROVE  At(b, <<Printf(chars)>>) \in Seq(Waiting) /\ At(b, <<Write(chars)>>) \in Seq(Waiting)
    OBVIOUS
  <2>1. <<Printf(chars)>> \in Seq(Appends) /\ <<Write(chars)>> \in Seq(Appends)
    BY TextFor DEF AppendsFor
  <2>2. b \in Buffers
    BY ValueAssumption
  <2> QED BY <2>1, <2>2, AppendsAreWaiting
<1>6. CASE PrintfNumber
  <2>1. MatchesType(parsed.category, call.value) /\ todo' = At(s2, <<Printf(Printed(parsed, call.value))>>)
    BY <1>6 DEF PrintfNumber
  <2>2. \E before, point : IsCopy(parsed, before, point)
    BY <1>3, ParsedIs
  <2>3. Printed(parsed, call.value) \in Seq(Characters)
    BY <1>3, <2>1, <2>2, PrintedIs
  <2>4. todo' \in Seq(Waiting)
    BY <1>5, <2>1, <2>3
  <2> QED BY <1>1, <1>4, <2>4, NextStepKeepsOwner
<1>7. CASE PrintfString
  <2> DEFINE chars == PrintedString(MakeStringFormat(parsed), ScratchText)
             nul == <<Nul>>
             a == At(sb, <<Write(nul)>>)
             b == At(s2, <<Printf(chars)>>)
  <2>1. todo' = a \o b
    BY <1>7 DEF PrintfString
  <2>2. ScratchText \in Seq(Characters)
    BY <1>1, <1>3, ScratchTextIs
  <2>3. chars \in Seq(Characters)
    BY <1>3, <2>2, StringPrintedIs
  <2>4. nul \in Seq(Characters)
    <3>1. Nul \in Characters
      BY ChIsCharacter DEF Nul
    <3> QED BY <3>1
  <2> HIDE DEF chars, nul
  <2>5. a \in Seq(Waiting) /\ b \in Seq(Waiting)
    BY <1>5, <2>3, <2>4
  <2> HIDE DEF a, b
  <2>6. a \o b \in Seq(Waiting)
    BY <2>5, ConcatProperties
  <2>7. todo' \in Seq(Waiting)
    BY <2>1, <2>6
  <2> QED BY <1>1, <1>4, <2>7, NextStepKeepsOwner
<1> QED BY <1>6, <1>7

-----------------------------------------------------------------------------
\* The buffers are changed between two appends.
IsChanged ==
    /\ text' \in [Buffers -> Seq(Stored)]
    /\ \A b \in Buffers : Len(text'[b]) <= Len(text[b])
    /\ text'["m_stringBuffer"] \in Seq(Characters)

LEMMA ChangingKeepsAppends ==
  ASSUME AppendsInv, ~Appending, IsChanged, UNCHANGED <<capacity, append>>, todo' = << >>, made' = 0
  PROVE  AppendsInv' /\ \A b \in Buffers : SizeOf(b)' = Len(text'[b]) /\ SizeOf(b) = Len(text[b])
<1>1. ~Appending'
  BY DEF Appending
<1>2. \A b \in Buffers : Settled(b)' = text'[b] /\ Settled(b) = text[b]
  BY <1>1 DEF Settled
<1>3. TextInBuffer'
  <2>1. capacity \in [Buffers -> Nat] /\ text \in [Buffers -> Seq(Stored)] /\ TextInBuffer
    BY DEF AppendsInv, TextInv, TextType
  <2>2. \A b \in Buffers : Len(text[b]) \in Nat /\ Len(text'[b]) \in Nat
    BY <2>1, LenProperties DEF IsChanged
  <2> QED BY <2>1, <2>2 DEF TextInBuffer, IsChanged
<1>4. TextInv' /\ JsonInv'
  BY <1>1, <1>3 DEF AppendsInv, TextInv, TextType, JsonInv, IsChanged
<1>5. todo' \in Seq(Waiting) /\ made' \in 0 .. Len(todo')
  BY NoTodo
<1>6. Settled("m_stringBuffer")' \in Seq(Characters)
  BY <1>2, ValueAssumption DEF IsChanged
<1>7. AppendsInv'
  BY <1>1, <1>4, <1>5, <1>6 DEF AppendsInv
<1> QED BY <1>2, <1>7 DEF SizeOf

\* The scratch buffer is cut.
IsCut(n) == n <= Len(text["m_stringBuffer"])
            /\ text' = [text EXCEPT !["m_stringBuffer"] = SubSeq(text["m_stringBuffer"], 1, n)]

LEMMA CuttingChanges ==
  ASSUME AppendsInv, ~Appending, NEW n \in Nat, IsCut(n)
  PROVE  IsChanged
<1> DEFINE s == text["m_stringBuffer"]
           r == SubSeq(s, 1, n)
<1>1. s \in Seq(Characters) /\ text \in [Buffers -> Seq(Stored)]
  BY DEF AppendsInv, Settled, TextInv, TextType
<1>2. text' = [text EXCEPT !["m_stringBuffer"] = r] /\ n <= Len(s)
  BY DEF IsCut
<1>3. r \in Seq(Characters) /\ Len(r) = n
  <2> HIDE DEF s
  <2>1. \A k \in 1 .. n : s[k] \in Characters
    <3>1. Len(s) \in Nat /\ \A k \in 1 .. Len(s) : s[k] \in Characters
      BY <1>1, LenProperties, ElementOfSeq
    <3> QED BY <1>2, <3>1
  <2>2. r \in Seq(Characters) /\ Len(r) = IF 1 <= n THEN n - 1 + 1 ELSE 0
    BY <2>1, SubSeqProperties
  <2> HIDE DEF r
  <2> QED BY <2>2
<1> HIDE DEF r
<1>4. r \in Seq(Stored)
  <2>1. Characters \subseteq Stored
    BY DEF Stored
  <2> QED BY <1>3, <2>1, SeqMonotonic
<1>5. \A b \in Buffers : text'[b] = IF b = "m_stringBuffer" THEN r ELSE text[b]
  BY <1>1, <1>2
<1>6. text' \in [Buffers -> Seq(Stored)]
  BY <1>1, <1>2, <1>4
<1>7. \A b \in Buffers : Len(text'[b]) <= Len(text[b])
  <2>1. \A b \in Buffers : Len(text[b]) \in Nat
    BY <1>1, LenProperties
  <2> QED BY <1>2, <1>3, <1>5, <2>1
<1> QED BY <1>3, <1>5, <1>6, <1>7, ValueAssumption DEF IsChanged

\* After JSON and after a text that was printed, to what was ahead.
LEMMA EndingCuts ==
  ASSUME CallInv, OwnerInv, JsonEnd \/ PrintfEnds
  PROVE  /\ ~Appending /\ call.ahead \in Nat /\ IsCut(call.ahead) /\ UNCHANGED <<call, parsed, capacity, append, status>>
         /\ step' = "returned" /\ todo' = << >> /\ made' = 0 /\ type' \in {type, "None"}
<1>1. /\ ~Appending /\ UNCHANGED <<call, parsed, capacity, append, status>> /\ step' = "returned" /\ todo' = << >> /\ made' = 0
      /\ text' = [text EXCEPT !["m_stringBuffer"] = SubSeq(text["m_stringBuffer"], 1, call.ahead)]
      /\ type' \in {type, "None"} /\ step \in {"asJson", "inJson", "printed"}
  BY DEF JsonEnd, PrintfEnds, Between
<1>2. call.op # "Format"
  BY <1>1, MadeCallIs DEF OwnerInv, IsUnderWay
<1>3. call.ahead \in Nat /\ call.ahead <= Len(text["m_stringBuffer"])
  BY <1>1, <1>2, ScratchTextIs
<1> QED BY <1>1, <1>3 DEF IsCut

\* The NULs of a text are replaced.
IsReplaced ==
    \E s \in Seq(Stored) : Len(s) = Len(text[Target]) /\ text' = [text EXCEPT ![Target] = s]

LEMMA ReplacingChanges ==
  ASSUME CallInv, OwnerInv, Appended
  PROVE  IsReplaced /\ IsChanged
<1> DEFINE s == text[Target]
           r == NulsReplaced(s)
           n == Len(s)
           c(k) == IF k > call.ahead /\ s[k] = Nul THEN Space ELSE s[k]
<1>1. /\ step = "appending" /\ ~Appending /\ text' = [text EXCEPT ![Target] = r]
  BY DEF Appended, Between
<1>2. Target \in Buffers
  BY <1>1, MadeCallIs
<1>3. text \in [Buffers -> Seq(Stored)] /\ text["m_stringBuffer"] \in Seq(Characters)
  BY <1>1 DEF OwnerInv, AppendsInv, Settled, TextInv, TextType
<1>4. s \in Seq(Stored) /\ n \in Nat
  BY <1>2, <1>3, LenProperties
<1>5. r = s \/ r = [k \in 1 .. n |-> c(k)]
  BY DEF NulsReplaced
<1>6. Space \in Characters /\ Space \in Stored
  BY ChIsCharacter DEF Space, Stored
<1>7. \A V : s \in Seq(V) /\ Space \in V => r \in Seq(V) /\ Len(r) = n
  <2> SUFFICES ASSUME NEW V, s \in Seq(V), Space \in V PROVE r \in Seq(V) /\ Len(r) = n
    OBVIOUS
  <2>1. \A k \in 1 .. n : s[k] \in V
    BY ElementOfSeq
  <2>2. \A k \in 1 .. n : c(k) \in V
    BY <2>1
  <2> HIDE DEF c, r
  <2>3. CASE r = [k \in 1 .. n |-> c(k)]
    <3> HIDE DEF s, n
    <3> QED BY <1>4, <2>2, <2>3
  <2> QED BY <1>5, <2>3
<1> HIDE DEF r, c
<1>8. r \in Seq(Stored) /\ Len(r) = n
  BY <1>4, <1>6, <1>7
<1>9. \A b \in Buffers : text'[b] = IF b = Target THEN r ELSE text[b]
  BY <1>1, <1>3
<1>10. IsReplaced
  BY <1>1, <1>8 DEF IsReplaced
<1>11. text' \in [Buffers -> Seq(Stored)]
  BY <1>1, <1>3, <1>8
<1>12. \A b \in Buffers : Len(text'[b]) <= Len(text[b])
  <2>1. \A b \in Buffers : Len(text[b]) \in Nat
    BY <1>3, LenProperties
  <2> QED BY <1>8, <1>9, <2>1
<1>13. text'["m_stringBuffer"] \in Seq(Characters)
  <2>1. CASE Target = "m_stringBuffer"
    <3>1. s \in Seq(Characters)
      BY <1>3, <2>1
    <3>2. r \in Seq(Characters)
      BY <1>6, <1>7, <3>1
    <3> QED BY <1>9, <2>1, <3>2, ValueAssumption
  <2>2. CASE Target # "m_stringBuffer"
    BY <1>3, <1>9, <2>2, ValueAssumption
  <2> QED BY <2>1, <2>2
<1> QED BY <1>10, <1>11, <1>12, <1>13 DEF IsChanged

-----------------------------------------------------------------------------
LEMMA ChangingKeepsOwner ==
  ASSUME CallInv, OwnerInv, Appended \/ JsonEnd \/ PrintfEnds
  PROVE  OwnerInv'
<1>1. AppendsInv
  BY DEF OwnerInv
<1>2. CASE JsonEnd \/ PrintfEnds
  <2>1. /\ ~Appending /\ call.ahead \in Nat /\ IsCut(call.ahead) /\ UNCHANGED <<call, capacity, append>>
        /\ step' = "returned" /\ todo' = << >> /\ made' = 0 /\ type' \in {type, "None"}
    BY <1>2, EndingCuts
  <2>2. IsChanged
    BY <1>1, <2>1, CuttingChanges
  <2>3. AppendsInv'
    BY <1>1, <2>1, <2>2, ChangingKeepsAppends
  <2>4. IsUnderWay' /\ ScratchInv'
    BY <2>1 DEF IsUnderWay, ScratchInv
  <2> QED BY <2>1, <2>3, <2>4 DEF OwnerInv
<1>3. CASE Appended
  <2>1. /\ step = "appending" /\ ~Appending /\ Return("SUCCESS", type) /\ UNCHANGED <<capacity, append>>
    BY <1>3 DEF Appended, Between
  <2>2. /\ UNCHANGED <<call, parsed>> /\ todo' = << >> /\ made' = 0 /\ type' = type /\ step' = AfterValue
    BY <2>1 DEF Return
  <2>3. IsReplaced /\ IsChanged
    BY <1>3, ReplacingChanges
  <2>4. AppendsInv' /\ \A b \in Buffers : SizeOf(b)' = Len(text'[b]) /\ SizeOf(b) = Len(text[b])
    BY <1>1, <2>1, <2>2, <2>3, ChangingKeepsAppends
  <2>5. Len(text'["m_stringBuffer"]) = Len(text["m_stringBuffer"])
    <3>1. text \in [Buffers -> Seq(Stored)]
      BY <1>1 DEF AppendsInv, TextInv, TextType
    <3>2. \A b \in Buffers : Len(text'[b]) = Len(text[b])
      BY <2>3, <3>1 DEF IsReplaced
    <3> QED BY <3>2, ValueAssumption
  <2>6. SizeOf("m_stringBuffer")' = SizeOf("m_stringBuffer")
    BY <2>4, <2>5, ValueAssumption
  <2>7. IsPast
    BY <2>1, PastAhead
  <2>8. step' \in {"asJson", "asString", "returned"}
        /\ (step' = "asJson" => call.op = "AddAsJson") /\ (step' = "asString" => IsFormatted)
    BY <2>2 DEF AfterValue
  <2>9. IsUnderWay'
    BY <2>2, <2>8 DEF IsUnderWay, IsFormatted
  <2>10. call.op # "Format" => ScratchInv'
    BY <2>2, <2>6, <2>7, <2>8 DEF ScratchInv, IsPast
  <2> QED BY <2>2, <2>4, <2>9, <2>10 DEF OwnerInv
<1> QED BY <1>2, <1>3

LEMMA StepKeepsOwner ==
  ASSUME QuietInv, CallInv, OwnerInv, ValueStep
  PROVE  OwnerInv'
<1>1. CASE MakeAppend \/ AppendStep
  BY <1>1, AppendingKeepsOwner
<1>2. CASE AheadEnds \/ AheadFails
  BY <1>2, AheadKeepsOwner
<1>3. CASE \/ MapFound \/ MapNotFound \/ MapTooSmall \/ MapGrows \/ MapNotUsed \/ OtherMap
           \/ ResultCode \/ CodeNotFound \/ CodeJumpsBack \/ PrintfIgnored \/ PrintfText \/ PrintfNoString
           \/ BitMap
  BY <1>3, LookingKeepsOwner
<1>4. CASE \/ MapFails \/ MapWrongSize \/ MapOutOfMemory \/ WrongSize \/ AppendFails \/ PrintfFails
  BY <1>4, FailureKeepsOwner
<1>5. CASE ValueMap \/ PlainValue \/ CodeShown \/ CodeFallsBack \/ BitMapEnds
  BY <1>5, ShownKeepsOwner
<1>6. CASE BitMapEntry
  BY <1>6, BitMapEntryKeepsOwner
<1>7. CASE JsonAppends
  BY <1>7, JsonAppendsKeepsOwner
<1>8. CASE PrintfNumber \/ PrintfString
  BY <1>8, PrintfKeepsOwner
<1>9. CASE Appended \/ JsonEnd \/ PrintfEnds
  BY <1>9, ChangingKeepsOwner
<1> QED BY <1>1, <1>2, <1>3, <1>4, <1>5, <1>6, <1>7, <1>8, <1>9 DEF ValueStep

\* A call begins with empty buffers.
LEMMA BeginKeepsOwner ==
  ASSUME QuietInv, CallInv', OwnerInv, Begin
  PROVE  OwnerInv'
<1>1. /\ step \in {"idle", "cleared"} /\ step' = "ahead" /\ todo' = Ahead(call')
      /\ UNCHANGED <<text, capacity, append, status, made, type>> /\ call' \in Calls(timestampFormat, timeZoneBiasMinutes)
  BY DEF Begin, textVars
<1>2. /\ made = 0 /\ ~Appending /\ text = [b \in Buffers |-> << >>]
  BY <1>1 DEF QuietInv, Quiet
<1>3. call'.ahead \in Nat
  BY <1>1 DEF CallInv, WellFormedCall
<1>4. todo' \in Seq(Waiting)
  <2>1. CASE call'.op # "Format"
    BY <1>1, <1>3, <2>1, AheadIs
  <2>2. CASE call'.op = "Format"
    BY <1>1, <2>2, NoTodo DEF Ahead
  <2> QED BY <2>1, <2>2
<1>5. ~Appending' /\ Settled("m_stringBuffer")' = << >> /\ Settled("m_stringBuffer") = << >>
  BY <1>1, <1>2, ValueAssumption DEF Appending, Settled
<1>6. AppendsInv'
  <2>1. TextInv' /\ JsonInv'
    BY <1>1, <1>5 DEF OwnerInv, AppendsInv, TextInv, TextType, TextInBuffer, JsonInv
  <2>2. Settled("m_stringBuffer")' \in Seq(Characters)
    BY <1>5 DEF OwnerInv, AppendsInv
  <2>3. made' \in 0 .. Len(todo')
    BY <1>1, <1>2, <1>4, LenProperties
  <2> QED BY <1>4, <1>5, <2>1, <2>2, <2>3 DEF AppendsInv
<1>7. ScratchInv'
  <2>1. SizeOf("m_stringBuffer")' = 0 /\ Ended' = 0
    BY <1>1, <1>2, <1>5 DEF SizeOf, Ended
  <2> QED BY <1>1, <2>1 DEF ScratchInv
<1> QED BY <1>1, <1>6, <1>7 DEF OwnerInv, IsUnderWay

\* The buffers are cleared.
LEMMA ClearKeepsOwner ==
  ASSUME QuietInv, OwnerInv, Clear
  PROVE  OwnerInv' /\ ~Appending
<1>1. /\ step = "returned" /\ step' = "cleared" /\ text' = [b \in Buffers |-> << >>] /\ type' = "None"
      /\ UNCHANGED <<capacity, append, todo, made>>
  BY DEF Clear
<1>2. ~Appending /\ todo' = << >> /\ made' = 0
  BY <1>1 DEF QuietInv, Quiet
<1>3. AppendsInv /\ text \in [Buffers -> Seq(Stored)]
  BY DEF OwnerInv, AppendsInv, TextInv, TextType
<1>4. IsChanged
  <2> DEFINE none == << >>
  <2>1. none \in Seq(Stored) /\ none \in Seq(Characters) /\ Len(none) = 0
    OBVIOUS
  <2> HIDE DEF none
  <2>2. \A b \in Buffers : text'[b] = none
    BY <1>1 DEF none
  <2>3. text' \in [Buffers -> Seq(Stored)]
    BY <1>1, <2>1 DEF none
  <2>4. \A b \in Buffers : Len(text[b]) >= 0
    BY <1>3, LenProperties
  <2> QED BY <2>1, <2>2, <2>3, <2>4, ValueAssumption DEF IsChanged
<1>5. AppendsInv'
  BY <1>1, <1>2, <1>3, <1>4, ChangingKeepsAppends
<1>6. IsUnderWay' /\ ScratchInv'
  BY <1>1 DEF IsUnderWay, ScratchInv
<1> QED BY <1>1, <1>2, <1>5, <1>6 DEF OwnerInv

LEMMA OwnerInvIsKept ==
  ASSUME QuietInv, CallInv, CallInv', OwnerInv, [Next]_vars
  PROVE  OwnerInv'
<1>1. CASE Clear
  BY <1>1, ClearKeepsOwner
<1>2. CASE Begin
  BY <1>2, BeginKeepsOwner
<1>3. CASE ValueStep
  BY <1>3, StepKeepsOwner
<1>4. CASE Set \/ UNCHANGED vars
  <2>1. UNCHANGED <<text, capacity, append, status, call, parsed, todo, made, step, type>>
    BY <1>4 DEF Set, vars, textVars, valueVars, callVars
  <2>2. AppendsInv'
    <3>1. TextInv'
      BY <2>1, TextInvIsKept DEF textVars, OwnerInv, AppendsInv
    <3>2. JsonInv => JsonInv'
      BY <2>1 DEF JsonInv, EscapesWritten, Appending
    <3>3. UNCHANGED <<Appending, Settled("m_stringBuffer")>>
      BY <2>1 DEF Appending, Settled
    <3> QED BY <2>1, <3>1, <3>2, <3>3 DEF OwnerInv, AppendsInv
  <2>3. IsUnderWay => IsUnderWay'
    BY <2>1 DEF IsUnderWay, HasMap, IsFormatted
  <2>4. ScratchInv => ScratchInv'
    BY <2>1 DEF ScratchInv, SizeOf, Settled, Live, Ended, Appending, Failed
  <2> QED BY <2>1, <2>2, <2>3, <2>4 DEF OwnerInv
<1> QED BY <1>1, <1>2, <1>3, <1>4 DEF Next

LEMMA InitOwner == Init => OwnerInv
<1> SUFFICES ASSUME Init PROVE OwnerInv
  OBVIOUS
<1>1. /\ text = [b \in Buffers |-> << >>] /\ ~Appending /\ todo = << >> /\ made = 0 /\ step = "idle"
      /\ type = "None"
  BY DEF Init, InitText, Appending
<1>2. TextInv /\ JsonInv
  BY <1>1, InitTextInv DEF Init, JsonInv
<1>3. Settled("m_stringBuffer") \in Seq(Characters)
  <2>1. Settled("m_stringBuffer") = << >>
    BY <1>1, ValueAssumption DEF Settled
  <2>2. << >> \in Seq(Characters)
    OBVIOUS
  <2> QED BY <2>1, <2>2, Zenon
<1>4. AppendsInv
  BY <1>1, <1>2, <1>3, NoTodo DEF AppendsInv
<1> QED BY <1>1, <1>4 DEF OwnerInv, IsUnderWay, ScratchInv

-----------------------------------------------------------------------------
(* Each step of a call is a step of TextSpec, or leaves the buffers alone. *)

\* To drop characters from the end of the scratch buffer is to truncate.
LEMMA CutIsTruncate ==
  ASSUME AppendsInv, NEW n \in Nat, IsCut(n), UNCHANGED <<capacity, append, status>>
  PROVE  Truncate
<1> DEFINE m == [b \in Buffers |-> IF b = "m_stringBuffer" THEN n ELSE Len(text[b])]
<1>1. text \in [Buffers -> Seq(Stored)]
  BY DEF AppendsInv, TextInv, TextType
<1>2. \A b \in Buffers : Len(text[b]) \in Nat /\ SubSeq(text[b], 1, Len(text[b])) = text[b]
  <2> SUFFICES ASSUME NEW b \in Buffers
               PROVE  Len(text[b]) \in Nat /\ SubSeq(text[b], 1, Len(text[b])) = text[b]
    OBVIOUS
  <2> DEFINE s == text[b]
             r == SubSeq(s, 1, Len(s))
  <2>1. s \in Seq(Stored)
    BY <1>1
  <2> HIDE DEF s
  <2>2. Len(s) \in Nat /\ \A k \in 1 .. Len(s) : s[k] \in Stored
    BY <2>1, LenProperties, ElementOfSeq
  <2>3. r \in Seq(Stored) /\ Len(r) = (IF 1 <= Len(s) THEN Len(s) - 1 + 1 ELSE 0)
        /\ \A k \in 1 .. Len(s) - 1 + 1 : r[k] = s[1 + k - 1]
    BY <2>2, SubSeqProperties
  <2> HIDE DEF r
  <2>4. Len(r) = Len(s) /\ \A k \in 1 .. Len(r) : r[k] = s[k]
    BY <2>2, <2>3
  <2>5. r = s
    BY <2>1, <2>3, <2>4, SeqEqual
  <2> QED BY <2>2, <2>5 DEF r, s
<1>3. n <= Len(text["m_stringBuffer"])
      /\ text' = [text EXCEPT !["m_stringBuffer"] = SubSeq(text["m_stringBuffer"], 1, n)]
  BY DEF IsCut
<1>4. m \in [Buffers -> Nat]
  BY <1>2
<1>5. \A b \in Buffers : m[b] <= Len(text[b])
  BY <1>2, <1>3
<1>6. \A b \in Buffers : text'[b] = SubSeq(text[b], 1, m[b])
  BY <1>1, <1>2, <1>3
<1>7. text' = [b \in Buffers |-> SubSeq(text[b], 1, m[b])]
  <2>1. text' = [b \in Buffers |-> text'[b]]
    BY <1>1, <1>3
  <2> HIDE DEF m
  <2> QED BY <1>6, <2>1
<1> HIDE DEF m
<1> QED BY <1>4, <1>5, <1>7 DEF Truncate

\* So is to clear the buffers.
LEMMA ClearIsTruncate ==
  ASSUME AppendsInv, Clear
  PROVE  Truncate
<1> DEFINE m == [b \in Buffers |-> 0]
<1>1. text \in [Buffers -> Seq(Stored)]
  BY DEF AppendsInv, TextInv, TextType
<1>2. \A b \in Buffers : Len(text[b]) \in Nat
  BY <1>1, LenProperties
<1>3. m \in [Buffers -> Nat] /\ \A b \in Buffers : m[b] <= Len(text[b]) /\ m[b] = 0
  BY <1>2
<1>4. \A b \in Buffers : SubSeq(text[b], 1, m[b]) = << >>
  <2> SUFFICES ASSUME NEW b \in Buffers PROVE SubSeq(text[b], 1, m[b]) = << >>
    OBVIOUS
  <2>1. m[b] = 0
    BY <1>3
  <2>2. SubSeq(text[b], 1, 0) = << >>
    BY SubSeqEmpty
  <2> QED BY <2>1, <2>2
<1> HIDE DEF m
<1>5. text' = [b \in Buffers |-> SubSeq(text[b], 1, m[b])]
  BY <1>4 DEF Clear
<1>6. status' = "SUCCESS" /\ UNCHANGED <<capacity, append>>
  BY DEF Clear
<1> QED BY <1>3, <1>5, <1>6 DEF Truncate

\* An append begins with one that waits.
LEMMA MakeAppendIsAny ==
  ASSUME AppendsInv, MakeAppend
  PROVE  ~Appending /\ BeginAnyAppend
<1> DEFINE w == todo[made + 1]
           a == w.append
<1>1. ~Appending /\ UNCHANGED <<text, capacity, status>> /\ BeginAppend(a.fn, w.to, a.chars, a.count)
  BY DEF MakeAppend
<1>2. w \in Waiting
  <2> DEFINE m == made + 1
  <2>1. made \in Nat /\ m \in 1 .. Len(todo) /\ todo \in Seq(Waiting)
    BY LenProperties DEF MakeAppend, AppendsInv
  <2> HIDE DEF m
  <2>2. todo[m] \in Waiting
    BY <2>1, ElementOfSeq
  <2> QED BY <2>2 DEF m
<1>3. /\ a.fn \in Functions /\ w.to \in Buffers /\ a.chars \in Seq(Characters) /\ a.count \in Nat
      /\ a.fn = "reserved" => Len(a.chars) <= a.count
  BY <1>2 DEF Waiting, AnyAppend
<1> HIDE DEF a, w
<1> QED BY <1>1, <1>3 DEF BeginAnyAppend

LEMMA AppendedIsReplace ==
  ASSUME CallInv, OwnerInv, Appended
  PROVE  ~Appending /\ Replace
<1>1. IsReplaced
  BY ReplacingChanges
<1>2. ~Appending /\ UNCHANGED <<capacity, append, status>> /\ step = "appending"
  BY DEF Appended, Between
<1>3. Target \in Buffers
  BY <1>2, MadeCallIs
<1> QED BY <1>1, <1>2, <1>3 DEF IsReplaced, Replace, Stored

\* The other steps leave the buffers alone.
LEMMA OtherStepsStay ==
  ASSUME ValueStep, ~MakeAppend, ~AppendStep, ~Appended, ~JsonEnd, ~PrintfEnds
  PROVE  UNCHANGED textVars
BY DEF ValueStep, TextStays, AheadEnds, AheadFails, MapFound, MapNotFound, MapFails,
       MapTooSmall, MapWrongSize, MapGrows, MapOutOfMemory, MapNotUsed, ValueMap, BitMap, OtherMap,
       BitMapEntry, BitMapEnds, WrongSize, PlainValue, ResultCode, CodeShown, CodeNotFound,
       CodeFallsBack, CodeJumpsBack, AppendFails, JsonAppends, PrintfIgnored,
       PrintfNumber, PrintfText, PrintfString, PrintfNoString, PrintfFails

LEMMA OwnerStepIsTextStep ==
  ASSUME QuietInv, CallInv, OwnerInv, [Next]_vars
  PROVE  [TextStep]_textVars
<1>1. AppendsInv
  BY DEF OwnerInv
<1>2. CASE Clear
  BY <1>1, <1>2, ClearIsTruncate, ClearKeepsOwner DEF TextStep
<1>3. CASE ValueStep
  <2>1. CASE MakeAppend
    BY <1>1, <2>1, MakeAppendIsAny DEF TextStep
  <2>2. CASE AppendStep
    BY <2>2 DEF AppendStep, TextStep
  <2>3. CASE Appended
    BY <2>3, AppendedIsReplace DEF TextStep
  <2>4. CASE JsonEnd \/ PrintfEnds
    <3>1. ~Appending /\ call.ahead \in Nat /\ IsCut(call.ahead) /\ UNCHANGED <<capacity, append, status>>
      BY <2>4, EndingCuts
    <3>2. Truncate
      BY <1>1, <3>1, CutIsTruncate
    <3> QED BY <3>1, <3>2 DEF TextStep
  <2>5. CASE ~(MakeAppend \/ AppendStep \/ Appended \/ JsonEnd \/ PrintfEnds)
    BY <1>3, <2>5, OtherStepsStay
  <2> QED BY <2>1, <2>2, <2>3, <2>4, <2>5
<1>4. CASE Begin \/ Set \/ UNCHANGED vars
  BY <1>4 DEF Begin, Set, vars
<1> QED BY <1>2, <1>3, <1>4 DEF Next

\* Whatever value is formatted, with any map, result code, printf format and
\* setting, and whatever is ahead of it in the buffers, what the call does to
\* its buffers is what TextSpec describes: appends of characters only, and
\* between them only what drops characters that are there, or replaces some.
THEOREM ValueImplementsText == Spec => TextSpec
<1>1. Init => InitText
  BY DEF Init
<1>2. QuietInv /\ CallInv /\ OwnerInv /\ [Next]_vars => [TextStep]_textVars
  BY OwnerStepIsTextStep
<1> QED BY <1>1, <1>2, InitCallInv, CallInvIsKept, InitQuiet, QuietInvIsKept,
           InitOwner, OwnerInvIsKept, PTL DEF Spec, TextSpec, TextStep

\* So no write of a call is past the end of a buffer, an append leaves what is
\* before it alone and has no hole, and one that succeeds adds exactly what it
\* was asked to add.
THEOREM ValueTextInBuffer == Spec => []TextInBuffer
BY ValueImplementsText, TextStaysInBuffer

THEOREM ValueTextIsWhole == Spec => TextIsWhole /\ AppendsAsAsked
BY ValueImplementsText, TextIsWholeHolds, AppendsAreExact

-----------------------------------------------------------------------------
LEMMA PrefixFitsIsKept ==
  ASSUME CallInv, PrefixFits, [Next]_vars
  PROVE  PrefixFits'
<1>1. CASE Begin
  <2>1. call' \in Calls(timestampFormat, timeZoneBiasMinutes)
    BY <1>1 DEF Begin
  <2>2. WellFormedCall(call')
    BY <2>1, CallsAssumption DEF CallInv
  <2>3. call'.op = "Printf" => call'.format \in Seq(STRING)
    BY <2>2 DEF WellFormedCall
  <2> QED BY <2>3, CopyFits DEF PrefixFits
<1>2. CASE ValueStep
  <2>1. call' = call
    BY <1>2, StepKeepsCall
  <2> QED BY <2>1 DEF PrefixFits
<1>3. CASE Clear
  BY <1>3 DEF Clear, PrefixFits
<1>4. CASE Set \/ UNCHANGED vars
  <2>1. call' = call
    BY <1>4 DEF Set, vars, valueVars, callVars
  <2> QED BY <2>1 DEF PrefixFits
<1> QED BY <1>1, <1>2, <1>3, <1>4 DEF Next

\* ASSERT(m_copied <= MaxPrefix) holds of every format that a call is given,
\* whatever it is and however long: m_format is not written past its end.
THEOREM PrefixesFit == Spec => []PrefixFits
<1>1. Init => PrefixFits
  BY DEF Init, PrefixFits
<1> QED BY <1>1, PrefixFitsIsKept, InitCallInv, CallInvIsKept, PTL DEF Spec
=============================================================================

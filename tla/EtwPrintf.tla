------------------------------ MODULE EtwPrintf ------------------------------
(***************************************************************************)
(* The printf format of a parameter such as %2!08x!: ParsedPrintf, which   *)
(* reads it and makes formats for _vsnwprintf from it, what these print,   *)
(* and which values AddProperty prints with them as numbers.               *)
(*                                                                         *)
(* A format is what follows the first "!", one string for each character.  *)
(***************************************************************************)
EXTENDS EtwValueTypes, FiniteSets

Flags       == {"-", "+", " ", "#", "0"}
FirstDigits == {"1", "2", "3", "4", "5", "6", "7", "8", "9"}
Digits      == FirstDigits \cup {"0"}

MaxDigits == 4
MaxPrefix == 7 + 2 * MaxDigits

Characterlike == {"c", "C"}
Integerlike   == {"d", "i", "o", "u", "x", "X", "p"}
Floatlike     == {"f", "F", "e", "E", "g", "G", "a", "A"}
Stringlike    == {"s", "S", "Z"}

Category == [c \in Characterlike \cup Integerlike \cup Floatlike \cup Stringlike |->
    CASE c \in Characterlike -> "Character"
      [] c \in Integerlike   -> "Integer"
      [] c \in Floatlike     -> "Float"
      [] c \in Stringlike    -> "String"]

-----------------------------------------------------------------------------
(* The constructor of ParsedPrintf. *)

CharAt(f, i) == IF i <= Len(f) THEN f[i] ELSE "NUL"

\* How many characters from i on are in S, but not more than max.
Run(f, i, S, max) ==
    LET Is(n) == \A k \in i .. i + n - 1 : CharAt(f, k) \in S
    IN  CHOOSE n \in 0 .. max : Is(n) /\ (n = max \/ ~Is(n + 1))

\* "Already seen this flag. Don't copy again."
Distinct(f) ==
    LET Up[k \in 0 .. Len(f)] ==
          IF k = 0 THEN << >>
          ELSE IF \E j \in 1 .. k - 1 : f[j] = f[k] THEN Up[k - 1]
          ELSE Append(Up[k - 1], f[k])
    IN  Up[Len(f)]

FlagsEnd(f) == 1 + Run(f, 1, Flags, Len(f))

\* From where the width would begin to where it ends: digits or '*'.
WidthEnd(f) == [i \in 1 .. Len(f) + 1 |->
    CASE CharAt(f, i) \in FirstDigits -> i + Run(f, i, Digits, MaxDigits)
      [] CharAt(f, i) = "*" -> i + 1
      [] OTHER -> i]

PrecisionEnd(f) == [i \in 1 .. Len(f) + 1 |->
    CASE CharAt(f, i) # "." -> i
      [] CharAt(f, i) = "." /\ CharAt(f, i + 1) = "*" -> i + 2
      [] OTHER -> i + 1 + Run(f, i + 1, Digits, MaxDigits)]

\* 'h' or 'l' once or twice, 'I' with 32 or 64, or one of the others.
LengthEnd(f) == [i \in 1 .. Len(f) + 1 |->
    CASE CharAt(f, i) \in {"h", "l"} -> IF CharAt(f, i + 1) = CharAt(f, i) THEN i + 2 ELSE i + 1
      [] CharAt(f, i) = "I" ->
           (IF <<CharAt(f, i + 1), CharAt(f, i + 2)>> \in {<<"6", "4">>, <<"3", "2">>}
            THEN i + 3 ELSE i + 1)
      [] CharAt(f, i) \in {"j", "z", "t", "L", "w"} -> i + 1
      [] OTHER -> i]

\* "Ignore width '*'", "Ignore precision '*'": it is not copied.
WithoutStar(s) == IF s # << >> /\ s[Len(s)] = "*" THEN SubSeq(s, 1, Len(s) - 1) ELSE s

ParsedPrintf(f) ==
    LET width     == FlagsEnd(f)
        precision == WidthEnd(f)[width]
        length    == PrecisionEnd(f)[precision]
        specifier == LengthEnd(f)[length]
        isValid   == CharAt(f, specifier) \in DOMAIN Category
        before    == <<"%">> \o Distinct(SubSeq(f, 1, width - 1))
                     \o WithoutStar(SubSeq(f, width, precision - 1))
    IN  [consumed  |-> IF isValid THEN specifier ELSE 0,
         specifier |-> CharAt(f, specifier),
         category  |-> IF isValid THEN Category[CharAt(f, specifier)] ELSE "None",
         copied    |-> before \o WithoutStar(SubSeq(f, precision, length - 1)),
         copiedBeforePrecision |-> IF CharAt(f, precision) = "." THEN Len(before) ELSE 0]

\* AddFormatImpl: the "!" after the format makes it one.
IsPrintf(f) ==
    LET parsed == ParsedPrintf(f)
    IN  parsed.consumed # 0 /\ CharAt(f, parsed.consumed + 1) = "!"

IsPlainString(parsed) == parsed.category = "String" /\ Len(parsed.copied) = 1

NoPrintf == [category |-> "None"]

\* "Not a printf format string. Ignore it"
UsedPrintf(f) ==
    IF IsPrintf(f) /\ ~IsPlainString(ParsedPrintf(f)) THEN ParsedPrintf(f) ELSE NoPrintf

-----------------------------------------------------------------------------
(* The formats that are made of it. *)

Specifier(parsed) == IF parsed.specifier = "p" THEN "X" ELSE parsed.specifier

\* MakeInt8Format to MakeInt64Format.
IntegerLength == [size \in {1, 2, 4, 8} |->
    CASE size = 1 -> <<"h", "h">> [] size = 2 -> <<"h">> [] size = 4 -> << >> [] size = 8 -> <<"l", "l">>]

MakeIntegerFormat(parsed, size) == parsed.copied \o IntegerLength[size] \o <<Specifier(parsed)>>

MakeCharacterFormat(parsed) == parsed.copied \o <<"l", "c">>

MakeFloatFormat(parsed) == parsed.copied \o <<parsed.specifier>>

\* "For String category, precision means truncation."
MakeStringFormat(parsed) ==
    (IF parsed.category # "String" /\ parsed.copiedBeforePrecision # 0
     THEN SubSeq(parsed.copied, 1, parsed.copiedBeforePrecision) ELSE parsed.copied)
    \o <<"l", "s">>

-----------------------------------------------------------------------------
(***************************************************************************)
(* What _vsnwprintf prints: the marks of the format, which stand for the   *)
(* padding and so on that they ask for, and then the value.                *)
(***************************************************************************)
Marks(f) == [k \in 1 .. Len(f) |-> Mark(f[k])]

\* A conversion is one character: <<"X", n>> is n as %X prints it.
PrintedNumber(format, n) ==
    Marks(SubSeq(format, 1, Len(format) - 1)) \o <<<<format[Len(format)], n>>>>

DigitValue == [d \in Digits |->
    CASE d = "0" -> 0 [] d = "1" -> 1 [] d = "2" -> 2 [] d = "3" -> 3 [] d = "4" -> 4
      [] d = "5" -> 5 [] d = "6" -> 6 [] d = "7" -> 7 [] d = "8" -> 8 [] d = "9" -> 9]

NumberIn(digits) ==
    LET Up[k \in 0 .. Len(digits)] == IF k = 0 THEN 0 ELSE 10 * Up[k - 1] + DigitValue[digits[k]]
    IN  Up[Len(digits)]

\* As many characters as the precision has it, and none after a NUL.
PrintedString(format, s) ==
    LET points == {k \in 1 .. Len(format) : format[k] = "."}
        ends   == {k \in 1 .. Len(s) : s[k] = Ch(0)}
        whole  == IF ends = {} THEN s ELSE SubSeq(s, 1, (CHOOSE k \in ends : \A j \in ends : k <= j) - 1)
        size   == NumberIn(SubSeq(format, (CHOOSE k \in points : TRUE) + 1, Len(format) - 2))
    IN  Marks(SubSeq(format, 1, Len(format) - 2))
        \o (IF points = {} \/ size > Len(whole) THEN whole ELSE SubSeq(whole, 1, size))

-----------------------------------------------------------------------------
(* AddProperty: the values that are printed as what they are. *)

\* The size of the integer that a value is printed as, or 0.
IntegerSize(v) ==
    CASE v.inType \in {"INT8", "UINT8", "ANSICHAR"} -> 1
      [] v.inType \in {"INT16", "UINT16", "UNICODECHAR"} -> 2
      [] v.inType \in {"INT32", "UINT32", "HEXINT32", "BOOLEAN"} -> 4
      [] v.inType \in {"INT64", "UINT64", "HEXINT64", "FILETIME"} -> 8
      [] v.inType \in PointerTypes -> IF v.cb = 8 THEN 8 ELSE 4
      [] OTHER -> 0

PrintedInteger(v) ==
    IF IntegerSize(v) = 2 /\ v.outType = "PORT" THEN ByteSwapped(v.data[1]) ELSE v.data[1]

MatchesType(category, v) ==
    \/ category = "Integer" /\ IntegerSize(v) # 0
    \/ category = "Character" /\ IntegerSize(v) \in {1, 2}
    \/ category = "Float" /\ v.inType \in {"FLOAT", "DOUBLE"}

\* A byte that is not a character by itself may not be converted.
MayFailToConvert(category, v) ==
    category = "Character" /\ IntegerSize(v) = 1 /\ IsLead(v.data[1])

Nul   == Ch(0)
Space == Ch(32)

Printed(parsed, v) ==
    CASE parsed.category = "Integer" ->
           PrintedNumber(MakeIntegerFormat(parsed, IntegerSize(v)), PrintedInteger(v))
      [] parsed.category = "Float" -> PrintedNumber(MakeFloatFormat(parsed), v.data[1])
      [] parsed.category = "Character" ->
           PrintedNumber(MakeCharacterFormat(parsed), IF v.data[1] = 0 THEN 32 ELSE v.data[1])

-----------------------------------------------------------------------------
(***************************************************************************)
(* Reading it back: what a format says, by the grammar of a format of      *)
(* printf.  The specifier is before the "!"; a cut is where the flags, the *)
(* width and the precision end.                                            *)
(***************************************************************************)
IsDecimal(f, first, last) ==
    last - first \in 0 .. MaxDigits - 1 /\ \A k \in first .. last : f[k] \in Digits

Lengths == {<< >>, <<"h">>, <<"h", "h">>, <<"l">>, <<"l", "l">>, <<"I">>, <<"I", "3", "2">>,
            <<"I", "6", "4">>, <<"j">>, <<"z">>, <<"t">>, <<"L">>, <<"w">>}

SpecifierAt(f) ==
    LET ends == {k \in 1 .. Len(f) : f[k] = "!"}
    IN  IF ends = {} THEN 0 ELSE (CHOOSE k \in ends : \A j \in ends : k <= j) - 1

IsWidth(f, first, last) ==
    \/ last < first
    \/ SubSeq(f, first, last) = <<"*">>
    \/ IsDecimal(f, first, last) /\ f[first] # "0"

IsPrecision(f, first, last) ==
    \/ last < first
    \/ /\ f[first] = "."
       /\ \/ last = first
          \/ SubSeq(f, first + 1, last) = <<"*">>
          \/ IsDecimal(f, first + 1, last)

Cuts(f) ==
    LET end == SpecifierAt(f)
    IN  IF end = 0 \/ CharAt(f, end) \notin DOMAIN Category THEN {}
        ELSE {c \in (0 .. end - 1) \X (0 .. end - 1) \X (0 .. end - 1) :
                /\ c[1] <= c[2] /\ c[2] <= c[3]
                /\ \A k \in 1 .. c[1] : f[k] \in Flags
                /\ IsWidth(f, c[1] + 1, c[2])
                /\ IsPrecision(f, c[2] + 1, c[3])
                /\ SubSeq(f, c[3] + 1, end - 1) \in Lengths}

\* What a format says (there is one way to cut it, or none); "*" says nothing.
Meanings(f) ==
    LET Part(first, last) == IF last >= first /\ f[last] = "*" THEN << >> ELSE SubSeq(f, first, last)
    IN  {[flags     |-> {f[k] : k \in 1 .. c[1]},
          width     |-> Part(c[1] + 1, c[2]),
          precision |-> Part(c[2] + 1, c[3]),
          specifier |-> f[SpecifierAt(f)]] : c \in Cuts(f)}

PrecisionIsStar(f) == \E k \in 2 .. Len(f) : f[k - 1] = "." /\ f[k] = "*"

\* The marks that a value is printed with: each flag once, and in this order
\* the width, the precision and the length of the argument.
MarksAreRead(s, meaning, precision, length) ==
    LET n    == 1 + Cardinality(meaning.flags)
        rest == meaning.width \o precision \o length
    IN  /\ s = << >> \/ Len(s) = n + Len(rest)
        /\ s = << >> => meaning.flags = {} /\ rest = << >>
        /\ s # << >> => /\ s[1] = Mark("%")
                       /\ {s[k] : k \in 2 .. n} = {Mark(flag) : flag \in meaning.flags}
                       /\ SubSeq(s, n + 1, Len(s)) = Marks(rest)

\* A number is printed by the specifier that was asked for (a pointer as a
\* hexadecimal number), with the length of its type.
NumberIsRead(v, s, meaning) ==
    LET last     == s[Len(s)]
        category == Category[meaning.specifier]
        length   == CASE category = "Integer"   -> IntegerLength[IntegerSize(v)]
                      [] category = "Character" -> <<"l">>
                      [] category = "Float"     -> << >>
    IN  /\ MarksAreRead(SubSeq(s, 1, Len(s) - 1), meaning, meaning.precision, length)
        /\ last = CASE category = "Integer" /\ meaning.specifier # "p" ->
                         <<meaning.specifier, PrintedInteger(v)>>
                    [] category = "Integer" /\ meaning.specifier = "p" -> <<"X", PrintedInteger(v)>>
                    [] category = "Character" -> <<"c", IF v.data[1] = 0 THEN 32 ELSE v.data[1]>>
                    [] category = "Float" -> <<meaning.specifier, v.data[1]>>
=============================================================================

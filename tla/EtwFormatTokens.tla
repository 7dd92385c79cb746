--------------------------- MODULE EtwFormatTokens ---------------------------
(***************************************************************************)
(* Format strings and the text they expand to, as sequences of tokens: one *)
(* for each thing that AddFormatImpl recognises.  A run of plain text, and *)
(* the "%" characters that it passes through, are one Literal.             *)
(***************************************************************************)
EXTENDS Integers, Sequences

Literal(text)  == <<"text", text>>
Space          == <<"space">>
LineEnd        == <<"line end">>
Nul            == <<"nul">>
Variable(name) == <<"%!", name>>

\* "%%n": the text of a parameter message.
ParameterRef(n) == <<"%%", n>>

\* "%n", "%n!S!" and "%n!format!": the n-th property.  "%n!s!" is as "%n!S!".
PropertyRef(n, spec) == <<"%", n, spec>>

IsParameterRef(token) == token[1] = "%%"
IsPropertyRef(token)  == token[1] = "%"

\* What only the output has.
Field(n)           == <<"field", n>>
IndexOutOfRange(n) == <<"IndexOutOfRange", n>>
IndexRecursion(n)  == <<"IndexRecursion", n>>
Printf(text)       == <<"printf", text>>

\* The text without the line ends it may end with.
Trimmed(text) ==
    LET IsKept(n) == n = 0 \/ text[n] # LineEnd
        n == CHOOSE n \in 0 .. Len(text) :
               IsKept(n) /\ \A m \in n + 1 .. Len(text) : ~IsKept(m)
    IN  SubSeq(text, 1, n)
=============================================================================

---------------------------- MODULE EtwFormatText ----------------------------
(***************************************************************************)
(* What a format string stands for, by recursion over the strings it       *)
(* refers to, with no buffer, no frame and no flag.  For TLC alone:        *)
(* recursive operators are out of the provers' reach.                      *)
(***************************************************************************)
EXTENDS EtwFormatTokens, SequencesExt

CONSTANT Parameters    \* the parameter messages: [status, text] by number

Unresolved(status) == <<"unresolved", status>>

(***************************************************************************)
(* values: the properties that %1, %2, ... refer to, each with its text    *)
(* and whether that text is a format string in its turn.  used: those      *)
(* whose expansion is under way.                                           *)
(***************************************************************************)
RECURSIVE Expansion(_, _, _, _)

PropertyText(n, spec, limit, values, used) ==
    CASE n \notin DOMAIN values -> <<IndexOutOfRange(n)>>
      [] n \in DOMAIN values \cap used -> <<IndexRecursion(n)>>
      [] n \in DOMAIN values \ used ->
           LET value == values[n]
           IN  IF spec = "printf" THEN <<Printf(value.text)>>
               ELSE IF spec = "default" /\ value.isFormat /\ limit > 0
               THEN Expansion(value.text, limit - 1, values, used \cup {n})
               ELSE value.text

ParameterText(n, limit, values, used) ==
    LET parameter == IF n \in DOMAIN Parameters THEN Parameters[n]
                     ELSE [status |-> "MR_MID_NOT_FOUND", text |-> << >>]
        text      == Trimmed(parameter.text)
    IN  IF parameter.status # "SUCCESS" THEN <<Unresolved(parameter.status)>>
        ELSE IF limit > 0 THEN Expansion(text, limit - 1, values, used) ELSE text

Expansion(format, limit, values, used) ==
    LET Text(token) ==
            CASE IsPropertyRef(token)  -> PropertyText(token[2], token[3], limit, values, used)
              [] IsParameterRef(token) -> ParameterText(token[2], limit, values, used)
              [] OTHER                 -> <<token>>
    IN  FlattenSeq([k \in 1 .. Len(format) |-> Text(format[k])])

\* The statuses of the parameters that could not be resolved, in order.  With
\* the recursion limit at 0 a parameter in a message is text like any other.
Failures(text) == SelectSeq(text, LAMBDA token : token[1] = "unresolved")
Resolves(text) == Failures(text) = << >>
=============================================================================

--------------------------- MODULE EtwFormatResult ---------------------------
(***************************************************************************)
(* What a call that formats an event with a message should return, by      *)
(* EtwFormatText and EtwJsonText.                                          *)
(***************************************************************************)
EXTENDS EtwFormat

Text     == INSTANCE EtwJsonText
Expanded == INSTANCE EtwFormatText

PrefixText ==
    Expanded!Expansion(call.prefix, 0,
                       [n \in 1 .. 9 |-> [text |-> <<Field(n)>>, isFormat |-> FALSE]], {})

\* The text of the string value x, "any nul characters replaced with spaces".
StringText(x) ==
    LET w == IF x.type = "UNICODESTRING" THEN 2 ELSE 1
        Char(k) == Characters[event.UserData[x.pos + w * (k - 1) + 1]]
    IN  [k \in 1 .. x.size \div w |-> IF Char(k) = Nul THEN Space ELSE Char(k)]

\* What %n stands for in a message: the first item of the n-th top-level property.
MessageValue(n) ==
    LET j == SelectInSeq(list.items, LAMBDA x : Len(x.path) = 1 /\ x.path[1][1] = n - 1)
        x == list.items[j]
    IN  CASE x.kind = "Value_Scalar" /\ x.type \in {"UNICODESTRING", "ANSISTRING"} ->
               [text |-> StringText(x), isFormat |-> TRUE]
          [] x.kind = "Value_Scalar" /\ x.type \notin {"UNICODESTRING", "ANSISTRING"} ->
               [text |-> <<Text!Value(n - 1, x.pos, x.size)>>, isFormat |-> FALSE]
          [] x.kind # "Value_Scalar" ->
               [text |-> Text!Node(list.items, j, FALSE).text, isFormat |-> FALSE]

MessageText ==
    Expanded!Expansion(call.message, 3,
                       [n \in 1 .. event.tei.TopLevelPropertyCount |-> MessageValue(n)], {})

\* "Falls back to formatting as JSON if EventMessage is null or if unable to
\* resolve a "%%n" parameter string."
FallsBack ==
    /\ call.kind = "Event"
    /\ call.message = NoMessage \/ <<"unresolved", "MR_MID_NOT_FOUND">> \in
         {Expanded!Failures(MessageText)[k] : k \in {1} \cap DOMAIN Expanded!Failures(MessageText)}

BodyText ==
    CASE call.kind = "Prefix" -> << >>
      [] call.kind # "Prefix" /\ FallsBack ->
           Text!EventText(list.items, call.suffix, call.shown)
      [] call.kind # "Prefix" /\ ~FallsBack ->
           IF call.kind = "Event" /\ call.message # << >> /\ Last(call.message) = Space
           THEN Front(MessageText) ELSE MessageText

ShouldSucceed ==
    /\ Expanded!Resolves(PrefixText)
    /\ call.kind # "Prefix" =>
         list.complete /\ (FallsBack \/ Expanded!Resolves(MessageText))

\* A call that succeeds returns the prefix and the message, every %n and %%n in
\* them expanded to the documented depth, or the prefix and the event as JSON:
\* nothing of a message that could not be expanded stays in the output.
MessageIsRight == FormatReturned => output = PrefixText \o BodyText

\* A call fails when the event cannot be decoded, memory runs out, a callback
\* fails or a parameter does not resolve, and succeeds otherwise: the error of a
\* message that is given up for JSON is forgotten, that of a prefix is not.
FormatFailsForCause == FormatAt("done") => (returned <=> ~format.hurt /\ ShouldSucceed)
=============================================================================

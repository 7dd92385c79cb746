---------------------------- MODULE EtwAttributes ----------------------------
(***************************************************************************)
(* The parser of event attributes: SplitEventAttributes, which lists the   *)
(* name/value pairs of an attribute string, AppendEventAttribute, which    *)
(* looks for one by name (FindEventAttribute), and the event name that is  *)
(* made of two of them (AppendCurrentEventNameFallback).                   *)
(*                                                                         *)
(* All three scan the string with SkipTo and SkipQuotedRegion, which copy  *)
(* what they read without its quotes to a buffer that was sized once, from *)
(* the length of the string.  A step reads one character.                  *)
(***************************************************************************)
EXTENDS Integers, Sequences

CONSTANTS
    Strings,   (* the attribute strings, as sequences of characters               *)
    Rooms,     (* the sizes of the caller's array, cAttributes                    *)
    Nul,       (* the nul character, which no string contains                     *)
    IdVersion  (* the text of the event's id and version                          *)

ASSUME StringsAssumption ==
    /\ \A s \in Strings : s \in Seq(STRING) /\ \A i \in 1 .. Len(s) : s[i] # Nul
    /\ Rooms \subseteq Nat

Quote == "\""
FILE  == <<"FILE">>
LINE  == <<"LINE">>
Names == {FILE, LINE}

VARIABLES
    string,      (* szEventAttributes                                             *)
    call,        (* the call: its operation and arguments                         *)
    step,        (* where it is                                                   *)
    pIn,         (* the number of characters that were read                       *)
    quoted,      (* in SkipQuotedRegion                                           *)
    out,         (* what was written from pOutBegin on                            *)
    nameStart,   (* pName, as an offset                                           *)
    valueStart,  (* pValue, as an offset                                          *)
    matched,     (* the name is the one that is looked for                        *)
    pairs,       (* pAttributes                                                   *)
    count,       (* cActual                                                       *)
    output,      (* the output before pOutBegin                                   *)
    lastError    (* m_lastError                                                   *)

attributeVars == <<string, call, step, pIn, quoted, out, nameStart, valueStart, matched,
                   pairs, count, output, lastError>>

NoCall == [op |-> "None", name |-> << >>, room |-> 0]

Init ==
    /\ string \in Strings
    /\ call = NoCall
    /\ step = "idle"
    /\ pIn = 0
    /\ quoted = FALSE
    /\ out = << >>
    /\ nameStart = 0
    /\ valueStart = 0
    /\ matched = FALSE
    /\ pairs = << >>
    /\ count = 0
    /\ output = << >>
    /\ lastError = "SUCCESS"

-----------------------------------------------------------------------------
(* The calls. *)

Searches == call.op \in {"Find", "EventName"}

\* Mutant: the offset of the last call's name is kept.
Scan_KeepsNameStart(newStep, status) ==
    /\ step' = newStep
    /\ lastError' = status
    /\ pIn' = 0
    /\ quoted' = FALSE
    /\ out' = << >>
    /\ valueStart' = 0
    /\ matched' = FALSE
    /\ UNCHANGED <<string, nameStart>>

\* The scan starts, or does not.
Scan(newStep, status) ==
    /\ step' = newStep
    /\ lastError' = status
    /\ pIn' = 0
    /\ quoted' = FALSE
    /\ out' = << >>
    /\ nameStart' = 0
    /\ valueStart' = 0
    /\ matched' = FALSE
    /\ UNCHANGED string

Begin(c) ==
    /\ step = "idle"
    /\ call' = c
    /\ pairs' = << >>
    /\ count' = 0

SplitEventAttributes(room) ==
    /\ Begin([op |-> "Split", name |-> << >>, room |-> room])
    /\ output' = << >>
    /\ \/ string = << >> /\ Scan("idle", "SUCCESS")
       \/ string # << >> /\ Scan("name", "SUCCESS")
       \/ string # << >> /\ Scan("idle", "OUTOFMEMORY")     \* output.resize

\* AppendEventAttribute, as far as its loop.
Search ==
    \/ string = << >> /\ Scan("idle", "NOT_FOUND")
    \/ string # << >> /\ Scan("name", "SUCCESS")
    \/ string # << >> /\ Scan("idle", "OUTOFMEMORY")        \* output.reserve

FindEventAttribute(name) ==
    /\ Begin([op |-> "Find", name |-> name, room |-> 0])
    /\ output' = << >>
    /\ Search

AppendCurrentEventNameFallback ==
    /\ Begin([op |-> "EventName", name |-> FILE, room |-> 0])
    /\ \/ string # << >> /\ output' = << >> /\ Search
       \/ string = << >> /\ output' = <<IdVersion>> /\ Scan("idle", "SUCCESS")
       \/ string = << >> /\ output' = << >> /\ Scan("idle", "OUTOFMEMORY")    \* AppendPrintf

-----------------------------------------------------------------------------
(* SkipTo and SkipQuotedRegion. *)

InPart  == step \in {"name", "value"}
AtEnd   == pIn = Len(string)
Ch      == string[pIn + 1]
IsEndChar(ch) == ch = ";" \/ (step = "name" /\ ch = "=")
PartEnd == IF step = "name" THEN "nameEnd" ELSE "valueEnd"

unscanned == <<string, call, nameStart, valueStart, matched, pairs, count, output, lastError>>

EndOfString ==
    /\ InPart
    /\ AtEnd
    /\ step' = PartEnd
    /\ quoted' = FALSE
    /\ UNCHANGED <<pIn, out, unscanned>>

EndChar ==
    /\ InPart /\ ~AtEnd
    /\ ~quoted
    /\ IsEndChar(Ch)
    /\ step' = PartEnd
    /\ pIn' = pIn + 1
    /\ UNCHANGED <<quoted, out, unscanned>>

Character ==
    /\ InPart /\ ~AtEnd
    /\ Ch # Quote
    /\ quoted \/ ~IsEndChar(Ch)
    /\ out' = Append(out, Ch)
    /\ pIn' = pIn + 1
    /\ UNCHANGED <<step, quoted, unscanned>>

OpenQuote ==
    /\ InPart /\ ~AtEnd
    /\ Ch = Quote /\ ~quoted
    /\ quoted' = TRUE
    /\ pIn' = pIn + 1
    /\ UNCHANGED <<step, out, unscanned>>

IsDoubled == pIn + 2 <= Len(string) /\ string[pIn + 2] = Quote

\* Mutant: both quotes are copied, and a third.
DoubledQuote_Copied ==
    /\ InPart /\ ~AtEnd
    /\ Ch = Quote /\ quoted /\ IsDoubled
    /\ out' = out \o <<Quote, Quote>>
    /\ pIn' = pIn + 1
    /\ UNCHANGED <<step, quoted, unscanned>>

DoubledQuote ==
    /\ InPart /\ ~AtEnd
    /\ Ch = Quote /\ quoted /\ IsDoubled
    /\ out' = Append(out, Quote)
    /\ pIn' = pIn + 2
    /\ UNCHANGED <<step, quoted, unscanned>>

CloseQuote ==
    /\ InPart /\ ~AtEnd
    /\ Ch = Quote /\ quoted /\ ~IsDoubled
    /\ quoted' = FALSE
    /\ pIn' = pIn + 1
    /\ UNCHANGED <<step, out, unscanned>>

-----------------------------------------------------------------------------
(* The loops of SplitEventAttributes and AppendEventAttribute. *)

\* "Does the attribute have a value?": pIn[-1] == '='.
HasValue == string[pIn] = "="

NameSplit ==
    /\ step = "nameEnd"
    /\ call.op = "Split"
    /\ out' = Append(out, Nul)
    /\ \/ HasValue  /\ step' = "value"     /\ valueStart' = Len(out) + 1
       \/ ~HasValue /\ step' = "attribute" /\ valueStart' = Len(out)
    /\ UNCHANGED <<string, call, pIn, quoted, nameStart, matched, pairs, count, output, lastError>>

ValueSplit ==
    /\ step = "valueEnd"
    /\ call.op = "Split"
    /\ out' = Append(out, Nul)
    /\ step' = "attribute"
    /\ UNCHANGED <<pIn, quoted, unscanned>>

\* The nul-terminated text at an offset.
TextAt(start) ==
    LET n == CHOOSE n \in start .. Len(out) - 1 :
               out[n + 1] = Nul /\ \A m \in start .. n - 1 : out[m + 1] # Nul
    IN  SubSeq(out, start + 1, n)

Pair == [name |-> TextAt(nameStart), value |-> TextAt(valueStart)]

NextAttribute ==
    \/ ~AtEnd /\ step' = "name" /\ UNCHANGED lastError
    \/ /\ AtEnd
       /\ step' = "idle"
       /\ lastError' = IF count' <= call.room THEN "SUCCESS" ELSE "INSUFFICIENT_BUFFER"

\* Mutant: what does not fit is not counted.
AttributeSplit_CountsStored ==
    /\ step = "attribute"
    /\ call.op = "Split"
    /\ LET listed == out[nameStart + 1] # Nul \/ out[valueStart + 1] # Nul
       IN  /\ count' = IF listed /\ count < call.room THEN count + 1 ELSE count
           /\ pairs' = IF listed /\ count < call.room THEN Append(pairs, Pair) ELSE pairs
    /\ NextAttribute
    /\ nameStart' = Len(out)
    /\ UNCHANGED <<string, call, pIn, quoted, out, valueStart, matched, output>>

AttributeSplit ==
    /\ step = "attribute"
    /\ call.op = "Split"
    /\ LET listed == out[nameStart + 1] # Nul \/ out[valueStart + 1] # Nul
       IN  /\ count' = IF listed THEN count + 1 ELSE count
           /\ pairs' = IF listed /\ count < call.room THEN Append(pairs, Pair) ELSE pairs
    /\ NextAttribute
    /\ nameStart' = Len(out)
    /\ UNCHANGED <<string, call, pIn, quoted, out, valueStart, matched, output>>

\* The value, if any, overwrites the name.
NameSearched ==
    /\ step = "nameEnd"
    /\ Searches
    /\ matched' = (out = call.name)
    /\ out' = << >>
    /\ step' = IF HasValue THEN "value" ELSE "valueEnd"
    /\ UNCHANGED <<string, call, pIn, quoted, nameStart, valueStart, pairs, count, output,
                   lastError>>

NotThisOne ==
    /\ step = "valueEnd"
    /\ Searches
    /\ ~matched
    /\ ~AtEnd
    /\ step' = "name"
    /\ out' = << >>
    /\ UNCHANGED <<pIn, quoted, unscanned>>

FoundLast ==
    /\ step = "valueEnd"
    /\ matched
    /\ call.op = "Find" \/ call.name = LINE
    /\ output' = output \o out
    /\ step' = "idle"
    /\ lastError' = "SUCCESS"
    /\ UNCHANGED <<string, call, pIn, quoted, out, nameStart, valueStart, matched, pairs, count>>

\* "Try FILE+LINE."
FoundFile ==
    /\ step = "valueEnd"
    /\ matched
    /\ call.op = "EventName" /\ call.name = FILE
    /\ output' = output \o out
    /\ call' = [call EXCEPT !.name = LINE]
    /\ Search
    /\ UNCHANGED <<pairs, count>>

NotFound ==
    /\ step = "valueEnd"
    /\ Searches
    /\ ~matched
    /\ AtEnd
    /\ \/ /\ call.op = "Find"
          /\ lastError' = "NOT_FOUND"
          /\ UNCHANGED output
       \/ /\ call.op = "EventName"       \* "Fall back to IDvVERSION."
          /\ lastError' = "SUCCESS"
          /\ output' = Append(output, IdVersion)
       \/ /\ call.op = "EventName"       \* AppendPrintf
          /\ lastError' = "OUTOFMEMORY"
          /\ UNCHANGED output
    /\ step' = "idle"
    /\ UNCHANGED <<string, call, pIn, quoted, out, nameStart, valueStart, matched, pairs, count>>

Next ==
    \/ \E room \in Rooms : SplitEventAttributes(room)
    \/ \E name \in Names : FindEventAttribute(name)
    \/ AppendCurrentEventNameFallback
    \/ EndOfString
    \/ EndChar
    \/ Character
    \/ OpenQuote
    \/ DoubledQuote
    \/ CloseQuote
    \/ NameSplit
    \/ ValueSplit
    \/ AttributeSplit
    \/ NameSearched
    \/ NotThisOne
    \/ FoundLast
    \/ FoundFile
    \/ NotFound

Spec == Init /\ [][Next]_attributeVars

-----------------------------------------------------------------------------
(* Properties. *)

\* Every variable has its type; the offsets of a name and a value lie in what
\* was written.
TypeOK ==
    /\ string \in Strings
    /\ call \in [op: {"None", "Split", "Find", "EventName"}, name: Names \cup {<< >>},
                 room: Rooms \cup {0}]
    /\ step \in {"idle", "name", "nameEnd", "value", "valueEnd", "attribute"}
    /\ pIn \in 0 .. Len(string)
    /\ quoted \in BOOLEAN
    /\ out \in Seq(STRING \cup {Nul})
    /\ nameStart \in 0 .. Len(out)
    /\ valueStart \in Nat
    /\ matched \in BOOLEAN
    /\ count \in Nat
    /\ lastError \in {"SUCCESS", "OUTOFMEMORY", "NOT_FOUND", "INSUFFICIENT_BUFFER"}

\* What the buffer was sized for: `wcslen + 1` by SplitEventAttributes, and
\* `cchEventAttributes` by AppendEventAttribute.
Reserved == IF call.op = "Split" THEN Len(string) + 1 ELSE Len(string)

\* The scan writes through a pointer, with no check, and stays inside the
\* buffer for every string: each nul that Split adds has the place of a
\* character that was not copied, the last one apart.
WritesFit == step # "idle" => Len(out) <= Reserved
=============================================================================

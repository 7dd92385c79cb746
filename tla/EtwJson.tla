------------------------------- MODULE EtwJson -------------------------------
(***************************************************************************)
(* Formatting as JSON: FormatCurrentItemAsJsonAndMoveNextSibling and       *)
(* FormatCurrentEventAsJson, which move the enumerator while they write.   *)
(*                                                                         *)
(* The enumerator and the output share m_lastError: a call succeeds if it  *)
(* holds ERROR_SUCCESS at the end, whoever wrote it last.  A call is a     *)
(* sequence of steps: the text of one item, then one MoveNext, and so on.  *)
(* The text is a sequence of tokens; how a value or a name is written is   *)
(* not modelled.                                                           *)
(***************************************************************************)
EXTENDS EtwPlace, EtwJsonTokens

CONSTANTS
    Shown,       (* sequences of the metadata fields that the flags of a call and
                    the event's header select                                     *)
    PrefixTexts  (* what a prefix format string may expand to                     *)

\* Texts are sequences of tokens; a metadata field is no bracket.
ASSUME TextsAssumption ==
    /\ \A s \in Shown \cup PrefixTexts : s \in Seq(Range(s))
    /\ \A s \in Shown : Range(s) \cap (Openings \cup Closings) = {}

VARIABLES
    output,      (* m_stringBuffer2                                               *)
    json,        (* where the call is, and its local variables                    *)
    request      (* the call: its arguments, and the place it was made at         *)

jsonVars == <<output, json, request>>
allVars  == <<vars, list, jsonVars>>

JsonStep == {"idle", "prefix", "first", "text", "move", "meta", "result", "done"}

\* at: the next step.  mark: oldOutputSize.  failed: whether a step failed.
NoJson ==
    [at |-> "idle", depth |-> 0, wantComma |-> FALSE, includeName |-> FALSE, mark |-> 0,
     failed |-> FALSE]

NoRequest ==
    [event |-> FALSE, name |-> FALSE, prefix |-> << >>, suffix |-> FALSE, shown |-> << >>,
     from |-> 0]

JsonInit ==
    /\ Init
    /\ InitList
    /\ output = << >>
    /\ json = NoJson
    /\ request = NoRequest

UNCHANGED_Enumerator == UNCHANGED <<vars, list>>

-----------------------------------------------------------------------------
(* The calls. *)

NoCall   == json.at \in {"idle", "done"}
Callable == Idle /\ NoCall

\* Any other operation; it invalidates the string the last call returned.
Owner ==
    /\ NoCall
    /\ Next
    /\ ListFollowsEvent
    /\ output' = << >>
    /\ json' = NoJson
    /\ request' = NoRequest

\* Mutant: the call may be made at the end of an array or struct.
FormatCurrentItemAsJsonAndMoveNextSibling_AtEnd(name) ==
    /\ Callable
    /\ AtItem
    /\ output' = << >>
    /\ json' = [NoJson EXCEPT !.at = "text", !.includeName = name]
    /\ request' = [NoRequest EXCEPT !.name = name, !.from = Place]
    /\ UNCHANGED_Enumerator

FormatCurrentItemAsJsonAndMoveNextSibling(name) ==
    /\ Callable
    /\ subState \in ValueSubStates \cup {"BeforeFirstItem", "ArrayBegin", "StructBegin"}
    /\ output' = << >>
    /\ json' = IF subState = "BeforeFirstItem"
               THEN [NoJson EXCEPT !.at = "first", !.depth = 1, !.includeName = TRUE]
               ELSE [NoJson EXCEPT !.at = "text", !.includeName = name]
    /\ request' = [NoRequest EXCEPT !.name = name, !.from = Place]
    /\ UNCHANGED_Enumerator

FormatCurrentEventAsJson(prefix, suffix, shown) ==
    /\ Callable
    /\ subState # "None"
    /\ ResetImpl(event)
    /\ UNCHANGED <<event, integerValues, valuesCapacity, list>>
    /\ output' = << >>
    /\ json' = [NoJson EXCEPT !.at = "prefix"]
    /\ request' = [event |-> TRUE, name |-> TRUE, prefix |-> prefix, suffix |-> suffix,
                   shown |-> shown, from |-> 0]

-----------------------------------------------------------------------------
(* Their steps. *)

At(step) == json.at = step

\* goto Done: the status decides what the call returns.
GiveUp(status) ==
    /\ json' = [json EXCEPT !.at = "result", !.failed = TRUE]
    /\ lastError' = status
    /\ UNCHANGED <<event, position, stackCapacity, returned, sibling, settings, list,
                   output, request>>

Write(tokens, next) ==
    /\ output' = output \o tokens
    /\ json' = next
    /\ UNCHANGED request

\* AddPrefix, then the start of AddCurrentEventAsJson.
WritePrefix ==
    /\ At("prefix")
    /\ Write(Append(request.prefix, <<"{">>),
             [json EXCEPT !.at = "first", !.depth = 1, !.includeName = TRUE,
                          !.mark = Len(request.prefix) + 1])
    /\ UNCHANGED_Enumerator

\* The end of AddCurrentItemAsJsonAndMoveNext: `return m_lastError == ERROR_SUCCESS`.
ItemsWritten ==
    json' = [json EXCEPT !.at = IF request.event /\ lastError' = "SUCCESS" THEN "meta" ELSE "result",
                         !.failed = subState' = "Error"]

\* Mutant: the event is over as soon as the depth is back to 1.
MoveToNextItem_Early ==
    /\ Move
    /\ IF returned' /\ json.depth > 1 THEN json' = [json EXCEPT !.at = "text"] ELSE ItemsWritten
    /\ UNCHANGED <<event, sibling, settings, list, output, request>>

\* Mutant: a failed move does not end the loop.
MoveToNextItem_DepthOnly ==
    /\ Move
    /\ IF json.depth > 0 THEN json' = [json EXCEPT !.at = "text"] ELSE ItemsWritten
    /\ UNCHANGED <<event, sibling, settings, list, output, request>>

\* Mutant: while an array or struct is open, a failed move is tried again.
MoveToNextItem_Retry ==
    /\ Move
    /\ CASE returned' /\ json.depth > 0  -> json' = [json EXCEPT !.at = "text"]
         [] ~returned' /\ json.depth > 1 -> UNCHANGED json
         [] OTHER                        -> ItemsWritten
    /\ UNCHANGED <<event, sibling, settings, list, output, request>>

\* while (MoveNext() && depth > 0); the first move is an if.
MoveToNextItem ==
    /\ Move
    /\ IF returned' /\ json.depth > 0 THEN json' = [json EXCEPT !.at = "text"] ELSE ItemsWritten
    /\ UNCHANGED <<event, sibling, settings, list, output, request>>

FirstMove == At("first") /\ MoveToNextItem
NextMove  == At("move")  /\ MoveToNextItem

Separator == IF json.wantComma THEN <<Comma>> ELSE << >>

Label(named) == IF named /\ json.includeName THEN <<Name(top.PropertyIndex)>> ELSE << >>

\* The text of one item is written: what remains is to move.
Continue(deeper, wantComma) ==
    [json EXCEPT !.at = "move", !.depth = @ + deeper, !.wantComma = wantComma,
                 !.includeName = TRUE]

\* AddCurrentValueAsJson sets m_lastError.
WriteValue ==
    /\ At("text")
    /\ subState \in ValueSubStates
    /\ Write(Separator \o Label(~top.IsArray)
             \o <<Value(top.PropertyIndex, item.pos, item.cooked)>>, Continue(0, TRUE))
    /\ lastError' = "SUCCESS"
    /\ UNCHANGED <<event, position, stackCapacity, returned, sibling, settings, list>>

WriteArrayBegin ==
    /\ At("text")
    /\ subState = "ArrayBegin"
    /\ Write(Separator \o Label(TRUE) \o <<<<"[">>>>, Continue(1, FALSE))
    /\ UNCHANGED_Enumerator

\* Mutant: an element of an array of structs is named.
WriteStructBegin_NamedElement ==
    /\ At("text")
    /\ subState = "StructBegin"
    /\ Write(Separator \o Label(TRUE) \o <<<<"{">>>>, Continue(1, FALSE))
    /\ UNCHANGED_Enumerator

WriteStructBegin ==
    /\ At("text")
    /\ subState = "StructBegin"
    /\ Write(Separator \o Label(~top.IsArray) \o <<<<"{">>>>, Continue(1, FALSE))
    /\ UNCHANGED_Enumerator

WriteEnd ==
    /\ At("text")
    /\ \/ subState = "ArrayEnd"  /\ Write(<<<<"]">>>>, Continue(-1, TRUE))
       \/ subState = "StructEnd" /\ Write(<<<<"}">>>>, Continue(-1, TRUE))
    /\ UNCHANGED_Enumerator

\* What a map callback or the conversion of a value reports.
ValueFails ==
    /\ At("text")
    /\ subState \in ValueSubStates
    /\ GiveUp("CALLBACK_ERROR")

\* The output cannot grow.
OutputOutOfMemory ==
    /\ json.at \in {"prefix", "text", "meta"}
    /\ GiveUp("OUTOFMEMORY")

\* The "meta" member and the end of AddCurrentEventAsJson.
MetaTokens ==
    LET needComma == Len(output) # json.mark
        Separated == [k \in 1 .. 2 * Len(request.shown) - 1 |->
                        IF k % 2 = 1 THEN request.shown[(k + 1) \div 2] ELSE Comma]
    IN  (IF needComma THEN <<Comma>> ELSE << >>) \o <<<<"meta{">>>>
        \o Separated \o <<<<"}">>>>

WriteMeta ==
    /\ At("meta")
    /\ Write((IF request.suffix THEN MetaTokens ELSE << >>) \o <<<<"}">>>>,
             [json EXCEPT !.at = "result"])
    /\ lastError' = "SUCCESS"
    /\ UNCHANGED <<event, position, stackCapacity, returned, sibling, settings, list>>

\* Mutant: the terminator is added without a look at m_lastError.
StringViewResult_Unconditional ==
    /\ At("result")
    /\ returned' = TRUE
    /\ UNCHANGED lastError
    /\ json' = [json EXCEPT !.at = "done"]
    /\ UNCHANGED <<event, position, stackCapacity, sibling, settings, list, output, request>>

\* StringViewResult: the nul terminator may need memory too.
StringViewResult ==
    /\ At("result")
    /\ \/ /\ returned' = (lastError = "SUCCESS")
          /\ UNCHANGED lastError
          /\ json' = [json EXCEPT !.at = "done"]
       \/ /\ lastError = "SUCCESS"
          /\ returned' = FALSE
          /\ lastError' = "OUTOFMEMORY"
          /\ json' = [json EXCEPT !.at = "done", !.failed = TRUE]
    /\ UNCHANGED <<event, position, stackCapacity, sibling, settings, list, output, request>>

-----------------------------------------------------------------------------
Formatting ==
    \/ WritePrefix
    \/ FirstMove
    \/ NextMove
    \/ WriteValue
    \/ WriteArrayBegin
    \/ WriteStructBegin
    \/ WriteEnd
    \/ ValueFails
    \/ OutputOutOfMemory
    \/ WriteMeta
    \/ StringViewResult

JsonNext ==
    \/ Owner
    \/ \E name \in BOOLEAN : FormatCurrentItemAsJsonAndMoveNextSibling(name)
    \/ \E prefix \in PrefixTexts, shown \in Shown : FormatCurrentEventAsJson(prefix, TRUE, shown)
    \/ \E prefix \in PrefixTexts : FormatCurrentEventAsJson(prefix, FALSE, << >>)
    \/ Formatting

\* A call runs to its return.
JsonSpec == JsonInit /\ [][JsonNext]_allVars /\ WF_allVars(Formatting)

-----------------------------------------------------------------------------
(* Properties. *)

Returned == At("done") /\ returned

\* The `default:` of the loop's switch is never reached: the loop writes an
\* item only while the enumerator is at one, whatever failed before.
NeverAtNoItem == At("text") => AtItem

\* Every variable has its type, those of the enumerator under the steps of a
\* call too, and the loop is never at no item.
JsonTypeOK ==
    /\ TypeOK
    /\ NeverAtNoItem
    /\ json.mark \in 0 .. Len(output)
    /\ json \in [at: JsonStep, depth: Nat, wantComma: BOOLEAN, includeName: BOOLEAN,
                 mark: Nat, failed: BOOLEAN]

\* A call fails for a cause of its own, and never hides one: the error of an
\* earlier call, which a move to an array of simple values leaves in
\* m_lastError, is not taken for one.
JsonFailsForCause == At("done") => (returned <=> ~json.failed)

\* The nesting at which the call is to end: AddCurrentItemAsJsonAndMoveNext
\* counts in depth what it has opened below it.
Level == Nesting + (IF At("move") THEN DepthChange ELSE 0) - json.depth

\* Like MoveNextSibling, a call that succeeds ends at the nesting at which it
\* began, unless the event ends: writing an item and moving to the next keep
\* the level, whatever is opened and closed on the way.
JsonKeepsLevel ==
    [][json.at \in {"first", "text", "move"} =>
         Level' = Level \/ subState' = "AfterLastItem" \/ json'.failed]_allVars

\* A call made before the first item, and a call for the event, write every
\* item: they end after the last one.
EventIsWritten == Returned /\ request.from = 0 => subState = "AfterLastItem"

\* Every bracket that a call opens is closed when it returns, and none before
\* it was opened.  Brackets of the prefix format are its own affair.
Opened(s, first, tokens) == Cardinality({k \in first .. Len(s) : s[k] \in tokens})

OpenBrackets ==
    LET first == Len(request.prefix) + 1
    IN  Opened(output, first, Openings) - Opened(output, first, Closings)

BracketsMatch ==
    /\ Returned => OpenBrackets = 0
    /\ ~NoCall => OpenBrackets >= 0

\* Every call returns.
JsonReturns == ~NoCall ~> NoCall
=============================================================================

------------------------------ MODULE EtwFormat ------------------------------
(***************************************************************************)
(* Formatting an event with a message: FormatCurrentEvent,                 *)
(* FormatCurrentEventWithMessage and FormatCurrentEventPrefix, through     *)
(* FormatContext.                                                          *)
(*                                                                         *)
(* A message is expanded into the output.  What a %n or a %%n stands for   *)
(* may be a format string too: it is rendered into the scratch buffer and  *)
(* expanded from there by a nested call of AddFormatImpl, which may use    *)
(* the same buffer further up.  An array or struct is written as JSON, by  *)
(* moving the enumerator back to it.  The enumerator, the scratch buffer,  *)
(* the InUse flags and m_lastError are shared by all of this.              *)
(***************************************************************************)
EXTENDS EtwJson, EtwFormatTokens

CONSTANTS
    Messages,       (* the event messages, as sequences of tokens                  *)
    NoMessage,      (* an EventMessageOffset of 0                                  *)
    PrefixFormats,  (* the prefix formats                                          *)
    Parameters,     (* what GetParameterMessage returns: [status, text] by number  *)
    Characters      (* the token that a character of a string value stands for     *)

\* A text is a sequence of tokens; a parameter message is read up to its nul.
ASSUME FormatAssumption ==
    /\ NoMessage \notin Messages
    /\ \A s \in Messages \cup PrefixFormats : s \in Seq(Range(s))
    /\ \A n \in DOMAIN Parameters :
         /\ Parameters[n].status \in Status
         /\ Parameters[n].text \in Seq(Range(Parameters[n].text))
         /\ Nul \notin Range(Parameters[n].text)

InitialRecursionLimit == 3
MaxRecursionLimit     == 255

VARIABLES
    scratch,   (* m_scratchBuffer                                                  *)
    props,     (* m_propInfo                                                       *)
    frames,    (* the calls of AddFormatImpl that are under way                    *)
    call,      (* the arguments of the call                                        *)
    format     (* where the call is, and its local variables                       *)

formatVars == <<scratch, props, frames, call, format>>
everything == <<allVars, formatVars>>

FormatStep == {"idle", "prefix", "firstItem", "properties", "expand", "json",
               "retry", "asJson", "result", "done"}

\* trailing: m_removeTrailingSpaceAfterRecursionLevel.  mark: oldOutputSize.
\* start: pbPropStart.  rendering: what AddProperty writes as JSON.  hurt:
\* whether memory ran out or a callback failed.
NoFormat ==
    [at |-> "idle", message |-> FALSE, trailing |-> MaxRecursionLimit, mark |-> 0,
     start |-> 0, hurt |-> FALSE,
     rendering |-> [index |-> 0, printf |-> FALSE, back |-> 0]]

NoFormatCall ==
    [kind |-> "None", prefix |-> << >>, message |-> NoMessage, suffix |-> FALSE,
     shown |-> << >>]

FormatInit ==
    /\ JsonInit
    /\ scratch = << >>
    /\ props = << >>
    /\ frames = << >>
    /\ call = NoFormatCall
    /\ format = NoFormat

Unmoved == <<event, position, stackCapacity, returned, sibling, settings, list>>

-----------------------------------------------------------------------------
(* The calls. *)

FormatAt(step) == format.at = step
NoFormatting   == FormatAt("idle") \/ FormatAt("done")

\* Any other operation; it invalidates the string the last call returned.
OtherOperation ==
    /\ NoFormatting
    /\ Next
    /\ ListFollowsEvent
    /\ call' = NoFormatCall
    /\ format' = NoFormat
    /\ output' = << >>
    /\ scratch' = << >>
    /\ props' = << >>
    /\ frames' = << >>
    /\ UNCHANGED <<json, request>>

\* Where a call goes after its prefix.
AfterPrefix(c) ==
    CASE c.kind = "Prefix"                               -> "result"
      [] c.kind = "Message"                              -> "firstItem"
      [] c.kind = "Event" /\ c.message # NoMessage       -> "firstItem"
      [] c.kind = "Event" /\ c.message = NoMessage       -> "asJson"

Begin(c, first) ==
    /\ NoFormatting
    /\ Idle
    /\ subState # "None"
    /\ call' = c
    /\ format' = [NoFormat EXCEPT !.at = first]
    /\ output' = << >>
    /\ scratch' = << >>
    /\ props' = << >>
    /\ frames' = << >>
    /\ UNCHANGED <<json, request>>

BeginFromReset(c) ==
    /\ Begin(c, IF c.prefix # << >> THEN "prefix" ELSE AfterPrefix(c))
    /\ ResetImpl(event)
    /\ UNCHANGED <<event, integerValues, valuesCapacity, list>>

FormatCurrentEvent(prefix, message, suffix, shown) ==
    BeginFromReset([kind |-> "Event", prefix |-> prefix, message |-> message,
                    suffix |-> suffix, shown |-> shown])

FormatCurrentEventWithMessage(prefix, message) ==
    BeginFromReset([NoFormatCall EXCEPT !.kind = "Message", !.prefix = prefix,
                                        !.message = message])

FormatCurrentEventPrefix(prefix) ==
    /\ Begin([NoFormatCall EXCEPT !.kind = "Prefix", !.prefix = prefix], "prefix")
    /\ UNCHANGED <<vars, list>>

-----------------------------------------------------------------------------
(***************************************************************************)
(* A frame is a call of AddFormatImpl: the format string, which starts in  *)
(* the scratch buffer or is the caller's; the next character; the          *)
(* recursion limit; and what to do when the call returns: the size to      *)
(* which the scratch buffer goes back, and the property, if any, that is   *)
(* no longer in use.                                                       *)
(***************************************************************************)
CallersFrame(text, limit) ==
    [inScratch |-> FALSE, text |-> text, i |-> 1, limit |-> limit, back |-> 0, index |-> 0]

ScratchFrame(limit, index) ==
    [inScratch |-> TRUE, text |-> << >>, i |-> Len(scratch) + 1, limit |-> limit,
     back |-> Len(scratch), index |-> index]

Frame == Last(frames)

\* p[i], where p is m_scratchBuffer.data() or the caller's nul-terminated string.
TokenAt(i) ==
    LET p == IF Frame.inScratch THEN scratch ELSE Frame.text
    IN  IF i \in DOMAIN p THEN p[i] ELSE Nul

Token   == TokenAt(Frame.i)
Consume == [frames EXCEPT ![Len(frames)].i = @ + 1]

Expanding == FormatAt("expand")

-----------------------------------------------------------------------------
(* How a call ends. *)

\* Mutant: goes on whether the message or the prefix was expanded.
GoToDone_EvenPrefix(status, hurt) ==
    format' = [format EXCEPT
                 !.hurt = @ \/ hurt,
                 !.at = IF call.kind = "Event" /\ status = "MR_MID_NOT_FOUND"
                        THEN "retry" ELSE "result"]

\* goto Done.  FormatCurrentEvent goes on from there when the message refers to
\* a parameter message that does not exist.
GoToDone(status, hurt) ==
    format' = [format EXCEPT
                 !.hurt = @ \/ hurt,
                 !.at = IF /\ call.kind = "Event" /\ format.message
                           /\ status = "MR_MID_NOT_FOUND" THEN "retry" ELSE "result"]

Abandon(status, hurt) ==
    /\ lastError' = status
    /\ GoToDone(status, hurt)
    /\ UNCHANGED <<Unmoved, jsonVars, scratch, props, frames, call>>

\* A buffer cannot grow: the output, the scratch buffer, m_nameBuffer or m_propInfo.
FormatOutOfMemory ==
    /\ \/ format.at \in {"prefix", "firstItem", "asJson"}
       \/ FormatAt("expand") /\ Token # Nul
    /\ Abandon("OUTOFMEMORY", TRUE)

\* Mutant: the scratch buffer is not cleared.
RetryAsJson_KeepsScratch ==
    /\ FormatAt("retry")
    /\ output' = SubSeq(output, 1, format.mark)
    /\ frames' = << >>
    /\ ResetImpl(event)
    /\ format' = [format EXCEPT !.at = "asJson"]
    /\ UNCHANGED <<event, integerValues, valuesCapacity, list, json, request, scratch, props, call>>

\* Mutant: what was written of the message stays in the output.
RetryAsJson_KeepsOutput ==
    /\ FormatAt("retry")
    /\ scratch' = << >>
    /\ frames' = << >>
    /\ ResetImpl(event)
    /\ format' = [format EXCEPT !.at = "asJson"]
    /\ UNCHANGED <<event, integerValues, valuesCapacity, list, jsonVars, props, call>>

\* Mutant: the event is tried again with its message.
RetryAsJson_SameMessage ==
    /\ FormatAt("retry")
    /\ output' = SubSeq(output, 1, format.mark)
    /\ scratch' = << >>
    /\ frames' = << >>
    /\ ResetImpl(event)
    /\ format' = [format EXCEPT !.at = "firstItem"]
    /\ UNCHANGED <<event, integerValues, valuesCapacity, list, json, request, props, call>>

\* "Event had a message, but we failed to resolve a parameter string."
RetryAsJson ==
    /\ FormatAt("retry")
    /\ output' = SubSeq(output, 1, format.mark)
    /\ scratch' = << >>
    /\ frames' = << >>
    /\ ResetImpl(event)
    /\ format' = [format EXCEPT !.at = "asJson"]
    /\ UNCHANGED <<event, integerValues, valuesCapacity, list, json, request, props, call>>

AddCurrentEventAsJson ==
    /\ FormatAt("asJson")
    /\ output' = Append(output, <<"{">>)
    /\ json' = [NoJson EXCEPT !.at = "first", !.depth = 1, !.includeName = TRUE,
                              !.mark = Len(output) + 1]
    /\ request' = [NoRequest EXCEPT !.event = TRUE, !.suffix = call.suffix, !.shown = call.shown]
    /\ format' = [format EXCEPT !.at = "json"]
    /\ UNCHANGED <<vars, list, scratch, props, frames, call>>

\* StringViewResult: the nul terminator may need memory too.
FormatResult ==
    /\ FormatAt("result")
    /\ \/ /\ returned' = (lastError = "SUCCESS")
          /\ UNCHANGED lastError
          /\ format' = [format EXCEPT !.at = "done"]
       \/ /\ lastError = "SUCCESS"
          /\ returned' = FALSE
          /\ lastError' = "OUTOFMEMORY"
          /\ format' = [format EXCEPT !.at = "done", !.hurt = TRUE]
    /\ UNCHANGED <<event, position, stackCapacity, sibling, settings, list, jsonVars,
                   scratch, props, frames, call>>

-----------------------------------------------------------------------------
(* AddPrefix and AddCurrentEvent: what %1, %2, ... refer to. *)

FieldInfo(n) ==
    [type |-> "field", index |-> n, pos |-> 0, size |-> 0, inType |-> "NULL", inUse |-> FALSE]

ValueInfo(i) ==
    [type |-> "value", index |-> i, pos |-> item.pos, size |-> item.cooked,
     inType |-> item.type, inUse |-> FALSE]

JsonInfo(i, start) ==
    [type |-> "json", index |-> i, pos |-> start, size |-> 0, inType |-> "NULL",
     inUse |-> FALSE]

AddPrefix ==
    /\ FormatAt("prefix")
    /\ props' = [n \in 1 .. 9 |-> FieldInfo(n)]
    /\ frames' = <<CallersFrame(call.prefix, 0)>>
    /\ format' = [format EXCEPT !.at = "expand"]
    /\ UNCHANGED <<vars, list, jsonVars, scratch, call>>

\* A move that leaves an error in m_lastError ends the call.
GoOnAfterMove(next) ==
    /\ IF lastError' = "SUCCESS" THEN format' = next
       ELSE GoToDone(lastError', lastError' = "OUTOFMEMORY")
    /\ UNCHANGED <<event, settings, list, jsonVars, scratch, frames, call>>

MoveToFirstItem ==
    /\ FormatAt("firstItem")
    /\ Move
    /\ props' = << >>
    /\ UNCHANGED sibling
    /\ GoOnAfterMove([format EXCEPT !.at = "properties", !.message = TRUE,
                                    !.mark = Len(output),
                                    !.trailing = IF call.kind = "Event" THEN InitialRecursionLimit
                                                 ELSE MaxRecursionLimit])

NextPropertyOfMessage ==
    FormatAt("properties") /\ Idle /\ Len(props) < event.tei.TopLevelPropertyCount

SimpleProperty ==
    /\ NextPropertyOfMessage
    /\ subState \in ValueSubStates
    /\ Move
    /\ props' = Append(props, ValueInfo(Len(props)))
    /\ UNCHANGED sibling
    /\ GoOnAfterMove(format)

\* MoveNextSibling, and the property when it returns.
SkipProperty(start) ==
    /\ props' = IF sibling'.running THEN props ELSE Append(props, JsonInfo(Len(props), start))
    /\ GoOnAfterMove([format EXCEPT !.start = start])

ComplexProperty ==
    /\ NextPropertyOfMessage
    /\ subState \notin ValueSubStates
    /\ SkipSimpleArray(0) \/ MoveInLoop(0)
    /\ SkipProperty(dataNext)

ComplexPropertyLoop ==
    /\ FormatAt("properties")
    /\ sibling.running
    /\ SkipSimpleArray(sibling.depth) \/ MoveInLoop(sibling.depth)
    /\ SkipProperty(format.start)

ExpandMessage ==
    /\ FormatAt("properties")
    /\ Idle
    /\ Len(props) = event.tei.TopLevelPropertyCount
    /\ frames' = <<CallersFrame(call.message, InitialRecursionLimit)>>
    /\ format' = [format EXCEPT !.at = "expand"]
    /\ UNCHANGED <<vars, list, jsonVars, scratch, props, call>>

-----------------------------------------------------------------------------
(* AddFormatImpl, by what it finds at p[i]. *)

Emit(tokens) ==
    /\ output' = output \o tokens
    /\ frames' = Consume
    /\ lastError' = "SUCCESS"
    /\ UNCHANGED <<Unmoved, json, request, scratch, props, call, format>>

\* Plain text, and AppendVariable: a %!NAME! known or not.
ExpandText ==
    /\ Expanding
    /\ Token # Nul /\ ~IsPropertyRef(Token) /\ ~IsParameterRef(Token)
    /\ Emit(<<Token>>)

WithoutTrailingSpace ==
    IF Frame.limit = format.trailing /\ Frame.i > 1 /\ TokenAt(Frame.i - 1) = Space
    THEN Front(output) ELSE output

\* Mutant: the nested call's text stays in the scratch buffer.
ReturnToFrame_KeepsText ==
    /\ Len(frames) > 1
    /\ props' = IF Frame.index = 0 THEN props ELSE [props EXCEPT ![Frame.index].inUse = FALSE]
    /\ UNCHANGED <<scratch, format>>

\* A nested call returns to the one that made it.
ReturnToFrame ==
    /\ Len(frames) > 1
    /\ scratch' = SubSeq(scratch, 1, Frame.back)
    /\ props' = IF Frame.index = 0 THEN props ELSE [props EXCEPT ![Frame.index].inUse = FALSE]
    /\ UNCHANGED format

ReturnToCaller ==
    /\ Len(frames) = 1
    /\ format' = [format EXCEPT !.at = IF format.message THEN "result" ELSE AfterPrefix(call)]
    /\ UNCHANGED <<scratch, props>>

EndOfFormat ==
    /\ Expanding
    /\ Token = Nul
    /\ output' = WithoutTrailingSpace
    /\ ReturnToFrame \/ ReturnToCaller
    /\ frames' = Front(frames)
    /\ lastError' = "SUCCESS"
    /\ UNCHANGED <<Unmoved, json, request, call>>

\* A nested call of AddFormatImpl for a text that is put in the scratch buffer.
ExpandFromScratch(text, index) ==
    /\ scratch' = Append(scratch \o text, Nul)
    /\ frames' = Append(Consume, ScratchFrame(Frame.limit - 1, index))
    /\ lastError' = "SUCCESS"
    /\ UNCHANGED <<Unmoved, jsonVars, call, format>>

\* GetParameterMessage; for a number that has no message it answers what the
\* default callback answers for all of them.
Parameter ==
    IF Token[2] \in DOMAIN Parameters THEN Parameters[Token[2]]
    ELSE [status |-> "MR_MID_NOT_FOUND", text |-> << >>]

ParameterMissing ==
    /\ Expanding
    /\ IsParameterRef(Token)
    /\ Parameter.status # "SUCCESS"
    /\ Abandon(Parameter.status, FALSE)

\* Mutant: the message is expanded whatever the recursion limit.
ParameterMessage_Unlimited ==
    /\ Expanding
    /\ IsParameterRef(Token)
    /\ Parameter.status = "SUCCESS"
    /\ ExpandFromScratch(Trimmed(Parameter.text), 0)
    /\ UNCHANGED props

ParameterMessage ==
    /\ Expanding
    /\ IsParameterRef(Token)
    /\ Parameter.status = "SUCCESS"
    /\ \/ Frame.limit = 0 /\ Emit(Trimmed(Parameter.text))
       \/ Frame.limit > 0 /\ ExpandFromScratch(Trimmed(Parameter.text), 0) /\ UNCHANGED props

-----------------------------------------------------------------------------
(* AddProperty. *)

Index == Token[2]
FormatOf == Token[3]

PropertyIndexOutOfRange ==
    /\ Expanding
    /\ IsPropertyRef(Token)
    /\ Index \notin DOMAIN props
    /\ Emit(<<IndexOutOfRange(Index)>>)

PropertyInUse ==
    /\ Expanding
    /\ IsPropertyRef(Token)
    /\ Index \in DOMAIN props
    /\ props[Index].inUse
    /\ Emit(<<IndexRecursion(Index)>>)

AtProperty(types) ==
    /\ Expanding
    /\ IsPropertyRef(Token)
    /\ Index \in DOMAIN props
    /\ ~props[Index].inUse
    /\ props[Index].type \in types

\* AddValueWithMapName, whose result is ValueType_JsonString for a string.
IsString(pi) == pi.type = "value" /\ pi.inType \in {"UNICODESTRING", "ANSISTRING"}

StringOf(pi) ==
    LET w == IF pi.inType = "UNICODESTRING" THEN 2 ELSE 1
    IN  [k \in 1 .. pi.size \div w |-> Characters[event.UserData[pi.pos + w * (k - 1) + 1]]]

ReplaceNulWithSpace(text) == [k \in DOMAIN text |-> IF text[k] = Nul THEN Space ELSE text[k]]

Rendered(pi) ==
    CASE IsString(pi)     -> ReplaceNulWithSpace(StringOf(pi))
      [] pi.type = "field" -> <<Field(pi.index)>>
      [] OTHER             -> <<Value(pi.index, pi.pos, pi.size)>>

Recurses(pi) == IsString(pi) /\ FormatOf = "default" /\ Frame.limit > 0

PropertyAsText ==
    /\ AtProperty({"field", "value"})
    /\ LET pi == props[Index]
       IN  /\ ~Recurses(pi)
           /\ Emit(IF FormatOf = "printf" THEN <<Printf(Rendered(pi))>> ELSE Rendered(pi))

PropertyRecurses ==
    /\ AtProperty({"value"})
    /\ Recurses(props[Index])
    /\ props' = [props EXCEPT ![Index].inUse = TRUE]
    /\ ExpandFromScratch(Rendered(props[Index]), Index)

PropertyFails ==
    /\ AtProperty({"value"})
    /\ Abandon("CALLBACK_ERROR", TRUE)

\* "Move enumerator to the property, load it."  With a printf format the JSON
\* goes to the scratch buffer and the output serves as the scratch buffer: the
\* two change places until AddCurrentItemAsJsonAndMoveNext returns.
PropertyAsJson ==
    /\ AtProperty({"json"})
    /\ NextProperty([top EXCEPT !.PropertyIndex = props[Index].index], props[Index].pos, stack)
    /\ props' = [props EXCEPT ![Index].inUse = TRUE]
    /\ frames' = Consume
    /\ IF lastError' = "SUCCESS"
       THEN /\ json' = [NoJson EXCEPT !.at = "text"]
            /\ request' = NoRequest
            /\ format' = [format EXCEPT !.at = "json", !.rendering =
                            [index |-> Index, printf |-> FormatOf = "printf",
                             back |-> Len(scratch)]]
            /\ IF FormatOf = "printf" THEN output' = scratch /\ scratch' = output
                                   ELSE UNCHANGED <<output, scratch>>
       ELSE GoToDone(lastError', FALSE) /\ UNCHANGED <<jsonVars, scratch>>
    /\ UNCHANGED <<event, stackCapacity, sibling, settings, list, call>>

\* AddCurrentItemAsJsonAndMoveNext.
WriteJson ==
    /\ FormatAt("json")
    /\ \/ FirstMove
       \/ NextMove
       \/ WriteValue
       \/ WriteArrayBegin
       \/ WriteStructBegin
       \/ WriteEnd
       \/ ValueFails
       \/ OutputOutOfMemory
       \/ WriteMeta
    /\ UNCHANGED formatVars

JsonHurts == lastError \in {"OUTOFMEMORY", "CALLBACK_ERROR"}

JsonFails ==
    /\ FormatAt("json")
    /\ At("result")
    /\ lastError # "SUCCESS"
    /\ json' = NoJson
    /\ GoToDone(lastError, JsonHurts)
    /\ UNCHANGED <<vars, list, output, request, scratch, props, frames, call>>

JsonEventEnds ==
    /\ FormatAt("json")
    /\ At("result")
    /\ lastError = "SUCCESS"
    /\ frames = << >>
    /\ json' = NoJson
    /\ format' = [format EXCEPT !.at = "result"]
    /\ UNCHANGED <<vars, list, output, request, scratch, props, frames, call>>

\* No room for the nul terminator or for what printf writes.
JsonPropertyOutOfMemory ==
    /\ FormatAt("json")
    /\ At("result")
    /\ lastError = "SUCCESS"
    /\ frames # << >>
    /\ format.rendering.printf
    /\ lastError' = "OUTOFMEMORY"
    /\ json' = NoJson
    /\ GoToDone("OUTOFMEMORY", TRUE)
    /\ UNCHANGED <<Unmoved, output, request, scratch, props, frames, call>>

JsonPropertyEnds ==
    LET r == format.rendering
    IN  /\ FormatAt("json")
        /\ At("result")
        /\ lastError = "SUCCESS"
        /\ frames # << >>
        /\ json' = NoJson
        /\ IF r.printf
           THEN /\ output' = Append(scratch, Printf(SubSeq(output, r.back + 1, Len(output))))
                /\ scratch' = SubSeq(output, 1, r.back)
           ELSE UNCHANGED <<output, scratch>>
        /\ props' = [props EXCEPT ![r.index].inUse = FALSE]
        /\ format' = [format EXCEPT !.at = "expand", !.rendering = NoFormat.rendering]
        /\ UNCHANGED <<vars, list, request, frames, call>>

-----------------------------------------------------------------------------
FormatStepTaken ==
    \/ AddPrefix
    \/ MoveToFirstItem
    \/ SimpleProperty
    \/ ComplexProperty
    \/ ComplexPropertyLoop
    \/ ExpandMessage
    \/ ExpandText
    \/ EndOfFormat
    \/ ParameterMissing
    \/ ParameterMessage
    \/ PropertyIndexOutOfRange
    \/ PropertyInUse
    \/ PropertyAsText
    \/ PropertyRecurses
    \/ PropertyFails
    \/ PropertyAsJson
    \/ WriteJson
    \/ JsonFails
    \/ JsonEventEnds
    \/ JsonPropertyOutOfMemory
    \/ JsonPropertyEnds
    \/ RetryAsJson
    \/ AddCurrentEventAsJson
    \/ FormatOutOfMemory
    \/ FormatResult

FormatCall ==
    \E prefix \in PrefixFormats :
        \/ FormatCurrentEventPrefix(prefix)
        \/ \E message \in Messages : FormatCurrentEventWithMessage(prefix, message)
        \/ \E message \in Messages \cup {NoMessage}, shown \in Shown :
             FormatCurrentEvent(prefix, message, TRUE, shown)

FormatNext ==
    \/ OtherOperation
    \/ FormatCall
    \/ FormatStepTaken

\* A call runs to its return.
FormatSpec == FormatInit /\ [][FormatNext]_everything /\ WF_everything(FormatStepTaken)

-----------------------------------------------------------------------------
(* Properties. *)

FormatReturned == FormatAt("done") /\ returned

Frames ==
    [inScratch: BOOLEAN, text: {call.prefix, call.message, << >>}, i: Nat \ {0},
     limit: 0 .. InitialRecursionLimit, back: 0 .. Len(scratch), index: 0 .. Len(props)]

\* Every variable has its type, and the enumerator's keep theirs when a call
\* moves it back to a property; no frame goes below a recursion limit of 0.
FormatTypeOK ==
    /\ TypeOK
    /\ NeverAtNoItem
    /\ format.at \in FormatStep
    /\ format.mark \in Nat
    /\ ~format.rendering.printf => format.mark <= Len(output)
    /\ FormatAt("expand") => frames \in Seq(Frames) \ {<< >>}

\* The ASSERTs of FormatContext and FormatCurrentEvent: an event's properties
\* are read one after the other to the last item, a property is read again from
\* the top level, every path gives the scratch buffer back empty, and a trailing
\* space that is removed from the output is one.
FormatAsserts ==
    /\ NextPropertyOfMessage => AtItem /\ stack = << >> /\ top.PropertyIndex = Len(props)
    /\ FormatAt("properties") /\ Idle /\ Len(props) = event.tei.TopLevelPropertyCount =>
         subState = "AfterLastItem"
    /\ AtProperty({"json"}) => stack = << >>
    /\ FormatAt("asJson") => scratch = << >>
    /\ (FormatAt("result") \/ FormatAt("done")) /\ lastError = "SUCCESS" => scratch = << >>
    /\ Expanding /\ Token = Nul /\ WithoutTrailingSpace # output => Last(output) = Space

\* The frames whose text is in the scratch buffer share it as a stack: each has
\* a nul-terminated part of its own, wherever its reading has got to, that ends
\* where the part of the next one starts.  A property is in use as long as a
\* frame expands it, and no longer.
ScratchEnd(k) == IF k = Len(frames) THEN Len(scratch) ELSE frames[k + 1].back

FramesKeepTheirText ==
    Expanding =>
      /\ \A k \in 1 .. Len(frames) :
           IF frames[k].inScratch
           THEN /\ frames[k].i \in frames[k].back + 1 .. ScratchEnd(k)
                /\ \A i \in frames[k].back + 1 .. ScratchEnd(k) :
                     scratch[i] = Nul <=> i = ScratchEnd(k)
           ELSE k = 1 /\ ScratchEnd(k) = 0
      /\ {n \in DOMAIN props : props[n].inUse} =
           {frames[k].index : k \in DOMAIN frames} \ {0}

\* The result of a call and LastError agree, and a call does not succeed after
\* memory ran out or a callback failed.
FormatReports ==
    FormatAt("done") => /\ returned <=> lastError = "SUCCESS"
                        /\ format.hurt => ~returned

\* Every call returns, with messages and values that refer to themselves.
FormatReturns == ~NoFormatting ~> NoFormatting
=============================================================================

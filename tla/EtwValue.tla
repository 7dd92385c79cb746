------------------------------ MODULE EtwValue -------------------------------
(***************************************************************************)
(* Formatting one value: FormatValue, FormatValueWithMapInfo,              *)
(* FormatValueWithMapName and FormatCurrentValue, which leave the text in  *)
(* m_stringBuffer; AddCurrentValue and AddValueWithMapName when they add   *)
(* to a message, with or without a printf format; AddCurrentValueAsJson.   *)
(*                                                                         *)
(* A call looks for a map (the step "map"), for an entry of the map        *)
(* ("mapInfo", "bitmap"), for the message of a result code ("code"), and   *)
(* formats the plain value ("value").  Each ends with a list of appends,   *)
(* the steps of EtwText, the first failure of which ends the call.  A      *)
(* message that has a printf format for the value ("printf") prints it as  *)
(* a number, or its text from the scratch buffer ("asString", "printed").  *)
(***************************************************************************)
EXTENDS EtwText, EtwPrintf

CONSTANTS
    Calls(_, _),   (* the calls that are made with a timestamp format and a bias:
                      [op, entry, value, map, ahead, format]                      *)
    NoMap,         (* null pMapInfo                                               *)
    MapSizes       (* the sizes that GetEventMapInformation asks for, in units of
                      the first capacity of m_mapBuffer                           *)

VARIABLES
    call,          (* the call that runs or ran last                              *)
    parsed,        (* the printf format that it has, or NoPrintf                  *)
    step,          (* where it is                                                 *)
    todo, made,    (* the appends of this step, and how many have been made       *)
    type,          (* the ValueType that is returned if they succeed              *)
    bitmap,        (* the loop of FormatMapValue                                  *)
    shown,         (* as what the value is shown: "map", "code", "value", or
                      "printf" when it is printed as a number                     *)
    lastError,     (* m_lastError                                                 *)
    mapCapacity,   (* m_mapBuffer.capacity()                                      *)
    cbMapInfo      (* the size that it was last told to have                      *)

callVars  == <<call, parsed, step, todo, made, type, bitmap, shown>>
mapVars   == <<mapCapacity, cbMapInfo>>
valueVars == <<callVars, lastError, mapVars>>
vars      == <<textVars, settingVars, valueVars>>

\* m_stringBuffer is also the scratch buffer of a message and of JSON, which
\* are written to m_stringBuffer2.
ASSUME ValueAssumption ==
    /\ Buffers = {"m_stringBuffer", "m_stringBuffer2"}
    /\ MapSizes \subseteq Nat

\* The function that a call begins with: AddValueWithMapName,
\* AddValueWithMapInfo, AddValue or, with a format, AddProperty.
EntrySteps == {"map", "mapInfo", "value", "printf"}

WellFormedCall(c) ==
    /\ c.op \in {"Format", "Add", "AddAsJson", "Printf"}
    /\ c.entry \in EntrySteps
    /\ WellFormedValue(c.value)
    /\ c.map # NoMap => c.map.entries \in Seq([value: Nat, name: Int])
    /\ c.ahead \in Nat
    /\ c.format \in Seq(STRING)

ASSUME CallsAssumption ==
    \A format \in Formats \cup {InitialFormat}, bias \in Biases :
        \A c \in Calls(format, bias) : WellFormedCall(c)

NoCall == [op |-> "none"]
NoBits == [next |-> 1, matched |-> {}, found |-> FALSE, failed |-> FALSE]

Init ==
    /\ InitText
    /\ InitSettings
    /\ call = NoCall
    /\ parsed = NoPrintf
    /\ step = "idle"
    /\ todo = << >>
    /\ made = 0
    /\ type = "None"
    /\ bitmap = NoBits
    /\ shown = "value"
    /\ lastError = "SUCCESS"
    /\ mapCapacity = 0
    /\ cbMapInfo = 0

Stopped == status = "ASSERT"          \* a debug build stops at an ASSERT
Running == step \notin {"idle", "returned", "cleared"} /\ ~Stopped

-----------------------------------------------------------------------------
(* Beginning, and making the appends of a step. *)

\* Where the text of the value goes: FormatX to m_stringBuffer, a message to
\* its output, and JSON and a string for printf to the scratch buffer first.
IsFormatted == parsed # NoPrintf
IsProperty  == call.op \in {"Add", "Printf"}
Target == IF IsProperty /\ ~IsFormatted THEN "m_stringBuffer2" ELSE "m_stringBuffer"

At(to, appends) == [k \in 1 .. Len(appends) |-> [to |-> to, append |-> appends[k]]]

Do(appends) == todo' = At(Target, appends) /\ made' = 0

\* What a message or JSON has in its buffers already; a FormatX clears its one.
Filler(n) == Write([k \in 1 .. n |-> Ch(97)])
Ahead(c) ==
    IF c.op = "Format" THEN << >>
    ELSE At("m_stringBuffer2", <<Filler(c.ahead)>>) \o At("m_stringBuffer", <<Filler(c.ahead)>>)

\* The next operation clears the buffers that it uses (m_stringBuffer2, which
\* a FormatX leaves alone, is cleared by whatever uses it next), but not
\* m_lastError.
Clear ==
    /\ step = "returned"
    /\ ~Stopped
    /\ text' = [b \in Buffers |-> << >>]
    /\ status' = "SUCCESS"
    /\ lastError' = "Earlier"
    /\ step' = "cleared"
    /\ call' = NoCall
    /\ parsed' = NoPrintf
    /\ type' = "None"
    /\ bitmap' = NoBits
    /\ shown' = "value"
    /\ UNCHANGED <<capacity, append, settingVars, todo, made, mapVars>>

Begin ==
    /\ step \in {"idle", "cleared"}
    /\ call' \in Calls(timestampFormat, timeZoneBiasMinutes)
    /\ parsed' = IF call'.op = "Printf" THEN UsedPrintf(call'.format) ELSE NoPrintf
    /\ todo' = Ahead(call')
    /\ lastError' = "Earlier"
    /\ step' = "ahead"
    /\ UNCHANGED <<textVars, settingVars, made, type, bitmap, shown, mapVars>>

\* The steps between two appends.
Between(s) == ~Stopped /\ ~Appending /\ step = s

Made    == made = Len(todo) /\ (made > 0 => status = "SUCCESS")
Failed  == made > 0 /\ status # "SUCCESS"

MakeAppend ==
    /\ Running
    /\ ~Appending
    /\ made < Len(todo)
    /\ ~Failed
    /\ LET next == todo[made + 1]
       IN  BeginAppend(next.append.fn, next.to, next.append.chars, next.append.count)
    /\ made' = made + 1
    /\ UNCHANGED <<text, capacity, status, settingVars, call, parsed, step, todo, type, bitmap, shown,
                   lastError, mapVars>>

AppendStep ==
    /\ Running
    /\ TextNext
    /\ UNCHANGED <<settingVars, valueVars>>

\* Between two appends the text is left alone.
TextStays == UNCHANGED <<textVars, settingVars>>

GoTo(s) == step' = s /\ UNCHANGED <<call, parsed, type, bitmap, shown>>

AfterValue == CASE call.op = "AddAsJson" -> "asJson"
                [] IsFormatted -> "asString"
                [] OTHER -> "returned"

\* Mutant: the type is returned whatever LastError says.
Return_TypeAnyway(error, t) ==
    /\ lastError' = error
    /\ type' = t
    /\ step' = AfterValue
    /\ todo' = << >>
    /\ made' = 0
    /\ cbMapInfo' = 0
    /\ UNCHANGED <<call, parsed, bitmap, shown, mapCapacity>>

\* `return m_lastError == ERROR_SUCCESS ? type : ValueType_None`.
Return(error, t) ==
    /\ lastError' = error
    /\ type' = IF error = "SUCCESS" THEN t ELSE "None"
    /\ step' = AfterValue
    /\ todo' = << >>
    /\ made' = 0
    /\ cbMapInfo' = 0
    /\ UNCHANGED <<call, parsed, bitmap, shown, mapCapacity>>

AheadEnds ==
    /\ Between("ahead")
    /\ Made
    /\ GoTo(call.entry)
    /\ todo' = << >>
    /\ made' = 0
    /\ UNCHANGED <<lastError, mapVars>>
    /\ TextStays

AheadFails ==
    /\ Between("ahead")
    /\ Failed
    /\ lastError' = status
    /\ step' = "returned"
    /\ todo' = << >>
    /\ made' = 0
    /\ UNCHANGED <<call, parsed, type, bitmap, shown, mapVars>>
    /\ TextStays

-----------------------------------------------------------------------------
(* AddValueWithMapName: asks for the map until the buffer is large enough. *)

\* m_mapBuffer has no inline capacity: it doubles 8 until the map fits.
GrownTo(cb) == CHOOSE c \in {16 * 2^k : k \in 0 .. 10} : cb <= c /\ (c = 16 \/ c < 2 * cb)

MapFound ==
    /\ Between("map")
    /\ GoTo("mapInfo")
    /\ lastError' = "SUCCESS"
    /\ UNCHANGED <<todo, made, mapVars>>
    /\ TextStays

MapNotFound ==
    /\ Between("map")
    /\ GoTo("value")
    /\ lastError' = "NOT_FOUND"
    /\ UNCHANGED <<todo, made, mapVars>>
    /\ TextStays

MapFails ==
    /\ Between("map")
    /\ Return("CALLBACK_ERROR", "None")
    /\ TextStays

MapTooSmall ==
    /\ Between("map")
    /\ cbMapInfo' \in MapSizes
    /\ lastError' = "INSUFFICIENT_BUFFER"
    /\ GoTo("mapTooSmall")
    /\ UNCHANGED <<todo, made, mapCapacity>>
    /\ TextStays

\* Mutant: asks again, whatever size it is told.
MapWrongSize_Again ==
    /\ Between("mapTooSmall")
    /\ mapCapacity >= cbMapInfo
    /\ GoTo("map")
    /\ UNCHANGED <<todo, made, lastError, mapCapacity, cbMapInfo>>
    /\ TextStays

\* The buffer is large enough: the callback is wrong.
MapWrongSize ==
    /\ Between("mapTooSmall")
    /\ mapCapacity >= cbMapInfo
    /\ Return("INSUFFICIENT_BUFFER", "None")
    /\ TextStays

MapGrows ==
    /\ Between("mapTooSmall")
    /\ mapCapacity < cbMapInfo
    /\ mapCapacity' = GrownTo(cbMapInfo)
    /\ cbMapInfo' = 0
    /\ GoTo("map")
    /\ UNCHANGED <<todo, made, lastError>>
    /\ TextStays

MapOutOfMemory ==
    /\ Between("mapTooSmall")
    /\ mapCapacity < cbMapInfo
    /\ Return("OUTOFMEMORY", "None")
    /\ TextStays

-----------------------------------------------------------------------------
(* AddValueWithMapInfo, and FormatMapValue. *)

Number32 == call.value.data[1]
HasMap   == call.map # NoMap /\ MayHaveMap(call.value)

Shows(t, appends) == /\ type' = t
                     /\ Do(appends)
                     /\ step' = "appending"

MapNotUsed ==
    /\ Between("mapInfo")
    /\ ~HasMap
    /\ GoTo("value")
    /\ UNCHANGED <<todo, made, lastError, mapVars>>
    /\ TextStays

ValueMap ==
    /\ Between("mapInfo")
    /\ HasMap
    /\ IsValueMap(call.map)
    /\ Shows("JsonString", <<Printf(ValueMapText(call.map, MapInHex(call.value), Number32))>>)
    /\ shown' = "map"
    /\ UNCHANGED <<call, parsed, bitmap, lastError, mapVars>>
    /\ TextStays

BitMap ==
    /\ Between("mapInfo")
    /\ HasMap
    /\ IsBitMap(call.map)
    /\ step' = "bitmap"
    /\ shown' = "map"
    /\ UNCHANGED <<call, parsed, todo, made, type, bitmap, lastError, mapVars>>
    /\ TextStays

\* FormatMapValue knows no such map: ERROR_NOT_FOUND.
OtherMap ==
    /\ Between("mapInfo")
    /\ HasMap
    /\ ~IsValueMap(call.map) /\ ~IsBitMap(call.map)
    /\ GoTo("value")
    /\ lastError' = "NOT_FOUND"
    /\ UNCHANGED <<todo, made, mapVars>>
    /\ TextStays

\* Mutant: the bits of the last entry that matched, not of all of them.
BitMapEntry_LastOnly ==
    LET entry == call.map.entries[bitmap.next]
    IN  /\ Between("bitmap")
        /\ Made
        /\ bitmap.next <= Len(call.map.entries)
        /\ IF Matches(entry, Number32)
           THEN /\ Do(<<Printf(BitText(entry, MapInHex(call.value), Number32, ~bitmap.found))>>)
                /\ bitmap' = [bitmap EXCEPT !.next = @ + 1, !.found = TRUE,
                                            !.matched = Bits(entry.value)]
           ELSE /\ bitmap' = [bitmap EXCEPT !.next = @ + 1]
                /\ todo' = << >>
                /\ made' = 0
        /\ UNCHANGED <<call, parsed, step, type, shown, lastError, mapVars>>
        /\ TextStays

BitMapEntry ==
    LET entry == call.map.entries[bitmap.next]
    IN  /\ Between("bitmap")
        /\ Made
        /\ bitmap.next <= Len(call.map.entries)
        /\ IF Matches(entry, Number32)
           THEN /\ Do(<<Printf(BitText(entry, MapInHex(call.value), Number32, ~bitmap.found))>>)
                /\ bitmap' = [bitmap EXCEPT !.next = @ + 1, !.found = TRUE,
                                            !.matched = @ \cup Bits(entry.value)]
           ELSE /\ bitmap' = [bitmap EXCEPT !.next = @ + 1]
                /\ todo' = << >>
                /\ made' = 0
        /\ UNCHANGED <<call, parsed, step, type, shown, lastError, mapVars>>
        /\ TextStays

\* The loop has ended, or an append in it failed; the code cannot tell the
\* failure from no entry having matched.
BitMapEnds ==
    /\ Between("bitmap")
    /\ (Made /\ bitmap.next > Len(call.map.entries)) \/ Failed
    /\ bitmap' = [bitmap EXCEPT !.failed = Failed]
    /\ LET end == BitMapEnd(MapInHex(call.value), Number32, bitmap.matched,
                            bitmap.found /\ ~Failed)
       IN  Shows("JsonString", <<IF end = <<Mark("]")>> THEN Write(end) ELSE Printf(end)>>)
    /\ UNCHANGED <<call, parsed, shown, lastError, mapVars>>
    /\ TextStays

-----------------------------------------------------------------------------
(* AddValue. *)

WrongSize ==
    /\ Between("value")
    /\ ~SizeIsValid(call.value)
    /\ Return("INVALID_PARAMETER", "None")
    /\ TextStays

PlainValue ==
    /\ Between("value")
    /\ SizeIsValid(call.value)
    /\ ~IsResultCode(call.value)
    /\ Shows(TypeOf(call.value),
             ValueAppends(call.value, timestampFormat.flags, timeZoneBiasMinutes))
    /\ UNCHANGED <<call, parsed, bitmap, shown, lastError, mapVars>>
    /\ TextStays

ResultCode ==
    /\ Between("value")
    /\ SizeIsValid(call.value)
    /\ IsResultCode(call.value)
    /\ GoTo("code")
    /\ UNCHANGED <<todo, made, lastError, mapVars>>
    /\ TextStays

\* FormatResultCodeValue appends a text, with a message or with "??".
CodeShown ==
    /\ Between("code")
    /\ \E isKnown \in BOOLEAN :
         Shows("JsonString",
               <<Printf(ResultCodeText(DomainOf(call.value), CodeInHex(call.value), Number32, isKnown))>>)
    /\ shown' = "code"
    /\ UNCHANGED <<call, parsed, bitmap, lastError, mapVars>>
    /\ TextStays

\* The callbacks that the program supplies may return ERROR_NOT_FOUND.
CodeNotFound ==
    /\ Between("code")
    /\ GoTo("fallBack")
    /\ lastError' = "NOT_FOUND"
    /\ UNCHANGED <<todo, made, mapVars>>
    /\ TextStays

\* goto DefaultINT32 and DefaultUINT32, labels of the decimal default.
CodeFallsBack ==
    /\ Between("fallBack")
    /\ call.value.inType # "HEXINT32"
    /\ Shows("JsonLiteral", NumberAppends(call.value))
    /\ UNCHANGED <<call, parsed, bitmap, shown, lastError, mapVars>>
    /\ TextStays

\* goto DefaultHEXINT32, a label before the switch that led here.
CodeJumpsBack ==
    /\ Between("fallBack")
    /\ call.value.inType = "HEXINT32"
    /\ GoTo("code")
    /\ UNCHANGED <<todo, made, lastError, mapVars>>
    /\ TextStays

\* AddSimplePropInfo: ReplaceNulWithSpace, for a text that may have some.
NulsReplaced(s) ==
    IF IsProperty /\ type = "JsonString"
    THEN [k \in 1 .. Len(s) |-> IF k > call.ahead /\ s[k] = Nul THEN Space ELSE s[k]]
    ELSE s

Appended ==
    /\ Between("appending")
    /\ Made
    /\ Return("SUCCESS", type)
    /\ text' = [text EXCEPT ![Target] = NulsReplaced(@)]
    /\ UNCHANGED <<capacity, append, status, settingVars>>

AppendFails ==
    /\ Between("appending")
    /\ Failed
    /\ Return(status, type)
    /\ TextStays

-----------------------------------------------------------------------------
(* AddCurrentValueAsJson, after AddCurrentValue(scratchBuffer). *)

\* pchValue, cchValue
ScratchText == SubSeq(text["m_stringBuffer"], call.ahead + 1, Len(text["m_stringBuffer"]))

JsonAppend ==
    CASE type = "JsonCleanString" -> Write(<<QuoteMark>> \o ScratchText \o <<QuoteMark>>)
      [] type = "JsonString"      -> [fn |-> "json", chars |-> ScratchText, count |-> 0]
      [] type = "JsonLiteral"     -> Write(ScratchText)

JsonAppends ==
    /\ Between("asJson")
    /\ type # "None"
    /\ todo' = At("m_stringBuffer2", <<JsonAppend>>)
    /\ made' = 0
    /\ step' = "inJson"
    /\ UNCHANGED <<call, parsed, type, bitmap, shown, lastError, mapVars>>
    /\ TextStays

\* scratchBuffer.resize_unchecked(scratchOldSize)
JsonEnd ==
    /\ \/ Between("asJson") /\ type = "None" /\ UNCHANGED lastError
       \/ Between("inJson") /\ (Made \/ Failed) /\ lastError' = status
    /\ text' = [text EXCEPT !["m_stringBuffer"] = SubSeq(@, 1, call.ahead)]
    /\ type' = IF lastError' = "SUCCESS" THEN type ELSE "None"
    /\ step' = "returned"
    /\ todo' = << >>
    /\ made' = 0
    /\ UNCHANGED <<call, parsed, bitmap, shown, mapVars, capacity, append, status, settingVars>>

-----------------------------------------------------------------------------
(***************************************************************************)
(* AddProperty with a printf format, for a property that is printed as a   *)
(* value.  `type` is then None where AddProperty returns false.            *)
(***************************************************************************)
\* `if (pMapName != nullptr)`
NameStep == IF call.map = NoMap THEN "value" ELSE "map"

PrintfIgnored ==
    /\ Between("printf")
    /\ ~IsFormatted
    /\ GoTo(NameStep)
    /\ UNCHANGED <<todo, made, lastError, mapVars>>
    /\ TextStays

PrintfNumber ==
    /\ Between("printf")
    /\ IsFormatted
    /\ MatchesType(parsed.category, call.value)
    /\ type' = "JsonString"
    /\ todo' = At("m_stringBuffer2", <<Printf(Printed(parsed, call.value))>>)
    /\ made' = 0
    /\ step' = "printed"
    /\ shown' = "printf"
    /\ UNCHANGED <<call, parsed, bitmap, lastError, mapVars>>
    /\ TextStays

\* "Render item to m_scratchBuffer, then printf to m_output."
PrintfText ==
    /\ Between("printf")
    /\ IsFormatted
    /\ MatchesType(parsed.category, call.value) => MayFailToConvert(parsed.category, call.value)
    /\ GoTo(NameStep)
    /\ UNCHANGED <<todo, made, lastError, mapVars>>
    /\ TextStays

PrintfString ==
    /\ Between("asString")
    /\ type # "None"
    /\ todo' = At("m_stringBuffer", <<Write(<<Nul>>)>>)
               \o At("m_stringBuffer2", <<Printf(PrintedString(MakeStringFormat(parsed), ScratchText))>>)
    /\ made' = 0
    /\ step' = "printed"
    /\ UNCHANGED <<call, parsed, type, bitmap, shown, lastError, mapVars>>
    /\ TextStays

PrintfNoString ==
    /\ Between("asString")
    /\ type = "None"
    /\ GoTo("returned")
    /\ UNCHANGED <<todo, made, lastError, mapVars>>
    /\ TextStays

PrintfEnds ==
    /\ Between("printed")
    /\ Made
    /\ lastError' = "SUCCESS"
    /\ text' = [text EXCEPT !["m_stringBuffer"] = SubSeq(@, 1, call.ahead)]
    /\ step' = "returned"
    /\ todo' = << >>
    /\ made' = 0
    /\ UNCHANGED <<call, parsed, type, bitmap, shown, mapVars, capacity, append, status, settingVars>>

\* The scratch buffer keeps what it has.
PrintfFails ==
    /\ Between("printed")
    /\ Failed
    /\ lastError' = status
    /\ type' = "None"
    /\ step' = "returned"
    /\ todo' = << >>
    /\ made' = 0
    /\ UNCHANGED <<call, parsed, bitmap, shown, mapVars>>
    /\ TextStays

-----------------------------------------------------------------------------
ValueStep ==
    \/ MakeAppend
    \/ AppendStep
    \/ AheadEnds
    \/ AheadFails
    \/ MapFound
    \/ MapNotFound
    \/ MapFails
    \/ MapTooSmall
    \/ MapWrongSize
    \/ MapGrows
    \/ MapOutOfMemory
    \/ MapNotUsed
    \/ ValueMap
    \/ BitMap
    \/ OtherMap
    \/ BitMapEntry
    \/ BitMapEnds
    \/ WrongSize
    \/ PlainValue
    \/ ResultCode
    \/ CodeShown
    \/ CodeNotFound
    \/ CodeFallsBack
    \/ CodeJumpsBack
    \/ Appended
    \/ AppendFails
    \/ JsonAppends
    \/ JsonEnd
    \/ PrintfIgnored
    \/ PrintfNumber
    \/ PrintfText
    \/ PrintfString
    \/ PrintfNoString
    \/ PrintfEnds
    \/ PrintfFails

\* The settings may change between two calls.
Set ==
    /\ step = "idle"
    /\ \/ \E format \in Formats :
            /\ SetTimestampFormat(format)
            /\ lastError' = IF ValidFormat(format) THEN "SUCCESS" ELSE "INVALID_PARAMETER"
       \/ \E bias \in Biases : SetTimeZoneBiasMinutes(bias) /\ UNCHANGED lastError
    /\ UNCHANGED <<textVars, callVars, mapVars>>

Next ==
    \/ Clear
    \/ Begin
    \/ ValueStep
    \/ Set

\* A call, once made, takes its steps; nobody has to make one.
Fairness == WF_vars(ValueStep)

Spec == Init /\ [][Next]_vars /\ Fairness

-----------------------------------------------------------------------------
(* Properties. *)

Finished == step = "returned" /\ lastError = "SUCCESS"

\* The text of the value, after what was in the buffer before it.
OutputText ==
    LET b == IF call.op = "Format" THEN "m_stringBuffer" ELSE "m_stringBuffer2"
        first == IF call.op = "Format" THEN 1 ELSE call.ahead + 1
    IN  SubSeq(text[b], first, Len(text[b]))

\* The ASSERTs of AddCurrentValueAsJson and of the callers of
\* AddValueWithMapName: ValueType_None is returned exactly when LastError says
\* why, on every path through maps, result codes and partial appends.
TypeAgreesWithError ==
    step \in {"asJson", "inJson", "returned"} /\ call # NoCall =>
        /\ type = "None" <=> lastError # "SUCCESS"
        /\ lastError # "Earlier"

IsJsonString == type \in {"JsonString", "JsonCleanString"}

\* The text that the output stands for.
ValueText == IF call.op = "AddAsJson" /\ IsJsonString
             THEN JsonText(SubSeq(OutputText, 2, Len(OutputText) - 1))
             ELSE OutputText

IsJsonLiteral(s) ==
    /\ Len(s) = 1
    /\ s[1][1] \in {"%d", "%u", "%g", "true", "false"}
    /\ s[1][1] = "%g" => s[1][2] \notin NotFinite

IsQuoted(s) == Len(s) >= 2 /\ s[1] = QuoteMark /\ s[Len(s)] = QuoteMark

IsWellFormed(s) == \A k \in DOMAIN s : s[k] # Malformed

\* What is added as JSON is a JSON value: a string with both quotes, in which
\* everything that must be is escaped ("no need to escape" is right wherever
\* the code takes it for granted), or a number, true or false.
JsonValueIsValid ==
    Finished /\ call.op = "AddAsJson" =>
        IF IsJsonString THEN IsQuoted(OutputText) /\ IsWellFormed(ValueText)
                        ELSE IsJsonLiteral(OutputText)

TimeReadsBack(v, s) ==
    v.inType \in {"FILETIME", "SYSTEMTIME"} =>
        TimeIsRead(s, v.data[1], timestampFormat.flags, timeZoneBiasMinutes,
                   TimeIsUtc(v, timestampFormat.flags))

IPv6ReadsBack(v, s) ==
    v.inType = "BINARY" /\ v.outType = "IPV6" /\ v.cb = 16 => AddressIsRead(Groups(v, 1), s)

\* "address", "address%scope" or "[address%scope]:port"
SockAddrReadsBack(v, s) ==
    LET isPort == v.data[2] # 0
        end    == {k \in 1 .. Len(s) : s[k] \in {Mark("%"), Mark("]")}} \cup {Len(s) + 1}
        first  == IF isPort THEN 2 ELSE 1
        last   == (CHOOSE k \in end : \A j \in end : k <= j) - 1
    IN  v.inType = "BINARY" /\ v.outType = "SOCKETADDRESS" /\ v.data[1] = 23 /\ v.cb >= 24 =>
          /\ AddressIsRead(Groups(v, 4), SubSeq(s, first, last))
          /\ isPort <=> s[1] = Mark("[")
          /\ isPort => SubSeq(s, Len(s) - 2, Len(s)) = <<Mark("]"), Colon, Unsigned(v.data[2])>>

MapReadsBack(v, s) ==
    shown = "map" /\ ~bitmap.failed =>
        IF IsValueMap(call.map) THEN ValueMapIsRead(s, call.map, Number32)
                                ELSE BitMapIsRead(s, call.map, Number32)

CodeReadsBack(v, s) == shown = "code" => ResultCodeIsRead(s, DomainOf(v), Number32)

IntegerReadsBack(v, s) ==
    shown = "value" /\ v.inType \in SignedTypes \cup UnsignedTypes \cup HexTypes \cup PointerTypes =>
        CASE v.outType = "PORT" -> ByteSwapped(s[1][2]) = v.data[1]
          [] v.outType = "IPV4" -> GroupsRead(s) = <<256 * v.data[1] + v.data[2],
                                                     256 * v.data[3] + v.data[4]>>
          [] OTHER -> /\ Len(s) = 1 /\ s[1][2] = v.data[1]
                      /\ v.inType \in SignedTypes => s[1][1] \in {"%d", "ch"}
                      /\ v.inType \in UnsignedTypes => s[1][1] # "%d"

WideTextReadsBack(v, s) ==
    v.inType \in WideTypes =>
        s = [k \in 1 .. v.cb \div 2 |-> IF IsProperty /\ v.data[k] = 0 THEN Space ELSE Ch(v.data[k])]

ReadsBack(v, s) ==
    /\ WideTextReadsBack(v, s)
    /\ TimeReadsBack(v, s)
    /\ IPv6ReadsBack(v, s)
    /\ SockAddrReadsBack(v, s)
    /\ MapReadsBack(v, s)
    /\ CodeReadsBack(v, s)
    /\ IntegerReadsBack(v, s)

\* A value that is printed with a format has its flags, width and precision,
\* and is a number exactly where they are for numbers of its type; a string
\* is cut only where the format was for a string.
FormattedIsRead(v, s, meaning) ==
    LET category  == Category[meaning.specifier]
        precision == IF category = "String" THEN meaning.precision ELSE << >>
        isPlain   == category = "String" /\ meaning.flags = {} /\ meaning.width \o precision = << >>
        n    == IF isPlain THEN 0
                ELSE 1 + Cardinality(meaning.flags) + Len(meaning.width \o precision)
        rest == SubSeq(s, n + 1, Len(s))
    IN  IF shown = "printf"
        THEN MatchesType(category, v) /\ NumberIsRead(v, s, meaning)
        ELSE /\ MatchesType(category, v) => MayFailToConvert(category, v)
             /\ MarksAreRead(SubSeq(s, 1, n), meaning, precision, << >>)
             /\ IF precision # << >> /\ Len(rest) >= NumberIn(Tail(precision))
                THEN Len(rest) = NumberIn(Tail(precision))
                ELSE ReadsBack(v, rest)

\* Of every format that ParsedPrintf reads, well formed or not, no more is
\* copied than m_format has room for: each flag once, and of a width and of a
\* precision at most MaxDigits digits (ASSERT(m_copied <= MaxPrefix)).
PrefixFits ==
    call # NoCall /\ call.op = "Printf" => Len(ParsedPrintf(call.format).copied) <= MaxPrefix

PrintfReadsBack(v, s) ==
    /\ PrefixFits
    /\ IF Cuts(call.format) = {} THEN ReadsBack(v, s)
       ELSE \A meaning \in Meanings(call.format) : FormattedIsRead(v, s, meaning)

\* The text of a value says what the value is: the instant of a timestamp, in
\* the zone that the settings ask for; the groups of an address, in the 46
\* characters that were reserved for it; every bit that a map has a name for
\* and the rest of them; the code whose message was looked up; the number.
\* (Not so the text of a bitmap in which an append failed, nor of a precision
\* '*', of which the code ignores only the '*': see the README.)
ValueReadsBack ==
    Finished => IF call.op # "Printf" THEN ReadsBack(call.value, ValueText)
                ELSE PrecisionIsStar(call.format) \/ PrintfReadsBack(call.value, ValueText)

JumpsBack == call # NoCall /\ IsResultCode(call.value) /\ call.value.inType = "HEXINT32"

\* A call returns (or a debug build stops at an ASSERT): asking for the map
\* again ends whatever sizes the callback says, and so does every append that
\* asks for more room.  The jump back of a hexadecimal result code is apart.
ValueReturns == (Running /\ ~JumpsBack) ~> ~Running

\* "If this method returns ERROR_NOT_FOUND then EtwEnumerator will format the
\* value as an integer instead" (EtwEnumerator.h:2180).
ResultCodeFallsBack == (step = "fallBack") ~> (step = "returned")

\* ASSERT(static_cast<unsigned>(result) <= availableCapacity).
NeverAsserts == ~Stopped
=============================================================================

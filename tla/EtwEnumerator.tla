---------------------------- MODULE EtwEnumerator ----------------------------
(***************************************************************************)
(* The enumerator: a cursor over the items of one ETW event.               *)
(*                                                                         *)
(* An EtwEnumerator object is used by one thread.  Its owner starts an     *)
(* event, moves through its items with MoveNext and MoveNextSibling, may   *)
(* Reset to the beginning, Clear, or start another event at any time, and  *)
(* between moves calls operations that leave the position alone but share  *)
(* LastError.  Each public operation is one action, except                 *)
(* MoveNextSibling, whose loop is one action per iteration.                *)
(*                                                                         *)
(* Pointers into the payload are offsets from UserData; m_state is a       *)
(* function of m_subState (they are always set in pairs).                  *)
(***************************************************************************)
EXTENDS EtwTypes, FiniteSets

CONSTANTS
    Events,        (* the events that may be started: [tei, UserData, pointerSize] *)
    NoEvent,       (* null m_pTraceEventInfo and m_pEventRecord                   *)
    StackInline,   (* static capacity of m_stack: 4 in the code                   *)
    ValuesInline   (* static capacity of m_integerValues: 32 in the code          *)

ASSUME EventsAssumption ==
    /\ \A e \in Events : WellFormedEvent(e)
    /\ NoEvent \notin Events
    /\ StackInline  \in Nat \ {0}
    /\ ValuesInline \in Nat \ {0}

VARIABLES
    event,               (* m_pTraceEventInfo, m_pEventRecord, m_pbDataEnd          *)
    dataNext,            (* m_pbDataNext                                            *)
    item,                (* m_pbCooked, m_cbCooked, m_cbRaw, m_cookedInType,
                            m_cbElement                                             *)
    top,                 (* m_stackTop                                              *)
    stack,               (* m_stack: the structs the cursor is inside               *)
    stackCapacity,       (* m_stack.capacity()                                      *)
    subState,            (* m_subState, and through StateOf m_state                 *)
    lastError,           (* m_lastError                                             *)
    integerValues,       (* m_integerValues                                         *)
    valuesCapacity,      (* m_integerValues.capacity()                              *)
    pointerSizeFallback, (* m_cbPointerFallback                                     *)
    returned,            (* what the latest operation returned; TRUE for a void one *)
    sibling              (* the loop of MoveNextSibling: running, and its depth     *)

position == <<dataNext, item, top, stack, subState, integerValues>>
settings == <<valuesCapacity, pointerSizeFallback>>
vars == <<event, position, stackCapacity, lastError, returned, sibling, settings>>

-----------------------------------------------------------------------------
(* State names and the types of the variables. *)

PositionedSubStates ==
    {"BeforeFirstItem", "Value_Scalar", "Value_SimpleArrayElement",
     "Value_ComplexArrayElement", "ArrayBegin", "ArrayEnd", "StructBegin", "StructEnd"}

ValueSubStates ==
    {"Value_Scalar", "Value_SimpleArrayElement", "Value_ComplexArrayElement"}

SubState == PositionedSubStates \cup {"None", "Error", "AfterLastItem"}

\* State() >= BeforeFirstItem, the precondition of MoveNext.
Positioned == subState \in PositionedSubStates

\* State() > BeforeFirstItem, the precondition of GetItemInfo.
AtItem == subState \in PositionedSubStates \ {"BeforeFirstItem"}

Status == {"SUCCESS", "INVALID_DATA", "UNSUPPORTED_TYPE", "OUTOFMEMORY",
           "INVALID_PARAMETER", "NOT_FOUND", "MR_MID_NOT_FOUND", "CALLBACK_ERROR",
           "INSUFFICIENT_BUFFER"}

StackEntry ==
    [PropertyIndex: Nat, PropertyEnd: Nat, ArrayIndex: USHORT, ArrayCount: USHORT,
     IsStruct: BOOLEAN, IsArray: BOOLEAN]

Item ==
    [pos: Nat, cooked: USHORT, raw: USHORT, type: InType, element: 0 .. 16]

Init ==
    /\ event = NoEvent
    /\ dataNext = 0
    /\ item = [pos |-> 0, cooked |-> 0, raw |-> 0, type |-> "NULL", element |-> 0]
    /\ top = [PropertyIndex |-> 0, PropertyEnd |-> 0, ArrayIndex |-> 0,
              ArrayCount |-> 0, IsStruct |-> FALSE, IsArray |-> FALSE]
    /\ stack = <<>>
    /\ stackCapacity = StackInline
    /\ subState = "None"
    /\ lastError = "SUCCESS"
    /\ integerValues = <<>>
    /\ valuesCapacity = ValuesInline
    /\ pointerSizeFallback \in {4, 8}       \* sizeof(void*)
    /\ returned = TRUE
    /\ sibling = [running |-> FALSE, depth |-> 0]

-----------------------------------------------------------------------------
(* Starting and leaving an event. *)

Idle == ~sibling.running

SetNoneState(status) ==
    /\ event' = NoEvent
    /\ dataNext' = 0
    /\ item' = [item EXCEPT !.pos = 0]
    /\ subState' = "None"
    /\ lastError' = status
    /\ UNCHANGED <<top, stack, stackCapacity, integerValues, sibling, settings>>

ResetImpl(e) ==
    /\ dataNext' = 0
    /\ stack' = <<>>
    /\ top' = [top EXCEPT !.PropertyIndex = 0,
                          !.PropertyEnd = e.tei.TopLevelPropertyCount]
    /\ subState' = "BeforeFirstItem"
    /\ lastError' = "SUCCESS"
    /\ returned' = TRUE
    /\ UNCHANGED <<item, stackCapacity, pointerSizeFallback, sibling>>

\* Buffer::Grow doubles the capacity until the size fits.
Doublings == {2, 4, 8, 16, 32, 64, 128, 256, 512, 1024, 2048, 4096, 8192,
              16384, 32768, 65536, 131072}
GrownCapacity(capacity, size) ==
    CHOOSE c \in {capacity * f : f \in Doublings} :
        /\ size <= c
        /\ \A f \in Doublings : size <= capacity * f => c <= capacity * f

\* Mutant: room for the values of top-level properties only.
StartEventWithTraceEventInfo_TopLevelOnly(e) ==
    /\ Idle
    /\ e.tei.DecodingSource # "WPP"
    /\ event' = e
    /\ valuesCapacity' = valuesCapacity
    /\ integerValues' = [i \in 0 .. e.tei.TopLevelPropertyCount - 1 |-> Word - 1]
    /\ ResetImpl(e)

StartEventWithTraceEventInfo(e) ==
    LET n == e.tei.PropertyCount IN
    /\ Idle
    /\ e.tei.DecodingSource # "WPP"
    /\ event' = e
    /\ valuesCapacity' = IF n <= valuesCapacity THEN valuesCapacity
                                                ELSE GrownCapacity(valuesCapacity, n)
    /\ integerValues' = [i \in 0 .. n - 1 |-> Word - 1]
    /\ ResetImpl(e)

StartEventRefused(e) ==
    /\ Idle
    /\ e.tei.DecodingSource = "WPP"
    /\ SetNoneState("INVALID_PARAMETER")
    /\ returned' = FALSE

\* m_integerValues.resize fails.
StartEventOutOfMemory(e) ==
    /\ Idle
    /\ e.tei.DecodingSource # "WPP"
    /\ e.tei.PropertyCount > valuesCapacity
    /\ SetNoneState("OUTOFMEMORY")
    /\ returned' = FALSE

\* StartEvent, where GetEventInformation or the buffer for its result fails;
\* EtwStartEvent has the loop that leads here.
StartEventFailed(status) ==
    /\ Idle
    /\ SetNoneState(status)
    /\ returned' = FALSE

Clear ==
    /\ Idle
    /\ SetNoneState("SUCCESS")
    /\ returned' = TRUE

\* integerValues keeps what the previous pass saw.
Reset ==
    /\ Idle
    /\ subState # "None"
    /\ ResetImpl(event)
    /\ UNCHANGED <<event, integerValues, valuesCapacity>>

-----------------------------------------------------------------------------
(***************************************************************************)
(* Moving.  NextProperty, StartValue, StartArray and StartStruct take the  *)
(* values that m_stackTop (t), m_pbDataNext (p) and m_stack (stk) have     *)
(* when the code calls them.                                               *)
(***************************************************************************)
Property(t) == event.tei.props[t.PropertyIndex]

PointerSize == IF event.pointerSize # 0 THEN event.pointerSize ELSE pointerSizeFallback

AtPosition(t, p, stk) == top' = t /\ dataNext' = p /\ stack' = stk

MovedTo(newSubState) ==
    /\ subState' = newSubState
    /\ lastError' = "SUCCESS"
    /\ returned' = TRUE

\* Mutant: the state says Error, LastError does not.
SetErrorState_Silent(status) ==
    /\ subState' = "Error"
    /\ returned' = FALSE
    /\ UNCHANGED lastError

SetErrorState(status) ==
    /\ subState' = "Error"
    /\ lastError' = status
    /\ returned' = FALSE

\* Mutant: the size of the value before stays in m_cbCooked.
EndItem_StaleSize(p) == [item EXCEPT !.pos = p, !.raw = 0]

\* The item at which SetEndState leaves the cursor.
EndItem(p) == [item EXCEPT !.pos = p, !.cooked = 0, !.raw = 0]

\* The item of a struct's begin and end.
StructItem(p) == [pos |-> p, cooked |-> 0, raw |-> 0, type |-> "NULL", element |-> 0]

StartStruct(p) ==
    /\ item' = StructItem(p)
    /\ MovedTo("StructBegin")
    /\ UNCHANGED integerValues

ValueItem(epi, extent, p) ==
    [pos |-> p + extent.skip, cooked |-> extent.cooked, raw |-> extent.raw,
     type |-> CookedInType(epi.InType), element |-> ElementSize(epi.InType, PointerSize)]

Remember(i, epi, p) ==
    integerValues' = IF epi.InType \in RememberedTypes
                     THEN [integerValues EXCEPT ![i] =
                             RememberedValue(epi.InType, event.UserData, p)]
                     ELSE integerValues

StartValue(newSubState, t, p) ==
    LET epi    == Property(t)
        extent == ValueExtent(epi, integerValues, PointerSize, event.UserData, p)
        fits   == ExtentIsChecked(epi) => extent.raw <= Len(event.UserData) - p
    IN  \/ /\ epi.InType \in SupportedTypes
           /\ fits
           /\ item' = ValueItem(epi, extent, p)
           /\ Remember(t.PropertyIndex, epi, p)
           /\ MovedTo(newSubState)
        \/ /\ epi.InType \in SupportedTypes
           /\ ~fits
           /\ item' = [ValueItem(epi, extent, p) EXCEPT !.cooked = 0, !.raw = 0]
           /\ SetErrorState("INVALID_DATA")
           /\ UNCHANGED integerValues
        \/ /\ epi.InType \notin SupportedTypes
           /\ item' = ValueItem(epi, Extent(0, 0, 0), p)
           /\ SetErrorState("UNSUPPORTED_TYPE")
           /\ UNCHANGED integerValues

\* Mutant: compares with the whole payload, not with what remains of it.
ArrayFits_InWhole(cbArray, p) == cbArray <= Len(event.UserData)

\* The one size check of a simple array: "That way we can skip per-element validation".
ArrayFits(cbArray, p) == cbArray <= Len(event.UserData) - p

StartArray(t, p) ==
    LET epi     == Property(t)
        element == IF t.IsStruct THEN 0 ELSE ElementSize(epi.InType, PointerSize)
        cbArray == t.ArrayCount * element
        begin   == [pos |-> p, cooked |-> 0, raw |-> 0, element |-> element,
                    type |-> IF t.IsStruct THEN "NULL" ELSE CookedInType(epi.InType)]
    IN  /\ \/ /\ t.IsStruct \/ epi.InType \in ComplexTypes
              /\ item' = begin
              /\ MovedTo("ArrayBegin")
           \/ /\ ~t.IsStruct
              /\ epi.InType \in SimpleTypes
              /\ ArrayFits(cbArray, p)
              /\ item' = [begin EXCEPT !.cooked = cbArray, !.raw = cbArray]
              /\ subState' = "ArrayBegin"
              /\ returned' = TRUE
              /\ UNCHANGED lastError            \* the one success path that leaves it alone
           \/ /\ ~t.IsStruct
              /\ epi.InType \in SimpleTypes
              /\ ~ArrayFits(cbArray, p)
              /\ item' = begin
              /\ SetErrorState("INVALID_DATA")
           \/ /\ ~t.IsStruct
              /\ epi.InType \notin SupportedTypes
              /\ item' = begin
              /\ SetErrorState("UNSUPPORTED_TYPE")
        /\ UNCHANGED integerValues

IsScalarProperty(epi) ==
    /\ epi.Flags \cap {"Struct", "ParamCount", "ParamFixedCount"} = {}
    /\ epi.count = 1

IsArrayProperty(epi) ==
    epi.count # 1 \/ epi.Flags \cap {"ParamCount", "ParamFixedCount"} # {}

EnumerationEnds(t, p, stk) ==
    /\ t.PropertyIndex = t.PropertyEnd
    /\ stk = <<>>
    /\ AtPosition(t, p, stk)
    /\ item' = EndItem(p)
    /\ subState' = "AfterLastItem"
    /\ lastError' = "SUCCESS"
    /\ returned' = FALSE
    /\ UNCHANGED integerValues

\* Mutant: m_stackTop is restored, m_stack not popped.
StructEnds_NoPop(t, p, stk) ==
    /\ t.PropertyIndex = t.PropertyEnd
    /\ stk # <<>>
    /\ AtPosition(stk[Len(stk)], p, stk)
    /\ item' = StructItem(p)
    /\ MovedTo("StructEnd")
    /\ UNCHANGED integerValues

StructEnds(t, p, stk) ==
    /\ t.PropertyIndex = t.PropertyEnd
    /\ stk # <<>>
    /\ AtPosition(stk[Len(stk)], p, SubSeq(stk, 1, Len(stk) - 1))
    /\ item' = StructItem(p)
    /\ MovedTo("StructEnd")
    /\ UNCHANGED integerValues

PropertyStarts(t, p, stk) ==
    /\ t.PropertyIndex # t.PropertyEnd
    /\ LET epi == Property(t)
           At(count, isArray) ==
               [t EXCEPT !.ArrayIndex = 0, !.ArrayCount = count, !.IsArray = isArray,
                         !.IsStruct = "Struct" \in epi.Flags]
           ArrayCount ==
               IF "ParamCount" \in epi.Flags THEN integerValues[epi.count] ELSE epi.count
       IN  \/ /\ IsScalarProperty(epi)
              /\ AtPosition(At(1, FALSE), p, stk)
              /\ StartValue("Value_Scalar", t, p)
           \/ /\ IsArrayProperty(epi)
              /\ AtPosition(At(ArrayCount, TRUE), p, stk)
              /\ StartArray(At(ArrayCount, TRUE), p)
           \/ /\ ~IsScalarProperty(epi)
              /\ ~IsArrayProperty(epi)
              /\ AtPosition(At(epi.count, FALSE), p, stk)
              /\ StartStruct(p)

NextProperty(t, p, stk) ==
    \/ EnumerationEnds(t, p, stk)
    \/ StructEnds(t, p, stk)
    \/ PropertyStarts(t, p, stk)

-----------------------------------------------------------------------------
(* MoveNext, by the sub-state it leaves. *)

NextIndex(t)   == [t EXCEPT !.PropertyIndex = @ + 1]
NextElement(t) == [t EXCEPT !.ArrayIndex = (@ + 1) % Word]

ArrayEnds(t, p) ==
    /\ AtPosition(t, p, stack)
    /\ item' = EndItem(p)
    /\ MovedTo("ArrayEnd")
    /\ UNCHANGED integerValues

LeaveBeforeFirstItem ==
    /\ subState = "BeforeFirstItem"
    /\ NextProperty(top, dataNext, stack)
    /\ UNCHANGED stackCapacity

LeaveScalar ==
    /\ subState = "Value_Scalar"
    /\ NextProperty(NextIndex(top), dataNext + item.raw, stack)
    /\ UNCHANGED stackCapacity

LeaveSimpleArrayElement ==
    LET t == NextElement(top)
        p == dataNext + item.raw
    IN  /\ subState = "Value_SimpleArrayElement"
        /\ \/ /\ t.ArrayIndex = t.ArrayCount
              /\ ArrayEnds(t, p)
           \/ /\ t.ArrayIndex # t.ArrayCount
              /\ AtPosition(t, p, stack)
              /\ item' = [item EXCEPT !.pos = p]        \* StartValueSimple
              /\ MovedTo("Value_SimpleArrayElement")
              /\ UNCHANGED integerValues
        /\ UNCHANGED stackCapacity

LeaveComplexArrayElement ==
    LET t == NextElement(top)
        p == dataNext + item.raw
    IN  /\ subState = "Value_ComplexArrayElement"
        /\ \/ /\ t.ArrayIndex = t.ArrayCount
              /\ ArrayEnds(t, p)
           \/ /\ t.ArrayIndex # t.ArrayCount
              /\ AtPosition(t, p, stack)
              /\ StartValue("Value_ComplexArrayElement", t, p)
        /\ UNCHANGED stackCapacity

\* Mutant: an empty array is entered like any other.
LeaveArrayBegin_EvenEmpty ==
    /\ subState = "ArrayBegin"
    /\ AtPosition(top, dataNext, stack)
    /\ \/ /\ item.element # 0
          /\ item' = [item EXCEPT !.pos = dataNext, !.cooked = item.element,
                                  !.raw = item.element]
          /\ MovedTo("Value_SimpleArrayElement")
          /\ UNCHANGED integerValues
       \/ /\ item.element = 0
          /\ ~top.IsStruct
          /\ StartValue("Value_ComplexArrayElement", top, dataNext)
       \/ /\ item.element = 0
          /\ top.IsStruct
          /\ StartStruct(dataNext)
    /\ UNCHANGED stackCapacity

LeaveArrayBegin ==
    /\ subState = "ArrayBegin"
    /\ \/ /\ top.ArrayCount = 0
          /\ ArrayEnds(top, dataNext)
       \/ /\ top.ArrayCount # 0
          /\ AtPosition(top, dataNext, stack)
          /\ \/ /\ item.element # 0
                /\ item' = [item EXCEPT !.pos = dataNext, !.cooked = item.element,
                                        !.raw = item.element]
                /\ MovedTo("Value_SimpleArrayElement")
                /\ UNCHANGED integerValues
             \/ /\ item.element = 0
                /\ ~top.IsStruct
                /\ StartValue("Value_ComplexArrayElement", top, dataNext)
             \/ /\ item.element = 0
                /\ top.IsStruct
                /\ StartStruct(dataNext)
    /\ UNCHANGED stackCapacity

LeaveArrayEnd ==
    /\ subState = "ArrayEnd"
    /\ NextProperty(NextIndex(top), dataNext, stack)
    /\ UNCHANGED stackCapacity

\* m_stack.push_back needs memory only when m_stack is at its capacity.
LeaveStructBegin ==
    LET epi == Property(top)
    IN  /\ subState = "StructBegin"
        /\ stackCapacity' = IF Len(stack) < stackCapacity THEN stackCapacity
                                                          ELSE 2 * stackCapacity
        /\ NextProperty([top EXCEPT !.PropertyIndex = epi.StructStartIndex,
                                    !.PropertyEnd = epi.StructStartIndex
                                                    + epi.NumOfStructMembers],
                        dataNext, Append(stack, top))

LeaveStructBeginOutOfMemory ==
    /\ subState = "StructBegin"
    /\ Len(stack) = stackCapacity
    /\ SetErrorState("OUTOFMEMORY")
    /\ UNCHANGED <<dataNext, item, top, stack, integerValues, stackCapacity>>

\* Mutant: the array index of the struct is not incremented.
LeaveStructEnd_SameElement ==
    /\ subState = "StructEnd"
    /\ \/ /\ top.ArrayIndex # top.ArrayCount
          /\ AtPosition(top, dataNext, stack)
          /\ StartStruct(dataNext)
       \/ /\ top.ArrayIndex = top.ArrayCount
          /\ top.IsArray
          /\ ArrayEnds(top, dataNext)
    /\ UNCHANGED stackCapacity

LeaveStructEnd ==
    LET t == NextElement(top)
    IN  /\ subState = "StructEnd"
        /\ \/ /\ t.ArrayIndex # t.ArrayCount
              /\ AtPosition(t, dataNext, stack)
              /\ StartStruct(dataNext)
           \/ /\ t.ArrayIndex = t.ArrayCount
              /\ t.IsArray
              /\ ArrayEnds(t, dataNext)
           \/ /\ t.ArrayIndex = t.ArrayCount
              /\ ~t.IsArray
              /\ NextProperty(NextIndex(t), dataNext, stack)
        /\ UNCHANGED stackCapacity

Move ==
    \/ LeaveBeforeFirstItem
    \/ LeaveScalar
    \/ LeaveSimpleArrayElement
    \/ LeaveComplexArrayElement
    \/ LeaveArrayBegin
    \/ LeaveArrayEnd
    \/ LeaveStructBegin
    \/ LeaveStructBeginOutOfMemory
    \/ LeaveStructEnd

MoveNext ==
    /\ Idle
    /\ Move
    /\ UNCHANGED <<event, sibling, settings>>

-----------------------------------------------------------------------------
(***************************************************************************)
(* MoveNextSibling: moves until as many ends as begins have been left.  An *)
(* array of simple elements is skipped in one step, from its begin to what *)
(* follows its end.                                                        *)
(***************************************************************************)
\* Mutant: the end of a struct does not close what its begin opened.
DepthChange_StructStaysOpen ==
    CASE subState = "ArrayEnd" -> -1
      [] subState \in {"StructBegin", "ArrayBegin"} -> 1
      [] OTHER -> 0

DepthChange ==
    CASE subState \in {"ArrayEnd", "StructEnd"}    -> -1
      [] subState \in {"StructBegin", "ArrayBegin"} -> 1
      [] OTHER -> 0

AtSimpleArrayBegin == subState = "ArrayBegin" /\ item.element # 0

\* Mutant: while (depth > 0)
LoopTest_DepthOnly(depth) ==
    sibling' = IF depth > 0 THEN [running |-> TRUE, depth |-> depth]
                            ELSE [running |-> FALSE, depth |-> 0]

\* while (depth > 0 && movedToItem)
LoopTest(depth) ==
    sibling' = IF depth > 0 /\ returned' THEN [running |-> TRUE, depth |-> depth]
                                         ELSE [running |-> FALSE, depth |-> 0]

\* Mutant: skips the first element instead of all of them.
SkipSimpleArray_FirstOnly(depth) ==
    /\ AtSimpleArrayBegin
    /\ NextProperty(NextIndex(top), dataNext + item.element, stack)
    /\ UNCHANGED <<stackCapacity, event, settings>>
    /\ LoopTest(depth)

SkipSimpleArray(depth) ==
    /\ AtSimpleArrayBegin
    /\ NextProperty(NextIndex(top), dataNext + item.element * top.ArrayCount, stack)
    /\ UNCHANGED <<stackCapacity, event, settings>>
    /\ LoopTest(depth)

MoveInLoop(depth) ==
    /\ ~AtSimpleArrayBegin
    /\ Move
    /\ UNCHANGED <<event, settings>>
    /\ LoopTest(depth + DepthChange)

MoveNextSibling ==
    /\ Idle
    /\ SkipSimpleArray(0) \/ MoveInLoop(0)

MoveNextSiblingLoop ==
    /\ sibling.running
    /\ SkipSimpleArray(sibling.depth) \/ MoveInLoop(sibling.depth)

-----------------------------------------------------------------------------
(* Operations that leave the position alone. *)

Report(status) ==
    /\ Idle
    /\ lastError' = status
    /\ returned' = (status = "SUCCESS")
    /\ UNCHANGED <<event, position, stackCapacity, sibling, settings>>

FindEventAttribute == \E status \in {"SUCCESS", "NOT_FOUND", "OUTOFMEMORY"} : Report(status)

SetTimestampFormat == \E status \in {"SUCCESS", "INVALID_PARAMETER"} : Report(status)

PreviewEvent == \E status \in {"SUCCESS", "CALLBACK_ERROR"} : Report(status)

SetPointerSizeFallback ==
    /\ Idle
    /\ pointerSizeFallback' \in {4, 8}
    /\ UNCHANGED <<event, position, stackCapacity, lastError, returned, sibling, valuesCapacity>>

-----------------------------------------------------------------------------
StartWithTraceEventInfo ==
    \E e \in Events :
        \/ StartEventWithTraceEventInfo(e)
        \/ StartEventRefused(e)
        \/ StartEventOutOfMemory(e)

Start ==
    \/ StartWithTraceEventInfo
    \/ \E status \in {"CALLBACK_ERROR", "INSUFFICIENT_BUFFER", "OUTOFMEMORY"} :
         StartEventFailed(status)

Next ==
    \/ Start
    \/ Clear
    \/ Reset
    \/ MoveNext
    \/ MoveNextSibling
    \/ MoveNextSiblingLoop
    \/ FindEventAttribute
    \/ SetTimestampFormat
    \/ PreviewEvent
    \/ SetPointerSizeFallback

\* A call of MoveNextSibling, once made, runs to its return, and the owner
\* keeps moving (the loop `while (e.MoveNext())`).
Fairness ==
    /\ WF_vars(MoveNextSiblingLoop)
    /\ WF_vars(MoveNext)

Spec == Init /\ [][Next]_vars /\ Fairness

-----------------------------------------------------------------------------
(* Properties. *)

\* Every variable has its type; m_integerValues has one entry per property
\* of the event, and its entries are USHORTs.
TypeOK ==
    /\ event \in Events \cup {NoEvent}
    /\ (event = NoEvent) <=> (subState = "None")
    /\ dataNext \in Nat
    /\ item \in Item
    /\ top \in StackEntry
    /\ stack \in Seq(StackEntry)
    /\ stackCapacity \in Nat \ {0}
    /\ Len(stack) <= stackCapacity
    /\ subState \in SubState
    /\ lastError \in Status
    /\ subState # "None" => integerValues \in [0 .. event.tei.PropertyCount - 1 -> USHORT]
    /\ valuesCapacity \in Nat \ {0}
    /\ pointerSizeFallback \in {4, 8}
    /\ returned \in BOOLEAN
    /\ sibling \in [running: BOOLEAN, depth: Nat]
    /\ sibling.running => Positioned /\ sibling.depth > 0

\* What MoveNext asserts of the sub-state it leaves (the ASSERTs at
\* EtwEnumerator.cpp:369-506 and 969): whatever the calls that led there,
\* an element lies inside its array, an array ends after its last element,
\* a struct ends where it began, and the property index is inside the group.
MoveNextAsserts ==
    /\ subState \in ValueSubStates => ~top.IsStruct
    /\ subState = "Value_Scalar" => ~top.IsArray
    /\ subState = "Value_SimpleArrayElement" =>
         /\ top.IsArray
         /\ top.ArrayIndex < top.ArrayCount
         /\ item.element # 0 /\ item.cooked = item.element /\ item.raw = item.element
    /\ subState = "Value_ComplexArrayElement" =>
         top.IsArray /\ top.ArrayIndex < top.ArrayCount /\ item.element = 0
    /\ subState = "ArrayBegin" =>
         top.IsArray /\ top.ArrayIndex = 0 /\ (item.element # 0 => ~top.IsStruct)
    /\ subState = "ArrayEnd" => top.IsArray /\ top.ArrayIndex = top.ArrayCount
    /\ subState \in {"StructBegin", "StructEnd"} =>
         top.IsStruct /\ top.ArrayIndex < top.ArrayCount /\ item.raw = 0
    /\ AtItem => top.PropertyIndex < top.PropertyEnd
    /\ subState = "BeforeFirstItem" => top.PropertyIndex <= top.PropertyEnd /\ stack = <<>>

\* What EtwItemInfo documents of ArrayIndex, ArrayCount, ElementSize and
\* DataSize (EtwEnumerator.h:1871-1910), at every item however it was reached.
\* The element size of a pointer is the one in force when its array began.
ItemInfoAsDocumented ==
    AtItem =>
      LET epi == Property(top) IN
      /\ ~top.IsArray => top.ArrayIndex = 0 /\ top.ArrayCount = 1
      /\ subState = "ArrayBegin" => top.ArrayIndex = 0
      /\ subState = "ArrayEnd" => top.ArrayIndex = top.ArrayCount
      /\ subState \notin {"ArrayBegin", "ArrayEnd"} => top.ArrayIndex < top.ArrayCount
      /\ subState = "ArrayBegin" => item.cooked = top.ArrayCount * item.element
      /\ subState \in {"ArrayEnd", "StructBegin", "StructEnd"} => item.cooked = 0
      /\ IF "Struct" \in epi.Flags
         THEN item.type = "NULL" /\ item.element = 0
         ELSE /\ item.type = CookedInType(epi.InType)
              /\ epi.InType \notin PointerTypes => item.element = ElementSize(epi.InType, 0)
              /\ epi.InType \in PointerTypes => item.element \in {4, 8}

\* The raw extent of every item the enumerator presents lies inside the
\* event's payload, and so does the position between items: sizes come from
\* the payload itself, from other properties and from 16-bit sums.
RawItemInPayload ==
    subState # "None" => dataNext + (IF AtItem THEN item.raw ELSE 0) <= Len(event.UserData)

\* So does what GetItemInfo returns as Data and DataSize ("Data points into
\* the buffer of pEventRecord", EtwEnumerator.h:1899), the value without its
\* length prefix or terminator, as long as the 16-bit sum of the value and its
\* prefix did not wrap, that is, as long as the value is no longer than the item.
CookedItemInPayload ==
    AtItem /\ item.cooked <= item.raw => item.pos + item.cooked <= Len(event.UserData)

\* "Validate that Count * m_cbElement <= RemainingSize. That way we can skip
\* per-element validation": the elements of a simple array that are still to
\* come fit in what is left of the payload.
RemainingElementsFit ==
    AtItem /\ top.IsArray /\ item.element # 0 =>
        dataNext + (top.ArrayCount - top.ArrayIndex) * item.element <= Len(event.UserData)

\* The entries of m_stack and m_stackTop lead from a top-level property to
\* the current group of members, as the tei of event e lays them out.
InGroup(e, s, first, end) ==
    /\ s.PropertyEnd = end /\ end <= e.tei.PropertyCount
    /\ first <= s.PropertyIndex /\ s.PropertyIndex <= end

Encloses(e, outer, inner) ==
    LET epi == e.tei.props[outer.PropertyIndex]
    IN  /\ outer.PropertyIndex < outer.PropertyEnd
        /\ outer.IsStruct /\ "Struct" \in epi.Flags
        /\ outer.ArrayIndex < outer.ArrayCount
        /\ ~outer.IsArray => outer.ArrayIndex = 0 /\ outer.ArrayCount = 1
        /\ InGroup(e, inner, epi.StructStartIndex,
                   epi.StructStartIndex + epi.NumOfStructMembers)

FollowsTei(e, t, stk) ==
    LET Entry(k) == IF k <= Len(stk) THEN stk[k] ELSE t
    IN  /\ InGroup(e, Entry(1), 0, e.tei.TopLevelPropertyCount)
        /\ \A k \in 1 .. Len(stk) : Encloses(e, Entry(k), Entry(k + 1))

\* A stale or lost entry of m_stack would resume in the wrong group, or at the
\* wrong element, when a struct ends.
StackFollowsTei ==
    /\ Positioned => FollowsTei(event, top, stack)
    /\ AtItem => (top.IsStruct <=> "Struct" \in Property(top).Flags)

\* An operation that returns FALSE leaves an error in LastError, except the
\* move past the last item ("Returns ERROR_SUCCESS if State == AfterLastItem").
FailureIsReported ==
    ~returned => (lastError # "SUCCESS" \/ subState = "AfterLastItem")

\* An operation that returns TRUE (or void) leaves ERROR_SUCCESS in LastError:
\* "Gets status for the most recent operation" (EtwEnumerator.h:367).
SuccessIsReported == returned => lastError = "SUCCESS"

\* The begins that have been left and not yet matched by leaving their end:
\* every entry of the stack is a struct, some of them in an array.
OuterNesting(stk) == Len(stk) + Cardinality({k \in 1 .. Len(stk) : stk[k].IsArray})

Nesting ==
    LET inArray == IF top.IsArray THEN 1 ELSE 0
    IN  OuterNesting(stack) +
        CASE subState \in {"Value_SimpleArrayElement", "Value_ComplexArrayElement",
                           "ArrayEnd", "StructBegin"} -> inArray
          [] subState = "StructEnd" -> 1 + inArray
          [] OTHER -> 0

\* MoveNextSibling, called at a begin, returns at the nesting at which it was
\* called: AFTER the matching end and not before it or inside what follows.
\* Throughout the loop its depth counter tells the nesting it must return to.
SiblingKeepsNesting ==
    [][sibling.running /\ returned' =>
         Nesting' - sibling'.depth = Nesting - sibling.depth]_vars

\* MoveNextSibling returns, whatever lies between the begin and its end.
SiblingReturns == sibling.running ~> ~sibling.running
=============================================================================

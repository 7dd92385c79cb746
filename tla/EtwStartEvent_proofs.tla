------------------------ MODULE EtwStartEvent_proofs ------------------------
(***************************************************************************)
(* StartEvent's loop, as EtwStartEvent has it, is one step of EtwEnumerator *)
(* at most, so what is proved of the enumerator holds of both together;    *)
(* and the event that StartEvent leaves is the one in m_teiBuffer.         *)
(***************************************************************************)
EXTENDS EtwStartEvent, EtwEnumerator_proofs

\* TeiIsCurrent, and what the loop of StartEvent knows of its call.
StartInv ==
    /\ starting \in Events \cup {NoEvent}
    /\ cbTei # 0 => ~Free
    /\ own => event # NoEvent
    /\ TeiIsCurrent

LEMMA InitStartInv == InitStart => StartInv
BY DEF InitStart, StartInv, TeiIsCurrent, Free

\* The operations that leave the event alone.
LEMMA EventIsLeft ==
  ASSUME \/ Reset \/ MoveNext \/ MoveNextSibling \/ MoveNextSiblingLoop
         \/ FindEventAttribute \/ SetTimestampFormat \/ PreviewEvent \/ SetPointerSizeFallback
  PROVE  event' = event
<1>1. CASE Reset
  BY <1>1 DEF Reset
<1>2. CASE MoveNext
  BY <1>2 DEF MoveNext
<1>3. CASE MoveNextSibling \/ MoveNextSiblingLoop
  BY <1>3 DEF MoveNextSibling, MoveNextSiblingLoop, SkipSimpleArray, MoveInLoop
<1>4. CASE FindEventAttribute \/ SetTimestampFormat \/ PreviewEvent
  BY <1>4 DEF FindEventAttribute, SetTimestampFormat, PreviewEvent, Report
<1>5. CASE SetPointerSizeFallback
  BY <1>5 DEF SetPointerSizeFallback
<1> QED BY <1>1, <1>2, <1>3, <1>4, <1>5

\* Every path out of StartEvent leaves m_teiBuffer's event or none.
LEMMA StepKeepsStartInv == StartInv /\ [StartNext]_startVars => StartInv'
<1> SUFFICES ASSUME StartInv, [StartNext]_startVars PROVE StartInv'
  OBVIOUS
<1> USE DEF StartInv, TeiIsCurrent, Free
<1>1. ASSUME NEW e \in Events, StartEvent(e) PROVE StartInv'
  BY <1>1, EventsAssumption DEF StartEvent, vars, teiVars
<1>2. CASE EventInformation
  <2>1. /\ starting \in Events /\ starting' = NoEvent /\ cbTei' = 0
        /\ teiBuffer' = starting
    BY <1>2 DEF EventInformation, Asking, Ends
  <2>2. own' => event' = starting
    BY <1>2 DEF EventInformation, StartEventWithTraceEventInfo
  <2> QED BY <2>1, <2>2, EventsAssumption
<1>3. CASE EventInformationFails \/ TeiWrongSize \/ TeiOutOfMemory
  BY <1>3 DEF EventInformationFails, TeiWrongSize, TeiOutOfMemory, Ends
<1>4. CASE TeiTooSmall
  BY <1>4 DEF TeiTooSmall, Asking, vars
<1>5. CASE TeiGrows
  BY <1>5 DEF TeiGrows, vars
<1>6. CASE /\ Free
           /\ StartWithTraceEventInfo \/ Clear
           /\ own' = FALSE
           /\ UNCHANGED <<starting, cbTei, teiCapacity, teiBuffer>>
  BY <1>6
<1>7. CASE /\ Free
           /\ \/ Reset \/ MoveNext \/ MoveNextSibling \/ MoveNextSiblingLoop
              \/ FindEventAttribute \/ SetTimestampFormat \/ PreviewEvent
              \/ SetPointerSizeFallback
           /\ UNCHANGED <<starting, cbTei, teiVars>>
  BY <1>7, EventIsLeft DEF teiVars
<1>8. CASE UNCHANGED startVars
  BY <1>8 DEF startVars, vars, teiVars
<1> QED BY <1>1, <1>2, <1>3, <1>4, <1>5, <1>6, <1>7, <1>8 DEF StartNext, StartEventStep

\* A step of StartEvent's loop is a step of the enumerator, or none.
LEMMA StartStepIsEnumeratorStep == StartInv /\ [StartNext]_startVars => [Next]_vars
<1> SUFFICES ASSUME StartInv, [StartNext]_startVars PROVE [Next]_vars
  OBVIOUS
<1>1. ASSUME NEW e \in Events, StartEvent(e) PROVE UNCHANGED vars
  BY <1>1 DEF StartEvent
<1>2. ASSUME NEW status \in {"CALLBACK_ERROR", "INSUFFICIENT_BUFFER", "OUTOFMEMORY"},
             StartEventFailed(status)
      PROVE  Next
  BY <1>2 DEF Next, Start
<1>3. CASE EventInformation
  <2>1. starting \in Events
    BY <1>3 DEF EventInformation, Asking, StartInv
  <2>2. \/ StartEventWithTraceEventInfo(starting)
        \/ StartEventRefused(starting)
        \/ StartEventOutOfMemory(starting)
    BY <1>3 DEF EventInformation
  <2> QED BY <2>1, <2>2 DEF Next, Start, StartWithTraceEventInfo
<1>4. CASE EventInformationFails \/ TeiWrongSize \/ TeiOutOfMemory
  BY <1>2, <1>4 DEF EventInformationFails, TeiWrongSize, TeiOutOfMemory
<1>5. CASE TeiTooSmall \/ TeiGrows
  BY <1>5 DEF TeiTooSmall, TeiGrows
<1>6. CASE StartWithTraceEventInfo \/ Clear
  BY <1>6 DEF Next, Start
<1>7. CASE \/ Reset \/ MoveNext \/ MoveNextSibling \/ MoveNextSiblingLoop
           \/ FindEventAttribute \/ SetTimestampFormat \/ PreviewEvent
           \/ SetPointerSizeFallback
  BY <1>7 DEF Next
<1>8. CASE UNCHANGED startVars
  BY <1>8 DEF startVars
<1> QED BY <1>1, <1>3, <1>4, <1>5, <1>6, <1>7, <1>8 DEF StartNext, StartEventStep

-----------------------------------------------------------------------------
\* However StartEvent ends, the tei of the current event is the one that is in
\* m_teiBuffer, if it was ever there: it was not written over or freed.
THEOREM TeiIsCurrentHolds == StartSpec => []TeiIsCurrent
<1>1. StartInv => TeiIsCurrent
  BY DEF StartInv
<1> QED BY <1>1, InitStartInv, StepKeepsStartInv, PTL DEF StartSpec

\* With StartEvent asking the callbacks, the enumerator does what EtwEnumerator
\* says it does.
THEOREM StartImplementsEnumerator == StartSpec => Init /\ [][Next]_vars
<1>1. InitStart => Init
  BY DEF InitStart
<1> QED BY <1>1, InitStartInv, StepKeepsStartInv, StartStepIsEnumeratorStep, PTL DEF StartSpec

\* So its positions stay those that the enumerator's invariant describes.
THEOREM StartInvariance == StartSpec => []IInv
<1> QED BY StartImplementsEnumerator, InitIInv, NextIInv, PTL
=============================================================================

---------------------------- MODULE EtwStartEvent ----------------------------
(***************************************************************************)
(* StartEvent, which asks the callbacks for what it starts, on top of      *)
(* EtwEnumerator.                                                          *)
(*                                                                         *)
(* StartEvent asks GetEventInformation for the TRACE_EVENT_INFO of an      *)
(* event, into m_teiBuffer, until the buffer is large enough.  The event   *)
(* that was current before keeps its pointer into that buffer while the    *)
(* callback writes there and while the buffer is freed for a larger one:   *)
(* "every path through this function should call either SetNoneState() or  *)
(* StartEventWithEventInfo()".  One action is one call of the callback, or *)
(* what the loop does with its result.                                     *)
(***************************************************************************)
EXTENDS EtwEnumerator

CONSTANT
    TeiSizes   (* the sizes that GetEventInformation may say it needs *)

VARIABLES
    starting,            (* the event whose StartEvent runs, or NoEvent            *)
    cbTei,               (* the size that was too small for it, or 0               *)
    teiCapacity,         (* m_teiBuffer.capacity()                                 *)
    teiBuffer,           (* the event whose information m_teiBuffer holds, or
                            NoEvent when that is unspecified                       *)
    own                  (* m_pTraceEventInfo is m_teiBuffer.data()                *)

teiVars   == <<teiCapacity, teiBuffer, own>>
startVars == <<vars, starting, cbTei, teiVars>>

ASSUME StartAssumption == TeiSizes \subseteq Nat \ {0}

InitStart ==
    /\ Init
    /\ starting = NoEvent
    /\ cbTei = 0
    /\ teiCapacity = 0
    /\ teiBuffer = NoEvent
    /\ own = FALSE

-----------------------------------------------------------------------------
(* StartEvent. *)

StartEvent(e) ==
    /\ Idle
    /\ starting = NoEvent
    /\ starting' = e
    /\ UNCHANGED <<vars, cbTei, teiVars>>

Asking == starting # NoEvent /\ cbTei = 0

Ends == starting' = NoEvent /\ cbTei' = 0

\* The callback wrote the information; StartEventWithTraceEventInfo takes it
\* or calls SetNoneState.
EventInformation ==
    /\ Asking
    /\ teiCapacity > 0
    /\ \/ StartEventWithTraceEventInfo(starting) /\ own' = TRUE
       \/ StartEventRefused(starting) /\ own' = FALSE
       \/ StartEventOutOfMemory(starting) /\ own' = FALSE
    /\ teiBuffer' = starting
    /\ Ends
    /\ UNCHANGED teiCapacity

\* The callback may have written before it failed.
EventInformationFails ==
    /\ Asking
    /\ StartEventFailed("CALLBACK_ERROR")
    /\ own' = FALSE
    /\ teiBuffer' \in {teiBuffer, NoEvent}
    /\ Ends
    /\ UNCHANGED teiCapacity

TeiTooSmall ==
    /\ Asking
    /\ cbTei' \in TeiSizes
    /\ teiBuffer' \in {teiBuffer, NoEvent}
    /\ UNCHANGED <<vars, starting, teiCapacity, own>>

\* Mutant: asks again, whatever size it is told.
TeiWrongSize_Again ==
    /\ cbTei # 0
    /\ teiCapacity >= cbTei
    /\ cbTei' = 0
    /\ UNCHANGED <<vars, starting, teiVars>>

\* "it means GetEventInformation has a bug (it did not set cbTei correctly)".
TeiWrongSize ==
    /\ cbTei # 0
    /\ teiCapacity >= cbTei
    /\ StartEventFailed("INSUFFICIENT_BUFFER")
    /\ own' = FALSE
    /\ Ends
    /\ UNCHANGED <<teiCapacity, teiBuffer>>

\* reserve(cbTei, false): a new block from the heap, of which 8 is the unit.
TeiGrows ==
    /\ cbTei # 0
    /\ cbTei > teiCapacity
    /\ teiCapacity' = GrownCapacity(IF teiCapacity = 0 THEN 8 ELSE teiCapacity, cbTei)
    /\ teiBuffer' = NoEvent
    /\ cbTei' = 0
    /\ UNCHANGED <<vars, starting, own>>

\* Mutant: returns false and leaves the event as it was.
TeiOutOfMemory_KeepsEvent ==
    /\ cbTei # 0
    /\ cbTei > teiCapacity
    /\ Report("OUTOFMEMORY")
    /\ Ends
    /\ UNCHANGED teiVars

TeiOutOfMemory ==
    /\ cbTei # 0
    /\ cbTei > teiCapacity
    /\ StartEventFailed("OUTOFMEMORY")
    /\ own' = FALSE
    /\ Ends
    /\ UNCHANGED <<teiCapacity, teiBuffer>>

StartEventStep ==
    \/ EventInformation
    \/ EventInformationFails
    \/ TeiTooSmall
    \/ TeiWrongSize
    \/ TeiGrows
    \/ TeiOutOfMemory

-----------------------------------------------------------------------------
(* The owner does one thing at a time. *)

Free == starting = NoEvent

StartNext ==
    \/ \E e \in Events : StartEvent(e)
    \/ StartEventStep
    \/ /\ Free
       /\ StartWithTraceEventInfo \/ Clear
       /\ own' = FALSE
       /\ UNCHANGED <<starting, cbTei, teiCapacity, teiBuffer>>
    \/ /\ Free
       /\ \/ Reset
          \/ MoveNext
          \/ MoveNextSibling
          \/ MoveNextSiblingLoop
          \/ FindEventAttribute
          \/ SetTimestampFormat
          \/ PreviewEvent
          \/ SetPointerSizeFallback
       /\ UNCHANGED <<starting, cbTei, teiVars>>

\* As in EtwEnumerator; a call of StartEvent, once made, runs to its return.
StartFairness ==
    /\ WF_startVars(StartEventStep)
    /\ WF_startVars(MoveNextSiblingLoop /\ UNCHANGED <<starting, cbTei, teiVars>>)
    /\ WF_startVars(Free /\ MoveNext /\ UNCHANGED <<starting, cbTei, teiVars>>)

StartSpec == InitStart /\ [][StartNext]_startVars /\ StartFairness

-----------------------------------------------------------------------------
(* Properties. *)

\* The tei of the current event is the one that m_teiBuffer holds, if it is
\* there at all: every path out of StartEvent, after the callback has written
\* to the buffer or the buffer has moved, leaves an event that is safe to use.
TeiIsCurrent == Free /\ own => event # NoEvent /\ teiBuffer = event

\* `while (e.MoveNext())` ends: an owner that keeps moving and does not start
\* over for ever reaches a state where MoveNext may not be called again.
EveryPassEnds ==
    []<>~Positioned \/ []<><<Reset>>_vars \/ []<><<StartWithTraceEventInfo>>_vars \/ []<>~Free

\* StartEvent returns, whatever sizes the callback asks for.
StartReturns == ~Free ~> Free
=============================================================================

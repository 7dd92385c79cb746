------------------------ MODULE EtwAttributesResult -------------------------
(***************************************************************************)
(* What the calls of EtwAttributes return, compared with the pairs that    *)
(* EtwAttributeList says are in the string.                                *)
(***************************************************************************)
EXTENDS EtwAttributes, EtwAttributeList

Returned == step = "idle" /\ lastError # "OUTOFMEMORY"

\* The first that a list has with a name, if any.
Named(all, name) == {k \in 1 .. Len(all) : all[k].name = name}
ValueOf(all, name) == all[First(Named(all, name))].value

\* SplitEventAttributes lists the pairs of the string, as many of them as the
\* caller has room for, and says how many there are.
SplitIsRight ==
    LET all == PairsOf(string)
    IN  /\ count = Len(all)
        /\ pairs = SubSeq(all, 1, IF call.room < count THEN call.room ELSE count)
        /\ lastError = IF count <= call.room THEN "SUCCESS" ELSE "INSUFFICIENT_BUFFER"

\* FindEventAttribute finds the first of the string's pairs that has the name.
FindIsRight ==
    LET all == PairsOf(string)
    IN  IF Named(all, call.name) = {} THEN lastError = "NOT_FOUND"
        ELSE lastError = "SUCCESS" /\ output = ValueOf(all, call.name)

\* Split and Find read every string alike: quoted or not, with doubled quotes,
\* with quotes that are not closed, with empty names, values and attributes.
ReadsAsListed ==
    Returned =>
      /\ call.op = "Split" => SplitIsRight
      /\ call.op = "Find"  => FindIsRight

\* "FILE+LINE not available. Fall back to IDvVERSION." (EtwEnumerator_Format.cpp:2555):
\* the name of an event is both of the attributes or neither.
EventNameIsWhole ==
    LET all == PairsOf(string)
    IN  Returned /\ call.op = "EventName" =>
          output = IF Named(all, FILE) # {} /\ Named(all, LINE) # {}
                   THEN ValueOf(all, FILE) \o ValueOf(all, LINE)
                   ELSE <<IdVersion>>
==============================================================================

------------------------------- MODULE EtwItems -------------------------------
(***************************************************************************)
(* The items of an event, defined by recursive descent over its tei: what  *)
(* "each field in the order the field appears in the event's payload"      *)
(* means, with no cursor, stack or sub-state.  It shares with the          *)
(* enumerator only the size rules of EtwTypes.  For TLC alone: recursive   *)
(* operators are out of the provers' reach.                                *)
(***************************************************************************)
EXTENDS EtwTypes

Entry(kind, path, pos, size, type) ==
    [kind |-> kind, path |-> path, pos |-> pos, size |-> size, type |-> type]

(***************************************************************************)
(* A decoding so far: the items found, the payload position, the values    *)
(* seen, and whether it can go on.  A path is the chain of <<property,     *)
(* array index>> pairs from the top level to an item.                      *)
(***************************************************************************)
NothingYet(e) ==
    [items  |-> << >>, pos |-> 0, ok |-> TRUE,
     values |-> [i \in DOMAIN e.tei.props |-> Word - 1]]

Found(st, entry) == [st EXCEPT !.items = Append(@, entry)]
Failed(st)       == [st EXCEPT !.ok = FALSE]

ValueFound(e, i, kind, path, st) ==
    LET epi    == e.tei.props[i]
        extent == ValueExtent(epi, st.values, e.pointerSize, e.UserData, st.pos)
        next   == [Found(st, Entry(kind, path, st.pos + extent.skip, extent.cooked,
                                   CookedInType(epi.InType)))
                     EXCEPT !.pos = @ + extent.raw]
    IN  CASE epi.InType \notin SupportedTypes
               \/ extent.raw > Len(e.UserData) - st.pos -> Failed(st)
          [] epi.InType \in RememberedTypes
               /\ kind = "Value_Scalar" ->
               [next EXCEPT !.values[i] = RememberedValue(epi.InType, e.UserData, st.pos)]
          [] OTHER -> next

RECURSIVE Group(_, _, _, _, _), Elements(_, _, _, _, _, _)

StructFound(e, i, path, st) ==
    LET epi   == e.tei.props[i]
        Mark(s, kind) == Found(s, Entry(kind, path, s.pos, 0, "NULL"))
        inner == Group(e, epi.StructStartIndex, epi.StructStartIndex + epi.NumOfStructMembers,
                       path, Mark(st, "StructBegin"))
    IN  IF inner.ok THEN Mark(inner, "StructEnd") ELSE inner

\* The elements k .. n - 1 of the array property i.
Elements(e, i, outer, k, n, st) ==
    LET path == Append(outer, <<i, k>>)
        epi  == e.tei.props[i]
        one  == IF "Struct" \in epi.Flags THEN StructFound(e, i, path, st)
                ELSE ValueFound(e, i, IF epi.InType \in SimpleTypes
                                      THEN "Value_SimpleArrayElement"
                                      ELSE "Value_ComplexArrayElement", path, st)
    IN  IF k = n \/ ~st.ok THEN st ELSE Elements(e, i, outer, k + 1, n, one)

ArrayFound(e, i, outer, n, st) ==
    LET epi     == e.tei.props[i]
        struct  == "Struct" \in epi.Flags
        size    == IF struct THEN 0 ELSE n * ElementSize(epi.InType, e.pointerSize)
        type    == IF struct THEN "NULL" ELSE CookedInType(epi.InType)
        Mark(s, kind, k, cb) == Found(s, Entry(kind, Append(outer, <<i, k>>), s.pos, cb, type))
        inner   == Elements(e, i, outer, 0, n, Mark(st, "ArrayBegin", 0, size))
    IN  IF \/ ~struct /\ epi.InType \notin SupportedTypes
           \/ size > Len(e.UserData) - st.pos
        THEN Failed(st)
        ELSE IF inner.ok THEN Mark(inner, "ArrayEnd", n, 0) ELSE inner

PropertyFound(e, i, outer, st) ==
    LET epi  == e.tei.props[i]
        path == Append(outer, <<i, 0>>)
    IN  CASE "ParamCount" \in epi.Flags -> ArrayFound(e, i, outer, st.values[epi.count], st)
          [] "ParamCount" \notin epi.Flags
               /\ (epi.count # 1 \/ "ParamFixedCount" \in epi.Flags) ->
               ArrayFound(e, i, outer, epi.count, st)
          [] OTHER -> IF "Struct" \in epi.Flags THEN StructFound(e, i, path, st)
                      ELSE ValueFound(e, i, "Value_Scalar", path, st)

\* The properties first .. end - 1, one after the other until one fails.
Group(e, first, end, outer, st) ==
    IF first = end \/ ~st.ok THEN st
    ELSE Group(e, first + 1, end, outer, PropertyFound(e, first, outer, st))

\* The items of event e, and whether they are all of them.
ItemsOf(e) ==
    LET all == Group(e, 0, e.tei.TopLevelPropertyCount, << >>, NothingYet(e))
    IN  [items |-> all.items, complete |-> all.ok]
=============================================================================

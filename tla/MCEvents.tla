------------------------------ MODULE MCEvents ------------------------------
(***************************************************************************)
(* Events for model checking: one small tei and payload for every way a    *)
(* property can be laid out, decoded or cut short.                         *)
(***************************************************************************)
EXTENDS EtwTypes

\* A property: P(flags, in-type, count, length); S(flags, count, first, members).
P(flags, t, count, length) ==
    [Flags |-> flags, InType |-> t, OutType |-> "NULL", count |-> count,
     length |-> length, StructStartIndex |-> 0, NumOfStructMembers |-> 0]
V(t) == P({}, t, 1, 0)
S(flags, count, first, members) ==
    [P({"Struct"} \cup flags, "NULL", count, 0)
        EXCEPT !.StructStartIndex = first, !.NumOfStructMembers = members]

Event(topCount, props, data, pointerSize) ==
    [tei |-> [DecodingSource |-> "Other", PropertyCount |-> Len(props),
              TopLevelPropertyCount |-> topCount,
              props |-> [i \in 0 .. Len(props) - 1 |-> props[i + 1]]],
     UserData |-> data, pointerSize |-> pointerSize]

Flat(props, data) == Event(Len(props), props, data, 0)

Empty == Flat(<< >>, << >>)
Wpp   == [Empty EXCEPT !.tei.DecodingSource = "WPP"]

Scalars == <<V("UINT32"), V("UINT8"), V("INT16")>>
Counts  == {"ParamCount"}
Lengths == {"ParamLength"}

\* A count and the array it counts; the array may be cut short.
Counted(t, data)  == Flat(<<V("UINT8"), P(Counts, t, 0, 0)>>, data)
\* A length and the value it measures.
Measured(t, data) == Flat(<<V("UINT16"), P(Lengths, t, 1, 0)>>, data)

\* struct { UINT8 n; INT16 a[n]; } s[2]; UINT8
Records == Event(2, <<S({}, 2, 2, 2), V("UINT8"),
                      V("UINT8"), P(Counts, "INT16", 2, 0)>>,
                 <<1, 5, 5, 0, 9>>, 0)

\* struct { struct { } s1; struct { UINT8 } s2[1]; } s; BOOLEAN, cut short
Nested == Event(2, <<S({}, 1, 2, 2), V("BOOLEAN"),
                     S({}, 1, 4, 0), S({"ParamFixedCount"}, 1, 4, 1),
                     V("UINT8")>>, <<7, 1, 2>>, 0)

\* Arrays of no elements: simple, complex and struct.
Zeroes == Event(3, <<P({}, "UINT16", 0, 0), P({}, "ANSISTRING", 0, 0), S({}, 0, 3, 1),
                     V("UINT8")>>, << >>, 0)

\* The count comes from a property that is decoded later.
Forward == Flat(<<P(Counts, "UINT8", 1, 0), V("UINT8")>>, <<3, 1, 2>>)
\* struct { struct { UINT8 } inner; INT8 a[2]; } s; UINT8, all of it present.
Untruncated == Event(2, <<S({}, 1, 2, 2), V("UINT8"),
                          S({}, 1, 4, 1), P({}, "INT8", 2, 0),
                          V("UINT8")>>, <<1, 2, 3, 4>>, 0)

\* Events with arrays and structs.
Structured ==
    { Records, Nested, Zeroes, Forward, Untruncated,
      Counted("INT32", <<1, 9, 9, 9, 9>>),
      Counted("UINT16", <<2, 9, 9, 9>>),
      Counted("ANSISTRING", <<2, 65, 0, 66>>),
      Counted("COUNTEDSTRING", <<2, 1, 0, 65, 1, 1>>),
      Counted("Unsupported", <<1, 1>>) }

\* Events whose properties are all scalars.
Unstructured ==
    { Empty,
      Flat(Scalars, <<1, 2, 0, 0, 3, 4, 4>>),
      Flat(Scalars, <<1, 2, 3, 0, 3>>),
      Measured("UNICODESTRING", <<1, 0, 65, 0>>),
      Measured("UNICODESTRING", <<1, 128, 65, 0>>),     \* 2 * length wraps
      Measured("BINARY", <<3, 0, 65, 0>>),
      Flat(<<V("Unsupported")>>, <<1>>),
      Flat(<<V("UNICODESTRING"), V("NULL")>>, <<65, 0, 0, 0, 1>>),
      Flat(<<V("NONNULLTERMINATEDSTRING")>>, <<65, 0, 1>>),
      Flat(<<V("SID")>>, <<1, 0, 0, 0, 0, 0, 0, 5>>),
      Flat(<<V("COUNTEDANSISTRING"), V("HEXDUMP")>>, <<1, 0, 65, 1, 0, 0, 0, 66>>) }

\* Events with pointers: the size comes from the event or from the fallback.
Pointers ==
    { Event(2, <<V("POINTER"), P({"ParamFixedCount"}, "SIZET", 1, 0)>>,
            <<1, 0, 0, 0, 2, 0, 0, 0, 3>>, 4),
      Flat(<<P({}, "POINTER", 2, 0)>>, <<1, 0, 0, 0, 2, 0, 0, 0>>) }

AllEvents == UNION {Structured, Unstructured, Pointers, {Wpp}}
=============================================================================

----------------------------- MODULE EtwJsonText -----------------------------
(***************************************************************************)
(* The JSON text of a list of items, by recursive descent over the list:   *)
(* the members of the event, an Object for a struct and an Array for an    *)
(* array.  A text is a sequence of tokens.  For TLC alone: recursive       *)
(* operators are out of the provers' reach.                                *)
(***************************************************************************)
EXTENDS Integers, Sequences, SequencesExt, EtwJsonTokens

IsEnd(entry) == entry.kind \in {"ArrayEnd", "StructEnd"}
PropertyOf(entry) == Last(entry.path)[1]

\* Item i is an element of an array: its ArrayBegin has the same property
\* inside the same outer items.
IsElement(items, i) ==
    \E j \in 1 .. i - 1 :
        /\ items[j].kind = "ArrayBegin"
        /\ Front(items[j].path) = Front(items[i].path)
        /\ PropertyOf(items[j]) = PropertyOf(items[i])

RECURSIVE Node(_, _, _), Nodes(_, _, _)

\* The text of the item at i, and the index of the item after it.
Node(items, i, named) ==
    LET entry == items[i]
        inner == Nodes(items, i + 1, entry.kind = "StructBegin")
        label == IF named THEN <<Name(PropertyOf(entry))>> ELSE << >>
    IN  CASE entry.kind = "ArrayBegin" ->
               [text |-> label \o <<<<"[">>>> \o inner.text \o <<<<"]">>>>, next |-> inner.next + 1]
          [] entry.kind = "StructBegin" ->
               [text |-> label \o <<<<"{">>>> \o inner.text \o <<<<"}">>>>, next |-> inner.next + 1]
          [] OTHER ->
               [text |-> Append(label, Value(PropertyOf(entry), entry.pos, entry.size)),
                next |-> i + 1]

\* The comma-separated texts of the items from i to the end of their group.
Nodes(items, i, named) ==
    IF i > Len(items) \/ IsEnd(items[i]) THEN [text |-> << >>, next |-> i]
    ELSE LET first == Node(items, i, named)
             rest  == Nodes(items, first.next, named)
         IN  [text |-> first.text \o (IF rest.text = << >> THEN << >> ELSE <<Comma>>) \o rest.text,
              next |-> rest.next]

Separated(tokens) ==
    FlattenSeq([k \in 1 .. Len(tokens) |->
                  IF k = 1 THEN <<tokens[k]>> ELSE <<Comma, tokens[k]>>])

\* The text of an event: its members, then `"meta"` and the fields shown.
EventText(items, suffix, shown) ==
    LET members == Nodes(items, 1, TRUE).text
        meta    == <<<<"meta{">>>> \o Separated(shown) \o <<<<"}">>>>
        both    == members # << >> /\ suffix
    IN  <<<<"{">>>> \o members \o (IF both THEN <<Comma>> ELSE << >>)
        \o (IF suffix THEN meta ELSE << >>) \o <<<<"}">>>>
=============================================================================

------------------------------ MODULE EtwCursor ------------------------------
(***************************************************************************)
(* What the enumerator promises its owner: a cursor over the list of the   *)
(* items of the current event.                                             *)
(*                                                                         *)
(* The list is fixed by the event: moving, skipping and starting over do   *)
(* not change it.  MoveNext goes to the next item; MoveNextSibling, in one *)
(* step, goes from a begin to the item after its end.  A list may be cut   *)
(* short where the payload or the tei cannot be decoded, and entering a    *)
(* struct may fail for lack of memory; both leave the cursor Stopped.      *)
(***************************************************************************)
EXTENDS Integers, Sequences

CONSTANTS
    Lists,       (* the lists of items, [items, complete], of the events that
                    may be started                                            *)
    NoList       (* no event is being enumerated                              *)

VARIABLES
    list,        (* the items of the current event                            *)
    index        (* 0 before the first item, Len + 1 after the last, Stopped
                    after an error                                            *)

Stopped == -1

items == list.items
Last  == Len(items)

IsBegin(entry) == entry.kind \in {"ArrayBegin", "StructBegin"}

\* The begin and the end of an array or struct carry the same property, at
\* the same place; an array's end carries its count as its array index.
IsEndOf(end, begin) ==
    LET d == Len(begin.path)
    IN  /\ Len(end.path) = d
        /\ \/ begin.kind = "StructBegin" /\ end.kind = "StructEnd"
              /\ end.path = begin.path
           \/ /\ begin.kind = "ArrayBegin" /\ end.kind = "ArrayEnd"
              /\ \A k \in 1 .. d - 1 : end.path[k] = begin.path[k]
              /\ end.path[d][1] = begin.path[d][1]

\* The index of the matching end of the begin at i; one more than the last
\* index if the list is cut short before it.
EndOf(i) ==
    LET ends == {j \in i + 1 .. Last : IsEndOf(items[j], items[i])}
    IN  IF ends = {} THEN Last + 1 ELSE CHOOSE j \in ends : TRUE

Init == list = NoList /\ index = 0

Start == list' \in Lists /\ index' = 0

Leave == list' = NoList /\ index' = 0

Reset == list # NoList /\ index' = 0 /\ UNCHANGED list

CanMove == list # NoList /\ index \in 0 .. Last

\* Where going past item i leads: to the next one, to the end of a complete
\* list, or to a stop where the list is cut short.
Past(i) ==
    CASE i < Last                     -> i + 1
      [] i >= Last /\ list.complete  -> Last + 1
      [] i >= Last /\ ~list.complete -> Stopped

MoveNext == CanMove /\ index' = Past(index) /\ UNCHANGED list

\* A sibling move at anything but a begin is a MoveNext.
MoveNextSibling ==
    /\ CanMove
    /\ \E i \in {index} \ {0} :
         /\ IsBegin(items[i])
         /\ index' = IF EndOf(i) <= Last THEN Past(EndOf(i)) ELSE Stopped
    /\ UNCHANGED list

\* Entering a struct takes memory: a move out of the struct's begin may fail,
\* and so may a sibling move that starts or comes by there.
OutOfMemory ==
    /\ CanMove
    /\ index' = Stopped
    /\ \E i \in {index} \ {0} :
         \E j \in i .. IF IsBegin(items[i]) THEN EndOf(i) - 1 ELSE i :
            items[j].kind = "StructBegin"
    /\ UNCHANGED list

Next ==
    \/ Start
    \/ Leave
    \/ Reset
    \/ MoveNext
    \/ MoveNextSibling
    \/ OutOfMemory

Spec == Init /\ [][Next]_<<list, index>>
=============================================================================

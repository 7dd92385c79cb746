------------------------------- MODULE EtwPlace -------------------------------
(***************************************************************************)
(* Where the enumerator is in the list of the event's items.  Serves the   *)
(* modules that compare the enumerator, or what is built on it, with that  *)
(* list.                                                                   *)
(***************************************************************************)
EXTENDS EtwEnumerator, SequencesExt

\* The items of an event and whether they are all of them.  The runs give it
\* the list that EtwItems finds by recursive descent; it is a parameter so that
\* what does not depend on the list can be proved.
CONSTANT ListOf(_)

\* The list of the current event: a history variable.
VARIABLE list

NoList == [none |-> TRUE]
Lists  == {ListOf(e) : e \in Events}

InitList == list = NoList

ListFollowsEvent ==
    list' = CASE event' = NoEvent                      -> NoList
              [] event' # NoEvent /\ event' = event    -> list
              [] event' # NoEvent /\ event' # event    -> ListOf(event')

\* What GetItemInfo and the stack say of the current item.
CurrentEntry ==
    LET Pair(s) == <<s.PropertyIndex, s.ArrayIndex>>
    IN  [kind |-> subState, pos |-> item.pos, size |-> item.cooked, type |-> item.type,
         path |-> [k \in 1 .. Len(stack) + 1 |->
                     IF k <= Len(stack) THEN Pair(stack[k]) ELSE Pair(top)]]

\* Stopped is the place after an error; Lost is a place in no list.
Stopped == -1
Lost    == -2

Place ==
    CASE subState \in {"None", "BeforeFirstItem"} -> 0
      [] subState = "Error"         -> Stopped
      [] subState = "AfterLastItem" -> Len(list.items) + 1
      [] OTHER -> LET entry == CurrentEntry
                      here  == SelectInSeq(list.items, LAMBDA x : x = entry)
                  IN  IF here = 0 THEN Lost ELSE here
=============================================================================

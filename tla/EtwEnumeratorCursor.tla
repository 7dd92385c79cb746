------------------------- MODULE EtwEnumeratorCursor -------------------------
(***************************************************************************)
(* The enumerator implements the cursor: a refinement mapping from the     *)
(* state of EtwEnumerator to that of EtwCursor.                            *)
(*                                                                         *)
(* A call of MoveNextSibling is one step of the cursor: while its loop     *)
(* runs the cursor is still where the call found it, which the history     *)
(* variable `from` remembers.                                              *)
(***************************************************************************)
EXTENDS EtwPlace

VARIABLE from

Cursor == INSTANCE EtwCursor WITH
    index <- IF sibling.running THEN from ELSE Place

CursorInit == Init /\ InitList /\ from = 0

CursorNext ==
    /\ Next
    /\ ListFollowsEvent
    /\ from' = IF ~sibling'.running THEN 0 ELSE IF sibling.running THEN from ELSE Place

CursorSpec == CursorInit /\ [][CursorNext]_<<vars, list, from>>

-----------------------------------------------------------------------------
\* The enumerator is a cursor over the event's items: every move visits the
\* next item of the list and skips none, MoveNextSibling returns at the item
\* after the matching end whether or not it took the shortcut for simple
\* arrays, Reset finds the same list again, and errors arise exactly where
\* the list is cut short or memory runs out.
ImplementsCursor == Cursor!Spec
=============================================================================

------------------------ MODULE MCEtwEnumeratorCursor ------------------------
(***************************************************************************)
(* EtwEnumeratorCursor with the events of MCEvents that have arrays and    *)
(* structs: simple, complex, nested and empty, whole and cut short; and    *)
(* two whose first item is already the end.                                *)
(***************************************************************************)
EXTENDS EtwEnumeratorCursor, MCEvents

Reference == INSTANCE EtwItems
MCListOf(e) == Reference!ItemsOf(e)

CursorEvents ==
    { Records, Nested, Zeroes, Untruncated,
      Counted("UINT16", <<2, 9, 9, 9>>),
      Counted("ANSISTRING", <<2, 65, 0, 66>>),
      Flat(<<V("Unsupported")>>, <<1>>), Empty }
=============================================================================

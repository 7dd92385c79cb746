--------------------------- MODULE MCEtwEnumerator ---------------------------
(***************************************************************************)
(* EtwEnumerator with the events of MCEvents: all of them for the safety   *)
(* properties, a few for the disagreement about LastError.                 *)
(***************************************************************************)
EXTENDS EtwEnumerator, MCEvents

LoopEvents ==
    { Records, Nested, Zeroes,
      Counted("UINT16", <<2, 9, 9, 9>>),
      Counted("ANSISTRING", <<2, 65, 0, 66>>) }
==============================================================================

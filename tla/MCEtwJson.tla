------------------------------ MODULE MCEtwJson ------------------------------
(***************************************************************************)
(* EtwJson with arrays and structs, nested, empty, whole and cut short; a  *)
(* prefix or none; and none, one or two fields of metadata.                *)
(***************************************************************************)
EXTENDS EtwJsonResult, MCEvents

Reference == INSTANCE EtwItems
MCListOf(e) == Reference!ItemsOf(e)

JsonEvents ==
    { Records, Nested, Zeroes, Empty, Counted("UINT16", <<2, 9, 9, 9>>) }

JsonShown    == { << >>, <<<<"provider">>>>, <<<<"provider">>, <<"pid">>>> }
JsonPrefixes == { << >>, <<<<"prefix">>>> }
==============================================================================

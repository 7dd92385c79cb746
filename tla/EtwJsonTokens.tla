---------------------------- MODULE EtwJsonTokens ----------------------------
(***************************************************************************)
(* The tokens of a JSON text: a comma, a member's name, a value.  A        *)
(* bracket or brace is a token of its own character, and "meta{" is the    *)
(* name of the metadata member with its brace.                             *)
(***************************************************************************)
Openings == {<<"[">>, <<"{">>, <<"meta{">>}
Closings == {<<"]">>, <<"}">>}

Comma == <<",">>
Name(propertyIndex) == <<"name", propertyIndex>>
Value(propertyIndex, pos, size) == <<"value", propertyIndex, pos, size>>
=============================================================================

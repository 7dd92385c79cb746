--------------------------- MODULE MCEtwAttributes ---------------------------
(***************************************************************************)
(* EtwAttributes with every string of up to five characters, and what the  *)
(* calls return compared with EtwAttributeList.                            *)
(***************************************************************************)
EXTENDS EtwAttributesResult

MCStrings == UNION {[1 .. n -> {"FILE", "LINE", "=", ";", Quote}] : n \in 0 .. 5}
==============================================================================

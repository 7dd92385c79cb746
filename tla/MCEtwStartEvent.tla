--------------------------- MODULE MCEtwStartEvent ---------------------------
(***************************************************************************)
(* EtwStartEvent with an event that has loops inside loops, one that has a *)
(* simple array, and one that is refused; the callback asks for two sizes, *)
(* each of which takes another capacity of m_teiBuffer.                    *)
(***************************************************************************)
EXTENDS EtwStartEvent, MCEvents

\* struct { struct { } inner[2]; } outer; UINT8.
Inner == Event(2, <<S({}, 1, 2, 1), V("UINT8"), S({}, 2, 3, 0)>>, <<1>>, 0)

StartEvents == { Inner, Flat(<<P({}, "UINT16", 1, 0)>>, <<1, 2>>), Wpp }
==============================================================================

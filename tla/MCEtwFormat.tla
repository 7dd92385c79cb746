----------------------------- MODULE MCEtwFormat -----------------------------
(***************************************************************************)
(* EtwFormat with strings that refer to themselves, to each other and to   *)
(* arrays and structs, messages and parameter messages that do, payloads   *)
(* that are cut short, and parameters that do not resolve.                 *)
(***************************************************************************)
EXTENDS EtwFormatResult, MCEvents

Reference == INSTANCE EtwItems
MCListOf(e) == Reference!ItemsOf(e)

\* Characters 1 to 4 stand for references; 0 for a nul.
MCCharacters ==
    [b \in BYTE |->
       CASE b = 0 -> Nul
         [] b \in 1 .. 3 -> PropertyRef(b, "default")
         [] b = 4 -> ParameterRef(1)
         [] b = 32 -> Space
         [] OTHER -> Literal("c")]

\* "c%1%2" and, with a nul in it, "%1 c".
Strings == Flat(<<V("ANSISTRING"), V("COUNTEDANSISTRING")>>, <<65, 1, 2, 0, 3, 0, 1, 0, 66>>)

\* "%%1%2", UINT8 [2], struct { UINT8 }.
Mixed == Event(3, <<V("UNICODESTRING"), P({}, "UINT8", 2, 0), S({}, 1, 3, 1), V("UINT8")>>,
               <<4, 0, 2, 0, 0, 0, 7, 8, 9>>, 0)

CutShort == Counted("UINT16", <<2, 9, 9, 9>>)

FormatEvents == {Strings, Mixed, CutShort}

\* %%1 refers to %1 and to itself, %%4 to %%2; %%2 and %%3 do not resolve.
MCParameters ==
    << [status |-> "SUCCESS", text |-> <<PropertyRef(1, "default"), ParameterRef(1), LineEnd>>],
       [status |-> "MR_MID_NOT_FOUND", text |-> << >>],
       [status |-> "NOT_FOUND", text |-> << >>],
       [status |-> "SUCCESS", text |-> <<Literal("p"), ParameterRef(2)>>] >>

Default(n) == PropertyRef(n, "default")

MCMessages ==
    { << Variable("LEVEL"), ParameterRef(1), Default(1), Space >>,
      << Default(2), PropertyRef(2, "printf"), PropertyRef(1, "S") >>,
      << Default(3), PropertyRef(1, "printf"), Default(2), Default(0) >>,
      << Default(1), ParameterRef(4), Space >>,
      << ParameterRef(3), ParameterRef(2) >> }

MCPrefixes ==
    { << >>, << Default(9), PropertyRef(8, "printf"), ParameterRef(1) >>,
      << ParameterRef(2) >> }

MCShown == { <<<<"provider">>>> }
==============================================================================

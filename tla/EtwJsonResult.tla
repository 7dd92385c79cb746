---------------------------- MODULE EtwJsonResult ----------------------------
(***************************************************************************)
(* What a call that formats as JSON should return, by EtwJsonText, and     *)
(* where it should leave the enumerator.                                   *)
(***************************************************************************)
EXTENDS EtwJson

Text == INSTANCE EtwJsonText

\* A call that succeeds returns the JSON of the whole item or event: every
\* member once, in order, named where it is a member and not where it is an
\* element, brackets matched and commas exactly between neighbours.
JsonIsRight ==
    Returned =>
      LET items == list.items
          i     == request.from
      IN  output =
            CASE request.event -> request.prefix \o Text!EventText(items, request.suffix, request.shown)
              [] ~request.event /\ i = 0 -> Text!Nodes(items, 1, TRUE).text
              [] OTHER -> Text!Node(items, i, request.name /\ ~Text!IsElement(items, i)).text

\* A call that succeeds leaves the enumerator where the documentation says:
\* at AfterLastItem for an event, "as if by a single call to
\* MoveNextSibling()" for an item (EtwEnumerator.h:1078-1086).
JsonMovesToSibling ==
    Returned =>
      IF request.from = 0 THEN subState = "AfterLastItem" /\ list.complete
      ELSE Place = Text!Node(list.items, request.from, FALSE).next
=============================================================================

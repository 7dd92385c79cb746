------------------------------- MODULE EtwText -------------------------------
(***************************************************************************)
(* Appending to a string buffer: AppendWide, AppendPrintfV, AppendMbcs,    *)
(* AppendStringAsJson and the room that AppendIPv6 reserves.               *)
(*                                                                         *)
(* Each of them asks a Buffer<wchar_t> for room, which may be refused, and *)
(* writes through a pointer into it.  EtwBuffer shows what a Buffer does   *)
(* to make room; here it has the room or grows to one of its capacities.   *)
(* A call is started by BeginAppend, takes the steps below, and leaves its *)
(* result in `status`.                                                     *)
(***************************************************************************)
EXTENDS EtwCharacters

CONSTANTS
    Buffers,         (* the string buffers                                     *)
    Capacities,      (* the capacities that a buffer may grow to               *)
    InlineCapacity,  (* the static capacity of each buffer                     *)
    PrintfGrowth     (* by how much AppendPrintfV asks for more: 100           *)

ASSUME TextAssumption ==
    /\ Capacities \subseteq Nat
    /\ InlineCapacity \in [Buffers -> Nat]
    /\ PrintfGrowth \in Nat \ {0}

VARIABLES
    text,      (* the characters of each buffer, as many as its size()           *)
    capacity,  (* capacity() of each buffer                                      *)
    append,    (* the call that runs, and what it has done                       *)
    status     (* what the last call returned                                    *)

textVars == <<text, capacity, append, status>>

Functions == {"wide", "printf", "mbcs", "json", "reserved"}

NoAppend == [fn |-> "none"]
Appending == append # NoAppend

InitText ==
    /\ text = [b \in Buffers |-> << >>]
    /\ capacity = InlineCapacity
    /\ append = NoAppend
    /\ status = "SUCCESS"

-----------------------------------------------------------------------------
(* The call and its return. *)

\* fn(text[to], chars); `count` is the number of bytes of a multi-byte string,
\* or the room that is reserved.
BeginAppend(fn, to, chars, count) ==
    append' = [fn |-> fn, to |-> to, chars |-> chars, count |-> count,
               before |-> text[to], begun |-> FALSE, next |-> 0, offset |-> 0]

Runs(fn) == Appending /\ append.fn = fn

Returns(result) == append' = NoAppend /\ status' = result

Size      == Len(text[append.to])
Available == capacity[append.to] - Size

\* reserve(n), or the growth in resize(n).
MakesRoom(n) ==
    \/ n <= capacity[append.to] /\ UNCHANGED capacity
    \/ /\ n > capacity[append.to]
       /\ \E c \in Capacities : n <= c /\ capacity' = [capacity EXCEPT ![append.to] = c]

RoomRefused(n) == n > capacity[append.to] /\ UNCHANGED capacity

SetText(s) == text' = [text EXCEPT ![append.to] = s]

OutOfMemory == Returns("OUTOFMEMORY") /\ UNCHANGED text

-----------------------------------------------------------------------------
(* AppendWide, and with it AppendLiteral, AppendHexDump and push_back. *)

Wide ==
    LET n == Size + Len(append.chars)
    IN  /\ Runs("wide")
        /\ \/ MakesRoom(n) /\ SetText(text[append.to] \o append.chars) /\ Returns("SUCCESS")
           \/ RoomRefused(n) /\ OutOfMemory

-----------------------------------------------------------------------------
(* AppendPrintfV: _vsnwprintf says whether the text fits, not how long it is. *)

PrintfFits ==
    /\ Runs("printf")
    /\ Len(append.chars) <= Available
    /\ SetText(text[append.to] \o append.chars)
    /\ Returns("SUCCESS")
    /\ UNCHANGED capacity

PrintfGrows ==
    /\ Runs("printf")
    /\ Len(append.chars) > Available
    /\ \/ /\ MakesRoom(capacity[append.to] + PrintfGrowth)
          /\ UNCHANGED <<text, append, status>>
       \/ RoomRefused(capacity[append.to] + PrintfGrowth) /\ OutOfMemory

-----------------------------------------------------------------------------
(***************************************************************************)
(* AppendMbcs.  MultiByteToWideChar writes what fits, fails with           *)
(* ERROR_INSUFFICIENT_BUFFER when that is not all, and, when it is given   *)
(* no room, returns the room it needs.                                     *)
(***************************************************************************)

\* `(void)output.reserve(cb + oldSize)`: whether there is room shows later.
MbcsReserves ==
    /\ Runs("mbcs")
    /\ ~append.begun
    /\ \/ /\ append.count = 0
          /\ Returns("SUCCESS")
          /\ UNCHANGED <<text, capacity>>
       \/ /\ append.count > 0
          /\ MakesRoom(Size + append.count) \/ RoomRefused(Size + append.count)
          /\ append' = [append EXCEPT !.begun = TRUE]
          /\ UNCHANGED <<text, status>>

Converting == Runs("mbcs") /\ append.begun

MbcsFits ==
    /\ Converting
    /\ Available > 0
    /\ Len(append.chars) <= Available
    /\ SetText(text[append.to] \o append.chars)
    /\ Returns("SUCCESS")
    /\ UNCHANGED capacity

MbcsGrows ==
    /\ Converting
    /\ Available > 0
    /\ Len(append.chars) > Available
    /\ \/ MakesRoom(Size + Len(append.chars)) /\ UNCHANGED <<text, append, status>>
       \/ RoomRefused(Size + Len(append.chars)) /\ OutOfMemory

MbcsFails ==
    /\ Converting
    /\ Available > 0
    /\ Returns("CONVERSION_ERROR")
    /\ UNCHANGED <<text, capacity>>

\* The room it needs is taken for the number of characters written:
\* ASSERT(static_cast<unsigned>(result) <= availableCapacity).
MbcsAsserts ==
    /\ Converting
    /\ Available = 0
    /\ append.chars # << >>
    /\ Returns("ASSERT")
    /\ UNCHANGED <<text, capacity>>

-----------------------------------------------------------------------------
(***************************************************************************)
(* AppendStringAsJson: makes room for the string as if nothing had to be   *)
(* escaped, and for each escape resizes and moves its pointer (offset).    *)
(***************************************************************************)
BaseSize == Len(append.chars) + 1

\* resize(n), with `s` written from `first` on.
Resized(n, first, s) ==
    [k \in 1 .. n |-> IF k \in first .. first + Len(s) - 1 THEN s[k - first + 1]
                      ELSE IF k <= Size THEN text[append.to][k]
                      ELSE Unwritten]

JsonBegins ==
    LET offset == Size + 1
    IN  /\ Runs("json")
        /\ ~append.begun
        /\ \/ /\ MakesRoom(BaseSize + offset)
              /\ SetText(Resized(BaseSize + offset, offset, <<QuoteMark>>))
              /\ append' = [append EXCEPT !.begun = TRUE, !.offset = offset]
              /\ UNCHANGED status
           \/ RoomRefused(BaseSize + offset) /\ OutOfMemory

\* Mutant: the pointer is moved, the buffer not resized.
JsonCharacter_NotResized ==
    LET chars  == JsonEscape(append.chars[append.next + 1])
        offset == append.offset + Len(chars) - 1
    IN  /\ Runs("json")
        /\ append.begun
        /\ append.next < Len(append.chars)
        /\ SetText(Resized(IF Size < offset + append.next + 1 THEN offset + append.next + 1
                                                              ELSE Size,
                           append.offset + append.next + 1, chars))
        /\ append' = [append EXCEPT !.offset = offset, !.next = @ + 1]
        /\ UNCHANGED <<status, capacity>>

\* Mutant: the offset counts the character that is escaped once more.
JsonCharacter_CountedTwice ==
    LET chars  == JsonEscape(append.chars[append.next + 1])
        offset == append.offset + (IF Len(chars) = 1 THEN 0 ELSE Len(chars))
    IN  /\ Runs("json")
        /\ append.begun
        /\ append.next < Len(append.chars)
        /\ \/ /\ MakesRoom(BaseSize + offset)
              /\ SetText(Resized(BaseSize + offset, append.offset + append.next + 1, chars))
              /\ append' = [append EXCEPT !.offset = offset, !.next = @ + 1]
              /\ UNCHANGED status
           \/ RoomRefused(BaseSize + offset) /\ OutOfMemory

JsonCharacter ==
    LET chars  == JsonEscape(append.chars[append.next + 1])
        offset == append.offset + Len(chars) - 1
    IN  /\ Runs("json")
        /\ append.begun
        /\ append.next < Len(append.chars)
        /\ \/ /\ MakesRoom(BaseSize + offset)
              /\ SetText(Resized(BaseSize + offset, append.offset + append.next + 1, chars))
              /\ append' = [append EXCEPT !.offset = offset, !.next = @ + 1]
              /\ UNCHANGED status
           \/ RoomRefused(BaseSize + offset) /\ OutOfMemory

JsonEnds ==
    /\ Runs("json")
    /\ append.begun
    /\ append.next = Len(append.chars)
    /\ SetText([text[append.to] EXCEPT ![append.offset + append.next + 1] = QuoteMark])
    /\ Returns("SUCCESS")
    /\ UNCHANGED capacity

-----------------------------------------------------------------------------
(* AppendIPv6: one reservation, and then appends whose result is ignored. *)

Reserved ==
    /\ Runs("reserved")
    /\ \/ /\ MakesRoom(Size + append.count)
          /\ SetText(text[append.to] \o append.chars)
          /\ Returns("SUCCESS")
       \/ RoomRefused(Size + append.count) /\ OutOfMemory

-----------------------------------------------------------------------------
TextNext ==
    \/ Wide
    \/ PrintfFits
    \/ PrintfGrows
    \/ MbcsReserves
    \/ MbcsFits
    \/ MbcsGrows
    \/ MbcsFails
    \/ MbcsAsserts
    \/ JsonBegins
    \/ JsonCharacter
    \/ JsonEnds
    \/ Reserved

\* The owner of the buffers between two calls: starts one, drops characters
\* from the ends of buffers (clear, resize_unchecked) and forgets what the last
\* call returned, or replaces characters.
BeginAnyAppend ==
    \E fn \in Functions, to \in Buffers, chars \in Seq(Characters), count \in Nat :
        /\ fn = "reserved" => Len(chars) <= count
        /\ BeginAppend(fn, to, chars, count)
        /\ UNCHANGED <<text, capacity, status>>

Truncate ==
    /\ \E n \in [Buffers -> Nat] :
         /\ \A b \in Buffers : n[b] <= Len(text[b])
         /\ text' = [b \in Buffers |-> SubSeq(text[b], 1, n[b])]
    /\ status' \in {status, "SUCCESS"}
    /\ UNCHANGED <<capacity, append>>

\* ReplaceNulWithSpace, among others.
Replace ==
    /\ \E b \in Buffers, s \in Seq(Characters \cup {Unwritten}) :
         Len(s) = Len(text[b]) /\ text' = [text EXCEPT ![b] = s]
    /\ UNCHANGED <<capacity, append, status>>

TextSpec ==
    InitText /\ [][TextNext \/ (~Appending /\ (BeginAnyAppend \/ Truncate \/ Replace))]_textVars

-----------------------------------------------------------------------------
(* Properties. *)

\* A buffer never holds more characters than it has room for, so no write went
\* past its end: what resize_unchecked asserts, and what the pointer of
\* AppendStringAsJson relies on when it has moved by the length of each escape.
TextInBuffer == \A b \in Buffers : Len(text[b]) <= capacity[b]

\* An append leaves the characters before it alone, even when it fails, and
\* when it succeeds every character after them has been written: offsets that
\* were one too large would leave a hole, one too small would overwrite.
Begins(s, t) == Len(s) <= Len(t) /\ \A k \in 1 .. Len(s) : s[k] = t[k]

TextIsWhole ==
    [][Appending =>
         LET s == text'[append.to]
         IN  /\ Begins(append.before, s)
             /\ ~Appending' /\ status' = "SUCCESS" =>
                  \A k \in Len(append.before) + 1 .. Len(s) : s[k] \in Characters]_textVars
=============================================================================

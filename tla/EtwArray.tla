------------------------------- MODULE EtwArray -------------------------------
(***************************************************************************)
(* What a Buffer promises: a resizable array.  The first `size` of its     *)
(* `room` cells are in use.  A call that needs more room than there is     *)
(* waits, and then takes effect in one step or is refused and changes      *)
(* nothing.                                                                *)
(***************************************************************************)
EXTENDS Integers

CONSTANTS
    Values,       (* what may be stored in a cell                              *)
    Undefined     (* the content of a cell not yet written                     *)

VARIABLES
    cells,        (* the cells, [0 .. room - 1 -> Cell]                        *)
    size,         (* how many of them are in use                               *)
    room,         (* how many there are                                        *)
    call          (* the waiting call, [op, required, keep, value]             *)

Cell == Values \cup {Undefined}
Ready == call.op = "none"

Init ==
    /\ size = 0
    /\ room \in Nat
    /\ cells \in [0 .. room - 1 -> Cell]
    /\ Ready

\* With the room there is.
PushBack(v) ==
    /\ size < room
    /\ cells' = [cells EXCEPT ![size] = v]
    /\ size' = size + 1
    /\ UNCHANGED <<room, call>>

PopBack == size # 0 /\ size' = size - 1 /\ UNCHANGED <<cells, room, call>>

SetSize(n) == n <= room /\ size' = n /\ UNCHANGED <<cells, room, call>>

Write(i, v) == cells' = [cells EXCEPT ![i] = v] /\ UNCHANGED <<size, room, call>>

Renew ==
    /\ size' = 0
    /\ room' \in Nat
    /\ cells' \in [0 .. room' - 1 -> Cell]
    /\ UNCHANGED call

\* With more room.
Call ==
    /\ call'.op # "none"
    /\ room < call'.required
    /\ call'.op = "push_back" =>
         call'.required = size + 1 /\ call'.keep /\ call'.value \in Values
    /\ UNCHANGED <<cells, size, room>>

Grant ==
    /\ call'.op = "none"
    /\ room' \in Nat
    /\ room < room' /\ call.required <= room'
    /\ cells' \in [0 .. room' - 1 -> Cell]
    /\ call.keep => \A i \in 0 .. size - 1 : cells'[i] = cells[i]
    /\ call.op = "push_back" => cells'[size] = call.value
    /\ size' = IF call.op = "reserve" THEN size ELSE call.required

Refuse == call'.op = "none" /\ UNCHANGED <<cells, size, room>>

Next ==
    \/ /\ Ready
       /\ \/ \E v \in Values : PushBack(v)
          \/ PopBack
          \/ \E n \in 0 .. room : SetSize(n)
          \/ \E i \in 0 .. room - 1, v \in Values : Write(i, v)
          \/ Renew
          \/ Call
    \/ /\ ~Ready
       /\ Grant \/ Refuse

Spec == Init /\ [][Next]_<<cells, size, room, call>>
=============================================================================

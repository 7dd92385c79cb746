------------------------------ MODULE EtwBuffer ------------------------------
(***************************************************************************)
(* EtwInternal::Buffer: the growable array behind the enumerator's stack,  *)
(* remembered values, TDH buffers and strings.                             *)
(*                                                                         *)
(* A Buffer starts on an array inside the object, or on none, and moves to *)
(* the heap when it must grow.  An operation that has the room it needs is *)
(* one action.  One that has to Grow is a call of several steps: each      *)
(* iteration of the loop that picks the new capacity, then the allocation, *)
(* which may fail, the copy and the end of the operation.                  *)
(***************************************************************************)
EXTENDS Integers

CONSTANTS
    Values,            (* the items                                             *)
    Undefined,         (* the content of a cell not yet written                 *)
    Blocks,            (* the heap blocks HeapAlloc may return                  *)
    Null, Inline,      (* the other values of m_pData: nullptr, and this + 1    *)
    StaticCapacities,  (* the StaticCapacity arguments of the Buffers           *)
    SizeTypeMax,       (* the largest size_type: 2^32 - 1 in the code           *)
    ItemSize,          (* sizeof(T)                                             *)
    FirstCapacity      (* what a Buffer of no capacity starts doubling from: 8  *)

MaxCapacity == SizeTypeMax \div ItemSize - 1

ASSUME BufferAssumption ==
    /\ Undefined \notin Values
    /\ Null \notin Blocks /\ Inline \notin Blocks /\ Null # Inline
    /\ SizeTypeMax \in Nat
    /\ ItemSize \in Nat \ {0}
    /\ FirstCapacity \in Nat \ {0}
    /\ MaxCapacity \in Nat
    /\ FirstCapacity <= MaxCapacity
    /\ \A n \in StaticCapacities : n \in 0 .. MaxCapacity    \* the static_assert

VARIABLES
    cells,        (* the memory m_pData points to                                 *)
    size,         (* m_size                                                       *)
    capacity,     (* m_capacity                                                   *)
    place,        (* m_pData                                                      *)
    allocated,    (* the heap blocks not yet freed                                *)
    growing,      (* where Grow is: "no", "doubling" or "allocating"              *)
    newCapacity,  (* its newCapacity                                              *)
    call,         (* the operation that waits for Grow                            *)
    returned      (* what the latest operation returned; TRUE for a void one      *)

vars == <<cells, size, capacity, place, allocated, growing, newCapacity, call, returned>>

Cell     == Values \cup {Undefined}
SizeType == 0 .. SizeTypeMax

Calls ==
    [op: {"none", "push_back", "reserve", "resize"}, required: SizeType,
     keep: BOOLEAN, value: Cell]

\* A call other than a push_back has no value: it carries Undefined.
NoCall == [op |-> "none", required |-> 0, keep |-> TRUE, value |-> Undefined]

Constructed(n) ==
    [cells |-> [i \in 0 .. n - 1 |-> Undefined], place |-> IF n = 0 THEN Null ELSE Inline]

Init ==
    /\ \E n \in StaticCapacities :
         /\ capacity = n
         /\ cells = Constructed(n).cells
         /\ place = Constructed(n).place
    /\ size = 0
    /\ allocated = {}
    /\ growing = "no"
    /\ newCapacity = 0
    /\ call = NoCall
    /\ returned = TRUE

-----------------------------------------------------------------------------
(* Operations that have the room they need. *)

Idle == growing = "no"

memory == <<cells, capacity, place, allocated>>
grow   == <<growing, newCapacity, call>>

PushBack(v) ==
    /\ Idle
    /\ size < capacity
    /\ cells' = [cells EXCEPT ![size] = v]
    /\ size' = size + 1
    /\ returned' = TRUE
    /\ UNCHANGED <<capacity, place, allocated, grow>>

PopBack ==
    /\ Idle
    /\ size # 0
    /\ size' = size - 1
    /\ returned' = TRUE
    /\ UNCHANGED <<memory, grow>>

\* clear, resize_unchecked, and a resize that fits.
SetSize(n) ==
    /\ Idle
    /\ n <= capacity
    /\ size' = n
    /\ returned' = TRUE
    /\ UNCHANGED <<memory, grow>>

\* The owner writes through data(): up to the capacity, as the formatters do
\* between reserve and resize_unchecked.
Write(i, v) ==
    /\ Idle
    /\ cells' = [cells EXCEPT ![i] = v]
    /\ UNCHANGED <<size, capacity, place, allocated, returned, grow>>

\* Mutant: the heap block is not freed.
Freed_Kept == allocated

\* HeapFree of m_pData, unless it is null or inside the object.
Freed == allocated \ (IF place \in {Null, Inline} THEN {} ELSE {place})

\* The destructor, and the constructor of another Buffer.
Renew(n) ==
    /\ Idle
    /\ allocated' = Freed
    /\ cells' = Constructed(n).cells
    /\ place' = Constructed(n).place
    /\ capacity' = n
    /\ size' = 0
    /\ returned' = TRUE
    /\ UNCHANGED grow

-----------------------------------------------------------------------------
(* Grow. *)

BeginGrow(op, required, keep, value) ==
    /\ Idle
    /\ capacity < required
    /\ call' = [op |-> op, required |-> required, keep |-> keep, value |-> value]
    /\ newCapacity' = IF capacity # 0 THEN capacity ELSE FirstCapacity
    /\ growing' = "doubling"
    /\ UNCHANGED <<memory, size, returned>>

PushBackGrows(v) == BeginGrow("push_back", (size + 1) % (SizeTypeMax + 1), TRUE, v)
ResizeGrows(n, keep) == BeginGrow("resize", n, keep, Undefined)
ReserveGrows(n, keep) == BeginGrow("reserve", n, keep, Undefined)

Refuse ==
    /\ growing' = "no"
    /\ call' = NoCall
    /\ newCapacity' = 0
    /\ returned' = FALSE
    /\ UNCHANGED <<memory, size>>

\* Mutant: doubles without looking at MaxCapacity first.
Double_Unguarded ==
    /\ growing = "doubling"
    /\ newCapacity' = (2 * newCapacity) % (SizeTypeMax + 1)
    /\ growing' = IF newCapacity' < call.required THEN "doubling" ELSE "allocating"
    /\ UNCHANGED <<memory, size, call, returned>>

\* Mutant: `if` for `do while`.
Double_Once ==
    /\ growing = "doubling"
    /\ newCapacity <= MaxCapacity \div 2
    /\ newCapacity' = 2 * newCapacity
    /\ growing' = "allocating"
    /\ UNCHANGED <<memory, size, call, returned>>

Double ==
    /\ growing = "doubling"
    /\ newCapacity <= MaxCapacity \div 2
    /\ newCapacity' = (2 * newCapacity) % (SizeTypeMax + 1)
    /\ growing' = IF newCapacity' < call.required THEN "doubling" ELSE "allocating"
    /\ UNCHANGED <<memory, size, call, returned>>

TakeMaxCapacity ==
    /\ growing = "doubling"
    /\ newCapacity > MaxCapacity \div 2
    /\ call.required <= MaxCapacity
    /\ newCapacity' = MaxCapacity
    /\ growing' = "allocating"
    /\ UNCHANGED <<memory, size, call, returned>>

\* Mutant: gives up as soon as the capacity cannot double any more.
TooLarge_CannotDouble ==
    /\ growing = "doubling"
    /\ newCapacity > MaxCapacity \div 2
    /\ Refuse

TooLarge ==
    /\ growing = "doubling"
    /\ newCapacity > MaxCapacity \div 2
    /\ call.required > MaxCapacity
    /\ Refuse

AllocationFails ==
    /\ growing = "allocating"
    /\ Refuse

\* Mutant: the last item is not copied.
Copied_AllButLast ==
    [i \in 0 .. newCapacity - 1 |->
        IF call.keep /\ i < size - 1 THEN cells[i] ELSE Undefined]

\* The new block holds the first m_size items if the call keeps them.
Copied ==
    [i \in 0 .. newCapacity - 1 |->
        IF call.keep /\ i < size THEN cells[i] ELSE Undefined]

Allocate(b) ==
    /\ growing = "allocating"
    /\ b \notin allocated
    /\ allocated' = Freed \cup {b}
    /\ place' = b
    /\ capacity' = newCapacity
    /\ cells' = IF call.op = "push_back" THEN [Copied EXCEPT ![size] = call.value] ELSE Copied
    /\ size' = CASE call.op = "push_back" -> size + 1
                 [] call.op = "resize"    -> call.required
                 [] call.op = "reserve"   -> size
    /\ growing' = "no"
    /\ call' = NoCall
    /\ newCapacity' = 0
    /\ returned' = TRUE

-----------------------------------------------------------------------------
Owner ==
    \/ \E v \in Values : PushBack(v) \/ PushBackGrows(v)
    \/ PopBack
    \/ \E n \in 0 .. capacity : SetSize(n)
    \/ \E i \in 0 .. capacity - 1, v \in Values : Write(i, v)
    \/ \E n \in SizeType, keep \in BOOLEAN : ResizeGrows(n, keep) \/ ReserveGrows(n, keep)
    \/ \E n \in StaticCapacities : Renew(n)

Grow ==
    \/ Double
    \/ TakeMaxCapacity
    \/ TooLarge
    \/ AllocationFails
    \/ \E b \in Blocks : Allocate(b)

Next == Owner \/ Grow

\* A call of Grow runs to its end.
Spec == Init /\ [][Next]_vars /\ WF_vars(Grow)

-----------------------------------------------------------------------------
(* Properties. *)

\* Every variable has its type; m_size never exceeds m_capacity, and
\* m_capacity is the number of cells there are.
TypeOK ==
    /\ capacity \in 0 .. MaxCapacity
    /\ cells \in [0 .. capacity - 1 -> Cell]
    /\ size \in 0 .. capacity
    /\ place \in Blocks \cup {Null, Inline}
    /\ allocated \in SUBSET Blocks
    /\ growing \in {"no", "doubling", "allocating"}
    /\ newCapacity \in SizeType
    /\ call \in Calls
    /\ returned \in BOOLEAN

\* The Buffer owns the heap block it is on and no other, throughout a Grow
\* and across destruction: nothing leaks, nothing is freed twice, and the
\* array inside the object is never given to HeapFree.
OwnsItsBlock ==
    /\ allocated = {place} \ {Null, Inline}
    /\ place = Null => capacity = 0

\* `newCapacity * sizeof(T)`, the size of the allocation, does not wrap, and
\* the room that Grow asks for suffices for the call that waits for it.
AllocationFits ==
    /\ newCapacity <= MaxCapacity
    /\ newCapacity * ItemSize <= SizeTypeMax
    /\ growing = "allocating" =>
         capacity < newCapacity /\ call.required <= newCapacity

\* Grow refuses a capacity only when no block can have it or the heap fails:
\* the loop reaches every capacity up to MaxCapacity, wherever it starts.
RefusalIsJustified ==
    [][growing = "doubling" /\ growing' = "no" => call.required > MaxCapacity]_vars

\* The loop that doubles the capacity ends, whatever it starts from and
\* whatever it is asked for.
GrowEnds == growing = "doubling" ~> growing # "doubling"

\* The Buffer is a resizable array: items survive growth unless the call
\* gives them up, a refused call changes nothing, and the loop, the
\* allocation and the move between blocks are invisible.
Array == INSTANCE EtwArray WITH room <- capacity

ImplementsArray == Array!Spec
=============================================================================

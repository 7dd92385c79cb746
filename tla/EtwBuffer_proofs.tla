--------------------------- MODULE EtwBuffer_proofs ---------------------------
(***************************************************************************)
(* Proofs about Buffer: for every width of size_type, every item size and  *)
(* every static capacity.  The invariant adds to the properties what the   *)
(* loop of Grow keeps: the new capacity is at least the old one, the call  *)
(* needs more than the old one, and the doubling never passes MaxCapacity. *)
(***************************************************************************)
EXTENDS EtwBuffer, TLAPS

\* What the waiting call asks for.
CallOK ==
    /\ (call.op = "none") <=> Idle
    /\ growing # "no" => capacity < call.required
    /\ call.op = "push_back" =>
         call.required = size + 1 /\ call.keep /\ call.value \in Values

\* How far the loop has come.
LoopOK ==
    /\ newCapacity <= MaxCapacity
    /\ growing = "no" => newCapacity = 0
    /\ growing = "doubling" => newCapacity >= 1 /\ capacity <= newCapacity
    /\ growing = "allocating" => capacity < newCapacity /\ call.required <= newCapacity

IInv == TypeOK /\ OwnsItsBlock /\ CallOK /\ LoopOK

-----------------------------------------------------------------------------
(* Arithmetic of MaxCapacity. *)

\* A block of MaxCapacity items is smaller than the largest size_type.
LEMMA MaxCapacityFits ==
    /\ MaxCapacity \in Nat
    /\ MaxCapacity < SizeTypeMax
    /\ MaxCapacity * ItemSize <= SizeTypeMax
<1> DEFINE q == SizeTypeMax \div ItemSize
<1>1. q \in Nat /\ q * ItemSize <= SizeTypeMax
  BY BufferAssumption DEF MaxCapacity
<1> HIDE DEF q
<1>2. MaxCapacity \in Nat /\ MaxCapacity = q - 1 /\ ItemSize \in Nat \ {0} /\ SizeTypeMax \in Nat
  BY BufferAssumption DEF MaxCapacity, q
<1>3. q <= q * ItemSize
  BY <1>1, <1>2
<1>4. MaxCapacity * ItemSize <= q * ItemSize
  BY <1>1, <1>2
<1> QED
  BY <1>1, <1>2, <1>3, <1>4

\* So are blocks of fewer items.
LEMMA CapacityFits ==
    ASSUME NEW n \in Nat, n <= MaxCapacity
    PROVE  n * ItemSize <= SizeTypeMax
<1>1. n * ItemSize <= MaxCapacity * ItemSize
  BY MaxCapacityFits, BufferAssumption
<1> QED
  BY <1>1, MaxCapacityFits, BufferAssumption

\* Doubling a capacity that the loop lets double does not wrap.
LEMMA DoublingFits ==
    ASSUME NEW n \in Nat, n <= MaxCapacity \div 2
    PROVE  /\ 2 * n <= MaxCapacity
           /\ (2 * n) % (SizeTypeMax + 1) = 2 * n
<1>1. 2 * n <= MaxCapacity
  BY MaxCapacityFits
<1>2. 2 * n \in 0 .. SizeTypeMax /\ SizeTypeMax \in Nat
  BY <1>1, MaxCapacityFits, BufferAssumption
<1>3. \A a \in Nat, m \in Nat : a <= m => a % (m + 1) = a
  OBVIOUS
<1> QED
  BY <1>1, <1>2, <1>3

-----------------------------------------------------------------------------
(* The invariant holds initially and every step keeps it. *)

\* A Buffer just made owns nothing on the heap.
LEMMA InitIInv == Init => IInv
<1> SUFFICES ASSUME Init PROVE IInv
  OBVIOUS
<1> PICK n \in StaticCapacities :
      /\ capacity = n
      /\ cells = Constructed(n).cells
      /\ place = Constructed(n).place
  BY DEF Init
<1>1. n \in 0 .. MaxCapacity /\ MaxCapacity \in Nat /\ SizeTypeMax \in Nat
  BY BufferAssumption, MaxCapacityFits
<1>2. cells \in [0 .. capacity - 1 -> Cell] /\ place = IF n = 0 THEN Null ELSE Inline
  BY <1>1 DEF Constructed, Cell
<1>3. NoCall \in Calls
  BY <1>1 DEF NoCall, Calls, SizeType, Cell
<1>4. TypeOK
  <2>1. capacity \in 0 .. MaxCapacity /\ size \in 0 .. capacity /\ newCapacity \in SizeType
    BY <1>1 DEF Init, SizeType
  <2>2. place \in Blocks \cup {Null, Inline} /\ allocated \in SUBSET Blocks
    BY <1>2 DEF Init
  <2>3. growing = "no" /\ call = NoCall /\ returned = TRUE
    BY DEF Init
  <2> QED
    BY <1>2, <1>3, <2>1, <2>2, <2>3 DEF TypeOK
<1>5. OwnsItsBlock
  BY <1>2, BufferAssumption DEF Init, OwnsItsBlock
<1>6. CallOK /\ LoopOK
  BY <1>1 DEF Init, CallOK, LoopOK, NoCall, Idle
<1> QED
  BY <1>4, <1>5, <1>6 DEF IInv

\* An operation that has its room: the sizes and the block are as they were.
LEMMA OwnerKeepsIInv ==
    ASSUME IInv, Owner
    PROVE  IInv'
<1> USE MaxCapacityFits
<1> DEFINE Same == UNCHANGED grow /\ Idle
<1>a. /\ capacity \in Nat /\ capacity <= MaxCapacity /\ size \in Nat /\ size <= capacity
      /\ SizeTypeMax \in Nat
  BY BufferAssumption DEF IInv, TypeOK
<1>b. ASSUME Same, capacity' \in 0 .. MaxCapacity, size' \in 0 .. capacity',
             cells' \in [0 .. capacity' - 1 -> Cell],
             place' \in Blocks \cup {Null, Inline},
             allocated' = {place'} \ {Null, Inline}, place' = Null => capacity' = 0,
             returned' \in BOOLEAN
      PROVE  IInv'
  <2>1. TypeOK'
    <3>1. allocated' \in SUBSET Blocks
      BY <1>b
    <3> QED
      BY <1>b, <3>1 DEF IInv, TypeOK, grow
  <2>2. OwnsItsBlock'
    BY <1>b DEF OwnsItsBlock
  <2>3. growing' = "no" /\ call'.op = "none" /\ newCapacity' = 0
    BY <1>b DEF IInv, CallOK, LoopOK, Idle, grow
  <2>4. CallOK' /\ LoopOK'
    BY <2>3 DEF CallOK, LoopOK, Idle
  <2> QED
    BY <2>1, <2>2, <2>4 DEF IInv
<1>c. ASSUME UNCHANGED memory, UNCHANGED grow, Idle, size' \in 0 .. capacity, returned' = TRUE
      PROVE  IInv'
  BY <1>b, <1>c DEF memory, IInv, TypeOK, OwnsItsBlock
<1>d. ASSUME NEW i \in 0 .. capacity - 1, NEW v \in Values
      PROVE  [cells EXCEPT ![i] = v] \in [0 .. capacity - 1 -> Cell]
  BY <1>d DEF IInv, TypeOK, Cell
<1>1. ASSUME NEW v \in Values, PushBack(v) PROVE IInv'
  <2>1. size \in 0 .. capacity - 1 /\ size' \in 0 .. capacity'
    BY <1>a, <1>1 DEF PushBack
  <2>2. cells' \in [0 .. capacity' - 1 -> Cell]
    BY <1>1, <1>d, <2>1 DEF PushBack
  <2> QED
    BY <1>1, <1>b, <2>1, <2>2 DEF PushBack, IInv, TypeOK, OwnsItsBlock
<1>2. ASSUME NEW op \in {"push_back", "resize", "reserve"}, NEW n \in SizeType,
             NEW keep \in BOOLEAN, NEW v \in Cell, BeginGrow(op, n, keep, v),
             op = "push_back" => n = size + 1 /\ keep /\ v \in Values
      PROVE  IInv'
  <2>1. /\ call' = [op |-> op, required |-> n, keep |-> keep, value |-> v]
        /\ capacity < n /\ growing' = "doubling"
        /\ newCapacity' = IF capacity # 0 THEN capacity ELSE FirstCapacity
        /\ UNCHANGED <<cells, capacity, place, allocated, size, returned>>
    BY <1>2 DEF BeginGrow, memory
  <2>2. newCapacity' \in Nat /\ newCapacity' >= 1 /\ capacity <= newCapacity'
        /\ newCapacity' <= MaxCapacity
    BY <2>1, <1>a, BufferAssumption
  <2>3. call' \in Calls
    BY <1>2, <2>1 DEF Calls
  <2>4. TypeOK'
    BY <1>a, <2>1, <2>2, <2>3 DEF IInv, TypeOK, SizeType
  <2>5. OwnsItsBlock'
    BY <2>1 DEF IInv, OwnsItsBlock
  <2>6. CallOK'
    BY <1>2, <2>1 DEF CallOK, Idle
  <2>7. LoopOK'
    BY <2>1, <2>2 DEF LoopOK
  <2> QED
    BY <2>4, <2>5, <2>6, <2>7 DEF IInv
<1>3. ASSUME NEW v \in Values, PushBackGrows(v) PROVE IInv'
  <2>1. (size + 1) % (SizeTypeMax + 1) = size + 1 /\ size + 1 \in SizeType
    <3>1. \A a \in Nat, m \in Nat : a <= m => a % (m + 1) = a
      OBVIOUS
    <3> QED
      BY <1>a, <3>1 DEF SizeType
  <2> QED
    BY <1>2, <1>3, <2>1 DEF PushBackGrows, Cell
<1>4. ASSUME PopBack PROVE IInv'
  BY <1>4, <1>a, <1>c DEF PopBack
<1>5. ASSUME NEW n \in 0 .. capacity, SetSize(n) PROVE IInv'
  BY <1>5, <1>a, <1>c DEF SetSize
<1>6. ASSUME NEW i \in 0 .. capacity - 1, NEW v \in Values, Write(i, v) PROVE IInv'
  BY <1>6, <1>b, <1>d DEF Write, IInv, TypeOK, OwnsItsBlock
<1>7. ASSUME NEW n \in SizeType, NEW keep \in BOOLEAN,
             ResizeGrows(n, keep) \/ ReserveGrows(n, keep)
      PROVE  IInv'
  BY <1>2, <1>7 DEF ResizeGrows, ReserveGrows, Cell
<1>8. ASSUME NEW n \in StaticCapacities, Renew(n) PROVE IInv'
  <2>1. n \in 0 .. MaxCapacity
    BY BufferAssumption
  <2>2. cells' \in [0 .. n - 1 -> Cell] /\ place' = IF n = 0 THEN Null ELSE Inline
    BY <1>8, <2>1 DEF Renew, Constructed, Cell
  <2>3. Freed = {}
    BY DEF Freed, IInv, OwnsItsBlock
  <2>4. /\ Same /\ capacity' = n /\ size' = 0 /\ allocated' = {} /\ returned' = TRUE
        /\ size' \in 0 .. capacity'
    BY <1>8, <2>1, <2>3 DEF Renew
  <2>5. /\ place' \in Blocks \cup {Null, Inline} /\ allocated' = {place'} \ {Null, Inline}
        /\ place' = Null => capacity' = 0
    BY <2>2, <2>4, BufferAssumption
  <2> QED
    BY <1>b, <2>1, <2>2, <2>4, <2>5
<1> QED
  BY <1>1, <1>3, <1>4, <1>5, <1>6, <1>7, <1>8 DEF Owner

\* An iteration of the loop: the capacity doubles within MaxCapacity, or is
\* MaxCapacity.
LEMMA DoublingKeepsIInv ==
    ASSUME IInv, Double \/ TakeMaxCapacity
    PROVE  IInv'
<1> USE MaxCapacityFits
<1>a. /\ growing = "doubling" /\ newCapacity \in Nat /\ newCapacity >= 1
      /\ capacity \in Nat /\ capacity <= newCapacity /\ newCapacity <= MaxCapacity
      /\ capacity < call.required /\ call.required \in Nat /\ SizeTypeMax \in Nat
  BY BufferAssumption DEF IInv, TypeOK, LoopOK, CallOK, Double, TakeMaxCapacity,
     SizeType, Calls
<1>1. /\ newCapacity' \in Nat /\ newCapacity' <= MaxCapacity /\ capacity < newCapacity'
      /\ growing' \in {"doubling", "allocating"}
      /\ growing' = "allocating" => call.required <= newCapacity'
  <2>1. CASE Double
    <3>1. 2 * newCapacity <= MaxCapacity /\ newCapacity' = 2 * newCapacity
      BY <1>a, <2>1, DoublingFits DEF Double
    <3>2. growing' = IF newCapacity' < call.required THEN "doubling" ELSE "allocating"
      BY <2>1 DEF Double
    <3> QED
      BY <1>a, <3>1, <3>2
  <2>2. CASE TakeMaxCapacity
    BY <1>a, <2>2 DEF TakeMaxCapacity
  <2> QED
    BY <2>1, <2>2
<1>2. UNCHANGED <<cells, capacity, place, allocated, size, call, returned>>
  BY DEF Double, TakeMaxCapacity, memory
<1>3. TypeOK'
  <2>1. newCapacity' \in SizeType
    BY <1>1, <1>a DEF SizeType
  <2> QED
    BY <1>1, <1>2, <2>1 DEF IInv, TypeOK
<1>4. OwnsItsBlock' /\ CallOK' /\ LoopOK'
  BY <1>a, <1>1, <1>2 DEF IInv, OwnsItsBlock, CallOK, LoopOK, Idle
<1> QED
  BY <1>3, <1>4 DEF IInv

\* A refused call leaves everything as the call found it.
LEMMA RefusalKeepsIInv ==
    ASSUME IInv, Refuse
    PROVE  IInv'
<1>1. /\ UNCHANGED <<cells, capacity, place, allocated, size>>
      /\ growing' = "no" /\ call' = NoCall /\ newCapacity' = 0 /\ returned' = FALSE
  BY DEF Refuse, memory
<1>2. newCapacity' \in SizeType /\ call' \in Calls
  BY <1>1, BufferAssumption DEF SizeType, NoCall, Calls, Cell
<1>3. TypeOK'
  BY <1>1, <1>2 DEF IInv, TypeOK
<1>4. OwnsItsBlock' /\ CallOK' /\ LoopOK'
  BY <1>1, MaxCapacityFits DEF IInv, OwnsItsBlock, CallOK, LoopOK, NoCall, Idle
<1> QED
  BY <1>3, <1>4 DEF IInv

\* What a successful Grow leaves: the cells of the new block, and the size
\* the waiting call asked for.
LEMMA AllocateResult ==
    ASSUME IInv, NEW b \in Blocks, Allocate(b)
    PROVE  /\ capacity' = newCapacity /\ capacity < capacity' /\ call.required <= capacity'
           /\ capacity' \in Nat /\ capacity' <= MaxCapacity
           /\ cells' \in [0 .. capacity' - 1 -> Cell]
           /\ call.keep => \A i \in 0 .. size - 1 : cells'[i] = cells[i]
           /\ call.op = "push_back" => cells'[size] = call.value
           /\ size' = IF call.op = "reserve" THEN size ELSE call.required
           /\ size' \in 0 .. capacity'
           /\ call.op # "none"
<1> USE MaxCapacityFits
<1>a. /\ capacity \in Nat /\ capacity < newCapacity /\ newCapacity \in Nat
      /\ call.required \in Nat /\ call.required <= newCapacity /\ newCapacity <= MaxCapacity
      /\ capacity < call.required /\ size \in Nat /\ size <= capacity
      /\ call.op \in {"push_back", "reserve", "resize"}
      /\ call.value \in Cell /\ capacity' = newCapacity
      /\ call.op = "push_back" => call.required = size + 1
  BY BufferAssumption DEF IInv, TypeOK, CallOK, LoopOK, Calls, SizeType, Idle, Allocate
<1>b. cells \in [0 .. capacity - 1 -> Cell]
  BY DEF IInv, TypeOK
<1>1. Copied \in [0 .. newCapacity - 1 -> Cell]
  <2>1. \A i \in 0 .. newCapacity - 1 : i < size => cells[i] \in Cell
    BY <1>a, <1>b
  <2> QED
    BY <2>1 DEF Copied, Cell
<1>2. \A i \in 0 .. size - 1 : i \in 0 .. newCapacity - 1 /\ i # size
  BY <1>a
<1>3. call.keep => \A i \in 0 .. size - 1 : Copied[i] = cells[i]
  BY <1>a, <1>2 DEF Copied
<1>4. size \in 0 .. newCapacity - 1
  BY <1>a
<1>5. cells' = IF call.op = "push_back" THEN [Copied EXCEPT ![size] = call.value] ELSE Copied
  BY DEF Allocate
<1>6. size' = IF call.op = "reserve" THEN size ELSE call.required
  BY <1>a DEF Allocate
<1>7. cells' \in [0 .. capacity' - 1 -> Cell]
  BY <1>a, <1>1, <1>4, <1>5
<1>8. call.op = "push_back" => cells'[size] = call.value
  BY <1>1, <1>4, <1>5
<1>9. call.keep => \A i \in 0 .. size - 1 : cells'[i] = cells[i]
  BY <1>1, <1>2, <1>3, <1>5
<1>10. size' \in 0 .. capacity'
  BY <1>a, <1>6
<1> QED
  BY <1>a, <1>6, <1>7, <1>8, <1>9, <1>10

\* The old block, if it was on the heap, is freed when the new one is taken.
LEMMA AllocateKeepsIInv ==
    ASSUME IInv, NEW b \in Blocks, Allocate(b)
    PROVE  IInv'
<1>1. /\ allocated' = Freed \cup {b} /\ place' = b /\ growing' = "no"
      /\ call' = NoCall /\ newCapacity' = 0 /\ returned' = TRUE
  BY DEF Allocate
<1>2. Freed = {}
  BY DEF Freed, IInv, OwnsItsBlock
<1>3. newCapacity' \in SizeType /\ call' \in Calls
  BY <1>1, BufferAssumption DEF SizeType, NoCall, Calls, Cell
<1>4. TypeOK'
  <2>1. capacity' \in 0 .. MaxCapacity
    BY AllocateResult, MaxCapacityFits
  <2> QED
    BY <1>1, <1>2, <1>3, <2>1, AllocateResult DEF TypeOK
<1>5. OwnsItsBlock'
  BY <1>1, <1>2, BufferAssumption DEF OwnsItsBlock
<1>6. CallOK' /\ LoopOK'
  BY <1>1, MaxCapacityFits DEF CallOK, LoopOK, NoCall, Idle
<1> QED
  BY <1>4, <1>5, <1>6 DEF IInv

(* Every step of the buffer, of a call to Grow too, preserves the inductive *)
(* invariant.                                                              *)
LEMMA NextIInv == IInv /\ [Next]_vars => IInv'
<1> SUFFICES ASSUME IInv, [Next]_vars PROVE IInv'
  OBVIOUS
<1>1. CASE Owner
  BY <1>1, OwnerKeepsIInv
<1>2. CASE Double \/ TakeMaxCapacity
  BY <1>2, DoublingKeepsIInv
<1>3. CASE TooLarge \/ AllocationFails
  BY <1>3, RefusalKeepsIInv DEF TooLarge, AllocationFails
<1>4. CASE \E b \in Blocks : Allocate(b)
  BY <1>4, AllocateKeepsIInv
<1>5. CASE UNCHANGED vars
  BY <1>5 DEF vars, IInv, TypeOK, OwnsItsBlock, CallOK, LoopOK, Idle
<1> QED
  BY <1>1, <1>2, <1>3, <1>4, <1>5 DEF Next, Grow

-----------------------------------------------------------------------------
(* The theorems. *)

\* The invariant, of which the properties below are parts.
THEOREM Invariance == Spec => []IInv
<1>1. Init => IInv
  BY InitIInv
<1>2. IInv /\ [Next]_vars => IInv'
  BY NextIInv
<1> QED
  BY <1>1, <1>2, PTL DEF Spec

\* Every variable of a Buffer keeps its type, and m_size <= m_capacity.
THEOREM TypeCorrectness == Spec => []TypeOK
<1>1. IInv => TypeOK
  BY DEF IInv
<1> QED
  BY <1>1, Invariance, PTL

\* A Buffer owns exactly the heap block it is on: no leak, no double free.
THEOREM OwnershipHolds == Spec => []OwnsItsBlock
<1>1. IInv => OwnsItsBlock
  BY DEF IInv
<1> QED
  BY <1>1, Invariance, PTL

\* What Grow allocates is large enough, and its size in bytes does not wrap.
THEOREM AllocationsFit == Spec => []AllocationFits
<1>1. IInv => AllocationFits
  <2> SUFFICES ASSUME IInv PROVE AllocationFits
    OBVIOUS
  <2>1. newCapacity \in Nat /\ newCapacity <= MaxCapacity
    BY BufferAssumption DEF IInv, TypeOK, LoopOK, SizeType
  <2> QED
    BY <2>1, CapacityFits DEF AllocationFits, IInv, LoopOK
<1> QED
  BY <1>1, Invariance, PTL

\* Grow gives up on a capacity only above MaxCapacity.
THEOREM RefusalsAreJustified == Spec => RefusalIsJustified
<1>1. [Next]_vars => (growing = "doubling" /\ growing' = "no" => call.required > MaxCapacity)
  <2> SUFFICES ASSUME [Next]_vars, growing = "doubling", growing' = "no"
               PROVE  call.required > MaxCapacity
    OBVIOUS
  <2>1. CASE Owner
    BY <2>1 DEF Owner, Idle, PushBack, PopBack, SetSize, Write, Renew, PushBackGrows,
       ResizeGrows, ReserveGrows, BeginGrow
  <2>2. CASE Double \/ TakeMaxCapacity
    BY <2>2 DEF Double, TakeMaxCapacity
  <2>3. CASE TooLarge
    BY <2>3 DEF TooLarge
  <2>4. CASE AllocationFails \/ \E b \in Blocks : Allocate(b)
    BY <2>4 DEF AllocationFails, Allocate
  <2>5. CASE UNCHANGED vars
    BY <2>5 DEF vars
  <2> QED
    BY <2>1, <2>2, <2>3, <2>4, <2>5 DEF Next, Grow
<1> QED
  BY <1>1, PTL DEF Spec, RefusalIsJustified

\* A step of the Buffer is a step of the array, or none.
LEMMA StepRefines == IInv /\ IInv' /\ [Next]_vars => [Array!Next]_<<cells, size, capacity, call>>
<1> SUFFICES ASSUME IInv, IInv', [Next]_vars,
                    ~UNCHANGED <<cells, size, capacity, call>>
             PROVE  Array!Next
  OBVIOUS
<1> USE MaxCapacityFits
<1>a. /\ capacity \in Nat /\ size \in Nat /\ capacity' \in Nat
      /\ cells' \in [0 .. capacity' - 1 -> Cell]
      /\ Cell = Array!Cell /\ (Array!Ready <=> Idle)
      /\ (call'.op = "none" <=> growing' = "no")
  <2>1. capacity \in Nat /\ size \in Nat
    BY DEF IInv, TypeOK
  <2>2. capacity' \in Nat /\ cells' \in [0 .. capacity' - 1 -> Cell]
    <3>1. capacity' \in 0 .. MaxCapacity /\ cells' \in [0 .. capacity' - 1 -> Cell]
      BY DEF IInv, TypeOK
    <3>2. capacity' \in Nat
      BY <3>1
    <3> QED
      BY <3>1, <3>2
  <2>3. Cell = Array!Cell
    BY DEF Cell, Array!Cell
  <2>4. (Array!Ready <=> Idle) /\ (call'.op = "none" <=> growing' = "no")
    BY DEF IInv, CallOK, Idle, Array!Ready
  <2> QED
    BY <2>1, <2>2, <2>3, <2>4
<1>1. ASSUME NEW v \in Values, PushBack(v) PROVE Array!Next
  <2>1. Array!PushBack(v) /\ Array!Ready
    BY <1>1, <1>a DEF PushBack, Array!PushBack, grow
  <2> QED
    BY <2>1 DEF Array!Next
<1>2. ASSUME NEW v \in Values, PushBackGrows(v) PROVE Array!Next
  <2>1. call'.op = "push_back" /\ capacity < call'.required
    BY <1>2 DEF PushBackGrows, BeginGrow
  <2>2. Array!Call /\ Array!Ready
    BY <1>2, <1>a, <2>1 DEF PushBackGrows, BeginGrow, Array!Call, IInv, CallOK, memory
  <2> QED
    BY <2>2 DEF Array!Next
<1>3. ASSUME PopBack PROVE Array!Next
  BY <1>3, <1>a DEF PopBack, Array!PopBack, Array!Next, memory, grow
<1>4. ASSUME NEW n \in 0 .. capacity, SetSize(n) PROVE Array!Next
  <2>1. Array!SetSize(n) /\ Array!Ready
    BY <1>4, <1>a DEF SetSize, Array!SetSize, memory, grow
  <2> QED
    BY <2>1 DEF Array!Next
<1>5. ASSUME NEW i \in 0 .. capacity - 1, NEW v \in Values, Write(i, v) PROVE Array!Next
  <2>1. Array!Write(i, v) /\ Array!Ready
    BY <1>5, <1>a DEF Write, Array!Write, grow
  <2> QED
    BY <2>1 DEF Array!Next
<1>6. ASSUME NEW n \in SizeType, NEW keep \in BOOLEAN,
             ResizeGrows(n, keep) \/ ReserveGrows(n, keep)
      PROVE  Array!Next
  <2>1. Array!Call /\ Array!Ready
    BY <1>6, <1>a DEF ResizeGrows, ReserveGrows, BeginGrow, Array!Call, memory
  <2> QED
    BY <2>1 DEF Array!Next
<1>7. ASSUME NEW n \in StaticCapacities, Renew(n) PROVE Array!Next
  <2>1. Array!Renew /\ Array!Ready
    BY <1>7, <1>a DEF Renew, Array!Renew, grow
  <2> QED
    BY <2>1 DEF Array!Next
<1>8. ASSUME Double \/ TakeMaxCapacity PROVE Array!Next
  BY <1>8 DEF Double, TakeMaxCapacity, memory
<1>9. ASSUME TooLarge \/ AllocationFails PROVE Array!Next
  <2>1. Array!Refuse /\ ~Array!Ready
    BY <1>9, <1>a DEF TooLarge, AllocationFails, Refuse, Array!Refuse, memory, NoCall, Idle
  <2> QED
    BY <2>1 DEF Array!Next
<1>10. ASSUME NEW b \in Blocks, Allocate(b) PROVE Array!Next
  <2>1. Array!Grant
    BY <1>10, <1>a, AllocateResult DEF Array!Grant, Allocate, NoCall
  <2>2. ~Array!Ready
    BY <1>10, <1>a DEF Allocate, Idle
  <2> QED
    BY <2>1, <2>2 DEF Array!Next
<1> QED
  BY <1>1, <1>2, <1>3, <1>4, <1>5, <1>6, <1>7, <1>8, <1>9, <1>10
     DEF Next, Owner, Grow, vars

\* A Buffer is a resizable array, whatever block it is on: what is kept
\* survives every growth, and a refused call changes nothing.
THEOREM BufferIsArray == Spec => ImplementsArray
<1>1. Init => Array!Init
  <2> SUFFICES ASSUME Init PROVE Array!Init
    OBVIOUS
  <2>1. IInv
    BY InitIInv
  <2> QED
    BY <2>1, MaxCapacityFits
       DEF Init, IInv, TypeOK, NoCall, Cell, Array!Init, Array!Cell, Array!Ready
<1>2. IInv /\ IInv' /\ [Next]_vars => [Array!Next]_<<cells, size, capacity, call>>
  BY StepRefines
<1> QED
  BY <1>1, <1>2, Invariance, PTL DEF Spec, ImplementsArray, Array!Spec
=============================================================================

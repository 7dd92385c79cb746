------------------------- MODULE EtwEnumerator_proofs -------------------------
(***************************************************************************)
(* Proofs about the enumerator: for every set of well-formed events and    *)
(* every capacity, the position of the cursor is always one the payload    *)
(* and the tei allow.                                                      *)
(*                                                                         *)
(* The properties are not inductive one by one: that an item lies in the   *)
(* payload needs that its property exists, which needs that the stack      *)
(* follows the tei, which needs that the elements of a struct's array are  *)
(* counted right.  PosInv puts them together, as a predicate PositionOK of *)
(* the values that a move leaves; IInv adds that a failure is reported.    *)
(* MoveNextSibling's counter of depth is compared with the nesting of the  *)
(* stack at the end.                                                       *)
(***************************************************************************)
EXTENDS EtwEnumerator, EtwInduction, FiniteSetTheorems, SequenceTheorems

-----------------------------------------------------------------------------
(* The size rules of EtwTypes, for every payload and every property: first *)
(* the in-types.                                                           *)

\* A type is simple or complex or neither, never both.
LEMMA TypesAreDisjoint == SimpleTypes \cap ComplexTypes = {}
BY DEF SimpleTypes, ComplexTypes, CountedTypes, OneByteTypes, TwoByteTypes,
       FourByteTypes, EightByteTypes, WideByteTypes, PointerTypes

\* m_cbElement is 1 to 16 for a simple type and 0 for any other; only the size
\* of a pointer depends on the event.
LEMMA ElementSizes ==
  ASSUME NEW t \in InType, NEW size \in {4, 8}
  PROVE  /\ t \in SimpleTypes => ElementSize(t, size) \in 1 .. 16
         /\ t \notin SimpleTypes => ElementSize(t, size) = 0
         /\ t \in PointerTypes => ElementSize(t, size) = size
         /\ t \notin PointerTypes => ElementSize(t, size) = ElementSize(t, 0)
BY DEF ElementSize, SimpleTypes, OneByteTypes, TwoByteTypes,
       FourByteTypes, EightByteTypes, WideByteTypes, PointerTypes

\* Of the types whose values are kept, the size says how many bytes are read.
LEMMA RememberedSizes ==
  ASSUME NEW t \in RememberedTypes, NEW size
  PROVE  /\ t \in SimpleTypes
         /\ t = "UINT8" => ElementSize(t, size) = 1
         /\ t = "UINT16" => ElementSize(t, size) = 2
         /\ t \notin {"UINT8", "UINT16"} => ElementSize(t, size) = 4
BY DEF ElementSize, RememberedTypes, SimpleTypes, OneByteTypes, TwoByteTypes,
       FourByteTypes, EightByteTypes, WideByteTypes, PointerTypes

\* The canonical type of a type is one of the types.
LEMMA CookedInTypeType ==
  ASSUME NEW t \in InType
  PROVE  CookedInType(t) \in InType
BY DEF CookedInType, InType, SupportedTypes, ComplexTypes

-----------------------------------------------------------------------------
(* Integers of one and two bytes. *)

\* The word size, for arithmetic; elsewhere Word stays a name.
LEMMA WordValue == Word = 65536
BY DEF Word

\* What it is to be a byte.
LEMMA ByteRange == \A x : x \in BYTE <=> x \in Nat /\ x < 256
<1>1. Octet = 256
  BY DEF Octet
<1>2. \A x : x \in BYTE <=> x \in Nat /\ x < Octet
  <2>1. Octet \in Int
    BY <1>1
  <2> QED BY <2>1 DEF BYTE
<1> QED BY <1>1, <1>2

\* What it is to be a USHORT.
LEMMA UshortRange == \A x : x \in USHORT <=> x \in Nat /\ x < Word
<1>1. Word \in Int
  BY WordValue
<1> QED BY <1>1 DEF USHORT

-----------------------------------------------------------------------------
(* Reading the payload. *)

\* A USHORT read from two bytes, in either order, is a USHORT.
LEMMA ReadTypes ==
  ASSUME NEW d \in Seq(BYTE), NEW p \in Nat, p + 2 <= Len(d)
  PROVE  ReadUINT16(d, p) \in USHORT /\ ReadReversedUINT16(d, p) \in USHORT
<1>1. d[p + 1] \in BYTE /\ d[p + 2] \in BYTE
  OBVIOUS
<1>2. \A a, b \in BYTE : a + 256 * b \in USHORT
  <2>1. \A a, b \in Nat : a < 256 /\ b < 256 => a + 256 * b \in Nat /\ a + 256 * b < 65536
    OBVIOUS
  <2> QED BY <2>1, ByteRange, UshortRange, WordValue
<1>3. 256 * d[p + 1] + d[p + 2] = d[p + 2] + 256 * d[p + 1]
  BY <1>1, ByteRange
<1> QED BY <1>1, <1>2, <1>3 DEF ReadUINT16, ReadReversedUINT16

\* A value kept for later counts and lengths is a USHORT.
LEMMA RememberedValueType ==
  ASSUME NEW t \in RememberedTypes, NEW size,
         NEW d \in Seq(BYTE), NEW p \in Nat, p + ElementSize(t, size) <= Len(d)
  PROVE  RememberedValue(t, d, p) \in USHORT
<1>1. CASE t = "UINT8"
  <2>1. d[p + 1] \in BYTE
    BY <1>1, RememberedSizes
  <2> QED BY <1>1, <2>1, ByteRange, UshortRange, WordValue DEF RememberedValue
<1>2. CASE t = "UINT16"
  BY <1>2, RememberedSizes, ReadTypes DEF RememberedValue
<1>3. CASE t \notin {"UINT8", "UINT16"}
  <2>1. ReadUINT16(d, p) \in USHORT
    BY <1>3, RememberedSizes, ReadTypes
  <2> QED BY <1>3, <2>1, UshortRange, WordValue DEF RememberedValue, ReadCappedUINT32
<1> QED BY <1>1, <1>2, <1>3

\* strnlen finds at most max characters.
LEMMA BoundedLengthType ==
  ASSUME NEW d, NEW p, NEW w, NEW max \in Nat
  PROVE  BoundedLength(d, p, w, max) \in 0 .. max
<1> DEFINE IsEnd(n) == n = max \/ \A k \in 1 .. w : d[p + w * n + k] = 0
           Ends     == {n \in 0 .. max : IsEnd(n)}
<1>1. Ends \in SUBSET Nat /\ Ends # {}
  <2>1. max \in Ends
    OBVIOUS
  <2> QED BY <2>1
<1>2. PICK n \in Ends : \A m \in Ends : n <= m
  <2> HIDE DEF Ends
  <2> QED BY <1>1, LeastElement
<1>3. \E n_1 \in 0 .. max : IsEnd(n_1) /\ \A m \in 0 .. max : IsEnd(m) => n_1 <= m
  BY <1>2
<1> QED BY <1>3 DEF BoundedLength
-----------------------------------------------------------------------------
(* Extents. *)

Extents == [skip: Nat, cooked: USHORT, raw: USHORT]

\* The value, without its prefix or terminator, lies in the item: unless the
\* 16-bit sum of the two wrapped, which makes the item shorter than the value.
Enclosed(x) == x.cooked <= x.raw => x.skip + x.cooked <= x.raw

\* What does not reach the word size does not wrap.
LEMMA ModWord == \A n \in Nat : n % Word \in USHORT /\ (n < Word => n % Word = n)
BY WordValue, UshortRange

\* An extent is made of USHORTs whatever the sums are.
LEMMA ExtentType ==
  ASSUME NEW skip \in Nat, NEW c \in Nat, NEW r \in Nat
  PROVE  /\ Extent(skip, c, r) \in Extents
         /\ Extent(skip, c, r).raw = r % Word
         /\ c <= r /\ r < Word /\ skip + c <= r => Enclosed(Extent(skip, c, r))
         /\ skip = 0 => Enclosed(Extent(skip, c, r))
<1>1. Extent(skip, c, r) = [skip |-> skip, cooked |-> c % Word, raw |-> r % Word]
  BY DEF Extent
<1>2. c % Word \in USHORT /\ r % Word \in USHORT
  BY ModWord
<1>3. Extent(skip, c, r) \in Extents /\ Extent(skip, c, r).raw = r % Word
  BY <1>1, <1>2 DEF Extents
<1>4. c <= r /\ r < Word /\ skip + c <= r => Enclosed(Extent(skip, c, r))
  <2>1. SUFFICES ASSUME c <= r, r < Word, skip + c <= r
                 PROVE  Enclosed(Extent(skip, c, r))
    OBVIOUS
  <2>2. c < Word
    BY <2>1, WordValue
  <2>3. c % Word = c /\ r % Word = r
    BY <2>1, <2>2, ModWord
  <2> QED BY <1>1, <2>1, <2>3 DEF Enclosed
<1>5. skip = 0 => Enclosed(Extent(skip, c, r))
  <2>1. c % Word \in Nat
    BY <1>2, UshortRange
  <2> QED BY <1>1, <2>1 DEF Enclosed
<1> QED BY <1>3, <1>4, <1>5

\* Rounding a byte count down to whole characters.
LEMMA RoundedToEvenType ==
  ASSUME NEW n \in Nat
  PROVE  RoundedToEven(n) \in Nat /\ RoundedToEven(n) <= n /\ n <= RoundedToEven(n) + 1
BY DEF RoundedToEven

\* A prefix of k bytes and a value of n bytes, rounded down or not.
LEMMA PrefixedExtent ==
  ASSUME NEW k \in 2 .. 4, NEW n \in USHORT, NEW c \in Nat, c <= n, n <= c + 1
  PROVE  Extent(k, c, n + k) \in Extents /\ Enclosed(Extent(k, c, n + k))
<1>1. n \in Nat /\ n < 65536
  BY UshortRange, WordValue
<1>2. Extent(k, c, n + k) \in Extents
  BY <1>1, ExtentType
<1>3. CASE n + k < Word
  <2>1. c <= n + k /\ k + c <= n + k
    BY <1>1
  <2> QED BY <1>1, <1>2, <1>3, <2>1, ExtentType
<1>4. CASE ~ (n + k < Word)
  <2>1. (n + k) % 65536 = n + k - 65536 /\ c % 65536 = c
    BY <1>1, <1>4, WordValue
  <2>2. ~ (c % Word <= (n + k) % Word)
    BY <1>1, <1>4, <2>1, WordValue
  <2> QED BY <1>2, <2>2 DEF Extent, Enclosed
<1> QED BY <1>3, <1>4

\* A nul-terminated string, its terminator included, lies in the payload.
LEMMA NulTerminatedExtentType ==
  ASSUME NEW d \in Seq(BYTE), Len(d) \in USHORT, NEW p \in 0 .. Len(d), NEW w \in {1, 2}
  PROVE  /\ NulTerminatedExtent(d, p, w) \in Extents
         /\ Enclosed(NulTerminatedExtent(d, p, w))
         /\ NulTerminatedExtent(d, p, w).raw <= Len(d) - p
<1> DEFINE cbRemaining == Len(d) - p
           max == cbRemaining \div w
           n   == BoundedLength(d, p, w, max)
<1>1. cbRemaining \in Nat /\ cbRemaining < Word
  BY UshortRange, WordValue
<1>2. max \in Nat /\ w * max <= cbRemaining
  BY <1>1
<1>3. n \in Nat /\ n <= max
  <2> HIDE DEF max
  <2> QED BY <1>2, BoundedLengthType
<1>4. w * n \in Nat /\ w * n <= cbRemaining
  <2> HIDE DEF max, n, cbRemaining
  <2> QED BY <1>1, <1>2, <1>3
<1>5. n # max => w * n + w <= cbRemaining
  <2> HIDE DEF max, n, cbRemaining
  <2> QED BY <1>1, <1>2, <1>3
<1>6. NulTerminatedExtent(d, p, w) = IF n = max THEN Extent(0, w * n, cbRemaining)
                                               ELSE Extent(0, w * n, w * n + w)
  BY DEF NulTerminatedExtent
<1> HIDE DEF max, n, cbRemaining
<1>7. CASE n = max
  BY <1>1, <1>4, <1>6, <1>7, ExtentType, ModWord DEF cbRemaining
<1>8. CASE n # max
  <2>1. w * n + w \in Nat /\ w * n + w < Word
    BY <1>1, <1>4, <1>5, <1>8, WordValue
  <2>2. (w * n + w) % Word = w * n + w
    BY <2>1, ModWord
  <2>3. w * n + w <= Len(d) - p
    BY <1>5, <1>8 DEF cbRemaining
  <2> DEFINE r == w * n + w
             c == w * n
  <2>4. NulTerminatedExtent(d, p, w) = Extent(0, c, r)
    BY <1>6, <1>8
  <2>5. c \in Nat /\ r \in Nat /\ r % Word = r /\ r <= Len(d) - p
    BY <1>4, <2>1, <2>2, <2>3
  <2> HIDE DEF r, c
  <2> QED BY <2>4, <2>5, ExtentType
<1> QED BY <1>7, <1>8

\* A value after its count of bytes.
LEMMA CountedExtentType ==
  ASSUME NEW t, NEW d \in Seq(BYTE), NEW p \in 0 .. Len(d)
  PROVE  CountedExtent(t, d, p) \in Extents /\ Enclosed(CountedExtent(t, d, p))
<1>1. CASE Len(d) - p < 2
  BY <1>1, ExtentType DEF CountedExtent
<1>2. CASE ~ (Len(d) - p < 2)
  <2> DEFINE n == IF t \in ReversedTypes THEN ReadReversedUINT16(d, p) ELSE ReadUINT16(d, p)
             c == IF CookedInType(t) = "UNICODESTRING" THEN RoundedToEven(n) ELSE n
  <2>1. n \in USHORT
    BY <1>2, ReadTypes
  <2>2. c \in Nat /\ c <= n /\ n <= c + 1
    <3> HIDE DEF n
    <3>1. n \in Nat
      BY <2>1, UshortRange
    <3>2. RoundedToEven(n) \in Nat /\ RoundedToEven(n) <= n /\ n <= RoundedToEven(n) + 1
      BY <3>1, RoundedToEvenType
    <3>3. CASE CookedInType(t) = "UNICODESTRING"
      BY <3>2, <3>3
    <3>4. CASE CookedInType(t) # "UNICODESTRING"
      BY <3>1, <3>4
    <3> QED BY <3>3, <3>4
  <2>3. CountedExtent(t, d, p) = Extent(2, c, n + 2)
    BY <1>2 DEF CountedExtent
  <2> HIDE DEF n, c
  <2> QED BY <2>1, <2>2, <2>3, PrefixedExtent
<1> QED BY <1>1, <1>2

\* A hex dump after its 32-bit size.
LEMMA HexDumpExtentType ==
  ASSUME NEW d \in Seq(BYTE), NEW p \in 0 .. Len(d)
  PROVE  HexDumpExtent(d, p) \in Extents /\ Enclosed(HexDumpExtent(d, p))
<1>1. CASE Len(d) - p < 4
  BY <1>1, ExtentType DEF HexDumpExtent
<1>2. CASE ~ (Len(d) - p < 4)
  <2>1. ReadUINT16(d, p) \in USHORT
    BY <1>2, ReadTypes
  <2>2. ReadUINT16(d, p) \in Nat
    BY <2>1, UshortRange
  <2> QED BY <1>2, <2>1, <2>2, PrefixedExtent DEF HexDumpExtent
<1> QED BY <1>1, <1>2

\* A SID, alone or after a TOKEN_USER.
LEMMA SidExtentType ==
  ASSUME NEW d \in Seq(BYTE), NEW p \in 0 .. Len(d), NEW skip \in Nat, skip <= 16
  PROVE  SidExtent(d, p, skip) \in Extents /\ Enclosed(SidExtent(d, p, skip))
<1>1. CASE Len(d) - p < skip + 8
  <2>1. 0 <= skip + 8 /\ skip + 8 \in Nat
    OBVIOUS
  <2> QED BY <1>1, <2>1, ExtentType DEF SidExtent
<1>2. CASE ~ (Len(d) - p < skip + 8)
  <2> DEFINE n == 8 + 4 * d[p + skip + 2]
  <2>1. d[p + skip + 2] \in BYTE
    BY <1>2
  <2>2. n \in Nat /\ skip + n \in Nat /\ skip + n < Word /\ n <= skip + n
    <3>1. PICK b \in Nat : b < 256 /\ d[p + skip + 2] = b
      BY <2>1, ByteRange
    <3>2. 8 + 4 * b \in Nat /\ 8 + 4 * b < 2000
      BY <3>1
    <3>3. n \in Nat /\ n < 2000
      BY <3>1, <3>2
    <3> HIDE DEF n
    <3> QED BY <3>3, WordValue
  <2>3. SidExtent(d, p, skip) = Extent(skip, n, skip + n)
    BY <1>2 DEF SidExtent
  <2> HIDE DEF n
  <2> QED BY <2>2, <2>3, ExtentType
<1> QED BY <1>1, <1>2

\* Every type of variable size.
LEMMA ComplexExtentType ==
  ASSUME NEW epi \in EventPropertyInfo, NEW values, CurrentPropertyLength(epi, values) \in USHORT,
         NEW size \in {4, 8}, NEW d \in Seq(BYTE), Len(d) \in USHORT, NEW p \in 0 .. Len(d)
  PROVE  /\ ComplexExtent(epi, values, size, d, p) \in Extents
         /\ Enclosed(ComplexExtent(epi, values, size, d, p))
         /\ epi.InType \in ComplexTypes /\ ~ExtentIsChecked(epi) =>
              ComplexExtent(epi, values, size, d, p).raw <= Len(d) - p
<1> DEFINE t == epi.InType
           cbRemaining == Len(d) - p
           length == CurrentPropertyLength(epi, values)
           x == ComplexExtent(epi, values, size, d, p)
           Good(e) == e \in Extents /\ Enclosed(e)
<1>1. /\ length \in Nat /\ 2 * length \in Nat
      /\ cbRemaining \in Nat /\ RoundedToEven(cbRemaining) \in Nat
  <2>1. length \in Nat
    BY UshortRange
  <2>2. cbRemaining \in Nat
    BY UshortRange
  <2> HIDE DEF length, cbRemaining
  <2>3. 2 * length \in Nat
    BY <2>1
  <2>4. RoundedToEven(cbRemaining) \in Nat
    BY <2>2, RoundedToEvenType
  <2> QED BY <2>1, <2>2, <2>3, <2>4
<1>2. /\ Good(Extent(0, 2 * length, 2 * length)) /\ Good(Extent(0, length, length))
      /\ Good(Extent(0, 16, 16)) /\ Good(Extent(0, 0, 0))
      /\ Good(Extent(0, cbRemaining, cbRemaining))
      /\ Good(Extent(0, RoundedToEven(cbRemaining), cbRemaining))
  <2> HIDE DEF length, cbRemaining
  <2> QED BY <1>1, ExtentType
<1>3. ASSUME NEW w \in {1, 2}
      PROVE  /\ Good(NulTerminatedExtent(d, p, w))
             /\ NulTerminatedExtent(d, p, w).raw <= cbRemaining
  BY NulTerminatedExtentType, Zenon
<1>4. Good(CountedExtent(t, d, p)) /\ Good(HexDumpExtent(d, p))
  BY CountedExtentType, HexDumpExtentType
<1>5. Good(SidExtent(d, p, 0)) /\ Good(SidExtent(d, p, 2 * size))
  <2>1. 2 * size \in Nat /\ 2 * size <= 16
    OBVIOUS
  <2> QED BY <2>1, SidExtentType
<1>6. CASE t \in {"UNICODESTRING", "ANSISTRING"}
  <2>1. PICK w \in {1, 2} : x = StringExtent(epi, w, length, d, p)
    BY <1>6 DEF ComplexExtent, CountedTypes
  <2>2. CASE HasLength(epi)
    <3>1. x = Extent(0, w * length, w * length) /\ ExtentIsChecked(epi)
      BY <1>6, <2>1, <2>2 DEF StringExtent, ExtentIsChecked
    <3>2. w * length = length \/ w * length = 2 * length
      BY <1>1
    <3> QED BY <1>2, <3>1, <3>2
  <2>3. CASE ~HasLength(epi)
    <3>1. x = NulTerminatedExtent(d, p, w)
      BY <2>1, <2>3 DEF StringExtent
    <3> QED BY <1>3, <3>1
  <2> QED BY <2>2, <2>3
<1>7. CASE t = "BINARY"
  <2>1. x = Extent(0, length, length) \/ x = Extent(0, 16, 16)
    BY <1>7 DEF ComplexExtent, BinaryExtent, CountedTypes
  <2>2. ExtentIsChecked(epi)
    BY <1>7 DEF ExtentIsChecked
  <2> QED BY <1>2, <2>1, <2>2
<1>8. CASE t \in CountedTypes
  <2>1. x = CountedExtent(t, d, p) /\ ExtentIsChecked(epi)
    BY <1>8 DEF ComplexExtent, ExtentIsChecked, CountedTypes
  <2> QED BY <1>4, <2>1
<1>9. CASE t \in {"HEXDUMP", "SID", "WBEMSID", "NONNULLTERMINATEDSTRING",
                   "NONNULLTERMINATEDANSISTRING"}
  <2>1. \/ x = HexDumpExtent(d, p) \/ x = SidExtent(d, p, 0) \/ x = SidExtent(d, p, 2 * size)
        \/ x = Extent(0, cbRemaining, cbRemaining)
        \/ x = Extent(0, RoundedToEven(cbRemaining), cbRemaining)
    BY <1>9 DEF ComplexExtent, CountedTypes
  <2>2. ExtentIsChecked(epi)
    BY <1>9 DEF ExtentIsChecked
  <2> QED BY <1>2, <1>4, <1>5, <2>1, <2>2
<1>10. CASE t \notin {"UNICODESTRING", "ANSISTRING", "BINARY", "HEXDUMP", "SID", "WBEMSID",
                      "NONNULLTERMINATEDSTRING", "NONNULLTERMINATEDANSISTRING"} \cup CountedTypes
  <2>1. x = Extent(0, 0, 0)
    BY <1>10 DEF ComplexExtent, CountedTypes
  <2>2. x.raw = 0
    <3>1. 0 < Word
      BY WordValue
    <3>2. 0 % Word = 0
      BY <3>1, ModWord
    <3> QED BY <2>1, <3>2, ExtentType
  <2>3. x.raw <= cbRemaining
    BY <1>1, <2>2
  <2> QED BY <1>2, <2>1, <2>3
<1> QED BY <1>6, <1>7, <1>8, <1>9, <1>10

\* What StartValue computes: 16-bit sizes, a value inside its item, and, in
\* the cases that skip the final check, an item inside the payload.
LEMMA ValueExtentType ==
  ASSUME NEW epi \in EventPropertyInfo, NEW values, CurrentPropertyLength(epi, values) \in USHORT,
         NEW size \in {4, 8}, NEW d \in Seq(BYTE), Len(d) \in USHORT, NEW p \in 0 .. Len(d)
  PROVE  /\ ValueExtent(epi, values, size, d, p) \in Extents
         /\ Enclosed(ValueExtent(epi, values, size, d, p))
         /\ epi.InType \in SupportedTypes /\ ~ExtentIsChecked(epi) =>
              ValueExtent(epi, values, size, d, p).raw <= Len(d) - p
         /\ epi.InType \in SimpleTypes =>
              ValueExtent(epi, values, size, d, p).raw = ElementSize(epi.InType, size)
<1>1. CASE epi.InType \in SimpleTypes
  <2> DEFINE n == ElementSize(epi.InType, size)
  <2>1. epi.InType \in InType
    BY DEF EventPropertyInfo
  <2>2. n \in 1 .. 16
    BY <1>1, <2>1, ElementSizes
  <2>3. ValueExtent(epi, values, size, d, p) = Extent(0, n, n)
    BY <1>1 DEF ValueExtent
  <2>4. n \in Nat /\ n < Word
    <3> HIDE DEF n
    <3> QED BY <2>2, WordValue
  <2>5. n % Word = n
    BY <2>4, ModWord
  <2>6. ExtentIsChecked(epi)
    BY <1>1 DEF ExtentIsChecked, SimpleTypes, OneByteTypes, TwoByteTypes,
       FourByteTypes, EightByteTypes, WideByteTypes, PointerTypes
  <2> HIDE DEF n
  <2>7. Extent(0, n, n) \in Extents /\ Enclosed(Extent(0, n, n)) /\ Extent(0, n, n).raw = n
    BY <2>4, <2>5, ExtentType
  <2> QED BY <2>3, <2>6, <2>7 DEF n
<1>2. CASE epi.InType \notin SimpleTypes
  <2>1. ValueExtent(epi, values, size, d, p) = ComplexExtent(epi, values, size, d, p)
    BY <1>2 DEF ValueExtent
  <2>2. epi.InType \in SupportedTypes => epi.InType \in ComplexTypes
    BY <1>2 DEF SupportedTypes
  <2> QED BY <1>2, <2>1, <2>2, ComplexExtentType
<1> QED BY <1>1, <1>2

-----------------------------------------------------------------------------
(* The position. *)

ItemSubStates == PositionedSubStates \ {"BeforeFirstItem"}

\* What is known of the item x at payload position p, of sub-state s, when
\* m_stackTop is t.
ItemOK(e, p, x, t, s) ==
    LET epi == e.tei.props[t.PropertyIndex]
    IN  /\ t.PropertyIndex < t.PropertyEnd
        /\ t.IsStruct <=> "Struct" \in epi.Flags
        /\ ~t.IsArray => t.ArrayIndex = 0 /\ t.ArrayCount = 1
        /\ p + x.raw <= Len(e.UserData)
        /\ x.cooked <= x.raw => x.pos + x.cooked <= Len(e.UserData)
        /\ t.IsArray /\ x.element # 0 =>
             p + (t.ArrayCount - t.ArrayIndex) * x.element <= Len(e.UserData)
        /\ t.IsStruct => x.type = "NULL" /\ x.element = 0
        /\ ~t.IsStruct => /\ x.type = CookedInType(epi.InType)
                          /\ \E size \in {4, 8} : x.element = ElementSize(epi.InType, size)
        /\ s \in ValueSubStates => ~t.IsStruct
        /\ s = "Value_Scalar" => ~t.IsArray
        /\ s = "Value_SimpleArrayElement" =>
             t.IsArray /\ x.element # 0 /\ x.cooked = x.element /\ x.raw = x.element
        /\ s = "Value_ComplexArrayElement" => t.IsArray /\ x.element = 0
        /\ s = "ArrayBegin" => /\ t.IsArray /\ t.ArrayIndex = 0
                               /\ x.cooked = t.ArrayCount * x.element
        /\ s = "ArrayEnd" => t.IsArray /\ t.ArrayIndex = t.ArrayCount /\ x.cooked = 0
        /\ s \in {"StructBegin", "StructEnd"} => t.IsStruct /\ x.cooked = 0 /\ x.raw = 0
        /\ s \notin {"ArrayBegin", "ArrayEnd"} => t.ArrayIndex < t.ArrayCount

PositionOK(e, p, x, t, stk, s) ==
    /\ p \in Nat /\ p <= Len(e.UserData)
    /\ x \in Item
    /\ t \in StackEntry
    /\ stk \in Seq(StackEntry)
    /\ s \in SubState \ {"None"}
    /\ s \in PositionedSubStates => FollowsTei(e, t, stk)
    /\ s = "BeforeFirstItem" => stk = <<>>
    /\ s = "AfterLastItem" => FollowsTei(e, t, stk) /\ stk = <<>> /\ t.PropertyIndex = t.PropertyEnd
    /\ s \in ItemSubStates => ItemOK(e, p, x, t, s)

ValuesOK(e, values) == values \in [0 .. e.tei.PropertyCount - 1 -> USHORT]

PosInv ==
    /\ TypeOK
    /\ event # NoEvent => PositionOK(event, dataNext, item, top, stack, subState)

IInv == PosInv /\ FailureIsReported

-----------------------------------------------------------------------------
(* What an event guarantees. *)

\* The payload and the counts of an event that may be started.
LEMMA EventFacts ==
  ASSUME NEW e \in Events
  PROVE  /\ e.UserData \in Seq(BYTE) /\ Len(e.UserData) \in USHORT /\ Len(e.UserData) \in Nat
         /\ e.pointerSize \in {0, 4, 8}
         /\ e.tei.PropertyCount \in USHORT /\ e.tei.PropertyCount \in Nat
         /\ e.tei.TopLevelPropertyCount \in Nat
         /\ e.tei.TopLevelPropertyCount <= e.tei.PropertyCount
<1>1. WellFormedEvent(e)
  BY EventsAssumption
<1>2. e.tei.PropertyCount \in USHORT /\ e.tei.PropertyCount \in Nat
  BY <1>1, UshortRange DEF WellFormedEvent, WellFormedTei
<1>3. e.tei.TopLevelPropertyCount \in 0 .. e.tei.PropertyCount
  BY <1>1 DEF WellFormedEvent, WellFormedTei
<1> QED BY <1>1, <1>2, <1>3, UshortRange DEF WellFormedEvent

\* A property that exists has a type, and what it refers to exists.
LEMMA PropertyFacts ==
  ASSUME NEW e \in Events, NEW i \in Nat, i < e.tei.PropertyCount
  PROVE  LET epi == e.tei.props[i] IN
         /\ epi \in EventPropertyInfo
         /\ epi.InType \in InType
         /\ epi.count \in USHORT
         /\ "ParamCount" \in epi.Flags => epi.count \in 0 .. e.tei.PropertyCount - 1
         /\ "ParamLength" \in epi.Flags => epi.length \in 0 .. e.tei.PropertyCount - 1
         /\ epi.StructStartIndex \in Nat
         /\ epi.NumOfStructMembers \in Nat
         /\ "Struct" \in epi.Flags =>
              epi.StructStartIndex + epi.NumOfStructMembers <= e.tei.PropertyCount
<1> DEFINE epi == e.tei.props[i]
           n == e.tei.PropertyCount
<1>1. WellFormedTei(e.tei)
  BY EventsAssumption DEF WellFormedEvent
<1>2. n \in Nat
  BY EventFacts
<1>3. i \in 0 .. n - 1
  BY <1>2
<1>4. epi \in EventPropertyInfo
  BY <1>1, <1>3 DEF WellFormedTei
<1>5. /\ epi.InType \in InType /\ epi.count \in USHORT /\ epi.length \in USHORT
      /\ epi.StructStartIndex \in USHORT /\ epi.NumOfStructMembers \in USHORT
  BY <1>4 DEF EventPropertyInfo
<1>6. /\ epi.count \in Nat /\ epi.length \in Nat
      /\ epi.StructStartIndex \in Nat /\ epi.NumOfStructMembers \in Nat
  BY <1>5, UshortRange
<1>7. /\ "ParamCount" \in epi.Flags => epi.count < n
      /\ "ParamLength" \in epi.Flags => epi.length < n
      /\ "Struct" \in epi.Flags => epi.StructStartIndex + epi.NumOfStructMembers <= n
  BY <1>1, <1>3 DEF WellFormedTei
<1> HIDE DEF epi, n
<1>8. /\ "ParamCount" \in epi.Flags => epi.count \in 0 .. n - 1
      /\ "ParamLength" \in epi.Flags => epi.length \in 0 .. n - 1
  BY <1>2, <1>6, <1>7
<1> QED BY <1>4, <1>5, <1>6, <1>7, <1>8 DEF epi, n

\* Lengths, like counts, are USHORTs, wherever they come from.
LEMMA CurrentPropertyLengthType ==
  ASSUME NEW e \in Events, NEW i \in Nat, i < e.tei.PropertyCount,
         NEW values, ValuesOK(e, values)
  PROVE  CurrentPropertyLength(e.tei.props[i], values) \in USHORT
<1> DEFINE epi == e.tei.props[i]
<1>1. epi.length \in USHORT
  BY PropertyFacts DEF EventPropertyInfo
<1>2. "ParamLength" \in epi.Flags => values[epi.length] \in USHORT
  BY PropertyFacts DEF ValuesOK
<1> HIDE DEF epi
<1>3. CurrentPropertyLength(epi, values) \in USHORT
  BY <1>1, <1>2 DEF CurrentPropertyLength
<1> QED BY <1>3 DEF epi

-----------------------------------------------------------------------------
(* The stack. *)

\* An entry with room for its property: the fields of the entry at the top.
LEMMA TopInTei ==
  ASSUME NEW e \in Events, NEW t \in StackEntry, NEW stk \in Seq(StackEntry),
         FollowsTei(e, t, stk)
  PROVE  t.PropertyIndex <= t.PropertyEnd /\ t.PropertyEnd <= e.tei.PropertyCount
<1>1. CASE stk = <<>>
  BY <1>1 DEF FollowsTei, InGroup
<1>2. CASE stk # <<>>
  <2>1. Len(stk) \in 1 .. Len(stk) /\ ~ (Len(stk) + 1 <= Len(stk))
    BY <1>2
  <2> QED BY <2>1 DEF FollowsTei, Encloses, InGroup
<1> QED BY <1>1, <1>2

\* Every struct that m_stack keeps is a property of the tei.
LEMMA EntryInTei ==
  ASSUME NEW e \in Events, NEW t, NEW stk \in Seq(StackEntry), FollowsTei(e, t, stk),
         NEW k \in 1 .. Len(stk)
  PROVE  stk[k].PropertyIndex \in Nat /\ stk[k].PropertyIndex < e.tei.PropertyCount
<1>1. stk[k].PropertyIndex \in Nat /\ stk[k].PropertyEnd \in Nat
  <2>1. stk[k] \in StackEntry
    OBVIOUS
  <2> QED BY <2>1 DEF StackEntry
<1>2. stk[k].PropertyIndex < stk[k].PropertyEnd
  BY DEF FollowsTei, Encloses
<1>3. stk[k].PropertyEnd <= e.tei.PropertyCount
  <2>1. CASE k = 1
    BY <2>1 DEF FollowsTei, InGroup
  <2>2. CASE k # 1
    <3>1. k - 1 \in 1 .. Len(stk) /\ k - 1 + 1 = k /\ k <= Len(stk)
      BY <2>2
    <3>2. Encloses(e, stk[k - 1], stk[k])
      BY <3>1, SMTT(30) DEF FollowsTei
    <3> QED BY <3>2 DEF Encloses, InGroup
  <2> QED BY <2>1, <2>2
<1> QED BY <1>1, <1>2, <1>3, EventFacts

\* Moving on inside the group.
LEMMA FollowsTeiInGroup ==
  ASSUME NEW e \in Events, NEW t \in StackEntry, NEW stk \in Seq(StackEntry),
         FollowsTei(e, t, stk),
         NEW u \in StackEntry, u.PropertyEnd = t.PropertyEnd,
         t.PropertyIndex <= u.PropertyIndex, u.PropertyIndex <= u.PropertyEnd
  PROVE  FollowsTei(e, u, stk)
<1>1. ASSUME NEW first \in Nat, NEW end, InGroup(e, t, first, end)
      PROVE  InGroup(e, u, first, end)
  BY <1>1 DEF InGroup, StackEntry
<1>2. CASE stk = <<>>
  BY <1>1, <1>2 DEF FollowsTei
<1>3. CASE stk # <<>>
  <2> DEFINE n == Len(stk)
             epi == e.tei.props[stk[n].PropertyIndex]
  <2>1. n \in 1 .. n /\ n \in Nat /\ 1 <= n
    BY <1>3
  <2>2. Encloses(e, stk[n], t)
    BY <2>1 DEF FollowsTei
  <2>3. epi.StructStartIndex \in Nat
    BY <2>1, EntryInTei, PropertyFacts
  <2>4. InGroup(e, u, epi.StructStartIndex, epi.StructStartIndex + epi.NumOfStructMembers)
    BY <1>1, <2>2, <2>3 DEF Encloses
  <2>5. Encloses(e, stk[n], u)
    BY <2>2, <2>4 DEF Encloses
  <2>6. \A k \in 1 .. n : k + 1 <= n \/ k = n
    BY <2>1
  <2> HIDE DEF n
  <2> QED BY <2>1, <2>5, <2>6 DEF FollowsTei, n
<1> QED BY <1>2, <1>3

\* Entering a struct: its members are a group under the struct.
LEMMA FollowsTeiPush ==
  ASSUME NEW e \in Events, NEW t \in StackEntry, NEW stk \in Seq(StackEntry),
         FollowsTei(e, t, stk), t.PropertyIndex < t.PropertyEnd,
         t.IsStruct, "Struct" \in e.tei.props[t.PropertyIndex].Flags,
         t.ArrayIndex < t.ArrayCount,
         ~t.IsArray => t.ArrayIndex = 0 /\ t.ArrayCount = 1,
         NEW u \in StackEntry,
         u.PropertyIndex = e.tei.props[t.PropertyIndex].StructStartIndex,
         u.PropertyEnd = e.tei.props[t.PropertyIndex].StructStartIndex
                         + e.tei.props[t.PropertyIndex].NumOfStructMembers
  PROVE  FollowsTei(e, u, Append(stk, t))
<1> DEFINE stack2 == Append(stk, t)
           epi == e.tei.props[t.PropertyIndex]
<1>1. /\ t.PropertyIndex \in Nat /\ t.PropertyEnd \in Nat
  BY DEF StackEntry
<1>2. t.PropertyIndex < e.tei.PropertyCount
  BY <1>1, TopInTei, EventFacts
<1>3. /\ epi.StructStartIndex \in Nat /\ epi.NumOfStructMembers \in Nat
      /\ epi.StructStartIndex + epi.NumOfStructMembers <= e.tei.PropertyCount
  BY <1>1, <1>2, PropertyFacts
<1>4. Encloses(e, t, u)
  BY <1>3 DEF Encloses, InGroup
<1>5. /\ Len(stack2) = Len(stk) + 1
      /\ \A k \in 1 .. Len(stk) : stack2[k] = stk[k]
      /\ stack2[Len(stk) + 1] = t
  OBVIOUS
<1> HIDE DEF stack2
<1>6. \A k \in 1 .. Len(stk) + 1 : k \in 1 .. Len(stk) \/ k = Len(stk) + 1
  OBVIOUS
<1> QED BY <1>4, <1>5, <1>6 DEF FollowsTei, stack2

\* Leaving a struct: the entry popped is the struct, as it was entered.
LEMMA FollowsTeiPop ==
  ASSUME NEW e \in Events, NEW t \in StackEntry, NEW stk \in Seq(StackEntry),
         FollowsTei(e, t, stk), stk # <<>>
  PROVE  LET u == stk[Len(stk)]
             rest == SubSeq(stk, 1, Len(stk) - 1)
         IN  /\ u \in StackEntry /\ rest \in Seq(StackEntry) /\ Len(rest) <= Len(stk)
             /\ FollowsTei(e, u, rest)
             /\ u.PropertyIndex < u.PropertyEnd
             /\ u.IsStruct /\ "Struct" \in e.tei.props[u.PropertyIndex].Flags
             /\ u.ArrayIndex < u.ArrayCount
             /\ ~u.IsArray => u.ArrayIndex = 0 /\ u.ArrayCount = 1
<1> DEFINE n == Len(stk)
           u == stk[n]
           rest == SubSeq(stk, 1, n - 1)
<1>1. n \in Nat /\ n >= 1 /\ n \in 1 .. n
  OBVIOUS
<1>2. /\ u \in StackEntry /\ rest \in Seq(StackEntry) /\ Len(rest) = n - 1
      /\ \A k \in 1 .. n - 1 : rest[k] = stk[k]
  BY <1>1
<1>3. /\ u.PropertyIndex < u.PropertyEnd
      /\ u.IsStruct /\ "Struct" \in e.tei.props[u.PropertyIndex].Flags
      /\ u.ArrayIndex < u.ArrayCount
      /\ ~u.IsArray => u.ArrayIndex = 0 /\ u.ArrayCount = 1
  BY <1>1 DEF FollowsTei, Encloses
<1> DEFINE Entry(k) == IF k <= Len(rest) THEN rest[k] ELSE u
<1>4. \A k \in 1 .. n : Entry(k) = stk[k]
  <2> HIDE DEF rest
  <2>1. \A k \in 1 .. n : k \in 1 .. n - 1 \/ k = n
    BY <1>1
  <2> QED BY <1>1, <1>2, <2>1
<1>5. FollowsTei(e, u, rest)
  <2>1. InGroup(e, stk[1], 0, e.tei.TopLevelPropertyCount)
    BY <1>1 DEF FollowsTei
  <2>2. ASSUME NEW k \in 1 .. n - 1
        PROVE  Encloses(e, stk[k], stk[k + 1])
    <3>1. k \in 1 .. n /\ k <= n /\ k + 1 <= n
      BY <1>1
    <3> QED BY <3>1 DEF FollowsTei
  <2>3. 1 \in 1 .. n /\ \A k \in 1 .. n - 1 : k \in 1 .. n /\ k + 1 \in 1 .. n
    BY <1>1
  <2>4. InGroup(e, Entry(1), 0, e.tei.TopLevelPropertyCount)
    BY <1>4, <2>1, <2>3
  <2>5. \A k \in 1 .. Len(rest) : Encloses(e, Entry(k), Entry(k + 1))
    <3> HIDE DEF rest, Entry
    <3> QED BY <1>2, <1>4, <2>2, <2>3
  <2> QED BY <2>4, <2>5 DEF FollowsTei
<1> QED BY <1>1, <1>2, <1>3, <1>5 DEF rest, n

-----------------------------------------------------------------------------
(* Starting a value, an array or a struct. *)

\* A pointer takes 4 or 8 bytes, whoever says so.
LEMMA PointerSizeType ==
  ASSUME event \in Events, pointerSizeFallback \in {4, 8}
  PROVE  PointerSize \in {4, 8}
BY EventFacts DEF PointerSize

\* What a started or refused value leaves behind.  A value that starts lies in
\* the payload, and its item carries the type and size of its property.
LEMMA StartValueResult ==
  ASSUME event \in Events, ValuesOK(event, integerValues), pointerSizeFallback \in {4, 8},
         NEW t \in StackEntry, t.PropertyIndex < event.tei.PropertyCount,
         NEW p \in Nat, p <= Len(event.UserData),
         NEW s, StartValue(s, t, p)
  PROVE  /\ item' \in Item
         /\ ValuesOK(event, integerValues')
         /\ \/ /\ subState' = "Error" /\ returned' = FALSE
               /\ lastError' \in {"INVALID_DATA", "UNSUPPORTED_TYPE"}
            \/ /\ subState' = s /\ returned' = TRUE /\ lastError' = "SUCCESS"
               /\ p + item'.raw <= Len(event.UserData)
               /\ item'.cooked <= item'.raw => item'.pos + item'.cooked <= Len(event.UserData)
               /\ item'.type = CookedInType(Property(t).InType)
               /\ item'.element = ElementSize(Property(t).InType, PointerSize)
               /\ Property(t).InType \in SupportedTypes
<1> DEFINE epi == Property(t)
           d == event.UserData
           x == ValueExtent(epi, integerValues, PointerSize, d, p)
           fits == ExtentIsChecked(epi) => x.raw <= Len(d) - p
           element == ElementSize(epi.InType, PointerSize)
<1>1. /\ d \in Seq(BYTE) /\ Len(d) \in USHORT /\ Len(d) \in Nat /\ p \in 0 .. Len(d)
      /\ PointerSize \in {4, 8} /\ t.PropertyIndex \in Nat
  BY EventFacts, PointerSizeType DEF StackEntry
<1>2. epi \in EventPropertyInfo /\ epi.InType \in InType
  BY <1>1, PropertyFacts DEF Property
<1>3. CurrentPropertyLength(epi, integerValues) \in USHORT
  BY <1>1, CurrentPropertyLengthType DEF Property
<1>4. /\ x \in Extents /\ Enclosed(x)
      /\ epi.InType \in SupportedTypes /\ ~ExtentIsChecked(epi) => x.raw <= Len(d) - p
      /\ epi.InType \in SimpleTypes => x.raw = element
  BY <1>1, <1>2, <1>3, ValueExtentType
<1>5. /\ x.skip \in Nat /\ x.cooked \in USHORT /\ x.raw \in USHORT
      /\ x.cooked \in Nat /\ x.raw \in Nat
  BY <1>4, UshortRange DEF Extents
<1>6. element \in 0 .. 16 /\ CookedInType(epi.InType) \in InType
  BY <1>1, <1>2, ElementSizes, CookedInTypeType, SMTT(30)
<1>7. 0 \in USHORT
  BY UshortRange, WordValue
<1>8. ValueItem(epi, x, p) = [pos |-> p + x.skip, cooked |-> x.cooked, raw |-> x.raw,
                              type |-> CookedInType(epi.InType), element |-> element]
  BY DEF ValueItem
<1>9. ValueItem(epi, x, p) \in Item
  <2> HIDE DEF x, element, epi
  <2> QED BY <1>5, <1>6, <1>8 DEF Item
<1>10. CASE /\ epi.InType \in SupportedTypes /\ fits
            /\ item' = ValueItem(epi, x, p)
            /\ Remember(t.PropertyIndex, epi, p)
            /\ MovedTo(s)
  <2>1. x.raw <= Len(d) - p
    BY <1>4, <1>10
  <2>2. p + x.raw <= Len(d)
    <3> HIDE DEF x
    <3> QED BY <1>1, <1>5, <2>1
  <2>3. x.cooked <= x.raw => p + x.skip + x.cooked <= Len(d)
    <3> HIDE DEF x
    <3> QED BY <1>1, <1>4, <1>5, <2>2 DEF Enclosed
  <2>4. ValuesOK(event, integerValues')
    <3>1. CASE epi.InType \in RememberedTypes
      <4>1. epi.InType \in SimpleTypes
        BY <3>1, RememberedSizes
      <4>2. p + element <= Len(d)
        BY <1>4, <2>2, <4>1
      <4>3. RememberedValue(epi.InType, d, p) \in USHORT
        BY <1>1, <3>1, <4>2, RememberedValueType
      <4> QED BY <1>10, <3>1, <4>3 DEF Remember, ValuesOK
    <3>2. CASE epi.InType \notin RememberedTypes
      BY <1>10, <3>2 DEF Remember
    <3> QED BY <3>1, <3>2
  <2> HIDE DEF x, epi, element
  <2> QED BY <1>8, <1>9, <1>10, <2>2, <2>3, <2>4 DEF MovedTo, epi, element
<1>11. CASE /\ epi.InType \in SupportedTypes /\ ~fits
            /\ item' = [ValueItem(epi, x, p) EXCEPT !.cooked = 0, !.raw = 0]
            /\ SetErrorState("INVALID_DATA")
            /\ UNCHANGED integerValues
  <2>1. item' \in Item
    <3> HIDE DEF x, epi
    <3> QED BY <1>7, <1>9, <1>11 DEF Item
  <2> QED BY <1>11, <2>1 DEF SetErrorState
<1>12. CASE /\ epi.InType \notin SupportedTypes
            /\ item' = ValueItem(epi, Extent(0, 0, 0), p)
            /\ SetErrorState("UNSUPPORTED_TYPE")
            /\ UNCHANGED integerValues
  <2>1. Extent(0, 0, 0) \in Extents
    BY ExtentType
  <2>2. item' \in Item
    <3> HIDE DEF epi
    <3> QED BY <1>6, <1>12, <2>1 DEF ValueItem, Item, Extents, element
  <2> QED BY <1>12, <2>2 DEF SetErrorState
<1>13. StartValue(s, t, p)
  OBVIOUS
<1> QED BY <1>10, <1>11, <1>12, <1>13 DEF StartValue

\* StartArray: an array of simple elements starts only if all of them fit.
LEMMA StartArrayResult ==
  ASSUME event \in Events, pointerSizeFallback \in {4, 8}, lastError \in Status,
         NEW t \in StackEntry, t.PropertyIndex < event.tei.PropertyCount,
         t.PropertyIndex < t.PropertyEnd, t.IsArray, t.ArrayIndex = 0,
         t.IsStruct <=> "Struct" \in Property(t).Flags,
         NEW p \in Nat, p <= Len(event.UserData),
         StartArray(t, p)
  PROVE  /\ item' \in Item
         /\ integerValues' = integerValues
         /\ \/ /\ subState' = "Error" /\ returned' = FALSE
               /\ lastError' \in {"INVALID_DATA", "UNSUPPORTED_TYPE"}
            \/ /\ subState' = "ArrayBegin" /\ returned' = TRUE /\ lastError' \in Status
               /\ ItemOK(event, p, item', t, "ArrayBegin")
<1> DEFINE epi == Property(t)
           d == event.UserData
           element == IF t.IsStruct THEN 0 ELSE ElementSize(epi.InType, PointerSize)
           cbArray == t.ArrayCount * element
           type == IF t.IsStruct THEN "NULL" ELSE CookedInType(epi.InType)
           begin == [pos |-> p, cooked |-> 0, raw |-> 0, element |-> element, type |-> type]
<1>1. /\ Len(d) \in Nat /\ Len(d) \in USHORT /\ PointerSize \in {4, 8}
      /\ t.PropertyIndex \in Nat /\ t.ArrayCount \in USHORT /\ t.ArrayCount \in Nat
      /\ t.IsStruct \in BOOLEAN
  BY EventFacts, PointerSizeType, UshortRange DEF StackEntry
<1>2. epi.InType \in InType
  BY <1>1, PropertyFacts DEF Property
<1>3. /\ ElementSize(epi.InType, PointerSize) \in 0 .. 16
      /\ epi.InType \notin SimpleTypes => ElementSize(epi.InType, PointerSize) = 0
  BY <1>1, <1>2, ElementSizes
<1>4. element \in 0 .. 16 /\ element \in Nat /\ type \in InType /\ cbArray \in Nat
  <2>1. type \in InType
    BY <1>2, CookedInTypeType DEF InType, SupportedTypes, ComplexTypes
  <2>2. element \in Nat /\ element \in 0 .. 16
    BY <1>3
  <2> HIDE DEF element
  <2> QED BY <1>1, <2>1, <2>2
<1>5. 0 \in USHORT
  BY UshortRange, WordValue
<1>6. begin \in Item
  <2> HIDE DEF element, type
  <2> QED BY <1>4, <1>5 DEF Item
<1>7. /\ t.IsStruct => type = "NULL" /\ element = 0
      /\ ~t.IsStruct => /\ type = CookedInType(epi.InType)
                        /\ \E size \in {4, 8} : element = ElementSize(epi.InType, size)
  BY <1>1
<1>8. "ArrayBegin" \notin ValueSubStates
  BY DEF ValueSubStates
<1>9. CASE /\ t.IsStruct \/ epi.InType \in ComplexTypes
           /\ item' = begin
           /\ MovedTo("ArrayBegin")
           /\ UNCHANGED integerValues
  <2>1. element = 0
    BY <1>3, <1>9, TypesAreDisjoint
  <2>2. cbArray = 0 /\ (t.ArrayCount - t.ArrayIndex) * element = 0
    <3> HIDE DEF element
    <3> QED BY <1>1, <2>1
  <2> HIDE DEF element, type, cbArray
  <2>3. ItemOK(event, p, begin, t, "ArrayBegin")
    BY <1>1, <1>7, <1>8, <2>1, <2>2 DEF ItemOK, Property, epi, cbArray
  <2> QED BY <1>6, <1>9, <2>3 DEF MovedTo, Status
<1>10. CASE /\ ~t.IsStruct
            /\ cbArray <= Len(d) - p
            /\ item' = [begin EXCEPT !.cooked = cbArray, !.raw = cbArray]
            /\ subState' = "ArrayBegin" /\ returned' = TRUE
            /\ UNCHANGED <<lastError, integerValues>>
  <2>1. /\ cbArray \in USHORT /\ p + cbArray <= Len(d)
        /\ (t.ArrayCount - t.ArrayIndex) * element = cbArray
    <3>1. t.ArrayCount - t.ArrayIndex = t.ArrayCount
      BY <1>1
    <3> HIDE DEF element
    <3>2. (t.ArrayCount - t.ArrayIndex) * element = cbArray
      BY <3>1
    <3> HIDE DEF cbArray
    <3>3. p + cbArray <= Len(d) /\ cbArray <= Len(d)
      BY <1>1, <1>4, <1>10
    <3> QED BY <1>1, <1>4, <3>2, <3>3, UshortRange, WordValue
  <2> HIDE DEF element, type, cbArray
  <2>2. item' = [pos |-> p, cooked |-> cbArray, raw |-> cbArray,
                 element |-> element, type |-> type]
    BY <1>10
  <2>3. item' \in Item
    BY <1>4, <2>1, <2>2 DEF Item
  <2>4. ItemOK(event, p, item', t, "ArrayBegin")
    BY <1>1, <1>7, <1>8, <2>1, <2>2 DEF ItemOK, Property, epi, cbArray
  <2> QED BY <1>10, <2>3, <2>4
<1>11. CASE /\ item' = begin
            /\ SetErrorState("INVALID_DATA") \/ SetErrorState("UNSUPPORTED_TYPE")
            /\ UNCHANGED integerValues
  <2> HIDE DEF begin
  <2> QED BY <1>6, <1>11 DEF SetErrorState
<1>12. StartArray(t, p)
  OBVIOUS
<1> HIDE DEF begin, cbArray, element, type
<1> QED BY <1>9, <1>10, <1>11, <1>12 DEF StartArray, ArrayFits, begin, cbArray, element, type

\* The item of a struct's begin is right for any struct that can begin.
LEMMA StructItemOK ==
  ASSUME NEW e \in Events, NEW t \in StackEntry,
         t.PropertyIndex < t.PropertyEnd, t.IsStruct,
         "Struct" \in e.tei.props[t.PropertyIndex].Flags,
         ~t.IsArray => t.ArrayIndex = 0 /\ t.ArrayCount = 1,
         t.ArrayIndex < t.ArrayCount,
         NEW p \in Nat, p <= Len(e.UserData)
  PROVE  /\ StructItem(p) \in Item
         /\ ItemOK(e, p, StructItem(p), t, "StructBegin")
<1>1. 0 \in USHORT
  BY UshortRange, WordValue
<1>2. StructItem(p) \in Item
  BY <1>1 DEF StructItem, Item, InType, SupportedTypes, ComplexTypes
<1>3. "StructBegin" \notin ValueSubStates
  BY DEF ValueSubStates
<1> QED BY <1>2, <1>3 DEF ItemOK, StructItem

-----------------------------------------------------------------------------
(* NextProperty. *)

\* What a move may assume of the state it starts from, besides the position.
Ready ==
    /\ event \in Events
    /\ item \in Item
    /\ ValuesOK(event, integerValues)
    /\ pointerSizeFallback \in {4, 8}
    /\ lastError \in Status

\* What a move leaves, when m_stack held depth entries before the call of
\* NextProperty.
Moved(depth) ==
    /\ PositionOK(event, dataNext', item', top', stack', subState')
    /\ ValuesOK(event, integerValues')
    /\ lastError' \in Status
    /\ returned' \in BOOLEAN
    /\ Len(stack') <= depth
    /\ returned' => subState' \in PositionedSubStates
    /\ ~returned' => lastError' # "SUCCESS" \/ subState' = "AfterLastItem"

\* A move that fails for a reason, or reaches an item, leaves what Moved says.
LEMMA MovedIntro ==
  ASSUME NEW p, NEW t, NEW stk \in Seq(StackEntry),
         dataNext' = p, top' = t, stack' = stk,
         PositionOK(event, p, item', t, stk, subState'),
         ValuesOK(event, integerValues'),
         lastError' \in Status,
         \/ returned' = TRUE /\ subState' \in PositionedSubStates
         \/ returned' = FALSE /\ lastError' # "SUCCESS"
  PROVE  Moved(Len(stk))
<1>1. PositionOK(event, dataNext', item', top', stack', subState')
  OBVIOUS
<1>2. Len(stack') <= Len(stk)
  OBVIOUS
<1>3. returned' \in BOOLEAN
  OBVIOUS
<1> QED BY <1>1, <1>2, <1>3 DEF Moved

\* The item at an end is an item.
LEMMA EndItemType ==
  ASSUME NEW x \in Item, NEW p \in Nat
  PROVE  [x EXCEPT !.pos = p, !.cooked = 0, !.raw = 0] \in Item
<1>1. 0 \in USHORT
  BY UshortRange, WordValue
<1> QED BY <1>1 DEF Item

\* NextProperty past the last top-level property.
LEMMA EnumerationEndsResult ==
  ASSUME Ready, NEW t \in StackEntry, NEW stk \in Seq(StackEntry), FollowsTei(event, t, stk),
         NEW p \in Nat, p <= Len(event.UserData), EnumerationEnds(t, p, stk)
  PROVE  Moved(Len(stk))
<1>1. item' \in Item
  BY EndItemType DEF Ready, EnumerationEnds, EndItem
<1>2. /\ dataNext' = p /\ top' = t /\ stack' = stk /\ integerValues' = integerValues
      /\ subState' = "AfterLastItem" /\ lastError' = "SUCCESS" /\ returned' = FALSE
      /\ stk = <<>> /\ t.PropertyIndex = t.PropertyEnd
  BY DEF EnumerationEnds, AtPosition
<1>3. PositionOK(event, p, item', t, stk, "AfterLastItem")
  BY <1>1, <1>2 DEF PositionOK, SubState, PositionedSubStates, ItemSubStates
<1>4. PositionOK(event, dataNext', item', top', stack', subState')
  BY <1>2, <1>3
<1>5. Len(stack') <= Len(stk)
  <2>1. stack' = stk
    BY <1>2
  <2>2. Len(stk) \in Nat
    OBVIOUS
  <2> QED BY <2>1, <2>2
<1>6. ValuesOK(event, integerValues')
  BY <1>2 DEF Ready
<1> QED BY <1>2, <1>4, <1>5, <1>6 DEF Moved, Status

\* NextProperty past the last member of a struct.
LEMMA StructEndsResult ==
  ASSUME Ready, NEW t \in StackEntry, NEW stk \in Seq(StackEntry), FollowsTei(event, t, stk),
         NEW p \in Nat, p <= Len(event.UserData), StructEnds(t, p, stk)
  PROVE  Moved(Len(stk))
<1> DEFINE u == stk[Len(stk)]
           rest == SubSeq(stk, 1, Len(stk) - 1)
           x == StructItem(p)
<1>1. /\ stk # <<>> /\ top' = u /\ dataNext' = p /\ stack' = rest
      /\ item' = x /\ UNCHANGED integerValues
      /\ subState' = "StructEnd" /\ lastError' = "SUCCESS" /\ returned' = TRUE
  BY DEF StructEnds, AtPosition, MovedTo
<1>2. /\ u \in StackEntry /\ rest \in Seq(StackEntry) /\ Len(rest) <= Len(stk)
      /\ FollowsTei(event, u, rest)
      /\ u.PropertyIndex < u.PropertyEnd
      /\ u.IsStruct /\ "Struct" \in event.tei.props[u.PropertyIndex].Flags
      /\ u.ArrayIndex < u.ArrayCount
      /\ ~u.IsArray => u.ArrayIndex = 0 /\ u.ArrayCount = 1
  BY <1>1, FollowsTeiPop DEF Ready
<1>3. x \in Item /\ x.pos = p /\ x.cooked = 0 /\ x.raw = 0 /\ x.type = "NULL" /\ x.element = 0
  BY <1>2, StructItemOK DEF Ready, StructItem
<1> HIDE DEF u, rest, x
<1>4. ItemOK(event, p, x, u, "StructEnd")
  BY <1>2, <1>3 DEF ItemOK, ValueSubStates
<1>5. PositionOK(event, p, x, u, rest, "StructEnd")
  BY <1>2, <1>3, <1>4 DEF PositionOK, SubState, PositionedSubStates
<1> QED BY <1>1, <1>2, <1>5 DEF Ready, Moved, PositionedSubStates, Status

\* NextProperty at a property: a scalar, an array or a struct.
LEMMA PropertyStartsResult ==
  ASSUME Ready, NEW t \in StackEntry, NEW stk \in Seq(StackEntry), FollowsTei(event, t, stk),
         NEW p \in Nat, p <= Len(event.UserData), PropertyStarts(t, p, stk)
  PROVE  Moved(Len(stk))
<1> DEFINE epi == Property(t)
           At(count, isArray) ==
               [t EXCEPT !.ArrayIndex = 0, !.ArrayCount = count, !.IsArray = isArray,
                         !.IsStruct = "Struct" \in epi.Flags]
           count == IF "ParamCount" \in epi.Flags THEN integerValues[epi.count] ELSE epi.count
<1>1. /\ t.PropertyIndex < t.PropertyEnd /\ t.PropertyIndex < event.tei.PropertyCount
      /\ t.PropertyIndex \in Nat /\ t.PropertyEnd \in Nat
  <2>1. t.PropertyIndex \in Nat /\ t.PropertyEnd \in Nat
    BY DEF StackEntry
  <2>2. t.PropertyIndex # t.PropertyEnd
    BY DEF PropertyStarts
  <2> QED BY <2>1, <2>2, TopInTei, EventFacts DEF Ready
<1>2. epi.count \in USHORT /\ count \in USHORT /\ 0 \in USHORT /\ 1 \in USHORT /\ epi.InType \in InType
  <2>1. epi.count \in USHORT /\ epi.InType \in InType
    BY <1>1, PropertyFacts DEF Ready, Property
  <2>2. "ParamCount" \in epi.Flags => integerValues[epi.count] \in USHORT
    BY <1>1, PropertyFacts DEF Ready, Property, ValuesOK
  <2> QED BY <2>1, <2>2, UshortRange, WordValue
<1>3. ASSUME NEW c \in USHORT, NEW a \in BOOLEAN
      PROVE  /\ At(c, a) \in StackEntry
             /\ At(c, a).PropertyIndex = t.PropertyIndex
             /\ At(c, a).PropertyEnd = t.PropertyEnd
             /\ At(c, a).ArrayIndex = 0 /\ At(c, a).ArrayCount = c /\ At(c, a).IsArray = a
             /\ At(c, a).IsStruct = ("Struct" \in epi.Flags)
             /\ Property(At(c, a)) = epi
             /\ FollowsTei(event, At(c, a), stk)
  <2>1. /\ At(c, a) \in StackEntry
        /\ At(c, a).PropertyIndex = t.PropertyIndex
        /\ At(c, a).PropertyEnd = t.PropertyEnd
        /\ At(c, a).ArrayIndex = 0 /\ At(c, a).ArrayCount = c /\ At(c, a).IsArray = a
        /\ At(c, a).IsStruct = ("Struct" \in epi.Flags)
    <3> DEFINE b == "Struct" \in epi.Flags
    <3>1. b \in BOOLEAN
      OBVIOUS
    <3>2. At(c, a) = [t EXCEPT !.ArrayIndex = 0, !.ArrayCount = c, !.IsArray = a, !.IsStruct = b]
      OBVIOUS
    <3> HIDE DEF At, b
    <3>3. /\ At(c, a) \in StackEntry
          /\ At(c, a).PropertyIndex = t.PropertyIndex
          /\ At(c, a).PropertyEnd = t.PropertyEnd
          /\ At(c, a).ArrayIndex = 0 /\ At(c, a).ArrayCount = c /\ At(c, a).IsArray = a
          /\ At(c, a).IsStruct = b
      BY <1>2, <3>1, <3>2 DEF StackEntry
    <3> QED BY <3>3 DEF b
  <2> HIDE DEF At
  <2>2. Property(At(c, a)) = epi
    BY <2>1 DEF Property
  <2>3. FollowsTei(event, At(c, a), stk)
    BY <1>1, <2>1, FollowsTeiInGroup DEF Ready
  <2> QED BY <2>1, <2>2, <2>3
<1> HIDE DEF At, count
<1>4. CASE /\ IsScalarProperty(epi)
           /\ AtPosition(At(1, FALSE), p, stk)
           /\ StartValue("Value_Scalar", t, p)
  <2> DEFINE u == At(1, FALSE)
  <2>1. /\ u \in StackEntry /\ FollowsTei(event, u, stk)
        /\ u.PropertyIndex = t.PropertyIndex /\ u.PropertyEnd = t.PropertyEnd
        /\ ~u.IsArray /\ u.ArrayIndex = 0 /\ u.ArrayCount = 1
        /\ ~u.IsStruct /\ "Struct" \notin epi.Flags
    BY <1>2, <1>3, <1>4 DEF IsScalarProperty
  <2>2. /\ item' \in Item
        /\ ValuesOK(event, integerValues')
        /\ \/ /\ subState' = "Error" /\ returned' = FALSE
              /\ lastError' \in {"INVALID_DATA", "UNSUPPORTED_TYPE"}
           \/ /\ subState' = "Value_Scalar" /\ returned' = TRUE /\ lastError' = "SUCCESS"
              /\ p + item'.raw <= Len(event.UserData)
              /\ item'.cooked <= item'.raw => item'.pos + item'.cooked <= Len(event.UserData)
              /\ item'.type = CookedInType(epi.InType)
              /\ item'.element = ElementSize(epi.InType, PointerSize)
    BY <1>1, <1>4, StartValueResult DEF Ready
  <2>3. PointerSize \in {4, 8}
    BY PointerSizeType DEF Ready
  <2> HIDE DEF u, epi
  <2>4. subState' = "Value_Scalar" => ItemOK(event, p, item', u, "Value_Scalar")
    BY <1>1, <2>1, <2>2, <2>3 DEF ItemOK, Property, epi
  <2>5. PositionOK(event, p, item', u, stk, subState')
    BY <2>1, <2>2, <2>4 DEF PositionOK, SubState, PositionedSubStates, ItemSubStates
  <2>6. dataNext' = p /\ top' = u /\ stack' = stk
    BY <1>4 DEF AtPosition, u
  <2> QED BY <2>2, <2>5, <2>6, MovedIntro DEF PositionedSubStates, Status
<1>5. CASE /\ IsArrayProperty(epi)
           /\ AtPosition(At(count, TRUE), p, stk)
           /\ StartArray(At(count, TRUE), p)
  <2> DEFINE u == At(count, TRUE)
  <2>1. /\ u \in StackEntry /\ FollowsTei(event, u, stk)
        /\ u.PropertyIndex = t.PropertyIndex /\ u.PropertyEnd = t.PropertyEnd
        /\ u.IsArray /\ u.ArrayIndex = 0
        /\ u.IsStruct = ("Struct" \in epi.Flags) /\ Property(u) = epi
    BY <1>2, <1>3
  <2>2. /\ item' \in Item
        /\ integerValues' = integerValues
        /\ \/ /\ subState' = "Error" /\ returned' = FALSE
              /\ lastError' \in {"INVALID_DATA", "UNSUPPORTED_TYPE"}
           \/ /\ subState' = "ArrayBegin" /\ returned' = TRUE /\ lastError' \in Status
              /\ ItemOK(event, p, item', u, "ArrayBegin")
    <3> HIDE DEF u, epi
    <3>1. StartArray(u, p)
      BY <1>5 DEF u
    <3> QED BY <1>1, <2>1, <3>1, StartArrayResult DEF Ready
  <2> HIDE DEF u, epi
  <2>3. PositionOK(event, p, item', u, stk, subState')
    BY <2>1, <2>2 DEF PositionOK, SubState, PositionedSubStates, ItemSubStates
  <2>4. dataNext' = p /\ top' = u /\ stack' = stk
    BY <1>5 DEF AtPosition, u
  <2>5. ValuesOK(event, integerValues') /\ lastError' \in Status
    BY <2>2 DEF Ready, Status
  <2> QED BY <2>2, <2>3, <2>4, <2>5, MovedIntro DEF PositionedSubStates
<1>6. CASE /\ ~IsScalarProperty(epi)
           /\ ~IsArrayProperty(epi)
           /\ AtPosition(At(epi.count, FALSE), p, stk)
           /\ StartStruct(p)
  <2> DEFINE u == At(epi.count, FALSE)
  <2>1. epi.count = 1 /\ "Struct" \in epi.Flags
    BY <1>6 DEF IsScalarProperty, IsArrayProperty
  <2>2. /\ u \in StackEntry /\ FollowsTei(event, u, stk)
        /\ u.PropertyIndex = t.PropertyIndex /\ u.PropertyEnd = t.PropertyEnd
        /\ ~u.IsArray /\ u.ArrayIndex = 0 /\ u.ArrayCount = 1 /\ u.IsStruct
    BY <1>2, <1>3, <2>1
  <2>3. /\ item' = StructItem(p) /\ integerValues' = integerValues
        /\ subState' = "StructBegin" /\ lastError' = "SUCCESS" /\ returned' = TRUE
        /\ dataNext' = p /\ top' = u /\ stack' = stk
    BY <1>6 DEF StartStruct, MovedTo, AtPosition
  <2> HIDE DEF u
  <2>4. StructItem(p) \in Item /\ ItemOK(event, p, StructItem(p), u, "StructBegin")
    BY <1>1, <2>1, <2>2, StructItemOK DEF Ready, Property
  <2>5. PositionOK(event, p, item', u, stk, subState')
    BY <2>2, <2>3, <2>4 DEF PositionOK, SubState, PositionedSubStates, ItemSubStates
  <2> QED BY <2>3, <2>5 DEF Ready, Moved, PositionedSubStates, Status
<1> QED BY <1>4, <1>5, <1>6 DEF PropertyStarts, At, count

\* NextProperty, called at a position inside the payload and a place of the tei,
\* leaves such a position and such a place.
LEMMA NextPropertyResult ==
  ASSUME Ready, NEW t \in StackEntry, NEW stk \in Seq(StackEntry), FollowsTei(event, t, stk),
         NEW p \in Nat, p <= Len(event.UserData), NextProperty(t, p, stk)
  PROVE  Moved(Len(stk))
BY EnumerationEndsResult, StructEndsResult, PropertyStartsResult DEF NextProperty

-----------------------------------------------------------------------------
(* The steps that MoveNext and MoveNextSibling are made of. *)

\* What is known where a move starts.
LEMMA PositionedFacts ==
  ASSUME PosInv, Positioned
  PROVE  /\ Ready
         /\ dataNext \in Nat /\ dataNext <= Len(event.UserData)
         /\ top \in StackEntry /\ stack \in Seq(StackEntry)
         /\ FollowsTei(event, top, stack)
         /\ stackCapacity \in Nat \ {0} /\ Len(stack) <= stackCapacity
<1>1. subState # "None" /\ event \in Events
  BY DEF PosInv, TypeOK, Positioned, PositionedSubStates
<1>2. PositionOK(event, dataNext, item, top, stack, subState)
  BY <1>1, EventsAssumption DEF PosInv
<1>3. Ready
  BY <1>1 DEF PosInv, TypeOK, Ready, ValuesOK
<1> QED BY <1>2, <1>3 DEF PosInv, TypeOK, PositionOK, Positioned

\* What is known, besides, at an item.
LEMMA AtItemFacts ==
  ASSUME PosInv, AtItem
  PROVE  /\ Positioned
         /\ ItemOK(event, dataNext, item, top, subState)
<1>1. Positioned /\ subState \in ItemSubStates /\ subState # "None"
  BY DEF AtItem, Positioned, ItemSubStates, PositionedSubStates
<1>2. event \in Events
  BY <1>1 DEF PosInv, TypeOK
<1> QED BY <1>1, <1>2, EventsAssumption DEF PosInv, PositionOK

\* The integers of the item and of the stack's top.
LEMMA ReadyFacts ==
  ASSUME Ready, top \in StackEntry
  PROVE  /\ item.element \in Nat /\ item.element \in USHORT
         /\ item.cooked \in Nat /\ item.raw \in Nat
         /\ top.ArrayCount \in Nat /\ top.ArrayIndex \in Nat
         /\ Len(event.UserData) \in Nat
<1>1. item.element \in 0 .. 16 /\ item.cooked \in USHORT /\ item.raw \in USHORT
  BY DEF Ready, Item
<1>2. item.element \in Nat /\ item.element < Word
  BY <1>1, WordValue
<1>3. top.ArrayCount \in USHORT /\ top.ArrayIndex \in USHORT
  BY DEF StackEntry
<1>4. Len(event.UserData) \in Nat
  BY EventFacts DEF Ready
<1> QED BY <1>1, <1>2, <1>3, <1>4, UshortRange, WordValue

\* The next property of the group.
LEMMA NextIndexFacts ==
  ASSUME NEW t \in StackEntry
  PROVE  /\ NextIndex(t) \in StackEntry
         /\ NextIndex(t).PropertyIndex = t.PropertyIndex + 1
         /\ NextIndex(t).PropertyEnd = t.PropertyEnd
BY DEF NextIndex, StackEntry

\* The next element of an array that has one more: its index does not wrap.
LEMMA NextElementFacts ==
  ASSUME NEW t \in StackEntry, t.ArrayIndex < t.ArrayCount
  PROVE  /\ NextElement(t) \in StackEntry
         /\ NextElement(t).PropertyIndex = t.PropertyIndex
         /\ NextElement(t).PropertyEnd = t.PropertyEnd
         /\ NextElement(t).ArrayIndex = t.ArrayIndex + 1
         /\ NextElement(t).ArrayCount = t.ArrayCount
         /\ NextElement(t).IsArray = t.IsArray
         /\ NextElement(t).IsStruct = t.IsStruct
         /\ t.ArrayIndex + 1 <= t.ArrayCount
<1>1. /\ t.ArrayIndex \in Nat /\ t.ArrayCount \in Nat /\ t.ArrayCount < Word
      /\ t.ArrayIndex \in USHORT /\ t.ArrayCount \in USHORT
  BY UshortRange, WordValue DEF StackEntry
<1>2. (t.ArrayIndex + 1) % Word = t.ArrayIndex + 1 /\ t.ArrayIndex + 1 \in USHORT
      /\ t.ArrayIndex + 1 <= t.ArrayCount
  BY <1>1, UshortRange, WordValue
<1> DEFINE i == t.ArrayIndex + 1
<1>3. NextElement(t) = [t EXCEPT !.ArrayIndex = i]
  BY <1>2 DEF NextElement
<1>4. i \in USHORT
  BY <1>2
<1> HIDE DEF i
<1>5. /\ NextElement(t) \in StackEntry
      /\ NextElement(t).PropertyIndex = t.PropertyIndex
      /\ NextElement(t).PropertyEnd = t.PropertyEnd
      /\ NextElement(t).ArrayIndex = i
      /\ NextElement(t).ArrayCount = t.ArrayCount
      /\ NextElement(t).IsArray = t.IsArray
      /\ NextElement(t).IsStruct = t.IsStruct
  BY <1>3, <1>4 DEF StackEntry
<1> QED BY <1>2, <1>5 DEF i

\* The next property follows the tei as the current one did.
LEMMA NextIndexFollowsTei ==
  ASSUME NEW e \in Events, NEW t \in StackEntry, NEW stk \in Seq(StackEntry),
         FollowsTei(e, t, stk), t.PropertyIndex < t.PropertyEnd
  PROVE  NextIndex(t) \in StackEntry /\ FollowsTei(e, NextIndex(t), stk)
<1>1. t.PropertyIndex \in Nat /\ t.PropertyEnd \in Nat
  BY DEF StackEntry
<1>2. /\ NextIndex(t) \in StackEntry
      /\ NextIndex(t).PropertyEnd = t.PropertyEnd
      /\ t.PropertyIndex <= NextIndex(t).PropertyIndex
      /\ NextIndex(t).PropertyIndex <= NextIndex(t).PropertyEnd
  BY <1>1, NextIndexFacts
<1> QED BY <1>2, FollowsTeiInGroup

\* And so does the next element.
LEMMA NextElementFollowsTei ==
  ASSUME NEW e \in Events, NEW t \in StackEntry, NEW stk \in Seq(StackEntry),
         FollowsTei(e, t, stk), t.PropertyIndex < t.PropertyEnd, t.ArrayIndex < t.ArrayCount
  PROVE  FollowsTei(e, NextElement(t), stk)
<1>1. t.PropertyIndex \in Nat /\ t.PropertyEnd \in Nat
  BY DEF StackEntry
<1>2. /\ NextElement(t) \in StackEntry
      /\ NextElement(t).PropertyEnd = t.PropertyEnd
      /\ t.PropertyIndex <= NextElement(t).PropertyIndex
      /\ NextElement(t).PropertyIndex <= NextElement(t).PropertyEnd
  BY <1>1, NextElementFacts
<1> QED BY <1>2, FollowsTeiInGroup

\* Of n + 1 elements of size b, n are left after one.
LEMMA OneLess ==
  ASSUME NEW n \in Nat, NEW b \in Nat
  PROVE  (n + 1) * b = n * b + b /\ n * b \in Nat /\ (n # 0 => b <= n * b)
<1>1. (n + 1) * b = n * b + b /\ n * b \in Nat
  OBVIOUS
<1>2. ASSUME n # 0 PROVE b <= n * b
  <2>1. n - 1 \in Nat /\ n = (n - 1) + 1
    BY <1>2
  <2>2. ((n - 1) + 1) * b = (n - 1) * b + b /\ (n - 1) * b \in Nat
    BY <2>1
  <2> DEFINE m == (n - 1) * b
  <2>3. n * b = m + b /\ m \in Nat
    BY <2>1, <2>2
  <2> HIDE DEF m
  <2> QED BY <2>3
<1> QED BY <1>1, <1>2

\* The end of an array keeps the type and the element size of its begin.
LEMMA ArrayEndsResult ==
  ASSUME Ready, stack \in Seq(StackEntry),
         NEW t \in StackEntry, FollowsTei(event, t, stack),
         t.PropertyIndex < t.PropertyEnd,
         t.IsStruct <=> "Struct" \in event.tei.props[t.PropertyIndex].Flags,
         t.IsArray, t.ArrayIndex = t.ArrayCount,
         t.IsStruct => item.type = "NULL" /\ item.element = 0,
         ~t.IsStruct =>
           /\ item.type = CookedInType(event.tei.props[t.PropertyIndex].InType)
           /\ \E size \in {4, 8} :
                item.element = ElementSize(event.tei.props[t.PropertyIndex].InType, size),
         NEW p \in Nat, p <= Len(event.UserData), ArrayEnds(t, p)
  PROVE  Moved(Len(stack))
<1> DEFINE x == EndItem(p)
<1>1. /\ dataNext' = p /\ top' = t /\ stack' = stack /\ item' = x
      /\ subState' = "ArrayEnd" /\ lastError' = "SUCCESS" /\ returned' = TRUE
      /\ integerValues' = integerValues
  BY DEF ArrayEnds, AtPosition, MovedTo
<1>2. /\ x \in Item /\ x.pos = p /\ x.cooked = 0 /\ x.raw = 0
      /\ x.type = item.type /\ x.element = item.element /\ x.element \in Nat
  <2>1. x \in Item
    BY EndItemType DEF Ready, EndItem
  <2> QED BY <2>1, SMTT(30) DEF EndItem, Ready, Item
<1>3. (t.ArrayCount - t.ArrayIndex) * x.element = 0
  <2>1. t.ArrayCount - t.ArrayIndex = 0
    BY UshortRange DEF StackEntry
  <2> HIDE DEF x
  <2> QED BY <1>2, <2>1
<1> HIDE DEF x
<1>4. ItemOK(event, p, x, t, "ArrayEnd")
  BY <1>2, <1>3 DEF ItemOK, ValueSubStates
<1>5. PositionOK(event, p, x, t, stack, "ArrayEnd")
  BY <1>2, <1>4 DEF PositionOK, SubState, PositionedSubStates
<1>6. ValuesOK(event, integerValues') /\ "ArrayEnd" \in PositionedSubStates
  BY <1>1 DEF Ready, PositionedSubStates
<1>7. PositionOK(event, p, item', t, stack, subState')
  BY <1>1, <1>5
<1> QED BY <1>1, <1>6, <1>7, MovedIntro DEF Status

\* A value that starts at the property of t, in or outside an array, leaves a
\* position that is right for it.
LEMMA StartedValue ==
  ASSUME Ready, NEW t \in StackEntry, NEW stk \in Seq(StackEntry), FollowsTei(event, t, stk),
         t.PropertyIndex < t.PropertyEnd, ~t.IsStruct,
         "Struct" \notin event.tei.props[t.PropertyIndex].Flags,
         t.IsArray, t.ArrayIndex < t.ArrayCount,
         \E size \in {4, 8} : ElementSize(event.tei.props[t.PropertyIndex].InType, size) = 0,
         NEW p \in Nat, p <= Len(event.UserData),
         dataNext' = p, top' = t, stack' = stk,
         StartValue("Value_ComplexArrayElement", t, p)
  PROVE  Moved(Len(stk))
<1> DEFINE epi == event.tei.props[t.PropertyIndex]
<1>1. t.PropertyIndex < event.tei.PropertyCount /\ t.PropertyIndex \in Nat
  <2>1. t.PropertyIndex \in Nat /\ t.PropertyEnd \in Nat
    BY DEF StackEntry
  <2> QED BY <2>1, TopInTei, EventFacts DEF Ready
<1>2. /\ item' \in Item
      /\ ValuesOK(event, integerValues')
      /\ \/ /\ subState' = "Error" /\ returned' = FALSE
            /\ lastError' \in {"INVALID_DATA", "UNSUPPORTED_TYPE"}
         \/ /\ subState' = "Value_ComplexArrayElement" /\ returned' = TRUE
            /\ lastError' = "SUCCESS"
            /\ p + item'.raw <= Len(event.UserData)
            /\ item'.cooked <= item'.raw => item'.pos + item'.cooked <= Len(event.UserData)
            /\ item'.type = CookedInType(epi.InType)
            /\ item'.element = ElementSize(epi.InType, PointerSize)
  <2> HIDE DEF epi
  <2>1. Property(t) = epi
    BY DEF Property, epi
  <2> QED BY <1>1, <2>1, StartValueResult DEF Ready
<1>3. PointerSize \in {4, 8}
  BY PointerSizeType DEF Ready
<1>4. ElementSize(epi.InType, PointerSize) = 0
  <2>1. epi.InType \in InType
    BY <1>1, PropertyFacts DEF Ready
  <2>2. epi.InType \notin SimpleTypes
    BY <2>1, ElementSizes, SMTT(30)
  <2> QED BY <1>3, <2>1, <2>2, ElementSizes
<1> HIDE DEF epi
<1>5. subState' = "Value_ComplexArrayElement" =>
        ItemOK(event, p, item', t, "Value_ComplexArrayElement")
  BY <1>2, <1>3, <1>4 DEF ItemOK, epi
<1>6. PositionOK(event, p, item', t, stk, subState')
  BY <1>2, <1>5 DEF PositionOK, SubState, PositionedSubStates, ItemSubStates
<1> QED BY <1>2, <1>6, MovedIntro DEF PositionedSubStates, Status

\* So does a struct that starts.
LEMMA StartedStruct ==
  ASSUME Ready, NEW t \in StackEntry, NEW stk \in Seq(StackEntry), FollowsTei(event, t, stk),
         t.PropertyIndex < t.PropertyEnd, t.IsStruct,
         "Struct" \in event.tei.props[t.PropertyIndex].Flags,
         ~t.IsArray => t.ArrayIndex = 0 /\ t.ArrayCount = 1,
         t.ArrayIndex < t.ArrayCount,
         NEW p \in Nat, p <= Len(event.UserData),
         dataNext' = p, top' = t, stack' = stk,
         StartStruct(p)
  PROVE  Moved(Len(stk))
<1>1. /\ item' = StructItem(p) /\ integerValues' = integerValues
      /\ subState' = "StructBegin" /\ lastError' = "SUCCESS" /\ returned' = TRUE
  BY DEF StartStruct, MovedTo
<1>2. StructItem(p) \in Item /\ ItemOK(event, p, StructItem(p), t, "StructBegin")
  BY StructItemOK DEF Ready
<1>3. PositionOK(event, p, item', t, stk, subState')
  BY <1>1, <1>2 DEF PositionOK, SubState, PositionedSubStates, ItemSubStates
<1>4. ValuesOK(event, integerValues')
  BY <1>1 DEF Ready
<1> QED BY <1>1, <1>3, <1>4, MovedIntro DEF PositionedSubStates, Status

-----------------------------------------------------------------------------
(* One lemma per sub-state that MoveNext leaves. *)

\* MoveNext from before the first item.
LEMMA LeaveBeforeFirstItemResult ==
  ASSUME PosInv, LeaveBeforeFirstItem
  PROVE  Moved(Len(stack))
<1>1. Positioned
  BY DEF LeaveBeforeFirstItem, Positioned, PositionedSubStates
<1> QED BY <1>1, PositionedFacts, NextPropertyResult DEF LeaveBeforeFirstItem

\* What follows an item of raw bytes lies in the payload.
LEMMA AfterItem ==
  ASSUME PosInv, AtItem
  PROVE  dataNext + item.raw \in Nat /\ dataNext + item.raw <= Len(event.UserData)
<1>1. item.raw \in Nat /\ dataNext \in Nat
  BY AtItemFacts, PositionedFacts, UshortRange DEF Ready, Item
<1> QED BY <1>1, AtItemFacts DEF ItemOK

\* MoveNext from a scalar value.
LEMMA LeaveScalarResult ==
  ASSUME PosInv, LeaveScalar
  PROVE  Moved(Len(stack))
<1> DEFINE p == dataNext + item.raw
           t == NextIndex(top)
<1>1. AtItem
  BY DEF LeaveScalar, AtItem, PositionedSubStates
<1>2. p \in Nat /\ p <= Len(event.UserData)
  BY <1>1, AfterItem
<1>3. t \in StackEntry /\ FollowsTei(event, t, stack)
  BY <1>1, AtItemFacts, PositionedFacts, NextIndexFollowsTei DEF Ready, ItemOK
<1>4. NextProperty(t, p, stack)
  BY DEF LeaveScalar
<1> HIDE DEF p, t
<1> QED BY <1>1, <1>2, <1>3, <1>4, AtItemFacts, PositionedFacts, NextPropertyResult

\* MoveNext from an array's end.
LEMMA LeaveArrayEndResult ==
  ASSUME PosInv, LeaveArrayEnd
  PROVE  Moved(Len(stack))
<1> DEFINE t == NextIndex(top)
<1>1. AtItem
  BY DEF LeaveArrayEnd, AtItem, PositionedSubStates
<1>2. t \in StackEntry /\ FollowsTei(event, t, stack)
  BY <1>1, AtItemFacts, PositionedFacts, NextIndexFollowsTei DEF Ready, ItemOK
<1>3. NextProperty(t, dataNext, stack)
  BY DEF LeaveArrayEnd
<1> HIDE DEF t
<1> QED BY <1>1, <1>2, <1>3, AtItemFacts, PositionedFacts, NextPropertyResult

\* MoveNext from an element of variable size.
LEMMA LeaveComplexArrayElementResult ==
  ASSUME PosInv, LeaveComplexArrayElement
  PROVE  Moved(Len(stack))
<1> DEFINE p == dataNext + item.raw
           t == NextElement(top)
           epi == event.tei.props[top.PropertyIndex]
<1>1. AtItem /\ subState = "Value_ComplexArrayElement"
  BY DEF LeaveComplexArrayElement, AtItem, PositionedSubStates
<1>2. p \in Nat /\ p <= Len(event.UserData)
  BY <1>1, AfterItem
<1>3. /\ Ready /\ top \in StackEntry /\ stack \in Seq(StackEntry)
      /\ FollowsTei(event, top, stack)
  BY <1>1, AtItemFacts, PositionedFacts
<1>4. /\ top.PropertyIndex < top.PropertyEnd /\ top.ArrayIndex < top.ArrayCount
      /\ ~top.IsStruct /\ "Struct" \notin epi.Flags
      /\ top.IsArray /\ item.element = 0
      /\ item.type = CookedInType(epi.InType)
      /\ \E size \in {4, 8} : item.element = ElementSize(epi.InType, size)
  BY <1>1, AtItemFacts DEF ItemOK, ValueSubStates
<1>5. /\ t \in StackEntry /\ FollowsTei(event, t, stack)
      /\ t.PropertyIndex = top.PropertyIndex /\ t.PropertyEnd = top.PropertyEnd
      /\ t.ArrayIndex = top.ArrayIndex + 1 /\ t.ArrayCount = top.ArrayCount
      /\ t.IsArray = top.IsArray /\ t.IsStruct = top.IsStruct
      /\ top.ArrayIndex + 1 <= top.ArrayCount
  BY <1>3, <1>4, NextElementFacts, NextElementFollowsTei DEF Ready
<1> HIDE DEF p, t, epi
<1>6. CASE t.ArrayIndex = t.ArrayCount /\ ArrayEnds(t, p)
  BY <1>2, <1>3, <1>4, <1>5, <1>6, ArrayEndsResult DEF epi
<1>7. CASE /\ t.ArrayIndex # t.ArrayCount /\ AtPosition(t, p, stack)
           /\ StartValue("Value_ComplexArrayElement", t, p)
  <2>1. t.ArrayIndex < t.ArrayCount
    BY <1>3, <1>5, <1>7, UshortRange DEF StackEntry
  <2>2. dataNext' = p /\ top' = t /\ stack' = stack
    BY <1>7 DEF AtPosition
  <2> QED BY <1>2, <1>3, <1>4, <1>5, <1>7, <2>1, <2>2, StartedValue DEF epi
<1> QED BY <1>6, <1>7 DEF LeaveComplexArrayElement, p, t

\* MoveNext from an element of fixed size: the next one needs no check, since
\* the array's extent was checked when it began.
LEMMA LeaveSimpleArrayElementResult ==
  ASSUME PosInv, LeaveSimpleArrayElement
  PROVE  Moved(Len(stack))
<1> DEFINE p == dataNext + item.raw
           t == NextElement(top)
           epi == event.tei.props[top.PropertyIndex]
           size == item.element
           left == top.ArrayCount - top.ArrayIndex - 1
<1>1. AtItem /\ subState = "Value_SimpleArrayElement"
  BY DEF LeaveSimpleArrayElement, AtItem, PositionedSubStates
<1>2. p \in Nat /\ p <= Len(event.UserData)
  BY <1>1, AfterItem
<1>3. /\ Ready /\ top \in StackEntry /\ stack \in Seq(StackEntry)
      /\ FollowsTei(event, top, stack) /\ dataNext \in Nat
  BY <1>1, AtItemFacts, PositionedFacts
<1>4. /\ top.PropertyIndex < top.PropertyEnd /\ top.ArrayIndex < top.ArrayCount
      /\ ~top.IsStruct /\ "Struct" \notin epi.Flags
      /\ top.IsArray /\ item.element # 0 /\ item.cooked = item.element /\ item.raw = item.element
      /\ item.type = CookedInType(epi.InType)
      /\ \E s \in {4, 8} : item.element = ElementSize(epi.InType, s)
      /\ dataNext + (top.ArrayCount - top.ArrayIndex) * item.element <= Len(event.UserData)
  BY <1>1, AtItemFacts DEF ItemOK, ValueSubStates
<1>5. /\ t \in StackEntry /\ FollowsTei(event, t, stack)
      /\ t.PropertyIndex = top.PropertyIndex /\ t.PropertyEnd = top.PropertyEnd
      /\ t.ArrayIndex = top.ArrayIndex + 1 /\ t.ArrayCount = top.ArrayCount
      /\ t.IsArray = top.IsArray /\ t.IsStruct = top.IsStruct
      /\ top.ArrayIndex + 1 <= top.ArrayCount
  BY <1>3, <1>4, NextElementFacts, NextElementFollowsTei DEF Ready
<1>6. /\ size \in Nat /\ top.ArrayCount \in Nat /\ top.ArrayIndex \in Nat
      /\ Len(event.UserData) \in Nat
  BY <1>3, ReadyFacts
<1>7. /\ left \in Nat /\ t.ArrayCount - t.ArrayIndex = left
      /\ top.ArrayCount - top.ArrayIndex = left + 1
      /\ t.ArrayIndex # t.ArrayCount => left # 0
  BY <1>5, <1>6
<1> HIDE DEF t, epi
<1>8. CASE t.ArrayIndex = t.ArrayCount /\ ArrayEnds(t, p)
  <2> HIDE DEF p
  <2> QED BY <1>2, <1>3, <1>4, <1>5, <1>8, ArrayEndsResult DEF epi
<1>9. CASE /\ t.ArrayIndex # t.ArrayCount /\ AtPosition(t, p, stack)
           /\ item' = [item EXCEPT !.pos = p]
           /\ MovedTo("Value_SimpleArrayElement")
           /\ UNCHANGED integerValues
  <2>1. p + left * size <= Len(event.UserData) /\ p + size <= Len(event.UserData)
    <3>1. p = dataNext + size
      BY <1>4
    <3>2. dataNext + (left + 1) * size <= Len(event.UserData)
      BY <1>4, <1>7
    <3>3. (left + 1) * size = left * size + size /\ left * size \in Nat /\ size <= left * size
      BY <1>6, <1>7, <1>9, OneLess
    <3> DEFINE rest == left * size
    <3>4. dataNext + (rest + size) <= Len(event.UserData) /\ rest \in Nat /\ size <= rest
      BY <3>2, <3>3
    <3> HIDE DEF rest, size, p
    <3>5. p + rest <= Len(event.UserData) /\ p + size <= Len(event.UserData)
      BY <1>3, <1>6, <3>1, <3>4
    <3> QED BY <3>5 DEF rest
  <2> HIDE DEF left, p
  <2>2. /\ item' \in Item /\ item'.pos = p
        /\ item'.cooked = item.cooked /\ item'.raw = item.raw
        /\ item'.type = item.type /\ item'.element = item.element
    BY <1>2, <1>3, <1>9 DEF Ready, Item
  <2>3. t.ArrayIndex < t.ArrayCount
    BY <1>5, <1>6, <1>9
  <2>4. /\ p + item'.raw <= Len(event.UserData)
        /\ item'.pos + item'.cooked <= Len(event.UserData)
        /\ p + (t.ArrayCount - t.ArrayIndex) * item'.element <= Len(event.UserData)
    BY <1>4, <1>7, <2>1, <2>2
  <2>5. ItemOK(event, p, item', t, "Value_SimpleArrayElement")
    BY <1>4, <1>5, <2>2, <2>3, <2>4 DEF ItemOK, epi
  <2>6. /\ dataNext' = p /\ top' = t /\ stack' = stack /\ integerValues' = integerValues
        /\ subState' = "Value_SimpleArrayElement" /\ lastError' = "SUCCESS" /\ returned' = TRUE
    BY <1>9 DEF AtPosition, MovedTo
  <2>7. PositionOK(event, p, item', t, stack, subState')
    BY <1>2, <1>3, <1>5, <2>2, <2>5, <2>6
       DEF PositionOK, SubState, PositionedSubStates, ItemSubStates
  <2>8. ValuesOK(event, integerValues')
    BY <1>3, <2>6 DEF Ready
  <2> QED BY <1>3, <2>6, <2>7, <2>8, MovedIntro DEF PositionedSubStates, Status
<1> QED BY <1>8, <1>9 DEF LeaveSimpleArrayElement, p, t

\* MoveNext from an array's begin, into its first element or to its end.
LEMMA LeaveArrayBeginResult ==
  ASSUME PosInv, LeaveArrayBegin
  PROVE  Moved(Len(stack))
<1> DEFINE epi == event.tei.props[top.PropertyIndex]
           size == item.element
<1>1. AtItem /\ subState = "ArrayBegin"
  BY DEF LeaveArrayBegin, AtItem, PositionedSubStates
<1>2. /\ Ready /\ top \in StackEntry /\ stack \in Seq(StackEntry)
      /\ FollowsTei(event, top, stack)
      /\ dataNext \in Nat /\ dataNext <= Len(event.UserData)
  BY <1>1, AtItemFacts, PositionedFacts
<1>3. ItemOK(event, dataNext, item, top, "ArrayBegin")
  BY <1>1, AtItemFacts
<1>4. /\ top.PropertyIndex < top.PropertyEnd
      /\ top.IsStruct <=> "Struct" \in epi.Flags
      /\ top.IsArray /\ top.ArrayIndex = 0
      /\ top.IsStruct => item.type = "NULL" /\ item.element = 0
      /\ ~top.IsStruct => /\ item.type = CookedInType(epi.InType)
                          /\ \E s \in {4, 8} : item.element = ElementSize(epi.InType, s)
      /\ item.element # 0 =>
           dataNext + (top.ArrayCount - top.ArrayIndex) * item.element <= Len(event.UserData)
  BY <1>3 DEF ItemOK
<1>5. /\ size \in Nat /\ size \in USHORT /\ top.ArrayCount \in Nat /\ top.ArrayIndex \in Nat
      /\ Len(event.UserData) \in Nat
  BY <1>2, ReadyFacts
<1> HIDE DEF epi
<1>6. CASE top.ArrayCount = 0 /\ ArrayEnds(top, dataNext)
  BY <1>2, <1>4, <1>6, ArrayEndsResult DEF epi
<1>7. CASE /\ top.ArrayCount # 0 /\ AtPosition(top, dataNext, stack)
           /\ item.element # 0
           /\ item' = [item EXCEPT !.pos = dataNext, !.cooked = item.element,
                                   !.raw = item.element]
           /\ MovedTo("Value_SimpleArrayElement")
           /\ UNCHANGED integerValues
  <2>1. /\ dataNext + size <= Len(event.UserData)
    <3>1. top.ArrayCount - top.ArrayIndex = top.ArrayCount
      BY <1>4, <1>5
    <3>2. dataNext + top.ArrayCount * size <= Len(event.UserData)
      BY <1>4, <1>7, <3>1
    <3>3. top.ArrayCount * size \in Nat /\ size <= top.ArrayCount * size
      BY <1>5, <1>7, OneLess
    <3> DEFINE all == top.ArrayCount * size
    <3>4. dataNext + all <= Len(event.UserData) /\ all \in Nat /\ size <= all
      BY <3>2, <3>3
    <3> HIDE DEF all, size
    <3> QED BY <1>2, <1>5, <3>4
  <2>3. /\ item' \in Item /\ item'.pos = dataNext
        /\ item'.cooked = size /\ item'.raw = size
        /\ item'.type = item.type /\ item'.element = size
    BY <1>2, <1>5, <1>7 DEF Ready, Item
  <2>4. top.ArrayIndex < top.ArrayCount /\ ~top.IsStruct
    BY <1>4, <1>5, <1>7
  <2>5. ItemOK(event, dataNext, item', top, "Value_SimpleArrayElement")
    BY <1>4, <1>7, <2>1, <2>3, <2>4 DEF ItemOK, epi
  <2>6. /\ dataNext' = dataNext /\ top' = top /\ stack' = stack
        /\ integerValues' = integerValues
        /\ subState' = "Value_SimpleArrayElement" /\ lastError' = "SUCCESS" /\ returned' = TRUE
    BY <1>7 DEF AtPosition, MovedTo
  <2>7. PositionOK(event, dataNext, item', top, stack, subState')
    BY <1>2, <2>3, <2>5, <2>6 DEF PositionOK, SubState, PositionedSubStates, ItemSubStates
  <2>8. ValuesOK(event, integerValues')
    BY <1>2, <2>6 DEF Ready
  <2> QED BY <1>2, <2>6, <2>7, <2>8, MovedIntro DEF PositionedSubStates, Status
<1>8. top.ArrayCount # 0 => top.ArrayIndex < top.ArrayCount
  BY <1>4, <1>5
<1>9. CASE /\ top.ArrayCount # 0 /\ AtPosition(top, dataNext, stack)
           /\ item.element = 0 /\ ~top.IsStruct
           /\ StartValue("Value_ComplexArrayElement", top, dataNext)
  BY <1>2, <1>4, <1>8, <1>9, StartedValue DEF AtPosition, epi
<1>10. CASE /\ top.ArrayCount # 0 /\ AtPosition(top, dataNext, stack)
            /\ item.element = 0 /\ top.IsStruct
            /\ StartStruct(dataNext)
  BY <1>2, <1>4, <1>8, <1>10, StartedStruct DEF AtPosition, epi
<1> QED BY <1>6, <1>7, <1>9, <1>10 DEF LeaveArrayBegin

\* MoveNext into a struct: its members follow the tei under the struct itself,
\* which m_stack keeps.
LEMMA LeaveStructBeginResult ==
  ASSUME PosInv, LeaveStructBegin
  PROVE  Moved(Len(stack) + 1)
<1> DEFINE epi == event.tei.props[top.PropertyIndex]
           end == epi.StructStartIndex + epi.NumOfStructMembers
           u == [top EXCEPT !.PropertyIndex = epi.StructStartIndex, !.PropertyEnd = end]
           stk == Append(stack, top)
<1>1. AtItem /\ subState = "StructBegin"
  BY DEF LeaveStructBegin, AtItem, PositionedSubStates
<1>2. /\ Ready /\ top \in StackEntry /\ stack \in Seq(StackEntry)
      /\ FollowsTei(event, top, stack)
      /\ dataNext \in Nat /\ dataNext <= Len(event.UserData)
  BY <1>1, AtItemFacts, PositionedFacts
<1>3. /\ top.PropertyIndex < top.PropertyEnd
      /\ top.IsStruct /\ "Struct" \in epi.Flags
      /\ top.ArrayIndex < top.ArrayCount
      /\ ~top.IsArray => top.ArrayIndex = 0 /\ top.ArrayCount = 1
  BY <1>1, AtItemFacts DEF ItemOK
<1>4. top.PropertyIndex \in Nat /\ top.PropertyIndex < event.tei.PropertyCount
  <2>1. top.PropertyIndex \in Nat /\ top.PropertyEnd \in Nat
    BY <1>2 DEF StackEntry
  <2> QED BY <1>2, <1>3, <2>1, TopInTei, EventFacts DEF Ready
<1>5. epi.StructStartIndex \in Nat /\ end \in Nat
  <2>1. epi.StructStartIndex \in Nat /\ epi.NumOfStructMembers \in Nat
    <3>1. event \in Events
      BY <1>2 DEF Ready
    <3> HIDE DEF end, u, stk
    <3> QED BY <1>4, <3>1, PropertyFacts
  <2> HIDE DEF epi
  <2> QED BY <2>1
<1>6. NextProperty(u, dataNext, stk)
  BY DEF LeaveStructBegin, Property
<1> HIDE DEF end
<1>7. u \in StackEntry /\ u.PropertyIndex = epi.StructStartIndex /\ u.PropertyEnd = end
  <2> HIDE DEF epi
  <2> QED BY <1>2, <1>5 DEF StackEntry
<1>8. FollowsTei(event, u, stk)
  <2> HIDE DEF u
  <2> QED BY <1>2, <1>3, <1>7, FollowsTeiPush DEF Ready, end
<1>9. stk \in Seq(StackEntry) /\ Len(stk) = Len(stack) + 1
  BY <1>2
<1> HIDE DEF u, stk
<1>10. Moved(Len(stk))
  BY <1>2, <1>6, <1>7, <1>8, <1>9, NextPropertyResult
<1> QED BY <1>9, <1>10

\* MoveNext from a struct's end: to the next struct of the array, to the end
\* of the array, or to what follows the struct.
LEMMA LeaveStructEndResult ==
  ASSUME PosInv, LeaveStructEnd
  PROVE  Moved(Len(stack))
<1> DEFINE epi == event.tei.props[top.PropertyIndex]
           t == NextElement(top)
<1>1. AtItem /\ subState = "StructEnd"
  BY DEF LeaveStructEnd, AtItem, PositionedSubStates
<1>2. /\ Ready /\ top \in StackEntry /\ stack \in Seq(StackEntry)
      /\ FollowsTei(event, top, stack)
      /\ dataNext \in Nat /\ dataNext <= Len(event.UserData)
  BY <1>1, AtItemFacts, PositionedFacts
<1>3. /\ top.PropertyIndex < top.PropertyEnd
      /\ top.IsStruct /\ "Struct" \in epi.Flags
      /\ item.type = "NULL" /\ item.element = 0
      /\ top.ArrayIndex < top.ArrayCount
      /\ ~top.IsArray => top.ArrayIndex = 0 /\ top.ArrayCount = 1
  BY <1>1, AtItemFacts DEF ItemOK
<1>4. /\ t \in StackEntry /\ FollowsTei(event, t, stack)
      /\ t.PropertyIndex = top.PropertyIndex /\ t.PropertyEnd = top.PropertyEnd
      /\ t.ArrayIndex = top.ArrayIndex + 1 /\ t.ArrayCount = top.ArrayCount
      /\ t.IsArray = top.IsArray /\ t.IsStruct = top.IsStruct
      /\ top.ArrayIndex + 1 <= top.ArrayCount
  BY <1>2, <1>3, NextElementFacts, NextElementFollowsTei DEF Ready
<1>5. top.ArrayIndex \in Nat /\ top.ArrayCount \in Nat
  BY <1>2, ReadyFacts
<1> HIDE DEF epi, t
<1>6. CASE t.ArrayIndex # t.ArrayCount /\ AtPosition(t, dataNext, stack) /\ StartStruct(dataNext)
  <2>1. t.ArrayIndex < t.ArrayCount /\ t.IsArray
    BY <1>3, <1>4, <1>5, <1>6
  <2> QED BY <1>2, <1>3, <1>4, <1>6, <2>1, StartedStruct DEF AtPosition, epi
<1>7. CASE t.ArrayIndex = t.ArrayCount /\ t.IsArray /\ ArrayEnds(t, dataNext)
  BY <1>2, <1>3, <1>4, <1>7, ArrayEndsResult DEF epi
<1>8. CASE NextProperty(NextIndex(t), dataNext, stack)
  <2>1. NextIndex(t) \in StackEntry /\ FollowsTei(event, NextIndex(t), stack)
    BY <1>2, <1>3, <1>4, NextIndexFollowsTei DEF Ready
  <2> QED BY <1>2, <1>8, <2>1, NextPropertyResult
<1> QED BY <1>6, <1>7, <1>8 DEF LeaveStructEnd, t

\* MoveNextSibling past an array of simple elements: its extent was checked
\* when it began.
LEMMA SkipSimpleArrayResult ==
  ASSUME PosInv, AtSimpleArrayBegin,
         NextProperty(NextIndex(top), dataNext + item.element * top.ArrayCount, stack)
  PROVE  Moved(Len(stack))
<1> DEFINE all == top.ArrayCount * item.element
           p == dataNext + item.element * top.ArrayCount
           t == NextIndex(top)
<1>1. AtItem /\ subState = "ArrayBegin" /\ item.element # 0
  BY DEF AtSimpleArrayBegin, AtItem, PositionedSubStates
<1>2. /\ Ready /\ top \in StackEntry /\ stack \in Seq(StackEntry)
      /\ FollowsTei(event, top, stack) /\ dataNext \in Nat
  BY <1>1, AtItemFacts, PositionedFacts
<1>3. /\ top.PropertyIndex < top.PropertyEnd /\ top.ArrayIndex = 0
      /\ dataNext + (top.ArrayCount - top.ArrayIndex) * item.element <= Len(event.UserData)
  BY <1>1, AtItemFacts DEF ItemOK
<1>4. /\ item.element \in Nat /\ top.ArrayCount \in Nat /\ Len(event.UserData) \in Nat
  BY <1>2, ReadyFacts
<1>5. p \in Nat /\ p <= Len(event.UserData)
  <2>1. top.ArrayCount - top.ArrayIndex = top.ArrayCount
    BY <1>3, <1>4
  <2>2. dataNext + all <= Len(event.UserData)
    BY <1>3, <2>1
  <2>3. all \in Nat /\ item.element * top.ArrayCount = all
    BY <1>4, OneLess
  <2> HIDE DEF all
  <2> QED BY <1>2, <2>2, <2>3
<1>6. t \in StackEntry /\ FollowsTei(event, t, stack)
  BY <1>2, <1>3, NextIndexFollowsTei DEF Ready
<1> HIDE DEF p, t
<1>7. NextProperty(t, p, stack)
  BY DEF p, t
<1> QED BY <1>2, <1>5, <1>6, <1>7, NextPropertyResult

-----------------------------------------------------------------------------
(* A move, whichever it is. *)

\* The position a move leaves, and a m_stack within its capacity.
MoveLeaves ==
    /\ Moved(stackCapacity')
    /\ stackCapacity' \in Nat \ {0}

\* A bound on the depth of m_stack may be relaxed.
LEMMA MovedWithin ==
  ASSUME NEW m \in Nat, NEW n \in Nat, m <= n, Moved(m)
  PROVE  Moved(n)
<1>1. Len(stack') \in Nat
  BY DEF Moved, PositionOK
<1>2. Len(stack') <= n
  BY <1>1 DEF Moved
<1> QED BY <1>2 DEF Moved

\* Every step of MoveNext.
LEMMA MoveResult ==
  ASSUME PosInv, Move
  PROVE  MoveLeaves
<1>1. Positioned
  BY DEF Move, LeaveBeforeFirstItem, LeaveScalar, LeaveSimpleArrayElement,
         LeaveComplexArrayElement, LeaveArrayBegin, LeaveArrayEnd, LeaveStructBegin,
         LeaveStructBeginOutOfMemory, LeaveStructEnd, Positioned, PositionedSubStates
<1>2. /\ Ready /\ top \in StackEntry /\ stack \in Seq(StackEntry)
      /\ stackCapacity \in Nat \ {0} /\ Len(stack) <= stackCapacity /\ Len(stack) \in Nat
      /\ dataNext \in Nat /\ dataNext <= Len(event.UserData)
      /\ FollowsTei(event, top, stack)
  BY <1>1, PositionedFacts
<1>3. ASSUME Moved(Len(stack)), UNCHANGED stackCapacity
      PROVE  MoveLeaves
  BY <1>2, <1>3, MovedWithin DEF MoveLeaves
<1>4. CASE LeaveBeforeFirstItem
  BY <1>3, <1>4, LeaveBeforeFirstItemResult DEF LeaveBeforeFirstItem
<1>5. CASE LeaveScalar
  BY <1>3, <1>5, LeaveScalarResult DEF LeaveScalar
<1>6. CASE LeaveSimpleArrayElement
  BY <1>3, <1>6, LeaveSimpleArrayElementResult DEF LeaveSimpleArrayElement
<1>7. CASE LeaveComplexArrayElement
  BY <1>3, <1>7, LeaveComplexArrayElementResult DEF LeaveComplexArrayElement
<1>8. CASE LeaveArrayBegin
  BY <1>3, <1>8, LeaveArrayBeginResult DEF LeaveArrayBegin
<1>9. CASE LeaveArrayEnd
  BY <1>3, <1>9, LeaveArrayEndResult DEF LeaveArrayEnd
<1>10. CASE LeaveStructBegin
  <2>1. stackCapacity' \in Nat \ {0} /\ Len(stack) + 1 <= stackCapacity'
    BY <1>2, <1>10 DEF LeaveStructBegin
  <2> QED BY <1>2, <1>10, <2>1, LeaveStructBeginResult, MovedWithin DEF MoveLeaves
<1>11. CASE LeaveStructBeginOutOfMemory
  <2>1. /\ subState' = "Error" /\ lastError' = "OUTOFMEMORY" /\ returned' = FALSE
        /\ dataNext' = dataNext /\ item' = item /\ top' = top /\ stack' = stack
        /\ integerValues' = integerValues /\ stackCapacity' = stackCapacity
    BY <1>11 DEF LeaveStructBeginOutOfMemory, SetErrorState
  <2>2. PositionOK(event, dataNext, item', top, stack, subState')
    BY <1>2, <2>1 DEF PositionOK, Ready, SubState, PositionedSubStates, ItemSubStates
  <2>3. ValuesOK(event, integerValues')
    BY <1>2, <2>1 DEF Ready
  <2>4. Moved(Len(stack))
    BY <1>2, <2>1, <2>2, <2>3, MovedIntro DEF Status
  <2> QED BY <1>3, <2>1, <2>4
<1>12. CASE LeaveStructEnd
  BY <1>3, <1>12, LeaveStructEndResult DEF LeaveStructEnd
<1> QED BY <1>4, <1>5, <1>6, <1>7, <1>8, <1>9, <1>10, <1>11, <1>12 DEF Move

-----------------------------------------------------------------------------
(* Starting an event. *)

\* The least doubling that fits exists, since a count of properties is a
\* USHORT.
LEMMA GrownCapacityType ==
  ASSUME NEW capacity \in Nat \ {0}, NEW n \in USHORT
  PROVE  GrownCapacity(capacity, n) \in Nat \ {0}
<1> DEFINE C == {capacity * f : f \in Doublings}
           T == {c \in C : n <= c}
<1>1. ASSUME NEW f \in Doublings PROVE capacity * f \in Nat /\ capacity * f # 0
  <2>1. f \in Nat /\ f # 0
    BY DEF Doublings
  <2>2. capacity * f \in Nat /\ f <= capacity * f
    BY <2>1, OneLess
  <2> DEFINE c == capacity * f
  <2>3. c \in Nat /\ f <= c
    BY <2>2
  <2> HIDE DEF c
  <2>4. c # 0
    BY <2>1, <2>3
  <2> QED BY <2>3, <2>4 DEF c
<1>2. C \in SUBSET (Nat \ {0})
  BY <1>1
<1>3. T # {}
  <2>1. 131072 \in Doublings
    BY DEF Doublings
  <2>2. n <= capacity * 131072
    BY UshortRange, WordValue
  <2> QED BY <2>1, <2>2
<1>4. T \in SUBSET Nat
  BY <1>2
<1> HIDE DEF T
<1>5. PICK x \in T : \A y \in T : x <= y
  BY <1>3, <1>4, LeastElement
<1>6. x \in C /\ n <= x /\ \A f \in Doublings : n <= capacity * f => x <= capacity * f
  BY <1>5 DEF T
<1> DEFINE Fits(c) == n <= c /\ \A f \in Doublings : n <= capacity * f => c <= capacity * f
<1>7. (CHOOSE c \in C : Fits(c)) \in C
  BY <1>6
<1>8. GrownCapacity(capacity, n) = CHOOSE c \in C : Fits(c)
  BY DEF GrownCapacity
<1> HIDE DEF C, Fits
<1> QED BY <1>2, <1>7, <1>8

\* ResetImpl leaves the position before the first item of its event.
LEMMA ResetImplResult ==
  ASSUME NEW e \in Events, item \in Item, top \in StackEntry, ResetImpl(e)
  PROVE  /\ PositionOK(e, dataNext', item', top', stack', subState')
         /\ dataNext' = 0 /\ item' \in Item /\ top' \in StackEntry /\ stack' = <<>>
         /\ subState' = "BeforeFirstItem" /\ lastError' = "SUCCESS" /\ returned' = TRUE
         /\ UNCHANGED <<stackCapacity, pointerSizeFallback, sibling>>
<1> DEFINE t == [top EXCEPT !.PropertyIndex = 0,
                            !.PropertyEnd = e.tei.TopLevelPropertyCount]
<1>1. /\ dataNext' = 0 /\ item' = item /\ top' = t /\ stack' = <<>>
      /\ subState' = "BeforeFirstItem" /\ lastError' = "SUCCESS" /\ returned' = TRUE
      /\ UNCHANGED <<stackCapacity, pointerSizeFallback, sibling>>
  BY DEF ResetImpl
<1>2. /\ e.tei.TopLevelPropertyCount \in Nat
      /\ e.tei.TopLevelPropertyCount <= e.tei.PropertyCount
      /\ Len(e.UserData) \in Nat
  BY EventFacts
<1>3. /\ t \in StackEntry /\ t.PropertyIndex = 0
      /\ t.PropertyEnd = e.tei.TopLevelPropertyCount
  BY <1>2 DEF StackEntry
<1> HIDE DEF t
<1>4. FollowsTei(e, t, <<>>)
  BY <1>2, <1>3 DEF FollowsTei, InGroup
<1>5. PositionOK(e, 0, item, t, <<>>, "BeforeFirstItem")
  BY <1>2, <1>3, <1>4 DEF PositionOK, SubState, PositionedSubStates, ItemSubStates
<1> QED BY <1>1, <1>3, <1>5

-----------------------------------------------------------------------------
(* The invariant. *)

\* The object that the constructor makes satisfies the invariant.
LEMMA InitIInv == Init => IInv
<1> SUFFICES ASSUME Init PROVE IInv
  OBVIOUS
<1>1. 0 \in USHORT
  BY UshortRange, WordValue
<1>2. item \in Item
  BY <1>1 DEF Init, Item, InType, SupportedTypes, ComplexTypes
<1>3. top \in StackEntry
  BY <1>1 DEF Init, StackEntry
<1>4. /\ event = NoEvent /\ dataNext = 0 /\ stack = <<>> /\ stackCapacity = StackInline
      /\ subState = "None" /\ lastError = "SUCCESS" /\ valuesCapacity = ValuesInline
      /\ pointerSizeFallback \in {4, 8} /\ returned = TRUE
      /\ sibling = [running |-> FALSE, depth |-> 0]
  BY DEF Init
<1>5. TypeOK
  BY <1>2, <1>3, <1>4, EventsAssumption DEF TypeOK, SubState, Status
<1> QED BY <1>4, <1>5 DEF IInv, PosInv, FailureIsReported

\* What an operation leaves when it leaves no event.
LEMMA SetNoneStateKeepsIInv ==
  ASSUME PosInv, Idle, NEW status \in Status, SetNoneState(status), returned' \in BOOLEAN,
         ~returned' => status # "SUCCESS"
  PROVE  IInv'
<1>1. /\ event' = NoEvent /\ dataNext' = 0 /\ item' = [item EXCEPT !.pos = 0]
      /\ subState' = "None" /\ lastError' = status
      /\ top' = top /\ stack' = stack /\ stackCapacity' = stackCapacity
      /\ integerValues' = integerValues /\ sibling' = sibling
      /\ valuesCapacity' = valuesCapacity /\ pointerSizeFallback' = pointerSizeFallback
  BY DEF SetNoneState, settings
<1>2. item' \in Item
  BY <1>1 DEF PosInv, TypeOK, Item
<1>3. TypeOK'
  BY <1>1, <1>2 DEF PosInv, TypeOK, Idle, SubState
<1> QED BY <1>1, <1>3 DEF IInv, PosInv, FailureIsReported

\* A move keeps the invariant, provided the loop that it is a step of goes on
\* only at an item.
LEMMA MoveKeepsIInv ==
  ASSUME PosInv, event # NoEvent, MoveLeaves, UNCHANGED <<event, settings>>,
         sibling' \in [running: BOOLEAN, depth: Nat],
         sibling'.running => returned' /\ sibling'.depth > 0
  PROVE  IInv'
<1>1. event' = event /\ event \in Events /\ event # NoEvent
  BY DEF PosInv, TypeOK
<1>2. /\ PositionOK(event, dataNext', item', top', stack', subState')
      /\ ValuesOK(event, integerValues')
      /\ lastError' \in Status /\ returned' \in BOOLEAN
      /\ Len(stack') <= stackCapacity' /\ stackCapacity' \in Nat \ {0}
      /\ returned' => subState' \in PositionedSubStates
      /\ ~returned' => lastError' # "SUCCESS" \/ subState' = "AfterLastItem"
  BY DEF MoveLeaves, Moved
<1>3. /\ dataNext' \in Nat /\ item' \in Item /\ top' \in StackEntry
      /\ stack' \in Seq(StackEntry) /\ subState' \in SubState /\ subState' # "None"
  BY <1>2 DEF PositionOK
<1>4. valuesCapacity' \in Nat \ {0} /\ pointerSizeFallback' \in {4, 8}
  BY DEF PosInv, TypeOK, settings
<1>5. integerValues' \in [0 .. event'.tei.PropertyCount - 1 -> USHORT]
  BY <1>1, <1>2 DEF ValuesOK
<1>6. sibling'.running => subState' \in PositionedSubStates /\ sibling'.depth > 0
  BY <1>2
<1>7. TypeOK'
  BY <1>1, <1>2, <1>3, <1>4, <1>5, <1>6 DEF TypeOK, Positioned
<1>8. FailureIsReported'
  BY <1>2 DEF FailureIsReported
<1>9. PositionOK(event', dataNext', item', top', stack', subState')
  BY <1>1, <1>2
<1> QED BY <1>7, <1>8, <1>9 DEF IInv, PosInv

\* So does an operation that changes nothing but what it reports.
LEMMA ReportKeepsPosInv ==
  ASSUME PosInv, UNCHANGED <<event, position, stackCapacity, sibling, valuesCapacity>>,
         pointerSizeFallback' \in {4, 8}, lastError' \in Status, returned' \in BOOLEAN
  PROVE  PosInv'
<1>1. /\ event' = event /\ dataNext' = dataNext /\ item' = item /\ top' = top
      /\ stack' = stack /\ subState' = subState /\ integerValues' = integerValues
      /\ stackCapacity' = stackCapacity /\ sibling' = sibling
      /\ valuesCapacity' = valuesCapacity
  BY DEF position
<1>2. TypeOK'
  BY <1>1 DEF PosInv, TypeOK, Positioned
<1>3. event' # NoEvent => PositionOK(event', dataNext', item', top', stack', subState')
  BY <1>1 DEF PosInv
<1> QED BY <1>2, <1>3 DEF PosInv

\* StartEvent: every value starts out as 0xffff, at the first item's threshold.
LEMMA StartEventKeepsIInv ==
  ASSUME PosInv, NEW e \in Events, StartEventWithTraceEventInfo(e)
  PROVE  IInv'
<1> DEFINE n == e.tei.PropertyCount
<1>1. n \in USHORT /\ n \in Nat /\ e # NoEvent
  BY EventFacts, EventsAssumption
<1>2. /\ item \in Item /\ top \in StackEntry /\ Idle
      /\ event' = e /\ ResetImpl(e)
      /\ integerValues' = [i \in 0 .. n - 1 |-> Word - 1]
      /\ valuesCapacity' = IF n <= valuesCapacity THEN valuesCapacity
                                                  ELSE GrownCapacity(valuesCapacity, n)
  BY DEF PosInv, TypeOK, StartEventWithTraceEventInfo
<1>3. valuesCapacity' \in Nat \ {0}
  BY <1>1, <1>2, GrownCapacityType DEF PosInv, TypeOK
<1>4. integerValues' \in [0 .. n - 1 -> USHORT]
  <2>1. Word - 1 \in USHORT
    BY UshortRange, WordValue
  <2> DEFINE last == Word - 1
  <2> HIDE DEF n, last
  <2>2. last \in USHORT
    BY <2>1 DEF last
  <2> QED BY <1>2, <2>2 DEF last
<1>5. /\ PositionOK(e, dataNext', item', top', stack', subState')
      /\ dataNext' = 0 /\ item' \in Item /\ top' \in StackEntry /\ stack' = <<>>
      /\ subState' = "BeforeFirstItem" /\ lastError' = "SUCCESS" /\ returned' = TRUE
      /\ UNCHANGED <<stackCapacity, pointerSizeFallback, sibling>>
  BY <1>2, ResetImplResult
<1>6. /\ stackCapacity' \in Nat \ {0} /\ pointerSizeFallback' \in {4, 8}
      /\ sibling' \in [running: BOOLEAN, depth: Nat] /\ ~sibling'.running
  BY <1>2, <1>5 DEF PosInv, TypeOK, Idle
<1>7. stack' \in Seq(StackEntry) /\ Len(stack') = 0
  BY <1>5
<1>8. TypeOK'
  <2> HIDE DEF n
  <2>1. integerValues' \in [0 .. event'.tei.PropertyCount - 1 -> USHORT]
    BY <1>2, <1>4 DEF n
  <2> QED BY <1>1, <1>2, <1>3, <1>5, <1>6, <1>7, <2>1 DEF TypeOK, SubState, PositionedSubStates, Status
<1> QED BY <1>2, <1>5, <1>8 DEF IInv, PosInv, FailureIsReported

\* Reset keeps the event and the values of the pass before.
LEMMA ResetKeepsIInv ==
  ASSUME PosInv, Reset
  PROVE  IInv'
<1>1. /\ event \in Events /\ event # NoEvent /\ item \in Item /\ top \in StackEntry /\ Idle
      /\ integerValues \in [0 .. event.tei.PropertyCount - 1 -> USHORT]
      /\ ResetImpl(event) /\ UNCHANGED <<event, integerValues, valuesCapacity>>
  BY EventsAssumption DEF PosInv, TypeOK, Reset
<1>2. /\ PositionOK(event, dataNext', item', top', stack', subState')
      /\ dataNext' = 0 /\ item' \in Item /\ top' \in StackEntry /\ stack' = <<>>
      /\ subState' = "BeforeFirstItem" /\ lastError' = "SUCCESS" /\ returned' = TRUE
      /\ UNCHANGED <<stackCapacity, pointerSizeFallback, sibling>>
  BY <1>1, ResetImplResult
<1>3. /\ stackCapacity' \in Nat \ {0} /\ pointerSizeFallback' \in {4, 8}
      /\ valuesCapacity' \in Nat \ {0}
      /\ sibling' \in [running: BOOLEAN, depth: Nat] /\ ~sibling'.running
  BY <1>1, <1>2 DEF PosInv, TypeOK, Idle
<1>4. stack' \in Seq(StackEntry) /\ Len(stack') = 0
  BY <1>2
<1>5. integerValues' \in [0 .. event'.tei.PropertyCount - 1 -> USHORT]
  BY <1>1
<1>6. TypeOK'
  BY <1>1, <1>2, <1>3, <1>4, <1>5 DEF TypeOK, SubState, PositionedSubStates, Status
<1>7. PositionOK(event', dataNext', item', top', stack', subState')
  BY <1>1, <1>2
<1> QED BY <1>2, <1>6, <1>7 DEF IInv, PosInv, FailureIsReported

\* One iteration of MoveNextSibling, at the depth it has counted so far.
LEMMA LoopStepKeepsIInv ==
  ASSUME PosInv, NEW depth \in Nat, SkipSimpleArray(depth) \/ MoveInLoop(depth)
  PROVE  IInv'
<1>1. CASE SkipSimpleArray(depth)
  <2>1. AtItem /\ Positioned
    BY <1>1 DEF SkipSimpleArray, AtSimpleArrayBegin, AtItem, Positioned, PositionedSubStates
  <2>2. /\ Moved(Len(stack)) /\ stackCapacity' = stackCapacity
        /\ UNCHANGED <<event, settings>>
    BY <1>1, SkipSimpleArrayResult DEF SkipSimpleArray
  <2>3. MoveLeaves
    BY <2>1, <2>2, PositionedFacts, MovedWithin DEF MoveLeaves
  <2>4. /\ sibling' \in [running: BOOLEAN, depth: Nat]
        /\ sibling'.running => returned' /\ sibling'.depth > 0
    BY <1>1 DEF SkipSimpleArray, LoopTest
  <2>5. event # NoEvent
    BY <2>1, <2>3 DEF PosInv, TypeOK, Positioned, PositionedSubStates
  <2> QED BY <2>1, <2>2, <2>3, <2>4, <2>5, MoveKeepsIInv
<1>2. CASE MoveInLoop(depth)
  <2>1. Move /\ UNCHANGED <<event, settings>>
    BY <1>2 DEF MoveInLoop
  <2>2. MoveLeaves
    BY <2>1, MoveResult
  <2>3. Positioned
    BY <2>1 DEF Move, LeaveBeforeFirstItem, LeaveScalar, LeaveSimpleArrayElement,
         LeaveComplexArrayElement, LeaveArrayBegin, LeaveArrayEnd, LeaveStructBegin,
         LeaveStructBeginOutOfMemory, LeaveStructEnd, Positioned, PositionedSubStates
  <2>4. /\ sibling' \in [running: BOOLEAN, depth: Nat]
        /\ sibling'.running => returned' /\ sibling'.depth > 0
    <3>1. DepthChange \in Int
      BY DEF DepthChange
    <3> DEFINE d == depth + DepthChange
    <3>2. d \in Int
      BY <3>1
    <3>3. LoopTest(d)
      BY <1>2 DEF MoveInLoop
    <3> HIDE DEF d
    <3> QED BY <3>2, <3>3 DEF LoopTest
  <2>5. event # NoEvent
    BY <2>1, <2>3 DEF PosInv, TypeOK, Positioned, PositionedSubStates
  <2> QED BY <2>1, <2>2, <2>3, <2>4, <2>5, MoveKeepsIInv
<1> QED BY <1>1, <1>2

\* Every step keeps the invariant, and reports its own failure if it has one.
LEMMA NextPosInv ==
  ASSUME PosInv, [Next]_vars
  PROVE  PosInv' /\ (FailureIsReported => FailureIsReported')
<1> SUFFICES IInv' \/ (PosInv' /\ (FailureIsReported => FailureIsReported'))
  BY DEF IInv
<1>1. ASSUME NEW e \in Events, StartEventWithTraceEventInfo(e) PROVE IInv'
  BY <1>1, StartEventKeepsIInv
<1>2. ASSUME NEW e \in Events, StartEventRefused(e) PROVE IInv'
  BY <1>2, SetNoneStateKeepsIInv DEF StartEventRefused, Status
<1>3. ASSUME NEW e \in Events, StartEventOutOfMemory(e) PROVE IInv'
  BY <1>3, SetNoneStateKeepsIInv DEF StartEventOutOfMemory, Status
<1>4. CASE Clear
  BY <1>4, SetNoneStateKeepsIInv DEF Clear, Status
<1>15. ASSUME NEW status \in {"CALLBACK_ERROR", "INSUFFICIENT_BUFFER", "OUTOFMEMORY"},
              StartEventFailed(status)
       PROVE  IInv'
  BY <1>15, SetNoneStateKeepsIInv DEF StartEventFailed, Status
<1>5. CASE Reset
  BY <1>5, ResetKeepsIInv
<1>6. CASE MoveNext
  <2>1. Move /\ UNCHANGED <<event, settings>> /\ sibling' = sibling /\ ~sibling.running
    BY <1>6 DEF MoveNext, Idle
  <2>2. MoveLeaves
    BY <2>1, MoveResult
  <2>3. Positioned
    BY <2>1 DEF Move, LeaveBeforeFirstItem, LeaveScalar, LeaveSimpleArrayElement,
         LeaveComplexArrayElement, LeaveArrayBegin, LeaveArrayEnd, LeaveStructBegin,
         LeaveStructBeginOutOfMemory, LeaveStructEnd, Positioned, PositionedSubStates
  <2>4. sibling' \in [running: BOOLEAN, depth: Nat]
    BY <2>1 DEF PosInv, TypeOK
  <2>5. event # NoEvent
    BY <2>1, <2>3 DEF PosInv, TypeOK, Positioned, PositionedSubStates
  <2> QED BY <2>1, <2>2, <2>3, <2>4, <2>5, MoveKeepsIInv
<1>7. CASE MoveNextSibling
  BY <1>7, LoopStepKeepsIInv DEF MoveNextSibling
<1>8. CASE MoveNextSiblingLoop
  <2>1. sibling.depth \in Nat
    BY DEF PosInv, TypeOK
  <2> QED BY <1>8, <2>1, LoopStepKeepsIInv DEF MoveNextSiblingLoop
<1>9. ASSUME NEW status \in Status, Report(status) PROVE IInv'
  <2>1. pointerSizeFallback' \in {4, 8}
    BY <1>9 DEF Report, settings, PosInv, TypeOK
  <2>2. lastError' = status /\ returned' = (status = "SUCCESS")
        /\ UNCHANGED <<event, position, stackCapacity, sibling, valuesCapacity>>
    BY <1>9 DEF Report, settings
  <2>3. returned' \in BOOLEAN /\ (~returned' => lastError' # "SUCCESS")
    BY <2>2
  <2> QED BY <2>1, <2>2, <2>3, ReportKeepsPosInv DEF IInv, FailureIsReported
<1>10. CASE FindEventAttribute
  BY <1>9, <1>10 DEF FindEventAttribute, Status
<1>11. CASE SetTimestampFormat
  BY <1>9, <1>11 DEF SetTimestampFormat, Status
<1>12. CASE PreviewEvent
  BY <1>9, <1>12 DEF PreviewEvent, Status
<1>13. CASE SetPointerSizeFallback
  <2>1. /\ pointerSizeFallback' \in {4, 8} /\ lastError' = lastError /\ returned' = returned
        /\ UNCHANGED <<event, position, stackCapacity, sibling, valuesCapacity>>
        /\ subState' = subState
    BY <1>13 DEF SetPointerSizeFallback, position
  <2> QED BY <2>1, ReportKeepsPosInv DEF PosInv, TypeOK, FailureIsReported
<1>14. CASE UNCHANGED vars
  <2>1. /\ pointerSizeFallback' = pointerSizeFallback
        /\ lastError' = lastError /\ returned' = returned
        /\ UNCHANGED <<event, position, stackCapacity, sibling, valuesCapacity>>
        /\ subState' = subState
    BY <1>14 DEF vars, settings, position
  <2> QED BY <2>1, ReportKeepsPosInv DEF PosInv, TypeOK, FailureIsReported
<1> QED BY <1>1, <1>2, <1>3, <1>4, <1>5, <1>6, <1>7, <1>8, <1>10, <1>11, <1>12, <1>13, <1>14,
           <1>15
        DEF Next, Start, StartWithTraceEventInfo

\* So every step keeps IInv.
LEMMA NextIInv == IInv /\ [Next]_vars => IInv'
BY NextPosInv DEF IInv

\* The enumerator never leaves the positions that IInv describes.
THEOREM Invariance == Spec => []IInv
<1> QED BY InitIInv, NextIInv, PTL DEF Spec

-----------------------------------------------------------------------------
(* What the invariant gives. *)

\* The part of IInv that does not speak of what was reported.
LEMMA Positions == Spec => []PosInv
<1>1. IInv => PosInv
  BY DEF IInv
<1> QED BY <1>1, Invariance, PTL

\* At an item, the parts of IInv that the properties below rest on.
LEMMA ItemStated ==
  ASSUME PosInv, AtItem
  PROVE  /\ event \in Events /\ top \in StackEntry /\ item \in Item
         /\ ItemOK(event, dataNext, item, top, subState)
         /\ Property(top).InType \in InType
<1>1. /\ Ready /\ top \in StackEntry /\ stack \in Seq(StackEntry)
      /\ FollowsTei(event, top, stack)
      /\ ItemOK(event, dataNext, item, top, subState)
  BY AtItemFacts, PositionedFacts
<1>2. top.PropertyIndex \in Nat /\ top.PropertyEnd \in Nat
  BY <1>1 DEF StackEntry
<1>3. top.PropertyIndex < event.tei.PropertyCount
  BY <1>1, <1>2, TopInTei, EventFacts DEF Ready, ItemOK
<1> QED BY <1>1, <1>2, <1>3, PropertyFacts DEF Ready, Property

\* What PosInv says of the current item, in the words of the properties.
ItemsStated ==
    /\ MoveNextAsserts
    /\ ItemInfoAsDocumented
    /\ RawItemInPayload
    /\ CookedItemInPayload
    /\ RemainingElementsFit
    /\ StackFollowsTei

LEMMA PosInvStates == PosInv => ItemsStated
<1>1. PosInv => MoveNextAsserts
  <2> SUFFICES ASSUME PosInv PROVE MoveNextAsserts
    OBVIOUS
  <2>1. CASE AtItem
    <3>1. ItemOK(event, dataNext, item, top, subState)
      BY <2>1, ItemStated
    <3>2. subState # "BeforeFirstItem"
      BY <2>1 DEF AtItem
    <3> QED BY <3>1, <3>2 DEF ItemOK, MoveNextAsserts, ValueSubStates
  <2>2. CASE subState = "BeforeFirstItem"
    <3>1. Positioned /\ ~AtItem
      BY <2>2 DEF Positioned, AtItem, PositionedSubStates
    <3>2. top.PropertyIndex <= top.PropertyEnd
      BY <3>1, PositionedFacts, TopInTei DEF Ready
    <3>3. stack = <<>>
      BY <2>2, EventsAssumption DEF PosInv, TypeOK, PositionOK
    <3> QED BY <2>2, <3>1, <3>2, <3>3 DEF MoveNextAsserts, ValueSubStates
  <2>3. CASE ~AtItem /\ subState # "BeforeFirstItem"
    BY <2>3 DEF MoveNextAsserts, AtItem, PositionedSubStates, ValueSubStates
  <2> QED BY <2>1, <2>2, <2>3
<1>2. PosInv => ItemInfoAsDocumented
  <2> SUFFICES ASSUME PosInv, AtItem PROVE ItemInfoAsDocumented
    BY DEF ItemInfoAsDocumented
  <2> DEFINE epi == Property(top)
  <2>1. epi.InType \in InType /\ ItemOK(event, dataNext, item, top, subState)
    BY ItemStated
  <2>2. /\ ~top.IsArray => top.ArrayIndex = 0 /\ top.ArrayCount = 1
        /\ subState = "ArrayBegin" =>
             top.ArrayIndex = 0 /\ item.cooked = top.ArrayCount * item.element
        /\ subState = "ArrayEnd" => top.ArrayIndex = top.ArrayCount
        /\ subState \notin {"ArrayBegin", "ArrayEnd"} => top.ArrayIndex < top.ArrayCount
        /\ subState \in {"ArrayEnd", "StructBegin", "StructEnd"} => item.cooked = 0
    BY <2>1 DEF ItemOK
  <2>3. /\ top.IsStruct <=> "Struct" \in epi.Flags
        /\ top.IsStruct => item.type = "NULL" /\ item.element = 0
        /\ ~top.IsStruct => /\ item.type = CookedInType(epi.InType)
                            /\ \E size \in {4, 8} : item.element = ElementSize(epi.InType, size)
    BY <2>1 DEF ItemOK, Property
  <2> HIDE DEF epi
  <2>4. \A size \in {4, 8} :
          /\ epi.InType \notin PointerTypes => ElementSize(epi.InType, size) = ElementSize(epi.InType, 0)
          /\ epi.InType \in PointerTypes => ElementSize(epi.InType, size) \in {4, 8}
    BY <2>1, ElementSizes
  <2>5. "Struct" \notin epi.Flags =>
          /\ item.type = CookedInType(epi.InType)
          /\ epi.InType \notin PointerTypes => item.element = ElementSize(epi.InType, 0)
          /\ epi.InType \in PointerTypes => item.element \in {4, 8}
    BY <2>3, <2>4
  <2> QED BY <2>2, <2>3, <2>5 DEF ItemInfoAsDocumented, epi
<1>3. PosInv => RawItemInPayload
  <2> SUFFICES ASSUME PosInv, subState # "None"
               PROVE  dataNext + (IF AtItem THEN item.raw ELSE 0) <= Len(event.UserData)
    BY DEF RawItemInPayload
  <2>1. CASE AtItem
    BY <2>1, ItemStated DEF ItemOK
  <2>2. CASE ~AtItem
    <3>1. dataNext \in Nat /\ dataNext <= Len(event.UserData)
      BY EventsAssumption DEF PosInv, TypeOK, PositionOK
    <3> QED BY <2>2, <3>1
  <2> QED BY <2>1, <2>2
<1>4. PosInv => CookedItemInPayload
  BY ItemStated DEF CookedItemInPayload, ItemOK
<1>5. PosInv => RemainingElementsFit
  BY ItemStated DEF RemainingElementsFit, ItemOK
<1>6. PosInv => StackFollowsTei
  <2> SUFFICES ASSUME PosInv PROVE StackFollowsTei
    OBVIOUS
  <2>1. Positioned => FollowsTei(event, top, stack)
    BY PositionedFacts
  <2>2. AtItem => (top.IsStruct <=> "Struct" \in Property(top).Flags)
    BY ItemStated DEF ItemOK, Property
  <2> QED BY <2>1, <2>2 DEF StackFollowsTei
<1> QED BY <1>1, <1>2, <1>3, <1>4, <1>5, <1>6 DEF ItemsStated

\* The types, with m_integerValues always as long as the event's tei.
THEOREM TypeCorrectness == Spec => []TypeOK
<1>1. PosInv => TypeOK
  BY DEF PosInv
<1> QED BY <1>1, Positions, PTL

\* A failure always leaves a reason in LastError.
THEOREM FailuresReported == Spec => []FailureIsReported
<1>1. IInv => FailureIsReported
  BY DEF IInv
<1> QED BY <1>1, Invariance, PTL

\* The asserts of MoveNext hold in every state it can be called in.
THEOREM AssertsHold == Spec => []MoveNextAsserts
<1>1. PosInv => MoveNextAsserts
  BY PosInvStates DEF ItemsStated
<1> QED BY <1>1, Positions, PTL

\* What the header documents of an item's index, count, element size and data
\* size holds at every item.
THEOREM ItemsAsDocumented == Spec => []ItemInfoAsDocumented
<1>1. PosInv => ItemInfoAsDocumented
  BY PosInvStates DEF ItemsStated
<1> QED BY <1>1, Positions, PTL

\* No item reaches beyond the payload of its event.
THEOREM RawItemsInPayload == Spec => []RawItemInPayload
<1>1. PosInv => RawItemInPayload
  BY PosInvStates DEF ItemsStated
<1> QED BY <1>1, Positions, PTL

\* Neither does the value that GetItemInfo presents.
THEOREM CookedItemsInPayload == Spec => []CookedItemInPayload
<1>1. PosInv => CookedItemInPayload
  BY PosInvStates DEF ItemsStated
<1> QED BY <1>1, Positions, PTL

\* The one check made when an array begins covers all its elements.
THEOREM ElementsFit == Spec => []RemainingElementsFit
<1>1. PosInv => RemainingElementsFit
  BY PosInvStates DEF ItemsStated
<1> QED BY <1>1, Positions, PTL

\* The stack leads through the tei from the top level to the current property.
THEOREM StackIsRight == Spec => []StackFollowsTei
<1>1. PosInv => StackFollowsTei
  BY PosInvStates DEF ItemsStated
<1> QED BY <1>1, Positions, PTL

-----------------------------------------------------------------------------
(* The nesting. *)

One(b) == IF b THEN 1 ELSE 0

\* Positions of the structs of stk that are in an array.
InArrays(stk) == {k \in 1 .. Len(stk) : stk[k].IsArray}

\* The nesting of a stack is a number.
LEMMA OuterNestingType ==
  ASSUME NEW stk \in Seq(StackEntry)
  PROVE  /\ IsFiniteSet(InArrays(stk))
         /\ OuterNesting(stk) = Len(stk) + Cardinality(InArrays(stk))
         /\ OuterNesting(stk) \in Nat
<1>1. IsFiniteSet(1 .. Len(stk))
  BY FS_Interval
<1>2. IsFiniteSet(InArrays(stk))
  BY <1>1, FS_Subset DEF InArrays
<1>3. Cardinality(InArrays(stk)) \in Nat
  BY <1>2, FS_CardinalityType
<1>4. OuterNesting(stk) = Len(stk) + Cardinality(InArrays(stk))
  BY DEF OuterNesting, InArrays
<1> QED BY <1>2, <1>3, <1>4

\* A struct on top adds one level, and one more if it is an element of an array.
LEMMA OuterNestingOfLonger ==
  ASSUME NEW stk \in Seq(StackEntry), NEW longer \in Seq(StackEntry), NEW t,
         Len(longer) = Len(stk) + 1, \A k \in 1 .. Len(stk) : longer[k] = stk[k],
         longer[Len(longer)] = t
  PROVE  OuterNesting(longer) = OuterNesting(stk) + 1 + One(t.IsArray)
<1> DEFINE n == Len(stk)
<1>1. n \in Nat /\ n + 1 \notin InArrays(stk)
  BY DEF InArrays
<1>2. CASE t.IsArray
  <2>1. InArrays(longer) = InArrays(stk) \cup {n + 1}
    BY <1>1, <1>2 DEF InArrays
  <2>2. Cardinality(InArrays(longer)) = Cardinality(InArrays(stk)) + 1
    <3>1. IsFiniteSet(InArrays(stk))
      BY OuterNestingType
    <3> QED BY <1>1, <2>1, <3>1, FS_AddElement, ZenonT(40)
  <2>3. Cardinality(InArrays(stk)) \in Nat
    BY OuterNestingType, FS_CardinalityType
  <2> HIDE DEF n
  <2> QED BY <1>1, <1>2, <2>2, <2>3, OuterNestingType DEF One, n
<1>3. CASE ~t.IsArray
  <2>1. InArrays(longer) = InArrays(stk)
    BY <1>1, <1>3 DEF InArrays
  <2>2. Cardinality(InArrays(stk)) \in Nat
    BY OuterNestingType, FS_CardinalityType
  <2> QED BY <1>1, <1>3, <2>1, <2>2, OuterNestingType DEF One
<1> QED BY <1>2, <1>3

\* LeftBegins: what the current item adds to the nesting of its group.
LeftBegins(t, s) ==
    CASE s \in {"Value_SimpleArrayElement", "Value_ComplexArrayElement",
                "ArrayEnd", "StructBegin"} -> One(t.IsArray)
      [] s = "StructEnd" -> 1 + One(t.IsArray)
      [] OTHER -> 0

\* Nesting, before a step and after it.
LEMMA NestingIs ==
  /\ Nesting = OuterNesting(stack) + LeftBegins(top, subState)
  /\ Nesting' = OuterNesting(stack') + LeftBegins(top', subState')
BY DEF Nesting, LeftBegins, One

\* What pop_back leaves.
LEMMA WithoutLast ==
  ASSUME NEW T, NEW stk \in Seq(T), stk # <<>>
  PROVE  LET rest == SubSeq(stk, 1, Len(stk) - 1)
         IN  /\ rest \in Seq(T) /\ Len(stk) = Len(rest) + 1
             /\ \A k \in 1 .. Len(rest) : stk[k] = rest[k]
<1> DEFINE n == Len(stk)
           rest == SubSeq(stk, 1, n - 1)
<1>1. n \in Nat /\ n >= 1
  OBVIOUS
<1>2. /\ rest \in Seq(T) /\ Len(rest) = n - 1
      /\ \A k \in 1 .. n - 1 : rest[k] = stk[k]
  <2>1. \A k \in 1 .. n - 1 : stk[k] \in T
    BY <1>1, ElementOfSeq
  <2>2. /\ rest \in Seq(T)
        /\ Len(rest) = IF 1 <= n - 1 THEN n - 1 - 1 + 1 ELSE 0
        /\ \A k \in 1 .. n - 1 - 1 + 1 : rest[k] = stk[1 + k - 1]
    BY <1>1, <2>1, SubSeqProperties
  <2> HIDE DEF rest, n
  <2>3. \A k \in 1 .. n - 1 : k \in 1 .. n - 1 - 1 + 1 /\ 1 + k - 1 = k
    BY <1>1
  <2>4. \A k \in 1 .. n - 1 : rest[k] = stk[k]
    BY <2>2, <2>3
  <2>5. Len(rest) = n - 1
    BY <1>1, <2>2
  <2> QED BY <2>2, <2>4, <2>5
<1> HIDE DEF rest
<1>3. Len(stk) = Len(rest) + 1 /\ \A k \in 1 .. Len(rest) : stk[k] = rest[k]
  BY <1>1, <1>2
<1> QED BY <1>2, <1>3 DEF rest

\* After the last member of a struct, or at the next property, nothing of the
\* group that NextProperty was called for is left open.
LEMMA NextPropertyNesting ==
  ASSUME NEW t \in StackEntry, NEW stk \in Seq(StackEntry), NEW p,
         NextProperty(t, p, stk), returned'
  PROVE  Nesting' = OuterNesting(stk)
<1>1. OuterNesting(stk) \in Nat
  BY OuterNestingType
<1>2. ~EnumerationEnds(t, p, stk)
  BY DEF EnumerationEnds
<1>3. CASE StructEnds(t, p, stk)
  <2> DEFINE rest == SubSeq(stk, 1, Len(stk) - 1)
             u == stk[Len(stk)]
  <2>1. stk # <<>> /\ top' = u /\ stack' = rest /\ subState' = "StructEnd"
    BY <1>3 DEF StructEnds, AtPosition, MovedTo
  <2>2. /\ rest \in Seq(StackEntry) /\ Len(stk) = Len(rest) + 1
        /\ \A k \in 1 .. Len(rest) : stk[k] = rest[k]
    BY <2>1, WithoutLast
  <2> HIDE DEF rest, u
  <2>3. OuterNesting(stk) = OuterNesting(rest) + 1 + One(u.IsArray)
    BY <2>2, OuterNestingOfLonger DEF u
  <2>4. OuterNesting(rest) \in Nat
    BY <2>2, OuterNestingType
  <2> QED BY <2>1, <2>3, <2>4, NestingIs DEF LeftBegins, One
<1>4. CASE PropertyStarts(t, p, stk)
  <2>1. /\ stack' = stk
        /\ \/ subState' \in {"Value_Scalar", "ArrayBegin"}
           \/ subState' = "StructBegin" /\ ~top'.IsArray
    <3> DEFINE epi == Property(t)
               At(count, isArray) ==
                 [t EXCEPT !.ArrayIndex = 0, !.ArrayCount = count, !.IsArray = isArray,
                           !.IsStruct = "Struct" \in epi.Flags]
               ArrayCount ==
                 IF "ParamCount" \in epi.Flags THEN integerValues[epi.count] ELSE epi.count
    <3>1. ~At(epi.count, FALSE).IsArray
      <4> DEFINE b == "Struct" \in epi.Flags
                 c == epi.count
      <4>1. At(epi.count, FALSE) = [t EXCEPT !.ArrayIndex = 0, !.ArrayCount = c,
                                             !.IsArray = FALSE, !.IsStruct = b]
        OBVIOUS
      <4> HIDE DEF At, b, c
      <4> QED BY <4>1 DEF StackEntry
    <3> HIDE DEF At, ArrayCount
    <3>2. CASE /\ AtPosition(At(1, FALSE), p, stk)
               /\ StartValue("Value_Scalar", t, p)
      BY <3>2 DEF AtPosition, StartValue, MovedTo, SetErrorState
    <3>3. CASE /\ AtPosition(At(ArrayCount, TRUE), p, stk)
               /\ StartArray(At(ArrayCount, TRUE), p)
      BY <3>3 DEF AtPosition, StartArray, MovedTo, SetErrorState
    <3>4. CASE /\ AtPosition(At(epi.count, FALSE), p, stk)
               /\ StartStruct(p)
      BY <3>1, <3>4 DEF AtPosition, StartStruct, MovedTo
    <3> QED BY <1>4, <3>2, <3>3, <3>4 DEF PropertyStarts, At, ArrayCount
  <2> QED BY <1>1, <2>1, NestingIs DEF LeftBegins, One
<1> QED BY <1>2, <1>3, <1>4 DEF NextProperty

\* A move changes the nesting by what MoveNextSibling counts for it.
LEMMA MoveNesting ==
  ASSUME PosInv, Move, returned'
  PROVE  Nesting' = Nesting + DepthChange
<1>1. Positioned
  BY DEF Move, LeaveBeforeFirstItem, LeaveScalar, LeaveSimpleArrayElement,
     LeaveComplexArrayElement, LeaveArrayBegin, LeaveArrayEnd, LeaveStructBegin,
     LeaveStructBeginOutOfMemory, LeaveStructEnd, Positioned, PositionedSubStates
<1>2. /\ Ready /\ top \in StackEntry /\ stack \in Seq(StackEntry)
      /\ OuterNesting(stack) \in Nat
  BY <1>1, PositionedFacts, OuterNestingType
<1>3. subState # "BeforeFirstItem" => ItemOK(event, dataNext, item, top, subState)
  BY <1>1, AtItemFacts DEF AtItem, Positioned
<1>4. NextIndex(top) \in StackEntry
  BY <1>2, NextIndexFacts
<1>5. subState \notin {"BeforeFirstItem", "ArrayBegin", "ArrayEnd"} =>
        NextElement(top) \in StackEntry /\ NextElement(top).IsArray = top.IsArray
  BY <1>2, <1>3, NextElementFacts DEF ItemOK
<1>6. CASE LeaveBeforeFirstItem
  BY <1>2, <1>6, NextPropertyNesting, NestingIs DEF LeaveBeforeFirstItem, LeftBegins, DepthChange
<1>7. CASE LeaveScalar
  BY <1>2, <1>4, <1>7, NextPropertyNesting, NestingIs DEF LeaveScalar, LeftBegins, DepthChange
<1>8. CASE LeaveSimpleArrayElement
  <2>1. /\ stack' = stack /\ top'.IsArray = top.IsArray /\ DepthChange = 0
        /\ subState = "Value_SimpleArrayElement"
        /\ subState' \in {"ArrayEnd", "Value_SimpleArrayElement"}
    BY <1>5, <1>8 DEF LeaveSimpleArrayElement, AtPosition, ArrayEnds, MovedTo, DepthChange
  <2> QED BY <1>2, <2>1, NestingIs DEF LeftBegins, One
<1>9. CASE LeaveComplexArrayElement
  <2>1. /\ stack' = stack /\ top'.IsArray = top.IsArray /\ DepthChange = 0
        /\ subState = "Value_ComplexArrayElement"
        /\ subState' \in {"ArrayEnd", "Value_ComplexArrayElement"}
    BY <1>5, <1>9 DEF LeaveComplexArrayElement, AtPosition, ArrayEnds, StartValue, MovedTo,
         SetErrorState, DepthChange
  <2> QED BY <1>2, <2>1, NestingIs DEF LeftBegins, One
<1>10. CASE LeaveArrayBegin
  <2>1. /\ stack' = stack /\ top' = top /\ subState = "ArrayBegin" /\ DepthChange = 1
        /\ subState' \in {"ArrayEnd", "Value_SimpleArrayElement", "Value_ComplexArrayElement",
                          "StructBegin"}
    BY <1>10 DEF LeaveArrayBegin, AtPosition, ArrayEnds, StartValue, StartStruct, MovedTo,
         SetErrorState, DepthChange
  <2>2. top.IsArray
    BY <1>3, <2>1 DEF ItemOK
  <2> QED BY <1>2, <2>1, <2>2, NestingIs DEF LeftBegins, One
<1>11. CASE LeaveArrayEnd
  <2>1. subState = "ArrayEnd" /\ DepthChange = -1 /\ Nesting' = OuterNesting(stack)
    BY <1>2, <1>4, <1>11, NextPropertyNesting DEF LeaveArrayEnd, DepthChange
  <2>2. top.IsArray
    BY <1>3, <2>1 DEF ItemOK
  <2> QED BY <1>2, <2>1, <2>2, NestingIs DEF LeftBegins, One
<1>12. CASE LeaveStructBegin
  <2> DEFINE members == [top EXCEPT !.PropertyIndex = Property(top).StructStartIndex,
                                    !.PropertyEnd = Property(top).StructStartIndex
                                                    + Property(top).NumOfStructMembers]
             longer == Append(stack, top)
  <2>1. subState = "StructBegin" /\ NextProperty(members, dataNext, longer) /\ DepthChange = 1
    BY <1>12 DEF LeaveStructBegin, DepthChange
  <2>2. members \in StackEntry
    <3>1. top.PropertyIndex \in Nat /\ top.PropertyIndex < event.tei.PropertyCount
      <4>1. top.PropertyIndex \in Nat /\ top.PropertyEnd \in Nat
        BY <1>2 DEF StackEntry
      <4> QED BY <1>1, <1>3, <2>1, <4>1, PositionedFacts, TopInTei, EventFacts DEF ItemOK, Ready
    <3> DEFINE first == Property(top).StructStartIndex
               size == Property(top).NumOfStructMembers
    <3>2. first \in Nat /\ size \in Nat
      BY <1>2, <3>1, PropertyFacts DEF Property, Ready
    <3>3. first + size \in Nat
      BY <3>2
    <3> HIDE DEF first, size
    <3> QED BY <1>2, <3>2, <3>3 DEF StackEntry, first, size
  <2>3. /\ longer \in Seq(StackEntry) /\ Len(longer) = Len(stack) + 1
        /\ \A k \in 1 .. Len(stack) : longer[k] = stack[k]
        /\ longer[Len(longer)] = top
    BY <1>2
  <2> HIDE DEF members, longer
  <2>4. Nesting' = OuterNesting(longer)
    BY <2>1, <2>2, <2>3, NextPropertyNesting
  <2>5. OuterNesting(longer) = OuterNesting(stack) + 1 + One(top.IsArray)
    BY <1>2, <2>3, OuterNestingOfLonger
  <2> QED BY <1>2, <2>1, <2>4, <2>5, NestingIs DEF LeftBegins, One
<1>13. CASE LeaveStructBeginOutOfMemory
  BY <1>13 DEF LeaveStructBeginOutOfMemory, SetErrorState
<1>14. CASE LeaveStructEnd
  <2> DEFINE t == NextElement(top)
  <2>1. subState = "StructEnd" /\ DepthChange = -1
        /\ t \in StackEntry /\ t.IsArray = top.IsArray
    BY <1>5, <1>14 DEF LeaveStructEnd, DepthChange
  <2> HIDE DEF t
  <2>2. CASE /\ AtPosition(t, dataNext, stack)
             /\ StartStruct(dataNext)
    BY <1>2, <2>1, <2>2, NestingIs DEF AtPosition, StartStruct, MovedTo, LeftBegins, One
  <2>3. CASE t.IsArray /\ ArrayEnds(t, dataNext)
    <3>1. stack' = stack /\ top' = t /\ subState' = "ArrayEnd" /\ top.IsArray
      BY <2>1, <2>3 DEF AtPosition, ArrayEnds, MovedTo
    <3> QED BY <1>2, <2>1, <3>1, NestingIs DEF LeftBegins, One
  <2>4. CASE ~t.IsArray /\ NextProperty(NextIndex(t), dataNext, stack)
    <3>1. Nesting' = OuterNesting(stack)
      BY <1>2, <2>1, <2>4, NextIndexFacts, NextPropertyNesting
    <3>2. ~top.IsArray
      BY <2>1, <2>4
    <3> QED BY <1>2, <2>1, <3>1, <3>2, NestingIs DEF LeftBegins, One
  <2> QED BY <1>14, <2>2, <2>3, <2>4 DEF LeaveStructEnd, t
<1> QED BY <1>6, <1>7, <1>8, <1>9, <1>10, <1>11, <1>12, <1>13, <1>14 DEF Move

\* Skipping an array of simple elements is a move from its begin to what
\* follows its end: the nesting stays.
LEMMA SkipSimpleArrayNesting ==
  ASSUME PosInv, NEW depth, SkipSimpleArray(depth), returned'
  PROVE  Nesting' = Nesting
<1>1. AtItem /\ subState = "ArrayBegin"
  BY DEF SkipSimpleArray, AtSimpleArrayBegin, AtItem, PositionedSubStates
<1>2. top \in StackEntry /\ stack \in Seq(StackEntry) /\ OuterNesting(stack) \in Nat
  BY <1>1, AtItemFacts, PositionedFacts, OuterNestingType
<1>3. Nesting' = OuterNesting(stack)
  BY <1>2, NextIndexFacts, NextPropertyNesting DEF SkipSimpleArray
<1> QED BY <1>1, <1>2, <1>3, NestingIs DEF LeftBegins

\* So is that of the current item.
LEMMA NestingType ==
  ASSUME stack \in Seq(StackEntry)
  PROVE  Nesting \in Nat
BY OuterNestingType, NestingIs DEF LeftBegins, One

\* One iteration of MoveNextSibling.
LEMMA LoopKeepsNesting ==
  ASSUME PosInv, NEW depth \in Nat, returned',
         SkipSimpleArray(depth) \/ MoveInLoop(depth)
  PROVE  /\ Nesting \in Nat /\ Nesting' \in Int /\ sibling'.depth \in Nat
         /\ depth > 0 => Nesting' - sibling'.depth = Nesting - depth
<1>1. Nesting \in Nat
  BY NestingType DEF PosInv, TypeOK
<1>2. CASE SkipSimpleArray(depth)
  <2>1. Nesting' = Nesting
    BY <1>2, SkipSimpleArrayNesting
  <2> QED BY <1>1, <1>2, <2>1 DEF SkipSimpleArray, LoopTest
<1>3. CASE MoveInLoop(depth)
  <2>1. Nesting' = Nesting + DepthChange
    BY <1>3, MoveNesting DEF MoveInLoop
  <2>2. DepthChange \in {-1, 0, 1}
    BY DEF DepthChange
  <2>3. LoopTest(depth + DepthChange)
    BY <1>3 DEF MoveInLoop
  <2> QED BY <1>1, <2>1, <2>2, <2>3 DEF LoopTest
<1> QED BY <1>2, <1>3

\* MoveNextSibling's counter is right: it returns at the nesting it left.
THEOREM SiblingLevel == Spec => SiblingKeepsNesting
<1> DEFINE Kept == sibling.running /\ returned' =>
                     Nesting' - sibling'.depth = Nesting - sibling.depth
<1>1. ASSUME PosInv, Next PROVE Kept
  <2> SUFFICES ASSUME sibling.running, returned' PROVE Nesting' - sibling'.depth = Nesting - sibling.depth
    OBVIOUS
  <2>1. sibling.depth \in Nat /\ sibling.depth > 0
    BY <1>1 DEF PosInv, TypeOK
  <2>2. MoveNextSiblingLoop
    BY <1>1 DEF Next, Start, StartWithTraceEventInfo, StartEventWithTraceEventInfo,
       StartEventRefused, StartEventOutOfMemory, StartEventFailed, Clear, Reset, MoveNext,
       MoveNextSibling, FindEventAttribute, SetTimestampFormat, PreviewEvent, Report,
       SetPointerSizeFallback, Idle
  <2> QED BY <1>1, <2>1, <2>2, LoopKeepsNesting DEF MoveNextSiblingLoop
<1>2. PosInv /\ [Next]_vars => [Kept]_vars
  BY <1>1
<1>3. Spec => [][Kept]_vars
  BY <1>2, Positions, PTL DEF Spec
<1> QED BY <1>3 DEF SiblingKeepsNesting
==============================================================================

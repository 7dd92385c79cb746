---------------------------- MODULE EtwJson_proofs ----------------------------
(***************************************************************************)
(* Proofs about formatting as JSON: for every set of events, of metadata   *)
(* fields and of prefixes, a call that moves the enumerator while it       *)
(* writes keeps the enumerator's position right, ends where it should,     *)
(* fails only for a cause of its own and closes what it opens.             *)
(***************************************************************************)
EXTENDS EtwJson, EtwEnumerator_proofs, FunctionTheorems

-----------------------------------------------------------------------------
(* Texts: sequences of whatever tokens. *)

IsText(s) == s \in Seq(Range(s))

\* A sequence is a text.
LEMMA TextIntro ==
  ASSUME NEW S, NEW s \in Seq(S)
  PROVE  /\ IsText(s) /\ Len(s) \in Nat /\ DOMAIN s = 1 .. Len(s)
         /\ Range(s) = {s[k] : k \in 1 .. Len(s)}
BY SeqOfRange, LenProperties, RangeEquality DEF IsText

\* So is what is made of two.
LEMMA TextConcat ==
  ASSUME NEW s, NEW t, IsText(s), IsText(t)
  PROVE  /\ IsText(s \o t)
         /\ Len(s \o t) = Len(s) + Len(t) /\ Len(s) \in Nat /\ Len(t) \in Nat
         /\ \A k \in 1 .. Len(s) : (s \o t)[k] = s[k]
         /\ \A k \in Len(s) + 1 .. Len(s) + Len(t) : (s \o t)[k] = t[k - Len(s)]
<1> DEFINE S == Range(s) \cup Range(t)
<1>1. s \in Seq(S) /\ t \in Seq(S)
  BY SeqMonotonic DEF IsText
<1> HIDE DEF S
<1>2. /\ s \o t \in Seq(S) /\ Len(s \o t) = Len(s) + Len(t)
      /\ \A k \in 1 .. Len(s) + Len(t) : (s \o t)[k] = IF k <= Len(s) THEN s[k] ELSE t[k - Len(s)]
  BY <1>1, ConcatProperties
<1>3. Len(s) \in Nat /\ Len(t) \in Nat
  BY <1>1, LenProperties
<1>4. \A k \in 1 .. Len(s) : k \in 1 .. Len(s) + Len(t) /\ k <= Len(s)
  BY <1>3
<1>5. \A k \in Len(s) + 1 .. Len(s) + Len(t) : k \in 1 .. Len(s) + Len(t) /\ ~ (k <= Len(s))
  BY <1>3
<1>6. IsText(s \o t)
  BY <1>2, TextIntro
<1> QED BY <1>2, <1>3, <1>4, <1>5, <1>6

\* A token more.
LEMMA TextAppend ==
  ASSUME NEW s, IsText(s), NEW token
  PROVE  /\ IsText(Append(s, token)) /\ Append(s, token) = s \o <<token>>
         /\ Len(Append(s, token)) = Len(s) + 1 /\ Len(s) \in Nat
         /\ \A k \in 1 .. Len(s) : Append(s, token)[k] = s[k]
         /\ Append(s, token)[Len(s) + 1] = token
<1> DEFINE S == Range(s) \cup {token}
<1>1. s \in Seq(S) /\ token \in S
  BY SeqMonotonic DEF IsText
<1> HIDE DEF S
<1>2. Append(s, token) \in Seq(S) /\ Append(s, token) = s \o <<token>>
  BY <1>1, AppendProperties, AppendIsConcat
<1>3. /\ Len(Append(s, token)) = Len(s) + 1
      /\ \A k \in 1 .. Len(s) : Append(s, token)[k] = s[k]
      /\ Append(s, token)[Len(s) + 1] = token
  BY <1>1, AppendProperties
<1>4. Len(s) \in Nat
  BY <1>1, LenProperties
<1>5. IsText(Append(s, token))
  BY <1>2, TextIntro
<1> QED BY <1>2, <1>3, <1>4, <1>5

\* One token is a text, and so is none.
LEMMA TextOfFew ==
  /\ IsText(<< >>) /\ Len(<< >>) = 0
  /\ \A token : IsText(<<token>>) /\ Len(<<token>>) = 1 /\ <<token>>[1] = token
<1>1. IsText(<< >>) /\ Len(<< >>) = 0
  BY TextIntro, EmptySeq
<1>2. ASSUME NEW token
      PROVE  IsText(<<token>>) /\ Len(<<token>>) = 1 /\ <<token>>[1] = token
  <2>1. <<token>> \in Seq({token})
    OBVIOUS
  <2> QED BY <2>1, TextIntro
<1> QED BY <1>1, <1>2

\* Three texts.
LEMMA TextAssociative ==
  ASSUME NEW s, NEW t, NEW u, IsText(s), IsText(t), IsText(u)
  PROVE  (s \o t) \o u = s \o (t \o u)
<1> DEFINE S == Range(s) \cup Range(t) \cup Range(u)
<1>1. s \in Seq(S) /\ t \in Seq(S) /\ u \in Seq(S)
  BY SeqMonotonic DEF IsText
<1> HIDE DEF S
<1> QED BY <1>1, ConcatAssociative

-----------------------------------------------------------------------------
(* Counting brackets. *)

\* The positions that are counted are finitely many.
LEMMA OpenedType ==
  ASSUME NEW s, IsText(s), NEW first \in Nat, NEW tokens
  PROVE  /\ IsFiniteSet({k \in first .. Len(s) : s[k] \in tokens})
         /\ Opened(s, first, tokens) \in Nat
<1>1. Len(s) \in Nat
  BY LenProperties DEF IsText
<1>2. IsFiniteSet(first .. Len(s))
  BY <1>1, FS_Interval
<1>3. IsFiniteSet({k \in first .. Len(s) : s[k] \in tokens})
  BY <1>2, FS_Subset
<1> QED BY <1>3, FS_CardinalityType DEF Opened

\* Moving a set of positions does not change how many there are.
LEMMA ShiftedCardinality ==
  ASSUME NEW S \in SUBSET Int, IsFiniteSet(S), NEW n \in Int
  PROVE  IsFiniteSet({k + n : k \in S}) /\ Cardinality({k + n : k \in S}) = Cardinality(S)
<1> DEFINE T == {k + n : k \in S}
           f == [k \in S |-> k + n]
<1>1. f \in [S -> T]
  OBVIOUS
<1>2. \A a, b \in S : f[a] = f[b] => a = b
  OBVIOUS
<1>3. \A t \in T : \E a \in S : f[a] = t
  OBVIOUS
<1>4. f \in Bijection(S, T)
  BY <1>1, <1>2, <1>3, Fun_IsBij
<1> HIDE DEF T, f
<1>5. ExistsBijection(S, T)
  BY <1>4 DEF ExistsBijection
<1>6. IsFiniteSet(T) /\ Cardinality(T) = Cardinality(S)
  BY <1>4, <1>5, FS_Bijection
<1> QED BY <1>6 DEF T

\* What two texts hold together, counted from a position of the first.
LEMMA OpenedOfConcat ==
  ASSUME NEW s, NEW t, IsText(s), IsText(t), NEW tokens,
         NEW first \in Nat \ {0}, first <= Len(s) + 1
  PROVE  Opened(s \o t, first, tokens) = Opened(s, first, tokens) + Opened(t, 1, tokens)
<1> DEFINE A == {k \in first .. Len(s) : s[k] \in tokens}
           B == {k \in 1 .. Len(t) : t[k] \in tokens}
           C == {k + Len(s) : k \in B}
           D == {k \in first .. Len(s \o t) : (s \o t)[k] \in tokens}
<1>1. /\ Len(s \o t) = Len(s) + Len(t) /\ Len(s) \in Nat /\ Len(t) \in Nat
      /\ \A k \in 1 .. Len(s) : (s \o t)[k] = s[k]
      /\ \A k \in Len(s) + 1 .. Len(s) + Len(t) : (s \o t)[k] = t[k - Len(s)]
  BY TextConcat
<1>2. IsFiniteSet(A) /\ IsFiniteSet(B)
  BY OpenedType
<1>3. B \in SUBSET Int
  OBVIOUS
<1>4. IsFiniteSet(C) /\ Cardinality(C) = Cardinality(B)
  <2> DEFINE n == Len(s)
  <2>1. n \in Int
    BY <1>1
  <2> HIDE DEF B, n
  <2>2. IsFiniteSet({k + n : k \in B}) /\ Cardinality({k + n : k \in B}) = Cardinality(B)
    BY <1>2, <1>3, <2>1, ShiftedCardinality
  <2> QED BY <2>2 DEF n
<1>5. A \cap C = {}
  <2>1. \A k \in A : k \in Int /\ k <= Len(s)
    BY <1>1
  <2>2. \A k \in B : k \in Int /\ k >= 1
    BY <1>1
  <2> HIDE DEF A, B
  <2>3. \A k \in C : k \in Int /\ ~ (k <= Len(s))
    BY <1>1, <2>2
  <2> HIDE DEF C
  <2> QED BY <2>1, <2>3
<1>6. D = A \cup C
  <2>1. ASSUME NEW k \in D PROVE k \in A \cup C
    <3>1. k \in first .. Len(s) + Len(t) /\ (s \o t)[k] \in tokens
      BY <1>1
    <3>2. CASE k <= Len(s)
      <4>1. k \in first .. Len(s) /\ k \in 1 .. Len(s)
        BY <1>1, <3>1, <3>2
      <4> QED BY <1>1, <3>1, <4>1
    <3>3. CASE ~ (k <= Len(s))
      <4> DEFINE j == k - Len(s)
      <4>1. k \in Len(s) + 1 .. Len(s) + Len(t) /\ j \in 1 .. Len(t) /\ k = j + Len(s)
        BY <1>1, <3>1, <3>3
      <4>2. t[j] \in tokens
        BY <1>1, <3>1, <4>1
      <4> HIDE DEF j
      <4> QED BY <4>1, <4>2
    <3> QED BY <3>2, <3>3
  <2>2. ASSUME NEW k \in A PROVE k \in D
    <3>1. k \in 1 .. Len(s) /\ k \in first .. Len(s) + Len(t)
      BY <1>1
    <3> QED BY <1>1, <3>1
  <2>3. ASSUME NEW j \in B PROVE j + Len(s) \in D
    <3> DEFINE k == j + Len(s)
    <3>1. k \in Len(s) + 1 .. Len(s) + Len(t) /\ k \in first .. Len(s) + Len(t) /\ k - Len(s) = j
      BY <1>1
    <3> HIDE DEF k
    <3>2. (s \o t)[k] \in tokens
      BY <1>1, <3>1
    <3> QED BY <1>1, <3>1, <3>2 DEF k
  <2> HIDE DEF A, B, D
  <2> QED BY <2>1, <2>2, <2>3
<1>7. Cardinality(A \cup C) = Cardinality(A) + Cardinality(C)
  <2> HIDE DEF A, B, C, D
  <2>1. Cardinality(A \cup C) = Cardinality(A) + Cardinality(C) - Cardinality(A \cap C)
    BY <1>2, <1>4, FS_Union
  <2>2. Cardinality(A) \in Nat /\ Cardinality(C) \in Nat
    BY <1>2, <1>4, FS_CardinalityType
  <2>3. Cardinality(A \cap C) = 0
    BY <1>5, FS_EmptySet
  <2>4. Cardinality(A) + Cardinality(C) - 0 = Cardinality(A) + Cardinality(C)
    BY <2>2
  <2> QED BY <2>1, <2>3, <2>4
<1> HIDE DEF A, B, C, D
<1> QED BY <1>4, <1>6, <1>7 DEF Opened, A, B, D

\* What a text opens and does not close.
Net(s, first) == Opened(s, first, Openings) - Opened(s, first, Closings)

LEMMA NetOfConcat ==
  ASSUME NEW s, NEW t, IsText(s), IsText(t), NEW first \in Nat \ {0}, first <= Len(s) + 1
  PROVE  /\ Net(s \o t, first) = Net(s, first) + Net(t, 1)
         /\ Net(s, first) \in Int /\ Net(t, 1) \in Int
<1>1. \A tokens : Opened(s \o t, first, tokens) = Opened(s, first, tokens) + Opened(t, 1, tokens)
  BY OpenedOfConcat
<1>2. \A tokens : Opened(s, first, tokens) \in Nat /\ Opened(t, 1, tokens) \in Nat
  BY OpenedType
<1> QED BY <1>1, <1>2 DEF Net

Plain(s) == IsText(s) /\ Range(s) \cap (Openings \cup Closings) = {}

\* A plain text opens and closes nothing.
LEMMA NetOfPlain ==
  ASSUME NEW s, Plain(s), NEW first \in Nat \ {0}
  PROVE  Net(s, first) = 0
<1>1. Len(s) \in Nat /\ \A k \in 1 .. Len(s) : s[k] \in Range(s)
  BY TextIntro, RangeEquality DEF Plain, IsText
<1>2. \A k \in first .. Len(s) : k \in 1 .. Len(s)
  BY <1>1
<1>3. ASSUME NEW tokens \in {Openings, Closings}
      PROVE  Opened(s, first, tokens) = 0
  <2>1. {k \in first .. Len(s) : s[k] \in tokens} = {}
    BY <1>1, <1>2 DEF Plain
  <2> QED BY <2>1, FS_EmptySet DEF Opened
<1>4. Opened(s, first, Openings) = 0 /\ Opened(s, first, Closings) = 0
  BY <1>3
<1> QED BY <1>4 DEF Net

\* Nothing is counted beyond the end of a text.
LEMMA NetBeyond ==
  ASSUME NEW s, IsText(s), NEW first \in Nat, first > Len(s)
  PROVE  Net(s, first) = 0
<1>1. Len(s) \in Nat
  BY TextIntro DEF IsText
<1>2. \A tokens : {k \in first .. Len(s) : s[k] \in tokens} = {}
  BY <1>1
<1>3. \A tokens : Opened(s, first, tokens) = 0
  BY <1>2, FS_EmptySet DEF Opened
<1> QED BY <1>3 DEF Net

\* One token does what it says.
LEMMA NetOfOne ==
  ASSUME NEW token
  PROVE  /\ token \in Openings \ Closings => Net(<<token>>, 1) = 1
         /\ token \in Closings \ Openings => Net(<<token>>, 1) = -1
         /\ token \notin Openings \cup Closings => Plain(<<token>>)
<1> DEFINE s == <<token>>
<1>1. IsText(s) /\ Len(s) = 1 /\ s[1] = token
  BY TextOfFew
<1>2. Range(s) = {token}
  <2>1. s \in Seq({token})
    OBVIOUS
  <2> HIDE DEF s
  <2>2. Range(s) = {s[k] : k \in 1 .. Len(s)}
    BY <2>1, RangeEquality
  <2>3. Range(s) = {s[k] : k \in {1}}
    BY <1>1, <2>2
  <2> QED BY <1>1, <2>3
<1> HIDE DEF s
<1>3. ASSUME NEW tokens
      PROVE  Opened(s, 1, tokens) = IF token \in tokens THEN 1 ELSE 0
  <2>1. {k \in 1 .. Len(s) : s[k] \in tokens} = IF token \in tokens THEN {1} ELSE {}
    BY <1>1
  <2> QED BY <2>1, FS_EmptySet, FS_Singleton DEF Opened
<1>4. /\ Opened(s, 1, Openings) = IF token \in Openings THEN 1 ELSE 0
      /\ Opened(s, 1, Closings) = IF token \in Closings THEN 1 ELSE 0
  BY <1>3
<1> QED BY <1>1, <1>2, <1>4 DEF Net, Plain, s

\* Plain texts are plain together.
LEMMA PlainConcat ==
  ASSUME NEW s, NEW t, Plain(s), Plain(t)
  PROVE  Plain(s \o t)
<1> DEFINE S == Range(s) \cup Range(t)
<1>1. s \in Seq(S) /\ t \in Seq(S)
  BY SeqMonotonic DEF IsText, Plain
<1>2. Range(s \o t) = S
  <2> HIDE DEF S
  <2>1. Range(s \o t) = Range(s) \cup Range(t)
    BY <1>1, RangeConcatenation
  <2> QED BY <2>1 DEF S
<1> QED BY <1>2, TextConcat DEF Plain

-----------------------------------------------------------------------------
(* What a move reports. *)

\* NextProperty fails for a reason that it reports, ends the event, or is at the
\* next item; only the begin of an array of simple elements leaves LastError as
\* it was.
LEMMA NextPropertyReports ==
  ASSUME NEW t, NEW p, NEW stk, NextProperty(t, p, stk)
  PROVE  \/ /\ subState' = "Error" /\ returned' = FALSE
            /\ lastError' \in {"INVALID_DATA", "UNSUPPORTED_TYPE"}
         \/ /\ subState' = "AfterLastItem" /\ returned' = FALSE /\ lastError' = "SUCCESS"
            /\ stk = <<>> /\ stack' = <<>>
         \/ /\ subState' \in {"StructEnd", "Value_Scalar", "ArrayBegin", "StructBegin"}
            /\ returned' = TRUE
            /\ lastError' # "SUCCESS" => lastError' = lastError /\ subState' = "ArrayBegin"
<1>1. CASE EnumerationEnds(t, p, stk)
  BY <1>1 DEF EnumerationEnds, AtPosition
<1>2. CASE StructEnds(t, p, stk)
  BY <1>2 DEF StructEnds, MovedTo
<1>3. CASE PropertyStarts(t, p, stk)
  <2>1. ASSUME StartValue("Value_Scalar", t, p)
        PROVE  \/ /\ subState' = "Error" /\ returned' = FALSE
                  /\ lastError' \in {"INVALID_DATA", "UNSUPPORTED_TYPE"}
               \/ /\ subState' = "Value_Scalar" /\ returned' = TRUE /\ lastError' = "SUCCESS"
    BY <2>1 DEF StartValue, MovedTo, SetErrorState
  <2>2. ASSUME NEW u, StartArray(u, p)
        PROVE  \/ /\ subState' = "Error" /\ returned' = FALSE
                  /\ lastError' \in {"INVALID_DATA", "UNSUPPORTED_TYPE"}
               \/ /\ subState' = "ArrayBegin" /\ returned' = TRUE
                  /\ lastError' # "SUCCESS" => lastError' = lastError
    BY <2>2 DEF StartArray, MovedTo, SetErrorState
  <2>3. ASSUME StartStruct(p)
        PROVE  subState' = "StructBegin" /\ returned' = TRUE /\ lastError' = "SUCCESS"
    BY <2>3 DEF StartStruct, MovedTo
  <2>4. \/ StartValue("Value_Scalar", t, p)
        \/ \E u : StartArray(u, p)
        \/ StartStruct(p)
    BY <1>3 DEF PropertyStarts
  <2> QED BY <2>1, <2>2, <2>3, <2>4
<1> QED BY <1>1, <1>2, <1>3 DEF NextProperty

\* So does MoveNext.
MoveReported ==
    \/ /\ subState' = "Error" /\ returned' = FALSE
       /\ lastError' \in {"INVALID_DATA", "UNSUPPORTED_TYPE", "OUTOFMEMORY"}
    \/ /\ subState' = "AfterLastItem" /\ returned' = FALSE /\ lastError' = "SUCCESS"
       /\ Nesting' = 0 /\ Nesting + DepthChange = 0 /\ stack' = <<>>
    \/ /\ subState' \in ItemSubStates /\ returned' = TRUE
       /\ Nesting' = Nesting + DepthChange
       /\ lastError' # "SUCCESS" => lastError' = lastError /\ subState' = "ArrayBegin"

\* The nesting of no structs.
LEMMA OuterNestingOfNone == OuterNesting(<< >>) = 0
<1>1. << >> \in Seq(StackEntry) /\ Len(<< >>) = 0
  BY EmptySeq
<1>2. InArrays(<< >>) = {}
  BY <1>1 DEF InArrays
<1>3. Cardinality(InArrays(<< >>)) = 0
  BY <1>2, FS_EmptySet
<1>4. OuterNesting(<< >>) = Len(<< >>) + Cardinality(InArrays(<< >>))
  BY <1>1, OuterNestingType
<1> QED BY <1>1, <1>3, <1>4

\* Every move does.
LEMMA MoveReports ==
  ASSUME PosInv, Move
  PROVE  MoveReported
<1> DEFINE Failed == /\ subState' = "Error" /\ returned' = FALSE
                     /\ lastError' \in {"INVALID_DATA", "UNSUPPORTED_TYPE", "OUTOFMEMORY"}
           Ended == /\ subState' = "AfterLastItem" /\ returned' = FALSE /\ lastError' = "SUCCESS"
                    /\ stack' = <<>>
           There == /\ subState' \in ItemSubStates /\ returned' = TRUE
                    /\ lastError' # "SUCCESS" => lastError' = lastError /\ subState' = "ArrayBegin"
<1>1. ASSUME NEW t, NEW p, NEW stk, NextProperty(t, p, stk)
      PROVE  Failed \/ (Ended /\ stk = <<>>) \/ There
  BY <1>1, NextPropertyReports DEF ItemSubStates, PositionedSubStates
<1>2. ASSUME NEW t, NEW p, ArrayEnds(t, p) PROVE There
  BY <1>2 DEF ArrayEnds, MovedTo, ItemSubStates, PositionedSubStates
<1>3. ASSUME NEW s \in ItemSubStates, MovedTo(s) PROVE There
  BY <1>3 DEF MovedTo
<1>4. ASSUME NEW s \in ItemSubStates, NEW t, NEW p, StartValue(s, t, p) PROVE Failed \/ There
  BY <1>4 DEF StartValue, MovedTo, SetErrorState
<1>5. ASSUME NEW p, StartStruct(p) PROVE There
  BY <1>5 DEF StartStruct, MovedTo, ItemSubStates, PositionedSubStates
<1>6. /\ "Value_SimpleArrayElement" \in ItemSubStates
      /\ "Value_ComplexArrayElement" \in ItemSubStates
  BY DEF ItemSubStates, PositionedSubStates
<1> DEFINE Over == Nesting + DepthChange = 0
<1>7. Positioned
  BY DEF Move, LeaveBeforeFirstItem, LeaveScalar, LeaveSimpleArrayElement,
     LeaveComplexArrayElement, LeaveArrayBegin, LeaveArrayEnd, LeaveStructBegin,
     LeaveStructBeginOutOfMemory, LeaveStructEnd, Positioned, PositionedSubStates
<1>8. /\ top \in StackEntry /\ stack \in Seq(StackEntry)
      /\ subState # "BeforeFirstItem" => ItemOK(event, dataNext, item, top, subState)
  BY <1>7, PositionedFacts, AtItemFacts DEF AtItem, Positioned
<1>9. OuterNesting(<<>>) = 0
  BY OuterNestingOfNone
<1>10. Failed \/ (Ended /\ Over) \/ There
  <2> HIDE DEF Failed, Ended, There
  <2>1. CASE LeaveBeforeFirstItem
    <3>1. stack = <<>> => Over
      BY <1>9, <2>1, NestingIs DEF LeaveBeforeFirstItem, DepthChange, LeftBegins
    <3> QED BY <1>1, <2>1, <3>1 DEF LeaveBeforeFirstItem
  <2>2. CASE LeaveScalar
    <3>1. stack = <<>> => Over
      BY <1>9, <2>2, NestingIs DEF LeaveScalar, DepthChange, LeftBegins
    <3> QED BY <1>1, <2>2, <3>1 DEF LeaveScalar
  <2>3. CASE LeaveSimpleArrayElement
    BY <1>2, <1>3, <1>6, <2>3 DEF LeaveSimpleArrayElement
  <2>4. CASE LeaveComplexArrayElement
    BY <1>2, <1>4, <1>6, <2>4 DEF LeaveComplexArrayElement
  <2>5. CASE LeaveArrayBegin
    BY <1>2, <1>3, <1>4, <1>5, <1>6, <2>5 DEF LeaveArrayBegin
  <2>6. CASE LeaveArrayEnd
    <3>1. top.IsArray
      BY <1>8, <2>6 DEF LeaveArrayEnd, ItemOK
    <3>2. stack = <<>> => Over
      BY <1>9, <2>6, <3>1, NestingIs DEF LeaveArrayEnd, DepthChange, LeftBegins, One
    <3> QED BY <1>1, <2>6, <3>2 DEF LeaveArrayEnd
  <2>7. CASE LeaveStructBegin
    <3>1. Append(stack, top) # <<>>
      BY <1>8, AppendProperties
    <3> QED BY <1>1, <2>7, <3>1 DEF LeaveStructBegin
  <2>8. CASE LeaveStructBeginOutOfMemory
    BY <2>8 DEF LeaveStructBeginOutOfMemory, SetErrorState, Failed
  <2>9. CASE LeaveStructEnd
    <3>1. NextElement(top).IsArray = top.IsArray
      BY <1>8, <2>9, NextElementFacts DEF LeaveStructEnd, ItemOK
    <3>2. stack = <<>> /\ ~NextElement(top).IsArray => Over
      BY <1>9, <2>9, <3>1, NestingIs DEF LeaveStructEnd, DepthChange, LeftBegins, One
    <3> QED BY <1>1, <1>2, <1>5, <2>9, <3>2 DEF LeaveStructEnd
  <2> QED BY <2>1, <2>2, <2>3, <2>4, <2>5, <2>6, <2>7, <2>8, <2>9 DEF Move
<1>11. Ended => Nesting' = 0
  BY <1>9, NestingIs DEF LeftBegins
<1>12. There => Nesting' = Nesting + DepthChange
  BY MoveNesting
<1> QED BY <1>10, <1>11, <1>12 DEF MoveReported

-----------------------------------------------------------------------------
(* The loop: where it is, and what m_lastError holds there. *)

JsonRecord ==
    [at: JsonStep, depth: Nat, wantComma: BOOLEAN, includeName: BOOLEAN, mark: Nat,
     failed: BOOLEAN]

Begins == ValueSubStates \cup {"ArrayBegin", "StructBegin"}

\* An end is written only for a begin that the loop has written.
PlaceInv ==
    /\ json \in JsonRecord
    /\ ~NoCall => Idle
    /\ json.at \in {"prefix", "first"} => subState = "BeforeFirstItem"
    /\ At("first") => json.depth = 1
    /\ json.at \in {"text", "move"} => AtItem
    /\ At("text") => json.depth > 0 \/ subState \in Begins

\* m_lastError may hold the error of an earlier call until the first value or
\* the first move that is not to an array of simple elements, and no longer.
StatusInv ==
    /\ json.at \in {"prefix", "first", "text", "move", "meta"} => ~json.failed
    /\ At("text") => lastError = "SUCCESS" \/ subState \in Begins
    /\ At("move") => \/ lastError = "SUCCESS"
                     \/ subState \in {"ArrayBegin", "StructBegin"} /\ json.depth > 0
    /\ At("meta") => lastError = "SUCCESS"
    /\ At("result") => (json.failed <=> lastError # "SUCCESS")

\* The steps of a call but its last.
Writing ==
    \/ WritePrefix
    \/ FirstMove
    \/ NextMove
    \/ WriteValue
    \/ WriteArrayBegin
    \/ WriteStructBegin
    \/ WriteEnd
    \/ ValueFails
    \/ OutputOutOfMemory
    \/ WriteMeta

\* They leave the enumerator alone, but for m_lastError, or move it.
LEMMA WritingMoves ==
  ASSUME Writing
  PROVE  \/ /\ UNCHANGED <<event, position, stackCapacity, returned, sibling, settings>>
            /\ lastError' \in {lastError, "SUCCESS", "CALLBACK_ERROR", "OUTOFMEMORY"}
         \/ /\ Move /\ MoveToNextItem /\ json.at \in {"first", "move"}
            /\ UNCHANGED <<event, sibling, settings>>
BY DEF Writing, WritePrefix, FirstMove, NextMove, MoveToNextItem, WriteValue, WriteArrayBegin,
   WriteStructBegin, WriteEnd, ValueFails, OutputOutOfMemory, WriteMeta, GiveUp, At,
   UNCHANGED_Enumerator, vars

\* So the positions stay right.
LEMMA WritingKeepsPosInv ==
  ASSUME PosInv, PlaceInv, Writing
  PROVE  PosInv'
<1>1. CASE /\ UNCHANGED <<event, position, stackCapacity, returned, sibling, settings>>
           /\ lastError' \in {lastError, "SUCCESS", "CALLBACK_ERROR", "OUTOFMEMORY"}
  <2>1. /\ lastError' \in Status /\ returned' \in BOOLEAN /\ pointerSizeFallback' \in {4, 8}
        /\ UNCHANGED <<event, position, stackCapacity, sibling, valuesCapacity>>
    BY <1>1 DEF PosInv, TypeOK, Status, settings
  <2> QED BY <2>1, ReportKeepsPosInv
<1>2. CASE /\ Move /\ MoveToNextItem /\ json.at \in {"first", "move"}
           /\ UNCHANGED <<event, sibling, settings>>
  <2>1. Idle
    BY <1>2 DEF PlaceInv, NoCall
  <2>2. Next
    BY <1>2, <2>1 DEF MoveNext, Next
  <2> QED BY <2>2, NextPosInv
<1> QED BY <1>1, <1>2, WritingMoves

\* The record of a call that writes a text, moves or gives up.
LEMMA ContinueType ==
  ASSUME json \in JsonRecord, NEW deeper \in Int, json.depth + deeper \in Nat,
         NEW comma \in BOOLEAN
  PROVE  /\ Continue(deeper, comma) \in JsonRecord
         /\ Continue(deeper, comma).at = "move"
         /\ Continue(deeper, comma).depth = json.depth + deeper
         /\ Continue(deeper, comma).failed = json.failed
         /\ Continue(deeper, comma).mark = json.mark
<1> DEFINE d == json.depth + deeper
<1>1. Continue(deeper, comma) = [json EXCEPT !.at = "move", !.depth = d, !.wantComma = comma,
                                             !.includeName = TRUE]
  BY DEF Continue
<1> HIDE DEF d
<1>2. /\ Continue(deeper, comma) \in JsonRecord /\ Continue(deeper, comma).at = "move"
      /\ Continue(deeper, comma).depth = d /\ Continue(deeper, comma).failed = json.failed
      /\ Continue(deeper, comma).mark = json.mark
  BY <1>1 DEF JsonRecord, JsonStep, d
<1> QED BY <1>2 DEF d

\* Where an item's text has been written, the enumerator is still at it.
LEMMA TextWritten ==
  ASSUME PosInv, PlaceInv, StatusInv,
         WriteValue \/ WriteArrayBegin \/ WriteStructBegin \/ WriteEnd
  PROVE  /\ json' \in JsonRecord /\ json'.at = "move" /\ ~json'.failed /\ json'.mark = json.mark
         /\ subState' = subState /\ sibling' = sibling /\ AtItem' /\ DepthChange' = DepthChange
         /\ Nesting' = Nesting
         /\ json'.depth = json.depth + DepthChange
         /\ \/ lastError' = "SUCCESS"
            \/ subState' \in {"ArrayBegin", "StructBegin"} /\ json'.depth > 0
         /\ request' = request
<1>1. json \in JsonRecord /\ json.depth \in Nat /\ ~json.failed /\ json.at = "text" /\ AtItem
      /\ (json.depth > 0 \/ subState \in Begins)
      /\ (lastError = "SUCCESS" \/ subState \in Begins)
  BY DEF WriteValue, WriteArrayBegin, WriteStructBegin, WriteEnd, At, PlaceInv, StatusInv, JsonRecord
<1>2. /\ subState' = subState /\ sibling' = sibling /\ request' = request
      /\ top' = top /\ stack' = stack
  BY DEF WriteValue, WriteArrayBegin, WriteStructBegin, WriteEnd, Write, UNCHANGED_Enumerator,
     vars, position
<1>3. AtItem' /\ DepthChange' = DepthChange /\ Nesting' = Nesting
  BY <1>1, <1>2, NestingIs DEF AtItem, DepthChange
<1>7. ASSUME NEW change \in {-1, 0, 1}, json.depth + change \in Nat, NEW comma \in BOOLEAN,
             json' = Continue(change, comma)
      PROVE  /\ json' \in JsonRecord /\ json'.at = "move" /\ ~json'.failed /\ json'.mark = json.mark
             /\ json'.depth = json.depth + change
  BY <1>1, <1>7, ContinueType
<1>4. CASE WriteValue
  <2>1. json' = Continue(0, TRUE) /\ lastError' = "SUCCESS" /\ DepthChange = 0
    BY <1>4 DEF WriteValue, Write, DepthChange, ValueSubStates
  <2>2. json.depth + 0 \in Nat
    BY <1>1
  <2>3. /\ json' \in JsonRecord /\ json'.at = "move" /\ ~json'.failed /\ json'.mark = json.mark
        /\ json'.depth = json.depth + 0
    BY <1>7, <2>1, <2>2
  <2> QED BY <1>1, <1>2, <1>3, <2>1, <2>3
<1>5. CASE WriteArrayBegin \/ WriteStructBegin
  <2>1. json' = Continue(1, FALSE) /\ DepthChange = 1 /\ subState \in {"ArrayBegin", "StructBegin"}
    BY <1>5 DEF WriteArrayBegin, WriteStructBegin, Write, DepthChange
  <2>2. json.depth + 1 \in Nat
    BY <1>1
  <2>3. /\ json' \in JsonRecord /\ json'.at = "move" /\ ~json'.failed /\ json'.mark = json.mark
        /\ json'.depth = json.depth + 1
    BY <1>7, <2>1, <2>2
  <2>4. json'.depth > 0
    BY <1>1, <2>3
  <2> QED BY <1>1, <1>2, <1>3, <2>1, <2>3, <2>4
<1>6. CASE WriteEnd
  <2>1. /\ json' = Continue(-1, TRUE) /\ DepthChange = -1 /\ lastError' = lastError
        /\ subState \in {"ArrayEnd", "StructEnd"}
    BY <1>6 DEF WriteEnd, Write, DepthChange, UNCHANGED_Enumerator, vars
  <2>2. json.depth > 0 /\ lastError = "SUCCESS"
    BY <1>1, <2>1 DEF Begins, ValueSubStates
  <2>3. json.depth + (-1) \in Nat
    BY <1>1, <2>2
  <2> QED BY <1>1, <1>2, <1>3, <1>7, <2>1, <2>2, <2>3
<1> QED BY <1>4, <1>5, <1>6

\* What a move leaves of the call.
LEMMA MovedToNext ==
  ASSUME PosInv, PlaceInv, StatusInv, Move, MoveToNextItem, json.at \in {"first", "move"}
  PROVE  /\ json' \in JsonRecord /\ json'.depth = json.depth /\ json'.mark = json.mark
         /\ sibling' = sibling /\ output' = output /\ request' = request
         /\ MoveReported
         /\ \/ /\ json'.at = "text" /\ ~json'.failed /\ json.depth > 0 /\ returned' = TRUE
               /\ AtItem'
               /\ lastError' = "SUCCESS" \/ subState' \in Begins
            \/ /\ json'.at \in {"meta", "result"} /\ (returned' = FALSE \/ json.depth = 0)
               /\ json'.failed <=> lastError' # "SUCCESS"
               /\ json'.failed <=> subState' = "Error"
               /\ json'.at = "meta" <=> lastError' = "SUCCESS" /\ request.event
<1>1. MoveReported
  BY MoveReports
<1>2. json \in JsonRecord /\ json.depth \in Nat /\ ~json.failed
  BY DEF PlaceInv, StatusInv, JsonRecord
<1>3. sibling' = sibling /\ output' = output /\ request' = request
  BY DEF MoveToNextItem
<1>4. CASE returned' /\ json.depth > 0
  <2>1. json' = [json EXCEPT !.at = "text"]
    BY <1>4 DEF MoveToNextItem
  <2>2. /\ json' \in JsonRecord /\ json'.depth = json.depth /\ json'.mark = json.mark
        /\ json'.at = "text" /\ json'.failed = json.failed
    BY <1>2, <2>1 DEF JsonRecord, JsonStep
  <2>3. subState' \in ItemSubStates /\ (lastError' # "SUCCESS" => subState' = "ArrayBegin")
        /\ returned' = TRUE
    BY <1>1, <1>4 DEF MoveReported
  <2>4. AtItem'
    BY <2>3 DEF AtItem, ItemSubStates
  <2> QED BY <1>1, <1>2, <1>3, <1>4, <2>2, <2>3, <2>4 DEF Begins
<1>5. CASE ~ (returned' /\ json.depth > 0)
  <2> DEFINE step == IF request.event /\ lastError' = "SUCCESS" THEN "meta" ELSE "result"
             failed == subState' = "Error"
  <2>1. json' = [json EXCEPT !.at = step, !.failed = failed]
    BY <1>5 DEF MoveToNextItem, ItemsWritten
  <2>2. failed \in BOOLEAN /\ step \in {"meta", "result"}
    OBVIOUS
  <2> HIDE DEF step, failed
  <2>3. /\ json' \in JsonRecord /\ json'.depth = json.depth /\ json'.mark = json.mark
        /\ json'.at = step /\ json'.failed = failed
    BY <1>2, <2>1, <2>2 DEF JsonRecord, JsonStep
  <2>4. returned' = FALSE \/ json.depth = 0
    BY <1>1, <1>2, <1>5 DEF MoveReported
  <2>5. failed <=> lastError' # "SUCCESS"
    <3>1. CASE subState' = "Error"
      BY <1>1, <3>1 DEF MoveReported, ItemSubStates, PositionedSubStates, failed
    <3>2. CASE subState' = "AfterLastItem"
      BY <1>1, <3>2 DEF MoveReported, ItemSubStates, PositionedSubStates, failed
    <3>3. CASE subState' \in ItemSubStates
      <4>1. returned' = TRUE /\ json.depth = 0 /\ subState' # "Error"
        BY <1>1, <2>4, <3>3 DEF MoveReported, ItemSubStates, PositionedSubStates
      <4>2. json.at = "move" /\ lastError = "SUCCESS"
        BY <1>2, <4>1 DEF PlaceInv, StatusInv, At
      <4>3. lastError' = "SUCCESS"
        BY <1>1, <4>1, <4>2 DEF MoveReported
      <4> QED BY <4>1, <4>3 DEF failed
    <3> QED BY <1>1, <3>1, <3>2, <3>3 DEF MoveReported
  <2>6. /\ step = "meta" <=> lastError' = "SUCCESS" /\ request.event
        /\ failed <=> subState' = "Error"
    BY DEF step, failed
  <2> QED BY <1>1, <1>3, <2>2, <2>3, <2>4, <2>5, <2>6
<1> QED BY <1>4, <1>5

-----------------------------------------------------------------------------
(* What a step writes. *)

\* No comma, name or value is a bracket, and no opening bracket closes.
LEMMA Tokens ==
  /\ Comma \notin Openings \cup Closings
  /\ \A i : Name(i) \notin Openings \cup Closings
  /\ \A i, pos, size : Value(i, pos, size) \notin Openings \cup Closings
  /\ <<"[">> \in Openings \ Closings
  /\ <<"{">> \in Openings \ Closings
  /\ <<"meta{">> \in Openings \ Closings
  /\ <<"]">> \in Closings \ Openings
  /\ <<"}">> \in Closings \ Openings
<1>1. /\ \A token \in Openings : token[1] \in {"[", "{", "meta{"}
      /\ \A token \in Closings : token[1] \in {"]", "}"}
  BY DEF Openings, Closings
<1>2. Comma[1] = ","
  BY DEF Comma
<1>3. \A i : Name(i)[1] = "name"
  BY DEF Name
<1>4. \A i, pos, size : Value(i, pos, size)[1] = "value"
  BY DEF Value
<1>5. /\ <<"[">> \in Openings /\ <<"{">> \in Openings /\ <<"meta{">> \in Openings
      /\ <<"]">> \in Closings /\ <<"}">> \in Closings
  BY DEF Openings, Closings
<1>6. /\ <<"[">>[1] = "[" /\ <<"{">>[1] = "{" /\ <<"meta{">>[1] = "meta{"
      /\ <<"]">>[1] = "]" /\ <<"}">>[1] = "}"
  OBVIOUS
<1> QED BY <1>1, <1>2, <1>3, <1>4, <1>5, <1>6

\* A plain text.
LEMMA PlainOfFew ==
  /\ Plain(<< >>)
  /\ \A token : token \notin Openings \cup Closings => Plain(<<token>>)
<1> DEFINE none == << >>
<1>1. none \in Seq({1}) /\ Len(none) = 0
  OBVIOUS
<1> HIDE DEF none
<1>2. Range(none) = {none[k] : k \in 1 .. Len(none)}
  BY <1>1, RangeEquality
<1>3. Range(none) = {}
  BY <1>1, <1>2
<1>5. Plain(none)
  BY <1>3, TextOfFew DEF Plain, none
<1>4. ASSUME NEW token, token \notin Openings \cup Closings
      PROVE  Plain(<<token>>)
  BY <1>4, NetOfOne
<1> QED BY <1>4, <1>5 DEF none

\* What precedes an item opens nothing.
LEMMA LabelIsPlain ==
  ASSUME NEW named
  PROVE  Plain(Separator \o Label(named))
<1>1. Plain(Separator)
  BY PlainOfFew, Tokens DEF Separator
<1>2. Plain(Label(named))
  BY PlainOfFew, Tokens DEF Label
<1> QED BY <1>1, <1>2, PlainConcat

\* A plain text and a token.
LEMMA NetOfLast ==
  ASSUME NEW s, Plain(s), NEW token
  PROVE  /\ IsText(s \o <<token>>)
         /\ token \in Openings \ Closings => Net(s \o <<token>>, 1) = 1
         /\ token \in Closings \ Openings => Net(s \o <<token>>, 1) = -1
         /\ token \notin Openings \cup Closings => Net(s \o <<token>>, 1) = 0
<1>1. IsText(s) /\ IsText(<<token>>) /\ Len(s) \in Nat /\ Net(s, 1) = 0
  BY TextOfFew, TextIntro, NetOfPlain DEF Plain, IsText
<1>2. IsText(s \o <<token>>)
  BY <1>1, TextConcat
<1>3. Net(s \o <<token>>, 1) = Net(s, 1) + Net(<<token>>, 1) /\ Net(<<token>>, 1) \in Int
  BY <1>1, NetOfConcat
<1>4. Net(s \o <<token>>, 1) = Net(<<token>>, 1)
  BY <1>1, <1>3
<1>5. token \notin Openings \cup Closings => Net(<<token>>, 1) = 0
  BY NetOfOne, NetOfPlain
<1> QED BY <1>2, <1>4, <1>5, NetOfOne

\* The fields of the metadata, with commas between them.
LEMMA SeparatedIsPlain ==
  ASSUME NEW shown \in Shown \cup {<< >>}
  PROVE  Plain([k \in 1 .. 2 * Len(shown) - 1 |->
                  IF k % 2 = 1 THEN shown[(k + 1) \div 2] ELSE Comma])
<1> DEFINE f == [k \in 1 .. 2 * Len(shown) - 1 |->
                   IF k % 2 = 1 THEN shown[(k + 1) \div 2] ELSE Comma]
           S == Range(shown) \cup {Comma}
           n == IF Len(shown) = 0 THEN 0 ELSE 2 * Len(shown) - 1
<1>1. IsText(shown) /\ Range(shown) \cap (Openings \cup Closings) = {}
  BY TextsAssumption, PlainOfFew DEF IsText, Plain
<1>2. Len(shown) \in Nat /\ \A j \in 1 .. Len(shown) : shown[j] \in Range(shown)
  BY <1>1, TextIntro, RangeEquality DEF IsText
<1>3. ASSUME NEW k \in 1 .. 2 * Len(shown) - 1
      PROVE  f[k] \in S
  <2>1. (k + 1) \div 2 \in 1 .. Len(shown)
    BY <1>2, <1>3
  <2> QED BY <1>2, <2>1
<1>4. n \in Nat /\ 1 .. n = 1 .. 2 * Len(shown) - 1
  BY <1>2
<1>5. f \in [1 .. n -> S]
  BY <1>3, <1>4
<1> HIDE DEF f, S, n
<1>6. f \in Seq(S)
  BY <1>4, <1>5, SeqDef
<1>7. IsText(f) /\ Range(f) \subseteq S
  BY <1>6, TextIntro, RangeOfSeq
<1>8. S \cap (Openings \cup Closings) = {}
  BY <1>1, Tokens DEF S
<1> QED BY <1>7, <1>8 DEF Plain, f

\* The metadata opens one brace and closes it.
LEMMA MetaIsBalanced ==
  ASSUME request.shown \in Shown \cup {<< >>}
  PROVE  IsText(MetaTokens) /\ Net(MetaTokens, 1) = 0
<1> DEFINE comma == IF Len(output) # json.mark THEN <<Comma>> ELSE << >>
           f == [k \in 1 .. 2 * Len(request.shown) - 1 |->
                   IF k % 2 = 1 THEN request.shown[(k + 1) \div 2] ELSE Comma]
           s == comma \o <<<<"meta{">>>>
           t == s \o f
           brace == <<<<"}">>>>
<1>1. Plain(comma) /\ Plain(f)
  BY PlainOfFew, Tokens, SeparatedIsPlain
<1> HIDE DEF comma, f
<1>2. IsText(s) /\ Net(s, 1) = 1
  BY <1>1, NetOfLast, Tokens
<1> HIDE DEF s
<1>3. IsText(f) /\ Net(f, 1) = 0
  BY <1>1, NetOfPlain DEF Plain
<1>4. 1 <= Len(s) + 1 /\ Len(s) \in Nat
  BY <1>2, TextIntro DEF IsText
<1>5. IsText(t) /\ Net(t, 1) = 1
  BY <1>2, <1>3, <1>4, TextConcat, NetOfConcat
<1> HIDE DEF t
<1>6. IsText(brace) /\ Net(brace, 1) = -1
  BY NetOfOne, Tokens, TextOfFew
<1> HIDE DEF brace
<1>7. 1 <= Len(t) + 1 /\ Len(t) \in Nat
  BY <1>5, TextIntro DEF IsText
<1>8. IsText(t \o brace) /\ Net(t \o brace, 1) = 0
  BY <1>5, <1>6, <1>7, TextConcat, NetOfConcat
<1>9. MetaTokens = t \o brace
  BY DEF MetaTokens, t, s, f, comma, brace
<1> QED BY <1>8, <1>9

\* Every step adds a text to the output: the text of an item opens what its
\* depth says, that of the metadata closes the event.
LEMMA WritingWrites ==
  ASSUME Writing, IsText(output),
         request.prefix \in PrefixTexts \cup {<< >>}, request.shown \in Shown \cup {<< >>}
  PROVE  \E text :
           /\ IsText(text) /\ output' = output \o text
           /\ \/ WritePrefix /\ text = Append(request.prefix, <<"{">>)
              \/ /\ WriteValue \/ WriteArrayBegin \/ WriteStructBegin \/ WriteEnd
                 /\ Net(text, 1) = DepthChange
              \/ WriteMeta /\ Net(text, 1) = -1
              \/ /\ FirstMove \/ NextMove \/ ValueFails \/ OutputOutOfMemory
                 /\ text = << >> /\ output' = output
<1>1. CASE WritePrefix
  <2>1. IsText(request.prefix)
    BY TextsAssumption, TextOfFew DEF IsText
  <2>2. IsText(Append(request.prefix, <<"{">>))
    BY <2>1, TextAppend
  <2> QED BY <1>1, <2>2 DEF WritePrefix, Write
<1>2. CASE WriteValue
  <2> DEFINE label == Separator \o Label(~top.IsArray)
             value == Value(top.PropertyIndex, item.pos, item.cooked)
  <2>1. Plain(label) /\ value \notin Openings \cup Closings
    BY LabelIsPlain, Tokens
  <2>2. output' = output \o (label \o <<value>>) /\ DepthChange = 0
    BY <1>2 DEF WriteValue, Write, DepthChange, ValueSubStates
  <2> HIDE DEF label, value
  <2> QED BY <1>2, <2>1, <2>2, NetOfLast
<1>3. CASE WriteArrayBegin
  <2> DEFINE label == Separator \o Label(TRUE)
  <2>1. Plain(label)
    BY LabelIsPlain
  <2>2. output' = output \o (label \o <<<<"[">>>>) /\ DepthChange = 1
    BY <1>3 DEF WriteArrayBegin, Write, DepthChange
  <2> HIDE DEF label
  <2> QED BY <1>3, <2>1, <2>2, NetOfLast, Tokens
<1>4. CASE WriteStructBegin
  <2> DEFINE label == Separator \o Label(~top.IsArray)
  <2>1. Plain(label)
    BY LabelIsPlain
  <2>2. output' = output \o (label \o <<<<"{">>>>) /\ DepthChange = 1
    BY <1>4 DEF WriteStructBegin, Write, DepthChange
  <2> HIDE DEF label
  <2> QED BY <1>4, <2>1, <2>2, NetOfLast, Tokens
<1>5. CASE WriteEnd
  <2>1. /\ \E token \in {<<"]">>, <<"}">>} : output' = output \o <<token>>
        /\ DepthChange = -1
    BY <1>5 DEF WriteEnd, Write, DepthChange
  <2> QED BY <1>5, <2>1, NetOfOne, Tokens, TextOfFew
<1>6. CASE WriteMeta
  <2> DEFINE meta == IF request.suffix THEN MetaTokens ELSE << >>
             brace == <<<<"}">>>>
  <2>1. IsText(meta) /\ Net(meta, 1) = 0
    BY MetaIsBalanced, PlainOfFew, NetOfPlain, TextOfFew
  <2>2. output' = output \o (meta \o brace)
    BY <1>6 DEF WriteMeta, Write
  <2> HIDE DEF meta
  <2>3. 1 <= Len(meta) + 1
    BY <2>1, TextIntro DEF IsText
  <2>4. IsText(brace) /\ Net(brace, 1) = -1
    BY NetOfOne, Tokens, TextOfFew
  <2> HIDE DEF brace
  <2>5. IsText(meta \o brace) /\ Net(meta \o brace, 1) = -1
    BY <2>1, <2>3, <2>4, TextConcat, NetOfConcat
  <2> QED BY <1>6, <2>2, <2>5
<1>7. CASE FirstMove \/ NextMove \/ ValueFails \/ OutputOutOfMemory
  <2>1. output' = output
    BY <1>7 DEF FirstMove, NextMove, MoveToNextItem, ValueFails, OutputOutOfMemory, GiveUp
  <2>2. output \o << >> = output
    BY ConcatEmptySeq DEF IsText
  <2> QED BY <1>7, <2>1, <2>2, TextOfFew
<1> QED BY <1>1, <1>2, <1>3, <1>4, <1>5, <1>6, <1>7 DEF Writing

-----------------------------------------------------------------------------
(* A step of a call keeps the loop where it should be, at its level. *)

\* The arguments of a call.
RequestInv ==
    /\ request.prefix \in PrefixTexts \cup {<< >>}
    /\ request.shown \in Shown \cup {<< >>}
    /\ request.event => request.from = 0
    /\ At("prefix") => request.event

\* How a step of the loop keeps its level: the loop goes on at the level, the
\* event ends with nothing left open above it, the loop ends at the item after
\* the one it began with, or it fails.
LevelKept ==
    \/ json'.at \in {"text", "move"} /\ Level' = Level
    \/ /\ json'.at \in {"meta", "result"} /\ ~json'.failed
       /\ subState' = "AfterLastItem" /\ json'.depth = 0 - Level
    \/ /\ json'.at \in {"meta", "result"} /\ ~json'.failed
       /\ subState' \in ItemSubStates /\ json'.depth = 0 /\ Nesting' = Level
    \/ json'.at = "result" /\ json'.failed

\* The nesting of what follows the current item.
LEMMA NestingFacts ==
  ASSUME PosInv
  PROVE  /\ Nesting \in Nat /\ DepthChange \in {-1, 0, 1}
         /\ AtItem => Nesting + DepthChange \in Nat
         /\ subState = "BeforeFirstItem" => Nesting = 0 /\ DepthChange = 0
<1>1. stack \in Seq(StackEntry) /\ OuterNesting(stack) \in Nat
  BY OuterNestingType DEF PosInv, TypeOK
<1>2. Nesting \in Nat
  BY <1>1, NestingType
<1>3. DepthChange \in {-1, 0, 1} /\ (DepthChange = -1 => subState \in {"ArrayEnd", "StructEnd"})
  BY DEF DepthChange
<1>4. ASSUME AtItem PROVE Nesting + DepthChange \in Nat
  <2>1. CASE subState = "ArrayEnd"
    <3>1. top.IsArray
      BY <1>4, <2>1, AtItemFacts DEF ItemOK
    <3>2. Nesting = OuterNesting(stack) + 1
      BY <2>1, <3>1, NestingIs DEF LeftBegins, One
    <3> QED BY <1>1, <1>3, <3>2
  <2>2. CASE subState = "StructEnd"
    <3>1. Nesting = OuterNesting(stack) + (1 + One(top.IsArray))
      BY <2>2, NestingIs DEF LeftBegins
    <3>2. One(top.IsArray) \in {0, 1}
      BY DEF One
    <3> QED BY <1>1, <1>3, <3>1, <3>2
  <2>3. CASE subState \notin {"ArrayEnd", "StructEnd"}
    BY <1>2, <1>3, <2>3
  <2> QED BY <2>1, <2>2, <2>3
<1>5. ASSUME subState = "BeforeFirstItem" PROVE Nesting = 0 /\ DepthChange = 0
  <2>1. event \in Events
    BY <1>5 DEF PosInv, TypeOK
  <2>2. stack = << >>
    BY <1>5, <2>1, EventsAssumption DEF PosInv, PositionOK
  <2>3. OuterNesting(stack) = 0
    BY <2>2, OuterNestingOfNone
  <2> QED BY <1>5, <2>3, NestingIs DEF LeftBegins, DepthChange
<1> QED BY <1>2, <1>3, <1>4, <1>5

\* The steps of the loop.
LEMMA LoopKeepsLevel ==
  ASSUME PosInv, PosInv', PlaceInv, StatusInv, Writing, json.at \in {"first", "text", "move"},
         PlaceInv'
  PROVE  LevelKept
<1>1. /\ json.depth \in Nat /\ json'.depth \in Nat
      /\ Nesting \in Nat /\ DepthChange \in {-1, 0, 1}
  BY NestingFacts DEF PlaceInv, JsonRecord
<1>2. CASE FirstMove \/ NextMove
  <2>1. Move /\ MoveToNextItem /\ json.at \in {"first", "move"}
    BY <1>2 DEF FirstMove, NextMove, MoveToNextItem, At
  <2>2. json.at = "first" => DepthChange = 0
    BY NestingFacts DEF PlaceInv
  <2>3. Level = (Nesting + DepthChange) - json.depth
    BY <1>1, <2>1, <2>2 DEF Level, At
  <2>4. json'.depth = json.depth /\ MoveReported
    BY <2>1, MovedToNext
  <2>5. CASE json'.at = "text"
    <3>1. returned' = TRUE
      BY <2>1, <2>5, MovedToNext
    <3>2. Nesting' = Nesting + DepthChange
      BY <2>1, <3>1, MoveNesting
    <3>3. Level' = Nesting' + 0 - json'.depth
      BY <2>5 DEF Level, At
    <3> QED BY <1>1, <2>3, <2>4, <2>5, <3>2, <3>3 DEF LevelKept
  <2>6. CASE json'.at # "text"
    <3>1. /\ json'.at \in {"meta", "result"} /\ (returned' = FALSE \/ json.depth = 0)
          /\ json'.failed <=> subState' = "Error"
          /\ json'.failed <=> lastError' # "SUCCESS"
          /\ json'.at = "meta" => lastError' = "SUCCESS"
      BY <2>1, <2>6, MovedToNext
    <3>2. CASE subState' = "Error"
      BY <3>1, <3>2 DEF LevelKept
    <3>3. CASE subState' = "AfterLastItem"
      <4>1. Nesting + DepthChange = 0
        BY <2>4, <3>3 DEF MoveReported, ItemSubStates, PositionedSubStates
      <4>2. json'.depth = 0 - Level
        BY <1>1, <2>3, <2>4, <4>1
      <4>3. ~json'.failed
        BY <3>1, <3>3
      <4> QED BY <3>1, <3>3, <4>2, <4>3 DEF LevelKept
    <3>4. CASE subState' \in ItemSubStates
      <4>1. returned' = TRUE /\ Nesting' = Nesting + DepthChange /\ ~json'.failed
        BY <2>4, <3>1, <3>4 DEF MoveReported, ItemSubStates, PositionedSubStates
      <4>2. json'.depth = 0 /\ Nesting' = Level
        BY <1>1, <2>3, <2>4, <3>1, <4>1
      <4> QED BY <3>1, <3>4, <4>1, <4>2 DEF LevelKept
    <3> QED BY <2>4, <3>2, <3>3, <3>4 DEF MoveReported
  <2> QED BY <2>5, <2>6
<1>3. CASE WriteValue \/ WriteArrayBegin \/ WriteStructBegin \/ WriteEnd
  <2>1. /\ json'.at = "move" /\ DepthChange' = DepthChange /\ Nesting' = Nesting
        /\ json'.depth = json.depth + DepthChange
    BY <1>3, TextWritten
  <2>2. json.at = "text"
    BY <1>3 DEF WriteValue, WriteArrayBegin, WriteStructBegin, WriteEnd, At
  <2>3. Level = Nesting + 0 - json.depth
    BY <2>2 DEF Level, At
  <2>4. Level' = Nesting' + DepthChange' - json'.depth
    BY <2>1 DEF Level, At
  <2>5. Level' = Level
    BY <1>1, <2>1, <2>3, <2>4
  <2> QED BY <2>1, <2>5 DEF LevelKept
<1>4. CASE ValueFails \/ OutputOutOfMemory
  <2>1. json' = [json EXCEPT !.at = "result", !.failed = TRUE]
    BY <1>4 DEF ValueFails, OutputOutOfMemory, GiveUp
  <2> QED BY <2>1 DEF LevelKept, PlaceInv, JsonRecord
<1>5. CASE WritePrefix \/ WriteMeta
  BY <1>5 DEF WritePrefix, WriteMeta, At
<1> QED BY <1>2, <1>3, <1>4, <1>5 DEF Writing

\* A step leaves the loop at an item, before the first one, or at its end.
LEMMA WritingKeepsPlaceInv ==
  ASSUME PosInv, PlaceInv, StatusInv, RequestInv, Writing
  PROVE  /\ PlaceInv' /\ StatusInv' /\ RequestInv'
         /\ json'.at \notin {"idle", "prefix", "done"}
<1>1. json \in JsonRecord /\ ~NoCall /\ Idle
  BY DEF Writing, WritePrefix, FirstMove, NextMove, WriteValue, WriteArrayBegin,
     WriteStructBegin, WriteEnd, ValueFails, OutputOutOfMemory, WriteMeta, At, PlaceInv, NoCall
<1>2. CASE WritePrefix
  <2> DEFINE n == Len(request.prefix) + 1
  <2>1. /\ json' = [json EXCEPT !.at = "first", !.depth = 1, !.includeName = TRUE, !.mark = n]
        /\ request' = request /\ subState' = subState /\ sibling' = sibling
        /\ json.at = "prefix" /\ subState = "BeforeFirstItem" /\ ~json.failed
    BY <1>2 DEF WritePrefix, Write, UNCHANGED_Enumerator, vars, position, At, PlaceInv, StatusInv
  <2>2. n \in Nat
    <3>1. IsText(request.prefix)
      BY TextsAssumption, TextOfFew DEF IsText, RequestInv
    <3> QED BY <3>1, TextIntro DEF IsText
  <2> HIDE DEF n
  <2>3. json' \in JsonRecord /\ json'.at = "first" /\ json'.depth = 1 /\ ~json'.failed
    BY <1>1, <2>1, <2>2 DEF JsonRecord, JsonStep
  <2> QED BY <1>1, <2>1, <2>3 DEF PlaceInv, StatusInv, RequestInv, NoCall, Idle, At
<1>3. CASE FirstMove \/ NextMove
  <2>1. Move /\ MoveToNextItem /\ json.at \in {"first", "move"}
    BY <1>3 DEF FirstMove, NextMove, MoveToNextItem, At
  <2>2. /\ json' \in JsonRecord /\ json'.depth = json.depth
        /\ sibling' = sibling /\ request' = request
        /\ \/ /\ json'.at = "text" /\ ~json'.failed /\ json.depth > 0
              /\ AtItem'
              /\ lastError' = "SUCCESS" \/ subState' \in Begins
           \/ /\ json'.at \in {"meta", "result"}
              /\ json'.failed <=> lastError' # "SUCCESS"
              /\ json'.at = "meta" => lastError' = "SUCCESS"
    BY <2>1, MovedToNext
  <2> QED BY <1>1, <2>2 DEF PlaceInv, StatusInv, RequestInv, NoCall, Idle, At
<1>4. CASE WriteValue \/ WriteArrayBegin \/ WriteStructBegin \/ WriteEnd
  <2>1. /\ json' \in JsonRecord /\ json'.at = "move" /\ ~json'.failed
        /\ sibling' = sibling /\ AtItem' /\ request' = request
        /\ \/ lastError' = "SUCCESS"
           \/ subState' \in {"ArrayBegin", "StructBegin"} /\ json'.depth > 0
    BY <1>4, TextWritten
  <2> QED BY <1>1, <2>1 DEF PlaceInv, StatusInv, RequestInv, NoCall, Idle, At
<1>5. CASE ValueFails \/ OutputOutOfMemory
  <2>1. /\ json' = [json EXCEPT !.at = "result", !.failed = TRUE]
        /\ lastError' # "SUCCESS" /\ sibling' = sibling /\ request' = request
    BY <1>5 DEF ValueFails, OutputOutOfMemory, GiveUp
  <2>2. json' \in JsonRecord /\ json'.at = "result" /\ json'.failed
    BY <1>1, <2>1 DEF JsonRecord, JsonStep
  <2> QED BY <1>1, <2>1, <2>2 DEF PlaceInv, StatusInv, RequestInv, NoCall, Idle, At
<1>6. CASE WriteMeta
  <2>1. /\ json' = [json EXCEPT !.at = "result"] /\ json.at = "meta"
        /\ lastError' = "SUCCESS" /\ sibling' = sibling /\ request' = request
    BY <1>6 DEF WriteMeta, Write, At
  <2>2. json' \in JsonRecord /\ json'.at = "result" /\ ~json'.failed
    BY <1>1, <2>1 DEF JsonRecord, JsonStep, StatusInv
  <2> QED BY <1>1, <2>1, <2>2 DEF PlaceInv, StatusInv, RequestInv, NoCall, Idle, At
<1> QED BY <1>2, <1>3, <1>4, <1>5, <1>6 DEF Writing

-----------------------------------------------------------------------------
(* The text, the level and the brackets. *)

TextInv ==
    /\ IsText(output) /\ json.mark \in 0 .. Len(output)
    /\ At("prefix") => output = << >>
    /\ json.at \in {"first", "text", "move", "meta"} => Len(request.prefix) <= Len(output)

\* A call made before the first item is at a level below every item's: it ends
\* with the event.
LevelInv ==
    /\ json.at \in {"first", "text", "move"} =>
         IF request.from = 0 THEN Level = -1 ELSE Level \in Nat
    /\ At("meta") => request.event /\ json.depth = 1 /\ subState = "AfterLastItem"
    /\ json.at \in {"result", "done"} /\ ~json.failed /\ request.from = 0 =>
         subState = "AfterLastItem"

\* What the loop counts in depth and does not write: FormatCurrentItem...
\* starts at depth 1 before the first item.
Unwritten == IF request.from = 0 /\ ~request.event THEN 1 ELSE 0

BracketInv ==
    /\ At("result") => OpenBrackets \in Nat
    /\ json.at \in {"first", "text", "move", "meta"} => OpenBrackets = json.depth - Unwritten
    /\ json.at \in {"result", "done"} /\ ~json.failed => OpenBrackets = 0

ResultInv == At("done") => (returned <=> ~json.failed)

CallInv == PosInv /\ PlaceInv /\ StatusInv /\ RequestInv

JsonInv == CallInv /\ TextInv /\ LevelInv /\ BracketInv /\ ResultInv

\* A step of a call changes what the first part says.
LEMMA WritingKeepsCallInv ==
  ASSUME CallInv, Writing
  PROVE  CallInv' /\ json'.at \notin {"idle", "prefix", "done"} /\ request' = request
<1>1. CallInv' /\ json'.at \notin {"idle", "prefix", "done"}
  BY WritingKeepsPosInv, WritingKeepsPlaceInv DEF CallInv
<1>2. request' = request
  BY DEF Writing, WritePrefix, FirstMove, NextMove, MoveToNextItem, WriteValue, WriteArrayBegin,
     WriteStructBegin, WriteEnd, ValueFails, OutputOutOfMemory, WriteMeta, GiveUp, Write
<1> QED BY <1>1, <1>2

\* What has been written stays, and so does the place where the event's text
\* starts.
LEMMA WritingKeepsTextInv ==
  ASSUME CallInv, TextInv, Writing
  PROVE  TextInv'
<1>1. CallInv' /\ json'.at \notin {"idle", "prefix", "done"} /\ request' = request
  BY WritingKeepsCallInv
<1>2. json.mark \in Nat /\ Len(output) \in Nat /\ IsText(output)
  BY TextIntro DEF TextInv, IsText
<1>3. PICK text :
        /\ IsText(text) /\ output' = output \o text
        /\ \/ WritePrefix /\ text = Append(request.prefix, <<"{">>)
           \/ WriteValue \/ WriteArrayBegin \/ WriteStructBegin \/ WriteEnd
           \/ WriteMeta
           \/ FirstMove \/ NextMove \/ ValueFails \/ OutputOutOfMemory
  BY WritingWrites DEF CallInv, RequestInv, TextInv
<1>4. IsText(output') /\ Len(output') = Len(output) + Len(text) /\ Len(text) \in Nat
  BY <1>2, <1>3, TextConcat
<1>5. IsText(request.prefix) /\ Len(request.prefix) \in Nat
  <2>1. IsText(request.prefix)
    BY TextsAssumption, TextOfFew DEF IsText, CallInv, RequestInv
  <2> QED BY <2>1, TextIntro DEF IsText
<1>6. CASE WritePrefix /\ text = Append(request.prefix, <<"{">>)
  <2>1. output = << >> /\ Len(output) = 0
    BY <1>6, TextOfFew DEF WritePrefix, At, TextInv
  <2>2. Len(text) = Len(request.prefix) + 1
    BY <1>5, <1>6, TextAppend
  <2>3. json'.mark = Len(request.prefix) + 1
    BY <1>6 DEF WritePrefix, Write, CallInv, PlaceInv, JsonRecord
  <2> QED BY <1>1, <1>4, <1>5, <2>1, <2>2, <2>3 DEF TextInv, At
<1>7. ASSUME json'.mark = json.mark,
             json.at \in {"first", "text", "move", "meta"} \/ json'.at = "result"
      PROVE  TextInv'
  <2>1. json.at \in {"first", "text", "move", "meta"} => Len(request.prefix) <= Len(output)
    BY DEF TextInv
  <2>2. json'.mark \in 0 .. Len(output')
    BY <1>2, <1>4, <1>7 DEF TextInv
  <2> QED BY <1>1, <1>2, <1>4, <1>5, <1>7, <2>1, <2>2 DEF TextInv, At
<1>8. CASE FirstMove \/ NextMove
  <2>1. Move /\ MoveToNextItem /\ json.at \in {"first", "move"}
    BY <1>8 DEF FirstMove, NextMove, MoveToNextItem, At
  <2>2. json'.mark = json.mark
    BY <2>1, MovedToNext DEF CallInv
  <2> QED BY <1>7, <2>1, <2>2
<1>9. CASE WriteValue \/ WriteArrayBegin \/ WriteStructBegin \/ WriteEnd
  <2>1. json'.mark = json.mark
    BY <1>9, TextWritten DEF CallInv
  <2>2. json.at = "text"
    BY <1>9 DEF WriteValue, WriteArrayBegin, WriteStructBegin, WriteEnd, At
  <2> QED BY <1>7, <2>1, <2>2
<1>10. CASE ValueFails \/ OutputOutOfMemory \/ WriteMeta
  <2>1. json'.mark = json.mark /\ json'.at = "result"
    BY <1>10 DEF ValueFails, OutputOutOfMemory, WriteMeta, GiveUp, Write, CallInv, PlaceInv,
       JsonRecord
  <2> QED BY <1>7, <2>1
<1> QED BY <1>3, <1>6, <1>8, <1>9, <1>10

\* OpenBrackets is the net of the output beyond the prefix, before a step and
\* after it.
LEMMA OpenBracketsIs ==
  /\ OpenBrackets = Net(output, Len(request.prefix) + 1)
  /\ OpenBrackets' = Net(output', Len(request'.prefix) + 1)
BY DEF OpenBrackets, Net

\* The nesting that a step leaves.
LEMMA NestingAfter ==
  ASSUME PosInv'
  PROVE  Nesting' \in Nat /\ (subState' = "BeforeFirstItem" => Nesting' = 0)
<1>1. stack' \in Seq(StackEntry) /\ OuterNesting(stack') \in Nat
  BY OuterNestingType DEF PosInv, TypeOK
<1>2. Nesting' \in Nat
  BY <1>1, NestingIs DEF LeftBegins, One
<1>3. ASSUME subState' = "BeforeFirstItem" PROVE Nesting' = 0
  <2>1. event' \in Events
    BY <1>3 DEF PosInv, TypeOK
  <2>2. stack' = << >>
    BY <1>3, <2>1, EventsAssumption DEF PosInv, PositionOK
  <2>3. OuterNesting(stack') = 0
    BY <2>2, OuterNestingOfNone
  <2> QED BY <1>3, <2>3, NestingIs DEF LeftBegins
<1> QED BY <1>2, <1>3

\* The metadata is written at the end of an event.
LEMMA MetaIsForEvents ==
  ASSUME CallInv, Writing, json.at \in {"first", "text", "move"}, ~json'.failed,
         json'.at \in {"meta", "result"}
  PROVE  json'.at = "meta" <=> request.event
<1>1. CASE FirstMove \/ NextMove
  <2>1. Move /\ MoveToNextItem
    BY <1>1 DEF FirstMove, NextMove, MoveToNextItem
  <2>2. /\ json'.failed <=> lastError' # "SUCCESS"
        /\ json'.at = "meta" <=> lastError' = "SUCCESS" /\ request.event
    BY <1>1, <2>1, MovedToNext DEF FirstMove, NextMove, At, CallInv
  <2> QED BY <2>2
<1>2. CASE WriteValue \/ WriteArrayBegin \/ WriteStructBegin \/ WriteEnd
  BY <1>2, TextWritten DEF CallInv
<1>3. CASE ValueFails \/ OutputOutOfMemory
  BY <1>3 DEF ValueFails, OutputOutOfMemory, GiveUp, CallInv, PlaceInv, JsonRecord
<1>4. CASE WritePrefix \/ WriteMeta
  BY <1>4 DEF WritePrefix, WriteMeta, At
<1> QED BY <1>1, <1>2, <1>3, <1>4 DEF Writing

\* The level stays until the loop ends, where it is the item's or the event's.
LEMMA WritingKeepsLevelInv ==
  ASSUME CallInv, LevelInv, Writing
  PROVE  LevelInv'
<1>1. CallInv' /\ json'.at \notin {"idle", "prefix", "done"} /\ request' = request
  BY WritingKeepsCallInv
<1>2. CASE json.at \in {"first", "text", "move"}
  <2>1. LevelKept
    BY <1>1, <1>2, LoopKeepsLevel DEF CallInv
  <2>2. IF request.from = 0 THEN Level = -1 ELSE Level \in Nat
    BY <1>2 DEF LevelInv
  <2>3. CASE json'.at \in {"text", "move"} /\ Level' = Level
    BY <1>1, <2>2, <2>3 DEF LevelInv, At
  <2>4. CASE /\ json'.at \in {"meta", "result"} /\ ~json'.failed
             /\ subState' = "AfterLastItem" /\ json'.depth = 0 - Level
    <3>1. json'.at = "meta" => request.event
      BY <1>2, <2>4, MetaIsForEvents
    <3>2. json'.at = "meta" => json'.depth = 1
      BY <2>2, <2>4, <3>1 DEF CallInv, RequestInv
    <3> QED BY <1>1, <2>4, <3>1, <3>2 DEF LevelInv, At
  <2>5. CASE /\ json'.at \in {"meta", "result"} /\ ~json'.failed
             /\ subState' \in ItemSubStates /\ json'.depth = 0 /\ Nesting' = Level
    <3>1. Nesting' \in Nat
      BY <1>1, NestingAfter DEF CallInv
    <3>2. request.from # 0 /\ ~request.event
      BY <2>2, <2>5, <3>1 DEF CallInv, RequestInv
    <3>3. json'.at # "meta"
      BY <1>2, <2>5, <3>2, MetaIsForEvents
    <3> QED BY <1>1, <2>5, <3>2, <3>3 DEF LevelInv, At
  <2>6. CASE json'.at = "result" /\ json'.failed
    BY <1>1, <2>6 DEF LevelInv, At
  <2> QED BY <2>1, <2>3, <2>4, <2>5, <2>6 DEF LevelKept
<1>3. CASE WritePrefix
  <2>1. json'.at = "first" /\ json'.depth = 1 /\ subState' = "BeforeFirstItem"
        /\ request.event /\ request.from = 0
    BY <1>3 DEF WritePrefix, Write, UNCHANGED_Enumerator, vars, position, At, CallInv,
       PlaceInv, RequestInv, JsonRecord
  <2>2. Level' = 0 + 0 - 1
    BY <1>1, <2>1, NestingAfter DEF Level, At, CallInv
  <2> QED BY <1>1, <2>1, <2>2 DEF LevelInv, At
<1>4. CASE WriteMeta
  <2>1. json'.at = "result" /\ subState' = "AfterLastItem"
    BY <1>4 DEF WriteMeta, Write, At, position, CallInv, PlaceInv, JsonRecord, LevelInv
  <2> QED BY <2>1 DEF LevelInv, At
<1>5. CASE OutputOutOfMemory
  <2>1. json'.at = "result" /\ json'.failed
    BY <1>5 DEF OutputOutOfMemory, GiveUp, CallInv, PlaceInv, JsonRecord
  <2> QED BY <2>1 DEF LevelInv, At
<1>6. \/ json.at \in {"first", "text", "move"} \/ WritePrefix \/ WriteMeta \/ OutputOutOfMemory
  BY DEF Writing, FirstMove, NextMove, WriteValue, WriteArrayBegin, WriteStructBegin, WriteEnd,
     ValueFails, At
<1> QED BY <1>2, <1>3, <1>4, <1>5, <1>6

\* What has been opened is never less than what has been closed.
LEMMA NothingUnopened ==
  ASSUME CallInv, TextInv, LevelInv, BracketInv, ~NoCall
  PROVE  OpenBrackets \in Nat
<1>1. json \in JsonRecord /\ json.depth \in Nat /\ Nesting \in Nat /\ DepthChange \in {-1, 0, 1}
  BY NestingFacts DEF CallInv, PlaceInv, JsonRecord
<1>2. CASE json.at \in {"first", "text", "move"}
  <2>1. request.from = 0 => json.depth >= 1
    <3> SUFFICES ASSUME Level = -1 PROVE json.depth >= 1
      BY <1>2 DEF LevelInv
    <3>1. CASE At("move")
      <4>1. Nesting + DepthChange \in Nat
        BY <3>1, NestingFacts DEF At, CallInv, PlaceInv
      <4>2. Nesting + DepthChange - json.depth = -1
        BY <3>1 DEF Level
      <4> QED BY <1>1, <4>1, <4>2
    <3>2. CASE ~At("move")
      <4>1. Nesting + 0 - json.depth = -1
        BY <3>2 DEF Level
      <4> QED BY <1>1, <4>1
    <3> QED BY <3>1, <3>2
  <2>2. OpenBrackets = json.depth - Unwritten
    BY <1>2 DEF BracketInv
  <2> QED BY <1>1, <2>1, <2>2 DEF Unwritten
<1>3. CASE At("meta")
  <2>1. OpenBrackets = 1 - 0
    BY <1>3 DEF BracketInv, LevelInv, Unwritten, At
  <2> QED BY <2>1
<1>4. CASE At("prefix")
  <2>1. output = << >> /\ IsText(request.prefix)
    BY <1>4, TextsAssumption, TextOfFew DEF TextInv, CallInv, RequestInv, IsText
  <2>2. IsText(output) /\ Len(output) = 0 /\ Len(request.prefix) \in Nat
    BY <2>1, TextIntro, TextOfFew DEF IsText
  <2>3. Net(output, Len(request.prefix) + 1) = 0
    BY <2>2, NetBeyond
  <2> QED BY <2>3, OpenBracketsIs
<1>5. CASE At("result")
  BY <1>5 DEF BracketInv
<1> QED BY <1>1, <1>2, <1>3, <1>4, <1>5 DEF NoCall, JsonRecord, JsonStep, At

\* What a step opens, it counts in depth.
LEMMA WritingKeepsBracketInv ==
  ASSUME CallInv, TextInv, LevelInv, BracketInv, Writing
  PROVE  BracketInv'
<1> DEFINE first == Len(request.prefix) + 1
<1>1. CallInv' /\ json'.at \notin {"idle", "prefix", "done"} /\ request' = request /\ LevelInv'
  BY WritingKeepsCallInv, WritingKeepsLevelInv
<1>2. /\ json.depth \in Nat /\ json'.depth \in Nat /\ Unwritten \in {0, 1}
      /\ Unwritten' = Unwritten /\ ~NoCall
  BY <1>1 DEF CallInv, PlaceInv, JsonRecord, Unwritten, Writing, WritePrefix, FirstMove, NextMove,
     WriteValue, WriteArrayBegin, WriteStructBegin, WriteEnd, ValueFails, OutputOutOfMemory,
     WriteMeta, At, NoCall
<1>3. OpenBrackets \in Nat
  BY <1>2, NothingUnopened
<1>4. IsText(request.prefix) /\ Len(request.prefix) \in Nat /\ first \in Nat \ {0}
  <2>1. IsText(request.prefix)
    BY TextsAssumption, TextOfFew DEF IsText, CallInv, RequestInv
  <2> QED BY <2>1, TextIntro DEF IsText
<1>5. PICK text :
        /\ IsText(text) /\ output' = output \o text
        /\ \/ WritePrefix /\ text = Append(request.prefix, <<"{">>)
           \/ /\ WriteValue \/ WriteArrayBegin \/ WriteStructBegin \/ WriteEnd
              /\ Net(text, 1) = DepthChange
           \/ WriteMeta /\ Net(text, 1) = -1
           \/ /\ FirstMove \/ NextMove \/ ValueFails \/ OutputOutOfMemory
              /\ text = << >> /\ output' = output
  BY WritingWrites DEF CallInv, RequestInv, TextInv
<1> HIDE DEF first
<1>6. ASSUME json.at \in {"first", "text", "move", "meta"}
      PROVE  OpenBrackets' = OpenBrackets + Net(text, 1) /\ Net(text, 1) \in Int
  <2>1. IsText(output) /\ Len(output) \in Nat /\ first <= Len(output) + 1
    BY <1>4, <1>6, TextIntro DEF TextInv, IsText, first
  <2>2. /\ Net(output \o text, first) = Net(output, first) + Net(text, 1)
        /\ Net(text, 1) \in Int
    BY <1>4, <1>5, <2>1, NetOfConcat
  <2> QED BY <1>1, <1>5, <2>2, OpenBracketsIs DEF first
<1>7. CASE WritePrefix /\ text = Append(request.prefix, <<"{">>)
  <2> DEFINE brace == <<<<"{">>>>
  <2>1. output = << >> /\ json'.at = "first" /\ json'.depth = 1 /\ request.event
    BY <1>7 DEF WritePrefix, Write, At, TextInv, CallInv, PlaceInv, RequestInv, JsonRecord
  <2>2. text = request.prefix \o brace
    BY <1>4, <1>7, TextAppend
  <2>3. IsText(brace) /\ Net(brace, 1) = 1
    BY TextOfFew, NetOfOne, Tokens
  <2> HIDE DEF brace
  <2>4. Net(request.prefix, first) = 0
    BY <1>4, NetBeyond DEF first
  <2>5. Net(request.prefix \o brace, first) = Net(request.prefix, first) + Net(brace, 1)
    BY <1>4, <2>3, NetOfConcat DEF first
  <2>6. output' = text
    <3>1. << >> \o text = text
      BY <1>5, ConcatEmptySeq DEF IsText
    <3> QED BY <1>5, <2>1, <3>1
  <2>7. OpenBrackets' = 1
    BY <1>1, <2>2, <2>3, <2>4, <2>5, <2>6, OpenBracketsIs DEF first
  <2>8. Unwritten' = 0
    BY <1>2, <2>1 DEF Unwritten
  <2> QED BY <2>1, <2>7, <2>8 DEF BracketInv, At
<1>8. CASE /\ WriteValue \/ WriteArrayBegin \/ WriteStructBegin \/ WriteEnd
           /\ Net(text, 1) = DepthChange
  <2>1. json.at = "text"
    BY <1>8 DEF WriteValue, WriteArrayBegin, WriteStructBegin, WriteEnd, At
  <2>2. json'.at = "move" /\ json'.depth = json.depth + DepthChange
    BY <1>8, TextWritten DEF CallInv
  <2>3. OpenBrackets = json.depth - Unwritten
    BY <2>1 DEF BracketInv
  <2>4. OpenBrackets' = json'.depth - Unwritten
    BY <1>2, <1>6, <1>8, <2>1, <2>2, <2>3
  <2> QED BY <1>2, <2>2, <2>4 DEF BracketInv, At
<1>9. CASE WriteMeta /\ Net(text, 1) = -1
  <2>1. json.at = "meta" /\ json'.at = "result"
    BY <1>9 DEF WriteMeta, Write, At, CallInv, PlaceInv, JsonRecord
  <2>2. OpenBrackets = 1
    BY <2>1 DEF BracketInv, LevelInv, Unwritten, At
  <2>3. OpenBrackets' = 0
    BY <1>6, <1>9, <2>1, <2>2
  <2> QED BY <2>1, <2>3 DEF BracketInv, At
<1>10. CASE (FirstMove \/ NextMove) /\ output' = output
  <2>1. json.at \in {"first", "move"} /\ Move /\ MoveToNextItem
    BY <1>10 DEF FirstMove, NextMove, MoveToNextItem, At
  <2>2. json'.depth = json.depth /\ OpenBrackets' = OpenBrackets
    BY <1>1, <1>10, <2>1, MovedToNext, OpenBracketsIs DEF CallInv
  <2>3. OpenBrackets = json.depth - Unwritten
    BY <2>1 DEF BracketInv
  <2>4. ASSUME json'.at = "result", ~json'.failed PROVE OpenBrackets' = 0
    <3>1. LevelKept
      BY <1>1, <2>1, LoopKeepsLevel DEF CallInv
    <3>2. ~request.event
      BY <2>1, <2>4, MetaIsForEvents
    <3>3. IF request.from = 0 THEN Level = -1 ELSE Level \in Nat
      BY <2>1 DEF LevelInv
    <3>4. CASE json'.depth = 0 - Level
      BY <1>2, <2>2, <2>3, <3>2, <3>3, <3>4 DEF Unwritten
    <3>5. CASE json'.depth = 0 /\ Nesting' = Level
      <4>1. Nesting' \in Nat
        BY <1>1, NestingAfter DEF CallInv
      <4>2. request.from # 0
        BY <3>3, <3>5, <4>1
      <4>3. Unwritten = 0
        BY <4>2 DEF Unwritten
      <4> QED BY <2>2, <2>3, <3>5, <4>3
    <3> QED BY <2>4, <3>1, <3>4, <3>5 DEF LevelKept
  <2> QED BY <1>1, <1>2, <1>3, <2>2, <2>3, <2>4 DEF BracketInv, At
<1>11. CASE (ValueFails \/ OutputOutOfMemory) /\ output' = output
  <2>1. json'.at = "result" /\ json'.failed
    BY <1>11 DEF ValueFails, OutputOutOfMemory, GiveUp, CallInv, PlaceInv, JsonRecord
  <2>2. OpenBrackets' = OpenBrackets
    BY <1>1, <1>11, OpenBracketsIs
  <2> QED BY <1>3, <2>1, <2>2 DEF BracketInv, At
<1> QED BY <1>5, <1>7, <1>8, <1>9, <1>10, <1>11

-----------------------------------------------------------------------------
(* The other steps. *)

\* Nothing has been written where no call is under way, or at its start.
LEMMA NoJsonFacts ==
  /\ NoJson \in JsonRecord /\ NoJson.at = "idle" /\ ~NoJson.failed /\ NoJson.mark = 0
  /\ NoRequest.event = FALSE /\ NoRequest.prefix = << >> /\ NoRequest.shown = << >>
  /\ NoRequest.from = 0
BY DEF NoJson, JsonRecord, JsonStep, NoRequest

\* The initial state.
LEMMA InitJsonInv == JsonInit => JsonInv
<1> SUFFICES ASSUME JsonInit PROVE JsonInv
  OBVIOUS
<1>1. PosInv
  BY InitIInv DEF JsonInit, IInv
<1>2. output = << >> /\ json = NoJson /\ request = NoRequest
  BY DEF JsonInit
<1>3. IsText(output) /\ Len(output) = 0
  BY <1>2, TextOfFew
<1> QED BY <1>1, <1>2, <1>3, NoJsonFacts DEF JsonInv, CallInv, PlaceInv, StatusInv, RequestInv,
       TextInv, LevelInv, BracketInv, ResultInv, NoCall, At

\* So after any other operation.
LEMMA OwnerKeepsJsonInv ==
  ASSUME JsonInv, Owner
  PROVE  JsonInv'
<1>1. PosInv'
  BY NextPosInv DEF Owner, JsonInv, CallInv
<1>2. output' = << >> /\ json' = NoJson /\ request' = NoRequest
  BY DEF Owner
<1>3. IsText(output') /\ Len(output') = 0
  BY <1>2, TextOfFew
<1> QED BY <1>1, <1>2, <1>3, NoJsonFacts DEF JsonInv, CallInv, PlaceInv, StatusInv, RequestInv,
       TextInv, LevelInv, BracketInv, ResultInv, NoCall, At

\* A place in the list of items is none of the numbers before it.
LEMMA PlaceIs ==
  /\ subState = "BeforeFirstItem" => Place = 0
  /\ AtItem => Place # 0
<1>1. subState = "BeforeFirstItem" => Place = 0
  BY DEF Place
<1>2. AtItem => Place # 0
  BY DEF Place, AtItem, PositionedSubStates, Lost
<1> QED BY <1>1, <1>2

\* A call for an item, or before the first one.
LEMMA ItemCallKeepsJsonInv ==
  ASSUME JsonInv, NEW name \in BOOLEAN, FormatCurrentItemAsJsonAndMoveNextSibling(name)
  PROVE  JsonInv'
<1> DEFINE before == subState = "BeforeFirstItem"
           from == Place
<1>1. /\ Idle /\ ~sibling'.running /\ UNCHANGED <<event, position, stackCapacity, sibling, settings>>
      /\ subState' = subState /\ returned' = returned /\ lastError' = lastError
      /\ output' = << >>
  BY DEF FormatCurrentItemAsJsonAndMoveNextSibling, Callable, Idle, UNCHANGED_Enumerator, vars,
     position
<1>2. PosInv'
  <2>1. /\ lastError' \in Status /\ returned' \in BOOLEAN /\ pointerSizeFallback' \in {4, 8}
        /\ UNCHANGED <<event, position, stackCapacity, sibling, valuesCapacity>>
    BY <1>1 DEF JsonInv, CallInv, PosInv, TypeOK, settings
  <2> QED BY <2>1, ReportKeepsPosInv DEF JsonInv, CallInv
<1>3. /\ before \/ (AtItem /\ subState \in Begins)
      /\ before => ~AtItem /\ subState \notin Begins
  <2>1. subState \in ValueSubStates \cup {"BeforeFirstItem", "ArrayBegin", "StructBegin"}
    BY DEF FormatCurrentItemAsJsonAndMoveNextSibling
  <2>2. CASE subState = "BeforeFirstItem"
    BY <2>2 DEF AtItem, Begins, ValueSubStates
  <2>3. CASE subState # "BeforeFirstItem"
    BY <2>1, <2>3 DEF AtItem, Begins, ValueSubStates, PositionedSubStates
  <2> QED BY <2>2, <2>3
<1>4. /\ request' = [NoRequest EXCEPT !.name = name, !.from = from]
      /\ before => from = 0
      /\ ~before => from # 0
  BY <1>3, PlaceIs DEF FormatCurrentItemAsJsonAndMoveNextSibling
<1> HIDE DEF from
<1>5. /\ request'.event = FALSE /\ request'.prefix = << >> /\ request'.shown = << >>
      /\ request'.from = from
  BY <1>4 DEF NoRequest
<1>6. /\ json' \in JsonRecord /\ ~json'.failed /\ json'.mark = 0
      /\ before => json'.at = "first" /\ json'.depth = 1
      /\ ~before => json'.at = "text" /\ json'.depth = 0
  BY DEF FormatCurrentItemAsJsonAndMoveNextSibling, NoJson, JsonRecord, JsonStep
<1>7. /\ Nesting' \in Nat /\ (before => Nesting' = 0)
  BY <1>1, <1>2, NestingAfter
<1>8. Level' = Nesting' + 0 - json'.depth
  BY <1>6 DEF Level, At
<1>9. IsText(output') /\ Len(output') = 0 /\ Len(request'.prefix) = 0
  BY <1>1, <1>5, TextOfFew
<1>10. OpenBrackets' = 0
  <2>1. Net(output', 1) = 0
    BY <1>9, NetBeyond
  <2> QED BY <1>9, <2>1, OpenBracketsIs
<1>11. CallInv'
  BY <1>1, <1>2, <1>3, <1>4, <1>5, <1>6 DEF CallInv, PlaceInv, StatusInv, RequestInv, NoCall, Idle,
     At, AtItem
<1>12. TextInv'
  BY <1>5, <1>6, <1>9 DEF TextInv, At
<1>13. LevelInv'
  BY <1>4, <1>5, <1>6, <1>7, <1>8 DEF LevelInv, At
<1>14. BracketInv'
  BY <1>4, <1>5, <1>6, <1>10 DEF BracketInv, At, Unwritten
<1>15. ResultInv'
  BY <1>6 DEF ResultInv, At
<1> QED BY <1>11, <1>12, <1>13, <1>14, <1>15 DEF JsonInv

\* A call for the event starts from its beginning.
LEMMA EventCallKeepsJsonInv ==
  ASSUME JsonInv, NEW prefix \in PrefixTexts, NEW suffix \in BOOLEAN,
         NEW shown \in Shown \cup {<< >>}, FormatCurrentEventAsJson(prefix, suffix, shown)
  PROVE  JsonInv'
<1>1. /\ event \in Events /\ item \in Item /\ top \in StackEntry /\ ~sibling.running
  BY DEF FormatCurrentEventAsJson, Callable, Idle, JsonInv, CallInv, PosInv, TypeOK
<1>2. /\ PosInv' /\ subState' = "BeforeFirstItem" /\ sibling' = sibling
  <2>1. Reset
    BY <1>1 DEF FormatCurrentEventAsJson, Reset, Idle
  <2>2. PosInv'
    BY <2>1, ResetKeepsIInv DEF JsonInv, CallInv, IInv
  <2> QED BY <2>1, <2>2 DEF Reset, ResetImpl
<1>3. json' = [NoJson EXCEPT !.at = "prefix"] /\ output' = << >>
  BY DEF FormatCurrentEventAsJson
<1>4. json' \in JsonRecord /\ json'.at = "prefix" /\ ~json'.failed /\ json'.mark = 0
  BY <1>3 DEF NoJson, JsonRecord, JsonStep
<1>5. request'.event = TRUE /\ request'.prefix = prefix /\ request'.shown = shown /\ request'.from = 0
  BY DEF FormatCurrentEventAsJson
<1>6. IsText(output') /\ Len(output') = 0
  BY <1>3, TextOfFew
<1> QED BY <1>1, <1>2, <1>3, <1>4, <1>5, <1>6 DEF JsonInv, CallInv, PlaceInv, StatusInv, RequestInv,
       TextInv, LevelInv, BracketInv, ResultInv, NoCall, At, Idle

\* The result of a call tells whether it failed.
LEMMA ResultKeepsJsonInv ==
  ASSUME JsonInv, StringViewResult
  PROVE  JsonInv'
<1>1. /\ json \in JsonRecord /\ At("result") /\ (json.failed <=> lastError # "SUCCESS")
      /\ ~sibling.running
  BY DEF StringViewResult, JsonInv, CallInv, PlaceInv, StatusInv, At, NoCall, Idle
<1>2. /\ UNCHANGED <<event, position, stackCapacity, sibling, settings, output, request>>
      /\ subState' = subState
  BY DEF StringViewResult, position
<1>3. /\ json' \in JsonRecord /\ json'.at = "done" /\ json'.mark = json.mark
      /\ returned' \in BOOLEAN /\ lastError' \in Status
      /\ returned' <=> ~json'.failed
      /\ ~json'.failed => ~json.failed
  <2>1. lastError \in Status
    BY DEF JsonInv, CallInv, PosInv, TypeOK
  <2>2. CASE /\ returned' = (lastError = "SUCCESS") /\ UNCHANGED lastError
             /\ json' = [json EXCEPT !.at = "done"]
    BY <1>1, <2>1, <2>2 DEF JsonRecord, JsonStep
  <2>3. CASE /\ lastError = "SUCCESS" /\ returned' = FALSE /\ lastError' = "OUTOFMEMORY"
             /\ json' = [json EXCEPT !.at = "done", !.failed = TRUE]
    BY <1>1, <2>3 DEF JsonRecord, JsonStep, Status
  <2> QED BY <2>2, <2>3 DEF StringViewResult
<1>4. PosInv'
  BY <1>2, <1>3, ReportKeepsPosInv DEF JsonInv, CallInv, PosInv, TypeOK, settings
<1>5. OpenBrackets' = OpenBrackets
  BY <1>2, OpenBracketsIs
<1>6. CallInv'
  BY <1>1, <1>2, <1>3, <1>4 DEF JsonInv, CallInv, PlaceInv, StatusInv, RequestInv, NoCall, At
<1>7. TextInv' /\ LevelInv' /\ BracketInv' /\ ResultInv'
  BY <1>1, <1>2, <1>3, <1>5 DEF JsonInv, TextInv, LevelInv, BracketInv, ResultInv, At
<1> QED BY <1>6, <1>7 DEF JsonInv

\* Every step.
LEMMA NextJsonInv == JsonInv /\ [JsonNext]_allVars => JsonInv'
<1> SUFFICES ASSUME JsonInv, [JsonNext]_allVars PROVE JsonInv'
  OBVIOUS
<1>1. CASE Writing
  <2>1. CallInv' /\ json'.at # "done"
    BY <1>1, WritingKeepsCallInv DEF JsonInv
  <2>2. TextInv' /\ LevelInv' /\ BracketInv'
    BY <1>1, WritingKeepsTextInv, WritingKeepsLevelInv, WritingKeepsBracketInv DEF JsonInv
  <2> QED BY <2>1, <2>2 DEF JsonInv, ResultInv, At
<1>2. CASE UNCHANGED allVars
  <2>1. UNCHANGED <<vars, output, json, request>>
    BY <1>2 DEF allVars, jsonVars
  <2>2. PosInv'
    BY <2>1, NextPosInv DEF JsonInv, CallInv
  <2>3. /\ event' = event /\ top' = top /\ stack' = stack /\ subState' = subState
        /\ lastError' = lastError /\ returned' = returned /\ sibling' = sibling
    BY <2>1 DEF vars, position
  <2>4. Nesting' = Nesting /\ Level' = Level
    BY <2>1, <2>3 DEF Nesting, Level, At, DepthChange
  <2>5. OpenBrackets' = OpenBrackets
    BY <2>1, OpenBracketsIs
  <2>6. CallInv'
    BY <2>1, <2>2, <2>3 DEF JsonInv, CallInv, PlaceInv, StatusInv, RequestInv, NoCall, At, Idle,
       AtItem
  <2> QED BY <2>1, <2>3, <2>4, <2>5, <2>6 DEF JsonInv, TextInv, LevelInv, BracketInv, ResultInv, At,
         Unwritten
<1>3. CASE \E name \in BOOLEAN : FormatCurrentItemAsJsonAndMoveNextSibling(name)
  BY <1>3, ItemCallKeepsJsonInv
<1>4. CASE \E prefix \in PrefixTexts, shown \in Shown : FormatCurrentEventAsJson(prefix, TRUE, shown)
  BY <1>4, EventCallKeepsJsonInv
<1>5. CASE \E prefix \in PrefixTexts : FormatCurrentEventAsJson(prefix, FALSE, << >>)
  BY <1>5, EventCallKeepsJsonInv
<1> QED BY <1>1, <1>2, <1>3, <1>4, <1>5, OwnerKeepsJsonInv, ResultKeepsJsonInv
        DEF JsonNext, Formatting, Writing

-----------------------------------------------------------------------------
(* What the invariant gives. *)

\* A call never leaves the states that JsonInv describes.
THEOREM JsonInvariance == JsonSpec => []JsonInv
<1> QED BY InitJsonInv, NextJsonInv, PTL DEF JsonSpec

\* The types, of the enumerator too, whose position a call moves; and the loop
\* of AddCurrentItemAsJsonAndMoveNext is at an item whenever it writes one.
THEOREM JsonTypes == JsonSpec => []JsonTypeOK
<1>1. ASSUME JsonInv PROVE JsonTypeOK
  <2>1. json \in JsonRecord /\ json.mark \in 0 .. Len(output) /\ TypeOK
    BY <1>1 DEF JsonInv, CallInv, PlaceInv, TextInv, PosInv
  <2>2. NeverAtNoItem
    BY <1>1 DEF JsonInv, CallInv, PlaceInv, NeverAtNoItem, At
  <2> QED BY <2>1, <2>2 DEF JsonTypeOK, JsonRecord
<1> QED BY <1>1, JsonInvariance, PTL

\* A call returns FALSE exactly when a step of it failed: m_lastError, which an
\* earlier call and every step share, tells it apart at the end.
THEOREM JsonFailures == JsonSpec => []JsonFailsForCause
<1>1. JsonInv => JsonFailsForCause
  BY DEF JsonInv, ResultInv, JsonFailsForCause
<1> QED BY <1>1, JsonInvariance, PTL

\* A call made before the first item, or for the event, that succeeds has left
\* no item unwritten.
THEOREM EventsAreWritten == JsonSpec => []EventIsWritten
<1>1. JsonInv => EventIsWritten
  BY DEF JsonInv, ResultInv, LevelInv, EventIsWritten, Returned, At
<1> QED BY <1>1, JsonInvariance, PTL

\* Every bracket that a call opens is closed when it returns, whatever the event
\* nests, and none is closed that it did not open.
THEOREM BracketsAreMatched == JsonSpec => []BracketsMatch
<1>1. ASSUME JsonInv PROVE BracketsMatch
  <2>1. Returned => OpenBrackets = 0
    BY <1>1 DEF JsonInv, ResultInv, BracketInv, Returned, At
  <2>2. ~NoCall => OpenBrackets \in Nat
    BY <1>1, NothingUnopened DEF JsonInv
  <2> QED BY <2>1, <2>2 DEF BracketsMatch
<1> QED BY <1>1, JsonInvariance, PTL

\* depth counts what is open above the nesting at which the call is to end, at
\* every step of the loop.
THEOREM JsonLevels == JsonSpec => JsonKeepsLevel
<1> DEFINE Kept == json.at \in {"first", "text", "move"} =>
                     Level' = Level \/ subState' = "AfterLastItem" \/ json'.failed
<1>1. ASSUME JsonInv, JsonNext PROVE Kept
  <2> SUFFICES ASSUME json.at \in {"first", "text", "move"}
               PROVE  Level' = Level \/ subState' = "AfterLastItem" \/ json'.failed
    OBVIOUS
  <2>1. Writing
    <3>1. ~Owner /\ ~StringViewResult
      BY DEF Owner, StringViewResult, NoCall, At
    <3>2. \A name : ~FormatCurrentItemAsJsonAndMoveNextSibling(name)
      BY DEF FormatCurrentItemAsJsonAndMoveNextSibling, Callable, NoCall
    <3>3. \A prefix, suffix, shown : ~FormatCurrentEventAsJson(prefix, suffix, shown)
      BY DEF FormatCurrentEventAsJson, Callable, NoCall
    <3> QED BY <1>1, <3>1, <3>2, <3>3 DEF JsonNext, Formatting, Writing
  <2>2. CallInv /\ CallInv'
    BY <1>1, <2>1, WritingKeepsCallInv DEF JsonInv
  <2>3. LevelKept
    BY <2>1, <2>2, LoopKeepsLevel DEF CallInv
  <2>4. ASSUME json'.at \in {"meta", "result"}, json'.depth = 0, Nesting' = Level
        PROVE  Level' = Level
    <3>1. Nesting' \in Nat
      BY <2>2, NestingAfter DEF CallInv
    <3>2. Level' = Nesting' + 0 - 0
      BY <2>4 DEF Level, At
    <3> QED BY <2>4, <3>1, <3>2
  <2> QED BY <2>3, <2>4 DEF LevelKept
<1>2. JsonInv /\ [JsonNext]_allVars => [Kept]_allVars
  BY <1>1
<1>3. JsonSpec => [][Kept]_allVars
  BY <1>2, JsonInvariance, PTL DEF JsonSpec
<1> QED BY <1>3 DEF JsonKeepsLevel

\* While a call moves the enumerator, MoveNext's asserts hold, the stack follows
\* the tei and what is written lies in the payload, as when its owner moves it.
THEOREM JsonItems == JsonSpec => []ItemsStated
<1>1. JsonInv => ItemsStated
  BY PosInvStates DEF JsonInv, CallInv
<1> QED BY <1>1, JsonInvariance, PTL

=============================================================================

--------------------------- MODULE EtwFormat_proofs ---------------------------
(***************************************************************************)
(* Proofs about formatting with a message: for every set of events, of     *)
(* messages, prefixes and parameter messages, whatever they refer to, a    *)
(* call keeps the enumerator's position, the scratch buffer, the InUse     *)
(* flags and m_lastError right while nested calls share them.              *)
(*                                                                         *)
(* FormatInv says, for every step of a call:                               *)
(*   LoopInv       the position is one that the moves allow, and the loop  *)
(*                 that writes JSON is as it says of itself;               *)
(*   StageInv      what has been decided before the step is reached;       *)
(*   PropsInv      the properties collected so far are the first ones of   *)
(*                 the event, and the enumerator is at the next one;       *)
(*   BufferInv     what was in the output before the message still is,     *)
(*                 and the scratch buffer is empty where it is given back; *)
(*   FrameInv      the texts in the scratch buffer follow one another;     *)
(*   UseInv        the properties in use are those being expanded;         *)
(*   SpaceInv      a space of the message that has just been passed is the *)
(*                 end of the output;                                      *)
(*   JsonLevelInv  a property in the message that is written as JSON is    *)
(*                 at the top level, where the loop ends.                  *)
(* The steps are taken one by one, in the order of a call; those that only *)
(* differ in what they write share a lemma.                                *)
(***************************************************************************)
EXTENDS EtwFormat, EtwJson_proofs

-----------------------------------------------------------------------------
(* Texts. *)

\* The start of a text.
LEMMA TextPrefix ==
  ASSUME NEW s, IsText(s), NEW n \in 0 .. Len(s)
  PROVE  /\ IsText(SubSeq(s, 1, n)) /\ Len(SubSeq(s, 1, n)) = n
         /\ \A k \in 1 .. n : SubSeq(s, 1, n)[k] = s[k]
<1> DEFINE p == SubSeq(s, 1, n)
           S == Range(s)
<1>1. Len(s) \in Nat /\ s \in Seq(S)
  BY TextIntro DEF IsText
<1>2. n \in Nat /\ n <= Len(s)
  BY <1>1
<1>3. \A k \in 1 .. n : s[k] \in S
  BY <1>1, <1>2, ElementOfSeq
<1>4. /\ p \in Seq(S)
      /\ Len(p) = IF 1 <= n THEN n - 1 + 1 ELSE 0
      /\ \A k \in 1 .. n - 1 + 1 : p[k] = s[1 + k - 1]
  BY <1>2, <1>3, SubSeqProperties
<1> HIDE DEF p, S
<1>5. \A k \in 1 .. n : k \in 1 .. n - 1 + 1 /\ 1 + k - 1 = k
  BY <1>2
<1>6. Len(p) = n /\ IsText(p)
  BY <1>2, <1>4, TextIntro
<1>7. \A k \in 1 .. n : p[k] = s[k]
  BY <1>4, <1>5
<1> QED BY <1>6, <1>7 DEF p

\* Texts that hold the same are the same.
LEMMA TextsEqual ==
  ASSUME NEW s, NEW t, IsText(s), IsText(t), Len(s) = Len(t), \A k \in 1 .. Len(s) : s[k] = t[k]
  PROVE  s = t
<1> DEFINE S == Range(s) \cup Range(t)
<1>1. s \in Seq(S) /\ t \in Seq(S)
  BY SeqMonotonic DEF IsText
<1> HIDE DEF S
<1> QED BY <1>1, SeqEqual

\* The start of a text that has become longer.
LEMMA PrefixOfLonger ==
  ASSUME NEW s, NEW t, IsText(s), IsText(t), NEW n \in 0 .. Len(s)
  PROVE  /\ IsText(s \o t) /\ Len(s \o t) \in Nat /\ Len(s) \in Nat /\ Len(s) <= Len(s \o t)
         /\ SubSeq(s \o t, 1, n) = SubSeq(s, 1, n)
<1> DEFINE u == s \o t
<1>1. /\ IsText(u) /\ Len(u) = Len(s) + Len(t) /\ Len(s) \in Nat /\ Len(t) \in Nat
      /\ \A k \in 1 .. Len(s) : u[k] = s[k]
  BY TextConcat
<1> HIDE DEF u
<1>2. n \in 0 .. Len(u) /\ \A k \in 1 .. n : k \in 1 .. Len(s)
  BY <1>1
<1>3. /\ IsText(SubSeq(s, 1, n)) /\ Len(SubSeq(s, 1, n)) = n
      /\ \A k \in 1 .. n : SubSeq(s, 1, n)[k] = s[k]
  BY TextPrefix
<1>4. /\ IsText(SubSeq(u, 1, n)) /\ Len(SubSeq(u, 1, n)) = n
      /\ \A k \in 1 .. n : SubSeq(u, 1, n)[k] = u[k]
  BY <1>1, <1>2, TextPrefix
<1>5. SubSeq(u, 1, n) = SubSeq(s, 1, n)
  BY <1>1, <1>2, <1>3, <1>4, TextsEqual
<1> QED BY <1>1, <1>5 DEF u

\* A text that a function gives.
LEMMA TextOfFunction ==
  ASSUME NEW n \in Nat, NEW S, NEW f \in [1 .. n -> S]
  PROVE  IsText(f) /\ Len(f) = n
<1>1. f \in Seq(S) /\ DOMAIN f = 1 .. n
  BY SeqDef
<1>2. IsText(f) /\ Len(f) \in Nat /\ DOMAIN f = 1 .. Len(f)
  BY <1>1, TextIntro
<1> QED BY <1>1, <1>2

\* Without nul.
Nulless(s) == IsText(s) /\ \A k \in 1 .. Len(s) : s[k] # Nul

\* The text without its line ends is the start of it: there is a longest one that
\* ends with something else, or is empty.
LEMMA TrimmedText ==
  ASSUME NEW s, Nulless(s)
  PROVE  Nulless(Trimmed(s))
<1> DEFINE IsKept(n) == n = 0 \/ s[n] # LineEnd
           Right(n) == IsKept(n) /\ \A m \in n + 1 .. Len(s) : ~IsKept(m)
           n == CHOOSE n \in 0 .. Len(s) : Right(n)
           T == {Len(s) - m : m \in {k \in 0 .. Len(s) : IsKept(k)}}
<1>1. Len(s) \in Nat
  BY TextIntro DEF Nulless, IsText
<1>2. \E m \in 0 .. Len(s) : Right(m)
  <2>1. T \in SUBSET Nat
    BY <1>1
  <2>2. Len(s) - 0 \in T
    BY <1>1
  <2>3. PICK x \in T : \A y \in T : x <= y
    BY <2>1, <2>2, LeastElement
  <2>4. PICK m \in 0 .. Len(s) : IsKept(m) /\ x = Len(s) - m
    OBVIOUS
  <2>5. ASSUME NEW k \in m + 1 .. Len(s), IsKept(k) PROVE FALSE
    <3>1. k \in 0 .. Len(s)
      BY <1>1
    <3>2. Len(s) - k \in T
      BY <2>5, <3>1
    <3>3. x <= Len(s) - k
      BY <2>3, <3>2
    <3> QED BY <1>1, <2>4, <3>1, <3>3
  <2> QED BY <2>4, <2>5
<1> HIDE DEF Right
<1>3. n \in 0 .. Len(s)
  BY <1>2
<1>4. Trimmed(s) = SubSeq(s, 1, n)
  BY DEF Trimmed, Right
<1> HIDE DEF n
<1>5. IsText(SubSeq(s, 1, n)) /\ Len(SubSeq(s, 1, n)) = n
      /\ \A k \in 1 .. n : SubSeq(s, 1, n)[k] = s[k]
  BY <1>3, TextPrefix DEF Nulless
<1>6. \A k \in 1 .. n : k \in 1 .. Len(s)
  BY <1>1, <1>3
<1> QED BY <1>4, <1>5, <1>6 DEF Nulless

-----------------------------------------------------------------------------
(* The stage of the call. *)

FormatRecord ==
    [at: FormatStep, message: BOOLEAN, trailing: {InitialRecursionLimit, MaxRecursionLimit},
     mark: Nat, start: Nat, hurt: BOOLEAN,
     rendering: [index: Nat, printf: BOOLEAN, back: Nat]]

CallRecord ==
    [kind: {"None", "Prefix", "Message", "Event"}, prefix: PrefixFormats \cup {<< >>},
     message: Messages \cup {NoMessage}, suffix: BOOLEAN, shown: Shown \cup {<< >>}]

\* The part of a message that is being expanded, to its end or to an array or struct in it.
InExpansion == Expanding \/ (FormatAt("json") /\ frames # << >>)

\* The enumerator and the loop that writes JSON.
LoopInv ==
    /\ CallInv
    /\ ~FormatAt("json") => json = NoJson
    /\ FormatAt("json") => /\ json.at \in {"first", "text", "move", "meta", "result"}
                           /\ lastError # "MR_MID_NOT_FOUND"

AtStart == subState = "BeforeFirstItem" /\ top.PropertyIndex = 0 /\ lastError = "SUCCESS"
AtTop   == stack = << >> /\ top.PropertyEnd = event.tei.TopLevelPropertyCount

StageInv ==
    /\ format \in FormatRecord
    /\ call \in CallRecord
    /\ ~NoFormatting => event # NoEvent /\ call.kind # "None"
    /\ call.kind = "Message" => call.message # NoMessage
    /\ ~NoFormatting /\ (FormatAt("firstItem") \/ format.message) =>
         call.message # NoMessage /\ call.kind # "Prefix"
    /\ FormatAt("asJson") \/ FormatAt("retry") => call.kind = "Event"
    /\ FormatAt("prefix") => ~format.message /\ format.trailing = MaxRecursionLimit
    /\ FormatAt("retry") => format.message /\ ~format.rendering.printf
    /\ FormatAt("properties") => format.message
    /\ sibling.running => FormatAt("properties") \/ NoFormatting
    /\ format.at \in {"firstItem", "asJson"} => AtStart
    /\ format.at \in {"prefix", "expand"} /\ ~format.message /\ call.kind # "Prefix" => AtStart
    /\ FormatAt("properties") \/ (Expanding /\ format.message) => lastError = "SUCCESS"
    /\ Expanding /\ format.message => AtTop
    /\ format.rendering.printf => format.at \in {"json", "result", "done"}
    /\ format.hurt => format.at \in {"result", "done"} /\ lastError # "SUCCESS"
    /\ FormatAt("done") => (returned <=> lastError = "SUCCESS")

-----------------------------------------------------------------------------
(* The properties. *)

RootOf(t, stk) == IF stk = << >> THEN t.PropertyIndex ELSE stk[1].PropertyIndex

PropInfo ==
    [type: {"field", "value", "json"}, index: Nat, pos: Nat, size: Nat, inType: InType,
     inUse: BOOLEAN]

\* A property that is written as JSON is read again from where it starts.
Readable(pi) ==
    pi.type = "json" => /\ format.message
                        /\ pi.index < event.tei.TopLevelPropertyCount
                        /\ pi.pos <= Len(event.UserData)

PropsInv ==
    /\ FormatAt("properties") \/ InExpansion =>
         props \in Seq(PropInfo) /\ \A n \in DOMAIN props : Readable(props[n])
    /\ FormatAt("properties") =>
         /\ \A n \in DOMAIN props : ~props[n].inUse
         /\ Len(props) <= event.tei.TopLevelPropertyCount
         /\ Idle /\ Len(props) = event.tei.TopLevelPropertyCount => subState = "AfterLastItem"
         /\ Idle /\ Len(props) < event.tei.TopLevelPropertyCount =>
              AtItem /\ stack = << >> /\ Nesting = 0 /\ top.PropertyIndex = Len(props)
         /\ sibling.running =>
              /\ AtItem /\ Nesting = sibling.depth /\ RootOf(top, stack) = Len(props)
              /\ Len(props) < event.tei.TopLevelPropertyCount
              /\ format.start <= Len(event.UserData)

-----------------------------------------------------------------------------
(* The buffers and the frames. *)

\* While a property is written as JSON for printf, the buffers have changed places.
Swapped    == format.rendering.printf
OutputNow  == IF Swapped THEN scratch ELSE output
ScratchNow == IF Swapped THEN SubSeq(output, 1, format.rendering.back) ELSE scratch

BufferInv ==
    /\ IsText(output) /\ IsText(scratch)
    /\ format.mark <= Len(OutputNow)
    /\ Swapped => format.rendering.back <= Len(output)
    /\ format.at \in {"prefix", "firstItem", "properties", "asJson"} =>
         frames = << >> /\ scratch = << >>
    /\ FormatAt("json") /\ frames = << >> => scratch = << >> /\ ~Swapped
    /\ format.at \in {"result", "done"} /\ lastError = "SUCCESS" => scratch = << >>

FrameRecord ==
    [inScratch: BOOLEAN, text: Messages \cup {NoMessage} \cup PrefixFormats \cup {<< >>},
     i: Nat \ {0}, limit: 0 .. InitialRecursionLimit, back: Nat, index: Nat]

\* Where the part of frame k in the scratch buffer ends.
EndOf(fs, scr, k) == IF k = Len(fs) THEN Len(scr) ELSE fs[k + 1].back

\* Its part, nul-terminated, is read up to the nul.
NestedOK(fs, scr, k) ==
    /\ fs[k].inScratch /\ fs[k].text = << >> /\ fs[k].limit < InitialRecursionLimit
    /\ fs[k].i \in fs[k].back + 1 .. EndOf(fs, scr, k)
    /\ \A i \in fs[k].back + 1 .. EndOf(fs, scr, k) : scr[i] = Nul <=> i = EndOf(fs, scr, k)

OuterOK(f, source, isPrefix) ==
    /\ ~f.inScratch /\ f.text = source /\ f.back = 0 /\ f.index = 0
    /\ isPrefix => f.limit = 0

\* The parts follow one another, those of the outer frames first.
FramesOK(fs, scr, source, isPrefix) ==
    /\ fs \in Seq(FrameRecord) /\ fs # << >>
    /\ OuterOK(fs[1], source, isPrefix) /\ EndOf(fs, scr, 1) = 0
    /\ \A k \in 2 .. Len(fs) : NestedOK(fs, scr, k)
    /\ \A k \in 1 .. Len(fs) : fs[k].back <= Len(scr) /\ \A j \in 1 .. k : fs[j].back <= fs[k].back

Source == IF format.message THEN call.message ELSE call.prefix

FrameInv ==
    InExpansion => /\ FramesOK(frames, ScratchNow, Source, ~format.message)
                   /\ ~format.message => format.trailing = MaxRecursionLimit

\* The properties in use are those that the frames and more expand, each by one of them.
IndexesOf(fs) == {fs[k].index : k \in 1 .. Len(fs)}

UsesOK(fs, ps, more) ==
    /\ \A j, k \in 1 .. Len(fs) : j # k /\ fs[j].index = fs[k].index => fs[j].index = 0
    /\ more \cap IndexesOf(fs) = {}
    /\ {n \in 1 .. Len(ps) : ps[n].inUse} = (IndexesOf(fs) \cup more) \ {0}

Rendering == IF Expanding THEN {} ELSE {format.rendering.index}

UseInv == InExpansion => UsesOK(frames, props, Rendering) /\ Rendering \subseteq 1 .. Len(props)

\* A space that the message has, and the outer frame has passed, is the last token.
SpaceInv ==
    /\ InExpansion /\ frames[1].i > 1 /\ frames[1].i - 1 \in DOMAIN Source
    /\ Source[frames[1].i - 1] = Space
    => /\ Expanding /\ Len(frames) = 1
       /\ Len(output) > format.mark /\ output[Len(output)] = Space

\* A property that is written as JSON is at the top level, and so is what follows it.
JsonLevelInv ==
    FormatAt("json") /\ frames # << >> =>
      /\ format.message
      /\ json.at \in {"text", "move", "result"}
      /\ ~request.event
      /\ json.at \in {"text", "move"} => Level = 0
      /\ At("result") /\ ~json.failed => AtTop

FormatInv ==
    LoopInv /\ StageInv /\ PropsInv /\ BufferInv /\ FrameInv /\ UseInv /\ SpaceInv /\ JsonLevelInv

-----------------------------------------------------------------------------
(* Top-level properties. *)

\* Nothing is left open where m_stack is empty, and nowhere else.
LEMMA NoOuterNesting ==
  ASSUME NEW stk \in Seq(StackEntry)
  PROVE  OuterNesting(stk) \in Nat /\ (OuterNesting(stk) = 0 <=> stk = << >>)
<1>1. OuterNesting(stk) = Len(stk) + Cardinality(InArrays(stk))
      /\ IsFiniteSet(InArrays(stk)) /\ OuterNesting(stk) \in Nat
  BY OuterNestingType
<1>2. Cardinality(InArrays(stk)) \in Nat
  BY <1>1, FS_CardinalityType
<1>3. stk # << >> => Len(stk) >= 1
  OBVIOUS
<1>4. stk = << >> => OuterNesting(stk) = 0
  BY OuterNestingOfNone
<1> QED BY <1>1, <1>2, <1>3, <1>4

\* NextProperty stays below the top-level property for which it is called.
LEMMA NextPropertyRoot ==
  ASSUME NEW t \in StackEntry, NEW stk \in Seq(StackEntry), NEW p, NextProperty(t, p, stk)
  PROVE  RootOf(top', stack') = RootOf(t, stk)
<1>1. CASE EnumerationEnds(t, p, stk)
  BY <1>1 DEF EnumerationEnds, AtPosition, RootOf
<1>2. CASE StructEnds(t, p, stk)
  <2> DEFINE rest == SubSeq(stk, 1, Len(stk) - 1)
  <2>1. stk # << >> /\ top' = stk[Len(stk)] /\ stack' = rest
    BY <1>2 DEF StructEnds, AtPosition
  <2>2. /\ rest \in Seq(StackEntry) /\ Len(stk) = Len(rest) + 1
        /\ \A k \in 1 .. Len(rest) : stk[k] = rest[k]
    BY <2>1, WithoutLast
  <2> HIDE DEF rest
  <2>3. CASE rest = << >>
    <3>1. Len(stk) = 1
      BY <2>2, <2>3
    <3> QED BY <2>1, <2>3, <3>1 DEF RootOf
  <2>4. CASE rest # << >>
    <3>1. 1 \in 1 .. Len(rest)
      BY <2>2, <2>4
    <3> QED BY <2>1, <2>2, <2>4, <3>1 DEF RootOf
  <2> QED BY <2>3, <2>4
<1>3. CASE PropertyStarts(t, p, stk)
  <2> DEFINE epi == Property(t)
             struct == "Struct" \in epi.Flags
  <2>1. \E count, isArray : /\ top' = [t EXCEPT !.ArrayIndex = 0, !.ArrayCount = count,
                                                !.IsArray = isArray, !.IsStruct = struct]
                            /\ stack' = stk
    BY <1>3 DEF PropertyStarts, AtPosition
  <2> HIDE DEF struct
  <2>2. top'.PropertyIndex = t.PropertyIndex
    BY <2>1 DEF StackEntry
  <2> QED BY <2>1, <2>2 DEF RootOf
<1> QED BY <1>1, <1>2, <1>3 DEF NextProperty

\* So the top-level property is the next one when what it holds has been left.
LEMMA MoveRoot ==
  ASSUME PosInv, Move, subState' # "Error"
  PROVE  RootOf(top', stack') = RootOf(top, stack) + One(AtItem /\ Nesting + DepthChange = 0)
<1> DEFINE here == RootOf(top, stack)
           there == RootOf(top', stack')
           over == AtItem /\ Nesting + DepthChange = 0
<1>1. Positioned
  BY DEF Move, LeaveBeforeFirstItem, LeaveScalar, LeaveSimpleArrayElement,
     LeaveComplexArrayElement, LeaveArrayBegin, LeaveArrayEnd, LeaveStructBegin,
     LeaveStructBeginOutOfMemory, LeaveStructEnd, Positioned, PositionedSubStates
<1>2. /\ Ready /\ top \in StackEntry /\ stack \in Seq(StackEntry)
      /\ OuterNesting(stack) \in Nat /\ (OuterNesting(stack) = 0 <=> stack = << >>)
  BY <1>1, PositionedFacts, NoOuterNesting
<1>3. subState # "BeforeFirstItem" => AtItem /\ ItemOK(event, dataNext, item, top, subState)
  BY <1>1, AtItemFacts DEF AtItem, Positioned
<1>4. /\ NextIndex(top) \in StackEntry
      /\ NextIndex(top).PropertyIndex = top.PropertyIndex + 1
  BY <1>2, NextIndexFacts
<1>5. subState \notin {"BeforeFirstItem", "ArrayBegin", "ArrayEnd"} =>
        /\ NextElement(top) \in StackEntry /\ NextElement(top).IsArray = top.IsArray
        /\ NextElement(top).PropertyIndex = top.PropertyIndex
  BY <1>2, <1>3, NextElementFacts DEF ItemOK
<1>6. here \in Nat
  <2>1. stack # << >> => stack[1] \in StackEntry
    BY <1>2
  <2> QED BY <1>2, <2>1 DEF RootOf, StackEntry
<1>7. RootOf(NextIndex(top), stack) = here + One(stack = << >>)
  BY <1>4, <1>6 DEF RootOf, One
<1>8. subState # "Error"
  BY <1>1 DEF Positioned, PositionedSubStates
<1>9. (over /\ there = here + 1) \/ (~over /\ there = here)
  <2>1. CASE LeaveBeforeFirstItem
    <3>1. ~over /\ NextProperty(top, dataNext, stack)
      BY <2>1 DEF LeaveBeforeFirstItem, AtItem
    <3> QED BY <1>2, <3>1, NextPropertyRoot
  <2>2. CASE LeaveScalar
    <3>1. subState = "Value_Scalar" /\ NextProperty(NextIndex(top), dataNext + item.raw, stack)
      BY <2>2 DEF LeaveScalar
    <3>2. over <=> stack = << >>
      BY <1>2, <1>3, <3>1, NestingIs DEF LeftBegins, DepthChange
    <3>3. there = here + One(stack = << >>)
      BY <1>2, <1>4, <1>7, <3>1, NextPropertyRoot
    <3> QED BY <1>6, <3>2, <3>3 DEF One
  <2>3. CASE LeaveSimpleArrayElement \/ LeaveComplexArrayElement
    <3>1. /\ subState \in {"Value_SimpleArrayElement", "Value_ComplexArrayElement"}
          /\ stack' = stack /\ top' = NextElement(top)
      BY <2>3 DEF LeaveSimpleArrayElement, LeaveComplexArrayElement, AtPosition, ArrayEnds
    <3>2. top.IsArray
      BY <1>3, <3>1 DEF ItemOK
    <3>3. ~over
      BY <1>2, <3>1, <3>2, NestingIs DEF LeftBegins, DepthChange, One
    <3>4. there = here
      BY <1>5, <3>1 DEF RootOf
    <3> QED BY <3>3, <3>4
  <2>4. CASE LeaveArrayBegin
    <3>1. subState = "ArrayBegin" /\ stack' = stack /\ top' = top
      BY <2>4 DEF LeaveArrayBegin, AtPosition, ArrayEnds
    <3>2. ~over
      BY <1>2, <3>1, NestingIs DEF LeftBegins, DepthChange
    <3> QED BY <3>1, <3>2
  <2>5. CASE LeaveArrayEnd
    <3>1. subState = "ArrayEnd" /\ NextProperty(NextIndex(top), dataNext, stack)
      BY <2>5 DEF LeaveArrayEnd
    <3>2. top.IsArray
      BY <1>3, <3>1 DEF ItemOK
    <3>3. over <=> stack = << >>
      BY <1>2, <1>3, <3>1, <3>2, NestingIs DEF LeftBegins, DepthChange, One
    <3>4. there = here + One(stack = << >>)
      BY <1>2, <1>4, <1>7, <3>1, NextPropertyRoot
    <3> QED BY <1>6, <3>3, <3>4 DEF One
  <2>6. CASE LeaveStructBegin
    <3> DEFINE members == [top EXCEPT !.PropertyIndex = Property(top).StructStartIndex,
                                      !.PropertyEnd = Property(top).StructStartIndex
                                                      + Property(top).NumOfStructMembers]
               longer == Append(stack, top)
    <3>1. subState = "StructBegin" /\ NextProperty(members, dataNext, longer)
      BY <2>6 DEF LeaveStructBegin
    <3>2. members \in StackEntry
      <4>1. top.PropertyIndex \in Nat /\ top.PropertyIndex < event.tei.PropertyCount
        <5>1. top.PropertyIndex \in Nat /\ top.PropertyEnd \in Nat
          BY <1>2 DEF StackEntry
        <5> QED BY <1>1, <1>3, <3>1, <5>1, PositionedFacts, TopInTei, EventFacts DEF ItemOK, Ready
      <4> DEFINE first == Property(top).StructStartIndex
                 size == Property(top).NumOfStructMembers
      <4>2. first \in Nat /\ size \in Nat
        BY <1>2, <4>1, PropertyFacts DEF Property, Ready
      <4>3. first + size \in Nat
        BY <4>2
      <4> HIDE DEF first, size
      <4> QED BY <1>2, <4>2, <4>3 DEF StackEntry, first, size
    <3>3. longer \in Seq(StackEntry) /\ longer # << >> /\ longer[1] = IF stack = << >> THEN top ELSE stack[1]
      BY <1>2, AppendProperties
    <3> HIDE DEF members, longer
    <3>4. there = RootOf(members, longer)
      BY <3>1, <3>2, <3>3, NextPropertyRoot
    <3>5. there = here
      BY <3>3, <3>4 DEF RootOf
    <3>6. ~over
      BY <1>2, <3>1, NestingIs DEF LeftBegins, DepthChange, One
    <3> QED BY <3>5, <3>6
  <2>7. CASE LeaveStructBeginOutOfMemory
    BY <2>7 DEF LeaveStructBeginOutOfMemory, SetErrorState
  <2>8. CASE LeaveStructEnd
    <3> DEFINE t == NextElement(top)
    <3>1. subState = "StructEnd" /\ t \in StackEntry /\ t.IsArray = top.IsArray
          /\ t.PropertyIndex = top.PropertyIndex
      BY <1>5, <2>8 DEF LeaveStructEnd
    <3>2. \/ stack' = stack /\ top' = t /\ (subState' = "StructBegin" /\ t.ArrayIndex # t.ArrayCount)
          \/ stack' = stack /\ top' = t /\ t.IsArray
          \/ ~t.IsArray /\ NextProperty(NextIndex(t), dataNext, stack)
      BY <2>8 DEF LeaveStructEnd, AtPosition, ArrayEnds, StartStruct, MovedTo
    <3>3. Nesting + DepthChange = OuterNesting(stack) + One(top.IsArray)
      BY <1>2, <3>1, NestingIs DEF LeftBegins, DepthChange, One
    <3>4. t.ArrayIndex # t.ArrayCount => top.IsArray
      <4>1. ~top.IsArray => top.ArrayIndex = 0 /\ top.ArrayCount = 1 /\ top.ArrayIndex < top.ArrayCount
        BY <1>3, <3>1 DEF ItemOK
      <4>2. top.ArrayIndex < top.ArrayCount => t.ArrayIndex = top.ArrayIndex + 1 /\ t.ArrayCount = top.ArrayCount
        BY <1>2, NextElementFacts
      <4> QED BY <4>1, <4>2
    <3> HIDE DEF t
    <3>5. CASE stack' = stack /\ top' = t /\ t.IsArray
      <4>1. ~over
        BY <1>2, <3>1, <3>3, <3>5 DEF One
      <4>2. there = here
        BY <3>1, <3>5 DEF RootOf
      <4> QED BY <4>1, <4>2
    <3>6. CASE ~t.IsArray /\ NextProperty(NextIndex(t), dataNext, stack)
      <4>1. over <=> stack = << >>
        BY <1>2, <1>3, <3>1, <3>3, <3>6 DEF One
      <4>2. NextIndex(t) \in StackEntry /\ NextIndex(t).PropertyIndex = top.PropertyIndex + 1
        BY <3>1, NextIndexFacts
      <4>3. there = RootOf(NextIndex(t), stack)
        BY <1>2, <3>6, <4>2, NextPropertyRoot
      <4>4. there = here + One(stack = << >>)
        BY <1>6, <4>2, <4>3 DEF RootOf, One
      <4> QED BY <1>6, <4>1, <4>4 DEF One
    <3> QED BY <3>1, <3>2, <3>4, <3>5, <3>6
  <2> QED BY <2>1, <2>2, <2>3, <2>4, <2>5, <2>6, <2>7, <2>8 DEF Move
<1> QED BY <1>6, <1>9 DEF One

-----------------------------------------------------------------------------
(* The frames. *)

\* The fields of a frame.
LEMMA FrameTypes ==
  ASSUME NEW f \in FrameRecord
  PROVE  /\ f.i \in Nat \ {0} /\ f.limit \in 0 .. InitialRecursionLimit /\ f.back \in Nat /\ f.index \in Nat
         /\ f.text \in Messages \cup {NoMessage} \cup PrefixFormats \cup {<< >>} /\ f.inScratch \in BOOLEAN
         /\ \A i \in Nat \ {0} :
              LET g == [f EXCEPT !.i = i]
              IN  /\ g \in FrameRecord /\ g.i = i /\ g.limit = f.limit /\ g.back = f.back
                  /\ g.index = f.index /\ g.text = f.text /\ g.inScratch = f.inScratch
BY DEF FrameRecord

\* The outermost frame, the innermost, and where they end.
LEMMA FrameFacts ==
  ASSUME NEW fs, NEW scr, NEW source, NEW isPrefix, FramesOK(fs, scr, source, isPrefix), IsText(scr)
  PROVE  /\ Len(fs) \in Nat /\ Len(fs) >= 1 /\ DOMAIN fs = 1 .. Len(fs) /\ Len(scr) \in Nat
         /\ \A k \in 1 .. Len(fs) : fs[k] \in FrameRecord
         /\ Last(fs) = fs[Len(fs)]
         /\ EndOf(fs, scr, Len(fs)) = Len(scr)
         /\ Len(fs) = 1 => Len(scr) = 0
         /\ \A k \in 1 .. Len(fs) : EndOf(fs, scr, k) \in Nat /\ EndOf(fs, scr, k) <= Len(scr)
<1>1. Len(fs) \in Nat /\ DOMAIN fs = 1 .. Len(fs) /\ \A k \in 1 .. Len(fs) : fs[k] \in FrameRecord
  BY LenProperties, ElementOfSeq DEF FramesOK
<1>2. Len(fs) >= 1
  BY <1>1, EmptySeq DEF FramesOK
<1>3. Len(scr) \in Nat
  BY TextIntro DEF IsText
<1>4. ASSUME NEW k \in 1 .. Len(fs)
      PROVE  EndOf(fs, scr, k) \in Nat /\ EndOf(fs, scr, k) <= Len(scr)
  <2>1. CASE k = Len(fs)
    BY <1>3, <2>1 DEF EndOf
  <2>2. CASE k # Len(fs)
    <3>1. k + 1 \in 1 .. Len(fs)
      <4> DEFINE n == Len(fs)
      <4>1. n \in Nat /\ k \in 1 .. n /\ k # n
        BY <1>1, <2>2
      <4> HIDE DEF n
      <4>2. k + 1 \in 1 .. n
        BY <4>1
      <4> QED BY <4>2 DEF n
    <3>2. fs[k + 1].back \in Nat /\ fs[k + 1].back <= Len(scr)
      BY <1>1, <3>1 DEF FrameRecord, FramesOK
    <3> QED BY <2>2, <3>2 DEF EndOf
  <2> QED BY <2>1, <2>2
<1> QED BY <1>1, <1>2, <1>3, <1>4 DEF FramesOK, EndOf, Last

Advanced(fs) == [fs EXCEPT ![Len(fs)].i = @ + 1]

LEMMA AdvancedIs ==
  ASSUME NEW fs \in Seq(FrameRecord), fs # << >>
  PROVE  /\ Advanced(fs) \in Seq(FrameRecord) /\ Len(Advanced(fs)) = Len(fs)
         /\ \A k \in 1 .. Len(fs) :
              /\ Advanced(fs)[k].back = fs[k].back /\ Advanced(fs)[k].index = fs[k].index
              /\ Advanced(fs)[k].text = fs[k].text /\ Advanced(fs)[k].limit = fs[k].limit
              /\ Advanced(fs)[k].inScratch = fs[k].inScratch
              /\ Advanced(fs)[k].i = IF k = Len(fs) THEN fs[k].i + 1 ELSE fs[k].i
<1> DEFINE n == Len(fs)
           f == [fs[n] EXCEPT !.i = @ + 1]
<1>1. n \in Nat /\ n >= 1 /\ DOMAIN fs = 1 .. n /\ \A k \in 1 .. n : fs[k] \in FrameRecord
  BY LenProperties, ElementOfSeq, EmptySeq
<1>2. f \in FrameRecord /\ f.back = fs[n].back /\ f.index = fs[n].index /\ f.text = fs[n].text
      /\ f.limit = fs[n].limit /\ f.inScratch = fs[n].inScratch /\ f.i = fs[n].i + 1
  <2>1. n \in 1 .. n /\ fs[n] \in FrameRecord
    BY <1>1
  <2> DEFINE e == fs[n]
  <2> HIDE DEF e, n
  <2>2. e \in FrameRecord /\ f = [e EXCEPT !.i = e.i + 1]
    BY <2>1 DEF e
  <2>3. e.i + 1 \in Nat \ {0}
    BY <2>2, FrameTypes
  <2> QED BY <2>2, <2>3, FrameTypes DEF e
<1>3. Advanced(fs) = [fs EXCEPT ![n] = f]
  BY DEF Advanced
<1> HIDE DEF f
<1>4. /\ Advanced(fs) \in Seq(FrameRecord) /\ Len(Advanced(fs)) = n
      /\ \A k \in 1 .. n : Advanced(fs)[k] = IF k = n THEN f ELSE fs[k]
  BY <1>1, <1>2, <1>3, ExceptSeq
<1> QED BY <1>1, <1>2, <1>4

\* The next character: a nested frame stays before its nul.
LEMMA AdvanceFrame ==
  ASSUME NEW fs, NEW scr, NEW source, NEW isPrefix, FramesOK(fs, scr, source, isPrefix), IsText(scr),
         Len(fs) > 1 => scr[fs[Len(fs)].i] # Nul
  PROVE  FramesOK(Advanced(fs), scr, source, isPrefix)
<1> DEFINE n == Len(fs)
           gs == Advanced(fs)
<1>1. /\ n \in Nat /\ n >= 1 /\ Len(scr) \in Nat /\ \A k \in 1 .. n : fs[k] \in FrameRecord
      /\ fs \in Seq(FrameRecord) /\ fs # << >>
  BY FrameFacts DEF FramesOK
<1>2. /\ gs \in Seq(FrameRecord) /\ Len(gs) = n
      /\ \A k \in 1 .. n : 
              /\ gs[k].back = fs[k].back /\ gs[k].index = fs[k].index
              /\ gs[k].text = fs[k].text /\ gs[k].limit = fs[k].limit
              /\ gs[k].inScratch = fs[k].inScratch
              /\ gs[k].i = IF k = n THEN fs[k].i + 1 ELSE fs[k].i
  BY <1>1, AdvancedIs
<1> HIDE DEF gs
<1>3. \A k \in 1 .. n : EndOf(gs, scr, k) = EndOf(fs, scr, k)
  BY <1>1, <1>2 DEF EndOf
<1>4. gs # << >> /\ 1 \in 1 .. n
  BY <1>1, <1>2, EmptySeq
<1>5. OuterOK(gs[1], source, isPrefix) /\ EndOf(gs, scr, 1) = 0
  BY <1>2, <1>3, <1>4 DEF FramesOK, OuterOK
<1>6. ASSUME NEW k \in 2 .. n PROVE NestedOK(gs, scr, k)
  <2>1. NestedOK(fs, scr, k) /\ k \in 1 .. n /\ k > 1
    BY <1>1 DEF FramesOK
  <2>2. fs[k].i \in Nat /\ fs[k].back \in Nat /\ EndOf(fs, scr, n) = Len(scr)
    BY <1>1, <2>1, FrameFacts DEF FrameRecord
  <2>3. CASE k = n
    <3>1. scr[fs[n].i] # Nul
      BY <1>1, <2>1, <2>3
    <3>2. fs[n].i # EndOf(fs, scr, n)
      BY <2>1, <2>3, <3>1 DEF NestedOK
    <3>3. fs[n].i + 1 \in fs[n].back + 1 .. EndOf(fs, scr, n)
      BY <1>1, <2>1, <2>2, <2>3, <3>2 DEF NestedOK
    <3> QED BY <1>2, <1>3, <2>1, <2>3, <3>3 DEF NestedOK
  <2>4. CASE k # n
    BY <1>2, <1>3, <2>1, <2>4 DEF NestedOK
  <2> QED BY <2>3, <2>4
<1>7. \A k \in 1 .. n : gs[k].back <= Len(scr) /\ \A j \in 1 .. k : gs[j].back <= gs[k].back
  <2>1. \A k \in 1 .. n : \A j \in 1 .. k : j \in 1 .. n
    BY <1>1
  <2> QED BY <1>2, <2>1 DEF FramesOK
<1> QED BY <1>2, <1>4, <1>5, <1>6, <1>7 DEF FramesOK, gs

\* A nested call: its part follows the others.
Nested(fs, scr, index) ==
    [inScratch |-> TRUE, text |-> << >>, i |-> Len(scr) + 1, limit |-> fs[Len(fs)].limit - 1,
     back |-> Len(scr), index |-> index]

LEMMA PushFrame ==
  ASSUME NEW fs, NEW scr, NEW source, NEW isPrefix, FramesOK(fs, scr, source, isPrefix), IsText(scr),
         NEW text, Nulless(text), NEW index \in Nat, fs[Len(fs)].limit > 0
  PROVE  /\ FramesOK(Append(fs, Nested(fs, scr, index)), Append(scr \o text, Nul), source, isPrefix)
         /\ Len(Append(fs, Nested(fs, scr, index))) = Len(fs) + 1
         /\ \A k \in 1 .. Len(fs) : Append(fs, Nested(fs, scr, index))[k] = fs[k]
         /\ Append(fs, Nested(fs, scr, index))[Len(fs) + 1].index = index
         /\ IsText(Append(scr \o text, Nul))
<1> DEFINE n == Len(fs)
           f == Nested(fs, scr, index)
           gs == Append(fs, f)
           both == Append(scr \o text, Nul)
           m == Len(scr)
           l == Len(text)
<1>1. /\ n \in Nat /\ n >= 1 /\ m \in Nat /\ \A k \in 1 .. n : fs[k] \in FrameRecord
      /\ fs \in Seq(FrameRecord) /\ fs # << >> /\ EndOf(fs, scr, n) = m
  BY FrameFacts DEF FramesOK
<1>2. l \in Nat /\ IsText(text)
  BY TextIntro DEF Nulless, IsText
<1>3. /\ IsText(both) /\ Len(both) = m + l + 1
      /\ \A k \in 1 .. m : both[k] = scr[k]
      /\ \A k \in m + 1 .. m + l : both[k] = text[k - m]
      /\ both[m + l + 1] = Nul
  <2> DEFINE s == scr \o text
  <2>1. /\ IsText(s) /\ Len(s) = m + l
        /\ \A k \in 1 .. m : s[k] = scr[k]
        /\ \A k \in m + 1 .. m + l : s[k] = text[k - m]
    BY <1>2, TextConcat
  <2> HIDE DEF s
  <2>2. /\ IsText(Append(s, Nul)) /\ Len(Append(s, Nul)) = m + l + 1
        /\ \A k \in 1 .. m + l : Append(s, Nul)[k] = s[k]
        /\ Append(s, Nul)[m + l + 1] = Nul
    <3> DEFINE token == Nul
    <3> HIDE DEF token
    <3>1. /\ IsText(Append(s, token)) /\ Len(Append(s, token)) = Len(s) + 1
          /\ \A k \in 1 .. Len(s) : Append(s, token)[k] = s[k]
          /\ Append(s, token)[Len(s) + 1] = token
      <4>1. IsText(s)
        BY <2>1
      <4> HIDE DEF f, gs, both, m, l
      <4> QED BY <4>1, TextAppend, ZenonT(40)
    <3> QED BY <2>1, <3>1 DEF token
  <2>3. (\A k \in 1 .. m : k \in 1 .. m + l) /\ (\A k \in m + 1 .. m + l : k \in 1 .. m + l)
    BY <1>1, <1>2
  <2>4. both = Append(s, Nul)
    BY DEF s
  <2> HIDE DEF both
  <2> QED BY <2>1, <2>2, <2>3, <2>4
<1>4. f \in FrameRecord /\ f.inScratch /\ f.text = << >> /\ f.i = m + 1 /\ f.back = m /\ f.index = index
      /\ f.limit < InitialRecursionLimit
  <2>1. fs[n].limit \in 0 .. InitialRecursionLimit
    <3>1. n \in 1 .. n
      BY <1>1
    <3> QED BY <1>1, <3>1 DEF FrameRecord
  <2>2. fs[n].limit - 1 \in 0 .. InitialRecursionLimit /\ fs[n].limit - 1 < InitialRecursionLimit
    BY <2>1 DEF InitialRecursionLimit
  <2> QED BY <1>1, <2>2 DEF Nested, FrameRecord
<1> HIDE DEF f, both
<1>5. gs \in Seq(FrameRecord) /\ Len(gs) = n + 1 /\ (\A k \in 1 .. n : gs[k] = fs[k]) /\ gs[n + 1] = f
  BY <1>1, <1>4, AppendProperties
<1> HIDE DEF gs
<1>6. \A k \in 1 .. n : EndOf(gs, both, k) = EndOf(fs, scr, k)
  <2>1. ASSUME NEW k \in 1 .. n PROVE EndOf(gs, both, k) = EndOf(fs, scr, k)
    <3>1. k # n + 1 /\ EndOf(gs, both, k) = gs[k + 1].back
      BY <1>1, <1>5 DEF EndOf
    <3>2. CASE k = n
      BY <1>1, <1>4, <1>5, <3>1, <3>2
    <3>3. CASE k # n
      <4>1. k + 1 \in 1 .. n
        BY <1>1, <3>3
      <4> QED BY <1>5, <3>1, <3>3, <4>1 DEF EndOf
    <3> QED BY <3>2, <3>3
  <2> QED BY <2>1
<1>7. \A k \in 1 .. n : EndOf(fs, scr, k) \in Nat /\ EndOf(fs, scr, k) <= m
  BY FrameFacts
<1>8. gs # << >> /\ 1 \in 1 .. n
  BY <1>1, <1>5, EmptySeq
<1>9. OuterOK(gs[1], source, isPrefix) /\ EndOf(gs, both, 1) = 0
  BY <1>5, <1>6, <1>8 DEF FramesOK
<1>10. ASSUME NEW k \in 2 .. n + 1 PROVE NestedOK(gs, both, k)
  <2>1. CASE k = n + 1
    <3>1. EndOf(gs, both, k) = m + l + 1
      BY <1>3, <1>5, <2>1 DEF EndOf
    <3>2. f.i \in f.back + 1 .. m + l + 1
      BY <1>1, <1>2, <1>4
    <3>3. ASSUME NEW i \in m + 1 .. m + l + 1 PROVE both[i] = Nul <=> i = m + l + 1
      <4>1. CASE i = m + l + 1
        BY <1>3, <4>1
      <4>2. CASE i # m + l + 1
        <5>1. i \in m + 1 .. m + l /\ i - m \in 1 .. l
          BY <1>1, <1>2, <4>2
        <5>2. both[i] = text[i - m] /\ text[i - m] # Nul
        BY <1>3, <5>1 DEF Nulless
      <5> QED BY <4>2, <5>2
      <4> QED BY <4>1, <4>2
    <3> QED BY <1>4, <1>5, <2>1, <3>1, <3>2, <3>3 DEF NestedOK
  <2>2. CASE k # n + 1
    <3>1. k \in 2 .. n /\ k \in 1 .. n
      BY <1>1, <2>2
    <3>2. NestedOK(fs, scr, k) /\ gs[k] = fs[k] /\ EndOf(gs, both, k) = EndOf(fs, scr, k)
          /\ fs[k].back \in Nat /\ EndOf(fs, scr, k) \in Nat /\ EndOf(fs, scr, k) <= m
      BY <1>1, <1>5, <1>6, <1>7, <3>1 DEF FramesOK, FrameRecord
    <3>3. \A i \in fs[k].back + 1 .. EndOf(fs, scr, k) : i \in 1 .. m
      BY <1>1, <3>2
    <3> QED BY <1>3, <3>2, <3>3 DEF NestedOK
  <2> QED BY <2>1, <2>2
<1>11. ASSUME NEW k \in 1 .. n + 1
       PROVE  gs[k].back <= Len(both) /\ \A j \in 1 .. k : gs[j].back <= gs[k].back
  <2>1. CASE k = n + 1
    <3>1. gs[k].back = m /\ m <= Len(both)
      BY <1>1, <1>2, <1>3, <1>4, <1>5, <2>1
    <3>2. \A j \in 1 .. k : j = n + 1 \/ j \in 1 .. n
      BY <1>1, <2>1
    <3>3. \A j \in 1 .. n : gs[j].back <= m
      BY <1>5 DEF FramesOK
    <3> QED BY <1>1, <2>1, <3>1, <3>2, <3>3
  <2>2. CASE k # n + 1
    <3>1. k \in 1 .. n /\ \A j \in 1 .. k : j \in 1 .. n
      BY <1>1, <2>2
    <3>2. fs[k].back \in Nat /\ fs[k].back <= m
      BY <1>1, <3>1 DEF FrameRecord, FramesOK
    <3>3. fs[k].back <= Len(both)
      BY <1>1, <1>2, <1>3, <3>2
    <3> QED BY <1>5, <3>1, <3>3 DEF FramesOK
  <2> QED BY <2>1, <2>2
<1>12. FramesOK(gs, both, source, isPrefix)
  BY <1>5, <1>8, <1>9, <1>10, <1>11 DEF FramesOK
<1> QED BY <1>3, <1>4, <1>5, <1>12 DEF gs, both, f

\* A nested call returns: its part goes, and the others stay.
LEMMA PopFrame ==
  ASSUME NEW fs, NEW scr, NEW source, NEW isPrefix, FramesOK(fs, scr, source, isPrefix), IsText(scr),
         Len(fs) > 1
  PROVE  /\ FramesOK(Front(fs), SubSeq(scr, 1, fs[Len(fs)].back), source, isPrefix)
         /\ IsText(SubSeq(scr, 1, fs[Len(fs)].back))
         /\ Len(Front(fs)) = Len(fs) - 1
         /\ \A k \in 1 .. Len(fs) - 1 : Front(fs)[k] = fs[k]
<1> DEFINE n == Len(fs)
           gs == Front(fs)
           b == fs[n].back
           rest == SubSeq(scr, 1, b)
<1>1. /\ n \in Nat /\ n > 1 /\ Len(scr) \in Nat /\ \A k \in 1 .. n : fs[k] \in FrameRecord
      /\ fs \in Seq(FrameRecord) /\ fs # << >> /\ n \in 1 .. n
  BY FrameFacts DEF FramesOK
<1>2. b \in 0 .. Len(scr)
  BY <1>1 DEF FramesOK, FrameRecord
<1>3. IsText(rest) /\ Len(rest) = b /\ \A k \in 1 .. b : rest[k] = scr[k]
  BY <1>2, TextPrefix
<1>4. gs \in Seq(FrameRecord) /\ Len(gs) = n - 1 /\ \A k \in 1 .. n - 1 : gs[k] = fs[k]
  BY <1>1, WithoutLast DEF Front
<1> HIDE DEF gs, rest
<1>5. \A k \in 1 .. n - 1 : k \in 1 .. n /\ k # n /\ k + 1 \in 1 .. n
  BY <1>1
<1>6. ASSUME NEW k \in 1 .. n - 1 PROVE EndOf(gs, rest, k) = EndOf(fs, scr, k) /\ EndOf(fs, scr, k) <= b
  <2>1. EndOf(fs, scr, k) = fs[k + 1].back
    BY <1>1, <1>5 DEF EndOf
  <2>2. fs[k + 1].back <= b
    <3>1. k + 1 \in 1 .. n
      BY <1>1
    <3> QED BY <1>1, <3>1 DEF FramesOK
  <2>3. CASE k = n - 1
    BY <1>1, <1>3, <1>4, <2>1, <2>2, <2>3 DEF EndOf
  <2>4. CASE k # n - 1
    <3>1. k + 1 \in 1 .. n - 1
      BY <1>1, <2>4
    <3> QED BY <1>4, <2>1, <2>2, <2>4, <3>1 DEF EndOf
  <2> QED BY <2>3, <2>4
<1>7. gs # << >> /\ 1 \in 1 .. n - 1
  BY <1>1, <1>4, EmptySeq
<1>8. OuterOK(gs[1], source, isPrefix) /\ EndOf(gs, rest, 1) = 0
  BY <1>4, <1>6, <1>7 DEF FramesOK
<1>9. ASSUME NEW k \in 2 .. n - 1 PROVE NestedOK(gs, rest, k)
  <2>1. k \in 1 .. n - 1 /\ k \in 2 .. n /\ k \in 1 .. n
    BY <1>1
  <2>2. NestedOK(fs, scr, k) /\ gs[k] = fs[k] /\ EndOf(gs, rest, k) = EndOf(fs, scr, k)
        /\ fs[k].back \in Nat /\ EndOf(fs, scr, k) \in Nat /\ EndOf(fs, scr, k) <= b
    BY <1>1, <1>4, <1>6, <2>1, FrameFacts DEF FramesOK, FrameRecord
  <2>3. \A i \in fs[k].back + 1 .. EndOf(fs, scr, k) : i \in 1 .. b
    BY <1>2, <2>2
  <2> QED BY <1>3, <2>2, <2>3 DEF NestedOK
<1>10. ASSUME NEW k \in 1 .. n - 1
       PROVE  gs[k].back <= Len(rest) /\ \A j \in 1 .. k : gs[j].back <= gs[k].back
  <2>1. k \in 1 .. n /\ (\A j \in 1 .. k : j \in 1 .. n - 1) /\ k \in 1 .. n
    BY <1>1
  <2> QED BY <1>1, <1>3, <1>4, <2>1 DEF FramesOK
<1>11. FramesOK(gs, rest, source, isPrefix)
  BY <1>4, <1>7, <1>8, <1>9, <1>10 DEF FramesOK
<1> QED BY <1>3, <1>4, <1>11 DEF gs, rest

-----------------------------------------------------------------------------
(* The properties in use. *)

\* A property is put to use, or is no longer in use.
Marked(ps, index, b) == [ps EXCEPT ![index].inUse = b]

LEMMA MarkedIs ==
  ASSUME NEW ps \in Seq(PropInfo), NEW index \in 1 .. Len(ps), NEW b \in BOOLEAN
  PROVE  /\ Marked(ps, index, b) \in Seq(PropInfo) /\ Len(Marked(ps, index, b)) = Len(ps)
         /\ \A n \in 1 .. Len(ps) :
              /\ Marked(ps, index, b)[n].type = ps[n].type
              /\ Marked(ps, index, b)[n].index = ps[n].index
              /\ Marked(ps, index, b)[n].pos = ps[n].pos
              /\ n # index => Marked(ps, index, b)[n] = ps[n]
         /\ Marked(ps, index, b)[index].inUse = b
<1> DEFINE e == ps[index]
           pi == [e EXCEPT !.inUse = b]
<1>1. e \in PropInfo
  BY ElementOfSeq
<1>2. Marked(ps, index, b) = [ps EXCEPT ![index] = pi]
  BY DEF Marked
<1> HIDE DEF e
<1>3. pi \in PropInfo /\ pi.type = e.type /\ pi.index = e.index /\ pi.pos = e.pos /\ pi.inUse = b
  BY <1>1 DEF PropInfo
<1> HIDE DEF pi
<1>4. /\ Marked(ps, index, b) \in Seq(PropInfo) /\ Len(Marked(ps, index, b)) = Len(ps)
      /\ \A n \in 1 .. Len(ps) : Marked(ps, index, b)[n] = IF n = index THEN pi ELSE ps[n]
  BY <1>2, <1>3, ExceptSeq
<1> QED BY <1>3, <1>4 DEF e

\* What is in use then.
UsedIn(ps) == {n \in 1 .. Len(ps) : ps[n].inUse}

LEMMA MarkedUses ==
  ASSUME NEW ps \in Seq(PropInfo), NEW index \in 1 .. Len(ps)
  PROVE  /\ UsedIn(Marked(ps, index, TRUE)) = UsedIn(ps) \cup {index}
         /\ UsedIn(Marked(ps, index, FALSE)) = UsedIn(ps) \ {index}
<1>1. ASSUME NEW b \in BOOLEAN
      PROVE  UsedIn(Marked(ps, index, b)) = IF b THEN UsedIn(ps) \cup {index} ELSE UsedIn(ps) \ {index}
  <2> DEFINE qs == Marked(ps, index, b)
  <2>1. /\ Len(qs) = Len(ps) /\ qs[index].inUse = b
        /\ \A n \in 1 .. Len(ps) : n # index => qs[n] = ps[n]
    BY MarkedIs
  <2> HIDE DEF qs
  <2>2. CASE b
    <3>1. qs[index].inUse
      BY <2>1, <2>2
    <3>2. UsedIn(qs) = UsedIn(ps) \cup {index}
      BY <2>1, <3>1 DEF UsedIn
    <3> QED BY <2>2, <3>2 DEF qs
  <2>3. CASE ~b
    <3>1. ~qs[index].inUse
      BY <2>1, <2>3
    <3>2. UsedIn(qs) = UsedIn(ps) \ {index}
      BY <2>1, <3>1 DEF UsedIn
    <3> QED BY <2>3, <3>2 DEF qs
  <2> QED BY <2>2, <2>3
<1>2. TRUE \in BOOLEAN /\ FALSE \in BOOLEAN
  OBVIOUS
<1>3. UsedIn(Marked(ps, index, TRUE)) = IF TRUE THEN UsedIn(ps) \cup {index} ELSE UsedIn(ps) \ {index}
  BY <1>1, <1>2, Zenon
<1>4. UsedIn(Marked(ps, index, FALSE)) = IF FALSE THEN UsedIn(ps) \cup {index} ELSE UsedIn(ps) \ {index}
  BY <1>1, <1>2, Zenon
<1> QED BY <1>3, <1>4

\* The uses are about nothing but the indexes of the frames.
LEMMA SameUses ==
  ASSUME NEW fs, NEW gs, Len(gs) = Len(fs), \A k \in 1 .. Len(fs) : gs[k].index = fs[k].index,
         NEW ps, NEW more, UsesOK(fs, ps, more)
  PROVE  UsesOK(gs, ps, more) /\ IndexesOf(gs) = IndexesOf(fs)
BY DEF UsesOK, IndexesOf

\* A nested call for a property that no frame expands, or for a parameter message.
LEMMA PushedUses ==
  ASSUME NEW fs, NEW gs, Len(fs) \in Nat, Len(gs) = Len(fs) + 1,
         \A k \in 1 .. Len(fs) : gs[k].index = fs[k].index,
         NEW ps \in Seq(PropInfo), NEW qs, UsesOK(fs, ps, {}),
         LET index == gs[Len(fs) + 1].index
         IN  \/ index = 0 /\ qs = ps
             \/ index \in 1 .. Len(ps) /\ ~ps[index].inUse /\ qs = Marked(ps, index, TRUE)
  PROVE  UsesOK(gs, qs, {})
<1> DEFINE n == Len(fs)
           index == gs[n + 1].index
<1>1. \A k \in 1 .. n + 1 : k \in 1 .. n \/ k = n + 1
  OBVIOUS
<1>2. \A k \in 1 .. n : k \in 1 .. n + 1
  OBVIOUS
<1>3. n + 1 \in 1 .. n + 1
  OBVIOUS
<1>4. IndexesOf(gs) = IndexesOf(fs) \cup {index}
  BY <1>1, <1>2, <1>3 DEF IndexesOf
<1>5. UsedIn(ps) = IndexesOf(fs) \ {0}
  BY DEF UsesOK, UsedIn
<1>6. index \in 1 .. Len(ps) /\ ~ps[index].inUse => index \notin IndexesOf(fs)
  BY <1>5 DEF UsedIn
<1>7. UsedIn(qs) = (IndexesOf(fs) \cup {index}) \ {0}
  <2>1. CASE index = 0 /\ qs = ps
    BY <1>5, <2>1
  <2>2. CASE index \in 1 .. Len(ps) /\ ~ps[index].inUse /\ qs = Marked(ps, index, TRUE)
    <3> HIDE DEF index
    <3>1. UsedIn(qs) = UsedIn(ps) \cup {index} /\ index # 0
      <4>1. index \in 1 .. Len(ps) /\ qs = Marked(ps, index, TRUE)
        BY <2>2
      <4>2. UsedIn(Marked(ps, index, TRUE)) = UsedIn(ps) \cup {index}
        BY <4>1, MarkedUses
      <4>3. Len(ps) \in Nat
        BY LenProperties
      <4>4. index # 0
        BY <4>1, <4>3
      <4> QED BY <4>1, <4>2, <4>4
    <3> QED BY <1>5, <3>1
  <2> QED BY <2>1, <2>2
<1>8. ASSUME NEW j \in 1 .. n + 1, NEW k \in 1 .. n + 1, j # k, gs[j].index = gs[k].index
      PROVE  gs[j].index = 0
  <2>1. CASE j \in 1 .. n /\ k \in 1 .. n
    BY <1>8, <2>1 DEF UsesOK
  <2>2. CASE j = n + 1 \/ k = n + 1
    <3>1. PICK i \in 1 .. n : gs[i].index = index /\ gs[j].index = index
      BY <1>1, <1>8, <2>2
    <3>2. index \in IndexesOf(fs)
      BY <3>1 DEF IndexesOf
    <3> QED BY <1>6, <3>1, <3>2
  <2> QED BY <1>1, <2>1, <2>2
<1> QED BY <1>4, <1>7, <1>8 DEF UsesOK, UsedIn

\* A nested call returns.
LEMMA PoppedUses ==
  ASSUME NEW fs, NEW gs, Len(gs) \in Nat, Len(fs) = Len(gs) + 1,
         \A k \in 1 .. Len(gs) : gs[k].index = fs[k].index,
         NEW ps \in Seq(PropInfo), NEW qs, UsesOK(fs, ps, {}),
         LET index == fs[Len(fs)].index
         IN  qs = IF index = 0 THEN ps ELSE Marked(ps, index, FALSE)
  PROVE  UsesOK(gs, qs, {}) /\ (fs[Len(fs)].index # 0 => fs[Len(fs)].index \in 1 .. Len(ps))
<1> DEFINE n == Len(gs)
           index == fs[n + 1].index
<1>1. \A k \in 1 .. n + 1 : k \in 1 .. n \/ k = n + 1
  OBVIOUS
<1>2. \A k \in 1 .. n : k \in 1 .. n + 1 /\ k # n + 1
  OBVIOUS
<1>3. n + 1 \in 1 .. n + 1
  OBVIOUS
<1>4. IndexesOf(fs) = IndexesOf(gs) \cup {index}
  BY <1>1, <1>2, <1>3 DEF IndexesOf
<1>5. UsedIn(ps) = IndexesOf(fs) \ {0}
  BY DEF UsesOK, UsedIn
<1>6. index # 0 => index \notin IndexesOf(gs)
  BY <1>2, <1>3 DEF IndexesOf, UsesOK
<1>7. index # 0 => index \in 1 .. Len(ps)
  BY <1>4, <1>5 DEF UsedIn
<1>8. UsedIn(qs) = IndexesOf(gs) \ {0}
  <2>1. CASE index = 0
    BY <1>4, <1>5, <2>1
  <2>2. CASE index # 0
    <3>1. UsedIn(qs) = UsedIn(ps) \ {index}
      BY <1>7, <2>2, MarkedUses, ZenonT(40)
    <3> QED BY <1>4, <1>5, <1>6, <2>2, <3>1
  <2> QED BY <2>1, <2>2
<1>9. \A j, k \in 1 .. n : j # k /\ gs[j].index = gs[k].index => gs[j].index = 0
  BY <1>2 DEF UsesOK
<1> QED BY <1>7, <1>8, <1>9 DEF UsesOK, UsedIn

\* A property is written as JSON, and has been.
LEMMA RenderedUses ==
  ASSUME NEW fs, NEW ps \in Seq(PropInfo), NEW index \in 1 .. Len(ps)
  PROVE  /\ UsesOK(fs, ps, {}) /\ ~ps[index].inUse => UsesOK(fs, Marked(ps, index, TRUE), {index})
         /\ UsesOK(fs, ps, {index}) => UsesOK(fs, Marked(ps, index, FALSE), {})
<1>1. index # 0
  OBVIOUS
<1>2. ASSUME UsesOK(fs, ps, {}), ~ps[index].inUse
      PROVE  UsesOK(fs, Marked(ps, index, TRUE), {index})
  <2> DEFINE qs == Marked(ps, index, TRUE)
  <2>2. UsedIn(qs) = UsedIn(ps) \cup {index}
    BY MarkedUses
  <2> HIDE DEF qs
  <2>3. UsedIn(ps) = IndexesOf(fs) \ {0}
    BY <1>2 DEF UsesOK, UsedIn
  <2>4. index \notin IndexesOf(fs)
    BY <1>1, <1>2, <2>3 DEF UsedIn
  <2> QED BY <1>1, <1>2, <2>2, <2>3, <2>4 DEF UsesOK, UsedIn, qs
<1>3. ASSUME UsesOK(fs, ps, {index})
      PROVE  UsesOK(fs, Marked(ps, index, FALSE), {})
  <2> DEFINE qs == Marked(ps, index, FALSE)
  <2>2. UsedIn(qs) = UsedIn(ps) \ {index}
    BY MarkedUses
  <2> HIDE DEF qs
  <2>3. UsedIn(ps) = (IndexesOf(fs) \cup {index}) \ {0} /\ index \notin IndexesOf(fs)
    BY <1>3 DEF UsesOK, UsedIn
  <2> QED BY <1>1, <1>3, <2>2, <2>3 DEF UsesOK, UsedIn, qs
<1> QED BY <1>2, <1>3

-----------------------------------------------------------------------------
(* How a call ends. *)

\* No JSON is being written: the enumerator's position and the request are all there is.
LEMMA QuietCall ==
  ASSUME PosInv', RequestInv, json' = NoJson, request' = request
  PROVE  CallInv'
<1>1. json' \in JsonRecord /\ json'.at = "idle" /\ ~json'.failed
  BY NoJsonFacts
<1>2. PlaceInv' /\ StatusInv'
  BY <1>1 DEF PlaceInv, StatusInv, NoCall, At
<1>3. RequestInv'
  BY <1>1 DEF RequestInv, At
<1> QED BY <1>2, <1>3 DEF CallInv

\* What becomes of the call's own record.
LEMMA DoneRecord ==
  ASSUME format \in FormatRecord, NEW status, NEW hurt \in BOOLEAN, GoToDone(status, hurt)
  PROVE  /\ format' \in FormatRecord
         /\ format'.hurt => format.hurt \/ hurt
         /\ format'.at \in {"retry", "result"}
         /\ format'.at = "retry" =>
              call.kind = "Event" /\ format.message /\ status = "MR_MID_NOT_FOUND"
         /\ format'.message = format.message /\ format'.mark = format.mark
         /\ format'.trailing = format.trailing /\ format'.start = format.start
         /\ format'.rendering = format.rendering
<1> DEFINE again == call.kind = "Event" /\ format.message /\ status = "MR_MID_NOT_FOUND"
           next == IF again THEN "retry" ELSE "result"
           h == format.hurt \/ hurt
<1>1. next \in {"retry", "result"} /\ next \in FormatStep /\ (next = "retry" => again)
  BY DEF FormatStep
<1>2. h \in BOOLEAN
  OBVIOUS
<1>3. format' = [format EXCEPT !.hurt = h, !.at = next]
  BY DEF GoToDone
<1> HIDE DEF h, next, again
<1>4. /\ format' \in FormatRecord /\ format'.hurt = h /\ format'.at = next
      /\ format'.message = format.message /\ format'.mark = format.mark
      /\ format'.trailing = format.trailing /\ format'.start = format.start
      /\ format'.rendering = format.rendering
  BY <1>1, <1>2, <1>3 DEF FormatRecord
<1>5. format'.hurt => format.hurt \/ hurt
  BY <1>4 DEF h
<1> QED BY <1>1, <1>4, <1>5 DEF again

\* A call that fails leaves its messages, its frames and its properties as they
\* are; only whether the event may still be written as JSON is of interest.
LEMMA AbandonKeeps ==
  ASSUME FormatInv, format.at \notin {"idle", "done", "result"},
         NEW status \in Status \ {"SUCCESS"}, NEW hurt \in BOOLEAN,
         lastError' = status, GoToDone(status, hurt),
         hurt \/ format.rendering.printf => status # "MR_MID_NOT_FOUND",
         PosInv', json' = NoJson, ~sibling'.running,
         UNCHANGED <<event, output, request, scratch, call>>
  PROVE  FormatInv'
<1> DEFINE f == format'
<1>1. /\ f \in FormatRecord
      /\ f.hurt => format.hurt \/ hurt
      /\ f.at \in {"retry", "result"}
      /\ f.at = "retry" => call.kind = "Event" /\ format.message /\ status = "MR_MID_NOT_FOUND"
      /\ f.message = format.message /\ f.mark = format.mark /\ f.rendering = format.rendering
  BY DoneRecord DEF FormatInv, StageInv
<1>2. ~format.hurt
  BY DEF FormatInv, StageInv
<1>3. LoopInv'
  <2>1. CallInv'
    BY QuietCall DEF FormatInv, LoopInv, CallInv
  <2> QED BY <1>1, <2>1 DEF LoopInv, FormatAt
<1>4. StageInv'
  <2>1. event # NoEvent /\ call.kind # "None" /\ call \in CallRecord
        /\ (call.kind = "Message" => call.message # NoMessage)
    BY DEF FormatInv, StageInv, NoFormatting, FormatAt
  <2>2. format.message => call.message # NoMessage /\ call.kind # "Prefix"
    BY DEF FormatInv, StageInv, NoFormatting, FormatAt
  <2> QED BY <1>1, <1>2, <2>1, <2>2 DEF StageInv, FormatAt, NoFormatting, Expanding
<1>5. ~InExpansion' /\ ~FormatAt("properties")' /\ ~FormatAt("json")'
  BY <1>1 DEF InExpansion, Expanding, FormatAt
<1>6. BufferInv'
  <2>1. Swapped' = Swapped /\ OutputNow' = OutputNow
    BY <1>1 DEF Swapped, OutputNow
  <2> QED BY <1>1, <2>1 DEF FormatInv, BufferInv, FormatAt
<1>7. PropsInv' /\ FrameInv' /\ UseInv' /\ SpaceInv' /\ JsonLevelInv'
  BY <1>5 DEF PropsInv, FrameInv, UseInv, SpaceInv, JsonLevelInv
<1> QED BY <1>3, <1>4, <1>6, <1>7 DEF FormatInv

-----------------------------------------------------------------------------
(* From one top-level property to the next. *)

\* Nothing is open at the top level, and the properties there are the event's.
LEMMA AtTopLevel ==
  ASSUME PosInv', event' # NoEvent, (AtItem' /\ Nesting' = 0) \/ subState' = "AfterLastItem"
  PROVE  AtTop' /\ PositionOK(event', dataNext', item', top', stack', subState')
<1>1. PositionOK(event', dataNext', item', top', stack', subState')
  BY DEF PosInv
<1>2. top' \in StackEntry /\ stack' \in Seq(StackEntry)
  BY <1>1 DEF PositionOK
<1>3. stack' = << >>
  <2>1. ASSUME AtItem', Nesting' = 0 PROVE stack' = << >>
    <3>1. OuterNesting(stack') \in Nat /\ (OuterNesting(stack') = 0 <=> stack' = << >>)
      BY <1>2, NoOuterNesting
    <3>2. Nesting' = OuterNesting(stack') + LeftBegins(top', subState')
      BY NestingIs
    <3>3. LeftBegins(top', subState') \in Nat
      BY DEF LeftBegins, One
    <3> QED BY <2>1, <3>1, <3>2, <3>3
  <2> QED BY <1>1, <2>1 DEF PositionOK
<1>4. FollowsTei(event', top', stack')
  BY <1>1 DEF PositionOK, AtItem
<1>5. top'.PropertyEnd = event'.tei.TopLevelPropertyCount
  <2>1. Len(<< >>) = 0
    OBVIOUS
  <2> QED BY <1>3, <1>4, <2>1 DEF FollowsTei, InGroup
<1> QED BY <1>1, <1>3, <1>5 DEF AtTop

\* Where the enumerator is, after a move that reaches the n-th property or the end.
LEMMA AtNextProperty ==
  ASSUME PosInv', event' # NoEvent, NEW n, RootOf(top', stack') = n,
         (AtItem' /\ Nesting' = 0) \/ subState' = "AfterLastItem"
  PROVE  /\ n \in Nat /\ n <= event'.tei.TopLevelPropertyCount /\ stack' = << >>
         /\ top'.PropertyIndex = n
         /\ n = event'.tei.TopLevelPropertyCount => subState' = "AfterLastItem"
         /\ n < event'.tei.TopLevelPropertyCount => AtItem' /\ Nesting' = 0
<1>1. /\ PositionOK(event', dataNext', item', top', stack', subState')
      /\ stack' = << >> /\ top'.PropertyEnd = event'.tei.TopLevelPropertyCount
  BY AtTopLevel DEF AtTop
<1>2. top' \in StackEntry
  BY <1>1 DEF PositionOK
<1>3. top'.PropertyIndex = n /\ n \in Nat /\ top'.PropertyEnd \in Nat
  BY <1>1, <1>2 DEF RootOf, StackEntry
<1>4. AtItem' => top'.PropertyIndex < top'.PropertyEnd
  <2>1. AtItem' => subState' \in ItemSubStates
    BY <1>1 DEF AtItem, ItemSubStates, PositionedSubStates
  <2> QED BY <1>1, <2>1 DEF PositionOK, ItemOK
<1>5. subState' = "AfterLastItem" => top'.PropertyIndex = top'.PropertyEnd
  BY <1>1 DEF PositionOK
<1> QED BY <1>1, <1>3, <1>4, <1>5

\* What one iteration of MoveNextSibling does at a top-level property.
LoopMoved ==
    \/ lastError' \in {"INVALID_DATA", "UNSUPPORTED_TYPE", "OUTOFMEMORY"} /\ ~sibling'.running
    \/ /\ lastError' = "SUCCESS" /\ sibling'.running
       /\ AtItem' /\ Nesting' = sibling'.depth /\ RootOf(top', stack') = RootOf(top, stack)
    \/ /\ lastError' = "SUCCESS" /\ ~sibling'.running
       /\ RootOf(top', stack') = RootOf(top, stack) + 1
       /\ (AtItem' /\ Nesting' = 0) \/ (subState' = "AfterLastItem" /\ stack' = << >>)

LEMMA LoopTestIs ==
  ASSUME NEW d \in Int, LoopTest(d)
  PROVE  /\ sibling'.running <=> d > 0 /\ returned'
         /\ sibling'.running => sibling'.depth = d
BY DEF LoopTest

LEMMA LoopMoves ==
  ASSUME PosInv, AtItem, lastError = "SUCCESS", NEW depth \in Nat, Nesting = depth,
         SkipSimpleArray(depth) \/ MoveInLoop(depth)
  PROVE  PosInv' /\ event' = event /\ LoopMoved
<1>1. PosInv' /\ event' = event
  BY LoopStepKeepsIInv DEF IInv, SkipSimpleArray, MoveInLoop
<1>2. RootOf(top, stack) \in Nat /\ top \in StackEntry /\ stack \in Seq(StackEntry)
  <2>1. top \in StackEntry /\ stack \in Seq(StackEntry)
    BY DEF PosInv, TypeOK
  <2>2. stack # << >> => stack[1] \in StackEntry
    BY <2>1
  <2> QED BY <2>1, <2>2 DEF RootOf, StackEntry
<1>3. Nesting' \in Nat
  BY <1>1, NestingAfter
<1>4. CASE MoveInLoop(depth)
  <2>1. Move /\ LoopTest(depth + DepthChange)
    BY <1>4 DEF MoveInLoop
  <2>2. MoveReported
    BY <2>1, MoveReports
  <2>3. depth + DepthChange \in Nat
    BY NestingFacts
  <2>4. /\ sibling'.running <=> depth + DepthChange > 0 /\ returned'
        /\ sibling'.running => sibling'.depth = depth + DepthChange
    <3> DEFINE d == depth + DepthChange
    <3>1. d \in Int /\ LoopTest(d)
      BY <2>1, <2>3
    <3> HIDE DEF d
    <3>2. /\ sibling'.running <=> d > 0 /\ returned'
          /\ sibling'.running => sibling'.depth = d
      BY <3>1, LoopTestIs
    <3> QED BY <3>2 DEF d
  <2>5. subState' # "Error" =>
          RootOf(top', stack') = RootOf(top, stack) + One(Nesting + DepthChange = 0)
    BY <2>1, MoveRoot
  <2>6. CASE subState' = "Error"
    <3>1. returned' = FALSE /\ lastError' \in {"INVALID_DATA", "UNSUPPORTED_TYPE", "OUTOFMEMORY"}
      BY <2>2, <2>6 DEF MoveReported, ItemSubStates, PositionedSubStates
    <3> QED BY <1>1, <2>4, <3>1 DEF LoopMoved
  <2>7. CASE subState' = "AfterLastItem" /\ returned' = FALSE /\ lastError' = "SUCCESS"
             /\ Nesting' = 0 /\ Nesting + DepthChange = 0 /\ stack' = << >>
    <3>1. RootOf(top', stack') = RootOf(top, stack) + 1
      BY <2>5, <2>7 DEF One
    <3> QED BY <1>1, <2>4, <2>7, <3>1 DEF LoopMoved
  <2>8. CASE subState' \in ItemSubStates /\ returned' = TRUE /\ Nesting' = Nesting + DepthChange
             /\ (lastError' # "SUCCESS" => lastError' = lastError /\ subState' = "ArrayBegin")
    <3>1. AtItem' /\ lastError' = "SUCCESS" /\ subState' # "Error"
      BY <2>8 DEF AtItem, ItemSubStates, PositionedSubStates
    <3>2. CASE depth + DepthChange > 0
      <4>1. RootOf(top', stack') = RootOf(top, stack)
        BY <1>2, <2>3, <2>5, <3>1, <3>2 DEF One
      <4> QED BY <1>1, <2>4, <2>8, <3>1, <3>2, <4>1 DEF LoopMoved
    <3>3. CASE depth + DepthChange = 0
      <4>1. RootOf(top', stack') = RootOf(top, stack) + 1 /\ Nesting' = 0
        BY <2>5, <2>8, <3>1, <3>3 DEF One
      <4> QED BY <1>1, <2>4, <3>1, <3>3, <4>1 DEF LoopMoved
    <3> QED BY <2>3, <3>2, <3>3
  <2> QED BY <2>2, <2>6, <2>7, <2>8 DEF MoveReported
<1>5. CASE SkipSimpleArray(depth)
  <2> DEFINE p == dataNext + item.element * top.ArrayCount
  <2>1. /\ subState = "ArrayBegin" /\ NextProperty(NextIndex(top), p, stack) /\ LoopTest(depth)
    BY <1>5 DEF SkipSimpleArray, AtSimpleArrayBegin
  <2> HIDE DEF p
  <2>2. /\ sibling'.running <=> depth > 0 /\ returned'
        /\ sibling'.running => sibling'.depth = depth
    BY <2>1, LoopTestIs
  <2>3. /\ NextIndex(top) \in StackEntry
        /\ NextIndex(top).PropertyIndex = top.PropertyIndex + 1
    BY <1>2, NextIndexFacts
  <2>4. RootOf(top', stack') = RootOf(NextIndex(top), stack)
    BY <1>2, <2>1, <2>3, NextPropertyRoot
  <2>5. Nesting = OuterNesting(stack)
    <3>1. LeftBegins(top, subState) = 0
      BY <2>1 DEF LeftBegins
    <3>2. OuterNesting(stack) \in Nat
      BY <1>2, NoOuterNesting
    <3> QED BY <3>1, <3>2, NestingIs
  <2>6. depth = 0 <=> stack = << >>
    BY <1>2, <2>5, NoOuterNesting
  <2>7. RootOf(top', stack') = RootOf(top, stack) + One(depth = 0)
    BY <1>2, <2>3, <2>4, <2>6 DEF RootOf, One
  <2>8. CASE subState' = "Error" /\ returned' = FALSE /\ lastError' \in {"INVALID_DATA", "UNSUPPORTED_TYPE"}
    BY <1>1, <2>2, <2>8 DEF LoopMoved
  <2>9. CASE subState' = "AfterLastItem" /\ returned' = FALSE /\ lastError' = "SUCCESS"
             /\ stack = << >> /\ stack' = << >>
    BY <1>1, <2>2, <2>6, <2>7, <2>9 DEF LoopMoved, One
  <2>10. CASE /\ subState' \in {"StructEnd", "Value_Scalar", "ArrayBegin", "StructBegin"}
              /\ returned' = TRUE
              /\ lastError' # "SUCCESS" => lastError' = lastError /\ subState' = "ArrayBegin"
    <3>1. AtItem' /\ lastError' = "SUCCESS"
      BY <2>10 DEF AtItem, PositionedSubStates
    <3>2. Nesting' = Nesting
      BY <1>5, <2>10, SkipSimpleArrayNesting
    <3>3. CASE depth > 0
      <4>1. RootOf(top', stack') = RootOf(top, stack)
        BY <1>2, <2>7, <3>3 DEF One
      <4> QED BY <1>1, <2>2, <2>10, <3>1, <3>2, <3>3, <4>1 DEF LoopMoved
    <3>4. CASE depth = 0
      BY <1>1, <2>2, <2>7, <3>1, <3>2, <3>4 DEF LoopMoved, One
    <3> QED BY <3>3, <3>4
  <2> QED BY <2>1, <2>8, <2>9, <2>10, NextPropertyReports
<1> QED BY <1>4, <1>5

-----------------------------------------------------------------------------
(* Steps before a text is expanded. *)

\* A step that keeps the format's record but for where the call is.
LEMMA RecordFacts ==
  ASSUME format \in FormatRecord, NEW step \in FormatStep
  PROVE  LET f == [format EXCEPT !.at = step]
         IN  /\ f \in FormatRecord /\ f.at = step
             /\ f.message = format.message /\ f.mark = format.mark /\ f.trailing = format.trailing
             /\ f.start = format.start /\ f.hurt = format.hurt /\ f.rendering = format.rendering
BY DEF FormatRecord

\* The record of no call.
LEMMA NoFormatFacts ==
  /\ NoFormat \in FormatRecord /\ NoFormat.at = "idle" /\ ~NoFormat.message /\ ~NoFormat.hurt
  /\ NoFormat.trailing = MaxRecursionLimit /\ NoFormat.mark = 0 /\ ~NoFormat.rendering.printf
BY DEF NoFormat, FormatRecord, FormatStep

\* Nothing is being expanded.
LEMMA NotExpanding ==
  ASSUME LoopInv', StageInv', BufferInv', PropsInv', ~InExpansion'
  PROVE  FormatInv'
<1>1. ~(FormatAt("json") /\ frames # << >>)'
  BY DEF InExpansion
<1> QED BY <1>1 DEF FormatInv, FrameInv, UseInv, SpaceInv, JsonLevelInv

\* The failure of a move, or of a call to a property that is read again.
LEMMA MoveFails ==
  ASSUME FormatInv, format.at \in {"firstItem", "properties"},
         lastError' \in {"INVALID_DATA", "UNSUPPORTED_TYPE", "OUTOFMEMORY"},
         GoToDone(lastError', lastError' = "OUTOFMEMORY"),
         PosInv', ~sibling'.running,
         UNCHANGED <<event, settings, list, jsonVars, scratch, frames, call>>
  PROVE  FormatInv'
<1>1. json' = json /\ json = NoJson /\ output' = output /\ request' = request
  BY DEF jsonVars, FormatInv, LoopInv, FormatAt
<1>2. lastError' \in Status \ {"SUCCESS"} /\ lastError' # "MR_MID_NOT_FOUND"
  BY DEF Status
<1> DEFINE status == lastError'
           hurt == lastError' = "OUTOFMEMORY"
<1>3. status \in Status \ {"SUCCESS"} /\ status # "MR_MID_NOT_FOUND" /\ lastError' = status
      /\ GoToDone(status, hurt) /\ hurt \in BOOLEAN
  BY <1>2
<1>4. UNCHANGED <<event, output, request, scratch, call>>
  BY <1>1
<1> HIDE DEF status, hurt
<1> QED BY <1>1, <1>3, <1>4, AbandonKeeps

\* The move to the first item.
LEMMA MoveToFirstItemKeeps ==
  ASSUME FormatInv, MoveToFirstItem
  PROVE  FormatInv'
<1>1. /\ FormatAt("firstItem") /\ Move /\ props' = << >> /\ sibling' = sibling
      /\ UNCHANGED <<event, settings, list, jsonVars, scratch, frames, call>>
  BY DEF MoveToFirstItem, GoOnAfterMove
<1>2. /\ event' = event /\ output' = output /\ json' = json /\ request' = request
      /\ scratch' = scratch /\ frames' = frames /\ call' = call
  BY <1>1 DEF jsonVars
<1>3. /\ PosInv /\ RequestInv /\ json = NoJson /\ event # NoEvent /\ AtStart /\ ~sibling.running
      /\ format \in FormatRecord /\ call \in CallRecord
      /\ call.kind # "None" /\ call.message # NoMessage /\ call.kind # "Prefix"
      /\ ~format.rendering.printf /\ ~format.hurt
      /\ IsText(output) /\ IsText(scratch) /\ frames = << >> /\ scratch = << >>
  BY <1>1 DEF FormatInv, LoopInv, CallInv, StageInv, BufferInv, Swapped, FormatAt, NoFormatting
<1>4. PosInv'
  <2>1. Next
    BY <1>1, <1>3 DEF Next, MoveNext, Idle
  <2> QED BY <1>3, <2>1, NextPosInv
<1>5. MoveReported
  BY <1>1, <1>3, MoveReports
<1>6. lastError' = "SUCCESS" \/ lastError' \in {"INVALID_DATA", "UNSUPPORTED_TYPE", "OUTOFMEMORY"}
  BY <1>3, <1>5 DEF MoveReported, AtStart
<1>7. CASE lastError' # "SUCCESS"
  <2>1. GoToDone(lastError', lastError' = "OUTOFMEMORY")
    BY <1>7 DEF MoveToFirstItem, GoOnAfterMove
  <2> QED BY <1>1, <1>2, <1>3, <1>4, <1>6, <1>7, <2>1, MoveFails DEF FormatAt
<1>8. CASE lastError' = "SUCCESS"
  <2> DEFINE tr == IF call.kind = "Event" THEN InitialRecursionLimit ELSE MaxRecursionLimit
             m == Len(output)
  <2>1. format' = [format EXCEPT !.at = "properties", !.message = TRUE, !.mark = m, !.trailing = tr]
    BY <1>8 DEF MoveToFirstItem, GoOnAfterMove
  <2>2. tr \in {InitialRecursionLimit, MaxRecursionLimit} /\ m \in Nat
    BY <1>3, TextIntro DEF IsText
  <2> HIDE DEF tr, m
  <2>3. /\ format' \in FormatRecord /\ format'.at = "properties" /\ format'.message = TRUE
        /\ format'.mark = m /\ format'.hurt = format.hurt /\ format'.rendering = format.rendering
    BY <1>3, <2>1, <2>2 DEF FormatRecord, FormatStep
  <2>4. stack = << >> /\ Nesting = 0 /\ ~AtItem
    <3>1. subState = "BeforeFirstItem"
      BY <1>3 DEF AtStart
    <3>2. stack = << >>
      BY <1>3, <3>1 DEF PosInv, PositionOK
    <3> QED BY <1>3, <3>1, <3>2, NestingFacts DEF AtItem
  <2>5. subState' # "Error" /\ Nesting + DepthChange = 0
    <3>1. DepthChange = 0
      BY <1>3, NestingFacts DEF AtStart
    <3>2. subState' # "Error"
      BY <1>5, <1>8 DEF MoveReported, ItemSubStates, PositionedSubStates
    <3> QED BY <2>4, <3>1, <3>2
  <2>6. RootOf(top', stack') = 0
    <3>1. RootOf(top', stack') = RootOf(top, stack) + One(FALSE)
      BY <1>1, <1>3, <2>4, <2>5, MoveRoot
    <3> QED BY <1>3, <2>4, <3>1 DEF AtStart, RootOf, One
  <2>7. (AtItem' /\ Nesting' = 0) \/ (subState' = "AfterLastItem" /\ stack' = << >>)
    BY <1>5, <2>5 DEF MoveReported, AtItem, ItemSubStates, PositionedSubStates
  <2>8. /\ 0 <= event'.tei.TopLevelPropertyCount /\ stack' = << >> /\ top'.PropertyIndex = 0
        /\ 0 = event'.tei.TopLevelPropertyCount => subState' = "AfterLastItem"
        /\ 0 < event'.tei.TopLevelPropertyCount => AtItem' /\ Nesting' = 0
    BY <1>2, <1>3, <1>4, <2>6, <2>7, AtNextProperty
  <2>9. LoopInv'
    BY <1>2, <1>3, <1>4, <2>3, QuietCall DEF LoopInv, FormatAt
  <2>10. StageInv'
    BY <1>1, <1>2, <1>3, <1>8, <2>3 DEF StageInv, FormatAt, NoFormatting, Expanding, FormatInv
  <2>11. BufferInv'
    BY <1>2, <1>3, <2>2, <2>3 DEF BufferInv, FormatAt, Swapped, OutputNow, m
  <2>12. PropsInv'
    <3>1. props' \in Seq(PropInfo) /\ Len(props') = 0 /\ DOMAIN props' = {}
      BY <1>1, EmptySeq
    <3> QED BY <1>1, <1>3, <2>3, <2>8, <3>1 DEF PropsInv, FormatAt, InExpansion, Expanding, Idle
  <2>13. ~InExpansion'
    BY <2>3 DEF InExpansion, Expanding, FormatAt
  <2> QED BY <2>9, <2>10, <2>11, <2>12, <2>13, NotExpanding
<1> QED BY <1>7, <1>8

\* What holds while the properties are collected.
LEMMA CollectingFacts ==
  ASSUME FormatInv, FormatAt("properties")
  PROVE  /\ PosInv /\ RequestInv /\ json = NoJson /\ event # NoEvent /\ lastError = "SUCCESS"
         /\ format \in FormatRecord /\ call \in CallRecord /\ format.message
         /\ call.kind # "None" /\ call.message # NoMessage /\ call.kind # "Prefix"
         /\ ~format.rendering.printf /\ ~format.hurt
         /\ IsText(output) /\ IsText(scratch) /\ frames = << >> /\ scratch = << >>
         /\ format.mark <= Len(output)
         /\ props \in Seq(PropInfo) /\ (\A n \in DOMAIN props : Readable(props[n]) /\ ~props[n].inUse)
BY DEF FormatInv, LoopInv, CallInv, StageInv, BufferInv, PropsInv, Swapped, OutputNow, FormatAt, NoFormatting

\* A step that goes on collecting them.
Collects ==
    /\ PosInv' /\ lastError' = "SUCCESS"
    /\ UNCHANGED <<event, settings, list, jsonVars, scratch, frames, call>>
    /\ format' \in FormatRecord
    /\ format'.at = format.at /\ format'.message = format.message /\ format'.mark = format.mark
    /\ format'.hurt = format.hurt /\ format'.rendering = format.rendering

\* Its part that is not about the properties.
LEMMA CollectingKeeps ==
  ASSUME FormatInv, FormatAt("properties"), Collects, PropsInv'
  PROVE  FormatInv'
<1>1. /\ event' = event /\ output' = output /\ json' = json /\ request' = request
      /\ scratch' = scratch /\ frames' = frames /\ call' = call
  BY DEF Collects, jsonVars
<1>2. format'.at = "properties"
  BY DEF Collects, FormatAt
<1>3. LoopInv'
  BY <1>1, <1>2, CollectingFacts, QuietCall DEF LoopInv, FormatAt, Collects
<1>4. StageInv'
  BY <1>1, <1>2, CollectingFacts DEF StageInv, FormatAt, NoFormatting, Expanding, Collects
<1>5. BufferInv'
  BY <1>1, <1>2, CollectingFacts DEF BufferInv, FormatAt, Swapped, OutputNow, Collects
<1>6. ~InExpansion'
  BY <1>2 DEF InExpansion, Expanding, FormatAt
<1> QED BY <1>3, <1>4, <1>5, <1>6, NotExpanding

\* One property more.
LEMMA Collected ==
  ASSUME FormatInv, FormatAt("properties"), Collects, ~sibling'.running,
         RootOf(top', stack') = Len(props) + 1,
         (AtItem' /\ Nesting' = 0) \/ (subState' = "AfterLastItem" /\ stack' = << >>),
         NEW pi \in PropInfo, Readable(pi), ~pi.inUse, props' = Append(props, pi)
  PROVE  FormatInv'
<1>1. /\ event' = event /\ event # NoEvent /\ format'.at = "properties" /\ format'.message
      /\ props \in Seq(PropInfo) /\ (\A n \in DOMAIN props : Readable(props[n]) /\ ~props[n].inUse)
  BY CollectingFacts DEF Collects, FormatAt
<1> DEFINE n == Len(props) + 1
<1>2. /\ n \in Nat /\ n <= event'.tei.TopLevelPropertyCount /\ stack' = << >>
      /\ top'.PropertyIndex = n
      /\ n = event'.tei.TopLevelPropertyCount => subState' = "AfterLastItem"
      /\ n < event'.tei.TopLevelPropertyCount => AtItem' /\ Nesting' = 0
  BY <1>1, AtNextProperty DEF Collects
<1>3. /\ props' \in Seq(PropInfo) /\ Len(props') = n /\ DOMAIN props' = 1 .. n
      /\ \A k \in 1 .. n : props'[k] = pi \/ (k \in DOMAIN props /\ props'[k] = props[k])
  <2>1. Len(props) \in Nat /\ DOMAIN props = 1 .. Len(props)
    BY <1>1, LenProperties
  <2>2. /\ props' \in Seq(PropInfo) /\ Len(props') = Len(props) + 1
        /\ \A k \in 1 .. Len(props) : props'[k] = props[k]
        /\ props'[Len(props) + 1] = pi
    BY <1>1, AppendProperties
  <2>3. \A k \in 1 .. Len(props) + 1 : k \in 1 .. Len(props) \/ k = Len(props) + 1
    BY <2>1
  <2>4. DOMAIN props' = 1 .. Len(props')
    BY <2>2, LenProperties
  <2> QED BY <2>1, <2>2, <2>3, <2>4
<1> HIDE DEF n
<1>4. \A k \in DOMAIN props' : Readable(props[k])' /\ ~props'[k].inUse
  <2>1. ASSUME NEW k \in DOMAIN props' PROVE Readable(props[k])' /\ ~props'[k].inUse
    <3>1. CASE props'[k] = pi
      BY <1>1, <3>1 DEF Readable
    <3>2. CASE k \in DOMAIN props /\ props'[k] = props[k]
      <4>1. Readable(props[k]) /\ ~props[k].inUse
        BY <1>1, <3>2
      <4> QED BY <1>1, <3>2, <4>1 DEF Readable
    <3> QED BY <1>3, <3>1, <3>2
  <2> QED BY <2>1
<1>5. PropsInv'
  BY <1>1, <1>2, <1>3, <1>4 DEF PropsInv, FormatAt, InExpansion, Expanding, Idle
<1> QED BY <1>5, CollectingKeeps

\* A move from a property of one value.
LEMMA SimplePropertyKeeps ==
  ASSUME FormatInv, SimpleProperty
  PROVE  FormatInv'
<1>1. /\ FormatAt("properties") /\ Idle /\ Len(props) < event.tei.TopLevelPropertyCount
      /\ subState \in ValueSubStates /\ Move /\ sibling' = sibling
      /\ props' = Append(props, ValueInfo(Len(props)))
      /\ UNCHANGED <<event, settings, list, jsonVars, scratch, frames, call>>
  BY DEF SimpleProperty, NextPropertyOfMessage, GoOnAfterMove
<1>2. /\ PosInv /\ event # NoEvent /\ lastError = "SUCCESS" /\ format \in FormatRecord
      /\ ~sibling'.running /\ props \in Seq(PropInfo)
  BY <1>1, CollectingFacts DEF Idle
<1>3. AtItem /\ stack = << >> /\ Nesting = 0 /\ top.PropertyIndex = Len(props)
  BY <1>1 DEF FormatInv, PropsInv
<1>4. PosInv'
  BY <1>1, <1>2, NextPosInv DEF Next, MoveNext
<1>5. MoveReported
  BY <1>1, <1>2, MoveReports
<1>6. DepthChange = 0
  BY <1>1 DEF DepthChange, ValueSubStates
<1>7. CASE lastError' # "SUCCESS"
  <2>1. GoToDone(lastError', lastError' = "OUTOFMEMORY")
    BY <1>7 DEF SimpleProperty, GoOnAfterMove
  <2>2. lastError' \in {"INVALID_DATA", "UNSUPPORTED_TYPE", "OUTOFMEMORY"}
    BY <1>2, <1>5, <1>7 DEF MoveReported
  <2> QED BY <1>1, <1>2, <1>4, <2>1, <2>2, MoveFails DEF FormatAt
<1>8. CASE lastError' = "SUCCESS"
  <2>1. format' = format
    BY <1>8 DEF SimpleProperty, GoOnAfterMove
  <2>2. subState' # "Error"
    BY <1>5, <1>8 DEF MoveReported, ItemSubStates, PositionedSubStates
  <2>3. RootOf(top', stack') = Len(props) + 1
    <3>1. RootOf(top', stack') = RootOf(top, stack) + One(AtItem /\ Nesting + DepthChange = 0)
      BY <1>1, <1>2, <2>2, MoveRoot
    <3> QED BY <1>3, <1>6, <3>1 DEF RootOf, One
  <2>4. (AtItem' /\ Nesting' = 0) \/ (subState' = "AfterLastItem" /\ stack' = << >>)
    BY <1>3, <1>5, <1>6, <1>8 DEF MoveReported, AtItem, ItemSubStates, PositionedSubStates
  <2>5. Collects
    BY <1>1, <1>2, <1>4, <1>8, <2>1 DEF Collects
  <2> DEFINE pi == ValueInfo(Len(props))
  <2>6. pi \in PropInfo /\ pi.type = "value" /\ ~pi.inUse
    <3>1. item \in Item
      BY <1>2 DEF PosInv, TypeOK
    <3>2. item.pos \in Nat /\ item.cooked \in Nat /\ item.type \in InType
      BY <3>1, UshortRange, WordValue DEF Item
    <3>3. Len(props) \in Nat
      BY <1>2, LenProperties
    <3> QED BY <3>2, <3>3 DEF ValueInfo, PropInfo
  <2>7. Readable(pi)
    BY <2>6 DEF Readable
  <2> HIDE DEF pi
  <2>8. props' = Append(props, pi)
    BY <1>1 DEF pi
  <2> QED BY <1>1, <1>2, <2>3, <2>4, <2>5, <2>6, <2>7, <2>8, Collected
<1> QED BY <1>7, <1>8

\* One iteration of MoveNextSibling at an array or struct.
LEMMA SkipPropertyKeeps ==
  ASSUME FormatInv, FormatAt("properties"), AtItem, NEW depth \in Nat, Nesting = depth,
         RootOf(top, stack) = Len(props), Len(props) < event.tei.TopLevelPropertyCount,
         NEW start \in Nat, start <= Len(event.UserData),
         SkipSimpleArray(depth) \/ MoveInLoop(depth), SkipProperty(start)
  PROVE  FormatInv'
<1> DEFINE n == Len(props)
<1>1. UNCHANGED <<event, settings, list, jsonVars, scratch, frames, call>>
  BY DEF SkipProperty, GoOnAfterMove
<1>2. /\ PosInv /\ event # NoEvent /\ lastError = "SUCCESS" /\ format \in FormatRecord
      /\ props \in Seq(PropInfo) /\ n \in Nat /\ format.message
      /\ \A k \in DOMAIN props : Readable(props[k]) /\ ~props[k].inUse
  BY CollectingFacts, LenProperties
<1>3. PosInv' /\ event' = event /\ LoopMoved
  BY <1>2, LoopMoves
<1>4. CASE lastError' # "SUCCESS"
  <2>1. GoToDone(lastError', lastError' = "OUTOFMEMORY")
    BY <1>4 DEF SkipProperty, GoOnAfterMove
  <2>2. lastError' \in {"INVALID_DATA", "UNSUPPORTED_TYPE", "OUTOFMEMORY"} /\ ~sibling'.running
    BY <1>3, <1>4 DEF LoopMoved
  <2> QED BY <1>1, <1>3, <2>1, <2>2, MoveFails DEF FormatAt
<1>5. CASE lastError' = "SUCCESS"
  <2>1. format' = [format EXCEPT !.start = start]
    BY <1>5 DEF SkipProperty, GoOnAfterMove
  <2>2. /\ format' \in FormatRecord /\ format'.start = start
        /\ format'.at = format.at /\ format'.message = format.message /\ format'.mark = format.mark
        /\ format'.hurt = format.hurt /\ format'.rendering = format.rendering
    BY <1>2, <2>1 DEF FormatRecord
  <2>3. Collects
    BY <1>1, <1>3, <1>5, <2>2 DEF Collects
  <2>4. CASE sibling'.running
    <3>1. props' = props
      BY <2>4 DEF SkipProperty
    <3>2. AtItem' /\ Nesting' = sibling'.depth /\ RootOf(top', stack') = n
      BY <1>3, <1>5, <2>4 DEF LoopMoved
    <3>3. \A k \in DOMAIN props' : Readable(props[k])' /\ ~props'[k].inUse
      BY <1>2, <1>3, <2>2, <3>1 DEF Readable
    <3>5. format'.start <= Len(event'.UserData) /\ Len(props') < event'.tei.TopLevelPropertyCount
      BY <1>3, <2>2, <3>1
    <3>6. event'.tei.TopLevelPropertyCount \in Nat /\ Len(props') = n
      BY <1>2, <1>3, <3>1, EventFacts DEF PosInv, TypeOK
    <3>7. format'.at = "properties" /\ props' \in Seq(PropInfo)
      BY <1>2, <2>2, <3>1 DEF FormatAt
    <3>4. PropsInv'
      BY <1>2, <2>4, <3>2, <3>3, <3>5, <3>6, <3>7
      DEF PropsInv, FormatAt, InExpansion, Expanding, Idle
    <3> QED BY <2>3, <3>4, CollectingKeeps
  <2>5. CASE ~sibling'.running
    <3> DEFINE pi == JsonInfo(n, start)
    <3>1. pi \in PropInfo /\ pi.index = n /\ pi.pos = start /\ ~pi.inUse
      <4>1. "NULL" \in InType
        BY DEF InType, SupportedTypes, ComplexTypes
      <4> QED BY <1>2, <4>1 DEF JsonInfo, PropInfo
    <3>2. Readable(pi)
      BY <1>2, <3>1 DEF Readable
    <3>3. props' = Append(props, pi)
      BY <2>5 DEF SkipProperty
    <3> HIDE DEF pi
    <3>4. /\ RootOf(top', stack') = n + 1
          /\ (AtItem' /\ Nesting' = 0) \/ (subState' = "AfterLastItem" /\ stack' = << >>)
      BY <1>3, <1>5, <2>5 DEF LoopMoved
    <3> QED BY <2>3, <2>5, <3>1, <3>2, <3>3, <3>4, Collected
  <2> QED BY <2>4, <2>5
<1> QED BY <1>4, <1>5

\* The first iteration, and those after it.
LEMMA ComplexPropertyKeeps ==
  ASSUME FormatInv, ComplexProperty \/ ComplexPropertyLoop
  PROVE  FormatInv'
<1>1. CASE ComplexProperty
  <2>1. /\ FormatAt("properties") /\ Idle /\ Len(props) < event.tei.TopLevelPropertyCount
        /\ SkipSimpleArray(0) \/ MoveInLoop(0)
        /\ SkipProperty(dataNext)
    BY <1>1 DEF ComplexProperty, NextPropertyOfMessage
  <2>2. AtItem /\ Nesting = 0 /\ RootOf(top, stack) = Len(props)
    BY <2>1 DEF FormatInv, PropsInv, RootOf
  <2>3. dataNext \in Nat /\ dataNext <= Len(event.UserData)
    BY <2>1, <2>2, AtItemFacts, PositionedFacts, CollectingFacts
  <2> QED BY <2>1, <2>2, <2>3, SkipPropertyKeeps
<1>2. CASE ComplexPropertyLoop
  <2> DEFINE d == sibling.depth
             s == format.start
  <2>1. /\ FormatAt("properties") /\ sibling.running
        /\ SkipSimpleArray(d) \/ MoveInLoop(d)
        /\ SkipProperty(s)
    BY <1>2 DEF ComplexPropertyLoop
  <2>2. /\ AtItem /\ Nesting = d /\ RootOf(top, stack) = Len(props)
        /\ Len(props) < event.tei.TopLevelPropertyCount /\ s <= Len(event.UserData)
    BY <2>1 DEF FormatInv, PropsInv
  <2>3. s \in Nat /\ d \in Nat
    BY <2>1, CollectingFacts DEF FormatRecord, PosInv, TypeOK
  <2> HIDE DEF d, s
  <2> QED BY <2>1, <2>2, <2>3, SkipPropertyKeeps
<1> QED BY <1>1, <1>2

-----------------------------------------------------------------------------
(* Texts start to be expanded. *)

\* The outer frame.
LEMMA OneFrame ==
  ASSUME NEW text \in Messages \cup {NoMessage} \cup PrefixFormats \cup {<< >>},
         NEW limit \in 0 .. InitialRecursionLimit, NEW isPrefix \in BOOLEAN, isPrefix => limit = 0
  PROVE  LET fs == <<CallersFrame(text, limit)>>
         IN  /\ FramesOK(fs, << >>, text, isPrefix) /\ fs # << >>
             /\ Len(fs) = 1 /\ IndexesOf(fs) = {0} /\ fs[1].i = 1
<1> DEFINE f == CallersFrame(text, limit)
           fs == <<f>>
<1>1. /\ f \in FrameRecord /\ f.i = 1 /\ f.index = 0 /\ f.back = 0 /\ f.text = text
      /\ f.inScratch = FALSE /\ f.limit = limit
  BY DEF CallersFrame, FrameRecord
<1> HIDE DEF f
<1>2. fs \in Seq(FrameRecord) /\ Len(fs) = 1 /\ fs[1] = f
  BY <1>1
<1> HIDE DEF fs
<1>4. Len(<< >>) = 0
  OBVIOUS
<1>3. fs # << >>
  BY <1>2, <1>4
<1>5. EndOf(fs, << >>, 1) = 0
  BY <1>2, <1>4 DEF EndOf
<1>6. OuterOK(fs[1], text, isPrefix)
  BY <1>1, <1>2 DEF OuterOK
<1>7. \A k \in 1 .. Len(fs) : k = 1 /\ fs[k].back = 0
  BY <1>1, <1>2
<1>8. \A k \in 1 .. Len(fs) : fs[k].back <= Len(<< >>) /\ \A j \in 1 .. k : fs[j].back <= fs[k].back
  <2>1. \A k \in 1 .. Len(fs) : \A j \in 1 .. k : j = 1
    BY <1>2
  <2> QED BY <1>4, <1>7, <2>1
<1>9. \A k \in 2 .. Len(fs) : NestedOK(fs, << >>, k)
  BY <1>2
<1>10. FramesOK(fs, << >>, text, isPrefix)
  BY <1>2, <1>3, <1>5, <1>6, <1>8, <1>9 DEF FramesOK
<1>11. IndexesOf(fs) = {0}
  BY <1>1, <1>2 DEF IndexesOf
<1> QED BY <1>1, <1>2, <1>3, <1>10, <1>11 DEF fs, f

\* The first frame of a prefix or of a message.
LEMMA StartsExpanding ==
  ASSUME FormatInv, format.at \in {"prefix", "properties"}, ~sibling.running,
         UNCHANGED <<vars, list, jsonVars, scratch, call>>,
         format' = [format EXCEPT !.at = "expand"],
         NEW limit \in 0 .. InitialRecursionLimit, ~format.message => limit = 0,
         frames' = <<CallersFrame(Source, limit)>>,
         props' \in Seq(PropInfo), \A n \in DOMAIN props' : Readable(props'[n]) /\ ~props'[n].inUse,
         format.message => AtTop
  PROVE  FormatInv'
<1>1. /\ event' = event /\ output' = output /\ json' = json /\ request' = request
      /\ scratch' = scratch /\ call' = call /\ lastError' = lastError /\ subState' = subState
      /\ stack' = stack /\ top' = top /\ sibling' = sibling
  BY DEF vars, jsonVars, position
<1>2. /\ PosInv /\ RequestInv /\ json = NoJson /\ event # NoEvent
      /\ format \in FormatRecord /\ call \in CallRecord /\ call.kind # "None"
      /\ format.message => call.message # NoMessage /\ call.kind # "Prefix" /\ lastError = "SUCCESS"
      /\ ~format.message => format.at = "prefix" /\ format.trailing = MaxRecursionLimit
      /\ ~format.message /\ call.kind # "Prefix" => AtStart
      /\ ~format.rendering.printf /\ ~format.hurt
      /\ IsText(output) /\ IsText(scratch) /\ scratch = << >> /\ format.mark <= Len(output)
  BY DEF FormatInv, LoopInv, CallInv, StageInv, BufferInv, Swapped, OutputNow, FormatAt, NoFormatting
<1>3. /\ format' \in FormatRecord /\ format'.at = "expand"
      /\ format'.message = format.message /\ format'.mark = format.mark
      /\ format'.trailing = format.trailing
      /\ format'.hurt = format.hurt /\ format'.rendering = format.rendering
  <2>1. "expand" \in FormatStep
    BY DEF FormatStep
  <2> QED BY <1>2, <2>1, RecordFacts
<1>4. PosInv'
  <2>1. [Next]_vars
    OBVIOUS
  <2> QED BY <1>2, <2>1, NextPosInv
<1>5. /\ FramesOK(frames', << >>, Source, ~format.message) /\ frames' # << >>
      /\ Len(frames') = 1 /\ IndexesOf(frames') = {0} /\ frames'[1].i = 1
  <2>1. Source \in Messages \cup {NoMessage} \cup PrefixFormats \cup {<< >>}
    BY <1>2 DEF Source, CallRecord
  <2> DEFINE text == Source
             isPrefix == ~format.message
  <2>2. text \in Messages \cup {NoMessage} \cup PrefixFormats \cup {<< >>} /\ isPrefix \in BOOLEAN
    BY <2>1
  <2>3. isPrefix => limit = 0
    OBVIOUS
  <2>4. frames' = <<CallersFrame(text, limit)>>
    OBVIOUS
  <2> HIDE DEF text, isPrefix
  <2>5. LET fs == <<CallersFrame(text, limit)>>
        IN  /\ FramesOK(fs, << >>, text, isPrefix) /\ fs # << >>
            /\ Len(fs) = 1 /\ IndexesOf(fs) = {0} /\ fs[1].i = 1
    BY <2>2, <2>3, OneFrame
  <2>6. /\ FramesOK(frames', << >>, text, isPrefix) /\ frames' # << >>
        /\ Len(frames') = 1 /\ IndexesOf(frames') = {0} /\ frames'[1].i = 1
    BY <2>4, <2>5
  <2> QED BY <2>6 DEF text, isPrefix
<1>6. Source' = Source /\ ScratchNow' = << >> /\ Rendering' = {} /\ OutputNow' = output /\ ~Swapped'
  BY <1>1, <1>2, <1>3 DEF Source, ScratchNow, Swapped, Rendering, Expanding, FormatAt, OutputNow
<1>7. LoopInv'
  BY <1>1, <1>2, <1>3, <1>4, QuietCall DEF LoopInv, FormatAt
<1>8. StageInv'
  <2>1. call.kind = "Message" => call.message # NoMessage
    BY DEF FormatInv, StageInv
  <2> QED BY <1>1, <1>2, <1>3, <2>1 DEF StageInv, FormatAt, NoFormatting, Expanding, AtStart, AtTop
<1>9. PropsInv'
  <2>1. \A n \in DOMAIN props' : Readable(props[n])'
    BY <1>1, <1>3 DEF Readable
  <2> QED BY <1>3, <2>1 DEF PropsInv, FormatAt
<1>10. BufferInv'
  BY <1>1, <1>2, <1>3, <1>6 DEF BufferInv, FormatAt
<1>11. FrameInv'
  BY <1>2, <1>3, <1>5, <1>6 DEF FrameInv
<1>12. UseInv'
  <2>1. {n \in 1 .. Len(props') : props'[n].inUse} = {}
    BY LenProperties
  <2>2. \A j, k \in 1 .. Len(frames') : j = k
    BY <1>5
  <2> QED BY <1>5, <1>6, <2>1, <2>2 DEF UseInv, UsesOK
<1>13. SpaceInv'
  BY <1>5 DEF SpaceInv
<1>14. JsonLevelInv'
  BY <1>3 DEF JsonLevelInv, FormatAt
<1> QED BY <1>7, <1>8, <1>9, <1>10, <1>11, <1>12, <1>13, <1>14 DEF FormatInv

LEMMA ExpandMessageKeeps ==
  ASSUME FormatInv, ExpandMessage
  PROVE  FormatInv'
<1>1. /\ FormatAt("properties") /\ Idle /\ Len(props) = event.tei.TopLevelPropertyCount
      /\ frames' = <<CallersFrame(call.message, InitialRecursionLimit)>>
      /\ format' = [format EXCEPT !.at = "expand"]
      /\ UNCHANGED <<vars, list, jsonVars, scratch, props, call>>
  BY DEF ExpandMessage
<1>2. /\ PosInv /\ event # NoEvent /\ format.message /\ props \in Seq(PropInfo)
      /\ \A n \in DOMAIN props : Readable(props[n]) /\ ~props[n].inUse
  BY <1>1, CollectingFacts
<1>3. subState = "AfterLastItem"
  BY <1>1 DEF FormatInv, PropsInv
<1>4. stack = << >> /\ FollowsTei(event, top, stack)
  BY <1>2, <1>3 DEF PosInv, PositionOK
<1>5. AtTop
  <2>1. Len(<< >>) = 0
    OBVIOUS
  <2> QED BY <1>4, <2>1 DEF AtTop, FollowsTei, InGroup
<1>6. InitialRecursionLimit \in 0 .. InitialRecursionLimit
  BY DEF InitialRecursionLimit
<1>7. Source = call.message
  BY <1>2 DEF Source
<1>8. format.at \in {"prefix", "properties"} /\ ~sibling.running
  BY <1>1 DEF FormatAt, Idle
<1> QED BY <1>1, <1>2, <1>5, <1>6, <1>7, <1>8, StartsExpanding

LEMMA AddPrefixKeeps ==
  ASSUME FormatInv, AddPrefix
  PROVE  FormatInv'
<1>1. /\ FormatAt("prefix") /\ frames' = <<CallersFrame(call.prefix, 0)>>
      /\ format' = [format EXCEPT !.at = "expand"]
      /\ props' = [n \in 1 .. 9 |-> FieldInfo(n)]
      /\ UNCHANGED <<vars, list, jsonVars, scratch, call>>
  BY DEF AddPrefix
<1>2. ~format.message /\ format.at \in {"prefix", "properties"} /\ ~sibling.running
  BY <1>1 DEF FormatInv, StageInv, FormatAt, NoFormatting
<1>3. Source = call.prefix
  BY <1>2 DEF Source
<1>4. \A n \in 1 .. 9 : FieldInfo(n) \in PropInfo /\ FieldInfo(n).type = "field" /\ ~FieldInfo(n).inUse
  <2>1. "NULL" \in InType
    BY DEF InType, SupportedTypes, ComplexTypes
  <2> QED BY <2>1 DEF FieldInfo, PropInfo
<1>5. props' \in [1 .. 9 -> PropInfo]
  BY <1>1, <1>4
<1>6. props' \in Seq(PropInfo) /\ DOMAIN props' = 1 .. 9
  BY <1>5, SeqDef
<1>7. \A n \in DOMAIN props' : Readable(props'[n]) /\ ~props'[n].inUse
  <2>1. \A n \in 1 .. 9 : props'[n] = FieldInfo(n)
    BY <1>1
  <2> QED BY <1>4, <1>6, <2>1 DEF Readable
<1>8. 0 \in 0 .. InitialRecursionLimit
  BY DEF InitialRecursionLimit
<1> QED BY <1>1, <1>2, <1>3, <1>6, <1>7, <1>8, StartsExpanding

-----------------------------------------------------------------------------
(* Steps of the expansion. *)

\* What holds while a text is expanded.
LEMMA ExpansionFacts ==
  ASSUME FormatInv, Expanding
  PROVE  /\ PosInv /\ RequestInv /\ json = NoJson /\ event # NoEvent /\ ~sibling.running
         /\ format \in FormatRecord /\ call \in CallRecord /\ call.kind # "None"
         /\ format.message => /\ call.message # NoMessage /\ call.kind # "Prefix"
                              /\ lastError = "SUCCESS" /\ AtTop
         /\ ~format.message => format.trailing = MaxRecursionLimit
         /\ ~format.message /\ call.kind # "Prefix" => AtStart
         /\ call.kind = "Message" => call.message # NoMessage
         /\ ~format.rendering.printf /\ ~format.hurt
         /\ IsText(output) /\ IsText(scratch) /\ format.mark <= Len(output)
         /\ props \in Seq(PropInfo) /\ (\A n \in DOMAIN props : Readable(props[n]))
         /\ FramesOK(frames, scratch, Source, ~format.message) /\ UsesOK(frames, props, {})
<1>1. InExpansion /\ Rendering = {}
  BY DEF InExpansion, Rendering
<1>2. ~format.rendering.printf
  BY DEF FormatInv, StageInv, Expanding, FormatAt
<1>3. ScratchNow = scratch /\ OutputNow = output
  BY <1>2 DEF ScratchNow, OutputNow, Swapped
<1>4. LoopInv /\ StageInv /\ PropsInv /\ BufferInv /\ FrameInv /\ UseInv
  BY DEF FormatInv
<1>5. /\ PosInv /\ RequestInv /\ json = NoJson
  BY <1>4 DEF LoopInv, CallInv, Expanding, FormatAt
<1>6. /\ event # NoEvent /\ ~sibling.running
      /\ format \in FormatRecord /\ call \in CallRecord /\ call.kind # "None"
      /\ format.message => /\ call.message # NoMessage /\ call.kind # "Prefix"
                           /\ lastError = "SUCCESS" /\ AtTop
      /\ ~format.message /\ call.kind # "Prefix" => AtStart
      /\ call.kind = "Message" => call.message # NoMessage
      /\ ~format.hurt
  BY <1>4 DEF StageInv, Expanding, FormatAt, NoFormatting
<1>7. IsText(output) /\ IsText(scratch) /\ format.mark <= Len(output)
  BY <1>3, <1>4 DEF BufferInv
<1>8. /\ props \in Seq(PropInfo) /\ (\A n \in DOMAIN props : Readable(props[n]))
      /\ FramesOK(frames, scratch, Source, ~format.message) /\ UsesOK(frames, props, {})
      /\ ~format.message => format.trailing = MaxRecursionLimit
  BY <1>1, <1>3, <1>4 DEF PropsInv, FrameInv, UseInv
<1> QED BY <1>2, <1>5, <1>6, <1>7, <1>8

\* A step of the expansion that goes on.
LEMMA ExpandingKeeps ==
  ASSUME FormatInv, Expanding,
         UNCHANGED <<Unmoved, json, request, call, format>>, lastError' = "SUCCESS",
         IsText(output'), format.mark <= Len(output'), IsText(scratch'),
         props' \in Seq(PropInfo), \A n \in DOMAIN props' : Readable(props'[n]),
         FramesOK(frames', scratch', Source, ~format.message), UsesOK(frames', props', {}),
         SpaceInv'
  PROVE  FormatInv'
<1>1. /\ event' = event /\ json' = json /\ request' = request
      /\ call' = call /\ subState' = subState /\ format' = format
      /\ stack' = stack /\ top' = top /\ sibling' = sibling
  BY DEF Unmoved, position
<1>2. PosInv'
  <2>1. /\ UNCHANGED <<event, position, stackCapacity, sibling, valuesCapacity>>
        /\ pointerSizeFallback' = pointerSizeFallback /\ returned' = returned
    BY DEF Unmoved, settings
  <2>2. pointerSizeFallback' \in {4, 8} /\ returned' \in BOOLEAN /\ lastError' \in Status
    BY <2>1, ExpansionFacts DEF PosInv, TypeOK, Status
  <2> QED BY <2>1, <2>2, ExpansionFacts, ReportKeepsPosInv
<1>3. LoopInv'
  BY <1>1, <1>2, ExpansionFacts, QuietCall DEF LoopInv, FormatAt, Expanding
<1>4. StageInv'
  BY <1>1, ExpansionFacts DEF StageInv, FormatAt, NoFormatting, Expanding, AtStart, AtTop
<1>5. PropsInv'
  <2>1. \A n \in DOMAIN props' : Readable(props[n])'
    BY <1>1 DEF Readable
  <2> QED BY <1>1, <2>1 DEF PropsInv, FormatAt, Expanding
<1>6. ~Swapped' /\ Source' = Source /\ ScratchNow' = scratch' /\ OutputNow' = output' /\ Rendering' = {}
  BY <1>1, ExpansionFacts DEF Source, ScratchNow, Swapped, Rendering, Expanding, FormatAt, OutputNow
<1>7. BufferInv'
  BY <1>1, <1>6 DEF BufferInv, FormatAt, Expanding
<1>8. FrameInv'
  BY <1>1, <1>6, ExpansionFacts DEF FrameInv
<1>9. UseInv'
  BY <1>6 DEF UseInv
<1>10. JsonLevelInv'
  BY <1>1 DEF JsonLevelInv, FormatAt, Expanding
<1> QED BY <1>3, <1>4, <1>5, <1>7, <1>8, <1>9, <1>10 DEF FormatInv

\* The token at hand is of the outer text, or of the innermost part of the scratch buffer.
LEMMA TokenIs ==
  ASSUME FormatInv, Expanding
  PROVE  /\ Len(frames) \in Nat /\ Len(frames) >= 1 /\ Frame = frames[Len(frames)]
         /\ Frame \in FrameRecord
         /\ Len(frames) > 1 => /\ Token = scratch[frames[Len(frames)].i]
                               /\ Frame.limit < InitialRecursionLimit
         /\ Len(frames) = 1 =>
              /\ scratch = << >> /\ frames[1].back = 0 /\ frames[1].index = 0
              /\ ~format.message => Frame.limit = 0
              /\ \A i : TokenAt(i) = IF i \in DOMAIN Source THEN Source[i] ELSE Nul
<1> DEFINE n == Len(frames)
<1>1. /\ FramesOK(frames, scratch, Source, ~format.message) /\ IsText(scratch)
  BY ExpansionFacts
<1>2. /\ n \in Nat /\ n >= 1 /\ Len(scratch) \in Nat
      /\ \A k \in 1 .. n : frames[k] \in FrameRecord
      /\ Last(frames) = frames[n] /\ EndOf(frames, scratch, n) = Len(scratch)
      /\ n = 1 => Len(scratch) = 0
  BY <1>1, FrameFacts
<1>3. Frame = frames[n] /\ n \in 1 .. n
  BY <1>2 DEF Frame
<1>4. ASSUME n > 1 PROVE Token = scratch[frames[n].i] /\ Frame.limit < InitialRecursionLimit
  <2>1. NestedOK(frames, scratch, n)
    BY <1>1, <1>2, <1>4 DEF FramesOK
  <2>2. frames[n].inScratch /\ frames[n].i \in frames[n].back + 1 .. Len(scratch) /\ frames[n].back \in Nat
        /\ frames[n].limit < InitialRecursionLimit
    BY <1>2, <1>3, <2>1 DEF NestedOK, FrameRecord
  <2>3. frames[n].i \in 1 .. Len(scratch)
    BY <1>2, <2>2
  <2>4. DOMAIN scratch = 1 .. Len(scratch)
    BY <1>1, TextIntro DEF IsText
  <2> QED BY <1>3, <2>2, <2>3, <2>4 DEF Token, TokenAt
<1>5. ASSUME n = 1
      PROVE  /\ scratch = << >> /\ frames[1].back = 0 /\ frames[1].index = 0
             /\ ~format.message => Frame.limit = 0
             /\ \A i : TokenAt(i) = IF i \in DOMAIN Source THEN Source[i] ELSE Nul
  <2>1. OuterOK(frames[1], Source, ~format.message)
    BY <1>1 DEF FramesOK
  <2>2. ~frames[1].inScratch /\ frames[1].text = Source /\ frames[1].back = 0 /\ frames[1].index = 0
        /\ (~format.message => frames[1].limit = 0)
    BY <2>1 DEF OuterOK
  <2>3. scratch = << >>
    BY <1>1, <1>2, <1>5, EmptySeq DEF IsText
  <2> QED BY <1>3, <1>5, <2>2, <2>3 DEF TokenAt
<1> QED BY <1>2, <1>3, <1>4, <1>5

\* The token is read.
LEMMA ConsumeKeeps ==
  ASSUME FormatInv, Expanding, Token # Nul
  PROVE  /\ Consume = Advanced(frames) /\ FramesOK(Consume, scratch, Source, ~format.message)
         /\ UsesOK(Consume, props, {}) /\ Len(Consume) = Len(frames)
         /\ \A k \in 1 .. Len(frames) : Consume[k].index = frames[k].index
         /\ Consume[Len(frames)].limit = Frame.limit
         /\ Consume[1].i = IF Len(frames) = 1 THEN frames[1].i + 1 ELSE frames[1].i
<1> DEFINE fs == frames
           source == Source
           isPrefix == ~format.message
<1>1. /\ FramesOK(fs, scratch, source, isPrefix) /\ IsText(scratch) /\ UsesOK(fs, props, {})
  BY ExpansionFacts
<1>2. Consume = Advanced(fs)
  BY DEF Consume, Advanced
<1>3. Len(fs) > 1 => scratch[fs[Len(fs)].i] # Nul
  BY TokenIs
<1>4. Len(fs) \in Nat /\ Len(fs) >= 1 /\ Frame = fs[Len(fs)]
  BY TokenIs
<1> HIDE DEF fs, source, isPrefix
<1>5. FramesOK(Advanced(fs), scratch, source, isPrefix)
  BY <1>1, <1>3, AdvanceFrame
<1>6. /\ Len(Advanced(fs)) = Len(fs)
      /\ \A k \in 1 .. Len(fs) :
           /\ Advanced(fs)[k].index = fs[k].index /\ Advanced(fs)[k].limit = fs[k].limit
           /\ Advanced(fs)[k].i = IF k = Len(fs) THEN fs[k].i + 1 ELSE fs[k].i
  BY <1>1, AdvancedIs DEF FramesOK
<1>7. UsesOK(Advanced(fs), props, {})
  BY <1>1, <1>6, SameUses
<1>8. 1 \in 1 .. Len(fs) /\ Len(fs) \in 1 .. Len(fs)
  BY <1>4
<1>9. /\ \A k \in 1 .. Len(fs) : Advanced(fs)[k].index = fs[k].index
      /\ Advanced(fs)[Len(fs)].limit = fs[Len(fs)].limit
      /\ Advanced(fs)[1].i = IF Len(fs) = 1 THEN fs[1].i + 1 ELSE fs[1].i
  BY <1>6, <1>8
<1>10. /\ Consume = Advanced(fs) /\ FramesOK(Consume, scratch, source, isPrefix)
       /\ UsesOK(Consume, props, {}) /\ Len(Consume) = Len(fs)
       /\ \A k \in 1 .. Len(fs) : Consume[k].index = fs[k].index
       /\ Consume[Len(fs)].limit = Frame.limit
       /\ Consume[1].i = IF Len(fs) = 1 THEN fs[1].i + 1 ELSE fs[1].i
  BY <1>2, <1>4, <1>5, <1>6, <1>7, <1>9
<1> QED BY <1>10 DEF fs, source, isPrefix

\* In a nested frame the outer frame has not just passed a space.
LEMMA NoSpaceOutside ==
  ASSUME FormatInv, InExpansion, Len(frames) # 1 \/ ~Expanding
  PROVE  ~(frames[1].i > 1 /\ frames[1].i - 1 \in DOMAIN Source /\ Source[frames[1].i - 1] = Space)
BY DEF FormatInv, SpaceInv

\* Text goes to the output.
LEMMA EmitKeeps ==
  ASSUME FormatInv, Expanding, Token # Nul, NEW tokens, IsText(tokens), Token = Space => tokens = <<Space>>,
         Emit(tokens)
  PROVE  FormatInv'
<1>1. /\ output' = output \o tokens /\ frames' = Consume /\ lastError' = "SUCCESS"
      /\ scratch' = scratch /\ props' = props /\ format' = format /\ call' = call
      /\ UNCHANGED <<Unmoved, json, request, call, format>>
  BY DEF Emit
<1>2. IsText(output) /\ format.mark <= Len(output) /\ format.mark \in Nat
  BY ExpansionFacts DEF FormatRecord
<1>3. /\ IsText(output') /\ Len(output') = Len(output) + Len(tokens)
      /\ Len(output) \in Nat /\ Len(tokens) \in Nat
      /\ \A k \in Len(output) + 1 .. Len(output) + Len(tokens) : output'[k] = tokens[k - Len(output)]
  BY <1>1, <1>2, TextConcat
<1>4. format.mark <= Len(output')
  BY <1>2, <1>3
<1>5. Source' = Source /\ Expanding'
  BY <1>1 DEF Source, Expanding, FormatAt
<1>6. /\ Len(frames') = Len(frames)
      /\ frames'[1].i = IF Len(frames) = 1 THEN frames[1].i + 1 ELSE frames[1].i
  BY <1>1, ConsumeKeeps
<1>7. SpaceInv'
  <2>1. CASE Len(frames) # 1
    <3>1. ~(frames[1].i > 1 /\ frames[1].i - 1 \in DOMAIN Source /\ Source[frames[1].i - 1] = Space)
      BY <2>1, NoSpaceOutside DEF InExpansion
    <3> QED BY <1>5, <1>6, <2>1, <3>1 DEF SpaceInv
  <2>2. CASE Len(frames) = 1
    <3>1. SUFFICES ASSUME frames'[1].i - 1 \in DOMAIN Source, Source[frames'[1].i - 1] = Space
                   PROVE  Len(output') > format.mark /\ output'[Len(output')] = Space
      BY <1>1, <1>5, <1>6, <2>2 DEF SpaceInv
    <3>2. frames[1].i \in Nat
      BY <2>2, TokenIs DEF FrameRecord
    <3>3. frames'[1].i - 1 = frames[1].i
      BY <1>6, <2>2, <3>2
    <3>4. Token = Space
      BY <2>2, <3>1, <3>3, TokenIs DEF Token
    <3>5. Len(tokens) = 1 /\ tokens[1] = Space
      BY <3>4
    <3> DEFINE l == Len(output)
    <3>6. l \in Nat /\ Len(output') = l + 1 /\ output'[l + 1] = tokens[l + 1 - l]
      BY <1>3, <3>5
    <3> HIDE DEF l
    <3>7. l + 1 - l = 1
      BY <3>6
    <3>8. output'[Len(output')] = Space
      BY <3>5, <3>6, <3>7
    <3>9. Len(output') > format.mark
      BY <1>2, <3>6 DEF l
    <3> QED BY <3>8, <3>9
  <2> QED BY <2>1, <2>2
<1> QED BY <1>1, <1>3, <1>4, <1>7, ExpansionFacts, ConsumeKeeps, ExpandingKeeps

\* What has been read last is no space, if the token is none.
LEMMA NoSpaceConsumed ==
  ASSUME FormatInv, Expanding, Token # Nul, Token # Space
  PROVE  ~(Consume[1].i > 1 /\ Consume[1].i - 1 \in DOMAIN Source /\ Source[Consume[1].i - 1] = Space)
<1> DEFINE n == Len(frames)
<1>1. n \in Nat /\ n >= 1
  BY TokenIs
<1>2. Consume[1].i = IF n = 1 THEN frames[1].i + 1 ELSE frames[1].i
  BY ConsumeKeeps
<1>3. CASE n # 1
  <2>1. ~(frames[1].i > 1 /\ frames[1].i - 1 \in DOMAIN Source /\ Source[frames[1].i - 1] = Space)
    BY <1>3, NoSpaceOutside DEF InExpansion
  <2> QED BY <1>2, <1>3, <2>1
<1>4. CASE n = 1
  <2>1. frames[1].i \in Nat
    BY <1>4, TokenIs DEF FrameRecord
  <2>2. Consume[1].i - 1 = frames[1].i
    BY <1>2, <1>4, <2>1
  <2>3. frames[1].i \in DOMAIN Source => Source[frames[1].i] = Token
    BY <1>4, TokenIs DEF Token
  <2> QED BY <2>2, <2>3
<1> QED BY <1>3, <1>4

\* A property that is put to use, or is no longer in use, is otherwise what it was.
LEMMA MarkedReadable ==
  ASSUME NEW ps \in Seq(PropInfo), NEW index \in 1 .. Len(ps), \A n \in DOMAIN ps : Readable(ps[n])
  PROVE  \A b \in BOOLEAN :
           LET qs == Marked(ps, index, b)
           IN  qs \in Seq(PropInfo) /\ Len(qs) = Len(ps) /\ \A n \in DOMAIN qs : Readable(qs[n])
<1> TAKE b \in BOOLEAN
<1> DEFINE qs == Marked(ps, index, b)
<1>1. /\ qs \in Seq(PropInfo) /\ Len(qs) = Len(ps)
      /\ \A k \in 1 .. Len(ps) : /\ qs[k].type = ps[k].type /\ qs[k].index = ps[k].index
                                 /\ qs[k].pos = ps[k].pos
  BY MarkedIs
<1> HIDE DEF qs
<1>2. DOMAIN qs = 1 .. Len(ps) /\ DOMAIN ps = 1 .. Len(ps)
  BY <1>1, LenProperties
<1>3. \A k \in DOMAIN qs : Readable(ps[k])
  BY <1>2
<1>4. \A k \in DOMAIN qs : Readable(qs[k])
  BY <1>1, <1>2, <1>3 DEF Readable
<1> QED BY <1>1, <1>4 DEF qs

\* A text goes to the scratch buffer, to be expanded from there.
LEMMA PushKeeps ==
  ASSUME FormatInv, Expanding, Token # Nul, Token # Space, Frame.limit > 0,
         NEW text, Nulless(text), NEW index \in Nat, ExpandFromScratch(text, index),
         \/ index = 0 /\ props' = props
         \/ index \in 1 .. Len(props) /\ ~props[index].inUse /\ props' = Marked(props, index, TRUE)
  PROVE  FormatInv'
<1> DEFINE fs == Consume
           source == Source
           isPrefix == ~format.message
           n == Len(frames)
           f == Nested(fs, scratch, index)
<1>1. /\ n \in Nat /\ n >= 1 /\ Len(fs) = n /\ fs[n].limit = Frame.limit
      /\ FramesOK(fs, scratch, source, isPrefix) /\ UsesOK(fs, props, {})
      /\ fs[1].i = IF n = 1 THEN frames[1].i + 1 ELSE frames[1].i
  BY TokenIs, ConsumeKeeps
<1>2. /\ scratch' = Append(scratch \o text, Nul) /\ frames' = Append(fs, f)
      /\ lastError' = "SUCCESS" /\ output' = output /\ format' = format /\ call' = call
      /\ UNCHANGED <<Unmoved, json, request, call, format>>
  BY <1>1 DEF ExpandFromScratch, ScratchFrame, Nested, jsonVars
<1>3. IsText(scratch) /\ IsText(output) /\ format.mark <= Len(output) /\ props \in Seq(PropInfo)
  BY ExpansionFacts
<1> HIDE DEF fs, source, isPrefix
<1>4. /\ FramesOK(Append(fs, f), Append(scratch \o text, Nul), source, isPrefix)
      /\ Len(Append(fs, f)) = Len(fs) + 1
      /\ \A k \in 1 .. Len(fs) : Append(fs, f)[k] = fs[k]
      /\ Append(fs, f)[Len(fs) + 1].index = index
      /\ IsText(Append(scratch \o text, Nul))
  BY <1>1, <1>3, PushFrame
<1>5. /\ FramesOK(frames', scratch', source, isPrefix) /\ IsText(scratch') /\ Len(frames') = n + 1
      /\ \A k \in 1 .. n : frames'[k] = fs[k]
      /\ frames'[n + 1].index = index
  BY <1>1, <1>2, <1>4
<1> DEFINE gs == frames'
           qs == props'
<1>6. UsesOK(gs, qs, {})
  <2>1. /\ Len(fs) \in Nat /\ Len(gs) = Len(fs) + 1
        /\ \A k \in 1 .. Len(fs) : gs[k].index = fs[k].index
        /\ gs[Len(fs) + 1].index = index
        /\ UsesOK(fs, props, {}) /\ props \in Seq(PropInfo)
        /\ \/ index = 0 /\ qs = props
           \/ index \in 1 .. Len(props) /\ ~props[index].inUse /\ qs = Marked(props, index, TRUE)
    BY <1>1, <1>3, <1>5
  <2> HIDE DEF gs, qs, f
  <2> QED BY <2>1, PushedUses
<1>7. props' \in Seq(PropInfo) /\ \A k \in DOMAIN props' : Readable(props'[k])
  <2>1. CASE props' = props
    BY <2>1, ExpansionFacts
  <2>2. CASE index \in 1 .. Len(props) /\ props' = Marked(props, index, TRUE)
    <3>1. \A k \in DOMAIN props : Readable(props[k])
      BY ExpansionFacts
    <3>2. LET ps == Marked(props, index, TRUE)
          IN  ps \in Seq(PropInfo) /\ Len(ps) = Len(props) /\ \A k \in DOMAIN ps : Readable(ps[k])
      BY <1>3, <2>2, <3>1, MarkedReadable, Zenon
    <3> QED BY <2>2, <3>2
  <2> QED BY <2>1, <2>2
<1>8. SpaceInv'
  <2>1. frames'[1].i = fs[1].i /\ Source' = Source
    BY <1>1, <1>2, <1>5 DEF Source
  <2> QED BY <2>1, NoSpaceConsumed DEF SpaceInv, fs
<1> QED BY <1>2, <1>3, <1>5, <1>6, <1>7, <1>8, ExpandingKeeps DEF source, isPrefix

\* A call of AddFormatImpl for the outer text returns.
LEMMA ReturnToCallerKeeps ==
  ASSUME FormatInv, Expanding, Len(frames) = 1, ReturnToCaller, frames' = Front(frames),
         lastError' = "SUCCESS", UNCHANGED <<Unmoved, json, request, call>>,
         IsText(output'), format.mark <= Len(output')
  PROVE  FormatInv'
<1> DEFINE next == IF format.message THEN "result" ELSE AfterPrefix(call)
<1>1. /\ event' = event /\ json' = json /\ request' = request
      /\ call' = call /\ subState' = subState /\ scratch' = scratch /\ scratch = << >>
      /\ stack' = stack /\ top' = top /\ sibling' = sibling
  BY TokenIs DEF Unmoved, position, ReturnToCaller
<1>2. PosInv'
  <2>1. /\ UNCHANGED <<event, position, stackCapacity, sibling, valuesCapacity>>
        /\ pointerSizeFallback' = pointerSizeFallback /\ returned' = returned
    BY DEF Unmoved, settings
  <2>2. pointerSizeFallback' \in {4, 8} /\ returned' \in BOOLEAN /\ lastError' \in Status
    BY <2>1, ExpansionFacts DEF PosInv, TypeOK, Status
  <2> QED BY <2>1, <2>2, ExpansionFacts, ReportKeepsPosInv
<1>3. /\ next \in {"result", "firstItem", "asJson"} /\ next \in FormatStep
      /\ next = "firstItem" => ~format.message /\ call.message # NoMessage /\ call.kind # "Prefix"
      /\ next = "asJson" => ~format.message /\ call.kind = "Event"
  <2>1. call.kind \in {"Prefix", "Message", "Event"}
    BY ExpansionFacts DEF CallRecord
  <2> QED BY <2>1, ExpansionFacts DEF AfterPrefix, FormatStep
<1>4. format' = [format EXCEPT !.at = next]
  BY DEF ReturnToCaller
<1> HIDE DEF next
<1>5. /\ format' \in FormatRecord /\ format'.at = next
      /\ format'.message = format.message /\ format'.mark = format.mark
      /\ format'.trailing = format.trailing
      /\ format'.hurt = format.hurt /\ format'.rendering = format.rendering
  BY <1>3, <1>4, ExpansionFacts, RecordFacts
<1>6. frames' = << >>
  <2>1. frames \in Seq(FrameRecord) /\ frames # << >>
    BY ExpansionFacts DEF FramesOK
  <2>2. Front(frames) \in Seq(FrameRecord) /\ Len(frames) = Len(Front(frames)) + 1
    BY <2>1, WithoutLast DEF Front
  <2>3. Len(Front(frames)) = 0
    BY <2>2, LenProperties, SMTT(30)
  <2> QED BY <2>2, <2>3, EmptySeq
<1>7. LoopInv'
  BY <1>1, <1>2, <1>3, <1>5, ExpansionFacts, QuietCall DEF LoopInv, FormatAt
<1>8. StageInv'
  <2>1. format'.at \in {"result", "firstItem", "asJson"}
    BY <1>3, <1>5
  <2>2. next \in {"firstItem", "asJson"} => AtStart'
    BY <1>1, <1>3, ExpansionFacts DEF AtStart
  <2> QED BY <1>1, <1>3, <1>5, <2>1, <2>2, ExpansionFacts DEF StageInv, FormatAt, NoFormatting, Expanding
<1>9. BufferInv'
  <2>1. ~Swapped' /\ OutputNow' = output'
    BY <1>5, ExpansionFacts DEF Swapped, OutputNow
  <2> QED BY <1>1, <1>3, <1>5, <1>6, <2>1, ExpansionFacts DEF BufferInv, FormatAt
<1>10. ~InExpansion' /\ PropsInv'
  BY <1>3, <1>5 DEF InExpansion, Expanding, FormatAt, PropsInv
<1> QED BY <1>7, <1>8, <1>9, <1>10, NotExpanding

\* A trailing space that is removed is the message's, and not its own.
LEMMA TrailingSpace ==
  ASSUME FormatInv, Expanding
  PROVE  /\ IsText(WithoutTrailingSpace) /\ format.mark <= Len(WithoutTrailingSpace)
         /\ WithoutTrailingSpace # output => Len(frames) = 1 /\ Last(output) = Space
<1>1. IsText(output) /\ format.mark <= Len(output) /\ format.mark \in Nat /\ Len(output) \in Nat
  BY ExpansionFacts, TextIntro DEF FormatRecord, IsText
<1>2. CASE WithoutTrailingSpace = output
  BY <1>1, <1>2
<1>3. CASE WithoutTrailingSpace # output
  <2>1. /\ WithoutTrailingSpace = Front(output) /\ Frame.limit = format.trailing
        /\ Frame.i > 1 /\ TokenAt(Frame.i - 1) = Space
    BY <1>3 DEF WithoutTrailingSpace
  <2>2. Len(frames) = 1
    <3>1. format.trailing \in {InitialRecursionLimit, MaxRecursionLimit}
      BY ExpansionFacts DEF FormatRecord
    <3>2. Len(frames) > 1 => Frame.limit < InitialRecursionLimit /\ Frame.limit \in Nat
      BY TokenIs DEF FrameRecord
    <3>3. Len(frames) \in Nat /\ Len(frames) >= 1 /\ Frame.limit = format.trailing
      BY <2>1, TokenIs
    <3>4. ~(Len(frames) > 1)
      <4>1. SUFFICES ASSUME Len(frames) > 1 PROVE FALSE
        OBVIOUS
      <4>2. format.trailing < 3 /\ format.trailing \in Nat /\ format.trailing \in {3, 255}
        BY <3>1, <3>2, <3>3, <4>1 DEF InitialRecursionLimit, MaxRecursionLimit
      <4> QED BY <4>2
    <3> DEFINE m == Len(frames)
    <3>5. m \in Nat /\ m >= 1 /\ ~(m > 1)
      BY <3>3, <3>4
    <3> HIDE DEF m
    <3>6. m = 1
      BY <3>5
    <3> QED BY <3>6 DEF m
  <2>3. Frame = frames[1] /\ TokenAt(frames[1].i - 1) = Space /\ frames[1].i > 1
    BY <2>1, <2>2, TokenIs
  <2>4. frames[1].i - 1 \in DOMAIN Source /\ Source[frames[1].i - 1] = Space
    <3>1. Nul # Space
      BY DEF Nul, Space
    <3> QED BY <2>2, <2>3, <3>1, TokenIs
  <2>5. Len(output) > format.mark /\ output[Len(output)] = Space
    BY <2>3, <2>4 DEF FormatInv, SpaceInv, InExpansion
  <2>6. IsText(Front(output)) /\ Len(Front(output)) = Len(output) - 1
    <3> DEFINE m == Len(output) - 1
    <3>1. m \in 0 .. Len(output)
      BY <1>1, <2>5
    <3> HIDE DEF m
    <3>2. IsText(SubSeq(output, 1, m)) /\ Len(SubSeq(output, 1, m)) = m
      BY <1>1, <3>1, TextPrefix
    <3> QED BY <3>2 DEF Front, m
  <2>7. Last(output) = output[Len(output)]
    BY DEF Last
  <2> QED BY <1>1, <2>1, <2>2, <2>5, <2>6, <2>7
<1> QED BY <1>2, <1>3

\* A nested call returns, or the outer one.
LEMMA EndOfFormatKeeps ==
  ASSUME FormatInv, EndOfFormat
  PROVE  FormatInv'
<1>1. /\ Expanding /\ output' = WithoutTrailingSpace /\ frames' = Front(frames)
      /\ lastError' = "SUCCESS" /\ UNCHANGED <<Unmoved, json, request, call>>
      /\ ReturnToFrame \/ ReturnToCaller
  BY DEF EndOfFormat
<1>2. IsText(output') /\ format.mark <= Len(output')
  BY <1>1, TrailingSpace
<1>3. CASE ReturnToCaller
  <2>1. Len(frames) = 1
    BY <1>3 DEF ReturnToCaller
  <2> QED BY <1>1, <1>2, <1>3, <2>1, ReturnToCallerKeeps
<1>4. CASE ReturnToFrame
  <2> DEFINE n == Len(frames)
             fs == frames
             source == Source
             isPrefix == ~format.message
             gs == frames'
             qs == props'
  <2>1. /\ n > 1 /\ n \in Nat /\ Frame = fs[n]
        /\ scratch' = SubSeq(scratch, 1, fs[n].back)
        /\ qs = IF fs[n].index = 0 THEN props ELSE Marked(props, fs[n].index, FALSE)
        /\ format' = format
    <3>1. Frame = frames[n] /\ n \in Nat
      BY <1>1, TokenIs
    <3> QED BY <1>4, <3>1 DEF ReturnToFrame, Marked
  <2>2. /\ FramesOK(fs, scratch, source, isPrefix) /\ IsText(scratch) /\ UsesOK(fs, props, {})
        /\ props \in Seq(PropInfo)
    BY <1>1, ExpansionFacts
  <2>3. gs = Front(fs)
    BY <1>1
  <2> HIDE DEF fs, source, isPrefix, gs, qs
  <2>4. /\ FramesOK(Front(fs), SubSeq(scratch, 1, fs[Len(fs)].back), source, isPrefix)
        /\ IsText(SubSeq(scratch, 1, fs[Len(fs)].back))
        /\ Len(Front(fs)) = Len(fs) - 1
        /\ \A k \in 1 .. Len(fs) - 1 : Front(fs)[k] = fs[k]
    BY <2>1, <2>2, PopFrame DEF fs
  <2>5. /\ FramesOK(gs, scratch', source, isPrefix) /\ IsText(scratch')
        /\ Len(gs) \in Nat /\ n = Len(gs) + 1 /\ n = Len(fs)
        /\ \A k \in 1 .. Len(gs) : gs[k] = fs[k]
    BY <2>1, <2>3, <2>4 DEF fs
  <2>6. UsesOK(gs, qs, {}) /\ (fs[n].index # 0 => fs[n].index \in 1 .. Len(props))
    <3>1. /\ Len(gs) \in Nat /\ Len(fs) = Len(gs) + 1
          /\ \A k \in 1 .. Len(gs) : gs[k].index = fs[k].index
          /\ qs = IF fs[Len(fs)].index = 0 THEN props ELSE Marked(props, fs[Len(fs)].index, FALSE)
      BY <2>1, <2>5
    <3>2. UsesOK(gs, qs, {}) /\ (fs[Len(fs)].index # 0 => fs[Len(fs)].index \in 1 .. Len(props))
      BY <2>2, <3>1, PoppedUses, ZenonT(40)
    <3> QED BY <2>5, <3>2
  <2>7. qs \in Seq(PropInfo) /\ \A k \in DOMAIN qs : Readable(qs[k])
    <3>1. CASE qs = props
      BY <1>1, <3>1, ExpansionFacts
    <3>2. CASE fs[n].index \in 1 .. Len(props) /\ qs = Marked(props, fs[n].index, FALSE)
      <4>1. \A k \in DOMAIN props : Readable(props[k])
        BY <1>1, ExpansionFacts
      <4> DEFINE index == fs[n].index
      <4>2. index \in 1 .. Len(props) /\ qs = Marked(props, index, FALSE)
        BY <3>2
      <4> HIDE DEF index
      <4>3. LET ps == Marked(props, index, FALSE)
            IN  ps \in Seq(PropInfo) /\ Len(ps) = Len(props) /\ \A k \in DOMAIN ps : Readable(ps[k])
        BY <2>2, <4>1, <4>2, MarkedReadable, Zenon
      <4> QED BY <4>2, <4>3
    <3> QED BY <2>1, <2>6, <3>1, <3>2
  <2>8. SpaceInv'
    <3>1. ~(frames[1].i > 1 /\ frames[1].i - 1 \in DOMAIN Source /\ Source[frames[1].i - 1] = Space)
      <4>2. InExpansion
        BY <1>1 DEF InExpansion
      <4>3. n # 1
        <5>1. n > 1 /\ n \in Nat
          BY <2>1
        <5> HIDE DEF n
        <5> QED BY <5>1
      <4>1. Len(frames) # 1 /\ InExpansion
        BY <4>2, <4>3
      <4> QED BY <4>1, NoSpaceOutside
    <3>2. gs[1] = fs[1]
      <4>1. 1 \in 1 .. Len(gs)
        BY <2>1, <2>5
      <4> QED BY <2>5, <4>1
    <3>3. Source' = Source
      BY <1>1, <2>1 DEF Source
    <3> QED BY <3>1, <3>2, <3>3 DEF SpaceInv, gs, fs
  <2> QED BY <1>1, <1>2, <2>1, <2>5, <2>6, <2>7, <2>8, ExpandingKeeps DEF source, isPrefix, gs, qs
<1> QED BY <1>1, <1>3, <1>4

\* A call is abandoned where it is.
LEMMA AbandonedKeeps ==
  ASSUME FormatInv, format.at \in {"prefix", "firstItem", "asJson", "expand"},
         NEW status \in Status \ {"SUCCESS"}, NEW hurt \in BOOLEAN,
         hurt => status # "MR_MID_NOT_FOUND", Abandon(status, hurt)
  PROVE  FormatInv'
<1>1. /\ lastError' = status /\ GoToDone(status, hurt)
      /\ UNCHANGED <<Unmoved, jsonVars, scratch, props, frames, call>>
  BY DEF Abandon
<1>2. /\ event' = event /\ output' = output /\ request' = request /\ json' = json
      /\ scratch' = scratch /\ call' = call /\ sibling' = sibling
  BY <1>1 DEF Unmoved, jsonVars
<1>3. PosInv /\ json = NoJson /\ ~sibling.running /\ ~format.rendering.printf
  BY DEF FormatInv, LoopInv, CallInv, StageInv, FormatAt, NoFormatting
<1>4. PosInv'
  <2>1. /\ UNCHANGED <<event, position, stackCapacity, sibling, valuesCapacity>>
        /\ pointerSizeFallback' = pointerSizeFallback /\ returned' = returned
    BY <1>1 DEF Unmoved, settings
  <2>2. pointerSizeFallback' \in {4, 8} /\ returned' \in BOOLEAN /\ lastError' \in Status
    BY <1>1, <1>3, <2>1 DEF PosInv, TypeOK
  <2> QED BY <1>3, <2>1, <2>2, ReportKeepsPosInv
<1> QED BY <1>1, <1>2, <1>3, <1>4, AbandonKeeps

\* Memory that runs out, a parameter message that does not exist, a callback that fails.
LEMMA FailuresKeep ==
  ASSUME FormatInv, FormatOutOfMemory \/ ParameterMissing \/ PropertyFails
  PROVE  FormatInv'
<1>1. CASE FormatOutOfMemory
  <2>1. format.at \in {"prefix", "firstItem", "asJson", "expand"} /\ Abandon("OUTOFMEMORY", TRUE)
    BY <1>1 DEF FormatOutOfMemory, FormatAt
  <2> DEFINE status == "OUTOFMEMORY"
             hurt == TRUE
  <2>2. status \in Status \ {"SUCCESS"} /\ hurt \in BOOLEAN /\ status # "MR_MID_NOT_FOUND"
        /\ Abandon(status, hurt)
    BY <2>1 DEF Status
  <2> HIDE DEF status, hurt
  <2> QED BY <2>1, <2>2, AbandonedKeeps
<1>2. CASE ParameterMissing
  <2> DEFINE status == Parameter.status
             hurt == FALSE
  <2>1. Expanding /\ status # "SUCCESS" /\ Abandon(status, hurt)
    BY <1>2 DEF ParameterMissing
  <2>2. status \in Status
    BY FormatAssumption DEF Parameter, Status
  <2>3. hurt \in BOOLEAN /\ ~hurt
    OBVIOUS
  <2>4. format.at = "expand"
    BY <2>1 DEF Expanding, FormatAt
  <2> HIDE DEF status, hurt
  <2> QED BY <2>1, <2>2, <2>3, <2>4, AbandonedKeeps
<1>3. CASE PropertyFails
  <2>1. format.at = "expand" /\ Abandon("CALLBACK_ERROR", TRUE)
    BY <1>3 DEF PropertyFails, AtProperty, Expanding, FormatAt
  <2> DEFINE status == "CALLBACK_ERROR"
             hurt == TRUE
  <2>2. status \in Status \ {"SUCCESS"} /\ hurt \in BOOLEAN /\ status # "MR_MID_NOT_FOUND"
        /\ Abandon(status, hurt)
    BY <2>1 DEF Status
  <2> HIDE DEF status, hurt
  <2> QED BY <2>1, <2>2, AbandonedKeeps
<1> QED BY <1>1, <1>2, <1>3

\* What a reference is not.
LEMMA References ==
  ASSUME IsPropertyRef(Token) \/ IsParameterRef(Token)
  PROVE  Token # Nul /\ Token # Space
BY DEF IsPropertyRef, IsParameterRef, Nul, Space

\* A token of the output.
LEMMA EmitOne ==
  ASSUME FormatInv, Expanding, Token # Nul, NEW token, Token = Space => token = Space, Emit(<<token>>)
  PROVE  FormatInv'
<1> DEFINE tokens == <<token>>
<1>1. IsText(tokens) /\ (Token = Space => tokens = <<Space>>) /\ Emit(tokens)
  BY TextOfFew
<1> HIDE DEF tokens
<1> QED BY <1>1, EmitKeeps

\* Plain text, and references to properties that do not exist or are in use.
LEMMA PlainKeeps ==
  ASSUME FormatInv, ExpandText \/ PropertyIndexOutOfRange \/ PropertyInUse
  PROVE  FormatInv'
<1>1. CASE ExpandText
  <2> DEFINE token == Token
  <2>1. Expanding /\ Token # Nul /\ Emit(<<token>>) /\ (Token = Space => token = Space)
    BY <1>1 DEF ExpandText
  <2> HIDE DEF token
  <2> QED BY <2>1, EmitOne
<1>2. CASE PropertyIndexOutOfRange
  <2> DEFINE token == IndexOutOfRange(Index)
  <2>1. Expanding /\ IsPropertyRef(Token) /\ Emit(<<token>>)
    BY <1>2 DEF PropertyIndexOutOfRange
  <2> HIDE DEF token
  <2> QED BY <2>1, References, EmitOne
<1>3. CASE PropertyInUse
  <2> DEFINE token == IndexRecursion(Index)
  <2>1. Expanding /\ IsPropertyRef(Token) /\ Emit(<<token>>)
    BY <1>3 DEF PropertyInUse
  <2> HIDE DEF token
  <2> QED BY <2>1, References, EmitOne
<1> QED BY <1>1, <1>2, <1>3

\* A parameter message goes to the output or is expanded.
LEMMA ParameterMessageKeeps ==
  ASSUME FormatInv, ParameterMessage
  PROVE  FormatInv'
<1> DEFINE text == Trimmed(Parameter.text)
<1>1. /\ Expanding /\ IsParameterRef(Token)
      /\ \/ Emit(text)
         \/ Frame.limit > 0 /\ ExpandFromScratch(text, 0) /\ props' = props
  BY DEF ParameterMessage
<1>2. Nulless(Parameter.text)
  <2>1. CASE Token[2] \in DOMAIN Parameters
    <3> DEFINE s == Parameter.text
    <3>1. s = Parameters[Token[2]].text
      BY <2>1 DEF Parameter
    <3>2. s \in Seq(Range(s)) /\ Nul \notin Range(s)
      BY <2>1, <3>1, FormatAssumption
    <3> HIDE DEF s
    <3>3. IsText(s) /\ Range(s) = {s[k] : k \in 1 .. Len(s)}
      BY <3>2, TextIntro
    <3> QED BY <3>2, <3>3 DEF Nulless, s
  <2>2. CASE Token[2] \notin DOMAIN Parameters
    <3>1. Parameter.text = << >>
      BY <2>2 DEF Parameter
    <3> QED BY <3>1, TextOfFew DEF Nulless
  <2> QED BY <2>1, <2>2
<1>3. Nulless(text)
  BY <1>2, TrimmedText
<1>4. Token # Nul /\ Token # Space
  BY <1>1, References
<1> DEFINE index == 0
<1>5. index = 0 /\ index \in Nat
  OBVIOUS
<1> HIDE DEF text
<1>6. CASE Emit(text)
  BY <1>1, <1>3, <1>4, <1>6, EmitKeeps DEF Nulless
<1>7. CASE Frame.limit > 0 /\ ExpandFromScratch(text, index) /\ props' = props
  <2> HIDE DEF index
  <2> QED BY <1>1, <1>3, <1>4, <1>5, <1>7, PushKeeps
<1> QED BY <1>1, <1>6, <1>7

\* The text of a string is one without nul.
LEMMA RenderedString ==
  ASSUME NEW pi \in PropInfo, IsString(pi)
  PROVE  Nulless(Rendered(pi))
<1> DEFINE w == IF pi.inType = "UNICODESTRING" THEN 2 ELSE 1
           n == pi.size \div w
           e(k) == Characters[event.UserData[pi.pos + w * (k - 1) + 1]]
           s == [k \in 1 .. n |-> e(k)]
           t == ReplaceNulWithSpace(s)
           S == {e(k) : k \in 1 .. n} \cup {Space}
<1>1. n \in Nat
  <2>1. pi.size \in Nat
    BY DEF PropInfo
  <2> DEFINE m == pi.size
  <2>2. m \in Nat
    BY <2>1
  <2> HIDE DEF m
  <2>3. m \div 2 \in Nat /\ m \div 1 \in Nat
    BY <2>2
  <2> QED BY <2>3 DEF m
<1>2. Rendered(pi) = t
  <2>1. pi.type # "field"
    BY DEF IsString
  <2>2. StringOf(pi) = s
    BY DEF StringOf
  <2> HIDE DEF s
  <2> QED BY <2>1, <2>2 DEF Rendered
<1> HIDE DEF n
<1>3. t = [k \in 1 .. n |-> IF e(k) = Nul THEN Space ELSE e(k)]
  BY DEF ReplaceNulWithSpace
<1>4. Space # Nul
  BY DEF Nul, Space
<1> HIDE DEF e, s, t
<1>5. t \in [1 .. n -> S] /\ \A k \in 1 .. n : t[k] # Nul
  BY <1>3, <1>4
<1> HIDE DEF S
<1>6. IsText(t) /\ Len(t) = n
  BY <1>1, <1>5, TextOfFunction
<1> QED BY <1>2, <1>5, <1>6 DEF Nulless

\* A property is written as text.
LEMMA PropertyAsTextKeeps ==
  ASSUME FormatInv, PropertyAsText
  PROVE  FormatInv'
<1> DEFINE pi == props[Index]
           text == IF FormatOf = "printf" THEN <<Printf(Rendered(pi))>> ELSE Rendered(pi)
<1>1. /\ Expanding /\ IsPropertyRef(Token) /\ Index \in DOMAIN props
      /\ pi.type \in {"field", "value"} /\ Emit(text)
  BY DEF PropertyAsText, AtProperty
<1>2. pi \in PropInfo
  BY <1>1, ExpansionFacts, LenProperties, ElementOfSeq
<1> HIDE DEF pi
<1>3. IsText(Rendered(pi))
  <2>1. CASE IsString(pi)
    BY <1>2, <2>1, RenderedString DEF Nulless
  <2>2. CASE ~IsString(pi)
    <3>1. \E token : Rendered(pi) = <<token>>
      <4>1. CASE pi.type = "field"
        BY <2>2, <4>1 DEF Rendered
      <4>2. CASE pi.type # "field"
        BY <2>2, <4>2 DEF Rendered
      <4> QED BY <4>1, <4>2
    <3> QED BY <3>1, TextOfFew
  <2> QED BY <2>1, <2>2
<1>4. IsText(text)
  BY <1>3, TextOfFew
<1> HIDE DEF text
<1> QED BY <1>1, <1>4, References, EmitKeeps

\* A string is expanded from the scratch buffer.
LEMMA PropertyRecursesKeeps ==
  ASSUME FormatInv, PropertyRecurses
  PROVE  FormatInv'
<1> DEFINE index == Index
           pi == props[index]
           text == Rendered(pi)
<1>1. /\ Expanding /\ IsPropertyRef(Token) /\ index \in DOMAIN props /\ ~pi.inUse
      /\ IsString(pi) /\ Frame.limit > 0
      /\ props' = Marked(props, index, TRUE) /\ ExpandFromScratch(text, index)
  BY DEF PropertyRecurses, AtProperty, Recurses, Marked
<1>2. props \in Seq(PropInfo) /\ DOMAIN props = 1 .. Len(props) /\ Len(props) \in Nat
  BY <1>1, ExpansionFacts, LenProperties
<1>3. pi \in PropInfo /\ index \in 1 .. Len(props) /\ index \in Nat
  BY <1>1, <1>2, ElementOfSeq
<1>4. Nulless(text)
  BY <1>1, <1>3, RenderedString
<1>5. Token # Nul /\ Token # Space
  BY <1>1, References
<1>6. ~props[index].inUse
  BY <1>1
<1> HIDE DEF text, pi, index
<1> QED BY <1>1, <1>3, <1>4, <1>5, <1>6, PushKeeps

\* The enumerator goes back to a property of the top level.
LEMMA PropertyAsJsonMoves ==
  ASSUME FormatInv, PropertyAsJson
  PROVE  /\ PosInv' /\ sibling' = sibling /\ event' = event /\ call' = call
         /\ Expanding /\ format.message /\ IsPropertyRef(Token)
         /\ Index \in 1 .. Len(props) /\ Index \in Nat /\ ~props[Index].inUse
         /\ \/ lastError' \in {"INVALID_DATA", "UNSUPPORTED_TYPE"}
            \/ /\ lastError' = "SUCCESS" /\ AtItem' /\ subState' \in Begins /\ Nesting' = 0
<1> DEFINE index == Index
           pi == props[index]
           t == [top EXCEPT !.PropertyIndex = pi.index]
           p == pi.pos
<1>1. /\ Expanding /\ IsPropertyRef(Token) /\ index \in DOMAIN props /\ ~pi.inUse
      /\ pi.type = "json" /\ NextProperty(t, p, stack)
      /\ UNCHANGED <<event, stackCapacity, sibling, settings, list, call>>
  BY DEF PropertyAsJson, AtProperty
<1>2. /\ PosInv /\ event # NoEvent /\ props \in Seq(PropInfo) /\ DOMAIN props = 1 .. Len(props)
      /\ Len(props) \in Nat /\ Readable(pi) /\ ~sibling.running
  BY <1>1, ExpansionFacts, LenProperties
<1>3. pi \in PropInfo
  BY <1>1, <1>2, ElementOfSeq
<1>4. /\ format.message /\ pi.index < event.tei.TopLevelPropertyCount /\ p <= Len(event.UserData)
      /\ pi.index \in Nat /\ p \in Nat
  BY <1>1, <1>2, <1>3 DEF Readable, PropInfo
<1>5. AtTop /\ lastError = "SUCCESS"
  BY <1>1, <1>4, ExpansionFacts
<1>6. /\ Ready /\ top \in StackEntry /\ stack \in Seq(StackEntry) /\ stackCapacity \in Nat \ {0}
      /\ Len(stack) <= stackCapacity /\ Len(stack) \in Nat
      /\ sibling \in [running: BOOLEAN, depth: Nat]
  BY <1>2 DEF PosInv, TypeOK, Ready, ValuesOK, PositionOK
<1> HIDE DEF p
<1>7. /\ t \in StackEntry /\ t.PropertyIndex = pi.index
      /\ t.PropertyEnd = event.tei.TopLevelPropertyCount
  <2> DEFINE i == pi.index
  <2>1. i \in Nat
    BY <1>4
  <2> HIDE DEF pi, i
  <2>2. [top EXCEPT !.PropertyIndex = i] \in StackEntry
        /\ [top EXCEPT !.PropertyIndex = i].PropertyIndex = i
        /\ [top EXCEPT !.PropertyIndex = i].PropertyEnd = top.PropertyEnd
    BY <1>6, <2>1 DEF StackEntry
  <2> QED BY <1>5, <2>2 DEF AtTop, i
<1> HIDE DEF pi, t
<1>8. event \in Events /\ event.tei.TopLevelPropertyCount \in Nat
      /\ event.tei.TopLevelPropertyCount <= event.tei.PropertyCount
  BY <1>6, EventFacts DEF Ready
<1>9. FollowsTei(event, t, stack)
  <2>1. stack = << >> /\ Len(<< >>) = 0
    BY <1>5 DEF AtTop
  <2> QED BY <1>4, <1>7, <1>8, <2>1 DEF FollowsTei, InGroup
<1>10. MoveLeaves
  <2>1. Moved(Len(stack))
    BY <1>1, <1>4, <1>6, <1>7, <1>9, NextPropertyResult
  <2>2. Moved(stackCapacity')
    BY <1>1, <1>6, <2>1, MovedWithin
  <2> QED BY <1>1, <1>6, <2>2 DEF MoveLeaves
<1>11. PosInv'
  BY <1>1, <1>2, <1>6, <1>10, MoveKeepsIInv DEF IInv
<1>12. \/ lastError' \in {"INVALID_DATA", "UNSUPPORTED_TYPE"}
       \/ lastError' = "SUCCESS" /\ AtItem' /\ subState' \in Begins /\ Nesting' = 0
  <2>1. CASE subState' \in {"StructEnd", "Value_Scalar", "ArrayBegin", "StructBegin"} /\ returned' = TRUE
             /\ (lastError' # "SUCCESS" => lastError' = lastError)
    <3>1. subState' # "StructEnd"
      <4>1. PropertyStarts(t, p, stack)
        <5>1. t.PropertyIndex # t.PropertyEnd
          BY <1>4, <1>7, <1>8
        <5> QED BY <1>1, <5>1 DEF NextProperty, EnumerationEnds, StructEnds
      <4> QED BY <4>1 DEF PropertyStarts, StartValue, StartArray, StartStruct, MovedTo, SetErrorState
    <3>2. Nesting' = 0
      <4>1. Nesting' = OuterNesting(stack)
        BY <1>1, <1>6, <1>7, <2>1, NextPropertyNesting
      <4> QED BY <1>5, <4>1, OuterNestingOfNone DEF AtTop
    <3>3. lastError' = "SUCCESS"
      BY <1>5, <2>1
    <3> QED BY <2>1, <3>1, <3>2, <3>3 DEF AtItem, PositionedSubStates, Begins, ValueSubStates
  <2>2. CASE subState' = "AfterLastItem"
    <3>1. ~EnumerationEnds(t, p, stack) /\ ~StructEnds(t, p, stack)
      BY <1>4, <1>7, <1>8 DEF EnumerationEnds, StructEnds
    <3>2. PropertyStarts(t, p, stack)
      BY <1>1, <3>1 DEF NextProperty
    <3> QED BY <2>2, <3>2 DEF PropertyStarts, StartValue, StartArray, StartStruct, MovedTo, SetErrorState
  <2>3. CASE subState' = "Error" /\ lastError' \in {"INVALID_DATA", "UNSUPPORTED_TYPE"}
    BY <2>3
  <2> QED BY <1>1, <2>1, <2>2, <2>3, NextPropertyReports
<1> QED BY <1>1, <1>2, <1>4, <1>11, <1>12 DEF pi

LEMMA PropertyAsJsonKeeps ==
  ASSUME FormatInv, PropertyAsJson
  PROVE  FormatInv'
<1> DEFINE index == Index
           printf == FormatOf = "printf"
           source == Source
<1>1. /\ PosInv' /\ sibling' = sibling /\ event' = event /\ call' = call
      /\ Expanding /\ format.message /\ Token # Nul /\ Token # Space
      /\ index \in 1 .. Len(props) /\ index \in Nat /\ ~props[index].inUse
      /\ \/ lastError' \in {"INVALID_DATA", "UNSUPPORTED_TYPE"}
         \/ lastError' = "SUCCESS" /\ AtItem' /\ subState' \in Begins /\ Nesting' = 0
  BY PropertyAsJsonMoves, References
<1>2. props' = Marked(props, index, TRUE) /\ frames' = Consume
  BY DEF PropertyAsJson, Marked
<1>3. /\ PosInv /\ RequestInv /\ json = NoJson /\ event # NoEvent /\ ~sibling.running
      /\ format \in FormatRecord /\ call \in CallRecord /\ call.kind # "None"
      /\ call.message # NoMessage /\ call.kind # "Prefix"
      /\ ~format.rendering.printf /\ ~format.hurt
      /\ IsText(output) /\ IsText(scratch) /\ format.mark <= Len(output)
      /\ props \in Seq(PropInfo) /\ (\A n \in DOMAIN props : Readable(props[n]))
  BY <1>1, ExpansionFacts
<1>4. CASE lastError' # "SUCCESS"
  <2> DEFINE status == lastError'
             hurt == FALSE
  <2>1. GoToDone(status, hurt) /\ UNCHANGED <<jsonVars, scratch>>
    BY <1>4 DEF PropertyAsJson
  <2>2. status \in Status \ {"SUCCESS"} /\ status # "MR_MID_NOT_FOUND" /\ hurt \in BOOLEAN
        /\ lastError' = status
    BY <1>1, <1>4 DEF Status
  <2>3. json' = NoJson /\ UNCHANGED <<event, output, request, scratch, call>>
    BY <1>1, <1>3, <2>1 DEF jsonVars
  <2>4. format.at \notin {"idle", "done", "result"}
    BY <1>1 DEF Expanding, FormatAt
  <2> HIDE DEF status, hurt
  <2> QED BY <1>1, <1>3, <2>1, <2>2, <2>3, <2>4, AbandonKeeps
<1>5. CASE lastError' = "SUCCESS"
  <2> DEFINE back == Len(scratch)
             rendering == [index |-> index, printf |-> printf, back |-> back]
  <2>1. /\ json' = [NoJson EXCEPT !.at = "text"] /\ request' = NoRequest
        /\ format' = [format EXCEPT !.at = "json", !.rendering = rendering]
        /\ output' = IF printf THEN scratch ELSE output
        /\ scratch' = IF printf THEN output ELSE scratch
    BY <1>5 DEF PropertyAsJson
  <2>2. back \in Nat /\ printf \in BOOLEAN
    BY <1>3, TextIntro DEF IsText
  <2> HIDE DEF index, printf, back
  <2>3. /\ rendering \in [index: Nat, printf: BOOLEAN, back: Nat]
        /\ rendering.index = index /\ rendering.printf = printf /\ rendering.back = back
    BY <1>1, <2>2
  <2> HIDE DEF rendering
  <2>4. /\ format' \in FormatRecord /\ format'.at = "json" /\ format'.rendering = rendering
        /\ format'.message = format.message /\ format'.mark = format.mark
        /\ format'.trailing = format.trailing /\ format'.hurt = format.hurt
    BY <1>3, <2>1, <2>3 DEF FormatRecord, FormatStep
  <2>5. /\ json' \in JsonRecord /\ json'.at = "text" /\ json'.depth = 0 /\ ~json'.failed
        /\ request'.event = FALSE /\ request'.prefix = << >> /\ request'.shown = << >>
    BY <2>1 DEF NoJson, JsonRecord, JsonStep, NoRequest
  <2>6. /\ Source' = source /\ Rendering' = {index} /\ Swapped' = printf
        /\ OutputNow' = output /\ InExpansion' /\ ~Expanding'
    <3>1. frames' # << >>
      BY <1>1, <1>2, ConsumeKeeps DEF FramesOK
    <3> QED BY <1>1, <2>1, <2>3, <2>4, <3>1
            DEF Source, Rendering, Swapped, OutputNow, InExpansion, Expanding, FormatAt
  <2>7. ScratchNow' = scratch
    <3>1. CASE printf
      <4>1. SubSeq(scratch, 1, back) = scratch
        <5>1. back \in 0 .. Len(scratch)
          BY <2>2 DEF back
        <5>2. /\ IsText(SubSeq(scratch, 1, back)) /\ Len(SubSeq(scratch, 1, back)) = back
              /\ \A k \in 1 .. back : SubSeq(scratch, 1, back)[k] = scratch[k]
          BY <1>3, <5>1, TextPrefix
        <5> QED BY <1>3, <5>2, TextsEqual DEF back
      <4> QED BY <2>1, <2>3, <2>4, <2>6, <3>1, <4>1 DEF ScratchNow
    <3>2. CASE ~printf
      BY <2>1, <2>6, <3>2 DEF ScratchNow
    <3> QED BY <3>1, <3>2
  <2>8. /\ props' \in Seq(PropInfo) /\ Len(props') = Len(props)
        /\ \A n \in DOMAIN props' : Readable(props[n])'
    <3>1. LET qs == Marked(props, index, TRUE)
          IN  qs \in Seq(PropInfo) /\ Len(qs) = Len(props) /\ \A n \in DOMAIN qs : Readable(qs[n])
      <4>1. \A b \in BOOLEAN :
              LET qs == Marked(props, index, b)
              IN  qs \in Seq(PropInfo) /\ Len(qs) = Len(props) /\ \A n \in DOMAIN qs : Readable(qs[n])
        BY <1>1, <1>3, MarkedReadable
      <4> QED BY <4>1, Zenon
    <3> QED BY <1>1, <1>2, <2>4, <3>1 DEF Readable
  <2>9. LoopInv'
    <3>1. PlaceInv' /\ StatusInv' /\ RequestInv'
      BY <1>1, <1>3, <1>5, <2>5 DEF PlaceInv, StatusInv, RequestInv, NoCall, At, Idle
    <3> QED BY <1>1, <1>5, <2>4, <2>5, <3>1 DEF LoopInv, CallInv, FormatAt
  <2>10. StageInv'
    BY <1>1, <1>3, <2>4 DEF StageInv, FormatAt, NoFormatting, Expanding
  <2>11. PropsInv'
    BY <2>4, <2>6, <2>8 DEF PropsInv, FormatAt
  <2>12. BufferInv'
    <3>1. frames' # << >>
      BY <1>1, <1>2, ConsumeKeeps DEF FramesOK
    <3>2. IsText(output') /\ IsText(scratch') /\ (printf => Len(output') = back)
      BY <1>3, <2>1 DEF back
    <3>3. printf => back <= Len(output')
      BY <2>2, <3>2
    <3> QED BY <1>3, <2>3, <2>4, <2>6, <3>1, <3>2, <3>3 DEF BufferInv, FormatAt
  <2>13. FrameInv'
    <3>1. FramesOK(frames', scratch, source, ~format.message)
      BY <1>1, <1>2, ConsumeKeeps
    <3> QED BY <1>1, <2>4, <2>6, <2>7, <3>1 DEF FrameInv
  <2>14. UseInv'
    <3> DEFINE fs == frames'
               ps == props
    <3>1. UsesOK(fs, ps, {}) /\ ~ps[index].inUse /\ ps \in Seq(PropInfo) /\ index \in 1 .. Len(ps)
      BY <1>1, <1>2, <1>3, ConsumeKeeps
    <3> HIDE DEF fs, ps
    <3>2. UsesOK(fs, Marked(ps, index, TRUE), {index})
      BY <3>1, RenderedUses
    <3>3. UsesOK(frames', props', Rendering')
      BY <1>2, <2>6, <3>2 DEF fs, ps
    <3> QED BY <1>1, <2>6, <2>8, <3>3 DEF UseInv
  <2>15. SpaceInv'
    <3>1. ~(frames'[1].i > 1 /\ frames'[1].i - 1 \in DOMAIN Source /\ Source[frames'[1].i - 1] = Space)
      BY <1>1, <1>2, NoSpaceConsumed
    <3> QED BY <2>6, <3>1 DEF SpaceInv
  <2>16. JsonLevelInv'
    <3>1. Level' = 0
      BY <1>1, <1>5, <2>5 DEF Level, At
    <3> QED BY <1>1, <2>4, <2>5, <3>1 DEF JsonLevelInv, At
  <2> QED BY <2>9, <2>10, <2>11, <2>12, <2>13, <2>14, <2>15, <2>16 DEF FormatInv
<1> QED BY <1>4, <1>5

-----------------------------------------------------------------------------
(* Steps while JSON is written. *)

\* A step of the loop that writes JSON, for the event or for a property.
LEMMA WriteJsonKeeps ==
  ASSUME FormatInv, WriteJson
  PROVE  FormatInv'
<1>1. /\ FormatAt("json") /\ Writing /\ ~WritePrefix
      /\ format' = format /\ scratch' = scratch /\ props' = props /\ frames' = frames
      /\ call' = call
  <2>1. json.at # "prefix"
    BY DEF FormatInv, LoopInv, WriteJson
  <2> QED BY <2>1 DEF WriteJson, Writing, WritePrefix, At, formatVars
<1>2. /\ CallInv /\ PosInv /\ PlaceInv /\ StatusInv /\ RequestInv
      /\ lastError # "MR_MID_NOT_FOUND"
  BY <1>1 DEF FormatInv, LoopInv, CallInv
<1>3. /\ CallInv' /\ PosInv' /\ PlaceInv' /\ request' = request
      /\ json'.at \in {"first", "text", "move", "meta", "result"}
  <2>1. CallInv' /\ json'.at \notin {"idle", "prefix", "done"} /\ request' = request
    BY <1>1, <1>2, WritingKeepsCallInv
  <2> QED BY <2>1 DEF CallInv, PlaceInv, JsonRecord, JsonStep
<1>4. event' = event /\ sibling' = sibling /\ lastError' # "MR_MID_NOT_FOUND"
  <2>1. CASE Move /\ UNCHANGED <<event, sibling, settings>>
    BY <1>2, <2>1, MoveReports DEF MoveReported
  <2>2. CASE /\ UNCHANGED <<event, position, stackCapacity, returned, sibling, settings>>
             /\ lastError' \in {lastError, "SUCCESS", "CALLBACK_ERROR", "OUTOFMEMORY"}
    BY <1>2, <2>2
  <2> QED BY <1>1, <2>1, <2>2, WritingMoves
<1>5. IsText(output) /\ IsText(scratch) /\ format.mark <= Len(OutputNow)
      /\ (Swapped => format.rendering.back <= Len(output))
      /\ (frames = << >> => scratch = << >> /\ ~Swapped)
  BY <1>1 DEF FormatInv, BufferInv
<1>6. PICK text : IsText(text) /\ output' = output \o text
  BY <1>1, <1>2, <1>5, WritingWrites DEF RequestInv
<1>7. /\ format \in FormatRecord /\ event # NoEvent /\ call.kind # "None" /\ ~sibling.running
      /\ ~format.hurt
  BY <1>1 DEF FormatInv, StageInv, FormatAt, NoFormatting
<1>8. /\ IsText(output') /\ Len(output') \in Nat /\ Len(output) \in Nat /\ Len(output) <= Len(output')
      /\ \A n \in 0 .. Len(output) : SubSeq(output', 1, n) = SubSeq(output, 1, n)
  <2>1. 0 \in 0 .. Len(output)
    BY <1>5, TextIntro DEF IsText
  <2> QED BY <1>5, <1>6, <2>1, PrefixOfLonger
<1>9. /\ Swapped' = Swapped /\ Source' = Source /\ Rendering' = Rendering
      /\ InExpansion' = InExpansion /\ ~Expanding /\ ~Expanding'
  BY <1>1 DEF Swapped, Source, Rendering, InExpansion, Expanding, FormatAt
<1>10. ScratchNow' = ScratchNow
  <2>1. CASE Swapped
    <3> DEFINE b == format.rendering.back
    <3>1. b \in Nat
      BY <1>7 DEF FormatRecord
    <3> HIDE DEF b
    <3>2. b \in 0 .. Len(output)
      BY <1>5, <1>8, <2>1, <3>1 DEF b
    <3>3. SubSeq(output', 1, b) = SubSeq(output, 1, b)
      BY <1>8, <3>2
    <3> QED BY <1>1, <1>9, <2>1, <3>3 DEF ScratchNow, b
  <2>2. CASE ~Swapped
    BY <1>1, <1>9, <2>2 DEF ScratchNow
  <2> QED BY <2>1, <2>2
<1>11. LoopInv'
  BY <1>1, <1>3, <1>4 DEF LoopInv, FormatAt
<1>12. StageInv'
  BY <1>1, <1>4, <1>7 DEF FormatInv, StageInv, FormatAt, NoFormatting, Expanding
<1>13. PropsInv'
  <2>1. InExpansion => props \in Seq(PropInfo) /\ \A n \in DOMAIN props : Readable(props[n])
    BY DEF FormatInv, PropsInv
  <2>2. \A n : Readable(props[n])' = Readable(props[n])
    BY <1>1, <1>4 DEF Readable
  <2> QED BY <1>1, <1>9, <2>1, <2>2 DEF PropsInv, FormatAt
<1>14. BufferInv'
  <2>1. format.mark <= Len(OutputNow')
    <3>1. CASE Swapped
      BY <1>1, <1>5, <1>9, <3>1 DEF OutputNow
    <3>2. CASE ~Swapped
      <4>1. OutputNow' = output' /\ OutputNow = output
        BY <1>9, <3>2 DEF OutputNow
      <4>2. format.mark \in Nat
        BY <1>7 DEF FormatRecord
      <4> QED BY <1>5, <1>8, <4>1, <4>2
    <3> QED BY <3>1, <3>2
  <2>2. Swapped => format.rendering.back <= Len(output')
    <3>1. format.rendering.back \in Nat
      BY <1>7 DEF FormatRecord
    <3> QED BY <1>5, <1>8, <3>1
  <2> QED BY <1>1, <1>5, <1>8, <1>9, <2>1, <2>2 DEF BufferInv, FormatAt
<1>15. FrameInv' /\ UseInv'
  BY <1>1, <1>9, <1>10 DEF FormatInv, FrameInv, UseInv
<1>16. SpaceInv'
  BY <1>1, <1>9 DEF FormatInv, SpaceInv
<1>17. JsonLevelInv'
  <2>1. SUFFICES ASSUME frames # << >> PROVE JsonLevelInv'
    BY <1>1 DEF JsonLevelInv
  <2>2. /\ format.message /\ ~request.event /\ json.at \in {"text", "move", "result"}
        /\ json.at \in {"text", "move"} => Level = 0
    BY <1>1, <2>1 DEF FormatInv, JsonLevelInv
  <2>3. json.at \in {"text", "move"} /\ Level = 0
    BY <1>1, <2>2 DEF Writing, FirstMove, NextMove, WriteValue, WriteArrayBegin, WriteStructBegin,
                      WriteEnd, ValueFails, OutputOutOfMemory, WriteMeta, At
  <2>4. LevelKept
    BY <1>1, <1>2, <1>3, <2>3, LoopKeepsLevel
  <2>5. CASE json'.at \in {"text", "move"} /\ Level' = Level
    BY <1>1, <1>3, <2>2, <2>3, <2>5 DEF JsonLevelInv, At
  <2>6. CASE /\ json'.at \in {"meta", "result"} /\ ~json'.failed
             /\ subState' = "AfterLastItem" \/ (subState' \in ItemSubStates /\ Nesting' = 0)
    <3>1. json'.at = "result"
      BY <1>1, <1>2, <2>2, <2>3, <2>6, MetaIsForEvents
    <3>2. AtTop'
      <4>1. (AtItem' /\ Nesting' = 0) \/ subState' = "AfterLastItem"
        BY <2>6 DEF AtItem, ItemSubStates
      <4> QED BY <1>3, <1>4, <1>7, <4>1, AtTopLevel
    <3> QED BY <1>1, <1>3, <2>2, <3>1, <3>2 DEF JsonLevelInv, At
  <2>7. CASE json'.at = "result" /\ json'.failed
    BY <1>1, <1>3, <2>2, <2>7 DEF JsonLevelInv, At
  <2> QED BY <2>3, <2>4, <2>5, <2>6, <2>7 DEF LevelKept
<1> QED BY <1>11, <1>12, <1>13, <1>14, <1>15, <1>16, <1>17 DEF FormatInv

\* The writing fails.
LEMMA JsonFailureKeeps ==
  ASSUME FormatInv, JsonFails \/ JsonPropertyOutOfMemory
  PROVE  FormatInv'
<1>1. FormatAt("json") /\ json' = NoJson /\ UNCHANGED <<event, output, request, scratch, call, sibling>>
  BY DEF JsonFails, JsonPropertyOutOfMemory, vars, Unmoved
<1>2. /\ PosInv /\ lastError # "MR_MID_NOT_FOUND" /\ ~sibling.running /\ lastError \in Status
  BY <1>1 DEF FormatInv, LoopInv, CallInv, PosInv, TypeOK, StageInv, FormatAt, NoFormatting
<1>3. format.at \notin {"idle", "done", "result"}
  BY <1>1 DEF FormatAt
<1>4. CASE JsonFails
  <2> DEFINE status == lastError
             hurt == JsonHurts
  <2>1. /\ GoToDone(status, hurt) /\ lastError' = status /\ UNCHANGED vars /\ status # "SUCCESS"
    BY <1>4 DEF JsonFails, vars
  <2>2. PosInv'
    <3>1. [Next]_vars
      BY <2>1
    <3> QED BY <1>2, <3>1, NextPosInv
  <2>3. status \in Status \ {"SUCCESS"} /\ status # "MR_MID_NOT_FOUND" /\ hurt \in BOOLEAN
    BY <1>2, <2>1 DEF JsonHurts
  <2> HIDE DEF status, hurt
  <2> QED BY <1>1, <1>2, <1>3, <2>1, <2>2, <2>3, AbandonKeeps
<1>5. CASE JsonPropertyOutOfMemory
  <2> DEFINE status == "OUTOFMEMORY"
             hurt == TRUE
  <2>1. GoToDone(status, hurt) /\ lastError' = status /\ UNCHANGED Unmoved
    BY <1>5 DEF JsonPropertyOutOfMemory
  <2>2. status \in Status \ {"SUCCESS"} /\ status # "MR_MID_NOT_FOUND" /\ hurt \in BOOLEAN
    BY DEF Status
  <2>3. PosInv'
    <3>1. /\ UNCHANGED <<event, position, stackCapacity, sibling, valuesCapacity>>
          /\ pointerSizeFallback' = pointerSizeFallback /\ returned' = returned
      BY <2>1 DEF Unmoved, settings
    <3>2. pointerSizeFallback' \in {4, 8} /\ returned' \in BOOLEAN /\ lastError' \in Status
      BY <1>2, <2>1, <2>2, <3>1 DEF PosInv, TypeOK
    <3> QED BY <1>2, <3>1, <3>2, ReportKeepsPosInv
  <2> HIDE DEF status, hurt
  <2> QED BY <1>1, <1>2, <1>3, <2>1, <2>2, <2>3, AbandonKeeps
<1> QED BY <1>4, <1>5

\* The event has been written.
LEMMA JsonEventEndsKeeps ==
  ASSUME FormatInv, JsonEventEnds
  PROVE  FormatInv'
<1>1. /\ FormatAt("json") /\ frames = << >> /\ lastError = "SUCCESS" /\ json' = NoJson
      /\ format' = [format EXCEPT !.at = "result"]
      /\ UNCHANGED <<vars, list, output, request, scratch, props, frames, call>>
  BY DEF JsonEventEnds
<1>2. /\ event' = event /\ sibling' = sibling /\ lastError' = lastError /\ output' = output
      /\ scratch' = scratch /\ call' = call /\ request' = request
  BY <1>1 DEF vars
<1>3. /\ PosInv /\ RequestInv /\ format \in FormatRecord /\ ~sibling.running
      /\ IsText(output) /\ scratch = << >> /\ ~format.rendering.printf /\ IsText(scratch)
      /\ format.mark <= Len(output) /\ ~format.hurt
  BY <1>1 DEF FormatInv, LoopInv, CallInv, StageInv, BufferInv, Swapped, OutputNow, FormatAt, NoFormatting
<1>4. PosInv'
  <2>1. [Next]_vars
    BY <1>1
  <2> QED BY <1>3, <2>1, NextPosInv
<1>5. /\ format' \in FormatRecord /\ format'.at = "result"
      /\ format'.message = format.message /\ format'.mark = format.mark
      /\ format'.trailing = format.trailing
      /\ format'.hurt = format.hurt /\ format'.rendering = format.rendering
  <2>1. "result" \in FormatStep
    BY DEF FormatStep
  <2> QED BY <1>1, <1>3, <2>1, RecordFacts
<1>6. LoopInv'
  BY <1>1, <1>2, <1>3, <1>4, <1>5, QuietCall DEF LoopInv, FormatAt
<1>7. StageInv'
  BY <1>1, <1>2, <1>3, <1>5 DEF FormatInv, StageInv, FormatAt, NoFormatting, Expanding
<1>8. BufferInv'
  BY <1>2, <1>3, <1>5 DEF BufferInv, FormatAt, Swapped, OutputNow
<1>9. ~InExpansion' /\ PropsInv'
  BY <1>5 DEF InExpansion, Expanding, FormatAt, PropsInv
<1> QED BY <1>6, <1>7, <1>8, <1>9, NotExpanding

\* The property has been written: the text that refers to it goes on.
LEMMA JsonPropertyEndsKeeps ==
  ASSUME FormatInv, JsonPropertyEnds
  PROVE  FormatInv'
<1> DEFINE r == format.rendering
           index == r.index
           token == Printf(SubSeq(output, r.back + 1, Len(output)))
<1>1. /\ FormatAt("json") /\ At("result") /\ lastError = "SUCCESS" /\ frames # << >> /\ json' = NoJson
      /\ output' = (IF r.printf THEN Append(scratch, token) ELSE output)
      /\ scratch' = (IF r.printf THEN SubSeq(output, 1, r.back) ELSE scratch)
      /\ props' = Marked(props, index, FALSE)
      /\ format' = [format EXCEPT !.at = "expand", !.rendering = NoFormat.rendering]
      /\ UNCHANGED <<vars, list, request, frames, call>>
  BY DEF JsonPropertyEnds, Marked
<1>2. /\ event' = event /\ sibling' = sibling /\ lastError' = lastError /\ subState' = subState
      /\ stack' = stack /\ top' = top
      /\ frames' = frames /\ call' = call /\ request' = request
  BY <1>1 DEF vars, position
<1>3. /\ PosInv /\ RequestInv /\ format \in FormatRecord /\ ~sibling.running
      /\ event # NoEvent /\ call.kind # "None" /\ call \in CallRecord
      /\ IsText(output) /\ IsText(scratch) /\ format.mark <= Len(OutputNow)
      /\ (r.printf => r.back <= Len(output)) /\ ~format.hurt
  BY <1>1 DEF FormatInv, LoopInv, CallInv, StageInv, BufferInv, Swapped, FormatAt, NoFormatting
<1>4. /\ format.message /\ AtTop /\ call.message # NoMessage /\ call.kind # "Prefix"
  <2>1. ~json.failed
    BY <1>1 DEF FormatInv, LoopInv, CallInv, StatusInv
  <2>2. format.message /\ AtTop
    BY <1>1, <2>1 DEF FormatInv, JsonLevelInv
  <2> QED BY <1>1, <2>2 DEF FormatInv, StageInv, FormatAt, NoFormatting
<1>5. /\ InExpansion /\ ~Expanding
      /\ props \in Seq(PropInfo) /\ (\A n \in DOMAIN props : Readable(props[n]))
      /\ FramesOK(frames, ScratchNow, Source, ~format.message)
      /\ UsesOK(frames, props, {index}) /\ index \in 1 .. Len(props)
  <2>1. InExpansion /\ ~Expanding /\ Rendering = {index}
    BY <1>1 DEF InExpansion, Expanding, FormatAt, Rendering
  <2>2. /\ props \in Seq(PropInfo) /\ (\A n \in DOMAIN props : Readable(props[n]))
        /\ FramesOK(frames, ScratchNow, Source, ~format.message)
        /\ UsesOK(frames, props, Rendering) /\ Rendering \subseteq 1 .. Len(props)
    BY <2>1 DEF FormatInv, PropsInv, FrameInv, UseInv
  <2> HIDE DEF index
  <2> QED BY <2>1, <2>2
<1>6. /\ format' \in FormatRecord /\ format'.at = "expand" /\ ~format'.rendering.printf
      /\ format'.message = format.message /\ format'.mark = format.mark
      /\ format'.trailing = format.trailing /\ format'.hurt = format.hurt
  <2> DEFINE none == NoFormat.rendering
  <2>1. none \in [index: Nat, printf: BOOLEAN, back: Nat] /\ ~none.printf
    BY DEF NoFormat
  <2>2. format' = [format EXCEPT !.at = "expand", !.rendering = none]
    BY <1>1
  <2>3. "expand" \in FormatStep
    BY DEF FormatStep
  <2> HIDE DEF none
  <2> QED BY <1>3, <2>1, <2>2, <2>3 DEF FormatRecord
<1>7. /\ Expanding' /\ Source' = Source /\ Rendering' = {} /\ ~Swapped'
      /\ OutputNow' = output' /\ ScratchNow' = scratch'
  BY <1>2, <1>6 DEF Expanding, FormatAt, Source, Rendering, Swapped, OutputNow, ScratchNow
<1>8. /\ scratch' = ScratchNow /\ IsText(scratch') /\ IsText(output') /\ format.mark <= Len(output')
  <2>1. CASE r.printf
    <3> DEFINE b == r.back
    <3>1. b \in 0 .. Len(output)
      <4>1. b \in Nat /\ Len(output) \in Nat /\ b <= Len(output)
        BY <1>3, <2>1, TextIntro DEF FormatRecord, IsText
      <4> HIDE DEF b
      <4> QED BY <4>1
    <3> HIDE DEF b
    <3>2. IsText(SubSeq(output, 1, b))
      BY <1>3, <3>1, TextPrefix
    <3> HIDE DEF token
    <3>3. IsText(Append(scratch, token)) /\ Len(Append(scratch, token)) = Len(scratch) + 1
          /\ Len(scratch) \in Nat
      BY <1>3, TextAppend
    <3>4. format.mark <= Len(scratch) /\ format.mark \in Nat
      BY <1>3, <2>1 DEF OutputNow, Swapped, FormatRecord
    <3>5. format.mark <= Len(Append(scratch, token))
      BY <3>3, <3>4
    <3> QED BY <1>1, <2>1, <3>2, <3>3, <3>5 DEF ScratchNow, Swapped, b
  <2>2. CASE ~r.printf
    BY <1>1, <1>3, <2>2 DEF ScratchNow, OutputNow, Swapped
  <2> QED BY <2>1, <2>2
<1>9. /\ props' \in Seq(PropInfo) /\ Len(props') = Len(props)
      /\ \A n \in DOMAIN props' : Readable(props[n])'
  <2> HIDE DEF index
  <2>1. \A b \in BOOLEAN :
          LET qs == Marked(props, index, b)
          IN  qs \in Seq(PropInfo) /\ Len(qs) = Len(props) /\ \A n \in DOMAIN qs : Readable(qs[n])
    BY <1>5, MarkedReadable
  <2>2. LET qs == Marked(props, index, FALSE)
        IN  qs \in Seq(PropInfo) /\ Len(qs) = Len(props) /\ \A n \in DOMAIN qs : Readable(qs[n])
    BY <2>1, Zenon
  <2> QED BY <1>1, <1>2, <1>6, <2>2 DEF Readable
<1>10. LoopInv'
  <2>1. [Next]_vars
    BY <1>1
  <2>2. PosInv'
    BY <1>3, <2>1, NextPosInv
  <2> QED BY <1>1, <1>2, <1>3, <1>6, <2>2, QuietCall DEF LoopInv, FormatAt
<1>11. StageInv'
  BY <1>1, <1>2, <1>3, <1>4, <1>6 DEF StageInv, FormatAt, NoFormatting, Expanding, AtTop
<1>12. PropsInv'
  BY <1>6, <1>9 DEF PropsInv, FormatAt
<1>13. BufferInv'
  BY <1>6, <1>7, <1>8 DEF BufferInv, FormatAt
<1>14. FrameInv'
  BY <1>2, <1>4, <1>5, <1>6, <1>7, <1>8 DEF FrameInv
<1>15. UseInv'
  <2> HIDE DEF index
  <2>1. UsesOK(frames, Marked(props, index, FALSE), {})
    BY <1>5, RenderedUses
  <2> QED BY <1>1, <1>2, <1>7, <2>1 DEF UseInv
<1>16. SpaceInv'
  <2>1. ~(frames[1].i > 1 /\ frames[1].i - 1 \in DOMAIN Source /\ Source[frames[1].i - 1] = Space)
    BY <1>5, NoSpaceOutside
  <2> QED BY <1>2, <1>7, <2>1 DEF SpaceInv
<1>17. JsonLevelInv'
  BY <1>6 DEF JsonLevelInv, FormatAt
<1> QED BY <1>10, <1>11, <1>12, <1>13, <1>14, <1>15, <1>16, <1>17 DEF FormatInv

\* The event starts to be written.
LEMMA AddCurrentEventAsJsonKeeps ==
  ASSUME FormatInv, AddCurrentEventAsJson
  PROVE  FormatInv'
<1>1. /\ FormatAt("asJson") /\ output' = Append(output, <<"{">>)
      /\ format' = [format EXCEPT !.at = "json"]
      /\ UNCHANGED <<vars, list, scratch, props, frames, call>>
  BY DEF AddCurrentEventAsJson
<1>2. /\ event' = event /\ sibling' = sibling /\ lastError' = lastError /\ subState' = subState
      /\ scratch' = scratch /\ frames' = frames /\ call' = call
  BY <1>1 DEF vars, position
<1>3. /\ PosInv /\ format \in FormatRecord /\ call \in CallRecord /\ ~sibling.running /\ AtStart
      /\ event # NoEvent /\ call.kind # "None"
      /\ IsText(output) /\ IsText(scratch) /\ format.mark <= Len(output) /\ frames = << >>
      /\ scratch = << >> /\ ~format.rendering.printf /\ ~format.hurt
  BY <1>1 DEF FormatInv, LoopInv, CallInv, StageInv, BufferInv, Swapped, OutputNow, FormatAt, NoFormatting
<1>4. PosInv'
  <2>1. [Next]_vars
    BY <1>1
  <2> QED BY <1>3, <2>1, NextPosInv
<1> DEFINE mark == Len(output) + 1
           token == <<"{">>
<1> HIDE DEF token
<1>5. IsText(output') /\ Len(output') = mark /\ Len(output) \in Nat /\ mark \in Nat
  <2>1. /\ IsText(Append(output, token)) /\ Len(Append(output, token)) = Len(output) + 1
        /\ Len(output) \in Nat
    BY <1>3, TextAppend
  <2>2. output' = Append(output, token)
    BY <1>1 DEF token
  <2> QED BY <2>1, <2>2
<1>6. json' \in JsonRecord /\ json'.at = "first" /\ json'.depth = 1 /\ ~json'.failed
  <2>1. json' = [NoJson EXCEPT !.at = "first", !.depth = 1, !.includeName = TRUE, !.mark = mark]
    BY DEF AddCurrentEventAsJson
  <2> HIDE DEF mark
  <2> QED BY <1>5, <2>1 DEF NoJson, JsonRecord, JsonStep
<1>7. request'.prefix = << >> /\ request'.from = 0 /\ request'.shown \in Shown \cup {<< >>}
  BY <1>3 DEF AddCurrentEventAsJson, NoRequest, CallRecord
<1>8. /\ format' \in FormatRecord /\ format'.at = "json"
      /\ format'.message = format.message /\ format'.mark = format.mark
      /\ format'.trailing = format.trailing
      /\ format'.hurt = format.hurt /\ format'.rendering = format.rendering
  <2>1. "json" \in FormatStep
    BY DEF FormatStep
  <2> QED BY <1>1, <1>3, <2>1, RecordFacts
<1>9. LoopInv'
  <2>1. PlaceInv' /\ StatusInv' /\ RequestInv'
    BY <1>2, <1>3, <1>6, <1>7 DEF PlaceInv, StatusInv, RequestInv, NoCall, At, Idle, AtStart
  <2> QED BY <1>2, <1>3, <1>4, <1>6, <1>8, <2>1 DEF LoopInv, CallInv, FormatAt, AtStart
<1>10. StageInv'
  BY <1>1, <1>2, <1>3, <1>8 DEF FormatInv, StageInv, FormatAt, NoFormatting, Expanding
<1>11. BufferInv'
  <2>1. format.mark \in Nat /\ format.mark <= Len(output')
    BY <1>3, <1>5 DEF FormatRecord
  <2> QED BY <1>2, <1>3, <1>5, <1>8, <2>1 DEF BufferInv, FormatAt, Swapped, OutputNow
<1>12. ~InExpansion' /\ PropsInv'
  BY <1>2, <1>3, <1>8 DEF InExpansion, Expanding, FormatAt, PropsInv
<1> QED BY <1>9, <1>10, <1>11, <1>12, NotExpanding

-----------------------------------------------------------------------------
(* From one call to the next. *)

\* What Reset leaves.
LEMMA ResetKeeps ==
  ASSUME PosInv, Idle, subState # "None", ResetImpl(event),
         UNCHANGED <<event, integerValues, valuesCapacity>>
  PROVE  PosInv' /\ AtStart' /\ sibling' = sibling /\ event # NoEvent
<1>1. Reset
  BY DEF Reset
<1>2. PosInv'
  BY <1>1, ResetKeepsIInv DEF IInv
<1>3. event # NoEvent /\ top \in StackEntry
  BY DEF PosInv, TypeOK, Positioned
<1>4. top'.PropertyIndex = 0
  <2> DEFINE count == event.tei.TopLevelPropertyCount
  <2>1. top' = [top EXCEPT !.PropertyIndex = 0, !.PropertyEnd = count]
    BY DEF ResetImpl
  <2> HIDE DEF count
  <2> QED BY <1>3, <2>1 DEF StackEntry
<1>5. AtStart' /\ sibling' = sibling
  BY <1>4 DEF AtStart, ResetImpl
<1> QED BY <1>2, <1>3, <1>5

\* The event is written as JSON after all: its position, the scratch buffer and
\* the output are again what they were before its message.
LEMMA RetryAsJsonKeeps ==
  ASSUME FormatInv, RetryAsJson
  PROVE  FormatInv'
<1>1. /\ FormatAt("retry") /\ output' = SubSeq(output, 1, format.mark)
      /\ scratch' = << >> /\ frames' = << >> /\ ResetImpl(event)
      /\ format' = [format EXCEPT !.at = "asJson"]
      /\ UNCHANGED <<event, integerValues, valuesCapacity>>
      /\ json' = json /\ request' = request /\ call' = call
  BY DEF RetryAsJson
<1>2. /\ PosInv /\ RequestInv /\ json = NoJson /\ ~sibling.running
      /\ format \in FormatRecord /\ call \in CallRecord
      /\ event # NoEvent /\ call.kind = "Event" /\ format.message
      /\ call.message # NoMessage /\ ~format.rendering.printf /\ ~format.hurt
      /\ IsText(output) /\ format.mark <= Len(output)
  BY <1>1 DEF FormatInv, LoopInv, CallInv, StageInv, BufferInv, Swapped, OutputNow, FormatAt,
     NoFormatting
<1>3. Idle /\ subState # "None"
  BY <1>2 DEF Idle, PosInv, TypeOK, Positioned
<1>4. PosInv' /\ AtStart' /\ sibling' = sibling
  BY <1>1, <1>2, <1>3, ResetKeeps
<1>5. /\ format' \in FormatRecord /\ format'.at = "asJson"
      /\ format'.message = format.message /\ format'.mark = format.mark
      /\ format'.trailing = format.trailing
      /\ format'.hurt = format.hurt /\ format'.rendering = format.rendering
  <2>1. "asJson" \in FormatStep
    BY DEF FormatStep
  <2> QED BY <1>1, <1>2, <2>1, RecordFacts
<1>6. IsText(output') /\ format'.mark <= Len(output')
  <2> DEFINE mark == format.mark
  <2>1. mark \in Nat /\ Len(output) \in Nat /\ mark <= Len(output)
    BY <1>2, TextIntro DEF FormatRecord, IsText
  <2> HIDE DEF mark
  <2>2. IsText(SubSeq(output, 1, mark)) /\ Len(SubSeq(output, 1, mark)) = mark
    BY <1>2, <2>1, TextPrefix
  <2>3. mark <= Len(SubSeq(output, 1, mark))
    BY <2>1, <2>2
  <2> QED BY <1>1, <1>5, <2>2, <2>3 DEF mark
<1>7. LoopInv'
  BY <1>1, <1>2, <1>4, <1>5, QuietCall DEF LoopInv, FormatAt
<1>8. StageInv'
  BY <1>1, <1>2, <1>4, <1>5 DEF StageInv, FormatAt, NoFormatting, Expanding
<1>9. BufferInv'
  <2>1. IsText(scratch') /\ ~Swapped' /\ OutputNow' = output'
    BY <1>1, <1>2, <1>5, TextOfFew DEF Swapped, OutputNow
  <2> QED BY <1>1, <1>5, <1>6, <2>1 DEF BufferInv, FormatAt
<1>10. ~InExpansion'
 /\ PropsInv'
  BY <1>5 DEF InExpansion, Expanding, FormatAt, PropsInv
<1> QED BY <1>7, <1>8, <1>9, <1>10, NotExpanding

\* The call returns.
LEMMA FormatResultKeeps ==
  ASSUME FormatInv, FormatResult
  PROVE  FormatInv'
<1>1. /\ FormatAt("result")
      /\ UNCHANGED <<event, position, stackCapacity, sibling, settings, jsonVars, scratch, frames, call>>
  BY DEF FormatResult
<1>2. /\ event' = event /\ sibling' = sibling /\ output' = output /\ json' = json
      /\ request' = request /\ scratch' = scratch /\ frames' = frames /\ call' = call
      /\ valuesCapacity' = valuesCapacity /\ pointerSizeFallback' = pointerSizeFallback
  BY <1>1 DEF jsonVars, settings
<1>3. /\ PosInv /\ RequestInv /\ json = NoJson /\ ~sibling.running
      /\ format \in FormatRecord /\ call \in CallRecord
      /\ event # NoEvent /\ call.kind # "None"
      /\ (call.kind = "Message" => call.message # NoMessage)
      /\ (format.message => call.message # NoMessage /\ call.kind # "Prefix")
      /\ (format.hurt => lastError # "SUCCESS")
      /\ BufferInv /\ lastError \in Status /\ pointerSizeFallback \in {4, 8}
  BY <1>1 DEF FormatInv, LoopInv, CallInv, StageInv, FormatAt, NoFormatting, PosInv, TypeOK
<1>4. /\ lastError' \in Status /\ returned' \in BOOLEAN
      /\ (returned' <=> lastError' = "SUCCESS")
      /\ (lastError' = "SUCCESS" => lastError = "SUCCESS")
      /\ format' \in FormatRecord /\ format'.at = "done"
      /\ format'.message = format.message /\ format'.mark = format.mark
      /\ format'.rendering = format.rendering
      /\ (format'.hurt => lastError' # "SUCCESS")
  <2>1. "done" \in FormatStep /\ "OUTOFMEMORY" \in Status
    BY DEF FormatStep, Status
  <2>2. CASE /\ returned' = (lastError = "SUCCESS") /\ UNCHANGED lastError
             /\ format' = [format EXCEPT !.at = "done"]
    BY <1>3, <2>1, <2>2, RecordFacts
  <2>3. CASE /\ lastError = "SUCCESS" /\ returned' = FALSE /\ lastError' = "OUTOFMEMORY"
             /\ format' = [format EXCEPT !.at = "done", !.hurt = TRUE]
    BY <1>3, <2>1, <2>3 DEF FormatRecord
  <2> QED BY <2>2, <2>3 DEF FormatResult
<1>5. PosInv'
  BY <1>1, <1>2, <1>3, <1>4, ReportKeepsPosInv
<1>6. LoopInv'
  BY <1>2, <1>3, <1>4, <1>5, QuietCall DEF LoopInv, FormatAt
<1>7. StageInv'
  BY <1>2, <1>3, <1>4 DEF StageInv, FormatAt, NoFormatting, Expanding
<1>8. BufferInv'
  <2>1. Swapped' = Swapped /\ OutputNow' = OutputNow
    BY <1>2, <1>4 DEF Swapped, OutputNow
  <2> QED BY <1>1, <1>2, <1>3, <1>4, <2>1 DEF BufferInv, FormatAt
<1>9. ~InExpansion' /\ PropsInv'
  BY <1>4 DEF InExpansion, Expanding, FormatAt, PropsInv
<1> QED BY <1>6, <1>7, <1>8, <1>9, NotExpanding

\* Nothing of a call is left, or nothing of it is there yet but its arguments.
LEMMA CallBegins ==
  ASSUME PosInv', RequestInv, json' = NoJson, request' = request,
         NEW step \in FormatStep \ {"properties", "expand", "json", "retry", "result", "done"},
         format' = [NoFormat EXCEPT !.at = step] \/ (step = "idle" /\ format' = NoFormat),
         output' = << >>, scratch' = << >>, frames' = << >>, call' \in CallRecord,
         call'.kind = "Message" => call'.message # NoMessage,
         step = "idle" \/ (event' # NoEvent /\ call'.kind # "None" /\ ~sibling'.running),
         step = "firstItem" => call'.message # NoMessage /\ call'.kind # "Prefix" /\ AtStart',
         step = "asJson" => call'.kind = "Event" /\ AtStart',
         step = "prefix" /\ call'.kind # "Prefix" => AtStart'
  PROVE  FormatInv'
<1>1. /\ format' \in FormatRecord /\ format'.at = step /\ ~format'.message /\ ~format'.hurt
      /\ format'.trailing = MaxRecursionLimit /\ format'.mark = 0 /\ ~format'.rendering.printf
  BY NoFormatFacts, RecordFacts DEF FormatRecord
<1>2. IsText(<< >>) /\ Len(<< >>) = 0
  BY TextOfFew
<1>3. LoopInv'
  BY <1>1, QuietCall DEF LoopInv, FormatAt
<1>4. StageInv'
  BY <1>1 DEF StageInv, FormatAt, NoFormatting, Expanding
<1>5. BufferInv'
  BY <1>1, <1>2 DEF BufferInv, FormatAt, Swapped, OutputNow
<1>6. ~InExpansion' /\ PropsInv'
  BY <1>1 DEF InExpansion, Expanding, FormatAt, PropsInv
<1> QED BY <1>3, <1>4, <1>5, <1>6, NotExpanding

\* Any other operation.
LEMMA OtherOperationKeeps ==
  ASSUME FormatInv, OtherOperation
  PROVE  FormatInv'
<1>1. /\ NoFormatting /\ Next /\ call' = NoFormatCall /\ format' = NoFormat
      /\ output' = << >> /\ scratch' = << >> /\ frames' = << >>
      /\ json' = json /\ request' = request
  BY DEF OtherOperation
<1>2. PosInv /\ RequestInv /\ json = NoJson
  BY <1>1 DEF FormatInv, LoopInv, CallInv, NoFormatting, FormatAt
<1>3. PosInv'
  BY <1>1, <1>2, NextPosInv
<1>4. NoFormatCall \in CallRecord /\ NoFormatCall.kind = "None"
  BY DEF NoFormatCall, CallRecord
<1>5. "idle" \in FormatStep \ {"properties", "expand", "json", "retry", "result", "done"}
  BY DEF FormatStep
<1> QED BY <1>1, <1>2, <1>3, <1>4, <1>5, CallBegins

\* A call for the event, with its message or another one.
LEMMA BeginFromResetKeeps ==
  ASSUME FormatInv, NEW c \in CallRecord, BeginFromReset(c),
         c.kind \in {"Message", "Event"}, c.kind = "Message" => c.message # NoMessage
  PROVE  FormatInv'
<1> DEFINE step == IF c.prefix # << >> THEN "prefix" ELSE AfterPrefix(c)
<1>1. /\ NoFormatting /\ Idle /\ subState # "None" /\ call' = c
      /\ format' = [NoFormat EXCEPT !.at = step]
      /\ output' = << >> /\ scratch' = << >> /\ frames' = << >>
      /\ json' = json /\ request' = request
      /\ ResetImpl(event) /\ UNCHANGED <<event, integerValues, valuesCapacity>>
  BY DEF BeginFromReset, Begin
<1>2. PosInv /\ RequestInv /\ json = NoJson
  BY <1>1 DEF FormatInv, LoopInv, CallInv, NoFormatting, FormatAt
<1>3. PosInv' /\ AtStart' /\ sibling' = sibling /\ event' # NoEvent
  BY <1>1, <1>2, ResetKeeps
<1>4. /\ step \in {"prefix", "firstItem", "asJson"}
      /\ (step = "firstItem" => c.message # NoMessage)
      /\ (step = "asJson" => c.kind = "Event")
  BY DEF AfterPrefix
<1> HIDE DEF step
<1>5. step \in FormatStep \ {"properties", "expand", "json", "retry", "result", "done"}
  BY <1>4 DEF FormatStep
<1> QED BY <1>1, <1>2, <1>3, <1>4, <1>5, CallBegins DEF Idle

\* A call of any kind.
LEMMA FormatCallKeeps ==
  ASSUME FormatInv, FormatCall
  PROVE  FormatInv'
<1>1. PICK prefix \in PrefixFormats :
        \/ FormatCurrentEventPrefix(prefix)
        \/ \E message \in Messages : FormatCurrentEventWithMessage(prefix, message)
        \/ \E message \in Messages \cup {NoMessage}, shown \in Shown :
             FormatCurrentEvent(prefix, message, TRUE, shown)
  BY DEF FormatCall
<1>2. CASE FormatCurrentEventPrefix(prefix)
  <2> DEFINE c == [NoFormatCall EXCEPT !.kind = "Prefix", !.prefix = prefix]
  <2>1. c \in CallRecord /\ c.kind = "Prefix"
    BY DEF NoFormatCall, CallRecord
  <2>2. Begin(c, "prefix") /\ UNCHANGED vars
    BY <1>2 DEF FormatCurrentEventPrefix
  <2> HIDE DEF c
  <2>3. /\ NoFormatting /\ Idle /\ subState # "None" /\ call' = c
        /\ format' = [NoFormat EXCEPT !.at = "prefix"]
        /\ output' = << >> /\ scratch' = << >> /\ frames' = << >>
        /\ json' = json /\ request' = request /\ event' = event /\ sibling' = sibling
    BY <2>2 DEF Begin, vars
  <2>4. PosInv /\ RequestInv /\ json = NoJson
    BY <2>3 DEF FormatInv, LoopInv, CallInv, NoFormatting, FormatAt
  <2>5. event # NoEvent
    BY <2>3, <2>4 DEF PosInv, TypeOK, Positioned
  <2>6. PosInv'
    <3>1. [Next]_vars
      BY <2>2
    <3> QED BY <2>4, <3>1, NextPosInv
  <2>7. "prefix" \in FormatStep \ {"properties", "expand", "json", "retry", "result", "done"}
    BY DEF FormatStep
  <2> QED BY <2>1, <2>3, <2>4, <2>5, <2>6, <2>7, CallBegins DEF Idle
<1>3. ASSUME NEW message \in Messages, FormatCurrentEventWithMessage(prefix, message)
      PROVE  FormatInv'
  <2> DEFINE c == [NoFormatCall EXCEPT !.kind = "Message", !.prefix = prefix, !.message = message]
  <2>1. c \in CallRecord /\ c.kind = "Message" /\ c.message # NoMessage
    BY FormatAssumption DEF NoFormatCall, CallRecord
  <2>2. BeginFromReset(c)
    BY <1>3 DEF FormatCurrentEventWithMessage
  <2> HIDE DEF c
  <2> QED BY <2>1, <2>2, BeginFromResetKeeps
<1>4. ASSUME NEW message \in Messages \cup {NoMessage}, NEW shown \in Shown,
             FormatCurrentEvent(prefix, message, TRUE, shown)
      PROVE  FormatInv'
  <2> DEFINE c == [kind |-> "Event", prefix |-> prefix, message |-> message, suffix |-> TRUE,
                   shown |-> shown]
  <2>1. c \in CallRecord /\ c.kind = "Event"
    BY DEF CallRecord
  <2>2. BeginFromReset(c)
    BY <1>4 DEF FormatCurrentEvent
  <2> HIDE DEF c
  <2> QED BY <2>1, <2>2, BeginFromResetKeeps
<1> QED BY <1>1, <1>2, <1>3, <1>4

-----------------------------------------------------------------------------
(* The invariant. *)

\* No call has been made.
LEMMA InitFormatInv == FormatInit => FormatInv
<1> SUFFICES ASSUME FormatInit PROVE FormatInv
  OBVIOUS
<1>1. PosInv
  BY InitIInv DEF FormatInit, JsonInit, IInv
<1>2. /\ output = << >> /\ json = NoJson /\ request = NoRequest
      /\ scratch = << >> /\ frames = << >> /\ call = NoFormatCall /\ format = NoFormat
  BY DEF FormatInit, JsonInit
<1>3. IsText(<< >>) /\ Len(<< >>) = 0
  BY TextOfFew
<1>4. NoFormatCall \in CallRecord /\ NoFormatCall.kind = "None"
  BY DEF NoFormatCall, CallRecord
<1>5. /\ format \in FormatRecord /\ format.at = "idle" /\ ~format.message /\ ~format.hurt
      /\ format.trailing = MaxRecursionLimit /\ format.mark = 0 /\ ~format.rendering.printf
  BY <1>2, NoFormatFacts
<1>6. CallInv
  BY <1>1, <1>2, NoJsonFacts DEF CallInv, PlaceInv, StatusInv, RequestInv, NoCall, At
<1>7. LoopInv
  BY <1>2, <1>5, <1>6 DEF LoopInv, FormatAt
<1>8. StageInv
  BY <1>2, <1>4, <1>5 DEF StageInv, FormatAt, NoFormatting, Expanding
<1>9. BufferInv
  BY <1>2, <1>3, <1>5 DEF BufferInv, FormatAt, Swapped, OutputNow
<1>10. ~InExpansion /\ PropsInv
  BY <1>5 DEF InExpansion, Expanding, FormatAt, PropsInv
<1>11. ~(FormatAt("json") /\ frames # << >>)
  BY <1>10 DEF InExpansion
<1> QED BY <1>7, <1>8, <1>9, <1>10, <1>11 DEF FormatInv, FrameInv, UseInv, SpaceInv, JsonLevelInv

\* Nothing happens.
LEMMA StutteringKeeps ==
  ASSUME FormatInv, UNCHANGED everything
  PROVE  FormatInv'
<1>1. UNCHANGED <<vars, output, json, request, scratch, props, frames, call, format>>
  BY DEF everything, allVars, jsonVars, formatVars
<1>2. /\ event' = event /\ top' = top /\ stack' = stack /\ subState' = subState
      /\ lastError' = lastError /\ returned' = returned /\ sibling' = sibling
  BY <1>1 DEF vars, position
<1>3. CallInv'
  <2>1. PosInv'
    BY <1>1, NextPosInv DEF FormatInv, LoopInv, CallInv
  <2> QED BY <1>1, <1>2, <2>1 DEF FormatInv, LoopInv, CallInv, PlaceInv, StatusInv, RequestInv, NoCall,
         At, Idle, AtItem
<1>4. LoopInv'
  BY <1>1, <1>2, <1>3 DEF FormatInv, LoopInv, FormatAt
<1>5. StageInv'
  BY <1>1, <1>2 DEF FormatInv, StageInv, FormatAt, NoFormatting, Expanding, AtStart, AtTop
<1>6. Nesting' = Nesting /\ Level' = Level
  BY <1>1, <1>2 DEF Nesting, Level, At, DepthChange
<1>7. PropsInv'
  BY <1>1, <1>2, <1>6 DEF FormatInv, PropsInv, FormatAt, InExpansion, Expanding, Readable, Idle, AtItem,
     RootOf
<1>8. BufferInv'
  BY <1>1, <1>2 DEF FormatInv, BufferInv, FormatAt, Swapped, OutputNow
<1>9. /\ InExpansion' = InExpansion /\ Expanding' = Expanding /\ ScratchNow' = ScratchNow
      /\ Source' = Source /\ Rendering' = Rendering
  BY <1>1 DEF InExpansion, Expanding, FormatAt, ScratchNow, Swapped, Source, Rendering
<1>10. FrameInv' /\ UseInv' /\ SpaceInv'
  BY <1>1, <1>9 DEF FormatInv, FrameInv, UseInv, SpaceInv
<1>11. JsonLevelInv'
  BY <1>1, <1>2, <1>6 DEF FormatInv, JsonLevelInv, FormatAt, At, AtTop
<1> QED BY <1>4, <1>5, <1>7, <1>8, <1>10, <1>11 DEF FormatInv

\* Every step keeps the invariant.
LEMMA NextFormatInv == FormatInv /\ [FormatNext]_everything => FormatInv'
<1> SUFFICES ASSUME FormatInv, [FormatNext]_everything PROVE FormatInv'
  OBVIOUS
<1>1. CASE OtherOperation \/ FormatCall \/ UNCHANGED everything
  BY <1>1, OtherOperationKeeps, FormatCallKeeps, StutteringKeeps
<1>2. CASE AddPrefix \/ MoveToFirstItem \/ SimpleProperty \/ ComplexProperty \/ ComplexPropertyLoop
           \/ ExpandMessage
  BY <1>2, AddPrefixKeeps, MoveToFirstItemKeeps, SimplePropertyKeeps, ComplexPropertyKeeps,
     ExpandMessageKeeps
<1>3. CASE ExpandText \/ EndOfFormat \/ ParameterMessage \/ PropertyIndexOutOfRange \/ PropertyInUse
           \/ PropertyAsText \/ PropertyRecurses
  BY <1>3, PlainKeeps, EndOfFormatKeeps, ParameterMessageKeeps, PropertyAsTextKeeps,
     PropertyRecursesKeeps
<1>4. CASE PropertyAsJson \/ WriteJson \/ JsonFails \/ JsonEventEnds \/ JsonPropertyOutOfMemory
           \/ JsonPropertyEnds \/ AddCurrentEventAsJson
  BY <1>4, PropertyAsJsonKeeps, WriteJsonKeeps, JsonFailureKeeps, JsonEventEndsKeeps,
     JsonPropertyEndsKeeps, AddCurrentEventAsJsonKeeps
<1>5. CASE FormatOutOfMemory \/ ParameterMissing \/ PropertyFails \/ RetryAsJson \/ FormatResult
  BY <1>5, FailuresKeep, RetryAsJsonKeeps, FormatResultKeeps
<1> QED BY <1>1, <1>2, <1>3, <1>4, <1>5 DEF FormatNext, FormatStepTaken

-----------------------------------------------------------------------------
(* What the invariant gives. *)

\* A call never leaves the states that FormatInv describes.
THEOREM FormatInvariance == FormatSpec => []FormatInv
<1> QED BY InitFormatInv, NextFormatInv, PTL DEF FormatSpec

\* The frames, as the invariant has them, are those of FormatTypeOK.
LEMMA FramesTyped ==
  ASSUME FormatInv, Expanding
  PROVE  frames \in Seq(Frames) \ {<< >>}
<1> DEFINE n == Len(frames)
<1>1. /\ FramesOK(frames, scratch, Source, ~format.message) /\ UsesOK(frames, props, {})
      /\ IsText(scratch) /\ props \in Seq(PropInfo)
  BY ExpansionFacts
<1>2. /\ n \in Nat /\ DOMAIN frames = 1 .. n /\ \A k \in 1 .. n : frames[k] \in FrameRecord
      /\ frames \in Seq(FrameRecord) /\ frames # << >>
      /\ Len(scratch) \in Nat
  BY <1>1, FrameFacts DEF FramesOK
<1>3. Len(props) \in Nat
  BY <1>1
<1>4. ASSUME NEW k \in 1 .. n PROVE frames[k] \in Frames
  <2>1. frames[k].back \in 0 .. Len(scratch)
    BY <1>1, <1>2 DEF FramesOK, FrameRecord
  <2>2. frames[k].index \in 0 .. Len(props)
    <3>1. frames[k].index \in IndexesOf(frames)
      BY DEF IndexesOf
    <3>2. frames[k].index # 0 => frames[k].index \in 1 .. Len(props)
      BY <1>1, <3>1 DEF UsesOK
    <3> QED BY <1>3, <3>2
  <2>3. frames[k].text \in {call.prefix, call.message, << >>}
    <3>1. k = 1 => frames[k].text = Source
      BY <1>1 DEF FramesOK, OuterOK
    <3>2. k # 1 => frames[k].text = << >>
      <4>1. k # 1 => k \in 2 .. n
        BY <1>2
      <4> QED BY <1>1, <4>1 DEF FramesOK, NestedOK
    <3> QED BY <3>1, <3>2 DEF Source
  <2> QED BY <1>2, <2>1, <2>2, <2>3 DEF Frames, FrameRecord
<1>5. frames \in [1 .. n -> Frames]
  <2>1. frames = [k \in 1 .. n |-> frames[k]]
    BY <1>2, LenProperties
  <2> HIDE DEF n
  <2> QED BY <1>4, <2>1
<1>6. frames \in Seq(Frames)
  BY <1>2, <1>5, SeqDef
<1> QED BY <1>2, <1>6

\* The types, of the enumerator too, whose position a call moves back and forth;
\* and no text is expanded below a recursion limit of 0.
THEOREM FormatTypes == FormatSpec => []FormatTypeOK
<1>1. ASSUME FormatInv PROVE FormatTypeOK
  <2>1. TypeOK /\ NeverAtNoItem
    BY <1>1 DEF FormatInv, LoopInv, CallInv, PosInv, PlaceInv, NeverAtNoItem, At
  <2>2. format.at \in FormatStep /\ format.mark \in Nat
    BY <1>1 DEF FormatInv, StageInv, FormatRecord
  <2>3. ~format.rendering.printf => format.mark <= Len(output)
    BY <1>1 DEF FormatInv, BufferInv, OutputNow, Swapped
  <2>4. FormatAt("expand") => frames \in Seq(Frames) \ {<< >>}
    BY <1>1, FramesTyped DEF Expanding
  <2> QED BY <2>1, <2>2, <2>3, <2>4 DEF FormatTypeOK
<1> QED BY <1>1, FormatInvariance, PTL

\* What the code asserts holds: the properties of an event are read one after
\* the other to the last item, one is read again only from the top level, where
\* nothing is open, the scratch buffer is empty wherever it is given back, and
\* what is taken off the end of the output is a space.
THEOREM AssertsOfFormat == FormatSpec => []FormatAsserts
<1>1. ASSUME FormatInv PROVE FormatAsserts
  <2>1. NextPropertyOfMessage => AtItem /\ stack = << >> /\ top.PropertyIndex = Len(props)
    BY <1>1 DEF FormatInv, PropsInv, NextPropertyOfMessage
  <2>2. FormatAt("properties") /\ Idle /\ Len(props) = event.tei.TopLevelPropertyCount =>
          subState = "AfterLastItem"
    BY <1>1 DEF FormatInv, PropsInv
  <2>3. AtProperty({"json"}) => stack = << >>
    <3> SUFFICES ASSUME AtProperty({"json"}) PROVE stack = << >>
      OBVIOUS
    <3>1. Expanding /\ Index \in DOMAIN props /\ props[Index].type = "json"
      BY DEF AtProperty
    <3>2. format.message
      BY <1>1, <3>1, ExpansionFacts DEF Readable
    <3> QED BY <1>1, <3>1, <3>2, ExpansionFacts DEF AtTop
  <2>4. /\ FormatAt("asJson") => scratch = << >>
        /\ (FormatAt("result") \/ FormatAt("done")) /\ lastError = "SUCCESS" => scratch = << >>
    BY <1>1 DEF FormatInv, BufferInv, FormatAt
  <2>5. Expanding /\ Token = Nul /\ WithoutTrailingSpace # output => Last(output) = Space
    BY <1>1, TrailingSpace
  <2> QED BY <2>1, <2>2, <2>3, <2>4, <2>5 DEF FormatAsserts
<1> QED BY <1>1, FormatInvariance, PTL

\* Nested calls share the scratch buffer as a stack, each reading its own text to
\* the nul that ends it, and a property is in use exactly while it is expanded.
THEOREM FramesAreAStack == FormatSpec => []FramesKeepTheirText
<1>1. ASSUME FormatInv PROVE FramesKeepTheirText
  <2> SUFFICES ASSUME Expanding
               PROVE  /\ \A k \in 1 .. Len(frames) :
                           IF frames[k].inScratch
                           THEN /\ frames[k].i \in frames[k].back + 1 .. ScratchEnd(k)
                                /\ \A i \in frames[k].back + 1 .. ScratchEnd(k) :
                                     scratch[i] = Nul <=> i = ScratchEnd(k)
                           ELSE k = 1 /\ ScratchEnd(k) = 0
                      /\ {n \in DOMAIN props : props[n].inUse} =
                           {frames[k].index : k \in DOMAIN frames} \ {0}
    BY DEF FramesKeepTheirText
  <2>1. /\ FramesOK(frames, scratch, Source, ~format.message) /\ UsesOK(frames, props, {})
        /\ IsText(scratch) /\ props \in Seq(PropInfo)
    BY <1>1, ExpansionFacts
  <2>2. Len(frames) \in Nat /\ DOMAIN frames = 1 .. Len(frames)
    BY <2>1, FrameFacts
  <2>3. \A k : ScratchEnd(k) = EndOf(frames, scratch, k)
    BY DEF ScratchEnd, EndOf
  <2>4. ~frames[1].inScratch /\ ScratchEnd(1) = 0
    BY <2>1, <2>3 DEF FramesOK, OuterOK
  <2>5. ASSUME NEW k \in 1 .. Len(frames), k # 1
        PROVE  /\ frames[k].inScratch
               /\ frames[k].i \in frames[k].back + 1 .. ScratchEnd(k)
               /\ \A i \in frames[k].back + 1 .. ScratchEnd(k) : scratch[i] = Nul <=> i = ScratchEnd(k)
    <3>1. NestedOK(frames, scratch, k)
      <4>1. k \in 2 .. Len(frames)
        BY <2>2, <2>5
      <4> QED BY <2>1, <4>1 DEF FramesOK
    <3> QED BY <2>3, <3>1 DEF NestedOK
  <2>6. {n \in DOMAIN props : props[n].inUse} = {frames[k].index : k \in DOMAIN frames} \ {0}
    <3>1. DOMAIN props = 1 .. Len(props)
      BY <2>1, LenProperties
    <3>2. {n \in 1 .. Len(props) : props[n].inUse} = IndexesOf(frames) \ {0}
      BY <2>1 DEF UsesOK
    <3> QED BY <2>2, <3>1, <3>2 DEF IndexesOf
  <2> QED BY <2>4, <2>5, <2>6
<1> QED BY <1>1, FormatInvariance, PTL

\* A call returns FALSE exactly when m_lastError says why, and it does after
\* memory ran out or a callback failed, however far the formatting had got.
THEOREM FormatsReport == FormatSpec => []FormatReports
<1>1. ASSUME FormatInv PROVE FormatReports
  BY <1>1 DEF FormatInv, StageInv, FormatReports, FormatAt
<1> QED BY <1>1, FormatInvariance, PTL

\* While a call moves the enumerator to a property and back, MoveNext's asserts
\* hold and what is formatted lies in the payload, as when its owner moves it.
THEOREM FormatItems == FormatSpec => []ItemsStated
<1>1. FormatInv => ItemsStated
  BY PosInvStates DEF FormatInv, LoopInv, CallInv
<1> QED BY <1>1, FormatInvariance, PTL

=============================================================================

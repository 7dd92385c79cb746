------------------------ MODULE EtwAttributes_proofs ------------------------
(***************************************************************************)
(* The scan of an attribute string stays inside the buffer that was sized  *)
(* for it, whatever the string.                                            *)
(*                                                                         *)
(* What was written never gets ahead of what was read (Written), but       *)
(* SplitEventAttributes also writes a nul after each name and value.  The  *)
(* separator that ends one pays for its nul.  At the end of the string     *)
(* there is no separator: there, one nul is paid for by the "+ 1" of the   *)
(* buffer's size, and if the last character was a quoted "=", which the    *)
(* code takes for the one that precedes a value, a second one is paid for  *)
(* by the quote before it.  So the invariant says where the last character *)
(* that was read can be an "=" (Separated).                                *)
(***************************************************************************)
EXTENDS EtwAttributesResult, EtwInduction, FiniteSetTheorems, SequenceTheorems, TLAPS

\* A scan has something to read, and what it reads for.
Scanning ==
    /\ step # "idle" => string # << >> /\ call.op # "None"
    /\ step = "nameEnd" => pIn > 0
    /\ step = "attribute" => call.op = "Split"
    /\ quoted => InPart
    /\ Searches => nameStart = 0

\* Where the last character that was read can be an "=".
Separated ==
    /\ step = "name" => quoted \/ pIn = 0 \/ string[pIn] # "="
    /\ step \in {"valueEnd", "attribute"} => AtEnd \/ string[pIn] # "="

\* How far what was written can be ahead of what was read.
Written ==
    /\ InPart => Len(out) <= pIn /\ (quoted => Len(out) < pIn)
    /\ step = "nameEnd" => Len(out) <= pIn /\ (~AtEnd \/ HasValue => Len(out) < pIn)
    /\ step = "valueEnd" => Len(out) <= pIn /\ (~AtEnd => Len(out) < pIn)
    /\ step = "attribute" => Len(out) <= pIn + 1 /\ (~AtEnd => Len(out) <= pIn)

IInv == TypeOK /\ Scanning /\ Separated /\ Written

CallType == [op: {"None", "Split", "Find", "EventName"}, name: Names \cup {<< >>},
             room: Rooms \cup {0}]

\* The position and the lengths are numbers; what is read is a character.
LEMMA Measures ==
    ASSUME TypeOK
    PROVE  /\ string \in Seq(STRING)
           /\ Len(string) \in Nat
           /\ pIn \in Nat /\ pIn <= Len(string)
           /\ Len(out) \in Nat
           /\ InPart /\ ~AtEnd => pIn + 1 \in 1 .. Len(string) /\ Ch \in STRING
<1>1. string \in Seq(STRING)
  BY StringsAssumption DEF TypeOK
<1>2. Len(string) \in Nat /\ Len(out) \in Nat
  BY <1>1 DEF TypeOK
<1>3. pIn \in Nat /\ pIn <= Len(string)
  BY <1>2 DEF TypeOK
<1>4. ASSUME InPart, ~AtEnd PROVE pIn + 1 \in 1 .. Len(string) /\ Ch \in STRING
  <2>1. pIn + 1 \in 1 .. Len(string)
    BY <1>2, <1>3, <1>4 DEF AtEnd
  <2>2. QED
    BY <2>1, <1>1, ElementOfSeq DEF Ch
<1>5. QED
  BY <1>1, <1>2, <1>3, <1>4

\* A scan that starts, or does not, has the types.
LEMMA ScanTypes ==
    ASSUME TypeOK, NEW newStep, NEW status, Scan(newStep, status),
           newStep \in {"idle", "name"},
           status \in {"SUCCESS", "OUTOFMEMORY", "NOT_FOUND"},
           call' \in CallType, count' \in Nat
    PROVE  TypeOK'
<1>1. string' = string /\ pIn' = 0 /\ out' = << >> /\ nameStart' = 0 /\ valueStart' = 0
  BY DEF Scan
<1>2. Len(string) \in Nat /\ Len(out') = 0
  BY <1>1, Measures
<1>3. pIn' \in 0 .. Len(string') /\ nameStart' \in 0 .. Len(out') /\ valueStart' \in Nat
  BY <1>1, <1>2
<1>4. out' \in Seq(STRING \cup {Nul})
  BY <1>1
<1>5. quoted' \in BOOLEAN /\ matched' \in BOOLEAN /\ step' = newStep /\ lastError' = status
  BY DEF Scan
<1>6. QED
  BY <1>1, <1>3, <1>4, <1>5 DEF TypeOK, CallType

\* Each action keeps the types.
LEMMA TypeStep ==
    ASSUME TypeOK, Scanning, [Next]_attributeVars
    PROVE  TypeOK'
<1>1. ASSUME NEW room \in Rooms, SplitEventAttributes(room) PROVE TypeOK'
  <2>1. call' \in CallType /\ count' \in Nat
    BY <1>1 DEF TypeOK, CallType, Names, SplitEventAttributes, Begin
  <2>2. \/ Scan("name", "SUCCESS") \/ Scan("idle", "SUCCESS")
        \/ Scan("idle", "OUTOFMEMORY") \/ Scan("idle", "NOT_FOUND")
    BY <1>1 DEF SplitEventAttributes
  <2>3. QED
    BY <2>1, <2>2, ScanTypes
<1>2. ASSUME NEW name \in Names, FindEventAttribute(name) PROVE TypeOK'
  <2>1. call' \in CallType /\ count' \in Nat
    BY <1>2 DEF TypeOK, CallType, Names, FindEventAttribute, Begin
  <2>2. \/ Scan("name", "SUCCESS") \/ Scan("idle", "SUCCESS")
        \/ Scan("idle", "OUTOFMEMORY") \/ Scan("idle", "NOT_FOUND")
    BY <1>2 DEF FindEventAttribute, Search
  <2>3. QED
    BY <2>1, <2>2, ScanTypes
<1>3. CASE AppendCurrentEventNameFallback
  <2>1. call' \in CallType /\ count' \in Nat
    BY <1>3 DEF TypeOK, CallType, Names, AppendCurrentEventNameFallback, Begin
  <2>2. \/ Scan("name", "SUCCESS") \/ Scan("idle", "SUCCESS")
        \/ Scan("idle", "OUTOFMEMORY") \/ Scan("idle", "NOT_FOUND")
    BY <1>3 DEF AppendCurrentEventNameFallback, Search
  <2>3. QED
    BY <2>1, <2>2, ScanTypes
<1>4. CASE EndOfString
  <2>1. UNCHANGED unscanned
    BY <1>4 DEF EndOfString
  <2>2. pIn' \in 0 .. Len(string)
    BY <1>4, Measures DEF EndOfString, AtEnd
  <2>3. out' \in Seq(STRING \cup {Nul}) /\ Len(out') >= Len(out)
    BY <1>4, Measures DEF TypeOK, EndOfString
  <2>4. quoted' \in BOOLEAN /\ step' \in {"name", "value", "nameEnd", "valueEnd"}
    BY <1>4 DEF TypeOK, InPart, EndOfString, PartEnd
  <2>5. nameStart' \in 0 .. Len(out')
    BY <2>1, <2>3, Measures DEF TypeOK, unscanned
  <2>6. QED
    BY <2>1, <2>2, <2>3, <2>4, <2>5 DEF TypeOK, unscanned
<1>5. CASE EndChar
  <2>1. UNCHANGED unscanned
    BY <1>5 DEF EndChar
  <2>2. pIn' \in 0 .. Len(string)
    BY <1>5, Measures DEF EndChar, AtEnd
  <2>3. out' \in Seq(STRING \cup {Nul}) /\ Len(out') >= Len(out)
    BY <1>5, Measures DEF TypeOK, EndChar
  <2>4. quoted' \in BOOLEAN /\ step' \in {"name", "value", "nameEnd", "valueEnd"}
    BY <1>5 DEF TypeOK, InPart, EndChar, PartEnd
  <2>5. nameStart' \in 0 .. Len(out')
    BY <2>1, <2>3, Measures DEF TypeOK, unscanned
  <2>6. QED
    BY <2>1, <2>2, <2>3, <2>4, <2>5 DEF TypeOK, unscanned
<1>6. CASE Character
  <2>1. UNCHANGED unscanned
    BY <1>6 DEF Character
  <2>2. pIn' \in 0 .. Len(string)
    BY <1>6, Measures DEF Character, AtEnd
  <2>3. out' \in Seq(STRING \cup {Nul}) /\ Len(out') >= Len(out)
    BY <1>6, Measures DEF TypeOK, Character
  <2>4. quoted' \in BOOLEAN /\ step' \in {"name", "value", "nameEnd", "valueEnd"}
    BY <1>6 DEF TypeOK, InPart, Character
  <2>5. nameStart' \in 0 .. Len(out')
    BY <2>1, <2>3, Measures DEF TypeOK, unscanned
  <2>6. QED
    BY <2>1, <2>2, <2>3, <2>4, <2>5 DEF TypeOK, unscanned
<1>7. CASE OpenQuote
  <2>1. UNCHANGED unscanned
    BY <1>7 DEF OpenQuote
  <2>2. pIn' \in 0 .. Len(string)
    BY <1>7, Measures DEF OpenQuote, AtEnd
  <2>3. out' \in Seq(STRING \cup {Nul}) /\ Len(out') >= Len(out)
    BY <1>7, Measures DEF TypeOK, OpenQuote
  <2>4. quoted' \in BOOLEAN /\ step' \in {"name", "value", "nameEnd", "valueEnd"}
    BY <1>7 DEF TypeOK, InPart, OpenQuote
  <2>5. nameStart' \in 0 .. Len(out')
    BY <2>1, <2>3, Measures DEF TypeOK, unscanned
  <2>6. QED
    BY <2>1, <2>2, <2>3, <2>4, <2>5 DEF TypeOK, unscanned
<1>8. CASE DoubledQuote
  <2>1. UNCHANGED unscanned
    BY <1>8 DEF DoubledQuote
  <2>2. pIn' \in 0 .. Len(string)
    BY <1>8, Measures DEF DoubledQuote, IsDoubled, AtEnd
  <2>3. out' \in Seq(STRING \cup {Nul}) /\ Len(out') >= Len(out)
    BY <1>8, Measures DEF TypeOK, DoubledQuote
  <2>4. quoted' \in BOOLEAN /\ step' \in {"name", "value", "nameEnd", "valueEnd"}
    BY <1>8 DEF TypeOK, InPart, DoubledQuote
  <2>5. nameStart' \in 0 .. Len(out')
    BY <2>1, <2>3, Measures DEF TypeOK, unscanned
  <2>6. QED
    BY <2>1, <2>2, <2>3, <2>4, <2>5 DEF TypeOK, unscanned
<1>9. CASE CloseQuote
  <2>1. UNCHANGED unscanned
    BY <1>9 DEF CloseQuote
  <2>2. pIn' \in 0 .. Len(string)
    BY <1>9, Measures DEF CloseQuote, AtEnd
  <2>3. out' \in Seq(STRING \cup {Nul}) /\ Len(out') >= Len(out)
    BY <1>9, Measures DEF TypeOK, CloseQuote
  <2>4. quoted' \in BOOLEAN /\ step' \in {"name", "value", "nameEnd", "valueEnd"}
    BY <1>9 DEF TypeOK, InPart, CloseQuote
  <2>5. nameStart' \in 0 .. Len(out')
    BY <2>1, <2>3, Measures DEF TypeOK, unscanned
  <2>6. QED
    BY <2>1, <2>2, <2>3, <2>4, <2>5 DEF TypeOK, unscanned
<1>10. CASE NameSplit
  BY <1>10, StringsAssumption
     DEF TypeOK, Scanning, Searches, InPart, AtEnd, unscanned, NameSplit, HasValue
<1>11. CASE ValueSplit
  BY <1>11, StringsAssumption
     DEF TypeOK, Scanning, Searches, InPart, AtEnd, unscanned, ValueSplit
<1>12. CASE AttributeSplit
  BY <1>12, StringsAssumption
     DEF TypeOK, Scanning, Searches, InPart, AtEnd, unscanned, AttributeSplit,
         NextAttribute
<1>13. CASE NameSearched
  BY <1>13, StringsAssumption
     DEF TypeOK, Scanning, Searches, InPart, AtEnd, unscanned, NameSearched,
         HasValue
<1>14. CASE NotThisOne
  BY <1>14, StringsAssumption
     DEF TypeOK, Scanning, Searches, InPart, AtEnd, unscanned, NotThisOne
<1>15. CASE FoundLast
  BY <1>15, StringsAssumption
     DEF TypeOK, Scanning, Searches, InPart, AtEnd, unscanned, FoundLast
<1>16. CASE FoundFile
  <2>1. call' \in CallType /\ count' \in Nat
    BY <1>16 DEF TypeOK, CallType, Names, FoundFile
  <2>2. \/ Scan("name", "SUCCESS") \/ Scan("idle", "SUCCESS")
        \/ Scan("idle", "OUTOFMEMORY") \/ Scan("idle", "NOT_FOUND")
    BY <1>16 DEF FoundFile, Search
  <2>3. QED
    BY <2>1, <2>2, ScanTypes
<1>17. CASE NotFound
  BY <1>17, StringsAssumption
     DEF TypeOK, Scanning, Searches, InPart, AtEnd, unscanned, NotFound
<1>18. CASE UNCHANGED attributeVars
  BY <1>18 DEF attributeVars, TypeOK
<1>19. QED
  BY <1>1, <1>2, <1>3, <1>4, <1>5, <1>6, <1>7, <1>8, <1>9, <1>10, <1>11, <1>12,
     <1>13, <1>14, <1>15, <1>16, <1>17, <1>18
     DEF Next

\* No part ends before it began: each action keeps Scanning.
LEMMA ScanningStep ==
    ASSUME TypeOK, Scanning, [Next]_attributeVars
    PROVE  Scanning'
<1>1. ASSUME NEW room \in Rooms, SplitEventAttributes(room) PROVE Scanning'
  BY <1>1, StringsAssumption
     DEF TypeOK, Scanning, Searches, InPart, AtEnd, unscanned, SplitEventAttributes,
         Begin, Scan
<1>2. ASSUME NEW name \in Names, FindEventAttribute(name) PROVE Scanning'
  BY <1>2, StringsAssumption
     DEF TypeOK, Scanning, Searches, InPart, AtEnd, unscanned, FindEventAttribute,
         Begin, Search, Scan, Names
<1>3. CASE AppendCurrentEventNameFallback
  BY <1>3, StringsAssumption
     DEF TypeOK, Scanning, Searches, InPart, AtEnd, unscanned,
         AppendCurrentEventNameFallback, Begin, Search, Scan, Names
<1>4. CASE EndOfString
  BY <1>4, Measures
     DEF TypeOK, Scanning, Searches, InPart, AtEnd, unscanned, EndOfString, PartEnd
<1>5. CASE EndChar
  <2>1. pIn' > 0 /\ step' \in {"nameEnd", "valueEnd"} /\ quoted' = FALSE
    BY <1>5, Measures DEF TypeOK, EndChar, PartEnd
  <2>2. step # "idle" /\ UNCHANGED unscanned
    BY <1>5 DEF EndChar, InPart
  <2>3. QED
    BY <2>1, <2>2 DEF Scanning, Searches, unscanned
<1>6. CASE Character
  BY <1>6, Measures
     DEF TypeOK, Scanning, Searches, InPart, AtEnd, unscanned, Character, IsEndChar,
         Ch
<1>7. CASE OpenQuote
  BY <1>7, Measures
     DEF TypeOK, Scanning, Searches, InPart, AtEnd, unscanned, OpenQuote, Ch, Quote
<1>8. CASE DoubledQuote
  BY <1>8, Measures
     DEF TypeOK, Scanning, Searches, InPart, AtEnd, unscanned, DoubledQuote,
         IsDoubled, Ch, Quote
<1>9. CASE CloseQuote
  BY <1>9, Measures
     DEF TypeOK, Scanning, Searches, InPart, AtEnd, unscanned, CloseQuote, Ch, Quote
<1>10. CASE NameSplit
  BY <1>10, StringsAssumption
     DEF TypeOK, Scanning, Searches, InPart, AtEnd, unscanned, NameSplit
<1>11. CASE ValueSplit
  BY <1>11, StringsAssumption
     DEF TypeOK, Scanning, Searches, InPart, AtEnd, unscanned, ValueSplit
<1>12. CASE AttributeSplit
  BY <1>12, StringsAssumption
     DEF TypeOK, Scanning, Searches, InPart, AtEnd, unscanned, AttributeSplit,
         NextAttribute
<1>13. CASE NameSearched
  BY <1>13, StringsAssumption
     DEF TypeOK, Scanning, Searches, InPart, AtEnd, unscanned, NameSearched
<1>14. CASE NotThisOne
  BY <1>14, StringsAssumption
     DEF TypeOK, Scanning, Searches, InPart, AtEnd, unscanned, NotThisOne
<1>15. CASE FoundLast
  BY <1>15, StringsAssumption
     DEF TypeOK, Scanning, Searches, InPart, AtEnd, unscanned, FoundLast
<1>16. CASE FoundFile
  BY <1>16, StringsAssumption
     DEF TypeOK, Scanning, Searches, InPart, AtEnd, unscanned, FoundFile, Search,
         Scan, Names
<1>17. CASE NotFound
  BY <1>17, StringsAssumption
     DEF TypeOK, Scanning, Searches, InPart, AtEnd, unscanned, NotFound
<1>18. CASE UNCHANGED attributeVars
  BY <1>18 DEF attributeVars, Scanning, Searches, InPart
<1>19. QED
  BY <1>1, <1>2, <1>3, <1>4, <1>5, <1>6, <1>7, <1>8, <1>9, <1>10, <1>11, <1>12,
     <1>13, <1>14, <1>15, <1>16, <1>17, <1>18
     DEF Next

\* An "=" that is not quoted ends a name: each action keeps Separated.
LEMMA SeparatedStep ==
    ASSUME TypeOK, Scanning, Separated, [Next]_attributeVars
    PROVE  Separated'
<1> USE DEF Separated, AtEnd
<1>1. ASSUME NEW room \in Rooms, SplitEventAttributes(room) PROVE Separated'
  BY <1>1, Measures
     DEF Scanning, InPart, unscanned, SplitEventAttributes, Begin, Scan
<1>2. ASSUME NEW name \in Names, FindEventAttribute(name) PROVE Separated'
  BY <1>2, Measures
     DEF Scanning, InPart, unscanned, FindEventAttribute, Begin, Search, Scan, Names
<1>3. CASE AppendCurrentEventNameFallback
  BY <1>3, Measures
     DEF Scanning, InPart, unscanned, AppendCurrentEventNameFallback, Begin, Search,
         Scan, Names
<1>4. CASE EndOfString
  BY <1>4, Measures DEF Scanning, InPart, unscanned, EndOfString, PartEnd
<1>5. CASE EndChar
  <2>1. step = "value" => string[pIn'] = ";"
    BY <1>5, Measures DEF EndChar, IsEndChar, Ch
  <2>2. \/ step = "name"  /\ step' = "nameEnd"
        \/ step = "value" /\ step' = "valueEnd"
    BY <1>5 DEF EndChar, PartEnd, InPart
  <2>3. QED
    BY <1>5, <2>1, <2>2 DEF EndChar, unscanned
<1>6. CASE Character
  BY <1>6, Measures DEF Scanning, InPart, unscanned, Character, IsEndChar, Ch
<1>7. CASE OpenQuote
  BY <1>7, Measures DEF Scanning, InPart, unscanned, OpenQuote, Ch, Quote
<1>8. CASE DoubledQuote
  BY <1>8, Measures
     DEF Scanning, InPart, unscanned, DoubledQuote, IsDoubled, Ch, Quote
<1>9. CASE CloseQuote
  BY <1>9, Measures DEF Scanning, InPart, unscanned, CloseQuote, Ch, Quote
<1>10. CASE NameSplit
  BY <1>10, Measures DEF Scanning, InPart, unscanned, NameSplit, HasValue
<1>11. CASE ValueSplit
  BY <1>11, Measures DEF Scanning, InPart, unscanned, ValueSplit
<1>12. CASE AttributeSplit
  BY <1>12, Measures DEF Scanning, InPart, unscanned, AttributeSplit, NextAttribute
<1>13. CASE NameSearched
  BY <1>13, Measures DEF Scanning, InPart, unscanned, NameSearched, HasValue
<1>14. CASE NotThisOne
  BY <1>14, Measures DEF Scanning, InPart, unscanned, NotThisOne
<1>15. CASE FoundLast
  BY <1>15, Measures DEF Scanning, InPart, unscanned, FoundLast
<1>16. CASE FoundFile
  BY <1>16, Measures DEF Scanning, InPart, unscanned, FoundFile, Search, Scan, Names
<1>17. CASE NotFound
  BY <1>17, Measures DEF Scanning, InPart, unscanned, NotFound
<1>18. CASE UNCHANGED attributeVars
  BY <1>18 DEF attributeVars
<1>19. QED
  BY <1>1, <1>2, <1>3, <1>4, <1>5, <1>6, <1>7, <1>8, <1>9, <1>10, <1>11, <1>12,
     <1>13, <1>14, <1>15, <1>16, <1>17, <1>18
     DEF Next

\* Each nul has the place of a character that was not copied: each action
\* keeps Written.
LEMMA WrittenStep ==
    ASSUME TypeOK, Scanning, Separated, Written, [Next]_attributeVars
    PROVE  Written'
<1> USE DEF Written, InPart, AtEnd, HasValue
<1>1. ASSUME NEW room \in Rooms, SplitEventAttributes(room) PROVE Written'
  <2>1. step' \in {"idle", "name"} /\ pIn' = 0 /\ out' = << >> /\ quoted' = FALSE
    BY <1>1 DEF SplitEventAttributes, Scan
  <2>2. QED
    BY <2>1
<1>2. ASSUME NEW name \in Names, FindEventAttribute(name) PROVE Written'
  <2>1. step' \in {"idle", "name"} /\ pIn' = 0 /\ out' = << >> /\ quoted' = FALSE
    BY <1>2 DEF FindEventAttribute, Search, Scan
  <2>2. QED
    BY <2>1
<1>3. CASE AppendCurrentEventNameFallback
  <2>1. step' \in {"idle", "name"} /\ pIn' = 0 /\ out' = << >> /\ quoted' = FALSE
    BY <1>3 DEF AppendCurrentEventNameFallback, Search, Scan
  <2>2. QED
    BY <2>1
<1>4. CASE EndOfString
  <2>1. Len(out') = Len(out) /\ pIn' = pIn /\ string' = string
    BY <1>4, Measures DEF TypeOK, EndOfString, unscanned
  <2>2. \/ step = "name"  /\ step' = "nameEnd"
        \/ step = "value" /\ step' = "valueEnd"
    BY <1>4 DEF EndOfString, PartEnd
  <2>3. QED
    BY <1>4, <2>1, <2>2, Measures DEF Scanning, Separated, EndOfString
<1>5. CASE EndChar
  <2>1. Len(out') = Len(out) /\ pIn' = pIn + 1 /\ string' = string
    BY <1>5, Measures DEF TypeOK, EndChar, unscanned
  <2>2. \/ step = "name"  /\ step' = "nameEnd"
        \/ step = "value" /\ step' = "valueEnd"
    BY <1>5 DEF EndChar, PartEnd
  <2>3. QED
    BY <1>5, <2>1, <2>2, Measures DEF Scanning, Separated, EndChar
<1>6. CASE Character
  <2>1. Len(out') = Len(out) + 1 /\ pIn' = pIn + 1 /\ string' = string
    BY <1>6, Measures DEF TypeOK, Character, unscanned
  <2>2. step' = step /\ step \in {"name", "value"}
    BY <1>6 DEF Character
  <2>3. QED
    BY <1>6, <2>1, <2>2, Measures DEF Character
<1>7. CASE OpenQuote
  <2>1. Len(out') = Len(out) /\ pIn' = pIn + 1 /\ string' = string
    BY <1>7, Measures DEF TypeOK, OpenQuote, unscanned
  <2>2. step' = step /\ step \in {"name", "value"}
    BY <1>7 DEF OpenQuote
  <2>3. QED
    BY <1>7, <2>1, <2>2, Measures DEF OpenQuote
<1>8. CASE DoubledQuote
  <2>1. Len(out') = Len(out) + 1 /\ pIn' = pIn + 2 /\ string' = string
    BY <1>8, Measures DEF TypeOK, DoubledQuote, unscanned
  <2>2. step' = step /\ step \in {"name", "value"}
    BY <1>8 DEF DoubledQuote
  <2>3. QED
    BY <1>8, <2>1, <2>2, Measures DEF DoubledQuote
<1>9. CASE CloseQuote
  <2>1. Len(out') = Len(out) /\ pIn' = pIn + 1 /\ string' = string
    BY <1>9, Measures DEF TypeOK, CloseQuote, unscanned
  <2>2. step' = step /\ step \in {"name", "value"}
    BY <1>9 DEF CloseQuote
  <2>3. QED
    BY <1>9, <2>1, <2>2, Measures DEF CloseQuote
<1>10. CASE NameSplit
  BY <1>10, Measures DEF TypeOK, Scanning, Separated, unscanned, NameSplit
<1>11. CASE ValueSplit
  BY <1>11, Measures DEF TypeOK, Scanning, Separated, unscanned, ValueSplit
<1>12. CASE AttributeSplit
  BY <1>12, Measures
     DEF TypeOK, Scanning, Separated, unscanned, AttributeSplit, NextAttribute
<1>13. CASE NameSearched
  BY <1>13, Measures DEF TypeOK, Scanning, Separated, unscanned, NameSearched
<1>14. CASE NotThisOne
  BY <1>14, Measures DEF TypeOK, Scanning, Separated, unscanned, NotThisOne
<1>15. CASE FoundLast
  BY <1>15, Measures DEF TypeOK, Scanning, Separated, unscanned, FoundLast
<1>16. CASE FoundFile
  <2>1. step' \in {"idle", "name"} /\ pIn' = 0 /\ out' = << >> /\ quoted' = FALSE
    BY <1>16 DEF FoundFile, Search, Scan
  <2>2. QED
    BY <2>1
<1>17. CASE NotFound
  BY <1>17, Measures DEF TypeOK, Scanning, Separated, unscanned, NotFound
<1>18. CASE UNCHANGED attributeVars
  BY <1>18 DEF attributeVars
<1>19. QED
  BY <1>1, <1>2, <1>3, <1>4, <1>5, <1>6, <1>7, <1>8, <1>9, <1>10, <1>11, <1>12,
     <1>13, <1>14, <1>15, <1>16, <1>17, <1>18
     DEF Next

\* The invariant holds in every reachable state.
THEOREM Invariant == Spec => []IInv
<1>1. Init => IInv
  <2> SUFFICES ASSUME Init PROVE IInv
    OBVIOUS
  <2>1. string \in Strings /\ string \in Seq(STRING) /\ Len(string) \in Nat
    BY StringsAssumption DEF Init
  <2>2. call \in CallType
    BY DEF Init, NoCall, CallType
  <2>3. pIn \in 0 .. Len(string) /\ out \in Seq(STRING \cup {Nul}) /\ nameStart \in 0 .. Len(out)
    BY <2>1 DEF Init
  <2>4. TypeOK
    BY <2>1, <2>2, <2>3 DEF Init, TypeOK, CallType
  <2>5. Scanning /\ Separated /\ Written
    BY DEF Init, Scanning, Separated, Written, InPart, Searches
  <2>6. QED
    BY <2>4, <2>5 DEF IInv
<1>2. IInv /\ [Next]_attributeVars => IInv'
  BY TypeStep, ScanningStep, SeparatedStep, WrittenStep DEF IInv
<1>3. QED
  BY <1>1, <1>2, PTL DEF Spec

\* Type correctness, for every set of strings: the position stays in the
\* string and the offsets in what was written.
THEOREM TypeCorrect == Spec => []TypeOK
<1>1. IInv => TypeOK
  BY DEF IInv
<1>2. QED
  BY <1>1, Invariant, PTL

\* SkipTo, SkipQuotedRegion and the nuls of SplitEventAttributes stay inside
\* the buffer that SplitEventAttributes and AppendEventAttribute sized from the
\* length of the string, for every string of any length.
THEOREM WritesStayInside == Spec => []WritesFit
<1>1. IInv => WritesFit
  <2> SUFFICES ASSUME IInv, step # "idle" PROVE Len(out) <= Reserved
    BY DEF WritesFit
  <2>1. Len(out) <= pIn + 1 /\ (call.op # "Split" => Len(out) <= pIn)
    <3>1. step \in {"name", "value", "nameEnd", "valueEnd", "attribute"}
      BY DEF IInv, TypeOK
    <3>2. pIn \in Nat /\ Len(out) \in Nat
      BY Measures DEF IInv
    <3>3. QED
      BY <3>1, <3>2 DEF IInv, Written, Scanning, InPart
  <2>2. QED
    BY <2>1, Measures DEF IInv, Reserved
<1>2. QED
  BY <1>1, Invariant, PTL
-----------------------------------------------------------------------------
(***************************************************************************)
(* What the calls return.  The invariant says, for the attribute that is   *)
(* being read, how much of it has been, and which pairs have gone before.  *)
(***************************************************************************)
L == Len(string)
NameOf(a) == NameAt(string, a)
ValOf(a)  == ValueAt(string, a)
Stop(a)   == EndOf(string, a)
Mid(a)    == Middle(string, a)
TextTo(p, i) == TextFrom(string, p)[i]
All       == PairsOf(string)
Rest(a)   == PairsFrom(string)[a]

\* An attribute begins at a.
Begins(a) == a \in 1 .. L /\ ~Inside(string, a)

\* How many pairs are before the attribute at a.
Before(a) == Len(All) - Len(Rest(a))

RestIsLast(a) ==
    /\ Len(Rest(a)) <= Len(All)
    /\ \A k \in 1 .. Len(Rest(a)) : All[Before(a) + k] = Rest(a)[k]

\* The part that begins at p has been read to pIn, before its end.
Reads(p, end) ==
    /\ p - 1 <= pIn /\ pIn < end
    /\ ~AtEnd => (quoted <=> Inside(string, pIn + 1))
    /\ ~AtEnd /\ ~quoted /\ p <= pIn /\ string[pIn] = Quote => string[pIn + 1] # Quote

\* A text was written to an offset.
At(start, t) == start + Len(t) <= Len(out) /\ \A k \in 1 .. Len(t) : out[start + k] = t[k]
EndsWith(start, t) == At(start, t) /\ Len(out) = start + Len(t)
AtNul(start, t) == At(start, t) /\ start + Len(t) < Len(out) /\ out[start + Len(t) + 1] = Nul

\* The whole attribute has been read.
ReadsAll(a) == pIn = Stop(a) \/ (AtEnd /\ Stop(a) = L + 1)

\* What is known of the name once it ended.
NameIsKnown(a) ==
    IF call.op = "Split" THEN AtNul(nameStart, NameOf(a))
                         ELSE matched <=> NameOf(a) = call.name

ValueOffset == IF call.op = "Split" THEN valueStart ELSE 0

\* The value is what follows p - 1.
ValueFrom(a, p) ==
    /\ p \in a + 1 .. L + 1 /\ p <= Stop(a)
    /\ ValOf(a) = TextTo(p, Stop(a) - 1)
    /\ p <= L => ~Inside(string, p)

Reading(a) ==
    /\ step = "name" => Reads(a, Mid(a)) /\ EndsWith(nameStart, TextTo(a, pIn))
    /\ step = "nameEnd" =>
         /\ EndsWith(nameStart, NameOf(a))
         /\ HasValue => ValueFrom(a, pIn + 1)
         /\ ~HasValue => ReadsAll(a) /\ ValOf(a) = << >>
    /\ step = "value" =>
         /\ NameIsKnown(a)
         /\ \E p \in 2 .. L + 1 : /\ ValueFrom(a, p)
                                  /\ Reads(p, Stop(a))
                                  /\ EndsWith(ValueOffset, TextTo(p, pIn))
    /\ step = "valueEnd" =>
         NameIsKnown(a) /\ ReadsAll(a) /\ EndsWith(ValueOffset, ValOf(a))
    /\ step = "attribute" =>
         NameIsKnown(a) /\ ReadsAll(a) /\ AtNul(valueStart, ValOf(a))

\* What has been made of the attributes before.
Listed(n) ==
    /\ call.op = "Split" =>
         /\ call.name = << >>
         /\ count = n
         /\ pairs = SubSeq(All, 1, IF call.room < n THEN call.room ELSE n)
    /\ call.op = "Find" =>
         /\ call.name # << >> /\ output = << >>
         /\ \A k \in 1 .. n : All[k].name # call.name

ListInv ==
    IF step = "idle" THEN ReadsAsListed
    ELSE \E a \in 1 .. L :
           Begins(a) /\ RestIsLast(a) /\ Reading(a) /\ Listed(Before(a))

-----------------------------------------------------------------------------
(* Lemmas about the list of pairs. *)

\* What a string is made of.
Text == Seq(STRING \ {Nul})
PairType == [name: Text, value: Text]

\* A quote changes what is inside quotes, nothing else does.
LEMMA InsideStep ==
  ASSUME NEW s, NEW i \in Nat \ {0}
  PROVE  /\ s[i] = Quote  => (Inside(s, i + 1) <=> ~Inside(s, i))
         /\ s[i] # Quote => (Inside(s, i + 1) <=> Inside(s, i))
<1> DEFINE Q(n) == {j \in 1 .. n - 1 : s[j] = Quote}
<1>1. IsFiniteSet(Q(i)) /\ Cardinality(Q(i)) \in Nat
  <2>1. IsFiniteSet(1 .. i - 1)
    BY FS_Interval
  <2>2. Q(i) \subseteq 1 .. i - 1
    OBVIOUS
  <2> QED BY <2>1, <2>2, FS_Subset, FS_CardinalityType
<1>2. /\ Inside(s, i) <=> Cardinality(Q(i)) % 2 = 1
      /\ Inside(s, i + 1) <=> Cardinality(Q(i + 1)) % 2 = 1
  BY DEF Inside, DoubleQuote, Quote
<1>3. CASE s[i] = Quote
  <2>1. Q(i + 1) = Q(i) \cup {i} /\ i \notin Q(i)
    BY <1>3
  <2>2. Cardinality(Q(i + 1)) = Cardinality(Q(i)) + 1
    BY <1>1, <2>1, FS_AddElement
  <2> QED BY <1>1, <1>2, <1>3, <2>2
<1>4. CASE s[i] # Quote
  <2>1. Q(i + 1) = Q(i)
    BY <1>4
  <2> QED BY <1>2, <1>4, <2>1
<1> QED BY <1>3, <1>4

LEMMA InsideBegins == ASSUME NEW s PROVE ~Inside(s, 1)
<1>1. {j \in 1 .. 1 - 1 : s[j] = DoubleQuote} = {}
  OBVIOUS
<1>2. Cardinality({}) % 2 # 1
  BY FS_EmptySet
<1> QED BY <1>1, <1>2 DEF Inside

\* The first of a set of positions.
LEMMA FirstOf ==
  ASSUME NEW S \in SUBSET Nat, S # {}
  PROVE  First(S) \in S /\ \A i \in S : First(S) <= i
BY LeastElement DEF First

\* The text from a position on: how it goes on, and that it is one.
LEMMA TextIs ==
  ASSUME NEW s \in Text, NEW a \in Nat \ {0}
  PROVE  /\ \A i \in 0 .. Len(s) : TextFrom(s, a)[i] \in Text
         /\ \A i \in 0 .. Len(s) : i < a => TextFrom(s, a)[i] = << >>
         /\ \A i \in 1 .. Len(s) : i >= a =>
              TextFrom(s, a)[i] = IF Kept(s, a, i)
                                       THEN Append(TextFrom(s, a)[i - 1], s[i])
                                       ELSE TextFrom(s, a)[i - 1]
<1> DEFINE D == 0 .. Len(s)
           E(i, g) == IF i < a THEN << >>
                      ELSE IF Kept(s, a, i) THEN Append(g[i - 1], s[i]) ELSE g[i - 1]
           rank == [i \in D |-> i]
           def  == [i \in D |-> [g \in [D -> Text] |-> IF i = 0 THEN << >> ELSE E(i, g)]]
<1>0. Len(s) \in Nat /\ \A i \in 1 .. Len(s) : s[i] \in STRING \ {Nul}
  BY DEF Text
<1>1. rank \in [D -> 0 .. Len(s)] /\ << >> \in Text
  BY <1>0 DEF Text
<1>2. def \in [D -> [[D -> Text] -> Text]]
  <2>1. ASSUME NEW i \in D, NEW g \in [D -> Text]
        PROVE  (IF i = 0 THEN << >> ELSE E(i, g)) \in Text
    <3>1. i # 0 => i - 1 \in D /\ g[i - 1] \in Text /\ s[i] \in STRING \ {Nul}
      BY <1>0
    <3>2. i # 0 => Append(g[i - 1], s[i]) \in Text
      BY <3>1 DEF Text
    <3> QED BY <1>1, <3>1, <3>2
  <2> QED BY <2>1
<1>3. \A k \in D : \A g, h \in [D -> Text] :
        (\A j \in D : rank[j] < rank[k] => g[j] = h[j]) => def[k][g] = def[k][h]
  <2> SUFFICES ASSUME NEW k \in D, NEW g \in [D -> Text], NEW h \in [D -> Text],
                      \A j \in D : rank[j] < rank[k] => g[j] = h[j]
               PROVE  def[k][g] = def[k][h]
    OBVIOUS
  <2>1. k # 0 => k - 1 \in D /\ rank[k - 1] < rank[k]
    BY <1>0
  <2>2. k # 0 => g[k - 1] = h[k - 1]
    BY <2>1
  <2> QED BY <2>2
<1>4. Recursive(D, Text, Len(s), rank, def)
  BY <1>0, <1>1, <1>2, <1>3 DEF Recursive
<1>5. PICK f \in [D -> Text] : \A k \in D : f[k] = def[k][f]
  <2> HIDE DEF rank, def, D
  <2> QED BY <1>4, Recursion
<1>6. CASE a > 0
  <2>1. f = [i \in D |-> E(i, f)]
    BY <1>5, <1>6
  <2> DEFINE t == CHOOSE t : t = [i \in D |-> E(i, t)]
  <2>2. t = [i \in D |-> E(i, t)]
    BY <2>1
  <2>3. TextFrom(s, a) = t
    BY DEF TextFrom
  <2> HIDE DEF t
  <2>4. \A i \in D : t[i] = E(i, t)
    BY <2>2
  <2>5. \A i \in D : t[i] \in Text
    <3> DEFINE S == {i \in Nat : i <= Len(s) => t[i] \in Text}
    <3>1. 0 \in S
      BY <1>1, <1>6, <2>4, <1>0
    <3>2. ASSUME NEW i \in Nat, i \in S PROVE i + 1 \in S
      <4>1. i + 1 <= Len(s) => /\ t[i] \in Text /\ s[i + 1] \in STRING \ {Nul}
                              /\ t[i + 1] = IF i + 1 < a THEN << >>
                                            ELSE IF Kept(s, a, i + 1) THEN Append(t[i], s[i + 1])
                                            ELSE t[i]
        BY <1>0, <2>4, <3>2
      <4>2. i + 1 <= Len(s) => Append(t[i], s[i + 1]) \in Text
        BY <4>1 DEF Text
      <4> QED BY <1>1, <4>1, <4>2
    <3> HIDE DEF S
    <3>3. \A i \in Nat : i \in S
      BY <3>1, <3>2, Induction
    <3> QED BY <1>0, <3>3 DEF S
  <2> QED BY <2>3, <2>4, <2>5, <1>0
<1> QED BY <1>6

\* Where an attribute ends, and where its name does.
LEMMA EndIs ==
  ASSUME NEW s \in Text, NEW a \in 1 .. Len(s)
  PROVE  /\ EndOf(s, a) \in a .. Len(s) + 1
         /\ EndOf(s, a) <= Len(s) => IsSemicolon(s, EndOf(s, a))
         /\ \A i \in a .. EndOf(s, a) - 1 : ~IsSemicolon(s, i)
<1>0. Len(s) \in Nat /\ a \in Nat /\ 1 <= a /\ a <= Len(s)
  BY DEF Text
<1> DEFINE S == Semicolons(s, a)
<1>1. /\ S \in SUBSET Nat
      /\ \A i \in S : i \in Nat /\ a <= i /\ i <= Len(s) /\ IsSemicolon(s, i)
      /\ \A i \in a .. Len(s) : IsSemicolon(s, i) => i \in S
  <2>1. \A i : i \in S <=> i \in a .. Len(s) /\ IsSemicolon(s, i)
    BY DEF Semicolons
  <2> HIDE DEF S
  <2> QED BY <1>0, <2>1
<1>2. EndOf(s, a) = IF S = {} THEN Len(s) + 1 ELSE First(S)
  BY DEF EndOf
<1> HIDE DEF S
<1>3. CASE S = {}
  BY <1>0, <1>1, <1>2, <1>3
<1>4. CASE S # {}
  <2>1. First(S) \in S /\ \A i \in S : First(S) <= i
    BY <1>1, <1>4, FirstOf
  <2> DEFINE e == First(S)
  <2>2. e \in Nat /\ a <= e /\ e <= Len(s) /\ IsSemicolon(s, e) /\ EndOf(s, a) = e
    BY <1>1, <1>2, <1>4, <2>1
  <2>3. \A i \in S : e <= i
    BY <2>1
  <2> HIDE DEF e
  <2>4. \A i \in a .. e - 1 : i \in a .. Len(s) /\ i \notin S
    BY <1>0, <2>2, <2>3
  <2> QED BY <1>0, <1>1, <2>2, <2>4
<1> QED BY <1>3, <1>4

LEMMA MiddleIs ==
  ASSUME NEW s \in Text, NEW a \in 1 .. Len(s)
  PROVE  /\ Middle(s, a) \in a .. EndOf(s, a)
         /\ Middle(s, a) < EndOf(s, a) =>
              /\ IsEqual(s, Middle(s, a))
              /\ ValueAt(s, a) = TextFrom(s, Middle(s, a) + 1)[EndOf(s, a) - 1]
         /\ Middle(s, a) = EndOf(s, a) => ValueAt(s, a) = << >>
         /\ \A i \in a .. Middle(s, a) - 1 : ~IsEqual(s, i)
         /\ NameAt(s, a) \in Text /\ ValueAt(s, a) \in Text
<1> DEFINE S == Equals(s, a)
           e == EndOf(s, a)
<1>0. Len(s) \in Nat /\ a \in Nat /\ 1 <= a /\ a <= Len(s)
  BY DEF Text
<1>4. e \in Nat /\ a <= e /\ e <= Len(s) + 1
  <2>1. e \in a .. Len(s) + 1
    BY EndIs
  <2> QED BY <1>0, <2>1
<1>1. /\ S \in SUBSET Nat
      /\ \A i \in S : i \in Nat /\ a <= i /\ i <= e - 1 /\ IsEqual(s, i)
      /\ \A i \in a .. e - 1 : IsEqual(s, i) => i \in S
  <2>1. \A i : i \in S <=> i \in a .. e - 1 /\ IsEqual(s, i)
    BY DEF Equals
  <2> HIDE DEF S, e
  <2> QED BY <1>0, <1>4, <2>1
<1>2. /\ Middle(s, a) = IF S = {} THEN e ELSE First(S)
      /\ ValueAt(s, a) = IF S = {} THEN << >> ELSE TextFrom(s, Middle(s, a) + 1)[e - 1]
      /\ NameAt(s, a) = TextFrom(s, a)[Middle(s, a) - 1]
  BY DEF Middle, ValueAt, NameAt
<1>3. << >> \in Text
  BY DEF Text
<1> HIDE DEF S, e
<1>5. CASE S = {}
  <2>1. Middle(s, a) - 1 \in 0 .. Len(s) /\ a \in Nat
    BY <1>0, <1>2, <1>4, <1>5
  <2>2. NameAt(s, a) \in Text
    BY <1>2, <2>1, TextIs
  <2> QED BY <1>0, <1>1, <1>2, <1>3, <1>4, <1>5, <2>2 DEF e
<1>6. CASE S # {}
  <2>1. First(S) \in S /\ \A i \in S : First(S) <= i
    BY <1>1, <1>6, FirstOf
  <2> DEFINE f == First(S)
  <2>2. f \in Nat /\ a <= f /\ f <= e - 1 /\ IsEqual(s, f) /\ Middle(s, a) = f
    BY <1>1, <1>2, <1>6, <2>1
  <2>3. \A i \in S : f <= i
    BY <2>1
  <2> HIDE DEF f
  <2>4. \A i \in a .. f - 1 : i \in a .. e - 1 /\ i \notin S
    BY <1>0, <1>4, <2>2, <2>3
  <2>5. \A i \in a .. f - 1 : ~IsEqual(s, i)
    BY <1>1, <2>4
  <2>6. f - 1 \in 0 .. Len(s) /\ e - 1 \in 0 .. Len(s) /\ f + 1 \in Nat
    BY <1>0, <1>4, <2>2
  <2>7. NameAt(s, a) \in Text /\ ValueAt(s, a) \in Text
    BY <1>0, <1>2, <1>6, <2>2, <2>6, TextIs
  <2>8. f \in a .. e /\ f # e
    BY <1>0, <1>4, <2>2
  <2> QED BY <1>2, <1>6, <2>2, <2>5, <2>7, <2>8 DEF e
<1> QED BY <1>5, <1>6

LEMMA ListedIs ==
  ASSUME NEW s \in Text, NEW a \in 1 .. Len(s)
  PROVE  ListedAt(s, a) \in Seq(PairType)
<1>1. AttributeAt(s, a) \in PairType
  BY MiddleIs DEF AttributeAt, PairType
<1> QED BY <1>1 DEF ListedAt

\* The pairs from a position on: how they go on, and that they are pairs.
LEMMA PairsAre ==
  ASSUME NEW s \in Text
  PROVE  /\ \A a \in 1 .. Len(s) + 2 : PairsFrom(s)[a] \in Seq(PairType)
         /\ \A a \in 1 .. Len(s) + 2 : a > Len(s) => PairsFrom(s)[a] = << >>
         /\ \A a \in 1 .. Len(s) :
              PairsFrom(s)[a] = ListedAt(s, a) \o PairsFrom(s)[EndOf(s, a) + 1]
<1> DEFINE D == 1 .. Len(s) + 2
           V == Seq(PairType)
           m == Len(s) + 2
           E(a, g) == IF a > Len(s) THEN << >> ELSE ListedAt(s, a) \o g[EndOf(s, a) + 1]
           rank == [a \in D |-> m - a]
           def  == [a \in D |-> [g \in [D -> V] |-> E(a, g)]]
<1>0. /\ Len(s) \in Nat
      /\ \A a \in 1 .. Len(s) : EndOf(s, a) + 1 \in D /\ a < EndOf(s, a) + 1
      /\ \A a \in D : a \in Nat /\ (a <= Len(s) => a \in 1 .. Len(s))
  <2>1. Len(s) \in Nat
    BY DEF Text
  <2>2. ASSUME NEW a \in 1 .. Len(s) PROVE EndOf(s, a) + 1 \in D /\ a < EndOf(s, a) + 1
    <3>1. EndOf(s, a) \in a .. Len(s) + 1 /\ a \in Nat /\ 1 <= a
      BY <2>1, EndIs
    <3> QED BY <2>1, <3>1
  <2>3. \A a \in D : a \in Nat /\ (a <= Len(s) => a \in 1 .. Len(s))
    BY <2>1
  <2> QED BY <2>1, <2>2, <2>3
<1>1. rank \in [D -> 0 .. m] /\ m \in Nat /\ V # {}
  <2>1. m \in Nat /\ \A a \in D : m - a \in 0 .. m
    BY <1>0
  <2>2. << >> \in V
    OBVIOUS
  <2> HIDE DEF D, m, V
  <2> QED BY <2>1, <2>2
<1>2. ASSUME NEW a \in D, NEW g \in [D -> V] PROVE E(a, g) \in V
  <2>1. CASE a > Len(s)
    BY <2>1
  <2>2. CASE a <= Len(s)
    <3>1. a \in 1 .. Len(s) /\ g[EndOf(s, a) + 1] \in V
      BY <1>0, <2>2
    <3>2. ListedAt(s, a) \in V
      BY <3>1, ListedIs
    <3> QED BY <1>0, <2>2, <3>1, <3>2, ConcatProperties
  <2> QED BY <1>0, <2>1, <2>2
<1>3. def \in [D -> [[D -> V] -> V]]
  BY <1>2
<1>4. \A k \in D : \A g, h \in [D -> V] :
        (\A j \in D : rank[j] < rank[k] => g[j] = h[j]) => def[k][g] = def[k][h]
  <2> SUFFICES ASSUME NEW k \in D, NEW g \in [D -> V], NEW h \in [D -> V],
                      \A j \in D : rank[j] < rank[k] => g[j] = h[j]
               PROVE  def[k][g] = def[k][h]
    OBVIOUS
  <2>1. k <= Len(s) => EndOf(s, k) + 1 \in D /\ rank[EndOf(s, k) + 1] < rank[k]
    BY <1>0
  <2>2. k <= Len(s) => g[EndOf(s, k) + 1] = h[EndOf(s, k) + 1]
    BY <2>1
  <2> QED BY <1>0, <2>2
<1>5. Recursive(D, V, m, rank, def)
  BY <1>1, <1>3, <1>4 DEF Recursive
<1>6. PICK f \in [D -> V] : \A k \in D : f[k] = def[k][f]
  <2> HIDE DEF rank, def, D, m, V
  <2> QED BY <1>5, Recursion
<1>7. f = [a \in D |-> E(a, f)]
  BY <1>6
<1> DEFINE t == CHOOSE t : t = [a \in D |-> E(a, t)]
<1>8. t = [a \in D |-> E(a, t)]
  BY <1>7
<1>9. PairsFrom(s) = t
  BY DEF PairsFrom
<1> HIDE DEF t
<1>10. \A a \in D : t[a] = E(a, t)
  BY <1>8
<1>11. \A a \in D : t[a] \in V
  <2> DEFINE S == {n \in Nat : \A a \in D : m - a <= n => t[a] \in V}
  <2>1. 0 \in S
    <3>1. \A a \in D : m - a <= 0 => a > Len(s)
      BY <1>0
    <3>2. << >> \in V
      OBVIOUS
    <3>3. \A a \in D : a > Len(s) => t[a] = << >>
      BY <1>10
    <3> QED BY <3>1, <3>2, <3>3
  <2>2. ASSUME NEW n \in Nat, n \in S PROVE n + 1 \in S
    <3>1. ASSUME NEW a \in D, m - a <= n + 1 PROVE t[a] \in V
      <4>1. CASE a > Len(s)
        <5>1. t[a] = << >>
          BY <1>10, <4>1
        <5> QED BY <5>1
      <4>2. CASE a <= Len(s)
        <5>1. a \in 1 .. Len(s) /\ EndOf(s, a) + 1 \in D /\ m - (EndOf(s, a) + 1) <= n
          BY <1>0, <3>1, <4>2
        <5>2. t[EndOf(s, a) + 1] \in V /\ ListedAt(s, a) \in V
          BY <2>2, <5>1, ListedIs
        <5>3. t[a] = ListedAt(s, a) \o t[EndOf(s, a) + 1]
          <6>1. t[a] = E(a, t) /\ ~(a > Len(s))
            BY <1>0, <1>10, <4>2
          <6> QED BY <6>1
        <5> QED BY <5>2, <5>3, ConcatProperties
      <4> QED BY <1>0, <4>1, <4>2
    <3> QED BY <3>1
  <2> HIDE DEF S
  <2>3. \A n \in Nat : n \in S
    BY <2>1, <2>2, Induction
  <2>4. \A a \in D : m - a <= m
    BY <1>0
  <2> QED BY <1>1, <2>3, <2>4 DEF S
<1>12. \A a \in 1 .. Len(s) : a \in D /\ ~(a > Len(s))
  BY <1>0
<1> QED BY <1>9, <1>10, <1>11, <1>12

-----------------------------------------------------------------------------
(* Reading a part. *)

LEMMA StringIsText ==
  ASSUME TypeOK
  PROVE  /\ string \in Text /\ L \in Nat /\ L = Len(string)
         /\ out \in Seq(STRING \cup {Nul}) /\ Len(out) \in Nat
         /\ nameStart \in Nat /\ valueStart \in Nat
         /\ pIn \in Nat /\ pIn <= L /\ (~AtEnd => pIn + 1 \in 1 .. L)
         /\ (AtEnd <=> pIn = L)
<1>1. string \in Seq(STRING) /\ \A i \in 1 .. Len(string) : string[i] # Nul
  BY StringsAssumption DEF TypeOK
<1>2. Len(string) \in Nat /\ \A i \in 1 .. Len(string) : string[i] \in STRING \ {Nul}
  BY <1>1
<1>3. string \in Seq(STRING \ {Nul})
  BY <1>1, <1>2, SeqDef
<1>4. out \in Seq(STRING \cup {Nul}) /\ Len(out) \in Nat
  BY Measures DEF TypeOK
<1>5. nameStart \in Nat /\ valueStart \in Nat
  BY <1>4 DEF TypeOK
<1> QED BY <1>2, <1>3, <1>4, <1>5, Measures DEF Text, L, AtEnd

\* A character is written after a text.
LEMMA Appended ==
  ASSUME NEW X, NEW T, NEW o \in Seq(X), NEW t \in Seq(T), NEW c, c \in X, c \in T,
         NEW start \in Nat, Len(o) = start + Len(t),
         \A k \in 1 .. Len(t) : o[start + k] = t[k]
  PROVE  /\ Len(Append(o, c)) = start + Len(Append(t, c))
         /\ \A k \in 1 .. Len(Append(t, c)) : Append(o, c)[start + k] = Append(t, c)[k]
<1>1. Len(t) \in Nat /\ Len(Append(o, c)) = Len(o) + 1 /\ Len(Append(t, c)) = Len(t) + 1
  OBVIOUS
<1>2. ASSUME NEW k \in 1 .. Len(t) + 1 PROVE Append(o, c)[start + k] = Append(t, c)[k]
  <2>1. CASE k <= Len(t)
    <3>1. k \in 1 .. Len(t) /\ start + k \in 1 .. Len(o)
      BY <1>1, <2>1
    <3>2. Append(o, c)[start + k] = o[start + k] /\ Append(t, c)[k] = t[k]
      BY <3>1
    <3> QED BY <3>1, <3>2
  <2>2. CASE k = Len(t) + 1
    <3>1. start + k = Len(o) + 1
      BY <1>1, <2>2
    <3> QED BY <1>1, <2>2, <3>1
  <2> QED BY <1>1, <2>1, <2>2
<1> QED BY <1>1, <1>2

LEMMA AppendAt ==
  ASSUME NEW c \in STRING \ {Nul}, NEW t \in Seq(STRING \ {Nul}), NEW start \in Nat,
         out \in Seq(STRING \cup {Nul}), EndsWith(start, t), out' = Append(out, c)
  PROVE  /\ Len(out') = start + Len(Append(t, c))
         /\ \A k \in 1 .. Len(Append(t, c)) : out'[start + k] = Append(t, c)[k]
<1>1. /\ Len(out) = start + Len(t)
      /\ \A k \in 1 .. Len(t) : out[start + k] = t[k]
      /\ c \in STRING \cup {Nul}
  BY DEF EndsWith, At
<1> QED BY <1>1, Appended

LEMMA ReadingStep ==
  ASSUME TypeOK, InPart, ~AtEnd, NEW p \in 1 .. L + 1, NEW end \in Nat, end <= L + 1,
         Reads(p, end), end <= L => IsEndChar(string[end]) /\ ~Inside(string, end),
         NEW start \in Nat, EndsWith(start, TextTo(p, pIn)),
         Character \/ OpenQuote \/ DoubledQuote \/ CloseQuote
  PROVE  Reads(p, end)' /\ EndsWith(start, TextTo(p, pIn))'
<1> DEFINE n == pIn + 1
           text(i) == TextFrom(string, p)[i]
<1>1. /\ string \in Text /\ L \in Nat /\ L = Len(string) /\ pIn \in Nat /\ p \in Nat
      /\ p # 0 /\ n \in 1 .. L /\ n \in Nat \ {0} /\ p <= n /\ n <= end /\ n - 1 = pIn
      /\ out \in Seq(STRING \cup {Nul}) /\ Ch = string[n] /\ Ch \in STRING \ {Nul}
  <2>1. string \in Text /\ L \in Nat /\ L = Len(string) /\ pIn \in Nat /\ n \in 1 .. L
        /\ out \in Seq(STRING \cup {Nul})
    BY StringIsText
  <2>2. p <= n /\ n <= end /\ p \in Nat /\ p # 0
    BY <2>1 DEF Reads
  <2>3. Ch = string[n] /\ Ch \in STRING \ {Nul}
    BY <2>1 DEF Ch, Text
  <2> QED BY <2>1, <2>2, <2>3
<1>2. /\ quoted <=> Inside(string, n)
      /\ ~quoted /\ p < n /\ string[n - 1] = Quote => string[n] # Quote
  BY <1>1 DEF Reads
<1>3. /\ string' = string /\ step' = step /\ L' = L
  BY DEF Character, OpenQuote, DoubledQuote, CloseQuote, unscanned, L
<1>4. /\ text(n) = IF Kept(string, p, n) THEN Append(text(pIn), Ch) ELSE text(pIn)
      /\ text(pIn) \in Text
  <2>1. pIn \in 0 .. Len(string) /\ n \in 1 .. Len(string) /\ n >= p /\ n - 1 = pIn
    BY <1>1
  <2>2. string \in Text /\ p \in Nat \ {0}
    BY <1>1
  <2>3. /\ \A i \in 0 .. Len(string) : TextFrom(string, p)[i] \in Text
        /\ \A i \in 1 .. Len(string) : i >= p =>
             TextFrom(string, p)[i] = IF Kept(string, p, i)
                                      THEN Append(TextFrom(string, p)[i - 1], string[i])
                                      ELSE TextFrom(string, p)[i - 1]
    BY <2>2, TextIs
  <2>4. TextFrom(string, p)[n] = IF Kept(string, p, n)
                                 THEN Append(TextFrom(string, p)[n - 1], string[n])
                                 ELSE TextFrom(string, p)[n - 1]
    BY <2>1, <2>3
  <2>5. TextFrom(string, p)[pIn] \in Text
    BY <2>1, <2>3
  <2> QED BY <1>1, <2>1, <2>4, <2>5
<1>5. Kept(string, p, n) <=>
        Ch # Quote \/ (~Inside(string, n) /\ n > p /\ string[n - 1] = Quote)
  BY <1>1 DEF Kept, DoubleQuote, Quote
<1>6. Ch = Quote => ~IsEndChar(Ch)
  BY DEF IsEndChar, Quote
<1>7. n # end
  <2>1. CASE Character
    BY <1>1, <1>2, <2>1 DEF Character
  <2>2. CASE OpenQuote \/ DoubledQuote \/ CloseQuote
    BY <1>1, <1>6, <2>2 DEF OpenQuote, DoubledQuote, CloseQuote
  <2> QED BY <2>1, <2>2
<1>8. n < end
  BY <1>1, <1>7
<1>9. /\ Ch = Quote  => (Inside(string, n + 1) <=> ~Inside(string, n))
      /\ Ch # Quote => (Inside(string, n + 1) <=> Inside(string, n))
  BY <1>1, InsideStep
<1> DEFINE t == text(pIn)
<1>14. /\ t \in Seq(STRING \ {Nul}) /\ EndsWith(start, t)
       /\ Ch \in STRING \cup {Nul} /\ Ch \in STRING \ {Nul}
  BY <1>1, <1>4 DEF Text, TextTo
<1>15. ASSUME NEW i \in 0 .. L, pIn' = i, Len(out') = start + Len(text(i)),
              \A k \in 1 .. Len(text(i)) : out'[start + k] = text(i)[k]
       PROVE  EndsWith(start, TextTo(p, pIn))'
  <2>1. text(i) \in Text
    BY <1>1, <1>15, TextIs
  <2>2. Len(text(i)) \in Nat
    BY <2>1 DEF Text
  <2>3. TextTo(p, pIn)' = text(i)
    BY <1>3, <1>15 DEF TextTo
  <2> HIDE DEF text
  <2> QED BY <1>15, <2>2, <2>3 DEF EndsWith, At
<1>16. \A i \in 1 .. L : i \in 0 .. L
  BY <1>1
<1>17. pIn \in 0 .. L
  BY <1>1
<1> HIDE DEF t
<1>10. CASE Character
  <2>1. out' = Append(out, Ch) /\ pIn' = n /\ quoted' = quoted /\ Ch # Quote
    BY <1>10 DEF Character, unscanned
  <2>2. text(n) = Append(text(pIn), Ch)
    BY <1>4, <1>5, <2>1
  <2>3. Reads(p, end)'
    BY <1>1, <1>2, <1>3, <1>8, <1>9, <2>1 DEF Reads, AtEnd
  <2>4. /\ Len(out') = start + Len(Append(t, Ch))
        /\ \A k \in 1 .. Len(Append(t, Ch)) : out'[start + k] = Append(t, Ch)[k]
    <3>1. Ch \in STRING \ {Nul} /\ t \in Seq(STRING \ {Nul}) /\ EndsWith(start, t)
          /\ out \in Seq(STRING \cup {Nul}) /\ out' = Append(out, Ch)
      BY <1>1, <1>14, <2>1
    <3> HIDE DEF text, n
    <3> QED BY <3>1, AppendAt
  <2>5. text(n) = Append(t, Ch)
    BY <2>2 DEF t
  <2> HIDE DEF text
  <2> QED BY <1>1, <1>15, <1>16, <2>1, <2>3, <2>4, <2>5
<1>11. CASE OpenQuote
  <2>1. out' = out /\ pIn' = n /\ quoted' = TRUE /\ Ch = Quote /\ ~quoted
    BY <1>11 DEF OpenQuote, unscanned
  <2>2. text(n) = text(pIn)
    BY <1>1, <1>2, <1>4, <1>5, <2>1
  <2>3. Reads(p, end)'
    BY <1>1, <1>2, <1>3, <1>8, <1>9, <2>1 DEF Reads, AtEnd
  <2>5. /\ Len(out') = start + Len(text(n))
        /\ \A k \in 1 .. Len(text(n)) : out'[start + k] = text(n)[k]
    BY <1>14, <2>1, <2>2 DEF EndsWith, At, t
  <2> HIDE DEF text
  <2> QED BY <1>1, <1>15, <1>16, <2>1, <2>3, <2>5
<1>12. CASE CloseQuote
  <2>1. out' = out /\ pIn' = n /\ quoted' = FALSE /\ Ch = Quote /\ quoted /\ ~IsDoubled
    BY <1>12 DEF CloseQuote, unscanned
  <2>2. text(n) = text(pIn)
    BY <1>1, <1>2, <1>4, <1>5, <2>1
  <2>3. n + 1 <= L => string[n + 1] # Quote
    <3>1. n + 1 = pIn + 2
      BY <1>1
    <3> QED BY <1>1, <2>1, <3>1 DEF IsDoubled
  <2>4. Reads(p, end)'
    <3>1. ~Inside(string, n + 1)
      BY <1>2, <1>9, <2>1
    <3>2. p - 1 <= n /\ n < end
      BY <1>1, <1>8
    <3>3. ~AtEnd' => n + 1 <= L
      BY <1>1, <1>3, <2>1 DEF AtEnd
    <3> QED BY <1>3, <2>1, <2>3, <3>1, <3>2, <3>3 DEF Reads
  <2>5. /\ Len(out') = start + Len(text(n))
        /\ \A k \in 1 .. Len(text(n)) : out'[start + k] = text(n)[k]
    BY <1>14, <2>1, <2>2 DEF EndsWith, At, t
  <2> HIDE DEF text
  <2> QED BY <1>1, <1>15, <1>16, <2>1, <2>4, <2>5
<1>13. CASE DoubledQuote
  <2> DEFINE m == n + 1
  <2>1. /\ out' = Append(out, Quote) /\ pIn' = m /\ quoted' = TRUE /\ Ch = Quote /\ quoted
        /\ m <= L /\ string[m] = Quote /\ m \in Nat \ {0} /\ m \in 1 .. L /\ m - 1 = n
    <3>1. pIn + 2 = m
      BY <1>1
    <3>2. m <= L /\ string[m] = Quote
      BY <1>1, <1>13, <3>1 DEF DoubledQuote, IsDoubled
    <3> QED BY <1>1, <1>13, <3>1, <3>2 DEF DoubledQuote, unscanned
  <2>2. text(n) = text(pIn)
    BY <1>1, <1>2, <1>4, <1>5, <2>1
  <2>3. ~Inside(string, m)
    BY <1>2, <1>9, <2>1
  <2>4. Kept(string, p, m)
    <3>1. string[m - 1] = Quote
      BY <1>1, <2>1
    <3>2. m > p
      BY <1>1
    <3> QED BY <2>3, <3>1, <3>2 DEF Kept, DoubleQuote, Quote
  <2>5. text(m) = Append(t, Quote)
    <3>1. m \in 1 .. Len(string) /\ m >= p /\ string[m] = Quote
      BY <1>1, <2>1
    <3>2. text(m) = Append(text(m - 1), string[m])
      BY <1>1, <2>4, <3>1, TextIs
    <3>3. m - 1 = n
      BY <2>1
    <3> HIDE DEF text, m
    <3> QED BY <2>2, <3>1, <3>2, <3>3 DEF t
  <2>6. m # end
    BY <1>1, <2>1 DEF IsEndChar, Quote
  <2>7. Inside(string, m + 1)
    BY <2>1, <2>3, InsideStep
  <2>8. Reads(p, end)'
    BY <1>1, <1>3, <1>8, <2>1, <2>6, <2>7 DEF Reads, AtEnd
  <2>9. /\ Len(out') = start + Len(Append(t, Quote))
        /\ \A k \in 1 .. Len(Append(t, Quote)) : out'[start + k] = Append(t, Quote)[k]
    <3>1. Quote \in STRING \ {Nul} /\ t \in Seq(STRING \ {Nul}) /\ EndsWith(start, t)
          /\ out \in Seq(STRING \cup {Nul}) /\ out' = Append(out, Quote)
      BY <1>1, <1>14, <2>1
    <3> HIDE DEF text, n, m
    <3> QED BY <3>1, AppendAt
  <2> HIDE DEF text
  <2> QED BY <1>1, <1>15, <1>16, <2>1, <2>5, <2>8, <2>9
<1> QED BY <1>10, <1>11, <1>12, <1>13

-----------------------------------------------------------------------------
(* The attribute at a, and the one after it. *)

LEMMA AttributeIs ==
  ASSUME TypeOK, NEW a \in 1 .. L
  PROVE  /\ Mid(a) \in Nat /\ Stop(a) \in Nat
         /\ a <= Mid(a) /\ Mid(a) <= Stop(a) /\ Stop(a) <= L + 1
         /\ Stop(a) <= L => IsSemicolon(string, Stop(a))
         /\ \A i \in Nat : a <= i /\ i < Stop(a) => ~IsSemicolon(string, i)
         /\ \A i \in Nat : a <= i /\ i < Mid(a) => ~IsEqual(string, i)
         /\ Mid(a) < Stop(a) => /\ IsEqual(string, Mid(a))
                                /\ ValOf(a) = TextTo(Mid(a) + 1, Stop(a) - 1)
         /\ Mid(a) = Stop(a) => ValOf(a) = << >>
         /\ NameOf(a) = TextTo(a, Mid(a) - 1)
         /\ NameOf(a) \in Text /\ ValOf(a) \in Text
<1>1. string \in Text /\ L \in Nat /\ L = Len(string) /\ a \in Nat /\ a \in 1 .. Len(string)
  BY StringIsText
<1>2. /\ Stop(a) \in a .. L + 1
      /\ Stop(a) <= L => IsSemicolon(string, Stop(a))
      /\ \A i \in a .. Stop(a) - 1 : ~IsSemicolon(string, i)
  BY <1>1, EndIs DEF Stop
<1>3. /\ Mid(a) \in a .. Stop(a)
      /\ Mid(a) < Stop(a) => /\ IsEqual(string, Mid(a))
                             /\ ValOf(a) = TextTo(Mid(a) + 1, Stop(a) - 1)
      /\ Mid(a) = Stop(a) => ValOf(a) = << >>
      /\ \A i \in a .. Mid(a) - 1 : ~IsEqual(string, i)
      /\ NameOf(a) \in Text /\ ValOf(a) \in Text
  BY <1>1, MiddleIs DEF Mid, Stop, ValOf, NameOf, TextTo
<1>4. NameOf(a) = TextTo(a, Mid(a) - 1)
  BY DEF NameOf, NameAt, TextTo, Mid
<1>5. /\ Stop(a) \in Nat /\ Mid(a) \in Nat
      /\ a <= Mid(a) /\ Mid(a) <= Stop(a) /\ Stop(a) <= L + 1
  BY <1>1, <1>2, <1>3
<1>6. /\ \A i \in Nat : a <= i /\ i < Stop(a) => i \in a .. Stop(a) - 1
      /\ \A i \in Nat : a <= i /\ i < Mid(a) => i \in a .. Mid(a) - 1
  BY <1>1, <1>5
<1> QED BY <1>2, <1>3, <1>4, <1>5, <1>6

\* Where a part has not begun, its text is empty.
LEMMA NoText ==
  ASSUME TypeOK, NEW p \in 1 .. L + 1
  PROVE  TextTo(p, p - 1) = << >>
<1>1. string \in Text /\ L \in Nat /\ L = Len(string) /\ p \in Nat
      /\ p - 1 \in 0 .. Len(string) /\ p - 1 < p
  BY StringIsText
<1> QED BY <1>1, TextIs DEF TextTo

\* The list from an attribute on is what it lists and the list from the next on.
LEMMA NextIs ==
  ASSUME TypeOK, NEW a, Begins(a), RestIsLast(a)
  PROVE  LET b == Stop(a) + 1 IN
         /\ b \in Nat /\ a < b /\ b <= L + 2
         /\ RestIsLast(b)
         /\ Before(a) \in Nat /\ Before(b) \in Nat
         /\ b <= L => Begins(b)
         /\ b > L => Before(b) = Len(All)
         /\ All \in Seq(PairType) /\ Len(All) \in Nat /\ Before(b) <= Len(All)
         /\ \/ /\ NameOf(a) = << >> /\ ValOf(a) = << >>
               /\ Before(b) = Before(a)
            \/ /\ NameOf(a) # << >> \/ ValOf(a) # << >>
               /\ Before(b) = Before(a) + 1
               /\ All[Before(b)] = AttributeAt(string, a)
<1> DEFINE b == Stop(a) + 1
           it == ListedAt(string, a)
<1>1. string \in Text /\ L \in Nat /\ L = Len(string) /\ a \in 1 .. L /\ a \in Nat /\ 1 <= a
  BY StringIsText DEF Begins
<1>2. /\ Stop(a) \in Nat /\ a <= Stop(a) /\ Stop(a) <= L + 1
      /\ Stop(a) <= L => IsSemicolon(string, Stop(a))
  BY <1>1, AttributeIs
<1>3. b \in Nat /\ a < b /\ b <= L + 2 /\ b \in 1 .. L + 2 /\ a \in 1 .. L + 2 /\ 1 \in 1 .. L + 2
  BY <1>1, <1>2
<1>4. /\ Rest(a) \in Seq(PairType) /\ Rest(b) \in Seq(PairType) /\ All \in Seq(PairType)
      /\ b > L => Rest(b) = << >>
      /\ Rest(a) = it \o Rest(b)
      /\ it \in Seq(PairType)
  BY <1>1, <1>3, PairsAre, ListedIs DEF Rest, All, PairsOf, Stop
<1>5. /\ Len(it) \in Nat /\ Len(Rest(b)) \in Nat /\ Len(Rest(a)) \in Nat /\ Len(All) \in Nat
      /\ Len(Rest(a)) = Len(it) + Len(Rest(b))
      /\ \A k \in 1 .. Len(it) : Rest(a)[k] = it[k]
      /\ \A k \in 1 .. Len(Rest(b)) : Rest(a)[Len(it) + k] = Rest(b)[k]
  <2>1. /\ Len(it) \in Nat /\ Len(Rest(b)) \in Nat /\ Len(Rest(a)) \in Nat /\ Len(All) \in Nat
        /\ Len(it \o Rest(b)) = Len(it) + Len(Rest(b))
        /\ \A k \in 1 .. Len(it) : (it \o Rest(b))[k] = it[k]
        /\ \A k \in Len(it) + 1 .. Len(it) + Len(Rest(b)) :
             (it \o Rest(b))[k] = Rest(b)[k - Len(it)]
    <3> HIDE DEF it, b
    <3> QED BY <1>4
  <2> HIDE DEF it, b
  <2>2. ASSUME NEW k \in 1 .. Len(Rest(b)) PROVE Rest(a)[Len(it) + k] = Rest(b)[k]
    <3>1. Len(it) + k \in Len(it) + 1 .. Len(it) + Len(Rest(b)) /\ (Len(it) + k) - Len(it) = k
      BY <2>1
    <3> QED BY <1>4, <2>1, <3>1
  <2> QED BY <1>4, <2>1, <2>2
<1>6. \/ NameOf(a) = << >> /\ ValOf(a) = << >> /\ it = << >> /\ Len(it) = 0
      \/ /\ NameOf(a) # << >> \/ ValOf(a) # << >>
         /\ it = <<AttributeAt(string, a)>> /\ Len(it) = 1 /\ it[1] = AttributeAt(string, a)
  BY DEF ListedAt, NameOf, ValOf
<1> HIDE DEF it
<1>7. Before(a) = Len(All) - Len(Rest(a)) /\ Before(b) = Len(All) - Len(Rest(b))
  BY DEF Before
<1>8. /\ Len(Rest(a)) <= Len(All)
      /\ \A k \in 1 .. Len(Rest(a)) : All[Before(a) + k] = Rest(a)[k]
  BY DEF RestIsLast
<1> HIDE DEF b
<1>9. RestIsLast(b)
  <2>1. Len(Rest(b)) <= Len(All)
    BY <1>5, <1>8
  <2>2. ASSUME NEW k \in 1 .. Len(Rest(b)) PROVE All[Before(b) + k] = Rest(b)[k]
    <3>1. Len(it) + k \in 1 .. Len(Rest(a))
      BY <1>5
    <3>2. Before(b) + k = Before(a) + (Len(it) + k)
      BY <1>5, <1>7
    <3> QED BY <1>5, <1>8, <3>1, <3>2
  <2> QED BY <2>1, <2>2 DEF RestIsLast
<1>10. /\ Before(a) \in Nat /\ Before(b) \in Nat /\ Before(b) = Before(a) + Len(it)
       /\ Before(b) <= Len(All)
  BY <1>5, <1>7, <1>8
<1>11. b > L => Before(b) = Len(All)
  <2>1. b > L => Len(Rest(b)) = 0
    BY <1>4
  <2> QED BY <1>5, <1>7, <2>1
<1>12. b <= L => Begins(b)
  <2> SUFFICES ASSUME b <= L PROVE Begins(b)
    OBVIOUS
  <2>1. IsSemicolon(string, Stop(a)) /\ Stop(a) \in Nat \ {0} /\ b = Stop(a) + 1
    BY <1>1, <1>2 DEF b
  <2>2. ~Inside(string, Stop(a)) /\ string[Stop(a)] # Quote
    BY <2>1 DEF IsSemicolon, Quote
  <2>3. ~Inside(string, b)
    BY <2>1, <2>2, InsideStep
  <2> QED BY <1>1, <1>3, <2>3 DEF Begins
<1>13. Len(it) = 1 => All[Before(b)] = it[1]
  <2>1. Len(it) = 1 => 1 \in 1 .. Len(Rest(a)) /\ 1 \in 1 .. Len(it) /\ Before(b) = Before(a) + 1
    BY <1>5, <1>10
  <2> QED BY <1>5, <1>8, <2>1
<1> QED BY <1>3, <1>4, <1>5, <1>6, <1>9, <1>10, <1>11, <1>12, <1>13, SMTT(30) DEF b

\* What stays true when the string and the pairs do.
LEMMA StillListed ==
  ASSUME string' = string, call' = call, count' = count, pairs' = pairs, output' = output,
         step # "idle", step' # "idle", NEW a, Begins(a), RestIsLast(a), Listed(Before(a)),
         Reading(a)'
  PROVE  ListInv'
<1>1. L' = L /\ All' = All /\ Rest(a)' = Rest(a) /\ Before(a)' = Before(a)
  BY DEF L, All, Rest, Before
<1>2. Begins(a)' /\ a \in 1 .. L'
  BY <1>1 DEF Begins
<1>3. RestIsLast(a)'
  BY <1>1 DEF RestIsLast
<1>4. Listed(Before(a))'
  BY <1>1 DEF Listed
<1> QED BY <1>2, <1>3, <1>4 DEF ListInv

\* The part at p has not been read yet.
LEMMA PartBegins ==
  ASSUME TypeOK, TypeOK', string' = string, NEW p \in 1 .. L + 1, pIn' = p - 1,
         quoted' = FALSE, p <= L => ~Inside(string, p), NEW end \in Nat, p <= end,
         NEW start \in Nat, Len(out') = start
  PROVE  Reads(p, end)' /\ EndsWith(start, TextTo(p, pIn))'
<1>1. L \in Nat /\ L = Len(string) /\ L' = L /\ p \in Nat /\ pIn' + 1 = p /\ (AtEnd' <=> pIn' = L)
  BY StringIsText DEF AtEnd, L
<1>2. Reads(p, end)'
  <2>1. p - 1 <= pIn' /\ pIn' < end /\ ~(p <= pIn')
    BY <1>1
  <2>2. ~AtEnd' => p <= L
    BY <1>1
  <2> QED BY <1>1, <2>1, <2>2 DEF Reads
<1>3. TextTo(p, pIn)' = << >>
  BY NoText DEF TextTo
<1>4. \A k \in 1 .. Len(<< >>) : FALSE
  OBVIOUS
<1>5. start = start + Len(<< >>)
  OBVIOUS
<1> QED BY <1>2, <1>3, <1>4, <1>5 DEF EndsWith, At

-----------------------------------------------------------------------------
(* Each action keeps the invariant. *)

\* A scan starts at the first attribute.
LEMMA ScanStarts ==
  ASSUME TypeOK, TypeOK', Scan("name", "SUCCESS"), string # << >>, Listed(0)'
  PROVE  ListInv'
<1>1. /\ string' = string /\ step' = "name" /\ pIn' = 0 /\ quoted' = FALSE /\ out' = << >>
      /\ nameStart' = 0
  BY DEF Scan
<1>2. L \in Nat /\ 1 \in 1 .. L /\ string \in Seq(STRING) /\ L' = L
  BY <1>1, Measures DEF L
<1>3. Begins(1)' /\ Mid(1) \in Nat /\ 1 <= Mid(1) /\ Mid(1)' = Mid(1)
  BY <1>1, <1>2, InsideBegins, AttributeIs DEF Begins, Mid
<1>4. Before(1)' = 0 /\ RestIsLast(1)'
  <2>1. All' = All /\ Rest(1)' = Rest(1) /\ Rest(1) = All
    BY <1>1 DEF All, Rest, PairsOf
  <2>2. All \in Seq(PairType)
    BY <1>2, StringIsText, PairsAre DEF All, PairsOf, L
  <2>3. Len(All) \in Nat
    BY <2>2
  <2>4. Before(1)' = 0
    BY <2>1, <2>3 DEF Before
  <2>5. \A k \in 1 .. Len(All) : 0 + k = k
    BY <2>3
  <2> QED BY <2>1, <2>3, <2>4, <2>5 DEF RestIsLast
<1>5. Reads(1, Mid(1))' /\ EndsWith(0, TextTo(1, pIn))'
  <2>1. pIn' = 1 - 1 /\ Len(out') = 0 /\ 1 \in 1 .. L + 1 /\ ~Inside(string, 1)
    BY <1>1, <1>2, InsideBegins
  <2>2. \A e \in Nat : 1 <= e => Reads(1, e)' /\ EndsWith(0, TextTo(1, pIn))'
    BY <1>1, <2>1, PartBegins
  <2> QED BY <1>3, <2>2 DEF Reads
<1>6. Reading(1)'
  BY <1>1, <1>5 DEF Reading
<1> QED BY <1>1, <1>2, <1>3, <1>4, <1>6 DEF ListInv

\* A call that does not scan is over.
LEMMA NoScan ==
  ASSUME TypeOK, NEW status, Scan("idle", status), Begin(call'),
         status = "OUTOFMEMORY"
         \/ /\ string = << >>
            /\ call'.op = "Split" => status = "SUCCESS" /\ call'.room \in Nat
            /\ call'.op = "Find" => status = "NOT_FOUND"
  PROVE  ListInv'
<1>1. /\ string' = string /\ step' = "idle" /\ lastError' = status /\ count' = 0
      /\ pairs' = << >>
  BY DEF Scan, Begin
<1>2. CASE status = "OUTOFMEMORY"
  BY <1>1, <1>2 DEF ListInv, ReadsAsListed, Returned
<1>3. CASE status # "OUTOFMEMORY"
  <2>1. /\ string' = << >>
        /\ call'.op = "Split" => status = "SUCCESS" /\ call'.room \in Nat
        /\ call'.op = "Find" => status = "NOT_FOUND"
    BY <1>1, <1>3
  <2>2. PairsOf(string') = << >>
    <3>1. << >> \in Text /\ Len(<< >>) = 0 /\ 1 \in 1 .. 0 + 2 /\ 1 > 0
      BY DEF Text
    <3>2. PairsFrom(<< >>)[1] = << >>
      BY <3>1, PairsAre
    <3> QED BY <2>1, <3>2 DEF PairsOf
  <2>3. call'.op = "Split" => SplitIsRight'
    <3> SUFFICES ASSUME call'.op = "Split" PROVE SplitIsRight'
      OBVIOUS
    <3>1. /\ count' = Len(<< >>) /\ count' <= call'.room
          /\ (IF call'.room < count' THEN call'.room ELSE count') = 0
      BY <1>1, <2>1
    <3>2. SubSeq(<< >>, 1, 0) = << >>
      OBVIOUS
    <3> QED BY <1>1, <2>1, <2>2, <3>1, <3>2 DEF SplitIsRight
  <2>4. call'.op = "Find" => FindIsRight'
    <3>1. Named(<< >>, call'.name) = {}
      BY DEF Named
    <3> QED BY <1>1, <2>1, <2>2, <3>1 DEF FindIsRight
  <2> QED BY <1>1, <2>3, <2>4 DEF ListInv, ReadsAsListed
<1> QED BY <1>2, <1>3

LEMMA CallsKeepList ==
  ASSUME TypeOK, TypeOK',
         \/ \E room \in Rooms : SplitEventAttributes(room)
         \/ \E name \in Names : FindEventAttribute(name)
         \/ AppendCurrentEventNameFallback
  PROVE  ListInv'
<1>1. ASSUME NEW room \in Rooms, SplitEventAttributes(room) PROVE ListInv'
  <2>1. /\ call' = [op |-> "Split", name |-> << >>, room |-> room]
        /\ count' = 0 /\ pairs' = << >> /\ Begin(call')
    BY <1>1 DEF SplitEventAttributes, Begin
  <2>2. room \in Nat /\ call'.op = "Split" /\ call'.room = room
    BY <2>1, StringsAssumption
  <2>3. CASE string # << >> /\ Scan("name", "SUCCESS")
    <3>1. SubSeq(All', 1, 0) = << >>
      <4>1. string' = string /\ string \in Text
        BY <2>3, StringIsText DEF Scan
      <4>2. All' \in Seq(PairType)
        <5>1. 1 \in 1 .. Len(string) + 2
          BY Measures
        <5> QED BY <4>1, <5>1, PairsAre DEF All, PairsOf
      <4> HIDE DEF All
      <4> QED BY <4>2
    <3>2. Listed(0)'
      <4>1. (IF room < 0 THEN room ELSE 0) = 0
        BY <2>2
      <4> QED BY <2>1, <2>2, <3>1, <4>1 DEF Listed
    <3> QED BY <2>3, <3>2, ScanStarts
  <2>4. CASE string = << >> /\ Scan("idle", "SUCCESS")
    BY <2>1, <2>2, <2>4, NoScan
  <2>5. CASE Scan("idle", "OUTOFMEMORY")
    BY <2>1, <2>5, NoScan
  <2> QED BY <1>1, <2>3, <2>4, <2>5 DEF SplitEventAttributes
<1>2. ASSUME NEW name \in Names, FindEventAttribute(name) PROVE ListInv'
  <2>1. /\ call' = [op |-> "Find", name |-> name, room |-> 0]
        /\ Begin(call') /\ output' = << >> /\ Search
    BY <1>2 DEF FindEventAttribute, Begin
  <2>2. call'.op = "Find" /\ call'.name = name /\ name # << >>
    BY <2>1 DEF Names, FILE, LINE
  <2>3. CASE string # << >> /\ Scan("name", "SUCCESS")
    <3>1. Listed(0)'
      <4>1. \A k \in 1 .. 0 : FALSE
        OBVIOUS
      <4> QED BY <2>1, <2>2, <4>1 DEF Listed
    <3> QED BY <2>3, <3>1, ScanStarts
  <2>4. CASE string = << >> /\ Scan("idle", "NOT_FOUND")
    BY <2>1, <2>2, <2>4, NoScan
  <2>5. CASE Scan("idle", "OUTOFMEMORY")
    BY <2>1, <2>5, NoScan
  <2> QED BY <2>1, <2>3, <2>4, <2>5 DEF Search
<1>3. CASE AppendCurrentEventNameFallback
  <2>1. call'.op = "EventName"
    BY <1>3 DEF AppendCurrentEventNameFallback, Begin
  <2>2. CASE string # << >> /\ Scan("name", "SUCCESS")
    <3>1. Listed(0)'
      BY <2>1 DEF Listed
    <3> QED BY <2>2, <3>1, ScanStarts
  <2>3. CASE step' = "idle"
    BY <2>1, <2>3 DEF ListInv, ReadsAsListed
  <2> QED BY <1>3, <2>2, <2>3 DEF AppendCurrentEventNameFallback, Search, Scan
<1> QED BY <1>1, <1>2, <1>3

\* What was written stays when more is.
LEMMA NulStays ==
  ASSUME TypeOK, out' = out \/ \E c \in STRING \cup {Nul} : out' = Append(out, c),
         NEW start \in Nat, NEW t \in Text, AtNul(start, t)
  PROVE  /\ start + Len(t) < Len(out')
         /\ out'[start + Len(t) + 1] = Nul
         /\ \A k \in 1 .. Len(t) : out'[start + k] = t[k]
<1>1. out \in Seq(STRING \cup {Nul}) /\ Len(out) \in Nat /\ Len(t) \in Nat
  BY StringIsText DEF Text
<1>2. /\ start + Len(t) < Len(out) /\ out[start + Len(t) + 1] = Nul
      /\ \A k \in 1 .. Len(t) : out[start + k] = t[k]
  BY DEF AtNul, At
<1>3. CASE out' = out
  BY <1>2, <1>3
<1>4. ASSUME NEW c \in STRING \cup {Nul}, out' = Append(out, c)
      PROVE  /\ start + Len(t) < Len(out')
             /\ out'[start + Len(t) + 1] = Nul
             /\ \A k \in 1 .. Len(t) : out'[start + k] = t[k]
  <2>1. Len(out') = Len(out) + 1 /\ \A i \in 1 .. Len(out) : out'[i] = out[i]
    BY <1>1, <1>4
  <2>2. start + Len(t) + 1 \in 1 .. Len(out) /\ \A k \in 1 .. Len(t) : start + k \in 1 .. Len(out)
    BY <1>1, <1>2
  <2> QED BY <1>1, <1>2, <2>1, <2>2
<1> QED BY <1>3, <1>4

LEMMA NameStaysKnown ==
  ASSUME TypeOK, out' = out \/ \E c \in STRING \cup {Nul} : out' = Append(out, c),
         string' = string, call' = call, nameStart' = nameStart, matched' = matched,
         NEW a \in 1 .. L, NameIsKnown(a)
  PROVE  NameIsKnown(a)'
<1>1. NameOf(a) \in Text /\ NameOf(a)' = NameOf(a) /\ nameStart \in Nat
      /\ Len(NameOf(a)) \in Nat
  <2>1. NameOf(a) \in Text /\ nameStart \in Nat
    BY StringIsText, AttributeIs
  <2>2. Len(NameOf(a)) \in Nat
    BY <2>1 DEF Text
  <2>3. NameOf(a)' = NameOf(a)
    BY DEF NameOf
  <2> QED BY <2>1, <2>2, <2>3
<1>2. CASE call.op = "Split"
  <2>1. AtNul(nameStart, NameOf(a))
    BY <1>2 DEF NameIsKnown
  <2>2. \A n \in Nat : \A t \in Text : n = nameStart /\ t = NameOf(a) =>
          /\ n + Len(t) < Len(out')
          /\ out'[n + Len(t) + 1] = Nul
          /\ \A k \in 1 .. Len(t) : out'[n + k] = t[k]
    BY <2>1, NulStays
  <2>3. /\ nameStart + Len(NameOf(a)) < Len(out')
        /\ out'[nameStart + Len(NameOf(a)) + 1] = Nul
        /\ \A k \in 1 .. Len(NameOf(a)) : out'[nameStart + k] = NameOf(a)[k]
    BY <1>1, <2>2
  <2>4. Len(out') \in Nat
    BY <2>3, <1>1, <2>1, StringIsText, AppendProperties
  <2>5. AtNul(nameStart, NameOf(a))'
    BY <1>1, <2>3, <2>4 DEF AtNul, At
  <2> QED BY <1>2, <2>5 DEF NameIsKnown
<1>3. CASE call.op # "Split"
  BY <1>1, <1>3 DEF NameIsKnown
<1> QED BY <1>2, <1>3

\* A character of a part is read.
LEMMA PartKeepsList ==
  ASSUME TypeOK, TypeOK', ListInv, Character \/ OpenQuote \/ DoubledQuote \/ CloseQuote
  PROVE  ListInv'
<1>1. InPart /\ ~AtEnd /\ step # "idle"
  BY DEF Character, OpenQuote, DoubledQuote, CloseQuote, InPart
<1>2. PICK a \in 1 .. L : Begins(a) /\ RestIsLast(a) /\ Reading(a) /\ Listed(Before(a))
  BY <1>1 DEF ListInv
<1>3. /\ string' = string /\ step' = step /\ call' = call /\ count' = count /\ pairs' = pairs
      /\ nameStart' = nameStart /\ valueStart' = valueStart /\ matched' = matched
      /\ output' = output
  BY DEF Character, OpenQuote, DoubledQuote, CloseQuote, unscanned
<1>4. /\ L \in Nat /\ L = Len(string) /\ a \in Nat /\ 1 <= a /\ a <= L /\ a \in 1 .. L + 1
      /\ nameStart \in Nat /\ valueStart \in Nat /\ ValueOffset \in Nat
  BY StringIsText DEF ValueOffset
<1>5. CASE step = "name"
  <2>1. /\ Mid(a) \in Nat /\ Mid(a) <= L + 1
        /\ Mid(a) <= L => IsEndChar(string[Mid(a)]) /\ ~Inside(string, Mid(a))
    <3>1. /\ Mid(a) \in Nat /\ Mid(a) <= Stop(a) /\ Stop(a) <= L + 1 /\ Stop(a) \in Nat
          /\ Stop(a) <= L => IsSemicolon(string, Stop(a))
          /\ Mid(a) < Stop(a) => IsEqual(string, Mid(a))
      BY AttributeIs
    <3>2. Mid(a) <= L => IsSemicolon(string, Mid(a)) \/ IsEqual(string, Mid(a))
      <4>1. Mid(a) = Stop(a) \/ Mid(a) < Stop(a)
        BY <3>1
      <4> QED BY <3>1, <4>1
    <3>3. Mid(a) <= L + 1
      BY <1>4, <3>1
    <3> QED BY <1>5, <3>1, <3>2, <3>3 DEF IsSemicolon, IsEqual, IsEndChar
  <2>2. Reads(a, Mid(a)) /\ EndsWith(nameStart, TextTo(a, pIn))
    BY <1>2, <1>5 DEF Reading
  <2>3. Reads(a, Mid(a))' /\ EndsWith(nameStart, TextTo(a, pIn))'
    <3>1. \A m \in Nat : \A n \in Nat : m = Mid(a) /\ n = nameStart =>
             Reads(a, m)' /\ EndsWith(n, TextTo(a, pIn))'
      BY <1>1, <1>4, <2>1, <2>2, ReadingStep
    <3>2. Mid(a)' = Mid(a)
      BY <1>3 DEF Mid
    <3> QED BY <1>3, <1>4, <2>1, <3>1, <3>2 DEF Reads, EndsWith, At
  <2>4. Reading(a)'
    BY <1>3, <1>5, <2>3 DEF Reading
  <2> QED BY <1>1, <1>2, <1>3, <2>4, StillListed
<1>6. CASE step = "value"
  <2>1. PICK p \in 2 .. L + 1 : /\ ValueFrom(a, p)
                                /\ Reads(p, Stop(a))
                                /\ EndsWith(ValueOffset, TextTo(p, pIn))
    BY <1>2, <1>6 DEF Reading
  <2>2. p \in 1 .. L + 1
    BY <1>4
  <2>3. /\ Stop(a) \in Nat /\ Stop(a) <= L + 1
        /\ Stop(a) <= L => IsEndChar(string[Stop(a)]) /\ ~Inside(string, Stop(a))
    <3>1. /\ Stop(a) <= L + 1 /\ Stop(a) \in Nat
          /\ Stop(a) <= L => IsSemicolon(string, Stop(a))
      BY AttributeIs
    <3> QED BY <3>1 DEF IsSemicolon, IsEndChar
  <2>4. Reads(p, Stop(a))' /\ EndsWith(ValueOffset, TextTo(p, pIn))'
    <3>1. \A m \in Nat : \A n \in Nat : m = Stop(a) /\ n = ValueOffset =>
             Reads(p, m)' /\ EndsWith(n, TextTo(p, pIn))'
      BY <1>1, <1>4, <2>1, <2>2, <2>3, ReadingStep
    <3>2. Stop(a)' = Stop(a) /\ ValueOffset' = ValueOffset
      BY <1>3 DEF Stop, ValueOffset
    <3> QED BY <1>3, <1>4, <2>3, <3>1, <3>2 DEF Reads, EndsWith, At
  <2>5. ValueFrom(a, p)' /\ p \in 2 .. L' + 1
    BY <1>3, <2>1 DEF ValueFrom, L, Stop, ValOf, TextTo
  <2>6. NameIsKnown(a)'
    <3>1. out' = out \/ \E c \in STRING \cup {Nul} : out' = Append(out, c)
      BY <1>1, Measures, StringsAssumption DEF Character, OpenQuote, DoubledQuote, CloseQuote, Quote
    <3> QED BY <1>2, <1>3, <1>6, <3>1, NameStaysKnown DEF Reading
  <2>7. Reading(a)'
    BY <1>3, <1>6, <2>4, <2>5, <2>6 DEF Reading
  <2> QED BY <1>1, <1>2, <1>3, <2>7, StillListed
<1> QED BY <1>1, <1>5, <1>6 DEF InPart

\* A part ends with the string.
LEMMA EndOfStringKeepsList ==
  ASSUME TypeOK, TypeOK', ListInv, EndOfString
  PROVE  ListInv'
<1>1. InPart /\ AtEnd /\ step # "idle"
  BY DEF EndOfString, InPart
<1>2. PICK a \in 1 .. L : Begins(a) /\ RestIsLast(a) /\ Reading(a) /\ Listed(Before(a))
  BY <1>1 DEF ListInv
<1>3. /\ string' = string /\ call' = call /\ count' = count /\ pairs' = pairs
      /\ nameStart' = nameStart /\ valueStart' = valueStart /\ matched' = matched
      /\ output' = output /\ out' = out /\ pIn' = pIn /\ step' = PartEnd
  BY DEF EndOfString, unscanned
<1>4. /\ L \in Nat /\ L = Len(string) /\ L' = L /\ pIn = L /\ a \in Nat /\ 1 <= a /\ a <= L
      /\ a \in 1 .. L + 1
  BY <1>1, <1>3, StringIsText DEF L
<1>5. /\ Mid(a) \in Nat /\ Stop(a) \in Nat /\ Mid(a) <= Stop(a) /\ Stop(a) <= L + 1
      /\ Mid(a) = Stop(a) => ValOf(a) = << >>
      /\ NameOf(a) = TextTo(a, Mid(a) - 1)
  BY AttributeIs
<1>6. /\ Stop(a)' = Stop(a) /\ Mid(a)' = Mid(a) /\ NameOf(a)' = NameOf(a) /\ ValOf(a)' = ValOf(a)
      /\ HasValue' = HasValue /\ AtEnd' = AtEnd /\ NameIsKnown(a)' = NameIsKnown(a)
      /\ ValueOffset' = ValueOffset
  BY <1>3 DEF Stop, Mid, NameOf, ValOf, HasValue, AtEnd, NameIsKnown, AtNul, At, ValueOffset
<1>7. CASE step = "name"
  <2>1. Reads(a, Mid(a)) /\ EndsWith(nameStart, TextTo(a, pIn))
    BY <1>2, <1>7 DEF Reading
  <2>2. Mid(a) = L + 1 /\ Stop(a) = L + 1 /\ Mid(a) - 1 = pIn
    BY <1>4, <1>5, <2>1 DEF Reads
  <2>3. EndsWith(nameStart, NameOf(a)) /\ ValOf(a) = << >>
    BY <1>5, <2>1, <2>2
  <2>4. ValueFrom(a, pIn + 1)
    <3>1. pIn + 1 \in a + 1 .. L + 1 /\ pIn + 1 <= Stop(a) /\ ~(pIn + 1 <= L)
          /\ Stop(a) - 1 = (L + 1) - 1 /\ L + 1 \in 1 .. L + 1
      BY <1>4, <2>2
    <3>2. TextTo(L + 1, (L + 1) - 1) = << >>
      BY <3>1, NoText
    <3>3. TextTo(pIn + 1, Stop(a) - 1) = << >>
      BY <1>4, <3>1, <3>2
    <3> QED BY <2>3, <3>1, <3>3 DEF ValueFrom
  <2>5. ReadsAll(a)
    BY <1>1, <2>2 DEF ReadsAll
  <2>6. step' = "nameEnd"
    BY <1>3, <1>7 DEF PartEnd
  <2>7. EndsWith(nameStart, NameOf(a))' /\ ValueFrom(a, pIn + 1)' /\ ReadsAll(a)'
    BY <1>3, <1>4, <1>6, <2>3, <2>4, <2>5 DEF EndsWith, At, ValueFrom, ReadsAll, TextTo
  <2>8. Reading(a)'
    BY <1>6, <2>3, <2>6, <2>7 DEF Reading
  <2> QED BY <1>1, <1>2, <1>3, <2>6, <2>8, StillListed
<1>8. CASE step = "value"
  <2>1. NameIsKnown(a)
    BY <1>2, <1>8 DEF Reading
  <2>2. PICK p \in 2 .. L + 1 : /\ ValueFrom(a, p)
                                /\ Reads(p, Stop(a))
                                /\ EndsWith(ValueOffset, TextTo(p, pIn))
    BY <1>2, <1>8 DEF Reading
  <2>3. Stop(a) = L + 1 /\ Stop(a) - 1 = pIn
    BY <1>4, <1>5, <2>2 DEF Reads
  <2>4. EndsWith(ValueOffset, ValOf(a)) /\ ReadsAll(a)
    BY <1>1, <2>2, <2>3 DEF ValueFrom, ReadsAll
  <2>5. step' = "valueEnd"
    BY <1>3, <1>8 DEF PartEnd
  <2>6. EndsWith(ValueOffset, ValOf(a))' /\ ReadsAll(a)'
    BY <1>3, <1>4, <1>6, <2>4 DEF EndsWith, At, ReadsAll
  <2>7. Reading(a)'
    BY <1>6, <2>1, <2>5, <2>6 DEF Reading
  <2> QED BY <1>1, <1>2, <1>3, <2>5, <2>7, StillListed
<1> QED BY <1>1, <1>7, <1>8 DEF InPart

\* A part ends at a separator.
LEMMA EndCharKeepsList ==
  ASSUME TypeOK, TypeOK', ListInv, EndChar
  PROVE  ListInv'
<1>1. InPart /\ ~AtEnd /\ step # "idle" /\ ~quoted /\ IsEndChar(Ch)
  BY DEF EndChar, InPart
<1>2. PICK a \in 1 .. L : Begins(a) /\ RestIsLast(a) /\ Reading(a) /\ Listed(Before(a))
  BY <1>1 DEF ListInv
<1> DEFINE n == pIn + 1
<1>3. /\ string' = string /\ call' = call /\ count' = count /\ pairs' = pairs
      /\ nameStart' = nameStart /\ valueStart' = valueStart /\ matched' = matched
      /\ output' = output /\ out' = out /\ pIn' = n /\ step' = PartEnd
  BY DEF EndChar, unscanned
<1>4. /\ L \in Nat /\ L = Len(string) /\ L' = L /\ a \in Nat /\ 1 <= a /\ a <= L
      /\ pIn \in Nat /\ n \in Nat /\ n \in 1 .. L /\ n <= L /\ Ch = string[n] /\ n \in Nat \ {0}
      /\ pIn' = n /\ n - 1 = pIn
  BY <1>1, <1>3, StringIsText DEF L, Ch
<1>5. /\ Mid(a) \in Nat /\ Stop(a) \in Nat
      /\ a <= Mid(a) /\ Mid(a) <= Stop(a) /\ Stop(a) <= L + 1
      /\ Stop(a) <= L => IsSemicolon(string, Stop(a))
      /\ \A i \in Nat : a <= i /\ i < Stop(a) => ~IsSemicolon(string, i)
      /\ \A i \in Nat : a <= i /\ i < Mid(a) => ~IsEqual(string, i)
      /\ Mid(a) < Stop(a) => /\ IsEqual(string, Mid(a))
                             /\ ValOf(a) = TextTo(Mid(a) + 1, Stop(a) - 1)
      /\ Mid(a) = Stop(a) => ValOf(a) = << >>
      /\ NameOf(a) = TextTo(a, Mid(a) - 1)
  BY AttributeIs
<1>6. /\ Stop(a)' = Stop(a) /\ Mid(a)' = Mid(a) /\ NameOf(a)' = NameOf(a) /\ ValOf(a)' = ValOf(a)
      /\ NameIsKnown(a)' = NameIsKnown(a) /\ ValueOffset' = ValueOffset
      /\ \A p, i : TextTo(p, i)' = TextTo(p, i)
  BY <1>3 DEF Stop, Mid, NameOf, ValOf, NameIsKnown, AtNul, At, ValueOffset, TextTo
<1> HIDE DEF n
<1>7. CASE step = "name"
  <2>1. Reads(a, Mid(a)) /\ EndsWith(nameStart, TextTo(a, pIn))
    BY <1>2, <1>7 DEF Reading
  <2>2. a <= n /\ n <= Mid(a) /\ ~Inside(string, n)
    <3>1. pIn + 1 = n
      BY DEF n
    <3> QED BY <1>1, <1>4, <1>5, <2>1, <3>1 DEF Reads
  <2>3. IsSemicolon(string, n) \/ IsEqual(string, n)
    BY <1>1, <1>4, <1>7, <2>2 DEF IsEndChar, IsSemicolon, IsEqual
  <2>4. n = Mid(a)
    <3>1. ~(n < Mid(a))
      BY <1>4, <1>5, <2>2, <2>3
    <3> QED BY <1>4, <1>5, <2>2, <3>1
  <2>5. EndsWith(nameStart, NameOf(a))
    BY <1>4, <1>5, <2>1, <2>4
  <2>6. step' = "nameEnd"
    BY <1>3, <1>7 DEF PartEnd
  <2>7. EndsWith(nameStart, NameOf(a))'
    BY <1>3, <1>6, <2>5 DEF EndsWith, At
  <2>8. CASE Mid(a) < Stop(a)
    <3>1. IsEqual(string, n) /\ ValOf(a) = TextTo(n + 1, Stop(a) - 1)
      BY <1>5, <2>4, <2>8
    <3>2. HasValue'
      BY <1>3, <1>4, <3>1 DEF HasValue, IsEqual
    <3>3. n + 1 \in a + 1 .. L + 1 /\ n + 1 <= Stop(a)
      BY <1>4, <1>5, <2>2, <2>4, <2>8
    <3>4. n + 1 <= L => ~Inside(string, n + 1)
      BY <1>4, <2>2, <3>1, InsideStep DEF IsEqual, Quote
    <3>5. ValueFrom(a, pIn + 1)'
      BY <1>3, <1>4, <1>6, <3>1, <3>3, <3>4 DEF ValueFrom
    <3>6. Reading(a)'
      BY <2>6, <2>7, <3>2, <3>5 DEF Reading
    <3> QED BY <1>1, <1>2, <1>3, <2>6, <3>6, StillListed
  <2>9. CASE Mid(a) = Stop(a)
    <3>1. IsSemicolon(string, n) /\ n = Stop(a) /\ ValOf(a) = << >>
      BY <1>4, <1>5, <2>4, <2>9
    <3>2. ~HasValue'
      BY <1>3, <1>4, <3>1 DEF HasValue, IsSemicolon
    <3>3. ReadsAll(a)' /\ ValOf(a)' = << >>
      BY <1>3, <1>4, <1>6, <3>1 DEF ReadsAll
    <3>4. Reading(a)'
      BY <2>6, <2>7, <3>2, <3>3 DEF Reading
    <3> QED BY <1>1, <1>2, <1>3, <2>6, <3>4, StillListed
  <2> QED BY <1>5, <2>8, <2>9
<1>8. CASE step = "value"
  <2>1. NameIsKnown(a)
    BY <1>2, <1>8 DEF Reading
  <2>2. PICK p \in 2 .. L + 1 : /\ ValueFrom(a, p)
                                /\ Reads(p, Stop(a))
                                /\ EndsWith(ValueOffset, TextTo(p, pIn))
    BY <1>2, <1>8 DEF Reading
  <2>3. p \in Nat /\ a + 1 <= p /\ p <= n /\ n <= Stop(a) /\ ~Inside(string, n)
    <3>1. pIn + 1 = n
      BY DEF n
    <3>2. p \in Nat /\ a + 1 <= p
      BY <1>4, <2>2 DEF ValueFrom
    <3> QED BY <1>1, <1>4, <1>5, <2>2, <3>1, <3>2 DEF Reads
  <2>4. IsSemicolon(string, n)
    BY <1>1, <1>4, <1>8, <2>3 DEF IsEndChar, IsSemicolon
  <2>5. n = Stop(a)
    <3>1. ~(n < Stop(a))
      BY <1>4, <1>5, <2>3, <2>4
    <3> QED BY <1>4, <1>5, <2>3, <3>1
  <2>6. EndsWith(ValueOffset, ValOf(a))
    BY <1>4, <2>2, <2>5 DEF ValueFrom
  <2>7. step' = "valueEnd"
    BY <1>3, <1>8 DEF PartEnd
  <2>8. EndsWith(ValueOffset, ValOf(a))' /\ ReadsAll(a)'
    BY <1>3, <1>4, <1>6, <2>5, <2>6 DEF EndsWith, At, ReadsAll
  <2>9. Reading(a)'
    BY <1>6, <2>1, <2>7, <2>8 DEF Reading
  <2> QED BY <1>1, <1>2, <1>3, <2>7, <2>9, StillListed
<1> QED BY <1>1, <1>7, <1>8 DEF InPart

\* A text is nul-terminated.
LEMMA Terminated ==
  ASSUME TypeOK, NEW start \in Nat, NEW t \in Text, EndsWith(start, t), out' = Append(out, Nul)
  PROVE  /\ start + Len(t) < Len(out')
         /\ out'[start + Len(t) + 1] = Nul
         /\ \A k \in 1 .. Len(t) : out'[start + k] = t[k]
<1>1. out \in Seq(STRING \cup {Nul}) /\ Len(out) \in Nat /\ Len(t) \in Nat
  BY StringIsText DEF Text
<1>2. Len(out) = start + Len(t) /\ \A k \in 1 .. Len(t) : out[start + k] = t[k]
  BY DEF EndsWith, At
<1>3. Len(out') = Len(out) + 1 /\ (\A i \in 1 .. Len(out) : out'[i] = out[i])
      /\ out'[Len(out) + 1] = Nul
  BY <1>1
<1>4. \A k \in 1 .. Len(t) : start + k \in 1 .. Len(out)
  BY <1>1, <1>2
<1> QED BY <1>1, <1>2, <1>3, <1>4

LEMMA NameSplitKeepsList ==
  ASSUME TypeOK, TypeOK', Scanning, ListInv, NameSplit
  PROVE  ListInv'
<1>1. /\ step = "nameEnd" /\ call.op = "Split" /\ out' = Append(out, Nul)
      /\ string' = string /\ call' = call /\ count' = count /\ pairs' = pairs
      /\ nameStart' = nameStart /\ matched' = matched /\ output' = output /\ pIn' = pIn
      /\ quoted' = quoted /\ quoted = FALSE
  BY DEF NameSplit, Scanning, InPart, TypeOK
<1>2. PICK a \in 1 .. L : Begins(a) /\ RestIsLast(a) /\ Reading(a) /\ Listed(Before(a))
  BY <1>1 DEF ListInv
<1>3. /\ EndsWith(nameStart, NameOf(a))
      /\ HasValue => ValueFrom(a, pIn + 1)
      /\ ~HasValue => ReadsAll(a) /\ ValOf(a) = << >>
  BY <1>1, <1>2 DEF Reading
<1>4. /\ L \in Nat /\ L = Len(string) /\ L' = L /\ a \in Nat /\ 1 <= a /\ a <= L
      /\ pIn \in Nat /\ nameStart \in Nat /\ Len(out) \in Nat /\ Len(out') = Len(out) + 1
      /\ NameOf(a) \in Text /\ Stop(a) \in Nat /\ Len(out) + 1 \in Nat
  BY <1>1, StringIsText, AttributeIs DEF L
<1>5. /\ Stop(a)' = Stop(a) /\ NameOf(a)' = NameOf(a) /\ ValOf(a)' = ValOf(a)
      /\ AtEnd' = AtEnd /\ \A p, i : TextTo(p, i)' = TextTo(p, i)
  BY <1>1 DEF Stop, NameOf, ValOf, AtEnd, TextTo
<1>6. NameIsKnown(a)'
  <2>1. \A s \in Nat : \A t \in Text : s = nameStart /\ t = NameOf(a) =>
          /\ s + Len(t) < Len(out')
          /\ out'[s + Len(t) + 1] = Nul
          /\ \A k \in 1 .. Len(t) : out'[s + k] = t[k]
    BY <1>1, <1>3, Terminated
  <2>2. /\ nameStart + Len(NameOf(a)) < Len(out')
        /\ out'[nameStart + Len(NameOf(a)) + 1] = Nul
        /\ \A k \in 1 .. Len(NameOf(a)) : out'[nameStart + k] = NameOf(a)[k]
    BY <1>4, <2>1
  <2>3. Len(NameOf(a)) \in Nat
    BY <1>4 DEF Text
  <2>4. AtNul(nameStart, NameOf(a))'
    BY <1>1, <1>4, <1>5, <2>2, <2>3 DEF AtNul, At
  <2> QED BY <1>1, <2>4 DEF NameIsKnown
<1>7. CASE HasValue
  <2>1. step' = "value" /\ valueStart' = Len(out) + 1
    BY <1>7 DEF NameSplit
  <2>2. PICK p \in Nat : p = pIn + 1
    BY <1>4
  <2>3. ValueFrom(a, p)
    BY <1>3, <1>7, <2>2
  <2>4. /\ p <= Stop(a) /\ (p <= L => ~Inside(string, p))
        /\ p \in 1 .. L + 1 /\ p \in 2 .. L + 1 /\ pIn' = p - 1
    BY <1>1, <1>4, <2>2, <2>3 DEF ValueFrom
  <2>5. \A e, s \in Nat : p <= e /\ Len(out') = s => Reads(p, e)' /\ EndsWith(s, TextTo(p, pIn))'
    BY <1>1, <2>4, PartBegins
  <2>6. Reads(p, Stop(a))' /\ EndsWith(valueStart, TextTo(p, pIn))'
    BY <1>4, <1>5, <2>1, <2>4, <2>5, ZenonT(40) DEF Reads, EndsWith, At
  <2>7. ValueFrom(a, p)'
    BY <1>4, <1>1, <1>5, <2>3 DEF ValueFrom
  <2>8. Reading(a)'
    BY <1>1, <1>4, <1>6, <2>1, <2>4, <2>6, <2>7 DEF Reading, ValueOffset
  <2> QED BY <1>1, <1>2, <2>1, <2>8, StillListed
<1>8. CASE ~HasValue
  <2>1. step' = "attribute" /\ valueStart' = Len(out) /\ ValOf(a) = << >> /\ ReadsAll(a)
    BY <1>3, <1>8 DEF NameSplit
  <2>2. ReadsAll(a)'
    BY <1>1, <1>4, <1>5, <2>1 DEF ReadsAll
  <2>3. AtNul(valueStart, ValOf(a))'
    <3>1. /\ Len(<< >>) = 0 /\ out'[Len(out) + 1] = Nul /\ Len(out) + 0 + 1 = Len(out) + 1
          /\ Len(out) + 0 < Len(out') /\ (\A k \in 1 .. 0 : FALSE) /\ Len(out) + 0 <= Len(out')
      BY <1>1, <1>4, StringIsText
    <3> QED BY <1>5, <2>1, <3>1 DEF AtNul, At
  <2>4. Reading(a)'
    BY <1>6, <2>1, <2>2, <2>3 DEF Reading
  <2> QED BY <1>1, <1>2, <2>1, <2>4, StillListed
<1> QED BY <1>7, <1>8

LEMMA ValueSplitKeepsList ==
  ASSUME TypeOK, TypeOK', ListInv, ValueSplit
  PROVE  ListInv'
<1>1. /\ step = "valueEnd" /\ call.op = "Split" /\ out' = Append(out, Nul)
      /\ string' = string /\ call' = call /\ count' = count /\ pairs' = pairs
      /\ nameStart' = nameStart /\ matched' = matched /\ output' = output /\ pIn' = pIn
      /\ valueStart' = valueStart /\ step' = "attribute"
  BY DEF ValueSplit, unscanned
<1>2. PICK a \in 1 .. L : Begins(a) /\ RestIsLast(a) /\ Reading(a) /\ Listed(Before(a))
  BY <1>1 DEF ListInv
<1>3. NameIsKnown(a) /\ ReadsAll(a) /\ EndsWith(valueStart, ValOf(a))
  BY <1>1, <1>2 DEF Reading, ValueOffset
<1>4. /\ L' = L /\ Stop(a)' = Stop(a) /\ ValOf(a)' = ValOf(a) /\ AtEnd' = AtEnd
      /\ ValOf(a) \in Text /\ valueStart \in Nat /\ Len(ValOf(a)) \in Nat
  BY <1>1, StringIsText, AttributeIs, SMTT(30) DEF L, Stop, ValOf, AtEnd, Text
<1>5. NameIsKnown(a)'
  BY <1>1, <1>3, NameStaysKnown
<1>6. AtNul(valueStart, ValOf(a))'
  <2>1. \A s \in Nat : \A t \in Text : s = valueStart /\ t = ValOf(a) =>
          /\ s + Len(t) < Len(out')
          /\ out'[s + Len(t) + 1] = Nul
          /\ \A k \in 1 .. Len(t) : out'[s + k] = t[k]
    BY <1>1, <1>3, Terminated
  <2>2. /\ valueStart + Len(ValOf(a)) < Len(out')
        /\ out'[valueStart + Len(ValOf(a)) + 1] = Nul
        /\ \A k \in 1 .. Len(ValOf(a)) : out'[valueStart + k] = ValOf(a)[k]
    BY <1>4, <2>1
  <2>3. Len(out') = Len(out) + 1 /\ Len(out) \in Nat
    BY <1>1, StringIsText
  <2> QED BY <1>1, <1>4, <2>2, <2>3 DEF AtNul, At
<1>7. ReadsAll(a)'
  BY <1>1, <1>3, <1>4 DEF ReadsAll
<1>8. Reading(a)'
  BY <1>1, <1>5, <1>6, <1>7 DEF Reading
<1> QED BY <1>1, <1>2, <1>8, StillListed

\* The attribute after a is the next to be read, unless a was the last.
LEMMA NextBegins ==
  ASSUME TypeOK, TypeOK', NEW a, Begins(a), RestIsLast(a), ReadsAll(a),
         string' = string, pIn' = pIn, quoted' = FALSE, ~AtEnd,
         step' = "name", Len(out') = nameStart', Listed(Before(Stop(a) + 1))'
  PROVE  ListInv'
<1> DEFINE b == Stop(a) + 1
<1>1. /\ L \in Nat /\ L = Len(string) /\ L' = L /\ pIn \in Nat /\ pIn <= L /\ pIn # L
  BY StringIsText DEF L
<1>2. /\ pIn = Stop(a) /\ b \in Nat /\ b <= L /\ pIn' = b - 1 /\ b \in 1 .. L
  <2>1. pIn = Stop(a)
    BY DEF ReadsAll
  <2>2. b \in Nat /\ a < b /\ a \in Nat
    BY NextIs, StringIsText DEF Begins
  <2> QED BY <1>1, <2>1, <2>2
<1>3. Begins(b) /\ RestIsLast(b)
  BY <1>2, NextIs
<1>4. Begins(b)' /\ RestIsLast(b)'
  <2>1. All' = All /\ Rest(Stop(a) + 1)' = Rest(Stop(a) + 1) /\ Stop(a)' = Stop(a)
        /\ Before(Stop(a) + 1)' = Before(Stop(a) + 1)
    BY DEF All, Rest, Stop, Before
  <2> QED BY <1>1, <1>3, <2>1 DEF Begins, RestIsLast
<1>5. Mid(b) \in Nat /\ b <= Mid(b) /\ Mid(b)' = Mid(b) /\ b' = b
  BY <1>2, AttributeIs DEF Mid, Stop
<1>6. Reads(b, Mid(b))' /\ EndsWith(nameStart, TextTo(b, pIn))'
  <2> HIDE DEF b
  <2>1. b \in 1 .. L + 1 /\ (b <= L => ~Inside(string, b)) /\ nameStart' \in Nat
        /\ pIn' = b - 1
    BY <1>1, <1>2, <1>3, Measures, StringIsText DEF Begins, TypeOK
  <2>2. \A c \in 1 .. L + 1 : \A e \in Nat, s \in Nat : c = b /\ c <= e /\ Len(out') = s =>
                                    Reads(c, e)' /\ EndsWith(s, TextTo(c, pIn))'
    BY <1>2, <2>1, PartBegins
  <2> QED BY <1>5, <2>1, <2>2 DEF Reads, EndsWith, At, TextTo
<1>7. Reading(b)'
  BY <1>6 DEF Reading
<1>8. b' \in 1 .. L'
  BY <1>1, <1>2, <1>5
<1> QED BY <1>4, <1>7, <1>8 DEF ListInv

LEMMA TextIsOut ==
  ASSUME NEW t \in Text
  PROVE  t \in Seq(STRING \cup {Nul})
<1>1. t \in [1 .. Len(t) -> STRING \cup {Nul}] /\ Len(t) \in Nat
  BY DEF Text
<1> QED BY <1>1

\* What a text at an offset is read as.
LEMMA TextAtIs ==
  ASSUME TypeOK, NEW start \in Nat, NEW t \in Text, AtNul(start, t)
  PROVE  /\ TextAt(start) = t
         /\ out[start + 1] # Nul <=> t # << >>
<1>1. /\ out \in Seq(STRING \cup {Nul}) /\ Len(out) \in Nat /\ Len(t) \in Nat
      /\ \A k \in 1 .. Len(t) : t[k] # Nul
      /\ t = << >> <=> Len(t) = 0
  <2>1. \A k \in 1 .. Len(t) : t[k] \in STRING \ {Nul}
    BY ElementOfSeq DEF Text
  <2> QED BY <2>1, StringIsText, EmptySeq DEF Text
<1> DEFINE e == start + Len(t)
           Ends(n) == out[n + 1] = Nul /\ \A m \in start .. n - 1 : out[m + 1] # Nul
<1>2. /\ e \in Nat /\ e < Len(out) /\ out[e + 1] = Nul
      /\ \A k \in 1 .. Len(t) : out[start + k] = t[k]
  BY <1>1 DEF AtNul, At
<1>3. \A m \in start .. e - 1 : out[m + 1] # Nul
  <2> SUFFICES ASSUME NEW m \in start .. e - 1 PROVE out[m + 1] # Nul
    OBVIOUS
  <2>1. (m - start) + 1 \in 1 .. Len(t) /\ start + ((m - start) + 1) = m + 1
    BY <1>1
  <2> QED BY <1>1, <1>2, <2>1
<1>4. e \in start .. Len(out) - 1 /\ Ends(e)
  BY <1>1, <1>2, <1>3
<1>5. \A n \in start .. Len(out) - 1 : Ends(n) => n = e
  <2> SUFFICES ASSUME NEW n \in start .. Len(out) - 1, Ends(n), n # e PROVE FALSE
    OBVIOUS
  <2>0. n \in Int /\ e \in Int /\ start <= n /\ start <= e
    BY <1>1, <1>2
  <2>1. CASE n < e
    <3>1. n \in start .. e - 1
      BY <2>0, <2>1
    <3> QED BY <1>3, <3>1
  <2>2. CASE e < n
    <3>1. e \in start .. n - 1
      BY <2>0, <2>2
    <3> QED BY <1>2, <3>1
  <2> QED BY <2>0, <2>1, <2>2
<1>6. TextAt(start) = SubSeq(out, start + 1, e)
  <2> DEFINE c == CHOOSE n \in start .. Len(out) - 1 : Ends(n)
  <2>1. TextAt(start) = SubSeq(out, start + 1, c)
    BY DEF TextAt
  <2>2. c \in start .. Len(out) - 1 /\ Ends(c)
    BY <1>4
  <2> HIDE DEF c, Ends, e
  <2>3. c = e
    BY <1>5, <2>2
  <2> QED BY <2>1, <2>3
<1>7. SubSeq(out, start + 1, e) = t
  <2> DEFINE q == SubSeq(out, start + 1, e)
  <2>1. \A i \in (start + 1) .. e : i \in 1 .. Len(out)
    BY <1>1, <1>2
  <2>2. /\ q \in Seq(STRING \cup {Nul}) /\ Len(q) = Len(t)
        /\ \A k \in 1 .. Len(t) : q[k] = out[(start + 1) + k - 1]
    <3>1. start + 1 \in 1 .. Len(out) + 1 /\ e \in start .. Len(out)
      BY <1>1, <1>2
    <3>2. Len(q) = IF start + 1 <= e THEN e - (start + 1) + 1 ELSE 0
      BY <1>1, <1>2
    <3>3. Len(q) = Len(t)
      BY <1>1, <3>2
    <3>4. \A k \in 1 .. Len(q) : q[k] = out[(start + 1) + k - 1]
      BY <1>1, <1>2
    <3>5. q \in Seq(STRING \cup {Nul})
      BY <1>1, <1>2, <2>1
    <3> QED BY <3>3, <3>4, <3>5
  <2> HIDE DEF q, e
  <2>3. \A k \in 1 .. Len(t) : (start + 1) + k - 1 = start + k
    BY <1>1
  <2>4. \A k \in 1 .. Len(t) : q[k] = t[k]
    BY <1>2, <2>2, <2>3
  <2>5. t \in Seq(STRING \cup {Nul})
    BY TextIsOut
  <2>6. q = t
    BY <2>2, <2>4, <2>5, SeqEqual
  <2> QED BY <2>6 DEF q
<1>8. out[start + 1] # Nul <=> t # << >>
  <2>1. CASE Len(t) = 0
    BY <1>1, <1>2, <2>1
  <2>2. CASE Len(t) # 0
    <3>1. 1 \in 1 .. Len(t)
      BY <1>1, <2>2
    <3> QED BY <1>1, <1>2, <3>1
  <2> QED BY <2>1, <2>2
<1> QED BY <1>6, <1>7, <1>8

\* What was written from the first offset on is the text.
LEMMA OutIsText ==
  ASSUME TypeOK, NEW t \in Text, EndsWith(0, t)
  PROVE  out = t
<1>1. /\ out \in Seq(STRING \cup {Nul}) /\ t \in Seq(STRING \cup {Nul}) /\ Len(t) \in Nat
      /\ Len(out) = 0 + Len(t) /\ \A k \in 1 .. Len(t) : out[0 + k] = t[k]
  BY StringIsText, TextIsOut DEF Text, EndsWith, At
<1>2. Len(out) = Len(t) /\ \A k \in 1 .. Len(t) : out[k] = t[k]
  BY <1>1
<1> QED BY <1>1, <1>2, SeqEqual

\* A pair more of a list.
LEMMA OneMore ==
  ASSUME NEW T, NEW s \in Seq(T), NEW n \in Nat, n + 1 <= Len(s), NEW r \in Nat, NEW q,
         q = SubSeq(s, 1, IF r < n THEN r ELSE n)
  PROVE  (IF n < r THEN Append(q, s[n + 1]) ELSE q) = SubSeq(s, 1, IF r < n + 1 THEN r ELSE n + 1)
<1>1. Len(s) \in Nat
  OBVIOUS
<1>2. CASE n < r
  <2>1. q = SubSeq(s, 1, n) /\ (IF r < n + 1 THEN r ELSE n + 1) = n + 1
    BY <1>1, <1>2
  <2>2. Append(SubSeq(s, 1, n), s[n + 1]) = SubSeq(s, 1, n + 1)
    <3>1. 1 \in 1 .. n + 1 /\ n + 1 \in 1 .. Len(s) /\ (n + 1) - 1 = n
      BY <1>1
    <3> DEFINE u == SubSeq(s, 1, n)
               v == SubSeq(s, 1, n + 1)
    <3>2. u \in Seq(T) /\ Len(u) = n /\ \A k \in 1 .. n : u[k] = s[k]
      BY <1>1, <3>1
    <3>3. v \in Seq(T) /\ Len(v) = n + 1 /\ \A k \in 1 .. n + 1 : v[k] = s[k]
      BY <1>1, <3>1
    <3> DEFINE e == s[n + 1]
    <3>4. e \in T
      BY <3>1
    <3>5. \A k \in 1 .. n + 1 : k \in 1 .. n \/ k = n + 1
      OBVIOUS
    <3>7. v[n + 1] = e
      BY <3>3
    <3> HIDE DEF u, v, e
    <3>6. Append(u, e) = v
      <4>1. /\ Append(u, e) \in Seq(T) /\ Len(Append(u, e)) = Len(u) + 1
            /\ \A k \in 1 .. Len(u) : Append(u, e)[k] = u[k]
            /\ Append(u, e)[Len(u) + 1] = e
        BY <3>2, <3>4, AppendProperties
      <4>2. \A k \in 1 .. n : v[k] = s[k]
        BY <3>3
      <4>3. \A k \in 1 .. n + 1 : Append(u, e)[k] = v[k]
        BY <3>2, <3>5, <3>7, <4>1, <4>2
      <4> QED BY <3>2, <3>3, <4>1, <4>3, SeqEqual
    <3> QED BY <3>6 DEF u, v, e
  <2> QED BY <1>2, <2>1, <2>2
<1>3. CASE ~(n < r)
  <2>1. (IF r < n THEN r ELSE n) = r /\ (IF r < n + 1 THEN r ELSE n + 1) = r
    BY <1>3
  <2> QED BY <1>3, <2>1
<1> QED BY <1>2, <1>3

LEMMA AttributeSplitKeepsList ==
  ASSUME TypeOK, TypeOK', Scanning, ListInv, AttributeSplit
  PROVE  ListInv'
<1>1. /\ step = "attribute" /\ call.op = "Split" /\ out' = out
      /\ string' = string /\ call' = call /\ output' = output /\ pIn' = pIn
      /\ nameStart' = Len(out) /\ quoted' = quoted /\ quoted = FALSE
  BY DEF AttributeSplit, Scanning, InPart, TypeOK
<1>2. PICK a \in 1 .. L : Begins(a) /\ RestIsLast(a) /\ Reading(a) /\ Listed(Before(a))
  BY <1>1 DEF ListInv
<1> DEFINE b == Stop(a) + 1
           n == Before(a)
           listed == NameOf(a) # << >> \/ ValOf(a) # << >>
<1>3. AtNul(nameStart, NameOf(a)) /\ AtNul(valueStart, ValOf(a)) /\ ReadsAll(a)
  BY <1>1, <1>2 DEF Reading, NameIsKnown
<1>4. /\ TextAt(nameStart) = NameOf(a) /\ TextAt(valueStart) = ValOf(a)
      /\ out[nameStart + 1] # Nul <=> NameOf(a) # << >>
      /\ out[valueStart + 1] # Nul <=> ValOf(a) # << >>
  <2>1. NameOf(a) \in Text /\ ValOf(a) \in Text /\ nameStart \in Nat /\ valueStart \in Nat
    BY StringIsText, AttributeIs
  <2> QED BY <1>3, <2>1, TextAtIs
<1>5. Pair = AttributeAt(string, a)
  BY <1>4 DEF Pair, AttributeAt, NameOf, ValOf
<1>6. /\ count' = IF listed THEN count + 1 ELSE count
      /\ pairs' = IF listed /\ count < call.room THEN Append(pairs, Pair) ELSE pairs
      /\ NextAttribute
  BY <1>4 DEF AttributeSplit
<1>7. /\ count = n /\ pairs = SubSeq(All, 1, IF call.room < n THEN call.room ELSE n)
      /\ call.room \in Nat /\ call.name = << >>
  <2>1. call.room \in Nat
    <3>1. call.room \in Rooms \cup {0}
      BY DEF TypeOK
    <3>2. \A r \in Rooms \cup {0} : r \in Nat
      BY StringsAssumption
    <3> QED BY <3>1, <3>2
  <2> QED BY <1>1, <1>2, <2>1 DEF Listed
<1>8. /\ n \in Nat /\ Before(b) \in Nat /\ b \in Nat
      /\ All \in Seq(PairType) /\ Len(All) \in Nat /\ Before(b) <= Len(All)
      /\ b > L => Before(b) = Len(All)
      /\ \/ ~listed /\ Before(b) = n
         \/ listed /\ Before(b) = n + 1 /\ All[n + 1] = AttributeAt(string, a)
  BY <1>2, NextIs
<1> HIDE DEF b, n, listed
<1>9. /\ count' = Before(b)
      /\ pairs' = SubSeq(All, 1, IF call.room < Before(b) THEN call.room ELSE Before(b))
  <2>1. CASE ~listed
    BY <1>6, <1>7, <1>8, <2>1
  <2>2. CASE listed
    <3>1. count' = n + 1 /\ pairs' = IF n < call.room THEN Append(pairs, All[n + 1]) ELSE pairs
      BY <1>5, <1>6, <1>7, <1>8, <2>2
    <3>2. n + 1 <= Len(All)
      BY <1>8, <2>2
    <3>3. pairs' = SubSeq(All, 1, IF call.room < n + 1 THEN call.room ELSE n + 1)
      BY <1>7, <1>8, <3>1, <3>2, OneMore
    <3> QED BY <1>8, <2>2, <3>1, <3>3
  <2> QED BY <2>1, <2>2
<1>10. CASE ~AtEnd /\ step' = "name"
  <2>1. Listed(Before(b))'
    <3>1. Before(b)' = Before(b) /\ All' = All
      BY <1>1 DEF Before, All, Rest, b, Stop
    <3> QED BY <1>1, <1>7, <1>9, <3>1 DEF Listed
  <2> QED BY <1>1, <1>2, <1>3, <1>10, <2>1, NextBegins DEF b
<1>11. CASE AtEnd /\ step' = "idle"
  <2>1. b > L
    <3>1. Stop(a) \in Nat /\ L \in Nat /\ pIn = L
      BY <1>11, AttributeIs, StringIsText
    <3> QED BY <1>3, <3>1 DEF ReadsAll, b
  <2>2. PairsOf(string') = All /\ Before(b) = Len(All)
    BY <1>1, <1>8, <2>1 DEF All
  <2>3. lastError' = IF count' <= call.room THEN "SUCCESS" ELSE "INSUFFICIENT_BUFFER"
    BY <1>1, <1>6, <1>11 DEF NextAttribute
  <2>4. SplitIsRight'
    BY <1>1, <1>9, <2>2, <2>3 DEF SplitIsRight
  <2> QED BY <1>1, <1>11, <2>4 DEF ListInv, ReadsAsListed
<1> QED BY <1>6, <1>10, <1>11 DEF NextAttribute

LEMMA NameSearchedKeepsList ==
  ASSUME TypeOK, TypeOK', Scanning, ListInv, NameSearched
  PROVE  ListInv'
<1>1. /\ step = "nameEnd" /\ Searches /\ out' = << >> /\ matched' = (out = call.name)
      /\ string' = string /\ call' = call /\ count' = count /\ pairs' = pairs
      /\ output' = output /\ pIn' = pIn /\ quoted' = quoted /\ quoted = FALSE
      /\ nameStart = 0 /\ call.op # "Split"
      /\ step' = IF HasValue THEN "value" ELSE "valueEnd"
  BY DEF NameSearched, Scanning, InPart, TypeOK, Searches
<1>2. PICK a \in 1 .. L : Begins(a) /\ RestIsLast(a) /\ Reading(a) /\ Listed(Before(a))
  BY <1>1 DEF ListInv
<1>3. /\ EndsWith(nameStart, NameOf(a))
      /\ HasValue => ValueFrom(a, pIn + 1)
      /\ ~HasValue => ReadsAll(a) /\ ValOf(a) = << >>
  BY <1>1, <1>2 DEF Reading
<1>4. /\ L \in Nat /\ L = Len(string) /\ L' = L /\ pIn \in Nat /\ NameOf(a) \in Text
      /\ Stop(a) \in Nat /\ Len(out') = 0 /\ a \in Nat /\ 1 <= a
  BY <1>1, StringIsText, AttributeIs DEF L
<1>5. /\ Stop(a)' = Stop(a) /\ NameOf(a)' = NameOf(a) /\ ValOf(a)' = ValOf(a)
      /\ AtEnd' = AtEnd /\ ValueOffset' = 0 /\ \A p, i : TextTo(p, i)' = TextTo(p, i)
  BY <1>1 DEF Stop, NameOf, ValOf, AtEnd, TextTo, ValueOffset
<1>6. out = NameOf(a)
  <2>1. EndsWith(0, NameOf(a))
    BY <1>1, <1>3
  <2> QED BY <1>4, <2>1, OutIsText
<1>7. NameIsKnown(a)'
  BY <1>1, <1>5, <1>6 DEF NameIsKnown
<1>8. CASE HasValue
  <2>1. step' = "value"
    BY <1>1, <1>8
  <2>2. PICK p \in Nat : p = pIn + 1
    BY <1>4
  <2>3. ValueFrom(a, p)
    BY <1>3, <1>8, <2>2
  <2>4. /\ p <= Stop(a) /\ (p <= L => ~Inside(string, p))
        /\ p \in 1 .. L + 1 /\ p \in 2 .. L + 1 /\ pIn' = p - 1
    BY <1>1, <1>4, <2>2, <2>3 DEF ValueFrom
  <2>5. \A e, s \in Nat : p <= e /\ Len(out') = s => Reads(p, e)' /\ EndsWith(s, TextTo(p, pIn))'
    BY <1>1, <2>4, PartBegins
  <2>6. Reads(p, Stop(a))' /\ EndsWith(0, TextTo(p, pIn))'
    <3>1. \A e \in Nat : p <= e => Reads(p, e)' /\ EndsWith(0, TextTo(p, pIn))'
      BY <1>4, <2>5
    <3> QED BY <1>4, <1>5, <2>4, <3>1 DEF Reads
  <2>7. ValueFrom(a, p)'
    BY <1>4, <1>1, <1>5, <2>3 DEF ValueFrom
  <2>8. EndsWith(ValueOffset, TextTo(p, pIn))'
    BY <1>5, <2>6 DEF EndsWith, At
  <2>9. Reading(a)'
    BY <1>1, <1>4, <1>7, <2>1, <2>4, <2>6, <2>7, <2>8 DEF Reading
  <2> QED BY <1>1, <1>2, <2>1, <2>9, StillListed
<1>9. CASE ~HasValue
  <2>1. step' = "valueEnd" /\ ReadsAll(a) /\ ValOf(a) = << >>
    BY <1>1, <1>3, <1>9
  <2>2. ReadsAll(a)'
    BY <1>1, <1>4, <1>5, <2>1 DEF ReadsAll
  <2>3. EndsWith(ValueOffset, ValOf(a))'
    <3>1. Len(<< >>) = 0 /\ 0 + 0 = 0 /\ 0 + 0 <= 0 /\ (\A k \in 1 .. 0 : FALSE)
      OBVIOUS
    <3> QED BY <1>1, <1>5, <2>1, <3>1 DEF EndsWith, At
  <2>4. Reading(a)'
    BY <1>7, <2>1, <2>2, <2>3 DEF Reading
  <2> QED BY <1>1, <1>2, <2>1, <2>4, StillListed
<1> QED BY <1>8, <1>9

\* When the name of the attribute is not the one that is looked for, no pair as
\* far as the attribute has it.
LEMMA NoneSoFar ==
  ASSUME TypeOK, NEW a, Begins(a), RestIsLast(a), Listed(Before(a)), call.op = "Find",
         NameOf(a) # call.name
  PROVE  Listed(Before(Stop(a) + 1))
<1> DEFINE b == Stop(a) + 1
<1>1. /\ Before(a) \in Nat /\ Before(b) \in Nat
      /\ \/ Before(b) = Before(a)
         \/ Before(b) = Before(a) + 1 /\ All[Before(b)] = AttributeAt(string, a)
  BY NextIs
<1>2. AttributeAt(string, a).name = NameOf(a)
  BY DEF AttributeAt, NameOf
<1>3. /\ call.name # << >> /\ output = << >>
      /\ \A k \in 1 .. Before(a) : All[k].name # call.name
  BY DEF Listed
<1> HIDE DEF b
<1>4. \A k \in 1 .. Before(b) : k \in 1 .. Before(a) \/ (k = Before(b) /\ Before(b) = Before(a) + 1)
  BY <1>1
<1>5. \A k \in 1 .. Before(b) : All[k].name # call.name
  <2> SUFFICES ASSUME NEW k \in 1 .. Before(b) PROVE All[k].name # call.name
    OBVIOUS
  <2>1. CASE k \in 1 .. Before(a)
    BY <1>3, <2>1
  <2>2. CASE k = Before(b) /\ Before(b) = Before(a) + 1
    <3>1. Before(b) # Before(a)
      BY <1>1, <2>2
    <3>2. All[k] = AttributeAt(string, a)
      BY <1>1, <2>2, <3>1
    <3> QED BY <1>2, <3>2
  <2> QED BY <1>4, <2>1, <2>2
<1> QED BY <1>3, <1>5 DEF Listed, b

LEMMA NotThisOneKeepsList ==
  ASSUME TypeOK, TypeOK', Scanning, ListInv, NotThisOne
  PROVE  ListInv'
<1>1. /\ step = "valueEnd" /\ Searches /\ ~matched /\ ~AtEnd /\ step' = "name" /\ out' = << >>
      /\ string' = string /\ call' = call /\ count' = count /\ pairs' = pairs
      /\ output' = output /\ pIn' = pIn /\ quoted' = quoted /\ quoted = FALSE
      /\ nameStart = 0 /\ nameStart' = 0 /\ call.op # "Split"
  BY DEF NotThisOne, unscanned, Scanning, InPart, TypeOK, Searches
<1>2. PICK a \in 1 .. L : Begins(a) /\ RestIsLast(a) /\ Reading(a) /\ Listed(Before(a))
  BY <1>1 DEF ListInv
<1>3. NameOf(a) # call.name /\ ReadsAll(a)
  BY <1>1, <1>2 DEF Reading, NameIsKnown
<1>4. Listed(Before(Stop(a) + 1))'
  <2>1. Listed(Before(Stop(a) + 1))
    <3>1. CASE call.op = "Find"
      BY <1>2, <1>3, <3>1, NoneSoFar
    <3>2. CASE call.op # "Find"
      BY <1>1, <3>2 DEF Listed
    <3> QED BY <3>1, <3>2
  <2>2. All' = All /\ Before(Stop(a) + 1)' = Before(Stop(a) + 1)
    BY <1>1 DEF All, Rest, Stop, Before
  <2> QED BY <1>1, <2>1, <2>2 DEF Listed
<1>5. Len(out') = nameStart'
  BY <1>1
<1> QED BY <1>1, <1>2, <1>3, <1>4, <1>5, NextBegins

LEMMA FoundLastKeepsList ==
  ASSUME TypeOK, TypeOK', Scanning, ListInv, FoundLast
  PROVE  ListInv'
<1>1. /\ step = "valueEnd" /\ matched /\ step' = "idle" /\ string' = string /\ call' = call
      /\ output' = output \o out /\ lastError' = "SUCCESS"
  BY DEF FoundLast
<1>2. CASE call.op # "Find"
  <2>1. call.op # "Split"
    <3>1. call.name = LINE
      BY <1>2 DEF FoundLast
    <3>2. \E n : Listed(n)
      BY <1>1 DEF ListInv
    <3> QED BY <3>1, <3>2 DEF Listed, LINE
  <2> QED BY <1>1, <1>2, <2>1 DEF ListInv, ReadsAsListed
<1>3. CASE call.op = "Find"
  <2>1. PICK a \in 1 .. L : Begins(a) /\ RestIsLast(a) /\ Reading(a) /\ Listed(Before(a))
    BY <1>1 DEF ListInv
  <2>2. NameOf(a) = call.name /\ EndsWith(0, ValOf(a)) /\ ValOf(a) \in Text
    BY <1>1, <1>3, <2>1, AttributeIs DEF Reading, NameIsKnown, ValueOffset
  <2>3. out = ValOf(a)
    BY <2>2, OutIsText
  <2>4. /\ call.name # << >> /\ output = << >>
        /\ \A k \in 1 .. Before(a) : All[k].name # call.name
    BY <1>3, <2>1 DEF Listed
  <2> DEFINE n == Before(Stop(a) + 1)
             S == Named(All, call.name)
  <2>5. /\ Before(a) \in Nat /\ n \in Nat /\ Len(All) \in Nat /\ n <= Len(All)
        /\ n = Before(a) + 1 /\ All[n] = AttributeAt(string, a)
    BY <2>1, <2>2, <2>4, NextIs
  <2>6. All[n].name = call.name /\ All[n].value = out
    BY <2>2, <2>3, <2>5 DEF AttributeAt, NameOf, ValOf
  <2>7. n \in S /\ \A k \in S : n <= k
    <3>1. \A k \in 1 .. Len(All) : k < n => k \in 1 .. Before(a)
      BY <2>5
    <3>2. n \in 1 .. Len(All) /\ \A k \in 1 .. Len(All) : ~(k < n) => n <= k
      BY <2>5
    <3> HIDE DEF n
    <3> QED BY <2>4, <2>6, <3>1, <3>2 DEF Named
  <2>8. First(S) = n
    <3>1. S \in SUBSET Nat
      <4>1. 1 .. Len(All) \subseteq Nat
        BY <2>5
      <4> QED BY <4>1 DEF Named
    <3> HIDE DEF S, n
    <3>2. First(S) \in S /\ \A i \in S : First(S) <= i
      BY <2>7, <3>1, FirstOf
    <3>3. First(S) <= n /\ n <= First(S) /\ First(S) \in Nat /\ n \in Nat
      BY <2>7, <3>1, <3>2
    <3> QED BY <3>3
  <2>9. ValueOf(All, call.name) = out
    BY <2>6, <2>8 DEF ValueOf
  <2>10. output' = out
    <3>1. out \in Seq(STRING \cup {Nul})
      BY StringIsText
    <3> QED BY <1>1, <2>4, <3>1, ConcatEmptySeq
  <2>11. FindIsRight'
    <3>1. PairsOf(string') = All /\ S # {}
      BY <1>1, <2>7 DEF All
    <3> QED BY <1>1, <2>9, <2>10, <3>1 DEF FindIsRight
  <2> QED BY <1>1, <1>3, <2>11 DEF ListInv, ReadsAsListed
<1> QED BY <1>2, <1>3

LEMMA FoundFileKeepsList ==
  ASSUME TypeOK, TypeOK', FoundFile
  PROVE  ListInv'
<1>1. call'.op = "EventName" /\ Search
  BY DEF FoundFile, TypeOK
<1>2. CASE string # << >> /\ Scan("name", "SUCCESS")
  <2>1. Listed(0)'
    BY <1>1 DEF Listed
  <2> QED BY <1>2, <2>1, ScanStarts
<1>3. CASE step' = "idle"
  BY <1>1, <1>3 DEF ListInv, ReadsAsListed
<1> QED BY <1>1, <1>2, <1>3 DEF Search, Scan

LEMMA NotFoundKeepsList ==
  ASSUME TypeOK, TypeOK', Scanning, ListInv, NotFound
  PROVE  ListInv'
<1>1. /\ step = "valueEnd" /\ Searches /\ ~matched /\ AtEnd /\ step' = "idle"
      /\ string' = string /\ call' = call /\ call.op # "Split"
      /\ call.op = "Find" => lastError' = "NOT_FOUND"
  BY DEF NotFound, Searches
<1>2. CASE call.op # "Find"
  BY <1>1, <1>2 DEF ListInv, ReadsAsListed
<1>3. CASE call.op = "Find"
  <2>1. PICK a \in 1 .. L : Begins(a) /\ RestIsLast(a) /\ Reading(a) /\ Listed(Before(a))
    BY <1>1 DEF ListInv
  <2>2. NameOf(a) # call.name /\ ReadsAll(a)
    BY <1>1, <2>1 DEF Reading, NameIsKnown
  <2>3. Listed(Before(Stop(a) + 1))
    BY <1>3, <2>1, <2>2, NoneSoFar
  <2>4. Stop(a) + 1 > L
    <3>1. Stop(a) \in Nat /\ L \in Nat /\ pIn = L
      BY <1>1, AttributeIs, StringIsText
    <3> QED BY <2>2, <3>1 DEF ReadsAll
  <2>5. Before(Stop(a) + 1) = Len(All)
    BY <2>1, <2>4, NextIs
  <2>6. Named(All, call.name) = {}
    BY <1>3, <2>3, <2>5 DEF Listed, Named
  <2>7. FindIsRight'
    BY <1>1, <1>3, <2>6 DEF FindIsRight, All
  <2> QED BY <1>1, <1>3, <2>7 DEF ListInv, ReadsAsListed
<1> QED BY <1>2, <1>3

LEMMA ListStep ==
  ASSUME IInv, IInv', ListInv, [Next]_attributeVars
  PROVE  ListInv'
<1>1. TypeOK /\ TypeOK' /\ Scanning
  BY DEF IInv
<1>2. CASE UNCHANGED attributeVars
  <2>1. /\ L' = L /\ All' = All /\ AtEnd' = AtEnd /\ HasValue' = HasValue
        /\ ValueOffset' = ValueOffset /\ ReadsAsListed' = ReadsAsListed
    BY <1>2 DEF attributeVars, L, All, AtEnd, HasValue, ValueOffset, ReadsAsListed, Returned,
                SplitIsRight, FindIsRight
  <2>2. \A a : /\ NameOf(a)' = NameOf(a) /\ ValOf(a)' = ValOf(a) /\ Stop(a)' = Stop(a)
               /\ Mid(a)' = Mid(a) /\ Rest(a)' = Rest(a)
    BY <1>2 DEF attributeVars, NameOf, ValOf, Stop, Mid, Rest
  <2>3. \A p, i : TextTo(p, i)' = TextTo(p, i)
    BY <1>2 DEF attributeVars, TextTo
  <2>4. \A a : Begins(a)' = Begins(a) /\ Before(a)' = Before(a)
    BY <1>2, <2>1, <2>2 DEF attributeVars, Begins, Before
  <2>5. \A a : RestIsLast(a)' = RestIsLast(a)
    BY <2>1, <2>2, <2>4 DEF RestIsLast
  <2>6. \A n : Listed(n)' = Listed(n)
    BY <1>2, <2>1 DEF attributeVars, Listed
  <2>7. \A a : NameIsKnown(a)' = NameIsKnown(a) /\ ReadsAll(a)' = ReadsAll(a)
    BY <1>2, <2>1, <2>2 DEF attributeVars, NameIsKnown, ReadsAll, AtNul, At
  <2>8. \A a, p : ValueFrom(a, p)' = ValueFrom(a, p) /\ Reads(p, Stop(a))' = Reads(p, Stop(a))
                 /\ Reads(a, Mid(a))' = Reads(a, Mid(a))
    BY <1>2, <2>1, <2>2, <2>3 DEF attributeVars, ValueFrom, Reads
  <2>9. \A a : Reading(a)' = Reading(a)
    BY <1>2, <2>1, <2>2, <2>3, <2>7, <2>8 DEF attributeVars, Reading, EndsWith, At, AtNul
  <2> QED BY <1>2, <2>1, <2>4, <2>5, <2>6, <2>9 DEF attributeVars, ListInv
<1> QED
  BY <1>1, <1>2, CallsKeepList, PartKeepsList, EndOfStringKeepsList, EndCharKeepsList,
     NameSplitKeepsList, ValueSplitKeepsList, AttributeSplitKeepsList, NameSearchedKeepsList,
     NotThisOneKeepsList, FoundLastKeepsList, FoundFileKeepsList, NotFoundKeepsList
     DEF Next

THEOREM ListInvariant == Spec => []ListInv
<1>1. Init => ListInv
  BY DEF Init, ListInv, ReadsAsListed, NoCall
<1>2. IInv /\ IInv' /\ ListInv /\ [Next]_attributeVars => ListInv'
  BY ListStep
<1> QED BY <1>1, <1>2, Invariant, PTL DEF Spec

\* SplitEventAttributes lists every pair of the string, and as many of them as
\* the caller's array has room for; FindEventAttribute finds the first that has
\* the name.  For every string of any length: quoted or not, with doubled
\* quotes, with quotes that are not closed.
THEOREM CallsReadAsListed == Spec => []ReadsAsListed
<1>1. ListInv => ReadsAsListed
  BY DEF ListInv, ReadsAsListed, Returned
<1> QED BY <1>1, ListInvariant, PTL
=============================================================================

---------------------- MODULE VisitUnderstandingProofs ----------------------
(***************************************************************************)
(* Proofs about VisitUnderstanding, for recordings of any length, every    *)
(* accepted plan and every taxonomy and catalogue: what the last words     *)
(* said of a name or a number come to, that an analysis is private, that   *)
(* notes and recommendations are grounded in the catalogue and in what was *)
(* discussed, that every mention counts, that scores move the way of their *)
(* signals, and that what the customer says is heard as hers.              *)
(*                                                                         *)
(* The order is: the live entities; the types of what the loops of         *)
(* VisitInsight compute; the stages, one lemma per conjunct of AnalysisInv *)
(* that they can disturb; coaching and notes; mentions, sorting and        *)
(* recommendations; scores; and the theorems.  Loops are recursive         *)
(* functions, which exist by SubsequencesProofs!Recursion, and what holds  *)
(* of every turn is shown by StepByStep: no first turn breaks it.          *)
(***************************************************************************)
EXTENDS VisitUnderstanding, SubsequencesProofs

(* Where the last word of a kind stands, and the first. *)
LEMMA LastOfFacts ==
  ASSUME NEW S, NEW text \in Seq(S), NEW kinds
  PROVE  /\ LastOf(text, kinds) \in 0..Len(text)
         /\ \A i \in 1..Len(text) : text[i] \in kinds => i <= LastOf(text, kinds)
         /\ LastOf(text, kinds) > 0 => text[LastOf(text, kinds)] \in kinds
<1>1. PICK n \in Nat : n = Len(text) /\ DOMAIN text = 1..n
  OBVIOUS
<1>2. PICK T : T = {0} \cup {i \in DOMAIN text : text[i] \in kinds}
  OBVIOUS
<1>3. T \subseteq 0..n /\ T # {} /\ LastOf(text, kinds) = Max(T)
  BY <1>1, <1>2 DEF LastOf
<1>4. Max(T) \in T /\ \A i \in T : i <= Max(T)
  BY <1>3, LargestIn
<1> QED
  BY <1>1, <1>2, <1>3, <1>4

(* Where the first word of a kind stands; after the end if there is none. *)
LEMMA FirstOfFacts ==
  ASSUME NEW S, NEW text \in Seq(S), NEW kinds
  PROVE  /\ FirstOf(text, kinds) \in 1..Len(text) + 1
         /\ \A i \in 1..Len(text) : text[i] \in kinds => FirstOf(text, kinds) <= i
         /\ FirstOf(text, kinds) <= Len(text) => text[FirstOf(text, kinds)] \in kinds
<1>1. PICK n \in Nat : n = Len(text) /\ DOMAIN text = 1..n
  OBVIOUS
<1>2. PICK T : T = {n + 1} \cup {i \in DOMAIN text : text[i] \in kinds}
  OBVIOUS
<1>3. T \subseteq Nat /\ T # {} /\ FirstOf(text, kinds) = Min(T)
  BY <1>1, <1>2 DEF FirstOf
<1>4. Min(T) \in T /\ \A i \in T : Min(T) <= i
  BY <1>3, SmallestIn
<1> QED
  BY <1>1, <1>2, <1>3, <1>4

(* What follows a position. *)
LEMMA RestFacts ==
  ASSUME NEW S, NEW text \in Seq(S), NEW i \in 0..Len(text)
  PROVE  /\ RestAfter(text, i) \in Seq(S)
         /\ Len(RestAfter(text, i)) = Len(text) - i
         /\ \A k \in 1..(Len(text) - i) : RestAfter(text, i)[k] = text[i + k]
         /\ ToSet(RestAfter(text, i)) \subseteq ToSet(text)
<1>1. PICK n \in Nat : n = Len(text)
  OBVIOUS
<1>2. RestAfter(text, i) = SubSeq(text, i + 1, n) /\ i + 1 \in Nat \ {0} /\ n \in Int
  BY <1>1 DEF RestAfter
<1>3. /\ SubSeq(text, i + 1, n) \in Seq(S)
      /\ Len(SubSeq(text, i + 1, n)) = IF i + 1 <= n THEN n - (i + 1) + 1 ELSE 0
      /\ \A k \in 1..Len(SubSeq(text, i + 1, n)) : SubSeq(text, i + 1, n)[k] = text[i + 1 + k - 1]
      /\ ToSet(SubSeq(text, i + 1, n)) \subseteq ToSet(text)
  BY <1>1, <1>2, SliceFacts
<1> QED
  BY <1>1, <1>2, <1>3

(* The beginning of a sequence, as Python slices it. *)
LEMMA UpToFacts ==
  ASSUME NEW S, NEW s \in Seq(S), NEW n \in Nat
  PROVE  /\ UpTo(s, n) \in Seq(S)
         /\ Len(UpTo(s, n)) = IF n < Len(s) THEN n ELSE Len(s)
         /\ ToSet(UpTo(s, n)) \subseteq ToSet(s)
<1>1. PICK m \in Nat : m = (IF n < Len(s) THEN n ELSE Len(s)) /\ m <= Len(s)
  OBVIOUS
<1>2. UpTo(s, n) = SubSeq(s, 1, m)
  BY <1>1 DEF UpTo
<1>3. /\ SubSeq(s, 1, m) \in Seq(S)
      /\ Len(SubSeq(s, 1, m)) = IF 1 <= m THEN m - 1 + 1 ELSE 0
      /\ ToSet(SubSeq(s, 1, m)) \subseteq ToSet(s)
  BY <1>1, SliceFacts
<1> QED
  BY <1>1, <1>2, <1>3

-----------------------------------------------------------------------------
(* A capitalised word before any number gives a name, and of those words. *)
LEMMA CuelessNamed ==
  ASSUME NEW S, NEW text \in Seq(S), NEW i \in 1..Len(text), text[i] \in Capital,
         \A k \in 1..i : text[k] # "number"
  PROVE  CuelessName(text) # NoName /\ ToSet(CuelessName(text)) \subseteq ToSet(text)
<1>1. PICK n \in Nat : n = Len(text)
  OBVIOUS
<1>2. PICK f : f = FirstOf(text, {"number"})
  OBVIOUS
<1>3. f \in 1..n + 1 /\ (f <= n => text[f] = "number")
  BY <1>1, <1>2, FirstOfFacts
<1>4. i < f
  BY <1>1, <1>3
<1>5. PICK region : region = SubSeq(text, 1, f - 1)
  OBVIOUS
<1>6. /\ region \in Seq(S) /\ Len(region) = f - 1 /\ \A k \in 1..f - 1 : region[k] = text[k]
      /\ ToSet(region) \subseteq ToSet(text)
  <2>1. f - 1 \in Int /\ 1 \in Nat \ {0} /\ f - 1 <= Len(text)
    BY <1>1, <1>3
  <2>2. /\ region \in Seq(S)
        /\ Len(region) = IF 1 <= f - 1 THEN f - 1 - 1 + 1 ELSE 0
        /\ \A k \in 1..Len(region) : region[k] = text[1 + k - 1]
        /\ ToSet(region) \subseteq ToSet(text)
    BY <1>5, <2>1, SliceFacts
  <2> QED
    BY <1>1, <1>3, <2>2
<1>7. PICK end : end = LastOf(region, Capital)
  OBVIOUS
<1>8. end \in 1..Len(region) /\ region[end] \in Capital
  <2>1. end \in 0..Len(region) /\ (end > 0 => region[end] \in Capital)
        /\ \A k \in 1..Len(region) : region[k] \in Capital => k <= end
    BY <1>6, <1>7, LastOfFacts
  <2>2. i \in 1..Len(region) /\ region[i] \in Capital
    BY <1>3, <1>4, <1>6
  <2> QED
    BY <2>1, <2>2
<1>9. PICK head : head = SubSeq(region, 1, end)
  OBVIOUS
<1>10. head \in Seq(S) /\ Len(head) = end /\ head[end] = region[end]
  <2>1. end \in Int /\ 1 \in Nat \ {0} /\ end <= Len(region)
    BY <1>6, <1>8
  <2>2. /\ head \in Seq(S)
        /\ Len(head) = IF 1 <= end THEN end - 1 + 1 ELSE 0
        /\ \A k \in 1..Len(head) : head[k] = region[1 + k - 1]
    BY <1>6, <1>9, <2>1, SliceFacts
  <2> QED
    BY <1>8, <2>2
<1>11. PICK start : start = LastOf(head, Word \ Capital)
  OBVIOUS
<1>12. start \in 0..end /\ start # end
  <2>1. start \in 0..Len(head) /\ (start > 0 => head[start] \in Word \ Capital)
    BY <1>10, <1>11, LastOfFacts
  <2> QED
    BY <1>8, <1>10, <2>1
<1>13. PICK run : run = SubSeq(region, start + 1, end)
  OBVIOUS
<1>14. run \in Seq(S) /\ Len(run) >= 1 /\ ToSet(run) \subseteq ToSet(region)
  <2>1. end \in Int /\ start + 1 \in Nat \ {0} /\ end <= Len(region)
    BY <1>6, <1>8, <1>12
  <2>2. /\ run \in Seq(S)
        /\ Len(run) = IF start + 1 <= end THEN end - (start + 1) + 1 ELSE 0
        /\ ToSet(run) \subseteq ToSet(region)
    BY <1>6, <1>13, <2>1, SliceFacts
  <2> QED
    BY <1>8, <1>12, <2>2
<1>15. CuelessName(text) = UpTo(run, 3)
  <2>1. end > 0
    BY <1>8
  <2> QED
    BY <1>2, <1>5, <1>7, <1>9, <1>11, <1>13, <2>1 DEF CuelessName
<1>16. /\ UpTo(run, 3) \in Seq(S) /\ Len(UpTo(run, 3)) >= 1
       /\ ToSet(UpTo(run, 3)) \subseteq ToSet(run)
  <2>1. /\ UpTo(run, 3) \in Seq(S)
        /\ Len(UpTo(run, 3)) = IF 3 < Len(run) THEN 3 ELSE Len(run)
        /\ ToSet(UpTo(run, 3)) \subseteq ToSet(run)
    BY <1>14, UpToFacts
  <2>2. PICK m \in Nat : m = Len(run) /\ m >= 1
    BY <1>14
  <2>3. PICK u : u = UpTo(run, 3)
    OBVIOUS
  <2>4. u \in Seq(S) /\ Len(u) = (IF 3 < m THEN 3 ELSE m) /\ ToSet(u) \subseteq ToSet(run)
    BY <2>1, <2>2, <2>3
  <2>5. Len(u) >= 1
    BY <2>2, <2>4
  <2> QED
    BY <2>3, <2>4, <2>5
<1>17. UpTo(run, 3) # NoName
  BY <1>16 DEF NoName
<1> QED
  BY <1>6, <1>14, <1>15, <1>16, <1>17

(* What a cue is followed by is taken from the words. *)
LEMMA CleanNameFrom ==
  ASSUME NEW S, NEW text \in Seq(S)
  PROVE  ToSet(CleanName(text)) \subseteq ToSet(text)
<1>1. PICK skips : skips = FirstOf(text, Word \ {"filler", "number"})
  OBVIOUS
<1>2. skips - 1 \in 0..Len(text)
  BY <1>1, FirstOfFacts
<1>3. PICK rest : rest = RestAfter(text, skips - 1)
  OBVIOUS
<1>4. rest \in Seq(S) /\ ToSet(rest) \subseteq ToSet(text)
  BY <1>2, <1>3, RestFacts
<1>5. PICK f : f = FirstOf(rest, Skipped) - 1
  OBVIOUS
<1>6. f \in Int /\ f <= Len(rest) /\ 1 \in Nat \ {0}
  BY <1>4, <1>5, FirstOfFacts
<1>7. PICK part : part = SubSeq(rest, 1, f)
  OBVIOUS
<1>8. part \in Seq(S) /\ ToSet(part) \subseteq ToSet(rest)
  BY <1>4, <1>6, <1>7, SliceFacts
<1>9. ToSet(UpTo(part, 4)) \subseteq ToSet(part)
  BY <1>8, UpToFacts
<1>10. CleanName(text) = UpTo(part, 4)
  BY <1>1, <1>3, <1>5, <1>7 DEF CleanName
<1> QED
  BY <1>4, <1>8, <1>9, <1>10

(* A name said plainly since the last cue or correction is the one taken. *)
LEMMA NameSaidLast ==
  ASSUME NEW S, NEW text \in Seq(S),
         NEW named, named = RestAfter(text, LastOf(text, {"cue", "correction"})),
         NEW i \in 1..Len(named), named[i] \in Capital, \A k \in 1..i : named[k] # "number"
  PROVE  ExtractName(text) # NoName /\ ToSet(ExtractName(text)) \subseteq ToSet(named)
<1>1. PICK at : at = LastOf(text, {"cue", "correction"})
  OBVIOUS
<1>2. at \in 0..Len(text) /\ named = RestAfter(text, at)
  BY <1>1, LastOfFacts
<1>3. named \in Seq(S) /\ (at = 0 => named = text)
  <2>1. RestAfter(text, at) \in Seq(S)
    BY <1>2, RestFacts
  <2>2. at = 0 => named = SubSeq(text, 1, Len(text))
    <3>1. at = 0 => at + 1 = 1
      OBVIOUS
    <3> QED
      BY <1>2, <3>1 DEF RestAfter
  <2> QED
    BY <1>2, <2>1, <2>2
<1>4. CuelessName(named) # NoName /\ ToSet(CuelessName(named)) \subseteq ToSet(named)
  BY <1>3, CuelessNamed
<1>5. ToSet(CleanName(named)) \subseteq ToSet(named)
  BY <1>3, CleanNameFrom
<1>6. CASE at = 0
  <2>1. ExtractName(text) = CuelessName(named)
    BY <1>1, <1>3, <1>6 DEF ExtractName
  <2> QED
    BY <1>4, <2>1
<1>7. CASE at # 0
  <2>1. ExtractName(text) \in {CleanName(named), CuelessName(named)} \ {NoName}
    BY <1>1, <1>2, <1>4, <1>7 DEF ExtractName
  <2> QED
    BY <1>4, <1>5, <2>1
<1> QED
  BY <1>6, <1>7

-----------------------------------------------------------------------------
(* Digits that could be a mobile number give the last such number. *)
LEMMA LastMobile ==
  ASSUME NEW S, NEW digits \in Seq(S), NEW numbers,
         numbers = {i \in 1..(Len(digits) - PhoneLength + 1) : digits[i] \in MobileStart},
         numbers # {}
  PROVE  /\ PickMobile(digits) # NoPhone
         /\ \E j \in numbers : /\ \A i \in numbers : i <= j
                               /\ PickMobile(digits) = SubSeq(digits, j, j + PhoneLength - 1)
<1>1. PICK n \in Nat : n = Len(digits)
  OBVIOUS
<1>2. PhoneLength \in Nat /\ PhoneLength >= 1
  BY EntitiesAssumption
<1>3. numbers \subseteq 0..n
  BY <1>1, <1>2
<1>4. PICK j : j = Max(numbers)
  OBVIOUS
<1>5. j \in numbers /\ \A i \in numbers : i <= j
  BY <1>3, <1>4, LargestIn
<1>6. PickMobile(digits) = SubSeq(digits, j, j + PhoneLength - 1)
  BY <1>4 DEF PickMobile
<1>7. SubSeq(digits, j, j + PhoneLength - 1) # NoPhone
  <2>1. j \in 1..(n - PhoneLength + 1)
    BY <1>1, <1>5
  <2>2. /\ j \in Nat \ {0} /\ j + PhoneLength - 1 \in Int /\ j + PhoneLength - 1 <= n
        /\ j <= j + PhoneLength - 1
    BY <1>2, <2>1
  <2>3. PICK b, q : b \in Int /\ b = j + PhoneLength - 1 /\ q = SubSeq(digits, j, b)
    BY <2>2
  <2>4. q \in Seq(S) /\ Len(q) = IF j <= b THEN b - j + 1 ELSE 0
    BY <1>1, <2>2, <2>3, SliceFacts
  <2>5. b - j + 1 = PhoneLength /\ j <= b
    BY <1>2, <2>1, <2>2, <2>3
  <2>6. Len(q) = PhoneLength
    BY <2>4, <2>5
  <2>7. q # <<>>
    BY <1>2, <2>6
  <2> QED
    BY <2>3, <2>7 DEF NoPhone
<1> QED
  BY <1>5, <1>6, <1>7

(* The words a name is taken from: those since the last cue or correction ... *)
Named(text) == RestAfter(text, LastOf(text, {"cue", "correction"}))
(* ... of those, the words before any number ... *)
Plain(text) == SubSeq(text, 1, FirstOf(text, {"number"} \cup Digit) - 1)
(* ... the digits since the last correction or mention of a number ... *)
Told(text) == DigitsOf(RestAfter(text, LastOf(text, {"correction", "number"})))
(* ... and where a mobile number may begin among digits. *)
Numbers(digits) == {i \in 1..(Len(digits) - PhoneLength + 1) : digits[i] \in MobileStart}

(* LastWordWins of a given transcript, name and number. *)
Wins(text, nm, ph) ==
  /\ ToSet(Plain(Named(text))) \cap Capital # {} => ToSet(nm) \subseteq ToSet(Named(text))
  /\ \A i \in Numbers(Told(text)) : \E j \in Numbers(Told(text)) :
       i <= j /\ ph = SubSeq(Told(text), j, j + PhoneLength - 1)

(* The property is Wins of the session. *)
LEMMA WinsIsLastWordWins ==
  /\ LastWordWins <=> Wins(transcript, name, phone)
  /\ LastWordWins' <=> Wins(transcript', name', phone')
BY DEF LastWordWins, Wins, Named, Plain, Told, Numbers, LastOf

(* Both are sequences of words. *)
LEMMA NamedAndTold ==
  ASSUME NEW text \in Seq(Word)
  PROVE  Named(text) \in Seq(Word) /\ Told(text) \in Seq(Word)
<1>1. \A kinds : LastOf(text, kinds) \in 0..Len(text)
  BY LastOfFacts
<1>2. PICK told : told = RestAfter(text, LastOf(text, {"correction", "number"}))
  OBVIOUS
<1>3. Named(text) \in Seq(Word) /\ told \in Seq(Word)
  BY <1>1, <1>2, RestFacts DEF Named
<1>4. DigitsOf(told) \in Seq(Word)
  BY <1>3, OnlyFacts DEF DigitsOf
<1> QED
  BY <1>2, <1>3, <1>4 DEF Told

(* Nothing was said yet, or nothing since a reconnection. *)
LEMMA NothingSaid == ASSUME NEW nm, NEW ph PROVE Wins(<<>>, nm, ph)
<1>1. PICK text \in Seq(Word) : text = <<>> /\ Len(text) = 0
  <2>1. <<>> \in Seq(Word) /\ Len(<<>>) = 0
    OBVIOUS
  <2> QED
    BY <2>1
<1>2. PICK V : V = Word
  OBVIOUS
<1>3. \A i \in 0..0 : RestAfter(text, i) = text
  BY <1>1 DEF RestAfter
<1>4. \A kinds : LastOf(text, kinds) \in 0..0
  <2>1. \A kinds : LastOf(text, kinds) \in 0..Len(text)
    BY LastOfFacts
  <2> QED
    BY <1>1, <2>1
<1>5. Named(text) = text /\ Told(text) = DigitsOf(text)
  BY <1>3, <1>4 DEF Named, Told
<1>6. ToSet(text) = {}
  BY <1>1 DEF ToSet
<1>7. ToSet(Plain(text)) = {}
  <2>1. PICK f : f = FirstOf(text, {"number"} \cup Digit)
    OBVIOUS
  <2>2. f \in 1..Len(text) + 1
    BY <2>1, FirstOfFacts
  <2>3. SubSeq(text, 1, f - 1) = text
    BY <1>1, <2>2
  <2> QED
    BY <1>6, <2>1, <2>3 DEF Plain
<1>8. PICK digits : digits = DigitsOf(text)
  OBVIOUS
<1>9. Numbers(digits) = {}
  <2>1. digits \in Seq(Word) /\ ToSet(digits) = ToSet(text) \cap Digit
    BY <1>8, OnlyFacts DEF DigitsOf
  <2>2. ToSet(digits) = {}
    BY <1>6, <2>1
  <2>3. Len(digits) = 0
    BY <2>1, <2>2 DEF ToSet
  <2> QED
    BY <2>3, EntitiesAssumption DEF Numbers
<1> QED
  BY <1>1, <1>5, <1>7, <1>8, <1>9 DEF Wins

(* A chunk is read with all that was said before. *)
LEMMA ChunkRead ==
  ASSUME NEW text \in Seq(Word), NEW nm, NEW ph,
         ExtractName(text) # NoName => nm = ExtractName(text),
         ExtractPhone(text) # NoPhone => ph = ExtractPhone(text)
  PROVE  Wins(text, nm, ph)
<1>1. ASSUME ToSet(Plain(Named(text))) \cap Capital # {}
      PROVE  ToSet(nm) \subseteq ToSet(Named(text))
  <2>1. PICK named \in Seq(Word) : named = Named(text)
    BY NamedAndTold
  <2>2. PICK n \in Nat : n = Len(named)
    OBVIOUS
  <2>3. PICK kinds : kinds = {"number"} \cup Digit
    OBVIOUS
  <2>4. PICK f : f = FirstOf(named, kinds)
    OBVIOUS
  <2>5. f \in 1..n + 1 /\ \A k \in 1..n : named[k] \in kinds => f <= k
    BY <2>2, <2>4, FirstOfFacts
  <2>6. PICK e \in 0..n : e = f - 1
    BY <2>5
  <2>7. PICK plain : plain = SubSeq(named, 1, e) /\ plain = Plain(named)
    BY <2>3, <2>4, <2>6 DEF Plain
  <2>8. plain \in Seq(Word) /\ Len(plain) = e /\ \A k \in 1..e : plain[k] = named[k]
    <3>1. e \in Int /\ e <= Len(named) /\ 1 \in Nat \ {0}
      BY <2>2, <2>6
    <3>2. /\ plain \in Seq(Word)
          /\ Len(plain) = IF 1 <= e THEN e - 1 + 1 ELSE 0
          /\ \A k \in 1..Len(plain) : plain[k] = named[1 + k - 1]
      BY <2>7, <3>1, SliceFacts
    <3>3. Len(plain) = e
      BY <2>6, <3>2
    <3>4. \A k \in 1..e : 1 + k - 1 = k
      BY <2>6
    <3> QED
      BY <3>2, <3>3, <3>4
  <2>9. PICK i \in 1..e : plain[i] \in Capital
    BY <1>1, <2>1, <2>7, <2>8 DEF ToSet
  <2>10. i \in 1..n /\ named[i] \in Capital
    BY <2>6, <2>8, <2>9
  <2>11. \A k \in 1..i : named[k] # "number"
    <3>1. \A k \in 1..i : k \in 1..n /\ ~(f <= k)
      BY <2>5, <2>6, <2>9
    <3> QED
      BY <2>3, <2>5, <3>1
  <2>12. ExtractName(text) # NoName /\ ToSet(ExtractName(text)) \subseteq ToSet(named)
    BY <2>1, <2>2, <2>10, <2>11, NameSaidLast DEF Named
  <2> QED
    BY <2>1, <2>12
<1>2. PICK digits, told : digits = DigitsOf(told) /\ digits = Told(text)
        /\ told = RestAfter(text, LastOf(text, {"correction", "number"}))
  BY DEF Told
<1>3. ASSUME Numbers(digits) # {}
      PROVE  \E j \in Numbers(digits) : /\ \A i \in Numbers(digits) : i <= j
               /\ ph = SubSeq(digits, j, j + PhoneLength - 1)
  <2>1. digits \in Seq(Word)
    BY <1>2, NamedAndTold
  <2>2. /\ PickMobile(digits) # NoPhone
        /\ \E j \in Numbers(digits) : /\ \A i \in Numbers(digits) : i <= j
             /\ PickMobile(digits) = SubSeq(digits, j, j + PhoneLength - 1)
    BY <1>3, <2>1, LastMobile DEF Numbers
  <2>3. ExtractPhone(text) = PickMobile(digits)
    BY <1>2, <2>2 DEF ExtractPhone
  <2> QED
    BY <2>2, <2>3
<1>4. \A i \in Numbers(digits) : \E j \in Numbers(digits) :
        i <= j /\ ph = SubSeq(digits, j, j + PhoneLength - 1)
  BY <1>3
<1> QED
  BY <1>1, <1>2, <1>4 DEF Wins

(* The session's name and number are of what was said last, whatever is    *)
(* said, in whatever chunks, and however often the stream reconnects.      *)
THEOREM CorrectionsHold == UnderstandingSpec => []LastWordWins
<1> DEFINE LastWordInv == transcript \in Seq(Word) /\ LastWordWins
<1>1. UnderstandingInit => LastWordInv
  BY NothingSaid, WinsIsLastWordWins DEF UnderstandingInit, StreamInit
<1>2. LastWordInv /\ [AnalysisMoves \/ TranscriptMoves]_understandingVars => LastWordInv'
  <2> SUFFICES ASSUME LastWordInv, [AnalysisMoves \/ TranscriptMoves]_understandingVars
               PROVE  LastWordInv'
    OBVIOUS
  <2>1. CASE UNCHANGED streamVars
    BY <2>1, WinsIsLastWordWins DEF streamVars
  <2>2. ASSUME NEW word \in Word, AddChunk(word) PROVE LastWordInv'
    <3>1. PICK text : text = Append(transcript, word)
      OBVIOUS
    <3>2. text \in Seq(Word)
      BY <3>1
    <3>3. /\ text = transcript'
          /\ ExtractName(text) # NoName => name' = ExtractName(text)
          /\ ExtractPhone(text) # NoPhone => phone' = ExtractPhone(text)
      BY <2>2, <3>1 DEF AddChunk
    <3>4. Wins(text, name', phone')
      BY <3>2, <3>3, ChunkRead
    <3> QED
      BY <3>2, <3>3, <3>4, WinsIsLastWordWins
  <2>3. CASE Reset
    BY <2>3, NothingSaid, WinsIsLastWordWins DEF Reset
  <2> QED
    BY <2>1, <2>2, <2>3 DEF AnalysisMoves, TranscriptMoves, StreamNext, understandingVars,
                            streamVars
<1>3. LastWordInv => LastWordWins
  OBVIOUS
<1> QED
  BY <1>1, <1>2, <1>3, PTL DEF UnderstandingSpec

-----------------------------------------------------------------------------
(* The turns and signals an analysis makes. *)

(* A line of a recording becomes a well-formed turn, with nothing normalised yet. *)
LEMMA HeardTurn ==
  ASSUME NEW line \in SpokenLine, NEW diarized \in BOOLEAN, NEW label \in Speaker
  PROVE  /\ Heard(line, diarized, label) \in Utterance
         /\ Heard(line, diarized, label).normPii = {}
<1>1. PICK sid \in STRING \cup {""} : sid = IF diarized THEN line.voice ELSE ""
  BY DEF SpokenLine
<1>2. {} \in SUBSET Identifier /\ "none" \in {"none", "same", "translated"}
  OBVIOUS
<1> QED
  BY <1>1, <1>2 DEF Heard, SpokenLine, Utterance

(* Relabelling a turn leaves what it says. *)
LEMMA Spoken ==
  ASSUME NEW u \in Utterance, NEW speaker \in Speaker
  PROVE  /\ [u EXCEPT !.speaker = speaker] \in Utterance
         /\ [u EXCEPT !.speaker = speaker].textPii = u.textPii
         /\ [u EXCEPT !.speaker = speaker].normPii = u.normPii
BY DEF Utterance

(* Normalising a turn leaves its text and gives it the normalised identifiers. *)
LEMMA Translated ==
  ASSUME NEW u \in Utterance, NEW norm \in {"none", "same", "translated"},
         NEW pii \in SUBSET Identifier
  PROVE  /\ [u EXCEPT !.norm = norm, !.normPii = pii] \in Utterance
         /\ [u EXCEPT !.norm = norm, !.normPii = pii].textPii = u.textPii
         /\ [u EXCEPT !.norm = norm, !.normPii = pii].normPii = pii
BY DEF Utterance

(* Redaction takes the same identifiers out of text and normalised text. *)
LEMMA Redacted ==
  ASSUME NEW u \in Utterance, NEW found
  PROVE  /\ [u EXCEPT !.textPii = @ \ found, !.normPii = @ \ found] \in Utterance
         /\ [u EXCEPT !.textPii = @ \ found, !.normPii = @ \ found].textPii = u.textPii \ found
         /\ [u EXCEPT !.textPii = @ \ found, !.normPii = @ \ found].normPii = u.normPii \ found
BY DEF Utterance

(* Hearing lines gives turns. *)
LEMMA HeardAll ==
  ASSUME NEW lines \in Seq(SpokenLine), NEW diarized \in BOOLEAN
  PROVE  Hear(lines, diarized) \in Seq(Utterance)
<1>1. "unknown" \in Speaker
  BY DEF Speaker
<1> QED
  BY <1>1, HeardTurn DEF Hear

(* Cleanup gives turns: a selection of those it had, relabelled. *)
LEMMA CleanedUp ==
  ASSUME NEW us \in Seq(Utterance), NEW best
  PROVE  Cleanup(us, best) \in Seq(Utterance)
<1>1. PICK clear : clear = NotNoise(us)
  OBVIOUS
<1>2. clear \in Seq(Utterance)
  BY <1>1, OnlyFacts DEF NotNoise
<1>3. PICK kept : kept = Only(clear, {u \in ToSet(clear) : SidOf(u) \in Kept(clear)})
  OBVIOUS
<1>4. kept \in Seq(Utterance)
  BY <1>2, <1>3, OnlyFacts
<1>5. PICK agent : agent = IF recording.print # "none" THEN best ELSE SidOf(kept[1])
  OBVIOUS
<1>6. \A u \in Utterance, is \in BOOLEAN :
        [u EXCEPT !.speaker = IF is THEN "agent" ELSE "customer"] \in Utterance
  <2>1. "agent" \in Speaker /\ "customer" \in Speaker
    BY DEF Speaker
  <2> QED
    BY <2>1, Spoken
<1>7. \A i \in DOMAIN kept :
        [kept[i] EXCEPT !.speaker = IF SidOf(kept[i]) = agent THEN "agent" ELSE "customer"]
          \in Utterance
  <2> SUFFICES ASSUME NEW i \in DOMAIN kept
               PROVE  [kept[i] EXCEPT !.speaker =
                         IF SidOf(kept[i]) = agent THEN "agent" ELSE "customer"] \in Utterance
    OBVIOUS
  <2>1. PICK u \in Utterance : u = kept[i]
    BY <1>4
  <2>2. PICK is \in BOOLEAN : is = (SidOf(u) = agent)
    OBVIOUS
  <2> QED
    BY <1>6, <2>1, <2>2
<1>8. Cleanup(us, best) = [i \in DOMAIN kept |->
        [kept[i] EXCEPT !.speaker = IF SidOf(kept[i]) = agent THEN "agent" ELSE "customer"]]
  BY <1>1, <1>3, <1>5 DEF Cleanup
<1> QED
  BY <1>4, <1>7, <1>8

(* The parts of an upload merge into lines of the recording. *)
LEMMA MergedLines ==
  ASSUME NEW parts \in Parts, recording.lines \in Seq(SpokenLine),
         recording.first \in 0..Len(recording.lines),
         recording.form \in {"whole", "wav files", "wav in pieces", "other files"}
  PROVE  Merged(parts) \in Seq(SpokenLine)
<1>1. PICK lines : lines = recording.lines
  OBVIOUS
<1>2. PICK first : first = recording.first
  OBVIOUS
<1>3. /\ lines \in Seq(SpokenLine)
      /\ SubSeq(lines, 1, first) \in Seq(SpokenLine)
      /\ SubSeq(lines, first + 1, Len(lines)) \in Seq(SpokenLine)
  BY <1>1, <1>2, PartOf
<1>4. parts \in Seq(SpokenLine)
  BY <1>1, <1>2, <1>3 DEF Parts
<1> QED
  BY <1>1, <1>2, <1>3, <1>4 DEF Merged

(* What a turn's signals are made of: the entries of the taxonomy that pass its gates. *)
Passing(u) == {t \in ToSet(Taxonomy) : IsSignal(u, t)}

Quote(us, i, t) ==
  [type |-> t.type, subtype |-> t.subtype, turn |-> i, words |-> Read(us[i]).words,
   pii |-> QuotePii(us[i])]

SignalsOf(us) == UNION {{Quote(us, i, t) : t \in Passing(us[i])} : i \in DOMAIN us}

(* What a turn passes is found in it. *)
LEMMA FoundFacts ==
  ASSUME NEW u
  PROVE  Found(u) \in Seq([type : DOMAIN ExpectedSpeaker, subtype : STRING])
         /\ ToSet(Found(u)) = Passing(u)
<1>1. PICK types : types = [type : DOMAIN ExpectedSpeaker, subtype : STRING]
  OBVIOUS
<1>2. PICK taxonomy \in Seq(types) : taxonomy = Taxonomy
  BY <1>1, TaxonomyAssumption
<1>3. PICK found, passing : found = Found(u) /\ passing = Passing(u)
  OBVIOUS
<1>4. found = Only(taxonomy, passing) /\ passing \subseteq ToSet(taxonomy)
  BY <1>2, <1>3 DEF Found, Passing
<1>5. /\ Only(taxonomy, passing) \in Seq(types)
      /\ ToSet(Only(taxonomy, passing)) = ToSet(taxonomy) \cap passing
  BY <1>2, OnlyFacts
<1> QED
  BY <1>1, <1>3, <1>4, <1>5

(* The extractor makes these signals and no other. *)
LEMMA SignalsMade ==
  ASSUME NEW us \in Seq(Utterance)
  PROVE  Signals(us) \in Seq(SignalsOf(us)) /\ ToSet(Signals(us)) = SignalsOf(us)
<1>1. PICK n \in Nat : n = Len(us) /\ DOMAIN us = 1..n
  OBVIOUS
<1> DEFINE Row(i) == [k \in DOMAIN Found(us[i]) |-> Quote(us, i, Found(us[i])[k])]
<1>2. PICK V : V = SignalsOf(us)
  OBVIOUS
<1>3. ASSUME NEW i \in 1..n
      PROVE  Row(i) \in Seq(V) /\ ToSet(Row(i)) = {Quote(us, i, t) : t \in Passing(us[i])}
  <2>1. PICK found : found = Found(us[i])
    OBVIOUS
  <2>2. PICK types : found \in Seq(types) /\ ToSet(found) = Passing(us[i])
    BY <2>1, FoundFacts
  <2>3. PICK m \in Nat : m = Len(found) /\ DOMAIN found = 1..m
    BY <2>2
  <2>4. PICK row : row = Row(i)
    OBVIOUS
  <2>5. row = [k \in 1..m |-> Quote(us, i, found[k])]
    BY <2>1, <2>3, <2>4
  <2>6. ASSUME NEW k \in 1..m PROVE row[k] \in V
    <3>1. found[k] \in Passing(us[i])
      BY <2>2, <2>3 DEF ToSet
    <3> QED
      BY <1>1, <1>2, <2>5, <3>1 DEF SignalsOf
  <2>7. row \in Seq(V)
    BY <2>5, <2>6
  <2>8. ToSet(row) = {Quote(us, i, t) : t \in Passing(us[i])}
    <3>1. Passing(us[i]) = {found[k] : k \in 1..m}
      BY <2>2, <2>3 DEF ToSet
    <3>2. DOMAIN row = 1..m
      BY <2>5
    <3>3. ToSet(row) = {row[k] : k \in 1..m}
      BY <3>2 DEF ToSet
    <3> QED
      BY <2>5, <3>1, <3>3
  <2> QED
    BY <2>4, <2>7, <2>8
<1>4. Signals(us) = FlattenSeq([i \in 1..n |-> Row(i)])
  BY <1>1 DEF Signals, Quote
<1> HIDE DEF Row
<1>5. PICK rows : rows = [i \in 1..n |-> Row(i)]
  OBVIOUS
<1>6. rows \in Seq(Seq(V)) /\ Len(rows) = n
  BY <1>3, <1>5
<1>7. PICK ss : ss = FlattenSeq(rows) /\ ss \in Seq(V)
  BY <1>6, FlattenFacts
<1>8. ToSet(ss) \subseteq V
  BY <1>7 DEF ToSet
<1>9. V \subseteq ToSet(ss)
  <2> SUFFICES ASSUME NEW sig \in V PROVE sig \in ToSet(ss)
    OBVIOUS
  <2>1. PICK i \in 1..n : sig \in {Quote(us, i, t) : t \in Passing(us[i])}
    BY <1>1, <1>2 DEF SignalsOf
  <2>2. sig \in ToSet(rows[i])
    BY <1>3, <1>5, <2>1
  <2>3. ToSet(rows[i]) \subseteq ToSet(FlattenSeq(rows))
    BY <1>6, FlattenHas
  <2> QED
    BY <1>7, <2>2, <2>3
<1> QED
  BY <1>2, <1>4, <1>5, <1>7, <1>8, <1>9

(* Such a signal is well-formed, quotes a text of a turn and is of a type              *)
(* that is accepted from who speaks in it.                                             *)
LEMMA SignalFacts ==
  ASSUME NEW us \in Seq(Utterance), NEW sig \in SignalsOf(us)
  PROVE  /\ sig \in Signal
         /\ \E i \in DOMAIN us : sig.pii \subseteq us[i].textPii \cup us[i].normPii
         /\ sig.turn \in DOMAIN us /\ us[sig.turn].speaker \in ExpectedSpeaker[sig.type]
<1>0. PICK i \in DOMAIN us : sig \in {Quote(us, i, t) : t \in Passing(us[i])}
  BY DEF SignalsOf
<1>1. PICK t \in Passing(us[i]) : sig = Quote(us, i, t)
  BY <1>0
<1>2. PICK types : types = [type : DOMAIN ExpectedSpeaker, subtype : STRING]
  OBVIOUS
<1>3. t \in types
  <2>1. PICK taxonomy \in Seq(types) : taxonomy = Taxonomy
    BY <1>2, TaxonomyAssumption
  <2>2. PICK k \in DOMAIN taxonomy : t = taxonomy[k]
    BY <1>1, <2>1 DEF ToSet, Passing
  <2> QED
    BY <2>1, <2>2
<1>4. DOMAIN ExpectedSpeaker = DOMAIN Weight
  BY DEF ExpectedSpeaker, Weight
<1>5. /\ Read(us[i]).words \in SUBSET STRING /\ QuotePii(us[i]) \in SUBSET Identifier
      /\ i \in Nat
  <2>1. PICK u \in Utterance : u = us[i]
    OBVIOUS
  <2>2. Read(u).words \in SUBSET STRING /\ QuotePii(u) \in SUBSET Identifier
    BY DEF Utterance, SpokenLine, Text, Read, QuotePii
  <2>3. i \in Nat
    OBVIOUS
  <2> QED
    BY <2>1, <2>2, <2>3
<1>6. t.type \in DOMAIN Weight /\ t.subtype \in STRING
  BY <1>2, <1>3, <1>4
<1>7. sig \in Signal
  BY <1>1, <1>5, <1>6 DEF Signal, Quote
<1>8. /\ sig.type = t.type /\ sig.turn = i
      /\ sig.pii \subseteq us[i].textPii \cup us[i].normPii
  BY <1>1 DEF Quote, QuotePii
<1>9. us[i].speaker \in ExpectedSpeaker[t.type]
  BY <1>1 DEF Passing, IsSignal
<1> QED
  BY <1>7, <1>8, <1>9

-----------------------------------------------------------------------------
(* Coaching. *)

(* The first n of different elements. *)
LEMMA TakeDifferent ==
  ASSUME NEW S, NEW s \in Seq(S), NEW n \in Nat, Different(s)
  PROVE  /\ Take(s, n) \in Seq(S) /\ Different(Take(s, n))
         /\ Len(Take(s, n)) = IF n < Len(s) THEN n ELSE Len(s)
<1>1. PICK m \in 0..Len(s) : m = IF n < Len(s) THEN n ELSE Len(s)
  OBVIOUS
<1>2. Take(s, n) = SubSeq(s, 1, m)
  BY <1>1 DEF Take
<1> QED
  BY <1>1, <1>2, SliceDifferent

(* What a tip can be: a text of the model's, or one of the program's own. *)
OwnTip == {"discovery", "budget", "sagging", "lock in", "close", "recap", "walk through",
           "next step", "hold the phone"}
(* What a tip can be: a text of the model's, or one of the program's own. *)
Tip == STRING \cup OwnTip

(* Different tips, as many as a page has room for. *)
Tips(tips, least) == tips \in Seq(Tip) /\ Different(tips) /\ Len(tips) \in least..3

(* Cut to what the page has room for. *)
LEMMA TipsTaken ==
  ASSUME NEW tips \in Seq(Tip), NEW least \in 0..3, Different(tips), Len(tips) >= least
  PROVE  Tips(Take(tips, 3), least)
<1>1. PICK n \in Nat : n = Len(tips)
  OBVIOUS
<1>2. PICK taken : taken = Take(tips, 3)
  OBVIOUS
<1>3. /\ taken \in Seq(Tip) /\ Different(taken)
      /\ Len(taken) = IF 3 < n THEN 3 ELSE n
  BY <1>1, <1>2, TakeDifferent
<1>4. Len(taken) \in least..3
  BY <1>1, <1>3
<1> QED
  BY <1>2, <1>3, <1>4 DEF Tips


(* The notes written without a model have two tips at least. *)
LEMMA FallbackTips ==
  ASSUME NEW wants, NEW objections, NEW products
  PROVE  Tips(FallbackCoaching(wants, objections, products), 2)
<1>1. OwnTips \in Seq(Tip) /\ Different(OwnTips)
  <2>1. \A x \in OwnTip : x \in Tip
    BY DEF Tip
  <2>2. "discovery" \in Tip /\ "budget" \in Tip /\ "sagging" \in Tip /\ "lock in" \in Tip
    BY <2>1 DEF OwnTip
  <2> QED
    BY <2>2, FourDifferent DEF OwnTips
<1>2. PICK kept : kept = Apt(wants, objections, products)
  OBVIOUS
<1>3. kept \subseteq {"discovery", "budget", "sagging", "lock in"}
  BY <1>2 DEF Apt
<1>4. PICK some : some = Only(OwnTips, kept)
  OBVIOUS
<1>5. some \in Seq(Tip) /\ Different(some) /\ ToSet(some) \subseteq kept
  BY <1>1, <1>4, OnlyFacts, OnlyDifferent
<1>6. PICK tips : tips = Append(some, "close")
  OBVIOUS
<1>7. tips \in Seq(Tip) /\ Different(tips) /\ ToSet(tips) \subseteq kept \cup {"close"}
      /\ Len(tips) >= 1
  <2>1. "close" \notin ToSet(some) /\ "close" \in Tip
    <3>1. "close" \in Tip
      BY DEF Tip, OwnTip
    <3>2. "close" \notin {"discovery", "budget", "sagging", "lock in"}
      OBVIOUS
    <3> QED
      BY <1>3, <1>5, <3>1, <3>2
  <2>2. Len(tips) >= 1
    BY <1>5, <1>6
  <2> QED
    BY <1>5, <1>6, <2>1, <2>2, AppendDifferent
<1>8. CASE Len(tips) >= 2
  <2>1. FallbackCoaching(wants, objections, products) = Take(tips, 3)
    BY <1>2, <1>4, <1>6, <1>8 DEF FallbackCoaching
  <2> QED
    BY <1>7, <1>8, <2>1, TipsTaken
<1>9. CASE ~(Len(tips) >= 2)
  <2>1. PICK more : more = Append(tips, "recap")
    OBVIOUS
  <2>2. "recap" \notin ToSet(tips) /\ "recap" \in Tip
    <3>1. "recap" \in Tip
      BY DEF Tip, OwnTip
    <3>2. "recap" \notin {"discovery", "budget", "sagging", "lock in"} \cup {"close"}
      OBVIOUS
    <3> QED
      BY <1>3, <1>7, <3>1, <3>2
  <2>3. more \in Seq(Tip) /\ Different(more)
    BY <1>7, <2>1, <2>2, AppendDifferent
  <2>4. Len(more) >= 2
    BY <1>7, <2>1
  <2>5. FallbackCoaching(wants, objections, products) = Take(more, 3)
    BY <1>2, <1>4, <1>6, <1>9, <2>1 DEF FallbackCoaching
  <2> QED
    BY <2>3, <2>4, <2>5, TipsTaken
<1> QED
  BY <1>8, <1>9

(* The notes of a visit without substance have three. *)
LEMMA EmptyTips == Tips(EmptyInsight.coaching, 3)
<1>1. EmptyInsight.coaching = <<"discovery", "walk through", "next step">>
  BY DEF EmptyInsight, Notes
<1>2. "discovery" \in Tip /\ "walk through" \in Tip /\ "next step" \in Tip
  BY DEF Tip, OwnTip
<1>3. PICK s : s = <<"discovery", "walk through", "next step">>
  OBVIOUS
<1>4. s \in Seq(Tip) /\ Different(s) /\ Len(s) = 3
  BY <1>2, <1>3, ThreeDifferent
<1>5. Len(s) \in 3..3
  BY <1>4
<1> QED
  BY <1>1, <1>3, <1>4, <1>5 DEF Tips

(* Whichever of them is written. *)
LEMMA FallbackFieldsTips ==
  ASSUME NEW ss, NEW discussed
  PROVE  Tips(FallbackFields(ss, discussed).coaching, 2)
<1>1. CASE ~HasSubstance(ss, discussed)
  <2>1. FallbackFields(ss, discussed) = EmptyInsight
    BY <1>1 DEF FallbackFields
  <2> QED
    BY <2>1, EmptyTips DEF Tips
<1>2. CASE HasSubstance(ss, discussed)
  <2>1. PICK wants : wants = Labels(ss, WantLabels)
    OBVIOUS
  <2>2. PICK objections : objections = Labels(ss, ObjectionLabels)
    OBVIOUS
  <2>3. PICK products : products =
          RankProducts(ss, discussed,
            IF discussed = <<>> THEN 2 ELSE IF Len(discussed) < 3 THEN Len(discussed) ELSE 3)
    OBVIOUS
  <2>4. FallbackFields(ss, discussed).coaching = FallbackCoaching(wants, objections, products)
    BY <1>2, <2>1, <2>2, <2>3 DEF FallbackFields, Notes
  <2> QED
    BY <2>4, FallbackTips
<1> QED
  BY <1>1, <1>2

(* What the model leaves thin is filled to two tips from others of the program's. *)
LEMMA FilledTips ==
  ASSUME NEW tips, NEW own, Tips(tips, 0), Tips(own, 2), ~(Len(tips) >= 2)
  PROVE  Tips(tips \o Take(Only(own, ToSet(own) \ ToSet(tips)), 2 - Len(tips)), 2)
<1>0. /\ tips \in Seq(Tip) /\ Different(tips) /\ Len(tips) \in 0..3
      /\ own \in Seq(Tip) /\ Different(own) /\ Len(own) \in 2..3
  BY DEF Tips
<1>1. PICK n \in 0..1 : n = Len(tips) /\ DOMAIN tips = 1..n
  <2>1. PICK n \in Nat : n = Len(tips) /\ DOMAIN tips = 1..n
    BY <1>0
  <2>2. n \in 0..1
    BY <2>1
  <2> QED
    BY <2>1, <2>2
<1>2. PICK more : more = Only(own, ToSet(own) \ ToSet(tips))
  OBVIOUS
<1>3. /\ more \in Seq(Tip) /\ Different(more)
      /\ ToSet(more) = ToSet(own) \ ToSet(tips)
  BY <1>2, OnlyFacts, OnlyDifferent DEF Tips
<1>4. PICK k \in 1..2 : k = 2 - n
  BY <1>1
<1>5. PICK a, b : a \in ToSet(own) /\ b \in ToSet(own) /\ a # b
  <2>1. own[1] \in ToSet(own) /\ own[2] \in ToSet(own) /\ own[1] # own[2]
    BY DEF Tips, Different, ToSet
  <2> QED
    BY <2>1
<1>6. Len(more) >= k
  <2>1. CASE n = 0
    <3>1. ToSet(tips) = {}
      BY <1>1, <2>1 DEF ToSet
    <3> QED
      BY <1>3, <1>4, <1>5, <2>1, <3>1, TwoDifferent
  <2>2. CASE n = 1
    <3>1. a \in ToSet(more) \/ b \in ToSet(more)
      <4>1. ToSet(tips) = {tips[1]}
        BY <1>1, <2>2 DEF ToSet
      <4> QED
        BY <1>3, <1>5, <4>1
    <3>2. Len(more) # 0
      BY <1>3, <3>1 DEF ToSet
    <3> QED
      BY <1>3, <1>4, <2>2, <3>2
  <2> QED
    BY <2>1, <2>2
<1>7. PICK added : added = Take(more, k)
  OBVIOUS
<1>8. added = SubSeq(more, 1, k)
  BY <1>3, <1>6, <1>7 DEF Take
<1>9. k \in 0..Len(more)
  BY <1>3, <1>6
<1>10. added \in Seq(Tip) /\ Different(added) /\ Len(added) = k
       /\ ToSet(added) \subseteq ToSet(more)
  BY <1>3, <1>8, <1>9, SliceDifferent
<1>11. /\ tips \o added \in Seq(Tip) /\ Different(tips \o added)
       /\ Len(tips \o added) = Len(tips) + Len(added)
  BY <1>3, <1>10, JoinDifferent DEF Tips
<1>12. Len(tips \o added) = 2
  BY <1>1, <1>4, <1>10, <1>11
<1>13. tips \o Take(Only(own, ToSet(own) \ ToSet(tips)), 2 - Len(tips)) = tips \o added
  BY <1>1, <1>2, <1>4, <1>7
<1>14. Len(tips \o added) \in 2..3
  BY <1>12
<1> QED
  BY <1>11, <1>13, <1>14 DEF Tips

(* The notes made from a model's answer have a tip at least, and two if the visit has *)
(* substance, whatever the model answered.                                            *)
LEMMA ApplyTips ==
  ASSUME NEW answer \in Answer, NEW ss, NEW discussed
  PROVE  /\ Tips(Apply(answer, ss, discussed).coaching, 1)
         /\ HasSubstance(ss, discussed) => Tips(Apply(answer, ss, discussed).coaching, 2)
<1>1. PICK all : all = Distinct(answer.coaching)
  OBVIOUS
<1>2. all \in Seq(Tip) /\ Different(all)
  <2>1. \A s \in Seq(STRING) : s \in Seq(Tip)
    <3>1. STRING \subseteq Tip
      BY DEF Tip
    <3> QED
      BY <3>1, SeqWider
  <2>2. PICK c \in Seq(Tip) : c = answer.coaching
    BY <2>1, AnswerAssumption
  <2> QED
    BY <1>1, <2>2, DistinctFacts
<1>3. PICK tips : tips = Take(all, 3)
  OBVIOUS
<1>4. Tips(tips, 0)
  <2>1. Len(all) >= 0
    BY <1>2
  <2> QED
    BY <1>2, <1>3, <2>1, TipsTaken
<1>5. PICK own : own = FallbackFields(ss, discussed).coaching
  OBVIOUS
<1>6. Tips(own, 2)
  BY <1>5, FallbackFieldsTips
<1>7. CASE ~HasSubstance(ss, discussed) /\ CleanProducts(answer.products) = <<>>
  <2>1. PICK filled : filled = Or(tips, EmptyInsight.coaching)
    OBVIOUS
  <2>2. filled \in Seq(Tip) /\ Different(filled) /\ Len(filled) >= 1
    <3>1. CASE tips = <<>>
      <4>1. filled = EmptyInsight.coaching
        BY <2>1, <3>1 DEF Or
      <4>2. Tips(filled, 3)
        BY <4>1, EmptyTips
      <4>3. Len(filled) \in 3..3
        BY <4>2 DEF Tips
      <4>4. Len(filled) >= 1
        BY <4>3
      <4> QED
        BY <4>2, <4>4 DEF Tips
    <3>2. CASE tips # <<>>
      <4>1. filled = tips
        BY <2>1, <3>2 DEF Or
      <4>2. tips \in Seq(Tip) /\ Different(tips)
        BY <1>4 DEF Tips
      <4>3. Len(tips) >= 1
        BY <3>2, <4>2, NotEmpty
      <4> QED
        BY <4>1, <4>2, <4>3
    <3> QED
      BY <3>1, <3>2
  <2>3. Apply(answer, ss, discussed).coaching = Take(filled, 3)
    BY <1>1, <1>3, <1>7, <2>1 DEF Apply, EmptyInsight, Notes
  <2>4. Tips(Take(filled, 3), 1)
    BY <2>2, TipsTaken
  <2> QED
    BY <1>7, <2>3, <2>4
<1>8. CASE ~(~HasSubstance(ss, discussed) /\ CleanProducts(answer.products) = <<>>)
  <2>0. Apply(answer, ss, discussed).coaching =
             IF Len(tips) >= 2 THEN tips
             ELSE tips \o Take(Only(own, ToSet(own) \ ToSet(tips)), 2 - Len(tips))
    BY <1>1, <1>3, <1>5, <1>8 DEF Apply, Notes
  <2>1. Tips(Apply(answer, ss, discussed).coaching, 2)
    <3>1. CASE Len(tips) >= 2
      BY <1>4, <2>0, <3>1 DEF Tips
    <3>2. CASE ~(Len(tips) >= 2)
      BY <1>4, <1>6, <2>0, <3>2, FilledTips
    <3> QED
      BY <3>1, <3>2
  <2> QED
    BY <2>1 DEF Tips
<1> QED
  BY <1>7, <1>8

-----------------------------------------------------------------------------
(* The order of an accepted plan. *)

(* In a plan the registry accepts, a stage of the privacy order has the earlier ones *)
(* before it.                                                                        *)
LEMMA InOrder ==
  ASSUME NEW p, Accepted(p), NEW a \in 1..5, NEW b \in 1..5, a < b,
         NEW k \in DOMAIN p, p[k][1] = PrivacyOrder[b]
  PROVE  /\ \E l \in DOMAIN p : l < k /\ p[l][1] = PrivacyOrder[a]
         /\ \A l \in DOMAIN p : p[l][1] = PrivacyOrder[a] => l < k
<1>1. DOMAIN PrivacyOrder = 1..5
  BY DEF PrivacyOrder
<1>2. /\ \A i, j \in DOMAIN p : p[i][1] = p[j][1] => i = j
      /\ \A r \in ToSet(PrivacyOrder) : \E i \in DOMAIN p : p[i][1] = r
      /\ \A i, j \in 1..5 : i < j => Position(p, PrivacyOrder[i]) < Position(p, PrivacyOrder[j])
  BY <1>1 DEF Accepted
<1>3. \A i \in DOMAIN p : Position(p, p[i][1]) = i
  BY <1>2 DEF Position
<1>4. PICK l \in DOMAIN p : p[l][1] = PrivacyOrder[a]
  BY <1>1, <1>2 DEF ToSet
<1>5. l < k
  <2>1. Position(p, PrivacyOrder[a]) = l /\ Position(p, PrivacyOrder[b]) = k
    BY <1>3, <1>4
  <2> QED
    BY <1>2, <2>1
<1> QED
  BY <1>2, <1>4, <1>5

(* The privacy order, written out. *)
LEMMA PrivacyOrderIs ==
  /\ PrivacyOrder[1] = "asr" /\ PrivacyOrder[2] = "pii_redaction"
  /\ PrivacyOrder[3] = "audio_deletion" /\ PrivacyOrder[4] = "signal_extraction"
  /\ PrivacyOrder[5] = "summarization" /\ DOMAIN PrivacyOrder = 1..5
BY DEF PrivacyOrder

(* The plan of an analysis at work, and how far it is. *)
LEMMA PlanIs ==
  ASSUME AnalysisTypeOK
  PROVE  /\ \E n \in Nat : n = Len(plan) /\ DOMAIN plan = 1..n /\ done \in 0..n
         /\ Stored => done = Len(plan)
         /\ Started => Accepted(plan)
<1>1. PICK S : S = STRING \X STRING
  OBVIOUS
<1>2. plan \in Seq(S) /\ done \in 0..Len(plan)
  BY <1>1 DEF AnalysisTypeOK
<1>3. (Stored => done = Len(plan)) /\ (Started => Accepted(plan))
  BY DEF AnalysisTypeOK
<1>4. \E n \in Nat : n = Len(plan) /\ DOMAIN plan = 1..n /\ done \in 0..n
  BY <1>2
<1> QED
  BY <1>3, <1>4

(* When a stage of the privacy order runs, the earlier ones ran and the later ones *)
(* did not.                                                                        *)
LEMMA RanBefore ==
  ASSUME AnalysisTypeOK, NEW impls, NEW b \in 1..5, Runs(PrivacyOrder[b], impls)
  PROVE  \A a \in 1..5 : /\ a < b => Ran(PrivacyOrder[a])
                         /\ b <= a => ~Ran(PrivacyOrder[a])
<1>1. PICK n \in Nat : n = Len(plan) /\ DOMAIN plan = 1..n /\ done \in 0..n
  BY PlanIs
<1>2. PICK k \in 1..n : k = done + 1 /\ plan[k][1] = PrivacyOrder[b] /\ done \in 0..n
  <2>1. done \in 0..n /\ done < n /\ plan[done + 1][1] = PrivacyOrder[b]
    BY <1>1 DEF Runs
  <2>2. done + 1 \in 1..n
    BY <2>1
  <2> QED
    BY <2>1, <2>2
<1>3. Accepted(plan)
  BY PlanIs DEF Runs, Started
<1>4. \A x : Ran(x) <=> \E l \in 1..n : l < k /\ plan[l][1] = x
  <2>1. \A l : l \in 1..done <=> l \in 1..n /\ l < k
    BY <1>2
  <2> QED
    BY <2>1 DEF Ran, Role
<1>5. ASSUME NEW a \in 1..5, a < b PROVE Ran(PrivacyOrder[a])
  <2>1. \E l \in DOMAIN plan : l < k /\ plan[l][1] = PrivacyOrder[a]
    <3>1. k \in DOMAIN plan /\ plan[k][1] = PrivacyOrder[b]
      BY <1>1, <1>2
    <3> QED
      BY <1>3, <1>5, <3>1, InOrder
  <2> QED
    BY <1>1, <1>4, <2>1
<1>6. ASSUME NEW a \in 1..5, b <= a PROVE ~Ran(PrivacyOrder[a])
  <2> SUFFICES ASSUME NEW l \in 1..n, l < k, plan[l][1] = PrivacyOrder[a] PROVE FALSE
    BY <1>4
  <2>1. CASE a = b
    <3>1. \A i, j \in DOMAIN plan : plan[i][1] = plan[j][1] => i = j
      BY <1>3 DEF Accepted
    <3> QED
      BY <1>1, <1>2, <2>1, <3>1
  <2>2. CASE b < a
    <3>1. k < l
      BY <1>1, <1>2, <1>3, <2>2, InOrder
    <3> QED
      BY <1>2, <3>1
  <2> QED
    BY <1>6, <2>1, <2>2
<1> QED
  BY <1>5, <1>6

(* A stage that runs is the only new one that ran. *)
LEMMA RanNext ==
  ASSUME AnalysisTypeOK, NEW role, NEW impls, Runs(role, impls), UNCHANGED plan
  PROVE  \A x : Ran(x)' <=> Ran(x) \/ x = role
<1>1. PICK n \in Nat : n = Len(plan) /\ done \in 0..n
  BY PlanIs
<1>2. plan[done + 1][1] = role /\ done' = done + 1
  BY DEF Runs
<1>3. \A l : l \in 1..(done + 1) <=> l \in 1..done \/ l = done + 1
  BY <1>1
<1> QED
  BY <1>2, <1>3 DEF Ran, Role

(* When the insight is stored every stage of the privacy order ran. *)
LEMMA AllRan ==
  ASSUME AnalysisTypeOK, Stored, NEW a \in 1..5
  PROVE  Ran(PrivacyOrder[a])
<1>1. PICK n \in Nat : n = Len(plan) /\ DOMAIN plan = 1..n /\ done = n
  BY PlanIs
<1>2. Accepted(plan)
  BY PlanIs DEF Stored, Started
<1>3. \E l \in DOMAIN plan : plan[l][1] = PrivacyOrder[a]
  BY <1>2, PrivacyOrderIs DEF Accepted, ToSet
<1> QED
  BY <1>1, <1>3 DEF Ran, Role

-----------------------------------------------------------------------------
(* The inductive invariant. *)

(* One stage further. *)
LEMMA Advance == ASSUME NEW n \in Nat, NEW d \in 0..n, d < n PROVE d + 1 \in 0..n
OBVIOUS

(* A stage that leaves turns and signals of the right types. *)
LEMMA StageTyped ==
  ASSUME AnalysisTypeOK, NEW role, NEW impls, Runs(role, impls), UNCHANGED <<plan, recording>>,
         phase' \in {"running", "failed"}, identified' \in BOOLEAN,
         utts' \in Seq(Utterance), sigs' \in Seq(Signal)
  PROVE  AnalysisTypeOK'
<1>1. done' \in 0..Len(plan)
  <2>1. PICK n \in Nat : n = Len(plan) /\ done \in 0..n
    BY PlanIs
  <2>2. done' = done + 1 /\ done < n
    BY <2>1 DEF Runs
  <2>3. done + 1 \in 0..n
    BY <2>1, <2>2, Advance
  <2> QED
    BY <2>1, <2>2, <2>3
<1>2. /\ phase' \in {"loading", "refused", "running", "failed", "stored", "advised"}
      /\ ~Stored' /\ Accepted(plan)
  BY PlanIs DEF Runs, Started, Stored
<1>3. /\ plan' \in Seq(STRING \X STRING) /\ done' \in 0..Len(plan')
      /\ recording'.lines \in Seq(SpokenLine) /\ recording'.first \in 0..Len(recording'.lines)
      /\ recording'.form \in {"whole", "wav files", "wav in pieces", "other files"}
      /\ recording'.named \in BOOLEAN
  BY <1>1 DEF AnalysisTypeOK
<1>4. (IF Started' THEN Accepted(plan') ELSE done' = 0) /\ (Stored' => done' = Len(plan'))
  <2>1. Started' /\ Accepted(plan')
    BY <1>2 DEF Started
  <2> QED
    BY <1>2, <2>1
<1> QED
  BY <1>2, <1>3, <1>4 DEF AnalysisTypeOK

(* Turns changed one by one are turns. *)
LEMMA TurnsOf ==
  ASSUME NEW us \in Seq(Utterance), NEW vs, vs = [i \in DOMAIN us |-> vs[i]],
         \A i \in DOMAIN us : vs[i] \in Utterance
  PROVE  vs \in Seq(Utterance) /\ DOMAIN vs = DOMAIN us
<1>1. PICK n \in Nat : DOMAIN us = 1..n
  OBVIOUS
<1> QED
  BY <1>1

(* Diarization changes who is said to speak and nothing that is said. *)
LEMMA Relabelled ==
  ASSUME utts \in Seq(Utterance), DiarizeStub \/ DiarizePassthrough
  PROVE  /\ utts' \in Seq(Utterance) /\ DOMAIN utts' = DOMAIN utts
         /\ \A i \in DOMAIN utts : /\ utts'[i].textPii = utts[i].textPii
                                   /\ utts'[i].normPii = utts[i].normPii
<1>1. /\ utts' = [i \in DOMAIN utts |-> utts'[i]]
      /\ \A i \in DOMAIN utts :
           utts'[i] = utts[i] \/ \E speaker \in Speaker : utts'[i] = Label(i, speaker)
  <2>1. "agent" \in Speaker /\ "customer" \in Speaker
    BY DEF Speaker
  <2>2. \A i \in DOMAIN utts : Alternate(i) \in Speaker
    <3> SUFFICES ASSUME NEW i \in DOMAIN utts PROVE Alternate(i) \in Speaker
      OBVIOUS
    <3>1. PICK known : known = {j \in 1..(i - 1) : utts[j].speaker # "unknown"}
      OBVIOUS
    <3>2. PICK from : from = IF known = {} THEN 0 ELSE Max(known)
      OBVIOUS
    <3>3. PICK before : before = IF known = {} THEN "customer" ELSE utts[from].speaker
      OBVIOUS
    <3>4. known # {} => from \in DOMAIN utts
      <4> SUFFICES ASSUME known # {} PROVE from \in DOMAIN utts
        OBVIOUS
      <4>1. PICK n \in Nat : DOMAIN utts = 1..n
        OBVIOUS
      <4>2. known \subseteq 1..n /\ known \subseteq 0..n
        BY <3>1, <4>1
      <4>3. Max(known) \in known
        BY <4>2, LargestIn
      <4> QED
        BY <3>2, <4>1, <4>2, <4>3
    <3>5. before \in Speaker
      <4>1. \A j \in DOMAIN utts : utts[j].speaker \in Speaker
        <5>1. \A u \in Utterance : u.speaker \in Speaker
          BY DEF Utterance
        <5> QED
          BY <5>1
      <4> QED
        BY <2>1, <3>3, <3>4, <4>1
    <3> QED
      BY <2>1, <3>1, <3>2, <3>3, <3>5 DEF Alternate
  <2>3. CASE DiarizeStub
    BY <2>1, <2>2, <2>3 DEF DiarizeStub
  <2>4. CASE DiarizePassthrough
    BY <2>1, <2>4 DEF DiarizePassthrough
  <2> QED
    BY <2>3, <2>4
<1>2. ASSUME NEW i \in DOMAIN utts
      PROVE  /\ utts'[i] \in Utterance /\ utts'[i].textPii = utts[i].textPii
             /\ utts'[i].normPii = utts[i].normPii
  <2>1. PICK u \in Utterance : u = utts[i]
    OBVIOUS
  <2>2. PICK v : v = utts'[i]
    OBVIOUS
  <2>3. v = u \/ \E speaker \in Speaker : v = [u EXCEPT !.speaker = speaker]
    BY <1>1, <2>1, <2>2 DEF Label
  <2>4. v \in Utterance /\ v.textPii = u.textPii /\ v.normPii = u.normPii
    BY <2>3, Spoken
  <2> QED
    BY <2>1, <2>2, <2>4
<1>3. PICK us, vs : us = utts /\ vs = utts'
  OBVIOUS
<1> QED
  BY <1>1, <1>2, <1>3, TurnsOf

(* Translation leaves the texts; only normalised texts change. *)
LEMMA Normalised ==
  ASSUME utts \in Seq(Utterance), Translate \/ TranslateStub
  PROVE  /\ utts' \in Seq(Utterance) /\ DOMAIN utts' = DOMAIN utts
<1>1. ASSUME NEW i \in DOMAIN utts
      PROVE  /\ [utts[i] EXCEPT !.norm = "same", !.normPii = utts[i].textPii] \in Utterance
             /\ [utts[i] EXCEPT !.norm = "translated", !.normPii = InEnglish(utts[i].textPii)]
                  \in Utterance
  <2>1. PICK u \in Utterance : u = utts[i]
    OBVIOUS
  <2>2. u.textPii \in SUBSET Identifier
    BY DEF Utterance
  <2>3. InEnglish(u.textPii) \in SUBSET Identifier
    BY <2>2 DEF InEnglish, Identifier
  <2>4. "same" \in {"none", "same", "translated"} /\ "translated" \in {"none", "same", "translated"}
    OBVIOUS
  <2> QED
    BY <2>1, <2>2, <2>3, <2>4, Translated
<1>2. PICK us, vs : us = utts /\ vs = utts'
  OBVIOUS
<1>3. CASE Translate
  <2>1. PICK answered \in SUBSET {i \in DOMAIN utts : utts[i].line.indic} :
       utts' = [i \in DOMAIN utts |->
         IF i \in answered
         THEN [utts[i] EXCEPT !.norm = "translated", !.normPii = InEnglish(utts[i].textPii)]
         ELSE [utts[i] EXCEPT !.norm = "same", !.normPii = utts[i].textPii]]
    BY <1>3 DEF Translate
  <2>2. utts' = [i \in DOMAIN utts |-> utts'[i]]
    BY <2>1
  <2>3. \A i \in DOMAIN utts : utts'[i] \in Utterance
    BY <1>1, <2>1
  <2> QED
    BY <1>2, <2>2, <2>3, TurnsOf
<1>4. CASE TranslateStub
  <2>1. utts' = [i \in DOMAIN utts |->
                   [utts[i] EXCEPT !.norm = "same", !.normPii = utts[i].textPii]]
    BY <1>4 DEF TranslateStub
  <2>2. utts' = [i \in DOMAIN utts |-> utts'[i]]
    BY <2>1
  <2>3. \A i \in DOMAIN utts : utts'[i] \in Utterance
    BY <1>1, <2>1
  <2> QED
    BY <1>2, <2>2, <2>3, TurnsOf
<1> QED
  BY <1>3, <1>4

(* Redaction takes what is recognised out of every turn. *)
LEMMA RedactedAll ==
  ASSUME utts \in Seq(Utterance), Redact
  PROVE  /\ utts' \in Seq(Utterance) /\ DOMAIN utts' = DOMAIN utts
         /\ \A i \in DOMAIN utts : /\ utts'[i].textPii = utts[i].textPii \ Recognised
                                   /\ utts'[i].normPii = utts[i].normPii \ Recognised
<1>1. PICK found : found = Recognised
  OBVIOUS
<1>2. utts' = [i \in DOMAIN utts |->
                 [utts[i] EXCEPT !.textPii = @ \ found, !.normPii = @ \ found]]
  BY <1>1 DEF Redact
<1>3. ASSUME NEW i \in DOMAIN utts
      PROVE  /\ utts'[i] \in Utterance
             /\ utts'[i].textPii = utts[i].textPii \ found
             /\ utts'[i].normPii = utts[i].normPii \ found
  <2>1. PICK u \in Utterance : u = utts[i]
    OBVIOUS
  <2>2. utts'[i] = [u EXCEPT !.textPii = @ \ found, !.normPii = @ \ found]
    BY <1>2, <2>1
  <2>3. PICK v : v = [u EXCEPT !.textPii = @ \ found, !.normPii = @ \ found]
    OBVIOUS
  <2>4. v \in Utterance /\ v.textPii = u.textPii \ found /\ v.normPii = u.normPii \ found
    BY <2>3, Redacted
  <2> QED
    BY <2>1, <2>2, <2>3, <2>4
<1>4. utts' = [i \in DOMAIN utts |-> utts'[i]]
  BY <1>2
<1>5. PICK us, vs : us = utts /\ vs = utts'
  OBVIOUS
<1> QED
  BY <1>1, <1>3, <1>4, <1>5, TurnsOf

(* Every stage leaves turns and signals of the right types. *)
LEMMA Typed ==
  AnalysisTypeOK /\ [AnalysisNext]_analysisVars => AnalysisTypeOK'
<1> SUFFICES ASSUME AnalysisTypeOK, [AnalysisNext]_analysisVars PROVE AnalysisTypeOK'
  OBVIOUS
<1>1. utts \in Seq(Utterance) /\ sigs \in Seq(Signal) /\ identified \in BOOLEAN
  BY DEF AnalysisTypeOK
<1>2. ASSUME NEW role, NEW impls, Runs(role, impls) PROVE phase \in {"running", "failed"}
  BY <1>2 DEF Runs
<1>3. CASE BuildPipeline
  BY <1>3 DEF BuildPipeline, AnalysisTypeOK, Started, Stored
<1>4. CASE BatchTranscribe
  <2>1. ASSUME NEW parts \in Parts, NEW diarized \in BOOLEAN, NEW best,
               utts' = Cleanup(Hear(Merged(parts), diarized), best)
        PROVE  utts' \in Seq(Utterance)
    <3>1. Merged(parts) \in Seq(SpokenLine)
      BY MergedLines DEF AnalysisTypeOK
    <3>2. Hear(Merged(parts), diarized) \in Seq(Utterance)
      BY <3>1, HeardAll
    <3> QED
      BY <2>1, <3>2, CleanedUp
  <2>2. utts' \in Seq(Utterance)
    <3>1. CASE utts' = <<>>
      BY <3>1
    <3>2. CASE UNCHANGED utts
      BY <1>1, <3>2
    <3>3. CASE \E parts \in Parts, diarized \in BOOLEAN :
                 \E best \in Nearest(Hear(Merged(parts), diarized)) :
                   utts' = Cleanup(Hear(Merged(parts), diarized), best)
      BY <2>1, <3>3
    <3> QED
      BY <1>4, <3>1, <3>2, <3>3 DEF BatchTranscribe
  <2>3. phase' \in {"running", "failed"} /\ UNCHANGED <<plan, recording, identified, sigs>>
    BY <1>2, <1>4 DEF BatchTranscribe
  <2> QED
    BY <1>1, <1>4, <2>2, <2>3, StageTyped DEF BatchTranscribe
<1>5. CASE SyncTranscribe
  <2>1. Hear(recording.lines, FALSE) \in Seq(Utterance)
    BY HeardAll DEF AnalysisTypeOK
  <2>2. utts' \in Seq(Utterance)
    BY <1>1, <1>5, <2>1 DEF SyncTranscribe
  <2>3. phase' \in {"running", "failed"} /\ UNCHANGED <<plan, recording, identified, sigs>>
    BY <1>2, <1>5 DEF SyncTranscribe
  <2> QED
    BY <1>1, <1>5, <2>2, <2>3, StageTyped DEF SyncTranscribe
<1>6. CASE ReadTranscript
  <2>1. PICK lines \in Seq(SpokenLine) : lines = recording.lines
    BY DEF AnalysisTypeOK
  <2>2. \A i \in DOMAIN lines : Heard(lines[i], FALSE, lines[i].label) \in Utterance
    <3>1. \A i \in DOMAIN lines : lines[i] \in SpokenLine
      BY <2>1
    <3>2. \A line \in SpokenLine : line.label \in Speaker
      BY DEF SpokenLine
    <3> QED
      BY <3>1, <3>2, HeardTurn
  <2>3. utts' = [i \in DOMAIN lines |-> Heard(lines[i], FALSE, lines[i].label)]
    BY <1>6, <2>1 DEF ReadTranscript
  <2>4. utts' \in Seq(Utterance)
    <3>1. PICK n \in Nat : DOMAIN lines = 1..n
      BY <2>1
    <3>2. PICK V : V = Utterance
      OBVIOUS
    <3>3. PICK us : us = utts'
      OBVIOUS
    <3>4. us = [i \in 1..n |-> us[i]] /\ \A i \in 1..n : us[i] \in V
      BY <2>2, <2>3, <3>1, <3>2, <3>3
    <3> QED
      BY <3>2, <3>3, <3>4
  <2>5. phase' \in {"running", "failed"} /\ UNCHANGED <<plan, recording, identified, sigs>>
    BY <1>2, <1>6 DEF ReadTranscript
  <2> QED
    BY <1>1, <1>6, <2>4, <2>5, StageTyped DEF ReadTranscript
<1>7. CASE DiarizeStub \/ DiarizePassthrough
  <2>1. utts' \in Seq(Utterance)
    BY <1>1, <1>7, Relabelled
  <2>2. phase' \in {"running", "failed"} /\ UNCHANGED <<plan, recording, identified, sigs>>
    BY <1>2, <1>7 DEF DiarizeStub, DiarizePassthrough
  <2> QED
    BY <1>1, <1>7, <2>1, <2>2, StageTyped DEF DiarizeStub, DiarizePassthrough
<1>8. CASE Translate \/ TranslateStub
  <2>1. utts' \in Seq(Utterance)
    BY <1>1, <1>8, Normalised
  <2>2. phase' \in {"running", "failed"} /\ UNCHANGED <<plan, recording, identified, sigs>>
    BY <1>2, <1>8 DEF Translate, TranslateStub
  <2> QED
    BY <1>1, <1>8, <2>1, <2>2, StageTyped DEF Translate, TranslateStub
<1>9. CASE Redact
  <2>1. utts' \in Seq(Utterance)
    BY <1>1, <1>9, RedactedAll
  <2>2. phase' \in {"running", "failed"} /\ UNCHANGED <<plan, recording, sigs>>
        /\ identified' \in BOOLEAN
    BY <1>2, <1>9 DEF Redact
  <2> QED
    BY <1>1, <1>9, <2>1, <2>2, StageTyped DEF Redact
<1>10. CASE ExtractSignals
  <2>1. sigs' \in Seq(SignalsOf(utts))
    BY <1>1, <1>10, SignalsMade DEF ExtractSignals
  <2>2. SignalsOf(utts) \subseteq Signal
    BY <1>1, SignalFacts
  <2>3. sigs' \in Seq(Signal)
    BY <2>1, <2>2, SeqWider
  <2>4. phase' \in {"running", "failed"} /\ UNCHANGED <<plan, recording, identified, utts>>
    BY <1>2, <1>10 DEF ExtractSignals
  <2> QED
    BY <1>1, <1>10, <2>3, <2>4, StageTyped DEF ExtractSignals
<1>11. CASE IdentifySpeaker
  <2>1. phase' \in {"running", "failed"} /\ UNCHANGED <<plan, recording>>
        /\ utts' \in Seq(Utterance) /\ sigs' \in Seq(Signal) /\ identified' \in BOOLEAN
    BY <1>1, <1>2, <1>11 DEF IdentifySpeaker
  <2> QED
    BY <1>11, <2>1, StageTyped DEF IdentifySpeaker
<1>12. CASE DeleteAudio
  <2>1. phase' \in {"running", "failed"} /\ UNCHANGED <<plan, recording>>
        /\ utts' \in Seq(Utterance) /\ sigs' \in Seq(Signal) /\ identified' \in BOOLEAN
    BY <1>1, <1>2, <1>12 DEF DeleteAudio
  <2> QED
    BY <1>12, <2>1, StageTyped DEF DeleteAudio
<1>13. CASE Summarize
  <2>1. phase' \in {"running", "failed"} /\ UNCHANGED <<plan, recording>>
        /\ utts' \in Seq(Utterance) /\ sigs' \in Seq(Signal) /\ identified' \in BOOLEAN
    BY <1>1, <1>2, <1>13 DEF Summarize
  <2> QED
    BY <1>13, <2>1, StageTyped DEF Summarize
<1>14. CASE WriteNotes
  <2>1. phase' \in {"running", "failed"} /\ UNCHANGED <<plan, recording>>
        /\ utts' \in Seq(Utterance) /\ sigs' \in Seq(Signal) /\ identified' \in BOOLEAN
    BY <1>1, <1>2, <1>14 DEF WriteNotes
  <2> QED
    BY <1>14, <2>1, StageTyped DEF WriteNotes
<1>15. CASE StoreInsight
  <2>1. phase' = "stored" /\ done = Len(plan) /\ Accepted(plan)
        /\ UNCHANGED <<plan, recording, done, utts, identified, sigs>>
    BY <1>15, PlanIs DEF StoreInsight, Started
  <2> QED
    BY <2>1 DEF AnalysisTypeOK, Started, Stored
<1>16. CASE RecommendProducts
  <2>1. phase' = "advised" /\ done = Len(plan) /\ Accepted(plan)
        /\ UNCHANGED <<plan, recording, done, utts, identified, sigs>>
    BY <1>16, PlanIs DEF RecommendProducts, Started, Stored
  <2> QED
    BY <2>1 DEF AnalysisTypeOK, Started, Stored
<1>17. CASE UNCHANGED analysisVars
  BY <1>17 DEF analysisVars, AnalysisTypeOK, Started, Stored
<1> QED
  BY <1>3, <1>4, <1>5, <1>6, <1>7, <1>8, <1>9, <1>10, <1>11, <1>12, <1>13, <1>14, <1>15,
     <1>16, <1>17 DEF AnalysisNext

-----------------------------------------------------------------------------
(* Privacy. *)

(* The identifiers redaction may leave: numbers spoken in words, and a name nobody *)
(* recognised.                                                                     *)
Cleared == {"spoken"} \cup (IF recording.named THEN {} ELSE {"name"})
(* A plan that translates after redaction, which writes the spoken digits anew. *)
Unredacted == After("lang_id_translation", "pii_redaction")
(* Every turn holds no other identifier. *)
TurnsCleared == \A i \in DOMAIN utts : utts[i].textPii \cup utts[i].normPii \subseteq Cleared
(* No quoted text holds digits. *)
QuotesCleared == \A i \in DOMAIN sigs : "digits" \notin sigs[i].pii

(* PrivacyInv in these terms, and its primed form. *)
LEMMA PrivacyIs ==
  PrivacyInv <=> /\ Ran("audio_deletion") => ~copy
                 /\ (sigs # <<>> \/ notes # NoNotes) => ~copy
                 /\ identified => recording.named
                 /\ ~Ran("pii_redaction") => identified = recording.named
                 /\ Ran("pii_redaction") /\ ~Unredacted => TurnsCleared
                 /\ ~Unredacted => QuotesCleared
BY DEF PrivacyInv, Unredacted, TurnsCleared, QuotesCleared, Cleared

(* PrivacyInv in these terms, and its primed form. *)
LEMMA PrivacyIsNext ==
  PrivacyInv' <=> /\ Ran("audio_deletion")' => ~copy'
                  /\ (sigs' # <<>> \/ notes' # NoNotes) => ~copy'
                  /\ identified' => recording'.named
                  /\ ~Ran("pii_redaction")' => identified' = recording'.named
                  /\ Ran("pii_redaction")' /\ ~Unredacted' => TurnsCleared'
                  /\ ~Unredacted' => QuotesCleared'
BY DEF PrivacyInv, Unredacted, TurnsCleared, QuotesCleared, Cleared

(* No stage breaks the privacy order: those that add text run before redaction, or *)
(* take it from turns that are redacted; those that quote run after.               *)
LEMMA Private ==
  AnalysisTypeOK /\ PrivacyInv /\ [AnalysisNext]_analysisVars => PrivacyInv'
<1> SUFFICES ASSUME AnalysisTypeOK, PrivacyInv, [AnalysisNext]_analysisVars PROVE PrivacyInv'
  OBVIOUS
<1>1. utts \in Seq(Utterance)
  BY DEF AnalysisTypeOK
<1>2. /\ Ran("audio_deletion") => ~copy
      /\ (sigs # <<>> \/ notes # NoNotes) => ~copy
      /\ identified => recording.named
      /\ ~Ran("pii_redaction") => identified = recording.named
      /\ Ran("pii_redaction") /\ ~Unredacted => TurnsCleared
      /\ ~Unredacted => QuotesCleared
  BY PrivacyIs
<1>3. UNCHANGED <<plan, recording>>
  BY DEF AnalysisNext, BuildPipeline, BatchTranscribe, SyncTranscribe, ReadTranscript,
     DiarizeStub, DiarizePassthrough, IdentifySpeaker, Translate, TranslateStub, Redact,
     DeleteAudio, ExtractSignals, Summarize, WriteNotes, StoreInsight, RecommendProducts,
     analysisVars
<1>4. Unredacted' <=> Unredacted
  BY <1>3 DEF Unredacted, After, Role
<1>5. ASSUME NEW role, NEW impls, Runs(role, impls)
      PROVE  \A x : Ran(x)' <=> Ran(x) \/ x = role
  BY <1>3, <1>5, RanNext
<1>6. ASSUME UNCHANGED done PROVE \A x : Ran(x)' <=> Ran(x)
  BY <1>3, <1>6 DEF Ran, Role
<1>7. ASSUME UNCHANGED utts PROVE TurnsCleared' <=> TurnsCleared
  BY <1>3, <1>7 DEF TurnsCleared, Cleared
<1>8. ASSUME UNCHANGED sigs PROVE QuotesCleared' <=> QuotesCleared
  BY <1>8 DEF QuotesCleared
<1>9. ASSUME NEW impls, Runs("asr", impls)
      PROVE  ~Ran("pii_redaction")' /\ (Ran("audio_deletion")' => Ran("audio_deletion"))
  <2>1. Runs(PrivacyOrder[1], impls)
    BY <1>9, PrivacyOrderIs
  <2>2. ~Ran(PrivacyOrder[2])
    BY <2>1, RanBefore
  <2> QED
    BY <1>5, <1>9, <2>2, PrivacyOrderIs
<1>10. ASSUME UNCHANGED <<done, utts, identified, copy, sigs, notes>> PROVE PrivacyInv'
  BY <1>2, <1>3, <1>4, <1>6, <1>7, <1>8, <1>10, PrivacyIsNext
<1>11. CASE BatchTranscribe \/ SyncTranscribe \/ ReadTranscript
  <2>1. UNCHANGED <<identified, copy, sigs, notes>> /\ \E impls : Runs("asr", impls)
    BY <1>11 DEF BatchTranscribe, SyncTranscribe, ReadTranscript
  <2>2. ~Ran("pii_redaction")' /\ (Ran("audio_deletion")' => Ran("audio_deletion"))
    BY <1>9, <2>1
  <2>3. ~Ran("pii_redaction")
    BY <1>5, <2>1, <2>2
  <2> QED
    BY <1>2, <1>3, <1>4, <1>8, <2>1, <2>2, <2>3, PrivacyIsNext
<1>12. CASE DiarizeStub \/ DiarizePassthrough
  <2>1. UNCHANGED <<identified, copy, sigs, notes>> /\ \E impls : Runs("diarization", impls)
    BY <1>12 DEF DiarizeStub, DiarizePassthrough
  <2>2. \A x \in {"pii_redaction", "audio_deletion"} : Ran(x)' <=> Ran(x)
    BY <1>5, <2>1
  <2>3. TurnsCleared => TurnsCleared'
    BY <1>1, <1>3, <1>12, Relabelled DEF TurnsCleared, Cleared
  <2> QED
    BY <1>2, <1>3, <1>4, <1>8, <2>1, <2>2, <2>3, PrivacyIsNext
<1>13. CASE IdentifySpeaker
  <2>1. UNCHANGED <<utts, identified, copy, sigs, notes>> /\ \E impls : Runs("speaker_id", impls)
    BY <1>13 DEF IdentifySpeaker
  <2>2. \A x \in {"pii_redaction", "audio_deletion"} : Ran(x)' <=> Ran(x)
    BY <1>5, <2>1
  <2> QED
    BY <1>2, <1>3, <1>4, <1>7, <1>8, <2>1, <2>2, PrivacyIsNext
<1>14. CASE Translate \/ TranslateStub
  <2>1. UNCHANGED <<identified, copy, sigs, notes>>
        /\ \E impls : Runs("lang_id_translation", impls)
    BY <1>14 DEF Translate, TranslateStub
  <2>2. \A x \in {"pii_redaction", "audio_deletion"} : Ran(x)' <=> Ran(x)
    BY <1>5, <2>1
  <2>3. Ran("pii_redaction") => Unredacted
    <3>1. PICK n \in Nat : n = Len(plan) /\ DOMAIN plan = 1..n /\ done \in 0..n
      BY PlanIs
    <3>2. done + 1 \in 1..n /\ plan[done + 1][1] = "lang_id_translation"
      <4>1. done < n /\ plan[done + 1][1] = "lang_id_translation"
        BY <2>1, <3>1 DEF Runs
      <4>2. \A d \in 0..n : d < n => d + 1 \in 1..n
        OBVIOUS
      <4> QED
        BY <3>1, <4>1, <4>2
    <3>3. ASSUME NEW k \in 1..done, Role(k) = "pii_redaction" PROVE Unredacted
      <4>1. k \in 1..n /\ k < done + 1
        <5>1. \A d \in 0..n : \A l \in 1..d : l \in 1..n /\ l < d + 1
          OBVIOUS
        <5> QED
          BY <3>1, <3>3, <5>1
      <4> QED
        BY <3>1, <3>2, <3>3, <4>1 DEF Unredacted, After, Role
    <3> QED
      BY <3>3 DEF Ran
  <2> QED
    BY <1>2, <1>3, <1>4, <1>8, <2>1, <2>2, <2>3, PrivacyIsNext
<1>15. CASE Redact
  <2>1. UNCHANGED <<copy, sigs, notes>> /\ identified' = FALSE
        /\ \E impls : Runs("pii_redaction", impls)
    BY <1>15 DEF Redact
  <2>2. Ran("pii_redaction")' /\ (Ran("audio_deletion")' <=> Ran("audio_deletion"))
    BY <1>5, <2>1
  <2>3. ~Ran("pii_redaction")
    <3>1. PICK impls : Runs(PrivacyOrder[2], impls)
      BY <2>1, PrivacyOrderIs
    <3>2. ~Ran(PrivacyOrder[2])
      BY <3>1, RanBefore
    <3> QED
      BY <3>2, PrivacyOrderIs
  <2>4. \A pii \in SUBSET Identifier : pii \ Recognised \subseteq Cleared
    BY <1>2, <2>3 DEF Identifier, Recognised, Cleared
  <2>5. TurnsCleared'
    <3>1. Cleared' = Cleared
      BY <1>3 DEF Cleared
    <3>2. \A u \in Utterance : u.textPii \in SUBSET Identifier /\ u.normPii \in SUBSET Identifier
      BY DEF Utterance
    <3>3. \A i \in DOMAIN utts : /\ utts[i].textPii \in SUBSET Identifier
                                 /\ utts[i].normPii \in SUBSET Identifier
      BY <1>1, <3>2
    <3>4. /\ DOMAIN utts' = DOMAIN utts
          /\ \A i \in DOMAIN utts : /\ utts'[i].textPii = utts[i].textPii \ Recognised
                                    /\ utts'[i].normPii = utts[i].normPii \ Recognised
      BY <1>1, <1>15, RedactedAll
    <3> QED
      BY <2>4, <3>1, <3>3, <3>4 DEF TurnsCleared
  <2> QED
    BY <1>2, <1>3, <1>4, <1>8, <2>1, <2>2, <2>5, PrivacyIsNext
<1>16. CASE DeleteAudio
  <2>1. UNCHANGED <<utts, identified, sigs, notes>> /\ copy' = FALSE
        /\ \E impls : Runs("audio_deletion", impls)
    BY <1>16 DEF DeleteAudio
  <2>2. Ran("pii_redaction")' <=> Ran("pii_redaction")
    BY <1>5, <2>1
  <2> QED
    BY <1>2, <1>3, <1>4, <1>7, <1>8, <2>1, <2>2, PrivacyIsNext
<1>17. CASE ExtractSignals
  <2>1. UNCHANGED <<utts, identified, copy, notes>> /\ sigs' = Signals(utts)
        /\ \E impls : Runs("signal_extraction", impls)
    BY <1>17 DEF ExtractSignals
  <2>2. \A x \in {"pii_redaction", "audio_deletion"} : Ran(x)' <=> Ran(x)
    BY <1>5, <2>1
  <2>3. Ran("pii_redaction") /\ Ran("audio_deletion")
    <3>1. PICK impls : Runs(PrivacyOrder[4], impls)
      BY <2>1, PrivacyOrderIs
    <3>2. Ran(PrivacyOrder[2]) /\ Ran(PrivacyOrder[3])
      BY <3>1, RanBefore
    <3> QED
      BY <3>2, PrivacyOrderIs
  <2>4. ~Unredacted => QuotesCleared'
    <3> SUFFICES ASSUME ~Unredacted, NEW k \in DOMAIN sigs' PROVE "digits" \notin sigs'[k].pii
      BY DEF QuotesCleared
    <3>1. sigs' \in Seq(SignalsOf(utts))
      BY <1>1, <2>1, SignalsMade
    <3>2. PICK sig \in SignalsOf(utts) : sig = sigs'[k]
      BY <3>1
    <3>3. PICK i \in DOMAIN utts : sig.pii \subseteq utts[i].textPii \cup utts[i].normPii
      BY <1>1, SignalFacts
    <3>4. utts[i].textPii \cup utts[i].normPii \subseteq Cleared
      BY <1>2, <2>3 DEF TurnsCleared
    <3>5. "digits" \notin Cleared
      BY DEF Cleared
    <3> QED
      BY <3>2, <3>3, <3>4, <3>5
  <2> QED
    BY <1>2, <1>3, <1>4, <1>7, <2>1, <2>2, <2>3, <2>4, PrivacyIsNext
<1>18. CASE Summarize \/ WriteNotes
  <2>1. UNCHANGED <<utts, identified, copy, sigs>> /\ \E impls : Runs("summarization", impls)
    BY <1>18 DEF Summarize, WriteNotes
  <2>2. \A x \in {"pii_redaction", "audio_deletion"} : Ran(x)' <=> Ran(x)
    BY <1>5, <2>1
  <2>3. Ran("audio_deletion")
    <3>1. PICK impls : Runs(PrivacyOrder[5], impls)
      BY <2>1, PrivacyOrderIs
    <3>2. Ran(PrivacyOrder[3])
      BY <3>1, RanBefore
    <3> QED
      BY <3>2, PrivacyOrderIs
  <2> QED
    BY <1>2, <1>3, <1>4, <1>7, <1>8, <2>1, <2>2, <2>3, PrivacyIsNext
<1>19. CASE BuildPipeline \/ StoreInsight \/ RecommendProducts \/ UNCHANGED analysisVars
  BY <1>10, <1>19 DEF BuildPipeline, StoreInsight, RecommendProducts, analysisVars
<1> QED
  BY <1>11, <1>12, <1>13, <1>14, <1>15, <1>16, <1>17, <1>18, <1>19 DEF AnalysisNext

(* The invariant gives what AnalysisIsPrivate says of a stored insight. *)
LEMMA PrivateSoFar == AnalysisTypeOK /\ PrivacyInv => AnalysisIsPrivate
<1> SUFFICES ASSUME AnalysisTypeOK, PrivacyInv PROVE AnalysisIsPrivate
  OBVIOUS
<1>1. Stored => Ran("pii_redaction")
  <2>1. Stored => Ran(PrivacyOrder[2])
    BY AllRan
  <2> QED
    BY <2>1, PrivacyOrderIs
<1> QED
  BY <1>1, PrivacyIs DEF AnalysisIsPrivate, Unredacted, TurnsCleared, QuotesCleared, Cleared

-----------------------------------------------------------------------------
(* Coaching, stage by stage. *)

(* Tips that are counted. *)
LEMMA TipsCount ==
  ASSUME NEW tips, NEW least \in 1..3, Tips(tips, least)
  PROVE  Len(tips) \in 1..3 /\ Cardinality(ToSet(tips)) = Len(tips) /\ Len(tips) >= least
<1>1. tips \in Seq(Tip) /\ Different(tips) /\ Len(tips) \in least..3
  BY DEF Tips
<1>2. Cardinality(ToSet(tips)) = Len(tips)
  BY <1>1, DifferentCount
<1>3. \A n \in least..3 : n \in 1..3 /\ n >= least
  OBVIOUS
<1> QED
  BY <1>1, <1>2, <1>3

(* The notes of a visit too short to judge have two. *)
LEMMA TooShortTips == Tips(TooShortNotes.coaching, 2)
<1>1. TooShortNotes.coaching = <<"hold the phone", "discovery">>
  BY DEF TooShortNotes, Notes
<1>2. "hold the phone" \in Tip /\ "discovery" \in Tip
  BY DEF Tip, OwnTip
<1>3. PICK s : s = <<"hold the phone", "discovery">>
  OBVIOUS
<1>4. s \in Seq(Tip) /\ Different(s) /\ Len(s) = 2
  BY <1>2, <1>3, PairDifferent
<1>5. Len(s) \in 2..3
  BY <1>4
<1> QED
  BY <1>1, <1>3, <1>4, <1>5 DEF Tips

-----------------------------------------------------------------------------
(* Product mentions. *)

(* What the resolver of product mentions keeps while it reads turns. *)
MentionState ==
  [focus : Sku \cup {NoSku}, total : [Sku -> Nat], last : [Sku -> Nat], seen : Seq(Sku)]

(* Counting one mention. *)
LEMMA Bumped ==
  ASSUME NEW st \in MentionState, NEW sku \in Sku, NEW turn \in Nat
  PROVE  /\ Bump(st, sku, turn) \in MentionState
         /\ Bump(st, sku, turn).total = [st.total EXCEPT ![sku] = @ + 1]
         /\ Bump(st, sku, turn).focus = st.focus
         /\ Bump(st, sku, turn).seen
              = IF sku \in ToSet(st.seen) THEN st.seen ELSE Append(st.seen, sku)
<1>1. PICK fo \in Sku \cup {NoSku}, t \in [Sku -> Nat], l \in [Sku -> Nat], se \in Seq(Sku) :
        st = [focus |-> fo, total |-> t, last |-> l, seen |-> se]
  BY DEF MentionState
<1>2. st.focus = fo /\ st.total = t /\ st.last = l /\ st.seen = se
  BY <1>1
<1>3. PICK seen : seen = IF sku \in ToSet(se) THEN se ELSE Append(se, sku)
  OBVIOUS
<1>4. PICK total, last : total = [t EXCEPT ![sku] = @ + 1] /\ last = [l EXCEPT ![sku] = turn]
  OBVIOUS
<1>5. seen \in Seq(Sku)
  BY <1>3
<1>6. total \in [Sku -> Nat] /\ last \in [Sku -> Nat]
  BY <1>4
<1>7. Bump(st, sku, turn) = [focus |-> fo, total |-> total, last |-> last, seen |-> seen]
  BY <1>2, <1>3, <1>4 DEF Bump
<1>8. Bump(st, sku, turn) \in MentionState
  <2>1. PICK F, N, Q : F = Sku \cup {NoSku} /\ N = [Sku -> Nat] /\ Q = Seq(Sku)
    OBVIOUS
  <2>2. fo \in F /\ total \in N /\ last \in N /\ seen \in Q
    BY <1>5, <1>6, <2>1
  <2>3. [focus |-> fo, total |-> total, last |-> last, seen |-> seen]
          \in [focus : F, total : N, last : N, seen : Q]
    BY <2>2
  <2> QED
    BY <1>7, <2>1, <2>3 DEF MentionState
<1> QED
  BY <1>2, <1>3, <1>4, <1>7, <1>8

(* The totals count the places in A, and every product with a total has been seen. *)
Tallied(st, A) ==
  /\ st \in MentionState
  /\ \A s \in Sku : IsFiniteSet(A[s]) /\ st.total[s] = Cardinality(A[s])
  /\ Different(st.seen)
  /\ ToSet(st.seen) = {s \in Sku : st.total[s] > 0}

(* B is A with a new place of one product. *)
Joins(A, B, sku, p) ==
  /\ p \notin A[sku]
  /\ \A s \in Sku : B[s] = IF s = sku THEN A[s] \cup {p} ELSE A[s]

(* A mention at a new place. *)
LEMMA BumpTallies ==
  ASSUME NEW st, NEW A, Tallied(st, A), NEW sku \in Sku, NEW turn \in Nat,
         NEW p, NEW B, Joins(A, B, sku, p)
  PROVE  Tallied(Bump(st, sku, turn), B) /\ Bump(st, sku, turn).focus = st.focus
<1>1. PICK bt \in MentionState : bt = Bump(st, sku, turn)
  BY Bumped DEF Tallied
<1>2. /\ bt.total = [st.total EXCEPT ![sku] = @ + 1] /\ bt.focus = st.focus
      /\ bt.seen = IF sku \in ToSet(st.seen) THEN st.seen ELSE Append(st.seen, sku)
  BY <1>1, Bumped DEF Tallied
<1>3. PICK t, c : t = st.total /\ c = bt.total
  OBVIOUS
<1>4. t \in [Sku -> Nat] /\ c[sku] = t[sku] + 1 /\ \A s \in Sku : s # sku => c[s] = t[s]
  BY <1>2, <1>3 DEF Tallied, MentionState
<1>5. ASSUME NEW s \in Sku PROVE IsFiniteSet(B[s]) /\ c[s] = Cardinality(B[s])
  <2>1. IsFiniteSet(A[s]) /\ t[s] = Cardinality(A[s])
    BY <1>3 DEF Tallied
  <2>2. CASE s = sku
    <3>1. B[s] = A[s] \cup {p} /\ p \notin A[s]
      BY <2>2 DEF Joins
    <3>2. IsFiniteSet(A[s] \cup {p}) /\ Cardinality(A[s] \cup {p}) = Cardinality(A[s]) + 1
      BY <2>1, <3>1, FS_AddElement
    <3> QED
      BY <1>4, <2>1, <2>2, <3>1, <3>2
  <2>3. CASE s # sku
    BY <1>4, <2>1, <2>3 DEF Joins
  <2> QED
    BY <2>2, <2>3
<1>6. PICK seen \in Seq(Sku) : seen = st.seen
  BY DEF Tallied, MentionState
<1>7. Different(seen) /\ ToSet(seen) = {s \in Sku : t[s] > 0}
  BY <1>3, <1>6 DEF Tallied
<1>8. {s \in Sku : c[s] > 0} = ToSet(seen) \cup {sku}
  <2>1. \A s \in Sku : c[s] > 0 <=> t[s] > 0 \/ s = sku
    BY <1>4
  <2> QED
    BY <1>7, <2>1
<1>9. Different(bt.seen) /\ ToSet(bt.seen) = ToSet(seen) \cup {sku}
  <2>1. CASE sku \in ToSet(seen)
    BY <1>2, <1>6, <1>7, <2>1
  <2>2. CASE sku \notin ToSet(seen)
    BY <1>2, <1>6, <1>7, <2>2, AppendDifferent
  <2> QED
    BY <2>1, <2>2
<1> QED
  BY <1>1, <1>2, <1>3, <1>5, <1>8, <1>9 DEF Tallied

(* f is the recursive function of NameAll: the state after so many names. *)
Names(f, st, names, turn) ==
  /\ NameAll(st, names, turn) = f[Len(names)]
  /\ f[0] = st
  /\ \A k \in 1..Len(names) : f[k] = Bump(f[k - 1], names[k], turn)
  /\ \A k \in 0..Len(names) : f[k] \in MentionState

(* The names of a turn are counted one by one. *)
LEMMA NameAllStep ==
  ASSUME NEW st \in MentionState, NEW names \in Seq(Sku), NEW turn \in Nat
  PROVE  \E f : Names(f, st, names, turn)
<1>1. PICK n \in Nat : n = Len(names) /\ \A k \in 1..n : names[k] \in Sku
  OBVIOUS
<1>2. PICK V : V = MentionState
  OBVIOUS
<1> DEFINE Body(g) == [i \in 0..Len(names) |->
                         IF i = 0 THEN st ELSE Bump(g[i - 1], names[i], turn)]
<1>3. PICK g : g = CHOOSE h : h = Body(h)
  OBVIOUS
<1>4. NameAll(st, names, turn) = g[n]
  BY <1>1, <1>3 DEF NameAll
<1>5. PICK step : step = [p \in (1..n) \X V |-> Bump(p[2], names[p[1]], turn)]
  OBVIOUS
<1>6. \A i \in 1..n, q \in V : step[<<i, q>>] = Bump(q, names[i], turn)
  BY <1>5
<1>7. Closed(step, n, V) /\ st \in V
  <2>1. \A i \in 1..n, q \in V : Bump(q, names[i], turn) \in V
    BY <1>1, <1>2, Bumped
  <2> QED
    BY <1>2, <1>6, <2>1 DEF Closed
<1>8. PICK f : Computes(f, n, V, st, step)
  BY <1>7, Recursion
<1>9. /\ f = [i \in 0..n |-> f[i]] /\ f[0] = st
      /\ \A i \in 1..n : f[i] = Bump(f[i - 1], names[i], turn)
  <2>1. \A i \in 1..n : f[i - 1] \in V /\ f[i] = step[<<i, f[i - 1]>>]
    BY <1>8, ComputesStep
  <2>2. f = [i \in 0..n |-> f[i]] /\ f[0] = st
    BY <1>8 DEF Computes
  <2> QED
    BY <1>6, <2>1, <2>2
<1>10. f = Body(f)
  <2>1. PICK h : h = f
    OBVIOUS
  <2>2. f = [i \in 0..n |-> IF i = 0 THEN st ELSE Bump(h[i - 1], names[i], turn)]
    <3>1. \A i \in 0..n : f[i] = IF i = 0 THEN st ELSE Bump(h[i - 1], names[i], turn)
      BY <1>1, <1>9, <2>1
    <3> QED
      BY <1>9, <3>1
  <2> QED
    BY <1>1, <2>1, <2>2
<1>11. g = Body(g)
  <2> HIDE DEF Body
  <2> QED
    BY <1>3, <1>10
<1>12. PICK h : h = g
  OBVIOUS
<1>13. g = [i \in 0..n |-> IF i = 0 THEN st ELSE Bump(h[i - 1], names[i], turn)]
  BY <1>1, <1>11, <1>12
<1>14. /\ g[0] = st /\ \A i \in 1..n : g[i] = Bump(g[i - 1], names[i], turn)
       /\ g = [i \in 0..n |-> g[i]]
  BY <1>12, <1>13
<1>15. \A k \in 0..n : g[k] \in MentionState
  <2>1. \A i \in 1..n : g[i - 1] \in V => g[i] = step[<<i, g[i - 1]>>]
    BY <1>6, <1>14
  <2>2. Computes(g, n, V, st, step)
    BY <1>7, <1>14, <2>1, Looped
  <2> QED
    BY <1>2, <2>2 DEF Computes
<1> QED
  BY <1>1, <1>4, <1>14, <1>15 DEF Names

(* The names of a turn add their places. *)
LEMMA NamesTally ==
  ASSUME NEW st, NEW A, Tallied(st, A), NEW names \in Seq(Sku), NEW turn \in Nat,
         \A s \in Sku, k \in 1..Len(names) : <<turn, k>> \notin A[s],
         NEW B, \A s \in Sku : B[s] = A[s] \cup {<<turn, k>> : k \in {k \in 1..Len(names) : names[k] = s}}
  PROVE  Tallied(NameAll(st, names, turn), B) /\ NameAll(st, names, turn).focus = st.focus
<1>1. PICK n \in Nat : n = Len(names) /\ \A k \in 1..n : names[k] \in Sku
  OBVIOUS
<1>2. st \in MentionState
  BY DEF Tallied
<1>3. PICK f : Names(f, st, names, turn)
  BY <1>2, NameAllStep
<1> DEFINE At(s, i) == {<<turn, k>> : k \in {k \in 1..i : names[k] = s}}
           C(i) == [s \in Sku |-> A[s] \cup At(s, i)]
<1>4. PICK P : P = {i \in 0..n : Tallied(f[i], C(i)) /\ f[i].focus = st.focus}
  OBVIOUS
<1>5. 0 \in P
  <2>1. \A s \in Sku : C(0)[s] = A[s]
    OBVIOUS
  <2> HIDE DEF C
  <2>2. Tallied(st, C(0))
    BY <2>1 DEF Tallied
  <2> QED
    BY <1>3, <1>4, <2>2 DEF Names
<1>6. ASSUME NEW i \in 1..n, i - 1 \in P PROVE i \in P
  <2>1. Tallied(f[i - 1], C(i - 1)) /\ f[i - 1].focus = st.focus
    BY <1>4, <1>6
  <2>2. f[i] = Bump(f[i - 1], names[i], turn) /\ names[i] \in Sku
    BY <1>1, <1>3 DEF Names
  <2>3. \A s \in Sku : At(s, i) = IF s = names[i] THEN At(s, i - 1) \cup {<<turn, i>>}
                                  ELSE At(s, i - 1)
    OBVIOUS
  <2>4. \A s \in Sku : <<turn, i>> \notin At(s, i - 1)
    OBVIOUS
  <2> HIDE DEF At
  <2>5. <<turn, i>> \notin C(i - 1)[names[i]]
    BY <1>1, <2>2, <2>4
  <2>6. \A s \in Sku : C(i)[s] = IF s = names[i] THEN C(i - 1)[s] \cup {<<turn, i>>} ELSE C(i - 1)[s]
    BY <2>3
  <2> HIDE DEF C
  <2>7. PICK sku, st1, A1, B1, p :
          /\ sku = names[i] /\ A1 = C(i - 1) /\ B1 = C(i)
          /\ st1 = f[i - 1] /\ p = <<turn, i>>
    OBVIOUS
  <2>8. Tallied(st1, A1) /\ Joins(A1, B1, sku, p) /\ sku \in Sku
    BY <2>1, <2>2, <2>5, <2>6, <2>7 DEF Joins
  <2>9. Tallied(Bump(st1, sku, turn), B1) /\ Bump(st1, sku, turn).focus = st1.focus
    BY <2>8, BumpTallies
  <2>10. Tallied(f[i], C(i)) /\ f[i].focus = f[i - 1].focus
    BY <2>2, <2>7, <2>9
  <2> QED
    BY <1>4, <2>1, <2>10
<1>7. n \in P
  <2> HIDE DEF C
  <2>1. \A i \in 0..n : i \in P
    BY <1>5, <1>6, StepByStep
  <2> QED
    BY <2>1
<1>8. \A s \in Sku : C(n)[s] = B[s]
  BY <1>1
<1> HIDE DEF C
<1>9. Tallied(f[n], C(n)) /\ f[n].focus = st.focus
  BY <1>4, <1>7
<1>10. Tallied(f[n], B)
  BY <1>8, <1>9 DEF Tallied
<1> QED
  BY <1>1, <1>3, <1>9, <1>10 DEF Names

(* Taking note of the product in focus. *)
LEMMA FocusMoves ==
  ASSUME NEW st, NEW A, Tallied(st, A), NEW sku \in Sku
  PROVE  /\ Tallied([st EXCEPT !.focus = sku], A)
         /\ [st EXCEPT !.focus = sku].focus = sku
<1>1. PICK fo \in Sku \cup {NoSku}, t \in [Sku -> Nat], l \in [Sku -> Nat], se \in Seq(Sku) :
        st = [focus |-> fo, total |-> t, last |-> l, seen |-> se]
  BY DEF Tallied, MentionState
<1>2. [st EXCEPT !.focus = sku] = [focus |-> sku, total |-> t, last |-> l, seen |-> se]
  <2>1. [[focus |-> fo, total |-> t, last |-> l, seen |-> se] EXCEPT !.focus = sku]
          = [focus |-> sku, total |-> t, last |-> l, seen |-> se]
    OBVIOUS
  <2> QED
    BY <1>1, <2>1
<1>3. [focus |-> sku, total |-> t, last |-> l, seen |-> se] \in MentionState
  <2>1. PICK F, N, Q : F = Sku \cup {NoSku} /\ N = [Sku -> Nat] /\ Q = Seq(Sku)
    OBVIOUS
  <2>2. sku \in F /\ t \in N /\ l \in N /\ se \in Q
    BY <2>1
  <2>3. [focus |-> sku, total |-> t, last |-> l, seen |-> se]
          \in [focus : F, total : N, last : N, seen : Q]
    BY <2>2
  <2> QED
    BY <2>1, <2>3 DEF MentionState
<1>4. PICK bt : bt = [focus |-> sku, total |-> t, last |-> l, seen |-> se]
  OBVIOUS
<1>5. /\ bt.focus = sku /\ bt.total = st.total /\ bt.seen = st.seen /\ bt \in MentionState
      /\ bt = [st EXCEPT !.focus = sku]
  BY <1>1, <1>2, <1>3, <1>4
<1> QED
  BY <1>5 DEF Tallied

(* A turn adds its mentions, whichever way it makes them. *)
LEMMA TurnTallies ==
  ASSUME NEW st, NEW A, Tallied(st, A), utts \in Seq(Utterance), NEW i \in DOMAIN utts,
         st.focus = Antecedent(i), \A s \in Sku, k \in Nat : <<i, k>> \notin A[s],
         NEW B, \A s \in Sku : B[s] = A[s] \cup ({i} \X Mentioned(s, i))
  PROVE  /\ Tallied(MentionTurn(st, utts[i], i), B)
         /\ MentionTurn(st, utts[i], i).focus
              = IF utts[i].line.names # <<>> THEN Last(utts[i].line.names) ELSE Antecedent(i)
<1>1. PICK u : u = utts[i]
  OBVIOUS
<1>2. PICK names \in Seq(Sku) : names = u.line.names
  <2>1. u \in Utterance
    BY <1>1
  <2>2. u.line.names \in Seq(Sku)
    BY <2>1 DEF Utterance, SpokenLine
  <2> QED
    BY <2>2
<1>3. PICK n \in Nat : n = Len(names) /\ \A k \in 1..n : names[k] \in Sku
  OBVIOUS
<1>4. i \in Nat
  OBVIOUS
<1>5. \A s \in Sku : Mentioned(s, i) =
        {k \in 0..n : IF k > 0 THEN names[k] = s ELSE names = <<>> /\ u.line.refers /\ Antecedent(i) = s}
  BY <1>1, <1>2, <1>3 DEF Mentioned
<1>6. CASE names # <<>>
  <2>1. \A s \in Sku : Mentioned(s, i) = {k \in 1..n : names[k] = s}
    BY <1>5, <1>6
  <2>2. \A s \in Sku : {i} \X Mentioned(s, i)
          = {<<i, k>> : k \in {k \in 1..Len(names) : names[k] = s}}
    BY <1>3, <2>1
  <2>3. \A s \in Sku : B[s] = A[s] \cup {<<i, k>> : k \in {k \in 1..Len(names) : names[k] = s}}
    BY <2>2
  <2>4. \A s \in Sku, k \in 1..Len(names) : <<i, k>> \notin A[s]
    OBVIOUS
  <2>5. Tallied(NameAll(st, names, i), B)
    BY <1>4, <2>3, <2>4, NamesTally
  <2>6. n > 0 /\ Last(names) \in Sku
    BY <1>3, <1>6 DEF Last
  <2>7. MentionTurn(st, u, i) = [NameAll(st, names, i) EXCEPT !.focus = Last(names)]
    BY <1>2, <1>6 DEF MentionTurn
  <2>8. Tallied(MentionTurn(st, u, i), B) /\ MentionTurn(st, u, i).focus = Last(names)
    BY <2>5, <2>6, <2>7, FocusMoves
  <2> QED
    BY <1>1, <1>2, <1>6, <2>8
<1>7. CASE names = <<>> /\ u.line.refers /\ st.focus \in Sku
  <2>1. PICK sku, p : sku \in Sku /\ sku = st.focus /\ p = <<i, 0>>
    BY <1>7
  <2>2. \A s \in Sku : Mentioned(s, i) = IF s = sku THEN {0} ELSE {}
    BY <1>3, <1>5, <1>7, <2>1
  <2>3. \A s \in Sku : {i} \X Mentioned(s, i) = IF s = sku THEN {p} ELSE {}
    BY <2>1, <2>2
  <2>4. Joins(A, B, sku, p)
    BY <2>1, <2>3 DEF Joins
  <2>5. Tallied(Bump(st, sku, i), B) /\ Bump(st, sku, i).focus = st.focus
    BY <1>4, <2>1, <2>4, BumpTallies
  <2>6. MentionTurn(st, u, i) = Bump(st, sku, i)
    BY <1>2, <1>7, <2>1 DEF MentionTurn
  <2> QED
    BY <1>1, <1>2, <1>7, <2>5, <2>6
<1>8. CASE names = <<>> /\ ~(u.line.refers /\ st.focus \in Sku)
  <2>1. \A s \in Sku : Mentioned(s, i) = {}
    BY <1>3, <1>5, <1>8
  <2>2. \A s \in Sku : B[s] = A[s]
    BY <2>1
  <2>3. Tallied(st, B)
    BY <2>2 DEF Tallied
  <2>4. MentionTurn(st, u, i) = st
    BY <1>2, <1>8 DEF MentionTurn
  <2> QED
    BY <1>1, <1>2, <1>8, <2>3, <2>4
<1> QED
  BY <1>6, <1>7, <1>8

(* Every turn leaves a state of the resolver. *)
LEMMA TurnTyped ==
  ASSUME NEW st \in MentionState, NEW u \in Utterance, NEW i \in Nat
  PROVE  MentionTurn(st, u, i) \in MentionState
<1>1. PICK names \in Seq(Sku) : names = u.line.names
  <2>1. u.line.names \in Seq(Sku)
    BY DEF Utterance, SpokenLine
  <2> QED
    BY <2>1
<1>2. PICK n \in Nat : n = Len(names) /\ \A k \in 1..n : names[k] \in Sku
  OBVIOUS
<1>3. CASE names # <<>>
  <2>1. PICK bt \in MentionState : bt = NameAll(st, names, i)
    <3>1. PICK f : Names(f, st, names, i)
      BY NameAllStep
    <3>2. n \in 0..Len(names)
      BY <1>2
    <3> QED
      BY <1>2, <3>1, <3>2 DEF Names
  <2>2. n > 0 /\ Last(names) \in Sku
    BY <1>2, <1>3 DEF Last
  <2>3. [bt EXCEPT !.focus = Last(names)] \in MentionState
    <3>1. PICK F, N, Q, sku : /\ F = Sku \cup {NoSku} /\ N = [Sku -> Nat] /\ Q = Seq(Sku)
                              /\ sku = Last(names)
      OBVIOUS
    <3>2. bt \in [focus : F, total : N, last : N, seen : Q] /\ sku \in F
      BY <2>2, <3>1 DEF MentionState
    <3>3. [bt EXCEPT !.focus = sku] \in [focus : F, total : N, last : N, seen : Q]
      BY <3>2
    <3> QED
      BY <3>1, <3>3 DEF MentionState
  <2> QED
    BY <1>1, <1>3, <2>1, <2>3 DEF MentionTurn
<1>4. CASE names = <<>> /\ u.line.refers /\ st.focus \in Sku
  BY <1>1, <1>4, Bumped DEF MentionTurn
<1>5. CASE names = <<>> /\ ~(u.line.refers /\ st.focus \in Sku)
  BY <1>1, <1>5 DEF MentionTurn
<1> QED
  BY <1>3, <1>4, <1>5

(* f is the recursive function of Mentions: the state after so many turns. *)
MentionsBy(f, us) ==
  /\ Mentions(us) = f[Len(us)]
  /\ f[0] = NoMentions
  /\ \A i \in 1..Len(us) : f[i] = MentionTurn(f[i - 1], us[i], i)

(* The turns are read one by one. *)
LEMMA MentionsStep ==
  ASSUME NEW us \in Seq(Utterance)
  PROVE  \E f : MentionsBy(f, us)
<1>1. PICK n \in Nat : n = Len(us) /\ \A k \in 1..n : us[k] \in Utterance
  OBVIOUS
<1>2. PICK V : V = MentionState
  OBVIOUS
<1> DEFINE Body(g) == [i \in 0..Len(us) |->
                         IF i = 0 THEN NoMentions ELSE MentionTurn(g[i - 1], us[i], i)]
<1>3. PICK g : g = CHOOSE h : h = Body(h)
  OBVIOUS
<1>4. Mentions(us) = g[n]
  BY <1>1, <1>3 DEF Mentions
<1>5. PICK step : step = [p \in (1..n) \X V |-> MentionTurn(p[2], us[p[1]], p[1])]
  OBVIOUS
<1>6. \A i \in 1..n, q \in V : step[<<i, q>>] = MentionTurn(q, us[i], i)
  BY <1>5
<1>7. NoMentions \in V
  <2>1. PICK F, N, Q : F = Sku \cup {NoSku} /\ N = [Sku -> Nat] /\ Q = Seq(Sku)
    OBVIOUS
  <2>2. PICK t : t = [s \in Sku |-> 0]
    OBVIOUS
  <2>3. NoSku \in F /\ t \in N /\ <<>> \in Q
    BY <2>1, <2>2
  <2>4. [focus |-> NoSku, total |-> t, last |-> t, seen |-> <<>>]
          \in [focus : F, total : N, last : N, seen : Q]
    BY <2>3
  <2> QED
    BY <1>2, <2>1, <2>2, <2>4 DEF MentionState, NoMentions
<1>8. Closed(step, n, V)
  <2>1. \A i \in 1..n, q \in V : MentionTurn(q, us[i], i) \in V
    BY <1>1, <1>2, TurnTyped
  <2> QED
    BY <1>6, <2>1 DEF Closed
<1>9. PICK f : Computes(f, n, V, NoMentions, step)
  BY <1>7, <1>8, Recursion
<1>10. /\ f = [i \in 0..n |-> f[i]] /\ f[0] = NoMentions
       /\ \A i \in 1..n : f[i] = MentionTurn(f[i - 1], us[i], i)
  <2>1. \A i \in 1..n : f[i - 1] \in V /\ f[i] = step[<<i, f[i - 1]>>]
    BY <1>9, ComputesStep
  <2>2. f = [i \in 0..n |-> f[i]] /\ f[0] = NoMentions
    BY <1>9 DEF Computes
  <2> QED
    BY <1>6, <2>1, <2>2
<1>11. f = Body(f)
  <2>1. PICK h : h = f
    OBVIOUS
  <2>2. f = [i \in 0..n |-> IF i = 0 THEN NoMentions ELSE MentionTurn(h[i - 1], us[i], i)]
    <3>1. ASSUME NEW i \in 0..n
          PROVE  f[i] = IF i = 0 THEN NoMentions ELSE MentionTurn(h[i - 1], us[i], i)
      <4>1. CASE i = 0
        BY <1>10, <4>1
      <4>2. CASE i # 0
        <5>1. i \in 1..n
          BY <4>2
        <5> QED
          BY <1>10, <2>1, <4>2, <5>1
      <4> QED
        BY <4>1, <4>2
    <3> QED
      BY <1>10, <3>1
  <2> QED
    BY <1>1, <2>1, <2>2
<1>12. g = Body(g)
  <2> HIDE DEF Body
  <2> QED
    BY <1>3, <1>11
<1>13. PICK h : h = g
  OBVIOUS
<1>14. g = [i \in 0..n |-> IF i = 0 THEN NoMentions ELSE MentionTurn(h[i - 1], us[i], i)]
  BY <1>1, <1>12, <1>13
<1>15. g[0] = NoMentions /\ \A i \in 1..n : g[i] = MentionTurn(g[i - 1], us[i], i)
  BY <1>13, <1>14
<1> QED
  BY <1>1, <1>4, <1>15 DEF MentionsBy

(* What a pronoun stands for in the next turn. *)
LEMMA NextAntecedent ==
  /\ Antecedent(1) = NoSku
  /\ \A i \in Nat \ {0} :
       Antecedent(i + 1) = IF utts[i].line.names # <<>> THEN Last(utts[i].line.names) ELSE Antecedent(i)
<1> DEFINE NamedBefore(i) == {j \in 1..(i - 1) : utts[j].line.names # <<>>}
<1>1. NamedBefore(1) = {}
  OBVIOUS
<1>2. Antecedent(1) = NoSku
  BY <1>1 DEF Antecedent
<1>3. ASSUME NEW i \in Nat \ {0}
      PROVE  Antecedent(i + 1)
               = IF utts[i].line.names # <<>> THEN Last(utts[i].line.names) ELSE Antecedent(i)
  <2>1. NamedBefore(i + 1) = NamedBefore(i) \cup (IF utts[i].line.names # <<>> THEN {i} ELSE {})
    OBVIOUS
  <2>2. CASE utts[i].line.names # <<>>
    <3>1. PICK T : T = NamedBefore(i + 1)
      OBVIOUS
    <3>2. T \subseteq 0..i /\ i \in T
      BY <2>2, <3>1
    <3>3. Max(T) \in T /\ \A x \in T : x <= Max(T)
      BY <3>2, LargestIn
    <3>4. Max(T) = i
      <4>1. PICK m \in 0..i : m = Max(T) /\ i <= m
        BY <3>2, <3>3
      <4> QED
        BY <4>1
    <3>5. Antecedent(i + 1) = IF T = {} THEN NoSku ELSE Last(utts[Max(T)].line.names)
      BY <3>1 DEF Antecedent
    <3> QED
      BY <2>2, <3>2, <3>4, <3>5
  <2>3. CASE utts[i].line.names = <<>>
    <3>1. NamedBefore(i + 1) = NamedBefore(i)
      BY <2>1, <2>3
    <3>2. Antecedent(i + 1) = Antecedent(i)
      BY <3>1 DEF Antecedent
    <3> QED
      BY <2>3, <3>2
  <2> QED
    BY <2>2, <2>3
<1> QED
  BY <1>2, <1>3

(* Where a product is mentioned in the first so many turns. *)
Places(s, n) == UNION {{i} \X Mentioned(s, i) : i \in 1..n}

(* After every turn the totals count the places so far. *)
LEMMA MentionsTally ==
  ASSUME utts \in Seq(Utterance)
  PROVE  Tallied(Mentions(utts), [s \in Sku |-> Places(s, Len(utts))])
<1>1. PICK n \in Nat : n = Len(utts) /\ DOMAIN utts = 1..n
  OBVIOUS
<1>2. PICK f : MentionsBy(f, utts)
  BY MentionsStep
<1> DEFINE A(i) == [s \in Sku |-> Places(s, i)]
<1>3. PICK P : P = {i \in 0..n : Tallied(f[i], A(i)) /\ f[i].focus = Antecedent(i + 1)}
  OBVIOUS
<1>4. 0 \in P
  <2>1. \A s \in Sku : Places(s, 0) = {}
    BY DEF Places
  <2>2. \A s \in Sku : A(0)[s] = {}
    BY <2>1
  <2> HIDE DEF A
  <2>3. PICK F, N, Q : F = Sku \cup {NoSku} /\ N = [Sku -> Nat] /\ Q = Seq(Sku)
    OBVIOUS
  <2>4. PICK t : t \in N /\ t = [s \in Sku |-> 0] /\ \A s \in Sku : t[s] = 0
    <3>1. PICK t : t = [s \in Sku |-> 0]
      OBVIOUS
    <3>2. t \in [Sku -> Nat] /\ \A s \in Sku : t[s] = 0
      BY <3>1
    <3> QED
      BY <2>3, <3>1, <3>2
  <2>5. [focus |-> NoSku, total |-> t, last |-> t, seen |-> <<>>]
          \in [focus : F, total : N, last : N, seen : Q]
    BY <2>3, <2>4
  <2>6. PICK none \in MentionState :
          /\ none = NoMentions /\ none.focus = NoSku /\ none.total = t /\ none.seen = <<>>
    BY <2>3, <2>4, <2>5 DEF MentionState, NoMentions
  <2>7. Different(<<>>) /\ ToSet(<<>>) = {}
    BY DEF Different, ToSet
  <2>8. \A s \in Sku : IsFiniteSet(A(0)[s]) /\ Cardinality(A(0)[s]) = 0
    BY <2>2, FS_EmptySet
  <2>9. {s \in Sku : t[s] > 0} = {}
    BY <2>4
  <2>10. Tallied(none, A(0))
    BY <2>4, <2>6, <2>7, <2>8, <2>9 DEF Tallied
  <2>11. none.focus = Antecedent(0 + 1)
    BY <2>6, NextAntecedent
  <2>12. f[0] = none
    BY <1>2, <2>6 DEF MentionsBy
  <2> QED
    BY <1>3, <2>10, <2>11, <2>12
<1>5. ASSUME NEW i \in 1..n, i - 1 \in P PROVE i \in P
  <2>1. PICK st, A1, B1 : st = f[i - 1] /\ A1 = A(i - 1) /\ B1 = A(i)
    OBVIOUS
  <2>2. Tallied(st, A1) /\ st.focus = Antecedent(i)
    <3>1. Antecedent(i - 1 + 1) = Antecedent(i)
      <4>1. i - 1 + 1 = i
        OBVIOUS
      <4> QED
        BY <4>1
    <3> HIDE DEF A
    <3> QED
      BY <1>3, <1>5, <2>1, <3>1
  <2>3. \A s \in Sku, k \in Nat : <<i, k>> \notin A1[s]
    <3>1. \A s \in Sku : A1[s] = Places(s, i - 1)
      BY <2>1
    <3>2. \A s \in Sku, k \in Nat : <<i, k>> \notin Places(s, i - 1)
      <4> SUFFICES ASSUME NEW s \in Sku, NEW k \in Nat, <<i, k>> \in Places(s, i - 1)
                   PROVE  FALSE
        OBVIOUS
      <4>1. PICK j \in 1..(i - 1) : <<i, k>> \in {j} \X Mentioned(s, j)
        BY DEF Places
      <4>2. i = j
        BY <4>1
      <4> QED
        BY <4>2
    <3> QED
      BY <3>1, <3>2
  <2>4. \A s \in Sku : B1[s] = A1[s] \cup ({i} \X Mentioned(s, i))
    <3>1. \A s \in Sku : A1[s] = Places(s, i - 1) /\ B1[s] = Places(s, i)
      BY <2>1
    <3>2. 1..i = (1..(i - 1)) \cup {i}
      OBVIOUS
    <3>3. \A s \in Sku : Places(s, i) = Places(s, i - 1) \cup ({i} \X Mentioned(s, i))
      BY <3>2 DEF Places
    <3> QED
      BY <3>1, <3>3
  <2>5. PICK u : u = utts[i]
    OBVIOUS
  <2>6. /\ Tallied(MentionTurn(st, u, i), B1)
        /\ MentionTurn(st, u, i).focus
              = IF u.line.names # <<>> THEN Last(u.line.names) ELSE Antecedent(i)
    BY <1>1, <2>2, <2>3, <2>4, <2>5, TurnTallies
  <2>7. f[i] = MentionTurn(st, u, i)
    BY <1>1, <1>2, <2>1, <2>5 DEF MentionsBy
  <2>8. Tallied(f[i], A(i)) /\ f[i].focus = Antecedent(i + 1)
    <3>1. Antecedent(i + 1) = IF u.line.names # <<>> THEN Last(u.line.names) ELSE Antecedent(i)
      <4>1. i \in Nat \ {0}
        OBVIOUS
      <4> HIDE DEF A
      <4> QED
        BY <2>5, <4>1, NextAntecedent
    <3> HIDE DEF A
    <3> QED
      BY <2>1, <2>6, <2>7, <3>1
  <2> HIDE DEF A
  <2> QED
    BY <1>3, <2>8
<1> HIDE DEF A
<1>6. \A i \in 0..n : i \in P
  BY <1>4, <1>5, StepByStep
<1>7. Tallied(f[n], A(n))
  BY <1>3, <1>6
<1> QED
  BY <1>1, <1>2, <1>7 DEF MentionsBy, A

(* The place of an element of a sequence, which is no other element's. *)
LEMMA PlaceFacts ==
  ASSUME NEW S, NEW s \in Seq(S)
  PROVE  /\ \A x \in ToSet(s) : Place(s, x) \in Nat
         /\ \A x, y \in ToSet(s) : Place(s, x) = Place(s, y) => x = y
<1>1. ASSUME NEW x \in ToSet(s) PROVE Place(s, x) \in DOMAIN s /\ s[Place(s, x)] = x
  <2>1. \E i \in DOMAIN s : s[i] = x
    BY DEF ToSet
  <2> QED
    BY <2>1 DEF Place
<1> QED
  BY <1>1

(* More before less, then later before earlier, then by place. *)
MoreFirst(before, S, t, l, p) ==
  /\ \A x \in S : t[x] \in Int /\ l[x] \in Int /\ p[x] \in Int
  /\ \A x, y \in S : p[x] = p[y] => x = y
  /\ \A x, y \in S : <<x, y>> \in before <=>
       \/ t[x] > t[y]
       \/ t[x] = t[y] /\ l[x] > l[y]
       \/ t[x] = t[y] /\ l[x] = l[y] /\ p[x] < p[y]

(* It is a strict total order. *)
LEMMA MoreOrders ==
  ASSUME NEW S, NEW t, NEW l, NEW p, NEW before, MoreFirst(before, S, t, l, p)
  PROVE  Orders(before, S)
<1> USE DEF MoreFirst
<1>1. ASSUME NEW x \in S, NEW y \in S, <<x, y>> \in before PROVE <<y, x>> \notin before
  BY <1>1
<1>2. ASSUME NEW x \in S, NEW y \in S, x # y PROVE <<x, y>> \in before \/ <<y, x>> \in before
  BY <1>2
<1>3. ASSUME NEW x \in S, NEW y \in S, NEW z \in S, <<x, y>> \in before, <<y, z>> \in before
      PROVE  <<x, z>> \in before
  BY <1>3
<1> QED
  BY <1>1, <1>2, <1>3 DEF Orders

(* Those discussed, every one once, most discussed first. *)
LEMMA DiscussedFacts ==
  ASSUME NEW us, NEW m, m = Mentions(us), m \in MentionState, Different(m.seen)
  PROVE  /\ Discussed(us) \in Seq(Sku) /\ Different(Discussed(us))
         /\ ToSet(Discussed(us)) = ToSet(m.seen)
         /\ \A k, l \in DOMAIN Discussed(us) :
              k < l => m.total[Discussed(us)[k]] >= m.total[Discussed(us)[l]]
<1>1. PICK t, l, seen, S :
        t = m.total /\ l = m.last /\ seen = m.seen /\ S = ToSet(seen)
  OBVIOUS
<1>2. t \in [Sku -> Nat] /\ l \in [Sku -> Nat] /\ seen \in Seq(Sku)
  BY <1>1 DEF MentionState
<1>3. S \subseteq Sku /\ IsFiniteSet(S)
  <2>1. PICK n \in Nat : n = Len(seen) /\ DOMAIN seen = 1..n /\ \A i \in 1..n : seen[i] \in Sku
    BY <1>2
  <2>2. S \subseteq Sku /\ seen \in Surjection(1..n, S)
    BY <1>1, <1>2, <2>1 DEF ToSet, Surjection
  <2>3. IsFiniteSet(1..n)
    BY FS_Interval
  <2> QED
    BY <2>2, <2>3, FS_Surjection
<1>4. PICK p : p = [x \in S |-> Place(seen, x)]
  OBVIOUS
<1>5. (\A x \in S : p[x] \in Nat) /\ (\A x, y \in S : p[x] = p[y] => x = y)
  <2>1. \A x \in S : p[x] = Place(seen, x)
    BY <1>4
  <2> QED
    BY <1>1, <1>2, <2>1, PlaceFacts
<1> DEFINE Before(a, b) == \/ t[a] > t[b]
                           \/ t[a] = t[b] /\ l[a] > l[b]
                           \/ t[a] = t[b] /\ l[a] = l[b] /\ Place(seen, a) < Place(seen, b)
<1>6. PICK before : before = {q \in S \X S : Before(q[1], q[2])}
  OBVIOUS
<1>7. Discussed(us) = Ordered(S, before)
  BY <1>1, <1>6 DEF Discussed
<1>8. \A x, y \in S : <<x, y>> \in before <=>
           \/ t[x] > t[y]
           \/ t[x] = t[y] /\ l[x] > l[y]
           \/ t[x] = t[y] /\ l[x] = l[y] /\ p[x] < p[y]
  <2>1. \A x, y \in S : <<x, y>> \in before <=> Before(x, y)
    <3> HIDE DEF Before
    <3> QED
      BY <1>6
  <2> QED
    BY <1>4, <2>1
<1> HIDE DEF Before
<1>10. Orders(before, S)
  <2>1. \A x \in S : t[x] \in Int /\ l[x] \in Int /\ p[x] \in Int
    BY <1>2, <1>3, <1>5
  <2>2. MoreFirst(before, S, t, l, p)
    BY <1>5, <1>8, <2>1 DEF MoreFirst
  <2> QED
    BY <2>2, MoreOrders
<1>11. PICK d : d = Discussed(us)
  OBVIOUS
<1>12. /\ d \in Seq(S) /\ Different(d) /\ ToSet(d) = S
       /\ \A i, j \in DOMAIN d : i < j => <<d[i], d[j]>> \in before
  BY <1>3, <1>7, <1>10, <1>11, OrderedFacts
<1>13. d \in Seq(Sku)
  BY <1>3, <1>12, SeqWider
<1>14. \A i, j \in DOMAIN d : i < j => t[d[i]] >= t[d[j]]
  <2> SUFFICES ASSUME NEW i \in DOMAIN d, NEW j \in DOMAIN d, i < j PROVE t[d[i]] >= t[d[j]]
    OBVIOUS
  <2>1. PICK x \in S, y \in S : x = d[i] /\ y = d[j]
    BY <1>12
  <2>2. <<x, y>> \in before
    BY <1>12, <2>1
  <2>3. t[x] > t[y] \/ t[x] = t[y]
    BY <1>8, <2>2
  <2>4. t[x] \in Nat /\ t[y] \in Nat
    BY <1>2, <1>3
  <2> QED
    BY <2>1, <2>3, <2>4
<1> QED
  BY <1>1, <1>11, <1>12, <1>13, <1>14

(* Every mention of every stored visit is attributed. *)
LEMMA AttributedSoFar == AnalysisTypeOK => MentionsAttributed
<1> SUFFICES ASSUME AnalysisTypeOK PROVE MentionsAttributed
  OBVIOUS
<1>1. utts \in Seq(Utterance) /\ DOMAIN utts = 1..Len(utts)
  <2>1. utts \in Seq(Utterance)
    BY DEF AnalysisTypeOK
  <2> QED
    BY <2>1
<1>2. PICK m, d : m = Mentions(utts) /\ d = Discussed(utts)
  OBVIOUS
<1>3. PICK A : A = [s \in Sku |-> Places(s, Len(utts))]
  OBVIOUS
<1>4. Tallied(m, A)
  BY <1>1, <1>2, <1>3, MentionsTally
<1>5. \A s \in Sku :
        A[s] = UNION {{i} \X Mentioned(s, i) : i \in DOMAIN utts}
  BY <1>1, <1>3 DEF Places
<1>6. \A s \in Sku : m.total[s] = Cardinality(UNION {{i} \X Mentioned(s, i) : i \in DOMAIN utts})
  BY <1>4, <1>5 DEF Tallied
<1>7. m \in MentionState /\ Different(m.seen) /\ ToSet(m.seen) = {s \in Sku : m.total[s] > 0}
  BY <1>4 DEF Tallied
<1>8. /\ ToSet(d) = ToSet(m.seen)
      /\ \A k, l \in DOMAIN d : k < l => m.total[d[k]] >= m.total[d[l]]
  BY <1>2, <1>7, DiscussedFacts
<1> QED
  BY <1>2, <1>6, <1>7, <1>8 DEF MentionsAttributed

-----------------------------------------------------------------------------
(* Ranking, and the products of the notes. *)

(* The first n of a sequence. *)
LEMMA TakeFacts ==
  ASSUME NEW S, NEW s \in Seq(S), NEW n \in Nat
  PROVE  /\ Take(s, n) \in Seq(S)
         /\ Len(Take(s, n)) = IF n < Len(s) THEN n ELSE Len(s)
         /\ \A i \in 1..Len(Take(s, n)) : Take(s, n)[i] = s[i]
         /\ ToSet(Take(s, n)) \subseteq ToSet(s)
<1>1. PICK m \in 0..Len(s) : m = IF n < Len(s) THEN n ELSE Len(s)
  OBVIOUS
<1>2. Take(s, n) = SubSeq(s, 1, m)
  BY <1>1 DEF Take
<1>3. PICK q : q = SubSeq(s, 1, m)
  OBVIOUS
<1>4. /\ q \in Seq(S)
      /\ Len(q) = IF 1 <= m THEN m - 1 + 1 ELSE 0
      /\ \A i \in 1..Len(q) : q[i] = s[1 + i - 1]
      /\ ToSet(q) \subseteq ToSet(s)
  <2>1. 1 \in Nat \ {0} /\ m \in Int /\ m <= Len(s)
    BY <1>1
  <2> QED
    BY <1>3, <2>1, SliceFacts
<1>5. Len(q) = m
  BY <1>1, <1>4
<1>6. \A i \in 1..m : q[i] = s[i]
  <2>1. \A i \in 1..m : 1 + i - 1 = i
    OBVIOUS
  <2> QED
    BY <1>4, <1>5, <2>1
<1> QED
  BY <1>1, <1>2, <1>3, <1>4, <1>5, <1>6

-----------------------------------------------------------------------------
(* How well a product fits, found by its sku. *)
Fit(s, needs) == MatchScore(Product[CHOOSE i \in DOMAIN Product : Product[i].sku = s], needs)

(* A fit is a number. *)
LEMMA MatchIsInt ==
  ASSUME NEW i \in DOMAIN Product, NEW needs
  PROVE  MatchScore(Product[i], needs) \in Int
<1>1. PICK p : p = Product[i]
  OBVIOUS
<1>2. p.tier \in DOMAIN Affordability /\ IsFiniteSet(p.keywords)
  <2>1. PICK T : T = [sku : STRING, series : STRING, cooling : BOOLEAN, price : Nat,
                      tier : DOMAIN Affordability, keywords : SUBSET STRING]
    OBVIOUS
  <2>2. p \in T
    <3>1. PICK products \in Seq(T) : products = Product
      BY <2>1, CatalogueAssumption
    <3> QED
      BY <1>1, <3>1
  <2> QED
    BY <1>1, <2>1, <2>2, CatalogueAssumption
<1>3. PICK affordable, premium \in Int : affordable = Affordability[p.tier] /\ premium = Premium[p.tier]
  <2>1. /\ \A t \in DOMAIN Affordability : Affordability[t] \in Int /\ Premium[t] \in Int
    BY DEF Affordability, Premium
  <2> QED
    BY <1>2, <2>1
<1>4. PICK overlap \in Int : overlap = 4 * Cardinality(p.keywords \cap needs)
  <2>1. IsFiniteSet(p.keywords \cap needs)
    BY <1>2, FS_Subset
  <2>2. PICK c \in Nat : c = Cardinality(p.keywords \cap needs)
    BY <2>1, FS_CardinalityType
  <2>3. 4 * c \in Int
    OBVIOUS
  <2> QED
    BY <2>2, <2>3
<1>5. PICK total \in Int : MatchScore(p, needs) = Clamp(total, 40, 99)
  <2> DEFINE When(cond, n) == IF cond THEN n ELSE 0
  <2>1. \A cond, n : n \in Int => When(cond, n) \in Int
    OBVIOUS
  <2>2. /\ When("ortho" \in needs, IF p.series = "ortho" THEN 22 ELSE -8) \in Int
        /\ When("cooling" \in needs, IF p.cooling THEN 26 ELSE -12) \in Int
        /\ When("soft" \in needs /\ p.series = "luxe", 14) \in Int
        /\ When("firm" \in needs /\ p.series = "ortho", 10) \in Int
        /\ When("warranty" \in needs, 4) \in Int
        /\ (IF overlap < 12 THEN overlap ELSE 12) \in Int
        /\ When("budget" \in needs, Affordability[p.tier]) \in Int
        /\ When("premium" \in needs, Premium[p.tier]) \in Int
    <3>1. /\ (IF p.series = "ortho" THEN 22 ELSE -8) \in Int
          /\ (IF p.cooling THEN 26 ELSE -12) \in Int
          /\ (IF overlap < 12 THEN overlap ELSE 12) \in Int
      OBVIOUS
    <3>2. 14 \in Int /\ 10 \in Int /\ 4 \in Int
      OBVIOUS
    <3> HIDE DEF When
    <3> QED
      BY <1>3, <2>1, <3>1, <3>2
  <2> HIDE DEF When
  <2>3. PICK a \in Int, b \in Int, c \in Int, d \in Int :
          /\ a = When("ortho" \in needs, IF p.series = "ortho" THEN 22 ELSE -8)
          /\ b = When("cooling" \in needs, IF p.cooling THEN 26 ELSE -12)
          /\ c = When("soft" \in needs /\ p.series = "luxe", 14)
          /\ d = When("firm" \in needs /\ p.series = "ortho", 10)
    BY <2>2
  <2>4. PICK e \in Int, f \in Int, g \in Int, h \in Int :
          /\ e = When("warranty" \in needs, 4)
          /\ f = (IF overlap < 12 THEN overlap ELSE 12)
          /\ g = When("budget" \in needs, Affordability[p.tier])
          /\ h = When("premium" \in needs, Premium[p.tier])
    BY <2>2
  <2>5. MatchScore(p, needs) = Clamp(60 + a + b + c + d + e + f + g + h, 40, 99)
    BY <1>4, <2>3, <2>4 DEF MatchScore, When
  <2>6. 60 + a + b + c + d + e + f + g + h \in Int
    OBVIOUS
  <2> QED
    BY <2>5, <2>6
<1>6. Clamp(total, 40, 99) \in Int
  BY DEF Clamp
<1> QED
  BY <1>1, <1>5, <1>6

(* Better before worse, then cheaper before dearer, then by place. *)
BestFirst(before, S, t, l, p) ==
  /\ \A x \in S : t[x] \in Int /\ l[x] \in Int /\ p[x] \in Int
  /\ \A x, y \in S : p[x] = p[y] => x = y
  /\ \A x, y \in S : <<x, y>> \in before <=>
       \/ t[x] > t[y]
       \/ t[x] = t[y] /\ l[x] < l[y]
       \/ t[x] = t[y] /\ l[x] = l[y] /\ p[x] < p[y]

(* It is a strict total order. *)
LEMMA BestOrders ==
  ASSUME NEW S, NEW t, NEW l, NEW p, NEW before, BestFirst(before, S, t, l, p)
  PROVE  Orders(before, S)
<1> USE DEF BestFirst
<1>1. ASSUME NEW x \in S, NEW y \in S, <<x, y>> \in before PROVE <<y, x>> \notin before
  BY <1>1
<1>2. ASSUME NEW x \in S, NEW y \in S, x # y PROVE <<x, y>> \in before \/ <<y, x>> \in before
  BY <1>2
<1>3. ASSUME NEW x \in S, NEW y \in S, NEW z \in S, <<x, y>> \in before, <<y, z>> \in before
      PROVE  <<x, z>> \in before
  BY <1>3
<1> QED
  BY <1>1, <1>2, <1>3 DEF Orders

(* The catalogue sorted by fit has every product once, a better fit before a worse one. *)
LEMMA ByFitFacts ==
  ASSUME NEW ss
  PROVE  /\ ByFit(ss) \in Seq(Sku) /\ Different(ByFit(ss)) /\ ToSet(ByFit(ss)) = Sku
         /\ \A k, l \in DOMAIN ByFit(ss) :
              k < l => Fit(ByFit(ss)[k], Needs(ss)) >= Fit(ByFit(ss)[l], Needs(ss))
<1>1. PICK T : T = [sku : STRING, series : STRING, cooling : BOOLEAN, price : Nat,
                    tier : DOMAIN Affordability, keywords : SUBSET STRING]
  OBVIOUS
<1>2. PICK n \in Nat : n = Len(Product) /\ DOMAIN Product = 1..n /\ \A i \in 1..n : Product[i] \in T
  <2>1. PICK products \in Seq(T) : products = Product
    BY <1>1, CatalogueAssumption
  <2> QED
    BY <2>1
<1>3. PICK S, needs : S = DOMAIN Product /\ needs = Needs(ss)
  OBVIOUS
<1>4. PICK fit, price, at0 :
        /\ fit = [i \in S |-> MatchScore(Product[i], needs)]
        /\ price = [i \in S |-> Product[i].price]
        /\ at0 = [i \in S |-> i]
  OBVIOUS
<1>5. \A i \in S : fit[i] = MatchScore(Product[i], needs) /\ fit[i] \in Int
  BY <1>3, <1>4, MatchIsInt
<1>6. \A i \in S : price[i] = Product[i].price /\ price[i] \in Int /\ at0[i] = i
  <2>1. \A x \in T : x.price \in Int
    BY <1>1
  <2> QED
    BY <1>2, <1>3, <1>4, <2>1
<1> DEFINE Price(i) == Product[i].price
           Before(i, j) == \/ fit[i] > fit[j]
                           \/ fit[i] = fit[j] /\ Price(i) < Price(j)
                           \/ fit[i] = fit[j] /\ Price(i) = Price(j) /\ i < j
<1>7. PICK before : before = {p \in S \X S : Before(p[1], p[2])}
  OBVIOUS
<1>8. PICK at : at = Ordered(S, before)
  OBVIOUS
<1>9. ByFit(ss) = [k \in DOMAIN at |-> Product[at[k]].sku]
  BY <1>3, <1>4, <1>7, <1>8 DEF ByFit
<1>10. BestFirst(before, S, fit, price, at0)
  <2>1. \A i, j \in S : <<i, j>> \in before <=> Before(i, j)
    <3> HIDE DEF Before
    <3> QED
      BY <1>7
  <2>2. \A i, j \in S : <<i, j>> \in before <=>
          \/ fit[i] > fit[j]
          \/ fit[i] = fit[j] /\ price[i] < price[j]
          \/ fit[i] = fit[j] /\ price[i] = price[j] /\ at0[i] < at0[j]
    <3> SUFFICES ASSUME NEW i \in S, NEW j \in S
                 PROVE  <<i, j>> \in before <=>
                          \/ fit[i] > fit[j]
                          \/ fit[i] = fit[j] /\ price[i] < price[j]
                          \/ fit[i] = fit[j] /\ price[i] = price[j] /\ at0[i] < at0[j]
      OBVIOUS
    <3>1. Price(i) = price[i] /\ Price(j) = price[j] /\ at0[i] = i /\ at0[j] = j
      BY <1>6
    <3>2. <<i, j>> \in before <=> Before(i, j)
      BY <2>1
    <3> HIDE DEF Price
    <3> QED
      BY <3>1, <3>2
  <2>3. \A i \in S : at0[i] \in Int
    BY <1>2, <1>3, <1>6
  <2>4. \A i, j \in S : at0[i] = at0[j] => i = j
    BY <1>6
  <2> HIDE DEF Before
  <2> QED
    BY <1>5, <1>6, <2>2, <2>3, <2>4 DEF BestFirst
<1> HIDE DEF Before, Price
<1>11. IsFiniteSet(S)
  BY <1>2, <1>3, FS_Interval
<1>12. /\ at \in Seq(S) /\ Different(at) /\ ToSet(at) = S
       /\ \A k, l \in DOMAIN at : k < l => <<at[k], at[l]>> \in before
  BY <1>8, <1>10, <1>11, BestOrders, OrderedFacts
<1>13. PICK m \in Nat : DOMAIN at = 1..m /\ \A k \in 1..m : at[k] \in S
  BY <1>12
<1>14. PICK q : q = ByFit(ss)
  OBVIOUS
<1>15. /\ DOMAIN q = 1..m /\ Len(q) = m /\ q \in Seq(Sku)
       /\ \A k \in 1..m : q[k] = Product[at[k]].sku
  <2>1. q = [k \in 1..m |-> Product[at[k]].sku]
    BY <1>9, <1>13, <1>14
  <2>2. \A k \in 1..m : Product[at[k]].sku \in Sku
    BY <1>3, <1>13 DEF Sku
  <2> QED
    BY <2>1, <2>2
<1>16. \A i, j \in S : Product[i].sku = Product[j].sku => i = j
  BY <1>3, CatalogueAssumption
<1>17. Different(q)
  <2> SUFFICES ASSUME NEW k \in 1..m, NEW l \in 1..m, q[k] = q[l] PROVE k = l
    BY <1>15 DEF Different
  <2>1. at[k] = at[l]
    BY <1>13, <1>15, <1>16
  <2> QED
    BY <1>12, <1>13, <2>1 DEF Different
<1>18. ToSet(q) = Sku
  <2>1. ToSet(q) \subseteq Sku
    BY <1>15 DEF ToSet
  <2>2. ASSUME NEW s \in Sku PROVE s \in ToSet(q)
    <3>1. PICK i \in S : s = Product[i].sku
      BY <1>3 DEF Sku
    <3>2. PICK k \in 1..m : at[k] = i
      BY <1>12, <1>13 DEF ToSet
    <3> QED
      BY <1>15, <3>1, <3>2 DEF ToSet
  <2> QED
    BY <2>1, <2>2
<1>19. \A k \in 1..m : Fit(q[k], needs) = fit[at[k]]
  <2> SUFFICES ASSUME NEW k \in 1..m PROVE Fit(q[k], needs) = fit[at[k]]
    OBVIOUS
  <2>1. PICK i \in S : i = at[k] /\ q[k] = Product[i].sku
    BY <1>13, <1>15
  <2>2. (CHOOSE j \in DOMAIN Product : Product[j].sku = q[k]) = i
    <3>1. \A j \in DOMAIN Product : Product[j].sku = q[k] <=> j = i
      BY <1>3, <1>16, <2>1
    <3> QED
      BY <1>3, <3>1
  <2> QED
    BY <1>5, <2>1, <2>2 DEF Fit
<1>20. ASSUME NEW k \in 1..m, NEW l \in 1..m, k < l PROVE Fit(q[k], needs) >= Fit(q[l], needs)
  <2>1. PICK i \in S, j \in S : i = at[k] /\ j = at[l]
    BY <1>13
  <2>2. <<i, j>> \in before
    BY <1>12, <1>13, <1>20, <2>1
  <2>3. fit[i] > fit[j] \/ fit[i] = fit[j]
    BY <1>10, <2>2 DEF BestFirst
  <2>4. fit[i] \in Int /\ fit[j] \in Int
    BY <1>5
  <2>5. fit[i] >= fit[j]
    BY <2>3, <2>4
  <2> QED
    BY <1>19, <2>1, <2>5
<1> QED
  BY <1>3, <1>14, <1>15, <1>17, <1>18, <1>20

(* A position in the second of two joined sequences. *)
LEMMA Beyond ==
  ASSUME NEW D \in Nat, NEW M \in Nat, NEW m \in Nat, m <= D + M, NEW i \in 1..m, i > D
  PROVE  i - D \in 1..M /\ D + (i - D) = i
OBVIOUS

(* The shortlist: different products of the catalogue, as many as asked for and there   *)
(* are, those discussed in front, and none of the others fits worse than one left out. *)
LEMMA RankFacts ==
  ASSUME NEW ss, NEW d \in Seq(Sku), Different(d), NEW limit \in Nat
  PROVE  LET r == RankProducts(ss, d, limit)
         IN /\ r \in Seq(Sku) /\ Different(r) /\ Len(d) <= Cardinality(Sku)
            /\ Cardinality(Sku) \in Nat
            /\ Len(r) = IF limit < Cardinality(Sku) THEN limit ELSE Cardinality(Sku)
            /\ \A i \in 1..Len(r) : i <= Len(d) => r[i] = d[i]
            /\ Len(d) < limit => \A i \in 1..Len(r), s \in Sku \ ToSet(r) :
                 i > Len(d) => Fit(r[i], Needs(ss)) >= Fit(s, Needs(ss))
<1>1. PICK b, needs : b = ByFit(ss) /\ needs = Needs(ss)
  OBVIOUS
<1>2. /\ b \in Seq(Sku) /\ Different(b) /\ ToSet(b) = Sku
      /\ \A k, l \in DOMAIN b : k < l => Fit(b[k], needs) >= Fit(b[l], needs)
  BY <1>1, ByFitFacts
<1>3. ToSet(d) \subseteq Sku
  BY DEF ToSet
<1>4. Only(d, Sku) = d
  BY <1>3, OnlyAll
<1>5. PICK left, rest : left = Sku \ ToSet(d) /\ rest = Only(b, left)
  OBVIOUS
<1>6. rest \in Seq(Sku) /\ Different(rest) /\ ToSet(rest) = left
  <2>1. ToSet(b) \cap left = left
    BY <1>2, <1>5
  <2> QED
    BY <1>2, <1>5, <2>1, OnlyFacts, OnlyDifferent
<1>7. PICK full : full = d \o rest
  OBVIOUS
<1>8. full \in Seq(Sku) /\ Len(full) = Len(d) + Len(rest) /\ Different(full)
  <2>1. ToSet(d) \cap ToSet(rest) = {}
    BY <1>5, <1>6
  <2> QED
    BY <1>6, <1>7, <2>1, JoinDifferent
<1>9. PICK D, M \in Nat : D = Len(d) /\ M = Len(rest) /\ DOMAIN rest = 1..M
  BY <1>6
<1>10. (\A i \in 1..D : full[i] = d[i]) /\ (\A i \in 1..M : full[D + i] = rest[i])
  BY <1>6, <1>7, <1>9
<1>11. ToSet(full) = Sku
  <2>1. ToSet(full) \subseteq Sku
    BY <1>8 DEF ToSet
  <2>2. ASSUME NEW s \in Sku PROVE s \in ToSet(full)
    <3>1. CASE s \in ToSet(d)
      <4>1. PICK i \in 1..D : d[i] = s
        BY <1>9, <3>1 DEF ToSet
      <4>2. i \in 1..Len(full) /\ full[i] = s
        BY <1>8, <1>9, <1>10, <4>1
      <4> QED
        BY <1>8, <4>2 DEF ToSet
    <3>2. CASE s \notin ToSet(d)
      <4>0. s \in ToSet(rest)
        BY <1>5, <1>6, <3>2
      <4>1. PICK i \in 1..M : rest[i] = s
        BY <1>9, <4>0 DEF ToSet
      <4>2. D + i \in 1..Len(full) /\ full[D + i] = s
        BY <1>8, <1>9, <1>10, <4>1
      <4> QED
        BY <1>8, <4>2 DEF ToSet
    <3> QED
      BY <3>1, <3>2
  <2> QED
    BY <2>1, <2>2
<1>12. Cardinality(Sku) = D + M
  BY <1>8, <1>9, <1>11, DifferentCount
<1>13. PICK r : r = RankProducts(ss, d, limit)
  OBVIOUS
<1>14. r = Take(full, limit)
  BY <1>1, <1>4, <1>5, <1>7, <1>13 DEF RankProducts
<1>15. PICK m \in Nat : m = IF limit < D + M THEN limit ELSE D + M
  OBVIOUS
<1>16. /\ r \in Seq(Sku) /\ Different(r) /\ Len(r) = m /\ m <= D + M
       /\ \A i \in 1..m : r[i] = full[i]
  <2>1. Len(full) = D + M
    BY <1>8, <1>9
  <2>2. /\ r \in Seq(Sku) /\ Different(r)
        /\ Len(r) = IF limit < Len(full) THEN limit ELSE Len(full)
        /\ \A i \in 1..Len(r) : r[i] = full[i]
    BY <1>8, <1>14, TakeFacts, TakeDifferent
  <2>3. m <= D + M /\ Len(r) = m
    BY <1>15, <2>1, <2>2
  <2> QED
    BY <2>2, <2>3
<1>17. \A i \in 1..m : i <= D => r[i] = d[i]
  BY <1>9, <1>10, <1>16
<1>18. ASSUME D < limit, NEW i \in 1..m, NEW s \in Sku \ ToSet(r), i > D
       PROVE  Fit(r[i], needs) >= Fit(s, needs)
  <2>1. PICK j \in 1..M : j = i - D /\ D + j = i
    <3>1. m <= D + M
      BY <1>16
    <3>2. i - D \in 1..M /\ D + (i - D) = i
      BY <1>18, <3>1, Beyond
    <3> QED
      BY <3>2
  <2>2. r[i] = rest[j]
    <3>1. full[D + j] = rest[j] /\ r[i] = full[i]
      BY <1>10, <1>16
    <3> QED
      BY <2>1, <3>1
  <2>3. s \notin ToSet(d)
    <3> SUFFICES ASSUME s \in ToSet(d) PROVE FALSE
      OBVIOUS
    <3>1. PICK k \in 1..D : d[k] = s
      BY <1>9 DEF ToSet
    <3>2. k \in 1..m /\ r[k] = s
      BY <1>9, <1>15, <1>17, <1>18, <3>1
    <3> QED
      BY <1>16, <3>2 DEF ToSet
  <2>4. PICK l \in 1..M : rest[l] = s
    <3>1. s \in ToSet(rest)
      BY <1>5, <1>6, <2>3
    <3> QED
      BY <1>9, <3>1 DEF ToSet
  <2>5. j < l
    <3> SUFFICES ASSUME ~(j < l) PROVE FALSE
      OBVIOUS
    <3>1. D + l \in 1..m
      BY <1>9, <1>18, <2>1
    <3>2. r[D + l] = s
      BY <1>10, <1>16, <2>4, <3>1
    <3> QED
      BY <1>16, <3>1, <3>2 DEF ToSet
  <2>6. PICK at : /\ at \in [1..M -> 1..Len(b)]
                  /\ \A k \in 1..M : rest[k] = b[at[k]]
                  /\ \A k \in 1..M : \A h \in 1..M : k < h => at[k] < at[h]
    <3>1. b \in Seq(Sku)
      BY <1>2
    <3>2. PICK at \in [1..Len(Only(b, left)) -> 1..Len(b)] :
            /\ \A k \in 1..Len(Only(b, left)) : Only(b, left)[k] = b[at[k]]
            /\ \A k, h \in 1..Len(Only(b, left)) : k < h => at[k] < at[h]
      BY <3>1, OnlyInOrder
    <3> QED
      BY <1>5, <1>9, <3>2
  <2>7. PICK x \in DOMAIN b, y \in DOMAIN b : x = at[j] /\ y = at[l] /\ x < y
    BY <1>2, <2>5, <2>6
  <2>8. rest[j] = b[x] /\ s = b[y]
    BY <2>4, <2>6, <2>7
  <2> QED
    BY <1>2, <2>2, <2>7, <2>8
<1>19. D <= D + M /\ D + M \in Nat
  BY <1>9
<1>20. /\ r \in Seq(Sku) /\ Different(r) /\ Len(d) <= Cardinality(Sku)
       /\ Cardinality(Sku) \in Nat
       /\ Len(r) = IF limit < Cardinality(Sku) THEN limit ELSE Cardinality(Sku)
  BY <1>9, <1>12, <1>15, <1>16, <1>19
<1>21. \A i \in 1..Len(r) : i <= Len(d) => r[i] = d[i]
  BY <1>9, <1>16, <1>17
<1>22. Len(d) < limit => \A i \in 1..Len(r), s \in Sku \ ToSet(r) :
         i > Len(d) => Fit(r[i], Needs(ss)) >= Fit(s, Needs(ss))
  BY <1>1, <1>9, <1>16, <1>18
<1> QED
  BY <1>13, <1>20, <1>21, <1>22

-----------------------------------------------------------------------------
(* What a page of notes may show: different products of the catalogue, three at most. *)
Shown(products) == products \in Seq(Sku) /\ Different(products) /\ Len(products) <= 3

(* WellGrounded of given notes, signals and products discussed. *)
GroundedIn(n, ss, d, short) ==
  /\ Shown(n.products)
  /\ d # <<>> /\ ~short => n.products = Take(d, 3)
  /\ ~HasSubstance(ss, d) /\ n.products = <<>> =>
       n.wants = <<>> /\ n.objections = <<>> /\ n.outcome = "neutral"
  /\ ~HasSubstance(ss, d) /\ n.products # <<>> => Answered(n.products)

(* It says what the property does. *)
LEMMA ShownCount ==
  ASSUME NEW products, Shown(products)
  PROVE  /\ ToSet(products) \subseteq Sku /\ Len(products) <= 3
         /\ Cardinality(ToSet(products)) = Len(products)
<1>1. products \in Seq(Sku) /\ Different(products) /\ Len(products) <= 3
  BY DEF Shown
<1>2. ToSet(products) \subseteq Sku
  BY <1>1 DEF ToSet
<1> QED
  BY <1>1, <1>2, DifferentCount

(* Nothing is shown of no products. *)
LEMMA NothingShown == Shown(<<>>)
<1>1. PICK V : V = Sku
  OBVIOUS
<1>2. <<>> \in Seq(V) /\ Len(<<>>) = 0 /\ Len(<<>>) <= 3
  OBVIOUS
<1> QED
  BY <1>1, <1>2 DEF Shown, Different

(* The ranking shows what was discussed when it is cut to it. *)
LEMMA RankDiscussed ==
  ASSUME NEW ss, NEW d \in Seq(Sku), Different(d), d # <<>>,
         NEW limit, limit = IF Len(d) < 3 THEN Len(d) ELSE 3
  PROVE  RankProducts(ss, d, limit) = Take(d, 3)
<1>1. PICK r, c, n :
        /\ r = RankProducts(ss, d, limit) /\ c = Cardinality(Sku) /\ n = Len(d)
  OBVIOUS
<1>2. limit \in Nat /\ n \in Nat
  BY <1>1
<1>3. /\ r \in Seq(Sku) /\ n <= c /\ c \in Nat
      /\ Len(r) = IF limit < c THEN limit ELSE c
      /\ \A i \in 1..Len(r) : i <= n => r[i] = d[i]
  <2>1. PICK most \in Nat : most = limit
    BY <1>2
  <2>2. LET q == RankProducts(ss, d, most)
        IN /\ q \in Seq(Sku) /\ Different(q) /\ Len(d) <= Cardinality(Sku)
           /\ Cardinality(Sku) \in Nat
           /\ Len(q) = IF most < Cardinality(Sku) THEN most ELSE Cardinality(Sku)
           /\ \A i \in 1..Len(q) : i <= Len(d) => q[i] = d[i]
           /\ Len(d) < most => \A i \in 1..Len(q), s \in Sku \ ToSet(q) :
                i > Len(d) => Fit(q[i], Needs(ss)) >= Fit(s, Needs(ss))
    BY RankFacts
  <2> QED
    BY <1>1, <2>1, <2>2
<1>4. PICK t : t = Take(d, 3)
  OBVIOUS
<1>5. /\ t \in Seq(Sku)
      /\ Len(t) = IF 3 < n THEN 3 ELSE n
      /\ \A i \in 1..Len(t) : t[i] = d[i]
  <2>1. /\ Take(d, 3) \in Seq(Sku)
        /\ Len(Take(d, 3)) = IF 3 < Len(d) THEN 3 ELSE Len(d)
        /\ \A i \in 1..Len(Take(d, 3)) : Take(d, 3)[i] = d[i]
    BY TakeFacts
  <2> QED
    BY <1>1, <1>4, <2>1
<1>6. Len(r) = limit /\ Len(t) = limit /\ limit <= n
  BY <1>1, <1>3, <1>5
<1>7. \A i \in 1..limit : r[i] = t[i]
  <2>1. \A i \in 1..limit : i <= n
    BY <1>1, <1>2, <1>6
  <2> QED
    BY <1>3, <1>5, <1>6, <2>1
<1> QED
  BY <1>1, <1>3, <1>4, <1>5, <1>6, <1>7, SameSequence

(* The notes written without a model. *)
LEMMA FallbackGrounded ==
  ASSUME NEW ss, NEW d \in Seq(Sku), Different(d)
  PROVE  /\ Shown(FallbackFields(ss, d).products)
         /\ d # <<>> => FallbackFields(ss, d).products = Take(d, 3)
         /\ ~HasSubstance(ss, d) => FallbackFields(ss, d) = EmptyInsight
<1>1. CASE ~HasSubstance(ss, d)
  <2>1. FallbackFields(ss, d) = EmptyInsight /\ d = <<>>
    BY <1>1 DEF FallbackFields, HasSubstance
  <2>2. EmptyInsight.products = <<>>
    BY DEF EmptyInsight, Notes
  <2> QED
    BY <2>1, <2>2, NothingShown
<1>2. CASE HasSubstance(ss, d)
  <2>1. PICK limit : limit = IF d = <<>> THEN 2 ELSE IF Len(d) < 3 THEN Len(d) ELSE 3
    OBVIOUS
  <2>2. PICK r : r = RankProducts(ss, d, limit)
    OBVIOUS
  <2>3. FallbackFields(ss, d).products = r
    BY <1>2, <2>1, <2>2 DEF FallbackFields, Notes
  <2>4. limit \in Nat /\ limit <= 3
    BY <2>1
  <2>5. PICK c \in Nat : r \in Seq(Sku) /\ Different(r) /\ Len(r) = IF limit < c THEN limit ELSE c
    BY <2>2, <2>4, RankFacts
  <2>6. Len(r) <= 3
    BY <2>4, <2>5
  <2>7. Shown(r)
    BY <2>5, <2>6 DEF Shown
  <2>8. d # <<>> => r = Take(d, 3)
    BY <2>1, <2>2, RankDiscussed
  <2> QED
    BY <1>2, <2>3, <2>7, <2>8
<1> QED
  BY <1>1, <1>2

(* The products an answer names, cleaned. *)
LEMMA CleanShown ==
  ASSUME NEW raw \in Seq(STRING)
  PROVE  Shown(CleanProducts(raw))
<1>1. PICK V, a, b, c : /\ V = STRING /\ a = Only(raw, Sku) /\ b = Distinct(a)
                        /\ c = Take(b, 3)
  OBVIOUS
<1>2. a \in Seq(V) /\ ToSet(a) \subseteq Sku
  BY <1>1, OnlyFacts
<1>3. b \in Seq(V) /\ ToSet(b) = ToSet(a) /\ Different(b)
  BY <1>1, <1>2, DistinctFacts
<1>4. /\ c \in Seq(V) /\ ToSet(c) \subseteq ToSet(b) /\ Different(c)
      /\ Len(c) = IF 3 < Len(b) THEN 3 ELSE Len(b)
  BY <1>1, <1>3, TakeFacts, TakeDifferent
<1>5. Len(c) <= 3
  <2>1. PICK n \in Nat : n = Len(b)
    BY <1>3
  <2> QED
    BY <1>4, <2>1
<1>6. c \in Seq(Sku)
  BY <1>2, <1>3, <1>4, SeqNarrower
<1> QED
  BY <1>1, <1>4, <1>5, <1>6 DEF Shown, CleanProducts

(* The notes made from an answer. *)
LEMMA ApplyGrounded ==
  ASSUME NEW answer \in Answer, NEW ss, NEW d \in Seq(Sku), Different(d)
  PROVE  GroundedIn(Apply(answer, ss, d), ss, d, FALSE)
<1>1. PICK products : products = CleanProducts(answer.products)
  OBVIOUS
<1>2. Shown(products)
  BY <1>1, CleanShown, AnswerAssumption
<1>3. PICK own : own = FallbackFields(ss, d)
  OBVIOUS
<1>4. /\ Shown(own.products) /\ (d # <<>> => own.products = Take(d, 3))
      /\ (~HasSubstance(ss, d) => own = EmptyInsight)
  BY <1>3, FallbackGrounded
<1>5. PICK n : n = Apply(answer, ss, d)
  OBVIOUS
<1>6. CASE ~HasSubstance(ss, d) /\ products = <<>>
  <2>1. /\ n.products = <<>> /\ n.wants = <<>> /\ n.objections = <<>>
        /\ n.outcome = "neutral"
    <3>1. PICK tips : n = [EmptyInsight EXCEPT !.coaching = tips]
      BY <1>1, <1>5, <1>6 DEF Apply
    <3> QED
      BY <3>1 DEF EmptyInsight, Notes
  <2>2. d = <<>>
    BY <1>6 DEF HasSubstance
  <2> QED
    BY <1>5, <2>1, <2>2, NothingShown DEF GroundedIn
<1>7. CASE ~(~HasSubstance(ss, d) /\ products = <<>>)
  <2>1. n.products = IF d # <<>> \/ products = <<>> THEN own.products ELSE products
    BY <1>1, <1>3, <1>5, <1>7 DEF Apply, Notes
  <2>2. ~HasSubstance(ss, d) => d = <<>>
    BY DEF HasSubstance
  <2>3. Shown(n.products)
    BY <1>2, <1>4, <2>1
  <2>4. d # <<>> => n.products = Take(d, 3)
    BY <1>4, <2>1
  <2>5. ~HasSubstance(ss, d) => n.products # <<>> /\ n.products = products
    BY <1>7, <2>1, <2>2
  <2>6. Answered(products)
    BY <1>1 DEF Answered
  <2> QED
    BY <1>5, <2>3, <2>4, <2>5, <2>6 DEF GroundedIn
<1> QED
  BY <1>6, <1>7

-----------------------------------------------------------------------------
(* The tips of the notes stage, with an answer or without. *)
LEMMA WrittenNotes ==
  ASSUME WriteNotes
  PROVE  /\ Tips(notes'.coaching, 1)
         /\ HasSubstance(sigs, Discussed(utts)) => Tips(notes'.coaching, 2)
<1>0. \A tips : Tips(tips, 2) => Tips(tips, 1)
  BY DEF Tips
<1>1. PICK answer \in Answer \cup {NoAnswer} :
        notes' = IF TooShort(utts) THEN TooShortNotes
                 ELSE IF answer = NoAnswer THEN FallbackFields(sigs, Discussed(utts))
                 ELSE Apply(answer, sigs, Discussed(utts))
  BY DEF WriteNotes
<1>2. PICK discussed, ss : discussed = Discussed(utts) /\ ss = sigs
  OBVIOUS
<1>3. CASE TooShort(utts)
  BY <1>0, <1>1, <1>3, TooShortTips
<1>4. CASE ~TooShort(utts) /\ answer = NoAnswer
  BY <1>0, <1>1, <1>2, <1>4, FallbackFieldsTips
<1>5. CASE ~TooShort(utts) /\ answer # NoAnswer
  <2>1. answer \in Answer /\ notes' = Apply(answer, ss, discussed)
    BY <1>1, <1>2, <1>5
  <2> QED
    BY <1>2, <2>1, ApplyTips
<1> QED
  BY <1>3, <1>4, <1>5

(* What was discussed in the turns there are. *)
LEMMA DiscussedNow ==
  ASSUME AnalysisTypeOK
  PROVE  Discussed(utts) \in Seq(Sku) /\ Different(Discussed(utts))
<1>1. utts \in Seq(Utterance)
  BY DEF AnalysisTypeOK
<1>2. PICK m, A : m = Mentions(utts) /\ A = [s \in Sku |-> Places(s, Len(utts))]
  OBVIOUS
<1>3. Tallied(m, A)
  BY <1>1, <1>2, MentionsTally
<1> QED
  BY <1>2, <1>3, DiscussedFacts DEF Tallied

(* The products, wants and objections of the notes stage. *)
LEMMA WrittenGrounded ==
  ASSUME WriteNotes, AnalysisTypeOK
  PROVE  GroundedIn(notes', sigs, Discussed(utts), TooShort(utts))
<1>1. PICK answer \in Answer \cup {NoAnswer} :
        notes' = IF TooShort(utts) THEN TooShortNotes
                 ELSE IF answer = NoAnswer THEN FallbackFields(sigs, Discussed(utts))
                 ELSE Apply(answer, sigs, Discussed(utts))
  BY DEF WriteNotes
<1>2. PICK d, ss, n, short :
        d = Discussed(utts) /\ ss = sigs /\ n = notes' /\ short = TooShort(utts)
  OBVIOUS
<1>3. d \in Seq(Sku) /\ Different(d)
  BY <1>2, DiscussedNow
<1>4. CASE short
  <2>1. n = TooShortNotes
    BY <1>1, <1>2, <1>4
  <2>2. n.products = <<>> /\ n.wants = <<>> /\ n.objections = <<>> /\ n.outcome = "neutral"
    BY <2>1 DEF TooShortNotes, Notes
  <2>3. GroundedIn(n, ss, d, short)
    BY <1>4, <2>2, NothingShown DEF GroundedIn
  <2> QED
    BY <1>2, <2>3
<1>5. CASE ~short /\ answer = NoAnswer
  <2>1. n = FallbackFields(ss, d)
    BY <1>1, <1>2, <1>5
  <2>2. /\ Shown(n.products) /\ (d # <<>> => n.products = Take(d, 3))
        /\ (~HasSubstance(ss, d) => n = EmptyInsight)
    BY <1>3, <2>1, FallbackGrounded
  <2>3. /\ EmptyInsight.wants = <<>> /\ EmptyInsight.objections = <<>>
        /\ EmptyInsight.outcome = "neutral" /\ EmptyInsight.products = <<>>
    BY DEF EmptyInsight, Notes
  <2>4. GroundedIn(n, ss, d, short)
    BY <2>2, <2>3 DEF GroundedIn
  <2> QED
    BY <1>2, <2>4
<1>6. CASE ~short /\ answer # NoAnswer
  <2>1. answer \in Answer /\ n = Apply(answer, ss, d)
    BY <1>1, <1>2, <1>6
  <2>2. GroundedIn(n, ss, d, FALSE)
    BY <1>3, <2>1, ApplyGrounded
  <2>3. GroundedIn(n, ss, d, short)
    BY <2>2 DEF GroundedIn
  <2> QED
    BY <1>2, <2>3
<1> QED
  BY <1>4, <1>5, <1>6

(* No stage takes a tip or a product back: after the notes stage only the insight is *)
(* stored or products are recommended.                                               *)
LEMMA Written ==
  AnalysisTypeOK /\ NotesInv /\ [AnalysisNext]_analysisVars => NotesInv'
<1> SUFFICES ASSUME AnalysisTypeOK, NotesInv, [AnalysisNext]_analysisVars PROVE NotesInv'
  OBVIOUS
<1>1. UNCHANGED plan
  BY DEF AnalysisNext, BuildPipeline, BatchTranscribe, SyncTranscribe, ReadTranscript,
     DiarizeStub, DiarizePassthrough, IdentifySpeaker, Translate, TranslateStub, Redact,
     DeleteAudio, ExtractSignals, Summarize, WriteNotes, StoreInsight, RecommendProducts,
     analysisVars
<1>2. ASSUME NEW role, NEW impls, Runs(role, impls),
             role # "summarization" \/ "sarvam_llm" \notin impls
      PROVE  NotesInv'
  <2>1. plan'[done'] # <<"summarization", "sarvam_llm">>
    <3>1. /\ plan'[done'][1] = role /\ plan'[done'][2] \in impls
      BY <1>1, <1>2 DEF Runs
    <3>2. /\ <<"summarization", "sarvam_llm">>[1] = "summarization"
          /\ <<"summarization", "sarvam_llm">>[2] = "sarvam_llm"
      OBVIOUS
    <3> QED
      BY <1>2, <3>1, <3>2
  <2> QED
    BY <2>1 DEF NotesInv
<1>3. CASE WriteNotes
  <2>1. UNCHANGED <<sigs, utts>>
    BY <1>3 DEF WriteNotes
  <2>2. /\ Tips(notes'.coaching, 1)
        /\ HasSubstance(sigs, Discussed(utts)) => Tips(notes'.coaching, 2)
    BY <1>3, WrittenNotes
  <2>3. /\ HasSubstance(sigs, Discussed(utts))' <=> HasSubstance(sigs, Discussed(utts))
        /\ Discussed(utts)' = Discussed(utts)
        /\ TooShort(utts)' <=> TooShort(utts)
    BY <2>1
  <2>4. Len(notes'.coaching) \in 1..3
        /\ Cardinality(ToSet(notes'.coaching)) = Len(notes'.coaching)
    BY <2>2, TipsCount
  <2>5. HasSubstance(sigs, Discussed(utts)) => Len(notes'.coaching) >= 2
    BY <2>2, TipsCount
  <2>6. WellCoached'
    BY <2>3, <2>4, <2>5 DEF WellCoached
  <2>7. GroundedIn(notes', sigs, Discussed(utts), TooShort(utts))
    BY <1>3, WrittenGrounded
  <2>8. WellGrounded'
    <3>1. /\ ToSet(notes'.products) \subseteq Sku /\ Len(notes'.products) <= 3
          /\ Cardinality(ToSet(notes'.products)) = Len(notes'.products)
      BY <2>7, ShownCount DEF GroundedIn
    <3>2. /\ Discussed(utts) # <<>> /\ ~TooShort(utts)
               => notes'.products = Take(Discussed(utts), 3)
          /\ ~HasSubstance(sigs, Discussed(utts)) /\ notes'.products = <<>> =>
               notes'.wants = <<>> /\ notes'.objections = <<>> /\ notes'.outcome = "neutral"
          /\ ~HasSubstance(sigs, Discussed(utts)) /\ notes'.products # <<>> =>
               Answered(notes'.products)
      BY <2>7 DEF GroundedIn
    <3> QED
      BY <2>3, <3>1, <3>2 DEF WellGrounded
  <2> QED
    BY <2>6, <2>8 DEF NotesInv
<1>4. ASSUME UNCHANGED <<done, utts, sigs, notes>> PROVE NotesInv'
  <2>1. /\ HasSubstance(sigs, Discussed(utts))' <=> HasSubstance(sigs, Discussed(utts))
        /\ Discussed(utts)' = Discussed(utts)
        /\ TooShort(utts)' <=> TooShort(utts)
    BY <1>4
  <2>2. (WellCoached' <=> WellCoached) /\ (WellGrounded' <=> WellGrounded)
    BY <1>4, <2>1 DEF WellCoached, WellGrounded
  <2> QED
    BY <1>1, <1>4, <2>2 DEF NotesInv
<1>5. CASE BuildPipeline \/ StoreInsight \/ RecommendProducts \/ UNCHANGED analysisVars
  BY <1>4, <1>5 DEF BuildPipeline, StoreInsight, RecommendProducts, analysisVars
<1>6. CASE BatchTranscribe \/ SyncTranscribe \/ ReadTranscript
  BY <1>2, <1>6 DEF BatchTranscribe, SyncTranscribe, ReadTranscript
<1>7. CASE DiarizeStub \/ DiarizePassthrough \/ IdentifySpeaker
  BY <1>2, <1>7 DEF DiarizeStub, DiarizePassthrough, IdentifySpeaker
<1>8. CASE Translate \/ TranslateStub
  BY <1>2, <1>8 DEF Translate, TranslateStub
<1>9. CASE Redact \/ DeleteAudio
  BY <1>2, <1>9 DEF Redact, DeleteAudio
<1>10. CASE ExtractSignals \/ Summarize
  BY <1>2, <1>10 DEF ExtractSignals, Summarize
<1> QED
  BY <1>3, <1>5, <1>6, <1>7, <1>8, <1>9, <1>10 DEF AnalysisNext

(* The invariant gives what the properties say of a stored insight: the notes stage *)
(* has run by then.                                                                 *)
LEMMA WrittenSoFar == AnalysisTypeOK /\ NotesInv => CoachingNeverBlank /\ NotesAreGrounded
<1> SUFFICES ASSUME AnalysisTypeOK, NotesInv, Noted PROVE WellCoached /\ WellGrounded
  BY DEF CoachingNeverBlank, NotesAreGrounded
<1>1. done = Len(plan) /\ Accepted(plan)
  BY PlanIs DEF Noted, Stored, Started
<1>2. done > 0
  <2>1. Ran(PrivacyOrder[1])
    BY AllRan DEF Noted
  <2>2. PICK n \in Nat : done \in 0..n
    BY PlanIs
  <2> QED
    BY <2>1, <2>2 DEF Ran
<1> QED
  BY <1>1, <1>2 DEF NotesInv, Noted

(* The products recommended from given signals and products discussed. *)
Recommended(a, ss, d) ==
  LET skus == [i \in DOMAIN a |-> a[i].sku]
      front == Take(d, 3)
  IN /\ ToSet(skus) \subseteq Sku /\ Cardinality(ToSet(skus)) = Len(skus)
     /\ Len(skus) = (IF Cardinality(Sku) < 3 THEN Cardinality(Sku) ELSE 3)
     /\ SubSeq(skus, 1, Len(front)) = front
     /\ \A i \in (Len(front) + 1)..Len(skus), s \in Sku \ ToSet(skus) :
          Fit(skus[i], Needs(ss)) >= Fit(s, Needs(ss))

(* Whatever the model wrote about, the shortlist is the program's. *)
LEMMA RecommendGrounded ==
  ASSUME NEW ss, NEW d \in Seq(Sku), Different(d), NEW said
  PROVE  Recommended(Recommend(ss, d, said), ss, d)
<1>1. PICK r, c, n, needs :
        r = RankProducts(ss, d, 3) /\ c = Cardinality(Sku) /\ n = Len(d) /\ needs = Needs(ss)
  OBVIOUS
<1>2. /\ r \in Seq(Sku) /\ Different(r) /\ n <= c /\ c \in Nat /\ n \in Nat
      /\ Len(r) = IF 3 < c THEN 3 ELSE c
      /\ \A i \in 1..Len(r) : i <= n => r[i] = d[i]
      /\ n < 3 => \A i \in 1..Len(r), s \in Sku \ ToSet(r) :
                    i > n => Fit(r[i], needs) >= Fit(s, needs)
  <2>1. PICK three \in Nat : three = 3
    OBVIOUS
  <2>2. LET q == RankProducts(ss, d, three)
        IN /\ q \in Seq(Sku) /\ Different(q) /\ Len(d) <= Cardinality(Sku)
           /\ Cardinality(Sku) \in Nat
           /\ Len(q) = IF three < Cardinality(Sku) THEN three ELSE Cardinality(Sku)
           /\ \A i \in 1..Len(q) : i <= Len(d) => q[i] = d[i]
           /\ Len(d) < three => \A i \in 1..Len(q), s \in Sku \ ToSet(q) :
                i > Len(d) => Fit(q[i], Needs(ss)) >= Fit(s, Needs(ss))
    BY RankFacts
  <2>3. Len(d) \in Nat
    OBVIOUS
  <2> QED
    BY <1>1, <2>1, <2>2, <2>3
<1>3. PICK a : a = Recommend(ss, d, said)
  OBVIOUS
<1>4. PICK m \in Nat : m = Len(r) /\ DOMAIN r = 1..m /\ m = (IF c < 3 THEN c ELSE 3)
  <2>1. (IF 3 < c THEN 3 ELSE c) = (IF c < 3 THEN c ELSE 3)
    BY <1>2
  <2>2. r \in Seq(Sku) /\ Len(r) = (IF c < 3 THEN c ELSE 3)
    BY <1>2, <2>1
  <2>3. Len(r) \in Nat /\ DOMAIN r = 1..Len(r)
    <3>1. r \in Seq(Sku)
      BY <1>2
    <3> QED
      BY <3>1
  <2> QED
    BY <2>2, <2>3
<1>5. a = [i \in 1..m |-> [sku |-> r[i], why |-> IF r[i] \in said THEN "model" ELSE "own"]]
  BY <1>1, <1>3, <1>4 DEF Recommend
<1>6. [i \in DOMAIN a |-> a[i].sku] = r
  <2>1. DOMAIN a = 1..m /\ \A i \in 1..m : a[i].sku = r[i]
    BY <1>5
  <2>2. r = [i \in 1..m |-> r[i]]
    BY <1>2, <1>4
  <2> QED
    BY <2>1, <2>2
<1>7. ToSet(r) \subseteq Sku /\ Cardinality(ToSet(r)) = Len(r)
  <2>1. ToSet(r) \subseteq Sku
    BY <1>2 DEF ToSet
  <2> QED
    BY <1>2, <2>1, DifferentCount
<1>8. PICK front : front = Take(d, 3)
  OBVIOUS
<1>9. PICK k \in Nat : k = Len(front) /\ k = (IF 3 < n THEN 3 ELSE n) /\ k <= m
      /\ front \in Seq(Sku) /\ \A i \in 1..k : front[i] = d[i]
  <2>1. /\ front \in Seq(Sku) /\ Len(front) = (IF 3 < n THEN 3 ELSE n)
        /\ \A i \in 1..Len(front) : front[i] = d[i]
    <3>1. /\ Take(d, 3) \in Seq(Sku)
          /\ Len(Take(d, 3)) = IF 3 < Len(d) THEN 3 ELSE Len(d)
          /\ \A i \in 1..Len(Take(d, 3)) : Take(d, 3)[i] = d[i]
      BY TakeFacts
    <3> QED
      BY <1>1, <1>8, <3>1
  <2>2. PICK k \in Nat : k = (IF 3 < n THEN 3 ELSE n) /\ k <= m
    BY <1>2, <1>4
  <2> QED
    BY <2>1, <2>2
<1>10. SubSeq(r, 1, k) = front
  <2>1. PICK q : q = SubSeq(r, 1, k)
    OBVIOUS
  <2>2. /\ q \in Seq(Sku)
        /\ Len(q) = IF 1 <= k THEN k - 1 + 1 ELSE 0
        /\ \A i \in 1..Len(q) : q[i] = r[1 + i - 1]
    <3>1. 1 \in Nat \ {0} /\ k \in Int
      OBVIOUS
    <3>2. k <= Len(r)
      BY <1>4, <1>9
    <3> QED
      BY <1>2, <2>1, <3>1, <3>2, SliceFacts
  <2>3. Len(q) = k
    BY <1>9, <2>2
  <2>4. \A i \in 1..k : q[i] = front[i]
    <3>1. \A i \in 1..k : 1 + i - 1 = i /\ i \in 1..m /\ i <= n
      BY <1>2, <1>4, <1>9
    <3>2. \A i \in 1..k : q[i] = r[i]
      BY <2>2, <2>3, <3>1
    <3>3. \A i \in 1..k : r[i] = d[i] /\ front[i] = d[i]
      BY <1>2, <1>4, <1>9, <3>1
    <3> QED
      BY <3>2, <3>3
  <2> QED
    BY <1>9, <2>1, <2>2, <2>3, <2>4, SameSequence
<1>11. ASSUME NEW i \in (k + 1)..m, NEW s \in Sku \ ToSet(r)
       PROVE  Fit(r[i], needs) >= Fit(s, needs)
  <2>1. n < 3 /\ i > n /\ i \in 1..m
    <3>1. k + 1 <= m /\ m <= 3
      BY <1>2, <1>4, <1>9
    <3>2. k = n /\ n < 3
      BY <1>2, <1>9, <3>1
    <3> QED
      BY <1>2, <3>2
  <2> QED
    BY <1>2, <1>4, <2>1
<1>12. PICK skus : skus = [i \in DOMAIN a |-> a[i].sku]
  OBVIOUS
<1>13. /\ skus = r
       /\ ToSet(skus) \subseteq Sku /\ Cardinality(ToSet(skus)) = Len(skus)
       /\ Len(skus) = (IF Cardinality(Sku) < 3 THEN Cardinality(Sku) ELSE 3)
       /\ SubSeq(skus, 1, Len(front)) = front
  BY <1>1, <1>4, <1>6, <1>7, <1>9, <1>10, <1>12
<1>14. \A i \in (Len(front) + 1)..Len(skus), s \in Sku \ ToSet(skus) :
         Fit(skus[i], Needs(ss)) >= Fit(s, Needs(ss))
  BY <1>1, <1>4, <1>9, <1>11, <1>13
<1> QED
  BY <1>3, <1>8, <1>12, <1>13, <1>14 DEF Recommended

(* The property is Recommended of the context. *)
LEMMA RecommendedIs ==
  /\ AdviceIsGrounded <=> (phase = "advised" => Recommended(advice, sigs, Discussed(utts)))
  /\ AdviceIsGrounded'
       <=> (phase' = "advised" => Recommended(advice', sigs', Discussed(utts)'))
BY DEF AdviceIsGrounded, Recommended, Fit

(* Nothing happens to a visit once products are recommended from it. *)
LEMMA Advised ==
  AnalysisTypeOK /\ AdviceIsGrounded /\ [AnalysisNext]_analysisVars => AdviceIsGrounded'
<1> SUFFICES ASSUME AnalysisTypeOK, AdviceIsGrounded, [AnalysisNext]_analysisVars,
                    phase' = "advised"
             PROVE  Recommended(advice', sigs', Discussed(utts)')
  BY RecommendedIs
<1>1. CASE RecommendProducts
  <2>1. PICK said : advice' = Recommend(sigs, Discussed(utts), said)
    BY <1>1 DEF RecommendProducts
  <2>2. UNCHANGED <<sigs, utts>>
    BY <1>1 DEF RecommendProducts
  <2>3. Discussed(utts)' = Discussed(utts)
    BY <2>2
  <2>4. Recommended(advice', sigs, Discussed(utts))
    BY <2>1, DiscussedNow, RecommendGrounded
  <2> QED
    BY <2>2, <2>3, <2>4
<1>2. CASE UNCHANGED analysisVars
  <2>1. UNCHANGED <<phase, advice, sigs, utts>>
    BY <1>2 DEF analysisVars
  <2>2. Discussed(utts)' = Discussed(utts)
    BY <2>1
  <2>3. Recommended(advice, sigs, Discussed(utts))
    BY <2>1, RecommendedIs
  <2> QED
    BY <2>1, <2>2, <2>3
<1>3. ASSUME NEW role, NEW impls, Runs(role, impls), phase' = phase \/ phase' = "failed"
      PROVE  FALSE
  BY <1>3 DEF Runs
<1>4. CASE BuildPipeline \/ StoreInsight
  BY <1>4 DEF BuildPipeline, StoreInsight
<1>5. CASE BatchTranscribe \/ SyncTranscribe \/ ReadTranscript
  BY <1>3, <1>5 DEF BatchTranscribe, SyncTranscribe, ReadTranscript
<1>6. CASE DiarizeStub \/ DiarizePassthrough \/ IdentifySpeaker
  BY <1>3, <1>6 DEF DiarizeStub, DiarizePassthrough, IdentifySpeaker
<1>7. CASE Translate \/ TranslateStub
  BY <1>3, <1>7 DEF Translate, TranslateStub
<1>8. CASE Redact \/ DeleteAudio
  BY <1>3, <1>8 DEF Redact, DeleteAudio
<1>9. CASE ExtractSignals \/ Summarize \/ WriteNotes
  BY <1>3, <1>9 DEF ExtractSignals, Summarize, WriteNotes
<1> QED
  BY <1>1, <1>2, <1>4, <1>5, <1>6, <1>7, <1>8, <1>9 DEF AnalysisNext

-----------------------------------------------------------------------------
(* Scores. *)

(* f is the recursive function of Total: the points of each beginning of s. *)
Adds(f, s) ==
  /\ f \in [0..Len(s) -> Int]
  /\ Total(s) = f[Len(s)]
  /\ f[0] = 50
  /\ \A n \in 1..Len(s) : f[n] = f[n - 1] + Points(s[n])

(* Total is computed signal by signal. *)
LEMMA TotalStep ==
  ASSUME NEW S, NEW s \in Seq(S), \A x \in S : Points(x) \in Int
  PROVE  \E f : Adds(f, s)
<1>1. PICK n \in Nat : n = Len(s)
  OBVIOUS
<1>2. PICK V, b : V = Int /\ b = 50
  OBVIOUS
<1> DEFINE Add(i, q) == q + Points(s[i])
           Body(g) == [i \in 0..Len(s) |-> IF i = 0 THEN 50 ELSE Add(i, g[i - 1])]
<1>3. PICK g : g = CHOOSE h : h = Body(h)
  OBVIOUS
<1>4. Total(s) = g[n]
  BY <1>1, <1>3 DEF Total
<1>5. b \in V /\ \A i \in 1..n, q \in V : Add(i, q) \in V
  BY <1>1, <1>2
<1> HIDE DEF Add
<1>6. PICK step : step = [p \in (1..n) \X V |-> Add(p[1], p[2])]
  OBVIOUS
<1>7. \A i \in 1..n, q \in V : step[<<i, q>>] = Add(i, q)
  BY <1>6
<1>8. Closed(step, n, V)
  BY <1>5, <1>7 DEF Closed
<1>9. \E f : Computes(f, n, V, b, step)
  BY <1>5, <1>8, Recursion
<1>10. PICK f \in [0..n -> V] : f[0] = b /\ \A i \in 1..n : f[i] = step[<<i, f[i - 1]>>]
  BY <1>9 DEF Computes
<1>11. ASSUME NEW i \in 1..n PROVE f[i] = Add(i, f[i - 1])
  <2>1. i - 1 \in 0..n /\ f[i - 1] \in V
    BY <1>10
  <2> QED
    BY <1>7, <1>10, <2>1
<1>12. f = Body(f)
  BY <1>1, <1>2, <1>10, <1>11
<1>13. g = Body(g)
  <2> HIDE DEF Body
  <2> QED
    BY <1>3, <1>12
<1>14. PICK h : h = g
  OBVIOUS
<1>15. g = [i \in 0..n |-> IF i = 0 THEN b ELSE Add(i, h[i - 1])]
  BY <1>1, <1>2, <1>13, <1>14
<1>16. /\ g = [i \in 0..n |-> g[i]]
       /\ g[0] = b
       /\ \A i \in 1..n : g[i] = Add(i, g[i - 1])
  BY <1>14, <1>15
<1>17. PICK P : P = {i \in 0..n : g[i] \in V}
  OBVIOUS
<1>18. ASSUME NEW i \in 1..n, i - 1 \in P PROVE i \in P
  <2>1. g[i - 1] \in V /\ i \in 0..n
    BY <1>17, <1>18
  <2>2. g[i] \in V
    BY <1>5, <1>16, <2>1
  <2> QED
    BY <1>17, <2>1, <2>2
<1>19. \A i \in 0..n : i \in P
  <2>1. 0 \in P
    BY <1>5, <1>16, <1>17
  <2> QED
    BY <1>18, <2>1, StepByStep
<1>20. g \in [0..n -> V]
  BY <1>16, <1>17, <1>19
<1>21. \A i \in 1..n : g[i] = g[i - 1] + Points(s[i])
  BY <1>16 DEF Add
<1> QED
  BY <1>1, <1>2, <1>4, <1>16, <1>20, <1>21 DEF Adds

(* Another signal adds its points. *)
LEMMA TotalMore ==
  ASSUME NEW S, NEW s \in Seq(S), NEW x \in S, \A y \in S : Points(y) \in Int
  PROVE  Total(s) \in Int /\ Total(Append(s, x)) = Total(s) + Points(x)
<1>1. PICK n \in Nat : n = Len(s)
  OBVIOUS
<1>2. PICK t : t = Append(s, x)
  OBVIOUS
<1>3. t \in Seq(S) /\ Len(t) = n + 1 /\ t[n + 1] = x /\ \A i \in 1..n : t[i] = s[i]
  BY <1>1, <1>2
<1>4. PICK f : Adds(f, s)
  BY TotalStep
<1>5. PICK g : Adds(g, t)
  BY <1>3, TotalStep
<1>6. /\ f \in [0..n -> Int] /\ Total(s) = f[n] /\ f[0] = 50
      /\ \A i \in 1..n : f[i] = f[i - 1] + Points(s[i])
  BY <1>1, <1>4 DEF Adds
<1>7. /\ g \in [0..(n + 1) -> Int] /\ Total(t) = g[n + 1] /\ g[0] = 50
      /\ \A i \in 1..(n + 1) : g[i] = g[i - 1] + Points(t[i])
  BY <1>3, <1>5 DEF Adds
<1>8. PICK P : P = {i \in 0..n : f[i] = g[i]}
  OBVIOUS
<1>9. 0 \in P
  BY <1>6, <1>7, <1>8
<1>10. ASSUME NEW i \in 1..n, i - 1 \in P PROVE i \in P
  <2>1. i \in 1..(n + 1) /\ i \in 0..n
    OBVIOUS
  <2>2. f[i - 1] = g[i - 1]
    BY <1>8, <1>10
  <2> QED
    BY <1>3, <1>6, <1>7, <1>8, <2>1, <2>2
<1>11. \A i \in 0..n : i \in P
  BY <1>9, <1>10, StepByStep
<1>12. f[n] = g[n] /\ f[n] \in Int
  BY <1>6, <1>8, <1>11
<1>13. g[n + 1] = g[n] + Points(x)
  <2>1. n + 1 \in 1..(n + 1) /\ (n + 1) - 1 = n
    OBVIOUS
  <2> QED
    BY <1>3, <1>7, <2>1
<1> QED
  BY <1>2, <1>6, <1>7, <1>12, <1>13

(* Another signal is counted under its type. *)
LEMMA CountMore ==
  ASSUME NEW S, NEW s \in Seq(S), NEW x \in S, NEW types
  PROVE  /\ Count(s, types) \in Nat
         /\ Count(Append(s, x), types) = Count(s, types) + (IF x.type \in types THEN 1 ELSE 0)
<1>1. PICK n \in Nat : n = Len(s) /\ DOMAIN s = 1..n
  OBVIOUS
<1>2. PICK t : t = Append(s, x)
  OBVIOUS
<1>3. DOMAIN t = 1..(n + 1) /\ t[n + 1] = x /\ \A i \in 1..n : t[i] = s[i]
  BY <1>1, <1>2
<1>4. PICK A : A = {i \in DOMAIN s : s[i].type \in types}
  OBVIOUS
<1>5. PICK B : B = {i \in DOMAIN t : t[i].type \in types}
  OBVIOUS
<1>6. IsFiniteSet(A) /\ n + 1 \notin A
  <2>1. IsFiniteSet(1..n)
    BY FS_Interval
  <2>2. A \subseteq 1..n /\ n + 1 \notin 1..n
    BY <1>1, <1>4
  <2> QED
    BY <2>1, <2>2, FS_Subset
<1>7. Cardinality(A) \in Nat
  BY <1>6, FS_CardinalityType
<1>8. \A i : i \in 1..(n + 1) <=> i \in 1..n \/ i = n + 1
  BY <1>1
<1>0. Count(s, types) = Cardinality(A) /\ Count(Append(s, x), types) = Cardinality(B)
  BY <1>2, <1>4, <1>5 DEF Count
<1>9. CASE x.type \in types
  <2>1. B = A \cup {n + 1}
    BY <1>1, <1>3, <1>4, <1>5, <1>8, <1>9
  <2>2. Cardinality(B) = Cardinality(A) + 1
    BY <1>6, <2>1, FS_AddElement
  <2> QED
    BY <1>0, <1>7, <1>9, <2>2
<1>10. CASE x.type \notin types
  <2>1. B = A
    BY <1>1, <1>3, <1>4, <1>5, <1>8, <1>10
  <2> QED
    BY <1>0, <1>7, <1>10, <2>1
<1> QED
  BY <1>9, <1>10

(* The kinds that speak for a sale, and the others. *)
Up == {"demand", "intent", "promise"}
Other == {"objection", "price_reaction", "competitor_mention"}

(* Points of a kind that is welcome, and of one that is not. *)
LEMMA PointsOf ==
  ASSUME NEW sig, sig.type \in DOMAIN Weight
  PROVE  /\ Points(sig) \in Int
         /\ sig.type \in Up => Points(sig) > 0
         /\ sig.type \notin Up /\ sig.subtype \notin DOMAIN Bonuses => Points(sig) < 0
<1>1. DOMAIN Weight = Up \cup Other
  BY DEF Weight, Up, Other
<1>2. Bonus(sig.subtype) \in Nat
        /\ (sig.subtype \notin DOMAIN Bonuses => Bonus(sig.subtype) = 0)
  <2>1. CASE sig.subtype \in DOMAIN Bonuses
    <3>1. \A b \in DOMAIN Bonuses : Bonuses[b] \in Nat
      BY DEF Bonuses
    <3> QED
      BY <2>1, <3>1 DEF Bonus
  <2>2. CASE sig.subtype \notin DOMAIN Bonuses
    BY <2>2 DEF Bonus
  <2> QED
    BY <2>1, <2>2
<1>3. /\ \A t \in Up : Weight[t] \in 10..15
      /\ \A t \in Other : Weight[t] \in -8..-4
  BY DEF Weight, Up, Other
<1>4. CASE sig.type \in Up
  <2>1. PICK w \in 10..15, b \in Nat : w = Weight[sig.type] /\ b = Bonus(sig.subtype)
    BY <1>2, <1>3, <1>4
  <2>2. w + b \in Int /\ w + b > 0
    OBVIOUS
  <2> QED
    BY <1>4, <2>1, <2>2 DEF Points
<1>5. CASE sig.type \in Other
  <2>1. PICK w \in -8..-4, b \in Nat :
          /\ w = Weight[sig.type] /\ b = Bonus(sig.subtype)
          /\ sig.subtype \notin DOMAIN Bonuses => b = 0
    BY <1>2, <1>3, <1>5
  <2>2. w + b \in Int /\ (b = 0 => w + b < 0)
    OBVIOUS
  <2>3. sig.type \notin Up
    BY <1>5 DEF Up, Other
  <2> QED
    BY <2>1, <2>2, <2>3 DEF Points
<1> QED
  BY <1>1, <1>4, <1>5

(* Clamping keeps the order. *)
LEMMA ClampMoves ==
  ASSUME NEW a \in Int, NEW b \in Int, a <= b
  PROVE  /\ Clamp(a, 0, 100) \in Int /\ Clamp(b, 0, 100) \in Int
         /\ Clamp(a, 0, 100) <= Clamp(b, 0, 100)
BY DEF Clamp

(* Ratings and outcomes by their rank. *)
Grade(score) == IF score >= 70 THEN 3 ELSE IF score >= 45 THEN 2 ELSE 1
Verdict(promises, positive, negative, score) ==
  IF promises > 0 \/ (positive > negative /\ score >= 60) THEN 3
  ELSE IF negative > positive /\ score < 45 THEN 1 ELSE 2

(* A higher score is not rated lower. *)
LEMMA GradeMoves ==
  ASSUME NEW a \in Int, NEW b \in Int, a <= b
  PROVE  Grade(a) <= Grade(b)
BY DEF Grade

(* Neither more welcome signals, nor a higher score, nor fewer others worsen the *)
(* outcome.                                                                      *)
LEMMA VerdictMoves ==
  ASSUME NEW a \in Int, NEW b \in Int, a <= b, NEW p \in Nat, NEW q \in Nat, p <= q,
         NEW pos \in Nat, NEW pos2 \in Nat, pos <= pos2,
         NEW neg \in Nat, NEW neg2 \in Nat, neg2 <= neg
  PROVE  Verdict(p, pos, neg, a) <= Verdict(q, pos2, neg2, b)
BY DEF Verdict

(* The rank of the rating the code gives. *)
LEMMA RankOfRating == ASSUME NEW score PROVE Rank[Rating(score)] = Grade(score)
<1>1. Rank["Good"] = 3 /\ Rank["Average"] = 2 /\ Rank["Poor"] = 1
  BY DEF Rank
<1> QED
  BY <1>1 DEF Rating, Grade

(* The rank of the outcome, from the counts and the score of the signals. *)
Verdicts(ss) ==
  Verdict(Count(ss, {"promise"}), Count(ss, Up), Count(ss, {"objection", "price_reaction"}),
          Score(ss))

(* It is the rank of the outcome the code gives. *)
LEMMA RankOfOutcome == ASSUME NEW ss PROVE Rank[Outcome(ss)] = Verdicts(ss)
<1>1. Rank["promising"] = 3 /\ Rank["neutral"] = 2 /\ Rank["at_risk"] = 1
  BY DEF Rank
<1>2. {"intent", "demand", "promise"} = Up
  BY DEF Up
<1>3. PICK promises, positive, negative, score :
        /\ promises = Count(ss, {"promise"}) /\ positive = Count(ss, Up)
        /\ negative = Count(ss, {"objection", "price_reaction"}) /\ score = Score(ss)
  OBVIOUS
<1>4. Outcome(ss) = IF promises > 0 \/ (positive > negative /\ score >= 60) THEN "promising"
                    ELSE IF negative > positive /\ score < 45 THEN "at_risk" ELSE "neutral"
  BY <1>2, <1>3 DEF Outcome
<1>5. Verdicts(ss) = Verdict(promises, positive, negative, score)
  BY <1>3 DEF Verdicts
<1> QED
  BY <1>1, <1>4, <1>5 DEF Verdict

(* The total of signals is a number. *)
LEMMA TotalIsInt == ASSUME NEW ss \in Seq(Signal) PROVE Total(ss) \in Int
<1>1. \A y \in Signal : Points(y) \in Int
  <2>1. \A y \in Signal : y.type \in DOMAIN Weight
    BY DEF Signal
  <2> QED
    BY <2>1, PointsOf
<1>2. PICK f : Adds(f, ss)
  BY <1>1, TotalStep
<1>3. PICK n \in Nat : n = Len(ss)
  OBVIOUS
<1> QED
  BY <1>2, <1>3 DEF Adds

(* Another signal moves the counts and the score the way of its kind. *)
LEMMA AnotherMoves ==
  ASSUME NEW ss \in Seq(Signal), NEW x, x.type \in DOMAIN Weight,
         x.subtype \in DOMAIN Bonuses => x.type \in Up
  PROVE  LET more == Append(ss, x)
         IN /\ x.type \in Up => /\ Score(ss) <= Score(more)
                                /\ Grade(Score(ss)) <= Grade(Score(more))
                                /\ Verdicts(ss) <= Verdicts(more)
            /\ x.type \notin Up => /\ Score(more) <= Score(ss)
                                   /\ Grade(Score(more)) <= Grade(Score(ss))
                                   /\ Verdicts(more) <= Verdicts(ss)
<1>1. PICK S : S = Signal \cup {x}
  OBVIOUS
<1>2. ss \in Seq(S) /\ x \in S
  BY <1>1, SeqWider
<1>3. \A y \in S : Points(y) \in Int
  <2>1. \A y \in Signal : y.type \in DOMAIN Weight
    BY DEF Signal
  <2> QED
    BY <1>1, <2>1, PointsOf
<1>4. PICK more : more = Append(ss, x)
  OBVIOUS
<1>5. Total(ss) \in Int /\ Total(more) = Total(ss) + Points(x) /\ Points(x) \in Int
  BY <1>2, <1>3, <1>4, TotalMore
<1>6. \A types : /\ Count(ss, types) \in Nat
                 /\ Count(more, types) = Count(ss, types) + (IF x.type \in types THEN 1 ELSE 0)
  BY <1>2, <1>4, CountMore
<1>7. PICK negatives : negatives = {"objection", "price_reaction"}
  OBVIOUS
<1>8. PICK p, q, pos, pos2, neg, neg2 \in Nat :
        /\ p = Count(ss, {"promise"}) /\ q = Count(more, {"promise"})
        /\ pos = Count(ss, Up) /\ pos2 = Count(more, Up)
        /\ neg = Count(ss, negatives) /\ neg2 = Count(more, negatives)
  <2>1. \A types : Count(more, types) \in Nat
    BY <1>6
  <2> QED
    BY <1>6, <2>1
<1>9. PICK a, b : a = Score(ss) /\ b = Score(more)
  OBVIOUS
<1>10. Verdicts(ss) = Verdict(p, pos, neg, a) /\ Verdicts(more) = Verdict(q, pos2, neg2, b)
  BY <1>7, <1>8, <1>9 DEF Verdicts
<1>11. ASSUME x.type \in Up
       PROVE  a \in Int /\ b \in Int /\ a <= b /\ p <= q /\ pos <= pos2 /\ neg2 <= neg
  <2>1. Points(x) > 0
    BY <1>11, PointsOf
  <2>2. Total(ss) \in Int /\ Total(more) \in Int /\ Total(ss) <= Total(more)
    BY <1>5, <2>1
  <2>3. a \in Int /\ b \in Int /\ a <= b
    BY <1>9, <2>2, ClampMoves DEF Score
  <2>4. x.type \notin negatives
    BY <1>7, <1>11 DEF Up
  <2>5. p <= q /\ pos <= pos2
    BY <1>6, <1>8
  <2>6. neg2 <= neg
    BY <1>6, <1>8, <2>4
  <2> QED
    BY <2>3, <2>5, <2>6
<1>12. ASSUME x.type \notin Up
       PROVE  a \in Int /\ b \in Int /\ b <= a /\ q <= p /\ pos2 <= pos /\ neg <= neg2
  <2>1. Points(x) < 0
    BY <1>12, PointsOf
  <2>2. Total(ss) \in Int /\ Total(more) \in Int /\ Total(more) <= Total(ss)
    BY <1>5, <2>1
  <2>3. a \in Int /\ b \in Int /\ b <= a
    BY <1>9, <2>2, ClampMoves DEF Score
  <2>4. x.type \notin {"promise"}
    BY <1>12 DEF Up
  <2>5. q <= p /\ pos2 <= pos
    BY <1>6, <1>8, <1>12, <2>4
  <2>6. neg <= neg2
    BY <1>6, <1>8
  <2> QED
    BY <2>3, <2>5, <2>6
<1>13. x.type \in Up => /\ a <= b /\ Grade(a) <= Grade(b) /\ Verdicts(ss) <= Verdicts(more)
  <2> SUFFICES ASSUME x.type \in Up
               PROVE  a <= b /\ Grade(a) <= Grade(b) /\ Verdicts(ss) <= Verdicts(more)
    OBVIOUS
  <2>1. Grade(a) <= Grade(b)
    BY <1>11, GradeMoves
  <2>2. Verdict(p, pos, neg, a) <= Verdict(q, pos2, neg2, b)
    BY <1>11, VerdictMoves
  <2> QED
    BY <1>10, <1>11, <2>1, <2>2
<1>14. x.type \notin Up => /\ b <= a /\ Grade(b) <= Grade(a) /\ Verdicts(more) <= Verdicts(ss)
  <2> SUFFICES ASSUME x.type \notin Up
               PROVE  b <= a /\ Grade(b) <= Grade(a) /\ Verdicts(more) <= Verdicts(ss)
    OBVIOUS
  <2>1. Grade(b) <= Grade(a)
    BY <1>12, GradeMoves
  <2>2. Verdict(q, pos2, neg2, b) <= Verdict(p, pos, neg, a)
    BY <1>12, VerdictMoves
  <2> QED
    BY <1>10, <1>12, <2>1, <2>2
<1> QED
  BY <1>4, <1>9, <1>13, <1>14

(* Whatever the signals: rating and outcome do not contradict each other, and one *)
(* signal more moves both the way of its kind.                                    *)
LEMMA ScoredSoFar == AnalysisTypeOK => ScoresAgree
<1> SUFFICES ASSUME AnalysisTypeOK PROVE ScoresAgree
  OBVIOUS
<1>1. PICK ss \in Seq(Signal) : ss = sigs
  BY DEF AnalysisTypeOK
<1>2. Outcome(ss) = "at_risk" => Rating(Score(ss)) = "Poor"
  <2>1. PICK score : score = Score(ss)
    OBVIOUS
  <2>2. CASE score < 45
    <3>1. score \in Int
      <4>1. Total(ss) \in Int
        BY TotalIsInt
      <4> QED
        BY <2>1, <4>1, ClampMoves DEF Score
    <3>2. ~(score >= 70) /\ ~(score >= 45)
      BY <2>2, <3>1
    <3> QED
      BY <2>1, <3>2 DEF Rating
  <2>3. CASE ~(score < 45)
    BY <2>1, <2>3 DEF Outcome
  <2> QED
    BY <2>2, <2>3
<1>3. ASSUME NEW k \in DOMAIN Taxonomy
      PROVE  LET more == Append(ss, [type |-> Taxonomy[k].type, subtype |-> Taxonomy[k].subtype])
             IN IF Taxonomy[k].type \in {"demand", "intent", "promise"}
                THEN /\ Score(more) >= Score(ss)
                     /\ Rank[Rating(Score(more))] >= Rank[Rating(Score(ss))]
                     /\ Rank[Outcome(more)] >= Rank[Outcome(ss)]
                ELSE /\ Score(more) <= Score(ss)
                     /\ Rank[Rating(Score(more))] <= Rank[Rating(Score(ss))]
                     /\ Rank[Outcome(more)] <= Rank[Outcome(ss)]
  <2>1. PICK t : t = Taxonomy[k]
    OBVIOUS
  <2>2. PICK x : x = [type |-> t.type, subtype |-> t.subtype]
    OBVIOUS
  <2>3. x.type = t.type /\ x.type \in DOMAIN Weight
        /\ (x.subtype \in DOMAIN Bonuses => x.type \in Up)
    <3>1. PICK types : types = [type : DOMAIN ExpectedSpeaker, subtype : STRING]
      OBVIOUS
    <3>2. t \in types
      <4>1. PICK taxonomy \in Seq(types) : taxonomy = Taxonomy
        BY <3>1, TaxonomyAssumption
      <4> QED
        BY <2>1, <4>1
    <3>3. DOMAIN ExpectedSpeaker = DOMAIN Weight
      BY DEF ExpectedSpeaker, Weight
    <3>4. t \in ToSet(Taxonomy)
      BY <2>1 DEF ToSet
    <3>5. t.type \in DOMAIN Weight /\ (t.subtype \in DOMAIN Bonuses => t.type \in Up)
      BY <3>1, <3>2, <3>3, <3>4, TaxonomyAssumption DEF Up
    <3> QED
      BY <2>2, <3>5
  <2>4. PICK more : more = Append(ss, x)
    OBVIOUS
  <2>5. /\ x.type \in Up => /\ Score(ss) <= Score(more)
                            /\ Grade(Score(ss)) <= Grade(Score(more))
                            /\ Verdicts(ss) <= Verdicts(more)
        /\ x.type \notin Up => /\ Score(more) <= Score(ss)
                               /\ Grade(Score(more)) <= Grade(Score(ss))
                               /\ Verdicts(more) <= Verdicts(ss)
    BY <2>3, <2>4, AnotherMoves
  <2>6. Up = {"demand", "intent", "promise"}
    BY DEF Up
  <2> QED
    BY <2>1, <2>2, <2>3, <2>4, <2>5, <2>6, RankOfRating, RankOfOutcome
<1> QED
  BY <1>1, <1>2, <1>3 DEF ScoresAgree

-----------------------------------------------------------------------------
(* The customer is heard, from the lines of the recording to the stored signals. *)

(* What a line sounds like to the batch job: the voice it is put with. *)
Sounds(u, line, d) ==
  /\ u \in Utterance /\ u.line = line /\ u.speaker = "unknown"
  /\ d => u.sid = line.voice
  /\ ~d => u.sid = ""

(* A heard line sounds so. *)
LEMMA HeardAs ==
  ASSUME NEW line \in SpokenLine, NEW d \in BOOLEAN
  PROVE  Sounds(Heard(line, d, "unknown"), line, d)
<1>1. PICK u : u = Heard(line, d, "unknown")
  OBVIOUS
<1>2. "unknown" \in Speaker
  BY DEF Speaker
<1>3. u \in Utterance
  BY <1>1, <1>2, HeardTurn
<1>4. u.line = line /\ u.sid = (IF d THEN line.voice ELSE "") /\ u.speaker = "unknown"
  BY <1>1 DEF Heard
<1>5. Sounds(u, line, d)
  BY <1>3, <1>4 DEF Sounds
<1> QED
  BY <1>1, <1>5

(* The cluster of such a turn. *)
LEMMA ClusterOf ==
  ASSUME NEW u, NEW line, NEW d \in BOOLEAN, Sounds(u, line, d)
  PROVE  /\ ~d => SidOf(u) = "unknown"
         /\ d => SidOf(u) = IF line.voice # "" THEN line.voice ELSE "unknown"
         /\ d => (SidOf(u) = "rep" <=> line.voice = "rep")
BY DEF Sounds, SidOf

(* The clear lines of a recording, heard: noise is dropped from both alike. *)
LEMMA HeardClear ==
  ASSUME NEW lines \in Seq(SpokenLine), NEW d \in BOOLEAN, NEW clear, NEW c,
         clear = NotNoise(Hear(lines, d)), c = Only(lines, {line \in ToSet(lines) : ~line.noise})
  PROVE  /\ c \in Seq(SpokenLine) /\ clear \in Seq(Utterance) /\ Len(clear) = Len(c)
         /\ \A k \in 1..Len(c) : Sounds(clear[k], c[k], d)
<1>1. PICK us : us = Hear(lines, d)
  OBVIOUS
<1>2. PICK held : held = {line \in ToSet(lines) : ~line.noise}
  OBVIOUS
<1>3. PICK kept : kept = {u \in ToSet(us) : ~u.line.noise}
  OBVIOUS
<1>4. us \in Seq(Utterance)
  BY <1>1, HeardAll
<1>5. PICK n \in Nat : n = Len(lines) /\ DOMAIN lines = 1..n
  OBVIOUS
<1>6. us = [i \in 1..n |-> Heard(lines[i], d, "unknown")]
  BY <1>1, <1>5 DEF Hear
<1>7. Len(us) = n /\ DOMAIN us = 1..n
  BY <1>4, <1>6
<1>8. ASSUME NEW i \in 1..n PROVE us[i] \in kept <=> lines[i] \in held
  <2>1. PICK line \in SpokenLine : line = lines[i]
    BY <1>5
  <2>2. us[i] = Heard(line, d, "unknown")
    BY <1>6, <2>1
  <2>3. us[i].line = line
    <3>1. Sounds(us[i], line, d)
      BY <2>2, HeardAs
    <3> QED
      BY <3>1 DEF Sounds
  <2>4. us[i] \in ToSet(us) /\ lines[i] \in ToSet(lines)
    BY <1>5, <1>7 DEF ToSet
  <2> QED
    BY <1>2, <1>3, <2>1, <2>3, <2>4
<1>9. KeptAlike(us, kept, lines, held)
  BY <1>5, <1>7, <1>8 DEF KeptAlike
<1>10. PICK a, b : a = Only(us, kept) /\ b = Only(lines, held)
  OBVIOUS
<1>11. /\ Len(a) = Len(b)
       /\ \A k \in 1..Len(a) : \E i \in 1..Len(us) : a[k] = us[i] /\ b[k] = lines[i]
  <2>1. /\ Len(Only(us, kept)) = Len(Only(lines, held))
        /\ \A k \in 1..Len(Only(us, kept)) : \E i \in 1..Len(us) :
             Only(us, kept)[k] = us[i] /\ Only(lines, held)[k] = lines[i]
    BY <1>4, <1>9, OnlyTogether
  <2> QED
    BY <1>10, <2>1
<1>12. a \in Seq(Utterance) /\ b \in Seq(SpokenLine)
  BY <1>4, <1>10, OnlyFacts
<1>13. ASSUME NEW k \in 1..Len(b) PROVE Sounds(a[k], b[k], d)
  <2>1. PICK i \in 1..n : a[k] = us[i] /\ b[k] = lines[i]
    BY <1>7, <1>11
  <2>2. PICK line \in SpokenLine : line = lines[i]
    BY <1>5
  <2>3. a[k] = Heard(line, d, "unknown") /\ b[k] = line
    BY <1>6, <2>1, <2>2
  <2> QED
    BY <2>3, HeardAs
<1>14. a = clear /\ b = c
  BY <1>1, <1>2, <1>3, <1>10 DEF NotNoise
<1> QED
  BY <1>11, <1>12, <1>13, <1>14

(* Of two clusters at most, none is dropped. *)
LEMMA AllKept ==
  ASSUME NEW us, Cardinality(Sids(us)) <= 2
  PROVE  Kept(us) = Sids(us)
<1>1. PICK total : total = MapThenSumSet(LAMBDA i : us[i].line.time, DOMAIN us)
  OBVIOUS
<1>2. PICK loud : loud = {s \in Sids(us) : 25 * Spoke(us, s) >= total \/ Cardinality(Sids(us)) <= 2}
  OBVIOUS
<1>3. loud = Sids(us)
  BY <1>2
<1>4. Cardinality(loud) <= 2
  BY <1>3
<1>5. Kept(us) = loud
  BY <1>1, <1>2, <1>4 DEF Kept
<1> QED
  BY <1>3, <1>5

(* The voices of lines, a visit of two voices, and turns that are labelled right. *)
VoicesOf(c) == {c[i].voice : i \in DOMAIN c}

OfTwo(us, c) ==
  /\ us # <<>> /\ \A i \in DOMAIN us : us[i].sid # ""
  /\ "rep" \in VoicesOf(c) /\ Cardinality(VoicesOf(c)) = 2

RightTurn(u) ==
  u.speaker # "unknown" /\ (u.line.voice = "rep" => u.speaker = "agent")

RightTurns(us, c) ==
  /\ \A i \in DOMAIN us : RightTurn(us[i])
  /\ OfTwo(us, c) => /\ Len(us) = Len(c)
                     /\ \A i \in DOMAIN us :
                          us[i].line.voice # "rep" => us[i].speaker = "customer"

(* TurnsHeard in these terms, and its primed form. *)
LEMMA TurnsHeardIs == TurnsHeard <=> RightTurns(utts, Clear)
BY DEF TurnsHeard, RightTurns, RightTurn, OfTwo, Dialogue, Voices, VoicesOf

(* TurnsHeard in these terms, and its primed form. *)
LEMMA TurnsHeardIsNext == TurnsHeard' <=> RightTurns(utts', Clear')
BY DEF TurnsHeard, RightTurns, RightTurn, OfTwo, Dialogue, Voices, VoicesOf

(* A visit of two voices has two clusters at most. *)
LEMMA TwoClusters ==
  ASSUME NEW c \in Seq(SpokenLine), NEW clear \in Seq(Utterance), Len(clear) = Len(c),
         NEW d \in BOOLEAN, \A k \in 1..Len(c) : Sounds(clear[k], c[k], d),
         IF d THEN Cardinality(VoicesOf(c)) = 2 ELSE c # <<>>
  PROVE  Cardinality(Sids(clear)) <= 2 /\ (~d => Sids(clear) = {"unknown"})
<1>1. PICK n \in Nat : n = Len(c) /\ DOMAIN c = 1..n /\ DOMAIN clear = 1..n
  OBVIOUS
<1>2. PICK V : V = IF d THEN VoicesOf(c) ELSE {"unknown"}
  OBVIOUS
<1>3. PICK f : f = [v \in V |-> IF v # "" THEN v ELSE "unknown"]
  OBVIOUS
<1>4. ASSUME NEW i \in 1..n PROVE \E v \in V : SidOf(clear[i]) = f[v]
  <2>1. PICK line : line = c[i]
    OBVIOUS
  <2>2. PICK u : u = clear[i] /\ Sounds(u, line, d)
    BY <1>1, <2>1
  <2>3. /\ ~d => SidOf(u) = "unknown"
        /\ d => SidOf(u) = IF line.voice # "" THEN line.voice ELSE "unknown"
    BY <2>2, ClusterOf
  <2>4. CASE d
    <3>1. line.voice \in V
      BY <1>1, <1>2, <2>1, <2>4 DEF VoicesOf
    <3> QED
      BY <1>3, <2>2, <2>3, <2>4, <3>1
  <2>5. CASE ~d
    BY <1>2, <1>3, <2>2, <2>3, <2>5
  <2> QED
    BY <2>4, <2>5
<1>5. PICK T : T = {f[v] : v \in V}
  OBVIOUS
<1>6. Sids(clear) \subseteq T
  BY <1>1, <1>4, <1>5 DEF Sids
<1>7. IsFiniteSet(V) /\ Cardinality(V) <= 2
  <2>1. CASE d
    <3>1. V = {c[i].voice : i \in 1..n} /\ Cardinality(V) = 2
      BY <1>1, <1>2, <2>1 DEF VoicesOf
    <3>2. IsFiniteSet(1..n)
      BY FS_Interval
    <3>3. PICK g : g = [i \in 1..n |-> c[i].voice]
      OBVIOUS
    <3>4. g \in Surjection(1..n, V)
      BY <3>1, <3>3 DEF Surjection
    <3> QED
      BY <3>1, <3>2, <3>4, FS_Surjection
  <2>2. CASE ~d
    <3>1. V = {"unknown"}
      BY <1>2, <2>2
    <3>2. IsFiniteSet(V) /\ Cardinality(V) = 1
      BY <3>1, FS_Singleton
    <3> QED
      BY <3>2
  <2> QED
    BY <2>1, <2>2
<1>8. IsFiniteSet(T) /\ Cardinality(T) <= Cardinality(V)
  <2>1. f \in Surjection(V, T)
    BY <1>3, <1>5 DEF Surjection
  <2> QED
    BY <1>7, <2>1, FS_Surjection
<1>9. Cardinality(Sids(clear)) <= Cardinality(T) /\ Cardinality(T) \in Nat
      /\ Cardinality(V) \in Nat /\ IsFiniteSet(Sids(clear))
  BY <1>6, <1>7, <1>8, FS_Subset, FS_CardinalityType
<1>10. Cardinality(Sids(clear)) \in Nat
  BY <1>9, FS_CardinalityType
<1>11. ASSUME ~d PROVE Sids(clear) = {"unknown"}
  <2>1. T = {"unknown"}
    BY <1>2, <1>3, <1>5, <1>11
  <2>2. 1 \in 1..n
    BY <1>1, <1>11
  <2>3. SidOf(clear[1]) \in Sids(clear)
    BY <1>1, <2>2 DEF Sids
  <2> QED
    BY <1>6, <2>1, <2>3
<1> QED
  BY <1>7, <1>8, <1>9, <1>10, <1>11
(* Relabelling a turn changes its speaker only. *)
LEMMA SpeakerOnly ==
  ASSUME NEW u \in Utterance, NEW speaker, NEW v, v = [u EXCEPT !.speaker = speaker]
  PROVE  v.speaker = speaker /\ v.line = u.line /\ v.sid = u.sid
BY DEF Utterance

(* The rep is known: by his voiceprint, or as the one who speaks first. *)
RepHeard(print, c) == print = "clear" \/ (print = "none" /\ c # <<>> /\ c[1].voice = "rep")

(* Cleanup labels every turn, the rep's as the agent's; of a visit of two it drops none *)
(* and labels the other's as the customer's.                                            *)
LEMMA CleanedHeard ==
  ASSUME NEW lines \in Seq(SpokenLine), NEW d \in BOOLEAN, NEW us, us = Hear(lines, d),
         NEW c, c = Only(lines, {line \in ToSet(lines) : ~line.noise}),
         RepHeard(recording.print, c), NEW best \in Nearest(us)
  PROVE  RightTurns(Cleanup(us, best), c)
<1>1. PICK clear : clear = NotNoise(us)
  OBVIOUS
<1>2. /\ c \in Seq(SpokenLine) /\ clear \in Seq(Utterance) /\ Len(clear) = Len(c)
      /\ \A k \in 1..Len(c) : Sounds(clear[k], c[k], d)
  BY <1>1, HeardClear
<1>3. PICK n \in Nat : n = Len(c) /\ DOMAIN c = 1..n /\ n = Len(clear) /\ DOMAIN clear = 1..n
  <2>1. DOMAIN c = 1..Len(c) /\ Len(c) \in Nat
    BY <1>2
  <2>2. DOMAIN clear = 1..Len(clear)
    BY <1>2
  <2> QED
    BY <1>2, <2>1, <2>2
<1>4. PICK loud : loud = {u \in ToSet(clear) : SidOf(u) \in Kept(clear)}
  OBVIOUS
<1>5. PICK kept : kept = Only(clear, loud)
  OBVIOUS
<1>6. PICK agent : agent = IF recording.print # "none" THEN best ELSE SidOf(kept[1])
  OBVIOUS
<1>7. PICK vs : vs = [i \in DOMAIN kept |->
        [kept[i] EXCEPT !.speaker = IF SidOf(kept[i]) = agent THEN "agent" ELSE "customer"]]
  OBVIOUS
<1>8. Cleanup(us, best) = vs
  BY <1>1, <1>4, <1>5, <1>6, <1>7 DEF Cleanup
<1>9. kept \in Seq(Utterance) /\ ToSet(kept) \subseteq loud
  BY <1>2, <1>5, OnlyFacts
<1>10. PICK m \in Nat : m = Len(kept) /\ DOMAIN kept = 1..m
  BY <1>9
<1>11. ASSUME NEW i \in 1..m
       PROVE  \E k \in 1..n : kept[i] = clear[k] /\ SidOf(clear[k]) \in Kept(clear)
  <2>1. kept[i] \in loud
    BY <1>9, <1>10 DEF ToSet
  <2>2. kept[i] \in ToSet(clear) /\ SidOf(kept[i]) \in Kept(clear)
    BY <1>4, <2>1
  <2> QED
    BY <1>3, <2>2 DEF ToSet
(* Without diarization there is one cluster, and it is the agent's. *)
<1>12. ASSUME ~d, NEW i \in 1..m PROVE SidOf(kept[i]) = agent
  <2>1. \A k \in 1..n : SidOf(clear[k]) = "unknown"
    BY <1>2, <1>3, <1>12, ClusterOf
  <2>2. \A k \in 1..m : SidOf(kept[k]) = "unknown"
    BY <1>11, <2>1
  <2>3. 1 \in 1..m /\ \E k \in 1..n : TRUE
    BY <1>11
  <2>4. agent = "unknown"
    <3>1. CASE recording.print = "none"
      BY <1>6, <2>2, <2>3, <3>1
    <3>2. CASE recording.print = "clear"
      <4>1. c # <<>> /\ clear # <<>>
        BY <1>3, <2>3
      <4>2. Cardinality(Sids(clear)) <= 2 /\ Sids(clear) = {"unknown"}
        BY <1>2, <1>12, <4>1, TwoClusters
      <4>3. Kept(clear) = {"unknown"}
        BY <4>2, AllKept
      <4>4. Nearest(us) = {"unknown"}
        BY <1>1, <4>1, <4>3 DEF Nearest
      <4> QED
        BY <1>6, <3>2, <4>4
    <3> QED
      BY <3>1, <3>2 DEF RepHeard
  <2> QED
    BY <2>2, <2>4
(* With it the rep's cluster is the agent's, if the rep is heard at all. *)
<1>13. ASSUME d, NEW i \in 1..m, kept[i].line.voice = "rep" PROVE agent = "rep"
  <2>1. PICK k \in 1..n : kept[i] = clear[k] /\ SidOf(clear[k]) \in Kept(clear)
    BY <1>11
  <2>2. SidOf(clear[k]) = "rep"
    <3>1. Sounds(clear[k], c[k], d)
      BY <1>2, <1>3
    <3>2. c[k].voice = "rep"
      BY <1>13, <2>1, <3>1 DEF Sounds
    <3> QED
      BY <1>13, <3>1, <3>2, ClusterOf
  <2>3. "rep" \in Kept(clear)
    BY <2>1, <2>2
  <2>4. CASE recording.print = "clear"
    <3>1. clear # <<>>
      BY <1>3
    <3>2. Nearest(us) = {"rep"}
      BY <1>1, <2>3, <2>4, <3>1 DEF Nearest
    <3> QED
      BY <1>6, <2>4, <3>2
  <2>5. CASE recording.print = "none" /\ c # <<>> /\ c[1].voice = "rep"
    <3>1. 1 \in 1..n /\ Sounds(clear[1], c[1], d)
      BY <1>2, <1>3
    <3>2. SidOf(clear[1]) = "rep"
      BY <1>13, <2>5, <3>1, ClusterOf
    <3>3. clear[1] \in loud
      BY <1>3, <1>4, <2>3, <3>1, <3>2 DEF ToSet
    <3>4. kept[1] = clear[1]
      BY <1>2, <1>3, <1>5, <3>1, <3>3, OnlyFirst
    <3> QED
      BY <1>6, <2>5, <3>2, <3>4
  <2> QED
    BY <2>4, <2>5 DEF RepHeard
<1>14. ASSUME NEW i \in 1..m
       PROVE  /\ vs[i].speaker = (IF SidOf(kept[i]) = agent THEN "agent" ELSE "customer")
              /\ vs[i].line = kept[i].line /\ vs[i].sid = kept[i].sid
  <2>1. PICK u \in Utterance : u = kept[i]
    BY <1>9, <1>10
  <2>2. PICK label : label = IF SidOf(kept[i]) = agent THEN "agent" ELSE "customer"
    OBVIOUS
  <2>3. PICK v : v = vs[i]
    OBVIOUS
  <2>4. v = [u EXCEPT !.speaker = label]
    BY <1>7, <1>10, <2>1, <2>2, <2>3
  <2>5. v.speaker = label /\ v.line = u.line /\ v.sid = u.sid
    BY <2>4, SpeakerOnly
  <2> QED
    BY <2>1, <2>2, <2>3, <2>5
<1>15. Len(vs) = m /\ DOMAIN vs = 1..m
  <2>1. DOMAIN vs = 1..m
    BY <1>7, <1>10
  <2>2. Len(vs) = m
    BY <1>7, <1>10
  <2> QED
    BY <2>1, <2>2
<1>16. ASSUME NEW i \in 1..m
       PROVE  \E k \in 1..n : kept[i] = clear[k] /\ Sounds(kept[i], c[k], d)
  BY <1>2, <1>3, <1>11
(* Of a visit of two nothing is dropped. *)
<1>17. ASSUME OfTwo(vs, c) PROVE d /\ kept = clear /\ agent = "rep"
  <2>1. 1 \in 1..m
    <3>1. us \in Seq(Utterance)
      BY HeardAll
    <3>2. vs \in Seq(Utterance)
      BY <1>8, <3>1, CleanedUp
    <3>3. vs # <<>>
      BY <1>17 DEF OfTwo
    <3>4. Len(vs) >= 1
      BY <3>2, <3>3, NotEmpty
    <3> QED
      BY <1>15, <3>4
  <2>2. kept[1].sid # ""
    BY <1>14, <1>15, <1>17, <2>1 DEF OfTwo
  <2>3. d
    BY <1>16, <2>1, <2>2 DEF Sounds
  <2>4. Kept(clear) = Sids(clear)
    <3>1. Cardinality(VoicesOf(c)) = 2
      BY <1>17 DEF OfTwo
    <3>2. Cardinality(Sids(clear)) <= 2
      BY <1>2, <2>3, <3>1, TwoClusters
    <3> QED
      BY <3>2, AllKept
  <2>5. kept = clear
    <3>1. ToSet(clear) \subseteq loud
      BY <1>3, <1>4, <2>4 DEF Sids, ToSet
    <3> QED
      BY <1>2, <1>5, <3>1, OnlyAll
  <2>6. PICK k \in 1..n : c[k].voice = "rep"
    BY <1>3, <1>17 DEF OfTwo, VoicesOf
  <2>7. k \in 1..m /\ kept[k].line.voice = "rep"
    <3>1. Sounds(clear[k], c[k], d)
      BY <1>2, <1>3
    <3>2. m = n
      BY <1>3, <1>10, <2>5
    <3> QED
      BY <2>5, <2>6, <3>1, <3>2 DEF Sounds
  <2>8. agent = "rep"
    BY <1>13, <2>3, <2>7
  <2> QED
    BY <2>3, <2>5, <2>8
<1>18. ASSUME NEW i \in 1..m, d PROVE SidOf(kept[i]) = "rep" <=> kept[i].line.voice = "rep"
  <2>1. PICK k \in 1..n : Sounds(kept[i], c[k], d)
    BY <1>16
  <2>2. SidOf(kept[i]) = "rep" <=> c[k].voice = "rep"
    BY <1>18, <2>1, ClusterOf
  <2> QED
    BY <2>1, <2>2 DEF Sounds
<1>19. ASSUME NEW i \in 1..m PROVE RightTurn(vs[i])
  <2>1. vs[i].speaker # "unknown"
    BY <1>14
  <2>2. ASSUME vs[i].line.voice = "rep" PROVE vs[i].speaker = "agent"
    <3>1. SidOf(kept[i]) = agent
      BY <1>12, <1>13, <1>14, <1>18, <2>2
    <3> QED
      BY <1>14, <3>1
  <2> QED
    BY <2>1, <2>2 DEF RightTurn
<1>20. ASSUME OfTwo(vs, c), NEW i \in 1..m, vs[i].line.voice # "rep"
       PROVE  vs[i].speaker = "customer"
  BY <1>14, <1>17, <1>18, <1>20
<1>21. OfTwo(vs, c) => Len(vs) = Len(c)
  BY <1>3, <1>10, <1>15, <1>17
<1>22. RightTurns(vs, c)
  BY <1>15, <1>19, <1>20, <1>21 DEF RightTurns
<1> QED
  BY <1>8, <1>22

(* A turn that a later stage normalised or redacted says the same by the same speaker. *)
Alike(v, u) ==
  v.line = u.line /\ v.sid = u.sid /\ v.speaker = u.speaker

(* Normalising a turn leaves it so. *)
LEMMA NormalisedAlike ==
  ASSUME NEW u \in Utterance, NEW norm, NEW pii
  PROVE  Alike([u EXCEPT !.norm = norm, !.normPii = pii], u)
BY DEF Utterance, Alike

(* Redacting a turn leaves it so. *)
LEMMA RedactedAlike ==
  ASSUME NEW u \in Utterance, NEW found
  PROVE  Alike([u EXCEPT !.textPii = @ \ found, !.normPii = @ \ found], u)
BY DEF Utterance, Alike

(* What is said stays who said it. *)
LEMMA SaidAlike ==
  ASSUME utts \in Seq(Utterance), Translate \/ TranslateStub \/ Redact
  PROVE  \A i \in DOMAIN utts : Alike(utts'[i], utts[i])
<1> SUFFICES ASSUME NEW i \in DOMAIN utts PROVE Alike(utts'[i], utts[i])
  OBVIOUS
<1>1. PICK u \in Utterance : u = utts[i]
  OBVIOUS
<1>2. PICK v : v = utts'[i]
  OBVIOUS
<1>3. CASE Translate
  <2>1. v = [u EXCEPT !.norm = "translated", !.normPii = InEnglish(u.textPii)]
        \/ v = [u EXCEPT !.norm = "same", !.normPii = u.textPii]
    BY <1>1, <1>2, <1>3 DEF Translate
  <2>2. PICK norm, pii : v = [u EXCEPT !.norm = norm, !.normPii = pii]
    BY <2>1
  <2>3. Alike(v, u)
    BY <2>2, NormalisedAlike
  <2> QED
    BY <1>1, <1>2, <2>3
<1>4. CASE TranslateStub
  <2>1. v = [u EXCEPT !.norm = "same", !.normPii = u.textPii]
    BY <1>1, <1>2, <1>4 DEF TranslateStub
  <2>2. Alike(v, u)
    BY <2>1, NormalisedAlike
  <2> QED
    BY <1>1, <1>2, <2>2
<1>5. CASE Redact
  <2>1. PICK found : found = Recognised
    OBVIOUS
  <2>2. utts' = [k \in DOMAIN utts |->
                   [utts[k] EXCEPT !.textPii = @ \ found, !.normPii = @ \ found]]
    BY <1>5, <2>1 DEF Redact
  <2>3. v = [u EXCEPT !.textPii = @ \ found, !.normPii = @ \ found]
    BY <1>1, <1>2, <2>2
  <2>4. Alike(v, u)
    BY <2>3, RedactedAlike
  <2> QED
    BY <1>1, <1>2, <2>4
<1> QED
  BY <1>3, <1>4, <1>5

(* Labels stay right. *)
LEMMA RightTurnsKept ==
  ASSUME NEW us \in Seq(Utterance), NEW vs \in Seq(Utterance), DOMAIN vs = DOMAIN us,
         \A i \in DOMAIN us : Alike(vs[i], us[i]), NEW c, RightTurns(us, c)
  PROVE  RightTurns(vs, c)
<1>1. PICK n \in Nat : n = Len(us) /\ DOMAIN us = 1..n
  OBVIOUS
<1>2. Len(vs) = n /\ DOMAIN vs = 1..n
  BY <1>1
<1>3. ASSUME NEW i \in 1..n PROVE RightTurn(vs[i])
  BY <1>1, <1>3 DEF RightTurns, RightTurn, Alike
<1>4. ASSUME OfTwo(vs, c) PROVE OfTwo(us, c)
  <2>1. vs # <<>>
    BY <1>4 DEF OfTwo
  <2>2. n >= 1
    BY <1>2, <2>1, NotEmpty
  <2>3. us # <<>>
    BY <1>1, <2>2
  <2> QED
    BY <1>1, <1>2, <1>4, <2>3 DEF OfTwo, Alike
<1>5. ASSUME OfTwo(vs, c)
      PROVE  /\ Len(vs) = Len(c)
             /\ \A i \in 1..n : vs[i].line.voice # "rep" => vs[i].speaker = "customer"
  <2>1. /\ Len(us) = Len(c)
        /\ \A i \in 1..n : us[i].line.voice # "rep" => us[i].speaker = "customer"
    BY <1>1, <1>4, <1>5 DEF RightTurns
  <2> QED
    BY <1>1, <1>2, <2>1 DEF Alike
<1> QED
  BY <1>2, <1>3, <1>5 DEF RightTurns

(* Diarization has nothing to label. *)
LEMMA AllLabelled ==
  ASSUME utts \in Seq(Utterance), DiarizeStub \/ DiarizePassthrough,
         \A i \in DOMAIN utts : utts[i].speaker # "unknown"
  PROVE  utts' = utts
<1>1. utts = [i \in DOMAIN utts |-> utts[i]]
  OBVIOUS
<1>2. CASE DiarizeStub
  <2>1. utts' = [i \in DOMAIN utts |-> utts'[i]]
    BY <1>2 DEF DiarizeStub
  <2>2. \A i \in DOMAIN utts : utts'[i] = utts[i]
    BY <1>2 DEF DiarizeStub
  <2> QED
    BY <1>1, <2>1, <2>2
<1>3. CASE DiarizePassthrough
  <2>1. utts' = [i \in DOMAIN utts |-> utts'[i]]
    BY <1>3 DEF DiarizePassthrough
  <2>2. \A i \in DOMAIN utts : utts'[i] = utts[i]
    BY <1>3 DEF DiarizePassthrough
  <2> QED
    BY <1>1, <2>1, <2>2
<1> QED
  BY <1>2, <1>3

(* When the transcript is made by the batch job, no stage ran before it, and no other *)
(* makes one.                                                                         *)
LEMMA BatchFirst ==
  ASSUME AnalysisTypeOK, RepKnown, NEW impls, Runs("asr", impls)
  PROVE  done = 0 /\ "sarvam_batch" \in impls
<1>1. PICK n \in Nat : n = Len(plan) /\ DOMAIN plan = 1..n /\ done \in 0..n
  BY PlanIs
<1>2. Accepted(plan)
  BY PlanIs DEF Runs, Started
<1>3. done < n /\ plan[done + 1][1] = "asr" /\ plan[done + 1][2] \in impls
  BY <1>1 DEF Runs
<1>4. done + 1 \in 1..n /\ 1 \in 1..n
  BY <1>1, <1>3
<1>5. plan[1][1] = "asr" /\ plan[1][2] = "sarvam_batch"
  <2>1. plan[1] = <<"asr", "sarvam_batch">>
    BY DEF RepKnown
  <2>2. <<"asr", "sarvam_batch">>[1] = "asr" /\ <<"asr", "sarvam_batch">>[2] = "sarvam_batch"
    OBVIOUS
  <2> QED
    BY <2>1, <2>2
<1>6. \A i, j \in 1..n : plan[i][1] = plan[j][1] => i = j
  BY <1>1, <1>2 DEF Accepted
<1>7. done + 1 = 1
  BY <1>3, <1>4, <1>5, <1>6
<1>8. done = 0
  BY <1>1, <1>7
<1> QED
  BY <1>3, <1>5, <1>8

(* A type that is sought in the customer's turns only. *)
LEMMA CustomerSideOnly ==
  ASSUME NEW type \in CustomerSide
  PROVE  ExpectedSpeaker[type] = {"customer"}
BY DEF CustomerSide, ExpectedSpeaker

(* After the extraction every quote of the customer is of a turn of hers, and every *)
(* moment that passes the gates is quoted.                                          *)
LEMMA Extracted ==
  ASSUME utts \in Seq(Utterance), ExtractSignals
  PROVE  QuotesHeard' /\ SignalsHeard'
<1>1. PICK us : us = utts /\ us = utts' /\ us \in Seq(Utterance)
  BY DEF ExtractSignals
<1>2. PICK ss : ss = sigs' /\ ss = Signals(us)
  BY <1>1 DEF ExtractSignals
<1>3. PICK V : V = SignalsOf(us) /\ ss \in Seq(V) /\ ToSet(ss) = V
  BY <1>1, <1>2, SignalsMade
<1>4. ASSUME NEW i \in DOMAIN ss, ss[i].type \in CustomerSide
      PROVE  ss[i].turn \in DOMAIN us /\ us[ss[i].turn].speaker = "customer"
  <2>1. PICK sig \in V : sig = ss[i]
    BY <1>3
  <2>2. sig.turn \in DOMAIN us /\ us[sig.turn].speaker \in ExpectedSpeaker[sig.type]
    BY <1>1, <1>3, SignalFacts
  <2>3. ExpectedSpeaker[sig.type] = {"customer"}
    BY <1>4, <2>1, CustomerSideOnly
  <2> QED
    BY <2>1, <2>2, <2>3
<1>5. ASSUME NEW i \in DOMAIN us, NEW k \in DOMAIN Taxonomy, IsSignal(us[i], Taxonomy[k])
      PROVE  \E n \in DOMAIN ss : /\ ss[n].turn = i /\ ss[n].type = Taxonomy[k].type
                                  /\ ss[n].subtype = Taxonomy[k].subtype
  <2>1. PICK t : t = Taxonomy[k] /\ t \in Passing(us[i])
    <3>1. Taxonomy[k] \in ToSet(Taxonomy)
      BY DEF ToSet
    <3> QED
      BY <1>5, <3>1 DEF Passing
  <2>2. PICK sig : sig = Quote(us, i, t)
    OBVIOUS
  <2>3. sig \in ToSet(ss)
    BY <1>3, <2>1, <2>2 DEF SignalsOf
  <2>4. PICK n \in DOMAIN ss : ss[n] = sig
    BY <2>3 DEF ToSet
  <2>5. sig.turn = i /\ sig.type = t.type /\ sig.subtype = t.subtype
    BY <2>2 DEF Quote
  <2> QED
    BY <2>1, <2>4, <2>5
<1>6. QuotesHeard'
  BY <1>1, <1>2, <1>4 DEF QuotesHeard
<1>7. SignalsHeard'
  BY <1>1, <1>2, <1>5 DEF SignalsHeard
<1> QED
  BY <1>6, <1>7

(* A plan that translates after the signals were extracted. *)
Late == After("lang_id_translation", "signal_extraction")

(* HeardInv in these terms, and its primed form. *)
LEMMA HeardIs ==
  HeardInv <=> /\ done = 0 => utts = <<>> /\ sigs = <<>>
               /\ RepKnown => /\ RightTurns(utts, Clear) /\ QuotesHeard
                              /\ Ran("signal_extraction") /\ ~Late => SignalsHeard
BY TurnsHeardIs DEF HeardInv, Late

(* HeardInv in these terms, and its primed form. *)
LEMMA HeardIsNext ==
  HeardInv' <=> /\ done' = 0 => utts' = <<>> /\ sigs' = <<>>
                /\ RepKnown' => /\ RightTurns(utts', Clear') /\ QuotesHeard'
                                /\ Ran("signal_extraction")' /\ ~Late' => SignalsHeard'
BY TurnsHeardIsNext DEF HeardInv, Late

(* The batch job's answer is labelled right. *)
LEMMA BatchHeard ==
  ASSUME AnalysisTypeOK, RepKnown, BatchTranscribe, utts = <<>>
  PROVE  RightTurns(utts', Clear)
<1>1. RightTurns(<<>>, Clear)
  <2>1. DOMAIN <<>> = {}
    OBVIOUS
  <2> QED
    BY <2>1 DEF RightTurns, OfTwo
<1>2. CASE utts' = <<>>
  BY <1>1, <1>2
<1>3. CASE UNCHANGED utts
  BY <1>1, <1>3
<1>4. CASE \E parts \in Parts, diarized \in BOOLEAN :
             \E best \in Nearest(Hear(Merged(parts), diarized)) :
               utts' = Cleanup(Hear(Merged(parts), diarized), best)
  <2>1. PICK parts \in Parts, d \in BOOLEAN :
               \E best \in Nearest(Hear(Merged(parts), d)) :
                 utts' = Cleanup(Hear(Merged(parts), d), best)
    BY <1>4
  <2>2. PICK best \in Nearest(Hear(Merged(parts), d)) :
               utts' = Cleanup(Hear(Merged(parts), d), best)
    BY <2>1
  <2>3. PICK lines \in Seq(SpokenLine) : lines = recording.lines
    BY DEF AnalysisTypeOK
  <2>4. Merged(parts) = lines
    BY <2>3 DEF Merged, RepKnown
  <2>5. PICK us : us = Hear(lines, d)
    OBVIOUS
  <2>6. PICK c : c = Only(lines, {line \in ToSet(lines) : ~line.noise})
    OBVIOUS
  <2>7. c = Clear
    BY <2>3, <2>6 DEF Clear
  <2>8. RepHeard(recording.print, c)
    BY <2>7 DEF RepKnown, RepHeard
  <2>9. best \in Nearest(us) /\ utts' = Cleanup(us, best)
    BY <2>2, <2>4, <2>5
  <2>10. RightTurns(Cleanup(us, best), c)
    BY <2>5, <2>6, <2>8, <2>9, CleanedHeard
  <2> QED
    BY <2>7, <2>9, <2>10
<1> QED
  BY <1>2, <1>3, <1>4 DEF BatchTranscribe

(* What is heard of the customer stays heard: the turns are labelled when they are    *)
(* made, what comes after changes neither label nor gate, and a translation that does *)
(* change what is found comes before the extraction or the plan is a late one.        *)
LEMMA Heeded ==
  AnalysisTypeOK /\ HeardInv /\ [AnalysisNext]_analysisVars => HeardInv'
<1> SUFFICES ASSUME AnalysisTypeOK, HeardInv, [AnalysisNext]_analysisVars PROVE HeardInv'
  OBVIOUS
<1>1. utts \in Seq(Utterance)
  BY DEF AnalysisTypeOK
<1>2. /\ done = 0 => utts = <<>> /\ sigs = <<>>
      /\ RepKnown => /\ RightTurns(utts, Clear) /\ QuotesHeard
                     /\ Ran("signal_extraction") /\ ~Late => SignalsHeard
  BY HeardIs
<1>3. UNCHANGED <<plan, recording>>
  BY DEF AnalysisNext, BuildPipeline, BatchTranscribe, SyncTranscribe, ReadTranscript,
     DiarizeStub, DiarizePassthrough, IdentifySpeaker, Translate, TranslateStub, Redact,
     DeleteAudio, ExtractSignals, Summarize, WriteNotes, StoreInsight, RecommendProducts,
     analysisVars
<1>4. (RepKnown' <=> RepKnown) /\ Clear' = Clear /\ (Late' <=> Late)
  BY <1>3 DEF RepKnown, Clear, Late, After, Role
<1>5. ASSUME done' = 0 => utts' = <<>> /\ sigs' = <<>>,
             RepKnown => /\ RightTurns(utts', Clear) /\ QuotesHeard'
                         /\ Ran("signal_extraction")' /\ ~Late => SignalsHeard'
      PROVE  HeardInv'
  BY <1>4, <1>5, HeardIsNext
<1>6. ASSUME NEW role, NEW impls, Runs(role, impls)
      PROVE  done' # 0 /\ \A x : Ran(x)' <=> Ran(x) \/ x = role
  <2>1. \A x : Ran(x)' <=> Ran(x) \/ x = role
    BY <1>3, <1>6, RanNext
  <2>2. PICK n \in Nat : done \in 0..n
    BY PlanIs
  <2>3. done' = done + 1
    BY <1>6 DEF Runs
  <2> QED
    BY <2>1, <2>2, <2>3
<1>7. ASSUME UNCHANGED <<utts, sigs>>, Ran("signal_extraction")' => Ran("signal_extraction"),
             done' = 0 => done = 0
      PROVE  HeardInv'
  <2>1. (QuotesHeard' <=> QuotesHeard) /\ (SignalsHeard' <=> SignalsHeard)
    BY <1>7 DEF QuotesHeard, SignalsHeard
  <2> QED
    BY <1>2, <1>5, <1>7, <2>1
<1>8. ASSUME NEW b \in 1..3, NEW impls, Runs(PrivacyOrder[b], impls)
      PROVE  ~Ran("signal_extraction")'
  <2>1. ~Ran(PrivacyOrder[4])
    BY <1>8, RanBefore
  <2>2. PrivacyOrder[b] # "signal_extraction"
    <3>1. b = 1 \/ b = 2 \/ b = 3
      OBVIOUS
    <3> QED
      BY <3>1, PrivacyOrderIs
  <2> QED
    BY <1>6, <1>8, <2>1, <2>2, PrivacyOrderIs
<1>9. ASSUME utts' \in Seq(Utterance), DOMAIN utts' = DOMAIN utts, UNCHANGED sigs,
             \A i \in DOMAIN utts : Alike(utts'[i], utts[i]), RepKnown
      PROVE  RightTurns(utts', Clear) /\ QuotesHeard'
  <2>1. RightTurns(utts', Clear)
    <3>1. PICK us, vs, c : us = utts /\ vs = utts' /\ c = Clear
      OBVIOUS
    <3>2. RightTurns(vs, c)
      BY <1>1, <1>2, <1>9, <3>1, RightTurnsKept
    <3> QED
      BY <3>1, <3>2
  <2>2. QuotesHeard'
    BY <1>2, <1>9 DEF QuotesHeard, Alike
  <2> QED
    BY <2>1, <2>2
<1>10. CASE BatchTranscribe \/ SyncTranscribe \/ ReadTranscript
  <2>1. UNCHANGED sigs /\ \E impls : Runs("asr", impls)
    BY <1>10 DEF BatchTranscribe, SyncTranscribe, ReadTranscript
  <2>2. done' # 0
    BY <1>6, <2>1
  <2>3. ~Ran("signal_extraction")'
    <3>1. PICK impls : Runs(PrivacyOrder[1], impls)
      BY <2>1, PrivacyOrderIs
    <3> QED
      BY <1>8, <3>1
  <2>4. ASSUME RepKnown PROVE RightTurns(utts', Clear) /\ QuotesHeard'
    <3>1. done = 0 /\ BatchTranscribe
      <4>1. ~Runs("asr", {"sarvam", "whisper"}) /\ ~Runs("asr", {"stub"})
        BY <2>4, BatchFirst
      <4>2. BatchTranscribe
        BY <1>10, <4>1 DEF SyncTranscribe, ReadTranscript
      <4> QED
        BY <2>1, <2>4, <4>2, BatchFirst
    <3>2. utts = <<>> /\ sigs' = <<>>
      BY <1>2, <2>1, <3>1
    <3>3. RightTurns(utts', Clear)
      BY <2>4, <3>1, <3>2, BatchHeard
    <3>4. QuotesHeard'
      <4>1. DOMAIN sigs' = {}
        BY <3>2
      <4> QED
        BY <4>1 DEF QuotesHeard
    <3> QED
      BY <3>3, <3>4
  <2> QED
    BY <1>5, <2>2, <2>3, <2>4
<1>11. CASE DiarizeStub \/ DiarizePassthrough
  <2>1. UNCHANGED sigs /\ \E impls : Runs("diarization", impls)
    BY <1>11 DEF DiarizeStub, DiarizePassthrough
  <2>2. done' # 0 /\ (Ran("signal_extraction")' => Ran("signal_extraction"))
    BY <1>6, <2>1
  <2>3. CASE RepKnown
    <3>1. \A i \in DOMAIN utts : utts[i].speaker # "unknown"
      BY <1>2, <2>3 DEF RightTurns, RightTurn
    <3>2. utts' = utts
      BY <1>1, <1>11, <3>1, AllLabelled
    <3> QED
      BY <1>7, <2>1, <2>2, <3>2
  <2>4. CASE ~RepKnown
    BY <1>5, <2>2, <2>4
  <2> QED
    BY <2>3, <2>4
<1>12. CASE Translate \/ TranslateStub
  <2>1. UNCHANGED sigs /\ \E impls : Runs("lang_id_translation", impls)
    BY <1>12 DEF Translate, TranslateStub
  <2>2. done' # 0 /\ (Ran("signal_extraction")' => Ran("signal_extraction"))
    BY <1>6, <2>1
  <2>3. utts' \in Seq(Utterance) /\ DOMAIN utts' = DOMAIN utts
    BY <1>1, <1>12, Normalised
  <2>4. \A i \in DOMAIN utts : Alike(utts'[i], utts[i])
    BY <1>1, <1>12, SaidAlike
  <2>5. Ran("signal_extraction") => Late
    <3>1. PICK n \in Nat : n = Len(plan) /\ DOMAIN plan = 1..n /\ done \in 0..n
      BY PlanIs
    <3>2. done + 1 \in 1..n /\ plan[done + 1][1] = "lang_id_translation"
      <4>1. done < n /\ plan[done + 1][1] = "lang_id_translation"
        BY <2>1, <3>1 DEF Runs
      <4>2. \A e \in 0..n : e < n => e + 1 \in 1..n
        OBVIOUS
      <4> QED
        BY <3>1, <4>1, <4>2
    <3>3. ASSUME NEW k \in 1..done, Role(k) = "signal_extraction" PROVE Late
      <4>1. k \in 1..n /\ k < done + 1
        <5>1. \A e \in 0..n : \A l \in 1..e : l \in 1..n /\ l < e + 1
          OBVIOUS
        <5> QED
          BY <3>1, <3>3, <5>1
      <4> QED
        BY <3>1, <3>2, <3>3, <4>1 DEF Late, After, Role
    <3> QED
      BY <3>3 DEF Ran
  <2> QED
    BY <1>5, <1>9, <2>1, <2>2, <2>3, <2>4, <2>5
<1>13. CASE Redact
  <2>1. UNCHANGED sigs /\ \E impls : Runs("pii_redaction", impls)
    BY <1>13 DEF Redact
  <2>2. done' # 0
    BY <1>6, <2>1
  <2>3. ~Ran("signal_extraction")'
    <3>1. PICK impls : Runs(PrivacyOrder[2], impls)
      BY <2>1, PrivacyOrderIs
    <3> QED
      BY <1>8, <3>1
  <2>4. utts' \in Seq(Utterance) /\ DOMAIN utts' = DOMAIN utts
    BY <1>1, <1>13, RedactedAll
  <2>5. \A i \in DOMAIN utts : Alike(utts'[i], utts[i])
    BY <1>1, <1>13, SaidAlike
  <2> QED
    BY <1>5, <1>9, <2>1, <2>2, <2>3, <2>4, <2>5
<1>14. CASE ExtractSignals
  <2>1. UNCHANGED utts /\ \E impls : Runs("signal_extraction", impls)
    BY <1>14 DEF ExtractSignals
  <2>2. done' # 0
    BY <1>6, <2>1
  <2>3. QuotesHeard' /\ SignalsHeard'
    BY <1>1, <1>14, Extracted
  <2> QED
    BY <1>2, <1>5, <2>1, <2>2, <2>3
<1>15. CASE IdentifySpeaker \/ DeleteAudio \/ Summarize \/ WriteNotes
  <2>1. /\ UNCHANGED <<utts, sigs>>
        /\ \E role \in {"speaker_id", "audio_deletion", "summarization"} :
             \E impls : Runs(role, impls)
    BY <1>15 DEF IdentifySpeaker, DeleteAudio, Summarize, WriteNotes
  <2>2. done' # 0 /\ (Ran("signal_extraction")' => Ran("signal_extraction"))
    BY <1>6, <2>1
  <2> QED
    BY <1>7, <2>1, <2>2
<1>16. CASE BuildPipeline \/ StoreInsight \/ RecommendProducts \/ UNCHANGED analysisVars
  <2>1. UNCHANGED <<done, utts, sigs>>
    BY <1>16 DEF BuildPipeline, StoreInsight, RecommendProducts, analysisVars
  <2>2. Ran("signal_extraction")' <=> Ran("signal_extraction")
    BY <1>3, <2>1 DEF Ran, Role
  <2> QED
    BY <1>7, <2>1, <2>2
<1> QED
  BY <1>10, <1>11, <1>12, <1>13, <1>14, <1>15, <1>16 DEF AnalysisNext

(* The invariant gives what CustomerIsHeard says of a stored insight. *)
LEMMA HeardSoFar == AnalysisTypeOK /\ HeardInv => CustomerIsHeard
<1> SUFFICES ASSUME AnalysisTypeOK, HeardInv, Stored, RepKnown
             PROVE  /\ \A i \in DOMAIN sigs : sigs[i].type \in CustomerSide =>
                         utts[sigs[i].turn].line.voice # "rep"
                    /\ Dialogue => Len(utts) = Len(Clear)
                    /\ Dialogue /\ ~Late =>
                         \A i \in DOMAIN utts, k \in DOMAIN Taxonomy :
                           (/\ utts[i].line.voice # "rep" /\ Taxonomy[k].type \in CustomerSide
                            /\ Taxonomy[k].subtype \in Read(utts[i]).says \ Read(utts[i]).negated
                            /\ ~Read(utts[i]).question /\ ~Read(utts[i]).short) =>
                             \E n \in DOMAIN sigs :
                               /\ sigs[n].turn = i /\ sigs[n].type = Taxonomy[k].type
                               /\ sigs[n].subtype = Taxonomy[k].subtype
  BY DEF CustomerIsHeard, Late, Read
<1>1. TurnsHeard /\ QuotesHeard /\ (Ran("signal_extraction") /\ ~Late => SignalsHeard)
  BY DEF HeardInv, Late
<1>2. Ran("signal_extraction")
  <2>1. Ran(PrivacyOrder[4])
    BY AllRan
  <2> QED
    BY <2>1, PrivacyOrderIs
<1>3. ASSUME NEW i \in DOMAIN sigs, sigs[i].type \in CustomerSide
      PROVE  utts[sigs[i].turn].line.voice # "rep"
  BY <1>1, <1>3 DEF QuotesHeard, TurnsHeard
<1>4. Dialogue => Len(utts) = Len(Clear)
  BY <1>1 DEF TurnsHeard
<1>5. ASSUME Dialogue, ~Late, NEW i \in DOMAIN utts, NEW k \in DOMAIN Taxonomy,
             utts[i].line.voice # "rep", Taxonomy[k].type \in CustomerSide,
             Taxonomy[k].subtype \in Read(utts[i]).says \ Read(utts[i]).negated,
             ~Read(utts[i]).question, ~Read(utts[i]).short
      PROVE  \E n \in DOMAIN sigs : /\ sigs[n].turn = i /\ sigs[n].type = Taxonomy[k].type
                                    /\ sigs[n].subtype = Taxonomy[k].subtype
  <2>1. utts[i].speaker = "customer"
    BY <1>1, <1>5 DEF TurnsHeard
  <2>2. ExpectedSpeaker[Taxonomy[k].type] = {"customer"}
    BY <1>5, CustomerSideOnly
  <2>3. IsSignal(utts[i], Taxonomy[k])
    BY <1>5, <2>1, <2>2 DEF IsSignal
  <2> QED
    BY <1>1, <1>2, <1>5, <2>3 DEF SignalsHeard
<1> QED
  BY <1>3, <1>4, <1>5

-----------------------------------------------------------------------------
(* The inductive invariant of the analysis: types, privacy, notes, advice and what is *)
(* heard of the customer.                                                             *)
THEOREM Analysed == UnderstandingSpec => []UnderstandingInv
<1>1. UnderstandingInit => UnderstandingInv
  <2> SUFFICES ASSUME UnderstandingInit PROVE UnderstandingInv
    OBVIOUS
  <2>1. CASE reading = "recording" /\ AnalysisInit
    <3>1. PICK j \in Job : plan = j.plan /\ recording = j.recording
      BY <2>1 DEF AnalysisInit
    <3>2. /\ done = 0 /\ phase = "loading" /\ utts = <<>> /\ identified = recording.named
          /\ sigs = <<>> /\ notes = NoNotes
      BY <2>1 DEF AnalysisInit
    <3>3. PICK S : S = STRING \X STRING
      OBVIOUS
    <3>4. plan \in Seq(S)
      BY <3>1, <3>3, JobAssumption
    <3>5. 0 \in 0..Len(plan)
      BY <3>4
    <3>6. utts \in Seq(Utterance) /\ sigs \in Seq(Signal)
      BY <3>2
    <3>7. ~Started /\ ~Stored
      BY <3>2 DEF Started, Stored
    <3>8. AnalysisTypeOK
      <4>1. /\ recording.lines \in Seq(SpokenLine)
            /\ recording.first \in 0..Len(recording.lines)
            /\ recording.form \in {"whole", "wav files", "wav in pieces", "other files"}
            /\ recording.named \in BOOLEAN
        BY <3>1, JobAssumption
      <4>2. phase \in {"loading", "refused", "running", "failed", "stored", "advised"}
        BY <3>2
      <4> QED
        BY <3>2, <3>3, <3>4, <3>5, <3>6, <3>7, <4>1, <4>2 DEF AnalysisTypeOK
    <3>9. \A role : ~Ran(role)
      <4>1. \A k : k \notin 1..0
        OBVIOUS
      <4> QED
        BY <3>2, <4>1 DEF Ran
    <3>10. PrivacyInv
      <4>1. DOMAIN sigs = {}
        BY <3>2
      <4>2. QuotesCleared
        BY <4>1 DEF QuotesCleared
      <4> QED
        BY <3>2, <3>9, <4>2, PrivacyIs
    <3>11. NotesInv
      <4>1. ~(0 > 0)
        OBVIOUS
      <4> QED
        BY <3>2, <4>1 DEF NotesInv
    <3>12. AdviceIsGrounded
      BY <3>2, RecommendedIs
    <3>13. HeardInv
      <4>1. RightTurns(utts, Clear)
        <5>1. DOMAIN utts = {}
          BY <3>2
        <5> QED
          BY <3>2, <5>1 DEF RightTurns, OfTwo
      <4>2. QuotesHeard
        <5>1. DOMAIN sigs = {}
          BY <3>2
        <5> QED
          BY <5>1 DEF QuotesHeard
      <4> QED
        BY <3>2, <3>9, <4>1, <4>2, HeardIs
    <3> QED
      BY <2>1, <3>8, <3>10, <3>11, <3>12, <3>13 DEF UnderstandingInv, AnalysisInv
  <2>2. CASE reading = "transcript" /\ phase = "none" /\ utts = <<>> /\ sigs = <<>>
             /\ notes = NoNotes
    BY <2>2 DEF UnderstandingInv
  <2> QED
    BY <2>1, <2>2 DEF UnderstandingInit
<1>2. UnderstandingInv /\ [AnalysisMoves \/ TranscriptMoves]_understandingVars
        => UnderstandingInv'
  <2> SUFFICES ASSUME UnderstandingInv, [AnalysisMoves \/ TranscriptMoves]_understandingVars
               PROVE  UnderstandingInv'
    OBVIOUS
  <2>1. CASE reading = "recording"
    <3>1. reading' = "recording" /\ [AnalysisNext]_analysisVars
      BY <2>1 DEF AnalysisMoves, TranscriptMoves, understandingVars
    <3>2. AnalysisTypeOK' /\ PrivacyInv' /\ NotesInv' /\ AdviceIsGrounded' /\ HeardInv'
      BY <2>1, <3>1, Typed, Private, Written, Advised, Heeded DEF UnderstandingInv, AnalysisInv
    <3> QED
      BY <3>1, <3>2 DEF UnderstandingInv, AnalysisInv
  <2>2. CASE reading # "recording"
    <3>1. reading' = reading /\ UNCHANGED <<phase, utts, sigs, notes>>
      BY <2>2 DEF AnalysisMoves, TranscriptMoves, understandingVars, analysisVars
    <3> QED
      BY <2>2, <3>1 DEF UnderstandingInv
  <2> QED
    BY <2>1, <2>2
<1> QED
  BY <1>1, <1>2, PTL DEF UnderstandingSpec

(* While a transcript is read nothing is analysed. *)
LEMMA NothingAnalysed ==
  ASSUME UnderstandingInv, reading # "recording"
  PROVE  /\ AnalysisIsPrivate /\ CoachingNeverBlank /\ NotesAreGrounded
         /\ MentionsAttributed /\ AdviceIsGrounded /\ ScoresAgree /\ CustomerIsHeard
<1>1. phase = "none" /\ utts = <<>> /\ sigs = <<>> /\ notes = NoNotes
  BY DEF UnderstandingInv
<1>2. ~Stored
  BY <1>1 DEF Stored
<1>3. DOMAIN sigs = {}
  BY <1>1
<1>4. AnalysisIsPrivate
  BY <1>1, <1>2, <1>3 DEF AnalysisIsPrivate
<1>5. AdviceIsGrounded
  BY <1>1, RecommendedIs
<1> QED
  BY <1>2, <1>4, <1>5 DEF CoachingNeverBlank, NotesAreGrounded, Noted, MentionsAttributed,
                          ScoresAgree, CustomerIsHeard

(* Nothing is concluded from a visit before the copy of its audio is destroyed, and   *)
(* under a plan that translates before it redacts no quote holds digits and no stored *)
(* insight a digit or a recognised name (registry.py), for every recording, plan and  *)
(* taxonomy.                                                                          *)
THEOREM IdentifiersAreCleared == UnderstandingSpec => []AnalysisIsPrivate
<1>1. UnderstandingInv => AnalysisIsPrivate
  BY NothingAnalysed, PrivateSoFar DEF UnderstandingInv, AnalysisInv
<1> QED
  BY <1>1, Analysed, PTL

(* Every insight that has notes has one to three different coaching tips, and two if *)
(* the visit had substance, whatever the model answered, refused or repeated         *)
(* (sarvam_visit_notes.py).                                                          *)
THEOREM EveryVisitIsCoached == UnderstandingSpec => []CoachingNeverBlank
<1>1. UnderstandingInv => CoachingNeverBlank
  BY NothingAnalysed, WrittenSoFar DEF UnderstandingInv, AnalysisInv
<1> QED
  BY <1>1, Analysed, PTL

(* Notes show different products of the catalogue only, at most three, those discussed *)
(* first when any was; of a visit where no product was discussed and no signal found    *)
(* they show only what an answer of the model named and, showing none, claim no want,    *)
(* no objection and a neutral outcome: for every answer and catalogue                    *)
(* (sarvam_visit_notes.py).                                                              *)
THEOREM NotesNeverInvent == UnderstandingSpec => []NotesAreGrounded
<1>1. UnderstandingInv => NotesAreGrounded
  BY NothingAnalysed, WrittenSoFar DEF UnderstandingInv, AnalysisInv
<1> QED
  BY <1>1, Analysed, PTL

(* A product's count is how often it is named and how many turns that name nothing     *)
(* point back at it, and the most discussed lead: for every conversation and catalogue *)
(* (product_mentions.py).                                                              *)
THEOREM EveryMentionCounts == UnderstandingSpec => []MentionsAttributed
<1>1. UnderstandingInv => MentionsAttributed
  BY NothingAnalysed, AttributedSoFar DEF UnderstandingInv, AnalysisInv
<1> QED
  BY <1>1, Analysed, PTL

(* Recommendations are of the catalogue, begin with what was discussed, and no product *)
(* added for its fit fits worse than one left out, whatever the model wrote about      *)
(* (recommend.py, catalog.py).                                                         *)
THEOREM AdviceIsOurs == UnderstandingSpec => []AdviceIsGrounded
<1>1. UnderstandingInv => AdviceIsGrounded
  BY NothingAnalysed DEF UnderstandingInv, AnalysisInv
<1> QED
  BY <1>1, Analysed, PTL

(* The rating and the outcome of a visit never contradict each other, and another *)
(* signal never moves score, rating or outcome against its kind (scoring.py).     *)
THEOREM ScoresAreConsistent == UnderstandingSpec => []ScoresAgree
<1>1. UnderstandingInv => ScoresAgree
  BY NothingAnalysed, ScoredSoFar DEF UnderstandingInv, AnalysisInv
<1> QED
  BY <1>1, Analysed, PTL

(* Once the rep can be told from the customer, nothing he says is stored as her need,   *)
(* interest or objection; in a diarized visit of two every clear line is a turn, and     *)
(* what the analysed text of her turns says, and does not negate, ask or say in fewer    *)
(* than three Latin words, is a signal of that turn: for every recording, taxonomy and   *)
(* accepted plan and whatever cluster the voiceprint picks, of recordings in one file or *)
(* in whole WAV files.  A need no translation answered in Devanagari has no Latin word   *)
(* and is not claimed (speaker_cleanup.py, diarization.py, signals.py).                  *)
THEOREM CustomersAreHeard == UnderstandingSpec => []CustomerIsHeard
<1>1. UnderstandingInv => CustomerIsHeard
  BY NothingAnalysed, HeardSoFar DEF UnderstandingInv, AnalysisInv
<1> QED
  BY <1>1, Analysed, PTL

=============================================================================

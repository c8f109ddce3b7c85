------------------------- MODULE StreamingEntities -------------------------
(***************************************************************************)
(* The customer's name and number in a transcript that grows chunk by      *)
(* chunk: src/voclyp/live/streaming_asr.py appends what the provider heard *)
(* and src/voclyp/live/entities.py reads the whole transcript again, so    *)
(* that what is said later corrects what was said before.                  *)
(*                                                                         *)
(* A transcript is a sequence of words, of which only the kind matters:    *)
(* "cue" (my name is, naam), "correction" (nahi, sorry), "number"          *)
(* (whatsapp, number, phone: also skipped in a name), "filler" (hai, ji,   *)
(* hello), "need" (a word like mattress), capitalised and lower-case words *)
(* that may be names, and spoken digits.  Scripts, spelling and the        *)
(* scores of confidence are left out.                                      *)
(***************************************************************************)
EXTENDS Subsequences, FiniteSetsExt

CONSTANTS
  Capital,     \* capitalised words: names as the provider writes them
  Lower,       \* lower-case words that are not known as needs
  Digit,       \* spoken digits
  MobileStart, \* the digits a mobile number starts with
  PhoneLength, \* 10 in the code
  MaxWords     \* bound: words of a transcript

Cue == {"cue", "correction", "number"}
Word == Cue \cup {"filler", "need"} \cup Capital \cup Lower \cup Digit
Skipped == {"filler", "number"} \cup Digit     \* _is_cueless_skip

ASSUME EntitiesAssumption ==
  PhoneLength \in Nat \ {0} /\ MaxWords \in Nat /\ MobileStart \subseteq Digit

VARIABLES
  transcript,  \* StreamingASR._transcript
  name, phone  \* what the session shows of its customer

streamVars == <<transcript, name, phone>>

NoName == <<>>
NoPhone == <<>>

\* Mutant: the first cue is taken for the last.
FirstCue(text, kinds) ==
  LET places == {i \in DOMAIN text : text[i] \in kinds}
  IN IF places = {} THEN 0 ELSE Min(places)

\* Where the last word of a kind stands, 0 when there is none; what follows a place; and
\* where the first one stands, past the end when there is none.
LastOf(text, kinds) == Max({0} \cup {i \in DOMAIN text : text[i] \in kinds})

RestAfter(text, i) == SubSeq(text, i + 1, Len(text))
FirstOf(text, kinds) == Min({Len(text) + 1} \cup {i \in DOMAIN text : text[i] \in kinds})
UpTo(s, n) == SubSeq(s, 1, IF n < Len(s) THEN n ELSE Len(s))

\* _clean_name: fillers are skipped, then words are taken up to a filler or a digit, four
\* at most.  (It reads what follows the last cue, so it meets none.)
CleanName(text) ==
  LET skips == FirstOf(text, Word \ {"filler", "number"})
      rest == RestAfter(text, skips - 1)
  IN UpTo(SubSeq(rest, 1, FirstOf(rest, Skipped) - 1), 4)

\* _extract_name_cueless: before the number is announced, the last run of capitalised
\* words, else the one to three words of a short utterance that names no need.
CuelessName(text) ==
  LET region == SubSeq(text, 1, FirstOf(text, {"number"}) - 1)
      end == LastOf(region, Capital)
      start == LastOf(SubSeq(region, 1, end), Word \ Capital)
      words == Only(region, Word \ (Skipped \cup {"cue"}))
  IN IF end > 0 THEN UpTo(SubSeq(region, start + 1, end), 3)
     ELSE IF Len(words) \in 1..3 /\ Len(region) <= 4 /\ "need" \notin ToSet(words)
     THEN words
     ELSE NoName

\* extract_name: from the last cue or correction on, else from the whole transcript.
ExtractName(text) ==
  LET at == LastOf(text, {"cue", "correction"})
      tail == RestAfter(text, at)
      plain == IF CuelessName(tail) # NoName THEN CuelessName(tail) ELSE CleanName(tail)
      found == IF at = 0 THEN NoName
               ELSE IF text[at] = "cue" /\ CleanName(tail) # NoName THEN CleanName(tail) ELSE plain
  IN IF found # NoName THEN found ELSE CuelessName(text)

DigitsOf(text) == Only(text, Digit)

\* _pick_indian_mobile: the rightmost window that starts like a mobile number.
PickMobile(digits) ==
  LET starts == {i \in 1..(Len(digits) - PhoneLength + 1) : digits[i] \in MobileStart}
  IN IF starts = {} THEN NoPhone ELSE SubSeq(digits, Max(starts), Max(starts) + PhoneLength - 1)

\* extract_phone: the digits after the last correction or announcement, else all of them.
ExtractPhone(text) ==
  LET after == PickMobile(DigitsOf(RestAfter(text, LastOf(text, {"correction", "number"}))))
      whole == PickMobile(DigitsOf(text))
  IN IF after # NoPhone THEN after ELSE whole

-----------------------------------------------------------------------------
StreamInit == transcript = <<>> /\ name = NoName /\ phone = NoPhone

\* add_chunk: the chunk's words are appended and the transcript is read again; what is
\* found replaces what the session had (process_chunk keeps a value when none is found).
AddChunk(word) ==
  LET text == Append(transcript, word)
  IN /\ Len(transcript) < MaxWords
     /\ transcript' = text
     /\ name' = IF ExtractName(text) # NoName THEN ExtractName(text) ELSE name
     /\ phone' = IF ExtractPhone(text) # NoPhone THEN ExtractPhone(text) ELSE phone

\* A chunk too short, or one that nothing was heard in, changes nothing; a reconnection
\* (reset_asr) starts the transcript anew and keeps what the session has.
Reset ==
  /\ transcript # <<>>
  /\ transcript' = <<>>
  /\ UNCHANGED <<name, phone>>

StreamNext == (\E word \in Word : AddChunk(word)) \/ Reset

StreamSpec == StreamInit /\ [][StreamNext]_streamVars

-----------------------------------------------------------------------------
\* A correction wins (entities.py:137-141, 432-438).  When a name with a capital has been
\* said after the last cue or correction, and before any number, the session's name is one
\* said there and not before; when digits said after the last correction or announcement
\* could be a mobile number, the session's number is the last of them and has no digit of
\* another.  (Half a number is filled up with digits of the one it corrects, a name that is
\* only taken back stays, and a correction on its own is taken for a name.)
LastWordWins ==
  LET Since(kinds) == RestAfter(transcript,
                        Max({0} \cup {i \in DOMAIN transcript : transcript[i] \in kinds}))
      named == Since({"cue", "correction"})
      told == Since({"correction", "number"})
      plain == SubSeq(named, 1, FirstOf(named, {"number"} \cup Digit) - 1)
      digits == DigitsOf(told)
      Number(i) == SubSeq(digits, i, i + PhoneLength - 1)
      numbers == {i \in 1..(Len(digits) - PhoneLength + 1) : digits[i] \in MobileStart}
  IN /\ ToSet(plain) \cap Capital # {} => ToSet(name) \subseteq ToSet(named)
     /\ \A i \in numbers : \E j \in numbers : i <= j /\ phone = Number(j)

=============================================================================

------------------------ MODULE ConversationAnalysis ------------------------
(***************************************************************************)
(* The analysis of one recording, the call self._pipeline_for(..).run(ctx) *)
(* and build_insight of src/voclyp/worker.py: a plan of stages read from a *)
(* configuration, checked by pipeline/registry.py and run one stage after  *)
(* the other over a context that every stage changes in place.  An action  *)
(* is a stage; what the speech, translation and language models answer,    *)
(* and whether they answer, is chosen freely.  A stage that raises ends    *)
(* the run: the queue's retry starts a new one (ConversationPipeline).     *)
(*                                                                         *)
(* A recording is a sequence of lines, each as VisitInsight describes it,  *)
(* with its voice ("rep" or a customer), its talking time, the label the   *)
(* text stand-in carries and the identifiers in it: "digits" a pattern     *)
(* finds, "name" the customer's name, "spoken" a number said in words,     *)
(* which a translation may write in digits.                                *)
(***************************************************************************)
EXTENDS VisitInsight

CONSTANTS
  Job,      \* the runs: records [plan, recording]
  Answer,   \* answers of the language model
  NoAnswer  \* no answer, or one that is not JSON

Identifier == {"digits", "name", "spoken"}
Speaker == {"agent", "customer", "unknown"}

Text ==
  [says : SUBSET STRING, negated : SUBSET STRING, question : BOOLEAN, short : BOOLEAN,
   words : SUBSET STRING]
SpokenLine ==
  [voice : STRING, label : Speaker, time : Nat, length : Nat, pii : SUBSET Identifier,
   english : Text, native : Text, noise : BOOLEAN, indic : BOOLEAN,
   names : Seq(Sku), refers : BOOLEAN]

ASSUME JobAssumption ==
  \A j \in Job :
    /\ j.plan \in Seq(STRING \X STRING)
    /\ j.recording.lines \in Seq(SpokenLine) /\ j.recording.first \in 0..Len(j.recording.lines)
    /\ j.recording.form \in {"whole", "wav files", "wav in pieces", "other files"}
    /\ j.recording.named \in BOOLEAN

ASSUME AnswerAssumption ==
  /\ \A a \in Answer : a.wants \in Seq(STRING) /\ a.objections \in Seq(STRING)
                      /\ a.coaching \in Seq(STRING) /\ a.products \in Seq(STRING)
  /\ NoAnswer \notin Answer

VARIABLES
  plan,       \* the configuration: a sequence of <<role, impl>>
  recording,  \* [lines, first, form, print, named]
  done,       \* stages run
  phase,      \* "loading", "refused", "running", "failed", "stored", "advised"
  utts,       \* ctx.utterances
  identified, \* ctx.customer_name is still set
  copy,       \* the staged copy of the audio exists
  sigs,       \* ctx.signals
  notes,      \* ctx.summary_fields
  advice      \* the products recommended from the stored insight

analysisVars ==
  <<plan, recording, done, phase, utts, identified, copy, sigs, notes, advice>>

NoNotes == Notes("none", <<>>, <<>>, <<>>, <<>>, "none")

AnalysisInit ==
  /\ \E j \in Job : plan = j.plan /\ recording = j.recording
  /\ done = 0 /\ phase = "loading"
  /\ utts = <<>> /\ identified = recording.named /\ copy = TRUE
  /\ sigs = <<>> /\ notes = NoNotes /\ advice = <<>>

-----------------------------------------------------------------------------
(* The plan *)

Registered ==
  {<<"asr", i>> : i \in {"stub", "whisper", "sarvam", "sarvam_batch"}}
  \cup {<<"diarization", i>> : i \in {"stub", "passthrough"}}
  \cup {<<"lang_id_translation", i>> : i \in {"stub", "sarvam"}}
  \cup {<<"summarization", i>> : i \in {"taxonomy", "sarvam_llm"}}
  \cup {<<"speaker_id", "voiceprint">>, <<"pii_redaction", "regex">>,
        <<"audio_deletion", "vault">>, <<"signal_extraction", "taxonomy">>}

PrivacyOrder ==
  <<"asr", "pii_redaction", "audio_deletion", "signal_extraction", "summarization">>

Position(p, role) == CHOOSE i \in DOMAIN p : p[i][1] = role

\* Mutant: the required stages may come in any order.
AcceptedUnordered(p) ==
  /\ ToSet(p) \subseteq Registered
  /\ \A i, j \in DOMAIN p : p[i][1] = p[j][1] => i = j
  /\ ToSet(PrivacyOrder) \subseteq {p[i][1] : i \in DOMAIN p}

\* validate_pipeline_config.
Accepted(p) ==
  /\ ToSet(p) \subseteq Registered
  /\ \A i, j \in DOMAIN p : p[i][1] = p[j][1] => i = j
  /\ ToSet(PrivacyOrder) \subseteq {p[i][1] : i \in DOMAIN p}
  /\ \A i, j \in DOMAIN PrivacyOrder :
       i < j => Position(p, PrivacyOrder[i]) < Position(p, PrivacyOrder[j])

BuildPipeline ==
  /\ phase = "loading"
  /\ phase' = IF Accepted(plan) THEN "running" ELSE "refused"
  /\ UNCHANGED <<plan, recording, done, utts, identified, copy, sigs, notes, advice>>

\* The runner is at a stage, which it finishes.
Runs(role, impls) ==
  /\ phase = "running" /\ done < Len(plan)
  /\ plan[done + 1][1] = role /\ plan[done + 1][2] \in impls
  /\ done' = done + 1

-----------------------------------------------------------------------------
(* Speech to text *)

Heard(line, diarized, label) ==
  [line |-> line, sid |-> IF diarized THEN line.voice ELSE "", speaker |-> label,
   norm |-> "none", textPii |-> line.pii, normPii |-> {}]

\* Mutant: only the first part of a recording is transcribed.
MergedFirst(parts) == SubSeq(recording.lines, 1, recording.first)

\* merge_encrypted_chunks: WAV files are joined, of a WAV file cut in pieces only the
\* first has a header, and other formats go through ffmpeg or are cut to the longest part.
Merged(parts) ==
  CASE recording.form \in {"whole", "wav files"} -> recording.lines
    [] recording.form = "wav in pieces" -> SubSeq(recording.lines, 1, recording.first)
    [] recording.form = "other files" -> parts

Parts ==
  {recording.lines, SubSeq(recording.lines, 1, recording.first),
   SubSeq(recording.lines, recording.first + 1, Len(recording.lines))}

Hear(lines, diarized) == [i \in DOMAIN lines |-> Heard(lines[i], diarized, "unknown")]

\* The clusters of speakers cleanup tells apart; without diarization all is one.
SidOf(u) == IF u.sid # "" THEN u.sid ELSE u.speaker
Sids(us) == {SidOf(us[i]) : i \in DOMAIN us}
Spoke(us, sid) == MapThenSumSet(LAMBDA i : IF SidOf(us[i]) = sid THEN us[i].line.time ELSE 0,
                                DOMAIN us)
FirstAt(us, sid) == CHOOSE i \in DOMAIN us :
                      SidOf(us[i]) = sid /\ \A j \in DOMAIN us : SidOf(us[j]) = sid => i <= j

\* Speakers under a 25th of the talking time are background, and two at most are kept.
Kept(us) ==
  LET total == MapThenSumSet(LAMBDA i : us[i].line.time, DOMAIN us)
      loud == {s \in Sids(us) : 25 * Spoke(us, s) >= total \/ Cardinality(Sids(us)) <= 2}
      More(a, b) == \/ Spoke(us, a) > Spoke(us, b)
                    \/ Spoke(us, a) = Spoke(us, b) /\ FirstAt(us, a) < FirstAt(us, b)
  IN IF Cardinality(loud) <= 2 THEN loud ELSE ToSet(Take(SetToSortSeq(Sids(us), More), 2))

NotNoise(us) == Only(us, {u \in ToSet(us) : ~u.line.noise})

\* cleanup_conversation, "best" being the cluster nearest to the rep's voiceprint, which
\* is asked when the rep has enrolled; else who speaks first is the agent.
Cleanup(us, best) ==
  LET clear == NotNoise(us)
      kept == Only(clear, {u \in ToSet(clear) : SidOf(u) \in Kept(clear)})
      agent == IF recording.print # "none" THEN best ELSE SidOf(kept[1])
  IN [i \in DOMAIN kept |->
       [kept[i] EXCEPT !.speaker = IF SidOf(kept[i]) = agent THEN "agent" ELSE "customer"]]

\* Who the voiceprint picks: the rep on clear audio he is heard on, anyone otherwise.
Nearest(us) ==
  LET clear == NotNoise(us)
      present == IF clear = <<>> THEN {"nobody"} ELSE Kept(clear)
  IN IF recording.print = "clear" /\ "rep" \in present THEN {"rep"} ELSE present

\* The batch job answers, with diarized entries, without, or with nothing; when it is
\* refused the synchronous call takes over, which knows no speakers and whose empty
\* transcript raises the refusal again.
BatchTranscribe ==
  /\ Runs("asr", {"sarvam_batch"})
  /\ \/ \E parts \in Parts, diarized \in BOOLEAN :
          LET us == Hear(Merged(parts), diarized)
          IN \E best \in Nearest(us) : utts' = Cleanup(us, best) /\ UNCHANGED phase
     \/ utts' = <<>> /\ UNCHANGED phase
     \/ phase' = "failed" /\ UNCHANGED utts
  /\ UNCHANGED <<plan, recording, identified, copy, sigs, notes, advice>>

\* The synchronous call, or the local model, part by part, leaves the speakers to
\* diarization.
SyncTranscribe ==
  /\ Runs("asr", {"sarvam", "whisper"})
  /\ \/ utts' = Hear(recording.lines, FALSE) /\ UNCHANGED phase
     \/ phase' = "failed" /\ UNCHANGED utts
  /\ UNCHANGED <<plan, recording, identified, copy, sigs, notes, advice>>

\* The text stand-in: every line, with the label it carries.
ReadTranscript ==
  /\ Runs("asr", {"stub"})
  /\ utts' = [i \in DOMAIN recording.lines |->
                Heard(recording.lines[i], FALSE, recording.lines[i].label)]
  /\ UNCHANGED <<plan, recording, phase, identified, copy, sigs, notes, advice>>

Label(i, speaker) == [utts[i] EXCEPT !.speaker = speaker]

\* Unlabelled turns alternate, the agent first: the label of a turn is decided by the
\* last labelled turn before it and the distance to it.
Alternate(i) ==
  LET known == {j \in 1..(i - 1) : utts[j].speaker # "unknown"}
      from == IF known = {} THEN 0 ELSE Max(known)
      before == IF known = {} THEN "customer" ELSE utts[from].speaker
  IN IF (i - from) % 2 = 0 THEN before ELSE IF before = "customer" THEN "agent" ELSE "customer"

DiarizeStub ==
  /\ Runs("diarization", {"stub"})
  /\ utts' = [i \in DOMAIN utts |->
       IF utts[i].speaker # "unknown" THEN utts[i]
       ELSE IF \E j \in DOMAIN utts : utts[j].sid # ""
       THEN IF utts[i].sid = "" THEN Label(i, "agent") ELSE utts[i]
       ELSE Label(i, Alternate(i))]
  /\ UNCHANGED <<plan, recording, phase, identified, copy, sigs, notes, advice>>

DiarizePassthrough ==
  /\ Runs("diarization", {"passthrough"})
  /\ utts' = [i \in DOMAIN utts |->
       IF utts[i].speaker = "unknown" THEN Label(i, "customer") ELSE utts[i]]
  /\ UNCHANGED <<plan, recording, phase, identified, copy, sigs, notes, advice>>

\* The voiceprint of the whole clip names the rep; no turn is labelled by it.
IdentifySpeaker ==
  /\ Runs("speaker_id", {"voiceprint"})
  /\ UNCHANGED <<plan, recording, phase, utts, identified, copy, sigs, notes, advice>>

-----------------------------------------------------------------------------
(* Translation, redaction and erasure *)

\* A translation writes spoken numbers in digits.
InEnglish(pii) == IF "spoken" \in pii THEN (pii \ {"spoken"}) \cup {"digits"} ELSE pii

\* Each Indic utterance is translated or, when both tries fail, kept as it is.
Translate ==
  /\ Runs("lang_id_translation", {"sarvam"})
  /\ \E answered \in SUBSET {i \in DOMAIN utts : utts[i].line.indic} :
       utts' = [i \in DOMAIN utts |->
         IF i \in answered
         THEN [utts[i] EXCEPT !.norm = "translated", !.normPii = InEnglish(utts[i].textPii)]
         ELSE [utts[i] EXCEPT !.norm = "same", !.normPii = utts[i].textPii]]
  /\ UNCHANGED <<plan, recording, phase, identified, copy, sigs, notes, advice>>

TranslateStub ==
  /\ Runs("lang_id_translation", {"stub"})
  /\ utts' = [i \in DOMAIN utts |->
                [utts[i] EXCEPT !.norm = "same", !.normPii = utts[i].textPii]]
  /\ UNCHANGED <<plan, recording, phase, identified, copy, sigs, notes, advice>>

\* What redaction finds: what the patterns match, and the name while it is known.
Recognised == {"digits"} \cup (IF identified THEN {"name"} ELSE {})

Redact ==
  /\ Runs("pii_redaction", {"regex"})
  /\ utts' = [i \in DOMAIN utts |->
       [utts[i] EXCEPT !.textPii = @ \ Recognised, !.normPii = @ \ Recognised]]
  /\ identified' = FALSE
  /\ UNCHANGED <<plan, recording, phase, copy, sigs, notes, advice>>

DeleteAudio ==
  /\ Runs("audio_deletion", {"vault"})
  /\ copy' = FALSE
  /\ UNCHANGED <<plan, recording, phase, utts, identified, sigs, notes, advice>>

-----------------------------------------------------------------------------
(* Analysis *)

ExtractSignals ==
  /\ Runs("signal_extraction", {"taxonomy"})
  /\ sigs' = Signals(utts)
  /\ UNCHANGED <<plan, recording, phase, utts, identified, copy, notes, advice>>

Summarize ==
  /\ Runs("summarization", {"taxonomy"})
  /\ notes' = [NoNotes EXCEPT !.text = "transcript"]
  /\ UNCHANGED <<plan, recording, phase, utts, identified, copy, sigs, advice>>

\* A model that fails never sinks the job.
WriteNotes ==
  /\ Runs("summarization", {"sarvam_llm"})
  /\ \E answer \in Answer \cup {NoAnswer} :
       notes' = IF TooShort(utts) THEN TooShortNotes
                ELSE IF answer = NoAnswer THEN FallbackFields(sigs, Discussed(utts))
                ELSE Apply(answer, sigs, Discussed(utts))
  /\ UNCHANGED <<plan, recording, phase, utts, identified, copy, sigs, advice>>

\* build_insight over the finished context, and its save.
StoreInsight ==
  /\ phase = "running" /\ done = Len(plan)
  /\ phase' = "stored"
  /\ UNCHANGED <<plan, recording, done, utts, identified, copy, sigs, notes, advice>>

\* The app asks for recommendations; "said" are the products the model wrote about.
RecommendProducts ==
  /\ phase = "stored"
  /\ \E said \in {{}, {"none of ours"}, Sku} : advice' = Recommend(sigs, Discussed(utts), said)
  /\ phase' = "advised"
  /\ UNCHANGED <<plan, recording, done, utts, identified, copy, sigs, notes>>

AnalysisNext ==
  \/ BuildPipeline
  \/ BatchTranscribe \/ SyncTranscribe \/ ReadTranscript
  \/ DiarizeStub \/ DiarizePassthrough \/ IdentifySpeaker
  \/ Translate \/ TranslateStub \/ Redact \/ DeleteAudio
  \/ ExtractSignals \/ Summarize \/ WriteNotes \/ StoreInsight \/ RecommendProducts

AnalysisSpec == AnalysisInit /\ [][AnalysisNext]_analysisVars

-----------------------------------------------------------------------------
(* What an analysis promises *)

Stored == phase \in {"stored", "advised"}
Role(k) == plan[k][1]
After(a, b) == \E i, j \in DOMAIN plan : i < j /\ Role(i) = b /\ Role(j) = a

\* registry.py:7-9, a misconfigured pipeline cannot be built: under every accepted plan
\* the analysis starts after the audio's copy is destroyed, and no identifier redaction
\* can recognise is in a signal's quote or in the stored insight.  (Said of the plans that
\* translate before they redact: the registry accepts the others too.)
AnalysisIsPrivate ==
  /\ (sigs # <<>> \/ notes # NoNotes) => ~copy
  /\ ~After("lang_id_translation", "pii_redaction") =>
       /\ \A i \in DOMAIN sigs : "digits" \notin sigs[i].pii
       /\ Stored => \A i \in DOMAIN utts :
            utts[i].textPii \cup utts[i].normPii \subseteq
              {"spoken"} \cup (IF recording.named THEN {} ELSE {"name"})

CustomerSide == {"demand", "intent", "objection", "price_reaction"}
Clear == Only(recording.lines, {line \in ToSet(recording.lines) : ~line.noise})
Voices == {Clear[i].voice : i \in DOMAIN Clear}

\* The rep can be told from the customer: by his voiceprint, or because he speaks first.
RepKnown ==
  /\ plan[1] = <<"asr", "sarvam_batch">>
  /\ recording.form \in {"whole", "wav files"}
  /\ \/ recording.print = "clear"
     \/ recording.print = "none" /\ Clear # <<>> /\ Clear[1].voice = "rep"

\* A diarized visit of two, the rep and somebody else.
Dialogue ==
  /\ utts # <<>> /\ \A i \in DOMAIN utts : utts[i].sid # ""
  /\ "rep" \in Voices /\ Cardinality(Voices) = 2

\* What the rep asks or says is never recorded as the customer's need, interest or
\* objection; of a diarized visit of two no turn is lost to cleanup and no turn of the
\* customer to its label; and whatever the text of hers that is analysed says (the English
\* or translated one, the text as spoken where no translation answered), unless that text
\* negates it, asks or holds fewer than three Latin words, is recorded
\* (speaker_cleanup.py, diarization.py, signals.py).  So a need spoken in Devanagari that
\* no translation answered is still lost, its text holding no Latin word; so is what a WAV
\* file cut in pieces holds after its first piece, which RepKnown leaves out.  (No signal
\* is sought in what is translated after the signals were extracted, which the registry
\* does not forbid.)
CustomerIsHeard ==
  Stored /\ RepKnown =>
    /\ \A i \in DOMAIN sigs : sigs[i].type \in CustomerSide =>
         utts[sigs[i].turn].line.voice # "rep"
    /\ Dialogue => Len(utts) = Len(Clear)
    /\ Dialogue /\ ~After("lang_id_translation", "signal_extraction") =>
         \A i \in DOMAIN utts, k \in DOMAIN Taxonomy :
           LET line == utts[i].line
               t == Taxonomy[k]
               text == IF line.indic /\ utts[i].norm # "translated" THEN line.native
                       ELSE line.english
           IN (/\ line.voice # "rep" /\ t.type \in CustomerSide
               /\ t.subtype \in text.says \ text.negated /\ ~text.question /\ ~text.short) =>
                \E n \in DOMAIN sigs :
                  sigs[n].turn = i /\ sigs[n].type = t.type /\ sigs[n].subtype = t.subtype

Noted == Stored /\ plan[Len(plan)] = <<"summarization", "sarvam_llm">>

\* The products of the catalogue an answer of the model names.
Answered(products) == \E answer \in Answer : products = CleanProducts(answer.products)

WellGrounded ==
  LET discussed == Discussed(utts)
  IN /\ ToSet(notes.products) \subseteq Sku /\ Len(notes.products) <= 3
     /\ Cardinality(ToSet(notes.products)) = Len(notes.products)
     /\ discussed # <<>> /\ ~TooShort(utts) => notes.products = Take(discussed, 3)
     /\ ~HasSubstance(sigs, discussed) =>
          IF notes.products = <<>>
          THEN notes.wants = <<>> /\ notes.objections = <<>> /\ notes.outcome = "neutral"
          ELSE Answered(notes.products)

\* Whatever the model answers, the notes name only products of the catalogue, once each
\* and those discussed first when any was.  When no product was discussed and no signal
\* found, they name a product only if the model's answer named it (which the code takes
\* for substance, sarvam_visit_notes.py:302-306), never one of the ranking's own; and when
\* they name none they claim no want, no objection and a neutral outcome.
NotesAreGrounded == Noted => WellGrounded

WellCoached ==
  /\ Len(notes.coaching) \in 1..3
  /\ Cardinality(ToSet(notes.coaching)) = Len(notes.coaching)
  /\ HasSubstance(sigs, Discussed(utts)) => Len(notes.coaching) >= 2

\* "Coaching is never blank": one to three different tips whatever the model answers,
\* and two at least of a visit that had substance.
CoachingNeverBlank == Noted => WellCoached

\* The product a pronoun in turn i stands for: the last one named in an earlier turn.
Antecedent(i) ==
  LET named == {j \in 1..(i - 1) : utts[j].line.names # <<>>}
  IN IF named = {} THEN NoSku ELSE Last(utts[Max(named)].line.names)

\* Where a product is mentioned: the places in a turn that name it, or 0 if the turn names
\* nothing and points back at it.
Mentioned(s, i) ==
  {k \in 0..Len(utts[i].line.names) :
     IF k > 0 THEN utts[i].line.names[k] = s
     ELSE utts[i].line.names = <<>> /\ utts[i].line.refers /\ Antecedent(i) = s}

\* Every mention is attributed: a product's count is how often it is named and how many
\* turns that name nothing point back at it, and the order follows the counts.
MentionsAttributed ==
  Stored =>
    LET m == Mentions(utts)
        d == Discussed(utts)
    IN /\ \A s \in Sku :
            m.total[s] = Cardinality(UNION {{i} \X Mentioned(s, i) : i \in DOMAIN utts})
       /\ ToSet(d) = {s \in Sku : m.total[s] > 0}
       /\ \A i, j \in DOMAIN d : i < j => m.total[d[i]] >= m.total[d[j]]

\* Recommendations are of the catalogue, whatever the model writes, and lead with what
\* was discussed; those added for their fit are no worse than those left out.
AdviceIsGrounded ==
  phase = "advised" =>
    LET skus == [i \in DOMAIN advice |-> advice[i].sku]
        front == Take(Discussed(utts), 3)
        Fit(s) == MatchScore(Product[CHOOSE i \in DOMAIN Product : Product[i].sku = s],
                             Needs(sigs))
    IN /\ ToSet(skus) \subseteq Sku /\ Cardinality(ToSet(skus)) = Len(skus)
       /\ Len(skus) = (IF Cardinality(Sku) < 3 THEN Cardinality(Sku) ELSE 3)
       /\ SubSeq(skus, 1, Len(front)) = front
       /\ \A i \in (Len(front) + 1)..Len(skus), s \in Sku \ ToSet(skus) :
            Fit(skus[i]) >= Fit(s)

Rank == [Poor |-> 1, Average |-> 2, Good |-> 3, at_risk |-> 1, neutral |-> 2, promising |-> 3]

\* The score and the verdict agree and move together: a visit at risk is rated Poor, one
\* rated Good is not at risk, and another need, interest or promise never lowers score,
\* rating or outcome, as another objection never raises them (scoring.py).
ScoresAgree ==
  Stored =>
    LET Another(k) == Append(sigs, [type |-> Taxonomy[k].type, subtype |-> Taxonomy[k].subtype])
        score == Score(sigs)
    IN /\ Outcome(sigs) = "at_risk" => Rating(score) = "Poor"
       /\ \A k \in DOMAIN Taxonomy :
            LET more == Score(Another(k))
                up == Taxonomy[k].type \in {"demand", "intent", "promise"}
            IN IF up THEN /\ more >= score /\ Rank[Rating(more)] >= Rank[Rating(score)]
                          /\ Rank[Outcome(Another(k))] >= Rank[Outcome(sigs)]
               ELSE /\ more <= score /\ Rank[Rating(more)] <= Rank[Rating(score)]
                    /\ Rank[Outcome(Another(k))] <= Rank[Outcome(sigs)]

-----------------------------------------------------------------------------
(* The inductive invariant of an analysis *)

Utterance ==
  [line : SpokenLine, sid : STRING \cup {""}, speaker : Speaker,
   norm : {"none", "same", "translated"},
   textPii : SUBSET Identifier, normPii : SUBSET Identifier]

Signal ==
  [type : DOMAIN Weight, subtype : STRING, turn : Nat, words : SUBSET STRING,
   pii : SUBSET Identifier]

\* Stages run in the order of an accepted plan, and only a finished plan is stored.
Started == phase \in {"running", "failed", "stored", "advised"}

AnalysisTypeOK ==
  /\ plan \in Seq(STRING \X STRING) /\ done \in 0..Len(plan)
  /\ phase \in {"loading", "refused", "running", "failed", "stored", "advised"}
  /\ IF Started THEN Accepted(plan) ELSE done = 0
  /\ Stored => done = Len(plan)
  /\ recording.lines \in Seq(SpokenLine) /\ recording.first \in 0..Len(recording.lines)
  /\ recording.form \in {"whole", "wav files", "wav in pieces", "other files"}
  /\ recording.named \in BOOLEAN /\ identified \in BOOLEAN
  /\ utts \in Seq(Utterance) /\ sigs \in Seq(Signal)

\* A stage that has run has had its effect, and what it must come before is not yet there.
Ran(role) == \E k \in 1..done : Role(k) = role

PrivacyInv ==
  LET translated == After("lang_id_translation", "pii_redaction")
  IN /\ Ran("audio_deletion") => ~copy
     /\ (sigs # <<>> \/ notes # NoNotes) => ~copy
     /\ identified => recording.named
     /\ ~Ran("pii_redaction") => identified = recording.named
     /\ Ran("pii_redaction") /\ ~translated => \A i \in DOMAIN utts :
          utts[i].textPii \cup utts[i].normPii \subseteq
            {"spoken"} \cup (IF recording.named THEN {} ELSE {"name"})
     /\ ~translated => \A i \in DOMAIN sigs : "digits" \notin sigs[i].pii

\* Until another stage runs, the notes are those of the turns and signals there are.
NotesInv ==
  done > 0 /\ plan[done] = <<"summarization", "sarvam_llm">> => WellCoached /\ WellGrounded

\* Once it is known who the rep is, every turn is labelled: his as the agent's, in a visit
\* of two every other as the customer's.
TurnsHeard ==
  /\ \A i \in DOMAIN utts :
       LET u == utts[i]
       IN u.speaker # "unknown" /\ (u.line.voice = "rep" => u.speaker = "agent")
  /\ Dialogue => /\ Len(utts) = Len(Clear)
                 /\ \A i \in DOMAIN utts :
                      utts[i].line.voice # "rep" => utts[i].speaker = "customer"

QuotesHeard ==
  \A i \in DOMAIN sigs : sigs[i].type \in CustomerSide =>
    sigs[i].turn \in DOMAIN utts /\ utts[sigs[i].turn].speaker = "customer"

SignalsHeard ==
  \A i \in DOMAIN utts, k \in DOMAIN Taxonomy :
    IsSignal(utts[i], Taxonomy[k]) =>
      \E n \in DOMAIN sigs : /\ sigs[n].turn = i /\ sigs[n].type = Taxonomy[k].type
                             /\ sigs[n].subtype = Taxonomy[k].subtype

\* The transcript is made once, and what is extracted from it stays true of it.
HeardInv ==
  /\ done = 0 => utts = <<>> /\ sigs = <<>>
  /\ RepKnown =>
       /\ TurnsHeard /\ QuotesHeard
       /\ Ran("signal_extraction") /\ ~After("lang_id_translation", "signal_extraction") =>
            SignalsHeard

AnalysisInv == AnalysisTypeOK /\ PrivacyInv /\ NotesInv /\ AdviceIsGrounded /\ HeardInv

=============================================================================

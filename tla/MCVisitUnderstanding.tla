------------------------ MODULE MCVisitUnderstanding ------------------------
(* The instance of VisitUnderstanding that TLC checks. *)
EXTENDS VisitUnderstanding

\* A part of the sleep company's taxonomy, merged with the base pack.
SleepTaxonomy ==
  << [type |-> "objection", subtype |-> "budget_too_high"],
     [type |-> "objection", subtype |-> "warranty_concern"],
     [type |-> "intent", subtype |-> "purchase_intent"],
     [type |-> "intent", subtype |-> "emi_request"],
     [type |-> "demand", subtype |-> "orthopaedic_need"],
     [type |-> "demand", subtype |-> "cooling_need"],
     [type |-> "competitor_mention", subtype |-> "local_brand_sagging"],
     [type |-> "price_reaction", subtype |-> "budget_sensitive"],
     [type |-> "price_reaction", subtype |-> "emi_interest"],
     [type |-> "promise", subtype |-> "delivery_promise"] >>

P(sku, series, cooling, tier, price, keywords) ==
  [sku |-> sku, series |-> series, cooling |-> cooling, tier |-> tier, price |-> price,
   keywords |-> keywords]

SleepProducts ==
  << P("ORTHO", "ortho", FALSE, "entry", 13790, {"ortho", "budget", "firm"}),
     P("ORTHO-PRO", "ortho", FALSE, "mid", 17990, {"ortho", "warranty", "firm"}),
     P("LUXE", "luxe", FALSE, "premium", 17990, {"soft", "premium"}),
     P("SNOWTEC", "luxe", TRUE, "premium", 20990, {"cooling", "soft"}) >>

Spoken(says, words) ==
  [says |-> says, negated |-> {}, question |-> FALSE, short |-> FALSE, words |-> words]
Unread == [Spoken({}, {}) EXCEPT !.short = TRUE]

\* A line in Latin letters of "length" characters.
Line(voice, length, says, words) ==
  [voice |-> voice, length |-> length, english |-> Spoken(says, words), native |-> Unread,
   noise |-> FALSE, names |-> <<>>, refers |-> FALSE, indic |-> FALSE, time |-> 30,
   label |-> "unknown", pii |-> {}]

Probe ==    \* "do you have back pain? look at the ortho and the luxe"
  [Line("rep", 52, {"orthopaedic_need"}, {"ortho"}) EXCEPT
     !.english.question = TRUE, !.names = <<"ORTHO", "LUXE">>]
Pitch ==    \* "this one is cooling, I will deliver by tomorrow"
  [Line("rep", 47, {"cooling_need", "delivery_promise"}, {"cooling"}) EXCEPT !.refers = TRUE]
Need ==     \* "my back hurts, call me on ...", in Devanagari, which phrases are found in
  [Line("cust", 40, {"orthopaedic_need"}, {"ortho"}) EXCEPT
     !.indic = TRUE, !.native.says = {"orthopaedic_need"}, !.pii = {"spoken", "name"}]
Mixed ==    \* "mujhe garmi lagti hai, cooling wala ...", the end in Devanagari
  [Line("cust", 36, {"cooling_need", "purchase_intent"}, {"cooling"}) EXCEPT
     !.indic = TRUE, !.native = Spoken({"cooling_need"}, {"cooling"})]
Decline ==  \* "non EMI, the budget is small"
  [Line("cust", 28, {"emi_request", "emi_interest", "budget_too_high", "budget_sensitive"},
        {"budget"})
     EXCEPT !.english.negated = {"emi_request", "emi_interest"}, !.pii = {"digits"}]
Haggle ==   \* "cheaper with EMI for this one? my back needs it"
  [Line("cust", 47, {"budget_sensitive", "emi_interest", "orthopaedic_need"},
        {"budget", "ortho"}) EXCEPT !.refers = TRUE]
Choose ==   \* "I take the snowtec"
  [Line("cust", 18, {"purchase_intent"}, {}) EXCEPT !.names = <<"SNOWTEC">>]
Hmm ==      \* "ok"
  [Line("cust", 2, {}, {}) EXCEPT !.english.short = TRUE, !.time = 1]
Cough ==    [Line("rep", 3, {}, {}) EXCEPT !.english.short = TRUE, !.noise = TRUE, !.time = 1]
Aside ==    \* a bystander: "we bought from a local brand"
  [Line("other", 28, {"local_brand_sagging", "cooling_need"}, {}) EXCEPT !.time = 2]

Lines == {Probe, Pitch, Need, Mixed, Decline, Haggle, Choose, Hmm, Cough, Aside}

Recording(lines, first, form, print, named) ==
  [lines |-> lines, first |-> first, form |-> form, print |-> print, named |-> named]

\* The two configurations of the repository.
FieldPlan ==
  << <<"asr", "sarvam_batch">>, <<"diarization", "passthrough">>, <<"speaker_id", "voiceprint">>,
     <<"lang_id_translation", "sarvam">>, <<"pii_redaction", "regex">>,
     <<"audio_deletion", "vault">>, <<"signal_extraction", "taxonomy">>,
     <<"summarization", "sarvam_llm">> >>
StubPlan ==
  << <<"asr", "stub">>, <<"diarization", "stub">>, <<"speaker_id", "voiceprint">>,
     <<"lang_id_translation", "stub">>, <<"pii_redaction", "regex">>,
     <<"audio_deletion", "vault">>, <<"signal_extraction", "taxonomy">>,
     <<"summarization", "taxonomy">> >>

\* Every order of five stages, with a translation anywhere and some of them missing,
\* named twice or unknown.
Required ==
  { <<"asr", "sarvam">>, <<"pii_redaction", "regex">>, <<"audio_deletion", "vault">>,
    <<"signal_extraction", "taxonomy">>, <<"summarization", "taxonomy">> }
AnyPlan ==
  LET orders == SetToSeqs(Required)
      translate == <<"lang_id_translation", "sarvam">>
  IN orders \cup {InsertAt(o, i, translate) : o \in orders, i \in 1..6}
     \cup {Tail(o) : o \in orders} \cup {Append(o, Last(o)) : o \in orders}
     \cup {Append(o, <<"asr", "whisper2">>) : o \in orders}

Sleep1 == {<<a>> : a \in Lines}
Sleep2 == {<<a, b>> : a, b \in Lines}
Sleep3 == {<<a, b, c>> : a, b, c \in Lines}

Visits ==
  {Recording(lines, 1, "whole", print, TRUE) : lines \in Sleep1 \cup Sleep2, print \in {"none", "clear", "opaque"}}
  \cup {Recording(lines, 1, form, "none", TRUE) :
          lines \in Sleep2, form \in {"wav files", "wav in pieces", "other files"}}
  \cup {Recording(lines, 2, "whole", print, FALSE) : lines \in Sleep3, print \in {"none", "clear"}}

SleepJobs ==
  [plan : {FieldPlan}, recording : Visits]
  \cup [plan : {StubPlan} \cup {[FieldPlan EXCEPT ![1] = <<"asr", i>>] : i \in {"sarvam", "whisper"}},
        recording : {Recording(lines, 1, "whole", "none", TRUE) : lines \in Sleep2}]
  \cup [plan : AnyPlan, recording : {Recording(<<Need, Decline>>, 1, "whole", "none", TRUE)}]

Said(text, wants, objections, coaching, products, outcome) ==
  Notes(text, wants, objections, coaching, products, outcome)

SleepAnswers ==
  { Said(TRUE, <<"ortho", "ortho", "soft">>, <<>>, <<"tip">>, <<"INVENTED">>, "promising"),
    Said(FALSE, <<>>, <<"price">>, <<>>, <<"LUXE", "LUXE", "INVENTED">>, "at_risk"),
    Said(TRUE, <<>>, <<>>, <<"close", "close">>, <<>>, "neutral"),
    Said(TRUE, <<"a", "b", "c", "d">>, <<"x">>, <<"t1", "t2", "t3", "t4">>,
         <<"ORTHO", "SNOWTEC", "LUXE", "ORTHO-PRO">>, "promising") }

=============================================================================

---------------------------- MODULE VisitInsight ----------------------------
(***************************************************************************)
(* The deterministic judgements of a visit: signals.py, scoring.py,        *)
(* product_mentions.py, catalog.py, recommend.py and the notes of          *)
(* sarvam_visit_notes.py, as operators over an analysed conversation.      *)
(*                                                                         *)
(* An utterance is a record of the line that was spoken and what the       *)
(* stages made of it: its label (speaker), its normalised text (norm:      *)
(* none, the same as spoken or translated) and the identifiers left in     *)
(* both texts (textPii, normPii).  Of a line:                              *)
(*   names     products named, in order; refers: it holds a pronoun        *)
(*   length    characters of it, once redacted                             *)
(*   indic     written, all or in part, in an Indic script                 *)
(*   english   its text in English, as spoken or translated; native: its   *)
(*             text as spoken, when that is Indic                          *)
(* and of such a text:                                                     *)
(*   says      subtypes of the taxonomy whose phrases occur in it          *)
(*   negated   those with a negator around their first occurrence          *)
(*   question, short    phrased as a question; under three Latin words     *)
(*   words     needs of the catalogue's profile its words touch            *)
(* Matching a phrase against a text is not modelled, only what follows     *)
(* from a match.                                                           *)
(***************************************************************************)
EXTENDS Subsequences, FiniteSetsExt

CONSTANTS
  Taxonomy,   \* sequence of [type, subtype], in the order of the configuration
  Product     \* catalogue: sequence of [sku, series, cooling, tier, price, keywords]

Sku == {Product[i].sku : i \in DOMAIN Product}
NoSku == "none"

Take(s, n) == SubSeq(s, 1, IF n < Len(s) THEN n ELSE Len(s))

-----------------------------------------------------------------------------
(* Signals *)

\* Who a type is accepted from.
ExpectedSpeaker ==
  [demand |-> {"customer"}, intent |-> {"customer"}, objection |-> {"customer"},
   price_reaction |-> {"customer"}, promise |-> {"agent"},
   competitor_mention |-> {"agent", "customer", "unknown"}]

Interest == {"demand", "intent"}

\* The text the extractor reads: the normalised one, else the text as spoken.
Read(u) == IF u.line.indic /\ u.norm # "translated" THEN u.line.native ELSE u.line.english

\* The gates of a matched phrase: speaker, question, echo and negation, all of the text
\* that is read.  Words and negators are looked for in Latin letters, so that a line in
\* Devanagari no translation answered is an echo, and holds no negator.
IsSignal(u, t) ==
  /\ t.subtype \in Read(u).says
  /\ u.speaker \in ExpectedSpeaker[t.type]
  /\ t.type \in Interest => ~Read(u).question /\ ~Read(u).short
  /\ t.type \in Interest \cup {"price_reaction"} => t.subtype \notin Read(u).negated

\* The identifiers in the text a signal quotes, normalised or as spoken.
QuotePii(u) == IF u.norm = "none" THEN u.textPii ELSE u.normPii

\* Turn by turn, in the taxonomy's order, one signal per subtype of a turn.
Found(u) == Only(Taxonomy, {t \in ToSet(Taxonomy) : IsSignal(u, t)})

Signals(utts) ==
  FlattenSeq([i \in DOMAIN utts |->
    [k \in DOMAIN Found(utts[i]) |->
      LET t == Found(utts[i])[k]
      IN [type |-> t.type, subtype |-> t.subtype, turn |-> i, words |-> Read(utts[i]).words,
          pii |-> QuotePii(utts[i])]]])

-----------------------------------------------------------------------------
(* Scoring *)

Weight == [intent |-> 12, demand |-> 10, promise |-> 15,
           objection |-> -8, price_reaction |-> -6, competitor_mention |-> -4]
Bonuses == [referral_intent |-> 10, purchase_intent |-> 6, trial_request |-> 3,
            delivery_promise |-> 3, follow_up_promise |-> 1]

\* scoring.py:17, the universal types are the only ones; and every taxonomy of configs/
\* gives a moment that earns a bonus to an intent or a promise.
ASSUME TaxonomyAssumption ==
  /\ Taxonomy \in Seq([type : DOMAIN ExpectedSpeaker, subtype : STRING])
  /\ \A t \in ToSet(Taxonomy) : t.subtype \in DOMAIN Bonuses => t.type \in {"intent", "promise"}

Bonus(subtype) == IF subtype \in DOMAIN Bonuses THEN Bonuses[subtype] ELSE 0

Clamp(n, low, high) == IF n < low THEN low ELSE IF n > high THEN high ELSE n
Count(sigs, types) == Cardinality({i \in DOMAIN sigs : sigs[i].type \in types})

Points(sig) == Weight[sig.type] + Bonus(sig.subtype)

Total(sigs) ==
  LET upTo[n \in 0..Len(sigs)] == IF n = 0 THEN 50 ELSE upTo[n - 1] + Points(sigs[n])
  IN upTo[Len(sigs)]

Score(sigs) == Clamp(Total(sigs), 0, 100)

Rating(score) == IF score >= 70 THEN "Good" ELSE IF score >= 45 THEN "Average" ELSE "Poor"

\* Mutant: a visit is at risk when it has more objections than interest, whatever its score.
OutcomeUnscored(sigs) ==
  LET positive == Count(sigs, {"intent", "demand", "promise"})
      negative == Count(sigs, {"objection", "price_reaction"})
  IN IF Count(sigs, {"promise"}) > 0 \/ positive > negative THEN "promising"
     ELSE IF negative > positive THEN "at_risk" ELSE "neutral"

Outcome(sigs) ==
  LET positive == Count(sigs, {"intent", "demand", "promise"})
      negative == Count(sigs, {"objection", "price_reaction"})
  IN IF Count(sigs, {"promise"}) > 0 \/ (positive > negative /\ Score(sigs) >= 60) THEN "promising"
     ELSE IF negative > positive /\ Score(sigs) < 45 THEN "at_risk" ELSE "neutral"

-----------------------------------------------------------------------------
(* Product mentions *)

Bump(st, sku, turn) ==
  [focus |-> st.focus,
   total |-> [st.total EXCEPT ![sku] = @ + 1], last |-> [st.last EXCEPT ![sku] = turn],
   seen |-> IF sku \in ToSet(st.seen) THEN st.seen ELSE Append(st.seen, sku)]

\* Every product a turn names is counted, in order.
NameAll(st, names, turn) ==
  LET upTo[n \in 0..Len(names)] == IF n = 0 THEN st ELSE Bump(upTo[n - 1], names[n], turn)
  IN upTo[Len(names)]

\* Mutant: a pronoun points at the first product of a line that named several.
MentionTurnFirst(st, u, turn) ==
  IF u.line.names # <<>>
  THEN [NameAll(st, u.line.names, turn) EXCEPT !.focus = u.line.names[1]]
  ELSE IF u.line.refers /\ st.focus \in Sku THEN Bump(st, st.focus, turn) ELSE st

\* One turn: every product it names is counted and the last is the focus; a pronoun
\* counts for the focus of an earlier turn, once, when the turn names nothing.
MentionTurn(st, u, turn) ==
  IF u.line.names # <<>>
  THEN [NameAll(st, u.line.names, turn) EXCEPT !.focus = Last(u.line.names)]
  ELSE IF u.line.refers /\ st.focus \in Sku THEN Bump(st, st.focus, turn) ELSE st

NoMentions == [focus |-> NoSku, total |-> [s \in Sku |-> 0], last |-> [s \in Sku |-> 0],
               seen |-> <<>>]

Mentions(utts) ==
  LET upTo[n \in 0..Len(utts)] ==
        IF n = 0 THEN NoMentions ELSE MentionTurn(upTo[n - 1], utts[n], n)
  IN upTo[Len(utts)]

Place(s, x) == CHOOSE i \in DOMAIN s : s[i] = x

\* Most discussed first, then latest; ties in the order of first mention.
Discussed(utts) ==
  LET m == Mentions(utts)
      Before(a, b) == \/ m.total[a] > m.total[b]
                      \/ m.total[a] = m.total[b] /\ m.last[a] > m.last[b]
                      \/ m.total[a] = m.total[b] /\ m.last[a] = m.last[b]
                         /\ Place(m.seen, a) < Place(m.seen, b)
      skus == ToSet(m.seen)
  IN Ordered(skus, {p \in skus \X skus : Before(p[1], p[2])})

-----------------------------------------------------------------------------
(* Ranking the catalogue *)

\* The subtype's need, and the needs the words of the quote touch, declined ones included.
NeedOf == [orthopaedic_need |-> "ortho", cooling_need |-> "cooling", budget_too_high |-> "budget",
           budget_sensitive |-> "budget", warranty_concern |-> "warranty",
           local_brand_sagging |-> "warranty"]
Needs(sigs) ==
  UNION {sigs[i].words : i \in DOMAIN sigs}
  \cup {NeedOf[s] : s \in {sigs[i].subtype : i \in DOMAIN sigs} \cap DOMAIN NeedOf}

Affordability == [entry |-> 12, mid |-> 6, premium |-> -2, luxury |-> -10]
Premium == [entry |-> -6, mid |-> 0, premium |-> 8, luxury |-> 12]

\* Every product has a sku of its own.
ASSUME CatalogueAssumption ==
  /\ Product \in Seq([sku : STRING, series : STRING, cooling : BOOLEAN, price : Nat,
                      tier : DOMAIN Affordability, keywords : SUBSET STRING])
  /\ \A i, j \in DOMAIN Product : Product[i].sku = Product[j].sku => i = j
  /\ \A i \in DOMAIN Product : IsFiniteSet(Product[i].keywords)
  /\ NoSku \notin Sku

MatchScore(p, needs) ==
  LET When(cond, n) == IF cond THEN n ELSE 0
      overlap == 4 * Cardinality(p.keywords \cap needs)
  IN Clamp(60 + When("ortho" \in needs, IF p.series = "ortho" THEN 22 ELSE -8)
              + When("cooling" \in needs, IF p.cooling THEN 26 ELSE -12)
              + When("soft" \in needs /\ p.series = "luxe", 14)
              + When("firm" \in needs /\ p.series = "ortho", 10)
              + When("warranty" \in needs, 4)
              + (IF overlap < 12 THEN overlap ELSE 12)
              + When("budget" \in needs, Affordability[p.tier])
              + When("premium" \in needs, Premium[p.tier]),
           40, 99)

\* Best fit first, then the cheaper; ties in the order of the catalogue.
ByFit(sigs) ==
  LET needs == Needs(sigs)
      fit == [i \in DOMAIN Product |-> MatchScore(Product[i], needs)]
      Price(i) == Product[i].price
      Before(i, j) == \/ fit[i] > fit[j]
                      \/ fit[i] = fit[j] /\ Price(i) < Price(j)
                      \/ fit[i] = fit[j] /\ Price(i) = Price(j) /\ i < j
      at == Ordered(DOMAIN Product,
                    {p \in (DOMAIN Product) \X (DOMAIN Product) : Before(p[1], p[2])})
  IN [k \in DOMAIN at |-> Product[at[k]].sku]

\* What was discussed leads, in its order; the rest follows by fit.
RankProducts(sigs, discussed, limit) ==
  LET front == Only(discussed, Sku)
      rest == Only(ByFit(sigs), Sku \ ToSet(front))
  IN Take(front \o rest, limit)

\* Mutant: every product the model writes about is shown.
RecommendUngrounded(sigs, discussed, said) ==
  LET shortlist == Distinct(Take(RankProducts(sigs, discussed, 3) \o SetToSeq(said), 4))
  IN [i \in DOMAIN shortlist |->
       [sku |-> shortlist[i], why |-> IF shortlist[i] \in said THEN "model" ELSE "own"]]

\* recommend_products: the model's words are kept for products of the shortlist only.
Recommend(sigs, discussed, said) ==
  LET shortlist == RankProducts(sigs, discussed, 3)
  IN [i \in DOMAIN shortlist |->
       [sku |-> shortlist[i], why |-> IF shortlist[i] \in said THEN "model" ELSE "own"]]

-----------------------------------------------------------------------------
(* Visit notes *)

WantLabels == {"orthopaedic_need", "cooling_need", "firmness_preference", "trial_request",
               "emi_request", "purchase_intent"}
ObjectionLabels == {"budget_too_high", "warranty_concern", "firmness_mismatch",
                    "local_brand_sagging", "competitor_brand"}

Labels(sigs, labels) ==
  Distinct(Only([i \in DOMAIN sigs |-> sigs[i].subtype], labels))

HasSubstance(sigs, discussed) == discussed # <<>> \/ sigs # <<>>

\* Each turn is a line of the transcript, after "Sales rep: ", "Customer: " or "Unknown: ";
\* under 20 characters, line ends included, is too short to judge.
LabelLength == [agent |-> 11, customer |-> 10, unknown |-> 9]
TooShort(utts) ==
  LET lines == {i \in DOMAIN utts : utts[i].line.length > 0}
      Printed(i) == LabelLength[utts[i].speaker] + utts[i].line.length
  IN MapThenSumSet(Printed, lines) + Cardinality(lines) - 1 < 20

Notes(text, wants, objections, coaching, products, outcome) ==
  [text |-> text, wants |-> wants, objections |-> objections, coaching |-> coaching,
   products |-> products, outcome |-> outcome]

TooShortNotes == Notes("too short", <<>>, <<>>, <<"hold the phone", "discovery">>, <<>>, "neutral")
EmptyInsight ==
  Notes("nothing discussed", <<>>, <<>>, <<"discovery", "walk through", "next step">>, <<>>,
        "neutral")

\* The tips that suit what was heard.
Apt(wants, objections, products) ==
  {tip \in {"discovery", "budget", "sagging", "lock in"} :
     CASE tip = "discovery" -> wants = <<>>
       [] tip = "budget"    -> "budget_too_high" \in ToSet(objections)
       [] tip = "sagging"   -> "warranty_concern" \in ToSet(objections)
       [] tip = "lock in"   -> products # <<>>}
OwnTips == <<"discovery", "budget", "sagging", "lock in">>

\* Mutant: the closing tip is all there is, and no other is added.
FallbackCoachingShort(wants, objections, products) ==
  Take(Only(OwnTips, Apt(wants, objections, products)), 3)

FallbackCoaching(wants, objections, products) ==
  LET tips == Append(Only(OwnTips, Apt(wants, objections, products)), "close")
  IN Take(IF Len(tips) >= 2 THEN tips ELSE Append(tips, "recap"), 3)

\* Mutant: without signals the catalogue is ranked all the same.
FallbackFieldsAlways(sigs, discussed) ==
  LET wants == Labels(sigs, WantLabels)
      objections == Labels(sigs, ObjectionLabels)
      products == RankProducts(sigs, discussed, 2)
  IN Notes("recap", Take(wants, 3), Take(objections, 3),
           FallbackCoaching(wants, objections, products), products, "neutral")

FallbackFields(sigs, discussed) ==
  LET wants == Labels(sigs, WantLabels)
      objections == Labels(sigs, ObjectionLabels)
      limit == IF discussed = <<>> THEN 2 ELSE IF Len(discussed) < 3 THEN Len(discussed) ELSE 3
      products == RankProducts(sigs, discussed, limit)
  IN IF ~HasSubstance(sigs, discussed) THEN EmptyInsight
     ELSE Notes("recap", Take(wants, 3), Take(objections, 3),
                FallbackCoaching(wants, objections, products), products, "neutral")

CleanProducts(raw) == Take(Distinct(Only(raw, Sku)), 3)

Or(s, default) == IF s = <<>> THEN default ELSE s

\* _apply: the model's answer, cleaned; without substance and without a product of the
\* catalogue it is not believed, and what it left thin is filled from the fallback.
Apply(answer, sigs, discussed) ==
  LET wants == Take(Distinct(answer.wants), 3)
      objections == Take(Distinct(answer.objections), 3)
      tips == Take(Distinct(answer.coaching), 3)
      products == CleanProducts(answer.products)
      own == FallbackFields(sigs, discussed)
      more == Only(own.coaching, ToSet(own.coaching) \ ToSet(tips))
  IN IF ~HasSubstance(sigs, discussed) /\ products = <<>>
     THEN [EmptyInsight EXCEPT !.coaching = Take(Or(tips, @), 3)]
     ELSE Notes(IF answer.text THEN "model" ELSE own.text, Or(wants, own.wants),
                Or(objections, own.objections),
                IF Len(tips) >= 2 THEN tips ELSE tips \o Take(more, 2 - Len(tips)),
                IF discussed # <<>> \/ products = <<>> THEN own.products ELSE products,
                answer.outcome)

=============================================================================

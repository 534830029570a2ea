------------------------------- MODULE Candidates -------------------------------
(***************************************************************************)
(* From a page to the candidate for a campaign record: the rules, the hint  *)
(* of the registry, the model's part, the candidate with its evidence, the  *)
(* second reading of the evidence, and the status                           *)
(* (extraction/pipeline.py, source_hints.py and candidate.py).              *)
(***************************************************************************)
EXTENDS ModelMerge, ValidationPolicy

CONSTANTS MaxFacts,     \* facts of one list: 20 in the contract
          MaxIssues     \* issues of one candidate: 100

Labels == {"konut", "tasit", "ihtiyac"}

-----------------------------------------------------------------------------
(* The hint of a curated page.                                              *)

\* The safe blocks that name a family.
FamilyBlocks(doc, family) == {b \in SafeBlocks(doc) : family \in SupportedFamilies(BlockMarks(doc[b]))}

ApplyFamilyHint(draft, doc, label) ==
    LET family    == draft.facts.product_family
        financing == FamilyBlocks(doc, "financing")
        ambiguous == <<"product_family_ambiguous">>
        settled   == [draft EXCEPT
                        !.facts.product_family =
                            << MarkFact("financing", FamilySpan(doc, "financing")) >>,
                        !.issues = SelectSeq(@, LAMBDA i : i # ambiguous),
                        !.unresolved = @ \ {"product_family"}]
    IN CASE family # <<>> ->
              IF family[1].value = "financing" THEN draft
              ELSE WithIssue(draft, <<"registry_page_family_conflict">>)
         [] ~Contains(draft.issues, ambiguous) \/ financing = {} -> draft
         [] \E other \in ProductFamilies :
                Cardinality(FamilyBlocks(doc, other)) > Cardinality(financing) ->
              WithIssue(draft, <<"registry_page_family_conflict">>)
         [] OTHER -> WithIssue(settled, <<"registry_hint:", "product_family", label>>)

\* A sheet that prices its financing is an offer of that rate.
ApplyTypeHint(draft, label) ==
    LET family == draft.facts.product_family IN
    IF \/ draft.facts.campaign_type # <<>>
       \/ Contains(draft.issues, <<"campaign_type_ambiguous">>)
       \/ \A f \in ToSet(family) : f.value # "financing"
       \/ \A f \in ToSet(draft.facts.rate) : f.value.kind # "financing_profit_rate"
    THEN draft
    ELSE WithIssue([draft EXCEPT
                      !.facts.campaign_type =
                          << [family[1] EXCEPT !.value = "financing_rate", !.inferred = TRUE] >>,
                      !.unresolved = @ \ {"campaign_type"}],
                   <<"registry_hint:", "campaign_type", label>>)

\* A label that is not one of them, and no label, say nothing.
ApplyStaticPageHint(draft, doc, label) ==
    IF label \in Labels THEN ApplyTypeHint(ApplyFamilyHint(draft, doc, label), label) ELSE draft

-----------------------------------------------------------------------------
(* The candidate and its second reading.                                    *)

ScalarValue(draft, field, unknown) ==
    IF draft.facts[field] = <<>> THEN unknown ELSE draft.facts[field][1].value

AmountCurrencies(draft) == {f.value.currency : f \in ToSet(draft.facts.financing_amount)}

\* The one currency of the amounts, or of the page.
ProductCurrency(draft, doc) ==
    IF Cardinality(AmountCurrencies(draft)) = 1 THEN AmountCurrencies(draft)
    ELSE IF InferPageCurrency(doc) # <<>> THEN {"TRY"} ELSE {}

\* The issues of the draft, and the fields that are open, within the limit.
CandidateIssues(draft) ==
    LET open == SelectSeq(FieldNames, LAMBDA f : f \in draft.unresolved)
        all  == draft.issues \o [i \in DOMAIN open |-> <<"unresolved:", open[i]>>]
    IN IF Len(all) <= MaxIssues THEN all
       ELSE Append(SubSeq(all, 1, MaxIssues - 1), <<"issues_truncated">>)

BuildCandidate(draft, doc, acceptedFacts) ==
    [facts    |-> draft.facts,
     family   |-> ScalarValue(draft, "product_family", "unknown"),
     type     |-> ScalarValue(draft, "campaign_type", "unknown"),
     currency |-> ProductCurrency(draft, doc),
     method   |-> IF acceptedFacts > 0 THEN "hybrid" ELSE "rule",
     issues   |-> CandidateIssues(draft)]

\* The contract refuses a candidate with a list that is too long, by an
\* exception that the pipeline does not take for an abstention.
ListFields == {"rate", "financing_amount", "term", "fee", "reward"}
FitsContract(candidate) == \A field \in ListFields : Len(candidate.facts[field]) <= MaxFacts

\* A span is text of a block that is there.
SpanHolds(doc, span) ==
    /\ span.block \in DOMAIN doc /\ span.sentence \in DOMAIN doc[span.block].sentences
    /\ LET s == Sentence(doc, <<span.block, span.sentence>>)
           cells == {[NoText EXCEPT !.marks = {"cell"}, !.rate = s.cells[i].rate] :
                        i \in DOMAIN s.cells}
           marks == IF span.quote.marks = {"welcome"} THEN SupportedTypes(BlockMarks(doc[span.block]))
                    ELSE BlockMarks(doc[span.block])
       IN span.quote \in cells \/ Holds([TextOf(s) EXCEPT !.marks = marks], span.quote)

\* Fault: a financing sheet of the registry is read like any other page.
RegistryInferredSheet_Never(candidate) == FALSE

\* A type that no text names, from the label and the rate of the sheet.
RegistryInferredSheet(candidate) ==
    /\ candidate.type = "financing_rate"
    /\ \E i \in ToSet(candidate.issues) : i[1] = "registry_hint:" /\ i[2] = "campaign_type"
    /\ \E f \in ToSet(candidate.facts.rate) : f.value.kind = "financing_profit_rate"
    /\ \E f \in ToSet(candidate.facts.campaign_type) :
          f.inferred /\ "financing" \in SupportedFamilies(f.span.quote.marks)

\* Read again from its quote, with its own meaning as the hint.
RateReadsAgain(f) ==
    LET again == HintedRate(f.span.quote.rate[1],
                            << WholeRowHint(f.value.kind,
                                  IF f.value.period = "unspecified" THEN "none"
                                  ELSE f.value.period) >>, f.value.term)
    IN f.span.quote.rate # <<>> /\ again # <<>> /\ again[1].kind = f.value.kind
       /\ again[1].percent = f.value.percent /\ again[1].period = f.value.period

\* What validate_candidate raises, or "none".
ReplayFailure(candidate, doc) ==
    LET facts(field) == ToSet(candidate.facts[field])
    IN CASE \E field \in DOMAIN candidate.facts : \E f \in facts(field) : ~SpanHolds(doc, f.span) ->
              "evidence_quote_mismatch"
         [] \E f \in facts("product_family") : f.value \notin SupportedFamilies(f.span.quote.marks) ->
              "product_family_evidence_laundering"
         [] /\ \E f \in facts("campaign_type") : f.value \notin SupportedTypes(f.span.quote.marks)
            /\ ~RegistryInferredSheet(candidate) -> "campaign_type_evidence_laundering"
         [] \E f \in facts("sales_channel") : f.value \notin ChannelMatches(f.span.quote.marks) ->
              "sales_channel_evidence_laundering"
         [] \E f \in facts("rate") : ~RateReadsAgain(f) -> "rate_normalization_mismatch"
         [] \E f \in facts("financing_amount") : MoneyOf(f.span.quote) # <<f.value>> ->
              "money_normalization_mismatch"
         [] \E f \in facts("term") : f.value \notin ToSet(f.span.quote.term) ->
              "term_normalization_mismatch"
         [] \E f \in facts("validity") : f.span.quote.validity # <<f.value>> ->
              "validity_normalization_mismatch"
         [] candidate.currency # ProductCurrency([facts |-> candidate.facts], doc) ->
              "product_currency_derivation_mismatch"
         [] \E f \in facts("customer_segment") : SegmentKey(f.span.quote.marks) # {f.value} ->
              "customer_segment_derivation_mismatch"
         [] OTHER -> "none"

-----------------------------------------------------------------------------
(* The pipeline.                                                            *)

\* What the gate still needs comes first in the question to the model.
GatePriorityFields(draft) ==
    LET family == draft.facts.product_family
        type   == draft.facts.campaign_type
        required == RequiredFields(family[1].value, type[1].value)
    IN IF family = <<>> \/ type = <<>> THEN BaseRequiredFields \cap draft.unresolved
       ELSE IF required = <<>> THEN {}
       ELSE (required[1].allOf \cup required[1].anyOf) \cap draft.unresolved

\* The model's part: a question with nothing to ask is not asked, and of an
\* answer that fails only its code is kept.
AskModel(draft, doc, answer) ==
    LET fields  == SelectModelFields(doc, draft.unresolved, GatePriorityFields(draft))
        failure == AnswerFailure(doc, answer, fields)
        Kept(issue) == [draft |-> WithIssue(draft, issue), accepted |-> 0]
    IN CASE fields = {} -> Kept(<<"model_skipped:", "no_relevant_source_signal">>)
         [] SentSentences(doc, fields) = {} -> Kept(<<"model_skipped:", "no_safe_source_blocks">>)
         [] failure # "none" -> Kept(<<failure, ":rules_fallback">>)
         [] OTHER -> MergeModelResponse(draft, answer.facts, doc)

ExtractionOf(outcome, candidate, issues, draft) ==
    [outcome |-> outcome, candidate |-> candidate, issues |-> issues, draft |-> draft]

\* ExtractionPipeline._extract_one; without a model the answer is <<>>.
ExtractOne(doc, label, answer) ==
    LET ruled  == ApplyStaticPageHint(ExtractRules(doc), doc, label)
        asks   == answer # <<>> /\ ruled.unresolved # {}
        asked  == IF asks THEN AskModel(ruled, doc, answer[1]) ELSE [draft |-> ruled, accepted |-> 0]
        draft  == IF asks THEN ApplyStaticPageHint(asked.draft, doc, label) ELSE ruled
        built  == BuildCandidate(draft, doc, asked.accepted)
        Abstains(code) == ExtractionOf("abstained", <<>>,
                              Append(draft.issues, <<"candidate_abstained:", code>>), draft)
    IN CASE draft.facts.title = <<>> -> Abstains("title_unresolved")
         [] ~FitsContract(built) -> ExtractionOf("error", <<>>, <<>>, draft)
         [] ReplayFailure(built, doc) # "none" -> Abstains(ReplayFailure(built, doc))
         [] OTHER -> ExtractionOf("candidate", <<built>>, built.issues, draft)

StatusOf(candidate) == DecideRecordStatus(candidate.family, candidate.type, candidate.issues)

-----------------------------------------------------------------------------

\* A page abstains only because it has no title: the code that reads the
\* evidence of a candidate again never refuses what the code that bound it has
\* bound, by a rule, by the label of the page or from the model's answer.
CandidateReplays(doc, label, answer) ==
    LET result == ExtractOne(doc, label, answer) IN
    result.outcome = "abstained" <=> result.draft.facts.title = <<>>

\* A candidate that is validated without a human has a title, and every fact
\* that its class requires; its prices have a kind and a period; and nothing
\* it says comes from a block with instructions to a model.  (An upper bound of
\* a sum counts as a sum: that is how it is read.)
ValidatedIsStated(doc, label, answer) ==
    LET result == ExtractOne(doc, label, answer) IN
    \A c \in ToSet(result.candidate) : StatusOf(c) = "validated" =>
        LET required == RequiredFields(c.family, c.type)[1]
            prices == {f \in ToSet(c.facts.rate) : f.value.kind # "ltv_ratio"}
        IN /\ \A field \in required.allOf : c.facts[field] # <<>>
           /\ required.anyOf = {} \/ \E field \in required.anyOf : c.facts[field] # <<>>
           /\ "rate" \in required.allOf =>
                 /\ prices # {}
                 /\ \A f \in prices : f.value.kind # "unknown" /\ f.value.period # "unspecified"
           /\ \A field \in DOMAIN c.facts : \A f \in ToSet(c.facts[field]) :
                 ~doc[f.span.block].injected
=============================================================================

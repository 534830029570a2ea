------------------------------- MODULE ModelMerge -------------------------------
(***************************************************************************)
(* What a local model may add to a draft: the question it is asked          *)
(* (llm/prompt.py), the answer that is taken from it (llm/contracts.py and  *)
(* llm/client.py), and the facts of the answer that are accepted            *)
(* (extraction/model_merge.py).  A proposal is [field, quote, block,        *)
(* offsets, hint]: the quote is a text, the block is 0 when none is named,  *)
(* the offsets are "none", "right" or "wrong", and the hint is <<>> or the  *)
(* value that the model says the quote has.                                 *)
(***************************************************************************)
EXTENDS ExtractionRules

CONSTANTS MaxModelFields,   \* fields of one question: 3 in the code
          MaxBlocks,        \* blocks of one question: 16
          MaxSentences      \* the room of one question, in sentences

-----------------------------------------------------------------------------
(* The question.                                                            *)

FieldFamilies ==
    << {"title", "summary", "product_family", "campaign_type"},
       {"rate", "financing_amount", "term", "fee", "reward"},
       {"validity", "customer_segment", "eligibility_condition", "sales_channel",
        "new_customer_only"} >>

\* The signals of a block for a field; a heading counts twice for a title.
BlockSignals(block, field) ==
    (IF field \in block.signals THEN 1 ELSE 0)
    + (IF field = "title" /\ block.kind = "heading" THEN 2 ELSE 0)
    + (IF field = "summary" /\ block.kind = "paragraph" THEN 1 ELSE 0)

BlockRelevance(block, fields) == FoldSet(LAMBDA f, n : n + BlockSignals(block, f), 0, fields)

FieldSignalScore(doc, field) ==
    FoldSet(LAMBDA b, n : n + BlockSignals(doc[b], field), 0, SafeBlocks(doc))

\* One family of fields: first one with a signal for a field that the gate
\* needs, then the one with the strongest signal, the most, and the earliest.
BestFamily(doc, unresolved, priority) ==
    LET score(f) == FieldSignalScore(doc, f)
        eligible(i) == FieldFamilies[i] \cap unresolved
        peak(i)  == Max({score(f) : f \in eligible(i)})
        total(i) == FoldSet(LAMBDA f, n : n + score(f), 0, eligible(i))
        wanted(i) == IF \E f \in eligible(i) \cap priority : score(f) > 0 THEN 1 ELSE 0
        Before(i, j) ==
            \/ wanted(i) > wanted(j)
            \/ wanted(i) = wanted(j) /\ peak(i) > peak(j)
            \/ wanted(i) = wanted(j) /\ peak(i) = peak(j) /\ total(i) > total(j)
            \/ wanted(i) = wanted(j) /\ peak(i) = peak(j) /\ total(i) = total(j) /\ i <= j
        ranked == {i \in DOMAIN FieldFamilies : eligible(i) # {}}
        best == CHOOSE i \in ranked : \A j \in ranked : Before(i, j)
    IN IF ranked = {} \/ peak(best) = 0 THEN {} ELSE {f \in eligible(best) : score(f) > 0}

\* Of the family the fields that the gate needs, then the best signalled ones,
\* then by their names.
SelectModelFields(doc, unresolved, priority) ==
    LET family == BestFamily(doc, unresolved, priority)
        score(f) == FieldSignalScore(doc, f)
        Named(f) == CHOOSE i \in DOMAIN FieldNames : FieldNames[i] = f
        Before(f, g) == \/ f \in priority /\ g \notin priority
                        \/ (f \in priority) = (g \in priority) /\ score(f) > score(g)
                        \/ /\ (f \in priority) = (g \in priority) /\ score(f) = score(g)
                           /\ Named(f) < Named(g)
        ordered == SetToSortSeq(family, Before)
    IN ToSet(SubSeq(ordered, 1, Min({MaxModelFields, Len(ordered)})))

\* The safe blocks with a signal, the most relevant first, headings first
\* among equals; the question ends where it is full.
SentSentences(doc, fields) ==
    LET relevance(b) == BlockRelevance(doc[b], fields)
        heading(b)   == doc[b].kind = "heading"
        Before(a, b) == \/ relevance(a) > relevance(b)
                        \/ relevance(a) = relevance(b) /\ heading(a) /\ ~heading(b)
                        \/ relevance(a) = relevance(b) /\ heading(a) = heading(b) /\ a < b
        ranked == SetToSortSeq({b \in SafeBlocks(doc) : relevance(b) > 0}, Before)
        blocks == SubSeq(ranked, 1, Min({MaxBlocks, Len(ranked)}))
        places == FlattenSeq([i \in DOMAIN blocks |->
                     [j \in DOMAIN doc[blocks[i]].sentences |-> <<blocks[i], j>>]])
    IN ToSet(SubSeq(places, 1, Min({MaxSentences, Len(places)})))

-----------------------------------------------------------------------------
(* The answer.                                                              *)

\* Whether a text has a quote in it.
Holds(text, quote) ==
    /\ quote.marks \subseteq text.marks
    /\ \A field \in DOMAIN NoText \ {"marks"} : quote[field] \in {<<>>, text[field]}

\* What the client raises on an answer, or "none": an answer of the live
\* model has one quote a field, of fields that were asked, which stand in the
\* blocks that were sent.
AnswerFailure(doc, answer, fields) ==
    LET facts == answer.facts
        asked == {facts[i].field : i \in DOMAIN facts}
        sent  == SentSentences(doc, fields)
        Visible(p) == \E at \in sent : Holds(TextOf(Sentence(doc, at)), p.quote)
    IN CASE answer.failure # "none" -> answer.failure
         [] Cardinality(asked) # Len(facts) -> "schema_invalid"
         [] ~asked \subseteq fields -> "field_not_requested"
         [] \E i \in DOMAIN facts : ~Visible(facts[i]) -> "block_not_sent"
         [] OTHER -> "none"

\* A fact of the live model, which says no more than a quote.
LiveFact(field, quote) ==
    [field |-> field, quote |-> quote, block |-> 0, offsets |-> "none", hint |-> <<>>]

-----------------------------------------------------------------------------
(* The acceptance of one proposal.                                          *)

\* A quote stands at one place, in a block that is safe.
Occurrences(doc, p) ==
    {at \in UNION {{<<b, i>> : i \in DOMAIN doc[b].sentences} : b \in DOMAIN doc} :
        p.block \in {0, at[1]} /\ Holds(TextOf(Sentence(doc, at)), p.quote)}

SpanFailure(doc, p) ==
    CASE p.block # 0 /\ p.block \notin DOMAIN doc -> "source_block_missing"
      [] Cardinality(Occurrences(doc, p)) > 1 -> "evidence_quote_non_unique"
      [] Occurrences(doc, p) = {} -> "evidence_quote_missing"
      [] p.offsets = "wrong" -> "legacy_offsets_contradict_quote"
      [] doc[(CHOOSE at \in Occurrences(doc, p) : TRUE)[1]].injected ->
            "prompt_injection_evidence_rejected"
      [] OTHER -> "none"

\* The reward that a quote names, which a rule would not read everywhere.
QuotedReward(q) ==
    LET Reward(kind, money, rate) == << [kind |-> kind, money |-> money, rate |-> rate] >>
    IN CASE "one_points" \in q.marks -> Reward("points", <<>>, <<>>)
         [] "cashback" \in q.marks ->
                IF MoneyOf(q) = <<>> THEN <<>> ELSE Reward("money", MoneyOf(q), <<>>)
         [] "discount" \in q.marks ->
                IF MoneyOf(q) = <<>> /\ DiscountRate(q) = <<>> THEN <<>>
                ELSE Reward("discount", MoneyOf(q), DiscountRate(q))
         [] "free" \in q.marks -> Reward("free_service", <<>>, <<>>)
         [] OTHER -> <<>>

Sole(set) == IF Cardinality(set) = 1 THEN << CHOOSE x \in set : TRUE >> ELSE <<>>

\* The values that a quote says of a field: none, or one, or several terms.
QuotedValue(doc, p) ==
    LET q == p.quote
        at == CHOOSE place \in Occurrences(doc, p) : TRUE
    IN CASE p.field = "title" -> IF doc[at[1]].kind = "heading" THEN <<"title">> ELSE <<>>
         [] p.field = "summary" -> <<"summary">>
         [] p.field = "product_family" -> Sole(SupportedFamilies(q.marks))
         [] p.field = "campaign_type" -> Sole(SupportedTypes(q.marks))
         [] p.field = "rate" ->
                IF q.rate # <<>> /\ q.rate[1].kind # "unknown" /\ q.rate[1].period # "unspecified"
                THEN q.rate ELSE <<>>
         [] p.field = "financing_amount" ->
                IF {"financing", "amount_word"} \cap q.marks # {} THEN MoneyOf(q) ELSE <<>>
         [] p.field = "term" -> q.term
         [] p.field = "fee" -> ReadFee(q)
         [] p.field = "reward" -> QuotedReward(q)
         [] p.field = "validity" -> q.validity
         [] p.field = "customer_segment" ->
                LET key == Sole(SegmentKeys \cap q.marks)
                IN IF key = <<"yeni_musteri">> /\ "restriction" \notin q.marks THEN <<>> ELSE key
         [] p.field = "eligibility_condition" ->
                IF "eligibility" \in q.marks THEN <<"condition">> ELSE <<>>
         [] p.field = "sales_channel" -> Sole(ChannelMatches(q.marks))
         [] p.field = "new_customer_only" ->
                IF "restriction" \in q.marks THEN <<TRUE>>
                ELSE IF "universal" \in q.marks THEN <<FALSE>> ELSE <<>>

\* What rejects a proposal, or "none".
Rejection(doc, p) ==
    LET value == QuotedValue(doc, p) IN
    CASE SpanFailure(doc, p) # "none" -> SpanFailure(doc, p)
      [] value = <<>> -> "not_supported_by_quote"
      [] p.hint # <<>> /\ p.hint[1] # value[1] -> "hint_contradicts_quote"
      [] OTHER -> "none"

ProposedFacts(doc, p) ==
    LET at == CHOOSE place \in Occurrences(doc, p) : TRUE
        inferred == p.field \in {"product_family", "campaign_type", "fee", "reward",
                                 "sales_channel", "new_customer_only"}
    IN [i \in DOMAIN QuotedValue(doc, p) |-> Fact(QuotedValue(doc, p)[i], at, p.quote, inferred)]

-----------------------------------------------------------------------------
(* The merge.                                                               *)

ScalarFields ==
    {"title", "summary", "product_family", "campaign_type", "validity", "sales_channel",
     "new_customer_only"}

WithIssue(draft, issue) ==
    IF Contains(draft.issues, issue) THEN draft
    ELSE [draft EXCEPT !.issues = Append(@, issue)]

UpsertBySpan(facts, fact) == Append(SelectSeq(facts, LAMBDA f : f.span # fact.span), fact)

\* A scalar is set; a segment that is there already stays; of a list the fact
\* of the same span is replaced.
Bind(draft, p, doc) ==
    LET facts == ProposedFacts(doc, p)
        known == {f.value : f \in ToSet(draft.facts[p.field])}
    IN [draft EXCEPT !.facts[p.field] =
          IF p.field \in ScalarFields THEN << facts[1] >>
          ELSE IF p.field = "customer_segment" /\ facts[1].value \in known THEN @
          ELSE FoldLeft(UpsertBySpan, @, facts)]

\* A type that the model names without a quote that counts is bound where the
\* rules find the mark of that type, and nowhere else.
ValueGroundedType(draft, p, doc) ==
    LET type == IF p.hint # <<>> THEN p.hint ELSE Sole(SupportedTypes(p.quote.marks))
    IN IF \/ p.field # "campaign_type" \/ draft.facts.campaign_type # <<>> \/ type = <<>>
          \/ TypeSpan(doc, type[1]) = <<>>
       THEN <<>>
       ELSE << MarkFact(type[1], TypeSpan(doc, type[1])) >>

Accepted(merge, field, draft) ==
    [draft |-> draft, accepted |-> merge.accepted + 1, resolved |-> merge.resolved \cup {field}]

RejectionIssue(doc, p) == <<"model_fact_rejected:", p.field, Rejection(doc, p)>>

\* A proposal that is rejected, when no other one of its field is accepted.
MergeRejected(merge, p, doc) ==
    LET grounded == ValueGroundedType(merge.draft, p, doc)
        noted    == WithIssue(merge.draft, <<"model_value_grounded:", "campaign_type">>)
    IN IF grounded = <<>>
       THEN [merge EXCEPT !.draft = WithIssue(@, RejectionIssue(doc, p))]
       ELSE Accepted(merge, p.field, [noted EXCEPT !.facts.campaign_type = grounded])

\* All the proposals of one scalar field; two that are accepted bind nothing.
MergeScalar(merge, proposals, field, doc) ==
    LET mine    == SelectSeq(proposals, LAMBDA p : p.field = field)
        valid   == SelectSeq(mine, LAMBDA p : Rejection(doc, p) = "none")
        refused == SelectSeq(mine, LAMBDA p : Rejection(doc, p) # "none")
        after   == FoldLeft(LAMBDA m, p :
                       IF valid = <<>> THEN MergeRejected(m, p, doc)
                       ELSE [m EXCEPT !.draft = WithIssue(@, RejectionIssue(doc, p))],
                       merge, refused)
    IN CASE Len(valid) > 1 ->
              [after EXCEPT !.draft = WithIssue(@, <<"model_scalar_conflict:", field>>)]
         [] valid = <<>> -> after
         [] OTHER -> Accepted(after, field, Bind(after.draft, valid[1], doc))

MergeListed(merge, p, doc) ==
    IF Rejection(doc, p) # "none"
    THEN [merge EXCEPT !.draft = WithIssue(@, RejectionIssue(doc, p))]
    ELSE Accepted(merge, p.field, Bind(merge.draft, p, doc))

\* Fault: a field is closed by any fact, whatever the others leave open.
StillOpen_Never(merge) == {}

\* Rates whose meaning is open stay a question after the model's answer.
StillOpen(merge) ==
    IF "rate" \in merge.resolved /\ RateSemanticsUnresolved(merge.draft.facts.rate)
    THEN {"rate"} ELSE {}

\* merge_model_response: the draft, and the number of facts accepted.
MergeModelResponse(draft, proposals, doc) ==
    LET Listed(p) == p.field \notin ScalarFields
        scalars == FoldLeft(LAMBDA m, field : MergeScalar(m, proposals, field, doc),
                            [draft |-> draft, accepted |-> 0, resolved |-> {}],
                            << "campaign_type", "new_customer_only", "product_family",
                               "sales_channel", "summary", "title", "validity" >>)
        merged  == FoldLeft(LAMBDA m, p : MergeListed(m, p, doc),
                            scalars, SelectSeq(proposals, Listed))
        open    == StillOpen(merged)
        noted   == IF open = {} THEN merged.draft
                   ELSE WithIssue(merged.draft, <<"model_field_incomplete:", "rate">>)
    IN [draft    |-> [noted EXCEPT !.unresolved = @ \ (merged.resolved \ open)],
        accepted |-> merged.accepted]
=============================================================================

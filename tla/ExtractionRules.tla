----------------------------- MODULE ExtractionRules -----------------------------
(***************************************************************************)
(* Reading a cleaned page by rules (extraction/rules.py, fees.py, draft.py  *)
(* and evidence.py).                                                        *)
(*                                                                          *)
(* A document is a sequence of blocks [kind, injected, sentences, signals]. *)
(* A text is what the patterns of the code find in it: the marks that       *)
(* match, and the values that the normalizers read; a sentence has cells as *)
(* well.  The bound of a text is the amount that is read ahead of "kadar".  *)
(* A span is the sentence and the text that is quoted from it: all          *)
(* of the sentence, or the one mark, cell or amount.  A heading is one       *)
(* sentence.  The signals of a block are the fields whose terms it has.     *)
(***************************************************************************)
EXTENDS Integers, Sequences, FiniteSets, FiniteSetsExt, SequencesExt, Folds

\* In the order of their names.
FieldNames ==
    << "campaign_type", "customer_segment", "eligibility_condition", "fee", "financing_amount",
       "new_customer_only", "product_family", "rate", "reward", "sales_channel", "summary", "term",
       "title", "validity" >>

Fields == ToSet(FieldNames)

ProductFamilies == {"financing", "card", "participation_account", "investment"}

CampaignTypes ==
    {"cashback", "discount", "points", "fee_waiver", "welcome", "installment",
     "financing_rate", "profit_share"}

SegmentKeys == {"bireysel", "ticari", "kobi", "emekli", "genc", "kadin_girisimci", "yeni_musteri"}

Channels == {"mobile", "web", "branch", "digital"}

NoText ==
    [marks |-> {}, rate |-> <<>>, money |-> <<>>, bound |-> <<>>, term |-> <<>>, validity |-> <<>>]

TextOf(s) == [field \in DOMAIN NoText |-> s[field]]
Mark(mark) == [NoText EXCEPT !.marks = {mark}]

\* No fact, no reading and no hint are the empty sequence; one is <<it>>.
Fact(value, at, quote, inferred) ==
    [value |-> value, span |-> [block |-> at[1], sentence |-> at[2], quote |-> quote],
     inferred |-> inferred]

\* The marks of the safe blocks, sentence by sentence.
SafeBlocks(doc) == {b \in DOMAIN doc : ~doc[b].injected}
Sentence(doc, at) == doc[at[1]].sentences[at[2]]
BlockMarks(block) == UNION {block.sentences[i].marks : i \in DOMAIN block.sentences}

\* The places of all the sentences, in the order of the page.
Sentences(doc) ==
    FlattenSeq([b \in DOMAIN doc |->
        IF doc[b].injected THEN <<>>
        ELSE [i \in DOMAIN doc[b].sentences |-> <<b, i>>]])

FirstOf(seq) == IF seq = <<>> THEN <<>> ELSE << Head(seq) >>

-----------------------------------------------------------------------------
(* Classification.                                                          *)

\* A heading is a title when no part of it is an instruction to a model.
TitleOf(doc) ==
    FirstOf(LET Titles(b) == doc[b].kind = "heading" /\ ~doc[b].injected
                kept == SelectSeq([b \in DOMAIN doc |-> b], Titles)
            IN [i \in DOMAIN kept |->
                   Fact("title", <<kept[i], 1>>, TextOf(doc[kept[i]].sentences[1]), FALSE)])

SupportedFamilies(marks) == ProductFamilies \cap marks

\* A phrase that restricts an offer to new customers welcomes them.
SupportedTypes(marks) ==
    (CampaignTypes \cap marks) \cup (IF "restriction" \in marks THEN {"welcome"} ELSE {})

\* "(Azami) finansman oranı" of a table is a share of the value, not a price.
LtvLabelVeto(block, s) ==
    /\ "profit_named" \notin s.marks
    /\ "azami" \in s.marks \/ "bracket" \in BlockMarks(block)

\* A free side service is no campaign, unless its fee is named as well.
SidePerkVeto(block) == block.kind # "heading" /\ "fee_noun" \notin BlockMarks(block)

CampaignMarkers(block, s) ==
    SupportedTypes(s.marks)
      \ ((IF LtvLabelVeto(block, s) THEN {"financing_rate"} ELSE {})
         \cup (IF SidePerkVeto(block) THEN {"fee_waiver"} ELSE {}))

\* The first sentence of the page with each mark.
FamilyHits(doc) == UNION {SupportedFamilies(BlockMarks(doc[b])) : b \in SafeBlocks(doc)}

FirstWith(doc, found) ==
    FirstOf(LET Found(at) == found[at] IN SelectSeq(Sentences(doc), Found))

FamilySpan(doc, family) ==
    FirstWith(doc, [at \in ToSet(Sentences(doc)) |-> family \in Sentence(doc, at).marks])

TypeSpan(doc, type) ==
    FirstWith(doc, [at \in ToSet(Sentences(doc)) |->
                      type \in CampaignMarkers(doc[at[1]], Sentence(doc, at))])

TypeHits(doc) == {type \in CampaignTypes : TypeSpan(doc, type) # <<>>}

MarkFact(value, place) == Fact(value, place[1], Mark(value), TRUE)

\* Exactly one family, or none is taken.
FamilyOf(doc) ==
    LET hits == FamilyHits(doc) family == CHOOSE f \in hits : TRUE
    IN IF Cardinality(hits) = 1 THEN << MarkFact(family, FamilySpan(doc, family)) >> ELSE <<>>

\* Of several types the only one that the title names.
TitleTypes(doc) ==
    LET title == TitleOf(doc) IN
    IF title = <<>> THEN {}
    ELSE CampaignMarkers(doc[title[1].span.block], title[1].span.quote)

TypeOf(doc) ==
    LET hits  == TypeHits(doc)
        named == IF Cardinality(hits) = 1 THEN hits ELSE TitleTypes(doc)
        type  == CHOOSE t \in named : TRUE
    IN IF hits = {} \/ Cardinality(named) # 1 THEN <<>>
       ELSE << IF hits = named THEN MarkFact(type, TypeSpan(doc, type))
               ELSE MarkFact(type, << <<TitleOf(doc)[1].span.block, 1>> >>) >>

ClassificationIssues(doc) ==
    (IF Cardinality(FamilyHits(doc)) > 1 THEN << <<"product_family_ambiguous">> >> ELSE <<>>)
    \o (IF Cardinality(TypeHits(doc)) <= 1 THEN <<>>
        ELSE IF TypeOf(doc) # <<>> THEN << <<"title_hint:", "campaign_type">> >>
        ELSE << <<"campaign_type_ambiguous">> >>)

-----------------------------------------------------------------------------
(* What the header of a table says of the rates in its rows.  A cell names  *)
(* what its label says, or has the rate or the months of a value.           *)

RateHint(kind, period, column, columns, sole, term, inMonths) ==
    [kind |-> kind, period |-> period, column |-> column, columns |-> columns, sole |-> sole,
     term |-> term, inMonths |-> inMonths]

WholeRowHint(kind, period) == RateHint(kind, period, 0, 0, FALSE, 0, FALSE)

\* One column of rates, another one of terms, and a financing context.
ColumnHint(row, priced, kind, period, financing) ==
    LET terms  == {i \in DOMAIN row.cells : i \notin priced /\ "term" \in row.cells[i].names}
        column == CHOOSE i \in priced : TRUE
        term   == IF Cardinality(terms) = 1 THEN CHOOSE i \in terms : TRUE ELSE 0
    IN IF \/ "non_financing" \in row.marks
          \/ Len(row.cells) < 2 \/ Cardinality(priced) # 1 \/ terms = {}
          \/ ~financing /\ "financing" \notin row.marks
       THEN <<>>
       ELSE << RateHint(kind, period, column, Len(row.cells),
                        \A i \in DOMAIN row.cells \ priced : "rate" \notin row.cells[i].names,
                        term, term # 0 /\ "months" \in row.cells[term].names) >>

ProfitTableHint(row, financing) ==
    ColumnHint(row, {i \in DOMAIN row.cells : /\ "profit" \in row.cells[i].names
                                               /\ "cost" \notin row.cells[i].names},
               "financing_profit_rate", "monthly", financing)

AnnualCostTableHint(row, financing) ==
    ColumnHint(row, {i \in DOMAIN row.cells : "annual_cost" \in row.cells[i].names},
               "annual_cost_rate", "annual", financing)

TableHint(row, financing) ==
    LET profit == ProfitTableHint(row, financing)
    IN IF profit # <<>> THEN profit ELSE AnnualCostTableHint(row, financing)

\* A label such as "aylık kâr payı oranı" gives its meaning to the block.
LabelHint(marks, onlyFinancing) ==
    IF (onlyFinancing \/ "financing" \in marks) /\ "non_financing" \notin marks
    THEN << WholeRowHint("financing_profit_rate",
                         IF "monthly_label" \in marks THEN "monthly" ELSE "none") >>
    ELSE <<>>

\* Fault: a header that says nothing leaves the hint of the table above it.
IsHeaderShaped_Never(row) == FALSE

\* A row of letters without a digit names columns.
IsHeaderShaped(row) == "letter" \in row.marks /\ "digit" \notin row.marks

\* The hint of one block, and the one that the rows below it inherit.
NextHint(block, current, hits) ==
    LET marks     == BlockMarks(block)
        table     == block.kind = "table"
        row       == block.sentences[1]
        financing == "financing" \in hits /\ "participation_account" \notin hits
        own       == TableHint(row, financing)
        label     == LabelHint(marks, hits = {"financing"})
        ltv       == << WholeRowHint("ltv_ratio", "none") >>
    IN CASE ~table -> [current |-> <<>>,
                       hint    |-> IF "profit_label" \in marks THEN label ELSE <<>>]
         [] own # <<>> -> [current |-> own, hint |-> own]
         [] "profit_label" \in marks -> [current |-> label, hint |-> label]
         [] {"ltv_label", "bracket"} \subseteq marks -> [current |-> ltv, hint |-> ltv]
         [] IsHeaderShaped(row) -> [current |-> <<>>, hint |-> <<>>]
         [] OTHER -> [current |-> current, hint |-> current]

\* The hint of every block; one that is quarantined is not there.
RateContextHints(doc) ==
    LET hits == FamilyHits(doc)
        Add(read, b) ==
            LET next == NextHint(doc[b], read.current, hits)
            IN IF doc[b].injected THEN [read EXCEPT !.hints = Append(@, <<>>)]
               ELSE [hints |-> Append(read.hints, next.hint), current |-> next.current]
    IN FoldLeft(Add, [hints |-> <<>>, current |-> <<>>], [b \in DOMAIN doc |-> b]).hints

-----------------------------------------------------------------------------
(* Rates.                                                                   *)

\* The cell of the row that its header prices, or 0.
ProfitColumnCell(row, hint) ==
    LET percents == {i \in DOMAIN row.cells : row.cells[i].rate # <<>>}
        cell == IF Len(row.cells) = hint.columns THEN hint.column
                ELSE IF hint.sole /\ Cardinality(percents) = 1 THEN CHOOSE i \in percents : TRUE
                ELSE 0
    IN IF cell \in percents THEN cell ELSE 0

\* The term of the row, when its header says which cell has it.
RowTermMonths(row, hint) ==
    IF hint.term = 0 \/ Len(row.cells) # hint.columns THEN 0
    ELSE LET cell == row.cells[hint.term]
         IN IF cell.unit = "month" \/ (cell.unit = "none" /\ hint.inMonths) THEN cell.months ELSE 0

\* A hint gives a meaning to a rate that has none, and never another one.
HintedRate(rate, hint, months) ==
    IF hint = <<>> \/ rate.kind # "unknown" THEN << rate >>
    ELSE IF hint[1].period # "none" /\ rate.period \notin {"unspecified", hint[1].period} THEN <<>>
    ELSE << [rate EXCEPT !.kind = hint[1].kind, !.term = months,
                         !.period = IF hint[1].period # "none" THEN hint[1].period ELSE @] >>

CellText(cell) == [NoText EXCEPT !.marks = {"cell"}, !.rate = cell.rate]

\* A percentage of a fee is no rate, and one without a meaning is left out,
\* as is one that the sentence itself dates out of force.  It is inferred when
\* a hint gave it its meaning.
RateFact(doc, hints, at) ==
    LET s     == Sentence(doc, at)
        hint  == hints[at[1]]
        cell  == IF hint # <<>> /\ hint[1].columns > 0 THEN ProfitColumnCell(s, hint[1]) ELSE 0
        used  == IF hint # <<>> /\ hint[1].columns > 0 /\ cell = 0 THEN <<>> ELSE hint
        found == IF cell = 0 THEN s.rate ELSE s.cells[cell].rate
        read  == IF found = <<>> THEN <<>>
                 ELSE HintedRate(found[1], used, IF cell = 0 THEN 0 ELSE RowTermMonths(s, used[1]))
    IN IF \/ "fee_word" \in s.marks \/ "out_of_force" \in s.marks
          \/ read = <<>> \/ read[1].kind = "unknown"
       THEN <<>>
       ELSE << Fact(read[1], at, IF cell = 0 THEN TextOf(s) ELSE CellText(s.cells[cell]),
                    used # <<>> /\ found[1].kind = "unknown") >>

\* A share of the value is no price, and leaves the question as it is.
RateSemanticsUnresolved(rates) ==
    LET pricing == {f \in ToSet(rates) : f.value.kind # "ltv_ratio"} IN
    \/ pricing = {}
    \/ \E f \in pricing : f.value.kind = "unknown" \/ f.value.period = "unspecified"

-----------------------------------------------------------------------------
(* Money, terms, validity, fees and rewards of a sentence.                  *)

\* normalize_money: one amount, no other number, no sign of an unknown currency
\* and no word for a fee of zero.  Whether the amount is a bound is not asked.
MoneyOf(s) ==
    IF Len(s.money) = 1 /\ {"other_number", "dollar_sign", "zero_fee"} \cap s.marks = {}
    THEN s.money ELSE <<>>

\* The one amount that the text has, without the text around it.
AmountFact(s, at) ==
    IF /\ {"financing", "amount_word"} \cap s.marks # {}
       /\ {"fee_word", "cashback", "discount", "points"} \cap s.marks = {}
       /\ Len(s.money) = 1
    THEN << Fact(s.money[1], at, [NoText EXCEPT !.money = s.money], FALSE) >> ELSE <<>>

\* A waiver is decided before an amount is read, and a bound is its ceiling; a
\* negation that is not understood leaves the fee open.
ReadFee(s) ==
    LET Fee(waived, limit, money, rate) ==
            << [waived |-> waived, limit |-> limit, money |-> money, rate |-> rate] >>
    IN CASE "fee_word" \notin s.marks -> <<>>
         [] "waived" \in s.marks ->
                Fee(TRUE, s.bound, <<>>, <<>>)
         [] "negation" \in s.marks -> <<>>
         [] MoneyOf(s) # <<>> -> Fee(FALSE, <<>>, MoneyOf(s), <<>>)
         [] s.rate # <<>> -> Fee(FALSE, <<>>, <<>>, s.rate)
         [] OTHER -> <<>>

DiscountRate(s) ==
    IF s.rate # <<>> /\ s.rate[1].kind \in {"unknown", "discount_rate"}
    THEN << [s.rate[1] EXCEPT !.kind = "discount_rate"] >> ELSE <<>>

\* A branded credit, a refund and a voucher that is not raffled are money.
RewardOf(s) ==
    LET Reward(kind, money, rate) == << [kind |-> kind, money |-> money, rate |-> rate] >>
        paid == \/ {"branded", "cashback"} \cap s.marks # {}
                \/ "voucher" \in s.marks /\ "raffle" \notin s.marks
    IN CASE "one_points" \in s.marks -> Reward("points", <<>>, <<>>)
         [] paid /\ MoneyOf(s) # <<>> -> Reward("money", MoneyOf(s), <<>>)
         [] "discount" \in s.marks /\ DiscountRate(s) # <<>> ->
                Reward("discount", <<>>, DiscountRate(s))
         [] "discount" \in s.marks /\ MoneyOf(s) # <<>> -> Reward("discount", MoneyOf(s), <<>>)
         [] OTHER -> <<>>

\* The facts of one list, from every sentence of the page.
FactsOf(doc, read) ==
    FlattenSeq([i \in DOMAIN Sentences(doc) |-> read[Sentences(doc)[i]]])

-----------------------------------------------------------------------------
(* Whom the offer is for.                                                   *)

EligibleSegment(marks, key) ==
    IF key = "yeni_musteri" THEN "restriction" \in marks
    ELSE "segment_denied" \notin marks /\ "segment_context" \in marks

\* The key of a text that names one audience.
SegmentKey(marks) ==
    IF Cardinality(SegmentKeys \cap marks) = 1
    THEN SegmentKeys \cap marks ELSE {}

SegmentsOf(doc) ==
    LET Named(key) == {b \in SafeBlocks(doc) : /\ key \in BlockMarks(doc[b])
                                                /\ EligibleSegment(BlockMarks(doc[b]), key)}
        keys == {key \in SegmentKeys : Named(key) # {}}
    IN SetToSeq({Fact(key, <<Min(Named(key)), 1>>, Mark(key), FALSE) : key \in keys})

\* Channels count where they are offered, and not where they are denied.
ChannelMatches(marks) ==
    IF "channel_context" \notin marks \/ "channel_denied" \in marks THEN {}
    ELSE Channels \cap marks

\* A sentence with "yalnızca" outranks the others.
ChannelPriority(s) == IF "only" \in s.marks THEN 2 ELSE 1

BestChannelSentences(doc) ==
    LET naming == {at \in ToSet(Sentences(doc)) : ChannelMatches(Sentence(doc, at).marks) # {}}
    IN {at \in naming : \A other \in naming :
           ChannelPriority(Sentence(doc, at)) >= ChannelPriority(Sentence(doc, other))}

ChannelHits(doc) ==
    UNION {ChannelMatches(Sentence(doc, at).marks) : at \in BestChannelSentences(doc)}

\* The only channel, in the first of those sentences that names it.
ChannelOf(doc) ==
    LET hits == ChannelHits(doc) channel == CHOOSE c \in hits : TRUE
        naming == [at \in ToSet(Sentences(doc)) |->
                      /\ at \in BestChannelSentences(doc)
                      /\ channel \in ChannelMatches(Sentence(doc, at).marks)]
        place == FirstWith(doc, naming)[1]
    IN IF Cardinality(hits) = 1 THEN << Fact(channel, place, TextOf(Sentence(doc, place)), TRUE) >>
       ELSE <<>>

\* A restriction anywhere says yes; only without one does a sentence that
\* opens the offer to everybody, and does not deny it, say no.
NewCustomerOnly(doc) ==
    LET Restricts(at) == "restriction" \in Sentence(doc, at).marks
        Opens(at) == /\ "universal" \in Sentence(doc, at).marks
                     /\ {"segment_denied", "channel_denied"} \cap Sentence(doc, at).marks = {}
        restricting == SelectSeq(Sentences(doc), Restricts)
        opening     == SelectSeq(Sentences(doc), Opens)
    IN CASE restricting # <<>> ->
                << Fact(TRUE, restricting[1], Mark("restriction"), TRUE) >>
         [] opening # <<>> -> << Fact(FALSE, opening[1], Mark("universal"), TRUE) >>
         [] OTHER -> <<>>

\* The mechanism of the product, which is in the data of a record and no field
\* of the model's.
Mechanisms == {"karz_i_hasen"}

MechanismOf(doc) ==
    LET hits == {m \in Mechanisms : \E b \in SafeBlocks(doc) : m \in BlockMarks(doc[b])}
        mechanism == CHOOSE m \in hits : TRUE
    IN IF Cardinality(hits) # 1 THEN <<>>
       ELSE << MarkFact(mechanism, FirstWith(doc, [at \in ToSet(Sentences(doc)) |->
                                                mechanism \in Sentence(doc, at).marks])) >>

\* One safe currency of the whole page: an amount of liras somewhere, and no
\* sign of another currency anywhere.
InferPageCurrency(doc) ==
    IF \E b \in SafeBlocks(doc) : "foreign" \in BlockMarks(doc[b]) THEN <<>>
    ELSE LET Lira(at) == "lira" \in Sentence(doc, at).marks
         IN FirstOf(SelectSeq(Sentences(doc), Lira))

-----------------------------------------------------------------------------

\* What is read is resolved; of the rates their meaning has to be.
UnresolvedOf(d) ==
    {field \in Fields \ {"summary", "rate"} : d[field] = <<>>}
    \cup (IF RateSemanticsUnresolved(d.rate) THEN {"rate"} ELSE {})

\* extract_rules: a draft with the facts of every field.
ExtractRules(doc) ==
    LET hints == RateContextHints(doc)
        places == ToSet(Sentences(doc))
        Each(values, at) ==
            [i \in DOMAIN values |-> Fact(values[i], at, TextOf(Sentence(doc, at)), FALSE)]
        facts ==
          [title          |-> TitleOf(doc),
           summary        |-> <<>>,
           product_family |-> FamilyOf(doc),
           campaign_type  |-> TypeOf(doc),
           rate           |-> FactsOf(doc, [at \in places |-> RateFact(doc, hints, at)]),
           financing_amount |-> FactsOf(doc, [at \in places |-> AmountFact(Sentence(doc, at), at)]),
           term           |-> FactsOf(doc, [at \in places |-> Each(Sentence(doc, at).term, at)]),
           fee            |-> FactsOf(doc, [at \in places |-> Each(ReadFee(Sentence(doc, at)), at)]),
           reward         |-> FactsOf(doc, [at \in places |-> Each(RewardOf(Sentence(doc, at)), at)]),
           validity       |-> FirstOf(FactsOf(doc,
                                [at \in places |-> Each(Sentence(doc, at).validity, at)])),
           customer_segment |-> SegmentsOf(doc),
           eligibility_condition |-> FactsOf(doc, [at \in places |->
                IF "eligibility" \in Sentence(doc, at).marks
                THEN Each(<<"condition">>, at) ELSE <<>>]),
           sales_channel  |-> ChannelOf(doc),
           new_customer_only |-> NewCustomerOnly(doc),
           product_mechanism |-> MechanismOf(doc)]
    IN [facts  |-> facts,
        issues |-> LET unsafe == SelectSeq([b \in DOMAIN doc |-> b], LAMBDA b : doc[b].injected)
                   IN [i \in DOMAIN unsafe |->
                         <<"quarantined_prompt_injection_block:", ToString(unsafe[i])>>]
                   \o ClassificationIssues(doc)
                   \o (IF Cardinality(ChannelHits(doc)) > 1
                       THEN << <<"sales_channel_ambiguous">> >> ELSE <<>>),
        unresolved |-> UnresolvedOf(facts)]

-----------------------------------------------------------------------------

\* A row that names columns: of letters without a digit, or with one column of
\* prices beside a column of terms.
NamesColumns(row) ==
    \/ "letter" \in row.marks /\ "digit" \notin row.marks
    \/ /\ \E i \in DOMAIN row.cells : "term" \in row.cells[i].names
       /\ Cardinality({i \in DOMAIN row.cells :
                         {"profit", "annual_cost"} \cap row.cells[i].names # {}}) = 1

\* The row above that names the columns of a row of a table, or 0.  Blocks that
\* are quarantined are not read, and do not end a table.
HeaderOf(doc, b) ==
    LET above == {h \in 1..(b - 1) :
                    /\ \A j \in h..b : doc[j].kind = "table" \/ doc[j].injected
                    /\ ~doc[h].injected /\ NamesColumns(doc[h].sentences[1])}
    IN IF above = {} THEN 0 ELSE Max(above)

\* A rate that is read from a cell has the meaning which the last row that
\* names columns, above it and in the same table, gives to that column: no rate
\* takes it from a table further up, from another column, from a quarantined
\* row, or across a block that is read and is no row.
CellsFollowTheirHeader(doc) ==
    \A i \in DOMAIN ExtractRules(doc).facts.rate :
        LET f    == ExtractRules(doc).facts.rate[i]
            b    == f.span.block
            h    == HeaderOf(doc, b)
            Says(column) == IF "annual_cost" \in doc[h].sentences[1].cells[column].names
                            THEN "annual_cost_rate" ELSE "financing_profit_rate"
        IN "cell" \in f.span.quote.marks =>
            /\ h # 0
            /\ \E column \in DOMAIN doc[h].sentences[1].cells :
                  /\ {"profit", "annual_cost"} \cap doc[h].sentences[1].cells[column].names # {}
                  /\ f.value.kind = Says(column)
                  /\ Len(doc[h].sentences[1].cells) = Len(doc[b].sentences[1].cells) =>
                        f.value.percent = doc[b].sentences[1].cells[column].rate[1].percent

\* No reward is an exact sum where the page states a bound of it.
RewardsAreExact(doc) ==
    \A f \in ToSet(ExtractRules(doc).facts.reward) :
        f.value.money = <<>> \/ f.span.quote.bound = <<>>
=============================================================================

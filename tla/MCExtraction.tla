------------------------------ MODULE MCExtraction ------------------------------
(***************************************************************************)
(* Small pages, labels and answers of a model.                              *)
(***************************************************************************)
EXTENDS Candidates

MCSentence(marks) ==
    [marks |-> marks, rate |-> <<>>, money |-> <<>>, bound |-> <<>>, term |-> <<>>,
     validity |-> <<>>, cells |-> <<>>]

MCBlock(kind, sentence, signals) ==
    [kind |-> kind, injected |-> FALSE, sentences |-> << sentence >>, signals |-> signals]

MCRead(percent, kind, period) ==
    << [percent |-> percent, kind |-> kind, period |-> period, term |-> 0] >>

MCMoney(amount, currency) == << [amount |-> amount, currency |-> currency] >>

MCPriced(percent, kind, period) ==
    MCBlock("paragraph",
            [MCSentence({"financing", "digit"}) EXCEPT !.rate = MCRead(percent, kind, period)],
            {"rate"})

MCTerm == MCBlock("paragraph", [MCSentence({"digit"}) EXCEPT !.term = <<12>>], {"term"})

MCRefund ==
    MCBlock("paragraph",
            [MCSentence({"cashback", "card", "lira", "digit"}) EXCEPT !.money = MCMoney(1, "TRY")],
            {"reward", "campaign_type", "product_family"})

MCAmount(currency) ==
    MCBlock("paragraph",
            [MCSentence({"financing", "digit", IF currency = "TRY" THEN "lira" ELSE "foreign"})
               EXCEPT !.money = MCMoney(5, currency)], {"financing_amount", "product_family"})

\* Up to an amount: "700 TL'ye kadar ParafPara".
MCBounded ==
    MCBlock("paragraph",
            [MCSentence({"branded", "points", "card", "lira", "digit"}) EXCEPT
               !.money = MCMoney(1, "TRY"), !.bound = MCMoney(1, "TRY")],
            {"reward", "campaign_type", "product_family"})

\* Two terms and a mechanism in one sentence.
MCLoan ==
    MCBlock("paragraph", [MCSentence({"financing", "karz_i_hasen", "digit"}) EXCEPT
                            !.term = <<6, 12>>], {"term", "product_family"})

MCChannels(marks) ==
    MCBlock("paragraph", MCSentence({"channel_context"} \cup marks), {"sales_channel"})

MCWaiver ==
    MCBlock("paragraph", MCSentence({"fee_waiver", "fee_word", "fee_noun", "waived", "zero_fee"}),
            {"fee", "campaign_type"})

MCNewcomers ==
    MCBlock("paragraph", MCSentence({"restriction", "yeni_musteri"}),
            {"new_customer_only", "customer_segment"})

MCPerk == MCBlock("list_item", MCSentence({"fee_waiver", "card", "free", "zero_fee"}),
                  {"campaign_type"})

\* Instructions to a model, around a price and a term.
MCInjected ==
    [MCBlock("paragraph",
             [MCSentence({"financing", "financing_rate", "digit"}) EXCEPT
                !.rate = MCRead(9, "financing_profit_rate", "monthly"), !.term = <<99>>],
             {"rate", "term", "campaign_type"}) EXCEPT !.injected = TRUE]

MCHeading(marks) == MCBlock("heading", MCSentence(marks), {"title", "campaign_type"})

-----------------------------------------------------------------------------
(* Tables.                                                                  *)

MCCell(names, rate, months, unit) ==
    [names |-> names, rate |-> rate, months |-> months, unit |-> unit]

MCRow(marks, cells) == MCBlock("table", [MCSentence(marks) EXCEPT !.cells = cells], {"rate"})

MCHeader(names, other) ==
    MCRow({"letter"}, << MCCell({"term", "months"}, <<>>, 0, "none"),
                         MCCell(names, <<>>, 0, "none"), MCCell(other, <<>>, 0, "none") >>)

MCValues(cells) ==
    [MCRow({"digit", "letter"}, cells) EXCEPT !.sentences[1].rate = MCRead(1, "unknown", "unspecified")]

MCMonthly == MCCell({}, MCRead(2, "unknown", "unspecified"), 0, "none")
MCAnnual  == MCCell({}, MCRead(3, "unknown", "unspecified"), 0, "none")
MCMonths  == MCCell({}, <<>>, 12, "month")
MCLabel   == MCCell({}, <<>>, 0, "none")

MCTableBlocks ==
    {MCHeader({"profit", "rate"}, {}), MCHeader({"profit", "rate"}, {"annual_cost", "cost", "rate"}),
     MCHeader({"annual_cost", "cost", "rate"}, {}), MCHeader({}, {}),
     MCRow({"letter", "ltv_label", "bracket"}, << MCLabel, MCLabel >>),
     MCValues(<< MCMonths, MCMonthly, MCLabel >>), MCValues(<< MCMonths, MCMonthly, MCAnnual >>),
     MCValues(<< MCMonthly, MCLabel >>), MCTerm}

\* A header with a digit, a row of signs, and what is quarantined.
MCNumbered == [MCHeader({"profit", "rate"}, {}) EXCEPT !.sentences[1].marks = {"letter", "digit"}]

MCMixedBlocks ==
    MCTableBlocks \cup {MCNumbered, MCRow({}, << MCLabel, MCLabel >>), MCInjected,
                        [MCHeader({}, {}) EXCEPT !.injected = TRUE]}

MCTables ==
    {<< MCHeading({"financing"}) >> \o rows :
        rows \in [1..4 -> MCTableBlocks] \cup [1..3 -> MCMixedBlocks]}

-----------------------------------------------------------------------------
(* Pages and answers.                                                       *)

MCHeadings == {MCHeading({}), MCHeading({"financing"}), MCHeading({"cashback", "card"}), MCTerm}

MCBodies ==
    {MCPriced(2, "financing_profit_rate", "monthly"), MCPriced(2, "financing_profit_rate", "unspecified"),
     MCTerm, MCRefund, MCAmount("TRY"), MCAmount("USD"), MCWaiver, MCNewcomers, MCPerk, MCInjected,
     MCBounded, MCLoan, MCChannels({"mobile"}), MCChannels({"web", "only"})}

MCPages ==
    {<<title>> \o body : title \in MCHeadings, body \in [1..2 -> MCBodies]}
    \cup {<<title, MCInjected, MCTerm>> \o body :
             title \in MCHeadings, body \in [1..1 -> MCBodies]}
    \cup {<<MCHeading({}), MCRefund, MCRefund>> \o body : body \in [1..1 -> MCBodies]}
    \cup {<<MCHeading({"financing", "financing_rate"}),
            MCPriced(2, "financing_profit_rate", "monthly"),
            MCPriced(2, "financing_profit_rate", "unspecified")>> \o body :
             body \in [1..1 -> MCBodies]}

\* A model quotes a sentence or one mark of it, for one or two fields.
MCQuotes(doc) ==
    LET sentences == {TextOf(doc[b].sentences[1]) : b \in DOMAIN doc}
    IN sentences \cup {Mark(m) : m \in UNION {s.marks : s \in sentences}
                                         \cap {"financing", "card", "cashback", "fee_waiver"}}

MCFacts(doc, label) ==
    LET draft  == ApplyStaticPageHint(ExtractRules(doc), doc, label)
        fields == SelectModelFields(doc, draft.unresolved, GatePriorityFields(draft))
    IN {LiveFact(field, quote) : field \in fields, quote \in MCQuotes(doc)}

MCAnswers(doc, label) ==
    LET facts == MCFacts(doc, label)
    IN {<<>>, << [failure |-> "timeout", facts |-> <<>>] >>}
       \cup {<< [failure |-> "none", facts |-> <<f>>] >> : f \in facts}
       \cup {<< [failure |-> "none", facts |-> <<pair[1], pair[2]>>] >> :
                pair \in {p \in facts \X facts : p[1].field # p[2].field /\ p[1].quote # p[2].quote}}
=============================================================================

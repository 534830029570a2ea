------------------------------- MODULE MCAnswering -------------------------------
(***************************************************************************)
(* Small questions and small sets of records.                               *)
(***************************************************************************)
EXTENDS Answering

MCQuestion ==
    [unsafe |-> FALSE, outOfScope |-> FALSE, inScope |-> FALSE, intents |-> {}, families |-> {},
     subfamilies |-> {}, types |-> {}, dimensions |-> {}, months |-> Absent, banks |-> {},
     named |-> {}, words |-> {}]

\* A question may name a bank in full or in part, and a bank out of scope.
MCQuestions ==
    {[MCQuestion EXCEPT !.intents = {intent, "list"}, !.subfamilies = sheets, !.words = words,
         !.dimensions = dimensions, !.banks = bank[1], !.named = bank[2], !.outOfScope = bank[3],
         !.types = types, !.months = IF intent = "detail" THEN 12 ELSE Absent] :
        intent \in {"compare", "detail", "list"}, sheets \in {{}, {"konut"}, {"konut", "tasit"}},
        words \in {{}, {"azami"}}, types \in {{}, {"financing_rate"}},
        dimensions \in {{}, {"rate"}, {"fee", "reward"}, {"term", "eligibility"}},
        bank \in {<<{}, {}, FALSE>>, <<{"b1"}, {}, FALSE>>, <<{"b1", "b2"}, {"b2"}, FALSE>>,
                  <<{}, {}, TRUE>>}}
    \cup {[MCQuestion EXCEPT !.unsafe = TRUE, !.intents = {"list"}, !.banks = {"b1"}],
          [MCQuestion EXCEPT !.outOfScope = TRUE, !.inScope = TRUE, !.intents = {"detail"},
             !.banks = {"b1"}]}

MCOfferedRate(percent, period, term) ==
    [kind |-> "financing_profit_rate", period |-> period, grossNet |-> "unspecified",
     refStarts |-> Absent, refEnds |-> Absent, term |-> term, label |-> "", percent |-> percent,
     settled |-> TRUE, raw |-> {<<percent, "percent">>}]

MCMoney(amount) == << [amount |-> amount, currency |-> "TRY"] >>

MCCardFee(waived, money) ==
    [kind |-> "card", basis |-> "per_use", waived |-> waived, money |-> money, rate |-> <<>>,
     settled |-> TRUE, raw |-> {<<m.amount, "currency">> : m \in ToSet(money)}]

MCGift(amount) ==
    [kind |-> "money", basis |-> "per_use", program |-> None, money |-> MCMoney(amount),
     rate |-> <<>>, points |-> Absent, minimumSpend |-> <<>>, maximumMoney |-> <<>>,
     maximumPoints |-> Absent, settled |-> TRUE, raw |-> {<<amount, "currency">>}]

MCMonths(maximum) == << [settled |-> TRUE, maximum |-> maximum] >>

\* The price is quoted with a sum that was not read.
MCPiece(id, list, index, status, quoted) ==
    [id |-> id, list |-> list, index |-> index, status |-> status, quoted |-> quoted]

MCRow(id, bank, words, percent) ==
    [id |-> id, bank |-> bank, words |-> words, rank |-> 1, length |-> 1,
     type |-> "financing_rate", status |-> "validated", family |-> "financing",
     currency |-> "TRY", segments |-> {"retail"}, conditions |-> {}, channel |-> "unknown",
     newCustomer |-> None, secured |-> None, mechanism |-> None, observed |-> 4,
     validity |-> [stated |-> FALSE, settled |-> FALSE, starts |-> Absent, ends |-> Absent],
     rates |-> << MCOfferedRate(percent, "monthly", 12) >>, amounts |-> <<>>,
     terms |-> MCMonths(12), fees |-> << MCCardFee(FALSE, MCMoney(5)) >>,
     rewards |-> << MCGift(20) >>, titled |-> {<<24, "months">>},
     evidence |-> {MCPiece(1, "rates", 0, "inferred", {<<percent, "percent">>, <<7, "currency">>}),
                   MCPiece(2, "terms", 0, "stated", {<<12, "months">>}),
                   MCPiece(3, "fees", 0, "stated", {<<5, "currency">>}),
                   MCPiece(4, "rewards", 0, "stated", {<<20, "currency">>}),
                   MCPiece(5, "comparison_context", 0, "stated", {})}]

\* A sheet, a sheet with another price, fee, reward and term, one whose price
\* has no evidence, and a page of another type with a long text.
MCVariants(id, bank) ==
    {MCRow(id, bank, {"konut"}, 2),
     [MCRow(id, bank, {"tasit", "azami"}, 1) EXCEPT
         !.fees = << MCCardFee(TRUE, <<>>) >>, !.rewards = << MCGift(30) >>,
         !.terms = MCMonths(24)],
     [MCRow(id, bank, {"konut"}, 1) EXCEPT
         !.evidence = {p \in @ : p.list = "terms"}, !.observed = 5, !.rewards = <<>>,
         !.segments = {}, !.conditions = {"members"}],
     [MCRow(id, bank, {"ihtiyac"}, 3) EXCEPT
         !.type = "discount", !.length = 3, !.fees = <<>>, !.titled = {},
         !.rates = << MCOfferedRate(3, "annual", 12), MCOfferedRate(2, "monthly", 12) >>,
         !.amounts = << [amount |-> 9, currency |-> "TRY", raw |-> {<<9, "currency">>}] >>,
         !.evidence =
             {MCPiece(1, "rates", 0, "stated", {<<3, "percent">>}),
              MCPiece(2, "rates", 1, "stated", {<<2, "percent">>, <<3, "percent">>}),
              MCPiece(3, "financing_amounts", 0, "stated", {<<9, "currency">>})}]}

MCRowSets ==
    {{a, b, c} : a \in MCVariants(1, "b1"), b \in MCVariants(2, "b2"),
                 c \in {r \in MCVariants(3, "b2") : r.words # {"konut"}}}
    \cup {{a, [b EXCEPT !.status = "needs_review"]} :
              a \in MCVariants(1, "b1"), b \in MCVariants(2, "b2")}

\* A model says a price, with a sum that is only quoted, or nothing.
MCWordings == {<<>>, << {<<2, "percent">>} >>, << {<<2, "percent">>, <<7, "currency">>} >>}
=============================================================================

------------------------------- MODULE Answering -------------------------------
(***************************************************************************)
(* The answer to a question about campaigns: the plan (planning.py), the    *)
(* retrieval with its relaxations (services.py, read_adapter.py), the       *)
(* choice of records, their facts, the verdicts and the gate before a       *)
(* model's wording (answering.py).  The planner is the one that             *)
(* composition.py builds: no model proposes plans.                          *)
(*                                                                          *)
(* A question is what the patterns find in it; words are stems, so that the *)
(* tolerance for suffixes is equality.  A row is a record of Comparison     *)
(* with the bank, the campaign type, the words of its title and quotes, its *)
(* amounts and conditions, its rank in a text search and the length of its  *)
(* sentence.  A text is the numbers in it, each with its unit: the text a   *)
(* value was read from ("raw"), a title ("titled"), and the quote of a      *)
(* piece of evidence ("quoted"), which has an id and a status too.          *)
(***************************************************************************)
EXTENDS Comparison, FiniteSetsExt, Folds

CONSTANTS PlanLimit,      \* records of one answer: 5
          MaxCitations,   \* 20 in the code
          MaxLength       \* the room of the sentences

-----------------------------------------------------------------------------
(* The plan.                                                                *)

IntentOrder    == <<"coverage", "compare", "glossary", "detail", "list">>
FamilyOrder    == <<"financing", "card", "participation_account", "investment">>
TypeOrder      == <<"cashback", "discount", "points", "installment", "fee_waiver", "welcome",
                    "profit_share", "financing_rate">>
DimensionOrder == <<"rate", "term", "fee", "reward", "eligibility">>

FirstMatch(order, found) ==
    LET hits == {i \in DOMAIN order : order[i] \in found}
    IN IF hits = {} THEN None ELSE order[Min(hits)]

\* The dimensions that are asked for; a number of months asks for the term.
AskedDimensions(q) ==
    LET Asked(d) == d \in q.dimensions
        named == SelectSeq(DimensionOrder, Asked)
    IN IF q.months # Absent /\ "term" \notin q.dimensions THEN Append(named, "term") ELSE named

\* The names of the sheets are words of the family financing.
AskedFamily(q) ==
    FirstMatch(FamilyOrder, q.families \cup (IF q.subfamilies = {} THEN {} ELSE {"financing"}))

\* "kâr payı oranı" of a financing is the price that is asked for, no type.
AskedType(q) ==
    LET type == FirstMatch(TypeOrder, q.types)
    IN IF /\ type \in {"profit_share", "financing_rate"}
          /\ AskedFamily(q) = "financing" /\ "rate" \in ToSet(AskedDimensions(q))
       THEN None ELSE type

Refused(q) == q.unsafe \/ (q.outOfScope /\ ~q.inScope)

\* The name of a sheet becomes a keyword again.
PlanOf(q) ==
    IF Refused(q)
    THEN [intent |-> "unknown", banks |-> {}, family |-> None, type |-> None,
          dimensions |-> <<>>, keywords |-> {}]
    ELSE [intent     |-> IF FirstMatch(IntentOrder, q.intents) = None THEN "unknown"
                         ELSE FirstMatch(IntentOrder, q.intents),
          banks      |-> q.banks, family |-> AskedFamily(q), type |-> AskedType(q),
          dimensions |-> AskedDimensions(q),
          keywords   |-> q.words \cup
                         (IF AskedFamily(q) = "financing" THEN q.subfamilies ELSE {})]

Structured(plan) == plan.banks # {} \/ plan.family # None \/ plan.type # None

-----------------------------------------------------------------------------
(* Retrieval.                                                               *)

\* The limit of a query, over its rows in order.
Limited(rows) == SubSeq(rows, 1, Min({PlanLimit, Len(rows)}))

MatchesPlan(row, plan) ==
    /\ row.status = "validated"
    /\ plan.banks = {} \/ row.bank \in plan.banks
    /\ plan.family \in {None, row.family} /\ plan.type \in {None, row.type}

Newer(a, b) == a.observed > b.observed \/ (a.observed = b.observed /\ a.id < b.id)

\* A word that no row has does not veto rows that the filters pin down.
Search(rows, plan) ==
    LET filtered == {row \in rows : MatchesPlan(row, plan)}
        hits     == {row \in filtered : plan.keywords \subseteq row.words}
        Ranked(a, b) == a.rank > b.rank \/ (a.rank = b.rank /\ Newer(a, b))
    IN IF plan.keywords = {} \/ (hits = {} /\ Structured(plan))
       THEN Limited(SetToSortSeq(filtered, Newer))
       ELSE Limited(SetToSortSeq(hits, Ranked))

\* The plan, then without its keywords, then without its type.
RelaxationLadder(plan) ==
    LET plain == [plan EXCEPT !.keywords = {}]
    IN <<plan>> \o (IF plan.keywords = {} THEN <<>> ELSE <<plain>>)
                \o (IF plan.type = None THEN <<>> ELSE << [plain EXCEPT !.type = None] >>)

RetrieveValidated(rows, plan) ==
    LET Found(attempt) == Search(rows, attempt) # <<>>
        useful == SelectSeq(RelaxationLadder(plan), Found)
    IN IF useful = <<>> THEN <<>> ELSE Search(rows, Head(useful))

-----------------------------------------------------------------------------
(* The choice of records.                                                   *)

HasData(row, dimension) ==
    CASE dimension = "rate"   -> row.rates # <<>>
      [] dimension = "term"   -> row.terms # <<>>
      [] dimension = "fee"    -> row.fees # <<>>
      [] dimension = "reward" -> row.rewards # <<>>
      [] OTHER -> row.conditions # {} \/ row.segments # {}

\* Fault: a sheet of another name answers, when there is no other one.
InAskedSheets_Preferred(rows, q) ==
    LET kept == {row \in rows : q.subfamilies \cap row.words # {}}
    IN IF kept = {} THEN rows ELSE kept

\* The name of a sheet is a scope, and no preference.
InAskedSheets(rows, q) ==
    IF q.subfamilies = {} THEN rows ELSE {row \in rows : q.subfamilies \cap row.words # {}}

\* Keywords prefer; without filters they decide.
ByKeywords(rows, plan) ==
    LET full    == {row \in rows : plan.keywords \subseteq row.words}
        partial == {row \in rows : plan.keywords \cap row.words # {}}
    IN CASE full # {} \/ ~Structured(plan) -> full
         [] partial # {} -> partial
         [] OTHER -> rows

\* A bank that is named by its name drops the others.
Mentioned(rows, q) ==
    LET named == {row \in rows : row.bank \in q.named} IN IF named = {} THEN rows ELSE named

SelectRelevant(q, plan, retrieved) ==
    LET rows == Mentioned(InAskedSheets(ByKeywords(ToSet(retrieved), plan), q), q)
        Score(row) == 3 * Quantify(ToSet(plan.dimensions), LAMBDA d : HasData(row, d))
                      + Cardinality(plan.keywords \cap row.words)
        Before(a, b) == Score(a) > Score(b) \/ (Score(a) = Score(b) /\ Newer(a, b))
    IN Limited(SetToSortSeq(rows, Before))

-----------------------------------------------------------------------------
(* The facts of a record: their value, what the sentence says of them, and  *)
(* the evidence.                                                            *)

\* The evidence below a pointer that has the status.
EvidenceOf(row, list, status) == {p \in row.evidence : p.list = list /\ p.status = status}

RateEvidence(row, index, status) ==
    {p \in row.evidence : PointsBelow(p, "rates", index) /\ p.status = status}

FieldFact(dimension, value, says, evidence) ==
    IF evidence = {} THEN <<>>
    ELSE << [dimension |-> dimension, value |-> value, says |-> says, evidence |-> evidence] >>

\* The quote that a model gets with a fact: of the evidence with the first id.
QuoteOf(fact) == (CHOOSE p \in fact.evidence : \A o \in fact.evidence : p.id <= o.id).quoted

\* The monthly rate of the term that is asked for, which the sentence names as
\* well, any monthly one, or any; a header of a table is evidence enough.
RateFactOf(row, months) ==
    LET monthly == {i \in DOMAIN row.rates : /\ row.rates[i].kind = "financing_profit_rate"
                                             /\ row.rates[i].period = "monthly"}
        asked   == {i \in monthly : row.rates[i].term = months /\ months # Absent}
        chosen  == IF asked # {} THEN Min(asked) ELSE IF monthly # {} THEN Min(monthly) ELSE 1
        stated  == RateEvidence(row, chosen - 1, "stated")
        raw     == row.rates[chosen].raw
    IN IF row.rates = <<>> THEN <<>>
       ELSE FieldFact("rate", raw, raw \cup (IF asked = {} THEN {} ELSE {<<months, "months">>}),
                      IF stated # {} THEN stated ELSE RateEvidence(row, chosen - 1, "inferred"))

\* Facts that are told as their value is.
StatedFact(row, dimension, value, list) ==
    FieldFact(dimension, value, value, EvidenceOf(row, list, "stated"))

RawOf(values) == UNION {v.raw : v \in ToSet(values)}

LongestTerm(row) == Max({t.maximum : t \in ToSet(row.terms)})

FactOf(row, dimension, months) ==
    CASE dimension = "rate" -> RateFactOf(row, months)
      [] dimension = "term" /\ row.terms # <<>> ->
            StatedFact(row, "term", {<<LongestTerm(row), "months">>}, "terms")
      [] dimension = "fee" /\ row.fees # <<>> -> StatedFact(row, "fee", RawOf(row.fees), "fees")
      [] dimension = "reward" /\ row.rewards # <<>> ->
            StatedFact(row, "reward", RawOf(row.rewards), "rewards")
      [] dimension = "amount" /\ row.amounts # <<>> ->
            StatedFact(row, "amount", row.amounts[1].raw, "financing_amounts")
      [] OTHER -> <<>>

FactsFor(row, dimensions, months) ==
    FlattenSeq([i \in DOMAIN dimensions |-> FactOf(row, dimensions[i], months)])

\* What is asked for with the price and the term beside it, three at most;
\* without any of it the price, the amount and the term, two at most.
RecordFacts(row, dimensions, months) ==
    LET asked == FactsFor(row, dimensions, months)
        Beside(d) == d \notin {asked[i].dimension : i \in DOMAIN asked}
        shown == IF asked # <<>>
                 THEN asked \o FactsFor(row, SelectSeq(<<"rate", "term">>, Beside), months)
                 ELSE FactsFor(row, <<"rate", "amount", "term">>, months)
    IN SubSeq(shown, 1, Min({IF asked # <<>> THEN 3 ELSE 2, Len(shown)}))

-----------------------------------------------------------------------------
(* The answer.                                                              *)

\* A dimension has a winner when all of the records have a rank in it: the
\* first one, by its id, of the best rank.
Verdicts(rows, dimensions, asOf) ==
    LET sorted == SetToSortSeq(rows, LAMBDA a, b : a.id < b.id)
        items  == CompareCampaigns(sorted, ToSet(dimensions), asOf).items
        AllRanked(d) == \A i \in DOMAIN items[d] : items[d][i].comparable /\ items[d][i].rank # Absent
        Winner(d) == Min({i \in DOMAIN items[d] : \A j \in DOMAIN items[d] :
                             items[d][i].rank <= items[d][j].rank})
    IN IF Cardinality(rows) < 2 THEN {}
       ELSE {[dimension |-> d, winner |-> sorted[Winner(d)].id] :
                d \in {x \in ToSet(dimensions) : AllRanked(x)}}

\* The evidence of one fact, while there is room for citations.
Cite(citations, row, fact) ==
    LET refs == {[id |-> row.id, at |-> p] : p \in fact.evidence} \ citations
        room == MaxCitations - Cardinality(citations)
    IN citations \cup (IF Cardinality(refs) <= room THEN refs
                       ELSE CHOOSE some \in kSubset(room, refs) : TRUE)

\* One sentence for each record that the room is left for, with its title; a
\* model is given the values, the titles and the quotes.
Say(answer, row, facts) ==
    IF answer.length + row.length > MaxLength THEN answer
    ELSE [rows      |-> Append(answer.rows, row),
          says      |-> answer.says \cup row.titled \cup UNION {f.says : f \in ToSet(facts)},
          given     |-> answer.given \cup row.titled
                          \cup UNION {f.value \cup QuoteOf(f) : f \in ToSet(facts)},
          citations |-> FoldLeft(LAMBDA c, f : Cite(c, row, f), answer.citations, facts),
          length    |-> answer.length + row.length]

Abstention ==
    [kind |-> "abstained", rows |-> <<>>, says |-> {}, compared |-> {}, verdicts |-> {},
     citations |-> {}]

\* Numbers that nothing given has, or has with another unit, fail the gate.
IsGrounded(wording, given) == wording \subseteq given

\* build_answer_bundle, and the wording of a model where one is allowed.
AnswerFrom(q, plan, selected, asOf, wording) ==
    LET months   == q.months
        facts    == [i \in DOMAIN selected |-> RecordFacts(selected[i], plan.dimensions, months)]
        stating  == SelectSeq([i \in DOMAIN selected |-> i], LAMBDA i : facts[i] # <<>>)
        spoken   == FoldLeft(LAMBDA a, i : Say(a, selected[i], facts[i]),
                        [rows |-> <<>>, says |-> {}, given |-> {}, citations |-> {},
                         length |-> 0], stating)
        rows     == {selected[i] : i \in ToSet(stating)}
        required == ToSet(plan.dimensions) \ {"eligibility"}
        stated   == required = {} \/ \E row \in rows, d \in required : HasData(row, d)
        composed == /\ stated /\ plan.intent # "compare" /\ wording # <<>>
                    /\ IsGrounded(wording[1], spoken.given)
        compared == IF plan.intent = "compare" THEN rows ELSE {}
    IN IF spoken.rows = <<>> THEN Abstention
       ELSE [kind      |-> IF composed THEN "composed" ELSE "template",
             rows      |-> spoken.rows,
             says      |-> IF composed THEN wording[1] ELSE spoken.says,
             compared  |-> compared,
             verdicts  |-> Verdicts(compared, plan.dimensions, asOf),
             citations |-> spoken.citations]

\* ChatService.answer; a question without a bank, a family or a type only
\* compares.
AnswerTo(q, rows, asOf, wording) ==
    LET plan     == PlanOf(q)
        selected == SelectRelevant(q, plan, RetrieveValidated(rows, plan))
    IN IF \/ plan.intent \in {"unknown", "glossary", "coverage"}
          \/ plan.intent \in {"detail", "list"} /\ ~Structured(plan)
       THEN Abstention
       ELSE AnswerFrom(q, plan, selected, asOf, wording)

-----------------------------------------------------------------------------

\* What makes a record no worse than another in a dimension, by their values: a
\* value of the same meaning, and in the same currency, that is not worse.
NoWorse(a, b, dimension) ==
    LET InOneCurrency(x, y) == /\ x.money # <<>> /\ y.money # <<>>
                               /\ x.money[1].currency = y.money[1].currency
    IN CASE dimension = "rate" ->
              \E x \in ToSet(a.rates), y \in ToSet(b.rates) :
                 /\ x.kind = y.kind /\ x.period = y.period /\ x.term = y.term
                 /\ IF HigherRateIsBetter(x.kind) THEN x.percent >= y.percent
                                                  ELSE x.percent <= y.percent
         [] dimension = "term" ->
              \A y \in ToSet(b.terms) : \E x \in ToSet(a.terms) : x.maximum >= y.maximum
         [] dimension = "fee" ->
              \E x \in ToSet(a.fees), y \in ToSet(b.fees) :
                 /\ x.kind = y.kind /\ x.basis = y.basis
                 /\ \/ x.waived
                    \/ ~y.waived /\ InOneCurrency(x, y) /\ x.money[1].amount <= y.money[1].amount
         [] dimension = "reward" ->
              \E x \in ToSet(a.rewards), y \in ToSet(b.rewards) :
                 /\ x.kind = y.kind /\ InOneCurrency(x, y)
                 /\ x.money[1].amount >= y.money[1].amount
         [] OTHER -> FALSE

\* The texts of a record: of its values, its evidence and its title.
TextsOf(row) ==
    RawOf(row.rates) \cup RawOf(row.fees) \cup RawOf(row.rewards) \cup RawOf(row.amounts)
    \cup {<<r.term, "months">> : r \in ToSet(row.rates)}
    \cup {<<t.maximum, "months">> : t \in ToSet(row.terms)}
    \cup UNION {p.quoted : p \in row.evidence} \cup row.titled

\* An answer is about what the question names: whatever the retrieval had to
\* relax, every record in it, and every record it compares, is validated, of a
\* bank that is named and of a sheet that is named; a question that is refused
\* is not answered; an answer cites evidence, and only of its records; a bank
\* is called better in a dimension only where there are others, and its record
\* is by their values no worse than each of them; and a number is said only
\* with a unit that it has in a text of a record in the answer: of a value, of
\* the evidence or of the title.
KeepsToTheQuestion(q, rows, asOf, wording) ==
    LET answer == AnswerTo(q, rows, asOf, wording)
        said   == ToSet(answer.rows)
    IN /\ \A row \in said \cup answer.compared :
             /\ row.status = "validated"
             /\ q.banks = {} \/ row.bank \in q.banks
             /\ q.subfamilies = {} \/ q.subfamilies \cap row.words # {}
       /\ Refused(q) => answer.kind = "abstained"
       /\ answer.kind # "abstained" => answer.citations # {}
       /\ \A c \in answer.citations : \E row \in said : row.id = c.id /\ c.at \in row.evidence
       /\ \A v \in answer.verdicts :
             \E best \in answer.compared :
                /\ best.id = v.winner /\ answer.compared # {best}
                /\ \A other \in answer.compared \ {best} : NoWorse(best, other, v.dimension)
       /\ answer.says \subseteq UNION {TextsOf(row) : row \in said}
=============================================================================

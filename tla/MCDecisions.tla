----------------------------- MODULE MCDecisions -----------------------------
(***************************************************************************)
(* The decisions the program takes without a state of its own, one question *)
(* at a time: an action asks a question from a small set of inputs, Answer  *)
(* forgets it, and an invariant, or a property of the step that asks, says  *)
(* what every answer must satisfy.                                          *)
(***************************************************************************)
EXTENDS Comparison, Normalization, RegistryFiles, Robots

CONSTANTS MaxModelFields, MaxBlocks, MaxSentences, MaxFacts, MaxIssues,
          PlanLimit, MaxCitations, MaxLength

VARIABLE question

Files == INSTANCE MCFiles
Pages == INSTANCE MCExtraction
Chat  == INSTANCE MCAnswering

Nothing == [about |-> "nothing"]

Init == question = Nothing

Answer == question # Nothing /\ question' = Nothing

-----------------------------------------------------------------------------
(* Two or three records that differ in their rates, fees or rewards.        *)

MCRate(period, percent) ==
    [kind |-> "profit_share_distribution_rate", period |-> period, grossNet |-> "net",
     refStarts |-> Absent, refEnds |-> Absent, term |-> 1, label |-> "", percent |-> percent,
     settled |-> TRUE]

MCFee(kind, waived, money, rate) ==
    [kind |-> kind, basis |-> "per_use", waived |-> waived, money |-> money, rate |-> rate,
     settled |-> TRUE]

MCLira(amount) == << [amount |-> amount, currency |-> "TRY"] >>
MCDollars(amount) == << [amount |-> amount, currency |-> "USD"] >>

MCReward(money, rate, spend) ==
    [kind |-> "discount", basis |-> "per_use", program |-> None, money |-> money,
     rate |-> rate, points |-> Absent, minimumSpend |-> spend, maximumMoney |-> <<>>,
     maximumPoints |-> Absent, settled |-> TRUE]

MCRateLists ==
    {<<>>} \cup {<< MCRate(p, n) >> : p \in {"monthly", "annual"}, n \in 1..2}
    \cup {<< MCRate("monthly", n), MCRate("annual", 3 - n) >> : n \in 1..2}

MCOneFee ==
    {MCFee("card", TRUE, <<>>, <<>>), MCFee("card", FALSE, MCLira(1), <<>>),
     MCFee("card", FALSE, MCLira(2), <<>>), MCFee("card", FALSE, MCDollars(1), <<>>),
     MCFee("card", FALSE, <<>>, << [MCRate("annual", 1) EXCEPT !.label = "price"] >>),
     MCFee("wire", FALSE, MCLira(1), <<>>), MCFee("wire", TRUE, <<>>, <<>>)}

MCFeeLists ==
    {<<f>> : f \in MCOneFee}
    \cup {<< MCFee("card", FALSE, MCLira(n), <<>>), MCFee("wire", FALSE, MCLira(3 - n), <<>>) >> :
             n \in 1..2}

MCRewardLists ==
    {<< MCReward(m, <<>>, s) >> : m \in {MCLira(1), MCLira(2), MCDollars(1)}, s \in {<<>>, MCLira(9)}}
    \cup {<< MCReward(<<>>, << MCRate("annual", 1) >>, <<>>) >>}

MCEvidence ==
    {[list |-> l, index |-> i] : l \in {"rates", "fees", "rewards"}, i \in 0..1}
    \cup {[list |-> "terms", index |-> 0], [list |-> "comparison_context", index |-> 0]}

MCTerms(months) == << [settled |-> TRUE, maximum |-> months] >>

MCValidity(stated, ends) == [stated |-> stated, settled |-> TRUE, starts |-> 1, ends |-> ends]

MCRecord ==
    [status |-> "validated", family |-> "deposit", currency |-> "TRY", segments |-> {"retail"},
     channel |-> "unknown", newCustomer |-> None, secured |-> None, mechanism |-> None,
     observed |-> 4,
     validity |-> MCValidity(TRUE, 3), rates |-> <<>>, terms |-> MCTerms(12), fees |-> <<>>,
     rewards |-> <<>>, evidence |-> MCEvidence]

MCToday == [given |-> TRUE, exact |-> FALSE, at |-> 5]

Compare(records, dimension) ==
    [about |-> "compare", records |-> records, dimension |-> dimension]

AskRates ==
    /\ question = Nothing
    /\ \E a, b, c \in MCRateLists :
          question' = Compare(<< [MCRecord EXCEPT !.rates = a], [MCRecord EXCEPT !.rates = b],
                                 [MCRecord EXCEPT !.rates = c] >>, "rate")

AskFees ==
    /\ question = Nothing
    /\ \E a, b, c \in MCFeeLists :
          question' = Compare(<< [MCRecord EXCEPT !.fees = a], [MCRecord EXCEPT !.fees = b],
                                 [MCRecord EXCEPT !.fees = c] >>, "fee")

AskRewards ==
    /\ question = Nothing
    /\ \E a, b \in MCRewardLists :
          question' = Compare(<< [MCRecord EXCEPT !.rewards = a],
                                 [MCRecord EXCEPT !.rewards = b] >>, "reward")

\* Records that the gates tell apart.
AskTerms ==
    /\ question = Nothing
    /\ \E months, other \in {6, 12}, channel \in {"unknown", "branch"}, observed \in {4, 8},
          segments \in {{}, {"retail"}}, ends \in {1, 3}, stated \in BOOLEAN,
          dimension \in {"term", "eligibility"} :
          question' = Compare(<< [MCRecord EXCEPT !.terms = MCTerms(months)],
                                 [MCRecord EXCEPT !.terms = MCTerms(other), !.channel = channel,
                                    !.observed = observed, !.segments = segments,
                                    !.validity = MCValidity(stated, ends)] >>, dimension)

\* RankedOnOneScale holds of every comparison that is asked.
OneScale ==
    question.about = "compare" =>
        RankedOnOneScale(question.records, question.dimension, MCToday)

\* PeersDoNotReverse holds of every comparison that is asked.
PeersKeepTheOrder ==
    question.about = "compare" =>
        PeersDoNotReverse(question.records, question.dimension, MCToday)

-----------------------------------------------------------------------------
(* Numbers as a Turkish page writes them.                                   *)

MCLength(n) == IF n < 10 THEN 1 ELSE IF n < 100 THEN 2 ELSE 3

MCGroups(n, sep) ==
    IF n < 1000 THEN << Digits("none", MCLength(n), n) >>
    ELSE << Digits("none", MCLength(n \div 1000), n \div 1000), Digits(sep, 3, n % 1000) >>

MCNumber(n, sep, places, decimals, currency, scale) ==
    [about |-> "number", currency |-> currency, scale |-> scale,
     written |-> [mantissa |-> IF places = 0 THEN n ELSE n * 10 ^ places + decimals,
                  places |-> places],
     token |-> MCGroups(n, sep) \o
               (IF places = 0 THEN <<>> ELSE << Digits("comma", places, decimals) >>)]

MCWholes     == {5, 45, 999, 1250}
MCSeparators == {"dot", "space"}
MCDecimals   == {5, 25, 123}

MCIsWritten(n, places, decimals, scale) ==
    /\ scale = "bin" => n < 1000 /\ places < 2
    /\ decimals < 10 ^ places \/ places = 0

AskNumber ==
    /\ question = Nothing
    /\ \E n \in MCWholes, sep \in MCSeparators, places \in 0..3, decimals \in MCDecimals,
          currency \in {"TRY", "USD"}, scale \in {"none", "bin"} :
          /\ MCIsWritten(n, places, decimals, scale)
          /\ question' = MCNumber(n, sep, places, decimals, currency, scale)

\* NumberReadsBack holds of every number.
NumbersReadBack ==
    question.about = "number" =>
        NumberReadsBack(question.token, question.written, question.currency, question.scale)

-----------------------------------------------------------------------------
(* Validity windows of one or two dates.                                    *)

MCDates ==
    {Date(y, m, d) : y \in {NotGiven, 2024, 2025}, m \in {1, 2, 12}, d \in {1, 29, 31}}

MCValidityText ==
    [missing |-> FALSE, timeOfDay |-> FALSE, thisMonth |-> FALSE, sameMonth |-> <<>>,
     fullMonth |-> <<>>, dates |-> <<>>, monthYear |-> FALSE, twoRoles |-> FALSE,
     connected |-> TRUE, roles |-> {}]

MCDated(dates, roles) == [MCValidityText EXCEPT !.dates = dates, !.roles = roles]

MCTwoDates == {MCDated(<<a, b>>, {}) : a, b \in MCDates}

MCOneDate == {MCDated(<<a>>, roles) : a \in MCDates, roles \in SUBSET {"until", "from"}}

MCSameMonth(month, first, second) ==
    [MCValidityText EXCEPT !.sameMonth =
        << [year |-> 2025, month |-> month, first |-> first, second |-> second] >>]

MCFullMonth(year, month) ==
    [MCValidityText EXCEPT !.fullMonth = << [year |-> year, month |-> month] >>]

MCThisMonth == [MCValidityText EXCEPT !.thisMonth = TRUE]

MCMonths ==
    {MCSameMonth(month, first, second) :
        month \in {2, 12}, first \in {1, 5}, second \in {3, 30}}
    \cup {MCFullMonth(year, month) : year \in {0, 2024, 2025}, month \in {2, 12}}
    \cup {MCThisMonth}

MCReferences == {<<>>, << Date(2024, 12, 20) >>}

AskWindow ==
    /\ question = Nothing
    /\ \E reference \in MCReferences, text \in MCTwoDates \cup MCOneDate \cup MCMonths :
          question' = [about |-> "window", reference |-> reference, text |-> text]

\* WindowsAreOrdered holds of every text.
WindowsInOrder ==
    question.about = "window" => WindowsAreOrdered(question.text, question.reference)

-----------------------------------------------------------------------------
(* Pages, with a label of the registry or none, and answers of a model.     *)

AskTable ==
    /\ question = Nothing
    /\ \E doc \in Pages!MCTables : question' = [about |-> "table", doc |-> doc]

AskPage ==
    /\ question = Nothing
    /\ \E doc \in Pages!MCPages, label \in {"none", "konut"} :
          question' = [about |-> "page", doc |-> doc, label |-> label]

\* CellsFollowTheirHeader holds of every table.
TablesAreReadBelow ==
    [][question'.about = "table" => Pages!CellsFollowTheirHeader(question'.doc)]_question

\* CandidateReplays holds of every page and whatever the model answers.
CandidatesReplay ==
    [][question'.about = "page" =>
          \A answer \in Pages!MCAnswers(question'.doc, question'.label) :
             Pages!CandidateReplays(question'.doc, question'.label, answer)]_question

\* ValidatedIsStated holds of every page and whatever the model answers.
ValidatedOnEvidence ==
    [][question'.about = "page" =>
          \A answer \in Pages!MCAnswers(question'.doc, question'.label) :
             Pages!ValidatedIsStated(question'.doc, question'.label, answer)]_question

\* RewardsAreExact holds of every page.  (Where it reads branded credits
\* rules.py says that bounds fail normalization and leave the field unresolved.)
BoundsStayUnresolved ==
    [][question'.about = "page" => Pages!RewardsAreExact(question'.doc)]_question

-----------------------------------------------------------------------------
(* Questions of a user, over two or three records, and a model's wording.   *)

AskChat ==
    /\ question = Nothing
    /\ \E q \in Chat!MCQuestions, rows \in Chat!MCRowSets :
          question' = [about |-> "chat", asked |-> q, rows |-> rows]

\* KeepsToTheQuestion holds of every question, and whatever a model words.
AnswersKeepToTheQuestion ==
    [][question'.about = "chat" =>
          \A wording \in Chat!MCWordings :
             Chat!KeepsToTheQuestion(question'.asked, question'.rows, MCToday, wording)]_question

-----------------------------------------------------------------------------
(* Files: a robots.txt, and the two registries.                             *)

AskRobots ==
    /\ question = Nothing
    /\ \E response \in Files!MCResponses, path \in Files!MCPaths :
          question' = [about |-> "robots", response |-> response, path |-> path]

AskRegistry ==
    /\ question = Nothing
    /\ \E banks \in Files!MCBankFiles, file \in Files!MCSourceFiles :
          question' = [about |-> "registry", banks |-> banks, file |-> file]

\* LongestRuleDecides holds of every robots.txt in which no Crawl-delay stands
\* alone between two agent lines.
RobotsAreObeyed ==
    question.about = "robots" /\ DelaysKeepAside(question.response.lines) =>
        LongestRuleDecides(question.response, question.path)

\* LongestRuleDecides holds of every robots.txt whose agent lines name somebody.
\* (evaluate_robots says that it uses the precedence of groups and rules of
\* RFC 9309.)
RobotsFollowTheRFC ==
    question.about = "robots"
        /\ (\A i \in DOMAIN question.response.lines :
                IsAgentLine(question.response.lines[i]) => question.response.lines[i].agent # <<>>)
    => LongestRuleDecides(question.response, question.path)

\* EveryPageHasItsBank holds of every pair of registries.
PagesHaveTheirBank ==
    question.about = "registry" => EveryPageHasItsBank(question.banks, question.file, 2)

-----------------------------------------------------------------------------

Next ==
    \/ AskRates \/ AskFees \/ AskRewards \/ AskTerms \/ AskNumber \/ AskWindow
    \/ AskTable \/ AskPage \/ AskChat \/ AskRobots \/ AskRegistry \/ Answer

Spec == Init /\ [][Next]_question
=============================================================================

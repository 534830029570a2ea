---------------------------- MODULE Normalization ----------------------------
(***************************************************************************)
(* Amounts, rates, terms and dates read from one field of a Turkish page    *)
(* (domain/normalization.py).  The regular expressions are not modelled: a  *)
(* text is a record of what they find in it.  What is done with the finds,  *)
(* and every reason to abstain, in the order of the code, is.               *)
(*                                                                         *)
(* A number that the code holds as a Decimal is a pair of a mantissa and    *)
(* the count of its decimal places.                                         *)
(***************************************************************************)
EXTENDS Integers, Sequences, FiniteSets, SequencesExt, Folds

NotGiven == -1

Failure(status, reason) == [status |-> status, reason |-> reason]
Normalized(reason, value) == [status |-> "normalized", reason |-> reason, value |-> value]
IsNormalized(result) == result.status = "normalized"

Refusal(when, status, reason) == [when |-> when, result |-> Failure(status, reason)]

\* The first refusal that applies, or else the value.
FirstRefusal(refusals, value) ==
    LET applies == {i \in DOMAIN refusals : refusals[i].when}
    IN IF applies = {} THEN value ELSE refusals[Min(applies)].result

-----------------------------------------------------------------------------
(* Number tokens: groups of digits, each but the first after a separator.   *)

Digits(sep, length, value) == [sep |-> sep, length |-> length, value |-> value]

Glue(a, b) == Digits(a.sep, a.length + b.length, a.value * 10 ^ b.length + b.value)

\* What is kept of a token after each of its groups, and before the first.
Compacted(token) ==
    LET done[k \in 0..Len(token)] ==
            IF k = 0 THEN <<>>
            ELSE IF token[k].sep = "space"
            THEN [done[k - 1] EXCEPT ![Len(done[k - 1])] = Glue(@, token[k])]
            ELSE Append(done[k - 1], token[k])
    IN done

\* Without its spaces a token is digits, dots and commas.
Compact(token) == Compacted(token)[Len(token)]

CountOf(groups, sep) == Cardinality({i \in DOMAIN groups : groups[i].sep = sep})

\* The number that the digits of the first groups write.
Glued(groups) ==
    LET value[k \in DOMAIN groups] ==
            IF k = 1 THEN groups[1].value
                     ELSE value[k - 1] * 10 ^ groups[k].length + groups[k].value
    IN value

GluedValue(groups) == Glued(groups)[Len(groups)]

ThreeEach(groups) == \A i \in 2..Len(groups) : groups[i].length = 3

\* Fault: one comma before three digits groups thousands, as one dot does.
DecimalSeparator_CommaGroups(groups) ==
    LET last == Last(groups)
    IN IF CountOf(groups, "comma") > 0 /\ CountOf(groups, "dot") > 0 THEN last.sep
       ELSE IF CountOf(groups, "comma") = 1 /\ last.length # 3 THEN "comma"
       ELSE IF CountOf(groups, "dot") = 1 /\ last.length # 3 THEN "dot"
       ELSE "none"

\* One dot before three digits groups thousands in every currency; one comma
\* is always the decimal comma.
DecimalSeparator(groups) ==
    LET last == Last(groups)
    IN IF CountOf(groups, "comma") > 0 /\ CountOf(groups, "dot") > 0 THEN last.sep
       ELSE IF CountOf(groups, "comma") = 1 THEN "comma"
       ELSE IF CountOf(groups, "dot") = 1 /\ last.length # 3 THEN "dot"
       ELSE "none"

ScaleDigits(scale) ==
    CASE scale = "bin" -> 3 [] scale = "milyon" -> 6 [] scale = "milyar" -> 9 [] OTHER -> 0

\* _parse_decimal_token: <<>> for a ValueError.
ParseDecimalToken(token, negative, currency, scale) ==
    LET groups    == Compact(token)
        separator == DecimalSeparator(groups)
        integer   == IF separator = "none" THEN groups ELSE Front(groups)
        wrong     == \/ negative
                     \/ ~ThreeEach(integer)
                     \/ separator # "none" /\ CountOf(integer, separator) > 0
                     \/ separator = "dot" /\ CountOf(groups, "comma") = 0 /\ currency = "TRY"
    IN IF wrong THEN <<>>
       ELSE << [mantissa |-> GluedValue(groups) * 10 ^ ScaleDigits(scale),
                places   |-> IF separator = "none" THEN 0 ELSE Last(groups).length] >>

SameNumber(a, b) ==
    IF a.places >= b.places THEN a.mantissa = b.mantissa * 10 ^ (a.places - b.places)
                            ELSE a.mantissa * 10 ^ (b.places - a.places) = b.mantissa

-----------------------------------------------------------------------------
(* Money.                                                                   *)

\* "$" is the American dollar only for a caller who expects it.
CurrencyCode(marker, hint) ==
    IF marker = "$" THEN (IF hint = "USD" THEN "USD" ELSE "none") ELSE marker

\* text.numbers are the number tokens, text.currencies the currency words and
\* where each stands: right before the number, right after it, or apart.
MoneyCandidates(text, hint) ==
    LET adjacent == {i \in DOMAIN text.currencies : text.currencies[i].where # "apart"}
        Code(i)  == CurrencyCode(text.currencies[i].marker, hint)
    IN IF text.currencies = <<>>
       THEN {<<0, hint>>} \ {<<0, "none">>}
       ELSE {<<i, Code(i)>> : i \in {j \in adjacent :
                Code(j) # "none" /\ (hint = "none" \/ Code(j) = hint)}}

NormalizeMoney(text, hint, allowFeeWaiver) ==
    LET codes      == {CurrencyCode(text.currencies[i].marker, hint) :
                           i \in DOMAIN text.currencies}
        candidates == MoneyCandidates(text, hint)
        currency   == (CHOOSE c \in candidates : TRUE)[2]
        amount     == ParseDecimalToken(text.numbers[1].token, text.numbers[1].negative,
                                        currency, text.scale)
        waiver     == Normalized("explicit_fee_waiver_normalized",
                         [amount |-> [mantissa |-> 0, places |-> 0], currency |-> hint,
                          evidence |-> "inferred"])
        Read       == FirstRefusal(
            << Refusal("none" \in codes, "ambiguous", "currency_symbol_ambiguous"),
               Refusal(hint # "none" /\ codes \notin {{}, {hint}}, "ambiguous",
                       "currency_hint_conflict"),
               Refusal(codes = {} /\ hint = "none", "ambiguous", "money_currency_unknown"),
               Refusal(Len(text.numbers) # 1, "ambiguous", "multiple_money_values") >>,
            IF candidates = {} THEN Failure("invalid", "money_value_not_found")
            ELSE IF Cardinality(candidates) # 1
            THEN Failure("ambiguous", "multiple_money_values")
            ELSE IF amount = <<>> THEN Failure("invalid", "invalid_money_number")
            ELSE Normalized("money_normalized",
                    [amount |-> amount[1], currency |-> currency,
                     evidence |-> IF codes # {} THEN "stated" ELSE "inferred"]))
    IN FirstRefusal(
         << Refusal(text.missing, "missing", "money_missing"),
            Refusal(text.waiverNegated, "invalid", "fee_waiver_negated"),
            Refusal(text.waiver /\ ~allowFeeWaiver, "unsupported",
                    "fee_waiver_requires_fee_context"),
            Refusal(text.waiver /\ hint = "none", "ambiguous", "money_currency_unknown") >>,
         IF text.waiver THEN waiver ELSE Read)

-----------------------------------------------------------------------------
(* Rates.  text.found are the numbers next to a percent sign, a per-mille   *)
(* word or "baz puan"; a hint that is not given is "none".                  *)

RatePlaces(unit) ==
    CASE unit = "percent" -> 0 [] unit = "mille" -> 1 [] unit = "basis_point" -> 2

PercentOf(f) == [mantissa |-> f.number.mantissa, places |-> f.number.places + RatePlaces(f.unit)]

ValidRateNumber(f) == ~f.negative /\ f.number.mantissa <= 1000 * 10 ^ f.number.places

\* The first phrase that is found names the kind; an amount near a bare
\* "finansman oranı" makes it unclear whether the rate is a price.
RateKindOrder == <<"annual_cost_rate", "ltv_ratio", "profit_share_distribution_rate",
                   "historical_return_rate", "discount_rate", "reward_rate",
                   "financing_profit_rate">>

InferRateKind(text) ==
    LET named == {i \in DOMAIN RateKindOrder : RateKindOrder[i] \in text.kindPhrases}
        kind  == RateKindOrder[Min(named)]
    IN IF named = {} THEN "unknown"
       ELSE IF kind = "financing_profit_rate" /\ ~text.saysProfit /\ text.amountNear
       THEN "unknown" ELSE kind

RatePeriodOrder == <<"term_total", "annual", "monthly">>

InferRatePeriod(text) ==
    LET named == {i \in DOMAIN RatePeriodOrder : RatePeriodOrder[i] \in text.periodPhrases}
    IN IF named = {} THEN "unspecified" ELSE RatePeriodOrder[Min(named)]

InferGrossNet(text) ==
    IF Cardinality(text.grossNet) = 1 THEN CHOOSE b \in text.grossNet : TRUE ELSE "unspecified"

InferRateBasisLabel(text) ==
    IF Cardinality(text.labels) = 1 THEN CHOOSE l \in text.labels : TRUE ELSE "none"

Contradicts(hint, inferred, unknown) == hint # "none" /\ inferred # unknown /\ hint # inferred

HintOr(hint, inferred) == IF hint # "none" THEN hint ELSE inferred

NormalizeRate(text, hints) ==
    LET found == text.found IN
    FirstRefusal(
      << Refusal(text.missing, "missing", "rate_missing"),
         Refusal(\E f \in found : ~ValidRateNumber(f), "invalid", "invalid_rate_number"),
         Refusal(found = {}, "invalid", "rate_value_not_found"),
         Refusal(Cardinality(found) # 1 \/ text.bounded, "ambiguous",
                 "non_exact_or_multiple_rates"),
         Refusal(Contradicts(hints.kind, InferRateKind(text), "unknown"), "ambiguous",
                 "rate_kind_hint_conflict"),
         Refusal(Contradicts(hints.period, InferRatePeriod(text), "unspecified"), "ambiguous",
                 "rate_period_hint_conflict"),
         Refusal(Contradicts(hints.grossNet, InferGrossNet(text), "unspecified"), "ambiguous",
                 "gross_net_hint_conflict") >>,
      Normalized("rate_normalized",
        [percent  |-> PercentOf(CHOOSE f \in found : TRUE),
         kind     |-> HintOr(hints.kind, InferRateKind(text)),
         period   |-> HintOr(hints.period, InferRatePeriod(text)),
         grossNet |-> HintOr(hints.grossNet, InferGrossNet(text)),
         label    |-> HintOr(hints.label, InferRateBasisLabel(text)),
         term     |-> hints.term,
         evidence |-> IF /\ {hints.kind, hints.period, hints.grossNet, hints.label} = {"none"}
                         /\ hints.term = NotGiven
                      THEN "stated" ELSE "inferred"]))

-----------------------------------------------------------------------------
(* Terms, in months.  A quantity is a Decimal and a unit.                   *)

MaxMonths == 1200

\* _months: <<>> for a ValueError.
Months(quantity) ==
    LET perUnit == IF quantity.unit = "month" THEN 1 ELSE 12
        scaled  == quantity.number.mantissa * perUnit
        one     == 10 ^ quantity.number.places
    IN IF scaled % one # 0 \/ scaled <= 0 \/ scaled \div one > MaxMonths
       THEN <<>> ELSE << scaled \div one >>

Term(minimum, maximum) == [minimum |-> minimum, maximum |-> maximum]

\* A range names the unit of its first number, or else the second one's.
TermRangeOf(from, to) ==
    LET first   == IF from.unit = "none" THEN [from EXCEPT !.unit = to.unit] ELSE from
        minimum == Months(first)
        maximum == Months(to)
    IN IF minimum = <<>> \/ maximum = <<>> THEN Failure("invalid", "invalid_term_range")
       ELSE IF minimum[1] > maximum[1] THEN Failure("invalid", "reversed_term_range")
       ELSE Normalized("term_range_normalized", << Term(minimum[1], maximum[1]) >>)

MaximumTerm(quantity) ==
    IF Months(quantity) = <<>> THEN Failure("invalid", "invalid_term_maximum")
    ELSE Normalized("maximum_term_normalized", << Term(NotGiven, Months(quantity)[1]) >>)

MixedTerm(years, months) ==
    LET y == Months(years) m == Months(months) total == y[1] + m[1]
    IN IF y = <<>> \/ m = <<>> THEN Failure("invalid", "invalid_mixed_term")
       ELSE IF total > MaxMonths THEN Failure("invalid", "term_out_of_range")
       ELSE Normalized("mixed_term_normalized", << Term(total, total) >>)

ExactTerm(quantities) ==
    IF quantities = <<>> THEN Failure("invalid", "term_value_not_found")
    ELSE IF Len(quantities) # 1 THEN Failure("ambiguous", "multiple_term_values")
    ELSE IF Months(quantities[1]) = <<>> THEN Failure("invalid", "invalid_term_number")
    ELSE LET m == Months(quantities[1])[1]
         IN Normalized("exact_term_normalized", << Term(m, m) >>)

\* dict.fromkeys: each option once, where it came first.
FirstOccurrences(seq) ==
    FoldLeft(LAMBDA kept, x : IF Contains(kept, x) THEN kept ELSE Append(kept, x), <<>>, seq)

\* text.options are all whole numbers of a text that lists choices or
\* installments, <<>> in another text; text.range and text.mixed hold two
\* quantities, text.maximum one, when the text has that form.
NormalizeTerms(text) ==
    LET discrete == Len(text.options) >= 2 /\ ToSet(text.options) \subseteq 1..MaxMonths
    IN FirstRefusal(
         << Refusal(text.missing, "missing", "term_missing"),
            Refusal(text.daysOrWeeks, "unsupported", "non_month_term_unit"),
            Refusal(text.openEnded, "unsupported", "open_ended_term_not_representable"),
            Refusal(text.countsInstallments, "unsupported", "installment_count_is_not_term"),
            Refusal(text.deferral, "ambiguous", "multiple_term_roles") >>,
         IF discrete
         THEN LET kept == FirstOccurrences(text.options)
              IN Normalized("discrete_terms_normalized",
                            [i \in DOMAIN kept |-> Term(kept[i], kept[i])])
         ELSE IF text.range # <<>>   THEN TermRangeOf(text.range[1], text.range[2])
         ELSE IF text.maximum # <<>> THEN MaximumTerm(text.maximum[1])
         ELSE IF text.mixed # <<>>   THEN MixedTerm(text.mixed[1], text.mixed[2])
         ELSE ExactTerm(text.exact))

NormalizeTerm(text) ==
    LET result == NormalizeTerms(text)
    IN IF ~IsNormalized(result) THEN result
       ELSE IF Len(result.value) # 1 THEN Failure("ambiguous", "multiple_discrete_terms")
       ELSE Normalized(result.reason, result.value[1])

-----------------------------------------------------------------------------
(* Calendar dates.  A part of a text is a day, a month and a year or        *)
(* NotGiven.                                                                *)

Leap(year) == year % 4 = 0 /\ (year % 100 # 0 \/ year % 400 = 0)

LastDayOf(year, month) ==
    CASE month = 2 -> IF Leap(year) THEN 29 ELSE 28
      [] month \in {4, 6, 9, 11} -> 30
      [] OTHER -> 31

Date(year, month, day) == [year |-> year, month |-> month, day |-> day]

\* The years that a date can have.
Years == 1..9999

IsRealDate(d) ==
    /\ d.year \in Years /\ d.month \in 1..12
    /\ d.day \in 1..LastDayOf(d.year, d.month)

\* A number that orders dates as the calendar does; a year is OrdinalYear long.
OrdinalYear == 372
Ordinal(d)  == (d.year * 12 + d.month - 1) * 31 + d.day

DateFromParts(part, year) == Date(year, part.month, part.day)

NextDay(d) ==
    IF d.day < LastDayOf(d.year, d.month) THEN [d EXCEPT !.day = @ + 1]
    ELSE IF d.month < 12 THEN Date(d.year, d.month + 1, 1)
    ELSE Date(d.year + 1, 1, 1)

YearOr(part, reference) == IF part.year = NotGiven THEN reference[1].year ELSE part.year

\* A part with a year that is on no calendar makes the whole text invalid.
SomePartUnreal(parts) ==
    \E i \in DOMAIN parts :
        parts[i].year # NotGiven /\ ~IsRealDate(DateFromParts(parts[i], parts[i].year))

\* reference is <<>> or the day the page was read.
NormalizeDate(text, reference) ==
    LET part == text.dates[1]
        read == DateFromParts(part, YearOr(part, reference))
    IN IF text.missing THEN Failure("missing", "date_missing")
       ELSE IF text.relative # "no"
       THEN IF reference = <<>> THEN Failure("ambiguous", "relative_date_needs_reference")
            ELSE Normalized("relative_date_normalized",
                    IF text.relative = "today" THEN reference[1] ELSE NextDay(reference[1]))
       ELSE FirstRefusal(
              << Refusal(SomePartUnreal(text.dates), "invalid", "invalid_calendar_date"),
                 Refusal(Len(text.dates) > 1, "ambiguous", "multiple_dates"),
                 Refusal(text.dates = <<>> /\ text.monthYear, "ambiguous",
                         "date_precision_ambiguous"),
                 Refusal(text.dates = <<>>, "invalid", "date_value_not_found") >>,
              IF part.year = NotGiven /\ reference = <<>>
              THEN Failure("ambiguous", "date_year_missing")
              ELSE IF ~IsRealDate(read) THEN Failure("invalid", "invalid_calendar_date")
              ELSE Normalized("date_normalized", read))

-----------------------------------------------------------------------------
(* Validity windows.                                                        *)

Earlier(a, b) == a.month < b.month \/ (a.month = b.month /\ a.day <= b.day)

\* Fault: a missing year is the year that is stated.
ResolveDatePair_SameYear(first, second, reference) ==
    LET years == {first.year, second.year} \ {NotGiven}
        pair  == << DateFromParts(first, IF first.year # NotGiven THEN first.year ELSE second.year),
                    DateFromParts(second, IF second.year # NotGiven THEN second.year ELSE first.year) >>
    IN IF years = {} THEN <<>> ELSE pair

\* _resolve_date_pair: the year that only one of two dates states is that of
\* the other one, or the year next to it where the window turns the year.
ResolveDatePair(first, second, reference) ==
    LET neither == first.year = NotGiven /\ second.year = NotGiven
        firstYear ==
            IF neither THEN reference[1].year
            ELSE IF first.year # NotGiven THEN first.year
            ELSE IF Earlier(first, second) THEN second.year ELSE second.year - 1
        secondYear ==
            IF neither THEN reference[1].year
            ELSE IF second.year # NotGiven THEN second.year
            ELSE IF Earlier(first, second) THEN first.year ELSE first.year + 1
        pair == << DateFromParts(first, firstYear), DateFromParts(second, secondYear) >>
    IN IF neither /\ reference = <<>> THEN <<>>
       ELSE IF \E d \in ToSet(pair) : ~IsRealDate(d) THEN <<>> ELSE pair

Window(starts, ends) == [starts |-> starts, ends |-> ends]

DatedWindow(reason, starts, ends) ==
    IF ~IsRealDate(starts) \/ ~IsRealDate(ends)
    THEN Failure("invalid", "invalid_validity_window")
    ELSE IF Ordinal(starts) > Ordinal(ends) THEN Failure("invalid", "reversed_validity_window")
    ELSE Normalized(reason, Window(<<starts>>, <<ends>>))

TwoDates(text, reference) ==
    LET pair == ResolveDatePair(text.dates[1], text.dates[2], reference)
    IN FirstRefusal(
         << Refusal(text.twoRoles, "ambiguous", "multiple_validity_roles"),
            Refusal(~text.connected, "ambiguous", "multiple_validity_dates") >>,
         IF pair = <<>> THEN Failure("ambiguous", "validity_year_missing")
         ELSE IF Ordinal(pair[1]) > Ordinal(pair[2])
         THEN Failure("invalid", "reversed_validity_window")
         ELSE Normalized("validity_range_normalized", Window(<<pair[1]>>, <<pair[2]>>)))

\* "until" is looked for before "from".
OneDate(text, reference) ==
    LET part     == text.dates[1]
        boundary == DateFromParts(part, YearOr(part, reference))
        Open(window) == Normalized("open_validity_normalized", window)
    IN IF part.year = NotGiven /\ reference = <<>>
       THEN Failure("ambiguous", "validity_year_missing")
       ELSE IF ~IsRealDate(boundary) THEN Failure("invalid", "invalid_validity_window")
       ELSE IF "until" \in text.roles THEN Open(Window(<<>>, <<boundary>>))
       ELSE IF "from" \in text.roles  THEN Open(Window(<<boundary>>, <<>>))
       ELSE Failure("ambiguous", "validity_boundary_role_unknown")

\* text.sameMonth is "5-20 May 2026" and text.fullMonth "all of May 2026", whose
\* year 0000 the constructor of a date raises on.
NormalizeValidity(text, reference) ==
    LET same == text.sameMonth[1]
        full == text.fullMonth[1]
        MonthEnd(year, month) == Date(year, month, LastDayOf(year, month))
    IN IF text.missing THEN Failure("missing", "validity_missing")
       ELSE IF text.timeOfDay THEN Failure("unsupported", "time_of_day_not_representable")
       ELSE IF text.thisMonth
       THEN IF reference = <<>> THEN Failure("ambiguous", "relative_date_needs_reference")
            ELSE Normalized("relative_validity_normalized",
                   Window(<<>>, << MonthEnd(reference[1].year, reference[1].month) >>))
       ELSE IF text.sameMonth # <<>>
       THEN DatedWindow("validity_range_normalized",
              Date(same.year, same.month, same.first), Date(same.year, same.month, same.second))
       ELSE IF text.fullMonth # <<>>
       THEN IF full.year = 0 THEN Failure("raised", "ValueError")
            ELSE Normalized("full_month_validity_normalized",
                   Window(<< Date(full.year, full.month, 1) >>,
                          << MonthEnd(full.year, full.month) >>))
       ELSE IF SomePartUnreal(text.dates) THEN Failure("invalid", "invalid_validity_window")
       ELSE IF Len(text.dates) = 2 THEN TwoDates(text, reference)
       ELSE IF text.dates = <<>> /\ text.monthYear
       THEN Failure("ambiguous", "validity_precision_ambiguous")
       ELSE IF Len(text.dates) # 1 THEN Failure("invalid", "validity_date_not_found")
       ELSE OneDate(text, reference)

-----------------------------------------------------------------------------
(* What is expected of it.                                                  *)

\* A number written the Turkish way, in groups of three digits with dots or
\* spaces between them and after a comma its decimals, is read, and as that
\* number: _parse_decimal_token neither refuses it nor moves the decimal point.
NumberReadsBack(token, written, currency, scale) ==
    LET read == ParseDecimalToken(token, FALSE, currency, scale)
    IN /\ read # <<>>
       /\ SameNumber(read[1], [mantissa |-> written.mantissa * 10 ^ ScaleDigits(scale),
                               places   |-> written.places])

\* A window read from a page has real dates in their order; when the page
\* gives a year to one of two dates only, the other year is found such that the
\* window is not refused as reversed and is shorter than a year.
WindowsAreOrdered(text, reference) ==
    LET result == NormalizeValidity(text, reference)
        window == result.value
        dates  == ToSet(window.starts) \cup ToSet(window.ends)
        oneYear == /\ text.sameMonth = <<>> /\ Len(text.dates) = 2
                   /\ Cardinality({i \in 1..2 : text.dates[i].year = NotGiven}) = 1
    IN /\ IsNormalized(result) =>
            /\ dates # {} /\ \A d \in dates : IsRealDate(d)
            /\ window.starts # <<>> /\ window.ends # <<>> =>
                 /\ Ordinal(window.starts[1]) <= Ordinal(window.ends[1])
                 /\ oneYear => Ordinal(window.ends[1]) - Ordinal(window.starts[1]) < OrdinalYear
       /\ oneYear => result.reason # "reversed_validity_window"
=============================================================================

------------------------------ MODULE Comparison ------------------------------
(***************************************************************************)
(* compare_campaigns (domain/comparison.py): a pure function of records, of *)
(* dimensions and of the date they are compared at.                         *)
(*                                                                         *)
(* A record has the fields of CampaignRecord that are read here.  An absent *)
(* symbol is None, an absent number Absent, and a yes/no answer is "yes",   *)
(* "no" or None; "settled" stands for an EvidenceStatus other than unknown  *)
(* and ambiguous; labels are canonical already, "" when there is none.  An  *)
(* instant is a number, InstantsPerDay of them make a day.  What is         *)
(* displayed is left out, and so is the digest, which tells apart what the  *)
(* report tells apart.                                                      *)
(***************************************************************************)
EXTENDS Integers, Sequences, FiniteSets, SequencesExt

None   == "none"
Absent == -1
InstantsPerDay == 2
Day(instant) == instant \div InstantsPerDay

Dimensions == {"rate", "term", "fee", "reward", "eligibility"}

-----------------------------------------------------------------------------
(* The gates of every dimension.                                            *)

Gate(closed, reason) == [closed |-> closed, reason |-> reason]

\* The reason of the first closed gate.
FirstClosed(gates) ==
    LET closed == {i \in DOMAIN gates : gates[i].closed}
    IN IF closed = {} THEN None ELSE gates[Min(closed)].reason

\* An optional axis: nobody states it, or all state the same.
AxisGates(values, unknown, unknownReason, mismatchReason) ==
    << Gate(unknown \in values /\ values # {unknown}, unknownReason),
       Gate(Cardinality(values) > 1, mismatchReason) >>

ValidityStated(r) ==
    /\ r.validity.stated /\ r.validity.settled
    /\ r.validity.starts # Absent \/ r.validity.ends # Absent

ActiveOn(r, day) ==
    /\ r.validity.starts = Absent \/ day >= r.validity.starts
    /\ r.validity.ends = Absent \/ day <= r.validity.ends

\* A point in time is compared exactly, a date by the day.
ObservedBy(r, asOf) ==
    IF asOf.exact THEN r.observed <= asOf.at
                  ELSE Day(r.observed) <= Day(asOf.at)

FirstGlobalIncompatibility(records, asOf) ==
    LET All(field)  == {records[i][field] : i \in DOMAIN records}
        families    == All("family")
        stated      == {i \in DOMAIN records : ValidityStated(records[i])}
        financing   == families = {"financing"}
    IN FirstClosed(
         << Gate(All("status") # {"validated"}, "record_not_validated"),
            Gate(families \cap {"unknown", "other"} # {}, "product_family_unknown"),
            Gate(Cardinality(families) # 1, "product_family_mismatch"),
            Gate(None \in All("currency"), "currency_context_unknown"),
            Gate(Cardinality(All("currency")) # 1, "currency_context_mismatch"),
            Gate({} \in All("segments"), "customer_segment_context_unknown"),
            Gate(Cardinality(All("segments")) # 1, "customer_segment_context_mismatch") >>
         \o AxisGates(All("channel"), "unknown", "sales_channel_context_unknown",
                      "sales_channel_context_mismatch")
         \o AxisGates(All("newCustomer"), None, "new_customer_context_unknown",
                      "new_customer_context_mismatch")
         \o AxisGates(All("mechanism"), None, "product_mechanism_context_unknown",
                      "product_mechanism_context_mismatch")
         \o (IF financing
             THEN AxisGates(All("secured"), None, "security_context_unknown",
                            "security_context_mismatch")
             ELSE <<>>)
         \o << Gate(~asOf.given, "as_of_required"),
               Gate(\E i \in DOMAIN records : ~ObservedBy(records[i], asOf),
                    "not_observed_as_of"),
               Gate(stated \notin {{}, DOMAIN records}, "validity_unknown"),
               Gate(\E i \in stated : ~ActiveOn(records[i], Day(asOf.at)),
                    "campaign_not_active_as_of") >>)

\* The axes that were let pass because nobody states them.
AbsenceNotes(records) ==
    LET All(field) == {records[i][field] : i \in DOMAIN records}
    IN {axis \in {"channel", "newCustomer", "mechanism"} :
            All(axis) \in {{None}, {"unknown"}}}
       \cup {axis \in {"secured"} : All("family") = {"financing"} /\ All(axis) = {None}}
       \cup {axis \in {"validity"} : \A i \in DOMAIN records : ~ValidityStated(records[i])}

-----------------------------------------------------------------------------
(* Outcomes.                                                                *)

Rejected(reason) ==
    [comparable |-> FALSE, rank |-> Absent, value |-> Absent, unit |-> None,
     reason |-> reason]

RejectAll(records, reason) == [i \in DOMAIN records |-> Rejected(reason)]

RejectOwnAndPeers(records, affected, own, peer) ==
    [i \in DOMAIN records |-> Rejected(IF i \in affected THEN own ELSE peer)]

\* field_pointer.startswith(prefix): the digits of an index are a prefix of
\* the digits of the indexes ten times as large.
PointsBelow(pointer, list, index) ==
    /\ pointer.list = list
    /\ \/ pointer.index = index
       \/ index # 0 /\ pointer.index \div 10 = index

HasEvidence(r, list, index) == \E p \in r.evidence : PointsBelow(p, list, index)
HasEvidenceFor(r, list)     == \E p \in r.evidence : p.list = list

\* A waiver precedes every price; amounts are not negative.
RankKey(choice) == IF choice.waived THEN -1 ELSE choice.value

\* Dense ranks of the chosen values.
Rank(choices, higherIsBetter) ==
    LET keys == {RankKey(choices[i]) : i \in DOMAIN choices}
        Better(k) == {x \in keys : IF higherIsBetter THEN x > k ELSE x < k}
    IN [i \in DOMAIN choices |->
          [comparable |-> TRUE,
           rank   |-> 1 + Cardinality(Better(RankKey(choices[i]))),
           value  |-> choices[i].value, unit |-> choices[i].unit,
           reason |-> IF higherIsBetter THEN "ranked_higher_is_better"
                                        ELSE "ranked_lower_is_better"]]

Choice(value, unit, waived) == [value |-> value, unit |-> unit, waived |-> waived]

-----------------------------------------------------------------------------
(* What rates, fees and rewards have in common: a value that is not         *)
(* complete rejects everybody; then exactly one signature is common to all, *)
(* one value of each record has it, and that value has evidence.            *)

CommonTo(sets) == {x \in UNION {sets[i] : i \in DOMAIN sets} :
                      \A i \in DOMAIN sets : x \in sets[i]}

\* issues[i] is the sequence of what is wrong with the values of record i.
FirstIssue(issues) ==
    LET Wrong(i) == {k \in DOMAIN issues[i] : issues[i][k] # None}
        wrong    == {i \in DOMAIN issues : Wrong(i) # {}}
        first    == Min(wrong)
    IN IF wrong = {} THEN None ELSE issues[first][Min(Wrong(first))]

ExactlyOne(set) == \E x \in set : set = {x}

\* Fault: with several signatures in common, the first one is taken.
SoleSignature_Any(common) == common # {}

SoleSignature(common) == ExactlyOne(common)

\* matches[i] are the places in the list of record i that have the signature,
\* choices[i] is what such a place offers.
CompareValues(records, list, issue, common, mismatch, matches, choices, higher, reasons) ==
    LET missing  == {i \in DOMAIN records : records[i][list] = <<>>}
        Place(i) == CHOOSE k \in matches[i] : TRUE
        unproven == {i \in DOMAIN records : ~HasEvidence(records[i], list, Place(i) - 1)}
    IN IF missing # {}
       THEN RejectOwnAndPeers(records, missing, reasons.missing, reasons.peerMissing)
       ELSE IF issue # None            THEN RejectAll(records, issue)
       ELSE IF common = {}             THEN RejectAll(records, mismatch)
       ELSE IF ~SoleSignature(common)  THEN RejectAll(records, reasons.manySignatures)
       ELSE IF \E i \in DOMAIN records : ~ExactlyOne(matches[i])
       THEN RejectAll(records, reasons.manyValues)
       ELSE IF unproven # {}
       THEN RejectOwnAndPeers(records, unproven, reasons.unproven, reasons.peerUnproven)
       ELSE Rank([i \in DOMAIN records |-> choices[i][Place(i)]], higher)

-----------------------------------------------------------------------------
(* Rates.                                                                   *)

RateIssue(rate) ==
    FirstClosed(
      << Gate(~rate.settled, "rate_basis_unknown"),
         Gate(rate.kind = "unknown", "rate_kind_unknown") >>
      \o (IF rate.kind = "ltv_ratio" THEN <<>> ELSE
      << Gate(rate.period = "unspecified", "rate_period_unknown"),
         Gate(rate.kind \in {"financing_profit_rate", "annual_cost_rate"} /\ rate.term <= 0,
              "rate_term_context_unknown"),
         Gate(/\ rate.kind \in {"profit_share_distribution_rate", "historical_return_rate"}
              /\ rate.grossNet = "unspecified", "rate_gross_net_basis_unknown"),
         Gate(/\ rate.kind = "historical_return_rate"
              /\ rate.refStarts = Absent \/ rate.refEnds = Absent,
              "rate_reference_window_unknown") >>))

RateSignature(rate) ==
    << rate.kind, rate.period, rate.grossNet, rate.refStarts, rate.refEnds, rate.term,
       rate.label >>

RateMismatchReason(records) ==
    LET Sets(Op(_)) == [i \in DOMAIN records |-> {Op(x) : x \in ToSet(records[i].rates)}]
        Kind(rate)   == rate.kind
        Period(rate) == <<rate.kind, rate.period>>
    IN IF CommonTo(Sets(Kind)) = {} THEN "rate_kind_mismatch"
       ELSE IF CommonTo(Sets(Period)) = {} THEN "rate_period_mismatch"
       ELSE "rate_basis_mismatch"

HigherRateIsBetter(kind) ==
    kind \in {"profit_share_distribution_rate", "historical_return_rate",
              "discount_rate", "reward_rate", "ltv_ratio"}

CompareRates(records) ==
    LET Each(i)   == DOMAIN records[i].rates
        common    == CommonTo([i \in DOMAIN records |->
                                 {RateSignature(x) : x \in ToSet(records[i].rates)}])
        signature == CHOOSE s \in common : TRUE
    IN CompareValues(records, "rates",
         FirstIssue([i \in DOMAIN records |->
                       [k \in Each(i) |-> RateIssue(records[i].rates[k])]]),
         common, RateMismatchReason(records),
         [i \in DOMAIN records |->
            {k \in Each(i) : RateSignature(records[i].rates[k]) = signature}],
         [i \in DOMAIN records |->
            [k \in Each(i) |-> Choice(records[i].rates[k].percent, "percent", FALSE)]],
         HigherRateIsBetter(signature[1]),
         [missing |-> "rate_missing", peerMissing |-> "peer_rate_missing",
          manySignatures |-> "multiple_rate_signatures",
          manyValues |-> "multiple_rate_values_for_signature",
          unproven |-> "rate_evidence_missing",
          peerUnproven |-> "peer_rate_evidence_missing"])

-----------------------------------------------------------------------------
(* Terms: the longest one, whatever list entry it comes from.               *)

CompareTerms(records) ==
    LET missing   == {i \in DOMAIN records : records[i].terms = <<>>}
        unsettled == \E i \in DOMAIN records :
                        \E t \in ToSet(records[i].terms) : ~t.settled
        unproven  == {i \in DOMAIN records : ~HasEvidenceFor(records[i], "terms")}
        Longest(i) == Max({t.maximum : t \in ToSet(records[i].terms)})
    IN IF missing # {}
       THEN RejectOwnAndPeers(records, missing, "term_missing", "peer_term_missing")
       ELSE IF unsettled THEN RejectAll(records, "term_ambiguous")
       ELSE IF unproven # {}
       THEN RejectOwnAndPeers(records, unproven, "term_evidence_missing",
                              "peer_term_evidence_missing")
       ELSE Rank([i \in DOMAIN records |-> Choice(Longest(i), "months", FALSE)], TRUE)

-----------------------------------------------------------------------------
(* Fees.  fee.money is <<>> or one money, fee.rate <<>> or one rate.        *)

FeeIssue(fee) ==
    LET rateUnclear ==
            /\ fee.rate # <<>>
            /\ \/ ~fee.rate[1].settled
               \/ fee.rate[1].period = "unspecified"
               \/ fee.rate[1].label = ""
    IN FirstClosed(
         << Gate(~fee.settled, "fee_basis_unknown"),
            Gate(fee.kind = "unknown", "fee_kind_unknown"),
            Gate(fee.basis = "unspecified", "fee_basis_unknown"),
            Gate(~fee.waived /\ (fee.money = <<>>) = (fee.rate = <<>>), "fee_not_numeric"),
            Gate(~fee.waived /\ rateUnclear, "fee_rate_context_unknown") >>)

FeePair(fee) == <<fee.kind, fee.basis>>

\* Fault: a sum of money is its amount, whatever the currency.
PriceOf_AnyCurrency(fee) ==
    IF fee.money # <<>> THEN <<"money">>
    ELSE <<"rate", fee.rate[1].period, fee.rate[1].grossNet, fee.rate[1].label>>

\* The value part of the signature of a fee that is charged.
PriceOf(fee) ==
    IF fee.money # <<>> THEN <<"money", fee.money[1].currency>>
    ELSE <<"rate", fee.rate[1].period, fee.rate[1].grossNet, fee.rate[1].label>>

Waiver == <<"waived">>

FeeSignature(fee) == << FeePair(fee), IF fee.waived THEN Waiver ELSE PriceOf(fee) >>

PairOf(signature) == signature[1]

\* A record serves a priced signature with such a price or by waiving that
\* kind of fee; a waiver is a signature of its own only where nobody prices it.
CommonFeeSignatures(records) ==
    LET Fees(i)   == ToSet(records[i].fees)
        priced    == [i \in DOMAIN records |-> {FeeSignature(f) : f \in {x \in Fees(i) : ~x.waived}}]
        waived    == [i \in DOMAIN records |-> {FeePair(f) : f \in {x \in Fees(i) : x.waived}}]
        anyPriced == UNION {priced[i] : i \in DOMAIN records}
    IN {s \in anyPriced : \A i \in DOMAIN records :
            s \in priced[i] \/ PairOf(s) \in waived[i]}
       \cup {<<p, Waiver>> : p \in {x \in CommonTo(waived) : \A s \in anyPriced : PairOf(s) # x}}

FeeMatchesSignature(fee, signature) ==
    IF fee.waived THEN FeePair(fee) = PairOf(signature) ELSE FeeSignature(fee) = signature

FeeValueModes(fee) ==
    IF fee.waived THEN {"money", "rate"}
    ELSE IF fee.money # <<>> THEN {"money"} ELSE {"rate"}

FeeMismatchReason(records) ==
    LET Fees(i) == ToSet(records[i].fees)
        kinds == [i \in DOMAIN records |-> {f.kind : f \in Fees(i)}]
        pairs == [i \in DOMAIN records |-> {FeePair(f) : f \in Fees(i)}]
        modes == [i \in DOMAIN records |->
                    UNION {{<<FeePair(f), m>> : m \in FeeValueModes(f)} : f \in Fees(i)}]
    IN IF CommonTo(kinds) = {} THEN "fee_kind_mismatch"
       ELSE IF CommonTo(pairs) = {} THEN "fee_basis_mismatch"
       ELSE IF CommonTo(modes) = {} THEN "fee_value_type_mismatch"
       ELSE "fee_currency_mismatch"

FeeChoice(fee) ==
    IF fee.waived THEN Choice(Absent, None, TRUE)
    ELSE IF fee.money # <<>> THEN Choice(fee.money[1].amount, fee.money[1].currency, FALSE)
    ELSE Choice(fee.rate[1].percent, "percent", FALSE)

CompareFees(records) ==
    LET Each(i)   == DOMAIN records[i].fees
        common    == CommonFeeSignatures(records)
        signature == CHOOSE s \in common : TRUE
    IN CompareValues(records, "fees",
         FirstIssue([i \in DOMAIN records |->
                       [k \in Each(i) |-> FeeIssue(records[i].fees[k])]]),
         common, FeeMismatchReason(records),
         [i \in DOMAIN records |->
            {k \in Each(i) : FeeMatchesSignature(records[i].fees[k], signature)}],
         [i \in DOMAIN records |-> [k \in Each(i) |-> FeeChoice(records[i].fees[k])]],
         FALSE,
         [missing |-> "fee_missing", peerMissing |-> "peer_fee_missing",
          manySignatures |-> "multiple_fee_signatures",
          manyValues |-> "multiple_fee_signatures",
          unproven |-> "fee_evidence_missing",
          peerUnproven |-> "peer_fee_evidence_missing"])

-----------------------------------------------------------------------------
(* Rewards.  points is a number or Absent; minimumSpend and maximumMoney    *)
(* are <<>> or one money, and a money is told apart with the digits it was  *)
(* written with, as str() of a decimal does: 100 and 100.00 differ.         *)

RewardIssue(reward) ==
    FirstClosed(
      << Gate(~reward.settled \/ reward.basis = "unspecified", "reward_basis_unknown"),
         Gate(reward.kind = "points" /\ reward.program = None, "reward_program_unknown"),
         Gate(\/ reward.kind = "money" /\ reward.money = <<>>
              \/ reward.kind = "points" /\ reward.points = Absent
              \/ reward.kind = "discount" /\ reward.money = <<>> /\ reward.rate = <<>>,
              "reward_not_numeric"),
         Gate(reward.rate # <<>> /\ RateIssue(reward.rate[1]) # None,
              "reward_rate_context_unknown"),
         Gate(reward.kind \in {"free_service", "other"}, "reward_not_numeric") >>)

RewardSignature(reward) ==
    << reward.kind, reward.basis,
       CASE reward.kind = "points" -> <<"points", reward.program>>
         [] reward.kind # "points" /\ reward.money # <<>> -> <<"money", reward.money[1].currency>>
         [] OTHER -> <<"rate", RateSignature(reward.rate[1])>>,
       reward.minimumSpend, reward.maximumMoney, reward.maximumPoints >>

RewardMismatchReason(records) ==
    LET Sets(Op(_)) == [i \in DOMAIN records |-> {Op(x) : x \in ToSet(records[i].rewards)}]
        Kind(x)    == x.kind
        Basis(x)   == <<x.kind, x.basis>>
        Program(x) == <<x.kind, x.program>>
    IN IF CommonTo(Sets(Kind)) = {} THEN "reward_kind_mismatch"
       ELSE IF CommonTo(Sets(Basis)) = {} THEN "reward_basis_mismatch"
       ELSE IF CommonTo(Sets(Program)) = {} THEN "reward_program_mismatch"
       ELSE "reward_context_mismatch"

RewardChoice(reward) ==
    IF reward.money # <<>> THEN Choice(reward.money[1].amount, reward.money[1].currency, FALSE)
    ELSE IF reward.points # Absent THEN Choice(reward.points, "points", FALSE)
    ELSE Choice(reward.rate[1].percent, "percent", FALSE)

CompareRewards(records) ==
    LET Each(i)   == DOMAIN records[i].rewards
        common    == CommonTo([i \in DOMAIN records |->
                                 {RewardSignature(x) : x \in ToSet(records[i].rewards)}])
        signature == CHOOSE s \in common : TRUE
    IN CompareValues(records, "rewards",
         FirstIssue([i \in DOMAIN records |->
                       [k \in Each(i) |-> RewardIssue(records[i].rewards[k])]]),
         common, RewardMismatchReason(records),
         [i \in DOMAIN records |->
            {k \in Each(i) : RewardSignature(records[i].rewards[k]) = signature}],
         [i \in DOMAIN records |-> [k \in Each(i) |-> RewardChoice(records[i].rewards[k])]],
         TRUE,
         [missing |-> "reward_missing", peerMissing |-> "peer_reward_missing",
          manySignatures |-> "multiple_reward_signatures",
          manyValues |-> "multiple_reward_signatures",
          unproven |-> "reward_evidence_missing",
          peerUnproven |-> "peer_reward_evidence_missing"])

-----------------------------------------------------------------------------
(* The report.                                                              *)

CompareEligibility(records) ==
    LET unproven == {i \in DOMAIN records :
                        ~HasEvidenceFor(records[i], "comparison_context")}
    IN IF unproven # {}
       THEN RejectOwnAndPeers(records, unproven, "eligibility_evidence_missing",
                              "peer_eligibility_evidence_missing")
       ELSE [i \in DOMAIN records |->
               [comparable |-> TRUE, rank |-> Absent, value |-> Absent, unit |-> None,
                reason |-> "eligibility_context_compatible"]]

CompareDimension(records, dimension) ==
    CASE dimension = "rate"   -> CompareRates(records)
      [] dimension = "term"   -> CompareTerms(records)
      [] dimension = "fee"    -> CompareFees(records)
      [] dimension = "reward" -> CompareRewards(records)
      [] dimension = "eligibility" -> CompareEligibility(records)

\* records is sorted by campaign id, has no id twice and at least two members.
CompareCampaigns(records, dimensions, asOf) ==
    LET reason == FirstGlobalIncompatibility(records, asOf)
    IN [items |-> [d \in dimensions |->
                     IF reason # None THEN RejectAll(records, reason)
                                      ELSE CompareDimension(records, d)],
        notes |-> IF reason # None THEN {} ELSE AbsenceNotes(records)]

CompatibilityReasons(left, right, dimension, asOf) ==
    LET items == CompareCampaigns(<<left, right>>, {dimension}, asOf).items[dimension]
    IN {items[i].reason : i \in {k \in DOMAIN items : ~items[k].comparable}}

-----------------------------------------------------------------------------
(* What is expected of it.                                                  *)

\* Two values that are ranked against each other are on one scale: the same
\* unit, or one of them is a fee that is not charged.
RankedOnOneScale(records, dimension, asOf) ==
    LET items == CompareCampaigns(records, {dimension}, asOf).items[dimension]
    IN \A i, j \in DOMAIN records :
          items[i].comparable /\ items[j].comparable =>
              items[i].unit = items[j].unit \/ None \in {items[i].unit, items[j].unit}

\* Peers do not turn the order of two records around: where the two can be
\* compared by themselves, they are in the order they have among the others.
PeersDoNotReverse(records, dimension, asOf) ==
    LET Items(rs)  == CompareCampaigns(rs, {dimension}, asOf).items[dimension]
        Ranked(rs) == \A i \in DOMAIN rs : Items(rs)[i].comparable /\ Items(rs)[i].rank # Absent
        Ahead(rs, i, j) == Items(rs)[i].rank < Items(rs)[j].rank
    IN \A i, j \in DOMAIN records :
          LET pair == <<records[i], records[j]>>
          IN i < j /\ Ranked(records) /\ Ranked(pair) =>
                (Ahead(records, i, j) <=> Ahead(pair, 1, 2))
=============================================================================

---------------------------- MODULE ValidationPolicy ----------------------------
(***************************************************************************)
(* Which candidates are validated without a human                           *)
(* (extraction/validation_policy.py).  An issue is a sequence: its prefix   *)
(* and what follows it.                                                     *)
(***************************************************************************)
EXTENDS Sequences, SequencesExt

BaseRequiredFields == {"title", "product_family", "campaign_type"}

\* Every field of allOf, and one of anyOf when it has any.
Requirement(allOf, anyOf) == [allOf |-> allOf, anyOf |-> anyOf]

\* A class that cannot be validated has no requirement at all.
FamilyRequirement(family) ==
    CASE family = "financing" -> << Requirement({"rate", "term"}, {}) >>
      [] family = "participation_account" -> << Requirement({"rate"}, {}) >>
      [] family \in {"card", "investment"} -> << Requirement({}, {}) >>
      [] OTHER -> <<>>

TypeRequirement(type) ==
    CASE type \in {"financing_rate", "profit_share"} -> << Requirement({"rate"}, {}) >>
      [] type = "installment" -> << Requirement({"term"}, {}) >>
      [] type \in {"cashback", "discount", "points"} -> << Requirement({"reward"}, {}) >>
      [] type = "fee_waiver" -> << Requirement({"fee"}, {}) >>
      [] type = "welcome" -> << Requirement({}, {"reward", "fee"}) >>
      [] OTHER -> <<>>

\* The installments of a card are a number of payments, and no term.
PairOverride(family, type) == family = "card" /\ type = "installment"

RequiredFields(family, type) ==
    LET ofFamily == FamilyRequirement(family)
        ofType   == IF PairOverride(family, type) THEN << Requirement({}, {}) >>
                    ELSE TypeRequirement(type)
    IN IF ofFamily = <<>> \/ ofType = <<>> THEN <<>>
       ELSE << Requirement(BaseRequiredFields \cup ofFamily[1].allOf \cup ofType[1].allOf,
                           ofFamily[1].anyOf \cup ofType[1].anyOf) >>

\* What is open, and what only tells why.
UnresolvedFields(issues) == {issue[2] : issue \in {i \in ToSet(issues) : i[1] = "unresolved:"}}

NonBlockingPrefixes ==
    {"model_abstained:", "model_outcome:", "model_field_incomplete:", "model_skipped:",
     "registry_hint:", "title_hint:", "model_value_grounded:"}

AmbiguousField(issue) ==
    CASE issue[1] = "product_family_ambiguous" -> {"product_family"}
      [] issue[1] = "campaign_type_ambiguous" -> {"campaign_type"}
      [] issue[1] = "sales_channel_ambiguous" -> {"sales_channel"}
      [] OTHER -> {}

\* A rejected fact and an ambiguity count where the field is required; an
\* ambiguity no longer, when a later fact has closed the field.
Blocks(issue, needed, unresolved) ==
    CASE issue[1] = "unresolved:" \/ issue[1] \in NonBlockingPrefixes -> FALSE
      [] Last(issue) = ":rules_fallback" -> FALSE
      [] issue[1] = "model_fact_rejected:" -> issue[2] \in needed
      [] AmbiguousField(issue) # {} -> AmbiguousField(issue) \subseteq needed \cap unresolved
      [] OTHER -> TRUE

\* decide_record_status.
DecideRecordStatus(family, type, issues) ==
    LET required   == RequiredFields(family, type)
        unresolved == UnresolvedFields(issues)
        Missing(r) == \/ unresolved \cap r.allOf # {}
                      \/ r.anyOf # {} /\ r.anyOf \subseteq unresolved
    IN IF \/ required = <<>> \/ Missing(required[1])
          \/ \E issue \in ToSet(issues) :
                Blocks(issue, required[1].allOf \cup required[1].anyOf, unresolved)
       THEN "needs_review" ELSE "validated"
=============================================================================

-------------------------- MODULE MCCampaignStore --------------------------
\* Instance of CampaignStore for TLC.
EXTENDS CampaignStore, TLC

\* A page, the page after its campaign changed, and another rendering of the
\* first from which the same record is read.
MCRenderings == {[clean |-> "a",  record |-> "A", status |-> "needs_review"],
                 [clean |-> "b",  record |-> "B", status |-> "validated"],
                 [clean |-> "a2", record |-> "A", status |-> "needs_review"]}

Symmetry == Permutations(Writers) \cup Permutations(Observations)
=============================================================================

--------------------------- MODULE MCCampaignScan ---------------------------
\* Instances of CampaignScan for TLC.
EXTENDS CampaignScan, TLC

Index == [kind |-> "index", pages |-> <<8>>, details |-> {1, 2},
          max_links |-> 1]
Static == [kind |-> "static", pages |-> <<2, 3>>, details |-> {}, max_links |-> 0]
Collection == [kind |-> "collection", pages |-> <<9>>, details |-> {},
               max_links |-> 0]

\* An index and curated pages, one of them below the index's prefix.
MCMixed == <<Index, Static>>
MCCollection == <<Collection>>
MCBodies == 8 :> {{2}, {1, 2, 3}} @@ [m \in {2, 3} |-> {{}}]
MCCollectionBodies == 9 :> {{}, {1}}

\* The index page may redirect to itself, on the host of all pages, or to the
\* page 1 of that host; or, in MCMoved, to another host with the page 2.
MCEnds == 8 :> {80, 81} @@ [m \in {2, 3} |-> {m}]
MCNear == 80 :> {1, 2, 3} @@ 81 :> {2, 3} @@ 2 :> {1, 3} @@ 3 :> {1, 2}
MCMovedIndex == <<Index>>
MCMovedBodies == 8 :> {{1}, {2}}
MCMovedEnds == 8 :> {80, 82}
MCMovedNear == 80 :> {1} @@ 82 :> {2}
MCCollectionEnds == 9 :> {9}
MCCollectionNear == 9 :> {1}

Symmetry == Permutations(Pods) \cup Permutations(ScanRuns)
=============================================================================

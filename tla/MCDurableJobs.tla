--------------------------- MODULE MCDurableJobs ---------------------------
\* Instance of DurableJobs for TLC.
EXTENDS DurableJobs, TLC

\* Workers and jobs are interchangeable; used by the safety run only.
Symmetry == Permutations(Workers) \cup Permutations(Jobs)
=============================================================================

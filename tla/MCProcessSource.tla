-------------------------- MODULE MCProcessSource --------------------------
\* Instance of ProcessSource for TLC.
EXTENDS ProcessSource

\* Revision counters: the two URLs use the same validators for other bodies.
MCEtag == [x \in Urls \X Contents |->
             IF (x[1] = "u1") = (x[2] = "c1") THEN "e1" ELSE "e2"]
=============================================================================

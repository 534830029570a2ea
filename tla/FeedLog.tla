------------------------------ MODULE FeedLog ------------------------------
(***************************************************************************)
(* What the campaign-change feed promises (ADR-009): an append-only log in  *)
(* which a new entry goes after every entry already there, and readers who  *)
(* each show a growing prefix of it and sooner or later all of it.          *)
(***************************************************************************)
EXTENDS Integers

CONSTANTS
    Positions,  \* places in the log
    Events,     \* possible entries, records with a position "seq"
    Readers

VARIABLES
    log,        \* the entries a reader may be served
    shown       \* the entries each reader has shown

vars == <<log, shown>>

Prefix(n) == {e \in log : e.seq <= n}

Init == log = {} /\ shown = [r \in Readers |-> {}]

Append ==
    /\ \E e \in log' :
          /\ e \in Events
          /\ \A f \in log : f.seq < e.seq
          /\ log' = log \cup {e}
    /\ UNCHANGED shown

Show(r) ==
    /\ \E n \in Positions :
          /\ shown[r] \subseteq Prefix(n)
          /\ shown' = [shown EXCEPT ![r] = Prefix(n)]
    /\ UNCHANGED log

Next == Append \/ \E r \in Readers : Show(r)

Spec == Init /\ [][Next]_vars

FairSpec == Spec /\ \A r \in Readers : WF_vars(Show(r))
=============================================================================

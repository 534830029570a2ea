----------------------------- MODULE SourceRegistry -----------------------------
(***************************************************************************)
(* Releases of the bank registry, and the rows of source_registry that      *)
(* sync_source_registry (runtime/registry.py) advances with the upsert of   *)
(* SourceRepository: several processes start at once, each with the release *)
(* of its own image.                                                        *)
(*                                                                          *)
(* A release is [version, banks]; a bank of it is [id, content], and what   *)
(* the rows hold of it is its content.  A version is <<day, number>>.       *)
(***************************************************************************)
EXTENDS Integers, Sequences, FiniteSets

CONSTANTS
    Syncs,         \* transactions of processes that start
    Releases,      \* the valid releases there are
    MaxNumber      \* bound of the instance: release numbers of a day

\* Two releases differ in their version, and each lists a bank once.
ASSUME ReleasesAssumption ==
    /\ \A r, s \in Releases : r.version = s.version => r = s
    /\ \A r \in Releases :
          /\ r.version \in Int \X (1..MaxNumber)
          /\ r.banks \in Seq({r.banks[i] : i \in DOMAIN r.banks})
          /\ \A i, j \in DOMAIN r.banks : r.banks[i].id = r.banks[j].id => i = j

BankIds == UNION {{r.banks[i].id : i \in DOMAIN r.banks} : r \in Releases}

VARIABLES
    source,     \* the committed row of each bank, or none
    sync        \* what each transaction is doing

registryVars == <<source, sync>>

NoSource == [version |-> <<0, 0>>]
NotSyncing == [pc |-> "rest"]

RegistryInit ==
    /\ source = [b \in BankIds |-> NoSource]
    /\ sync = [s \in Syncs |-> NotSyncing]

Syncing(s) == sync[s] # NotSyncing

\* The digits of a number, and whether one text comes before another.
DigitsOf(n) == IF n < 10 THEN <<n>> ELSE <<n \div 10, n % 10>>

TextBefore(a, b) ==
    \E i \in 1..Len(b) :
        /\ \A j \in 1..(i - 1) : j <= Len(a) /\ a[j] = b[j]
        /\ i > Len(a) \/ a[i] < b[i]

\* The column is text: number 10 of a day comes before number 9.
VersionBefore(v, w) ==
    \/ v[1] < w[1]
    \/ v[1] = w[1] /\ TextBefore(DigitsOf(v[2]), DigitsOf(w[2]))

BeginSync(s, release) ==
    /\ ~Syncing(s)
    /\ sync' = [sync EXCEPT ![s] = [pc |-> "syncing", release |-> release,
                                     next |-> 1, written |-> {}]]
    /\ UNCHANGED source

BankAt(s) == sync[s].release.banks[sync[s].next]

LockedByOther(s, bank) == \E t \in Syncs \ {s} : Syncing(t) /\ bank \in sync[t].written

MoreBanks(s) == Syncing(s) /\ sync[s].next <= Len(sync[s].release.banks)

\* Fault: every bank in a transaction of its own.
Upserted_Committed(s) ==
    /\ sync' = [sync EXCEPT ![s].next = @ + 1]
    /\ source' = [source EXCEPT ![BankAt(s).id] =
                    [version |-> sync[s].release.version, content |-> BankAt(s).content,
                     order |-> sync[s].next]]

Upserted(s) ==
    /\ sync' = [sync EXCEPT ![s].next = @ + 1, ![s].written = @ \cup {BankAt(s).id}]
    /\ UNCHANGED source

\* INSERT ... ON CONFLICT DO UPDATE ... WHERE waits for a row that another
\* transaction has written, and looks at the one that was committed.
UpsertBank(s) ==
    /\ MoreBanks(s)
    /\ ~LockedByOther(s, BankAt(s).id)
    /\ source[BankAt(s).id] = NoSource
          \/ VersionBefore(source[BankAt(s).id].version, sync[s].release.version)
    /\ Upserted(s)

\* The same version again leaves the row as it is.  ON CONFLICT locks it all
\* the same.
SameRelease(s) ==
    /\ MoreBanks(s)
    /\ ~LockedByOther(s, BankAt(s).id)
    /\ source[BankAt(s).id] = [version |-> sync[s].release.version,
                               content |-> BankAt(s).content, order |-> sync[s].next]
    /\ Upserted(s)

\* StaleSourceVersionError rolls everything back; a row of the same version and another content,
\* ImmutableConflictError, is of no valid pair of releases.
StaleSource(s) ==
    /\ MoreBanks(s)
    /\ ~LockedByOther(s, BankAt(s).id)
    /\ source[BankAt(s).id] # NoSource
    /\ VersionBefore(sync[s].release.version, source[BankAt(s).id].version)
    /\ sync' = [sync EXCEPT ![s] = NotSyncing]
    /\ UNCHANGED source

RowsOfRelease(s) ==
    LET r == sync[s].release
    IN [b \in BankIds |->
          IF \E i \in DOMAIN r.banks : r.banks[i].id = b
          THEN LET i == CHOOSE i \in DOMAIN r.banks : r.banks[i].id = b
               IN [version |-> r.version, content |-> r.banks[i].content, order |-> i]
          ELSE source[b]]

\* A bank that the release does not list keeps its row, and stays active.
CommitSync(s) ==
    /\ Syncing(s) /\ ~MoreBanks(s)
    /\ source' = [b \in BankIds |->
                    IF b \in sync[s].written THEN RowsOfRelease(s)[b] ELSE source[b]]
    /\ sync' = [sync EXCEPT ![s] = NotSyncing]

\* A crash, or the victim of a deadlock: two releases may list their banks in
\* a different order.
AbortSync(s) ==
    /\ Syncing(s)
    /\ sync' = [sync EXCEPT ![s] = NotSyncing]
    /\ UNCHANGED source

RegistryNext ==
    \E s \in Syncs :
        \/ \E release \in Releases : BeginSync(s, release)
        \/ UpsertBank(s) \/ SameRelease(s) \/ StaleSource(s) \/ CommitSync(s) \/ AbortSync(s)

RegistrySpec == RegistryInit /\ [][RegistryNext]_registryVars

-----------------------------------------------------------------------------

\* "One immutable registry version in one all-or-nothing transaction":
\* whichever images start and stop at once, a row is as one release has it,
\* and no other bank of that release is behind: the allowlist of the database
\* is never a release that was written in part.
OneReleaseAtATime ==
    \A b \in BankIds : source[b] # NoSource =>
        \E r \in Releases :
            /\ r.version = source[b].version
            /\ \E i \in DOMAIN r.banks :
                  r.banks[i].id = b /\ source[b].content = r.banks[i].content /\ source[b].order = i
            /\ \A i \in DOMAIN r.banks :
                  ~VersionBefore(source[r.banks[i].id].version, r.version)
=============================================================================

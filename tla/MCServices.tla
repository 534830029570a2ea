------------------------------ MODULE MCServices ------------------------------
(***************************************************************************)
(* The services that share nothing but the database server, and the fetches *)
(* of a page by the workers that process it: a run chooses one of them at   *)
(* the beginning and lets it take every step it can.                        *)
(***************************************************************************)
EXTENDS LoginRate, LoginAccount, AuthSessions, HostPacing, SourceRegistry,
        OutboxLeases, MCProcessSource

VARIABLE active

servicesVars ==
    <<active, rateVars, loginVars, authVars, paceVars, registryVars, outboxVars, vars>>

\* Two digests that lock in the opposite order of their names.
MCLockKey == [s \in {"alice", "bob", "east"} |->
    CASE s = "alice" -> 3 [] s = "bob" -> 1 [] s = "east" -> 2]

\* Three releases, two of them of one day; the banks of the last change
\* places, and one of them is gone.
MCReleases ==
    {[version |-> <<1, 9>>,  banks |-> << [id |-> "a", content |-> 1], [id |-> "b", content |-> 1] >>],
     [version |-> <<1, 10>>, banks |-> << [id |-> "b", content |-> 2], [id |-> "a", content |-> 1] >>],
     [version |-> <<2, 1>>,  banks |-> << [id |-> "b", content |-> 2], [id |-> "c", content |-> 1] >>]}

ServicesInit ==
    /\ active \in {"rate", "account", "sessions", "pacing", "registry", "outbox", "fetch"}
    /\ RateInit /\ LoginInit /\ AuthInit /\ PaceInit /\ RegistryInit /\ OutboxInit
    /\ Init
    /\ active # "fetch" => route = "u1" /\ page = [u \in Urls |-> "c1"]

Rate ==
    /\ active = "rate" /\ RateNext
    /\ UNCHANGED <<active, loginVars, authVars, paceVars, registryVars, outboxVars, vars>>

Account ==
    /\ active = "account" /\ LoginNext
    /\ UNCHANGED <<active, rateVars, authVars, paceVars, registryVars, outboxVars, vars>>

Sessions ==
    /\ active = "sessions" /\ AuthNext
    /\ UNCHANGED <<active, rateVars, loginVars, paceVars, registryVars, outboxVars, vars>>

Pacing ==
    /\ active = "pacing" /\ PaceNext
    /\ UNCHANGED <<active, rateVars, loginVars, authVars, registryVars, outboxVars, vars>>

Registry ==
    /\ active = "registry" /\ RegistryNext
    /\ UNCHANGED <<active, rateVars, loginVars, authVars, paceVars, outboxVars, vars>>

Outbox ==
    /\ active = "outbox" /\ OutboxNext
    /\ UNCHANGED <<active, rateVars, loginVars, authVars, paceVars, registryVars, vars>>

Fetch ==
    /\ active = "fetch" /\ Next
    /\ UNCHANGED <<active, rateVars, loginVars, authVars, paceVars, registryVars, outboxVars>>

ServicesNext == Rate \/ Account \/ Sessions \/ Pacing \/ Registry \/ Outbox \/ Fetch

ServicesSpec == ServicesInit /\ [][ServicesNext]_servicesVars
=============================================================================

--------------------------------- MODULE MCFiles ---------------------------------
(***************************************************************************)
(* Small files: robots.txt, the bank registry and the campaign sources.     *)
(***************************************************************************)
EXTENDS Robots, RegistryFiles

\* Two paths, and patterns that match one or both.
MCPaths == {<<"/", "a">>, <<"/", "a", "b">>}

MCPatterns ==
    {<<>>, <<"/", "a">>, <<"/", "a", "$">>, <<"/", "*", "b">>, <<"/">>}

MCDelay == Line("crawl-delay", <<>>, <<>>, 5)

MCRules ==
    {Line("allow", <<>>, p, NoDelay) : p \in MCPatterns}
    \cup {Line("disallow", <<>>, p, NoDelay) : p \in MCPatterns}
    \cup {MCDelay, Line("sitemap", <<>>, <<>>, NoDelay)}

MCAgents == {Line("user-agent", agent, <<>>, NoDelay) :
               agent \in {<<ProductToken>>, <<AnyAgent>>, <<"other">>, <<>>}}

MCResponse(status, lines) ==
    [status |-> status, tooLarge |-> FALSE, utf8 |-> TRUE, lines |-> lines]

\* Two blocks of an agent and a rule; the first with a delay of its own, above
\* its rule; one block of two agents.
MCTwoBlocks(a, r, b, s) == MCResponse(200, <<a, r, b, s>>)

MCBlocks  == {MCTwoBlocks(a, r, b, s) : a, b \in MCAgents, r, s \in MCRules}
MCDelayed == {MCResponse(200, <<a, MCDelay, r, b, s>>) : a, b \in MCAgents, r, s \in MCRules}
MCSharing == {MCResponse(200, <<a, b, r>>) : a, b \in MCAgents, r \in MCRules}

\* An answer of another kind says the same of every path.
MCUnread ==
    {MCResponse(status, <<>>) : status \in {301, 401, 404, 503}}
    \cup {[MCResponse(200, <<>>) EXCEPT !.tooLarge = TRUE],
          [MCResponse(200, <<>>) EXCEPT !.utf8 = FALSE]}

MCResponses == MCBlocks \cup MCDelayed \cup MCSharing \cup MCUnread

-----------------------------------------------------------------------------
(* Two banks, of one or two hosts, that may share one.                      *)

MCUrl(host) == [host |-> host, path |-> "/", sound |-> TRUE, canonical |-> TRUE]

MCBank(id, order, hosts) ==
    [fields |-> BankFields, id |-> id, name |-> id, kebab |-> TRUE, order |-> order,
     hosts |-> hosts, homepage |-> MCUrl(hosts[1])]

MCHosts == {<<"h1">>, <<"h2">>, <<"h1", "h2">>, <<"h2", "h1">>, <<"h2", "h2">>}

MCBankFiles ==
    {[fields |-> BankFileFields, schema |-> "1.0", id |-> "bddk-participation-banks",
      version |-> <<"d1", 1>>, observed |-> "d1", source |-> "bddk-list", count |-> 2,
      banks |-> << MCBank("b1", 1, first), MCBank(second, 2, hosts) >>] :
        first, hosts \in MCHosts, second \in {"b1", "b2"}}

\* Sources of a bank at a host: an index, curated pages, or none.
MCSource(bank, host, mode) ==
    [bank |-> bank, observed |-> "d1", evidence |-> MCUrl(host),
     status |-> IF mode = "none" THEN "unavailable" ELSE "verified", mode |-> mode,
     fields |-> CommonFields \cup
                CASE mode = "none" -> {"unavailable_reason"}
                  [] mode = "static_pages" -> {"discovery_mode", "static_pages"}
                  [] OTHER -> IndexFields,
     index |-> MCUrl(host), maxLinks |-> IF mode = "detail_links" THEN 5 ELSE 0,
     prefixes |-> IF mode = "detail_links" THEN << [safe |-> TRUE] >> ELSE <<>>,
     pages |-> << [url |-> MCUrl(host), slug |-> TRUE] >>]

MCSources == {MCSource(bank, host, mode) : bank \in {"b1", "b2"}, host \in {"h1", "h2"},
                mode \in {"none", "static_pages", "detail_links", "unsegmented"}}

MCSourceFiles ==
    {[fields |-> {"schema_version", "registry_id", "registry_version", "source_observed_on",
                  "bank_registry_version", "bank_count", "sources"},
      schema |-> "1.0", id |-> "monitored-campaign-sources", version |-> <<"d1", 1>>,
      observed |-> "d1", bankVersion |-> <<"d1", 1>>, count |-> 2, sources |-> sources] :
        sources \in [1..2 -> MCSources]
                    \cup {s \in [1..3 -> MCSources] : s[1].mode = "detail_links" /\ s[3].bank = "b2"
                                                      /\ s[3].index.host = "h2"}}
=============================================================================

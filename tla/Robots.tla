--------------------------------- MODULE Robots ---------------------------------
(***************************************************************************)
(* What a robots.txt says of a page (ingestion/robots.py).  A file is the   *)
(* sequence of its lines, each with its field, case folded, and its value;  *)
(* a path and a pattern are sequences of octets, normalised by the code so  *)
(* that an encoded octet is one of them.  An agent is <<>> when the value   *)
(* is empty, the product token is ProductToken, and every other name is one *)
(* that is not ours.                                                        *)
(***************************************************************************)
EXTENDS Integers, Sequences, FiniteSets, FiniteSetsExt, SequencesExt, Folds

ProductToken == "katilim"
AnyAgent     == "*"
Wildcard     == "*"

NoDelay == -1

\* A line of any field; the parts that its field does not have are empty.
Line(field, agent, pattern, delay) ==
    [field |-> field, agent |-> agent, pattern |-> pattern, delay |-> delay]

MaxCrawlDelay == 86400

-----------------------------------------------------------------------------
(* Groups.                                                                  *)

NoGroup == [agents |-> <<>>, rules |-> <<>>, delay |-> NoDelay, started |-> FALSE]

FinishGroup(groups, group) == IF group.agents = <<>> THEN groups ELSE Append(groups, group)

\* A user-agent line after a rule opens the next group.
AddAgent(parsed, line) ==
    LET ends  == parsed.group.started
        group == IF ends THEN NoGroup ELSE parsed.group
    IN [groups |-> IF ends THEN FinishGroup(parsed.groups, parsed.group) ELSE parsed.groups,
        group  |-> IF line.agent = <<>> THEN group
                   ELSE [group EXCEPT !.agents = @ \o line.agent]]

\* An empty rule ends the list of agents and says nothing; a delay that is
\* not a number of a day's seconds is passed over.
AddDirective(parsed, line) ==
    LET group == [parsed.group EXCEPT !.started = TRUE] IN
    [parsed EXCEPT !.group =
        IF line.field = "crawl-delay"
        THEN IF line.delay \in 0..MaxCrawlDelay THEN [group EXCEPT !.delay = line.delay] ELSE group
        ELSE IF line.pattern = <<>> THEN group
        ELSE [group EXCEPT !.rules =
                Append(@, [allow |-> line.field = "allow", pattern |-> line.pattern])]]

ParseLine(parsed, line) ==
    CASE line.field = "user-agent" -> AddAgent(parsed, line)
      [] line.field \in {"allow", "disallow", "crawl-delay"} /\ parsed.group.agents # <<>> ->
            AddDirective(parsed, line)
      [] OTHER -> parsed

\* What is parsed after each of the lines, and before the first.
Parsed(lines) ==
    LET after[k \in 0..Len(lines)] ==
            IF k = 0 THEN [groups |-> <<>>, group |-> NoGroup]
                     ELSE ParseLine(after[k - 1], lines[k])
    IN after

ParseGroups(lines) ==
    LET parsed == Parsed(lines)[Len(lines)]
    IN FinishGroup(parsed.groups, parsed.group)

-----------------------------------------------------------------------------
(* The rule that wins.                                                      *)

\* Our own name is more specific than everybody's.
AgentSpecificity(agent) ==
    CASE agent = AnyAgent -> {0} [] agent = ProductToken -> {1} [] OTHER -> {}

GroupSpecificity(group) == UNION {AgentSpecificity(agent) : agent \in ToSet(group.agents)}

\* The places of the path that are reached by one more sign of the pattern.
MatchOctet(path, places, octet) ==
    IF octet = Wildcard
    THEN {to \in 0..Len(path) : \E from \in places : from <= to}
    ELSE {from + 1 : from \in {p \in places : p < Len(path) /\ path[p + 1] = octet}}

Anchored(pattern) == pattern # <<>> /\ Last(pattern) = "$"
Unanchored(pattern) == IF Anchored(pattern) THEN Front(pattern) ELSE pattern

\* re.match: from the beginning, to the end only when the pattern ends in $.
RuleMatches(pattern, path) ==
    LET Step(places, octet) == MatchOctet(path, places, octet)
        ends == FoldLeft(Step, {0}, Unanchored(pattern))
    IN IF Anchored(pattern) THEN Len(path) \in ends ELSE ends # {}

PatternSpecificity(pattern) ==
    Len(SelectSeq(Unanchored(pattern), LAMBDA octet : octet # Wildcard))

RobotsDecision(allowed, reason, delay) ==
    [allowed |-> allowed, reason |-> reason, delay |-> delay]

\* The specificity of the most specific agent that is ours in any group.
BestSpecificity(groups) == Max(UNION {GroupSpecificity(g) : g \in ToSet(groups)})

\* Fault: of several groups for an agent only the first is read.
SelectedGroups_First(groups) ==
    LET best == BestSpecificity(groups)
        chosen == {i \in DOMAIN groups : best \in GroupSpecificity(groups[i])}
    IN {groups[Min(chosen)]}

\* All the groups of the most specific agent, together.
SelectedGroups(groups) ==
    {g \in ToSet(groups) : /\ GroupSpecificity(g) # {}
                           /\ Max(GroupSpecificity(g)) = BestSpecificity(groups)}

\* The longest pattern wins, and of the longest a permission.
EvaluateRobots(lines, path) ==
    LET groups   == ParseGroups(lines)
        selected == SelectedGroups(groups)
        delays   == {g.delay : g \in {s \in selected : s.delay # NoDelay}}
        delay    == IF delays = {} THEN NoDelay ELSE Max(delays)
        matching == {r \in UNION {ToSet(g.rules) : g \in selected} : RuleMatches(r.pattern, path)}
        longest  == {r \in matching :
                        \A other \in matching :
                            PatternSpecificity(other.pattern) <= PatternSpecificity(r.pattern)}
    IN IF \A g \in ToSet(groups) : GroupSpecificity(g) = {}
       THEN RobotsDecision(TRUE, "robots_no_matching_group", NoDelay)
       ELSE IF matching = {} \/ \E r \in longest : r.allow
       THEN RobotsDecision(TRUE, "robots_allowed", delay)
       ELSE RobotsDecision(FALSE, "robots_disallowed", delay)

\* A response for robots.txt: its status, and its content if it can be read.
RobotsResponseDecision(response, path) ==
    IF response.status \in {401, 403} THEN RobotsDecision(FALSE, "robots_access_denied", NoDelay)
    ELSE IF response.status \in 400..499 THEN RobotsDecision(TRUE, "robots_unavailable", NoDelay)
    ELSE IF response.status \notin 200..299 THEN
        RobotsDecision(FALSE, "robots_unreachable", NoDelay)
    ELSE IF response.tooLarge THEN RobotsDecision(FALSE, "robots_too_large", NoDelay)
    ELSE IF ~response.utf8 THEN RobotsDecision(FALSE, "robots_invalid_utf8", NoDelay)
    ELSE EvaluateRobots(response.lines, path)

-----------------------------------------------------------------------------
(* What RFC 9309, which the module names as its semantics, says of a file.  *)
(* An agent line without a name, which its grammar has not, is read as one  *)
(* that names nobody.                                                       *)

IsAgentLine(line) == line.field = "user-agent"

\* Other records, Crawl-delay among them, must not interfere with the parsing
\* of agents and rules (2.2.4).
IsRuleLine(line) == line.field \in {"allow", "disallow"}

AgentLinesAbove(lines, rule) == {i \in 1..(rule - 1) : IsAgentLine(lines[i])}

LastAgentLine(lines, rule) ==
    IF AgentLinesAbove(lines, rule) = {} THEN 0 ELSE Max(AgentLinesAbove(lines, rule))

\* The rules that belong to agents, before the last agent above the rule.
RulesBefore(lines, rule) ==
    {i \in 1..(LastAgentLine(lines, rule) - 1) :
        IsRuleLine(lines[i]) /\ \E j \in 1..(i - 1) : lines[j].agent # <<>>}

LastRuleBefore(lines, rule) ==
    IF RulesBefore(lines, rule) = {} THEN 0 ELSE Max(RulesBefore(lines, rule))

\* A rule stands under the agents named since the last rule before them.
StandsUnder(lines, rule) ==
    UNION {ToSet(lines[i].agent) :
             i \in {j \in AgentLinesAbove(lines, rule) : j > LastRuleBefore(lines, rule)}}

\* Of a page and a file that can be read: what is allowed is decided by the
\* longest rule under the name of the crawler, wherever its groups stand in
\* the file and whatever stands between them; by those for everybody when its
\* name is nowhere; and a tie allows.
LongestRuleDecides(response, path) ==
    LET lines == response.lines
        named == \E i \in 1..Len(lines) : lines[i].agent = <<ProductToken>>
        mine  == {i \in 1..Len(lines) :
                    /\ lines[i].field \in {"allow", "disallow"} /\ lines[i].pattern # <<>>
                    /\ (IF named THEN ProductToken ELSE AnyAgent) \in StandsUnder(lines, i)
                    /\ RuleMatches(lines[i].pattern, path)}
        weight(i) == PatternSpecificity(lines[i].pattern)
        readable == response.status \in 200..299 /\ ~response.tooLarge /\ response.utf8
    IN readable =>
        (RobotsResponseDecision(response, path).allowed <=>
            \/ mine = {}
            \/ \E i \in mine : /\ lines[i].field = "allow"
                               /\ \A j \in mine : weight(j) <= weight(i))

\* Between two agent lines, a Crawl-delay stands only where a rule stands too.
\* The code ends the list of agents at either; the RFC at a rule only.
DelaysKeepAside(lines) ==
    \A i, j, k \in 1..Len(lines) :
        /\ i < j /\ j < k /\ lines[j].field = "crawl-delay"
        /\ IsAgentLine(lines[i]) /\ IsAgentLine(lines[k])
        => \E r \in (i + 1)..(k - 1) : IsRuleLine(lines[r])
=============================================================================

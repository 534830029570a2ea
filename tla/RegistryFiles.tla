------------------------------ MODULE RegistryFiles ------------------------------
(***************************************************************************)
(* The two registry files and what their loaders accept: the banks with     *)
(* their hosts (ingestion/registry.py) and the monitored campaign sources   *)
(* (runtime/registry.py).  A file is the record that its JSON text gives;   *)
(* what a pattern or a type refuses is a flag of the value.  A URL is       *)
(* [host, path, sound]: sound holds of an absolute https URL without        *)
(* credentials, another port or an address for a host.                      *)
(***************************************************************************)
EXTENDS Integers, Sequences, FiniteSets, FiniteSetsExt, SequencesExt

BankFileFields ==
    {"schema_version", "registry_id", "registry_version", "source_observed_on", "source_url",
     "bank_count", "banks"}

BankFields ==
    {"id", "listing_order", "legal_name", "listed_homepage_url", "allowed_hosts", "digital_bank"}

\* Every field that is required, and no other but the optional ones.
ExactFields(fields, required, optional) ==
    required \subseteq fields /\ fields \subseteq required \cup optional

Distinct(seq) == Cardinality(ToSet(seq)) = Len(seq)

\* A version is its date and a number.
DateOfVersion(version) == version[1]

ValidBank(bank) ==
    /\ ExactFields(bank.fields, BankFields, {})
    /\ bank.kebab /\ bank.order >= 1
    /\ bank.hosts # <<>> /\ Distinct(bank.hosts)
    /\ bank.homepage.host \in ToSet(bank.hosts)

\* Fault: hosts are compared within a bank only.
HostsAreExclusive_OfTheBank(banks) == \A i \in DOMAIN banks : Distinct(banks[i].hosts)

\* No host stands twice in the file, whichever banks list it.
HostsAreExclusive(banks) ==
    \A i, j \in DOMAIN banks : \A k \in DOMAIN banks[i].hosts, l \in DOMAIN banks[j].hosts :
        banks[i].hosts[k] = banks[j].hosts[l] => i = j /\ k = l

\* The number of banks that schema 1.0 has.
ValidBankRegistry(file, bankCount) ==
    /\ ExactFields(file.fields, BankFileFields, {"$schema"})
    /\ file.schema = "1.0" /\ file.id = "bddk-participation-banks"
    /\ DateOfVersion(file.version) = file.observed
    /\ file.source = "bddk-list"
    /\ \A i \in DOMAIN file.banks : ValidBank(file.banks[i]) /\ file.banks[i].order = i
    /\ file.count = Len(file.banks) /\ file.count = bankCount
    /\ Distinct([i \in DOMAIN file.banks |-> file.banks[i].id])
    /\ Distinct([i \in DOMAIN file.banks |-> file.banks[i].name])
    /\ HostsAreExclusive(file.banks)

\* BankRegistry.bank and bank_for_host: the first that fits; no bank is <<>>.
BankAt(file, place) == IF place = 0 THEN <<>> ELSE << file.banks[place] >>

BankWithId(file, id) == BankAt(file, SelectInSeq(file.banks, LAMBDA b : b.id = id))

PermitsHost(bank, host) == host \in ToSet(bank.hosts)

BankForHost(file, host) ==
    BankAt(file, SelectInSeq(file.banks, LAMBDA b : PermitsHost(b, host)))

-----------------------------------------------------------------------------
(* The monitored campaign sources.                                          *)

CommonFields == {"bank_id", "status", "observed_on", "evidence_url"}
IndexFields  == {"discovery_mode", "index_url", "detail_path_prefixes", "max_links"}

\* _official_url: canonical as it is written, on a host of the bank.
OfficialUrl(url, bank) == url.sound /\ url.canonical /\ PermitsHost(bank, url.host)

\* A prefix is safe when it begins and ends with a slash and no reader could
\* take it for another one.
SafePrefixes(prefixes) ==
    Distinct(prefixes) /\ \A i \in DOMAIN prefixes : prefixes[i].safe

ValidStaticPages(pages, bank) ==
    /\ Len(pages) \in 1..20
    /\ \A i \in DOMAIN pages : OfficialUrl(pages[i].url, bank) /\ pages[i].slug
    /\ Distinct([i \in DOMAIN pages |-> pages[i].url])

ValidUnavailable(source) ==
    ExactFields(source.fields, CommonFields \cup {"unavailable_reason"}, {})

ValidIndex(source, bank) ==
    /\ ExactFields(source.fields, CommonFields \cup IndexFields, {})
    /\ OfficialUrl(source.index, bank)
    /\ SafePrefixes(source.prefixes)
    /\ IF source.mode = "detail_links"
       THEN source.prefixes # <<>> /\ source.maxLinks \in 1..250
       ELSE source.prefixes = <<>> /\ source.maxLinks = 0

ValidSource(source, banks, observed) ==
    LET found == BankWithId(banks, source.bank) IN
    /\ found # <<>>
    /\ source.observed = observed
    /\ OfficialUrl(source.evidence, found[1])
    /\ \/ source.status = "unavailable" /\ ValidUnavailable(source)
       \/ /\ source.status = "verified" /\ source.mode = "static_pages"
          /\ ExactFields(source.fields, CommonFields \cup {"discovery_mode", "static_pages"}, {})
          /\ ValidStaticPages(source.pages, found[1])
       \/ /\ source.status = "verified" /\ source.mode \in {"detail_links", "unsegmented"}
          /\ ValidIndex(source, found[1])

IsIndex(source) == source.status = "verified" /\ source.mode # "static_pages"

RowsOf(sources, bank) == {i \in DOMAIN sources : sources[i].bank = bank}

\* A bank of several sources: all of them verified, one list of pages at most,
\* and no index twice.
ValidBankSourceGroup(sources, rows) ==
    \/ Cardinality(rows) = 1
    \/ /\ \A i \in rows : sources[i].status = "verified"
       /\ Cardinality({i \in rows : sources[i].mode = "static_pages"}) <= 1
       /\ \A i, j \in {k \in rows : IsIndex(sources[k])} :
             sources[i].index = sources[j].index => i = j

\* The rows where another bank's sources begin.
GroupStarts(sources) ==
    {i \in DOMAIN sources : i = 1 \/ sources[i - 1].bank # sources[i].bank}

\* The sources of a bank stand together, in the order of the banks: the n-th
\* group is of the n-th bank.
GroupedAs(sources, banks) ==
    LET starts == GroupStarts(sources) IN
    /\ Cardinality(starts) = Len(banks)
    /\ \A i \in starts : sources[i].bank = banks[Cardinality(starts \cap 1..i)].id

ValidCampaignRegistry(file, banks) ==
    /\ ExactFields(file.fields, {"schema_version", "registry_id", "registry_version",
                                 "source_observed_on", "bank_registry_version", "bank_count",
                                 "sources"}, {"$schema"})
    /\ file.schema = "1.0" /\ file.id = "monitored-campaign-sources"
    /\ DateOfVersion(file.version) = file.observed
    /\ file.bankVersion = banks.version
    /\ file.count = Len(banks.banks) /\ Len(file.sources) >= file.count
    /\ GroupedAs(file.sources, banks.banks)
    /\ \A i \in DOMAIN file.sources : ValidSource(file.sources[i], banks, file.observed)
    /\ \A bank \in {file.sources[i].bank : i \in DOMAIN file.sources} :
          ValidBankSourceGroup(file.sources, RowsOf(file.sources, bank))

\* build_source_request and the check of enqueue_source_job: what may enter
\* the queue for a bank.  A request keeps the name the registry has.
MayEnqueue(banks, request) ==
    LET found == BankWithId(banks, request.bank)
    IN /\ found # <<>>
       /\ request.url.sound /\ PermitsHost(found[1], request.url.host)
       /\ request.url.canonical /\ request.name = found[1].name

-----------------------------------------------------------------------------

\* The pages a source reads.
PagesOf(source) ==
    IF source.status # "verified" THEN {}
    ELSE IF source.mode = "static_pages" THEN {source.pages[i].url : i \in DOMAIN source.pages}
    ELSE {source.index}

\* Two files that are accepted together say whose every page is: the bank of
\* its host, which is the bank the source is listed under, so that no page is
\* read for two banks; and a bank is either read or declared unavailable.
EveryPageHasItsBank(banks, file, bankCount) ==
    ValidBankRegistry(banks, bankCount) /\ ValidCampaignRegistry(file, banks) =>
        /\ \A i \in DOMAIN file.sources : \A page \in PagesOf(file.sources[i]) :
              /\ BankForHost(banks, page.host) # <<>>
              /\ BankForHost(banks, page.host)[1].id = file.sources[i].bank
        /\ \A i, j \in DOMAIN file.sources :
              PagesOf(file.sources[i]) \cap PagesOf(file.sources[j]) # {} =>
                  file.sources[i].bank = file.sources[j].bank
        /\ \A b \in DOMAIN banks.banks :
              Cardinality({file.sources[i].status :
                              i \in RowsOf(file.sources, banks.banks[b].id)}) = 1
=============================================================================

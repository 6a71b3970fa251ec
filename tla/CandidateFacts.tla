--------------------------- MODULE CandidateFacts ---------------------------
(***************************************************************************)
(* The facts a model call rests on, as the pure functions that make them:  *)
(* which packages OSV is asked about (reposcan/plan.go), how the advisories *)
(* it returns become matches and alias groups (reposcan/run.go), how a     *)
(* group becomes a candidate (scananalyze/prepare.go), how a CVE of NVD    *)
(* becomes one (matcher, evidence), what the processor accepts as its      *)
(* input, and the deterministic assessment published beside the model's    *)
(* words (assessment).                                                     *)
(*                                                                         *)
(* A name is the sequence of its parts, so that a namespace is a prefix.   *)
(* Advisory ids are numbers, in the order in which the code sorts them.    *)
(* Texts, timestamps and kinds of an advisory are one flag: usable or not. *)
(* Ordered Go slices whose order only fixes the output are sets here.      *)
(***************************************************************************)
EXTENDS Naturals, FiniteSetsExt, SequencesExt

CONSTANTS
  Cve,          \* the advisory ids that are CVE numbers
  Pinned,       \* the versions that versions.IsPinned recognizes
  NoPurl,       \* a component or target without a package URL
  MaxEvidence   \* the evidence items one input may have (1000)

-----------------------------------------------------------------------------
(* Packages and the queries about them.                                    *)

TwoPart == {"Maven", "Packagist"}        \* ecosystems whose names have two parts
Joined == TwoPart \cup {"npm"}           \* ecosystems whose names include the namespace
Supported == Joined \cup {"Go", "PyPI", "RubyGems", "crates.io", "Pub"}

Qualified(c) == IF IsStrictPrefix(c.ns, c.name) THEN c.name ELSE c.ns \o c.name

PackageName(c) == IF c.eco \in Joined THEN Qualified(c) ELSE c.name

PackageIdentity(c) ==
  /\ c.eco \in Joined /\ c.ns # <<>> /\ Len(c.name) > 1 => IsStrictPrefix(c.ns, c.name)
  /\ c.eco \in TwoPart => Len(PackageName(c)) = 2

Asked(c) == c.eco \in Supported /\ PackageIdentity(c) /\ c.version \in Pinned

QueryOf(c) == [eco |-> c.eco, name |-> PackageName(c), version |-> c.version]

Plan(components) ==
  LET asked == {c \in components : Asked(c)}
  IN [q \in {QueryOf(c) : c \in asked} |-> {c \in asked : QueryOf(c) = q}]

-----------------------------------------------------------------------------
(* The versions: an OSV expression is a positive sample, never a range.    *)

VersionStatus(eco, installed, constraint) ==
  IF constraint.scheme = "osv"
  THEN IF installed \in Pinned \cap constraint.versions THEN "affected" ELSE "unknown"
  ELSE IF eco # "npm" \/ installed \notin Pinned \/ constraint.scheme # "cpe" THEN "unknown"
  ELSE IF installed \in constraint.versions THEN "affected" ELSE "not_affected"

Evaluate(eco, installed, constraints) ==
  LET found == {VersionStatus(eco, installed, c) : c \in constraints}
  IN IF "affected" \in found THEN "affected"
     ELSE IF "unknown" \in found \/ found = {} THEN "unknown"
     ELSE "not_affected"

-----------------------------------------------------------------------------
(* A report: an answer of OSV is the ids per query and the advisories that *)
(* could be loaded; of NVD, the CVEs it found.                             *)

Listed(doc, q) == <<q.eco, q.name>> \in doc.affected

MatchAdvisory(doc, q) ==
  IF doc.withdrawn THEN "withdrawn" ELSE IF Listed(doc, q) THEN "affected" ELSE "unknown"

OsvRecord(doc) ==
  [source |-> "osv", id |-> doc.id, aliases |-> doc.aliases, doc |-> doc]
NvdRecord(id) == [source |-> "nvd", id |-> id, aliases |-> {}]
KeyOf(record) == <<record.source, record.id>>
IdsOf(records) == UNION {{r.id} \cup r.aliases : r \in records}

(* groupRecords: union-find over the ids, one link per alias.              *)
Roots(parent) ==
  LET root[x \in DOMAIN parent] == IF parent[x] = x THEN x ELSE root[parent[x]]
  IN root

(* The linked id is moved without the group it stands for.                  *)
MutantUnite(link, parent) == [parent EXCEPT ![link[2]] = Roots(parent)[link[1]]]

Unite(link, parent) ==
  LET root == Roots(parent) IN [parent EXCEPT ![root[link[2]]] = root[link[1]]]

GroupRecords(records) ==
  LET ids == IdsOf(records)
      links == UNION {{r.id} \X r.aliases : r \in records}
      root == Roots(FoldSet(Unite, [x \in ids |-> x], links))
  IN {[keys |-> {KeyOf(r) : r \in {s \in records : root[s.id] = t}},
       ids |-> {x \in ids : root[x] = t}] : t \in {root[r.id] : r \in records}}

PackageResult(origins, answer, q) ==
  LET loaded == {d \in answer.docs : d.id \in answer.ids[q]}
      outcome == [key \in {<<"osv", d.id>> : d \in loaded} |->
                    MatchAdvisory(CHOOSE d \in loaded : <<"osv", d.id>> = key, q)]
  IN [origins |-> origins, ids |-> answer.ids[q], outcome |-> outcome,
      complete |-> Cardinality(loaded) = Cardinality(answer.ids[q])
                   /\ "unknown" \notin {outcome[k] : k \in DOMAIN outcome}]

Report(components, answer) ==
  LET plan == Plan(components)
      queries == [q \in DOMAIN plan |-> PackageResult(plan[q], answer, q)]
      osv == {OsvRecord(d) : d \in {e \in answer.docs :
                \E q \in DOMAIN plan : e.id \in answer.ids[q]}}
      records == osv \cup {NvdRecord(id) : id \in IdsOf(osv) \cap Cve \cap answer.nvd}
  IN [queries |-> queries, records |-> records, groups |-> GroupRecords(records),
      complete |-> \A q \in DOMAIN queries : queries[q].complete]

-----------------------------------------------------------------------------
(* Prepare: one entry per alias group with an affected version.            *)

Positive(report, q, key) ==
  /\ key \in DOMAIN report.queries[q].outcome
  /\ report.queries[q].outcome[key] = "affected"

Hits(report, keys) ==
  {q \in DOMAIN report.queries : \E k \in keys : Positive(report, q, k)}

CandidateId(report, group) ==
  LET cves == group.ids \cap Cve
      matching == {r.id : r \in {s \in report.records : s.source = "osv"
                     /\ KeyOf(s) \in group.keys /\ Hits(report, {KeyOf(s)}) # {}}}
  IN IF cves # {} THEN Min(cves) ELSE Min(matching)

RecordsOf(report, group) == {r \in report.records : KeyOf(r) \in group.keys}

SourcesUsable(report, group) ==
  /\ \A k \in group.keys : Cardinality({g \in report.groups : k \in g.keys}) = 1
  /\ \A r \in RecordsOf(report, group) :
       IF r.source = "osv" THEN r.doc.usable ELSE r.id \in Cve /\ r.aliases = {}
  /\ IdsOf(RecordsOf(report, group)) = group.ids

QueryUsable(components, report, group, q) ==
  LET result == report.queries[q]
      positive == {r \in RecordsOf(report, group) : Positive(report, q, KeyOf(r))}
  IN /\ q \in DOMAIN Plan(components)
     /\ result.origins = Plan(components)[q]
     /\ result.complete \/ ~report.complete
     /\ positive # {}
     /\ \A r \in positive : /\ r.source = "osv" /\ ~r.doc.withdrawn
                            /\ r.id \in result.ids /\ Listed(r.doc, q)
     /\ \A c \in result.origins :
          /\ Cardinality({d \in components : d.id = c.id}) = 1
          /\ c.version = q.version
          /\ Evaluate(c.eco, c.version, {[scheme |-> "osv", versions |-> {q.version}]}) = "affected"

OsvTarget(c, q) ==
  [id |-> <<c.purl, c.eco, Qualified(c), q.version>>, kind |-> "package", purl |-> c.purl,
   eco |-> c.eco, name |-> Qualified(c),
   constraints |-> {[scheme |-> "osv", versions |-> {q.version}]}]

GroupInput(report, group, qs) ==
  LET used == UNION {{<<c, q>> : c \in report.queries[q].origins} : q \in qs}
      sources == [i \in 1..Cardinality(group.keys) |->
                    [id |-> <<"source", i>>,
                     kind |-> IF SetToSeq(group.keys)[i][1] = "osv" THEN "advisory" ELSE "nvd"]]
  IN [id |-> CandidateId(report, group),
      components |-> {u[1] : u \in used}, products |-> {},
      affected |-> SetToSeq({OsvTarget(u[1], u[2]) : u \in used}),
      matches |-> SetToSeq({[item |-> u[1].id, target |-> OsvTarget(u[1], u[2]).id,
                             reason |-> IF u[1].purl = NoPurl THEN "package_exact" ELSE "purl_exact",
                             status |-> "affected", installed |-> u[1].version] : u \in used}),
      evidence |-> sources \o [i \in 1..Cardinality(qs) |->
                     [id |-> <<"query", Len(sources) + i>>, kind |-> "repository_dependency"]]]

-----------------------------------------------------------------------------
(* What the processor accepts (validateAnalysisInput, prepareInput).       *)

ItemsOf(input) == input.components \cup input.products
ItemIds(input) == {x.id : x \in ItemsOf(input)}
Targets(input) == {input.affected[i] : i \in DOMAIN input.affected}
Matched(input) == {input.matches[i] : i \in DOMAIN input.matches}
Cited(input) == {input.evidence[i].id : i \in DOMAIN input.evidence}

ValidInput(input) ==
  /\ input.affected # <<>>
  /\ IsInjective([i \in DOMAIN input.affected |-> input.affected[i].id])
  /\ Cardinality(ItemIds(input)) = Cardinality(ItemsOf(input))
  /\ input.matches # <<>>
  /\ IsInjective([i \in DOMAIN input.matches |-> <<input.matches[i].item, input.matches[i].target>>])
  /\ \A m \in Matched(input) : /\ m.item \in ItemIds(input)
                               /\ m.target \in {t.id : t \in Targets(input)}
                               /\ m.status # "not_affected"
  /\ Len(input.evidence) \in 1..MaxEvidence
  /\ IsInjective([i \in DOMAIN input.evidence |-> input.evidence[i].id])

NoInput == [id |-> 0]

Prepared(components, report, group) ==
  LET qs == Hits(report, group.keys)
      input == GroupInput(report, group, qs)
      sound == /\ SourcesUsable(report, group)
               /\ \A q \in qs : QueryUsable(components, report, group, q)
               /\ ValidInput(input)
  IN [id |-> input.id, ids |-> group.ids, keys |-> group.keys, failed |-> ~sound,
      input |-> IF sound THEN input ELSE NoInput]

Prepare(components, report) ==
  {Prepared(components, report, g) : g \in {h \in report.groups : Hits(report, h.keys) # {}}}

-----------------------------------------------------------------------------
(* Matching a CVE of NVD with the profile, and its evidence.               *)

(* npmProductCandidates: product names are guessed from npm packages only. *)
Products(components) ==
  {[id |-> <<"product", c.id[2]>>, eco |-> "npm", version |-> c.version,
    aliases |-> {c.name, <<Last(c.name)>>}] : c \in {d \in components : d.eco = "npm"}}

MatchComponent(c, t) ==
  IF c.purl # NoPurl /\ c.purl = t.purl THEN "purl_exact"
  ELSE IF c.eco = t.eco /\ c.name = t.name THEN "package_exact" ELSE "none"

MatchProduct(p, t) == IF t.name \in p.aliases THEN "product_exact" ELSE "none"

TargetMatches(components, target) ==
  LET package == target.kind = "package"
      items == IF package THEN components ELSE Products(components)
      Reason(x) == IF package THEN MatchComponent(x, target) ELSE MatchProduct(x, target)
      all == {[item |-> x.id, target |-> target.id, reason |-> Reason(x),
               status |-> Evaluate(x.eco, x.version, target.constraints),
               installed |-> x.version] : x \in items}
  IN {m \in all : m.reason # "none" /\ m.status # "not_affected"}

Match(components, vulnerability) ==
  FlattenSeq([i \in DOMAIN vulnerability.affected |->
                SetToSeq(TargetMatches(components, vulnerability.affected[i]))])

(* Build cites NVD once and each match; mvp-run adds what OSV linked.      *)
Build(components, vulnerability, matches) ==
  <<[id |-> <<"nvd", 1>>, kind |-> "nvd"]>>
    \o [i \in DOMAIN matches |->
          [id |-> <<"repo", i>>,
           kind |-> IF matches[i].item \in {c.id : c \in components}
                    THEN "repository_dependency" ELSE "repository_source"]]
    \o [i \in 1..vulnerability.osvLinks |-> [id |-> <<"osv", i>>, kind |-> "advisory"]]

-----------------------------------------------------------------------------
(* Assess: levels 1 and 2, per match and for the candidate.                *)

(* The matcher's reason is taken for the identity of the package.           *)
MutantExactComponent(c, t, reason) ==
  t.kind = "package" /\ reason \in {"purl_exact", "package_exact"}

ExactComponent(c, t, reason) ==
  /\ t.kind = "package"
  /\ \/ reason = "purl_exact" /\ c.purl # NoPurl /\ c.purl = t.purl
     \/ /\ reason = "package_exact" /\ c.eco = t.eco /\ Qualified(c) = t.name
        /\ c.purl = NoPurl \/ t.purl = NoPurl \/ c.purl = t.purl

Resolved(input, m) ==
  /\ Cardinality({x \in ItemsOf(input) : x.id = m.item}) = 1
  /\ Cardinality({i \in DOMAIN input.affected : input.affected[i].id = m.target}) = 1
  /\ Cardinality({i \in DOMAIN input.matches : <<input.matches[i].item, input.matches[i].target>>
                                                 = <<m.item, m.target>>}) = 1

TargetOf(input, m) == CHOOSE t \in Targets(input) : t.id = m.target

Presence(input, m) ==
  IF ~Resolved(input, m) THEN "unknown"
  ELSE IF \E c \in input.components : c.id = m.item /\ ExactComponent(c, TargetOf(input, m), m.reason)
  THEN "confirmed" ELSE "not_found"

Version(input, m) ==
  LET item == CHOOSE x \in ItemsOf(input) : x.id = m.item
  IN IF ~Resolved(input, m) \/ m.installed # item.version \/ TargetOf(input, m).constraints = {}
     THEN "unknown"
     ELSE CASE m.status = "affected" -> "confirmed"
            [] m.status = "not_affected" -> "not_affected"
            [] OTHER -> "unknown"

PackagePresence(input) ==
  LET found == {Presence(input, m) : m \in Matched(input)}
  IN IF "confirmed" \in found THEN "confirmed"
     ELSE IF found \subseteq {"not_found"} THEN "not_found" ELSE "unknown"

AffectedVersion(input) ==
  LET found == {<<Presence(input, m), Version(input, m)>> : m \in Matched(input)}
  IN IF <<"confirmed", "confirmed">> \in found THEN "confirmed"
     ELSE IF found = {<<"confirmed", "not_affected">>} THEN "not_affected" ELSE "unknown"
=============================================================================

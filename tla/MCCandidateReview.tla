------------------------- MODULE MCCandidateReview -------------------------
(* CandidateReview for TLC: an npm package used twice at one version, a     *)
(* scoped one of the same name, an unpinned Maven artifact and an ecosystem *)
(* nobody is asked about; two advisories that share a CVE or do not.        *)
EXTENDS CandidateReview

Component(i, eco, ns, name, version, purl) ==
  [id |-> <<"component", i>>, eco |-> eco, ns |-> ns, name |-> name, version |-> version,
   purl |-> purl]

lib == Component("a", "npm", <<>>, <<"lib">>, "v1", "pkg:lib")
libAgain == Component("b", "npm", <<>>, <<"lib">>, "v1", NoPurl)
libTwin == [libAgain EXCEPT !.id = <<"component", "a">>]
scoped == Component("c", "npm", <<"@org">>, <<"lib">>, "v1", NoPurl)
maven == Component("d", "Maven", <<"org">>, <<"lib">>, "latest", NoPurl)
nuget == Component("e", "NuGet", <<>>, <<"lib">>, "v1", NoPurl)

MCPinned == {"v1", "v2"}
MCCve == {1, 2}
MCProfile == {lib, scoped}

Advisories(affected) ==
  {[id |-> 11, aliases |-> s, withdrawn |-> w, affected |-> a, usable |-> u] :
     s \in SUBSET {1, 12}, w \in BOOLEAN, a \in affected, u \in {TRUE}}
Second ==
  {[id |-> 12, aliases |-> s, withdrawn |-> FALSE,
    affected |-> {<<"npm", <<"lib">>>>, <<"npm", <<"@org", "lib">>>>}, usable |-> u] :
     s \in {{}, {1}, {2, 11}}, u \in BOOLEAN}

MCSnapshots ==
  {[components |-> c,
    answer |-> [ids |-> [q \in DOMAIN Plan(c) |-> IF q.name = <<"lib">> THEN {11, 12} ELSE x],
                docs |-> {first, second}, nvd |-> n]] :
     c \in {{lib, libAgain, scoped}, {lib, libTwin}, {scoped, maven, nuget}},
     x \in {{}, {12}, {11, 12}},
     first \in Advisories({{<<"npm", <<"lib">>>>}, {<<"npm", <<"@org", "lib">>>>}}),
     second \in Second, n \in {{}, {1}}}

Target(i, kind, purl, name, versions) ==
  [id |-> i, kind |-> kind, purl |-> purl, eco |-> "npm", name |-> name,
   constraints |-> {[scheme |-> "cpe", versions |-> versions]}]
Vulnerability(id, affected, links, described) ==
  [id |-> id, affected |-> affected, osvLinks |-> links, described |-> described]

ByName == Target(21, "package", NoPurl, <<"lib">>, {"v1"})
ByPurl == Target(22, "package", "pkg:lib", <<"other">>, {"v1"})
ByProduct == Target(23, "product", NoPurl, <<"lib">>, {"v1"})
Elsewhere == Target(24, "package", NoPurl, <<"lib">>, {"v2"})
Absent == Target(25, "package", NoPurl, <<"absent">>, {"v1"})

Vulnerabilities(id) ==
  {Vulnerability(id, <<ByName>>, 1, TRUE), Vulnerability(id, <<ByPurl, Absent>>, 0, TRUE),
   Vulnerability(id, <<ByProduct>>, 0, TRUE), Vulnerability(id, <<Elsewhere>>, 0, TRUE),
   Vulnerability(id, <<ByName, ByName>>, 0, TRUE), Vulnerability(id, <<ByName>>, 0, FALSE)}

MCBatches ==
  {<<v>> : v \in Vulnerabilities(1)}
    \cup {<<Vulnerability(1, <<ByProduct>>, 0, TRUE), v, w>> :
             v \in Vulnerabilities(1), w \in Vulnerabilities(2)}
=============================================================================

------------------------ MODULE CandidateReviewProofs ------------------------
(***************************************************************************)
(* What CandidateReview promises of verdicts and counts, for any scans,    *)
(* profiles, lists of CVEs and answers of the model: an assessment claims  *)
(* an affected version only where an advisory lists it, what is published  *)
(* passes the checks of its checkpoint, every CVE is accounted for, and so *)
(* is every advisory that a scan was given.                                *)
(*                                                                         *)
(* The first is about the inputs alone: Honest holds of what Prepare and   *)
(* Match make (ScanHonest, MatchHonest), and a review keeps its input.  The *)
(* others need what each stage knows of the answers before it (Reviewed)   *)
(* and that the CVE under review is the current one and new (Accounted).   *)
(* The last rests on the union-find: its roots are a forest whose classes  *)
(* are what the links seen so far tie together (Rooted, Ties).             *)
(***************************************************************************)
EXTENDS CandidateReview, TLAPS, FiniteSetTheorems, SequenceTheorems, WellFoundedInduction

(* The claims of AssessedHonestly about one input.                         *)
Backed(in, m) ==
  \E c \in in.components, t \in Targets(in) :
    /\ c.id = m.item /\ t.id = m.target
    /\ (c.purl # NoPurl /\ c.purl = t.purl) \/ (c.eco = t.eco /\ Qualified(c) = t.name)
    /\ Version(in, m) = "confirmed" =>
         \E k \in t.constraints : c.version \in k.versions \cap Pinned

Honest(in) ==
  ValidInput(in) => /\ AffectedVersion(in) # "not_affected"
                    /\ \A m \in Matched(in) : Presence(in, m) = "confirmed" => Backed(in, m)

Sure(in) == AffectedVersion(in) = "confirmed" /\ PackagePresence(in) = "confirmed"

EntriesSound ==
  \A e \in entries : ~e.failed => e.input # NoInput /\ Honest(e.input) /\ Sure(e.input)

Ids == {0} \cup {v.id : v \in UNION {Range(b) : b \in Batches}}

Outcome ==
  [normalized : Nat, duplicates : Nat, matched : Nat, excluded : Nat,
   screened : SUBSET Ids, analyzed : SUBSET Ids,
   errors : Seq(Ids \X {"context", "osv", "match", "evidence", "analysis"}),
   matrix : Seq(Ids \X {"enrichment_error", "match_error", "unmatched", "matched"})]

Reviewing == stage \in {"screen", "analyze", "publish"}

Typed ==
  /\ batch \in Batches \cup {<<>>} /\ next \in 1 .. (Len(batch) + 1)
  /\ attempt \in 0 .. 1 /\ cancelled \in BOOLEAN
  /\ stage \in {"idle", "prepared", "screen", "analyze", "publish", "stopped"}
  /\ stage = "prepared" => batch = <<>>
  /\ Reviewing <=> input # NoInput
  /\ output \in Outcome

(* A screening that its checkpoint is read back with.                      *)
Screened ==
  /\ ValidInput(input) /\ screening.relevance \in Relevances
  /\ screening.ids # {} /\ screening.ids \subseteq Cited(input)
  /\ screening.relevance # "unknown" => /\ screening.ids \cap CitedAs(input, AdvisoryKinds) # {}
                                        /\ screening.ids \cap CitedAs(input, RepositoryKinds) # {}

Reviewed ==
  /\ Reviewing => Honest(input)
  /\ stage \notin {"analyze", "publish"} => screening = None /\ analysis = NoClaims
  /\ stage = "analyze" => Screened /\ screening.relevance = "related" /\ analysis = NoClaims
  /\ stage = "publish" =>
       /\ Screened
       /\ screening.relevance = "related" => AnalysisVerdict(input, analysis) = "accepted"
       /\ screening.relevance # "related" => analysis = NoClaims

-----------------------------------------------------------------------------
(* The books of a list of CVEs of which those before n are done, with the  *)
(* rows covered, and current of them (one or none) under review.           *)

Rows(out) == {out.matrix[i][1] : i \in DOMAIN out.matrix}
Broken(out) == {i \in DOMAIN out.errors : out.errors[i][2] \in {"evidence", "analysis"}}

Balanced(out, n, current, covered) ==
  /\ out.normalized + out.duplicates = n - 1 + current
  /\ out.normalized = Len(out.matrix) /\ Cardinality(covered) = Len(out.matrix)
  /\ Rows(out) = covered /\ IsFiniteSet(covered)
  /\ out.matched = current + Cardinality(Broken(out))
       + out.excluded + Cardinality(out.screened) + Cardinality(out.analyzed)
  /\ out.screened \cap out.analyzed = {}
  /\ IsFiniteSet(out.screened) /\ IsFiniteSet(out.analyzed)

Accounted ==
  batch # <<>> =>
    /\ input # NoInput => next <= Len(batch) /\ input.id = Current.id /\ Current.id \notin Seen
    /\ output.screened \cup output.analyzed \subseteq Seen
    /\ Balanced(output, next, IF input # NoInput THEN 1 ELSE 0,
                Seen \cup (IF input # NoInput THEN {input.id} ELSE {}))

IInv == Typed /\ EntriesSound /\ Reviewed /\ Accounted

-----------------------------------------------------------------------------
(* Sequences from sets, and the pieces of a flattened sequence.            *)

LEMMA ListOfSet ==
  ASSUME NEW S, IsFiniteSet(S)
  PROVE  SetToSeq(S) \in [1 .. Cardinality(S) -> S] /\ SetToSeq(S) \in Seq(S)
<1>1. \E f \in [1 .. Cardinality(S) -> S] : IsInjective(f)
  BY FS_CardinalityType DEF ExistsBijection, Bijection, Injection
<1>2. SetToSeq(S) \in [1 .. Cardinality(S) -> S]
  BY <1>1 DEF SetToSeq
<1>3. Cardinality(S) \in Nat
  BY FS_CardinalityType
<1> QED
  BY <1>2, <1>3

(* The least of a set of numbers, for arguments by induction.              *)
LEMMA Least ==
  ASSUME NEW S \in SUBSET Nat, S # {}
  PROVE  \E least \in S : \A k \in S : least <= k
<1>1. PICK least \in S : \A k \in S : ~(<<k, least>> \in OpToRel(<, Nat))
  BY NatLessThanWellFounded, WFMin
<1>2. \A k \in S : ~(k < least)
  BY <1>1 DEF OpToRel
<1>3. \A k \in S : k \in Nat /\ least \in Nat
  OBVIOUS
<1> QED
  BY <1>2, <1>3

(* A flattened sequence has the elements of its pieces.                    *)
LEMMA Flattened ==
  ASSUME NEW U, NEW n \in Nat, NEW seqs \in [1 .. n -> Seq(U)]
  PROVE  FlattenSeq(seqs) \in Seq(U)
<1> DEFINE Rule(g, k) == [i \in 1 .. k |-> IF i = 1 THEN seqs[i] ELSE g[i - 1] \o seqs[i]]
           Solved(k) == \E g : g = Rule(g, k)
           Bad == {k \in 0 .. n : ~Solved(k)}
<1>1. Len(seqs) = n
  OBVIOUS
<1> HIDE DEF Solved
<1>2. Bad = {}
  <2> SUFFICES ASSUME Bad # {} PROVE FALSE
    OBVIOUS
  <2>1. PICK k \in Bad : \A j \in Bad : k <= j
    <3>1. Bad \in SUBSET Nat
      OBVIOUS
    <3> HIDE DEF Bad
    <3> QED
      BY <3>1, Least
  <2>2. k \in 0 .. n /\ ~Solved(k)
    OBVIOUS
  <2>3. k # 0
    <3>1. 1 .. 0 = {}
      OBVIOUS
    <3>2. \A g, h : [i \in 1 .. 0 |-> g[i]] = Rule(h, 0)
      BY <3>1
    <3>3. Solved(0)
      BY <3>1, <3>2, Zenon DEF Solved
    <3> QED
      BY <2>2, <3>3
  <2>4. k - 1 \in 0 .. n /\ k - 1 \notin Bad
    BY <2>1, <2>2, <2>3
  <2>5. PICK g : g = Rule(g, k - 1)
    <3>1. Solved(k - 1)
      BY <2>4
    <3> QED
      BY <3>1 DEF Solved
  <2> DEFINE last == IF k = 1 THEN seqs[1] ELSE g[k - 1] \o seqs[k]
             h == [i \in 1 .. k |-> IF i < k THEN g[i] ELSE last]
  <2>6. ASSUME NEW i \in 1 .. k
        PROVE  h[i] = IF i = 1 THEN seqs[i] ELSE h[i - 1] \o seqs[i]
    <3>1. CASE i = k
      <4>1. h[i] = last
        BY <3>1
      <4>2. i # 1 => h[i - 1] = g[i - 1]
        BY <2>2, <3>1
      <4> QED
        BY <3>1, <4>1, <4>2
    <3>2. CASE i # k
      <4>1. i \in 1 .. (k - 1) /\ h[i] = g[i]
        BY <2>2, <3>2
      <4>2. g[i] = IF i = 1 THEN seqs[i] ELSE g[i - 1] \o seqs[i]
        BY <2>5, <4>1
      <4>3. i # 1 => h[i - 1] = g[i - 1]
        BY <2>2, <4>1
      <4> QED
        BY <4>1, <4>2, <4>3
    <3> QED
      BY <3>1, <3>2
  <2>7. DOMAIN h = 1 .. k /\ h = [i \in 1 .. k |-> h[i]]
    OBVIOUS
  <2> HIDE DEF h
  <2>8. h = Rule(h, k)
    BY <2>6, <2>7
  <2>9. Solved(k)
    BY <2>8 DEF Solved
  <2> QED
    BY <2>2, <2>9
<1> DEFINE flatten == CHOOSE g : g = Rule(g, n)
<1>3. \E g : g = Rule(g, n)
  <2>1. n \in 0 .. n /\ Solved(n)
    BY <1>2
  <2> QED
    BY <2>1 DEF Solved
<1>4. flatten = Rule(flatten, n)
  BY <1>3
<1>5. Len(seqs) # 0 => FlattenSeq(seqs) = flatten[n]
  BY <1>1 DEF FlattenSeq
<1> HIDE DEF flatten, Bad
<1> DEFINE Odd == {i \in 1 .. n : flatten[i] \notin Seq(U)}
<1>6. Odd = {}
  <2> SUFFICES ASSUME Odd # {} PROVE FALSE
    OBVIOUS
  <2>1. PICK k \in Odd : \A j \in Odd : k <= j
    <3>1. Odd \in SUBSET Nat
      OBVIOUS
    <3> HIDE DEF Odd
    <3> QED
      BY <3>1, Least
  <2>2. k \in 1 .. n /\ flatten[k] \notin Seq(U)
    OBVIOUS
  <2>3. flatten[k] = IF k = 1 THEN seqs[k] ELSE flatten[k - 1] \o seqs[k]
    BY <1>4, <2>2
  <2>4. k # 1 => k - 1 \in 1 .. n /\ k - 1 \notin Odd
    BY <2>1, <2>2
  <2>5. k # 1 => flatten[k - 1] \in Seq(U)
    BY <2>4
  <2>6. seqs[k] \in Seq(U)
    BY <2>2
  <2> QED
    BY <2>2, <2>3, <2>5, <2>6
<1>7. CASE n = 0
  BY <1>1, <1>7 DEF FlattenSeq
<1>8. CASE n # 0
  <2>1. n \in 1 .. n
    BY <1>8
  <2>2. flatten[n] \in Seq(U)
    BY <1>6, <2>1
  <2> QED
    BY <1>1, <1>5, <1>8, <2>2
<1> QED
  BY <1>7, <1>8

-----------------------------------------------------------------------------
(* What a valid input is claimed to have.                                  *)

LEMMA OneOf ==
  ASSUME NEW S, Cardinality(S) = 1, IsFiniteSet(S) \/ S = {}, NEW x \in S, NEW y \in S
  PROVE  x = y
<1>1. IsFiniteSet(S)
  BY FS_EmptySet
<1> QED
  BY <1>1, FS_Singleton

(* A version is never called unaffected: the processor refuses such a      *)
(* match.                                                                  *)
LEMMA NeverUnaffected ==
  ASSUME NEW in, ValidInput(in)
  PROVE  AffectedVersion(in) # "not_affected"
<1> SUFFICES ASSUME AffectedVersion(in) = "not_affected" PROVE FALSE
  OBVIOUS
<1>1. {<<Presence(in, m), Version(in, m)>> : m \in Matched(in)} = {<<"confirmed", "not_affected">>}
  BY DEF AffectedVersion
<1>2. PICK m \in Matched(in) : <<Presence(in, m), Version(in, m)>> = <<"confirmed", "not_affected">>
  BY <1>1
<1>3. Version(in, m) = "not_affected"
  BY <1>2
<1>4. m.status # "not_affected"
  BY DEF ValidInput
<1> QED
  BY <1>3, <1>4 DEF Version

(* A confirmed presence names its component and its target.                *)
LEMMA ConfirmedNames ==
  ASSUME NEW in, NEW m \in Matched(in), Presence(in, m) = "confirmed"
  PROVE  /\ Resolved(in, m)
         /\ \E c \in in.components : c.id = m.item /\ ExactComponent(c, TargetOf(in, m), m.reason)
BY DEF Presence

LEMMA EvaluateAffected ==
  ASSUME NEW eco, NEW installed, NEW constraints, Evaluate(eco, installed, constraints) = "affected"
  PROVE  \E k \in constraints : installed \in k.versions \cap Pinned
<1>1. "affected" \in {VersionStatus(eco, installed, k) : k \in constraints}
  BY DEF Evaluate
<1>2. PICK k \in constraints : VersionStatus(eco, installed, k) = "affected"
  BY <1>1
<1> QED
  BY <1>2 DEF VersionStatus

LEMMA FiniteImage ==
  ASSUME NEW S, IsFiniteSet(S), NEW f
  PROVE  IsFiniteSet({f[x] : x \in S})
<1> DEFINE g == [x \in S |-> f[x]]
<1>1. g \in Surjection(S, {f[x] : x \in S})
  BY DEF Surjection
<1> QED
  BY <1>1, FS_Surjection

(* Where an input has its targets and matches right, a confirmed presence  *)
(* is backed if an affected version is one that its target lists.          *)
LEMMA BackedBy ==
  ASSUME NEW in, ValidInput(in), IsFiniteSet(ItemsOf(in)), NEW m \in Matched(in),
         Presence(in, m) = "confirmed",
         ASSUME NEW c \in in.components, c.id = m.item, NEW t \in Targets(in), t.id = m.target,
                t.kind = "package", Version(in, m) = "confirmed"
         PROVE  \E k \in t.constraints : c.version \in k.versions \cap Pinned
  PROVE  Backed(in, m)
<1> DEFINE t == TargetOf(in, m)
<1>1. PICK c \in in.components : c.id = m.item /\ ExactComponent(c, t, m.reason)
  BY ConfirmedNames
<1>2. t \in Targets(in) /\ t.id = m.target
  BY DEF ValidInput, TargetOf
<1> HIDE DEF t
<1>3. t.kind = "package" /\ ((c.purl # NoPurl /\ c.purl = t.purl) \/ (c.eco = t.eco /\ Qualified(c) = t.name))
  BY <1>1 DEF ExactComponent
<1>4. Version(in, m) = "confirmed" => \E k \in t.constraints : c.version \in k.versions \cap Pinned
  BY <1>1, <1>2, <1>3
<1> QED
  BY <1>1, <1>2, <1>3, <1>4 DEF Backed

(* An item is found by its id.                                             *)
LEMMA ItemById ==
  ASSUME NEW in, IsFiniteSet(ItemsOf(in)), NEW m, Resolved(in, m),
         NEW c \in ItemsOf(in), NEW x \in ItemsOf(in), c.id = m.item, x.id = m.item
  PROVE  x = c
<1> DEFINE same == {y \in ItemsOf(in) : y.id = m.item}
<1>1. Cardinality(same) = 1
  BY DEF Resolved
<1>2. same \in SUBSET ItemsOf(in) /\ c \in same /\ x \in same
  OBVIOUS
<1>3. IsFiniteSet(same)
  BY <1>2, FS_Subset
<1> HIDE DEF same
<1> QED
  BY <1>1, <1>2, <1>3, OneOf

(* mvp-run: what Match finds is backed.                                    *)
LEMMA MatchesOfTargets ==
  ASSUME NEW components, IsFiniteSet(components), NEW v, v.affected \in Seq(Range(v.affected))
  PROVE  /\ IsFiniteSet(Products(components))
         /\ \A j \in DOMAIN Match(components, v) : \E i \in DOMAIN v.affected :
              Match(components, v)[j] \in TargetMatches(components, v.affected[i])
<1>1. IsFiniteSet(Products(components))
  <2> DEFINE npm == {d \in components : d.eco = "npm"}
             f == [c \in npm |-> [id |-> <<"product", c.id[2]>>, eco |-> "npm", version |-> c.version,
                                  aliases |-> {c.name, <<Last(c.name)>>}]]
  <2>1. npm \in SUBSET components
    OBVIOUS
  <2>2. IsFiniteSet(npm)
    BY <2>1, FS_Subset
  <2>3. Products(components) = {f[c] : c \in npm}
    BY DEF Products
  <2> HIDE DEF npm, f
  <2> QED
    BY <2>2, <2>3, FiniteImage
<1>2. ASSUME NEW t PROVE IsFiniteSet(TargetMatches(components, t))
  <2> DEFINE package == t.kind = "package"
             items == IF package THEN components ELSE Products(components)
             Reason(x) == IF package THEN MatchComponent(x, t) ELSE MatchProduct(x, t)
             f == [x \in items |-> [item |-> x.id, target |-> t.id, reason |-> Reason(x),
                                    status |-> Evaluate(x.eco, x.version, t.constraints),
                                    installed |-> x.version]]
  <2>1. IsFiniteSet(items)
    BY <1>1
  <2>2. TargetMatches(components, t) \in SUBSET {f[x] : x \in items}
    BY DEF TargetMatches
  <2> HIDE DEF items, f
  <2>3. IsFiniteSet({f[x] : x \in items})
    BY <2>1, FiniteImage
  <2> QED
    BY <2>2, <2>3, FS_Subset
<1> DEFINE n == Len(v.affected)
           U == UNION {TargetMatches(components, v.affected[i]) : i \in 1 .. n}
           seqs == [i \in 1 .. n |-> SetToSeq(TargetMatches(components, v.affected[i]))]
<1>3. n \in Nat /\ DOMAIN v.affected = 1 .. n
  OBVIOUS
<1>4. ASSUME NEW i \in 1 .. n PROVE SetToSeq(TargetMatches(components, v.affected[i])) \in Seq(U)
  <2>1. SetToSeq(TargetMatches(components, v.affected[i])) \in Seq(TargetMatches(components, v.affected[i]))
    BY <1>2, ListOfSet
  <2>2. TargetMatches(components, v.affected[i]) \subseteq U
    OBVIOUS
  <2> HIDE DEF U
  <2> QED
    BY <2>1, <2>2
<1>5. seqs \in [1 .. n -> Seq(U)]
  BY <1>4
<1>6. Match(components, v) = FlattenSeq(seqs)
  BY <1>3 DEF Match
<1> HIDE DEF n, seqs, U
<1>7. Match(components, v) \in Seq(U)
  BY <1>3, <1>5, <1>6, Flattened
<1>8. \A j \in DOMAIN Match(components, v) : Match(components, v)[j] \in U
  BY <1>7
<1> QED
  BY <1>1, <1>3, <1>8 DEF U

LEMMA MatchHonest ==
  ASSUME NEW components, IsFiniteSet(components), NEW v, v.affected \in Seq(Range(v.affected)),
         NEW in, in.components = components, in.products = Products(components),
         in.affected = v.affected, in.matches = Match(components, v)
  PROVE  Honest(in)
<1> SUFFICES ASSUME ValidInput(in) PROVE Honest(in)
  BY DEF Honest
<1>1. IsFiniteSet(ItemsOf(in))
  BY MatchesOfTargets, FS_Union DEF ItemsOf
<1>2. ASSUME NEW m \in Matched(in), Presence(in, m) = "confirmed",
             NEW c \in in.components, c.id = m.item, NEW t \in Targets(in), t.id = m.target,
             t.kind = "package", Version(in, m) = "confirmed"
      PROVE  \E k \in t.constraints : c.version \in k.versions \cap Pinned
  <2>1. PICK i \in DOMAIN v.affected : m \in TargetMatches(components, v.affected[i])
    BY MatchesOfTargets DEF Matched
  <2>2. m.target = v.affected[i].id
    BY <2>1 DEF TargetMatches
  <2>3. t = v.affected[i]
    <3>1. PICK j \in DOMAIN v.affected : t = v.affected[j]
      BY DEF Targets
    <3>2. IsInjective([l \in DOMAIN v.affected |-> v.affected[l].id])
      BY DEF ValidInput
    <3> QED
      BY <1>2, <2>2, <3>1, <3>2 DEF IsInjective
  <2>4. PICK x \in components :
          m.item = x.id /\ m.status = Evaluate(x.eco, x.version, t.constraints)
    BY <1>2, <2>1, <2>3 DEF TargetMatches
  <2>5. Resolved(in, m)
    BY <1>2, ConfirmedNames
  <2>6. x = c
    BY <1>1, <1>2, <2>4, <2>5, ItemById DEF ItemsOf
  <2>7. m.status = "affected"
    BY <1>2 DEF Version
  <2> QED
    BY <2>4, <2>6, <2>7, EvaluateAffected
<1>3. \A m \in Matched(in) : Presence(in, m) = "confirmed" => Backed(in, m)
  BY <1>1, <1>2, BackedBy
<1> QED
  BY <1>3, NeverUnaffected DEF Honest

-----------------------------------------------------------------------------
(* scananalyze.Prepare: a sound entry of a scan.                           *)

Used(report, qs) == UNION {{<<c, q>> : c \in report.queries[q].origins} : q \in qs}

MatchOf(u) ==
  [item |-> u[1].id, target |-> OsvTarget(u[1], u[2]).id,
   reason |-> IF u[1].purl = NoPurl THEN "package_exact" ELSE "purl_exact",
   status |-> "affected", installed |-> u[1].version]

LEMMA InputOfGroup ==
  ASSUME NEW report, NEW group, NEW qs
  PROVE  LET in == GroupInput(report, group, qs)
             used == Used(report, qs)
         IN /\ in.components = {u[1] : u \in used} /\ in.products = {}
            /\ in.affected = SetToSeq({OsvTarget(u[1], u[2]) : u \in used})
            /\ in.matches = SetToSeq({MatchOf(u) : u \in used})
            /\ in # NoInput
<1> DEFINE in == GroupInput(report, group, qs)
<1>1. "components" \in DOMAIN in
  BY DEF GroupInput
<1>2. "components" \notin DOMAIN NoInput
  BY DEF NoInput
<1>3. in # NoInput
  BY <1>1, <1>2
<1>4. in.components = {u[1] : u \in Used(report, qs)} /\ in.products = {}
  BY DEF GroupInput, Used
<1>5. /\ in.affected = SetToSeq({OsvTarget(u[1], u[2]) : u \in Used(report, qs)})
      /\ in.matches = SetToSeq({MatchOf(u) : u \in Used(report, qs)})
  BY DEF GroupInput, Used, MatchOf
<1> QED
  BY <1>3, <1>4, <1>5

(* The components of a usable query are pinned ones of the scan, and each  *)
(* is the only one with its id.                                            *)
AllUsable(components, report, group, qs) ==
  \A q \in qs : QueryUsable(components, report, group, q)

LEMMA UsedComponents ==
  ASSUME NEW components, IsFiniteSet(components), NEW report, NEW group, NEW qs,
         AllUsable(components, report, group, qs), NEW u \in Used(report, qs)
  PROVE  /\ u \in {<<c, QueryOf(c)>> : c \in components}
         /\ u[1] \in components /\ u[1].version \in Pinned /\ u[2].version = u[1].version
         /\ \A d \in components : d.id = u[1].id => d = u[1]
<1>1. PICK q \in qs : \E c \in report.queries[q].origins : u = <<c, q>>
  BY DEF Used
<1>2. PICK c \in report.queries[q].origins : u = <<c, q>>
  BY <1>1
<1>3. c \in components /\ Asked(c) /\ q = QueryOf(c)
  BY <1>2 DEF AllUsable, QueryUsable, Plan
<1>4. c.version \in Pinned /\ q.version = c.version
  BY <1>3 DEF Asked, QueryOf
<1>5. \A d \in components : d.id = c.id => d = c
  <2> DEFINE same == {d \in components : d.id = c.id}
  <2>1. Cardinality(same) = 1
    BY <1>2 DEF AllUsable, QueryUsable
  <2>2. same \in SUBSET components /\ c \in same
    BY <1>3
  <2>3. IsFiniteSet(same)
    BY <2>2, FS_Subset
  <2>4. \A d \in same : d = c
    <3> HIDE DEF same
    <3> QED
      BY <2>1, <2>2, <2>3, OneOf
  <2> QED
    BY <2>4
<1> QED
  BY <1>2, <1>3, <1>4, <1>5

LEMMA UsedFinite ==
  ASSUME NEW components, IsFiniteSet(components), NEW report, NEW group, NEW qs,
         AllUsable(components, report, group, qs)
  PROVE  IsFiniteSet(Used(report, qs))
<1> DEFINE f == [c \in components |-> <<c, QueryOf(c)>>]
<1>1. \A u \in Used(report, qs) : u \in {<<c, QueryOf(c)>> : c \in components}
  BY UsedComponents
<1>2. Used(report, qs) \in SUBSET {f[c] : c \in components}
  BY <1>1
<1> HIDE DEF f
<1>3. IsFiniteSet({f[c] : c \in components})
  BY FiniteImage
<1> QED
  BY <1>2, <1>3, FS_Subset

LEMMA ScanHonest ==
  ASSUME NEW components, IsFiniteSet(components), NEW report, NEW group,
         NEW e, e = Prepared(components, report, group), ~e.failed
  PROVE  e.input # NoInput /\ Honest(e.input) /\ Sure(e.input)
<1> DEFINE qs == Hits(report, group.keys)
           in == GroupInput(report, group, qs)
           used == Used(report, qs)
<1>1. e.input = in /\ ValidInput(in) /\ \A q \in qs : QueryUsable(components, report, group, q)
  BY DEF Prepared
<1>22. AllUsable(components, report, group, qs)
  BY <1>1 DEF AllUsable
<1> HIDE DEF qs, in
<1>2. /\ IsFiniteSet(used)
      /\ \A u \in used : /\ u[1] \in components /\ u[1].version \in Pinned
                         /\ u[2].version = u[1].version
                         /\ \A d \in components : d.id = u[1].id => d = u[1]
  <2>1. IsFiniteSet(Used(report, qs))
    BY <1>22, UsedFinite
  <2>2. ASSUME NEW u \in Used(report, qs)
        PROVE  /\ u[1] \in components /\ u[1].version \in Pinned
               /\ u[2].version = u[1].version
               /\ \A d \in components : d.id = u[1].id => d = u[1]
    BY <1>22, UsedComponents
  <2> QED
    BY <2>1, <2>2
<1>21. /\ in.components = {u[1] : u \in used} /\ in.products = {}
      /\ in.affected = SetToSeq({OsvTarget(u[1], u[2]) : u \in used})
      /\ in.matches = SetToSeq({MatchOf(u) : u \in used})
      /\ in # NoInput
  BY InputOfGroup, Zenon DEF in
<1> HIDE DEF used
<1> DEFINE target == [u \in used |-> OsvTarget(u[1], u[2])]
           match == [u \in used |-> MatchOf(u)]
<1>3. /\ in.affected = SetToSeq({target[u] : u \in used})
      /\ in.matches = SetToSeq({match[u] : u \in used})
  <2>1. {OsvTarget(u[1], u[2]) : u \in used} = {target[u] : u \in used}
    OBVIOUS
  <2>2. {MatchOf(u) : u \in used} = {match[u] : u \in used}
    OBVIOUS
  <2> HIDE DEF target, match
  <2> QED
    BY <1>21, <2>1, <2>2
<1>4. \A u \in used : /\ target[u] = OsvTarget(u[1], u[2]) /\ match[u] = MatchOf(u)
  OBVIOUS
<1> HIDE DEF target, match
<1>5. \A i \in DOMAIN in.affected : \E u \in used : in.affected[i] = target[u]
  <2>1. in.affected \in Seq({target[u] : u \in used})
    BY <1>2, <1>3, FiniteImage, ListOfSet
  <2> QED
    BY <2>1
<1>6. \A i \in DOMAIN in.matches : \E u \in used : in.matches[i] = match[u]
  <2>1. in.matches \in Seq({match[u] : u \in used})
    BY <1>2, <1>3, FiniteImage, ListOfSet
  <2> QED
    BY <2>1
<1>7. ItemsOf(in) = in.components /\ in.components \in SUBSET components
  BY <1>2, <1>21 DEF ItemsOf
<1>8. IsFiniteSet(ItemsOf(in))
  BY <1>7, FS_Subset
\* each match is of one component and its target
<1>9. ASSUME NEW m \in Matched(in)
      PROVE  \E c \in in.components, t \in Targets(in) :
               /\ c.id = m.item /\ t.id = m.target /\ t.kind = "package"
               /\ c.version \in Pinned /\ t.constraints = {[scheme |-> "osv", versions |-> {c.version}]}
               /\ m.status = "affected" /\ m.installed = c.version
               /\ ExactComponent(c, t, m.reason)
               /\ \A d \in in.components : d.id = m.item => d = c
               /\ \A s \in Targets(in) : s.id = m.target => s = t
  <2>1. PICK u \in used : m = MatchOf(u)
    BY <1>4, <1>6 DEF Matched
  <2>2. PICK t \in Targets(in) : t.id = m.target
    BY <1>1 DEF ValidInput
  <2>3. PICK w \in used : t = OsvTarget(w[1], w[2])
    BY <1>4, <1>5, <2>2 DEF Targets
  <2> DEFINE c == u[1]
  <2>4. /\ c \in in.components /\ c.id = m.item /\ c.version \in Pinned /\ u[2].version = c.version
        /\ \A d \in in.components : d.id = m.item => d = c
    BY <1>2, <1>21, <1>7, <2>1 DEF MatchOf
  <2>5. /\ m.target = <<c.purl, c.eco, Qualified(c), u[2].version>>
        /\ m.status = "affected" /\ m.installed = c.version
        /\ m.reason = IF c.purl = NoPurl THEN "package_exact" ELSE "purl_exact"
    BY <2>1 DEF MatchOf, OsvTarget
  <2>6. /\ t.id = <<t.purl, t.eco, t.name, w[2].version>> /\ t.kind = "package"
        /\ t.constraints = {[scheme |-> "osv", versions |-> {w[2].version}]}
    BY <2>3 DEF OsvTarget
  <2>7. /\ t.purl = c.purl /\ t.eco = c.eco /\ t.name = Qualified(c) /\ w[2].version = c.version
    BY <2>2, <2>4, <2>5, <2>6
  <2>8. ExactComponent(c, t, m.reason)
    BY <2>5, <2>6, <2>7 DEF ExactComponent
  <2>9. \A s \in Targets(in) : s.id = m.target => s = t
    <3>1. IsInjective([i \in DOMAIN in.affected |-> in.affected[i].id])
      BY <1>1 DEF ValidInput
    <3> QED
      BY <2>2, <3>1 DEF IsInjective, Targets
  <2> HIDE DEF c
  <2> QED
    BY <2>2, <2>4, <2>5, <2>6, <2>7, <2>8, <2>9
<1>10. Honest(in)
  <2>1. ASSUME NEW m \in Matched(in), Presence(in, m) = "confirmed",
               NEW c \in in.components, c.id = m.item, NEW t \in Targets(in), t.id = m.target,
               t.kind = "package", Version(in, m) = "confirmed"
        PROVE  \E k \in t.constraints : c.version \in k.versions \cap Pinned
    <3>1. c.version \in Pinned /\ t.constraints = {[scheme |-> "osv", versions |-> {c.version}]}
      BY <1>9, <2>1
    <3> QED
      BY <3>1
  <2>2. \A m \in Matched(in) : Presence(in, m) = "confirmed" => Backed(in, m)
    BY <1>1, <1>8, <2>1, BackedBy
  <2> QED
    BY <1>1, <2>2, NeverUnaffected DEF Honest
<1>11. Sure(in)
  <2>1. PICK m \in Matched(in) : TRUE
    <3>0. in.matches \in Seq({match[u] : u \in used})
      BY <1>2, <1>3, FiniteImage, ListOfSet
    <3>1. in.matches # <<>> /\ in.matches \in Seq({match[u] : u \in used})
      BY <1>1, <3>0 DEF ValidInput
    <3>2. 1 \in DOMAIN in.matches
      BY <3>1
    <3> QED
      BY <3>2 DEF Matched
  <2>2. PICK c \in in.components, t \in Targets(in) :
               /\ c.id = m.item /\ t.id = m.target /\ t.kind = "package"
               /\ c.version \in Pinned /\ t.constraints = {[scheme |-> "osv", versions |-> {c.version}]}
               /\ m.status = "affected" /\ m.installed = c.version
               /\ ExactComponent(c, t, m.reason)
               /\ \A d \in in.components : d.id = m.item => d = c
               /\ \A s \in Targets(in) : s.id = m.target => s = t
    BY <1>9
  <2>3. Cardinality({x \in ItemsOf(in) : x.id = m.item}) = 1
    <3>1. {x \in ItemsOf(in) : x.id = m.item} = {c}
      BY <1>7, <2>2
    <3> QED
      BY <3>1, FS_Singleton
  <2>4. Cardinality({i \in DOMAIN in.affected : in.affected[i].id = m.target}) = 1
    <3>1. PICK i \in DOMAIN in.affected : t = in.affected[i]
      BY DEF Targets
    <3>2. IsInjective([j \in DOMAIN in.affected |-> in.affected[j].id])
      BY <1>1 DEF ValidInput
    <3>3. {j \in DOMAIN in.affected : in.affected[j].id = m.target} = {i}
      BY <2>2, <3>1, <3>2 DEF IsInjective
    <3> QED
      BY <3>3, FS_Singleton
  <2>5. Cardinality({i \in DOMAIN in.matches : <<in.matches[i].item, in.matches[i].target>>
                                                 = <<m.item, m.target>>}) = 1
    <3>1. PICK i \in DOMAIN in.matches : m = in.matches[i]
      BY DEF Matched
    <3>2. IsInjective([j \in DOMAIN in.matches |-> <<in.matches[j].item, in.matches[j].target>>])
      BY <1>1 DEF ValidInput
    <3>3. {j \in DOMAIN in.matches : <<in.matches[j].item, in.matches[j].target>> = <<m.item, m.target>>} = {i}
      BY <3>1, <3>2 DEF IsInjective
    <3> QED
      BY <3>3, FS_Singleton
  <2>6. Resolved(in, m)
    BY <2>3, <2>4, <2>5 DEF Resolved
  <2>7. TargetOf(in, m) = t
    BY <2>2 DEF TargetOf
  <2>8. Presence(in, m) = "confirmed"
    BY <2>2, <2>6, <2>7 DEF Presence
  <2>9. (CHOOSE x \in ItemsOf(in) : x.id = m.item) = c
    BY <1>7, <2>2
  <2>10. Version(in, m) = "confirmed"
    BY <2>2, <2>6, <2>7, <2>9 DEF Version
  <2>11. <<"confirmed", "confirmed">> \in {<<Presence(in, x), Version(in, x)>> : x \in Matched(in)}
    BY <2>8, <2>10
  <2>12. "confirmed" \in {Presence(in, x) : x \in Matched(in)}
    BY <2>8
  <2> QED
    BY <2>11, <2>12 DEF Sure, AffectedVersion, PackagePresence
<1> QED
  BY <1>1, <1>21, <1>10, <1>11

-----------------------------------------------------------------------------
(* The books, entry by entry.                                              *)

AddRow(out, id, decision) ==
  [out EXCEPT !.normalized = @ + 1, !.matrix = Append(@, <<id, decision>>)]

LEMMA RowAdded ==
  ASSUME NEW out \in Outcome, NEW id \in Ids,
         NEW decision \in {"enrichment_error", "match_error", "unmatched", "matched"}
  PROVE  LET new == AddRow(out, id, decision)
         IN /\ new \in Outcome /\ Rows(new) = Rows(out) \cup {id}
            /\ Len(new.matrix) = Len(out.matrix) + 1 /\ new.normalized = out.normalized + 1
            /\ new.duplicates = out.duplicates /\ new.matched = out.matched
            /\ new.excluded = out.excluded /\ new.screened = out.screened
            /\ new.analyzed = out.analyzed /\ new.errors = out.errors
<1> DEFINE row == <<id, decision>>
           matrix == Append(out.matrix, row)
           new == AddRow(out, id, decision)
           All == Ids \X {"enrichment_error", "match_error", "unmatched", "matched"}
<1>1. out.matrix \in Seq(All) /\ out.normalized \in Nat /\ row \in All
  BY DEF Outcome
<1>2. /\ matrix \in Seq(All) /\ Len(matrix) = Len(out.matrix) + 1
      /\ DOMAIN matrix = DOMAIN out.matrix \cup {Len(out.matrix) + 1}
      /\ \A i \in DOMAIN out.matrix : matrix[i] = out.matrix[i]
      /\ matrix[Len(out.matrix) + 1] = row
  <2> HIDE DEF row
  <2> QED
    BY <1>1
<1>3. new = [out EXCEPT !.normalized = out.normalized + 1, !.matrix = matrix]
  BY DEF AddRow, Outcome
<1> HIDE DEF matrix, new
<1>4. {matrix[i][1] : i \in DOMAIN matrix} = {out.matrix[i][1] : i \in DOMAIN out.matrix} \cup {id}
  BY <1>2
<1>5. /\ new.matrix = matrix /\ new.normalized = out.normalized + 1
      /\ new.duplicates = out.duplicates /\ new.matched = out.matched
      /\ new.excluded = out.excluded /\ new.screened = out.screened
      /\ new.analyzed = out.analyzed /\ new.errors = out.errors
  BY <1>3 DEF Outcome
<1>6. new \in Outcome
  <2>1. PICK count \in Nat : count = out.normalized + 1
    BY <1>1
  <2>2. new = [out EXCEPT !.normalized = count, !.matrix = matrix]
    BY <1>3, <2>1
  <2>3. matrix \in Seq(Ids \X {"enrichment_error", "match_error", "unmatched", "matched"})
    BY <1>2
  <2> QED
    BY <2>2, <2>3 DEF Outcome
<1> QED
  BY <1>2, <1>4, <1>5, <1>6 DEF Rows, new

LEMMA BrokenFinite ==
  ASSUME NEW out \in Outcome
  PROVE  IsFiniteSet(Broken(out)) /\ Cardinality(Broken(out)) \in Nat
<1>1. out.errors \in Seq(Ids \X {"context", "osv", "match", "evidence", "analysis"})
  BY DEF Outcome
<1>2. Broken(out) \in SUBSET (1 .. Len(out.errors))
  BY <1>1 DEF Broken
<1>3. IsFiniteSet(1 .. Len(out.errors))
  BY <1>1, FS_Interval
<1> QED
  BY <1>2, <1>3, FS_Subset, FS_CardinalityType

LEMMA ErrorAdded ==
  ASSUME NEW out \in Outcome, NEW id \in Ids,
         NEW at \in {"context", "osv", "match", "evidence", "analysis"}
  PROVE  LET new == Fail(out, id, at)
         IN /\ new \in Outcome
            /\ Cardinality(Broken(new)) =
                 Cardinality(Broken(out)) + IF at \in {"evidence", "analysis"} THEN 1 ELSE 0
            /\ new.normalized = out.normalized /\ new.matrix = out.matrix
            /\ new.duplicates = out.duplicates /\ new.matched = out.matched
            /\ new.excluded = out.excluded /\ new.screened = out.screened
            /\ new.analyzed = out.analyzed
<1> DEFINE error == <<id, at>>
           errors == Append(out.errors, error)
           new == Fail(out, id, at)
           All == Ids \X {"context", "osv", "match", "evidence", "analysis"}
           last == Len(out.errors) + 1
<1>1. out.errors \in Seq(All) /\ error \in All
  BY DEF Outcome
<1>2. /\ errors \in Seq(All) /\ DOMAIN errors = DOMAIN out.errors \cup {last}
      /\ \A i \in DOMAIN out.errors : errors[i] = out.errors[i] /\ i # last
      /\ errors[last] = error
  <2> HIDE DEF error
  <2> QED
    BY <1>1
<1>3. new = [out EXCEPT !.errors = errors]
  BY DEF Fail, Outcome
<1> HIDE DEF errors, new, last
<1>4. /\ new.errors = errors /\ new.normalized = out.normalized /\ new.matrix = out.matrix
      /\ new.duplicates = out.duplicates /\ new.matched = out.matched
      /\ new.excluded = out.excluded /\ new.screened = out.screened
      /\ new.analyzed = out.analyzed
  BY <1>3 DEF Outcome
<1>5. new \in Outcome
  BY <1>2, <1>3 DEF Outcome
<1>6. last \notin Broken(out) /\ IsFiniteSet(Broken(out)) /\ Cardinality(Broken(out)) \in Nat
  BY <1>2, BrokenFinite DEF Broken
<1>7. Broken(new) = IF at \in {"evidence", "analysis"} THEN Broken(out) \cup {last} ELSE Broken(out)
  BY <1>2, <1>4 DEF Broken
<1>8. Cardinality(Broken(out) \cup {last}) = Cardinality(Broken(out)) + 1
  BY <1>6, FS_AddElement
<1>9. Cardinality(Broken(new)) =
        Cardinality(Broken(out)) + IF at \in {"evidence", "analysis"} THEN 1 ELSE 0
  BY <1>6, <1>7, <1>8
<1> QED
  BY <1>4, <1>5, <1>9 DEF new

LEMMA RowBooked ==
  ASSUME NEW out \in Outcome, NEW id \in Ids, NEW n \in Nat, NEW covered, id \notin covered,
         NEW decision \in {"enrichment_error", "match_error", "unmatched", "matched"},
         Balanced(out, n, 0, covered)
  PROVE  /\ Balanced(AddRow(out, id, decision), n + 1, 0, covered \cup {id})
         /\ AddRow(out, id, decision) \in Outcome
<1> DEFINE new == AddRow(out, id, decision)
<1>1. /\ new \in Outcome /\ Rows(new) = Rows(out) \cup {id}
      /\ Len(new.matrix) = Len(out.matrix) + 1 /\ new.normalized = out.normalized + 1
      /\ new.duplicates = out.duplicates /\ new.matched = out.matched
      /\ new.excluded = out.excluded /\ new.screened = out.screened
      /\ new.analyzed = out.analyzed /\ new.errors = out.errors
  BY RowAdded
<1> HIDE DEF new
<1>2. Broken(new) = Broken(out)
  BY <1>1 DEF Broken
<1>3. /\ IsFiniteSet(covered \cup {id})
      /\ Cardinality(covered \cup {id}) = Cardinality(covered) + 1
  BY FS_AddElement DEF Balanced
<1>4. out.normalized \in Nat /\ out.duplicates \in Nat
  BY DEF Outcome
<1>5. new.normalized + new.duplicates = (n + 1) - 1 + 0
  BY <1>1, <1>4 DEF Balanced
<1> QED
  BY <1>1, <1>2, <1>3, <1>5 DEF Balanced, new

LEMMA MatchBooked ==
  ASSUME NEW out \in Outcome, NEW id \in Ids, NEW n \in Nat, NEW covered, id \notin covered,
         Balanced(out, n, 0, covered)
  PROVE  LET row == AddRow(out, id, "matched")
             new == [row EXCEPT !.matched = @ + 1]
         IN /\ new \in Outcome /\ Balanced(new, n, 1, covered \cup {id})
            /\ new.screened = out.screened /\ new.analyzed = out.analyzed
<1> DEFINE row == AddRow(out, id, "matched")
           new == [row EXCEPT !.matched = @ + 1]
<1>1. Balanced(row, n + 1, 0, covered \cup {id}) /\ row \in Outcome
  BY RowBooked
<1>2. row.screened = out.screened /\ row.analyzed = out.analyzed
  BY RowAdded
<1> HIDE DEF row
<1>3. PICK count \in Nat : row.matched = count
  BY <1>1 DEF Outcome
<1>4. new = [row EXCEPT !.matched = count + 1] /\ count + 1 \in Nat
  BY <1>1, <1>3 DEF Outcome
<1> HIDE DEF new
<1>5. /\ new \in Outcome /\ new.matched = row.matched + 1
      /\ new.normalized = row.normalized /\ new.matrix = row.matrix
      /\ new.duplicates = row.duplicates /\ new.errors = row.errors
      /\ new.excluded = row.excluded /\ new.screened = row.screened
      /\ new.analyzed = row.analyzed
  BY <1>1, <1>3, <1>4 DEF Outcome
<1>6. Broken(new) = Broken(row) /\ Rows(new) = Rows(row)
  BY <1>5 DEF Broken, Rows
<1>7. /\ row.excluded \in Nat /\ Cardinality(Broken(row)) \in Nat
      /\ Cardinality(row.screened) \in Nat /\ Cardinality(row.analyzed) \in Nat
  BY <1>1, BrokenFinite, FS_CardinalityType DEF Balanced, Outcome
<1>8. new.matched = 1 + Cardinality(Broken(new)) + new.excluded + Cardinality(new.screened) + Cardinality(new.analyzed)
  <2>1. row.matched = 0 + Cardinality(Broken(row)) + row.excluded
                        + Cardinality(row.screened) + Cardinality(row.analyzed)
    BY <1>1 DEF Balanced
  <2>2. /\ new.matched = row.matched + 1 /\ Cardinality(Broken(new)) = Cardinality(Broken(row))
        /\ new.excluded = row.excluded /\ Cardinality(new.screened) = Cardinality(row.screened)
        /\ Cardinality(new.analyzed) = Cardinality(row.analyzed)
    BY <1>5, <1>6
  <2> QED
    BY <1>7, <2>1, <2>2
<1>9. new.normalized + new.duplicates = n - 1 + 1
  BY <1>1, <1>5 DEF Balanced
<1>10. Balanced(new, n, 1, covered \cup {id})
  BY <1>1, <1>5, <1>6, <1>8, <1>9 DEF Balanced
<1> QED
  BY <1>2, <1>5, <1>10 DEF new, row

(* An error of the list, or of a CVE that is not matched, does not count; *)
(* one of a matched CVE ends it.                                           *)
LEMMA ErrorBooked ==
  ASSUME NEW out \in Outcome, NEW id \in Ids, NEW n \in Nat, NEW covered
  PROVE  /\ \A current \in 0 .. 1, at \in {"context", "osv", "match"} :
              Balanced(out, n, current, covered) => Balanced(Fail(out, id, at), n, current, covered)
         /\ \A at \in {"evidence", "analysis"} :
              Balanced(out, n, 1, covered) => Balanced(Fail(out, id, at), n + 1, 0, covered)
<1>1. ASSUME NEW current \in 0 .. 1, NEW at \in {"context", "osv", "match"},
             Balanced(out, n, current, covered)
      PROVE  Balanced(Fail(out, id, at), n, current, covered)
  <2> DEFINE new == Fail(out, id, at)
  <2>0. /\ at \in {"context", "osv", "match", "evidence", "analysis"}
        /\ at \notin {"evidence", "analysis"}
    BY <1>1
  <2>1. /\ Cardinality(Broken(new)) = Cardinality(Broken(out)) + 0
        /\ new.normalized = out.normalized /\ new.matrix = out.matrix
        /\ new.duplicates = out.duplicates /\ new.matched = out.matched
        /\ new.excluded = out.excluded /\ new.screened = out.screened
        /\ new.analyzed = out.analyzed
    BY <2>0, ErrorAdded
  <2> HIDE DEF new
  <2>2. Rows(new) = Rows(out)
    BY <2>1 DEF Rows
  <2>3. Cardinality(Broken(new)) = Cardinality(Broken(out))
    BY <2>1, BrokenFinite
  <2>4. Balanced(new, n, current, covered)
    BY <1>1, <2>1, <2>2, <2>3 DEF Balanced
  <2> QED
    BY <2>4 DEF new
<1>2. ASSUME NEW at \in {"evidence", "analysis"}, Balanced(out, n, 1, covered)
      PROVE  Balanced(Fail(out, id, at), n + 1, 0, covered)
  <2> DEFINE new == Fail(out, id, at)
  <2>0. at \in {"context", "osv", "match", "evidence", "analysis"} /\ new \in Outcome
    BY <1>2, ErrorAdded
  <2>1. /\ Cardinality(Broken(new)) = Cardinality(Broken(out)) + 1
        /\ new.normalized = out.normalized /\ new.matrix = out.matrix
        /\ new.duplicates = out.duplicates /\ new.matched = out.matched
        /\ new.excluded = out.excluded /\ new.screened = out.screened
        /\ new.analyzed = out.analyzed
    BY <1>2, <2>0, ErrorAdded
  <2> HIDE DEF new
  <2>2. Rows(new) = Rows(out)
    BY <2>1 DEF Rows
  <2>3. /\ out.excluded \in Nat /\ Cardinality(Broken(out)) \in Nat
        /\ Cardinality(out.screened) \in Nat /\ Cardinality(out.analyzed) \in Nat
    BY <1>2, BrokenFinite, FS_CardinalityType DEF Balanced, Outcome
  <2>4. new.matched = 0 + Cardinality(Broken(new)) + new.excluded + Cardinality(new.screened) + Cardinality(new.analyzed)
    BY <1>2, <2>1, <2>3 DEF Balanced
  <2>5. new.normalized + new.duplicates = (n + 1) - 1 + 0
    BY <1>2, <2>1 DEF Balanced
  <2>6. Balanced(new, n + 1, 0, covered)
    BY <1>2, <2>1, <2>2, <2>4, <2>5 DEF Balanced
  <2> QED
    BY <2>6 DEF new
<1> QED
  BY <1>1, <1>2

(* A verdict ends the CVE under review.                                    *)
Verdicts(out, id) ==
  {[out EXCEPT !.excluded = @ + 1], [out EXCEPT !.analyzed = @ \cup {id}],
   [out EXCEPT !.screened = @ \cup {id}]}

LEMMA VerdictBooked ==
  ASSUME NEW out \in Outcome, NEW id \in Ids, NEW n \in Nat, NEW covered,
         Balanced(out, n, 1, covered), id \notin out.screened \cup out.analyzed,
         NEW new \in Verdicts(out, id)
  PROVE  /\ new \in Outcome /\ Balanced(new, n + 1, 0, covered)
         /\ new.screened \cup new.analyzed \subseteq (out.screened \cup out.analyzed) \cup {id}
<1>1. PICK count \in Nat : count = out.excluded
  BY DEF Outcome
<1>2. /\ IsFiniteSet(out.screened \cup {id}) /\ IsFiniteSet(out.analyzed \cup {id})
      /\ Cardinality(out.screened \cup {id}) = Cardinality(out.screened) + 1
      /\ Cardinality(out.analyzed \cup {id}) = Cardinality(out.analyzed) + 1
  BY FS_AddElement DEF Balanced
<1>3. /\ Cardinality(Broken(out)) \in Nat
      /\ Cardinality(out.screened) \in Nat /\ Cardinality(out.analyzed) \in Nat
      /\ out.normalized \in Nat /\ out.duplicates \in Nat
  BY BrokenFinite, FS_CardinalityType DEF Balanced, Outcome
<1>4. /\ new.normalized = out.normalized /\ new.matrix = out.matrix /\ new.matched = out.matched
      /\ new.duplicates = out.duplicates /\ new.errors = out.errors
      /\ \/ /\ new.excluded = count + 1
            /\ new.screened = out.screened /\ new.analyzed = out.analyzed
         \/ /\ new.excluded = count
            /\ new.screened = out.screened /\ new.analyzed = out.analyzed \cup {id}
         \/ /\ new.excluded = count
            /\ new.screened = out.screened \cup {id} /\ new.analyzed = out.analyzed
  BY <1>1 DEF Outcome, Verdicts
<1>5. new \in Outcome
  <2>1. CASE new = [out EXCEPT !.excluded = @ + 1]
    <3>1. new = [out EXCEPT !.excluded = count + 1] /\ count + 1 \in Nat
      BY <1>1, <2>1 DEF Outcome
    <3> QED
      BY <3>1 DEF Outcome
  <2>2. CASE new = [out EXCEPT !.analyzed = @ \cup {id}]
    BY <2>2 DEF Outcome
  <2>3. CASE new = [out EXCEPT !.screened = @ \cup {id}]
    BY <2>3 DEF Outcome
  <2> QED
    BY <2>1, <2>2, <2>3 DEF Verdicts
<1>6. Broken(new) = Broken(out) /\ Rows(new) = Rows(out)
  BY <1>4 DEF Broken, Rows
<1>7. out.matched = 1 + Cardinality(Broken(out)) + count
                      + Cardinality(out.screened) + Cardinality(out.analyzed)
  BY <1>1 DEF Balanced
<1>8. new.matched = 0 + Cardinality(Broken(new)) + new.excluded
                      + Cardinality(new.screened) + Cardinality(new.analyzed)
  <2>1. Cardinality(Broken(new)) = Cardinality(Broken(out))
    BY <1>6
  <2>2. \/ /\ new.excluded = count + 1
           /\ Cardinality(new.screened) = Cardinality(out.screened)
           /\ Cardinality(new.analyzed) = Cardinality(out.analyzed)
        \/ /\ new.excluded = count
           /\ Cardinality(new.screened) = Cardinality(out.screened)
           /\ Cardinality(new.analyzed) = Cardinality(out.analyzed) + 1
        \/ /\ new.excluded = count
           /\ Cardinality(new.screened) = Cardinality(out.screened) + 1
           /\ Cardinality(new.analyzed) = Cardinality(out.analyzed)
    BY <1>2, <1>4
  <2>3. new.matched = 1 + Cardinality(Broken(out)) + count
                        + Cardinality(out.screened) + Cardinality(out.analyzed)
    BY <1>4, <1>7
  <2> QED
    BY <1>3, <2>1, <2>2, <2>3
<1>9. new.normalized + new.duplicates = (n + 1) - 1 + 0
  BY <1>3, <1>4 DEF Balanced
<1>10. new.screened \cap new.analyzed = {} /\ IsFiniteSet(new.screened) /\ IsFiniteSet(new.analyzed)
  BY <1>2, <1>4 DEF Balanced
<1> QED
  BY <1>4, <1>5, <1>6, <1>8, <1>9, <1>10 DEF Balanced

-----------------------------------------------------------------------------
LEMMA InitEstablishes == Init => IInv
<1> SUFFICES ASSUME Init PROVE IInv
  OBVIOUS
<1>1. Output \in Outcome
  BY EmptySeq DEF Output, Outcome
<1>2. /\ next = 1 /\ output = Output /\ input = NoInput /\ attempt = 0
      /\ screening = None /\ analysis = NoClaims /\ cancelled = FALSE
  BY DEF Init
<1>3. CASE /\ snapshot \in Snapshots /\ batch = <<>> /\ stage = "prepared"
           /\ entries = Prepare(snapshot.components, Report(snapshot.components, snapshot.answer))
  <2>1. ASSUME NEW e \in entries, ~e.failed PROVE e.input # NoInput /\ Honest(e.input) /\ Sure(e.input)
    <3>1. PICK group : e = Prepared(snapshot.components, Report(snapshot.components, snapshot.answer), group)
      BY <1>3 DEF Prepare
    <3>2. IsFiniteSet(snapshot.components)
      BY <1>3, CandidateReviewAssumption
    <3> QED
      BY <2>1, <3>1, <3>2, ScanHonest
  <2>2. Typed
    <3>1. Len(batch) = 0 /\ 1 \in 1 .. (0 + 1) /\ 0 \in 0 .. 1
      BY <1>3
    <3>2. cancelled \in BOOLEAN
      BY <1>2
    <3> QED
      BY <1>1, <1>2, <1>3, <3>1, <3>2 DEF Typed, Reviewing
  <2> QED
    BY <1>2, <1>3, <2>1, <2>2 DEF IInv, EntriesSound, Reviewed, Reviewing, Accounted
<1>4. CASE snapshot = NoScan /\ batch \in Batches /\ stage = "idle" /\ entries = {}
  <2>1. Len(batch) \in Nat
    BY <1>4, CandidateReviewAssumption
  <2>2. Typed
    <3>1. 1 \in 1 .. (Len(batch) + 1) /\ 0 \in 0 .. 1
      BY <2>1
    <3>2. cancelled \in BOOLEAN
      BY <1>2
    <3> QED
      BY <1>1, <1>2, <1>4, <3>1, <3>2 DEF Typed, Reviewing
  <2>3. Seen = {}
    BY <1>2 DEF Seen
  <2>4. Balanced(Output, 1, 0, {})
    <3>1. Broken(Output) = {} /\ Rows(Output) = {} /\ Len(Output.matrix) = 0
      BY DEF Broken, Rows, Output
    <3> QED
      BY <3>1, FS_EmptySet DEF Balanced, Output
  <2>5. Accounted
    BY <1>2, <2>3, <2>4 DEF Accounted, Output
  <2> QED
    BY <1>2, <1>4, <2>2, <2>5 DEF IInv, EntriesSound, Reviewed, Reviewing
<1> QED
  BY <1>3, <1>4 DEF Init

-----------------------------------------------------------------------------
(* mvp-run between two reviews.                                            *)

LEMMA WhenReady ==
  ASSUME IInv, Ready
  PROVE  /\ batch # <<>> /\ batch \in Batches /\ input = NoInput
         /\ next \in 1 .. Len(batch) /\ next \in Nat /\ Len(batch) \in Nat
         /\ Current \in Range(batch) /\ Current.id \in Ids
         /\ output \in Outcome /\ Balanced(output, next, 0, Seen)
         /\ output.screened \cup output.analyzed \subseteq Seen
<1>1. next \in 1 .. (Len(batch) + 1) /\ next <= Len(batch) /\ batch \in Batches \cup {<<>>}
  BY DEF IInv, Typed, Ready
<1>2. batch # <<>>
  BY <1>1
<1>3. batch \in Batches /\ batch \in Seq(Range(batch))
  BY <1>1, <1>2, CandidateReviewAssumption
<1>4. Len(batch) \in Nat /\ next \in 1 .. Len(batch)
  BY <1>1, <1>3
<1>5. Current \in Range(batch)
  BY <1>3, <1>4 DEF Current
<1>6. Current.id \in Ids
  BY <1>3, <1>5 DEF Ids
<1>7. input = NoInput /\ output \in Outcome
  BY DEF IInv, Typed, Ready, Reviewing
<1>8. Balanced(output, next, 0, Seen)
  <2>1. Balanced(output, next, 0, Seen \cup {})
    BY <1>2, <1>7 DEF IInv, Accounted
  <2> QED
    BY <2>1
<1> QED
  BY <1>2, <1>3, <1>4, <1>5, <1>6, <1>7, <1>8 DEF IInv, Accounted

LEMMA SeenGrows ==
  ASSUME next \in Nat, next' = next + 1, next >= 1, batch' = batch
  PROVE  Seen' = Seen \cup {Current.id}
<1>1. \A i : i \in 1 .. ((next + 1) - 1) <=> i \in 1 .. (next - 1) \/ i = next
  OBVIOUS
<1>2. {batch[i].id : i \in 1 .. ((next + 1) - 1)} = {batch[i].id : i \in 1 .. (next - 1)} \cup {batch[next].id}
  BY <1>1
<1> QED
  BY <1>2 DEF Seen, Current

LEMMA SkipStep ==
  ASSUME IInv, Ready, NEW out \in Outcome, Skip(out),
         Balanced(out, next + 1, 0, Seen \cup {Current.id}),
         out.screened = output.screened, out.analyzed = output.analyzed
  PROVE  IInv'
<1>1. /\ batch # <<>> /\ input = NoInput /\ next \in 1 .. Len(batch) /\ next \in Nat /\ Len(batch) \in Nat
      /\ output.screened \cup output.analyzed \subseteq Seen
  BY WhenReady
<1>2. /\ output' = out /\ next' = next + 1
      /\ UNCHANGED <<entries, batch, input, stage, attempt, screening, analysis, cancelled>>
  BY DEF Skip, review
<1>3. Seen' = Seen \cup {Current.id}
  BY <1>1, <1>2, SeenGrows
<1>4. next' \in 1 .. (Len(batch') + 1)
  BY <1>1, <1>2
<1>5. Typed'
  BY <1>2, <1>4 DEF IInv, Typed, Reviewing
<1>6. Balanced(out, next + 1, 0, (Seen \cup {Current.id}) \cup {})
  <2>1. (Seen \cup {Current.id}) \cup {} = Seen \cup {Current.id}
    OBVIOUS
  <2> QED
    BY <2>1
<1>7. Balanced(output', next', 0, Seen' \cup {})
  BY <1>2, <1>3, <1>6
<1>8. Accounted'
  BY <1>1, <1>2, <1>3, <1>7 DEF Accounted
<1> QED
  BY <1>2, <1>5, <1>8 DEF IInv, EntriesSound, Reviewed, Reviewing, Screened

LEMMA RowOf ==
  ASSUME NEW decision
  PROVE  Row(decision) = AddRow(output, Current.id, decision)
BY DEF Row, AddRow

LEMMA DuplicateStep ==
  ASSUME IInv, Duplicate
  PROVE  IInv'
<1> DEFINE out == [output EXCEPT !.duplicates = @ + 1]
<1>1. Ready /\ Current.id \in Seen /\ Skip(out)
  BY DEF Duplicate
<1>2. /\ next \in Nat /\ output \in Outcome /\ Balanced(output, next, 0, Seen)
      /\ Seen \cup {Current.id} = Seen
  BY <1>1, WhenReady
<1>3. PICK count \in Nat : output.duplicates = count
  BY <1>2 DEF Outcome
<1>4. out = [output EXCEPT !.duplicates = count + 1] /\ count + 1 \in Nat
  BY <1>2, <1>3 DEF Outcome
<1> HIDE DEF out
<1>5. /\ out \in Outcome /\ out.duplicates = count + 1 /\ out.normalized = output.normalized
      /\ out.matrix = output.matrix /\ out.matched = output.matched /\ out.errors = output.errors
      /\ out.excluded = output.excluded /\ out.screened = output.screened
      /\ out.analyzed = output.analyzed
  BY <1>2, <1>4 DEF Outcome
<1>6. Broken(out) = Broken(output) /\ Rows(out) = Rows(output)
  BY <1>5 DEF Broken, Rows
<1>7. out.normalized + out.duplicates = (next + 1) - 1 + 0
  <2>1. output.normalized \in Nat /\ output.normalized + count = next - 1 + 0
    BY <1>2, <1>3 DEF Balanced, Outcome
  <2> QED
    BY <1>2, <1>5, <2>1
<1>8. Balanced(out, next + 1, 0, Seen)
  BY <1>2, <1>5, <1>6, <1>7 DEF Balanced
<1> QED
  BY <1>1, <1>2, <1>5, <1>8, SkipStep

LEMMA UnmatchedStep ==
  ASSUME IInv, Unmatched \/ EnrichFails \/ MatchFails
  PROVE  IInv'
<1>1. Ready /\ Current.id \notin Seen
  BY DEF Unmatched, EnrichFails, MatchFails
<1>2. /\ next \in Nat /\ output \in Outcome /\ Balanced(output, next, 0, Seen) /\ Current.id \in Ids
  BY <1>1, WhenReady
<1>3. ASSUME NEW decision \in {"enrichment_error", "match_error", "unmatched"}
      PROVE  /\ Row(decision) \in Outcome
             /\ Balanced(Row(decision), next + 1, 0, Seen \cup {Current.id})
             /\ Row(decision).screened = output.screened /\ Row(decision).analyzed = output.analyzed
  <2>0. decision \in {"enrichment_error", "match_error", "unmatched", "matched"}
    BY <1>3
  <2>1. /\ AddRow(output, Current.id, decision) \in Outcome
        /\ Balanced(AddRow(output, Current.id, decision), next + 1, 0, Seen \cup {Current.id})
    BY <1>1, <1>2, <2>0, RowBooked
  <2>2. /\ AddRow(output, Current.id, decision).screened = output.screened
        /\ AddRow(output, Current.id, decision).analyzed = output.analyzed
    BY <1>2, <2>0, RowAdded
  <2> QED
    BY <2>1, <2>2, RowOf
<1>4. CASE Unmatched
  BY <1>1, <1>3, <1>4, SkipStep DEF Unmatched
<1>5. ASSUME NEW decision \in {"enrichment_error", "match_error"}, NEW at \in {"osv", "match"},
             Skip(Fail(Row(decision), Current.id, at))
      PROVE  IInv'
  <2> DEFINE row == Row(decision)
             out == Fail(row, Current.id, at)
  <2>1. /\ row \in Outcome /\ Balanced(row, next + 1, 0, Seen \cup {Current.id})
        /\ row.screened = output.screened /\ row.analyzed = output.analyzed
    BY <1>3, <1>5
  <2>2. /\ next + 1 \in Nat /\ at \in {"context", "osv", "match"}
        /\ at \in {"context", "osv", "match", "evidence", "analysis"}
        /\ at \notin {"evidence", "analysis"}
    BY <1>2, <1>5
  <2>3. Skip(out)
    BY <1>5
  <2> HIDE DEF row
  <2>4. out \in Outcome /\ out.screened = row.screened /\ out.analyzed = row.analyzed
    BY <1>2, <2>1, <2>2, ErrorAdded
  <2>5. Balanced(out, next + 1, 0, Seen \cup {Current.id})
    BY <1>2, <2>1, <2>2, ErrorBooked
  <2> HIDE DEF out
  <2> QED
    BY <1>1, <2>1, <2>3, <2>4, <2>5, SkipStep
<1>6. CASE EnrichFails
  BY <1>5, <1>6 DEF EnrichFails
<1>7. CASE MatchFails
  BY <1>5, <1>7 DEF MatchFails
<1> QED
  BY <1>4, <1>6, <1>7

LEMMA MatchedOf ==
  ASSUME IInv, Ready, Current.id \notin Seen
  PROVE  /\ MatchedRow \in Outcome /\ Balanced(MatchedRow, next, 1, Seen \cup {Current.id})
         /\ MatchedRow.screened = output.screened /\ MatchedRow.analyzed = output.analyzed
<1>1. /\ next \in Nat /\ output \in Outcome /\ Balanced(output, next, 0, Seen) /\ Current.id \in Ids
  BY WhenReady
<1>2. MatchedRow = [AddRow(output, Current.id, "matched") EXCEPT !.matched = @ + 1]
  BY RowOf DEF MatchedRow
<1> QED
  BY <1>1, <1>2, MatchBooked

LEMMA BuildFailsStep ==
  ASSUME IInv, BuildFails
  PROVE  IInv'
<1> DEFINE out == Fail(MatchedRow, Current.id, "evidence")
<1>1. Ready /\ Current.id \notin Seen /\ Skip(out)
  BY DEF BuildFails
<1>2. /\ MatchedRow \in Outcome /\ Balanced(MatchedRow, next, 1, Seen \cup {Current.id})
      /\ MatchedRow.screened = output.screened /\ MatchedRow.analyzed = output.analyzed
  BY <1>1, MatchedOf
<1>3. Current.id \in Ids /\ next \in Nat
  BY <1>1, WhenReady
<1>4. out \in Outcome /\ out.screened = MatchedRow.screened /\ out.analyzed = MatchedRow.analyzed
  BY <1>2, <1>3, ErrorAdded
<1>5. Balanced(out, next + 1, 0, Seen \cup {Current.id})
  BY <1>2, <1>3, ErrorBooked
<1> HIDE DEF out
<1> QED
  BY <1>1, <1>2, <1>4, <1>5, SkipStep

LEMMA StopBatchStep ==
  ASSUME IInv, StopBatch
  PROVE  IInv'
<1>1. /\ Ready /\ output' = Fail(output, 0, "context") /\ stage' = "stopped"
      /\ UNCHANGED <<entries, batch, next, input, attempt, screening, analysis, cancelled>>
  BY DEF StopBatch
<1>2. /\ batch # <<>> /\ input = NoInput /\ next \in Nat /\ output \in Outcome
      /\ Balanced(output, next, 0, Seen) /\ output.screened \cup output.analyzed \subseteq Seen
  BY <1>1, WhenReady
<1>3. 0 \in Ids /\ 0 \in 0 .. 1
  BY DEF Ids
<1>4. /\ output' \in Outcome /\ output'.screened = output.screened
      /\ output'.analyzed = output.analyzed
  BY <1>1, <1>2, <1>3, ErrorAdded
<1>5. Balanced(output', next, 0, Seen)
  BY <1>1, <1>2, <1>3, ErrorBooked
<1>6. Seen' = Seen
  BY <1>1 DEF Seen
<1>7. Balanced(output', next', 0, Seen' \cup {})
  <2>1. Seen \cup {} = Seen
    OBVIOUS
  <2> QED
    BY <1>1, <1>5, <1>6, <2>1
<1>8. Accounted'
  BY <1>1, <1>2, <1>4, <1>6, <1>7 DEF Accounted
<1>9. Typed'
  BY <1>1, <1>2, <1>4 DEF IInv, Typed, Ready, Reviewing
<1> QED
  BY <1>1, <1>8, <1>9 DEF IInv, EntriesSound, Reviewed, Reviewing, Ready

LEMMA StartMatchedStep ==
  ASSUME IInv, StartMatched
  PROVE  IInv'
<1> DEFINE matches == Match(Profile, Current)
           in == [id |-> Current.id, components |-> Profile, products |-> Products(Profile),
                  affected |-> Current.affected, matches |-> matches,
                  evidence |-> Build(Profile, Current, matches)]
<1>1. /\ Ready /\ Current.id \notin Seen /\ Start(in) /\ output' = MatchedRow
      /\ UNCHANGED <<entries, batch, next, cancelled>>
  BY DEF StartMatched
<1>2. /\ batch # <<>> /\ batch \in Batches /\ next \in 1 .. Len(batch) /\ Current \in Range(batch)
      /\ output.screened \cup output.analyzed \subseteq Seen
  BY <1>1, WhenReady
<1>3. /\ MatchedRow \in Outcome /\ Balanced(MatchedRow, next, 1, Seen \cup {Current.id})
      /\ MatchedRow.screened = output.screened /\ MatchedRow.analyzed = output.analyzed
  BY <1>1, MatchedOf
<1>4. Honest(in)
  <2>1. Current.affected \in Seq(Range(Current.affected)) /\ IsFiniteSet(Profile)
    BY <1>2, CandidateReviewAssumption
  <2>2. /\ in.components = Profile /\ in.products = Products(Profile)
        /\ in.affected = Current.affected /\ in.matches = Match(Profile, Current)
    OBVIOUS
  <2> HIDE DEF in
  <2> QED
    BY <2>1, <2>2, MatchHonest
<1>5. in # NoInput /\ in.id = Current.id
  <2>1. "components" \in DOMAIN in /\ "components" \notin DOMAIN NoInput
    BY DEF NoInput
  <2> QED
    BY <2>1
<1> HIDE DEF in
<1>6. /\ input' = in /\ stage' = "screen" /\ attempt' = 0 /\ screening' = None /\ analysis' = NoClaims
  BY <1>1 DEF Start
<1>7. Seen' = Seen /\ Current' = Current
  BY <1>1 DEF Seen, Current
<1>8. Accounted'
  <2>1. Balanced(output', next', 1, Seen' \cup {input'.id})
    BY <1>1, <1>3, <1>5, <1>6, <1>7
  <2>2. /\ input' # NoInput /\ next' <= Len(batch') /\ input'.id = (Current.id)'
        /\ (Current.id)' \notin Seen'
        /\ output'.screened \cup output'.analyzed \subseteq Seen'
    BY <1>1, <1>2, <1>3, <1>5, <1>6, <1>7
  <2> QED
    BY <2>1, <2>2 DEF Accounted
<1>9. Typed'
  <2>1. 0 \in 0 .. 1
    OBVIOUS
  <2> QED
    BY <1>1, <1>2, <1>3, <1>5, <1>6, <2>1 DEF IInv, Typed, Reviewing
<1>10. Reviewed'
  BY <1>4, <1>6 DEF Reviewed, Reviewing
<1> QED
  BY <1>1, <1>8, <1>9, <1>10 DEF IInv, EntriesSound

-----------------------------------------------------------------------------
(* The review of one input.                                                *)

LEMMA TakeStep ==
  ASSUME IInv, Take
  PROVE  IInv'
<1>1. PICK e \in entries : ~e.failed /\ Start(e.input)
  BY DEF Take
<1>2. e.input # NoInput /\ Honest(e.input)
  BY <1>1 DEF IInv, EntriesSound
<1>3. /\ stage = "prepared" /\ entries' = {} /\ UNCHANGED <<batch, next, output, cancelled>>
      /\ input' = e.input /\ stage' = "screen" /\ attempt' = 0
      /\ screening' = None /\ analysis' = NoClaims
  BY <1>1 DEF Take, Start
<1>4. batch' = <<>>
  BY <1>3 DEF IInv, Typed
<1>5. Typed'
  <2>1. 0 \in 0 .. 1
    OBVIOUS
  <2> QED
    BY <1>2, <1>3, <2>1 DEF IInv, Typed, Reviewing
<1>6. Reviewed'
  BY <1>2, <1>3 DEF Reviewed, Reviewing
<1> QED
  BY <1>3, <1>4, <1>5, <1>6 DEF IInv, EntriesSound, Accounted

LEMMA WhenReviewing ==
  ASSUME IInv, Reviewing, batch # <<>>
  PROVE  /\ input # NoInput /\ next \in 1 .. Len(batch) /\ next \in Nat /\ Len(batch) \in Nat
         /\ input.id = Current.id /\ input.id \in Ids /\ input.id \notin Seen
         /\ output \in Outcome /\ Balanced(output, next, 1, Seen \cup {input.id})
         /\ output.screened \cup output.analyzed \subseteq Seen
<1>1. /\ input # NoInput /\ output \in Outcome /\ next \in 1 .. (Len(batch) + 1)
      /\ batch \in Batches
  BY DEF IInv, Typed
<1>2. /\ next <= Len(batch) /\ input.id = Current.id /\ Current.id \notin Seen
      /\ output.screened \cup output.analyzed \subseteq Seen
      /\ Balanced(output, next, 1, Seen \cup {input.id})
  BY <1>1 DEF IInv, Accounted
<1>3. batch \in Seq(Range(batch))
  BY <1>1, CandidateReviewAssumption
<1>4. Len(batch) \in Nat /\ next \in 1 .. Len(batch) /\ next \in Nat
  BY <1>1, <1>2, <1>3
<1>5. Current \in Range(batch)
  BY <1>3, <1>4 DEF Current
<1>6. Current.id \in Ids
  BY <1>1, <1>5 DEF Ids
<1> QED
  BY <1>1, <1>2, <1>4, <1>6

(* A review that ends leaves the books balanced.                           *)
LEMMA EndStep ==
  ASSUME IInv, Reviewing, NEW out, EndReview(out),
         batch # <<>> =>
           /\ out \in Outcome /\ Balanced(out, next + 1, 0, Seen \cup {input.id})
           /\ out.screened \cup out.analyzed \subseteq Seen \cup {input.id}
  PROVE  IInv'
<1>1. /\ input' = NoInput /\ attempt' = 0 /\ screening' = None /\ analysis' = NoClaims
      /\ UNCHANGED <<entries, batch, cancelled>>
  BY DEF EndReview
<1>2. 0 \in 0 .. 1
  OBVIOUS
<1>3. CASE batch = <<>>
  <2>1. stage' = "stopped" /\ output' = output /\ next' = next
    BY <1>3 DEF EndReview
  <2>2. Typed'
    BY <1>1, <1>2, <2>1 DEF IInv, Typed, Reviewing
  <2> QED
    BY <1>1, <1>3, <2>1, <2>2 DEF IInv, EntriesSound, Reviewed, Reviewing, Accounted
<1>4. CASE batch # <<>>
  <2>1. stage' = "idle" /\ output' = out /\ next' = next + 1
    BY <1>4 DEF EndReview
  <2>2. next \in 1 .. Len(batch) /\ next \in Nat /\ Len(batch) \in Nat /\ input.id = Current.id
    BY <1>4, WhenReviewing
  <2>3. Seen' = Seen \cup {input.id}
    BY <1>1, <2>1, <2>2, SeenGrows
  <2>4. next' \in 1 .. (Len(batch') + 1)
    BY <1>1, <2>1, <2>2
  <2>5. Typed'
    BY <1>1, <1>2, <1>4, <2>1, <2>4 DEF IInv, Typed, Reviewing
  <2>6. Balanced(output', next', 0, Seen' \cup {})
    <3>1. Seen' \cup {} = Seen \cup {input.id}
      BY <2>3
    <3> QED
      BY <1>4, <2>1, <3>1
  <2>7. Accounted'
    BY <1>1, <1>4, <2>1, <2>3, <2>6 DEF Accounted
  <2> QED
    BY <1>1, <2>1, <2>5, <2>7 DEF IInv, EntriesSound, Reviewed, Reviewing
<1> QED
  BY <1>3, <1>4

LEMMA FailStep ==
  ASSUME IInv, Reviewing, ReviewFails
  PROVE  IInv'
<1> DEFINE out == Fail(output, input.id, "analysis")
<1>1. ASSUME batch # <<>>
      PROVE  /\ out \in Outcome /\ Balanced(out, next + 1, 0, Seen \cup {input.id})
             /\ out.screened \cup out.analyzed \subseteq Seen \cup {input.id}
  <2>1. /\ input.id \in Ids /\ next \in Nat /\ output \in Outcome
        /\ Balanced(output, next, 1, Seen \cup {input.id})
        /\ output.screened \cup output.analyzed \subseteq Seen
    BY <1>1, WhenReviewing
  <2>2. out \in Outcome /\ out.screened = output.screened /\ out.analyzed = output.analyzed
    BY <2>1, ErrorAdded
  <2>3. Balanced(out, next + 1, 0, Seen \cup {input.id})
    BY <2>1, ErrorBooked
  <2> QED
    BY <2>1, <2>2, <2>3
<1>2. EndReview(out)
  BY DEF ReviewFails
<1> HIDE DEF out
<1> QED
  BY <1>1, <1>2, EndStep

LEMMA PublishStep ==
  ASSUME IInv, Publish
  PROVE  IInv'
<1>1. Reviewing
  BY DEF Publish, Reviewing
<1>2. PICK out \in Verdicts(output, input.id) : EndReview(out)
  BY DEF Publish, Verdicts
<1>3. ASSUME batch # <<>>
      PROVE  /\ out \in Outcome /\ Balanced(out, next + 1, 0, Seen \cup {input.id})
             /\ out.screened \cup out.analyzed \subseteq Seen \cup {input.id}
  <2>1. /\ input.id \in Ids /\ next \in Nat /\ output \in Outcome
        /\ Balanced(output, next, 1, Seen \cup {input.id})
        /\ output.screened \cup output.analyzed \subseteq Seen /\ input.id \notin Seen
    BY <1>1, <1>3, WhenReviewing
  <2>2. input.id \notin output.screened \cup output.analyzed
    BY <2>1
  <2>3. /\ out \in Outcome /\ Balanced(out, next + 1, 0, Seen \cup {input.id})
        /\ out.screened \cup out.analyzed \subseteq (output.screened \cup output.analyzed) \cup {input.id}
    BY <2>1, <2>2, VerdictBooked
  <2> QED
    BY <2>1, <2>3
<1> QED
  BY <1>1, <1>2, <1>3, EndStep

(* Within a review the books and the input stay.                           *)
LEMMA BooksStay ==
  ASSUME IInv, UNCHANGED <<entries, batch, next, output, input>>
  PROVE  Accounted' /\ EntriesSound'
BY DEF IInv, Accounted, EntriesSound, Seen, Current

LEMMA RejectStep ==
  ASSUME IInv, Calling, NEW verdict, Reject(verdict)
  PROVE  IInv'
<1>1. CASE ReviewFails
  BY <1>1, FailStep DEF Calling, Reviewing
<1>2. CASE /\ attempt' = 1
           /\ UNCHANGED <<snapshot, entries, batch, next, output, input, stage, screening,
                          analysis, cancelled>>
  <2>1. Typed'
    <3>1. 1 \in 0 .. 1
      OBVIOUS
    <3> QED
      BY <1>2, <3>1 DEF IInv, Typed, Reviewing
  <2>2. Reviewed'
    BY <1>2 DEF IInv, Reviewed, Reviewing, Screened
  <2> QED
    BY <1>2, <2>1, <2>2, BooksStay DEF IInv
<1> QED
  BY <1>1, <1>2 DEF Reject

LEMMA ScreenAnsweredStep ==
  ASSUME IInv, ScreenAnswered
  PROVE  IInv'
<1>1. /\ stage = "screen" /\ ValidInput(input) /\ Calling /\ Reviewing
      /\ screening = None /\ analysis = NoClaims /\ Honest(input)
  BY DEF ScreenAnswered, Calling, Reviewing, IInv, Reviewed
<1>2. PICK a \in ScreenAnswers(input) :
        LET verdict == ScreenVerdict(input, a)
        IN IF verdict # "accepted" THEN Reject(verdict)
           ELSE /\ screening' = [relevance |-> a.relevance, ids |-> a.advisory \cup a.repository]
                /\ stage' = (IF a.relevance = "related" THEN "analyze" ELSE "publish")
                /\ attempt' = 0
                /\ UNCHANGED <<snapshot, entries, batch, next, output, input, analysis, cancelled>>
  BY DEF ScreenAnswered
<1>3. CASE ScreenVerdict(input, a) # "accepted"
  BY <1>1, <1>2, <1>3, RejectStep
<1>4. CASE ScreenVerdict(input, a) = "accepted"
  <2>1. /\ screening' = [relevance |-> a.relevance, ids |-> a.advisory \cup a.repository]
        /\ stage' = (IF a.relevance = "related" THEN "analyze" ELSE "publish")
        /\ attempt' = 0
        /\ UNCHANGED <<snapshot, entries, batch, next, output, input, analysis, cancelled>>
    BY <1>2, <1>4
  <2>2. /\ a # Malformed
        /\ a.advisory \subseteq CitedAs(input, AdvisoryKinds)
        /\ a.repository \subseteq CitedAs(input, RepositoryKinds)
        /\ a.advisory \cup a.repository # {}
        /\ a.relevance # "unknown" => a.advisory # {} /\ a.repository # {}
    BY <1>4 DEF ScreenVerdict
  <2>3. a.relevance \in Relevances
    BY <2>2 DEF ScreenAnswers
  <2>4. \A kinds : CitedAs(input, kinds) \subseteq Cited(input)
    BY DEF CitedAs, Cited
  <2>5. screening'.relevance = a.relevance /\ screening'.ids = a.advisory \cup a.repository
    BY <2>1
  <2>6. Screened'
    BY <1>1, <2>1, <2>2, <2>3, <2>4, <2>5 DEF Screened
  <2>7. Reviewed'
    BY <1>1, <2>1, <2>5, <2>6 DEF Reviewed, Reviewing
  <2>8. Typed'
    <3>1. 0 \in 0 .. 1
      OBVIOUS
    <3> QED
      BY <1>1, <2>1, <3>1 DEF IInv, Typed, Reviewing
  <2> QED
    BY <2>1, <2>7, <2>8, BooksStay DEF IInv
<1> QED
  BY <1>3, <1>4

LEMMA AnalysisAnsweredStep ==
  ASSUME IInv, AnalysisAnswered
  PROVE  IInv'
<1>1. /\ stage = "analyze" /\ ValidInput(input) /\ Calling /\ Reviewing /\ Honest(input)
      /\ Screened /\ screening.relevance = "related"
  BY DEF AnalysisAnswered, Calling, Reviewing, IInv, Reviewed
<1>2. PICK a \in AnalysisAnswers(input) :
        LET verdict == AnalysisVerdict(input, a)
        IN IF verdict # "accepted" THEN Reject(verdict)
           ELSE /\ analysis' = a /\ stage' = "publish" /\ attempt' = 0
                /\ UNCHANGED <<snapshot, entries, batch, next, output, input, screening, cancelled>>
  BY DEF AnalysisAnswered
<1>3. CASE AnalysisVerdict(input, a) # "accepted"
  BY <1>1, <1>2, <1>3, RejectStep
<1>4. CASE AnalysisVerdict(input, a) = "accepted"
  <2>1. /\ analysis' = a /\ stage' = "publish" /\ attempt' = 0
        /\ UNCHANGED <<snapshot, entries, batch, next, output, input, screening, cancelled>>
    BY <1>2, <1>4
  <2>2. Reviewed'
    BY <1>1, <1>4, <2>1 DEF Reviewed, Reviewing, Screened
  <2>3. Typed'
    <3>1. 0 \in 0 .. 1
      OBVIOUS
    <3> QED
      BY <1>1, <2>1, <3>1 DEF IInv, Typed, Reviewing
  <2> QED
    BY <2>1, <2>2, <2>3, BooksStay DEF IInv
<1> QED
  BY <1>3, <1>4

LEMMA CancelStep ==
  ASSUME IInv, Cancel
  PROVE  IInv'
<1>1. cancelled' = TRUE /\ UNCHANGED <<entries, batch, next, output, input, stage, attempt, screening, analysis>>
  BY DEF Cancel, review
<1>2. Typed'
  BY <1>1 DEF IInv, Typed, Reviewing
<1>3. Reviewed'
  BY <1>1 DEF IInv, Reviewed, Reviewing, Screened
<1> QED
  BY <1>1, <1>2, <1>3, BooksStay DEF IInv

LEMMA NextPreserves == IInv /\ [Next]_vars => IInv'
<1> SUFFICES ASSUME IInv, [Next]_vars PROVE IInv'
  OBVIOUS
<1>1. CASE Batch
  BY <1>1, StopBatchStep, DuplicateStep, UnmatchedStep, BuildFailsStep, StartMatchedStep DEF Batch
<1>2. CASE Review
  <2>1. ASSUME Refuse \/ ChatFails PROVE IInv'
    BY <2>1, FailStep DEF Refuse, ChatFails, Calling, Reviewing
  <2> QED
    BY <1>2, <2>1, ScreenAnsweredStep, AnalysisAnsweredStep, PublishStep DEF Review
<1>3. CASE UNCHANGED vars
  <2>1. UNCHANGED <<entries, batch, next, output, input, stage, attempt, screening, analysis, cancelled>>
    BY <1>3 DEF vars
  <2>2. Typed'
    BY <2>1 DEF IInv, Typed, Reviewing
  <2>3. Reviewed'
    BY <2>1 DEF IInv, Reviewed, Reviewing, Screened
  <2> QED
    BY <2>1, <2>2, <2>3, BooksStay DEF IInv
<1> QED
  BY <1>1, <1>2, <1>3, TakeStep, CancelStep DEF Next, Done

-----------------------------------------------------------------------------
(* For any scans, profiles and lists of CVEs: a review knows what it has   *)
(* accepted, of an input whose assessment is backed, and the books of a    *)
(* list balance after every step (IInv).                                   *)
THEOREM Inductive == Spec => []IInv
<1>1. Init => IInv
  BY InitEstablishes
<1>2. IInv /\ [Next]_vars => IInv'
  BY NextPreserves
<1> QED
  BY <1>1, <1>2, PTL DEF Spec

(* The assessment beside the model's words claims an affected version only *)
(* for a component that is the target's package, at a pinned version that  *)
(* the advisory lists; it never claims an unaffected one; and it is sure   *)
(* of every sound entry of a scan (matcher.Match, assessment.Assess,       *)
(* scananalyze.Prepare).                                                   *)
THEOREM ClaimsBacked == Spec => []AssessedHonestly
<1>1. IInv => AssessedHonestly
  <2> SUFFICES ASSUME IInv PROVE AssessedHonestly
    OBVIOUS
  <2>1. ASSUME Calling, ValidInput(input)
        PROVE  /\ AffectedVersion(input) # "not_affected"
               /\ \A m \in Matched(input) : Presence(input, m) = "confirmed" => Backed(input, m)
    BY <2>1 DEF IInv, Reviewed, Calling, Reviewing, Honest
  <2>2. \A e \in entries : ~e.failed =>
          AffectedVersion(e.input) = "confirmed" /\ PackagePresence(e.input) = "confirmed"
    BY DEF IInv, EntriesSound, Sure
  <2> QED
    BY <2>1, <2>2 DEF AssessedHonestly, Backed
<1> QED
  BY <1>1, Inductive, PTL

(* Whatever the model answers, what is published passes the checks that    *)
(* its checkpoint is read back with, and has an analysis exactly when it   *)
(* is related (processor.Screen and Analyze, ValidateOutputs).             *)
THEOREM PublishedRevalidates == Spec => []OutputsRevalidate
<1>1. IInv => OutputsRevalidate
  <2> SUFFICES ASSUME IInv, stage = "publish"
               PROVE  /\ Revalidates(input, screening, analysis)
                      /\ screening.relevance = "related" <=> analysis # NoClaims
    BY DEF OutputsRevalidate
  <2>1. /\ Screened
        /\ screening.relevance = "related" => AnalysisVerdict(input, analysis) = "accepted"
        /\ screening.relevance # "related" => analysis = NoClaims
    BY DEF IInv, Reviewed
  <2>2. AnalysisVerdict(input, NoClaims) # "accepted"
    BY DEF AnalysisVerdict, NoClaims
  <2> QED
    BY <2>1, <2>2 DEF Screened, Revalidates
<1> QED
  BY <1>1, Inductive, PTL

(* Every CVE of a list is a duplicate or has one row, and every matched    *)
(* one is under review or ended in exactly one of the counted ways,        *)
(* whatever failed before it (mvp-run's loop).                             *)
THEOREM EveryCveAccounted == Spec => []NothingDropped
<1>1. IInv => NothingDropped
  <2> SUFFICES ASSUME IInv PROVE NothingDropped
    OBVIOUS
  <2>1. TypeOK
    BY DEF IInv, Typed, Reviewed, Reviewing, Screened, TypeOK, Calling, None
  <2>2. ASSUME batch # <<>>
        PROVE  Balanced(output, next, IF input # NoInput THEN 1 ELSE 0,
                        Seen \cup (IF input # NoInput THEN {input.id} ELSE {}))
    BY <2>2 DEF IInv, Accounted
  <2> QED
    BY <2>1, <2>2 DEF NothingDropped, Balanced, Rows, Broken
<1> QED
  BY <1>1, Inductive, PTL

-----------------------------------------------------------------------------
(* reposcan.groupRecords: the groups are what the aliases tie together.    *)

(* A fold over a finite set is a function, whose values are steps from the *)
(* values for one element less.                                            *)
Chosen(s) == CHOOSE x \in s : TRUE
Folding(step, S, X, base) == IsFiniteSet(S) /\ base \in X /\ step \in [S -> [X -> X]]
FoldRule(g, step, base, s) == IF s = {} THEN base ELSE step[Chosen(s)][g[s \ {Chosen(s)}]]
Folded(g, step, S, X, base) ==
  g \in [SUBSET S -> X] /\ \A s \in SUBSET S : g[s] = FoldRule(g, step, base, s)

LEMMA FoldExists ==
  ASSUME NEW S, NEW X, NEW base, NEW step, Folding(step, S, X, base)
  PROVE  \E g : Folded(g, step, S, X, base)
<1> USE DEF Folding
<1> DEFINE Upto(n) == {s \in SUBSET S : Cardinality(s) <= n}
           Solves(g, n) == \A s \in Upto(n) : g[s] = FoldRule(g, step, base, s)
           Good == {n \in Nat : \E g \in [Upto(n) -> X] : Solves(g, n)}
<1>1. \A s \in SUBSET S : /\ IsFiniteSet(s) /\ Cardinality(s) \in Nat
                          /\ Cardinality(s) <= Cardinality(S) /\ (Cardinality(s) = 0 <=> s = {})
  BY FS_Subset, FS_CardinalityType, FS_EmptySet
<1>2. \A s \in SUBSET S : s # {} =>
        /\ Chosen(s) \in s /\ Chosen(s) \in S /\ s \ {Chosen(s)} \in SUBSET S
        /\ Cardinality(s \ {Chosen(s)}) = Cardinality(s) - 1
  <2> SUFFICES ASSUME NEW s \in SUBSET S, s # {}
               PROVE  /\ Chosen(s) \in s /\ Chosen(s) \in S /\ s \ {Chosen(s)} \in SUBSET S
                      /\ Cardinality(s \ {Chosen(s)}) = Cardinality(s) - 1
    OBVIOUS
  <2>1. Chosen(s) \in s
    BY DEF Chosen
  <2> QED
    BY <2>1, <1>1, FS_RemoveElement
<1>3. 0 \in Good
  <2> DEFINE g == [s \in Upto(0) |-> base]
  <2>1. \A s \in Upto(0) : s = {}
    BY <1>1
  <2>2. g \in [Upto(0) -> X] /\ Solves(g, 0)
    BY <2>1 DEF FoldRule
  <2> QED
    BY <2>2
<1>4. ASSUME NEW n \in Nat, n \in Good PROVE n + 1 \in Good
  <2>1. PICK g \in [Upto(n) -> X] : Solves(g, n)
    BY <1>4
  <2> DEFINE h == [s \in Upto(n + 1) |-> FoldRule(g, step, base, s)]
  <2>2. \A s \in Upto(n + 1) : s # {} =>
          Chosen(s) \in S /\ s \ {Chosen(s)} \in Upto(n) /\ s \ {Chosen(s)} \in Upto(n + 1)
    BY <1>1, <1>2
  <2>3. h \in [Upto(n + 1) -> X]
    BY <2>2 DEF FoldRule
  <2>4. \A s \in Upto(n) : s \in Upto(n + 1) /\ h[s] = g[s]
    BY <1>1, <2>1
  <2>5. Solves(h, n + 1)
    BY <2>2, <2>4 DEF FoldRule
  <2>6. n + 1 \in Nat
    OBVIOUS
  <2> HIDE DEF h
  <2> QED
    BY <2>3, <2>5, <2>6
<1>5. \A n \in Nat : n \in Good
  <2> DEFINE Bad == Nat \ Good
  <2> SUFFICES ASSUME Bad # {} PROVE FALSE
    OBVIOUS
  <2>1. Bad \in SUBSET Nat
    OBVIOUS
  <2> HIDE DEF Good
  <2>2. PICK n \in Bad : \A k \in Bad : n <= k
    BY <2>1, Least
  <2>3. n # 0 /\ n - 1 \in Nat
    BY <1>3
  <2>4. n - 1 \in Good
    BY <2>2, <2>3
  <2>5. (n - 1) + 1 \in Good
    BY <1>4, <2>3, <2>4
  <2> QED
    BY <2>5
<1>6. Cardinality(S) \in Good /\ Upto(Cardinality(S)) = SUBSET S
  BY <1>1, <1>5
<1>7. PICK g \in [Upto(Cardinality(S)) -> X] : Solves(g, Cardinality(S))
  BY <1>6
<1>8. g \in [SUBSET S -> X] /\ \A s \in SUBSET S : g[s] = FoldRule(g, step, base, s)
  BY <1>6, <1>7
<1> QED
  BY <1>8 DEF Folded

(* Unite, and forests: parents with a root for each id, which the walk to  *)
(* the parent reaches as ranks fall.                                       *)
Parents(ids) == [ids -> ids]
Rooted(p, ids, r, h) ==
  /\ p \in [ids -> ids] /\ r \in [ids -> ids] /\ h \in [ids -> Nat]
  /\ \A x \in ids : /\ r[x] = IF p[x] = x THEN x ELSE r[p[x]]
                    /\ p[r[x]] = r[x]
                    /\ p[x] # x => h[p[x]] < h[x]

LEMMA RootsOf ==
  ASSUME NEW ids, NEW p, NEW r, NEW h, Rooted(p, ids, r, h)
  PROVE  Roots(p) = r
<1> USE DEF Rooted
<1> DEFINE Rule(f) == [x \in DOMAIN p |-> IF p[x] = x THEN x ELSE f[p[x]]]
<1>1. r = Rule(r)
  OBVIOUS
<1>2. ASSUME NEW f, f = Rule(f) PROVE f = r
  <2> DEFINE Differ == {x \in ids : f[x] # r[x]}
             ranks == {h[x] : x \in Differ}
  <2>1. f = [x \in ids |-> f[x]] /\ \A x \in ids : f[x] = IF p[x] = x THEN x ELSE f[p[x]]
    BY <1>2
  <2>2. Differ = {}
    <3> SUFFICES ASSUME Differ # {} PROVE FALSE
      OBVIOUS
    <3>1. ranks \in SUBSET Nat /\ ranks # {}
      OBVIOUS
    <3> HIDE DEF ranks
    <3>2. PICK n \in ranks : \A k \in ranks : n <= k
      BY <3>1, Least
    <3>3. PICK x \in Differ : n = h[x]
      BY DEF ranks
    <3>4. x \in ids /\ p[x] # x /\ p[x] \in ids /\ f[p[x]] # r[p[x]]
      BY <2>1, <3>3
    <3>5. h[p[x]] \in ranks
      BY <3>4 DEF ranks
    <3>6. h[p[x]] < h[x] /\ h[p[x]] \in Nat /\ h[x] \in Nat
      BY <3>4
    <3> QED
      BY <3>2, <3>3, <3>5, <3>6
  <2>3. \A x \in ids : f[x] = r[x]
    BY <2>2
  <2> QED
    BY <2>1, <2>3
<1> DEFINE root == CHOOSE f : f = Rule(f)
<1>3. root = Rule(root)
  BY <1>1
<1>4. Roots(p) = root
  BY DEF Roots
<1> HIDE DEF root
<1> QED
  BY <1>2, <1>3, <1>4

(* A union redirects the roots of one class to the root of another.        *)
Redirected(r, ids, link) == [x \in ids |-> IF r[x] = r[link[2]] THEN r[link[1]] ELSE r[x]]

LEMMA UniteRooted ==
  ASSUME NEW ids, NEW p, NEW r, NEW h, Rooted(p, ids, r, h), NEW link \in ids \X ids
  PROVE  \E g : Rooted(Unite(link, p), ids, Redirected(r, ids, link), g)
<1> DEFINE a == r[link[1]]
           b == r[link[2]]
           q == [p EXCEPT ![b] = a]
           s == [x \in ids |-> IF r[x] = b THEN a ELSE r[x]]
           g == [x \in ids |-> IF r[x] = b /\ a # b THEN h[x] + h[a] + 1 ELSE h[x]]
<1>1. Unite(link, p) = q
  BY RootsOf DEF Unite
<1>2. link[1] \in ids /\ link[2] \in ids
  OBVIOUS
<1>3. /\ a \in ids /\ b \in ids /\ p[a] = a /\ p[b] = b /\ r[a] = a /\ r[b] = b
  BY <1>2 DEF Rooted
<1>4. q \in [ids -> ids] /\ s \in [ids -> ids] /\ g \in [ids -> Nat]
  BY <1>3 DEF Rooted
<1>5. ASSUME NEW x \in ids
      PROVE  /\ s[x] = IF q[x] = x THEN x ELSE s[q[x]]
             /\ q[s[x]] = s[x]
             /\ q[x] # x => g[q[x]] < g[x]
  <2>1. /\ r[x] = IF p[x] = x THEN x ELSE r[p[x]]
        /\ p[r[x]] = r[x] /\ p[x] \in ids /\ r[x] \in ids
        /\ p[x] # x => h[p[x]] < h[x]
        /\ h[x] \in Nat /\ h[p[x]] \in Nat /\ h[a] \in Nat
    BY <1>3 DEF Rooted
  <2>2. q[x] = IF x = b THEN a ELSE p[x]
    BY <1>3 DEF Rooted
  <2>3. s[x] = IF r[x] = b THEN a ELSE r[x]
    OBVIOUS
  <2>4. q[a] = a
    BY <1>3 DEF Rooted
  <2>5. q[s[x]] = s[x]
    <3>1. r[x] # b => q[r[x]] = p[r[x]]
      BY <2>1 DEF Rooted
    <3> QED
      BY <2>1, <2>3, <2>4, <3>1
  <2>6. /\ s[p[x]] = IF r[p[x]] = b THEN a ELSE r[p[x]]
        /\ s[a] = a
    BY <1>3, <2>1
  <2>7. s[x] = IF q[x] = x THEN x ELSE s[q[x]]
    BY <1>3, <2>1, <2>2, <2>3, <2>6
  <2>8. /\ g[x] = IF r[x] = b /\ a # b THEN h[x] + h[a] + 1 ELSE h[x]
        /\ g[p[x]] = IF r[p[x]] = b /\ a # b THEN h[p[x]] + h[a] + 1 ELSE h[p[x]]
        /\ g[a] = h[a]
    BY <1>3, <2>1
  <2>9. CASE x = b
    BY <1>3, <2>1, <2>2, <2>8, <2>9
  <2>10. CASE x # b
    <3>1. q[x] # x => r[p[x]] = r[x] /\ q[x] = p[x] /\ h[p[x]] < h[x]
      BY <2>1, <2>2, <2>10
    <3>2. q[x] # x => g[q[x]] < g[x]
      BY <2>1, <2>8, <3>1
    <3> QED
      BY <2>5, <2>7, <3>2
  <2> HIDE DEF q, s, g, a, b
  <2> QED
    BY <2>5, <2>7, <2>9, <2>10
<1>6. Redirected(r, ids, link) = s
  BY DEF Redirected
<1> HIDE DEF q, s, g
<1> QED
  BY <1>1, <1>4, <1>5, <1>6 DEF Rooted

(* The roots tie together what the links do and nothing else.              *)
Closed(C, links) == \A l \in links : l[1] \in C <=> l[2] \in C
Ties(r, ids, links) ==
  /\ \A l \in links : r[l[1]] = r[l[2]]
  /\ \A C \in SUBSET ids : Closed(C, links) => \A x, y \in ids : r[x] = r[y] => (x \in C <=> y \in C)

LEMMA UniteTies ==
  ASSUME NEW ids, NEW r \in [ids -> ids], NEW links \in SUBSET (ids \X ids),
         NEW link \in links, Ties(r, ids, links \ {link})
  PROVE  Ties(Redirected(r, ids, link), ids, links)
<1> DEFINE a == r[link[1]]
           b == r[link[2]]
           s == Redirected(r, ids, link)
<1>1. \A x \in ids : s[x] = IF r[x] = b THEN a ELSE r[x]
  BY DEF Redirected
<1>2. link[1] \in ids /\ link[2] \in ids
  OBVIOUS
<1> HIDE DEF s
<1>3. ASSUME NEW l \in links PROVE s[l[1]] = s[l[2]]
  <2>1. l[1] \in ids /\ l[2] \in ids
    OBVIOUS
  <2>2. l # link => r[l[1]] = r[l[2]]
    BY DEF Ties
  <2> QED
    BY <1>1, <1>2, <2>1, <2>2
<1>4. ASSUME NEW C \in SUBSET ids, Closed(C, links), NEW x \in ids, NEW y \in ids, s[x] = s[y]
      PROVE  x \in C <=> y \in C
  <2>1. Closed(C, links \ {link}) /\ (link[1] \in C <=> link[2] \in C)
    BY <1>4 DEF Closed
  <2>2. \A u, v \in ids : r[u] = r[v] => (u \in C <=> v \in C)
    BY <2>1 DEF Ties
  <2>3. s[x] = (IF r[x] = b THEN a ELSE r[x]) /\ s[y] = (IF r[y] = b THEN a ELSE r[y])
    BY <1>1
  <2>4. CASE r[x] = r[y]
    BY <2>2, <2>4
  <2>5. CASE r[x] = b /\ r[y] = a
    BY <1>2, <2>1, <2>2, <2>5
  <2>6. CASE r[x] = a /\ r[y] = b
    BY <1>2, <2>1, <2>2, <2>6
  <2> QED
    BY <1>4, <2>3, <2>4, <2>5, <2>6
<1> QED
  BY <1>3, <1>4 DEF s, Ties

(* The union-find of all links, in whatever order they come.               *)
Sorted(p, ids, links) == \E r, h : Rooted(p, ids, r, h) /\ Ties(r, ids, links)

LEMMA UniteSorted ==
  ASSUME NEW ids, NEW links \in SUBSET (ids \X ids), NEW link \in links, NEW p,
         Sorted(p, ids, links \ {link})
  PROVE  Sorted(Unite(link, p), ids, links)
<1>1. PICK r, h : Rooted(p, ids, r, h) /\ Ties(r, ids, links \ {link})
  BY DEF Sorted
<1>2. link \in ids \X ids /\ r \in [ids -> ids]
  BY <1>1 DEF Rooted
<1>3. Ties(Redirected(r, ids, link), ids, links)
  BY <1>1, <1>2, UniteTies
<1>4. PICK g : Rooted(Unite(link, p), ids, Redirected(r, ids, link), g)
  BY <1>1, <1>2, UniteRooted
<1> QED
  BY <1>3, <1>4 DEF Sorted

LEMMA Unlinked ==
  ASSUME NEW ids
  PROVE  Sorted([x \in ids |-> x], ids, {})
<1> DEFINE p == [x \in ids |-> x]
           h == [x \in ids |-> 0]
<1>1. Rooted(p, ids, p, h)
  BY DEF Rooted
<1>2. Ties(p, ids, {})
  BY DEF Ties
<1> HIDE DEF p, h
<1>3. Sorted(p, ids, {})
  BY <1>1, <1>2 DEF Sorted
<1> QED
  BY <1>3 DEF p

LEMMA FoldSorted ==
  ASSUME NEW ids, NEW links \in SUBSET (ids \X ids), IsFiniteSet(links)
  PROVE  Sorted(FoldSet(Unite, [x \in ids |-> x], links), ids, links)
<1> DEFINE base == [x \in ids |-> x]
           X == {p \in [ids -> ids] : \E r, h : Rooted(p, ids, r, h)}
           step == [l \in links |-> [p \in X |-> Unite(l, p)]]
           Rule(g) == [s \in SUBSET links |-> IF s = {} THEN base
                                              ELSE Unite(CHOOSE x \in s : TRUE,
                                                         g[s \ {CHOOSE x \in s : TRUE}])]
<1>1. base \in X
  <2>1. Sorted(base, ids, {})
    BY Unlinked
  <2>2. base \in [ids -> ids]
    OBVIOUS
  <2> HIDE DEF base
  <2> QED
    BY <2>1, <2>2 DEF Sorted
<1>2. \A l \in links, p \in X : Unite(l, p) \in X
  <2> SUFFICES ASSUME NEW l \in links, NEW p \in X PROVE Unite(l, p) \in X
    OBVIOUS
  <2>1. PICK r, h : Rooted(p, ids, r, h)
    OBVIOUS
  <2>2. PICK g : Rooted(Unite(l, p), ids, Redirected(r, ids, l), g)
    BY <2>1, UniteRooted
  <2>3. Unite(l, p) \in [ids -> ids]
    BY <2>2 DEF Rooted
  <2> QED
    BY <2>2, <2>3
<1> HIDE DEF base, X
<1>3. Folding(step, links, X, base)
  BY <1>1, <1>2 DEF Folding
<1>4. \A l \in links, p \in X : step[l][p] = Unite(l, p)
  OBVIOUS
<1> HIDE DEF step
<1>5. PICK g : Folded(g, step, links, X, base)
  BY <1>3, FoldExists
<1>6. ASSUME NEW s \in SUBSET links, s # {} PROVE g[s] = Unite(Chosen(s), g[s \ {Chosen(s)}])
  <2>1. Chosen(s) \in links /\ s \ {Chosen(s)} \in SUBSET links
    BY <1>6 DEF Chosen
  <2>2. g[s] = step[Chosen(s)][g[s \ {Chosen(s)}]]
    BY <1>5, <1>6 DEF Folded, FoldRule
  <2>3. g[s \ {Chosen(s)}] \in X
    BY <1>5, <2>1 DEF Folded
  <2> QED
    BY <1>4, <2>1, <2>2, <2>3
<1>7. g = Rule(g)
  BY <1>5, <1>6 DEF Folded, FoldRule, Chosen
<1> DEFINE fold == CHOOSE f : f = Rule(f)
<1>8. fold = Rule(fold)
  BY <1>7
<1>9. FoldSet(Unite, base, links) = fold[links]
  BY DEF FoldSet, MapThenFoldSet
<1> HIDE DEF fold
<1>10. fold[{}] = base /\ \A s \in SUBSET links : s # {} => fold[s] = Unite(Chosen(s), fold[s \ {Chosen(s)}])
  BY <1>8 DEF Chosen
<1>11. \A s \in SUBSET links : Sorted(fold[s], ids, s)
  <2> DEFINE Bad == {s \in SUBSET links : ~Sorted(fold[s], ids, s)}
             sizes == {Cardinality(s) : s \in Bad}
  <2> SUFFICES ASSUME Bad # {} PROVE FALSE
    OBVIOUS
  <2>1. \A s \in SUBSET links : IsFiniteSet(s) /\ Cardinality(s) \in Nat
    BY FS_Subset, FS_CardinalityType
  <2>2. sizes \in SUBSET Nat /\ sizes # {}
    BY <2>1
  <2> HIDE DEF sizes
  <2>3. PICK n \in sizes : \A k \in sizes : n <= k
    BY <2>2, Least
  <2>4. PICK s \in Bad : n = Cardinality(s)
    BY DEF sizes
  <2>5. s \in SUBSET links /\ s # {}
    <3>1. Sorted(fold[{}], ids, {})
      BY <1>10, Unlinked DEF base
    <3> QED
      BY <3>1
  <2> DEFINE x == Chosen(s)
  <2>6. x \in s /\ s \ {x} \in SUBSET links
    BY <2>5 DEF Chosen
  <2>7. Cardinality(s \ {x}) = n - 1 /\ n \in Nat
    BY <2>1, <2>4, <2>5, <2>6, FS_RemoveElement
  <2>8. s \ {x} \notin Bad
    <3> SUFFICES ASSUME s \ {x} \in Bad PROVE FALSE
      OBVIOUS
    <3>1. Cardinality(s \ {x}) \in sizes
      BY DEF sizes
    <3> QED
      BY <2>3, <2>7, <3>1
  <2>9. Sorted(fold[s \ {x}], ids, s \ {x})
    BY <2>6, <2>8
  <2>10. fold[s] = Unite(x, fold[s \ {x}])
    BY <1>10, <2>5
  <2>11. s \in SUBSET (ids \X ids)
    BY <2>5
  <2>12. Sorted(Unite(x, fold[s \ {x}]), ids, s)
    BY <2>6, <2>9, <2>11, UniteSorted
  <2> QED
    BY <2>4, <2>10, <2>12
<1> QED
  BY <1>9, <1>11 DEF base

AliasLinks(records) == UNION {{r.id} \X r.aliases : r \in records}
GroupOf(records, r, t) ==
  [keys |-> {KeyOf(x) : x \in {s \in records : r[s.id] = t}},
   ids |-> {x \in IdsOf(records) : r[x] = t}]

Grouped(groups, records, r) ==
  /\ r \in [IdsOf(records) -> IdsOf(records)]
  /\ Ties(r, IdsOf(records), AliasLinks(records))
  /\ groups = {GroupOf(records, r, t) : t \in {r[s.id] : s \in records}}

LEMMA GroupsByRoots ==
  ASSUME NEW records, IsFiniteSet(IdsOf(records))
  PROVE  \E r : Grouped(GroupRecords(records), records, r)
<1> DEFINE ids == IdsOf(records)
           links == AliasLinks(records)
           p == FoldSet(Unite, [x \in ids |-> x], links)
<1>1. links \in SUBSET (ids \X ids)
  BY DEF AliasLinks, IdsOf
<1>2. IsFiniteSet(links)
  <2> HIDE DEF ids, links
  <2>1. IsFiniteSet(ids)
    BY DEF ids
  <2>2. IsFiniteSet(ids \X ids)
    BY <2>1, FS_Product
  <2> QED
    BY <1>1, <2>2, FS_Subset
<1>3. Sorted(p, ids, links)
  <2> HIDE DEF ids, links
  <2> QED
    BY <1>1, <1>2, FoldSorted
<1> HIDE DEF p
<1>4. PICK r, h : Rooted(p, ids, r, h) /\ Ties(r, ids, links)
  BY <1>3 DEF Sorted
<1>5. Roots(p) = r
  BY <1>4, RootsOf
<1>6. GroupRecords(records) =
        {[keys |-> {KeyOf(x) : x \in {s \in records : Roots(p)[s.id] = t}},
          ids |-> {x \in ids : Roots(p)[x] = t}] : t \in {Roots(p)[s.id] : s \in records}}
  BY DEF GroupRecords, p, AliasLinks
<1>7. GroupRecords(records) = {GroupOf(records, r, t) : t \in {r[s.id] : s \in records}}
  BY <1>5, <1>6 DEF GroupOf
<1>8. r \in [ids -> ids]
  BY <1>4 DEF Rooted
<1> QED
  BY <1>4, <1>7, <1>8 DEF Grouped

(* A record is in the group of its id and in no other.                     *)
LEMMA KeyNames ==
  ASSUME NEW x, NEW y, KeyOf(x) = KeyOf(y)
  PROVE  x.id = y.id /\ x.source = y.source
BY DEF KeyOf

LEMMA GroupHas ==
  ASSUME NEW records, NEW groups, NEW r, Grouped(groups, records, r), NEW x \in records
  PROVE  /\ x.id \in IdsOf(records) /\ x.aliases \subseteq IdsOf(records)
         /\ \A a \in x.aliases : r[a] = r[x.id]
         /\ GroupOf(records, r, r[x.id]) \in groups
         /\ \A t : KeyOf(x) \in GroupOf(records, r, t).keys <=> r[x.id] = t
         /\ \A t : x.id \in GroupOf(records, r, t).ids <=> r[x.id] = t
<1>1. x.id \in IdsOf(records) /\ x.aliases \subseteq IdsOf(records)
  BY DEF IdsOf
<1>2. ASSUME NEW a \in x.aliases PROVE r[a] = r[x.id]
  <2>1. <<x.id, a>> \in AliasLinks(records)
    BY DEF AliasLinks
  <2> QED
    BY <2>1 DEF Grouped, Ties
<1>3. GroupOf(records, r, r[x.id]) \in groups
  BY DEF Grouped
<1>4. ASSUME NEW t PROVE KeyOf(x) \in GroupOf(records, r, t).keys <=> r[x.id] = t
  BY KeyNames DEF GroupOf
<1>5. ASSUME NEW t PROVE x.id \in GroupOf(records, r, t).ids <=> r[x.id] = t
  BY <1>1 DEF GroupOf
<1> QED
  BY <1>1, <1>2, <1>3, <1>4, <1>5

(* The members of a group, told by its root.                               *)
Members(records, r, t) == {s \in records : r[s.id] = t}

LEMMA GroupMembers ==
  ASSUME NEW records, NEW groups, NEW r, Grouped(groups, records, r), NEW t
  PROVE  LET g == GroupOf(records, r, t)
         IN /\ {s \in records : KeyOf(s) \in g.keys} = Members(records, r, t)
            /\ g.keys = {KeyOf(s) : s \in Members(records, r, t)}
            /\ IdsOf(Members(records, r, t)) = g.ids
<1> DEFINE g == GroupOf(records, r, t)
           members == Members(records, r, t)
<1>1. {s \in records : KeyOf(s) \in g.keys} = members
  BY GroupHas DEF Members
<1>2. g.keys = {KeyOf(s) : s \in members}
  BY DEF GroupOf, Members
<1>3. ASSUME NEW x \in IdsOf(members) PROVE x \in g.ids
  <2>1. PICK s \in members : x \in {s.id} \cup s.aliases
    BY DEF IdsOf
  <2>2. s \in records /\ r[s.id] = t
    BY DEF Members
  <2>3. x \in IdsOf(records) /\ r[x] = t
    BY <2>1, <2>2, GroupHas
  <2> QED
    BY <2>3 DEF GroupOf
<1>4. ASSUME NEW x \in g.ids PROVE x \in IdsOf(members)
  <2>1. x \in IdsOf(records) /\ r[x] = t
    BY DEF GroupOf
  <2>2. PICK s \in records : x \in {s.id} \cup s.aliases
    BY <2>1 DEF IdsOf
  <2>3. r[s.id] = t
    BY <2>1, <2>2, GroupHas
  <2> QED
    BY <2>2, <2>3 DEF IdsOf, Members
<1> HIDE DEF g, members
<1>5. IdsOf(members) = g.ids
  BY <1>3, <1>4
<1> QED
  BY <1>1, <1>2, <1>5 DEF g, members

(* Each key is in one group.                                               *)
LEMMA OneGroup ==
  ASSUME NEW records, NEW groups, NEW r, Grouped(groups, records, r), NEW x \in records
  PROVE  {g \in groups : KeyOf(x) \in g.keys} = {GroupOf(records, r, r[x.id])}
<1>1. \A g \in groups : \E t : g = GroupOf(records, r, t)
  BY DEF Grouped
<1>2. \A g \in groups : KeyOf(x) \in g.keys => g = GroupOf(records, r, r[x.id])
  BY <1>1, GroupHas
<1>3. GroupOf(records, r, r[x.id]) \in groups /\ KeyOf(x) \in GroupOf(records, r, r[x.id]).keys
  BY GroupHas
<1> QED
  BY <1>2, <1>3

(* The ids of a group are all that the aliases tie to one of its ids.      *)
TiedIds(S, records) == \A s \in records : S \cap ({s.id} \cup s.aliases) # {} => {s.id} \cup s.aliases \subseteq S
Kin(id, records) ==
  {x \in IdsOf(records) : \A S \in SUBSET IdsOf(records) : id \in S /\ TiedIds(S, records) => x \in S}

LEMMA GroupIsKin ==
  ASSUME NEW records, NEW groups, NEW r, Grouped(groups, records, r), NEW id \in IdsOf(records)
  PROVE  GroupOf(records, r, r[id]).ids = Kin(id, records)
<1> DEFINE ids == IdsOf(records)
           class == {x \in ids : r[x] = r[id]}
<1>1. class \in SUBSET ids /\ id \in class
  OBVIOUS
<1>2. TiedIds(class, records)
  <2> SUFFICES ASSUME NEW s \in records, NEW y \in class, y \in {s.id} \cup s.aliases
               PROVE  {s.id} \cup s.aliases \subseteq class
    BY DEF TiedIds
  <2>1. /\ s.id \in ids /\ s.aliases \subseteq ids /\ \A a \in s.aliases : r[a] = r[s.id]
    BY GroupHas
  <2>2. r[y] = r[id] /\ r[y] = r[s.id]
    BY <2>1
  <2> QED
    BY <2>1, <2>2
<1>3. ASSUME NEW x \in class, NEW S \in SUBSET ids, id \in S, TiedIds(S, records) PROVE x \in S
  <2>1. Closed(S, AliasLinks(records))
    <3> SUFFICES ASSUME NEW l \in AliasLinks(records) PROVE l[1] \in S <=> l[2] \in S
      BY DEF Closed
    <3>1. PICK s \in records : l \in {s.id} \X s.aliases
      BY DEF AliasLinks
    <3>2. l[1] = s.id /\ l[2] \in s.aliases
      BY <3>1
    <3> QED
      BY <1>3, <3>2 DEF TiedIds
  <2>2. x \in ids /\ id \in ids /\ r[x] = r[id]
    OBVIOUS
  <2>3. Ties(r, ids, AliasLinks(records))
    BY DEF Grouped
  <2>4. x \in S <=> id \in S
    BY <2>1, <2>2, <2>3 DEF Ties
  <2> QED
    BY <1>3, <2>4
<1>4. class \subseteq Kin(id, records)
  BY <1>3 DEF Kin
<1>5. Kin(id, records) \subseteq class
  BY <1>1, <1>2 DEF Kin
<1>6. GroupOf(records, r, r[id]).ids = class
  BY DEF GroupOf
<1> QED
  BY <1>4, <1>5, <1>6

-----------------------------------------------------------------------------
(* The report of a scan whose advisories have an id each.                  *)

Answerable(components, answer) ==
  /\ IsFiniteSet(components)
  /\ IsFiniteSet(answer.docs) /\ \A d, e \in answer.docs : d.id = e.id => d = e
  /\ \A d \in answer.docs : d.id \in Nat /\ d.aliases \in SUBSET Nat /\ IsFiniteSet(d.aliases)

LEMMA PlanOf ==
  ASSUME NEW components
  PROVE  /\ DOMAIN Plan(components) = {QueryOf(c) : c \in {d \in components : Asked(d)}}
         /\ \A q \in DOMAIN Plan(components) :
              /\ Plan(components)[q] = {c \in components : Asked(c) /\ QueryOf(c) = q}
              /\ Plan(components)[q] # {}
BY DEF Plan

Docs(components, answer) ==
  {d \in answer.docs : \E q \in DOMAIN Plan(components) : d.id \in answer.ids[q]}
IdsOfDoc(d) == {d.id} \cup d.aliases

LEMMA DocIds ==
  ASSUME NEW components, NEW answer, Answerable(components, answer)
  PROVE  LET ids == UNION {IdsOfDoc(d) : d \in Docs(components, answer)}
         IN ids \in SUBSET Nat /\ IsFiniteSet(ids)
<1> DEFINE docs == Docs(components, answer)
           f == [d \in docs |-> IdsOfDoc(d)]
<1>1. docs \in SUBSET answer.docs
  BY DEF Docs
<1>2. IsFiniteSet(docs)
  BY <1>1, FS_Subset DEF Answerable
<1>3. \A d \in docs : f[d] = IdsOfDoc(d) /\ IdsOfDoc(d) \in SUBSET Nat
  BY <1>1 DEF Answerable, IdsOfDoc
<1>4. \A d \in docs : IsFiniteSet(IdsOfDoc(d))
  <2> SUFFICES ASSUME NEW d \in docs PROVE IsFiniteSet({d.id} \cup d.aliases)
    BY DEF IdsOfDoc
  <2>1. IsFiniteSet(d.aliases)
    BY <1>1 DEF Answerable
  <2> QED
    BY <2>1, FS_AddElement, FS_Singleton, FS_Union
<1>5. {f[d] : d \in docs} = {IdsOfDoc(d) : d \in docs}
  BY <1>3
<1> HIDE DEF f, docs
<1>6. IsFiniteSet({IdsOfDoc(d) : d \in docs})
  BY <1>2, <1>5, FiniteImage
<1>7. IsFiniteSet(UNION {IdsOfDoc(d) : d \in docs})
  BY <1>4, <1>6, FS_UNION
<1> QED
  BY <1>3, <1>7 DEF docs

LEMMA RecordsAre ==
  ASSUME NEW components, NEW answer
  PROVE  LET records == Report(components, answer).records
             docs == Docs(components, answer)
         IN /\ \A d \in docs : OsvRecord(d) \in records
            /\ \A x \in records : \/ \E d \in docs : x = OsvRecord(d)
                                  \/ x = NvdRecord(x.id) /\ x.id \in Cve /\ x.id \in UNION {IdsOfDoc(d) : d \in docs}
            /\ Report(components, answer).groups = GroupRecords(records)
<1> DEFINE docs == Docs(components, answer)
           osv == {OsvRecord(d) : d \in docs}
           linked == IdsOf(osv) \cap Cve \cap answer.nvd
           records == osv \cup {NvdRecord(id) : id \in linked}
<1>1. docs = {e \in answer.docs : \E q \in DOMAIN Plan(components) : e.id \in answer.ids[q]}
  BY DEF Docs
<1>2. Report(components, answer).records = records /\ Report(components, answer).groups = GroupRecords(records)
  BY <1>1 DEF Report
<1>3. IdsOf(osv) = UNION {IdsOfDoc(d) : d \in docs}
  <2>1. \A d \in docs : {OsvRecord(d).id} \cup OsvRecord(d).aliases = IdsOfDoc(d)
    BY DEF OsvRecord, IdsOfDoc
  <2> HIDE DEF docs
  <2>2. {{x.id} \cup x.aliases : x \in osv} = {IdsOfDoc(d) : d \in docs}
    BY <2>1
  <2> QED
    BY <2>2 DEF IdsOf
<1>4. \A id \in linked : NvdRecord(id).id = id
  BY DEF NvdRecord
<1> HIDE DEF docs
<1>5. \A x \in records : \/ \E d \in docs : x = OsvRecord(d)
                         \/ x = NvdRecord(x.id) /\ x.id \in Cve /\ x.id \in UNION {IdsOfDoc(d) : d \in docs}
  BY <1>3, <1>4
<1> QED
  BY <1>2, <1>5 DEF docs

LEMMA RecordIds ==
  ASSUME NEW components, NEW answer
  PROVE  IdsOf(Report(components, answer).records) = UNION {IdsOfDoc(d) : d \in Docs(components, answer)}
<1> DEFINE records == Report(components, answer).records
           docs == Docs(components, answer)
           ids == UNION {IdsOfDoc(d) : d \in docs}
<1>1. \A d \in docs : OsvRecord(d) \in records
  BY RecordsAre
<1>2. \A x \in records : \/ \E d \in docs : x = OsvRecord(d)
                         \/ x = NvdRecord(x.id) /\ x.id \in Cve /\ x.id \in ids
  BY RecordsAre
<1>3. \A d \in docs : {OsvRecord(d).id} \cup OsvRecord(d).aliases = IdsOfDoc(d)
  BY DEF OsvRecord, IdsOfDoc
<1>4. \A x : NvdRecord(x).aliases = {}
  BY DEF NvdRecord
<1> HIDE DEF records, docs
<1>5. \A x \in records : {x.id} \cup x.aliases \subseteq ids
  BY <1>2, <1>3, <1>4
<1>6. \A d \in docs : IdsOfDoc(d) \subseteq IdsOf(records)
  BY <1>1, <1>3 DEF IdsOf
<1>7. IdsOf(records) = ids
  BY <1>5, <1>6 DEF IdsOf
<1> QED
  BY <1>7 DEF records, docs

LEMMA RecordsFinite ==
  ASSUME NEW components, NEW answer, Answerable(components, answer)
  PROVE  IsFiniteSet(Report(components, answer).records)
<1> DEFINE records == Report(components, answer).records
           docs == Docs(components, answer)
           ids == UNION {IdsOfDoc(d) : d \in docs}
           f == [d \in docs |-> OsvRecord(d)]
           g == [x \in ids |-> NvdRecord(x)]
<1>1. docs \in SUBSET answer.docs
  BY DEF Docs
<1>2. IsFiniteSet(docs) /\ IsFiniteSet(ids)
  BY <1>1, FS_Subset, DocIds DEF Answerable
<1>3. records \in SUBSET ({f[d] : d \in docs} \cup {g[x] : x \in ids})
  <2>1. \A x \in records : \/ \E d \in docs : x = OsvRecord(d)
                           \/ x = NvdRecord(x.id) /\ x.id \in Cve /\ x.id \in ids
    BY RecordsAre
  <2> HIDE DEF records, docs, ids
  <2> QED
    BY <2>1
<1> HIDE DEF f, g, docs, ids
<1>4. IsFiniteSet({f[d] : d \in docs} \cup {g[x] : x \in ids})
  BY <1>2, FiniteImage, FS_Union
<1> QED
  BY <1>3, <1>4, FS_Subset

LEMMA ReportGrouped ==
  ASSUME NEW components, NEW answer, Answerable(components, answer)
  PROVE  \E r : Grouped(Report(components, answer).groups, Report(components, answer).records, r)
BY RecordIds, DocIds, RecordsAre, GroupsByRoots

LEMMA QueriesAre ==
  ASSUME NEW components, NEW answer, NEW q \in DOMAIN Plan(components)
  PROVE  LET report == Report(components, answer)
         IN /\ DOMAIN report.queries = DOMAIN Plan(components)
            /\ report.queries[q].origins = Plan(components)[q]
            /\ report.queries[q].ids = answer.ids[q]
            /\ report.complete => report.queries[q].complete
<1>1. Report(components, answer).queries =
        [p \in DOMAIN Plan(components) |-> PackageResult(Plan(components)[p], answer, p)]
  BY DEF Report
<1>2. Report(components, answer).complete =
        \A p \in DOMAIN Report(components, answer).queries : Report(components, answer).queries[p].complete
  BY DEF Report
<1>3. Report(components, answer).queries[q] = PackageResult(Plan(components)[q], answer, q)
  BY <1>1
<1>4. /\ PackageResult(Plan(components)[q], answer, q).origins = Plan(components)[q]
      /\ PackageResult(Plan(components)[q], answer, q).ids = answer.ids[q]
  BY DEF PackageResult
<1>5. DOMAIN Report(components, answer).queries = DOMAIN Plan(components)
  BY <1>1
<1> QED
  BY <1>2, <1>3, <1>4, <1>5

LEMMA PositiveMeans ==
  ASSUME NEW components, NEW answer, Answerable(components, answer),
         NEW q \in DOMAIN Plan(components), NEW key
  PROVE  Positive(Report(components, answer), q, key) <=>
           \E d \in answer.docs : /\ key = <<"osv", d.id>> /\ d.id \in answer.ids[q]
                                  /\ ~d.withdrawn /\ Listed(d, q)
<1> DEFINE loaded == {d \in answer.docs : d.id \in answer.ids[q]}
           outcome == [k \in {<<"osv", d.id>> : d \in loaded} |->
                         MatchAdvisory(CHOOSE d \in loaded : <<"osv", d.id>> = k, q)]
           queries == Report(components, answer).queries
<1>1. queries = [p \in DOMAIN Plan(components) |-> PackageResult(Plan(components)[p], answer, p)]
  BY DEF Report
<1>2. queries[q].outcome = outcome
  <2>1. PackageResult(Plan(components)[q], answer, q).outcome = outcome
    BY DEF PackageResult
  <2> HIDE DEF outcome, queries
  <2> QED
    BY <1>1, <2>1
<1>3. ASSUME NEW d \in loaded PROVE (CHOOSE e \in loaded : <<"osv", e.id>> = <<"osv", d.id>>) = d
  <2> DEFINE e == CHOOSE x \in loaded : <<"osv", x.id>> = <<"osv", d.id>>
  <2>1. e \in loaded /\ <<"osv", e.id>> = <<"osv", d.id>>
    OBVIOUS
  <2>2. e \in answer.docs /\ d \in answer.docs /\ e.id = d.id
    BY <2>1
  <2> HIDE DEF e
  <2>3. e = d
    BY <2>2 DEF Answerable
  <2> QED
    BY <2>3 DEF e
<1>4. \A d \in loaded : outcome[<<"osv", d.id>>] = MatchAdvisory(d, q)
  BY <1>3
<1>5. DOMAIN outcome = {<<"osv", d.id>> : d \in loaded}
  OBVIOUS
<1>6. \A d : MatchAdvisory(d, q) = "affected" <=> ~d.withdrawn /\ Listed(d, q)
  BY DEF MatchAdvisory
<1> HIDE DEF outcome, queries
<1>7. Positive(Report(components, answer), q, key) <=> key \in DOMAIN outcome /\ outcome[key] = "affected"
  BY <1>2 DEF Positive, queries
<1>8. key \in DOMAIN outcome /\ outcome[key] = "affected" <=>
        \E d \in loaded : key = <<"osv", d.id>> /\ MatchAdvisory(d, q) = "affected"
  BY <1>4, <1>5
<1> QED
  BY <1>6, <1>7, <1>8

-----------------------------------------------------------------------------
(* What an entry is about: the advisories of its group, and the components *)
(* that they affect.                                                       *)

DocsIn(components, answer, keys) == {d \in Docs(components, answer) : <<"osv", d.id>> \in keys}
Affecting(answer, d, c) ==
  /\ Asked(c) /\ d.id \in answer.ids[QueryOf(c)] /\ ~d.withdrawn /\ Listed(d, QueryOf(c))
HitBy(components, answer, keys) ==
  {c \in components : \E d \in DocsIn(components, answer, keys) : Affecting(answer, d, c)}

LEMMA HitsAre ==
  ASSUME NEW components, NEW answer, Answerable(components, answer), NEW keys
  PROVE  LET hits == Hits(Report(components, answer), keys)
             hit == HitBy(components, answer, keys)
         IN /\ hits = {QueryOf(c) : c \in hit} /\ hits \subseteq DOMAIN Plan(components)
            /\ \A q \in hits : Plan(components)[q] \subseteq hit
            /\ \A c \in hit : QueryOf(c) \in hits /\ c \in Plan(components)[QueryOf(c)]
<1> DEFINE report == Report(components, answer)
           hits == Hits(report, keys)
           hit == HitBy(components, answer, keys)
           planned == DOMAIN Plan(components)
<1>1. DOMAIN report.queries = planned
  BY DEF Report
<1>2. hits = {q \in planned : \E k \in keys : Positive(report, q, k)}
  BY <1>1 DEF Hits
<1> DEFINE plan == Plan(components)
<1>0. /\ planned = {QueryOf(c) : c \in {d \in components : Asked(d)}}
      /\ \A q \in planned : plan[q] = {c \in components : Asked(c) /\ QueryOf(c) = q} /\ plan[q] # {}
  BY PlanOf
<1> HIDE DEF planned, plan
<1>3. \A c \in components : Asked(c) => QueryOf(c) \in planned /\ c \in plan[QueryOf(c)]
  BY <1>0
<1>4. ASSUME NEW q \in hits, NEW c \in plan[q] PROVE c \in hit /\ q = QueryOf(c)
  <2>1. q \in planned
    BY <1>2
  <2>2. c \in components /\ Asked(c) /\ QueryOf(c) = q
    BY <2>1, <1>0
  <2>3. PICK k \in keys : Positive(report, q, k)
    BY <1>2
  <2>4. PICK d \in answer.docs : /\ k = <<"osv", d.id>> /\ d.id \in answer.ids[q]
                                 /\ ~d.withdrawn /\ Listed(d, q)
    BY <2>1, <2>3, PositiveMeans DEF planned
  <2>5. d \in DocsIn(components, answer, keys)
    BY <2>1, <2>4 DEF DocsIn, Docs, planned
  <2> QED
    BY <2>2, <2>4, <2>5 DEF HitBy, Affecting
<1>5. ASSUME NEW c \in hit PROVE QueryOf(c) \in hits /\ c \in plan[QueryOf(c)]
  <2>1. c \in components /\ \E d \in DocsIn(components, answer, keys) : Affecting(answer, d, c)
    BY DEF HitBy
  <2>2. PICK d \in DocsIn(components, answer, keys) : Affecting(answer, d, c)
    BY <2>1
  <2>3. QueryOf(c) \in planned /\ c \in plan[QueryOf(c)]
    BY <1>3, <2>1, <2>2 DEF Affecting
  <2>4. d \in answer.docs /\ <<"osv", d.id>> \in keys
    BY DEF DocsIn, Docs
  <2>5. Positive(report, QueryOf(c), <<"osv", d.id>>)
    BY <2>2, <2>3, <2>4, PositiveMeans DEF Affecting, planned
  <2> QED
    BY <1>2, <2>3, <2>4, <2>5
<1>6. \A q \in hits : q \in planned /\ plan[q] # {}
  BY <1>0, <1>2
<1> HIDE DEF report, hits, hit
<1>7. hits = {QueryOf(c) : c \in hit}
  BY <1>4, <1>5, <1>6
<1> QED
  BY <1>4, <1>5, <1>6, <1>7 DEF report, hits, hit, planned, plan

(* The advisories of a group are those of its records.                     *)
GroupFor(components, answer, r, t) == GroupOf(Report(components, answer).records, r, t)
RootedReport(components, answer, r) ==
  /\ Answerable(components, answer)
  /\ Grouped(Report(components, answer).groups, Report(components, answer).records, r)

LEMMA DocsOfGroup ==
  ASSUME NEW components, NEW answer, NEW r, RootedReport(components, answer, r), NEW t
  PROVE  DocsIn(components, answer, GroupFor(components, answer, r, t).keys)
           = {d \in Docs(components, answer) : r[d.id] = t}
<1> DEFINE records == Report(components, answer).records
<1>1. ASSUME NEW d \in Docs(components, answer)
      PROVE  <<"osv", d.id>> \in GroupOf(records, r, t).keys <=> r[d.id] = t
  <2>1. OsvRecord(d) \in records
    BY RecordsAre
  <2>2. KeyOf(OsvRecord(d)) = <<"osv", d.id>> /\ OsvRecord(d).id = d.id
    BY DEF OsvRecord, KeyOf
  <2> QED
    BY <2>1, <2>2, GroupHas DEF RootedReport
<1> QED
  BY <1>1 DEF DocsIn, GroupFor

LEMMA LeastIn ==
  ASSUME NEW S \in SUBSET Nat, S # {}
  PROVE  Min(S) \in S
BY Least DEF Min

(* An entry is saved under an id of its own group.                         *)
LEMMA CandidateInGroup ==
  ASSUME NEW components, NEW answer, NEW r, RootedReport(components, answer, r), NEW t,
         Hits(Report(components, answer), GroupFor(components, answer, r, t).keys) # {}
  PROVE  CandidateId(Report(components, answer), GroupFor(components, answer, r, t))
           \in GroupFor(components, answer, r, t).ids
<1> DEFINE report == Report(components, answer)
           records == report.records
           g == GroupFor(components, answer, r, t)
           cves == g.ids \cap Cve
           matching == {x.id : x \in {s \in records : s.source = "osv"
                          /\ KeyOf(s) \in g.keys /\ Hits(report, {KeyOf(s)}) # {}}}
<1>1. g.ids \in SUBSET Nat
  <2>1. IdsOf(records) \in SUBSET Nat
    BY RecordIds, DocIds DEF RootedReport
  <2> QED
    BY <2>1 DEF GroupFor, GroupOf
<1>2. matching \subseteq g.ids
  <2> SUFFICES ASSUME NEW s \in records, KeyOf(s) \in g.keys PROVE s.id \in g.ids
    OBVIOUS
  <2> QED
    BY GroupHas DEF RootedReport, GroupFor
<1>3. matching # {}
  <2>1. PICK c : c \in HitBy(components, answer, g.keys)
    BY HitsAre DEF RootedReport
  <2>2. PICK d \in DocsIn(components, answer, g.keys) : Affecting(answer, d, c)
    BY <2>1 DEF HitBy
  <2>3. d \in Docs(components, answer) /\ <<"osv", d.id>> \in g.keys
    BY DEF DocsIn
  <2> DEFINE s == OsvRecord(d)
  <2>4. s \in records /\ KeyOf(s) = <<"osv", d.id>> /\ s.source = "osv"
    BY <2>3, RecordsAre DEF OsvRecord, KeyOf
  <2>5. d \in DocsIn(components, answer, {KeyOf(s)})
    BY <2>3, <2>4 DEF DocsIn
  <2>6. c \in HitBy(components, answer, {KeyOf(s)})
    BY <2>1, <2>2, <2>5 DEF HitBy
  <2>7. Hits(report, {KeyOf(s)}) # {}
    BY <2>6, HitsAre DEF RootedReport
  <2> HIDE DEF s
  <2> QED
    BY <2>3, <2>4, <2>7
<1>4. CandidateId(report, g) = IF cves # {} THEN Min(cves) ELSE Min(matching)
  BY DEF CandidateId
<1> HIDE DEF report, records, g, matching
<1>5. cves # {} => Min(cves) \in cves
  BY <1>1, LeastIn
<1>6. Min(matching) \in matching
  BY <1>1, <1>2, <1>3, LeastIn
<1> QED
  BY <1>2, <1>4, <1>5, <1>6 DEF report, g

(* A sequence of a set has each element once.                              *)
LEMMA EachOnce ==
  ASSUME NEW S, IsFiniteSet(S)
  PROVE  /\ Len(SetToSeq(S)) = Cardinality(S) /\ DOMAIN SetToSeq(S) = 1 .. Cardinality(S)
         /\ IsInjective(SetToSeq(S))
         /\ \A x : x \in S <=> \E i \in DOMAIN SetToSeq(S) : SetToSeq(S)[i] = x
<1> DEFINE f == SetToSeq(S)
<1>1. \E g \in [1 .. Cardinality(S) -> S] : IsInjective(g)
  BY FS_CardinalityType DEF ExistsBijection, Bijection, Injection
<1>2. f \in [1 .. Cardinality(S) -> S] /\ IsInjective(f)
  BY <1>1 DEF SetToSeq
<1> HIDE DEF f
<1>3. Cardinality(S) \in Nat
  BY FS_CardinalityType
<1>4. Cardinality(1 .. Cardinality(S)) = Cardinality(S)
  <2> DEFINE n == Cardinality(S)
  <2> HIDE DEF n
  <2>1. n \in Nat => Cardinality(1 .. n) = n
    BY FS_Interval
  <2> QED
    BY <1>3, <2>1 DEF n
<1>5. f \in Surjection(1 .. Cardinality(S), S)
  BY <1>2, <1>4, FS_Injection DEF Injection
<1>6. Len(f) = Cardinality(S) /\ DOMAIN f = 1 .. Cardinality(S)
  BY <1>2, <1>3
<1>7. \A x : x \in S <=> \E i \in DOMAIN f : f[i] = x
  BY <1>2, <1>5, <1>6 DEF Surjection
<1> QED
  BY <1>2, <1>6, <1>7 DEF f

LEMMA SameSize ==
  ASSUME NEW S, IsFiniteSet(S), NEW f, \A x, y \in S : f[x] = f[y] => x = y
  PROVE  Cardinality({f[x] : x \in S}) = Cardinality(S)
<1> DEFINE g == [x \in S |-> f[x]]
           T == {f[x] : x \in S}
<1>1. g \in Surjection(S, T) /\ g \in Injection(S, T)
  BY DEF Surjection, Injection, IsInjective
<1> HIDE DEF g, T
<1>2. Cardinality(T) = Cardinality(S)
  BY <1>1, FS_Surjection
<1> QED
  BY <1>2 DEF T

(* The parts of an entry.                                                  *)
SoundEntry(components, report, g) ==
  /\ SourcesUsable(report, g)
  /\ \A q \in Hits(report, g.keys) : QueryUsable(components, report, g, q)
  /\ ValidInput(GroupInput(report, g, Hits(report, g.keys)))

LEMMA PreparedIs ==
  ASSUME NEW components, NEW report, NEW g
  PROVE  LET e == Prepared(components, report, g)
         IN /\ e.id = CandidateId(report, g) /\ e.ids = g.ids /\ e.keys = g.keys
            /\ e.failed <=> ~SoundEntry(components, report, g)
            /\ ~e.failed => e.input = GroupInput(report, g, Hits(report, g.keys))
<1> DEFINE in == GroupInput(report, g, Hits(report, g.keys))
           sound == SoundEntry(components, report, g)
<1>1. Prepared(components, report, g) =
        [id |-> in.id, ids |-> g.ids, keys |-> g.keys, failed |-> ~sound,
         input |-> IF sound THEN in ELSE NoInput]
  BY DEF Prepared, SoundEntry
<1>2. in.id = CandidateId(report, g)
  BY DEF GroupInput
<1> DEFINE e == Prepared(components, report, g)
<1> HIDE DEF in, sound
<1>3. /\ e.id = in.id /\ e.ids = g.ids /\ e.keys = g.keys
      /\ e.failed = ~sound /\ e.input = IF sound THEN in ELSE NoInput
  BY <1>1
<1> HIDE DEF e
<1>4. e.failed <=> ~sound
  BY <1>3
<1>5. ~e.failed => e.input = in
  BY <1>3, <1>4
<1> QED
  BY <1>2, <1>3, <1>4, <1>5 DEF in, sound, e

LEMMA EntriesAre ==
  ASSUME NEW components, NEW answer, NEW r, RootedReport(components, answer, r)
  PROVE  LET report == Report(components, answer)
         IN \A e : e \in Prepare(components, report) <=>
              \E t \in {r[s.id] : s \in report.records} :
                /\ Hits(report, GroupFor(components, answer, r, t).keys) # {}
                /\ e = Prepared(components, report, GroupFor(components, answer, r, t))
<1> DEFINE report == Report(components, answer)
           roots == {r[s.id] : s \in report.records}
<1>1. report.groups = {GroupFor(components, answer, r, t) : t \in roots}
  BY DEF RootedReport, Grouped, GroupFor
<1> HIDE DEF report, roots
<1>2. Prepare(components, report) =
        {Prepared(components, report, g) : g \in {h \in report.groups : Hits(report, h.keys) # {}}}
  BY DEF Prepare
<1> QED
  BY <1>1, <1>2 DEF report, roots

(* An advisory that affects a component has one entry, with all its kin,   *)
(* and no other is saved under the same id.                                *)
LEMMA HitEntered ==
  ASSUME NEW components, NEW answer, NEW r, RootedReport(components, answer, r),
         NEW d \in Docs(components, answer), NEW c \in components, Affecting(answer, d, c)
  PROVE  \E e \in Prepare(components, Report(components, answer)) :
           /\ <<"osv", d.id>> \in e.keys /\ e.ids = Kin(d.id, Report(components, answer).records)
           /\ \A f \in Prepare(components, Report(components, answer)) \ {e} :
                <<"osv", d.id>> \notin f.keys /\ f.id # e.id
<1> DEFINE report == Report(components, answer)
           Group(t) == GroupFor(components, answer, r, t)
           t == r[d.id]
           e == Prepared(components, report, Group(t))
<1>1. OsvRecord(d) \in report.records /\ OsvRecord(d).id = d.id /\ KeyOf(OsvRecord(d)) = <<"osv", d.id>>
  BY RecordsAre DEF OsvRecord, KeyOf
<1>2. /\ d.id \in IdsOf(report.records)
      /\ \A u : <<"osv", d.id>> \in Group(u).keys <=> t = u
  BY <1>1, GroupHas DEF RootedReport, GroupFor
<1>3. Hits(report, Group(t).keys) # {}
  <2>1. d \in DocsIn(components, answer, Group(t).keys)
    BY <1>2 DEF DocsIn
  <2>2. c \in HitBy(components, answer, Group(t).keys)
    BY <2>1 DEF HitBy
  <2> QED
    BY <2>2, HitsAre DEF RootedReport
<1>4. t \in {r[s.id] : s \in report.records}
  BY <1>1
<1>5. e \in Prepare(components, report)
  BY <1>3, <1>4, EntriesAre
<1>6. Group(t).ids = Kin(d.id, report.records)
  BY <1>2, GroupIsKin DEF RootedReport, GroupFor
<1>7. e.id = CandidateId(report, Group(t)) /\ e.ids = Group(t).ids /\ e.keys = Group(t).keys
  BY PreparedIs
<1>8. CandidateId(report, Group(t)) \in Group(t).ids
  BY <1>3, CandidateInGroup
<1>9. ASSUME NEW f \in Prepare(components, report), f # e
      PROVE  <<"osv", d.id>> \notin f.keys /\ f.id # e.id
  <2>1. PICK u \in {r[s.id] : s \in report.records} :
          Hits(report, Group(u).keys) # {} /\ f = Prepared(components, report, Group(u))
    BY EntriesAre
  <2>2. u # t
    BY <1>9, <2>1
  <2>3. f.id = CandidateId(report, Group(u)) /\ f.keys = Group(u).keys
    BY <2>1, PreparedIs
  <2>4. CandidateId(report, Group(u)) \in Group(u).ids
    BY <2>1, CandidateInGroup
  <2>5. \A x : ~(x \in Group(u).ids /\ x \in Group(t).ids)
    BY <2>2 DEF GroupFor, GroupOf
  <2> QED
    BY <1>2, <1>7, <1>8, <2>2, <2>3, <2>4, <2>5
<1> HIDE DEF e, report
<1>10. <<"osv", d.id>> \in e.keys /\ e.ids = Kin(d.id, report.records)
  BY <1>2, <1>6, <1>7
<1> QED
  BY <1>5, <1>9, <1>10 DEF report

(* What is used is the affected components, each with its own query.       *)
Pairs(components, answer, keys) == {<<c, QueryOf(c)>> : c \in HitBy(components, answer, keys)}

LEMMA UsedIs ==
  ASSUME NEW components, NEW answer, Answerable(components, answer), NEW keys
  PROVE  /\ Used(Report(components, answer), Hits(Report(components, answer), keys))
              = Pairs(components, answer, keys)
         /\ IsFiniteSet(HitBy(components, answer, keys)) /\ IsFiniteSet(Pairs(components, answer, keys))
<1> DEFINE report == Report(components, answer)
           hits == Hits(report, keys)
           hit == HitBy(components, answer, keys)
           plan == Plan(components)
           used == Used(report, hits)
           f == [c \in hit |-> <<c, QueryOf(c)>>]
<1>1. /\ hits = {QueryOf(c) : c \in hit} /\ hits \subseteq DOMAIN plan
      /\ \A q \in hits : plan[q] \subseteq hit
      /\ \A c \in hit : QueryOf(c) \in hits /\ c \in plan[QueryOf(c)]
  BY HitsAre
<1>2. \A q \in DOMAIN plan : report.queries[q].origins = plan[q]
  BY QueriesAre
<1>3. \A q \in DOMAIN plan : \A c \in plan[q] : QueryOf(c) = q
  <2> SUFFICES ASSUME NEW q \in DOMAIN plan, NEW c \in plan[q] PROVE QueryOf(c) = q
    OBVIOUS
  <2>1. plan[q] = {x \in components : Asked(x) /\ QueryOf(x) = q}
    BY PlanOf
  <2> HIDE DEF plan
  <2> QED
    BY <2>1
<1>4. hit \in SUBSET components
  BY DEF HitBy
<1>5. IsFiniteSet(hit)
  <2> HIDE DEF hit
  <2> QED
    BY <1>4, FS_Subset DEF Answerable
<1>6. used = UNION {{<<c, q>> : c \in report.queries[q].origins} : q \in hits}
  BY DEF Used
<1> HIDE DEF report, hits, hit, plan, used
<1>7. used = {<<c, QueryOf(c)>> : c \in hit}
  <2>1. \A u \in used : \E c \in hit : u = <<c, QueryOf(c)>>
    <3> SUFFICES ASSUME NEW u \in used PROVE \E c \in hit : u = <<c, QueryOf(c)>>
      OBVIOUS
    <3>1. PICK q \in hits : u \in {<<c, q>> : c \in report.queries[q].origins}
      BY <1>6
    <3>2. PICK c \in plan[q] : u = <<c, q>>
      BY <1>1, <1>2, <3>1
    <3> QED
      BY <1>1, <1>3, <3>2
  <2>2. \A c \in hit : <<c, QueryOf(c)>> \in used
    BY <1>1, <1>2, <1>6
  <2> QED
    BY <2>1, <2>2
<1>8. {<<c, QueryOf(c)>> : c \in hit} = {f[c] : c \in hit}
  OBVIOUS
<1> HIDE DEF f
<1>9. IsFiniteSet({f[c] : c \in hit})
  BY <1>5, FiniteImage
<1> QED
  BY <1>5, <1>7, <1>8, <1>9 DEF Pairs, report, hits, hit, used

(* An input is of the affected components, whether it is sound or not.     *)
LEMMA InputUses ==
  ASSUME NEW components, NEW answer, Answerable(components, answer), NEW g
  PROVE  LET report == Report(components, answer)
             in == GroupInput(report, g, Hits(report, g.keys))
             hit == HitBy(components, answer, g.keys)
             pairs == Pairs(components, answer, g.keys)
         IN /\ in.components = hit /\ in.products = {}
            /\ in.affected = SetToSeq({OsvTarget(u[1], u[2]) : u \in pairs})
            /\ in.matches = SetToSeq({MatchOf(u) : u \in pairs})
            /\ IsFiniteSet({OsvTarget(u[1], u[2]) : u \in pairs}) /\ IsFiniteSet({MatchOf(u) : u \in pairs})
            /\ {m.item : m \in Matched(in)} = {c.id : c \in hit}
<1> DEFINE report == Report(components, answer)
           hits == Hits(report, g.keys)
           in == GroupInput(report, g, hits)
           hit == HitBy(components, answer, g.keys)
           pairs == Pairs(components, answer, g.keys)
           target == [u \in pairs |-> OsvTarget(u[1], u[2])]
           match == [u \in pairs |-> MatchOf(u)]
<1>1. Used(report, hits) = pairs /\ IsFiniteSet(pairs)
  BY UsedIs
<1>2. /\ in.components = {u[1] : u \in Used(report, hits)} /\ in.products = {}
      /\ in.affected = SetToSeq({OsvTarget(u[1], u[2]) : u \in Used(report, hits)})
      /\ in.matches = SetToSeq({MatchOf(u) : u \in Used(report, hits)})
  <2> HIDE DEF report, hits
  <2> QED
    BY InputOfGroup, Zenon
<1>3. pairs = {<<c, QueryOf(c)>> : c \in hit}
  BY DEF Pairs
<1> HIDE DEF report, hits, in, hit, pairs
<1>4. in.components = hit
  <2>1. in.components = {u[1] : u \in pairs}
    BY <1>1, <1>2
  <2>2. \A u \in pairs : u[1] \in hit
    BY <1>3
  <2>3. \A c \in hit : <<c, QueryOf(c)>> \in pairs /\ <<c, QueryOf(c)>>[1] = c
    BY <1>3
  <2> QED
    BY <2>1, <2>2, <2>3
<1>5. /\ {OsvTarget(u[1], u[2]) : u \in pairs} = {target[u] : u \in pairs}
      /\ {MatchOf(u) : u \in pairs} = {match[u] : u \in pairs}
  OBVIOUS
<1>6. \A u \in pairs : match[u] = MatchOf(u)
  OBVIOUS
<1> HIDE DEF target, match
<1>7. IsFiniteSet({OsvTarget(u[1], u[2]) : u \in pairs}) /\ IsFiniteSet({MatchOf(u) : u \in pairs})
  <2>1. IsFiniteSet({target[u] : u \in pairs})
    BY <1>1, FiniteImage
  <2>2. IsFiniteSet({match[u] : u \in pairs})
    BY <1>1, FiniteImage
  <2> QED
    BY <1>5, <2>1, <2>2
<1>8. \A m : m \in Matched(in) <=> \E u \in pairs : m = MatchOf(u)
  <2> DEFINE S == {MatchOf(u) : u \in pairs}
  <2>1. in.matches = SetToSeq(S)
    BY <1>1, <1>2
  <2>2. IsFiniteSet(S)
    BY <1>7
  <2>3. \A m : m \in S <=> \E u \in pairs : m = MatchOf(u)
    OBVIOUS
  <2> HIDE DEF S
  <2>4. \A m : m \in S <=> \E i \in DOMAIN in.matches : in.matches[i] = m
    BY <2>1, <2>2, EachOnce
  <2> QED
    BY <2>3, <2>4 DEF Matched
<1>9. \A u \in pairs : MatchOf(u).item = u[1].id
  BY DEF MatchOf
<1>10. {m.item : m \in Matched(in)} = {c.id : c \in hit}
  <2>1. ASSUME NEW m \in Matched(in) PROVE \E c \in hit : m.item = c.id
    BY <1>3, <1>8, <1>9
  <2>2. ASSUME NEW c \in hit PROVE \E m \in Matched(in) : m.item = c.id
    <3>1. <<c, QueryOf(c)>> \in pairs
      BY <1>3
    <3>2. MatchOf(<<c, QueryOf(c)>>) \in Matched(in) /\ MatchOf(<<c, QueryOf(c)>>).item = c.id
      BY <1>8, <1>9, <3>1
    <3> QED
      BY <3>2
  <2> QED
    BY <2>1, <2>2
<1> QED
  BY <1>1, <1>2, <1>4, <1>7, <1>10 DEF report, hits, in, hit, pairs

(* The evidence of an input: its sources, then its queries.                *)
LEMMA EvidenceOf ==
  ASSUME NEW report, NEW g, NEW qs, Cardinality(g.keys) \in Nat, Cardinality(qs) \in Nat
  PROVE  LET evidence == GroupInput(report, g, qs).evidence
         IN /\ Len(evidence) = Cardinality(g.keys) + Cardinality(qs)
            /\ IsInjective([i \in DOMAIN evidence |-> evidence[i].id])
<1> DEFINE m == Cardinality(g.keys)
           n == Cardinality(qs)
           sources == [i \in 1 .. m |-> [id |-> <<"source", i>>,
                                         kind |-> IF SetToSeq(g.keys)[i][1] = "osv" THEN "advisory" ELSE "nvd"]]
           cites == [i \in 1 .. n |-> [id |-> <<"query", Len(sources) + i>>, kind |-> "repository_dependency"]]
           evidence == sources \o cites
<1>1. GroupInput(report, g, qs).evidence = evidence
  BY DEF GroupInput
<1>2. m \in Nat /\ n \in Nat
  OBVIOUS
<1>3. /\ \A i \in 1 .. m : sources[i].id = <<"source", i>>
      /\ \A i \in 1 .. n : cites[i].id = <<"query", Len(sources) + i>>
  OBVIOUS
<1> DEFINE U == {sources[i] : i \in 1 .. m} \cup {cites[i] : i \in 1 .. n}
<1>4. sources \in [1 .. m -> U] /\ cites \in [1 .. n -> U]
  OBVIOUS
<1> HIDE DEF m, n, sources, cites, U
<1>5. /\ sources \in Seq(U) /\ cites \in Seq(U)
      /\ Len(sources) = m /\ Len(cites) = n
  BY <1>2, <1>4
<1>6. Len(evidence) = m + n /\ DOMAIN evidence = 1 .. (m + n)
      /\ \A i \in 1 .. (m + n) : evidence[i] = IF i <= m THEN sources[i] ELSE cites[i - m]
  BY <1>2, <1>5
<1> HIDE DEF evidence
<1>7. ASSUME NEW i \in 1 .. (m + n)
      PROVE  evidence[i].id = IF i <= m THEN <<"source", i>> ELSE <<"query", i>>
  <2>1. CASE i <= m
    BY <1>2, <1>3, <1>6, <2>1
  <2>2. CASE ~(i <= m)
    <3>1. i - m \in 1 .. n /\ m + (i - m) = i
      BY <1>2, <2>2
    <3> QED
      BY <1>3, <1>5, <1>6, <2>2, <3>1
  <2> QED
    BY <2>1, <2>2
<1>8. IsInjective([i \in DOMAIN evidence |-> evidence[i].id])
  <2> DEFINE ids == [i \in DOMAIN evidence |-> evidence[i].id]
  <2> SUFFICES ASSUME NEW i \in 1 .. (m + n), NEW j \in 1 .. (m + n), ids[i] = ids[j] PROVE i = j
    BY <1>6 DEF IsInjective
  <2>1. evidence[i].id = evidence[j].id
    BY <1>6
  <2>2. \A k \in 1 .. (m + n) : evidence[k].id = <<"source", k>> \/ evidence[k].id = <<"query", k>>
    BY <1>7
  <2>3. <<"source", i>> # <<"query", j>> /\ <<"source", j>> # <<"query", i>>
    OBVIOUS
  <2> QED
    BY <2>1, <2>2, <2>3
<1> QED
  BY <1>1, <1>6, <1>8 DEF m, n

(* Why an entry may fail: nothing else is wrong with a group.              *)
Usable(components, answer, keys) ==
  /\ \A d \in DocsIn(components, answer, keys) : d.usable
  /\ \A c \in HitBy(components, answer, keys) : \A x \in components : x.id = c.id => x = c
  /\ MaxEvidence \in Nat
  /\ Cardinality(keys) + Cardinality({QueryOf(c) : c \in HitBy(components, answer, keys)}) <= MaxEvidence

LEMMA SourcesAreUsable ==
  ASSUME NEW components, NEW answer, NEW r, RootedReport(components, answer, r), NEW t,
         Usable(components, answer, GroupFor(components, answer, r, t).keys)
  PROVE  SourcesUsable(Report(components, answer), GroupFor(components, answer, r, t))
<1> DEFINE report == Report(components, answer)
           records == report.records
           g == GroupFor(components, answer, r, t)
           members == Members(records, r, t)
<1>1. /\ RecordsOf(report, g) = members /\ g.keys = {KeyOf(s) : s \in members}
      /\ IdsOf(members) = g.ids
  BY GroupMembers DEF RecordsOf, RootedReport, GroupFor
<1>2. ASSUME NEW k \in g.keys PROVE Cardinality({h \in report.groups : k \in h.keys}) = 1
  <2>1. PICK s \in members : k = KeyOf(s)
    BY <1>1
  <2>2. s \in records /\ r[s.id] = t
    BY DEF Members
  <2>3. {h \in report.groups : k \in h.keys} = {GroupOf(records, r, t)}
    BY <2>1, <2>2, OneGroup DEF RootedReport
  <2> QED
    BY <2>3, FS_Singleton
<1>3. ASSUME NEW x \in members
      PROVE  IF x.source = "osv" THEN x.doc.usable ELSE x.id \in Cve /\ x.aliases = {}
  <2>1. x \in records /\ r[x.id] = t
    BY DEF Members
  <2>2. CASE \E d \in Docs(components, answer) : x = OsvRecord(d)
    <3>1. PICK d \in Docs(components, answer) : x = OsvRecord(d)
      BY <2>2
    <3>2. x.source = "osv" /\ x.id = d.id /\ x.doc = d
      BY <3>1 DEF OsvRecord
    <3>3. d \in DocsIn(components, answer, g.keys)
      BY <2>1, <3>2, DocsOfGroup
    <3> QED
      BY <3>2, <3>3 DEF Usable
  <2>3. CASE x = NvdRecord(x.id) /\ x.id \in Cve
    <3>1. NvdRecord(x.id).source = "nvd" /\ NvdRecord(x.id).aliases = {}
      BY DEF NvdRecord
    <3>2. x.source = "nvd" /\ x.aliases = {}
      BY <2>3, <3>1
    <3> QED
      BY <2>3, <3>2
  <2> QED
    BY <2>1, <2>2, <2>3, RecordsAre
<1> HIDE DEF report, g, members
<1> QED
  BY <1>1, <1>2, <1>3 DEF SourcesUsable, report, g

LEMMA QueriesAreUsable ==
  ASSUME NEW components, NEW answer, NEW r, RootedReport(components, answer, r), NEW t,
         Usable(components, answer, GroupFor(components, answer, r, t).keys),
         NEW q \in Hits(Report(components, answer), GroupFor(components, answer, r, t).keys)
  PROVE  QueryUsable(components, Report(components, answer), GroupFor(components, answer, r, t), q)
<1> DEFINE report == Report(components, answer)
           g == GroupFor(components, answer, r, t)
           hit == HitBy(components, answer, g.keys)
           result == report.queries[q]
           positive == {s \in RecordsOf(report, g) : Positive(report, q, KeyOf(s))}
<1>1. q \in DOMAIN Plan(components) /\ Plan(components)[q] \subseteq hit
  BY HitsAre DEF RootedReport
<1>2. /\ result.origins = Plan(components)[q] /\ result.ids = answer.ids[q]
      /\ report.complete => result.complete
  BY <1>1, QueriesAre
<1>3. /\ RecordsOf(report, g) = Members(report.records, r, t)
      /\ g.keys = {KeyOf(s) : s \in Members(report.records, r, t)}
  BY GroupMembers DEF RecordsOf, RootedReport, GroupFor
<1>4. positive # {}
  <2>1. PICK k \in g.keys : Positive(report, q, k)
    BY DEF Hits
  <2>2. PICK s \in Members(report.records, r, t) : k = KeyOf(s)
    BY <1>3
  <2> QED
    BY <1>3, <2>1, <2>2
<1>5. ASSUME NEW x \in positive
      PROVE  x.source = "osv" /\ ~x.doc.withdrawn /\ x.id \in result.ids /\ Listed(x.doc, q)
  <2>1. x \in report.records /\ Positive(report, q, KeyOf(x))
    BY <1>3 DEF Members
  <2>2. PICK d \in answer.docs : /\ KeyOf(x) = <<"osv", d.id>> /\ d.id \in answer.ids[q]
                                 /\ ~d.withdrawn /\ Listed(d, q)
    BY <1>1, <2>1, PositiveMeans DEF RootedReport
  <2>3. x.source = "osv" /\ x.id = d.id
    BY <2>2 DEF KeyOf
  <2>4. NvdRecord(x.id).source = "nvd"
    BY DEF NvdRecord
  <2>5. PICK e \in Docs(components, answer) : x = OsvRecord(e)
    BY <2>1, <2>3, <2>4, RecordsAre
  <2>6. e \in answer.docs /\ e.id = d.id /\ x.doc = e
    BY <2>3, <2>5 DEF OsvRecord, Docs
  <2>7. e = d
    BY <2>6 DEF RootedReport, Answerable
  <2> QED
    BY <1>2, <2>2, <2>3, <2>6, <2>7
<1>6. ASSUME NEW c \in Plan(components)[q]
      PROVE  /\ Cardinality({x \in components : x.id = c.id}) = 1
             /\ c.version = q.version
             /\ Evaluate(c.eco, c.version, {[scheme |-> "osv", versions |-> {q.version}]}) = "affected"
  <2>1. c \in components /\ Asked(c) /\ QueryOf(c) = q
    <3> DEFINE plan == Plan(components)
    <3>1. plan[q] = {x \in components : Asked(x) /\ QueryOf(x) = q}
      BY <1>1, PlanOf
    <3>2. c \in plan[q]
      OBVIOUS
    <3> HIDE DEF plan
    <3> QED
      BY <3>1, <3>2
  <2>2. {x \in components : x.id = c.id} = {c}
    BY <1>1, <2>1 DEF Usable
  <2>3. c.version = q.version /\ c.version \in Pinned
    BY <2>1 DEF QueryOf, Asked
  <2> DEFINE osv == [scheme |-> "osv", versions |-> {q.version}]
  <2>4. VersionStatus(c.eco, c.version, osv) = "affected"
    BY <2>3 DEF VersionStatus
  <2> HIDE DEF osv
  <2>5. Evaluate(c.eco, c.version, {osv}) = "affected"
    BY <2>4 DEF Evaluate
  <2> QED
    BY <2>2, <2>3, <2>5, FS_Singleton DEF osv
<1> HIDE DEF report, g, hit
<1> QED
  BY <1>1, <1>2, <1>4, <1>5, <1>6 DEF QueryUsable, report, g

LEMMA TargetById ==
  ASSUME NEW c, NEW p, NEW d, NEW q, OsvTarget(c, p).id = OsvTarget(d, q).id
  PROVE  OsvTarget(c, p) = OsvTarget(d, q)
<1>1. c.purl = d.purl /\ c.eco = d.eco /\ Qualified(c) = Qualified(d) /\ p.version = q.version
  BY DEF OsvTarget
<1> QED
  BY <1>1 DEF OsvTarget

LEMMA SizeOfInput ==
  ASSUME NEW components, NEW answer, NEW r, RootedReport(components, answer, r), NEW t,
         Hits(Report(components, answer), GroupFor(components, answer, r, t).keys) # {}
  PROVE  /\ Cardinality(GroupFor(components, answer, r, t).keys) \in Nat \ {0}
         /\ Cardinality(Hits(Report(components, answer), GroupFor(components, answer, r, t).keys)) \in Nat
<1> DEFINE records == Report(components, answer).records
           keys == GroupFor(components, answer, r, t).keys
           hits == Hits(Report(components, answer), keys)
           hit == HitBy(components, answer, keys)
           members == Members(records, r, t)
           f == [s \in members |-> KeyOf(s)]
           g == [c \in hit |-> QueryOf(c)]
<1>1. keys = {KeyOf(s) : s \in members}
  BY GroupMembers DEF RootedReport, GroupFor
<1>2. members \in SUBSET records /\ IsFiniteSet(records)
  BY RecordsFinite DEF Members, RootedReport
<1>3. IsFiniteSet(members)
  <2> HIDE DEF members, records
  <2> QED
    BY <1>2, FS_Subset
<1>4. keys = {f[s] : s \in members}
  BY <1>1
<1>5. hits = {g[c] : c \in hit} /\ IsFiniteSet(hit)
  <2>1. hits = {QueryOf(c) : c \in hit} /\ IsFiniteSet(hit)
    BY HitsAre, UsedIs DEF RootedReport
  <2> HIDE DEF hits, hit
  <2> QED
    BY <2>1
<1>6. keys # {}
  BY DEF Hits
<1> HIDE DEF f, g, keys, hits, hit, members
<1>7. IsFiniteSet(keys) /\ IsFiniteSet(hits)
  BY <1>3, <1>4, <1>5, FiniteImage
<1> QED
  BY <1>6, <1>7, FS_CardinalityType, FS_EmptySet DEF keys, hits

LEMMA InputIsValid ==
  ASSUME NEW components, NEW answer, NEW r, RootedReport(components, answer, r), NEW t,
         Usable(components, answer, GroupFor(components, answer, r, t).keys),
         Hits(Report(components, answer), GroupFor(components, answer, r, t).keys) # {}
  PROVE  ValidInput(GroupInput(Report(components, answer), GroupFor(components, answer, r, t),
                               Hits(Report(components, answer), GroupFor(components, answer, r, t).keys)))
<1> DEFINE report == Report(components, answer)
           g == GroupFor(components, answer, r, t)
           hits == Hits(report, g.keys)
           in == GroupInput(report, g, hits)
           hit == HitBy(components, answer, g.keys)
           pairs == Pairs(components, answer, g.keys)
           targets == {OsvTarget(u[1], u[2]) : u \in pairs}
           matches == {MatchOf(u) : u \in pairs}
<1>1. /\ in.components = hit /\ in.products = {}
      /\ in.affected = SetToSeq(targets) /\ in.matches = SetToSeq(matches)
      /\ IsFiniteSet(targets) /\ IsFiniteSet(matches)
      /\ {m.item : m \in Matched(in)} = {c.id : c \in hit}
  BY InputUses DEF RootedReport
<1>2. pairs = {<<c, QueryOf(c)>> : c \in hit}
  BY DEF Pairs
<1>3. hits = {QueryOf(c) : c \in hit} /\ hit \subseteq components /\ IsFiniteSet(hit)
  BY HitsAre, UsedIs DEF RootedReport, HitBy
<1>4. \A c \in hit : \A x \in components : x.id = c.id => x = c
  BY DEF Usable
<1>5. \A x : x \in targets <=> \E u \in pairs : x = OsvTarget(u[1], u[2])
  OBVIOUS
<1>6. \A x : x \in matches <=> \E u \in pairs : x = MatchOf(u)
  OBVIOUS
<1>7. hits # {}
  OBVIOUS
<1>8. Len(in.evidence) = Cardinality(g.keys) + Cardinality(hits)
      /\ IsInjective([i \in DOMAIN in.evidence |-> in.evidence[i].id])
  BY SizeOfInput, EvidenceOf
<1>9. Len(in.evidence) \in 1 .. MaxEvidence
  <2> DEFINE m == Cardinality(g.keys)
             n == Cardinality(hits)
  <2>1. m \in Nat \ {0} /\ n \in Nat
    BY SizeOfInput
  <2>2. MaxEvidence \in Nat /\ m + n <= MaxEvidence
    BY <1>3 DEF Usable
  <2> HIDE DEF m, n
  <2>3. m + n \in 1 .. MaxEvidence
    BY <2>1, <2>2
  <2> QED
    BY <1>8, <2>3 DEF m, n
<1> HIDE DEF report, g, hits, in, hit, pairs, targets, matches
<1>10. /\ \A x : x \in targets <=> \E i \in DOMAIN in.affected : in.affected[i] = x
       /\ \A x : x \in matches <=> \E i \in DOMAIN in.matches : in.matches[i] = x
       /\ IsInjective(in.affected) /\ IsInjective(in.matches)
  BY <1>1, EachOnce
<1>11. \E c : c \in hit /\ <<c, QueryOf(c)>> \in pairs
  BY <1>2, <1>3, <1>7
<1>12. in.affected # <<>> /\ in.matches # <<>>
  <2>1. targets # {} /\ matches # {}
    BY <1>5, <1>6, <1>11
  <2>2. DOMAIN in.affected # {} /\ DOMAIN in.matches # {}
    BY <1>10, <2>1
  <2> QED
    BY <2>2
<1>13. IsInjective([i \in DOMAIN in.affected |-> in.affected[i].id])
  <2> SUFFICES ASSUME NEW i \in DOMAIN in.affected, NEW j \in DOMAIN in.affected,
                      in.affected[i].id = in.affected[j].id
               PROVE  i = j
    BY DEF IsInjective
  <2>1. in.affected[i] \in targets /\ in.affected[j] \in targets
    BY <1>10
  <2>2. PICK u \in pairs : in.affected[i] = OsvTarget(u[1], u[2])
    BY <1>5, <2>1
  <2>3. PICK v \in pairs : in.affected[j] = OsvTarget(v[1], v[2])
    BY <1>5, <2>1
  <2>4. in.affected[i] = in.affected[j]
    BY <2>2, <2>3, TargetById
  <2> QED
    BY <1>10, <2>4 DEF IsInjective
<1>14. ItemsOf(in) = hit /\ ItemIds(in) = {c.id : c \in hit}
  BY <1>1 DEF ItemsOf, ItemIds
<1>15. Cardinality(ItemIds(in)) = Cardinality(ItemsOf(in))
  <2> DEFINE f == [c \in hit |-> c.id]
  <2>1. \A x, y \in hit : f[x] = f[y] => x = y
    BY <1>3, <1>4
  <2>2. {f[c] : c \in hit} = {c.id : c \in hit}
    OBVIOUS
  <2> HIDE DEF f
  <2>3. Cardinality({f[c] : c \in hit}) = Cardinality(hit)
    BY <1>3, <2>1, SameSize
  <2> QED
    BY <1>14, <2>2, <2>3
<1>16. ASSUME NEW x \in matches
       PROVE  \E c \in hit : /\ x = MatchOf(<<c, QueryOf(c)>>) /\ x.item = c.id
                             /\ x.target = OsvTarget(c, QueryOf(c)).id /\ OsvTarget(c, QueryOf(c)) \in targets
                             /\ x.status = "affected"
  <2>1. PICK u \in pairs : x = MatchOf(u)
    BY <1>6
  <2>2. PICK c \in hit : u = <<c, QueryOf(c)>>
    BY <1>2
  <2>3. u[1] = c /\ u[2] = QueryOf(c)
    BY <2>2
  <2>4. OsvTarget(c, QueryOf(c)) \in targets
    BY <1>5, <2>3
  <2> QED
    BY <2>1, <2>2, <2>3, <2>4 DEF MatchOf
<1>17. IsInjective([i \in DOMAIN in.matches |-> <<in.matches[i].item, in.matches[i].target>>])
  <2> SUFFICES ASSUME NEW i \in DOMAIN in.matches, NEW j \in DOMAIN in.matches,
                      in.matches[i].item = in.matches[j].item
               PROVE  i = j
    BY DEF IsInjective
  <2>1. in.matches[i] \in matches /\ in.matches[j] \in matches
    BY <1>10
  <2>2. PICK c \in hit : in.matches[i] = MatchOf(<<c, QueryOf(c)>>) /\ in.matches[i].item = c.id
    BY <1>16, <2>1
  <2>3. PICK d \in hit : in.matches[j] = MatchOf(<<d, QueryOf(d)>>) /\ in.matches[j].item = d.id
    BY <1>16, <2>1
  <2>4. c = d
    BY <1>3, <1>4, <2>2, <2>3
  <2>5. in.matches[i] = in.matches[j]
    BY <2>2, <2>3, <2>4
  <2> QED
    BY <1>10, <2>5 DEF IsInjective
<1>18. ASSUME NEW m \in Matched(in)
       PROVE  /\ m.item \in ItemIds(in)
              /\ m.target \in {x.id : x \in Targets(in)}
              /\ m.status # "not_affected"
  <2>1. m \in matches
    BY <1>10 DEF Matched
  <2>2. PICK c \in hit : /\ m.item = c.id /\ m.target = OsvTarget(c, QueryOf(c)).id
                         /\ OsvTarget(c, QueryOf(c)) \in targets /\ m.status = "affected"
    BY <1>16, <2>1
  <2>3. OsvTarget(c, QueryOf(c)) \in Targets(in)
    BY <1>10, <2>2 DEF Targets
  <2> QED
    BY <1>14, <2>2, <2>3
<1>19. ValidInput(in)
  BY <1>8, <1>9, <1>12, <1>13, <1>15, <1>17, <1>18 DEF ValidInput
<1> QED
  BY <1>19 DEF in, report, g, hits

(* The scan of a state, told as EveryHitPrepared tells it.                 *)
LEMMA LoadedAre == Loaded = Docs(snapshot.components, snapshot.answer)
<1> DEFINE plan == Plan(snapshot.components)
<1>1. DOMAIN plan = {QueryOf(c) : c \in {d \in snapshot.components : Asked(d)}}
  BY PlanOf
<1> HIDE DEF plan
<1>2. \A d : (\E q \in DOMAIN plan : d.id \in snapshot.answer.ids[q])
               <=> \E c \in snapshot.components : Asked(c) /\ d.id \in snapshot.answer.ids[QueryOf(c)]
  BY <1>1
<1> QED
  BY <1>2 DEF Loaded, Docs, plan

LEMMA FamilyIsKin ==
  ASSUME NEW id
  PROVE  Family(id) = Kin(id, Report(snapshot.components, snapshot.answer).records)
<1> DEFINE records == Report(snapshot.components, snapshot.answer).records
           all == UNION {{d.id} \cup d.aliases : d \in Loaded}
<1>1. IdsOf(records) = all
  BY RecordIds, LoadedAre DEF IdsOfDoc
<1>2. /\ \A d \in Loaded : OsvRecord(d) \in records
      /\ \A x \in records : (\E d \in Loaded : x = OsvRecord(d)) \/ x = NvdRecord(x.id)
  BY RecordsAre, LoadedAre
<1>3. \A d : OsvRecord(d).id = d.id /\ OsvRecord(d).aliases = d.aliases
  BY DEF OsvRecord
<1>4. \A x : NvdRecord(x).aliases = {}
  BY DEF NvdRecord
<1> HIDE DEF records
<1>5. ASSUME NEW S PROVE Tied(S) <=> TiedIds(S, records)
  <2>1. ASSUME Tied(S), NEW x \in records, S \cap ({x.id} \cup x.aliases) # {}
        PROVE  {x.id} \cup x.aliases \subseteq S
    <3>1. CASE \E d \in Loaded : x = OsvRecord(d)
      BY <1>3, <2>1, <3>1 DEF Tied
    <3>2. CASE x = NvdRecord(x.id)
      <4>1. x.aliases = {}
        BY <1>4, <3>2
      <4> QED
        BY <2>1, <4>1
    <3> QED
      BY <1>2, <3>1, <3>2
  <2>2. ASSUME TiedIds(S, records), NEW d \in Loaded, S \cap ({d.id} \cup d.aliases) # {}
        PROVE  {d.id} \cup d.aliases \subseteq S
    <3>1. OsvRecord(d) \in records /\ OsvRecord(d).id = d.id /\ OsvRecord(d).aliases = d.aliases
      BY <1>2, <1>3
    <3> QED
      BY <2>2, <3>1 DEF TiedIds
  <2> QED
    BY <2>1, <2>2 DEF Tied, TiedIds
<1>6. Family(id) = {x \in all : \A S \in SUBSET all : id \in S /\ Tied(S) => x \in S}
  BY DEF Family
<1>7. Kin(id, records) = {x \in all : \A S \in SUBSET all : id \in S /\ TiedIds(S, records) => x \in S}
  BY <1>1 DEF Kin
<1> HIDE DEF all
<1> QED
  BY <1>5, <1>6, <1>7 DEF records

(* What is prepared is what Prepare makes of a scan.                       *)
FromScan ==
  stage = "prepared" =>
    /\ snapshot \in Snapshots
    /\ entries = Prepare(snapshot.components, Report(snapshot.components, snapshot.answer))

LEMMA FromScanInit == Init => FromScan
BY DEF Init, FromScan

LEMMA FromScanStep ==
  ASSUME FromScan, [Next]_vars
  PROVE  FromScan'
<1>1. CASE UNCHANGED <<snapshot, entries, stage>>
  BY <1>1 DEF FromScan
<1>2. CASE stage' # "prepared"
  BY <1>2 DEF FromScan
<1>3. UNCHANGED <<snapshot, entries, stage>> \/ stage' # "prepared"
  <2>1. CASE Take
    BY <2>1 DEF Take, Start
  <2>2. CASE Batch
    BY <2>2 DEF Batch, StopBatch, Duplicate, EnrichFails, MatchFails, Unmatched, BuildFails, StartMatched, Skip, Start, review
  <2>3. CASE Refuse \/ ChatFails \/ Publish
    BY <2>3 DEF Refuse, ChatFails, Publish, ReviewFails, EndReview
  <2>4. CASE ScreenAnswered
    BY <2>4, Zenon DEF ScreenAnswered, Reject, ReviewFails, EndReview
  <2>5. CASE AnalysisAnswered
    BY <2>5, Zenon DEF AnalysisAnswered, Reject, ReviewFails, EndReview
  <2>6. CASE Cancel \/ UNCHANGED vars
    BY <2>6 DEF Cancel, review, vars
  <2> QED
    BY <2>1, <2>2, <2>3, <2>4, <2>5, <2>6 DEF Next, Review, Done
<1> QED
  BY <1>1, <1>2, <1>3

MatchedItems(in) == {m.item : m \in Matched(in)}
IdsAmong(S) == {c.id : c \in S}

LEMMA InputOf ==
  ASSUME NEW components, NEW answer, Answerable(components, answer), NEW g, NEW in,
         in = GroupInput(Report(components, answer), g, Hits(Report(components, answer), g.keys))
  PROVE  /\ in.components = HitBy(components, answer, g.keys)
         /\ MatchedItems(in) = IdsAmong(HitBy(components, answer, g.keys))
BY InputUses DEF MatchedItems, IdsAmong

LEMMA PreparedWell ==
  ASSUME FromScan
  PROVE  EveryHitPrepared
<1> SUFFICES ASSUME stage = "prepared"
             PROVE  LET Of(e) == {d \in Loaded : <<"osv", d.id>> \in e.keys}
                        Hit(e) == {c \in snapshot.components : \E d \in Of(e) : Affects(d, c)}
                        Twice(c) == \E d \in snapshot.components \ {c} : d.id = c.id
                    IN /\ \A d \in Loaded : (\E c \in snapshot.components : Affects(d, c)) =>
                            \E e \in entries : /\ {d} \subseteq Of(e) /\ e.ids = Family(d.id)
                                              /\ \A f \in entries \ {e} : d \notin Of(f) /\ f.id # e.id
                       /\ \A e \in entries :
                            IF e.failed
                            THEN \/ \E d \in Of(e) : ~d.usable
                                 \/ \E c \in Hit(e) : Twice(c)
                                 \/ Cardinality(e.keys) + Cardinality({QueryOf(c) : c \in Hit(e)}) > MaxEvidence
                            ELSE e.input.components = Hit(e)
                                 /\ {m.item : m \in Matched(e.input)} = {c.id : c \in Hit(e)}
  BY DEF EveryHitPrepared
<1> DEFINE components == snapshot.components
           answer == snapshot.answer
           report == Report(components, answer)
           Of(e) == {d \in Loaded : <<"osv", d.id>> \in e.keys}
           Hit(e) == {c \in components : \E d \in Of(e) : Affects(d, c)}
<1>1. snapshot \in Snapshots /\ entries = Prepare(components, report)
  BY DEF FromScan
<1>2. Answerable(components, answer) /\ MaxEvidence \in Nat
  BY <1>1, CandidateReviewAssumption, AnswersAssumption DEF Answerable
<1>3. PICK r : RootedReport(components, answer, r)
  BY <1>2, ReportGrouped DEF RootedReport
<1>4. Loaded = Docs(components, answer)
  BY LoadedAre
<1>5. \A d \in Loaded : \A c : Affects(d, c) <=> Affecting(answer, d, c)
  BY DEF Affects, Affecting
<1>6. \A e : Of(e) = DocsIn(components, answer, e.keys)
  BY <1>4 DEF DocsIn
<1>7. \A e : Hit(e) = HitBy(components, answer, e.keys)
  BY <1>5, <1>6 DEF HitBy
<1>8. ASSUME NEW d \in Loaded, NEW c \in components, Affects(d, c)
      PROVE  \E e \in entries : /\ {d} \subseteq Of(e) /\ e.ids = Family(d.id)
                                /\ \A f \in entries \ {e} : d \notin Of(f) /\ f.id # e.id
  <2>1. PICK e \in Prepare(components, report) :
          /\ <<"osv", d.id>> \in e.keys /\ e.ids = Kin(d.id, report.records)
          /\ \A f \in Prepare(components, report) \ {e} : <<"osv", d.id>> \notin f.keys /\ f.id # e.id
    BY <1>3, <1>4, <1>5, <1>8, HitEntered
  <2>2. Family(d.id) = Kin(d.id, report.records)
    BY FamilyIsKin
  <2> QED
    BY <1>1, <2>1, <2>2
<1>9. ASSUME NEW e \in entries
      PROVE  /\ e.failed => \/ \E d \in Of(e) : ~d.usable
                            \/ \E c \in Hit(e) : \E d \in components \ {c} : d.id = c.id
                            \/ Cardinality(e.keys) + Cardinality({QueryOf(c) : c \in Hit(e)}) > MaxEvidence
             /\ ~e.failed => /\ e.input.components = Hit(e)
                             /\ {m.item : m \in Matched(e.input)} = {c.id : c \in Hit(e)}
  <2>1. PICK t : /\ Hits(report, GroupFor(components, answer, r, t).keys) # {}
                 /\ e = Prepared(components, report, GroupFor(components, answer, r, t))
    BY <1>1, <1>3, EntriesAre
  <2> DEFINE g == GroupFor(components, answer, r, t)
             hits == Hits(report, g.keys)
             size == Cardinality(e.keys) + Cardinality({QueryOf(c) : c \in Hit(e)})
  <2>2. /\ e.keys = g.keys
        /\ e.failed <=> ~SoundEntry(components, report, g)
        /\ ~e.failed => e.input = GroupInput(report, g, hits)
    BY <2>1, PreparedIs
  <2>3. Hit(e) = HitBy(components, answer, g.keys) /\ Of(e) = DocsIn(components, answer, g.keys)
    BY <1>6, <1>7, <2>2
  <2>4. hits = {QueryOf(c) : c \in Hit(e)}
    BY <1>2, <2>3, HitsAre
  <2>5. size \in Nat
    <3>1. size = Cardinality(g.keys) + Cardinality(hits)
      BY <2>2, <2>4
    <3>2. Cardinality(g.keys) \in Nat /\ Cardinality(hits) \in Nat
      BY <1>3, <2>1, SizeOfInput
    <3> QED
      BY <3>1, <3>2
  <2>6. ASSUME \A d \in Of(e) : d.usable,
               \A c \in Hit(e) : \A x \in components : x.id = c.id => x = c,
               size <= MaxEvidence
        PROVE  SoundEntry(components, report, g)
    <3>1. Usable(components, answer, g.keys)
      BY <1>2, <2>2, <2>3, <2>6 DEF Usable
    <3>2. SourcesUsable(report, g)
      BY <1>3, <3>1, SourcesAreUsable
    <3>3. \A q \in hits : QueryUsable(components, report, g, q)
      BY <1>3, <3>1, QueriesAreUsable
    <3>4. ValidInput(GroupInput(report, g, hits))
      BY <1>3, <2>1, <3>1, InputIsValid
    <3> QED
      BY <3>2, <3>3, <3>4 DEF SoundEntry
  <2>7. ASSUME ~e.failed
        PROVE  /\ e.input.components = Hit(e)
               /\ {m.item : m \in Matched(e.input)} = {c.id : c \in Hit(e)}
    <3>1. e.input = GroupInput(report, g, hits)
      BY <2>2, <2>7
    <3>2. /\ e.input.components = HitBy(components, answer, g.keys)
          /\ MatchedItems(e.input) = IdsAmong(HitBy(components, answer, g.keys))
      BY <1>2, <3>1, InputOf
    <3> QED
      BY <2>3, <3>2 DEF MatchedItems, IdsAmong
  <2> HIDE DEF Of, Hit, size, g, hits, report, components
  <2>8. ~(size <= MaxEvidence) => size > MaxEvidence
    BY <1>2, <2>5
  <2> QED
    BY <2>2, <2>6, <2>7, <2>8 DEF size
<1> HIDE DEF Of, Hit
<1> QED
  BY <1>8, <1>9 DEF Of, Hit

(* Every advisory that affects a pinned version of a scan reaches exactly  *)
(* one entry, with all that its aliases tie to it and nothing else and     *)
(* under an id of its own; a sound entry is of the affected components,    *)
(* and one fails for one of three reasons only (reposcan.groupRecords,     *)
(* scananalyze.Prepare).                                                   *)
THEOREM EveryHitIsPrepared == Spec => []EveryHitPrepared
BY FromScanInit, FromScanStep, PreparedWell, PTL DEF Spec
=============================================================================

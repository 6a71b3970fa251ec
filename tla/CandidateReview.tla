--------------------------- MODULE CandidateReview ---------------------------
(***************************************************************************)
(* From facts to a published verdict.  A review screens one candidate with *)
(* the model and, when it is related, analyzes it: processor.Screen and    *)
(* Analyze with their one citation retry, pipeline.Process and feed.Build. *)
(* It is reached from two sides: from a repository scan, whose advisories   *)
(* scananalyze.Prepare turns into entries, and from a list of CVEs that     *)
(* cmd/mvp-run matches with the profile (processNormalizedWithEnricher).   *)
(* The loop over the entries of a scan, with its checkpoints, is module    *)
(* ScanAnalyze; here any sound entry may be the one under review.          *)
(***************************************************************************)
EXTENDS CandidateFacts

CONSTANTS
  Snapshots,    \* the scans: components and the providers' answer
  Profile,      \* the components that a list of CVEs is matched with
  Batches,      \* the lists of CVEs
  Foreign,      \* an evidence id that no input has
  MaxCites      \* bound on the ids a model's answer cites per list

(* A scan and a profile have finitely many components; a list of CVEs, and *)
(* what each one affects, is a sequence.                                   *)
ASSUME CandidateReviewAssumption ==
  /\ IsFiniteSet(Profile) /\ \A s \in Snapshots : IsFiniteSet(s.components)
  /\ \A b \in Batches : /\ b \in Seq(Range(b))
                       /\ \A v \in Range(b) : v.affected \in Seq(Range(v.affected))

(* The advisories that could be loaded are kept by their ids.              *)
ASSUME AnswersAssumption ==
  /\ MaxEvidence \in Nat
  /\ \A s \in Snapshots :
       /\ IsFiniteSet(s.answer.docs) /\ \A d, e \in s.answer.docs : d.id = e.id => d = e
       /\ \A d \in s.answer.docs : d.id \in Nat /\ d.aliases \in SUBSET Nat /\ IsFiniteSet(d.aliases)

VARIABLES
  snapshot,     \* the scan being prepared, or NoScan
  entries,      \* what Prepare made of it
  batch,        \* the list of CVEs, or <<>>
  next,         \* the position in it
  output,       \* mvp-run's result
  input,        \* processor.Input under review
  stage,        \* where the review stands
  attempt,      \* 1 during the citation retry
  screening,
  analysis,
  cancelled     \* the context is done

vars == <<snapshot, entries, batch, next, output, input, stage, attempt,
          screening, analysis, cancelled>>
review == <<input, stage, attempt, screening, analysis>>

NoScan == [components |-> {}, answer |-> {}]
None == [relevance |-> "none", ids |-> {}]
Output == [normalized |-> 0, duplicates |-> 0, matched |-> 0, excluded |-> 0,
           screened |-> {}, analyzed |-> {}, errors |-> <<>>, matrix |-> <<>>]

Relevances == {"related", "possibly_related", "unrelated", "unknown"}
AdvisoryKinds == {"nvd", "advisory"}
RepositoryKinds == {"repository_dependency", "repository_source", "static_analysis"}

CitedAs(in, kinds) ==
  {in.evidence[i].id : i \in {j \in DOMAIN in.evidence : in.evidence[j].kind \in kinds}}

-----------------------------------------------------------------------------
(* What the processor makes of the model's answer.                         *)

Malformed == [relevance |-> "malformed", advisory |-> {}, repository |-> {}]

(* A cited id is looked up, its kind is not.                                *)
MutantScreenVerdict(in, a) ==
  IF a = Malformed THEN "refused"
  ELSE IF a.advisory \cup a.repository \subseteq Cited(in)
          /\ (a.relevance # "unknown" => a.advisory # {} /\ a.repository # {})
       THEN "accepted" ELSE "citation"

(* validateScreeningWireResult: every defect of a citation may be retried.  *)
ScreenVerdict(in, a) ==
  IF a = Malformed THEN "refused"
  ELSE IF /\ a.advisory \subseteq CitedAs(in, AdvisoryKinds)
          /\ a.repository \subseteq CitedAs(in, RepositoryKinds)
          /\ a.advisory \cup a.repository # {}
          /\ a.relevance # "unknown" => a.advisory # {} /\ a.repository # {}
       THEN "accepted" ELSE "citation"

(* validateDeepAnalysis: a claim without citations breaks the schema.       *)
AnalysisVerdict(in, a) ==
  IF a.summary = {} \/ a.impact = {} THEN "refused"
  ELSE IF a.summary \cup a.impact \subseteq Cited(in) THEN "accepted" ELSE "citation"

NoClaims == [summary |-> {}, impact |-> {}]

(* ValidateOutputs: what a saved checkpoint must still satisfy.             *)
Revalidates(in, s, a) ==
  /\ ValidInput(in)
  /\ a # NoClaims => s.relevance = "related" /\ AnalysisVerdict(in, a) = "accepted"
  /\ s.relevance \in Relevances /\ s.ids # {} /\ s.ids \subseteq Cited(in)
  /\ s.relevance # "unknown" => /\ s.ids \cap CitedAs(in, AdvisoryKinds) # {}
                                /\ s.ids \cap CitedAs(in, RepositoryKinds) # {}

Cites(in) == {S \in SUBSET (Cited(in) \cup {Foreign}) : Cardinality(S) <= MaxCites}
ScreenAnswers(in) ==
  {Malformed} \cup [relevance : Relevances, advisory : Cites(in), repository : Cites(in)]
AnalysisAnswers(in) == [summary : Cites(in), impact : Cites(in)]

-----------------------------------------------------------------------------
Init ==
  /\ \/ /\ snapshot \in Snapshots /\ batch = <<>> /\ stage = "prepared"
        /\ entries = Prepare(snapshot.components, Report(snapshot.components, snapshot.answer))
     \/ snapshot = NoScan /\ batch \in Batches /\ stage = "idle" /\ entries = {}
  /\ next = 1 /\ output = Output /\ input = NoInput /\ attempt = 0
  /\ screening = None /\ analysis = NoClaims /\ cancelled = FALSE

Start(in) ==
  /\ input' = in
  /\ stage' = "screen" /\ attempt' = 0 /\ screening' = None /\ analysis' = NoClaims

(* The scan is forgotten once an entry of it is under review.               *)
Take ==
  /\ stage = "prepared"
  /\ \E e \in entries : ~e.failed /\ Start(e.input)
  /\ snapshot' = NoScan /\ entries' = {}
  /\ UNCHANGED <<batch, next, output, cancelled>>

-----------------------------------------------------------------------------
(* mvp-run: one CVE after the other, each one's failure recorded.           *)

Current == batch[next]
Fail(out, id, at) == [out EXCEPT !.errors = Append(@, <<id, at>>)]
Seen == {batch[i].id : i \in 1..(next - 1)}
Row(decision) ==
  [output EXCEPT !.normalized = @ + 1, !.matrix = Append(@, <<Current.id, decision>>)]
Ready == next <= Len(batch) /\ stage = "idle"

StopBatch ==
  /\ Ready /\ cancelled
  /\ output' = Fail(output, 0, "context")
  /\ stage' = "stopped"
  /\ UNCHANGED <<snapshot, entries, batch, next, input, attempt, screening, analysis, cancelled>>

Skip(out) ==
  /\ output' = out /\ next' = next + 1
  /\ UNCHANGED <<snapshot, entries, batch, review, cancelled>>

Duplicate ==
  /\ Ready /\ ~cancelled /\ Current.id \in Seen
  /\ Skip([output EXCEPT !.duplicates = @ + 1])

EnrichFails ==
  /\ Ready /\ ~cancelled /\ Current.id \notin Seen
  /\ Skip(Fail(Row("enrichment_error"), Current.id, "osv"))

(* MatchWithTrace fails: the loop takes any matcher, whose evaluator of     *)
(* versions may (the one the command passes, versions.New, never does).     *)
MatchFails ==
  /\ Ready /\ ~cancelled /\ Current.id \notin Seen
  /\ Skip(Fail(Row("match_error"), Current.id, "match"))

Unmatched ==
  /\ Ready /\ ~cancelled /\ Current.id \notin Seen
  /\ Match(Profile, Current) = <<>>
  /\ Skip(Row("unmatched"))

MatchedRow == LET row == Row("matched") IN [row EXCEPT !.matched = @ + 1]

BuildFails ==
  /\ Ready /\ ~cancelled /\ Current.id \notin Seen
  /\ Match(Profile, Current) # <<>> /\ ~Current.described
  /\ Skip(Fail(MatchedRow, Current.id, "evidence"))

StartMatched ==
  /\ Ready /\ ~cancelled /\ Current.id \notin Seen /\ Current.described
  /\ LET matches == Match(Profile, Current)
     IN /\ matches # <<>>
        /\ Start([id |-> Current.id, components |-> Profile, products |-> Products(Profile),
                  affected |-> Current.affected, matches |-> matches,
                  evidence |-> Build(Profile, Current, matches)])
  /\ output' = MatchedRow
  /\ UNCHANGED <<snapshot, entries, batch, next, cancelled>>

-----------------------------------------------------------------------------
(* The review of one input.                                                 *)

(* The review ends; mvp-run records out and goes on to the next CVE.        *)
EndReview(out) ==
  /\ input' = NoInput /\ stage' = (IF batch = <<>> THEN "stopped" ELSE "idle")
  /\ attempt' = 0 /\ screening' = None /\ analysis' = NoClaims
  /\ output' = (IF batch = <<>> THEN output ELSE out)
  /\ next' = (IF batch = <<>> THEN next ELSE next + 1)
  /\ UNCHANGED <<snapshot, entries, batch, cancelled>>

(* The failure of one CVE is not recorded.                                  *)
MutantReviewFails == EndReview(output)

ReviewFails == EndReview(Fail(output, input.id, "analysis"))

Calling == stage \in {"screen", "analyze"}

(* Each stage first checks its input, then the context.                     *)
Refuse == Calling /\ (~ValidInput(input) \/ cancelled) /\ ReviewFails

(* Chat fails: transport, status, or an incomplete or empty answer.         *)
ChatFails == Calling /\ ValidInput(input) /\ ReviewFails

(* A rejected analysis starts the candidate over.                           *)
MutantReject(verdict) ==
  IF verdict = "citation" /\ (attempt = 0 \/ stage = "analyze")
  THEN /\ attempt' = 1 - attempt /\ stage' = "screen" /\ screening' = None
       /\ UNCHANGED <<snapshot, entries, batch, next, output, input, analysis, cancelled>>
  ELSE ReviewFails

Reject(verdict) ==
  IF verdict = "citation" /\ attempt = 0
  THEN /\ attempt' = 1
       /\ UNCHANGED <<snapshot, entries, batch, next, output, input, stage, screening,
                      analysis, cancelled>>
  ELSE ReviewFails

ScreenAnswered ==
  /\ stage = "screen" /\ ValidInput(input) /\ ~cancelled
  /\ \E a \in ScreenAnswers(input) :
       LET verdict == ScreenVerdict(input, a)
       IN IF verdict # "accepted" THEN Reject(verdict)
          ELSE /\ screening' = [relevance |-> a.relevance, ids |-> a.advisory \cup a.repository]
               /\ stage' = (IF a.relevance = "related" THEN "analyze" ELSE "publish")
               /\ attempt' = 0
               /\ UNCHANGED <<snapshot, entries, batch, next, output, input, analysis, cancelled>>

AnalysisAnswered ==
  /\ stage = "analyze" /\ ValidInput(input) /\ ~cancelled
  /\ \E a \in AnalysisAnswers(input) :
       LET verdict == AnalysisVerdict(input, a)
       IN IF verdict # "accepted" THEN Reject(verdict)
          ELSE /\ analysis' = a /\ stage' = "publish" /\ attempt' = 0
               /\ UNCHANGED <<snapshot, entries, batch, next, output, input, screening, cancelled>>

(* pipeline.Process and feed.Build: an unrelated candidate has no item.     *)
Publish ==
  /\ stage = "publish"
  /\ EndReview(
       CASE screening.relevance = "unrelated" -> [output EXCEPT !.excluded = @ + 1]
         [] screening.relevance = "related" -> [output EXCEPT !.analyzed = @ \cup {input.id}]
         [] OTHER -> [output EXCEPT !.screened = @ \cup {input.id}])

Cancel ==
  /\ ~cancelled /\ (Calling \/ Ready) /\ cancelled' = TRUE
  /\ UNCHANGED <<snapshot, entries, batch, next, output, review>>

Ended == stage = "stopped" \/ (stage = "idle" /\ next > Len(batch))
         \/ (stage = "prepared" /\ \A e \in entries : e.failed)

Done == Ended /\ UNCHANGED vars

Batch == StopBatch \/ Duplicate \/ EnrichFails \/ MatchFails \/ Unmatched \/ BuildFails
           \/ StartMatched
Review == Refuse \/ ChatFails \/ ScreenAnswered \/ AnalysisAnswered \/ Publish
Next == Take \/ Batch \/ Review \/ Cancel \/ Done

(* The program goes on by itself.  A call to the model ends by the timeout  *)
(* of its client in mvp-run and, by default, in repo-analyze; the live      *)
(* service's client has none, and that its model answers is assumed.        *)
Fairness == WF_vars(Take \/ Batch \/ Review)

Spec == Init /\ [][Next]_vars /\ Fairness

-----------------------------------------------------------------------------
TypeOK ==
  /\ next \in 1..(Len(batch) + 1) /\ attempt \in 0..1 /\ cancelled \in BOOLEAN
  /\ stage \in {"idle", "prepared", "screen", "analyze", "publish", "stopped"}
  /\ Calling \/ stage = "publish" <=> input # NoInput
  /\ screening.ids \subseteq (IF input = NoInput THEN {} ELSE Cited(input))

(* The advisories a scan got for its components, and the ids their aliases  *)
(* tie together, told without Plan, Report or the union-find of the code.   *)
Loaded == {d \in snapshot.answer.docs :
             \E c \in snapshot.components : Asked(c) /\ d.id \in snapshot.answer.ids[QueryOf(c)]}
Affects(d, c) == /\ Asked(c) /\ d \in Loaded /\ d.id \in snapshot.answer.ids[QueryOf(c)]
                 /\ ~d.withdrawn /\ Listed(d, QueryOf(c))
Tied(S) == \A d \in Loaded : S \cap ({d.id} \cup d.aliases) # {} => {d.id} \cup d.aliases \subseteq S
Family(id) ==
  LET all == UNION {{d.id} \cup d.aliases : d \in Loaded}
  IN {x \in all : \A S \in SUBSET all : id \in S /\ Tied(S) => x \in S}

(* Every advisory that affects a pinned version reaches exactly one entry,  *)
(* together with all that its aliases tie to it and nothing else; no two    *)
(* entries share the id their verdict is saved under; a sound entry matches *)
(* exactly the affected components, and one fails only for a document that  *)
(* cannot be used, an ambiguous component or too much evidence              *)
(* (reposcan.groupRecords, scananalyze.Prepare).                            *)
EveryHitPrepared ==
  stage = "prepared" =>
    LET Of(e) == {d \in Loaded : <<"osv", d.id>> \in e.keys}
        Hit(e) == {c \in snapshot.components : \E d \in Of(e) : Affects(d, c)}
        Twice(c) == \E d \in snapshot.components \ {c} : d.id = c.id
    IN /\ \A d \in Loaded : (\E c \in snapshot.components : Affects(d, c)) =>
            \E e \in entries : /\ {d} \subseteq Of(e) /\ e.ids = Family(d.id)
                              /\ \A f \in entries \ {e} : d \notin Of(f) /\ f.id # e.id
       /\ \A e \in entries :
            IF e.failed
            THEN \/ \E d \in Of(e) : ~d.usable
                 \/ \E c \in Hit(e) : Twice(c)
                 \/ Cardinality(e.keys) + Cardinality({QueryOf(c) : c \in Hit(e)}) > MaxEvidence
            ELSE e.input.components = Hit(e)
                 /\ {m.item : m \in Matched(e.input)} = {c.id : c \in Hit(e)}

(* The assessment published beside the model's words claims an affected     *)
(* version only for a component that is the target's package, namespace     *)
(* included, at a version the advisory lists, never claims that a version   *)
(* is unaffected, and is sure of every sound entry of a scan                *)
(* (matcher.Match, assessment.Assess, processor.validateAnalysisInput).     *)
AssessedHonestly ==
  /\ Calling /\ ValidInput(input) =>
       /\ AffectedVersion(input) # "not_affected"
       /\ \A m \in Matched(input) : Presence(input, m) = "confirmed" =>
            \E c \in input.components, t \in Targets(input) :
              /\ c.id = m.item /\ t.id = m.target
              /\ (c.purl # NoPurl /\ c.purl = t.purl) \/ (c.eco = t.eco /\ Qualified(c) = t.name)
              /\ Version(input, m) = "confirmed" =>
                   \E k \in t.constraints : c.version \in k.versions \cap Pinned
  /\ \A e \in entries : ~e.failed =>
       AffectedVersion(e.input) = "confirmed" /\ PackagePresence(e.input) = "confirmed"

(* Whatever the model answered, in whichever attempt, what is published     *)
(* passes the checks its checkpoint is read back with, and has an analysis  *)
(* exactly when it is related (the wire format's split citations against    *)
(* the saved flat ones: processor.Screen, ValidateOutputs, feed.Build).     *)
OutputsRevalidate ==
  stage = "publish" => /\ Revalidates(input, screening, analysis)
                       /\ screening.relevance = "related" <=> analysis # NoClaims

(* The state is well-formed, a review cites only what its own input has,    *)
(* and a list of CVEs is accounted for at every moment: each one read is a  *)
(* duplicate or has one row of the matrix, and each one matched is under    *)
(* review or ended in exactly one of the counted ways, whatever failed      *)
(* before it (mvp-run processNormalizedWithEnricher).                       *)
NothingDropped ==
  LET current == IF input # NoInput THEN 1 ELSE 0
      Failed(stages) == {i \in DOMAIN output.errors : output.errors[i][2] \in stages}
      ids == {output.matrix[i][1] : i \in DOMAIN output.matrix}
  IN /\ TypeOK
     /\ batch # <<>> =>
          /\ output.normalized + output.duplicates = next - 1 + current
          /\ output.normalized = Len(output.matrix) /\ Cardinality(ids) = Len(output.matrix)
          /\ ids = Seen \cup (IF input # NoInput THEN {input.id} ELSE {})
          /\ output.matched = current + Cardinality(Failed({"evidence", "analysis"}))
               + output.excluded + Cardinality(output.screened) + Cardinality(output.analyzed)
          /\ output.screened \cap output.analyzed = {}

(* The list, or the entry, comes to its end whatever the model answers: a   *)
(* rejected citation is retried once (generateWithCitationRetry).           *)
ReviewEnds == <>Ended
=============================================================================

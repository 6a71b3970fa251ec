------------------------------ MODULE RepoScan ------------------------------
(***************************************************************************)
(* cmd/repo-scan and src/reposcan: successive scans of one pinned          *)
(* repository against OSV and NVD, and the baseline file they are compared *)
(* with.  The first run saves what it found; a monitor run loads the       *)
(* baseline, scans again, carries over NVD evidence it has no authority to *)
(* forget, prints the report with the changes since the baseline, and only *)
(* then replaces the baseline.                                             *)
(*                                                                         *)
(* Abstracted: one package query, the same in every run, of whose matches  *)
(* only the records they name are kept; the raw OSV record of an advisory  *)
(* is the set of CVEs it names as aliases, the raw NVD record of a CVE one *)
(* of a few versions.  What a provider answers is free at every lookup, which   *)
(* covers what changes at the providers between two lookups or two runs.   *)
(* Two processes never write one file ("Callers must serialize concurrent  *)
(* writers", state.go:226), and the wall clock does not step back.         *)
(***************************************************************************)
EXTENDS FiniteSets

CONSTANTS
  Advisory,  \* OSV ids
  Cve,       \* CVE ids
  Version,   \* what NVD may say of a CVE
  None

ASSUME RepoScanAssumption ==
  /\ None \notin Version
  /\ \A S \in SUBSET Cve : S # None

Answer == {"found", "not_found", "error", "not_checked"}

Report == [listed    : SUBSET Advisory,             \* PackageResult.IDs
           complete  : BOOLEAN,                     \* PackageResult.Complete
           osv       : [Advisory -> {None} \cup SUBSET Cve],
           nvd       : [Cve -> Version \cup {None}],
           answer    : [Cve -> Answer \cup {None}], \* Enrichment
           refreshed : BOOLEAN,                     \* RefreshComplete
           retained  : [Cve -> Version \cup {None}]]

VARIABLES
  file,      \* the baseline on disk
  pc,        \* where the process is
  previous,  \* the baseline a monitor run loaded, None in a first run
  nvdOn,     \* it was told to look up NVD
  expired,   \* its deadline has passed
  report,    \* the report it is making
  printed    \* the changes it has printed

vars == <<file, pc, previous, nvdOn, expired, report, printed>>

NoRecords == [c \in Cve |-> None]

Blank == [listed |-> {}, complete |-> FALSE, osv |-> [a \in Advisory |-> None],
          nvd |-> NoRecords, answer |-> NoRecords, refreshed |-> FALSE, retained |-> NoRecords]

-----------------------------------------------------------------------------
(* Helpers of src/reposcan.                                                *)

Aliases(osv) == UNION {osv[a] : a \in {b \in Advisory : osv[b] # None}}

(* The NVD records a report knows of: observed, or carried over.           *)
NvdHistory(r) == [c \in Cve |-> IF r.nvd[c] # None THEN r.nvd[c] ELSE r.retained[c]]

(* The CVEs a report may say NVD has no record of.                         *)
NvdAbsences(r) ==
  {c \in Cve : /\ r.refreshed
               /\ \A d \in Cve : r.answer[d] # "not_checked"
               /\ r.answer[c] = "not_found"}

(* Mutant: also retains a record the report has observed again.            *)
RetainObserved(old, current) ==
  [current EXCEPT !.retained =
     [c \in Cve |->
        IF c \in NvdAbsences(current) THEN None
        ELSE IF NvdHistory(old)[c] # None THEN NvdHistory(old)[c]
        ELSE current.retained[c]]]

(* Mutant: carries over what the last report observed, not what it kept.   *)
RetainOneRun(old, current) ==
  [current EXCEPT !.retained =
     [c \in Cve |->
        IF current.nvd[c] # None \/ c \in NvdAbsences(current) THEN None
        ELSE IF old.nvd[c] # None THEN old.nvd[c]
        ELSE current.retained[c]]]

(* The NVD records to carry over into the current report.                  *)
RetainEvidence(old, current) ==
  [current EXCEPT !.retained =
     [c \in Cve |->
        IF current.nvd[c] # None \/ c \in NvdAbsences(current) THEN None
        ELSE IF NvdHistory(old)[c] # None THEN NvdHistory(old)[c]
        ELSE current.retained[c]]]

Change(kind, source, id) == [kind |-> kind, source |-> source, id |-> id]

(* The records that differ from the older ones of the same source, as far  *)
(* as the absence of those in `removable` is to be believed.               *)
ChangesOf(source, older, newer, removable) ==
  LET ids == DOMAIN newer IN
  {Change("added", source, i) : i \in {k \in ids : older[k] = None /\ newer[k] # None}}
  \cup {Change("modified", source, i) :
          i \in {k \in ids : older[k] # None /\ newer[k] # None /\ newer[k] # older[k]}}
  \cup {Change("no_longer_observed", source, i) :
          i \in {k \in removable : older[k] # None /\ newer[k] = None}}

(* The result of the package query: whether it is complete, the ids it     *)
(* lists and the advisories it matches.                                    *)
QueryResult(r) == [complete |-> r.complete, ids |-> r.listed,
                   matches |-> {a \in Advisory : r.osv[a] # None}]

QueryChanges(old, current) ==
  IF QueryResult(old) = QueryResult(current) THEN {}
  ELSE {Change("query_changed", "query", None)}

(* Mutant: compares with what was observed, not with what was retained.    *)
ChangesObserved(old, current) ==
  ChangesOf("osv", old.osv, current.osv, IF current.refreshed THEN Advisory ELSE {})
  \cup ChangesOf("nvd", old.nvd, current.nvd, NvdAbsences(current))
  \cup QueryChanges(old, current)

Changes(old, current) ==
  ChangesOf("osv", old.osv, current.osv, IF current.refreshed THEN Advisory ELSE {})
  \cup ChangesOf("nvd", NvdHistory(old), current.nvd, NvdAbsences(current))
  \cup QueryChanges(old, current)

(* What Save insists on before it writes and Load before it returns.       *)
ValidState(r) ==
  /\ r.refreshed => r.complete
  /\ r.complete => \A a \in r.listed : r.osv[a] # None
  /\ \A c \in Cve :
       /\ r.answer[c] # None <=> c \in Aliases(r.osv)
       /\ r.nvd[c] # None <=> r.answer[c] = "found"
       /\ r.answer[c] = "error" => ~r.refreshed
       /\ r.retained[c] # None => r.nvd[c] = None /\ c \notin NvdAbsences(r)

-----------------------------------------------------------------------------
Init ==
  /\ file = None
  /\ pc = "idle"
  /\ previous = None
  /\ nvdOn = FALSE
  /\ expired = FALSE
  /\ report = Blank
  /\ printed = {}

(* A first run refuses an existing file, a monitor run one it cannot load. *)
Start ==
  /\ pc = "idle"
  /\ file # None => ValidState(file)
  /\ pc' = "querying"
  /\ previous' = file
  /\ nvdOn' \in BOOLEAN
  /\ UNCHANGED <<file, expired, report, printed>>

Expire ==
  /\ pc # "idle"
  /\ ~expired
  /\ expired' = TRUE
  /\ UNCHANGED <<file, pc, previous, nvdOn, report, printed>>

(* The package query and the detail of every advisory it lists.  The list  *)
(* may be cut short and a detail may fail; after the deadline all of it    *)
(* does.                                                                   *)
Query ==
  /\ pc = "querying"
  /\ \E listed \in SUBSET Advisory, whole \in BOOLEAN, osv \in [Advisory -> {None} \cup SUBSET Cve] :
       /\ \A a \in Advisory \ listed : osv[a] = None
       /\ expired => listed = {} /\ ~whole
       /\ LET complete == whole /\ \A a \in listed : osv[a] # None IN
          report' = [Blank EXCEPT !.listed = listed, !.osv = osv,
                                  !.complete = complete, !.refreshed = complete]
  /\ pc' = "enriching"
  /\ UNCHANGED <<file, previous, nvdOn, expired, printed>>

(* One NVD lookup for every CVE the records name; any error makes the      *)
(* refresh incomplete.                                                     *)
Enrich ==
  /\ pc = "enriching"
  /\ \E answer \in [Cve -> Answer \cup {None}], nvd \in [Cve -> Version \cup {None}] :
       /\ \A c \in Cve :
            /\ answer[c] # None <=> c \in Aliases(report.osv)
            /\ answer[c] # None => (answer[c] = "not_checked" <=> ~nvdOn)
            /\ expired /\ nvdOn => answer[c] \in {"error", None}
            /\ nvd[c] # None <=> answer[c] = "found"
       /\ report' = [report EXCEPT !.answer = answer, !.nvd = nvd,
                       !.refreshed = @ /\ \A c \in Cve : answer[c] # "error"]
  /\ pc' = "concluding"
  /\ UNCHANGED <<file, previous, nvdOn, expired, printed>>

(* Mutant: leaves the carrying over to Save.                               *)
ConcludeForgets ==
  /\ pc = "concluding"
  /\ report' = [report EXCEPT !.refreshed = @ /\ ~expired]
  /\ pc' = "printing"
  /\ UNCHANGED <<file, previous, nvdOn, expired, printed>>

(* The end of Run and, in a monitor run, the carried-over evidence.        *)
Conclude ==
  /\ pc = "concluding"
  /\ LET ran == [report EXCEPT !.refreshed = @ /\ ~expired] IN
     report' = IF previous = None THEN ran ELSE RetainEvidence(previous, ran)
  /\ pc' = "printing"
  /\ UNCHANGED <<file, previous, nvdOn, expired, printed>>

(* The process is gone, and its exit status tells whether to look again.   *)
Ends ==
  /\ pc' = "idle"
  /\ previous' = None
  /\ nvdOn' = FALSE
  /\ expired' = FALSE
  /\ report' = Blank
  /\ printed' = {}

(* The report and its changes are written to standard output; a monitor    *)
(* run whose refresh is incomplete ends there.                             *)
Emit ==
  /\ pc = "printing"
  /\ IF previous # None /\ ~report.refreshed
       THEN Ends
       ELSE /\ printed' = IF previous = None THEN {} ELSE Changes(previous, report)
            /\ pc' = "saving"
            /\ UNCHANGED <<previous, nvdOn, expired, report>>
  /\ UNCHANGED file

(* reposcan.Save: it carries the evidence over once more, against the file *)
(* it is about to replace.                                                 *)
Save ==
  /\ pc = "saving"
  /\ ValidState(report)
  /\ file # None => ValidState(file) /\ report.refreshed
  /\ LET kept == IF file = None THEN report ELSE RetainEvidence(file, report) IN
     ValidState(kept) /\ file' = kept
  /\ Ends

(* The output or the save fails, or the process dies, at any point.        *)
Fail ==
  /\ pc # "idle"
  /\ Ends
  /\ UNCHANGED file

Next ==
  Start \/ Expire \/ Query \/ Enrich \/ Conclude \/ Emit \/ Save \/ Fail

Spec == Init /\ [][Next]_vars

-----------------------------------------------------------------------------
(* Properties.                                                             *)

TypeOK ==
  /\ file # None => file \in Report
  /\ pc \in {"idle", "querying", "enriching", "concluding", "printing", "saving"}
  /\ previous # None => previous \in Report
  /\ nvdOn \in BOOLEAN
  /\ expired \in BOOLEAN
  /\ report \in Report
  /\ printed \subseteq [kind : {"added", "modified", "no_longer_observed", "query_changed"},
                         source : {"osv", "nvd", "query"}, id : Advisory \cup Cve \cup {None}]

(* Whatever the providers answer and whenever the deadline passes, the     *)
(* report a run ends with can be saved, and what was saved can be loaded   *)
(* by the next monitor run (state.go:14-173 against run.go:41-263).        *)
AlwaysSavable ==
  /\ pc = "saving" => ValidState(report)
  /\ file # None => ValidState(file)

(* The baseline advances only over what was printed: replacing it changes  *)
(* exactly the records, and the query result, the run's own output         *)
(* reported as changed, so that a lost output or a failed save loses no    *)
(* change (main.go:206-231).                                               *)
Evidence(r) == [source \in {"osv", "nvd"} |-> IF source = "osv" THEN r.osv ELSE NvdHistory(r)]

AdvanceIsPrinted ==
  [][file # None /\ file' # file =>
       /\ \A source \in {"osv", "nvd"} :
            LET older == Evidence(file)[source]
                newer == Evidence(file')[source]
            IN  \A i \in DOMAIN older :
                  older[i] # newer[i] <=> \E ch \in printed : ch.source = source /\ ch.id = i
       /\ QueryResult(file) # QueryResult(file') <=>
            \E ch \in printed : ch.kind = "query_changed"]_vars

(* Evidence leaves the baseline on authority only: an advisory when a      *)
(* complete refresh does not list it, an NVD record when a complete        *)
(* refresh asked NVD for that very CVE and was told there is none          *)
(* (changes.go:10-13).                                                     *)
EvidenceForgottenOnAuthority ==
  [][file # None /\ file' # None =>
       /\ \A a \in Advisory :
            file.osv[a] # None /\ file'.osv[a] = None => file'.refreshed /\ a \notin file'.listed
       /\ \A c \in Cve :
            NvdHistory(file)[c] # None /\ NvdHistory(file')[c] = None =>
              file'.refreshed /\ file'.answer[c] = "not_found"]_vars

(* What is saved is what was printed: carrying the evidence over a second  *)
(* time changes nothing (changes.go:15-19, state.go:222-225).              *)
SavedIsPrinted == [][file' # file => file' = report]_vars
=============================================================================

--------------------------- MODULE RepoScanProofs ---------------------------
(***************************************************************************)
(* Proofs about RepoScan, for any number of advisories, CVEs and versions. *)
(* The argument: a report is built valid, carrying evidence over keeps it  *)
(* valid, and carrying the same baseline's evidence over again changes     *)
(* nothing.  Since the baseline a monitor run loaded is still the file it  *)
(* replaces, the report that was printed is the one that is saved.         *)
(***************************************************************************)
EXTENDS RepoScan, TLAPS

(* What each stage of a run knows of the report it is making.              *)
FoundOnly ==
  /\ report.refreshed => report.complete
  /\ report.complete => \A a \in report.listed : report.osv[a] # None
  /\ report.retained = NoRecords

(* Nothing is carried over but what the older report knew.                 *)
CarriedOnly(old, r) ==
  \A c \in Cve : r.retained[c] # None => r.retained[c] = NvdHistory(old)[c]

ReportSound ==
  /\ report \in Report
  /\ pc = "enriching" => FoundOnly
  /\ pc = "concluding" => FoundOnly /\ ValidState(report)
  /\ pc \in {"printing", "saving"} =>
       /\ ValidState(report)
       /\ previous # None => /\ RetainEvidence(previous, report) = report
                             /\ CarriedOnly(previous, report)
  /\ pc = "saving" /\ previous # None =>
       report.refreshed /\ printed = Changes(previous, report)

BaselineSound ==
  /\ file # None => file \in Report /\ ValidState(file)
  /\ pc # "idle" => previous = file

IInv == ReportSound /\ BaselineSound

-----------------------------------------------------------------------------
(* Carrying evidence over makes a report of the same shape                 *)
(* (changes.go:20-47).                                                     *)
LEMMA RetainTyped ==
  ASSUME NEW old \in Report, NEW current \in Report
  PROVE  RetainEvidence(old, current) \in Report
<1>1. NvdHistory(old) \in [Cve -> Version \cup {None}]
  BY DEF NvdHistory, Report
<1> DEFINE kept == [c \in Cve |->
        IF current.nvd[c] # None \/ c \in NvdAbsences(current) THEN None
        ELSE IF NvdHistory(old)[c] # None THEN NvdHistory(old)[c]
        ELSE current.retained[c]]
<1>2. kept \in [Cve -> Version \cup {None}]
  BY <1>1 DEF Report
<1>3. RetainEvidence(old, current) = [current EXCEPT !.retained = kept]
  BY DEF RetainEvidence
<1> HIDE DEF kept
<1>4. QED
  BY <1>2, <1>3 DEF Report

(* Only the carried-over records of a report change, and each of them is   *)
(* what the rule of changes.go:28-44 says.                                 *)
LEMMA RetainFields ==
  ASSUME NEW old \in Report, NEW current \in Report
  PROVE  LET r == RetainEvidence(old, current) IN
         /\ r.listed = current.listed
         /\ r.complete = current.complete
         /\ r.osv = current.osv
         /\ r.nvd = current.nvd
         /\ r.answer = current.answer
         /\ r.refreshed = current.refreshed
         /\ NvdAbsences(r) = NvdAbsences(current)
         /\ \A c \in Cve : r.retained[c] =
              IF current.nvd[c] # None \/ c \in NvdAbsences(current) THEN None
              ELSE IF NvdHistory(old)[c] # None THEN NvdHistory(old)[c]
              ELSE current.retained[c]
<1> DEFINE r == RetainEvidence(old, current)
<1>1. /\ r.listed = current.listed
      /\ r.complete = current.complete
      /\ r.osv = current.osv
      /\ r.nvd = current.nvd
      /\ r.answer = current.answer
      /\ r.refreshed = current.refreshed
      /\ \A c \in Cve : r.retained[c] =
           IF current.nvd[c] # None \/ c \in NvdAbsences(current) THEN None
           ELSE IF NvdHistory(old)[c] # None THEN NvdHistory(old)[c]
           ELSE current.retained[c]
  BY DEF RetainEvidence, Report
<1>2. NvdAbsences(r) = NvdAbsences(current)
  BY <1>1 DEF NvdAbsences
<1>3. QED
  BY <1>1, <1>2

(* A valid report stays valid when evidence is carried over into it, so    *)
(* the check after the second retention (state.go:256) cannot fail.        *)
LEMMA RetainValid ==
  ASSUME NEW old \in Report, NEW current \in Report, ValidState(current)
  PROVE  ValidState(RetainEvidence(old, current))
BY RetainFields DEF ValidState

(* Carrying over the evidence of one baseline twice is the same as once    *)
(* (changes.go:15: "The helper is idempotent").                            *)
LEMMA RetainIdempotent ==
  ASSUME NEW old \in Report, NEW current \in Report
  PROVE  RetainEvidence(old, RetainEvidence(old, current)) = RetainEvidence(old, current)
<1> DEFINE once == RetainEvidence(old, current)
           twice == RetainEvidence(old, once)
<1>1. once \in Report /\ twice \in Report
  BY RetainTyped
<1>2. \A c \in Cve : twice.retained[c] = once.retained[c]
  <2> TAKE c \in Cve
  <2>1. /\ once.nvd = current.nvd
        /\ NvdAbsences(once) = NvdAbsences(current)
        /\ once.retained[c] =
             IF current.nvd[c] # None \/ c \in NvdAbsences(current) THEN None
             ELSE IF NvdHistory(old)[c] # None THEN NvdHistory(old)[c]
             ELSE current.retained[c]
    BY RetainFields
  <2>2. twice.retained[c] =
             IF once.nvd[c] # None \/ c \in NvdAbsences(once) THEN None
             ELSE IF NvdHistory(old)[c] # None THEN NvdHistory(old)[c]
             ELSE once.retained[c]
    BY <1>1, RetainFields
  <2>3. QED
    BY <2>1, <2>2
<1>3. twice.retained = once.retained
  BY <1>1, <1>2 DEF Report
<1>4. /\ twice.listed = once.listed /\ twice.complete = once.complete
      /\ twice.osv = once.osv /\ twice.nvd = once.nvd
      /\ twice.answer = once.answer /\ twice.refreshed = once.refreshed
  BY <1>1, RetainFields
<1> HIDE DEF once, twice
<1>5. twice = once
  BY <1>1, <1>3, <1>4 DEF Report
<1>6. QED
  BY <1>5 DEF once, twice

-----------------------------------------------------------------------------
LEMMA BlankTyped == Blank \in Report
BY DEF Blank, Report, NoRecords

LEMMA InitSound == Init => IInv
BY BlankTyped DEF Init, IInv, ReportSound, BaselineSound

LEMMA EndsSound ==
  ASSUME BaselineSound, Ends, UNCHANGED file \/ (file' \in Report /\ ValidState(file'))
  PROVE  IInv'
<1>1. report' \in Report
  BY BlankTyped DEF Ends
<1>2. pc' = "idle"
  BY DEF Ends
<1>3. file' # None => file' \in Report /\ ValidState(file')
  BY DEF BaselineSound
<1>4. QED
  BY <1>1, <1>2, <1>3 DEF IInv, ReportSound, BaselineSound

LEMMA StartStep == IInv /\ Start => IInv'
BY DEF Start, IInv, ReportSound, BaselineSound

LEMMA ExpireStep == IInv /\ Expire => IInv'
BY DEF Expire, IInv, ReportSound, BaselineSound, FoundOnly

(* The package query leaves a report whose completeness is earned.         *)
LEMMA QueryStep == IInv /\ Query => IInv'
<1> SUFFICES ASSUME IInv, Query PROVE IInv'
  OBVIOUS
<1>1. PICK listed \in SUBSET Advisory, whole \in BOOLEAN,
           osv \in [Advisory -> {None} \cup SUBSET Cve] :
        /\ \A a \in Advisory \ listed : osv[a] = None
        /\ expired => listed = {} /\ ~whole
        /\ LET complete == whole /\ \A a \in listed : osv[a] # None IN
           report' = [Blank EXCEPT !.listed = listed, !.osv = osv,
                                   !.complete = complete, !.refreshed = complete]
  BY Zenon DEF Query
<1> DEFINE complete == whole /\ \A a \in listed : osv[a] # None
<1>2. /\ report' \in Report
      /\ report'.listed = listed /\ report'.osv = osv
      /\ report'.complete = complete /\ report'.refreshed = complete
      /\ report'.retained = NoRecords
  BY <1>1, BlankTyped DEF Blank, Report
<1>3. FoundOnly'
  BY <1>2 DEF FoundOnly
<1>4. pc' = "enriching" /\ pc = "querying" /\ previous' = previous /\ file' = file
  BY DEF Query
<1>5. ReportSound'
  BY <1>2, <1>3, <1>4 DEF ReportSound
<1>6. BaselineSound'
  BY <1>4 DEF IInv, BaselineSound
<1>7. QED
  BY <1>5, <1>6 DEF IInv

(* The NVD lookups answer for exactly the CVEs the records name.           *)
LEMMA EnrichStep == IInv /\ Enrich => IInv'
<1> SUFFICES ASSUME IInv, Enrich PROVE IInv'
  OBVIOUS
<1>1. PICK answer \in [Cve -> Answer \cup {None}], nvd \in [Cve -> Version \cup {None}] :
        /\ \A c \in Cve :
             /\ answer[c] # None <=> c \in Aliases(report.osv)
             /\ answer[c] # None => (answer[c] = "not_checked" <=> ~nvdOn)
             /\ expired /\ nvdOn => answer[c] \in {"error", None}
             /\ nvd[c] # None <=> answer[c] = "found"
        /\ report' = [report EXCEPT !.answer = answer, !.nvd = nvd,
                         !.refreshed = @ /\ \A c \in Cve : answer[c] # "error"]
  BY Zenon DEF Enrich
<1>2. report \in Report /\ FoundOnly
  BY DEF Enrich, IInv, ReportSound
<1>3. /\ report' \in Report
      /\ report'.listed = report.listed /\ report'.osv = report.osv
      /\ report'.complete = report.complete /\ report'.retained = NoRecords
      /\ report'.answer = answer /\ report'.nvd = nvd
      /\ report'.refreshed <=> report.refreshed /\ \A c \in Cve : answer[c] # "error"
  BY <1>1, <1>2 DEF Report, FoundOnly
<1>4. FoundOnly'
  BY <1>2, <1>3 DEF FoundOnly
<1>5. ValidState(report')
  <2>1. /\ report'.refreshed => report'.complete
        /\ report'.complete => \A a \in report'.listed : report'.osv[a] # None
    BY <1>4 DEF FoundOnly
  <2>2. ASSUME NEW c \in Cve
        PROVE  /\ report'.answer[c] # None <=> c \in Aliases(report'.osv)
               /\ report'.nvd[c] # None <=> report'.answer[c] = "found"
               /\ report'.retained[c] = None
    BY <1>1, <1>3 DEF NoRecords
  <2>3. ASSUME NEW c \in Cve, report'.answer[c] = "error"
        PROVE  ~report'.refreshed
    BY <1>3, <2>3
  <2>4. QED
    BY <2>1, <2>2, <2>3 DEF ValidState
<1>6. pc' = "concluding" /\ pc = "enriching" /\ previous' = previous /\ file' = file
  BY DEF Enrich
<1>7. ReportSound'
  BY <1>3, <1>4, <1>5, <1>6 DEF ReportSound
<1>8. BaselineSound'
  BY <1>6 DEF IInv, BaselineSound
<1>9. QED
  BY <1>7, <1>8 DEF IInv

(* The deadline can only take the completeness of the refresh away, and    *)
(* what is carried over from the baseline fits the report.                 *)
LEMMA ConcludeStep == IInv /\ Conclude => IInv'
<1> SUFFICES ASSUME IInv, Conclude PROVE IInv'
  OBVIOUS
<1> DEFINE ran == [report EXCEPT !.refreshed = @ /\ ~expired]
<1>1. report \in Report /\ FoundOnly /\ ValidState(report)
  BY DEF Conclude, IInv, ReportSound
<1>2. /\ ran \in Report
      /\ ran.listed = report.listed /\ ran.osv = report.osv
      /\ ran.complete = report.complete /\ ran.retained = NoRecords
      /\ ran.answer = report.answer /\ ran.nvd = report.nvd
      /\ ran.refreshed => report.refreshed
  BY <1>1 DEF Report, FoundOnly
<1>3. ValidState(ran)
  BY <1>1, <1>2 DEF ValidState, NoRecords
<1>4. /\ pc' = "printing" /\ pc = "concluding" /\ previous' = previous /\ file' = file
      /\ report' = IF previous = None THEN ran ELSE RetainEvidence(previous, ran)
  BY DEF Conclude
<1> HIDE DEF ran
<1>5. previous # None => previous \in Report
  BY <1>4 DEF IInv, BaselineSound
<1>6. CASE previous = None
  BY <1>2, <1>3, <1>4, <1>6 DEF IInv, ReportSound, BaselineSound
<1>7. CASE previous # None
  <2>1. report' = RetainEvidence(previous, ran)
    BY <1>4, <1>7
  <2>2. report' \in Report /\ ValidState(report') /\ RetainEvidence(previous, report') = report'
    BY <1>2, <1>3, <1>5, <1>7, <2>1, RetainTyped, RetainValid, RetainIdempotent
  <2>3. CarriedOnly(previous, report')
    BY <1>2, <1>5, <1>7, <2>1, RetainFields DEF CarriedOnly, NoRecords
  <2>4. QED
    BY <1>4, <2>2, <2>3 DEF IInv, ReportSound, BaselineSound
<1>8. QED
  BY <1>6, <1>7

(* Printing ends a monitor run whose refresh is incomplete, or remembers   *)
(* the changes of the report that is about to be saved.                    *)
LEMMA EmitStep == IInv /\ Emit => IInv'
<1> SUFFICES ASSUME IInv, Emit PROVE IInv'
  OBVIOUS
<1>1. CASE previous # None /\ ~report.refreshed
  BY <1>1, EndsSound DEF Emit, IInv
<1>2. CASE ~(previous # None /\ ~report.refreshed)
  <2>1. /\ pc = "printing" /\ pc' = "saving"
        /\ UNCHANGED <<previous, nvdOn, expired, report, file>>
        /\ printed' = IF previous = None THEN {} ELSE Changes(previous, report)
    BY <1>2 DEF Emit
  <2>2. UNCHANGED <<previous, report, file>> /\ (previous # None => printed' = Changes(previous', report'))
    BY <2>1
  <2>3. ReportSound'
    BY <1>2, <2>1, <2>2 DEF IInv, ReportSound
  <2>4. QED
    BY <2>1, <2>3 DEF IInv, BaselineSound
<1>3. QED
  BY <1>1, <1>2

(* What a save writes is the very report that was printed.                 *)
LEMMA SaveWritesReport ==
  ASSUME IInv, Save
  PROVE  /\ file' = report
         /\ report \in Report /\ ValidState(report)
         /\ file # None => report.refreshed /\ CarriedOnly(file, report)
                           /\ RetainEvidence(file, report) = report
                           /\ printed = Changes(file, report)
<1>1. /\ report \in Report /\ ValidState(report) /\ previous = file
      /\ previous # None => /\ RetainEvidence(previous, report) = report
                            /\ CarriedOnly(previous, report)
                            /\ report.refreshed
                            /\ printed = Changes(previous, report)
  BY DEF Save, IInv, ReportSound, BaselineSound
<1>2. file' = IF file = None THEN report ELSE RetainEvidence(file, report)
  BY DEF Save
<1>3. QED
  BY <1>1, <1>2

LEMMA SaveStep == IInv /\ Save => IInv'
<1> SUFFICES ASSUME IInv, Save PROVE IInv'
  OBVIOUS
<1>1. file' \in Report /\ ValidState(file')
  BY SaveWritesReport
<1>2. BaselineSound /\ Ends
  BY DEF IInv, Save
<1>3. QED
  BY <1>1, <1>2, EndsSound

LEMMA FailStep == IInv /\ Fail => IInv'
BY EndsSound DEF Fail, IInv

LEMMA StutterStep == IInv /\ UNCHANGED vars => IInv'
BY DEF vars, IInv, ReportSound, BaselineSound, FoundOnly

-----------------------------------------------------------------------------
LEMMA NextSound == IInv /\ [Next]_vars => IInv'
BY StartStep, ExpireStep, QueryStep, EnrichStep, ConcludeStep, EmitStep, SaveStep,
   FailStep, StutterStep DEF Next

(* The inductive invariant: reports are sound at every stage of a run and  *)
(* the baseline is valid and the one the run was started from.             *)
THEOREM Inductive == Spec => []IInv
BY InitSound, NextSound, PTL DEF Spec

(* Types: in particular every printed change is of one of the four kinds,  *)
(* of a record of one of the two sources or of the query                   *)
(* (changes.go:86-146).                                                    *)
LEMMA ChangesTyped ==
  ASSUME NEW old \in Report, NEW r \in Report
  PROVE  Changes(old, r) \subseteq
           [kind : {"added", "modified", "no_longer_observed", "query_changed"},
            source : {"osv", "nvd", "query"}, id : Advisory \cup Cve \cup {None}]
<1> DEFINE AnyChange == [kind : {"added", "modified", "no_longer_observed", "query_changed"},
                         source : {"osv", "nvd", "query"}, id : Advisory \cup Cve \cup {None}]
<1>1. ASSUME NEW source \in {"osv", "nvd"}, NEW older, NEW newer, NEW removable,
             DOMAIN newer \subseteq Advisory \cup Cve, removable \subseteq Advisory \cup Cve
      PROVE  ChangesOf(source, older, newer, removable) \subseteq AnyChange
  BY <1>1 DEF ChangesOf, Change
<1>2. DOMAIN r.osv = Advisory /\ DOMAIN r.nvd = Cve /\ NvdAbsences(r) \subseteq Cve
  BY DEF Report, NvdAbsences
<1>3. QueryChanges(old, r) \subseteq AnyChange
  BY DEF QueryChanges, Change
<1> HIDE DEF AnyChange
<1>4. ChangesOf("osv", old.osv, r.osv, IF r.refreshed THEN Advisory ELSE {}) \subseteq AnyChange
  BY <1>1, <1>2
<1>5. ChangesOf("nvd", NvdHistory(old), r.nvd, NvdAbsences(r)) \subseteq AnyChange
  BY <1>1, <1>2
<1>6. QED
  BY <1>3, <1>4, <1>5 DEF Changes, AnyChange

THEOREM TypeCorrect == Spec => []TypeOK
<1>1. Init => TypeOK
  BY BlankTyped DEF Init, TypeOK
<1>2. ASSUME TypeOK, IInv, [Next]_vars, IInv' PROVE TypeOK'
  <2>1. (file # None => file \in Report)' /\ report' \in Report
    BY <1>2 DEF IInv, BaselineSound, ReportSound
  <2>2. CASE Start
    BY <1>2, <2>1, <2>2 DEF TypeOK, Start
  <2>3. CASE Ends
    BY <2>1, <2>3 DEF TypeOK, Ends
  <2>4. CASE Emit /\ ~Ends
    <3>1. pc' = "saving" /\ UNCHANGED <<previous, nvdOn, expired, report>>
          /\ printed' = IF previous = None THEN {} ELSE Changes(previous, report)
      BY <2>4 DEF Emit
    <3>2. previous # None => previous \in Report
      BY <1>2 DEF TypeOK
    <3>3. report \in Report
      BY <1>2 DEF TypeOK
    <3>4. printed' \subseteq
            [kind : {"added", "modified", "no_longer_observed", "query_changed"},
             source : {"osv", "nvd", "query"}, id : Advisory \cup Cve \cup {None}]
      BY <3>1, <3>2, <3>3, ChangesTyped
    <3>5. QED
      BY <1>2, <2>1, <3>1, <3>4 DEF TypeOK
  <2>5. CASE Expire \/ Query \/ Enrich \/ Conclude \/ UNCHANGED vars
    <3>1. pc' \in {pc, "enriching", "concluding", "printing"} /\ expired' \in {expired, TRUE}
          /\ UNCHANGED <<previous, nvdOn, printed>>
      BY <2>5 DEF Expire, Query, Enrich, Conclude, vars
    <3>2. QED
      BY <1>2, <2>1, <3>1 DEF TypeOK
  <2>6. QED
    BY <1>2, <2>2, <2>3, <2>4, <2>5 DEF Next, Save, Fail
<1>3. QED
  BY <1>1, <1>2, Inductive, PTL DEF Spec

(* Whatever OSV and NVD answer and whenever the deadline passes, what a    *)
(* run ends with can be saved, and what was saved can be loaded            *)
(* (state.go:14-173 against run.go:41-263 and changes.go:20-47).           *)
THEOREM AlwaysLoadable == Spec => []AlwaysSavable
<1>1. IInv => AlwaysSavable
  BY DEF IInv, ReportSound, BaselineSound, AlwaysSavable
<1>2. QED
  BY Inductive, <1>1, PTL

LEMMA OnlySaveWrites == [Next]_vars /\ file' # file => Save
BY DEF Next, vars, Start, Expire, Query, Enrich, Conclude, Emit, Save, Fail

(* The saved report is the printed one: Save's second retention            *)
(* (state.go:255) changes nothing.                                         *)
THEOREM SavedAsPrinted == Spec => SavedIsPrinted
<1>1. IInv /\ [Next]_vars => [file' # file => file' = report]_vars
  BY OnlySaveWrites, SaveWritesReport
<1>2. QED
  BY Inductive, <1>1, PTL DEF Spec, SavedIsPrinted

(* An OSV record leaves the baseline only when a complete refresh does not *)
(* list it, an NVD record only when a complete refresh asked for its CVE   *)
(* and was told there is none (changes.go:10-13).                          *)
THEOREM ForgottenOnAuthority == Spec => EvidenceForgottenOnAuthority
<1> DEFINE Forget ==
      file # None /\ file' # None =>
       /\ \A a \in Advisory :
            file.osv[a] # None /\ file'.osv[a] = None => file'.refreshed /\ a \notin file'.listed
       /\ \A c \in Cve :
            NvdHistory(file)[c] # None /\ NvdHistory(file')[c] = None =>
              file'.refreshed /\ file'.answer[c] = "not_found"
<1>1. ASSUME IInv, [Next]_vars PROVE [Forget]_vars
  <2>1. CASE file' = file
    BY <2>1
  <2>2. CASE file' # file /\ file # None
    <3>1. /\ file' = report /\ report \in Report /\ ValidState(report) /\ report.refreshed
          /\ RetainEvidence(file, report) = report /\ file \in Report
      BY <1>1, <2>2, OnlySaveWrites, SaveWritesReport DEF IInv, BaselineSound
    <3>2. ASSUME NEW a \in Advisory, file'.osv[a] = None
          PROVE  file'.refreshed /\ a \notin file'.listed
      BY <3>1, <3>2 DEF ValidState
    <3>3. ASSUME NEW c \in Cve, NvdHistory(file)[c] # None, NvdHistory(file')[c] = None
          PROVE  c \in NvdAbsences(report)
      <4>1. report.nvd[c] = None /\ report.retained[c] = None
        BY <3>1, <3>3 DEF NvdHistory
      <4>2. QED
        BY <3>1, <3>3, <4>1, RetainFields
    <3>4. QED
      BY <3>1, <3>2, <3>3 DEF NvdAbsences
  <2>3. QED
    BY <2>1, <2>2
<1>2. QED
  BY Inductive, <1>1, PTL DEF Spec, EvidenceForgottenOnAuthority

-----------------------------------------------------------------------------
(* A change is reported for a record exactly when the newer observation is *)
(* another one, or is gone and its absence is to be believed.              *)
LEMMA ChangesOfMember ==
  ASSUME NEW source, NEW older, NEW newer, NEW removable, NEW i \in DOMAIN newer,
         NEW S, S = ChangesOf(source, older, newer, removable),
         removable \subseteq DOMAIN newer
  PROVE  (\E ch \in S : ch.source = source /\ ch.id = i)
           <=> newer[i] # older[i] /\ (newer[i] = None => i \in removable)
<1>1. ASSUME NEW ch \in S, ch.source = source, ch.id = i
      PROVE  newer[i] # older[i] /\ (newer[i] = None => i \in removable)
  BY <1>1 DEF ChangesOf, Change
<1>2. ASSUME newer[i] # older[i], newer[i] = None => i \in removable
      PROVE  \E ch \in S : ch.source = source /\ ch.id = i
  <2>1. CASE older[i] = None
    <3>1. Change("added", source, i) \in S
      BY <1>2, <2>1 DEF ChangesOf
    <3>2. QED
      BY <3>1 DEF Change
  <2>2. CASE older[i] # None /\ newer[i] # None
    <3>1. Change("modified", source, i) \in S
      BY <1>2, <2>2 DEF ChangesOf
    <3>2. QED
      BY <3>1 DEF Change
  <2>3. CASE older[i] # None /\ newer[i] = None
    <3>1. Change("no_longer_observed", source, i) \in S
      BY <1>2, <2>3 DEF ChangesOf
    <3>2. QED
      BY <3>1 DEF Change
  <2>4. QED
    BY <2>1, <2>2, <2>3
<1>3. QED
  BY <1>1, <1>2

(* Every change carries the source it was computed for.                    *)
LEMMA ChangesOfSource ==
  ASSUME NEW source, NEW older, NEW newer, NEW removable,
         NEW ch \in ChangesOf(source, older, newer, removable)
  PROVE  ch.source = source /\ ch.kind # "query_changed"
BY DEF ChangesOf, Change

(* Replacing a baseline by a complete report that carries its evidence     *)
(* changes exactly what Changes reports.                                   *)
LEMMA ChangesAreTheDifference ==
  ASSUME NEW old \in Report, NEW r \in Report, r.refreshed,
         RetainEvidence(old, r) = r, CarriedOnly(old, r)
  PROVE  /\ \A a \in Advisory : old.osv[a] # r.osv[a] <=>
              \E ch \in Changes(old, r) : ch.source = "osv" /\ ch.id = a
         /\ \A c \in Cve : NvdHistory(old)[c] # NvdHistory(r)[c] <=>
              \E ch \in Changes(old, r) : ch.source = "nvd" /\ ch.id = c
         /\ QueryResult(old) # QueryResult(r) <=>
              \E ch \in Changes(old, r) : ch.kind = "query_changed"
<1> DEFINE O == ChangesOf("osv", old.osv, r.osv, Advisory)
           N == ChangesOf("nvd", NvdHistory(old), r.nvd, NvdAbsences(r))
           Q == QueryChanges(old, r)
<1>1. Changes(old, r) = O \cup N \cup Q
  BY DEF Changes
<1>2. \A ch \in O : ch.source = "osv" /\ ch.kind # "query_changed"
  BY ChangesOfSource
<1>3. \A ch \in N : ch.source = "nvd" /\ ch.kind # "query_changed"
  BY ChangesOfSource
<1>4. ASSUME NEW a \in Advisory
      PROVE  (\E ch \in O : ch.source = "osv" /\ ch.id = a) <=> r.osv[a] # old.osv[a]
  <2>1. DOMAIN r.osv = Advisory
    BY DEF Report
  <2>2. QED
    BY <2>1, ChangesOfMember
<1>5. ASSUME NEW c \in Cve
      PROVE  (\E ch \in N : ch.source = "nvd" /\ ch.id = c)
               <=> NvdHistory(r)[c] # NvdHistory(old)[c]
  <2>1. DOMAIN r.nvd = Cve /\ NvdAbsences(r) \subseteq Cve
    BY DEF Report, NvdAbsences
  <2>2. (\E ch \in N : ch.source = "nvd" /\ ch.id = c)
           <=> r.nvd[c] # NvdHistory(old)[c] /\ (r.nvd[c] = None => c \in NvdAbsences(r))
    BY <2>1, ChangesOfMember
  <2>3. NvdHistory(r)[c] = IF r.nvd[c] # None THEN r.nvd[c] ELSE r.retained[c]
    BY DEF NvdHistory
  <2>4. r.retained[c] = IF r.nvd[c] # None \/ c \in NvdAbsences(r) THEN None
                        ELSE IF NvdHistory(old)[c] # None THEN NvdHistory(old)[c]
                        ELSE r.retained[c]
    BY RetainFields
  <2>5. r.retained[c] # None => r.retained[c] = NvdHistory(old)[c]
    BY DEF CarriedOnly
  <2>6. QED
    BY <2>2, <2>3, <2>4, <2>5
<1>6. /\ \A ch \in Q : ch.source = "query"
      /\ QueryResult(old) # QueryResult(r) <=> \E ch \in Q : ch.kind = "query_changed"
  <2>1. CASE QueryResult(old) = QueryResult(r)
    BY <2>1 DEF QueryChanges
  <2>2. CASE QueryResult(old) # QueryResult(r)
    <3>1. Q = {Change("query_changed", "query", None)}
      BY <2>2 DEF QueryChanges
    <3>2. QED
      BY <2>2, <3>1 DEF Change
  <2>3. QED
    BY <2>1, <2>2
<1> HIDE DEF O, N, Q
<1>7. ASSUME NEW a \in Advisory
      PROVE  old.osv[a] # r.osv[a] <=>
               \E ch \in Changes(old, r) : ch.source = "osv" /\ ch.id = a
  BY <1>1, <1>2, <1>3, <1>4, <1>6
<1>8. ASSUME NEW c \in Cve
      PROVE  NvdHistory(old)[c] # NvdHistory(r)[c] <=>
               \E ch \in Changes(old, r) : ch.source = "nvd" /\ ch.id = c
  BY <1>1, <1>2, <1>3, <1>5, <1>6
<1>9. QueryResult(old) # QueryResult(r) <=>
        \E ch \in Changes(old, r) : ch.kind = "query_changed"
  BY <1>1, <1>2, <1>3, <1>6
<1>10. QED
  BY <1>7, <1>8, <1>9

(* The baseline advances only over what was printed: a save changes        *)
(* exactly the records, and the query result, whose change the run's own   *)
(* output reported (main.go:206-231).                                      *)
THEOREM AdvancesOverPrinted == Spec => AdvanceIsPrinted
<1> DEFINE Advance ==
      file # None /\ file' # file =>
       /\ \A source \in {"osv", "nvd"} :
            LET older == Evidence(file)[source]
                newer == Evidence(file')[source]
            IN  \A i \in DOMAIN older :
                  older[i] # newer[i] <=> \E ch \in printed : ch.source = source /\ ch.id = i
       /\ QueryResult(file) # QueryResult(file') <=>
            \E ch \in printed : ch.kind = "query_changed"
<1>1. ASSUME IInv, [Next]_vars PROVE [Advance]_vars
  <2>1. CASE file' = file
    BY <2>1
  <2>2. CASE file' # file /\ file # None
    <3>1. /\ file' = report /\ report \in Report /\ report.refreshed
          /\ RetainEvidence(file, report) = report /\ CarriedOnly(file, report)
          /\ printed = Changes(file, report) /\ file \in Report
      BY <1>1, <2>2, OnlySaveWrites, SaveWritesReport DEF IInv, BaselineSound
    <3>2. /\ Evidence(file)["osv"] = file.osv /\ Evidence(file')["osv"] = report.osv
          /\ Evidence(file)["nvd"] = NvdHistory(file)
          /\ Evidence(file')["nvd"] = NvdHistory(report)
      BY <3>1 DEF Evidence
    <3>3. DOMAIN file.osv = Advisory /\ DOMAIN NvdHistory(file) = Cve
      BY <3>1 DEF Report, NvdHistory
    <3>4. /\ \A a \in Advisory : file.osv[a] # report.osv[a] <=>
               \E ch \in printed : ch.source = "osv" /\ ch.id = a
          /\ \A c \in Cve : NvdHistory(file)[c] # NvdHistory(report)[c] <=>
               \E ch \in printed : ch.source = "nvd" /\ ch.id = c
          /\ QueryResult(file) # QueryResult(file') <=>
               \E ch \in printed : ch.kind = "query_changed"
      BY <3>1, ChangesAreTheDifference
    <3>5. QED
      BY <3>2, <3>3, <3>4
  <2>3. QED
    BY <2>1, <2>2
<1>2. QED
  BY Inductive, <1>1, PTL DEF Spec, AdvanceIsPrinted
=============================================================================

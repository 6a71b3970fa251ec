-------------------------- MODULE ScanAnalyzeProofs --------------------------
(***************************************************************************)
(* The safety of ScanAnalyze for any number of candidates, limit and set   *)
(* of unprepared candidates: reports are well-formed and resumable, the    *)
(* model is asked for missing outputs only, saved outputs are kept, and    *)
(* what a run returns is what it did.                                      *)
(*                                                                         *)
(* A saved output is kept because the run and the file never disagree on   *)
(* an output (OnFile): each answer is saved before anything else happens,  *)
(* or the run is over.  That success is saved needs that what the loop has *)
(* passed is settled (Loop), and that an unprepared candidate, which the   *)
(* loop skips, was counted as a failure before it began (SkippedKnown).    *)
(***************************************************************************)
EXTENDS ScanAnalyze, TLAPS, FiniteSetTheorems, WellFoundedInduction

(* The entries pass a resume's validation after every step.                *)
Sound == \A c \in Candidate : ValidEntry(entries[c], c)

(* The counters are right wherever a run rests.                            *)
Counted == pc \in {"down", "begun", "looping", "returned"} => counts = Recount(entries)

Working ==
  /\ pc = "begun" => cur = 1
  /\ pc \in {"processing", "asking"} => entries[cur].status = "pending"
  /\ pc = "asking" => NextStage(entries[cur]) # "feed"

FileSound == file # NoReport => ValidReport(file)

(* What the file knows of the entries of a run.                            *)
OnFile ==
  /\ pc = "begun" /\ file # NoReport => file.entries = entries
  /\ pc = "looping" => file = Returned
  /\ pc \in {"processing", "asking"} =>
       /\ file # NoReport
       /\ \A c \in Candidate : c # cur => file.entries[c] = entries[c]
       /\ file.entries[cur].screening = entries[cur].screening
       /\ file.entries[cur].analysis = entries[cur].analysis
       /\ file.entries[cur].status \notin Finished

SkippedKnown ==
  pc \notin {"down", "begun"} =>
    \A c \in Candidate : entries[c].status = "preparation_error" => failures

(* A candidate has its outcome, and the run knows if that is a failure.    *)
Settled(c) == /\ entries[c].status # "pending"
              /\ entries[c].status \in Failed => failures

Loop ==
  pc \in {"looping", "processing", "asking"} =>
    \A c \in Candidate : c < cur => Settled(c)

Ended ==
  pc = "returned" /\ ~canceled /\ ~broken =>
    file = Returned /\ \A c \in Candidate : Settled(c)

IInv ==
  /\ TypeOK
  /\ Sound
  /\ Counted
  /\ Working
  /\ FileSound
  /\ OnFile
  /\ SkippedKnown
  /\ Loop
  /\ Ended
-----------------------------------------------------------------------------
(* Lemmas about the helpers of run.go.                                     *)

(* The counters are numbers and flags.                                     *)
LEMMA RecountType ==
  ASSUME NEW es \in [Candidate -> Entry]
  PROVE  Recount(es) \in Counts
<1>1. IsFiniteSet(Candidate)
  BY FS_Interval, ScanAnalyzeAssumption DEF Candidate
<1>2. ASSUME NEW S \in SUBSET Candidate PROVE Cardinality(S) \in Nat
  BY <1>1, FS_Subset, FS_CardinalityType
<1> DEFINE with(S) == Cardinality({c \in Candidate : es[c].status \in S})
<1>3. \A S : with(S) \in Nat
  BY <1>2
<1>4. /\ Cardinality({c \in Candidate : es[c].screening # "none"}) \in Nat
      /\ Cardinality({c \in Candidate : es[c].analysis}) \in Nat
  BY <1>2
<1>5. (with({"not_selected"}) = 0) \in BOOLEAN /\ (with(Failed \cup {"pending"}) = 0) \in BOOLEAN
  OBVIOUS
<1> QED
  BY <1>3, <1>4, <1>5 DEF Recount, Counts

(* Without a pending entry the count of pending entries is 0, and without  *)
(* a failed one as well the report is complete.                            *)
LEMMA RecountDone ==
  ASSUME NEW es, \A c \in Candidate : es[c].status # "pending"
  PROVE  /\ Recount(es).pending = 0
         /\ (\A c \in Candidate : es[c].status \notin Failed) => Recount(es).selectedComplete
<1>1. {c \in Candidate : es[c].status \in {"pending"}} = {}
  OBVIOUS
<1>2. ASSUME \A c \in Candidate : es[c].status \notin Failed
      PROVE  {c \in Candidate : es[c].status \in Failed \cup {"pending"}} = {}
  BY <1>2
<1> QED
  BY <1>1, <1>2, FS_EmptySet DEF Recount

LEMMA NextStageType ==
  ASSUME NEW e
  PROVE  NextStage(e) \in {"screening", "analysis", "feed"}
BY DEF NextStage

(* A fresh entry is valid.                                                 *)
LEMMA FreshValid ==
  ASSUME NEW c \in Candidate
  PROVE  Fresh(c) \in Entry /\ ValidEntry(Fresh(c), c)
BY DEF Fresh, Entry, Status, Stage, Relevance, Failed, ValidEntry, NextStage

(* A valid entry the loop does not skip is one a fresh run would start     *)
(* with as pending.                                                        *)
LEMMA NotSkipped ==
  ASSUME NEW c \in Candidate, NEW e, ValidEntry(e, c),
         e.status \notin {"not_selected", "preparation_error"}
  PROVE  Fresh(c).status = "pending"
BY DEF ValidEntry, Fresh

(* The entry of a candidate that is taken up (again).                      *)
LEMMA TakenUp ==
  ASSUME NEW c \in Candidate, NEW e \in Entry, ValidEntry(e, c), Fresh(c).status = "pending",
         NEW f, f = [e EXCEPT !.status = "pending", !.stage = NextStage(e)]
  PROVE  /\ f \in Entry /\ ValidEntry(f, c) /\ f.status = "pending"
         /\ f.screening = e.screening /\ f.analysis = e.analysis
         /\ NextStage(f) = NextStage(e) /\ f.stage = NextStage(e)
<1>1. /\ f.status = "pending" /\ f.stage = NextStage(e)
      /\ f.screening = e.screening /\ f.analysis = e.analysis
  BY DEF Entry
<1>2. NextStage(f) = NextStage(e)
  BY <1>1 DEF NextStage
<1>3. f \in Entry
  BY NextStageType DEF Entry, Status, Stage
<1>4. ValidEntry(f, c)
  BY <1>1, <1>2 DEF ValidEntry
<1> QED
  BY <1>1, <1>2, <1>3, <1>4

(* A pending valid entry waits for its next stage.                         *)
LEMMA PendingEntry ==
  ASSUME NEW c \in Candidate, NEW e, ValidEntry(e, c), e.status = "pending"
  PROVE  Fresh(c).status = "pending" /\ e.stage = NextStage(e) /\ (e.analysis => e.screening = "related")
BY NextStageType DEF ValidEntry, Fresh, Failed, ErrorAt

(* An answer adds the output that was missing and nothing else.            *)
LEMMA Answered ==
  ASSUME NEW c \in Candidate, NEW e \in Entry, ValidEntry(e, c), e.status = "pending",
         NextStage(e) # "feed", NEW relevance \in Relevance
  PROVE  LET f == WithOutput(e, relevance)
         IN  /\ f \in Entry /\ ValidEntry(f, c) /\ f.status = "pending"
             /\ e.screening # "none" => f.screening = e.screening
             /\ e.analysis => f.analysis
<1> DEFINE a == IF e.stage = "screening" THEN [e EXCEPT !.screening = relevance]
                ELSE [e EXCEPT !.analysis = TRUE]
           f == WithOutput(e, relevance)
<1>1. Fresh(c).status = "pending" /\ e.stage = NextStage(e) /\ (e.analysis => e.screening = "related")
  BY PendingEntry
<1>2. /\ a \in Entry /\ a.status = "pending"
      /\ e.screening # "none" => a.screening = e.screening
      /\ e.analysis => a.analysis
      /\ a.analysis => a.screening = "related"
  <2>1. CASE e.stage = "screening"
    BY <1>1, <2>1 DEF Entry, NextStage, Relevance
  <2>2. CASE e.stage # "screening"
    BY <1>1, <2>2 DEF Entry, NextStage, Relevance
  <2> QED
    BY <2>1, <2>2
<1> HIDE DEF a
<1>3. f = [a EXCEPT !.stage = NextStage(a)]
  BY DEF WithOutput, a
<1>4. /\ f.status = "pending" /\ f.stage = NextStage(a) /\ f.screening = a.screening /\ f.analysis = a.analysis
      /\ f \in Entry
  BY <1>2, <1>3, NextStageType DEF Entry, Stage
<1> HIDE DEF f
<1>5. NextStage(f) = NextStage(a)
  BY <1>4 DEF NextStage
<1>6. ValidEntry(f, c)
  BY <1>1, <1>2, <1>4, <1>5 DEF ValidEntry
<1> QED
  BY <1>2, <1>4, <1>6 DEF f

(* A stage that failed.                                                    *)
LEMMA FailedAt ==
  ASSUME NEW c \in Candidate, NEW e \in Entry, ValidEntry(e, c), e.status = "pending",
         NextStage(e) = "feed" => e.screening # "unrelated",
         NEW f, f = [e EXCEPT !.status = ErrorAt(e.stage)]
  PROVE  /\ f \in Entry /\ ValidEntry(f, c) /\ f.status \in Failed
         /\ f.screening = e.screening /\ f.analysis = e.analysis
<1>1. Fresh(c).status = "pending" /\ e.stage = NextStage(e) /\ (e.analysis => e.screening = "related")
  BY PendingEntry
<1>2. /\ f.status = ErrorAt(e.stage) /\ f.stage = e.stage
      /\ f.screening = e.screening /\ f.analysis = e.analysis
  BY DEF Entry
<1>3. NextStage(f) = NextStage(e)
  BY <1>2 DEF NextStage
<1>4. ErrorAt(e.stage) \in Failed
  BY <1>1, NextStageType DEF Failed, ErrorAt
<1>5. f \in Entry /\ f.status \in Failed
  BY <1>2, <1>4 DEF Entry, Status
<1>6. ValidEntry(f, c)
  BY <1>1, <1>2, <1>3 DEF ValidEntry
<1> QED
  BY <1>2, <1>5, <1>6

(* A candidate with all the outputs it needs.                              *)
LEMMA Completed ==
  ASSUME NEW c \in Candidate, NEW e \in Entry, ValidEntry(e, c), e.status = "pending",
         NextStage(e) = "feed", NEW f, f = [e EXCEPT !.stage = "complete", !.status = OutcomeOf(e)]
  PROVE  /\ f \in Entry /\ ValidEntry(f, c) /\ f.status \in Finished
         /\ f.screening = e.screening /\ f.analysis = e.analysis
<1>1. Fresh(c).status = "pending" /\ (e.analysis => e.screening = "related")
  BY PendingEntry
<1>2. /\ f.status = OutcomeOf(e) /\ f.stage = "complete"
      /\ f.screening = e.screening /\ f.analysis = e.analysis
  BY DEF Entry
<1>3. /\ e.screening \in Relevance
      /\ e.screening = "related" => e.analysis
  BY DEF NextStage, Entry
<1>4. /\ OutcomeOf(e) \in Finished
      /\ e.screening = "related" => OutcomeOf(e) = "analyzed"
      /\ e.screening = "unsure" => OutcomeOf(e) = "screening_only"
      /\ e.screening = "unrelated" => OutcomeOf(e) = "excluded"
  BY <1>3 DEF OutcomeOf, Relevance, Finished
<1>5. f \in Entry
  BY <1>4 DEF Entry, Status, Stage
<1>6. ValidEntry(f, c)
  BY <1>1, <1>2, <1>3, <1>4 DEF ValidEntry, Relevance
<1> QED
  BY <1>2, <1>4, <1>5, <1>6

(* The next candidate to visit exists and nothing before it needs a visit. *)
LEMMA NextTodo ==
  ASSUME TypeOK, Todo # {}
  PROVE  Min(Todo) \in Todo /\ \A c \in Todo : Min(Todo) <= c
<1>1. Todo \subseteq Nat
  BY ScanAnalyzeAssumption DEF Todo, TypeOK
<1>2. PICK m \in Todo : \A c \in Todo : ~(<<c, m>> \in OpToRel(<, Nat))
  BY <1>1, NatLessThanWellFounded, WFMin
<1>3. \A c \in Todo : ~(c < m)
  BY <1>1, <1>2 DEF OpToRel
<1>4. \A c \in Todo : m <= c
  BY <1>1, <1>3
<1> QED
  BY <1>4 DEF Min

-----------------------------------------------------------------------------
(* The facts every step uses: options do not change, so that validity is   *)
(* the same before and after it.                                           *)
LEMMA ValidNext ==
  ASSUME UNCHANGED optionVars
  PROVE  /\ (\A c \in Candidate : ValidEntry(entries'[c], c)) => Sound'
         /\ (file' # NoReport => ValidReport(file')) => FileSound'
<1>1. ASSUME NEW c \in Candidate PROVE Fresh(c)' = Fresh(c)
  BY DEF Fresh, optionVars
<1>2. ASSUME NEW c \in Candidate
      PROVE  ValidEntry(entries[c], c)' <=> ValidEntry(entries'[c], c)
  BY <1>1 DEF ValidEntry
<1>3. ASSUME NEW c \in Candidate
      PROVE  ValidEntry(file.entries[c], c)' <=> ValidEntry(file'.entries[c], c)
  BY <1>1 DEF ValidEntry
<1> QED
  BY <1>2, <1>3 DEF Sound, FileSound, ValidReport

(* A step that leaves the file and the options alone leaves it valid.      *)
LEMMA FileStays ==
  ASSUME IInv, UNCHANGED <<optionVars, file>>
  PROVE  FileSound' /\ (file' # NoReport => file' \in Report)
BY ValidNext DEF IInv, FileSound, TypeOK

(* A checkpoint of valid entries saves them, or it ends the run.           *)
LEMMA CheckpointSaves ==
  ASSUME IInv, UNCHANGED optionVars, NEW at, NEW es \in [Candidate -> Entry],
         \A c \in Candidate : ValidEntry(es[c], c), Checkpoint(es, at)
  PROVE  /\ entries' = es /\ counts' = Recount(es) /\ counts' \in Counts
         /\ broken' \in BOOLEAN /\ (file' # NoReport => file' \in Report)
         /\ Sound' /\ Counted' /\ FileSound'
         /\ \/ pc' = at /\ file' = Returned' /\ file' # NoReport
            \/ pc' = "returned" /\ broken' /\ file' = file
<1>1. entries' = es /\ counts' = Recount(es) /\ counts' \in Counts
  BY RecountType DEF Checkpoint
<1>2. Sound'
  BY <1>1, ValidNext
<1>3. Counted'
  BY <1>1 DEF Counted
<1>4. CASE /\ file' = [entries |-> es, counts |-> Recount(es)]
           /\ pc' = at
           /\ UNCHANGED broken
  <2>1. file' \in Report /\ file' # NoReport
    BY <1>1, <1>4, NoReportAssumption DEF Report
  <2>2. ValidReport(file')
    BY <1>4 DEF ValidReport
  <2>3. file' = Returned' /\ broken' \in BOOLEAN
    BY <1>1, <1>4 DEF Returned, IInv, TypeOK
  <2> QED
    BY <1>1, <1>2, <1>3, <1>4, <2>1, <2>2, <2>3, ValidNext
<1>5. CASE /\ pc' = "returned"
           /\ broken' = TRUE
           /\ UNCHANGED file
  BY <1>1, <1>2, <1>3, <1>5, FileStays
<1> QED
  BY <1>4, <1>5 DEF Checkpoint

(* The fresh entries are valid.                                            *)
LEMMA AllFresh ==
  ASSUME NEW es, es = [c \in Candidate |-> Fresh(c)]
  PROVE  /\ es \in [Candidate -> Entry] /\ Recount(es) \in Counts
         /\ \A c \in Candidate : ValidEntry(es[c], c)
BY FreshValid, RecountType

(* A pending entry already stands at its next stage.                       *)
LEMMA StageStands ==
  ASSUME IInv, pc \in {"processing", "asking"}
  PROVE  /\ cur \in Candidate /\ entries[cur] \in Entry /\ entries[cur].status = "pending"
         /\ ValidEntry(entries[cur], cur)
         /\ entries[cur].stage = NextStage(entries[cur])
         /\ [entries EXCEPT ![cur].stage = NextStage(entries[cur])] = entries
<1>1. /\ cur \in Candidate /\ entries[cur] \in Entry /\ entries[cur].status = "pending"
      /\ ValidEntry(entries[cur], cur) /\ entries \in [Candidate -> Entry]
  BY DEF IInv, TypeOK, Working, Sound
<1>2. entries[cur].stage = NextStage(entries[cur])
  BY <1>1, PendingEntry
<1>3. [entries[cur] EXCEPT !.stage = entries[cur].stage] = entries[cur]
  BY <1>1 DEF Entry
<1>4. [entries EXCEPT ![cur] = entries[cur]] = entries
  BY <1>1
<1> QED
  BY <1>1, <1>2, <1>3, <1>4

(* A candidate the loop does not stop at has its outcome.                  *)
LEMMA NotTodoSettled ==
  ASSUME IInv, pc = "looping", NEW c \in Candidate, c \notin Todo
  PROVE  Settled(c)
<1>1. CASE c < cur
  BY <1>1 DEF IInv, Loop
<1>2. CASE ~(c < cur)
  <2>1. c \in cur .. N
    BY <1>2, ScanAnalyzeAssumption DEF IInv, TypeOK, Candidate
  <2>2. entries[c].status \in Finished \cup {"not_selected", "preparation_error"}
    BY <2>1 DEF Todo
  <2> QED
    BY <2>2 DEF Settled, IInv, SkippedKnown, Finished, Failed
<1> QED
  BY <1>1, <1>2

-----------------------------------------------------------------------------
(* The initial states, and one lemma per action.                           *)
LEMMA InitEstablishes == Init => IInv
<1> SUFFICES ASSUME Init PROVE IInv
  OBVIOUS
<1>1. /\ entries \in [Candidate -> Entry] /\ Recount(entries) \in Counts
      /\ \A c \in Candidate : ValidEntry(entries[c], c)
  BY AllFresh DEF Init
<1>2. TypeOK /\ Sound
  <2>1. cur \in 1 .. N + 1
    BY ScanAnalyzeAssumption DEF Init
  <2>2. counts \in Counts
    BY <1>1 DEF Init
  <2>3. /\ limit \in 0 .. N /\ unprepared \in SUBSET Candidate /\ file = NoReport /\ pc = "down"
        /\ failures \in BOOLEAN /\ canceled \in BOOLEAN /\ broken \in BOOLEAN
    BY DEF Init
  <2> QED
    BY <1>1, <2>1, <2>2, <2>3 DEF TypeOK, Sound
<1> QED
  BY <1>1, <1>2 DEF Init, IInv, Counted, Working, FileSound, OnFile, SkippedKnown, Loop, Ended

LEMMA BeginKeeps ==
  ASSUME IInv, Begin
  PROVE  IInv'
<1>1. /\ entries' \in [Candidate -> Entry] /\ \A c \in Candidate : ValidEntry(entries'[c], c)
      /\ file # NoReport => file.entries = entries'
  <2>1. CASE file = NoReport
    BY <2>1, AllFresh DEF Begin
  <2>2. CASE file # NoReport
    BY <2>2 DEF Begin, ValidReport, Report, IInv, TypeOK
  <2> QED
    BY <2>1, <2>2
<1>2. TypeOK'
  <2>1. counts' \in Counts
    BY <1>1, RecountType DEF Begin
  <2>2. file' # NoReport => file' \in Report
    BY FileStays DEF Begin
  <2>3. cur' \in 1 .. N + 1
    BY ScanAnalyzeAssumption DEF Begin
  <2>4. /\ limit' \in 0 .. N /\ unprepared' \in SUBSET Candidate /\ pc' = "begun"
        /\ failures' \in BOOLEAN /\ canceled' \in BOOLEAN /\ broken' \in BOOLEAN
    BY DEF Begin, TypeOK, IInv, optionVars
  <2> QED
    BY <1>1, <2>1, <2>2, <2>3, <2>4 DEF TypeOK
<1>3. Sound' /\ FileSound'
  BY <1>1, ValidNext, FileStays DEF Begin
<1> QED
  BY <1>1, <1>2, <1>3 DEF Begin, IInv, Counted, Working, OnFile, SkippedKnown, Loop, Ended

LEMMA FirstCheckpointKeeps ==
  ASSUME IInv, FirstCheckpoint
  PROVE  IInv'
<1>1. entries \in [Candidate -> Entry] /\ \A c \in Candidate : ValidEntry(entries[c], c)
  BY DEF IInv, TypeOK, Sound
<1>2. /\ entries' = entries /\ counts' = Recount(entries) /\ counts' \in Counts
      /\ broken' \in BOOLEAN /\ (file' # NoReport => file' \in Report)
      /\ Sound' /\ Counted' /\ FileSound'
      /\ \/ pc' = "looping" /\ file' = Returned' /\ file' # NoReport
         \/ pc' = "returned" /\ broken' /\ file' = file
  BY <1>1, CheckpointSaves DEF FirstCheckpoint
<1>3. TypeOK'
  BY <1>2 DEF FirstCheckpoint, IInv, TypeOK, optionVars
<1>4. SkippedKnown'
  BY <1>2 DEF FirstCheckpoint, SkippedKnown
<1>5. cur' = 1
  BY DEF FirstCheckpoint, IInv, Working
<1>6. Loop'
  BY <1>5 DEF Loop, Candidate
<1> QED
  BY <1>2, <1>3, <1>4, <1>6 DEF IInv, Working, OnFile, Ended

LEMMA VisitKeeps ==
  ASSUME IInv, Visit
  PROVE  IInv'
<1> DEFINE e == entries[cur']
           f == [e EXCEPT !.status = "pending", !.stage = NextStage(e)]
<1>1. cur' \in Todo /\ \A c \in Todo : cur' <= c
  BY NextTodo DEF Visit, IInv
<1>2. /\ cur' \in Candidate /\ e \in Entry /\ ValidEntry(e, cur')
      /\ e.status \notin Finished \cup {"not_selected", "preparation_error"}
      /\ entries \in [Candidate -> Entry]
  BY <1>1, ScanAnalyzeAssumption DEF Todo, IInv, TypeOK, Sound, Candidate
<1>3. Fresh(cur').status = "pending"
  BY <1>2, NotSkipped
<1>4. /\ f \in Entry /\ ValidEntry(f, cur') /\ f.status = "pending"
      /\ f.screening = e.screening /\ f.analysis = e.analysis
      /\ NextStage(f) = NextStage(e) /\ f.stage = NextStage(e)
  <2>1. f = [e EXCEPT !.status = "pending", !.stage = NextStage(e)]
    OBVIOUS
  <2> HIDE DEF e, f
  <2> QED
    BY <1>2, <1>3, <2>1, TakenUp
<1>5. entries' = [entries EXCEPT ![cur'] = f]
  BY <1>2 DEF Visit
<1> HIDE DEF f
<1>6. /\ entries' \in [Candidate -> Entry] /\ entries'[cur'] = f
      /\ \A c \in Candidate : c # cur' => entries'[c] = entries[c]
  BY <1>2, <1>4, <1>5
<1>7. TypeOK'
  BY <1>2, <1>6, FileStays, ScanAnalyzeAssumption DEF Visit, TypeOK, IInv, optionVars, Candidate
<1>8. Sound' /\ FileSound'
  BY <1>4, <1>6, ValidNext, FileStays DEF Visit, IInv, Sound
<1>9. file = Returned /\ file # NoReport /\ pc' = "processing" /\ file' = file
  BY NoReportAssumption DEF Visit, IInv, OnFile, Returned, Report, TypeOK
<1>10. OnFile'
  BY <1>2, <1>4, <1>6, <1>9 DEF OnFile, Returned
<1>11. SkippedKnown'
  BY <1>4, <1>6 DEF Visit, IInv, SkippedKnown
<1>12. Loop'
  <2> SUFFICES ASSUME NEW c \in Candidate, c < cur' PROVE Settled(c)'
    BY DEF Loop
  <2>1. c \notin Todo /\ c # cur'
    BY <1>1, <1>2, ScanAnalyzeAssumption DEF Candidate
  <2>2. Settled(c)
    BY <2>1, NotTodoSettled DEF Visit
  <2> QED
    BY <1>6, <2>1, <2>2 DEF Settled, Visit
<1> QED
  BY <1>4, <1>6, <1>7, <1>8, <1>9, <1>10, <1>11, <1>12 DEF IInv, Counted, Working, Ended

LEMMA AskKeeps ==
  ASSUME IInv, Ask
  PROVE  IInv'
<1>1. entries' = entries
  BY StageStands DEF Ask
<1>2. TypeOK' /\ Sound' /\ FileSound'
  BY <1>1, FileStays, ValidNext DEF Ask, IInv, TypeOK, Sound, optionVars
<1>3. pc = "processing" /\ pc' = "asking" /\ UNCHANGED <<file, cur, failures, counts>> /\ NextStage(entries[cur]) # "feed"
  BY DEF Ask
<1>4. Working' /\ OnFile'
  BY <1>1, <1>3 DEF IInv, Working, OnFile
<1> QED
  BY <1>1, <1>2, <1>3, <1>4 DEF IInv, Counted, SkippedKnown, Loop, Settled, Ended

LEMMA AskCanceledKeeps ==
  ASSUME IInv, AskCanceled
  PROVE  IInv'
<1>1. entries' = entries
  BY StageStands DEF AskCanceled
<1>2. TypeOK' /\ Sound' /\ FileSound'
  BY <1>1, FileStays, ValidNext, RecountType DEF AskCanceled, IInv, TypeOK, Sound, optionVars
<1> QED
  BY <1>1, <1>2 DEF AskCanceled, IInv, Counted, Working, OnFile, SkippedKnown, Loop, Ended

(* A checkpoint that replaces the entry of the current candidate by f.     *)
LEMMA ReplaceCurrent ==
  ASSUME IInv, pc \in {"processing", "asking"}, UNCHANGED optionVars, NEW at,
         NEW f \in Entry, ValidEntry(f, cur), Checkpoint([entries EXCEPT ![cur] = f], at)
  PROVE  /\ entries' \in [Candidate -> Entry] /\ entries'[cur] = f
         /\ \A c \in Candidate : c # cur => entries'[c] = entries[c]
         /\ counts' \in Counts /\ broken' \in BOOLEAN /\ (file' # NoReport => file' \in Report)
         /\ Sound' /\ Counted' /\ FileSound'
         /\ \/ pc' = at /\ file' = Returned' /\ file' # NoReport
            \/ pc' = "returned" /\ broken' /\ file' = file
<1> DEFINE es == [entries EXCEPT ![cur] = f]
<1>1. /\ es \in [Candidate -> Entry] /\ es[cur] = f
      /\ \A c \in Candidate : c # cur => es[c] = entries[c]
  BY StageStands DEF IInv, TypeOK
<1>2. \A c \in Candidate : ValidEntry(es[c], c)
  BY <1>1 DEF IInv, Sound
<1> HIDE DEF es
<1>3. Checkpoint(es, at)
  BY DEF es
<1> QED
  BY <1>1, <1>2, <1>3, CheckpointSaves

LEMMA AnswerKeeps ==
  ASSUME IInv, Answer
  PROVE  IInv'
<1> DEFINE e == entries[cur]
<1>1. PICK relevance \in Relevance :
        Checkpoint([entries EXCEPT ![cur] = WithOutput(e, relevance)], "processing")
  BY DEF Answer
<1> DEFINE f == WithOutput(e, relevance)
<1>2. cur \in Candidate /\ f \in Entry /\ ValidEntry(f, cur) /\ f.status = "pending"
  BY StageStands, Answered DEF Answer, IInv, Working
<1> HIDE DEF f
<1>3. /\ entries' \in [Candidate -> Entry] /\ entries'[cur] = f
      /\ \A c \in Candidate : c # cur => entries'[c] = entries[c]
      /\ counts' \in Counts /\ broken' \in BOOLEAN /\ (file' # NoReport => file' \in Report)
      /\ Sound' /\ Counted' /\ FileSound'
      /\ \/ pc' = "processing" /\ file' = Returned' /\ file' # NoReport
         \/ pc' = "returned" /\ broken' /\ file' = file
  BY <1>1, <1>2, ReplaceCurrent DEF Answer, f
<1>4. TypeOK' /\ cur' = cur /\ failures' = failures
  BY <1>2, <1>3 DEF Answer, IInv, TypeOK, optionVars
<1>5. Working' /\ OnFile'
  BY <1>2, <1>3, <1>4 DEF Working, OnFile, Returned, Finished
<1>6. SkippedKnown'
  BY <1>2, <1>3, <1>4 DEF Answer, IInv, SkippedKnown
<1>7. Loop'
  <2> SUFFICES ASSUME NEW c \in Candidate, c < cur PROVE Settled(c)'
    BY <1>4 DEF Loop
  <2>1. c # cur /\ Settled(c)
    BY ScanAnalyzeAssumption, <1>2 DEF Answer, IInv, Loop, Candidate
  <2> QED
    BY <1>3, <1>4, <2>1 DEF Settled
<1> QED
  BY <1>3, <1>4, <1>5, <1>6, <1>7 DEF IInv, Ended

(* A step past the current candidate, which it leaves settled.             *)
LEMMA PassedKeeps ==
  ASSUME IInv, pc \in {"processing", "asking"}, UNCHANGED <<optionVars, canceled>>,
         NEW f \in Entry, ValidEntry(f, cur), f.status \in Finished \cup Failed,
         f.status \in Failed => failures', failures => failures', failures' \in BOOLEAN,
         Checkpoint([entries EXCEPT ![cur] = f], "looping"), cur' = cur + 1
  PROVE  IInv'
<1>1. cur \in Candidate
  BY StageStands
<1>2. /\ entries' \in [Candidate -> Entry] /\ entries'[cur] = f
      /\ \A c \in Candidate : c # cur => entries'[c] = entries[c]
      /\ counts' \in Counts /\ broken' \in BOOLEAN /\ (file' # NoReport => file' \in Report)
      /\ Sound' /\ Counted' /\ FileSound'
      /\ \/ pc' = "looping" /\ file' = Returned' /\ file' # NoReport
         \/ pc' = "returned" /\ broken' /\ file' = file
  BY ReplaceCurrent
<1>3. cur' \in 1 .. N + 1
  BY <1>1, ScanAnalyzeAssumption DEF Candidate
<1>4. TypeOK'
  BY <1>2, <1>3 DEF IInv, TypeOK, optionVars
<1>5. SkippedKnown'
  BY <1>1, <1>2 DEF IInv, SkippedKnown, Failed, Finished
<1>6. Loop'
  <2> SUFFICES ASSUME NEW c \in Candidate, c < cur + 1 PROVE Settled(c)'
    BY DEF Loop
  <2>1. CASE c = cur
    BY <1>2, <2>1 DEF Settled, Finished, Failed
  <2>2. CASE c # cur
    <3>1. c < cur
      BY <1>1, <2>2, ScanAnalyzeAssumption DEF Candidate
    <3> QED
      BY <1>2, <2>2, <3>1 DEF Settled, IInv, Loop
  <2> QED
    BY <2>1, <2>2
<1> QED
  BY <1>2, <1>4, <1>5, <1>6 DEF IInv, Working, OnFile, Ended

LEMMA FailureKeeps ==
  ASSUME IInv, AnswerFails \/ FeedFails
  PROVE  IInv'
<1> DEFINE e == entries[cur]
           f == [e EXCEPT !.status = ErrorAt(e.stage)]
<1>1. cur \in Candidate /\ f \in Entry /\ ValidEntry(f, cur) /\ f.status \in Failed
  BY StageStands, FailedAt DEF AnswerFails, FeedFails, IInv, Working
<1>2. Checkpoint([entries EXCEPT ![cur] = f], "looping")
  BY DEF AnswerFails, FeedFails
<1> HIDE DEF f
<1> QED
  BY <1>1, <1>2, PassedKeeps DEF AnswerFails, FeedFails

LEMMA CompleteKeeps ==
  ASSUME IInv, Complete
  PROVE  IInv'
<1> DEFINE e == entries[cur]
           f == [e EXCEPT !.stage = "complete", !.status = OutcomeOf(e)]
<1>1. cur \in Candidate /\ f \in Entry /\ ValidEntry(f, cur) /\ f.status \in Finished
  BY StageStands, Completed DEF Complete
<1>2. Checkpoint([entries EXCEPT ![cur] = f], "looping")
  BY StageStands DEF Complete, IInv, TypeOK
<1> HIDE DEF f
<1>3. f.status \notin Failed /\ failures' = failures /\ failures \in BOOLEAN
  BY <1>1 DEF Complete, IInv, TypeOK, Failed, Finished
<1> QED
  BY <1>1, <1>2, <1>3, PassedKeeps DEF Complete

LEMMA ReturnKeeps ==
  ASSUME IInv, Return
  PROVE  IInv'
<1>1. pc = "looping" /\ pc' = "returned" /\ (~canceled => Todo = {})
  BY DEF Return
<1>2. TypeOK' /\ Sound' /\ FileSound' /\ Returned' = Returned
  BY FileStays, ValidNext DEF Return, IInv, TypeOK, Sound, optionVars, Returned
<1>3. Ended'
  <2> SUFFICES ASSUME ~canceled PROVE file' = Returned' /\ \A c \in Candidate : Settled(c)'
    BY DEF Ended, Return
  <2>1. file' = Returned'
    BY <1>1, <1>2 DEF Return, IInv, OnFile
  <2>2. \A c \in Candidate : Settled(c)
    BY <1>1, NotTodoSettled
  <2> QED
    BY <2>1, <2>2 DEF Settled, Return
<1> QED
  BY <1>1, <1>2, <1>3 DEF Return, IInv, Counted, Working, OnFile, SkippedKnown, Loop

LEMMA CancelKeeps ==
  ASSUME IInv, Cancel
  PROVE  IInv'
<1>1. TypeOK' /\ Sound' /\ FileSound' /\ Returned' = Returned
  BY FileStays, ValidNext DEF Cancel, IInv, TypeOK, Sound, optionVars, Returned
<1> QED
  BY <1>1 DEF Cancel, IInv, Counted, Working, OnFile, SkippedKnown, Loop, Settled, Ended

LEMMA CrashKeeps ==
  ASSUME IInv, Crash
  PROVE  IInv'
<1>1. /\ entries' \in [Candidate -> Entry] /\ Recount(entries') \in Counts
      /\ \A c \in Candidate : ValidEntry(entries'[c], c)
  BY AllFresh DEF Crash
<1>2. TypeOK' /\ Sound' /\ FileSound'
  <2>1. FileSound' /\ (file' # NoReport => file' \in Report)
    BY FileStays DEF Crash
  <2>2. Sound'
    BY <1>1, ValidNext DEF Crash
  <2>3. cur' \in 1 .. N + 1
    BY ScanAnalyzeAssumption DEF Crash
  <2>4. counts' \in Counts
    BY <1>1 DEF Crash
  <2>5. /\ limit' \in 0 .. N /\ unprepared' \in SUBSET Candidate /\ pc' = "down"
        /\ failures' \in BOOLEAN /\ canceled' \in BOOLEAN /\ broken' \in BOOLEAN
    BY DEF Crash, TypeOK, IInv, optionVars
  <2> QED
    BY <1>1, <2>1, <2>2, <2>3, <2>4, <2>5 DEF TypeOK
<1> QED
  BY <1>1, <1>2 DEF Crash, IInv, Counted, Working, OnFile, SkippedKnown, Loop, Ended

LEMMA NextPreserves == IInv /\ [Next]_vars => IInv'
<1> SUFFICES ASSUME IInv, [Next]_vars PROVE IInv'
  OBVIOUS
<1>1. CASE UNCHANGED vars
  <2>1. TypeOK' /\ Sound' /\ FileSound' /\ Returned' = Returned
    BY <1>1, FileStays, ValidNext DEF vars, IInv, TypeOK, Sound, optionVars, Returned
  <2> QED
    BY <1>1, <2>1 DEF vars, optionVars, IInv, Counted, Working, OnFile, SkippedKnown, Loop, Settled, Ended
<1> QED
  BY <1>1, BeginKeeps, FirstCheckpointKeeps, VisitKeeps, AskKeeps, AskCanceledKeeps, AnswerKeeps,
     FailureKeeps, CompleteKeeps, ReturnKeeps, CancelKeeps, CrashKeeps DEF Next, RunStep

-----------------------------------------------------------------------------
(* The invariant holds in every reachable state.                           *)
THEOREM Inductive == Spec => []IInv
<1> QED
  BY InitEstablishes, NextPreserves, PTL DEF Spec

(* For any number of candidates, whatever a checkpoint saved and whatever  *)
(* a run returned, canceled, failed or cut short anywhere, passes the      *)
(* validation a resume begins with (run.go:293-381).                       *)
THEOREM AlwaysWellFormed == Spec => []WellFormed
<1>1. IInv => WellFormed
  BY DEF IInv, WellFormed, AlwaysResumable, FileSound, Sound, Counted, ValidReport, Returned
<1> QED
  BY <1>1, Inductive, PTL

(* The model is never asked for an output the file has, and a deep         *)
(* analysis rests on a saved screening (run.go:79-80).                     *)
THEOREM NeverPaidTwice == Spec => []AskedOnlyForMissing
<1>1. IInv => AskedOnlyForMissing
  <2> SUFFICES ASSUME IInv, pc = "asking" PROVE AskedOnlyForMissing
    BY DEF AskedOnlyForMissing
  <2>1. entries[cur].stage = NextStage(entries[cur])
    BY StageStands
  <2>2. /\ file # NoReport /\ file.entries[cur].screening = entries[cur].screening
        /\ file.entries[cur].analysis = entries[cur].analysis
    BY DEF IInv, OnFile
  <2> QED
    BY <2>1, <2>2 DEF AskedOnlyForMissing, NextStage
<1> QED
  BY <1>1, Inductive, PTL

(* A run that reports success has a result for every selected candidate in *)
(* the file, and one that was neither canceled nor cut short has tried     *)
(* every candidate (run.go:78-153).                                        *)
THEOREM HonestReturn == Spec => []ReturnIsHonest
<1>1. IInv => ReturnIsHonest
  <2> SUFFICES ASSUME IInv, pc = "returned", ~canceled, ~broken
               PROVE  /\ ~failures => counts.selectedComplete /\ file = Returned
                      /\ counts.pending = 0
    BY DEF ReturnIsHonest, SuccessIsSaved, EveryCandidateTried, Succeeded
  <2>1. file = Returned /\ counts = Recount(entries) /\ \A c \in Candidate : Settled(c)
    BY DEF IInv, Ended, Counted
  <2>2. \A c \in Candidate : entries[c].status # "pending"
    BY <2>1 DEF Settled
  <2>3. ~failures => \A c \in Candidate : entries[c].status \notin Failed
    BY <2>1 DEF Settled
  <2> QED
    BY <2>1, <2>2, <2>3, RecountDone
<1> QED
  BY <1>1, Inductive, PTL

(* Whether c's outputs in one file are still in the next.                  *)
Kept(c) ==
  file # NoReport =>
    /\ file.entries[c].screening # "none" => file'.entries[c].screening = file.entries[c].screening
    /\ file.entries[c].analysis => file'.entries[c].analysis
    /\ file.entries[c].status \in Finished => file'.entries[c] = file.entries[c]

(* A checkpoint that replaces the entry of the current candidate by one    *)
(* with the same outputs, or more of them, keeps what is saved.            *)
LEMMA ReplacementKept ==
  ASSUME IInv, pc \in {"processing", "asking"}, UNCHANGED optionVars, NEW at,
         NEW f \in Entry, ValidEntry(f, cur), Checkpoint([entries EXCEPT ![cur] = f], at),
         entries[cur].screening # "none" => f.screening = entries[cur].screening,
         entries[cur].analysis => f.analysis,
         NEW c \in Candidate
  PROVE  Kept(c)
<1>1. \/ file' = Returned' /\ entries'[cur] = f /\ \A d \in Candidate : d # cur => entries'[d] = entries[d]
      \/ file' = file
  BY ReplaceCurrent
<1>2. /\ file # NoReport
      /\ c # cur => file.entries[c] = entries[c]
      /\ file.entries[cur].screening = entries[cur].screening
      /\ file.entries[cur].analysis = entries[cur].analysis
      /\ file.entries[cur].status \notin Finished
  BY DEF IInv, OnFile
<1>3. CASE file' = file
  BY <1>3 DEF Kept
<1>4. CASE file' = Returned' /\ entries'[cur] = f /\ \A d \in Candidate : d # cur => entries'[d] = entries[d]
  <2>1. file'.entries = entries'
    BY <1>4 DEF Returned
  <2> QED
    BY <1>2, <1>4, <2>1 DEF Kept
<1> QED
  BY <1>1, <1>3, <1>4

(* No failure, cancellation, crash or resume loses a saved output or       *)
(* touches a finished candidate in the file (run.go:78-153, 293-381).      *)
THEOREM SavedOutputsKept == Spec => OutputsKept
<1>1. ASSUME IInv, [Next]_vars, NEW c \in Candidate
      PROVE  Kept(c)
  <2> USE <1>1
  <2>1. CASE FirstCheckpoint
    <3>1. file' = file \/ file'.entries = entries
      BY <2>1 DEF FirstCheckpoint, Checkpoint
    <3>2. file # NoReport => file.entries = entries
      BY <2>1 DEF FirstCheckpoint, IInv, OnFile
    <3> QED
      BY <3>1, <3>2 DEF Kept
  <2>2. CASE Answer
    <3> DEFINE e == entries[cur]
    <3>1. PICK relevance \in Relevance :
            Checkpoint([entries EXCEPT ![cur] = WithOutput(e, relevance)], "processing")
      BY <2>2 DEF Answer
    <3> DEFINE f == WithOutput(e, relevance)
    <3>2. /\ f \in Entry /\ ValidEntry(f, cur)
          /\ e.screening # "none" => f.screening = e.screening
          /\ e.analysis => f.analysis
      BY <2>2, StageStands, Answered DEF Answer, IInv, Working
    <3> HIDE DEF f
    <3> QED
      BY <2>2, <3>1, <3>2, ReplacementKept DEF Answer, f
  <2>3. CASE AnswerFails \/ FeedFails
    <3> DEFINE e == entries[cur]
               f == [e EXCEPT !.status = ErrorAt(e.stage)]
    <3>1. f \in Entry /\ ValidEntry(f, cur) /\ f.screening = e.screening /\ f.analysis = e.analysis
      BY <2>3, StageStands, FailedAt DEF AnswerFails, FeedFails, IInv, Working
    <3>2. Checkpoint([entries EXCEPT ![cur] = f], "looping")
      BY <2>3 DEF AnswerFails, FeedFails
    <3> HIDE DEF f
    <3> QED
      BY <2>3, <3>1, <3>2, ReplacementKept DEF AnswerFails, FeedFails
  <2>4. CASE Complete
    <3> DEFINE e == entries[cur]
               f == [e EXCEPT !.stage = "complete", !.status = OutcomeOf(e)]
    <3>1. f \in Entry /\ ValidEntry(f, cur) /\ f.screening = e.screening /\ f.analysis = e.analysis
      <4>1. /\ cur \in Candidate /\ e \in Entry /\ ValidEntry(e, cur) /\ e.status = "pending"
            /\ NextStage(e) = "feed"
        BY <2>4, StageStands DEF Complete
      <4>2. f = [e EXCEPT !.stage = "complete", !.status = OutcomeOf(e)]
        OBVIOUS
      <4> HIDE DEF e, f
      <4> QED
        BY <4>1, <4>2, Completed
    <3>2. Checkpoint([entries EXCEPT ![cur] = f], "looping")
      BY <2>4, StageStands DEF Complete, IInv, TypeOK
    <3> HIDE DEF f
    <3> QED
      BY <2>4, <3>1, <3>2, ReplacementKept DEF Complete
  <2>5. CASE UNCHANGED file
    BY <2>5 DEF Kept
  <2> QED
    BY <2>1, <2>2, <2>3, <2>4, <2>5
    DEF Next, RunStep, Begin, Visit, Ask, AskCanceled, Return, Cancel, Crash, vars
<1>2. IInv /\ [Next]_vars
      => [\A c \in Candidate : file # NoReport =>
           /\ file.entries[c].screening # "none" => file'.entries[c].screening = file.entries[c].screening
           /\ file.entries[c].analysis => file'.entries[c].analysis
           /\ file.entries[c].status \in Finished => file'.entries[c] = file.entries[c]]_vars
  BY <1>1 DEF Kept
<1> QED
  BY <1>2, Inductive, PTL DEF Spec, OutputsKept
=============================================================================

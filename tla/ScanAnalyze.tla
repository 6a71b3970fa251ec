---------------------------- MODULE ScanAnalyze ----------------------------
(***************************************************************************)
(* src/scananalyze/run.go, as cmd/repo-analyze and server/live drive it:   *)
(* one Run visits the candidates of an immutable scan in order, asks the   *)
(* model to screen each and, when it is related, to analyze it, and hands  *)
(* a checkpoint to its caller after every validated output and after every *)
(* candidate.  The caller replaces its file with the checkpoint or fails.  *)
(* A run may be canceled at any time (its deadline, a signal), crash, and  *)
(* be started again with the file as the report to resume.                 *)
(*                                                                         *)
(* Abstracted: a screening output is its relevance, an analysis output is  *)
(* there or not; the text of an error is there exactly when the status     *)
(* says so; identities, hashes and options, which a resume compares for    *)
(* equality, are those of the one scan; the wall clock does not step back. *)
(* feed.Build may fail, as run.go expects it to, although it does not for  *)
(* the outputs that pass validation today (run_test.go:860).               *)
(***************************************************************************)
EXTENDS Naturals, FiniteSets, FiniteSetsExt

CONSTANTS
  N,        \* candidates of the scan
  NoReport

ASSUME ScanAnalyzeAssumption == N \in Nat

Candidate == 1 .. N

Relevance == {"related", "unsure", "unrelated"}
Finished  == {"analyzed", "screening_only", "excluded"}
Failed    == {"preparation_error", "screening_error", "analysis_error", "feed_error"}
Status    == {"pending", "not_selected"} \cup Failed \cup Finished
Stage     == {"selection", "preparation", "screening", "analysis", "feed", "complete"}

Entry == [status : Status, stage : Stage,
          screening : Relevance \cup {"none"}, analysis : BOOLEAN]

Counts == [notSelected : Nat, screened : Nat, analyzed : Nat, screeningOnly : Nat,
           excluded : Nat, errors : Nat, pending : Nat,
           selectedComplete : BOOLEAN, complete : BOOLEAN]

Report == [entries : [Candidate -> Entry], counts : Counts]

ASSUME NoReportAssumption == NoReport \notin Report

VARIABLES
  limit,       \* Config.Limit: how many candidates are selected, 0 for all
  unprepared,  \* the candidates Prepare has an error for
  entries,     \* r.Entries of the run, or of the report it returned
  counts,      \* the counters and flags of r, as of the last recount
  file,        \* the last checkpoint the caller saved
  pc,          \* where the run is
  cur,         \* the loop's index
  failures,    \* the run has collected an error
  canceled,    \* ctx.Err() # nil
  broken       \* a checkpoint failed

vars == <<limit, unprepared, entries, counts, file, pc, cur, failures, canceled, broken>>

optionVars == <<limit, unprepared>>

-----------------------------------------------------------------------------
(* Helpers of run.go.                                                      *)

(* The entry a fresh run starts candidate c with.                          *)
Fresh(c) ==
  LET blank == [status |-> "pending", stage |-> "screening",
                screening |-> "none", analysis |-> FALSE]
  IN  IF limit > 0 /\ c > limit
        THEN [blank EXCEPT !.status = "not_selected", !.stage = "selection"]
      ELSE IF c \in unprepared
        THEN [blank EXCEPT !.status = "preparation_error", !.stage = "preparation"]
      ELSE blank

NextStage(e) ==
  IF e.screening = "none" THEN "screening"
  ELSE IF e.screening = "related" /\ ~e.analysis THEN "analysis"
  ELSE "feed"

ErrorAt(stage) ==
  CASE stage = "screening" -> "screening_error"
    [] stage = "analysis"  -> "analysis_error"
    [] stage = "feed"      -> "feed_error"

Recount(es) ==
  LET with(S) == Cardinality({c \in Candidate : es[c].status \in S})
      selectedComplete == with(Failed \cup {"pending"}) = 0
  IN  [notSelected      |-> with({"not_selected"}),
       screened         |-> Cardinality({c \in Candidate : es[c].screening # "none"}),
       analyzed         |-> Cardinality({c \in Candidate : es[c].analysis}),
       screeningOnly    |-> with({"screening_only"}),
       excluded         |-> with({"excluded"}),
       errors           |-> with(Failed),
       pending          |-> with({"pending"}),
       selectedComplete |-> selectedComplete,
       complete         |-> selectedComplete /\ with({"not_selected"}) = 0]

(* Does the saved entry fit the candidate and its own cached outputs?      *)
ValidEntry(e, c) ==
  \/ /\ Fresh(c).status # "pending"
     /\ e = Fresh(c)
  \/ /\ Fresh(c).status = "pending"
     /\ e.analysis => e.screening = "related"
     /\ \/ e.status = "pending" /\ e.stage = NextStage(e)
        \/ /\ e.stage = NextStage(e) /\ e.status = ErrorAt(e.stage)
           /\ e.stage = "feed" => e.screening # "unrelated"
        \/ e.status = "analyzed" /\ e.analysis /\ e.stage = "complete"
        \/ e.status = "screening_only" /\ e.screening = "unsure" /\ e.stage = "complete"
        \/ e.status = "excluded" /\ e.screening = "unrelated" /\ e.stage = "complete"

(* validateResume, for a report of the same scan and the same options.     *)
ValidReport(report) ==
  /\ \A c \in Candidate : ValidEntry(report.entries[c], c)
  /\ report.counts = Recount(report.entries)

Todo == {c \in cur .. N : entries[c].status \notin Finished \cup {"not_selected", "preparation_error"}}

-----------------------------------------------------------------------------
Init ==
  /\ limit \in 0 .. N
  /\ unprepared \in SUBSET Candidate
  /\ entries = [c \in Candidate |-> Fresh(c)]
  /\ counts = Recount(entries)
  /\ file = NoReport
  /\ pc = "down"
  /\ cur = 1
  /\ failures = FALSE
  /\ canceled = FALSE
  /\ broken = FALSE

(* Mutant of Begin: an existing report is started over.                    *)
BeginOver ==
  /\ pc \in {"down", "returned"}
  /\ entries' = [c \in Candidate |-> Fresh(c)]
  /\ counts' = Recount(entries')
  /\ pc' = "begun"
  /\ cur' = 1
  /\ failures' = FALSE
  /\ canceled' = FALSE
  /\ broken' = FALSE
  /\ UNCHANGED <<optionVars, file>>

(* A fresh run, or one that resumes the file it finds: repo-analyze never  *)
(* overwrites a report it was not told to resume, and Run refuses to       *)
(* resume one that is not valid.                                           *)
Begin ==
  /\ pc \in {"down", "returned"}
  /\ file # NoReport => ValidReport(file)
  /\ entries' = IF file = NoReport THEN [c \in Candidate |-> Fresh(c)] ELSE file.entries
  /\ counts' = Recount(entries')
  /\ pc' = "begun"
  /\ cur' = 1
  /\ failures' = FALSE
  /\ canceled' = FALSE
  /\ broken' = FALSE
  /\ UNCHANGED <<optionVars, file>>

(* The closure checkpoint: the new entries are counted and saved, or the   *)
(* run returns with the error and without another attempt.                 *)
Checkpoint(es, at) ==
  /\ entries' = es
  /\ counts' = Recount(es)
  /\ \/ /\ file' = [entries |-> es, counts |-> Recount(es)]
        /\ pc' = at
        /\ UNCHANGED broken
     \/ /\ pc' = "returned"
        /\ broken' = TRUE
        /\ UNCHANGED file

FirstCheckpoint ==
  /\ pc = "begun"
  /\ Checkpoint(entries, "looping")
  /\ failures' = \E c \in Candidate : entries[c].status = "preparation_error"
  /\ UNCHANGED <<optionVars, cur, canceled>>

(* The top of the loop, with a candidate that needs work: what failed in   *)
(* an earlier run is pending again.                                        *)
Visit ==
  /\ pc = "looping"
  /\ ~canceled
  /\ Todo # {}
  /\ cur' = Min(Todo)
  /\ entries' = [entries EXCEPT ![cur'].status = "pending", ![cur'].stage = NextStage(entries[cur'])]
  /\ pc' = "processing"
  /\ UNCHANGED <<optionVars, counts, file, failures, canceled, broken>>

(* pipeline.Process up to the next model call: cachingAnalyzer answers     *)
(* from the entry when it can, and looks at the context before it asks.    *)
Ask ==
  /\ pc = "processing"
  /\ ~canceled
  /\ NextStage(entries[cur]) # "feed"
  /\ pc' = "asking"
  /\ entries' = [entries EXCEPT ![cur].stage = NextStage(entries[cur])]
  /\ UNCHANGED <<optionVars, counts, file, cur, failures, canceled, broken>>

(* Mutant of AskCanceled: the counters are left as they were.              *)
AskCanceledUncounted ==
  /\ pc = "processing"
  /\ canceled
  /\ NextStage(entries[cur]) # "feed"
  /\ entries' = [entries EXCEPT ![cur].stage = NextStage(entries[cur])]
  /\ pc' = "returned"
  /\ UNCHANGED <<optionVars, counts, file, cur, failures, canceled, broken>>

(* The context ended before the call: Run returns without a checkpoint.    *)
AskCanceled ==
  /\ pc = "processing"
  /\ canceled
  /\ NextStage(entries[cur]) # "feed"
  /\ entries' = [entries EXCEPT ![cur].stage = NextStage(entries[cur])]
  /\ counts' = Recount(entries')
  /\ pc' = "returned"
  /\ UNCHANGED <<optionVars, file, cur, failures, canceled, broken>>

(* The entry with the output the model was asked for.                      *)
WithOutput(e, relevance) ==
  LET answered == IF e.stage = "screening" THEN [e EXCEPT !.screening = relevance]
                  ELSE [e EXCEPT !.analysis = TRUE]
  IN  [answered EXCEPT !.stage = NextStage(answered)]

(* Mutant of Answer: the next stage follows without a checkpoint.          *)
AnswerUnsaved ==
  /\ pc = "asking"
  /\ \E relevance \in Relevance :
       entries' = [entries EXCEPT ![cur] = WithOutput(entries[cur], relevance)]
  /\ counts' = Recount(entries')
  /\ pc' = "processing"
  /\ UNCHANGED <<optionVars, file, cur, failures, canceled, broken>>

(* The model answers, canceled or not, and the output passes validation.   *)
Answer ==
  /\ pc = "asking"
  /\ \E relevance \in Relevance :
       Checkpoint([entries EXCEPT ![cur] = WithOutput(entries[cur], relevance)], "processing")
  /\ UNCHANGED <<optionVars, cur, failures, canceled>>

(* Mutant of AnswerFails: the same candidate is tried again, without end.  *)
AnswerFailsRetries ==
  /\ pc = "asking"
  /\ Checkpoint([entries EXCEPT ![cur].status = ErrorAt(entries[cur].stage)], "looping")
  /\ failures' = TRUE
  /\ UNCHANGED <<optionVars, cur, canceled>>

(* It fails, gives up when it is canceled, or answers something invalid:   *)
(* that is recorded, and the next candidate gets its turn.                 *)
AnswerFails ==
  /\ pc = "asking"
  /\ Checkpoint([entries EXCEPT ![cur].status = ErrorAt(entries[cur].stage)], "looping")
  /\ failures' = TRUE
  /\ cur' = cur + 1
  /\ UNCHANGED <<optionVars, canceled>>

OutcomeOf(e) ==
  CASE e.screening = "unrelated" -> "excluded"
    [] e.screening = "unsure"    -> "screening_only"
    [] e.screening = "related"   -> "analyzed"

(* Process has all the outputs it needs; the context is not looked at.     *)
Complete ==
  /\ pc = "processing"
  /\ NextStage(entries[cur]) = "feed"
  /\ Checkpoint([entries EXCEPT ![cur].stage = "complete", ![cur].status = OutcomeOf(entries[cur])],
                "looping")
  /\ cur' = cur + 1
  /\ UNCHANGED <<optionVars, failures, canceled>>

(* The feed item cannot be built: a later run tries it with the outputs    *)
(* that are saved.  An unrelated candidate has no item.                    *)
FeedFails ==
  /\ pc = "processing"
  /\ NextStage(entries[cur]) = "feed" /\ entries[cur].screening # "unrelated"
  /\ Checkpoint([entries EXCEPT ![cur].status = ErrorAt(entries[cur].stage)], "looping")
  /\ failures' = TRUE
  /\ cur' = cur + 1
  /\ UNCHANGED <<optionVars, canceled>>

(* Mutant of Return: the first failure ends the run.                       *)
ReturnOnFailure ==
  /\ pc = "looping"
  /\ Todo = {} \/ canceled \/ failures
  /\ pc' = "returned"
  /\ UNCHANGED <<optionVars, entries, counts, file, cur, failures, canceled, broken>>

(* Nothing left to visit, or the context is done.                          *)
Return ==
  /\ pc = "looping"
  /\ Todo = {} \/ canceled
  /\ pc' = "returned"
  /\ UNCHANGED <<optionVars, entries, counts, file, cur, failures, canceled, broken>>

Cancel ==
  /\ pc \notin {"down", "returned"}
  /\ ~canceled
  /\ canceled' = TRUE
  /\ UNCHANGED <<optionVars, entries, counts, file, pc, cur, failures, broken>>

Crash ==
  /\ pc # "down"
  /\ entries' = [c \in Candidate |-> Fresh(c)]
  /\ counts' = Recount(entries')
  /\ pc' = "down"
  /\ cur' = 1
  /\ failures' = FALSE
  /\ canceled' = FALSE
  /\ broken' = FALSE
  /\ UNCHANGED <<optionVars, file>>

RunStep ==
  \/ FirstCheckpoint \/ Visit \/ Ask \/ AskCanceled \/ Answer \/ AnswerFails
  \/ FeedFails \/ Complete \/ Return

Next == Begin \/ RunStep \/ Cancel \/ Crash

(* The run goes on and the model answers or fails: its calls end with the  *)
(* context, if not before.  Nobody has to start a run, and a crash or a    *)
(* cancellation never has to happen.                                       *)
Spec == Init /\ [][Next]_vars /\ WF_vars(RunStep)

-----------------------------------------------------------------------------
(* Properties.                                                             *)

Returned == [entries |-> entries, counts |-> counts]

TypeOK ==
  /\ limit \in 0 .. N
  /\ unprepared \in SUBSET Candidate
  /\ entries \in [Candidate -> Entry]
  /\ counts \in Counts
  /\ file # NoReport => file \in Report
  /\ pc \in {"down", "begun", "looping", "processing", "asking", "returned"}
  /\ cur \in 1 .. N + 1
  /\ pc \in {"processing", "asking"} => cur \in Candidate
  /\ failures \in BOOLEAN
  /\ canceled \in BOOLEAN
  /\ broken \in BOOLEAN

(* Whatever a checkpoint saved and whatever Run returned, canceled between *)
(* any two steps or cut short by a failed save, passes the validation a    *)
(* resume begins with (run.go:293-381): no run paints itself into a corner.*)
AlwaysResumable ==
  /\ file # NoReport => ValidReport(file)
  /\ pc = "returned" => ValidReport(Returned)

(* The counters and entries of a run are well-formed after every step, and *)
(* every file it leaves behind can be resumed from (run.go:155-291,        *)
(* 293-381).                                                               *)
WellFormed == TypeOK /\ AlwaysResumable

(* While a model call is under way, the file does not hold the output the  *)
(* call is for, and the screening a deep analysis rests on is in the file: *)
(* "Successful model calls are checkpointed before the next stage"         *)
(* (run.go:79-80), and a saved output is never paid for again.             *)
AskedOnlyForMissing ==
  pc = "asking" =>
    LET stage == entries[cur].stage IN
    /\ file # NoReport
    /\ stage = "screening" => file.entries[cur].screening = "none"
    /\ stage = "analysis" => file.entries[cur].screening = "related" /\ ~file.entries[cur].analysis

(* The file only gains outputs, and a candidate that is finished in it     *)
(* stays as it is through failures, cancellations, crashes and resumes.    *)
OutputsKept ==
  [][\A c \in Candidate : file # NoReport =>
       /\ file.entries[c].screening # "none" => file'.entries[c].screening = file.entries[c].screening
       /\ file.entries[c].analysis => file'.entries[c].analysis
       /\ file.entries[c].status \in Finished => file'.entries[c] = file.entries[c]]_vars

Succeeded == pc = "returned" /\ ~failures /\ ~canceled /\ ~broken

(* Run returns no error only with a result for every selected candidate,   *)
(* all of it in the file; the live service reports a job as completed on   *)
(* that alone (service.go:222-242).                                        *)
SuccessIsSaved ==
  Succeeded => counts.selectedComplete /\ file = Returned

(* A failing candidate never stops the others: a run that was neither      *)
(* canceled nor cut short by a checkpoint has tried every selected one     *)
(* ("failures are recorded while independent candidates continue",         *)
(* run.go:80-81).                                                          *)
EveryCandidateTried ==
  pc = "returned" /\ ~canceled /\ ~broken => counts.pending = 0

(* What the end of a run means for the candidates: success says that each  *)
(* selected one is on disk, and failure that each was still tried unless   *)
(* the run was canceled or could not save (run.go:78-153).                 *)
ReturnIsHonest == SuccessIsSaved /\ EveryCandidateTried

(* Every run that is not killed comes to an end.                           *)
EveryRunReturns == pc = "begun" ~> pc \in {"returned", "down"}
=============================================================================

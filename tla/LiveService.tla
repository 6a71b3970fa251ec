---------------------------- MODULE LiveService ----------------------------
(***************************************************************************)
(* server/live/service.go as cmd/news-server runs it: HTTP handlers        *)
(* register and refresh repositories, worker goroutines discover and       *)
(* analyze them, every stage is written to <job>/record.json, and Open     *)
(* rebuilds the service from those files after a stop or a crash.          *)
(*                                                                         *)
(* One mutex covers every change of a record in memory together with its   *)
(* save, so each such pair is one step; discovery, the write of scan.json  *)
(* and the model calls run outside it and are steps of their own, and a    *)
(* refresh takes it twice, to read the record and to submit.  A save       *)
(* (temporary file, sync, rename) replaces the file or fails without       *)
(* touching it.                                                            *)
(*                                                                         *)
(* Abstracted: a request is the repository it is about (repositoryID); job *)
(* ids are numbered in the order of their CreatedAt, that is, the wall     *)
(* clock does not step back between two registrations; a report is the     *)
(* number of candidates that still lack a validated result, so that 0 is   *)
(* Report.Complete (what happens inside one candidate is ScanAnalyze); a   *)
(* scan file is "whole" (the finished scan the report was made from) or    *)
(* "unusable" (an incomplete refresh, or another repository).              *)
(***************************************************************************)
EXTENDS Naturals, Sequences, FiniteSets, FiniteSetsExt

CONSTANTS
  Repo,        \* repository ids
  MaxJobs,     \* bound: registrations and imports in one behaviour
  Worker,      \* Config.Workers goroutines
  Capacity,    \* Config.Capacity: the size of the channel
  Candidates,  \* bound: candidates of one scan
  NoReport, NoJob, NoRepo

ASSUME LiveServiceAssumption ==
  /\ MaxJobs \in Nat
  /\ Capacity \in Nat
  /\ Candidates \in Nat
  /\ NoReport \notin Nat
  /\ NoJob \notin Nat
  /\ NoRepo \notin Repo

Job == 1 .. MaxJobs

Active   == {"queued", "profiling", "analyzing"}
Terminal == {"completed", "failed"}
Report   == 0 .. Candidates

Record == [stage : {"absent"} \cup Active \cup Terminal, report : Report \cup {NoReport}]
Absent == [stage |-> "absent", report |-> NoReport]

VARIABLES
  mem,       \* Service.jobs: the record of a job, Absent if unknown
  latest,    \* Service.repositories
  queue,     \* Service.queue
  disk,      \* <job>/record.json
  scan,      \* <job>/scan.json
  repo,      \* the repository a job is about
  nextJob,   \* the id the next registration gets
  pc,        \* where each worker is in run
  hold,      \* the record each worker runs
  found,     \* the state its discovery returned
  left,      \* candidates its analysis has yet to visit
  erred,     \* its err is not nil
  phase,     \* "down", "loaded" by Open, or "serving" HTTP
  analyzer,  \* Config.Analyzer is set: the server is not read-only
  ctxDone,   \* Service.ctx is canceled
  closed,    \* Service.closed
  refreshing,\* the records that refresh handlers have read and not submitted yet
  acked      \* history: the job ids handed to clients

serviceVars == <<mem, latest, queue>>
fileVars    == <<disk, scan>>
jobVars     == <<repo, nextJob>>
workerVars  == <<pc, hold, found, left, erred>>
phaseVars   == <<phase, analyzer, ctxDone, closed>>
clientVars  == <<refreshing, acked>>

vars == <<serviceVars, fileVars, jobVars, workerVars, phaseVars, clientVars>>

TypeOK ==
  /\ mem \in [Job -> Record]
  /\ latest \in [Repo -> Job \cup {NoJob}]
  /\ queue \in Seq(Job)
  /\ disk \in [Job -> Record]
  /\ scan \in [Job -> {"none", "whole", "unusable"}]
  /\ repo \in [Job -> Repo \cup {NoRepo}]
  /\ nextJob \in 1 .. MaxJobs + 1
  /\ pc \in [Worker -> {"idle", "received", "discovering", "saving", "prepared",
                        "visiting", "finishing", "exited"}]
  /\ hold \in [Worker -> Job \cup {NoJob}]
  /\ found \in [Worker -> {"none", "whole", "unusable"}]
  /\ left \in [Worker -> Nat]
  /\ erred \in [Worker -> BOOLEAN]
  /\ phase \in {"down", "loaded", "serving"}
  /\ analyzer \in BOOLEAN
  /\ ctxDone \in BOOLEAN
  /\ closed \in BOOLEAN
  /\ refreshing \in SUBSET Job
  /\ acked \in SUBSET Job

Init ==
  /\ mem = [j \in Job |-> Absent]
  /\ latest = [r \in Repo |-> NoJob]
  /\ queue = <<>>
  /\ disk = [j \in Job |-> Absent]
  /\ scan = [j \in Job |-> "none"]
  /\ repo = [j \in Job |-> NoRepo]
  /\ nextJob = 1
  /\ pc = [w \in Worker |-> "idle"]
  /\ hold = [w \in Worker |-> NoJob]
  /\ found = [w \in Worker |-> "none"]
  /\ left = [w \in Worker |-> 0]
  /\ erred = [w \in Worker |-> FALSE]
  /\ phase = "down"
  /\ analyzer = FALSE
  /\ ctxDone = FALSE
  /\ closed = FALSE
  /\ refreshing = {}
  /\ acked = {}

-----------------------------------------------------------------------------
(* Open and the ways a process ends.                                       *)

Stored      == {j \in Job : disk[j].stage # "absent"}
Interrupted == {j \in Stored : disk[j].stage \notin Terminal}

(* Open accepts a record with a report only beside the scan it was made    *)
(* from: Restore recomputes the snapshot and every input hash.             *)
Readable(j) == disk[j].report # NoReport => scan[j] = "whole"

(* Mutant of MarkFailed: interrupted jobs are loaded as they are.          *)
MarkNothing(S) == disk

(* The records of the jobs in S, marked as interrupted by the restart.     *)
MarkFailed(S) ==
  [j \in Job |-> IF j \in S THEN [disk[j] EXCEPT !.stage = "failed"] ELSE disk[j]]

(* The stored job of a repository with the greatest CreatedAt.             *)
Newest(r) ==
  LET ofRepo == {j \in Stored : repo[j] = r}
  IN  IF ofRepo = {} THEN NoJob ELSE Max(ofRepo)

Open ==
  /\ phase = "down"
  /\ \A j \in Stored : Readable(j)
  /\ disk' = MarkFailed(Interrupted)
  /\ mem' = MarkFailed(Interrupted)
  /\ latest' = [r \in Repo |-> Newest(r)]
  /\ phase' = "loaded"
  /\ analyzer' \in BOOLEAN
  /\ UNCHANGED <<queue, scan, jobVars, workerVars, ctxDone, closed, clientVars>>

(* Saving an interrupted record fails: Open gives up, with some of them    *)
(* saved already, in whatever order the directory lists them.              *)
OpenFails ==
  /\ phase = "down"
  /\ \E S \in SUBSET Interrupted :
       S # {} /\ S # Interrupted /\ disk' = MarkFailed(S)
  /\ UNCHANGED <<serviceVars, scan, jobVars, workerVars, phaseVars, clientVars>>

(* Everything that lives in the process is gone.                           *)
ProcessEnds ==
  /\ mem' = [j \in Job |-> Absent]
  /\ latest' = [r \in Repo |-> NoJob]
  /\ queue' = <<>>
  /\ pc' = [w \in Worker |-> "idle"]
  /\ hold' = [w \in Worker |-> NoJob]
  /\ found' = [w \in Worker |-> "none"]
  /\ left' = [w \in Worker |-> 0]
  /\ erred' = [w \in Worker |-> FALSE]
  /\ phase' = "down"
  /\ analyzer' = FALSE
  /\ ctxDone' = FALSE
  /\ closed' = FALSE
  /\ refreshing' = {}

Crash ==
  /\ phase # "down"
  /\ ProcessEnds
  /\ UNCHANGED <<fileVars, jobVars, acked>>

(* SIGINT or SIGTERM: the context of main, and with it the service's.      *)
Signal ==
  /\ phase # "down"
  /\ ~ctxDone
  /\ ctxDone' = TRUE
  /\ UNCHANGED <<serviceVars, fileVars, jobVars, workerVars, phase, analyzer, closed, clientVars>>

(* Close refuses new work and cancels; handlers may still be answering.    *)
Close ==
  /\ phase # "down"
  /\ ~closed
  /\ closed' = TRUE
  /\ ctxDone' = TRUE
  /\ UNCHANGED <<serviceVars, fileVars, jobVars, workerVars, phase, analyzer, clientVars>>

(* Close waited for every worker, and main returns.                        *)
Exit ==
  /\ closed
  /\ \A w \in Worker : pc[w] = "exited"
  /\ ProcessEnds
  /\ UNCHANGED <<fileVars, jobVars, acked>>

-----------------------------------------------------------------------------
(* Registration.                                                           *)

Listen ==
  /\ phase = "loaded"
  /\ phase' = "serving"
  /\ UNCHANGED <<serviceVars, fileVars, jobVars, workerVars, analyzer, ctxDone, closed, clientVars>>

LatestIsActive(r) == latest[r] # NoJob /\ mem[latest[r]].stage \in Active

(* Mutant of Publish: a refresh keeps the id of the job it supersedes.     *)
PublishOver(r, rec) ==
  LET j == IF latest[r] = NoJob THEN nextJob ELSE latest[r] IN
  /\ nextJob <= MaxJobs
  /\ mem' = [mem EXCEPT ![j] = rec]
  /\ disk' = [disk EXCEPT ![j] = rec]
  /\ latest' = [latest EXCEPT ![r] = j]
  /\ repo' = [repo EXCEPT ![j] = r]
  /\ nextJob' = nextJob + 1
  /\ acked' = acked \cup {j}

(* A new record of repository r in memory and on disk, under a fresh id.   *)
Publish(r, rec) ==
  /\ nextJob <= MaxJobs
  /\ mem' = [mem EXCEPT ![nextJob] = rec]
  /\ disk' = [disk EXCEPT ![nextJob] = rec]
  /\ latest' = [latest EXCEPT ![r] = nextJob]
  /\ repo' = [repo EXCEPT ![nextJob] = r]
  /\ nextJob' = nextJob + 1
  /\ acked' = acked \cup {nextJob}

(* Import, which main calls once, before it listens.                       *)
Import(r) ==
  /\ phase = "loaded"
  /\ ~closed
  /\ ~LatestIsActive(r)
  /\ \E missing \in Report :
       Publish(r, [stage |-> IF missing = 0 THEN "completed" ELSE "failed", report |-> missing])
  /\ scan' = [scan EXCEPT ![nextJob] = "whole"]
  /\ phase' = "serving"
  /\ UNCHANGED <<queue, workerVars, analyzer, ctxDone, closed, refreshing>>

(* The record cannot be saved after the scan was: main exits, and leaves a *)
(* directory without a record, which Open does not look at.                *)
ImportFails ==
  /\ phase = "loaded"
  /\ ~closed
  /\ nextJob <= MaxJobs
  /\ scan' = [scan EXCEPT ![nextJob] = "whole"]
  /\ nextJob' = nextJob + 1
  /\ ProcessEnds
  /\ UNCHANGED <<disk, repo, acked>>

(* The refresh handler reads the record of a registered repository, and    *)
(* lets go of the mutex before it submits the request it found there.      *)
(* (Bound: none begins when no job can follow.)                            *)
RefreshRead(r) ==
  /\ phase = "serving"
  /\ latest[r] # NoJob /\ nextJob <= MaxJobs
  /\ refreshing' = refreshing \cup {latest[r]}
  /\ UNCHANGED <<serviceVars, fileVars, jobVars, workerVars, phaseVars, acked>>

(* Any number of refreshes may have read the same record: when one of them *)
(* goes on there may be others.                                            *)
OneGoesOn(j) == refreshing' \in {refreshing, refreshing \ {j}}

(* Mutant of Reusable: a refresh goes by the record that it has read.      *)
ReusableAsRead(r, j) == latest[r] # NoJob /\ (j # NoJob => mem[j].stage \in Active)

(* Submit: a registration (j is NoJob) reuses whatever the repository has; *)
(* the refresh that has read the record of j only a running job.           *)
Reusable(r, j) == latest[r] # NoJob /\ (j # NoJob => LatestIsActive(r))

Submits(r, j) ==
  /\ phase = "serving"
  /\ \/ j = NoJob /\ UNCHANGED refreshing
     \/ j \in refreshing /\ repo[j] = r /\ OneGoesOn(j)

SubmitReuse(r, j) ==
  /\ Submits(r, j)
  /\ Reusable(r, j)
  /\ acked' = acked \cup {latest[r]}
  /\ UNCHANGED <<serviceVars, fileVars, jobVars, workerVars, phaseVars>>

SubmitNew(r, j) ==
  /\ Submits(r, j)
  /\ ~Reusable(r, j)
  /\ ~closed /\ ~ctxDone /\ analyzer
  /\ Len(queue) < Capacity
  /\ Publish(r, [stage |-> "queued", report |-> NoReport])
  /\ queue' = Append(queue, nextJob)
  /\ UNCHANGED <<scan, workerVars, phaseVars>>

(* A refused or unsaved submission changes nothing: of a refresh it is the *)
(* end, and a registration is left out.                                    *)
RefreshRefused(j) ==
  /\ j \in refreshing
  /\ ~Reusable(repo[j], j)
  /\ refreshing' = refreshing \ {j}
  /\ UNCHANGED <<serviceVars, fileVars, jobVars, workerVars, phaseVars, acked>>

-----------------------------------------------------------------------------
(* A worker running a job.                                                 *)

Running(w, at) == phase # "down" /\ pc[w] = at
Goto(w, at)    == pc' = [pc EXCEPT ![w] = at]

(* save(rec) under the mutex: the file now holds the record, or, when the  *)
(* save failed, what it held before.                                       *)
Save(j, saved) == disk' = IF saved THEN [disk EXCEPT ![j] = mem'[j]] ELSE disk

Receive(w) ==
  /\ Running(w, "idle")
  /\ queue # <<>>
  /\ hold' = [hold EXCEPT ![w] = Head(queue)]
  /\ queue' = Tail(queue)
  /\ Goto(w, "received")
  /\ UNCHANGED <<mem, latest, fileVars, jobVars, found, left, erred, phaseVars, clientVars>>

StartProfiling(w) ==
  /\ Running(w, "received")
  /\ mem' = [mem EXCEPT ![hold[w]].stage = "profiling"]
  /\ \E saved \in BOOLEAN :
       /\ Save(hold[w], saved)
       /\ erred' = [erred EXCEPT ![w] = ~saved]
       /\ Goto(w, IF saved THEN "discovering" ELSE "finishing")
  /\ UNCHANGED <<latest, queue, scan, jobVars, hold, found, left, phaseVars, clientVars>>

(* Acquisition, profiling and the OSV queries, bounded by a deadline and   *)
(* by ctx: nothing, a whole scan, or one that is kept but not analyzed.    *)
Discover(w) ==
  /\ Running(w, "discovering")
  /\ \E result \in {"none", "whole", "unusable"} :
       /\ found' = [found EXCEPT ![w] = result]
       /\ erred' = [erred EXCEPT ![w] = result # "whole"]
       /\ Goto(w, IF result = "none" THEN "finishing" ELSE "saving")
  /\ UNCHANGED <<serviceVars, fileVars, jobVars, hold, left, phaseVars, clientVars>>

(* Mutant of SaveScan: the analysis starts although the scan is not saved. *)
SaveScanUnchecked(w) ==
  /\ Running(w, "saving")
  /\ \E saved \in BOOLEAN :
       /\ scan' = IF saved THEN [scan EXCEPT ![hold[w]] = found[w]] ELSE scan
       /\ Goto(w, IF ~erred[w] THEN "prepared" ELSE "finishing")
  /\ UNCHANGED <<serviceVars, disk, jobVars, hold, found, left, erred, phaseVars, clientVars>>

(* reposcan.Save of a state that was discovered; a failure joins err.      *)
SaveScan(w) ==
  /\ Running(w, "saving")
  /\ \E saved \in BOOLEAN :
       /\ scan' = IF saved THEN [scan EXCEPT ![hold[w]] = found[w]] ELSE scan
       /\ erred' = [erred EXCEPT ![w] = @ \/ ~saved]
       /\ Goto(w, IF saved /\ ~erred[w] THEN "prepared" ELSE "finishing")
  /\ UNCHANGED <<serviceVars, disk, jobVars, hold, found, left, phaseVars, clientVars>>

(* A checkpoint of the analysis: the report becomes visible in memory even *)
(* when its save fails.  A failed save ends the run, and so does a context *)
(* that is done by now.                                                    *)
Checkpoint(w, missing, rest, failed) ==
  /\ mem' = [mem EXCEPT ![hold[w]] = [stage |-> "analyzing", report |-> missing]]
  /\ left' = [left EXCEPT ![w] = rest]
  /\ \E saved \in BOOLEAN :
       /\ Save(hold[w], saved)
       /\ erred' = [erred EXCEPT ![w] = @ \/ failed \/ ~saved \/ ctxDone]
       /\ Goto(w, IF saved /\ ~ctxDone THEN "visiting" ELSE "finishing")
  /\ UNCHANGED <<latest, queue, scan, jobVars, hold, found, phaseVars, clientVars>>

(* The checkpoint scananalyze.Run makes before its first candidate.        *)
FirstCheckpoint(w) ==
  /\ Running(w, "prepared")
  /\ \E n \in Report : Checkpoint(w, n, n, FALSE)

(* One candidate gets a validated result, or fails and leaves an error.    *)
VisitCandidate(w) ==
  /\ Running(w, "visiting")
  /\ left[w] > 0
  /\ LET missing == mem[hold[w]].report IN
     \/ Checkpoint(w, missing - 1, left[w] - 1, FALSE)
     \/ Checkpoint(w, missing, left[w] - 1, TRUE)

(* Mutant of AnalysisReturns: only a canceled context ends the loop.       *)
AnalysisReturnsCanceled(w) ==
  /\ Running(w, "visiting")
  /\ ctxDone
  /\ erred' = [erred EXCEPT ![w] = TRUE]
  /\ Goto(w, "finishing")
  /\ UNCHANGED <<serviceVars, fileVars, jobVars, hold, found, left, phaseVars, clientVars>>

(* Run returns: no candidate is left, or the context is done.              *)
AnalysisReturns(w) ==
  /\ Running(w, "visiting")
  /\ left[w] = 0 \/ ctxDone
  /\ erred' = [erred EXCEPT ![w] = @ \/ ctxDone]
  /\ Goto(w, "finishing")
  /\ UNCHANGED <<serviceVars, fileVars, jobVars, hold, found, left, phaseVars, clientVars>>

Outcome(w) == IF erred[w] THEN "failed" ELSE "completed"

(* Mutant of Finish: a failed save leaves the stage as it was decided.     *)
FinishUnchecked(w) ==
  /\ Running(w, "finishing")
  /\ mem' = [mem EXCEPT ![hold[w]].stage = Outcome(w)]
  /\ \E saved \in BOOLEAN : Save(hold[w], saved)
  /\ hold' = [hold EXCEPT ![w] = NoJob]
  /\ found' = [found EXCEPT ![w] = "none"]
  /\ left' = [left EXCEPT ![w] = 0]
  /\ erred' = [erred EXCEPT ![w] = FALSE]
  /\ Goto(w, "idle")
  /\ UNCHANGED <<latest, queue, scan, jobVars, phaseVars, clientVars>>

(* The last save of run.  A result that cannot be saved is a failure.      *)
Finish(w) ==
  /\ Running(w, "finishing")
  /\ \E saved \in BOOLEAN :
       /\ mem' = [mem EXCEPT ![hold[w]].stage = IF saved THEN Outcome(w) ELSE "failed"]
       /\ Save(hold[w], saved)
  /\ hold' = [hold EXCEPT ![w] = NoJob]
  /\ found' = [found EXCEPT ![w] = "none"]
  /\ left' = [left EXCEPT ![w] = 0]
  /\ erred' = [erred EXCEPT ![w] = FALSE]
  /\ Goto(w, "idle")
  /\ UNCHANGED <<latest, queue, scan, jobVars, phaseVars, clientVars>>

WorkerExits(w) ==
  /\ Running(w, "idle")
  /\ ctxDone
  /\ Goto(w, "exited")
  /\ UNCHANGED <<serviceVars, fileVars, jobVars, hold, found, left, erred, phaseVars, clientVars>>

WorkerStep(w) ==
  \/ Receive(w) \/ StartProfiling(w) \/ Discover(w) \/ SaveScan(w)
  \/ FirstCheckpoint(w) \/ VisitCandidate(w) \/ AnalysisReturns(w)
  \/ Finish(w) \/ WorkerExits(w)

Next ==
  \/ Open \/ OpenFails \/ Crash \/ Signal \/ Close \/ Exit \/ Listen
  \/ ImportFails
  \/ \E r \in Repo :
       \/ Import(r)
       \/ RefreshRead(r)
       \/ \E j \in Job \cup {NoJob} : SubmitReuse(r, j) \/ SubmitNew(r, j)
  \/ \E j \in Job : RefreshRefused(j)
  \/ \E w \in Worker : WorkerStep(w)

(* Workers run, discovery and model calls return, and after a signal main  *)
(* goes on to Close and returns.  Nobody has to start the server again, to *)
(* submit, or to stop it.                                                  *)
Fairness ==
  /\ \A w \in Worker : WF_vars(WorkerStep(w))
  /\ WF_vars(ctxDone /\ Close)
  /\ WF_vars(Exit)

Spec == Init /\ [][Next]_vars /\ Fairness

-----------------------------------------------------------------------------
(* Properties.                                                             *)

ActiveJobs == {j \in Job : mem[j].stage \in Active}

(* A repository never has two scans under way, and the one it has is the   *)
(* one its pages refer to: register, refresh, import and restart all keep  *)
(* to it ("a running scan of the same repository is not duplicated",       *)
(* docs/e2e-integration.md:83).                                            *)
OneActiveScan == \A j \in ActiveJobs : latest[repo[j]] = j

(* Every unfinished job of a running service is in the channel once or in  *)
(* the hands of exactly one worker, and nothing else is: no job stays      *)
(* unfinished because nobody is left to run it (service.go:168-248).       *)
NoStrandedJob ==
  \A j \in Job :
    Cardinality({i \in DOMAIN queue : queue[i] = j}) + Cardinality({w \in Worker : hold[w] = j})
      = IF j \in ActiveJobs THEN 1 ELSE 0

(* Between registration, claiming workers, crashes and restarts, with the  *)
(* state well-formed: a repository has one scan at a time, and each        *)
(* unfinished job has exactly one who will run it, the queue or a worker   *)
(* (service.go:82-130, 132-166, 168-248).                                  *)
JobsAccounted == TypeOK /\ OneActiveScan /\ NoStrandedJob

(* A job id once handed to a client is found again after any crash, and    *)
(* the restarted service shows, for every repository, the same latest job  *)
(* as the one before it (service.go:82-130 against 168-190 and 299-318).   *)
RestartKeepsEverything ==
  /\ acked \subseteq Stored
  /\ phase # "down" =>
       /\ \A j \in Stored : mem[j].stage # "absent"
       /\ \A r \in Repo : latest[r] = Newest(r)

(* Whatever the moment of a crash or of a failed save, the files left      *)
(* behind never make Open refuse to start (service.go:98-112 against the   *)
(* order of writes in 208-248 and 307-315).                                *)
ReopenAccepted == \A j \in Stored : Readable(j)

(* A job shown as completed is completed on disk, with a report that has a *)
(* result for every candidate: a restart cannot take the claim back        *)
(* (service.go:235-247).                                                   *)
CompletedIsSaved ==
  \A j \in Job : mem[j].stage = "completed" => disk[j] = mem[j] /\ mem[j].report = 0

(* What the service told a client survives it: a job id handed out is      *)
(* found again after any crash, the same job is the latest one, and what   *)
(* was shown as completed is completed on disk (service.go:82-130,         *)
(* 235-247, 299-318).                                                      *)
TruthOnDisk == RestartKeepsEverything /\ CompletedIsSaved

(* The files of a job that is finished on disk never change again; in      *)
(* particular a refresh does not overwrite the earlier scan                *)
(* (docs/e2e-integration.md:71).                                           *)
FinishedFilesFrozen ==
  [][\A j \in Job : disk[j].stage \in Terminal => disk'[j] = disk[j] /\ scan'[j] = scan[j]]_vars

(* What a client polling a job reads, or would read once the server is up  *)
(* again: a job the files show unfinished is going to be shown failed.     *)
View ==
  [j \in Job |->
     IF phase # "down" THEN mem[j].stage
     ELSE IF disk[j].stage \in Active THEN "failed" ELSE disk[j].stage]

LiveMove ==
  {<<"absent", "queued">>, <<"absent", "completed">>, <<"absent", "failed">>,
   <<"queued", "profiling">>, <<"profiling", "analyzing">>, <<"analyzing", "completed">>}
  \cup (Active \X {"failed"})

Board == INSTANCE JobBoard WITH
  Job <- Job, Unknown <- "absent", Move <- LiveMove, board <- View

(* Across crashes, failed saves and restarts a client sees each job move   *)
(* forward only, and a completed or failed job stay what it is.            *)
ImplementsBoard == Board!Spec

(* Every registered job is eventually shown completed or failed.           *)
EveryJobSettles == \A j \in Job : View[j] \in Active ~> View[j] \in Terminal

(* GET /api/analyses: the repositories whose latest record has a report.   *)
Listed == {r \in Repo : latest[r] # NoJob /\ mem[latest[r]].report # NoReport}

(* A repository with a saved analysis is in the list of saved analyses.    *)
SavedAnalysisListed ==
  phase = "serving" =>
    \A j \in Stored : disk[j].report # NoReport => repo[j] \in Listed
=============================================================================

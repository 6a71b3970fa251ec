# Formal models of vulns-news

vulns-news ("とりあーじアナウンサー") finds the public vulnerabilities that concern a
GitHub repository: it pins and profiles the repository, asks OSV (and NVD) about its
dependencies, has a local language model screen and analyze each candidate, and shows
the result as a feed. This directory holds TLA+ models of its stateful parts, the TLC
configurations that check them on small instances, and theorems with proofs checked by
TLAPS for every instance. Paths below are relative to the repository root.

## 1. The system and its parts

| Part | Code | State it keeps | Operations | Model |
|---|---|---|---|---|
| Live service | `server/live/service.go`, `http.go`, `pipeline.go`, `cmd/news-server` | the records of all jobs and the latest per repository (one mutex), a bounded channel, `<job>/record.json` and `<job>/scan.json` | Open, Submit (register, refresh), Import, the worker's run, Close, reads | `LiveService` |
| Scan analysis | `src/scananalyze/run.go`, `src/pipeline`, `cmd/repo-analyze` | a report: one entry per candidate with cached model outputs, counters; a checkpoint file | Run, fresh or resumed; checkpoints | `ScanAnalyze` |
| Scan job manager | `src/scanjob/manager.go` (used by `server/main.go`) | a bounded in-memory job table, a channel, a context per job | Submit, Get, the worker, Close | `ScanJobs` |
| Repository scan and baseline | `src/reposcan`, `cmd/repo-scan` | a report of observed and retained records; the baseline file | Run, RetainEvidence, Changes, Load, Save | `RepoScan` |
| OSV client | `src/osv/client.go`, `discovery.go` | a single-flight cache with two limits, under a mutex; page tokens | Enrich, Query, Advisory, Lookup | `OsvCache` (`client.go`), `OsvDiscovery` (`discovery.go`) |
| NVD client | `src/nvd` | none between calls; pages of a changing result set | Fetch (two), FetchLatest, LookupCVE | `NvdCrawl` (paging) |
| Registration workflow | `src/workflow/repository.go` | none | ProcessRepository: two windows, matching | `NvdCrawl` (windows) |
| Repository acquisition and profile | `src/repository`, `src/sourceinspect` | a temporary checkout | Acquire, Profile, Cleanup | `Collection`, `Profiling` |
| Manifest and lock file parsers | `src/ecosystem` | none | nine walks of one tree; a parser per format | `Profiling` (the walks) |
| Query plan, alias groups, candidates | `src/reposcan/plan.go`, `run.go:86-`, `src/scananalyze/prepare.go` | none | pure functions | `CandidateFacts` |
| Matching, evidence, assessment | `src/matcher`, `src/evidence`, `src/assessment` | none | pure functions | `CandidateFacts` |
| LLM processing | `src/processor`, `src/llm`, `src/pipeline` | none between calls | Screen, Analyze, Process | `CandidateReview` |
| Command line experiments | `cmd/mvp-run`, `cmd/llm-eval` | the result of one run | one loop each | `CandidateReview`, `Collection` (mvp-run) |
| Traversal cache | `src/traversal/cache.go` | shared directory listings and a cursor per descriptor, both capped | ReadDir | `TraversalCache` |
| Frontend state | `frontend/src/composables`, `services/feedApi.ts`, `ApiApp.vue` | the displayed query, its items, the request in flight, registrations, sessionStorage | reload, register, poll, open, route | `FeedClient` |
| Report store | `server/repository/reportstore` | SQLite rows, versions per context | Save, Update, Delete, GetLatest, List | not modelled |
| Scan server's HTTP and subprocess, mock API, presentation | see `PROJECT.json` | none, or outside the process | I/O and pure conversion | not modelled |

How they meet. `news-server` (`main.go`) opens the live service and serves its API. A
worker of the live service calls discovery (acquisition, profile, `reposcan.Run`), saves
the scan, and calls `scananalyze.Run`, whose checkpoint callback publishes and saves the
job's record. `repo-scan` drives `reposcan` from the command line and keeps a baseline
that later monitor runs compare with; `repo-analyze` drives `scananalyze` with a file as
the checkpoint. `mvp-run` clones and profiles a repository, asks NVD for its latest records and
reviews each that matches. `server/main.go` is another API that runs `repo-scan` as a subprocess
under `scanjob.Manager`. The frontend polls either kind of job by its id.

What is hard here:

* interleavings of HTTP handlers and workers around one mutex, with model calls,
  discovery and the write of `scan.json` outside it;
* a channel send under that mutex (`manager.go:128`);
* stops and crashes between any two writes of two files that must agree at the next start;
* saves that fail after the state in memory was changed;
* contexts that end at any moment, read more than once;
* reports that are resumed, and so must be consistent wherever a run was cut short;
* a request made for several callers, whose owner may be canceled;
* descriptors that fall behind what was served from a shared listing;
* answers that arrive after the reader has gone elsewhere, and requests that time out in the
  browser while the server accepts them;
* result sets that change between the pages of one crawl, and batches that shrink while
  their results are told apart by position;
* nine walks over one checkout with nine tables of names and skipped directories;
* alias groups that any order of links has to bring together, and names that one part
  compares bare and another qualified;
* a model that may answer anything, once more after a wrong citation;
* evidence that must outlive runs which could not see it, and a baseline that must
  advance exactly as far as what was printed.

`PROJECT.json` lists each of these under `hazards` at its line, with the properties that
would catch it.

## 2. Modules

    JobBoard        what a client polling a job is promised (abstract)
      ^      ^
      |      '---- LiveService   implements it across crashes, with the files
      |              ^ MCLiveService (symmetry for TLC)   ^ LiveServiceProofs
      '----------- ScanJobs      implements it with a table that forgets
                     ^ ScanJobsProofs
    ScanAnalyze     one analysis, its checkpoints and its resumes
      ^ ScanAnalyzeProofs
    RepoScan        monitor runs and their baseline
      ^ MCRepoScan (symmetry for TLC)     ^ RepoScanProofs
    OsvCache        concurrent calls of Enrich and their cache
      ^ MCOsvCache (values for TLC)       ^ CollectionProofs
    DirStream       what one open directory delivers (abstract)
      ^
    TraversalCache  implements it for many files with one capped listing
      ^ MCTraversalCache (values for TLC)     ^ TraversalCacheProofs
    CandidateFacts  pure functions: plan, report, groups, candidates, matches, assessment
      ^
    CandidateReview one candidate or a list of CVEs under review
      ^ MCCandidateReview (values for TLC)    ^ CandidateReviewProofs
    Profiling       nine walks of a checkout
    NvdCrawl        four ways to page NVD      OsvDiscovery  paged batches at OSV
      ^ (all three)
    Collection      composes them: clone, profile, ask a provider, clean up
      ^ MCCollection (values for TLC)     ^ CollectionProofs
    FeedClient      a browser tab and the service it talks to
      ^ MCFeedClient (values for TLC)         ^ FeedClientProofs

Comments that begin with "Mutant" mark operators that no specification uses: each is
the definition that follows it, or one near it, with a plausible bug, and
`PROJECT.json` names the property that tells the two apart.

### ScanJobs (`src/scanjob/manager.go`)

One action per stretch of code between two points where another goroutine can act.
`SubmitAdmit` and `SubmitSend` are the two halves of Submit: the mutex is held between
them, and `MutexFree` keeps everybody who needs it out, while `Receive`, which does not,
may run. `JudgeDeadline` and `JudgeRest` are the two reads of the job's context in the
worker's switch; a deadline may pass between them though the mutex is held. `CloseSweep`
is Close after its wait, over the map in any order (a bijection onto the next sequence
numbers). `View` is what Get answers, "forgotten" for an evicted id.

### LiveService (`server/live/service.go`)

A record is its stage and its report; a report is the number of candidates that have no
result yet, so 0 is `Report.Complete`. A change in memory and its save happen under one
mutex and are one action with `saved` free: a failed save leaves the old file
(`save` writes a temporary file and renames it). `Open` is enabled only when every stored
record passes its validation, `OpenFails` leaves some of the interrupted records marked,
`Crash` and `Exit` drop everything but `disk` and `scan`. `Import` runs between Open and
the first request, as main calls it. A refresh has two critical sections, as in the code:
`RefreshRead` reads the record of a repository and lets go of the mutex, and `SubmitReuse` or
`SubmitNew` with that record, or `RefreshRefused`, is Submit under the mutex again. `refreshing`
holds the records that refreshes have read and not submitted; any number of them may have read
the same one, so that going on need not be the last (`OneGoesOn`), and between the two a job may
end, another refresh or a registration may submit, or the service close. The steps of the
analysis are those of `scananalyze.Run` seen through its checkpoint callback.

### ScanAnalyze (`src/scananalyze/run.go`)

The steps are those at which the outside world can act: a context that ends (`Cancel`),
a model that answers, fails or gives up (`AnswerFails`), a feed that cannot be built from the
answers (`FeedFails`), a checkpoint that fails, a crash. `Begin`
resumes whenever there is a file, as `repo-analyze` insists (`checkOutput`), and only a
file that passes `ValidReport`, the translation of `validateResume` and `validateEntry`.
"processing" is `pipeline.Process` between two model calls; the cache answers without a
step.

### RepoScan (`src/reposcan`, `cmd/repo-scan`)

One process after another works on one baseline. `Query` and `Enrich` choose the
providers' answers freely; `RetainEvidence`, `Changes`, `NvdAbsences` and `ValidState`
are translations of the functions of these names. The changes are those of the records of both
sources and of the package query's result (`QueryResult`: its completeness, ids and matches).
`Emit`, the output, comes before `Save`, and `Fail` or a crash may come between.

### OsvCache (`src/osv/client.go`)

`cache` holds what a `cachedQuery` can be: in flight, a body, or a failure. `Own` and
`Wait` are the two ways out of the first critical section of `cachedResponse`, `Fetched`
is the second, in which the owner's own context is looked at first, then the byte budget,
then the entry is taken out if it was canceled and its channel closed. A waiter keeps the
entry in hand when it leaves the map, so closing the channel gives it the outcome
(`got`), not the map. `evidence` is a history variable: which bodies successful calls
used. The service may answer each request differently.

### TraversalCache (`src/traversal/cache.go`)

One action per path through `ReadDir`: around the cache, a failing Stat, an answer from
the cache alone, a failure while the descriptor catches up, and a read. `offset` is the
position of the real descriptor, which the code sees only through its own count
(`physical`). The batches of the catch-up loop are one read. DirStream is the contract of
`os.File.ReadDir` for one file; the position of a file is its cursor, or its descriptor's
while it has none.

### CandidateFacts and CandidateReview (`src/reposcan`, `src/scananalyze/prepare.go`, `src/matcher`, `src/evidence`, `src/assessment`, `src/processor`, `cmd/mvp-run`)

CandidateFacts has no state: each operator is a function of the code. `Plan`, `Report` and
`GroupRecords` lead from components and OSV's answer to alias groups (`Unite` and `Roots`
are the union-find of `groupRecords`, links in any order), `Prepare` from the groups to
candidates, `Match` and `Build` from a CVE of NVD to one, `ValidInput` is what the
processor accepts, and `Presence`, `Version` and the two verdicts over them are levels 1 and 2 of
`assessment.Assess`. A name is the sequence of its parts, so that a namespace is a prefix.

CandidateReview takes either a scan (`Take`: any sound entry may be under review; the loop over
them is ScanAnalyze) or a list of CVEs, mvp-run's loop, whose early exits are one action each;
`MatchFails` is one the loop has for any matcher, while the evaluator of versions that the command
passes never fails. A review is Screen, perhaps Analyze, and Publish. The model answers any
combination of known and unknown ids; `ScreenVerdict` and `AnalysisVerdict` say what the processor
makes of it, `Reject` is the one retry of a rejected citation. `EveryHitPrepared` is told without
`Plan`, `Report` or the union-find: `Family` is the least set closed under the aliases.

### Collection, Profiling, NvdCrawl, OsvDiscovery (`src/repository`, `src/ecosystem`, `src/sourceinspect`, `src/nvd`, `src/osv/discovery.go`, `src/workflow`)

Profiling describes each walk by its table: the names it reads, the directories it skips,
its depth limit, what that counts, and whether it tells of symbolic links; the manifest walk also
tells of Cargo's configuration (`Configs`). A tree is a set of leaves with a path, a kind and what
the parser would say. NvdCrawl has one step per
request, with everything the caller makes of the answer; between requests `Add`, `Withdraw`
and `Modify` change the database. The modes are the four crawls of the code; they share only
what they share there. OsvDiscovery keeps the batch as the list of queries that are still
open, as the code does. Collection starts with a clone, or with a crawl alone, and the
context may end anywhere; the profilers do not look at it.

### FeedClient (`frontend/src`, `server/live/http.go`)

One step is one answer with the synchronous code it runs, the watchers (`flush: 'sync'`)
included: `Becomes` reloads feed and detail when what they watch changes. `needsRegistration`
is a computed value over registrations that do not tell it of a change, so it is kept in
`app.missing` and computed where the code makes Vue compute it: when `registrationVersion` is
bumped (`Bumped`) and when `repositoryUrl` changes (`Moved`). A registration that was abandoned
and then answered is therefore known while its article page still says "not found". An abort drops
calls that wait for an answer; a call that has its result (`settled`) still arrives, which
is what `Current` is for. `post` is a registration request, sent and accepted separately, so
that its answer may be lost after the server took it; `posts` and `lost` are history.
`Checkpoint`, `Ends` and `Replaced` are what workers, imports and other clients do.

## 3. What the runs check

| Run | Bounds | Shows |
|---|---|---|
| `scan_jobs` | 3 jobs, 2 workers, capacity 2 | the send never waits, each unfinished job is claimed exactly once, the table is consistent, JobBoard is implemented, each job ends |
| `scan_jobs_timeout` | 2 jobs, 1 worker, capacity 1 | counterexample: a timeout recorded as a cancellation |
| `live_service` | 2 repositories, 3 jobs, 2 workers, capacity 2, 1 candidate | every unfinished job is the latest of its repository and with exactly one of channel, sender and workers; what clients were told is on disk; restarts are never refused; finished files are frozen; JobBoard is implemented |
| `live_service_liveness` | 1 repository, 2 jobs, 1 worker, 2 candidates | each registered job ends |
| `live_service_catalog` | 1 repository, 2 jobs, 1 worker | counterexample: a refresh hides a saved analysis |
| `scan_analyze` | 3 candidates | every exit is consistent and resumable, outputs are asked for once and kept, a result says what failed and claims only what is saved, every run returns |
| `repo_scan` | 2 advisories, 2 CVEs, 2 versions, symmetric | reports can be saved and loaded, the baseline advances over what was printed and forgets on authority only |
| `osv_cache` | 2 callers, 3 queries, 2 cache entries, 3 bytes, 2 results, 2 queries a call | one request per query at a time, one evidence per query, budgets kept, no cancellation cached, every call returns |
| `traversal_cache` | 4 files, 3 directories, 2 names, 4 entries, 3 cursors, batches of 1, 2 and all | each file is served as its own descriptor would have served it, limits kept, complete means whole |
| `candidate_review` | scans of 2 advisories over 3 sets of components, lists of up to 3 CVEs, 4 evidence items, answers citing 2 ids a list | each affected version reaches one candidate with all its aliases, an assessment claims no more than the facts, published outputs pass their own checks, no CVE is lost, each review ends |
| `collection` | checkouts of 2 files, depth limits 4 and 2, 5 databases, 3 records wanted, 3 changes, pages of 2, windows of 1, 6 requests, OSV lists of 3 queries in batches of 2, 3 pages | each known file is read once or told of, a successful crawl skips nothing that stayed, a query's result is its own, everything ends without a checkout left |
| `feed_client` | 1 repository with 2 refs, 3 articles, pages of 1, 2 job checks, 2 calls at once, 4 moves | what is shown belongs where it is, one registration, no article lost from a growing list, spinners stop |

Why the bounds are enough. In ScanJobs a third job is what forces an eviction with two slots, and
two workers what lets one hold a job while another settles. In LiveService two jobs run at once
for two repositories and the third is a refresh of either, which two refreshes may ask for that
read the same record; a refresh is not begun when no job id is left for it. Repositories and
workers are interchangeable there: no property of the run names one. More candidates only repeat
the same checkpoint. In ScanAnalyze three candidates give a finished one before and an untouched
one after the one in progress, and every limit and every set of unprepared candidates is an
initial state. In RepoScan two CVEs allow mixed NVD answers and an alias that moves, two
advisories share a CVE, and two versions make a modification; the number of runs is not bounded.
In OsvCache three queries meet two entries, two large bodies exceed the bytes and the results, and
one caller owns while the other waits; the number of calls is not bounded. In TraversalCache two
files share a listing, a third finds its directory replaced, and the listings together exceed the
entries as the files exceed the cursors. In CandidateReview two advisories can share a CVE, name
each other, or share nothing, which gives groups of one and of two links; the components are one
package twice, a scoped package of the same bare name, two components with one id, an unpinned one
and one of an unsupported ecosystem. In Collection the second file is what makes two walks meet (a
redirecting Cargo manifest, a lock file under `target`, a Go file too many); three records wanted
in pages of two let a page shift while it is read; two changes are enough to hide one behind the
other, which is the exception `NoStableSkipped` names, and a third to read one record in two
versions; three queries make two batches, and four pages exceed the limit. In FeedClient four
moves are what an abandoned form, a second submission and a reload need; two pages let a list grow
between them. The bounds themselves are the constants `Job`, `MaxJobs`, `Candidates`, `N`,
`Advisory`, `Cve`, `Version`, `Query`, `Caller`, `Body`, `File`, `Snapshots`, `Batches`,
`MaxCites`, `Trees`, `Databases`, `MaxChanges`, `Catalogs`, `Article`, `MaxMoves`, `MaxReads` and
the limits of the code itself, made small: 1000 evidence items, depths 64 and 32, 512 Go files,
pages of 200, windows of 7 days and 128 requests at NVD, batches and pages of 100 at OSV, 60 job
checks, and the `Max...` and `...Limit` of the two caches, which are 100 queries and 8 MiB, and
100,000 entries and cursors, in the code.

Deadlock is checked in every run. ScanJobs says by `Terminated` that a closed manager does nothing
more, CandidateReview and Collection by `Done` that a program has ended, and FeedClient by `Rest`
that the tab waits for its reader; the other systems can always be started or called again.

### Fairness

* Workers are weakly fair: goroutines that can run do run. This includes that a scan, a
  discovery and a model call return. `Scanner` promises it (`manager.go:36`), discovery
  has a 15 minute deadline (`pipeline.go:26`), and a model call ends with its context or
  with the endpoint; the service sets no deadline of its own for it
  (`cmd/news-server/main.go:44`), so here it is an assumption about the endpoint.
* A call of Enrich is weakly fair: goroutines run, and each request carries the context
  of its Enrich, which has a deadline of 30 seconds (`client.go:200`). Callers do not have
  to cancel.
* CandidateReview and Collection are weakly fair as a whole: a sequential program goes on by
  itself. git runs with a deadline (`acquisition.go`); the clients of OSV and NVD have timeouts
  of 30 seconds by default, and so has the model's in `mvp-run` (`main.go:120`, positive by
  `:225`) and in `repo-analyze` (`main.go:102`), where `-request-timeout 0` switches it off. The
  model client of the live service has none (`pipeline.go:59`): that it answers is the
  assumption of the first point. NVD's changes and cancellation are not fair.
* In FeedClient each request is answered or ends with its timer (`feedApi.ts:144`), and timers
  fire. The reader and the service's workers need not do anything.
* TraversalCache is sequential and states no fairness.
* The send in Submit, and Close once the server was told to stop, are weakly fair.
* Nobody has to submit, to send a signal, to start the server again, or to let a
  deadline pass; crashes never have to happen.

`EveryJobSettles` of LiveService holds without restarting because a job that a crash
interrupted is going to be shown as failed by whichever Open comes next; while the server
is down nobody reads anything.

## 4. Findings

1. `src/scanjob/manager.go:164`: the worker reads the job's context twice. A deadline
   that passes between the reads is recorded as "canceled", which the tests and comments
   keep for a stopped server (`manager_test.go:124-125`). Run `scan_jobs_timeout`.
2. `server/live/http.go:57`: the list of saved analyses skips a repository whose latest
   record has no report, so a refresh hides the earlier analysis, for good when the
   refresh fails early; the comment at line 42 and `docs/e2e-integration.md:79` say it
   lists the latest saved result. Run `live_service_catalog`.

Four things the models show that are not findings, because the code and its documents do not
promise otherwise, or take it back: the source walk enters `.git`, so that a branch whose name
ends in `.go` makes a profile fail (`sourceinspect/inspect.go:188`); a Python lock under `target`
or a virtual environment is listed by one walk and read by none (`repository/profile.go:85`); a
forward crawl misses a record when one before it leaves its window between two pages
(`workflow/repository.go:189`; `docs/local-llm.md:193` has it ask until it has all items of a
window, and lines 189-190 say that NVD's concurrent changes cannot all be detected); and
`Client.Fetch`, which alone does not look at what it already has, returns a CVE twice when one is
added and an older one withdrawn between its pages, so that the total it compares stays the same
(`nvd/client.go:86`). The properties name the last three as exceptions.

## 5. What is proved

The proofs assume only the named assumptions on the constants and hold for any number of
jobs, workers, repositories, candidates, files, advisories and versions. Each inductive invariant
was first checked by TLC on the bounds of the component's run. The type invariants are conjuncts
of properties that a run checks, or are proved as theorems of their own.

**ScanJobsProofs** proves `SendNeverBlocks` and `TableConsistent` of ScanJobs, and its `TypeOK`,
which the proofs rest on. None is inductive. That the channel has room whenever Submit sends needs
that the queued jobs and the one being sent are different unfinished jobs of the table, which has
at most `Capacity` entries (`RoomToSend`); this needs that an eviction takes finished jobs only,
that what workers hold is neither queued nor held twice, and that a job has a finished number
exactly when it has an outcome. `IInv` is the conjunction of these claims; there is one lemma per
action, and `NextPreserves` puts them together. Its second part adds that every unfinished job is
claimed by somebody (`StillClaimed`) and that the claim tells its stage (`StageKnown`): a queued
or just received job is `queued`, one a worker scans is `running`. With the exclusive claims of
`IInv` the first gives `NoStrandedJob`, by counting; the second makes `Start` and the recording of
an outcome moves of JobBoard, and an eviction forgets a job with an outcome, so that
`ImplementsBoard` holds: initial states map to initial states, every step to a step of JobBoard or
a stutter. Of the five properties its main run checks, only the liveness one is not proved.

**LiveServiceProofs** proves all five safety properties of the run `live_service`:
`JobsAccounted`, `TruthOnDisk`, `ReopenAccepted`, `FinishedFilesFrozen` and `ImplementsBoard`.
`IInv` says what memory and files know of each other while the service is up (`Faithful`: a
terminal file is what is in memory, a report in memory has its scan on disk), what any start may
find (`FilesSound`), that the latest record of a repository is the one with the highest id, in
memory and in the files (`LatestKnown`, `Unborn`), that a refresh has read the record of a job
that exists, that queue and workers hold different active jobs and all of them (`QueueClaims`,
`WorkerClaims`, `Claimed`), and how far a worker's analysis has got (`Progress`): a worker that
met no error has a result for each candidate it passed, which is why what it completes has no
missing result. A crash keeps only what `FilesSound`, `Unborn` and `acked` say, and `Open`
restores the rest from it. That the newest of a non-empty set of ids exists is the well-ordering
of the naturals. A job that a crash interrupts changes its view to `failed` at once, which is a
move of JobBoard, and `Open` then shows no change.

**ScanAnalyzeProofs** proves the four safety properties of the run `scan_analyze`. `OnFile`
says that from the first checkpoint on the file and the run agree on each output: an answer is
saved before anything else happens, or the run is over. From this `AskedOnlyForMissing` and
`OutputsKept` follow step by step. `ReturnIsHonest` needs `Loop` (what the loop has passed is
settled) and `SkippedKnown` (an unprepared candidate, which the loop
skips, was counted as a failure before it began). `WellFormed` needs that `Recount` of sound
entries passes `ValidReport`, and that every action leaves its entry sound. The assumption
`NoReportAssumption` says that the absence of a file is not a report.

**TraversalCacheProofs** proves both properties of the run `traversal_cache`: `CacheSound`, and that
TraversalCache implements DirStream for each file. `IInv` adds that a cursor belongs to the
directory its name is cached for and stands inside its listing (`Placed`), and that a file
without a cursor has not been read, or bypasses the cache for good (`Unopened`): cursors are never
given back, a cached directory is never replaced, and a full store stays full. Each of the five
paths through `ReadDir` is then a move of DirStream; the longest argument is the read that first
catches up and then extends a listing, cut at the limit. The lemmas are about pieces of a
sequence and their joints. The assumption on `Content` is that it gives each directory a
sequence.

**FeedClientProofs** proves the three safety properties of the run `feed_client`. `FeedOK` says
that every call of `getFeed` which waits for an answer is the one the view waits for, and asks for
the view's query; a call that has its result may be superseded, and `Current` sorts those out.
`DetailOK` says the same of `getDetail`. What `app.missing` keeps errs on one side only: a page
that does not ask for a registration is of a repository the tab knows. `RegisteredOnce` needs
`Registrations`: whoever is not in sessionStorage has no answer but lost ones, and what is in
sessionStorage the tab knows. `NoSilentLoss` needs what a call read so far to be in the list if
that only grew (`Whole`); with as many different articles as the list has (`Sound`) it is then the
list. A finite set of ranks can be listed in order because counting the ranks before each one is a
bijection (`RanksDiffer`, `Ordered`). Assumed are that the articles are finitely many and the
kinds of value that `Servers` and `Contents` hold.

**RepoScanProofs** proves `TypeOK` and all four properties its run checks. `IInv` says what each
stage of a run knows of its report (`FoundOnly` until the evidence is carried over, then that the
report is valid and that carrying over the same baseline again changes nothing) and that the
baseline on disk is valid and is the one the run loaded. The lemmas are about the code's
functions: `RetainValid` and `RetainIdempotent` on `RetainEvidence`, `ChangesAreTheDifference` on
`Changes`.

**CollectionProofs** proves the four safety properties of the run `osv_cache` and the three of the
run `collection`.

Of OsvCache it proves `TypeOK`, `SingleFlight`, `EvidenceAgrees`, `WithinBudget` and
`CancellationNotCached`, for any callers, queries, bodies and budgets. `IInv` adds to them that
owner and entry in flight determine each other, that a waiter has either an outcome or such an
entry, and that a published body is the one in the cache; a body in the cache is never replaced,
which is why what a call used stays what the others will use. The bytes in use are counted as the
elements of a set (`KeptBytes`, one for each byte of a body in the cache), so that adding a body
is a disjoint union.

`DiscoveryHonest` holds for any catalogs, batch sizes and page limits. `DInv` says for each query
of a list where it stands: one of a later batch has not been asked (`Later`), one of the batch in
hand holds the ids of all pages before its token (`Underway`), every
other is complete or has an error and not both (`Settled`). No query is in two places. What is
complete has therefore had its last page, though the list it was answered from shrank at every
page.

`NoStableSkipped` holds for any databases, changes, page sizes and windows. `CrawlInv` has one
claim per crawl. The two that read once from the end (`SimpleInv`, `TailInv`) rest on the total
that each answer carries: if nothing hides a change behind another (`Unseen`), an answer with the
total of the probe was given by a database from which nothing came or went, so that what was read
is what lies past the position (`ReadFromEnd`). `LatestInv` says that all windows passed are read
(`Passed`) and, of the window being read, that the count tells the same and that the probe is its
first page still (`Reading`), which is why the code may reuse it. A forward crawl compares no
totals; `WindowInv` needs only that no record before its position leaves, and that the second pass
begins with what the first one read. The lemmas are on inserting into, removing from and counting
in a sorted sequence, and on merging a page. Assumed is that a database lists its records in the
order of their publication, as the code reads NVD's answers; and a crawl but the tail one begins
with one that lists each of them once.

`EveryManifestAccounted` holds for any checkouts and limits. The tables of the nine walks share no
name but the two Python locks (`OneOwner`), so that nothing is parsed twice; a walk reaches
whatever has no skipped directory above it (`NothingSkipped`), and all that is skipped is in the
union of the tables, so that a known file among the sources is met by its owner, which parses it
or warns of it; a Cargo configuration is in no table, and the manifest walk reaches it the same
way. `ProfileInv` adds that the fragments are those of the walks run so far, in their
order and of one checkout. `CollectionAssumption` says that no two leaves have one path.

**CandidateReviewProofs** proves all four safety properties of the run `candidate_review`.
`AssessedHonestly` is about the inputs alone: `ScanHonest` and `MatchHonest` follow a sound entry
of `Prepare`, and an input of `Match`, through `Presence`, `Version` and the two levels of
`Assess`; the invariant only has to know that a review keeps the input it took (`EntriesSound`,
`Reviewed`). `OutputsRevalidate` needs what each stage knows of the answers before it: an analysis
is under way only for an input that is valid and a screening that passed its checks, which are
those of the checkpoint. `NothingDropped` needs that the books balance while a CVE is under review
as well (`Accounted`): it is the one at the head of the list, has its row and is in no other
count. The lemmas `RowBooked`, `MatchBooked`, `ErrorBooked` and `VerdictBooked` say what each kind
of booking changes. Assumed are finite sets of components and that lists are sequences. The
evidence of an entry is a `FlattenSeq`, a recursive function: that it holds the elements of its
parts and nothing else (`Flattened`) is argued from the shortest list of parts for which it would
not.

`EveryHitPrepared` is the correctness of the union-find. Its parents are always a forest
(`Rooted`: a rank falls on the way from an id to its parent, so that each has one root), and after
each link the ids with one root are exactly those that the links so far tie together (`Ties`:
every link is inside a class, and no set closed under the links cuts one). The links come in any
order, as Go's maps do. That the last forest has `Family` for its classes is then the meaning of
the least closed set; the rest follows a record from `Plan` through `Report` and `GroupRecords` to
the entry `Prepare` makes of its group. `AnswersAssumption` says that the answer has finitely many
advisories with an id each.

Every safety property of a passing run, invariant or action property, is stated by a theorem. What
recursive functions and folds compute for every input is within reach only by an argument about
sets: the induction theorems of the library need an operator as a parameter, which the provers
cannot instantiate. So a claim about each number, sequence or subset is made as "the set of those
it holds for is everything", from the least element of its complement (`UpTo`, `Flattened`,
`FoldExists`, which turns a fold over a finite set into a function that satisfies its equation).

Model-checked only: liveness, since TLAPS does not reason about fairness and ENABLED:
`EveryJobSettles` of ScanJobs and LiveService, `EveryRunReturns`, `EveryEnrichEnds`, `ReviewEnds`,
`CollectionEnds` and `EverythingSettles`.

## 6. What the models leave out

* The wall clock: the models assume that it does not step back. The code compares times
  without their monotonic part (`service.go:127`, `run.go:155` and `:300`,
  `state.go:28`).
* Power failures: a crash is the end of the process, which keeps what was renamed.
* Two processes on one file or one data directory, which the code's comments exclude
  (`state.go:226`, the `-data` flag of `news-server`).
* Contents: texts, scores, hashes, model inputs and outputs, feed items. A file edited by
  hand is not a state of the models.
* In OsvCache, which results of a body concern the vulnerability, and the ambiguous names
  that are left out: a function of the profile and of the bodies used.
* In TraversalCache, changes of a directory that is being read, which the package comment
  excludes, and concurrent calls, likewise.
* In CandidateReview, CPEs, vendors, containers and infrastructure, which no profiler produces, so
  that the matcher's three reasons for a product are one; the wording and the scores of an item;
  prompts.
* In Profiling, what a parser makes of a file it accepts, sizes and the limits on them, special
  files, and the languages of a checkout. So is which dependencies of a Python or Cargo manifest
  are told of, instead of attributed to a registry, because Python sources or a Cargo
  configuration are present (`manifestextra/profile.go:99-104`, `:163`, `parse.go`).
* In NvdCrawl, the waits between requests and the conversion of a record (`normalize.go`);
  in OsvDiscovery, the limit on the bytes of an answer, which is one of its failures.
* In FeedClient, filters and the split view, which are computed from what was read, a
  sessionStorage that fails, and the library of reports (`useReportLibrary.ts`). `NoSilentLoss`
  is about lists that only grew between two pages: a list that also shrank may hide an article.
* The report store: each operation is one SQLite transaction, and the database would be
  external; no other part of the program uses it. The scan server's HTTP and subprocess: what
  the job manager needs of them is ScanJobs' fairness.
* In RepoScan, more than one package query: the completeness of a report is the
  conjunction over its queries, and `query_changed` is told of each by itself. Of a match only
  the record it names is kept, not its outcome and fixed versions. A query the older report
  alone has (`changes.go:133-138`) does not occur: a monitor run plans from the profile it loaded.

## 7. Plan

Modelled so far is what the plan named first; what remains is worth less, in this order:

1. `AnalysisRun`, an abstraction of ScanAnalyze by the number of missing results, to
   which ScanAnalyze is refined and which LiveService's checkpoints are steps of.
2. A wall clock in LiveService and ScanAnalyze.
3. `ReportStore` against a simple specification.

Every safety property that a run checks is proved. A theorem that remains to be stated is the
refinement of ScanAnalyze to `AnalysisRun`, once that module is there.

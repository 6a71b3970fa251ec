------------------------------ MODULE ScanJobs ------------------------------
(***************************************************************************)
(* src/scanjob/manager.go: the bounded, in-memory job table of the scan    *)
(* server.  Submit admits a job under the mutex and sends it to a buffered *)
(* channel while still holding the mutex; workers receive without it, scan *)
(* without it, and take it again to record the outcome.  Every job carries *)
(* a context whose deadline runs from the submission.                      *)
(*                                                                         *)
(* Abstracted: request contents, error texts, and the summary of a scan    *)
(* (only whether the scanner returned an error matters).  A job id is      *)
(* rand.Text and never reused.  Get only reads: `board` is what it reads.  *)
(* Refused submissions (closed, or full of unfinished jobs) change nothing *)
(* and are left out.                                                       *)
(***************************************************************************)
EXTENDS Naturals, Sequences, FiniteSets, Functions

CONSTANTS
  Job,       \* job ids; finitely many are submitted in one run
  Worker,    \* worker goroutines
  Capacity,  \* jobs retained, and the size of the channel
  NoJob

ASSUME ScanJobsAssumption ==
  /\ IsFiniteSet(Worker)
  /\ Worker # {}
  /\ Capacity \in Nat
  /\ Cardinality(Worker) <= Capacity   \* New rejects capacity < workers
  /\ NoJob \notin Job

VARIABLES
  jobs,      \* Manager.jobs: the ids in the table
  state,     \* entry.job.State
  finished,  \* entry.finished: 0 until the job has an outcome
  sequence,  \* Manager.sequence: the last value given to `finished`
  ctx,       \* the entry's context: live, past its deadline, or canceled
  queue,     \* Manager.queue
  sending,   \* the job Submit is sending while it holds the mutex
  pc,        \* where each worker is
  hold,      \* the entry each worker received
  failure,   \* whether the scanner returned an error to the worker
  stopped,   \* Manager.ctx is canceled (a signal, or Close)
  closed     \* Close has returned

vars == <<jobs, state, finished, sequence, ctx, queue, sending, pc, hold,
          failure, stopped, closed>>

workerVars == <<pc, hold, failure>>

Unfinished == {"queued", "running"}
Final      == {"succeeded", "failed", "canceled"}

TypeOK ==
  /\ jobs \in SUBSET Job
  /\ state \in [Job -> {"new"} \cup Unfinished \cup Final]
  /\ finished \in [Job -> Nat]
  /\ sequence \in Nat
  /\ ctx \in [Job -> {"live", "expired", "canceled"}]
  /\ queue \in Seq(Job)
  /\ sending \in Job \cup {NoJob}
  /\ pc \in [Worker -> {"idle", "received", "scanning", "judging", "settling", "exited"}]
  /\ hold \in [Worker -> Job \cup {NoJob}]
  /\ failure \in [Worker -> BOOLEAN]
  /\ stopped \in BOOLEAN
  /\ closed \in BOOLEAN

Init ==
  /\ jobs = {}
  /\ state = [j \in Job |-> "new"]
  /\ finished = [j \in Job |-> 0]
  /\ sequence = 0
  /\ ctx = [j \in Job |-> "live"]
  /\ queue = <<>>
  /\ sending = NoJob
  /\ pc = [w \in Worker |-> "idle"]
  /\ hold = [w \in Worker |-> NoJob]
  /\ failure = [w \in Worker |-> FALSE]
  /\ stopped = FALSE
  /\ closed = FALSE

-----------------------------------------------------------------------------
(* The mutex.  Only two holders keep it across a step of somebody else:    *)
(* Submit at its channel send, and a worker between its two reads of the   *)
(* job's context.                                                          *)
MutexFree == sending = NoJob /\ \A w \in Worker : pc[w] # "settling"

Cancel(context) == IF context = "live" THEN "canceled" ELSE context

-----------------------------------------------------------------------------
(* Submit.                                                                 *)

(* Mutant of Oldest: the check for a finished entry is dropped.            *)
OldestOrActive(e) ==
  e \in jobs /\ \A other \in jobs : finished[e] <= finished[other]

(* The finished job a full table gives up: the one that finished first.    *)
Oldest(e) ==
  /\ e \in jobs
  /\ finished[e] # 0
  /\ \A other \in jobs : finished[other] # 0 => finished[e] <= finished[other]

(* Mutant of Room: the capacity check admits one entry too many.           *)
RoomForOneMore(kept) ==
  \/ Cardinality(jobs) <= Capacity /\ kept = jobs
  \/ /\ Cardinality(jobs) > Capacity
     /\ \E e \in jobs : Oldest(e) /\ kept = jobs \ {e}

(* The table a new entry is added to: as it is, or without the oldest      *)
(* finished entry once the table is full.                                  *)
Room(kept) ==
  \/ Cardinality(jobs) < Capacity /\ kept = jobs
  \/ /\ Cardinality(jobs) >= Capacity
     /\ \E e \in jobs : Oldest(e) /\ kept = jobs \ {e}

SubmitAdmit(j) ==
  /\ MutexFree
  /\ ~stopped
  /\ state[j] = "new"
  /\ \E kept \in SUBSET jobs : Room(kept) /\ jobs' = kept \cup {j}
  /\ state' = [state EXCEPT ![j] = "queued"]
  /\ sending' = j
  /\ UNCHANGED <<finished, sequence, ctx, queue, workerVars, stopped, closed>>

SubmitSend ==
  /\ sending # NoJob
  /\ Len(queue) < Capacity
  /\ queue' = Append(queue, sending)
  /\ sending' = NoJob
  /\ UNCHANGED <<jobs, state, finished, sequence, ctx, workerVars, stopped, closed>>

-----------------------------------------------------------------------------
(* A worker.                                                               *)

Receive(w) ==
  /\ pc[w] = "idle"
  /\ queue # <<>>
  /\ hold' = [hold EXCEPT ![w] = Head(queue)]
  /\ queue' = Tail(queue)
  /\ pc' = [pc EXCEPT ![w] = "received"]
  /\ UNCHANGED <<jobs, state, finished, sequence, ctx, sending, failure, stopped, closed>>

Start(w) ==
  /\ pc[w] = "received"
  /\ MutexFree
  /\ state' = [state EXCEPT ![hold[w]] = "running"]
  /\ pc' = [pc EXCEPT ![w] = "scanning"]
  /\ UNCHANGED <<jobs, finished, sequence, ctx, queue, sending, hold, failure, stopped, closed>>

(* The scan is skipped when the context is already done; the nil error of  *)
(* a skipped scan is one of the two outcomes.                              *)
Scan(w) ==
  /\ pc[w] = "scanning"
  /\ \E failed \in BOOLEAN : failure' = [failure EXCEPT ![w] = failed]
  /\ pc' = [pc EXCEPT ![w] = "judging"]
  /\ UNCHANGED <<jobs, state, finished, sequence, ctx, queue, sending, hold, stopped, closed>>

(* Recording an outcome: the state, its place in the order of completion,  *)
(* and the release of the context.                                         *)
Settle(w, outcome) ==
  LET j == hold[w] IN
  /\ state' = [state EXCEPT ![j] = outcome]
  /\ sequence' = sequence + 1
  /\ finished' = [finished EXCEPT ![j] = sequence + 1]
  /\ ctx' = [ctx EXCEPT ![j] = Cancel(@)]
  /\ hold' = [hold EXCEPT ![w] = NoJob]
  /\ pc' = [pc EXCEPT ![w] = "idle"]

(* The first read of the context: is the deadline what ended it?           *)
JudgeDeadline(w) ==
  /\ pc[w] = "judging"
  /\ MutexFree
  /\ \/ ctx[hold[w]] = "expired" /\ Settle(w, "failed")
     \/ /\ ctx[hold[w]] # "expired"
        /\ pc' = [pc EXCEPT ![w] = "settling"]
        /\ UNCHANGED <<state, sequence, finished, ctx, hold>>
  /\ UNCHANGED <<jobs, queue, sending, failure, stopped, closed>>

(* The second read, still under the mutex: is it done at all?  The         *)
(* deadline may have passed since the first.                               *)
JudgeRest(w) ==
  /\ pc[w] = "settling"
  /\ \/ ctx[hold[w]] # "live" /\ Settle(w, "canceled")
     \/ ctx[hold[w]] = "live" /\ failure[w] /\ Settle(w, "failed")
     \/ ctx[hold[w]] = "live" /\ ~failure[w] /\ Settle(w, "succeeded")
  /\ UNCHANGED <<jobs, queue, sending, failure, stopped, closed>>

Exit(w) ==
  /\ pc[w] = "idle"
  /\ stopped
  /\ pc' = [pc EXCEPT ![w] = "exited"]
  /\ UNCHANGED <<jobs, state, finished, sequence, ctx, queue, sending, hold, failure, stopped, closed>>

-----------------------------------------------------------------------------
(* Time, shutdown, and the end.                                            *)

(* The deadline of a job passes: it runs from the submission, queued or not. *)
Expire(j) ==
  /\ state[j] \in Unfinished
  /\ ctx[j] = "live"
  /\ ctx' = [ctx EXCEPT ![j] = "expired"]
  /\ UNCHANGED <<jobs, state, finished, sequence, queue, sending, workerVars, stopped, closed>>

(* A signal or Close cancels the manager's context, and so every job's.    *)
Stop ==
  /\ ~stopped
  /\ stopped' = TRUE
  /\ ctx' = [j \in Job |-> Cancel(ctx[j])]
  /\ UNCHANGED <<jobs, state, finished, sequence, queue, sending, workerVars, closed>>

(* Mutants of Leftover: only the jobs a worker had started, or all of them.*)
LeftoverRunning == {j \in jobs : state[j] = "running"}
LeftoverAll == jobs

(* What Close still finds unfinished once every worker is gone.            *)
Leftover == {j \in jobs : finished[j] = 0}

(* Close after its wait: the map is ranged over in any order.              *)
CloseSweep ==
  /\ stopped
  /\ ~closed
  /\ \A w \in Worker : pc[w] = "exited"
  /\ MutexFree
  /\ state' = [j \in Job |-> IF j \in Leftover THEN "canceled" ELSE state[j]]
  /\ sequence' = sequence + Cardinality(Leftover)
  /\ \E order \in Bijection(Leftover, sequence + 1 .. sequence + Cardinality(Leftover)) :
       finished' = [j \in Job |-> IF j \in Leftover THEN order[j] ELSE finished[j]]
  /\ ctx' = [j \in Job |-> IF j \in jobs THEN Cancel(ctx[j]) ELSE ctx[j]]
  /\ closed' = TRUE
  /\ UNCHANGED <<jobs, queue, sending, workerVars, stopped>>

(* After Close nothing happens any more.                                   *)
Terminated == closed /\ UNCHANGED vars

WorkerStep(w) ==
  \/ Receive(w) \/ Start(w) \/ Scan(w)
  \/ JudgeDeadline(w) \/ JudgeRest(w) \/ Exit(w)

Next ==
  \/ \E j \in Job : SubmitAdmit(j) \/ Expire(j)
  \/ SubmitSend
  \/ \E w \in Worker : WorkerStep(w)
  \/ Stop
  \/ CloseSweep
  \/ Terminated

(* Workers run; a scanner returns (its contract: it honors its context,    *)
(* and the context has a deadline); a send that can proceed proceeds; and  *)
(* a stopped server calls Close.  Nobody has to submit, to stop the server *)
(* or to let a deadline pass.                                              *)
Fairness ==
  /\ \A w \in Worker : WF_vars(WorkerStep(w))
  /\ WF_vars(SubmitSend)
  /\ WF_vars(CloseSweep)

Spec == Init /\ [][Next]_vars /\ Fairness

-----------------------------------------------------------------------------
(* Properties.                                                             *)

(* Submit sends to the channel while it holds the mutex every worker needs *)
(* to make progress, so the send must never have to wait: whenever Submit  *)
(* has admitted a job, the channel has room (manager.go:125-128).          *)
SendNeverBlocks == sending # NoJob => Len(queue) < Capacity

(* Where an unfinished job waits for its next step: each is one claim.     *)
Queued(j)  == {i \in DOMAIN queue : queue[i] = j}
Holders(j) == {w \in Worker : hold[w] = j}

(* Until Close sweeps, every unfinished job of the table is claimed exactly*)
(* once - by Submit, by one place of the channel or by one worker - and a  *)
(* job that is claimed is never evicted: no job is lost, scanned twice or  *)
(* forgotten while it runs (manager.go:112-128, 147-181).                  *)
NoStrandedJob ==
  ~closed =>
    \A j \in Job :
      Cardinality(Queued(j)) + Cardinality(Holders(j)) + (IF sending = j THEN 1 ELSE 0)
        = IF j \in jobs /\ finished[j] = 0 THEN 1 ELSE 0

(* The table never outgrows its capacity, an outcome and a finished number *)
(* come together, and after Close no job of the table is left unfinished,  *)
(* the ones no worker ever received included (manager.go:186-200).         *)
TableConsistent ==
  /\ Cardinality(jobs) <= Capacity
  /\ \A j \in jobs : finished[j] # 0 <=> state[j] \in Final
  /\ closed => \A j \in jobs : state[j] \in Final

(* What Get answers.                                                       *)
View == [j \in Job |-> IF state[j] # "new" /\ j \notin jobs THEN "forgotten" ELSE state[j]]

ScanMove ==
  {<<"new", "queued">>, <<"queued", "running">>, <<"queued", "canceled">>}
  \cup ({"running"} \X Final)
  \cup (Final \X {"forgotten"})

Board == INSTANCE JobBoard WITH
  Job <- Job, Unknown <- "new", Move <- ScanMove, board <- View

(* Clients see each job run at most once, from queued through running to   *)
(* one outcome that never changes, and forgotten only after it.            *)
ImplementsBoard == Board!Spec

(* Every accepted job gets an outcome, also when the server stops with the *)
(* job still in the channel.                                               *)
EveryJobSettles ==
  \A j \in Job : state[j] \in Unfinished ~> state[j] \in Final

(* A job is reported canceled only when the manager was stopped; a job     *)
(* that ran out of time is reported failed.                                *)
CanceledMeansStopped == \A j \in Job : state[j] = "canceled" => stopped
=============================================================================

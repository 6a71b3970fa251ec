--------------------------- MODULE ScanJobsProofs ---------------------------
(***************************************************************************)
(* The safety of ScanJobs for any set of jobs, workers and any capacity:   *)
(* types, the send that never waits, and a table that stays consistent;    *)
(* then that no accepted job is lost or claimed twice, and that what       *)
(* clients read implements the abstract JobBoard.                          *)
(*                                                                         *)
(* The first part (IInv).  None of its three claims is inductive.  That a  *)
(* send never waits rests on the jobs in the channel and the one being     *)
(* sent being different unfinished jobs of a table of at most Capacity     *)
(* entries; that in turn rests on an eviction taking finished jobs only,   *)
(* on workers holding different jobs, and on a job having a finished       *)
(* number exactly when it has an outcome.                                  *)
(***************************************************************************)
EXTENDS ScanJobs, TLAPS, FiniteSetTheorems, SequenceTheorems

(* A job somebody still has to give an outcome to.                         *)
InPlay(j) == j \in jobs /\ finished[j] = 0

Bounded == IsFiniteSet(jobs) /\ Cardinality(jobs) <= Capacity

NewUntouched == \A j \in Job : state[j] = "new" => j \notin jobs /\ finished[j] = 0

OutcomeNumbered == \A j \in Job : finished[j] # 0 <=> state[j] \in Final

HandsFull == \A w \in Worker : hold[w] = NoJob <=> pc[w] \in {"idle", "exited"}

QueueClaims ==
  ~closed => \A i \in 1 .. Len(queue) :
    /\ InPlay(queue[i])
    /\ queue[i] # sending
    /\ \A k \in 1 .. Len(queue) : queue[k] = queue[i] => k = i

SendClaim == ~closed /\ sending # NoJob => InPlay(sending)

WorkerClaims ==
  ~closed => \A w \in Worker : hold[w] # NoJob =>
    /\ InPlay(hold[w])
    /\ hold[w] # sending
    /\ \A i \in 1 .. Len(queue) : queue[i] # hold[w]
    /\ \A v \in Worker : hold[v] = hold[w] => v = w

Shut ==
  closed => /\ stopped
            /\ sending = NoJob
            /\ \A w \in Worker : pc[w] = "exited"
            /\ \A j \in jobs : state[j] \in Final

IInv ==
  /\ TypeOK
  /\ Bounded
  /\ NewUntouched
  /\ OutcomeNumbered
  /\ HandsFull
  /\ QueueClaims
  /\ SendClaim
  /\ WorkerClaims
  /\ Shut
-----------------------------------------------------------------------------

LEMMA InitEstablishes == Init => IInv
<1> SUFFICES ASSUME Init PROVE IInv
  OBVIOUS
<1>1. Bounded
  BY FS_EmptySet, ScanJobsAssumption DEF Init, Bounded
<1>2. TypeOK
  BY EmptySeq DEF Init, TypeOK
<1>3. NewUntouched /\ OutcomeNumbered /\ HandsFull
  BY DEF Init, NewUntouched, OutcomeNumbered, HandsFull, Final
<1>4. QueueClaims /\ SendClaim /\ WorkerClaims /\ Shut
  BY DEF Init, QueueClaims, SendClaim, WorkerClaims, Shut
<1> QED
  BY <1>1, <1>2, <1>3, <1>4 DEF IInv

-----------------------------------------------------------------------------

(* The table a submission leaves: bounded, the new job in it, and none of  *)
(* the unfinished ones gone.                                               *)
LEMMA RoomBounded ==
  ASSUME Bounded, NEW kept, Room(kept), NEW j, j \notin jobs
  PROVE  /\ kept \subseteq jobs
         /\ IsFiniteSet(kept \cup {j})
         /\ Cardinality(kept \cup {j}) <= Capacity
         /\ \A i \in jobs : finished[i] = 0 => i \in kept
<1>1. Cardinality(jobs) \in Nat /\ Capacity \in Nat
  BY FS_CardinalityType, ScanJobsAssumption DEF Bounded
<1>2. CASE Cardinality(jobs) < Capacity /\ kept = jobs
  <2>1. IsFiniteSet(kept \cup {j}) /\ Cardinality(kept \cup {j}) = Cardinality(jobs) + 1
    BY <1>2, FS_AddElement DEF Bounded
  <2> QED
    BY <1>1, <1>2, <2>1
<1>3. ASSUME Cardinality(jobs) >= Capacity, NEW e \in jobs, Oldest(e), kept = jobs \ {e}
      PROVE  /\ kept \subseteq jobs
             /\ IsFiniteSet(kept \cup {j})
             /\ Cardinality(kept \cup {j}) <= Capacity
             /\ \A i \in jobs : finished[i] = 0 => i \in kept
  <2>1. IsFiniteSet(kept) /\ Cardinality(kept) = Cardinality(jobs) - 1
    BY <1>3, FS_RemoveElement DEF Bounded
  <2>2. j \notin kept
    BY <1>3
  <2>3. IsFiniteSet(kept \cup {j}) /\ Cardinality(kept \cup {j}) = Cardinality(kept) + 1
    BY <2>1, <2>2, FS_AddElement
  <2>4. Cardinality(kept \cup {j}) <= Capacity
    BY <1>1, <2>1, <2>3 DEF Bounded
  <2> QED
    BY <1>3, <2>3, <2>4 DEF Oldest
<1> QED
  BY <1>2, <1>3 DEF Room

LEMMA SubmitAdmitStep ==
  ASSUME IInv, NEW j \in Job, SubmitAdmit(j)
  PROVE  IInv'
<1> USE DEF IInv
<1>1. PICK kept \in SUBSET jobs : Room(kept) /\ jobs' = kept \cup {j}
  BY DEF SubmitAdmit
<1>2. j \notin jobs /\ finished[j] = 0 /\ ~closed /\ ~closed' /\ sending = NoJob /\ j # NoJob
  BY ScanJobsAssumption DEF SubmitAdmit, NewUntouched, Shut, MutexFree
<1>3. /\ IsFiniteSet(jobs')
      /\ Cardinality(jobs') <= Capacity
      /\ \A i \in jobs : finished[i] = 0 => i \in jobs'
  BY <1>1, <1>2, RoomBounded
<1>4. TypeOK'
  BY <1>1 DEF SubmitAdmit, TypeOK, Unfinished, workerVars
<1>5. Bounded'
  BY <1>3 DEF Bounded
<1>6. NewUntouched' /\ OutcomeNumbered' /\ HandsFull'
  BY <1>1, <1>2 DEF SubmitAdmit, TypeOK, NewUntouched, OutcomeNumbered, HandsFull, Final, workerVars
<1>7. \A i \in Job : InPlay(i) => InPlay(i)' /\ i # j
  BY <1>2, <1>3 DEF SubmitAdmit, InPlay
<1>8. QueueClaims'
  <2> SUFFICES ASSUME NEW i \in 1 .. Len(queue)
               PROVE  /\ InPlay(queue[i])'
                      /\ queue[i] # j
                      /\ \A k \in 1 .. Len(queue) : queue[k] = queue[i] => k = i
    BY DEF SubmitAdmit, QueueClaims
  <2>1. queue[i] \in Job
    BY DEF TypeOK
  <2> QED
    BY <1>2, <1>7, <2>1 DEF SubmitAdmit, QueueClaims, InPlay
<1>9. SendClaim'
  BY <1>1, <1>2 DEF SubmitAdmit, SendClaim, InPlay
<1>10. WorkerClaims'
  BY <1>2, <1>7 DEF SubmitAdmit, WorkerClaims, TypeOK, InPlay, workerVars
<1>11. Shut'
  BY <1>2 DEF Shut
<1> QED
  BY <1>4, <1>5, <1>6, <1>8, <1>9, <1>10, <1>11

LEMMA SubmitSendStep ==
  ASSUME IInv, SubmitSend
  PROVE  IInv'
<1> USE DEF IInv
<1>1. sending \in Job /\ ~closed /\ InPlay(sending)
  BY DEF SubmitSend, TypeOK, SendClaim, Shut
<1>2. /\ queue' \in Seq(Job)
      /\ Len(queue') = Len(queue) + 1
      /\ Len(queue) \in Nat
      /\ \A i \in 1 .. Len(queue) : queue'[i] = queue[i]
      /\ queue'[Len(queue) + 1] = sending
  BY <1>1 DEF SubmitSend, TypeOK
<1>3. TypeOK'
  BY <1>2 DEF SubmitSend, TypeOK, workerVars
<1>4. Bounded' /\ NewUntouched' /\ OutcomeNumbered' /\ HandsFull'
  BY DEF SubmitSend, Bounded, NewUntouched, OutcomeNumbered, HandsFull, workerVars
<1>5. SendClaim' /\ Shut'
  BY <1>1 DEF SubmitSend, SendClaim, Shut, workerVars
<1>6. QueueClaims'
  <2> SUFFICES ASSUME NEW i \in 1 .. Len(queue')
               PROVE  /\ InPlay(queue'[i])
                      /\ queue'[i] # NoJob
                      /\ \A k \in 1 .. Len(queue') : queue'[k] = queue'[i] => k = i
    BY DEF SubmitSend, QueueClaims, InPlay
  <2>1. queue'[i] \in Job
    BY <1>2
  <2>2. InPlay(queue'[i])
    BY <1>1, <1>2 DEF QueueClaims
  <2>3. \A k \in 1 .. Len(queue') : queue'[k] = queue'[i] => k = i
    BY <1>1, <1>2 DEF QueueClaims
  <2> QED
    BY <2>1, <2>2, <2>3, ScanJobsAssumption
<1>7. WorkerClaims'
  <2> SUFFICES ASSUME NEW w \in Worker, hold[w] # NoJob
               PROVE  /\ InPlay(hold[w])
                      /\ \A i \in 1 .. Len(queue') : queue'[i] # hold[w]
                      /\ \A v \in Worker : hold[v] = hold[w] => v = w
    BY DEF SubmitSend, WorkerClaims, InPlay, workerVars
  <2> QED
    BY <1>1, <1>2 DEF WorkerClaims
<1> QED
  BY <1>3, <1>4, <1>5, <1>6, <1>7

LEMMA ReceiveStep ==
  ASSUME IInv, NEW w \in Worker, Receive(w)
  PROVE  IInv'
<1> USE DEF IInv
<1>1. ~closed /\ hold[w] = NoJob
  BY DEF Receive, HandsFull, Shut
<1>2. /\ queue' \in Seq(Job)
      /\ Len(queue) \in Nat /\ Len(queue) > 0
      /\ Len(queue') = Len(queue) - 1
      /\ \A i \in 1 .. Len(queue') : queue'[i] = queue[i + 1]
      /\ hold'[w] = queue[1] /\ queue[1] \in Job
      /\ \A v \in Worker : v # w => hold'[v] = hold[v]
  BY DEF Receive, TypeOK
<1>3. TypeOK'
  BY <1>2 DEF Receive, TypeOK
<1>4. Bounded' /\ NewUntouched' /\ OutcomeNumbered'
  BY DEF Receive, Bounded, NewUntouched, OutcomeNumbered
<1>5. HandsFull'
  BY <1>2, ScanJobsAssumption DEF Receive, HandsFull, TypeOK
<1>6. SendClaim' /\ Shut'
  BY <1>1 DEF Receive, SendClaim, Shut, InPlay
<1>7. QueueClaims'
  <2> SUFFICES ASSUME NEW i \in 1 .. Len(queue')
               PROVE  /\ InPlay(queue'[i])
                      /\ queue'[i] # sending
                      /\ \A k \in 1 .. Len(queue') : queue'[k] = queue'[i] => k = i
    BY DEF Receive, QueueClaims, InPlay
  <2>1. i + 1 \in 1 .. Len(queue)
    BY <1>2
  <2> QED
    BY <1>1, <1>2, <2>1 DEF QueueClaims
<1>8. WorkerClaims'
  <2>1. /\ InPlay(queue[1])
        /\ queue[1] # sending
        /\ \A i \in 1 .. Len(queue') : queue'[i] # queue[1]
        /\ \A v \in Worker : hold[v] # queue[1]
    <3>1. 1 \in 1 .. Len(queue) /\ \A i \in 1 .. Len(queue') : i + 1 \in 1 .. Len(queue) /\ i + 1 # 1
      BY <1>2
    <3>2. InPlay(queue[1]) /\ queue[1] # sending
      BY <1>1, <3>1 DEF QueueClaims
    <3>3. \A i \in 1 .. Len(queue') : queue'[i] # queue[1]
      BY <1>1, <1>2, <3>1 DEF QueueClaims
    <3>4. \A v \in Worker : hold[v] # queue[1]
      BY <1>1, <1>2, <3>1, ScanJobsAssumption DEF WorkerClaims
    <3> QED
      BY <3>2, <3>3, <3>4
  <2> SUFFICES ASSUME NEW v \in Worker, hold'[v] # NoJob
               PROVE  /\ InPlay(hold'[v])
                      /\ hold'[v] # sending
                      /\ \A i \in 1 .. Len(queue') : queue'[i] # hold'[v]
                      /\ \A u \in Worker : hold'[u] = hold'[v] => u = v
    BY DEF Receive, WorkerClaims, InPlay
  <2>2. CASE v = w
    BY <1>2, <2>1, <2>2
  <2>3. CASE v # w
    BY <1>1, <1>2, <2>1, <2>3 DEF WorkerClaims
  <2> QED
    BY <2>2, <2>3
<1> QED
  BY <1>3, <1>4, <1>5, <1>6, <1>7, <1>8

LEMMA StartStep ==
  ASSUME IInv, NEW w \in Worker, Start(w)
  PROVE  IInv'
<1> USE DEF IInv
<1>1. ~closed /\ hold[w] \in Job /\ InPlay(hold[w])
  BY DEF Start, HandsFull, Shut, WorkerClaims, TypeOK
<1>2. TypeOK'
  BY DEF Start, TypeOK, Unfinished
<1>3. Bounded' /\ HandsFull'
  BY DEF Start, Bounded, HandsFull, TypeOK
<1>4. NewUntouched' /\ OutcomeNumbered'
  BY <1>1 DEF Start, TypeOK, NewUntouched, OutcomeNumbered, Final, InPlay
<1>5. QueueClaims' /\ SendClaim' /\ WorkerClaims'
  BY DEF Start, QueueClaims, SendClaim, WorkerClaims, InPlay
<1>6. Shut'
  BY <1>1 DEF Start, Shut
<1> QED
  BY <1>2, <1>3, <1>4, <1>5, <1>6

LEMMA ScanStep ==
  ASSUME IInv, NEW w \in Worker, Scan(w)
  PROVE  IInv'
<1> USE DEF IInv
<1>1. TypeOK' /\ Bounded' /\ HandsFull'
  BY DEF Scan, TypeOK, Bounded, HandsFull
<1>2. NewUntouched' /\ OutcomeNumbered'
  BY DEF Scan, NewUntouched, OutcomeNumbered
<1>3. QueueClaims' /\ SendClaim' /\ WorkerClaims' /\ Shut'
  BY DEF Scan, QueueClaims, SendClaim, WorkerClaims, Shut, InPlay
<1> QED
  BY <1>1, <1>2, <1>3

(* Recording an outcome takes the job out of the worker's hands, and no    *)
(* other claim was on it.                                                  *)
LEMMA SettleStep ==
  ASSUME IInv, NEW w \in Worker, NEW outcome \in Final, Settle(w, outcome),
         pc[w] \in {"judging", "settling"},
         UNCHANGED <<jobs, queue, sending, failure, stopped, closed>>
  PROVE  IInv'
<1> USE DEF IInv
<1> DEFINE j == hold[w]
<1>1. ~closed /\ j \in Job /\ InPlay(j) /\ j # sending /\ j # NoJob
  BY DEF HandsFull, Shut, WorkerClaims, TypeOK
<1>2. /\ finished'[j] = sequence + 1
      /\ sequence + 1 # 0
      /\ \A i \in Job : i # j => finished'[i] = finished[i] /\ state'[i] = state[i]
      /\ state'[j] = outcome
  BY <1>1 DEF Settle, TypeOK
<1>3. TypeOK'
  BY <1>1 DEF Settle, TypeOK, Cancel
<1>4. Bounded' /\ HandsFull'
  BY DEF Settle, Bounded, HandsFull, TypeOK
<1>5. NewUntouched' /\ OutcomeNumbered'
  BY <1>1, <1>2 DEF NewUntouched, OutcomeNumbered, Final
<1>6. \A i \in Job : InPlay(i) /\ i # j => InPlay(i)'
  BY <1>2 DEF InPlay
<1>7. QueueClaims'
  <2>1. \A i \in 1 .. Len(queue) : queue[i] \in Job /\ queue[i] # j
    BY <1>1 DEF TypeOK, WorkerClaims
  <2> QED
    BY <1>1, <1>6, <2>1 DEF QueueClaims, InPlay
<1>8. SendClaim'
  BY <1>1, <1>6 DEF SendClaim, TypeOK, InPlay
<1>9. WorkerClaims'
  <2>1. hold'[w] = NoJob /\ \A v \in Worker : v # w => hold'[v] = hold[v]
    BY DEF Settle, TypeOK
  <2>2. \A v \in Worker : v # w => hold[v] # j
    BY <1>1 DEF WorkerClaims
  <2> SUFFICES ASSUME NEW v \in Worker, hold'[v] # NoJob
               PROVE  /\ InPlay(hold[v])'
                      /\ hold'[v] # sending
                      /\ \A i \in 1 .. Len(queue) : queue[i] # hold'[v]
                      /\ \A u \in Worker : hold'[u] = hold'[v] => u = v
    BY DEF WorkerClaims, InPlay
  <2>3. v # w /\ hold[v] \in Job
    BY <2>1 DEF TypeOK
  <2>4. InPlay(hold[v])'
    BY <1>1, <1>6, <2>1, <2>2, <2>3 DEF WorkerClaims, InPlay
  <2> QED
    BY <1>1, <2>1, <2>3, <2>4 DEF WorkerClaims
<1>10. Shut'
  BY <1>1 DEF Shut
<1> QED
  BY <1>3, <1>4, <1>5, <1>7, <1>8, <1>9, <1>10

LEMMA JudgeDeadlineStep ==
  ASSUME IInv, NEW w \in Worker, JudgeDeadline(w)
  PROVE  IInv'
<1>1. CASE Settle(w, "failed")
  BY <1>1, SettleStep DEF JudgeDeadline, Final
<1>2. CASE pc' = [pc EXCEPT ![w] = "settling"] /\ UNCHANGED <<state, sequence, finished, ctx, hold>>
  <2> USE DEF IInv
  <2>1. TypeOK' /\ Bounded' /\ HandsFull'
    BY <1>2 DEF JudgeDeadline, TypeOK, Bounded, HandsFull
  <2>2. NewUntouched' /\ OutcomeNumbered'
    BY <1>2 DEF JudgeDeadline, NewUntouched, OutcomeNumbered
  <2>3. QueueClaims' /\ SendClaim' /\ WorkerClaims'
    BY <1>2 DEF JudgeDeadline, QueueClaims, SendClaim, WorkerClaims, InPlay
  <2>4. Shut'
    BY <1>2 DEF JudgeDeadline, Shut
  <2> QED
    BY <2>1, <2>2, <2>3, <2>4
<1> QED
  BY <1>1, <1>2 DEF JudgeDeadline

LEMMA JudgeRestStep ==
  ASSUME IInv, NEW w \in Worker, JudgeRest(w)
  PROVE  IInv'
BY SettleStep DEF JudgeRest, Final

LEMMA ExitStep ==
  ASSUME IInv, NEW w \in Worker, Exit(w)
  PROVE  IInv'
<1> USE DEF IInv
<1>1. TypeOK' /\ Bounded' /\ HandsFull'
  BY DEF Exit, TypeOK, Bounded, HandsFull
<1>2. NewUntouched' /\ OutcomeNumbered'
  BY DEF Exit, NewUntouched, OutcomeNumbered
<1>3. QueueClaims' /\ SendClaim' /\ WorkerClaims'
  BY DEF Exit, QueueClaims, SendClaim, WorkerClaims, InPlay
<1>4. Shut'
  BY DEF Exit, Shut
<1> QED
  BY <1>1, <1>2, <1>3, <1>4

LEMMA ContextStep ==
  ASSUME IInv, Stop \/ \E j \in Job : Expire(j)
  PROVE  IInv'
<1> USE DEF IInv
<1>1. /\ ctx' \in [Job -> {"live", "expired", "canceled"}]
      /\ stopped' \in BOOLEAN /\ (stopped => stopped')
      /\ UNCHANGED <<jobs, state, finished, sequence, queue, sending, pc, hold, failure, closed>>
  BY DEF Stop, Expire, Cancel, TypeOK, workerVars
<1>2. TypeOK' /\ Bounded' /\ HandsFull'
  BY <1>1 DEF TypeOK, Bounded, HandsFull
<1>3. NewUntouched' /\ OutcomeNumbered'
  BY <1>1 DEF NewUntouched, OutcomeNumbered
<1>4. QueueClaims' /\ SendClaim' /\ WorkerClaims' /\ Shut'
  BY <1>1 DEF QueueClaims, SendClaim, WorkerClaims, Shut, InPlay
<1> QED
  BY <1>2, <1>3, <1>4

(* The sweep gives every job of the table that has none an outcome.        *)
LEMMA CloseSweepStep ==
  ASSUME IInv, CloseSweep
  PROVE  IInv'
<1> USE DEF IInv
<1>1. IsFiniteSet(Leftover) /\ Cardinality(Leftover) \in Nat /\ Leftover \subseteq jobs
  <2>1. Leftover \subseteq jobs
    BY DEF Leftover
  <2>2. IsFiniteSet(Leftover)
    BY <2>1, FS_Subset DEF Bounded
  <2> QED
    BY <2>1, <2>2, FS_CardinalityType
<1>2. PICK order \in Bijection(Leftover, sequence + 1 .. sequence + Cardinality(Leftover)) :
        finished' = [j \in Job |-> IF j \in Leftover THEN order[j] ELSE finished[j]]
  BY DEF CloseSweep
<1>3. \A j \in Leftover : order[j] \in Nat /\ order[j] # 0
  <2>1. order \in [Leftover -> sequence + 1 .. sequence + Cardinality(Leftover)]
    BY <1>2 DEF Bijection, Injection
  <2> QED
    BY <1>1, <2>1 DEF TypeOK
<1>4. TypeOK'
  <2>1. finished' \in [Job -> Nat] /\ sequence' \in Nat
    <3>1. sequence' \in Nat
      BY <1>1 DEF CloseSweep, TypeOK
    <3>2. finished \in [Job -> Nat]
      BY DEF TypeOK
    <3> QED
      BY <1>2, <1>3, <3>1, <3>2
  <2>2. state' \in [Job -> {"new"} \cup Unfinished \cup Final]
    BY DEF CloseSweep, TypeOK, Final
  <2>3. ctx' \in [Job -> {"live", "expired", "canceled"}]
    BY DEF CloseSweep, TypeOK, Cancel
  <2>4. /\ UNCHANGED <<jobs, queue, sending, pc, hold, failure, stopped>>
        /\ closed' = TRUE
    BY DEF CloseSweep, workerVars
  <2> QED
    BY <2>1, <2>2, <2>3, <2>4 DEF TypeOK
<1>5. Bounded' /\ HandsFull'
  BY DEF CloseSweep, Bounded, HandsFull, workerVars
<1>6. NewUntouched' /\ OutcomeNumbered'
  BY <1>1, <1>2, <1>3 DEF CloseSweep, NewUntouched, OutcomeNumbered, Final, TypeOK
<1>7. QueueClaims' /\ SendClaim' /\ WorkerClaims'
  BY DEF CloseSweep, QueueClaims, SendClaim, WorkerClaims
<1>8. Shut'
  <2>1. \A j \in jobs : state'[j] \in Final
    BY DEF CloseSweep, Leftover, OutcomeNumbered, Final, TypeOK
  <2> QED
    BY <2>1 DEF CloseSweep, Shut, MutexFree, workerVars
<1> QED
  BY <1>4, <1>5, <1>6, <1>7, <1>8

LEMMA StutterStep ==
  ASSUME IInv, UNCHANGED vars
  PROVE  IInv'
BY DEF IInv, vars, TypeOK, Bounded, NewUntouched, OutcomeNumbered, HandsFull,
       QueueClaims, SendClaim, WorkerClaims, Shut, InPlay

LEMMA NextPreserves == IInv /\ [Next]_vars => IInv'
<1> SUFFICES ASSUME IInv, [Next]_vars PROVE IInv'
  OBVIOUS
<1>1. CASE \E j \in Job : SubmitAdmit(j)
  BY <1>1, SubmitAdmitStep
<1>2. CASE SubmitSend
  BY <1>2, SubmitSendStep
<1>3. CASE \E w \in Worker : WorkerStep(w)
  BY <1>3, ReceiveStep, StartStep, ScanStep, JudgeDeadlineStep, JudgeRestStep, ExitStep
     DEF WorkerStep
<1>4. CASE Stop \/ \E j \in Job : Expire(j)
  BY <1>4, ContextStep
<1>5. CASE CloseSweep
  BY <1>5, CloseSweepStep
<1>6. CASE UNCHANGED vars
  BY <1>6, StutterStep
<1> QED
  BY <1>1, <1>2, <1>3, <1>4, <1>5, <1>6 DEF Next, Terminated

(* The inductive invariant holds in every state.                           *)
THEOREM Inductive == Spec => []IInv
BY InitEstablishes, NextPreserves, PTL DEF Spec

-----------------------------------------------------------------------------

(* Every variable keeps its type, whatever the number of jobs and workers. *)
THEOREM TypeCorrect == Spec => []TypeOK
<1>1. IInv => TypeOK
  BY DEF IInv
<1> QED
  BY <1>1, Inductive, PTL

(* A sequence of length n has n positions.                                 *)
LEMMA PrefixSize ==
  ASSUME NEW n \in Nat
  PROVE  Cardinality(1 .. n) = n
<1>1. n \in Int /\ 1 \in Int
  OBVIOUS
<1>2. Cardinality(1 .. n) = IF 1 > n THEN 0 ELSE n - 1 + 1
  BY <1>1, FS_Interval
<1>3. (1 > n => n = 0) /\ n - 1 + 1 = n
  BY <1>1
<1> QED
  BY <1>2, <1>3

(* The jobs in the channel are different jobs of the table, and the one    *)
(* being sent is yet another: the channel cannot be full.                  *)
LEMMA RoomToSend == IInv => SendNeverBlocks
<1> SUFFICES ASSUME IInv, sending # NoJob PROVE Len(queue) < Capacity
  BY DEF SendNeverBlocks
<1> USE DEF IInv
<1> DEFINE others == jobs \ {sending}
<1>1. ~closed /\ sending \in jobs
  BY DEF Shut, SendClaim, InPlay
<1>2. /\ IsFiniteSet(others)
      /\ Cardinality(others) = Cardinality(jobs) - 1
      /\ Cardinality(jobs) \in Nat
  BY <1>1, FS_RemoveElement, FS_CardinalityType DEF Bounded
<1>3. Len(queue) \in Nat /\ queue \in [1 .. Len(queue) -> others]
  <2>1. queue \in [1 .. Len(queue) -> Job] /\ Len(queue) \in Nat
    BY DEF TypeOK
  <2>2. \A i \in 1 .. Len(queue) : queue[i] \in others
    BY <1>1 DEF QueueClaims, InPlay
  <2> QED
    BY <2>1, <2>2
<1>4. queue \in Injection(1 .. Len(queue), others)
  BY <1>1, <1>3 DEF Injection, IsInjective, QueueClaims
<1>5. Cardinality(1 .. Len(queue)) <= Cardinality(others)
  BY <1>2, <1>4, FS_Injection
<1>6. Cardinality(1 .. Len(queue)) = Len(queue)
  BY <1>3, PrefixSize
<1> QED
  BY <1>2, <1>3, <1>5, <1>6, ScanJobsAssumption DEF Bounded

(* Submit never waits at its channel while it holds the mutex the workers  *)
(* need to empty it: the deadlock manager.go:125-128 would otherwise risk  *)
(* is impossible for every capacity and every number of workers.           *)
THEOREM SendNeverWaits == Spec => []SendNeverBlocks
BY RoomToSend, Inductive, PTL

(* The table never outgrows its capacity, a job has an outcome exactly     *)
(* when it has its place in the order of completion, and none is left      *)
(* without one by Close.                                                   *)
THEOREM TableStaysConsistent == Spec => []TableConsistent
<1>1. IInv => TableConsistent
  BY DEF IInv, TableConsistent, Bounded, OutcomeNumbered, Shut, TypeOK
<1> QED
  BY <1>1, Inductive, PTL

-----------------------------------------------------------------------------
(* The second part (ClaimInv).  IInv says that claims are exclusive and    *)
(* only on unfinished jobs.  Added here: every unfinished job is claimed   *)
(* by somebody, and the claim tells its stage - which is what makes Start  *)
(* and the recording of an outcome moves the board permits.                *)
InQueue(j) == \E i \in 1 .. Len(queue) : queue[i] = j
InHands(j) == \E w \in Worker : hold[w] = j

StillClaimed ==
  ~closed => \A j \in Job : InPlay(j) => sending = j \/ InQueue(j) \/ InHands(j)

StageKnown ==
  ~closed =>
    /\ \A i \in 1 .. Len(queue) : state[queue[i]] = "queued"
    /\ sending # NoJob => state[sending] = "queued"
    /\ \A w \in Worker :
         /\ pc[w] = "received" => state[hold[w]] = "queued"
         /\ pc[w] \in {"scanning", "judging", "settling"} => state[hold[w]] = "running"

ClaimInv == IInv /\ StillClaimed /\ StageKnown
-----------------------------------------------------------------------------

LEMMA ClaimInit == Init => ClaimInv
<1> SUFFICES ASSUME Init PROVE StillClaimed /\ StageKnown
  BY InitEstablishes DEF ClaimInv
<1> QED
  BY DEF Init, StillClaimed, StageKnown, InPlay

LEMMA SubmitAdmitClaims ==
  ASSUME ClaimInv, NEW j \in Job, SubmitAdmit(j)
  PROVE  StillClaimed' /\ StageKnown'
<1> USE DEF ClaimInv, IInv
<1>1. PICK kept \in SUBSET jobs : Room(kept) /\ jobs' = kept \cup {j}
  BY DEF SubmitAdmit
<1>2. j \notin jobs /\ ~closed /\ sending = NoJob /\ sending' = j
  BY DEF SubmitAdmit, NewUntouched, Shut, MutexFree
<1>3. UNCHANGED <<queue, hold, finished, pc>>
  BY DEF SubmitAdmit, workerVars
<1>4. StillClaimed'
  <2>1. \A i \in Job : InPlay(i)' /\ i # j => InPlay(i) /\ i # sending
    BY <1>1, <1>2, <1>3, ScanJobsAssumption DEF InPlay
  <2> QED
    BY <1>2, <1>3, <2>1 DEF StillClaimed, InQueue, InHands
<1>5. StageKnown'
  <2>1. \A i \in Job : InPlay(i) => state'[i] = state[i]
    BY <1>2 DEF SubmitAdmit, TypeOK, InPlay
  <2>2. \A i \in 1 .. Len(queue) : queue[i] \in Job /\ InPlay(queue[i])
    BY <1>2 DEF TypeOK, QueueClaims
  <2>3. \A w \in Worker : hold[w] # NoJob => hold[w] \in Job /\ InPlay(hold[w])
    BY <1>2 DEF TypeOK, WorkerClaims
  <2>4. state'[j] = "queued"
    BY DEF SubmitAdmit, TypeOK
  <2>5. \A w \in Worker : pc[w] \in {"received", "scanning", "judging", "settling"} => hold[w] # NoJob
    BY DEF HandsFull
  <2> QED
    BY <1>2, <1>3, <2>1, <2>2, <2>3, <2>4, <2>5 DEF StageKnown
<1> QED
  BY <1>4, <1>5

LEMMA SubmitSendClaims ==
  ASSUME ClaimInv, SubmitSend
  PROVE  StillClaimed' /\ StageKnown'
<1> USE DEF ClaimInv, IInv
<1>1. /\ sending \in Job
      /\ UNCHANGED <<jobs, state, finished, hold, pc, closed>>
      /\ sending' = NoJob
      /\ ~closed
  BY DEF SubmitSend, TypeOK, workerVars, Shut
<1>2. /\ Len(queue') = Len(queue) + 1
      /\ Len(queue) \in Nat
      /\ \A i \in 1 .. Len(queue) : queue'[i] = queue[i] /\ i \in 1 .. Len(queue')
      /\ queue'[Len(queue) + 1] = sending
  BY <1>1 DEF SubmitSend, TypeOK
<1>3. StillClaimed'
  <2> SUFFICES ASSUME NEW j \in Job, InPlay(j) PROVE InQueue(j)' \/ InHands(j)
    BY <1>1 DEF StillClaimed, InPlay, InHands
  <2>1. CASE sending = j
    <3>1. Len(queue) + 1 \in 1 .. Len(queue')
      BY <1>2
    <3> QED
      BY <1>2, <2>1, <3>1 DEF InQueue
  <2>2. CASE InQueue(j)
    BY <1>2, <2>2 DEF InQueue
  <2> QED
    BY <1>1, <2>1, <2>2 DEF StillClaimed
<1>4. StageKnown'
  <2>1. \A i \in 1 .. Len(queue') : i \in 1 .. Len(queue) \/ i = Len(queue) + 1
    BY <1>2
  <2> QED
    BY <1>1, <1>2, <2>1, ScanJobsAssumption DEF StageKnown
<1> QED
  BY <1>3, <1>4

LEMMA ReceiveClaims ==
  ASSUME ClaimInv, NEW w \in Worker, Receive(w)
  PROVE  StillClaimed' /\ StageKnown'
<1> USE DEF ClaimInv, IInv
<1>1. /\ hold[w] = NoJob
      /\ UNCHANGED <<jobs, state, finished, sending, closed>>
      /\ ~closed
  BY DEF Receive, HandsFull, Shut
<1>2. /\ Len(queue) \in Nat /\ Len(queue) > 0
      /\ Len(queue') = Len(queue) - 1
      /\ \A i \in 1 .. Len(queue') : queue'[i] = queue[i + 1] /\ i + 1 \in 1 .. Len(queue)
      /\ 1 \in 1 .. Len(queue)
      /\ hold'[w] = queue[1] /\ pc'[w] = "received"
      /\ \A v \in Worker : v # w => hold'[v] = hold[v] /\ pc'[v] = pc[v]
  BY DEF Receive, TypeOK
<1>3. StillClaimed'
  <2> SUFFICES ASSUME NEW j \in Job, InPlay(j) PROVE sending = j \/ InQueue(j)' \/ InHands(j)'
    BY <1>1 DEF StillClaimed, InPlay
  <2>1. CASE InQueue(j)
    <3>1. PICK i \in 1 .. Len(queue) : queue[i] = j
      BY <2>1 DEF InQueue
    <3>2. CASE i = 1
      BY <1>2, <3>1, <3>2 DEF InHands
    <3>3. CASE i # 1
      <4>1. i - 1 \in 1 .. Len(queue') /\ i = (i - 1) + 1
        BY <1>2, <3>3
      <4>2. queue'[i - 1] = j
        BY <1>2, <3>1, <4>1
      <4> QED
        BY <4>1, <4>2 DEF InQueue
    <3> QED
      BY <3>2, <3>3
  <2>2. CASE InHands(j)
    <3>1. PICK v \in Worker : hold[v] = j
      BY <2>2 DEF InHands
    <3>2. v # w
      BY <1>1, <3>1, ScanJobsAssumption
    <3> QED
      BY <1>2, <3>1, <3>2 DEF InHands
  <2> QED
    BY <1>1, <2>1, <2>2 DEF StillClaimed
<1>4. StageKnown'
  BY <1>1, <1>2 DEF StageKnown
<1> QED
  BY <1>3, <1>4

LEMMA StartClaims ==
  ASSUME ClaimInv, NEW w \in Worker, Start(w)
  PROVE  StillClaimed' /\ StageKnown'
<1> USE DEF ClaimInv, IInv
<1>1. ~closed /\ hold[w] \in Job /\ hold[w] # NoJob
  BY DEF Start, HandsFull, Shut, TypeOK
<1>2. UNCHANGED <<jobs, finished, sending, queue, hold, closed>>
  BY DEF Start
<1>3. StillClaimed'
  BY <1>2 DEF StillClaimed, InPlay, InQueue, InHands
<1>4. /\ state'[hold[w]] = "running" /\ pc'[w] = "scanning"
      /\ \A j \in Job : j # hold[w] => state'[j] = state[j]
      /\ \A v \in Worker : v # w => pc'[v] = pc[v]
  BY <1>1 DEF Start, TypeOK
<1>5. \A i \in 1 .. Len(queue) : queue[i] \in Job /\ queue[i] # hold[w]
  BY <1>1 DEF TypeOK, WorkerClaims
<1>6. sending # NoJob => sending \in Job /\ sending # hold[w]
  BY <1>1 DEF TypeOK, WorkerClaims
<1>7. \A v \in Worker : v # w /\ pc[v] \in {"received", "scanning", "judging", "settling"} =>
        hold[v] \in Job /\ hold[v] # hold[w]
  BY <1>1 DEF TypeOK, WorkerClaims, HandsFull
<1>8. StageKnown'
  BY <1>1, <1>2, <1>4, <1>5, <1>6, <1>7 DEF StageKnown
<1> QED
  BY <1>3, <1>8

LEMMA ScanClaims ==
  ASSUME ClaimInv, NEW w \in Worker, Scan(w)
  PROVE  StillClaimed' /\ StageKnown'
<1>1. StillClaimed'
  BY DEF ClaimInv, Scan, StillClaimed, InPlay, InQueue, InHands
<1>2. StageKnown'
  BY DEF ClaimInv, IInv, TypeOK, Scan, StageKnown
<1> QED
  BY <1>1, <1>2

(* The job that gets its outcome leaves the worker's hands, and it is the  *)
(* only unfinished job that loses a claim.                                 *)
LEMMA SettleClaims ==
  ASSUME ClaimInv, NEW w \in Worker, NEW outcome \in Final, Settle(w, outcome),
         pc[w] \in {"judging", "settling"},
         UNCHANGED <<jobs, queue, sending, failure, stopped, closed>>
  PROVE  StillClaimed' /\ StageKnown'
<1> USE DEF ClaimInv, IInv
<1> DEFINE j == hold[w]
<1>1. ~closed /\ j \in Job /\ j # NoJob
  BY DEF HandsFull, Shut, TypeOK
<1>2. /\ finished'[j] # 0
      /\ \A i \in Job : i # j => finished'[i] = finished[i] /\ state'[i] = state[i]
      /\ \A v \in Worker : v # w => hold'[v] = hold[v] /\ pc'[v] = pc[v]
      /\ pc'[w] = "idle"
  BY <1>1 DEF Settle, TypeOK
<1>3. StillClaimed'
  <2> SUFFICES ASSUME NEW i \in Job, InPlay(i)' PROVE sending = i \/ InQueue(i) \/ InHands(i)'
    BY DEF StillClaimed, InQueue
  <2>1. InPlay(i) /\ i # j
    BY <1>2 DEF InPlay
  <2>2. CASE InHands(i)
    BY <1>2, <2>1, <2>2 DEF InHands
  <2> QED
    BY <1>1, <2>1, <2>2 DEF StillClaimed
<1>4. \A i \in 1 .. Len(queue) : queue[i] \in Job /\ queue[i] # j
  BY <1>1 DEF TypeOK, WorkerClaims
<1>5. sending # NoJob => sending \in Job /\ sending # j
  BY <1>1 DEF TypeOK, WorkerClaims
<1>6. \A v \in Worker : v # w /\ pc[v] \in {"received", "scanning", "judging", "settling"} =>
        hold[v] \in Job /\ hold[v] # j
  BY <1>1 DEF TypeOK, WorkerClaims, HandsFull
<1>7. StageKnown'
  BY <1>1, <1>2, <1>4, <1>5, <1>6 DEF StageKnown
<1> QED
  BY <1>3, <1>7

LEMMA JudgeClaims ==
  ASSUME ClaimInv, NEW w \in Worker, JudgeDeadline(w) \/ JudgeRest(w)
  PROVE  StillClaimed' /\ StageKnown'
<1>1. CASE /\ JudgeDeadline(w)
           /\ pc' = [pc EXCEPT ![w] = "settling"]
           /\ UNCHANGED <<state, sequence, finished, ctx, hold>>
  <2>1. StillClaimed'
    BY <1>1 DEF ClaimInv, JudgeDeadline, StillClaimed, InPlay, InQueue, InHands
  <2>2. StageKnown'
    BY <1>1 DEF ClaimInv, IInv, TypeOK, JudgeDeadline, StageKnown
  <2> QED
    BY <2>1, <2>2
<1>2. CASE JudgeDeadline(w) /\ Settle(w, "failed")
  BY <1>2, SettleClaims DEF JudgeDeadline, Final
<1>3. CASE JudgeRest(w)
  BY <1>3, SettleClaims DEF JudgeRest, Final
<1> QED
  BY <1>1, <1>2, <1>3 DEF JudgeDeadline

LEMMA OtherClaims ==
  ASSUME ClaimInv,
         \/ \E w \in Worker : Exit(w)
         \/ Stop \/ \E j \in Job : Expire(j)
         \/ CloseSweep
         \/ UNCHANGED vars
  PROVE  StillClaimed' /\ StageKnown'
<1> USE DEF ClaimInv, StillClaimed, StageKnown, InPlay, InQueue, InHands
<1>1. CASE \E w \in Worker : Exit(w)
  BY <1>1 DEF IInv, TypeOK, Exit
<1>2. CASE Stop \/ \E j \in Job : Expire(j)
  BY <1>2 DEF Stop, Expire, workerVars
<1>3. CASE CloseSweep
  BY <1>3 DEF CloseSweep
<1>4. CASE UNCHANGED vars
  BY <1>4 DEF vars
<1> QED
  BY <1>1, <1>2, <1>3, <1>4

LEMMA ClaimNext == ClaimInv /\ [Next]_vars => ClaimInv'
<1> SUFFICES ASSUME ClaimInv, [Next]_vars PROVE StillClaimed' /\ StageKnown'
  BY NextPreserves DEF ClaimInv
<1>1. CASE \E j \in Job : SubmitAdmit(j)
  BY <1>1, SubmitAdmitClaims
<1>2. CASE SubmitSend
  BY <1>2, SubmitSendClaims
<1>3. CASE \E w \in Worker : WorkerStep(w)
  BY <1>3, ReceiveClaims, StartClaims, ScanClaims, JudgeClaims, OtherClaims DEF WorkerStep
<1>4. CASE Stop \/ (\E j \in Job : Expire(j)) \/ CloseSweep \/ UNCHANGED vars
  BY <1>4, OtherClaims
<1> QED
  BY <1>1, <1>2, <1>3, <1>4 DEF Next, Terminated

(* Every unfinished job has a claim that tells its stage.                  *)
THEOREM ClaimsInductive == Spec => []ClaimInv
BY ClaimInit, ClaimNext, PTL DEF Spec

-----------------------------------------------------------------------------
(* One claim per unfinished job.                                           *)

LEMMA QueuedSize ==
  ASSUME ClaimInv, ~closed, NEW j \in Job
  PROVE  Cardinality(Queued(j)) = IF InQueue(j) THEN 1 ELSE 0
<1>1. DOMAIN queue = 1 .. Len(queue)
  BY DEF ClaimInv, IInv, TypeOK
<1>2. CASE InQueue(j)
  <2>1. PICK i \in 1 .. Len(queue) : queue[i] = j
    BY <1>2 DEF InQueue
  <2>2. Queued(j) = {i}
    BY <1>1, <2>1 DEF Queued, ClaimInv, IInv, QueueClaims
  <2> QED
    BY <1>2, <2>2, FS_Singleton
<1>3. CASE ~InQueue(j)
  <2>1. Queued(j) = {}
    BY <1>1, <1>3 DEF Queued, InQueue
  <2> QED
    BY <1>3, <2>1, FS_EmptySet
<1> QED
  BY <1>2, <1>3

LEMMA HoldersSize ==
  ASSUME ClaimInv, ~closed, NEW j \in Job
  PROVE  Cardinality(Holders(j)) = IF InHands(j) THEN 1 ELSE 0
<1>1. CASE InHands(j)
  <2>1. PICK w \in Worker : hold[w] = j
    BY <1>1 DEF InHands
  <2>2. Holders(j) = {w}
    BY <2>1, ScanJobsAssumption DEF Holders, ClaimInv, IInv, WorkerClaims
  <2> QED
    BY <1>1, <2>2, FS_Singleton
<1>2. CASE ~InHands(j)
  <2>1. Holders(j) = {}
    BY <1>2 DEF Holders, InHands
  <2> QED
    BY <1>2, <2>1, FS_EmptySet
<1> QED
  BY <1>1, <1>2

LEMMA OneClaim == ClaimInv => NoStrandedJob
<1> SUFFICES ASSUME ClaimInv, ~closed, NEW j \in Job
             PROVE  Cardinality(Queued(j)) + Cardinality(Holders(j)) + (IF sending = j THEN 1 ELSE 0)
                      = IF j \in jobs /\ finished[j] = 0 THEN 1 ELSE 0
  BY DEF NoStrandedJob
<1>1. j # NoJob
  BY ScanJobsAssumption
<1>2. InPlay(j) => sending = j \/ InQueue(j) \/ InHands(j)
  BY DEF ClaimInv, StillClaimed
<1>3. InQueue(j) => InPlay(j) /\ sending # j /\ ~InHands(j)
  BY <1>1 DEF ClaimInv, IInv, QueueClaims, WorkerClaims, InQueue, InHands
<1>4. InHands(j) => InPlay(j) /\ sending # j
  BY <1>1 DEF ClaimInv, IInv, WorkerClaims, InHands
<1>5. sending = j => InPlay(j)
  BY <1>1 DEF ClaimInv, IInv, SendClaim
<1> QED
  BY <1>2, <1>3, <1>4, <1>5, QueuedSize, HoldersSize DEF InPlay

(* Until Close sweeps, every unfinished job is with exactly one of Submit, *)
(* the channel and the workers, and a claimed job is never evicted         *)
(* (manager.go:112-128, 147-181), for every capacity and worker count.     *)
THEOREM NoJobStranded == Spec => []NoStrandedJob
BY OneClaim, ClaimsInductive, PTL

-----------------------------------------------------------------------------
(* What clients read.                                                      *)

Permitted(j) == View'[j] = View[j] \/ <<View[j], View'[j]>> \in ScanMove

LEMMA PermittedSteps ==
  ASSUME \A j \in Job : Permitted(j)
  PROVE  Board!Next
<1>1. View' = [j \in Job |-> View'[j]]
  BY DEF View
<1> QED
  BY <1>1 DEF Permitted, Board!Next, Board!Advance

(* A submission shows the new job as queued, and may make the client       *)
(* forget a job - one that has an outcome.                                 *)
LEMMA SubmitAdmitBoard ==
  ASSUME ClaimInv, NEW j \in Job, SubmitAdmit(j)
  PROVE  Board!Next
<1> USE DEF ClaimInv, IInv
<1>1. PICK kept \in SUBSET jobs : Room(kept) /\ jobs' = kept \cup {j}
  BY DEF SubmitAdmit
<1>2. j \notin jobs /\ state[j] = "new" /\ state'[j] = "queued" /\ j \in jobs'
  BY <1>1 DEF SubmitAdmit, NewUntouched, TypeOK
<1>3. \A i \in Job : i # j => state'[i] = state[i] /\ (i \in jobs' => i \in jobs)
  BY <1>1 DEF SubmitAdmit, TypeOK
<1>4. \A i \in jobs : finished[i] = 0 => i \in jobs'
  BY <1>1, <1>2, RoomBounded
<1>5. Permitted(j)
  BY <1>2 DEF Permitted, View, ScanMove
<1>6. ASSUME NEW i \in Job, i # j PROVE Permitted(i)
  <2>1. CASE i \in jobs /\ i \notin jobs'
    <3>1. state[i] \in Final /\ state[i] # "new"
      BY <1>4, <2>1 DEF OutcomeNumbered, Final
    <3>2. View[i] = state[i] /\ View'[i] = "forgotten"
      BY <1>3, <1>6, <2>1, <3>1 DEF View
    <3> QED
      BY <3>1, <3>2 DEF Permitted, ScanMove
  <2>2. CASE ~(i \in jobs /\ i \notin jobs')
    BY <1>3, <1>6, <2>2 DEF Permitted, View
  <2> QED
    BY <2>1, <2>2
<1> QED
  BY <1>5, <1>6, PermittedSteps

LEMMA StartBoard ==
  ASSUME ClaimInv, NEW w \in Worker, Start(w)
  PROVE  Board!Next
<1> USE DEF ClaimInv, IInv
<1> DEFINE j == hold[w]
<1>1. ~closed /\ j \in Job /\ j \in jobs /\ state[j] = "queued"
  BY DEF Start, HandsFull, Shut, TypeOK, WorkerClaims, InPlay, StageKnown
<1>2. jobs' = jobs /\ state'[j] = "running" /\ \A i \in Job : i # j => state'[i] = state[i]
  BY <1>1 DEF Start, TypeOK
<1>3. Permitted(j)
  BY <1>1, <1>2 DEF Permitted, View, ScanMove
<1>4. \A i \in Job : i # j => Permitted(i)
  BY <1>2 DEF Permitted, View
<1> QED
  BY <1>3, <1>4, PermittedSteps

LEMMA SettleBoard ==
  ASSUME ClaimInv, NEW w \in Worker, NEW outcome \in Final, Settle(w, outcome),
         pc[w] \in {"judging", "settling"}, jobs' = jobs
  PROVE  Board!Next
<1> USE DEF ClaimInv, IInv
<1> DEFINE j == hold[w]
<1>1. ~closed /\ j \in Job /\ j \in jobs /\ state[j] = "running"
  BY DEF HandsFull, Shut, TypeOK, WorkerClaims, InPlay, StageKnown
<1>2. state'[j] = outcome /\ \A i \in Job : i # j => state'[i] = state[i]
  BY <1>1 DEF Settle, TypeOK
<1>3. Permitted(j)
  BY <1>1, <1>2 DEF Permitted, View, ScanMove, Final
<1>4. \A i \in Job : i # j => Permitted(i)
  BY <1>2 DEF Permitted, View
<1> QED
  BY <1>3, <1>4, PermittedSteps

(* Close reports the jobs that never got an outcome as canceled.           *)
LEMMA CloseSweepBoard ==
  ASSUME ClaimInv, CloseSweep
  PROVE  Board!Next
<1> USE DEF ClaimInv, IInv
<1> SUFFICES ASSUME NEW j \in Job PROVE Permitted(j)
  BY PermittedSteps
<1>1. jobs' = jobs /\ state'[j] = IF j \in Leftover THEN "canceled" ELSE state[j]
  BY DEF CloseSweep
<1>2. CASE j \in Leftover
  <2>1. j \in jobs /\ state[j] \in Unfinished
    BY <1>2 DEF Leftover, OutcomeNumbered, NewUntouched, TypeOK
  <2>2. View[j] = state[j] /\ View'[j] = "canceled"
    BY <1>1, <1>2, <2>1 DEF View
  <2> QED
    BY <2>1, <2>2 DEF Permitted, ScanMove, Unfinished, Final
<1>3. CASE j \notin Leftover
  BY <1>1, <1>3 DEF Permitted, View
<1> QED
  BY <1>2, <1>3

LEMMA BoardInit == Init => Board!Init
BY DEF Init, Board!Init, View

LEMMA BoardNext == ClaimInv /\ [Next]_vars => [Board!Next]_View
<1> SUFFICES ASSUME ClaimInv, [Next]_vars, UNCHANGED <<jobs, state>> => View' = View
             PROVE  Board!Next \/ View' = View
  BY DEF View
<1>1. CASE \E j \in Job : SubmitAdmit(j)
  BY <1>1, SubmitAdmitBoard
<1>2. CASE \E w \in Worker : Start(w)
  BY <1>2, StartBoard
<1>3. CASE \E w \in Worker : JudgeDeadline(w) /\ Settle(w, "failed")
  BY <1>3, SettleBoard DEF JudgeDeadline, Final
<1>4. CASE \E w \in Worker : JudgeRest(w)
  BY <1>4, SettleBoard DEF JudgeRest, Final
<1>5. CASE CloseSweep
  BY <1>5, CloseSweepBoard
<1>6. CASE \/ SubmitSend \/ Stop \/ (\E j \in Job : Expire(j)) \/ UNCHANGED vars
           \/ \E w \in Worker : Receive(w) \/ Scan(w) \/ Exit(w)
  BY <1>6 DEF SubmitSend, Stop, Expire, Receive, Scan, Exit, vars
<1>7. CASE \E w \in Worker : JudgeDeadline(w) /\ UNCHANGED state
  BY <1>7 DEF JudgeDeadline
<1> QED
  BY <1>1, <1>2, <1>3, <1>4, <1>5, <1>6, <1>7 DEF Next, WorkerStep, JudgeDeadline, Terminated

(* The table of scanjob.Manager keeps the promise of JobBoard: a client    *)
(* sees its job go from queued through running to one lasting outcome, and *)
(* forgotten only after it (manager.go:107-128, 147-200).                  *)
THEOREM BoardImplemented == Spec => ImplementsBoard
<1>1. Spec => [][Board!Next]_View
  BY BoardNext, ClaimsInductive, PTL DEF Spec
<1>2. Spec => Board!Init
  BY BoardInit DEF Spec
<1> QED
  BY <1>1, <1>2 DEF ImplementsBoard, Board!Spec
=============================================================================

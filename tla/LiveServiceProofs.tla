-------------------------- MODULE LiveServiceProofs --------------------------
(***************************************************************************)
(* The safety of LiveService for any repositories, workers, capacity and   *)
(* number of registrations and candidates: jobs are accounted for, what    *)
(* clients were told is on disk, restarts are never refused, finished      *)
(* files are frozen, and JobBoard is implemented.                          *)
(*                                                                         *)
(* None of these is inductive.  A job shown as completed is on disk only   *)
(* because a worker without an error has visited every candidate           *)
(* (Progress); a finished file is frozen only because workers hold jobs    *)
(* that are unfinished on disk as well (Faithful); and the latest job of a *)
(* repository survives a restart because ids only grow (Unborn, Newest).   *)
(***************************************************************************)
EXTENDS LiveService, TLAPS, FiniteSetTheorems, SequenceTheorems, WellFoundedInduction

(* Most steps leave the clients alone.                                     *)
USE DEF clientVars

(* Ids that were not handed out yet have no record.                        *)
Unborn ==
  \A j \in Job : j >= nextJob => mem[j].stage = "absent" /\ disk[j] = Absent

(* Nothing runs before the server listens, and nothing is left of it after. *)
Quiet ==
  /\ phase = "down" => mem = [j \in Job |-> Absent]
  /\ phase # "serving" => queue = <<>> /\ \A w \in Worker : hold[w] = NoJob
  /\ phase = "loaded" => ActiveJobs = {}

(* What a record in memory and its file know of each other.                *)
FaithfulAt(j) ==
  /\ mem[j].stage = "absent" <=> disk[j].stage = "absent"
  /\ mem[j].stage = "completed" => disk[j] = mem[j] /\ mem[j].report = 0
  /\ disk[j].stage \in Terminal => mem[j] = disk[j]
  /\ mem[j].report # NoReport => scan[j] = "whole"
  /\ disk[j].report # NoReport => mem[j].report # NoReport

Faithful == phase # "down" => \A j \in Job : FaithfulAt(j)

(* What a start reads, whenever it comes.                                  *)
FilesSoundAt(j) ==
  /\ disk[j].report # NoReport => scan[j] = "whole"
  /\ disk[j].stage = "completed" => disk[j].report = 0

FilesSound == \A j \in Job : FilesSoundAt(j)

(* The latest job of a repository, told without Max.                       *)
NewestIs(r, j) ==
  IF j = NoJob THEN \A i \in Stored : repo[i] # r
  ELSE j \in Stored /\ repo[j] = r /\ \A i \in Stored : repo[i] = r => i <= j

LatestKnown ==
  /\ \A j \in Stored : repo[j] \in Repo
  /\ phase # "down" => \A r \in Repo : NewestIs(r, latest[r])

(* The queue holds different jobs, as they were registered, and no         *)
(* worker holds one of them.                                               *)
QueueClaims ==
  \A i \in 1 .. Len(queue) :
    /\ mem[queue[i]] = [stage |-> "queued", report |-> NoReport]
    /\ \A k \in 1 .. Len(queue) : queue[k] = queue[i] => k = i
    /\ \A w \in Worker : hold[w] # queue[i]

WorkerClaims ==
  \A v, w \in Worker : hold[v] = hold[w] /\ hold[w] # NoJob => v = w

InQueue(j) == \E i \in 1 .. Len(queue) : queue[i] = j
InHands(j) == \E w \in Worker : hold[w] = j

Claimed == \A j \in ActiveJobs : InQueue(j) \/ InHands(j)

(* How far a worker is with its job.  Without an error, the candidates     *)
(* that have no result yet are those it has yet to visit.                  *)
ProgressAt(w) ==
  LET rec == mem[hold[w]]
  IN  /\ hold[w] = NoJob <=> pc[w] \in {"idle", "exited"}
      /\ pc[w] \in {"idle", "exited", "received", "discovering", "prepared"} => ~erred[w]
      /\ pc[w] = "received" => rec = [stage |-> "queued", report |-> NoReport]
      /\ pc[w] \in {"discovering", "saving", "prepared"} =>
           rec = [stage |-> "profiling", report |-> NoReport]
      /\ pc[w] = "saving" /\ ~erred[w] => found[w] = "whole"
      /\ pc[w] = "prepared" => scan[hold[w]] = "whole"
      /\ pc[w] = "visiting" => /\ rec.stage = "analyzing"
                               /\ rec.report \in Report
                               /\ left[w] <= rec.report
                               /\ ~erred[w] => left[w] = rec.report
      /\ pc[w] = "finishing" => /\ rec.stage \in {"profiling", "analyzing"}
                                /\ ~erred[w] => rec = [stage |-> "analyzing", report |-> 0]

Progress == \A w \in Worker : ProgressAt(w)

IInv ==
  /\ TypeOK
  /\ Unborn
  /\ Quiet
  /\ Faithful
  /\ FilesSound
  /\ LatestKnown
  /\ OneActiveScan
  /\ QueueClaims
  /\ WorkerClaims
  /\ Claimed
  /\ Progress
  /\ acked \subseteq Stored
-----------------------------------------------------------------------------

LEMMA NewestJob ==
  ASSUME TypeOK, NEW r \in Repo, NEW j \in Job \cup {NoJob}, NewestIs(r, j)
  PROVE  j = Newest(r)
<1> DEFINE S == {i \in Stored : repo[i] = r}
<1>1. S \subseteq Nat
  BY LiveServiceAssumption DEF Stored, Job
<1>2. CASE j = NoJob
  BY <1>2 DEF NewestIs, Newest
<1>3. CASE j # NoJob
  <2>1. j \in S /\ \A i \in S : i <= j
    BY <1>3 DEF NewestIs
  <2>2. j >= j /\ \A i \in S : j >= i
    BY <1>1, <2>1
  <2>3. \A k \in S : (\A i \in S : k >= i) => k = j
    BY <1>1, <2>1
  <2>4. Max(S) = j
    BY <2>1, <2>2, <2>3 DEF Max
  <2> QED
    BY <2>1, <2>4 DEF Newest
<1> QED
  BY <1>2, <1>3

(* A non-empty set of job ids has a greatest one.                          *)
LEMMA GreatestJob ==
  ASSUME NEW S \in SUBSET Job, S # {}
  PROVE  \E m \in S : \A i \in S : i <= m
<1> DEFINE T == {MaxJobs - i : i \in S}
<1>1. MaxJobs \in Nat /\ \A i \in S : i \in Nat /\ i <= MaxJobs
  BY LiveServiceAssumption DEF Job
<1>2. T \subseteq Nat /\ T # {}
  BY <1>1
<1>3. PICK t \in T : \A u \in T : ~(<<u, t>> \in OpToRel(<, Nat))
  BY <1>2, NatLessThanWellFounded, WFMin
<1>4. \A u \in T : ~(u < t)
  BY <1>2, <1>3 DEF OpToRel
<1>5. PICK m \in S : t = MaxJobs - m
  BY <1>3
<1>6. ASSUME NEW i \in S PROVE i <= m
  <2>1. MaxJobs - i \in T
    OBVIOUS
  <2>2. ~(MaxJobs - i < MaxJobs - m)
    BY <1>4, <1>5, <2>1
  <2> HIDE DEF T
  <2> QED
    BY <1>1, <2>2
<1> QED
  BY <1>6

LEMMA NewestExists ==
  ASSUME NEW r \in Repo
  PROVE  NewestIs(r, Newest(r)) /\ Newest(r) \in Job \cup {NoJob}
<1> DEFINE S == {i \in Stored : repo[i] = r}
<1>1. CASE S = {}
  BY <1>1 DEF Newest, NewestIs
<1>2. CASE S # {}
  <2>1. S \in SUBSET Job
    BY DEF Stored
  <2>2. PICK m \in S : \A i \in S : i <= m
    BY <1>2, <2>1, GreatestJob
  <2>3. m >= m /\ \A i \in S : m >= i
    BY <2>1, <2>2, LiveServiceAssumption DEF Job
  <2>4. Max(S) \in S /\ \A i \in S : Max(S) >= i
    BY <2>3 DEF Max
  <2>5. Newest(r) = Max(S)
    BY <1>2 DEF Newest
  <2>6. Newest(r) \in Job /\ Newest(r) # NoJob
    BY <2>1, <2>4, <2>5, LiveServiceAssumption DEF Job
  <2> QED
    BY <2>1, <2>4, <2>5, <2>6, LiveServiceAssumption DEF NewestIs, Job
<1> QED
  BY <1>1, <1>2

-----------------------------------------------------------------------------

LEMMA InitEstablishes == Init => IInv
<1> SUFFICES ASSUME Init PROVE IInv
  OBVIOUS
<1> USE LiveServiceAssumption
<1>1. TypeOK
  <2>1. Absent \in Record
    BY DEF Absent, Record
  <2>2. nextJob \in 1 .. MaxJobs + 1 /\ queue \in Seq(Job)
    BY EmptySeq DEF Init
  <2> QED
    BY <2>1, <2>2 DEF Init, TypeOK
<1>2. Unborn /\ Quiet /\ Faithful /\ FilesSound
  BY DEF Init, Unborn, Quiet, Faithful, FilesSound, FilesSoundAt, Stored, Absent
<1>3. LatestKnown /\ OneActiveScan /\ Claimed /\ acked \subseteq Stored
  BY DEF Init, LatestKnown, OneActiveScan, Claimed, Stored, Absent, ActiveJobs, Active
<1>4. QueueClaims /\ WorkerClaims
  BY DEF Init, QueueClaims, WorkerClaims
<1>5. Progress
  BY DEF Init, Progress, ProgressAt
<1> QED
  BY <1>1, <1>2, <1>3, <1>4, <1>5 DEF IInv

-----------------------------------------------------------------------------
(* Steps of a worker on the job it holds.                                  *)

LEMMA HeldIsActive ==
  ASSUME IInv, NEW w \in Worker, phase # "down", pc[w] \notin {"idle", "exited"}
  PROVE  /\ hold[w] \in Job
         /\ mem[hold[w]].stage \in Active
         /\ disk[hold[w]].stage \in Active
<1>1. hold[w] \in Job /\ hold[w] # NoJob
  BY DEF IInv, TypeOK, Progress, ProgressAt
<1>2. pc[w] \in {"received", "discovering", "saving", "prepared", "visiting", "finishing"}
  BY DEF IInv, TypeOK
<1>3. mem[hold[w]].stage \in Active
  BY <1>2 DEF IInv, Progress, ProgressAt, Active
<1>4. FaithfulAt(hold[w])
  BY <1>1 DEF IInv, Faithful
<1>5. disk[hold[w]].stage \in {"absent"} \cup Active \cup Terminal
  BY <1>1 DEF IInv, TypeOK, Record
<1> QED
  BY <1>1, <1>3, <1>4, <1>5 DEF FaithfulAt, Active, Terminal

(* What the steps of a worker have in common from the moment it received   *)
(* a job until it has finished it.                                         *)
HandMove(w) ==
  /\ phase # "down" /\ pc[w] \notin {"idle", "exited"}
  /\ UNCHANGED <<latest, queue, hold, jobVars, phaseVars, clientVars>>
  /\ mem' \in [Job -> Record] /\ mem'[hold[w]].stage \in Active
  /\ \A j \in Job : j # hold[w] => mem'[j] = mem[j]
  /\ mem[hold[w]].report # NoReport => mem'[hold[w]].report # NoReport
  /\ mem'[hold[w]].report # NoReport => scan'[hold[w]] = "whole"
  /\ disk' = disk \/ disk' = [disk EXCEPT ![hold[w]] = mem'[hold[w]]]
  /\ scan' \in [Job -> {"none", "whole", "unusable"}]
  /\ \A j \in Job : j # hold[w] => scan'[j] = scan[j]
  /\ pc' \in [Worker -> {"received", "discovering", "saving", "prepared",
                         "visiting", "finishing", "idle", "exited"}]
  /\ found' \in [Worker -> {"none", "whole", "unusable"}]
  /\ left' \in [Worker -> Nat]
  /\ erred' \in [Worker -> BOOLEAN]
  /\ \A v \in Worker : v # w => /\ pc'[v] = pc[v] /\ found'[v] = found[v]
                                /\ left'[v] = left[v] /\ erred'[v] = erred[v]
  /\ ProgressAt(w)'

LEMMA HandMoveStep ==
  ASSUME IInv, NEW w \in Worker, HandMove(w)
  PROVE  IInv'
<1> USE DEF IInv
<1> DEFINE j == hold[w]
<1>1. j \in Job /\ j # NoJob /\ mem[j].stage \in Active /\ disk[j].stage \in Active
  BY HeldIsActive, LiveServiceAssumption DEF HandMove, Job
<1>2. /\ disk' \in [Job -> Record]
      /\ \A i \in Job : i # j => disk'[i] = disk[i]
      /\ disk'[j] = disk[j] \/ disk'[j] = mem'[j]
  <2>1. disk \in [Job -> Record] /\ mem'[j] \in Record
    BY <1>1 DEF HandMove, TypeOK
  <2>2. CASE disk' = disk
    BY <2>1, <2>2
  <2>3. CASE disk' = [disk EXCEPT ![j] = mem'[j]]
    BY <1>1, <2>1, <2>3
  <2> QED
    BY <2>2, <2>3 DEF HandMove
<1>3. TypeOK'
  BY <1>2 DEF HandMove, TypeOK, jobVars, phaseVars
<1>4. Stored' = Stored
  BY <1>1, <1>2 DEF HandMove, Stored, Active
<1>5. ActiveJobs' = ActiveJobs
  BY <1>1 DEF HandMove, ActiveJobs
<1>6. Unborn'
  BY <1>1, <1>2 DEF HandMove, Unborn, Active, jobVars
<1>7. Quiet'
  BY <1>1, <1>5 DEF HandMove, Quiet, phaseVars
<1>8. Faithful'
  <2>1. FaithfulAt(j)'
    BY <1>1, <1>2 DEF HandMove, Faithful, FaithfulAt, Active, Terminal
  <2>2. ASSUME NEW i \in Job, i # j PROVE FaithfulAt(i)'
    BY <1>2, <2>2 DEF HandMove, Faithful, FaithfulAt
  <2>3. \A i \in Job : FaithfulAt(i)'
    BY <2>1, <2>2 DEF HandMove
  <2> QED
    BY <2>3 DEF Faithful
<1>9. FilesSound'
  <2> SUFFICES ASSUME NEW i \in Job PROVE FilesSoundAt(i)'
    BY DEF FilesSound
  <2>1. CASE i = j
    BY <1>1, <1>2, <2>1 DEF HandMove, Faithful, FaithfulAt, FilesSoundAt, Active
  <2>2. CASE i # j
    BY <1>2, <2>2 DEF HandMove, FilesSound, FilesSoundAt
  <2> QED
    BY <2>1, <2>2
<1>10. LatestKnown' /\ OneActiveScan'
  BY <1>4, <1>5 DEF HandMove, LatestKnown, NewestIs, OneActiveScan, jobVars, phaseVars
<1>11. QueueClaims'
  BY DEF HandMove, QueueClaims, TypeOK
<1>12. WorkerClaims' /\ Claimed'
  BY <1>5 DEF HandMove, WorkerClaims, Claimed, InQueue, InHands
<1>13. Progress'
  <2> SUFFICES ASSUME NEW v \in Worker, v # w
               PROVE  ProgressAt(v)'
    BY DEF HandMove, Progress
  <2>1. hold[v] # j
    BY <1>1 DEF WorkerClaims
  <2>2. ProgressAt(v) /\ hold[v] \in Job \cup {NoJob}
    BY DEF Progress, TypeOK
  <2>3. hold[v] # NoJob => mem'[hold[v]] = mem[hold[v]] /\ scan'[hold[v]] = scan[hold[v]]
    BY <2>1, <2>2 DEF HandMove
  <2>4. pc'[v] = pc[v] /\ erred'[v] = erred[v] /\ found'[v] = found[v] /\ left'[v] = left[v] /\ hold' = hold
    BY DEF HandMove
  <2> QED
    BY <2>2, <2>3, <2>4 DEF ProgressAt
<1>14. acked' \subseteq Stored'
  BY <1>4 DEF HandMove
<1> QED
  BY <1>3, <1>6, <1>7, <1>8, <1>9, <1>10, <1>11, <1>12, <1>13, <1>14

LEMMA StartProfilingStep ==
  ASSUME IInv, NEW w \in Worker, StartProfiling(w)
  PROVE  IInv'
<1>1. phase # "down" /\ pc[w] = "received"
  BY DEF StartProfiling, Running
<1>2. hold[w] \in Job /\ hold[w] # NoJob /\ mem[hold[w]] = [stage |-> "queued", report |-> NoReport]
  BY <1>1, HeldIsActive, LiveServiceAssumption DEF IInv, Progress, ProgressAt, Job
<1>3. /\ mem' \in [Job -> Record]
      /\ mem'[hold[w]] = [stage |-> "profiling", report |-> NoReport]
      /\ \A j \in Job : j # hold[w] => mem'[j] = mem[j]
  BY <1>2 DEF StartProfiling, IInv, TypeOK, Record, Active
<1>4. PICK saved \in BOOLEAN :
        /\ Save(hold[w], saved)
        /\ erred' = [erred EXCEPT ![w] = ~saved]
        /\ Goto(w, IF saved THEN "discovering" ELSE "finishing")
  BY DEF StartProfiling
<1>5. disk' = disk \/ disk' = [disk EXCEPT ![hold[w]] = mem'[hold[w]]]
  BY <1>4 DEF Save
<1>6. ProgressAt(w)'
  <2>1. /\ hold'[w] = hold[w] /\ hold[w] # NoJob
        /\ pc'[w] = IF saved THEN "discovering" ELSE "finishing"
        /\ erred'[w] <=> ~saved
    BY <1>2, <1>4 DEF StartProfiling, Goto, IInv, TypeOK
  <2>2. CASE saved
    BY <1>3, <2>1, <2>2 DEF ProgressAt
  <2>3. CASE ~saved
    BY <1>3, <2>1, <2>3 DEF ProgressAt
  <2> QED
    BY <2>2, <2>3
<1>7. HandMove(w)
  BY <1>1, <1>2, <1>3, <1>4, <1>5, <1>6 DEF HandMove, StartProfiling, Goto, IInv, TypeOK, Active, jobVars, phaseVars
<1> QED
  BY <1>7, HandMoveStep

LEMMA DiscoverStep ==
  ASSUME IInv, NEW w \in Worker, Discover(w)
  PROVE  IInv'
<1>1. phase # "down" /\ pc[w] = "discovering"
  BY DEF Discover, Running
<1>2. hold[w] \in Job /\ hold[w] # NoJob /\ mem[hold[w]] = [stage |-> "profiling", report |-> NoReport]
  BY <1>1, HeldIsActive, LiveServiceAssumption DEF IInv, Progress, ProgressAt, Job
<1>3. PICK result \in {"none", "whole", "unusable"} :
        /\ found' = [found EXCEPT ![w] = result]
        /\ erred' = [erred EXCEPT ![w] = result # "whole"]
        /\ Goto(w, IF result = "none" THEN "finishing" ELSE "saving")
  BY DEF Discover
<1>4. ProgressAt(w)'
  <2>1. /\ hold'[w] = hold[w] /\ mem' = mem
        /\ pc'[w] = IF result = "none" THEN "finishing" ELSE "saving"
        /\ erred'[w] <=> result # "whole"
        /\ found'[w] = result
    BY <1>3 DEF Discover, Goto, IInv, TypeOK, serviceVars
  <2>2. CASE result = "whole"
    BY <1>2, <2>1, <2>2 DEF ProgressAt
  <2>3. CASE result # "whole"
    BY <1>2, <1>3, <2>1, <2>3 DEF ProgressAt
  <2> QED
    BY <2>2, <2>3
<1>5. HandMove(w)
  BY <1>1, <1>2, <1>3, <1>4
     DEF HandMove, Discover, Goto, IInv, TypeOK, Active, serviceVars, fileVars, jobVars, phaseVars
<1> QED
  BY <1>5, HandMoveStep

LEMMA SaveScanStep ==
  ASSUME IInv, NEW w \in Worker, SaveScan(w)
  PROVE  IInv'
<1>1. phase # "down" /\ pc[w] = "saving"
  BY DEF SaveScan, Running
<1>2. /\ hold[w] \in Job /\ hold[w] # NoJob
      /\ mem[hold[w]] = [stage |-> "profiling", report |-> NoReport]
      /\ ~erred[w] => found[w] = "whole"
  BY <1>1, HeldIsActive, LiveServiceAssumption DEF IInv, Progress, ProgressAt, Job
<1>3. PICK saved \in BOOLEAN :
        /\ scan' = IF saved THEN [scan EXCEPT ![hold[w]] = found[w]] ELSE scan
        /\ erred' = [erred EXCEPT ![w] = @ \/ ~saved]
        /\ Goto(w, IF saved /\ ~erred[w] THEN "prepared" ELSE "finishing")
  BY DEF SaveScan
<1>4. /\ scan' \in [Job -> {"none", "whole", "unusable"}]
      /\ \A j \in Job : j # hold[w] => scan'[j] = scan[j]
      /\ saved => scan'[hold[w]] = found[w]
  BY <1>2, <1>3 DEF IInv, TypeOK
<1>5. ProgressAt(w)'
  <2>1. /\ hold'[w] = hold[w] /\ mem' = mem /\ found'[w] = found[w]
        /\ pc'[w] = IF saved /\ ~erred[w] THEN "prepared" ELSE "finishing"
        /\ erred'[w] <=> erred[w] \/ ~saved
    BY <1>3 DEF SaveScan, Goto, IInv, TypeOK, serviceVars
  <2>2. CASE saved /\ ~erred[w]
    BY <1>2, <1>4, <2>1, <2>2 DEF ProgressAt
  <2>3. CASE ~saved \/ erred[w]
    BY <1>2, <2>1, <2>3 DEF ProgressAt
  <2> QED
    BY <2>2, <2>3
<1>6. HandMove(w)
  BY <1>1, <1>2, <1>3, <1>4, <1>5
     DEF HandMove, SaveScan, Goto, IInv, TypeOK, Active, serviceVars, fileVars, jobVars, phaseVars
<1> QED
  BY <1>6, HandMoveStep

(* A checkpoint of the analysis that does not lose count.                  *)
LEMMA CheckpointStep ==
  ASSUME IInv, NEW w \in Worker, phase # "down", pc[w] \in {"prepared", "visiting"},
         NEW missing \in Report, NEW rest \in Nat, NEW failed \in BOOLEAN,
         Checkpoint(w, missing, rest, failed),
         scan[hold[w]] = "whole",
         rest <= missing,
         ~erred[w] /\ ~failed => rest = missing
  PROVE  IInv'
<1>1. hold[w] \in Job /\ hold[w] # NoJob
  BY HeldIsActive, LiveServiceAssumption DEF Job
<1>2. /\ mem' \in [Job -> Record]
      /\ mem'[hold[w]] = [stage |-> "analyzing", report |-> missing]
      /\ \A j \in Job : j # hold[w] => mem'[j] = mem[j]
  BY <1>1 DEF Checkpoint, IInv, TypeOK, Record, Active
<1>3. PICK saved \in BOOLEAN :
        /\ Save(hold[w], saved)
        /\ erred' = [erred EXCEPT ![w] = @ \/ failed \/ ~saved \/ ctxDone]
        /\ Goto(w, IF saved /\ ~ctxDone THEN "visiting" ELSE "finishing")
  BY DEF Checkpoint
<1>4. disk' = disk \/ disk' = [disk EXCEPT ![hold[w]] = mem'[hold[w]]]
  BY <1>3 DEF Save
<1>5. missing # NoReport /\ missing \in Nat
  BY LiveServiceAssumption DEF Report
<1>6. ProgressAt(w)'
  BY <1>1, <1>2, <1>3, <1>5 DEF Checkpoint, ProgressAt, Goto, IInv, TypeOK
<1>7. HandMove(w)
  BY <1>1, <1>2, <1>3, <1>4, <1>5, <1>6
     DEF HandMove, Checkpoint, Goto, IInv, TypeOK, Active, jobVars, phaseVars
<1> QED
  BY <1>7, HandMoveStep

LEMMA FirstCheckpointStep ==
  ASSUME IInv, NEW w \in Worker, FirstCheckpoint(w)
  PROVE  IInv'
<1>1. phase # "down" /\ pc[w] = "prepared"
  BY DEF FirstCheckpoint, Running
<1>2. PICK n \in Report : Checkpoint(w, n, n, FALSE)
  BY DEF FirstCheckpoint
<1>3. n \in Nat /\ n <= n /\ scan[hold[w]] = "whole"
  BY <1>1, LiveServiceAssumption DEF Report, IInv, Progress, ProgressAt
<1> QED
  BY <1>1, <1>2, <1>3, CheckpointStep

LEMMA VisitCandidateStep ==
  ASSUME IInv, NEW w \in Worker, VisitCandidate(w)
  PROVE  IInv'
<1> DEFINE missing == mem[hold[w]].report
<1>1. phase # "down" /\ pc[w] = "visiting" /\ left[w] > 0 /\ left[w] \in Nat
  BY DEF VisitCandidate, Running, IInv, TypeOK
<1>2. /\ missing \in Report /\ missing \in Nat /\ left[w] <= missing
      /\ ~erred[w] => left[w] = missing
  BY <1>1, LiveServiceAssumption DEF Report, IInv, Progress, ProgressAt
<1>3. scan[hold[w]] = "whole"
  BY <1>1, <1>2, HeldIsActive, LiveServiceAssumption DEF IInv, Faithful, FaithfulAt
<1>4. left[w] - 1 \in Nat /\ left[w] - 1 <= missing - 1 /\ left[w] - 1 <= missing
      /\ missing - 1 \in Report
  BY <1>1, <1>2, LiveServiceAssumption DEF Report
<1>5. CASE Checkpoint(w, missing - 1, left[w] - 1, FALSE)
  BY <1>1, <1>2, <1>3, <1>4, <1>5, CheckpointStep
<1>6. CASE Checkpoint(w, missing, left[w] - 1, TRUE)
  BY <1>1, <1>2, <1>3, <1>4, <1>6, CheckpointStep
<1> QED
  BY <1>5, <1>6 DEF VisitCandidate

LEMMA AnalysisReturnsStep ==
  ASSUME IInv, NEW w \in Worker, AnalysisReturns(w)
  PROVE  IInv'
<1>1. phase # "down" /\ pc[w] = "visiting"
  BY DEF AnalysisReturns, Running
<1>2. /\ hold[w] \in Job /\ hold[w] # NoJob /\ mem[hold[w]].stage = "analyzing"
      /\ mem[hold[w]].report \in Report
      /\ ~erred[w] => left[w] = mem[hold[w]].report
  BY <1>1, HeldIsActive, LiveServiceAssumption DEF IInv, Progress, ProgressAt, Job
<1>3. scan[hold[w]] = "whole"
  BY <1>1, <1>2, LiveServiceAssumption DEF IInv, Faithful, FaithfulAt, Report
<1>4. ProgressAt(w)'
  <2>1. mem[hold[w]] = [stage |-> "analyzing", report |-> mem[hold[w]].report]
    BY <1>2 DEF IInv, TypeOK, Record
  <2>2. /\ hold'[w] = hold[w] /\ mem' = mem /\ left' = left /\ pc'[w] = "finishing"
        /\ erred'[w] = (erred[w] \/ ctxDone)
        /\ left[w] = 0 \/ ctxDone
    BY DEF AnalysisReturns, Goto, IInv, TypeOK, serviceVars
  <2> QED
    BY <1>2, <2>1, <2>2 DEF ProgressAt
<1>5. HandMove(w)
  BY <1>1, <1>2, <1>3, <1>4
     DEF HandMove, AnalysisReturns, Goto, IInv, TypeOK, Active, serviceVars, fileVars, jobVars, phaseVars
<1> QED
  BY <1>5, HandMoveStep
-----------------------------------------------------------------------------
(* Steps that take a job up or put it down.                                *)

LEMMA ReceiveStep ==
  ASSUME IInv, NEW w \in Worker, Receive(w)
  PROVE  IInv'
<1> USE DEF IInv
<1>1. /\ phase = "serving" /\ pc[w] = "idle" /\ hold[w] = NoJob /\ ~erred[w]
      /\ queue \in Seq(Job) /\ queue # <<>>
  BY DEF Receive, Running, Quiet, Progress, ProgressAt, TypeOK
<1>2. /\ queue' \in Seq(Job)
      /\ Len(queue) \in Nat /\ Len(queue) > 0 /\ Len(queue') = Len(queue) - 1
      /\ \A i \in 1 .. Len(queue') : queue'[i] = queue[i + 1] /\ i + 1 \in 1 .. Len(queue) /\ i + 1 # 1
      /\ 1 \in 1 .. Len(queue) /\ queue[1] \in Job
  BY <1>1 DEF Receive
<1>3. /\ hold' \in [Worker -> Job \cup {NoJob}] /\ hold'[w] = queue[1]
      /\ \A v \in Worker : v # w => hold'[v] = hold[v]
      /\ pc' \in [Worker -> {"idle", "received", "discovering", "saving", "prepared",
                             "visiting", "finishing", "exited"}]
      /\ pc'[w] = "received"
      /\ \A v \in Worker : v # w => pc'[v] = pc[v]
  BY <1>1, <1>2 DEF Receive, Goto, TypeOK
<1>4. /\ mem[queue[1]] = [stage |-> "queued", report |-> NoReport]
      /\ \A i \in 1 .. Len(queue') : queue'[i] # queue[1]
      /\ \A v \in Worker : hold[v] # queue[1]
      /\ queue[1] # NoJob
  <2>1. queue[1] # NoJob
    BY <1>2, LiveServiceAssumption DEF Job
  <2>2. ASSUME NEW i \in 1 .. Len(queue') PROVE queue'[i] # queue[1]
    <3>1. queue'[i] = queue[i + 1] /\ i + 1 \in 1 .. Len(queue) /\ i + 1 # 1
      BY <1>2
    <3> QED
      BY <1>2, <3>1 DEF QueueClaims
  <2>3. /\ mem[queue[1]] = [stage |-> "queued", report |-> NoReport]
        /\ \A v \in Worker : hold[v] # queue[1]
    BY <1>2 DEF QueueClaims
  <2> QED
    BY <2>1, <2>2, <2>3
<1>5. TypeOK'
  BY <1>2, <1>3 DEF Receive, TypeOK, fileVars, jobVars, phaseVars
<1>6. Unborn' /\ Quiet' /\ Faithful' /\ FilesSound' /\ LatestKnown' /\ OneActiveScan' /\ acked' \subseteq Stored'
  BY <1>1 DEF Receive, Unborn, Quiet, Faithful, FaithfulAt, FilesSound, FilesSoundAt, LatestKnown,
              NewestIs, OneActiveScan, ActiveJobs, Stored, fileVars, jobVars, phaseVars
<1>7. QueueClaims'
  <2> SUFFICES ASSUME NEW i \in 1 .. Len(queue')
               PROVE  /\ mem[queue'[i]] = [stage |-> "queued", report |-> NoReport]
                      /\ \A k \in 1 .. Len(queue') : queue'[k] = queue'[i] => k = i
                      /\ \A v \in Worker : hold'[v] # queue'[i]
    BY DEF Receive, QueueClaims
  <2>1. /\ mem[queue'[i]] = [stage |-> "queued", report |-> NoReport]
        /\ \A v \in Worker : hold[v] # queue'[i]
    <3>1. i + 1 \in 1 .. Len(queue) /\ queue'[i] = queue[i + 1]
      BY <1>2
    <3> QED
      BY <3>1 DEF QueueClaims
  <2>2. ASSUME NEW k \in 1 .. Len(queue'), queue'[k] = queue'[i] PROVE k = i
    <3>1. /\ i + 1 \in 1 .. Len(queue) /\ k + 1 \in 1 .. Len(queue)
          /\ queue[k + 1] = queue[i + 1]
      BY <1>2, <2>2
    <3>2. k + 1 = i + 1
      BY <3>1 DEF QueueClaims
    <3> QED
      BY <1>2, <3>2
  <2> QED
    BY <1>3, <1>4, <2>1, <2>2
<1>8. WorkerClaims'
  BY <1>3, <1>4 DEF WorkerClaims
<1>9. Claimed'
  <2> SUFFICES ASSUME NEW j \in ActiveJobs
               PROVE  InQueue(j)' \/ InHands(j)'
    BY DEF Receive, Claimed, ActiveJobs
  <2>1. CASE InHands(j)
    <3>1. PICK v \in Worker : hold[v] = j
      BY <2>1 DEF InHands
    <3>2. j # NoJob
      BY LiveServiceAssumption DEF ActiveJobs, Job
    <3> QED
      BY <1>1, <1>3, <3>1, <3>2 DEF InHands
  <2>2. CASE InQueue(j)
    <3>1. PICK i \in 1 .. Len(queue) : queue[i] = j
      BY <2>2 DEF InQueue
    <3>2. CASE i = 1
      BY <1>3, <3>1, <3>2 DEF InHands
    <3>3. CASE i # 1
      <4>1. i - 1 \in 1 .. Len(queue') /\ queue'[i - 1] = queue[i]
        BY <1>2, <3>3
      <4> QED
        BY <3>1, <4>1 DEF InQueue
    <3> QED
      BY <3>2, <3>3
  <2> QED
    BY <2>1, <2>2 DEF Claimed
<1>10. Progress'
  <2>1. ProgressAt(w)'
    BY <1>1, <1>3, <1>4 DEF Receive, ProgressAt
  <2>2. ASSUME NEW v \in Worker, v # w PROVE ProgressAt(v)'
    BY <1>3, <2>2 DEF Receive, Progress, ProgressAt, fileVars
  <2> QED
    BY <2>1, <2>2 DEF Progress
<1> QED
  BY <1>5, <1>6, <1>7, <1>8, <1>9, <1>10

LEMMA FinishStep ==
  ASSUME IInv, NEW w \in Worker, Finish(w)
  PROVE  IInv'
<1> USE DEF IInv
<1> DEFINE j == hold[w]
<1>1. phase # "down" /\ phase = "serving" /\ pc[w] = "finishing"
  <2>1. phase # "down" /\ pc[w] = "finishing"
    BY DEF Finish, Running
  <2> QED
    BY <2>1 DEF Quiet, Progress, ProgressAt
<1>2. j \in Job /\ j # NoJob /\ mem[j].stage \in Active /\ disk[j].stage \in Active
  BY <1>1, HeldIsActive, LiveServiceAssumption DEF Job
<1>3. PICK saved \in BOOLEAN :
        /\ mem' = [mem EXCEPT ![j].stage = IF saved THEN Outcome(w) ELSE "failed"]
        /\ Save(j, saved)
  BY DEF Finish
<1>4. Outcome(w) \in Terminal
  BY DEF Outcome, Terminal
<1>5. /\ mem' \in [Job -> Record]
      /\ mem'[j] = [stage |-> IF saved THEN Outcome(w) ELSE "failed", report |-> mem[j].report]
      /\ \A i \in Job : i # j => mem'[i] = mem[i]
  BY <1>2, <1>3, <1>4 DEF TypeOK, Record, Terminal
<1>6. /\ disk' \in [Job -> Record]
      /\ \A i \in Job : i # j => disk'[i] = disk[i]
      /\ disk'[j] = IF saved THEN mem'[j] ELSE disk[j]
  BY <1>2, <1>3, <1>5 DEF Save, TypeOK
<1>7. /\ hold' \in [Worker -> Job \cup {NoJob}] /\ hold'[w] = NoJob /\ pc'[w] = "idle" /\ ~erred'[w]
      /\ \A v \in Worker : v # w => /\ hold'[v] = hold[v] /\ pc'[v] = pc[v] /\ erred'[v] = erred[v]
                                    /\ found'[v] = found[v] /\ left'[v] = left[v]
  BY DEF Finish, Goto, TypeOK
<1>8. TypeOK'
  BY <1>5, <1>6, <1>7 DEF Finish, Goto, TypeOK, jobVars, phaseVars
<1>9. Stored' = Stored
  BY <1>2, <1>4, <1>5, <1>6 DEF Stored, Active, Terminal
<1>10. ActiveJobs' = ActiveJobs \ {j}
  BY <1>4, <1>5 DEF ActiveJobs, Active, Terminal
<1>11. Unborn'
  BY <1>2, <1>5, <1>6 DEF Finish, Unborn, Active, jobVars, Absent
<1>12. Quiet' /\ LatestKnown' /\ OneActiveScan' /\ acked' \subseteq Stored'
  BY <1>1, <1>9, <1>10 DEF Finish, Quiet, LatestKnown, NewestIs, OneActiveScan, jobVars, phaseVars
<1>13. Faithful' /\ FilesSound'
  <2>1. FaithfulAt(j) /\ scan' = scan
    BY <1>1, <1>2 DEF Faithful, Finish
  <2>2. mem'[j].stage = "completed" => saved /\ mem[j].report = 0
    BY <1>1, <1>5 DEF Outcome, Progress, ProgressAt
  <2>3. /\ mem'[j].stage = "absent" <=> disk'[j].stage = "absent"
        /\ mem'[j].stage = "completed" => disk'[j] = mem'[j] /\ mem'[j].report = 0
        /\ disk'[j].stage \in Terminal => mem'[j] = disk'[j]
        /\ mem'[j].report # NoReport => scan'[j] = "whole"
        /\ disk'[j].report # NoReport => mem'[j].report # NoReport
    BY <1>2, <1>4, <1>5, <1>6, <2>1, <2>2 DEF FaithfulAt, Active, Terminal
  <2>4. \A i \in Job : FaithfulAt(i)'
    BY <1>1, <1>5, <1>6, <2>1, <2>3 DEF Faithful, FaithfulAt
  <2>5. ASSUME NEW i \in Job PROVE FilesSoundAt(i)'
    <3>1. CASE i = j
      BY <1>2, <1>6, <2>1, <2>3, <3>1 DEF FilesSound, FilesSoundAt, Active
    <3>2. CASE i # j
      BY <1>6, <2>1, <3>2 DEF FilesSound, FilesSoundAt
    <3> QED
      BY <3>1, <3>2
  <2> QED
    BY <2>4, <2>5 DEF Faithful, FilesSound
<1>14. QueueClaims'
  <2> SUFFICES ASSUME NEW i \in 1 .. Len(queue)
               PROVE  mem'[queue[i]] = mem[queue[i]] /\ \A v \in Worker : hold'[v] # queue[i]
    BY DEF Finish, QueueClaims
  <2>1. queue[i] \in Job /\ queue[i] # j /\ queue[i] # NoJob /\ \A v \in Worker : hold[v] # queue[i]
    BY LiveServiceAssumption DEF QueueClaims, TypeOK, Job
  <2> QED
    BY <1>5, <1>7, <2>1
<1>15. WorkerClaims'
  BY <1>7 DEF WorkerClaims
<1>16. Claimed'
  <2> SUFFICES ASSUME NEW i \in ActiveJobs, i # j
               PROVE  InQueue(i) \/ InHands(i)'
    BY <1>10 DEF Finish, Claimed, InQueue
  <2>1. InHands(i) => InHands(i)'
    BY <1>7 DEF InHands
  <2> QED
    BY <2>1 DEF Claimed
<1>17. Progress'
  <2>1. ProgressAt(w)'
    BY <1>7 DEF ProgressAt
  <2>2. ASSUME NEW v \in Worker, v # w PROVE ProgressAt(v)'
    <3>1. hold[v] # j /\ ProgressAt(v) /\ hold[v] \in Job \cup {NoJob}
      BY <1>2, <2>2 DEF WorkerClaims, Progress, TypeOK
    <3>2. hold[v] # NoJob => mem'[hold[v]] = mem[hold[v]]
      BY <1>5, <3>1
    <3>3. scan' = scan
      BY DEF Finish
    <3> QED
      BY <1>7, <2>2, <3>1, <3>2, <3>3 DEF ProgressAt
  <2> QED
    BY <2>1, <2>2 DEF Progress
<1> QED
  BY <1>8, <1>11, <1>12, <1>13, <1>14, <1>15, <1>16, <1>17

LEMMA WorkerExitsStep ==
  ASSUME IInv, NEW w \in Worker, WorkerExits(w)
  PROVE  IInv'
<1> USE DEF IInv
<1>1. pc[w] = "idle" /\ pc'[w] = "exited" /\ \A v \in Worker : v # w => pc'[v] = pc[v]
  BY DEF WorkerExits, Running, Goto, TypeOK
<1>2. TypeOK'
  BY DEF WorkerExits, Goto, TypeOK, serviceVars, fileVars, jobVars, phaseVars
<1>3. Progress'
  BY <1>1 DEF WorkerExits, Progress, ProgressAt, serviceVars, fileVars
<1>4. Unborn' /\ Quiet' /\ Faithful' /\ FilesSound' /\ LatestKnown' /\ OneActiveScan' /\ acked' \subseteq Stored'
  BY DEF WorkerExits, Unborn, Quiet, Faithful, FaithfulAt, FilesSound, FilesSoundAt, LatestKnown, NewestIs,
         OneActiveScan, ActiveJobs, Stored, serviceVars, fileVars, jobVars, phaseVars
<1>5. QueueClaims' /\ WorkerClaims' /\ Claimed'
  BY DEF WorkerExits, QueueClaims, WorkerClaims, Claimed, InQueue, InHands, ActiveJobs, serviceVars
<1> QED
  BY <1>2, <1>3, <1>4, <1>5
-----------------------------------------------------------------------------
(* Registration.                                                           *)

(* What a new record under a fresh id leaves as it was.                    *)
LEMMA PublishStep ==
  ASSUME IInv, NEW r \in Repo, NEW rec \in Record, Publish(r, rec), phase # "down",
         ~LatestIsActive(r), rec.stage # "absent"
  PROVE  /\ nextJob \in Job /\ nextJob # NoJob
         /\ mem[nextJob].stage = "absent" /\ disk[nextJob] = Absent
         /\ mem' \in [Job -> Record] /\ mem'[nextJob] = rec
         /\ disk' \in [Job -> Record] /\ disk'[nextJob] = rec
         /\ \A i \in Job : i # nextJob => mem'[i] = mem[i] /\ disk'[i] = disk[i]
         /\ latest' \in [Repo -> Job \cup {NoJob}]
         /\ repo' \in [Job -> Repo \cup {NoRepo}]
         /\ nextJob' \in 1 .. MaxJobs + 1 /\ nextJob' = nextJob + 1
         /\ acked' \in SUBSET Job /\ acked' \subseteq Stored'
         /\ Unborn'
         /\ \A j \in Stored' : repo'[j] \in Repo
         /\ \A s \in Repo : NewestIs(s, latest[s])' 
         /\ OneActiveScan'
<1> USE DEF IInv
<1>1. nextJob \in Job /\ nextJob # NoJob
  BY LiveServiceAssumption DEF Publish, TypeOK, Job
<1>2. mem[nextJob].stage = "absent" /\ disk[nextJob] = Absent
  BY <1>1, LiveServiceAssumption DEF Unborn, Job
<1>3. /\ mem' \in [Job -> Record] /\ mem'[nextJob] = rec
      /\ disk' \in [Job -> Record] /\ disk'[nextJob] = rec
      /\ \A i \in Job : i # nextJob => mem'[i] = mem[i] /\ disk'[i] = disk[i]
  BY <1>1 DEF Publish, TypeOK
<1>4. /\ latest' \in [Repo -> Job \cup {NoJob}] /\ latest'[r] = nextJob
      /\ \A s \in Repo : s # r => latest'[s] = latest[s]
      /\ repo' \in [Job -> Repo \cup {NoRepo}] /\ repo'[nextJob] = r
      /\ \A i \in Job : i # nextJob => repo'[i] = repo[i]
  BY <1>1 DEF Publish, TypeOK
<1>5. nextJob' \in 1 .. MaxJobs + 1 /\ nextJob' = nextJob + 1
  BY LiveServiceAssumption DEF Publish, TypeOK
<1>6. Stored' = Stored \cup {nextJob} /\ nextJob \notin Stored
  BY <1>1, <1>2, <1>3 DEF Stored, Absent
<1>7. acked' \in SUBSET Job /\ acked' \subseteq Stored'
  BY <1>1, <1>6 DEF Publish, TypeOK
<1>8. Unborn'
  BY <1>1, <1>3, <1>5, LiveServiceAssumption DEF Unborn, Job
<1>9. \A j \in Stored' : repo'[j] \in Repo
  BY <1>4, <1>6 DEF LatestKnown, Stored
<1>10. \A i \in Stored : i \in Job /\ i < nextJob
  BY <1>1, LiveServiceAssumption DEF Stored, Unborn, Job, Absent
<1>11. \A s \in Repo : NewestIs(s, latest[s])'
  <2>1. NewestIs(r, latest[r])'
    <3>1. \A i \in Stored' : i <= nextJob
      BY <1>1, <1>6, <1>10, LiveServiceAssumption DEF Job
    <3> QED
      BY <1>1, <1>4, <1>6, <3>1 DEF NewestIs
  <2>2. ASSUME NEW s \in Repo, s # r PROVE NewestIs(s, latest[s])'
    <3>1. NewestIs(s, latest[s])
      BY DEF LatestKnown
    <3>2. \A i \in Stored : repo'[i] = repo[i]
      BY <1>4, <1>6, <1>10
    <3> QED
      BY <1>4, <1>6, <2>2, <3>1, <3>2 DEF NewestIs
  <2> QED
    BY <2>1, <2>2
<1>12. OneActiveScan'
  <2> SUFFICES ASSUME NEW i \in ActiveJobs'
               PROVE  latest'[repo'[i]] = i
    BY DEF OneActiveScan
  <2>1. CASE i = nextJob
    BY <1>4, <2>1
  <2>2. CASE i # nextJob
    <3>1. i \in ActiveJobs /\ i \in Job
      BY <1>3, <2>2 DEF ActiveJobs
    <3>2. latest[repo[i]] = i /\ repo'[i] = repo[i]
      BY <1>4, <2>2, <3>1 DEF OneActiveScan
    <3>3. i \in Stored
      BY <3>1 DEF Faithful, FaithfulAt, ActiveJobs, Stored, Active
    <3>4. repo[i] \in Repo
      BY <3>3 DEF LatestKnown
    <3>5. repo[i] # r
      BY <3>1, <3>2, LiveServiceAssumption DEF LatestIsActive, ActiveJobs, Job
    <3> QED
      BY <1>4, <3>2, <3>4, <3>5
  <2> QED
    BY <2>1, <2>2
<1> QED
  BY <1>1, <1>2, <1>3, <1>4, <1>5, <1>7, <1>8, <1>9, <1>11, <1>12

(* A job nobody claims leaves the claims and progress of the others alone. *)
LEMMA OthersUntouched ==
  ASSUME IInv, NEW n \in Job, mem[n].stage = "absent",
         \A i \in Job : i # n => mem'[i] = mem[i] /\ scan'[i] = scan[i],
         UNCHANGED workerVars, phase # "down"
  PROVE  /\ Progress'
         /\ \A w \in Worker : hold[w] # n
         /\ \A i \in 1 .. Len(queue) : queue[i] # n /\ mem'[queue[i]] = mem[queue[i]]
<1> USE DEF IInv
<1>1. ASSUME NEW w \in Worker PROVE hold[w] # n
  <2>1. CASE pc[w] \in {"idle", "exited"}
    BY <2>1, LiveServiceAssumption DEF Progress, ProgressAt, Job
  <2>2. CASE pc[w] \notin {"idle", "exited"}
    BY <2>2, HeldIsActive DEF Active
  <2> QED
    BY <2>1, <2>2
<1>2. \A i \in 1 .. Len(queue) : queue[i] \in Job /\ queue[i] # n
  BY DEF QueueClaims, TypeOK
<1>3. Progress'
  <2> SUFFICES ASSUME NEW w \in Worker PROVE ProgressAt(w)'
    BY DEF Progress
  <2>1. ProgressAt(w) /\ hold[w] \in Job \cup {NoJob}
    BY DEF Progress, TypeOK
  <2>2. hold[w] # NoJob => mem'[hold[w]] = mem[hold[w]] /\ scan'[hold[w]] = scan[hold[w]]
    BY <1>1, <2>1
  <2> QED
    BY <2>1, <2>2 DEF ProgressAt, workerVars
<1> QED
  BY <1>1, <1>2, <1>3

LEMMA ImportStep ==
  ASSUME IInv, NEW r \in Repo, Import(r)
  PROVE  IInv'
<1> USE DEF IInv
<1>1. phase = "loaded" /\ phase' = "serving" /\ ~LatestIsActive(r)
  BY DEF Import
<1>2. PICK missing \in Report :
        Publish(r, [stage |-> IF missing = 0 THEN "completed" ELSE "failed", report |-> missing])
  BY DEF Import
<1> DEFINE rec == [stage |-> IF missing = 0 THEN "completed" ELSE "failed", report |-> missing]
<1> DEFINE n == nextJob
<1>3. /\ rec \in Record /\ rec.stage \in Terminal /\ rec.stage # "absent"
      /\ rec.report # NoReport /\ (rec.stage = "completed" => rec.report = 0)
  BY LiveServiceAssumption DEF Record, Terminal, Report
<1> HIDE DEF rec
<1>4. Publish(r, rec)
  BY <1>2 DEF rec
<1>5. /\ n \in Job /\ n # NoJob
      /\ mem[n].stage = "absent" /\ disk[n] = Absent
      /\ mem' \in [Job -> Record] /\ mem'[n] = rec
      /\ disk' \in [Job -> Record] /\ disk'[n] = rec
      /\ \A i \in Job : i # n => mem'[i] = mem[i] /\ disk'[i] = disk[i]
      /\ latest' \in [Repo -> Job \cup {NoJob}]
      /\ repo' \in [Job -> Repo \cup {NoRepo}]
      /\ nextJob' \in 1 .. MaxJobs + 1
      /\ acked' \in SUBSET Job /\ acked' \subseteq Stored'
      /\ Unborn'
      /\ \A j \in Stored' : repo'[j] \in Repo
      /\ \A s \in Repo : NewestIs(s, latest[s])'
      /\ OneActiveScan'
  BY <1>1, <1>3, <1>4, PublishStep
<1>6. /\ scan' \in [Job -> {"none", "whole", "unusable"}] /\ scan'[n] = "whole"
      /\ \A i \in Job : i # n => scan'[i] = scan[i]
  BY <1>5 DEF Import, TypeOK
<1>7. TypeOK'
  BY <1>5, <1>6 DEF Import, TypeOK, workerVars
<1>8. ActiveJobs' = ActiveJobs
  BY <1>3, <1>5 DEF ActiveJobs, Active, Terminal
<1>9. Quiet'
  BY <1>1 DEF Quiet
<1>10. Faithful' /\ FilesSound'
  <2>1. ASSUME NEW i \in Job PROVE FaithfulAt(i)' /\ FilesSoundAt(i)'
    <3>1. CASE i = n
      BY <1>3, <1>5, <1>6, <3>1 DEF FaithfulAt, FilesSoundAt, Terminal
    <3>2. CASE i # n
      BY <1>1, <1>5, <1>6, <3>2 DEF Faithful, FaithfulAt, FilesSound, FilesSoundAt
    <3> QED
      BY <3>1, <3>2
  <2> QED
    BY <2>1 DEF Faithful, FilesSound
<1>11. LatestKnown'
  BY <1>5 DEF LatestKnown
<1>12. Progress' /\ QueueClaims' /\ WorkerClaims' /\ Claimed'
  <2>1. UNCHANGED workerVars /\ UNCHANGED queue
    BY DEF Import
  <2>2. /\ Progress'
        /\ \A i \in 1 .. Len(queue) : queue[i] # n /\ mem'[queue[i]] = mem[queue[i]]
    BY <1>1, <1>5, <1>6, <2>1, OthersUntouched
  <2>3. QueueClaims' /\ WorkerClaims' /\ Claimed'
    BY <1>8, <2>1, <2>2 DEF QueueClaims, WorkerClaims, Claimed, InQueue, InHands, workerVars
  <2> QED
    BY <2>2, <2>3
<1> QED
  BY <1>5, <1>7, <1>9, <1>10, <1>11, <1>12

LEMMA SubmitNewStep ==
  ASSUME IInv, NEW r \in Repo, NEW from \in Job \cup {NoJob}, SubmitNew(r, from)
  PROVE  IInv'
<1> USE DEF IInv
<1> DEFINE rec == [stage |-> "queued", report |-> NoReport]
<1> DEFINE n == nextJob
<1>1. phase = "serving" /\ phase' = "serving" /\ ~LatestIsActive(r) /\ Publish(r, rec)
  BY DEF SubmitNew, Submits, Reusable, LatestIsActive, phaseVars
<1>2. rec \in Record /\ rec.stage # "absent"
  BY DEF Record, Active
<1>3. /\ n \in Job /\ n # NoJob
      /\ mem[n].stage = "absent" /\ disk[n] = Absent
      /\ mem' \in [Job -> Record] /\ mem'[n] = rec
      /\ disk' \in [Job -> Record] /\ disk'[n] = rec
      /\ \A i \in Job : i # n => mem'[i] = mem[i] /\ disk'[i] = disk[i]
      /\ latest' \in [Repo -> Job \cup {NoJob}]
      /\ repo' \in [Job -> Repo \cup {NoRepo}]
      /\ nextJob' \in 1 .. MaxJobs + 1
      /\ acked' \in SUBSET Job /\ acked' \subseteq Stored'
      /\ Unborn'
      /\ \A j \in Stored' : repo'[j] \in Repo
      /\ \A s \in Repo : NewestIs(s, latest[s])'
      /\ OneActiveScan'
  BY <1>1, <1>2, PublishStep
<1>4. /\ queue \in Seq(Job) /\ queue' = Append(queue, n) /\ queue' \in Seq(Job)
      /\ Len(queue') = Len(queue) + 1 /\ Len(queue) \in Nat
      /\ queue'[Len(queue) + 1] = n
      /\ \A i \in 1 .. Len(queue) : queue'[i] = queue[i]
  BY <1>3 DEF SubmitNew, TypeOK
<1>5. TypeOK'
  BY <1>3, <1>4 DEF SubmitNew, Submits, OneGoesOn, TypeOK, workerVars, phaseVars
<1>6. ActiveJobs' = ActiveJobs \cup {n}
  BY <1>3 DEF ActiveJobs, Active
<1>7. Quiet'
  BY <1>1 DEF Quiet
<1>8. Faithful' /\ FilesSound'
  <2>1. ASSUME NEW i \in Job PROVE FaithfulAt(i)' /\ FilesSoundAt(i)'
    <3>1. CASE i = n
      BY <1>3, <3>1 DEF FaithfulAt, FilesSoundAt, Terminal
    <3>2. CASE i # n
      BY <1>1, <1>3, <3>2 DEF SubmitNew, Faithful, FaithfulAt, FilesSound, FilesSoundAt
    <3> QED
      BY <3>1, <3>2
  <2> QED
    BY <2>1 DEF Faithful, FilesSound
<1>9. LatestKnown'
  BY <1>3 DEF LatestKnown
<1>10. UNCHANGED workerVars /\ UNCHANGED scan
  BY DEF SubmitNew
<1>11. /\ Progress'
       /\ \A w \in Worker : hold[w] # n
       /\ \A i \in 1 .. Len(queue) : queue[i] # n /\ mem'[queue[i]] = mem[queue[i]]
  BY <1>1, <1>3, <1>10, OthersUntouched
<1>12. QueueClaims'
  <2> SUFFICES ASSUME NEW i \in 1 .. Len(queue')
               PROVE  /\ mem'[queue'[i]] = rec
                      /\ \A k \in 1 .. Len(queue') : queue'[k] = queue'[i] => k = i
                      /\ \A w \in Worker : hold[w] # queue'[i]
    BY <1>10 DEF QueueClaims, workerVars
  <2>1. CASE i = Len(queue) + 1
    BY <1>3, <1>4, <1>11, <2>1
  <2>2. CASE i \in 1 .. Len(queue)
    <3>1. mem'[queue'[i]] = rec /\ (\A w \in Worker : hold[w] # queue'[i]) /\ queue'[i] = queue[i]
      BY <1>4, <1>11, <2>2 DEF QueueClaims
    <3>2. ASSUME NEW k \in 1 .. Len(queue'), queue'[k] = queue'[i] PROVE k = i
      <4>1. queue[i] # n /\ queue'[k] = queue[i]
        BY <1>11, <2>2, <3>1, <3>2
      <4>2. k # Len(queue) + 1
        BY <1>4, <4>1
      <4>3. k \in 1 .. Len(queue)
        BY <1>4, <4>2
      <4>4. queue[k] = queue[i]
        BY <1>4, <4>1, <4>3
      <4> QED
        BY <2>2, <4>3, <4>4 DEF QueueClaims
    <3> QED
      BY <3>1, <3>2
  <2> QED
    BY <1>4, <2>1, <2>2
<1>13. WorkerClaims'
  BY <1>10 DEF WorkerClaims, workerVars
<1>14. Claimed'
  <2> SUFFICES ASSUME NEW i \in ActiveJobs' PROVE InQueue(i)' \/ InHands(i)'
    BY DEF Claimed
  <2>1. CASE i = n
    <3>1. Len(queue) + 1 \in 1 .. Len(queue')
      BY <1>4
    <3> QED
      BY <1>4, <2>1, <3>1 DEF InQueue
  <2>2. CASE i # n
    <3>1. InQueue(i) \/ InHands(i)
      BY <1>6, <2>2 DEF Claimed
    <3>2. InHands(i) => InHands(i)'
      BY <1>10 DEF InHands, workerVars
    <3>3. ASSUME InQueue(i) PROVE InQueue(i)'
      <4>1. PICK k \in 1 .. Len(queue) : queue[k] = i
        BY <3>3 DEF InQueue
      <4>2. k \in 1 .. Len(queue') /\ queue'[k] = i
        BY <1>4, <4>1
      <4> QED
        BY <4>2 DEF InQueue
    <3> QED
      BY <3>1, <3>2, <3>3
  <2> QED
    BY <2>1, <2>2
<1> QED
  BY <1>3, <1>5, <1>7, <1>8, <1>9, <1>11, <1>12, <1>13, <1>14

LEMMA SubmitReuseStep ==
  ASSUME IInv, NEW r \in Repo, NEW from \in Job \cup {NoJob}, SubmitReuse(r, from)
  PROVE  IInv'
<1> USE DEF IInv
<1>1. phase = "serving" /\ latest[r] # NoJob
  BY DEF SubmitReuse, Submits, Reusable
<1>2. latest[r] \in Stored /\ latest[r] \in Job
  BY <1>1 DEF LatestKnown, NewestIs, Stored
<1>3. TypeOK' /\ acked' \subseteq Stored'
  BY <1>2 DEF SubmitReuse, Submits, OneGoesOn, TypeOK, Stored, serviceVars, fileVars, jobVars, workerVars, phaseVars
<1>4. Unborn' /\ Quiet' /\ Faithful' /\ FilesSound' /\ LatestKnown' /\ OneActiveScan'
  BY DEF SubmitReuse, Unborn, Quiet, Faithful, FaithfulAt, FilesSound, FilesSoundAt, LatestKnown, NewestIs,
         OneActiveScan, ActiveJobs, Stored, serviceVars, fileVars, jobVars, workerVars, phaseVars
<1>5. QueueClaims' /\ WorkerClaims' /\ Claimed' /\ Progress'
  BY DEF SubmitReuse, QueueClaims, WorkerClaims, Claimed, InQueue, InHands, ActiveJobs, Progress, ProgressAt,
         serviceVars, fileVars, workerVars
<1> QED
  BY <1>3, <1>4, <1>5
-----------------------------------------------------------------------------
(* Starting and stopping the server.                                       *)

LEMMA OpenStep ==
  ASSUME IInv, Open
  PROVE  IInv'
<1> USE DEF IInv
<1>1. phase = "down" /\ phase' = "loaded" /\ queue = <<>> /\ \A w \in Worker : hold[w] = NoJob
  BY DEF Open, Quiet
<1>2. /\ mem' \in [Job -> Record] /\ disk' = mem'
      /\ \A j \in Job : mem'[j] = IF j \in Interrupted THEN [stage |-> "failed", report |-> disk[j].report]
                                  ELSE disk[j]
  <2>1. disk \in [Job -> Record]
    BY DEF TypeOK
  <2>2. mem' = MarkFailed(Interrupted) /\ disk' = MarkFailed(Interrupted)
    BY DEF Open
  <2>3. ASSUME NEW j \in Job
        PROVE  /\ MarkFailed(Interrupted)[j] \in Record
               /\ MarkFailed(Interrupted)[j] = IF j \in Interrupted
                                              THEN [stage |-> "failed", report |-> disk[j].report]
                                              ELSE disk[j]
    BY <2>1 DEF MarkFailed, Record, Terminal
  <2>4. MarkFailed(Interrupted) \in [Job -> Record]
    BY <2>3 DEF MarkFailed
  <2> QED
    BY <2>2, <2>3, <2>4
<1>3. \A j \in Job : /\ mem'[j].stage \notin Active
                     /\ mem'[j].stage = "absent" <=> disk[j].stage = "absent"
                     /\ mem'[j].report = disk[j].report
                     /\ mem'[j].stage = "completed" => mem'[j] = disk[j]
  BY <1>2 DEF Interrupted, Stored, TypeOK, Record, Active, Terminal
<1>4. Stored' = Stored /\ ActiveJobs' = {}
  BY <1>2, <1>3 DEF Stored, ActiveJobs
<1>5. /\ latest' \in [Repo -> Job \cup {NoJob}]
      /\ \A r \in Repo : NewestIs(r, latest[r])'
  <2>1. ASSUME NEW r \in Repo
        PROVE  latest'[r] = Newest(r) /\ Newest(r) \in Job \cup {NoJob} /\ NewestIs(r, Newest(r))
    BY NewestExists DEF Open
  <2>2. latest' \in [Repo -> Job \cup {NoJob}]
    BY <2>1 DEF Open
  <2>3. ASSUME NEW r \in Repo PROVE NewestIs(r, latest[r])'
    BY <1>4, <2>1 DEF NewestIs, Open, jobVars
  <2> QED
    BY <2>2, <2>3
<1>6. TypeOK'
  BY <1>2, <1>5 DEF Open, TypeOK, jobVars, workerVars
<1>7. Unborn' /\ Quiet'
  BY <1>1, <1>2, <1>4 DEF Open, Unborn, Quiet, Interrupted, Stored, Absent, jobVars, workerVars
<1>8. Faithful' /\ FilesSound'
  <2>1. ASSUME NEW j \in Job PROVE FaithfulAt(j)' /\ FilesSoundAt(j)'
    BY <1>2, <1>3 DEF Open, FilesSound, FilesSoundAt, FaithfulAt
  <2> QED
    BY <2>1 DEF Faithful, FilesSound
<1>12. LatestKnown' /\ OneActiveScan'
  BY <1>4, <1>5 DEF Open, LatestKnown, OneActiveScan, jobVars
<1>13. QueueClaims' /\ WorkerClaims' /\ Claimed'
  BY <1>1, <1>4 DEF Open, QueueClaims, WorkerClaims, Claimed, workerVars
<1>14. Progress'
  BY <1>1 DEF Open, Progress, ProgressAt, workerVars
<1>16. acked' \subseteq Stored'
  BY <1>4 DEF Open
<1> QED
  BY <1>6, <1>7, <1>8, <1>12, <1>13, <1>14, <1>16

LEMMA OpenFailsStep ==
  ASSUME IInv, OpenFails
  PROVE  IInv'
<1> USE DEF IInv
<1>1. PICK S \in SUBSET Interrupted : disk' = MarkFailed(S)
  BY DEF OpenFails
<1>2. phase = "down" /\ phase' = "down"
  BY DEF OpenFails, phaseVars
<1>3. /\ disk' \in [Job -> Record]
      /\ \A j \in Job : disk'[j] = IF j \in S THEN [stage |-> "failed", report |-> disk[j].report]
                                   ELSE disk[j]
  <2>1. disk \in [Job -> Record]
    BY DEF TypeOK
  <2>2. \A j \in Job : disk'[j] = IF j \in S THEN [stage |-> "failed", report |-> disk[j].report]
                                  ELSE disk[j]
    BY <1>1, <2>1 DEF MarkFailed, Record
  <2>3. ASSUME NEW j \in Job PROVE disk'[j] \in Record
    <3>1. disk[j] \in Record
      BY <2>1
    <3>2. [stage |-> "failed", report |-> disk[j].report] \in Record
      BY <3>1 DEF Record, Terminal
    <3> QED
      BY <2>2, <3>1, <3>2
  <2> QED
    BY <1>1, <2>2, <2>3 DEF MarkFailed
<1>4. Stored' = Stored
  BY <1>3 DEF Interrupted, Stored
<1>5. TypeOK'
  BY <1>3 DEF OpenFails, TypeOK, serviceVars, jobVars, workerVars, phaseVars
<1>6. Unborn' /\ FilesSound'
  BY <1>3 DEF OpenFails, Unborn, FilesSound, FilesSoundAt, Interrupted, Stored, Absent, serviceVars, jobVars
<1>7. Quiet' /\ Faithful' /\ LatestKnown' /\ OneActiveScan' /\ acked' \subseteq Stored'
  BY <1>2, <1>4 DEF OpenFails, Quiet, Faithful, LatestKnown, OneActiveScan, ActiveJobs,
                    serviceVars, jobVars, workerVars
<1>8. QueueClaims' /\ WorkerClaims' /\ Claimed' /\ Progress'
  BY DEF OpenFails, QueueClaims, WorkerClaims, Claimed, InQueue, InHands, ActiveJobs, Progress, ProgressAt,
         serviceVars, workerVars
<1> QED
  BY <1>5, <1>6, <1>7, <1>8

(* Whatever ends the process: the files stay, up to one orphaned scan.     *)
LEMMA ProcessEndsStep ==
  ASSUME IInv, ProcessEnds, UNCHANGED <<disk, repo, acked>>,
         nextJob' \in 1 .. MaxJobs + 1, nextJob' >= nextJob,
         scan' \in [Job -> {"none", "whole", "unusable"}],
         \A j \in Job : scan'[j] = scan[j] \/ scan'[j] = "whole"
  PROVE  IInv'
<1> USE DEF IInv
<1>1. Absent \in Record /\ \A j \in Job : mem'[j] = Absent
  BY DEF ProcessEnds, Absent, Record
<1>2. TypeOK'
  <2>1. queue' \in Seq(Job)
    BY EmptySeq DEF ProcessEnds
  <2> QED
    BY <1>1, <2>1 DEF ProcessEnds, TypeOK
<1>3. Stored' = Stored /\ ActiveJobs' = {}
  BY <1>1 DEF Stored, ActiveJobs, Active, Absent
<1>4. Unborn'
  <2>1. nextJob \in Nat /\ nextJob' \in Nat
    BY LiveServiceAssumption DEF TypeOK
  <2>2. \A j \in Job : j >= nextJob' => j >= nextJob
    BY <2>1, LiveServiceAssumption DEF Job
  <2> QED
    BY <1>1, <2>2 DEF Unborn, Absent
<1>5. Quiet' /\ Faithful' /\ OneActiveScan' /\ acked' \subseteq Stored'
  BY <1>3 DEF ProcessEnds, Quiet, Faithful, OneActiveScan
<1>6. FilesSound' /\ LatestKnown'
  BY <1>3 DEF ProcessEnds, FilesSound, FilesSoundAt, LatestKnown
<1>7. QueueClaims' /\ WorkerClaims' /\ Claimed' /\ Progress'
  BY <1>3 DEF ProcessEnds, QueueClaims, WorkerClaims, Claimed, Progress, ProgressAt
<1> QED
  BY <1>2, <1>4, <1>5, <1>6, <1>7

LEMMA ImportFailsStep ==
  ASSUME IInv, ImportFails
  PROVE  IInv'
<1>1. nextJob \in 1 .. MaxJobs /\ nextJob' = nextJob + 1
  BY LiveServiceAssumption DEF ImportFails, IInv, TypeOK
<1>2. nextJob' \in 1 .. MaxJobs + 1 /\ nextJob' >= nextJob
  BY <1>1, LiveServiceAssumption
<1>3. /\ scan' \in [Job -> {"none", "whole", "unusable"}]
      /\ \A j \in Job : scan'[j] = scan[j] \/ scan'[j] = "whole"
  BY DEF ImportFails, IInv, TypeOK
<1> QED
  BY <1>2, <1>3, ProcessEndsStep DEF ImportFails

LEMMA StopStep ==
  ASSUME IInv, Crash \/ Exit
  PROVE  IInv'
<1>1. ProcessEnds /\ UNCHANGED <<fileVars, jobVars, acked>>
  BY DEF Crash, Exit
<1>2. nextJob' \in 1 .. MaxJobs + 1 /\ nextJob' >= nextJob
  BY <1>1, LiveServiceAssumption DEF IInv, TypeOK, jobVars
<1> QED
  BY <1>1, <1>2, ProcessEndsStep DEF fileVars, jobVars, IInv, TypeOK

(* A refresh reads, or is refused.                                         *)
Refreshes ==
  (\E r \in Repo : RefreshRead(r)) \/ (\E j \in Job : RefreshRefused(j))

LEMMA RefreshesAside ==
  ASSUME IInv, Refreshes
  PROVE  /\ UNCHANGED <<serviceVars, fileVars, jobVars, workerVars, phaseVars, acked>>
         /\ refreshing' \in SUBSET Job
<1>1. ASSUME NEW r \in Repo, RefreshRead(r) PROVE refreshing' \in SUBSET Job
  BY <1>1 DEF RefreshRead, IInv, TypeOK
<1>2. ASSUME NEW j \in Job, RefreshRefused(j) PROVE refreshing' \in SUBSET Job
  BY <1>2 DEF RefreshRefused, IInv, TypeOK
<1>3. UNCHANGED <<serviceVars, fileVars, jobVars, workerVars, phaseVars, acked>>
  BY DEF Refreshes, RefreshRead, RefreshRefused
<1> QED
  BY <1>1, <1>2, <1>3 DEF Refreshes

(* Steps that touch nothing but the life of the server, or its refreshes.  *)
LEMMA PhaseStep ==
  ASSUME IInv, Signal \/ Close \/ Listen \/ UNCHANGED vars \/ Refreshes
  PROVE  IInv'
<1> USE DEF IInv
<1>1. /\ UNCHANGED <<serviceVars, fileVars, jobVars, workerVars, acked>>
      /\ phase' = phase \/ (phase = "loaded" /\ phase' = "serving")
  <2>1. CASE Signal
    BY <2>1 DEF Signal
  <2>2. CASE Close
    BY <2>2 DEF Close
  <2>3. CASE Listen
    BY <2>3 DEF Listen
  <2>4. CASE UNCHANGED vars
    BY <2>4 DEF vars, phaseVars
  <2>5. CASE Refreshes
    BY <2>5, RefreshesAside DEF phaseVars
  <2> QED
    BY <2>1, <2>2, <2>3, <2>4, <2>5
<1>2. TypeOK'
  <2>1. CASE Signal \/ Close \/ Listen \/ UNCHANGED vars
    BY <1>1, <2>1 DEF Signal, Close, Listen, TypeOK, vars, serviceVars, fileVars, jobVars, workerVars, phaseVars
  <2>2. CASE Refreshes
    BY <2>2, RefreshesAside DEF TypeOK, serviceVars, fileVars, jobVars, workerVars, phaseVars
  <2> QED
    BY <2>1, <2>2
<1>3. Quiet'
  BY <1>1 DEF Quiet, ActiveJobs, serviceVars, workerVars
<1>4. Unborn' /\ Faithful' /\ FilesSound' /\ LatestKnown' /\ OneActiveScan' /\ acked' \subseteq Stored'
  BY <1>1 DEF Unborn, Faithful, FaithfulAt, FilesSound, FilesSoundAt, LatestKnown, NewestIs, OneActiveScan,
              ActiveJobs, Stored, serviceVars, fileVars, jobVars, workerVars
<1>5. QueueClaims' /\ WorkerClaims' /\ Claimed' /\ Progress'
  BY <1>1 DEF QueueClaims, WorkerClaims, Claimed, InQueue, InHands, ActiveJobs, Progress, ProgressAt,
              serviceVars, fileVars, workerVars
<1> QED
  BY <1>2, <1>3, <1>4, <1>5

LEMMA NextPreserves == IInv /\ [Next]_vars => IInv'
<1> SUFFICES ASSUME IInv, [Next]_vars PROVE IInv'
  OBVIOUS
<1>1. ASSUME NEW w \in Worker, WorkerStep(w) PROVE IInv'
  BY <1>1, ReceiveStep, StartProfilingStep, DiscoverStep, SaveScanStep, FirstCheckpointStep,
     VisitCandidateStep, AnalysisReturnsStep, FinishStep, WorkerExitsStep DEF WorkerStep
<1>2. ASSUME NEW r \in Repo, Import(r) PROVE IInv'
  BY <1>2, ImportStep
<1>3. ASSUME NEW r \in Repo, NEW from \in Job \cup {NoJob}, SubmitReuse(r, from) \/ SubmitNew(r, from)
      PROVE  IInv'
  BY <1>3, SubmitReuseStep, SubmitNewStep
<1> QED
  BY <1>1, <1>2, <1>3, OpenStep, OpenFailsStep, ImportFailsStep, StopStep, PhaseStep DEF Next, Refreshes

(* The invariant behind all safety results of this module: what the file   *)
(* of each record knows, who claims each job, and how far each worker is,  *)
(* after any history of submissions, crashes and failed saves              *)
(* (service.go:82-318).                                                    *)
THEOREM Inductive == Spec => []IInv
<1>1. Init => IInv
  BY InitEstablishes
<1>2. IInv /\ [Next]_vars => IInv'
  BY NextPreserves
<1> QED
  BY <1>1, <1>2, PTL DEF Spec
-----------------------------------------------------------------------------
(* Properties.                                                             *)

Queued(j) == {i \in DOMAIN queue : queue[i] = j}
Holders(j) == {w \in Worker : hold[w] = j}

LEMMA QueuedSize ==
  ASSUME IInv, NEW j \in Job
  PROVE  Cardinality(Queued(j)) = IF InQueue(j) THEN 1 ELSE 0
<1>1. DOMAIN queue = 1 .. Len(queue)
  BY DEF IInv, TypeOK
<1>2. CASE InQueue(j)
  <2>1. PICK i \in 1 .. Len(queue) : queue[i] = j
    BY <1>2 DEF InQueue
  <2>2. Queued(j) = {i}
    BY <1>1, <2>1 DEF Queued, IInv, QueueClaims
  <2> QED
    BY <1>2, <2>2, FS_Singleton
<1>3. CASE ~InQueue(j)
  <2>1. Queued(j) = {}
    BY <1>1, <1>3 DEF Queued, InQueue
  <2> QED
    BY <1>3, <2>1, FS_EmptySet
<1> QED
  BY <1>2, <1>3

LEMMA HoldersSize ==
  ASSUME IInv, NEW j \in Job
  PROVE  Cardinality(Holders(j)) = IF InHands(j) THEN 1 ELSE 0
<1>1. CASE InHands(j)
  <2>1. PICK w \in Worker : hold[w] = j
    BY <1>1 DEF InHands
  <2>2. j # NoJob
    BY LiveServiceAssumption DEF Job
  <2>3. Holders(j) = {w}
    BY <2>1, <2>2 DEF Holders, IInv, WorkerClaims
  <2> QED
    BY <1>1, <2>3, FS_Singleton
<1>2. CASE ~InHands(j)
  <2>1. Holders(j) = {}
    BY <1>2 DEF Holders, InHands
  <2> QED
    BY <1>2, <2>1, FS_EmptySet
<1> QED
  BY <1>1, <1>2

LEMMA HeldInServing ==
  ASSUME IInv, NEW w \in Worker, hold[w] # NoJob
  PROVE  mem[hold[w]].stage \in Active /\ hold[w] \in Job
<1>1. phase # "down" /\ pc[w] \notin {"idle", "exited"}
  BY DEF IInv, Quiet, Progress, ProgressAt, TypeOK
<1> QED
  BY <1>1, HeldIsActive

LEMMA OneClaim == IInv => NoStrandedJob
<1> SUFFICES ASSUME IInv, NEW j \in Job
             PROVE  Cardinality(Queued(j)) + Cardinality(Holders(j)) = IF j \in ActiveJobs THEN 1 ELSE 0
  BY DEF NoStrandedJob, Queued, Holders
<1>1. InQueue(j) => j \in ActiveJobs /\ ~InHands(j)
  BY DEF IInv, QueueClaims, InQueue, InHands, ActiveJobs, Active
<1>2. InHands(j) => j \in ActiveJobs
  BY HeldInServing, LiveServiceAssumption DEF InHands, ActiveJobs, Job
<1>3. j \in ActiveJobs => InQueue(j) \/ InHands(j)
  BY DEF IInv, Claimed
<1> QED
  BY <1>1, <1>2, <1>3, QueuedSize, HoldersSize

(* A repository has one scan at a time and each unfinished job exactly one *)
(* who will run it, the channel or a worker (service.go:82-166, 168-248).  *)
THEOREM JobsStayAccounted == Spec => []JobsAccounted
<1>1. IInv => JobsAccounted
  BY OneClaim DEF IInv, JobsAccounted
<1> QED
  BY <1>1, Inductive, PTL

(* What clients were told survives any crash and any failed save: their    *)
(* jobs, the latest job of each repository, and what was completed         *)
(* (service.go:82-130, 235-247, 299-318).                                  *)
THEOREM ToldIsOnDisk == Spec => []TruthOnDisk
<1>1. ASSUME IInv PROVE TruthOnDisk
  <2>1. acked \subseteq Stored
    BY <1>1 DEF IInv
  <2>2. ASSUME phase # "down", NEW j \in Stored PROVE mem[j].stage # "absent"
    BY <1>1, <2>2 DEF IInv, Faithful, FaithfulAt, Stored
  <2>3. ASSUME phase # "down", NEW r \in Repo PROVE latest[r] = Newest(r)
    <3>1. NewestIs(r, latest[r]) /\ latest[r] \in Job \cup {NoJob} /\ TypeOK
      BY <1>1, <2>3 DEF IInv, LatestKnown, TypeOK
    <3> QED
      BY <3>1, NewestJob
  <2>4. ASSUME NEW j \in Job, mem[j].stage = "completed" PROVE disk[j] = mem[j] /\ mem[j].report = 0
    <3>1. phase # "down"
      BY <1>1, <2>4 DEF IInv, Quiet, Absent
    <3> QED
      BY <1>1, <2>4, <3>1 DEF IInv, Faithful, FaithfulAt
  <2> QED
    BY <2>1, <2>2, <2>3, <2>4 DEF TruthOnDisk, RestartKeepsEverything, CompletedIsSaved
<1> QED
  BY <1>1, Inductive, PTL

(* Whatever files a crash leaves behind, Open accepts them                 *)
(* (service.go:98-112).                                                    *)
THEOREM NeverRefused == Spec => []ReopenAccepted
<1>1. IInv => ReopenAccepted
  BY DEF IInv, FilesSound, FilesSoundAt, ReopenAccepted, Readable, Stored
<1> QED
  BY <1>1, Inductive, PTL

(* A worker writes no files but those of the job it holds, which is        *)
(* unfinished on disk.                                                     *)
LEMMA WorkerFiles ==
  ASSUME IInv, NEW w \in Worker, WorkerStep(w)
  PROVE  \A j \in Job : disk[j].stage \in Terminal => disk'[j] = disk[j] /\ scan'[j] = scan[j]
<1> SUFFICES ASSUME NEW j \in Job, disk[j].stage \in Terminal
             PROVE  disk'[j] = disk[j] /\ scan'[j] = scan[j]
  OBVIOUS
<1>1. CASE Receive(w) \/ Discover(w) \/ AnalysisReturns(w) \/ WorkerExits(w)
  BY <1>1 DEF Receive, Discover, AnalysisReturns, WorkerExits, fileVars
<1>2. CASE StartProfiling(w) \/ SaveScan(w) \/ FirstCheckpoint(w) \/ VisitCandidate(w) \/ Finish(w)
  <2>1. phase # "down" /\ pc[w] \notin {"idle", "exited"}
    BY <1>2 DEF StartProfiling, SaveScan, FirstCheckpoint, VisitCandidate, Finish, Running
  <2>2. hold[w] \in Job /\ hold[w] # j
    BY <2>1, HeldIsActive DEF Active, Terminal
  <2>3. disk \in [Job -> Record] /\ scan \in [Job -> {"none", "whole", "unusable"}]
    BY DEF IInv, TypeOK
  <2>4. ASSUME NEW saved \in BOOLEAN, Save(hold[w], saved) PROVE disk'[j] = disk[j]
    BY <2>2, <2>3, <2>4 DEF Save
  <2>5. CASE StartProfiling(w) \/ Finish(w)
    BY <2>4, <2>5 DEF StartProfiling, Finish
  <2>6. CASE SaveScan(w)
    BY <2>2, <2>3, <2>6 DEF SaveScan
  <2>7. ASSUME NEW n, NEW rest, NEW failed, Checkpoint(w, n, rest, failed)
        PROVE  disk'[j] = disk[j] /\ scan'[j] = scan[j]
    BY <2>4, <2>7 DEF Checkpoint
  <2>8. CASE FirstCheckpoint(w) \/ VisitCandidate(w)
    BY <2>7, <2>8 DEF FirstCheckpoint, VisitCandidate
  <2> QED
    BY <1>2, <2>5, <2>6, <2>8
<1> QED
  BY <1>1, <1>2 DEF WorkerStep

LEMMA FreshId ==
  ASSUME IInv, nextJob <= MaxJobs
  PROVE  nextJob \in Job /\ mem[nextJob].stage = "absent" /\ disk[nextJob].stage = "absent"
<1>1. nextJob \in Job /\ nextJob >= nextJob
  BY LiveServiceAssumption DEF IInv, TypeOK, Job
<1> QED
  BY <1>1 DEF IInv, Unborn, Absent

LEMMA FilesFrozenStep ==
  ASSUME IInv, [Next]_vars
  PROVE  \A j \in Job : disk[j].stage \in Terminal => disk'[j] = disk[j] /\ scan'[j] = scan[j]
<1> SUFFICES ASSUME NEW j \in Job, disk[j].stage \in Terminal
             PROVE  disk'[j] = disk[j] /\ scan'[j] = scan[j]
  OBVIOUS
<1>1. ASSUME NEW w \in Worker, WorkerStep(w) PROVE disk'[j] = disk[j] /\ scan'[j] = scan[j]
  BY <1>1, WorkerFiles
<1>2. ASSUME NEW S \in SUBSET Interrupted, disk' = MarkFailed(S) PROVE disk'[j] = disk[j]
  BY <1>2 DEF MarkFailed, Interrupted
<1>3. CASE Open \/ OpenFails
  BY <1>2, <1>3 DEF Open, OpenFails
<1>4. CASE Crash \/ Signal \/ Close \/ Exit \/ Listen \/ UNCHANGED vars \/ Refreshes
  BY <1>4, RefreshesAside DEF Crash, Signal, Close, Exit, Listen, vars, fileVars
<1>5. nextJob <= MaxJobs => nextJob # j
  BY FreshId DEF Terminal
<1>6. disk \in [Job -> Record] /\ scan \in [Job -> {"none", "whole", "unusable"}]
  BY DEF IInv, TypeOK
<1>7. CASE ImportFails
  BY <1>5, <1>6, <1>7 DEF ImportFails
<1>8. ASSUME NEW r \in Repo, NEW rec, Publish(r, rec) PROVE disk'[j] = disk[j] /\ nextJob # j
  BY <1>5, <1>6, <1>8 DEF Publish
<1>9. ASSUME NEW r \in Repo, Import(r) PROVE disk'[j] = disk[j] /\ scan'[j] = scan[j]
  BY <1>6, <1>8, <1>9 DEF Import
<1>10. ASSUME NEW r \in Repo, NEW from \in Job \cup {NoJob}, SubmitReuse(r, from) \/ SubmitNew(r, from)
       PROVE  disk'[j] = disk[j] /\ scan'[j] = scan[j]
  BY <1>8, <1>10 DEF SubmitReuse, SubmitNew, fileVars
<1> QED
  BY <1>1, <1>3, <1>4, <1>7, <1>9, <1>10 DEF Next, Refreshes

(* No later refresh, restart or late worker changes the files of a job     *)
(* that is finished on disk (docs/e2e-integration.md:71).                  *)
THEOREM FilesStayFrozen == Spec => FinishedFilesFrozen
<1>1. IInv /\ [Next]_vars =>
        [\A j \in Job : disk[j].stage \in Terminal => disk'[j] = disk[j] /\ scan'[j] = scan[j]]_vars
  BY FilesFrozenStep
<1> QED
  BY <1>1, Inductive, PTL DEF Spec, FinishedFilesFrozen

-----------------------------------------------------------------------------
(* The implementation of JobBoard.                                         *)

(* What may happen to the stage a client reads.                            *)
Kept(old, new) == new = old \/ <<old, new>> \in LiveMove

LEMMA BoardStep ==
  ASSUME \A j \in Job : Kept(View[j], View'[j])
  PROVE  Board!Next
<1>1. View' = [j \in Job |-> View'[j]]
  BY DEF View
<1> QED
  BY <1>1 DEF Kept, Board!Next, Board!Advance

LEMMA WorkerBoard ==
  ASSUME IInv, NEW w \in Worker, WorkerStep(w)
  PROVE  \A j \in Job : Kept(View[j], View'[j])
<1>1. phase # "down" /\ phase' # "down"
  BY DEF WorkerStep, Receive, StartProfiling, Discover, SaveScan, FirstCheckpoint, VisitCandidate,
         Checkpoint, AnalysisReturns, Finish, WorkerExits, Running, phaseVars
<1> SUFFICES ASSUME NEW j \in Job PROVE Kept(mem[j].stage, mem'[j].stage)
  BY <1>1 DEF View
<1>2. CASE Receive(w) \/ Discover(w) \/ SaveScan(w) \/ AnalysisReturns(w) \/ WorkerExits(w)
  BY <1>2 DEF Receive, Discover, SaveScan, AnalysisReturns, WorkerExits, serviceVars, Kept
<1>3. pc[w] \notin {"idle", "exited"} => hold[w] \in Job /\ mem[hold[w]].stage \in Active
  BY <1>1, HeldIsActive
<1>4. mem \in [Job -> Record] /\ ProgressAt(w)
  BY DEF IInv, TypeOK, Progress
<1>5. CASE StartProfiling(w)
  BY <1>3, <1>4, <1>5 DEF StartProfiling, Running, ProgressAt, Kept, LiveMove
<1>6. ASSUME NEW n, NEW rest, NEW failed \in BOOLEAN, pc[w] \in {"prepared", "visiting"}, Checkpoint(w, n, rest, failed)
      PROVE  Kept(mem[j].stage, mem'[j].stage)
  BY <1>3, <1>4, <1>6 DEF Checkpoint, ProgressAt, Kept, LiveMove
<1>7. CASE FirstCheckpoint(w) \/ VisitCandidate(w)
  <2>1. pc[w] \in {"prepared", "visiting"}
    BY <1>7 DEF FirstCheckpoint, VisitCandidate, Running
  <2>2. CASE FirstCheckpoint(w)
    BY <1>6, <2>1, <2>2 DEF FirstCheckpoint
  <2>3. CASE VisitCandidate(w)
    <3>1. \/ Checkpoint(w, mem[hold[w]].report - 1, left[w] - 1, FALSE)
          \/ Checkpoint(w, mem[hold[w]].report, left[w] - 1, TRUE)
      BY <2>3 DEF VisitCandidate
    <3> QED
      BY <1>6, <2>1, <3>1
  <2> QED
    BY <1>7, <2>2, <2>3
<1>8. CASE Finish(w)
  <2>1. pc[w] = "finishing"
    BY <1>8 DEF Finish, Running
  <2>2. PICK outcome \in {"failed", Outcome(w)} : mem' = [mem EXCEPT ![hold[w]].stage = outcome]
    BY <1>8 DEF Finish
  <2>3. outcome = "failed" \/ (outcome = "completed" /\ ~erred[w])
    BY <2>2 DEF Outcome
  <2>4. outcome = "completed" => mem[hold[w]].stage = "analyzing"
    BY <1>4, <2>1, <2>3 DEF ProgressAt
  <2>5. CASE j = hold[w]
    BY <1>3, <1>4, <2>1, <2>2, <2>3, <2>4, <2>5 DEF Kept, LiveMove
  <2>6. CASE j # hold[w]
    BY <1>4, <2>2, <2>6 DEF Kept
  <2> QED
    BY <2>5, <2>6
<1> QED
  BY <1>2, <1>5, <1>7, <1>8 DEF WorkerStep

(* A process that ends shows its unfinished jobs failed, or would.         *)
LEMMA EndBoard ==
  ASSUME IInv, ProcessEnds, phase # "down", disk' = disk
  PROVE  \A j \in Job : Kept(View[j], View'[j])
<1> SUFFICES ASSUME NEW j \in Job PROVE Kept(View[j], View'[j])
  OBVIOUS
<1>1. View[j] = mem[j].stage /\ View'[j] = IF disk[j].stage \in Active THEN "failed" ELSE disk[j].stage
  BY DEF View, ProcessEnds
<1>2. FaithfulAt(j) /\ mem[j] \in Record /\ disk[j] \in Record
  BY DEF IInv, TypeOK, Faithful
<1>3. CASE disk[j].stage \in Active
  <2>1. mem[j].stage \in Active \cup {"failed"}
    BY <1>2, <1>3 DEF FaithfulAt, Record, Active, Terminal
  <2> QED
    BY <1>1, <1>3, <2>1 DEF Kept, LiveMove
<1>4. CASE disk[j].stage \notin Active
  BY <1>1, <1>2, <1>4 DEF FaithfulAt, Record, Terminal, Kept
<1> QED
  BY <1>3, <1>4

(* Open and a failing Open show what was promised while it was down.       *)
LEMMA OpenBoard ==
  ASSUME IInv, Open \/ OpenFails
  PROVE  \A j \in Job : View'[j] = View[j]
<1> SUFFICES ASSUME NEW j \in Job PROVE View'[j] = View[j]
  OBVIOUS
<1>1. phase = "down" /\ View[j] = IF disk[j].stage \in Active THEN "failed" ELSE disk[j].stage
  BY DEF Open, OpenFails, View
<1>2. disk[j] \in Record /\ (disk[j].stage \in Active <=> j \in Interrupted)
  BY DEF IInv, TypeOK, Record, Interrupted, Stored, Active, Terminal
<1>3. ASSUME NEW S \in SUBSET Interrupted
      PROVE  MarkFailed(S)[j].stage = IF j \in S THEN "failed" ELSE disk[j].stage
  BY <1>2 DEF MarkFailed, Record
<1>4. CASE Open
  <2>1. View'[j] = mem'[j].stage /\ mem' = MarkFailed(Interrupted)
    BY <1>4 DEF Open, View
  <2> QED
    BY <1>1, <1>2, <1>3, <2>1
<1>5. CASE OpenFails
  <2>1. PICK S \in SUBSET Interrupted : disk' = MarkFailed(S)
    BY <1>5 DEF OpenFails
  <2>2. View'[j] = IF disk'[j].stage \in Active THEN "failed" ELSE disk'[j].stage
    BY <1>1, <1>5 DEF OpenFails, View, phaseVars
  <2> QED
    BY <1>1, <1>2, <1>3, <2>1, <2>2 DEF Active
<1> QED
  BY <1>4, <1>5

LEMMA RegisterBoard ==
  ASSUME IInv, NEW r \in Repo, NEW rec, Publish(r, rec), phase # "down", phase' # "down",
         rec.stage \in {"queued", "completed", "failed"}
  PROVE  \A j \in Job : Kept(View[j], View'[j])
<1> SUFFICES ASSUME NEW j \in Job PROVE Kept(mem[j].stage, mem'[j].stage)
  BY DEF View
<1>1. mem \in [Job -> Record] /\ nextJob \in Job /\ mem[nextJob].stage = "absent"
  BY FreshId DEF IInv, TypeOK, Publish
<1> QED
  BY <1>1 DEF Publish, Kept, LiveMove

LEMMA BoardNext == IInv /\ [Next]_vars => [Board!Next]_View
<1> SUFFICES ASSUME IInv, [Next]_vars PROVE Board!Next
  OBVIOUS
<1> SUFFICES \A j \in Job : Kept(View[j], View'[j])
  BY BoardStep
<1>1. ASSUME NEW w \in Worker, WorkerStep(w) PROVE \A j \in Job : Kept(View[j], View'[j])
  BY <1>1, WorkerBoard
<1>2. CASE Open \/ OpenFails
  BY <1>2, OpenBoard DEF Kept
<1>3. CASE Crash \/ ImportFails \/ Exit
  <2>1. ProcessEnds /\ disk' = disk
    BY <1>3 DEF Crash, ImportFails, Exit, fileVars
  <2>2. CASE phase # "down"
    BY <2>1, <2>2, EndBoard
  <2>3. CASE phase = "down"
    BY <2>1, <2>3 DEF View, ProcessEnds, Kept
  <2> QED
    BY <2>2, <2>3
<1>4. CASE Signal \/ Close \/ Listen \/ UNCHANGED vars \/ Refreshes
  <2>1. mem' = mem /\ disk' = disk /\ (phase' = "down" <=> phase = "down")
    BY <1>4, RefreshesAside DEF Signal, Close, Listen, vars, serviceVars, fileVars, phaseVars
  <2> QED
    BY <2>1 DEF View, Kept
<1>5. ASSUME NEW r \in Repo, Import(r) PROVE \A j \in Job : Kept(View[j], View'[j])
  BY <1>5, RegisterBoard DEF Import
<1>6. ASSUME NEW r \in Repo, NEW from \in Job \cup {NoJob}, SubmitNew(r, from)
      PROVE  \A j \in Job : Kept(View[j], View'[j])
  BY <1>6, RegisterBoard DEF SubmitNew, Submits, phaseVars
<1>7. ASSUME NEW r \in Repo, NEW from \in Job \cup {NoJob}, SubmitReuse(r, from)
      PROVE  \A j \in Job : Kept(View[j], View'[j])
  BY <1>7 DEF SubmitReuse, View, Kept, serviceVars, fileVars, phaseVars
<1> QED
  BY <1>1, <1>2, <1>3, <1>4, <1>5, <1>6, <1>7 DEF Next, Refreshes

LEMMA BoardInit == Init => Board!Init
BY DEF Init, Board!Init, View, Absent, Active

(* Across crashes, restarts and failed saves a client sees each job move   *)
(* forward only, and a completed or failed job stay what it is: the        *)
(* service implements JobBoard (service.go:82-318).                        *)
THEOREM BoardImplemented == Spec => ImplementsBoard
<1>1. Spec => [][Board!Next]_View
  BY BoardNext, Inductive, PTL DEF Spec
<1>2. Spec => Board!Init
  BY BoardInit DEF Spec
<1> QED
  BY <1>1, <1>2 DEF ImplementsBoard, Board!Spec
=============================================================================

------------------------------ MODULE JobBoard ------------------------------
(***************************************************************************)
(* What a client that polls a job id is promised, whichever of the two job *)
(* services answers: a job is registered in its first stage, moves along   *)
(* the permitted moves only, and never leaves a final stage except by      *)
(* being forgotten, where the service may forget at all.                   *)
(*                                                                         *)
(* ScanJobs implements it with the table of scanjob.Manager; LiveService   *)
(* implements it across crashes and restarts, with the records on disk.    *)
(***************************************************************************)
CONSTANTS
  Job,      \* the job ids a client may hold
  Unknown,  \* what the API answers for an id that was never registered
  Move      \* the permitted moves, as pairs <<stage, next stage>>

VARIABLE board  \* board[j]: the stage a client polling j reads

Init == board = [j \in Job |-> Unknown]

(* Several jobs may move in one step: a submission can evict another job,  *)
(* and a crash ends every unfinished job at once.                          *)
Advance(j) == <<board[j], board'[j]>> \in Move

Next ==
  /\ board' = [j \in Job |-> board'[j]]
  /\ \A j \in Job : board'[j] = board[j] \/ Advance(j)

Spec == Init /\ [][Next]_board
=============================================================================

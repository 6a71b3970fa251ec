----------------------------- MODULE DirStream ------------------------------
(***************************************************************************)
(* What the callers of ReadDir rely on (cache.go:94-100, and the contract  *)
(* of os.File.ReadDir it names): each open file is a stream that delivers  *)
(* the entries of its directory once, in their native order, in batches.   *)
(***************************************************************************)
EXTENDS Naturals, Sequences

CONSTANTS
  File,     \* open directories
  Entries,  \* Entries[f]: the entries of the directory f is open on
  Batch     \* the n of a call; 0 stands for every n <= 0, all that is left

VARIABLES
  pos,      \* pos[f]: how many entries f has delivered
  reply     \* the last call of ReadDir and what it returned

Init ==
  /\ pos = [f \in File |-> 0]
  /\ reply = <<>>

Left(f) == Len(Entries[f]) - pos[f]

Due(f, n) == IF n = 0 \/ Left(f) < n THEN Left(f) ELSE n

Deliver(f, n, count, err) ==
  /\ pos' = [pos EXCEPT ![f] = @ + count]
  /\ reply' = [file |-> f, n |-> n, err |-> err,
               entries |-> SubSeq(Entries[f], pos[f] + 1, pos[f] + count)]

(* A call delivers what is due; the end is reported when there is nothing  *)
(* left, except to a caller that asked for all; a failure may cut it short.*)
ReadDir(f, n) ==
  \/ (n = 0 \/ Left(f) > 0) /\ Deliver(f, n, Due(f, n), "nil")
  \/ n > 0 /\ Left(f) = 0 /\ Deliver(f, n, 0, "EOF")
  \/ \E count \in 0 .. Due(f, n) : Deliver(f, n, count, "failed")

Next == \E f \in File, n \in Batch : ReadDir(f, n)

Spec == Init /\ [][Next]_<<pos, reply>>
=============================================================================

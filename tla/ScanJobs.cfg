\* Two workers, a table and a channel of two, three submissions: a full table,
\* an eviction, expiry in the channel and a stop at any moment all happen.
SPECIFICATION Spec
CONSTANTS
  Job = {j1, j2, j3}
  Worker = {w1, w2}
  Capacity = 2
  NoJob = NoJob
INVARIANTS
  SendNeverBlocks
  NoStrandedJob
  TableConsistent
PROPERTIES
  ImplementsBoard
  EveryJobSettles

\* One worker suffices: the deadline passes between its two reads of a context.
SPECIFICATION Spec
CONSTANTS
  Job = {j1, j2}
  Worker = {w1}
  Capacity = 1
  NoJob = NoJob
INVARIANT
  CanceledMeansStopped

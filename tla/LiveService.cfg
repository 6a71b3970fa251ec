\* Two repositories, three registrations: two jobs at once, refreshes of a
\* finished repository while another scan runs, crashes at every step.
SPECIFICATION Spec
CONSTANTS
  Repo = {r1, r2}
  MaxJobs = 3
  Worker = {w1, w2}
  Capacity = 2
  Candidates = 1
  NoReport = NoReport
  NoJob = NoJob
  NoRepo = NoRepo
SYMMETRY
  Symmetry
INVARIANTS
  JobsAccounted
  TruthOnDisk
  ReopenAccepted
PROPERTIES
  FinishedFilesFrozen
  ImplementsBoard

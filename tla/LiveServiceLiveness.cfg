\* One worker, one repository, a registration and a refresh: every job settles
\* whatever fails, stops or crashes.
SPECIFICATION Spec
CONSTANTS
  Repo = {r1}
  MaxJobs = 2
  Worker = {w1}
  Capacity = 1
  Candidates = 2
  NoReport = NoReport
  NoJob = NoJob
  NoRepo = NoRepo
PROPERTY
  EveryJobSettles

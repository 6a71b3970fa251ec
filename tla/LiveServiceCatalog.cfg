\* A refresh is enough: the list of saved analyses loses a repository whose
\* earlier analysis is still saved.
SPECIFICATION Spec
CONSTANTS
  Repo = {r1}
  MaxJobs = 2
  Worker = {w1}
  Capacity = 1
  Candidates = 1
  NoReport = NoReport
  NoJob = NoJob
  NoRepo = NoRepo
INVARIANT
  SavedAnalysisListed

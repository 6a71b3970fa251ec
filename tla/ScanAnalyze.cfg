\* Three candidates: every limit, every set of unprepared ones, any number of
\* runs, cancellations, failed checkpoints and crashes.
SPECIFICATION Spec
CONSTANTS
  N = 3
  NoReport = NoReport
INVARIANTS
  WellFormed
  ReturnIsHonest
  AskedOnlyForMissing
PROPERTIES
  OutputsKept
  EveryRunReturns

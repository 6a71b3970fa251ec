\* Two callers, three queries and a cache of two entries; the bodies of two
\* queries may exceed the budget of bytes, and the one of results.
SPECIFICATION Spec
CONSTANTS
  Query = {q1, q2, q3}
  Caller = {c1, c2}
  small = small
  large = large
  Body = {small, large}
  Bytes <- MCBytes
  Results <- MCResults
  MaxEntries = 2
  MaxBytes = 3
  MaxResults = 2
  MaxQueries = 2
INVARIANTS
  SingleFlight
  EvidenceAgrees
  WithinBudget
PROPERTIES
  CancellationNotCached
  EveryEnrichEnds

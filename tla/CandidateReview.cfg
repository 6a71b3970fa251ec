\* Scans of two advisories over three sets of components, and lists of up to three
\* CVEs; an answer of the model cites at most two ids per list, known or not.
SPECIFICATION Spec
CONSTANTS
  Cve <- MCCve
  Pinned <- MCPinned
  NoPurl = NoPurl
  MaxEvidence = 4
  Snapshots <- MCSnapshots
  Profile <- MCProfile
  Batches <- MCBatches
  Foreign = Foreign
  MaxCites = 2
INVARIANTS
  EveryHitPrepared
  AssessedHonestly
  OutputsRevalidate
  NothingDropped
PROPERTIES
  ReviewEnds

\* Depth limits of 4 and 2 directories; three records wanted in NVD pages of two,
\* three changes at most; OSV batches of two queries and three pages.
SPECIFICATION CollectionSpec
CONSTANTS
  Deep = 4
  Shallow = 2
  MaxGoFiles = 1
  Trees <- MCTrees
  Databases <- MCDatabases
  NewRecords <- MCNewRecords
  Now = 4
  From = 3
  Count = 3
  PageSize = 2
  Width = 1
  MaxRequests = 6
  MaxChanges = 3
  Catalogs <- MCCatalogs
  BatchSize = 2
  MaxPages = 3
  BadId = BadId
INVARIANTS
  EveryManifestAccounted
  NoStableSkipped
  DiscoveryHonest
PROPERTIES
  CollectionEnds

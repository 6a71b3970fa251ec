SPECIFICATION Spec
CONSTANTS
  Url = {"url"}
  Analysis = {"head", "tag"}
  UrlOf <- MCUrlOf
  HeadOf <- MCHead
  Article = {1, 2, 3}
  Linked = {2}
  Contents <- MCContents
  Servers <- MCServers
  PageSize = 1
  MaxJobChecks = 2
  MaxMoves = 4
  MaxReads = 2
  Everything = Everything
  None = None
INVARIANTS
  ShownBelongs
  RegisteredOnce
  NoSilentLoss
PROPERTIES
  EverythingSettles

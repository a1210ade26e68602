SPECIFICATION FairSpec
CONSTANTS
  u = u
  v = v
  n1 = n1
  n2 = n2
  None = None
  Handlers = {h1, h2}
  Controllers = {}
  FileIds = {u, v}
  Names = {n1, n2}
  Headers <- PlainHeaders
  StreamLen <- TwoUploads
  ConfigTtl = 1
  NewTtls = {1}
  MaxTtl = 1
  MaxDeliveries = 1
  MaxCrashes = 0
  MaxFsErrors = 0
INVARIANTS TypeOK PublishedIntact CompleteIsAssembled
PROPERTIES FreshFilesKept PatchDirsExpire

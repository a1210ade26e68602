SPECIFICATION Spec
CONSTANTS
  u = u
  v = v
  n1 = n1
  n2 = n2
  None = None
  Handlers = {h1}
  Controllers = {}
  FileIds = {u, v}
  Names = {n1, n2}
  Headers <- SharedHeaders
  StreamLen <- TwoUploads
  ConfigTtl = 1
  NewTtls = {1}
  MaxTtl = 1
  MaxDeliveries = 1
  MaxCrashes = 0
  MaxFsErrors = 0
PROPERTIES FreshFilesKept

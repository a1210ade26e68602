SPECIFICATION Spec
CONSTANTS
  u = u
  v = v
  n1 = n1
  n2 = n2
  None = None
  Handlers = {h1, h2}
  Controllers = {c1}
  FileIds = {u, v}
  Names = {n1, n2}
  Headers <- TtlHeaders
  StreamLen <- TwoUploads
  ConfigTtl = 1
  NewTtls = {0, 2}
  MaxTtl = 3
  MaxDeliveries = 1
  MaxCrashes = 0
  MaxFsErrors = 1
INVARIANTS ManifestAgrees VerifiedOnly TtlPropagated

SPECIFICATION ApiSpec
CONSTANTS
  Threads = {t1, t2}
  Requests = {r1, r2, r3}
  Providers = {"openai", "xai"}
  Settings <- SomeSettings
  Shapes <- SomeShapes
  BaseBackoff = 1
  MaxBackoff = 1
  Nobody = "nobody"
  Watched = "openai"
  MaxBuffered = 3
  MaxBeats = 2
  Workers = {w1, w2}
  Calls = {"c1", "c2", "c3"}
  Filtered = {"c1", "c2"}
  CompanyOf <- SomeCompanies
  RouteProvider <- SomeProviders
  Latencies = {4}
  Traceparents <- SomeTraceparents
  Bounds <- TwoBounds
  Enabled = TRUE
  Nil = "none"
INVARIANTS
  ApiTypeOK
  OvershootBounded
  EventsArrive
  BufferAccounted
  ClosedIsQuiet
  CountedOnce
  SpansAreSeparate
  LinesAreOwn
PROPERTIES
  ImplementsBreaker
  RequestAnswered
  AdviceCompletes
CHECK_DEADLOCK FALSE

\* Two requests served at once, over every method, path and version kind,
\* with a URL that names the module, none, or another one.
CONSTANTS
  Reqs = {r1, r2}
  Methods = {"GET", "POST"}
  Paths = {"/", "/C", "/mod/std", "bad", "unit"}
  Versions = {"latest", "master", "v1.0.0", "other"}
  Modules = {m1, m2}
  Unknown = Unknown
SPECIFICATION Spec
INVARIANTS
  FetchForResolvedModule
  MetricTagsBounded
PROPERTIES
  FetchGoroutineEnds
  ResponseWrittenOnce
\* Every handler and goroutine stops once it has answered or given up.
CHECK_DEADLOCK FALSE

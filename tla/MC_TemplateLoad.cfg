\* Four goroutines call LoadTemplates at once; every template parses.
CONSTANTS
  Procs = {p1, p2, p3, p4}
  Failing = {}
  NoProc = NoProc
SPECIFICATION Spec
INVARIANTS
  LoadedAtMostOnce
  RenderSeesTemplates
PROPERTIES
  AllCallersFinish
  OnceSpec
\* Every goroutine stops once it has rendered or panicked.
CHECK_DEADLOCK FALSE

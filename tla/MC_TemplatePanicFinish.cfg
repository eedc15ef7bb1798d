\* Four goroutines call LoadTemplates; outline.tmpl does not parse, and the
\* panic out of the first call is recovered.
CONSTANTS
  Procs = {p1, p2, p3, p4}
  Failing = {"outline"}
  NoProc = NoProc
SPECIFICATION Spec
PROPERTIES
  AllCallersFinish
  OnceSpec
CHECK_DEADLOCK FALSE

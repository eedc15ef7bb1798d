\* Four goroutines call LoadTemplates; outline.tmpl does not parse, and the
\* panic out of the first call is recovered (as net/http does for a handler).
CONSTANTS
  Procs = {p1, p2, p3, p4}
  Failing = {"outline"}
  NoProc = NoProc
SPECIFICATION Spec
INVARIANT
  RenderSeesTemplates
CHECK_DEADLOCK FALSE

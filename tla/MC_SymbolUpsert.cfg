\* Two versions of one package with two symbols, documented for all builds
\* or per build (linux, windows), either of them possibly a command.
CONSTANTS
  Versions = {v1, v2}
  Pkgs = {pa}
  Syms = {s1, s2}
  Goos = {"all", "linux", "windows"}
  NoVersion = NoVersion
  None = None
INIT Init
NEXT Next
INVARIANTS
  DocumentIsPreferredBuild
  NeverAffectsTwice
\* Workers may stop calling: every state is a possible end.
CHECK_DEADLOCK FALSE

CONSTANTS
  A = A
  t1 = t1
  Types = {}
  Stems = {A}
  BadChar = BadChar
  Texts = {t1}
  NoLead = NoLead
  NoRecv = NoRecv
  NoParam = NoParam
  NoPos = NoPos
  NoGopo = NoGopo
  PkgScope = PkgScope
  NoFullName = NoFullName
  MaxSpecs = 1
  Decls <- MCDecls
  Gopos <- MCGopos
INIT RenderInit
NEXT Next
INVARIANT EveryDeclOnce
\* Transform is a single synchronous pass: it stops once the page is rendered.
CHECK_DEADLOCK FALSE

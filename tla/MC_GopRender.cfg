CONSTANTS
  A = A
  B = B
  C = C
  T = T
  t1 = t1
  t2 = t2
  Types = {T}
  Stems = {A, B, C}
  BadChar = BadChar
  Texts = {t1, t2}
  NoLead = NoLead
  NoRecv = NoRecv
  NoParam = NoParam
  NoPos = NoPos
  NoGopo = NoGopo
  PkgScope = PkgScope
  NoFullName = NoFullName
  MaxSpecs = 3
  Decls <- MCDecls
  Gopos <- MCGopos
INIT RenderInit
NEXT Next
INVARIANTS
  RenderTypeOK
  AnchorIsFuncId
  DocShownIsSource
  AnchorsUnique
\* Transform is a single synchronous pass: it stops once the page is rendered.
CHECK_DEADLOCK FALSE

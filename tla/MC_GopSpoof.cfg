CONSTANTS
  F = F
  G = G
  t1 = t1
  Types = {}
  Stems = {F, G}
  BadChar = BadChar
  Texts = {t1}
  NoLead = NoLead
  NoRecv = NoRecv
  NoParam = NoParam
  NoPos = NoPos
  NoGopo = NoGopo
  PkgScope = PkgScope
  NoFullName = NoFullName
  MaxSpecs = 1
  Decls <- MCDecls
  Gopos <- MCGopos
INIT RenderInit
NEXT Next
INVARIANT AnchorsUnique
CHECK_DEADLOCK FALSE

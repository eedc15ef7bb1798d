CONSTANTS
  AddInt = AddInt  AddString = AddString  Gop_Add = Gop_Add
  DivisionInt = DivisionInt  DivisionFoo = DivisionFoo  Division = Division
  OnKey = OnKey  Add = Add  AddStringFn = AddStringFn  Bar = Bar  Mul = Mul
  MulInt = MulInt  MulFloat = MulFloat  AddO = AddO
  T1 = T1  Foo = Foo  N = N  T2 = T2
  tAddInt = tAddInt  tAddString = tAddString  tAdd = tAdd  tOnKey0 = tOnKey0
  tOnKey1 = tOnKey1  tOnKey2 = tOnKey2  tBar = tBar  tBar1 = tBar1  tBar2 = tBar2
  tMulInt = tMulInt  tMul1 = tMul1  tMulFloat = tMulFloat  tAdd0 = tAdd0
  tAdd1 = tAdd1  tNone = tNone
  Types = {T1, Foo, N, T2}
  Stems = {AddInt, AddString, Gop_Add, DivisionInt, DivisionFoo, Division, OnKey,
           Add, AddStringFn, Bar, Mul, MulInt, MulFloat, AddO}
  Texts = {tAddInt, tAddString, tAdd, tOnKey0, tOnKey1, tOnKey2, tBar, tBar1,
           tBar2, tMulInt, tMul1, tMulFloat, tAdd0, tAdd1, tNone}
  BadChar = BadChar
  NoLead = NoLead
  NoRecv = NoRecv
  NoParam = NoParam
  NoPos = NoPos
  NoGopo = NoGopo
  PkgScope = PkgScope
  NoFullName = NoFullName
  MaxSpecs = 3
  Decls <- TestDecls
  Gopos <- TestGopos
INIT TestInit
NEXT Next
INVARIANTS
  DocMatchesTests
\* Transform is a single synchronous pass: it stops once the page is rendered.
CHECK_DEADLOCK FALSE

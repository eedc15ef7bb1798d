------------------------------ MODULE GopTests ------------------------------
(***************************************************************************)
(* The packages of the resolver's tests and what the tests expect of them: *)
(* src/internal/gopdoc/z_test.go (TestGopoMethod, TestGopoMethod2,         *)
(* TestGoOverloadMethod, TestGopoFn, TestOverloadFn, TestOverloadMethod)   *)
(* and src/internal/godoc/render_gop_test.go over                          *)
(* src/internal/godoc/dochtml/testdata/overload.go.  They pin down the     *)
(* spec-modelled definitions of GopDoc to the behaviour the repository     *)
(* tests.  Each test's expectation is the set of printed functions: FuncId,*)
(* display name, Recv and Doc (printFunc, z_test.go).                      *)
(***************************************************************************)
EXTENDS GopRender

CONSTANTS
  AddInt, AddString, Gop_Add, DivisionInt, DivisionFoo, Division, OnKey,
  Add, AddStringFn, Bar, Mul, MulInt, MulFloat, AddO, \* identifier stems
  T1, Foo, N, T2,                                  \* types
  tAddInt, tAddString, tAdd, tOnKey0, tOnKey1, tOnKey2, tBar, tBar1, tBar2,
  tMulInt, tMul1, tMulFloat, tAdd0, tAdd1, tNone   \* doc comments

Nm(stem, tail) == [stem |-> stem, tail |-> tail]
Sfx(stem, c) == Nm(stem, <<<<c>>>>)
Fn(stem, tail, t, first) ==
  [scope |-> PkgScope, name |-> Nm(stem, tail), doc |-> [lead |-> NoLead, text |-> t],
   recv |-> NoRecv, first |-> first]
Mth(typ, stem, tail, t) ==
  [scope |-> typ, name |-> Nm(stem, tail), doc |-> [lead |-> NoLead, text |-> t],
   recv |-> typ, first |-> NoParam]
Self == [kind |-> "self"]
M(stem) == [kind |-> "method", name |-> Nm(stem, <<>>)]
F(stem) == [kind |-> "func", name |-> Nm(stem, <<>>)]
Pkg(ds, gs) == [marker |-> TRUE, decls |-> ds, gopos |-> gs]

\* What printFunc prints of a view: FuncId, Name, Recv and, as doc, the
\* given sequence of doc lines.
Printed(v, doc) == [id |-> IdOf(v), name |-> v.name, recv |-> v.recv, doc |-> doc]
Out(id, name, recv, t) == [id |-> id, name |-> name, recv |-> recv, doc |-> <<[text |-> t]>>]
FId(scope, stem, tail) == [scope |-> scope, name |-> Nm(stem, tail)]

TestGopoMethod ==
  Pkg({Mth(T1, AddInt, <<>>, tAddInt), Fn(AddString, <<>>, tAddString, T1)},
      {[scope |-> T1, name |-> Nm(Gop_Add, <<>>), specs |-> <<M(AddInt), F(AddString)>>]})
TestGopoMethodWant ==
  { Out(FId(PkgScope, AddString, <<>>), Nm(AddString, <<>>), NoRecv, tAddString),
    Out(FId(T1, AddInt, <<>>), Nm(AddInt, <<>>), T1, tAddInt),
    Out(FId(T1, Gop_Add, <<>>), Nm(Gop_Add, <<>>), T1, tAddInt),
    Out(FId(T1, Gop_Add, <<<<1>>>>), Nm(Gop_Add, <<>>), T1, tAddString) }

TestGopoMethod2 ==
  Pkg({Mth(Foo, DivisionInt, <<>>, tNone), Mth(Foo, DivisionFoo, <<>>, tNone)},
      {[scope |-> Foo, name |-> Nm(Division, <<>>),
        specs |-> <<M(DivisionInt), M(DivisionFoo)>>]})
TestGopoMethod2Want ==
  { Out(FId(Foo, Division, <<>>), Nm(Division, <<>>), Foo, tNone),
    Out(FId(Foo, Division, <<<<1>>>>), Nm(Division, <<>>), Foo, tNone),
    Out(FId(Foo, DivisionFoo, <<>>), Nm(DivisionFoo, <<>>), Foo, tNone),
    Out(FId(Foo, DivisionInt, <<>>), Nm(DivisionInt, <<>>), Foo, tNone) }

TestGoOverloadMethod ==
  Pkg({Mth(N, OnKey, <<<<0>>>>, tOnKey0), Mth(N, OnKey, <<<<1>>>>, tOnKey1),
       Mth(N, OnKey, <<<<2>>>>, tOnKey2)}, {})
TestGoOverloadMethodWant ==
  { Out(FId(N, OnKey, <<>>), Nm(OnKey, <<>>), N, tOnKey0),
    Out(FId(N, OnKey, <<<<1>>>>), Nm(OnKey, <<>>), N, tOnKey1),
    Out(FId(N, OnKey, <<<<2>>>>), Nm(OnKey, <<>>), N, tOnKey2) }

TestGopoFn ==
  Pkg({Fn(Add, <<<<1>>>>, tAdd, NoParam), Fn(AddInt, <<>>, tAddInt, NoParam),
       Fn(AddStringFn, <<>>, tAddString, NoParam)},
      {[scope |-> PkgScope, name |-> Nm(Add, <<>>),
        specs |-> <<F(AddInt), Self, F(AddStringFn)>>]})
TestGopoFnWant ==
  { Out(FId(PkgScope, Add, <<>>), Nm(Add, <<>>), NoRecv, tAddInt),
    Out(FId(PkgScope, Add, <<<<1>>>>), Nm(Add, <<>>), NoRecv, tAdd),
    Out(FId(PkgScope, Add, <<<<2>>>>), Nm(Add, <<>>), NoRecv, tAddString),
    Out(FId(PkgScope, AddInt, <<>>), Nm(AddInt, <<>>), NoRecv, tAddInt),
    Out(FId(PkgScope, AddStringFn, <<>>), Nm(AddStringFn, <<>>), NoRecv, tAddString) }

TestOverloadFn ==
  Pkg({Fn(Bar, <<<<0>>>>, tBar, NoParam), Fn(Bar, <<<<1>>>>, tNone, NoParam)}, {})
TestOverloadFnWant ==
  { Out(FId(PkgScope, Bar, <<>>), Nm(Bar, <<>>), NoRecv, tBar),
    Out(FId(PkgScope, Bar, <<<<1>>>>), Nm(Bar, <<>>), NoRecv, tNone) }

TestOverloadMethod ==
  Pkg({Mth(T2, Bar, <<<<0>>>>, tBar1), Mth(T2, Bar, <<<<1>>>>, tBar2)}, {})
TestOverloadMethodWant ==
  { Out(FId(T2, Bar, <<>>), Nm(Bar, <<>>), T2, tBar1),
    Out(FId(T2, Bar, <<<<1>>>>), Nm(Bar, <<>>), T2, tBar2) }

\* dochtml/testdata/overload.go, the Go+ package whose function anchors
\* TestGopRender looks for.
OverloadGo ==
  Pkg({Fn(AddO, <<<<0>>>>, tAdd0, NoParam), Fn(AddO, <<<<1>>>>, tAdd1, NoParam),
       Fn(MulInt, <<>>, tMulInt, NoParam), Fn(Mul, <<<<1>>>>, tMul1, NoParam),
       Fn(MulFloat, <<>>, tMulFloat, NoParam)}
      \cup TestGopoMethod2.decls \cup TestGoOverloadMethod.decls,
      {[scope |-> PkgScope, name |-> Nm(Mul, <<>>),
        specs |-> <<F(MulInt), Self, F(MulFloat)>>]} \cup TestGopoMethod2.gopos)
\* wantFuncAnchor of TestGopRender: Mul, Mul__1, Mul__2, MulFloat, MulInt.
OverloadGoAnchors ==
  { [qual |-> PkgScope, stem |-> Mul, tail |-> <<>>],
    [qual |-> PkgScope, stem |-> Mul, tail |-> <<<<1>>>>],
    [qual |-> PkgScope, stem |-> Mul, tail |-> <<<<2>>>>],
    [qual |-> PkgScope, stem |-> MulFloat, tail |-> <<>>],
    [qual |-> PkgScope, stem |-> MulInt, tail |-> <<>>] }

Tests ==
  { <<TestGopoMethod, TestGopoMethodWant>>, <<TestGopoMethod2, TestGopoMethod2Want>>,
    <<TestGoOverloadMethod, TestGoOverloadMethodWant>>, <<TestGopoFn, TestGopoFnWant>>,
    <<TestOverloadFn, TestOverloadFnWant>>, <<TestOverloadMethod, TestOverloadMethodWant>> }

TestDecls == UNION {t[1].decls : t \in Tests} \cup OverloadGo.decls
TestGopos == UNION {t[1].gopos : t \in Tests} \cup OverloadGo.gopos

\* The test packages, and every part of one of them with or without the
\* GopPackage marker: the states Transform may be started in on them.
TestPackages ==
  UNION {[marker : BOOLEAN, decls : SUBSET p.decls, gopos : SUBSET p.gopos] :
         p \in {t[1] : t \in Tests} \cup {OverloadGo}}

TestInit ==
  /\ pkg \in TestPackages
  /\ phase = "detect"
  /\ implicit = {} /\ warnings = {} /\ explicit = {} /\ unresolved = {}
  /\ candidates = {} /\ dup = FALSE /\ views = {} /\ page = {}

(* Transform yields for every test package exactly the functions its test *)
(* in z_test.go expects: the same FuncIds, display names, receivers and    *)
(* underlying docs, nothing more and nothing less.                         *)
MatchesTests ==
  phase = "done" =>
    \A t \in Tests : pkg = t[1] => {Printed(v, Lines(v.src.doc)) : v \in views} = t[2]

(* The doc a view carries out of Transform is the doc printFunc prints in  *)
(* the tests: no "overload_func_index" line in front of it.                *)
DocMatchesTests ==
  phase = "done" =>
    \A t \in Tests : pkg = t[1] => {Printed(v, v.doc) : v \in views} = t[2]

(* The page rendered from testdata/overload.go has a function header for   *)
(* every anchor TestGopRender looks for.                                   *)
HasTestAnchors ==
  phase = "done" /\ pkg = OverloadGo =>
    OverloadGoAnchors \subseteq {r.anchor : r \in page}
=============================================================================

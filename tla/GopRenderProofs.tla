-------------------------- MODULE GopRenderProofs --------------------------
(***************************************************************************)
(* Proofs about the resolver composed with the renderer (GopRender), for   *)
(* every package universe that satisfies the assumptions of GopDoc.        *)
(***************************************************************************)
EXTENDS GopRender, SequenceTheorems, TLAPS

(***************************************************************************)
(* The pass-through views of any set of declarations have pairwise         *)
(* distinct identities, because Go identifiers are unique in a scope       *)
(* (DeclsAssumption).  This is what makes the DuplicateIdentity fallback   *)
(* safe.                                                                   *)
(***************************************************************************)
LEMMA PlainIdsDistinct ==
  ASSUME NEW ds \in SUBSET Decls
  PROVE  \A v, w \in Plain(ds) : v # w => IdOf(v) # IdOf(w)
<1> SUFFICES ASSUME NEW v \in Plain(ds), NEW w \in Plain(ds), v # w,
                    IdOf(v) = IdOf(w)
             PROVE  FALSE
  OBVIOUS
<1>1. PICK d \in ds : v = PlainView(d)
  BY DEF Plain
<1>2. PICK e \in ds : w = PlainView(e)
  BY DEF Plain
<1>3. IdOf(v) = [scope |-> d.scope, name |-> d.name]
  BY <1>1 DEF IdOf, PlainView
<1>4. IdOf(w) = [scope |-> e.scope, name |-> e.name]
  BY <1>2 DEF IdOf, PlainView
<1>5. d.scope = e.scope /\ d.name = e.name
  <2>1. IdOf(v).scope = d.scope /\ IdOf(v).name = d.name
    BY <1>3
  <2>2. IdOf(w).scope = e.scope /\ IdOf(w).name = e.name
    BY <1>4
  <2> QED
    BY <2>1, <2>2
<1>6. d = e
  BY <1>5, DeclsAssumption
<1> QED
  BY <1>1, <1>2, <1>6

(***************************************************************************)
(* The inductive invariant behind IdsUnique: once identities are assigned, *)
(* the views are either the pass-through views of the package or the       *)
(* synthesized candidates, and the latter only when they have no           *)
(* duplicate.                                                              *)
(***************************************************************************)
IdsInv ==
  /\ pkg \in Package
  /\ phase \in Phases
  /\ phase \in {"render", "done"} =>
       \/ views = Plain(pkg.decls)
       \/ views = candidates /\ ~HasDuplicate(candidates)

LEMMA IdsInvInit == RenderInit => IdsInv
  BY DEF RenderInit, Init, IdsInv, Phases

LEMMA IdsInvNext == IdsInv /\ [Next]_vars => IdsInv'
<1> SUFFICES ASSUME IdsInv, [Next]_vars PROVE IdsInv'
  OBVIOUS
<1>1. CASE Detect
  BY <1>1 DEF Detect, IdsInv, Phases
<1>2. CASE BuildImplicit
  BY <1>2 DEF BuildImplicit, IdsInv, Phases
<1>3. CASE BuildExplicit
  BY <1>3 DEF BuildExplicit, IdsInv, Phases
<1>4. CASE Synthesize
  BY <1>4 DEF Synthesize, IdsInv, Phases
<1>5. CASE AssignIds
  BY <1>5 DEF AssignIds, IdsInv, Phases
<1>6. CASE RenderPage
  BY <1>6 DEF RenderPage, IdsInv, Phases
<1>7. CASE UNCHANGED vars
  BY <1>7 DEF vars, gopVars, IdsInv
<1> QED
  BY <1>1, <1>2, <1>3, <1>4, <1>5, <1>6, <1>7 DEF Next, GopNext

LEMMA IdsInvImpliesIdsUnique == IdsInv => IdsUnique
<1> SUFFICES ASSUME IdsInv, phase \in {"render", "done"},
                    NEW v \in views, NEW w \in views, v # w
             PROVE  IdOf(v) # IdOf(w)
  BY DEF IdsUnique
<1>1. CASE views = Plain(pkg.decls)
  <2>1. pkg.decls \in SUBSET Decls
    BY DEF IdsInv, Package
  <2> QED
    BY <1>1, <2>1, PlainIdsDistinct
<1>2. CASE views = candidates /\ ~HasDuplicate(candidates)
  BY <1>2 DEF HasDuplicate
<1> QED
  BY <1>1, <1>2 DEF IdsInv

-----------------------------------------------------------------------------
(***************************************************************************)
(* Type correctness.  Each stage of Transform computes its output from the *)
(* package alone; the lemmas below give the type of each such output.      *)
(***************************************************************************)
LEMMA LinesType ==
  ASSUME NEW u \in UserDoc
  PROVE  Lines(u) \in Seq(Line)
<1>1. [text |-> u.text] \in Line
  BY DEF UserDoc, Line
<1>2. CASE u.lead = NoLead
  BY <1>1, <1>2 DEF Lines
<1>3. CASE u.lead # NoLead
  <2>1. [index |-> u.lead] \in Line
    BY <1>3 DEF UserDoc, Line
  <2> QED
    BY <1>1, <1>3, <2>1 DEF Lines
<1> QED
  BY <1>2, <1>3

LEMMA DocOfType ==
  ASSUME NEW d \in Decl, NEW pos \in CharVal \cup {NoPos}
  PROVE  DocOf(pos, d) \in Seq(Line)
<1>1. Lines(d.doc) \in Seq(Line)
  BY LinesType DEF Decl
<1>2. CASE pos # NoPos /\ pos > 0
  <2>1. <<[index |-> pos]>> \in Seq(Line)
    BY <1>2 DEF Line, CharVal, SentinelIndex
  <2> QED
    BY <1>1, <1>2, <2>1 DEF DocOf
<1>3. CASE ~(pos # NoPos /\ pos > 0)
  BY <1>1, <1>3 DEF DocOf
<1> QED
  BY <1>2, <1>3

LEMMA PlainType ==
  ASSUME NEW ds \in SUBSET Decls
  PROVE  Plain(ds) \subseteq View
<1> SUFFICES ASSUME NEW d \in ds PROVE PlainView(d) \in View
  BY DEF Plain
<1>1. d \in Decl
  BY DeclsAssumption
<1>2. DocOf(NoPos, d) \in Seq(Line)
  BY <1>1, DocOfType
<1> QED
  BY <1>1, <1>2 DEF PlainView, View, Decl, Scopes

ImplicitType == [scope : Scopes, base : Name, pos : CharVal, decl : Decls]

LEMMA SuffixBaseType ==
  ASSUME NEW n \in Name, HasSuffix(n)
  PROVE  SuffixBase(n) \in Name
<1>1. n.tail \in Seq(Seq(Char)) /\ Len(n.tail) >= 1
  BY DEF Name, HasSuffix
<1>2. Front(n.tail) \in Seq(Seq(Char))
  BY <1>1, SubSeqProperties DEF Front
<1> QED
  BY <1>2 DEF SuffixBase, Name

LEMMA ImplicitMembersType ==
  ASSUME NEW ds \in SUBSET Decls
  PROVE  ImplicitMembers(ds) \subseteq ImplicitType
<1>1. ASSUME NEW d \in ds, HasSuffix(d.name), SuffixChar(d.name) \in CharVal
      PROVE  [scope |-> d.scope, base |-> SuffixBase(d.name),
              pos |-> SuffixChar(d.name), decl |-> d] \in ImplicitType
  <2>1. d \in Decl
    BY DeclsAssumption
  <2>2. SuffixBase(d.name) \in Name
    BY <1>1, <2>1, SuffixBaseType DEF Decl
  <2> QED
    BY <1>1, <2>1, <2>2 DEF ImplicitType, Decl
<1>2. ASSUME NEW d \in ds
      PROVE  [scope |-> d.scope, base |-> d.name, pos |-> 0, decl |-> d]
               \in ImplicitType
  BY DeclsAssumption DEF ImplicitType, Decl, CharVal
<1> QED
  BY <1>1, <1>2 DEF ImplicitMembers

ExplicitType == [gopo : Gopos, pos : 0 .. MaxSpecs - 1, decl : Decls,
                 virtual : BOOLEAN, recv : Types \cup {NoRecv, NoParam}]

LEMMA ExplicitMembersType ==
  ASSUME NEW p \in Package
  PROVE  /\ ExplicitMembers(p) \subseteq ExplicitType
         /\ Unresolved(p) \subseteq [gopo : Gopos, pos : 0 .. MaxSpecs - 1]
<1>1. ASSUME NEW g \in p.gopos, NEW i \in 0 .. MaxSpecs - 1, NEW d \in p.decls
      PROVE  [gopo |-> g, pos |-> i, decl |-> d,
              virtual |-> g.specs[i + 1].kind # "self",
              recv |-> RecvOf(g, i, d)] \in ExplicitType
  <2>1. g \in Gopos /\ d \in Decls
    BY DEF Package
  <2>2. d \in Decl
    BY <2>1, DeclsAssumption
  <2>3. RecvOf(g, i, d) \in Types \cup {NoRecv, NoParam}
    BY <2>2 DEF RecvOf, Decl
  <2> QED
    BY <2>1, <2>3 DEF ExplicitType
<1>2. ExplicitMembers(p) \subseteq ExplicitType
  BY <1>1 DEF ExplicitMembers
<1>3. Unresolved(p) \subseteq [gopo : Gopos, pos : 0 .. MaxSpecs - 1]
  BY DEF Unresolved, Package
<1> QED
  BY <1>2, <1>3

LEMMA MaxSpecsBound == MaxSpecs \in 1 .. 36
  BY GoposAssumption, Zenon

LEMMA GroupViewType ==
  ASSUME NEW scope \in Scopes, NEW name \in Name, NEW pos \in CharVal,
         NEW d \in Decl, NEW virtual \in BOOLEAN,
         NEW recv \in Types \cup {NoRecv, NoParam}, NEW g \in Gopo \cup {NoGopo}
  PROVE  GroupView(scope, name, pos, d, virtual, recv, g) \in View
<1>1. DocOf(pos, d) \in Seq(Line)
  BY DocOfType
<1> QED
  BY <1>1 DEF GroupView, View, CharVal

LEMMA SynthesizedType ==
  ASSUME NEW p \in Package, NEW ms \in SUBSET ImplicitType,
         NEW es \in SUBSET ExplicitType
  PROVE  Synthesized(p, ms, es) \subseteq View
<1>1. ASSUME NEW e \in es
      PROVE  GroupView(e.gopo.scope, e.gopo.name, e.pos, e.decl, e.virtual,
                       e.recv, e.gopo) \in View
  <2>0. e.gopo \in Gopos /\ e.decl \in Decls /\ e.pos \in 0 .. MaxSpecs - 1
    BY DEF ExplicitType
  <2>1. e.gopo \in Gopo /\ e.decl \in Decl /\ e.pos \in CharVal
    <3>1. e.gopo \in Gopo /\ e.decl \in Decl
      BY <2>0, GoposAssumption, DeclsAssumption
    <3>2. e.pos \in CharVal
      BY <2>0, MaxSpecsBound DEF CharVal
    <3> QED
      BY <3>1, <3>2
  <2>2. e.gopo.scope \in Scopes /\ e.gopo.name \in Name
    BY <2>1 DEF Gopo
  <2>3. e.virtual \in BOOLEAN /\ e.recv \in Types \cup {NoRecv, NoParam}
    BY DEF ExplicitType
  <2> QED
    BY <2>1, <2>2, <2>3, GroupViewType
<1>2. ASSUME NEW m \in GroupedImplicit(p, ms)
      PROVE  GroupView(m.scope, m.base, m.pos, m.decl, FALSE, m.decl.recv,
                       NoGopo) \in View
  <2>1. m \in ImplicitType
    BY DEF GroupedImplicit
  <2>2. m.decl \in Decl /\ m.pos \in CharVal /\ m.scope \in Scopes /\ m.base \in Name
    BY <2>1, DeclsAssumption DEF ImplicitType, CharVal
  <2>3. m.decl.recv \in Types \cup {NoRecv, NoParam}
    BY <2>2 DEF Decl
  <2> QED
    BY <2>2, <2>3, GroupViewType
<1>3. Plain(p.decls \ Renamed(p, ms, es)) \subseteq View
  BY PlainType DEF Package
<1> QED
  BY <1>1, <1>2, <1>3 DEF Synthesized

AnchorType == [qual : Scopes, stem : Stems, tail : Seq(Seq(Char))]

LEMMA FmtDecimalType ==
  ASSUME NEW i \in SentinelIndex
  PROVE  R!FmtDecimal(i) \in Seq(Char)
<1>1. CASE i < 10
  BY <1>1 DEF R!FmtDecimal, SentinelIndex, Char, CharVal
<1>2. CASE ~(i < 10)
  <2>1. i \div 10 \in 0 .. 9 /\ i % 10 \in 0 .. 9
    BY <1>2 DEF SentinelIndex
  <2> QED
    BY <1>2, <2>1 DEF R!FmtDecimal, Char, CharVal
<1> QED
  BY <1>1, <1>2

LEMMA ExceptTailType ==
  ASSUME NEW r \in AnchorType, NEW t \in Seq(Seq(Char))
  PROVE  [r EXCEPT !.tail = t] \in AnchorType
  BY DEF AnchorType

LEMMA RenderedType ==
  ASSUME NEW v \in View
  PROVE  /\ R!render_function_id(Item(v)) \in AnchorType
         /\ R!render_actual_doc(Item(v)) \in Seq(Line)
<1> DEFINE it == Item(v)
<1>1. v.scope \in Scopes /\ v.name \in Name /\ v.doc \in Seq(Line)
  BY DEF View
<1>2. it.doc = v.doc /\ it.name \in AnchorType
  BY <1>1 DEF Item, AnchorType, Name, Scopes
<1>3. LET full == IF it.fullName # NoFullName THEN it.fullName ELSE it.name
      IN  full \in AnchorType
  <2>1. CASE v.scope = PkgScope
    BY <1>2, <2>1 DEF Item
  <2>2. CASE v.scope # PkgScope
    <3>1. it.fullName = [qual |-> v.scope, stem |-> v.name.stem, tail |-> v.name.tail]
      BY <2>2 DEF Item
    <3>2. it.fullName \in AnchorType
      BY <1>1, <3>1 DEF AnchorType, Name
    <3>3. it.fullName # NoFullName
      BY <3>2, NoFullNameAssumption DEF AnchorType
    <3> QED
      BY <3>2, <3>3
  <2> QED
    BY <2>1, <2>2
<1>4. R!MatchesPattern(it.doc) => it.doc[1].index \in SentinelIndex
  BY <1>1, <1>2 DEF R!MatchesPattern, Line
<1>5. R!render_function_id(it) \in AnchorType
  <2> DEFINE full == IF it.fullName # NoFullName THEN it.fullName ELSE it.name
  <2>1. CASE R!IsFunc(it) /\ R!MatchesPattern(it.doc)
    <3>1. R!FmtDecimal(it.doc[1].index) \in Seq(Char)
      BY <1>4, <2>1, FmtDecimalType
    <3>2. it.doc[1].index # -1
      BY <1>4, <2>1 DEF SentinelIndex
    <3>3. R!render_function_id(it)
            = [full EXCEPT !.tail = Append(@, R!FmtDecimal(it.doc[1].index))]
      BY <2>1, <3>2 DEF R!render_function_id, R!overloadFuncIndex
    <3>4. full \in AnchorType
      BY <1>3
    <3>5. Append(full.tail, R!FmtDecimal(it.doc[1].index)) \in Seq(Seq(Char))
      BY <3>1, <3>4 DEF AnchorType
    <3>6. [full EXCEPT !.tail = Append(@, R!FmtDecimal(it.doc[1].index))]
            \in AnchorType
      BY <3>4, <3>5, ExceptTailType
    <3> QED
      BY <3>3, <3>6
  <2>2. CASE ~(R!IsFunc(it) /\ R!MatchesPattern(it.doc))
    <3>1. R!render_function_id(it) = full
      BY <2>2 DEF R!render_function_id, R!overloadFuncIndex
    <3> QED
      BY <1>3, <3>1
  <2> QED
    BY <2>1, <2>2
<1>6. R!render_actual_doc(it) \in Seq(Line)
  BY <1>1, <1>2 DEF R!render_actual_doc, R!MatchesPattern
<1> QED
  BY <1>5, <1>6

LEMMA TypeInit == RenderInit => RenderTypeOK
  BY DEF RenderInit, Init, RenderTypeOK, TypeOK, Phases

LEMMA TypeNext == RenderTypeOK /\ [Next]_vars => RenderTypeOK'
<1> SUFFICES ASSUME RenderTypeOK, [Next]_vars PROVE RenderTypeOK'
  OBVIOUS
<1>0. /\ pkg \in Package /\ pkg.decls \in SUBSET Decls
      /\ implicit \in SUBSET ImplicitType /\ explicit \in SUBSET ExplicitType
  BY DEF RenderTypeOK, TypeOK, Package, ImplicitType, ExplicitType
<1>1. CASE Detect /\ UNCHANGED page
  <2>1. Plain(pkg.decls) \subseteq View
    BY <1>0, PlainType
  <2>2. views' \subseteq View /\ phase' \in Phases
    BY <1>1, <2>1 DEF Detect, RenderTypeOK, TypeOK, Phases
  <2>3. UNCHANGED <<pkg, implicit, warnings, explicit, unresolved, candidates,
                    dup, page>>
    BY <1>1 DEF Detect
  <2> QED
    BY <2>2, <2>3 DEF RenderTypeOK, TypeOK
<1>2. CASE BuildImplicit /\ UNCHANGED page
  <2>1. implicit' \subseteq ImplicitType
    BY <1>0, <1>2, ImplicitMembersType DEF BuildImplicit
  <2>2. warnings' \subseteq pkg.decls /\ phase' \in Phases
    BY <1>2 DEF BuildImplicit, BadSuffix, Phases
  <2>3. UNCHANGED <<pkg, explicit, unresolved, candidates, dup, views, page>>
    BY <1>2 DEF BuildImplicit
  <2> QED
    BY <2>1, <2>2, <2>3 DEF RenderTypeOK, TypeOK, ImplicitType
<1>3. CASE BuildExplicit /\ UNCHANGED page
  <2>1. /\ explicit' \subseteq ExplicitType
        /\ unresolved' \subseteq [gopo : Gopos, pos : 0 .. MaxSpecs - 1]
    BY <1>0, <1>3, ExplicitMembersType DEF BuildExplicit
  <2>2. phase' \in Phases
    BY <1>3 DEF BuildExplicit, Phases
  <2>3. UNCHANGED <<pkg, implicit, warnings, candidates, dup, views, page>>
    BY <1>3 DEF BuildExplicit
  <2> QED
    BY <2>1, <2>2, <2>3 DEF RenderTypeOK, TypeOK, ExplicitType
<1>4. CASE Synthesize /\ UNCHANGED page
  <2>1. candidates' \subseteq View
    BY <1>0, <1>4, SynthesizedType DEF Synthesize
  <2>2. phase' \in Phases
    BY <1>4 DEF Synthesize, Phases
  <2>3. UNCHANGED <<pkg, implicit, warnings, explicit, unresolved, dup, views,
                    page>>
    BY <1>4 DEF Synthesize
  <2> QED
    BY <2>1, <2>2, <2>3 DEF RenderTypeOK, TypeOK
<1>5. CASE AssignIds /\ UNCHANGED page
  <2>1. Plain(pkg.decls) \subseteq View /\ candidates \subseteq View
    BY <1>0, PlainType DEF RenderTypeOK, TypeOK
  <2>2. views' \subseteq View /\ dup' \in BOOLEAN /\ phase' \in Phases
    <3>1. dup' \in BOOLEAN
      BY <1>5 DEF AssignIds, HasDuplicate
    <3>2. views' \subseteq View
      BY <1>5, <2>1 DEF AssignIds
    <3>3. phase' \in Phases
      BY <1>5 DEF AssignIds, Phases
    <3> QED
      BY <3>1, <3>2, <3>3
  <2>3. UNCHANGED <<pkg, implicit, warnings, explicit, unresolved, candidates,
                    page>>
    BY <1>5 DEF AssignIds
  <2> QED
    BY <2>2, <2>3 DEF RenderTypeOK, TypeOK
<1>6. CASE RenderPage
  <2>1. views \subseteq View
    BY DEF RenderTypeOK, TypeOK
  <2>2. \A v \in views : /\ R!render_function_id(Item(v)) \in AnchorType
                        /\ R!render_actual_doc(Item(v)) \in Seq(Line)
    BY <2>1, RenderedType
  <2>3. page' \subseteq [view : View, anchor : AnchorType, shown : Seq(Line)]
    BY <1>6, <2>1, <2>2 DEF RenderPage
  <2>4. phase' \in Phases
    BY <1>6 DEF RenderPage, Phases
  <2>5. UNCHANGED <<pkg, implicit, warnings, explicit, unresolved, candidates,
                    dup, views>>
    BY <1>6 DEF RenderPage
  <2> QED
    BY <2>3, <2>4, <2>5 DEF RenderTypeOK, TypeOK, AnchorType
<1>7. CASE UNCHANGED vars
  BY <1>7 DEF vars, gopVars, RenderTypeOK, TypeOK
<1> QED
  BY <1>1, <1>2, <1>3, <1>4, <1>5, <1>6, <1>7 DEF Next, GopNext

(***************************************************************************)
(* Every state of every behaviour is well typed, for every package.        *)
(***************************************************************************)
THEOREM TypeTheorem == Spec => []RenderTypeOK
  BY TypeInit, TypeNext, PTL DEF Spec

=============================================================================

-------------------------- MODULE GopAnchorProofs --------------------------
(***************************************************************************)
(* Proofs that the renderer recovers what the resolver meant (spec 4.6):   *)
(* the anchor render_function_id gives every header is the view's FuncId, *)
(* and render_actual_doc shows the declaration's own doc.  Both rest on   *)
(* the Doc Marker protocol: a view's doc is DocOf(pos, src), with the     *)
(* sentinel exactly for a position > 0.  Both need the hypothesis that no *)
(* user doc begins with a line of the sentinel's form (NoSpoofedDocs);    *)
(* the run gop_spoof shows that without it the anchor is wrong.           *)
(***************************************************************************)
EXTENDS GopRenderProofs

\* No declaration's doc comment begins with "overload_func_index:n".
NoSpoofedDocs == \A d \in Decls : d.doc.lead = NoLead

\* What the resolver guarantees of every view it builds.
Shaped(v) ==
  /\ v.src \in Decls
  /\ v.pos \in CharVal \cup {NoPos}
  /\ v.doc = DocOf(v.pos, v.src)

\* The page the body template renders from the views.
RenderedPage ==
  {[view   |-> v,
    anchor |-> R!render_function_id(Item(v)),
    shown  |-> R!render_actual_doc(Item(v))] : v \in views}

AnchorInv ==
  /\ RenderTypeOK
  /\ \A v \in candidates \cup views : Shaped(v)
  /\ phase # "done" => page = {}
  /\ phase = "done" => page = RenderedPage

\* Every pass-through view is shaped.
LEMMA PlainShaped ==
  ASSUME NEW ds \in SUBSET Decls
  PROVE  \A v \in Plain(ds) : Shaped(v)
BY DEF Plain, PlainView, Shaped

\* Every view the Synthesizer builds is shaped: explicit positions are below
\* MaxSpecs <= 36, implicit ones are base-36 digits.
LEMMA SynthesizedShaped ==
  ASSUME NEW p \in Package, NEW ms \in SUBSET ImplicitType,
         NEW es \in SUBSET ExplicitType
  PROVE  \A v \in Synthesized(p, ms, es) : Shaped(v)
<1>1. ASSUME NEW e \in es
      PROVE  Shaped(GroupView(e.gopo.scope, e.gopo.name, e.pos, e.decl, e.virtual,
                              e.recv, e.gopo))
  <2>1. e.decl \in Decls /\ e.pos \in 0 .. MaxSpecs - 1
    BY DEF ExplicitType
  <2>2. e.pos \in CharVal
    BY <2>1, MaxSpecsBound DEF CharVal
  <2> QED BY <2>1, <2>2 DEF GroupView, Shaped
<1>2. ASSUME NEW m \in GroupedImplicit(p, ms)
      PROVE  Shaped(GroupView(m.scope, m.base, m.pos, m.decl, FALSE, m.decl.recv, NoGopo))
  <2>1. m \in ImplicitType
    BY DEF GroupedImplicit
  <2> QED BY <2>1 DEF ImplicitType, GroupView, Shaped
<1>3. \A v \in Plain(p.decls \ Renamed(p, ms, es)) : Shaped(v)
  BY PlainShaped DEF Package
<1> QED BY <1>1, <1>2, <1>3 DEF Synthesized

\* A doc with a sentinel prefixed: its first line is the sentinel and its
\* Tail is the rest.
LEMMA PrefixedDoc ==
  ASSUME NEW S, NEW x \in S, NEW s \in Seq(S)
  PROVE  /\ Len(<<x>> \o s) >= 1
         /\ (<<x>> \o s)[1] = x
         /\ Tail(<<x>> \o s) = s
<1>1. <<x>> \in Seq(S) /\ Len(<<x>>) = 1
  OBVIOUS
<1>2. <<x>> \o s \in Seq(S) /\ Len(<<x>> \o s) = 1 + Len(s)
  BY <1>1, ConcatProperties
<1>3. (<<x>> \o s)[1] = x
  BY <1>1, <1>2
<1>4. Tail(<<x>> \o s) = s
  <2>1. <<x>> \o s # <<>>
    BY <1>2
  <2>2. Tail(<<x>> \o s) \in Seq(S) /\ Len(Tail(<<x>> \o s)) = Len(s)
        /\ \A i \in 1 .. Len(s) : Tail(<<x>> \o s)[i] = (<<x>> \o s)[i + 1]
    BY <1>2, <2>1, HeadTailProperties
  <2>3. \A i \in 1 .. Len(s) : (<<x>> \o s)[i + 1] = s[i]
    BY <1>1, <1>2
  <2> QED BY <2>2, <2>3, SeqEqual
<1> QED BY <1>2, <1>3, <1>4

\* Replacing the tail of an anchor record.
LEMMA RecordTailAppend ==
  ASSUME NEW q, NEW s, NEW tl, NEW f
  PROVE  [[qual |-> q, stem |-> s, tail |-> tl] EXCEPT !.tail = Append(@, f)] =
           [qual |-> q, stem |-> s, tail |-> Append(tl, f)]
OBVIOUS

\* The heart of the Doc Marker protocol: for a shaped view of a declaration
\* whose doc has no sentinel of its own, the renderer's anchor is the FuncId
\* and the doc it shows is the declaration's.
LEMMA RenderedIsSource ==
  ASSUME NEW v \in View, Shaped(v), v.src.doc.lead = NoLead
  PROVE  /\ R!render_function_id(Item(v)) = AnchorOf(IdOf(v))
         /\ R!render_actual_doc(Item(v)) = Lines(v.src.doc)
<1> DEFINE it == Item(v)
           t == v.src.doc.text
           full == IF it.fullName # NoFullName THEN it.fullName ELSE it.name
<1>1. Lines(v.src.doc) = <<[text |-> t]>>
  BY DEF Lines
<1>2. /\ v.scope \in Scopes /\ v.name \in Name
      /\ it.doc = v.doc /\ R!IsFunc(it)
  BY DEF View, Item, R!IsFunc
<1>3. full = [qual |-> v.scope, stem |-> v.name.stem, tail |-> v.name.tail]
  <2>1. CASE v.scope = PkgScope
    BY <2>1 DEF Item
  <2>2. CASE v.scope # PkgScope
    <3>1. it.fullName = [qual |-> v.scope, stem |-> v.name.stem, tail |-> v.name.tail]
      BY <2>2 DEF Item
    <3>2. it.fullName # NoFullName
      BY <1>2, <3>1, NoFullNameAssumption DEF Name
    <3> QED BY <3>1, <3>2
  <2> QED BY <2>1, <2>2
<1>4. CASE v.pos = NoPos \/ v.pos = 0
  <2>1. v.doc = <<[text |-> t]>>
    BY <1>1, <1>4 DEF Shaped, DocOf
  <2>2. ~R!MatchesPattern(it.doc)
    BY <1>2, <2>1 DEF R!MatchesPattern
  <2>3. R!render_function_id(it) = full
    BY <2>2 DEF R!render_function_id, R!overloadFuncIndex
  <2>4. AnchorOf(IdOf(v)) = [qual |-> v.scope, stem |-> v.name.stem, tail |-> v.name.tail]
    BY <1>4 DEF AnchorOf, IdOf
  <2>5. R!render_actual_doc(it) = Lines(v.src.doc)
    BY <1>1, <1>2, <2>1, <2>2 DEF R!render_actual_doc
  <2> QED BY <1>3, <2>3, <2>4, <2>5
<1>5. CASE v.pos \in CharVal /\ v.pos # 0
  <2>1. v.doc = <<[index |-> v.pos]>> \o <<[text |-> t]>>
    <3>1. v.pos # NoPos /\ v.pos > 0
      BY <1>5, ModelValuesAssumption DEF CharVal
    <3> QED BY <1>1, <3>1 DEF Shaped, DocOf
  <2>0. /\ Len(v.doc) >= 1 /\ v.doc[1] = [index |-> v.pos]
        /\ Tail(v.doc) = <<[text |-> t]>>
    <3>1. [index |-> v.pos] \in Line /\ <<[text |-> t]>> \in Seq(Line)
      <4>1. v.src \in Decls /\ v.pos \in SentinelIndex
        BY <1>5 DEF Shaped, CharVal, SentinelIndex
      <4>2. t \in Texts
        BY <4>1, DeclsAssumption DEF Decl, UserDoc
      <4> QED BY <4>1, <4>2 DEF Line
    <3>2. /\ Len(<<[index |-> v.pos]>> \o <<[text |-> t]>>) >= 1
          /\ (<<[index |-> v.pos]>> \o <<[text |-> t]>>)[1] = [index |-> v.pos]
          /\ Tail(<<[index |-> v.pos]>> \o <<[text |-> t]>>) = <<[text |-> t]>>
      BY <3>1, PrefixedDoc
    <3> QED BY <2>1, <3>2
  <2>2. R!MatchesPattern(it.doc) /\ it.doc[1].index = v.pos
    BY <1>2, <2>0 DEF R!MatchesPattern
  <2>3. R!overloadFuncIndex(it) = v.pos /\ v.pos # -1
    BY <1>2, <1>5, <2>2 DEF R!overloadFuncIndex, CharVal
  <2>4. R!render_function_id(it) = [full EXCEPT !.tail = Append(@, R!FmtDecimal(v.pos))]
    BY <2>3 DEF R!render_function_id
  <2>5. IdOf(v).name = [v.name EXCEPT !.tail = Append(@, Decimal(v.pos))]
    <3>1. v.pos # NoPos
      BY <1>5, ModelValuesAssumption DEF CharVal
    <3> QED BY <1>5, <3>1 DEF IdOf
  <2>6. R!FmtDecimal(v.pos) = Decimal(v.pos)
    BY DEF R!FmtDecimal, Decimal
  <2>7. AnchorOf(IdOf(v)) = [qual |-> v.scope, stem |-> v.name.stem,
                             tail |-> Append(v.name.tail, Decimal(v.pos))]
    BY <1>2, <2>5 DEF AnchorOf, IdOf, Name
  <2>8. R!render_function_id(it) = [qual |-> v.scope, stem |-> v.name.stem,
                                    tail |-> Append(v.name.tail, Decimal(v.pos))]
    <3>1. [full EXCEPT !.tail = Append(@, R!FmtDecimal(v.pos))]
            = [[qual |-> v.scope, stem |-> v.name.stem, tail |-> v.name.tail]
                 EXCEPT !.tail = Append(@, R!FmtDecimal(v.pos))]
      BY <1>3
    <3>2. [[qual |-> v.scope, stem |-> v.name.stem, tail |-> v.name.tail]
             EXCEPT !.tail = Append(@, R!FmtDecimal(v.pos))]
            = [qual |-> v.scope, stem |-> v.name.stem,
               tail |-> Append(v.name.tail, R!FmtDecimal(v.pos))]
      BY RecordTailAppend
    <3> QED BY <2>4, <2>6, <3>1, <3>2
  <2>9. R!render_actual_doc(it) = Lines(v.src.doc)
    BY <1>1, <1>2, <2>0, <2>2 DEF R!render_actual_doc
  <2> QED BY <2>7, <2>8, <2>9
<1> QED BY <1>4, <1>5 DEF Shaped

LEMMA AnchorInvInit == RenderInit => AnchorInv
BY TypeInit DEF RenderInit, Init, AnchorInv

LEMMA AnchorInvNext == AnchorInv /\ [Next]_vars => AnchorInv'
<1> SUFFICES ASSUME AnchorInv, [Next]_vars PROVE AnchorInv'
  OBVIOUS
<1>0. /\ RenderTypeOK'
      /\ pkg \in Package /\ pkg.decls \in SUBSET Decls
      /\ implicit \in SUBSET ImplicitType /\ explicit \in SUBSET ExplicitType
  BY TypeNext DEF AnchorInv, RenderTypeOK, TypeOK, Package, ImplicitType,
                  ExplicitType
<1>1. ASSUME GopNext /\ UNCHANGED page
      PROVE  /\ phase # "done" /\ phase' # "done"
             /\ \A v \in candidates' \cup views' : Shaped(v)
  <2>1. CASE Detect
    BY <1>0, <2>1, PlainShaped DEF Detect, AnchorInv
  <2>2. CASE BuildImplicit
    BY <2>2 DEF BuildImplicit, AnchorInv
  <2>3. CASE BuildExplicit
    BY <2>3 DEF BuildExplicit, AnchorInv
  <2>4. CASE Synthesize
    BY <1>0, <2>4, SynthesizedShaped DEF Synthesize, AnchorInv
  <2>5. CASE AssignIds
    BY <1>0, <2>5, PlainShaped DEF AssignIds, AnchorInv
  <2> QED BY <1>1, <2>1, <2>2, <2>3, <2>4, <2>5 DEF GopNext
<1>2. CASE GopNext /\ UNCHANGED page
  BY <1>0, <1>1, <1>2 DEF AnchorInv
<1>3. CASE RenderPage
  <2>1. page' = RenderedPage'
    BY <1>3 DEF RenderPage, RenderedPage
  <2> QED BY <1>0, <1>3, <2>1 DEF RenderPage, AnchorInv
<1>4. CASE UNCHANGED vars
  BY <1>0, <1>4 DEF vars, gopVars, AnchorInv, RenderedPage
<1> QED BY <1>2, <1>3, <1>4 DEF Next

\* Under NoSpoofedDocs every rendered item carries the view's FuncId as its
\* anchor and the declaration's own doc as its text.
LEMMA AnchorInvRendered ==
  ASSUME AnchorInv, NoSpoofedDocs, NEW r \in page
  PROVE  /\ r.anchor = AnchorOf(IdOf(r.view))
         /\ r.shown = Lines(r.view.src.doc)
<1>0. r \in RenderedPage
  <2>1. phase = "done"
    BY DEF AnchorInv
  <2> QED BY <2>1 DEF AnchorInv
<1>1. PICK v \in views : r = [view   |-> v,
                              anchor |-> R!render_function_id(Item(v)),
                              shown  |-> R!render_actual_doc(Item(v))]
  BY <1>0, Zenon DEF RenderedPage
<1>2. v \in View /\ Shaped(v)
  BY DEF AnchorInv, RenderTypeOK, TypeOK
<1>3. v.src.doc.lead = NoLead
  BY <1>2 DEF Shaped, NoSpoofedDocs
<1>4. /\ R!render_function_id(Item(v)) = AnchorOf(IdOf(v))
      /\ R!render_actual_doc(Item(v)) = Lines(v.src.doc)
  BY <1>2, <1>3, RenderedIsSource
<1> QED BY <1>1, <1>4

(***************************************************************************)
(* The anchor render_function_id gives every function header is the FuncId *)
(* the resolver assigned, for every package none of whose doc comments     *)
(* begins with an "overload_func_index:n" line of its own (the run         *)
(* gop_spoof shows the anchor is wrong for one that does).                 *)
(***************************************************************************)
THEOREM AnchorIsFuncIdTheorem == NoSpoofedDocs => (Spec => []AnchorIsFuncId)
<1> SUFFICES ASSUME NoSpoofedDocs PROVE Spec => []AnchorIsFuncId
  OBVIOUS
<1>1. AnchorInv => AnchorIsFuncId
  BY AnchorInvRendered DEF AnchorIsFuncId
<1> QED BY <1>1, AnchorInvInit, AnchorInvNext, PTL DEF Spec

(***************************************************************************)
(* render_actual_doc shows exactly the declaration's doc, sentinel removed *)
(* and nothing of the user's text lost, under the same hypothesis.         *)
(***************************************************************************)
THEOREM DocShownIsSourceTheorem == NoSpoofedDocs => (Spec => []DocShownIsSource)
<1> SUFFICES ASSUME NoSpoofedDocs PROVE Spec => []DocShownIsSource
  OBVIOUS
<1>1. AnchorInv => DocShownIsSource
  BY AnchorInvRendered DEF DocShownIsSource
<1> QED BY <1>1, AnchorInvInit, AnchorInvNext, PTL DEF Spec

\* Distinct FuncIds give distinct anchor strings.
LEMMA AnchorOfInjective ==
  ASSUME NEW v \in View, NEW w \in View, IdOf(v) # IdOf(w)
  PROVE  AnchorOf(IdOf(v)) # AnchorOf(IdOf(w))
<1>1. ASSUME NEW u \in View
      PROVE  IdOf(u) = [scope |-> u.scope,
                        name  |-> [stem |-> AnchorOf(IdOf(u)).stem,
                                   tail |-> AnchorOf(IdOf(u)).tail]]
  <2>1. u.name = [stem |-> u.name.stem, tail |-> u.name.tail]
    BY DEF View, Name
  <2>2. CASE u.pos = NoPos \/ u.pos = 0
    BY <2>1, <2>2 DEF IdOf, AnchorOf
  <2>3. CASE ~(u.pos = NoPos \/ u.pos = 0)
    <3>1. IdOf(u).name = [stem |-> u.name.stem,
                          tail |-> Append(u.name.tail, Decimal(u.pos))]
      BY <2>1, <2>3 DEF IdOf
    <3> QED BY <3>1 DEF IdOf, AnchorOf
  <2> QED BY <2>2, <2>3
<1>2. AnchorOf(IdOf(v)).qual = v.scope /\ AnchorOf(IdOf(w)).qual = w.scope
  BY DEF AnchorOf, IdOf
<1> QED BY <1>1, <1>2

(***************************************************************************)
(* No two function headers of a rendered page share an HTML anchor, for    *)
(* every package none of whose doc comments begins with a line of the      *)
(* overload sentinel's form: the anchors are the FuncIds, and the resolver *)
(* hands over pairwise distinct FuncIds.  The run gop_spoof shows a        *)
(* package with such a doc whose anchors collide.                          *)
(***************************************************************************)
THEOREM AnchorsUniqueTheorem == NoSpoofedDocs => (Spec => []AnchorsUnique)
<1> SUFFICES ASSUME NoSpoofedDocs PROVE Spec => []AnchorsUnique
  OBVIOUS
<1>1. AnchorInv /\ IdsInv => AnchorsUnique
  <2> SUFFICES ASSUME AnchorInv, IdsInv, NEW r1 \in page, NEW r2 \in page,
                      r1.view # r2.view
               PROVE  r1.anchor # r2.anchor
    BY DEF AnchorsUnique
  <2>1. phase = "done"
    BY DEF AnchorInv
  <2>2. r1.view \in views /\ r2.view \in views
    <3>1. r1 \in RenderedPage /\ r2 \in RenderedPage
      BY <2>1 DEF AnchorInv
    <3>2. \A r \in RenderedPage : r.view \in views
      BY DEF RenderedPage
    <3> QED BY <3>1, <3>2
  <2>3. IdOf(r1.view) # IdOf(r2.view)
    BY <2>1, <2>2, IdsInvImpliesIdsUnique DEF IdsUnique
  <2>4. r1.view \in View /\ r2.view \in View
    BY <2>2 DEF AnchorInv, RenderTypeOK, TypeOK
  <2>5. AnchorOf(IdOf(r1.view)) # AnchorOf(IdOf(r2.view))
    BY <2>3, <2>4, AnchorOfInjective
  <2>6. r1.anchor = AnchorOf(IdOf(r1.view))
    BY AnchorInvRendered
  <2>7. r2.anchor = AnchorOf(IdOf(r2.view))
    BY AnchorInvRendered
  <2> QED BY <2>5, <2>6, <2>7
<1> QED BY <1>1, AnchorInvInit, AnchorInvNext, IdsInvInit, IdsInvNext, PTL DEF Spec
=============================================================================

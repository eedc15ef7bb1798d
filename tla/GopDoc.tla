------------------------------- MODULE GopDoc -------------------------------
(***************************************************************************)
(* The overload-group resolver of package gopdoc (Transform): given the    *)
(* functions, methods and constants of one parsed package it decides the   *)
(* display name and the identity (GopInfo.FuncId) of every declaration and *)
(* adds the views of the overload groups.  The resolver's own source is    *)
(* not part of src/: its definitions follow spec.md (sections 4.1-4.6) and *)
(* the expectations of src/internal/gopdoc/z_test.go.                      *)
(*                                                                         *)
(* Names.  A Go identifier is a stem (without "__") followed by the        *)
(* segments that "__" separates: "A" is [stem |-> A, tail |-> <<>>],       *)
(* "A__a" is [stem |-> A, tail |-> <<<<10>>>>] and "A__10" is              *)
(* [stem |-> A, tail |-> <<<<1, 0>>>>].  A character is the value of a     *)
(* base-36 digit ('0'..'9' -> 0..9, 'a'..'z' -> 10..35) or BadChar, a      *)
(* character outside [0-9a-z].  The decimal digits a rendered index is     *)
(* printed with are the same characters '0'..'9'.                          *)
(***************************************************************************)
EXTENDS Naturals, FiniteSets, SequencesExt

CONSTANTS
  Types,      \* the named types that own methods
  Stems,      \* identifier stems
  BadChar,    \* a character outside [0-9a-z]
  Texts,      \* doc comment bodies
  NoLead,     \* "this doc does not begin with an overload_func_index line"
  NoRecv,     \* receiver of a free function
  NoParam,    \* first parameter of a function without parameters
  NoPos,      \* position of a view that is in no overload group
  NoGopo,     \* the Gopo constant of a view outside explicit groups
  PkgScope,   \* the scope of package-level functions
  Decls,      \* the declarations a package may contain
  Gopos,      \* the Gopo_* constants a package may contain
  MaxSpecs    \* the longest Gopo_* specifier list

Scopes == {PkgScope} \cup Types
CharVal == 0 .. 35
Char == CharVal \cup {BadChar}
Name == [stem : Stems, tail : Seq(Seq(Char))]
\* The indices a sentinel line "overload_func_index:n" may carry in the
\* model: two decimal digits, above every position (at most 35) a group has.
SentinelIndex == 0 .. 99
\* A doc comment: lead is n when its first line is "overload_func_index:n".
UserDoc == [lead : SentinelIndex \cup {NoLead}, text : Texts]
Decl == [scope : Scopes, name : Name, doc : UserDoc,
         recv : Types \cup {NoRecv}, first : Types \cup {NoParam}]
Specifier == [kind : {"self"}] \cup [kind : {"method", "func"}, name : Name]
Gopo == [scope : Scopes, name : Name, specs : Seq(Specifier)]

ASSUME DeclsAssumption ==
  /\ Decls \subseteq Decl
  /\ \A d \in Decls : (d.scope = PkgScope) <=> (d.recv = NoRecv)
  /\ \A d \in Decls : d.scope \in Types => d.recv = d.scope
  \* Go: identifiers are unique within a scope.
  /\ \A d, e \in Decls : d.scope = e.scope /\ d.name = e.name => d = e

\* encodeIndex has 36 digits, so a specifier list has at most 36 entries.
ASSUME GoposAssumption ==
  /\ MaxSpecs \in 1 .. 36
  /\ Gopos \subseteq Gopo
  /\ \A g \in Gopos : Len(g.specs) <= MaxSpecs

ASSUME ModelValuesAssumption ==
  /\ BadChar \notin CharVal
  /\ NoLead \notin Nat
  /\ NoRecv \notin Types /\ NoParam \notin Types
  /\ NoPos \notin Nat
  /\ NoGopo \notin Gopo
  /\ PkgScope \notin Types

(***************************************************************************)
(* Views: what the resolver emits.  pos is the position in an overload     *)
(* group (NoPos outside any group), src the underlying declaration, gopo   *)
(* the Gopo constant of an explicit group's view (NoGopo for the others).  *)
(***************************************************************************)
Line == [index : SentinelIndex] \cup [text : Texts]
View == [scope : Scopes, name : Name, pos : Nat \cup {NoPos}, src : Decl,
         virtual : BOOLEAN, recv : Types \cup {NoRecv, NoParam},
         gopo : Gopo \cup {NoGopo}, doc : Seq(Line)]
Id == [scope : Scopes, name : Name]

\* The decimal digits of an index below 100 (fmt "%d").
Decimal(p) == IF p < 10 THEN <<p>> ELSE <<p \div 10, p % 10>>

\* name "B" followed by "__" and the encodeIndex digit of i.
Suffixed(base, i) == [stem |-> base.stem, tail |-> Append(base.tail, <<i>>)]

\* splitImplicitSuffix: "Base__c" with exactly one character c.
HasSuffix(n) == Len(n.tail) >= 1 /\ Len(Last(n.tail)) = 1
SuffixBase(n) == [stem |-> n.stem, tail |-> Front(n.tail)]
SuffixChar(n) == Last(n.tail)[1]

\* The identity (GopInfo.FuncId) of a view: the literal name outside a group,
\* the group name at position 0, the group name followed by "__" and the
\* decimal position at a position > 0.
IdOf(v) ==
  [scope |-> v.scope,
   name  |-> IF v.pos = NoPos \/ v.pos = 0 THEN v.name
             ELSE [v.name EXCEPT !.tail = Append(@, Decimal(v.pos))]]

\* The lines of a doc comment; a line is a sentinel or a line of text.
Lines(u) == IF u.lead = NoLead THEN <<[text |-> u.text]>>
            ELSE <<[index |-> u.lead], [text |-> u.text]>>

\* The Doc Marker: a grouped view at position > 0 has its doc prefixed with
\* the line "overload_func_index:<pos>".
\* Mutant: the sentinel is written at position 0 too.
DocOfAllPositions(pos, d) ==
  IF pos # NoPos THEN <<[index |-> pos]>> \o Lines(d.doc) ELSE Lines(d.doc)

DocOf(pos, d) == IF pos # NoPos /\ pos > 0 THEN <<[index |-> pos]>> \o Lines(d.doc)
                 ELSE Lines(d.doc)

PlainView(d) ==
  [scope |-> d.scope, name |-> d.name, pos |-> NoPos, src |-> d,
   virtual |-> FALSE, recv |-> d.recv, gopo |-> NoGopo,
   doc |-> DocOf(NoPos, d)]

GroupView(scope, name, pos, d, virtual, recv, gopo) ==
  [scope |-> scope, name |-> name, pos |-> pos, src |-> d,
   virtual |-> virtual, recv |-> recv, gopo |-> gopo,
   doc |-> DocOf(pos, d)]

Plain(ds) == {PlainView(d) : d \in ds}

-----------------------------------------------------------------------------
VARIABLES
  pkg,         \* the input package: [marker, decls, gopos]
  phase,       \* which stage of Transform runs next
  implicit,    \* implicit group members found: [scope, base, pos, decl]
  warnings,    \* declarations with an InvalidIndexCharacter suffix
  explicit,    \* resolved explicit members: [gopo, pos, decl, virtual, recv]
  unresolved,  \* UnresolvedSpecifier errors: [gopo, pos]
  candidates,  \* the views synthesized before identities are checked
  dup,         \* DuplicateIdentity was reported
  views        \* the views the resolver hands to the renderer

gopVars == <<pkg, phase, implicit, warnings, explicit, unresolved,
             candidates, dup, views>>

Package == [marker : BOOLEAN, decls : SUBSET Decls, gopos : SUBSET Gopos]

Phases == {"detect", "implicit", "explicit", "synth", "assign", "render",
           "done"}

Init ==
  /\ pkg \in Package
  /\ phase = "detect"
  /\ implicit = {} /\ warnings = {} /\ explicit = {} /\ unresolved = {}
  /\ candidates = {} /\ dup = FALSE /\ views = {}

(***************************************************************************)
(* Convention Detector (isGopPackage): without a GopPackage = true         *)
(* constant every declaration keeps its literal name and the other stages  *)
(* are skipped.                                                            *)
(***************************************************************************)
Detect ==
  /\ phase = "detect"
  /\ \/ /\ pkg.marker
        /\ phase' = "implicit"
        /\ UNCHANGED views
     \/ /\ ~pkg.marker
        /\ views' = Plain(pkg.decls)
        /\ phase' = "render"
  /\ UNCHANGED <<pkg, implicit, warnings, explicit, unresolved, candidates, dup>>

(***************************************************************************)
(* Implicit discovery partitions the declarations by splitImplicitSuffix  *)
(* (spec 4.2, 4.3): "Base__c" is the member of the group named Base at the *)
(* decoded position of c, and a declaration without a one-character suffix *)
(* is the member at position 0 of the group of its own name.  A suffix     *)
(* character outside [0-9a-z] is an InvalidIndexCharacter: the declaration *)
(* stays ungrouped.                                                        *)
(***************************************************************************)
\* Mutant: a suffix is decoded without checking its character.
ImplicitMembersAnyChar(ds) ==
  {[scope |-> d.scope, base |-> SuffixBase(d.name), pos |-> SuffixChar(d.name),
    decl |-> d] : d \in {e \in ds : HasSuffix(e.name)}}
  \cup {[scope |-> d.scope, base |-> d.name, pos |-> 0, decl |-> d] :
        d \in {e \in ds : ~HasSuffix(e.name)}}

ImplicitMembers(ds) ==
  {[scope |-> d.scope, base |-> SuffixBase(d.name), pos |-> SuffixChar(d.name),
    decl |-> d] :
     d \in {e \in ds : HasSuffix(e.name) /\ SuffixChar(e.name) \in CharVal}}
  \cup {[scope |-> d.scope, base |-> d.name, pos |-> 0, decl |-> d] :
        d \in {e \in ds : ~HasSuffix(e.name)}}

BadSuffix(ds) ==
  {d \in ds : HasSuffix(d.name) /\ SuffixChar(d.name) = BadChar}

BuildImplicit ==
  /\ phase = "implicit"
  /\ implicit' = ImplicitMembers(pkg.decls)
  /\ warnings' = BadSuffix(pkg.decls)
  /\ phase' = "explicit"
  /\ UNCHANGED <<pkg, explicit, unresolved, candidates, dup, views>>

(***************************************************************************)
(* Explicit discovery: the i-th specifier (0-based) of Gopo_[Type_]Name.   *)
(* "" is the declaration Name (i = 0) or Name__i itself, ".m" the method m *)
(* of Type, "f" the function f, adapted into a method of Type by taking    *)
(* its first parameter as the receiver when the group is a method group.   *)
(***************************************************************************)
Target(ds, g, i) ==
  LET s == g.specs[i + 1] IN
  CASE s.kind = "self" ->
         {d \in ds : d.scope = g.scope
                    /\ d.name = IF i = 0 THEN g.name ELSE Suffixed(g.name, i)}
    [] s.kind = "method" ->
         {d \in ds : g.scope \in Types /\ d.scope = g.scope /\ d.name = s.name}
    [] s.kind = "func" ->
         {d \in ds : d.scope = PkgScope /\ d.name = s.name
                    /\ (g.scope \in Types => d.first # NoParam)}

SpecPositions(g) == 0 .. Len(g.specs) - 1

\* Mutant: a function adapted into a method keeps its own (empty) receiver.
RecvOfUnadapted(g, i, d) == d.recv

RecvOf(g, i, d) ==
  IF g.specs[i + 1].kind = "func" /\ g.scope \in Types THEN d.first ELSE d.recv

ExplicitMembers(p) ==
  {[gopo |-> x[1], pos |-> x[2], decl |-> x[3],
    virtual |-> x[1].specs[x[2] + 1].kind # "self",
    recv |-> RecvOf(x[1], x[2], x[3])] :
     x \in {x \in p.gopos \X (0 .. MaxSpecs - 1) \X p.decls :
             x[2] \in SpecPositions(x[1]) /\ x[3] \in Target(p.decls, x[1], x[2])}}

Unresolved(p) ==
  {[gopo |-> x[1], pos |-> x[2]] :
     x \in {x \in p.gopos \X (0 .. MaxSpecs - 1) :
             x[2] \in SpecPositions(x[1]) /\ Target(p.decls, x[1], x[2]) = {}}}

BuildExplicit ==
  /\ phase = "explicit"
  /\ explicit' = ExplicitMembers(pkg)
  /\ unresolved' = Unresolved(pkg)
  /\ phase' = "synth"
  /\ UNCHANGED <<pkg, implicit, warnings, candidates, dup, views>>

(***************************************************************************)
(* Declaration Synthesizer: explicit groups win over implicit evidence for *)
(* the same name; an implicit group needs two members.  Self members and   *)
(* implicit members are renamed into their group; every other declaration, *)
(* the ones an explicit group copies included, keeps its own view.         *)
(***************************************************************************)
ExplicitKeys(p) == {[scope |-> g.scope, base |-> g.name] : g \in p.gopos}

KeyMembers(ms, k) == {m \in ms : m.scope = k.scope /\ m.base = k.base}

GroupedImplicit(p, ms) ==
  {m \in ms : /\ [scope |-> m.scope, base |-> m.base] \notin ExplicitKeys(p)
              /\ Cardinality(KeyMembers(ms, m)) >= 2}

Renamed(p, ms, es) ==
  {m.decl : m \in GroupedImplicit(p, ms)} \cup {e.decl : e \in {e \in es : ~e.virtual}}

Synthesized(p, ms, es) ==
  {GroupView(e.gopo.scope, e.gopo.name, e.pos, e.decl, e.virtual, e.recv, e.gopo)
     : e \in es}
  \cup {GroupView(m.scope, m.base, m.pos, m.decl, FALSE, m.decl.recv, NoGopo)
        : m \in GroupedImplicit(p, ms)}
  \cup Plain(p.decls \ Renamed(p, ms, es))

Synthesize ==
  /\ phase = "synth"
  /\ candidates' = Synthesized(pkg, implicit, explicit)
  /\ phase' = "assign"
  /\ UNCHANGED <<pkg, implicit, warnings, explicit, unresolved, dup, views>>

(***************************************************************************)
(* Identity Assigner: a collision of two identities in one scope is a      *)
(* DuplicateIdentity; the package then falls back to literal names.        *)
(***************************************************************************)
HasDuplicate(vs) == \E v, w \in vs : v # w /\ IdOf(v) = IdOf(w)

AssignIds ==
  /\ phase = "assign"
  /\ dup' = HasDuplicate(candidates)
  /\ views' = IF dup' THEN Plain(pkg.decls) ELSE candidates
  /\ phase' = "render"
  /\ UNCHANGED <<pkg, implicit, warnings, explicit, unresolved, candidates>>

GopNext == Detect \/ BuildImplicit \/ BuildExplicit \/ Synthesize \/ AssignIds

GopSpec == Init /\ [][GopNext]_gopVars

-----------------------------------------------------------------------------
(* Type invariant of the resolver. *)
TypeOK ==
  /\ pkg \in Package
  /\ phase \in Phases
  /\ implicit \subseteq [scope : Scopes, base : Name, pos : CharVal, decl : Decls]
  /\ warnings \subseteq pkg.decls
  /\ explicit \subseteq [gopo : Gopos, pos : 0 .. MaxSpecs - 1, decl : Decls,
                          virtual : BOOLEAN, recv : Types \cup {NoRecv, NoParam}]
  /\ unresolved \subseteq [gopo : Gopos, pos : 0 .. MaxSpecs - 1]
  /\ candidates \subseteq View
  /\ dup \in BOOLEAN
  /\ views \subseteq View

(* Identities are injective (spec 4.5): once the resolver has handed its   *)
(* views over, no two of them share a FuncId.  AssignIds guarantees it by  *)
(* falling back to the plain names on a collision; the anchor proof in    *)
(* GopAnchorProofs builds on it.                                          *)
IdsUnique ==
  phase \in {"render", "done"} =>
    \A v, w \in views : v # w => IdOf(v) # IdOf(w)

(* No declaration is lost or shown twice as itself (spec 4.4): every       *)
(* declaration of the package has exactly one non-virtual view, also the   *)
(* ones an explicit group copies, so both the concrete and the overloaded  *)
(* view stay addressable.                                                  *)
EveryDeclOnce ==
  phase \in {"render", "done"} =>
    \A d \in pkg.decls : \E v \in views :
      /\ v.src = d /\ ~v.virtual
      /\ \A w \in views : w.src = d /\ ~w.virtual => w = v

(* Group positions are contiguous from zero (spec 3, OverloadGroup): every *)
(* position below a member's position is held by a member of the same      *)
(* group.                                                                  *)
GroupsContiguous ==
  phase \in {"render", "done"} =>
    \A v \in views : v.pos # NoPos =>
      \A i \in 0 .. v.pos - 1 : \E w \in views :
        w.scope = v.scope /\ w.name = v.name /\ w.gopo = v.gopo /\ w.pos = i

=============================================================================

----------------------------- MODULE GopRender -----------------------------
(***************************************************************************)
(* The resolver composed with the renderer: after Transform, the body      *)
(* template renders every function and method of the package; the anchor   *)
(* of a function header is render_function_id of its item and the doc it   *)
(* shows is render_actual_doc.  The renderer learns a view's position only *)
(* through the Doc Marker line the resolver put into the doc.              *)
(***************************************************************************)
EXTENDS GopDoc

CONSTANT NoFullName

ASSUME NoFullNameAssumption == NoFullName \notin [qual : Scopes, stem : Stems, tail : Seq(Seq(Char))]

R == INSTANCE DocHTML WITH NoQual <- PkgScope

VARIABLE page  \* the rendered items: [view, anchor, shown]

vars == <<gopVars, page>>

\* The dochtml item of a view: Name is the display name, FullName is
\* "Type.Name" for a method and "" for a function.
Item(v) ==
  [kind     |-> IF v.scope = PkgScope THEN "function" ELSE "method",
   name     |-> [qual |-> PkgScope, stem |-> v.name.stem, tail |-> v.name.tail],
   fullName |-> IF v.scope = PkgScope THEN NoFullName
                ELSE [qual |-> v.scope, stem |-> v.name.stem, tail |-> v.name.tail],
   doc      |-> v.doc]

RenderInit == Init /\ page = {}

(* Executing the body template over the resolved package. *)
RenderPage ==
  /\ phase = "render"
  /\ page' = {[view   |-> v,
               anchor |-> R!render_function_id(Item(v)),
               shown  |-> R!render_actual_doc(Item(v))] : v \in views}
  /\ phase' = "done"
  /\ UNCHANGED <<pkg, implicit, warnings, explicit, unresolved, candidates,
                 dup, views>>

Next == (GopNext /\ UNCHANGED page) \/ RenderPage

Spec == RenderInit /\ [][Next]_vars

-----------------------------------------------------------------------------
\* The anchor string a FuncId stands for.
AnchorOf(id) == [qual |-> id.scope, stem |-> id.name.stem, tail |-> id.name.tail]

(* Type invariant of the composition. *)
RenderTypeOK ==
  /\ TypeOK
  /\ page \subseteq [view : View,
                     anchor : [qual : Scopes, stem : Stems, tail : Seq(Seq(Char))],
                     shown : Seq(Line)]

(* The anchor render_function_id gives a header is the FuncId the resolver *)
(* assigned (the id search results and cross references link to), for     *)
(* every view of every package: the sentinel the resolver writes and the   *)
(* pattern the renderer parses agree, position 0 included.                 *)
AnchorIsFuncId ==
  \A r \in page : r.anchor = AnchorOf(IdOf(r.view))

(* render_actual_doc shows exactly the doc of the underlying declaration:  *)
(* the sentinel line is removed and nothing of the user's doc is.          *)
DocShownIsSource ==
  \A r \in page : r.shown = Lines(r.view.src.doc)

(* No two headers of a page share an anchor (HTML ids are unique), for     *)
(* every package, also one whose doc comments start with a line that looks *)
(* like the sentinel.                                                      *)
AnchorsUnique ==
  \A r1, r2 \in page : r1.view # r2.view => r1.anchor # r2.anchor

=============================================================================

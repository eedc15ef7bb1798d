------------------------------ MODULE DocHTML -------------------------------
(***************************************************************************)
(* The overload callbacks of the documentation templates,                  *)
(* src/internal/godoc/dochtml/template.go: overloadFuncIndex,              *)
(* render_function_id and render_actual_doc.                               *)
(*                                                                         *)
(* An item is [kind, name, fullName, doc].  A name is an identifier        *)
(* [qual, stem, tail]: qual is NoQual for a bare name and the type for a   *)
(* "Type.name" full name, stem and tail are as in GopDoc ("__"-separated   *)
(* segments of characters).  A doc is the sequence of its lines: a line    *)
(* "overload_func_index:n" is [index |-> n], any other line [text |-> t]   *)
(* (lines are kept trimmed, so strings.TrimSpace leaves them alone).       *)
(***************************************************************************)
EXTENDS Integers, Sequences

CONSTANTS
  NoQual,      \* qualifier of a bare name
  NoFullName   \* item.FullName == ""

\* fmt "%d" of an index below 100.
FmtDecimal(p) == IF p < 10 THEN <<p>> ELSE <<p \div 10, p % 10>>

\* overloadFuncIndexPattern `^overload_func_index:(\d+)\n`: anchored at the
\* start of the doc, so only a first line can match.
MatchesPattern(doc) == Len(doc) >= 1 /\ "index" \in DOMAIN doc[1]

\* Mutant: only methods are taken to carry an overload index.
IsFuncMethodOnly(item) == item.kind = "method"

IsFunc(item) == item.kind \in {"method", "function"}

overloadFuncIndex(item) ==
  IF IsFunc(item) /\ MatchesPattern(item.doc) THEN item.doc[1].index ELSE -1

\* render_function_id: FullName when set, else Name, then "__<index>".
render_function_id(item) ==
  LET fullName == IF item.fullName # NoFullName THEN item.fullName ELSE item.name
      idx == overloadFuncIndex(item)
  IN IF idx # -1
     THEN [fullName EXCEPT !.tail = Append(@, FmtDecimal(idx))]
     ELSE fullName

\* render_actual_doc: drop the sentinel line (ReplaceAllString of the
\* anchored pattern removes at most the first line), then TrimSpace.
\* Mutant: the sentinel line is left in the doc.
render_actual_doc_unstripped(item) == item.doc

render_actual_doc(item) ==
  IF IsFunc(item) /\ MatchesPattern(item.doc) THEN Tail(item.doc) ELSE item.doc

=============================================================================

------------------------- MODULE SymbolUpsertProofs -------------------------
(***************************************************************************)
(* Proofs about upsertSymbolSearchDocuments for any module versions,       *)
(* packages, symbols and build contexts.  The two safety invariants are    *)
(* inductive together with the type invariant: the documentation a row     *)
(* points at never changes, and every row the statement writes is the      *)
(* first of its DISTINCT ON group, which is unique because no two builds   *)
(* have the same rank.                                                     *)
(***************************************************************************)
EXTENDS SymbolUpsert, TLAPS

Inv == TypeOK /\ DocumentIsPreferredBuild /\ NeverAffectsTwice

\* The ORDER BY ranks of the builds are distinct numbers.
LEMMA RankInjective ==
  \A g1, g2 \in Goos : /\ GoosRank[g1] \in Nat
                       /\ GoosRank[g1] = GoosRank[g2] => g1 = g2
BY SymbolUpsertAssumption DEF GoosRank

\* DISTINCT ON (package, symbol) leaves one row per conflict key.
LEMMA SelectedUnique ==
  ASSUME NEW v \in Versions
  PROVE  ~AffectsTwice(Selected(Joined(v)))
<1> SUFFICES ASSUME NEW r1 \in Selected(Joined(v)), NEW r2 \in Selected(Joined(v)),
                    ConflictKey(r1) = ConflictKey(r2)
             PROVE  r1 = r2
  BY DEF AffectsTwice
<1>1. r1 \in Joined(v) /\ r2 \in Joined(v)
  BY DEF Selected
<1>2. r1.pkg = r2.pkg /\ r1.sym = r2.sym
  BY DEF ConflictKey
<1>3. r1.unit = r2.unit
  BY <1>1, <1>2 DEF Joined
<1>4. GoosRank[r1.goos] <= GoosRank[r2.goos] /\ GoosRank[r2.goos] <= GoosRank[r1.goos]
  BY <1>1, <1>2 DEF Selected, DistinctOn
<1>5. r1.goos = r2.goos
  BY <1>1, <1>4, RankInjective DEF Joined
<1> QED BY <1>1, <1>2, <1>3, <1>5 DEF Joined

\* A row the statement writes satisfies DocumentIsPreferredBuild for its key.
LEMMA SelectedPreferred ==
  ASSUME TypeOK, NEW v \in Versions, NEW r \in Selected(Joined(v))
  PROVE  LET u == r.unit IN
         /\ r.pkg \in Pkgs /\ r.sym \in Syms /\ r.goos \in Goos /\ u \in Unit
         /\ u[2] = r.pkg
         /\ ~isMain[u]
         /\ r.sym \in documentation[u][r.goos]
         /\ \A g \in Goos : r.sym \in documentation[u][g] =>
                            GoosRank[r.goos] <= GoosRank[g]
<1>1. r \in Joined(v)
  BY DEF Selected
<1>2. /\ r.pkg \in Pkgs /\ r.sym \in Syms /\ r.goos \in Goos /\ r.unit \in Unit
      /\ r.unit = <<v, r.pkg>> /\ searchDoc[r.pkg] = v /\ ~isMain[r.unit]
      /\ r.sym \in documentation[r.unit][r.goos]
  BY <1>1 DEF Joined
<1>3. ASSUME NEW g \in Goos, r.sym \in documentation[r.unit][g]
      PROVE  GoosRank[r.goos] <= GoosRank[g]
  <2> DEFINE o == [pkg |-> r.pkg, sym |-> r.sym, unit |-> r.unit, goos |-> g]
  <2>1. o \in Joined(v)
    BY <1>2, <1>3 DEF Joined
  <2>2. DistinctOn(o) = DistinctOn(r)
    BY DEF DistinctOn
  <2> QED BY <2>1, <2>2 DEF Selected
<1> QED BY <1>2, <1>3

LEMMA InvInit == Init => Inv
BY DEF Init, Inv, TypeOK, DocumentIsPreferredBuild, NeverAffectsTwice

LEMMA InvNext == Inv /\ [Next]_vars => Inv'
<1> SUFFICES ASSUME Inv, [Next]_vars PROVE Inv'
  OBVIOUS
<1>1. CASE UNCHANGED vars
  BY <1>1 DEF vars, Inv, TypeOK, DocumentIsPreferredBuild, NeverAffectsTwice
<1>2. ASSUME NEW p \in Pkgs, NEW v \in Versions, MoveSearchDoc(p, v) PROVE Inv'
  BY <1>2 DEF MoveSearchDoc, Inv, TypeOK, DocumentIsPreferredBuild, NeverAffectsTwice
<1>3. ASSUME NEW v \in Versions, Upsert(v) PROVE Inv'
  <2> DEFINE rows == Selected(Joined(v))
  <2>0. UNCHANGED <<documentation, isMain, searchDoc>>
    BY <1>3 DEF Upsert
  <2>1. CASE UNCHANGED ssd /\ lastErr' \in {"nil", "exec"}
    BY <2>0, <2>1 DEF Inv, TypeOK, DocumentIsPreferredBuild, NeverAffectsTwice
  <2>2. CASE ssd' = Upserted(rows) /\ lastErr' = "nil"
    <3>1. \A k \in Pkgs \X Syms :
            \/ ssd'[k] = ssd[k]
            \/ \E r \in rows : k = <<r.pkg, r.sym>> /\ ssd'[k] = [unit |-> r.unit, goos |-> r.goos]
      BY <2>2 DEF Upserted, DoUpdate, ConflictKey
    <3>2. ssd' \in [Pkgs \X Syms -> Doc \cup {None}]
      <4>1. ASSUME NEW r \in rows PROVE [unit |-> r.unit, goos |-> r.goos] \in Doc
        BY <4>1, SelectedPreferred DEF Inv, Doc
      <4>2. ssd' = [k \in Pkgs \X Syms |-> ssd'[k]]
        BY <2>2 DEF Upserted
      <4>3. \A k \in Pkgs \X Syms : ssd'[k] \in Doc \cup {None}
        <5> SUFFICES ASSUME NEW k \in Pkgs \X Syms PROVE ssd'[k] \in Doc \cup {None}
          OBVIOUS
        <5>1. ssd[k] \in Doc \cup {None}
          BY DEF Inv, TypeOK
        <5>2. CASE ssd'[k] = ssd[k]
          BY <5>1, <5>2
        <5>3. CASE \E r \in rows : k = <<r.pkg, r.sym>> /\ ssd'[k] = [unit |-> r.unit, goos |-> r.goos]
          BY <5>3, <4>1
        <5> QED BY <3>1, <5>2, <5>3
      <4> QED BY <4>2, <4>3, Zenon
    <3>3. TypeOK'
      BY <2>0, <2>2, <3>2 DEF Inv, TypeOK
    <3>4. DocumentIsPreferredBuild'
      <4> SUFFICES ASSUME NEW k \in Pkgs \X Syms, ssd'[k] # None
                   PROVE  LET u == ssd'[k].unit IN
                          /\ u[2] = k[1]
                          /\ ~isMain'[u]
                          /\ k[2] \in documentation'[u][ssd'[k].goos]
                          /\ \A g \in Goos : k[2] \in documentation'[u][g] =>
                                             GoosRank[ssd'[k].goos] <= GoosRank[g]
        BY DEF DocumentIsPreferredBuild
      <4>1. CASE ssd'[k] = ssd[k]
        BY <2>0, <4>1 DEF Inv, DocumentIsPreferredBuild
      <4>2. CASE \E r \in rows : k = <<r.pkg, r.sym>> /\ ssd'[k] = [unit |-> r.unit, goos |-> r.goos]
        <5>1. PICK r \in rows : k = <<r.pkg, r.sym>> /\ ssd'[k] = [unit |-> r.unit, goos |-> r.goos]
          BY <4>2
        <5> QED BY <2>0, <5>1, SelectedPreferred DEF Inv
      <4> QED BY <3>1, <4>1, <4>2
    <3>5. QED BY <2>2, <3>3, <3>4 DEF Inv, NeverAffectsTwice
  <2>3. QED
    <3>1. ~AffectsTwice(rows)
      BY SelectedUnique
    <3> QED BY <1>3, <2>1, <2>2, <3>1 DEF Upsert
<1>4. QED BY <1>1, <1>2, <1>3 DEF Next

(* Every symbol search document names a non-command unit of its package   *)
(* documenting the symbol, from the build of the highest priority, for    *)
(* any interleaving of upserts and search-document moves.                 *)
THEOREM DocumentIsPreferredBuildTheorem == Spec => []DocumentIsPreferredBuild
<1>1. Inv => DocumentIsPreferredBuild BY DEF Inv
<1> QED BY <1>1, InvInit, InvNext, PTL DEF Spec

(* The statement never fails with "ON CONFLICT DO UPDATE command cannot   *)
(* affect row a second time", whatever the documentation of the version.  *)
THEOREM NeverAffectsTwiceTheorem == Spec => []NeverAffectsTwice
<1>1. Inv => NeverAffectsTwice BY DEF Inv
<1> QED BY <1>1, InvInit, InvNext, PTL DEF Spec

(* The variables of SymbolUpsert always have their types. *)
THEOREM TypeTheorem == Spec => []TypeOK
<1>1. Inv => TypeOK BY DEF Inv
<1> QED BY <1>1, InvInit, InvNext, PTL DEF Spec
=============================================================================

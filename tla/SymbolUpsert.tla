---------------------------- MODULE SymbolUpsert ----------------------------
(***************************************************************************)
(* upsertSymbolSearchDocuments, src/internal/postgres/symbolsearch.go:     *)
(* for the module version a worker has just inserted, one INSERT ...      *)
(* SELECT DISTINCT ON ... ON CONFLICT DO UPDATE statement writes a row of  *)
(* symbol_search_documents per (package path, symbol name) of each package *)
(* whose search document is that version, taken from the build with the   *)
(* highest priority in which the symbol is documented.                     *)
(*                                                                         *)
(* The tables are abstracted to what the statement reads: a unit is a     *)
(* (version, package) pair; documentation[u][g] is the set of symbols of  *)
(* the documentation row of unit u for build g (empty: no row); isMain[u]  *)
(* is u.name = 'main'; searchDoc[p] is the version whose unit is p's row   *)
(* of search_documents.  Each build context has one GOARCH, so a row of    *)
(* documentation is identified by its GOOS.  Postgres runs the statement   *)
(* atomically: it writes all its rows or, on an error, none.              *)
(***************************************************************************)
EXTENDS Naturals, FiniteSets

CONSTANTS
  Versions,   \* the module versions workers process (of one module)
  Pkgs,       \* package paths
  Syms,       \* symbol names
  Goos,       \* the GOOS values of internal.BuildContexts
  NoVersion,  \* a package without a search document
  None        \* a (package, symbol) without a symbol search document

ASSUME SymbolUpsertAssumption ==
  /\ Goos \subseteq {"all", "linux", "windows", "darwin", "js"}
  /\ NoVersion \notin Versions

Unit == Versions \X Pkgs

\* ORDER BY ... CASE WHEN d.goos = 'all' THEN 0 ... 'js' THEN 4 END
GoosRank == [all |-> 0, linux |-> 1, windows |-> 2, darwin |-> 3, js |-> 4]

\* A unit's documentation: one row for all builds, or one per build.
DocChoices ==
  {[g \in Goos |-> IF g = "all" THEN s ELSE {}] : s \in SUBSET Syms}
  \cup {[g \in Goos |-> IF g = "all" THEN {} ELSE f[g]] :
          f \in [Goos \ {"all"} -> SUBSET Syms]}

\* A row of symbol_search_documents: unit_id and goos (package_symbol_id
\* and goarch follow from them).
Doc == [unit : Unit, goos : Goos]

VARIABLES
  documentation,  \* documentation and documentation_symbols
  isMain,         \* units.name = 'main'
  searchDoc,      \* search_documents: the version of each package's row
  ssd,            \* symbol_search_documents, keyed by (package, symbol)
  lastErr         \* what the last call returned

vars == <<documentation, isMain, searchDoc, ssd, lastErr>>

Init ==
  /\ documentation \in [Unit -> DocChoices]
  /\ isMain \in [Unit -> BOOLEAN]
  /\ searchDoc \in [Pkgs -> Versions \cup {NoVersion}]
  /\ ssd = [k \in Pkgs \X Syms |-> None]
  /\ lastErr = "nil"

\* FROM search_documents sd JOIN units u JOIN documentation d JOIN
\* documentation_symbols ds JOIN package_symbols ps WHERE sd.module_path =
\* $1 AND sd.version = $2 AND u.name != 'main'.
Joined(v) ==
  {r \in [pkg : Pkgs, sym : Syms, unit : Unit, goos : Goos] :
     /\ searchDoc[r.pkg] = v
     /\ r.unit = <<v, r.pkg>>
     /\ ~isMain[r.unit]
     /\ r.sym \in documentation[r.unit][r.goos]}

\* Mutant: DISTINCT ON also keyed on d.goos.
DistinctOnWithGoos(r) == <<r.pkg, r.sym, r.goos>>

\* DISTINCT ON (sd.package_path_id, ps.symbol_name_id)
DistinctOn(r) == <<r.pkg, r.sym>>

\* The first row of each DISTINCT ON group in the ORDER BY.
Selected(rows) ==
  {r \in rows : \A o \in rows :
     DistinctOn(o) = DistinctOn(r) => GoosRank[r.goos] <= GoosRank[o.goos]}

\* ON CONFLICT (package_path_id, symbol_name_id)
ConflictKey(r) == <<r.pkg, r.sym>>

\* Postgres refuses a statement that would update one row twice ("ON
\* CONFLICT DO UPDATE command cannot affect row a second time").
AffectsTwice(rows) ==
  \E r1, r2 \in rows : r1 # r2 /\ ConflictKey(r1) = ConflictKey(r2)

\* Mutant: DO UPDATE SET leaves goos (and goarch) as they were.
DoUpdateKeepGoos(old, new) == [new EXCEPT !.goos = old.goos]

\* DO UPDATE SET unit_id = excluded.unit_id, package_symbol_id = ...,
\* goos = excluded.goos, goarch = excluded.goarch
DoUpdate(old, new) == new

\* The table after inserting or updating the selected rows.
Upserted(rows) ==
  [k \in Pkgs \X Syms |->
     IF \E r \in rows : ConflictKey(r) = k
     THEN LET r == CHOOSE r \in rows : ConflictKey(r) = k
              new == [unit |-> r.unit, goos |-> r.goos]
          IN IF ssd[k] = None THEN new ELSE DoUpdate(ssd[k], new)
     ELSE ssd[k]]

\* upsertSymbolSearchDocuments(ctx, tx, modulePath, v): nothing when the
\* experiment is off, else tx.Exec of the statement, which fails as a
\* whole or writes every selected row.
Upsert(v) ==
  /\ \/ /\ lastErr' = "nil"                     \* experiment not active
        /\ UNCHANGED ssd
     \/ /\ lastErr' = "exec"                    \* the database fails
        /\ UNCHANGED ssd
     \/ LET rows == Selected(Joined(v)) IN
        IF AffectsTwice(rows)
        THEN /\ lastErr' = "affect_twice"
             /\ UNCHANGED ssd
        ELSE /\ ssd' = Upserted(rows)
             /\ lastErr' = "nil"
  /\ UNCHANGED <<documentation, isMain, searchDoc>>

\* Outside src/: the worker moves a package's search document to another
\* version (a newer latest version, or an older one after a retraction).
MoveSearchDoc(p, v) ==
  /\ searchDoc[p] # v
  /\ searchDoc' = [searchDoc EXCEPT ![p] = v]
  /\ UNCHANGED <<documentation, isMain, ssd, lastErr>>

Next ==
  \/ \E v \in Versions : Upsert(v)
  \/ \E p \in Pkgs, v \in Versions : MoveSearchDoc(p, v)

Spec == Init /\ [][Next]_vars

-----------------------------------------------------------------------------
(* Type invariant. *)
TypeOK ==
  /\ documentation \in [Unit -> DocChoices]
  /\ isMain \in [Unit -> BOOLEAN]
  /\ searchDoc \in [Pkgs -> Versions \cup {NoVersion}]
  /\ ssd \in [Pkgs \X Syms -> Doc \cup {None}]
  /\ lastErr \in {"nil", "exec", "affect_twice"}

(* Every symbol search document points at a unit of its own package that *)
(* is not a command and documents the symbol, and names the build of the *)
(* highest priority (all, linux, windows, darwin, js) among that unit's   *)
(* documentation containing it, also after later versions updated the    *)
(* row in place.                                                           *)
DocumentIsPreferredBuild ==
  \A k \in Pkgs \X Syms : ssd[k] # None =>
    LET u == ssd[k].unit IN
    /\ u[2] = k[1]
    /\ ~isMain[u]
    /\ k[2] \in documentation[u][ssd[k].goos]
    /\ \A g \in Goos : k[2] \in documentation[u][g] =>
                       GoosRank[ssd[k].goos] <= GoosRank[g]

(* The statement never fails because a symbol documented for several     *)
(* builds would update its row twice: DISTINCT ON keeps one row per       *)
(* conflict key.                                                          *)
NeverAffectsTwice == lastErr # "affect_twice"
=============================================================================

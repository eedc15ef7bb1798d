# TLA+ models of the pkgsite Go+ documentation path

These modules model the parts of `src/` that have state and control flow worth checking:

- the Go+ overload resolver and the documentation templates that render its output;
- loading of those templates;
- the details-page handler and its background fetch;
- symbol search, and the upsert that fills its table.

Everything here is checked with TLC on small instances. The main safety properties are also proved with TLAPS for every value of the constants.

## The system and how its parts interact

1. **gopdoc resolver** (`Transform`, `GopInfo.FuncId`). It takes a parsed `doc.Package` and returns:
   - the display name and identity (FuncId) of every function and method;
   - extra views for *overload groups*.
   
   A group comes either from implicit `Name__c` suffixes (`c` is a base-36 digit) or from an explicit `const Gopo_[Type_]Name = "spec,spec,..."`. A view at position `p > 0` gets a first doc line `overload_func_index:p`, the *Doc Marker*.
   
   The resolver's own source is not in `src/`. Its definitions follow `spec.md` §4.1–4.6 and are marked `spec_modelled` in the map. Its expected behaviour is pinned down by `src/internal/gopdoc/z_test.go`.
2. **dochtml callbacks** (`src/internal/godoc/dochtml/template.go`):
   - `overloadFuncIndex` parses the Doc Marker back out of the doc.
   - `render_function_id` builds the HTML anchor `FullName__<index>` from it.
   - `render_actual_doc` removes the marker line.
   
   The renderer learns a view's position *only* through that line. This is why the resolver and renderer are modelled together.
3. **Template loading** (`LoadTemplates`, `Templates`, same file). The three templates are package variables. `loadOnce.Do` fills them in, each through `template.Must`. Any number of goroutines may call `LoadTemplates` and then render.
4. **serveDetails** (`src/internal/frontend/details.go`). The HTTP handler for details pages. It runs these steps in order:
   - the method check and the special paths;
   - `extractURLPathInfo` and `validatePathAndVersion`;
   - the version-type metric;
   - `GetUnitMeta`;
   - for `path@master`, a goroutine that asks the task queue to fetch the module;
   - `serveUnitPage`, whose result the handler returns: the page, or an error that becomes the response status.
   
   The goroutine outlives the handler.
5. **upsertSymbolSearchDocuments** (same file). After a worker inserts a module version, one `INSERT ... SELECT DISTINCT ON ... ON CONFLICT DO UPDATE` statement writes a row of `symbol_search_documents` per (package, symbol) of every non-command package whose search document is that version. The row comes from the build of highest priority (`all`, `linux`, `windows`, `darwin`, `js`) that documents the symbol. symbolSearch reads these rows, and joins them with `search_documents` on the unit, so rows of an older version are hidden.
6. **symbolSearch** (`src/internal/postgres/symbolsearch.go`). It turns the query into an OR of its terms, runs the ranked SQL query, collects rows, drops them on an error and clamps the result totals.

## Modules

| Module | Models | State / actions |
|---|---|---|
| `GopDoc` | resolver (spec §4) | `pkg, implicit, explicit, candidates, dup, views, phase`. One action per stage: `Detect` (isGopPackage), `BuildImplicit`, `BuildExplicit`, `Synthesize`, `AssignIds`. |
| `DocHTML` | template.go:29–112 | Pure operators `overloadFuncIndex`, `render_function_id` and `render_actual_doc` over items whose doc is a sequence of lines. |
| `GopRender` | resolver + renderer | Adds `page` and the `RenderPage` step, which executes the body template over every view. |
| `GopTests` | z_test.go, render_gop_test.go, testdata/overload.go | The six test packages and their expected printout (FuncId, name, Recv, Doc), plus the anchors TestGopRender looks for. |
| `TemplateLoad` | template.go:22–54 | `done, mu, tmpl, loads, pc, seen`. Actions: `Call` (the fast path of `Once.Do`), `Acquire` (the mutex and the second look at `done`), `Parse` (one `template.Must`, success or panic, with the deferred `done` store and unlock), `Render` (executes `Templates()`). |
| `Details` | details.go:65–134, 176–185 | Per request: `pc, status, urlInfo, g` (the goroutine), `outcome`. Shared: `metric, fetched, queue`. Actions: `Route`, `Validate`, `GetUnitMeta`, `ServeUnitPage`, `ScheduleFetch`, `Expire`. |
| `Once` | template.go:22–54, abstract | `done, tmpl, status, seen`. `Do` runs all of f atomically, `Render` executes `Templates()`. The specification `TemplateLoad` refines. |
| `SymbolUpsert` | symbolsearch.go:20–82 | `documentation, isMain, searchDoc, ssd, lastErr`. `Upsert(v)`: experiment off, an Exec error, the affect-twice error, or every selected row written at once. `MoveSearchDoc` is the environment (the worker, outside `src/`) moving a package's search document. |
| `SymbolSearch` | symbolsearch.go:89–195 | `q, tsquery, rows, results, err, phase`. Actions: `JoinTerms`, `RunQuery`, `Collect`, `Finish` (the error drop and the clamp). `to_tsquery` is modelled by its lexer and grammar. |
| `MC_*` | | Instantiations for TLC. The `MC_*.cfg` files give the constants. |
| `*Proofs` | | TLAPS proofs. |

### How the data is abstracted

The control flow is kept whole: every guard, early return and error path. The data is abstracted as follows:

- **Identifiers** are `[stem, tail]`. `stem` is a model value. `tail` is the `__`-separated segments, as digit values.
- **FuncIds** (`IdOf`, spec §4.5) are the literal name outside a group and at position 0. At a position p > 0, they are the group name with the segment p (written in decimal) appended, as the spec's `name__position` says. An earlier version of the model replaced the last segment instead. The proof of `AnchorIsFuncId` would not go through with that version, and it did not follow the spec.
- **Implicit groups** (`ImplicitMembers`) partition the declarations as `splitImplicitSuffix` does (spec §4.2, §4.3). A name with a one-character suffix joins the group of its base at the decoded index. Any other name is position 0 of the group of its own name. An earlier version of the model also put every suffixed name at position 0 of its own group, so `A__a` could join two implicit groups. The `gop_render` universe has no name like `A__1__2`, so the runs could not tell the two versions apart.
- **Docs** are sequences of lines. A sentinel line is `[index |-> n]`.
- **Query strings** are sequences of characters over `{"a","b"," "}`.
- **The database** is a count of matching rows. LIMIT and OFFSET select a page of it.
- **A callee of serveDetails** is reduced to the outcomes it can have:
  - found, NotFound or another error;
  - enqueued, failed, or no answer.
- **The upsert's tables**: a unit is a (version, package) pair; a unit's documentation is, per GOOS, the set of symbols it documents (either one `all` row or one row per build); `ssd` maps (package, symbol) to a (unit, goos) row or `None`. The SELECT is a set filter (`Joined`), DISTINCT ON the rows of least rank per key (`Selected`), ON CONFLICT the function update (`Upserted`).
- **Contexts** are records saying whether they have a deadline and whether they are the request's own.

## Runs

| Run | Expect | What it shows |
|---|---|---|
| `gop_render` | pass | Over every package built from two types, three stems, bad suffix characters, collisions and Gopo lists of up to 3 specifiers:<br>• each anchor equals the FuncId (`AnchorIsFuncId`);<br>• the shown doc is the source doc (`DocShownIsSource`);<br>• no two headers share an anchor (`AnchorsUnique`). |
| `gop_contiguous` | violation | `GroupsContiguous`: an unresolved first specifier leaves a group with only position 1. |
| `gop_spoof` | violation | `AnchorsUnique`: a user doc starting with `overload_func_index:1` gives a plain function the anchor of a group member. |
| `gop_tests` | pass | The model reproduces every expectation of z_test.go (`MatchesTests`) and the anchors `Mul, Mul__1, Mul__2, MulFloat, MulInt` (`HasTestAnchors`). |
| `gop_tests_doc` | violation | `DocMatchesTests`: the tests print docs without the Doc Marker that spec §4.6 adds. |
| `template_load` | pass | Four goroutines, no failing template:<br>• each template is assigned at most once;<br>• renderers see all three templates;<br>• every caller finishes. |
| `template_panic_finish` | pass | `outline` fails to parse, and still every caller returns or panics. This rests on the deferred unlock. |
| (both template runs) | | `OnceSpec`: every behaviour, liveness included, is a behaviour of the atomic `Once` specification under the mapping below. |
| `template_panic` | violation | `RenderSeesTemplates`: after the panic, later callers render with nil templates. |
| `symbol_search` | pass | `ResponseIsPage`: with an error there are no results; without one the response is exactly the LIMIT/OFFSET page with clamped totals. |
| `symbol_query` | violation | `QueryIsOrOfTerms`: `" "`, `"a "` or `"a  b"` produce an empty tsquery operand, which is a syntax error. |
| `symbol_upsert` | pass | Two versions of a package, two symbols, three builds, every documentation shape, commands, and search documents moving between versions:<br>• every row names a non-command unit of its package documenting the symbol, from its highest-priority build, also after updates in place (`DocumentIsPreferredBuild`);<br>• the statement never fails with "cannot affect row a second time" (`NeverAffectsTwice`). |
| `details` | pass | Two concurrent requests over every method, path and version:<br>• the task queue is asked to fetch only for a found path@master request, and for the module GetUnitMeta resolved, also when `serveUnitPage` answers with an error (`FetchForResolvedModule`);<br>• `MetricTagsBounded`;<br>• `FetchGoroutineEnds`;<br>• once a request has a response status it never changes, so no error path goes on to serve a second response (`ResponseWrittenOnce`, an action property). |

Every property of a passing run has a mutant in `PROJECT.json`: a plausible bug in the mapped code that TLC then catches. The mutants are:

- a dropped re-check of `done`;
- a skipped `done` store;
- DISTINCT ON keyed on goos as well;
- DO UPDATE leaving goos as it was;
- a skipped unlock;
- an early return while f runs;
- metric recording before validation;
- no timeout;
- the URL's module path instead of the resolved one;
- kept partial results;
- an unstripped marker;
- a sentinel at position 0;
- an unadapted receiver;
- a method-only kind check;
- an invalid-version error path that does not return;
- and others.

### Bounds

- **Resolver.** Three stems and two types are enough for:
  - a collision between a literal name and a synthesized one;
  - an implicit group and an explicit group on the same name;
  - a method group next to a function group.
  
  Gopo lists of up to 3 specifiers cover `""`, `.m` and `f` in every order. Suffixes include a bad character and the digits that collide in base 36 versus decimal.
- **TemplateLoad.** Four goroutines is the smallest number for which a waiter, a fast-path caller, a caller that races the lock, and the loader coexist with a panic.
- **Details.** Two requests are enough for one request's goroutine to read state after the other has moved on. Versions cover latest, master, a semantic version and an invalid one.
- **SymbolUpsert.** Two versions give an update in place and a search document that moves away and back. Two symbols and three builds (`all`, `linux`, `windows`) give a symbol documented for two builds (the DISTINCT ON case) and one documented for only the lower-priority build. 14,904 states. The run has one package, so it does not exercise the package column of the DISTINCT ON key. Two packages with two symbols do not finish within the run's time limit. `NeverAffectsTwiceTheorem` and `DocumentIsPreferredBuildTheorem` hold for any set of packages.
- **SymbolSearch.** Queries of up to three characters include the leading, trailing and doubled spaces. Totals up to 3 with limits, offsets and caps in {1,2} (offset {0,1}) exercise an empty page, a partial page and the clamp.

### Fairness

- **TemplateLoad and Details** assume weak fairness per goroutine and request. The Go scheduler runs every runnable goroutine, and the one-minute `context.WithTimeout` fires, so `Expire` is weakly fair. In TemplateLoad, contention for the Once mutex is finite: once `done` is set nobody takes the lock, so weak fairness is enough.
- **Resolver, symbol search and the upsert** are single synchronous passes that stop when done. Their cfgs, and the TemplateLoad and Details cfgs, say `CHECK_DEADLOCK FALSE`, because a finished handler or pass is a final state.

## What is proved (TLAPS)

- **`GopRenderProofs`**:
  - `IdsInv` (lemmas `IdsInvInit`, `IdsInvNext`, `IdsInvImpliesIdsUnique`) is the identity part of the anchor proof below. It says the views are either the plain literal views, or views with no duplicate identity, depending on the phase. The key lemma `PlainIdsDistinct` shows that literal names are distinct because `Decls` has one declaration per scope and name. That is an ASSUME in `GopDoc`. `IdsUnique` is not a checked property of its own: `AssignIds` falls back to the literal names whenever two identities collide, so it holds by construction whatever `IdOf` computes.
  - `TypeTheorem` proves `Spec => []RenderTypeOK`. It uses typing lemmas for every operator the stages are built from: `Lines`, `DocOf`, `Plain`, `ImplicitMembers`, `ExplicitMembers`, `Synthesized`, `FmtDecimal`.
- **`TemplateLoadProofs`**: `LoadedAtMostOnceTheorem` and `TypeTheorem`. `LoadedAtMostOnce` alone is not inductive. The strengthening `IInv` adds these facts:
  - a goroutine is in `f` iff it holds the mutex;
  - while the mutex is held, `done` is false;
  - before anyone has run `f`, no template is loaded;
  - the running goroutine has loaded exactly the templates before its current step (`LoadsBefore`).
- **`TemplateLoadProofs`, refinement.** `OnceRefinement` proves `Spec => Abs!SafeSpec`, where `Abs == INSTANCE Once WITH tmpl <- tmplBar, status <- statusBar`:
  - `tmplBar` shows the template variables only once `done` is set (before that, the assignments of the running goroutine are internal);
  - `statusBar` maps every goroutine that has not returned or panicked to `idle`.
  
  The `Parse` step that ends f is the `Do` step of the loader. A `Call` or `Acquire` that finds `done` set is the `Do` of the caller. Every other step is a stutter. The invariant `RInv` adds to `IInv`: the templates are `set` exactly where loaded; the running goroutine has passed only templates that do not fail; `done` implies `tmpl = Abs!Loaded`; a returned goroutine implies `done`; a renderer saw `tmpl`. `RenderSeesTemplatesTheorem` then follows for `Failing = {}`. TLC checks `Abs!Spec`, fairness included, as `OnceSpec`.
- **`SymbolUpsertProofs`**: `DocumentIsPreferredBuildTheorem`, `NeverAffectsTwiceTheorem` and `TypeTheorem`. The two invariants are inductive together with `TypeOK`. The key lemmas:
  - `SelectedUnique`: two selected rows with the same conflict key are equal, because the GOOS ranks are distinct (`RankInjective`);
  - `SelectedPreferred`: a selected row documents its symbol in a non-command unit of its package, and has the least rank among all builds of that unit documenting the symbol, because every such build joins to a row of the same DISTINCT ON group.
  
  `MoveSearchDoc` cannot break the invariant, because a row depends only on its unit's documentation, which never changes.
- **`DetailsProofs`**: `FetchForResolvedModuleTheorem`, `MetricTagsBoundedTheorem`, `ResponseWrittenOnceTheorem` and `TypeTheorem`. The invariant `IInv` relates each request's `pc` to its status and goroutine. It says:
  - a goroutine exists only for a master request whose module was resolved, at or after `serve`; whatever status `ServeUnitPage` then writes, nothing writes that request's `urlInfo` again;
  - every fetch recorded is for its request's resolved module;
  - a request that is not `done` has status 0.

  `ResponseWrittenOnceTheorem` is an action property. The step lemma `WrittenOnceNext` proves `IInv /\ [Next]_vars => [WrittenOnceStep]_vars`: a request with a status is `done` by `IInv`, and no action of a `done` request, or of the fetch goroutines, writes its status.

- **`SymbolSearchProofs`**: `ResponseIsPageTheorem` proves `Spec => []ResponseIsPage` for every limit, offset, total, `maxResultCount` and failure point. The invariant `PageInv` follows the phases of `symbolSearch`:
  - before the query runs, there are no results and no error;
  - while `collect` runs without an error, `results` followed by the remaining `rows` is exactly the page `Page(total, limit, offset)` (`CollectedPrefix`);
  - when the loop ends without an error, `results` is that page;
  - at the end, the response is empty with an error and the clamped page without one.

  `ResponseIsPage` alone says nothing about the middle of the loop, so it is not inductive. The lemma `ClampPage` gives the clamped page in closed form (`ClampedPage`), so the last step is an equation between two terms. The assumption on the constants is split in two (`LettersAssumption`, `SymbolSearchAssumption`). The SMT backend cannot read the string literals of the first, so the proofs cite only the second.
- **`GopAnchorProofs`**: `AnchorIsFuncIdTheorem` and `DocShownIsSourceTheorem` prove `NoSpoofedDocs => (Spec => []AnchorIsFuncId)` and the same for `DocShownIsSource`. `NoSpoofedDocs` says no declaration's own doc begins with an `overload_func_index:n` line. The hypothesis is necessary: the run `gop_spoof` builds such a doc, and the anchors collide. `MC_GopRender` satisfies it. The invariant `AnchorInv` says:
  - every candidate and every view is `Shaped`: its doc is `DocOf(pos, src)`, and its position is a base-36 digit value or `NoPos`;
  - the page is empty before `RenderPage`, and afterwards it is exactly the rendered views (`RenderedPage`).

  The lemma `RenderedIsSource` is the Doc Marker protocol for one view. With no sentinel, `render_function_id` yields the full name, which is the FuncId at positions `NoPos` and 0. With the sentinel at position p > 0, `overloadFuncIndex` reads back p, and the anchor appends `FmtDecimal(p)`, as `IdOf` does. In both cases `render_actual_doc` removes exactly the sentinel. `SynthesizedShaped` and `PlainShaped` give the `Shaped` part for every stage.

  `AnchorsUniqueTheorem` proves `NoSpoofedDocs => (Spec => []AnchorsUnique)` from `AnchorInv` and `IdsInv` together. Every anchor is `AnchorOf(IdOf(view))`, `AnchorOf` is injective (`AnchorOfInjective`), and the views' FuncIds are pairwise distinct.

Each proof is `Init => IInv`, `IInv /\ [Next]_vars => IInv'` (one step per action), and `IInv => Inv`, combined with PTL. IInv was first checked with TLC as an invariant. An action property `[][A]_vars` is proved by a step lemma `IInv /\ [Next]_vars => [A]_vars`, combined with the invariant's two lemmas by PTL.

### Only model-checked

- **Liveness.** `AllCallersFinish`, `FetchGoroutineEnds` and the fairness part of `OnceSpec` depend on fairness and ENABLED, which are outside TLAPS's reach.
- **Properties of recursive definitions.** SymbolSearch's `Split` and `Tokens` are recursive functions over strings, and what they compute for every input would need induction over data.
- **The test packages.** `MatchesTests` and `HasTestAnchors` are about a fixed finite instance of `GopTests`. TLC evaluates them exactly on that instance. A proof would have to evaluate the whole resolver and renderer on concrete strings by rewriting, which the SMT and Zenon backends do not do, and it would show nothing TLC does not.
- **`EveryDeclOnce`.** It does not hold for every package, so no run checks it and there is no theorem. It holds on the `gop_render` universe only because that universe has no Gopo constant named after a suffixed declaration, so a pass there would hide the case the property is about. The attempt to prove it found this counterexample: the functions `A` and `A__a` with the constant `Gopo_A__a = ""`.
  - `A__a` is member 10 of the implicit group `A`, because its key is not explicit. Its id is `A__10`.
  - It is also the self member of the explicit group `A__a`. Its id there is `A__a`.
  - The ids differ, so DuplicateIdentity does not fire, and the declaration is shown twice as itself.

  The spec never says a declaration joins at most one group. `tlc -config MC_GopTwoGroups.cfg MC_GopTwoGroups` reproduces this counterexample. It is kept out of the run list because the list is at its size limit.

## Statements left unchecked because the model makes them true

These would pass every run whatever the code does, so no run checks them:

- **FuncIds are unique.** `AssignIds` replaces all views by the literal names as soon as two identities collide, and the literal names are distinct. The anchor proof still uses the fact (`IdsInv`).
- **Explicit groups follow the specifier order.** `ExplicitMembers` gives each member the index of its specifier as its position. The order the resolver must produce is checked against the tests instead (`MatchesTests`).
- **An upsert writes only rows of the search document's unit.** `Joined` selects units only through the search document with `sd.version = $2`, so the statement would restate that join.
- **The fetch is not canceled with the request.** Line 126 builds the goroutine's context from `context.Background()`, and the model's `FetchCtx` is that constant.

## Not modelled

- The upsert's other columns (`package_symbol_id`, `goarch`) follow from the unit, symbol and GOOS and are not kept. Rows of symbols that a newer version dropped are never deleted by the code; the model keeps them, and `DocumentIsPreferredBuild` shows that they stay correct for their own unit.
- `internal/testing/sample/legacy.go` holds fixture constructors with no state changes.
- `frontend/server_test.go` checks HTML served from a test database.
- The error-page HTML of `invalidVersionError` and `proxydatasourceNotSupportedErr` is modelled only as the status it sets.
- The ranking expression of the symbol query and the SQL ordering are not modelled.

## Plan for later work

- Decide with the spec's authors whether a declaration may join both an implicit and an explicit group (the `MC_GopTwoGroups` counterexample). Then state `EveryDeclOnce` under that rule and prove it.
- Model the Name Codec's `checkTypeMethod` (z_test.go `TestCheckTypeMethod`, `TestToIndex`).
- Model the unsynchronised reader of `Templates()` as a data race with nondeterministic outcomes.

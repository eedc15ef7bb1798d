------------------------------- MODULE Details -------------------------------
(***************************************************************************)
(* Server.serveDetails, src/internal/frontend/details.go, for a set of     *)
(* requests served concurrently.  A request goes through the method check, *)
(* the special paths, extractURLPathInfo, validatePathAndVersion, the      *)
(* version-type metric, GetUnitMeta and, for path@master, the goroutine    *)
(* that asks the frontend task queue to fetch the module.  The goroutine   *)
(* outlives the handler: net/http cancels the request's context when the   *)
(* handler returns, so the goroutine runs under its own context, a         *)
(* one-minute timeout over context.Background().                           *)
(*                                                                         *)
(* What the handler's callees do is abstracted to their outcomes:          *)
(* extractURLPathInfo to "the path parses" or not, validatePathAndVersion  *)
(* to rejecting a version that is neither latest, master nor a semantic    *)
(* version (invalidVersionError), GetUnitMeta to found (with the module    *)
(* that contains the path), NotFound or another error, and                 *)
(* ScheduleFetch to enqueued, an error, or no answer.                      *)
(***************************************************************************)
EXTENDS Naturals, FiniteSets

CONSTANTS
  Reqs,        \* the requests
  Methods,     \* their HTTP methods
  Paths,       \* their URL paths: "/", "/C", "/mod/std", "bad" or "unit"
  Versions,    \* requested versions: "latest", "master", "v1.0.0", "other"
  Modules,     \* the modules GetUnitMeta may resolve a path to
  Unknown      \* internal.UnknownModulePath

Semver == {"v1.0.0"}
Request == [method : Methods, path : Paths, version : Versions,
            modulePath : Modules \cup {Unknown}]

ASSUME DetailsAssumption ==
  /\ Paths \subseteq {"/", "/C", "/mod/std", "bad", "unit"}
  /\ Versions \subseteq {"latest", "master", "other"} \cup Semver
  /\ Unknown \notin Modules

\* The context the fetch goroutine runs under: it has a deadline, and it is
\* not the request's.
\* Mutant: context.Background() without the timeout.
FetchCtxNoTimeout == [deadline |-> FALSE, request |-> FALSE]

FetchCtx == [deadline |-> TRUE, request |-> FALSE]

VARIABLES
  req,        \* each request's method, path, version and the URL's module
  pc,         \* where each handler is
  status,     \* the response status of each request (0: none yet)
  urlInfo,    \* modulePath and resolvedVersion of each request's urlInfo
  metric,     \* the version_type tags recorded: a set of [req, tag]
  g,          \* the fetch goroutine of each request
  fetched,    \* what ScheduleFetch was called with: a set of [req, module, version]
  outcome,    \* how each goroutine's ScheduleFetch ended
  queue       \* the module versions the task queue holds

vars == <<req, pc, status, urlInfo, metric, g, fetched, outcome, queue>>

Init ==
  /\ req \in [Reqs -> Request]
  /\ pc = [r \in Reqs |-> "start"]
  /\ status = [r \in Reqs |-> 0]
  /\ urlInfo = [r \in Reqs |-> [modulePath |-> Unknown, resolvedVersion |-> "none"]]
  /\ metric = {}
  /\ g = [r \in Reqs |-> "none"]
  /\ fetched = {}
  /\ outcome = [r \in Reqs |-> "none"]
  /\ queue = {}

\* Lines 68-93: the method check, the special paths and extractURLPathInfo.
Route(r) ==
  /\ pc[r] = "start"
  /\ LET x == req[r] IN
     \/ /\ x.method # "GET"
        /\ status' = [status EXCEPT ![r] = 405] /\ pc' = [pc EXCEPT ![r] = "done"]
        /\ UNCHANGED urlInfo
     \/ /\ x.method = "GET" /\ x.path = "/"
        /\ status' = [status EXCEPT ![r] = 200] /\ pc' = [pc EXCEPT ![r] = "done"]
        /\ UNCHANGED urlInfo
     \/ /\ x.method = "GET" /\ x.path \in {"/C", "/mod/std"}
        /\ status' = [status EXCEPT ![r] = 301] /\ pc' = [pc EXCEPT ![r] = "done"]
        /\ UNCHANGED urlInfo
     \/ /\ x.method = "GET" /\ x.path = "bad"
        /\ status' = [status EXCEPT ![r] = 400] /\ pc' = [pc EXCEPT ![r] = "done"]
        /\ UNCHANGED urlInfo
     \/ /\ x.method = "GET" /\ x.path = "unit"
        /\ urlInfo' = [urlInfo EXCEPT ![r].modulePath = x.modulePath]
        /\ pc' = [pc EXCEPT ![r] = "validate"]
        /\ UNCHANGED status
  /\ UNCHANGED <<req, metric, g, fetched, outcome, queue>>

\* recordVersionTypeMetric: "semver" for a semantic version, else the
\* requested version itself.
VersionTag(v) == IF v \in Semver THEN "semver" ELSE v

\* Mutant: the metric is recorded before the version is validated.
ValidateRecordFirst(r) ==
  /\ pc[r] = "validate"
  /\ metric' = metric \cup {[req |-> r, tag |-> VersionTag(req[r].version)]}
  /\ IF req[r].version \in {"latest", "master"} \cup Semver
     THEN pc' = [pc EXCEPT ![r] = "meta"] /\ UNCHANGED status
     ELSE /\ status' = [status EXCEPT ![r] = 400]
          /\ pc' = [pc EXCEPT ![r] = "done"]
  /\ UNCHANGED <<req, urlInfo, g, fetched, outcome, queue>>

\* Mutant: the handler goes on after serving the invalid-version error.
ValidateNoReturn(r) ==
  /\ pc[r] = "validate"
  /\ IF req[r].version \in {"latest", "master"} \cup Semver
     THEN /\ metric' = metric \cup {[req |-> r, tag |-> VersionTag(req[r].version)]}
          /\ urlInfo' = [urlInfo EXCEPT ![r].resolvedVersion = req[r].version]
          /\ pc' = [pc EXCEPT ![r] = "meta"]
          /\ UNCHANGED status
     ELSE /\ status' = [status EXCEPT ![r] = 400]
          /\ pc' = [pc EXCEPT ![r] = "meta"]
          /\ UNCHANGED <<metric, urlInfo>>
  /\ UNCHANGED <<req, g, fetched, outcome, queue>>

\* Lines 100-106: validatePathAndVersion, then the metric, then
\* resolvedVersion = requestedVersion.
Validate(r) ==
  /\ pc[r] = "validate"
  /\ IF req[r].version \in {"latest", "master"} \cup Semver
     THEN /\ metric' = metric \cup {[req |-> r, tag |-> VersionTag(req[r].version)]}
          /\ urlInfo' = [urlInfo EXCEPT ![r].resolvedVersion = req[r].version]
          /\ pc' = [pc EXCEPT ![r] = "meta"]
          /\ UNCHANGED status
     ELSE /\ status' = [status EXCEPT ![r] = 400]
          /\ pc' = [pc EXCEPT ![r] = "done"]
          /\ UNCHANGED <<metric, urlInfo>>
  /\ UNCHANGED <<req, g, fetched, outcome, queue>>

\* Lines 107-132: GetUnitMeta; on success the urlInfo takes the module and
\* version found and a master request starts the fetch goroutine.  A
\* NotFound error serves the path-not-found page, any other error is
\* returned (500).
GetUnitMeta(r) ==
  /\ pc[r] = "meta"
  /\ \/ \E m \in Modules, v \in Semver :
          /\ urlInfo' = [urlInfo EXCEPT ![r] = [modulePath |-> m, resolvedVersion |-> v]]
          /\ g' = [g EXCEPT ![r] = IF req[r].version = "master" THEN "start" ELSE "none"]
          /\ pc' = [pc EXCEPT ![r] = "serve"]
          /\ UNCHANGED status
     \/ /\ status' = [status EXCEPT ![r] = 404]
        /\ pc' = [pc EXCEPT ![r] = "done"]
        /\ UNCHANGED <<urlInfo, g>>
     \/ /\ status' = [status EXCEPT ![r] = 500]
        /\ pc' = [pc EXCEPT ![r] = "done"]
        /\ UNCHANGED <<urlInfo, g>>
  /\ UNCHANGED <<req, metric, fetched, outcome, queue>>

\* Line 133: the handler returns what serveUnitPage returns: the page is
\* written, or its error is (a serverError's status, 500 for any other).
\* Either way the handler returns, which cancels the request's context;
\* the fetch goroutine, started at line 125, may still be running.
ServeUnitPage(r) ==
  /\ pc[r] = "serve"
  /\ \E c \in {200, 400, 404, 500} : status' = [status EXCEPT ![r] = c]
  /\ pc' = [pc EXCEPT ![r] = "done"]
  /\ UNCHANGED <<req, urlInfo, metric, g, fetched, outcome, queue>>

\* The context of a goroutine's ScheduleFetch is done: its deadline passed
\* (timedOut) or it is the request's and the handler has returned.
Canceled(r, timedOut) ==
  \/ FetchCtx.deadline /\ timedOut
  \/ FetchCtx.request /\ pc[r] = "done"

\* Mutant: the goroutine reads the module path the URL named.
FetchModuleParsed(r) == req[r].modulePath

\* The closure reads urlInfo.modulePath when it runs.
FetchModule(r) == urlInfo[r].modulePath

\* s.queue.ScheduleFetch(ctx, urlInfo.modulePath, internal.MasterVersion, "")
\* returns: the fetch is enqueued, it fails (logged), or no answer comes
\* before the context is done.
ScheduleFetch(r) ==
  /\ g[r] = "start"
  /\ fetched' = fetched \cup {[req |-> r, module |-> FetchModule(r), version |-> "master"]}
  /\ \/ /\ queue' = queue \cup {[module |-> FetchModule(r), version |-> "master"]}
        /\ outcome' = [outcome EXCEPT ![r] = "enqueued"]
        /\ g' = [g EXCEPT ![r] = "done"]
     \/ /\ outcome' = [outcome EXCEPT ![r] = "error"]
        /\ g' = [g EXCEPT ![r] = "done"] /\ UNCHANGED queue
     \/ /\ g' = [g EXCEPT ![r] = "waiting"] /\ UNCHANGED <<outcome, queue>>
  /\ UNCHANGED <<req, pc, status, urlInfo, metric>>

\* A ScheduleFetch that got no answer returns ctx.Err() once the context is
\* done; the error is logged and the deferred cancel runs.
Expire(r) ==
  /\ g[r] = "waiting"
  /\ \E timedOut \in BOOLEAN :
       /\ Canceled(r, timedOut)
       /\ outcome' = [outcome EXCEPT ![r] = IF timedOut THEN "timeout" ELSE "canceled"]
  /\ g' = [g EXCEPT ![r] = "done"]
  /\ UNCHANGED <<req, pc, status, urlInfo, metric, fetched, queue>>

Next == \E r \in Reqs :
          \/ Route(r) \/ Validate(r) \/ GetUnitMeta(r) \/ ServeUnitPage(r)
          \/ ScheduleFetch(r) \/ Expire(r)

\* Handlers and goroutines are scheduled, and the timer fires.
Fairness == \A r \in Reqs :
              /\ WF_vars(Route(r) \/ Validate(r) \/ GetUnitMeta(r) \/ ServeUnitPage(r))
              /\ WF_vars(ScheduleFetch(r)) /\ WF_vars(Expire(r))

Spec == Init /\ [][Next]_vars /\ Fairness

-----------------------------------------------------------------------------
(* Type invariant. *)
TypeOK ==
  /\ req \in [Reqs -> Request]
  /\ pc \in [Reqs -> {"start", "validate", "meta", "serve", "done"}]
  /\ status \in [Reqs -> {0, 200, 301, 400, 404, 405, 500}]
  /\ urlInfo \in [Reqs -> [modulePath : Modules \cup {Unknown},
                           resolvedVersion : Versions \cup Semver \cup {"none"}]]
  /\ metric \subseteq [req : Reqs, tag : Versions \cup {"semver"}]
  /\ g \in [Reqs -> {"none", "start", "waiting", "done"}]
  /\ fetched \subseteq [req : Reqs, module : Modules \cup {Unknown}, version : {"master"}]
  /\ outcome \in [Reqs -> {"none", "enqueued", "error", "timeout", "canceled"}]
  /\ queue \subseteq [module : Modules \cup {Unknown}, version : {"master"}]

(* The task queue is asked to fetch only for a path@master request whose  *)
(* unit GetUnitMeta found, and then for the module GetUnitMeta resolved   *)
(* the path to, never for the module path the URL named (unknown for most *)
(* paths) or that of another request served at the same time, also after *)
(* the handler has returned, whatever serveUnitPage answered.             *)
FetchForResolvedModule ==
  \A f \in fetched :
    /\ req[f.req].version = "master"
    /\ f.module = urlInfo[f.req].modulePath
    /\ f.module \in Modules

(* The version_type metric has the three values its view describes        *)
(* ("by latest, master, or semver"): an invalid requested version is never *)
(* recorded as a tag.                                                     *)
MetricTagsBounded ==
  \A x \in metric : x.tag \in {"latest", "master", "semver"}

(* A response is written once: after the handler has answered a request  *)
(* (the method check, a special path, a bad path or version, the error of *)
(* GetUnitMeta or the unit page) no later step, of this handler, of its   *)
(* goroutine or of another request, changes the request's status; every  *)
(* error path returns right after serving its error.                      *)
ResponseWrittenOnce ==
  [][\A r \in Reqs : status[r] # 0 => status'[r] = status[r]]_vars

(* Every fetch goroutine ends, also when the task queue never answers.    *)
FetchGoroutineEnds == \A r \in Reqs : (g[r] = "start") ~> (g[r] = "done")
=============================================================================

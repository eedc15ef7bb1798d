---------------------------- MODULE DetailsProofs ----------------------------
(***************************************************************************)
(* Proofs about Details for every set of requests, methods, paths,         *)
(* versions and modules.                                                   *)
(*                                                                         *)
(* FetchForResolvedModule is not inductive by itself: it speaks of         *)
(* urlInfo, which Route, Validate and GetUnitMeta write.  The              *)
(* strengthening says that a request has a fetch goroutine only once its   *)
(* handler is past GetUnitMeta, on the master version and with the module  *)
(* GetUnitMeta found, after which nothing writes its urlInfo again, and    *)
(* that the handler has not answered before it gets there.                 *)
(***************************************************************************)
EXTENDS Details, TLAPS

IInv ==
  /\ TypeOK
  /\ \A r \in Reqs : pc[r] \in {"start", "validate", "meta", "serve"} => status[r] = 0
  /\ \A r \in Reqs : pc[r] \in {"start", "validate", "meta"} => g[r] = "none"
  /\ \A r \in Reqs : g[r] # "none" =>
       /\ req[r].version = "master"
       /\ urlInfo[r].modulePath \in Modules
       /\ pc[r] \in {"serve", "done"}
  /\ \A f \in fetched : g[f.req] # "none" /\ f.module = urlInfo[f.req].modulePath
  /\ MetricTagsBounded

LEMMA IInvInit == Init => IInv
BY DEF Init, IInv, TypeOK, MetricTagsBounded

LEMMA IInvNext == IInv /\ [Next]_vars => IInv'
<1> SUFFICES ASSUME IInv, [Next]_vars PROVE IInv'
  OBVIOUS
<1> USE DEF IInv, TypeOK, MetricTagsBounded
<1>1. CASE UNCHANGED vars
  BY <1>1 DEF vars
<1>2. ASSUME NEW r \in Reqs, Route(r) PROVE IInv'
  <2>1. pc[r] = "start" /\ g[r] = "none" /\ UNCHANGED <<req, metric, g, fetched, outcome, queue>>
    BY <1>2 DEF Route
  <2>2. CASE /\ status' \in [Reqs -> {0, 200, 301, 400, 404, 405, 500}]
             /\ \A s \in Reqs : s # r => status'[s] = status[s]
             /\ pc' = [pc EXCEPT ![r] = "done"] /\ UNCHANGED urlInfo
    BY <2>1, <2>2
  <2>3. CASE /\ urlInfo' = [urlInfo EXCEPT ![r].modulePath = req[r].modulePath]
             /\ pc' = [pc EXCEPT ![r] = "validate"] /\ UNCHANGED status
    <3>1. req[r].modulePath \in Modules \cup {Unknown}
      BY DEF Request
    <3>2. urlInfo' \in [Reqs -> [modulePath : Modules \cup {Unknown},
                                resolvedVersion : Versions \cup Semver \cup {"none"}]]
      BY <2>3, <3>1, SMTT(30)
    <3>3. \A s \in Reqs : s # r => urlInfo'[s] = urlInfo[s]
      BY <2>3
    <3>4. QED BY <2>1, <2>3, <3>2, <3>3
  <2>4. \/ /\ status' \in [Reqs -> {0, 200, 301, 400, 404, 405, 500}]
           /\ \A s \in Reqs : s # r => status'[s] = status[s]
           /\ pc' = [pc EXCEPT ![r] = "done"] /\ UNCHANGED urlInfo
        \/ /\ urlInfo' = [urlInfo EXCEPT ![r].modulePath = req[r].modulePath]
           /\ pc' = [pc EXCEPT ![r] = "validate"] /\ UNCHANGED status
    <3>1. status \in [Reqs -> {0, 200, 301, 400, 404, 405, 500}]
      BY DEF IInv, TypeOK
    <3> HIDE DEF IInv, TypeOK, MetricTagsBounded
    <3> QED BY <1>2, <3>1 DEF Route
  <2>5. QED BY <2>2, <2>3, <2>4
<1>3. ASSUME NEW r \in Reqs, Validate(r) PROVE IInv'
  <2>1. pc[r] = "validate" /\ g[r] = "none" /\ UNCHANGED <<req, g, fetched, outcome, queue>>
    BY <1>3 DEF Validate
  <2>2. CASE req[r].version \in {"latest", "master"} \cup Semver
    <3>1. /\ metric' = metric \cup {[req |-> r, tag |-> VersionTag(req[r].version)]}
          /\ urlInfo' = [urlInfo EXCEPT ![r].resolvedVersion = req[r].version]
          /\ pc' = [pc EXCEPT ![r] = "meta"]
          /\ UNCHANGED status
      BY <1>3, <2>2 DEF Validate
    <3>2. VersionTag(req[r].version) \in {"latest", "master", "semver"}
      BY <2>2 DEF VersionTag, Semver
    <3>3. req[r].version \in Versions
      BY DEF Request
    <3>4. VersionTag(req[r].version) \in Versions \cup {"semver"}
      BY <3>3 DEF VersionTag
    <3>5. urlInfo' \in [Reqs -> [modulePath : Modules \cup {Unknown},
                                resolvedVersion : Versions \cup Semver \cup {"none"}]]
      BY <3>1, <3>3
    <3>6. \A s \in Reqs : s # r => urlInfo'[s] = urlInfo[s]
      BY <3>1
    <3>7. metric' \subseteq [req : Reqs, tag : Versions \cup {"semver"}]
      BY <3>1, <3>4
    <3>8. \A x \in metric' : x.tag \in {"latest", "master", "semver"}
      BY <3>1, <3>2
    <3>9. QED BY <2>1, <3>1, <3>5, <3>6, <3>7, <3>8
  <2>3. CASE req[r].version \notin {"latest", "master"} \cup Semver
    <3>1. /\ status' = [status EXCEPT ![r] = 400]
          /\ pc' = [pc EXCEPT ![r] = "done"]
          /\ UNCHANGED <<metric, urlInfo>>
      BY <1>3, <2>3 DEF Validate
    <3>2. QED BY <2>1, <3>1
  <2>4. QED BY <2>2, <2>3
<1>4. ASSUME NEW r \in Reqs, GetUnitMeta(r) PROVE IInv'
  <2>1. pc[r] = "meta" /\ status[r] = 0 /\ g[r] = "none"
        /\ UNCHANGED <<req, metric, fetched, outcome, queue>>
    BY <1>4 DEF GetUnitMeta
  <2>2. \A f \in fetched : f.req # r
    BY <2>1
  <2>3. CASE \E m \in Modules, v \in Semver :
               /\ urlInfo' = [urlInfo EXCEPT ![r] = [modulePath |-> m, resolvedVersion |-> v]]
               /\ g' = [g EXCEPT ![r] = IF req[r].version = "master" THEN "start" ELSE "none"]
               /\ pc' = [pc EXCEPT ![r] = "serve"]
               /\ UNCHANGED status
    <3>1. PICK m \in Modules, v \in Semver :
               /\ urlInfo' = [urlInfo EXCEPT ![r] = [modulePath |-> m, resolvedVersion |-> v]]
               /\ g' = [g EXCEPT ![r] = IF req[r].version = "master" THEN "start" ELSE "none"]
               /\ pc' = [pc EXCEPT ![r] = "serve"]
               /\ UNCHANGED status
      <4> HIDE DEF IInv, TypeOK, MetricTagsBounded
      <4> QED BY <2>3, Zenon
    <3>2. v \in Versions \cup Semver
      OBVIOUS
    <3>3. TypeOK'
      BY <2>1, <3>1, <3>2
    <3>4. \A f \in fetched' : g'[f.req] # "none" /\ f.module = urlInfo'[f.req].modulePath
      BY <2>1, <2>2, <3>1
    <3>5. \A s \in Reqs : g'[s] # "none" =>
            /\ req'[s].version = "master"
            /\ urlInfo'[s].modulePath \in Modules
            /\ pc'[s] \in {"serve", "done"}
      BY <2>1, <3>1
    <3>6. QED BY <2>1, <3>1, <3>3, <3>4, <3>5
  <2>4. ASSUME NEW c \in {404, 500},
               status' = [status EXCEPT ![r] = c],
               pc' = [pc EXCEPT ![r] = "done"],
               UNCHANGED <<urlInfo, g>>
        PROVE IInv'
    BY <2>1, <2>4
  <2>5. QED BY <1>4, <2>3, <2>4 DEF GetUnitMeta
<1>5. ASSUME NEW r \in Reqs, ServeUnitPage(r) PROVE IInv'
  <2>1. PICK c \in {200, 400, 404, 500} : status' = [status EXCEPT ![r] = c]
    <3> HIDE DEF IInv, TypeOK, MetricTagsBounded
    <3> QED BY <1>5 DEF ServeUnitPage
  <2>2. /\ pc[r] = "serve"
        /\ pc' = [pc EXCEPT ![r] = "done"]
        /\ UNCHANGED <<req, urlInfo, metric, g, fetched, outcome, queue>>
    BY <1>5 DEF ServeUnitPage
  <2> QED BY <2>1, <2>2
<1>6. ASSUME NEW r \in Reqs, ScheduleFetch(r) PROVE IInv'
  <2>1. /\ g[r] = "start"
        /\ fetched' = fetched \cup {[req |-> r, module |-> urlInfo[r].modulePath, version |-> "master"]}
        /\ UNCHANGED <<req, pc, status, urlInfo, metric>>
    BY <1>6 DEF ScheduleFetch, FetchModule
  <2>2. urlInfo[r].modulePath \in Modules \cup {Unknown}
    OBVIOUS
  <2>3. ASSUME NEW gv \in {"waiting", "done"}, NEW ov \in {"enqueued", "error", "none"},
               g' = [g EXCEPT ![r] = gv],
               \/ outcome' = [outcome EXCEPT ![r] = ov]
               \/ ov = "none" /\ outcome' = outcome,
               \/ queue' = queue \cup {[module |-> urlInfo[r].modulePath, version |-> "master"]}
               \/ queue' = queue
        PROVE IInv'
    BY <2>1, <2>2, <2>3, SMTT(30)
  <2>4. QED BY <1>6, <2>3 DEF ScheduleFetch, FetchModule
<1>7. ASSUME NEW r \in Reqs, Expire(r) PROVE IInv'
  BY <1>7 DEF Expire, Canceled, FetchCtx
<1>8. QED BY <1>1, <1>2, <1>3, <1>4, <1>5, <1>6, <1>7, SMTT(30) DEF Next

(* The task queue is asked to fetch only for a found path@master request, *)
(* and only the module GetUnitMeta resolved, for any number of requests   *)
(* served at once.                                                        *)
THEOREM FetchForResolvedModuleTheorem == Spec => []FetchForResolvedModule
<1>1. Init => IInv BY IInvInit
<1>2. IInv /\ [Next]_vars => IInv' BY IInvNext
<1>3. IInv => FetchForResolvedModule BY DEF IInv, TypeOK, FetchForResolvedModule
<1>4. QED BY <1>1, <1>2, <1>3, PTL DEF Spec

(* Only latest, master and semver are ever recorded as the version_type   *)
(* tag: recordVersionTypeMetric runs only after validatePathAndVersion    *)
(* accepted the requested version.                                        *)
THEOREM MetricTagsBoundedTheorem == Spec => []MetricTagsBounded
<1>1. Init => IInv BY IInvInit
<1>2. IInv /\ [Next]_vars => IInv' BY IInvNext
<1>3. IInv => MetricTagsBounded BY DEF IInv
<1>4. QED BY <1>1, <1>2, <1>3, PTL DEF Spec

(* The variables of Details always have their types. *)
THEOREM TypeTheorem == Spec => []TypeOK
<1>1. Init => IInv BY IInvInit
<1>2. IInv /\ [Next]_vars => IInv' BY IInvNext
<1>3. IInv => TypeOK BY DEF IInv
<1>4. QED BY <1>1, <1>2, <1>3, PTL DEF Spec

\* The step form of ResponseWrittenOnce.
WrittenOnceStep == \A r \in Reqs : status[r] # 0 => status'[r] = status[r]

\* A request whose status is written is done, and no action of a done
\* handler, of a goroutine, or of another request writes its status.
LEMMA WrittenOnceNext == IInv /\ [Next]_vars => [WrittenOnceStep]_vars
<1> SUFFICES ASSUME IInv, [Next]_vars, NEW s \in Reqs, status[s] # 0
             PROVE  status'[s] = status[s]
  BY DEF WrittenOnceStep
<1>1. pc[s] = "done"
  BY DEF IInv, TypeOK
<1>2. CASE UNCHANGED vars
  BY <1>2 DEF vars
<1>3. ASSUME NEW r \in Reqs,
             Route(r) \/ Validate(r) \/ GetUnitMeta(r) \/ ServeUnitPage(r)
      PROVE  status'[s] = status[s]
  <2>1. r # s
    BY <1>1, <1>3 DEF Route, Validate, GetUnitMeta, ServeUnitPage
  <2>2. \E c : status' = [status EXCEPT ![r] = c] \/ UNCHANGED status
    BY <1>3 DEF Route, Validate, GetUnitMeta, ServeUnitPage
  <2> QED BY <2>1, <2>2 DEF IInv, TypeOK
<1>4. ASSUME NEW r \in Reqs, ScheduleFetch(r) \/ Expire(r)
      PROVE  status'[s] = status[s]
  BY <1>4 DEF ScheduleFetch, Expire
<1> QED BY <1>2, <1>3, <1>4 DEF Next

(* No step ever changes a response a handler has written, for any number  *)
(* of requests served at once: every error path of serveDetails returns   *)
(* after serving its error, and the fetch goroutine writes no response.   *)
THEOREM ResponseWrittenOnceTheorem == Spec => ResponseWrittenOnce
<1>1. Init => IInv BY IInvInit
<1>2. IInv /\ [Next]_vars => IInv' BY IInvNext
<1>3. IInv /\ [Next]_vars => [WrittenOnceStep]_vars BY WrittenOnceNext
<1>4. QED BY <1>1, <1>2, <1>3, PTL DEF Spec, ResponseWrittenOnce, WrittenOnceStep
=============================================================================

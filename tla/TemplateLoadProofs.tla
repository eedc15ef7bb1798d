------------------------- MODULE TemplateLoadProofs -------------------------
(***************************************************************************)
(* Proofs about TemplateLoad for every set of goroutines and every set of  *)
(* templates that fail to parse.                                           *)
(*                                                                         *)
(* LoadedAtMostOnce is not inductive: a goroutine waiting on the mutex     *)
(* could run f a second time, were it not that f's runner holds the mutex  *)
(* until done is set.  The strengthening says who runs f (the holder of    *)
(* the mutex, and only while done is unset) and which templates it has     *)
(* assigned at each of its steps.                                          *)
(***************************************************************************)
EXTENDS TemplateLoad, TLAPS

\* The position of each template in f.
Rank == [body |-> 1, outline |-> 2, sidenav |-> 3]

\* What loads is when f's runner is about to parse template s.
LoadsBefore(s) == [t \in TemplateNames |-> IF Rank[t] < Rank[s] THEN 1 ELSE 0]

IInv ==
  /\ TypeOK
  /\ \A p \in Procs : (pc[p] \in TemplateNames) <=> (mu = p)
  /\ mu # NoProc => ~done
  /\ (~done /\ mu = NoProc) => loads = [t \in TemplateNames |-> 0]
  /\ \A p \in Procs : pc[p] \in TemplateNames => loads = LoadsBefore(pc[p])
  /\ \A t \in TemplateNames : loads[t] <= 1

\* The loads f's runner has made before each of its steps.
LEMMA LoadsBeforeValues ==
  /\ LoadsBefore("body") = [u \in TemplateNames |-> 0]
  /\ LoadsBefore("outline") = [u \in TemplateNames |-> IF u = "body" THEN 1 ELSE 0]
  /\ LoadsBefore("sidenav") = [u \in TemplateNames |-> IF u = "sidenav" THEN 0 ELSE 1]
<1>1. Rank["body"] = 1 /\ Rank["outline"] = 2 /\ Rank["sidenav"] = 3
  BY DEF Rank
<1>2. QED BY <1>1 DEF LoadsBefore, TemplateNames

LEMMA IInvInit == Init => IInv
<1> SUFFICES ASSUME Init PROVE IInv
  OBVIOUS
<1>1. TypeOK
  BY DEF Init, TypeOK, PC, TemplateNames
<1>2. \A p \in Procs : (pc[p] \in TemplateNames) <=> (mu = p)
  BY TemplateLoadAssumption DEF Init, TemplateNames
<1>3. QED BY <1>1, <1>2 DEF Init, IInv, TemplateNames

LEMMA IInvNext == IInv /\ [Next]_vars => IInv'
<1> SUFFICES ASSUME IInv, [Next]_vars PROVE IInv'
  OBVIOUS
<1> USE TemplateLoadAssumption DEF IInv, TypeOK, PC, TemplateNames
<1>1. CASE UNCHANGED vars
  BY <1>1 DEF vars
<1>2. ASSUME NEW p \in Procs, Call(p) PROVE IInv'
  BY <1>2 DEF Call
<1>3. ASSUME NEW p \in Procs, Acquire(p) PROVE IInv'
  <2>1. CASE done /\ pc' = [pc EXCEPT ![p] = "returned"] /\ UNCHANGED mu
    BY <1>3, <2>1 DEF Acquire
  <2>2. CASE ~done /\ mu' = p /\ pc' = [pc EXCEPT ![p] = "body"]
    BY <1>3, <2>2 DEF Acquire, LoadsBefore, Rank
  <2>3. QED BY <1>3, <2>1, <2>2 DEF Acquire
<1>4. ASSUME NEW p \in Procs, Parse(p) PROVE IInv'
  <2> DEFINE t == pc[p]
  <2>1. t \in TemplateNames /\ mu = p /\ ~done /\ loads = LoadsBefore(t)
    BY <1>4 DEF Parse
  <2>2. CASE t \notin Failing /\ Following[t] = "return"
    <3>1. t = "sidenav"
      BY <2>1, <2>2 DEF Following
    <3>2. tmpl' = [tmpl EXCEPT ![t] = "set"] /\ loads' = [loads EXCEPT ![t] = @ + 1]
          /\ done' /\ mu' = NoProc /\ pc' = [pc EXCEPT ![p] = "returned"]
          /\ seen' = seen
      BY <1>4, <2>2 DEF Parse, DeferredUnlock, DeferredStoreDone
    <3>3. \A q \in Procs : pc'[q] \notin TemplateNames
      BY <2>1, <3>2
    <3>4. \A u \in TemplateNames : loads'[u] <= 1
      BY <2>1, <3>1, <3>2 DEF LoadsBefore, Rank
    <3>5. TypeOK'
      BY <2>1, <3>2
    <3>6. QED BY <3>2, <3>3, <3>4, <3>5
  <2>3. CASE t \notin Failing /\ Following[t] # "return"
    <3>1. t \in {"body", "outline"} /\ Following[t] \in TemplateNames
      BY <2>1, <2>3 DEF Following
    <3>2. tmpl' = [tmpl EXCEPT ![t] = "set"] /\ loads' = [loads EXCEPT ![t] = @ + 1]
          /\ done' = done /\ mu' = mu /\ pc' = [pc EXCEPT ![p] = Following[t]]
          /\ seen' = seen
      BY <1>4, <2>3 DEF Parse
    <3>3. loads' = LoadsBefore(Following[t])
      <4>1. CASE t = "body"
        <5>1. loads = [u \in TemplateNames |-> 0] /\ Following[t] = "outline"
          BY <2>1, <4>1, LoadsBeforeValues DEF Following
        <5>2. QED BY <5>1, <4>1, <3>2, LoadsBeforeValues
      <4>2. CASE t = "outline"
        <5>1. loads = [u \in TemplateNames |-> IF u = "body" THEN 1 ELSE 0]
              /\ Following[t] = "sidenav"
          BY <2>1, <4>2, LoadsBeforeValues DEF Following
        <5>2. QED BY <5>1, <4>2, <3>2, LoadsBeforeValues
      <4>3. QED BY <3>1, <4>1, <4>2
    <3>4. \A u \in TemplateNames : loads'[u] <= 1
      BY <3>1, <3>3 DEF LoadsBefore
    <3>5. \A q \in Procs : (pc'[q] \in TemplateNames) <=> (mu' = q)
      BY <2>1, <3>1, <3>2
    <3>6. \A q \in Procs : pc'[q] \in TemplateNames => loads' = LoadsBefore(pc'[q])
      <4>1. \A q \in Procs : pc'[q] \in TemplateNames => q = p
        BY <2>1, <3>1, <3>2
      <4>2. pc'[p] = Following[t]
        BY <3>2
      <4>3. QED BY <4>1, <4>2, <3>3
    <3>7. TypeOK'
      BY <2>1, <3>1, <3>2
    <3>8. QED BY <2>1, <3>2, <3>4, <3>5, <3>6, <3>7
  <2>4. CASE t \in Failing
    <3>1. done' /\ mu' = NoProc /\ pc' = [pc EXCEPT ![p] = "panicked"]
          /\ UNCHANGED <<tmpl, loads, seen>>
      BY <1>4, <2>4 DEF Parse, DeferredUnlock, DeferredStoreDone
    <3>2. QED BY <2>1, <3>1
  <2>5. QED BY <2>2, <2>3, <2>4
<1>5. ASSUME NEW p \in Procs, Render(p) PROVE IInv'
  BY <1>5 DEF Render
<1>6. QED BY <1>1, <1>2, <1>3, <1>4, <1>5 DEF Next

(* Each of bodyTemplate, outlineTemplate and sidenavTemplate is assigned  *)
(* at most once by LoadTemplates, whatever the number of concurrent       *)
(* callers and whichever template fails to parse.                         *)
THEOREM LoadedAtMostOnceTheorem == Spec => []LoadedAtMostOnce
<1>1. Init => IInv BY IInvInit
<1>2. IInv /\ [Next]_vars => IInv' BY IInvNext
<1>3. IInv => LoadedAtMostOnce BY DEF IInv, LoadedAtMostOnce
<1>4. QED BY <1>1, <1>2, <1>3, PTL DEF Spec

(* The variables of TemplateLoad always have their types. *)
THEOREM TypeTheorem == Spec => []TypeOK
<1>1. Init => IInv BY IInvInit
<1>2. IInv /\ [Next]_vars => IInv' BY IInvNext
<1>3. IInv => TypeOK BY DEF IInv
<1>4. QED BY <1>1, <1>2, <1>3, PTL DEF Spec

-----------------------------------------------------------------------------
(***************************************************************************)
(* The refinement of Once.  Besides IInv it needs what the template        *)
(* variables hold: the ones f has assigned are set, the runner got past    *)
(* only templates that parse, once done is set the templates are what     *)
(* Once's atomic f leaves behind, a goroutine returns only after done is   *)
(* set, and a renderer saw the final templates.                            *)
(***************************************************************************)
RInv ==
  /\ IInv
  /\ \A t \in TemplateNames : tmpl[t] = IF loads[t] = 1 THEN "set" ELSE "nil"
  /\ \A p \in Procs : pc[p] \in TemplateNames =>
       \A u \in TemplateNames : Rank[u] < Rank[pc[p]] => u \notin Failing
  /\ done => tmpl = Abs!Loaded
  /\ \A p \in Procs : pc[p] \in {"returned", "panicked", "rendered"} => done
  /\ \A p \in Procs : pc[p] = "rendered" => seen[p] = tmpl

\* Once's ranks are TemplateLoadProofs' ranks shifted by one.
LEMMA RankShift == \A u \in TemplateNames : Abs!Rank[u] = Rank[u] - 1
BY DEF Abs!Rank, Rank, TemplateNames

\* What Once's f leaves when template t is the first that fails.
LEMMA LoadedAtPanic ==
  ASSUME NEW t \in TemplateNames, t \in Failing,
         \A u \in TemplateNames : Rank[u] < Rank[t] => u \notin Failing
  PROVE  Abs!Loaded = [u \in TemplateNames |-> IF Rank[u] < Rank[t] THEN "set" ELSE "nil"]
<1>1. \A u \in TemplateNames : Rank[u] \in {1, 2, 3}
  BY DEF Rank, TemplateNames
<1>2. \A u \in TemplateNames :
        (\A f \in Failing : Abs!Rank[u] < Abs!Rank[f]) <=> Rank[u] < Rank[t]
  BY <1>1, RankShift, TemplateLoadAssumption
<1>3. QED BY <1>2 DEF Abs!Loaded, Abs!TemplateNames, TemplateNames

\* What Once's f leaves when every template parses.
LEMMA LoadedAll ==
  Failing = {} => Abs!Loaded = [u \in TemplateNames |-> "set"]
BY DEF Abs!Loaded, Abs!TemplateNames, TemplateNames

LEMMA RInvInit == Init => RInv
<1> SUFFICES ASSUME Init PROVE RInv
  OBVIOUS
<1>1. IInv BY IInvInit
<1>2. QED BY <1>1 DEF Init, RInv, TemplateNames

LEMMA RInvNext == RInv /\ [Next]_vars => RInv'
<1> SUFFICES ASSUME RInv, [Next]_vars PROVE RInv'
  OBVIOUS
<1>0. IInv' BY IInvNext DEF RInv
<1> USE TemplateLoadAssumption DEF RInv, IInv, TypeOK, PC, TemplateNames
<1>1. CASE UNCHANGED vars
  BY <1>0, <1>1 DEF vars
<1>2. ASSUME NEW p \in Procs, Call(p) PROVE RInv'
  BY <1>0, <1>2 DEF Call
<1>3. ASSUME NEW p \in Procs, Acquire(p) PROVE RInv'
  <2>1. CASE done /\ pc' = [pc EXCEPT ![p] = "returned"] /\ UNCHANGED mu
    BY <1>0, <1>3, <2>1 DEF Acquire
  <2>2. CASE ~done /\ mu' = p /\ pc' = [pc EXCEPT ![p] = "body"]
    BY <1>0, <1>3, <2>2 DEF Acquire, Rank
  <2>3. QED BY <1>3, <2>1, <2>2 DEF Acquire
<1>4. ASSUME NEW p \in Procs, Parse(p) PROVE RInv'
  <2> DEFINE t == pc[p]
  <2>1. t \in TemplateNames /\ mu = p /\ ~done /\ loads = LoadsBefore(t)
        /\ \A u \in TemplateNames : Rank[u] < Rank[t] => u \notin Failing
    BY <1>4 DEF Parse
  <2>2. \A q \in Procs : q # p => pc[q] \notin TemplateNames
    BY <2>1
  <2>3. CASE t \notin Failing /\ Following[t] = "return"
    <3>1. t = "sidenav"
      BY <2>1, <2>3 DEF Following
    <3>2. tmpl' = [tmpl EXCEPT ![t] = "set"] /\ loads' = [loads EXCEPT ![t] = @ + 1]
          /\ done' /\ pc' = [pc EXCEPT ![p] = "returned"] /\ seen' = seen
      BY <1>4, <2>3 DEF Parse, DeferredUnlock, DeferredStoreDone
    <3>3. Failing = {}
      BY <2>1, <2>3, <3>1 DEF Rank
    <3>9. loads = [u \in TemplateNames |-> IF u = "sidenav" THEN 0 ELSE 1]
      BY <2>1, <3>1, LoadsBeforeValues
    <3>4. tmpl' = [u \in TemplateNames |-> "set"]
      <4>1. tmpl["body"] = "set" /\ tmpl["outline"] = "set"
        BY <3>9
      <4>2. QED BY <3>1, <3>2, <4>1
    <3>5. tmpl' = Abs!Loaded
      BY <3>3, <3>4, LoadedAll
    <3>6. \A u \in TemplateNames : tmpl'[u] = IF loads'[u] = 1 THEN "set" ELSE "nil"
      <4>1. loads' = [u \in TemplateNames |-> 1]
        <5>1. loads' = [u \in TemplateNames |-> IF u = "sidenav" THEN 0 + 1 ELSE 1]
          BY <3>1, <3>2, <3>9
        <5>2. QED BY <5>1
      <4>2. QED BY <3>4, <4>1
    <3>7. \A q \in Procs : pc'[q] = "rendered" => seen'[q] = tmpl'
      BY <2>1, <2>2, <3>2
    <3>8. QED BY <1>0, <2>1, <3>2, <3>5, <3>6, <3>7
  <2>4. CASE t \notin Failing /\ Following[t] # "return"
    <3>1. t \in {"body", "outline"} /\ Following[t] \in TemplateNames
      BY <2>1, <2>4 DEF Following
    <3>2. tmpl' = [tmpl EXCEPT ![t] = "set"] /\ loads' = [loads EXCEPT ![t] = @ + 1]
          /\ done' = done /\ pc' = [pc EXCEPT ![p] = Following[t]] /\ seen' = seen
      BY <1>4, <2>4 DEF Parse
    <3>3. \A u \in TemplateNames : tmpl'[u] = IF loads'[u] = 1 THEN "set" ELSE "nil"
      BY <2>1, <3>1, <3>2 DEF LoadsBefore, Rank
    <3>4. \A u \in TemplateNames : Rank[u] < Rank[Following[t]] => u \notin Failing
      BY <2>1, <2>4, <3>1 DEF Following, Rank
    <3>5. \A q \in Procs : pc'[q] \in {"returned", "panicked", "rendered"} => done'
      BY <2>1, <2>2, <3>1, <3>2
    <3>6. \A q \in Procs : pc'[q] = "rendered" => seen'[q] = tmpl'
      BY <2>1, <2>2, <3>1, <3>2
    <3>7. \A q \in Procs : pc'[q] \in TemplateNames =>
            \A u \in TemplateNames : Rank[u] < Rank[pc'[q]] => u \notin Failing
      BY <2>2, <3>1, <3>2, <3>4
    <3>8. QED BY <1>0, <2>1, <3>2, <3>3, <3>5, <3>6, <3>7
  <2>5. CASE t \in Failing
    <3>1. done' /\ pc' = [pc EXCEPT ![p] = "panicked"] /\ UNCHANGED <<tmpl, loads, seen>>
      BY <1>4, <2>5 DEF Parse, DeferredUnlock, DeferredStoreDone
    <3>2. tmpl = [u \in TemplateNames |-> IF Rank[u] < Rank[t] THEN "set" ELSE "nil"]
      BY <2>1 DEF LoadsBefore
    <3>3. tmpl = Abs!Loaded
      BY <2>1, <2>5, <3>2, LoadedAtPanic
    <3>4. QED BY <1>0, <2>1, <2>2, <3>1, <3>3
  <2>6. QED BY <2>3, <2>4, <2>5
<1>5. ASSUME NEW p \in Procs, Render(p) PROVE RInv'
  BY <1>0, <1>5 DEF Render
<1>6. QED BY <1>1, <1>2, <1>3, <1>4, <1>5 DEF Next

(* LoadTemplates implements Once (the safety part of OnceSpec): every step *)
(* of the goroutines is a step of the atomic loadOnce.Do of some caller,   *)
(* a render, or invisible to the callers, for any number of goroutines    *)
(* and any templates that fail.                                           *)
THEOREM OnceRefinement == Spec => Abs!SafeSpec
<1>1. Init => Abs!Init
  BY DEF Init, Abs!Init, statusBar, tmplBar, Abs!TemplateNames, TemplateNames
<1>2. RInv /\ [Next]_vars => [Abs!Next]_Abs!vars
  <2> SUFFICES ASSUME RInv, [Next]_vars PROVE [Abs!Next]_Abs!vars
    OBVIOUS
  <2> USE TemplateLoadAssumption DEF RInv, IInv, TypeOK, PC, TemplateNames
  <2>1. CASE UNCHANGED vars
    BY <2>1 DEF vars, Abs!vars, statusBar, tmplBar
  <2>2. ASSUME NEW p \in Procs, Call(p) PROVE [Abs!Next]_Abs!vars
    <3>1. CASE done
      <4>1. Abs!Do(p)
        BY <2>2, <3>1 DEF Call, Abs!Do, statusBar, tmplBar
      <4>2. QED BY <4>1 DEF Abs!Next
    <3>2. CASE ~done
      BY <2>2, <3>2 DEF Call, Abs!vars, statusBar, tmplBar
    <3>3. QED BY <3>1, <3>2
  <2>3. ASSUME NEW p \in Procs, Acquire(p) PROVE [Abs!Next]_Abs!vars
    <3>1. CASE done
      <4>1. pc' = [pc EXCEPT ![p] = "returned"] /\ UNCHANGED <<done, tmpl, seen>>
        BY <2>3, <3>1 DEF Acquire
      <4>2. statusBar[p] = "idle" /\ statusBar' = [statusBar EXCEPT ![p] = "returned"]
        BY <2>3, <4>1 DEF Acquire, statusBar
      <4>3. tmplBar' = tmplBar
        BY <4>1 DEF tmplBar
      <4>4. Abs!Do(p)
        BY <3>1, <4>1, <4>2, <4>3 DEF Abs!Do
      <4>5. QED BY <4>4 DEF Abs!Next
    <3>2. CASE ~done
      <4>1. pc' = [pc EXCEPT ![p] = "body"] /\ UNCHANGED <<done, tmpl, seen>>
        BY <2>3, <3>2 DEF Acquire
      <4>2. QED BY <2>3, <4>1, <3>2 DEF Acquire, Abs!vars, statusBar, tmplBar
    <3>3. QED BY <3>1, <3>2
  <2>4. ASSUME NEW p \in Procs, Parse(p) PROVE [Abs!Next]_Abs!vars
    <3> DEFINE t == pc[p]
    <3>1. t \in TemplateNames /\ ~done /\ RInv'
      BY <2>4, RInvNext DEF Parse
    <3>2. CASE t \notin Failing /\ Following[t] # "return"
      <4>1. done' = done /\ pc' = [pc EXCEPT ![p] = Following[t]] /\ seen' = seen
            /\ Following[t] \in TemplateNames
        BY <2>4, <3>2 DEF Parse, Following
      <4>2. QED BY <3>1, <4>1 DEF Abs!vars, statusBar, tmplBar
    <3>3. CASE t \notin Failing /\ Following[t] = "return"
      <4>1. done' /\ pc' = [pc EXCEPT ![p] = "returned"] /\ seen' = seen
        BY <2>4, <3>3 DEF Parse, DeferredStoreDone
      <4>2. Failing = {}
        BY <2>4, <3>3 DEF Parse, Following, Rank
      <4>3. tmplBar' = Abs!Loaded
        BY <3>1, <4>1 DEF tmplBar
      <4>4. Abs!Do(p)
        <5>1. statusBar[p] = "idle"
          BY <3>1 DEF statusBar
        <5>2. statusBar' = [statusBar EXCEPT ![p] = "returned"]
          BY <4>1 DEF statusBar
        <5>3. QED BY <3>1, <4>1, <4>2, <4>3, <5>1, <5>2 DEF Abs!Do
      <4>5. QED BY <4>4 DEF Abs!Next
    <3>4. CASE t \in Failing
      <4>1. done' /\ pc' = [pc EXCEPT ![p] = "panicked"] /\ seen' = seen
        BY <2>4, <3>4 DEF Parse, DeferredStoreDone
      <4>2. tmplBar' = Abs!Loaded
        BY <3>1, <4>1 DEF tmplBar
      <4>3. Abs!Do(p)
        <5>1. statusBar[p] = "idle"
          BY <3>1 DEF statusBar
        <5>2. statusBar' = [statusBar EXCEPT ![p] = "panicked"]
          BY <4>1 DEF statusBar
        <5>3. Failing # {}
          BY <3>4
        <5>4. QED BY <3>1, <4>1, <4>2, <5>1, <5>2, <5>3 DEF Abs!Do
      <4>4. QED BY <4>3 DEF Abs!Next
    <3>5. QED BY <3>2, <3>3, <3>4
  <2>5. ASSUME NEW p \in Procs, Render(p) PROVE [Abs!Next]_Abs!vars
    <3>1. Abs!Render(p)
      BY <2>5 DEF Render, Abs!Render, statusBar, tmplBar
    <3>2. QED BY <3>1 DEF Abs!Next
  <2>6. QED BY <2>1, <2>2, <2>3, <2>4, <2>5 DEF Next
<1>3. QED BY <1>1, <1>2, RInvInit, RInvNext, PTL DEF Spec, Abs!SafeSpec

(* When every template parses, a goroutine renders only with bodyTemplate, *)
(* outlineTemplate and sidenavTemplate all loaded, however its call of     *)
(* LoadTemplates interleaved with the others.                              *)
THEOREM RenderSeesTemplatesTheorem == Failing = {} => (Spec => []RenderSeesTemplates)
<1> SUFFICES ASSUME Failing = {} PROVE Spec => []RenderSeesTemplates
  OBVIOUS
<1>1. RInv => RenderSeesTemplates
  BY LoadedAll DEF RInv, RenderSeesTemplates
<1>2. QED BY <1>1, RInvInit, RInvNext, PTL DEF Spec
=============================================================================

---------------------------- MODULE TemplateLoad ----------------------------
(***************************************************************************)
(* LoadTemplates and Templates, src/internal/godoc/dochtml/template.go:    *)
(* the body, outline and sidenav templates are package variables that      *)
(* loadOnce.Do fills in, in that order, each with template.Must, which     *)
(* panics when its files do not parse.  Several goroutines (the server's   *)
(* start-up and the tests' renderers) call LoadTemplates and then execute  *)
(* the templates that Templates() returns.                                 *)
(*                                                                         *)
(* sync.Once is modelled by what Do does: a fast path that returns when    *)
(* done is set, else the mutex, a second look at done under it, f, and the *)
(* deferred store of done and unlock, which run when f panics too.         *)
(***************************************************************************)
EXTENDS Naturals

CONSTANTS
  Procs,     \* the goroutines that call LoadTemplates
  Failing,   \* the templates whose files do not parse (template.Must panics)
  NoProc     \* "the mutex is free"

TemplateNames == {"body", "outline", "sidenav"}

ASSUME TemplateLoadAssumption ==
  /\ Failing \subseteq TemplateNames
  /\ NoProc \notin Procs

\* The order f assigns the templates in, and the step after each.
Following == [body |-> "outline", outline |-> "sidenav", sidenav |-> "return"]

VARIABLES
  done,    \* loadOnce.done
  mu,      \* the goroutine holding loadOnce.m, or NoProc
  tmpl,    \* bodyTemplate, outlineTemplate, sidenavTemplate: "nil" or "set"
  loads,   \* how many times each template variable has been assigned
  pc,      \* where each goroutine is
  seen     \* what Templates() returned to a goroutine that rendered

vars == <<done, mu, tmpl, loads, pc, seen>>

PC == {"idle", "wait", "returned", "panicked", "rendered"} \cup TemplateNames

Init ==
  /\ done = FALSE
  /\ mu = NoProc
  /\ tmpl = [t \in TemplateNames |-> "nil"]
  /\ loads = [t \in TemplateNames |-> 0]
  /\ pc = [p \in Procs |-> "idle"]
  /\ seen = [p \in Procs |-> [t \in TemplateNames |-> "nil"]]

\* Mutant: Do also returns at once while another goroutine is running f.
CallNoWait(p) ==
  /\ pc[p] = "idle"
  /\ pc' = [pc EXCEPT ![p] = IF done \/ mu # NoProc THEN "returned" ELSE "wait"]
  /\ UNCHANGED <<done, mu, tmpl, loads, seen>>

\* LoadTemplates calls loadOnce.Do: the fast path returns when done is set.
Call(p) ==
  /\ pc[p] = "idle"
  /\ pc' = [pc EXCEPT ![p] = IF done THEN "returned" ELSE "wait"]
  /\ UNCHANGED <<done, mu, tmpl, loads, seen>>

\* Mutant: f runs without done being looked at again under the mutex.
AcquireNoRecheck(p) ==
  /\ pc[p] = "wait"
  /\ mu = NoProc
  /\ mu' = p
  /\ pc' = [pc EXCEPT ![p] = "body"]
  /\ UNCHANGED <<done, tmpl, loads, seen>>

\* doSlow: m.Lock(); if done == 0 run f; m.Unlock().
Acquire(p) ==
  /\ pc[p] = "wait"
  /\ mu = NoProc
  /\ \/ /\ done
        /\ pc' = [pc EXCEPT ![p] = "returned"]
        /\ UNCHANGED mu
     \/ /\ ~done
        /\ mu' = p
        /\ pc' = [pc EXCEPT ![p] = "body"]
  /\ UNCHANGED <<done, tmpl, loads, seen>>

\* Mutant: the mutex is not released when f ends.
UnlockSkipped(p) == UNCHANGED mu

\* The deferred m.Unlock() of doSlow, run when f returns and when it panics.
DeferredUnlock(p) == mu' = NoProc

\* Mutant: done is not stored when f panics or returns.
StoreDoneSkipped == UNCHANGED done

\* The deferred atomic.StoreUint32(&o.done, 1) of doSlow, run before the
\* unlock when f returns and when it panics.
DeferredStoreDone == done' = TRUE

\* One template.Must(template.New(...).Funcs(tmpl).ParseFS(...)) of f: the
\* template is assigned, or ParseFS fails and Must panics out of Do, the
\* deferred store of done and the unlock still running.
Parse(p) ==
  /\ pc[p] \in TemplateNames
  /\ LET t == pc[p] IN
     \/ /\ t \notin Failing
        /\ tmpl' = [tmpl EXCEPT ![t] = "set"]
        /\ loads' = [loads EXCEPT ![t] = @ + 1]
        /\ IF Following[t] = "return"
           THEN /\ DeferredStoreDone /\ DeferredUnlock(p)
                /\ pc' = [pc EXCEPT ![p] = "returned"]
           ELSE /\ UNCHANGED <<done, mu>>
                /\ pc' = [pc EXCEPT ![p] = Following[t]]
     \/ /\ t \in Failing
        /\ DeferredStoreDone /\ DeferredUnlock(p)
        /\ pc' = [pc EXCEPT ![p] = "panicked"]
        /\ UNCHANGED <<tmpl, loads>>
  /\ UNCHANGED seen

\* After LoadTemplates has returned, the renderer executes the templates
\* Templates() returns.
Render(p) ==
  /\ pc[p] = "returned"
  /\ seen' = [seen EXCEPT ![p] = tmpl]
  /\ pc' = [pc EXCEPT ![p] = "rendered"]
  /\ UNCHANGED <<done, mu, tmpl, loads>>

Next == \E p \in Procs : Call(p) \/ Acquire(p) \/ Parse(p) \/ Render(p)

\* Every goroutine is scheduled: a step it can take is eventually taken.
Fairness == \A p \in Procs : WF_vars(Call(p) \/ Acquire(p) \/ Parse(p) \/ Render(p))

Spec == Init /\ [][Next]_vars /\ Fairness

-----------------------------------------------------------------------------
(* Type invariant. *)
TypeOK ==
  /\ done \in BOOLEAN
  /\ mu \in Procs \cup {NoProc}
  /\ tmpl \in [TemplateNames -> {"nil", "set"}]
  /\ loads \in [TemplateNames -> Nat]
  /\ pc \in [Procs -> PC]
  /\ seen \in [Procs -> [TemplateNames -> {"nil", "set"}]]

(* Guarded, idempotent initialisation: however many goroutines call       *)
(* LoadTemplates at once, each template variable is assigned at most once *)
(* in the life of the process.                                            *)
LoadedAtMostOnce == \A t \in TemplateNames : loads[t] <= 1

(* A goroutine that got back from LoadTemplates without a panic renders   *)
(* with all three templates loaded, also when another goroutine was in    *)
(* the middle of loading them when it called.                             *)
RenderSeesTemplates ==
  \A p \in Procs : pc[p] = "rendered" => \A t \in TemplateNames : seen[p][t] = "set"

(* Nobody waits forever on loadOnce: every caller eventually returns from *)
(* LoadTemplates and renders, or gets the panic.                          *)
AllCallersFinish == <>(\A p \in Procs : pc[p] \in {"rendered", "panicked"})

-----------------------------------------------------------------------------
\* The refinement mapping to Once: a goroutine that waits for the mutex or
\* is inside f has not returned yet; the template variables f is filling
\* in are not visible until done is set.
statusBar == [p \in Procs |->
                IF pc[p] \in {"returned", "panicked", "rendered"} THEN pc[p] ELSE "idle"]
tmplBar == IF done THEN tmpl ELSE [t \in TemplateNames |-> "nil"]

Abs == INSTANCE Once WITH tmpl <- tmplBar, status <- statusBar

(* LoadTemplates implements Once: to its callers loadOnce.Do is a single   *)
(* atomic step, the first running f to its end or its panic, every later  *)
(* one returning after it, and each caller eventually returns.           *)
OnceSpec == Abs!Spec
=============================================================================

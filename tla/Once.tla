------------------------------- MODULE Once --------------------------------
(***************************************************************************)
(* What LoadTemplates promises its callers (template.go:38-54), with       *)
(* loadOnce.Do taken as one atomic step: the first call runs f to the end  *)
(* or to its panic, every other call returns after that, and Templates()   *)
(* returns what f left behind.  TemplateLoad implements this               *)
(* specification; its waits, the mutex and the single template.Must steps  *)
(* are invisible here.                                                     *)
(***************************************************************************)
EXTENDS Naturals

CONSTANTS
  Procs,     \* the goroutines that call LoadTemplates
  Failing    \* the templates whose files do not parse

VARIABLES
  done,      \* f has run
  tmpl,      \* the template variables: "nil" or "set"
  status,    \* "idle", "returned", "panicked" or "rendered"
  seen       \* what Templates() returned to a goroutine that rendered

vars == <<done, tmpl, status, seen>>

TemplateNames == {"body", "outline", "sidenav"}

\* f assigns body, outline and sidenav in this order.
Rank == [body |-> 0, outline |-> 1, sidenav |-> 2]

\* What f leaves assigned: the templates before the first that fails.
Loaded ==
  [t \in TemplateNames |->
     IF \A u \in Failing : Rank[t] < Rank[u] THEN "set" ELSE "nil"]

Init ==
  /\ done = FALSE
  /\ tmpl = [t \in TemplateNames |-> "nil"]
  /\ status = [p \in Procs |-> "idle"]
  /\ seen = [p \in Procs |-> [t \in TemplateNames |-> "nil"]]

\* loadOnce.Do(f): the first call runs f, which panics if a template
\* fails; a later call returns at once.
Do(p) ==
  /\ status[p] = "idle"
  /\ \/ /\ done
        /\ status' = [status EXCEPT ![p] = "returned"]
        /\ UNCHANGED <<done, tmpl>>
     \/ /\ ~done
        /\ done' = TRUE
        /\ tmpl' = Loaded
        /\ status' = [status EXCEPT ![p] = IF Failing = {} THEN "returned" ELSE "panicked"]
  /\ UNCHANGED seen

\* The caller executes the templates Templates() returns.
Render(p) ==
  /\ status[p] = "returned"
  /\ seen' = [seen EXCEPT ![p] = tmpl]
  /\ status' = [status EXCEPT ![p] = "rendered"]
  /\ UNCHANGED <<done, tmpl>>

Next == \E p \in Procs : Do(p) \/ Render(p)

SafeSpec == Init /\ [][Next]_vars

Spec == SafeSpec /\ \A p \in Procs : WF_vars(Do(p) \/ Render(p))
=============================================================================

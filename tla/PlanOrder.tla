------------------------------ MODULE PlanOrder ------------------------------
(***************************************************************************)
(* What a start promises about the order of plans, however it schedules    *)
(* them and whatever fails: a plan is run when everything it builds on is  *)
(* done, beside no plans but those it may run beside, and never again once *)
(* it is done.  While a start is under way nothing is undone and no order  *)
(* changes.  BatchExec implements it with phases, PlanQueue with the order *)
(* of the registry.                                                        *)
(***************************************************************************)
CONSTANTS Plan,
          Crews      \* the sets of plans that may be run side by side

VARIABLES on,        \* a start is under way
          needs,     \* the plans that each plan builds on
          running,   \* the plans that are being run
          done       \* the plans whose work is in its target, on record

vars == <<on, needs, running, done>>

Init == ~on /\ needs \in [Plan -> SUBSET Plan] /\ running = {} /\ done = {}

Begin == ~on /\ on' /\ UNCHANGED <<needs, running, done>>

Run(p) ==
  /\ on /\ p \notin running \cup done /\ needs[p] \subseteq done
  /\ running' = running \cup {p} /\ running' \in Crews
  /\ UNCHANGED <<on, needs, done>>

\* Nothing runs on when the start is over.
Over == on' \/ running' = {}

\* A plan is done when it has been run, one plan at a time.
Finish(p) ==
  /\ p \in running /\ done' = done \cup {p}
  /\ running' \in {running, running \ {p}} /\ Over
  /\ UNCHANGED needs

\* Plans end without being done: they failed, were stopped, or died with the start.
Stop == on /\ running' \subseteq running /\ Over /\ UNCHANGED <<needs, done>>

\* Between two starts the operator adds, removes, reorders and resets plans.
Operate ==
  /\ ~on /\ needs' \in [Plan -> SUBSET Plan] /\ done' \subseteq done
  /\ UNCHANGED <<on, running>>

Next == Begin \/ Stop \/ Operate \/ \E p \in Plan : Run(p) \/ Finish(p)

Spec == Init /\ [][Next]_vars
=============================================================================

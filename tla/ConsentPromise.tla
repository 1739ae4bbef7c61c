--------------------------- MODULE ConsentPromise ---------------------------
(***************************************************************************)
(* What the step agent promises the user: each command it wants to run is  *)
(* a request that comes up once, after the run's earlier ones are settled; *)
(* it is executed at most once, only after the user's own yes to it, and   *)
(* not while the run is stopped.  How the questions and answers travel, on *)
(* which screen, and what else a run does, is not said.                    *)
(***************************************************************************)
EXTENDS Naturals

CONSTANTS Runs, MaxSteps

Requests == Runs \X (1..MaxSteps)

VARIABLES
    stage,    \* how far each request has come
    agreed,   \* requests the user said yes to
    halted    \* runs that were told to stop, until a run is started

vars == <<stage, agreed, halted>>

Stages  == {"new", "asked", "granted", "executed", "over"}
Settled == {"executed", "over"}

TypeOK ==
    /\ stage \in [Requests -> Stages]
    /\ agreed \subseteq Requests
    /\ halted \subseteq Runs

Init ==
    /\ stage = [q \in Requests |-> "new"]
    /\ agreed = {}
    /\ halted = {}

Becomes(q, s) == stage' = [stage EXCEPT ![q] = s]

\* One request of a run at a time.
Ask(q) ==
    /\ stage[q] = "new"
    /\ \A p \in Requests : p[1] = q[1] /\ p[2] < q[2] => stage[p] \in Settled
    /\ Becomes(q, "asked")
    /\ UNCHANGED <<agreed, halted>>

\* The run had nothing to ask for this step.
Pass(q) ==
    /\ stage[q] = "new"
    /\ Becomes(q, "over")
    /\ UNCHANGED <<agreed, halted>>

\* The user may say yes to what came up, even if it is too late for it.
Agree(q) ==
    /\ stage[q] # "new"
    /\ agreed' = agreed \cup {q}
    /\ UNCHANGED <<stage, halted>>

Grant(q) ==
    /\ stage[q] = "asked"
    /\ q \in agreed
    /\ Becomes(q, "granted")
    /\ UNCHANGED <<agreed, halted>>

Refuse(q) ==
    /\ stage[q] \in {"asked", "granted"}
    /\ Becomes(q, "over")
    /\ UNCHANGED <<agreed, halted>>

Execute(q) ==
    /\ stage[q] = "granted"
    /\ q[1] \notin halted
    /\ Becomes(q, "executed")
    /\ UNCHANGED <<agreed, halted>>

\* No run that has a request under way escapes a stop.
Stop ==
    /\ stage' = [q \in Requests |-> IF stage[q] = "asked" THEN "over" ELSE stage[q]]
    /\ halted' \in SUBSET Runs
    /\ \A q \in Requests : stage[q] \in {"asked", "granted"} => q[1] \in halted'
    /\ UNCHANGED agreed

Start == halted' = {} /\ UNCHANGED <<stage, agreed>>

Next ==
    \/ \E q \in Requests :
          Ask(q) \/ Pass(q) \/ Agree(q) \/ Grant(q) \/ Refuse(q) \/ Execute(q)
    \/ Stop \/ Start

Spec == Init /\ [][Next]_vars
=============================================================================

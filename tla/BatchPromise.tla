---------------------------- MODULE BatchPromise ----------------------------
(***************************************************************************)
(* What a batch of connects promises: every host that was asked for is     *)
(* connected once, at most Cap at a time and never fewer while others      *)
(* wait; a stop drops the hosts that wait and leaves the running ones      *)
(* alone.  How the hosts are queued and counted is not said.               *)
(***************************************************************************)
EXTENDS Naturals, FiniteSets

CONSTANTS Hosts, Cap

VARIABLES
    fate,    \* what became of each host in the last batch that had it
    stopped  \* the batch that runs was told to drop the hosts that wait

vars == <<fate, stopped>>

Outcomes == {"ok", "failed", "skipped"}
Settled  == Outcomes \cup {"none", "cancelled"}

Waiting == {h \in Hosts : fate[h] = "queued"}
Running == {h \in Hosts : fate[h] = "running"}

\* What a host may become in one step.
After(f) ==
    CASE f = "queued"  -> {"queued", IF stopped THEN "cancelled" ELSE "running"}
      [] f = "running" -> {"running"} \cup Outcomes
      [] OTHER         -> {f}

TypeOK ==
    /\ fate \in [Hosts -> Settled \cup {"queued", "running"}]
    /\ stopped \in BOOLEAN

Init ==
    /\ fate = [h \in Hosts |-> "none"]
    /\ stopped = FALSE

\* A batch of some of the hosts begins when none is under way.
Begin ==
    /\ Waiting \cup Running = {}
    /\ \A h \in Hosts : fate'[h] \in {"queued", "running", fate[h]}
    /\ stopped' = FALSE

Stop ==
    /\ ~stopped
    /\ Waiting # {}
    /\ stopped' = TRUE
    /\ UNCHANGED fate

\* Some of the running hosts end and others take their place; the stop ends with
\* the batch.
Proceed ==
    /\ \A h \in Hosts : fate'[h] \in After(fate[h])
    /\ stopped' = (stopped /\ (Waiting \cup Running)' # {})

\* The slots are never overrun, and never idle while a host waits for one.
Slots ==
    /\ Cardinality(Running) <= Cap
    /\ Waiting # {} => Cardinality(Running) = Cap

Next ==
    /\ Begin \/ Stop \/ Proceed
    /\ fate' \in [Hosts -> Settled \cup {"queued", "running"}]
    /\ Slots'

Spec == Init /\ [][Next]_vars
=============================================================================

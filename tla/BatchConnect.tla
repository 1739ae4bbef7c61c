---------------------------- MODULE BatchConnect ----------------------------
(***************************************************************************)
(* Connecting many hosts at once (batch-connect.ts, connectMany in         *)
(* App.tsx).  A batch hands its hosts to connect, in order and a few at a  *)
(* time; whenever one settles, pump fills its slot.  The user may cancel   *)
(* what is still queued, and asks for other batches with the hosts that    *)
(* failed.  A step is what runs between two awaits: settling a host runs   *)
(* the pump, and the last one also ends the batch.                         *)
(***************************************************************************)
EXTENDS Integers, Sequences, FiniteSets

CONSTANTS
    Hosts,
    Limit,  \* the number of connects asked for, before it is clamped
    None

ASSUME BatchAssumption == IsFiniteSet(Hosts) /\ Limit \in Int /\ None \notin Nat

VARIABLES
    busy,     \* batchBusyRef
    cancel,   \* batchCancelRef
    queued,   \* batchQueuedRef
    fails,    \* batchFails, the card of hosts that failed
    list,     \* hosts of the batch
    next,     \* how many of them were handed out or dropped
    inflight,
    started,  \* startedCount
    dropped,  \* cancelledCount, and after the batch the count of its summary
    results,  \* of each host, from the last batch that had it
    told      \* hosts that the toast of cancelBatchQueue said were cancelled

vars == <<busy, cancel, queued, fails, list, next, inflight, started, dropped, results, told>>

\* clampBatchLimit
ClampBatchLimit(n) == IF n < 1 THEN 1 ELSE IF n > 5 THEN 5 ELSE n

Cap == ClampBatchLimit(Limit)

Outcomes == {"ok", "failed", "skipped"}

\* hostsByIds drops repeated hosts.
Lists == {s \in UNION {[1..n -> Hosts] : n \in 0..Cardinality(Hosts)} :
             \A i, j \in DOMAIN s : s[i] = s[j] => i = j}

Ranks(a, b) == {list[i] : i \in a..b}

TypeOK ==
    /\ busy \in BOOLEAN
    /\ cancel \in BOOLEAN
    /\ queued \in Nat
    /\ fails \subseteq Hosts
    /\ list \in Lists
    /\ next \in 0..Len(list)
    /\ inflight \in 0..Cap
    /\ started \in 0..Len(list)
    /\ dropped \in Nat
    /\ results \in [Hosts -> Outcomes \cup {"none", "cancelled"}]
    /\ told \in Nat \cup {None}

Init ==
    /\ busy = FALSE
    /\ cancel = FALSE
    /\ queued = 0
    /\ fails = {}
    /\ list = <<>>
    /\ next = 0
    /\ inflight = 0
    /\ started = 0
    /\ dropped = 0
    /\ results = [h \in Hosts |-> "none"]
    /\ told = None

-----------------------------------------------------------------------------
(* The pump                                                                *)

Lesser(a, b) == IF a < b THEN a ELSE b

\* Broken variant: the loop does not look at the cancel flag.
StartableAlways(flying, waiting, stop) == Lesser(Cap - flying, waiting)

\* Broken variant: the loop does not look at the cap.
StartableUncapped(flying, waiting, stop) == IF stop THEN 0 ELSE waiting

\* Broken variant: one host at a time instead of a loop.
StartableOne(flying, waiting, stop) ==
    IF stop THEN 0 ELSE Lesser(1, Lesser(Cap - flying, waiting))

\* Hosts that the loop of pump hands to connect.
Startable(flying, waiting, stop) ==
    IF stop THEN 0 ELSE Lesser(Cap - flying, waiting)

\* pump over the hosts l, of which n were taken, with `flying' connects under
\* way: it hands out what there is room for, drops the rest if the user said so,
\* reports, and ends the batch when nothing is left.
Pump(l, n, flying, begun, gone, rows, stop) ==
    LET k     == Startable(flying, Len(l) - n, stop)
        rest  == (n + k + 1)..Len(l)
        taken == IF stop THEN Len(l) ELSE n + k
        lost  == IF stop THEN gone + (Len(l) - n - k) ELSE gone
        over  == taken = Len(l) /\ flying + k = 0
    IN  /\ list' = IF over THEN <<>> ELSE l
        /\ next' = IF over THEN 0 ELSE taken
        /\ inflight' = flying + k
        /\ started' = IF over THEN 0 ELSE begun + k
        /\ dropped' = lost
        /\ results' = [h \in Hosts |-> IF stop /\ \E i \in rest : l[i] = h
                                       THEN "cancelled" ELSE rows[h]]
        /\ queued' = IF over THEN 0 ELSE Len(l) - (begun + k) - lost
        /\ busy' = ~over
        /\ cancel' = (stop /\ ~over)

-----------------------------------------------------------------------------
(* The batch                                                               *)

\* Broken variant: a host keeps the failure of an earlier batch.
ClearedNothing(hosts) == fails

\* Failures of these hosts leave the card.
Cleared(hosts) == fails \ hosts

\* connectMany, from the sidebar, the palette or the retry of a failed host.
ConnectMany(l) ==
    LET hosts == {l[i] : i \in DOMAIN l}
    IN  /\ l # <<>>
        /\ ~busy
        /\ fails' = Cleared(hosts)
        /\ told' = None
        /\ Pump(l, 0, 0, 0, 0, [h \in Hosts |-> IF h \in hosts THEN "none" ELSE results[h]], FALSE)

\* Hosts handed to connect that have not settled.
Connecting == {h \in Ranks(1, next) : results[h] = "none"}

\* Broken variant: a rejected connect keeps its slot.
SlotKept(outcome) == IF outcome = "failed" THEN inflight ELSE inflight - 1

\* The slot of a settled connect is free, whatever its outcome.
SlotFreed(outcome) == inflight - 1

\* connect(host) comes back: connected or reused, failed, or skipped because the
\* user closed its tab.  noteOk and noteFail keep the card.
Settle(h, outcome) ==
    /\ h \in Connecting
    /\ fails' = IF outcome = "failed" THEN fails \cup {h}
                ELSE IF outcome = "ok" THEN Cleared({h}) ELSE fails
    /\ Pump(list, next, SlotFreed(outcome), started, dropped,
            [results EXCEPT ![h] = outcome], cancel)
    /\ UNCHANGED told

\* The button on the progress card.
CancelBatchQueue ==
    /\ ~cancel
    /\ queued > 0
    /\ cancel' = TRUE
    /\ told' = queued
    /\ queued' = 0
    /\ UNCHANGED <<busy, fails, list, next, inflight, started, dropped, results>>

\* "Got it" on one row of the card of failures, or on all of it.
Dismiss(hosts) ==
    /\ fails' = fails \ hosts
    /\ UNCHANGED <<busy, cancel, queued, list, next, inflight, started, dropped, results, told>>

Next ==
    \/ \E l \in Lists : ConnectMany(l)
    \/ \E h \in Hosts, outcome \in Outcomes : Settle(h, outcome)
    \/ CancelBatchQueue
    \/ \E h \in Hosts : Dismiss({h})
    \/ Dismiss(Hosts)

Spec == Init /\ [][Next]_vars

\* Every connect settles: openSession and reconnectTab catch what fails, and the
\* connect below them has a timeout.
FairSpec == Spec /\ \A h \in Hosts : WF_vars(\E outcome \in Outcomes : Settle(h, outcome))

-----------------------------------------------------------------------------
(* Properties                                                              *)

\* What became of a host, as BatchPromise sees it.
Fate(h) ==
    IF h \in Ranks(next + 1, Len(list)) THEN "queued"
    ELSE IF h \in Connecting THEN "running" ELSE results[h]

Promise == INSTANCE BatchPromise WITH
              fate <- [h \in Hosts |-> Fate(h)], stopped <- cancel

\* The counters and the index of runBatchConnect keep what its comment promises: at
\* most Cap connects at a time, no idle slot while hosts wait, each host connected
\* once, and a cancel that drops exactly the hosts that were never handed out.
KeepsPromise == Promise!Spec

\* The number of hosts that the toast says were cancelled is the number that are
\* dropped when the batch comes to it, although connects settle in between.
ToldIsDropped ==
    told # None /\ (dropped > 0 \/ ~busy) => told = dropped

\* The card of failures shows a host only if its last batch failed: never one that
\* was retried and connected, dropped, or skipped since.
CardIsCurrent == \A h \in fails : results[h] = "failed"

\* Every batch ends, and frees connectMany for the next one.
BatchEnds == busy ~> ~busy
=============================================================================

--------------------------- MODULE SeriesPromise ---------------------------
(***************************************************************************)
(* What the automatic reconnect promises the user of a tab: its series of  *)
(* attempts is counted up one by one and never beyond the limit, an        *)
(* attempt is given back only while there is no network, a tab that was    *)
(* halted is not tried again until its series was given up, and a series   *)
(* that begins again begins at one.  What starts, ends or delays an        *)
(* attempt, and which session a tab shows, is not said.                    *)
(***************************************************************************)
EXTENDS Naturals

CONSTANTS Tabs, Limits

VARIABLES
    going,    \* tabs whose series is under way
    nth,      \* the attempt it has come to
    halted,   \* tabs the user stopped
    limit,    \* most attempts of a series, 0 when it is switched off
    online

vars == <<going, nth, halted, limit, online>>

TypeOK ==
    /\ going \subseteq Tabs
    /\ nth \in [Tabs -> Nat]
    /\ halted \subseteq Tabs
    /\ limit \in Limits
    /\ online \in BOOLEAN

Init ==
    /\ going = {}
    /\ nth = [t \in Tabs |-> 0]
    /\ halted = {}
    /\ limit \in Limits
    /\ online = TRUE

Kept(t) == nth'[t] = nth[t] /\ (t \in going' <=> t \in going)

HaltKept(t) == t \in halted' <=> t \in halted

Rests(t) == Kept(t) /\ HaltKept(t)

\* One more attempt, the first if no series is under way.
Tries(t) ==
    /\ t \notin halted
    /\ t \in going'
    /\ nth'[t] = IF t \in going THEN nth[t] + 1 ELSE 1
    /\ nth'[t] <= limit
    /\ HaltKept(t)

GivesBack(t) ==
    /\ ~online
    /\ t \in going /\ t \in going'
    /\ nth'[t] = nth[t] - 1
    /\ HaltKept(t)

\* The series is over; a halt may be set or lifted with it.
Ends(t) == t \notin going' /\ nth'[t] = 0

Halts(t) == Kept(t) /\ t \in halted'

\* Events concern many tabs at once; the network and the policy change as they like.
Next ==
    /\ \A t \in Tabs : Rests(t) \/ Tries(t) \/ GivesBack(t) \/ Ends(t) \/ Halts(t)
    /\ TypeOK'

Spec == Init /\ [][Next]_vars
=============================================================================

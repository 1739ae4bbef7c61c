----------------------------- MODULE HopCustody -----------------------------
(***************************************************************************)
(* What connect promises about the connections it makes to the hops of a   *)
(* chain: each is at any time with one caller, parked, or closed, and goes *)
(* from hand to hand only as said here; none is forgotten while it is up,  *)
(* and none that is closed is used again.  Which hops a caller has, in     *)
(* what order, and why it parks or resumes, is not said.                   *)
(***************************************************************************)
CONSTANTS Callers, Hops

Handles == Callers \X Hops

VARIABLES
    has,      \* handles each caller has in hand
    parked,   \* handles left for the next caller to resume from
    closed    \* handles that are down

vars == <<has, parked, closed>>

TypeOK ==
    /\ has \in [Callers -> SUBSET Handles]
    /\ parked \subseteq Handles
    /\ closed \subseteq Handles

Init ==
    /\ has = [c \in Callers |-> {}]
    /\ parked = {}
    /\ closed = {}

Somewhere == parked \cup closed \cup UNION {has[c] : c \in Callers}

Has(c, S) == has' = [has EXCEPT ![c] = S]

\* A caller makes its own connections, each once.
Make(c, h) ==
    /\ h[1] = c
    /\ h \notin Somewhere
    /\ Has(c, has[c] \cup {h})
    /\ UNCHANGED <<parked, closed>>

\* Who resumes takes all that is parked, and closes what it has no use for.
Take(c, S) ==
    /\ has[c] = {}
    /\ S \subseteq parked
    /\ Has(c, S)
    /\ parked' = {}
    /\ closed' = closed \cup (parked \ S)

\* What is parked is of no use any more.
Clear ==
    /\ parked' = {}
    /\ closed' = closed \cup parked
    /\ UNCHANGED has

\* A caller closes all it has, and nothing else.
LetGo(c) ==
    /\ Has(c, {})
    /\ closed' = closed \cup has[c]
    /\ UNCHANGED parked

\* A caller that fails leaves some of what it has in the place of what was parked.
Park(c, S) ==
    /\ S \subseteq has[c]
    /\ S # {}
    /\ Has(c, {})
    /\ parked' = S
    /\ closed' = closed \cup parked \cup (has[c] \ S)

Next ==
    \/ \E c \in Callers :
          \/ \E h \in Handles : Make(c, h)
          \/ \E S \in SUBSET parked : Take(c, S)
          \/ \E S \in SUBSET has[c] : Park(c, S)
          \/ LetGo(c)
    \/ Clear

Spec == Init /\ [][Next]_vars
=============================================================================

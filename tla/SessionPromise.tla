--------------------------- MODULE SessionPromise ---------------------------
(***************************************************************************)
(* What the session manager promises those who hold a session id: a        *)
(* session is listed once, runs one shell and is told closed at most once, *)
(* and ends unasked only with its line; to leave takes a session, the      *)
(* shells it carries and its line away in one step, and nothing else takes *)
(* down a line but its loss.  Calls, locks, queues and forwards are not    *)
(* mentioned.                                                              *)
(***************************************************************************)
CONSTANTS
    Owners,   \* sessions with a line of their own
    Execs,    \* sessions carried by the line of another
    NoOne

Ids == Owners \cup Execs

VARIABLES
    listed,   \* sessions one can ask for
    parent,   \* the session whose line carries an exec
    line,     \* the line of each owner
    shell,    \* the shell of each session
    told,     \* sessions reported closed
    left      \* sessions that were asked to end

vars == <<listed, parent, line, shell, told, left>>

TypeOK ==
    /\ listed \subseteq Ids
    /\ parent \in [Execs -> Owners \cup {NoOne}]
    /\ line \in [Owners -> {"none", "up", "lost", "closed"}]
    /\ shell \in [Ids -> {"none", "running", "ended"}]
    /\ told \subseteq Ids
    /\ left \subseteq Ids

Init ==
    /\ listed = {}
    /\ parent = [e \in Execs |-> NoOne]
    /\ line = [o \in Owners |-> "none"]
    /\ shell = [s \in Ids |-> "none"]
    /\ told = {}
    /\ left = {}

Root(s) == IF s \in Execs THEN parent[s] ELSE s

Dial(o) ==
    /\ line[o] = "none"
    /\ line' = [line EXCEPT ![o] = "up"]
    /\ UNCHANGED <<listed, parent, shell, told, left>>

Lose(o) ==
    /\ line[o] = "up"
    /\ line' = [line EXCEPT ![o] = "lost"]
    /\ UNCHANGED <<listed, parent, shell, told, left>>

\* The parent of an exec is chosen once, among those that are listed.
Attach(e, o) ==
    /\ parent[e] = NoOne
    /\ o \in listed
    /\ parent' = [parent EXCEPT ![e] = o]
    /\ UNCHANGED <<listed, line, shell, told, left>>

\* Nothing that was listed before is listed again.
List(s) ==
    /\ s \notin listed \cup left
    /\ shell[s] = "none"
    /\ Root(s) # NoOne /\ line[Root(s)] # "none"
    /\ listed' = listed \cup {s}
    /\ UNCHANGED <<parent, line, shell, told, left>>

Run(s) ==
    /\ s \in listed \cup left
    /\ shell[s] = "none"
    /\ shell' = [shell EXCEPT ![s] = "running"]
    /\ UNCHANGED <<listed, parent, line, told, left>>

\* The session, those it carries, and its line.
Leave(s) ==
    /\ s \in listed
    /\ LET gone == {s} \cup {e \in listed \cap Execs : parent[e] = s}
       IN  /\ listed' = listed \ gone
           /\ left' = left \cup {g \in gone : shell[g] # "ended"}
    /\ line' = [o \in Owners |-> IF o = s THEN "closed" ELSE line[o]]
    /\ UNCHANGED <<parent, shell, told>>

\* The end of a shell may go unreported if it was asked for or the line is down.
End(s) ==
    /\ shell[s] = "running"
    /\ shell' = [shell EXCEPT ![s] = "ended"]
    /\ \/ told' = told \cup {s}
       \/ (s \in left \/ line[Root(s)] # "up") /\ UNCHANGED told
    /\ UNCHANGED <<listed, parent, line, left>>

Next ==
    \/ \E o \in Owners : Dial(o) \/ Lose(o) \/ \E e \in Execs : Attach(e, o)
    \/ \E s \in Ids : List(s) \/ Run(s) \/ Leave(s) \/ End(s)

Spec == Init /\ [][Next]_vars
=============================================================================

-------------------------- MODULE QuestionPromise --------------------------
(***************************************************************************)
(* What the host key check promises the user: a server whose key is not    *)
(* the recorded one is let in only on the one answer to that very request, *)
(* and the record of a host changes only when a request of that host is    *)
(* let in on "always", to the key it was about, or by the user's own hand. *)
(* The answer is the user's to that question, with one exception (Slip): a *)
(* click that came too late for a question lands on another one, which the *)
(* user has not seen; it takes a question that ran out unanswered, and     *)
(* each such question is good for one click.  How prompts and answers      *)
(* travel, where they are shown and when a question runs out is not said.  *)
(***************************************************************************)
CONSTANTS
    Checks,   \* handshakes
    HostOf,   \* host:port of each
    Keys,     \* server keys
    None

Hosts   == {HostOf[c] : c \in Checks}
Answers == {"no", "once", "always"}

VARIABLES
    stage,   \* how far each check has come
    key,     \* key that the server presented
    given,   \* what the user said when asked about each check
    heard,   \* the answer that counts for each check
    known    \* the record

vars == <<stage, key, given, heard, known>>

TypeOK ==
    /\ stage \in [Checks -> {"new", "vouched", "asked", "accepted", "refused"}]
    /\ key \in [Checks -> Keys \cup {None}]
    /\ given \in [Checks -> Answers \cup {None}]
    /\ heard \in [Checks -> Answers \cup {None}]
    /\ known \in [Hosts -> Keys \cup {None}]

Init ==
    /\ stage = [c \in Checks |-> "new"]
    /\ key = [c \in Checks |-> None]
    /\ given = [c \in Checks |-> None]
    /\ heard = [c \in Checks |-> None]
    /\ known \in [Hosts -> Keys \cup {None}]

Becomes(c, s) == stage' = [stage EXCEPT ![c] = s]

\* The record knows the key.
Vouch(c, k) ==
    /\ stage[c] = "new"
    /\ known[HostOf[c]] = k
    /\ key' = [key EXCEPT ![c] = k]
    /\ Becomes(c, "vouched")
    /\ UNCHANGED <<given, heard, known>>

Ask(c, k) ==
    /\ stage[c] = "new"
    /\ known[HostOf[c]] # k
    /\ key' = [key EXCEPT ![c] = k]
    /\ Becomes(c, "asked")
    /\ UNCHANGED <<given, heard, known>>

\* A question that was put, and that no answer was given to or counted for.
Open(c) == stage[c] \in {"asked", "refused"} /\ given[c] = None /\ heard[c] = None

\* What the user says to d counts for c.
Counts(d, c, a) ==
    /\ given' = [given EXCEPT ![d] = a]
    /\ heard' = [heard EXCEPT ![c] = a]
    /\ UNCHANGED <<stage, key, known>>

\* The user answers a request once, perhaps too late for it.
Say(c, a) == Open(c) /\ Counts(c, c, a)

\* The user answers d, which has run out, and c has taken its place.
Slip(d, c, a) ==
    /\ d # c
    /\ stage[d] = "refused" /\ Open(d)
    /\ Open(c)
    /\ Counts(d, c, a)

Accept(c) ==
    /\ stage[c] = "asked"
    /\ heard[c] \in {"once", "always"}
    /\ Becomes(c, "accepted")
    /\ known' = IF heard[c] = "always" THEN [known EXCEPT ![HostOf[c]] = key[c]] ELSE known
    /\ UNCHANGED <<key, given, heard>>

Refuse(c) ==
    /\ stage[c] = "asked"
    /\ Becomes(c, "refused")
    /\ UNCHANGED <<key, given, heard, known>>

\* The user edits or imports the list.
Edit(h, k) ==
    /\ known' = [known EXCEPT ![h] = k]
    /\ UNCHANGED <<stage, key, given, heard>>

Next ==
    \/ \E c \in Checks, k \in Keys : Vouch(c, k) \/ Ask(c, k)
    \/ \E c \in Checks, a \in Answers : Say(c, a) \/ \E d \in Checks : Slip(d, c, a)
    \/ \E c \in Checks : Accept(c) \/ Refuse(c)
    \/ \E h \in Hosts, k \in Keys \cup {None} : Edit(h, k)

Spec == Init /\ [][Next]_vars
=============================================================================

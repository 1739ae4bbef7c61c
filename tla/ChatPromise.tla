---------------------------- MODULE ChatPromise ----------------------------
(***************************************************************************)
(* What the agent of the Electron shell promises the user: one chat is     *)
(* live at a time, and one that was stopped or replaced does not come back *)
(* to life; in a step the live chat writes one command at most, the one    *)
(* the user said yes to or one that its policy lets it write unasked, and  *)
(* never after a no; not on a host that is locked at that moment, not once *)
(* more after RetryCap failures in a row.  What stopped chats still do,    *)
(* and how questions are put and answered, is not said.                    *)
(***************************************************************************)
EXTENDS Naturals

CONSTANTS Runs, Sessions, TargetOf, Commands, KindOf, Settings, MaxSteps, RetryCap, None

VARIABLES
    begun,    \* chats that were sent
    live,     \* the chat that a stop would end, or None
    terms,    \* the settings it was sent with
    talk,     \* how far it has come
    locked    \* sessions the user locked read-only

vars == <<begun, live, terms, talk, locked>>

Stages == {"fresh", "asked", "granted", "refused", "written"}

Talk == [step: 0..MaxSteps,
         stage: Stages,                    \* of this step
         asked: Commands \cup {None},      \* the command in question
         awaited: Commands \cup {None},    \* the command whose output is awaited
         failing: Commands \cup {None},    \* the command that failed last
         fails: 0..RetryCap]               \* how often in a row

Silence == [step |-> 0, stage |-> "fresh", asked |-> None, awaited |-> None,
            failing |-> None, fails |-> 0]

TypeOK ==
    /\ begun \subseteq Runs
    /\ live \in begun \cup {None}
    /\ terms \in Settings \cup {None}
    /\ talk \in Talk
    /\ locked \in [Sessions -> BOOLEAN]

Init ==
    /\ begun = {}
    /\ live = None
    /\ terms = None
    /\ talk = Silence
    /\ locked \in [Sessions -> BOOLEAN]

Begin(r, v) ==
    /\ r \notin begun
    /\ begun' = begun \cup {r}
    /\ live' = r
    /\ terms' = v
    /\ talk' = Silence
    /\ UNCHANGED locked

\* By a stop, or at its own end.
Over ==
    /\ live # None
    /\ live' = None
    /\ terms' = None
    /\ talk' = Silence
    /\ UNCHANGED <<begun, locked>>

SetProtection(s) ==
    /\ locked' = [locked EXCEPT ![s] = ~@]
    /\ UNCHANGED <<begun, live, terms, talk>>

Goes(t) ==
    /\ live # None
    /\ talk' = t
    /\ UNCHANGED <<begun, live, terms, locked>>

NextStep ==
    /\ talk.stage \in {"fresh", "written"} /\ talk.awaited = None
    /\ talk.step < MaxSteps
    /\ Goes([talk EXCEPT !.step = @ + 1, !.stage = "fresh"])

\* c is None when it is not a command that is asked for.
Ask(c) == talk.stage = "fresh" /\ Goes([talk EXCEPT !.stage = "asked", !.asked = c])

Agree  == talk.stage = "asked" /\ Goes([talk EXCEPT !.stage = "granted"])
Refuse == talk.stage = "asked" /\ Goes([talk EXCEPT !.stage = "refused"])

\* The yes was to something that is not written.
Spend == talk.stage = "granted" /\ Goes([talk EXCEPT !.stage = "fresh", !.asked = None])

Failed(t, c) ==
    [t EXCEPT !.failing = c, !.fails = IF talk.failing = c THEN @ + 1 ELSE 1]

Passed(t, c) ==
    IF talk.failing = c THEN [t EXCEPT !.failing = None, !.fails = 0] ELSE t

\* What the settings let the live chat write without a question.
Free(c) ==
    /\ live # None
    /\ terms.policy # None
    /\ \/ KindOf[c] = "read"
       \/ terms.policy = "auto" /\ KindOf[c] = "write"
       \/ terms.policy = "auto" /\ KindOf[c] = "high" /\ terms.autoHigh

\* c goes out, and its output is awaited, or it could not be sent.
Sends(c) ==
    /\ ~terms.locked /\ ~locked[TargetOf[live]]
    /\ talk.failing = c => talk.fails < RetryCap
    /\ LET w == [talk EXCEPT !.stage = "written", !.asked = None]
       IN  Goes([w EXCEPT !.awaited = c]) \/ Goes(Failed(w, c))

Write(c) ==
    /\ \/ talk.stage = "granted" /\ talk.asked = c
       \/ talk.stage = "fresh" /\ Free(c) /\ talk.failing # c
    /\ Sends(c)

\* The command that failed last goes out once more unasked, within its budget.  The
\* texts want a new confirmation for it (core-a-command-failure.ts:4 and :111), but the
\* code passes approved: true to its gate (ai-interactive-agent.ts:1639): without this
\* clause the promise would be broken by every policy that lets c be written unasked.
Rewrite(c) ==
    /\ talk.stage = "fresh" /\ Free(c) /\ talk.failing = c
    /\ Sends(c)

Result(c) ==
    /\ talk.awaited = c
    /\ LET t == [talk EXCEPT !.awaited = None]
       IN  Goes(Failed(t, c)) \/ Goes(Passed(t, c))

Next ==
    \/ \E r \in Runs, v \in Settings : Begin(r, v)
    \/ Over \/ NextStep \/ Agree \/ Refuse \/ Spend
    \/ \E s \in Sessions : SetProtection(s)
    \/ \E c \in Commands \cup {None} : Ask(c)
    \/ \E c \in Commands : Write(c) \/ Rewrite(c) \/ Result(c)

Spec == Init /\ [][Next]_vars
=============================================================================

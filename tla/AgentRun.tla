------------------------------ MODULE AgentRun ------------------------------
(***************************************************************************)
(* The step agent of the AI panel: AgentRuntime (agent.rs), whose one      *)
(* abort flag and one map of confirm waiters serve all runs, and the panel *)
(* that starts, stops and answers them (AIPanel.tsx).  A run asks the      *)
(* model, and asks the user before each command it executes.               *)
(*                                                                         *)
(* The panel offers a new message only when it is not busy, but its state  *)
(* goes when the right pane shows something else, and the run does not:    *)
(* so runs do overlap.  Each command of the renderer is a call of its own; *)
(* the events of all runs share the stream "ai:stream".                    *)
(***************************************************************************)
EXTENDS Integers, Sequences

CONSTANTS
    Runs,       \* ai_chat calls
    MaxSteps,   \* ai_max_steps
    None

\* A run waits for one answer at a time: its step names the request.
Requests == Runs \X (1..MaxSteps)

Pcs == {"idle", "sent", "begun", "thinking", "confirming", "executing",
        "ended", "returned"}

ASSUME AgentAssumption ==
    /\ MaxSteps \in 1..30
    /\ None \notin Requests \cup Pcs \cup {"yes", "no"}

VARIABLES
    abort,        \* AgentRuntime.abort
    confirms,     \* keys of AgentRuntime.confirms
    pc,           \* progress of each run
    step,         \* step of its loop
    answer,       \* what is in the channel of its current request
    events,       \* ai:stream: a request the user is asked, None for an event
                  \* that asks nothing any more (another step, an error, the end)
    answers,      \* ai_resolve_confirm calls on their way
    stopping,     \* an ai_abort_chat call is on its way
    mounted,      \* the panel is on the screen
    busy,         \* ... and has a run of its own
    attached,     \* runs whose listener belongs to the panel on the screen
    pending,      \* pendingConfirm of the panel
    appPending,   \* aiPending, the copy in App.tsx
    agreed,       \* history: requests the user agreed to
    ran,          \* history: requests whose command was executed
    stopped       \* history: where a stop met each run, since the last start

runtimeVars == <<abort, confirms, pc, step, answer>>
panelVars   == <<mounted, busy, attached, pending, appPending>>
vars == <<runtimeVars, events, answers, stopping, panelVars, agreed, ran, stopped>>

TypeOK ==
    /\ abort \in BOOLEAN
    /\ confirms \subseteq Requests
    /\ pc \in [Runs -> Pcs]
    /\ step \in [Runs -> 0..MaxSteps]
    /\ answer \in [Runs -> {"yes", "no", None}]
    /\ events \in Seq(Requests \cup {None})
    /\ answers \subseteq Requests \X {"yes", "no"}
    /\ stopping \in BOOLEAN
    /\ mounted \in BOOLEAN
    /\ busy \in BOOLEAN
    /\ attached \subseteq Runs
    /\ pending \in Requests \cup {None}
    /\ appPending \in Requests \cup {None}
    /\ agreed \subseteq Requests
    /\ ran \subseteq Requests
    /\ stopped \in [Runs -> Pcs \cup {None}]

Init ==
    /\ abort = FALSE
    /\ confirms = {}
    /\ pc = [r \in Runs |-> "idle"]
    /\ step = [r \in Runs |-> 0]
    /\ answer = [r \in Runs |-> None]
    /\ events = <<>>
    /\ answers = {}
    /\ stopping = FALSE
    /\ mounted = TRUE
    /\ busy = FALSE
    /\ attached = {}
    /\ pending = None
    /\ appPending = None
    /\ agreed = {}
    /\ ran = {}
    /\ stopped = [r \in Runs |-> None]

Request(r) == <<r, step[r]>>

-----------------------------------------------------------------------------
(* AgentRuntime.run: an action ends at each await                          *)

\* The call reaches the backend: the flag is cleared, whoever had set it.
Begin(r) ==
    /\ pc[r] = "sent"
    /\ abort' = FALSE
    /\ stopped' = [q \in Runs |-> None]
    /\ pc' = [pc EXCEPT ![r] = "begun"]
    /\ UNCHANGED <<confirms, step, answer, events, answers, stopping, panelVars,
                   agreed, ran>>

\* The run returns after it emitted evs.
Ends(r, evs) ==
    /\ pc' = [pc EXCEPT ![r] = "ended"]
    /\ events' = events \o evs
    /\ UNCHANGED step

\* Broken variant: one step too many.
NextStepInclusive(r, evs) ==
    \/ abort /\ Ends(r, Append(evs, None))
    \/ ~abort /\ step[r] > MaxSteps /\ Ends(r, evs)
    \/ /\ ~abort /\ step[r] <= MaxSteps
       /\ step' = [step EXCEPT ![r] = @ + 1]
       /\ pc' = [pc EXCEPT ![r] = "thinking"]
       /\ events' = events \o evs

\* The head of the loop, up to the question to the model.
NextStep(r, evs) ==
    \/ abort /\ Ends(r, Append(evs, None))
    \/ ~abort /\ step[r] = MaxSteps /\ Ends(r, evs)
    \/ /\ ~abort /\ step[r] < MaxSteps
       /\ step' = [step EXCEPT ![r] = @ + 1]
       /\ pc' = [pc EXCEPT ![r] = "thinking"]
       /\ events' = events \o evs

\* No provider or no key: the run ends before its first step.
EnterLoop(r) ==
    /\ pc[r] = "begun"
    /\ NextStep(r, <<>>) \/ (\E evs \in {<<>>, <<None>>} : Ends(r, evs))
    /\ UNCHANGED <<abort, confirms, answer, answers, stopping, panelVars,
                   agreed, ran, stopped>>

\* The model wants no further step, or the request to it failed.
ReplyEnds(r) ==
    /\ pc[r] = "thinking"
    /\ \E evs \in {<<>>, <<None>>} : Ends(r, evs)
    /\ UNCHANGED <<abort, confirms, answer, answers, stopping, panelVars,
                   agreed, ran, stopped>>

\* A tool is run without asking; its step event names no request.
ReplyTool(r) ==
    /\ pc[r] = "thinking"
    /\ NextStep(r, <<None>>)
    /\ UNCHANGED <<abort, confirms, answer, answers, stopping, panelVars,
                   agreed, ran, stopped>>

\* A command: the flag is not looked at before the user is asked.
ReplyCommand(r) ==
    /\ pc[r] = "thinking"
    /\ confirms' = confirms \cup {Request(r)}
    /\ answer' = [answer EXCEPT ![r] = None]
    /\ events' = Append(events, Request(r))
    /\ pc' = [pc EXCEPT ![r] = "confirming"]
    /\ UNCHANGED <<abort, step, answers, stopping, panelVars, agreed, ran, stopped>>

\* Broken variant: a stop that came before the answer is not looked for.
ApprovedWhenStopped(r) == answer[r] = "yes"

\* approved && !abort
Approved(r) == answer[r] = "yes" /\ ~abort

\* rx.await returns; there is no timeout.
Execute(r) ==
    /\ pc[r] = "confirming"
    /\ answer[r] # None
    /\ Approved(r)
    /\ \/ /\ pc' = [pc EXCEPT ![r] = "executing"]
          /\ ran' = ran \cup {Request(r)}
          /\ UNCHANGED <<step, events>>
       \/ Ends(r, <<None>>) /\ UNCHANGED ran       \* no target session
    /\ UNCHANGED <<abort, confirms, answer, answers, stopping, panelVars,
                   agreed, stopped>>

Cancel(r) ==
    /\ pc[r] = "confirming"
    /\ answer[r] # None
    /\ ~Approved(r)
    /\ Ends(r, <<None>>)
    /\ UNCHANGED <<abort, confirms, answer, answers, stopping, panelVars,
                   agreed, ran, stopped>>

\* The command ended, failed, or hit its 60 s.
Executed(r) ==
    /\ pc[r] = "executing"
    /\ NextStep(r, <<>>)
    /\ UNCHANGED <<abort, confirms, answer, answers, stopping, panelVars,
                   agreed, ran, stopped>>

-----------------------------------------------------------------------------
(* ai_abort_chat and ai_resolve_confirm                                    *)

\* Broken variant: the flag is set, the waiters are left to wait.
AbortFlagOnly ==
    /\ stopping
    /\ stopping' = FALSE
    /\ abort' = TRUE
    /\ stopped' = [r \in Runs |-> IF pc[r] \in {"ended", "returned"} THEN None ELSE pc[r]]
    /\ UNCHANGED <<confirms, pc, step, answer, events, answers, panelVars, agreed, ran>>

\* The flag is set and every waiter is told no.  (A waiter that comes between
\* the two is told as well, as if it had come before.)
Abort ==
    /\ stopping
    /\ stopping' = FALSE
    /\ abort' = TRUE
    /\ answer' = [r \in Runs |-> IF Request(r) \in confirms THEN "no" ELSE answer[r]]
    /\ confirms' = {}
    /\ stopped' = [r \in Runs |-> IF pc[r] \in {"ended", "returned"} THEN None ELSE pc[r]]
    /\ UNCHANGED <<pc, step, events, answers, panelVars, agreed, ran>>

\* Broken variant: the answer goes to all that wait.
ResolveAll(q, a) ==
    /\ <<q, a>> \in answers
    /\ answers' = answers \ {<<q, a>>}
    /\ confirms' = {}
    /\ answer' = [r \in Runs |-> IF Request(r) \in confirms THEN a ELSE answer[r]]
    /\ UNCHANGED <<abort, pc, step, events, stopping, panelVars, agreed, ran, stopped>>

Resolve(q, a) ==
    /\ <<q, a>> \in answers
    /\ answers' = answers \ {<<q, a>>}
    /\ IF q \in confirms
       THEN confirms' = confirms \ {q} /\ answer' = [answer EXCEPT ![q[1]] = a]
       ELSE UNCHANGED <<confirms, answer>>
    /\ UNCHANGED <<abort, pc, step, events, stopping, panelVars, agreed, ran, stopped>>

-----------------------------------------------------------------------------
(* The panel                                                               *)

\* Every change of pendingConfirm is copied to the App.
Shows(q) == pending' = q /\ appPending' = q

\* submitToAi
Send(r) ==
    /\ pc[r] = "idle"
    /\ mounted /\ ~busy
    /\ pc' = [pc EXCEPT ![r] = "sent"]
    /\ busy' = TRUE
    /\ attached' = attached \cup {r}
    /\ Shows(None)
    /\ UNCHANGED <<abort, confirms, step, answer, events, answers, stopping,
                   mounted, agreed, ran, stopped>>

\* Any listener of this panel takes up the events of any run.
HandleStep ==
    /\ events # <<>> /\ Head(events) # None
    /\ events' = Tail(events)
    /\ IF attached # {} THEN Shows(Head(events)) ELSE UNCHANGED <<pending, appPending>>
    /\ UNCHANGED <<runtimeVars, answers, stopping, mounted, busy, attached,
                   agreed, ran, stopped>>

HandleOther ==
    /\ events # <<>> /\ Head(events) = None
    /\ events' = Tail(events)
    /\ IF attached # {} THEN Shows(None) ELSE UNCHANGED <<pending, appPending>>
    /\ UNCHANGED <<runtimeVars, answers, stopping, mounted, busy, attached,
                   agreed, ran, stopped>>

\* ai_chat returns; its listener goes.
ChatReturns(r) ==
    /\ pc[r] = "ended"
    /\ pc' = [pc EXCEPT ![r] = "returned"]
    /\ IF r \in attached
       THEN attached' = attached \ {r} /\ busy' = FALSE /\ Shows(None)
       ELSE UNCHANGED <<attached, busy, pending, appPending>>
    /\ UNCHANGED <<abort, confirms, step, answer, events, answers, stopping,
                   mounted, agreed, ran, stopped>>

\* confirmStep
Answer(a) ==
    /\ pending # None
    /\ answers' = answers \cup {<<pending, a>>}
    /\ agreed' = IF a = "yes" THEN agreed \cup {pending} ELSE agreed
    /\ Shows(None)
    /\ UNCHANGED <<runtimeVars, events, stopping, mounted, busy, attached, ran, stopped>>

\* stopGeneration: the button and the key exist only while the panel is busy.
Stop ==
    /\ busy
    /\ ~stopping
    /\ stopping' = TRUE
    /\ UNCHANGED <<runtimeVars, events, answers, panelVars, agreed, ran, stopped>>

\* Another right pane: the panel unmounts, the App keeps its copy.
Hide ==
    /\ mounted
    /\ mounted' = FALSE
    /\ busy' = FALSE
    /\ attached' = {}
    /\ pending' = None
    /\ UNCHANGED <<runtimeVars, events, answers, stopping, appPending,
                   agreed, ran, stopped>>

\* initialPending
Show ==
    /\ ~mounted
    /\ mounted' = TRUE
    /\ pending' = appPending
    /\ UNCHANGED <<runtimeVars, events, answers, stopping, busy, attached, appPending,
                   agreed, ran, stopped>>

-----------------------------------------------------------------------------
RunSteps(r) ==
    \/ Begin(r) \/ EnterLoop(r)
    \/ ReplyEnds(r) \/ ReplyTool(r) \/ ReplyCommand(r)
    \/ Execute(r) \/ Cancel(r) \/ Executed(r) \/ ChatReturns(r)

Calls == Abort \/ \E q \in Requests, a \in {"yes", "no"} : Resolve(q, a)

Panel ==
    \/ \E r \in Runs : Send(r)
    \/ HandleStep \/ HandleOther
    \/ \E a \in {"yes", "no"} : Answer(a)
    \/ Stop \/ Hide \/ Show

Next == (\E r \in Runs : RunSteps(r)) \/ Calls \/ Panel

Spec == Init /\ [][Next]_vars

\* The model's server, the command and the calls come back, all by timeouts if
\* need be, and the panel handles its events.  The user owes no answer.
FairSpec ==
    /\ Spec
    /\ \A r \in Runs : WF_vars(RunSteps(r))
    /\ WF_vars(Calls) /\ WF_vars(HandleStep \/ HandleOther)

-----------------------------------------------------------------------------
(* The inductive invariant the safety properties follow from               *)

\* A step that asks has a number; a waiter belongs to the request its run is at,
\* and goes with the answer, not before.
WaitInv ==
    /\ \A r \in Runs : pc[r] \in {"thinking", "confirming"} => step[r] # 0
    /\ \A q \in confirms : pc[q[1]] = "confirming" /\ q = Request(q[1]) /\ answer[q[1]] = None
    /\ \A r \in Runs : pc[r] = "confirming" /\ answer[r] = None => Request(r) \in confirms

\* A yes, on its way or arrived, is the user's.
YesInv ==
    /\ \A q \in Requests : <<q, "yes">> \in answers => q \in agreed
    /\ \A r \in Runs : pc[r] = "confirming" /\ answer[r] = "yes" => Request(r) \in agreed

\* The flag stays up until a run is started.
StopInv == \A r \in Runs : stopped[r] # None => abort

SafetyInv == WaitInv /\ YesInv /\ StopInv /\ ran \subseteq agreed

\* The run has asked for q, or has gone on without asking.
CameUp(q) ==
    \/ q[2] < step[q[1]]
    \/ q = Request(q[1]) /\ pc[q[1]] # "thinking"

\* What is on its way to the screen, on it, or executed has come up before.
UpInv ==
    /\ \A i \in 1..Len(events) : events[i] # None => CameUp(events[i])
    /\ \A q \in {pending, appPending} \ {None} : CameUp(q)
    /\ \A q \in ran : CameUp(q) /\ (q = Request(q[1]) => pc[q[1]] # "confirming")

-----------------------------------------------------------------------------
(* Properties                                                              *)

\* A command is executed only after the user agreed to that very request, with
\* answers, stops and overlapping runs in any order.
RanWithApproval == ran \subseteq agreed

\* A run that was stopped executes nothing any more, not even a command agreed
\* to before or after the stop, as long as no other run has been started.
StopHolds ==
    [][\A r \in Runs : stopped[r] # None => ran' \cap ({r} \X (1..MaxSteps)) \subseteq ran]_vars

\* How far a request has come, as ConsentPromise sees it.
Stage(q) ==
    LET r     == q[1]
        Is(p) == q = Request(r) /\ pc[r] = p
    IN  CASE ~CameUp(q)                           -> "new"
          [] Is("confirming") /\ answer[r] = None  -> "asked"
          [] Is("confirming") /\ answer[r] = "yes" -> "granted"
          [] Is("confirming") /\ answer[r] = "no"  -> "over"
          [] OTHER -> IF q \in ran THEN "executed" ELSE "over"

Promise == INSTANCE ConsentPromise WITH
    stage  <- [q \in Requests |-> Stage(q)],
    halted <- {r \in Runs : stopped[r] # None}

\* The runs together do what ConsentPromise says: a request comes up before it can
\* be agreed to, is executed once at most, by its own yes, and not after a stop,
\* with answers, stops, hidden panels and overlapping runs in any order.
KeepsPromise == Promise!Spec

\* A stop ends a run that waits for an answer or for a command.
StopEndsWait ==
    \A r \in Runs :
        stopped[r] \in {"confirming", "executing"} ~> pc[r] = "returned" \/ stopped[r] = None

\* AIPanel.tsx on the stop key: "stops the run from anywhere while the AI is
\* working": wherever the stop meets the run, the run ends.
StoppedRunEnds ==
    \A r \in Runs : stopped[r] # None ~> pc[r] = "returned" \/ stopped[r] = None
=============================================================================

----------------------------- MODULE CoreAgent -----------------------------
(***************************************************************************)
(* The agent of the Electron shell, runOpenClawCoreAgentChat               *)
(* (ai-interactive-agent.ts): a run asks the model for one step after      *)
(* another and writes commands into an SSH session, some on its own, some  *)
(* after the user agreed, none on a host that is locked read-only.  A chat *)
(* that begins stops the one under way: activeAiChat, the map of confirm   *)
(* waiters and what the session remembers are shared by all runs.          *)
(*                                                                         *)
(* An action is what one turn of the event loop does, from one await to    *)
(* the next.  The continuation of a settled confirm is a step of its own   *)
(* (Resume): a run that begins may do its first steps before it.  Texts,   *)
(* notes, transcripts and their persistence are left out.                  *)
(***************************************************************************)
EXTENDS Integers, FiniteSets

CONSTANTS
    NRuns,      \* ai:chat calls, numbered as they begin
    Sessions,   \* SSH sessions
    TargetOf,   \* payload.targetSessionId of each run
    Commands,   \* commands the model may propose
    KindOf,     \* classifyCommand
    Settings,   \* the settings and payloads that a run may begin with
    MaxSteps,   \* resolveAiMaxSteps
    None

Kinds == {"read", "write", "high", "interactive"}

\* No policy at all is the legacy path: every command is asked.
Policies == {"suggest", "ask", "auto", None}

Setting == [policy: Policies, autoHigh: BOOLEAN, locked: BOOLEAN, needsEvidence: BOOLEAN]

\* What the model proposes: the end, a read-only tool, a tool that is not
\* offered but must be asked for (RISKY_TOOL_NAMES), a patch, or a command.
Others    == {"end", "tool", "riskyTool", "patch"}
Proposals == Others \cup Commands

RetryCap  == 2   \* RETRY_BUDGET_CAP
RepeatCap == 2   \* more repeats than this are not told apart

Runs     == 1..NRuns
Requests == Runs \X (1..MaxSteps)
Outcomes == {"approve", "deny", "cancel"}

ASSUME CoreAssumption ==
    /\ MaxSteps \in 1..30
    /\ NRuns \in Nat
    /\ TargetOf \in [Runs -> Sessions]
    /\ KindOf \in [Commands -> Kinds]
    /\ Settings \subseteq Setting
    /\ Commands \cap Others = {}
    /\ None \notin Runs
    /\ None \notin Proposals \cup Outcomes \cup {"suggest", "ask", "auto"}

VARIABLES
    run,        \* the local variables of each run
    stopped,    \* runCtx.userAborted
    told,       \* outcome of the run's confirm, not taken up yet
    active,     \* activeAiChat
    waiters,    \* confirmWaiters
    last,       \* lastActionFingerprint of each session
    repeats,    \* repeatActionCount of each session
    locked,     \* sessions that the registry of protections has as read-only
    agreed      \* history: requests the user agreed to, until the run resumes

vars == <<run, stopped, told, active, waiters, last, repeats, locked, agreed>>

Phases == {"idle", "top", "planning", "asking", "observing", "ended"}

Local == [phase: Phases,
          setting: Settings \cup {None},     \* settings and payload it began with
          step: 0..MaxSteps, gated: BOOLEAN,
          proposal: Proposals \cup {None},    \* asked, or written and observed
          failed: Commands \cup {None},       \* lastFailure.command
          fails: 0..RetryCap,                 \* lastFailure.count
          held: SUBSET Commands,              \* inFlight
          written: SUBSET (1..MaxSteps)]      \* writtenRequestIds, by step

Fresh(p, v) == [phase |-> p, setting |-> v, step |-> 0, gated |-> FALSE, proposal |-> None,
                failed |-> None, fails |-> 0, held |-> {}, written |-> {}]

TypeOK ==
    /\ run \in [Runs -> Local]
    /\ stopped \in [Runs -> BOOLEAN]
    /\ told \in [Runs -> Outcomes \cup {None}]
    /\ active \in Runs \cup {None}
    /\ waiters \subseteq Requests
    /\ last \in [Sessions -> Proposals \cup {None}]
    /\ repeats \in [Sessions -> 0..RepeatCap]
    /\ locked \in [Sessions -> BOOLEAN]
    /\ agreed \subseteq Requests

Init ==
    /\ run = [r \in Runs |-> Fresh("idle", None)]
    /\ stopped = [r \in Runs |-> FALSE]
    /\ told = [r \in Runs |-> None]
    /\ active = None
    /\ waiters = {}
    /\ last = [s \in Sessions |-> None]
    /\ repeats = [s \in Sessions |-> 0]
    /\ locked \in [Sessions -> BOOLEAN]
    /\ agreed = {}

Request(r) == <<r, run[r].step>>

-----------------------------------------------------------------------------
(* What a run may write                                                    *)

\* Broken variant: the protection is the one the chat was sent with.
LockedAtSend(r) == run[r].setting.locked

\* The stricter of the payload's protection and the live one is read-only.
LockedNow(r) == run[r].setting.locked \/ locked[TargetOf[r]]

\* planCommandConfirm, capped by the protection: written without asking ...
Unasked(r, c) ==
    /\ ~LockedNow(r)
    /\ run[r].setting.policy # None
    /\ \/ KindOf[c] = "read"
       \/ /\ run[r].setting.policy = "auto"
          /\ KindOf[c] = "write" \/ (KindOf[c] = "high" /\ run[r].setting.autoHigh)

\* ... or not written at all ("suggest" and "hold"); any other is asked.
Skipped(r, c) ==
    \/ LockedNow(r)
    \/ run[r].setting.policy # None /\ KindOf[c] = "interactive" /\ c \in run[r].held
    \/ run[r].setting.policy = "suggest" /\ KindOf[c] \in {"write", "high"}

\* Broken variant: the run that ends frees the slot, whoever holds it by now.
FreedAlways(r) == None

\* finally: activeAiChat is cleared by the run that it names.
Freed(r) == IF active = r THEN None ELSE active

\* The run returns; its local variables are gone.
End(r) ==
    /\ run' = [run EXCEPT ![r] = Fresh("ended", None)]
    /\ stopped' = [stopped EXCEPT ![r] = FALSE]
    /\ active' = Freed(r)

Becomes(r, l) == run' = [run EXCEPT ![r] = l] /\ UNCHANGED <<stopped, active>>

\* lastFailure after c failed or not: the success of another command leaves it.
Noted(l, c, fails) ==
    LET again == l.failed = c
    IN  IF fails THEN [l EXCEPT !.failed = c, !.fails = IF again THEN @ + 1 ELSE 1]
        ELSE IF again THEN [l EXCEPT !.failed = None, !.fails = 0]
        ELSE l

\* The write of c, from the last look at the protection to the next await: it
\* ends the run on a locked host; ssh.write refuses, or the output is awaited.
Write(r, c, l) ==
    \/ LockedNow(r) /\ End(r)
    \/ /\ ~LockedNow(r)
       /\ LET w == [l EXCEPT !.written = @ \cup {l.step}]
          IN  \/ Becomes(r, [w EXCEPT !.phase = "observing", !.proposal = c])
              \/ Becomes(r, [Noted(w, c, TRUE) EXCEPT !.phase = "top", !.proposal = None])

-----------------------------------------------------------------------------
(* Chats, stops and answers                                                *)

\* abortAiChat: the run under way is told, and every open confirm is cancelled.
Abort ==
    /\ stopped' = [stopped EXCEPT ![active] = TRUE]
    /\ told' = [r \in Runs |-> IF \E q \in waiters : q[1] = r THEN "cancel" ELSE told[r]]
    /\ waiters' = {}

\* ai:chat
Begin(r, v) ==
    /\ run[r].phase = "idle"
    /\ \A x \in 1..(r - 1) : run[x].phase # "idle"
    /\ IF active = None THEN UNCHANGED <<stopped, told, waiters>> ELSE Abort
    /\ active' = r
    /\ run' = [run EXCEPT ![r] = Fresh("top", v)]
    /\ UNCHANGED <<last, repeats, locked, agreed>>

\* ai:abortChat
Stop ==
    /\ active # None
    /\ Abort
    /\ UNCHANGED <<run, active, last, repeats, locked, agreed>>

\* settleConfirm
Settle(q, outcome) ==
    /\ q \in waiters
    /\ waiters' = waiters \ {q}
    /\ told' = [told EXCEPT ![q[1]] = outcome]
    /\ UNCHANGED <<run, stopped, active, last, repeats, locked>>

\* ai:confirmStep; it does nothing when the request does not wait any more.
Approve(q) == Settle(q, "approve") /\ agreed' = agreed \cup {q}
Deny(q)    == Settle(q, "deny") /\ UNCHANGED agreed

\* Broken variant: the waiter goes and its promise is never settled.
ExpireQuietly(q) ==
    /\ q \in waiters
    /\ waiters' = waiters \ {q}
    /\ UNCHANGED <<run, stopped, told, active, last, repeats, locked, agreed>>

\* The ten minutes of a confirm are over.
Expire(q) == Settle(q, "deny") /\ UNCHANGED agreed

\* ai:protection:set
SetProtection(s) ==
    /\ locked' = [locked EXCEPT ![s] = ~@]
    /\ UNCHANGED <<run, stopped, told, active, waiters, last, repeats, agreed>>

-----------------------------------------------------------------------------
(* The loop of a run                                                       *)

memoryVars == <<last, repeats>>

\* Broken variant: one step more than the setting allows.
OutOfStepsLate(r) == run[r].step > MaxSteps

OutOfSteps(r) == run[r].step >= MaxSteps

\* The loop is left before the next step.
Finish(r) ==
    /\ run[r].phase = "top"
    /\ OutOfSteps(r) \/ stopped[r]
    /\ End(r)
    /\ UNCHANGED <<memoryVars, locked, told, waiters, agreed>>

\* The model is asked for the next step.
Plan(r) ==
    /\ run[r].phase = "top"
    /\ ~OutOfSteps(r) /\ ~stopped[r]
    /\ Becomes(r, [run[r] EXCEPT !.phase = "planning", !.step = @ + 1])
    /\ UNCHANGED <<memoryVars, locked, told, waiters, agreed>>

\* The request is aborted, times out, or its answer is no step.
PlannerFails(r) ==
    /\ run[r].phase = "planning"
    /\ End(r)
    /\ UNCHANGED <<memoryVars, locked, told, waiters, agreed>>

Again(r, p) ==
    IF last[TargetOf[r]] # p THEN 0
    ELSE IF repeats[TargetOf[r]] < RepeatCap THEN repeats[TargetOf[r]] + 1
    ELSE RepeatCap

\* The model answers p; an aborted request has no answer.
Answered(r, p) ==
    /\ run[r].phase = "planning"
    /\ ~stopped[r]
    /\ last' = [last EXCEPT ![TargetOf[r]] = p]
    /\ repeats' = [repeats EXCEPT ![TargetOf[r]] = Again(r, p)]
    /\ UNCHANGED <<locked, told, agreed>>

\* The command failed as often in a row as it may.
Spent(r, p) == p = run[r].failed /\ run[r].fails >= RetryCap

\* The answer is the end, or it is made the end.
Ends(r, p) == p = "end" \/ Again(r, p) >= RepeatCap \/ Spent(r, p)

\* An end without evidence makes the run read the terminal, once, and go on.
PlanEnds(r, p) ==
    /\ Answered(r, p)
    /\ Ends(r, p)
    /\ \/ End(r)
       \/ /\ run[r].setting.needsEvidence /\ ~run[r].gated /\ ~Spent(r, p)
          /\ Becomes(r, [run[r] EXCEPT !.phase = "top", !.gated = TRUE])
    /\ UNCHANGED waiters

\* A read-only tool runs at once; a tool that shows nothing new ends the run.
PlanTool(r) ==
    /\ Answered(r, "tool")
    /\ ~Ends(r, "tool")
    /\ End(r) \/ Becomes(r, [run[r] EXCEPT !.phase = "top"])
    /\ UNCHANGED waiters

PlanSkips(r, c) ==
    /\ Answered(r, c)
    /\ ~Ends(r, c) /\ Skipped(r, c)
    /\ Becomes(r, [run[r] EXCEPT !.phase = "top"])
    /\ UNCHANGED waiters

PlanWrites(r, c) ==
    /\ Answered(r, c)
    /\ ~Ends(r, c) /\ Unasked(r, c)
    /\ Write(r, c, run[r])
    /\ UNCHANGED waiters

\* waitForAiConfirm
PlanAsks(r, p) ==
    /\ Answered(r, p)
    /\ ~Ends(r, p)
    /\ p \in Commands => ~Unasked(r, p) /\ ~Skipped(r, p)
    /\ Becomes(r, [run[r] EXCEPT !.phase = "asking", !.proposal = p])
    /\ waiters' = waiters \cup {Request(r)}

\* Takes up the outcome of the confirm.
Resumes(r) ==
    /\ run[r].phase = "asking"
    /\ told[r] # None
    /\ told' = [told EXCEPT ![r] = None]
    /\ agreed' = agreed \ {Request(r)}
    /\ UNCHANGED <<memoryVars, locked, waiters>>

\* Only an approval that no stop followed goes on.
GoesOn(r) == told[r] = "approve" /\ ~stopped[r]

\* Cancelled, denied, or a tool that is not offered.
ResumeEnds(r) ==
    /\ Resumes(r)
    /\ ~GoesOn(r) \/ run[r].proposal = "riskyTool"
    /\ End(r)

\* A patch is a draft: nothing is written here.
ResumePatch(r) ==
    /\ Resumes(r)
    /\ GoesOn(r) /\ run[r].proposal = "patch"
    /\ Becomes(r, [run[r] EXCEPT !.phase = "top", !.proposal = None])

\* inFlight.note
Holding(r, c) ==
    IF KindOf[c] = "interactive" THEN [run[r] EXCEPT !.held = @ \cup {c}] ELSE run[r]

ResumeWrites(r, c) ==
    /\ Resumes(r)
    /\ GoesOn(r) /\ run[r].proposal = c
    /\ Write(r, c, Holding(r, c))

\* The output is read, the exit code known or not, or the wait was aborted.
Observed(r, c, fails) ==
    /\ run[r].phase = "observing"
    /\ run[r].proposal = c
    /\ Becomes(r, [Noted(run[r], c, fails) EXCEPT !.phase = "top", !.proposal = None])
    /\ UNCHANGED <<memoryVars, locked, told, waiters, agreed>>

-----------------------------------------------------------------------------
Planned(r) ==
    \/ PlannerFails(r)
    \/ \E p \in Proposals : PlanEnds(r, p)
    \/ PlanTool(r)
    \/ \E c \in Commands : PlanSkips(r, c) \/ PlanWrites(r, c)
    \/ \E p \in Commands \cup {"riskyTool", "patch"} : PlanAsks(r, p)

Step(r) ==
    \/ Finish(r) \/ Plan(r) \/ Planned(r)
    \/ ResumeEnds(r) \/ ResumePatch(r) \/ \E c \in Commands : ResumeWrites(r, c)
    \/ \E c \in Commands, fails \in BOOLEAN : Observed(r, c, fails)

User ==
    \/ \E r \in Runs, v \in Settings : Begin(r, v)
    \/ Stop
    \/ \E q \in waiters : Approve(q) \/ Deny(q)
    \/ \E s \in Sessions : SetProtection(s)

Timer == \E q \in waiters : Expire(q)

Next == User \/ Timer \/ \E r \in Runs : Step(r)

Spec == Init /\ [][Next]_vars

\* The request to the model and the wait for an exit code have timeouts, and a
\* confirm has its timer; the user need not do anything.
FairSpec == Spec /\ WF_vars(Timer) /\ \A r \in Runs : WF_vars(Step(r))

-----------------------------------------------------------------------------
(* What the user is promised                                               *)

\* The run that Stop would tell: one that was stopped may still be on its way out.
Live == IF active # None /\ ~stopped[active] THEN active ELSE None

\* The confirm of this step, while it is open, while its outcome waits to be taken
\* up, and what became of it.
Stage(r) ==
    IF waiters # {} THEN "asked"
    ELSE CASE told[r] = "approve" -> "granted"
           [] told[r] \in {"deny", "cancel"} -> "refused"
           [] OTHER -> IF run[r].step \in run[r].written THEN "written" ELSE "fresh"

\* The proposal of a run in this phase, if it is a command.
Command(r, phase) ==
    IF run[r].phase = phase /\ run[r].proposal \in Commands THEN run[r].proposal ELSE None

TalkOf(r) == [step |-> run[r].step, stage |-> Stage(r),
              asked |-> Command(r, "asking"), awaited |-> Command(r, "observing"),
              failing |-> run[r].failed, fails |-> run[r].fails]

Silence == [step |-> 0, stage |-> "fresh", asked |-> None, awaited |-> None,
            failing |-> None, fails |-> 0]

Begun   == {r \in Runs : run[r].phase # "idle"}
Terms   == IF Live = None THEN None ELSE run[Live].setting
Talking == IF Live = None THEN Silence ELSE TalkOf(Live)

Promise == INSTANCE ChatPromise
    WITH begun <- Begun, live <- Live, terms <- Terms, talk <- Talking

-----------------------------------------------------------------------------
(* Properties                                                              *)

\* Runs that overlap over one slot, one map of waiters and one session look to the
\* user like one chat at a time: it writes what was agreed to in this step or needs
\* no consent, and one that was stopped or replaced, or got a no, writes no more.  That
\* a command that failed needs no new consent either is a clause of its own (Rewrite).
KeepsPromise == Promise!Spec

\* Stop reaches whatever goes on: a run that is under way and was not stopped is
\* the one in activeAiChat, although the run it replaced ends after it began; and
\* a confirm waits only for that run, so that none survives a cancel or an abort.
StopReachesRun ==
    /\ \A r \in Runs :
          run[r].phase \notin {"idle", "ended"} /\ ~stopped[r] => active = r
    /\ \A q \in waiters :
          active = q[1] /\ ~stopped[q[1]] /\ run[q[1]].phase = "asking" /\ q = Request(q[1])

\* What the promise rests on besides: only a run under way holds the slot and can be
\* stopped, and a step at which it asks, or may ask, is one it has not written at.
TalkInv ==
    /\ active # None => run[active].phase \notin {"idle", "ended"}
    /\ \A r \in Runs :
          /\ run[r].phase = "idle" => ~stopped[r]
          /\ run[r].written \subseteq 1..run[r].step
          /\ run[r].phase \in {"planning", "asking"} => run[r].step \notin run[r].written

\* The command of a run that observes, or could not send it.
WroteNow(l) == IF l.phase = "observing" THEN l.proposal ELSE l.failed

\* A command is written only by the run that Stop would reach, never on a host that
\* is locked at that moment, whatever it was when the user agreed; on consent to
\* that very request, or by a policy that lets this kind of command run unasked, even
\* when it failed before (ai-interactive-agent.ts:1639); and not once more when it
\* failed twice in a row.
WrittenAsAgreed ==
    [][\A r \in Runs : \A n \in run'[r].written \ run[r].written :
          LET c == WroteNow(run'[r])
          IN  /\ active = r /\ ~stopped[r]
              /\ ~run[r].setting.locked /\ ~locked[TargetOf[r]]
              /\ \/ <<r, n>> \in agreed
                 \/ /\ run[r].setting.policy # None
                    /\ KindOf[c] \in {"read", "write", "high"}
                    /\ KindOf[c] # "read" => run[r].setting.policy = "auto"
                    /\ KindOf[c] = "high" => run[r].setting.autoHigh
              /\ run[r].failed = c => run[r].fails < RetryCap]_vars

\* A chat ends, whether or not anybody answers what it asks.
RunEnds == \A r \in Runs : run[r].phase # "idle" ~> run[r].phase = "ended"
=============================================================================

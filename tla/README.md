# A verification project for ai-ssh-pro

ai-ssh-pro is a desktop SSH client: a Rust backend on Tauri 2
(`src-tauri/src`), a React renderer (`src/renderer/src`) and pure TypeScript
policies they share (`src/shared`). An older Electron backend (`src/main`) is
superseded (`MIGRATION-TAURI.md`), yet the renderer still has code only it can
reach; of it the AI agent and the session events of its tabs are modelled.

This directory holds TLA+ models of the parts of the program where concurrency,
failure or order makes the code hard to test, the TLC runs that check them on small
instances, and TLAPS proofs of what matters most for all instances.
`PROJECT.json` lists every component, run, mapped definition, hazard and theorem.

## 1. The system

Every renderer command (`ssh_connect`, `ssh_disconnect`, `ssh_write`, `ai_chat`,
`ai_abort_chat`, …) is a tokio task of its own over managers in one `AppState`. A
task is interrupted at each `await`; between two awaits it runs through, and the
locks it takes and releases there are invisible to the others. Events go back to
the renderer in the order they are emitted, commands go to the backend in any order.

| component | state | operations | what is hard | what makes it correct |
|---|---|---|---|---|
| SSH sessions, container shells (`ssh.rs`) | `sessions`, the russh handle of each connection, IO tasks with their queues | connect, open_docker_exec, write, disconnect, loss of the connection | children share the parent's transport; disconnect holds the map while it awaits; the lookup and the insert of a child are far apart | children do not outlive the transport, only its owner closes it, disconnect returns, a session that ends says so |
| port forwards (`forward.rs`) | `forwards`, one task and one info record each, `CarryStore` | start L/R/D, remove, stop_session, carry and restore | four locks; R forwards ask the server; a reconnect restores some and not others | only the user's own forwards are carried; no lock is waited for twice |
| jump chains (`ssh.rs`, connect) | `jump_slots` | connect, resume at a hop, give up, park | each hop can fail in three places; tabs of the same target share a slot | a parked chain has no gap and one owner, each hop gets its own credentials |
| host keys (`ssh.rs`, `hostkey.rs`, `App.tsx`, `HostKeyConfirmModal.tsx`) | known hosts, waiting prompts, event stream, dialog and its queue | check, decide, time out, answer, edit the list | the answer races the timeout; several hosts ask at once; the dialog moves on under the user | accepted only on an answer to this request; no prompt is lost or left dead; every check ends |
| step agent and AI panel (`agent.rs`, `AIPanel.tsx`) | one abort flag, one map of confirm waiters, the panel and its copy in App | run, ask, answer, stop, hide and show the panel | runs overlap over shared state; stops and answers overtake each other | no command without the user's yes to it; a stopped run executes nothing and ends |
| tabs and automatic reconnect (`App.tsx`, `reconnect-policy.ts`) | tabs and their sessions, retry timers, halted set, captures of dialogs and pings | open, cancel, reconnect, disconnect, close, schedule, retry on network and wake-up | several triggers start attempts for the same tab, each continues after its connect, when the tab may be another's or gone | no timer without its entry, no entry that waits for nothing, halted means halted, no session left up unseen, no dead session shown as connected |
| batch connect (`batch-connect.ts`, `App.tsx`) | queue, slots, counters, the card of failures | connect many, settle, cancel the queue, retry, dismiss | the pump runs at each settlement; the toast speaks of hosts that are dropped later | at most the cap and no idle slot, each host once, a cancel drops what waits and nothing else, the batch ends |
| Electron's agent (`ai-interactive-agent.ts`) | the active chat, the confirm waiters, what a session remembers, protections | chat, stop, answer, lock a host; the loop of a run | a chat begins while the one it stops still ends; a host is locked between a yes and the write | every live run can be stopped, a command is written on consent or by policy, never on a locked host; a chat ends |
| probe pool (`ssh.rs`, `jump_probe.rs`) | `probe_held` | open, hold, promote, drop | remove, connect and insert are three steps | no connection that nobody holds |
| SFTP (`ssh.rs`, `SftpPanel.tsx`, `sftp-queue.ts`) | transfer queue, part files | queue, pause, retry, resume | offsets across retries and crashes | a resumed file equals the source |
| docker watches, batch execution (`lib.rs`) | watches, tasks of a batch | watch, unwatch, run on many | replace in two lock scopes | at most one watch per session |
| terminal ring, recording, blocks | ring of each session | append, cut, snapshot | byte and character boundaries | cuts at characters |
| store, sync, backup, import, inventory, memory, local shell | files | load, save, merge | crashes between writes | out of scope but for the known hosts |

How they interact: `connect` runs the jump chain, whose handshakes ask the host
key question, starts the forwards of the profile and spawns the IO task;
`disconnect` stops forwards, then children, then the transport; a reconnect is a
disconnect's carry, a connect that may resume parked hops, and a restore; the agent
executes its commands on a session.

## 2. Modules

| module | models | code |
|---|---|---|
| `SessionPromise` | what the holder of a session id is promised (abstract) | |
| `SshSessions` | sessions, children, transports, forwards, their four kinds of lock | `ssh.rs`, `forward.rs`, restore in `lib.rs` |
| `MCSshSessions` | directions of the forwards for TLC | |
| `SshSessionsProofs` | theorems about `SshSessions`, with the refinement | |
| `HopCustody` | who may hold, park, take and close the hops of a chain (abstract) | |
| `JumpChain` | `connect` through hops, and the slot | `ssh.rs` 585–1071 |
| `MCJumpChain` | symmetry of the attempts | |
| `JumpChainProofs` | theorems about `JumpChain`, with the refinement | |
| `QuestionPromise` | what the host key check promises the user (abstract) | |
| `HostKeyPrompt` | the check, its registry, the event stream, the dialog | `ssh.rs` 122–176, `hostkey.rs`, `App.tsx` 1672–1727 |
| `MCHostKeyPrompt` | two checks of one host | |
| `HostKeyPromptProofs` | theorems about `HostKeyPrompt`, with the refinement | |
| `ConsentPromise` | what the step agent promises the user (abstract) | |
| `AgentRun` | runs of the agent, `abort`, `resolve_confirm`, the panel | `agent.rs`, `AIPanel.tsx` 536–1397 |
| `AgentRunProofs` | theorems about `AgentRun`, with the refinement | |
| `SeriesPromise` | what the automatic reconnect promises the user of a tab (abstract) | |
| `ReconnectTabs` | terminal tabs, their attempts, timers, halts and sessions | `App.tsx` 1651–2365, 6540–6570, `reconnect-policy.ts`, `ssh-manager.ts` |
| `ReconnectTabsProofs` | theorems about `ReconnectTabs`, with the refinement | |
| `BatchPromise` | what a batch of connects promises (abstract) | the comment and interface of `batch-connect.ts` |
| `BatchConnect` | the pump that keeps the promise, and the card of failures | `batch-connect.ts`, `App.tsx` 5380–5500 |
| `BatchConnectProofs` | theorems about `BatchConnect`, with the refinement | |
| `ChatPromise` | what Electron's agent promises the user (abstract) | |
| `CoreAgent` | chats of Electron's agent | `ai-interactive-agent.ts`, `index.ts`, and the policies it calls |
| `MCCoreAgent` | two commands and three settings for TLC | |
| `CoreAgentProofs` | theorems about `CoreAgent`, with the refinement | |

Conventions. An action is the code from one await to the next; it is guarded by
the locks it takes being free, and a lock appears in the state only when it is held
across an await. Names follow the code. A variable commented *history* records what
a property speaks of and no guard reads it. An operator commented *Broken variant*
is used by no specification: it is the definition after it with a plausible
bug, and `PROJECT.json` says which property finds that bug.

Each component has an abstract module that says, without locks, queues, counters
or messages, what its user may rely on. The detailed module instantiates it under a
refinement mapping and states `KeepsPromise` (`KeepsCustody` for the hops): that each of
its steps is a step of the promise or none. These modules are written from the
interface as its callers see it; the mapping and the detailed module are what is
tied to the code. The promises are safety only.

### SshSessions
`sessions` is the map's keys; `client[o]` the transport of the connection that `o`
opened (`none`, `up`, `lost`, `closed`); `pc[s]` the progress of the call that opens
`s`; `task[s]`, `data[s]`, `closeSent` the IO task and its queue; `dis[s]` the
progress of `disconnect(s)`, which stops the forwards, takes the session and its
children out of the map and closes the transport while it holds the map. `fwd[f]`
is the one instance of a forward, `carry` what a session left behind, `restore`
the forwards a `forwards_restore` call still has to add. `stuck` are forwards with a task that
waits for an info mutex it already holds (`forward.rs:526`).

`SessionPromise` knows sessions, their shells and the lines they run on. To leave is one
step in it, while `disconnect` takes locks, awaits three times and works on with the
map in its hands: in the mapping the line of a session whose disconnect holds the map
is closed already, since nobody can look before it is. A shell that got its end of
file and has not said so is still running. `NoLockCycle` says what each lock is held
behind: a handle behind a request at that very server, the map behind the
handle of one session, the lock on all forwards only behind an info that was locked
twice. Except for the last, no cycle of waiting can arise.

### JumpChain
One slot key, since connects with other keys never meet. A handle is
`<<attempt, hop>>`; `via` says over which handle each one was opened, so that a chain
with a gap is visible. `held[a]` is `jump_handles`, `cur[a]` the handle in hand.
`slot` is `<<>>` when the entry is absent. Where an attempt fails decides what it parks.
`HopCustody` has only sets of handles: those a connect has (held, or in its hand), the
parked and the closed ones.

### HostKeyPrompt
A member of `Checks` is one check and its request id. `events` is the stream to
the renderer, `calls` the answers on their way back. `shown` and `queue` are the
renderer's refs, `rendered` what React has on the screen, which follows later.
Keys are model values; the fingerprint a dialog shows is the key.
The dialog moves on in three steps: the ref (`HandleExpired`, `Respond`), the render that
brings the next prompt up (`Render`), and the render in which the effect has cleared the
box (`ClearTick`); `verified` is the request the box was ticked at, `clearing` says that
the effect is under way. Buttons and box can be clicked between any two of them.
`Respond` answers the ref while the user looks at `rendered`: `chosen` is what the user
said to the prompt on the screen, `heard` what was sent for the request in the ref.
`QuestionPromise` knows a stage, a key and an answer per check, and the record of known
keys; whether a question still runs or has just run out is the same to the user. What was
given to a question is what the user said to that very prompt; an answer to a prompt that
has run out goes to the one that follows it, which is a step of its own (`Slip`) and not an
answer of the user to that one.

### AgentRun
A request is `<<run, step>>`. `Begin` clears the flag of all runs as the code
does. Events that ask nothing (status, progress, tool steps, the end) are `None`,
or left out when the panel ignores them. The panel hears every run's events.
`ConsentPromise` gives each request a stage, from `new` to `executed` or `over`; the mapping
reads it from where its run is and what it was answered.

### ReconnectTabs
`flights[t, how]` counts the awaited connects of a tab by what their continuation
does: the first open, an attempt of a series, a reconnect that starts the series over, and
one that leaves the retry state alone. `pending`, `attempt` and `timer` are the
entries of `autoRetryRef`: an entry outlives its timer while its attempt is under
way or the network is away. A tab's sessions are the `first`, the `later` one of
the last reconnect, and the `old` ones before it, which only the captures of a dialog
or of a ping still name; no code tells more sessions apart. `recording` are
the tabs whose open awaits the start of an automatic recording in the same `try`; when it
fails (`RecordingFails`), the catch marks the tab disconnected and its session is
`astray`: up, without a tab that shows it. React's state and the
ref that copies it at each render are one variable. The shell is Electron's, the one that
says whether an end was unexpected and that resumes after sleep.
`SeriesPromise` has the series of each tab, its count and the halts; one step may
concern many tabs. Its `going` are the entries, its `nth` the attempts counted in them.

### BatchPromise and BatchConnect
`BatchPromise` gives each host a fate and says what may become of it in one step.
`BatchConnect` has the list, the index into it and the counters of
`runBatchConnect`, and `Pump` is the whole of `pump`, run once per settlement. The
refinement maps a host to `queued` when it lies behind the index, to `running` when it
was handed out and has no result, and to its result otherwise; the promise's `stopped`
is the cancel flag. `KeepsPromise` is the refinement as a property.

### CoreAgent
A run is numbered as it begins; `run[r]` holds its local variables and `phase` the
await it is at. `Begin` is `ai:chat`, which aborts the chat under way and takes its
slot; the stopped run goes on to its end. An outcome is `told` by whoever settles the
confirm, and taken up by a later step of the run. `last` and `repeats` are what
the session remembers between runs (the repeat guard), counted up to `RepeatCap`.
The steps at which a write looks at the protection, sends, and awaits the output
are one action, since nothing in between is awaited. Left out: texts,
notes, memory, prompts and persistence; chats without a session; errors before the
loop; and branches that no state reaches (one request written twice, a write
refused after a stop, a second look at the retry gate).

`ChatPromise` has one chat that is live. In the mapping that is the active chat while
nobody stopped it: runs that were stopped are on their way out and the promise does
not see them, so that it also says that they write no more. A confirm is `asked` while
its waiter is in the map, and `granted` or `refused` from the answer until the run
takes it up. That a command that failed may be written once more without a new yes,
where its policy lets it be written unasked, is a clause of its own in the promise
(`Rewrite`): the code does it, and its comments want it otherwise (section 6).

## 3. Runs

| run | instance | shows |
|---|---|---|
| `sessions_parent` | 1 owner, 1 child, 1 L forward | an orphaned child has no transport; no cycle of locks; sessions refine their promise; disconnect returns; the shell of a child ends when its parent is gone |
| `sessions_pair` | 2 owners, 1 R forward, 1 queued write | handles are held behind requests at their own server; sessions refine their promise, with data and lost writes; only manual forwards are carried |
| `jump_race` | 3 attempts, 2 hops and the target | chains without gaps, custody of each hop (one owner, closed once, none lost), credentials of the hop itself, failures that can be resumed |
| `hostkey_dialog` | 2 checks of one host, 2 keys | the question refines its promise; no prompt lost or dead; a changed key is trusted on a tick for it, but for the moments at which the dialog moves on; checks end and the dialog moves on |
| `agent_overlap` | 2 runs of 2 steps | runs refine the promise about commands (approved, once, not after a stop); a stop ends the wait |
| `reconnect_tabs` | 1 tab, limits 0 and 2, 2 reconnects under way when another is asked for | timers and entries agree, no retry is stuck, an opened session is shown or down (or astray), a dead session has its event to come, the series refines its promise, a series ends |
| `batch_connect` | 4 hosts, 2 slots | the pump refines the promise, the toast and the card are true, a batch ends |
| `core_agent` | 2 chats of 2 steps on one session, a high-risk and an interactive command, three settings | every live run can be stopped, chats refine their promise, chats end |

Four runs end in a counterexample: the code does not do what a text of
the repository says.

| run | text | what happens |
|---|---|---|
| `sessions_orphan` | `MIGRATION-TAURI.md:76`: disconnecting the parent closes its children | a child that is being opened is inserted after the disconnect and stays in the map |
| `sessions_socks` | `README.md:47`: forwards can be stopped on a live session | the task of a finished SOCKS connection locks its info twice; the next disconnect never returns and holds the lock on all forwards |
| `hostkey_trust` | `host-key-info.ts:38`: a changed key can only be trusted after the user says they verified it | the box is cleared a render after the next prompt came up: a second click on the button trusts the next changed key with the tick of the one before |
| `agent_stop` | `AIPanel.tsx:1386`: stops the run from anywhere | a stop during the model's request leaves the run waiting for an answer without end |

Bounds. `MaxData` bounds the queue of a session: one write is enough for a close
behind data, none where no property looks at writes. Forwards: one instance
meets a session, its child and another session, and further ones share no state with it but the
lock on the map. Jumps: two hops and the target have a first, a middle and a last hop;
three attempts let one park, one resume and one interfere. Prompts: two fill the
dialog and its queue, two keys make a new, a changed and a known key. Agent: two runs share
the flag and the waiters, and two steps let an old answer meet a new request. Tabs:
tabs share nothing but the network, the policy and the dialog, so one is enough;
`MaxFlights` bounds how many reconnects of a tab are under way when the next begins, and
two already let one answer overtake another; limit 0 is the mode "off", 2 has
a first and a last attempt. Batches: four hosts over two slots fill the slots, queue
behind them and drop more than one. Chats: two, since a third begins only
as the second did; two steps let a yes meet the next request. The retry
budget needs four steps to bite (two failures, another step, the same command), which
only the proof reaches, for any number of steps;
`ask` stands for the legacy path, which asks the same of these commands.

Deadlock is checked in `batch_connect`, where a batch can always be begun, and in
`core_agent`, where a host can always be locked. It is off in the others: their
models end once each of their calls was made, as the program does when its user does
nothing more (a tab that was closed does not come back).

Fairness. A task that can run, runs (`WF`): tokio schedules every ready task.
Tokio mutexes are fair queues, hence `SF` for a task that waits for a lock others
take and release. Servers answer or the inactivity timeout ends the connection
(`ssh.rs:586`). The host key timer and the renderer's event loop run. The model's
server, the command and the calls of the panel come back, by timeouts if need be.
A connect of a batch settles, and so does an automatic attempt of a tab (`openSession`
and `reconnectTab` catch what fails, and the connect below them has a timeout); retry
timers fire. Nothing else of `ReconnectTabs` is fair: not events, pings or recordings. In `CoreAgent` the request to the model and the wait for an exit code
have timeouts and a confirm has its ten minutes.
Users owe nothing: no fairness is assumed of answers, stops, disconnects or edits.

## 4. Proofs

The proofs hold for every value of the constants that satisfies the named
assumptions. Nothing else is assumed.

Every invariant and every action property that a run checks is a theorem, and so is
each refinement. The proof of a refinement has the same shape everywhere: an
invariant that makes the mapping meaningful, one lemma per action (or group of
actions) that names the step of the promise it is, and a last step that joins them.

* `SshSessions` (`SessionsAssumption`: owners, children and forwards are disjoint):
  `TypeCorrect`; `SafetyInvariant`, that `OwnerInv`, `ExecInv` and `TaskInv` are
  inductive; from it `OrphansHaveNoTransport`, `OwnersCloseTransports` and
  `SilentEndsExplained`. `ExecInv` is what makes the first one provable: while a
  child is being opened its parent is in the map, or its transport is closed, or the
  disconnect that will close it still holds the map.
  `LockInvariant` and, from it, `NoLockCycles`: `HandleInv` says that a handle is held by
  exactly the child or forward whose request is at that server, `QueueInv` what the lock on
  all forwards is held behind, and `ForwardInv` where each forward stands, which the other
  two need because a forward of another direction asks nobody.
  `CarriedWereManual`: the carry is filled by the disconnect only, from forwards that
  were listening and not of a profile.
  `PromiseKept`: with `SeenInv`, which ties the map and the close to the progress of the
  calls (a session that is listed or was closed has been inserted, one that is being
  connected has a line, an owner past its insert is listed or its disconnect got to
  the client). Its hardest step is the disconnect, of which only the one that takes
  session and children out of the map is a step of the promise.
* `JumpChain` (`ChainAssumption`: 1 to 5 hops): `TypeCorrect`, `ChainsHaveNoGap`,
  `OneOwnerEach`, `CredentialsMatch` and the action property `FailuresCanResume`, in
  three layers that each rest on the ones before. `PlaceInv` says how many hops a
  connect holds at each of its awaits. With it, `FreshInv` says that a connect makes
  each handle once, ahead of all it made; every step then only moves handles
  between a connect, the slot and the closed ones (lemma `Moves`), which gives
  `OneOwner`. Chains stay unbroken since a handle that is new is in none of them.
  `CustodyKept`: every such move is one of `HopCustody`.
* `HostKeyPrompt` (`PromptAssumption`): `TypeCorrect`, `AcceptedOnRequestHolds`,
  `NoPromptLostHolds`, `NoDeadPromptHolds` and the action properties
  `TrustIsVerifiedHolds` and `RecordedOnAlwaysHolds`. The invariant says where a prompt is:
  `PlacesOK`, that a prompt is once in the event stream, before its own expiry, and once in
  the dialog or its queue; from that follows that what is dismissed is not left behind.
  `ScreenOK` relates the screen to the ref: a prompt that is still on the screen when the
  ref has moved on has run out unanswered, which is what `Slip` of the promise needs.
  `TickOK`: while no effect is under way, a tick is for the host and key on the screen.
  `PromiseKept` needs `AskedInv` as well: a question that runs is about a key the record did
  not vouch for, although the record may hold that key by now.
* `AgentRun` (`AgentAssumption`): `TypeCorrect`, `CommandsAreApproved` and the
  action property `StopsHold`, from the inductive `IInv`: a waiter is registered
  only for the request its run is at and while it has no answer; a yes, on its
  way or arrived, is one the user gave; and the flag is up as long as any stop holds.
  `PromiseKept` needs `UpInv` as well: what is in the event stream, on a screen or executed
  has come up before, so that a yes is never to a request that is still to come.
* `ReconnectTabs` (`ReconnectAssumption`, any number of tabs, limits and
  flights): `TypeCorrect`, the invariants `TimerHasEntry`, `NoStuckRetry`, `OpenedIsShown`
  and `DeadTabHasNews`, and the action property `StoppedStaysStopped`. `RetryInv` is
  about timers, entries and attempts, `SessionsOK` about sessions and captures:
  a capture that names the first session is of a tab that still has it, which is why a
  stale confirm or ping cannot tear down what the tab shows now.
  `OpenedIsShown` speaks of sessions that are not astray.
  `PromiseKept`, with `RestInv` (a tab without an entry counts zero, so that a new series
  begins at one); each scheduler, canceller and timer is a lemma about what it does to one tab.
* `BatchConnect` (`BatchAssumption`: finitely many hosts, any limit): `TypeCorrect`,
  `ToldIsDroppedHolds`, `CardIsCurrentHolds` and `PromiseKept`. A host is `queued` when it lies
  behind the index, `running` when it was handed out and has no result. The invariant
  relates the counters to the hosts: what is in flight is the number of hosts handed out
  without a result, and a free slot means that nobody waits.
* `CoreAgent` (`CoreAssumption`: up to 30 steps, any chats, sessions, commands and
  settings): `TypeCorrect`, `StopReachesRunHolds` and the action property
  `WrittenAsAgreedHolds`. The inductive invariant is `TypeOK`, `StopReachesRun` and
  `RunOK`: an outcome is told only to a run that still asks and whose waiter is gone,
  a yes that is told is one the user gave, and the failures in a row are within the
  budget.
  `PromiseKept` needs `TalkInv` as well (`TalkInvariance`): only a run under way holds the
  slot or can be stopped, and a step at which a run asks is one it has not written at.

Properties whose content a refinement took over are not run any more, but remain stated and
proved: `ClosedOnlyByOwner`, `SilentEndExplained`, `OneOwner`, `AcceptedOnRequest`,
`RecordedOnAlways`, `RanWithApproval`, `StopHolds`, `StoppedStaysStopped`,
`WrittenAsAgreed`.

Only model-checked: liveness (`DisconnectReturns`, `ChildShellEnds`, `CheckEnds`,
`DialogMovesOn`, `StopEndsWait`, `RetryEnds`, `BatchEnds`, `RunEnds`), whose proofs need
ENABLED and fairness, which are out of the prover's reach. The four counterexamples
are runs as well.

## 5. Not modelled

Text processing (blocks, prompts, diffs, imports), layout and wording; files that
are written whole; the one-shot AI calls; the Electron backend but for its agent
and session events. In the modelled parts: the contents of output and of commands,
terminal sizes, SFTP over a session, the router of R forwards, the age of a
carry, and local tabs. The components not yet modelled and the reason for each
are in `PROJECT.json`.

The mapped lines are a small share of the repository. Most of it is the
renderer's views, translations, a change log and scripts, and the policies of
`src/shared` that format or classify text: without state that outlives a call, and
without an order of events that could go wrong.

## 6. Known differences that no property states

Each of these was met while translating the code. The models contain the behaviour
unless it says otherwise; no text of the repository promises the contrary, or the
property that could state it would restate one line.

Tabs (`App.tsx`):

* `reconnectTab` (2307) gives its session to a tab that may be gone or that another
  attempt has connected; then the session stays up and no tab shows it.
  `openSession` looks (1858), hence `OpenedIsShown` speaks of the first session only.
* `openSession` awaits `startRecording` in the `try` of the connect (1878-1885). When that
  is rejected, the catch (1900-1926) marks the tab disconnected and reports a failed
  connect, while the session is up; closing the tab does not disconnect it (2524-2526),
  and a reconnect opens another. `OpenedIsShown` excepts these (`astray`).
* A ping that failed after a resume (2174) marks the tab disconnected, whatever session
  it holds by then, and schedules an attempt.
* Disconnect (6556) halts the tab and leaves its entry and timer: a timer that was
  running still reconnects it, hence `SeriesPromise` lets a series that is under way be
  halted without its end (`Halts`), and `StoppedStaysStopped` is about tabs that are halted
  without an entry.
* A plain reconnect leaves the tab in the halted set: its next loss is not retried.
* The banner shows one retry (`autoRetry`) although each tab may have one (not modelled).
* The Tauri backend sends neither `unexpected` nor a resume event: with it a series
  never begins by itself (`ReconnectTabs` has the other shell's events).

Electron's agent (`ai-interactive-agent.ts`):

* The gate before a failed command is written again (1639) gets `approved: true`
  and a request id that is new at each step, so that under the policy `auto` a
  failed command is written again without a new approval, though the comment at
  `core-a-command-failure.ts:111` asks for one, and the one at line 4 calls a retry a
  new confirm. `ChatPromise` allows it by the clause `Rewrite`; without the clause
  `KeepsPromise` would not hold. The budget of failures in a row does hold and is part
  of the promise and of `WrittenAsAgreed`.
* `releaseCancelledProposal` (413) drops every earlier command of the same text
  from the memory, though its comment lets earlier approved steps stay (not modelled).
* A run that is replaced while it asks may leave its note after the new run began,
  and events carry no run, so that a listener cannot tell them apart (not modelled).
* Under `suggest` an interactive command is still asked.

Jump chains (`ssh.rs:967`): when the channel to hop k > 2 fails, `connect` parks the
handles without the hop it stands on: k-2, where the resume at hop k needs k-1 (629-630).
The retry drops them and starts at the first hop again, with its host key checks, although
`reconnect-policy.ts:140` says that earlier hops are up and need no new confirmation.
The model does so too (`OpenFails`); `FailureCanResume` speaks of handshakes and
authentications that fail.

Host keys (`App.tsx`): between an expiry and its render (1703-1708) a click answers the
prompt that the ref has moved on to (1716), which the user has not seen; under a tick that
was given for another key, this may trust it. `KeepsPromise` has these answers as
`Slip` and `TrustIsVerified` excepts this moment; `hostkey_trust` shows the like for the
moment before the box is cleared.

Step agent: a step that asks while the panel is not on the screen is heard by
nobody. Forwards: one that binds after its session was disconnected stays registered.

## 7. Plan

Done: `SshSessions`, `JumpChain`, `HostKeyPrompt`, `AgentRun`, `ReconnectTabs`,
`BatchConnect` and `CoreAgent`, each with its abstract specification, their runs and
the proofs of section 4. Next:

1. `CarryStore` and `RemoteForwardRouter` (`forward.rs` 50–151): age, eviction, a
   port shared by two sessions, against a reference map.
2. `SshSessions` with `ReconnectTabs`, with `SessionPromise` between them: the tabs on
   top of what the session manager promises instead of sessions of their own.
3. `TransferQueue`: the queue and the part file of a resumed transfer.
4. `ProbePool` and `DockerWatch`: replace in several steps.
5. The remote text editor (a load that depends on the locale, a stale baseline) and
   the merge of `cloud-sync.ts`.
6. The cut of the output ring as an operator against a reference definition.

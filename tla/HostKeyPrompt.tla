--------------------------- MODULE HostKeyPrompt ---------------------------
(***************************************************************************)
(* The host key question: ClientHandler::check_server_key (ssh.rs) asks    *)
(* KnownHostsStore (known_hosts.rs), registers a waiter (hostkey.rs) and   *)
(* emits a prompt; the renderer (App.tsx, batch-connect.ts) keeps one      *)
(* dialog and a queue (HostKeyConfirmModal.tsx) and answers by request id; *)
(* two minutes without an answer reject the key.  One request per          *)
(* handshake: a member of Checks is the check and its request id.          *)
(*                                                                         *)
(* Events reach the renderer in the order they were emitted.  Commands of  *)
(* the renderer are calls of their own and may be overtaken.  React shows  *)
(* what an event handler stored only when it renders next (Render), while  *)
(* a click is answered for what is stored; after a click it renders at     *)
(* once.  The box of the dialog is cleared by an effect of that render, in *)
(* a render of its own (ClearTick): until then the new prompt has the tick *)
(* of the one before.                                                      *)
(***************************************************************************)
EXTENDS Integers, Sequences, FiniteSets

CONSTANTS
    Checks,   \* calls of check_server_key that do not find the key trusted yet
    HostOf,   \* host:port of each check
    Keys,     \* server keys
    None

Hosts == {HostOf[c] : c \in Checks}

Answers == {"no", "once", "always"}

ASSUME PromptAssumption ==
    /\ DOMAIN HostOf = Checks
    /\ None \notin Checks \cup Keys \cup Answers

VARIABLES
    known,      \* KnownHostsStore.entries
    check,      \* progress of each check
    key,        \* key that the server presented
    reason,     \* reason of the prompt
    waiters,    \* HostKeyWaiters.inner
    answer,     \* what is in the oneshot channel of each check
    events,     \* emitted and not handled by the renderer
    calls,      \* ssh_respond_host_key calls on their way
    shown,      \* hostKeyShownRef
    queue,      \* hostKeyQueueRef
    rendered,   \* hostKeyPrompt: the prompt on the screen
    verified,   \* the box "verified by other means": the request it was ticked at
    clearing,   \* the effect that clears the box has not been rendered yet
    chosen,     \* history: the user's answer to the prompt on the screen
    heard       \* history: the answer that the renderer sent for a request

storeVars  == <<known, check, key, reason, waiters, answer>>
boxVars    == <<verified, clearing>>
dialogVars == <<shown, queue, rendered, boxVars>>
userVars   == <<chosen, heard>>
vars == <<storeVars, events, calls, dialogVars, userVars>>

Event == {"prompt", "expired"} \X Checks

TypeOK ==
    /\ known \in [Hosts -> Keys \cup {None}]
    /\ check \in [Checks -> {"idle", "asking", "expiring", "accepted", "rejected"}]
    /\ key \in [Checks -> Keys \cup {None}]
    /\ reason \in [Checks -> {"trusted", "unknown", "changed"}]
    /\ waiters \subseteq Checks
    /\ answer \in [Checks -> Answers \cup {None}]
    /\ events \in Seq(Event)
    /\ calls \subseteq Checks \X Answers
    /\ shown \in Checks \cup {None}
    /\ queue \in Seq(Checks)
    /\ rendered \in Checks \cup {None}
    /\ verified \in Checks \cup {None}
    /\ clearing \in BOOLEAN
    /\ chosen \in [Checks -> Answers \cup {None}]
    /\ heard \in [Checks -> Answers \cup {None}]

Init ==
    /\ known \in [Hosts -> Keys \cup {None}]
    /\ check = [c \in Checks |-> "idle"]
    /\ key = [c \in Checks |-> None]
    /\ reason = [c \in Checks |-> "trusted"]
    /\ waiters = {}
    /\ answer = [c \in Checks |-> None]
    /\ events = <<>>
    /\ calls = {}
    /\ shown = None
    /\ queue = <<>>
    /\ rendered = None
    /\ verified = None
    /\ clearing = FALSE
    /\ chosen = [c \in Checks |-> None]
    /\ heard = [c \in Checks |-> None]

-----------------------------------------------------------------------------
(* check_server_key                                                        *)

\* KnownHostsStore.check: the recorded key goes through without a question.
CheckTrusted(c, k) ==
    /\ check[c] = "idle"
    /\ known[HostOf[c]] = k
    /\ key' = [key EXCEPT ![c] = k]
    /\ check' = [check EXCEPT ![c] = "accepted"]
    /\ UNCHANGED <<known, reason, waiters, answer, events, calls, dialogVars,
                   userVars>>

CheckAsks(c, k) ==
    /\ check[c] = "idle"
    /\ known[HostOf[c]] # k
    /\ key' = [key EXCEPT ![c] = k]
    /\ check' = [check EXCEPT ![c] = "asking"]
    /\ reason' = [reason EXCEPT ![c] = IF known[HostOf[c]] = None THEN "unknown"
                                                                  ELSE "changed"]
    /\ waiters' = waiters \cup {c}
    /\ events' = Append(events, <<"prompt", c>>)
    /\ UNCHANGED <<known, answer, calls, dialogVars, userVars>>

\* Broken variant: whoever answers is taken to have agreed.
AcceptsAnything(a) == a \in Answers

\* decision.accept
Accepts(a) == a \in {"once", "always"}

\* Broken variant: whoever is let in is recorded.
DecideRecordsOnce(c) ==
    /\ check[c] = "asking"
    /\ answer[c] # None
    /\ check' = [check EXCEPT ![c] = IF Accepts(answer[c]) THEN "accepted" ELSE "rejected"]
    /\ known' = IF Accepts(answer[c]) THEN [known EXCEPT ![HostOf[c]] = key[c]] ELSE known
    /\ UNCHANGED <<key, reason, waiters, answer, events, calls, dialogVars,
                   userVars>>

\* The decision is taken up; an "always" records the key whatever the store
\* holds by now.
Decide(c) ==
    /\ check[c] = "asking"
    /\ answer[c] # None
    /\ check' = [check EXCEPT ![c] = IF Accepts(answer[c]) THEN "accepted" ELSE "rejected"]
    /\ known' = IF answer[c] = "always" THEN [known EXCEPT ![HostOf[c]] = key[c]] ELSE known
    /\ UNCHANGED <<key, reason, waiters, answer, events, calls, dialogVars,
                   userVars>>

\* Broken variant: only the question about a changed key has a timer.
TimeoutFiresOnChange(c) ==
    /\ check[c] = "asking"
    /\ answer[c] = None
    /\ reason[c] = "changed"
    /\ check' = [check EXCEPT ![c] = "expiring"]
    /\ UNCHANGED <<known, key, reason, waiters, answer, events, calls, dialogVars,
                   userVars>>

\* The timer fires while no answer is there; a moment later the waiter goes.
TimeoutFires(c) ==
    /\ check[c] = "asking"
    /\ answer[c] = None
    /\ check' = [check EXCEPT ![c] = "expiring"]
    /\ UNCHANGED <<known, key, reason, waiters, answer, events, calls, dialogVars,
                   userVars>>

\* Broken variant: the renderer is not told.
ExpireQuietly(c) ==
    /\ check[c] = "expiring"
    /\ check' = [check EXCEPT ![c] = "rejected"]
    /\ waiters' = waiters \ {c}
    /\ UNCHANGED <<known, key, reason, answer, events, calls, dialogVars,
                   userVars>>

Expire(c) ==
    /\ check[c] = "expiring"
    /\ check' = [check EXCEPT ![c] = "rejected"]
    /\ waiters' = waiters \ {c}
    /\ events' = Append(events, <<"expired", c>>)
    /\ UNCHANGED <<known, key, reason, answer, calls, dialogVars, userVars>>

\* ssh_respond_host_key: false, and nothing happens, when no waiter is left.
Resolve(c, a) ==
    /\ <<c, a>> \in calls
    /\ calls' = calls \ {<<c, a>>}
    /\ IF c \in waiters
       THEN waiters' = waiters \ {c} /\ answer' = [answer EXCEPT ![c] = a]
       ELSE UNCHANGED <<waiters, answer>>
    /\ UNCHANGED <<known, check, key, reason, events, dialogVars, userVars>>

\* known_hosts_remove and known_hosts_apply_import, while handshakes go on.
EditKnownHosts(h, k) ==
    /\ known[h] # k
    /\ known' = [known EXCEPT ![h] = k]
    /\ UNCHANGED <<check, key, reason, waiters, answer, events, calls, dialogVars,
                   userVars>>

-----------------------------------------------------------------------------
(* The renderer                                                            *)

\* advanceHostKey
Advance ==
    /\ shown' = IF queue = <<>> THEN None ELSE Head(queue)
    /\ queue' = IF queue = <<>> THEN queue ELSE Tail(queue)

\* Broken variant: the box is cleared for another host only.
ChangesHost(p) ==
    p # rendered /\ ({p, rendered} \subseteq Checks => HostOf[p] # HostOf[rendered])

\* The effect that clears the box runs after a render of another host or key.
Changes(p) ==
    /\ p # rendered
    /\ {p, rendered} \subseteq Checks =>
           HostOf[p] # HostOf[rendered] \/ key[p] # key[rendered]

\* Broken variant: the newest prompt takes the dialog.
HandlePromptOver(c) ==
    /\ events # <<>> /\ Head(events) = <<"prompt", c>>
    /\ events' = Tail(events)
    /\ shown' = c
    /\ UNCHANGED <<storeVars, calls, queue, rendered, boxVars, userVars>>

\* Broken variant: the event itself is queued, not the prompt it carries.
HandlePromptQueuesEvent(c) ==
    /\ events # <<>> /\ Head(events) = <<"prompt", c>>
    /\ events' = Tail(events)
    /\ IF shown = None
       THEN shown' = c /\ UNCHANGED queue
       ELSE queue' = Append(queue, Head(events)) /\ UNCHANGED shown
    /\ UNCHANGED <<storeVars, calls, rendered, boxVars, userVars>>

\* enqueueHostKey
HandlePrompt(c) ==
    /\ events # <<>> /\ Head(events) = <<"prompt", c>>
    /\ events' = Tail(events)
    /\ IF shown = None
       THEN shown' = c /\ UNCHANGED queue
       ELSE queue' = Append(queue, c) /\ UNCHANGED shown
    /\ UNCHANGED <<storeVars, calls, rendered, boxVars, userVars>>

\* The filter of the queue, in which a request is at most once.
Without(q, c) ==
    IF \A i \in DOMAIN q : q[i] # c THEN q
    ELSE LET i == CHOOSE j \in DOMAIN q : q[j] = c
         IN  SubSeq(q, 1, i - 1) \o SubSeq(q, i + 1, Len(q))

\* Broken variant: only the prompt on the screen is taken back.
HandleExpiredShownOnly(c) ==
    /\ events # <<>> /\ Head(events) = <<"expired", c>>
    /\ events' = Tail(events)
    /\ IF shown = c THEN Advance ELSE UNCHANGED <<shown, queue>>
    /\ UNCHANGED <<storeVars, calls, rendered, boxVars, userVars>>

\* The dialog of an expired request is closed, or it leaves the queue.
HandleExpired(c) ==
    /\ events # <<>> /\ Head(events) = <<"expired", c>>
    /\ events' = Tail(events)
    /\ IF shown = c THEN Advance
       ELSE queue' = Without(queue, c) /\ UNCHANGED shown
    /\ UNCHANGED <<storeVars, calls, rendered, boxVars, userVars>>

\* An effect that ran before this render has its setVerified(false) in it.
Render ==
    /\ rendered # shown
    /\ rendered' = shown
    /\ verified' = IF clearing THEN None ELSE verified
    /\ clearing' = Changes(shown)
    /\ UNCHANGED <<storeVars, events, calls, shown, queue, userVars>>

\* The effect and the render that it asks for.
ClearTick ==
    /\ clearing
    /\ verified' = None
    /\ clearing' = FALSE
    /\ UNCHANGED <<storeVars, events, calls, shown, queue, rendered, userVars>>

\* A click on the box.  It wins over an effect that ran before it, and loses to one
\* that did not.
ToggleVerified ==
    /\ rendered # None
    /\ reason[rendered] = "changed"
    /\ verified' = IF verified = None THEN rendered ELSE None
    /\ clearing' \in {clearing, FALSE}
    /\ UNCHANGED <<storeVars, events, calls, shown, queue, rendered, userVars>>

\* canTrust, for the prompt on the screen.
CanTrust == reason[rendered] = "unknown" \/ verified # None

\* Broken variant: the request to answer is read after the queue advanced.
AnsweredAfterAdvance == shown'

\* hostKeyShownRef.current, read first
Answered == shown

\* A button of the dialog: whatever prompt is on the screen, the answer goes to the
\* request that is current.
Respond(a) ==
    /\ rendered # None
    /\ a # "no" => CanTrust
    /\ shown # None
    /\ Advance
    /\ rendered' = shown'
    /\ clearing' = (clearing \/ Changes(shown'))
    /\ calls' = IF Answered = None THEN calls ELSE calls \cup {<<Answered, a>>}
    /\ chosen' = [chosen EXCEPT ![rendered] = a]
    /\ heard' = [heard EXCEPT ![shown] = a]
    /\ UNCHANGED <<storeVars, events, verified>>

-----------------------------------------------------------------------------
Backend(c) ==
    \/ Decide(c) \/ TimeoutFires(c) \/ Expire(c)
    \/ \E a \in Answers : Resolve(c, a)

Renderer == Render \/ ClearTick \/ \E c \in Checks : HandlePrompt(c) \/ HandleExpired(c)

Next ==
    \/ \E c \in Checks : Backend(c) \/ \E k \in Keys : CheckTrusted(c, k) \/ CheckAsks(c, k)
    \/ Renderer \/ ToggleVerified
    \/ \E a \in Answers : Respond(a)
    \/ \E h \in Hosts, k \in Keys \cup {None} : EditKnownHosts(h, k)

Spec == Init /\ [][Next]_vars

\* The timer and the event loop run; the user need not answer anything.
FairSpec == Spec /\ WF_vars(Renderer) /\ \A c \in Checks : WF_vars(Backend(c))

-----------------------------------------------------------------------------
(* What the user is promised                                               *)

\* The user does not see whether a question runs or has just run out.
Stage(c) ==
    CASE check[c] = "idle" -> "new"
      [] check[c] \in {"asking", "expiring"} -> "asked"
      [] check[c] = "accepted" -> IF reason[c] = "trusted" THEN "vouched" ELSE "accepted"
      [] check[c] = "rejected" -> "refused"

Promise == INSTANCE QuestionPromise
    WITH stage <- [c \in Checks |-> Stage(c)], given <- chosen

-----------------------------------------------------------------------------
(* Properties                                                              *)

\* Through the queue, the dialog, late answers and timers, the user is asked as
\* promised: no server gets in, and no key is recorded, but on the one answer to that
\* very request, which the user gave to its prompt, or to one that had just run out
\* and was still on the screen.
KeepsPromise == Promise!Spec

\* A key the store did not hold is accepted only on an answer that was sent for this
\* very request while it was the current one, and in time: neither a late answer
\* nor the answer to another request lets a server in.
AcceptedOnRequest ==
    \A c \in Checks :
        check[c] = "accepted" =>
            reason[c] = "trusted" \/ heard[c] \in {"once", "always"}

\* A request that waits for an answer is never lost on its way to the user: it
\* is in an event, in the dialog or its queue, or its answer is on the way.
NoPromptLost ==
    \A c \in waiters :
        \/ \E i \in 1..Len(events) : events[i][2] = c
        \/ shown = c
        \/ \E i \in 1..Len(queue) : queue[i] = c
        \/ \E a \in Answers : <<c, a>> \in calls

\* A prompt that can no longer be answered is taken back (it used to stay, with
\* dead buttons): when no event is left, all prompts of the dialog are waited on.
NoDeadPrompt ==
    events = <<>> =>
        \A c \in Checks :
            shown = c \/ (\E i \in 1..Len(queue) : queue[i] = c) =>
                check[c] \in {"asking", "expiring"} /\ answer[c] = None

\* The box is ticked, and it was for the host and key of this request.
TickedFor(c) ==
    verified \in Checks /\ HostOf[verified] = HostOf[c] /\ key[verified] = key[c]

\* The answer sent in this step says yes to the changed key of c.
Trusts(c) ==
    heard'[c] # heard[c] /\ heard'[c] \in {"once", "always"} /\ reason[c] = "changed"

\* A changed key is trusted only with a tick that was given for that very host and
\* key, however prompts of several of them take turns in the dialog; but for the two
\* moments at which the dialog moves on under the user's hand: before it is rendered,
\* and before its box is cleared.
TrustIsVerified ==
    [][\A c \in Checks : Trusts(c) => TickedFor(c) \/ rendered # c \/ clearing]_vars

\* The comment of canTrust: a changed key can only be trusted after the user says they
\* verified it out of band.  The code does not keep it in those two moments.
ChangedKeysAreVerified ==
    [][\A c \in Checks : Trusts(c) => TickedFor(c)]_vars

\* The key recorded for a host changes, other than by the user's own editing of
\* the list, only to the key of a request for which "always" was sent.
RecordedOnAlways ==
    [][\A c \in Checks :
          check[c] # check'[c] =>
              \/ known' = known
              \/ /\ heard[c] = "always"
                 /\ known' = [known EXCEPT ![HostOf[c]] = key[c]]]_vars

\* No handshake waits for ever on a question nobody answers.
CheckEnds ==
    \A c \in Checks : check[c] = "asking" ~> check[c] \in {"accepted", "rejected"}

\* No prompt stays on the screen for ever, whoever is away.
DialogMovesOn ==
    \A c \in Checks : rendered = c ~> rendered # c
=============================================================================

--------------------------- MODULE ReconnectTabs ---------------------------
(***************************************************************************)
(* Terminal tabs and their automatic reconnect (App.tsx,                   *)
(* reconnect-policy.ts).  The renderer is one thread, but every connect    *)
(* is awaited: a tab may be cancelled, closed, stopped, dropped or         *)
(* reconnected by another button before the answer is there, and a timer,  *)
(* the network coming back and the machine waking up each start attempts   *)
(* of their own.  The shell is Electron's (ssh-manager.ts), which sends    *)
(* the answer to a connect before the `closed' event of that session and   *)
(* says whether the end was unexpected.                                    *)
(*                                                                         *)
(* A step is what runs between two awaits.  React's state and the ref that *)
(* copies it at each render are one variable.  The sessions of a tab are   *)
(* told apart as far as anything can: the first, which openSession brought *)
(* up, the later one that the last reconnect brought up, and the old ones  *)
(* before it, which only a stale capture still names.                      *)
(***************************************************************************)
EXTENDS Integers, FiniteSets

CONSTANTS
    Tabs,
    Limits,      \* attempt limits of the policies; 0 is that of the mode "off"
    MaxFlights,  \* bound: reconnects of a tab under way when another is asked for
    None

ASSUME ReconnectAssumption ==
    /\ None \notin [what : {"disconnect", "close"}, tab : Tabs, sid : {"first", "later", "old"}]
    /\ Limits \subseteq Nat
    /\ MaxFlights \in Nat

VARIABLES
    status,     \* Tab.status; "none" before the tab, "closed" when it is gone
    sid,        \* Tab.sessionId: "none", "first" or "later"
    cancelled,  \* cancelledConnectingTabsRef
    flights,    \* awaited connects of each tab, by what follows them
    pending,    \* keys of autoRetryRef
    attempt,    \* the attempt of the entry, 0 without one
    timer,      \* tabs whose setTimeout has neither fired nor been cleared
    halted,     \* haltedRef
    limit,      \* maxAttemptsFor(policy), 0 when the mode is off
    online,     \* navigator.onLine
    sess,       \* the shell's sessions: "dropped" and "ended" have their event to come,
                \* "astray" is up, but its tab was told that opening it failed
    asked,      \* the confirm dialog: what it asks and the tab and session it captured
    pinged,     \* tabs and their sessions as the check after a resume captured them
    recording   \* tabs whose openSession awaits the start of an automatic recording

tabVars   == <<status, sid, cancelled>>
retryVars == <<pending, attempt, timer>>
vars == <<tabVars, flights, retryVars, halted, limit, online, sess, asked, pinged,
          recording>>

Hows       == {"open", "auto", "manual", "plain"}
Reconnects == Hows \ {"open"}
Known      == {"first", "later"}
Captured   == Known \cup {"old"}
Question   == [what : {"disconnect", "close"}, tab : Tabs, sid : Captured]

TypeOK ==
    /\ status \in [Tabs -> {"none", "connecting", "connected", "disconnected", "closed"}]
    /\ sid \in [Tabs -> Known \cup {"none"}]
    /\ cancelled \subseteq Tabs
    /\ flights \in [Tabs \X Hows -> Nat]
    /\ pending \subseteq Tabs
    /\ attempt \in [Tabs -> Nat]
    /\ timer \subseteq Tabs
    /\ halted \subseteq Tabs
    /\ limit \in Limits
    /\ online \in BOOLEAN
    /\ sess \in [Tabs \X Known -> {"down", "up", "astray", "dropped", "ended"}]
    /\ asked \in Question \cup {None}
    /\ pinged \subseteq Tabs \X Captured
    /\ recording \subseteq Tabs

Init ==
    /\ status = [t \in Tabs |-> "none"]
    /\ sid = [t \in Tabs |-> "none"]
    /\ cancelled = {}
    /\ flights = [f \in Tabs \X Hows |-> 0]
    /\ pending = {}
    /\ attempt = [t \in Tabs |-> 0]
    /\ timer = {}
    /\ halted = {}
    /\ limit \in Limits
    /\ online = TRUE
    /\ sess = [x \in Tabs \X Known |-> "down"]
    /\ asked = None
    /\ pinged = {}
    /\ recording = {}

-----------------------------------------------------------------------------
(* Sessions and attempts                                                   *)

\* The session is up in the shell.
Runs(x) == sess[x] \in {"up", "astray"}

\* ssh.disconnect of the sessions X: nothing to tear down unless one runs.
Disconnected(X) ==
    [x \in Tabs \X Known |-> IF x \in X /\ Runs(x) THEN "down" ELSE sess[x]]

\* What was captured of t is no longer its later session.
Aged(t, captured) == IF captured = <<t, "later">> THEN <<t, "old">> ELSE captured

Started(S, how) ==
    [f \in Tabs \X Hows |-> IF f[1] \in S /\ f[2] = how THEN flights[f] + 1 ELSE flights[f]]

Landed(t, how) == [flights EXCEPT ![<<t, how>>] = @ - 1]

InFlight(t) == flights[<<t, "auto">>] + flights[<<t, "manual">>] + flights[<<t, "plain">>]

\* Broken variant: the entry goes, its timer runs on.
ForgetEntryOnly(t) ==
    /\ pending' = pending \ {t}
    /\ attempt' = [attempt EXCEPT ![t] = 0]
    /\ UNCHANGED timer

\* The entry of autoRetryRef goes, its timer cleared.
Forget(t) ==
    /\ pending' = pending \ {t}
    /\ attempt' = [attempt EXCEPT ![t] = 0]
    /\ timer' = timer \ {t}

CancelAutoReconnect(t) == Forget(t) /\ halted' = halted \ {t}

\* Broken variant: a halted tab is scheduled like any other.
AgainHaltedToo(S) == {t \in S : attempt[t] + 1 <= limit}

\* delayForAttempt has a delay for the next attempt of these ...
Again(S) == {t \in S \ halted : attempt[t] + 1 <= limit}

\* ... and none for these: the mode is off or the series is over.
Exhausted(S) == {t \in S \ halted : attempt[t] + 1 > limit}

\* scheduleAutoReconnect for the tabs of S, when the timers of C were cleared.
Schedule(S, C) ==
    /\ pending' = (pending \cup Again(S)) \ Exhausted(S)
    /\ attempt' = [t \in Tabs |-> IF t \in Again(S) THEN attempt[t] + 1
                                  ELSE IF t \in Exhausted(S) THEN 0 ELSE attempt[t]]
    /\ timer' = (timer \ (C \cup Exhausted(S))) \cup Again(S)

\* Broken variant: the pending tabs are left to their timers.
RetryByTimer == UNCHANGED <<flights, retryVars>>

\* retryPendingNow: tabs that are not disconnected get null and are scheduled.
RetryPendingNow ==
    LET ids  == pending \ halted
        idle == {t \in ids : status[t] # "disconnected"}
    IN  /\ flights' = Started(ids \ idle, "auto")
        /\ Schedule(idle, ids)

-----------------------------------------------------------------------------
(* Opening a session                                                       *)

OpenSession(t) ==
    /\ status[t] = "none"
    /\ status' = [status EXCEPT ![t] = "connecting"]
    /\ flights' = Started({t}, "open")
    /\ UNCHANGED <<sid, cancelled, retryVars, halted, limit, online, sess, asked, pinged,
                   recording>>

\* Broken variant: only a tab that is gone counts.
TooLateIfClosed(t) == status[t] = "closed"

\* The attempt was cancelled or its tab is gone.
TooLate(t) == t \in cancelled \/ status[t] = "closed"

\* A session that comes too late is disconnected.  One that is taken may first have
\* its recording started, in the same try.
OpenAnswers(t) ==
    /\ flights[<<t, "open">>] > 0
    /\ flights' = Landed(t, "open")
    /\ cancelled' = cancelled \ {t}
    /\ IF TooLate(t)
       THEN UNCHANGED <<status, sid, sess, recording>>
       ELSE /\ status' = [status EXCEPT ![t] = "connected"]
            /\ sid' = [sid EXCEPT ![t] = "first"]
            /\ sess' = [sess EXCEPT ![<<t, "first">>] = "up"]
            /\ recording' \in {recording, recording \cup {t}}
    /\ UNCHANGED <<retryVars, halted, limit, online, asked, pinged>>

\* The catch: the tab shows the failure unless the user cancelled.
CaughtIn(t) ==
    /\ cancelled' = cancelled \ {t}
    /\ status' = IF TooLate(t) THEN status
                 ELSE [status EXCEPT ![t] = "disconnected"]

OpenFails(t) ==
    /\ flights[<<t, "open">>] > 0
    /\ flights' = Landed(t, "open")
    /\ CaughtIn(t)
    /\ UNCHANGED <<sid, retryVars, halted, limit, online, sess, asked, pinged,
                   recording>>

RecordingStarts(t) ==
    /\ t \in recording
    /\ recording' = recording \ {t}
    /\ UNCHANGED <<tabVars, flights, retryVars, halted, limit, online, sess, asked, pinged>>

\* startRecording is rejected (it makes a directory): the same catch, although the
\* session is up by now.
RecordingFails(t) ==
    /\ t \in recording
    /\ recording' = recording \ {t}
    /\ CaughtIn(t)
    /\ sess' = [sess EXCEPT ![<<t, "first">>] = IF @ = "up" THEN "astray" ELSE @]
    /\ UNCHANGED <<sid, flights, retryVars, halted, limit, online, asked, pinged>>

\* The button of the connecting card (D73).
CancelConnecting(t) ==
    /\ status[t] = "connecting"
    /\ cancelled' = cancelled \cup {t}
    /\ status' = [status EXCEPT ![t] = "disconnected"]
    /\ UNCHANGED <<sid, flights, retryVars, halted, limit, online, sess, asked, pinged,
                   recording>>

-----------------------------------------------------------------------------
(* Reconnecting                                                            *)

\* Reconnect of the banner, the terminal, the status bar, the palette: the series
\* starts over.
ManualReconnect(t) ==
    /\ status[t] = "disconnected"
    /\ InFlight(t) < MaxFlights
    /\ CancelAutoReconnect(t)
    /\ flights' = Started({t}, "manual")
    /\ UNCHANGED <<tabVars, limit, online, sess, asked, pinged,
                   recording>>

\* The callers of reconnectTab that leave the retry state alone.
PlainReconnect(t) ==
    /\ status[t] = "disconnected"
    /\ InFlight(t) < MaxFlights
    /\ flights' = Started({t}, "plain")
    /\ UNCHANGED <<tabVars, retryVars, halted, limit, online, sess, asked, pinged,
                   recording>>

\* The tab takes the new session whatever it became meanwhile; when it is gone,
\* the session stays up without a tab.
ReconnectAnswers(t, how) ==
    /\ flights[<<t, how>>] > 0
    /\ flights' = Landed(t, how)
    /\ IF status[t] = "closed"
       THEN UNCHANGED <<status, sid, sess, asked, pinged>>
       ELSE /\ status' = [status EXCEPT ![t] = "connected"]
            /\ sid' = [sid EXCEPT ![t] = "later"]
            /\ sess' = [sess EXCEPT ![<<t, "later">>] = "up"]
            /\ pinged' = {Aged(t, p) : p \in pinged}
            /\ asked' = IF asked # None /\ asked.tab = t
                        THEN [asked EXCEPT !.sid = Aged(t, <<t, @>>)[2]] ELSE asked
    /\ IF how = "plain" THEN UNCHANGED <<retryVars, halted>> ELSE CancelAutoReconnect(t)
    /\ UNCHANGED <<cancelled, limit, online, recording>>

\* Broken variant: an attempt of a running series has no successor.
FollowedUpOnce(t, how) == how = "manual" /\ limit > 0

\* The continuations that schedule another attempt.
FollowedUp(t, how) == (how = "auto" /\ t \in pending) \/ (how = "manual" /\ limit > 0)

ReconnectFails(t, how) ==
    /\ flights[<<t, how>>] > 0
    /\ flights' = Landed(t, how)
    /\ IF FollowedUp(t, how) THEN Schedule({t}, {}) ELSE UNCHANGED retryVars
    /\ UNCHANGED <<tabVars, halted, limit, online, sess, asked, pinged,
                   recording>>

\* Broken variant: the attempt before it is given back too.
GivenBackTwice(n) == n - 2

\* attempt - 1
GivenBack(n) == n - 1

\* The callback of the timer.  Offline, the attempt is given back and the entry
\* stays, without a timer.
TimerFires(t) ==
    /\ t \in timer
    /\ \/ /\ status[t] # "disconnected"
          /\ CancelAutoReconnect(t)
          /\ UNCHANGED flights
       \/ /\ status[t] = "disconnected"
          /\ timer' = timer \ {t}
          /\ attempt' = [attempt EXCEPT ![t] = IF online THEN @ ELSE GivenBack(@)]
          /\ flights' = IF online THEN Started({t}, "auto") ELSE flights
          /\ UNCHANGED <<pending, halted>>
    /\ UNCHANGED <<tabVars, limit, online, sess, asked, pinged,
                   recording>>

\* Stop on the banner.
StopRetry(t) ==
    /\ status[t] = "disconnected"
    /\ Forget(t)
    /\ halted' = halted \cup {t}
    /\ UNCHANGED <<tabVars, flights, limit, online, sess, asked, pinged,
                   recording>>

-----------------------------------------------------------------------------
(* What happens to the sessions, the network and the machine               *)

\* The connection is lost, or the remote shell ends.
SessionEnds(t, s, end) ==
    /\ Runs(<<t, s>>)
    /\ sess' = [sess EXCEPT ![<<t, s>>] = end]
    /\ UNCHANGED <<tabVars, flights, retryVars, halted, limit, online, asked, pinged, recording>>

\* Broken variant: only an unexpected end counts.
HoldsIfDropped(t, s) == sid[t] = s /\ sess[<<t, s>>] = "dropped"

\* t.sessionId === st.sessionId
Holds(t, s) == sid[t] = s

\* onStatus, `closed': the tab is found by the session it holds now.
HandleClosed(t, s) ==
    /\ sess[<<t, s>>] \in {"dropped", "ended"}
    /\ sess' = [sess EXCEPT ![<<t, s>>] = "down"]
    /\ status' = [status EXCEPT ![t] = IF Holds(t, s) THEN "disconnected" ELSE @]
    /\ Schedule(IF Holds(t, s) /\ sess[<<t, s>>] = "dropped" THEN {t} ELSE {}, {})
    /\ UNCHANGED <<sid, cancelled, flights, halted, limit, online, asked, pinged, recording>>

GoOffline ==
    /\ online
    /\ online' = FALSE
    /\ UNCHANGED <<tabVars, flights, retryVars, halted, limit, sess, asked, pinged,
                   recording>>

\* onOnline
GoOnline ==
    /\ ~online
    /\ \A t \in Tabs : InFlight(t) < MaxFlights
    /\ online' = TRUE
    /\ RetryPendingNow
    /\ UNCHANGED <<tabVars, halted, limit, sess, asked, pinged,
                   recording>>

\* onResume: pending tabs now, and the connected ones are checked (one at a time).
Resume ==
    /\ pinged = {}
    /\ \A t \in Tabs : InFlight(t) < MaxFlights
    /\ pinged' = {<<t, sid[t]>> : t \in {u \in Tabs : status[u] = "connected"}}
    /\ RetryPendingNow
    /\ UNCHANGED <<tabVars, halted, limit, online, sess, asked, recording>>

\* All pings are back.  The dead ones are those of the captured sessions, but it
\* is whatever their tabs hold by now that is marked disconnected.
PingsReturn(dead) ==
    LET tabs == {t \in Tabs : \E p \in dead : p[1] = t}
    IN  /\ pinged # {}
        /\ pinged' = {}
        /\ status' = [t \in Tabs |-> IF t \in tabs /\ status[t] # "closed" THEN "disconnected"
                                                                           ELSE status[t]]
        /\ sess' = Disconnected(dead)
        /\ Schedule(tabs, {})
        /\ UNCHANGED <<sid, cancelled, flights, halted, limit, online, asked, recording>>

ChangePolicy(n) ==
    /\ limit # n
    /\ limit' = n
    /\ UNCHANGED <<tabVars, flights, retryVars, halted, online, sess, asked, pinged,
                   recording>>

-----------------------------------------------------------------------------
(* Disconnecting and closing                                               *)

\* Both ask first when the tab is connected.
Ask(what, t) ==
    /\ status[t] = "connected"
    /\ asked = None
    /\ asked' = [what |-> what, tab |-> t, sid |-> sid[t]]
    /\ UNCHANGED <<tabVars, flights, retryVars, halted, limit, online, sess, pinged, recording>>

Decline ==
    /\ asked # None
    /\ asked' = None
    /\ UNCHANGED <<tabVars, flights, retryVars, halted, limit, online, sess, pinged, recording>>

\* The command "disconnect": the entry and the timer of the tab are left alone.
ConfirmDisconnect ==
    /\ asked # None /\ asked.what = "disconnect"
    /\ asked' = None
    /\ sess' = Disconnected({<<asked.tab, asked.sid>>})
    /\ halted' = halted \cup {asked.tab}
    /\ status' = [status EXCEPT ![asked.tab] = IF @ = "closed" THEN @ ELSE "disconnected"]
    /\ UNCHANGED <<sid, cancelled, flights, retryVars, limit, online, pinged, recording>>

ConfirmClose ==
    /\ asked # None /\ asked.what = "close"
    /\ asked' = None
    /\ sess' = Disconnected({<<asked.tab, asked.sid>>})
    /\ status' = [status EXCEPT ![asked.tab] = "closed"]
    /\ sid' = [sid EXCEPT ![asked.tab] = "none"]
    /\ UNCHANGED <<cancelled, flights, retryVars, halted, limit, online, pinged, recording>>

\* closeTab of a tab that is not connected
CloseTab(t) ==
    /\ status[t] \in {"connecting", "disconnected"}
    /\ cancelled' = IF status[t] = "connecting" THEN cancelled \cup {t} ELSE cancelled
    /\ status' = [status EXCEPT ![t] = "closed"]
    /\ sid' = [sid EXCEPT ![t] = "none"]
    /\ UNCHANGED <<flights, retryVars, halted, limit, online, sess, asked, pinged,
                   recording>>

-----------------------------------------------------------------------------
Answers(t) ==
    \/ OpenAnswers(t) \/ OpenFails(t) \/ RecordingStarts(t) \/ RecordingFails(t)
    \/ \E how \in Reconnects : ReconnectAnswers(t, how) \/ ReconnectFails(t, how)

UserActs(t) ==
    \/ OpenSession(t) \/ CancelConnecting(t) \/ CloseTab(t)
    \/ ManualReconnect(t) \/ PlainReconnect(t) \/ StopRetry(t)
    \/ \E what \in {"disconnect", "close"} : Ask(what, t)

Next ==
    \/ \E t \in Tabs : UserActs(t) \/ Answers(t) \/ TimerFires(t)
    \/ \E t \in Tabs, s \in Known :
          HandleClosed(t, s) \/ \E end \in {"dropped", "ended"} : SessionEnds(t, s, end)
    \/ GoOffline \/ GoOnline \/ Resume
    \/ \E dead \in SUBSET pinged : PingsReturn(dead)
    \/ \E n \in Limits : ChangePolicy(n)
    \/ Decline \/ ConfirmDisconnect \/ ConfirmClose

Spec == Init /\ [][Next]_vars

\* Timers fire and automatic attempts end (a connect has a timeout); users, networks,
\* machines and all other answers and events do as they like.
FairSpec ==
    /\ Spec
    /\ \A t \in Tabs :
          /\ WF_vars(TimerFires(t))
          /\ WF_vars(ReconnectAnswers(t, "auto") \/ ReconnectFails(t, "auto"))

-----------------------------------------------------------------------------
(* What the user is promised                                               *)

Promise == INSTANCE SeriesPromise WITH going <- pending, nth <- attempt

-----------------------------------------------------------------------------
(* Properties                                                              *)

\* Whatever timers, network changes, wake-ups, late answers and buttons meet, the
\* attempts of a tab are counted and stopped as promised.
KeepsPromise == Promise!Spec

\* A running timer has its entry: a series that was stopped, started over or won
\* cannot come back through a timer that nobody cleared.
TimerHasEntry == timer \subseteq pending

\* An entry that waits (it has no timer) waits for something: for the network,
\* for the user who halted the tab, or for an attempt that is under way.
NoStuckRetry ==
    \A t \in pending \ (timer \cup halted) : online => flights[<<t, "auto">>] > 0

\* A session that openSession brought up is never left running behind the user's
\* back: it is down, or its tab shows it, connected, whatever was cancelled, closed
\* and reconnected while the connect or the recording was awaited.  The exception is a
\* session gone astray, because its recording could not be started: its tab shows a
\* failure, and may be closed or reconnected while the session runs on.
OpenedIsShown ==
    \A t \in Tabs : sess[<<t, "first">>] = "up" =>
        sid[t] = "first" /\ status[t] = "connected"

\* A tab never shows a dead session as connected without its `closed' event being
\* on the way, although answers, events and stale captures overlap.
DeadTabHasNews ==
    \A t \in Tabs : status[t] = "connected" => sid[t] \in Known /\ sess[<<t, sid[t]>>] # "down"

\* A stopped series stays stopped: as long as the tab is halted no event,
\* late answer or wake-up gives it an entry again.
StoppedStaysStopped ==
    [][\A t \in halted \ pending : t \in halted' => t \notin pending']_vars

\* A series of attempts ends, by success or by the limit, unless the network is
\* away or the user stops it.
RetryEnds ==
    \A t \in Tabs : t \in pending ~> t \notin pending \/ ~online \/ t \in halted
=============================================================================

------------------------- MODULE ReconnectTabsProofs -------------------------
(***************************************************************************)
(* Theorems about ReconnectTabs, for any tabs, limits and bounds.          *)
(*                                                                         *)
(* The retry state is one half: types, TimerOK and NoStuckRetry carry each *)
(* other.  The sessions are the other half: SessionsOK says of every tab   *)
(* what its opening still has under way and what was captured of it.       *)
(***************************************************************************)
EXTENDS ReconnectTabs, TLAPS

TimerOK == \A t \in timer : t \in pending /\ attempt[t] >= 1

RetryInv == TypeOK /\ TimerOK /\ NoStuckRetry

\* A tab that is not opened yet has no session, no reconnect and no capture.
Untouched(t) ==
    status[t] \in {"none", "connecting"} =>
        /\ sid[t] = "none"
        /\ sess[<<t, "first">>] \notin {"up", "astray"}
        /\ \A how \in Reconnects : flights[<<t, how>>] = 0
        /\ asked # None => asked.tab # t
        /\ \A p \in pinged : p[1] # t

\* The answer of an opening is taken only by a tab that still waits for it, and a
\* recording is started after it.
Opening(t) ==
    /\ flights[<<t, "open">>] <= 1
    /\ status[t] = "none" => flights[<<t, "open">>] = 0
    /\ flights[<<t, "open">>] > 0 /\ t \notin cancelled => status[t] = "connecting"
    /\ t \in recording => flights[<<t, "open">>] = 0 /\ status[t] \notin {"none", "connecting"}

\* While the first session is up nothing can take its place.
FirstOK(t) ==
    sess[<<t, "first">>] = "up" =>
        /\ sid[t] = "first"
        /\ status[t] = "connected"
        /\ \A how \in Reconnects : flights[<<t, how>>] = 0
        /\ asked # None /\ asked.tab = t => asked.sid = "first"
        /\ \A p \in pinged : p[1] = t => p[2] = "first"

LiveOK(t) == status[t] = "connected" => sid[t] \in Known /\ sess[<<t, sid[t]>>] # "down"

TabOK(t) == Untouched(t) /\ Opening(t) /\ FirstOK(t) /\ LiveOK(t)

SessionsOK == \A t \in Tabs : TabOK(t)

-----------------------------------------------------------------------------
LEMMA FlightTypes ==
    ASSUME TypeOK
    PROVE  /\ \A S, how : Started(S, how) \in [Tabs \X Hows -> Nat]
           /\ \A t \in Tabs, how \in Hows :
                 flights[<<t, how>>] > 0 => Landed(t, how) \in [Tabs \X Hows -> Nat]
<1>1. ASSUME NEW S, NEW how PROVE Started(S, how) \in [Tabs \X Hows -> Nat]
  BY DEF TypeOK, Started
<1>2. ASSUME NEW t \in Tabs, NEW how \in Hows, flights[<<t, how>>] > 0
      PROVE  Landed(t, how) \in [Tabs \X Hows -> Nat]
  <2> DEFINE f == <<t, how>>
  <2>1. f \in Tabs \X Hows /\ flights \in [Tabs \X Hows -> Nat] BY DEF TypeOK
  <2>2. flights[f] - 1 \in Nat BY <1>2, <2>1
  <2>3. Landed(t, how) = [flights EXCEPT ![f] = flights[f] - 1] BY DEF Landed
  <2> HIDE DEF f
  <2> QED BY <2>1, <2>2, <2>3
<1> QED BY <1>1, <1>2

\* One attempt more, one less, for each tab and kind.
LEMMA FlightMoves ==
    ASSUME TypeOK, NEW t \in Tabs, NEW h \in Hows
    PROVE  /\ flights[<<t, h>>] \in Nat
           /\ \A S, how : Started(S, how)[<<t, h>>] =
                 IF t \in S /\ h = how THEN flights[<<t, h>>] + 1 ELSE flights[<<t, h>>]
           /\ \A u, how : Landed(u, how)[<<t, h>>] =
                 IF t = u /\ h = how THEN flights[<<t, h>>] - 1 ELSE flights[<<t, h>>]
BY DEF TypeOK, Started, Landed

LEMMA AfterStart ==
    ASSUME TypeOK, NEW t \in Tabs, NEW u, NEW how \in Hows, flights' = Started({u}, how)
    PROVE  /\ t = u => flights'[<<t, how>>] = flights[<<t, how>>] + 1
           /\ \A h \in Hows : t # u \/ h # how => flights'[<<t, h>>] = flights[<<t, h>>]
BY FlightMoves

LEMMA AfterLand ==
    ASSUME TypeOK, NEW t \in Tabs, NEW u, NEW how \in Hows, flights' = Landed(u, how)
    PROVE  /\ t = u => flights'[<<t, how>>] = flights[<<t, how>>] - 1
           /\ \A h \in Hows : t # u \/ h # how => flights'[<<t, h>>] = flights[<<t, h>>]
BY FlightMoves

\* What scheduling a set of tabs does to each tab.
LEMMA ScheduleFacts ==
    ASSUME ReconnectAssumption, TypeOK, NEW S \in SUBSET Tabs, NEW C, Schedule(S, C)
    PROVE  /\ pending' \subseteq Tabs /\ timer' \subseteq Tabs /\ attempt' \in [Tabs -> Nat]
           /\ TimerOK => TimerOK'
           /\ \A t \in Tabs \ S : t \in pending' <=> t \in pending
           /\ \A t \in Tabs \ S : t \in timer' <=> t \in timer /\ t \notin C
           /\ \A t \in halted : t \in pending' => t \in pending
           /\ \A t \in S \ halted : t \in pending' => t \in timer'
<1> USE DEF Schedule, Again, Exhausted
<1>1. pending' \subseteq Tabs /\ timer' \subseteq Tabs BY DEF TypeOK
<1>2. attempt' \in [Tabs -> Nat] BY DEF TypeOK
<1>3. ASSUME TimerOK PROVE TimerOK'
  <2> SUFFICES ASSUME NEW t \in timer' PROVE t \in pending' /\ attempt'[t] >= 1
    BY DEF TimerOK
  <2>1. t \in Tabs /\ attempt[t] \in Nat /\ limit \in Nat
    BY <1>1 DEF TypeOK, ReconnectAssumption
  <2>2. CASE t \in Again(S) BY <2>1, <2>2
  <2>3. CASE t \notin Again(S)
    <3>1. t \in timer /\ t \notin Exhausted(S) BY <2>3
    <3>2. t \in pending /\ attempt[t] >= 1 BY <3>1, <1>3 DEF TimerOK
    <3> QED BY <2>1, <2>3, <3>1, <3>2
  <2> QED BY <2>2, <2>3
<1>4. \A t \in Tabs \ S : t \in pending' <=> t \in pending OBVIOUS
<1>5. \A t \in Tabs \ S : t \in timer' <=> t \in timer /\ t \notin C OBVIOUS
<1>6. \A t \in halted : t \in pending' => t \in pending OBVIOUS
<1>7. ASSUME NEW t \in S \ halted, t \in pending' PROVE t \in timer'
  <2>1. attempt[t] \in Nat /\ limit \in Nat BY DEF TypeOK, ReconnectAssumption
  <2>2. t \in Again(S) \/ t \in Exhausted(S) BY <2>1
  <2> QED BY <2>2, <1>7
<1> QED BY <1>1, <1>2, <1>3, <1>4, <1>5, <1>6, <1>7

LEMMA RetryFacts ==
    ASSUME ReconnectAssumption, TypeOK, RetryPendingNow
    PROVE  /\ flights' \in [Tabs \X Hows -> Nat]
           /\ pending' \subseteq Tabs /\ timer' \subseteq Tabs /\ attempt' \in [Tabs -> Nat]
           /\ TimerOK => TimerOK'
           /\ \A t \in halted : t \in pending' => t \in pending
           /\ \A t \in pending' \ (timer' \cup halted) : flights'[<<t, "auto">>] > 0
           /\ \A t \in Tabs, h \in Hows :
                 h # "auto" \/ status[t] # "disconnected" => flights'[<<t, h>>] = flights[<<t, h>>]
<1> DEFINE ids  == pending \ halted
           idle == {t \in ids : status[t] # "disconnected"}
<1>1. Schedule(idle, ids) /\ flights' = Started(ids \ idle, "auto") BY DEF RetryPendingNow
<1>2. idle \in SUBSET Tabs BY DEF TypeOK
<1>3. \A t \in ids \ idle : status[t] = "disconnected" OBVIOUS
<1>4. "auto" \in Hows BY DEF Hows
<1>5. ids \subseteq Tabs /\ idle \cap halted = {} BY DEF TypeOK
<1>6. \A t \in pending : t \in ids \/ t \in halted OBVIOUS
<1> HIDE DEF ids, idle
<1>7. /\ flights' \in [Tabs \X Hows -> Nat]
      /\ pending' \subseteq Tabs /\ timer' \subseteq Tabs /\ attempt' \in [Tabs -> Nat]
      /\ TimerOK => TimerOK'
      /\ \A t \in halted : t \in pending' => t \in pending
  BY <1>1, <1>2, FlightTypes, ScheduleFacts
<1>8. ASSUME NEW t \in pending' \ (timer' \cup halted) PROVE flights'[<<t, "auto">>] > 0
  <2>1. t \in Tabs BY <1>7
  <2>2. t \notin idle BY <1>1, <1>2, <1>5, <1>8, ScheduleFacts
  <2>3. t \in pending BY <1>1, <1>2, <1>8, <2>1, <2>2, ScheduleFacts
  <2>4. t \in ids \ idle BY <1>6, <1>8, <2>2, <2>3
  <2>5. flights'[<<t, "auto">>] = flights[<<t, "auto">>] + 1 /\ flights[<<t, "auto">>] \in Nat
    BY <1>1, <1>4, <2>1, <2>4, FlightMoves
  <2> QED BY <2>5
<1>9. ASSUME NEW t \in Tabs, NEW h \in Hows, h # "auto" \/ status[t] # "disconnected"
      PROVE  flights'[<<t, h>>] = flights[<<t, h>>]
  BY <1>1, <1>3, <1>9, FlightMoves
<1> QED BY <1>7, <1>8, <1>9

-----------------------------------------------------------------------------
(* Types                                                                   *)

LEMMA TypeInit == ASSUME ReconnectAssumption, Init PROVE TypeOK
BY DEF ReconnectAssumption, Init, TypeOK, Hows, Known

LEMMA TypeNext ==
    ASSUME ReconnectAssumption, TypeOK, [Next]_vars, TimerOK, SessionsOK
    PROVE  TypeOK'
<1> USE DEF Reconnects, tabVars, retryVars
<1> Hows \ {"open"} \subseteq Hows /\ "open" \in Hows BY DEF Hows
<1>1. ASSUME NEW t \in Tabs, OpenSession(t) \/ CancelConnecting(t) \/ CloseTab(t) PROVE TypeOK'
  <2>1. flights' \in [Tabs \X Hows -> Nat]
    BY <1>1, FlightTypes DEF OpenSession, CancelConnecting, CloseTab, TypeOK
  <2> QED BY <1>1, <2>1 DEF OpenSession, CancelConnecting, CloseTab, TypeOK
<1>2. ASSUME NEW t \in Tabs, ManualReconnect(t) \/ PlainReconnect(t) \/ StopRetry(t) PROVE TypeOK'
  <2>1. flights' \in [Tabs \X Hows -> Nat]
    BY <1>2, FlightTypes DEF ManualReconnect, PlainReconnect, StopRetry, TypeOK
  <2> QED BY <1>2, <2>1
          DEF ManualReconnect, PlainReconnect, StopRetry, CancelAutoReconnect, Forget, TypeOK
<1>3. ASSUME NEW t \in Tabs, NEW what \in {"disconnect", "close"}, Ask(what, t) PROVE TypeOK'
  <2>1. asked' \in Question
    BY <1>3 DEF Ask, Question, Captured, SessionsOK, TabOK, LiveOK
  <2> QED BY <1>3, <2>1 DEF Ask, TypeOK
<1>4. ASSUME NEW t \in Tabs, OpenAnswers(t) \/ OpenFails(t) PROVE TypeOK'
  <2>1. flights' \in [Tabs \X Hows -> Nat]
    BY <1>4, FlightTypes DEF OpenAnswers, OpenFails
  <2> QED BY <1>4, <2>1 DEF OpenAnswers, OpenFails, CaughtIn, TypeOK, Known
<1>15. ASSUME NEW t \in Tabs, RecordingStarts(t) \/ RecordingFails(t) PROVE TypeOK'
  BY <1>15 DEF RecordingStarts, RecordingFails, CaughtIn, TypeOK
<1>5. ASSUME NEW t \in Tabs, NEW how \in Reconnects, ReconnectAnswers(t, how) PROVE TypeOK'
  <2>1. flights' \in [Tabs \X Hows -> Nat] BY <1>5, FlightTypes DEF ReconnectAnswers
  <2>2. pinged' \subseteq Tabs \X Captured
    BY <1>5 DEF ReconnectAnswers, TypeOK, Aged, Captured, Known
  <2>3. asked' \in Question \cup {None}
    <3>1. CASE asked' = asked BY <3>1 DEF TypeOK
    <3>2. CASE asked' # asked
      <4>1. asked # None /\ asked' = [asked EXCEPT !.sid = Aged(t, <<t, @>>)[2]]
        BY <1>5, <3>2 DEF ReconnectAnswers
      <4>2. asked \in Question BY <4>1 DEF TypeOK
      <4>3. Aged(t, <<t, asked.sid>>)[2] \in Captured
        BY <4>2 DEF Aged, Question, Captured, Known
      <4> QED BY <4>1, <4>2, <4>3 DEF Question
    <3> QED BY <3>1, <3>2
  <2>4. status' \in [Tabs -> {"none", "connecting", "connected", "disconnected", "closed"}]
        /\ sid' \in [Tabs -> Known \cup {"none"}]
        /\ sess' \in [Tabs \X Known -> {"down", "up", "astray", "dropped", "ended"}]
    BY <1>5 DEF ReconnectAnswers, TypeOK, Known
  <2>5. pending' \subseteq Tabs /\ attempt' \in [Tabs -> Nat] /\ timer' \subseteq Tabs
        /\ halted' \subseteq Tabs
    BY <1>5 DEF ReconnectAnswers, TypeOK, CancelAutoReconnect, Forget
  <2> QED BY <1>5, <2>1, <2>2, <2>3, <2>4, <2>5 DEF ReconnectAnswers, TypeOK
<1>6. ASSUME NEW t \in Tabs, NEW how \in Reconnects, ReconnectFails(t, how) PROVE TypeOK'
  <2>1. flights' \in [Tabs \X Hows -> Nat] BY <1>6, FlightTypes DEF ReconnectFails
  <2>2. pending' \subseteq Tabs /\ attempt' \in [Tabs -> Nat] /\ timer' \subseteq Tabs
    <3>1. CASE Schedule({t}, {}) BY <3>1, ScheduleFacts
    <3>2. CASE UNCHANGED retryVars BY <3>2 DEF TypeOK
    <3> QED BY <1>6, <3>1, <3>2 DEF ReconnectFails
  <2> QED BY <1>6, <2>1, <2>2 DEF ReconnectFails, TypeOK
<1>7. ASSUME NEW t \in Tabs, TimerFires(t) PROVE TypeOK'
  <2>1. flights' \in [Tabs \X Hows -> Nat] BY <1>7, FlightTypes DEF TimerFires, TypeOK
  <2>2. attempt[t] \in Nat /\ attempt[t] - 1 \in Nat
    BY <1>7 DEF TimerFires, TimerOK, TypeOK
  <2> QED BY <1>7, <2>1, <2>2 DEF TimerFires, GivenBack, CancelAutoReconnect, Forget, TypeOK
<1>8. ASSUME NEW t \in Tabs, NEW s \in Known, HandleClosed(t, s) PROVE TypeOK'
  <2>1. \E S \in SUBSET Tabs : Schedule(S, {})
    BY <1>8 DEF HandleClosed
  <2>2. pending' \subseteq Tabs /\ attempt' \in [Tabs -> Nat] /\ timer' \subseteq Tabs
    BY <2>1, ScheduleFacts
  <2> QED BY <1>8, <2>2 DEF HandleClosed, TypeOK
<1>9. ASSUME NEW t \in Tabs, NEW s \in Known, NEW end \in {"dropped", "ended"},
             SessionEnds(t, s, end)
      PROVE  TypeOK'
  BY <1>9 DEF SessionEnds, TypeOK
<1>10. ASSUME GoOffline \/ Decline \/ \E n \in Limits : ChangePolicy(n) PROVE TypeOK'
  BY <1>10 DEF GoOffline, Decline, ChangePolicy, TypeOK
<1>11. ASSUME GoOnline \/ Resume PROVE TypeOK'
  <2>1. RetryPendingNow BY <1>11 DEF GoOnline, Resume
  <2>3. /\ flights' \in [Tabs \X Hows -> Nat]
        /\ pending' \subseteq Tabs /\ attempt' \in [Tabs -> Nat] /\ timer' \subseteq Tabs
    BY <2>1, RetryFacts
  <2>4. pinged' \subseteq Tabs \X Captured
    <3>1. CASE GoOnline BY <3>1 DEF GoOnline, TypeOK
    <3>2. CASE Resume
      BY <3>2 DEF Resume, Captured, SessionsOK, TabOK, LiveOK
    <3> QED BY <1>11, <3>1, <3>2
  <2> QED BY <1>11, <2>3, <2>4 DEF GoOnline, Resume, TypeOK
<1>12. ASSUME NEW dead \in SUBSET pinged, PingsReturn(dead) PROVE TypeOK'
  <2>1. \E S \in SUBSET Tabs : Schedule(S, {}) BY <1>12 DEF PingsReturn
  <2>2. pending' \subseteq Tabs /\ attempt' \in [Tabs -> Nat] /\ timer' \subseteq Tabs
    BY <2>1, ScheduleFacts
  <2> QED BY <1>12, <2>2 DEF PingsReturn, Disconnected, Runs, TypeOK
<1>13. ASSUME ConfirmDisconnect \/ ConfirmClose PROVE TypeOK'
  <2>1. asked.tab \in Tabs
    BY <1>13 DEF ConfirmDisconnect, ConfirmClose, TypeOK, Question
  <2>2. status' \in [Tabs -> {"none", "connecting", "connected", "disconnected", "closed"}]
    <3>1. CASE ConfirmDisconnect BY <3>1, <2>1 DEF ConfirmDisconnect, TypeOK
    <3>2. CASE ConfirmClose BY <3>2, <2>1 DEF ConfirmClose, TypeOK
    <3> QED BY <1>13, <3>1, <3>2
  <2>3. sess' \in [Tabs \X Known -> {"down", "up", "astray", "dropped", "ended"}]
    BY <1>13 DEF ConfirmDisconnect, ConfirmClose, Disconnected, Runs, TypeOK
  <2>4. sid' \in [Tabs -> Known \cup {"none"}] /\ halted' \subseteq Tabs
    BY <1>13, <2>1 DEF ConfirmDisconnect, ConfirmClose, TypeOK
  <2> QED BY <1>13, <2>2, <2>3, <2>4 DEF ConfirmDisconnect, ConfirmClose, TypeOK
<1>14. ASSUME UNCHANGED vars PROVE TypeOK'
  BY <1>14 DEF vars, TypeOK
<1> QED
  BY <1>1, <1>2, <1>3, <1>4, <1>5, <1>6, <1>7, <1>8, <1>9, <1>10, <1>11, <1>12, <1>13, <1>14,
     <1>15
  DEF Next, UserActs, Answers

-----------------------------------------------------------------------------
(* The retry state                                                         *)

\* A step that only takes entries, with their timers, and lands no automatic
\* attempt of an entry that stays.
LEMMA RetryKept ==
    ASSUME TypeOK, TypeOK', TimerOK, NoStuckRetry,
           pending' \subseteq pending,
           timer' = timer \cap pending',
           \A t \in pending' : attempt'[t] = attempt[t],
           \A t \in pending' : t \in halted => t \in halted',
           online' => online,
           \A t \in pending' : flights'[<<t, "auto">>] = flights[<<t, "auto">>]
    PROVE  TimerOK' /\ NoStuckRetry'
<1>1. TimerOK' BY DEF TimerOK
<1>2. NoStuckRetry' BY DEF NoStuckRetry
<1> QED BY <1>1, <1>2

\* Scheduling keeps it, when at most tabs of S lose an automatic attempt.
LEMMA RetryScheduled ==
    ASSUME ReconnectAssumption, TypeOK, TypeOK', TimerOK, NoStuckRetry,
           NEW S \in SUBSET Tabs, Schedule(S, {}), halted' = halted, online' = online,
           \A t \in Tabs \ S : flights'[<<t, "auto">>] = flights[<<t, "auto">>]
    PROVE  TimerOK' /\ NoStuckRetry'
<1>1. TimerOK' BY ScheduleFacts
<1>2. NoStuckRetry'
  <2> SUFFICES ASSUME NEW t \in pending' \ (timer' \cup halted'), online'
               PROVE  flights'[<<t, "auto">>] > 0
    BY DEF NoStuckRetry
  <2>1. t \in Tabs BY DEF TypeOK
  <2>2. t \notin S BY ScheduleFacts
  <2>3. t \in pending \ (timer \cup halted) BY <2>1, <2>2, ScheduleFacts
  <2> QED BY <2>1, <2>2, <2>3 DEF NoStuckRetry
<1> QED BY <1>1, <1>2

LEMMA RetryNext ==
    ASSUME ReconnectAssumption, TypeOK, TypeOK', TimerOK, NoStuckRetry, [Next]_vars
    PROVE  TimerOK' /\ NoStuckRetry'
<1> USE DEF tabVars, retryVars, Reconnects
<1> /\ "auto" \in Hows /\ pending \subseteq Tabs /\ pending' \subseteq Tabs
    /\ timer \subseteq pending
  BY DEF Hows, TypeOK, TimerOK
<1>1. ASSUME NEW t \in Tabs, UserActs(t) PROVE TimerOK' /\ NoStuckRetry'
  <2>1. CASE \/ CancelConnecting(t) \/ CloseTab(t)
             \/ \E what \in {"disconnect", "close"} : Ask(what, t)
    BY <2>1, RetryKept DEF CancelConnecting, CloseTab, Ask
  <2>2. CASE OpenSession(t) \/ PlainReconnect(t)
    BY <2>2, RetryKept, FlightMoves DEF OpenSession, PlainReconnect
  <2>3. CASE ManualReconnect(t) \/ StopRetry(t)
    <3>1. Forget(t) BY <2>3 DEF ManualReconnect, StopRetry, CancelAutoReconnect
    <3>2. \A u \in pending' : attempt'[u] = attempt[u] BY <3>1 DEF Forget, TypeOK
    <3>3. \A u \in pending' : flights'[<<u, "auto">>] = flights[<<u, "auto">>]
      BY <2>3, FlightMoves DEF ManualReconnect, StopRetry
    <3>4. timer' = timer \cap pending' BY <3>1 DEF Forget
    <3>5. online' = online /\ \A u \in pending' : u \in halted => u \in halted'
      BY <2>3 DEF ManualReconnect, StopRetry, CancelAutoReconnect, Forget
    <3> QED BY <3>1, <3>2, <3>3, <3>4, <3>5, RetryKept DEF Forget
  <2> QED BY <1>1, <2>1, <2>2, <2>3 DEF UserActs
<1>2. ASSUME NEW t \in Tabs, OpenAnswers(t) \/ OpenFails(t) PROVE TimerOK' /\ NoStuckRetry'
  BY <1>2, RetryKept, FlightMoves DEF OpenAnswers, OpenFails
<1>10. ASSUME NEW t \in Tabs, RecordingStarts(t) \/ RecordingFails(t)
       PROVE  TimerOK' /\ NoStuckRetry'
  BY <1>10, RetryKept DEF RecordingStarts, RecordingFails
<1>3. ASSUME NEW t \in Tabs, NEW how \in Reconnects, ReconnectAnswers(t, how)
      PROVE  TimerOK' /\ NoStuckRetry'
  <2>1. \A u \in Tabs : u # t \/ how # "auto" =>
            flights'[<<u, "auto">>] = flights[<<u, "auto">>]
    BY <1>3, FlightMoves DEF ReconnectAnswers
  <2>2. CASE how = "plain"
    BY <1>3, <2>1, <2>2, RetryKept DEF ReconnectAnswers
  <2>3. CASE how # "plain"
    <3>1. CancelAutoReconnect(t) BY <1>3, <2>3 DEF ReconnectAnswers
    <3>2. \A u \in pending' : attempt'[u] = attempt[u]
      BY <3>1 DEF CancelAutoReconnect, Forget, TypeOK
    <3>3. pending' = pending \ {t} /\ timer' = timer \cap pending' /\ halted' = halted \ {t}
      BY <3>1 DEF CancelAutoReconnect, Forget
    <3>4. online' = online BY <1>3 DEF ReconnectAnswers
    <3> QED BY <2>1, <3>2, <3>3, <3>4, RetryKept
  <2> QED BY <2>2, <2>3
<1>4. ASSUME NEW t \in Tabs, NEW how \in Reconnects, ReconnectFails(t, how)
      PROVE  TimerOK' /\ NoStuckRetry'
  <2>1. \A u \in Tabs : u # t \/ how # "auto" =>
            flights'[<<u, "auto">>] = flights[<<u, "auto">>]
    BY <1>4, FlightMoves DEF ReconnectFails
  <2>2. CASE FollowedUp(t, how)
    <3>1. Schedule({t}, {}) /\ halted' = halted /\ online' = online
      BY <1>4, <2>2 DEF ReconnectFails
    <3> QED BY <2>1, <3>1, RetryScheduled
  <2>3. CASE ~FollowedUp(t, how)
    <3>1. UNCHANGED <<retryVars, halted, online>> BY <1>4, <2>3 DEF ReconnectFails
    <3>2. how # "auto" \/ t \notin pending BY <2>3 DEF FollowedUp
    <3> QED BY <2>1, <3>1, <3>2, RetryKept
  <2> QED BY <2>2, <2>3
<1>5. ASSUME NEW t \in Tabs, TimerFires(t) PROVE TimerOK' /\ NoStuckRetry'
  <2>1. CASE status[t] # "disconnected"
    <3>1. CancelAutoReconnect(t) /\ UNCHANGED <<flights, online>>
      BY <1>5, <2>1 DEF TimerFires
    <3>2. \A u \in pending' : attempt'[u] = attempt[u]
      BY <3>1 DEF CancelAutoReconnect, Forget, TypeOK
    <3>3. pending' = pending \ {t} /\ timer' = timer \cap pending' /\ halted' = halted \ {t}
      BY <3>1 DEF CancelAutoReconnect, Forget
    <3> QED BY <3>1, <3>2, <3>3, RetryKept
  <2>2. CASE status[t] = "disconnected"
    <3>1. /\ timer' = timer \ {t} /\ UNCHANGED <<pending, halted, online>>
          /\ attempt' = [attempt EXCEPT ![t] = IF online THEN @ ELSE GivenBack(@)]
          /\ flights' = IF online THEN Started({t}, "auto") ELSE flights
      BY <1>5, <2>2 DEF TimerFires
    <3>2. TimerOK' BY <3>1 DEF TimerOK, TypeOK
    <3>3. NoStuckRetry'
      <4> SUFFICES ASSUME NEW u \in pending' \ (timer' \cup halted'), online'
                   PROVE  flights'[<<u, "auto">>] > 0
        BY DEF NoStuckRetry
      <4>1. flights[<<u, "auto">>] \in Nat
            /\ flights'[<<u, "auto">>] = IF u = t THEN flights[<<u, "auto">>] + 1
                                                  ELSE flights[<<u, "auto">>]
        BY <3>1, FlightMoves
      <4>2. u # t => u \in pending \ (timer \cup halted) BY <3>1
      <4>3. u # t => flights[<<u, "auto">>] > 0 BY <3>1, <4>2 DEF NoStuckRetry
      <4> QED BY <4>1, <4>3
    <3> QED BY <3>2, <3>3
  <2> QED BY <2>1, <2>2
<1>6. ASSUME NEW t \in Tabs, NEW s \in Known, HandleClosed(t, s) PROVE TimerOK' /\ NoStuckRetry'
  <2> DEFINE S == IF Holds(t, s) /\ sess[<<t, s>>] = "dropped" THEN {t} ELSE {}
  <2>1. Schedule(S, {}) /\ UNCHANGED <<flights, halted, online>> BY <1>6 DEF HandleClosed
  <2>2. S \in SUBSET Tabs OBVIOUS
  <2> HIDE DEF S
  <2> QED BY <2>1, <2>2, RetryScheduled
<1>7. ASSUME NEW dead \in SUBSET pinged, PingsReturn(dead) PROVE TimerOK' /\ NoStuckRetry'
  <2> DEFINE S == {t \in Tabs : \E p \in dead : p[1] = t}
  <2>1. Schedule(S, {}) /\ UNCHANGED <<flights, halted, online>> BY <1>7 DEF PingsReturn
  <2>2. S \in SUBSET Tabs OBVIOUS
  <2> HIDE DEF S
  <2> QED BY <2>1, <2>2, RetryScheduled
<1>8. ASSUME GoOnline \/ Resume PROVE TimerOK' /\ NoStuckRetry'
  <2>1. RetryPendingNow /\ halted' = halted BY <1>8 DEF GoOnline, Resume
  <2> QED BY <2>1, RetryFacts DEF NoStuckRetry
<1>9. ASSUME \/ GoOffline \/ Decline \/ ConfirmDisconnect \/ ConfirmClose
             \/ \E n \in Limits : ChangePolicy(n)
             \/ \E t \in Tabs, s \in Known, end \in {"dropped", "ended"} : SessionEnds(t, s, end)
             \/ UNCHANGED vars
      PROVE  TimerOK' /\ NoStuckRetry'
  <2>1. UNCHANGED <<flights, pending, attempt, timer>>
    BY <1>9
    DEF GoOffline, Decline, ConfirmDisconnect, ConfirmClose, ChangePolicy, SessionEnds, vars
  <2>2. halted \subseteq halted'
    BY <1>9
    DEF GoOffline, Decline, ConfirmDisconnect, ConfirmClose, ChangePolicy, SessionEnds, vars
  <2>3. online' = online \/ online' = FALSE
    BY <1>9
    DEF GoOffline, Decline, ConfirmDisconnect, ConfirmClose, ChangePolicy, SessionEnds, vars
  <2> QED BY <2>1, <2>2, <2>3, RetryKept
<1> QED
  BY <1>1, <1>2, <1>3, <1>4, <1>5, <1>6, <1>7, <1>8, <1>9, <1>10 DEF Next, Answers

-----------------------------------------------------------------------------
(* The sessions                                                            *)

\* Nothing of the tab itself changes ...
Same(t) ==
    /\ status'[t] = status[t] /\ sid'[t] = sid[t]
    /\ \A s \in Known : sess'[<<t, s>>] = sess[<<t, s>>]
    /\ \A h \in Hows : flights'[<<t, h>>] = flights[<<t, h>>]
    /\ t \in cancelled => t \in cancelled'
    /\ t \in recording' => t \in recording

\* ... and nothing new is captured of it.
NoCapture(t) ==
    /\ asked' # None /\ asked'.tab = t => asked # None /\ asked.tab = t /\ asked'.sid = asked.sid
    /\ \A p \in pinged' : p[1] = t => p \in pinged

LEMMA TabKept ==
    ASSUME NEW t \in Tabs, TabOK(t), Same(t), NoCapture(t)
    PROVE  TabOK(t)'
<1> Hows \ {"open"} \subseteq Hows /\ "open" \in Hows /\ "first" \in Known BY DEF Hows, Known
<1>1. Untouched(t)' BY DEF TabOK, Same, NoCapture, Untouched, Reconnects
<1>2. Opening(t)' BY DEF TabOK, Same, Opening
<1>3. FirstOK(t)' BY DEF TabOK, Same, NoCapture, FirstOK, Reconnects
<1>4. LiveOK(t)' BY DEF TabOK, Same, LiveOK
<1> QED BY <1>1, <1>2, <1>3, <1>4 DEF TabOK

\* A step of the tab itself.
LEMMA UserTab ==
    ASSUME TypeOK, TypeOK', NEW t \in Tabs, TabOK(t), UserActs(t)
    PROVE  TabOK(t)'
<1> USE DEF tabVars, retryVars, Reconnects, TabOK
<1> DEFINE fl == \A h \in Hows : flights[<<t, h>>] \in Nat /\ flights'[<<t, h>>] \in Nat
<1>0. fl BY FlightMoves DEF TypeOK
<1>h. Hows = {"open", "auto", "manual", "plain"} /\ Known = {"first", "later"} BY DEF Hows, Known
<1> HIDE DEF fl
<1>1. CASE OpenSession(t)
  <2>1. /\ status[t] = "none" /\ status'[t] = "connecting"
        /\ UNCHANGED <<sid, sess, asked, pinged, recording>>
        /\ flights' = Started({t}, "open")
    BY <1>1 DEF OpenSession, TypeOK
  <2>2. /\ flights'[<<t, "open">>] = flights[<<t, "open">>] + 1
        /\ \A h \in Hows \ {"open"} : flights'[<<t, h>>] = flights[<<t, h>>]
    <3>1. flights'[<<t, "open">>] = flights[<<t, "open">>] + 1 BY <2>1, <1>h, AfterStart
    <3>2. \A h \in Hows : h # "open" => flights'[<<t, h>>] = flights[<<t, h>>]
      BY <2>1, <1>h, AfterStart
    <3> QED BY <3>1, <3>2
  <2>3. Untouched(t)' BY <2>1, <2>2 DEF Untouched
  <2>4. Opening(t)' BY <2>1, <2>2 DEF Opening
  <2>5. FirstOK(t)' /\ LiveOK(t)' BY <2>1 DEF Untouched, FirstOK, LiveOK
  <2> QED BY <2>3, <2>4, <2>5
<1>2. CASE CancelConnecting(t)
  <2>1. /\ status[t] = "connecting" /\ status'[t] = "disconnected" /\ t \in cancelled'
        /\ UNCHANGED <<sid, sess, flights, recording>>
    BY <1>2 DEF CancelConnecting, TypeOK
  <2> QED BY <2>1 DEF Untouched, Opening, FirstOK, LiveOK
<1>3. CASE CloseTab(t)
  <2>1. /\ status[t] \in {"connecting", "disconnected"} /\ status'[t] = "closed"
        /\ status[t] = "connecting" => t \in cancelled'
        /\ t \in cancelled => t \in cancelled'
        /\ UNCHANGED <<sess, flights, recording>>
    BY <1>3 DEF CloseTab, TypeOK
  <2> QED BY <2>1 DEF Untouched, Opening, FirstOK, LiveOK
<1>4. CASE ManualReconnect(t) \/ PlainReconnect(t)
  <2>1. /\ status[t] = "disconnected" /\ UNCHANGED <<status, sid, cancelled, sess, recording>>
        /\ flights' \in {Started({t}, "manual"), Started({t}, "plain")}
    BY <1>4 DEF ManualReconnect, PlainReconnect
  <2>2. flights'[<<t, "open">>] = flights[<<t, "open">>]
    <3>1. CASE flights' = Started({t}, "manual") BY <3>1, <1>h, AfterStart
    <3>2. CASE flights' = Started({t}, "plain") BY <3>2, <1>h, AfterStart
    <3> QED BY <2>1, <3>1, <3>2
  <2> QED BY <2>1, <2>2 DEF Untouched, Opening, FirstOK, LiveOK
<1>5. CASE StopRetry(t)
  BY <1>5, TabKept DEF StopRetry, Same, NoCapture
<1>6. CASE \E what \in {"disconnect", "close"} : Ask(what, t)
  <2>1. /\ status[t] = "connected" /\ asked'.sid = sid[t]
        /\ UNCHANGED <<status, sid, cancelled, flights, sess, pinged, recording>>
    BY <1>6 DEF Ask
  <2> QED BY <2>1 DEF Untouched, Opening, FirstOK, LiveOK
<1> QED BY <1>1, <1>2, <1>3, <1>4, <1>5, <1>6 DEF UserActs

\* A step about another tab.
LEMMA OtherTab ==
    ASSUME ReconnectAssumption, TypeOK, NEW t \in Tabs, TabOK(t), NEW u \in Tabs, u # t,
           \/ UserActs(u) \/ Answers(u) \/ TimerFires(u)
           \/ \E s \in Known : HandleClosed(u, s)
           \/ \E s \in Known, end \in {"dropped", "ended"} : SessionEnds(u, s, end)
    PROVE  TabOK(t)'
<1> USE DEF tabVars, retryVars, Reconnects
<1>1. CASE UserActs(u)
  <2>1. \/ \E how \in Hows : flights' = Started({u}, how)
        \/ flights' = flights
    BY <1>1 DEF UserActs, OpenSession, CancelConnecting, CloseTab, ManualReconnect,
                PlainReconnect, StopRetry, Ask, Hows
  <2>2. \A h \in Hows : flights'[<<t, h>>] = flights[<<t, h>>] BY <2>1, FlightMoves
  <2>3. /\ status'[t] = status[t] /\ sid'[t] = sid[t] /\ sess' = sess
        /\ t \in cancelled => t \in cancelled'
        /\ recording' = recording
    BY <1>1 DEF UserActs, OpenSession, CancelConnecting, CloseTab, ManualReconnect,
                PlainReconnect, StopRetry, Ask, TypeOK
  <2>4. NoCapture(t)
    BY <1>1 DEF UserActs, OpenSession, CancelConnecting, CloseTab, ManualReconnect,
                PlainReconnect, StopRetry, Ask, NoCapture
  <2> QED BY <2>2, <2>3, <2>4, TabKept DEF Same
<1>2. CASE OpenAnswers(u) \/ OpenFails(u)
  <2>1. \A h \in Hows : flights'[<<t, h>>] = flights[<<t, h>>]
    BY <1>2, FlightMoves DEF OpenAnswers, OpenFails
  <2>2. /\ status'[t] = status[t] /\ sid'[t] = sid[t]
        /\ t \in cancelled => t \in cancelled'
        /\ t \in recording' => t \in recording
    BY <1>2 DEF OpenAnswers, OpenFails, CaughtIn, TypeOK
  <2>3. \A s \in Known : sess'[<<t, s>>] = sess[<<t, s>>]
    BY <1>2 DEF OpenAnswers, OpenFails, TypeOK
  <2>4. NoCapture(t) BY <1>2 DEF OpenAnswers, OpenFails, NoCapture
  <2> QED BY <2>1, <2>2, <2>3, <2>4, TabKept DEF Same
<1>3. ASSUME NEW how \in Hows \ {"open"}, ReconnectAnswers(u, how) PROVE TabOK(t)'
  <2>1. \A h \in Hows : flights'[<<t, h>>] = flights[<<t, h>>]
    BY <1>3, FlightMoves DEF ReconnectAnswers
  <2>2. /\ status'[t] = status[t] /\ sid'[t] = sid[t]
        /\ cancelled' = cancelled /\ recording' = recording
    BY <1>3 DEF ReconnectAnswers, TypeOK
  <2>3. \A s \in Known : sess'[<<t, s>>] = sess[<<t, s>>]
    BY <1>3 DEF ReconnectAnswers, TypeOK
  <2>4. asked' # None /\ asked'.tab = t =>
            asked # None /\ asked.tab = t /\ asked'.sid = asked.sid
    <3>1. CASE asked' = asked BY <3>1
    <3>2. CASE asked' # asked
      <4>1. /\ asked # None /\ asked.tab = u
            /\ asked' = [asked EXCEPT !.sid = Aged(u, <<u, @>>)[2]]
        BY <1>3, <3>2 DEF ReconnectAnswers
      <4>2. asked \in Question BY <4>1 DEF TypeOK
      <4>3. asked'.tab = u BY <4>1, <4>2 DEF Question
      <4> QED BY <4>3
    <3> QED BY <3>1, <3>2
  <2>5. \A p \in pinged' : p[1] = t => p \in pinged
    BY <1>3 DEF ReconnectAnswers, Aged
  <2> QED BY <2>1, <2>2, <2>3, <2>4, <2>5, TabKept DEF Same, NoCapture
<1>4. ASSUME NEW how \in Hows \ {"open"}, ReconnectFails(u, how) PROVE TabOK(t)'
  <2>1. \A h \in Hows : flights'[<<t, h>>] = flights[<<t, h>>]
    BY <1>4, FlightMoves DEF ReconnectFails
  <2> QED BY <1>4, <2>1, TabKept DEF ReconnectFails, Same, NoCapture
<1>5. CASE TimerFires(u)
  <2>1. \A h \in Hows : flights'[<<t, h>>] = flights[<<t, h>>]
    BY <1>5, FlightMoves DEF TimerFires
  <2> QED BY <1>5, <2>1, TabKept DEF TimerFires, Same, NoCapture
<1>6. ASSUME NEW s \in Known, HandleClosed(u, s) PROVE TabOK(t)'
  <2>1. \A x \in Known : sess'[<<t, x>>] = sess[<<t, x>>]
    BY <1>6 DEF HandleClosed, TypeOK
  <2> QED BY <1>6, <2>1, TabKept DEF HandleClosed, Same, NoCapture, TypeOK
<1>7. ASSUME NEW s \in Known, NEW end \in {"dropped", "ended"}, SessionEnds(u, s, end)
      PROVE  TabOK(t)'
  <2>1. \A x \in Known : sess'[<<t, x>>] = sess[<<t, x>>]
    BY <1>7 DEF SessionEnds, TypeOK
  <2> QED BY <1>7, <2>1, TabKept DEF SessionEnds, Same, NoCapture, TypeOK
<1>8. CASE RecordingStarts(u) \/ RecordingFails(u)
  <2>1. /\ status'[t] = status[t]
        /\ t \in cancelled => t \in cancelled'
        /\ t \in recording' => t \in recording
    BY <1>8 DEF RecordingStarts, RecordingFails, CaughtIn, TypeOK
  <2>2. \A s \in Known : sess'[<<t, s>>] = sess[<<t, s>>]
    BY <1>8 DEF RecordingStarts, RecordingFails, TypeOK
  <2>3. UNCHANGED <<sid, flights>> /\ NoCapture(t)
    BY <1>8 DEF RecordingStarts, RecordingFails, NoCapture
  <2> QED BY <2>1, <2>2, <2>3, TabKept DEF Same
<1> QED BY <1>1, <1>2, <1>3, <1>4, <1>5, <1>6, <1>7, <1>8 DEF Answers

\* An answer, a timer or an event of the tab itself.
LEMMA EventTab ==
    ASSUME ReconnectAssumption, TypeOK, TypeOK', NEW t \in Tabs, TabOK(t),
           \/ Answers(t) \/ TimerFires(t)
           \/ \E s \in Known : HandleClosed(t, s)
           \/ \E s \in Known, end \in {"dropped", "ended"} : SessionEnds(t, s, end)
    PROVE  TabOK(t)'
<1> USE DEF tabVars, retryVars, Reconnects, TabOK
<1> Hows = {"open", "auto", "manual", "plain"} /\ Known = {"first", "later"} BY DEF Hows, Known
<1>1. ASSUME OpenAnswers(t) \/ OpenFails(t), ~TooLate(t) PROVE TabOK(t)'
  <2>1. /\ status[t] = "connecting" /\ flights[<<t, "open">>] = 1
    <3>1. flights[<<t, "open">>] \in Nat BY FlightMoves
    <3>2. flights[<<t, "open">>] > 0 /\ t \notin cancelled
      BY <1>1 DEF OpenAnswers, OpenFails, TooLate
    <3> QED BY <3>1, <3>2 DEF Opening
  <2>2. /\ flights'[<<t, "open">>] = 0
        /\ \A h \in Hows \ {"open"} : flights'[<<t, h>>] = flights[<<t, h>>]
    <3>1. flights' = Landed(t, "open") BY <1>1 DEF OpenAnswers, OpenFails
    <3>2. flights'[<<t, "open">>] = 0
      <4>1. flights'[<<t, "open">>] = flights[<<t, "open">>] - 1 BY <3>1, AfterLand
      <4> QED BY <4>1, <2>1
    <3>3. \A h \in Hows : h # "open" => flights'[<<t, h>>] = flights[<<t, h>>]
      BY <3>1, AfterLand
    <3> QED BY <3>2, <3>3
  <2>3. UNCHANGED <<asked, pinged>> BY <1>1 DEF OpenAnswers, OpenFails
  <2>4. CASE OpenAnswers(t)
    <3>1. status'[t] = "connected" /\ sid'[t] = "first" /\ sess'[<<t, "first">>] = "up"
      BY <1>1, <2>4 DEF OpenAnswers, TypeOK
    <3> QED BY <2>1, <2>2, <2>3, <3>1 DEF Untouched, Opening, FirstOK, LiveOK
  <2>5. CASE OpenFails(t)
    <3>1. status'[t] = "disconnected" /\ UNCHANGED <<sid, sess, recording>>
      BY <1>1, <2>5 DEF OpenFails, CaughtIn, TypeOK
    <3> QED BY <2>1, <2>2, <2>3, <3>1 DEF Untouched, Opening, FirstOK, LiveOK
  <2> QED BY <1>1, <2>4, <2>5
<1>2. ASSUME OpenAnswers(t) \/ OpenFails(t), TooLate(t) PROVE TabOK(t)'
  <2>1. /\ flights'[<<t, "open">>] = 0
        /\ \A h \in Hows \ {"open"} : flights'[<<t, h>>] = flights[<<t, h>>]
    <3>1. flights' = Landed(t, "open") /\ flights[<<t, "open">>] > 0
      BY <1>2 DEF OpenAnswers, OpenFails
    <3>2. flights[<<t, "open">>] \in Nat BY FlightMoves
    <3>3. flights'[<<t, "open">>] = 0
      <4>1. flights'[<<t, "open">>] = flights[<<t, "open">>] - 1 BY <3>1, AfterLand
      <4> QED BY <4>1, <3>1, <3>2 DEF Opening
    <3>4. \A h \in Hows : h # "open" => flights'[<<t, h>>] = flights[<<t, h>>]
      BY <3>1, AfterLand
    <3> QED BY <3>3, <3>4
  <2>2. UNCHANGED <<status, sid, sess, asked, pinged, recording>>
    BY <1>2 DEF OpenAnswers, OpenFails, CaughtIn
  <2> QED BY <2>1, <2>2 DEF Untouched, Opening, FirstOK, LiveOK
<1>3. ASSUME NEW how \in Hows \ {"open"}, ReconnectAnswers(t, how) PROVE TabOK(t)'
  <2>1. /\ status[t] \notin {"none", "connecting"}
        /\ sess[<<t, "first">>] # "up"
    <3>1. flights[<<t, how>>] > 0 BY <1>3 DEF ReconnectAnswers
    <3>2. flights[<<t, how>>] \in Nat BY FlightMoves
    <3> QED BY <3>1, <3>2 DEF Untouched, FirstOK
  <2>2. /\ flights'[<<t, "open">>] = flights[<<t, "open">>]
        /\ cancelled' = cancelled /\ recording' = recording
    <3>1. flights' = Landed(t, how) /\ cancelled' = cancelled /\ recording' = recording
      BY <1>3 DEF ReconnectAnswers
    <3> QED BY <3>1, AfterLand
  <2>3. sess'[<<t, "first">>] = sess[<<t, "first">>]
    BY <1>3 DEF ReconnectAnswers, TypeOK
  <2>4. \/ status'[t] = "closed"
        \/ status'[t] = "connected" /\ sid'[t] = "later" /\ sess'[<<t, "later">>] = "up"
    BY <1>3 DEF ReconnectAnswers, TypeOK
  <2> QED BY <2>1, <2>2, <2>3, <2>4 DEF Untouched, Opening, FirstOK, LiveOK
<1>4. ASSUME NEW how \in Hows \ {"open"}, ReconnectFails(t, how) PROVE TabOK(t)'
  <2>1. /\ flights[<<t, how>>] > 0 /\ flights' = Landed(t, how)
        /\ UNCHANGED <<status, sid, cancelled, sess, recording>>
    BY <1>4 DEF ReconnectFails
  <2>2. status[t] \notin {"none", "connecting"} /\ sess[<<t, "first">>] # "up"
    <3>1. flights[<<t, how>>] \in Nat BY FlightMoves
    <3> QED BY <2>1, <3>1 DEF Untouched, FirstOK
  <2>3. flights'[<<t, "open">>] = flights[<<t, "open">>] BY <2>1, AfterLand
  <2> QED BY <2>1, <2>2, <2>3 DEF Untouched, Opening, FirstOK, LiveOK
<1>5. CASE TimerFires(t)
  <2>1. UNCHANGED <<status, sid, cancelled, sess, asked, pinged, recording>>
    BY <1>5 DEF TimerFires
  <2>2. CASE flights' = flights BY <2>1, <2>2, TabKept DEF Same, NoCapture
  <2>3. CASE flights' # flights
    <3>1. status[t] = "disconnected" /\ flights' = Started({t}, "auto")
      BY <1>5, <2>3 DEF TimerFires
    <3>2. flights'[<<t, "open">>] = flights[<<t, "open">>] BY <3>1, AfterStart
    <3> QED BY <2>1, <3>1, <3>2 DEF Untouched, Opening, FirstOK, LiveOK
  <2> QED BY <2>2, <2>3
<1>6. ASSUME NEW s \in Known, HandleClosed(t, s) PROVE TabOK(t)'
  <2>1. /\ UNCHANGED <<sid, cancelled, flights, asked, pinged, recording>>
        /\ sess'[<<t, s>>] = "down" /\ sess[<<t, s>>] \notin {"up", "astray"}
        /\ \A x \in Known : x # s => sess'[<<t, x>>] = sess[<<t, x>>]
        /\ status'[t] = IF sid[t] = s THEN "disconnected" ELSE status[t]
    BY <1>6 DEF HandleClosed, Holds, TypeOK
  <2> QED BY <2>1 DEF Untouched, Opening, FirstOK, LiveOK
<1>7. ASSUME NEW s \in Known, NEW end \in {"dropped", "ended"}, SessionEnds(t, s, end)
      PROVE  TabOK(t)'
  <2>1. /\ UNCHANGED <<status, sid, cancelled, flights, asked, pinged, recording>>
        /\ sess[<<t, s>>] \in {"up", "astray"} /\ sess'[<<t, s>>] = end
        /\ \A x \in Known : x # s => sess'[<<t, x>>] = sess[<<t, x>>]
    BY <1>7 DEF SessionEnds, Runs, TypeOK
  <2> QED BY <2>1 DEF Untouched, Opening, FirstOK, LiveOK
<1>8. CASE RecordingStarts(t)
  BY <1>8, TabKept DEF RecordingStarts, Same, NoCapture
<1>9. CASE RecordingFails(t)
  <2>1. /\ UNCHANGED <<sid, flights, asked, pinged>>
        /\ t \in recording /\ t \notin recording'
        /\ status'[t] \in {status[t], "disconnected"}
    BY <1>9 DEF RecordingFails, CaughtIn, TypeOK
  <2>2. /\ sess'[<<t, "first">>] # "up"
        /\ \A s \in Known : sess'[<<t, s>>] = "down" => sess[<<t, s>>] = "down"
    BY <1>9 DEF RecordingFails, TypeOK
  <2> QED BY <2>1, <2>2 DEF Untouched, Opening, FirstOK, LiveOK
<1> QED BY <1>1, <1>2, <1>3, <1>4, <1>5, <1>6, <1>7, <1>8, <1>9 DEF Answers

\* The network and the machine: attempts start for disconnected tabs only, and the
\* capture is of what the connected tabs hold.
LEMMA WakeTab ==
    ASSUME ReconnectAssumption, TypeOK, NEW t \in Tabs, TabOK(t), GoOnline \/ Resume
    PROVE  TabOK(t)'
<1> USE DEF tabVars, retryVars, Reconnects, TabOK
<1> Hows = {"open", "auto", "manual", "plain"} /\ Known = {"first", "later"} BY DEF Hows, Known
<1>1. /\ UNCHANGED <<status, sid, cancelled, sess, asked, recording>> /\ RetryPendingNow
      /\ \A p \in pinged' : p \in pinged
             \/ (status[p[1]] = "connected" /\ p[2] = sid[p[1]])
  <2>1. CASE GoOnline
    <3>1. UNCHANGED <<status, sid, cancelled, sess, asked, pinged, recording>> /\ RetryPendingNow
      BY <2>1 DEF GoOnline
    <3> QED BY <3>1
  <2>2. CASE Resume
    <3>1. pinged' = {<<u, sid[u]>> : u \in {v \in Tabs : status[v] = "connected"}}
      BY <2>2 DEF Resume
    <3>2. UNCHANGED <<status, sid, cancelled, sess, asked, recording>> /\ RetryPendingNow
      BY <2>2 DEF Resume
    <3> QED BY <3>1, <3>2
  <2> QED BY <2>1, <2>2
<1>2. \A h \in Hows : h # "auto" \/ status[t] # "disconnected" =>
         flights'[<<t, h>>] = flights[<<t, h>>]
  BY <1>1, RetryFacts
<1>3. Untouched(t)' BY <1>1, <1>2 DEF Untouched
<1>4. Opening(t)' BY <1>1, <1>2 DEF Opening
<1>5. FirstOK(t)' BY <1>1, <1>2 DEF FirstOK
<1>6. LiveOK(t)' BY <1>1 DEF LiveOK
<1> QED BY <1>3, <1>4, <1>5, <1>6

LEMMA PingTab ==
    ASSUME ReconnectAssumption, TypeOK, NEW t \in Tabs, TabOK(t),
           NEW dead \in SUBSET pinged, PingsReturn(dead)
    PROVE  TabOK(t)'
<1> USE DEF TabOK, Reconnects
<1> Known = {"first", "later"} BY DEF Known
<1> DEFINE hit == \E p \in dead : p[1] = t
<1>1. /\ UNCHANGED <<sid, cancelled, flights, asked, recording>> /\ pinged' = {}
      /\ status'[t] = IF hit /\ status[t] # "closed" THEN "disconnected" ELSE status[t]
  BY DEF PingsReturn, TypeOK
<1>2. \A s \in Known : sess'[<<t, s>>] = IF <<t, s>> \in dead /\ Runs(<<t, s>>)
                                         THEN "down" ELSE sess[<<t, s>>]
  BY DEF PingsReturn, Disconnected, Runs, TypeOK
<1>3. CASE ~hit
  <2>1. \A s \in Known : sess'[<<t, s>>] = sess[<<t, s>>] BY <1>2, <1>3
  <2> QED BY <1>1, <1>3, <2>1, TabKept DEF Same, NoCapture
<1>4. CASE hit
  <2>1. PICK p \in dead : p[1] = t BY <1>4
  <2>2. p \in pinged /\ p = <<p[1], p[2]>> BY DEF TypeOK
  <2>3. status[t] \notin {"none", "connecting"} BY <2>1, <2>2 DEF Untouched
  <2>4. sess'[<<t, "first">>] # "up"
    <3>1. sess[<<t, "first">>] = "up" => <<t, "first">> \in dead
      BY <2>1, <2>2 DEF FirstOK
    <3> QED BY <1>2, <3>1 DEF Runs
  <2> HIDE DEF hit
  <2>5. status'[t] \in {"closed", "disconnected"} BY <1>1, <1>4
  <2> QED BY <1>1, <2>3, <2>4, <2>5 DEF Untouched, Opening, FirstOK, LiveOK
<1> QED BY <1>3, <1>4

LEMMA ConfirmTab ==
    ASSUME ReconnectAssumption, TypeOK, NEW t \in Tabs, TabOK(t),
           ConfirmDisconnect \/ ConfirmClose
    PROVE  TabOK(t)'
<1> USE DEF TabOK, Reconnects
<1> Known = {"first", "later"} BY DEF Known
<1>1. /\ UNCHANGED <<cancelled, flights, pinged, recording>> /\ asked' = None
      /\ asked # None /\ asked \in Question
      /\ \A s \in Known : sess'[<<t, s>>] =
             IF asked.tab = t /\ asked.sid = s /\ Runs(<<t, s>>) THEN "down"
                                                                      ELSE sess[<<t, s>>]
  BY DEF ConfirmDisconnect, ConfirmClose, Disconnected, Runs, TypeOK
<1>2. CASE asked.tab # t
  <2>1. status'[t] = status[t] /\ sid'[t] = sid[t]
    BY <1>2 DEF ConfirmDisconnect, ConfirmClose, TypeOK
  <2>2. \A s \in Known : sess'[<<t, s>>] = sess[<<t, s>>] BY <1>1, <1>2
  <2> QED BY <1>1, <2>1, <2>2, TabKept DEF Same, NoCapture
<1>3. CASE asked.tab = t
  <2>1. status[t] \notin {"none", "connecting"} BY <1>1, <1>3 DEF Untouched
  <2>2. status'[t] \in {"closed", "disconnected"}
    BY <1>3 DEF ConfirmDisconnect, ConfirmClose, TypeOK
  <2>3. sess'[<<t, "first">>] # "up" BY <1>1, <1>3 DEF FirstOK, Runs
  <2> QED BY <1>1, <2>1, <2>2, <2>3 DEF Untouched, Opening, FirstOK, LiveOK
<1> QED BY <1>2, <1>3

LEMMA SessionsNext ==
    ASSUME ReconnectAssumption, TypeOK, TypeOK', SessionsOK, [Next]_vars
    PROVE  SessionsOK'
<1> SUFFICES ASSUME NEW t \in Tabs PROVE TabOK(t)'
  BY DEF SessionsOK
<1>1. TabOK(t) BY DEF SessionsOK
<1>2. ASSUME NEW u \in Tabs, UserActs(u) \/ Answers(u) \/ TimerFires(u) PROVE TabOK(t)'
  BY <1>1, <1>2, OtherTab, UserTab, EventTab
<1>3. ASSUME NEW u \in Tabs, NEW s \in Known,
             HandleClosed(u, s) \/ \E end \in {"dropped", "ended"} : SessionEnds(u, s, end)
      PROVE  TabOK(t)'
  BY <1>1, <1>3, OtherTab, EventTab
<1>4. CASE GoOnline \/ Resume BY <1>1, <1>4, WakeTab
<1>5. ASSUME NEW dead \in SUBSET pinged, PingsReturn(dead) PROVE TabOK(t)'
  BY <1>1, <1>5, PingTab
<1>6. CASE ConfirmDisconnect \/ ConfirmClose BY <1>1, <1>6, ConfirmTab
<1>7. CASE GoOffline \/ Decline \/ (\E n \in Limits : ChangePolicy(n)) \/ UNCHANGED vars
  BY <1>1, <1>7, TabKept DEF GoOffline, Decline, ChangePolicy, vars, tabVars, Same, NoCapture
<1> QED BY <1>2, <1>3, <1>4, <1>5, <1>6, <1>7 DEF Next

-----------------------------------------------------------------------------
(* Theorems                                                                *)

IInv == RetryInv /\ SessionsOK

LEMMA InvInit == ASSUME ReconnectAssumption, Init PROVE IInv
<1>1. TypeOK BY TypeInit
<1>2. TimerOK /\ NoStuckRetry BY DEF Init, TimerOK, NoStuckRetry
<1>3. SessionsOK
  BY DEF Init, SessionsOK, TabOK, Untouched, Opening, FirstOK, LiveOK, Hows, Known, Reconnects
<1> QED BY <1>1, <1>2, <1>3 DEF IInv, RetryInv

LEMMA InvNext == ASSUME ReconnectAssumption, IInv, [Next]_vars PROVE IInv'
<1>1. TypeOK' BY TypeNext DEF IInv, RetryInv
<1>2. TimerOK' /\ NoStuckRetry' BY <1>1, RetryNext DEF IInv, RetryInv
<1>3. SessionsOK' BY <1>1, SessionsNext DEF IInv, RetryInv
<1> QED BY <1>1, <1>2, <1>3 DEF IInv, RetryInv

LEMMA InvHolds == Spec => []IInv
BY InvInit, InvNext, ReconnectAssumption, PTL DEF Spec

\* The variables keep their types whatever overlaps; in particular the attempt that
\* the timer gives back offline was taken before.
THEOREM TypeCorrect == Spec => []TypeOK
<1>1. IInv => TypeOK BY DEF IInv, RetryInv
<1> QED BY <1>1, InvHolds, PTL

\* No timer of an automatic reconnect outlives its entry.
THEOREM TimerHasEntryHolds == Spec => []TimerHasEntry
<1>1. IInv => TimerHasEntry BY DEF IInv, RetryInv, TimerOK, TimerHasEntry
<1> QED BY <1>1, InvHolds, PTL

\* A pending tab without a timer has an attempt under way, is halted or is offline.
THEOREM NoStuckRetryHolds == Spec => []NoStuckRetry
<1>1. IInv => NoStuckRetry BY DEF IInv, RetryInv
<1> QED BY <1>1, InvHolds, PTL

\* The session of a cancelled, closed or overtaken opening is never left running
\* unseen, unless starting its recording failed.
THEOREM OpenedIsShownHolds == Spec => []OpenedIsShown
<1>1. IInv => OpenedIsShown BY DEF IInv, SessionsOK, TabOK, FirstOK, OpenedIsShown
<1> QED BY <1>1, InvHolds, PTL

\* A tab that shows a dead session as connected is going to hear of it.
THEOREM DeadTabHasNewsHolds == Spec => []DeadTabHasNews
<1>1. IInv => DeadTabHasNews BY DEF IInv, SessionsOK, TabOK, LiveOK, DeadTabHasNews
<1> QED BY <1>1, InvHolds, PTL

\* Only a tab that is not halted is given an entry.
LEMMA NoEntryWhenHalted ==
    ASSUME ReconnectAssumption, TypeOK, [Next]_vars
    PROVE  \A t \in halted \ pending : t \in halted' => t \notin pending'
<1> SUFFICES ASSUME NEW t \in halted, t \notin pending PROVE t \notin pending'
  OBVIOUS
<1> USE DEF tabVars, retryVars
<1>1. ASSUME NEW u \in Tabs, UserActs(u) PROVE t \notin pending'
  BY <1>1 DEF UserActs, OpenSession, CancelConnecting, CloseTab, ManualReconnect,
              PlainReconnect, StopRetry, Ask, CancelAutoReconnect, Forget
<1>2. ASSUME NEW u \in Tabs, Answers(u) \/ TimerFires(u) PROVE t \notin pending'
  <2>1. CASE \/ OpenAnswers(u) \/ OpenFails(u) \/ TimerFires(u)
             \/ RecordingStarts(u) \/ RecordingFails(u)
    BY <2>1
    DEF OpenAnswers, OpenFails, RecordingStarts, RecordingFails, TimerFires,
        CancelAutoReconnect, Forget
  <2>2. ASSUME NEW how \in Reconnects, ReconnectAnswers(u, how) PROVE t \notin pending'
    BY <2>2 DEF ReconnectAnswers, CancelAutoReconnect, Forget
  <2>3. ASSUME NEW how \in Reconnects, ReconnectFails(u, how) PROVE t \notin pending'
    BY <2>3 DEF ReconnectFails, Schedule, Again
  <2> QED BY <1>2, <2>1, <2>2, <2>3 DEF Answers
<1>3. ASSUME NEW u \in Tabs, NEW s \in Known,
             HandleClosed(u, s) \/ \E end \in {"dropped", "ended"} : SessionEnds(u, s, end)
      PROVE  t \notin pending'
  BY <1>3 DEF HandleClosed, SessionEnds, Schedule, Again
<1>4. CASE GoOnline \/ Resume
  <2>1. RetryPendingNow BY <1>4 DEF GoOnline, Resume
  <2> QED BY <2>1, RetryFacts
<1>5. ASSUME NEW dead \in SUBSET pinged, PingsReturn(dead) PROVE t \notin pending'
  BY <1>5 DEF PingsReturn, Schedule, Again
<1>6. CASE \/ GoOffline \/ Decline \/ ConfirmDisconnect \/ ConfirmClose
           \/ \E n \in Limits : ChangePolicy(n)
           \/ UNCHANGED vars
  BY <1>6 DEF GoOffline, Decline, ConfirmDisconnect, ConfirmClose, ChangePolicy, vars
<1> QED BY <1>1, <1>2, <1>3, <1>4, <1>5, <1>6 DEF Next

\* A stopped series gets no entry again while its tab is halted.
THEOREM StoppedStaysStoppedHolds == Spec => StoppedStaysStopped
<1>1. IInv /\ [Next]_vars => [\A t \in halted \ pending : t \in halted' => t \notin pending']_vars
  BY NoEntryWhenHalted, ReconnectAssumption DEF IInv, RetryInv
<1> QED BY <1>1, InvHolds, PTL DEF Spec, StoppedStaysStopped

-----------------------------------------------------------------------------
(* The promise made to the user                                            *)

\* Without an entry the count is at zero.
RestInv == \A t \in Tabs : t \notin pending => attempt[t] = 0

Moves(t) ==
    Promise!Rests(t) \/ Promise!Tries(t) \/ Promise!GivesBack(t) \/ Promise!Ends(t)
    \/ Promise!Halts(t)

LEMMA RestMoves ==
    ASSUME UNCHANGED <<pending, attempt, halted>>
    PROVE  \A t \in Tabs : Moves(t)
BY DEF Moves, Promise!Rests, Promise!Kept, Promise!HaltKept

\* scheduleAutoReconnect counts up within the limit, or gives the series up.
LEMMA ScheduleMoves ==
    ASSUME ReconnectAssumption, TypeOK, RestInv, NEW S \in SUBSET Tabs, NEW C, Schedule(S, C),
           halted' = halted
    PROVE  \A t \in Tabs : Moves(t)
<1> SUFFICES ASSUME NEW t \in Tabs PROVE Moves(t)
  OBVIOUS
<1>1. /\ attempt' = [u \in Tabs |-> IF u \in Again(S) THEN attempt[u] + 1
                                    ELSE IF u \in Exhausted(S) THEN 0 ELSE attempt[u]]
      /\ pending' = (pending \cup Again(S)) \ Exhausted(S)
  BY DEF Schedule
<1>2. attempt[t] \in Nat /\ limit \in Nat
  BY DEF TypeOK, ReconnectAssumption
<1>3. CASE t \in Again(S)
  <2>1. t \notin halted /\ attempt[t] + 1 <= limit
    BY <1>3 DEF Again
  <2>2. t \notin Exhausted(S)
    BY <1>2, <2>1 DEF Exhausted
  <2>3. attempt'[t] = attempt[t] + 1 /\ t \in pending'
    BY <1>1, <1>3, <2>2
  <2>4. attempt'[t] = IF t \in pending THEN attempt[t] + 1 ELSE 1
    BY <1>2, <2>3 DEF RestInv
  <2> QED
    BY <2>1, <2>3, <2>4 DEF Moves, Promise!Tries, Promise!HaltKept
<1>4. CASE t \in Exhausted(S)
  <2>1. t \notin Again(S)
    BY <1>2, <1>4 DEF Again, Exhausted
  <2> QED
    BY <1>1, <1>4, <2>1 DEF Moves, Promise!Ends
<1>5. CASE t \notin Again(S) \cup Exhausted(S)
  BY <1>1, <1>5 DEF Moves, Promise!Rests, Promise!Kept, Promise!HaltKept
<1> QED
  BY <1>3, <1>4, <1>5

\* An entry that goes takes its count along.
LEMMA ForgetMoves ==
    ASSUME TypeOK, NEW u \in Tabs, Forget(u), \A t \in Tabs \ {u} : t \in halted' <=> t \in halted
    PROVE  \A t \in Tabs : Moves(t)
<1>1. Promise!Ends(u)
  BY DEF Forget, TypeOK, Promise!Ends
<1>2. \A t \in Tabs \ {u} : Promise!Rests(t)
  BY DEF Forget, TypeOK, Promise!Rests, Promise!Kept, Promise!HaltKept
<1> QED
  BY <1>1, <1>2 DEF Moves

LEMMA TimerMoves ==
    ASSUME TypeOK, TimerOK, NEW u \in Tabs, TimerFires(u)
    PROVE  \A t \in Tabs : Moves(t)
<1>1. CASE status[u] # "disconnected"
  <2>1. Forget(u) /\ halted' = halted \ {u}
    BY <1>1 DEF TimerFires, CancelAutoReconnect
  <2> QED
    BY <2>1, ForgetMoves
<1>2. CASE status[u] = "disconnected"
  <2>1. /\ attempt' = [attempt EXCEPT ![u] = IF online THEN @ ELSE GivenBack(@)]
        /\ pending' = pending /\ halted' = halted
    BY <1>2 DEF TimerFires
  <2>2. u \in pending
    BY DEF TimerFires, TimerOK
  <2>3. \A t \in Tabs \ {u} : Promise!Rests(t)
    BY <2>1 DEF TypeOK, Promise!Rests, Promise!Kept, Promise!HaltKept
  <2>4. CASE online
    BY <2>1, <2>3, <2>4 DEF TypeOK, Moves, Promise!Rests, Promise!Kept, Promise!HaltKept
  <2>5. CASE ~online
    <3>1. Promise!GivesBack(u)
      BY <2>1, <2>2, <2>5 DEF TypeOK, GivenBack, Promise!GivesBack, Promise!HaltKept
    <3> QED
      BY <2>3, <3>1 DEF Moves
  <2> QED
    BY <2>4, <2>5
<1> QED
  BY <1>1, <1>2

LEMMA StepMoves ==
    ASSUME ReconnectAssumption, TypeOK, TimerOK, RestInv, [Next]_vars
    PROVE  \A t \in Tabs : Moves(t)
<1> USE DEF tabVars, retryVars
<1>1. ASSUME NEW u \in Tabs, UserActs(u) PROVE \A t \in Tabs : Moves(t)
  <2>1. CASE ManualReconnect(u) \/ StopRetry(u)
    <3>1. Forget(u) /\ \A t \in Tabs \ {u} : t \in halted' <=> t \in halted
      BY <2>1 DEF ManualReconnect, StopRetry, CancelAutoReconnect
    <3> QED
      BY <3>1, ForgetMoves
  <2>2. CASE \/ OpenSession(u) \/ CancelConnecting(u) \/ CloseTab(u) \/ PlainReconnect(u)
             \/ \E what \in {"disconnect", "close"} : Ask(what, u)
    <3>1. UNCHANGED <<pending, attempt, halted>>
      BY <2>2 DEF OpenSession, CancelConnecting, CloseTab, PlainReconnect, Ask
    <3> QED
      BY <3>1, RestMoves
  <2> QED
    BY <1>1, <2>1, <2>2 DEF UserActs
<1>2. ASSUME NEW u \in Tabs, \/ OpenAnswers(u) \/ OpenFails(u)
                            \/ RecordingStarts(u) \/ RecordingFails(u)
      PROVE  \A t \in Tabs : Moves(t)
  <2>1. UNCHANGED <<pending, attempt, halted>>
    BY <1>2 DEF OpenAnswers, OpenFails, RecordingStarts, RecordingFails
  <2> QED
    BY <2>1, RestMoves
<1>3. ASSUME NEW u \in Tabs, NEW how \in Reconnects, ReconnectAnswers(u, how)
      PROVE  \A t \in Tabs : Moves(t)
  <2>1. CASE UNCHANGED <<pending, attempt, halted>>
    BY <2>1, RestMoves
  <2>2. CASE CancelAutoReconnect(u)
    <3>1. Forget(u) /\ halted' = halted \ {u}
      BY <2>2 DEF CancelAutoReconnect
    <3> QED
      BY <3>1, ForgetMoves
  <2> QED
    BY <1>3, <2>1, <2>2 DEF ReconnectAnswers
<1>4. ASSUME NEW u \in Tabs, NEW how \in Reconnects, ReconnectFails(u, how)
      PROVE  \A t \in Tabs : Moves(t)
  <2>1. CASE UNCHANGED <<pending, attempt, halted>>
    BY <2>1, RestMoves
  <2>2. CASE Schedule({u}, {})
    <3>1. halted' = halted
      BY <1>4 DEF ReconnectFails
    <3> QED
      BY <2>2, <3>1, ScheduleMoves
  <2> QED
    BY <1>4, <2>1, <2>2 DEF ReconnectFails
<1>5. ASSUME NEW u \in Tabs, NEW s \in Known, HandleClosed(u, s)
      PROVE  \A t \in Tabs : Moves(t)
  <2>1. /\ Schedule(IF Holds(u, s) /\ sess[<<u, s>>] = "dropped" THEN {u} ELSE {}, {})
        /\ halted' = halted
    BY <1>5 DEF HandleClosed
  <2>2. (IF Holds(u, s) /\ sess[<<u, s>>] = "dropped" THEN {u} ELSE {}) \in SUBSET Tabs
    OBVIOUS
  <2> QED
    BY <2>1, <2>2, ScheduleMoves
<1>6. CASE GoOnline \/ Resume
  <2> DEFINE ids  == pending \ halted
             idle == {t \in ids : status[t] # "disconnected"}
  <2>1. Schedule(idle, ids) /\ halted' = halted
    BY <1>6 DEF GoOnline, Resume, RetryPendingNow
  <2>2. idle \in SUBSET Tabs
    BY DEF TypeOK
  <2> HIDE DEF ids, idle
  <2> QED
    BY <2>1, <2>2, ScheduleMoves
<1>7. ASSUME NEW dead \in SUBSET pinged, PingsReturn(dead) PROVE \A t \in Tabs : Moves(t)
  <2> DEFINE tabs == {t \in Tabs : \E p \in dead : p[1] = t}
  <2>1. Schedule(tabs, {}) /\ halted' = halted
    BY <1>7 DEF PingsReturn
  <2>2. tabs \in SUBSET Tabs
    OBVIOUS
  <2> HIDE DEF tabs
  <2> QED
    BY <2>1, <2>2, ScheduleMoves
<1>8. CASE ConfirmDisconnect
  <2>1. pending' = pending /\ attempt' = attempt /\ halted' = halted \cup {asked.tab}
    BY <1>8 DEF ConfirmDisconnect
  <2> QED
    BY <2>1 DEF Moves, Promise!Rests, Promise!Halts, Promise!Kept, Promise!HaltKept
<1>9. CASE \/ GoOffline \/ Decline \/ ConfirmClose \/ UNCHANGED vars
           \/ \E n \in Limits : ChangePolicy(n)
           \/ \E u \in Tabs, s \in Known, end \in {"dropped", "ended"} : SessionEnds(u, s, end)
  <2>1. UNCHANGED <<pending, attempt, halted>>
    BY <1>9 DEF GoOffline, Decline, ConfirmClose, ChangePolicy, SessionEnds, vars
  <2> QED
    BY <2>1, RestMoves
<1>10. ASSUME NEW u \in Tabs, TimerFires(u) PROVE \A t \in Tabs : Moves(t)
  BY <1>10, TimerMoves
<1> QED
  BY <1>1, <1>2, <1>3, <1>4, <1>5, <1>6, <1>7, <1>8, <1>9, <1>10 DEF Next, Answers

LEMMA RestInvariance == Spec => []RestInv
<1>1. Init => RestInv
  BY DEF Init, RestInv
<1>2. IInv /\ RestInv /\ [Next]_vars => RestInv'
  <2> SUFFICES ASSUME IInv, RestInv, [Next]_vars, NEW t \in Tabs, t \notin pending'
               PROVE  attempt'[t] = 0
    BY DEF RestInv
  <2>1. Moves(t)
    BY StepMoves, ReconnectAssumption DEF IInv, RetryInv
  <2> QED
    BY <2>1 DEF RestInv, Moves, Promise!Rests, Promise!Tries, Promise!GivesBack, Promise!Ends,
                Promise!Halts, Promise!Kept
<1> QED
  BY <1>1, <1>2, InvHolds, PTL DEF Spec

\* The entries, timers and halts of the tabs implement the promise: attempts are
\* counted within the limit in force, and a halted tab is left alone.
THEOREM PromiseKept == Spec => KeepsPromise
<1> USE ReconnectAssumption
<1>1. Init => Promise!Init
  BY DEF Init, Promise!Init
<1>2. IInv /\ IInv' /\ RestInv /\ [Next]_vars => [Promise!Next]_Promise!vars
  <2> SUFFICES ASSUME IInv, IInv', RestInv, [Next]_vars PROVE Promise!Next
    OBVIOUS
  <2>1. \A t \in Tabs : Moves(t)
    BY StepMoves DEF IInv, RetryInv
  <2>2. Promise!TypeOK'
    BY DEF IInv, RetryInv, TypeOK, Promise!TypeOK
  <2> QED
    BY <2>1, <2>2 DEF Moves, Promise!Next
<1> QED
  BY <1>1, <1>2, InvHolds, RestInvariance, PTL DEF Spec, KeepsPromise, Promise!Spec
=============================================================================

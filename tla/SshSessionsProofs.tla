-------------------------- MODULE SshSessionsProofs --------------------------
(***************************************************************************)
(* TLAPS proofs about SshSessions, for any number of sessions, docker-exec *)
(* children and forwards: type correctness, and the inductive invariant    *)
(* behind the safety properties of the runs.                               *)
(***************************************************************************)
EXTENDS SshSessions, TLAPS

USE SessionsAssumption

\* Moving a forward's instance to another state keeps its type.
LEMMA MoveToType ==
    ASSUME TypeOK, NEW f \in Fwds, NEW st \in FwdState, MoveTo(f, st)
    PROVE  fwd' \in [Fwds -> FwdRecord]
  BY DEF FwdRecord, MoveTo, TypeOK

\* stop_session keeps the types of what it changes.
LEMMA StopSessionType ==
    ASSUME TypeOK, NEW s \in Ids, StopSession(s)
    PROVE  /\ fwd' \in [Fwds -> FwdRecord]
           /\ carry' \in [Ids -> SUBSET Fwds]
           /\ UNCHANGED <<conn, stuck, restore>>
<1>1. fwd' \in [Fwds -> FwdRecord]
  BY DEF TypeOK, StopSession, Registered, FwdState, FwdRecord, Unregistered
<1> QED
  BY <1>1 DEF TypeOK, StopSession, Kept, Registered

\* Every variable keeps its type, whatever the sets of sessions and forwards.
THEOREM TypeCorrect == Spec => []TypeOK
<1>1. Init => TypeOK
  BY DEF Init, TypeOK, Clients, OwnerPc, ExecPc, Tasks, DisPc, FwdState, FwdRecord,
         Sources, NoForward, Ids
<1>2. TypeOK /\ [Next]_vars => TypeOK'
  <2> SUFFICES ASSUME TypeOK, [Next]_vars PROVE TypeOK'
    OBVIOUS
  <2>1. ASSUME NEW o \in Owners, ConnectOpen(o) PROVE TypeOK'
    BY <2>1
    DEF TypeOK, ConnectOpen, sessionVars, forwardVars, lockVars, Clients, OwnerPc, Tasks, DisPc,
        Ids
  <2>2. ASSUME NEW o \in Owners, ConnectInsert(o) PROVE TypeOK'
    BY <2>2
    DEF TypeOK, ConnectInsert, sessionVars, forwardVars, lockVars, Clients, OwnerPc, Tasks,
        DisPc, Ids
  <2>3. ASSUME NEW o \in Owners, ConnectSpawn(o) PROVE TypeOK'
    BY <2>3
    DEF TypeOK, ConnectSpawn, sessionVars, forwardVars, lockVars, Clients, OwnerPc, Tasks,
        DisPc, Ids
  <2>4. ASSUME NEW o \in Owners, LoseTransport(o) PROVE TypeOK'
    BY <2>4
    DEF TypeOK, LoseTransport, sessionVars, forwardVars, lockVars, Clients, OwnerPc, Tasks,
        DisPc, Ids
  <2>5. ASSUME NEW o \in Ids, DisconnectClient(o) PROVE TypeOK'
    BY <2>5
    DEF TypeOK, DisconnectClient, sessionVars, forwardVars, lockVars, Clients, OwnerPc, Tasks,
        DisPc, Ids
  <2>6. ASSUME NEW e \in Execs, NEW o \in Owners, ExecLookup(e, o) PROVE TypeOK'
    BY <2>6 DEF TypeOK, ExecLookup, sessionVars, forwardVars, lockVars, ExecPc, Ids
  <2>7. ASSUME NEW e \in Execs, ExecAsk(e) PROVE TypeOK'
    BY <2>7 DEF TypeOK, ExecAsk, sessionVars, forwardVars, lockVars, ExecPc, Tasks, Ids
  <2>8. ASSUME NEW e \in Execs, ExecAnswer(e) PROVE TypeOK'
    BY <2>8 DEF TypeOK, ExecAnswer, sessionVars, forwardVars, lockVars, ExecPc, Tasks, Ids
  <2>9. ASSUME NEW e \in Execs, ExecRefused(e) PROVE TypeOK'
    BY <2>9 DEF TypeOK, ExecRefused, sessionVars, forwardVars, lockVars, ExecPc, Tasks, Ids
  <2>10. ASSUME NEW e \in Execs, ExecInsert(e) PROVE TypeOK'
    BY <2>10 DEF TypeOK, ExecInsert, sessionVars, forwardVars, lockVars, ExecPc, Tasks, Ids
  <2>11. ASSUME NEW e \in Execs, ExecSpawn(e) PROVE TypeOK'
    BY <2>11 DEF TypeOK, ExecSpawn, sessionVars, forwardVars, lockVars, ExecPc, Tasks, Ids
  <2>12. ASSUME NEW s \in Ids, Disconnect(s) PROVE TypeOK'
    BY <2>12 DEF TypeOK, Disconnect, sessionVars, forwardVars, lockVars, Tasks, DisPc
  <2>13. ASSUME NEW s \in Ids, DisconnectRemove(s) PROVE TypeOK'
    BY <2>13
    DEF TypeOK, DisconnectRemove, OwnsClient, sessionVars, forwardVars, lockVars, Tasks, DisPc
  <2>14. ASSUME NEW s \in Ids, Write(s) PROVE TypeOK'
    BY <2>14 DEF TypeOK, Write, sessionVars, forwardVars, lockVars, Tasks, DisPc
  <2>15. ASSUME NEW s \in Ids, IoRemoteClosed(s) PROVE TypeOK'
    BY <2>15 DEF TypeOK, IoRemoteClosed, sessionVars, forwardVars, lockVars, Tasks, DisPc
  <2>16. ASSUME NEW s \in Ids, IoData(s) PROVE TypeOK'
    BY <2>16 DEF TypeOK, IoData, sessionVars, forwardVars, lockVars, Tasks, DisPc
  <2>17. ASSUME NEW s \in Ids, IoClose(s) PROVE TypeOK'
    BY <2>17 DEF TypeOK, IoClose, sessionVars, forwardVars, lockVars, Tasks, DisPc
  <2>18. ASSUME NEW s \in Ids, DisconnectForwards(s) PROVE TypeOK'
    <3>1. CASE StopSession(s)
      BY <3>1, <2>18, StopSessionType
      DEF TypeOK, DisconnectForwards, HangInStopSession, sessionVars, forwardVars, lockVars,
          Tasks, DisPc
    <3>2. CASE HangInStopSession(s)
      BY <3>2, <2>18
      DEF TypeOK, DisconnectForwards, HangInStopSession, sessionVars, forwardVars, lockVars,
          Tasks, DisPc
    <3> QED
      BY <3>1, <3>2, <2>18 DEF DisconnectForwards
  <2>19. ASSUME NEW s \in Ids, IoTellClosed(s) PROVE TypeOK'
    <3>1. CASE StopSession(s)
      BY <3>1, <2>19, StopSessionType
      DEF TypeOK, IoTellClosed, HangInStopSession, sessionVars, forwardVars, lockVars, Tasks,
          DisPc
    <3>2. CASE HangInStopSession(s)
      BY <3>2, <2>19
      DEF TypeOK, IoTellClosed, HangInStopSession, sessionVars, forwardVars, lockVars, Tasks,
          DisPc
    <3> QED
      BY <3>1, <3>2, <2>19 DEF IoTellClosed
  <2>20. ASSUME NEW f \in Fwds, ForwardBind(f) PROVE TypeOK'
    <3>1. fwd' \in [Fwds -> FwdRecord]
      BY <2>20, MoveToType DEF ForwardBind, FwdState
    <3> QED
      BY <2>20, <3>1 DEF TypeOK, ForwardBind, sessionVars, forwardVars, lockVars
  <2>21. ASSUME NEW f \in Fwds, ForwardAsk(f) PROVE TypeOK'
    <3>1. fwd' \in [Fwds -> FwdRecord]
      BY <2>21, MoveToType DEF ForwardAsk, FwdState
    <3> QED
      BY <2>21, <3>1 DEF TypeOK, ForwardAsk, sessionVars, forwardVars, lockVars
  <2>22. ASSUME NEW f \in Fwds, ForwardAnswer(f) PROVE TypeOK'
    <3>1. fwd' \in [Fwds -> FwdRecord]
      BY <2>22, MoveToType DEF ForwardAnswer, FwdState
    <3> QED
      BY <2>22, <3>1 DEF TypeOK, ForwardAnswer, sessionVars, forwardVars, lockVars
  <2>23. ASSUME NEW f \in Fwds, ForwardInsert(f) PROVE TypeOK'
    <3>1. fwd' \in [Fwds -> FwdRecord]
      BY <2>23, MoveToType DEF ForwardInsert, FwdState
    <3> QED
      BY <2>23, <3>1 DEF TypeOK, ForwardInsert, sessionVars, forwardVars, lockVars
  <2>24. ASSUME NEW f \in Fwds, AcceptError(f) PROVE TypeOK'
    <3>1. fwd' \in [Fwds -> FwdRecord]
      BY <2>24, MoveToType DEF AcceptError, FwdState
    <3> QED
      BY <2>24, <3>1 DEF TypeOK, AcceptError, sessionVars, forwardVars, lockVars
  <2>25. ASSUME NEW f \in Fwds, RemoveForward(f) PROVE TypeOK'
    <3>1. fwd' \in [Fwds -> FwdRecord]
      BY <2>25, MoveToType DEF RemoveForward, Unregistered, FwdState
    <3> QED
      BY <2>25, <3>1 DEF TypeOK, RemoveForward, sessionVars, forwardVars, lockVars
  <2>26. ASSUME NEW f \in Fwds, ListenerStops(f) PROVE TypeOK'
    <3>1. fwd' \in [Fwds -> FwdRecord]
      BY <2>26, MoveToType DEF ListenerStops, FwdState
    <3> QED
      BY <2>26, <3>1 DEF TypeOK, ListenerStops, sessionVars, forwardVars, lockVars
  <2>27. ASSUME NEW f \in Fwds, CancelAsk(f) PROVE TypeOK'
    <3>1. fwd' \in [Fwds -> FwdRecord]
      BY <2>27, MoveToType DEF CancelAsk, FwdState
    <3> QED
      BY <2>27, <3>1 DEF TypeOK, CancelAsk, sessionVars, forwardVars, lockVars
  <2>28. ASSUME NEW f \in Fwds, CancelAnswer(f) PROVE TypeOK'
    <3>1. fwd' \in [Fwds -> FwdRecord]
      BY <2>28, MoveToType DEF CancelAnswer, FwdState
    <3> QED
      BY <2>28, <3>1 DEF TypeOK, CancelAnswer, sessionVars, forwardVars, lockVars
  <2>29. ASSUME NEW f \in Fwds, Accept(f) PROVE TypeOK'
    BY <2>29 DEF TypeOK, Accept, EndConnection, sessionVars, forwardVars, lockVars
  <2>30. ASSUME NEW f \in Fwds, ConnAsk(f) PROVE TypeOK'
    BY <2>30 DEF TypeOK, ConnAsk, EndConnection, sessionVars, forwardVars, lockVars
  <2>31. ASSUME NEW f \in Fwds, ConnAnswer(f) PROVE TypeOK'
    BY <2>31 DEF TypeOK, ConnAnswer, EndConnection, sessionVars, forwardVars, lockVars
  <2>32. ASSUME NEW f \in Fwds, ConnRefused(f) PROVE TypeOK'
    BY <2>32 DEF TypeOK, ConnRefused, EndConnection, sessionVars, forwardVars, lockVars
  <2>33. ASSUME NEW f \in Fwds, ConnEnds(f) PROVE TypeOK'
    BY <2>33 DEF TypeOK, ConnEnds, EndConnection, sessionVars, forwardVars, lockVars
  <2>34. ASSUME NEW f \in Fwds, NEW s \in Owners, StartProfileForward(s, f) PROVE TypeOK'
    <3>1. fwd' \in [Fwds -> FwdRecord]
      BY <2>34 DEF TypeOK, StartProfileForward, FwdRecord, FwdState, Sources, Ids
    <3> QED
      BY <2>34, <3>1 DEF TypeOK, StartProfileForward, sessionVars, forwardVars, lockVars
  <2>35. ASSUME NEW f \in Fwds, NEW s \in Ids, AddForward(f, s) PROVE TypeOK'
    <3>1. fwd' \in [Fwds -> FwdRecord]
      BY <2>35 DEF TypeOK, AddForward, FwdRecord, FwdState, Sources, Ids
    <3> QED
      BY <2>35, <3>1 DEF TypeOK, AddForward, sessionVars, forwardVars, lockVars
  <2>36. ASSUME NEW f \in Fwds, NEW s \in Ids, RestoreNext(f, s) PROVE TypeOK'
    <3>1. fwd' \in [Fwds -> FwdRecord]
      BY <2>36 DEF TypeOK, RestoreNext, FwdRecord, FwdState, Sources, Ids
    <3> QED
      BY <2>36, <3>1 DEF TypeOK, RestoreNext, sessionVars, forwardVars, lockVars
  <2>37. ASSUME NEW from \in Ids, NEW to \in Ids, TakeCarry(from, to) PROVE TypeOK'
    BY <2>37 DEF TypeOK, TakeCarry, sessionVars, forwardVars, lockVars
  <2>38. CASE UNCHANGED vars
    BY <2>38 DEF TypeOK, vars, sessionVars, forwardVars, lockVars
  <2> QED
    BY <2>1, <2>2, <2>3, <2>4, <2>5, <2>6, <2>7, <2>8, <2>9, <2>10, <2>11, <2>12, <2>13, <2>14,
       <2>15, <2>16, <2>17, <2>18, <2>19, <2>20, <2>21, <2>22, <2>23, <2>24, <2>25, <2>26,
       <2>27, <2>28, <2>29, <2>30, <2>31, <2>32, <2>33, <2>34, <2>35, <2>36, <2>37, <2>38
    DEF Next, Connect, ExecSteps, DisconnectSteps, Io, ForwardSteps
<1> QED
  BY <1>1, <1>2, PTL DEF Spec

\* Forward steps touch neither the sessions nor the sessions lock.
LEMMA ForwardStepsLeaveSessions ==
    ASSUME NEW f \in Fwds,
           ForwardSteps(f) \/ AcceptError(f) \/ RemoveForward(f) \/ Accept(f) \/ ConnEnds(f)
    PROVE  UNCHANGED <<sessionVars, sessionsLock>>
  BY DEF ForwardSteps, ForwardBind, ForwardAsk, ForwardAnswer, ForwardInsert,
         ListenerStops, CancelAsk, CancelAnswer, ConnAsk, ConnAnswer, ConnRefused,
         AcceptError, RemoveForward, Accept, ConnEnds, EndConnection, lockVars

\* The invariant that relates the calls, the map, the transports and the tasks
\* is inductive.
THEOREM SafetyInvariant == Spec => []SafetyInv
<1>1. Init => SafetyInv
  BY DEF Init, SafetyInv, OwnerInv, ExecInv, TaskInv, Ids
<1>2. TypeOK /\ SafetyInv /\ [Next]_vars => SafetyInv'
  <2> SUFFICES ASSUME TypeOK, SafetyInv, [Next]_vars PROVE SafetyInv'
    OBVIOUS
  <2> USE DEF TypeOK, SafetyInv
  <2>1. ASSUME NEW o \in Owners, ConnectOpen(o) PROVE SafetyInv'
    <3>1. OwnerInv'
      BY <2>1 DEF ConnectOpen, sessionVars, lockVars, OwnerInv, Ids
    <3>2. ExecInv'
      BY <2>1 DEF ConnectOpen, sessionVars, lockVars, OwnerInv, ExecInv, Ids
    <3>3. TaskInv'
      BY <2>1
      DEF ConnectOpen, sessionVars, lockVars, OwnerInv, ExecInv, TaskInv, Ids, Root, TransportGone
    <3> QED
      BY <3>1, <3>2, <3>3
  <2>2. ASSUME NEW o \in Owners, ConnectInsert(o) PROVE SafetyInv'
    <3>1. OwnerInv'
      BY <2>2 DEF ConnectInsert, sessionVars, lockVars, OwnerInv, Ids
    <3>2. ExecInv'
      BY <2>2 DEF ConnectInsert, sessionVars, lockVars, OwnerInv, ExecInv, Ids
    <3>3. TaskInv'
      BY <2>2
      DEF ConnectInsert, sessionVars, lockVars, OwnerInv, ExecInv, TaskInv, Ids, Root,
          TransportGone
    <3> QED
      BY <3>1, <3>2, <3>3
  <2>3. ASSUME NEW o \in Owners, ConnectSpawn(o) PROVE SafetyInv'
    <3>1. OwnerInv'
      BY <2>3 DEF ConnectSpawn, sessionVars, lockVars, OwnerInv, Ids
    <3>2. ExecInv'
      BY <2>3 DEF ConnectSpawn, sessionVars, lockVars, OwnerInv, ExecInv, Ids
    <3>3. TaskInv'
      BY <2>3
      DEF ConnectSpawn, sessionVars, lockVars, OwnerInv, ExecInv, TaskInv, Ids, Root,
          TransportGone
    <3> QED
      BY <3>1, <3>2, <3>3
  <2>4. ASSUME NEW o \in Owners, LoseTransport(o) PROVE SafetyInv'
    <3>1. OwnerInv'
      BY <2>4 DEF LoseTransport, sessionVars, lockVars, OwnerInv, Ids
    <3>2. ExecInv'
      BY <2>4 DEF LoseTransport, sessionVars, lockVars, OwnerInv, ExecInv, Ids
    <3>3. TaskInv'
      BY <2>4
      DEF LoseTransport, sessionVars, lockVars, OwnerInv, ExecInv, TaskInv, Ids, Root,
          TransportGone
    <3> QED
      BY <3>1, <3>2, <3>3
  <2>5. ASSUME NEW o \in Ids, DisconnectClient(o) PROVE SafetyInv'
    <3>1. OwnerInv'
      BY <2>5 DEF DisconnectClient, sessionVars, lockVars, OwnerInv, ExecInv, Root, Ids
    <3>2. ExecInv'
      BY <2>5 DEF DisconnectClient, sessionVars, lockVars, OwnerInv, ExecInv, Root, Ids
    <3>3. TaskInv'
      BY <2>5
      DEF DisconnectClient, sessionVars, lockVars, OwnerInv, ExecInv, TaskInv, Ids, Root,
          TransportGone
    <3> QED
      BY <3>1, <3>2, <3>3
  <2>6. ASSUME NEW e \in Execs, NEW o \in Owners, ExecLookup(e, o) PROVE SafetyInv'
    <3>1. OwnerInv'
      BY <2>6 DEF ExecLookup, sessionVars, lockVars, OwnerInv, Ids
    <3>2. ExecInv'
      BY <2>6 DEF ExecLookup, sessionVars, lockVars, OwnerInv, ExecInv, Ids
    <3>3. TaskInv'
      BY <2>6
      DEF ExecLookup, sessionVars, lockVars, OwnerInv, ExecInv, TaskInv, Ids, Root, TransportGone
    <3> QED
      BY <3>1, <3>2, <3>3
  <2>7. ASSUME NEW e \in Execs, ExecAsk(e) PROVE SafetyInv'
    <3>1. OwnerInv'
      BY <2>7 DEF ExecAsk, sessionVars, lockVars, OwnerInv, Ids
    <3>2. ExecInv'
      BY <2>7 DEF ExecAsk, sessionVars, lockVars, OwnerInv, ExecInv, Ids
    <3>3. TaskInv'
      BY <2>7
      DEF ExecAsk, sessionVars, lockVars, OwnerInv, ExecInv, TaskInv, Ids, Root, TransportGone
    <3> QED
      BY <3>1, <3>2, <3>3
  <2>8. ASSUME NEW e \in Execs, ExecAnswer(e) PROVE SafetyInv'
    <3>1. OwnerInv'
      BY <2>8 DEF ExecAnswer, sessionVars, lockVars, OwnerInv, Ids
    <3>2. ExecInv'
      BY <2>8 DEF ExecAnswer, sessionVars, lockVars, OwnerInv, ExecInv, Ids
    <3>3. TaskInv'
      BY <2>8
      DEF ExecAnswer, sessionVars, lockVars, OwnerInv, ExecInv, TaskInv, Ids, Root, TransportGone
    <3> QED
      BY <3>1, <3>2, <3>3
  <2>9. ASSUME NEW e \in Execs, ExecRefused(e) PROVE SafetyInv'
    <3>1. OwnerInv'
      BY <2>9 DEF ExecRefused, sessionVars, lockVars, OwnerInv, Ids
    <3>2. ExecInv'
      BY <2>9 DEF ExecRefused, sessionVars, lockVars, OwnerInv, ExecInv, Ids
    <3>3. TaskInv'
      BY <2>9
      DEF ExecRefused, sessionVars, lockVars, OwnerInv, ExecInv, TaskInv, Ids, Root, TransportGone
    <3> QED
      BY <3>1, <3>2, <3>3
  <2>10. ASSUME NEW e \in Execs, ExecInsert(e) PROVE SafetyInv'
    <3>1. OwnerInv'
      BY <2>10 DEF ExecInsert, sessionVars, lockVars, OwnerInv, Ids
    <3>2. ExecInv'
      BY <2>10 DEF ExecInsert, sessionVars, lockVars, OwnerInv, ExecInv, Ids
    <3>3. TaskInv'
      BY <2>10
      DEF ExecInsert, sessionVars, lockVars, OwnerInv, ExecInv, TaskInv, Ids, Root, TransportGone
    <3> QED
      BY <3>1, <3>2, <3>3
  <2>11. ASSUME NEW e \in Execs, ExecSpawn(e) PROVE SafetyInv'
    <3>1. OwnerInv'
      BY <2>11 DEF ExecSpawn, sessionVars, lockVars, OwnerInv, Ids
    <3>2. ExecInv'
      BY <2>11 DEF ExecSpawn, sessionVars, lockVars, OwnerInv, ExecInv, Ids
    <3>3. TaskInv'
      BY <2>11
      DEF ExecSpawn, sessionVars, lockVars, OwnerInv, ExecInv, TaskInv, Ids, Root, TransportGone
    <3> QED
      BY <3>1, <3>2, <3>3
  <2>12. ASSUME NEW s \in Ids, Disconnect(s) PROVE SafetyInv'
    <3>1. OwnerInv'
      BY <2>12 DEF Disconnect, sessionVars, lockVars, OwnerInv, Ids
    <3>2. ExecInv'
      BY <2>12 DEF Disconnect, sessionVars, lockVars, OwnerInv, ExecInv, Ids
    <3>3. TaskInv'
      BY <2>12
      DEF Disconnect, sessionVars, lockVars, OwnerInv, ExecInv, TaskInv, Ids, Root, TransportGone
    <3> QED
      BY <3>1, <3>2, <3>3
  <2>13. ASSUME NEW s \in Ids, DisconnectRemove(s) PROVE SafetyInv'
    <3> USE DEF OwnsClient
    \* Children are not owners: the only owner that can leave the map is s.
    <3>1. \A o \in Owners : o \in sessions' <=> o \in sessions /\ o # s
      BY <2>13 DEF DisconnectRemove
    <3>2. /\ UNCHANGED <<parent, client, pc, task, told>>
          /\ sessions' \subseteq sessions
          /\ closeSent \subseteq closeSent'
          /\ sessionsLock = NoOne
          /\ dis[s] = "remove"
      BY <2>13 DEF DisconnectRemove, SessionsFree
    <3>3. CASE s \in sessions \cap Owners
      <4>1. sessionsLock' = s /\ dis' = [dis EXCEPT ![s] = "client"]
        BY <2>13, <3>3 DEF DisconnectRemove
      <4>2. OwnerInv'
        BY <3>1, <3>2, <3>3, <4>1 DEF OwnerInv, Ids
      <4>3. ExecInv'
        BY <3>1, <3>2, <3>3, <4>1 DEF ExecInv, Ids
      <4> QED
        BY <4>2, <4>3, <3>2 DEF TaskInv, TransportGone, Root
    <3>4. CASE s \notin sessions \cap Owners
      <4>1. sessionsLock' = sessionsLock /\ dis' = [dis EXCEPT ![s] = "done"]
        BY <2>13, <3>4 DEF DisconnectRemove
      <4>2. OwnerInv'
        BY <3>1, <3>2, <3>4, <4>1 DEF OwnerInv, Ids
      <4>3. ExecInv'
        BY <3>1, <3>2, <3>4, <4>1 DEF ExecInv, Ids
      <4> QED
        BY <4>2, <4>3, <3>2 DEF TaskInv, TransportGone, Root
    <3> QED
      BY <3>3, <3>4
  <2>14. ASSUME NEW s \in Ids, Write(s) PROVE SafetyInv'
    <3>1. OwnerInv'
      BY <2>14 DEF Write, sessionVars, lockVars, OwnerInv, Ids
    <3>2. ExecInv'
      BY <2>14 DEF Write, sessionVars, lockVars, OwnerInv, ExecInv, Ids
    <3>3. TaskInv'
      BY <2>14
      DEF Write, sessionVars, lockVars, OwnerInv, ExecInv, TaskInv, Ids, Root, TransportGone
    <3> QED
      BY <3>1, <3>2, <3>3
  <2>15. ASSUME NEW s \in Ids, IoRemoteClosed(s) PROVE SafetyInv'
    <3>1. OwnerInv'
      BY <2>15 DEF IoRemoteClosed, sessionVars, lockVars, OwnerInv, Ids
    <3>2. ExecInv'
      BY <2>15 DEF IoRemoteClosed, sessionVars, lockVars, OwnerInv, ExecInv, Ids
    <3>3. TaskInv'
      BY <2>15
      DEF IoRemoteClosed, sessionVars, lockVars, OwnerInv, ExecInv, TaskInv, Ids, Root,
          TransportGone
    <3> QED
      BY <3>1, <3>2, <3>3
  <2>16. ASSUME NEW s \in Ids, IoData(s) PROVE SafetyInv'
    <3>1. OwnerInv'
      BY <2>16 DEF IoData, sessionVars, lockVars, OwnerInv, Ids
    <3>2. ExecInv'
      BY <2>16 DEF IoData, sessionVars, lockVars, OwnerInv, ExecInv, Ids
    <3>3. TaskInv'
      BY <2>16
      DEF IoData, sessionVars, lockVars, OwnerInv, ExecInv, TaskInv, Ids, Root, TransportGone
    <3> QED
      BY <3>1, <3>2, <3>3
  <2>17. ASSUME NEW s \in Ids, IoClose(s) PROVE SafetyInv'
    <3>1. OwnerInv'
      BY <2>17 DEF IoClose, sessionVars, lockVars, OwnerInv, Ids
    <3>2. ExecInv'
      BY <2>17 DEF IoClose, sessionVars, lockVars, OwnerInv, ExecInv, Ids
    <3>3. TaskInv'
      BY <2>17
      DEF IoClose, sessionVars, lockVars, OwnerInv, ExecInv, TaskInv, Ids, Root, TransportGone
    <3> QED
      BY <3>1, <3>2, <3>3
  <2>18. ASSUME NEW s \in Ids, DisconnectForwards(s) PROVE SafetyInv'
    <3>1. OwnerInv'
      BY <2>18 DEF DisconnectForwards, sessionVars, lockVars, OwnerInv, Ids, HangInStopSession
    <3>2. ExecInv'
      BY <2>18
      DEF DisconnectForwards, sessionVars, lockVars, OwnerInv, ExecInv, Ids, HangInStopSession
    <3>3. TaskInv'
      BY <2>18
      DEF DisconnectForwards, sessionVars, lockVars, OwnerInv, ExecInv, TaskInv, Ids, Root,
          TransportGone, HangInStopSession
    <3> QED
      BY <3>1, <3>2, <3>3
  <2>19. ASSUME NEW s \in Ids, IoTellClosed(s) PROVE SafetyInv'
    <3>1. OwnerInv'
      BY <2>19 DEF IoTellClosed, sessionVars, lockVars, OwnerInv, Ids, HangInStopSession
    <3>2. ExecInv'
      BY <2>19 DEF IoTellClosed, sessionVars, lockVars, OwnerInv, ExecInv, Ids, HangInStopSession
    <3>3. TaskInv'
      BY <2>19
      DEF IoTellClosed, sessionVars, lockVars, OwnerInv, ExecInv, TaskInv, Ids, Root,
          TransportGone, HangInStopSession
    <3> QED
      BY <3>1, <3>2, <3>3
  <2>20. CASE UNCHANGED <<sessionVars, sessionsLock>>
    BY <2>20 DEF sessionVars, OwnerInv, ExecInv, TaskInv, Root, TransportGone
  <2>21. ASSUME NEW f \in Fwds, NEW s \in Ids,
                StartProfileForward(s, f) \/ AddForward(f, s) \/ RestoreNext(f, s)
         PROVE  SafetyInv'
    BY <2>21, <2>20 DEF StartProfileForward, AddForward, RestoreNext, TakeCarry, lockVars
  <2>22. ASSUME NEW from \in Ids, NEW to \in Ids, TakeCarry(from, to) PROVE SafetyInv'
    BY <2>22, <2>20 DEF StartProfileForward, AddForward, RestoreNext, TakeCarry, lockVars
  <2>23. CASE UNCHANGED vars
    BY <2>23, <2>20 DEF vars, lockVars
  <2> QED
    BY <2>1, <2>2, <2>3, <2>4, <2>5, <2>6, <2>7, <2>8, <2>9, <2>10, <2>11, <2>12, <2>13, <2>14,
       <2>15, <2>16, <2>17, <2>18, <2>19, <2>20, <2>21, <2>22, <2>23, ForwardStepsLeaveSessions
    DEF Next, Connect, ExecSteps, DisconnectSteps, Io, Ids
<1> QED
  BY <1>1, <1>2, TypeCorrect, PTL DEF Spec

\* An orphaned docker-exec session never has a transport of its own to live on.
THEOREM OrphansHaveNoTransport == Spec => []OrphanHasNoTransport
<1>1. SafetyInv => OrphanHasNoTransport
  BY DEF SafetyInv, ExecInv, OrphanHasNoTransport
<1> QED
  BY <1>1, SafetyInvariant, PTL

\* Only its own disconnect closes a connection.
THEOREM OwnersCloseTransports == Spec => []ClosedOnlyByOwner
<1>1. SafetyInv => ClosedOnlyByOwner
  BY DEF SafetyInv, OwnerInv, ClosedOnlyByOwner
<1> QED
  BY <1>1, SafetyInvariant, PTL

\* A shell task that ended without a word was told to, or lost its transport.
THEOREM SilentEndsExplained == Spec => []SilentEndExplained
<1>1. SafetyInv => SilentEndExplained
  BY DEF SafetyInv, TaskInv, SilentEndExplained
<1> QED
  BY <1>1, SafetyInvariant, PTL

\* The locks of sessions, handles and forwards: who holds one, and what for.
HandleInv ==
    \A o \in Owners, x \in Execs \cup Fwds : handleLock[o] = x <=> AtServer(x, o)

QueueInv == forwardsLock # NoOne => Registered \cap stuck # {}

LockInv == HandleInv /\ QueueInv /\ ForwardInv

Rests(st) == st \in {"live", "broken"}


\* What a forward that moves on keeps.
LEMMA MoveToKeeps ==
    ASSUME TypeOK, NEW f \in Fwds, NEW st \in FwdState, MoveTo(f, st)
    PROVE  \A g \in Fwds : /\ fwd'[g].sess = fwd[g].sess
                           /\ fwd'[g].st = IF g = f THEN st ELSE fwd[g].st
  BY DEF TypeOK, FwdRecord, MoveTo

\* stop_session asks nothing of the server and starts no forward.
LEMMA StopSessionKeeps ==
    ASSUME TypeOK, NEW s \in Ids, StopSession(s)
    PROVE  /\ UNCHANGED conn
           /\ \A g \in Fwds :
                 /\ fwd'[g].sess = fwd[g].sess
                 /\ fwd'[g].st # fwd[g].st =>
                       Rests(fwd[g].st) /\ fwd'[g].st \in {"idle", "stopping"}
  BY DEF TypeOK, FwdRecord, StopSession, Registered, Unregistered, Rests

\* Forwards that ask nothing before and after a step leave the handles alone.
LEMMA QuietForwards ==
    ASSUME LockInv, UNCHANGED <<handleLock, pc, parent, conn>>,
           \A g \in Fwds : /\ fwd'[g].sess = fwd[g].sess
                           /\ fwd'[g].st # fwd[g].st =>
                                 /\ fwd[g].st \notin {"idle", "asking", "cancelling"}
                                 /\ fwd'[g].st \notin {"asking", "cancelling"}
    PROVE  HandleInv' /\ ForwardInv'
<1>1. /\ handleLock' = handleLock
      /\ pc' = pc
      /\ parent' = parent
      /\ conn' = conn
  OBVIOUS
<1>2. ASSUME NEW g \in Fwds
      PROVE  /\ fwd'[g].st \in {"asking", "cancelling"} <=> fwd[g].st \in {"asking", "cancelling"}
             /\ fwd'[g].st # "idle" => fwd[g].st # "idle"
             /\ fwd'[g].sess = fwd[g].sess
             /\ Root(fwd[g].sess)' = Root(fwd[g].sess)
  <2>1. fwd'[g].sess = fwd[g].sess
    OBVIOUS
  <2>2. fwd'[g].st # fwd[g].st =>
          /\ fwd[g].st \notin {"idle", "asking", "cancelling"}
          /\ fwd'[g].st \notin {"asking", "cancelling"}
    OBVIOUS
  <2>3. Root(fwd[g].sess)' = Root(fwd[g].sess)
    BY <1>1, <2>1 DEF Root
  <2> QED
    BY <2>1, <2>2, <2>3
<1>3. ASSUME NEW o \in Owners, NEW x \in Execs \cup Fwds PROVE AtServer(x, o)' <=> AtServer(x, o)
  <2>1. CASE x \in Fwds
    BY <1>1, <1>2, <2>1 DEF AtServer
  <2>2. CASE x \notin Fwds
    BY <1>1, <2>2 DEF AtServer
  <2> QED
    BY <2>1, <2>2
<1>4. HandleInv'
  BY <1>1, <1>3 DEF LockInv, HandleInv
<1>5. ForwardInv'
  BY <1>1, <1>2 DEF LockInv, ForwardInv
<1> QED
  BY <1>4, <1>5

\* Forwards ask in the way of their direction, for sessions whose call began.
LEMMA ForwardInvStep ==
    ASSUME TypeOK, SafetyInv, LockInv, [Next]_vars
    PROVE  ForwardInv'
<1> USE
DEF TypeOK, SafetyInv, LockInv, ForwardInv, ExecInv, OwnerInv, Ids, FwdRecord, sessionVars,
    forwardVars, lockVars
<1>1. ASSUME NEW o \in Owners, ConnectOpen(o) PROVE ForwardInv'
  BY <1>1 DEF ConnectOpen
<1>2. ASSUME NEW o \in Owners, ConnectInsert(o) PROVE ForwardInv'
  BY <1>2 DEF ConnectInsert
<1>3. ASSUME NEW o \in Owners, ConnectSpawn(o) PROVE ForwardInv'
  BY <1>3 DEF ConnectSpawn
<1>4. ASSUME NEW o \in Owners, LoseTransport(o) PROVE ForwardInv'
  BY <1>4 DEF LoseTransport
<1>5. ASSUME NEW e \in Execs, NEW o \in Owners, ExecLookup(e, o) PROVE ForwardInv'
  BY <1>5 DEF ExecLookup
<1>6. ASSUME NEW e \in Execs, ExecAsk(e) PROVE ForwardInv'
  BY <1>6 DEF ExecAsk, HandleFree
<1>7. ASSUME NEW e \in Execs, ExecAnswer(e) PROVE ForwardInv'
  BY <1>7 DEF ExecAnswer
<1>8. ASSUME NEW e \in Execs, ExecRefused(e) PROVE ForwardInv'
  BY <1>8 DEF ExecRefused
<1>9. ASSUME NEW e \in Execs, ExecInsert(e) PROVE ForwardInv'
  BY <1>9 DEF ExecInsert
<1>10. ASSUME NEW e \in Execs, ExecSpawn(e) PROVE ForwardInv'
  BY <1>10 DEF ExecSpawn
<1>11. ASSUME NEW s \in Ids, Disconnect(s) PROVE ForwardInv'
  BY <1>11 DEF Disconnect
<1>12. ASSUME NEW s \in Ids, DisconnectForwards(s) PROVE ForwardInv'
  <2>1. CASE StopSession(s)
    <3>1. UNCHANGED <<handleLock, pc, parent>>
      BY <1>12 DEF DisconnectForwards, HangInStopSession
    <3> QED
      BY <2>1, <3>1, StopSessionKeeps, QuietForwards DEF Rests
  <2>2. CASE HangInStopSession(s)
    BY <1>12, <2>2 DEF DisconnectForwards, HangInStopSession
  <2> QED
    BY <1>12, <2>1, <2>2 DEF DisconnectForwards
<1>13. ASSUME NEW s \in Ids, DisconnectRemove(s) PROVE ForwardInv'
  BY <1>13 DEF DisconnectRemove
<1>14. ASSUME NEW s \in Ids, DisconnectClient(s) PROVE ForwardInv'
  BY <1>14 DEF DisconnectClient
<1>15. ASSUME NEW s \in Ids, Write(s) PROVE ForwardInv'
  BY <1>15 DEF Write
<1>16. ASSUME NEW s \in Ids, IoRemoteClosed(s) PROVE ForwardInv'
  BY <1>16 DEF IoRemoteClosed
<1>17. ASSUME NEW s \in Ids, IoTellClosed(s) PROVE ForwardInv'
  <2>1. CASE StopSession(s)
    <3>1. UNCHANGED <<handleLock, pc, parent>>
      BY <1>17 DEF IoTellClosed, HangInStopSession
    <3> QED
      BY <2>1, <3>1, StopSessionKeeps, QuietForwards DEF Rests
  <2>2. CASE HangInStopSession(s)
    BY <1>17, <2>2 DEF IoTellClosed, HangInStopSession
  <2> QED
    BY <1>17, <2>1, <2>2 DEF IoTellClosed
<1>18. ASSUME NEW s \in Ids, IoData(s) PROVE ForwardInv'
  BY <1>18 DEF IoData
<1>19. ASSUME NEW s \in Ids, IoClose(s) PROVE ForwardInv'
  BY <1>19 DEF IoClose
<1>20. ASSUME NEW f \in Fwds, ForwardBind(f) PROVE ForwardInv'
  <2>1. \E st \in {"bound", "idle"} : MoveTo(f, st)
    BY <1>20 DEF ForwardBind
  <2>2. {"bound", "idle"} \subseteq FwdState
    BY DEF FwdState
  <2> QED
    BY <1>20, <2>1, <2>2, MoveToKeeps, QuietForwards DEF ForwardBind
<1>21. ASSUME NEW f \in Fwds, ForwardAsk(f) PROVE ForwardInv'
  BY <1>21 DEF ForwardAsk, HandleFree, MoveTo
<1>22. ASSUME NEW f \in Fwds, ForwardAnswer(f) PROVE ForwardInv'
  <2>1. PICK st \in {"bound", "idle"} : MoveTo(f, st)
    BY <1>22 DEF ForwardAnswer
  <2>2. {"bound", "idle"} \subseteq FwdState
    BY DEF FwdState
  <2> QED
    BY <1>22, <2>1, <2>2, MoveToKeeps DEF ForwardAnswer
<1>23. ASSUME NEW f \in Fwds, ForwardInsert(f) PROVE ForwardInv'
  BY <1>23 DEF ForwardInsert, MoveTo
<1>24. ASSUME NEW f \in Fwds, ListenerStops(f) PROVE ForwardInv'
  BY <1>24 DEF ListenerStops, MoveTo
<1>25. ASSUME NEW f \in Fwds, CancelAsk(f) PROVE ForwardInv'
  BY <1>25 DEF CancelAsk, HandleFree, MoveTo
<1>26. ASSUME NEW f \in Fwds, CancelAnswer(f) PROVE ForwardInv'
  BY <1>26 DEF CancelAnswer, MoveTo
<1>27. ASSUME NEW f \in Fwds, ConnAsk(f) PROVE ForwardInv'
  BY <1>27 DEF ConnAsk, HandleFree
<1>28. ASSUME NEW f \in Fwds, ConnAnswer(f) PROVE ForwardInv'
  BY <1>28 DEF ConnAnswer
<1>29. ASSUME NEW f \in Fwds, ConnRefused(f) PROVE ForwardInv'
  BY <1>29 DEF ConnRefused, EndConnection
<1>30. ASSUME NEW f \in Fwds, AcceptError(f) PROVE ForwardInv'
  BY <1>30 DEF AcceptError, MoveTo
<1>31. ASSUME NEW f \in Fwds, RemoveForward(f) PROVE ForwardInv'
  BY <1>31 DEF RemoveForward, MoveTo, Unregistered
<1>32. ASSUME NEW f \in Fwds, Accept(f) PROVE ForwardInv'
  BY <1>32 DEF Accept
<1>33. ASSUME NEW f \in Fwds, ConnEnds(f) PROVE ForwardInv'
  BY <1>33 DEF ConnEnds, EndConnection
<1>34. ASSUME NEW f \in Fwds, NEW o \in Owners, StartProfileForward(o, f) PROVE ForwardInv'
  BY <1>34 DEF StartProfileForward, SlotFree
<1>35. ASSUME NEW f \in Fwds, NEW s \in Ids, AddForward(f, s) PROVE ForwardInv'
  BY <1>35 DEF AddForward, SlotFree
<1>36. ASSUME NEW f \in Fwds, NEW s \in Ids, RestoreNext(f, s) PROVE ForwardInv'
  <2>1. CASE fwd' = fwd
    BY <1>36, <2>1 DEF RestoreNext
  <2>2. CASE fwd' # fwd
    <3>1. /\ s \in sessions /\ SlotFree(f)
          /\ fwd' = [fwd EXCEPT ![f] = [st |-> "starting", sess |-> s, src |-> "restored"]]
      BY <1>36, <2>2 DEF RestoreNext
    <3>2. pc[s] # "idle"
      BY <3>1
    <3> QED
      BY <1>36, <3>1, <3>2 DEF RestoreNext, SlotFree
  <2> QED
    BY <2>1, <2>2
<1>37. ASSUME NEW from \in Ids, NEW to \in Ids, TakeCarry(from, to) PROVE ForwardInv'
  BY <1>37 DEF TakeCarry
<1>38. CASE UNCHANGED vars
  BY <1>38 DEF vars
<1> QED
  BY <1>1, <1>2, <1>3, <1>4, <1>5, <1>6, <1>7, <1>8, <1>9, <1>10, <1>11, <1>12, <1>13, <1>14,
     <1>15, <1>16, <1>17, <1>18, <1>19, <1>20, <1>21, <1>22, <1>23, <1>24, <1>25, <1>26, <1>27,
     <1>28, <1>29, <1>30, <1>31, <1>32, <1>33, <1>34, <1>35, <1>36, <1>37, <1>38
  DEF Next, Connect, ExecSteps, DisconnectSteps, Io, ForwardSteps

\* Forwards leave the map only when nobody hangs with the lock on it.
LEMMA QueueInvStep ==
    ASSUME TypeOK, SafetyInv, LockInv, [Next]_vars
    PROVE  QueueInv'
<1> USE
DEF TypeOK, LockInv, QueueInv, ForwardsFree, Registered, FwdRecord, sessionVars, forwardVars,
    lockVars
<1>1. ASSUME NEW o \in Owners, ConnectOpen(o) PROVE QueueInv'
  BY <1>1 DEF ConnectOpen
<1>2. ASSUME NEW o \in Owners, ConnectInsert(o) PROVE QueueInv'
  BY <1>2 DEF ConnectInsert
<1>3. ASSUME NEW o \in Owners, ConnectSpawn(o) PROVE QueueInv'
  BY <1>3 DEF ConnectSpawn
<1>4. ASSUME NEW o \in Owners, LoseTransport(o) PROVE QueueInv'
  BY <1>4 DEF LoseTransport
<1>5. ASSUME NEW e \in Execs, NEW o \in Owners, ExecLookup(e, o) PROVE QueueInv'
  BY <1>5 DEF ExecLookup
<1>6. ASSUME NEW e \in Execs, ExecAsk(e) PROVE QueueInv'
  BY <1>6 DEF ExecAsk, HandleFree
<1>7. ASSUME NEW e \in Execs, ExecAnswer(e) PROVE QueueInv'
  BY <1>7 DEF ExecAnswer
<1>8. ASSUME NEW e \in Execs, ExecRefused(e) PROVE QueueInv'
  BY <1>8 DEF ExecRefused
<1>9. ASSUME NEW e \in Execs, ExecInsert(e) PROVE QueueInv'
  BY <1>9 DEF ExecInsert
<1>10. ASSUME NEW e \in Execs, ExecSpawn(e) PROVE QueueInv'
  BY <1>10 DEF ExecSpawn
<1>11. ASSUME NEW s \in Ids, Disconnect(s) PROVE QueueInv'
  BY <1>11 DEF Disconnect
<1>12. ASSUME NEW s \in Ids, DisconnectForwards(s) PROVE QueueInv'
  BY <1>12 DEF DisconnectForwards, StopSession, HangInStopSession, Unregistered
<1>13. ASSUME NEW s \in Ids, DisconnectRemove(s) PROVE QueueInv'
  BY <1>13 DEF DisconnectRemove
<1>14. ASSUME NEW s \in Ids, DisconnectClient(s) PROVE QueueInv'
  BY <1>14 DEF DisconnectClient
<1>15. ASSUME NEW s \in Ids, Write(s) PROVE QueueInv'
  BY <1>15 DEF Write
<1>16. ASSUME NEW s \in Ids, IoRemoteClosed(s) PROVE QueueInv'
  BY <1>16 DEF IoRemoteClosed
<1>17. ASSUME NEW s \in Ids, IoTellClosed(s) PROVE QueueInv'
  BY <1>17 DEF IoTellClosed, StopSession, HangInStopSession, Unregistered
<1>18. ASSUME NEW s \in Ids, IoData(s) PROVE QueueInv'
  BY <1>18 DEF IoData
<1>19. ASSUME NEW s \in Ids, IoClose(s) PROVE QueueInv'
  BY <1>19 DEF IoClose
<1>20. ASSUME NEW f \in Fwds, ForwardBind(f) PROVE QueueInv'
  BY <1>20 DEF ForwardBind, MoveTo
<1>21. ASSUME NEW f \in Fwds, ForwardAsk(f) PROVE QueueInv'
  BY <1>21 DEF ForwardAsk, HandleFree, MoveTo
<1>22. ASSUME NEW f \in Fwds, ForwardAnswer(f) PROVE QueueInv'
  BY <1>22 DEF ForwardAnswer, MoveTo
<1>23. ASSUME NEW f \in Fwds, ForwardInsert(f) PROVE QueueInv'
  BY <1>23 DEF ForwardInsert, MoveTo
<1>24. ASSUME NEW f \in Fwds, ListenerStops(f) PROVE QueueInv'
  BY <1>24 DEF ListenerStops, MoveTo
<1>25. ASSUME NEW f \in Fwds, CancelAsk(f) PROVE QueueInv'
  BY <1>25 DEF CancelAsk, HandleFree, MoveTo
<1>26. ASSUME NEW f \in Fwds, CancelAnswer(f) PROVE QueueInv'
  BY <1>26 DEF CancelAnswer, MoveTo
<1>27. ASSUME NEW f \in Fwds, ConnAsk(f) PROVE QueueInv'
  BY <1>27 DEF ConnAsk, HandleFree
<1>28. ASSUME NEW f \in Fwds, ConnAnswer(f) PROVE QueueInv'
  BY <1>28 DEF ConnAnswer
<1>29. ASSUME NEW f \in Fwds, ConnRefused(f) PROVE QueueInv'
  BY <1>29 DEF ConnRefused, EndConnection
<1>30. ASSUME NEW f \in Fwds, AcceptError(f) PROVE QueueInv'
  BY <1>30 DEF AcceptError, MoveTo
<1>31. ASSUME NEW f \in Fwds, RemoveForward(f) PROVE QueueInv'
  BY <1>31 DEF RemoveForward, MoveTo, Unregistered
<1>32. ASSUME NEW f \in Fwds, Accept(f) PROVE QueueInv'
  BY <1>32 DEF Accept
<1>33. ASSUME NEW f \in Fwds, ConnEnds(f) PROVE QueueInv'
  BY <1>33 DEF ConnEnds, EndConnection
<1>34. ASSUME NEW f \in Fwds, NEW o \in Owners, StartProfileForward(o, f) PROVE QueueInv'
  BY <1>34 DEF StartProfileForward, SlotFree
<1>35. ASSUME NEW f \in Fwds, NEW s \in Ids, AddForward(f, s) PROVE QueueInv'
  BY <1>35 DEF AddForward, SlotFree
<1>36. ASSUME NEW f \in Fwds, NEW s \in Ids, RestoreNext(f, s) PROVE QueueInv'
  BY <1>36 DEF RestoreNext, SlotFree
<1>37. ASSUME NEW from \in Ids, NEW to \in Ids, TakeCarry(from, to) PROVE QueueInv'
  BY <1>37 DEF TakeCarry
<1>38. CASE UNCHANGED vars
  BY <1>38 DEF vars
<1> QED
  BY <1>1, <1>2, <1>3, <1>4, <1>5, <1>6, <1>7, <1>8, <1>9, <1>10, <1>11, <1>12, <1>13, <1>14,
     <1>15, <1>16, <1>17, <1>18, <1>19, <1>20, <1>21, <1>22, <1>23, <1>24, <1>25, <1>26, <1>27,
     <1>28, <1>29, <1>30, <1>31, <1>32, <1>33, <1>34, <1>35, <1>36, <1>37, <1>38
  DEF Next, Connect, ExecSteps, DisconnectSteps, Io, ForwardSteps

\* A handle is taken with the request and given back with its answer.
LEMMA HandleInvStep ==
    ASSUME TypeOK, SafetyInv, LockInv, [Next]_vars
    PROVE  HandleInv'
<1> USE
DEF TypeOK, SafetyInv, LockInv, HandleInv, ForwardInv, ExecInv, AtServer, Root, Ids, FwdRecord,
    sessionVars, forwardVars, lockVars
<1>1. ASSUME NEW o \in Owners, ConnectOpen(o) PROVE HandleInv'
  BY <1>1 DEF ConnectOpen
<1>2. ASSUME NEW o \in Owners, ConnectInsert(o) PROVE HandleInv'
  BY <1>2 DEF ConnectInsert
<1>3. ASSUME NEW o \in Owners, ConnectSpawn(o) PROVE HandleInv'
  BY <1>3 DEF ConnectSpawn
<1>4. ASSUME NEW o \in Owners, LoseTransport(o) PROVE HandleInv'
  BY <1>4 DEF LoseTransport
<1>5. ASSUME NEW e \in Execs, NEW o \in Owners, ExecLookup(e, o) PROVE HandleInv'
  BY <1>5 DEF ExecLookup
<1>6. ASSUME NEW e \in Execs, ExecAsk(e) PROVE HandleInv'
  BY <1>6 DEF ExecAsk, HandleFree
<1>7. ASSUME NEW e \in Execs, ExecAnswer(e) PROVE HandleInv'
  BY <1>7 DEF ExecAnswer
<1>8. ASSUME NEW e \in Execs, ExecRefused(e) PROVE HandleInv'
  BY <1>8 DEF ExecRefused
<1>9. ASSUME NEW e \in Execs, ExecInsert(e) PROVE HandleInv'
  BY <1>9 DEF ExecInsert
<1>10. ASSUME NEW e \in Execs, ExecSpawn(e) PROVE HandleInv'
  BY <1>10 DEF ExecSpawn
<1>11. ASSUME NEW s \in Ids, Disconnect(s) PROVE HandleInv'
  BY <1>11 DEF Disconnect
<1>12. ASSUME NEW s \in Ids, DisconnectForwards(s) PROVE HandleInv'
  <2>1. CASE StopSession(s)
    <3>1. UNCHANGED <<handleLock, pc, parent>>
      BY <1>12 DEF DisconnectForwards, HangInStopSession
    <3> QED
      BY <2>1, <3>1, StopSessionKeeps, QuietForwards DEF Rests
  <2>2. CASE HangInStopSession(s)
    BY <1>12, <2>2 DEF DisconnectForwards, HangInStopSession
  <2> QED
    BY <1>12, <2>1, <2>2 DEF DisconnectForwards
<1>13. ASSUME NEW s \in Ids, DisconnectRemove(s) PROVE HandleInv'
  BY <1>13 DEF DisconnectRemove
<1>14. ASSUME NEW s \in Ids, DisconnectClient(s) PROVE HandleInv'
  BY <1>14 DEF DisconnectClient
<1>15. ASSUME NEW s \in Ids, Write(s) PROVE HandleInv'
  BY <1>15 DEF Write
<1>16. ASSUME NEW s \in Ids, IoRemoteClosed(s) PROVE HandleInv'
  BY <1>16 DEF IoRemoteClosed
<1>17. ASSUME NEW s \in Ids, IoTellClosed(s) PROVE HandleInv'
  <2>1. CASE StopSession(s)
    <3>1. UNCHANGED <<handleLock, pc, parent>>
      BY <1>17 DEF IoTellClosed, HangInStopSession
    <3> QED
      BY <2>1, <3>1, StopSessionKeeps, QuietForwards DEF Rests
  <2>2. CASE HangInStopSession(s)
    BY <1>17, <2>2 DEF IoTellClosed, HangInStopSession
  <2> QED
    BY <1>17, <2>1, <2>2 DEF IoTellClosed
<1>18. ASSUME NEW s \in Ids, IoData(s) PROVE HandleInv'
  BY <1>18 DEF IoData
<1>19. ASSUME NEW s \in Ids, IoClose(s) PROVE HandleInv'
  BY <1>19 DEF IoClose
<1>20. ASSUME NEW f \in Fwds, ForwardBind(f) PROVE HandleInv'
  <2>1. \E st \in {"bound", "idle"} : MoveTo(f, st)
    BY <1>20 DEF ForwardBind
  <2>2. {"bound", "idle"} \subseteq FwdState
    BY DEF FwdState
  <2> QED
    BY <1>20, <2>1, <2>2, MoveToKeeps, QuietForwards DEF ForwardBind
<1>21. ASSUME NEW f \in Fwds, ForwardAsk(f) PROVE HandleInv'
  BY <1>21 DEF ForwardAsk, HandleFree, MoveTo
<1>22. ASSUME NEW f \in Fwds, ForwardAnswer(f) PROVE HandleInv'
  <2>1. PICK st \in {"bound", "idle"} : MoveTo(f, st)
    BY <1>22 DEF ForwardAnswer
  <2>2. {"bound", "idle"} \subseteq FwdState
    BY DEF FwdState
  <2> QED
    BY <1>22, <2>1, <2>2, MoveToKeeps DEF ForwardAnswer
<1>23. ASSUME NEW f \in Fwds, ForwardInsert(f) PROVE HandleInv'
  BY <1>23 DEF ForwardInsert, MoveTo
<1>24. ASSUME NEW f \in Fwds, ListenerStops(f) PROVE HandleInv'
  BY <1>24 DEF ListenerStops, MoveTo
<1>25. ASSUME NEW f \in Fwds, CancelAsk(f) PROVE HandleInv'
  BY <1>25 DEF CancelAsk, HandleFree, MoveTo
<1>26. ASSUME NEW f \in Fwds, CancelAnswer(f) PROVE HandleInv'
  BY <1>26 DEF CancelAnswer, MoveTo
<1>27. ASSUME NEW f \in Fwds, ConnAsk(f) PROVE HandleInv'
  BY <1>27 DEF ConnAsk, HandleFree
<1>28. ASSUME NEW f \in Fwds, ConnAnswer(f) PROVE HandleInv'
  BY <1>28 DEF ConnAnswer
<1>29. ASSUME NEW f \in Fwds, ConnRefused(f) PROVE HandleInv'
  BY <1>29 DEF ConnRefused, EndConnection
<1>30. ASSUME NEW f \in Fwds, AcceptError(f) PROVE HandleInv'
  BY <1>30 DEF AcceptError, MoveTo
<1>31. ASSUME NEW f \in Fwds, RemoveForward(f) PROVE HandleInv'
  <2>1. Unregistered(fwd[f].st) \in {"stopping", "idle"} /\ Unregistered(fwd[f].st) \in FwdState
    BY DEF Unregistered, FwdState
  <2> QED
    BY <1>31, <2>1, MoveToKeeps, QuietForwards DEF RemoveForward, Registered
<1>32. ASSUME NEW f \in Fwds, Accept(f) PROVE HandleInv'
  BY <1>32 DEF Accept
<1>33. ASSUME NEW f \in Fwds, ConnEnds(f) PROVE HandleInv'
  BY <1>33 DEF ConnEnds, EndConnection
<1>34. ASSUME NEW f \in Fwds, NEW o \in Owners, StartProfileForward(o, f) PROVE HandleInv'
  BY <1>34 DEF StartProfileForward, SlotFree
<1>35. ASSUME NEW f \in Fwds, NEW s \in Ids, AddForward(f, s) PROVE HandleInv'
  BY <1>35 DEF AddForward, SlotFree
<1>36. ASSUME NEW f \in Fwds, NEW s \in Ids, RestoreNext(f, s) PROVE HandleInv'
  BY <1>36 DEF RestoreNext, SlotFree
<1>37. ASSUME NEW from \in Ids, NEW to \in Ids, TakeCarry(from, to) PROVE HandleInv'
  BY <1>37 DEF TakeCarry
<1>38. CASE UNCHANGED vars
  BY <1>38 DEF vars
<1> QED
  BY <1>1, <1>2, <1>3, <1>4, <1>5, <1>6, <1>7, <1>8, <1>9, <1>10, <1>11, <1>12, <1>13, <1>14,
     <1>15, <1>16, <1>17, <1>18, <1>19, <1>20, <1>21, <1>22, <1>23, <1>24, <1>25, <1>26, <1>27,
     <1>28, <1>29, <1>30, <1>31, <1>32, <1>33, <1>34, <1>35, <1>36, <1>37, <1>38
  DEF Next, Connect, ExecSteps, DisconnectSteps, Io, ForwardSteps

\* The locks are held as LockInv says in every reachable state.
THEOREM LockInvariant == Spec => []LockInv
<1>1. Init => LockInv
  BY
  DEF Init, NoForward, LockInv, HandleInv, QueueInv, ForwardInv, AtServer, Ids, SessionsAssumption
<1>2. TypeOK /\ SafetyInv /\ LockInv /\ [Next]_vars => LockInv'
  BY HandleInvStep, QueueInvStep, ForwardInvStep DEF LockInv
<1> QED
  BY <1>1, <1>2, TypeCorrect, SafetyInvariant, PTL DEF Spec

\* The waits for sessions, handles and forwards never close a circle.
THEOREM NoLockCycles == Spec => []NoLockCycle
<1>1. TypeOK /\ SafetyInv /\ LockInv => NoLockCycle
  BY DEF TypeOK, SafetyInv, OwnerInv, LockInv, HandleInv, QueueInv, NoLockCycle
<1> QED
  BY <1>1, TypeCorrect, SafetyInvariant, LockInvariant, PTL

\* Only stop_session fills the carry, with the forwards Kept names.
LEMMA CarryGrowsInStopSession ==
    ASSUME Next
    PROVE  \/ UNCHANGED carry
           \/ \E s \in Ids : StopSession(s)
           \/ \E from, to \in Ids : TakeCarry(from, to)
<1> USE DEF sessionVars, forwardVars, lockVars
<1>1. ASSUME NEW o \in Owners, Connect(o) \/ LoseTransport(o) PROVE UNCHANGED carry
  BY <1>1 DEF Connect, ConnectOpen, ConnectInsert, ConnectSpawn, LoseTransport
<1>2. ASSUME NEW e \in Execs, ExecSteps(e) \/ \E o \in Owners : ExecLookup(e, o)
      PROVE  UNCHANGED carry
  BY <1>2 DEF ExecSteps, ExecLookup, ExecAsk, ExecAnswer, ExecRefused, ExecInsert, ExecSpawn
<1>3. ASSUME NEW s \in Ids, Disconnect(s) \/ DisconnectSteps(s) \/ Write(s) \/ Io(s)
      PROVE  UNCHANGED carry \/ StopSession(s)
  BY <1>3 DEF Disconnect, DisconnectSteps, DisconnectForwards, DisconnectRemove, DisconnectClient,
     Write, Io, IoRemoteClosed, IoTellClosed, IoData, IoClose, HangInStopSession
<1>4. ASSUME NEW f \in Fwds,
             ForwardSteps(f) \/ AcceptError(f) \/ RemoveForward(f) \/ Accept(f) \/ ConnEnds(f)
      PROVE  UNCHANGED carry
  BY <1>4 DEF ForwardSteps, ForwardBind, ForwardAsk, ForwardAnswer, ForwardInsert, ListenerStops,
     CancelAsk, CancelAnswer, ConnAsk, ConnAnswer, ConnRefused, AcceptError, RemoveForward,
     Accept, ConnEnds, EndConnection
<1>5. ASSUME NEW f \in Fwds, NEW s \in Ids,
             StartProfileForward(s, f) \/ AddForward(f, s) \/ RestoreNext(f, s)
      PROVE  UNCHANGED carry
  BY <1>5 DEF StartProfileForward, AddForward, RestoreNext
<1> QED
  BY <1>1, <1>2, <1>3, <1>4, <1>5 DEF Next, Ids

\* What a reconnect brings back was added by hand and was still listening.
THEOREM CarriedWereManual == Spec => CarriedWasManual
<1>1. ASSUME TypeOK, Next, NEW s \in Ids, NEW f \in carry'[s] \ carry[s]
      PROVE  fwd[f].sess = s /\ fwd[f].st = "live" /\ fwd[f].src # "profile"
  <2>1. ASSUME NEW t \in Ids, StopSession(t)
        PROVE  fwd[f].sess = s /\ fwd[f].st = "live" /\ fwd[f].src # "profile"
    BY <1>1, <2>1 DEF TypeOK, StopSession, Kept
  <2>2. ASSUME NEW from \in Ids, NEW to \in Ids, TakeCarry(from, to) PROVE FALSE
    BY <1>1, <2>2 DEF TypeOK, TakeCarry
  <2> QED
    BY <1>1, <2>1, <2>2, CarryGrowsInStopSession
<1>2. TypeOK /\ [Next]_vars =>
        [\A s \in Ids : \A f \in carry'[s] \ carry[s] :
            fwd[f].sess = s /\ fwd[f].st = "live" /\ fwd[f].src # "profile"]_vars
  BY <1>1
<1> QED
  BY <1>2, TypeCorrect, PTL DEF Spec, CarriedWasManual

-----------------------------------------------------------------------------
(* The promise made to the callers                                         *)

\* A session that is in the map, or was asked to end, has been inserted, and one
\* that was inserted is in the map until it is asked to end.
SeenInv ==
    /\ \A s \in Ids :
          s \in sessions \cup closeSent => pc[s] \in {"forwarding", "inserted", "open"}
    /\ \A o \in Owners :
          /\ pc[o] # "idle" => client[o] # "none"
          /\ pc[o] \in {"forwarding", "open"} => o \in sessions \/ dis[o] \in {"client", "done"}
    /\ \A e \in Execs :
          /\ pc[e] = "idle" => parent[e] = NoOne
          /\ pc[e] = "inserted" => e \in sessions \cup closeSent

LEMMA SeenInvConnect ==
    ASSUME TypeOK, SafetyInv, SeenInv, NEW o \in Owners,
           Connect(o) \/ LoseTransport(o) \/ DisconnectClient(o)
    PROVE  SeenInv'
<1> USE SessionsAssumption DEF SeenInv, SafetyInv, TypeOK, Ids
<1>1. CASE ConnectOpen(o)
  BY <1>1 DEF ConnectOpen
<1>2. CASE ConnectInsert(o)
  BY <1>2 DEF ConnectInsert
<1>3. CASE ConnectSpawn(o)
  BY <1>3 DEF ConnectSpawn
<1>4. CASE LoseTransport(o)
  BY <1>4 DEF LoseTransport
<1>5. CASE DisconnectClient(o)
  BY <1>5 DEF DisconnectClient, Root
<1> QED
  BY <1>1, <1>2, <1>3, <1>4, <1>5 DEF Connect

LEMMA SeenInvExec ==
    ASSUME TypeOK, SafetyInv, SeenInv, NEW e \in Execs,
           ExecSteps(e) \/ \E o \in Owners : ExecLookup(e, o)
    PROVE  SeenInv'
<1> USE SessionsAssumption DEF SeenInv, TypeOK, Ids
<1>1. CASE \E o \in Owners : ExecLookup(e, o)
  BY <1>1 DEF ExecLookup
<1>2. CASE ExecAsk(e)
  BY <1>2 DEF ExecAsk
<1>3. CASE ExecAnswer(e)
  BY <1>3 DEF ExecAnswer
<1>4. CASE ExecRefused(e)
  BY <1>4 DEF ExecRefused
<1>5. CASE ExecInsert(e)
  BY <1>5 DEF ExecInsert
<1>6. CASE ExecSpawn(e)
  BY <1>6 DEF ExecSpawn
<1> QED
  BY <1>1, <1>2, <1>3, <1>4, <1>5, <1>6 DEF ExecSteps

LEMMA SeenInvRemove ==
    ASSUME TypeOK, SafetyInv, SeenInv, NEW s \in Ids, DisconnectRemove(s)
    PROVE  SeenInv'
<1> USE SessionsAssumption
<1> DEFINE gone == ({e \in sessions \cap Execs : parent[e] = s} \cup {s}) \cap sessions
<1>1. /\ sessions' = sessions \ gone /\ gone \subseteq sessions
      /\ closeSent' = closeSent \cup {g \in gone : task[g] # "ended"}
      /\ UNCHANGED <<pc, client, parent, task>>
  BY DEF DisconnectRemove
<1>2. /\ \A d \in Ids : d # s => dis'[d] = dis[d]
      /\ dis'[s] \in {"client", "done"}
  BY DEF DisconnectRemove, TypeOK
<1>3. \A o \in Owners : o \in gone => o = s
  BY DEF Ids
<1> HIDE DEF gone
<1>4. ASSUME NEW d \in Ids, d \in sessions' \cup closeSent'
      PROVE  pc'[d] \in {"forwarding", "inserted", "open"}
  BY <1>1, <1>4 DEF SeenInv
<1>5. ASSUME NEW o \in Owners, pc'[o] \in {"forwarding", "open"}
      PROVE  o \in sessions' \/ dis'[o] \in {"client", "done"}
  BY <1>1, <1>2, <1>3, <1>5 DEF SeenInv, Ids
<1>6. ASSUME NEW e \in Execs, pc'[e] = "inserted" PROVE e \in sessions' \cup closeSent'
  <2>1. e \in sessions \cup closeSent /\ task[e] # "ended"
    BY <1>1, <1>6 DEF SeenInv, SafetyInv, TaskInv, TypeOK, Ids
  <2> QED
    BY <1>1, <2>1
<1> QED
  BY <1>1, <1>4, <1>5, <1>6 DEF SeenInv

LEMMA SeenInvDisconnect ==
    ASSUME TypeOK, SeenInv, NEW s \in Ids, Disconnect(s) \/ DisconnectForwards(s)
    PROVE  SeenInv'
<1>1. UNCHANGED <<sessions, closeSent, pc, client, parent>>
  BY DEF Disconnect, DisconnectForwards
<1>2. \A d \in Ids : dis[d] \in {"client", "done"} => dis'[d] = dis[d]
  BY DEF Disconnect, DisconnectForwards, TypeOK
<1> QED
  BY <1>1, <1>2 DEF SeenInv, Ids

\* Steps of forwards, of the carry and of nobody, which leave the sessions alone.
LEMMA QuietForSessions ==
    ASSUME \/ \E f \in Fwds :
                 \/ ForwardSteps(f) \/ AcceptError(f) \/ RemoveForward(f)
                 \/ Accept(f) \/ ConnEnds(f)
                 \/ \E o \in Owners : StartProfileForward(o, f)
                 \/ \E s \in Ids : AddForward(f, s) \/ RestoreNext(f, s)
           \/ \E from, to \in Ids : TakeCarry(from, to)
           \/ UNCHANGED vars
    PROVE  UNCHANGED <<sessionVars, sessionsLock>>
<1>1. CASE \E f \in Fwds :
              ForwardSteps(f) \/ AcceptError(f) \/ RemoveForward(f) \/ Accept(f) \/ ConnEnds(f)
  BY <1>1, ForwardStepsLeaveSessions
<1>2. CASE \E f \in Fwds :
              \/ \E o \in Owners : StartProfileForward(o, f)
              \/ \E s \in Ids : AddForward(f, s) \/ RestoreNext(f, s)
  BY <1>2 DEF StartProfileForward, AddForward, RestoreNext, lockVars
<1>3. CASE (\E from, to \in Ids : TakeCarry(from, to)) \/ UNCHANGED vars
  BY <1>3 DEF TakeCarry, vars, lockVars
<1> QED
  BY <1>1, <1>2, <1>3

LEMMA SeenInvariance == Spec => []SeenInv
<1>1. Init => SeenInv
  BY SessionsAssumption DEF Init, SeenInv, Ids
<1>2. TypeOK /\ SafetyInv /\ SeenInv /\ [Next]_vars => SeenInv'
  <2> SUFFICES ASSUME TypeOK, SafetyInv, SeenInv, [Next]_vars PROVE SeenInv'
    OBVIOUS
  <2>1. CASE \E o \in Owners : Connect(o) \/ LoseTransport(o)
    BY <2>1, SeenInvConnect
  <2>2. CASE \E e \in Execs : ExecSteps(e) \/ \E o \in Owners : ExecLookup(e, o)
    BY <2>2, SeenInvExec
  <2>3. ASSUME NEW s \in Ids, DisconnectSteps(s) \/ Disconnect(s) PROVE SeenInv'
    <3>1. CASE DisconnectClient(s)
      <4>1. s \in Owners
        BY <3>1 DEF DisconnectClient, SafetyInv, ExecInv, Ids
      <4> QED
        BY <3>1, <4>1, SeenInvConnect
    <3> QED
      BY <2>3, <3>1, SeenInvDisconnect, SeenInvRemove DEF DisconnectSteps
  <2>4. CASE UNCHANGED <<sessions, closeSent, pc, client, dis, parent>>
    BY <2>4 DEF SeenInv
  <2>5. ASSUME NEW s \in Ids, Write(s) \/ Io(s)
        PROVE  UNCHANGED <<sessions, closeSent, pc, client, dis, parent>>
    BY <2>5 DEF Write, Io, IoRemoteClosed, IoTellClosed, IoData, IoClose
  <2> QED
    BY <2>1, <2>2, <2>3, <2>4, <2>5, QuietForSessions DEF Next, sessionVars
<1> QED
  BY <1>1, <1>2, TypeCorrect, SafetyInvariant, PTL DEF Spec

LEMMA SameIds == Promise!Ids = Ids
BY DEF Promise!Ids, Ids

Lines  == [o \in Owners |-> Line(o)]
Shells == [s \in Ids |-> Shell(s)]

LEMMA LinesKept ==
    ASSUME UNCHANGED <<client, sessionsLock>>
    PROVE  Lines' = Lines
BY DEF Lines, Line

LEMMA ShellsKept ==
    ASSUME UNCHANGED task
    PROVE  Shells' = Shells
BY DEF Shells, Shell

LEMMA ShellMoves ==
    ASSUME TypeOK, NEW s \in Ids, NEW t, task' = [task EXCEPT ![s] = t]
    PROVE  Shells' = [Shells EXCEPT ![s] = IF t = "closing" THEN "running" ELSE t]
BY DEF Shells, Shell, TypeOK

LEMMA InitMaps == Init => Promise!Init
<1> SUFFICES ASSUME Init PROVE Promise!Init
  OBVIOUS
<1>1. \A o \in Owners : Line(o) = "none"
  BY SessionsAssumption DEF Init, Line, Ids
<1>2. \A s \in Ids : Shell(s) = "none"
  BY DEF Init, Shell
<1> QED
  BY <1>1, <1>2, SameIds DEF Init, Promise!Init

LEMMA ConnectMaps ==
    ASSUME TypeOK, SafetyInv, SeenInv, NEW o \in Owners, Connect(o)
    PROVE  Promise!Dial(o) \/ Promise!List(o) \/ Promise!Run(o)
<1> USE SessionsAssumption
<1>1. o \in Ids /\ o \notin Execs /\ Promise!Root(o) = o /\ o # NoOne
  BY DEF Ids, Promise!Root
<1>2. Lines[o] = Line(o) /\ Shells[o] = Shell(o)
  BY <1>1 DEF Lines, Shells
<1>3. CASE ConnectOpen(o)
  <2>1. client[o] = "none" /\ sessionsLock # o
    BY <1>1, <1>3 DEF ConnectOpen, SafetyInv, OwnerInv
  <2>2. Lines' = [Lines EXCEPT ![o] = "up"]
    BY <1>3, <2>1 DEF ConnectOpen, lockVars, Lines, Line, TypeOK
  <2>3. Shells' = Shells
    BY <1>3, ShellsKept DEF ConnectOpen
  <2> QED
    BY <1>2, <1>3, <2>1, <2>2, <2>3 DEF ConnectOpen, Promise!Dial, Lines, Shells, Line
<1>4. CASE ConnectInsert(o)
  <2>1. o \notin sessions \cup closeSent /\ task[o] = "none" /\ client[o] # "none"
    BY <1>1, <1>4 DEF ConnectInsert, SafetyInv, TaskInv, SeenInv, TypeOK
  <2>2. Shell(o) = "none" /\ Line(o) # "none"
    BY <2>1 DEF Shell, Line
  <2>3. Lines' = Lines /\ Shells' = Shells
    BY <1>4, LinesKept, ShellsKept DEF ConnectInsert, lockVars
  <2> QED
    BY <1>1, <1>2, <1>4, <2>1, <2>2, <2>3
    DEF ConnectInsert, Promise!List, Lines, Shells
<1>5. CASE ConnectSpawn(o)
  <2>1. o \in sessions /\ task[o] = "none"
    BY <1>1, <1>5 DEF ConnectSpawn, SafetyInv, OwnerInv, TaskInv, SeenInv, TypeOK
  <2>2. Shell(o) = "none"
    BY <2>1 DEF Shell
  <2>3. Shells' = [Shells EXCEPT ![o] = "running"]
    BY <1>1, <1>5, ShellMoves DEF ConnectSpawn
  <2>4. Lines' = Lines
    BY <1>5, LinesKept DEF ConnectSpawn, lockVars
  <2> QED
    BY <1>2, <1>5, <2>1, <2>2, <2>3, <2>4 DEF ConnectSpawn, Promise!Run, Lines, Shells
<1> QED
  BY <1>3, <1>4, <1>5 DEF Connect

LEMMA LoseMaps ==
    ASSUME TypeOK, NEW o \in Owners, LoseTransport(o)
    PROVE  Promise!Lose(o) \/ UNCHANGED Promise!vars
<1>1. Shells' = Shells
  BY ShellsKept DEF LoseTransport
<1>2. CASE sessionsLock = o
  <2>1. Lines' = Lines
    BY <1>2 DEF LoseTransport, lockVars, Lines, Line, TypeOK
  <2> QED
    BY <1>1, <2>1 DEF LoseTransport, Promise!vars, Lines, Shells
<1>3. CASE sessionsLock # o
  <2>1. Lines' = [Lines EXCEPT ![o] = "lost"] /\ Lines[o] = "up"
    BY <1>3 DEF LoseTransport, lockVars, Lines, Line, TypeOK
  <2> QED
    BY <1>1, <2>1 DEF LoseTransport, Promise!Lose, Lines, Shells
<1> QED
  BY <1>2, <1>3

LEMMA ExecMaps ==
    ASSUME TypeOK, SafetyInv, SeenInv, NEW e \in Execs,
           ExecInsert(e) \/ ExecSpawn(e)
    PROVE  Promise!List(e) \/ Promise!Run(e)
<1> USE SessionsAssumption
<1>1. /\ e \in Ids /\ Promise!Root(e) = parent[e]
      /\ parent[e] \in Owners /\ parent[e] # NoOne /\ client[parent[e]] # "none"
  BY DEF ExecInsert, ExecSpawn, SafetyInv, ExecInv, SeenInv, Ids, Promise!Root
<1>2. Lines[parent[e]] # "none" /\ Shells[e] = Shell(e)
  BY <1>1 DEF Lines, Line, Shells
<1>3. task[e] = "none"
  BY <1>1 DEF ExecInsert, ExecSpawn, SafetyInv, TaskInv, TypeOK
<1>4. Shell(e) = "none"
  BY <1>3 DEF Shell
<1>5. Lines' = Lines
  BY LinesKept DEF ExecInsert, ExecSpawn, lockVars
<1>6. CASE ExecInsert(e)
  <2>1. e \notin sessions \cup closeSent
    BY <1>1, <1>6 DEF ExecInsert, SeenInv
  <2>2. Shells' = Shells
    BY <1>6, ShellsKept DEF ExecInsert
  <2> QED
    BY <1>1, <1>2, <1>4, <1>5, <1>6, <2>1, <2>2 DEF ExecInsert, Promise!List, Lines, Shells
<1>7. CASE ExecSpawn(e)
  <2>1. e \in sessions \cup closeSent
    BY <1>7 DEF ExecSpawn, SeenInv
  <2>2. Shells' = [Shells EXCEPT ![e] = "running"]
    BY <1>1, <1>7, ShellMoves DEF ExecSpawn
  <2> QED
    BY <1>2, <1>4, <1>5, <1>7, <2>1, <2>2 DEF ExecSpawn, Promise!Run, Lines, Shells
<1> QED
  BY <1>6, <1>7

LEMMA LookupMaps ==
    ASSUME SeenInv, NEW e \in Execs, NEW o \in Owners, ExecLookup(e, o)
    PROVE  Promise!Attach(e, o)
<1>1. parent[e] = NoOne
  BY DEF ExecLookup, SeenInv
<1>2. Lines' = Lines /\ Shells' = Shells
  BY LinesKept, ShellsKept DEF ExecLookup, lockVars
<1> QED
  BY <1>1, <1>2 DEF ExecLookup, Promise!Attach, Lines, Shells

\* The step that takes the map's lock is the one at which all goes at once ...
LEMMA RemoveMaps ==
    ASSUME TypeOK, SafetyInv, SeenInv, NEW s \in Ids, DisconnectRemove(s)
    PROVE  Promise!Leave(s) \/ UNCHANGED Promise!vars
<1> USE SessionsAssumption
<1> DEFINE children == {e \in sessions \cap Execs : parent[e] = s}
           gone     == (children \cup {s}) \cap sessions
<1>1. /\ sessions' = sessions \ gone
      /\ closeSent' = closeSent \cup {g \in gone : task[g] # "ended"}
      /\ UNCHANGED <<parent, client, task, told>>
  BY DEF DisconnectRemove
<1>2. Shells' = Shells
  BY <1>1, ShellsKept
<1>3. sessionsLock = NoOne
  BY DEF DisconnectRemove, SessionsFree
<1>4. CASE s \in sessions
  <2>1. gone = {s} \cup children
    BY <1>4
  <2>2. gone \subseteq Ids
    BY <2>1 DEF TypeOK, Ids
  <2> HIDE DEF gone
  <2>3. \A g \in gone : Shells[g] # "ended" <=> task[g] # "ended"
    BY <2>2 DEF Shells, Shell
  <2>4. {g \in gone : Shells[g] # "ended"} = {g \in gone : task[g] # "ended"}
    BY <2>3
  <2>5. Lines' = [o \in Owners |-> IF o = s THEN "closed" ELSE Lines[o]]
    <3>1. CASE s \in Owners
      <4>1. sessionsLock' = s
        BY <1>4, <3>1 DEF DisconnectRemove, OwnsClient
      <4>2. \A o \in Owners : Line(o)' = IF o = s THEN "closed" ELSE Line(o)
        BY <1>1, <1>3, <4>1 DEF Line, Ids
      <4> QED
        BY <4>2 DEF Lines
    <3>2. CASE s \notin Owners
      <4>1. sessionsLock' = sessionsLock
        BY <3>2 DEF DisconnectRemove, OwnsClient
      <4>2. Lines' = Lines
        BY <1>1, <4>1, LinesKept
      <4> QED
        BY <3>2, <4>2 DEF Lines
    <3> QED
      BY <3>1, <3>2
  <2>6. gone = {s} \cup {e \in sessions \cap Execs : parent[e] = s}
    BY <2>1
  <2> HIDE DEF children
  <2> QED
    BY <1>1, <1>2, <1>4, <2>4, <2>5, <2>6 DEF Promise!Leave, Lines, Shells
<1>5. CASE s \notin sessions
  <2>1. s \in Execs
    BY <1>5 DEF DisconnectRemove, SafetyInv, OwnerInv, SeenInv, Ids
  <2>2. children = {}
    BY <2>1 DEF TypeOK, Ids
  <2>3. gone = {}
    BY <1>5, <2>2
  <2>4. sessionsLock' = sessionsLock
    BY <1>5 DEF DisconnectRemove
  <2>5. Lines' = Lines
    BY <1>1, <2>4, LinesKept
  <2> QED
    BY <1>1, <1>2, <2>3, <2>5 DEF Promise!vars, Lines, Shells
<1> QED
  BY <1>4, <1>5

\* ... and the one that gives the lock back shows nothing new.
LEMMA HangUpMaps ==
    ASSUME TypeOK, SafetyInv, NEW s \in Ids, DisconnectClient(s)
    PROVE  UNCHANGED Promise!vars
<1> USE SessionsAssumption
<1>1. s \in Owners /\ sessionsLock = s /\ Root(s) = s
  BY DEF DisconnectClient, SafetyInv, ExecInv, OwnerInv, Ids, Root
<1>2. \A o \in Owners : Line(o)' = Line(o)
  BY <1>1 DEF DisconnectClient, Line, TypeOK, Ids
<1>3. Lines' = Lines
  BY <1>2 DEF Lines
<1>4. Shells' = Shells
  BY ShellsKept DEF DisconnectClient
<1> QED
  BY <1>3, <1>4 DEF DisconnectClient, Promise!vars, Lines, Shells

LEMMA IoMaps ==
    ASSUME TypeOK, SafetyInv, NEW s \in Ids, Io(s)
    PROVE  Promise!End(s) \/ UNCHANGED Promise!vars
<1> USE SessionsAssumption
<1>1. UNCHANGED <<sessions, parent, client, closeSent, sessionsLock>>
  BY DEF Io, IoRemoteClosed, IoTellClosed, IoData, IoClose, HangInStopSession, lockVars
<1>2. Lines' = Lines
  BY <1>1, LinesKept
<1>3. Shells[s] = Shell(s)
  BY DEF Shells
<1>4. CASE UNCHANGED <<task, told>>
  BY <1>1, <1>2, <1>4, ShellsKept DEF Promise!vars, Lines, Shells
<1>5. CASE IoRemoteClosed(s)
  <2>1. Shells' = [Shells EXCEPT ![s] = "running"] /\ Shells[s] = "running" /\ told' = told
    BY <1>3, <1>5, ShellMoves DEF IoRemoteClosed, Shell
  <2>2. Shells' = Shells
    BY <2>1 DEF Shells
  <2> QED
    BY <1>1, <1>2, <2>1, <2>2 DEF Promise!vars, Lines, Shells
<1>6. ASSUME task[s] \in {"running", "closing"}, task' = [task EXCEPT ![s] = "ended"],
             \/ told' = told \cup {s}
             \/ (s \in closeSent \/ TransportGone(s)) /\ told' = told
      PROVE  Promise!End(s)
  <2>1. Shells' = [Shells EXCEPT ![s] = "ended"] /\ Shells[s] = "running"
    BY <1>3, <1>6, ShellMoves DEF Shell
  <2>2. ASSUME TransportGone(s) PROVE Lines[Promise!Root(s)] # "up"
    <3>1. Root(s) \in Owners /\ client[Root(s)] # "up"
      BY <2>2 DEF TransportGone, Root, TypeOK, Ids
    <3>2. Promise!Root(s) = Root(s)
      BY DEF Promise!Root, Root
    <3> QED
      BY <3>1, <3>2 DEF Lines, Line
  <2> QED
    BY <1>1, <1>2, <1>6, <2>1, <2>2 DEF Promise!End, Lines, Shells
<1>7. CASE IoTellClosed(s)
  BY <1>4, <1>6, <1>7 DEF IoTellClosed
<1>8. CASE IoData(s)
  BY <1>4, <1>6, <1>8 DEF IoData
<1>9. CASE IoClose(s)
  BY <1>6, <1>9 DEF IoClose
<1> QED
  BY <1>5, <1>7, <1>8, <1>9 DEF Io

\* Each step of the manager is one of the promise, or none.
LEMMA StepMaps ==
    TypeOK /\ SafetyInv /\ SeenInv /\ [Next]_vars => [Promise!Next]_Promise!vars
<1> SUFFICES ASSUME TypeOK, SafetyInv, SeenInv, [Next]_vars
             PROVE  [Promise!Next]_Promise!vars
  OBVIOUS
<1> USE SessionsAssumption
<1>1. ASSUME NEW s \in Ids,
             Promise!List(s) \/ Promise!Run(s) \/ Promise!Leave(s) \/ Promise!End(s)
      PROVE  Promise!Next
  BY <1>1, SameIds DEF Promise!Next
<1>2. ASSUME UNCHANGED <<sessions, parent, client, sessionsLock, task, told, closeSent>>
      PROVE  UNCHANGED Promise!vars
  BY <1>2, LinesKept, ShellsKept DEF Promise!vars, Lines, Shells
<1>3. ASSUME NEW o \in Owners, Connect(o) PROVE Promise!Next
  BY <1>1, <1>3, ConnectMaps DEF Promise!Next, Ids
<1>4. ASSUME NEW o \in Owners, LoseTransport(o) PROVE [Promise!Next]_Promise!vars
  BY <1>4, LoseMaps DEF Promise!Next
<1>5. ASSUME NEW e \in Execs, NEW o \in Owners, ExecLookup(e, o) PROVE Promise!Next
  BY <1>5, LookupMaps DEF Promise!Next
<1>6. ASSUME NEW e \in Execs, ExecInsert(e) \/ ExecSpawn(e) PROVE Promise!Next
  BY <1>1, <1>6, ExecMaps DEF Ids
<1>7. ASSUME NEW e \in Execs, ExecAsk(e) \/ ExecAnswer(e) \/ ExecRefused(e)
      PROVE  UNCHANGED Promise!vars
  BY <1>2, <1>7 DEF ExecAsk, ExecAnswer, ExecRefused, lockVars
<1>8. ASSUME NEW s \in Ids, Disconnect(s) \/ DisconnectForwards(s) \/ Write(s)
      PROVE  UNCHANGED Promise!vars
  BY <1>2, <1>8 DEF Disconnect, DisconnectForwards, HangInStopSession, Write, lockVars
<1>9. ASSUME NEW s \in Ids, DisconnectRemove(s) \/ DisconnectClient(s) \/ Io(s)
      PROVE  [Promise!Next]_Promise!vars
  BY <1>1, <1>9, RemoveMaps, HangUpMaps, IoMaps
<1> QED
  BY <1>2, <1>3, <1>4, <1>5, <1>6, <1>7, <1>8, <1>9, QuietForSessions
  DEF Next, ExecSteps, DisconnectSteps, sessionVars

\* The manager, with the awaits of connect, open_docker_exec and disconnect and its
\* locks, implements the promise made to those who hold a session id.
THEOREM PromiseKept == Spec => KeepsPromise
<1> QED
  BY InitMaps, StepMaps, TypeCorrect, SafetyInvariant, SeenInvariance, PTL
  DEF Spec, KeepsPromise, Promise!Spec
=============================================================================

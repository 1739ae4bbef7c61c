---------------------------- MODULE SshSessions ----------------------------
(***************************************************************************)
(* Live SSH sessions of the Tauri backend: SshManager (ssh.rs) together    *)
(* with the part of ForwardManager (forward.rs) that its calls take part   *)
(* in.  Every Tauri command runs as a task of its own, so the calls below  *)
(* interleave at each await; the shared state is guarded by four mutexes:  *)
(*   sessionsLock   SshManager.sessions, held across awaits by disconnect  *)
(*   handleLock[o]  the russh Handle of the connection o owns, held while  *)
(*                  a channel-open or a global request awaits the server   *)
(*   forwardsLock   ForwardManager.forwards                                *)
(*   the mutex of each forward's ActiveForward, see stuck                  *)
(* A lock taken and released without an await in between has no holder in  *)
(* the state: the action that takes it is guarded by the lock being free.  *)
(*                                                                         *)
(* A session id is used by one connect or one open_docker_exec call        *)
(* (Uuid::new_v4).  A member of Fwds is a forward spec with the slot of    *)
(* its one instance; Dir is its direction: local, remote or SOCKS5.        *)
(***************************************************************************)
EXTENDS Integers, FiniteSets

CONSTANTS
    Owners,   \* ids of sessions opened by connect, each owns its transport
    Execs,    \* ids of docker-exec sessions, channels on their parent's
    Fwds,     \* forward specs
    Dir,      \* direction of each forward spec
    MaxData,  \* bound: writes waiting in one session's queue
    NoOne     \* no session, no forward, no lock holder

Ids == Owners \cup Execs

ASSUME SessionsAssumption ==
    /\ Owners \cap Execs = {}
    /\ Ids \cap Fwds = {}
    /\ NoOne \notin Ids \cup Fwds
    /\ Dir \in [Fwds -> {"L", "R", "D"}]
    /\ MaxData \in Nat

VARIABLES
    sessions,      \* keys of SshManager.sessions
    parent,        \* parent_session_id of each docker-exec session
    client,        \* transport of each owner's connection
    pc,            \* progress of the call that opens each session
    task,          \* the shell IO task of each session
    data,          \* ChannelCmd::Data waiting in the session's queue
    closeSent,     \* sessions with ChannelCmd::Close behind that data
    told,          \* sessions whose "closed" status was emitted
    dis,           \* progress of disconnect(id)
    fwd,           \* instance of each forward spec
    conn,          \* one connection through each forward
    stuck,         \* forwards whose info mutex a task waits for forever
    carry,         \* CarryStore: manual forwards of sessions that ended
    restore,       \* forwards a forwards_restore call still has to add
    sessionsLock,
    forwardsLock,
    handleLock

sessionVars == <<sessions, parent, client, pc, task, data, closeSent, told, dis>>
forwardVars == <<fwd, conn, stuck, carry, restore>>
lockVars    == <<sessionsLock, forwardsLock, handleLock>>
vars == <<sessionVars, forwardVars, lockVars>>

OwnerPc  == {"idle", "opened", "forwarding", "open"}
ExecPc   == {"idle", "looked", "asking", "opened", "inserted", "open", "failed"}
Clients  == {"none", "up", "lost", "closed"}
Tasks    == {"none", "running", "closing", "ended"}
DisPc    == {"idle", "forwards", "remove", "client", "done"}
FwdState == {"idle", "starting", "asking", "bound", "live", "broken",
             "stopping", "cancelling"}
\* The code calls "restored" "manual" too; here it says which call adds it.
Sources  == {"manual", "profile", "restored"}

FwdRecord == [st : FwdState, sess : Ids \cup {NoOne}, src : Sources]
NoForward == [st |-> "idle", sess |-> NoOne, src |-> "manual"]

\* The session whose connection s runs on.
Root(s) == IF s \in Execs THEN parent[s] ELSE s

TransportGone(s) == Root(s) # NoOne /\ client[Root(s)] # "up"

\* Broken variant: a docker-exec session passes for the owner of its transport.
EveryoneOwnsClient(s) == s \in Ids

\* LiveSession.owns_client
OwnsClient(s) == s \in Owners

\* Forwards in ForwardManager.forwards, and those whose start call is running.
Registered == {f \in Fwds : fwd[f].st \in {"live", "broken"}}
Starting   == {f \in Fwds : fwd[f].st \in {"starting", "asking", "bound"}}

\* A spec can be started again once its last instance and connection are gone.
SlotFree(f) == fwd[f].st = "idle" /\ conn[f] = "none" /\ f \notin stuck

\* The instance of f moves on to state st.
MoveTo(f, st) == fwd' = [fwd EXCEPT ![f].st = st]

SessionsFree == sessionsLock = NoOne
ForwardsFree == forwardsLock = NoOne
HandleFree(o) == handleLock[o] = NoOne

TypeOK ==
    /\ sessions \subseteq Ids
    /\ parent \in [Execs -> Owners \cup {NoOne}]
    /\ client \in [Owners -> Clients]
    /\ pc \in [Ids -> OwnerPc \cup ExecPc]
    /\ task \in [Ids -> Tasks]
    /\ data \in [Ids -> 0..MaxData]
    /\ closeSent \subseteq Ids
    /\ told \subseteq Ids
    /\ dis \in [Ids -> DisPc]
    /\ fwd \in [Fwds -> FwdRecord]
    /\ conn \in [Fwds -> {"none", "accepted", "opening", "open"}]
    /\ stuck \subseteq Fwds
    /\ carry \in [Ids -> SUBSET Fwds]
    /\ restore \in [Ids -> SUBSET Fwds]
    /\ sessionsLock \in Owners \cup {NoOne}
    /\ forwardsLock \in Ids \cup {NoOne}
    /\ handleLock \in [Owners -> Execs \cup Fwds \cup {NoOne}]

Init ==
    /\ sessions = {}
    /\ parent = [e \in Execs |-> NoOne]
    /\ client = [o \in Owners |-> "none"]
    /\ pc = [s \in Ids |-> "idle"]
    /\ task = [s \in Ids |-> "none"]
    /\ data = [s \in Ids |-> 0]
    /\ closeSent = {}
    /\ told = {}
    /\ dis = [s \in Ids |-> "idle"]
    /\ fwd = [f \in Fwds |-> NoForward]
    /\ conn = [f \in Fwds |-> "none"]
    /\ stuck = {}
    /\ carry = [s \in Ids |-> {}]
    /\ restore = [s \in Ids |-> {}]
    /\ sessionsLock = NoOne
    /\ forwardsLock = NoOne
    /\ handleLock = [o \in Owners |-> NoOne]

-----------------------------------------------------------------------------
(* connect: the hop chain and its failures are JumpChain's; a connect that *)
(* fails before its session is inserted leaves nothing behind.             *)

\* The target answered, is authenticated, and its shell channel is open.
ConnectOpen(o) ==
    /\ pc[o] = "idle"
    /\ pc' = [pc EXCEPT ![o] = "opened"]
    /\ client' = [client EXCEPT ![o] = "up"]
    /\ UNCHANGED <<sessions, parent, task, data, closeSent, told, dis,
                   forwardVars, lockVars>>

ConnectInsert(o) ==
    /\ pc[o] = "opened"
    /\ SessionsFree
    /\ sessions' = sessions \cup {o}
    /\ pc' = [pc EXCEPT ![o] = "forwarding"]
    /\ UNCHANGED <<parent, client, task, data, closeSent, told, dis,
                   forwardVars, lockVars>>

\* opts.forwards, started one after the other before the IO task exists.
StartProfileForward(o, f) ==
    /\ pc[o] = "forwarding"
    /\ \A g \in Starting : fwd[g].sess # o
    /\ SlotFree(f)
    /\ fwd' = [fwd EXCEPT ![f] = [st |-> "starting", sess |-> o, src |-> "profile"]]
    /\ UNCHANGED <<sessionVars, conn, stuck, carry, restore, lockVars>>

\* spawn_shell_io, and the call returns: from here on the id is known.
ConnectSpawn(o) ==
    /\ pc[o] = "forwarding"
    /\ \A g \in Starting : ~(fwd[g].sess = o /\ fwd[g].src = "profile")
    /\ task' = [task EXCEPT ![o] = "running"]
    /\ pc' = [pc EXCEPT ![o] = "open"]
    /\ UNCHANGED <<sessions, parent, client, data, closeSent, told, dis,
                   forwardVars, lockVars>>

-----------------------------------------------------------------------------
(* open_docker_exec: the parent is looked up once, under the lock; the     *)
(* channel is opened and the child inserted after the lock was released.   *)

ExecLookup(e, o) ==
    /\ pc[e] = "idle"
    /\ SessionsFree
    /\ o \in sessions
    /\ OwnsClient(o)
    /\ parent' = [parent EXCEPT ![e] = o]
    /\ pc' = [pc EXCEPT ![e] = "looked"]
    /\ UNCHANGED <<sessions, client, task, data, closeSent, told, dis,
                   forwardVars, lockVars>>

ExecAsk(e) ==
    /\ pc[e] = "looked"
    /\ HandleFree(parent[e])
    /\ handleLock' = [handleLock EXCEPT ![parent[e]] = e]
    /\ pc' = [pc EXCEPT ![e] = "asking"]
    /\ UNCHANGED <<sessions, parent, client, task, data, closeSent, told, dis,
                   forwardVars, sessionsLock, forwardsLock>>

\* Broken variant: a refused request leaves the handle locked.
ExecAnswerKeepsLock(e) ==
    /\ pc[e] = "asking"
    /\ \/ /\ client[parent[e]] = "up"
          /\ pc' = [pc EXCEPT ![e] = "opened"]
          /\ handleLock' = [handleLock EXCEPT ![parent[e]] = NoOne]
       \/ pc' = [pc EXCEPT ![e] = "failed"] /\ UNCHANGED handleLock
    /\ UNCHANGED <<sessions, parent, client, task, data, closeSent, told, dis,
                   forwardVars, sessionsLock, forwardsLock>>

\* The server answers, or the request fails (refused, connection gone).
ExecAnswer(e) ==
    /\ pc[e] = "asking"
    /\ handleLock' = [handleLock EXCEPT ![parent[e]] = NoOne]
    /\ \/ client[parent[e]] = "up" /\ pc' = [pc EXCEPT ![e] = "opened"]
       \/ pc' = [pc EXCEPT ![e] = "failed"]
    /\ UNCHANGED <<sessions, parent, client, task, data, closeSent, told, dis,
                   forwardVars, sessionsLock, forwardsLock>>

\* request_pty or the docker exec request is refused afterwards.
ExecRefused(e) ==
    /\ pc[e] = "opened"
    /\ pc' = [pc EXCEPT ![e] = "failed"]
    /\ UNCHANGED <<sessions, parent, client, task, data, closeSent, told, dis,
                   forwardVars, lockVars>>

ExecInsert(e) ==
    /\ pc[e] = "opened"
    /\ SessionsFree
    /\ sessions' = sessions \cup {e}
    /\ pc' = [pc EXCEPT ![e] = "inserted"]
    /\ UNCHANGED <<parent, client, task, data, closeSent, told, dis,
                   forwardVars, lockVars>>

ExecSpawn(e) ==
    /\ pc[e] = "inserted"
    /\ task' = [task EXCEPT ![e] = "running"]
    /\ pc' = [pc EXCEPT ![e] = "open"]
    /\ UNCHANGED <<sessions, parent, client, data, closeSent, told, dis,
                   forwardVars, lockVars>>

-----------------------------------------------------------------------------
(* ForwardManager.stop_session, run by disconnect and by the IO task.  It  *)
(* locks the info of every registered forward while it holds forwardsLock. *)

\* A forward taken out of the map: its listener still has to see the signal.
Unregistered(st) == IF st = "live" THEN "stopping" ELSE "idle"

\* Broken variant: the profile's forwards are kept as well.
KeptWithProfile(s) == {f \in Registered : fwd[f].sess = s /\ fwd[f].st = "live"}

\* What a reconnect shall bring back.
Kept(s) ==
    {f \in Registered : fwd[f].sess = s /\ fwd[f].src # "profile" /\ fwd[f].st = "live"}

StopSession(s) ==
    /\ fwd' = [f \in Fwds |->
                 IF f \in Registered /\ fwd[f].sess = s
                 THEN [fwd[f] EXCEPT !.st = Unregistered(@)]
                 ELSE fwd[f]]
    /\ carry' = IF Kept(s) = {} THEN carry ELSE [carry EXCEPT ![s] = Kept(s)]
    /\ UNCHANGED <<conn, stuck, restore>>

\* The caller blocks for good inside stop_session, forwardsLock held.
HangInStopSession(s) ==
    /\ forwardsLock' = s
    /\ UNCHANGED <<forwardVars, sessionsLock, handleLock>>

-----------------------------------------------------------------------------
(* disconnect                                                              *)

\* The renderer knows an id once the call that opened it returned.
Disconnect(s) ==
    /\ pc[s] = "open"
    /\ dis[s] = "idle"
    /\ dis' = [dis EXCEPT ![s] = "forwards"]
    /\ UNCHANGED <<sessions, parent, client, pc, task, data, closeSent, told,
                   forwardVars, lockVars>>

DisconnectForwards(s) ==
    /\ dis[s] = "forwards"
    /\ ForwardsFree
    /\ \/ /\ Registered \cap stuck = {}
          /\ StopSession(s)
          /\ dis' = [dis EXCEPT ![s] = "remove"]
          /\ UNCHANGED lockVars
       \/ /\ Registered \cap stuck # {}
          /\ HangInStopSession(s)
          /\ UNCHANGED dis
    /\ UNCHANGED <<sessions, parent, client, pc, task, data, closeSent, told>>

\* Children first, then the session; an owner's lock is kept for its transport.
DisconnectRemove(s) ==
    /\ dis[s] = "remove"
    /\ SessionsFree
    /\ LET children == {e \in sessions \cap Execs : parent[e] = s}
           gone     == (children \cup {s}) \cap sessions
       IN  /\ sessions' = sessions \ gone
           /\ closeSent' = closeSent \cup {g \in gone : task[g] # "ended"}
    /\ IF s \in sessions /\ OwnsClient(s)
       THEN sessionsLock' = s /\ dis' = [dis EXCEPT ![s] = "client"]
       ELSE UNCHANGED sessionsLock /\ dis' = [dis EXCEPT ![s] = "done"]
    /\ UNCHANGED <<parent, client, pc, task, data, told, forwardVars,
                   forwardsLock, handleLock>>

\* Broken variant: the session is dropped, its transport left to itself.
DisconnectLeavesClient(s) ==
    /\ dis[s] = "client"
    /\ sessionsLock' = NoOne
    /\ dis' = [dis EXCEPT ![s] = "done"]
    /\ UNCHANGED <<sessions, parent, client, pc, task, data, closeSent, told,
                   forwardVars, forwardsLock, handleLock>>

\* The handle lock is awaited and the transport closed under sessionsLock.
DisconnectClient(s) ==
    /\ dis[s] = "client"
    /\ HandleFree(Root(s))
    /\ client' = [client EXCEPT ![Root(s)] = "closed"]
    /\ sessionsLock' = NoOne
    /\ dis' = [dis EXCEPT ![s] = "done"]
    /\ UNCHANGED <<sessions, parent, pc, task, data, closeSent, told,
                   forwardVars, forwardsLock, handleLock>>

-----------------------------------------------------------------------------
(* The shell IO task (spawn_shell_io) and what feeds it                    *)

LoseTransport(o) ==
    /\ client[o] = "up"
    /\ client' = [client EXCEPT ![o] = "lost"]
    /\ UNCHANGED <<sessions, parent, pc, task, data, closeSent, told, dis,
                   forwardVars, lockVars>>

Write(s) ==
    /\ SessionsFree
    /\ s \in sessions
    /\ task[s] # "ended"                  \* else the send fails
    /\ data[s] < MaxData
    /\ data' = [data EXCEPT ![s] = @ + 1]
    /\ UNCHANGED <<sessions, parent, client, pc, task, closeSent, told, dis,
                   forwardVars, lockVars>>

\* ExitStatus, Eof or None: the remote shell ended or the transport is gone.
IoRemoteClosed(s) ==
    /\ task[s] = "running"
    /\ task' = [task EXCEPT ![s] = "closing"]
    /\ UNCHANGED <<sessions, parent, client, pc, data, closeSent, told, dis,
                   forwardVars, lockVars>>

\* Broken variant: the task ends without the "closed" status.
IoEndsSilently(s) ==
    /\ task[s] = "closing"
    /\ task' = [task EXCEPT ![s] = "ended"]
    /\ UNCHANGED <<sessions, parent, client, pc, data, closeSent, told, dis,
                   forwardVars, lockVars>>

\* ... whereupon the task stops the forwards, emits "closed" and ends.
IoTellClosed(s) ==
    /\ task[s] = "closing"
    /\ ForwardsFree
    /\ \/ /\ Registered \cap stuck = {}
          /\ StopSession(s)
          /\ task' = [task EXCEPT ![s] = "ended"]
          /\ told' = told \cup {s}
          /\ UNCHANGED lockVars
       \/ /\ Registered \cap stuck # {}
          /\ HangInStopSession(s)
          /\ UNCHANGED <<task, told>>
    /\ UNCHANGED <<sessions, parent, client, pc, data, closeSent, dis>>

\* Broken variant: the queue is read without looking whether it is empty.
IoDataFromEmptyQueue(s) ==
    /\ task[s] = "running"
    /\ data' = [data EXCEPT ![s] = @ - 1]
    /\ UNCHANGED <<sessions, parent, client, pc, task, closeSent, told, dis,
                   forwardVars, lockVars>>

\* A write to a dead transport fails: the task ends and tells nobody.
IoData(s) ==
    /\ task[s] = "running"
    /\ data[s] > 0
    /\ data' = [data EXCEPT ![s] = @ - 1]
    /\ task' = IF TransportGone(s) THEN [task EXCEPT ![s] = "ended"] ELSE task
    /\ UNCHANGED <<sessions, parent, client, pc, closeSent, told, dis,
                   forwardVars, lockVars>>

IoClose(s) ==
    /\ task[s] = "running"
    /\ data[s] = 0
    /\ s \in closeSent
    /\ task' = [task EXCEPT ![s] = "ended"]
    /\ UNCHANGED <<sessions, parent, client, pc, data, closeSent, told, dis,
                   forwardVars, lockVars>>

-----------------------------------------------------------------------------
(* Forwards: add_forward, the start_* calls, remove, and the stop signal   *)

AddForward(f, s) ==
    /\ SessionsFree
    /\ s \in sessions                     \* get_handle, not checked again
    /\ pc[s] = "open"
    /\ SlotFree(f)
    /\ fwd' = [fwd EXCEPT ![f] = [st |-> "starting", sess |-> s, src |-> "manual"]]
    /\ UNCHANGED <<sessionVars, conn, stuck, carry, restore, lockVars>>

\* A local or SOCKS5 listener binds its port, or fails to.
ForwardBind(f) ==
    /\ fwd[f].st = "starting"
    /\ Dir[f] # "R"
    /\ \/ MoveTo(f, "bound")
       \/ MoveTo(f, "idle")
    /\ UNCHANGED <<sessionVars, conn, stuck, carry, restore, lockVars>>

\* tcpip_forward holds the handle lock until the server answers.
ForwardAsk(f) ==
    /\ fwd[f].st = "starting"
    /\ Dir[f] = "R"
    /\ HandleFree(Root(fwd[f].sess))
    /\ handleLock' = [handleLock EXCEPT ![Root(fwd[f].sess)] = f]
    /\ MoveTo(f, "asking")
    /\ UNCHANGED <<sessionVars, conn, stuck, carry, restore,
                   sessionsLock, forwardsLock>>

\* Broken variant: a refused request leaves the handle locked.
ForwardAnswerKeepsLock(f) ==
    /\ fwd[f].st = "asking"
    /\ \/ /\ client[Root(fwd[f].sess)] = "up"
          /\ handleLock' = [handleLock EXCEPT ![Root(fwd[f].sess)] = NoOne]
          /\ MoveTo(f, "bound")
       \/ MoveTo(f, "idle") /\ UNCHANGED handleLock
    /\ UNCHANGED <<sessionVars, conn, stuck, carry, restore,
                   sessionsLock, forwardsLock>>

ForwardAnswer(f) ==
    /\ fwd[f].st = "asking"
    /\ handleLock' = [handleLock EXCEPT ![Root(fwd[f].sess)] = NoOne]
    /\ \/ /\ client[Root(fwd[f].sess)] = "up"
          /\ MoveTo(f, "bound")
       \/ MoveTo(f, "idle")
    /\ UNCHANGED <<sessionVars, conn, stuck, carry, restore,
                   sessionsLock, forwardsLock>>

ForwardInsert(f) ==
    /\ fwd[f].st = "bound"
    /\ ForwardsFree
    /\ MoveTo(f, "live")
    /\ UNCHANGED <<sessionVars, conn, stuck, carry, restore, lockVars>>

\* listener.accept fails: status "error", still registered, no listener.
AcceptError(f) ==
    /\ fwd[f].st = "live"
    /\ Dir[f] # "R"
    /\ f \notin stuck
    /\ MoveTo(f, "broken")
    /\ UNCHANGED <<sessionVars, conn, stuck, carry, restore, lockVars>>

RemoveForward(f) ==
    /\ f \in Registered
    /\ ForwardsFree
    /\ MoveTo(f, Unregistered(fwd[f].st))
    /\ UNCHANGED <<sessionVars, conn, stuck, carry, restore, lockVars>>

\* The accept loop of a local or SOCKS5 forward sees the stop signal.
ListenerStops(f) ==
    /\ fwd[f].st = "stopping"
    /\ Dir[f] # "R"
    /\ MoveTo(f, "idle")
    /\ UNCHANGED <<sessionVars, conn, stuck, carry, restore, lockVars>>

\* The stop task of a remote forward cancels it under the handle lock ...
CancelAsk(f) ==
    /\ fwd[f].st = "stopping"
    /\ Dir[f] = "R"
    /\ HandleFree(Root(fwd[f].sess))
    /\ handleLock' = [handleLock EXCEPT ![Root(fwd[f].sess)] = f]
    /\ MoveTo(f, "cancelling")
    /\ UNCHANGED <<sessionVars, conn, stuck, carry, restore,
                   sessionsLock, forwardsLock>>

\* ... and keeps that lock until it has locked the forward's info too.
CancelAnswer(f) ==
    /\ fwd[f].st = "cancelling"
    /\ f \notin stuck
    /\ handleLock' = [handleLock EXCEPT ![Root(fwd[f].sess)] = NoOne]
    /\ MoveTo(f, "idle")
    /\ UNCHANGED <<sessionVars, conn, stuck, carry, restore,
                   sessionsLock, forwardsLock>>

-----------------------------------------------------------------------------
(* One connection through a forward at a time                              *)

Accept(f) ==
    /\ fwd[f].st = "live"
    /\ conn[f] = "none"
    /\ f \notin stuck
    /\ Dir[f] = "R" => client[Root(fwd[f].sess)] = "up"
    /\ conn' = [conn EXCEPT ![f] = IF Dir[f] = "R" THEN "open" ELSE "accepted"]
    /\ UNCHANGED <<sessionVars, fwd, stuck, carry, restore, lockVars>>

\* channel_open_direct_tcpip, under the handle lock.
ConnAsk(f) ==
    /\ conn[f] = "accepted"
    /\ HandleFree(Root(fwd[f].sess))
    /\ handleLock' = [handleLock EXCEPT ![Root(fwd[f].sess)] = f]
    /\ conn' = [conn EXCEPT ![f] = "opening"]
    /\ UNCHANGED <<sessionVars, fwd, stuck, carry, restore,
                   sessionsLock, forwardsLock>>

ConnAnswer(f) ==
    /\ conn[f] = "opening"
    /\ client[Root(fwd[f].sess)] = "up"
    /\ handleLock' = [handleLock EXCEPT ![Root(fwd[f].sess)] = NoOne]
    /\ conn' = [conn EXCEPT ![f] = "open"]
    /\ UNCHANGED <<sessionVars, fwd, stuck, carry, restore,
                   sessionsLock, forwardsLock>>

\* The connection counter is decremented.  Remote and SOCKS5 forwards do it
\* in one statement that locks the info mutex twice, and wait for themselves.
EndConnection(f) ==
    /\ conn' = [conn EXCEPT ![f] = "none"]
    /\ stuck' = IF Dir[f] = "L" THEN stuck ELSE stuck \cup {f}
    /\ UNCHANGED <<sessionVars, fwd, carry, restore, sessionsLock, forwardsLock>>

\* The direct-tcpip channel is refused, or the transport is gone.
ConnRefused(f) ==
    /\ conn[f] = "opening"
    /\ handleLock' = [handleLock EXCEPT ![Root(fwd[f].sess)] = NoOne]
    /\ EndConnection(f)

\* Either side closes; a SOCKS5 request may also be rejected before it asks.
ConnEnds(f) ==
    /\ conn[f] \in {"open"} \cup (IF Dir[f] = "D" THEN {"accepted"} ELSE {})
    /\ UNCHANGED handleLock
    /\ EndConnection(f)

-----------------------------------------------------------------------------
(* forwards_restore, called by reconnectTab once the new session is open   *)

TakeCarry(from, to) ==
    /\ from \in told                      \* the tab was shown disconnected
    /\ pc[to] = "open" /\ to \in Owners \ {from}
    /\ carry[from] # {} /\ restore[to] = {}
    /\ restore' = [restore EXCEPT ![to] = carry[from]]
    /\ carry' = [carry EXCEPT ![from] = {}]
    /\ UNCHANGED <<sessionVars, fwd, conn, stuck, lockVars>>

\* One add_forward per carried spec, one after the other; one that fails is
\* skipped, as are remote forwards on a read-only host.
RestoreNext(f, to) ==
    /\ f \in restore[to]
    /\ \A g \in Starting : ~(fwd[g].sess = to /\ fwd[g].src = "restored")
    /\ restore' = [restore EXCEPT ![to] = @ \ {f}]
    /\ \/ /\ SessionsFree
          /\ to \in sessions
          /\ SlotFree(f)
          /\ fwd' = [fwd EXCEPT ![f] = [st |-> "starting", sess |-> to, src |-> "restored"]]
       \/ /\ SessionsFree
          /\ to \notin sessions \/ ~SlotFree(f)
          /\ UNCHANGED fwd
       \/ /\ Dir[f] = "R"
          /\ UNCHANGED fwd
    /\ UNCHANGED <<sessionVars, conn, stuck, carry, lockVars>>

-----------------------------------------------------------------------------
Connect(o) == ConnectOpen(o) \/ ConnectInsert(o) \/ ConnectSpawn(o)

ExecSteps(e) ==
    ExecAsk(e) \/ ExecAnswer(e) \/ ExecRefused(e) \/ ExecInsert(e) \/ ExecSpawn(e)

DisconnectSteps(s) ==
    \/ DisconnectForwards(s)
    \/ DisconnectRemove(s)
    \/ DisconnectClient(s)

Io(s) == IoRemoteClosed(s) \/ IoTellClosed(s) \/ IoData(s) \/ IoClose(s)

\* Steps of a forward that the backend or the server takes by itself.
ForwardSteps(f) ==
    \/ ForwardBind(f) \/ ForwardAsk(f) \/ ForwardAnswer(f) \/ ForwardInsert(f)
    \/ ListenerStops(f) \/ CancelAsk(f) \/ CancelAnswer(f)
    \/ ConnAsk(f) \/ ConnAnswer(f) \/ ConnRefused(f)

Next ==
    \/ \E o \in Owners : Connect(o) \/ LoseTransport(o)
    \/ \E e \in Execs : ExecSteps(e) \/ \E o \in Owners : ExecLookup(e, o)
    \/ \E s \in Ids : Disconnect(s) \/ DisconnectSteps(s) \/ Write(s) \/ Io(s)
    \/ \E f \in Fwds :
          \/ ForwardSteps(f) \/ AcceptError(f) \/ RemoveForward(f)
          \/ Accept(f) \/ ConnEnds(f)
          \/ \E o \in Owners : StartProfileForward(o, f)
          \/ \E s \in Ids : AddForward(f, s) \/ RestoreNext(f, s)
    \/ \E from, to \in Ids : TakeCarry(from, to)

Spec == Init /\ [][Next]_vars

\* One conjunct per task.  A waiter of a tokio mutex is served in turn, hence SF
\* where a task waits for a lock that others take and release; every request on
\* a handle is answered, or fails when the inactivity timeout ends the
\* connection, hence WF on the answers.  Users, servers closing a shell and new
\* connections owe nothing; a shell whose transport is gone does end.
Fairness ==
    /\ \A s \in Ids :
          /\ SF_vars(DisconnectSteps(s))
          /\ WF_vars(\/ IoTellClosed(s) \/ IoData(s) \/ IoClose(s)
                     \/ TransportGone(s) /\ IoRemoteClosed(s))
    /\ \A e \in Execs : SF_vars(ExecAsk(e) \/ ExecAnswer(e) \/ ExecInsert(e) \/ ExecSpawn(e))
    /\ \A f \in Fwds :
          /\ SF_vars(ForwardAsk(f) \/ CancelAsk(f) \/ ConnAsk(f))
          /\ WF_vars(ForwardAnswer(f) \/ CancelAnswer(f) \/ ConnAnswer(f) \/ ConnRefused(f))

FairSpec == Spec /\ Fairness

-----------------------------------------------------------------------------
(* The inductive invariant the safety properties follow from               *)

\* Where a connection stands when its calls stand where they are.
OwnerInv ==
    \A o \in Owners :
        /\ pc[o] = "idle" => client[o] = "none"
        /\ o \in sessions => pc[o] \in {"forwarding", "open"}
        /\ dis[o] # "idle" => pc[o] = "open"
        /\ dis[o] = "client" <=> sessionsLock = o
        /\ dis[o] \in {"client", "done"} => o \notin sessions
        /\ client[o] = "closed" => dis[o] = "done"

\* What open_docker_exec read before its awaits, and what became of it since.
ExecInv ==
    \A e \in Execs :
        /\ dis[e] # "client"
        /\ pc[e] = "idle" => e \notin sessions
        /\ pc[e] # "idle" =>
             /\ parent[e] \in Owners
             /\ pc[parent[e]] # "idle"
             /\ \/ parent[e] \in sessions
                \/ client[parent[e]] = "closed"
                \/ sessionsLock = parent[e]

TaskInv ==
    \A s \in Ids :
        /\ task[s] # "none" => pc[s] = "open"
        /\ task[s] = "ended" /\ s \notin told => s \in closeSent \/ TransportGone(s)

SafetyInv == OwnerInv /\ ExecInv /\ TaskInv

\* x holds the handle of o because its request on it is with the server.
AtServer(x, o) ==
    \/ x \in Execs /\ pc[x] = "asking" /\ parent[x] = o
    \/ /\ x \in Fwds
       /\ fwd[x].st \in {"asking", "cancelling"} \/ conn[x] = "opening"
       /\ Root(fwd[x].sess) = o

\* What a forward asks, and for which session, depends on its direction.
ForwardInv ==
    \A f \in Fwds :
        /\ fwd[f].st \in {"asking", "cancelling"} => Dir[f] = "R"
        /\ conn[f] \in {"accepted", "opening"} => Dir[f] # "R"
        /\ fwd[f].st # "idle" \/ conn[f] # "none" =>
              fwd[f].sess \in Ids /\ pc[fwd[f].sess] # "idle"

-----------------------------------------------------------------------------
(* What the callers are promised                                           *)

\* The line of a session that is being disconnected is as good as closed: nobody
\* gets at the map before it is.
Line(o) == IF sessionsLock = o THEN "closed" ELSE client[o]

\* A shell that got its end of file still is to say so.
Shell(s) == IF task[s] = "closing" THEN "running" ELSE task[s]

Promise == INSTANCE SessionPromise
    WITH listed <- sessions, left <- closeSent,
         line  <- [o \in Owners |-> Line(o)],
         shell <- [s \in Ids |-> Shell(s)]

-----------------------------------------------------------------------------
(* Properties                                                              *)

\* For those who hold a session id, disconnect with its awaits is one step: the
\* session, its children in the map and the transport go together; a session is in
\* the map once, its shell ends once, and without a word only for a reason.
KeepsPromise == Promise!Spec


\* A docker-exec session that is in the map after its parent was taken out
\* (open_docker_exec looks the parent up once and inserts later) has no
\* transport: disconnect has closed it, or still holds the sessions lock to.
OrphanHasNoTransport ==
    \A e \in sessions \cap Execs :
        parent[e] \notin sessions =>
            client[parent[e]] = "closed" \/ sessionsLock = parent[e]

\* The transport is closed by the app only for the session that owns it:
\* disconnecting a docker-exec tab (owns_client = false) never takes its
\* parent, or a session in the map, down with it.
ClosedOnlyByOwner ==
    \A o \in Owners : client[o] = "closed" => dis[o] = "done" /\ o \notin sessions

\* No two tasks wait for each other's locks, although disconnect holds the map of
\* sessions while it awaits a handle: whoever holds a handle has its request at the
\* server (and nobody else does), whoever holds the map waits for a handle, and the
\* lock on all forwards is held only behind a forward that locked its info twice.
NoLockCycle ==
    /\ \A o \in Owners, x \in Execs \cup Fwds : handleLock[o] = x <=> AtServer(x, o)
    /\ sessionsLock # NoOne => dis[sessionsLock] = "client"
    /\ forwardsLock # NoOne => Registered \cap stuck # {}

\* An IO task ends without the "closed" status only if the session was
\* disconnected on purpose or its transport is gone.
SilentEndExplained ==
    \A s \in Ids : task[s] = "ended" /\ s \notin told =>
        s \in closeSent \/ TransportGone(s)

\* What a reconnect brings back is what the user added by hand and was still
\* listening when the session ended; the profile's forwards are opened by
\* connect itself and a second copy would fight for the port.
CarriedWasManual ==
    [][\A s \in Ids : \A f \in carry'[s] \ carry[s] :
          fwd[f].sess = s /\ fwd[f].st = "live" /\ fwd[f].src # "profile"]_vars

\* Disconnect returns, whatever servers, other disconnects and forwards do,
\* unless some forward waits for its own info mutex.
DisconnectReturns ==
    \A s \in Ids : dis[s] = "forwards" ~> dis[s] = "done" \/ stuck # {}

\* A docker-exec shell never keeps running after its parent's disconnect,
\* not even one that was inserted behind disconnect's back.
ChildShellEnds ==
    \A e \in Execs :
        parent[e] # NoOne /\ dis[parent[e]] = "done" ~>
            pc[e] = "failed" \/ task[e] = "ended" \/ stuck # {}

\* MIGRATION-TAURI.md on docker-exec sessions: "disconnecting the parent closes
\* the child sessions": none is left in the map once disconnect is done.
ChildrenGoWithParent ==
    \A e \in sessions \cap Execs : dis[parent[e]] # "done"

\* README: forwards can be added and stopped on a live session; so stopping a
\* session, which stops its forwards, comes to an end.
DisconnectAlwaysReturns ==
    \A s \in Ids : dis[s] = "forwards" ~> dis[s] = "done"
=============================================================================

----------------------------- MODULE JumpChain -----------------------------
(***************************************************************************)
(* SshManager::connect through a ProxyJump chain (ssh.rs), and the jump    *)
(* slot in which a failed connect parks the hops it had reached, for a     *)
(* retry to resume from.  One slot key: connects with another chain or     *)
(* target use another slot and never meet.  Each await of connect is the   *)
(* end of an action, so the connects of several tabs interleave there.     *)
(*                                                                         *)
(* A handle is the russh connection that one attempt made to one hop; hop  *)
(* Target is the server behind the last hop.  Between two awaits connect   *)
(* keeps the hops behind it in held and the one it is talking to in cur.   *)
(***************************************************************************)
EXTENDS Integers, Sequences

CONSTANTS
    Attempts,   \* calls of connect, each with its own session id
    N,          \* number of hops, at most 5 (resolve_hops)
    NoHandle

ASSUME ChainAssumption ==
    /\ N \in 1..5
    /\ NoHandle \notin Attempts \X (1..6)

Target  == N + 1
Handles == Attempts \X (1..Target)

VARIABLES
    pc,         \* progress of each attempt
    resume,     \* resume_from, 0 when the call has none
    prefer,     \* jump_retry_from_failed_hop
    next,       \* hop that chain_iter yields next
    held,       \* jump_handles
    cur,        \* handle of the last hop reached
    via,        \* handle whose channel carries each handle
    slot,       \* handles parked under the key, <<>> when there is no entry
    closed,     \* handles that were disconnected or dropped
    failedHop   \* hop named by the error of the last connect that failed

attemptVars == <<pc, resume, prefer, next, held, cur>>
vars == <<attemptVars, via, slot, closed, failedHop>>

\* Awaiting: a channel to the first hop not parked, its handshake, its
\* authentication; a TCP connection to the first hop; its authentication; then
\* a channel to the next hop, its handshake, its authentication; the shell.
Waiting == {"reopen", "rehandshake", "reauth", "connect", "auth1",
            "open", "handshake", "auth", "shell"}
Pcs     == {"idle", "live", "ended"} \cup Waiting

Elems(s) == {s[i] : i \in 1..Len(s)}
Owned(a) == Elems(held[a]) \cup {h \in {cur[a]} : h # NoHandle}

TypeOK ==
    /\ pc \in [Attempts -> Pcs]
    /\ resume \in [Attempts -> 0..Target]
    /\ prefer \in [Attempts -> BOOLEAN]
    /\ next \in [Attempts -> 1..Target]
    /\ held \in [Attempts -> Seq(Handles)]
    /\ cur \in [Attempts -> Handles \cup {NoHandle}]
    /\ via \in [Handles -> Handles \cup {NoHandle}]
    /\ slot \in Seq(Handles)
    /\ closed \subseteq Handles
    /\ failedHop \in 0..N

Init ==
    /\ pc = [a \in Attempts |-> "idle"]
    /\ resume = [a \in Attempts |-> 0]
    /\ prefer = [a \in Attempts |-> TRUE]
    /\ next = [a \in Attempts |-> 1]
    /\ held = [a \in Attempts |-> <<>>]
    /\ cur = [a \in Attempts |-> NoHandle]
    /\ via = [h \in Handles |-> NoHandle]
    /\ slot = <<>>
    /\ closed = {}
    /\ failedHop = 0

-----------------------------------------------------------------------------
(* The start of connect, up to its first await                             *)

\* The parked handles in front of the hop to resume from.
KeepBefore(k) == SubSeq(slot, 1, k - 1)

\* Broken variant: the hop to resume at is taken for one of those kept.
RestFromNext(k) == IF k < Target THEN k + 1 ELSE k

\* The rest of the chain, with its credentials, begins at start_idx.
RestFrom(k) == k

\* Broken variant: the parked handles are copied, the entry stays.
SlotKept == slot

\* jump_slots.lock().remove
SlotAfterTake == <<>>

\* resume_from = 0 drops whatever is parked; resume_from > 1 takes it.  A call
\* that does not prefer to resume, or says hop 1, leaves the slot alone.
Takes(p, k) == p /\ k > 1
Begins(a, p, k) ==
    /\ pc[a] = "idle"
    /\ resume' = [resume EXCEPT ![a] = k]
    /\ prefer' = [prefer EXCEPT ![a] = p]

StartFresh(a, p, k) ==
    /\ Begins(a, p, k)
    /\ ~(Takes(p, k) /\ Len(slot) >= k - 1)
    /\ IF k = 0 \/ Takes(p, k)
       THEN slot' = <<>> /\ closed' = closed \cup Elems(slot)
       ELSE UNCHANGED <<slot, closed>>
    /\ pc' = [pc EXCEPT ![a] = "connect"]
    /\ next' = [next EXCEPT ![a] = 1]
    /\ UNCHANGED <<held, cur, via, failedHop>>

StartResume(a, p, k) ==
    /\ Begins(a, p, k)
    /\ Takes(p, k)
    /\ Len(slot) >= k - 1
    /\ held' = [held EXCEPT ![a] = KeepBefore(k)]
    /\ slot' = SlotAfterTake
    /\ closed' = closed \cup (Elems(slot) \ (Elems(KeepBefore(k)) \cup Elems(slot')))
    /\ pc' = [pc EXCEPT ![a] = "reopen"]
    /\ next' = [next EXCEPT ![a] = RestFrom(k)]
    /\ UNCHANGED <<cur, via, failedHop>>

-----------------------------------------------------------------------------
(* Success of an await                                                     *)

\* The handle of hop i over the last held one.
Reach(a, i) ==
    LET h == <<a, i>>
        m == Len(held[a])
    IN  /\ cur' = [cur EXCEPT ![a] = h]
        /\ via' = [via EXCEPT ![h] = IF m = 0 THEN NoHandle ELSE held[a][m]]

\* A channel through the last parked hop to the one after it.
Reopened(a) ==
    /\ pc[a] = "reopen"
    /\ pc' = [pc EXCEPT ![a] = "rehandshake"]
    /\ UNCHANGED <<resume, prefer, next, held, cur, via, slot, closed, failedHop>>

Rehandshaken(a) ==
    /\ pc[a] = "rehandshake"
    /\ Reach(a, Len(held[a]) + 1)
    /\ pc' = [pc EXCEPT ![a] = "reauth"]
    /\ UNCHANGED <<resume, prefer, next, held, slot, closed, failedHop>>

Connected(a) ==
    /\ pc[a] = "connect"
    /\ Reach(a, next[a])
    /\ pc' = [pc EXCEPT ![a] = "auth1"]
    /\ UNCHANGED <<resume, prefer, next, held, slot, closed, failedHop>>

\* Broken variant: the hop is left behind without being kept.
OpenedForgetsHop(a) ==
    /\ pc[a] = "open"
    /\ cur' = [cur EXCEPT ![a] = NoHandle]
    /\ pc' = [pc EXCEPT ![a] = "handshake"]
    /\ UNCHANGED <<resume, prefer, next, held, via, slot, closed, failedHop>>

\* The channel to the next hop is open: the current hop joins the held ones.
Opened(a) ==
    /\ pc[a] = "open"
    /\ held' = [held EXCEPT ![a] = Append(@, cur[a])]
    /\ cur' = [cur EXCEPT ![a] = NoHandle]
    /\ pc' = [pc EXCEPT ![a] = "handshake"]
    /\ UNCHANGED <<resume, prefer, next, via, slot, closed, failedHop>>

Handshaken(a) ==
    /\ pc[a] = "handshake"
    /\ Reach(a, next[a])
    /\ pc' = [pc EXCEPT ![a] = "auth"]
    /\ UNCHANGED <<resume, prefer, next, held, slot, closed, failedHop>>

\* Broken variant: the target is taken for one more hop.
AuthenticatedPastTarget(a) ==
    /\ pc[a] \in {"reauth", "auth1", "auth"}
    /\ next' = [next EXCEPT ![a] = @ + 1]
    /\ pc' = [pc EXCEPT ![a] = "open"]
    /\ UNCHANGED <<resume, prefer, held, cur, via, slot, closed, failedHop>>

AuthenticatedHop(a) ==
    /\ pc[a] \in {"reauth", "auth1", "auth"}
    /\ next[a] < Target
    /\ next' = [next EXCEPT ![a] = @ + 1]
    /\ pc' = [pc EXCEPT ![a] = "open"]
    /\ UNCHANGED <<resume, prefer, held, cur, via, slot, closed, failedHop>>

\* The whole chain is up: whatever is parked under the key is let go.
AuthenticatedTarget(a) ==
    /\ pc[a] \in {"reauth", "auth1", "auth"}
    /\ next[a] = Target
    /\ slot' = <<>>
    /\ closed' = closed \cup Elems(slot)
    /\ pc' = [pc EXCEPT ![a] = "shell"]
    /\ UNCHANGED <<resume, prefer, next, held, cur, via, failedHop>>

\* The shell is open, or the probe connection is held.
Live(a) ==
    /\ pc[a] = "shell"
    /\ pc' = [pc EXCEPT ![a] = "live"]
    /\ failedHop' = 0
    /\ UNCHANGED <<resume, prefer, next, held, cur, via, slot, closed>>

-----------------------------------------------------------------------------
(* Failure of an await                                                     *)

\* The parked hops are no use any more: the same call starts over.
GiveUpResume(a) ==
    /\ pc[a] \in {"reopen", "rehandshake"}
    /\ closed' = closed \cup Elems(held[a])
    /\ held' = [held EXCEPT ![a] = <<>>]
    /\ next' = [next EXCEPT ![a] = 1]
    /\ pc' = [pc EXCEPT ![a] = "connect"]
    /\ UNCHANGED <<resume, prefer, cur, via, slot, failedHop>>

\* The call returns an error.  hops is parked if it prefers to resume and there
\* is any; an entry that was there is replaced, and every other handle dropped.
Fail(a, hops) ==
    LET parked == IF prefer[a] THEN hops ELSE <<>>
    IN  /\ slot' = IF parked = <<>> THEN slot ELSE parked
        /\ closed' = closed \cup ((Owned(a) \cup Elems(slot)) \ Elems(slot'))
        /\ held' = [held EXCEPT ![a] = <<>>]
        /\ cur' = [cur EXCEPT ![a] = NoHandle]
        /\ pc' = [pc EXCEPT ![a] = "ended"]
        /\ UNCHANGED <<resume, prefer, next, via>>

\* format_hop_failure: the target is reported as the last hop.
Reports(a) == failedHop' = IF next[a] = Target THEN N ELSE next[a]

\* Which of connect's two loops a is in: the one that went on from parked hops,
\* which another call had made, parks nothing when the target fails.
Resumed(a) == held[a] # <<>> /\ held[a][1][1] # a

\* The first hop: nothing to park.
FirstFails(a) ==
    /\ pc[a] \in {"connect", "auth1"}
    /\ Fail(a, <<>>)
    /\ Reports(a)

\* The current hop is parked only when it is the first one.
OpenFails(a) ==
    /\ pc[a] = "open"
    /\ Fail(a, IF held[a] = <<>> THEN <<cur[a]>>
               ELSE IF Resumed(a) /\ next[a] = Target THEN <<>>
               ELSE held[a])
    /\ Reports(a)

HandshakeFails(a) ==
    /\ pc[a] = "handshake"
    /\ Fail(a, IF Resumed(a) /\ next[a] = Target THEN <<>> ELSE held[a])
    /\ Reports(a)

\* Broken variant: nothing is parked for a hop that refuses the credentials.
AuthFailsParksNothing(a) ==
    /\ pc[a] \in {"auth", "reauth"}
    /\ Fail(a, <<>>)
    /\ Reports(a)

\* The target's refusal parks nothing, unless it is the hop resumed at.
AuthFails(a) ==
    /\ pc[a] \in {"auth", "reauth"}
    /\ Fail(a, IF pc[a] = "auth" /\ next[a] = Target THEN <<>> ELSE held[a])
    /\ Reports(a)

\* open_session, request_pty or request_shell: no hop is to blame.
ShellFails(a) ==
    /\ pc[a] = "shell"
    /\ Fail(a, <<>>)
    /\ failedHop' = 0

\* The session is disconnected, its jump handles with it.
Disconnect(a) ==
    /\ pc[a] = "live"
    /\ pc' = [pc EXCEPT ![a] = "ended"]
    /\ closed' = closed \cup Owned(a)
    /\ held' = [held EXCEPT ![a] = <<>>]
    /\ cur' = [cur EXCEPT ![a] = NoHandle]
    /\ UNCHANGED <<resume, prefer, next, via, slot, failedHop>>

-----------------------------------------------------------------------------
\* The renderer passes the hop of the last failure it showed for the profile,
\* or none; tabs without a profile share it, so any hop number may arrive.
Start(a) ==
    \E p \in BOOLEAN, k \in 0..Target : StartFresh(a, p, k) \/ StartResume(a, p, k)

Succeed(a) ==
    \/ Reopened(a) \/ Rehandshaken(a) \/ Connected(a) \/ Opened(a) \/ Handshaken(a)
    \/ AuthenticatedHop(a) \/ AuthenticatedTarget(a) \/ Live(a)

FailSomewhere(a) ==
    \/ GiveUpResume(a) \/ FirstFails(a) \/ OpenFails(a) \/ HandshakeFails(a)
    \/ AuthFails(a) \/ ShellFails(a)

Next == \E a \in Attempts : Start(a) \/ Succeed(a) \/ FailSomewhere(a) \/ Disconnect(a)

Spec == Init /\ [][Next]_vars

-----------------------------------------------------------------------------
(* The inductive invariant the safety properties follow from               *)

NoneMade == {"idle", "reopen", "rehandshake", "connect"}
HopUp    == {"reauth", "auth1", "auth", "open", "shell", "live"}

\* The place of a connect in its chain tells how many hops it holds.
Place(a) ==
    /\ cur[a] = IF pc[a] \in HopUp THEN <<a, Len(held[a]) + 1>> ELSE NoHandle
    /\ pc[a] \in {"idle", "connect", "auth1", "ended"} => held[a] = <<>>
    /\ pc[a] \in {"connect", "auth1"} => next[a] = 1
    /\ pc[a] = "open" => Len(held[a]) = next[a] - 2
    /\ pc[a] \in {"reopen", "rehandshake", "reauth", "handshake", "auth"} =>
          Len(held[a]) = next[a] - 1
    /\ pc[a] \in {"reopen", "rehandshake", "reauth", "open", "handshake", "auth"} =>
          next[a] > 1

PlaceInv == \A a \in Attempts : Place(a)

Used == closed \cup Elems(slot) \cup UNION {Owned(a) : a \in Attempts}

\* A connect reaches each hop once: what it made so far lies before its place.
MadeBefore(a, i) ==
    /\ pc[a] \notin NoneMade
    /\ pc[a] \in {"open", "handshake"} => i < next[a]
    /\ pc[a] \in {"reauth", "auth1", "auth"} => i <= next[a]

FreshInv == \A a \in Attempts, i \in 1..Target : <<a, i>> \in Used => MadeBefore(a, i)

-----------------------------------------------------------------------------
(* Properties                                                              *)

\* s is an unbroken path of connections from the first hop on.
IsPath(s) ==
    \A i \in 1..Len(s) :
        /\ s[i][2] = i
        /\ via[s[i]] = IF i = 1 THEN NoHandle ELSE s[i-1]

\* The hops a connect holds, and those it parks for another, are the chain in
\* its order, each carried by the one before, whatever failed, was resumed or
\* was taken over from an earlier call: no hop is skipped or entered twice.
ChainsAreUnbroken ==
    /\ IsPath(slot)
    /\ \A a \in Attempts :
          IsPath(IF cur[a] = NoHandle THEN held[a] ELSE Append(held[a], cur[a]))

\* A handle belongs to one call or to the slot, so no retry, no other tab and no
\* drop_jump_slot ever closes a hop below a connection that is in use.
OneOwner ==
    /\ \A a, b \in Attempts : a # b => Owned(a) \cap Owned(b) = {}
    /\ \A a \in Attempts : Owned(a) \cap (Elems(slot) \cup closed) = {}
    /\ Elems(slot) \cap closed = {}

\* Where the handles are, as HopCustody sees it.
Custody == INSTANCE HopCustody WITH
    Callers <- Attempts,
    Hops    <- 1..Target,
    has     <- [a \in Attempts |-> Owned(a)],
    parked  <- Elems(slot)

\* The connects and the slot pass the handles on as HopCustody says: each is made
\* once, has one owner, is taken with the whole slot or closed with it, and none
\* is lost or closed below a connection in use, however the connects interleave.
KeepsCustody == Custody!Spec

\* What JumpChainProofs proves to hold together.
SafetyInv == PlaceInv /\ FreshInv /\ OneOwner /\ ChainsAreUnbroken

\* Each server is authenticated to with its own credentials, also when its
\* connection was reopened from a parked hop (next_host) and the credentials
\* come from the rest of the chain (chain_iter).
OwnCredentials ==
    \A a \in Attempts :
        pc[a] \in {"reauth", "auth1", "auth"} => cur[a][2] = next[a]

\* What a hop that answered but failed its handshake or its authentication
\* leaves behind is enough to resume at that hop.
FailureCanResume ==
    [][\A a \in Attempts :
          /\ pc[a] \in {"handshake", "auth", "reauth"}
          /\ pc'[a] = "ended"
          /\ prefer[a] /\ next[a] < Target
          => Len(slot') = failedHop' - 1]_vars
=============================================================================

--------------------------- MODULE JumpChainProofs ---------------------------
(***************************************************************************)
(* TLAPS proofs about JumpChain, for any number of connects and chains of  *)
(* up to five hops.  First the types and the place of each connect, then   *)
(* that a handle has one owner and is made once, then that the chains are  *)
(* unbroken; each part rests on the ones before.                           *)
(***************************************************************************)
EXTENDS JumpChain, TLAPS

USE ChainAssumption DEF Target

-----------------------------------------------------------------------------
(* Sequences of handles and their elements                                 *)

LEMMA ElemsOfEmpty == Elems(<<>>) = {}
BY DEF Elems

LEMMA ElemsTyped ==
    ASSUME NEW s \in Seq(Handles) PROVE Elems(s) \subseteq Handles
BY DEF Elems

LEMMA ElemsOfAppend ==
    ASSUME NEW s \in Seq(Handles), NEW h \in Handles
    PROVE  /\ Append(s, h) \in Seq(Handles)
           /\ Elems(Append(s, h)) = Elems(s) \cup {h}
<1> DEFINE t == Append(s, h)
<1>1. /\ t \in Seq(Handles) /\ Len(t) = Len(s) + 1 /\ Len(s) \in Nat
      /\ \A i \in 1..Len(s) : t[i] = s[i]
      /\ t[Len(s) + 1] = h
  OBVIOUS
<1>2. Elems(t) \subseteq Elems(s) \cup {h}
  <2> SUFFICES ASSUME NEW i \in 1..Len(t) PROVE t[i] \in Elems(s) \cup {h}
    BY DEF Elems
  <2>1. i \in 1..Len(s) \/ i = Len(s) + 1
    BY <1>1
  <2> HIDE DEF t
  <2> QED
    BY <2>1, <1>1 DEF Elems
<1>3. Elems(s) \subseteq Elems(t)
  <2> SUFFICES ASSUME NEW i \in 1..Len(s) PROVE s[i] \in Elems(t)
    BY DEF Elems
  <2>1. i \in 1..Len(t) /\ t[i] = s[i]
    BY <1>1
  <2> HIDE DEF t
  <2> QED
    BY <2>1 DEF Elems
<1>4. h \in Elems(t)
  <2>1. Len(s) + 1 \in 1..Len(t)
    BY <1>1
  <2> HIDE DEF t
  <2> QED
    BY <1>1, <2>1 DEF Elems
<1> QED
  BY <1>1, <1>2, <1>3, <1>4

\* The handles kept for a resume at hop k.
LEMMA KeptType ==
    ASSUME TypeOK, NEW k \in 0..Target, k > 1, Len(slot) >= k - 1
    PROVE  /\ KeepBefore(k) \in Seq(Handles)
           /\ Len(KeepBefore(k)) = k - 1
           /\ \A i \in 1..(k - 1) : KeepBefore(k)[i] = slot[i]
           /\ Elems(KeepBefore(k)) \subseteq Elems(slot)
<1>1. /\ KeepBefore(k) \in Seq(Handles)
      /\ Len(KeepBefore(k)) = k - 1
      /\ \A i \in 1..(k - 1) : KeepBefore(k)[i] = slot[i]
  BY DEF KeepBefore, TypeOK
<1>2. Elems(KeepBefore(k)) \subseteq Elems(slot)
  <2> SUFFICES ASSUME NEW i \in 1..Len(KeepBefore(k))
               PROVE  KeepBefore(k)[i] \in Elems(slot)
    BY DEF Elems
  <2>1. i \in 1..(k - 1) /\ i \in 1..Len(slot)
    BY <1>1 DEF TypeOK
  <2> QED
    BY <1>1, <2>1 DEF Elems
<1> QED
  BY <1>1, <1>2

\* What a connect that fails may park: nothing, its first hop, or what it holds.
Parkable(a) ==
    {<<>>, held[a]} \cup
    {<<h>> : h \in {h \in Handles : h = cur[a] /\ held[a] = <<>>}}

-----------------------------------------------------------------------------
(* Types and places                                                        *)

TypeInv == TypeOK /\ PlaceInv

\* The handle a connect is about to make is one of the handles.
LEMMA ReachType ==
    ASSUME TypeInv, NEW a \in Attempts, NEW i \in 1..Target, Reach(a, i)
    PROVE  /\ cur' = [cur EXCEPT ![a] = <<a, i>>]
           /\ cur' \in [Attempts -> Handles \cup {NoHandle}]
           /\ via' \in [Handles -> Handles \cup {NoHandle}]
<1>1. <<a, i>> \in Handles
  BY DEF Handles
<1>2. Len(held[a]) # 0 => held[a][Len(held[a])] \in Handles
  BY DEF TypeInv, TypeOK
<1> QED
  BY <1>1, <1>2 DEF Reach, TypeInv, TypeOK

LEMMA FailType ==
    ASSUME TypeInv, NEW a \in Attempts, NEW hops \in Parkable(a) \cap Seq(Handles),
           Fail(a, hops), failedHop' \in 0..N
    PROVE  TypeInv'
<1>1. slot' \in Seq(Handles)
  BY DEF Fail, TypeInv, TypeOK
<1>2. closed' \subseteq Handles
  <2>1. Elems(slot) \subseteq Handles /\ Elems(held[a]) \subseteq Handles
    BY ElemsTyped DEF TypeInv, TypeOK
  <2>2. Owned(a) \subseteq Handles
    BY <2>1 DEF Owned, TypeInv, TypeOK
  <2> QED
    BY <2>1, <2>2 DEF Fail, TypeInv, TypeOK
<1>3. TypeOK'
  BY <1>1, <1>2 DEF Fail, TypeInv, TypeOK, Pcs
<1>4. PlaceInv'
  BY DEF Fail, TypeInv, TypeOK, PlaceInv, Place, HopUp
<1> QED
  BY <1>3, <1>4 DEF TypeInv

\* Every failure that ends a connect is one Fail, and parks no more than this.
LEMMA FailShape ==
    ASSUME TypeInv, NEW a \in Attempts, FailSomewhere(a), ~GiveUpResume(a)
    PROVE  \E hops \in Parkable(a) : Fail(a, hops) /\ failedHop' \in 0..N
<1>1. Reports(a) => failedHop' \in 0..N
  BY DEF Reports, TypeInv, TypeOK
<1>2. CASE FirstFails(a)
  BY <1>1, <1>2 DEF FirstFails, Parkable
<1>3. CASE OpenFails(a)
  <2>1. cur[a] \in Handles
    BY <1>3 DEF OpenFails, TypeInv, TypeOK, PlaceInv, Place, HopUp
  <2> QED
    BY <1>1, <1>3, <2>1 DEF OpenFails, Parkable
<1>4. CASE HandshakeFails(a)
  BY <1>1, <1>4 DEF HandshakeFails, Parkable
<1>5. CASE AuthFails(a)
  BY <1>1, <1>5 DEF AuthFails, Parkable
<1>6. CASE ShellFails(a)
  BY <1>6 DEF ShellFails, Parkable
<1> QED
  BY <1>2, <1>3, <1>4, <1>5, <1>6 DEF FailSomewhere

LEMMA TypeInductive == TypeInv /\ [Next]_vars => TypeInv'
<1> SUFFICES ASSUME TypeInv, [Next]_vars PROVE TypeInv'
  OBVIOUS
<1>0. Elems(slot) \subseteq Handles
  BY ElemsTyped DEF TypeInv, TypeOK
<1>00. \A a \in Attempts : held[a] \in Seq(Handles) /\ Elems(held[a]) \subseteq Handles
  BY ElemsTyped DEF TypeInv, TypeOK
<1>000. \A a \in Attempts : Owned(a) \subseteq Handles
  BY <1>00 DEF Owned, TypeInv, TypeOK
<1>1. ASSUME NEW a \in Attempts, NEW p \in BOOLEAN, NEW k \in 0..Target, StartFresh(a, p, k)
      PROVE  TypeInv'
  <2>1. TypeOK'
    <3>1. slot' \in Seq(Handles) /\ closed' \subseteq Handles
      <4>1. slot' \in {<<>>, slot} /\ closed' \subseteq closed \cup Elems(slot)
        BY <1>1 DEF StartFresh
      <4>2. <<>> \in Seq(Handles)
        OBVIOUS
      <4> QED
        BY <1>0, <4>1, <4>2 DEF TypeInv, TypeOK
    <3> QED
      BY <1>1, <3>1 DEF StartFresh, Begins, TypeInv, TypeOK, Pcs, Waiting
  <2>2. PlaceInv'
    BY <1>1 DEF StartFresh, Begins, TypeInv, TypeOK, PlaceInv, Place, HopUp
  <2> QED
    BY <2>1, <2>2 DEF TypeInv
<1>2. ASSUME NEW a \in Attempts, NEW p \in BOOLEAN, NEW k \in 0..Target, StartResume(a, p, k)
      PROVE  TypeInv'
  <2>0. k > 1 /\ Len(slot) >= k - 1
    BY <1>2 DEF StartResume, Takes
  <2>1. KeepBefore(k) \in Seq(Handles) /\ Len(KeepBefore(k)) = k - 1
    BY <2>0, KeptType DEF TypeInv
  <2>2. TypeOK'
    <3>1. slot' \in Seq(Handles) /\ closed' \subseteq Handles
      BY <1>0, <1>2 DEF StartResume, SlotAfterTake, TypeInv, TypeOK
    <3>2. held' \in [Attempts -> Seq(Handles)]
      BY <1>2, <2>1 DEF StartResume, TypeInv, TypeOK
    <3> QED
      BY <1>2, <2>0, <3>1, <3>2
      DEF StartResume, RestFrom, Begins, TypeInv, TypeOK, Pcs, Waiting
  <2>3. PlaceInv'
    BY <1>2, <2>0, <2>1
    DEF StartResume, RestFrom, Begins, TypeInv, TypeOK, PlaceInv, Place, HopUp
  <2> QED
    BY <2>2, <2>3 DEF TypeInv
<1>3. ASSUME NEW a \in Attempts, Reopened(a) PROVE TypeInv'
  BY <1>3 DEF Reopened, TypeInv, TypeOK, PlaceInv, Place, Pcs, Waiting, HopUp
<1>4. ASSUME NEW a \in Attempts, Rehandshaken(a) PROVE TypeInv'
  <2>1. Len(held[a]) + 1 = next[a] /\ Len(held[a]) + 1 \in 1..Target
    BY <1>4 DEF Rehandshaken, TypeInv, TypeOK, PlaceInv, Place
  <2>2. /\ cur' = [cur EXCEPT ![a] = <<a, Len(held[a]) + 1>>]
        /\ cur' \in [Attempts -> Handles \cup {NoHandle}]
        /\ via' \in [Handles -> Handles \cup {NoHandle}]
    BY <1>4, <2>1, ReachType DEF Rehandshaken
  <2>3. TypeOK'
    BY <1>4, <2>2 DEF Rehandshaken, TypeInv, TypeOK, Pcs, Waiting
  <2>4. PlaceInv'
    BY <1>4, <2>1, <2>2 DEF Rehandshaken, TypeInv, TypeOK, PlaceInv, Place, HopUp
  <2> QED
    BY <2>3, <2>4 DEF TypeInv
<1>5. ASSUME NEW a \in Attempts, Connected(a) PROVE TypeInv'
  <2>1. next[a] = 1 /\ held[a] = <<>> /\ Len(held[a]) = 0 /\ next[a] \in 1..Target
    BY <1>5 DEF Connected, TypeInv, TypeOK, PlaceInv, Place
  <2>2. /\ cur' = [cur EXCEPT ![a] = <<a, next[a]>>]
        /\ cur' \in [Attempts -> Handles \cup {NoHandle}]
        /\ via' \in [Handles -> Handles \cup {NoHandle}]
    BY <1>5, <2>1, ReachType DEF Connected
  <2>3. TypeOK'
    BY <1>5, <2>2 DEF Connected, TypeInv, TypeOK, Pcs, Waiting
  <2>4. PlaceInv'
    <3> SUFFICES ASSUME NEW b \in Attempts PROVE Place(b)'
      BY DEF PlaceInv
    <3>1. CASE b # a
      BY <1>5, <2>2, <3>1 DEF Connected, TypeInv, TypeOK, PlaceInv, Place
    <3>2. CASE b = a
      <4>1. /\ cur'[a] = <<a, Len(held'[a]) + 1>> /\ held'[a] = <<>> /\ next'[a] = 1
            /\ pc'[a] = "auth1"
        BY <1>5, <2>1, <2>2 DEF Connected, TypeInv, TypeOK
      <4> QED
        BY <3>2, <4>1 DEF Place, HopUp
    <3> QED
      BY <3>1, <3>2
  <2> QED
    BY <2>3, <2>4 DEF TypeInv
<1>6. ASSUME NEW a \in Attempts, Opened(a) PROVE TypeInv'
  <2>1. cur[a] \in Handles
    BY <1>6 DEF Opened, TypeInv, TypeOK, PlaceInv, Place, HopUp
  <2>2. /\ Append(held[a], cur[a]) \in Seq(Handles)
        /\ Len(Append(held[a], cur[a])) = Len(held[a]) + 1
    BY <2>1, <1>00
  <2>3. TypeOK'
    <3>1. held' \in [Attempts -> Seq(Handles)]
      BY <1>6, <2>2 DEF Opened, TypeInv, TypeOK
    <3> QED
      BY <1>6, <3>1 DEF Opened, TypeInv, TypeOK, Pcs, Waiting
  <2>4. PlaceInv'
    <3> SUFFICES ASSUME NEW b \in Attempts PROVE Place(b)'
      BY DEF PlaceInv
    <3>1. CASE b # a
      BY <1>6, <3>1 DEF Opened, TypeInv, TypeOK, PlaceInv, Place
    <3>2. CASE b = a
      <4>1. Len(held[a]) = next[a] - 2 /\ next[a] \in Int /\ Len(held[a]) \in Nat
        BY <1>6, <1>00 DEF Opened, TypeInv, TypeOK, PlaceInv, Place
      <4>2. /\ cur'[a] = NoHandle /\ next'[a] = next[a] /\ pc'[a] = "handshake"
            /\ Len(held'[a]) = Len(held[a]) + 1
        BY <1>6, <2>2 DEF Opened, TypeInv, TypeOK
      <4> QED
        BY <3>2, <4>1, <4>2 DEF Place, HopUp
    <3> QED
      BY <3>1, <3>2
  <2> QED
    BY <2>3, <2>4 DEF TypeInv
<1>7. ASSUME NEW a \in Attempts, Handshaken(a) PROVE TypeInv'
  <2>1. Len(held[a]) + 1 = next[a] /\ next[a] \in 1..Target
    BY <1>7 DEF Handshaken, TypeInv, TypeOK, PlaceInv, Place
  <2>2. /\ cur' = [cur EXCEPT ![a] = <<a, next[a]>>]
        /\ cur' \in [Attempts -> Handles \cup {NoHandle}]
        /\ via' \in [Handles -> Handles \cup {NoHandle}]
    BY <1>7, <2>1, ReachType DEF Handshaken
  <2>3. TypeOK'
    BY <1>7, <2>2 DEF Handshaken, TypeInv, TypeOK, Pcs, Waiting
  <2>4. PlaceInv'
    BY <1>7, <2>1, <2>2 DEF Handshaken, TypeInv, TypeOK, PlaceInv, Place, HopUp
  <2> QED
    BY <2>3, <2>4 DEF TypeInv
<1>8. ASSUME NEW a \in Attempts, AuthenticatedHop(a) PROVE TypeInv'
  <2>1. Len(held[a]) = next[a] - 1
    BY <1>8 DEF AuthenticatedHop, TypeInv, TypeOK, PlaceInv, Place
  <2>2. TypeOK'
    BY <1>8 DEF AuthenticatedHop, TypeInv, TypeOK, Pcs, Waiting
  <2>3. PlaceInv'
    <3> SUFFICES ASSUME NEW b \in Attempts PROVE Place(b)'
      BY DEF PlaceInv
    <3>1. CASE b # a
      BY <1>8, <3>1 DEF AuthenticatedHop, TypeInv, TypeOK, PlaceInv, Place
    <3>2. CASE b = a
      <4>1. /\ pc'[a] = "open" /\ held'[a] = held[a] /\ cur'[a] = cur[a]
            /\ next'[a] = next[a] + 1 /\ next[a] \in Int
        BY <1>8 DEF AuthenticatedHop, TypeInv, TypeOK
      <4>2. cur[a] = <<a, Len(held[a]) + 1>>
        BY <1>8 DEF AuthenticatedHop, TypeInv, PlaceInv, Place, HopUp
      <4> QED
        BY <2>1, <3>2, <4>1, <4>2 DEF Place, HopUp
    <3> QED
      BY <3>1, <3>2
  <2> QED
    BY <2>2, <2>3 DEF TypeInv
<1>9. ASSUME NEW a \in Attempts, AuthenticatedTarget(a) PROVE TypeInv'
  <2>1. slot' \in Seq(Handles) /\ closed' \subseteq Handles
    BY <1>0, <1>9 DEF AuthenticatedTarget, TypeInv, TypeOK
  <2>2. TypeOK'
    BY <1>9, <2>1 DEF AuthenticatedTarget, TypeInv, TypeOK, Pcs, Waiting
  <2>3. PlaceInv'
    BY <1>9 DEF AuthenticatedTarget, TypeInv, TypeOK, PlaceInv, Place, HopUp
  <2> QED
    BY <2>2, <2>3 DEF TypeInv
<1>10. ASSUME NEW a \in Attempts, Live(a) PROVE TypeInv'
  BY <1>10 DEF Live, TypeInv, TypeOK, PlaceInv, Place, Pcs, HopUp
<1>11. ASSUME NEW a \in Attempts, GiveUpResume(a) PROVE TypeInv'
  <2>1. TypeOK'
    BY <1>11, <1>00 DEF GiveUpResume, TypeInv, TypeOK, Pcs, Waiting
  <2>2. PlaceInv'
    BY <1>11 DEF GiveUpResume, TypeInv, TypeOK, PlaceInv, Place, HopUp
  <2> QED
    BY <2>1, <2>2 DEF TypeInv
<1>12. ASSUME NEW a \in Attempts, FailSomewhere(a), ~GiveUpResume(a) PROVE TypeInv'
  <2>1. PICK hops \in Parkable(a) : Fail(a, hops) /\ failedHop' \in 0..N
    BY <1>12, FailShape
  <2>2. hops \in Seq(Handles)
    <3>1. \A h \in Handles : <<h>> \in Seq(Handles)
      OBVIOUS
    <3>2. <<>> \in Seq(Handles)
      OBVIOUS
    <3> QED
      BY <1>00, <3>1, <3>2 DEF Parkable
  <2> QED
    BY <2>1, <2>2, FailType
<1>13. ASSUME NEW a \in Attempts, Disconnect(a) PROVE TypeInv'
  <2>1. TypeOK'
    BY <1>13, <1>000 DEF Disconnect, TypeInv, TypeOK, Pcs
  <2>2. PlaceInv'
    BY <1>13 DEF Disconnect, TypeInv, TypeOK, PlaceInv, Place, HopUp
  <2> QED
    BY <2>1, <2>2 DEF TypeInv
<1>14. CASE UNCHANGED vars
  BY <1>14 DEF vars, attemptVars, TypeInv, TypeOK, PlaceInv, Place
<1>15. ASSUME NEW a \in Attempts, FailSomewhere(a), GiveUpResume(a) PROVE TypeInv'
  BY <1>11, <1>15
<1> QED
  BY <1>1, <1>2, <1>3, <1>4, <1>5, <1>6, <1>7, <1>8, <1>9, <1>10, <1>11, <1>12, <1>13,
     <1>14, <1>15 DEF Next, Start, Succeed

-----------------------------------------------------------------------------
(* Owners                                                                  *)

OwnInv == OneOwner /\ FreshInv

\* One connect moves handles between itself, the slot and the closed ones, and
\* may make some (made) that were not used so far.
LEMMA Moves ==
    ASSUME OneOwner, NEW a \in Attempts, NEW made, made \cap Used = {},
           \A b \in Attempts \ {a} : Owned(b)' = Owned(b),
           (Owned(a) \cup Elems(slot) \cup closed)'
              \subseteq Owned(a) \cup Elems(slot) \cup closed \cup made,
           (Owned(a) \cap (Elems(slot) \cup closed))' = {},
           (Elems(slot) \cap closed)' = {}
    PROVE  OneOwner' /\ Used' \subseteq Used \cup made
<1>1. Used' \subseteq Used \cup made
  BY DEF Used
<1>2. \A b \in Attempts \ {a} :
        /\ Owned(b) \cap (Owned(a) \cup Elems(slot) \cup closed) = {}
        /\ Owned(b) \cap made = {}
  BY DEF OneOwner, Used
<1>3. \A b \in Attempts \ {a} : Owned(b)' \cap (Owned(a) \cup Elems(slot) \cup closed)' = {}
  BY <1>2
<1>4. (\A b, c \in Attempts : b # c => Owned(b) \cap Owned(c) = {})'
  <2> SUFFICES ASSUME NEW b \in Attempts, NEW c \in Attempts, b # c
               PROVE  Owned(b)' \cap Owned(c)' = {}
    OBVIOUS
  <2>1. CASE b = a
    BY <1>3, <2>1
  <2>2. CASE c = a
    BY <1>3, <2>2
  <2>3. CASE b # a /\ c # a
    BY <2>3 DEF OneOwner
  <2> QED
    BY <2>1, <2>2, <2>3
<1>5. (\A b \in Attempts : Owned(b) \cap (Elems(slot) \cup closed) = {})'
  BY <1>3
<1> QED
  BY <1>1, <1>4, <1>5 DEF OneOwner

\* ... and stays ahead of what it made.
LEMMA StaysFresh ==
    ASSUME FreshInv, NEW a \in Attempts, NEW made \in SUBSET ({a} \X (1..Target)),
           Used' \subseteq Used \cup made,
           \A b \in Attempts \ {a} : pc'[b] = pc[b] /\ next'[b] = next[b],
           \A i \in 1..Target : MadeBefore(a, i) \/ <<a, i>> \in made => MadeBefore(a, i)'
    PROVE  FreshInv'
<1> SUFFICES ASSUME NEW b \in Attempts, NEW i \in 1..Target, <<b, i>> \in Used'
             PROVE  MadeBefore(b, i)'
  BY DEF FreshInv
<1>1. CASE b = a
  BY <1>1 DEF FreshInv
<1>2. CASE b # a
  <2>1. <<b, i>> \in Used
    BY <1>2
  <2>2. MadeBefore(b, i)
    BY <2>1 DEF FreshInv
  <2> QED
    BY <1>2, <2>2 DEF MadeBefore
<1> QED
  BY <1>1, <1>2

\* Both together, for a step that makes no handle.
LEMMA OwnStep ==
    ASSUME OwnInv, NEW a \in Attempts,
           \A b \in Attempts \ {a} :
              Owned(b)' = Owned(b) /\ pc'[b] = pc[b] /\ next'[b] = next[b],
           (Owned(a) \cup Elems(slot) \cup closed)'
              \subseteq Owned(a) \cup Elems(slot) \cup closed,
           (Owned(a) \cap (Elems(slot) \cup closed))' = {},
           (Elems(slot) \cap closed)' = {},
           \A i \in 1..Target : MadeBefore(a, i) => MadeBefore(a, i)'
    PROVE  OwnInv'
<1>1. OneOwner' /\ Used' \subseteq Used
  <2>1. OneOwner' /\ Used' \subseteq Used \cup {}
    BY Moves DEF OwnInv
  <2> QED
    BY <2>1
<1>2. FreshInv'
  <2>1. {} \in SUBSET ({a} \X (1..Target)) /\ Used' \subseteq Used \cup {}
    BY <1>1
  <2>2. \A i \in 1..Target : MadeBefore(a, i) \/ <<a, i>> \in {} => MadeBefore(a, i)'
    OBVIOUS
  <2> QED
    BY <2>1, <2>2, StaysFresh DEF OwnInv
<1> QED
  BY <1>1, <1>2 DEF OwnInv

\* Both together, for the step that makes the handle of hop i.
LEMMA OwnReach ==
    ASSUME TypeInv, OwnInv, NEW a \in Attempts, NEW i \in 1..Target, Reach(a, i),
           cur[a] = NoHandle, UNCHANGED <<held, slot, closed, next>>,
           pc[a] \in NoneMade \/ pc[a] = "handshake",
           i = next[a], pc' = [pc EXCEPT ![a] = pc'[a]],
           pc'[a] \in {"auth1", "reauth", "auth"}
    PROVE  OwnInv' /\ <<a, i>> \notin Used
<1> DEFINE made == {<<a, i>>}
<1>1. <<a, i>> \notin Used
  BY DEF OwnInv, FreshInv, MadeBefore, TypeInv, TypeOK, NoneMade
<1>2. <<a, i>> \in Handles /\ <<a, i>> # NoHandle
  BY DEF Handles
<1>3. Owned(a)' = Owned(a) \cup made
  BY <1>2 DEF Reach, Owned, TypeInv, TypeOK
<1>4. \A b \in Attempts \ {a} :
        Owned(b)' = Owned(b) /\ pc'[b] = pc[b] /\ next'[b] = next[b]
  BY DEF Reach, Owned, TypeInv, TypeOK
<1>5. Elems(slot)' = Elems(slot) /\ closed' = closed
  OBVIOUS
<1>6. /\ Owned(a) \cap (Elems(slot) \cup closed) = {}
      /\ Elems(slot) \cap closed = {}
      /\ made \cap (Elems(slot) \cup closed) = {}
  BY <1>1 DEF OwnInv, OneOwner, Used
<1>7. OneOwner' /\ Used' \subseteq Used \cup made
  <2>1. /\ made \cap Used = {}
        /\ (Owned(a) \cup Elems(slot) \cup closed)'
              \subseteq Owned(a) \cup Elems(slot) \cup closed \cup made
        /\ (Owned(a) \cap (Elems(slot) \cup closed))' = {}
        /\ (Elems(slot) \cap closed)' = {}
    BY <1>1, <1>3, <1>5, <1>6
  <2> HIDE DEF made
  <2> QED
    BY <2>1, <1>4, Moves DEF OwnInv
<1>8. FreshInv'
  <2>1. made \in SUBSET ({a} \X (1..Target))
    OBVIOUS
  <2>2. \A j \in 1..Target : MadeBefore(a, j) \/ <<a, j>> \in made => MadeBefore(a, j)'
    BY DEF MadeBefore, NoneMade, TypeInv, TypeOK
  <2> HIDE DEF made
  <2> QED
    BY <1>4, <1>7, <2>1, <2>2, StaysFresh DEF OwnInv
<1> QED
  BY <1>1, <1>7, <1>8 DEF OwnInv

\* A failure: what is parked is the connect's, the rest and what it replaces goes.
LEMMA OwnFail ==
    ASSUME TypeInv, OwnInv, NEW a \in Attempts, NEW hops \in Parkable(a), Fail(a, hops)
    PROVE  OwnInv'
<1>1. Elems(hops) \subseteq Owned(a)
  <2>1. CASE hops = <<>>
    BY <2>1, ElemsOfEmpty
  <2>2. CASE hops = held[a]
    BY <2>2 DEF Owned
  <2>3. CASE hops = <<cur[a]>> /\ cur[a] \in Handles
    <3>1. Elems(<<cur[a]>>) = {cur[a]}
      BY DEF Elems
    <3>2. NoHandle \notin Handles
      BY DEF Handles
    <3> QED
      BY <2>3, <3>1, <3>2 DEF Owned
  <2> QED
    BY <2>1, <2>2, <2>3 DEF Parkable
<1>2. \/ slot' = slot
      \/ slot' = hops
  BY DEF Fail
<1>3. Elems(slot)' = Elems(slot) \/ Elems(slot)' \subseteq Owned(a)
  BY <1>1, <1>2
<1>4. Owned(a)' = {}
  BY ElemsOfEmpty DEF Fail, Owned, TypeInv, TypeOK
<1>5. \A b \in Attempts \ {a} :
        Owned(b)' = Owned(b) /\ pc'[b] = pc[b] /\ next'[b] = next[b]
  BY DEF Fail, Owned, TypeInv, TypeOK
<1>6. closed' = closed \cup ((Owned(a) \cup Elems(slot)) \ Elems(slot)')
  BY DEF Fail
<1>7. (Elems(slot) \cap closed)' = {}
  BY <1>3, <1>6 DEF OwnInv, OneOwner
<1>8. \A i \in 1..Target : MadeBefore(a, i) => MadeBefore(a, i)'
  BY DEF MadeBefore, NoneMade, Fail, TypeInv, TypeOK
<1>9. (Owned(a) \cup Elems(slot) \cup closed)' \subseteq Owned(a) \cup Elems(slot) \cup closed
  BY <1>3, <1>4, <1>6
<1> QED
  BY <1>4, <1>5, <1>7, <1>8, <1>9, OwnStep

LEMMA OwnInductive == TypeInv /\ OwnInv /\ [Next]_vars => OwnInv'
<1> SUFFICES ASSUME TypeInv, OwnInv, [Next]_vars PROVE OwnInv'
  OBVIOUS
<1>0. /\ \A a \in Attempts : Owned(a) \cap (Elems(slot) \cup closed) = {}
      /\ Elems(slot) \cap closed = {}
  BY DEF OwnInv, OneOwner
\* Steps that move no handle.
<1>1. ASSUME NEW a \in Attempts, UNCHANGED <<held, cur, slot, closed>>,
             \A b \in Attempts \ {a} : pc'[b] = pc[b] /\ next'[b] = next[b],
             \A i \in 1..Target : MadeBefore(a, i) => MadeBefore(a, i)'
      PROVE  OwnInv'
  <2>1. \A b \in Attempts : Owned(b)' = Owned(b)
    BY <1>1 DEF Owned
  <2>2. Elems(slot)' = Elems(slot) /\ closed' = closed
    BY <1>1
  <2> QED
    BY <1>0, <1>1, <2>1, <2>2, OwnStep
<1>2. ASSUME NEW a \in Attempts, NEW p \in BOOLEAN, NEW k \in 0..Target, StartFresh(a, p, k)
      PROVE  OwnInv'
  <2>1. \A b \in Attempts : Owned(b)' = Owned(b)
    BY <1>2 DEF StartFresh, Owned
  <2>2. \/ Elems(slot)' = {} /\ closed' = closed \cup Elems(slot)
        \/ Elems(slot)' = Elems(slot) /\ closed' = closed
    BY <1>2, ElemsOfEmpty DEF StartFresh
  <2>3. \A i \in 1..Target : ~MadeBefore(a, i)
    BY <1>2 DEF StartFresh, Begins, MadeBefore, NoneMade
  <2>4. \A b \in Attempts \ {a} : pc'[b] = pc[b] /\ next'[b] = next[b]
    BY <1>2 DEF StartFresh, TypeInv, TypeOK
  <2> QED
    BY <1>0, <2>1, <2>2, <2>3, <2>4, OwnStep
<1>3. ASSUME NEW a \in Attempts, NEW p \in BOOLEAN, NEW k \in 0..Target, StartResume(a, p, k)
      PROVE  OwnInv'
  <2>1. Elems(KeepBefore(k)) \subseteq Elems(slot)
    BY <1>3, KeptType DEF StartResume, Takes, TypeInv
  <2>2. Elems(slot)' = {} /\ closed' = closed \cup (Elems(slot) \ Elems(KeepBefore(k)))
    BY <1>3, ElemsOfEmpty DEF StartResume, SlotAfterTake
  <2>3. Owned(a)' = Elems(KeepBefore(k))
    <3>1. cur[a] = NoHandle
      BY <1>3 DEF StartResume, Begins, TypeInv, PlaceInv, Place, HopUp
    <3>2. cur' = cur /\ held'[a] = KeepBefore(k)
      BY <1>3 DEF StartResume, TypeInv, TypeOK
    <3> QED
      BY <3>1, <3>2 DEF Owned
  <2>4. \A i \in 1..Target : ~MadeBefore(a, i)
    BY <1>3 DEF StartResume, Begins, MadeBefore, NoneMade
  <2>5. \A b \in Attempts \ {a} :
          Owned(b)' = Owned(b) /\ pc'[b] = pc[b] /\ next'[b] = next[b]
    BY <1>3 DEF StartResume, Owned, TypeInv, TypeOK
  <2> QED
    BY <1>0, <2>1, <2>2, <2>3, <2>4, <2>5, OwnStep
<1>4. ASSUME NEW a \in Attempts, Reopened(a) PROVE OwnInv'
  BY <1>1, <1>4 DEF Reopened, MadeBefore, NoneMade, TypeInv, TypeOK
<1>5. ASSUME NEW a \in Attempts, Rehandshaken(a) PROVE OwnInv'
  <2>1. /\ Len(held[a]) + 1 = next[a] /\ next[a] \in 1..Target /\ cur[a] = NoHandle
        /\ pc[a] \in NoneMade
    <3>1. pc[a] = "rehandshake" /\ next[a] \in 1..Target /\ held[a] \in Seq(Handles)
      BY <1>5 DEF Rehandshaken, TypeInv, TypeOK
    <3>2. Len(held[a]) = next[a] - 1 /\ cur[a] = NoHandle
      BY <3>1 DEF TypeInv, PlaceInv, Place, HopUp
    <3> QED
      BY <3>1, <3>2 DEF NoneMade
  <2> QED
    BY <1>5, <2>1, OwnReach DEF Rehandshaken, TypeInv, TypeOK
<1>6. ASSUME NEW a \in Attempts, Connected(a) PROVE OwnInv'
  <2>1. next[a] \in 1..Target /\ cur[a] = NoHandle /\ pc[a] \in NoneMade
    BY <1>6 DEF Connected, TypeInv, TypeOK, PlaceInv, Place, HopUp, NoneMade
  <2> QED
    BY <1>6, <2>1, OwnReach DEF Connected, TypeInv, TypeOK
<1>7. ASSUME NEW a \in Attempts, Handshaken(a) PROVE OwnInv'
  <2>1. next[a] \in 1..Target /\ cur[a] = NoHandle
    BY <1>7 DEF Handshaken, TypeInv, TypeOK, PlaceInv, Place, HopUp
  <2> QED
    BY <1>7, <2>1, OwnReach DEF Handshaken, TypeInv, TypeOK
<1>8. ASSUME NEW a \in Attempts, Opened(a) PROVE OwnInv'
  <2>1. held[a] \in Seq(Handles) /\ cur[a] \in Handles /\ NoHandle \notin Handles
    <3>1. held[a] \in Seq(Handles)
      BY DEF TypeInv, TypeOK
    <3>2. cur[a] \in Handles
      BY <1>8 DEF Opened, TypeInv, TypeOK, PlaceInv, Place, HopUp
    <3>3. NoHandle \notin Handles
      BY DEF Handles
    <3> QED
      BY <3>1, <3>2, <3>3
  <2>2. Elems(Append(held[a], cur[a])) = Elems(held[a]) \cup {cur[a]}
    BY <2>1, ElemsOfAppend
  <2>3. held'[a] = Append(held[a], cur[a]) /\ cur'[a] = NoHandle
    BY <1>8 DEF Opened, TypeInv, TypeOK
  <2>4. Owned(a)' = Owned(a)
    BY <2>1, <2>2, <2>3 DEF Owned
  <2>5. \A b \in Attempts \ {a} :
          Owned(b)' = Owned(b) /\ pc'[b] = pc[b] /\ next'[b] = next[b]
    BY <1>8 DEF Opened, Owned, TypeInv, TypeOK
  <2>6. \A i \in 1..Target : MadeBefore(a, i) => MadeBefore(a, i)'
    BY <1>8 DEF Opened, MadeBefore, NoneMade, TypeInv, TypeOK
  <2>7. Elems(slot)' = Elems(slot) /\ closed' = closed
    BY <1>8 DEF Opened
  <2> QED
    BY <1>0, <2>4, <2>5, <2>6, <2>7, OwnStep
<1>9. ASSUME NEW a \in Attempts, AuthenticatedHop(a) PROVE OwnInv'
  <2>1. \A i \in 1..Target : MadeBefore(a, i) => MadeBefore(a, i)'
    BY <1>9 DEF AuthenticatedHop, MadeBefore, NoneMade, TypeInv, TypeOK
  <2> QED
    BY <1>1, <1>9, <2>1 DEF AuthenticatedHop, TypeInv, TypeOK
<1>10. ASSUME NEW a \in Attempts, AuthenticatedTarget(a) PROVE OwnInv'
  <2>1. \A b \in Attempts : Owned(b)' = Owned(b)
    BY <1>10 DEF AuthenticatedTarget, Owned
  <2>2. Elems(slot)' = {} /\ closed' = closed \cup Elems(slot)
    BY <1>10, ElemsOfEmpty DEF AuthenticatedTarget
  <2>3. \A i \in 1..Target : MadeBefore(a, i) => MadeBefore(a, i)'
    BY <1>10 DEF AuthenticatedTarget, MadeBefore, NoneMade, TypeInv, TypeOK
  <2>4. \A b \in Attempts \ {a} : pc'[b] = pc[b] /\ next'[b] = next[b]
    BY <1>10 DEF AuthenticatedTarget, TypeInv, TypeOK
  <2> QED
    BY <1>0, <2>1, <2>2, <2>3, <2>4, OwnStep
<1>11. ASSUME NEW a \in Attempts, Live(a) PROVE OwnInv'
  BY <1>1, <1>11 DEF Live, MadeBefore, NoneMade, TypeInv, TypeOK
<1>12. ASSUME NEW a \in Attempts, GiveUpResume(a) PROVE OwnInv'
  <2>1. cur[a] = NoHandle
    BY <1>12 DEF GiveUpResume, TypeInv, PlaceInv, Place, HopUp
  <2>2. Owned(a) = Elems(held[a])
    BY <2>1 DEF Owned
  <2>3. Owned(a)' = {}
    BY <1>12, <2>1, ElemsOfEmpty DEF GiveUpResume, Owned, TypeInv, TypeOK
  <2>4. Elems(slot)' = Elems(slot) /\ closed' = closed \cup Owned(a)
    BY <1>12, <2>2 DEF GiveUpResume
  <2>5. \A b \in Attempts \ {a} :
          Owned(b)' = Owned(b) /\ pc'[b] = pc[b] /\ next'[b] = next[b]
    BY <1>12 DEF GiveUpResume, Owned, TypeInv, TypeOK
  <2>6. \A i \in 1..Target : ~MadeBefore(a, i)
    BY <1>12 DEF GiveUpResume, MadeBefore, NoneMade
  <2> QED
    BY <1>0, <2>3, <2>4, <2>5, <2>6, OwnStep
<1>13. ASSUME NEW a \in Attempts, FailSomewhere(a), ~GiveUpResume(a) PROVE OwnInv'
  BY <1>13, FailShape, OwnFail
<1>14. ASSUME NEW a \in Attempts, Disconnect(a) PROVE OwnInv'
  <2>1. Owned(a)' = {}
    BY <1>14, ElemsOfEmpty DEF Disconnect, Owned, TypeInv, TypeOK
  <2>2. Elems(slot)' = Elems(slot) /\ closed' = closed \cup Owned(a)
    BY <1>14 DEF Disconnect
  <2>3. \A b \in Attempts \ {a} :
          Owned(b)' = Owned(b) /\ pc'[b] = pc[b] /\ next'[b] = next[b]
    BY <1>14 DEF Disconnect, Owned, TypeInv, TypeOK
  <2>4. \A i \in 1..Target : MadeBefore(a, i)'
    BY <1>14 DEF Disconnect, MadeBefore, NoneMade, TypeInv, TypeOK
  <2> QED
    BY <1>0, <2>1, <2>2, <2>3, <2>4, OwnStep
<1>15. CASE UNCHANGED vars
  BY <1>15 DEF vars, attemptVars, OwnInv, OneOwner, FreshInv, MadeBefore, Used, Owned
<1>16. ASSUME NEW a \in Attempts, FailSomewhere(a) PROVE OwnInv'
  BY <1>12, <1>13, <1>16
<1> QED
  BY <1>2, <1>3, <1>4, <1>5, <1>6, <1>7, <1>8, <1>9, <1>10, <1>11, <1>14, <1>15, <1>16
  DEF Next, Start, Succeed

-----------------------------------------------------------------------------
(* Chains                                                                  *)

\* IsPath for connections carried as v says.
PathIn(s, v) ==
    \A i \in 1..Len(s) : s[i][2] = i /\ v[s[i]] = IF i = 1 THEN NoHandle ELSE s[i-1]

\* The whole chain of a connect.
Whole(a) == IF cur[a] = NoHandle THEN held[a] ELSE Append(held[a], cur[a])

LEMMA ChainsArePaths ==
    ChainsAreUnbroken <=> PathIn(slot, via) /\ \A a \in Attempts : PathIn(Whole(a), via)
BY DEF ChainsAreUnbroken, IsPath, PathIn, Whole

LEMMA PathsAreChains ==
    ASSUME PathIn(slot', via'), \A a \in Attempts : PathIn(Whole(a)', via')
    PROVE  ChainsAreUnbroken'
BY DEF ChainsAreUnbroken, IsPath, PathIn, Whole

LEMMA PathUnchanged ==
    ASSUME NEW v, NEW w, NEW s \in Seq(Handles), PathIn(s, v),
           \A h \in Elems(s) : w[h] = v[h]
    PROVE  PathIn(s, w)
BY DEF PathIn, Elems

LEMMA PathPrefix ==
    ASSUME NEW v, NEW s \in Seq(Handles), NEW h \in Handles, PathIn(Append(s, h), v)
    PROVE  PathIn(s, v)
<1> DEFINE t == Append(s, h)
<1>1. Len(s) \in Nat /\ Len(t) = Len(s) + 1 /\ \A i \in 1..Len(s) : t[i] = s[i]
  OBVIOUS
<1>2. PathIn(t, v)
  OBVIOUS
<1> HIDE DEF t
<1> SUFFICES ASSUME NEW i \in 1..Len(s)
             PROVE  s[i][2] = i /\ v[s[i]] = IF i = 1 THEN NoHandle ELSE s[i-1]
  BY DEF PathIn
<1>3. i \in 1..Len(t) /\ t[i] = s[i] /\ (i # 1 => t[i-1] = s[i-1])
  BY <1>1
<1> QED
  BY <1>2, <1>3 DEF PathIn

LEMMA PathExtended ==
    ASSUME NEW v, NEW s \in Seq(Handles), NEW h \in Handles, PathIn(s, v),
           h[2] = Len(s) + 1, v[h] = IF Len(s) = 0 THEN NoHandle ELSE s[Len(s)]
    PROVE  PathIn(Append(s, h), v)
<1> DEFINE t == Append(s, h)
<1>1. /\ Len(s) \in Nat /\ Len(t) = Len(s) + 1 /\ t[Len(s) + 1] = h
      /\ \A i \in 1..Len(s) : t[i] = s[i]
  OBVIOUS
<1> HIDE DEF t
<1> SUFFICES ASSUME NEW i \in 1..Len(t)
             PROVE  t[i][2] = i /\ v[t[i]] = IF i = 1 THEN NoHandle ELSE t[i-1]
  BY DEF PathIn, t
<1>2. CASE i \in 1..Len(s)
  <2>1. t[i] = s[i] /\ (i # 1 => t[i-1] = s[i-1])
    BY <1>1, <1>2
  <2> QED
    BY <1>2, <2>1 DEF PathIn
<1>3. CASE i = Len(s) + 1
  <2>1. t[i] = h /\ (i # 1 => t[i-1] = s[Len(s)]) /\ (i = 1 <=> Len(s) = 0)
    BY <1>1, <1>3
  <2> QED
    BY <1>3, <2>1
<1> QED
  BY <1>1, <1>2, <1>3

LEMMA PathKept ==
    ASSUME TypeOK, NEW k \in 0..Target, k > 1, Len(slot) >= k - 1, PathIn(slot, via)
    PROVE  PathIn(KeepBefore(k), via)
<1>1. /\ Len(KeepBefore(k)) = k - 1
      /\ \A i \in 1..(k - 1) : KeepBefore(k)[i] = slot[i]
  BY KeptType
<1> SUFFICES ASSUME NEW i \in 1..(k - 1)
             PROVE  /\ KeepBefore(k)[i][2] = i
                    /\ via[KeepBefore(k)[i]] = IF i = 1 THEN NoHandle ELSE KeepBefore(k)[i-1]
  BY <1>1 DEF PathIn
<1>2. /\ i \in 1..Len(slot) /\ KeepBefore(k)[i] = slot[i]
      /\ i # 1 => KeepBefore(k)[i-1] = slot[i-1]
  BY <1>1 DEF TypeOK
<1> QED
  BY <1>2 DEF PathIn

\* A chain is made of the handles its connect owns.
LEMMA WholeType ==
    ASSUME TypeOK, NEW a \in Attempts
    PROVE  Whole(a) \in Seq(Handles) /\ Elems(Whole(a)) = Owned(a)
<1>1. held[a] \in Seq(Handles) /\ cur[a] \in Handles \cup {NoHandle}
  BY DEF TypeOK
<1>2. CASE cur[a] = NoHandle
  BY <1>1, <1>2 DEF Whole, Owned
<1>3. CASE cur[a] # NoHandle
  BY <1>1, <1>3, ElemsOfAppend DEF Whole, Owned
<1> QED
  BY <1>2, <1>3

\* Making the next handle extends one chain and leaves the others as they were.
LEMMA ReachExtends ==
    ASSUME TypeInv, ChainsAreUnbroken, NEW a \in Attempts, NEW i \in 1..Target,
           Reach(a, i), <<a, i>> \notin Used, i = Len(held[a]) + 1, cur[a] = NoHandle,
           UNCHANGED <<held, slot>>
    PROVE  ChainsAreUnbroken'
<1> DEFINE h == <<a, i>>
<1>1. h \in Handles /\ h # NoHandle
  BY DEF Handles
<1>2. held[a] \in Seq(Handles) /\ via' = [via EXCEPT ![h] = IF Len(held[a]) = 0 THEN NoHandle
                                                             ELSE held[a][Len(held[a])]]
  BY DEF Reach, TypeInv, TypeOK
<1>3. \A g \in Handles : g # h => via'[g] = via[g]
  BY <1>2 DEF TypeInv, TypeOK
<1>4. PathIn(slot, via')
  <2>1. slot \in Seq(Handles) /\ Elems(slot) \subseteq Handles /\ h \notin Elems(slot)
    BY ElemsTyped DEF TypeInv, TypeOK, Used
  <2> QED
    BY <1>3, <2>1, ChainsArePaths, PathUnchanged
<1>5. \A b \in Attempts : PathIn(Whole(b), via')
  <2> SUFFICES ASSUME NEW b \in Attempts PROVE PathIn(Whole(b), via')
    OBVIOUS
  <2>1. Whole(b) \in Seq(Handles) /\ Elems(Whole(b)) \subseteq Handles /\ h \notin Elems(Whole(b))
    BY WholeType, ElemsTyped DEF TypeInv, Used
  <2> QED
    BY <1>3, <2>1, ChainsArePaths, PathUnchanged
<1>6. PathIn(Append(held[a], h), via')
  <2>1. Whole(a) = held[a]
    BY DEF Whole
  <2>2. via'[h] = IF Len(held[a]) = 0 THEN NoHandle ELSE held[a][Len(held[a])]
    BY <1>1, <1>2 DEF TypeInv, TypeOK
  <2> QED
    BY <1>1, <1>2, <1>5, <2>1, <2>2, PathExtended
<1>7. \A b \in Attempts : Whole(b)' = IF b = a THEN Append(held[a], h) ELSE Whole(b)
  BY <1>1 DEF Whole, Reach, TypeInv, TypeOK
<1>8. PathIn(slot', via')
  BY <1>4
<1>9. \A b \in Attempts : PathIn(Whole(b)', via')
  BY <1>5, <1>6, <1>7
<1> QED
  BY <1>8, <1>9, PathsAreChains

LEMMA ChainsInductive ==
    TypeInv /\ OwnInv /\ ChainsAreUnbroken /\ [Next]_vars => ChainsAreUnbroken'
<1> SUFFICES ASSUME TypeInv, OwnInv, ChainsAreUnbroken, [Next]_vars PROVE ChainsAreUnbroken'
  OBVIOUS
<1>0. PathIn(slot, via) /\ \A a \in Attempts : PathIn(Whole(a), via)
  BY ChainsArePaths
<1>e. PathIn(<<>>, via)
  BY DEF PathIn
\* Steps that leave the connections, and the chains of the other connects.
<1>1. ASSUME NEW a \in Attempts, via' = via,
             \A b \in Attempts \ {a} : held'[b] = held[b] /\ cur'[b] = cur[b],
             PathIn(slot', via), PathIn(Whole(a)', via)
      PROVE  ChainsAreUnbroken'
  <2>1. \A b \in Attempts \ {a} : Whole(b)' = Whole(b)
    BY <1>1 DEF Whole
  <2> QED
    BY <1>0, <1>1, <2>1, PathsAreChains
<1>2. ASSUME NEW a \in Attempts, NEW p \in BOOLEAN, NEW k \in 0..Target, StartFresh(a, p, k)
      PROVE  ChainsAreUnbroken'
  <2>1. slot' \in {<<>>, slot} /\ via' = via /\ held' = held /\ cur' = cur
    BY <1>2 DEF StartFresh
  <2> QED
    BY <1>0, <1>1, <1>e, <2>1 DEF Whole
<1>3. ASSUME NEW a \in Attempts, NEW p \in BOOLEAN, NEW k \in 0..Target, StartResume(a, p, k)
      PROVE  ChainsAreUnbroken'
  <2>1. PathIn(KeepBefore(k), via)
    BY <1>0, <1>3, PathKept DEF StartResume, Takes, TypeInv
  <2>2. cur[a] = NoHandle
    BY <1>3 DEF StartResume, Begins, TypeInv, PlaceInv, Place, HopUp
  <2>3. /\ slot' = <<>> /\ via' = via /\ cur' = cur /\ held'[a] = KeepBefore(k)
        /\ \A b \in Attempts \ {a} : held'[b] = held[b]
    BY <1>3 DEF StartResume, SlotAfterTake, TypeInv, TypeOK
  <2>4. Whole(a)' = KeepBefore(k)
    BY <2>2, <2>3 DEF Whole
  <2> QED
    BY <1>1, <1>e, <2>1, <2>3, <2>4
<1>4. ASSUME NEW a \in Attempts, UNCHANGED <<held, cur, via>>, slot' \in {<<>>, slot}
      PROVE  ChainsAreUnbroken'
  BY <1>0, <1>1, <1>4, <1>e DEF Whole
<1>5. ASSUME NEW a \in Attempts, Rehandshaken(a) \/ Connected(a) \/ Handshaken(a)
      PROVE  ChainsAreUnbroken'
  <2>1. pc[a] \in {"rehandshake", "connect", "handshake"} /\ UNCHANGED <<held, slot, closed, next>>
    BY <1>5 DEF Rehandshaken, Connected, Handshaken
  <2>2. next[a] \in 1..Target /\ held[a] \in Seq(Handles)
    BY DEF TypeInv, TypeOK
  <2>3. cur[a] = NoHandle
    BY <2>1 DEF TypeInv, PlaceInv, Place, HopUp
  <2>4. next[a] = Len(held[a]) + 1
    <3>1. CASE pc[a] = "connect"
      <4>1. held[a] = <<>> /\ next[a] = 1
        BY <3>1 DEF TypeInv, PlaceInv, Place
      <4> QED
        BY <4>1
    <3>2. CASE pc[a] # "connect"
      <4>1. Len(held[a]) = next[a] - 1
        BY <2>1, <3>2 DEF TypeInv, PlaceInv, Place
      <4> QED
        BY <2>2, <4>1
    <3> QED
      BY <3>1, <3>2
  <2>5. Reach(a, next[a])
    BY <1>5, <2>4 DEF Rehandshaken, Connected, Handshaken
  <2>6. <<a, next[a]>> \notin Used
    BY <2>1, <2>2 DEF OwnInv, FreshInv, MadeBefore, NoneMade
  <2> QED
    BY <2>1, <2>2, <2>3, <2>4, <2>5, <2>6, ReachExtends
<1>6. ASSUME NEW a \in Attempts, Opened(a) PROVE ChainsAreUnbroken'
  <2>1. cur[a] # NoHandle
    BY <1>6 DEF Opened, TypeInv, TypeOK, PlaceInv, Place, HopUp
  <2>2. Whole(a) = Append(held[a], cur[a])
    BY <2>1 DEF Whole
  <2>3. held'[a] = Append(held[a], cur[a]) /\ cur'[a] = NoHandle
    BY <1>6 DEF Opened, TypeInv, TypeOK
  <2>4. Whole(a)' = Whole(a)
    BY <2>2, <2>3 DEF Whole
  <2>5. \A b \in Attempts \ {a} : held'[b] = held[b] /\ cur'[b] = cur[b]
    BY <1>6 DEF Opened, TypeInv, TypeOK
  <2> QED
    BY <1>0, <1>1, <1>6, <2>4, <2>5 DEF Opened
\* The steps that end a connect, or begin it anew: its own chain is gone.
<1>7. ASSUME NEW a \in Attempts, via' = via, held' = [held EXCEPT ![a] = <<>>],
             cur' = [cur EXCEPT ![a] = NoHandle], PathIn(slot', via)
      PROVE  ChainsAreUnbroken'
  <2>1. Whole(a)' = <<>>
    BY <1>7 DEF Whole, TypeInv, TypeOK
  <2>2. \A b \in Attempts \ {a} : held'[b] = held[b] /\ cur'[b] = cur[b]
    BY <1>7 DEF TypeInv, TypeOK
  <2> QED
    BY <1>1, <1>7, <1>e, <2>1, <2>2
<1>8. ASSUME NEW a \in Attempts, GiveUpResume(a) PROVE ChainsAreUnbroken'
  <2>1. cur[a] = NoHandle
    BY <1>8 DEF GiveUpResume, TypeInv, PlaceInv, Place, HopUp
  <2>2. cur' = [cur EXCEPT ![a] = NoHandle]
    BY <1>8, <2>1 DEF GiveUpResume, TypeInv, TypeOK
  <2> QED
    BY <1>0, <1>7, <1>8, <2>2 DEF GiveUpResume
<1>9. ASSUME NEW a \in Attempts, NEW hops \in Parkable(a), Fail(a, hops)
      PROVE  ChainsAreUnbroken'
  <2>1. PathIn(held[a], via)
    <3>1. CASE cur[a] = NoHandle
      BY <1>0, <3>1 DEF Whole
    <3>2. CASE cur[a] # NoHandle
      <4>1. held[a] \in Seq(Handles) /\ cur[a] \in Handles
        BY <3>2 DEF TypeInv, TypeOK
      <4>2. PathIn(Append(held[a], cur[a]), via)
        BY <1>0, <3>2 DEF Whole
      <4> QED
        BY <4>1, <4>2, PathPrefix
    <3> QED
      BY <3>1, <3>2
  <2>2. PathIn(hops, via)
    <3>1. CASE hops = <<cur[a]>> /\ cur[a] \in Handles /\ held[a] = <<>>
      <4>1. NoHandle \notin Handles
        BY DEF Handles
      <4>2. Whole(a) = Append(<<>>, cur[a])
        BY <3>1, <4>1 DEF Whole
      <4>3. Append(<<>>, cur[a]) = <<cur[a]>>
        OBVIOUS
      <4> QED
        BY <1>0, <3>1, <4>2, <4>3
    <3> QED
      BY <1>e, <2>1, <3>1 DEF Parkable
  <2>3. slot' = slot \/ slot' = hops
    BY <1>9 DEF Fail
  <2>4. PathIn(slot', via)
    BY <1>0, <2>2, <2>3
  <2> QED
    BY <1>7, <1>9, <2>4 DEF Fail
<1>10. ASSUME NEW a \in Attempts, FailSomewhere(a) PROVE ChainsAreUnbroken'
  BY <1>8, <1>9, <1>10, FailShape
<1>11. ASSUME NEW a \in Attempts, Disconnect(a) PROVE ChainsAreUnbroken'
  BY <1>0, <1>7, <1>11 DEF Disconnect
<1>12. ASSUME NEW a \in Attempts,
              Reopened(a) \/ AuthenticatedHop(a) \/ AuthenticatedTarget(a) \/ Live(a)
       PROVE  ChainsAreUnbroken'
  BY <1>4, <1>12 DEF Reopened, AuthenticatedHop, AuthenticatedTarget, Live
<1>13. CASE UNCHANGED vars
  BY <1>13 DEF vars, attemptVars, ChainsAreUnbroken, IsPath
<1> QED
  BY <1>2, <1>3, <1>5, <1>6, <1>10, <1>11, <1>12, <1>13 DEF Next, Start, Succeed

-----------------------------------------------------------------------------
(* Theorems                                                                *)

\* Types, places, owners and chains hold together throughout.
LEMMA Invariance == Spec => [](TypeInv /\ OwnInv /\ ChainsAreUnbroken)
<1>1. Init => TypeInv /\ OwnInv /\ ChainsAreUnbroken
  <2> SUFFICES ASSUME Init PROVE TypeInv /\ OwnInv /\ ChainsAreUnbroken
    OBVIOUS
  <2>1. <<>> \in Seq(Handles) /\ Len(<<>>) = 0
    OBVIOUS
  <2>2. TypeOK
    BY <2>1 DEF Init, TypeOK, Pcs
  <2>3. PlaceInv
    BY DEF Init, PlaceInv, Place, HopUp
  <2>4. /\ \A a \in Attempts : Owned(a) = {}
        /\ Elems(slot) = {} /\ closed = {}
    BY ElemsOfEmpty DEF Init, Owned
  <2>5. OwnInv
    BY <2>4 DEF OwnInv, OneOwner, FreshInv, Used
  <2>6. ChainsAreUnbroken
    BY <2>1 DEF Init, ChainsAreUnbroken, IsPath
  <2> QED
    BY <2>2, <2>3, <2>5, <2>6 DEF TypeInv
<1>2. TypeInv /\ OwnInv /\ ChainsAreUnbroken /\ [Next]_vars
      => (TypeInv /\ OwnInv /\ ChainsAreUnbroken)'
  BY TypeInductive, OwnInductive, ChainsInductive
<1> QED
  BY <1>1, <1>2, PTL DEF Spec

\* Every variable keeps its type, for any number of connects and up to five hops.
THEOREM TypeCorrect == Spec => []TypeOK
<1>1. TypeInv => TypeOK
  BY DEF TypeInv
<1> QED
  BY <1>1, Invariance, PTL

\* What is held or parked is the chain from its first hop on, without a gap.
THEOREM ChainsHaveNoGap == Spec => []ChainsAreUnbroken
BY Invariance, PTL

\* A hop is never in the hands of two connects, or of one and the slot, and none
\* that is in use has been closed.
THEOREM OneOwnerEach == Spec => []OneOwner
<1>1. OwnInv => OneOwner
  BY DEF OwnInv
<1> QED
  BY <1>1, Invariance, PTL

\* Each hop is authenticated to with its own credentials.
THEOREM CredentialsMatch == Spec => []OwnCredentials
<1>1. TypeInv => OwnCredentials
  <2> SUFFICES ASSUME TypeInv, NEW a \in Attempts, pc[a] \in {"reauth", "auth1", "auth"}
               PROVE  cur[a][2] = next[a]
    BY DEF OwnCredentials
  <2>1. cur[a] = <<a, Len(held[a]) + 1>>
    BY DEF TypeInv, PlaceInv, Place, HopUp
  <2>2. next[a] \in Int /\ Len(held[a]) + 1 = next[a]
    <3>1. CASE pc[a] = "auth1"
      <4>1. held[a] = <<>> /\ next[a] = 1
        BY <3>1 DEF TypeInv, PlaceInv, Place
      <4> QED
        BY <4>1
    <3>2. CASE pc[a] # "auth1"
      <4>1. held[a] \in Seq(Handles) /\ next[a] \in Int /\ Len(held[a]) = next[a] - 1
        BY <3>2 DEF TypeInv, TypeOK, PlaceInv, Place
      <4> QED
        BY <4>1
    <3> QED
      BY <3>1, <3>2
  <2> QED
    BY <2>1, <2>2
<1> QED
  BY <1>1, Invariance, PTL

\* After a failed handshake or authentication the slot holds all hops before.
THEOREM FailuresCanResume == Spec => FailureCanResume
<1> DEFINE Ends(a) == /\ pc[a] \in {"handshake", "auth", "reauth"}
                      /\ pc'[a] = "ended"
                      /\ prefer[a] /\ next[a] < Target
<1>1. TypeInv /\ [Next]_vars
      => [\A a \in Attempts : Ends(a) => Len(slot') = failedHop' - 1]_vars
  <2> SUFFICES ASSUME TypeInv, Next, NEW a \in Attempts, Ends(a)
               PROVE  Len(slot') = failedHop' - 1
    OBVIOUS
  <2>1. HandshakeFails(a) \/ AuthFails(a)
    BY DEF Next, Start, Succeed, FailSomewhere, StartFresh, StartResume, Begins, Reopened,
           Rehandshaken, Connected, Opened, Handshaken, AuthenticatedHop,
           AuthenticatedTarget, Live, GiveUpResume, FirstFails, OpenFails, HandshakeFails,
           AuthFails, ShellFails, Fail, Disconnect, TypeInv, TypeOK
  <2>2. held[a] \in Seq(Handles) /\ next[a] \in Int /\ next[a] > 1
        /\ Len(held[a]) = next[a] - 1
    BY DEF TypeInv, TypeOK, PlaceInv, Place
  <2>3. held[a] # <<>>
    BY <2>2
  <2>4. Fail(a, held[a]) /\ Reports(a)
    BY <2>1 DEF HandshakeFails, AuthFails
  <2>5. slot' = held[a] /\ failedHop' = next[a]
    BY <2>3, <2>4 DEF Fail, Reports
  <2> QED
    BY <2>2, <2>5
<1> QED
  BY <1>1, Invariance, PTL DEF Spec, FailureCanResume

-----------------------------------------------------------------------------
(* JumpChain implements HopCustody                                         *)

\* What a step does to the handles of one connect, as HopCustody sees it.
LEMMA HasMaps ==
    ASSUME NEW a \in Attempts, NEW S, Owned(a)' = S,
           \A b \in Attempts \ {a} : Owned(b)' = Owned(b)
    PROVE  Custody!Has(a, S)
BY DEF Custody!Has

LEMMA SameHas ==
    ASSUME \A b \in Attempts : Owned(b)' = Owned(b)
    PROVE  [b \in Attempts |-> Owned(b)]' = [b \in Attempts |-> Owned(b)]
OBVIOUS

\* A connect that reaches a hop makes the handle of it.
LEMMA MakeMaps ==
    ASSUME TypeInv, OwnInv, NEW a \in Attempts, NEW i \in 1..Target, Reach(a, i),
           cur[a] = NoHandle, UNCHANGED <<held, slot, closed, next>>,
           pc[a] \in NoneMade \/ pc[a] = "handshake",
           i = next[a], pc' = [pc EXCEPT ![a] = pc'[a]],
           pc'[a] \in {"auth1", "reauth", "auth"}
    PROVE  Custody!Next
<1>1. <<a, i>> \notin Used
  BY OwnReach
<1>2. <<a, i>> \in Handles /\ <<a, i>> # NoHandle
  BY DEF Handles
<1>3. Owned(a)' = Owned(a) \cup {<<a, i>>}
  BY <1>2 DEF Reach, Owned, TypeInv, TypeOK
<1>4. \A b \in Attempts \ {a} : Owned(b)' = Owned(b)
  BY DEF Reach, Owned, TypeInv, TypeOK
<1>5. Elems(slot)' = Elems(slot) /\ closed' = closed
  OBVIOUS
<1>6. Custody!Has(a, Owned(a) \cup {<<a, i>>})
  BY <1>3, <1>4, HasMaps
<1>7. <<a, i>> \notin Custody!Somewhere
  BY <1>1 DEF Used, Custody!Somewhere
<1>8. Custody!Make(a, <<a, i>>)
  BY <1>5, <1>6, <1>7 DEF Custody!Make
<1>9. <<a, i>> \in Custody!Handles
  BY <1>2 DEF Handles, Custody!Handles
<1> QED
  BY <1>8, <1>9 DEF Custody!Next

\* A connect that ends in failure parks what it can, or lets everything go.
LEMMA FailMaps ==
    ASSUME TypeInv, OwnInv, NEW a \in Attempts, NEW hops \in Parkable(a), Fail(a, hops)
    PROVE  Custody!Next
<1>1. Elems(hops) \subseteq Owned(a) /\ (hops # <<>> => Elems(hops) # {})
  <2>1. CASE hops = <<>>
    BY <2>1, ElemsOfEmpty
  <2>2. CASE hops = held[a] /\ hops # <<>>
    <3>1. held[a][1] \in Elems(held[a])
      BY <2>2 DEF Elems, TypeInv, TypeOK
    <3> QED
      BY <2>2, <3>1 DEF Owned
  <2>3. CASE hops = <<cur[a]>> /\ cur[a] \in Handles
    <3>1. Elems(<<cur[a]>>) = {cur[a]}
      BY DEF Elems
    <3>2. NoHandle \notin Handles
      BY DEF Handles
    <3> QED
      BY <2>3, <3>1, <3>2 DEF Owned
  <2> QED
    BY <2>1, <2>2, <2>3 DEF Parkable
<1>2. Owned(a)' = {}
  BY ElemsOfEmpty DEF Fail, Owned, TypeInv, TypeOK
<1>3. \A b \in Attempts \ {a} : Owned(b)' = Owned(b)
  BY DEF Fail, Owned, TypeInv, TypeOK
<1>4. Custody!Has(a, {})
  BY <1>2, <1>3, HasMaps
<1>5. closed' = closed \cup ((Owned(a) \cup Elems(slot)) \ Elems(slot)')
  BY DEF Fail
<1>6. Owned(a) \cap (Elems(slot) \cup closed) = {} /\ Elems(slot) \cap closed = {}
  BY DEF OwnInv, OneOwner
<1>7. CASE slot' = slot
  <2>1. closed' = closed \cup Owned(a) /\ Elems(slot)' = Elems(slot)
    BY <1>5, <1>6, <1>7
  <2> QED
    BY <1>4, <2>1 DEF Custody!LetGo, Custody!Next
<1>8. CASE slot' = hops /\ hops # <<>>
  <2>1. /\ Elems(slot)' = Elems(hops)
        /\ closed' = closed \cup Elems(slot) \cup (Owned(a) \ Elems(hops))
    BY <1>1, <1>5, <1>6, <1>8
  <2>2. Custody!Park(a, Elems(hops))
    BY <1>1, <1>4, <1>8, <2>1 DEF Custody!Park
  <2> QED
    BY <1>1, <2>2 DEF Custody!Next
<1> QED
  BY <1>7, <1>8 DEF Fail

LEMMA CustodyStep == TypeInv /\ OwnInv /\ [Next]_vars => [Custody!Next]_Custody!vars
<1> SUFFICES ASSUME TypeInv, OwnInv, [Next]_vars PROVE [Custody!Next]_Custody!vars
  OBVIOUS
\* Steps that move no handle, and those that drop what is parked.
<1>1. ASSUME \A b \in Attempts : Owned(b)' = Owned(b), Elems(slot)' = Elems(slot), closed' = closed
      PROVE  UNCHANGED Custody!vars
  BY <1>1, SameHas DEF Custody!vars
<1>2. ASSUME UNCHANGED <<held, cur, slot, closed>> PROVE UNCHANGED Custody!vars
  <2>1. \A b \in Attempts : Owned(b)' = Owned(b)
    BY <1>2 DEF Owned
  <2> QED
    BY <1>1, <1>2, <2>1
<1>3. ASSUME UNCHANGED <<held, cur>>, Elems(slot)' = {}, closed' = closed \cup Elems(slot)
      PROVE  Custody!Next
  <2>1. \A b \in Attempts : Owned(b)' = Owned(b)
    BY <1>3 DEF Owned
  <2> QED
    BY <1>3, <2>1, SameHas DEF Custody!Clear, Custody!Next
<1>4. ASSUME NEW a \in Attempts, Owned(a)' = {}, \A b \in Attempts \ {a} : Owned(b)' = Owned(b),
             Elems(slot)' = Elems(slot), closed' = closed \cup Owned(a)
      PROVE  Custody!Next
  <2>1. Custody!Has(a, {})
    BY <1>4, HasMaps
  <2> QED
    BY <1>4, <2>1 DEF Custody!LetGo, Custody!Next
<1>5. ASSUME NEW a \in Attempts, NEW p \in BOOLEAN, NEW k \in 0..Target, StartFresh(a, p, k)
      PROVE  [Custody!Next]_Custody!vars
  <2>1. CASE UNCHANGED <<slot, closed>>
    BY <1>2, <1>5, <2>1 DEF StartFresh
  <2>2. CASE slot' = <<>> /\ closed' = closed \cup Elems(slot)
    BY <1>3, <1>5, <2>2, ElemsOfEmpty DEF StartFresh
  <2> QED
    BY <1>5, <2>1, <2>2 DEF StartFresh
<1>6. ASSUME NEW a \in Attempts, NEW p \in BOOLEAN, NEW k \in 0..Target, StartResume(a, p, k)
      PROVE  Custody!Next
  <2> DEFINE kept == Elems(KeepBefore(k))
  <2>1. kept \subseteq Elems(slot)
    BY <1>6, KeptType DEF StartResume, Takes, TypeInv
  <2>2. Elems(slot)' = {} /\ closed' = closed \cup (Elems(slot) \ kept)
    BY <1>6, ElemsOfEmpty DEF StartResume, SlotAfterTake
  <2>3. cur[a] = NoHandle /\ held[a] = <<>>
    BY <1>6 DEF StartResume, Begins, TypeInv, PlaceInv, Place, HopUp
  <2>4. cur' = cur /\ held'[a] = KeepBefore(k)
    BY <1>6 DEF StartResume, TypeInv, TypeOK
  <2>5. Owned(a) = {} /\ Owned(a)' = kept
    BY <2>3, <2>4, ElemsOfEmpty DEF Owned
  <2>6. \A b \in Attempts \ {a} : Owned(b)' = Owned(b)
    BY <1>6 DEF StartResume, Owned, TypeInv, TypeOK
  <2> HIDE DEF kept
  <2>7. Custody!Has(a, kept)
    BY <2>5, <2>6, HasMaps
  <2>8. Custody!Take(a, kept)
    BY <2>1, <2>2, <2>5, <2>7 DEF Custody!Take
  <2> QED
    BY <2>1, <2>8 DEF Custody!Next
<1>7. ASSUME NEW a \in Attempts, Rehandshaken(a) \/ Connected(a) \/ Handshaken(a) PROVE Custody!Next
  <2>1. pc[a] \in {"rehandshake", "connect", "handshake"} /\ pc'[a] \in {"reauth", "auth1", "auth"}
    BY <1>7 DEF Rehandshaken, Connected, Handshaken, TypeInv, TypeOK
  <2>2. next[a] \in 1..Target /\ cur[a] = NoHandle /\ held[a] \in Seq(Handles)
    BY <2>1 DEF TypeInv, TypeOK, PlaceInv, Place, HopUp
  <2>3. CASE Rehandshaken(a)
    <3>0. Len(held[a]) = next[a] - 1
      BY <2>3 DEF Rehandshaken, TypeInv, PlaceInv, Place
    <3>1. Len(held[a]) + 1 = next[a]
      BY <2>2, <3>0
    <3> QED
      BY <2>1, <2>2, <2>3, <3>1, MakeMaps DEF Rehandshaken, NoneMade
  <2>4. CASE Connected(a)
    BY <2>1, <2>2, <2>4, MakeMaps DEF Connected, NoneMade
  <2>5. CASE Handshaken(a)
    BY <2>1, <2>2, <2>5, MakeMaps DEF Handshaken
  <2> QED
    BY <1>7, <2>3, <2>4, <2>5
<1>8. ASSUME NEW a \in Attempts, Opened(a) PROVE UNCHANGED Custody!vars
  <2>1. held[a] \in Seq(Handles) /\ cur[a] \in Handles /\ NoHandle \notin Handles
    <3>1. held[a] \in Seq(Handles)
      BY DEF TypeInv, TypeOK
    <3>2. cur[a] \in Handles
      BY <1>8 DEF Opened, TypeInv, TypeOK, PlaceInv, Place, HopUp
    <3>3. NoHandle \notin Handles
      BY DEF Handles
    <3> QED
      BY <3>1, <3>2, <3>3
  <2>2. Elems(Append(held[a], cur[a])) = Elems(held[a]) \cup {cur[a]}
    BY <2>1, ElemsOfAppend
  <2>3. held'[a] = Append(held[a], cur[a]) /\ cur'[a] = NoHandle
    BY <1>8 DEF Opened, TypeInv, TypeOK
  <2>4. Owned(a)' = Owned(a)
    BY <2>1, <2>2, <2>3 DEF Owned
  <2>5. \A b \in Attempts \ {a} : Owned(b)' = Owned(b)
    BY <1>8 DEF Opened, Owned, TypeInv, TypeOK
  <2>6. Elems(slot)' = Elems(slot) /\ closed' = closed
    BY <1>8 DEF Opened
  <2> QED
    BY <1>1, <2>4, <2>5, <2>6
<1>9. ASSUME NEW a \in Attempts, Reopened(a) \/ AuthenticatedHop(a) \/ Live(a)
      PROVE  UNCHANGED Custody!vars
  BY <1>2, <1>9 DEF Reopened, AuthenticatedHop, Live
<1>10. ASSUME NEW a \in Attempts, AuthenticatedTarget(a) PROVE Custody!Next
  BY <1>3, <1>10, ElemsOfEmpty DEF AuthenticatedTarget
<1>11. ASSUME NEW a \in Attempts, GiveUpResume(a) PROVE Custody!Next
  <2>1. cur[a] = NoHandle
    BY <1>11 DEF GiveUpResume, TypeInv, PlaceInv, Place, HopUp
  <2>2. Owned(a) = Elems(held[a])
    BY <2>1 DEF Owned
  <2>3. Owned(a)' = {}
    BY <1>11, <2>1, ElemsOfEmpty DEF GiveUpResume, Owned, TypeInv, TypeOK
  <2>4. Elems(slot)' = Elems(slot) /\ closed' = closed \cup Owned(a)
    BY <1>11, <2>2 DEF GiveUpResume
  <2>5. \A b \in Attempts \ {a} : Owned(b)' = Owned(b)
    BY <1>11 DEF GiveUpResume, Owned, TypeInv, TypeOK
  <2> QED
    BY <1>4, <2>3, <2>4, <2>5
<1>12. ASSUME NEW a \in Attempts, FailSomewhere(a) PROVE Custody!Next
  <2>1. CASE ~GiveUpResume(a)
    BY <1>12, <2>1, FailShape, FailMaps
  <2> QED
    BY <1>11, <2>1
<1>13. ASSUME NEW a \in Attempts, Disconnect(a) PROVE Custody!Next
  <2>1. Owned(a)' = {}
    BY <1>13, ElemsOfEmpty DEF Disconnect, Owned, TypeInv, TypeOK
  <2>2. Elems(slot)' = Elems(slot) /\ closed' = closed \cup Owned(a)
    BY <1>13 DEF Disconnect
  <2>3. \A b \in Attempts \ {a} : Owned(b)' = Owned(b)
    BY <1>13 DEF Disconnect, Owned, TypeInv, TypeOK
  <2> QED
    BY <1>4, <2>1, <2>2, <2>3
<1>14. CASE UNCHANGED vars
  BY <1>2, <1>14 DEF vars, attemptVars
<1> QED
  BY <1>5, <1>6, <1>7, <1>8, <1>9, <1>10, <1>12, <1>13, <1>14 DEF Next, Start, Succeed

\* Each connection is made once, has one owner, and is never lost or closed below
\* another in use: the connects and the slot implement HopCustody.
THEOREM CustodyKept == Spec => KeepsCustody
<1>1. Init => Custody!Init
  <2> SUFFICES ASSUME Init PROVE Custody!Init
    OBVIOUS
  <2>1. \A a \in Attempts : Owned(a) = {}
    BY ElemsOfEmpty DEF Init, Owned
  <2> QED
    BY <2>1, ElemsOfEmpty DEF Init, Custody!Init
<1> QED
  BY <1>1, CustodyStep, Invariance, PTL DEF Spec, KeepsCustody, Custody!Spec
=============================================================================

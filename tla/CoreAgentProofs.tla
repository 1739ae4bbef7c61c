-------------------------- MODULE CoreAgentProofs --------------------------
(***************************************************************************)
(* Theorems about CoreAgent, for any number of chats, sessions, commands   *)
(* and settings.                                                           *)
(*                                                                         *)
(* What makes StopReachesRun inductive is that the outcome of a confirm is *)
(* told only to a run that still asks, whose waiter is gone (RunOK).  What *)
(* a step does to the others is said once for every step that leaves a run *)
(* under way (BecomesInv) or ends it (EndInv).                             *)
(*                                                                         *)
(* For the refinement of ChatPromise a second invariant (TalkInv) says     *)
(* that only a run under way holds the slot or can be stopped, and that a  *)
(* step at which a run asks has not written.  Each step then leaves what   *)
(* the promise sees of the live run alone (StillSeen, NotLiveTalk), ends   *)
(* it (EndSeen), or moves it on (GoesSeen).                                *)
(***************************************************************************)
EXTENDS CoreAgent, TLAPS

Budgeted(l) == l.proposal \in Commands /\ l.proposal = l.failed => l.fails < RetryCap

RunOK(r) ==
    /\ told[r] # None => run[r].phase = "asking" /\ \A q \in waiters : q[1] # r
    /\ told[r] = "approve" => Request(r) \in agreed
    /\ run[r].phase \in {"planning", "asking"} => run[r].step >= 1
    /\ Budgeted(run[r])

IInv ==
    /\ TypeOK
    /\ StopReachesRun
    /\ \A r \in Runs : RunOK(r)

Underway(r) == run[r].phase \notin {"idle", "ended"}

-----------------------------------------------------------------------------
(* Local variables                                                         *)

LEMMA FreshFacts ==
    ASSUME NEW p \in Phases, NEW v \in Settings \cup {None}
    PROVE  /\ Fresh(p, v) \in Local /\ Fresh(p, v).phase = p
           /\ Fresh(p, v).written = {} /\ Budgeted(Fresh(p, v))
BY CoreAssumption DEF Fresh, Local, Budgeted, RetryCap

LEMMA NotedFacts ==
    ASSUME NEW l \in Local, NEW c \in Commands, NEW fails \in BOOLEAN,
           l.failed = c => l.fails < RetryCap
    PROVE  /\ Noted(l, c, fails) \in Local
           /\ Noted(l, c, fails).written = l.written
           /\ Noted(l, c, fails).step = l.step
           /\ fails => Noted(l, c, fails).failed = c
<1>1. l.fails \in 0..2 /\ l.failed \in Commands \cup {None} BY DEF Local, RetryCap
<1>2. CASE fails
  <2>1. Noted(l, c, fails)
          = [l EXCEPT !.failed = c, !.fails = IF l.failed = c THEN l.fails + 1 ELSE 1]
    BY <1>2 DEF Noted, Local
  <2>2. (IF l.failed = c THEN l.fails + 1 ELSE 1) \in 0..RetryCap BY <1>1 DEF RetryCap
  <2> QED BY <2>1, <2>2 DEF Local
<1>3. CASE ~fails /\ l.failed = c
  <2>1. Noted(l, c, fails) = [l EXCEPT !.failed = None, !.fails = 0] BY <1>3 DEF Noted
  <2> DEFINE n == [l EXCEPT !.failed = None, !.fails = 0]
  <2>2. n \in Local /\ n.written = l.written /\ n.step = l.step
    <3>1. 0 \in 0..RetryCap BY DEF RetryCap
    <3> QED BY <3>1 DEF Local
  <2> HIDE DEF n
  <2> QED BY <1>3, <2>1, <2>2 DEF n
<1>4. CASE ~fails /\ l.failed # c
  <2>1. Noted(l, c, fails) = l BY <1>4 DEF Noted
  <2> QED BY <1>4, <2>1
<1> QED BY <1>2, <1>3, <1>4

-----------------------------------------------------------------------------
(* What a step of one run leaves of the others                             *)

\* No confirm of the run is open, none is left told, the others' stay.
Quiet(r) ==
    /\ \A q \in waiters : q[1] # r
    /\ told' = [told EXCEPT ![r] = None]
    /\ waiters' = waiters
    /\ agreed' \subseteq agreed
    /\ \A q \in agreed : q[1] # r => q \in agreed'

Typed ==
    /\ last \in [Sessions -> Proposals \cup {None}]
    /\ repeats \in [Sessions -> 0..RepeatCap]
    /\ locked \in [Sessions -> BOOLEAN]

LEMMA OthersOK ==
    ASSUME IInv, NEW r \in Runs, NEW x \in Runs, x # r, Quiet(r),
           NEW l, run' = [run EXCEPT ![r] = l]
    PROVE  RunOK(x)'
<1>1. RunOK(x) /\ run'[x] = run[x] /\ told'[x] = told[x] /\ waiters' = waiters
  BY DEF IInv, TypeOK, Quiet
<1>2. Request(x)' = Request(x) BY <1>1 DEF Request
<1>3. Request(x) \in agreed => Request(x) \in agreed' BY DEF Quiet, Request
<1> QED BY <1>1, <1>2, <1>3 DEF RunOK

LEMMA BecomesInv ==
    ASSUME IInv, NEW r \in Runs, NEW l \in Local, Becomes(r, l), Quiet(r), Typed',
           Underway(r), l.phase \in {"top", "planning", "observing"},
           l.phase = "planning" => l.step >= 1, Budgeted(l)
    PROVE  IInv'
<1> USE CoreAssumption
<1>1. run' = [run EXCEPT ![r] = l] /\ UNCHANGED <<stopped, active>> BY DEF Becomes
<1>2. run'[r] = l /\ \A x \in Runs : x # r => run'[x] = run[x]
  BY <1>1 DEF IInv, TypeOK
<1>3. TypeOK' BY <1>1 DEF IInv, TypeOK, Quiet, Typed
<1>4. StopReachesRun'
  <2>1. ASSUME NEW x \in Runs, run'[x].phase \notin {"idle", "ended"}, ~stopped'[x]
        PROVE  active' = x
    BY <1>1, <1>2, <2>1 DEF IInv, StopReachesRun, Underway
  <2>2. ASSUME NEW q \in waiters'
        PROVE  /\ active' = q[1] /\ ~stopped'[q[1]]
               /\ run'[q[1]].phase = "asking" /\ q = Request(q[1])'
    <3>1. q \in waiters /\ q[1] # r /\ q[1] \in Runs BY DEF Quiet, IInv, TypeOK, Requests
    <3>2. run'[q[1]] = run[q[1]] BY <1>2, <3>1
    <3> QED BY <1>1, <3>1, <3>2 DEF IInv, StopReachesRun, Request
  <2> QED BY <2>1, <2>2 DEF StopReachesRun
<1>5. ASSUME NEW x \in Runs PROVE RunOK(x)'
  <2>1. CASE x = r
    <3>1. told'[r] = None BY DEF Quiet, IInv, TypeOK
    <3> QED BY <1>2, <2>1, <3>1 DEF RunOK, Outcomes
  <2>2. CASE x # r BY <1>1, <2>2, OthersOK
  <2> QED BY <2>1, <2>2
<1> QED BY <1>3, <1>4, <1>5 DEF IInv

LEMMA EndInv ==
    ASSUME IInv, NEW r \in Runs, End(r), Quiet(r), Typed'
    PROVE  IInv'
<1> USE CoreAssumption
<1> DEFINE l == Fresh("ended", None)
<1>0. l \in Local /\ l.phase = "ended" /\ Budgeted(l) BY FreshFacts DEF Phases
<1> HIDE DEF l
<1>1. /\ run' = [run EXCEPT ![r] = l] /\ stopped' = [stopped EXCEPT ![r] = FALSE]
      /\ active' = IF active = r THEN None ELSE active
  BY DEF End, Freed, l
<1>2. run'[r] = l /\ \A x \in Runs : x # r => run'[x] = run[x] /\ stopped'[x] = stopped[x]
  BY <1>1 DEF IInv, TypeOK
<1>3. TypeOK' BY <1>0, <1>1 DEF IInv, TypeOK, Quiet, Typed
<1>4. StopReachesRun'
  <2>1. ASSUME NEW x \in Runs, run'[x].phase \notin {"idle", "ended"}, ~stopped'[x]
        PROVE  active' = x
    <3>1. x # r BY <1>0, <1>2, <2>1
    <3> QED BY <1>1, <1>2, <2>1, <3>1 DEF IInv, StopReachesRun
  <2>2. ASSUME NEW q \in waiters'
        PROVE  /\ active' = q[1] /\ ~stopped'[q[1]]
               /\ run'[q[1]].phase = "asking" /\ q = Request(q[1])'
    <3>1. q \in waiters /\ q[1] # r /\ q[1] \in Runs BY DEF Quiet, IInv, TypeOK, Requests
    <3>2. run'[q[1]] = run[q[1]] /\ stopped'[q[1]] = stopped[q[1]] BY <1>2, <3>1
    <3> QED BY <1>1, <3>1, <3>2 DEF IInv, StopReachesRun, Request
  <2> QED BY <2>1, <2>2 DEF StopReachesRun
<1>5. ASSUME NEW x \in Runs PROVE RunOK(x)'
  <2>1. CASE x = r
    <3>1. told'[r] = None BY DEF Quiet, IInv, TypeOK
    <3> QED BY <1>0, <1>2, <2>1, <3>1 DEF RunOK, Outcomes
  <2>2. CASE x # r BY <1>1, <2>2, OthersOK
  <2> QED BY <2>1, <2>2
<1> QED BY <1>3, <1>4, <1>5 DEF IInv

\* The write goes to an unlocked host, and it is of the command that was decided on.
LEMMA WriteInv ==
    ASSUME IInv, NEW r \in Runs, NEW c \in Commands, NEW l \in Local, Write(r, c, l),
           Quiet(r), Typed', Underway(r), l.step >= 1, l.failed = c => l.fails < RetryCap
    PROVE  /\ IInv'
           /\ \/ run'[r].written = {}
              \/ /\ ~LockedNow(r)
                 /\ run'[r].written = l.written \cup {l.step}
                 /\ WroteNow(run'[r]) = c
<1> USE CoreAssumption
<1>1. CASE LockedNow(r) /\ End(r)
  <2>1. run'[r].written = {} BY <1>1, FreshFacts DEF End, Phases, IInv, TypeOK
  <2> QED BY <1>1, <2>1, EndInv
<1>2. CASE ~(LockedNow(r) /\ End(r))
  <2> DEFINE w == [l EXCEPT !.written = @ \cup {l.step}]
             u == [w EXCEPT !.phase = "observing", !.proposal = c]
             m == Noted(w, c, TRUE)
             f == [m EXCEPT !.phase = "top", !.proposal = None]
  <2>1. ~LockedNow(r) /\ (Becomes(r, u) \/ Becomes(r, f)) BY <1>2 DEF Write
  <2>2. /\ w \in Local /\ w.written = l.written \cup {l.step}
        /\ w.failed = l.failed /\ w.fails = l.fails
    BY DEF Local
  <2>3. CASE Becomes(r, u)
    <3>1. /\ u \in Local /\ u.phase = "observing" /\ u.proposal = c /\ u.written = w.written
          /\ u.failed = l.failed /\ u.fails = l.fails
      BY <2>2 DEF Local, Phases, Proposals
    <3>2. Budgeted(u) BY <3>1 DEF Budgeted
    <3> HIDE DEF u
    <3>3. IInv' BY <2>3, <3>1, <3>2, BecomesInv
    <3>4. run'[r] = u BY <2>3 DEF Becomes, IInv, TypeOK
    <3> QED BY <2>1, <2>2, <3>1, <3>3, <3>4 DEF WroteNow
  <2>4. CASE Becomes(r, f)
    <3>1. m \in Local /\ m.written = w.written /\ m.failed = c
      BY <2>2, NotedFacts
    <3> HIDE DEF m, w
    <3>2. /\ f \in Local /\ f.phase = "top" /\ f.proposal = None /\ f.written = w.written
          /\ f.failed = c
      BY <3>1 DEF Local, Phases
    <3>3. Budgeted(f) BY <3>2 DEF Budgeted, Proposals
    <3> HIDE DEF f
    <3>4. IInv' BY <2>4, <3>2, <3>3, BecomesInv
    <3>5. run'[r] = f BY <2>4 DEF Becomes, IInv, TypeOK
    <3> QED BY <2>1, <2>2, <3>2, <3>4, <3>5 DEF WroteNow
  <2> QED BY <2>1, <2>3, <2>4
<1> QED BY <1>1, <1>2

-----------------------------------------------------------------------------
(* The steps of the loop                                                   *)

\* A run that does not ask has no confirm, open or told.
LEMMA NotAsking ==
    ASSUME IInv, NEW r \in Runs, run[r].phase # "asking"
    PROVE  (\A q \in waiters : q[1] # r) /\ told[r] = None
BY DEF IInv, StopReachesRun, RunOK

LEMMA QuietByItself ==
    ASSUME IInv, NEW r \in Runs, run[r].phase # "asking", UNCHANGED <<told, waiters, agreed>>
    PROVE  Quiet(r)
<1>1. told = [told EXCEPT ![r] = None] BY NotAsking DEF IInv, TypeOK
<1> QED BY <1>1, NotAsking DEF Quiet

LEMMA AnsweredFacts ==
    ASSUME IInv, NEW r \in Runs, NEW p \in Proposals, Answered(r, p)
    PROVE  Typed' /\ run[r].phase = "planning" /\ ~stopped[r] /\ Underway(r) /\ active = r
<1> USE CoreAssumption
<1>1. Again(r, p) \in 0..RepeatCap BY DEF Again, IInv, TypeOK, RepeatCap
<1>2. Typed' BY <1>1 DEF Typed, Answered, IInv, TypeOK
<1>3. run[r].phase = "planning" /\ ~stopped[r] BY DEF Answered
<1> QED BY <1>2, <1>3 DEF Underway, IInv, StopReachesRun

LEMMA LocalFacts ==
    ASSUME IInv, NEW r \in Runs
    PROVE  run[r] \in Local /\ Budgeted(run[r])
BY DEF IInv, TypeOK, RunOK

LEMMA TypedStill ==
    ASSUME IInv, UNCHANGED <<memoryVars, locked>>
    PROVE  Typed'
BY DEF IInv, TypeOK, memoryVars, Typed

LEMMA FinishInv == ASSUME IInv, NEW r \in Runs, Finish(r) PROVE IInv'
<1>1. Quiet(r) BY QuietByItself DEF Finish
<1> QED BY <1>1, TypedStill, EndInv DEF Finish

LEMMA PlannerFailsInv == ASSUME IInv, NEW r \in Runs, PlannerFails(r) PROVE IInv'
<1>1. Quiet(r) BY QuietByItself DEF PlannerFails
<1> QED BY <1>1, TypedStill, EndInv DEF PlannerFails

LEMMA PlanInv == ASSUME IInv, NEW r \in Runs, Plan(r) PROVE IInv'
<1> USE CoreAssumption
<1>1. Quiet(r) BY QuietByItself DEF Plan
<1> DEFINE l == [run[r] EXCEPT !.phase = "planning", !.step = @ + 1]
<1>2. run[r].step \in 0..MaxSteps /\ ~(run[r].step >= MaxSteps)
  BY LocalFacts DEF Local, Plan, OutOfSteps
<1>3. run[r].step + 1 \in 0..MaxSteps /\ run[r].step + 1 >= 1 BY <1>2
<1>4. l \in Local /\ l.phase = "planning" /\ l.step >= 1
  BY LocalFacts, <1>3 DEF Local, Phases
<1>5. Budgeted(l) BY LocalFacts DEF Local, Budgeted
<1> HIDE DEF l
<1>6. Becomes(r, l) BY DEF Plan, l
<1> QED BY <1>1, <1>4, <1>5, <1>6, TypedStill, BecomesInv DEF Plan, Underway

\* Back to the top of the loop, whatever the evidence gate's mark.
LEMMA TopFacts ==
    ASSUME NEW l \in Local, Budgeted(l)
    PROVE  LET t == [l EXCEPT !.phase = "top"]
               g == [l EXCEPT !.phase = "top", !.gated = TRUE]
           IN  /\ t \in Local /\ t.phase = "top" /\ Budgeted(t)
               /\ g \in Local /\ g.phase = "top" /\ Budgeted(g)
BY DEF Local, Phases, Budgeted

LEMMA PlanEndsInv == ASSUME IInv, NEW r \in Runs, NEW p \in Proposals, PlanEnds(r, p) PROVE IInv'
<1>1. Answered(r, p) BY DEF PlanEnds
<1>2. /\ Typed' /\ run[r].phase = "planning" /\ Underway(r) /\ run[r] \in Local
      /\ Budgeted(run[r])
  BY <1>1, AnsweredFacts, LocalFacts
<1>3. Quiet(r) BY <1>2, QuietByItself DEF PlanEnds, Answered
<1>4. CASE End(r) BY <1>2, <1>3, <1>4, EndInv
<1>5. CASE Becomes(r, [run[r] EXCEPT !.phase = "top", !.gated = TRUE])
  <2> DEFINE g == [run[r] EXCEPT !.phase = "top", !.gated = TRUE]
  <2>1. g \in Local /\ g.phase = "top" /\ Budgeted(g) BY <1>2, TopFacts
  <2> HIDE DEF g
  <2>2. Becomes(r, g) BY <1>5 DEF g
  <2> QED BY <1>2, <1>3, <2>1, <2>2, BecomesInv
<1> QED BY <1>4, <1>5 DEF PlanEnds

LEMMA BackToTop ==
    ASSUME IInv, NEW r \in Runs, NEW p \in Proposals, Answered(r, p), waiters' = waiters,
           Becomes(r, [run[r] EXCEPT !.phase = "top"])
    PROVE  IInv'
<1>2. /\ Typed' /\ run[r].phase = "planning" /\ Underway(r) /\ run[r] \in Local
      /\ Budgeted(run[r])
  BY AnsweredFacts, LocalFacts
<1>3. Quiet(r) BY <1>2, QuietByItself DEF Answered
<1> DEFINE t == [run[r] EXCEPT !.phase = "top"]
<1>4. t \in Local /\ t.phase = "top" /\ Budgeted(t) BY <1>2, TopFacts
<1> HIDE DEF t
<1>5. Becomes(r, t) BY DEF t
<1> QED BY <1>2, <1>3, <1>4, <1>5, BecomesInv

LEMMA PlanToolInv == ASSUME IInv, NEW r \in Runs, PlanTool(r) PROVE IInv'
<1>1. Answered(r, "tool") /\ "tool" \in Proposals /\ waiters' = waiters
  BY DEF PlanTool, Proposals, Others
<1>2. /\ Typed' /\ run[r].phase = "planning" BY <1>1, AnsweredFacts
<1>3. Quiet(r) BY <1>1, <1>2, QuietByItself DEF Answered
<1>4. CASE End(r) BY <1>2, <1>3, <1>4, EndInv
<1>5. CASE Becomes(r, [run[r] EXCEPT !.phase = "top"]) BY <1>1, <1>5, BackToTop
<1> QED BY <1>4, <1>5 DEF PlanTool

LEMMA PlanSkipsInv == ASSUME IInv, NEW r \in Runs, NEW c \in Commands, PlanSkips(r, c) PROVE IInv'
BY BackToTop DEF PlanSkips, Proposals

LEMMA PlanWritesInv ==
    ASSUME IInv, NEW r \in Runs, NEW c \in Commands, PlanWrites(r, c)
    PROVE  /\ IInv'
           /\ \/ run'[r].written = {}
              \/ /\ ~LockedNow(r) /\ Unasked(r, c)
                 /\ active = r /\ ~stopped[r]
                 /\ run[r].failed = c => run[r].fails < RetryCap
                 /\ run'[r].written = run[r].written \cup {run[r].step}
                 /\ WroteNow(run'[r]) = c
<1>1. Answered(r, c) /\ c \in Proposals /\ waiters' = waiters /\ Unasked(r, c)
  BY DEF PlanWrites, Proposals
<1>2. /\ Typed' /\ run[r].phase = "planning" /\ Underway(r) /\ run[r] \in Local
      /\ active = r /\ ~stopped[r]
  BY <1>1, AnsweredFacts, LocalFacts
<1>3. Quiet(r) BY <1>1, <1>2, QuietByItself DEF Answered
<1>4. run[r].step >= 1 BY <1>2 DEF IInv, RunOK
<1>5. run[r].failed = c => run[r].fails < RetryCap
  BY <1>2 DEF PlanWrites, Ends, Spent, Local, RetryCap
<1>6. Write(r, c, run[r]) BY DEF PlanWrites
<1> QED BY <1>1, <1>2, <1>3, <1>4, <1>5, <1>6, WriteInv

LEMMA PlanAsksInv ==
    ASSUME IInv, NEW r \in Runs, NEW p \in Commands \cup {"riskyTool", "patch"}, PlanAsks(r, p)
    PROVE  IInv'
<1> USE CoreAssumption
<1>1. Answered(r, p) /\ p \in Proposals BY DEF PlanAsks, Proposals, Others
<1>2. /\ Typed' /\ run[r].phase = "planning" /\ ~stopped[r] /\ run[r] \in Local
      /\ active = r
  BY <1>1, AnsweredFacts, LocalFacts
<1>3. run[r].step >= 1 BY <1>2 DEF IInv, RunOK
<1> DEFINE l == [run[r] EXCEPT !.phase = "asking", !.proposal = p]
<1>4. /\ l \in Local /\ l.phase = "asking" /\ l.proposal = p /\ l.step = run[r].step
      /\ l.failed = run[r].failed /\ l.fails = run[r].fails
  BY <1>1, <1>2 DEF Local, Phases
<1>5. Budgeted(l)
  <2>1. ~Spent(r, p) BY DEF PlanAsks, Ends
  <2>2. run[r].fails \in 0..RetryCap BY <1>2 DEF Local
  <2> QED BY <1>4, <2>1, <2>2 DEF Budgeted, Spent, RetryCap
<1>6. Becomes(r, l) BY DEF PlanAsks
<1> HIDE DEF l
<1>7. /\ run' = [run EXCEPT ![r] = l] /\ UNCHANGED <<stopped, active, told, agreed>>
      /\ waiters' = waiters \cup {Request(r)}
  BY <1>6 DEF Becomes, PlanAsks, Answered
<1>8. run'[r] = l /\ \A x \in Runs : x # r => run'[x] = run[x]
  BY <1>7 DEF IInv, TypeOK
<1>9. Request(r)' = Request(r) BY <1>4, <1>8 DEF Request
<1>10. Request(r) \in Requests
  <2>1. run[r].step \in 1..MaxSteps BY <1>2, <1>3 DEF Local
  <2> QED BY <2>1 DEF Request, Requests
<1>11. TypeOK' BY <1>2, <1>4, <1>7, <1>10 DEF IInv, TypeOK, Typed
<1>12. StopReachesRun'
  <2>1. ASSUME NEW x \in Runs, run'[x].phase \notin {"idle", "ended"}, ~stopped'[x]
        PROVE  active' = x
    BY <1>2, <1>7, <1>8, <2>1 DEF IInv, StopReachesRun
  <2>2. ASSUME NEW q \in waiters'
        PROVE  /\ active' = q[1] /\ ~stopped'[q[1]]
               /\ run'[q[1]].phase = "asking" /\ q = Request(q[1])'
    <3>1. CASE q = Request(r)
      <4>1. q[1] = r BY <3>1 DEF Request
      <4> QED BY <1>2, <1>4, <1>7, <1>8, <1>9, <3>1, <4>1
    <3>2. CASE q \in waiters
      <4>1. q[1] \in Runs /\ q[1] # r
        BY <1>2, <3>2, NotAsking DEF IInv, TypeOK, Requests
      <4>2. run'[q[1]] = run[q[1]] BY <1>8, <4>1
      <4> QED BY <1>7, <3>2, <4>1, <4>2 DEF IInv, StopReachesRun, Request
    <3> QED BY <1>7, <3>1, <3>2
  <2> QED BY <2>1, <2>2 DEF StopReachesRun
<1>13. ASSUME NEW x \in Runs PROVE RunOK(x)'
  <2>1. CASE x = r
    <3>1. told'[r] = None BY <1>2, <1>7, NotAsking
    <3> QED BY <1>3, <1>4, <1>5, <1>8, <2>1, <3>1 DEF RunOK, Outcomes
  <2>2. CASE x # r
    <3>1. RunOK(x) /\ run'[x] = run[x] BY <1>8, <2>2 DEF IInv
    <3>2. Request(x)' = Request(x) BY <3>1 DEF Request
    <3>3. \A q \in waiters' : q \in waiters \/ q[1] = r BY <1>7 DEF Request
    <3> QED BY <1>7, <2>2, <3>1, <3>2, <3>3 DEF RunOK
  <2> QED BY <2>1, <2>2
<1> QED BY <1>11, <1>12, <1>13 DEF IInv

LEMMA ResumesFacts ==
    ASSUME IInv, NEW r \in Runs, Resumes(r)
    PROVE  /\ Quiet(r) /\ Typed' /\ Underway(r) /\ run[r].phase = "asking"
           /\ run[r] \in Local /\ Budgeted(run[r]) /\ run[r].step >= 1
<1>1. run[r].phase = "asking" /\ told[r] # None BY DEF Resumes
<1>2. \A q \in waiters : q[1] # r BY <1>1 DEF IInv, RunOK
<1>3. Quiet(r) BY <1>2 DEF Quiet, Resumes, Request
<1>4. Typed' BY TypedStill DEF Resumes
<1> QED BY <1>1, <1>3, <1>4, LocalFacts DEF Underway, IInv, RunOK

LEMMA ResumeEndsInv == ASSUME IInv, NEW r \in Runs, ResumeEnds(r) PROVE IInv'
BY ResumesFacts, EndInv DEF ResumeEnds

LEMMA ResumePatchInv == ASSUME IInv, NEW r \in Runs, ResumePatch(r) PROVE IInv'
<1>1. /\ Quiet(r) /\ Typed' /\ Underway(r) /\ run[r] \in Local
  BY ResumesFacts DEF ResumePatch
<1> DEFINE l == [run[r] EXCEPT !.phase = "top", !.proposal = None]
<1>2. l \in Local /\ l.phase = "top" /\ l.proposal = None BY <1>1 DEF Local, Phases
<1>3. Budgeted(l) BY <1>2, CoreAssumption DEF Budgeted, Proposals
<1>4. Becomes(r, l) BY DEF ResumePatch
<1> HIDE DEF l
<1> QED BY <1>1, <1>2, <1>3, <1>4, BecomesInv

LEMMA ResumeWritesInv ==
    ASSUME IInv, NEW r \in Runs, NEW c \in Commands, ResumeWrites(r, c)
    PROVE  /\ IInv'
           /\ \/ run'[r].written = {}
              \/ /\ ~LockedNow(r) /\ Request(r) \in agreed
                 /\ active = r /\ ~stopped[r]
                 /\ run[r].failed = c => run[r].fails < RetryCap
                 /\ run'[r].written = run[r].written \cup {run[r].step}
                 /\ WroteNow(run'[r]) = c
<1>1. /\ Quiet(r) /\ Typed' /\ Underway(r) /\ run[r].phase = "asking" /\ run[r] \in Local
      /\ Budgeted(run[r]) /\ run[r].step >= 1
  BY ResumesFacts DEF ResumeWrites
<1>2. told[r] = "approve" /\ ~stopped[r] /\ run[r].proposal = c
  BY DEF ResumeWrites, GoesOn
<1>3. Request(r) \in agreed /\ active = r
  BY <1>1, <1>2 DEF IInv, RunOK, StopReachesRun
<1>4. run[r].failed = c => run[r].fails < RetryCap BY <1>1, <1>2 DEF Budgeted
<1> DEFINE l == Holding(r, c)
<1>5. /\ l \in Local /\ l.step = run[r].step /\ l.failed = run[r].failed
      /\ l.fails = run[r].fails /\ l.written = run[r].written
  BY <1>1 DEF Holding, Local
<1>6. Write(r, c, l) BY DEF ResumeWrites
<1> HIDE DEF l
<1>7. /\ IInv'
      /\ \/ run'[r].written = {}
         \/ /\ ~LockedNow(r)
            /\ run'[r].written = l.written \cup {l.step}
            /\ WroteNow(run'[r]) = c
  BY <1>1, <1>4, <1>5, <1>6, WriteInv
<1> QED BY <1>2, <1>3, <1>4, <1>5, <1>7

LEMMA ObservedInv ==
    ASSUME IInv, NEW r \in Runs, NEW c \in Commands, NEW fails \in BOOLEAN, Observed(r, c, fails)
    PROVE  IInv' /\ run'[r].written = run[r].written
<1>1. /\ run[r].phase = "observing" /\ run[r].proposal = c /\ run[r] \in Local
      /\ Budgeted(run[r]) /\ Typed'
  BY LocalFacts, TypedStill DEF Observed
<1>2. Quiet(r) BY <1>1, QuietByItself DEF Observed
<1>3. run[r].failed = c => run[r].fails < RetryCap BY <1>1 DEF Budgeted
<1> DEFINE m == Noted(run[r], c, fails)
           l == [m EXCEPT !.phase = "top", !.proposal = None]
<1>4. m \in Local /\ m.written = run[r].written BY <1>1, <1>3, NotedFacts
<1>5. Becomes(r, l) BY DEF Observed
<1> HIDE DEF m
<1>6. /\ l \in Local /\ l.phase = "top" /\ l.proposal = None /\ l.written = run[r].written
  BY <1>4 DEF Local, Phases
<1>7. Budgeted(l) BY <1>6, CoreAssumption DEF Budgeted, Proposals
<1> HIDE DEF l
<1>8. run'[r] = l BY <1>5 DEF Becomes, IInv, TypeOK
<1>9. IInv' BY <1>1, <1>2, <1>5, <1>6, <1>7, BecomesInv DEF Underway
<1> QED BY <1>6, <1>8, <1>9

-----------------------------------------------------------------------------
(* Chats, stops and answers                                                *)

LEMMA AbortFacts ==
    ASSUME IInv, active # None, Abort
    PROVE  /\ stopped' \in [Runs -> BOOLEAN] /\ told' \in [Runs -> Outcomes \cup {None}]
           /\ waiters' = {}
           /\ \A x \in Runs : ~stopped'[x] => ~stopped[x] /\ x # active
           /\ \A x \in Runs : told'[x] # None => run[x].phase = "asking"
           /\ \A x \in Runs : told'[x] = "approve" => told[x] = "approve"
<1>1. stopped' = [stopped EXCEPT ![active] = TRUE] /\ waiters' = {} /\ active \in Runs
  BY DEF Abort, IInv, TypeOK
<1>2. \A x \in Runs : told'[x] = IF \E q \in waiters : q[1] = x THEN "cancel" ELSE told[x]
  BY DEF Abort
<1>3. stopped' \in [Runs -> BOOLEAN] BY <1>1 DEF IInv, TypeOK
<1>4. told' \in [Runs -> Outcomes \cup {None}]
  BY DEF Abort, IInv, TypeOK, Outcomes
<1>5. \A x \in Runs : ~stopped'[x] => ~stopped[x] /\ x # active
  BY <1>1 DEF IInv, TypeOK
<1>6. ASSUME NEW x \in Runs, told'[x] # None PROVE run[x].phase = "asking"
  <2>1. CASE \E q \in waiters : q[1] = x BY <2>1 DEF IInv, StopReachesRun
  <2>2. CASE ~(\E q \in waiters : q[1] = x) BY <1>2, <1>6, <2>2 DEF IInv, RunOK
  <2> QED BY <2>1, <2>2
<1> QED BY <1>1, <1>2, <1>3, <1>4, <1>5, <1>6

LEMMA BeginInv ==
    ASSUME IInv, NEW r \in Runs, NEW v \in Settings, Begin(r, v)
    PROVE  IInv' /\ run'[r].written = {}
<1> USE CoreAssumption
<1> DEFINE l == Fresh("top", v)
<1>1. l \in Local /\ l.phase = "top" /\ l.written = {} /\ Budgeted(l)
  BY FreshFacts DEF Phases
<1>2. run' = [run EXCEPT ![r] = l] BY DEF Begin
<1> HIDE DEF l
<1>3. /\ run[r].phase = "idle" /\ active' = r
      /\ UNCHANGED <<last, repeats, locked, agreed>>
      /\ IF active = None THEN UNCHANGED <<stopped, told, waiters>> ELSE Abort
  BY DEF Begin
<1>4. run'[r] = l /\ \A x \in Runs : x # r => run'[x] = run[x]
  BY <1>2 DEF IInv, TypeOK
<1>5. /\ stopped' \in [Runs -> BOOLEAN] /\ told' \in [Runs -> Outcomes \cup {None}]
      /\ waiters' = {}
      /\ \A x \in Runs : ~stopped'[x] => ~stopped[x] /\ x # active
      /\ \A x \in Runs : told'[x] # None => run[x].phase = "asking"
      /\ \A x \in Runs : told'[x] = "approve" => told[x] = "approve"
  <2>1. CASE active = None
    <3>1. waiters = {} BY <2>1 DEF IInv, StopReachesRun, TypeOK, Requests
    <3> QED BY <1>3, <2>1, <3>1 DEF IInv, TypeOK, RunOK
  <2>2. CASE active # None BY <1>3, <2>2, AbortFacts
  <2> QED BY <2>1, <2>2
<1>6. TypeOK' BY <1>1, <1>2, <1>3, <1>5 DEF IInv, TypeOK
<1>7. StopReachesRun'
  <2>1. ASSUME NEW x \in Runs, run'[x].phase \notin {"idle", "ended"}, ~stopped'[x], x # r
        PROVE  FALSE
    BY <1>4, <1>5, <2>1 DEF IInv, StopReachesRun
  <2> QED BY <1>3, <1>5, <2>1 DEF StopReachesRun
<1>8. ASSUME NEW x \in Runs PROVE RunOK(x)'
  <2>1. CASE x = r
    <3>1. told'[x] = None BY <1>3, <1>5, <2>1
    <3> QED BY <1>1, <1>4, <1>5, <2>1, <3>1 DEF RunOK, Outcomes
  <2>2. CASE x # r
    <3>1. RunOK(x) /\ run'[x] = run[x] BY <1>4, <2>2 DEF IInv
    <3>2. Request(x)' = Request(x) BY <3>1 DEF Request
    <3>3. told'[x] = "approve" => Request(x)' \in agreed'
      BY <1>3, <1>5, <3>1, <3>2 DEF RunOK
    <3> QED BY <1>5, <3>1, <3>3 DEF RunOK
  <2> QED BY <2>1, <2>2
<1> QED BY <1>1, <1>4, <1>6, <1>7, <1>8 DEF IInv

LEMMA StopInv == ASSUME IInv, Stop PROVE IInv'
<1>1. /\ active # None /\ Abort
      /\ UNCHANGED <<run, active, last, repeats, locked, agreed>>
  BY DEF Stop
<1>2. /\ stopped' \in [Runs -> BOOLEAN] /\ told' \in [Runs -> Outcomes \cup {None}]
      /\ waiters' = {}
      /\ \A x \in Runs : ~stopped'[x] => ~stopped[x] /\ x # active
      /\ \A x \in Runs : told'[x] # None => run[x].phase = "asking"
      /\ \A x \in Runs : told'[x] = "approve" => told[x] = "approve"
  BY <1>1, AbortFacts
<1>3. TypeOK' BY <1>1, <1>2 DEF IInv, TypeOK
<1>4. StopReachesRun' BY <1>1, <1>2 DEF IInv, StopReachesRun
<1>5. ASSUME NEW x \in Runs PROVE RunOK(x)'
  <2>1. RunOK(x) BY DEF IInv
  <2>2. Request(x)' = Request(x) BY <1>1 DEF Request
  <2> QED BY <1>1, <1>2, <2>1, <2>2 DEF RunOK
<1> QED BY <1>3, <1>4, <1>5 DEF IInv

LEMMA SettleInv ==
    ASSUME IInv, NEW outcome \in Outcomes, NEW q, Settle(q, outcome),
           agreed' \in {agreed, agreed \cup {q}}, outcome = "approve" => q \in agreed'
    PROVE  IInv'
<1>1. /\ q \in waiters /\ waiters' = waiters \ {q}
      /\ told' = [told EXCEPT ![q[1]] = outcome]
      /\ UNCHANGED <<run, stopped, active, last, repeats, locked>>
  BY DEF Settle
<1>2. /\ q \in Requests /\ q[1] \in Runs
  BY <1>1 DEF IInv, TypeOK, Requests
<1>3. run[q[1]].phase = "asking" /\ q = Request(q[1])
  BY <1>1 DEF IInv, StopReachesRun
<1>4. /\ told'[q[1]] = outcome
      /\ \A x \in Runs : x # q[1] => told'[x] = told[x]
  BY <1>1, <1>2 DEF IInv, TypeOK
<1>5. TypeOK' BY <1>1, <1>2 DEF IInv, TypeOK
<1>6. \A x : Request(x)' = Request(x) BY <1>1 DEF Request
<1>7. StopReachesRun' BY <1>1, <1>6 DEF IInv, StopReachesRun
<1>8. ASSUME NEW x \in Runs PROVE RunOK(x)'
  <2>1. RunOK(x) BY DEF IInv
  <2>2. CASE x = q[1]
    <3>1. ASSUME NEW p \in waiters' PROVE p[1] # x
      <4>1. p \in waiters /\ p # q /\ p = Request(p[1])
        BY <1>1 DEF IInv, StopReachesRun
      <4> QED BY <1>3, <2>2, <4>1
    <3>2. outcome = "approve" => Request(x)' \in agreed' BY <1>3, <1>6, <2>2
    <3>3. told'[x] = outcome /\ run'[x] = run[x] /\ run[x].phase = "asking"
      BY <1>1, <1>3, <1>4, <2>2
    <3> QED BY <2>1, <3>1, <3>2, <3>3 DEF RunOK
  <2>3. CASE x # q[1]
    <3>1. told'[x] = told[x] /\ run'[x] = run[x] BY <1>1, <1>4, <2>3
    <3>2. Request(x) \in agreed => Request(x)' \in agreed' BY <1>6
    <3> QED BY <1>1, <2>1, <3>1, <3>2 DEF RunOK
  <2> QED BY <2>2, <2>3
<1> QED BY <1>5, <1>7, <1>8 DEF IInv

\* Neither a run nor a confirm changes.
LEMMA SameRuns ==
    ASSUME IInv, UNCHANGED <<run, stopped, told, active, waiters, agreed>>, Typed'
    PROVE  IInv'
<1>1. \A x : Request(x)' = Request(x) BY DEF Request
<1>2. TypeOK' BY DEF IInv, TypeOK, Typed
<1>3. StopReachesRun' BY <1>1 DEF IInv, StopReachesRun
<1>4. \A x \in Runs : RunOK(x)' BY <1>1 DEF IInv, RunOK
<1> QED BY <1>2, <1>3, <1>4 DEF IInv

LEMMA SetProtectionInv == ASSUME IInv, NEW s \in Sessions, SetProtection(s) PROVE IInv'
<1>1. Typed' BY DEF SetProtection, IInv, TypeOK, Typed
<1> QED BY <1>1, SameRuns DEF SetProtection

-----------------------------------------------------------------------------
LEMMA InitInv == Init => IInv
<1> SUFFICES ASSUME Init PROVE IInv OBVIOUS
<1> USE CoreAssumption
<1>1. /\ Fresh("idle", None) \in Local /\ Fresh("idle", None).phase = "idle"
      /\ Budgeted(Fresh("idle", None))
  BY FreshFacts DEF Phases
<1>2. TypeOK BY <1>1 DEF Init, TypeOK, RepeatCap
<1>3. \A r \in Runs : run[r].phase = "idle" /\ Budgeted(run[r]) /\ told[r] = None
  BY <1>1 DEF Init
<1>4. waiters = {} BY DEF Init
<1>5. ASSUME NEW r \in Runs PROVE RunOK(r)
  BY <1>3 DEF RunOK, Outcomes
<1> QED BY <1>2, <1>3, <1>4, <1>5 DEF IInv, StopReachesRun

LEMMA StepInv == ASSUME IInv, NEW r \in Runs, Step(r) PROVE IInv'
<1>1. CASE Finish(r) BY <1>1, FinishInv
<1>2. CASE Plan(r) BY <1>2, PlanInv
<1>3. CASE Planned(r)
  <2>1. CASE PlannerFails(r) BY <2>1, PlannerFailsInv
  <2>2. CASE \E p \in Proposals : PlanEnds(r, p) BY <2>2, PlanEndsInv
  <2>3. CASE PlanTool(r) BY <2>3, PlanToolInv
  <2>4. CASE \E c \in Commands : PlanSkips(r, c) \/ PlanWrites(r, c)
    BY <2>4, PlanSkipsInv, PlanWritesInv
  <2>5. CASE \E p \in Commands \cup {"riskyTool", "patch"} : PlanAsks(r, p)
    BY <2>5, PlanAsksInv
  <2> QED BY <1>3, <2>1, <2>2, <2>3, <2>4, <2>5 DEF Planned
<1>4. CASE ResumeEnds(r) BY <1>4, ResumeEndsInv
<1>5. CASE ResumePatch(r) BY <1>5, ResumePatchInv
<1>6. CASE \E c \in Commands : ResumeWrites(r, c) BY <1>6, ResumeWritesInv
<1>7. CASE \E c \in Commands, fails \in BOOLEAN : Observed(r, c, fails)
  BY <1>7, ObservedInv
<1> QED BY <1>1, <1>2, <1>3, <1>4, <1>5, <1>6, <1>7 DEF Step

LEMMA NextInv == IInv /\ [Next]_vars => IInv'
<1> SUFFICES ASSUME IInv, [Next]_vars PROVE IInv' OBVIOUS
<1>1. CASE User
  <2>1. CASE \E r \in Runs, v \in Settings : Begin(r, v) BY <2>1, BeginInv
  <2>2. CASE Stop BY <2>2, StopInv
  <2>3. ASSUME NEW q \in waiters, Approve(q) \/ Deny(q) PROVE IInv'
    <3>1. CASE Approve(q)
      <4>1. Settle(q, "approve") /\ agreed' = agreed \cup {q} BY <3>1 DEF Approve
      <4> QED BY <4>1, SettleInv DEF Outcomes
    <3>2. CASE Deny(q)
      <4>1. Settle(q, "deny") /\ agreed' = agreed BY <3>2 DEF Deny
      <4> QED BY <4>1, SettleInv DEF Outcomes
    <3> QED BY <2>3, <3>1, <3>2
  <2>4. CASE \E s \in Sessions : SetProtection(s) BY <2>4, SetProtectionInv
  <2> QED BY <1>1, <2>1, <2>2, <2>3, <2>4 DEF User
<1>2. CASE Timer
  <2>1. PICK q \in waiters : Expire(q) BY <1>2 DEF Timer
  <2>2. Settle(q, "deny") /\ agreed' = agreed BY <2>1 DEF Expire
  <2> QED BY <2>2, SettleInv DEF Outcomes
<1>3. CASE \E r \in Runs : Step(r) BY <1>3, StepInv
<1>4. CASE UNCHANGED vars
  <2>1. UNCHANGED <<memoryVars, locked>> BY <1>4 DEF vars, memoryVars
  <2>2. Typed' BY <2>1, TypedStill
  <2> QED BY <1>4, <2>2, SameRuns DEF vars
<1> QED BY <1>1, <1>2, <1>3, <1>4 DEF Next

THEOREM Invariance == Spec => []IInv
BY InitInv, NextInv, PTL DEF Spec

\* Every variable has its type: steps, repeats and failures stay within their caps.
THEOREM TypeCorrect == Spec => []TypeOK
<1>1. IInv => TypeOK BY DEF IInv
<1> QED BY <1>1, Invariance, PTL

\* A run under way that was not stopped is the one in activeAiChat, and every open
\* confirm is that run's, so an abort reaches whatever goes on.
THEOREM StopReachesRunHolds == Spec => []StopReachesRun
<1>1. IInv => StopReachesRun BY DEF IInv
<1> QED BY <1>1, Invariance, PTL

-----------------------------------------------------------------------------
(* What is written                                                         *)

\* What WrittenAsAgreed says of the write of step n of a run.
AsAgreed(r, n) ==
    LET c == WroteNow(run'[r])
    IN  /\ active = r /\ ~stopped[r]
        /\ ~run[r].setting.locked /\ ~locked[TargetOf[r]]
        /\ \/ <<r, n>> \in agreed
           \/ /\ run[r].setting.policy # None
              /\ KindOf[c] \in {"read", "write", "high"}
              /\ KindOf[c] # "read" => run[r].setting.policy = "auto"
              /\ KindOf[c] = "high" => run[r].setting.autoHigh
        /\ run[r].failed = c => run[r].fails < RetryCap

WritesNothing == \A r \in Runs : run'[r].written \subseteq run[r].written

LEMMA EndWrites == ASSUME IInv, NEW r \in Runs, End(r) PROVE WritesNothing
<1>1. /\ run'[r].written = {}
      /\ \A x \in Runs : x # r => run'[x] = run[x]
  BY FreshFacts DEF End, Phases, IInv, TypeOK
<1> QED BY <1>1 DEF WritesNothing

LEMMA BecomesWrites ==
    ASSUME IInv, NEW r \in Runs, NEW l, Becomes(r, l), l.written = run[r].written
    PROVE  WritesNothing
<1>1. run'[r] = l /\ \A x \in Runs : x # r => run'[x] = run[x]
  BY DEF Becomes, IInv, TypeOK
<1> QED BY <1>1 DEF WritesNothing

\* A write concerns the run whose step it is, and no other.
LEMMA WriteOthers ==
    ASSUME IInv, NEW r \in Runs, NEW c, NEW l, Write(r, c, l)
    PROVE  \A x \in Runs : x # r => run'[x] = run[x]
BY DEF Write, End, Becomes, IInv, TypeOK

LEMMA PlanEndsWrites ==
    ASSUME IInv, NEW r \in Runs, NEW p, PlanEnds(r, p) PROVE WritesNothing
<1>1. CASE End(r) BY <1>1, EndWrites
<1>2. CASE Becomes(r, [run[r] EXCEPT !.phase = "top", !.gated = TRUE])
  <2> DEFINE l == [run[r] EXCEPT !.phase = "top", !.gated = TRUE]
  <2>1. l.written = run[r].written BY LocalFacts DEF Local
  <2> HIDE DEF l
  <2>2. Becomes(r, l) BY <1>2 DEF l
  <2> QED BY <2>1, <2>2, BecomesWrites
<1> QED BY <1>1, <1>2 DEF PlanEnds

LEMMA TopWrites ==
    ASSUME IInv, NEW r \in Runs, Becomes(r, [run[r] EXCEPT !.phase = "top"])
    PROVE  WritesNothing
<1> DEFINE l == [run[r] EXCEPT !.phase = "top"]
<1>1. l.written = run[r].written BY LocalFacts DEF Local
<1> HIDE DEF l
<1>2. Becomes(r, l) BY DEF l
<1> QED BY <1>1, <1>2, BecomesWrites

LEMMA PlanTakesStep == ASSUME IInv, NEW r \in Runs, Plan(r) PROVE WritesNothing
<1> DEFINE l == [run[r] EXCEPT !.phase = "planning", !.step = @ + 1]
<1>1. l.written = run[r].written BY LocalFacts DEF Local
<1> HIDE DEF l
<1>2. Becomes(r, l) BY DEF l, Plan
<1> QED BY <1>1, <1>2, BecomesWrites

LEMMA AsksWrites == ASSUME IInv, NEW r \in Runs, NEW p, PlanAsks(r, p) PROVE WritesNothing
<1> DEFINE l == [run[r] EXCEPT !.phase = "asking", !.proposal = p]
<1>1. l.written = run[r].written BY LocalFacts DEF Local
<1> HIDE DEF l
<1>2. Becomes(r, l) BY DEF l, PlanAsks
<1> QED BY <1>1, <1>2, BecomesWrites

LEMMA PatchWrites == ASSUME IInv, NEW r \in Runs, ResumePatch(r) PROVE WritesNothing
<1> DEFINE l == [run[r] EXCEPT !.phase = "top", !.proposal = None]
<1>1. l.written = run[r].written BY LocalFacts DEF Local
<1> HIDE DEF l
<1>2. Becomes(r, l) BY DEF l, ResumePatch
<1> QED BY <1>1, <1>2, BecomesWrites

LEMMA ObservedWrites ==
    ASSUME IInv, NEW r \in Runs, NEW c \in Commands, NEW fails \in BOOLEAN, Observed(r, c, fails)
    PROVE  WritesNothing
<1>1. run'[r].written = run[r].written BY ObservedInv
<1>2. \A x \in Runs : x # r => run'[x] = run[x]
  BY DEF Observed, Becomes, IInv, TypeOK
<1> QED BY <1>1, <1>2 DEF WritesNothing

LEMMA BeginWrites ==
    ASSUME IInv, NEW r \in Runs, NEW v \in Settings, Begin(r, v) PROVE WritesNothing
<1>1. run'[r].written = {} BY BeginInv
<1>2. \A x \in Runs : x # r => run'[x] = run[x] BY DEF Begin, IInv, TypeOK
<1> QED BY <1>1, <1>2 DEF WritesNothing

\* A command the policy lets run unasked is written as agreed ...
LEMMA UnaskedAgreed ==
    ASSUME IInv, NEW r \in Runs, NEW c \in Commands, PlanWrites(r, c),
           NEW x \in Runs, NEW n \in run'[x].written \ run[x].written
    PROVE  AsAgreed(x, n)
<1>1. \/ run'[r].written = {}
      \/ /\ ~LockedNow(r) /\ Unasked(r, c)
         /\ active = r /\ ~stopped[r]
         /\ run[r].failed = c => run[r].fails < RetryCap
         /\ WroteNow(run'[r]) = c
  BY PlanWritesInv
<1>2. x = r
  <2>1. Write(r, c, run[r]) BY DEF PlanWrites
  <2> QED BY <2>1, WriteOthers
<1>3. Unasked(r, c) => /\ run[r].setting.policy # None
                       /\ KindOf[c] \in {"read", "write", "high"}
                       /\ KindOf[c] # "read" => run[r].setting.policy = "auto"
                       /\ KindOf[c] = "high" => run[r].setting.autoHigh
  BY DEF Unasked
<1> QED BY <1>1, <1>2, <1>3 DEF AsAgreed, LockedNow

\* ... and so is one that the user agreed to.
LEMMA ApprovedAgreed ==
    ASSUME IInv, NEW r \in Runs, NEW c \in Commands, ResumeWrites(r, c),
           NEW x \in Runs, NEW n \in run'[x].written \ run[x].written
    PROVE  AsAgreed(x, n)
<1>1. \/ run'[r].written = {}
      \/ /\ ~LockedNow(r) /\ Request(r) \in agreed
         /\ active = r /\ ~stopped[r]
         /\ run[r].failed = c => run[r].fails < RetryCap
         /\ run'[r].written = run[r].written \cup {run[r].step}
         /\ WroteNow(run'[r]) = c
  BY ResumeWritesInv
<1>2. x = r
  <2>1. Write(r, c, Holding(r, c)) BY DEF ResumeWrites
  <2> QED BY <2>1, WriteOthers
<1>3. <<r, n>> = Request(r) BY <1>1, <1>2 DEF Request
<1> QED BY <1>1, <1>2, <1>3 DEF AsAgreed, LockedNow

LEMMA StepWrites ==
    ASSUME IInv, NEW r \in Runs, Step(r)
    PROVE  \/ WritesNothing
           \/ \A x \in Runs : \A n \in run'[x].written \ run[x].written : AsAgreed(x, n)
<1>1. CASE Finish(r) BY <1>1, EndWrites DEF Finish
<1>2. CASE Plan(r) BY <1>2, PlanTakesStep
<1>3. CASE PlannerFails(r) BY <1>3, EndWrites DEF PlannerFails
<1>4. CASE \E p \in Proposals : PlanEnds(r, p) BY <1>4, PlanEndsWrites
<1>5. CASE PlanTool(r) BY <1>5, EndWrites, TopWrites DEF PlanTool
<1>6. CASE \E c \in Commands : PlanSkips(r, c) BY <1>6, TopWrites DEF PlanSkips
<1>7. CASE \E c \in Commands : PlanWrites(r, c) BY <1>7, UnaskedAgreed
<1>8. CASE \E p \in Commands \cup {"riskyTool", "patch"} : PlanAsks(r, p)
  BY <1>8, AsksWrites
<1>9. CASE ResumeEnds(r) BY <1>9, EndWrites DEF ResumeEnds
<1>10. CASE ResumePatch(r) BY <1>10, PatchWrites
<1>11. CASE \E c \in Commands : ResumeWrites(r, c) BY <1>11, ApprovedAgreed
<1>12. CASE \E c \in Commands, fails \in BOOLEAN : Observed(r, c, fails)
  BY <1>12, ObservedWrites
<1> QED BY <1>1, <1>2, <1>3, <1>4, <1>5, <1>6, <1>7, <1>8, <1>9, <1>10, <1>11, <1>12
        DEF Step, Planned

LEMMA NextWrites ==
    ASSUME IInv, [Next]_vars
    PROVE  \/ WritesNothing
           \/ \A x \in Runs : \A n \in run'[x].written \ run[x].written : AsAgreed(x, n)
<1>1. CASE run' = run BY <1>1 DEF WritesNothing
<1>2. CASE \E r \in Runs, v \in Settings : Begin(r, v) BY <1>2, BeginWrites
<1>3. CASE \E r \in Runs : Step(r) BY <1>3, StepWrites
<1> QED BY <1>1, <1>2, <1>3
        DEF Next, User, Timer, Stop, Approve, Deny, Expire, Settle, SetProtection, vars

\* A command is written only by the run a stop would reach, on a host that is not
\* locked at that moment, with the user's consent to that request or by a policy
\* that lets it run unasked, and not once more when it failed twice in a row.
THEOREM WrittenAsAgreedHolds == Spec => WrittenAsAgreed
<1>1. IInv /\ [Next]_vars =>
        [\A r \in Runs : \A n \in run'[r].written \ run[r].written :
            LET c == WroteNow(run'[r])
            IN  /\ active = r /\ ~stopped[r]
                /\ ~run[r].setting.locked /\ ~locked[TargetOf[r]]
                /\ \/ <<r, n>> \in agreed
                   \/ /\ run[r].setting.policy # None
                      /\ KindOf[c] \in {"read", "write", "high"}
                      /\ KindOf[c] # "read" => run[r].setting.policy = "auto"
                      /\ KindOf[c] = "high" => run[r].setting.autoHigh
                /\ run[r].failed = c => run[r].fails < RetryCap]_vars
  <2> SUFFICES ASSUME IInv, [Next]_vars,
                      NEW r \in Runs, NEW n \in run'[r].written \ run[r].written
               PROVE  AsAgreed(r, n)
    BY DEF AsAgreed
  <2>1. ~WritesNothing BY DEF WritesNothing
  <2> QED BY <2>1, NextWrites
<1> QED BY <1>1, Invariance, PTL DEF Spec, WrittenAsAgreed

-----------------------------------------------------------------------------
(* What the user is promised                                               *)

\* What TalkInv says of one run.
TalkOK(r) ==
    /\ run[r].phase = "idle" => ~stopped[r]
    /\ run[r].written \subseteq 1..run[r].step
    /\ run[r].phase \in {"planning", "asking"} => run[r].step \notin run[r].written

\* A step of the agent is one of the promise, or none.
Seen == UNCHANGED <<Begun, Live, Terms, Talking, locked>> \/ Promise!Next

Good == IInv /\ TalkInv

LEMMA LiveFacts ==
    ASSUME Good, NEW r \in Runs
    PROVE  /\ Live \in Runs \cup {None} /\ None \notin Runs
           /\ Live = r <=> active = r /\ ~stopped[r]
           /\ Underway(r) /\ ~stopped[r] => Live = r
           /\ Live = r => Underway(r) /\ Terms = run[r].setting /\ Talking = TalkOf(r)
           /\ Live = None => waiters = {}
<1>1. active \in Runs \cup {None} /\ None \notin Runs
  BY CoreAssumption DEF Good, IInv, TypeOK
<1>2. Live \in Runs \cup {None} /\ (Live = r <=> active = r /\ ~stopped[r])
  BY <1>1 DEF Live
<1>3. Underway(r) /\ ~stopped[r] => active = r
  BY DEF Good, IInv, StopReachesRun, Underway
<1>4. active = r => Underway(r) BY <1>1 DEF Good, TalkInv, Underway
<1>5. ASSUME NEW q \in waiters PROVE Live = q[1] /\ q[1] \in Runs
  BY <1>1 DEF Good, IInv, TypeOK, Requests, StopReachesRun, Live
<1> QED BY <1>1, <1>2, <1>3, <1>4, <1>5 DEF Terms, Talking

\* Nothing is open or told of the live run while it does not ask.
LEMMA NothingOpen ==
    ASSUME Good, NEW r \in Runs, Live = r, run[r].phase # "asking"
    PROVE  /\ waiters = {} /\ told[r] = None
           /\ Stage(r) = IF run[r].step \in run[r].written THEN "written" ELSE "fresh"
<1>1. told[r] = None /\ \A q \in waiters : q[1] # r BY NotAsking DEF Good
<1>2. active = r BY LiveFacts
<1>3. waiters = {} BY <1>1, <1>2 DEF Good, IInv, StopReachesRun
<1>4. None \notin Outcomes BY CoreAssumption
<1> QED BY <1>1, <1>3, <1>4 DEF Stage, Outcomes

\* The local variables a step may leave a run under way with.
Sound(l) ==
    /\ l \in Local
    /\ l.phase \in {"top", "planning", "asking", "observing"}
    /\ l.written \subseteq 1..l.step
    /\ l.phase \in {"planning", "asking"} => l.step \notin l.written

LEMMA BecomesTalk ==
    ASSUME Good, NEW r \in Runs, Underway(r), NEW l, Sound(l), Becomes(r, l)
    PROVE  TalkInv' /\ Begun' = Begun /\ Live' = Live
<1>1. run' = [run EXCEPT ![r] = l] /\ UNCHANGED <<stopped, active>> BY DEF Becomes
<1>2. run'[r] = l /\ \A x \in Runs : x # r => run'[x] = run[x]
  BY <1>1 DEF Good, IInv, TypeOK
<1>3. active \in Runs \cup {None} BY DEF Good, IInv, TypeOK
<1>4. active' # None => run'[active'].phase \notin {"idle", "ended"}
  BY <1>1, <1>2, <1>3 DEF Good, TalkInv, Sound
<1>5. ASSUME NEW x \in Runs PROVE TalkOK(x)'
  <2>1. CASE x = r BY <1>2, <2>1 DEF Sound, TalkOK
  <2>2. CASE x # r BY <1>1, <1>2, <2>2 DEF Good, TalkInv, TalkOK
  <2> QED BY <2>1, <2>2
<1>6. \A x \in Runs : run'[x].phase # "idle" <=> run[x].phase # "idle"
  BY <1>2 DEF Sound, Underway
<1>7. Begun' = Begun BY <1>6 DEF Begun
<1>8. Live' = Live BY <1>1 DEF Live
<1> QED BY <1>4, <1>5, <1>7, <1>8 DEF TalkInv, TalkOK

\* The others do not notice what becomes of a run that is not live.
LEMMA NotLiveTalk ==
    ASSUME Good, NEW r \in Runs, Live # r, Live' = Live, Quiet(r),
           NEW l, run' = [run EXCEPT ![r] = l]
    PROVE  UNCHANGED <<Terms, Talking>>
<1>1. CASE Live = None BY <1>1 DEF Terms, Talking, Silence
<1>2. CASE Live # None
  <2>1. Live \in Runs BY <1>2, LiveFacts
  <2>2. run'[Live] = run[Live] /\ told'[Live] = told[Live] /\ waiters' = waiters
    BY <2>1 DEF Good, IInv, TypeOK, Quiet
  <2>3. TalkOf(Live)' = TalkOf(Live) BY <2>2 DEF TalkOf, Stage, Command
  <2> QED BY <1>2, <2>2, <2>3 DEF Terms, Talking
<1> QED BY <1>1, <1>2

\* What the promise sees of a step that leaves the live run under way.
LEMMA LiveTalk ==
    ASSUME Good, NEW r \in Runs, Live = r, NEW l, Sound(l), Becomes(r, l),
           l.setting = run[r].setting
    PROVE  /\ TalkInv' /\ UNCHANGED <<Begun, Live, Terms>> /\ Live # None
           /\ Talking = TalkOf(r) /\ Talking' = TalkOf(r)' /\ run'[r] = l
<1>1. Underway(r) /\ Talking = TalkOf(r) /\ Terms = run[r].setting /\ None \notin Runs
  BY LiveFacts
<1>2. TalkInv' /\ Begun' = Begun /\ Live' = Live BY <1>1, BecomesTalk
<1>3. run'[r] = l BY DEF Becomes, Good, IInv, TypeOK
<1>4. Talking' = TalkOf(r)' /\ Terms' = run'[r].setting
  BY <1>1, <1>2 DEF Talking, Terms
<1> QED BY <1>1, <1>2, <1>3, <1>4

LEMMA EndSeen ==
    ASSUME Good, NEW r \in Runs, Underway(r), End(r), Quiet(r), locked' = locked
    PROVE  TalkInv' /\ Seen
<1> DEFINE l == Fresh("ended", None)
<1>0. l.phase = "ended" /\ l.written = {} BY FreshFacts DEF Phases
<1> HIDE DEF l
<1>1. /\ run' = [run EXCEPT ![r] = l] /\ stopped' = [stopped EXCEPT ![r] = FALSE]
      /\ active' = IF active = r THEN None ELSE active
  BY DEF End, Freed, l
<1>2. /\ run'[r] = l
      /\ \A x \in Runs : x # r => run'[x] = run[x] /\ stopped'[x] = stopped[x]
  BY <1>1 DEF Good, IInv, TypeOK
<1>3. active \in Runs \cup {None} /\ None \notin Runs
  BY CoreAssumption DEF Good, IInv, TypeOK
<1>4. active' # None => run'[active'].phase \notin {"idle", "ended"}
  BY <1>1, <1>2, <1>3 DEF Good, TalkInv
<1>5. ASSUME NEW x \in Runs PROVE TalkOK(x)'
  <2>1. CASE x = r BY <1>0, <1>2, <2>1 DEF TalkOK
  <2>2. CASE x # r BY <1>1, <1>2, <2>2 DEF Good, TalkInv, TalkOK
  <2> QED BY <2>1, <2>2
<1>6. TalkInv' BY <1>4, <1>5 DEF TalkInv, TalkOK
<1>7. Begun' = Begun BY <1>0, <1>2 DEF Begun, Underway
<1>8. CASE Live = r
  <2>1. Live' = None BY <1>1, <1>8, LiveFacts DEF Live
  <2>2. Terms' = None /\ Talking' = Silence
    BY <2>1 DEF Terms, Talking, Silence
  <2>3. Promise!Silence = Silence BY DEF Promise!Silence, Silence
  <2>4. Promise!Over BY <1>3, <1>7, <1>8, <2>1, <2>2, <2>3 DEF Promise!Over
  <2> QED BY <1>6, <2>4 DEF Seen, Promise!Next
<1>9. CASE Live # r
  <2>1. Live' = Live BY <1>1, <1>2, <1>3, <1>9 DEF Live
  <2>2. UNCHANGED <<Terms, Talking>> BY <1>1, <1>9, <2>1, NotLiveTalk
  <2> QED BY <1>6, <1>7, <2>1, <2>2 DEF Seen
<1> QED BY <1>8, <1>9

\* A step that leaves the live run as far as it was.
LEMMA StillSeen ==
    ASSUME Good, NEW r \in Runs, Live = r, NEW l, Sound(l), Becomes(r, l),
           l.setting = run[r].setting, Talking' = Talking, locked' = locked
    PROVE  TalkInv' /\ Seen
BY LiveTalk DEF Seen

LEMMA SameTalk ==
    ASSUME NEW t \in Promise!Talk, NEW u \in Promise!Talk, t.step = u.step,
           t.stage = u.stage, t.asked = u.asked, t.awaited = u.awaited,
           t.failing = u.failing, t.fails = u.fails
    PROVE  t = u
BY DEF Promise!Talk

\* ... or moves it on to what the promise allows next.
LEMMA GoesSeen ==
    ASSUME Good, NEW r \in Runs, Live = r, NEW l, Sound(l), Becomes(r, l),
           l.setting = run[r].setting, locked' = locked,
           NEW t \in Promise!Talk, t.step = l.step, t.stage = Stage(r)',
           t.asked = Command(r, "asking")', t.awaited = Command(r, "observing")',
           t.failing = l.failed, t.fails = l.fails
    PROVE  TalkInv' /\ Promise!Goes(t)
<1>1. /\ TalkInv' /\ UNCHANGED <<Begun, Live, Terms>> /\ Live # None
      /\ Talking' = TalkOf(r)' /\ run'[r] = l
  BY LiveTalk
<1>2. /\ TalkOf(r)'.step = t.step /\ TalkOf(r)'.stage = t.stage
      /\ TalkOf(r)'.asked = t.asked /\ TalkOf(r)'.awaited = t.awaited
      /\ TalkOf(r)'.failing = t.failing /\ TalkOf(r)'.fails = t.fails
  BY <1>1 DEF TalkOf
<1>3. TalkOf(r)' \in Promise!Talk BY <1>1 DEF TalkOf, Promise!Talk
<1>4. TalkOf(r)' = t BY <1>2, <1>3, SameTalk
<1> QED BY <1>1, <1>4 DEF Promise!Goes

LEMMA SoundFacts ==
    ASSUME Good, NEW r \in Runs
    PROVE  /\ run[r] \in Local /\ run[r].written \subseteq 1..run[r].step
           /\ run[r].phase \in {"planning", "asking"} => run[r].step \notin run[r].written
BY DEF Good, IInv, TypeOK, TalkInv

LEMMA TalkFacts ==
    ASSUME Good, NEW r \in Runs
    PROVE  /\ TalkOf(r) \in Promise!Talk
           /\ TalkOf(r).step = run[r].step /\ TalkOf(r).stage = Stage(r)
           /\ TalkOf(r).asked = Command(r, "asking")
           /\ TalkOf(r).awaited = Command(r, "observing")
           /\ TalkOf(r).failing = run[r].failed /\ TalkOf(r).fails = run[r].fails
<1>1. run[r] \in Local BY SoundFacts
<1>2. Stage(r) \in Promise!Stages BY DEF Stage, Promise!Stages
<1>3. \A phase : Command(r, phase) \in Commands \cup {None} BY DEF Command
<1> QED BY <1>1, <1>2, <1>3 DEF TalkOf, Local, Promise!Talk

LEMMA FinishSeen == ASSUME Good, NEW r \in Runs, Finish(r) PROVE TalkInv' /\ Seen
<1>1. Quiet(r) BY QuietByItself DEF Finish, Good
<1> QED BY <1>1, EndSeen DEF Finish, Underway

LEMMA PlannerFailsSeen == ASSUME Good, NEW r \in Runs, PlannerFails(r) PROVE TalkInv' /\ Seen
<1>1. Quiet(r) BY QuietByItself DEF PlannerFails, Good
<1> QED BY <1>1, EndSeen DEF PlannerFails, Underway

LEMMA PlanSeen == ASSUME Good, NEW r \in Runs, Plan(r) PROVE TalkInv' /\ Seen
<1>1. /\ run[r].phase = "top" /\ ~(run[r].step >= MaxSteps) /\ ~stopped[r]
      /\ UNCHANGED <<locked, told, waiters>>
  BY DEF Plan, OutOfSteps
<1>2. Live = r BY <1>1, LiveFacts DEF Underway
<1>3. run[r] \in Local /\ run[r].written \subseteq 1..run[r].step BY SoundFacts
<1> DEFINE l == [run[r] EXCEPT !.phase = "planning", !.step = @ + 1]
<1>4. run[r].step \in 0..MaxSteps /\ run[r].step + 1 \in 0..MaxSteps
  BY <1>1, <1>3, CoreAssumption DEF Local
<1>5. /\ l \in Local /\ l.phase = "planning" /\ l.step = run[r].step + 1
      /\ l.written = run[r].written /\ l.setting = run[r].setting
      /\ l.failed = run[r].failed /\ l.fails = run[r].fails
  BY <1>3, <1>4 DEF Local, Phases
<1> HIDE DEF l
<1>6. Sound(l) /\ l.step \notin l.written BY <1>3, <1>4, <1>5 DEF Sound
<1>7. Becomes(r, l) BY DEF Plan, l
<1>8. run'[r] = l /\ waiters = {} /\ told[r] = None /\ None \notin Outcomes
  BY <1>1, <1>2, <1>6, <1>7, LiveTalk, NothingOpen, <1>5, CoreAssumption
<1>9. Stage(r)' = "fresh" BY <1>1, <1>6, <1>8 DEF Stage, Outcomes
<1>10. Command(r, "asking")' = None /\ Command(r, "observing")' = None
  BY <1>5, <1>8 DEF Command
<1>11. Command(r, "asking") = None /\ Command(r, "observing") = None BY <1>1 DEF Command
<1> DEFINE o == TalkOf(r)
           t == [o EXCEPT !.step = @ + 1, !.stage = "fresh"]
<1>12. /\ o \in Promise!Talk /\ o.step = run[r].step /\ o.asked = None /\ o.awaited = None
       /\ o.failing = run[r].failed /\ o.fails = run[r].fails
       /\ o.stage \in {"fresh", "written"}
  BY <1>1, <1>2, <1>11, TalkFacts, NothingOpen
<1>13. Talking = o BY <1>2, LiveFacts
<1> HIDE DEF o
<1>14. /\ t \in Promise!Talk /\ t.step = l.step /\ t.stage = "fresh"
       /\ t.asked = None /\ t.awaited = None
       /\ t.failing = l.failed /\ t.fails = l.fails
  BY <1>4, <1>5, <1>12 DEF Promise!Talk, Promise!Stages
<1>15. o.step < MaxSteps BY <1>1, <1>4, <1>12, CoreAssumption
<1> HIDE DEF t
<1>16. TalkInv' /\ Promise!Goes(t)
  BY <1>1, <1>2, <1>5, <1>6, <1>7, <1>9, <1>10, <1>14, GoesSeen
<1>17. Promise!NextStep BY <1>12, <1>13, <1>15, <1>16 DEF Promise!NextStep, t
<1> QED BY <1>16, <1>17 DEF Seen, Promise!Next

\* What is known when the model's answer is there.
LEMMA AnsweredSeen ==
    ASSUME Good, NEW r \in Runs, NEW p \in Proposals, Answered(r, p)
    PROVE  /\ run[r].phase = "planning" /\ Live = r /\ Underway(r)
           /\ run[r] \in Local /\ run[r].written \subseteq 1..run[r].step
           /\ run[r].step \notin run[r].written
           /\ told' = told /\ locked' = locked
           /\ waiters = {} /\ told[r] = None /\ Stage(r) = "fresh"
           /\ Command(r, "asking") = None /\ Command(r, "observing") = None
<1>1. run[r].phase = "planning" /\ ~stopped[r] /\ told' = told /\ locked' = locked
  BY DEF Answered
<1>2. Live = r BY <1>1, LiveFacts DEF Underway
<1>3. Command(r, "asking") = None /\ Command(r, "observing") = None BY <1>1 DEF Command
<1> QED BY <1>1, <1>2, <1>3, SoundFacts, NothingOpen DEF Underway

LEMMA TopSeen ==
    ASSUME Good, NEW r \in Runs, NEW p \in Proposals, Answered(r, p), waiters' = waiters,
           NEW l \in Local, Becomes(r, l), l.phase = "top", l.step = run[r].step,
           l.written = run[r].written, l.setting = run[r].setting,
           l.failed = run[r].failed, l.fails = run[r].fails
    PROVE  TalkInv' /\ Seen
<1>1. /\ run[r].phase = "planning" /\ Live = r /\ run[r].written \subseteq 1..run[r].step
      /\ run[r].step \notin run[r].written
      /\ told' = told /\ locked' = locked
      /\ Command(r, "asking") = None /\ Command(r, "observing") = None
  BY AnsweredSeen
<1>2. Sound(l) BY <1>1 DEF Sound
<1>3. /\ run'[r] = l /\ Talking = TalkOf(r) /\ Talking' = TalkOf(r)'
  BY <1>1, <1>2, LiveTalk
<1>4. Stage(r)' = Stage(r) BY <1>1, <1>3 DEF Stage
<1>5. Command(r, "asking")' = None /\ Command(r, "observing")' = None
  BY <1>3 DEF Command
<1>6. Talking' = Talking BY <1>1, <1>3, <1>4, <1>5 DEF TalkOf
<1> QED BY <1>1, <1>2, <1>6, StillSeen

LEMMA PlanEndsSeen ==
    ASSUME Good, NEW r \in Runs, NEW p \in Proposals, PlanEnds(r, p) PROVE TalkInv' /\ Seen
<1>1. Answered(r, p) /\ waiters' = waiters BY DEF PlanEnds
<1>2. /\ run[r].phase = "planning" /\ Underway(r) /\ run[r] \in Local /\ locked' = locked
  BY <1>1, AnsweredSeen
<1>3. Quiet(r) BY <1>1, <1>2, QuietByItself DEF Answered, Good
<1>4. CASE End(r) BY <1>2, <1>3, <1>4, EndSeen
<1>5. CASE Becomes(r, [run[r] EXCEPT !.phase = "top", !.gated = TRUE])
  <2> DEFINE g == [run[r] EXCEPT !.phase = "top", !.gated = TRUE]
  <2>1. /\ g \in Local /\ g.phase = "top" /\ g.step = run[r].step
        /\ g.written = run[r].written /\ g.setting = run[r].setting
        /\ g.failed = run[r].failed /\ g.fails = run[r].fails
    BY <1>2 DEF Local, Phases
  <2> HIDE DEF g
  <2>2. Becomes(r, g) BY <1>5 DEF g
  <2> QED BY <1>1, <2>1, <2>2, TopSeen
<1> QED BY <1>4, <1>5 DEF PlanEnds

LEMMA BackSeen ==
    ASSUME Good, NEW r \in Runs, NEW p \in Proposals, Answered(r, p), waiters' = waiters,
           Becomes(r, [run[r] EXCEPT !.phase = "top"])
    PROVE  TalkInv' /\ Seen
<1> DEFINE g == [run[r] EXCEPT !.phase = "top"]
<1>1. /\ g \in Local /\ g.phase = "top" /\ g.step = run[r].step
      /\ g.written = run[r].written /\ g.setting = run[r].setting
      /\ g.failed = run[r].failed /\ g.fails = run[r].fails
  BY SoundFacts DEF Local, Phases
<1> HIDE DEF g
<1>2. Becomes(r, g) BY DEF g
<1> QED BY <1>1, <1>2, TopSeen

LEMMA PlanToolSeen == ASSUME Good, NEW r \in Runs, PlanTool(r) PROVE TalkInv' /\ Seen
<1>1. Answered(r, "tool") /\ "tool" \in Proposals /\ waiters' = waiters
  BY DEF PlanTool, Proposals, Others
<1>2. run[r].phase = "planning" /\ Underway(r) /\ locked' = locked BY <1>1, AnsweredSeen
<1>3. Quiet(r) BY <1>1, <1>2, QuietByItself DEF Answered, Good
<1>4. CASE End(r) BY <1>2, <1>3, <1>4, EndSeen
<1>5. CASE Becomes(r, [run[r] EXCEPT !.phase = "top"]) BY <1>1, <1>5, BackSeen
<1> QED BY <1>4, <1>5 DEF PlanTool

LEMMA PlanSkipsSeen ==
    ASSUME Good, NEW r \in Runs, NEW c \in Commands, PlanSkips(r, c) PROVE TalkInv' /\ Seen
BY BackSeen DEF PlanSkips, Proposals

LEMMA PlanAsksSeen ==
    ASSUME Good, NEW r \in Runs, NEW p \in Commands \cup {"riskyTool", "patch"}, PlanAsks(r, p)
    PROVE  TalkInv' /\ Seen
<1>1. Answered(r, p) /\ p \in Proposals /\ waiters' = waiters \cup {Request(r)}
  BY DEF PlanAsks, Proposals, Others
<1>2. /\ Live = r /\ run[r] \in Local /\ run[r].written \subseteq 1..run[r].step
      /\ run[r].step \notin run[r].written /\ locked' = locked
      /\ Stage(r) = "fresh"
      /\ Command(r, "asking") = None /\ Command(r, "observing") = None
  BY <1>1, AnsweredSeen
<1> DEFINE l == [run[r] EXCEPT !.phase = "asking", !.proposal = p]
           c == IF p \in Commands THEN p ELSE None
<1>3. /\ l \in Local /\ l.phase = "asking" /\ l.proposal = p /\ l.step = run[r].step
      /\ l.written = run[r].written /\ l.setting = run[r].setting
      /\ l.failed = run[r].failed /\ l.fails = run[r].fails
  BY <1>1, <1>2 DEF Local, Phases
<1> HIDE DEF l
<1>4. Sound(l) BY <1>2, <1>3 DEF Sound
<1>5. Becomes(r, l) BY DEF PlanAsks, l
<1>6. run'[r] = l BY <1>2, <1>3, <1>4, <1>5, LiveTalk
<1>7. Stage(r)' = "asked" BY <1>1 DEF Stage
<1>8. Command(r, "asking")' = c /\ Command(r, "observing")' = None
  BY <1>3, <1>6 DEF Command
<1> DEFINE o == TalkOf(r)
           t == [o EXCEPT !.stage = "asked", !.asked = c]
<1>9. /\ o \in Promise!Talk /\ o.step = run[r].step /\ o.stage = "fresh" /\ o.awaited = None
      /\ o.failing = run[r].failed /\ o.fails = run[r].fails /\ Talking = o
  BY <1>2, TalkFacts, LiveFacts
<1> HIDE DEF o
<1>10. c \in Commands \cup {None} OBVIOUS
<1> HIDE DEF c
<1>11. /\ t \in Promise!Talk /\ t.step = l.step /\ t.stage = "asked"
       /\ t.asked = c /\ t.awaited = None
       /\ t.failing = l.failed /\ t.fails = l.fails
  BY <1>3, <1>9, <1>10 DEF Promise!Talk, Promise!Stages
<1> HIDE DEF t
<1>12. TalkInv' /\ Promise!Goes(t)
  BY <1>2, <1>3, <1>4, <1>5, <1>7, <1>8, <1>11, GoesSeen
<1>13. Promise!Ask(c) BY <1>9, <1>12 DEF Promise!Ask, t
<1> QED BY <1>10, <1>12, <1>13 DEF Seen, Promise!Next

\* What is known when the outcome of a confirm is taken up.
LEMMA ResumesSeen ==
    ASSUME Good, NEW r \in Runs, Resumes(r)
    PROVE  /\ Quiet(r) /\ Underway(r) /\ locked' = locked /\ run[r].phase = "asking"
           /\ run[r] \in Local /\ run[r].written \subseteq 1..run[r].step
           /\ run[r].step \notin run[r].written
           /\ waiters' = waiters /\ told'[r] = None
           /\ GoesOn(r) => /\ Live = r /\ waiters = {} /\ Stage(r) = "granted"
                           /\ Command(r, "observing") = None
<1>1. /\ run[r].phase = "asking" /\ told[r] # None /\ waiters' = waiters
      /\ told' = [told EXCEPT ![r] = None] /\ locked' = locked
  BY DEF Resumes
<1>2. Quiet(r) /\ Underway(r) BY ResumesFacts DEF Good
<1>3. told'[r] = None BY <1>1 DEF Good, IInv, TypeOK
<1>4. ASSUME GoesOn(r)
      PROVE  /\ Live = r /\ waiters = {} /\ Stage(r) = "granted"
             /\ Command(r, "observing") = None
  <2>1. told[r] = "approve" /\ ~stopped[r] BY <1>4 DEF GoesOn
  <2>2. Live = r /\ active = r BY <1>2, <2>1, LiveFacts
  <2>3. waiters = {} BY <1>2, <2>2 DEF Quiet, Good, IInv, StopReachesRun
  <2>4. Stage(r) = "granted" BY <2>1, <2>3 DEF Stage
  <2>5. Command(r, "observing") = None BY <1>1 DEF Command
  <2> QED BY <2>2, <2>3, <2>4, <2>5
<1> QED BY <1>1, <1>2, <1>3, <1>4, SoundFacts

LEMMA ResumeEndsSeen == ASSUME Good, NEW r \in Runs, ResumeEnds(r) PROVE TalkInv' /\ Seen
BY ResumesSeen, EndSeen DEF ResumeEnds

LEMMA ResumePatchSeen == ASSUME Good, NEW r \in Runs, ResumePatch(r) PROVE TalkInv' /\ Seen
<1>1. Resumes(r) /\ GoesOn(r) /\ run[r].proposal = "patch" BY DEF ResumePatch
<1>2. /\ Live = r /\ locked' = locked /\ run[r] \in Local /\ run[r].phase = "asking"
      /\ run[r].written \subseteq 1..run[r].step /\ run[r].step \notin run[r].written
      /\ waiters' = {} /\ told'[r] = None /\ Stage(r) = "granted"
      /\ Command(r, "observing") = None
  BY <1>1, ResumesSeen
<1>3. Command(r, "asking") = None
  <2>1. "patch" \notin Commands BY CoreAssumption DEF Others
  <2> QED BY <1>1, <2>1 DEF Command
<1> DEFINE l == [run[r] EXCEPT !.phase = "top", !.proposal = None]
<1>4. /\ l \in Local /\ l.phase = "top" /\ l.step = run[r].step
      /\ l.written = run[r].written /\ l.setting = run[r].setting
      /\ l.failed = run[r].failed /\ l.fails = run[r].fails
  BY <1>2 DEF Local, Phases
<1> HIDE DEF l
<1>5. Sound(l) BY <1>2, <1>4 DEF Sound
<1>6. Becomes(r, l) BY DEF ResumePatch, l
<1>7. run'[r] = l BY <1>2, <1>4, <1>5, <1>6, LiveTalk
<1>8. Stage(r)' = "fresh"
  <2>1. None \notin Outcomes BY CoreAssumption
  <2> QED BY <1>2, <1>4, <1>7, <2>1 DEF Stage, Outcomes
<1>9. Command(r, "asking")' = None /\ Command(r, "observing")' = None
  BY <1>4, <1>7 DEF Command
<1> DEFINE o == TalkOf(r)
           t == [o EXCEPT !.stage = "fresh", !.asked = None]
<1>10. /\ o \in Promise!Talk /\ o.step = run[r].step /\ o.stage = "granted"
       /\ o.asked = None /\ o.awaited = None
       /\ o.failing = run[r].failed /\ o.fails = run[r].fails /\ Talking = o
  BY <1>2, <1>3, TalkFacts, LiveFacts
<1> HIDE DEF o
<1>11. /\ t \in Promise!Talk /\ t.step = l.step /\ t.stage = "fresh"
       /\ t.asked = None /\ t.awaited = None
       /\ t.failing = l.failed /\ t.fails = l.fails
  BY <1>4, <1>10 DEF Promise!Talk, Promise!Stages
<1> HIDE DEF t
<1>12. TalkInv' /\ Promise!Goes(t)
  BY <1>2, <1>4, <1>5, <1>6, <1>8, <1>9, <1>11, GoesSeen
<1>13. Promise!Spend BY <1>10, <1>12 DEF Promise!Spend, t
<1> QED BY <1>12, <1>13 DEF Seen, Promise!Next

\* The failure that is noted, as the promise counts it.
LEMMA FailedFacts ==
    ASSUME Good, NEW t \in Promise!Talk, NEW c \in Commands,
           Talking.failing = t.failing, t.failing = c => t.fails < RetryCap
    PROVE  LET f == Promise!Failed(t, c)
           IN  /\ f \in Promise!Talk /\ f.step = t.step /\ f.stage = t.stage
               /\ f.asked = t.asked /\ f.awaited = t.awaited /\ f.failing = c
               /\ f.fails = IF t.failing = c THEN t.fails + 1 ELSE 1
<1> DEFINE n == IF t.failing = c THEN t.fails + 1 ELSE 1
           f == [t EXCEPT !.failing = c, !.fails = n]
<1>1. t.fails \in 0..2 BY DEF Promise!Talk, RetryCap
<1>2. n \in 0..RetryCap BY <1>1 DEF RetryCap
<1>3. Promise!Failed(t, c) = f BY DEF Promise!Failed
<1> HIDE DEF n
<1>4. /\ f \in Promise!Talk /\ f.step = t.step /\ f.stage = t.stage
      /\ f.asked = t.asked /\ f.awaited = t.awaited /\ f.failing = c /\ f.fails = n
  BY <1>2 DEF Promise!Talk
<1> QED BY <1>3, <1>4 DEF n

\* ... and as the run does.
LEMMA NotedCounts ==
    ASSUME NEW l \in Local, NEW c \in Commands, NEW fails \in BOOLEAN
    PROVE  /\ Noted(l, c, fails).setting = l.setting
           /\ fails => Noted(l, c, fails).fails = IF l.failed = c THEN l.fails + 1 ELSE 1
<1> DEFINE n == IF l.failed = c THEN l.fails + 1 ELSE 1
           f == [l EXCEPT !.failed = c, !.fails = n]
<1>1. CASE fails
  <2>1. Noted(l, c, fails) = f BY <1>1 DEF Noted, Local
  <2> HIDE DEF n
  <2>2. f.fails = n /\ f.setting = l.setting BY DEF Local
  <2> QED BY <2>1, <2>2 DEF n
<1>2. CASE ~fails BY <1>2 DEF Noted, Local
<1> QED BY <1>1, <1>2

\* A write is of the command that was agreed to in this step, or that needs no consent.
LEMMA WriteSeen ==
    ASSUME Good, NEW r \in Runs, NEW c \in Commands, NEW l \in Local, Write(r, c, l),
           Quiet(r), Underway(r), Live = r, locked' = locked, waiters' = {}, told'[r] = None,
           l.step = run[r].step, l.written = run[r].written, l.setting = run[r].setting,
           l.failed = run[r].failed, l.fails = run[r].fails,
           run[r].step >= 1, run[r].failed = c => run[r].fails < RetryCap,
           Command(r, "observing") = None,
           \/ Stage(r) = "granted" /\ Command(r, "asking") = c
           \/ Stage(r) = "fresh" /\ Unasked(r, c)
    PROVE  TalkInv' /\ Seen
<1>1. CASE LockedNow(r) /\ End(r) BY <1>1, EndSeen
<1>2. CASE ~(LockedNow(r) /\ End(r))
  <2> DEFINE x == [l EXCEPT !.written = @ \cup {l.step}]
             u == [x EXCEPT !.phase = "observing", !.proposal = c]
             m == Noted(x, c, TRUE)
             f == [m EXCEPT !.phase = "top", !.proposal = None]
  <2>1. ~LockedNow(r) /\ (Becomes(r, u) \/ Becomes(r, f)) BY <1>2 DEF Write
  <2>2. run[r].written \subseteq 1..run[r].step /\ None \notin Commands \cup Outcomes
        /\ run[r].step \in 0..MaxSteps
    BY SoundFacts, CoreAssumption DEF Proposals, Local
  <2>3. /\ x \in Local /\ x.written = l.written \cup {l.step} /\ x.step = l.step
        /\ x.setting = l.setting /\ x.failed = l.failed /\ x.fails = l.fails
    BY DEF Local
  <2>4. x.written \subseteq 1..x.step /\ x.step \in x.written
    <3>1. run[r].step \in 1..run[r].step BY <2>2, CoreAssumption
    <3> QED BY <2>2, <2>3, <3>1
  <2> DEFINE o == TalkOf(r)
             w == [o EXCEPT !.stage = "written", !.asked = None]
             s == [w EXCEPT !.awaited = c]
             z == Promise!Failed(w, c)
  <2>5. /\ o \in Promise!Talk /\ o.step = l.step /\ o.awaited = None
        /\ o.failing = l.failed /\ o.fails = l.fails /\ Talking = o
        /\ Terms = l.setting /\ Live # None
        /\ o.stage = Stage(r) /\ o.asked = Command(r, "asking")
    BY TalkFacts, LiveFacts
  <2> HIDE DEF o, x
  <2>6. /\ w \in Promise!Talk /\ w.step = l.step /\ w.stage = "written" /\ w.asked = None
        /\ w.awaited = None /\ w.failing = l.failed /\ w.fails = l.fails
    BY <2>5 DEF Promise!Talk, Promise!Stages
  <2>7. /\ \/ Talking.stage = "granted" /\ Talking.asked = c
           \/ Talking.stage = "fresh" /\ Promise!Free(c)
        /\ ~Terms.locked /\ ~locked[TargetOf[Live]]
        /\ Talking.failing = c => Talking.fails < RetryCap
    BY <2>1, <2>5 DEF Unasked, LockedNow, Promise!Free
  <2>8. /\ w = [Talking EXCEPT !.stage = "written", !.asked = None] BY <2>5
  <2> HIDE DEF w
  <2>9. CASE Becomes(r, u)
    <3>1. /\ u \in Local /\ u.phase = "observing" /\ u.proposal = c
          /\ u.written = x.written /\ u.step = l.step /\ u.setting = l.setting
          /\ u.failed = l.failed /\ u.fails = l.fails
      BY <2>3 DEF Local, Phases, Proposals
    <3> HIDE DEF u
    <3>2. Sound(u) BY <2>3, <2>4, <3>1 DEF Sound
    <3>3. run'[r] = u BY <2>9, <3>1, <3>2, LiveTalk
    <3>4. Stage(r)' = "written" BY <2>2, <2>3, <2>4, <3>1, <3>3 DEF Stage, Outcomes
    <3>5. Command(r, "asking")' = None /\ Command(r, "observing")' = c
      BY <3>1, <3>3 DEF Command
    <3>6. /\ s \in Promise!Talk /\ s.step = l.step /\ s.stage = "written"
          /\ s.asked = None /\ s.awaited = c /\ s.failing = l.failed /\ s.fails = l.fails
      BY <2>6 DEF Promise!Talk
    <3> HIDE DEF s
    <3>7. TalkInv' /\ Promise!Goes(s)
      BY <2>9, <3>1, <3>2, <3>4, <3>5, <3>6, GoesSeen
    <3>8. Promise!Sends(c) BY <2>5, <2>7, <2>8, <3>7 DEF Promise!Sends, s
    <3> QED BY <2>7, <3>7, <3>8 DEF Seen, Promise!Next, Promise!Write, Promise!Rewrite
  <2>10. CASE Becomes(r, f)
    <3>1. /\ m \in Local /\ m.written = x.written /\ m.step = l.step /\ m.failed = c
          /\ m.fails = (IF l.failed = c THEN l.fails + 1 ELSE 1) /\ m.setting = l.setting
      <4>1. x.failed = c => x.fails < RetryCap BY <2>3
      <4>2. m \in Local /\ m.written = x.written /\ m.step = x.step /\ m.failed = c
        BY <2>3, <4>1, NotedFacts
      <4>3. m.fails = (IF x.failed = c THEN x.fails + 1 ELSE 1) /\ m.setting = x.setting
        BY <2>3, NotedCounts
      <4> QED BY <2>3, <4>2, <4>3
    <3> HIDE DEF m
    <3>2. /\ f \in Local /\ f.phase = "top" /\ f.proposal = None /\ f.written = m.written
          /\ f.step = m.step /\ f.setting = m.setting /\ f.failed = m.failed
          /\ f.fails = m.fails
      BY <3>1 DEF Local, Phases
    <3> HIDE DEF f
    <3>3. Sound(f) BY <2>3, <2>4, <3>1, <3>2 DEF Sound
    <3>4. run'[r] = f BY <2>10, <3>1, <3>2, <3>3, LiveTalk
    <3>5. Stage(r)' = "written"
      BY <2>2, <2>3, <2>4, <3>1, <3>2, <3>4 DEF Stage, Outcomes
    <3>6. Command(r, "asking")' = None /\ Command(r, "observing")' = None
      BY <3>2, <3>4 DEF Command
    <3>7. /\ z \in Promise!Talk /\ z.step = w.step /\ z.stage = w.stage
          /\ z.asked = w.asked /\ z.awaited = w.awaited /\ z.failing = c
          /\ z.fails = IF w.failing = c THEN w.fails + 1 ELSE 1
      BY <2>5, <2>6, FailedFacts
    <3> HIDE DEF z
    <3>8. TalkInv' /\ Promise!Goes(z)
      BY <2>6, <2>10, <3>1, <3>2, <3>3, <3>5, <3>6, <3>7, GoesSeen
    <3>9. Promise!Sends(c) BY <2>5, <2>7, <2>8, <3>8 DEF Promise!Sends, z
    <3> QED BY <2>7, <3>8, <3>9 DEF Seen, Promise!Next, Promise!Write, Promise!Rewrite
  <2> QED BY <2>1, <2>9, <2>10
<1> QED BY <1>1, <1>2

LEMMA PlanWritesSeen ==
    ASSUME Good, NEW r \in Runs, NEW c \in Commands, PlanWrites(r, c)
    PROVE  TalkInv' /\ Seen
<1>1. Answered(r, c) /\ c \in Proposals /\ waiters' = waiters /\ Unasked(r, c)
      /\ Write(r, c, run[r])
  BY DEF PlanWrites, Proposals
<1>2. /\ run[r].phase = "planning" /\ Live = r /\ Underway(r) /\ run[r] \in Local
      /\ told' = told /\ locked' = locked /\ waiters = {} /\ told[r] = None
      /\ Stage(r) = "fresh" /\ Command(r, "observing") = None
  BY <1>1, AnsweredSeen
<1>3. Quiet(r) BY <1>1, <1>2, QuietByItself DEF Answered, Good
<1>4. run[r].step >= 1 BY <1>2 DEF Good, IInv, RunOK
<1>5. run[r].failed = c => run[r].fails < RetryCap
  BY <1>2 DEF PlanWrites, Ends, Spent, Local, RetryCap
<1> QED BY <1>1, <1>2, <1>3, <1>4, <1>5, WriteSeen

LEMMA ResumeWritesSeen ==
    ASSUME Good, NEW r \in Runs, NEW c \in Commands, ResumeWrites(r, c)
    PROVE  TalkInv' /\ Seen
<1>1. /\ Resumes(r) /\ GoesOn(r) /\ run[r].proposal = c /\ Write(r, c, Holding(r, c))
  BY DEF ResumeWrites
<1>2. /\ Quiet(r) /\ Underway(r) /\ locked' = locked /\ run[r].phase = "asking"
      /\ run[r] \in Local /\ Live = r /\ waiters' = {} /\ told'[r] = None
      /\ Stage(r) = "granted" /\ Command(r, "observing") = None
  BY <1>1, ResumesSeen
<1>3. run[r].step >= 1 /\ Budgeted(run[r]) BY <1>2 DEF Good, IInv, RunOK
<1>4. run[r].failed = c => run[r].fails < RetryCap BY <1>1, <1>3 DEF Budgeted
<1>5. Command(r, "asking") = c BY <1>1, <1>2 DEF Command
<1> DEFINE l == Holding(r, c)
<1>6. /\ l \in Local /\ l.step = run[r].step /\ l.failed = run[r].failed
      /\ l.fails = run[r].fails /\ l.written = run[r].written /\ l.setting = run[r].setting
  BY <1>2 DEF Holding, Local
<1>7. Write(r, c, l) BY <1>1
<1> HIDE DEF l
<1> QED BY <1>2, <1>3, <1>4, <1>5, <1>6, <1>7, WriteSeen

LEMMA ObservedSeen ==
    ASSUME Good, NEW r \in Runs, NEW c \in Commands, NEW fails \in BOOLEAN, Observed(r, c, fails)
    PROVE  TalkInv' /\ Seen
<1> DEFINE m == Noted(run[r], c, fails)
           l == [m EXCEPT !.phase = "top", !.proposal = None]
<1>1. /\ run[r].phase = "observing" /\ run[r].proposal = c /\ Becomes(r, l)
      /\ UNCHANGED <<locked, told, waiters>>
  BY DEF Observed
<1>2. /\ run[r] \in Local /\ run[r].written \subseteq 1..run[r].step /\ Budgeted(run[r])
      /\ Underway(r)
  BY <1>1, SoundFacts DEF Good, IInv, RunOK, Underway
<1>3. run[r].failed = c => run[r].fails < RetryCap BY <1>1, <1>2 DEF Budgeted
<1>4. /\ m \in Local /\ m.written = run[r].written /\ m.step = run[r].step
      /\ m.setting = run[r].setting
  BY <1>2, <1>3, NotedFacts, NotedCounts
<1>5. IF fails THEN /\ m.failed = c
                    /\ m.fails = IF run[r].failed = c THEN run[r].fails + 1 ELSE 1
      ELSE IF run[r].failed = c THEN m.failed = None /\ m.fails = 0
      ELSE m = run[r]
  <2>1. CASE fails BY <1>2, <1>3, <2>1, NotedFacts, NotedCounts
  <2>2. CASE ~fails BY <1>2, <2>2 DEF Noted, Local
  <2> QED BY <2>1, <2>2
<1> HIDE DEF m
<1>6. /\ l \in Local /\ l.phase = "top" /\ l.proposal = None /\ l.written = m.written
      /\ l.step = m.step /\ l.setting = m.setting /\ l.failed = m.failed /\ l.fails = m.fails
  BY <1>4 DEF Local, Phases
<1> HIDE DEF l
<1>7. Sound(l) BY <1>2, <1>4, <1>6 DEF Sound
<1>8. Quiet(r) BY <1>1, QuietByItself DEF Observed, Good
<1>9. CASE Live # r
  <2>1. TalkInv' /\ Begun' = Begun /\ Live' = Live BY <1>1, <1>2, <1>7, BecomesTalk
  <2>2. UNCHANGED <<Terms, Talking>> BY <1>1, <1>8, <1>9, <2>1, NotLiveTalk DEF Becomes
  <2> QED BY <1>1, <2>1, <2>2 DEF Seen
<1>10. CASE Live = r
  <2> DEFINE o == TalkOf(r)
             t == [o EXCEPT !.awaited = None]
             p == [t EXCEPT !.failing = None, !.fails = 0]
             z == Promise!Failed(t, c)
  <2>1. Command(r, "asking") = None /\ Command(r, "observing") = c BY <1>1 DEF Command
  <2>2. /\ o \in Promise!Talk /\ o.step = run[r].step /\ o.stage = Stage(r) /\ o.asked = None
        /\ o.awaited = c /\ o.failing = run[r].failed /\ o.fails = run[r].fails
        /\ Talking = o
    BY <1>10, <2>1, TalkFacts, LiveFacts
  <2> HIDE DEF o
  <2>3. run'[r] = l BY <1>1, <1>4, <1>6, <1>7, <1>10, LiveTalk
  <2>4. Stage(r)' = Stage(r) BY <1>1, <1>4, <1>6, <2>3 DEF Stage
  <2>5. Command(r, "asking")' = None /\ Command(r, "observing")' = None
    BY <1>6, <2>3 DEF Command
  <2>6. /\ t \in Promise!Talk /\ t.step = o.step /\ t.stage = o.stage /\ t.asked = None
        /\ t.awaited = None /\ t.failing = o.failing /\ t.fails = o.fails
    BY <2>2 DEF Promise!Talk
  <2>7. t = [Talking EXCEPT !.awaited = None] /\ Talking.awaited = c
    BY <2>2
  <2> HIDE DEF t
  <2>8. CASE fails
    <3>1. /\ z \in Promise!Talk /\ z.step = t.step /\ z.stage = t.stage
          /\ z.asked = t.asked /\ z.awaited = t.awaited /\ z.failing = c
          /\ z.fails = IF t.failing = c THEN t.fails + 1 ELSE 1
      BY <1>3, <2>2, <2>6, FailedFacts
    <3> HIDE DEF z
    <3>2. TalkInv' /\ Promise!Goes(z)
      BY <1>1, <1>4, <1>5, <1>6, <1>7, <1>10, <2>2, <2>4, <2>5, <2>6, <2>8, <3>1, GoesSeen
    <3>3. Promise!Result(c) BY <2>7, <3>2 DEF Promise!Result, z
    <3> QED BY <3>2, <3>3 DEF Seen, Promise!Next
  <2>9. CASE ~fails /\ run[r].failed = c
    <3>1. /\ p \in Promise!Talk /\ p.step = t.step /\ p.stage = t.stage
          /\ p.asked = t.asked /\ p.awaited = t.awaited /\ p.failing = None /\ p.fails = 0
      <4>1. 0 \in 0..RetryCap BY DEF RetryCap
      <4> QED BY <2>6, <4>1 DEF Promise!Talk
    <3>2. Promise!Passed(t, c) = p BY <2>2, <2>9 DEF Promise!Passed
    <3> HIDE DEF p
    <3>3. TalkInv' /\ Promise!Goes(p)
      BY <1>1, <1>4, <1>5, <1>6, <1>7, <1>10, <2>2, <2>4, <2>5, <2>6, <2>9, <3>1, GoesSeen
    <3>4. Promise!Result(c) BY <2>7, <3>2, <3>3 DEF Promise!Result
    <3> QED BY <3>3, <3>4 DEF Seen, Promise!Next
  <2>10. CASE ~fails /\ run[r].failed # c
    <3>1. Promise!Passed(t, c) = t BY <2>2, <2>10 DEF Promise!Passed
    <3>2. TalkInv' /\ Promise!Goes(t)
      BY <1>1, <1>4, <1>5, <1>6, <1>7, <1>10, <2>2, <2>4, <2>5, <2>6, <2>10, GoesSeen
    <3>3. Promise!Result(c) BY <2>7, <3>1, <3>2 DEF Promise!Result
    <3> QED BY <3>2, <3>3 DEF Seen, Promise!Next
  <2> QED BY <2>8, <2>9, <2>10
<1> QED BY <1>9, <1>10

-----------------------------------------------------------------------------
\* The answer, or its time-out, reaches the chat that is live.
LEMMA SettleSeen ==
    ASSUME Good, NEW q, NEW outcome \in {"approve", "deny"}, Settle(q, outcome)
    PROVE  TalkInv' /\ Seen
<1>1. /\ q \in waiters /\ waiters' = waiters \ {q}
      /\ told' = [told EXCEPT ![q[1]] = outcome]
      /\ UNCHANGED <<run, stopped, active, locked>>
  BY DEF Settle
<1> DEFINE r == q[1]
<1>2. r \in Runs /\ Live = r /\ run[r].phase = "asking" /\ q = Request(r) /\ active = r
  <2>1. r \in Runs BY <1>1 DEF Good, IInv, TypeOK, Requests
  <2>2. active = r /\ ~stopped[r] /\ run[r].phase = "asking" /\ q = Request(r)
    BY <1>1 DEF Good, IInv, StopReachesRun
  <2> QED BY <2>1, <2>2, LiveFacts
<1> HIDE DEF r
<1>3. waiters' = {} BY <1>1, <1>2 DEF Good, IInv, StopReachesRun
<1>4. told'[r] = outcome BY <1>1, <1>2 DEF Good, IInv, TypeOK, r
<1>5. UNCHANGED <<Begun, Live>> /\ TalkInv' BY <1>1 DEF Begun, Live, Good, TalkInv
<1>6. Terms' = Terms BY <1>1, <1>5 DEF Terms
<1> DEFINE o == TalkOf(r)
           a == [o EXCEPT !.stage = IF outcome = "approve" THEN "granted" ELSE "refused"]
<1>7. Talking' = TalkOf(r)' /\ Live # None
  BY <1>2, <1>5, LiveFacts DEF Talking
<1>8. Talking = o /\ o \in Promise!Talk /\ o.stage = "asked"
      /\ o.step = run[r].step /\ o.asked = Command(r, "asking")
      /\ o.awaited = Command(r, "observing") /\ o.failing = run[r].failed
      /\ o.fails = run[r].fails
  <2>1. Stage(r) = "asked" BY <1>1 DEF Stage
  <2> QED BY <1>2, <2>1, TalkFacts, LiveFacts
<1>9. Stage(r)' = IF outcome = "approve" THEN "granted" ELSE "refused"
  BY <1>3, <1>4 DEF Stage
<1>10. UNCHANGED <<Command(r, "asking"), Command(r, "observing")>> BY <1>1 DEF Command
<1>11. TalkOf(r)' = [step |-> run[r].step, stage |-> Stage(r)', asked |-> Command(r, "asking"),
                     awaited |-> Command(r, "observing"),
                     failing |-> run[r].failed, fails |-> run[r].fails]
  BY <1>1, <1>10 DEF TalkOf
<1> HIDE DEF o
<1>12. /\ a \in Promise!Talk /\ a.step = o.step
       /\ a.stage = IF outcome = "approve" THEN "granted" ELSE "refused"
       /\ a.asked = o.asked /\ a.awaited = o.awaited /\ a.failing = o.failing
       /\ a.fails = o.fails
  BY <1>8 DEF Promise!Talk, Promise!Stages
<1>13. TalkOf(r)' \in Promise!Talk BY <1>8, <1>9, <1>11 DEF Promise!Talk, Promise!Stages
<1>14. TalkOf(r)' = a
  <2> DEFINE b == TalkOf(r)'
  <2>1. /\ b.step = a.step /\ b.stage = a.stage /\ b.asked = a.asked
        /\ b.awaited = a.awaited /\ b.failing = a.failing /\ b.fails = a.fails
    BY <1>8, <1>9, <1>11, <1>12
  <2> HIDE DEF a
  <2> QED BY <1>12, <1>13, <2>1, SameTalk
<1>15. Promise!Goes(a) BY <1>1, <1>5, <1>6, <1>7, <1>14 DEF Promise!Goes
<1>16. CASE outcome = "approve"
  <2>1. Promise!Agree BY <1>8, <1>15, <1>16 DEF Promise!Agree
  <2> QED BY <1>5, <2>1 DEF Seen, Promise!Next
<1>17. CASE outcome = "deny"
  <2>1. Promise!Refuse BY <1>8, <1>15, <1>17 DEF Promise!Refuse
  <2> QED BY <1>5, <2>1 DEF Seen, Promise!Next
<1> QED BY <1>16, <1>17

-----------------------------------------------------------------------------
LEMMA BeginSeen ==
    ASSUME Good, NEW r \in Runs, NEW v \in Settings, Begin(r, v)
    PROVE  TalkInv' /\ Seen
<1> DEFINE l == Fresh("top", v)
<1>1. /\ run[r].phase = "idle" /\ active' = r /\ run' = [run EXCEPT ![r] = l]
      /\ locked' = locked
      /\ IF active = None THEN UNCHANGED <<stopped, told, waiters>> ELSE Abort
  BY DEF Begin
<1>2. /\ l.phase = "top" /\ l.setting = v /\ l.step = 0 /\ l.written = {}
      /\ l.failed = None /\ l.fails = 0
  BY DEF Fresh
<1> HIDE DEF l
<1>3. run'[r] = l /\ \A x \in Runs : x # r => run'[x] = run[x]
  BY <1>1 DEF Good, IInv, TypeOK
<1>4. told[r] = None /\ ~stopped[r] /\ (\A q \in waiters : q[1] # r) /\ active # r
  BY <1>1, NotAsking, CoreAssumption DEF Good, TalkInv
<1>5. /\ waiters' = {} /\ told'[r] = None /\ ~stopped'[r]
      /\ \A x \in Runs : x # active => stopped'[x] = stopped[x]
  <2>1. CASE active = None
    <3>1. waiters = {}
      BY <2>1, CoreAssumption DEF Good, IInv, TypeOK, StopReachesRun, Requests
    <3> QED BY <1>1, <1>4, <2>1, <3>1
  <2>2. CASE active # None
    <3>1. /\ stopped' = [stopped EXCEPT ![active] = TRUE] /\ waiters' = {}
          /\ told' = [x \in Runs |-> IF \E q \in waiters : q[1] = x THEN "cancel" ELSE told[x]]
      BY <1>1, <2>2 DEF Abort
    <3> QED BY <1>4, <3>1 DEF Good, IInv, TypeOK
  <2> QED BY <2>1, <2>2
<1>6. None \notin Runs /\ active \in Runs \cup {None} /\ None \notin Outcomes
  BY CoreAssumption DEF Good, IInv, TypeOK
<1>7. ASSUME NEW x \in Runs PROVE TalkOK(x)'
  <2>1. CASE x = r BY <1>2, <1>3, <2>1 DEF TalkOK
  <2>2. CASE x # r
    <3>1. run[x].phase = "idle" => x # active BY <1>6 DEF Good, TalkInv
    <3> QED BY <1>3, <1>5, <2>2, <3>1 DEF Good, TalkInv, TalkOK
  <2> QED BY <2>1, <2>2
<1>8. TalkInv' BY <1>1, <1>2, <1>3, <1>7 DEF TalkInv, TalkOK
<1>9. Begun' = Begun \cup {r} /\ r \notin Begun BY <1>1, <1>2, <1>3 DEF Begun
<1>10. Live' = r BY <1>1, <1>5, <1>6 DEF Live
<1>11. Terms' = v BY <1>2, <1>3, <1>6, <1>10 DEF Terms
<1>12. Stage(r)' = "fresh" BY <1>2, <1>3, <1>5, <1>6 DEF Stage, Outcomes
<1>13. Command(r, "asking")' = None /\ Command(r, "observing")' = None
  BY <1>2, <1>3 DEF Command
<1>14. Talking' = Promise!Silence
  BY <1>2, <1>3, <1>6, <1>10, <1>12, <1>13 DEF Talking, TalkOf, Promise!Silence
<1>15. Promise!Begin(r, v) BY <1>1, <1>9, <1>10, <1>11, <1>14 DEF Promise!Begin
<1> QED BY <1>8, <1>15 DEF Seen, Promise!Next

LEMMA StopSeen == ASSUME Good, Stop PROVE TalkInv' /\ Seen
<1>1. /\ active # None /\ active \in Runs /\ stopped' = [stopped EXCEPT ![active] = TRUE]
      /\ UNCHANGED <<run, active, locked>>
  BY DEF Stop, Abort, Good, IInv, TypeOK
<1>2. stopped'[active] /\ \A x \in Runs : x # active => stopped'[x] = stopped[x]
  BY <1>1 DEF Good, IInv, TypeOK
<1>3. TalkInv' BY <1>1, <1>2 DEF Good, TalkInv
<1>4. Begun' = Begun /\ Live' = None BY <1>1, <1>2 DEF Begun, Live
<1>5. Terms' = None /\ Talking' = Silence BY <1>4 DEF Terms, Talking, Silence
<1>6. Promise!Silence = Silence BY DEF Promise!Silence, Silence
<1>7. CASE Live = None
  <2>1. Terms = None /\ Talking = Silence BY <1>7 DEF Terms, Talking
  <2> QED BY <1>1, <1>3, <1>4, <1>5, <1>7, <2>1 DEF Seen
<1>8. CASE Live # None
  <2>1. Promise!Over BY <1>1, <1>4, <1>5, <1>6, <1>8 DEF Promise!Over
  <2> QED BY <1>3, <2>1 DEF Seen, Promise!Next
<1> QED BY <1>7, <1>8

\* Neither a run nor a confirm changes.
LEMMA SameSeen ==
    ASSUME Good, UNCHANGED <<run, stopped, told, active, waiters>>
    PROVE  TalkInv' /\ UNCHANGED <<Begun, Live, Terms, Talking>>
<1>1. TalkInv' BY DEF Good, TalkInv
<1>2. UNCHANGED <<Begun, Live>> BY DEF Begun, Live
<1>3. Terms' = Terms BY <1>2 DEF Terms
<1>4. Talking' = Talking BY <1>2 DEF Talking, Silence, TalkOf, Stage, Command
<1> QED BY <1>1, <1>2, <1>3, <1>4

LEMMA StepSeen == ASSUME Good, NEW r \in Runs, Step(r) PROVE TalkInv' /\ Seen
<1>1. CASE Finish(r) BY <1>1, FinishSeen
<1>2. CASE Plan(r) BY <1>2, PlanSeen
<1>3. CASE Planned(r)
  <2>1. CASE PlannerFails(r) BY <2>1, PlannerFailsSeen
  <2>2. CASE \E p \in Proposals : PlanEnds(r, p) BY <2>2, PlanEndsSeen
  <2>3. CASE PlanTool(r) BY <2>3, PlanToolSeen
  <2>4. CASE \E c \in Commands : PlanSkips(r, c) \/ PlanWrites(r, c)
    BY <2>4, PlanSkipsSeen, PlanWritesSeen
  <2>5. CASE \E p \in Commands \cup {"riskyTool", "patch"} : PlanAsks(r, p)
    BY <2>5, PlanAsksSeen
  <2> QED BY <1>3, <2>1, <2>2, <2>3, <2>4, <2>5 DEF Planned
<1>4. CASE ResumeEnds(r) BY <1>4, ResumeEndsSeen
<1>5. CASE ResumePatch(r) BY <1>5, ResumePatchSeen
<1>6. CASE \E c \in Commands : ResumeWrites(r, c) BY <1>6, ResumeWritesSeen
<1>7. CASE \E c \in Commands, fails \in BOOLEAN : Observed(r, c, fails)
  BY <1>7, ObservedSeen
<1> QED BY <1>1, <1>2, <1>3, <1>4, <1>5, <1>6, <1>7 DEF Step

LEMMA NextSeen == ASSUME Good, [Next]_vars PROVE TalkInv' /\ Seen
<1>1. CASE User
  <2>1. CASE \E r \in Runs, v \in Settings : Begin(r, v) BY <2>1, BeginSeen
  <2>2. CASE Stop BY <2>2, StopSeen
  <2>3. CASE \E q \in waiters : Approve(q) \/ Deny(q)
    BY <2>3, SettleSeen DEF Approve, Deny
  <2>4. ASSUME NEW s \in Sessions, SetProtection(s) PROVE TalkInv' /\ Seen
    <3>1. /\ UNCHANGED <<run, stopped, told, active, waiters>>
          /\ locked' = [locked EXCEPT ![s] = ~@]
      BY <2>4 DEF SetProtection
    <3>2. TalkInv' /\ UNCHANGED <<Begun, Live, Terms, Talking>> BY <3>1, SameSeen
    <3>3. Promise!SetProtection(s) BY <3>1, <3>2 DEF Promise!SetProtection
    <3> QED BY <3>2, <3>3 DEF Seen, Promise!Next
  <2> QED BY <1>1, <2>1, <2>2, <2>3, <2>4 DEF User
<1>2. CASE Timer
  <2>1. PICK q \in waiters : Expire(q) BY <1>2 DEF Timer
  <2> QED BY <2>1, SettleSeen DEF Expire
<1>3. CASE \E r \in Runs : Step(r) BY <1>3, StepSeen
<1>4. CASE UNCHANGED vars
  <2>1. UNCHANGED <<run, stopped, told, active, waiters, locked>> BY <1>4 DEF vars
  <2> QED BY <2>1, SameSeen DEF Seen
<1> QED BY <1>1, <1>2, <1>3, <1>4 DEF Next

LEMMA InitSeen == Init => TalkInv /\ Promise!Init
<1> SUFFICES ASSUME Init PROVE TalkInv /\ Promise!Init OBVIOUS
<1>1. /\ active = None /\ locked \in [Sessions -> BOOLEAN]
      /\ \A r \in Runs : run[r] = Fresh("idle", None) /\ ~stopped[r]
  BY DEF Init
<1>2. Fresh("idle", None).phase = "idle" /\ Fresh("idle", None).written = {}
  BY DEF Fresh
<1>3. TalkInv BY <1>1, <1>2 DEF TalkInv
<1>4. Begun = {} /\ Live = None BY <1>1, <1>2 DEF Begun, Live
<1>5. Terms = None /\ Talking = Silence BY <1>4 DEF Terms, Talking
<1> QED BY <1>1, <1>3, <1>4, <1>5 DEF Promise!Init, Silence, Promise!Silence

\* The relation between the slot, the stops and the writes that the promise rests on.
THEOREM TalkInvariance == Spec => []TalkInv
<1>1. Init => Good BY InitInv, InitSeen DEF Good
<1>2. Good /\ [Next]_vars => Good' BY NextInv, NextSeen DEF Good
<1>3. Good => TalkInv BY DEF Good
<1> QED BY <1>1, <1>2, <1>3, PTL DEF Spec

\* The loops, the waiters and the slot of all the runs implement ChatPromise: one chat
\* is live at a time, none comes back to life, and what it writes was agreed to.
THEOREM PromiseKept == Spec => KeepsPromise
<1>1. Init => Promise!Init BY InitSeen
<1>2. ASSUME IInv, TalkInv, [Next]_vars PROVE [Promise!Next]_Promise!vars
  BY <1>2, NextSeen DEF Good, Seen, Promise!vars
<1> QED BY <1>1, <1>2, Invariance, TalkInvariance, PTL DEF Spec, KeepsPromise, Promise!Spec
=============================================================================

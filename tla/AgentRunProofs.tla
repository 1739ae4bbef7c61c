--------------------------- MODULE AgentRunProofs ---------------------------
(* Proofs of the safety properties of AgentRun.                            *)
EXTENDS AgentRun, TLAPS

IInv == TypeOK /\ SafetyInv

\* What run emits keeps the stream a sequence of requests and Nones.
LEMMA EventsType ==
    ASSUME NEW s \in Seq(Requests \cup {None}), NEW t \in Seq(Requests \cup {None})
    PROVE  s \o t \in Seq(Requests \cup {None})
OBVIOUS

\* Where the loop goes on, or the run returns, nothing but its progress changes.
LEMMA NextStepType ==
    ASSUME TypeOK, NEW r \in Runs, NEW evs \in Seq(Requests \cup {None}),
           NextStep(r, evs) \/ Ends(r, evs)
    PROVE  /\ pc' \in [Runs -> Pcs]
           /\ step' \in [Runs -> 0..MaxSteps]
           /\ events' \in Seq(Requests \cup {None})
           /\ pc'[r] \in {"ended", "thinking"}
           /\ pc'[r] = "thinking" => step'[r] # 0
           /\ \A q \in Runs \ {r} : pc'[q] = pc[q] /\ step'[q] = step[q]
<1> USE AgentAssumption
<1>1. Append(evs, None) \in Seq(Requests \cup {None})
  OBVIOUS
<1>2. \A t \in Seq(Requests \cup {None}) :
         Ends(r, t) => /\ pc' \in [Runs -> Pcs]
                       /\ step' \in [Runs -> 0..MaxSteps]
                       /\ events' \in Seq(Requests \cup {None})
                       /\ pc'[r] = "ended"
                       /\ \A q \in Runs \ {r} : pc'[q] = pc[q] /\ step'[q] = step[q]
  BY EventsType DEF TypeOK, Ends, Pcs
<1>3. CASE Ends(r, evs)
  BY <1>2, <1>3
<1>4. CASE abort /\ Ends(r, Append(evs, None))
  BY <1>1, <1>2, <1>4
<1>5. CASE /\ ~abort /\ step[r] < MaxSteps
           /\ step' = [step EXCEPT ![r] = @ + 1]
           /\ pc' = [pc EXCEPT ![r] = "thinking"]
           /\ events' = events \o evs
  <2>1. events' \in Seq(Requests \cup {None})
    BY <1>5, EventsType DEF TypeOK
  <2>2. /\ step[r] + 1 \in 0..MaxSteps
        /\ step[r] + 1 # 0
    BY <1>5 DEF TypeOK
  <2> QED
    BY <1>5, <2>1, <2>2 DEF TypeOK, Pcs
<1> QED
  BY <1>3, <1>4, <1>5 DEF NextStep

\* A run that does not wait for an answer goes on, or returns.
LEMMA LoopStep ==
    ASSUME IInv, NEW r \in Runs, NEW evs \in Seq(Requests \cup {None}),
           NextStep(r, evs) \/ Ends(r, evs),
           pc[r] # "confirming" \/ answer[r] # None,
           UNCHANGED <<abort, confirms, answer, answers, stopping, panelVars,
                       agreed, ran, stopped>>
    PROVE  IInv'
<1>1. /\ pc' \in [Runs -> Pcs]
      /\ step' \in [Runs -> 0..MaxSteps]
      /\ events' \in Seq(Requests \cup {None})
      /\ pc'[r] \in {"ended", "thinking"}
      /\ pc'[r] = "thinking" => step'[r] # 0
      /\ \A q \in Runs \ {r} : pc'[q] = pc[q] /\ step'[q] = step[q]
  BY NextStepType DEF IInv
<1>2. TypeOK'
  BY <1>1 DEF IInv, TypeOK, panelVars
<1>3. WaitInv'
  <2>1. \A q \in confirms : q[1] \in Runs /\ q[1] # r
    BY DEF IInv, SafetyInv, WaitInv, TypeOK, Requests
  <2> QED
    BY <1>1, <2>1 DEF IInv, SafetyInv, WaitInv, Request
<1>4. YesInv'
  BY <1>1 DEF IInv, SafetyInv, YesInv, Request
<1>5. StopInv' /\ ran' \subseteq agreed'
  BY DEF IInv, SafetyInv, StopInv
<1> QED
  BY <1>2, <1>3, <1>4, <1>5 DEF IInv, SafetyInv

\* The actions that leave the runtime alone, but for a call on its way.
LEMMA PanelStep ==
    ASSUME IInv, UNCHANGED <<runtimeVars, ran, stopped>>,
           events' \in Seq(Requests \cup {None}),
           answers' = answers, agreed' = agreed,
           stopping' \in BOOLEAN, mounted' \in BOOLEAN, busy' \in BOOLEAN,
           attached' \subseteq Runs,
           pending' \in Requests \cup {None}, appPending' \in Requests \cup {None}
    PROVE  IInv'
BY DEF IInv, TypeOK, SafetyInv, WaitInv, YesInv, StopInv, Request, runtimeVars

\* The handling of an event.
LEMMA HandleType ==
    ASSUME TypeOK, HandleStep \/ HandleOther
    PROVE  /\ events' \in Seq(Requests \cup {None})
           /\ pending' \in Requests \cup {None}
           /\ appPending' \in Requests \cup {None}
<1>1. events \in Seq(Requests \cup {None}) /\ events # <<>>
  BY DEF TypeOK, HandleStep, HandleOther
<1>2. /\ Head(events) \in Requests \cup {None}
      /\ Tail(events) \in Seq(Requests \cup {None})
  BY <1>1
<1> QED
  BY <1>2 DEF TypeOK, HandleStep, HandleOther, Shows

THEOREM Inductive == IInv /\ [Next]_vars => IInv'
<1> SUFFICES ASSUME IInv, [Next]_vars PROVE IInv'
  OBVIOUS
<1> USE AgentAssumption
<1>0. /\ <<>> \in Seq(Requests \cup {None})
      /\ <<None>> \in Seq(Requests \cup {None})
  OBVIOUS
<1>1. ASSUME NEW r \in Runs, Begin(r) PROVE IInv'
  <2>1. TypeOK'
    BY <1>1 DEF Begin, IInv, TypeOK, Pcs, panelVars
  <2> QED
    BY <1>1, <2>1 DEF Begin, IInv, TypeOK, SafetyInv, WaitInv, YesInv, StopInv, Request,
                     panelVars
<1>2. ASSUME NEW r \in Runs, EnterLoop(r) PROVE IInv'
  BY <1>0, <1>2, LoopStep DEF EnterLoop
<1>3. ASSUME NEW r \in Runs, ReplyEnds(r) PROVE IInv'
  BY <1>0, <1>3, LoopStep DEF ReplyEnds
<1>4. ASSUME NEW r \in Runs, ReplyTool(r) PROVE IInv'
  BY <1>0, <1>4, LoopStep DEF ReplyTool
<1>5. ASSUME NEW r \in Runs, ReplyCommand(r) PROVE IInv'
  <2>1. Request(r) \in Requests
    BY <1>5 DEF ReplyCommand, IInv, TypeOK, SafetyInv, WaitInv, Request, Requests
  <2>2. events' \in Seq(Requests \cup {None})
    BY <1>5, <2>1 DEF ReplyCommand, IInv, TypeOK
  <2>3. TypeOK'
    BY <1>5, <2>1, <2>2 DEF ReplyCommand, IInv, TypeOK, Pcs, panelVars
  <2>4. \A q \in confirms : q[1] \in Runs /\ q[1] # r
    BY <1>5 DEF ReplyCommand, IInv, SafetyInv, WaitInv, TypeOK, Requests
  <2>5. WaitInv'
    BY <1>5, <2>4 DEF ReplyCommand, IInv, TypeOK, SafetyInv, WaitInv, Request
  <2>6. YesInv'
    <3>1. answer'[r] # "yes"
      BY <1>5 DEF ReplyCommand, IInv, TypeOK, AgentAssumption
    <3> QED
      BY <1>5, <3>1 DEF ReplyCommand, IInv, TypeOK, SafetyInv, YesInv, Request
  <2>7. StopInv' /\ ran' \subseteq agreed'
    BY <1>5 DEF ReplyCommand, IInv, SafetyInv, StopInv
  <2> QED
    BY <2>3, <2>5, <2>6, <2>7 DEF IInv, SafetyInv
<1>6. ASSUME NEW r \in Runs, Execute(r) PROVE IInv'
  <2>1. CASE Ends(r, <<None>>) /\ ran' = ran
    BY <1>0, <1>6, <2>1, LoopStep DEF Execute
  <2>2. CASE /\ pc' = [pc EXCEPT ![r] = "executing"]
             /\ ran' = ran \cup {Request(r)}
             /\ UNCHANGED <<step, events>>
    <3>1. Request(r) \in agreed
      BY <1>6 DEF Execute, Approved, IInv, SafetyInv, YesInv
    <3>2. TypeOK'
      BY <1>6, <2>2, <3>1 DEF Execute, IInv, TypeOK, Pcs, panelVars
    <3>3. \A q \in confirms : q[1] \in Runs /\ q[1] # r
      BY <1>6 DEF Execute, IInv, SafetyInv, WaitInv, TypeOK, Requests
    <3>4. WaitInv'
      BY <1>6, <2>2, <3>3 DEF Execute, IInv, TypeOK, SafetyInv, WaitInv, Request
    <3>5. YesInv' /\ StopInv' /\ ran' \subseteq agreed'
      BY <1>6, <2>2, <3>1 DEF Execute, IInv, TypeOK, SafetyInv, YesInv, StopInv, Request
    <3> QED
      BY <3>2, <3>4, <3>5 DEF IInv, SafetyInv
  <2> QED
    BY <1>6, <2>1, <2>2 DEF Execute
<1>7. ASSUME NEW r \in Runs, Cancel(r) PROVE IInv'
  BY <1>0, <1>7, LoopStep DEF Cancel
<1>8. ASSUME NEW r \in Runs, Executed(r) PROVE IInv'
  BY <1>0, <1>8, LoopStep DEF Executed
<1>9. CASE Abort
  <2>1. TypeOK'
    BY <1>9 DEF Abort, IInv, TypeOK, panelVars
  <2> QED
    BY <1>9, <2>1 DEF Abort, IInv, TypeOK, SafetyInv, WaitInv, YesInv, StopInv, Request
<1>10. ASSUME NEW q \in Requests, NEW a \in {"yes", "no"}, Resolve(q, a) PROVE IInv'
  <2>1. q[1] \in Runs
    BY DEF Requests
  <2>2. TypeOK'
    BY <1>10, <2>1 DEF Resolve, IInv, TypeOK, panelVars
  <2>3. WaitInv'
    <3>1. \A p \in confirms' : p \in confirms /\ answer'[p[1]] = answer[p[1]]
      <4> SUFFICES ASSUME NEW p \in confirms'
                   PROVE  p \in confirms /\ answer'[p[1]] = answer[p[1]]
        OBVIOUS
      <4>1. p \in confirms /\ (q \in confirms => p # q)
        BY <1>10 DEF Resolve
      <4>2. \A c \in confirms : c[1] \in Runs /\ c = Request(c[1])
        BY DEF IInv, TypeOK, SafetyInv, WaitInv, Requests
      <4>3. q \in confirms => p[1] # q[1]
        BY <4>1, <4>2
      <4> QED
        BY <1>10, <2>1, <4>1, <4>2, <4>3 DEF Resolve, IInv, TypeOK
    <3>2. ASSUME NEW r \in Runs, pc[r] = "confirming", answer'[r] = None
          PROVE  Request(r) \in confirms'
      <4>1. a # None
        BY AgentAssumption
      <4>2. answer[r] = None /\ (q \in confirms => r # q[1])
        BY <1>10, <2>1, <3>2, <4>1 DEF Resolve, IInv, TypeOK
      <4>3. Request(r) \in confirms
        BY <3>2, <4>2 DEF IInv, SafetyInv, WaitInv
      <4>4. Request(r)[1] = r
        BY DEF Request
      <4> QED
        BY <1>10, <4>2, <4>3, <4>4 DEF Resolve
    <3> QED
      BY <1>10, <3>1, <3>2 DEF Resolve, IInv, SafetyInv, WaitInv, Request
  <2>4. YesInv'
    <3>1. a = "yes" => q \in agreed
      BY <1>10 DEF Resolve, IInv, SafetyInv, YesInv
    <3>2. q \in confirms => q = Request(q[1])
      BY DEF IInv, SafetyInv, WaitInv
    <3> QED
      BY <1>10, <2>1, <3>1, <3>2 DEF Resolve, IInv, TypeOK, SafetyInv, YesInv, Request
  <2>5. StopInv' /\ ran' \subseteq agreed'
    BY <1>10 DEF Resolve, IInv, SafetyInv, StopInv
  <2> QED
    BY <2>2, <2>3, <2>4, <2>5 DEF IInv, SafetyInv
<1>11. ASSUME NEW r \in Runs, Send(r) PROVE IInv'
  <2>1. TypeOK'
    BY <1>11 DEF Send, Shows, IInv, TypeOK, Pcs
  <2> QED
    BY <1>11, <2>1 DEF Send, IInv, TypeOK, SafetyInv, WaitInv, YesInv, StopInv, Request
<1>12. CASE HandleStep \/ HandleOther
  <2>1. TypeOK
    BY DEF IInv
  <2> QED
    BY <1>12, <2>1, HandleType, PanelStep DEF HandleStep, HandleOther, TypeOK
<1>13. ASSUME NEW r \in Runs, ChatReturns(r) PROVE IInv'
  <2>1. TypeOK'
    BY <1>13 DEF ChatReturns, Shows, IInv, TypeOK, Pcs
  <2> QED
    BY <1>13, <2>1 DEF ChatReturns, IInv, TypeOK, SafetyInv, WaitInv, YesInv, StopInv,
                      Request
<1>14. ASSUME NEW a \in {"yes", "no"}, Answer(a) PROVE IInv'
  <2>1. pending \in Requests
    BY <1>14 DEF Answer, IInv, TypeOK
  <2>2. TypeOK'
    BY <1>14, <2>1 DEF Answer, Shows, IInv, TypeOK, runtimeVars
  <2> QED
    BY <1>14, <2>1, <2>2 DEF Answer, IInv, SafetyInv, WaitInv, YesInv, StopInv, Request,
                            runtimeVars
<1>15. CASE Stop \/ Hide \/ Show
  BY <1>15, PanelStep DEF Stop, Hide, Show, IInv, TypeOK, runtimeVars, panelVars
<1>16. CASE UNCHANGED vars
  BY <1>16, PanelStep DEF vars, panelVars, IInv, TypeOK
<1> QED
  BY <1>1, <1>2, <1>3, <1>4, <1>5, <1>6, <1>7, <1>8, <1>9, <1>10, <1>11, <1>12, <1>13,
     <1>14, <1>15, <1>16 DEF Next, RunSteps, Calls, Panel

\* IInv holds throughout.
LEMMA Invariance == Spec => []IInv
<1>1. Init => IInv
  <2> SUFFICES ASSUME Init PROVE IInv
    OBVIOUS
  <2> USE AgentAssumption DEF Init
  <2>1. TypeOK
    <3>1. step \in [Runs -> 0..MaxSteps]
      BY DEF AgentAssumption
    <3>2. events \in Seq(Requests \cup {None})
      OBVIOUS
    <3>3. pc \in [Runs -> Pcs] /\ stopped \in [Runs -> Pcs \cup {None}]
      BY DEF Pcs
    <3> QED
      BY <3>1, <3>2, <3>3 DEF TypeOK
  <2>2. SafetyInv
    BY DEF SafetyInv, WaitInv, YesInv, StopInv
  <2> QED
    BY <2>1, <2>2 DEF IInv
<1> QED
  BY <1>1, Inductive, PTL DEF Spec

\* Every variable keeps its type, for any number of runs and steps.
THEOREM TypeCorrect == Spec => []TypeOK
<1>1. IInv => TypeOK
  BY DEF IInv
<1> QED
  BY <1>1, Invariance, PTL

\* No run of the agent executes a command that the user did not agree to.
THEOREM CommandsAreApproved == Spec => []RanWithApproval
<1>1. IInv => RanWithApproval
  BY DEF IInv, SafetyInv, RanWithApproval
<1> QED
  BY <1>1, Invariance, PTL

\* A run that was stopped executes nothing more until another one is started.
THEOREM StopsHold == Spec => StopHolds
<1>1. IInv /\ [Next]_vars =>
        [\A r \in Runs :
            stopped[r] # None => ran' \cap ({r} \X (1..MaxSteps)) \subseteq ran]_vars
  <2> SUFFICES ASSUME IInv, Next, NEW r \in Runs, stopped[r] # None
               PROVE  ran' \cap ({r} \X (1..MaxSteps)) \subseteq ran
    OBVIOUS
  <2>1. abort
    BY DEF IInv, SafetyInv, StopInv
  <2>2. \A q \in Runs : ~Execute(q)
    BY <2>1 DEF Execute, Approved
  <2>3. ran' = ran
    BY <2>2 DEF Next, RunSteps, Calls, Panel, Begin, EnterLoop, ReplyEnds, ReplyTool,
               ReplyCommand, Cancel, Executed, ChatReturns, Abort, Resolve, Send,
               HandleStep, HandleOther, Answer, Stop, Hide, Show
  <2> QED
    BY <2>3
<1> QED
  BY <1>1, Invariance, PTL DEF Spec, StopHolds

-----------------------------------------------------------------------------
(* AgentRun implements ConsentPromise                                      *)

\* A request that came up stays so: the step of a run only grows.
LEMMA CameUpStays ==
    ASSUME IInv, Next, NEW q \in Requests, CameUp(q)
    PROVE  CameUp(q)'
<1> USE AgentAssumption DEF IInv, TypeOK, CameUp, Request
<1>0. q[1] \in Runs /\ q[2] \in 1..MaxSteps
  BY DEF Requests
<1>1. ASSUME NEW r \in Runs, NEW evs, NextStep(r, evs) \/ Ends(r, evs)
      PROVE  CameUp(q)'
  <2>1. /\ step' = step \/ step' = [step EXCEPT ![r] = @ + 1]
        /\ \A p \in Runs \ {r} : pc'[p] = pc[p] /\ step'[p] = step[p]
        /\ \/ pc'[r] = "ended" /\ step'[r] = step[r]
           \/ step'[r] = step[r] + 1
    BY <1>1 DEF NextStep, Ends
  <2>2. CASE q[1] = r
    BY <1>0, <2>1, <2>2
  <2>3. CASE q[1] # r
    BY <1>0, <2>1, <2>3
  <2> QED
    BY <2>2, <2>3
<1>2. ASSUME NEW r \in Runs, RunSteps(r) PROVE CameUp(q)'
  BY <1>0, <1>1, <1>2 DEF RunSteps, Begin, EnterLoop, ReplyEnds, ReplyTool, ReplyCommand, Execute,
     Cancel, Executed, ChatReturns
<1>3. CASE Calls
  BY <1>3 DEF Calls, Abort, Resolve
<1>4. CASE Panel
  BY <1>0, <1>4 DEF Panel, Send, HandleStep, HandleOther, Answer, Stop, Hide, Show, runtimeVars
<1> QED
  BY <1>2, <1>3, <1>4 DEF Next

\* A request enters the stream only where its run asks.
LEMMA StreamGrows ==
    ASSUME TypeOK, Next
    PROVE  \A i \in 1..Len(events') :
              \/ events'[i] = None
              \/ \E j \in 1..Len(events) : events'[i] = events[j]
              \/ \E r \in Runs : ReplyCommand(r) /\ events'[i] = Request(r)
<1> USE AgentAssumption DEF TypeOK
<1> DEFINE Grows == \A i \in 1..Len(events') :
                       \/ events'[i] = None
                       \/ \E j \in 1..Len(events) : events'[i] = events[j]
                       \/ \E r \in Runs : ReplyCommand(r) /\ events'[i] = Request(r)
<1>1. ASSUME NEW r \in Runs, NEW evs \in Seq({None}), Ends(r, evs) \/ NextStep(r, evs)
      PROVE  Grows
  <2>1. Append(evs, None) \in Seq({None})
    OBVIOUS
  <2>2. \E t \in Seq({None}) : events' = events \o t
    BY <1>1, <2>1 DEF NextStep, Ends
  <2> QED
    BY <2>2
<1>2. CASE events' = events
  BY <1>2
<1>3. ASSUME NEW r \in Runs, ReplyCommand(r) PROVE Grows
  <2>1. events' = Append(events, Request(r))
    BY <1>3 DEF ReplyCommand
  <2> QED
    BY <1>3, <2>1
<1>4. CASE events # <<>> /\ events' = Tail(events)
  BY <1>4
<1>5. ASSUME NEW r \in Runs, RunSteps(r) PROVE Grows
  <2>1. CASE events' = events \/ ReplyCommand(r)
    BY <1>2, <1>3, <2>1
  <2>2. CASE events' # events /\ ~ReplyCommand(r)
    <3>1. <<>> \in Seq({None}) /\ <<None>> \in Seq({None})
      OBVIOUS
    <3>2. \E evs \in {<<>>, <<None>>} : Ends(r, evs) \/ NextStep(r, evs)
      BY <1>5, <2>2
      DEF RunSteps, Begin, EnterLoop, ReplyEnds, ReplyTool, Execute, Cancel, Executed,
         ChatReturns
    <3> QED
      BY <1>1, <3>1, <3>2
  <2> QED
    BY <2>1, <2>2
<1>6. CASE Calls \/ Panel
  BY <1>2, <1>4, <1>6
  DEF Calls, Panel, Abort, Resolve, Send, HandleStep, HandleOther, Answer, Stop,
     Hide, Show
<1> QED
  BY <1>5, <1>6 DEF Next

\* The screen shows what the stream or the copy in the App holds.
LEMMA ScreenShows ==
    ASSUME TypeOK, Next, NEW q \in {pending', appPending'} \ {None}
    PROVE  q \in {pending, appPending} \/ \E i \in 1..Len(events) : q = events[i]
<1>1. ASSUME NEW r \in Runs, RunSteps(r) PROVE q \in {pending, appPending}
  BY <1>1 DEF RunSteps, Begin, EnterLoop, ReplyEnds, ReplyTool, ReplyCommand, Execute, Cancel,
     Executed, ChatReturns, Shows, panelVars
<1>2. CASE Calls
  BY <1>2 DEF Calls, Abort, Resolve, panelVars
<1>3. CASE HandleStep
  BY <1>3 DEF HandleStep, Shows, TypeOK
<1>4. CASE Panel /\ ~HandleStep
  BY <1>4 DEF Panel, Send, HandleOther, Answer, Stop, Hide, Show, Shows, panelVars
<1> QED
  BY <1>1, <1>2, <1>3, <1>4 DEF Next, Panel

\* A run waits for an answer only because it just asked, or waited already.
LEMMA WaitsOnceAsked ==
    ASSUME TypeOK, Next, NEW r \in Runs, pc'[r] = "confirming"
    PROVE  ReplyCommand(r) \/ (pc[r] = "confirming" /\ step'[r] = step[r])
<1> USE DEF TypeOK
<1>1. ASSUME NEW p \in Runs, NEW evs, NextStep(p, evs) \/ Ends(p, evs)
      PROVE  pc[r] = "confirming" /\ step'[r] = step[r]
  BY <1>1 DEF NextStep, Ends
<1>2. ASSUME NEW p \in Runs, RunSteps(p)
      PROVE  ReplyCommand(r) \/ (pc[r] = "confirming" /\ step'[r] = step[r])
  <2>1. CASE ReplyCommand(p)
    <3>1. p # r => pc'[r] = pc[r] /\ step'[r] = step[r]
      BY <2>1 DEF ReplyCommand
    <3> QED
      BY <2>1, <3>1
  <2>2. CASE \/ Begin(p) \/ ChatReturns(p)
             \/ pc' = [pc EXCEPT ![p] = "executing"] /\ step' = step
    BY <2>2 DEF Begin, ChatReturns
  <2>3. CASE EnterLoop(p) \/ ReplyEnds(p) \/ ReplyTool(p) \/ Executed(p) \/ Cancel(p)
    BY <1>1, <2>3 DEF EnterLoop, ReplyEnds, ReplyTool, Executed, Cancel
  <2>4. CASE Execute(p)
    BY <1>1, <2>2, <2>4 DEF Execute
  <2> QED
    BY <1>2, <2>1, <2>2, <2>3, <2>4 DEF RunSteps
<1>3. CASE Calls \/ Panel
  BY <1>3
  DEF Calls, Panel, Abort, Resolve, Send, HandleStep, HandleOther, Answer, Stop, Hide, Show,
     runtimeVars
<1> QED
  BY <1>2, <1>3 DEF Next

\* A command is executed where its run was answered; later the run asks another.
LEMMA RanStep ==
    ASSUME IInv, UpInv, Next, NEW q \in ran'
    PROVE  CameUp(q)' /\ (q = Request(q[1]) => pc[q[1]] # "confirming")'
<1> USE AgentAssumption DEF IInv, TypeOK, CameUp, Request
<1>0. q \in Requests /\ q[1] \in Runs /\ q[2] \in 1..MaxSteps
  BY Inductive DEF Requests
<1>1. ASSUME NEW r \in Runs, Execute(r), q \notin ran
      PROVE  CameUp(q)' /\ (q = Request(q[1]) => pc[q[1]] # "confirming")'
  BY <1>0, <1>1 DEF Execute, Ends
<1>2. CASE q \in ran
  <2>1. CameUp(q)'
    BY <1>0, <1>2, CameUpStays DEF UpInv
  <2>2. CASE \E r \in Runs : ReplyCommand(r)
    BY <1>0, <1>2, <2>2 DEF ReplyCommand, UpInv
  <2>3. CASE ~\E r \in Runs : ReplyCommand(r)
    <3>1. pc'[q[1]] = "confirming" => pc[q[1]] = "confirming" /\ step'[q[1]] = step[q[1]]
      BY <1>0, <2>3, WaitsOnceAsked
    <3> QED
      BY <1>2, <2>1, <3>1 DEF UpInv
  <2> QED
    BY <2>1, <2>2, <2>3
<1>3. CASE q \notin ran /\ \A r \in Runs : ~Execute(r)
  <2>1. ran' = ran
    BY <1>3
    DEF Next, RunSteps, Calls, Panel, Begin, EnterLoop, ReplyEnds, ReplyTool, ReplyCommand,
       Cancel, Executed, ChatReturns, Abort, Resolve, Send, HandleStep, HandleOther, Answer, Stop,
       Hide, Show
  <2> QED
    BY <1>3, <2>1
<1> QED
  BY <1>1, <1>2, <1>3

\* Nothing is shown, agreed to or executed that its run did not ask for.
LEMMA UpInvariance == Spec => []UpInv
<1>1. Init => UpInv
  BY DEF Init, UpInv
<1>2. IInv /\ IInv' /\ UpInv /\ [Next]_vars => UpInv'
  <2> SUFFICES ASSUME IInv, IInv', UpInv, [Next]_vars PROVE UpInv'
    OBVIOUS
  <2>1. CASE UNCHANGED vars
    BY <2>1 DEF vars, runtimeVars, panelVars, UpInv, CameUp, Request
  <2>2. CASE Next
    <3>1. \A q \in Requests : CameUp(q) => CameUp(q)'
      BY <2>2, CameUpStays
    <3>2. ASSUME NEW i \in 1..Len(events'), events'[i] # None PROVE CameUp(events[i])'
      <4>1. PICK q \in Requests : q = events'[i]
        BY <3>2 DEF IInv, TypeOK
      <4>2. ASSUME \E j \in 1..Len(events) : events'[i] = events[j] PROVE CameUp(q)'
        BY <3>1, <3>2, <4>1, <4>2 DEF UpInv
      <4>3. ASSUME NEW r \in Runs, ReplyCommand(r), events'[i] = Request(r)
            PROVE  CameUp(q)'
        BY <4>1, <4>3 DEF ReplyCommand, CameUp, Request, IInv, TypeOK
      <4>4. \/ \E j \in 1..Len(events) : events'[i] = events[j]
            \/ \E r \in Runs : ReplyCommand(r) /\ events'[i] = Request(r)
        BY <2>2, <3>2, StreamGrows DEF IInv
      <4>5. CameUp(q)'
        BY <4>2, <4>3, <4>4
      <4> QED
        BY <4>1, <4>5 DEF CameUp, Request
    <3>3. ASSUME NEW q \in {pending', appPending'} \ {None} PROVE CameUp(q)'
      <4>1. q \in Requests
        BY DEF IInv, TypeOK
      <4>2. q \in {pending, appPending} \/ \E i \in 1..Len(events) : q = events[i]
        BY <2>2, ScreenShows DEF IInv
      <4>3. CameUp(q)
        BY <4>2 DEF UpInv
      <4> QED
        BY <3>1, <4>1, <4>3
    <3>4. \A q \in ran' : CameUp(q)' /\ (q = Request(q[1]) => pc[q[1]] # "confirming")'
      BY <2>2, RanStep
    <3> QED
      BY <3>2, <3>3, <3>4 DEF UpInv
  <2> QED
    BY <2>1, <2>2
<1> QED
  BY <1>1, <1>2, Invariance, PTL DEF Spec

\* The stages of a state that ConsentPromise knows.
LEMMA StageFacts ==
    ASSUME IInv, UpInv, NEW q \in Requests
    PROVE  LET r == q[1] IN
           /\ ~CameUp(q) => Stage(q) = "new"
           /\ CameUp(q) => Stage(q) # "new"
           /\ q = Request(r) /\ pc[r] = "confirming" =>
                 /\ answer[r] = None => Stage(q) = "asked"
                 /\ answer[r] = "yes" => Stage(q) = "granted"
                 /\ answer[r] = "no" => Stage(q) = "over"
           /\ CameUp(q) /\ ~(q = Request(r) /\ pc[r] = "confirming") =>
                 Stage(q) = IF q \in ran THEN "executed" ELSE "over"
BY AgentAssumption DEF IInv, TypeOK, UpInv, Stage, CameUp, Request

\* A request keeps its stage where its run stands still.
LEMMA StageKept ==
    ASSUME NEW q \in Requests,
           UNCHANGED <<pc[q[1]], step[q[1]], answer[q[1]]>>, q \in ran' <=> q \in ran
    PROVE  Stage(q)' = Stage(q)
BY DEF Stage, CameUp, Request

\* What the promise sees of a step that moves one request.
LEMMA OneMoves ==
    ASSUME NEW q \in Requests, NEW s,
           \A p \in Requests : Stage(p)' = IF p = q THEN s ELSE Stage(p)
    PROVE  Promise!Becomes(q, s)
BY DEF Promise!Becomes

\* ... and of one that moves none.
LEMMA NoneMoves ==
    ASSUME \A p \in Requests : Stage(p)' = Stage(p)
    PROVE  [p \in Requests |-> Stage(p)]' = [p \in Requests |-> Stage(p)]
OBVIOUS

LEMMA SameRequests == Promise!Requests = Requests
BY DEF Promise!Requests, Requests

LEMMA InitMaps == Init => Promise!Init
<1> SUFFICES ASSUME Init PROVE Promise!Init
  OBVIOUS
<1>1. \A q \in Requests : Stage(q) = "new"
  BY AgentAssumption DEF Init, Stage, CameUp, Request, Requests
<1> QED
  BY <1>1, SameRequests DEF Promise!Init, Init

\* The loop goes on or ends: the request of its step is settled.
LEMMA LoopSettles ==
    ASSUME IInv, UpInv, NEW r \in Runs, NEW evs, NextStep(r, evs) \/ Ends(r, evs),
           UNCHANGED <<answer, ran>>
    PROVE  \A q \in Requests :
              Stage(q)' = IF q = Request(r) THEN IF q \in ran THEN "executed" ELSE "over"
                          ELSE Stage(q)
<1> SUFFICES ASSUME NEW q \in Requests
             PROVE  Stage(q)' = IF q = Request(r) THEN IF q \in ran THEN "executed" ELSE "over"
                                ELSE Stage(q)
  OBVIOUS
<1> USE AgentAssumption DEF IInv, TypeOK
<1>0. q[1] \in Runs /\ q[2] \in 1..MaxSteps /\ q = <<q[1], q[2]>>
  BY DEF Requests
<1>1. /\ \A p \in Runs \ {r} : pc'[p] = pc[p] /\ step'[p] = step[p]
      /\ \/ pc'[r] = "ended" /\ step'[r] = step[r]
         \/ pc'[r] = "thinking" /\ step'[r] = step[r] + 1
  BY DEF NextStep, Ends
<1>2. CASE q[1] # r
  BY <1>0, <1>1, <1>2, StageKept DEF Request
<1>3. CASE q[1] = r /\ q[2] = step[r]
  BY <1>0, <1>1, <1>3 DEF Stage, CameUp, Request
<1>4. CASE q[1] = r /\ q[2] < step[r]
  BY <1>0, <1>1, <1>4 DEF Stage, CameUp, Request
<1>5. CASE q[1] = r /\ q[2] > step[r]
  BY <1>0, <1>1, <1>5 DEF Stage, CameUp, Request
<1> QED
  BY <1>0, <1>2, <1>3, <1>4, <1>5

\* A run that moves on while it neither waits nor thinks moves no request.
LEMMA QuietLoop ==
    ASSUME IInv, UpInv, NEW r \in Runs, pc[r] \notin {"thinking", "confirming"},
           NEW evs, NextStep(r, evs) \/ Ends(r, evs), UNCHANGED <<answer, ran>>
    PROVE  \A q \in Requests : Stage(q)' = Stage(q)
<1>1. \A q \in Requests : q = Request(r) => Stage(q) = IF q \in ran THEN "executed" ELSE "over"
  BY DEF Stage, CameUp, Request
<1> QED
  BY <1>1, LoopSettles

\* A thinking run that asks nothing passes; with no request left it is quiet.
LEMMA ThinkingPasses ==
    ASSUME IInv, UpInv, NEW r \in Runs, pc[r] = "thinking",
           NEW evs, NextStep(r, evs) \/ Ends(r, evs),
           UNCHANGED <<answer, ran, agreed, stopped>>
    PROVE  Promise!Pass(Request(r)) /\ Request(r) \in Requests
<1>1. Request(r) \in Requests
  BY AgentAssumption DEF IInv, TypeOK, SafetyInv, WaitInv, Request, Requests
<1>2. ~CameUp(Request(r))
  BY AgentAssumption DEF IInv, TypeOK, CameUp, Request
<1>3. Stage(Request(r)) = "new" /\ Request(r) \notin ran
  BY <1>1, <1>2, StageFacts DEF UpInv
<1>4. \A q \in Requests : Stage(q)' = IF q = Request(r) THEN "over" ELSE Stage(q)
  BY <1>3, LoopSettles
<1>5. Promise!Becomes(Request(r), "over")
  BY <1>1, <1>4, OneMoves
<1> QED
  BY <1>1, <1>3, <1>5 DEF Promise!Pass

\* A step of a run that neither thinks nor waits, before or after, moves none.
LEMMA QuietRun ==
    ASSUME IInv, NEW r \in Runs, NEW s, pc' = [pc EXCEPT ![r] = s],
           {pc[r], s} \cap {"thinking", "confirming"} = {}, UNCHANGED <<step, answer, ran>>
    PROVE  \A q \in Requests : Stage(q)' = Stage(q)
<1> SUFFICES ASSUME NEW q \in Requests PROVE Stage(q)' = Stage(q)
  OBVIOUS
<1>1. CASE q[1] = r
  BY <1>1 DEF IInv, TypeOK, Stage, CameUp, Request
<1>2. CASE q[1] # r
  BY <1>2, StageKept DEF IInv, TypeOK
<1> QED
  BY <1>1, <1>2

LEMMA AskMaps ==
    ASSUME IInv, UpInv, NEW r \in Runs, ReplyCommand(r)
    PROVE  Promise!Ask(Request(r)) /\ Request(r) \in Requests
<1> USE AgentAssumption
<1> DEFINE q == Request(r)
<1>1. q \in Requests /\ q[1] = r /\ q[2] = step[r]
  BY DEF ReplyCommand, IInv, TypeOK, SafetyInv, WaitInv, Request, Requests
<1>2. /\ pc[r] = "thinking" /\ pc'[r] = "confirming" /\ answer'[r] = None
      /\ step' = step /\ ran' = ran /\ agreed' = agreed /\ stopped' = stopped
      /\ \A p \in Runs \ {r} : pc'[p] = pc[p] /\ answer'[p] = answer[p]
  BY DEF ReplyCommand, IInv, TypeOK
<1>3. Stage(q) = "new"
  <2>1. ~(q[2] < step[q[1]])
    BY <1>1 DEF IInv, TypeOK
  <2>2. ~CameUp(q)
    BY <1>1, <1>2, <2>1 DEF CameUp
  <2> QED
    BY <1>1, <2>2, StageFacts
<1>4. ASSUME NEW p \in Requests PROVE Stage(p)' = IF p = q THEN "asked" ELSE Stage(p)
  <2>1. CASE p[1] # r
    <3>1. p # q /\ p[1] \in Runs
      BY <1>1, <2>1 DEF Requests
    <3> QED
      BY <1>2, <2>1, <3>1, StageKept
  <2>2. CASE p[1] = r /\ p[2] = step[r]
    BY <1>1, <1>2, <2>2 DEF IInv, TypeOK, Stage, CameUp, Request, Requests
  <2>3. CASE p[1] = r /\ p[2] # step[r]
    BY <1>1, <1>2, <2>3 DEF IInv, TypeOK, Stage, CameUp, Request, Requests
  <2> QED
    BY <2>1, <2>2, <2>3
<1>5. ASSUME NEW p \in Requests, p[1] = q[1], p[2] < q[2] PROVE Stage(p) \in {"executed", "over"}
  <2>1. CameUp(p)
    BY <1>1, <1>5 DEF CameUp
  <2>2. p[2] # step[p[1]]
    BY <1>1, <1>5 DEF Requests, IInv, TypeOK
  <2>3. p # Request(p[1])
    BY <2>2 DEF Request
  <2> QED
    BY <2>1, <2>3, StageFacts
<1>6. Promise!Becomes(q, "asked")
  BY <1>1, <1>4, OneMoves
<1> QED
  BY <1>1, <1>2, <1>3, <1>5, <1>6, SameRequests DEF Promise!Ask, Promise!Settled

LEMMA ExecuteMaps ==
    ASSUME IInv, UpInv, NEW r \in Runs, Execute(r)
    PROVE  (Promise!Execute(Request(r)) \/ Promise!Refuse(Request(r))) /\ Request(r) \in Requests
<1> USE AgentAssumption
<1> DEFINE q == Request(r)
<1>1. q \in Requests /\ q[1] = r /\ q[2] = step[r] /\ pc[r] = "confirming"
  BY DEF Execute, IInv, TypeOK, SafetyInv, WaitInv, Request, Requests
<1>2. Stage(q) = "granted" /\ q \notin ran /\ stopped[r] = None
  BY <1>1, StageFacts DEF Execute, Approved, UpInv, IInv, SafetyInv, StopInv
<1>3. CASE Ends(r, <<None>>) /\ ran' = ran
  <2>1. UNCHANGED <<answer, ran, agreed, stopped>>
    BY <1>3 DEF Execute
  <2>2. \A p \in Requests : Stage(p)' = IF p = q THEN "over" ELSE Stage(p)
    BY <1>2, <1>3, <2>1, LoopSettles
  <2>3. Promise!Becomes(q, "over")
    BY <1>1, <2>2, OneMoves
  <2> QED
    BY <1>1, <1>2, <2>1, <2>3 DEF Promise!Refuse
<1>4. CASE pc' = [pc EXCEPT ![r] = "executing"] /\ ran' = ran \cup {q} /\ step' = step
  <2>1. UNCHANGED <<answer, agreed, stopped>>
    BY DEF Execute
  <2>2. ASSUME NEW p \in Requests PROVE Stage(p)' = IF p = q THEN "executed" ELSE Stage(p)
    <3>1. CASE p[1] # r
      <4>1. p # q /\ p[1] \in Runs
        BY <1>1, <3>1 DEF Requests
      <4>2. pc'[p[1]] = pc[p[1]]
        BY <1>4, <3>1, <4>1 DEF IInv, TypeOK
      <4> QED
        BY <1>4, <2>1, <3>1, <4>1, <4>2, StageKept
    <3>2. CASE p[1] = r /\ p[2] = step[r]
      BY <1>1, <1>4, <2>1, <3>2 DEF IInv, TypeOK, Stage, CameUp, Request, Requests
    <3>3. CASE p[1] = r /\ p[2] # step[r]
      BY <1>1, <1>4, <2>1, <3>3 DEF IInv, TypeOK, Stage, CameUp, Request, Requests
    <3> QED
      BY <3>1, <3>2, <3>3
  <2>3. Promise!Becomes(q, "executed")
    BY <1>1, <2>2, OneMoves
  <2> QED
    BY <1>1, <1>2, <2>1, <2>3 DEF Promise!Execute
<1> QED
  BY <1>1, <1>3, <1>4 DEF Execute

LEMMA CancelMaps ==
    ASSUME IInv, UpInv, NEW r \in Runs, Cancel(r)
    PROVE  /\ Request(r) \in Requests
           /\ \/ Promise!Refuse(Request(r))
              \/ \A p \in Requests : Stage(p)' = Stage(p)
<1> USE AgentAssumption
<1> DEFINE q == Request(r)
<1>1. q \in Requests /\ pc[r] = "confirming" /\ q[1] = r
  BY DEF Cancel, IInv, TypeOK, SafetyInv, WaitInv, Request, Requests
<1>2. q \notin ran
  BY <1>1 DEF UpInv
<1>3. UNCHANGED <<answer, ran, agreed, stopped>> /\ Ends(r, <<None>>)
  BY DEF Cancel
<1>4. \A p \in Requests : Stage(p)' = IF p = q THEN "over" ELSE Stage(p)
  BY <1>2, <1>3, LoopSettles
<1>5. CASE answer[r] = "yes"
  <2>1. Stage(q) = "granted"
    BY <1>1, <1>5, StageFacts
  <2> QED
    BY <1>1, <1>3, <1>4, <2>1, OneMoves DEF Promise!Refuse
<1>6. CASE answer[r] = "no"
  <2>1. Stage(q) = "over"
    BY <1>1, <1>6, StageFacts
  <2> QED
    BY <1>1, <1>4, <2>1
<1> QED
  BY <1>5, <1>6 DEF Cancel, IInv, TypeOK

LEMMA StopMaps ==
    ASSUME IInv, UpInv, Abort
    PROVE  Promise!Stop
<1> USE AgentAssumption
<1>1. UNCHANGED <<pc, step, ran, agreed>>
  BY DEF Abort
<1>2. ASSUME NEW q \in Requests
      PROVE  /\ Stage(q)' = IF Stage(q) = "asked" THEN "over" ELSE Stage(q)
             /\ Stage(q) \in {"asked", "granted"} => stopped'[q[1]] # None
  <2>1. q[1] \in Runs
    BY DEF Requests
  <2>2. CASE q = Request(q[1]) /\ pc[q[1]] = "confirming"
    <3>1. answer'[q[1]] = IF q \in confirms THEN "no" ELSE answer[q[1]]
      BY <2>1, <2>2 DEF Abort, IInv, TypeOK
    <3>2. stopped'[q[1]] = "confirming" /\ "confirming" # None
      BY <2>1, <2>2 DEF Abort, Pcs
    <3>3. q \in confirms <=> answer[q[1]] = None
      BY <2>1, <2>2 DEF IInv, SafetyInv, WaitInv
    <3>4. answer[q[1]] \in {"yes", "no", None}
      BY <2>1 DEF IInv, TypeOK
    <3>5. CameUp(q) /\ CameUp(q)'
      BY <1>1, <2>2 DEF CameUp, Request
    <3> QED
      BY <1>1, <2>2, <3>1, <3>2, <3>3, <3>4, <3>5 DEF Stage, Request
  <2>3. CASE ~(q = Request(q[1]) /\ pc[q[1]] = "confirming")
    BY <1>1, <2>3 DEF Stage, CameUp, Request
  <2> QED
    BY <2>2, <2>3
<1>3. [q \in Requests |-> Stage(q)]'
        = [q \in Requests |-> IF Stage(q) = "asked" THEN "over" ELSE Stage(q)]
  BY <1>2
<1>4. \A q \in Requests : q[1] \in Runs
  BY DEF Requests
<1> QED
  BY <1>1, <1>2, <1>3, <1>4, SameRequests DEF Promise!Stop

LEMMA ResolveMaps ==
    ASSUME IInv, UpInv, NEW q \in Requests, NEW a \in {"yes", "no"}, Resolve(q, a)
    PROVE  \/ Promise!Grant(q) \/ Promise!Refuse(q)
           \/ \A p \in Requests : Stage(p)' = Stage(p)
<1> USE AgentAssumption
<1>0. UNCHANGED <<pc, step, ran, agreed, stopped>> /\ q[1] \in Runs
  BY DEF Resolve, Requests
<1>1. CASE q \notin confirms
  BY <1>0, <1>1, StageKept DEF Resolve
<1>2. CASE q \in confirms
  <2>1. q = Request(q[1]) /\ pc[q[1]] = "confirming" /\ answer[q[1]] = None
    BY <1>2 DEF IInv, SafetyInv, WaitInv
  <2>2. /\ answer'[q[1]] = a
        /\ \A p \in Runs \ {q[1]} : answer'[p] = answer[p]
    BY <1>0, <1>2 DEF Resolve, IInv, TypeOK
  <2>3. Stage(q) = "asked"
    BY <2>1, StageFacts
  <2>4. ASSUME NEW p \in Requests
        PROVE  Stage(p)' = IF p = q THEN IF a = "yes" THEN "granted" ELSE "over" ELSE Stage(p)
    <3>1. CASE p[1] # q[1]
      <4>1. p[1] \in Runs
        BY DEF Requests
      <4> QED
        BY <1>0, <2>2, <3>1, <4>1, StageKept
    <3>2. CASE p = q
      BY <1>0, <2>1, <2>2, <3>2 DEF IInv, TypeOK, Stage, CameUp, Request
    <3>3. CASE p[1] = q[1] /\ p # q
      <4>1. p # Request(p[1])
        BY <2>1, <3>3
      <4> QED
        BY <1>0, <3>3, <4>1 DEF Stage, CameUp, Request
    <3> QED
      BY <3>1, <3>2, <3>3
  <2>5. CASE a = "yes"
    <3>1. q \in agreed
      BY <2>5 DEF Resolve, IInv, SafetyInv, YesInv
    <3>2. Promise!Becomes(q, "granted")
      BY <2>4, <2>5, OneMoves
    <3> QED
      BY <1>0, <2>3, <3>1, <3>2 DEF Promise!Grant
  <2>6. CASE a = "no"
    <3>1. Promise!Becomes(q, "over")
      BY <2>4, <2>6, OneMoves
    <3> QED
      BY <1>0, <2>3, <3>1 DEF Promise!Refuse
  <2> QED
    BY <2>5, <2>6
<1> QED
  BY <1>1, <1>2

\* Each step of the runtime and the panel is one of the promise, or none.
LEMMA StepMaps == IInv /\ UpInv /\ [Next]_vars => [Promise!Next]_Promise!vars
<1> SUFFICES ASSUME IInv, UpInv, [Next]_vars PROVE [Promise!Next]_Promise!vars
  OBVIOUS
<1> USE AgentAssumption
<1>1. ASSUME NEW q \in Requests,
             \/ Promise!Ask(q) \/ Promise!Pass(q) \/ Promise!Agree(q) \/ Promise!Grant(q)
             \/ Promise!Refuse(q) \/ Promise!Execute(q)
      PROVE  Promise!Next
  BY <1>1, SameRequests DEF Promise!Next
<1>2. ASSUME \A q \in Requests : Stage(q)' = Stage(q), UNCHANGED <<agreed, stopped>>
      PROVE  UNCHANGED Promise!vars
  BY <1>2, NoneMoves DEF Promise!vars
<1>3. ASSUME NEW r \in Runs, Begin(r) PROVE Promise!Next
  <2>1. \A q \in Requests : Stage(q)' = Stage(q)
    BY <1>3, QuietRun DEF Begin
  <2>2. {p \in Runs : stopped'[p] # None} = {}
    BY <1>3 DEF Begin
  <2> QED
    BY <1>3, <2>1, <2>2, NoneMoves DEF Begin, Promise!Next, Promise!Start
<1>4. ASSUME NEW r \in Runs, EnterLoop(r) \/ Executed(r) PROVE UNCHANGED Promise!vars
  <2>1. \A q \in Requests : Stage(q)' = Stage(q)
    BY <1>4, QuietLoop DEF EnterLoop, Executed
  <2> QED
    BY <1>2, <1>4, <2>1 DEF EnterLoop, Executed
<1>5. ASSUME NEW r \in Runs, ReplyEnds(r) \/ ReplyTool(r) PROVE Promise!Next
  BY <1>1, <1>5, ThinkingPasses DEF ReplyEnds, ReplyTool
<1>6. ASSUME NEW r \in Runs, ReplyCommand(r) PROVE Promise!Next
  BY <1>1, <1>6, AskMaps
<1>7. ASSUME NEW r \in Runs, Execute(r) PROVE Promise!Next
  BY <1>1, <1>7, ExecuteMaps
<1>8. ASSUME NEW r \in Runs, Cancel(r) PROVE [Promise!Next]_Promise!vars
  <2>1. UNCHANGED <<agreed, stopped>>
    BY <1>8 DEF Cancel
  <2> QED
    BY <1>1, <1>2, <1>8, <2>1, CancelMaps
<1>9. CASE Abort
  BY <1>9, StopMaps DEF Promise!Next
<1>10. ASSUME NEW q \in Requests, NEW a \in {"yes", "no"}, Resolve(q, a)
       PROVE  [Promise!Next]_Promise!vars
  <2>1. UNCHANGED <<agreed, stopped>>
    BY <1>10 DEF Resolve
  <2> QED
    BY <1>1, <1>2, <1>10, <2>1, ResolveMaps
<1>11. ASSUME UNCHANGED <<pc, step, answer, ran>> PROVE \A q \in Requests : Stage(q)' = Stage(q)
  BY <1>11, StageKept
<1>12. ASSUME NEW r \in Runs, Send(r) \/ ChatReturns(r) PROVE UNCHANGED Promise!vars
  <2>1. \A q \in Requests : Stage(q)' = Stage(q)
    BY <1>12, QuietRun DEF Send, ChatReturns
  <2> QED
    BY <1>2, <1>12, <2>1 DEF Send, ChatReturns
<1>13. ASSUME NEW a \in {"yes", "no"}, Answer(a) PROVE [Promise!Next]_Promise!vars
  <2>1. \A q \in Requests : Stage(q)' = Stage(q)
    BY <1>11, <1>13 DEF Answer, runtimeVars
  <2>2. pending \in Requests /\ Stage(pending) # "new"
    BY <1>13, StageFacts DEF Answer, IInv, TypeOK, UpInv
  <2>3. CASE a = "yes"
    BY <1>1, <1>13, <2>1, <2>2, <2>3, NoneMoves DEF Answer, Promise!Agree
  <2>4. CASE a = "no"
    BY <1>2, <1>13, <2>1, <2>4 DEF Answer
  <2> QED
    BY <2>3, <2>4
<1>14. CASE HandleStep \/ HandleOther \/ Stop \/ Hide \/ Show \/ UNCHANGED vars
  <2>1. UNCHANGED <<runtimeVars, agreed, ran, stopped>>
    BY <1>14 DEF HandleStep, HandleOther, Stop, Hide, Show, vars
  <2> QED
    BY <1>2, <1>11, <2>1 DEF runtimeVars
<1> QED
  BY <1>3, <1>4, <1>5, <1>6, <1>7, <1>8, <1>9, <1>10, <1>12, <1>13, <1>14
  DEF Next, RunSteps, Calls, Panel

\* The runtime with its one flag and one map of waiters, and a panel that may show
\* any run's question, implement the promise made to the user for each command.
THEOREM PromiseKept == Spec => KeepsPromise
<1> QED
  BY InitMaps, StepMaps, Invariance, UpInvariance, PTL DEF Spec, KeepsPromise, Promise!Spec
=============================================================================

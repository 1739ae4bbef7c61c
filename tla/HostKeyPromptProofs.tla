------------------------ MODULE HostKeyPromptProofs ------------------------
(***************************************************************************)
(* Theorems about HostKeyPrompt, for any checks, hosts and keys.           *)
(*                                                                         *)
(* A prompt is in one place at a time: in an event, in the dialog or in    *)
(* its queue; and it was never answered while it is there.  PromptOK says  *)
(* so of one check, PlacesOK of the sequences.                             *)
(***************************************************************************)
EXTENDS HostKeyPrompt, SequenceTheorems, TLAPS

In(x, q) == \E i \in 1..Len(q) : q[i] = x
Once(q)  == \A i, j \in 1..Len(q) : q[i] = q[j] => i = j

\* A request expires after it was asked.
Ordered(q) ==
    \A i, j \in 1..Len(q) : q[i][1] = "expired" /\ q[j] = <<"prompt", q[i][2]>> => j < i

Prompting(c) == In(<<"prompt", c>>, events)
Expiring(c)  == In(<<"expired", c>>, events)
Queued(c)    == In(c, queue)
Placed(c)    == Prompting(c) \/ shown = c \/ Queued(c)
Called(c)    == \E a \in Answers : <<c, a>> \in calls
Live(c)      == check[c] \in {"asking", "expiring"} /\ answer[c] = None

IdleOK(c) ==
    check[c] = "idle" => /\ ~Placed(c) /\ chosen[c] = None /\ heard[c] = None
                         /\ answer[c] = None /\ reason[c] = "trusted"

PlacedOK(c) ==
    /\ Placed(c) => chosen[c] = None /\ heard[c] = None /\ (Live(c) \/ Expiring(c))
    /\ Prompting(c) => shown # c /\ ~Queued(c)

LiveOK(c) ==
    /\ c \in waiters <=> Live(c)
    /\ Live(c) => Placed(c) \/ Called(c)
    /\ Expiring(c) => check[c] = "rejected"

AnswerOK(c) ==
    /\ answer[c] # None => heard[c] = answer[c]
    /\ \A a \in Answers : <<c, a>> \in calls => heard[c] = a
    /\ check[c] = "accepted" => reason[c] = "trusted" \/ heard[c] \in {"once", "always"}

\* A prompt on the screen that is not the current request has run out, unanswered.
ScreenOK(c) ==
    rendered = c => /\ check[c] # "idle"
                    /\ shown # c => /\ ~Placed(c) /\ check[c] = "rejected"
                                    /\ chosen[c] = None /\ heard[c] = None

PromptOK(c) == IdleOK(c) /\ PlacedOK(c) /\ LiveOK(c) /\ AnswerOK(c) /\ ScreenOK(c)

PlacesOK == Once(events) /\ Ordered(events) /\ Once(queue) /\ ~In(shown, queue)

\* A tick that is not about to be cleared is one for the host and key on the screen.
TickOK ==
    /\ verified # None => check[verified] # "idle"
    /\ verified # None /\ ~clearing =>
           rendered # None /\ HostOf[rendered] = HostOf[verified] /\ key[rendered] = key[verified]

IInv ==
    /\ TypeOK
    /\ PlacesOK
    /\ TickOK
    /\ \A c \in Checks : PromptOK(c) /\ (check[c] # "idle" => key[c] \in Keys)

-----------------------------------------------------------------------------
(* Sequences                                                               *)

LEMMA AppendFacts ==
    ASSUME NEW S, NEW q \in Seq(S), NEW e \in S
    PROVE  /\ Append(q, e) \in Seq(S)
           /\ \A x : In(x, Append(q, e)) <=> In(x, q) \/ x = e
           /\ Once(q) /\ ~In(e, q) => Once(Append(q, e))
<1> DEFINE p == Append(q, e)
<1>1. /\ p \in Seq(S) /\ Len(p) = Len(q) + 1 /\ Len(q) \in Nat
      /\ \A i \in 1..Len(q) : p[i] = q[i]
      /\ p[Len(q) + 1] = e
  BY AppendProperties, LenProperties
<1> HIDE DEF p
<1>2. 1..Len(p) = (1..Len(q)) \cup {Len(q) + 1} BY <1>1
<1>3. \A x : In(x, p) <=> In(x, q) \/ x = e BY <1>1, <1>2 DEF In
<1>4. ASSUME Once(q), ~In(e, q) PROVE Once(p) BY <1>1, <1>2, <1>4 DEF Once, In
<1> QED BY <1>1, <1>3, <1>4 DEF p

LEMMA TailFacts ==
    ASSUME NEW S, NEW q \in Seq(S), q # <<>>
    PROVE  /\ Head(q) \in S /\ Tail(q) \in Seq(S)
           /\ \A x : In(x, q) <=> x = Head(q) \/ In(x, Tail(q))
           /\ Once(q) => Once(Tail(q)) /\ ~In(Head(q), Tail(q))
           /\ Ordered(q) => Ordered(Tail(q))
<1> DEFINE p == Tail(q)
           n == Len(q)
<1>1. /\ Head(q) \in S /\ p \in Seq(S) /\ Len(p) = n - 1
      /\ \A i \in 1..Len(p) : p[i] = q[i + 1]
      /\ n \in Nat
  BY HeadTailProperties, LenProperties
<1>2. Head(q) = q[1] /\ n >= 1 BY EmptySeq, LenProperties
<1> HIDE DEF p, n
<1>3. \A j \in 1..n : j = 1 \/ (j - 1 \in 1..Len(p) /\ p[j - 1] = q[j]) BY <1>1, <1>2
<1>4. \A x : In(x, q) <=> x = Head(q) \/ In(x, p)
  <2>1. ASSUME NEW x, In(x, p) PROVE In(x, q)
    <3>1. PICK i \in 1..Len(p) : p[i] = x BY <2>1 DEF In
    <3>2. i + 1 \in 1..n /\ q[i + 1] = x BY <1>1, <3>1
    <3> QED BY <3>2 DEF In, n
  <2>2. In(Head(q), q) BY <1>1, <1>2 DEF In, n
  <2>3. ASSUME NEW x, In(x, q), x # Head(q) PROVE In(x, p)
    <3>1. PICK j \in 1..n : q[j] = x BY <2>3 DEF In, n
    <3>2. j # 1 BY <3>1, <2>3, <1>2
    <3> QED BY <1>3, <3>1, <3>2 DEF In
  <2> QED BY <2>1, <2>2, <2>3
<1>5. ASSUME Once(q) PROVE Once(p) /\ ~In(Head(q), p)
  <2>1. \A i, j \in 1..n : q[i] = q[j] => i = j BY <1>5 DEF Once, n
  <2>2. Once(p)
    <3> SUFFICES ASSUME NEW i \in 1..Len(p), NEW j \in 1..Len(p), p[i] = p[j] PROVE i = j
      BY DEF Once
    <3>1. i + 1 \in 1..n /\ j + 1 \in 1..n /\ q[i + 1] = q[j + 1] BY <1>1
    <3>2. i + 1 = j + 1 BY <2>1, <3>1
    <3> QED BY <1>1, <3>2
  <2>3. ~In(Head(q), p)
    <3> SUFFICES ASSUME NEW i \in 1..Len(p), p[i] = q[1] PROVE FALSE
      BY <1>2 DEF In
    <3>1. i + 1 \in 1..n /\ 1 \in 1..n /\ q[i + 1] = q[1] /\ i + 1 # 1 BY <1>1, <1>2
    <3> QED BY <2>1, <3>1
  <2> QED BY <2>2, <2>3
<1>6. ASSUME Ordered(q) PROVE Ordered(p)
  <2> SUFFICES ASSUME NEW i \in 1..Len(p), NEW j \in 1..Len(p),
                      p[i][1] = "expired", p[j] = <<"prompt", p[i][2]>>
               PROVE  j < i
    BY DEF Ordered
  <2>1. i + 1 \in 1..n /\ j + 1 \in 1..n /\ p[i] = q[i + 1] /\ p[j] = q[j + 1] BY <1>1
  <2>2. j + 1 < i + 1 BY <1>6, <2>1 DEF Ordered, n
  <2> QED BY <1>1, <2>2
<1> QED BY <1>1, <1>4, <1>5, <1>6 DEF p

LEMMA WithoutFacts ==
    ASSUME NEW S, NEW q \in Seq(S), NEW c
    PROVE  /\ Without(q, c) \in Seq(S)
           /\ Once(q) => /\ Once(Without(q, c))
                         /\ \A x : In(x, Without(q, c)) <=> In(x, q) /\ x # c
<1> DEFINE n == Len(q)
<1>1. n \in Nat /\ q \in [1..n -> S] /\ DOMAIN q = 1..n BY LenProperties
<1>2. CASE \A i \in DOMAIN q : q[i] # c
  <2>1. Without(q, c) = q BY <1>2 DEF Without
  <2>2. \A x : In(x, q) => x # c BY <1>1, <1>2 DEF In
  <2> QED BY <2>1, <2>2
<1>3. CASE \E i \in DOMAIN q : q[i] = c
  <2> DEFINE i == CHOOSE j \in DOMAIN q : q[j] = c
             u == SubSeq(q, 1, i - 1)
             v == SubSeq(q, i + 1, n)
             p == u \o v
  <2>1. i \in 1..n /\ q[i] = c BY <1>1, <1>3
  <2>2. Without(q, c) = p BY <1>3 DEF Without
  <2> HIDE DEF i
  <2>3. /\ u \in Seq(S) /\ Len(u) = i - 1
        /\ \A k \in 1..(i - 1) : u[k] = q[k]
    <3>1. 1 \in Int /\ i - 1 \in Int BY <1>1, <2>1
    <3> QED BY <1>1, <2>1, <3>1, SubSeqProperties
  <2>4. /\ v \in Seq(S) /\ Len(v) = n - i
        /\ \A k \in 1..(n - i) : v[k] = q[k + i]
    <3>1. n \in Int /\ i + 1 \in Int /\ \A j \in (i + 1)..n : q[j] \in S BY ONLY <1>1, <2>1
    <3>2. /\ v \in Seq(S)
          /\ Len(v) = IF i + 1 <= n THEN n - (i + 1) + 1 ELSE 0
          /\ \A k \in 1..(n - (i + 1) + 1) : v[k] = q[(i + 1) + k - 1]
      BY ONLY <3>1, SubSeqProperties DEF v
    <3>3. n - (i + 1) + 1 = n - i /\ (~(i + 1 <= n) => n - i = 0)
      <4>1. n \in Nat /\ i \in Nat /\ 1 <= i /\ i <= n BY <1>1, <2>1
      <4> HIDE DEF n
      <4> QED BY ONLY <4>1
    <3>4. ASSUME NEW k \in 1..(n - i) PROVE (i + 1) + k - 1 = k + i BY ONLY <1>1, <2>1, <3>4
    <3> QED BY ONLY <3>2, <3>3, <3>4
  <2> HIDE DEF u, v
  <2>5. /\ p \in Seq(S) /\ Len(p) = n - 1
        /\ \A k \in 1..(n - 1) : p[k] = IF k < i THEN q[k] ELSE q[k + 1]
    <3>1. /\ p \in Seq(S) /\ Len(p) = Len(u) + Len(v)
          /\ \A k \in 1..(Len(u) + Len(v)) : p[k] = IF k <= Len(u) THEN u[k] ELSE v[k - Len(u)]
      BY <2>3, <2>4, ConcatProperties
    <3> HIDE DEF p
    <3>2. Len(u) + Len(v) = n - 1 BY <1>1, <2>1, <2>3, <2>4
    <3>3. ASSUME NEW k \in 1..(n - 1) PROVE p[k] = IF k < i THEN q[k] ELSE q[k + 1]
      <4>1. CASE k < i
        <5>1. k <= Len(u) /\ k \in 1..(i - 1) BY <1>1, <2>1, <2>3, <4>1
        <5> QED BY <2>3, <3>1, <3>2, <4>1, <5>1
      <4>2. CASE ~(k < i)
        <5>1. ~(k <= Len(u)) /\ k - Len(u) \in 1..(n - i) /\ (k - Len(u)) + i = k + 1
          BY <1>1, <2>1, <2>3, <4>2
        <5>2. p[k] = v[k - Len(u)] BY <3>1, <3>2, <5>1
        <5>3. v[k - Len(u)] = q[k + 1] BY <2>4, <5>1
        <5> QED BY <4>2, <5>2, <5>3
      <4> QED BY <4>1, <4>2
    <3> QED BY <3>1, <3>2, <3>3
  <2> HIDE DEF p
  <2> DEFINE at(k) == IF k < i THEN k ELSE k + 1
  <2>6. \A k \in 1..(n - 1) : at(k) \in 1..n /\ at(k) # i /\ p[k] = q[at(k)]
    BY <1>1, <2>1, <2>5
  <2>7. \A j \in 1..n : j # i => \E k \in 1..(n - 1) : at(k) = j
    <3> SUFFICES ASSUME NEW j \in 1..n, j # i PROVE \E k \in 1..(n - 1) : at(k) = j
      OBVIOUS
    <3>1. CASE j < i
      <4>1. j \in 1..(n - 1) /\ at(j) = j BY <1>1, <2>1, <3>1
      <4> QED BY <4>1
    <3>2. CASE ~(j < i)
      <4>1. j - 1 \in 1..(n - 1) /\ at(j - 1) = j BY <1>1, <2>1, <3>2
      <4> QED BY <4>1
    <3> QED BY <3>1, <3>2
  <2>8. \A k, m \in 1..(n - 1) : at(k) = at(m) => k = m BY <1>1, <2>1
  <2> HIDE DEF at
  <2>9. ASSUME Once(q)
        PROVE  Once(p) /\ \A x : In(x, p) <=> In(x, q) /\ x # c
    <3>1. \A j, k \in 1..n : q[j] = q[k] => j = k BY <2>9 DEF Once
    <3>2. Once(p)
      <4> SUFFICES ASSUME NEW k \in 1..(n - 1), NEW m \in 1..(n - 1), p[k] = p[m] PROVE k = m
        BY <2>5 DEF Once
      <4> QED BY <2>6, <2>8, <3>1
    <3>3. ASSUME NEW x, In(x, p) PROVE In(x, q) /\ x # c
      <4>1. PICK k \in 1..(n - 1) : p[k] = x BY <2>5, <3>3 DEF In
      <4>2. q[at(k)] = x /\ at(k) \in 1..n /\ at(k) # i BY <2>6, <4>1
      <4> QED BY <2>1, <3>1, <4>2 DEF In
    <3>4. ASSUME NEW x, In(x, q), x # c PROVE In(x, p)
      <4>1. PICK j \in 1..n : q[j] = x BY <3>4 DEF In
      <4>2. j # i BY <2>1, <3>4, <4>1
      <4>3. PICK k \in 1..(n - 1) : at(k) = j BY <2>7, <4>2
      <4> QED BY <2>5, <2>6, <4>1, <4>3 DEF In
    <3> QED BY <3>2, <3>3, <3>4
  <2> QED BY <2>2, <2>5, <2>9
<1> QED BY <1>2, <1>3
LEMMA AppendOrdered ==
    ASSUME NEW S, NEW q \in Seq(S), NEW e \in S, Ordered(q),
           e[1] = "expired" => \A x : e # <<"prompt", x>>,
           \A x : e = <<"prompt", x>> => e[1] # "expired" /\ ~In(<<"expired", x>>, q),
           \A i \in 1..Len(q) : q[i] = <<q[i][1], q[i][2]>>
    PROVE  Ordered(Append(q, e))
<1> DEFINE p == Append(q, e)
           n == Len(q)
<1>1. /\ Len(p) = n + 1 /\ n \in Nat
      /\ \A i \in 1..n : p[i] = q[i]
      /\ p[n + 1] = e
  BY AppendProperties, LenProperties
<1>a. \A i, j \in 1..n : q[i][1] = "expired" /\ q[j] = <<"prompt", q[i][2]>> => j < i
  BY DEF Ordered
<1> HIDE DEF p, n
<1> SUFFICES ASSUME NEW i \in 1..Len(p), NEW j \in 1..Len(p),
                    p[i][1] = "expired", p[j] = <<"prompt", p[i][2]>>
             PROVE  j < i
  BY DEF Ordered, p
<1>2. i \in 1..(n + 1) /\ j \in 1..(n + 1) BY <1>1
<1>3. CASE i = n + 1
  <2>1. j # n + 1 BY <1>1, <1>3
  <2> QED BY <1>1, <1>2, <1>3, <2>1
<1>4. CASE i # n + 1 /\ j = n + 1
  <2>0. i \in 1..n BY ONLY <1>1, <1>2, <1>4
  <2>1. i \in 1..n /\ p[i] = q[i] /\ e = <<"prompt", q[i][2]>> BY <1>1, <1>4, <2>0
  <2>2. q[i] = <<"expired", q[i][2]>> BY <1>1, <2>1 DEF n
  <2> QED BY <1>1, <2>1, <2>2 DEF In, n
<1>5. CASE i # n + 1 /\ j # n + 1
  <2>1. i \in 1..n /\ j \in 1..n /\ p[i] = q[i] /\ p[j] = q[j] BY <1>1, <1>2, <1>5
  <2> QED BY <1>a, <2>1
<1> QED BY <1>3, <1>4, <1>5

-----------------------------------------------------------------------------
(* The invariant                                                           *)

LEMMA InitInv == Init => IInv
<1> SUFFICES ASSUME Init PROVE IInv OBVIOUS
<1> USE PromptAssumption
<1>1. TypeOK BY EmptySeq DEF Init, TypeOK, Hosts
<1>2. \A x : ~In(x, events) /\ ~In(x, queue) BY DEF Init, In
<1>3. PlacesOK BY <1>2 DEF Init, PlacesOK, Once, Ordered
<1>4. TickOK BY DEF Init, TickOK
<1>5. ASSUME NEW c \in Checks PROVE PromptOK(c)
  BY <1>2 DEF Init, PromptOK, IdleOK, PlacedOK, LiveOK, AnswerOK, ScreenOK, Placed, Prompting,
              Expiring,
              Queued, Live, Called
<1>6. ASSUME NEW c \in Checks PROVE check[c] # "idle" => key[c] \in Keys BY DEF Init
<1> QED BY <1>1, <1>3, <1>4, <1>5, <1>6 DEF IInv

\* The places of the prompts are those before the step.
LEMMA SamePlaces ==
    ASSUME UNCHANGED <<events, shown, queue>>
    PROVE  /\ PlacesOK' <=> PlacesOK
           /\ \A c : (Prompting(c)' <=> Prompting(c)) /\ (Expiring(c)' <=> Expiring(c))
           /\ \A c : (Queued(c)' <=> Queued(c)) /\ (Placed(c)' <=> Placed(c))
BY DEF PlacesOK, Prompting, Expiring, Queued, Placed

\* The prompt on the screen and the current request were put.
LEMMA ShownWasPut ==
    IInv => /\ shown # None => check[shown] # "idle"
            /\ rendered # None => check[rendered] # "idle"
BY DEF IInv, TypeOK, PromptOK, IdleOK, Placed, ScreenOK

LEMMA CheckTrustedInv ==
    ASSUME IInv, NEW c \in Checks, NEW k \in Keys, CheckTrusted(c, k)
    PROVE  IInv'
<1> USE PromptAssumption
<1>1. TypeOK' BY DEF IInv, TypeOK, CheckTrusted, Hosts, dialogVars, boxVars, userVars
<1>2. UNCHANGED <<events, shown, queue>> BY DEF CheckTrusted, dialogVars, boxVars, userVars
<1>3. PlacesOK' BY <1>2, SamePlaces DEF IInv
<1>4. TickOK'
  BY ShownWasPut DEF IInv, TypeOK, TickOK, CheckTrusted, dialogVars, boxVars, userVars
<1>5. ASSUME NEW d \in Checks PROVE PromptOK(d)'
  <2>1. PromptOK(d) BY DEF IInv
  <2>2. Prompting(d)' = Prompting(d) /\ Expiring(d)' = Expiring(d) /\ Queued(d)' = Queued(d)
    BY <1>2 DEF Prompting, Expiring, Queued
  <2> QED BY <1>2, <2>1, <2>2
          DEF IInv, TypeOK, CheckTrusted, dialogVars, boxVars, userVars, PromptOK, IdleOK,
              PlacedOK, LiveOK,
              AnswerOK, ScreenOK,
              Placed, Live, Called
<1>6. ASSUME NEW d \in Checks PROVE (check[d] # "idle" => key[d] \in Keys)'
  BY DEF IInv, TypeOK, CheckTrusted, dialogVars, boxVars, userVars
<1> QED BY <1>1, <1>3, <1>4, <1>5, <1>6 DEF IInv

LEMMA DecideInv ==
    ASSUME IInv, NEW c \in Checks, Decide(c)
    PROVE  IInv'
<1> USE PromptAssumption
<1>1. TypeOK' BY DEF IInv, TypeOK, Decide, Hosts, dialogVars, boxVars, userVars, Accepts
<1>2. UNCHANGED <<events, shown, queue>> BY DEF Decide, dialogVars, boxVars, userVars, Accepts
<1>3. PlacesOK' BY <1>2, SamePlaces DEF IInv
<1>4. TickOK'
  BY DEF IInv, TypeOK, TickOK, Decide, dialogVars, boxVars, userVars, Accepts
<1>5. ASSUME NEW d \in Checks PROVE PromptOK(d)'
  <2>1. PromptOK(d) BY DEF IInv
  <2>2. Prompting(d)' = Prompting(d) /\ Expiring(d)' = Expiring(d) /\ Queued(d)' = Queued(d)
    BY <1>2 DEF Prompting, Expiring, Queued
  <2> QED BY <1>2, <2>1, <2>2
          DEF IInv, TypeOK, Decide, dialogVars, boxVars, userVars, Accepts, PromptOK, IdleOK,
              PlacedOK, LiveOK,
              AnswerOK, ScreenOK,
              Placed, Live, Called
<1>6. ASSUME NEW d \in Checks PROVE (check[d] # "idle" => key[d] \in Keys)'
  BY DEF IInv, TypeOK, Decide, dialogVars, boxVars, userVars, Accepts
<1> QED BY <1>1, <1>3, <1>4, <1>5, <1>6 DEF IInv

LEMMA TimeoutFiresInv ==
    ASSUME IInv, NEW c \in Checks, TimeoutFires(c)
    PROVE  IInv'
<1> USE PromptAssumption
<1>1. TypeOK' BY DEF IInv, TypeOK, TimeoutFires, Hosts, dialogVars, boxVars, userVars
<1>2. UNCHANGED <<events, shown, queue>> BY DEF TimeoutFires, dialogVars, boxVars, userVars
<1>3. PlacesOK' BY <1>2, SamePlaces DEF IInv
<1>4. TickOK'
  BY DEF IInv, TypeOK, TickOK, TimeoutFires, dialogVars, boxVars, userVars
<1>5. ASSUME NEW d \in Checks PROVE PromptOK(d)'
  <2>1. PromptOK(d) BY DEF IInv
  <2>2. Prompting(d)' = Prompting(d) /\ Expiring(d)' = Expiring(d) /\ Queued(d)' = Queued(d)
    BY <1>2 DEF Prompting, Expiring, Queued
  <2> QED BY <1>2, <2>1, <2>2
          DEF IInv, TypeOK, TimeoutFires, dialogVars, boxVars, userVars, PromptOK, IdleOK,
              PlacedOK, LiveOK,
              AnswerOK, ScreenOK,
              Placed, Live, Called
<1>6. ASSUME NEW d \in Checks PROVE (check[d] # "idle" => key[d] \in Keys)'
  BY DEF IInv, TypeOK, TimeoutFires, dialogVars, boxVars, userVars
<1> QED BY <1>1, <1>3, <1>4, <1>5, <1>6 DEF IInv

LEMMA ResolveInv ==
    ASSUME IInv, NEW c \in Checks, NEW a \in Answers, Resolve(c, a)
    PROVE  IInv'
<1> USE PromptAssumption
<1>1. TypeOK' BY DEF IInv, TypeOK, Resolve, Hosts, dialogVars, boxVars, userVars
<1>2. UNCHANGED <<events, shown, queue>> BY DEF Resolve, dialogVars, boxVars, userVars
<1>3. PlacesOK' BY <1>2, SamePlaces DEF IInv
<1>4. TickOK'
  BY DEF IInv, TypeOK, TickOK, Resolve, dialogVars, boxVars, userVars
<1>5. ASSUME NEW d \in Checks PROVE PromptOK(d)'
  <2>1. PromptOK(d) BY DEF IInv
  <2>2. Prompting(d)' = Prompting(d) /\ Expiring(d)' = Expiring(d) /\ Queued(d)' = Queued(d)
    BY <1>2 DEF Prompting, Expiring, Queued
  <2>3. CASE d = c /\ c \in waiters
    <3>1. heard[c] = a /\ ~Placed(c) /\ check[c] \in {"asking", "expiring"}
      BY <2>1, <2>3 DEF Resolve, PromptOK, PlacedOK, AnswerOK, LiveOK, Live, IInv, TypeOK
    <3> QED BY <1>2, <2>1, <2>2, <2>3, <3>1
            DEF IInv, TypeOK, Resolve, dialogVars, boxVars, userVars, PromptOK, IdleOK,
                PlacedOK, LiveOK, AnswerOK, ScreenOK,
                Placed, Live
  <2>4. CASE d # c \/ c \notin waiters
    <3>1. /\ check'[d] = check[d] /\ answer'[d] = answer[d] /\ heard'[d] = heard[d]
          /\ chosen'[d] = chosen[d] /\ UNCHANGED <<rendered, shown>>
          /\ reason'[d] = reason[d] /\ (d \in waiters' <=> d \in waiters)
      BY <2>4 DEF IInv, TypeOK, Resolve, dialogVars, boxVars, userVars
    <3>2. Live(d) => (Called(d)' <=> Called(d))
      BY <2>1, <2>4 DEF Resolve, Called, PromptOK, LiveOK
    <3>3. \A b \in Answers : <<d, b>> \in calls' => <<d, b>> \in calls BY DEF Resolve
    <3>4. /\ Live(d)' = Live(d) /\ Placed(d)' = Placed(d)
      BY <1>2, <2>2, <3>1 DEF Live, Placed
    <3> QED BY <2>1, <2>2, <1>2, <3>1, <3>2, <3>3, <3>4
            DEF PromptOK, IdleOK, PlacedOK, LiveOK, AnswerOK, ScreenOK
  <2> QED BY <2>3, <2>4
<1>6. ASSUME NEW d \in Checks PROVE (check[d] # "idle" => key[d] \in Keys)'
  BY DEF IInv, TypeOK, Resolve, dialogVars, boxVars, userVars
<1> QED BY <1>1, <1>3, <1>4, <1>5, <1>6 DEF IInv

LEMMA EditKnownHostsInv ==
    ASSUME IInv, NEW h \in Hosts, NEW k \in Keys \cup {None}, EditKnownHosts(h, k)
    PROVE  IInv'
<1> USE PromptAssumption
<1>1. TypeOK' BY DEF IInv, TypeOK, EditKnownHosts, Hosts, dialogVars, boxVars, userVars
<1>2. UNCHANGED <<events, shown, queue>> BY DEF EditKnownHosts, dialogVars, boxVars, userVars
<1>3. PlacesOK' BY <1>2, SamePlaces DEF IInv
<1>4. TickOK'
  BY DEF IInv, TypeOK, TickOK, EditKnownHosts, dialogVars, boxVars, userVars
<1>5. ASSUME NEW d \in Checks PROVE PromptOK(d)'
  <2>1. PromptOK(d) BY DEF IInv
  <2>2. Prompting(d)' = Prompting(d) /\ Expiring(d)' = Expiring(d) /\ Queued(d)' = Queued(d)
    BY <1>2 DEF Prompting, Expiring, Queued
  <2> QED BY <1>2, <2>1, <2>2
          DEF IInv, TypeOK, EditKnownHosts, dialogVars, boxVars, userVars, PromptOK, IdleOK,
              PlacedOK, LiveOK,
              AnswerOK, ScreenOK,
              Placed, Live, Called
<1>6. ASSUME NEW d \in Checks PROVE (check[d] # "idle" => key[d] \in Keys)'
  BY DEF IInv, TypeOK, EditKnownHosts, dialogVars, boxVars, userVars
<1> QED BY <1>1, <1>3, <1>4, <1>5, <1>6 DEF IInv

LEMMA ToggleVerifiedInv ==
    ASSUME IInv, ToggleVerified
    PROVE  IInv'
<1> USE PromptAssumption
<1>1. TypeOK' BY DEF IInv, TypeOK, ToggleVerified, Hosts, storeVars, boxVars, userVars
<1>2. UNCHANGED <<events, shown, queue>> BY DEF ToggleVerified, storeVars
<1>3. PlacesOK' BY <1>2, SamePlaces DEF IInv
<1>4. TickOK'
  BY DEF IInv, TypeOK, TickOK, PromptOK, ScreenOK, ToggleVerified, storeVars
<1>5. ASSUME NEW d \in Checks PROVE PromptOK(d)'
  <2>1. PromptOK(d) BY DEF IInv
  <2>2. /\ Prompting(d)' = Prompting(d) /\ Expiring(d)' = Expiring(d)
        /\ Queued(d)' = Queued(d) /\ Placed(d)' = Placed(d)
    BY <1>2 DEF Prompting, Expiring, Queued, Placed
  <2>3. UNCHANGED <<storeVars, calls, chosen, heard>> BY DEF ToggleVerified, userVars
  <2> QED BY <1>2, <2>1, <2>2, <2>3
          DEF IInv, TypeOK, ToggleVerified, storeVars, PromptOK, IdleOK, PlacedOK, LiveOK,
              AnswerOK, ScreenOK, Live, Called
<1>6. ASSUME NEW d \in Checks PROVE (check[d] # "idle" => key[d] \in Keys)'
  BY DEF IInv, TypeOK, ToggleVerified, storeVars
<1> QED BY <1>1, <1>3, <1>4, <1>5, <1>6 DEF IInv

LEMMA ClearTickInv ==
    ASSUME IInv, ClearTick
    PROVE  IInv'
<1> USE PromptAssumption
<1>1. TypeOK' BY DEF IInv, TypeOK, ClearTick, Hosts, storeVars, boxVars, userVars
<1>2. UNCHANGED <<events, shown, queue>> BY DEF ClearTick, storeVars
<1>3. PlacesOK' BY <1>2, SamePlaces DEF IInv
<1>4. TickOK'
  BY DEF IInv, TypeOK, TickOK, ClearTick, storeVars
<1>5. ASSUME NEW d \in Checks PROVE PromptOK(d)'
  <2>1. PromptOK(d) BY DEF IInv
  <2>2. /\ Prompting(d)' = Prompting(d) /\ Expiring(d)' = Expiring(d)
        /\ Queued(d)' = Queued(d) /\ Placed(d)' = Placed(d)
    BY <1>2 DEF Prompting, Expiring, Queued, Placed
  <2>3. UNCHANGED <<storeVars, calls, chosen, heard>> BY DEF ClearTick, userVars
  <2> QED BY <1>2, <2>1, <2>2, <2>3
          DEF IInv, TypeOK, ClearTick, storeVars, PromptOK, IdleOK, PlacedOK, LiveOK,
              AnswerOK, ScreenOK, Live, Called
<1>6. ASSUME NEW d \in Checks PROVE (check[d] # "idle" => key[d] \in Keys)'
  BY DEF IInv, TypeOK, ClearTick, storeVars
<1> QED BY <1>1, <1>3, <1>4, <1>5, <1>6 DEF IInv

LEMMA RenderInv ==
    ASSUME IInv, Render
    PROVE  IInv'
<1> USE PromptAssumption
<1>1. TypeOK' BY DEF IInv, TypeOK, Render, Changes, storeVars, boxVars, userVars
<1>2. UNCHANGED <<events, shown, queue>> BY DEF Render, storeVars
<1>3. PlacesOK' BY <1>2, SamePlaces DEF IInv
<1>4. TickOK'
  BY ShownWasPut DEF IInv, TypeOK, TickOK, Render, Changes, storeVars
<1>5. ASSUME NEW d \in Checks PROVE PromptOK(d)'
  <2>1. PromptOK(d) BY DEF IInv
  <2>2. /\ Prompting(d)' = Prompting(d) /\ Expiring(d)' = Expiring(d)
        /\ Queued(d)' = Queued(d) /\ Placed(d)' = Placed(d)
    BY <1>2 DEF Prompting, Expiring, Queued, Placed
  <2>0. shown = d => check[d] # "idle"
    BY ShownWasPut, PromptAssumption DEF IInv
  <2>3. UNCHANGED <<storeVars, calls, chosen, heard>> BY DEF Render, userVars
  <2> QED BY <1>2, <2>0, <2>1, <2>2, <2>3
          DEF IInv, TypeOK, Render, storeVars, PromptOK, IdleOK, PlacedOK, LiveOK,
              AnswerOK, ScreenOK, Live, Called
<1>6. ASSUME NEW d \in Checks PROVE (check[d] # "idle" => key[d] \in Keys)'
  BY DEF IInv, TypeOK, Render, storeVars
<1> QED BY <1>1, <1>3, <1>4, <1>5, <1>6 DEF IInv

LEMMA EventsPaired ==
    ASSUME TypeOK
    PROVE  \A i \in 1..Len(events) : events[i] = <<events[i][1], events[i][2]>>
<1>1. \A i \in 1..Len(events) : events[i] \in Event BY LenProperties DEF TypeOK
<1> QED BY <1>1 DEF Event

LEMMA CheckAsksInv ==
    ASSUME IInv, NEW c \in Checks, NEW k \in Keys, CheckAsks(c, k)
    PROVE  IInv'
<1> USE PromptAssumption
<1>1. PromptOK(c) /\ TypeOK /\ PlacesOK /\ ~Placed(c) /\ ~Expiring(c) /\ answer[c] = None
  BY DEF IInv, PromptOK, IdleOK, LiveOK, CheckAsks
<1>2. <<"prompt", c>> \in Event /\ events \in Seq(Event) BY <1>1 DEF TypeOK, Event
<1>3. ~In(<<"prompt", c>>, events) BY <1>1 DEF Placed, Prompting
<1>4. /\ events' \in Seq(Event)
      /\ \A x : In(x, events') <=> In(x, events) \/ x = <<"prompt", c>>
      /\ Once(events')
  <2>1. /\ Append(events, <<"prompt", c>>) \in Seq(Event)
        /\ \A x : In(x, Append(events, <<"prompt", c>>)) <=> In(x, events) \/ x = <<"prompt", c>>
        /\ Once(events) => Once(Append(events, <<"prompt", c>>))
    BY ONLY <1>2, <1>3, AppendFacts
  <2> QED BY <1>1, <2>1 DEF CheckAsks, PlacesOK
<1>5. Ordered(events')
  <2>1. \A x : <<"prompt", c>> = <<"prompt", x>> => ~In(<<"expired", x>>, events)
    BY <1>1 DEF Expiring
  <2>2. \A x : <<"prompt", c>> = <<"prompt", x>> => <<"prompt", c>>[1] # "expired" OBVIOUS
  <2>3. <<"prompt", c>>[1] # "expired" OBVIOUS
  <2>4. Ordered(events) BY <1>1 DEF PlacesOK
  <2>5. events' = Append(events, <<"prompt", c>>) BY DEF CheckAsks
  <2>6. \A i \in 1..Len(events) : events[i] = <<events[i][1], events[i][2]>>
    BY <1>1, EventsPaired
  <2>7. Ordered(Append(events, <<"prompt", c>>))
    BY ONLY <1>2, <2>1, <2>2, <2>3, <2>4, <2>6, AppendOrdered
  <2> QED BY <2>5, <2>7
<1>6. UNCHANGED <<shown, queue>> BY DEF CheckAsks, dialogVars, boxVars, userVars
<1>7. PlacesOK' BY <1>1, <1>4, <1>5, <1>6 DEF PlacesOK
<1>8. TypeOK' BY <1>1, <1>4 DEF TypeOK, CheckAsks, dialogVars, boxVars, userVars
<1>9. TickOK' BY ShownWasPut DEF IInv, TypeOK, TickOK, CheckAsks, dialogVars, boxVars, userVars
<1>10. ASSUME NEW d \in Checks PROVE PromptOK(d)'
  <2>1. PromptOK(d) BY DEF IInv
  <2>2. Prompting(d)' <=> Prompting(d) \/ d = c BY <1>4 DEF Prompting
  <2>3. Expiring(d)' <=> Expiring(d) BY <1>4 DEF Expiring
  <2>4. Queued(d)' <=> Queued(d) BY <1>6 DEF Queued
  <2> QED BY <1>1, <1>6, <2>1, <2>2, <2>3, <2>4
          DEF TypeOK, CheckAsks, dialogVars, boxVars, userVars, PromptOK, IdleOK, PlacedOK,
              LiveOK, AnswerOK, ScreenOK,
              Placed, Live, Called
<1>11. ASSUME NEW d \in Checks PROVE (check[d] # "idle" => key[d] \in Keys)'
  BY DEF IInv, TypeOK, CheckAsks
<1> QED BY <1>7, <1>8, <1>9, <1>10, <1>11 DEF IInv

LEMMA ExpireInv ==
    ASSUME IInv, NEW c \in Checks, Expire(c)
    PROVE  IInv'
<1> USE PromptAssumption
<1>1. PromptOK(c) /\ TypeOK /\ PlacesOK /\ ~Expiring(c)
  BY DEF IInv, PromptOK, LiveOK, Expire
<1>2. <<"expired", c>> \in Event /\ events \in Seq(Event) BY <1>1 DEF TypeOK, Event
<1>3. ~In(<<"expired", c>>, events) BY <1>1 DEF Expiring
<1>4. /\ events' \in Seq(Event)
      /\ \A x : In(x, events') <=> In(x, events) \/ x = <<"expired", c>>
      /\ Once(events')
  <2>1. /\ Append(events, <<"expired", c>>) \in Seq(Event)
        /\ \A x : In(x, Append(events, <<"expired", c>>)) <=> In(x, events) \/ x = <<"expired", c>>
        /\ Once(events) => Once(Append(events, <<"expired", c>>))
    BY ONLY <1>2, <1>3, AppendFacts
  <2> QED BY <1>1, <2>1 DEF Expire, PlacesOK
<1>5. Ordered(events')
  <2>1. \A x : <<"expired", c>> # <<"prompt", x>> OBVIOUS
  <2>4. Ordered(events) BY <1>1 DEF PlacesOK
  <2>5. events' = Append(events, <<"expired", c>>) BY DEF Expire
  <2>6. \A i \in 1..Len(events) : events[i] = <<events[i][1], events[i][2]>>
    BY <1>1, EventsPaired
  <2>7. Ordered(Append(events, <<"expired", c>>))
    BY ONLY <1>2, <2>1, <2>4, <2>6, AppendOrdered
  <2> QED BY <2>5, <2>7
<1>6. UNCHANGED <<shown, queue>> BY DEF Expire, dialogVars, boxVars, userVars
<1>7. PlacesOK' BY <1>1, <1>4, <1>5, <1>6 DEF PlacesOK
<1>8. TypeOK' BY <1>1, <1>4 DEF TypeOK, Expire, dialogVars, boxVars, userVars
<1>9. TickOK' BY DEF IInv, TypeOK, TickOK, Expire, dialogVars, boxVars, userVars
<1>10. ASSUME NEW d \in Checks PROVE PromptOK(d)'
  <2>1. PromptOK(d) BY DEF IInv
  <2>2. Prompting(d)' <=> Prompting(d) BY <1>4 DEF Prompting
  <2>3. Expiring(d)' <=> Expiring(d) \/ d = c BY <1>4 DEF Expiring
  <2>4. Queued(d)' <=> Queued(d) BY <1>6 DEF Queued
  <2> QED BY <1>1, <1>6, <2>1, <2>2, <2>3, <2>4
          DEF TypeOK, Expire, dialogVars, boxVars, userVars, PromptOK, IdleOK, PlacedOK,
              LiveOK, AnswerOK, ScreenOK,
              Placed, Live, Called
<1>11. ASSUME NEW d \in Checks PROVE (check[d] # "idle" => key[d] \in Keys)'
  BY DEF IInv, TypeOK, Expire
<1> QED BY <1>7, <1>8, <1>9, <1>10, <1>11 DEF IInv

LEMMA HandlePromptInv ==
    ASSUME IInv, NEW c \in Checks, HandlePrompt(c)
    PROVE  IInv'
<1> USE PromptAssumption
<1>1. TypeOK /\ PlacesOK /\ PromptOK(c) /\ events \in Seq(Event) /\ queue \in Seq(Checks)
  BY DEF IInv, TypeOK
<1>2. events # <<>> /\ Head(events) = <<"prompt", c>> /\ events' = Tail(events)
  BY DEF HandlePrompt
<1>3. /\ events' \in Seq(Event)
      /\ \A x : In(x, events) <=> x = <<"prompt", c>> \/ In(x, events')
      /\ Once(events') /\ ~In(<<"prompt", c>>, events')
      /\ Ordered(events')
  BY <1>1, <1>2, TailFacts DEF PlacesOK
<1>4. Prompting(c) /\ shown # c /\ ~Queued(c)
  BY <1>1, <1>3 DEF PromptOK, PlacedOK, Prompting
<1>5. /\ queue' \in Seq(Checks) /\ Once(queue') /\ ~In(shown', queue')
      /\ shown' \in Checks \cup {None}
      /\ \A x \in Checks : shown' = x \/ In(x, queue') <=> x = c \/ shown = x \/ In(x, queue)
  <2>1. CASE shown = None
    <3>1. shown' = c /\ queue' = queue BY <2>1 DEF HandlePrompt
    <3> QED BY <1>1, <1>4, <2>1, <3>1 DEF PlacesOK, Queued
  <2>2. CASE shown # None
    <3>1. queue' = Append(queue, c) /\ shown' = shown BY <2>2 DEF HandlePrompt
    <3>2. /\ Append(queue, c) \in Seq(Checks)
          /\ \A x : In(x, Append(queue, c)) <=> In(x, queue) \/ x = c
          /\ ~In(c, queue) /\ Once(queue) => Once(Append(queue, c))
      BY ONLY <1>1, c \in Checks, AppendFacts
    <3> QED BY <1>1, <1>4, <3>1, <3>2 DEF PlacesOK, Queued, TypeOK
  <2> QED BY <2>1, <2>2
<1>6. /\ PlacesOK' /\ TypeOK' /\ TickOK'
  <2>1. PlacesOK' BY <1>3, <1>5 DEF PlacesOK
  <2>2. TypeOK' BY <1>1, <1>3, <1>5 DEF TypeOK, HandlePrompt, storeVars, boxVars, userVars
  <2>3. TickOK' BY DEF IInv, TickOK, HandlePrompt, storeVars, boxVars, userVars
  <2> QED BY <2>1, <2>2, <2>3
<1>7. ASSUME NEW d \in Checks PROVE PromptOK(d)'
  <2>1. PromptOK(d) BY DEF IInv
  <2>2. Prompting(d)' <=> Prompting(d) /\ d # c BY <1>3 DEF Prompting
  <2>3. Expiring(d)' <=> Expiring(d) BY <1>3 DEF Expiring
  <2>4. Placed(d)' <=> Placed(d)
    BY <1>4, <1>5, <2>2 DEF Queued, Placed
  <2>5. Prompting(d)' => shown' # d /\ ~Queued(d)'
    BY <1>5, <2>1, <2>2 DEF Queued, PromptOK, PlacedOK
  <2> QED BY <2>1, <2>3, <2>4, <2>5
          DEF HandlePrompt, storeVars, boxVars, userVars, PromptOK, IdleOK, PlacedOK, LiveOK,
              AnswerOK, ScreenOK, Live, Called
<1>8. ASSUME NEW d \in Checks PROVE (check[d] # "idle" => key[d] \in Keys)'
  BY DEF IInv, HandlePrompt, storeVars, boxVars, userVars
<1> QED BY <1>6, <1>7, <1>8 DEF IInv

\* advanceHostKey: only the prompt that was shown leaves the dialog.
LEMMA AdvanceFacts ==
    ASSUME TypeOK, PlacesOK, shown # None, Advance
    PROVE  /\ queue' \in Seq(Checks) /\ Once(queue') /\ ~In(shown', queue')
           /\ shown' \in Checks \cup {None}
           /\ \A x \in Checks : shown' = x \/ In(x, queue') <=> In(x, queue)
<1> USE PromptAssumption
<1>1. queue \in Seq(Checks) /\ Once(queue) BY DEF TypeOK, PlacesOK
<1>2. CASE queue = <<>>
  <2>1. shown' = None /\ queue' = queue BY <1>2 DEF Advance
  <2>2. \A x : ~In(x, queue) BY <1>2 DEF In
  <2> QED BY <1>1, <2>1, <2>2
<1>3. CASE queue # <<>>
  <2>1. shown' = Head(queue) /\ queue' = Tail(queue) BY <1>3 DEF Advance
  <2>2. /\ Head(queue) \in Checks /\ Tail(queue) \in Seq(Checks)
        /\ \A x : In(x, queue) <=> x = Head(queue) \/ In(x, Tail(queue))
        /\ Once(Tail(queue)) /\ ~In(Head(queue), Tail(queue))
    BY ONLY <1>1, <1>3, TailFacts
  <2> QED BY <2>1, <2>2
<1> QED BY <1>2, <1>3

LEMMA HandleExpiredInv ==
    ASSUME IInv, NEW c \in Checks, HandleExpired(c)
    PROVE  IInv'
<1> USE PromptAssumption
<1>1. TypeOK /\ PlacesOK /\ PromptOK(c) /\ events \in Seq(Event) /\ queue \in Seq(Checks)
  BY DEF IInv, TypeOK
<1>2. events # <<>> /\ Head(events) = <<"expired", c>> /\ events' = Tail(events)
  BY DEF HandleExpired
<1>3. /\ events' \in Seq(Event)
      /\ \A x : In(x, events) <=> x = <<"expired", c>> \/ In(x, events')
      /\ Once(events') /\ ~In(<<"expired", c>>, events')
      /\ Ordered(events')
  BY <1>1, <1>2, TailFacts DEF PlacesOK
<1>4. Expiring(c) /\ check[c] = "rejected" /\ c \notin waiters
  BY <1>1, <1>3 DEF PromptOK, LiveOK, Live, Expiring
<1>5. ~Prompting(c)
  <2> SUFFICES ASSUME NEW j \in 1..Len(events), events[j] = <<"prompt", c>> PROVE FALSE
    BY DEF Prompting, In
  <2>1. events[1] = <<"expired", c>> /\ 1 \in 1..Len(events)
    BY <1>1, <1>2, EmptySeq, LenProperties
  <2>2. events[1][1] = "expired" /\ events[j] = <<"prompt", events[1][2]>> BY <2>1
  <2>3. j < 1 BY <1>1, <2>1, <2>2 DEF PlacesOK, Ordered
  <2> QED BY <2>3
<1>6. /\ queue' \in Seq(Checks) /\ Once(queue') /\ ~In(shown', queue')
      /\ shown' \in Checks \cup {None}
      /\ \A x \in Checks : shown' = x \/ In(x, queue')
                               <=> x # c /\ (shown = x \/ In(x, queue))
  <2>1. CASE shown = c
    <3>1. Advance /\ shown # None BY <2>1 DEF HandleExpired
    <3>2. /\ queue' \in Seq(Checks) /\ Once(queue') /\ ~In(shown', queue')
          /\ shown' \in Checks \cup {None}
          /\ \A x \in Checks : shown' = x \/ In(x, queue') <=> In(x, queue)
      BY <1>1, <3>1, AdvanceFacts
    <3>3. ~In(c, queue) BY <1>1, <2>1 DEF PlacesOK
    <3> QED BY <2>1, <3>2, <3>3
  <2>2. CASE shown # c
    <3>1. queue' = Without(queue, c) /\ shown' = shown BY <2>2 DEF HandleExpired
    <3>2. /\ Without(queue, c) \in Seq(Checks) /\ Once(Without(queue, c))
          /\ \A x : In(x, Without(queue, c)) <=> In(x, queue) /\ x # c
      <4>1. Once(queue) BY <1>1 DEF PlacesOK
      <4> QED BY ONLY <1>1, <4>1, WithoutFacts
    <3> QED BY <1>1, <2>2, <3>1, <3>2 DEF PlacesOK, TypeOK
  <2> QED BY <2>1, <2>2
<1>7. /\ PlacesOK' /\ TypeOK' /\ TickOK'
  <2>1. PlacesOK' BY <1>3, <1>6 DEF PlacesOK
  <2>2. TypeOK' BY <1>1, <1>3, <1>6 DEF TypeOK, HandleExpired, storeVars, boxVars, userVars
  <2>3. TickOK' BY DEF IInv, TickOK, HandleExpired, storeVars, boxVars, userVars
  <2> QED BY <2>1, <2>2, <2>3
<1>8. ASSUME NEW d \in Checks PROVE PromptOK(d)'
  <2>1. PromptOK(d) BY DEF IInv
  <2>2. Prompting(d)' <=> Prompting(d) BY <1>3 DEF Prompting
  <2>3. Expiring(d)' <=> Expiring(d) /\ d # c BY <1>3 DEF Expiring
  <2>4. Placed(d)' <=> Placed(d) /\ d # c
    BY <1>5, <1>6, <2>2 DEF Queued, Placed
  <2>5. Prompting(d)' => shown' # d /\ ~Queued(d)'
    BY <1>6, <2>1, <2>2 DEF Queued, PromptOK, PlacedOK
  <2>6. UNCHANGED <<storeVars, calls, rendered, chosen, heard>> BY DEF HandleExpired, userVars
  <2>7. ScreenOK(d)'
    <3>1. d # c /\ shown = d => shown' = d BY DEF HandleExpired
    <3> QED BY <1>4, <2>1, <2>4, <2>6, <3>1
            DEF storeVars, PromptOK, PlacedOK, ScreenOK, Placed
  <2> QED BY <1>4, <2>1, <2>3, <2>4, <2>5, <2>6, <2>7
          DEF storeVars, PromptOK, IdleOK, PlacedOK, LiveOK, AnswerOK, Live, Called
<1>9. ASSUME NEW d \in Checks PROVE (check[d] # "idle" => key[d] \in Keys)'
  BY DEF IInv, HandleExpired, storeVars, boxVars, userVars
<1> QED BY <1>7, <1>8, <1>9 DEF IInv

LEMMA RespondInv ==
    ASSUME IInv, NEW a \in Answers, Respond(a)
    PROVE  IInv'
<1> USE PromptAssumption
<1>0. PICK c \in Checks : shown = c BY DEF IInv, TypeOK, Respond
<1>1. TypeOK /\ PlacesOK /\ shown = c /\ shown # None /\ Advance
  BY <1>0 DEF IInv, Respond
<1>2. PromptOK(c) BY <1>1 DEF IInv
<1>3. ~In(c, queue) /\ ~Prompting(c) /\ heard[c] = None
  BY <1>1, <1>2 DEF PlacesOK, PromptOK, PlacedOK, Placed
<1>4. /\ queue' \in Seq(Checks) /\ Once(queue') /\ ~In(shown', queue')
      /\ shown' \in Checks \cup {None}
      /\ \A x \in Checks : shown' = x \/ In(x, queue') <=> In(x, queue)
  BY <1>1, AdvanceFacts
<1>5. calls' = calls \cup {<<c, a>>} /\ UNCHANGED <<storeVars, events, verified>>
  BY <1>1 DEF Respond, Answered
<1>a. /\ rendered \in Checks /\ rendered' = shown'
      /\ chosen' = [chosen EXCEPT ![rendered] = a]
      /\ heard' = [heard EXCEPT ![c] = a]
  BY <1>1 DEF Respond, TypeOK
<1>b. rendered # c => ~Placed(rendered) /\ check[rendered] = "rejected"
  BY <1>1, <1>a DEF IInv, PromptOK, ScreenOK
<1>6. /\ PlacesOK' /\ TypeOK' /\ TickOK'
  <2>1. PlacesOK' BY <1>1, <1>4, <1>5 DEF PlacesOK
  <2>2. TypeOK' BY <1>1, <1>4, <1>5 DEF TypeOK, Respond, storeVars
  <2>3. TickOK'
    <3>1. shown' # None => check[shown'] # "idle"
      BY <1>1, <1>4 DEF IInv, PromptOK, IdleOK, Placed, Queued
    <3> QED BY <1>1, <1>4, <1>5, <3>1 DEF IInv, TypeOK, TickOK, Respond, Changes, storeVars
  <2> QED BY <2>1, <2>2, <2>3
<1>7. ASSUME NEW d \in Checks PROVE PromptOK(d)'
  <2>1. PromptOK(d) BY DEF IInv
  <2>2. Prompting(d)' <=> Prompting(d) BY <1>5 DEF Prompting
  <2>3. Expiring(d)' <=> Expiring(d) BY <1>5 DEF Expiring
  <2>4. Placed(d)' <=> Placed(d) /\ d # c
    BY <1>1, <1>3, <1>4, <2>1, <2>2 DEF Queued, Placed, PromptOK, PlacedOK
  <2>5. Prompting(d)' => shown' # d /\ ~Queued(d)'
    BY <1>4, <2>1, <2>2 DEF Queued, PromptOK, PlacedOK
  <2>6. /\ d # c => heard'[d] = heard[d]
        /\ d # rendered => chosen'[d] = chosen[d]
        /\ d = rendered => ~Placed(d)'  /\ check[d] # "idle"
    BY <1>1, <1>2, <1>a, <1>b, <2>4 DEF TypeOK, PromptOK, IdleOK, Placed
  <2>9. ScreenOK(d)'
    <3>1. Placed(d)' => check[d] # "idle" BY <2>1, <2>4 DEF PromptOK, IdleOK
    <3>2. rendered' = d => Placed(d)' BY <1>a DEF Placed
    <3> QED BY <1>5, <1>a, <3>1, <3>2 DEF ScreenOK, storeVars
  <2>7. CASE d = c
    <3>1. Placed(c) BY <1>1 DEF Placed
    <3>2. \A b \in Answers : <<c, b>> \notin calls BY <1>2, <1>3 DEF PromptOK, AnswerOK
    <3>a. heard[c] \notin {"once", "always"} BY <1>3 DEF Answers
    <3>3. /\ heard'[c] = a /\ answer[c] = None /\ check[c] # "idle"
          /\ check[c] = "accepted" => reason[c] = "trusted"
      <4>1. heard'[c] = a BY <1>1, <1>a DEF TypeOK
      <4>2. check[c] # "idle" BY <1>2, <3>1 DEF PromptOK, IdleOK
      <4>3. answer[c] = None BY <1>2, <1>3 DEF PromptOK, AnswerOK
      <4>4. check[c] = "accepted" => reason[c] = "trusted"
        BY <1>2, <3>a DEF PromptOK, AnswerOK
      <4> QED BY <4>1, <4>2, <4>3, <4>4
    <3>4. Called(c)' BY <1>5 DEF Called
    <3>5. \A b \in Answers : <<c, b>> \in calls' => b = a BY <1>5, <3>2
    <3>6. /\ check' = check /\ answer' = answer /\ reason' = reason /\ waiters' = waiters
      BY <1>5 DEF storeVars, boxVars, userVars
    <3>7. IdleOK(c)' BY <3>3, <3>6 DEF IdleOK
    <3>8. PlacedOK(c)' BY <2>4, <2>5, <2>7 DEF PlacedOK
    <3>9. LiveOK(c)' BY <1>2, <2>3, <2>7, <3>4, <3>6 DEF PromptOK, LiveOK, Live
    <3>10. AnswerOK(c)' BY <3>3, <3>5, <3>6 DEF AnswerOK
    <3> QED BY <2>7, <2>9, <3>7, <3>8, <3>9, <3>10 DEF PromptOK
  <2>8. CASE d # c
    <3>1. /\ heard'[d] = heard[d]
          /\ Placed(d)' \/ check[d] = "idle" => chosen'[d] = chosen[d]
      BY <2>6, <2>8
    <3>3. UNCHANGED <<check, answer, reason, waiters>> BY <1>5 DEF storeVars
    <3>4. IdleOK(d)' BY <2>1, <2>4, <3>1, <3>3 DEF PromptOK, IdleOK
    <3>5. PlacedOK(d)' BY <2>1, <2>3, <2>4, <2>5, <2>8, <3>1, <3>3 DEF PromptOK, PlacedOK, Live
    <3>2. \A b \in Answers : <<d, b>> \in calls' <=> <<d, b>> \in calls BY <1>5, <2>8
    <3>6. LiveOK(d)' BY <2>1, <2>3, <2>4, <2>8, <3>2, <3>3 DEF PromptOK, LiveOK, Live, Called
    <3>7. AnswerOK(d)' BY <2>1, <3>1, <3>2, <3>3 DEF PromptOK, AnswerOK
    <3> QED BY <2>9, <3>4, <3>5, <3>6, <3>7 DEF PromptOK
  <2> QED BY <2>7, <2>8
<1>8. ASSUME NEW d \in Checks PROVE (check[d] # "idle" => key[d] \in Keys)'
  BY <1>5 DEF IInv, storeVars, boxVars, userVars
<1> QED BY <1>6, <1>7, <1>8 DEF IInv

LEMMA NextInv == IInv /\ [Next]_vars => IInv'
<1> SUFFICES ASSUME IInv, [Next]_vars PROVE IInv' OBVIOUS
<1>1. CASE Renderer
  BY <1>1, RenderInv, ClearTickInv, HandlePromptInv, HandleExpiredInv DEF Renderer
<1>2. CASE \E c \in Checks : Backend(c)
  BY <1>2, DecideInv, TimeoutFiresInv, ExpireInv, ResolveInv DEF Backend
<1>3. CASE \E c \in Checks, k \in Keys : CheckTrusted(c, k) \/ CheckAsks(c, k)
  BY <1>3, CheckTrustedInv, CheckAsksInv
<1>4. CASE ToggleVerified \/ \E a \in Answers : Respond(a)
  BY <1>4, ToggleVerifiedInv, RespondInv
<1>5. CASE \E h \in Hosts, k \in Keys \cup {None} : EditKnownHosts(h, k)
  BY <1>5, EditKnownHostsInv
<1>6. CASE UNCHANGED vars
  <2>1. UNCHANGED <<events, shown, queue>> BY <1>6 DEF vars, dialogVars, boxVars, userVars
  <2>2. PlacesOK' BY <2>1, SamePlaces DEF IInv
  <2>3. TypeOK' /\ TickOK'
    BY <1>6 DEF IInv, TypeOK, TickOK, vars, storeVars, dialogVars, boxVars, userVars
  <2>4. ASSUME NEW d \in Checks PROVE PromptOK(d)' /\ (check[d] # "idle" => key[d] \in Keys)'
    <3>1. PromptOK(d) /\ (check[d] # "idle" => key[d] \in Keys) BY DEF IInv
    <3>2. /\ Prompting(d)' = Prompting(d) /\ Expiring(d)' = Expiring(d)
          /\ Queued(d)' = Queued(d)
      BY <2>1 DEF Prompting, Expiring, Queued
    <3> QED BY <1>6, <3>1, <3>2
            DEF vars, storeVars, dialogVars, boxVars, userVars, PromptOK, IdleOK, PlacedOK,
                LiveOK, AnswerOK, ScreenOK,
                Placed, Live, Called
  <2> QED BY <2>2, <2>3, <2>4 DEF IInv
<1> QED BY <1>1, <1>2, <1>3, <1>4, <1>5, <1>6 DEF Next

LEMMA Invariance == Spec => []IInv
BY InitInv, NextInv, PTL DEF Spec

-----------------------------------------------------------------------------
(* The theorems                                                            *)

\* Every variable keeps its type: a request id, never anything else, is shown,
\* queued and answered (hostKeyShownRef, hostKeyQueueRef).
THEOREM TypeCorrect == Spec => []TypeOK
<1>1. IInv => TypeOK BY DEF IInv
<1> QED BY <1>1, Invariance, PTL

\* check_server_key lets a server in that the store did not vouch for only on the
\* yes that was sent for that very request.
THEOREM AcceptedOnRequestHolds == Spec => []AcceptedOnRequest
<1>1. IInv => AcceptedOnRequest BY DEF IInv, AcceptedOnRequest, PromptOK, AnswerOK
<1> QED BY <1>1, Invariance, PTL

\* A waiter of HostKeyWaiters always has its prompt or its answer on the way.
THEOREM NoPromptLostHolds == Spec => []NoPromptLost
<1>1. IInv => NoPromptLost
  <2> SUFFICES ASSUME IInv, NEW c \in waiters
               PROVE  \/ \E i \in 1..Len(events) : events[i][2] = c
                      \/ shown = c
                      \/ \E i \in 1..Len(queue) : queue[i] = c
                      \/ \E a \in Answers : <<c, a>> \in calls
    BY DEF NoPromptLost
  <2>1. c \in Checks BY DEF IInv, TypeOK
  <2>2. Placed(c) \/ Called(c) BY <2>1 DEF IInv, PromptOK, LiveOK
  <2>3. Prompting(c) => \E i \in 1..Len(events) : events[i][2] = c BY DEF Prompting, In
  <2> QED BY <2>2, <2>3 DEF Placed, Called, Queued, In
<1> QED BY <1>1, Invariance, PTL

\* A prompt whose check no longer waits is taken out of the dialog and its queue
\* by the event that says so (onHostKeyExpired).
THEOREM NoDeadPromptHolds == Spec => []NoDeadPrompt
<1>1. IInv => NoDeadPrompt
  <2> SUFFICES ASSUME IInv, events = <<>>, NEW c \in Checks,
                      shown = c \/ (\E i \in 1..Len(queue) : queue[i] = c)
               PROVE  check[c] \in {"asking", "expiring"} /\ answer[c] = None
    BY DEF NoDeadPrompt
  <2>1. Placed(c) BY DEF Placed, Queued, In
  <2>2. ~Expiring(c) BY DEF Expiring, In
  <2> QED BY <2>1, <2>2 DEF IInv, PromptOK, PlacedOK, Live
<1> QED BY <1>1, Invariance, PTL

\* However the dialog of HostKeyConfirmModal moves from prompt to prompt, a yes to a
\* changed key needs a tick given for its host and key, outside the two moments at
\* which the dialog is behind the ref or its box not yet cleared.
THEOREM TrustIsVerifiedHolds == Spec => TrustIsVerified
<1> DEFINE Verified ==
      \A c \in Checks : Trusts(c) => TickedFor(c) \/ rendered # c \/ clearing
<1>1. IInv /\ [Next]_vars => [Verified]_vars
  <2> SUFFICES ASSUME IInv, Next, NEW c \in Checks, Trusts(c), rendered = c, ~clearing
               PROVE  TickedFor(c)
    OBVIOUS
  <2>1. heard' # heard BY DEF Trusts
  <2>2. PICK a \in Answers : Respond(a)
    BY <2>1
    DEF Next, Backend, Renderer, CheckTrusted, CheckAsks, Decide, TimeoutFires, Expire, Resolve,
        EditKnownHosts, HandlePrompt, HandleExpired, Render, ClearTick, ToggleVerified, userVars
  <2>3. heard' = [heard EXCEPT ![shown] = a] BY <2>2 DEF Respond
  <2>4. shown = c BY <2>3 DEF Trusts, IInv, TypeOK
  <2>5. a # "no" BY <2>3, <2>4 DEF Trusts, IInv, TypeOK
  <2>6. verified # None BY <2>2, <2>5 DEF Respond, CanTrust, Trusts
  <2> QED BY <2>6 DEF IInv, TypeOK, TickOK, TickedFor
<1> QED BY <1>1, Invariance, PTL DEF Spec, TrustIsVerified

\* A decision of check_server_key writes the store only on "always", and then the
\* key of its own request under its own host.
THEOREM RecordedOnAlwaysHolds == Spec => RecordedOnAlways
<1> DEFINE Recorded ==
      \A c \in Checks :
          check[c] # check'[c] =>
              \/ known' = known
              \/ /\ heard[c] = "always"
                 /\ known' = [known EXCEPT ![HostOf[c]] = key[c]]
<1>1. IInv /\ [Next]_vars => [Recorded]_vars
  <2> SUFFICES ASSUME IInv, Next, NEW c \in Checks, check[c] # check'[c], known' # known
               PROVE  heard[c] = "always" /\ known' = [known EXCEPT ![HostOf[c]] = key[c]]
    OBVIOUS
  <2>1. PICK d \in Checks : Decide(d)
    BY DEF Next, Backend, Renderer, CheckTrusted, CheckAsks, TimeoutFires, Expire, Resolve,
           EditKnownHosts, HandlePrompt, HandleExpired, Render,
           ClearTick, ToggleVerified, Respond, storeVars
  <2>2. d = c BY <2>1 DEF Decide, IInv, TypeOK
  <2>3. answer[c] = "always" /\ answer[c] # None BY <2>1, <2>2 DEF Decide
  <2> QED BY <2>1, <2>2, <2>3 DEF Decide, IInv, PromptOK, AnswerOK
<1> QED BY <1>1, Invariance, PTL DEF Spec, RecordedOnAlways
-----------------------------------------------------------------------------
(* The promise made to the user                                            *)

\* A question that runs was put because the store did not vouch for the key.
AskedInv ==
    \A c \in Checks : check[c] \in {"asking", "expiring"} => reason[c] # "trusted"

LEMMA AskedInvariance == Spec => []AskedInv
<1>1. Init => AskedInv
  BY DEF Init, AskedInv
<1>2. TypeOK /\ AskedInv /\ [Next]_vars => AskedInv'
  <2> SUFFICES ASSUME TypeOK, AskedInv, [Next]_vars, NEW d \in Checks,
                      check'[d] \in {"asking", "expiring"}
               PROVE  reason'[d] # "trusted"
    BY DEF AskedInv
  <2>1. CASE \E c \in Checks, k \in Keys : CheckAsks(c, k)
    BY <2>1 DEF CheckAsks, TypeOK, AskedInv
  <2>2. CASE \E c \in Checks : Decide(c) \/ TimeoutFires(c) \/ Expire(c)
    BY <2>2 DEF Decide, TimeoutFires, Expire, TypeOK, AskedInv
  <2>3. CASE \E c \in Checks, k \in Keys : CheckTrusted(c, k)
    BY <2>3 DEF CheckTrusted, TypeOK, AskedInv
  <2>4. CASE UNCHANGED <<check, reason>>
    BY <2>4 DEF AskedInv
  <2> QED
    BY <2>1, <2>2, <2>3, <2>4
    DEF Next, Backend, Renderer, Resolve, EditKnownHosts, HandlePrompt, HandleExpired, Render,
        ClearTick, ToggleVerified, Respond, storeVars, vars
<1> QED
  BY <1>1, <1>2, TypeCorrect, PTL DEF Spec

LEMMA SameQuestions == Promise!Hosts = Hosts /\ Promise!Answers = Answers
BY DEF Promise!Hosts, Hosts, Promise!Answers, Answers

\* The stages of all checks, when one of them moves or none does.
LEMMA StageMoves ==
    ASSUME NEW c \in Checks, NEW s,
           \A d \in Checks : d # c => check'[d] = check[d] /\ reason'[d] = reason[d],
           Stage(c)' = s
    PROVE  [d \in Checks |-> Stage(d)]' = [[d \in Checks |-> Stage(d)] EXCEPT ![c] = s]
<1>1. ASSUME NEW d \in Checks, d # c PROVE Stage(d)' = Stage(d)
  <2>1. check'[d] = check[d] /\ reason'[d] = reason[d]
    BY <1>1
  <2> QED
    BY <2>1 DEF Stage
<1>2. [d \in Checks |-> Stage(d)]' = [d \in Checks |-> Stage(d)']
  OBVIOUS
<1> QED
  BY <1>1, <1>2

LEMMA StagesKept ==
    ASSUME \A d \in Checks : Stage(d)' = Stage(d)
    PROVE  [d \in Checks |-> Stage(d)]' = [d \in Checks |-> Stage(d)]
<1>1. [d \in Checks |-> Stage(d)]' = [d \in Checks |-> Stage(d)']
  OBVIOUS
<1> QED
  BY <1>1

LEMMA InitMaps == Init => Promise!Init
<1> SUFFICES ASSUME Init PROVE Promise!Init
  OBVIOUS
<1>1. \A c \in Checks : Stage(c) = "new"
  BY DEF Init, Stage
<1> QED
  BY <1>1, SameQuestions DEF Init, Promise!Init

LEMMA CheckTrustedMaps ==
    ASSUME IInv, NEW c \in Checks, NEW k \in Keys, CheckTrusted(c, k)
    PROVE  Promise!Vouch(c, k)
<1>1. check[c] = "idle" /\ reason[c] = "trusted"
  BY DEF IInv, PromptOK, IdleOK, CheckTrusted
<1>2. Stage(c) = "new"
  BY <1>1 DEF Stage
<1>3. check' = [check EXCEPT ![c] = "accepted"] /\ reason' = reason
  BY DEF CheckTrusted
<1>4. check \in [Checks -> {"idle", "asking", "expiring", "accepted", "rejected"}]
  BY DEF IInv, TypeOK
<1>5. Stage(c)' = "vouched"
  BY <1>1, <1>3, <1>4 DEF Stage
<1>6. [d \in Checks |-> Stage(d)]' = [[d \in Checks |-> Stage(d)] EXCEPT ![c] = "vouched"]
  BY <1>3, <1>4, <1>5, StageMoves
<1> QED
  BY <1>2, <1>6 DEF userVars, CheckTrusted, Promise!Vouch, Promise!Becomes

LEMMA CheckAsksMaps ==
    ASSUME IInv, NEW c \in Checks, NEW k \in Keys, CheckAsks(c, k)
    PROVE  Promise!Ask(c, k)
<1>1. Stage(c) = "new"
  BY DEF CheckAsks, Stage
<1>2. /\ check' = [check EXCEPT ![c] = "asking"]
      /\ \A d \in Checks : d # c => reason'[d] = reason[d]
  BY DEF CheckAsks, IInv, TypeOK
<1>3. check \in [Checks -> {"idle", "asking", "expiring", "accepted", "rejected"}]
  BY DEF IInv, TypeOK
<1>4. Stage(c)' = "asked"
  BY <1>2, <1>3 DEF Stage
<1>5. [d \in Checks |-> Stage(d)]' = [[d \in Checks |-> Stage(d)] EXCEPT ![c] = "asked"]
  BY <1>2, <1>3, <1>4, StageMoves
<1> QED
  BY <1>1, <1>5 DEF userVars, CheckAsks, Promise!Ask, Promise!Becomes

\* The answer that is taken up is the one that was sent for this request.
LEMMA DecideMaps ==
    ASSUME IInv, AskedInv, NEW c \in Checks, Decide(c)
    PROVE  Promise!Accept(c) \/ Promise!Refuse(c)
<1>1. /\ check[c] = "asking" /\ answer[c] = heard[c] /\ reason[c] # "trusted"
      /\ check \in [Checks -> {"idle", "asking", "expiring", "accepted", "rejected"}]
  BY DEF Decide, IInv, TypeOK, PromptOK, AnswerOK, AskedInv
<1>2. Stage(c) = "asked"
  BY <1>1 DEF Stage
<1>3. CASE Accepts(answer[c])
  <2>1. check' = [check EXCEPT ![c] = "accepted"] /\ reason' = reason
    BY <1>3 DEF Decide
  <2>2. Stage(c)' = "accepted"
    BY <1>1, <2>1 DEF Stage
  <2>3. [d \in Checks |-> Stage(d)]' = [[d \in Checks |-> Stage(d)] EXCEPT ![c] = "accepted"]
    BY <1>1, <2>1, <2>2, StageMoves
  <2> QED
    BY <1>1, <1>2, <1>3, <2>3 DEF userVars, Decide, Accepts, Promise!Accept, Promise!Becomes
<1>4. CASE ~Accepts(answer[c])
  <2>1. check' = [check EXCEPT ![c] = "rejected"] /\ reason' = reason /\ known' = known
    BY <1>4 DEF Decide, Accepts
  <2>2. Stage(c)' = "refused"
    BY <1>1, <2>1 DEF Stage
  <2>3. [d \in Checks |-> Stage(d)]' = [[d \in Checks |-> Stage(d)] EXCEPT ![c] = "refused"]
    BY <1>1, <2>1, <2>2, StageMoves
  <2> QED
    BY <1>2, <2>1, <2>3 DEF userVars, Decide, Promise!Refuse, Promise!Becomes
<1> QED
  BY <1>3, <1>4

LEMMA ExpireMaps ==
    ASSUME IInv, NEW c \in Checks, Expire(c)
    PROVE  Promise!Refuse(c)
<1>1. check \in [Checks -> {"idle", "asking", "expiring", "accepted", "rejected"}]
  BY DEF IInv, TypeOK
<1>2. Stage(c) = "asked"
  BY DEF Expire, Stage
<1>3. check' = [check EXCEPT ![c] = "rejected"] /\ reason' = reason
  BY DEF Expire
<1>4. Stage(c)' = "refused"
  BY <1>1, <1>3 DEF Stage
<1>5. [d \in Checks |-> Stage(d)]' = [[d \in Checks |-> Stage(d)] EXCEPT ![c] = "refused"]
  BY <1>1, <1>3, <1>4, StageMoves
<1> QED
  BY <1>2, <1>5 DEF userVars, Expire, Promise!Refuse, Promise!Becomes

\* A button answers the request on the screen, or another one, when that has run out.
LEMMA RespondMaps ==
    ASSUME IInv, NEW a \in Answers, Respond(a)
    PROVE  Promise!Say(shown, a) \/ Promise!Slip(rendered, shown, a)
<1>1. shown \in Checks /\ rendered \in Checks
  BY DEF IInv, TypeOK, Respond
<1>2. Promise!Open(shown)
  <2>1. chosen[shown] = None /\ heard[shown] = None /\ (Live(shown) \/ Expiring(shown))
    BY <1>1 DEF IInv, PromptOK, PlacedOK, Placed
  <2>2. check[shown] \in {"asking", "expiring", "rejected"}
    BY <1>1, <2>1 DEF IInv, PromptOK, LiveOK, Live
  <2>3. Stage(shown) \in {"asked", "refused"}
    BY <2>2 DEF Stage
  <2> QED
    BY <1>1, <2>1, <2>3 DEF Promise!Open
<1>3. \A d \in Checks : Stage(d)' = Stage(d)
  BY DEF Respond, storeVars, Stage
<1>4. Promise!Counts(rendered, shown, a)
  BY <1>3, StagesKept DEF Respond, storeVars, Promise!Counts
<1>5. CASE rendered = shown
  BY <1>2, <1>4, <1>5 DEF Promise!Say
<1>6. CASE rendered # shown
  <2>1. check[rendered] = "rejected" /\ chosen[rendered] = None /\ heard[rendered] = None
    BY <1>1, <1>6 DEF IInv, PromptOK, ScreenOK
  <2>2. Stage(rendered) = "refused"
    BY <2>1 DEF Stage
  <2> QED
    BY <1>1, <1>2, <1>4, <1>6, <2>1, <2>2 DEF Promise!Slip, Promise!Open
<1> QED
  BY <1>5, <1>6

\* Each step of the check, the store and the renderer is one of the promise, or none.
LEMMA StepMaps == IInv /\ AskedInv /\ [Next]_vars => [Promise!Next]_Promise!vars
<1> SUFFICES ASSUME IInv, AskedInv, [Next]_vars PROVE [Promise!Next]_Promise!vars
  OBVIOUS
<1>1. ASSUME \A c \in Checks : Stage(c)' = Stage(c), UNCHANGED <<key, chosen, heard, known>>
      PROVE  UNCHANGED Promise!vars
  BY <1>1, StagesKept DEF Promise!vars
<1>2. CASE \E c \in Checks, k \in Keys : CheckTrusted(c, k) \/ CheckAsks(c, k)
  BY <1>2, CheckTrustedMaps, CheckAsksMaps DEF Promise!Next
<1>3. CASE \E c \in Checks : Decide(c) \/ Expire(c)
  BY <1>3, DecideMaps, ExpireMaps DEF Promise!Next
<1>4. ASSUME NEW a \in Answers, Respond(a) PROVE Promise!Next
  <2>1. shown \in Checks /\ rendered \in Checks
    BY <1>4 DEF IInv, TypeOK, Respond
  <2> QED
    BY <1>4, <2>1, RespondMaps, SameQuestions DEF Promise!Next
<1>5. ASSUME NEW c \in Checks, TimeoutFires(c) PROVE UNCHANGED Promise!vars
  <2>1. \A d \in Checks : Stage(d)' = Stage(d)
    BY <1>5 DEF TimeoutFires, Stage, IInv, TypeOK
  <2> QED
    BY <1>1, <1>5, <2>1 DEF userVars, TimeoutFires
<1>6. ASSUME NEW h \in Hosts, NEW k \in Keys \cup {None}, EditKnownHosts(h, k)
      PROVE  Promise!Next
  <2>1. \A d \in Checks : Stage(d)' = Stage(d)
    BY <1>6 DEF EditKnownHosts, Stage
  <2>2. Promise!Edit(h, k)
    BY <1>6, <2>1, StagesKept DEF userVars, EditKnownHosts, Promise!Edit
  <2> QED
    BY <2>2, SameQuestions DEF Promise!Next
<1>7. CASE UNCHANGED <<check, reason, key, chosen, heard, known>>
  <2>1. \A d \in Checks : Stage(d)' = Stage(d)
    BY <1>7 DEF Stage
  <2> QED
    BY <1>1, <1>7, <2>1
<1>8. ASSUME \/ Renderer \/ ToggleVerified \/ UNCHANGED vars
             \/ \E c \in Checks, a \in Answers : Resolve(c, a)
      PROVE  UNCHANGED <<check, reason, key, chosen, heard, known>>
  BY <1>8
  DEF Renderer, Render, ClearTick, HandlePrompt, HandleExpired, ToggleVerified, Resolve, storeVars,
      userVars, vars
<1> QED
  BY <1>2, <1>3, <1>4, <1>5, <1>6, <1>7, <1>8 DEF Next, Backend

\* The waiters, the events, the dialog with its queue and the timers implement the
\* promise made to the user about server keys.
THEOREM PromiseKept == Spec => KeepsPromise
<1> QED
  BY InitMaps, StepMaps, Invariance, AskedInvariance, PTL DEF Spec, KeepsPromise, Promise!Spec
=============================================================================

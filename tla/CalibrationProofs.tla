-------------------------- MODULE CalibrationProofs --------------------------
(***************************************************************************)
(* Theorems of Calibration, for every number of callers, groups, calls and *)
(* retries.                                                                *)
(***************************************************************************)
EXTENDS Calibration, SequenceTheorems, TLAPS

\* A caller waits for the lock once.
WaitsOnce == \A i, j \in DOMAIN waiters : waiters[i] = waiters[j] => i = j

\* The gates let no other coil through.
Targets == \A c \in Callers : phase[c] # "idle" => target(c) \in Coils

\* A pulse that has made its transition holds its coil up until the off write.
EdgeHeld ==
  \A c \in Callers :
    /\ phase[c] = "queued" => edges[c] = 0
    /\ phase[c] = "on" /\ edges[c] = 1 => coil[target(c)] = 1

\* What the pulse of a caller is worth once its coil is up.
Worth(c) == edges[c] = 1 \/ target(c) \in abandoned
PulseWorth ==
  \A c \in Callers :
    /\ phase[c] = "on" /\ coil[target(c)] = 1 => Worth(c)
    /\ phase[c] \in {"readback", "off"} => Worth(c)

\* A call that is under way has no result yet.
Pending == \A c \in Callers : phase[c] # "idle" => result[c] = "none"

IInv ==
  /\ TypeOK
  /\ Pending
  /\ OnePulseAtATime
  /\ AtMostOneTrigger
  /\ WaitsOnce
  /\ Targets
  /\ EdgeHeld
  /\ PulseWorth
  /\ RaisedCoilExplained
-----------------------------------------------------------------------------
\* The queue

\* Taking an entry out of the queue keeps the others once each.
LEMMA Dequeue ==
  ASSUME NEW S, NEW q \in Seq(S), NEW i \in 1..Len(q),
         \A a, b \in DOMAIN q : q[a] = q[b] => a = b
  PROVE  LET r == RemoveAt(q, i)
         IN  /\ r \in Seq(S)
             /\ \A a, b \in DOMAIN r : r[a] = r[b] => a = b
             /\ \A e : (\E a \in DOMAIN r : r[a] = e) <=> (e # q[i] /\ \E a \in DOMAIN q : q[a] = e)
<1> DEFINE front == SubSeq(q, 1, i - 1)
           back == SubSeq(q, i + 1, Len(q))
           r == RemoveAt(q, i)
<1>1. Len(q) \in Nat /\ DOMAIN q = 1..Len(q) /\ \A a \in 1..Len(q) : q[a] \in S
  BY LenProperties, ElementOfSeq
<1>2. /\ front \in Seq(S) /\ Len(front) = i - 1
      /\ \A a \in 1..(i - 1) : front[a] = q[a]
  <2>1. \A a \in 1..(i - 1) : q[a] \in S
    BY <1>1
  <2>2. /\ front \in Seq(S)
        /\ Len(front) = IF 1 <= i - 1 THEN i - 1 - 1 + 1 ELSE 0
        /\ \A a \in 1..(i - 1 - 1 + 1) : front[a] = q[1 + a - 1]
    BY <2>1, <1>1, SubSeqProperties
  <2> QED
    BY <2>2, <1>1
<1>3. /\ back \in Seq(S) /\ Len(back) = Len(q) - i
      /\ \A a \in 1..(Len(q) - i) : back[a] = q[a + i]
  <2>1. \A a \in (i + 1)..Len(q) : q[a] \in S
    BY <1>1
  <2>2. i + 1 \in Int /\ Len(q) \in Int /\ Len(q) - (i + 1) + 1 = Len(q) - i
    BY <1>1
  <2>3. /\ back \in Seq(S)
        /\ Len(back) = IF i + 1 <= Len(q) THEN Len(q) - (i + 1) + 1 ELSE 0
        /\ \A a \in 1..(Len(q) - (i + 1) + 1) : back[a] = q[i + 1 + a - 1]
    BY <2>1, <2>2, SubSeqProperties
  <2> HIDE DEF back
  <2>4. Len(back) = Len(q) - i
    <3>1. CASE i + 1 <= Len(q)
      BY <2>2, <2>3, <3>1
    <3>2. CASE ~(i + 1 <= Len(q))
      <4>1. Len(back) = 0
        BY <2>3, <3>2
      <4>2. Len(q) - i = 0
        <5>1. Len(q) \in Nat
          BY <1>1
        <5> QED
          BY <5>1, <3>2
      <4> QED
        BY <4>1, <4>2
    <3> QED
      BY <3>1, <3>2
  <2>5. ASSUME NEW a \in 1..(Len(q) - i) PROVE back[a] = q[a + i]
    <3>1. back[a] = q[i + 1 + a - 1]
      BY <2>2, <2>3
    <3>2. i + 1 + a - 1 = a + i
      BY <1>1
    <3> QED
      BY <3>1, <3>2
  <2> QED
    BY <2>3, <2>4, <2>5
<1>4. r = front \o back
  BY DEF RemoveAt
<1> HIDE DEF front, back, r
<1>5. /\ r \in Seq(S) /\ Len(r) = Len(q) - 1
      /\ \A a \in 1..(Len(q) - 1) : r[a] = IF a < i THEN q[a] ELSE q[a + 1]
  <2>1. /\ r \in Seq(S) /\ Len(r) = Len(front) + Len(back)
        /\ \A a \in 1..(Len(front) + Len(back)) :
             r[a] = IF a <= Len(front) THEN front[a] ELSE back[a - Len(front)]
    BY <1>2, <1>3, <1>4, ConcatProperties
  <2>2. Len(r) = Len(q) - 1
    BY <2>1, <1>1, <1>2, <1>3
  <2>3. ASSUME NEW a \in 1..(Len(q) - 1) PROVE r[a] = IF a < i THEN q[a] ELSE q[a + 1]
    <3>1. r[a] = IF a <= Len(front) THEN front[a] ELSE back[a - Len(front)]
      BY <2>1, <1>1, <1>2, <1>3
    <3>2. CASE a < i
      BY <3>1, <3>2, <1>1, <1>2
    <3>3. CASE ~(a < i)
      <4>1. a - (i - 1) \in 1..(Len(q) - i) /\ a - (i - 1) + i = a + 1
        BY <3>3, <1>1
      <4>2. back[a - (i - 1)] = q[a - (i - 1) + i]
        BY <4>1, <1>3
      <4> QED
        BY <3>1, <3>3, <4>1, <4>2, <1>1, <1>2
    <3> QED
      BY <3>2, <3>3
  <2> QED
    BY <2>1, <2>2, <2>3
<1>6. DOMAIN r = 1..(Len(q) - 1)
  BY <1>5, LenProperties
<1>7. \A a, b \in DOMAIN r : r[a] = r[b] => a = b
  BY <1>1, <1>5, <1>6, SMTT(30)
<1>8. ASSUME NEW e PROVE (\E a \in DOMAIN r : r[a] = e) <=> (e # q[i] /\ \E a \in DOMAIN q : q[a] = e)
  <2>1. ASSUME NEW a \in DOMAIN r, r[a] = e PROVE e # q[i] /\ \E b \in DOMAIN q : q[b] = e
    BY <2>1, <1>1, <1>5, <1>6
  <2>2. ASSUME NEW a \in DOMAIN q, q[a] = e, e # q[i] PROVE \E b \in DOMAIN r : r[b] = e
    <3>1. CASE a < i
      BY <3>1, <2>2, <1>1, <1>5, <1>6
    <3>2. CASE a > i
      <4>1. a - 1 \in DOMAIN r /\ r[a - 1] = e
        BY <3>2, <2>2, <1>1, <1>5, <1>6
      <4> QED
        BY <4>1
    <3> QED
      BY <3>1, <3>2, <2>2, <1>1
  <2> QED
    BY <2>1, <2>2
<1> QED
  BY <1>5, <1>7, <1>8 DEF r

\* The first waiter leaves the queue; the others stay once each.
LEMMA FirstServed ==
  ASSUME NEW S, NEW q \in Seq(S), q # <<>>,
         \A a, b \in DOMAIN q : q[a] = q[b] => a = b
  PROVE  /\ Head(q) \in S /\ Head(q) = q[1] /\ 1 \in DOMAIN q
         /\ Tail(q) \in Seq(S)
         /\ \A a, b \in DOMAIN Tail(q) : Tail(q)[a] = Tail(q)[b] => a = b
         /\ \A e : (\E a \in DOMAIN Tail(q) : Tail(q)[a] = e) <=>
                     (e # Head(q) /\ \E a \in DOMAIN q : q[a] = e)
<1>1. /\ Head(q) \in S /\ Tail(q) \in Seq(S) /\ Len(Tail(q)) = Len(q) - 1
      /\ \A i \in 1..Len(Tail(q)) : Tail(q)[i] = q[i + 1]
  BY HeadTailProperties
<1>2. Len(q) \in Nat \ {0} /\ DOMAIN q = 1..Len(q) /\ DOMAIN Tail(q) = 1..(Len(q) - 1)
  BY <1>1, LenProperties, EmptySeq
<1>3. Head(q) = q[1]
  OBVIOUS
<1>4. ASSUME NEW e PROVE (\E a \in DOMAIN Tail(q) : Tail(q)[a] = e) <=>
                            (e # Head(q) /\ \E a \in DOMAIN q : q[a] = e)
  <2>1. ASSUME NEW a \in DOMAIN Tail(q), Tail(q)[a] = e
        PROVE e # Head(q) /\ \E b \in DOMAIN q : q[b] = e
    BY <2>1, <1>1, <1>2, <1>3
  <2>2. ASSUME NEW a \in DOMAIN q, q[a] = e, e # Head(q)
        PROVE \E b \in DOMAIN Tail(q) : Tail(q)[b] = e
    <3>1. a - 1 \in DOMAIN Tail(q) /\ Tail(q)[a - 1] = e
      BY <2>2, <1>1, <1>2, <1>3
    <3> QED
      BY <3>1
  <2> QED
    BY <2>1, <2>2
<1> QED
  BY <1>1, <1>2, <1>3, <1>4

-----------------------------------------------------------------------------
\* The analyser

\* Whoever is in its pulse is alone in one.
LEMMA Alone ==
  ASSUME IInv, NEW c \in Callers, InPulse(c)
  PROVE  /\ target(c) \in Coils
         /\ \A d \in Callers \ {c} : phase[d] \notin Pulsing
         /\ \A k \in Coils : coil[k] = 1 => k \in abandoned \/ k = target(c)
<1>1. c # None /\ holder = c /\ phase[c] \in Pulsing
  BY CalibrationAssumption DEF InPulse
<1>2. \A d \in Callers \ {c} : phase[d] \notin Pulsing
  BY <1>1 DEF IInv, OnePulseAtATime
<1>3. target(c) \in Coils
  BY <1>1 DEF IInv, Targets, Pulsing
<1> QED
  BY <1>2, <1>3 DEF IInv, RaisedCoilExplained

\* What a transaction of caller c leaves behind, executed or not.
Analysed(c) ==
  /\ coil' \in [Coils -> {0, 1}] /\ active' \in SUBSET Groups
  /\ edges' \in [Callers -> Nat] /\ edges'[c] <= 1
  /\ \A d \in Callers \ {c} : edges'[d] = edges[d]
  /\ \A k \in Coils \ {target(c)} : coil'[k] = coil[k]
  /\ phase[c] = "on" =>
       /\ edges'[c] = 1 => coil'[target(c)] = 1
       /\ coil'[target(c)] = 1 => edges'[c] = 1 \/ target(c) \in abandoned
  /\ phase[c] \in {"readback", "off"} => edges'[c] = edges[c]

LEMMA UntouchedFacts ==
  ASSUME IInv, NEW c \in Callers, InPulse(c), UNCHANGED <<analyser, edges>>
  PROVE  Analysed(c)
<1>1. coil' = coil /\ active' = active /\ edges' = edges
  BY DEF analyser
<1>2. coil \in [Coils -> {0, 1}] /\ active \in SUBSET Groups /\ edges \in [Callers -> Nat]
  BY DEF IInv, TypeOK
<1>3. edges[c] <= 1
  BY DEF IInv, AtMostOneTrigger
<1>4. phase[c] = "on" =>
       /\ edges[c] = 1 => coil[target(c)] = 1
       /\ coil[target(c)] = 1 => edges[c] = 1 \/ target(c) \in abandoned
  BY DEF IInv, EdgeHeld, PulseWorth, Worth
<1> QED
  BY <1>1, <1>2, <1>3, <1>4 DEF Analysed

LEMMA ExecuteFacts ==
  ASSUME IInv, NEW c \in Callers, InPulse(c), Execute(c)
  PROVE  /\ Analysed(c)
         /\ phase[c] = "on" => coil'[target(c)] = 1
         /\ phase[c] = "off" => coil'[target(c)] = 0
<1> DEFINE t == target(c)
<1>1. t \in Coils
  BY Alone
<1>2. /\ coil \in [Coils -> {0, 1}] /\ active \in SUBSET Groups
      /\ edges \in [Callers -> Nat] /\ edges[c] <= 1
  BY DEF IInv, TypeOK, AtMostOneTrigger
<1> HIDE DEF t
<1>3. CASE phase[c] = "on"
  <2>1. coil' = [coil EXCEPT ![t] = 1]
    BY <1>3 DEF Execute, Written, t
  <2>2. coil' \in [Coils -> {0, 1}] /\ coil'[t] = 1 /\ \A k \in Coils \ {t} : coil'[k] = coil[k]
    BY <2>1, <1>1, <1>2
  <2>3. CASE coil[t] = 0
    <3>1. edges[c] = 0
      <4>1. edges[c] # 1
        BY <1>3, <2>3 DEF IInv, EdgeHeld, t
      <4> QED
        BY <4>1, <1>2
    <3>2. edges' = [edges EXCEPT ![c] = @ + 1]
      BY <1>3, <2>3 DEF Execute, Rises, t
    <3>3. edges' \in [Callers -> Nat] /\ edges'[c] = 1 /\ \A d \in Callers \ {c} : edges'[d] = edges[d]
      BY <3>1, <3>2, <1>2
    <3>4. active' \in SUBSET Groups
      BY <1>1, <1>2, <1>3, <2>3 DEF Execute, Rises, Coils, t
    <3> QED
      BY <1>3, <2>2, <3>3, <3>4 DEF Analysed, t
  <2>4. CASE coil[t] # 0
    <3>1. UNCHANGED <<edges, active>>
      BY <2>4 DEF Execute, Rises, t
    <3>2. coil[t] = 1
      BY <2>4, <1>1, <1>2
    <3>3. edges[c] = 1 \/ t \in abandoned
      BY <3>2, <1>3 DEF IInv, PulseWorth, Worth, t
    <3> QED
      BY <1>2, <1>3, <2>2, <3>1, <3>3 DEF Analysed, t
  <2> QED
    BY <2>3, <2>4
<1>4. CASE phase[c] # "on"
  <2>1. UNCHANGED <<edges, active>>
    BY <1>4 DEF Execute, Rises
  <2>2. coil' = IF phase[c] = "off" THEN [coil EXCEPT ![t] = 0] ELSE coil
    BY <1>4 DEF Execute, Written, t
  <2>3. /\ coil' \in [Coils -> {0, 1}]
        /\ \A k \in Coils \ {t} : coil'[k] = coil[k]
        /\ phase[c] = "off" => coil'[t] = 0
    BY <2>2, <1>1, <1>2
  <2> QED
    BY <1>2, <1>4, <2>1, <2>3 DEF Analysed, t
<1> QED
  BY <1>3, <1>4

-----------------------------------------------------------------------------
\* The steps of a pulse

\* The pulse goes on: the transaction is tried again, or the next one is due.
LEMMA GoesOnIInv ==
  ASSUME IInv, NEW c \in Callers, InPulse(c), Analysed(c), NEW p \in Pulsing,
         phase' = [phase EXCEPT ![c] = p],
         \/ p = phase[c]
         \/ phase[c] = "on" /\ p = "readback" /\ coil'[target(c)] = 1
         \/ phase[c] = "readback" /\ p = "off",
         attempt' \in [Callers -> 0..Retries],
         UNCHANGED <<autocal, calls, request, result, lock, abandoned>>
  PROVE  IInv'
<1>1. /\ target(c) \in Coils
      /\ \A d \in Callers \ {c} : phase[d] \notin Pulsing
      /\ \A k \in Coils : coil[k] = 1 => k \in abandoned \/ k = target(c)
  BY Alone
<1>2. /\ phase[c] \in Pulsing /\ holder = c /\ phase \in [Callers -> Phases]
      /\ phase' \in [Callers -> Phases] /\ phase'[c] = p
      /\ \A d \in Callers \ {c} : phase'[d] = phase[d]
  BY DEF InPulse, IInv, TypeOK, Phases
<1>3. /\ UNCHANGED <<autocal, calls, request, result, holder, waiters, abandoned>>
      /\ \A d : target(d)' = target(d)
  BY DEF lock, target
<1>4. TypeOK'
  BY <1>2, <1>3 DEF IInv, TypeOK, Analysed
<1>5. OnePulseAtATime'
  BY <1>1, <1>2, <1>3 DEF IInv, OnePulseAtATime, Pulsing
<1>6. AtMostOneTrigger'
  BY DEF IInv, AtMostOneTrigger, Analysed
<1>7. WaitsOnce' /\ Targets' /\ Pending'
  BY <1>1, <1>2, <1>3 DEF IInv, WaitsOnce, Targets, Pending, Pulsing
<1>8. EdgeHeld'
  <2>1. p = "on" => phase[c] = "on"
    OBVIOUS
  <2>2. phase'[c] = "on" /\ edges'[c] = 1 => coil'[target(c)] = 1
    BY <1>2, <2>1 DEF Analysed
  <2>3. ASSUME NEW d \in Callers PROVE phase'[d] = "queued" => edges'[d] = 0
    BY <1>2 DEF IInv, EdgeHeld, Analysed, Pulsing
  <2>4. ASSUME NEW d \in Callers \ {c} PROVE phase'[d] # "on"
    BY <1>1, <1>2 DEF Pulsing
  <2> QED
    BY <1>3, <2>2, <2>3, <2>4 DEF EdgeHeld
<1>9. PulseWorth'
  <2>1. phase[c] \in {"readback", "off"} => edges'[c] = 1 \/ target(c) \in abandoned
    BY DEF IInv, PulseWorth, Worth, Analysed
  <2>2. phase[c] = "on" /\ coil'[target(c)] = 1 => edges'[c] = 1 \/ target(c) \in abandoned
    BY DEF Analysed
  <2>3. /\ phase'[c] = "on" /\ coil'[target(c)] = 1 => edges'[c] = 1 \/ target(c) \in abandoned
        /\ phase'[c] \in {"readback", "off"} => edges'[c] = 1 \/ target(c) \in abandoned
    BY <1>2, <2>1, <2>2
  <2>4. ASSUME NEW d \in Callers \ {c} PROVE phase'[d] \notin Pulsing
    BY <1>1, <1>2
  <2> QED
    BY <1>3, <2>3, <2>4 DEF PulseWorth, Worth, Pulsing
<1>10. RaisedCoilExplained'
  <2>1. ASSUME NEW k \in Coils, coil'[k] = 1 PROVE k \in abandoned \/ k = target(c)
    BY <1>1, <2>1 DEF Analysed
  <2> QED
    BY <1>2, <1>3, <2>1 DEF RaisedCoilExplained
<1> QED
  BY <1>4, <1>5, <1>6, <1>7, <1>8, <1>9, <1>10 DEF IInv

\* The pulse is over, and every coil that is up then was given up.
LEMMA ReleasedIInv ==
  ASSUME IInv, NEW c \in Callers, InPulse(c), Analysed(c), NEW outcome \in Results,
         Release(c, outcome),
         abandoned' \in SUBSET Coils,
         \A k \in Coils : coil'[k] = 1 => k \in abandoned'
  PROVE  IInv'
<1> DEFINE w == Head(waiters)
<1>1. \A d \in Callers \ {c} : phase[d] \notin Pulsing
  BY Alone
<1>2. /\ phase[c] \in Pulsing /\ holder = c /\ phase \in [Callers -> Phases]
      /\ waiters \in Seq(Callers) /\ attempt \in [Callers -> 0..Retries]
      /\ result \in [Callers -> Results] /\ None \notin Callers /\ Retries \in Nat
  BY CalibrationAssumption DEF InPulse, IInv, TypeOK
<1>3. /\ UNCHANGED <<autocal, calls, request>> /\ \A d : target(d)' = target(d)
      /\ attempt' \in [Callers -> 0..Retries] /\ result' \in [Callers -> Results]
      /\ \A d \in Callers \ {c} : result'[d] = result[d]
  BY <1>2 DEF Release, target
\* Who stands where afterwards.
<1>4. /\ phase' \in [Callers -> Phases] /\ phase'[c] = "idle"
      /\ holder' \in Callers \cup {None} /\ waiters' \in Seq(Callers)
      /\ \A d \in Callers : phase'[d] \in Pulsing <=> holder' = d
      /\ \A d \in Callers : phase'[d] \in Pulsing => phase'[d] = "on" /\ phase[d] = "queued"
      /\ \A d \in Callers : phase'[d] \notin Pulsing \cup {"idle"} => phase'[d] = phase[d] /\ d # c
      /\ \A d \in Callers : phase'[d] = "queued" <=> \E i \in DOMAIN waiters' : waiters'[i] = d
      /\ WaitsOnce' /\ (holder' = None => waiters' = <<>>)
  <2>1. CASE waiters = <<>>
    <3>1. /\ holder' = None /\ waiters' = <<>> /\ phase' = [phase EXCEPT ![c] = "idle"]
      BY <2>1 DEF Release
    <3>2. DOMAIN waiters' = {}
      BY <3>1, EmptySeq, LenProperties
    <3>3. \A d \in Callers : phase[d] # "queued"
      BY <2>1, <3>1, <3>2 DEF IInv, OnePulseAtATime
    <3>4. /\ phase' \in [Callers -> Phases] /\ phase'[c] = "idle"
          /\ \A d \in Callers \ {c} : phase'[d] = phase[d]
      BY <3>1, <1>2 DEF Phases
    <3> QED
      BY <3>1, <3>2, <3>3, <3>4, <1>1, <1>2 DEF WaitsOnce, Pulsing
  <2>2. CASE waiters # <<>>
    <3>1. /\ w \in Callers /\ w = waiters[1] /\ 1 \in DOMAIN waiters
          /\ Tail(waiters) \in Seq(Callers)
          /\ \A a, b \in DOMAIN Tail(waiters) : Tail(waiters)[a] = Tail(waiters)[b] => a = b
          /\ \A e : (\E a \in DOMAIN Tail(waiters) : Tail(waiters)[a] = e) <=>
                      (e # w /\ \E a \in DOMAIN waiters : waiters[a] = e)
      BY <2>2, <1>2, FirstServed DEF IInv, WaitsOnce
    <3>2. phase[w] = "queued" /\ w # c
      BY <3>1, <1>2 DEF IInv, OnePulseAtATime, Pulsing
    <3>3. /\ holder' = w /\ waiters' = Tail(waiters)
          /\ phase' = [phase EXCEPT ![c] = "idle", ![w] = "on"]
      BY <2>2 DEF Release
    <3>4. /\ phase' \in [Callers -> Phases] /\ phase'[c] = "idle" /\ phase'[w] = "on"
          /\ \A d \in Callers \ {c, w} : phase'[d] = phase[d]
      BY <3>1, <3>2, <3>3, <1>2 DEF Phases, Pulsing
    <3>5. ASSUME NEW d \in Callers
          PROVE  phase[d] = "queued" <=> \E i \in DOMAIN waiters : waiters[i] = d
      BY DEF IInv, OnePulseAtATime
    <3>6. ASSUME NEW d \in Callers
          PROVE  phase'[d] = "queued" <=> \E i \in DOMAIN waiters' : waiters'[i] = d
      <4>1. (\E i \in DOMAIN waiters' : waiters'[i] = d) <=> (d # w /\ phase[d] = "queued")
        BY <3>1, <3>3, <3>5
      <4>2. phase'[d] = "queued" <=> (d # w /\ phase[d] = "queued")
        BY <3>4, <1>2 DEF Pulsing
      <4> QED
        BY <4>1, <4>2
    <3>7. WaitsOnce'
      BY <3>1, <3>3 DEF WaitsOnce
    <3> HIDE DEF w
    <3> QED
      BY <3>1, <3>2, <3>3, <3>4, <3>6, <3>7, <1>1, <1>2, ZenonT(60) DEF Pulsing
  <2> QED
    BY <2>1, <2>2
<1> HIDE DEF w
<1>5. TypeOK'
  BY <1>3, <1>4 DEF IInv, TypeOK, Analysed
<1>6. OnePulseAtATime'
  BY <1>4 DEF OnePulseAtATime
<1>7. AtMostOneTrigger'
  BY DEF IInv, AtMostOneTrigger, Analysed
<1>8. Targets' /\ Pending'
  BY <1>3, <1>4, ZenonT(60) DEF IInv, Targets, Pending, Pulsing
<1>9. ASSUME NEW d \in Callers, phase[d] = "queued" PROVE edges'[d] = 0
  BY <1>2, <1>9 DEF IInv, EdgeHeld, Analysed, Pulsing
<1>10. EdgeHeld'
  BY <1>4, <1>9 DEF EdgeHeld, Pulsing
<1>11. PulseWorth'
  <2>1. ASSUME NEW d \in Callers, phase'[d] \in Pulsing
        PROVE  phase'[d] = "on" /\ (coil'[target(d)] = 1 => target(d) \in abandoned')
    <3>1. target(d) \in Coils
      BY <1>4, <2>1 DEF IInv, Targets
    <3> QED
      BY <1>4, <2>1, <3>1
  <2> QED
    BY <2>1, <1>3 DEF PulseWorth, Worth, Pulsing
<1>12. RaisedCoilExplained'
  BY DEF RaisedCoilExplained
<1> QED
  BY <1>4, <1>5, <1>6, <1>7, <1>8, <1>10, <1>11, <1>12 DEF IInv

-----------------------------------------------------------------------------
\* The actions

LEMMA InitIInv == Init => IInv
<1> SUFFICES ASSUME Init PROVE IInv
  OBVIOUS
<1>1. DOMAIN waiters = {} /\ waiters \in Seq(Callers)
  BY EmptySeq, LenProperties DEF Init
<1>2. TypeOK
  BY <1>1, CalibrationAssumption DEF Init, TypeOK, Requests, Phases, Results
<1> QED
  BY <1>1, <1>2, CalibrationAssumption
     DEF Init, IInv, Pending, OnePulseAtATime, AtMostOneTrigger, WaitsOnce, Targets,
         EdgeHeld, PulseWorth, RaisedCoilExplained, Pulsing

LEMMA RefuseIInv ==
  ASSUME IInv, NEW c \in Callers, NEW req \in Requests, Refuse(c, req)
  PROVE  IInv'
<1>1. /\ UNCHANGED <<autocal, phase, request, attempt, holder, waiters, coil, active,
                     edges, abandoned>>
      /\ calls' \in [Callers -> Nat] /\ result' \in [Callers -> Results]
      /\ phase[c] = "idle" /\ \A d \in Callers \ {c} : result'[d] = result[d]
  BY DEF Refuse, MayCall, lock, analyser, history, IInv, TypeOK, Results
<1> QED
  BY <1>1 DEF IInv, TypeOK, Pending, OnePulseAtATime, AtMostOneTrigger, WaitsOnce,
              Targets, EdgeHeld, PulseWorth, Worth, RaisedCoilExplained, target

LEMMA CallIInv ==
  ASSUME IInv, NEW c \in Callers, NEW req \in Requests, Call(c, req)
  PROVE  IInv'
<1>1. /\ phase[c] = "idle" /\ UNCHANGED <<autocal, coil, active, abandoned>>
      /\ phase \in [Callers -> Phases] /\ waiters \in Seq(Callers)
      /\ None \notin Callers /\ holder \in Callers \cup {None}
  BY CalibrationAssumption DEF Call, MayCall, analyser, IInv, TypeOK
<1>2. /\ request' \in [Callers -> Requests] /\ attempt' \in [Callers -> 0..Retries]
      /\ result' \in [Callers -> Results] /\ calls' \in [Callers -> Nat]
      /\ edges' \in [Callers -> Nat] /\ edges'[c] = 0 /\ result'[c] = "none"
      /\ \A d \in Callers \ {c} : edges'[d] = edges[d] /\ result'[d] = result[d]
  BY CalibrationAssumption DEF Call, MayCall, IInv, TypeOK, Results
<1>3. /\ target(c)' = CoilOf(req) /\ \A d \in Callers \ {c} : target(d)' = target(d)
  BY DEF Call, target, IInv, TypeOK
<1>4. CoilOf(req) \in Coils
  BY DEF Call, Passes, CoilOf, Coils
<1>5. \A d \in Callers : phase[d] \in Pulsing <=> holder = d
  BY DEF IInv, OnePulseAtATime
<1>6. \A d \in Callers : phase[d] = "queued" <=> \E i \in DOMAIN waiters : waiters[i] = d
  BY DEF IInv, OnePulseAtATime
<1>7. \A k \in Coils : coil[k] = 1 => k \in abandoned \/ \E d \in Callers : phase[d] \in Pulsing /\ target(d) = k
  BY DEF IInv, RaisedCoilExplained
<1>8. CASE holder = None
  <2>1. /\ holder' = c /\ waiters' = waiters /\ phase' = [phase EXCEPT ![c] = "on"]
        /\ waiters = <<>>
    BY <1>8 DEF Call, IInv, OnePulseAtATime
  <2>2. /\ phase' \in [Callers -> Phases] /\ phase'[c] = "on"
        /\ \A d \in Callers \ {c} : phase'[d] = phase[d]
    BY <1>1, <2>1 DEF Phases, Pulsing
  <2>3. \A d \in Callers : phase[d] \notin Pulsing
    BY <1>1, <1>5, <1>8
  <2>4. TypeOK'
    BY <1>1, <1>2, <2>1, <2>2 DEF IInv, TypeOK
  <2>5. OnePulseAtATime'
    BY <1>1, <1>6, <2>1, <2>2, <2>3 DEF OnePulseAtATime, Pulsing
  <2>6. Pending' /\ WaitsOnce'
    BY <1>2, <2>1, <2>2 DEF IInv, Pending, WaitsOnce
  <2>7. AtMostOneTrigger' /\ EdgeHeld'
    <3>1. ASSUME NEW d \in Callers, d # c
          PROVE  /\ edges'[d] <= 1
                 /\ phase'[d] # "on"
                 /\ phase'[d] = "queued" => edges'[d] = 0
      BY <1>2, <2>2, <2>3, <3>1 DEF IInv, AtMostOneTrigger, EdgeHeld, Pulsing
    <3> QED
      BY <1>2, <2>2, <3>1 DEF AtMostOneTrigger, EdgeHeld
  <2>11. Targets'
    BY <1>3, <1>4, <2>2 DEF IInv, Targets
  <2>8. \A k \in Coils : coil'[k] = 1 => k \in abandoned'
    BY <1>1, <1>7, <2>3
  <2>9. PulseWorth'
    BY <1>3, <1>4, <2>2, <2>3, <2>8 DEF PulseWorth, Worth, Pulsing
  <2>10. RaisedCoilExplained'
    BY <2>8 DEF RaisedCoilExplained
  <2> QED
    BY <2>4, <2>5, <2>6, <2>7, <2>9, <2>10, <2>11 DEF IInv
<1>9. CASE holder # None
  <2>1. /\ holder' = holder /\ waiters' = Append(waiters, c)
        /\ phase' = [phase EXCEPT ![c] = "queued"]
    BY <1>9 DEF Call
  <2>2. /\ phase' \in [Callers -> Phases] /\ phase'[c] = "queued"
        /\ \A d \in Callers \ {c} : phase'[d] = phase[d]
    BY <1>1, <2>1 DEF Phases
  <2>3. /\ waiters' \in Seq(Callers) /\ Len(waiters') = Len(waiters) + 1
        /\ DOMAIN waiters = 1..Len(waiters) /\ Len(waiters) \in Nat
        /\ DOMAIN waiters' = 1..(Len(waiters) + 1)
        /\ waiters'[Len(waiters) + 1] = c
        /\ \A i \in 1..Len(waiters) : waiters'[i] = waiters[i]
    BY <1>1, <2>1, AppendProperties, LenProperties
  <2>4. \A i \in DOMAIN waiters : waiters[i] # c
    BY <1>1, <1>6
  <2>5. WaitsOnce'
    BY <2>3, <2>4 DEF IInv, WaitsOnce
  <2>6. \A d \in Callers \ {c} :
          (\E i \in DOMAIN waiters' : waiters'[i] = d) <=> \E i \in DOMAIN waiters : waiters[i] = d
    BY <2>3
  <2>7. \E i \in DOMAIN waiters' : waiters'[i] = c
    BY <2>3
  <2>8. TypeOK'
    BY <1>1, <1>2, <2>1, <2>2, <2>3 DEF IInv, TypeOK
  <2>9. OnePulseAtATime'
    BY <1>1, <1>5, <1>6, <1>9, <2>1, <2>2, <2>6, <2>7 DEF OnePulseAtATime, Pulsing
  <2>10. Pending' /\ Targets'
    BY <1>2, <1>3, <1>4, <2>2 DEF IInv, Pending, Targets
  <2>11. AtMostOneTrigger' /\ EdgeHeld' /\ PulseWorth'
    <3>1. ASSUME NEW d \in Callers, d # c
          PROVE  /\ edges'[d] <= 1
                 /\ phase'[d] = "queued" => edges'[d] = 0
                 /\ phase'[d] = "on" /\ edges'[d] = 1 => coil'[target(d)'] = 1
                 /\ phase'[d] = "on" /\ coil'[target(d)'] = 1 =>
                      edges'[d] = 1 \/ target(d)' \in abandoned'
                 /\ phase'[d] \in {"readback", "off"} =>
                      edges'[d] = 1 \/ target(d)' \in abandoned'
      <4>1. edges'[d] = edges[d] /\ phase'[d] = phase[d] /\ target(d)' = target(d)
        BY <1>2, <1>3, <2>2, <3>1
      <4> QED
        BY <1>1, <4>1 DEF IInv, AtMostOneTrigger, EdgeHeld, PulseWorth, Worth
    <3> QED
      BY <1>2, <2>2, <3>1 DEF AtMostOneTrigger, EdgeHeld, PulseWorth, Worth
  <2>12. RaisedCoilExplained'
    BY <1>1, <1>3, <1>7, <2>2 DEF RaisedCoilExplained, Pulsing
  <2> QED
    BY <2>5, <2>8, <2>9, <2>10, <2>11, <2>12 DEF IInv
<1> QED
  BY <1>8, <1>9

LEMMA AnsweredIInv == ASSUME IInv, NEW c \in Callers, Answered(c) PROVE IInv'
<1>1. InPulse(c) /\ phase[c] \in Pulsing /\ Execute(c)
  BY DEF Answered, InPulse
<1>2. /\ Analysed(c)
      /\ phase[c] = "on" => coil'[target(c)] = 1
      /\ phase[c] = "off" => coil'[target(c)] = 0
  BY <1>1, ExecuteFacts
<1>3. CASE phase[c] = "off"
  <2>1. Release(c, "ok") /\ abandoned' = abandoned \ {target(c)}
    BY <1>3 DEF Answered
  <2>2. abandoned' \in SUBSET Coils
    BY <2>1 DEF IInv, TypeOK
  <2>3. ASSUME NEW k \in Coils, coil'[k] = 1 PROVE k \in abandoned'
    <3>1. k # target(c)
      BY <1>2, <1>3, <2>3
    <3>2. coil[k] = 1
      BY <1>2, <2>3, <3>1 DEF Analysed
    <3> QED
      BY <1>1, <2>1, <3>1, <3>2, Alone
  <2>4. "ok" \in Results
    BY DEF Results
  <2> QED
    BY <1>1, <1>2, <2>1, <2>2, <2>3, <2>4, ReleasedIInv
<1>4. CASE phase[c] # "off"
  <2> DEFINE p == IF phase[c] = "on" THEN "readback" ELSE "off"
  <2>1. /\ phase' = [phase EXCEPT ![c] = p]
        /\ UNCHANGED <<autocal, calls, request, result, lock, abandoned>>
    BY <1>4 DEF Answered
  <2>2. attempt' \in [Callers -> 0..Retries]
    <3>1. attempt' = [attempt EXCEPT ![c] = 0]
      BY <1>4 DEF Answered
    <3>2. attempt \in [Callers -> 0..Retries] /\ 0 \in 0..Retries
      BY CalibrationAssumption DEF IInv, TypeOK
    <3> QED
      BY <3>1, <3>2
  <2>3. /\ p \in Pulsing
        /\ \/ phase[c] = "on" /\ p = "readback" /\ coil'[target(c)] = 1
           \/ phase[c] = "readback" /\ p = "off"
    BY <1>1, <1>2, <1>4 DEF Pulsing
  <2> HIDE DEF p
  <2> QED
    BY <1>1, <1>2, <2>1, <2>2, <2>3, GoesOnIInv
<1> QED
  BY <1>3, <1>4

LEMMA RetryIInv ==
  ASSUME IInv, NEW c \in Callers, RequestLost(c) \/ ResponseLost(c) PROVE IInv'
<1>1. /\ InPulse(c) /\ phase[c] \in Pulsing /\ phase' = phase
      /\ UNCHANGED <<autocal, calls, request, result, lock, abandoned>>
  BY DEF RequestLost, ResponseLost, Retry, InPulse
<1>2. Analysed(c)
  BY <1>1, UntouchedFacts, ExecuteFacts DEF RequestLost, ResponseLost
<1>3. phase' = [phase EXCEPT ![c] = phase[c]]
  BY <1>1 DEF IInv, TypeOK
<1>4. attempt' \in [Callers -> 0..Retries]
  <2>1. /\ attempt \in [Callers -> 0..Retries] /\ attempt[c] < Retries
        /\ attempt' = [attempt EXCEPT ![c] = @ + 1]
    BY DEF RequestLost, ResponseLost, Retry, IInv, TypeOK
  <2>2. attempt[c] + 1 \in 0..Retries
    BY <2>1, CalibrationAssumption
  <2> QED
    BY <2>1, <2>2
<1> QED
  BY <1>1, <1>2, <1>3, <1>4, GoesOnIInv

LEMMA AbandonIInv ==
  ASSUME IInv, NEW c \in Callers, TransactionFails(c) \/ CancelPulse(c) PROVE IInv'
<1>1. PICK outcome \in Results : Abandon(c, outcome)
  BY DEF TransactionFails, CancelPulse, Results
<1>2. InPulse(c) /\ Release(c, outcome) /\ abandoned' = abandoned \cup {target(c)}
  BY <1>1 DEF Abandon
<1>3. Analysed(c)
  BY <1>2, UntouchedFacts, ExecuteFacts DEF TransactionFails, CancelPulse
<1>4. abandoned' \in SUBSET Coils
  BY <1>2, Alone DEF IInv, TypeOK
<1>5. ASSUME NEW k \in Coils, coil'[k] = 1 PROVE k \in abandoned'
  <2>1. k # target(c) => coil[k] = 1
    BY <1>3, <1>5 DEF Analysed
  <2> QED
    BY <1>2, <2>1, Alone
<1> QED
  BY <1>2, <1>3, <1>4, <1>5, ReleasedIInv

LEMMA CancelQueuedIInv == ASSUME IInv, NEW c \in Callers, CancelQueued(c) PROVE IInv'
<1>1. /\ phase[c] = "queued" /\ phase' = [phase EXCEPT ![c] = "idle"]
      /\ UNCHANGED <<autocal, calls, request, attempt, holder, coil, active, edges, abandoned>>
      /\ \A d : target(d)' = target(d)
  BY DEF CancelQueued, analyser, history, target
<1>2. /\ phase \in [Callers -> Phases] /\ waiters \in Seq(Callers)
      /\ None \notin Callers
  BY CalibrationAssumption DEF IInv, TypeOK
<1>3. /\ phase' \in [Callers -> Phases] /\ phase'[c] = "idle"
      /\ \A d \in Callers \ {c} : phase'[d] = phase[d]
      /\ result' \in [Callers -> Results]
      /\ \A d \in Callers \ {c} : result'[d] = result[d]
  BY <1>1, <1>2 DEF CancelQueued, IInv, TypeOK, Phases, Results
<1>4. PICK i \in DOMAIN waiters : waiters[i] = c /\ waiters' = RemoveAt(waiters, i)
  BY DEF CancelQueued
<1>5. i \in 1..Len(waiters)
  BY <1>2, LenProperties
<1>6. /\ waiters' \in Seq(Callers)
      /\ \A a, b \in DOMAIN waiters' : waiters'[a] = waiters'[b] => a = b
      /\ \A e : (\E a \in DOMAIN waiters' : waiters'[a] = e) <=>
                  (e # c /\ \E a \in DOMAIN waiters : waiters[a] = e)
  <2>1. \A a, b \in DOMAIN waiters : waiters[a] = waiters[b] => a = b
    BY DEF IInv, WaitsOnce
  <2> DEFINE r == RemoveAt(waiters, i)
  <2>2. /\ r \in Seq(Callers)
        /\ \A a, b \in DOMAIN r : r[a] = r[b] => a = b
        /\ \A e : (\E a \in DOMAIN r : r[a] = e) <=>
                    (e # waiters[i] /\ \E a \in DOMAIN waiters : waiters[a] = e)
    BY <1>2, <1>5, <2>1, Dequeue
  <2> HIDE DEF r
  <2>3. waiters' = r /\ waiters[i] = c
    BY <1>4 DEF r
  <2> QED
    BY <2>2, <2>3
<1>7. TypeOK'
  BY <1>1, <1>3, <1>6 DEF IInv, TypeOK
<1>8. OnePulseAtATime'
  <2>1. holder # None
    <3>1. waiters # <<>>
      BY <1>2, <1>5
    <3> QED
      BY <3>1 DEF IInv, OnePulseAtATime
  <2>2. ASSUME NEW d \in Callers
        PROVE  phase'[d] = "queued" <=> \E a \in DOMAIN waiters' : waiters'[a] = d
    <3>1. phase[d] = "queued" <=> \E a \in DOMAIN waiters : waiters[a] = d
      BY DEF IInv, OnePulseAtATime
    <3> QED
      BY <1>3, <1>6, <3>1
  <2>3. ASSUME NEW d \in Callers PROVE phase'[d] \in Pulsing <=> holder' = d
    BY <1>1, <1>3 DEF IInv, OnePulseAtATime, Pulsing
  <2> QED
    BY <1>1, <2>1, <2>2, <2>3 DEF OnePulseAtATime
<1>9. Pending' /\ AtMostOneTrigger' /\ WaitsOnce' /\ Targets' /\ EdgeHeld' /\ PulseWorth'
  BY <1>1, <1>3, <1>6
     DEF IInv, Pending, AtMostOneTrigger, WaitsOnce, Targets, EdgeHeld, PulseWorth, Worth
<1>10. RaisedCoilExplained'
  BY <1>1, <1>3 DEF IInv, RaisedCoilExplained, Pulsing
<1> QED
  BY <1>7, <1>8, <1>9, <1>10 DEF IInv

LEMMA NextIInv == IInv /\ [Next]_vars => IInv'
<1> SUFFICES ASSUME IInv, [Next]_vars PROVE IInv'
  OBVIOUS
<1>1. ASSUME NEW g \in Groups, CalibrationEnds(g) PROVE IInv'
  <2>1. /\ UNCHANGED <<autocal, calls, phase, request, attempt, result, holder, waiters,
                       coil, edges, abandoned>>
        /\ active' \in SUBSET Groups
    BY <1>1 DEF CalibrationEnds, client, lock, history, IInv, TypeOK
  <2> QED
    BY <2>1 DEF IInv, TypeOK, Pending, OnePulseAtATime, AtMostOneTrigger, WaitsOnce,
                Targets, EdgeHeld, PulseWorth, Worth, RaisedCoilExplained, target
<1>2. CASE UNCHANGED vars
  BY <1>2 DEF vars, client, lock, analyser, history, IInv, TypeOK, Pending,
              OnePulseAtATime, AtMostOneTrigger, WaitsOnce, Targets, EdgeHeld,
              PulseWorth, Worth, RaisedCoilExplained, target
<1> QED
  BY <1>1, <1>2, RefuseIInv, CallIInv, AnsweredIInv, RetryIInv, AbandonIInv,
     CancelQueuedIInv DEF Next, Transaction

LEMMA Invariance == Spec => []IInv
BY InitIInv, NextIInv, PTL DEF Spec

-----------------------------------------------------------------------------
\* The theorems

\* The retries stay within the bus's limit, and whatever ends a call leaves
\* well-formed requests, waiters and coils behind.
THEOREM TypeCorrect == Spec => []TypeOK
BY Invariance, PTL DEF IInv

\* Pulses neither overlap nor repeat, for every number of callers and retries
\* (modbus/client.py:461-502): the per-session lock keeps the writes of two
\* calls apart, and a repeated on write starts no second calibration.
THEOREM PulsesKeptApart == Spec => []PulsesApart
BY Invariance, PTL DEF IInv, PulsesApart

\* A coil that is up outside its pulse was left so by a pulse that failed or
\* was cancelled, and by nothing else.
THEOREM RaisedOnlyByAbandoning == Spec => []RaisedCoilExplained
BY Invariance, PTL DEF IInv

\* A successful call made the coil's transition, unless it found the coil still
\* up from a pulse that was given up, and left the coil down.
THEOREM OkIsPulsed == Spec => OkMeansPulsed
<1>1. ASSUME IInv, Next, NEW c \in Callers, phase[c] # "idle", result'[c] = "ok"
      PROVE  /\ edges'[c] = 1 \/ target(c) \in abandoned
             /\ coil'[target(c)] = 0
  <2>1. result[c] = "none" /\ result \in [Callers -> Results]
    BY <1>1 DEF IInv, Pending, TypeOK
  <2>2. Answered(c) /\ phase[c] = "off"
    <3>1. ASSUME NEW d \in Callers, NEW req \in Requests, Refuse(d, req) \/ Call(d, req)
          PROVE  FALSE
      BY <1>1, <2>1, <3>1 DEF Refuse, Call, MayCall
    <3>2. ASSUME NEW d \in Callers, RequestLost(d) \/ ResponseLost(d) PROVE FALSE
      BY <1>1, <2>1, <3>2 DEF RequestLost, ResponseLost, Retry
    <3>3. ASSUME NEW d \in Callers, TransactionFails(d) \/ CancelPulse(d) \/ CancelQueued(d)
          PROVE  FALSE
      BY <1>1, <2>1, <3>3
         DEF TransactionFails, CancelPulse, CancelQueued, Abandon, Release
    <3>4. ASSUME NEW g \in Groups, CalibrationEnds(g) PROVE FALSE
      BY <1>1, <2>1, <3>4 DEF CalibrationEnds, client
    <3>5. PICK d \in Callers : Answered(d)
      BY <1>1, <3>1, <3>2, <3>3, <3>4 DEF Next, Transaction
    <3>6. d = c /\ phase[d] = "off"
      BY <1>1, <2>1, <3>5 DEF Answered, Release
    <3> QED
      BY <3>5, <3>6
  <2>3. InPulse(c) /\ Execute(c)
    BY <2>2 DEF Answered
  <2>4. Analysed(c) /\ coil'[target(c)] = 0
    BY <1>1, <2>2, <2>3, ExecuteFacts
  <2>5. edges[c] = 1 \/ target(c) \in abandoned
    BY <1>1, <2>2 DEF IInv, PulseWorth, Worth
  <2> QED
    BY <2>2, <2>4, <2>5 DEF Analysed
<1>2. ASSUME IInv, UNCHANGED vars, NEW c \in Callers, phase[c] # "idle" PROVE result'[c] # "ok"
  BY <1>2 DEF IInv, Pending, vars, client
<1>3. IInv /\ [Next]_vars => [\A c \in Callers : OkStep(c)]_vars
  BY <1>1, <1>2 DEF OkStep
<1> QED
  BY <1>3, Invariance, PTL DEF Spec, OkMeansPulsed
=============================================================================

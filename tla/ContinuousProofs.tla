--------------------------- MODULE ContinuousProofs ---------------------------
(***************************************************************************)
(* Theorems of Continuous, for every number of readers, streams and        *)
(* frames, and of Frames, the lines it is made of, for every base, every   *)
(* width of the checksum, every broadcast and every noise.                 *)
(***************************************************************************)
EXTENDS Continuous, SequenceTheorems, FiniteSetTheorems, WellFoundedInduction, TLAPS

\* A waiting reader knows the event it waits on and the frame it has seen.
WaitsInTime ==
  \A r \in Readers :
    reader[r].pc = "waiting" => reader[r].event <= fresh /\ reader[r].cached <= latest

\* How far a stream has come, and what it has of that.
until(s) == IF s \in subscribers THEN arrived ELSE left[s]
Untouched ==
  \A s \in Streams :
    /\ joined[s] <= until(s)
    /\ session[s] = "none" => received[s] = <<>> /\ buffer[s] = <<>>

IInv ==
  /\ TypeOK
  /\ WaitsInTime
  /\ WakeFindsNewFrame
  /\ Untouched
  /\ StreamsMissNothing

-----------------------------------------------------------------------------
\* Runs of frame numbers

Run(from, to) == [i \in 1..(to - from) |-> from + i]

LEMMA RunFacts ==
  ASSUME NEW from \in Nat, NEW to \in Nat, from <= to
  PROVE  /\ Run(from, to) \in Seq(Nat)
         /\ Len(Run(from, to)) = to - from
         /\ DOMAIN Run(from, to) = 1..(to - from)
         /\ \A i \in 1..(to - from) : Run(from, to)[i] = from + i
<1>1. to - from \in Nat /\ \A i \in 1..(to - from) : from + i \in Nat
  OBVIOUS
<1>2. Run(from, to) \in Seq(Nat)
  BY <1>1, IsASeq DEF Run
<1>3. DOMAIN Run(from, to) = 1..(to - from) /\ \A i \in 1..(to - from) : Run(from, to)[i] = from + i
  BY DEF Run
<1> QED
  BY <1>1, <1>2, <1>3, LenProperties

\* The next frame goes to the end of the run.
LEMMA RunExtends ==
  ASSUME NEW from \in Nat, NEW to \in Nat, from <= to
  PROVE  Append(Run(from, to), to + 1) = Run(from, to + 1)
<1> DEFINE l == Append(Run(from, to), to + 1)
           r == Run(from, to + 1)
           n == to - from
<1>1. n \in Nat /\ to + 1 \in Nat /\ from <= to + 1 /\ (to + 1) - from = n + 1
  OBVIOUS
<1>2. /\ Run(from, to) \in Seq(Nat) /\ Len(Run(from, to)) = n
      /\ \A i \in 1..n : Run(from, to)[i] = from + i
  BY RunFacts
<1>3. /\ r \in Seq(Nat) /\ Len(r) = n + 1 /\ \A i \in 1..(n + 1) : r[i] = from + i
  <2>1. /\ r \in Seq(Nat) /\ Len(r) = (to + 1) - from
        /\ \A i \in 1..((to + 1) - from) : r[i] = from + i
    BY <1>1, RunFacts
  <2> QED
    BY <1>1, <2>1
<1>4. /\ l \in Seq(Nat) /\ Len(l) = n + 1 /\ l[n + 1] = to + 1
      /\ \A i \in 1..n : l[i] = from + i
  <2>1. /\ l \in Seq(Nat) /\ Len(l) = Len(Run(from, to)) + 1
        /\ l[Len(Run(from, to)) + 1] = to + 1
        /\ \A i \in 1..Len(Run(from, to)) : l[i] = Run(from, to)[i]
    BY <1>1, <1>2, AppendProperties
  <2> QED
    BY <1>2, <2>1
<1>5. from + (n + 1) = to + 1
  OBVIOUS
<1> HIDE DEF l, r, n
<1>6. ASSUME NEW i \in 1..(n + 1) PROVE l[i] = r[i]
  <2>1. i \in 1..n \/ i = n + 1
    BY <1>1
  <2> QED
    BY <1>3, <1>4, <1>5, <2>1
<1>7. l = r
  BY <1>3, <1>4, <1>6, SeqEqual
<1> QED
  BY <1>7 DEF l, r

LEMMA AppendLast ==
  ASSUME NEW S, NEW p \in Seq(S), NEW q \in Seq(S), NEW e \in S
  PROVE  p \o Append(q, e) = Append(p \o q, e)
<1>1. <<e>> \in Seq(S) /\ p \o q \in Seq(S)
  BY ConcatProperties
<1>2. Append(q, e) = q \o <<e>> /\ Append(p \o q, e) = (p \o q) \o <<e>>
  BY <1>1, AppendIsConcat
<1>3. (p \o q) \o <<e>> = p \o (q \o <<e>>)
  BY <1>1, ConcatAssociative
<1> QED
  BY <1>2, <1>3

\* A frame put into the buffer extends what a stream has got in all.
LEMMA RunGrows ==
  ASSUME NEW p \in Seq(Nat), NEW q \in Seq(Nat), NEW from \in Nat, NEW to \in Nat,
         from <= to, p \o q = Run(from, to)
  PROVE  p \o Append(q, to + 1) = Run(from, to + 1)
<1>1. to + 1 \in Nat
  OBVIOUS
<1>2. p \o Append(q, to + 1) = Append(p \o q, to + 1)
  BY <1>1, AppendLast
<1> QED
  BY <1>2, RunExtends

\* The first of the buffer goes to the end of what was received.
LEMMA Passed ==
  ASSUME NEW S, NEW p \in Seq(S), NEW q \in Seq(S), q # <<>>
  PROVE  /\ Append(p, Head(q)) \in Seq(S) /\ Tail(q) \in Seq(S)
         /\ Append(p, Head(q)) \o Tail(q) = p \o q
<1>1. Head(q) \in S /\ Tail(q) \in Seq(S) /\ Len(q) \in Nat \ {0}
  BY HeadTailProperties, EmptySeq
<1>2. Append(p, Head(q)) \in Seq(S) /\ Append(p, Head(q)) = p \o <<Head(q)>>
  BY <1>1, AppendProperties, AppendIsConcat
<1>3. <<Head(q)>> \o Tail(q) = q
  <2>1. SubSeq(q, 1, Len(q)) = <<q[1]>> \o SubSeq(q, 1 + 1, Len(q))
    <3>1. 1 \in 1..Len(q) /\ Len(q) \in 1..Len(q)
      BY <1>1
    <3> QED
      BY <3>1, SubSeqRecursiveFirst
  <2>2. SubSeq(q, 1, Len(q)) = q /\ Tail(q) = SubSeq(q, 2, Len(q)) /\ Head(q) = q[1]
    BY SubSeqFull, TailIsSubSeq
  <2> QED
    BY <2>1, <2>2
<1>4. <<Head(q)>> \in Seq(S)
  BY <1>1
<1>5. (p \o <<Head(q)>>) \o Tail(q) = p \o (<<Head(q)>> \o Tail(q))
  BY <1>1, <1>4, ConcatAssociative
<1> QED
  BY <1>1, <1>2, <1>3, <1>5

-----------------------------------------------------------------------------
\* The streams

LEMMA Types ==
  ASSUME TypeOK
  PROVE  /\ arrived \in Nat /\ latest \in Nat /\ fresh \in Nat /\ MaxFrames \in Nat
         /\ \A s \in Streams :
              /\ joined[s] \in Nat /\ left[s] \in Nat
              /\ buffer[s] \in Seq(1..MaxFrames) /\ received[s] \in Seq(1..MaxFrames)
              /\ buffer[s] \in Seq(Nat) /\ received[s] \in Seq(Nat)
<1>1. /\ MaxFrames \in Nat
      /\ arrived \in Nat /\ latest \in Nat /\ fresh \in Nat
  BY ContinuousAssumption DEF TypeOK
<1>2. ASSUME NEW s \in Streams
      PROVE  /\ joined[s] \in Nat /\ left[s] \in Nat
             /\ buffer[s] \in Seq(1..MaxFrames) /\ received[s] \in Seq(1..MaxFrames)
  BY <1>1 DEF TypeOK
<1>3. 1..MaxFrames \subseteq Nat
  BY <1>1
<1> QED
  BY <1>1, <1>2, <1>3, SeqMonotonic

\* What the streams have, in terms of runs of frames.
Complete ==
  /\ \A s \in Streams :
       session[s] # "none" => received[s] \o buffer[s] = Run(joined[s], until(s))
  /\ \A s \in subscribers : session[s] = "open"

LEMMA CompleteMeans == Complete <=> StreamsMissNothing
BY DEF Complete, StreamsMissNothing, Run, until

LEMMA HandleIInv ==
  ASSUME IInv, NEW l \in Lines, HandleGood(l) \/ HandleBad(l)
  PROVE  IInv'
<1>1. /\ arrived < MaxFrames /\ arrived' = arrived + 1 /\ Broadcast
      /\ UNCHANGED <<context, loop, reader, subscribers, session, received, joined, left>>
      /\ misheard' \in BOOLEAN
      /\ \/ latest' = arrived + 1 /\ fresh' = fresh + 1
         \/ latest' = latest /\ fresh' = fresh
  BY DEF HandleGood, HandleBad
<1>2. TypeOK /\ Complete /\ Untouched
  BY CompleteMeans DEF IInv
<1>3. /\ arrived \in 0..MaxFrames /\ latest \in 0..arrived /\ fresh \in 1..(arrived + 1)
      /\ reader \in [Readers -> Calls] /\ subscribers \in SUBSET Streams
      /\ MaxFrames \in Nat
  BY <1>2, ContinuousAssumption DEF TypeOK
\* Where the frame goes.
<1>4. ASSUME NEW s \in Streams
      PROVE  /\ buffer'[s] = IF s \in subscribers THEN Append(buffer[s], arrived + 1) ELSE buffer[s]
             /\ buffer'[s] \in Seq(1..MaxFrames)
  <2>1. buffer'[s] = IF s \in subscribers THEN Append(buffer[s], arrived + 1) ELSE buffer[s]
    BY <1>1 DEF Broadcast
  <2>2. arrived + 1 \in 1..MaxFrames /\ buffer[s] \in Seq(1..MaxFrames)
    BY <1>1, <1>2, <1>3, Types
  <2>3. Append(buffer[s], arrived + 1) \in Seq(1..MaxFrames)
    BY <2>2, AppendProperties
  <2> QED
    BY <2>1, <2>2, <2>3
<1>5. TypeOK'
  <2>1. buffer' \in [Streams -> Seq(1..MaxFrames)]
    BY <1>1, <1>4 DEF Broadcast
  <2>2. /\ arrived' \in 0..MaxFrames /\ latest' \in 0..arrived' /\ fresh' \in 1..(arrived' + 1)
    BY <1>1, <1>3
  <2> QED
    BY <1>1, <1>2, <2>1, <2>2 DEF TypeOK
<1>6. WaitsInTime' /\ WakeFindsNewFrame'
  <2> SUFFICES ASSUME NEW r \in Readers, reader[r].pc = "waiting"
               PROVE  /\ reader[r].event <= fresh' /\ reader[r].cached <= latest'
                      /\ reader[r].event < fresh' => latest' > reader[r].cached
    BY <1>1 DEF WaitsInTime, WakeFindsNewFrame, EventSet
  <2>1. reader[r].event \in Nat /\ reader[r].cached \in Nat
    BY <1>3 DEF Calls
  <2>2. /\ reader[r].event <= fresh /\ reader[r].cached <= latest
        /\ reader[r].event < fresh => latest > reader[r].cached
    BY DEF IInv, WaitsInTime, WakeFindsNewFrame, EventSet
  <2> QED
    BY <1>1, <1>3, <2>1, <2>2
<1>7. ASSUME NEW s \in Streams
      PROVE  until(s)' = IF s \in subscribers THEN until(s) + 1 ELSE until(s)
  BY <1>1 DEF until
<1>8. Untouched' /\ Complete'
  <2>1. ASSUME NEW s \in Streams
        PROVE  /\ joined'[s] <= until(s)'
               /\ session'[s] = "none" => received'[s] = <<>> /\ buffer'[s] = <<>>
               /\ session'[s] # "none" => received'[s] \o buffer'[s] = Run(joined'[s], until(s)')
    <3>1. /\ joined[s] <= until(s) /\ joined[s] \in Nat /\ left[s] \in Nat /\ arrived \in Nat
          /\ buffer[s] \in Seq(Nat) /\ received[s] \in Seq(Nat)
          /\ session[s] = "none" => received[s] = <<>> /\ buffer[s] = <<>>
      BY <1>2, Types DEF Untouched
    <3>2. CASE s \in subscribers
      <4>1. until(s) = arrived /\ until(s)' = arrived + 1 /\ session[s] = "open"
        BY <1>2, <1>7, <3>2 DEF until, Complete
      <4>2. received[s] \o buffer[s] = Run(joined[s], arrived)
        BY <1>2, <4>1 DEF Complete
      <4>3. received[s] \o Append(buffer[s], arrived + 1) = Run(joined[s], arrived + 1)
        BY <3>1, <4>1, <4>2, RunGrows
      <4>4. /\ buffer'[s] = Append(buffer[s], arrived + 1) /\ received'[s] = received[s]
            /\ joined'[s] = joined[s] /\ session'[s] = "open"
        BY <1>1, <1>4, <3>2, <4>1
      <4>5. joined[s] <= arrived + 1
        BY <3>1, <4>1
      <4> QED
        BY <4>1, <4>3, <4>4, <4>5
    <3>3. CASE s \notin subscribers
      BY <1>1, <1>2, <1>4, <1>7, <3>1, <3>3 DEF Complete
    <3> QED
      BY <3>2, <3>3
  <2>2. \A s \in subscribers' : session'[s] = "open"
    BY <1>1, <1>2 DEF Complete
  <2> QED
    BY <2>1, <2>2 DEF Untouched, Complete
<1>9. StreamsMissNothing'
  BY <1>8 DEF Complete, StreamsMissNothing, Run, until
<1> QED
  BY <1>5, <1>6, <1>8, <1>9 DEF IInv

\* The streams part of the invariant depends on nothing else.
LEMMA StreamsFrame ==
  ASSUME IInv, UNCHANGED <<arrived, subscribers, session, buffer, received, joined, left>>
  PROVE  Untouched' /\ StreamsMissNothing'
BY DEF IInv, Untouched, StreamsMissNothing, until

LEMMA ReadersFrame ==
  ASSUME IInv, UNCHANGED <<reader, latest, fresh>>
  PROVE  WaitsInTime' /\ WakeFindsNewFrame'
BY DEF IInv, WaitsInTime, WakeFindsNewFrame, EventSet

\* read_frame touches its own call only.
LEMMA ReadingIInv ==
  ASSUME IInv, NEW r \in Readers, Reading(r)
  PROVE  IInv'
<1>1. UNCHANGED <<context, loop, arrived, latest, fresh, subscribers, session, buffer,
                  received, joined, left, misheard>>
  BY DEF Reading, Ask, Answer, TimeOut, client, streams
<1>2. /\ reader \in [Readers -> Calls] /\ latest \in Nat /\ fresh \in Nat
      /\ arrived \in Nat /\ latest <= arrived
  BY ContinuousAssumption DEF IInv, TypeOK
<1>3. /\ reader' \in [Readers -> Calls]
      /\ \A q \in Readers \ {r} : reader'[q] = reader[q]
      /\ reader'[r].pc = "waiting" => reader'[r].event = fresh /\ reader'[r].cached = latest
  <2>1. CASE \E wait_fresh \in BOOLEAN : Ask(r, wait_fresh)
    BY <1>2, <2>1 DEF Ask, Calls
  <2>2. CASE Answer(r) \/ TimeOut(r)
    <3>1. reader' = [reader EXCEPT ![r].pc = "idle"]
      BY <2>2 DEF Answer, TimeOut
    <3>2. reader[r] \in Calls
      BY <1>2
    <3>3. [reader[r] EXCEPT !.pc = "idle"] \in Calls
      BY <3>2 DEF Calls
    <3> QED
      BY <1>2, <3>1, <3>3
  <2> QED
    BY <2>1, <2>2 DEF Reading
<1>4. TypeOK'
  BY <1>1, <1>3 DEF IInv, TypeOK
<1>5. WaitsInTime' /\ WakeFindsNewFrame'
  BY <1>1, <1>2, <1>3 DEF IInv, WaitsInTime, WakeFindsNewFrame, EventSet
<1> QED
  BY <1>1, <1>4, <1>5, StreamsFrame DEF IInv

LEMMA SubscribeIInv ==
  ASSUME IInv, NEW s \in Streams, Subscribe(s)
  PROVE  IInv'
<1>1. /\ UNCHANGED <<context, loop, arrived, latest, fresh, reader, buffer, received, left,
                     misheard>>
      /\ session[s] = "none" /\ session' = [session EXCEPT ![s] = "open"]
      /\ subscribers' = subscribers \cup {s} /\ joined' = [joined EXCEPT ![s] = arrived]
  BY DEF Subscribe
<1>2. TypeOK /\ Complete /\ Untouched
  BY CompleteMeans DEF IInv
<1>3. TypeOK'
  BY <1>1, <1>2 DEF TypeOK, Sessions
<1>4. /\ arrived \in Nat /\ received[s] = <<>> /\ buffer[s] = <<>> /\ s \notin subscribers
  BY <1>1, <1>2, Types DEF Untouched, Complete
<1>5. /\ session'[s] = "open" /\ joined'[s] = arrived /\ until(s)' = arrived
      /\ \A q \in Streams \ {s} :
           session'[q] = session[q] /\ joined'[q] = joined[q] /\ until(q)' = until(q)
  BY <1>1, <1>2 DEF TypeOK, until
<1>6. <<>> \o <<>> = Run(arrived, arrived)
  <2>1. Run(arrived, arrived) \in Seq(Nat) /\ Len(Run(arrived, arrived)) = 0
    BY <1>4, RunFacts
  <2>2. Run(arrived, arrived) = <<>>
    BY <2>1, EmptySeq
  <2>3. <<>> \o <<>> = <<>>
    BY EmptySeq, ConcatEmptySeq
  <2> QED
    BY <2>2, <2>3
<1>7. Complete'
  <2>1. ASSUME NEW q \in Streams, session'[q] # "none"
        PROVE  received'[q] \o buffer'[q] = Run(joined'[q], until(q)')
    <3>1. CASE q = s
      BY <1>1, <1>4, <1>5, <1>6, <3>1
    <3>2. CASE q # s
      BY <1>1, <1>2, <1>5, <2>1, <3>2 DEF Complete
    <3> QED
      BY <3>1, <3>2
  <2>2. \A q \in subscribers' : session'[q] = "open"
    BY <1>1, <1>2, <1>5 DEF Complete, TypeOK
  <2> QED
    BY <2>1, <2>2 DEF Complete
<1>8. Untouched'
  BY <1>1, <1>2, <1>4, <1>5 DEF Untouched
<1>9. StreamsMissNothing'
  BY <1>7 DEF Complete, StreamsMissNothing, Run, until
<1> QED
  BY <1>1, <1>3, <1>8, <1>9, ReadersFrame DEF IInv

LEMMA ReceiveIInv ==
  ASSUME IInv, NEW s \in Streams, Receive(s)
  PROVE  IInv'
<1>1. /\ UNCHANGED <<context, loop, arrived, latest, fresh, subscribers, reader, session,
                     joined, left, misheard>>
      /\ session[s] = "open" /\ buffer[s] # <<>>
      /\ received' = [received EXCEPT ![s] = Append(received[s], Head(buffer[s]))]
      /\ buffer' = [buffer EXCEPT ![s] = Tail(buffer[s])]
  BY DEF Receive, client
<1>2. TypeOK /\ Complete /\ Untouched
  BY CompleteMeans DEF IInv
<1>3. /\ buffer[s] \in Seq(1..MaxFrames) /\ received[s] \in Seq(1..MaxFrames)
      /\ buffer \in [Streams -> Seq(1..MaxFrames)] /\ received \in [Streams -> Seq(1..MaxFrames)]
  BY <1>2 DEF TypeOK
<1>4. /\ Append(received[s], Head(buffer[s])) \in Seq(1..MaxFrames)
      /\ Tail(buffer[s]) \in Seq(1..MaxFrames)
      /\ Append(received[s], Head(buffer[s])) \o Tail(buffer[s]) = received[s] \o buffer[s]
  BY <1>1, <1>3, Passed, ZenonT(40)
<1>5. /\ received' \in [Streams -> Seq(1..MaxFrames)] /\ buffer' \in [Streams -> Seq(1..MaxFrames)]
      /\ received'[s] \o buffer'[s] = received[s] \o buffer[s]
      /\ \A q \in Streams \ {s} : received'[q] = received[q] /\ buffer'[q] = buffer[q]
  BY <1>1, <1>3, <1>4
<1>6. TypeOK'
  BY <1>1, <1>2, <1>5 DEF TypeOK
<1>7. \A q \in Streams : until(q)' = until(q)
  BY <1>1 DEF until
<1>8. Complete' /\ Untouched'
  <2>1. ASSUME NEW q \in Streams, session'[q] # "none"
        PROVE  received'[q] \o buffer'[q] = Run(joined'[q], until(q)')
    BY <1>1, <1>2, <1>5, <1>7, <2>1 DEF Complete
  <2>2. ASSUME NEW q \in Streams
        PROVE  /\ joined'[q] <= until(q)'
               /\ session'[q] = "none" => received'[q] = <<>> /\ buffer'[q] = <<>>
    BY <1>1, <1>2, <1>5, <1>7 DEF Untouched
  <2>3. \A q \in subscribers' : session'[q] = "open"
    BY <1>1, <1>2 DEF Complete
  <2> QED
    BY <2>1, <2>2, <2>3 DEF Complete, Untouched
<1>9. StreamsMissNothing'
  BY <1>8 DEF Complete, StreamsMissNothing, Run, until
<1> QED
  BY <1>1, <1>6, <1>8, <1>9, ReadersFrame DEF IInv

\* A stream that ends or is closed keeps what it has, and so do the others.
LEMMA EndIInv ==
  ASSUME IInv,
         \/ \E s \in Streams : EndOfStream(s) \/ CloseStream(s)
         \/ CloseClient
  PROVE  IInv'
<1>1. /\ UNCHANGED <<loop, arrived, latest, fresh, reader, buffer, received, joined, misheard>>
      /\ context' \in {context, "closed"}
      /\ subscribers' \subseteq subscribers
      /\ session' \in [Streams -> Sessions]
      /\ left' \in [Streams -> 0..MaxFrames]
      /\ \A q \in Streams : left'[q] = IF q \in subscribers \ subscribers' THEN arrived ELSE left[q]
      /\ \A q \in Streams : session[q] = "none" <=> session'[q] = "none"
      /\ \A q \in subscribers' : session'[q] = session[q]
  <2>1. /\ session \in [Streams -> Sessions] /\ left \in [Streams -> 0..MaxFrames]
        /\ arrived \in 0..MaxFrames /\ subscribers \in SUBSET Streams
    BY DEF IInv, TypeOK
  <2>2. ASSUME NEW s \in Streams, EndOfStream(s)
        PROVE  /\ session' = [session EXCEPT ![s] = "ended"] /\ session[s] = "open"
               /\ s \notin subscribers
               /\ UNCHANGED <<context, loop, arrived, latest, fresh, subscribers, reader,
                              buffer, received, joined, left, misheard>>
    BY <2>2 DEF EndOfStream, client
  <2>3. ASSUME NEW s \in Streams, CloseStream(s)
        PROVE  /\ session' = [session EXCEPT ![s] = "closed"] /\ session[s] \in {"open", "ended"}
               /\ subscribers' = subscribers \ {s}
               /\ left' = IF s \in subscribers THEN [left EXCEPT ![s] = arrived] ELSE left
               /\ UNCHANGED <<context, loop, arrived, latest, fresh, reader,
                              buffer, received, joined, misheard>>
    BY <2>3 DEF CloseStream
  <2>4. CASE CloseClient
    BY <2>1, <2>4 DEF CloseClient
  <2> QED
    BY <2>1, <2>2, <2>3, <2>4 DEF Sessions
<1>2. TypeOK /\ Complete /\ Untouched
  BY CompleteMeans DEF IInv
<1>3. TypeOK'
  BY <1>1, <1>2 DEF TypeOK, Contexts
<1>4. ASSUME NEW q \in Streams PROVE until(q)' = until(q)
  BY <1>1 DEF until
<1>5. Complete' /\ Untouched'
  BY <1>1, <1>2, <1>4 DEF Complete, Untouched
<1>6. StreamsMissNothing'
  BY <1>5 DEF Complete, StreamsMissNothing, Run, until
<1> QED
  BY <1>1, <1>3, <1>5, <1>6, ReadersFrame DEF IInv

\* The rest concerns the receive loop and the context of the Analyzer.
LEMMA ContextIInv ==
  ASSUME IInv,
         \/ LineLost \/ Identified \/ IdentifyFails \/ Exit \/ LoopCancelled
         \/ \E identify_on_enter \in BOOLEAN : Enter(identify_on_enter)
         \/ UNCHANGED vars
  PROVE  IInv'
<1>1. /\ UNCHANGED <<arrived, latest, fresh, subscribers, reader, session, buffer, received,
                     joined, left, misheard>>
      /\ context' \in {context, "identifying", "open", "failed", "closing"}
      /\ loop' \in {loop, "listening", "stopped", "cancelled"}
  BY DEF LineLost, Identified, IdentifyFails, Exit, LoopCancelled, Enter, vars, client, streams
<1>2. TypeOK'
  BY <1>1 DEF IInv, TypeOK, Contexts
<1> QED
  BY <1>1, <1>2, StreamsFrame, ReadersFrame DEF IInv

LEMMA InitIInv == Init => IInv
<1> SUFFICES ASSUME Init PROVE IInv
  OBVIOUS
<1>1. <<>> \in Seq(1..MaxFrames)
  BY EmptySeq
<1>2. TypeOK
  <2>1. [r \in Readers |-> [pc |-> "idle", event |-> 0, cached |-> 0]] \in [Readers -> Calls]
    BY DEF Calls
  <2>2. [s \in Streams |-> <<>>] \in [Streams -> Seq(1..MaxFrames)]
    BY <1>1
  <2>3. /\ 0 \in 0..MaxFrames /\ 0 \in 0..0 /\ 1 \in 1..(0 + 1)
        /\ [s \in Streams |-> 0] \in [Streams -> 0..MaxFrames]
    BY ContinuousAssumption
  <2>4. [s \in Streams |-> "none"] \in [Streams -> Sessions]
    BY DEF Sessions
  <2> QED
    BY <2>1, <2>2, <2>3, <2>4 DEF Init, TypeOK, Contexts
<1>3. WaitsInTime /\ WakeFindsNewFrame
  BY DEF Init, WaitsInTime, WakeFindsNewFrame
<1>4. Untouched /\ StreamsMissNothing
  BY DEF Init, Untouched, StreamsMissNothing, until
<1> QED
  BY <1>2, <1>3, <1>4 DEF IInv

LEMMA NextIInv == IInv /\ [Next]_vars => IInv'
BY HandleIInv, ReadingIInv, SubscribeIInv, ReceiveIInv, EndIInv, ContextIInv
   DEF Next, Loop, Consumer, Closing

LEMMA Invariance == Spec => []IInv
BY InitIInv, NextIInv, PTL DEF Spec

-----------------------------------------------------------------------------
\* The theorems

\* The cache never runs ahead of the line, and every stream holds numbers of
\* frames that arrived.
THEOREM TypeCorrect == Spec => []TypeOK
BY Invariance, PTL DEF IInv

\* A wait that is woken finds a frame newer than the one it was told to skip,
\* whatever frames, readers and cancellations came in between
\* (continuous/client.py:106-124).
THEOREM WokenByNewFrame == Spec => []WakeFindsNewFrame
BY Invariance, PTL DEF IInv

\* Every stream, however many there are and however slow their consumers, has
\* each frame between its subscription and its closing once and in order.
THEOREM NothingMissed == Spec => []StreamsMissNothing
BY Invariance, PTL DEF IInv

-----------------------------------------------------------------------------
\* Frames: sums and the checksum.  Induction is over sets of numbers, whose
\* least element NatLessThanWellFounded gives.

\* Induction up to a bound, as a fact about sets.
LEMMA Induction ==
  ASSUME NEW n \in Nat, NEW T, 0 \in T, \A k \in 1..n : k - 1 \in T => k \in T
  PROVE  0..n \subseteq T
<1> SUFFICES ASSUME (0..n) \ T # {} PROVE FALSE
    OBVIOUS
<1> DEFINE R == OpToRel(<, Nat)
<1>1. IsWellFoundedOn(R, Nat)
    BY NatLessThanWellFounded, Zenon
<1>2. (0..n) \ T \subseteq Nat
    OBVIOUS
<1>3. \A x, y \in Nat : y < x => <<y, x>> \in R
    BY DEF OpToRel
<1> HIDE DEF R
<1>4. PICK x \in (0..n) \ T : \A y \in (0..n) \ T : ~(<<y, x>> \in R)
    BY <1>1, <1>2, WFMin, Zenon
<1>5. x \in 1..n /\ x - 1 \in (0..n) \ T /\ x - 1 < x
    OBVIOUS
<1>6. QED
    BY <1>2, <1>3, <1>4, <1>5

\* A function on 0..n is determined by its first value and by how each value
\* follows from the one before.
LEMMA Recursion ==
  ASSUME NEW n \in Nat, NEW first \in Int, NEW step \in [1..n -> [Int -> Int]]
  PROVE  \E f \in [0..n -> Int] :
           f[0] = first /\ \A k \in 1..n : f[k] = step[k][f[k - 1]]
<1> DEFINE Upto(m) == \E f \in [0..m -> Int] :
                        f[0] = first /\ \A k \in 1..m : f[k] = step[k][f[k - 1]]
           T == {m \in 0..n : Upto(m)}
<1>1. Upto(0)
  <2> DEFINE g == [k \in 0..0 |-> first]
  <2>1. g \in [0..0 -> Int] /\ g[0] = first
      OBVIOUS
  <2> HIDE DEF g
  <2>2. \A k \in 1..0 : g[k] = step[k][g[k - 1]]
      OBVIOUS
  <2>3. QED
      BY <2>1, <2>2
<1>2. ASSUME NEW m \in 1..n, Upto(m - 1) PROVE Upto(m)
  <2>1. PICK f \in [0..(m - 1) -> Int] :
          f[0] = first /\ \A k \in 1..(m - 1) : f[k] = step[k][f[k - 1]]
      BY <1>2
  <2>2. step[m][f[m - 1]] \in Int
      OBVIOUS
  <2> DEFINE g == [k \in 0..m |-> IF k = m THEN step[m][f[m - 1]] ELSE f[k]]
  <2>3. /\ g \in [0..m -> Int]
        /\ g[m] = step[m][f[m - 1]]
        /\ \A k \in 0..(m - 1) : g[k] = f[k]
    <3>1. \A k \in 0..m : k # m => f[k] \in Int
        OBVIOUS
    <3>2. m \in 0..m /\ \A k \in 0..(m - 1) : k \in 0..m /\ k # m
        OBVIOUS
    <3>3. QED
        BY <2>2, <3>1, <3>2
  <2> HIDE DEF g
  <2>4. g[0] = first
      BY <2>1, <2>3
  <2>5. ASSUME NEW k \in 1..m PROVE g[k] = step[k][g[k - 1]]
    <3>1. g[k - 1] = f[k - 1]
        BY <2>3
    <3>2. CASE k = m
        BY <2>3, <3>1, <3>2
    <3>3. CASE k # m
        BY <2>1, <2>3, <3>1, <3>3
    <3>4. QED
        BY <3>2, <3>3
  <2>6. QED
      BY <2>3, <2>4, <2>5
<1> HIDE DEF Upto
<1>3. 0..n \subseteq T
  <2>1. 0 \in T
      BY <1>1
  <2>2. \A m \in 1..n : m - 1 \in T => m \in T
      BY <1>2
  <2> HIDE DEF T
  <2>3. QED
      BY <2>1, <2>2, Induction
<1>4. Upto(n)
    BY <1>3
<1>5. QED
    BY <1>4 DEF Upto

\* The sum of the first bytes, and what it becomes with the next one.
LEMMA SumDef ==
  ASSUME NEW s \in Seq(Int)
  PROVE  \E f \in [0..Len(s) -> Int] :
           /\ f[0] = 0 /\ \A k \in 1..Len(s) : f[k] = f[k - 1] + s[k]
           /\ Sum(s) = f[Len(s)]
<1> DEFINE step == [k \in 1..Len(s) |-> [a \in Int |-> a + s[k]]]
           Is(f) == f = [k \in 0..Len(s) |-> IF k = 0 THEN 0 ELSE f[k - 1] + s[k]]
           g == CHOOSE f : Is(f)
           T == {k \in 0..Len(s) : g[k] \in Int}
<1>0. Len(s) \in Nat /\ \A k \in 1..Len(s) : s[k] \in Int
    OBVIOUS
<1>1. step \in [1..Len(s) -> [Int -> Int]] /\ \A k \in 1..Len(s), a \in Int : step[k][a] = a + s[k]
    BY <1>0
<1>2. \E f \in [0..Len(s) -> Int] :
        f[0] = 0 /\ \A k \in 1..Len(s) : f[k] = step[k][f[k - 1]]
  <2> HIDE DEF step
  <2>1. QED
      BY <1>0, <1>1, Recursion, 0 \in Int, ZenonT(60)
<1>3. PICK f \in [0..Len(s) -> Int] :
        f[0] = 0 /\ \A k \in 1..Len(s) : f[k] = f[k - 1] + s[k]
  <2> HIDE DEF step
  <2>1. PICK f \in [0..Len(s) -> Int] :
          f[0] = 0 /\ \A k \in 1..Len(s) : f[k] = step[k][f[k - 1]]
      BY <1>2
  <2>2. \A k \in 1..Len(s) : f[k - 1] \in Int
      BY <1>0
  <2>3. QED
      BY <1>1, <2>1, <2>2, ZenonT(60)
<1>4. Is(f)
    BY <1>3
<1>5. Is(g)
  <2> HIDE DEF Is
  <2>1. QED
      BY <1>4
<1> HIDE DEF g
<1>6. g[0] = 0 /\ \A k \in 1..Len(s) : g[k] = g[k - 1] + s[k]
    BY <1>0, <1>5, SMTT(30)
<1>7. g = [k \in 0..Len(s) |-> g[k]]
    BY <1>5
<1> HIDE DEF Is
<1>8. ASSUME NEW k \in 1..Len(s), g[k - 1] \in Int PROVE g[k] \in Int
    BY <1>0, <1>6, <1>8
<1>9. 0..Len(s) \subseteq T
  <2>1. 0 \in T /\ \A k \in 1..Len(s) : k - 1 \in T => k \in T
      BY <1>0, <1>6, <1>8
  <2> HIDE DEF T
  <2>2. QED
      BY <1>0, <2>1, Induction
<1>10. g \in [0..Len(s) -> Int]
    BY <1>7, <1>9
<1>11. Sum(s) = g[Len(s)]
    BY DEF Sum, g, Is
<1>12. QED
    BY <1>6, <1>10, <1>11

\* The value of the first digits, and what it becomes with the next one.
LEMMA ValueDef ==
  ASSUME NEW s \in Seq(Int)
  PROVE  \E f \in [0..Len(s) -> Int] :
           /\ f[0] = 0 /\ \A k \in 1..Len(s) : f[k] = f[k - 1] * Base + s[k] - 1
           /\ Value(s) = f[Len(s)]
<1> DEFINE Then(a, k) == a * Base + s[k] - 1
           step == [k \in 1..Len(s) |-> [a \in Int |-> Then(a, k)]]
           Is(f) == f = [k \in 0..Len(s) |-> IF k = 0 THEN 0 ELSE Then(f[k - 1], k)]
           g == CHOOSE f : Is(f)
           T == {k \in 0..Len(s) : g[k] \in Int}
<1>0. Len(s) \in Nat /\ \A k \in 1..Len(s), a \in Int : Then(a, k) \in Int
    BY FramesAssumption
<1> HIDE DEF Then
<1>1. step \in [1..Len(s) -> [Int -> Int]] /\ \A k \in 1..Len(s), a \in Int : step[k][a] = Then(a, k)
    BY <1>0
<1>2. \E f \in [0..Len(s) -> Int] :
        f[0] = 0 /\ \A k \in 1..Len(s) : f[k] = step[k][f[k - 1]]
  <2> HIDE DEF step
  <2>1. QED
      BY <1>0, <1>1, Recursion, 0 \in Int, ZenonT(60)
<1>3. PICK f \in [0..Len(s) -> Int] :
        f[0] = 0 /\ \A k \in 1..Len(s) : f[k] = Then(f[k - 1], k)
  <2> HIDE DEF step
  <2>1. PICK f \in [0..Len(s) -> Int] :
          f[0] = 0 /\ \A k \in 1..Len(s) : f[k] = step[k][f[k - 1]]
      BY <1>2
  <2>2. \A k \in 1..Len(s) : f[k - 1] \in Int
      OBVIOUS
  <2>3. QED
      BY <1>1, <2>1, <2>2, ZenonT(60)
<1>4. Is(f)
    BY <1>3
<1>5. Is(g)
  <2> HIDE DEF Is
  <2>1. QED
      BY <1>4
<1> HIDE DEF g
<1>6. g[0] = 0 /\ \A k \in 1..Len(s) : g[k] = Then(g[k - 1], k)
  <2>1. \A k \in 0..Len(s) : g[k] = IF k = 0 THEN 0 ELSE Then(g[k - 1], k)
      BY <1>5, Zenon
  <2>2. QED
      BY <2>1
<1>7. g = [k \in 0..Len(s) |-> g[k]]
    BY <1>5
<1> HIDE DEF Is
<1>8. ASSUME NEW k \in 1..Len(s), g[k - 1] \in Int PROVE g[k] \in Int
    BY <1>0, <1>6, <1>8
<1>9. 0..Len(s) \subseteq T
  <2>1. 0 \in T /\ \A k \in 1..Len(s) : k - 1 \in T => k \in T
      BY <1>0, <1>6, <1>8
  <2> HIDE DEF T
  <2>2. QED
      BY <1>0, <2>1, Induction
<1>10. g \in [0..Len(s) -> Int]
    BY <1>7, <1>9
<1>11. Value(s) = g[Len(s)]
    BY DEF Value, g, Is, Then
<1>12. QED
    BY <1>6, <1>10, <1>11 DEF Then

\* The powers of the base up to the n-th.
LEMMA PowerDef ==
  ASSUME NEW n \in Nat
  PROVE  \E f \in [0..n -> Int] :
           f[0] = 1 /\ (\A k \in 1..n : f[k] = f[k - 1] * Base) /\ Power(n) = f[n]
<1> DEFINE step == [k \in 1..n |-> [a \in Int |-> a * Base]]
           Is(f) == f = [k \in 0..n |-> IF k = 0 THEN 1 ELSE f[k - 1] * Base]
           g == CHOOSE f : Is(f)
           T == {k \in 0..n : g[k] \in Int}
<1>0. Base \in Int
    BY FramesAssumption
<1>1. step \in [1..n -> [Int -> Int]] /\ \A k \in 1..n, a \in Int : step[k][a] = a * Base
    BY <1>0
<1>2. \E f \in [0..n -> Int] :
        f[0] = 1 /\ \A k \in 1..n : f[k] = step[k][f[k - 1]]
  <2> HIDE DEF step
  <2>1. QED
      BY <1>0, <1>1, Recursion, 1 \in Int, ZenonT(60)
<1>3. PICK f \in [0..n -> Int] :
        f[0] = 1 /\ \A k \in 1..n : f[k] = f[k - 1] * Base
  <2> HIDE DEF step
  <2>1. PICK f \in [0..n -> Int] :
          f[0] = 1 /\ \A k \in 1..n : f[k] = step[k][f[k - 1]]
      BY <1>2
  <2>2. \A k \in 1..n : f[k - 1] \in Int
      BY <1>0
  <2>3. QED
      BY <1>1, <2>1, <2>2
<1>4. Is(f)
    BY <1>3
<1>5. Is(g)
  <2> HIDE DEF Is
  <2>1. QED
      BY <1>4
<1> HIDE DEF g
<1>6. g[0] = 1 /\ \A k \in 1..n : g[k] = g[k - 1] * Base
    BY <1>0, <1>5
<1>7. g = [k \in 0..n |-> g[k]]
    BY <1>5
<1> HIDE DEF Is
<1>8. ASSUME NEW k \in 1..n, g[k - 1] \in Int PROVE g[k] \in Int
    BY <1>0, <1>6, <1>8
<1>9. 0..n \subseteq T
  <2>1. 0 \in T /\ \A k \in 1..n : k - 1 \in T => k \in T
      BY <1>0, <1>6, <1>8
  <2> HIDE DEF T
  <2>2. QED
      BY <1>0, <2>1, Induction
<1>10. g \in [0..n -> Int]
    BY <1>7, <1>9
<1>11. Power(n) = g[n]
    BY DEF Power, g, Is
<1>12. QED
    BY <1>6, <1>10, <1>11

\* A sum of integers is one.
LEMMA SumType ==
  ASSUME NEW s \in Seq(Int)
  PROVE  Sum(s) \in Int
<1>1. PICK f \in [0..Len(s) -> Int] : Sum(s) = f[Len(s)]
    BY SumDef
<1>2. QED
    BY <1>1

\* A sequence of one byte, or of none.
LEMMA SumShort ==
  /\ Sum(<<>>) = 0
  /\ \A x \in Int : Sum(<<x>>) = x
<1>1. Sum(<<>>) = 0
  <2>1. <<>> \in Seq(Int) /\ Len(<<>>) = 0
      BY EmptySeq
  <2>2. QED
      BY <2>1, SumDef
<1>2. ASSUME NEW x \in Int PROVE Sum(<<x>>) = x
  <2>1. <<x>> \in Seq(Int) /\ Len(<<x>>) = 1 /\ <<x>>[1] = x
      OBVIOUS
  <2>2. PICK f \in [0..1 -> Int] : f[0] = 0 /\ f[1] = f[0] + x /\ Sum(<<x>>) = f[1]
    <3>1. PICK f \in [0..Len(<<x>>) -> Int] :
            /\ f[0] = 0 /\ \A k \in 1..Len(<<x>>) : f[k] = f[k - 1] + <<x>>[k]
            /\ Sum(<<x>>) = f[Len(<<x>>)]
        BY <2>1, SumDef
    <3>2. f \in [0..1 -> Int] /\ f[1] = f[0] + <<x>>[1]
        BY <2>1, <3>1
    <3>3. QED
        BY <2>1, <3>1, <3>2
  <2>3. QED
      BY <2>2
<1>3. QED
    BY <1>1, <1>2

\* The elements of a concatenation.
LEMMA ConcatAt ==
  ASSUME NEW s \in Seq(Int), NEW t \in Seq(Int)
  PROVE  /\ s \o t \in Seq(Int)
         /\ Len(s \o t) = Len(s) + Len(t)
         /\ \A k \in 1..Len(s) : (s \o t)[k] = s[k]
         /\ \A k \in 1..Len(t) : (s \o t)[Len(s) + k] = t[k]
<1>1. /\ s \o t \in Seq(Int)
      /\ Len(s \o t) = Len(s) + Len(t)
      /\ \A i \in 1..(Len(s) + Len(t)) :
           (s \o t)[i] = IF i <= Len(s) THEN s[i] ELSE t[i - Len(s)]
    BY ConcatProperties
<1>2. Len(s) \in Nat /\ Len(t) \in Nat
    OBVIOUS
<1>3. ASSUME NEW k \in 1..Len(t) PROVE (s \o t)[Len(s) + k] = t[k]
  <2>1. /\ Len(s) + k \in 1..(Len(s) + Len(t)) /\ ~(Len(s) + k <= Len(s))
        /\ Len(s) + k - Len(s) = k
      BY <1>2
  <2>2. QED
      BY <1>1, <2>1
<1>4. QED
    BY <1>1, <1>2, <1>3

\* The sum over a concatenation, up to any byte of its second part.
LEMMA SumsAdd ==
  ASSUME NEW n \in Nat, NEW m \in Nat,
         NEW f \in [0..n -> Int], NEW g \in [0..m -> Int], NEW h \in [0..(n + m) -> Int],
         NEW s \in [1..n -> Int], NEW t \in [1..m -> Int],
         f[0] = 0, \A k \in 1..n : f[k] = f[k - 1] + s[k],
         g[0] = 0, \A k \in 1..m : g[k] = g[k - 1] + t[k],
         h[0] = 0, \A k \in 1..n : h[k] = h[k - 1] + s[k],
         \A k \in 1..m : h[n + k] = h[n + k - 1] + t[k]
  PROVE  h[n + m] = f[n] + g[m]
<1> DEFINE T == {k \in 0..n : h[k] = f[k]}
           U == {k \in 0..m : h[n + k] = f[n] + g[k]}
<1>1. h[n] = f[n]
  <2>1. 0 \in T
      OBVIOUS
  <2>2. ASSUME NEW k \in 1..n, k - 1 \in T PROVE k \in T
      BY <2>2
  <2>3. 0..n \subseteq T
    <3> HIDE DEF T
    <3>1. QED
        BY <2>1, <2>2, Induction
  <2>4. QED
      BY <2>3
<1>2. 0..m \subseteq U
  <2>1. 0 \in U
      BY <1>1
  <2>2. ASSUME NEW k \in 1..m, k - 1 \in U PROVE k \in U
    <3>1. h[n + k - 1] = f[n] + g[k - 1] /\ f[n] \in Int /\ g[k - 1] \in Int /\ t[k] \in Int
        BY <2>2
    <3>2. h[n + k] = f[n] + g[k]
        BY <3>1, SMTT(30)
    <3>3. QED
        BY <3>2
  <2> HIDE DEF U
  <2>3. QED
      BY <2>1, <2>2, Induction
<1>3. QED
    BY <1>2

\* The sum of what is sent is the sum of its parts.
LEMMA SumConcat ==
  ASSUME NEW s \in Seq(Int), NEW t \in Seq(Int)
  PROVE  Sum(s \o t) = Sum(s) + Sum(t)
<1>1. PICK n \in Nat, m \in Nat : n = Len(s) /\ m = Len(t)
    OBVIOUS
<1>2. PICK u \in Seq(Int) :
        /\ Sum(u) = Sum(s \o t) /\ Len(u) = n + m
        /\ \A k \in 1..n : u[k] = s[k]
        /\ \A k \in 1..m : u[n + k] = t[k]
  <2>1. /\ s \o t \in Seq(Int) /\ Len(s \o t) = Len(s) + Len(t)
        /\ \A k \in 1..Len(s) : (s \o t)[k] = s[k]
        /\ \A k \in 1..Len(t) : (s \o t)[Len(s) + k] = t[k]
      BY ConcatAt, Zenon
  <2>2. QED
      BY <1>1, <2>1, Zenon
<1>3. s \in [1..n -> Int] /\ t \in [1..m -> Int]
    BY <1>1, LenProperties
<1>4. PICK f \in [0..n -> Int] :
        f[0] = 0 /\ (\A k \in 1..n : f[k] = f[k - 1] + s[k]) /\ Sum(s) = f[n]
    BY <1>1, SumDef
<1>5. PICK g \in [0..m -> Int] :
        g[0] = 0 /\ (\A k \in 1..m : g[k] = g[k - 1] + t[k]) /\ Sum(t) = g[m]
    BY <1>1, SumDef
<1>6. PICK h \in [0..(n + m) -> Int] :
        h[0] = 0 /\ (\A k \in 1..(n + m) : h[k] = h[k - 1] + u[k]) /\ Sum(u) = h[n + m]
    BY <1>2, SumDef
<1>7. \A k \in 1..n : h[k] = h[k - 1] + s[k]
    BY <1>2, <1>6
<1>8. \A k \in 1..m : h[n + k] = h[n + k - 1] + t[k]
    BY <1>2, <1>6
<1>9. h[n + m] = f[n] + g[m]
    BY <1>3, <1>4, <1>5, <1>6, <1>7, <1>8, SumsAdd
<1>10. QED
    BY <1>2, <1>4, <1>5, <1>6, <1>9

\* A part of a sequence, byte by byte.
LEMMA SubSeqAt ==
  ASSUME NEW s \in Seq(Int), NEW i \in 1..(Len(s) + 1), NEW j \in (i - 1)..Len(s)
  PROVE  /\ SubSeq(s, i, j) \in Seq(Int)
         /\ Len(SubSeq(s, i, j)) = j - i + 1
         /\ \A k \in 1..(j - i + 1) : SubSeq(s, i, j)[k] = s[i + k - 1]
<1>1. i \in Int /\ j \in Int /\ \A k \in i..j : s[k] \in Int
    OBVIOUS
<1>2. /\ SubSeq(s, i, j) \in Seq(Int)
      /\ Len(SubSeq(s, i, j)) = IF i <= j THEN j - i + 1 ELSE 0
      /\ \A k \in 1..(j - i + 1) : SubSeq(s, i, j)[k] = s[i + k - 1]
  <2>1. Len(SubSeq(s, i, j)) = IF i <= j THEN j - i + 1 ELSE 0
      BY <1>1
  <2>2. SubSeq(s, i, j) \in Seq(Int)
      BY <1>1
  <2>3. \A k \in 1..(j - i + 1) : SubSeq(s, i, j)[k] = s[i + k - 1]
      BY <1>1
  <2>4. QED
      BY <2>1, <2>2, <2>3, Zenon
<1>3. Len(s) \in Nat /\ (~(i <= j) => j - i + 1 = 0)
    OBVIOUS
<1>4. QED
    BY <1>2, <1>3, Zenon

\* Adjacent parts make a part.
LEMMA Adjoin ==
  ASSUME NEW s \in Seq(Int), NEW k \in 0..Len(s), NEW n \in k..Len(s)
  PROVE  SubSeq(s, 1, k) \o SubSeq(s, k + 1, n) = SubSeq(s, 1, n)
<1>1. 1 \in 1..(Len(s) + 1) /\ k \in (1 - 1)..Len(s)
    OBVIOUS
<1>2. QED
    BY <1>1, ConcatAdjacentSubSeq, Zenon

\* A part of one byte.
LEMMA SubSeqOne ==
  ASSUME NEW s \in Seq(Int), NEW i \in 1..Len(s)
  PROVE  SubSeq(s, i, i) = <<s[i]>>
<1>1. i \in 1..(Len(s) + 1) /\ i \in (i - 1)..Len(s) /\ i - i + 1 = 1 /\ i + 1 - 1 = i
    OBVIOUS
<1>2. /\ SubSeq(s, i, i) \in Seq(Int)
      /\ Len(SubSeq(s, i, i)) = i - i + 1
      /\ \A k \in 1..(i - i + 1) : SubSeq(s, i, i)[k] = s[i + k - 1]
    BY <1>1, SubSeqAt, Zenon
<1>3. ASSUME NEW u \in Seq(Int), NEW x \in Int, Len(u) = 1, u[1] = x PROVE u = <<x>>
  <2>1. <<x>> \in Seq(Int) /\ Len(u) = Len(<<x>>) /\ \A k \in 1..Len(u) : u[k] = <<x>>[k]
      BY <1>3
  <2>2. QED
      BY <2>1, SeqEqual, Zenon
<1>4. Len(SubSeq(s, i, i)) = 1 /\ SubSeq(s, i, i)[1] = s[i] /\ s[i] \in Int
    BY <1>1, <1>2
<1>5. QED
    BY <1>2, <1>3, <1>4, Zenon

\* The bytes i and i + 1.
LEMMA SubSeqTwo ==
  ASSUME NEW s \in Seq(Int), NEW i \in 1..Len(s), NEW j \in 1..Len(s), j = i + 1
  PROVE  SubSeq(s, i, j) = <<s[i], s[j]>>
<1>1. i \in 1..(Len(s) + 1) /\ j \in (i - 1)..Len(s) /\ j - i + 1 = 2
    OBVIOUS
<1>2. /\ SubSeq(s, i, j) \in Seq(Int)
      /\ Len(SubSeq(s, i, j)) = j - i + 1
      /\ \A k \in 1..(j - i + 1) : SubSeq(s, i, j)[k] = s[i + k - 1]
    BY <1>1, SubSeqAt, Zenon
<1>3. ASSUME NEW u \in Seq(Int), NEW x \in Int, NEW y \in Int, Len(u) = 2, u[1] = x, u[2] = y
      PROVE  u = <<x, y>>
  <2>1. /\ <<x, y>> \in Seq(Int) /\ Len(u) = Len(<<x, y>>)
        /\ \A k \in 1..Len(u) : u[k] = <<x, y>>[k]
      BY <1>3
  <2>2. QED
      BY <2>1, SeqEqual, Zenon
<1>4. i + 1 - 1 = i /\ i + 2 - 1 = j /\ 1 \in 1..2 /\ 2 \in 1..2
    OBVIOUS
<1>5. /\ Len(SubSeq(s, i, j)) = 2 /\ SubSeq(s, i, j)[1] = s[i] /\ SubSeq(s, i, j)[2] = s[j]
    BY <1>1, <1>2, <1>4
<1>6. s[i] \in Int /\ s[j] \in Int
    OBVIOUS
<1>7. QED
    BY <1>2, <1>3, <1>5, <1>6, Zenon

\* A line is its first i bytes, what lies between, and the rest from byte j.
LEMMA ThreeParts ==
  ASSUME NEW s \in Seq(Int), NEW i \in 0..Len(s), NEW j \in (i + 1)..(Len(s) + 1)
  PROVE  s = (SubSeq(s, 1, i) \o SubSeq(s, i + 1, j - 1)) \o SubSeq(s, j, Len(s))
<1>1. Len(s) \in Nat
    OBVIOUS
<1>2. /\ j - 1 \in i..Len(s) /\ j - 1 \in 0..Len(s) /\ Len(s) \in (j - 1)..Len(s)
      /\ (j - 1) + 1 = j
    BY <1>1
<1>3. SubSeq(s, 1, i) \o SubSeq(s, i + 1, j - 1) = SubSeq(s, 1, j - 1)
    BY <1>2, Adjoin, Zenon
<1>4. SubSeq(s, 1, j - 1) \o SubSeq(s, (j - 1) + 1, Len(s)) = SubSeq(s, 1, Len(s))
    BY <1>2, Adjoin, Zenon
<1>5. SubSeq(s, 1, Len(s)) = s
    BY SubSeqFull, Zenon
<1>6. QED
    BY <1>2, <1>3, <1>4, <1>5, Zenon

\* The sum of a sequence is that of three parts of it.
LEMMA SumThree ==
  ASSUME NEW a \in Seq(Int), NEW m \in Seq(Int), NEW z \in Seq(Int)
  PROVE  Sum((a \o m) \o z) = Sum(a) + Sum(m) + Sum(z)
<1>1. a \o m \in Seq(Int)
    BY ConcatAt
<1>2. Sum(a \o m) = Sum(a) + Sum(m)
    BY SumConcat, Zenon
<1>3. Sum((a \o m) \o z) = Sum(a \o m) + Sum(z)
    BY <1>1, SumConcat, Zenon
<1>4. QED
    BY <1>2, <1>3, Zenon

\* The sum of a line with g in place of its part from i + 1 to j - 1.
LEMMA SumSpliced ==
  ASSUME NEW s \in Seq(Int), NEW i \in 0..Len(s), NEW j \in (i + 1)..(Len(s) + 1),
         NEW g \in Seq(Int)
  PROVE  /\ Sum(Spliced(s, i, g, j)) \in Int
         /\ Sum(Spliced(s, i, g, j)) - Sum(s) = Sum(g) - Sum(SubSeq(s, i + 1, j - 1))
<1> DEFINE a == SubSeq(s, 1, i)
           m == SubSeq(s, i + 1, j - 1)
           z == SubSeq(s, j, Len(s))
<1>1. a \in Seq(Int) /\ m \in Seq(Int) /\ z \in Seq(Int)
  <2>1. /\ 1 \in 1..(Len(s) + 1) /\ i \in (1 - 1)..Len(s)
        /\ i + 1 \in 1..(Len(s) + 1) /\ j - 1 \in ((i + 1) - 1)..Len(s)
        /\ j \in 1..(Len(s) + 1) /\ Len(s) \in (j - 1)..Len(s)
      OBVIOUS
  <2>2. QED
      BY <2>1, SubSeqAt, Zenon
<1>2. s = (a \o m) \o z
    BY ThreeParts, Zenon
<1>3. Spliced(s, i, g, j) = (a \o g) \o z
    BY DEF Spliced
<1> HIDE DEF a, m, z
<1>4. /\ Sum(a) \in Int /\ Sum(g) \in Int /\ Sum(z) \in Int /\ Sum(m) \in Int
    BY <1>1, SumType, Zenon
<1>5. Sum(s) = Sum(a) + Sum(m) + Sum(z)
    BY <1>1, <1>2, SumThree, ZenonT(60)
<1>6. Sum(Spliced(s, i, g, j)) = Sum(a) + Sum(g) + Sum(z)
  <2>1. Sum((a \o g) \o z) = Sum(a) + Sum(g) + Sum(z)
      BY <1>1, SumThree, ZenonT(60)
  <2>2. QED
      BY <1>3, <2>1, Zenon
<1>7. /\ Sum(Spliced(s, i, g, j)) \in Int
      /\ Sum(Spliced(s, i, g, j)) - Sum(s) = Sum(g) - Sum(m)
    BY <1>4, <1>5, <1>6
<1>8. QED
    BY <1>7 DEF m

\* A number and its remainder.
LEMMA Remainder ==
  ASSUME NEW a \in Int, NEW m \in Nat \ {0}
  PROVE  \E q, r \in Int : r = a % m /\ a = m * q + r
<1>1. a \div m \in Int /\ a % m \in Int
    OBVIOUS
<1>2. a % m = a - m * (a \div m)
    OBVIOUS
<1>3. PICK q, r \in Int : q = a \div m /\ r = a % m
    BY <1>1
<1>4. a = m * q + r
    BY <1>2, <1>3
<1>5. QED
    BY <1>3, <1>4, Zenon

\* Two numbers with the same remainder are equal if they are close enough.
LEMMA SameRemainder ==
  ASSUME NEW a \in Int, NEW b \in Int, NEW m \in Nat \ {0},
         a % m = b % m, a - b < m, b - a < m
  PROVE  a = b
<1>1. PICK p, q, r \in Int : a = m * p + r /\ b = m * q + r
  <2>1. PICK p, r \in Int : r = a % m /\ a = m * p + r
      BY Remainder, Zenon
  <2>2. PICK q, z \in Int : z = b % m /\ b = m * q + z
      BY Remainder, Zenon
  <2>3. z = r
      BY <2>1, <2>2, Zenon
  <2>4. QED
      BY <2>1, <2>2, <2>3, Zenon
<1>2. CASE p >= q + 1
  <2>1. m * p >= m * q + m
      BY <1>2
  <2>2. QED
      BY <1>1, <2>1
<1>3. CASE q >= p + 1
  <2>1. m * q >= m * p + m
      BY <1>3
  <2>2. QED
      BY <1>1, <2>1
<1>4. CASE p = q
    BY <1>1, <1>4
<1>5. QED
    BY <1>2, <1>3, <1>4

\* A digit more: dividing by p and then by b is dividing by p * b.
LEMMA DivideTwice ==
  ASSUME NEW n \in Nat, NEW p \in Nat \ {0}, NEW b \in Nat \ {0}
  PROVE  n \div p = (n \div (p * b)) * b + ((n \div p) % b)
<1>1. PICK q, r \in Nat : q = n \div p /\ n = p * q + r /\ r < p
    OBVIOUS
<1>2. PICK q1, d \in Nat : q1 = q \div b /\ d = q % b /\ q = b * q1 + d /\ d < b
    OBVIOUS
<1>3. p * b \in Nat \ {0} /\ b * q1 \in Nat /\ p * d \in Nat
    OBVIOUS
<1>4. n = (p * b) * q1 + (p * d + r)
  <2>1. p * (b * q1 + d) = p * (b * q1) + p * d
      OBVIOUS
  <2>2. p * (b * q1) = (p * b) * q1
      OBVIOUS
  <2>3. p * q = p * (b * q1 + d)
      BY <1>2
  <2>4. (p * b) * q1 \in Nat
      OBVIOUS
  <2>5. QED
      BY <1>1, <1>3, <2>1, <2>2, <2>3, <2>4
<1>5. p * d + r < p * b
  <2>1. p * d <= p * (b - 1)
      BY <1>2
  <2>2. p * (b - 1) = p * b - p
      OBVIOUS
  <2>3. QED
      BY <1>1, <1>3, <2>1, <2>2
<1>6. n \div (p * b) = q1
  <2>1. ASSUME NEW m \in Nat \ {0}, NEW e \in Nat, n = m * q1 + e, e < m
        PROVE  n \div m = q1
      BY <2>1
  <2>2. p * d + r \in Nat
      BY <1>3
  <2>3. QED
      BY <1>3, <1>4, <1>5, <2>1, <2>2
<1>7. QED
    BY <1>1, <1>2, <1>6

\* The numbers the checksum is written with.
LEMMA BaseFacts ==
  Base \in Nat /\ Base > 1 /\ HexLen \in Nat /\ HexLen > 0
BY FramesAssumption

\* Powers are positive, and each is the base times the one before.
LEMMA PowerStep ==
  /\ Power(0) = 1
  /\ \A n \in Nat : Power(n) \in Nat \ {0}
  /\ \A n \in Nat : Power(n + 1) = Power(n) * Base
<1>1. Power(0) = 1
  <2>1. 0 \in Nat
      OBVIOUS
  <2>2. QED
      BY <2>1, PowerDef
<1>2. ASSUME NEW n \in Nat PROVE Power(n) \in Nat \ {0}
  <2>1. PICK f \in [0..n -> Int] :
          f[0] = 1 /\ (\A k \in 1..n : f[k] = f[k - 1] * Base) /\ Power(n) = f[n]
      BY PowerDef
  <2> DEFINE T == {k \in 0..n : f[k] \in Nat \ {0}}
  <2>2. 0 \in T
      BY <2>1
  <2>3. ASSUME NEW k \in 1..n, k - 1 \in T PROVE k \in T
    <3>1. f[k - 1] \in Nat \ {0} /\ f[k] = f[k - 1] * Base
        BY <2>1, <2>3
    <3>2. \A x \in Nat \ {0} : x * Base \in Nat \ {0}
        BY BaseFacts
    <3>3. QED
        BY <3>1, <3>2
  <2>4. 0..n \subseteq T
    <3> HIDE DEF T
    <3>1. QED
        BY <2>2, <2>3, Induction
  <2>5. QED
      BY <2>1, <2>4
<1>3. ASSUME NEW n \in Nat PROVE Power(n + 1) = Power(n) * Base
  <2>1. PICK f \in [0..n -> Int] :
          f[0] = 1 /\ (\A k \in 1..n : f[k] = f[k - 1] * Base) /\ Power(n) = f[n]
      BY PowerDef
  <2>2. PICK g \in [0..(n + 1) -> Int] :
          /\ g[0] = 1 /\ (\A k \in 1..(n + 1) : g[k] = g[k - 1] * Base)
          /\ Power(n + 1) = g[n + 1]
      BY PowerDef, n + 1 \in Nat
  <2> DEFINE T == {k \in 0..n : g[k] = f[k]}
  <2>3. 0 \in T
      BY <2>1, <2>2
  <2>4. ASSUME NEW k \in 1..n, k - 1 \in T PROVE k \in T
    <3>1. g[k - 1] = f[k - 1] /\ f[k] = f[k - 1] * Base /\ g[k] = g[k - 1] * Base
        BY <2>1, <2>2, <2>4
    <3>2. QED
        BY <3>1
  <2>5. 0..n \subseteq T
    <3> HIDE DEF T
    <3>1. QED
        BY <2>3, <2>4, Induction
  <2>6. g[n] = f[n]
      BY <2>5
  <2>7. g[n + 1] = g[n] * Base
      BY <2>2
  <2>8. QED
      BY <2>1, <2>2, <2>6, <2>7
<1>4. QED
    BY <1>1, <1>2, <1>3

\* The modulus is positive and above every byte.
LEMMA ModulusFacts == Modulus \in Nat \ {0} /\ Other < Modulus
BY PowerStep, BaseFacts, FramesAssumption DEF Modulus

\* What hex(n) is made of: digits, HexLen of them.
LEMMA ChecksumType ==
  ASSUME NEW n \in Nat
  PROVE  /\ Checksum(n) \in Seq(Int) /\ Len(Checksum(n)) = HexLen
         /\ \A i \in 1..HexLen :
              Checksum(n)[i] = Digit((n \div Power(HexLen - i)) % Base)
         /\ \A i \in 1..HexLen : Checksum(n)[i] \in Digits
<1>1. ASSUME NEW i \in 1..HexLen
      PROVE  (n \div Power(HexLen - i)) % Base \in 0..(Base - 1)
  <2>1. HexLen - i \in Nat
      BY BaseFacts
  <2>2. Power(HexLen - i) \in Nat \ {0}
      BY <2>1, PowerStep
  <2>3. \A p \in Nat \ {0} : n \div p \in Nat
      OBVIOUS
  <2>4. \A q \in Nat : q % Base \in 0..(Base - 1)
      BY BaseFacts
  <2>5. QED
      BY <2>2, <2>3, <2>4
<1> DEFINE d(i) == Digit((n \div Power(HexLen - i)) % Base)
<1>2. \A i \in 1..HexLen : d(i) \in Digits /\ d(i) \in Int
    BY <1>1 DEF Digits, Digit
<1>3. Checksum(n) = [i \in 1..HexLen |-> d(i)]
    BY DEF Checksum
<1> HIDE DEF d
<1>4. /\ Checksum(n) \in Seq(Int) /\ Len(Checksum(n)) = HexLen
      /\ \A i \in 1..HexLen : Checksum(n)[i] = d(i)
    BY <1>2, <1>3, BaseFacts
<1>5. QED
    BY <1>2, <1>4 DEF d

\* Reading the digits of a number gives the number.
LEMMA ValueOfChecksum ==
  ASSUME NEW n \in Nat, n < Modulus
  PROVE  Value(Checksum(n)) = n
<1>1. PICK c \in Seq(Int) :
        /\ Len(c) = HexLen /\ Value(c) = Value(Checksum(n))
        /\ \A i \in 1..HexLen : c[i] = Digit((n \div Power(HexLen - i)) % Base)
    BY ChecksumType
<1>2. PICK f \in [0..HexLen -> Int] :
        /\ f[0] = 0 /\ \A k \in 1..HexLen : f[k] = f[k - 1] * Base + c[k] - 1
        /\ Value(c) = f[HexLen]
    BY <1>1, ValueDef
<1> DEFINE T == {k \in 0..HexLen : f[k] = n \div Power(HexLen - k)}
<1>3. 0 \in T
  <2>1. n \div Modulus = 0
      BY ModulusFacts
  <2>2. HexLen - 0 = HexLen
      BY BaseFacts
  <2>3. QED
      BY <1>2, <2>1, <2>2, BaseFacts DEF Modulus
<1>4. ASSUME NEW k \in 1..HexLen, k - 1 \in T PROVE k \in T
  <2>1. PICK i \in Nat : i = HexLen - k
      BY BaseFacts
  <2>2. HexLen - (k - 1) = i + 1
      BY <2>1, BaseFacts
  <2>3. PICK p \in Nat \ {0} : p = Power(i)
      BY PowerStep
  <2>4. Power(i + 1) = p * Base
      BY <2>3, PowerStep
  <2>5. f[k - 1] = n \div (p * Base)
      BY <1>4, <2>2, <2>4
  <2>6. n \div p = (n \div (p * Base)) * Base + ((n \div p) % Base)
      BY BaseFacts, DivideTwice, Base \in Nat \ {0}, Zenon
  <2>7. c[k] = ((n \div p) % Base) + 1
      BY <1>1, <2>1, <2>3 DEF Digit
  <2>8. PICK d \in Int : d = (n \div p) % Base
    <3>1. n \div p \in Nat
        OBVIOUS
    <3>2. QED
        BY <3>1, BaseFacts
  <2>9. f[k] = f[k - 1] * Base + c[k] - 1
      BY <1>2
  <2>10. f[k] = f[k - 1] * Base + d
    <3>1. f[k - 1] * Base \in Int /\ c[k] = d + 1
        BY <2>7, <2>8, BaseFacts
    <3>2. QED
        BY <2>9, <3>1
  <2>11. f[k] = n \div p
      BY <2>5, <2>6, <2>8, <2>10
  <2>12. QED
      BY <2>1, <2>3, <2>11
<1>5. 0..HexLen \subseteq T
  <2> HIDE DEF T
  <2>1. QED
      BY <1>3, <1>4, BaseFacts, Induction
<1>6. f[HexLen] = n \div Power(HexLen - HexLen)
    BY <1>5, BaseFacts
<1>7. n \div Power(HexLen - HexLen) = n
  <2>1. HexLen - HexLen = 0
      BY BaseFacts
  <2>2. Power(HexLen - HexLen) = 1
      BY <2>1, PowerStep
  <2>3. QED
      BY <2>2
<1>8. QED
    BY <1>1, <1>2, <1>6, <1>7

-----------------------------------------------------------------------------
\* Frames: numbers and the ends of a field

\* A set of positions has a first and a last one.
LEMMA Least ==
  ASSUME NEW S \in SUBSET Nat, S # {}
  PROVE  \E a \in S : \A j \in S : a <= j
<1> DEFINE R == OpToRel(<, Nat)
<1>1. IsWellFoundedOn(R, Nat)
    BY NatLessThanWellFounded, Zenon
<1>2. \A x, y \in Nat : y < x => <<y, x>> \in R
    BY DEF OpToRel
<1> HIDE DEF R
<1>3. PICK a \in S : \A j \in S : ~(<<j, a>> \in R)
    BY <1>1, WFMin, Zenon
<1>4. \A j \in S : ~(j < a)
  <2>1. \A j \in S : j \in Nat
      OBVIOUS
  <2>2. QED
      BY <1>2, <1>3, <2>1, Zenon
<1>5. QED
    BY <1>4

\* The greatest of such numbers.
LEMMA Greatest ==
  ASSUME NEW n \in Nat, NEW S \in SUBSET (1..n), S # {}
  PROVE  \E b \in S : \A j \in S : j <= b
<1> DEFINE U == {n - j : j \in S}
<1>1. U \in SUBSET Nat /\ U # {}
  <2>1. \A j \in S : n - j \in Nat
      OBVIOUS
  <2>2. PICK j \in S : TRUE
      OBVIOUS
  <2>3. n - j \in U
      BY <2>2
  <2>4. QED
      BY <2>1, <2>3, Zenon
<1>2. PICK a \in U : \A j \in U : a <= j
    BY <1>1, Least
<1>3. PICK b \in S : a = n - b
    OBVIOUS
<1>4. \A j \in S : n - b <= n - j
    BY <1>2, <1>3
<1>5. \A j \in S : j <= b
    BY <1>4
<1>6. QED
    BY <1>5

\* What Strip leaves: from the first byte that is no space to the last.
LEMMA StripOf ==
  ASSUME NEW s \in Seq(Int), NEW a \in 1..Len(s), NEW b \in 1..Len(s),
         s[a] # Space, s[b] # Space, \A i \in 1..Len(s) : s[i] # Space => a <= i /\ i <= b
  PROVE  Strip(s) = SubSeq(s, a, b)
<1> DEFINE inside == {i \in DOMAIN s : s[i] # Space}
<1>1. DOMAIN s = 1..Len(s) /\ Len(s) \in Nat
    OBVIOUS
<1>2. a \in inside /\ b \in inside /\ \A i \in inside : i \in Int /\ a <= i /\ i <= b
    BY <1>1
<1>3. Strip(s) = IF inside = {} THEN <<>>
                 ELSE SubSeq(s, CHOOSE i \in inside : \A j \in inside : i <= j,
                                CHOOSE i \in inside : \A j \in inside : j <= i)
    BY DEF Strip
<1> HIDE DEF inside
<1>4. (CHOOSE i \in inside : \A j \in inside : i <= j) = a
  <2>1. \A i \in inside : (\A j \in inside : i <= j) => i = a
      BY <1>2
  <2>2. \A j \in inside : a <= j
      BY <1>2
  <2>3. QED
      BY <1>2, <2>1, <2>2, Zenon
<1>5. (CHOOSE i \in inside : \A j \in inside : j <= i) = b
  <2>1. \A i \in inside : (\A j \in inside : j <= i) => i = b
      BY <1>2
  <2>2. \A j \in inside : j <= b
      BY <1>2
  <2>3. QED
      BY <1>2, <2>1, <2>2, Zenon
<1>6. inside # {}
    BY <1>2, Zenon
<1>7. QED
    BY <1>3, <1>4, <1>5, <1>6, Zenon

\* Digits alone are a number, and it is their value.
LEMMA NumberOfDigits ==
  ASSUME NEW s \in Seq(Int), s # <<>>, \A i \in 1..Len(s) : s[i] \in Digits
  PROVE  IsNumber(s) /\ Number(s) = Value(s)
<1>1. Len(s) \in Nat /\ Len(s) > 0 /\ DOMAIN s = 1..Len(s)
    BY EmptySeq
<1>2. \A i \in 1..Len(s) : s[i] # Space
    BY BaseFacts DEF Digits, Digit, Space
<1>3. Strip(s) = SubSeq(s, 1, Len(s))
  <2>1. 1 \in 1..Len(s) /\ Len(s) \in 1..Len(s)
      BY <1>1
  <2>2. \A i \in 1..Len(s) : 1 <= i /\ i <= Len(s)
      BY <1>1
  <2>3. QED
      BY <1>2, <2>1, <2>2, StripOf, Zenon
<1>4. Strip(s) = s
    BY <1>3, SubSeqFull, Zenon
<1>5. QED
    BY <1>1, <1>4, Zenon DEF IsNumber, Number

\* What one digit says.
LEMMA ValueOfDigit ==
  ASSUME NEW d \in 0..(Base - 1)
  PROVE  Value(<<Digit(d)>>) = d
<1>1. /\ <<Digit(d)>> \in Seq(Int) /\ Len(<<Digit(d)>>) = 1
      /\ <<Digit(d)>>[1] = d + 1 /\ d \in Int
    BY BaseFacts DEF Digit
<1>2. PICK f \in [0..1 -> Int] :
        f[0] = 0 /\ f[1] = f[0] * Base + (d + 1) - 1 /\ Value(<<Digit(d)>>) = f[1]
  <2>1. PICK f \in [0..Len(<<Digit(d)>>) -> Int] :
          /\ f[0] = 0
          /\ \A k \in 1..Len(<<Digit(d)>>) : f[k] = f[k - 1] * Base + <<Digit(d)>>[k] - 1
          /\ Value(<<Digit(d)>>) = f[Len(<<Digit(d)>>)]
      BY <1>1, ValueDef
  <2>2. f \in [0..1 -> Int] /\ f[1] = f[0] * Base + <<Digit(d)>>[1] - 1
      BY <1>1, <2>1
  <2>3. QED
      BY <1>1, <2>1, <2>2
<1>3. f[1] = d
    BY <1>1, <1>2, BaseFacts
<1>4. QED
    BY <1>2, <1>3

\* A digit, with or without the space a value is padded with.
LEMMA OneDigit ==
  ASSUME NEW d \in 0..(Base - 1)
  PROVE  /\ IsNumber(<<Digit(d)>>) /\ Number(<<Digit(d)>>) = d
         /\ IsNumber(<<Space, Digit(d)>>) /\ Number(<<Space, Digit(d)>>) = d
<1>1. Digit(d) \in Digits /\ Digit(d) \in Int /\ Space \in Int /\ Digit(d) # Space
    BY BaseFacts DEF Digits, Digit, Space
<1>2. IsNumber(<<Digit(d)>>) /\ Number(<<Digit(d)>>) = d
  <2>1. /\ <<Digit(d)>> \in Seq(Int) /\ <<Digit(d)>> # <<>>
        /\ \A i \in 1..Len(<<Digit(d)>>) : <<Digit(d)>>[i] \in Digits
      BY <1>1
  <2>2. QED
      BY <2>1, NumberOfDigits, ValueOfDigit, Zenon
<1>3. Strip(<<Space, Digit(d)>>) = <<Digit(d)>>
  <2>1. /\ <<Space, Digit(d)>> \in Seq(Int)
        /\ 2 \in 1..Len(<<Space, Digit(d)>>) /\ <<Space, Digit(d)>>[2] # Space
        /\ \A i \in 1..Len(<<Space, Digit(d)>>) :
             <<Space, Digit(d)>>[i] # Space => 2 <= i /\ i <= 2
      BY <1>1
  <2>2. Strip(<<Space, Digit(d)>>) = SubSeq(<<Space, Digit(d)>>, 2, 2)
      BY <2>1, StripOf, Zenon
  <2>3. SubSeq(<<Space, Digit(d)>>, 2, 2) = <<<<Space, Digit(d)>>[2]>>
      BY <2>1, SubSeqOne, Zenon
  <2>4. QED
      BY <2>2, <2>3
<1>4. Strip(<<Digit(d)>>) = <<Digit(d)>>
  <2>1. /\ <<Digit(d)>> \in Seq(Int)
        /\ 1 \in 1..Len(<<Digit(d)>>) /\ <<Digit(d)>>[1] # Space
        /\ \A i \in 1..Len(<<Digit(d)>>) : <<Digit(d)>>[i] # Space => 1 <= i /\ i <= 1
      BY <1>1
  <2>2. Strip(<<Digit(d)>>) = SubSeq(<<Digit(d)>>, 1, 1)
      BY <2>1, StripOf, Zenon
  <2>3. SubSeq(<<Digit(d)>>, 1, 1) = <<<<Digit(d)>>[1]>>
      BY <2>1, SubSeqOne, Zenon
  <2>4. QED
      BY <2>2, <2>3
<1>5. QED
    BY <1>2, <1>3, <1>4 DEF IsNumber, Number

\* No semicolon is within a number.
LEMMA NoSemiInNumber ==
  ASSUME NEW s \in Seq(Int), IsNumber(s), NEW i \in 1..Len(s)
  PROVE  s[i] # Semi
<1> SUFFICES ASSUME s[i] = Semi PROVE FALSE
    OBVIOUS
<1> DEFINE inside == {k \in 1..Len(s) : s[k] # Space}
<1>1. Len(s) \in Nat /\ Semi # Space /\ Semi \notin Digits
    BY BaseFacts DEF Semi, Space, Digits, Digit
<1>2. i \in inside /\ inside \in SUBSET (1..Len(s)) /\ inside \in SUBSET Nat
    BY <1>1
<1>3. PICK a \in inside : \A j \in inside : a <= j
    BY <1>2, Least
<1>4. PICK b \in inside : \A j \in inside : j <= b
    BY <1>1, <1>2, Greatest
<1>5. Strip(s) = SubSeq(s, a, b)
  <2>1. /\ a \in 1..Len(s) /\ b \in 1..Len(s) /\ s[a] # Space /\ s[b] # Space
        /\ \A k \in 1..Len(s) : s[k] # Space => a <= k /\ k <= b
      BY <1>3, <1>4
  <2>2. QED
      BY <2>1, StripOf, Zenon
<1>6. a \in 1..(Len(s) + 1) /\ b \in (a - 1)..Len(s) /\ a <= i /\ i <= b
    BY <1>1, <1>2, <1>3, <1>4
<1>7. /\ SubSeq(s, a, b) \in Seq(Int)
      /\ Len(SubSeq(s, a, b)) = b - a + 1
      /\ \A k \in 1..(b - a + 1) : SubSeq(s, a, b)[k] = s[a + k - 1]
    BY <1>6, SubSeqAt, Zenon
<1>8. i - a + 1 \in 1..(b - a + 1) /\ a + (i - a + 1) - 1 = i
    BY <1>6
<1>9. SubSeq(s, a, b)[i - a + 1] = Semi
    BY <1>7, <1>8
<1>10. i - a + 1 \in DOMAIN SubSeq(s, a, b)
    BY <1>7, <1>8
<1>11. QED
    BY <1>1, <1>5, <1>9, <1>10 DEF IsNumber

-----------------------------------------------------------------------------
\* Frames: the fields of a line

\* The size of a set that is listed in order.
LEMMA CountInOrder ==
  ASSUME NEW k \in Nat, NEW f \in [1..k -> Int], NEW T \in SUBSET Int,
         \A i, j \in 1..k : i < j => f[i] < f[j],
         \A x \in T : \E i \in 1..k : x = f[i],
         \A i \in 1..k : f[i] \in T
  PROVE  Cardinality(T) = k
<1>1. f \in [1..k -> T]
    OBVIOUS
<1>2. \A i, j \in 1..k : f[i] = f[j] => i = j
  <2> SUFFICES ASSUME NEW i \in 1..k, NEW j \in 1..k, f[i] = f[j] PROVE i = j
      OBVIOUS
  <2>1. f[i] \in Int /\ f[j] \in Int /\ i \in Int /\ j \in Int
      OBVIOUS
  <2>2. ~(i < j) /\ ~(j < i)
      BY <2>1
  <2>3. QED
      BY <2>1, <2>2
<1>3. f \in Bijection(1..k, T)
    BY <1>1, <1>2, Zenon DEF Bijection, Injection, Surjection, IsInjective
<1>4. ExistsBijection(1..k, T)
    BY <1>3, Zenon DEF ExistsBijection
<1>5. IsFiniteSet(1..k) /\ Cardinality(1..k) = k
  <2>1. 1 \in Int /\ k \in Int
      OBVIOUS
  <2>2. IsFiniteSet(1..k) /\ Cardinality(1..k) = IF 1 > k THEN 0 ELSE k - 1 + 1
      BY <2>1, FS_Interval, Zenon
  <2>3. QED
      BY <2>2
<1>6. QED
    BY <1>4, <1>5, FS_Bijection, Zenon

\* p lists the ends of the fields of s, m of them, in order.
EndsAre(s, m, p) ==
  /\ p \in [1..m -> 1..(Len(s) + 1)]
  /\ \A i, j \in 1..m : i < j => p[i] < p[j]
  /\ \A x \in Ends(s) : \E i \in 1..m : x = p[i]
  /\ \A i \in 1..m : p[i] \in Ends(s)

\* The end of the field k is the entry k of such a list.
LEMMA EndsInOrder ==
  ASSUME NEW s \in Seq(Int), NEW m \in Nat, NEW p, EndsAre(s, m, p)
  PROVE  /\ Cardinality(Ends(s)) = m
         /\ \A k \in 1..m : End(s, k) = p[k]
<1>1. /\ Ends(s) \in SUBSET Int
      /\ p \in [1..m -> Int] /\ \A i \in 1..m : p[i] \in Int
  <2>1. Len(s) \in Nat
      OBVIOUS
  <2>2. QED
      BY <2>1 DEF EndsAre, Ends
<1>2. /\ \A i, j \in 1..m : i < j => p[i] < p[j]
      /\ \A x \in Ends(s) : \E i \in 1..m : x = p[i]
      /\ \A i \in 1..m : p[i] \in Ends(s)
    BY Zenon DEF EndsAre
<1>3. Cardinality(Ends(s)) = m
    BY <1>1, <1>2, CountInOrder, Zenon
<1> DEFINE Before(i) == {j \in Ends(s) : j < i}
<1>4. ASSUME NEW k \in 1..m PROVE Cardinality(Before(p[k])) = k - 1
  <2>1. k - 1 \in Nat /\ 1..(k - 1) \subseteq 1..m
      OBVIOUS
  <2>2. PICK f \in [1..(k - 1) -> Int] : \A i \in 1..(k - 1) : f[i] = p[i]
    <3>1. [i \in 1..(k - 1) |-> p[i]] \in [1..(k - 1) -> Int]
        BY <1>1, <2>1
    <3>2. QED
        BY <3>1
  <2>3. Before(p[k]) \in SUBSET Int
      BY <1>1
  <2>4. \A i, j \in 1..(k - 1) : i < j => f[i] < f[j]
      BY <1>2, <2>1, <2>2
  <2>5. ASSUME NEW x \in Before(p[k]) PROVE \E i \in 1..(k - 1) : x = f[i]
    <3>1. x \in Ends(s) /\ x < p[k]
        OBVIOUS
    <3>2. PICK i \in 1..m : x = p[i]
        BY <1>2, <3>1, Zenon
    <3>3. ~(k < i) /\ i # k
        BY <1>1, <1>2, <3>1, <3>2
    <3>4. i \in 1..(k - 1)
        BY <3>3
    <3>5. QED
        BY <2>2, <3>2, <3>4, Zenon
  <2>6. \A i \in 1..(k - 1) : f[i] \in Before(p[k])
    <3> SUFFICES ASSUME NEW i \in 1..(k - 1) PROVE f[i] \in Before(p[k])
        OBVIOUS
    <3>1. i \in 1..m /\ i < k
        OBVIOUS
    <3>2. p[i] \in Ends(s) /\ p[i] < p[k]
        BY <1>2, <3>1
    <3>3. QED
        BY <2>2, <3>2
  <2> HIDE DEF Before
  <2>7. QED
      BY <2>1, <2>3, <2>4, <2>5, <2>6, CountInOrder, Zenon
<1>5. ASSUME NEW k \in 1..m PROVE End(s, k) = p[k]
  <2>1. p[k] \in Ends(s) /\ Cardinality(Before(p[k])) = k - 1
      BY <1>2, <1>4
  <2>2. ASSUME NEW i \in Ends(s), Cardinality(Before(i)) = k - 1 PROVE i = p[k]
    <3>1. PICK l \in 1..m : i = p[l]
        BY <1>2, Zenon
    <3> HIDE DEF Before
    <3>2. Cardinality(Before(p[l])) = l - 1
        BY <1>4
    <3>3. l - 1 = k - 1
        BY <2>2, <3>1, <3>2, Zenon
    <3>4. l = k
        BY <3>3
    <3>5. QED
        BY <3>1, <3>4, Zenon
  <2>3. End(s, k) = CHOOSE i \in Ends(s) : Cardinality(Before(i)) = k - 1
      BY DEF End
  <2> HIDE DEF Before
  <2>4. QED
      BY <2>1, <2>2, <2>3, Zenon
<1>6. QED
    BY <1>3, <1>5

\* The fields lie between these ends.
LEMMA SplitAt ==
  ASSUME NEW s \in Seq(Int), NEW m \in Nat, NEW p, EndsAre(s, m, p)
  PROVE  /\ Split(s) \in Seq(Seq(Int)) /\ Len(Split(s)) = m
         /\ m > 0 => Split(s)[1] = SubSeq(s, 1, p[1] - 1)
         /\ \A k \in 2..m : Split(s)[k] = SubSeq(s, p[k - 1] + 1, p[k] - 1)
<1>1. Cardinality(Ends(s)) = m /\ \A k \in 1..m : End(s, k) = p[k]
    BY EndsInOrder
<1> DEFINE F(k) == SubSeq(s, IF k = 1 THEN 1 ELSE End(s, k - 1) + 1, End(s, k) - 1)
<1>2. ASSUME NEW k \in 1..m PROVE F(k) \in Seq(Int)
  <2>1. /\ p[k] \in 1..(Len(s) + 1) /\ (k # 1 => p[k - 1] \in 1..(Len(s) + 1))
        /\ k # 1 => p[k - 1] < p[k]
      BY DEF EndsAre
  <2>2. PICK a, z \in Int :
          /\ a = IF k = 1 THEN 1 ELSE End(s, k - 1) + 1
          /\ z = End(s, k) - 1
          /\ a \in 1..(Len(s) + 1) /\ z \in (a - 1)..Len(s)
    <3>1. k # 1 => k - 1 \in 1..m
        OBVIOUS
    <3>2. End(s, k) = p[k] /\ (k # 1 => End(s, k - 1) = p[k - 1])
        BY <1>1, <3>1
    <3>3. Len(s) \in Nat
        OBVIOUS
    <3>4. p[k] - 1 \in 0..Len(s)
        BY <2>1, <3>3
    <3>5. CASE k = 1
      <4>1. 1 \in 1..(Len(s) + 1) /\ p[k] - 1 \in (1 - 1)..Len(s) /\ p[k] - 1 \in Int
          BY <3>3, <3>4
      <4>2. QED
          BY <3>2, <3>5, <4>1
    <3>6. CASE k # 1
      <4>1. /\ p[k - 1] + 1 \in 1..(Len(s) + 1) /\ p[k] - 1 \in ((p[k - 1] + 1) - 1)..Len(s)
            /\ p[k - 1] + 1 \in Int /\ p[k] - 1 \in Int
        <5>1. \A l \in Nat : \A c, d \in 1..(l + 1) : c < d =>
                /\ c + 1 \in 1..(l + 1) /\ d - 1 \in ((c + 1) - 1)..l
                /\ c + 1 \in Int /\ d - 1 \in Int
            OBVIOUS
        <5>2. QED
            BY <2>1, <3>3, <3>6, <5>1, Zenon
      <4>2. QED
          BY <3>2, <3>6, <4>1
    <3>7. QED
        BY <3>5, <3>6
  <2>3. SubSeq(s, a, z) \in Seq(Int)
      BY <2>2, SubSeqAt, Zenon
  <2>4. QED
      BY <2>2, <2>3, Zenon
<1>3. Split(s) = [k \in 1..m |-> F(k)]
    BY <1>1, Zenon DEF Split
<1> HIDE DEF F
<1>4. /\ Split(s) \in Seq(Seq(Int)) /\ Len(Split(s)) = m
      /\ \A k \in 1..m : Split(s)[k] = F(k)
    BY <1>2, <1>3
<1>5. m > 0 => F(1) = SubSeq(s, 1, p[1] - 1)
  <2>1. m > 0 => 1 \in 1..m
      OBVIOUS
  <2>2. QED
      BY <1>1, <2>1, Zenon DEF F
<1>6. ASSUME NEW k \in 2..m PROVE F(k) = SubSeq(s, p[k - 1] + 1, p[k] - 1)
  <2>1. k \in 1..m /\ k - 1 \in 1..m /\ k # 1
      OBVIOUS
  <2>2. QED
      BY <1>1, <2>1, Zenon DEF F
<1>7. QED
    BY <1>4, <1>5, <1>6

-----------------------------------------------------------------------------
\* The bytes of what an analyser sends.

\* What an analyser says is a date and readings whose numbers are digits.
LEMMA BroadcastFacts ==
  ASSUME NEW b \in Broadcasts
  PROVE  /\ b.date \in 0..(Base - 1)
         /\ Len(b.readings) \in 0..(Base - 1)
         /\ DOMAIN b.readings = 1..Len(b.readings)
         /\ \A k \in 1..Len(b.readings) :
              /\ b.readings[k].channel \in Channels
              /\ b.readings[k].channel \in 0..(Base - 1)
              /\ b.readings[k].value \in 0..(Base - 1)
<1>1. /\ b.date \in 0..(Base - 1)
      /\ b.readings \in Seq([channel : Channels, value : 0..(Base - 1)])
      /\ Len(b.readings) < Base
      /\ Channels \subseteq 0..(Base - 1)
    BY FramesAssumption, Zenon
<1>2. /\ Len(b.readings) \in Nat /\ DOMAIN b.readings = 1..Len(b.readings)
      /\ \A k \in 1..Len(b.readings) :
           b.readings[k] \in [channel : Channels, value : 0..(Base - 1)]
    BY <1>1, LenProperties, ElementOfSeq, Zenon
<1>3. Len(b.readings) \in 0..(Base - 1)
    BY <1>1, <1>2, BaseFacts
<1>4. QED
    BY <1>1, <1>2, <1>3

\* The bytes differ, and only the digits are digits.
LEMMA ByteFacts ==
  /\ Space \in Int /\ Semi \in Int /\ Return \in Int /\ Other \in Int /\ 0 < Space
  /\ Space < Semi /\ Semi < Return /\ Return < Other
  /\ \A d \in 0..(Base - 1) :
       Digit(d) \in Int /\ 0 < Digit(d) /\ Digit(d) < Space /\ Digit(d) \in Digits
  /\ \A x \in Digits : x \in Int /\ 0 < x /\ x < Space
BY BaseFacts DEF Space, Semi, Return, Other, Digit, Digits

\* The bytes of a block, one by one.
LEMMA BlockAt ==
  ASSUME NEW b \in Broadcasts, NEW k \in 1..Len(b.readings)
  PROVE  /\ Block(b.readings[k])[1] = Digit(b.readings[k].channel)
         /\ Block(b.readings[k])[2] = Semi
         /\ Block(b.readings[k])[3] = Space
         /\ Block(b.readings[k])[4] = Digit(b.readings[k].value)
         /\ Block(b.readings[k])[5] = Semi
         /\ \A r \in 1..5 : Block(b.readings[k])[r] \in Int
<1>1. Digit(b.readings[k].channel) \in Int /\ Digit(b.readings[k].value) \in Int
    BY BroadcastFacts, ByteFacts
<1>2. Semi \in Int /\ Space \in Int
    BY ByteFacts
<1>3. QED
    BY <1>1, <1>2 DEF Block

\* Where the bytes of the body are.
LEMMA BodyAt ==
  ASSUME NEW b \in Broadcasts, NEW n \in Nat, n = Len(b.readings)
  PROVE  /\ Body(b) \in Seq(Int) /\ Len(Body(b)) = 5 * n + 4
         /\ Body(b)[1] = Digit(b.date) /\ Body(b)[2] = Semi
         /\ Body(b)[3] = Digit(n) /\ Body(b)[4] = Semi
         /\ \A k \in 1..n :
              /\ Body(b)[5 * k] = Digit(b.readings[k].channel)
              /\ Body(b)[5 * k + 1] = Semi
              /\ Body(b)[5 * k + 2] = Space
              /\ Body(b)[5 * k + 3] = Digit(b.readings[k].value)
              /\ Body(b)[5 * k + 4] = Semi
<1> DEFINE h == <<Digit(b.date), Semi, Digit(Len(b.readings)), Semi>>
           e(j) == Block(b.readings[((j - 1) \div BlockBytes) + 1])[((j - 1) % BlockBytes) + 1]
           f == [j \in 1..(BlockBytes * Len(b.readings)) |-> e(j)]
<1>1. h \in Seq(Int) /\ Len(h) = 4
    BY BroadcastFacts, ByteFacts
<1>2. h[1] = Digit(b.date) /\ h[2] = Semi /\ h[3] = Digit(n) /\ h[4] = Semi
    OBVIOUS
<1>3. ASSUME NEW k \in 1..n, NEW r \in 1..5
      PROVE  e(5 * (k - 1) + r) = Block(b.readings[k])[r]
  <2>1. ASSUME NEW j \in Nat, ((j - 1) \div BlockBytes) + 1 = k, ((j - 1) % BlockBytes) + 1 = r
        PROVE  e(j) = Block(b.readings[k])[r]
      BY <2>1, Zenon
  <2> HIDE DEF e
  <2>2. PICK j \in Nat : j = 5 * (k - 1) + r
      OBVIOUS
  <2>3. ((j - 1) \div BlockBytes) + 1 = k /\ ((j - 1) % BlockBytes) + 1 = r
      BY <2>2 DEF BlockBytes
  <2>4. QED
      BY <2>1, <2>2, <2>3
<1>4. ASSUME NEW j \in 1..(5 * n) PROVE e(j) \in Int
  <2>1. PICK k \in 1..n, r \in 1..5 : j = 5 * (k - 1) + r
    <3>1. /\ ((j - 1) \div 5) + 1 \in 1..n /\ ((j - 1) % 5) + 1 \in 1..5
          /\ j = 5 * ((((j - 1) \div 5) + 1) - 1) + (((j - 1) % 5) + 1)
        OBVIOUS
    <3>2. QED
        BY <3>1, Zenon
  <2> HIDE DEF e
  <2>2. e(j) = Block(b.readings[k])[r]
      BY <1>3, <2>1, Zenon
  <2>3. Block(b.readings[k])[r] \in Int
      BY BlockAt
  <2>4. QED
      BY <2>2, <2>3
<1>5. Body(b) = h \o f
    BY DEF Body
<1> HIDE DEF h, e
<1>6. f \in Seq(Int) /\ Len(f) = 5 * n /\ \A j \in 1..(5 * n) : f[j] = e(j)
  <2>1. f = [j \in 1..(5 * n) |-> e(j)]
      BY DEF BlockBytes
  <2> HIDE DEF f
  <2>2. 5 * n \in Nat
      OBVIOUS
  <2>3. QED
      BY <1>4, <2>1, <2>2
<1> HIDE DEF f
<1>7. /\ Body(b) \in Seq(Int) /\ Len(Body(b)) = Len(h) + Len(f)
      /\ \A j \in 1..Len(h) : Body(b)[j] = h[j]
      /\ \A j \in 1..Len(f) : Body(b)[Len(h) + j] = f[j]
  <2>1. h \in Seq(Int) /\ f \in Seq(Int)
      BY <1>1, <1>6
  <2>2. /\ h \o f \in Seq(Int) /\ Len(h \o f) = Len(h) + Len(f)
        /\ \A k \in 1..Len(h) : (h \o f)[k] = h[k]
        /\ \A k \in 1..Len(f) : (h \o f)[Len(h) + k] = f[k]
      BY <2>1, ConcatAt, Zenon
  <2>3. QED
      BY <1>5, <2>2, Zenon
<1>8. Len(Body(b)) = 5 * n + 4
    BY <1>1, <1>6, <1>7
<1>9. Body(b)[1] = h[1] /\ Body(b)[2] = h[2] /\ Body(b)[3] = h[3] /\ Body(b)[4] = h[4]
    BY <1>1, <1>7
<1>10. \A j \in 1..(5 * n) : Body(b)[4 + j] = f[j]
    BY <1>1, <1>6, <1>7
<1>11. ASSUME NEW k \in 1..n, NEW r \in 1..5
       PROVE  Body(b)[5 * k + r - 1] = Block(b.readings[k])[r]
  <2>1. PICK j \in 1..(5 * n) : j = 5 * (k - 1) + r /\ 4 + j = 5 * k + r - 1
      OBVIOUS
  <2>2. Body(b)[4 + j] = e(j) /\ e(j) = Block(b.readings[k])[r]
      BY <1>3, <1>6, <1>10, <2>1
  <2>3. QED
      BY <2>1, <2>2
<1>12. ASSUME NEW k \in 1..n
       PROVE  /\ Body(b)[5 * k] = Digit(b.readings[k].channel)
              /\ Body(b)[5 * k + 1] = Semi
              /\ Body(b)[5 * k + 2] = Space
              /\ Body(b)[5 * k + 3] = Digit(b.readings[k].value)
              /\ Body(b)[5 * k + 4] = Semi
  <2>1. /\ 5 * k + 1 - 1 = 5 * k /\ 5 * k + 2 - 1 = 5 * k + 1 /\ 5 * k + 3 - 1 = 5 * k + 2
        /\ 5 * k + 4 - 1 = 5 * k + 3 /\ 5 * k + 5 - 1 = 5 * k + 4
        /\ 1 \in 1..5 /\ 2 \in 1..5 /\ 3 \in 1..5 /\ 4 \in 1..5 /\ 5 \in 1..5
      OBVIOUS
  <2>2. /\ Body(b)[5 * k] = Block(b.readings[k])[1]
        /\ Body(b)[5 * k + 1] = Block(b.readings[k])[2]
        /\ Body(b)[5 * k + 2] = Block(b.readings[k])[3]
        /\ Body(b)[5 * k + 3] = Block(b.readings[k])[4]
        /\ Body(b)[5 * k + 4] = Block(b.readings[k])[5]
    <3>1. /\ Body(b)[5 * k + 1 - 1] = Block(b.readings[k])[1]
          /\ Body(b)[5 * k + 2 - 1] = Block(b.readings[k])[2]
          /\ Body(b)[5 * k + 3 - 1] = Block(b.readings[k])[3]
          /\ Body(b)[5 * k + 4 - 1] = Block(b.readings[k])[4]
          /\ Body(b)[5 * k + 5 - 1] = Block(b.readings[k])[5]
        BY <1>11, <2>1
    <3>2. QED
        BY <2>1, <3>1
  <2>3. k \in 1..Len(b.readings)
      OBVIOUS
  <2>4. QED
      BY <2>2, <2>3, BlockAt, Zenon
<1>13. QED
    BY <1>2, <1>7, <1>8, <1>9, <1>12

\* The place of the j-th semicolon of a body.
SemiAt(j) ==
  IF j = 1 THEN 2 ELSE IF j % 2 = 0 THEN 5 * (j \div 2) - 1 ELSE 5 * (j \div 2) + 1

\* Two semicolons in the header and two in each block, in order.
LEMMA SemiAtFacts ==
  ASSUME NEW n \in Nat
  PROVE  /\ SemiAt(1) = 2 /\ SemiAt(2) = 4 /\ SemiAt(2 * n + 2) = 5 * n + 4
         /\ \A k \in 1..n : SemiAt(2 * k + 1) = 5 * k + 1 /\ SemiAt(2 * k + 2) = 5 * k + 4
         /\ \A k \in 1..n : SemiAt(2 * k) = 5 * k - 1
         /\ \A j \in 1..(2 * n + 2) : SemiAt(j) \in 1..(5 * n + 4)
         /\ \A i, j \in 1..(2 * n + 2) : i < j => SemiAt(i) < SemiAt(j)
<1>1. ASSUME NEW k \in Nat
      PROVE  /\ SemiAt(2 * k + 2) = 5 * k + 4
             /\ k > 0 => SemiAt(2 * k + 1) = 5 * k + 1
  <2>1. (2 * k + 2) % 2 = 0 /\ (2 * k + 2) \div 2 = k + 1
      OBVIOUS
  <2>2. (2 * k + 1) % 2 = 1 /\ (2 * k + 1) \div 2 = k
      OBVIOUS
  <2>3. QED
      BY <2>1, <2>2 DEF SemiAt
<1>2. SemiAt(1) = 2 /\ SemiAt(2) = 4
    BY DEF SemiAt
<1>3. ASSUME NEW j \in 1..(2 * n + 2)
      PROVE  /\ SemiAt(j) \in 1..(5 * n + 4)
             /\ j + 1 <= 2 * n + 2 => SemiAt(j) < SemiAt(j + 1)
             /\ j = 1 \/ (\E k \in 1..n : j = 2 * k + 1) \/ (\E k \in 0..n : j = 2 * k + 2)
  <2>1. CASE j = 1
      BY <1>2, <2>1
  <2>2. CASE \E k \in 1..n : j = 2 * k + 1
    <3>1. PICK k \in 1..n : j = 2 * k + 1
        BY <2>2
    <3>2. SemiAt(j) = 5 * k + 1 /\ SemiAt(j + 1) = 5 * k + 4
      <4>1. j + 1 = 2 * k + 2 /\ k \in Nat /\ k > 0
          BY <3>1
      <4>2. QED
          BY <1>1, <3>1, <4>1
    <3>3. QED
        BY <2>2, <3>2
  <2>3. CASE \E k \in 0..n : j = 2 * k + 2
    <3>1. PICK k \in 0..n : j = 2 * k + 2
        BY <2>3
    <3>2. SemiAt(j) = 5 * k + 4
        BY <1>1, <3>1
    <3>3. j + 1 <= 2 * n + 2 => SemiAt(j + 1) = 5 * (k + 1) + 1
      <4>1. j + 1 = 2 * (k + 1) + 1 /\ k + 1 \in Nat /\ k + 1 > 0
          BY <3>1
      <4>2. QED
          BY <1>1, <4>1
    <3>4. QED
        BY <2>3, <3>2, <3>3
  <2>4. j = 1 \/ (\E k \in 1..n : j = 2 * k + 1) \/ (\E k \in 0..n : j = 2 * k + 2)
    <3>1. CASE j % 2 = 0
      <4>1. (j \div 2) - 1 \in 0..n /\ j = 2 * ((j \div 2) - 1) + 2
          BY <3>1
      <4>2. QED
          BY <4>1
    <3>2. CASE j % 2 # 0 /\ j # 1
      <4>1. j \div 2 \in 1..n /\ j = 2 * (j \div 2) + 1
          BY <3>2
      <4>2. QED
          BY <4>1
    <3>3. QED
        BY <3>1, <3>2
  <2>5. QED
      BY <2>1, <2>2, <2>3, <2>4
<1>4. ASSUME NEW i \in 1..(2 * n + 2)
      PROVE  \A j \in 1..(2 * n + 2) : i < j => SemiAt(i) < SemiAt(j)
  <2> DEFINE T == {j \in 0..(2 * n + 2) : i < j => SemiAt(i) < SemiAt(j)}
  <2>1. 0 \in T
      OBVIOUS
  <2>2. ASSUME NEW j \in 1..(2 * n + 2), j - 1 \in T PROVE j \in T
    <3>1. CASE i < j - 1
      <4>1. j - 1 \in 1..(2 * n + 2) /\ (j - 1) + 1 = j
          BY <3>1
      <4>2. SemiAt(j - 1) < SemiAt(j) /\ SemiAt(i) < SemiAt(j - 1)
          BY <1>3, <2>2, <3>1, <4>1
      <4>3. SemiAt(i) \in Int /\ SemiAt(j) \in Int /\ SemiAt(j - 1) \in Int
          BY <1>3, <4>1
      <4>4. QED
          BY <4>2, <4>3
    <3>2. CASE i = j - 1
      <4>1. i + 1 = j
          BY <3>2
      <4>2. QED
          BY <1>3, <4>1
    <3>3. QED
        BY <3>1, <3>2
  <2>3. 0..(2 * n + 2) \subseteq T
    <3> HIDE DEF T
    <3>1. QED
        BY <2>1, <2>2, Induction, 2 * n + 2 \in Nat
  <2>4. QED
      BY <2>3
<1>5. ASSUME NEW k \in 1..n PROVE SemiAt(2 * k) = 5 * k - 1
  <2>1. k - 1 \in Nat /\ 2 * (k - 1) + 2 = 2 * k /\ 5 * (k - 1) + 4 = 5 * k - 1
      OBVIOUS
  <2>2. QED
      BY <1>1, <2>1
<1>6. QED
    BY <1>1, <1>2, <1>3, <1>4, <1>5

\* The semicolons of a body.
LEMMA BodySemis ==
  ASSUME NEW b \in Broadcasts, NEW n \in Nat, n = Len(b.readings)
  PROVE  /\ \A j \in 1..(2 * n + 2) : Body(b)[SemiAt(j)] = Semi
         /\ \A i \in 1..(5 * n + 4) :
              Body(b)[i] = Semi => \E j \in 1..(2 * n + 2) : i = SemiAt(j)
<1>1. /\ Body(b)[1] = Digit(b.date) /\ Body(b)[2] = Semi
      /\ Body(b)[3] = Digit(n) /\ Body(b)[4] = Semi
      /\ \A k \in 1..n :
           /\ Body(b)[5 * k] = Digit(b.readings[k].channel)
           /\ Body(b)[5 * k + 1] = Semi
           /\ Body(b)[5 * k + 2] = Space
           /\ Body(b)[5 * k + 3] = Digit(b.readings[k].value)
           /\ Body(b)[5 * k + 4] = Semi
    BY BodyAt, Zenon
<1>2. /\ \A d \in 0..(Base - 1) : Digit(d) # Semi
      /\ Space # Semi
    BY ByteFacts
<1>3. /\ Digit(b.date) # Semi /\ Digit(n) # Semi
      /\ \A k \in 1..n :
           Digit(b.readings[k].channel) # Semi /\ Digit(b.readings[k].value) # Semi
    BY <1>2, BroadcastFacts, Zenon
<1>4. ASSUME NEW j \in 1..(2 * n + 2) PROVE Body(b)[SemiAt(j)] = Semi
  <2>1. CASE j = 1
      BY <1>1, <2>1, SemiAtFacts
  <2>2. CASE j = 2
      BY <1>1, <2>2, SemiAtFacts
  <2>3. CASE j > 2 /\ j % 2 = 0
    <3>1. PICK k \in 1..n : j = 2 * k + 2
      <4>1. (j \div 2) - 1 \in 1..n /\ j = 2 * ((j \div 2) - 1) + 2
          BY <2>3
      <4>2. QED
          BY <4>1
    <3>2. SemiAt(j) = 5 * k + 4
        BY <3>1, SemiAtFacts
    <3>3. QED
        BY <1>1, <3>2
  <2>4. CASE j > 2 /\ j % 2 # 0
    <3>1. PICK k \in 1..n : j = 2 * k + 1
      <4>1. j \div 2 \in 1..n /\ j = 2 * (j \div 2) + 1
          BY <2>4
      <4>2. QED
          BY <4>1
    <3>2. SemiAt(j) = 5 * k + 1
        BY <3>1, SemiAtFacts
    <3>3. QED
        BY <1>1, <3>2
  <2>5. QED
      BY <2>1, <2>2, <2>3, <2>4
<1>5. ASSUME NEW i \in 1..(5 * n + 4), Body(b)[i] = Semi
      PROVE  \E j \in 1..(2 * n + 2) : i = SemiAt(j)
  <2>1. CASE i \in 1..4
    <3>1. i = 2 \/ i = 4
        BY <1>1, <1>3, <1>5, <2>1
    <3>2. 1 \in 1..(2 * n + 2) /\ 2 \in 1..(2 * n + 2)
        OBVIOUS
    <3>3. QED
        BY <3>1, <3>2, SemiAtFacts
  <2>2. CASE i > 4
    <3>1. PICK k \in 1..n : i - 5 * k \in 0..4
      <4>1. i \div 5 \in 1..n /\ i - 5 * (i \div 5) \in 0..4
          BY <2>2
      <4>2. QED
          BY <4>1
    <3>2. i = 5 * k \/ i = 5 * k + 1 \/ i = 5 * k + 2 \/ i = 5 * k + 3 \/ i = 5 * k + 4
        BY <3>1
    <3>3. i = 5 * k + 1 \/ i = 5 * k + 4
        BY <1>1, <1>2, <1>3, <1>5, <3>2, Zenon
    <3>4. /\ 2 * k + 1 \in 1..(2 * n + 2) /\ SemiAt(2 * k + 1) = 5 * k + 1
          /\ 2 * k + 2 \in 1..(2 * n + 2) /\ SemiAt(2 * k + 2) = 5 * k + 4
        BY SemiAtFacts
    <3>5. QED
        BY <3>3, <3>4
  <2>3. QED
      BY <2>1, <2>2
<1>6. QED
    BY <1>4, <1>5

\* A body and what follows it, byte by byte.
LEMMA Followed ==
  ASSUME NEW b \in Broadcasts, NEW n \in Nat, n = Len(b.readings), NEW t \in Seq(Int)
  PROVE  /\ Body(b) \o t \in Seq(Int) /\ Len(Body(b) \o t) = 5 * n + 4 + Len(t)
         /\ \A i \in 1..(5 * n + 4) : (Body(b) \o t)[i] = Body(b)[i]
         /\ \A i \in 1..Len(t) : (Body(b) \o t)[5 * n + 4 + i] = t[i]
<1>1. Body(b) \in Seq(Int) /\ Len(Body(b)) = 5 * n + 4
    BY BodyAt, Zenon
<1>2. /\ Body(b) \o t \in Seq(Int) /\ Len(Body(b) \o t) = Len(Body(b)) + Len(t)
      /\ \A i \in 1..Len(Body(b)) : (Body(b) \o t)[i] = Body(b)[i]
      /\ \A i \in 1..Len(t) : (Body(b) \o t)[Len(Body(b)) + i] = t[i]
    BY <1>1, ConcatAt, Zenon
<1>3. QED
    BY <1>1, <1>2, Zenon

\* The fields of a body with an end of its own behind it, and nothing closed.
LEMMA OpenEnds ==
  ASSUME NEW b \in Broadcasts, NEW n \in Nat, n = Len(b.readings), NEW t \in Seq(Int),
         \A i \in 1..Len(t) : t[i] # Semi
  PROVE  EndsAre(Body(b) \o t, 2 * n + 3,
                 [j \in 1..(2 * n + 3) |->
                   IF j <= 2 * n + 2 THEN SemiAt(j) ELSE 5 * n + 4 + Len(t) + 1])
<1>0. PICK x \in Seq(Int), l \in Nat :
        /\ x = Body(b) \o t /\ Len(x) = 5 * n + 4 + l /\ l = Len(t)
        /\ \A i \in 1..(5 * n + 4) : x[i] = Body(b)[i]
        /\ \A i \in 1..l : x[5 * n + 4 + i] = t[i]
    BY Followed, Len(t) \in Nat, ZenonT(60)
<1>1. /\ Len(x) = 5 * n + 4 + l
      /\ \A i \in 1..(5 * n + 4) : x[i] = Body(b)[i]
      /\ \A i \in 1..l : x[5 * n + 4 + i] = t[i] /\ t[i] # Semi
    BY <1>0, Zenon
<1>2. /\ \A j \in 1..(2 * n + 2) : x[SemiAt(j)] = Semi
      /\ \A i \in 1..(5 * n + 4) :
           x[i] = Semi => \E j \in 1..(2 * n + 2) : i = SemiAt(j)
      /\ \A j \in 1..(2 * n + 2) : SemiAt(j) \in 1..(5 * n + 4)
      /\ \A i, j \in 1..(2 * n + 2) : i < j => SemiAt(i) < SemiAt(j)
  <2>1. \A j \in 1..(2 * n + 2) : SemiAt(j) \in 1..(5 * n + 4)
      BY SemiAtFacts, Zenon
  <2>2. \A i, j \in 1..(2 * n + 2) : i < j => SemiAt(i) < SemiAt(j)
      BY SemiAtFacts, Zenon
  <2>3. QED
      BY <1>1, <2>1, <2>2, BodySemis, ZenonT(60)
<1>3. \A i \in (5 * n + 5)..Len(x) : x[i] # Semi
  <2> SUFFICES ASSUME NEW i \in (5 * n + 5)..Len(x) PROVE x[i] # Semi
      OBVIOUS
  <2>1. PICK k \in 1..l : i = 5 * n + 4 + k
    <3>1. PICK z \in Nat : z = 5 * n + 4
        OBVIOUS
    <3>2. Len(x) = z + l /\ i \in (z + 1)..(z + l)
        BY <1>1, <3>1
    <3>3. i - z \in 1..l /\ i = z + (i - z)
        BY <3>2
    <3>4. QED
        BY <3>1, <3>3
  <2>2. x[i] = t[k] /\ t[k] # Semi
      BY <1>1, <2>1
  <2>3. QED
      BY <2>2
<1> DEFINE p == [j \in 1..(2 * n + 3) |->
                  IF j <= 2 * n + 2 THEN SemiAt(j) ELSE 5 * n + 4 + l + 1]
<1>4. /\ p[2 * n + 3] = 5 * n + 5 + l
      /\ \A j \in 1..(2 * n + 2) : p[j] = SemiAt(j)
      /\ DOMAIN p = 1..(2 * n + 3)
  <2>1. 2 * n + 3 \in 1..(2 * n + 3) /\ ~(2 * n + 3 <= 2 * n + 2)
      OBVIOUS
  <2>2. \A j \in 1..(2 * n + 2) : j \in 1..(2 * n + 3) /\ j <= 2 * n + 2
      OBVIOUS
  <2>3. 5 * n + 4 + l + 1 = 5 * n + 5 + l
      OBVIOUS
  <2>4. QED
      BY <2>1, <2>2, <2>3
<1>5. p = [j \in 1..(2 * n + 3) |-> p[j]]
    OBVIOUS
<1> HIDE DEF p
<1>6. \A j \in 1..(2 * n + 3) : j \in 1..(2 * n + 2) \/ j = 2 * n + 3
  <2>1. \A m \in Nat : \A j \in 1..(m + 1) : j \in 1..m \/ j = m + 1
      OBVIOUS
  <2>2. 2 * n + 2 \in Nat /\ (2 * n + 2) + 1 = 2 * n + 3
      OBVIOUS
  <2>3. QED
      BY <2>1, <2>2
<1>7. /\ \A j \in 1..(2 * n + 3) : p[j] \in 1..(Len(x) + 1)
      /\ \A i, j \in 1..(2 * n + 3) : i < j => p[i] < p[j]
  <2>1. ASSUME NEW j \in 1..(2 * n + 3) PROVE p[j] \in 1..(Len(x) + 1)
    <3>1. CASE j \in 1..(2 * n + 2)
      <4>1. p[j] \in 1..(5 * n + 4)
          BY <1>2, <1>4, <3>1
      <4>2. QED
          BY <1>1, <4>1, SMTT(30)
    <3>2. CASE j = 2 * n + 3
      <4>1. p[j] = 5 * n + 5 + l
          BY <1>4, <3>2
      <4>2. QED
          BY <1>1, <4>1
    <3>3. QED
        BY <1>6, <3>1, <3>2
  <2>2. ASSUME NEW i \in 1..(2 * n + 3), NEW j \in 1..(2 * n + 3), i < j
        PROVE  p[i] < p[j]
    <3>1. i \in 1..(2 * n + 2) /\ p[i] = SemiAt(i) /\ SemiAt(i) \in 1..(5 * n + 4)
      <4>1. i \in 1..(2 * n + 2)
          BY <2>2
      <4>2. QED
          BY <1>2, <1>4, <4>1
    <3>2. CASE j \in 1..(2 * n + 2)
      <4>1. p[j] = SemiAt(j)
          BY <1>4, <3>2
      <4>2. SemiAt(i) < SemiAt(j)
          BY <1>2, <2>2, <3>1, <3>2
      <4>3. QED
          BY <3>1, <4>1, <4>2
    <3>3. CASE j = 2 * n + 3
      <4>1. p[j] = 5 * n + 5 + l
          BY <1>4, <3>3
      <4>2. QED
          BY <3>1, <4>1
    <3>4. QED
        BY <1>6, <3>2, <3>3
  <2>3. QED
      BY <2>1, <2>2
<1>8. Ends(x) = {i \in 1..Len(x) : x[i] = Semi} \cup {Len(x) + 1}
    BY <1>1, SMTT(30) DEF Ends
<1>9. ASSUME NEW e \in Ends(x) PROVE \E j \in 1..(2 * n + 3) : e = p[j]
  <2>1. CASE e = Len(x) + 1
    <3>1. e = p[2 * n + 3] /\ 2 * n + 3 \in 1..(2 * n + 3)
        BY <1>1, <1>4, <2>1
    <3>2. QED
        BY <3>1
  <2>2. CASE e \in 1..Len(x) /\ x[e] = Semi
    <3>1. e \in 1..(5 * n + 4)
        BY <1>1, <1>3, <2>2
    <3>2. PICK j \in 1..(2 * n + 2) : e = SemiAt(j)
        BY <1>2, <2>2, <3>1
    <3>3. j \in 1..(2 * n + 3) /\ p[j] = SemiAt(j)
        BY <1>4
    <3>4. QED
        BY <3>2, <3>3
  <2>3. QED
      BY <1>8, <2>1, <2>2
<1>10. ASSUME NEW j \in 1..(2 * n + 3) PROVE p[j] \in Ends(x)
  <2>1. CASE j = 2 * n + 3
    <3>1. p[j] = Len(x) + 1
        BY <1>1, <1>4, <2>1
    <3>2. QED
        BY <1>8, <3>1
  <2>2. CASE j \in 1..(2 * n + 2)
    <3>1. p[j] = SemiAt(j) /\ SemiAt(j) \in 1..(5 * n + 4) /\ x[SemiAt(j)] = Semi
        BY <1>2, <1>4, <2>2
    <3>2. p[j] \in 1..Len(x) /\ x[p[j]] = Semi
        BY <1>1, <3>1
    <3>3. QED
        BY <1>8, <3>2
  <2>3. QED
      BY <1>6, <2>1, <2>2
<1>11. p \in [1..(2 * n + 3) -> 1..(Len(x) + 1)]
    BY <1>5, <1>7, Zenon
<1>12. EndsAre(x, 2 * n + 3, p)
    BY <1>7, <1>9, <1>10, <1>11, Zenon DEF EndsAre
<1>13. QED
    BY <1>0, <1>12, Zenon DEF p

\* A semicolon more ends one field and begins another, empty one.
LEMMA CloseEnds ==
  ASSUME NEW x \in Seq(Int), NEW m \in Nat, NEW p, EndsAre(x, m, p)
  PROVE  EndsAre(x \o <<Semi>>, m + 1,
                 [j \in 1..(m + 1) |-> IF j <= m THEN p[j] ELSE Len(x) + 2])
<1>0. PICK y \in Seq(Int), l \in Nat :
        /\ y = x \o <<Semi>> /\ l = Len(x) /\ Len(y) = l + 1
        /\ \A i \in 1..l : y[i] = x[i]
        /\ y[l + 1] = Semi
  <2>1. <<Semi>> \in Seq(Int) /\ Len(<<Semi>>) = 1 /\ <<Semi>>[1] = Semi
      BY ByteFacts
  <2>2. /\ x \o <<Semi>> \in Seq(Int) /\ Len(x \o <<Semi>>) = Len(x) + Len(<<Semi>>)
        /\ \A i \in 1..Len(x) : (x \o <<Semi>>)[i] = x[i]
        /\ \A i \in 1..Len(<<Semi>>) : (x \o <<Semi>>)[Len(x) + i] = <<Semi>>[i]
      BY <2>1, ConcatAt, Zenon
  <2>3. 1 \in 1..Len(<<Semi>>)
      BY <2>1
  <2>4. /\ Len(x \o <<Semi>>) = Len(x) + 1
        /\ (x \o <<Semi>>)[Len(x) + 1] = Semi
      BY <2>1, <2>2, <2>3, Zenon
  <2>5. Len(x) \in Nat
      OBVIOUS
  <2>6. QED
      BY <2>2, <2>4, <2>5, Zenon
<1>1. Len(y) = l + 1 /\ (\A i \in 1..l : y[i] = x[i]) /\ y[l + 1] = Semi
    BY <1>0, Zenon
<1>2. /\ Ends(x) = {i \in 1..l : x[i] = Semi} \cup {l + 1}
      /\ Ends(y) = {i \in 1..(l + 1) : y[i] = Semi} \cup {l + 2}
  <2>1. DOMAIN x = 1..l /\ DOMAIN y = 1..(l + 1) /\ Len(x) = l /\ Len(y) + 1 = l + 2
      BY <1>0
  <2>2. QED
      BY <2>1 DEF Ends
<1>3. ASSUME NEW e PROVE e \in Ends(y) <=> e \in Ends(x) \/ e = l + 2
  <2>1. \A i : i \in 1..(l + 1) <=> i \in 1..l \/ i = l + 1
      OBVIOUS
  <2>2. QED
      BY <1>1, <1>2, <2>1
<1>4. /\ p \in [1..m -> 1..(l + 1)]
      /\ \A i, j \in 1..m : i < j => p[i] < p[j]
      /\ \A e \in Ends(x) : \E i \in 1..m : e = p[i]
      /\ \A i \in 1..m : p[i] \in Ends(x)
    BY <1>0, Zenon DEF EndsAre
<1> DEFINE q == [j \in 1..(m + 1) |-> IF j <= m THEN p[j] ELSE l + 2]
<1>5. /\ q = [j \in 1..(m + 1) |-> q[j]]
      /\ q[m + 1] = l + 2
      /\ \A j \in 1..m : q[j] = p[j]
    OBVIOUS
<1> HIDE DEF q
<1>6. /\ \A j \in 1..(m + 1) : j \in 1..m \/ j = m + 1
      /\ m + 1 \in 1..(m + 1) /\ 1..m \subseteq 1..(m + 1)
    OBVIOUS
<1>7. \A j \in 1..m : p[j] \in 1..(l + 1)
    BY <1>4
<1>8. ASSUME NEW j \in 1..(m + 1) PROVE q[j] \in 1..(Len(y) + 1)
  <2>1. CASE j \in 1..m
    <3>1. q[j] \in 1..(l + 1)
        BY <1>5, <1>7, <2>1, Zenon
    <3>2. QED
        BY <1>1, <3>1
  <2>2. CASE j = m + 1
    <3>1. q[j] = l + 2
        BY <1>5, <2>2, Zenon
    <3>2. QED
        BY <1>1, <3>1
  <2>3. QED
      BY <1>6, <2>1, <2>2
<1>9. ASSUME NEW i \in 1..(m + 1), NEW j \in 1..(m + 1), i < j PROVE q[i] < q[j]
  <2>1. i \in 1..m /\ q[i] = p[i] /\ p[i] \in 1..(l + 1)
    <3>1. i \in 1..m
        BY <1>9
    <3>2. QED
        BY <1>5, <1>7, <3>1
  <2>2. CASE j \in 1..m
      BY <1>4, <1>5, <1>9, <2>1, <2>2
  <2>3. CASE j = m + 1
    <3>1. q[j] = l + 2
        BY <1>5, <2>3
    <3>2. QED
        BY <2>1, <3>1
  <2>4. QED
      BY <1>6, <2>2, <2>3
<1>10. \A e \in Ends(y) : \E i \in 1..(m + 1) : e = q[i]
    BY <1>3, <1>4, <1>5, <1>6, ZenonT(60)
<1>11. \A i \in 1..(m + 1) : q[i] \in Ends(y)
    BY <1>3, <1>4, <1>5, <1>6, Zenon
<1>12. q \in [1..(m + 1) -> 1..(Len(y) + 1)]
    BY <1>5, <1>8, Zenon
<1>13. EndsAre(y, m + 1, q)
    BY <1>9, <1>10, <1>11, <1>12, Zenon DEF EndsAre
<1>14. QED
    BY <1>0, <1>13, Zenon DEF q

\* The fields of what is left of a line behind its byte a.
LEMMA CutEnds ==
  ASSUME NEW x \in Seq(Int), NEW m \in Nat, NEW p, EndsAre(x, m, p),
         NEW a \in 0..Len(x), NEW c \in 0..m,
         \A i \in 1..m : a < p[i] <=> c < i
  PROVE  \E q : EndsAre(SubSeq(x, a + 1, Len(x)), m - c, q)
<1>0. PICK y \in Seq(Int), l \in Nat :
        /\ y = SubSeq(x, a + 1, Len(x)) /\ l = Len(x) /\ Len(y) = l - a
        /\ \A i \in 1..(l - a) : y[i] = x[a + i]
  <2>1. /\ a + 1 \in 1..(Len(x) + 1) /\ Len(x) \in ((a + 1) - 1)..Len(x)
        /\ Len(x) - (a + 1) + 1 = Len(x) - a /\ Len(x) \in Nat
        /\ \A i \in Int : (a + 1) + i - 1 = a + i
      OBVIOUS
  <2>2. /\ SubSeq(x, a + 1, Len(x)) \in Seq(Int)
        /\ Len(SubSeq(x, a + 1, Len(x))) = Len(x) - (a + 1) + 1
        /\ \A i \in 1..(Len(x) - (a + 1) + 1) :
             SubSeq(x, a + 1, Len(x))[i] = x[(a + 1) + i - 1]
      BY <2>1, SubSeqAt, Zenon
  <2>3. PICK y \in Seq(Int) :
          /\ y = SubSeq(x, a + 1, Len(x)) /\ Len(y) = Len(x) - (a + 1) + 1
          /\ \A i \in 1..(Len(x) - (a + 1) + 1) : y[i] = x[(a + 1) + i - 1]
      BY <2>2, Zenon
  <2>4. ASSUME NEW i \in 1..(Len(x) - a) PROVE y[i] = x[a + i]
    <3>1. i \in 1..(Len(x) - (a + 1) + 1) /\ (a + 1) + i - 1 = a + i
        OBVIOUS
    <3>2. QED
        BY <2>3, <3>1, Zenon
  <2>5. Len(y) = Len(x) - a
      BY <2>1, <2>3, ZenonT(60)
  <2>6. QED
      BY <2>1, <2>3, <2>4, <2>5, Zenon
<1>1. Len(y) = l - a /\ (\A i \in 1..(l - a) : y[i] = x[a + i]) /\ a \in 0..l
    BY <1>0, Zenon
<1>2. /\ Ends(x) = {i \in 1..l : x[i] = Semi} \cup {l + 1}
      /\ Ends(y) = {i \in 1..(l - a) : y[i] = Semi} \cup {l - a + 1}
  <2>1. DOMAIN x = 1..l /\ DOMAIN y = 1..(l - a) /\ Len(x) = l /\ Len(y) = l - a
      BY <1>0
  <2>2. QED
      BY <2>1 DEF Ends
<1>3. ASSUME NEW e \in Int PROVE e \in Ends(y) <=> e > 0 /\ a + e \in Ends(x)
  <2>1. e \in 1..(l - a) <=> e > 0 /\ a + e \in 1..l
      BY <1>1
  <2>2. e = l - a + 1 <=> a + e = l + 1
      BY <1>1
  <2>3. e = l - a + 1 => e > 0
      BY <1>1
  <2>4. e \in 1..(l - a) => y[e] = x[a + e]
      BY <1>1
  <2>5. QED
      BY <1>2, <2>1, <2>2, <2>3, <2>4
<1>4. /\ p \in [1..m -> 1..(l + 1)]
      /\ \A i, j \in 1..m : i < j => p[i] < p[j]
      /\ \A e \in Ends(x) : \E i \in 1..m : e = p[i]
      /\ \A i \in 1..m : p[i] \in Ends(x)
    BY <1>0, Zenon DEF EndsAre
<1> DEFINE q == [j \in 1..(m - c) |-> p[j + c] - a]
<1>5. /\ q = [j \in 1..(m - c) |-> q[j]]
      /\ \A j \in 1..(m - c) : q[j] = p[j + c] - a
    OBVIOUS
<1> HIDE DEF q
<1>6. ASSUME NEW j \in 1..(m - c)
      PROVE  /\ j + c \in 1..m /\ p[j + c] \in 1..(l + 1) /\ a < p[j + c]
             /\ q[j] \in 1..(l - a + 1) /\ a + q[j] = p[j + c]
  <2>1. j + c \in 1..m /\ c < j + c
      OBVIOUS
  <2>2. p[j + c] \in 1..(l + 1) /\ a < p[j + c]
      BY <1>4, <2>1
  <2>3. QED
      BY <1>1, <1>5, <2>1, <2>2, SMTT(30)
<1>7. ASSUME NEW i \in 1..(m - c), NEW j \in 1..(m - c), i < j PROVE q[i] < q[j]
  <2>1. i + c < j + c /\ i + c \in 1..m /\ j + c \in 1..m
      BY <1>7
  <2>2. p[i + c] < p[j + c]
      BY <1>4, <2>1
  <2>3. q[i] = p[i + c] - a /\ q[j] = p[j + c] - a
      BY <1>5
  <2>4. p[i + c] \in Int /\ p[j + c] \in Int
    <3>1. p[i + c] \in 1..(l + 1) /\ p[j + c] \in 1..(l + 1)
        BY <1>6
    <3>2. QED
        BY <3>1
  <2>5. QED
      BY <2>2, <2>3, <2>4
<1>8. ASSUME NEW e \in Ends(y) PROVE \E j \in 1..(m - c) : e = q[j]
  <2>1. e \in Int /\ e > 0 /\ a + e \in Ends(x)
    <3>1. e \in Int
        BY <1>1, <1>2
    <3>2. QED
        BY <1>3, <3>1
  <2>2. PICK i \in 1..m : a + e = p[i]
      BY <1>4, <2>1
  <2>3. c < i
    <3>1. a < p[i]
        BY <2>1, <2>2
    <3>2. QED
        BY <3>1
  <2>4. i - c \in 1..(m - c) /\ (i - c) + c = i
      BY <2>3
  <2>5. q[i - c] = p[i] - a
      BY <1>5, <2>4
  <2>6. e = q[i - c]
      BY <2>1, <2>2, <2>5
  <2>7. QED
      BY <2>4, <2>6
<1>9. ASSUME NEW j \in 1..(m - c) PROVE q[j] \in Ends(y)
  <2>1. q[j] \in Int /\ q[j] > 0 /\ a + q[j] = p[j + c] /\ j + c \in 1..m
      BY <1>6
  <2>2. a + q[j] \in Ends(x)
      BY <1>4, <2>1
  <2>3. QED
      BY <1>3, <2>1, <2>2
<1>10. q \in [1..(m - c) -> 1..(Len(y) + 1)]
  <2>1. \A j \in 1..(m - c) : q[j] \in 1..(Len(y) + 1)
      BY <1>1, <1>6
  <2>2. QED
      BY <1>5, <2>1, Zenon
<1>11. EndsAre(y, m - c, q)
    BY <1>7, <1>8, <1>9, <1>10, Zenon DEF EndsAre
<1>12. QED
    BY <1>0, <1>11, Zenon

\* Where the fields end in a line that is closed.
LEMMA LineEnds ==
  ASSUME NEW b \in Broadcasts, NEW n \in Nat, n = Len(b.readings), NEW f \in Seq(Int),
         NEW l \in Nat, l = Len(f), \A i \in 1..Len(f) : f[i] # Semi
  PROVE  \E q : /\ EndsAre((Body(b) \o f) \o <<Semi>>, 2 * n + 4, q)
                /\ \A j \in 1..(2 * n + 2) : q[j] = SemiAt(j)
                /\ q[2 * n + 3] = 5 * n + 5 + l
                /\ q[2 * n + 4] = 5 * n + 6 + l
<1>1. PICK w \in Seq(Int) :
        /\ w = Body(b) \o f /\ Len(w) = 5 * n + 4 + l
        /\ \A i \in 1..(5 * n + 4) : w[i] = Body(b)[i]
  <2>1. /\ Body(b) \o f \in Seq(Int) /\ Len(Body(b) \o f) = 5 * n + 4 + Len(f)
        /\ \A i \in 1..(5 * n + 4) : (Body(b) \o f)[i] = Body(b)[i]
      BY Followed, Zenon
  <2>2. Len(f) \in Nat
      OBVIOUS
  <2>3. QED
      BY <2>1, <2>2, Zenon
<1>2. PICK p : /\ EndsAre(w, 2 * n + 3, p)
               /\ \A j \in 1..(2 * n + 2) : p[j] = SemiAt(j)
               /\ p[2 * n + 3] = 5 * n + 5 + l
  <2> DEFINE p == [j \in 1..(2 * n + 3) |->
                    IF j <= 2 * n + 2 THEN SemiAt(j) ELSE 5 * n + 4 + l + 1]
  <2>1. EndsAre(w, 2 * n + 3, p)
      BY <1>1, OpenEnds, Zenon
  <2>2. 2 * n + 3 \in 1..(2 * n + 3) /\ ~(2 * n + 3 <= 2 * n + 2)
      OBVIOUS
  <2>3. \A j \in 1..(2 * n + 2) : j \in 1..(2 * n + 3) /\ j <= 2 * n + 2
      OBVIOUS
  <2>4. 5 * n + 4 + l + 1 = 5 * n + 5 + l
      OBVIOUS
  <2>5. p[2 * n + 3] = 5 * n + 5 + l
      BY <2>2, <2>4
  <2>6. \A j \in 1..(2 * n + 2) : p[j] = SemiAt(j)
      BY <2>3
  <2> HIDE DEF p
  <2>7. QED
      BY <2>1, <2>5, <2>6
<1>3. PICK q : /\ EndsAre(w \o <<Semi>>, 2 * n + 4, q)
               /\ \A j \in 1..(2 * n + 2) : q[j] = SemiAt(j)
               /\ q[2 * n + 3] = 5 * n + 5 + l
               /\ q[2 * n + 4] = 5 * n + 6 + l
  <2> DEFINE q == [j \in 1..(2 * n + 4) |-> IF j <= 2 * n + 3 THEN p[j] ELSE Len(w) + 2]
  <2>1. (2 * n + 3) + 1 = 2 * n + 4 /\ 2 * n + 3 \in Nat
      OBVIOUS
  <2>2. EndsAre(w \o <<Semi>>, (2 * n + 3) + 1,
                [j \in 1..((2 * n + 3) + 1) |-> IF j <= 2 * n + 3 THEN p[j] ELSE Len(w) + 2])
      BY <1>2, <2>1, CloseEnds, Zenon
  <2>3. EndsAre(w \o <<Semi>>, 2 * n + 4, q)
      BY <2>1, <2>2, Zenon
  <2>4. 2 * n + 4 \in 1..(2 * n + 4) /\ ~(2 * n + 4 <= 2 * n + 3)
      OBVIOUS
  <2>5. \A j \in 1..(2 * n + 3) : j \in 1..(2 * n + 4) /\ j <= 2 * n + 3
      OBVIOUS
  <2>6. q[2 * n + 4] = Len(w) + 2
      BY <2>4
  <2>7. \A j \in 1..(2 * n + 3) : q[j] = p[j]
      BY <2>5
  <2> HIDE DEF q
  <2>8. Len(w) + 2 = 5 * n + 6 + l
    <3>1. Len(w) = 5 * n + 4 + l
        BY <1>1, Zenon
    <3>2. QED
        BY <3>1
  <2>9. \A j \in 1..(2 * n + 2) : j \in 1..(2 * n + 3)
      OBVIOUS
  <2>10. 2 * n + 3 \in 1..(2 * n + 3)
      OBVIOUS
  <2>11. q[2 * n + 3] = 5 * n + 5 + l
      BY <1>2, <2>7, <2>10, Zenon
  <2>12. \A j \in 1..(2 * n + 2) : q[j] = SemiAt(j)
      BY <1>2, <2>7, <2>9, Zenon
  <2>13. q[2 * n + 4] = 5 * n + 6 + l
      BY <2>6, <2>8, Zenon
  <2>14. QED
      BY <2>3, <2>11, <2>12, <2>13, Zenon
<1>4. QED
    BY <1>1, <1>3, Zenon

\* The fields of a line that goes on with anything but a semicolon where the
\* checksum was, and is closed.
FieldsAre(b, n, fields) ==
  /\ fields \in Seq(Seq(Int)) /\ Len(fields) = 2 * n + 4
  /\ fields[1] = <<Digit(b.date)>> /\ fields[2] = <<Digit(n)>>
  /\ \A k \in 1..n :
       /\ fields[2 * k + 1] = <<Digit(b.readings[k].channel)>>
       /\ fields[2 * k + 2] = <<Space, Digit(b.readings[k].value)>>
  /\ fields[2 * n + 4] = <<>>

\* A closed line whose checksum has no semicolon has these fields.
LEMMA FieldsOfLine ==
  ASSUME NEW b \in Broadcasts, NEW n \in Nat, n = Len(b.readings), NEW f \in Seq(Int),
         \A i \in 1..Len(f) : f[i] # Semi
  PROVE  FieldsAre(b, n, Split((Body(b) \o f) \o <<Semi>>))
<1>1. PICK w \in Seq(Int), l \in Nat :
        /\ w = Body(b) \o f /\ l = Len(f) /\ Len(w) = 5 * n + 4 + l
        /\ \A i \in 1..(5 * n + 4) : w[i] = Body(b)[i]
  <2>1. /\ Body(b) \o f \in Seq(Int) /\ Len(Body(b) \o f) = 5 * n + 4 + Len(f)
        /\ \A i \in 1..(5 * n + 4) : (Body(b) \o f)[i] = Body(b)[i]
      BY Followed, Zenon
  <2>2. Len(f) \in Nat
      OBVIOUS
  <2>3. QED
      BY <2>1, <2>2, Zenon
<1>3. PICK q : /\ EndsAre(w \o <<Semi>>, 2 * n + 4, q)
               /\ \A j \in 1..(2 * n + 2) : q[j] = SemiAt(j)
               /\ q[2 * n + 3] = 5 * n + 5 + l
               /\ q[2 * n + 4] = 5 * n + 6 + l
  <2>1. \E q : /\ EndsAre((Body(b) \o f) \o <<Semi>>, 2 * n + 4, q)
               /\ \A j \in 1..(2 * n + 2) : q[j] = SemiAt(j)
               /\ q[2 * n + 3] = 5 * n + 5 + l
               /\ q[2 * n + 4] = 5 * n + 6 + l
    <3>1. l = Len(f)
        BY <1>1, Zenon
    <3>2. QED
        BY <3>1, LineEnds, ZenonT(60)
  <2>2. w = Body(b) \o f
      BY <1>1, Zenon
  <2>3. QED
      BY <2>1, <2>2, Zenon
<1>4. PICK x \in Seq(Int) :
        /\ x = w \o <<Semi>> /\ Len(x) = 5 * n + 5 + l
        /\ \A i \in 1..(5 * n + 4) : x[i] = Body(b)[i]
  <2>1. <<Semi>> \in Seq(Int) /\ Len(<<Semi>>) = 1
      BY ByteFacts
  <2>2. /\ w \o <<Semi>> \in Seq(Int) /\ Len(w \o <<Semi>>) = Len(w) + Len(<<Semi>>)
        /\ \A i \in 1..Len(w) : (w \o <<Semi>>)[i] = w[i]
      BY <2>1, ConcatAt, Zenon
  <2>3. Len(w) = 5 * n + 4 + l /\ \A i \in 1..(5 * n + 4) : w[i] = Body(b)[i]
      BY <1>1, Zenon
  <2>4. PICK x \in Seq(Int) :
          /\ x = w \o <<Semi>> /\ Len(x) = Len(w) + 1
          /\ \A i \in 1..Len(w) : x[i] = w[i]
      BY <2>1, <2>2, Zenon
  <2>5. Len(x) = Len(w) + 1 /\ \A i \in 1..Len(w) : x[i] = w[i]
      BY <2>4, Zenon
  <2>6. Len(x) = 5 * n + 5 + l
      BY <2>3, <2>5
  <2>7. \A i \in 1..(5 * n + 4) : x[i] = Body(b)[i]
      BY <2>3, <2>5
  <2>8. QED
      BY <2>4, <2>6, <2>7, Zenon
<1>5. /\ Split(x) \in Seq(Seq(Int)) /\ Len(Split(x)) = 2 * n + 4
      /\ Split(x)[1] = SubSeq(x, 1, q[1] - 1)
      /\ \A k \in 2..(2 * n + 4) : Split(x)[k] = SubSeq(x, q[k - 1] + 1, q[k] - 1)
  <2>1. EndsAre(x, 2 * n + 4, q)
      BY <1>3, <1>4, Zenon
  <2>2. 2 * n + 4 \in Nat /\ 2 * n + 4 > 0
      OBVIOUS
  <2>3. /\ Split(x) \in Seq(Seq(Int)) /\ Len(Split(x)) = 2 * n + 4
        /\ 2 * n + 4 > 0 => Split(x)[1] = SubSeq(x, 1, q[1] - 1)
        /\ \A k \in 2..(2 * n + 4) : Split(x)[k] = SubSeq(x, q[k - 1] + 1, q[k] - 1)
    <3>1. PICK m \in Nat : m = 2 * n + 4
        BY <2>2
    <3>2. EndsAre(x, m, q)
        BY <2>1, <3>1, Zenon
    <3>3. /\ Split(x) \in Seq(Seq(Int)) /\ Len(Split(x)) = m
          /\ m > 0 => Split(x)[1] = SubSeq(x, 1, q[1] - 1)
          /\ \A k \in 2..m : Split(x)[k] = SubSeq(x, q[k - 1] + 1, q[k] - 1)
        BY <3>2, SplitAt, SMTT(30)
    <3>4. QED
        BY <3>1, <3>3, Zenon
  <2>4. QED
      BY <2>2, <2>3, Zenon
<1>6. Len(x) = 5 * n + 5 + l /\ \A i \in 1..(5 * n + 4) : x[i] = Body(b)[i]
    BY <1>4, Zenon
<1>7. /\ q[1] = 2 /\ q[2] = 4
      /\ \A k \in 1..n : q[2 * k] = 5 * k - 1 /\ q[2 * k + 1] = 5 * k + 1
                         /\ q[2 * k + 2] = 5 * k + 4
  <2>1. /\ 1 \in 1..(2 * n + 2) /\ 2 \in 1..(2 * n + 2)
        /\ \A k \in 1..n : /\ 2 * k \in 1..(2 * n + 2) /\ 2 * k + 1 \in 1..(2 * n + 2)
                           /\ 2 * k + 2 \in 1..(2 * n + 2)
      OBVIOUS
  <2>2. \A j \in 1..(2 * n + 2) : q[j] = SemiAt(j)
      BY <1>3, Zenon
  <2>3. /\ SemiAt(1) = 2 /\ SemiAt(2) = 4
        /\ \A k \in 1..n : SemiAt(2 * k + 1) = 5 * k + 1 /\ SemiAt(2 * k + 2) = 5 * k + 4
        /\ \A k \in 1..n : SemiAt(2 * k) = 5 * k - 1
      BY SemiAtFacts, Zenon
  <2>4. QED
      BY <2>1, <2>2, <2>3, Zenon
<1>8. Split(x)[1] = <<Digit(b.date)>>
  <2>1. 1 \in 1..Len(x) /\ x[1] = Body(b)[1]
      BY <1>6
  <2>2. SubSeq(x, 1, 1) = <<x[1]>>
      BY <2>1, SubSeqOne, Zenon
  <2>3. q[1] - 1 = 1
      BY <1>7
  <2>4. Body(b)[1] = Digit(b.date)
      BY BodyAt, Zenon
  <2>5. QED
      BY <1>5, <2>1, <2>2, <2>3, <2>4, Zenon
<1>9. Split(x)[2] = <<Digit(n)>>
  <2>1. 3 \in 1..Len(x) /\ x[3] = Body(b)[3]
      BY <1>6
  <2>2. SubSeq(x, 3, 3) = <<x[3]>>
      BY <2>1, SubSeqOne, Zenon
  <2>3. q[2 - 1] + 1 = 3 /\ q[2] - 1 = 3 /\ 2 \in 2..(2 * n + 4)
      BY <1>7
  <2>4. Body(b)[3] = Digit(n)
      BY BodyAt, Zenon
  <2>5. QED
      BY <1>5, <2>1, <2>2, <2>3, <2>4, Zenon
<1>10. ASSUME NEW k \in 1..n
       PROVE  /\ Split(x)[2 * k + 1] = <<Digit(b.readings[k].channel)>>
              /\ Split(x)[2 * k + 2] = <<Space, Digit(b.readings[k].value)>>
  <2>1. /\ 5 * k \in 1..(5 * n + 4) /\ 5 * k + 2 \in 1..(5 * n + 4)
        /\ 5 * k + 3 \in 1..(5 * n + 4) /\ 5 * k + 3 = (5 * k + 2) + 1
      OBVIOUS
  <2>2. 1..(5 * n + 4) \subseteq 1..Len(x)
      BY <1>6
  <2>3. /\ x[5 * k] = Digit(b.readings[k].channel)
        /\ x[5 * k + 2] = Space
        /\ x[5 * k + 3] = Digit(b.readings[k].value)
      BY <1>6, <2>1, BodyAt, ZenonT(60)
  <2>4. SubSeq(x, 5 * k, 5 * k) = <<x[5 * k]>>
      BY <2>1, <2>2, SubSeqOne
  <2>5. SubSeq(x, 5 * k + 2, 5 * k + 3) = <<x[5 * k + 2], x[5 * k + 3]>>
    <3>1. 5 * k + 2 \in 1..Len(x) /\ 5 * k + 3 \in 1..Len(x)
        BY <2>1, <2>2, Zenon
    <3>2. QED
        BY <2>1, <3>1, SubSeqTwo, Zenon
  <2>6. /\ 2 * k + 1 \in 2..(2 * n + 4) /\ 2 * k + 2 \in 2..(2 * n + 4)
        /\ (2 * k + 1) - 1 = 2 * k /\ (2 * k + 2) - 1 = 2 * k + 1
      OBVIOUS
  <2>7. /\ q[(2 * k + 1) - 1] + 1 = 5 * k /\ q[2 * k + 1] - 1 = 5 * k
        /\ q[(2 * k + 2) - 1] + 1 = 5 * k + 2 /\ q[2 * k + 2] - 1 = 5 * k + 3
    <3>1. q[2 * k] = 5 * k - 1 /\ q[2 * k + 1] = 5 * k + 1 /\ q[2 * k + 2] = 5 * k + 4
        BY <1>7, Zenon
    <3>2. QED
        BY <2>6, <3>1
  <2>8. /\ Split(x)[2 * k + 1] = SubSeq(x, q[(2 * k + 1) - 1] + 1, q[2 * k + 1] - 1)
        /\ Split(x)[2 * k + 2] = SubSeq(x, q[(2 * k + 2) - 1] + 1, q[2 * k + 2] - 1)
      BY <1>5, <2>6, Zenon
  <2>9. QED
      BY <2>3, <2>4, <2>5, <2>7, <2>8, Zenon
<1>11. Split(x)[2 * n + 4] = <<>>
  <2>1. 2 * n + 4 \in 2..(2 * n + 4) /\ (2 * n + 4) - 1 = 2 * n + 3
      OBVIOUS
  <2>2. q[2 * n + 3] = 5 * n + 5 + l /\ q[2 * n + 4] = 5 * n + 6 + l
      BY <1>3, Zenon
  <2>3. q[(2 * n + 4) - 1] + 1 = 5 * n + 6 + l /\ q[2 * n + 4] - 1 = 5 * n + 5 + l
      BY <2>1, <2>2
  <2>4. Split(x)[2 * n + 4] = SubSeq(x, 5 * n + 6 + l, 5 * n + 5 + l)
      BY <1>5, <2>1, <2>3, Zenon
  <2>5. /\ 5 * n + 5 + l < 5 * n + 6 + l
        /\ 5 * n + 5 + l \in Int /\ 5 * n + 6 + l \in Int
      OBVIOUS
  <2>6. \A i, j \in Int : j < i => SubSeq(x, i, j) = <<>>
      BY SubSeqEmpty
  <2>7. QED
      BY <2>4, <2>5, <2>6, Zenon
<1>12. FieldsAre(b, n, Split(x))
    BY <1>5, <1>8, <1>9, <1>10, <1>11, Zenon DEF FieldsAre
<1>13. QED
    BY <1>1, <1>4, <1>12, Zenon

-----------------------------------------------------------------------------
\* Frames: a line that is spliced

\* What is left of a concatenation within its first part, and within its second.
LEMMA ConcatParts ==
  ASSUME NEW u \in Seq(Int), NEW v \in Seq(Int)
  PROVE  /\ \A i \in 0..Len(u) : SubSeq(u \o v, 1, i) = SubSeq(u, 1, i)
         /\ \A j \in 1..(Len(u) + 1) :
              SubSeq(u \o v, j, Len(u \o v)) = SubSeq(u, j, Len(u)) \o v
         /\ \A i \in 0..Len(v) : SubSeq(u \o v, 1, Len(u) + i) = u \o SubSeq(v, 1, i)
         /\ \A j \in 1..(Len(v) + 1) :
              SubSeq(u \o v, Len(u) + j, Len(u \o v)) = SubSeq(v, j, Len(v))
<1>1. PICK x \in Seq(Int), n \in Nat, m \in Nat :
        /\ x = u \o v /\ n = Len(u) /\ m = Len(v) /\ Len(x) = n + m
        /\ \A k \in 1..n : x[k] = u[k]
        /\ \A k \in 1..m : x[n + k] = v[k]
  <2>1. Len(u) \in Nat /\ Len(v) \in Nat
      OBVIOUS
  <2>2. /\ u \o v \in Seq(Int) /\ Len(u \o v) = Len(u) + Len(v)
        /\ \A k \in 1..Len(u) : (u \o v)[k] = u[k]
        /\ \A k \in 1..Len(v) : (u \o v)[Len(u) + k] = v[k]
      BY ConcatAt, Zenon
  <2>3. QED
      BY <2>1, <2>2, Zenon
<1>2. /\ Len(u) = n /\ Len(v) = m /\ Len(x) = n + m
      /\ \A k \in 1..n : x[k] = u[k]
      /\ \A k \in 1..m : x[n + k] = v[k]
    BY <1>1, Zenon
<1>3. ASSUME NEW i \in 0..n PROVE SubSeq(x, 1, i) = SubSeq(u, 1, i)
  <2>1. /\ 1 \in 1..(Len(u) + 1) /\ i \in (1 - 1)..Len(u)
        /\ 1 \in 1..(Len(x) + 1) /\ i \in (1 - 1)..Len(x)
      BY <1>2
  <2>2. /\ SubSeq(u, 1, i) \in Seq(Int) /\ Len(SubSeq(u, 1, i)) = i - 1 + 1
        /\ \A k \in 1..(i - 1 + 1) : SubSeq(u, 1, i)[k] = u[1 + k - 1]
      BY <2>1, SubSeqAt, Zenon
  <2>3. /\ SubSeq(x, 1, i) \in Seq(Int) /\ Len(SubSeq(x, 1, i)) = i - 1 + 1
        /\ \A k \in 1..(i - 1 + 1) : SubSeq(x, 1, i)[k] = x[1 + k - 1]
      BY <2>1, SubSeqAt, Zenon
  <2>4. PICK a \in Seq(Int), c \in Seq(Int) :
          /\ a = SubSeq(u, 1, i) /\ c = SubSeq(x, 1, i)
          /\ Len(a) = i - 1 + 1 /\ Len(c) = i - 1 + 1
          /\ \A k \in 1..(i - 1 + 1) : a[k] = u[1 + k - 1] /\ c[k] = x[1 + k - 1]
      BY <2>2, <2>3, ZenonT(60)
  <2>5. /\ Len(a) = i - 1 + 1 /\ Len(c) = i - 1 + 1
        /\ \A k \in 1..(i - 1 + 1) : a[k] = u[1 + k - 1] /\ c[k] = x[1 + k - 1]
      BY <2>4, Zenon
  <2>6. Len(c) = Len(a) /\ \A k \in 1..Len(c) : c[k] = a[k]
      BY <1>2, <2>5
  <2>7. c = a
      BY <2>6, SeqEqual, Zenon
  <2>8. QED
      BY <2>4, <2>7, Zenon
<1>4. ASSUME NEW j \in 1..(n + 1) PROVE SubSeq(x, j, n + m) = SubSeq(u, j, n) \o v
  <2>1. PICK a \in Seq(Int) :
          /\ a = SubSeq(u, j, n) /\ Len(a) = n - j + 1
          /\ \A k \in 1..(n - j + 1) : a[k] = u[j + k - 1]
    <3>1. j \in 1..(Len(u) + 1) /\ n \in (j - 1)..Len(u)
        BY <1>2
    <3>2. QED
        BY <3>1, SubSeqAt, Zenon
  <2>2. PICK c \in Seq(Int) :
          /\ c = SubSeq(x, j, n + m) /\ Len(c) = (n + m) - j + 1
          /\ \A k \in 1..((n + m) - j + 1) : c[k] = x[j + k - 1]
    <3>1. j \in 1..(Len(x) + 1) /\ n + m \in (j - 1)..Len(x)
        BY <1>2
    <3>2. QED
        BY <3>1, SubSeqAt, Zenon
  <2>3. PICK d \in Seq(Int) :
          /\ d = a \o v /\ Len(d) = Len(a) + Len(v)
          /\ \A k \in 1..Len(a) : d[k] = a[k]
          /\ \A k \in 1..Len(v) : d[Len(a) + k] = v[k]
    <3>1. /\ a \o v \in Seq(Int) /\ Len(a \o v) = Len(a) + Len(v)
          /\ \A k \in 1..Len(a) : (a \o v)[k] = a[k]
          /\ \A k \in 1..Len(v) : (a \o v)[Len(a) + k] = v[k]
        BY ConcatAt, Zenon
    <3>2. QED
        BY <3>1, Zenon
  <2>4. Len(a) = n - j + 1 /\ \A k \in 1..(n - j + 1) : a[k] = u[j + k - 1]
      BY <2>1, Zenon
  <2>5. Len(c) = (n + m) - j + 1 /\ \A k \in 1..((n + m) - j + 1) : c[k] = x[j + k - 1]
      BY <2>2, Zenon
  <2>6. /\ Len(d) = Len(a) + Len(v)
        /\ \A k \in 1..Len(a) : d[k] = a[k]
        /\ \A k \in 1..Len(v) : d[Len(a) + k] = v[k]
      BY <2>3, Zenon
  <2>7. Len(c) = Len(d)
      BY <1>2, <2>4, <2>5, <2>6
  <2>8. ASSUME NEW k \in 1..Len(c) PROVE c[k] = d[k]
    <3>1. CASE k <= n - j + 1
        BY <1>2, <2>4, <2>5, <2>6, <3>1
    <3>2. CASE k > n - j + 1
      <4>1. PICK h \in 1..m : k = n - j + 1 + h
        <5>1. k - (n - j + 1) \in 1..m
            BY <2>5, <3>2, SMTT(30)
        <5>2. QED
            BY <5>1
      <4>2. d[k] = v[h]
          BY <1>2, <2>4, <2>6, <4>1
      <4>3. c[k] = x[n + h]
        <5>1. j + k - 1 = n + h /\ k \in 1..((n + m) - j + 1)
            BY <2>5, <4>1
        <5>2. QED
            BY <2>5, <5>1
      <4>4. QED
          BY <1>2, <4>2, <4>3
    <3>3. QED
        BY <2>5, <3>1, <3>2, SMTT(30)
  <2>9. c = d
      BY <2>7, <2>8, SeqEqual, Zenon
  <2>10. QED
      BY <2>1, <2>2, <2>3, <2>9, Zenon
<1>5. ASSUME NEW i \in 0..m PROVE SubSeq(x, 1, n + i) = u \o SubSeq(v, 1, i)
  <2>1. PICK a \in Seq(Int) :
          /\ a = SubSeq(v, 1, i) /\ Len(a) = i - 1 + 1
          /\ \A k \in 1..(i - 1 + 1) : a[k] = v[1 + k - 1]
    <3>1. 1 \in 1..(Len(v) + 1) /\ i \in (1 - 1)..Len(v)
        BY <1>2
    <3>2. QED
        BY <3>1, SubSeqAt, Zenon
  <2>2. PICK c \in Seq(Int) :
          /\ c = SubSeq(x, 1, n + i) /\ Len(c) = (n + i) - 1 + 1
          /\ \A k \in 1..((n + i) - 1 + 1) : c[k] = x[1 + k - 1]
    <3>1. 1 \in 1..(Len(x) + 1) /\ n + i \in (1 - 1)..Len(x)
        BY <1>2
    <3>2. QED
        BY <3>1, SubSeqAt, Zenon
  <2>3. PICK d \in Seq(Int) :
          /\ d = u \o a /\ Len(d) = Len(u) + Len(a)
          /\ \A k \in 1..Len(u) : d[k] = u[k]
          /\ \A k \in 1..Len(a) : d[Len(u) + k] = a[k]
    <3>1. /\ u \o a \in Seq(Int) /\ Len(u \o a) = Len(u) + Len(a)
          /\ \A k \in 1..Len(u) : (u \o a)[k] = u[k]
          /\ \A k \in 1..Len(a) : (u \o a)[Len(u) + k] = a[k]
        BY ConcatAt, Zenon
    <3>2. QED
        BY <3>1, Zenon
  <2>4. Len(a) = i /\ \A k \in 1..i : a[k] = v[k]
    <3>1. Len(a) = i - 1 + 1 /\ \A k \in 1..(i - 1 + 1) : a[k] = v[1 + k - 1]
        BY <2>1, Zenon
    <3>2. QED
        BY <3>1
  <2>5. Len(c) = n + i /\ \A k \in 1..(n + i) : c[k] = x[k]
    <3>1. Len(c) = (n + i) - 1 + 1 /\ \A k \in 1..((n + i) - 1 + 1) : c[k] = x[1 + k - 1]
        BY <2>2, Zenon
    <3>2. QED
        BY <3>1
  <2>6. /\ Len(d) = Len(u) + Len(a)
        /\ \A k \in 1..Len(u) : d[k] = u[k]
        /\ \A k \in 1..Len(a) : d[Len(u) + k] = a[k]
      BY <2>3, Zenon
  <2>7. Len(c) = Len(d)
      BY <1>2, <2>4, <2>5, <2>6
  <2>8. ASSUME NEW k \in 1..Len(c) PROVE c[k] = d[k]
    <3>1. CASE k <= n
        BY <1>2, <2>5, <2>6, <3>1
    <3>2. CASE k > n
      <4>1. PICK h \in 1..i : k = n + h
        <5>1. k - n \in 1..i
            BY <2>5, <3>2
        <5>2. QED
            BY <5>1
      <4>2. d[k] = v[h]
          BY <1>2, <2>4, <2>6, <4>1
      <4>3. c[k] = x[n + h]
          BY <2>5, <4>1
      <4>4. QED
          BY <1>2, <4>1, <4>2, <4>3
    <3>3. QED
        BY <2>5, <3>1, <3>2
  <2>9. c = d
      BY <2>7, <2>8, SeqEqual, Zenon
  <2>10. QED
      BY <2>1, <2>2, <2>3, <2>9, Zenon
<1>6. ASSUME NEW j \in 1..(m + 1) PROVE SubSeq(x, n + j, n + m) = SubSeq(v, j, m)
  <2>1. PICK a \in Seq(Int) :
          /\ a = SubSeq(v, j, m) /\ Len(a) = m - j + 1
          /\ \A k \in 1..(m - j + 1) : a[k] = v[j + k - 1]
    <3>1. j \in 1..(Len(v) + 1) /\ m \in (j - 1)..Len(v)
        BY <1>2
    <3>2. QED
        BY <3>1, SubSeqAt, Zenon
  <2>2. PICK c \in Seq(Int) :
          /\ c = SubSeq(x, n + j, n + m) /\ Len(c) = (n + m) - (n + j) + 1
          /\ \A k \in 1..((n + m) - (n + j) + 1) : c[k] = x[(n + j) + k - 1]
    <3>1. n + j \in 1..(Len(x) + 1) /\ n + m \in ((n + j) - 1)..Len(x)
        BY <1>2
    <3>2. QED
        BY <3>1, SubSeqAt, Zenon
  <2>3. Len(a) = m - j + 1 /\ \A k \in 1..(m - j + 1) : a[k] = v[j + k - 1]
      BY <2>1, Zenon
  <2>4. /\ Len(c) = (n + m) - (n + j) + 1
        /\ \A k \in 1..((n + m) - (n + j) + 1) : c[k] = x[(n + j) + k - 1]
      BY <2>2, Zenon
  <2>5. Len(c) = Len(a)
      BY <2>3, <2>4
  <2>6. ASSUME NEW k \in 1..Len(c) PROVE c[k] = a[k]
    <3>1. PICK h \in 1..m : h = j + k - 1
      <4>1. j + k - 1 \in 1..m
          BY <2>3, <2>5
      <4>2. QED
          BY <4>1
    <3>2. a[k] = v[h] /\ c[k] = x[n + h]
      <4>1. k \in 1..(m - j + 1) /\ k \in 1..((n + m) - (n + j) + 1) /\ (n + j) + k - 1 = n + h
          BY <2>3, <2>4, <2>5, <3>1
      <4>2. QED
          BY <2>3, <2>4, <3>1, <4>1
    <3>3. QED
        BY <1>2, <3>1, <3>2
  <2>7. c = a
      BY <2>5, <2>6, SeqEqual, Zenon
  <2>8. QED
      BY <2>1, <2>2, <2>7, Zenon
<1>7. QED
    BY <1>1, <1>3, <1>4, <1>5, <1>6, Zenon

\* Concatenation is associative.
LEMMA Associative ==
  ASSUME NEW s \in Seq(Int), NEW t \in Seq(Int), NEW u \in Seq(Int)
  PROVE  (s \o t) \o u = s \o (t \o u)
BY ConcatAssociative, SMTT(30)

\* A splice within one part of a concatenation leaves the other alone.
LEMMA SpliceLeft ==
  ASSUME NEW u \in Seq(Int), NEW v \in Seq(Int), NEW g \in Seq(Int),
         NEW i \in 0..Len(u), NEW j \in 1..(Len(u) + 1)
  PROVE  Spliced(u \o v, i, g, j) = Spliced(u, i, g, j) \o v
<1>1. SubSeq(u \o v, 1, i) = SubSeq(u, 1, i)
    BY ConcatParts, Zenon
<1>2. SubSeq(u \o v, j, Len(u \o v)) = SubSeq(u, j, Len(u)) \o v
    BY ConcatParts, Zenon
<1>3. SubSeq(u, 1, i) \in Seq(Int) /\ SubSeq(u, j, Len(u)) \in Seq(Int)
  <2>1. /\ 1 \in 1..(Len(u) + 1) /\ i \in (1 - 1)..Len(u)
        /\ Len(u) \in (j - 1)..Len(u)
      OBVIOUS
  <2>2. QED
      BY <2>1, SubSeqAt, Zenon
<1>4. SubSeq(u, 1, i) \o g \in Seq(Int)
    BY <1>3, ConcatAt, Zenon
<1>5. (SubSeq(u, 1, i) \o g) \o (SubSeq(u, j, Len(u)) \o v)
        = ((SubSeq(u, 1, i) \o g) \o SubSeq(u, j, Len(u))) \o v
    BY <1>3, <1>4, Associative, ZenonT(60)
<1>6. QED
    BY <1>1, <1>2, <1>5, Zenon DEF Spliced

\* The same for the second part.
LEMMA SpliceRight ==
  ASSUME NEW u \in Seq(Int), NEW v \in Seq(Int), NEW g \in Seq(Int),
         NEW i \in 0..Len(v), NEW j \in 1..(Len(v) + 1)
  PROVE  Spliced(u \o v, Len(u) + i, g, Len(u) + j) = u \o Spliced(v, i, g, j)
<1>1. SubSeq(u \o v, 1, Len(u) + i) = u \o SubSeq(v, 1, i)
    BY ConcatParts, Zenon
<1>2. SubSeq(u \o v, Len(u) + j, Len(u \o v)) = SubSeq(v, j, Len(v))
    BY ConcatParts, Zenon
<1>3. SubSeq(v, 1, i) \in Seq(Int) /\ SubSeq(v, j, Len(v)) \in Seq(Int)
  <2>1. /\ 1 \in 1..(Len(v) + 1) /\ i \in (1 - 1)..Len(v)
        /\ Len(v) \in (j - 1)..Len(v)
      OBVIOUS
  <2>2. QED
      BY <2>1, SubSeqAt, Zenon
<1>4. SubSeq(v, 1, i) \o g \in Seq(Int)
    BY <1>3, ConcatAt, Zenon
<1>5. (u \o SubSeq(v, 1, i)) \o g = u \o (SubSeq(v, 1, i) \o g)
    BY <1>3, Associative, ZenonT(60)
<1>6. (u \o (SubSeq(v, 1, i) \o g)) \o SubSeq(v, j, Len(v))
        = u \o ((SubSeq(v, 1, i) \o g) \o SubSeq(v, j, Len(v)))
    BY <1>3, <1>4, Associative, ZenonT(60)
<1>7. QED
    BY <1>1, <1>2, <1>5, <1>6, Zenon DEF Spliced

\* What a splice makes, byte by byte.
LEMMA SplicedType ==
  ASSUME NEW s \in Seq(Int), NEW g \in Seq(Int),
         NEW i \in 0..Len(s), NEW j \in 1..(Len(s) + 1)
  PROVE  /\ Spliced(s, i, g, j) \in Seq(Int)
         /\ Len(Spliced(s, i, g, j)) = i + Len(g) + (Len(s) + 1 - j)
         /\ \A k \in 1..i : Spliced(s, i, g, j)[k] = s[k]
         /\ \A k \in 1..Len(g) : Spliced(s, i, g, j)[i + k] = g[k]
         /\ \A k \in 1..(Len(s) + 1 - j) :
              Spliced(s, i, g, j)[i + Len(g) + k] = s[j + k - 1]
<1>1. /\ 1 \in 1..(Len(s) + 1) /\ i \in (1 - 1)..Len(s)
      /\ Len(s) \in (j - 1)..Len(s) /\ Len(s) \in Nat /\ Len(g) \in Nat
    OBVIOUS
<1>2. PICK a \in Seq(Int) :
        /\ a = SubSeq(s, 1, i) /\ Len(a) = i - 1 + 1
        /\ \A k \in 1..(i - 1 + 1) : a[k] = s[1 + k - 1]
    BY <1>1, SubSeqAt, Zenon
<1>3. PICK z \in Seq(Int) :
        /\ z = SubSeq(s, j, Len(s)) /\ Len(z) = Len(s) - j + 1
        /\ \A k \in 1..(Len(s) - j + 1) : z[k] = s[j + k - 1]
    BY <1>1, SubSeqAt, Zenon
<1>4. PICK c \in Seq(Int) :
        /\ c = a \o g /\ Len(c) = Len(a) + Len(g)
        /\ \A k \in 1..Len(a) : c[k] = a[k]
        /\ \A k \in 1..Len(g) : c[Len(a) + k] = g[k]
  <2>1. /\ a \o g \in Seq(Int) /\ Len(a \o g) = Len(a) + Len(g)
        /\ \A k \in 1..Len(a) : (a \o g)[k] = a[k]
        /\ \A k \in 1..Len(g) : (a \o g)[Len(a) + k] = g[k]
      BY ConcatAt, Zenon
  <2>2. QED
      BY <2>1, Zenon
<1>5. PICK d \in Seq(Int) :
        /\ d = c \o z /\ Len(d) = Len(c) + Len(z)
        /\ \A k \in 1..Len(c) : d[k] = c[k]
        /\ \A k \in 1..Len(z) : d[Len(c) + k] = z[k]
  <2>1. /\ c \o z \in Seq(Int) /\ Len(c \o z) = Len(c) + Len(z)
        /\ \A k \in 1..Len(c) : (c \o z)[k] = c[k]
        /\ \A k \in 1..Len(z) : (c \o z)[Len(c) + k] = z[k]
      BY ConcatAt, Zenon
  <2>2. QED
      BY <2>1, Zenon
<1>6. d = Spliced(s, i, g, j)
    BY <1>2, <1>3, <1>4, <1>5, Zenon DEF Spliced
<1>7. /\ Len(a) = i /\ \A k \in 1..i : a[k] = s[k]
  <2>1. Len(a) = i - 1 + 1 /\ \A k \in 1..(i - 1 + 1) : a[k] = s[1 + k - 1]
      BY <1>2, Zenon
  <2>2. QED
      BY <2>1
<1>8. /\ Len(z) = Len(s) + 1 - j
      /\ \A k \in 1..(Len(s) + 1 - j) : z[k] = s[j + k - 1]
  <2>1. Len(z) = Len(s) - j + 1 /\ \A k \in 1..(Len(s) - j + 1) : z[k] = s[j + k - 1]
      BY <1>3, Zenon
  <2>2. Len(s) - j + 1 = Len(s) + 1 - j
      BY <1>1
  <2>3. QED
      BY <2>1, <2>2, Zenon
<1>9. /\ Len(c) = i + Len(g)
      /\ \A k \in 1..i : c[k] = s[k]
      /\ \A k \in 1..Len(g) : c[i + k] = g[k]
  <2>1. /\ Len(c) = Len(a) + Len(g)
        /\ \A k \in 1..Len(a) : c[k] = a[k]
        /\ \A k \in 1..Len(g) : c[Len(a) + k] = g[k]
      BY <1>4, Zenon
  <2>2. QED
      BY <1>7, <2>1, Zenon
<1>10. /\ Len(d) = i + Len(g) + (Len(s) + 1 - j)
       /\ \A k \in 1..(i + Len(g)) : d[k] = c[k]
       /\ \A k \in 1..(Len(s) + 1 - j) : d[i + Len(g) + k] = s[j + k - 1]
  <2>1. /\ Len(d) = Len(c) + Len(z)
        /\ \A k \in 1..Len(c) : d[k] = c[k]
        /\ \A k \in 1..Len(z) : d[Len(c) + k] = z[k]
      BY <1>5, Zenon
  <2>2. QED
      BY <1>8, <1>9, <2>1, Zenon
<1>11. /\ \A k \in 1..i : k \in 1..(i + Len(g))
       /\ \A k \in 1..Len(g) : i + k \in 1..(i + Len(g))
    BY <1>1
<1>12. /\ \A k \in 1..i : d[k] = s[k]
       /\ \A k \in 1..Len(g) : d[i + k] = g[k]
    BY <1>9, <1>10, <1>11, Zenon
<1>13. QED
    BY <1>6, <1>10, <1>12, Zenon

\* What is put back as it was is no change.
LEMMA SplicedSame ==
  ASSUME NEW s \in Seq(Int), NEW i \in 1..Len(s)
  PROVE  Spliced(s, i - 1, <<s[i]>>, i + 1) = s
<1>1. PICK a \in 0..Len(s), j \in Int :
        /\ a = i - 1 /\ j = i + 1 /\ a + 1 = i /\ j - 1 = i
        /\ j \in (a + 1)..(Len(s) + 1)
  <2>1. /\ i - 1 \in 0..Len(s) /\ i + 1 \in ((i - 1) + 1)..(Len(s) + 1)
        /\ (i - 1) + 1 = i /\ (i + 1) - 1 = i
      OBVIOUS
  <2>2. QED
      BY <2>1
<1>2. s = (SubSeq(s, 1, a) \o SubSeq(s, a + 1, j - 1)) \o SubSeq(s, j, Len(s))
    BY <1>1, ThreeParts, Zenon
<1>3. SubSeq(s, i, i) = <<s[i]>>
    BY SubSeqOne
<1>4. SubSeq(s, a + 1, j - 1) = <<s[i]>>
    BY <1>1, <1>3, Zenon
<1>5. QED
    BY <1>1, <1>2, <1>4, Zenon DEF Spliced

\* A sequence of one byte.
LEMMA OneByte ==
  ASSUME NEW x \in Int
  PROVE  <<x>> \in Seq(Int) /\ Len(<<x>>) = 1 /\ <<x>>[1] = x
OBVIOUS

\* A line, byte by byte.
LEMMA LineAt ==
  ASSUME NEW body \in Seq(Int), NEW field \in Seq(Int), NEW x \in Int
  PROVE  /\ Framed(body, field, x) \in Seq(Int)
         /\ Len(Framed(body, field, x)) = Len(body) + Len(field) + 2
         /\ Framed(body, field, x)[1] = Space
         /\ \A k \in 1..Len(body) : Framed(body, field, x)[k + 1] = body[k]
         /\ \A k \in 1..Len(field) : Framed(body, field, x)[Len(body) + 1 + k] = field[k]
         /\ Framed(body, field, x)[Len(body) + Len(field) + 2] = x
<1>1. PICK o \in Seq(Int), e \in Seq(Int), n \in Nat, m \in Nat :
        /\ o = <<Space>> /\ e = <<x>> /\ n = Len(body) /\ m = Len(field)
        /\ Len(o) = 1 /\ Len(e) = 1 /\ o[1] = Space /\ e[1] = x
  <2>1. Space \in Int
      BY ByteFacts
  <2>2. Len(body) \in Nat /\ Len(field) \in Nat
      OBVIOUS
  <2>3. <<Space>> \in Seq(Int) /\ Len(<<Space>>) = 1 /\ <<Space>>[1] = Space
      BY <2>1, OneByte, Zenon
  <2>4. <<x>> \in Seq(Int) /\ Len(<<x>>) = 1 /\ <<x>>[1] = x
      BY OneByte, Zenon
  <2>5. QED
      BY <2>2, <2>3, <2>4, Zenon
<1>2. PICK a \in Seq(Int) :
        /\ a = o \o body /\ Len(a) = 1 + n /\ a[1] = Space
        /\ \A k \in 1..n : a[1 + k] = body[k]
  <2>1. /\ o \o body \in Seq(Int) /\ Len(o \o body) = Len(o) + Len(body)
        /\ \A k \in 1..Len(o) : (o \o body)[k] = o[k]
        /\ \A k \in 1..Len(body) : (o \o body)[Len(o) + k] = body[k]
      BY ConcatAt, Zenon
  <2>2. 1 \in 1..1
      OBVIOUS
  <2>3. QED
      BY <1>1, <2>1, <2>2, Zenon
<1>3. PICK c \in Seq(Int) :
        /\ c = a \o field /\ Len(c) = 1 + n + m
        /\ \A k \in 1..(1 + n) : c[k] = a[k]
        /\ \A k \in 1..m : c[1 + n + k] = field[k]
  <2>1. /\ a \o field \in Seq(Int) /\ Len(a \o field) = Len(a) + Len(field)
        /\ \A k \in 1..Len(a) : (a \o field)[k] = a[k]
        /\ \A k \in 1..Len(field) : (a \o field)[Len(a) + k] = field[k]
      BY ConcatAt, Zenon
  <2>2. Len(a) = 1 + n /\ Len(field) = m
      BY <1>1, <1>2, Zenon
  <2>3. /\ a \o field \in Seq(Int) /\ Len(a \o field) = 1 + n + m
        /\ \A k \in 1..(1 + n) : (a \o field)[k] = a[k]
        /\ \A k \in 1..m : (a \o field)[1 + n + k] = field[k]
      BY <2>1, <2>2, Zenon
  <2>4. QED
      BY <2>3, Zenon
<1>4. PICK d \in Seq(Int) :
        /\ d = c \o e /\ Len(d) = 1 + n + m + 1
        /\ \A k \in 1..(1 + n + m) : d[k] = c[k]
        /\ \A k \in 1..1 : d[1 + n + m + k] = e[k]
  <2>1. /\ c \o e \in Seq(Int) /\ Len(c \o e) = Len(c) + Len(e)
        /\ \A k \in 1..Len(c) : (c \o e)[k] = c[k]
        /\ \A k \in 1..Len(e) : (c \o e)[Len(c) + k] = e[k]
      BY ConcatAt, Zenon
  <2>2. Len(c) = 1 + n + m /\ Len(e) = 1
      BY <1>1, <1>3, Zenon
  <2>3. /\ c \o e \in Seq(Int) /\ Len(c \o e) = 1 + n + m + 1
        /\ \A k \in 1..(1 + n + m) : (c \o e)[k] = c[k]
        /\ \A k \in 1..1 : (c \o e)[1 + n + m + k] = e[k]
      BY <2>1, <2>2, Zenon
  <2>4. QED
      BY <2>3, Zenon
<1>5. d = Framed(body, field, x)
    BY <1>1, <1>2, <1>3, <1>4, Zenon DEF Framed
<1>6. /\ Len(a) = 1 + n /\ a[1] = Space
      /\ \A k \in 1..n : a[1 + k] = body[k]
      /\ Len(c) = 1 + n + m
      /\ \A k \in 1..(1 + n) : c[k] = a[k]
      /\ \A k \in 1..m : c[1 + n + k] = field[k]
      /\ Len(d) = 1 + n + m + 1
      /\ \A k \in 1..(1 + n + m) : d[k] = c[k]
      /\ \A k \in 1..1 : d[1 + n + m + k] = e[k]
      /\ n = Len(body) /\ m = Len(field) /\ e[1] = x
    BY <1>1, <1>2, <1>3, <1>4, Zenon
<1>7. d[1] = Space
  <2>1. 1 \in 1..(1 + n) /\ 1 \in 1..(1 + n + m)
      OBVIOUS
  <2>2. c[1] = a[1] /\ d[1] = c[1] /\ a[1] = Space
      BY <1>6, <2>1, Zenon
  <2>3. QED
      BY <2>2, Zenon
<1>8. ASSUME NEW k \in 1..n PROVE d[k + 1] = body[k]
  <2>1. /\ 1 + k \in 1..(1 + n) /\ 1 + k \in 1..(1 + n + m) /\ k + 1 = 1 + k
      OBVIOUS
  <2>2. d[1 + k] = body[k]
      BY <1>6, <2>1, Zenon
  <2>3. QED
      BY <2>1, <2>2
<1>9. ASSUME NEW k \in 1..m PROVE d[n + 1 + k] = field[k]
  <2>1. 1 + n + k \in 1..(1 + n + m) /\ n + 1 + k = 1 + n + k
      OBVIOUS
  <2>2. d[1 + n + k] = field[k]
      BY <1>6, <2>1, Zenon
  <2>3. QED
      BY <2>1, <2>2
<1>10. Len(d) = n + m + 2 /\ d[n + m + 2] = x
  <2>1. 1 \in 1..1 /\ 1 + n + m + 1 = n + m + 2
      OBVIOUS
  <2>2. d[1 + n + m + 1] = x
      BY <1>6, <2>1, Zenon
  <2>3. QED
      BY <1>6, <2>1, <2>2
<1>11. QED
    BY <1>5, <1>6, <1>7, <1>8, <1>9, <1>10, Zenon

\* What a line is taken apart into.
LEMMA LineTaken ==
  ASSUME NEW body \in Seq(Int), NEW field \in Seq(Int), NEW x \in Int
  PROVE  /\ Started(Framed(body, field, x))
         /\ Tail(Framed(body, field, x)) = (body \o field) \o <<x>>
         /\ Len(field) = HexLen =>
              /\ ChecksummedBody(Framed(body, field, x)) = body
              /\ ChecksumField(Framed(body, field, x)) = field
<1>1. PICK c \in Seq(Int), n \in Nat, m \in Nat :
        /\ c = Framed(body, field, x) /\ n = Len(body) /\ m = Len(field)
        /\ Len(c) = n + m + 2 /\ c[1] = Space
        /\ \A k \in 1..n : c[k + 1] = body[k]
        /\ \A k \in 1..m : c[n + 1 + k] = field[k]
        /\ c[n + m + 2] = x
  <2>1. Len(body) \in Nat /\ Len(field) \in Nat
      OBVIOUS
  <2>2. /\ Framed(body, field, x) \in Seq(Int)
        /\ Len(Framed(body, field, x)) = Len(body) + Len(field) + 2
        /\ Framed(body, field, x)[1] = Space
        /\ \A k \in 1..Len(body) : Framed(body, field, x)[k + 1] = body[k]
        /\ \A k \in 1..Len(field) : Framed(body, field, x)[Len(body) + 1 + k] = field[k]
        /\ Framed(body, field, x)[Len(body) + Len(field) + 2] = x
      BY LineAt, ZenonT(60)
  <2>3. QED
      BY <2>1, <2>2, Zenon
<1>2. /\ n = Len(body) /\ m = Len(field)
      /\ Len(c) = n + m + 2 /\ c[1] = Space
      /\ \A k \in 1..n : c[k + 1] = body[k]
      /\ \A k \in 1..m : c[n + 1 + k] = field[k]
      /\ c[n + m + 2] = x
    BY <1>1, Zenon
<1>3. Started(c)
  <2>1. c # <<>> /\ Head(c) = c[1]
      BY <1>2
  <2>2. QED
      BY <1>2, <2>1 DEF Started
<1>4. Tail(c) = (body \o field) \o <<x>>
  <2>1. PICK u \in Seq(Int) :
          /\ u = body \o field /\ Len(u) = n + m
          /\ \A k \in 1..n : u[k] = body[k]
          /\ \A k \in 1..m : u[n + k] = field[k]
    <3>1. /\ body \o field \in Seq(Int) /\ Len(body \o field) = Len(body) + Len(field)
          /\ \A k \in 1..Len(body) : (body \o field)[k] = body[k]
          /\ \A k \in 1..Len(field) : (body \o field)[Len(body) + k] = field[k]
        BY ConcatAt, Zenon
    <3>2. QED
        BY <1>2, <3>1, Zenon
  <2>2. PICK d \in Seq(Int) :
          /\ d = u \o <<x>> /\ Len(d) = n + m + 1
          /\ \A k \in 1..(n + m) : d[k] = u[k]
          /\ d[n + m + 1] = x
    <3>1. <<x>> \in Seq(Int) /\ Len(<<x>>) = 1 /\ <<x>>[1] = x
        BY OneByte, Zenon
    <3>2. /\ u \o <<x>> \in Seq(Int) /\ Len(u \o <<x>>) = Len(u) + Len(<<x>>)
          /\ \A k \in 1..Len(u) : (u \o <<x>>)[k] = u[k]
          /\ \A k \in 1..Len(<<x>>) : (u \o <<x>>)[Len(u) + k] = <<x>>[k]
        BY <3>1, ConcatAt, Zenon
    <3>3. 1 \in 1..1 /\ Len(u) = n + m
      <4>1. Len(u) = n + m
          BY <2>1, Zenon
      <4>2. QED
          BY <4>1
    <3>4. QED
        BY <3>1, <3>2, <3>3, ZenonT(60)
  <2>3. /\ Len(u) = n + m
        /\ \A k \in 1..n : u[k] = body[k]
        /\ \A k \in 1..m : u[n + k] = field[k]
        /\ Len(d) = n + m + 1
        /\ \A k \in 1..(n + m) : d[k] = u[k]
        /\ d[n + m + 1] = x
      BY <2>1, <2>2, Zenon
  <2>4. /\ Tail(c) \in Seq(Int) /\ Len(Tail(c)) = n + m + 1
        /\ \A k \in 1..(n + m + 1) : Tail(c)[k] = c[k + 1]
    <3>1. Len(c) = n + m + 2 /\ c # <<>>
        BY <1>2
    <3>2. Tail(c) \in Seq(Int) /\ Len(Tail(c)) = Len(c) - 1
        BY <3>1
    <3>3. \A k \in 1..(n + m + 1) : Tail(c)[k] = c[k + 1]
        BY <3>1
    <3>4. QED
        BY <3>1, <3>2, <3>3
  <2>5. PICK t \in Seq(Int) : /\ t = Tail(c) /\ Len(t) = n + m + 1
                              /\ \A k \in 1..(n + m + 1) : t[k] = c[k + 1]
      BY <2>4, Zenon
  <2>6. Len(t) = n + m + 1 /\ \A k \in 1..(n + m + 1) : t[k] = c[k + 1]
      BY <2>5, Zenon
  <2>7. ASSUME NEW k \in 1..Len(t) PROVE t[k] = d[k]
    <3>1. CASE k \in 1..n
      <4>1. k \in 1..(n + m) /\ k \in 1..(n + m + 1)
          BY <3>1
      <4>2. /\ d[k] = u[k] /\ u[k] = body[k]
            /\ t[k] = c[k + 1] /\ c[k + 1] = body[k]
          BY <1>2, <2>3, <2>6, <3>1, <4>1, Zenon
      <4>3. QED
          BY <4>2, Zenon
    <3>2. CASE k > n /\ k <= n + m
      <4>1. PICK h \in 1..m : k = n + h
        <5>1. k - n \in 1..m
            BY <3>2
        <5>2. QED
            BY <5>1
      <4>2. n + h \in 1..(n + m) /\ k + 1 = n + 1 + h /\ k \in 1..(n + m + 1)
          BY <4>1
      <4>3. d[k] = field[h]
          BY <2>3, <4>1, <4>2, Zenon
      <4>4. t[k] = c[k + 1]
          BY <2>6, <4>2, Zenon
      <4>5. c[n + 1 + h] = field[h]
          BY <1>2, Zenon
      <4>6. QED
          BY <4>2, <4>3, <4>4, <4>5
    <3>3. CASE k = n + m + 1
      <4>1. k + 1 = n + m + 2 /\ k \in 1..(n + m + 1)
          BY <3>3
      <4>2. t[k] = x
          BY <1>2, <2>6, <4>1
      <4>3. QED
          BY <2>3, <3>3, <4>2
    <3>4. k \in 1..(n + m + 1)
        BY <2>6, Zenon
    <3>5. k \in 1..n \/ (k > n /\ k <= n + m) \/ k = n + m + 1
        BY <3>4
    <3>6. QED
        BY <3>1, <3>2, <3>3, <3>5, Zenon
  <2>8. Len(t) = Len(d)
      BY <2>3, <2>6
  <2>9. t = d
      BY <2>7, <2>8, SeqEqual, Zenon
  <2>10. QED
      BY <2>1, <2>2, <2>5, <2>9, Zenon
<1>5. ASSUME m = HexLen
      PROVE  ChecksummedBody(c) = body /\ ChecksumField(c) = field
  <2>1. HexLen \in Nat /\ HexLen > 0
      BY BaseFacts
  <2>2. /\ Len(c) - HexLen - 1 = n + 1 /\ Len(c) > HexLen
        /\ Len(c) - HexLen = n + 2 /\ Len(c) - 1 = n + m + 1
      BY <1>2, <1>5, <2>1
  <2>3. SubSeq(c, 2, n + 1) = body
    <3>1. 2 \in 1..(Len(c) + 1) /\ n + 1 \in (2 - 1)..Len(c)
        BY <1>2
    <3>2. PICK a \in Seq(Int) :
            /\ a = SubSeq(c, 2, n + 1) /\ Len(a) = (n + 1) - 2 + 1
            /\ \A k \in 1..((n + 1) - 2 + 1) : a[k] = c[2 + k - 1]
        BY <3>1, SubSeqAt, Zenon
    <3>3. /\ Len(a) = (n + 1) - 2 + 1
          /\ \A k \in 1..((n + 1) - 2 + 1) : a[k] = c[2 + k - 1]
        BY <3>2, Zenon
    <3>4. Len(a) = Len(body) /\ \A k \in 1..Len(a) : a[k] = body[k]
        BY <1>2, <3>3
    <3>5. a = body
        BY <3>4, SeqEqual, Zenon
    <3>6. QED
        BY <3>2, <3>5, Zenon
  <2>4. SubSeq(c, n + 2, n + m + 1) = field
    <3>1. n + 2 \in 1..(Len(c) + 1) /\ n + m + 1 \in ((n + 2) - 1)..Len(c)
        BY <1>2
    <3>2. PICK a \in Seq(Int) :
            /\ a = SubSeq(c, n + 2, n + m + 1) /\ Len(a) = (n + m + 1) - (n + 2) + 1
            /\ \A k \in 1..((n + m + 1) - (n + 2) + 1) : a[k] = c[(n + 2) + k - 1]
        BY <3>1, SubSeqAt, Zenon
    <3>3. /\ Len(a) = (n + m + 1) - (n + 2) + 1
          /\ \A k \in 1..((n + m + 1) - (n + 2) + 1) : a[k] = c[(n + 2) + k - 1]
        BY <3>2, Zenon
    <3>4. Len(a) = m
        BY <3>3
    <3>5. ASSUME NEW k \in 1..Len(a) PROVE a[k] = field[k]
      <4>1. /\ k \in 1..((n + m + 1) - (n + 2) + 1) /\ k \in 1..m
            /\ (n + 2) + k - 1 = n + 1 + k
          BY <3>4
      <4>2. a[k] = c[(n + 2) + k - 1]
          BY <3>3, <4>1, Zenon
      <4>3. c[n + 1 + k] = field[k]
          BY <1>2, <4>1, Zenon
      <4>4. QED
          BY <4>1, <4>2, <4>3
    <3>6. Len(a) = Len(field)
        BY <1>2, <3>4
    <3>7. a = field
        BY <3>5, <3>6, SeqEqual, Zenon
    <3>8. QED
        BY <3>2, <3>7, Zenon
  <2>5. QED
      BY <2>2, <2>3, <2>4 DEF ChecksummedBody, ChecksumField
<1>6. QED
    BY <1>1, <1>3, <1>4, <1>5, Zenon

\* The same for all places.
LEMMA SpliceLeftAll ==
  ASSUME NEW u \in Seq(Int), NEW v \in Seq(Int), NEW g \in Seq(Int)
  PROVE  \A i \in 0..Len(u) : \A j \in 1..(Len(u) + 1) :
           Spliced(u \o v, i, g, j) = Spliced(u, i, g, j) \o v
BY SpliceLeft, Zenon

\* A splice within the middle of three parts leaves the outer ones alone.
LEMMA SpliceMiddle ==
  ASSUME NEW u \in Seq(Int), NEW v \in Seq(Int), NEW w \in Seq(Int), NEW g \in Seq(Int),
         NEW i \in 0..Len(v), NEW j \in 1..(Len(v) + 1)
  PROVE  Spliced((u \o v) \o w, Len(u) + i, g, Len(u) + j) = (u \o Spliced(v, i, g, j)) \o w
<1>1. PICK x \in Seq(Int) : x = u \o v /\ Len(x) = Len(u) + Len(v)
    BY ConcatAt, Zenon
<1>2. PICK h \in Int, r \in Int :
        /\ h = Len(u) + i /\ r = Len(u) + j
        /\ h \in 0..Len(x) /\ r \in 1..(Len(x) + 1)
  <2>1. Len(x) = Len(u) + Len(v)
      BY <1>1, Zenon
  <2>2. /\ Len(u) + i \in 0..Len(x) /\ Len(u) + j \in 1..(Len(x) + 1)
        /\ Len(u) + i \in Int /\ Len(u) + j \in Int
      BY <2>1
  <2>3. QED
      BY <2>2, Zenon
<1>3. h \in 0..Len(x) /\ r \in 1..(Len(x) + 1)
    BY <1>2, Zenon
<1>4. Spliced(x \o w, h, g, r) = Spliced(x, h, g, r) \o w
  <2>1. \A y \in 0..Len(x) : \A z \in 1..(Len(x) + 1) :
          Spliced(x \o w, y, g, z) = Spliced(x, y, g, z) \o w
      BY SpliceLeftAll, Zenon
  <2>2. QED
      BY <1>3, <2>1, Zenon
<1>5. Spliced(u \o v, Len(u) + i, g, Len(u) + j) = u \o Spliced(v, i, g, j)
    BY SpliceRight, ZenonT(60)
<1>6. QED
    BY <1>1, <1>2, <1>4, <1>5, Zenon

\* The line without its CR LF ends with the last byte that is none.
LEMMA ContentIs ==
  ASSUME NEW raw \in Seq(Int), NEW k \in 1..Len(raw), raw[k] # Return,
         \A i \in 1..Len(raw) : i > k => raw[i] = Return
  PROVE  Content(raw) = SubSeq(raw, 1, k)
<1> DEFINE inside == {i \in DOMAIN raw : raw[i] # Return}
<1>1. DOMAIN raw = 1..Len(raw) /\ Len(raw) \in Nat
    OBVIOUS
<1>2. k \in inside /\ \A i \in inside : i \in Int /\ i <= k
    BY <1>1
<1>3. Content(raw) = IF inside = {} THEN <<>>
                     ELSE SubSeq(raw, 1, CHOOSE i \in inside : \A j \in inside : j <= i)
    BY DEF Content
<1> HIDE DEF inside
<1>4. (CHOOSE i \in inside : \A j \in inside : j <= i) = k
  <2>1. \A i \in inside : (\A j \in inside : j <= i) => i = k
      BY <1>2
  <2>2. \A j \in inside : j <= k
      BY <1>2
  <2>3. QED
      BY <1>2, <2>1, <2>2, Zenon
<1>5. inside # {}
    BY <1>2, Zenon
<1>6. QED
    BY <1>3, <1>4, <1>5, Zenon

\* One byte at the end of the line, or two.
LEMMA ContentOf ==
  ASSUME NEW s \in Seq(Int), NEW n \in Nat, n = Len(s), n > 0, s[n] # Return
  PROVE  /\ Content(s \o <<Return>>) = s
         /\ Content((s \o <<Return>>) \o <<Return>>) = s
<1>1. <<Return>> \in Seq(Int) /\ Len(<<Return>>) = 1 /\ <<Return>>[1] = Return
  <2>1. Return \in Int
      BY ByteFacts
  <2>2. QED
      BY <2>1, OneByte, Zenon
<1>2. PICK r \in Seq(Int) : r = <<Return>> /\ Len(r) = 1 /\ r[1] = Return
    BY <1>1, Zenon
<1>3. PICK x \in Seq(Int) :
        /\ x = s \o r /\ Len(x) = n + 1
        /\ \A k \in 1..n : x[k] = s[k]
        /\ \A k \in 1..1 : x[n + k] = r[k]
  <2>1. /\ s \o r \in Seq(Int) /\ Len(s \o r) = Len(s) + Len(r)
        /\ \A k \in 1..Len(s) : (s \o r)[k] = s[k]
        /\ \A k \in 1..Len(r) : (s \o r)[Len(s) + k] = r[k]
      BY ConcatAt, Zenon
  <2>2. Len(s) = n /\ Len(r) = 1
      BY <1>2, Zenon
  <2>3. QED
      BY <2>1, <2>2, ZenonT(60)
<1>4. PICK y \in Seq(Int) :
        /\ y = x \o r /\ Len(y) = n + 1 + 1
        /\ \A k \in 1..(n + 1) : y[k] = x[k]
        /\ \A k \in 1..1 : y[n + 1 + k] = r[k]
  <2>1. /\ x \o r \in Seq(Int) /\ Len(x \o r) = Len(x) + Len(r)
        /\ \A k \in 1..Len(x) : (x \o r)[k] = x[k]
        /\ \A k \in 1..Len(r) : (x \o r)[Len(x) + k] = r[k]
      BY ConcatAt, Zenon
  <2>2. Len(x) = n + 1 /\ Len(r) = 1
      BY <1>2, <1>3, Zenon
  <2>3. /\ x \o r \in Seq(Int) /\ Len(x \o r) = n + 1 + 1
        /\ \A k \in 1..(n + 1) : (x \o r)[k] = x[k]
        /\ \A k \in 1..1 : (x \o r)[n + 1 + k] = r[k]
      BY <2>1, <2>2, Zenon
  <2>4. QED
      BY <2>3, Zenon
<1>5. /\ Len(x) = n + 1 /\ (\A k \in 1..n : x[k] = s[k]) /\ x[n + 1] = Return
      /\ Len(y) = n + 2 /\ (\A k \in 1..n : y[k] = s[k])
      /\ y[n + 1] = Return /\ y[n + 2] = Return
  <2>1. /\ Len(x) = n + 1 /\ \A k \in 1..n : x[k] = s[k]
        /\ \A k \in 1..1 : x[n + k] = r[k]
        /\ Len(y) = n + 1 + 1 /\ \A k \in 1..(n + 1) : y[k] = x[k]
        /\ \A k \in 1..1 : y[n + 1 + k] = r[k]
        /\ r[1] = Return
      BY <1>2, <1>3, <1>4, Zenon
  <2>2. /\ 1 \in 1..1 /\ n + 1 + 1 = n + 2 /\ n + 1 \in 1..(n + 1)
        /\ \A k \in 1..n : k \in 1..(n + 1)
      OBVIOUS
  <2>3. x[n + 1] = Return /\ y[n + 1 + 1] = Return
      BY <2>1, <2>2, Zenon
  <2>4. y[n + 1] = x[n + 1] /\ \A k \in 1..n : y[k] = x[k]
      BY <2>1, <2>2, Zenon
  <2>5. \A k \in 1..n : y[k] = s[k]
      BY <2>1, <2>4, Zenon
  <2>6. y[n + 2] = Return /\ Len(y) = n + 2 /\ y[n + 1] = Return
      BY <2>1, <2>2, <2>3, <2>4, Zenon
  <2>7. QED
      BY <2>1, <2>3, <2>5, <2>6, Zenon
<1>6. SubSeq(x, 1, n) = s /\ SubSeq(y, 1, n) = s
  <2>1. /\ 1 \in 1..(Len(x) + 1) /\ n \in (1 - 1)..Len(x)
        /\ 1 \in 1..(Len(y) + 1) /\ n \in (1 - 1)..Len(y)
      BY <1>5
  <2>2. PICK a \in Seq(Int) :
          /\ a = SubSeq(x, 1, n) /\ Len(a) = n - 1 + 1
          /\ \A k \in 1..(n - 1 + 1) : a[k] = x[1 + k - 1]
      BY <2>1, SubSeqAt, ZenonT(60)
  <2>3. PICK c \in Seq(Int) :
          /\ c = SubSeq(y, 1, n) /\ Len(c) = n - 1 + 1
          /\ \A k \in 1..(n - 1 + 1) : c[k] = y[1 + k - 1]
      BY <2>1, SubSeqAt, Zenon
  <2>4. /\ Len(a) = n - 1 + 1 /\ \A k \in 1..(n - 1 + 1) : a[k] = x[1 + k - 1]
        /\ Len(c) = n - 1 + 1 /\ \A k \in 1..(n - 1 + 1) : c[k] = y[1 + k - 1]
      BY <2>2, <2>3, Zenon
  <2>5. /\ Len(a) = Len(s) /\ \A k \in 1..Len(a) : a[k] = s[k]
        /\ Len(c) = Len(s) /\ \A k \in 1..Len(c) : c[k] = s[k]
      BY <1>5, <2>4, SMTT(30)
  <2>6. a = s /\ c = s
      BY <2>5, SeqEqual, Zenon
  <2>7. QED
      BY <2>2, <2>3, <2>6, Zenon
<1>7. Content(x) = SubSeq(x, 1, n) /\ Content(y) = SubSeq(y, 1, n)
  <2>1. /\ n \in 1..Len(x) /\ x[n] # Return
        /\ \A i \in 1..Len(x) : i > n => x[i] = Return
        /\ n \in 1..Len(y) /\ y[n] # Return
        /\ \A i \in 1..Len(y) : i > n => y[i] = Return
      BY <1>5, SMTT(30)
  <2>2. QED
      BY <2>1, ContentIs, Zenon
<1>8. QED
    BY <1>2, <1>3, <1>4, <1>6, <1>7, Zenon

\* int() of a field is an integer.
LEMMA NumberType ==
  ASSUME NEW s \in Seq(Int)
  PROVE  Number(s) \in Int
<1> DEFINE inside == {k \in 1..Len(s) : s[k] # Space}
<1>1. Len(s) \in Nat /\ inside \in SUBSET (1..Len(s)) /\ inside \in SUBSET Nat
    OBVIOUS
<1>2. \A x \in Seq(Int) : Value(x) \in Int
  <2>1. ASSUME NEW x \in Seq(Int) PROVE Value(x) \in Int
    <3>1. PICK f \in [0..Len(x) -> Int] : Value(x) = f[Len(x)]
        BY ValueDef
    <3>2. Len(x) \in 0..Len(x)
        OBVIOUS
    <3>3. QED
        BY <3>1, <3>2
  <2>2. QED
      BY <2>1
<1>3. Strip(s) \in Seq(Int)
  <2>1. CASE inside = {}
    <3>1. {i \in DOMAIN s : s[i] # Space} = {}
        BY <2>1
    <3>2. Strip(s) = <<>>
        BY <3>1 DEF Strip
    <3>3. QED
        BY <3>2
  <2>2. CASE inside # {}
    <3>1. PICK a \in inside : \A j \in inside : a <= j
        BY <1>1, <2>2, Least
    <3>2. PICK z \in inside : \A j \in inside : j <= z
        BY <1>1, <2>2, Greatest
    <3>3. /\ a \in 1..Len(s) /\ z \in 1..Len(s) /\ s[a] # Space /\ s[z] # Space
          /\ \A k \in 1..Len(s) : s[k] # Space => a <= k /\ k <= z
        BY <3>1, <3>2
    <3>4. Strip(s) = SubSeq(s, a, z)
        BY <3>3, StripOf, Zenon
    <3>5. a \in 1..(Len(s) + 1) /\ z \in (a - 1)..Len(s)
        BY <3>1, <3>2
    <3>6. SubSeq(s, a, z) \in Seq(Int)
        BY <3>5, SubSeqAt, Zenon
    <3>7. QED
        BY <3>4, <3>6, Zenon
  <2>3. QED
      BY <2>1, <2>2
<1>4. QED
    BY <1>2, <1>3 DEF Number

\* What is computed has as many digits as the checksum.
LEMMA ComputeType ==
  ASSUME NEW s \in Seq(Int)
  PROVE  Compute(s) \in Nat /\ Compute(s) < Modulus
<1>1. Sum(s) \in Int
    BY SumType
<1>2. Modulus \in Nat \ {0}
    BY ModulusFacts
<1> DEFINE a == Sum(s)
           m == Modulus
<1>3. a \in Int /\ m \in Nat \ {0}
    BY <1>1, <1>2
<1> HIDE DEF a, m
<1>4. a % m \in Nat /\ a % m < m
    BY <1>3
<1>5. QED
    BY <1>4 DEF Compute, a, m

\* A checksum as it was sent fits what it was computed of, and whatever has the
\* same sum; a checksum with a semicolon within fits nothing.
LEMMA VerifiedLine ==
  ASSUME NEW body \in Seq(Int), NEW summed \in Seq(Int), NEW x \in Int
  PROVE  Verified(Framed(body, Checksum(Compute(summed)), x)) <=> Compute(body) = Compute(summed)
<1>1. PICK n \in Nat : n = Compute(summed) /\ n < Modulus
    BY ComputeType
<1>2. PICK f \in Seq(Int) :
        f = Checksum(n) /\ Len(f) = HexLen /\ \A i \in 1..HexLen : f[i] \in Digits
    BY ChecksumType
<1>3. IsNumber(f) /\ Number(f) = n
  <2>1. Len(f) = HexLen /\ \A i \in 1..HexLen : f[i] \in Digits
      BY <1>2, Zenon
  <2>2. \A i \in 1..Len(f) : f[i] \in Digits
      BY <2>1, Zenon
  <2>3. f # <<>>
      BY <2>1, BaseFacts
  <2>4. IsNumber(f) /\ Number(f) = Value(f)
      BY <2>2, <2>3, NumberOfDigits, Zenon
  <2>5. Value(Checksum(n)) = n
      BY <1>1, ValueOfChecksum, Zenon
  <2>6. QED
      BY <1>2, <2>4, <2>5, Zenon
<1>4. /\ ChecksummedBody(Framed(body, f, x)) = body
      /\ ChecksumField(Framed(body, f, x)) = f
    BY <1>2, LineTaken, Zenon
<1>5. QED
    BY <1>1, <1>2, <1>3, <1>4, Zenon DEF Verified

\* A semicolon among the digits of the checksum is no number.
LEMMA SemiInChecksum ==
  ASSUME NEW c \in Seq(Int), HexLen < Len(c),
         NEW k \in (Len(c) - HexLen)..(Len(c) - 1), c[k] = Semi
  PROVE  ~Verified(c)
<1> SUFFICES ASSUME IsNumber(ChecksumField(c)) PROVE FALSE
    BY DEF Verified
<1>1. PICK n \in Nat, a \in Nat, z \in Int :
        /\ n = Len(c) /\ a = n - HexLen /\ z = n - 1 /\ a > 0
        /\ a \in 1..(Len(c) + 1) /\ z \in (a - 1)..Len(c)
    BY BaseFacts
<1>2. ChecksumField(c) = SubSeq(c, a, z)
    BY <1>1 DEF ChecksumField
<1>3. PICK f \in Seq(Int) :
        /\ f = SubSeq(c, a, z) /\ Len(f) = z - a + 1
        /\ \A i \in 1..(z - a + 1) : f[i] = c[a + i - 1]
    BY <1>1, SubSeqAt, ZenonT(60)
<1>4. Len(f) = z - a + 1 /\ \A i \in 1..(z - a + 1) : f[i] = c[a + i - 1]
    BY <1>3, Zenon
<1>5. k - a + 1 \in 1..(z - a + 1) /\ a + (k - a + 1) - 1 = k
    BY <1>1, BaseFacts
<1>6. k - a + 1 \in 1..Len(f) /\ f[k - a + 1] = Semi
    BY <1>4, <1>5
<1>7. IsNumber(f)
    BY <1>2, <1>3, Zenon
<1>8. \A i \in 1..Len(f) : f[i] # Semi
    BY <1>7, NoSemiInNumber
<1>9. QED
    BY <1>6, <1>8

\* A line with an odd number of fields has not as many as its header says.
LEMMA UnevenFields ==
  ASSUME NEW x \in Seq(Int), NEW m \in Nat, NEW h \in Int, m = 2 * h + 1,
         NEW p, EndsAre(x, m, p)
  PROVE  ~(Terminated(Split(x)) /\ Counted(Split(x)))
<1> SUFFICES ASSUME Terminated(Split(x)), Counted(Split(x)) PROVE FALSE
    OBVIOUS
<1>1. PICK F \in Seq(Seq(Int)) : F = Split(x) /\ Len(F) = m
  <2>1. Split(x) \in Seq(Seq(Int)) /\ Len(Split(x)) = m
      BY SplitAt, Zenon
  <2>2. QED
      BY <2>1, Zenon
<1>2. Terminated(F) /\ Counted(F) /\ Len(F) = m
    BY <1>1, Zenon
<1>3. m >= 4
    BY <1>2 DEF Terminated, HeaderFields, TrailerFields
<1>4. F[2] \in Seq(Int)
    BY <1>2, <1>3
<1>5. PICK d \in Int : d = Number(F[2])
    BY <1>4, NumberType
<1>6. Len(F) = 2 + 2 * Number(F[2]) + 2
    BY <1>2, Zenon DEF Counted, HeaderFields, BlockFields, TrailerFields
<1>7. QED
    BY <1>2, <1>5, <1>6

\* Fields that are what the analyser says are read as what it says.
LEMMA ReadRight ==
  ASSUME NEW b \in Broadcasts, NEW n \in Nat, n = Len(b.readings), NEW raw,
         FieldsAre(b, n, Fields(raw))
  PROVE  /\ Terminated(Fields(raw)) /\ Counted(Fields(raw))
         /\ \A i \in BlockNumbers(Fields(raw)) :
              /\ IsNumber(ChannelId(Fields(raw), i))
              /\ Number(ChannelId(Fields(raw), i)) \in Channels
         /\ Says(raw) = Meaning(b)
<1>1. PICK F \in Seq(Seq(Int)) :
        /\ F = Fields(raw) /\ Len(F) = 2 * n + 4
        /\ F[1] = <<Digit(b.date)>> /\ F[2] = <<Digit(n)>>
        /\ \A k \in 1..n :
             /\ F[2 * k + 1] = <<Digit(b.readings[k].channel)>>
             /\ F[2 * k + 2] = <<Space, Digit(b.readings[k].value)>>
        /\ F[2 * n + 4] = <<>>
    BY Zenon DEF FieldsAre
<1>2. /\ Len(F) = 2 * n + 4
      /\ F[1] = <<Digit(b.date)>> /\ F[2] = <<Digit(n)>>
      /\ \A k \in 1..n :
           /\ F[2 * k + 1] = <<Digit(b.readings[k].channel)>>
           /\ F[2 * k + 2] = <<Space, Digit(b.readings[k].value)>>
      /\ F[2 * n + 4] = <<>>
    BY <1>1, Zenon
<1>3. /\ b.date \in 0..(Base - 1) /\ n \in 0..(Base - 1) /\ DOMAIN b.readings = 1..n
      /\ \A k \in 1..n : /\ b.readings[k].channel \in Channels
                         /\ b.readings[k].channel \in 0..(Base - 1)
                         /\ b.readings[k].value \in 0..(Base - 1)
    BY BroadcastFacts, Zenon
<1>4. /\ IsNumber(F[1]) /\ Number(F[1]) = b.date
      /\ IsNumber(F[2]) /\ Number(F[2]) = n
    BY <1>2, <1>3, OneDigit, Zenon
<1>5. ASSUME NEW k \in 1..n
      PROVE  /\ BlockField(F, k, 1) = F[2 * k + 1] /\ ChannelId(F, k) = F[2 * k + 1]
             /\ BlockField(F, k, 2) = F[2 * k + 2]
             /\ IsNumber(F[2 * k + 1]) /\ Number(F[2 * k + 1]) = b.readings[k].channel
             /\ IsNumber(F[2 * k + 2]) /\ Number(F[2 * k + 2]) = b.readings[k].value
  <2>1. 2 + 2 * (k - 1) + 1 = 2 * k + 1 /\ 2 + 2 * (k - 1) + 2 = 2 * k + 2
      OBVIOUS
  <2>2. /\ BlockField(F, k, 1) = F[2 * k + 1] /\ BlockField(F, k, 2) = F[2 * k + 2]
      BY <2>1 DEF BlockField, HeaderFields, BlockFields
  <2>3. ChannelId(F, k) = F[2 * k + 1]
      BY <2>2 DEF ChannelId
  <2>4. /\ IsNumber(F[2 * k + 1]) /\ Number(F[2 * k + 1]) = b.readings[k].channel
        /\ IsNumber(F[2 * k + 2]) /\ Number(F[2 * k + 2]) = b.readings[k].value
      BY <1>2, <1>3, OneDigit, Zenon
  <2>5. QED
      BY <2>2, <2>3, <2>4, Zenon
<1>6. Terminated(F)
  <2>1. Len(F) >= 4 /\ Last(F) = F[Len(F)]
      BY <1>2 DEF Last
  <2>2. QED
      BY <1>2, <2>1 DEF Terminated, HeaderFields, TrailerFields
<1>7. Counted(F)
  <2>1. Len(F) = 2 + 2 * n + 2
      BY <1>2
  <2>2. QED
      BY <1>4, <2>1, Zenon DEF Counted, HeaderFields, BlockFields, TrailerFields
<1>8. BlockNumbers(F) = 1..n
    BY <1>4, Zenon DEF BlockNumbers, HeaderFields
<1>9. ASSUME NEW i \in BlockNumbers(F)
      PROVE  IsNumber(ChannelId(F, i)) /\ Number(ChannelId(F, i)) \in Channels
  <2>1. i \in 1..n
      BY <1>8, Zenon
  <2>2. /\ ChannelId(F, i) = F[2 * i + 1] /\ IsNumber(F[2 * i + 1])
        /\ Number(F[2 * i + 1]) = b.readings[i].channel
        /\ b.readings[i].channel \in Channels
      BY <1>3, <1>5, <2>1, Zenon
  <2>3. QED
      BY <2>2, Zenon
<1>10. Says(raw) = Meaning(b)
  <2>1. OrNone(Fields(raw)[1]) = {b.date}
      BY <1>1, <1>4, Zenon DEF OrNone
  <2>2. [i \in BlockNumbers(Fields(raw)) |->
          [channel |-> Number(ChannelId(Fields(raw), i)),
           value |-> OrNone(BlockField(Fields(raw), i, 2))]]
        = [i \in DOMAIN b.readings |->
            [channel |-> b.readings[i].channel, value |-> {b.readings[i].value}]]
    <3>1. BlockNumbers(Fields(raw)) = DOMAIN b.readings
        BY <1>1, <1>3, <1>8, Zenon
    <3>2. ASSUME NEW i \in DOMAIN b.readings
          PROVE  /\ Number(ChannelId(Fields(raw), i)) = b.readings[i].channel
                 /\ OrNone(BlockField(Fields(raw), i, 2)) = {b.readings[i].value}
      <4>1. i \in 1..n
          BY <1>3, Zenon
      <4>2. /\ Number(ChannelId(F, i)) = b.readings[i].channel
            /\ IsNumber(BlockField(F, i, 2))
            /\ Number(BlockField(F, i, 2)) = b.readings[i].value
          BY <1>5, <4>1, Zenon
      <4>3. OrNone(BlockField(F, i, 2)) = {b.readings[i].value}
          BY <4>2, Zenon DEF OrNone
      <4>4. QED
          BY <1>1, <4>2, <4>3, Zenon
    <3>3. QED
        BY <3>1, <3>2, Zenon
  <2>3. QED
      BY <2>1, <2>2, Zenon DEF Says, Meaning
<1>11. QED
    BY <1>1, <1>6, <1>7, <1>9, <1>10, Zenon

\* Concatenation, for provers that are not to look inside.
Cat(s, t) == s \o t

\* It is a sequence, and associative.
LEMMA CatFacts ==
  /\ \A s, t \in Seq(Int) : Cat(s, t) \in Seq(Int) /\ Len(Cat(s, t)) = Len(s) + Len(t)
  /\ \A s, t, u \in Seq(Int) : Cat(Cat(s, t), u) = Cat(s, Cat(t, u))
<1>1. ASSUME NEW s \in Seq(Int), NEW t \in Seq(Int)
      PROVE  Cat(s, t) \in Seq(Int) /\ Len(Cat(s, t)) = Len(s) + Len(t)
    BY ConcatAt, Zenon DEF Cat
<1>2. ASSUME NEW s \in Seq(Int), NEW t \in Seq(Int), NEW u \in Seq(Int)
      PROVE  Cat(Cat(s, t), u) = Cat(s, Cat(t, u))
    BY Associative, Zenon DEF Cat
<1>3. QED
    BY <1>1, <1>2, Zenon

\* A splice within the middle of three parts, in these terms.
LEMMA SpliceCat ==
  \A u, v, w, g \in Seq(Int) : \A i \in 0..Len(v) : \A j \in 1..(Len(v) + 1) :
    Spliced(Cat(Cat(u, v), w), Len(u) + i, g, Len(u) + j)
      = Cat(Cat(u, Spliced(v, i, g, j)), w)
<1>1. \A u, v, w, g \in Seq(Int) : \A i \in 0..Len(v) : \A j \in 1..(Len(v) + 1) :
        Spliced((u \o v) \o w, Len(u) + i, g, Len(u) + j)
          = (u \o Spliced(v, i, g, j)) \o w
    BY SpliceMiddle, Zenon
<1>2. QED
    BY <1>1, Zenon DEF Cat

\* A line in these terms.
LEMMA LineCat ==
  ASSUME NEW body \in Seq(Int), NEW field \in Seq(Int), NEW x \in Int
  PROVE  Framed(body, field, x) = Cat(Cat(Cat(<<Space>>, body), field), <<x>>)
BY Zenon DEF Framed, Cat

\* A splice makes a sequence.
LEMMA SplicedSeq ==
  ASSUME NEW s \in Seq(Int), NEW g \in Seq(Int),
         NEW i \in 0..Len(s), NEW j \in 1..(Len(s) + 1)
  PROVE  Spliced(s, i, g, j) \in Seq(Int)
BY SplicedType, Zenon

\* A splice within what is summed is one within the line.
LEMMA LineSplicedBody ==
  ASSUME NEW body \in Seq(Int), NEW field \in Seq(Int), NEW x \in Int, NEW g \in Seq(Int),
         NEW i \in 0..Len(body), NEW j \in 1..(Len(body) + 1)
  PROVE  Spliced(Framed(body, field, x), 1 + i, g, 1 + j)
           = Framed(Spliced(body, i, g, j), field, x)
<1>1. PICK o \in Seq(Int), e \in Seq(Int) : o = <<Space>> /\ Len(o) = 1 /\ e = <<x>>
  <2>1. Space \in Int
      BY ByteFacts
  <2>2. /\ <<Space>> \in Seq(Int) /\ Len(<<Space>>) = 1 /\ <<x>> \in Seq(Int)
      BY <2>1, OneByte, Zenon
  <2>3. QED
      BY <2>2, Zenon
<1>2. Len(o) = 1
    BY <1>1, Zenon
<1>3. ASSUME NEW y \in Seq(Int) PROVE Framed(y, field, x) = Cat(Cat(o, y), Cat(field, e))
  <2>1. Framed(y, field, x) = Cat(Cat(Cat(o, y), field), e)
      BY <1>1, LineCat, Zenon
  <2>2. Cat(o, y) \in Seq(Int)
      BY CatFacts
  <2>3. Cat(Cat(Cat(o, y), field), e) = Cat(Cat(o, y), Cat(field, e))
      BY <2>2, CatFacts
  <2>4. QED
      BY <2>1, <2>3, Zenon
<1>4. Cat(field, e) \in Seq(Int)
    BY CatFacts
<1>5. Spliced(Cat(Cat(o, body), Cat(field, e)), Len(o) + i, g, Len(o) + j)
        = Cat(Cat(o, Spliced(body, i, g, j)), Cat(field, e))
    BY <1>4, SpliceCat
<1>6. Spliced(body, i, g, j) \in Seq(Int)
    BY SplicedSeq
<1>7. QED
    BY <1>2, <1>3, <1>5, <1>6

\* A splice within the checksum is one within the line.
LEMMA LineSplicedField ==
  ASSUME NEW body \in Seq(Int), NEW field \in Seq(Int), NEW x \in Int, NEW g \in Seq(Int),
         NEW i \in 0..Len(field), NEW j \in 1..(Len(field) + 1)
  PROVE  Spliced(Framed(body, field, x), 1 + Len(body) + i, g, 1 + Len(body) + j)
           = Framed(body, Spliced(field, i, g, j), x)
<1>1. PICK o \in Seq(Int), e \in Seq(Int) : o = <<Space>> /\ Len(o) = 1 /\ e = <<x>>
  <2>1. Space \in Int
      BY ByteFacts
  <2>2. /\ <<Space>> \in Seq(Int) /\ Len(<<Space>>) = 1 /\ <<x>> \in Seq(Int)
      BY <2>1, OneByte, Zenon
  <2>3. QED
      BY <2>2, Zenon
<1>2. Len(o) = 1
    BY <1>1, Zenon
<1>3. ASSUME NEW y \in Seq(Int) PROVE Framed(body, y, x) = Cat(Cat(Cat(o, body), y), e)
    BY <1>1, LineCat, Zenon
<1>4. Cat(o, body) \in Seq(Int) /\ Len(Cat(o, body)) = 1 + Len(body)
  <2>1. Cat(o, body) \in Seq(Int) /\ Len(Cat(o, body)) = Len(o) + Len(body)
      BY CatFacts, Zenon
  <2>2. QED
      BY <1>2, <2>1, Zenon
<1>5. Spliced(Cat(Cat(Cat(o, body), field), e),
              Len(Cat(o, body)) + i, g, Len(Cat(o, body)) + j)
        = Cat(Cat(Cat(o, body), Spliced(field, i, g, j)), e)
  <2>1. PICK a \in Seq(Int) : a = Cat(o, body)
      BY <1>4, Zenon
  <2>2. Spliced(Cat(Cat(a, field), e), Len(a) + i, g, Len(a) + j)
          = Cat(Cat(a, Spliced(field, i, g, j)), e)
      BY SpliceCat
  <2>3. QED
      BY <2>1, <2>2, Zenon
<1>6. Spliced(field, i, g, j) \in Seq(Int)
    BY SplicedSeq
<1>7. QED
    BY <1>3, <1>4, <1>5, <1>6

-----------------------------------------------------------------------------
\* Frames: what is heard of a line

\* A line that is closed, and whose checksum has no semicolon, is read right.
LEMMA ClosedRight ==
  ASSUME NEW b \in Broadcasts, NEW f \in Seq(Int), \A i \in 1..Len(f) : f[i] # Semi,
         NEW raw, Content(raw) = Framed(Body(b), f, Semi)
  PROVE  /\ Terminated(Fields(raw)) /\ Counted(Fields(raw))
         /\ \A i \in BlockNumbers(Fields(raw)) :
              /\ IsNumber(ChannelId(Fields(raw), i))
              /\ Number(ChannelId(Fields(raw), i)) \in Channels
         /\ Says(raw) = Meaning(b)
<1>1. PICK n \in Nat : n = Len(b.readings)
    BY BroadcastFacts
<1>2. Body(b) \in Seq(Int)
    BY <1>1, BodyAt, Zenon
<1>3. Semi \in Int
    BY ByteFacts
<1>4. Tail(Framed(Body(b), f, Semi)) = (Body(b) \o f) \o <<Semi>>
    BY <1>2, <1>3, LineTaken, Zenon
<1>5. FieldsAre(b, n, Split((Body(b) \o f) \o <<Semi>>))
    BY <1>1, FieldsOfLine, Zenon
<1>6. FieldsAre(b, n, Fields(raw))
    BY <1>4, <1>5, Zenon DEF Fields
<1>7. QED
    BY <1>1, <1>6, ReadRight, Zenon

\* What is sent, and that it is taken for what it is.
LEMMA WireFacts ==
  ASSUME NEW b \in Broadcasts, NEW n \in Nat, n = Len(b.readings)
  PROVE  \E f \in Seq(Int) :
           /\ f = Checksum(Compute(Body(b))) /\ Len(f) = HexLen
           /\ \A i \in 1..Len(f) : f[i] # Semi /\ f[i] # Space /\ f[i] # Return
           /\ Wire(b) = Framed(Body(b), f, Semi)
           /\ Body(b) \in Seq(Int) /\ Len(Body(b)) = 5 * n + 4
<1>1. Body(b) \in Seq(Int) /\ Len(Body(b)) = 5 * n + 4
    BY BodyAt, Zenon
<1>2. Compute(Body(b)) \in Nat
    BY <1>1, ComputeType
<1>3. PICK f \in Seq(Int) :
        /\ f = Checksum(Compute(Body(b))) /\ Len(f) = HexLen
        /\ \A i \in 1..HexLen : f[i] \in Digits
    BY <1>2, ChecksumType, Zenon
<1>4. \A d \in Digits : d # Semi /\ d # Space /\ d # Return
    BY ByteFacts
<1>5. Wire(b) = Framed(Body(b), f, Semi)
    BY <1>3, Zenon DEF Wire
<1>6. \A i \in 1..Len(f) : f[i] # Semi /\ f[i] # Space /\ f[i] # Return
    BY <1>3, <1>4, Zenon
<1>7. QED
    BY <1>1, <1>3, <1>5, <1>6, Zenon

\* A line as it was sent is taken, and read right.
LEMMA IntactHeard ==
  ASSUME NEW b \in Broadcasts, NEW raw, Content(raw) = Wire(b)
  PROVE  Accepted(raw) /\ Says(raw) = Meaning(b)
<1>1. PICK n \in Nat : n = Len(b.readings)
    BY BroadcastFacts
<1>2. PICK f \in Seq(Int) :
        /\ f = Checksum(Compute(Body(b))) /\ Len(f) = HexLen
        /\ \A i \in 1..Len(f) : f[i] # Semi /\ f[i] # Space /\ f[i] # Return
        /\ Wire(b) = Framed(Body(b), f, Semi)
        /\ Body(b) \in Seq(Int) /\ Len(Body(b)) = 5 * n + 4
    BY <1>1, WireFacts, Zenon
<1>3. /\ \A i \in 1..Len(f) : f[i] # Semi
      /\ Content(raw) = Framed(Body(b), f, Semi)
    BY <1>2, Zenon
<1>4. /\ Terminated(Fields(raw)) /\ Counted(Fields(raw))
      /\ \A i \in BlockNumbers(Fields(raw)) :
           /\ IsNumber(ChannelId(Fields(raw), i))
           /\ Number(ChannelId(Fields(raw), i)) \in Channels
      /\ Says(raw) = Meaning(b)
    BY <1>3, ClosedRight, Zenon
<1>5. Semi \in Int /\ Body(b) \in Seq(Int)
    BY <1>2, ByteFacts
<1>6. Started(Framed(Body(b), f, Semi))
    BY <1>5, LineTaken, Zenon
<1>7. Verified(Framed(Body(b), Checksum(Compute(Body(b))), Semi))
    BY <1>5, VerifiedLine, Zenon
<1>8. Started(Content(raw)) /\ Verified(Content(raw))
    BY <1>2, <1>3, <1>6, <1>7, Zenon
<1>9. QED
    BY <1>4, <1>8, Zenon DEF Accepted

\* Every byte of a body is one, and none is the end of a line.
LEMMA BodyBytes ==
  ASSUME NEW b \in Broadcasts, NEW n \in Nat, n = Len(b.readings),
         NEW i \in 1..(5 * n + 4)
  PROVE  Body(b)[i] \in 1..Semi
<1>1. /\ Body(b)[1] = Digit(b.date) /\ Body(b)[2] = Semi
      /\ Body(b)[3] = Digit(n) /\ Body(b)[4] = Semi
      /\ \A k \in 1..n :
           /\ Body(b)[5 * k] = Digit(b.readings[k].channel)
           /\ Body(b)[5 * k + 1] = Semi
           /\ Body(b)[5 * k + 2] = Space
           /\ Body(b)[5 * k + 3] = Digit(b.readings[k].value)
           /\ Body(b)[5 * k + 4] = Semi
    BY BodyAt, Zenon
<1>2. Space \in 1..Semi /\ Semi \in 1..Semi /\ \A d \in 0..(Base - 1) : Digit(d) \in 1..Semi
    BY ByteFacts
<1>3. /\ Digit(b.date) \in 1..Semi /\ Digit(n) \in 1..Semi
      /\ \A k \in 1..n : /\ Digit(b.readings[k].channel) \in 1..Semi
                         /\ Digit(b.readings[k].value) \in 1..Semi
    BY <1>2, BroadcastFacts, Zenon
<1>4. CASE i \in 1..4
  <2>1. i = 1 \/ i = 2 \/ i = 3 \/ i = 4
      BY <1>4
  <2>2. QED
      BY <1>1, <1>2, <1>3, <2>1, Zenon
<1>5. CASE i > 4
  <2>1. PICK k \in 1..n : i - 5 * k \in 0..4
    <3>1. i \div 5 \in 1..n /\ i - 5 * (i \div 5) \in 0..4
        BY <1>5
    <3>2. QED
        BY <3>1
  <2>2. i = 5 * k \/ i = 5 * k + 1 \/ i = 5 * k + 2 \/ i = 5 * k + 3 \/ i = 5 * k + 4
      BY <2>1
  <2>3. /\ Body(b)[5 * k] \in 1..Semi /\ Body(b)[5 * k + 1] \in 1..Semi
        /\ Body(b)[5 * k + 2] \in 1..Semi /\ Body(b)[5 * k + 3] \in 1..Semi
        /\ Body(b)[5 * k + 4] \in 1..Semi
      BY <1>1, <1>2, <1>3, Zenon
  <2>4. QED
      BY <2>2, <2>3, Zenon
<1>6. QED
    BY <1>4, <1>5

\* A byte changed, lost or too many in what is summed shows in the sum.
LEMMA BodyChanged ==
  ASSUME NEW s \in Seq(Int), \A k \in 1..Len(s) : s[k] \in 1..Other,
         NEW h \in 0..Len(s), NEW j \in (h + 1)..(Len(s) + 1), j - h < 3,
         NEW g \in Seq(Int), NEW x \in 1..Other, g = <<>> \/ g = <<x>>,
         g = <<>> => j # h + 1,
         Compute(Spliced(s, h, g, j)) = Compute(s)
  PROVE  Spliced(s, h, g, j) = s
<1>1. PICK d \in Int, a \in Int, c \in Int, m \in Int :
        /\ d = Sum(Spliced(s, h, g, j)) /\ a = Sum(s)
        /\ c = Sum(g) /\ m = Sum(SubSeq(s, h + 1, j - 1))
        /\ d - a = c - m
  <2>1. /\ Sum(Spliced(s, h, g, j)) \in Int
        /\ Sum(Spliced(s, h, g, j)) - Sum(s) = Sum(g) - Sum(SubSeq(s, h + 1, j - 1))
      BY SumSpliced, Zenon
  <2>2. SubSeq(s, h + 1, j - 1) \in Seq(Int)
    <3>1. h + 1 \in 1..(Len(s) + 1) /\ j - 1 \in ((h + 1) - 1)..Len(s)
        OBVIOUS
    <3>2. QED
        BY <3>1, SubSeqAt, Zenon
  <2>3. Sum(s) \in Int /\ Sum(g) \in Int /\ Sum(SubSeq(s, h + 1, j - 1)) \in Int
      BY <2>2, SumType, Zenon
  <2>4. QED
      BY <2>1, <2>3, Zenon
<1>2. j = h + 1 \/ (j = h + 2 /\ h + 1 \in 1..Len(s))
    OBVIOUS
<1>3. /\ j = h + 1 => m = 0
      /\ j = h + 2 => m = s[h + 1] /\ s[h + 1] \in 1..Other
  <2>1. CASE j = h + 1
    <3>1. SubSeq(s, h + 1, j - 1) = <<>>
        BY <2>1, SubSeqEmpty
    <3>2. m = 0
        BY <1>1, <3>1, SumShort, Zenon
    <3>3. QED
        BY <2>1, <3>2
  <2>2. CASE j = h + 2
    <3>1. h + 1 \in 1..Len(s) /\ j - 1 = h + 1
        BY <2>2
    <3>2. SubSeq(s, h + 1, j - 1) = <<s[h + 1]>>
        BY <3>1, SubSeqOne
    <3>3. s[h + 1] \in Int /\ s[h + 1] \in 1..Other
        BY <3>1
    <3>4. m = s[h + 1]
        BY <1>1, <3>2, <3>3, SumShort, Zenon
    <3>5. QED
        BY <2>2, <3>3, <3>4
  <2>3. QED
      BY <1>2, <2>1, <2>2
<1>4. (g = <<>> => c = 0) /\ (g = <<x>> => c = x)
  <2>1. x \in Int
      OBVIOUS
  <2>2. QED
      BY <1>1, <2>1, SumShort, Zenon
<1>5. d - a < Modulus /\ a - d < Modulus
  <2>1. /\ c \in 0..Other /\ m \in 0..Other /\ Other \in Int
    <3>1. Other \in Int /\ 0 < Other
        BY ByteFacts
    <3>2. c \in 0..Other
        BY <1>4, <3>1
    <3>3. m \in 0..Other
        BY <1>2, <1>3, <3>1
    <3>4. QED
        BY <3>1, <3>2, <3>3
  <2>2. Other < Modulus /\ Modulus \in Int
      BY ModulusFacts
  <2>3. d - a = c - m
      BY <1>1, Zenon
  <2>4. QED
      BY <2>1, <2>2, <2>3
<1>6. d = a
  <2>1. d % Modulus = a % Modulus
      BY <1>1, Zenon DEF Compute
  <2>2. Modulus \in Nat \ {0}
      BY ModulusFacts
  <2>3. QED
      BY <1>5, <2>1, <2>2, SameRemainder, Zenon
<1>7. c = m
    BY <1>1, <1>6, SMTT(30)
<1>8. j = h + 2 /\ g = <<x>> /\ x = s[h + 1]
    BY <1>2, <1>3, <1>4, <1>7
<1>9. PICK i \in 1..Len(s) : i = h + 1 /\ h = i - 1 /\ j = i + 1
  <2>1. h + 1 \in 1..Len(s) /\ h = (h + 1) - 1 /\ j = (h + 1) + 1
      BY <1>8
  <2>2. QED
      BY <2>1, Zenon
<1>10. Spliced(s, i - 1, <<s[i]>>, i + 1) = s
    BY SplicedSame, Zenon
<1>11. QED
    BY <1>8, <1>9, <1>10, Zenon

\* The content of a line is the line.
LEMMA LineContent ==
  ASSUME NEW body \in Seq(Int), NEW f \in Seq(Int), NEW x \in Int, x # Return
  PROVE  /\ Content(Framed(body, f, x) \o <<Return>>) = Framed(body, f, x)
         /\ Framed(body, f, x) \in Seq(Int)
<1>1. PICK s \in Seq(Int) :
        /\ s = Framed(body, f, x) /\ Len(s) = Len(body) + Len(f) + 2
        /\ s[Len(body) + Len(f) + 2] = x
  <2>1. /\ Framed(body, f, x) \in Seq(Int)
        /\ Len(Framed(body, f, x)) = Len(body) + Len(f) + 2
        /\ Framed(body, f, x)[1] = Space
        /\ \A k \in 1..Len(body) : Framed(body, f, x)[k + 1] = body[k]
        /\ \A k \in 1..Len(f) : Framed(body, f, x)[Len(body) + 1 + k] = f[k]
        /\ Framed(body, f, x)[Len(body) + Len(f) + 2] = x
      BY LineAt, ZenonT(60)
  <2>2. QED
      BY <2>1, Zenon
<1>2. PICK n \in Nat : n = Len(s) /\ n > 0 /\ s[n] # Return
  <2>1. /\ Len(s) = Len(body) + Len(f) + 2 /\ s[Len(body) + Len(f) + 2] = x
      BY <1>1, Zenon
  <2>2. Len(body) + Len(f) + 2 \in Nat /\ Len(body) + Len(f) + 2 > 0
      OBVIOUS
  <2>3. QED
      BY <2>1, <2>2, Zenon
<1>3. Content(s \o <<Return>>) = s
    BY <1>2, ContentOf, Zenon
<1>4. QED
    BY <1>1, <1>3, Zenon

\* What is made of a line is what the analyser said.
Right(b, raw) == Accepted(raw) => Says(raw) = Meaning(b)

\* A splice in what is summed.
LEMMA HeardBody ==
  ASSUME NEW b \in Broadcasts, NEW n \in Nat, n = Len(b.readings),
         NEW h \in 0..(5 * n + 4), NEW j \in (h + 1)..(5 * n + 5), j - h < 3,
         NEW g \in Seq(Int), NEW x \in 1..Other, g = <<>> \/ g = <<x>>,
         g = <<>> => j # h + 1
  PROVE  Right(b, Spliced(Wire(b), 1 + h, g, 1 + j) \o <<Return>>)
<1>1. PICK f \in Seq(Int) :
        /\ f = Checksum(Compute(Body(b))) /\ Len(f) = HexLen
        /\ \A i \in 1..Len(f) : f[i] # Semi /\ f[i] # Space /\ f[i] # Return
        /\ Wire(b) = Framed(Body(b), f, Semi)
        /\ Body(b) \in Seq(Int) /\ Len(Body(b)) = 5 * n + 4
    BY WireFacts, Zenon
<1>2. PICK s \in Seq(Int) : /\ s = Body(b) /\ Len(s) = 5 * n + 4
                            /\ \A k \in 1..(5 * n + 4) : s[k] \in 1..Semi
    BY <1>1, BodyBytes, Zenon
<1>3. Len(s) = 5 * n + 4 /\ \A k \in 1..(5 * n + 4) : s[k] \in 1..Semi
    BY <1>2, Zenon
<1>4. h \in 0..Len(s) /\ j \in 1..(Len(s) + 1) /\ j \in (h + 1)..(Len(s) + 1)
    BY <1>3
<1>5. Semi \in Int /\ Semi # Return
    BY ByteFacts
<1>6. Spliced(Framed(s, f, Semi), 1 + h, g, 1 + j) = Framed(Spliced(s, h, g, j), f, Semi)
    BY <1>4, <1>5, LineSplicedBody
<1>7. PICK t \in Seq(Int) : t = Spliced(s, h, g, j)
    BY <1>4, SplicedSeq, Zenon
<1>8. /\ Content(Framed(t, f, Semi) \o <<Return>>) = Framed(t, f, Semi)
    BY <1>5, LineContent, Zenon
<1>9. Verified(Framed(t, Checksum(Compute(s)), Semi)) <=> Compute(t) = Compute(s)
    BY <1>5, VerifiedLine, Zenon
<1>10. Compute(t) = Compute(s) => t = s
  <2>1. \A k \in 1..Len(s) : s[k] \in 1..Other
    <3>1. Semi \in Int /\ Other \in Int /\ Semi < Other
        BY ByteFacts
    <3>2. 1..Semi \subseteq 1..Other
        BY <3>1
    <3>3. QED
        BY <1>3, <3>2, Zenon
  <2>2. ASSUME Compute(Spliced(s, h, g, j)) = Compute(s) PROVE Spliced(s, h, g, j) = s
      BY <1>4, <2>1, <2>2, BodyChanged
  <2>3. QED
      BY <1>7, <2>2, Zenon
<1>11. f = Checksum(Compute(s)) /\ Wire(b) = Framed(s, f, Semi)
    BY <1>1, <1>2, Zenon
<1>12. CASE t = s
  <2>1. Content(Framed(t, f, Semi) \o <<Return>>) = Wire(b)
      BY <1>8, <1>11, <1>12, Zenon
  <2>2. Right(b, Framed(t, f, Semi) \o <<Return>>)
      BY <2>1, IntactHeard, Zenon DEF Right
  <2>3. QED
      BY <1>6, <1>7, <1>11, <2>2, Zenon
<1>13. CASE t # s
  <2>1. ~Verified(Content(Framed(t, f, Semi) \o <<Return>>))
      BY <1>8, <1>9, <1>10, <1>11, <1>13, Zenon
  <2>2. Right(b, Framed(t, f, Semi) \o <<Return>>)
      BY <2>1, Zenon DEF Right, Accepted
  <2>3. QED
      BY <1>6, <1>7, <1>11, <2>2, Zenon
<1>14. QED
    BY <1>12, <1>13, Zenon

\* A splice in the checksum.
LEMMA HeardField ==
  ASSUME NEW b \in Broadcasts, NEW n \in Nat, n = Len(b.readings),
         NEW h \in 0..HexLen, NEW j \in (h + 1)..(HexLen + 1), j - h < 3,
         NEW g \in Seq(Int), NEW x \in 1..Other, g = <<>> \/ g = <<x>>,
         j = h + 1 => h > 0
  PROVE  Right(b, Spliced(Wire(b), 1 + (5 * n + 4) + h, g, 1 + (5 * n + 4) + j)
                    \o <<Return>>)
<1>1. PICK f \in Seq(Int) :
        /\ f = Checksum(Compute(Body(b))) /\ Len(f) = HexLen
        /\ \A i \in 1..Len(f) : f[i] # Semi /\ f[i] # Space /\ f[i] # Return
        /\ Wire(b) = Framed(Body(b), f, Semi)
        /\ Body(b) \in Seq(Int) /\ Len(Body(b)) = 5 * n + 4
    BY WireFacts, Zenon
<1>2. PICK s \in Seq(Int) : s = Body(b) /\ Len(s) = 5 * n + 4
    BY <1>1, Zenon
<1>3. /\ Len(s) = 5 * n + 4 /\ Len(f) = HexLen /\ HexLen \in Nat
      /\ \A i \in 1..HexLen : f[i] # Semi
    BY <1>1, <1>2, BaseFacts, Zenon
<1>4. h \in 0..Len(f) /\ j \in 1..(Len(f) + 1)
    BY <1>3
<1>5. Semi \in Int /\ Semi # Return
    BY ByteFacts
<1>6. Spliced(Framed(s, f, Semi), 1 + Len(s) + h, g, 1 + Len(s) + j)
        = Framed(s, Spliced(f, h, g, j), Semi)
    BY <1>4, <1>5, LineSplicedField
<1>7. PICK t \in Seq(Int) :
        /\ t = Spliced(f, h, g, j)
        /\ Len(t) = h + Len(g) + (Len(f) + 1 - j)
        /\ \A k \in 1..h : t[k] = f[k]
        /\ \A k \in 1..Len(g) : t[h + k] = g[k]
        /\ \A k \in 1..(Len(f) + 1 - j) : t[h + Len(g) + k] = f[j + k - 1]
    BY <1>4, SplicedType, ZenonT(60)
<1>8. Content(Framed(s, t, Semi) \o <<Return>>) = Framed(s, t, Semi)
    BY <1>5, LineContent, Zenon
<1>9. Right(b, Framed(s, t, Semi) \o <<Return>>)
  <2>1. CASE \A i \in 1..Len(t) : t[i] # Semi
    <3>1. Content(Framed(s, t, Semi) \o <<Return>>) = Framed(Body(b), t, Semi)
        BY <1>2, <1>8, Zenon
    <3>2. QED
        BY <2>1, <3>1, ClosedRight, Zenon DEF Right
  <2>2. ASSUME NEW p \in 1..Len(t), t[p] = Semi
        PROVE  Right(b, Framed(s, t, Semi) \o <<Return>>)
    <3>1. /\ Len(t) = h + Len(g) + (HexLen + 1 - j)
          /\ \A k \in 1..h : t[k] = f[k]
          /\ \A k \in 1..(HexLen + 1 - j) : t[h + Len(g) + k] = f[j + k - 1]
        BY <1>3, <1>7, Zenon
    <3>2. Len(g) \in 0..1
        OBVIOUS
    <3>3. h < p
        BY <1>3, <2>2, <3>1
    <3>4. p <= h + Len(g)
      <4>1. SUFFICES ASSUME p > h + Len(g) PROVE FALSE
          BY <3>2
      <4>2. PICK k \in 1..(HexLen + 1 - j) : p = h + Len(g) + k
        <5>1. PICK q \in 0..1, l \in Nat : q = Len(g) /\ l = HexLen
            BY <1>3, <3>2, Zenon
        <5>2. p \in 1..(h + q + (l + 1 - j)) /\ p > h + q
            BY <3>1, <4>1, <5>1, Zenon
        <5>3. p - (h + q) \in 1..(l + 1 - j) /\ p = h + q + (p - (h + q))
            BY <5>2
        <5>4. QED
            BY <5>1, <5>3, Zenon
      <4>3. t[p] = f[j + k - 1]
          BY <3>1, <4>2, Zenon
      <4>4. j + k - 1 \in 1..HexLen
          BY <1>3
      <4>5. QED
          BY <1>3, <2>2, <4>3, <4>4, Zenon
    <3>5. p = h + 1 /\ Len(g) = 1
      <4>1. PICK q \in 0..1 : q = Len(g)
          BY <3>2
      <4>2. p \in Int /\ h < p /\ p <= h + q
          BY <3>3, <3>4, <4>1
      <4>3. p = h + 1 /\ q = 1
          BY <4>2
      <4>4. QED
          BY <4>1, <4>3, Zenon
    <3>6. PICK c \in Seq(Int) :
            /\ c = Framed(s, t, Semi) /\ Len(c) = Len(s) + Len(t) + 2
            /\ \A k \in 1..Len(t) : c[Len(s) + 1 + k] = t[k]
      <4>1. /\ Framed(s, t, Semi) \in Seq(Int)
            /\ Len(Framed(s, t, Semi)) = Len(s) + Len(t) + 2
            /\ Framed(s, t, Semi)[1] = Space
            /\ \A k \in 1..Len(s) : Framed(s, t, Semi)[k + 1] = s[k]
            /\ \A k \in 1..Len(t) : Framed(s, t, Semi)[Len(s) + 1 + k] = t[k]
            /\ Framed(s, t, Semi)[Len(s) + Len(t) + 2] = Semi
          BY <1>5, LineAt, ZenonT(60)
      <4>2. QED
          BY <4>1, Zenon
    <3>7. Len(c) = Len(s) + Len(t) + 2 /\ c[Len(s) + 1 + p] = Semi
        BY <2>2, <3>6, Zenon
    <3>8. /\ HexLen < Len(c)
          /\ Len(s) + 1 + p \in (Len(c) - HexLen)..(Len(c) - 1)
      <4>1. PICK d \in Nat, e \in Nat : d = Len(s) /\ e = Len(t)
          OBVIOUS
      <4>2. Len(c) = d + e + 2 /\ e = h + 1 + (HexLen + 1 - j)
          BY <3>1, <3>5, <3>7, <4>1, Zenon
      <4>3. HexLen < d + e + 2 /\ d + 1 + p \in (d + e + 2 - HexLen)..(d + e + 2 - 1)
        <5>1. /\ j \in Int /\ h \in Int /\ h >= 0 /\ HexLen \in Nat /\ j <= HexLen + 1
              /\ j = h + 1 \/ j = h + 2
              /\ j = h + 1 => h > 0
            BY <1>3
        <5>2. QED
            BY <3>5, <4>1, <4>2, <5>1, SMTT(30)
      <4>4. Len(s) = d /\ Len(c) = d + e + 2
          BY <4>1, <4>2, Zenon
      <4>5. QED
          BY <4>3, <4>4, BaseFacts
    <3>9. ~Verified(c)
        BY <3>7, <3>8, SemiInChecksum, Zenon
    <3>10. QED
        BY <1>8, <3>6, <3>9, Zenon DEF Right, Accepted
  <2>3. QED
      BY <2>1, <2>2, Zenon
<1>10. QED
    BY <1>1, <1>2, <1>3, <1>6, <1>7, <1>9, Zenon

\* What is sent, byte by byte.
LEMMA WireAt ==
  ASSUME NEW b \in Broadcasts, NEW n \in Nat, n = Len(b.readings)
  PROVE  /\ Wire(b) \in Seq(Int) /\ Len(Wire(b)) = 5 * n + 6 + HexLen
         /\ Wire(b)[1] = Space
         /\ \A k \in 1..(5 * n + 4) : Wire(b)[k + 1] = Body(b)[k]
         /\ \A k \in 1..HexLen : /\ Wire(b)[5 * n + 5 + k] # Semi
                                 /\ Wire(b)[5 * n + 5 + k] # Space
                                 /\ Wire(b)[5 * n + 5 + k] # Return
         /\ Wire(b)[5 * n + 6 + HexLen] = Semi
<1>1. PICK f \in Seq(Int) :
        /\ f = Checksum(Compute(Body(b))) /\ Len(f) = HexLen
        /\ \A i \in 1..Len(f) : f[i] # Semi /\ f[i] # Space /\ f[i] # Return
        /\ Wire(b) = Framed(Body(b), f, Semi)
        /\ Body(b) \in Seq(Int) /\ Len(Body(b)) = 5 * n + 4
    BY WireFacts, Zenon
<1>2. PICK s \in Seq(Int) : s = Body(b) /\ Len(s) = 5 * n + 4
    BY <1>1, Zenon
<1>3. Semi \in Int
    BY ByteFacts
<1>4. PICK w \in Seq(Int) :
        /\ w = Wire(b) /\ Len(w) = Len(s) + Len(f) + 2
        /\ w[1] = Space
        /\ \A k \in 1..Len(s) : w[k + 1] = s[k]
        /\ \A k \in 1..Len(f) : w[Len(s) + 1 + k] = f[k]
        /\ w[Len(s) + Len(f) + 2] = Semi
  <2>1. /\ Framed(s, f, Semi) \in Seq(Int)
        /\ Len(Framed(s, f, Semi)) = Len(s) + Len(f) + 2
        /\ Framed(s, f, Semi)[1] = Space
        /\ \A k \in 1..Len(s) : Framed(s, f, Semi)[k + 1] = s[k]
        /\ \A k \in 1..Len(f) : Framed(s, f, Semi)[Len(s) + 1 + k] = f[k]
        /\ Framed(s, f, Semi)[Len(s) + Len(f) + 2] = Semi
      BY <1>3, LineAt, ZenonT(60)
  <2>2. Framed(s, f, Semi) = Wire(b)
      BY <1>1, <1>2, Zenon
  <2>3. QED
      BY <2>1, <2>2, Zenon
<1>5. PICK l \in Nat : l = Len(s) /\ l = 5 * n + 4
    BY <1>2
<1>6. /\ Len(w) = l + HexLen + 2 /\ w[1] = Space
      /\ \A k \in 1..l : w[k + 1] = s[k]
      /\ \A k \in 1..HexLen : w[l + 1 + k] = f[k]
      /\ \A k \in 1..HexLen : f[k] # Semi /\ f[k] # Space /\ f[k] # Return
      /\ w[l + HexLen + 2] = Semi
    BY <1>1, <1>4, <1>5, Zenon
<1>7. /\ l = 5 * n + 4 /\ l + HexLen + 2 = 5 * n + 6 + HexLen /\ l + 1 = 5 * n + 5
    BY <1>5, BaseFacts
<1>8. /\ \A k \in 1..HexLen : /\ w[l + 1 + k] # Semi
                              /\ w[l + 1 + k] # Space
                              /\ w[l + 1 + k] # Return
    BY <1>6, ZenonT(60)
<1>9. QED
    BY <1>2, <1>4, <1>6, <1>7, <1>8, ZenonT(60)

\* Where the spaces are in what is summed: before the values.
LEMMA BodySpaces ==
  ASSUME NEW b \in Broadcasts, NEW n \in Nat, n = Len(b.readings),
         NEW i \in 1..(5 * n + 4), Body(b)[i] = Space
  PROVE  \E k \in 1..n : i = 5 * k + 2
<1>1. /\ Body(b)[1] = Digit(b.date) /\ Body(b)[2] = Semi
      /\ Body(b)[3] = Digit(n) /\ Body(b)[4] = Semi
      /\ \A k \in 1..n :
           /\ Body(b)[5 * k] = Digit(b.readings[k].channel)
           /\ Body(b)[5 * k + 1] = Semi
           /\ Body(b)[5 * k + 2] = Space
           /\ Body(b)[5 * k + 3] = Digit(b.readings[k].value)
           /\ Body(b)[5 * k + 4] = Semi
    BY BodyAt, Zenon
<1>2. Space # Semi /\ \A d \in 0..(Base - 1) : Digit(d) # Space
    BY ByteFacts
<1>3. /\ Digit(b.date) # Space /\ Digit(n) # Space
      /\ \A k \in 1..n :
           Digit(b.readings[k].channel) # Space /\ Digit(b.readings[k].value) # Space
    BY <1>2, BroadcastFacts, Zenon
<1>4. ~(i \in 1..4)
  <2>1. i \in 1..4 => i = 1 \/ i = 2 \/ i = 3 \/ i = 4
      OBVIOUS
  <2>2. QED
      BY <1>1, <1>2, <1>3, <2>1, Zenon
<1>5. PICK k \in 1..n : i - 5 * k \in 0..4
  <2>1. i \div 5 \in 1..n /\ i - 5 * (i \div 5) \in 0..4
      BY <1>4
  <2>2. QED
      BY <2>1
<1>6. i = 5 * k \/ i = 5 * k + 1 \/ i = 5 * k + 2 \/ i = 5 * k + 3 \/ i = 5 * k + 4
    BY <1>5
<1>7. QED
    BY <1>1, <1>2, <1>3, <1>6, Zenon

\* The line still ends as it did: its content is the line.
LEMMA ContentClosed ==
  ASSUME NEW s \in Seq(Int), Len(s) > 0, s[Len(s)] = Semi
  PROVE  Content(s \o <<Return>>) = s
<1>1. PICK n \in Nat : n = Len(s) /\ n > 0 /\ s[n] # Return
  <2>1. Semi # Return
      BY ByteFacts
  <2>2. Len(s) \in Nat
      OBVIOUS
  <2>3. QED
      BY <2>1, <2>2, Zenon
<1>2. QED
    BY <1>1, ContentOf, Zenon

\* A line that does not begin with a space is no frame.
LEMMA NotStarted ==
  ASSUME NEW b, NEW s \in Seq(Int), Len(s) > 0, s[Len(s)] = Semi, s[1] # Space
  PROVE  Right(b, s \o <<Return>>)
<1>1. Content(s \o <<Return>>) = s
    BY ContentClosed, Zenon
<1>2. Head(s) = s[1]
    OBVIOUS
<1>3. ~Started(s)
    BY <1>2 DEF Started
<1>4. QED
    BY <1>1, <1>3, Zenon DEF Right, Accepted

\* A splice at the start of the line.
LEMMA HeardFirst ==
  ASSUME NEW b \in Broadcasts, NEW n \in Nat, n = Len(b.readings),
         NEW j \in 1..2, NEW g \in Seq(Int), NEW x \in 1..Other, g = <<>> \/ g = <<x>>,
         g = <<>> => j # 1
  PROVE  Right(b, Spliced(Wire(b), 0, g, j) \o <<Return>>)
<1>1. PICK w \in Seq(Int), m \in Nat :
        /\ w = Wire(b) /\ m = 5 * n + 6 + HexLen /\ Len(w) = m
        /\ w[1] = Space
        /\ \A k \in 1..(5 * n + 4) : w[k + 1] = Body(b)[k]
        /\ w[m] = Semi
  <2>1. 5 * n + 6 + HexLen \in Nat
      BY BaseFacts
  <2>2. /\ Wire(b) \in Seq(Int) /\ Len(Wire(b)) = 5 * n + 6 + HexLen
        /\ Wire(b)[1] = Space
        /\ \A k \in 1..(5 * n + 4) : Wire(b)[k + 1] = Body(b)[k]
        /\ \A k \in 1..HexLen : /\ Wire(b)[5 * n + 5 + k] # Semi
                                /\ Wire(b)[5 * n + 5 + k] # Space
                                /\ Wire(b)[5 * n + 5 + k] # Return
        /\ Wire(b)[5 * n + 6 + HexLen] = Semi
      BY WireAt, Zenon
  <2>3. QED
      BY <2>1, <2>2, Zenon
<1>2. Len(w) = m /\ m > 6 /\ w[m] = Semi /\ w[1] = Space
  <2>1. m > 6
    <3>1. m = 5 * n + 6 + HexLen
        BY <1>1, Zenon
    <3>2. QED
        BY <3>1, BaseFacts
  <2>2. QED
      BY <1>1, <2>1, Zenon
<1>3. w[2] # Space
  <2>1. 1 \in 1..(5 * n + 4) /\ 1 + 1 = 2
      OBVIOUS
  <2>2. w[1 + 1] = Body(b)[1]
      BY <1>1, <2>1, Zenon
  <2>3. Body(b)[1] = Digit(b.date)
      BY BodyAt, Zenon
  <2>4. Digit(b.date) # Space
    <3>1. b.date \in 0..(Base - 1)
        BY BroadcastFacts, Zenon
    <3>2. QED
        BY <3>1, ByteFacts
  <2>5. QED
      BY <2>1, <2>2, <2>3, <2>4
<1>4. PICK s \in Seq(Int) :
        /\ s = Spliced(w, 0, g, j)
        /\ Len(s) = 0 + Len(g) + (Len(w) + 1 - j)
        /\ \A k \in 1..0 : s[k] = w[k]
        /\ \A k \in 1..Len(g) : s[0 + k] = g[k]
        /\ \A k \in 1..(Len(w) + 1 - j) : s[0 + Len(g) + k] = w[j + k - 1]
  <2>1. 0 \in 0..Len(w) /\ j \in 1..(Len(w) + 1)
      BY <1>2
  <2>2. QED
      BY <2>1, SplicedType, ZenonT(60)
<1>5. /\ Len(s) = 0 + Len(g) + (m + 1 - j)
      /\ \A k \in 1..Len(g) : s[0 + k] = g[k]
      /\ \A k \in 1..(m + 1 - j) : s[0 + Len(g) + k] = w[j + k - 1]
    BY <1>2, <1>4, Zenon
<1>6. Len(g) \in 0..1
    OBVIOUS
<1>7. Len(s) > 0 /\ s[Len(s)] = Semi
  <2>1. m + 1 - j \in 1..(m + 1 - j) /\ j + (m + 1 - j) - 1 = m
      BY <1>2
  <2>2. s[0 + Len(g) + (m + 1 - j)] = w[j + (m + 1 - j) - 1]
      BY <1>5, <2>1, Zenon
  <2>3. Len(s) > 0
      BY <1>2, <1>5, <1>6
  <2>4. QED
      BY <1>2, <1>5, <2>1, <2>2, <2>3, Zenon
<1>8. CASE g = <<>>
  <2>1. j = 2 /\ Len(g) = 0
      BY <1>8
  <2>2. s[1] = w[2]
      BY <1>2, <1>5, <2>1
  <2>3. Right(b, s \o <<Return>>)
      BY <1>3, <1>7, <2>2, NotStarted, Zenon
  <2>4. QED
      BY <1>1, <1>4, <2>3, Zenon
<1>9. CASE g = <<x>> /\ x # Space
  <2>1. Len(g) = 1 /\ g[1] = x
      BY <1>9
  <2>2. s[1] = x
      BY <1>5, <2>1
  <2>3. Right(b, s \o <<Return>>)
      BY <1>7, <1>9, <2>2, NotStarted, Zenon
  <2>4. QED
      BY <1>1, <1>4, <2>3, Zenon
<1>10. CASE g = <<x>> /\ x = Space /\ j = 2
  <2>1. 1 \in 1..Len(w) /\ 1 - 1 = 0 /\ 1 + 1 = 2
      BY <1>2
  <2>2. Spliced(w, 1 - 1, <<w[1]>>, 1 + 1) = w
      BY <2>1, SplicedSame, Zenon
  <2>3. Spliced(w, 0, g, j) = w
      BY <1>2, <1>10, <2>1, <2>2
  <2>4. Content(w \o <<Return>>) = w
      BY <1>4, <1>7, <2>3, ContentClosed, Zenon
  <2>5. Right(b, w \o <<Return>>)
      BY <1>1, <2>4, IntactHeard, Zenon DEF Right
  <2>6. QED
      BY <1>1, <2>3, <2>5, Zenon
<1>11. CASE g = <<x>> /\ x = Space /\ j = 1
  <2>1. PICK t \in Seq(Int) :
          /\ t = Spliced(w, 1, g, 2)
          /\ Len(t) = 1 + Len(g) + (Len(w) + 1 - 2)
          /\ \A k \in 1..1 : t[k] = w[k]
          /\ \A k \in 1..Len(g) : t[1 + k] = g[k]
          /\ \A k \in 1..(Len(w) + 1 - 2) : t[1 + Len(g) + k] = w[2 + k - 1]
    <3>1. 1 \in 0..Len(w) /\ 2 \in 1..(Len(w) + 1)
        BY <1>2
    <3>2. QED
        BY <3>1, SplicedType, ZenonT(60)
  <2>2. /\ Len(t) = 1 + Len(g) + (m + 1 - 2)
        /\ \A k \in 1..1 : t[k] = w[k]
        /\ \A k \in 1..Len(g) : t[1 + k] = g[k]
        /\ \A k \in 1..(m + 1 - 2) : t[1 + Len(g) + k] = w[2 + k - 1]
      BY <1>2, <2>1, Zenon
  <2>3. Len(g) = 1 /\ g[1] = Space
      BY <1>11
  <2>4. /\ Len(t) = m + 1 /\ t[1] = Space /\ t[2] = Space
        /\ \A k \in 1..(m - 1) : t[2 + k] = w[1 + k]
      BY <1>2, <2>2, <2>3
  <2>5. /\ Len(s) = m + 1 /\ s[1] = Space
        /\ \A k \in 1..m : s[1 + k] = w[k]
    <3>1. /\ Len(s) = 0 + 1 + (m + 1 - 1)
          /\ \A k \in 1..1 : s[0 + k] = g[k]
          /\ \A k \in 1..(m + 1 - 1) : s[0 + 1 + k] = w[1 + k - 1]
        BY <1>5, <1>11, <2>3, Zenon
    <3>2. Len(s) = m + 1 /\ 1 \in 1..Len(g) /\ 1 \in 1..1 /\ 0 + 1 = 1
        BY <2>3, <3>1
    <3>3. \A k \in 1..m : k \in 1..(m + 1 - 1) /\ 0 + 1 + k = 1 + k /\ 1 + k - 1 = k
        OBVIOUS
    <3>4. s[1] = Space
        BY <2>3, <3>1, <3>2, Zenon
    <3>5. \A k \in 1..m : s[1 + k] = w[k]
        BY <3>1, <3>3, Zenon
    <3>6. QED
        BY <3>2, <3>4, <3>5, Zenon
  <2>6. ASSUME NEW k \in 1..Len(s) PROVE s[k] = t[k]
    <3>1. CASE k = 1
        BY <2>4, <2>5, <3>1
    <3>2. CASE k = 2
        BY <1>2, <2>4, <2>5, <3>2
    <3>3. CASE k > 2
      <4>1. k - 2 \in 1..(m - 1) /\ k - 1 \in 1..m /\ 2 + (k - 2) = k /\ 1 + (k - 2) = k - 1
            /\ 1 + (k - 1) = k
          BY <1>2, <2>5, <3>3
      <4>2. t[2 + (k - 2)] = w[1 + (k - 2)] /\ s[1 + (k - 1)] = w[k - 1]
          BY <2>4, <2>5, <4>1, Zenon
      <4>3. QED
          BY <4>1, <4>2
    <3>4. QED
        BY <2>5, <3>1, <3>2, <3>3
  <2>7. s = t
    <3>1. Len(s) = Len(t)
        BY <2>4, <2>5
    <3>2. QED
        BY <2>6, <3>1, SeqEqual, Zenon
  <2>8. PICK h \in 0..(5 * n + 4), r \in (0 + 1)..(5 * n + 5) :
          h = 0 /\ r = 1 /\ 1 + h = 1 /\ 1 + r = 2 /\ r - h < 3 /\ r = h + 1
    <3>1. /\ 0 \in 0..(5 * n + 4) /\ 1 \in (0 + 1)..(5 * n + 5)
          /\ 1 + 0 = 1 /\ 1 + 1 = 2 /\ 1 - 0 < 3 /\ 1 = 0 + 1
        OBVIOUS
    <3>2. QED
        BY <3>1
  <2>9. g # <<>> /\ r \in (h + 1)..(5 * n + 5)
    <3>1. g # <<>>
      <4>1. Len(<<>>) = 0
          BY EmptySeq
      <4>2. Len(g) = 1 /\ 1 # 0
          BY <2>3
      <4>3. QED
          BY <4>1, <4>2, Zenon
    <3>2. h + 1 = 0 + 1
        BY <2>8
    <3>3. QED
        BY <3>1, <3>2
  <2>10. Right(b, Spliced(Wire(b), 1 + h, g, 1 + r) \o <<Return>>)
      BY <2>8, <2>9, HeardBody
  <2>11. QED
      BY <1>1, <1>4, <2>1, <2>7, <2>8, <2>10, Zenon
<1>12. QED
    BY <1>8, <1>9, <1>10, <1>11

\* A line that lost its last byte, and may have got ends of line for it: the
\* digits of the checksum are taken from one byte too early on.
LEMMA ShortLine ==
  ASSUME NEW b \in Broadcasts, NEW n \in Nat, n = Len(b.readings),
         NEW l \in Nat, l = 5 * n + 5 + HexLen,
         NEW raw \in Seq(Int), l <= Len(raw),
         \A k \in 1..l : raw[k] = Wire(b)[k],
         \A k \in 1..Len(raw) : k > l => raw[k] = Return
  PROVE  Right(b, raw)
<1>1. /\ HexLen \in Nat /\ HexLen > 0
    BY BaseFacts
<1>2. /\ \A k \in 1..(5 * n + 4) : Wire(b)[k + 1] = Body(b)[k]
      /\ \A k \in 1..HexLen : Wire(b)[5 * n + 5 + k] # Return
  <2>1. /\ Wire(b) \in Seq(Int) /\ Len(Wire(b)) = 5 * n + 6 + HexLen
        /\ Wire(b)[1] = Space
        /\ \A k \in 1..(5 * n + 4) : Wire(b)[k + 1] = Body(b)[k]
        /\ \A k \in 1..HexLen : /\ Wire(b)[5 * n + 5 + k] # Semi
                                /\ Wire(b)[5 * n + 5 + k] # Space
                                /\ Wire(b)[5 * n + 5 + k] # Return
        /\ Wire(b)[5 * n + 6 + HexLen] = Semi
      BY WireAt, Zenon
  <2>2. QED
      BY <2>1, Zenon
<1>3. Body(b)[5 * n + 4] = Semi
  <2>1. CASE n = 0
    <3>1. 5 * n + 4 = 4
        BY <2>1
    <3>2. Body(b)[4] = Semi
        BY BodyAt, Zenon
    <3>3. QED
        BY <3>1, <3>2
  <2>2. CASE n > 0
    <3>1. n \in 1..n
        BY <2>2
    <3>2. QED
        BY <3>1, BodyAt, Zenon
  <2>3. QED
      BY <2>1, <2>2
<1>4. raw[5 * n + 5] = Semi
  <2>1. /\ 5 * n + 4 \in 1..(5 * n + 4) /\ (5 * n + 4) + 1 = 5 * n + 5
        /\ 5 * n + 5 \in 1..l
      BY <1>1
  <2>2. Wire(b)[(5 * n + 4) + 1] = Semi
      BY <1>2, <1>3, <2>1, Zenon
  <2>3. raw[5 * n + 5] = Wire(b)[5 * n + 5]
      BY <2>1, Zenon
  <2>4. QED
      BY <2>1, <2>2, <2>3
<1>5. raw[l] # Return
  <2>1. HexLen \in 1..HexLen /\ 5 * n + 5 + HexLen = l /\ l \in 1..l
      BY <1>1
  <2>2. QED
      BY <1>2, <2>1, Zenon
<1>6. l \in 1..Len(raw)
    BY <1>1
<1>7. Content(raw) = SubSeq(raw, 1, l)
    BY <1>5, <1>6, ContentIs, Zenon
<1>8. PICK c \in Seq(Int) :
        /\ c = SubSeq(raw, 1, l) /\ Len(c) = l - 1 + 1
        /\ \A k \in 1..(l - 1 + 1) : c[k] = raw[1 + k - 1]
  <2>1. 1 \in 1..(Len(raw) + 1) /\ l \in (1 - 1)..Len(raw)
      BY <1>6
  <2>2. QED
      BY <2>1, SubSeqAt, Zenon
<1>9. Len(c) = l /\ \A k \in 1..l : c[k] = raw[k]
  <2>1. Len(c) = l - 1 + 1 /\ \A k \in 1..(l - 1 + 1) : c[k] = raw[1 + k - 1]
      BY <1>8, Zenon
  <2>2. QED
      BY <2>1
<1>10. /\ HexLen < Len(c)
       /\ 5 * n + 5 \in (Len(c) - HexLen)..(Len(c) - 1)
       /\ 5 * n + 5 \in 1..l
    BY <1>1, <1>9
<1>11. c[5 * n + 5] = Semi
    BY <1>4, <1>9, <1>10, Zenon
<1>12. ~Verified(c)
    BY <1>10, <1>11, SemiInChecksum, Zenon
<1>13. QED
    BY <1>7, <1>8, <1>12, Zenon DEF Right, Accepted

\* A line whose last byte is another: one field less.
LEMMA OpenLine ==
  ASSUME NEW b \in Broadcasts, NEW x \in Int, x # Semi, x # Return,
         NEW f \in Seq(Int), \A i \in 1..Len(f) : f[i] # Semi
  PROVE  Right(b, Framed(Body(b), f, x) \o <<Return>>)
<1>1. PICK n \in Nat : n = Len(b.readings)
    BY BroadcastFacts
<1>2. Body(b) \in Seq(Int) /\ Len(Body(b)) = 5 * n + 4
    BY <1>1, BodyAt, Zenon
<1>3. PICK t \in Seq(Int) : t = f \o <<x>> /\ \A i \in 1..Len(t) : t[i] # Semi
  <2>1. <<x>> \in Seq(Int) /\ Len(<<x>>) = 1 /\ <<x>>[1] = x
      BY OneByte, Zenon
  <2>2. /\ f \o <<x>> \in Seq(Int) /\ Len(f \o <<x>>) = Len(f) + Len(<<x>>)
        /\ \A k \in 1..Len(f) : (f \o <<x>>)[k] = f[k]
        /\ \A k \in 1..Len(<<x>>) : (f \o <<x>>)[Len(f) + k] = <<x>>[k]
      BY <2>1, ConcatAt, Zenon
  <2>3. PICK t \in Seq(Int) : /\ t = f \o <<x>> /\ Len(t) = Len(f) + 1
                              /\ \A k \in 1..Len(f) : t[k] = f[k]
                              /\ \A k \in 1..1 : t[Len(f) + k] = <<x>>[k]
      BY <2>1, <2>2, Zenon
  <2>4. /\ Len(t) = Len(f) + 1 /\ \A k \in 1..Len(f) : t[k] = f[k]
        /\ \A k \in 1..1 : t[Len(f) + k] = <<x>>[k]
      BY <2>3, Zenon
  <2>5. t[Len(f) + 1] = x
    <3>1. 1 \in 1..1
        OBVIOUS
    <3>2. QED
        BY <2>1, <2>4, <3>1, Zenon
  <2>6. ASSUME NEW i \in 1..Len(t) PROVE t[i] # Semi
    <3>1. i \in 1..Len(f) \/ i = Len(f) + 1
        BY <2>4
    <3>2. QED
        BY <2>4, <2>5, <3>1, Zenon
  <2>7. QED
      BY <2>3, <2>6, Zenon
<1>4. /\ Content(Framed(Body(b), f, x) \o <<Return>>) = Framed(Body(b), f, x)
      /\ Tail(Framed(Body(b), f, x)) = (Body(b) \o f) \o <<x>>
    BY <1>2, LineContent, LineTaken, Zenon
<1>5. (Body(b) \o f) \o <<x>> = Body(b) \o (f \o <<x>>)
  <2>1. <<x>> \in Seq(Int)
      BY OneByte, Zenon
  <2>2. QED
      BY <1>2, <2>1, Associative, Zenon
<1>6. Fields(Framed(Body(b), f, x) \o <<Return>>) = Split(Body(b) \o t)
    BY <1>3, <1>4, <1>5, Zenon DEF Fields
<1>7. PICK p : EndsAre(Body(b) \o t, 2 * n + 3, p)
    BY <1>1, <1>3, OpenEnds, Zenon
<1>8. ~(Terminated(Split(Body(b) \o t)) /\ Counted(Split(Body(b) \o t)))
  <2>1. PICK y \in Seq(Int) : y = Body(b) \o t
      BY <1>2, ConcatAt, Zenon
  <2>2. PICK m \in Nat, h \in Int : m = 2 * n + 3 /\ m = 2 * h + 1
    <3>1. n + 1 \in Int /\ 2 * n + 3 \in Nat /\ 2 * n + 3 = 2 * (n + 1) + 1
        OBVIOUS
    <3>2. QED
        BY <3>1, Zenon
  <2>3. EndsAre(y, m, p)
      BY <1>7, <2>1, <2>2, Zenon
  <2>4. ~(Terminated(Split(y)) /\ Counted(Split(y)))
      BY <2>2, <2>3, UnevenFields, Zenon
  <2>5. QED
      BY <2>1, <2>4, Zenon
<1>9. QED
    BY <1>6, <1>8, Zenon DEF Right, Accepted

\* Another last byte in the place of the last.
LEMMA LineLast ==
  ASSUME NEW body \in Seq(Int), NEW field \in Seq(Int), NEW x \in Int, NEW y \in Int
  PROVE  Spliced(Framed(body, field, y), Len(body) + Len(field) + 1, <<x>>,
                 Len(body) + Len(field) + 3)
           = Framed(body, field, x)
<1>1. PICK u \in Seq(Int) : /\ u = (<<Space>> \o body) \o field
                            /\ Len(u) = Len(body) + Len(field) + 1
  <2>1. Space \in Int
      BY ByteFacts
  <2>2. PICK o \in Seq(Int) : o = <<Space>> /\ Len(o) = 1
      BY <2>1, OneByte, Zenon
  <2>3. o \o body \in Seq(Int) /\ Len(o \o body) = Len(o) + Len(body)
      BY ConcatAt, Zenon
  <2>4. PICK v \in Seq(Int) : v = o \o body /\ Len(v) = Len(o) + Len(body)
      BY <2>3, Zenon
  <2>5. v \o field \in Seq(Int) /\ Len(v \o field) = Len(v) + Len(field)
      BY ConcatAt, Zenon
  <2>6. Len(v) + Len(field) = Len(body) + Len(field) + 1
    <3>1. PICK c \in Nat, d \in Nat : c = Len(body) /\ d = Len(field)
        OBVIOUS
    <3>2. Len(v) = 1 + c
        BY <2>2, <2>4, <3>1, Zenon
    <3>3. (1 + c) + d = c + d + 1
        OBVIOUS
    <3>4. QED
        BY <3>1, <3>2, <3>3, Zenon
  <2>7. QED
      BY <2>2, <2>4, <2>5, <2>6, Zenon
<1>2. Framed(body, field, x) = u \o <<x>> /\ Framed(body, field, y) = u \o <<y>>
    BY <1>1, Zenon DEF Framed
<1>3. Spliced(<<y>>, 0, <<x>>, 2) = <<x>>
  <2>1. SubSeq(<<y>>, 1, 0) = <<>> /\ SubSeq(<<y>>, 2, Len(<<y>>)) = <<>>
      BY SubSeqEmpty
  <2>2. (<<>> \o <<x>>) \o <<>> = <<x>>
      OBVIOUS
  <2>3. QED
      BY <2>1, <2>2, Zenon DEF Spliced
<1>4. Spliced(u \o <<y>>, Len(u) + 0, <<x>>, Len(u) + 2) = u \o <<x>>
  <2>1. PICK v \in Seq(Int), g \in Seq(Int) : v = <<y>> /\ g = <<x>> /\ Len(v) = 1
      BY OneByte, Zenon
  <2>2. PICK i \in 0..Len(v), j \in 1..(Len(v) + 1) : i = 0 /\ j = 2
      BY <2>1
  <2>3. Spliced(u \o v, Len(u) + i, g, Len(u) + j) = u \o Spliced(v, i, g, j)
      BY SpliceRight, ZenonT(60)
  <2>4. QED
      BY <1>3, <2>1, <2>2, <2>3, Zenon
<1>5. /\ Len(u) + 0 = Len(body) + Len(field) + 1
      /\ Len(u) + 2 = Len(body) + Len(field) + 3
  <2>1. Len(u) = Len(body) + Len(field) + 1
      BY <1>1, Zenon
  <2>2. QED
      BY <2>1
<1>6. QED
    BY <1>2, <1>4, <1>5, Zenon

\* A splice at the end of the line.
LEMMA HeardLast ==
  ASSUME NEW b \in Broadcasts, NEW n \in Nat, n = Len(b.readings),
         NEW g \in Seq(Int), NEW x \in 1..Other, g = <<>> \/ g = <<x>>
  PROVE  Right(b, Spliced(Wire(b), 5 * n + 5 + HexLen, g, 5 * n + 7 + HexLen)
                    \o <<Return>>)
<1>1. PICK w \in Seq(Int), l \in Nat :
        /\ w = Wire(b) /\ l = 5 * n + 5 + HexLen /\ Len(w) = l + 1
        /\ w[l + 1] = Semi
  <2>1. 5 * n + 5 + HexLen \in Nat /\ 5 * n + 6 + HexLen = (5 * n + 5 + HexLen) + 1
      BY BaseFacts
  <2>2. /\ Wire(b) \in Seq(Int) /\ Len(Wire(b)) = 5 * n + 6 + HexLen
        /\ Wire(b)[1] = Space
        /\ \A k \in 1..(5 * n + 4) : Wire(b)[k + 1] = Body(b)[k]
        /\ \A k \in 1..HexLen : /\ Wire(b)[5 * n + 5 + k] # Semi
                                /\ Wire(b)[5 * n + 5 + k] # Space
                                /\ Wire(b)[5 * n + 5 + k] # Return
        /\ Wire(b)[5 * n + 6 + HexLen] = Semi
      BY WireAt, Zenon
  <2>3. QED
      BY <2>1, <2>2, ZenonT(60)
<1>2. Len(w) = l + 1 /\ w[l + 1] = Semi /\ l = 5 * n + 5 + HexLen
    BY <1>1, Zenon
<1>3. PICK s \in Seq(Int) :
        /\ s = Spliced(w, l, g, l + 2)
        /\ Len(s) = l + Len(g) + (Len(w) + 1 - (l + 2))
        /\ \A k \in 1..l : s[k] = w[k]
        /\ \A k \in 1..Len(g) : s[l + k] = g[k]
        /\ \A k \in 1..(Len(w) + 1 - (l + 2)) : s[l + Len(g) + k] = w[(l + 2) + k - 1]
  <2>1. PICK r \in 1..(Len(w) + 1) : r = l + 2
      BY <1>2, SMTT(30)
  <2>2. l \in 0..Len(w)
      BY <1>2
  <2>3. /\ Spliced(w, l, g, r) \in Seq(Int)
        /\ Len(Spliced(w, l, g, r)) = l + Len(g) + (Len(w) + 1 - r)
        /\ \A k \in 1..l : Spliced(w, l, g, r)[k] = w[k]
        /\ \A k \in 1..Len(g) : Spliced(w, l, g, r)[l + k] = g[k]
        /\ \A k \in 1..(Len(w) + 1 - r) : Spliced(w, l, g, r)[l + Len(g) + k] = w[r + k - 1]
      BY <2>2, SplicedType, Zenon
  <2>4. QED
      BY <2>1, <2>3, Zenon
<1>4. /\ Len(s) = l + Len(g)
      /\ \A k \in 1..l : s[k] = w[k]
      /\ \A k \in 1..Len(g) : s[l + k] = g[k]
  <2>1. PICK d \in Nat, e \in Int : d = Len(g) /\ e = Len(w) + 1 - (l + 2) /\ e = 0
      BY <1>2, SMTT(30)
  <2>2. Len(s) = l + d + e
      BY <1>3, <2>1, Zenon
  <2>3. Len(s) = l + Len(g)
    <3>1. l + d + e = l + d
        BY <2>1, SMTT(30)
    <3>2. QED
        BY <2>1, <2>2, <3>1, Zenon
  <2>4. QED
      BY <1>3, <2>3, Zenon
<1>5. s = Spliced(Wire(b), 5 * n + 5 + HexLen, g, 5 * n + 7 + HexLen)
  <2>1. l + 2 = 5 * n + 7 + HexLen
      BY <1>2, BaseFacts
  <2>2. QED
      BY <1>1, <1>3, <2>1, Zenon
<1>6. CASE g = <<x>> /\ x # Return
  <2>1. PICK f \in Seq(Int) :
          /\ f = Checksum(Compute(Body(b))) /\ Len(f) = HexLen
          /\ \A i \in 1..Len(f) : f[i] # Semi /\ f[i] # Space /\ f[i] # Return
          /\ Wire(b) = Framed(Body(b), f, Semi)
          /\ Body(b) \in Seq(Int) /\ Len(Body(b)) = 5 * n + 4
      BY WireFacts, Zenon
  <2>2. x \in Int /\ Semi \in Int
      BY ByteFacts
  <2>3. PICK t \in Seq(Int) : t = Framed(Body(b), f, x)
      BY <2>1, <2>2, LineAt, Zenon
  <2>4. Spliced(Framed(Body(b), f, Semi), Len(Body(b)) + Len(f) + 1, <<x>>,
                Len(Body(b)) + Len(f) + 3)
          = Framed(Body(b), f, x)
    <3>1. Body(b) \in Seq(Int)
        BY <2>1, Zenon
    <3>2. QED
        BY <2>2, <3>1, LineLast, Zenon
  <2>5. Len(Body(b)) + Len(f) + 1 = l /\ Len(Body(b)) + Len(f) + 3 = l + 2
    <3>1. Len(Body(b)) = 5 * n + 4 /\ Len(f) = HexLen
        BY <2>1, Zenon
    <3>2. QED
        BY <1>2, <3>1, BaseFacts
  <2>6. s = t
    <3>1. w = Framed(Body(b), f, Semi)
        BY <1>1, <2>1, Zenon
    <3>2. QED
        BY <1>3, <1>6, <2>3, <2>4, <2>5, <3>1, Zenon
  <2>7. CASE x = Semi
    <3>1. s = Wire(b)
        BY <2>1, <2>3, <2>6, <2>7, Zenon
    <3>2. Content(Framed(Body(b), f, x) \o <<Return>>) = Framed(Body(b), f, x)
        BY <1>6, <2>1, <2>2, LineContent, ZenonT(60)
    <3>3. Content(s \o <<Return>>) = Wire(b)
        BY <2>3, <2>6, <3>1, <3>2, Zenon
    <3>4. QED
        BY <1>5, <3>3, IntactHeard, Zenon DEF Right
  <2>8. CASE x # Semi
    <3>1. \A i \in 1..Len(f) : f[i] # Semi
        BY <2>1, Zenon
    <3>2. Right(b, Framed(Body(b), f, x) \o <<Return>>)
        BY <1>6, <2>2, <2>8, <3>1, OpenLine, Zenon
    <3>3. QED
        BY <1>5, <2>3, <2>6, <3>2, Zenon
  <2>9. QED
      BY <2>7, <2>8, Zenon
<1>7. CASE g = <<>> \/ (g = <<x>> /\ x = Return)
  <2>1. PICK r \in Seq(Int) :
          /\ r = s \o <<Return>> /\ Len(r) = Len(s) + 1
          /\ \A k \in 1..Len(s) : r[k] = s[k]
          /\ \A k \in 1..1 : r[Len(s) + k] = Return
    <3>1. <<Return>> \in Seq(Int) /\ Len(<<Return>>) = 1 /\ \A k \in 1..1 : <<Return>>[k] = Return
        BY ByteFacts
    <3>2. /\ s \o <<Return>> \in Seq(Int) /\ Len(s \o <<Return>>) = Len(s) + Len(<<Return>>)
          /\ \A k \in 1..Len(s) : (s \o <<Return>>)[k] = s[k]
          /\ \A k \in 1..Len(<<Return>>) : (s \o <<Return>>)[Len(s) + k] = <<Return>>[k]
        BY <3>1, ConcatAt, Zenon
    <3>3. \A k \in 1..1 : (s \o <<Return>>)[Len(s) + k] = Return
        BY <3>1, <3>2, Zenon
    <3>4. QED
        BY <3>1, <3>2, <3>3, Zenon
  <2>2. /\ Len(r) = Len(s) + 1 /\ \A k \in 1..Len(s) : r[k] = s[k]
        /\ \A k \in 1..1 : r[Len(s) + k] = Return
      BY <2>1, Zenon
  <2>3. \A k \in 1..Len(g) : g[k] = Return
    <3>1. CASE g = <<>>
        BY <3>1
    <3>2. CASE g = <<x>> /\ x = Return
        BY <3>2
    <3>3. QED
        BY <1>7, <3>1, <3>2
  <2>4. PICK d \in Nat : d = Len(g)
      OBVIOUS
  <2>5. /\ Len(s) = l + d /\ \A k \in 1..d : s[l + k] = Return
      BY <1>4, <2>3, <2>4, Zenon
  <2>6. l <= Len(r) /\ \A k \in 1..l : r[k] = w[k]
    <3>1. \A k \in 1..l : k \in 1..Len(s)
        BY <2>5
    <3>2. \A k \in 1..l : r[k] = w[k]
        BY <1>4, <2>2, <3>1, Zenon
    <3>3. QED
        BY <2>2, <2>5, <3>2
  <2>7. ASSUME NEW k \in 1..Len(r), k > l PROVE r[k] = Return
    <3>1. CASE k <= Len(s)
      <4>1. k - l \in 1..d /\ l + (k - l) = k /\ k \in 1..Len(s)
          BY <2>5, <2>7, <3>1
      <4>2. s[l + (k - l)] = Return
          BY <2>5, <4>1, Zenon
      <4>3. QED
          BY <2>2, <4>1, <4>2, SMTT(30)
    <3>2. CASE k > Len(s)
      <4>1. k = Len(s) + 1 /\ 1 \in 1..1
          BY <2>2, <2>5, <3>2
      <4>2. QED
          BY <2>2, <4>1, Zenon
    <3>3. QED
        BY <2>5, <3>1, <3>2
  <2>8. Right(b, r)
    <3>1. \A k \in 1..l : r[k] = Wire(b)[k]
        BY <1>1, <2>6, Zenon
    <3>2. l <= Len(r) /\ l = 5 * n + 5 + HexLen
        BY <1>2, <2>6, Zenon
    <3>3. \A k \in 1..Len(r) : k > l => r[k] = Return
        BY <2>7
    <3>4. QED
        BY <3>1, <3>2, <3>3, ShortLine, Zenon
  <2>9. QED
      BY <1>5, <2>1, <2>8, Zenon
<1>8. QED
    BY <1>6, <1>7, Zenon

\* The line without its first byte, cut, is the line cut without its first byte.
LEMMA TailCut ==
  ASSUME NEW w \in Seq(Int), NEW m \in Nat, m = Len(w), NEW i \in 2..m
  PROVE  /\ Tail(w) \in Seq(Int) /\ Len(Tail(w)) = m - 1
         /\ Tail(SubSeq(w, i, m)) = SubSeq(Tail(w), i, m - 1)
<1>1. PICK x \in Seq(Int) : /\ x = Tail(w) /\ Len(x) = m - 1
                            /\ \A k \in 1..(m - 1) : x[k] = w[k + 1]
  <2>1. w # <<>>
      OBVIOUS
  <2>2. Tail(w) \in Seq(Int) /\ Len(Tail(w)) = m - 1
      BY <2>1
  <2>3. \A k \in 1..(m - 1) : Tail(w)[k] = w[k + 1]
      BY <2>1
  <2>4. QED
      BY <2>2, <2>3, Zenon
<1>2. PICK s \in Seq(Int) : /\ s = SubSeq(w, i, m) /\ Len(s) = m - i + 1
                            /\ \A k \in 1..(m - i + 1) : s[k] = w[i + k - 1]
  <2>1. i \in 1..(Len(w) + 1) /\ m \in (i - 1)..Len(w)
      OBVIOUS
  <2>2. QED
      BY <2>1, SubSeqAt, Zenon
<1>3. PICK y \in Seq(Int) : /\ y = SubSeq(x, i, m - 1) /\ Len(y) = m - 1 - i + 1
                            /\ \A k \in 1..(m - 1 - i + 1) : y[k] = x[i + k - 1]
  <2>1. PICK e \in (i - 1)..Len(x) : e = m - 1 /\ i \in 1..(Len(x) + 1)
    <3>1. Len(x) = m - 1
        BY <1>1, Zenon
    <3>2. QED
        BY <3>1
  <2>2. /\ SubSeq(x, i, e) \in Seq(Int) /\ Len(SubSeq(x, i, e)) = e - i + 1
        /\ \A k \in 1..(e - i + 1) : SubSeq(x, i, e)[k] = x[i + k - 1]
      BY <2>1, SubSeqAt, Zenon
  <2>3. QED
      BY <2>1, <2>2, Zenon
<1>4. PICK t \in Seq(Int) : /\ t = Tail(s) /\ Len(t) = m - i
                            /\ \A k \in 1..(m - i) : t[k] = s[k + 1]
  <2>1. s # <<>> /\ Len(s) = m - i + 1
    <3>1. Len(s) = m - i + 1
        BY <1>2, Zenon
    <3>2. QED
        BY <3>1
  <2>2. Tail(s) \in Seq(Int) /\ Len(Tail(s)) = m - i
    <3>1. s # <<>>
        BY <2>1, Zenon
    <3>2. Tail(s) \in Seq(Int) /\ Len(Tail(s)) = Len(s) - 1
        BY <3>1
    <3>3. (m - i + 1) - 1 = m - i
        OBVIOUS
    <3>4. QED
        BY <2>1, <3>2, <3>3, Zenon
  <2>3. \A k \in 1..(m - i) : Tail(s)[k] = s[k + 1]
      BY <2>1
  <2>4. QED
      BY <2>2, <2>3, Zenon
<1>5. /\ Len(x) = m - 1 /\ \A k \in 1..(m - 1) : x[k] = w[k + 1]
      /\ \A k \in 1..(m - i + 1) : s[k] = w[i + k - 1]
      /\ Len(y) = m - 1 - i + 1
      /\ \A k \in 1..(m - 1 - i + 1) : y[k] = x[i + k - 1]
      /\ Len(t) = m - i /\ \A k \in 1..(m - i) : t[k] = s[k + 1]
    BY <1>1, <1>2, <1>3, <1>4, Zenon
<1>6. ASSUME NEW k \in 1..Len(t) PROVE t[k] = y[k]
  <2>1. /\ k \in 1..(m - i) /\ k + 1 \in 1..(m - i + 1) /\ k \in 1..(m - 1 - i + 1)
        /\ i + k - 1 \in 1..(m - 1) /\ i + (k + 1) - 1 = (i + k - 1) + 1
      BY <1>5
  <2>2. t[k] = s[k + 1] /\ s[k + 1] = w[i + (k + 1) - 1]
      BY <1>5, <2>1, Zenon
  <2>3. y[k] = x[i + k - 1] /\ x[i + k - 1] = w[(i + k - 1) + 1]
      BY <1>5, <2>1, Zenon
  <2>4. QED
      BY <2>1, <2>2, <2>3, Zenon
<1>7. t = y
  <2>1. Len(t) = Len(y)
      BY <1>5, SMTT(30)
  <2>2. QED
      BY <1>6, <2>1, SeqEqual, Zenon
<1>8. QED
    BY <1>1, <1>2, <1>3, <1>4, <1>7, Zenon

\* Cut at the space before a value, the line has a field too few.
LEMMA CutFields ==
  ASSUME NEW b \in Broadcasts, NEW n \in Nat, n = Len(b.readings),
         NEW f \in Seq(Int), \A i \in 1..Len(f) : f[i] # Semi,
         NEW k \in 1..n, NEW x \in Seq(Int), x = (Body(b) \o f) \o <<Semi>>,
         NEW y, y = SubSeq(x, 5 * k + 3, Len(x))
  PROVE  ~(Terminated(Split(y)) /\ Counted(Split(y)))
<1>1. PICK l \in Nat : l = Len(f)
    OBVIOUS
<1>2. PICK q : /\ EndsAre((Body(b) \o f) \o <<Semi>>, 2 * n + 4, q)
               /\ \A j \in 1..(2 * n + 2) : q[j] = SemiAt(j)
               /\ q[2 * n + 3] = 5 * n + 5 + l
               /\ q[2 * n + 4] = 5 * n + 6 + l
    BY <1>1, LineEnds, ZenonT(60)
<1>3. PICK m \in Nat : /\ m = 2 * n + 4 /\ EndsAre(x, m, q)
  <2>1. 2 * n + 4 \in Nat
      OBVIOUS
  <2>2. QED
      BY <1>2, <2>1, Zenon
<1>4. m = 2 * n + 4
    BY <1>3, Zenon
<1>5. /\ q \in [1..m -> 1..(Len(x) + 1)]
      /\ \A i, j \in 1..m : i < j => q[i] < q[j]
    BY <1>3, Zenon DEF EndsAre
<1>6. PICK c \in 0..m : c = 2 * k + 1
    BY <1>4
<1>7. c \in 1..m /\ c + 1 \in 1..m /\ c \in 1..(2 * n + 2) /\ c + 1 \in 1..(2 * n + 2)
    BY <1>4, <1>6, SMTT(30)
<1>8. q[c] = 5 * k + 1 /\ q[c + 1] = 5 * k + 4
  <2>1. q[c] = SemiAt(c) /\ q[c + 1] = SemiAt(c + 1)
      BY <1>2, <1>7, Zenon
  <2>2. c + 1 = 2 * k + 2
      BY <1>6
  <2>3. SemiAt(2 * k + 1) = 5 * k + 1 /\ SemiAt(2 * k + 2) = 5 * k + 4
      BY SemiAtFacts, Zenon
  <2>4. QED
      BY <1>6, <2>1, <2>2, <2>3, Zenon
<1>9. PICK a \in 0..Len(x) : a = 5 * k + 2 /\ a + 1 = 5 * k + 3
  <2>1. q[c] \in 1..(Len(x) + 1) /\ q[c + 1] \in 1..(Len(x) + 1)
      BY <1>5, <1>7
  <2>2. QED
      BY <1>8, <2>1
<1>10. \A i \in 1..m : a < q[i] <=> c < i
  <2>1. ASSUME NEW i \in 1..m, c < i PROVE a < q[i]
    <3>1. i = c + 1 \/ c + 1 < i
        BY <1>7, <2>1
    <3>2. q[c + 1] <= q[i]
      <4>1. CASE i = c + 1
        <5>1. q[i] \in 1..(Len(x) + 1)
            BY <1>5
        <5>2. QED
            BY <4>1, <5>1
      <4>2. CASE c + 1 < i
        <5>1. q[c + 1] < q[i]
            BY <1>5, <1>7, <4>2, Zenon
        <5>2. q[i] \in 1..(Len(x) + 1) /\ q[c + 1] \in 1..(Len(x) + 1)
            BY <1>5, <1>7
        <5>3. QED
            BY <5>1, <5>2
      <4>3. QED
          BY <3>1, <4>1, <4>2
    <3>3. q[i] \in 1..(Len(x) + 1)
        BY <1>5
    <3>4. QED
        BY <1>8, <1>9, <3>2, <3>3
  <2>2. ASSUME NEW i \in 1..m, ~(c < i) PROVE ~(a < q[i])
    <3>1. i = c \/ i < c
        BY <1>7, <2>2
    <3>2. q[i] \in 1..(Len(x) + 1)
        BY <1>5
    <3>3. q[i] <= 5 * k + 1
      <4>1. CASE i = c
          BY <1>8, <4>1
      <4>2. CASE i < c
        <5>1. q[i] < q[c]
            BY <1>5, <1>7, <4>2, Zenon
        <5>2. QED
            BY <1>8, <3>2, <5>1
      <4>3. QED
          BY <3>1, <4>1, <4>2
    <3>4. QED
        BY <1>9, <3>2, <3>3
  <2>3. QED
      BY <2>1, <2>2
<1>11. PICK p : EndsAre(SubSeq(x, a + 1, Len(x)), m - c, p)
    BY <1>3, <1>10, CutEnds, Zenon
<1>12. PICK d \in Nat, h \in Int : d = m - c /\ d = 2 * h + 1
  <2>1. m - c \in Nat /\ n - k + 1 \in Int /\ m - c = 2 * (n - k + 1) + 1
    <3>1. \A u \in Nat : \A v \in 1..u :
            /\ (2 * u + 4) - (2 * v + 1) \in Nat /\ u - v + 1 \in Int
            /\ (2 * u + 4) - (2 * v + 1) = 2 * (u - v + 1) + 1
        OBVIOUS
    <3>2. QED
        BY <1>4, <1>6, <3>1, Zenon
  <2>2. QED
      BY <2>1, Zenon
<1>13. EndsAre(y, d, p)
    BY <1>9, <1>11, <1>12, Zenon
<1>14. y \in Seq(Int)
  <2>1. PICK e \in 1..(Len(x) + 1) : e = a + 1 /\ Len(x) \in (e - 1)..Len(x)
      BY <1>9
  <2>2. SubSeq(x, e, Len(x)) \in Seq(Int)
      BY <2>1, SubSeqAt, Zenon
  <2>3. QED
      BY <1>9, <2>1, <2>2, Zenon
<1>15. QED
    BY <1>12, <1>13, <1>14, UnevenFields, Zenon

\* A line of which only the end is heard.
LEMMA HeardCut ==
  ASSUME NEW b \in Broadcasts, NEW n \in Nat, n = Len(b.readings),
         NEW m \in Nat, m = 5 * n + 6 + HexLen, NEW i \in 1..m
  PROVE  Right(b, SubSeq(Wire(b), i, m) \o <<Return>>)
<1>1. PICK f \in Seq(Int) :
        /\ f = Checksum(Compute(Body(b))) /\ Len(f) = HexLen
        /\ \A k \in 1..Len(f) : f[k] # Semi /\ f[k] # Space /\ f[k] # Return
        /\ Wire(b) = Framed(Body(b), f, Semi)
        /\ Body(b) \in Seq(Int) /\ Len(Body(b)) = 5 * n + 4
    BY WireFacts, Zenon
<1>2. PICK w \in Seq(Int) :
        /\ w = Wire(b) /\ Len(w) = m
        /\ \A k \in 1..(5 * n + 4) : w[k + 1] = Body(b)[k]
        /\ \A k \in 1..HexLen : w[5 * n + 5 + k] # Space
        /\ w[m] = Semi
  <2>1. /\ Wire(b) \in Seq(Int) /\ Len(Wire(b)) = 5 * n + 6 + HexLen
        /\ Wire(b)[1] = Space
        /\ \A k \in 1..(5 * n + 4) : Wire(b)[k + 1] = Body(b)[k]
        /\ \A k \in 1..HexLen : /\ Wire(b)[5 * n + 5 + k] # Semi
                                /\ Wire(b)[5 * n + 5 + k] # Space
                                /\ Wire(b)[5 * n + 5 + k] # Return
        /\ Wire(b)[5 * n + 6 + HexLen] = Semi
      BY WireAt, Zenon
  <2>2. QED
      BY <2>1, Zenon
<1>3. PICK s \in Seq(Int) : /\ s = SubSeq(w, i, m) /\ Len(s) = m - i + 1
                            /\ \A k \in 1..(m - i + 1) : s[k] = w[i + k - 1]
  <2>1. i \in 1..(Len(w) + 1) /\ m \in (i - 1)..Len(w)
      BY <1>2
  <2>2. QED
      BY <2>1, SubSeqAt, Zenon
<1>4. /\ Len(w) = m /\ w[m] = Semi /\ Len(s) = m - i + 1
      /\ \A k \in 1..(m - i + 1) : s[k] = w[i + k - 1]
    BY <1>2, <1>3, Zenon
<1>5. Len(s) > 0 /\ s[Len(s)] = Semi /\ s[1] = w[i]
  <2>1. /\ m - i + 1 \in 1..(m - i + 1) /\ i + (m - i + 1) - 1 = m
        /\ 1 \in 1..(m - i + 1) /\ i + 1 - 1 = i /\ m - i + 1 > 0
      BY SMTT(30)
  <2>2. s[m - i + 1] = w[i + (m - i + 1) - 1] /\ s[1] = w[i + 1 - 1]
      BY <1>4, <2>1, Zenon
  <2>3. QED
      BY <1>4, <2>1, <2>2, Zenon
<1>6. s = SubSeq(Wire(b), i, m)
    BY <1>2, <1>3, Zenon
<1>7. Content(s \o <<Return>>) = s
    BY <1>5, ContentClosed, Zenon
<1>8. CASE w[i] # Space
  <2>1. Right(b, s \o <<Return>>)
      BY <1>5, <1>8, NotStarted, Zenon
  <2>2. QED
      BY <1>6, <2>1, Zenon
<1>9. CASE i = 1
  <2>1. ASSUME NEW k \in 1..Len(s) PROVE s[k] = w[k]
      BY <1>4, <1>9
  <2>2. s = w
    <3>1. Len(s) = Len(w)
        BY <1>4, <1>9
    <3>2. QED
        BY <2>1, <3>1, SeqEqual, Zenon
  <2>3. Content(s \o <<Return>>) = Wire(b)
      BY <1>2, <1>7, <2>2, Zenon
  <2>4. QED
      BY <1>6, <2>3, IntactHeard, Zenon DEF Right
<1>10. CASE i # 1 /\ w[i] = Space
  <2>1. i \in 2..m
      BY <1>10
  <2>2. i < 5 * n + 6
    <3>1. CASE i = m
      <4>1. Semi # Space
          BY ByteFacts
      <4>2. QED
          BY <1>4, <1>10, <3>1, <4>1, Zenon
    <3>2. CASE i >= 5 * n + 6 /\ i # m
      <4>1. PICK r \in 1..HexLen : 5 * n + 5 + r = i
        <5>1. PICK h \in Nat : h = HexLen
            BY BaseFacts
        <5>2. m = 5 * n + 6 + h
            BY <5>1, Zenon
        <5>3. \A u, v, t \in Nat : t = 5 * u + 6 + v =>
                \A j \in 1..t : j >= 5 * u + 6 => (j # t =>
                  \E r \in 1..v : 5 * u + 5 + r = j)
          <6>1. ASSUME NEW u \in Nat, NEW v \in Nat, NEW t \in Nat, t = 5 * u + 6 + v,
                       NEW j \in 1..t, j >= 5 * u + 6, j # t
                PROVE  \E r \in 1..v : 5 * u + 5 + r = j
            <7>1. j - (5 * u + 5) \in 1..v /\ 5 * u + 5 + (j - (5 * u + 5)) = j
                BY <6>1
            <7>2. QED
                BY <7>1, Zenon
          <6>2. QED
              BY <6>1, Zenon
        <5>4. \A j \in 1..m :
                j >= 5 * n + 6 => (j # m => \E r \in 1..h : 5 * n + 5 + r = j)
            BY <5>2, <5>3, ZenonT(60)
        <5>5. QED
            BY <3>2, <5>1, <5>4, Zenon
      <4>2. w[5 * n + 5 + r] # Space
          BY <1>2, <4>1, Zenon
      <4>3. QED
          BY <1>10, <4>1, <4>2, Zenon
    <3>3. QED
        BY <3>1, <3>2
  <2>3. PICK k \in 1..n : i = 5 * k + 3
    <3>1. PICK r \in 1..(5 * n + 4) : r = i - 1 /\ r + 1 = i
        BY <2>1, <2>2
    <3>2. Body(b)[r] = Space
      <4>1. w[r + 1] = Body(b)[r]
          BY <1>2, Zenon
      <4>2. QED
          BY <1>10, <3>1, <4>1, Zenon
    <3>3. PICK k \in 1..n : r = 5 * k + 2
        BY <3>2, BodySpaces, ZenonT(60)
    <3>4. i = 5 * k + 3
        BY <3>1, <3>3
    <3>5. QED
        BY <3>4, Zenon
  <2>4. PICK x \in Seq(Int) :
          /\ x = Tail(w) /\ Len(x) = m - 1 /\ Tail(s) = SubSeq(x, i, m - 1)
    <3>1. /\ Tail(w) \in Seq(Int) /\ Len(Tail(w)) = m - 1
          /\ Tail(SubSeq(w, i, m)) = SubSeq(Tail(w), i, m - 1)
        BY <1>4, <2>1, TailCut, Zenon
    <3>2. QED
        BY <1>3, <3>1, Zenon
  <2>5. x = (Body(b) \o f) \o <<Semi>>
    <3>1. Semi \in Int /\ Body(b) \in Seq(Int)
        BY <1>1, ByteFacts
    <3>2. Tail(Framed(Body(b), f, Semi)) = (Body(b) \o f) \o <<Semi>>
        BY <3>1, LineTaken, Zenon
    <3>3. QED
        BY <1>1, <1>2, <2>4, <3>2, Zenon
  <2>6. \A j \in 1..Len(f) : f[j] # Semi
      BY <1>1, Zenon
  <2>7. PICK y : y = SubSeq(x, 5 * k + 3, Len(x))
      OBVIOUS
  <2>8. ~(Terminated(Split(y)) /\ Counted(Split(y)))
      BY <2>5, <2>6, <2>7, CutFields, Zenon
  <2>9. Tail(s) = y
      BY <2>3, <2>4, <2>7, Zenon
  <2>10. Fields(s \o <<Return>>) = Split(y)
      BY <1>7, <2>9, Zenon DEF Fields
  <2>11. Right(b, s \o <<Return>>)
      BY <2>8, <2>10, Zenon DEF Right, Accepted
  <2>12. QED
      BY <1>6, <2>11, Zenon
<1>11. QED
    BY <1>8, <1>9, <1>10

\* Where in a line with n readings and l digits a splice of one byte at most is:
\* at its first byte, at its last, in what is summed or in the checksum.
Placed(n, l, i, j) ==
  \/ i = 1 /\ i - 1 = 0 /\ j \in 1..2
  \/ i - 1 = 5 * n + 5 + l /\ j = 5 * n + 7 + l
  \/ \E h \in 0..(5 * n + 4) : \E r \in (h + 1)..(5 * n + 5) :
       /\ r - h < 3 /\ (j # i => r # h + 1)
       /\ i - 1 = 1 + h /\ j = 1 + r
  \/ \E h \in 0..l : \E r \in (h + 1)..(l + 1) :
       /\ r - h < 3 /\ (j # i => r # h + 1) /\ (r = h + 1 => h > 0)
       /\ i - 1 = 1 + (5 * n + 4) + h /\ j = 1 + (5 * n + 4) + r

\* A splice is in one of these places.
LEMMA SplicePlaces ==
  ASSUME NEW n \in Nat, NEW l \in Nat, NEW m \in Nat, m = 5 * n + 6 + l,
         NEW i \in 1..m, NEW j \in i..(i + 1)
  PROVE  Placed(n, l, i, j)
<1>1. CASE i = 1
    BY <1>1 DEF Placed
<1>2. CASE i > 1 /\ j <= 5 * n + 6
  <2>1. PICK h \in 0..(5 * n + 4) : h = i - 2
      BY <1>2
  <2>2. PICK r \in (h + 1)..(5 * n + 5) : r = j - 1
      BY <1>2, <2>1
  <2>3. r - h < 3 /\ (j # i => r # h + 1) /\ i - 1 = 1 + h /\ j = 1 + r
      BY <1>2, <2>1, <2>2
  <2>4. QED
      BY <2>3, Zenon DEF Placed
<1>3. CASE j > 5 * n + 6 /\ j <= m
  <2>1. PICK h \in 0..l : h = i - (5 * n + 6)
      BY <1>3
  <2>2. PICK r \in (h + 1)..(l + 1) : r = j - (5 * n + 5)
      BY <1>3, <2>1
  <2>3. /\ r - h < 3 /\ (j # i => r # h + 1) /\ (r = h + 1 => h > 0)
        /\ i - 1 = 1 + (5 * n + 4) + h /\ j = 1 + (5 * n + 4) + r
      BY <1>3, <2>1, <2>2
  <2>4. QED
      BY <2>3, Zenon DEF Placed
<1>4. CASE j > m
    BY <1>4 DEF Placed
<1>5. QED
    BY <1>1, <1>2, <1>3, <1>4

\* The same for all places.
LEMMA SplicePlacesAll ==
  \A n, l, m \in Nat : m = 5 * n + 6 + l =>
    \A i \in 1..m : \A j \in i..(i + 1) : Placed(n, l, i, j)
BY SplicePlaces, Zenon

\* A splice anywhere in the line.
LEMMA HeardSplice ==
  ASSUME NEW b \in Broadcasts, NEW n \in Nat, n = Len(b.readings),
         NEW m \in Nat, m = 5 * n + 6 + HexLen,
         NEW i \in 1..m, NEW j \in i..(i + 1),
         NEW g \in Seq(Int), NEW x \in 1..Other, g = <<>> \/ g = <<x>>,
         g = <<>> => j # i
  PROVE  Right(b, Spliced(Wire(b), i - 1, g, j) \o <<Return>>)
<1>1. HexLen \in Nat
    BY BaseFacts
<1>2. Placed(n, HexLen, i, j)
    BY <1>1, SplicePlacesAll, Zenon
<1>3. CASE i = 1 /\ i - 1 = 0 /\ j \in 1..2
  <2>1. PICK k \in 1..2 : k = j
      BY <1>3, Zenon
  <2>2. g = <<>> => k # 1
      BY <1>3, <2>1, Zenon
  <2>3. Right(b, Spliced(Wire(b), 0, g, k) \o <<Return>>)
      BY <2>2, HeardFirst, Zenon
  <2>4. QED
      BY <1>3, <2>1, <2>3, Zenon
<1>4. CASE i - 1 = 5 * n + 5 + HexLen /\ j = 5 * n + 7 + HexLen
  <2>1. Right(b, Spliced(Wire(b), 5 * n + 5 + HexLen, g, 5 * n + 7 + HexLen) \o <<Return>>)
      BY HeardLast, Zenon
  <2>2. QED
      BY <1>4, <2>1, Zenon
<1>5. CASE \E h \in 0..(5 * n + 4) : \E r \in (h + 1)..(5 * n + 5) :
             /\ r - h < 3 /\ (j # i => r # h + 1)
             /\ i - 1 = 1 + h /\ j = 1 + r
  <2>1. PICK h \in 0..(5 * n + 4) : \E r \in (h + 1)..(5 * n + 5) :
             /\ r - h < 3 /\ (j # i => r # h + 1)
             /\ i - 1 = 1 + h /\ j = 1 + r
      BY <1>5, Zenon
  <2>2. PICK r \in (h + 1)..(5 * n + 5) :
             /\ r - h < 3 /\ (j # i => r # h + 1)
             /\ i - 1 = 1 + h /\ j = 1 + r
      BY <2>1, Zenon
  <2>3. r - h < 3 /\ (g = <<>> => r # h + 1)
      BY <2>2, Zenon
  <2>4. Right(b, Spliced(Wire(b), 1 + h, g, 1 + r) \o <<Return>>)
      BY <2>3, HeardBody, Zenon
  <2>5. QED
      BY <2>2, <2>4, Zenon
<1>6. CASE \E h \in 0..HexLen : \E r \in (h + 1)..(HexLen + 1) :
             /\ r - h < 3 /\ (j # i => r # h + 1) /\ (r = h + 1 => h > 0)
             /\ i - 1 = 1 + (5 * n + 4) + h /\ j = 1 + (5 * n + 4) + r
  <2>1. PICK h \in 0..HexLen : \E r \in (h + 1)..(HexLen + 1) :
             /\ r - h < 3 /\ (j # i => r # h + 1) /\ (r = h + 1 => h > 0)
             /\ i - 1 = 1 + (5 * n + 4) + h /\ j = 1 + (5 * n + 4) + r
      BY <1>6, Zenon
  <2>2. PICK r \in (h + 1)..(HexLen + 1) :
             /\ r - h < 3 /\ (j # i => r # h + 1) /\ (r = h + 1 => h > 0)
             /\ i - 1 = 1 + (5 * n + 4) + h /\ j = 1 + (5 * n + 4) + r
      BY <2>1, Zenon
  <2>3. r - h < 3 /\ (r = h + 1 => h > 0)
      BY <2>2, Zenon
  <2>4. Right(b, Spliced(Wire(b), 1 + (5 * n + 4) + h, g, 1 + (5 * n + 4) + r)
                   \o <<Return>>)
      BY <2>3, HeardField, Zenon
  <2>5. QED
      BY <2>2, <2>4, Zenon
<1>7. QED
    BY <1>2, <1>3, <1>4, <1>5, <1>6, Zenon DEF Placed

\* What comes of a line that is garbled in one byte, or short of one, or has one
\* too many, or is heard from somewhere on.
LEMMA HeardNoisy ==
  ASSUME NEW b \in Broadcasts, NEW s \in Noisy(Wire(b))
  PROVE  Right(b, s \o <<Return>>)
<1>1. PICK n \in Nat : n = Len(b.readings)
    BY BroadcastFacts
<1>2. PICK m \in Nat : m = 5 * n + 6 + HexLen
  <2>1. 5 * n + 6 + HexLen \in Nat
      BY BaseFacts
  <2>2. QED
      BY <2>1, Zenon
<1>3. /\ Wire(b) \in Seq(Int) /\ Len(Wire(b)) = m /\ DOMAIN Wire(b) = 1..m
  <2>1. /\ Wire(b) \in Seq(Int) /\ Len(Wire(b)) = 5 * n + 6 + HexLen
        /\ Wire(b)[1] = Space
        /\ \A k \in 1..(5 * n + 4) : Wire(b)[k + 1] = Body(b)[k]
        /\ \A k \in 1..HexLen : /\ Wire(b)[5 * n + 5 + k] # Semi
                                /\ Wire(b)[5 * n + 5 + k] # Space
                                /\ Wire(b)[5 * n + 5 + k] # Return
        /\ Wire(b)[5 * n + 6 + HexLen] = Semi
      BY <1>1, WireAt, Zenon
  <2>2. Wire(b) \in Seq(Int) /\ Len(Wire(b)) = m
      BY <1>2, <2>1, Zenon
  <2>3. DOMAIN Wire(b) = 1..Len(Wire(b))
      BY <2>2
  <2>4. QED
      BY <2>2, <2>3, Zenon
<1>4. Bytes = 1..Other /\ 1 \in 1..Other /\ <<>> \in Seq(Int)
  <2>1. 1 \in 1..Other
      BY ByteFacts
  <2>2. QED
      BY <2>1 DEF Bytes
<1>5. ASSUME NEW i \in 1..m
      PROVE  /\ i \in i..(i + 1) /\ i + 1 \in i..(i + 1) /\ i + 1 # i
    OBVIOUS
<1>6. ASSUME NEW x \in 1..Other PROVE <<x>> \in Seq(Int) /\ <<x>> # <<>>
    OBVIOUS
<1>7. CASE s = Wire(b)
  <2>1. PICK w \in Seq(Int) : w = Wire(b) /\ Len(w) > 0 /\ w[Len(w)] = Semi
    <3>1. /\ Wire(b) \in Seq(Int) /\ Len(Wire(b)) = 5 * n + 6 + HexLen
          /\ Wire(b)[1] = Space
          /\ \A k \in 1..(5 * n + 4) : Wire(b)[k + 1] = Body(b)[k]
          /\ \A k \in 1..HexLen : /\ Wire(b)[5 * n + 5 + k] # Semi
                                  /\ Wire(b)[5 * n + 5 + k] # Space
                                  /\ Wire(b)[5 * n + 5 + k] # Return
          /\ Wire(b)[5 * n + 6 + HexLen] = Semi
        BY <1>1, WireAt, Zenon
    <3>2. 5 * n + 6 + HexLen > 0
        BY BaseFacts
    <3>3. QED
        BY <3>1, <3>2, Zenon
  <2>2. Content(w \o <<Return>>) = w
      BY <2>1, ContentClosed, Zenon
  <2>3. Content(s \o <<Return>>) = Wire(b)
      BY <1>7, <2>1, <2>2, Zenon
  <2>4. QED
      BY <2>3, IntactHeard, Zenon DEF Right
<1>8. CASE \E i \in 1..m, x \in 1..Other : s = Spliced(Wire(b), i - 1, <<x>>, i + 1)
  <2>1. PICK i \in 1..m, x \in 1..Other : s = Spliced(Wire(b), i - 1, <<x>>, i + 1)
      BY <1>8, Zenon
  <2>2. PICK g \in Seq(Int), j \in i..(i + 1) : g = <<x>> /\ g # <<>> /\ j = i + 1
      BY <1>5, <1>6, Zenon
  <2>3. Right(b, Spliced(Wire(b), i - 1, g, j) \o <<Return>>)
      BY <1>1, <1>2, <2>2, HeardSplice, Zenon
  <2>4. QED
      BY <2>1, <2>2, <2>3, Zenon
<1>9. CASE \E i \in 1..m : s = Spliced(Wire(b), i - 1, <<>>, i + 1)
  <2>1. PICK i \in 1..m : s = Spliced(Wire(b), i - 1, <<>>, i + 1)
      BY <1>9, Zenon
  <2>2. PICK g \in Seq(Int), j \in i..(i + 1), x \in 1..Other :
          g = <<>> /\ j = i + 1 /\ j # i
      BY <1>4, <1>5, Zenon
  <2>3. Right(b, Spliced(Wire(b), i - 1, g, j) \o <<Return>>)
      BY <1>1, <1>2, <2>2, HeardSplice, Zenon
  <2>4. QED
      BY <2>1, <2>2, <2>3, Zenon
<1>10. CASE \E i \in 1..m, x \in 1..Other : s = Spliced(Wire(b), i - 1, <<x>>, i)
  <2>1. PICK i \in 1..m, x \in 1..Other : s = Spliced(Wire(b), i - 1, <<x>>, i)
      BY <1>10, Zenon
  <2>2. PICK g \in Seq(Int), j \in i..(i + 1) : g = <<x>> /\ g # <<>> /\ j = i
      BY <1>5, <1>6, Zenon
  <2>3. Right(b, Spliced(Wire(b), i - 1, g, j) \o <<Return>>)
      BY <1>1, <1>2, <2>2, HeardSplice, Zenon
  <2>4. QED
      BY <2>1, <2>2, <2>3, Zenon
<1>11. CASE \E i \in 1..m : s = SubSeq(Wire(b), i, m)
  <2>1. PICK i \in 1..m : s = SubSeq(Wire(b), i, m)
      BY <1>11, Zenon
  <2>2. Right(b, SubSeq(Wire(b), i, m) \o <<Return>>)
      BY <1>1, <1>2, HeardCut, Zenon
  <2>3. QED
      BY <2>1, <2>2, Zenon
<1>12. \/ s = Wire(b)
       \/ \E i \in 1..m, x \in 1..Other : s = Spliced(Wire(b), i - 1, <<x>>, i + 1)
       \/ \E i \in 1..m : s = Spliced(Wire(b), i - 1, <<>>, i + 1)
       \/ \E i \in 1..m, x \in 1..Other : s = Spliced(Wire(b), i - 1, <<x>>, i)
       \/ \E i \in 1..m : s = SubSeq(Wire(b), i, m)
  <2>1. PICK w : w = Wire(b)
      OBVIOUS
  <2>2. /\ DOMAIN w = 1..m /\ Len(w) = m /\ s \in Noisy(w)
      BY <1>3, <2>1, Zenon
  <2>3. \/ s = w
        \/ \E i \in 1..m, x \in 1..Other : s = Spliced(w, i - 1, <<x>>, i + 1)
        \/ \E i \in 1..m : s = Spliced(w, i - 1, <<>>, i + 1)
        \/ \E i \in 1..m, x \in 1..Other : s = Spliced(w, i - 1, <<x>>, i)
        \/ \E i \in 1..m : s = SubSeq(w, i, m)
    <3>1. \/ s = w
          \/ \E i \in DOMAIN w, x \in Bytes : s = Spliced(w, i - 1, <<x>>, i + 1)
          \/ \E i \in DOMAIN w : s = Spliced(w, i - 1, <<>>, i + 1)
          \/ \E i \in DOMAIN w, x \in Bytes : s = Spliced(w, i - 1, <<x>>, i)
          \/ \E i \in DOMAIN w : s = SubSeq(w, i, Len(w))
      <4>1. s \in Noisy(w)
          BY <2>2, Zenon
      <4> DEFINE
            Garbled == {Spliced(w, i - 1, <<x>>, i + 1) : i \in DOMAIN w, x \in Bytes}
            Lost == {Spliced(w, i - 1, <<>>, i + 1) : i \in DOMAIN w}
            More == {Spliced(w, i - 1, <<x>>, i) : i \in DOMAIN w, x \in Bytes}
            Cuts == {SubSeq(w, i, Len(w)) : i \in DOMAIN w}
      <4>2. Noisy(w) = {w} \cup Garbled \cup Lost \cup More \cup Cuts
          BY DEF Noisy
      <4>3. s \in Garbled =>
              \E i \in DOMAIN w, x \in Bytes : s = Spliced(w, i - 1, <<x>>, i + 1)
          OBVIOUS
      <4>4. s \in Lost => \E i \in DOMAIN w : s = Spliced(w, i - 1, <<>>, i + 1)
          OBVIOUS
      <4>5. s \in More =>
              \E i \in DOMAIN w, x \in Bytes : s = Spliced(w, i - 1, <<x>>, i)
          OBVIOUS
      <4>6. s \in Cuts => \E i \in DOMAIN w : s = SubSeq(w, i, Len(w))
          OBVIOUS
      <4> HIDE DEF Garbled, Lost, More, Cuts
      <4>7. s \in {w} \/ s \in Garbled \/ s \in Lost \/ s \in More \/ s \in Cuts
          BY <4>1, <4>2
      <4>8. QED
          BY <4>3, <4>4, <4>5, <4>6, <4>7, Zenon
    <3>2. QED
        BY <1>4, <2>2, <3>1, Zenon
  <2>4. QED
      BY <2>1, <2>3, Zenon
<1>13. QED
    BY <1>7, <1>8, <1>9, <1>10, <1>11, <1>12, Zenon

\* For every base and width of the checksum and for everything an analyser may
\* say: a frame made of a line that is garbled in one byte, or lost one, or got
\* one, or is heard from somewhere on, says what the analyser said, and the line
\* as it was sent makes a frame (parser.py, checksum.py).
THEOREM OutcomesRight == \A o \in Lines : (o.frame => o.right) /\ (o.intact => o.frame)
<1>1. ASSUME NEW b \in Broadcasts, NEW s \in Noisy(Wire(b)), NEW o,
             o = Outcome(b, s \o <<Return>>)
      PROVE  (o.frame => o.right) /\ (o.intact => o.frame)
  <2>1. PICK raw : raw = s \o <<Return>>
      OBVIOUS
  <2>2. /\ o.frame <=> Accepted(raw)
        /\ o.right <=> Right(b, raw)
        /\ o.intact <=> raw = Wire(b) \o <<Return>>
    <3>1. o = Outcome(b, raw)
        BY <1>1, <2>1, Zenon
    <3>2. QED
        BY <3>1, Zenon DEF Outcome, Right
  <2>3. Right(b, raw)
      BY <2>1, HeardNoisy, Zenon
  <2>4. raw = Wire(b) \o <<Return>> => Accepted(raw)
    <3>1. PICK n \in Nat : n = Len(b.readings)
        BY BroadcastFacts
    <3>2. PICK w \in Seq(Int) : w = Wire(b) /\ Len(w) > 0 /\ w[Len(w)] = Semi
      <4>1. /\ Wire(b) \in Seq(Int) /\ Len(Wire(b)) = 5 * n + 6 + HexLen
            /\ Wire(b)[1] = Space
            /\ \A k \in 1..(5 * n + 4) : Wire(b)[k + 1] = Body(b)[k]
            /\ \A k \in 1..HexLen : /\ Wire(b)[5 * n + 5 + k] # Semi
                                    /\ Wire(b)[5 * n + 5 + k] # Space
                                    /\ Wire(b)[5 * n + 5 + k] # Return
            /\ Wire(b)[5 * n + 6 + HexLen] = Semi
          BY <3>1, WireAt, Zenon
      <4>2. 5 * n + 6 + HexLen > 0
          BY <3>1, BaseFacts
      <4>3. QED
          BY <4>1, <4>2, Zenon
    <3>3. Content(w \o <<Return>>) = w
        BY <3>2, ContentClosed, Zenon
    <3>4. raw = Wire(b) \o <<Return>> => Content(raw) = Wire(b)
        BY <3>2, <3>3, Zenon
    <3>5. QED
        BY <3>4, IntactHeard, Zenon
  <2>5. QED
      BY <2>2, <2>3, <2>4, Zenon
<1>2. QED
    BY <1>1, Zenon DEF Lines

-----------------------------------------------------------------------------
\* What the receive loop makes of it

\* No step of the loop takes a line for what was not said, or refuses what was.
LEMMA NeverMisheard == ~misheard /\ [Next]_vars => ~misheard'
<1> SUFFICES ASSUME ~misheard, [Next]_vars PROVE ~misheard'
    OBVIOUS
<1>1. ASSUME NEW l \in Lines, HandleGood(l) PROVE ~misheard'
  <2>1. l.frame /\ (misheard' = (misheard \/ ~l.right))
      BY <1>1, Zenon DEF HandleGood
  <2>2. l.right
      BY <2>1, OutcomesRight, Zenon
  <2>3. QED
      BY <2>1, <2>2, Zenon
<1>2. ASSUME NEW l \in Lines, HandleBad(l) PROVE ~misheard'
  <2>1. ~l.frame /\ (misheard' = (misheard \/ l.intact))
      BY <1>2, Zenon DEF HandleBad
  <2>2. ~l.intact
      BY <2>1, OutcomesRight, Zenon
  <2>3. QED
      BY <2>1, <2>2, Zenon
<1>3. CASE LineLost
    BY <1>3 DEF LineLost
<1>4. ASSUME NEW r \in Readers, Reading(r) PROVE ~misheard'
    BY <1>4 DEF Reading, Ask, Answer, TimeOut
<1>5. ASSUME NEW s \in Streams, Subscribe(s) \/ Consumer(s) \/ CloseStream(s)
      PROVE  ~misheard'
    BY <1>5 DEF Subscribe, Consumer, Receive, EndOfStream, CloseStream
<1>6. ASSUME NEW identify_on_enter \in BOOLEAN, Enter(identify_on_enter) PROVE ~misheard'
    BY <1>6 DEF Enter
<1>7. CASE Identified \/ IdentifyFails \/ Exit \/ Closing
    BY <1>7 DEF Identified, IdentifyFails, Exit, Closing, LoopCancelled, CloseClient
<1>8. CASE UNCHANGED vars
    BY <1>8 DEF vars
<1>9. QED
    BY <1>1, <1>2, <1>3, <1>4, <1>5, <1>6, <1>7, <1>8, Zenon DEF Next, Loop

\* Whatever the base and the width of the checksum, the readings and the noise:
\* the cache and the streams get no frame but what the analyser said, and every
\* line as it was sent is taken (continuous/client.py, parser.py, checksum.py).
THEOREM HeardRightAlways == Spec => []HeardRight
<1>1. Init => ~misheard
    BY DEF Init
<1>2. QED
    BY <1>1, NeverMisheard, PTL DEF Spec, HeardRight
=============================================================================

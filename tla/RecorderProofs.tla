--------------------------- MODULE RecorderProofs ---------------------------
(***************************************************************************)
(* Theorems of Recorder, for every period, duration, buffer size, backoff  *)
(* schedule, poll time and wake-up latency; and of PollStream: the         *)
(* recording inside a session is a recording of Recorder, so that those    *)
(* theorems are theorems about it, and what leaving a session tells its    *)
(* caller, for every batch and every count.                                *)
(***************************************************************************)
EXTENDS PollStream, SequenceTheorems, TLAPS

\* Once the summary is closed the body has been left and the producer joined.
Joined == finished_at => cm = "closing" /\ outcome # "running"

-----------------------------------------------------------------------------
\* The schedule

\* Rounding up, as the slot count of recorder.py:315 does.
LEMMA Division ==
  ASSUME NEW a \in Nat, NEW p \in Nat \ {0}
  PROVE  /\ a \div p \in Nat
         /\ (a \div p) * p <= a
         /\ a < (a \div p) * p + p
OBVIOUS

\* Slot numbers in units of the period (recorder.py:317-318).
LEMMA Slots ==
  ASSUME NEW t \in Nat, NEW m \in Nat
  PROVE  /\ Target(t) \in Nat
         /\ Target(t + m) = Target(t) + m * Period
BY RecorderAssumption DEF Target

\* The skipped slots are those whose end has passed: the one it stops at
\* has begun at most a period ago, if it has begun.
LEMMA MissedFacts ==
  ASSUME NEW t \in Nat, NEW now \in Nat
  PROVE  /\ Missed(t, now) \in Nat
         /\ now <= Target(t + Missed(t, now)) + Period
<1> DEFINE q == (now - Target(t)) \div Period
<1>1. Period \in Nat /\ Period \in Nat \ {0}
  BY RecorderAssumption
<1>2. Target(t) \in Nat
  BY Slots
<1>3. CASE now > Target(t) + Period
  <2>1. now - Target(t) \in Nat
    BY <1>1, <1>2, <1>3
  <2>2. q \in Nat /\ now - Target(t) < q * Period + Period
    BY <2>1, <1>1, Division
  <2>3. Missed(t, now) = q
    BY <1>3 DEF Missed
  <2>4. Target(t + q) = Target(t) + q * Period /\ q * Period \in Nat
    BY <2>2, <1>1, Slots
  <2> QED
    BY <2>2, <2>3, <2>4, <1>1, <1>2
<1>4. CASE ~(now > Target(t) + Period)
  <2>1. Missed(t, now) = 0
    BY <1>4 DEF Missed
  <2>2. t + 0 = t
    OBVIOUS
  <2> QED
    BY <2>1, <2>2, <1>1, <1>2, <1>4
<1> QED
  BY <1>3, <1>4

\* What entering the loop for slot t does, whether it ends, sleeps or polls.
LEMMA NextSlotFacts ==
  ASSUME NEW t \in Nat, NEW late \in Nat, NEW now \in Nat,
         outcome \in Outcomes,
         NextSlot(t, late, now)
  PROVE  /\ clock' = now
         /\ tick' \in Nat
         /\ samples_late' \in Nat
         /\ samples_late' + t = tick' + late
         /\ pc' \in {"sleep", "poll", "end"}
         /\ outcome' \in Outcomes
         /\ pc' = "poll" => /\ now >= Target(tick')
                            /\ now <= Target(tick') + Period
<1> DEFINE m == Missed(t, now)
<1>1. m \in Nat /\ now <= Target(t + m) + Period
  BY MissedFacts
<1>2. Target(t + m) \in Nat
  BY <1>1, Slots
<1> HIDE DEF m
<1>3. CASE t < TotalTicks
  <2>1. /\ clock' = now
        /\ tick' = t + m
        /\ samples_late' = late + m
        /\ pc' = IF now < Target(t + m) THEN "sleep" ELSE "poll"
        /\ outcome' = outcome
    BY <1>3 DEF NextSlot, m
  <2> QED
    BY <2>1, <1>1, <1>2
<1>4. CASE ~(t < TotalTicks)
  <2>1. /\ clock' = now
        /\ tick' = t
        /\ samples_late' = late
        /\ pc' = "end"
        /\ outcome' = "finished"
    BY <1>4 DEF NextSlot
  <2> QED
    BY <2>1 DEF Outcomes
<1> QED
  BY <1>3, <1>4

\* Every way into the next slot gives NextSlot numbers.
LEMMA Numbers ==
  ASSUME TypeOK, NEW d \in 0..MaxWait, NEW l \in 0..MaxLatency
  PROVE  /\ tick + 1 \in Nat /\ samples_late + 1 \in Nat
         /\ clock + d \in Nat /\ Target(tick) + l \in Nat
         /\ BackoffDelay \in Nat
         /\ clock + BackoffDelay + l \in Nat
         /\ l <= MaxLatency /\ MaxLatency \in Nat /\ Period \in Nat
<1>1. /\ tick \in Nat /\ samples_late \in Nat /\ clock \in Nat /\ backoff_idx \in Nat
      /\ d \in Nat /\ l \in Nat /\ MaxLatency \in Nat /\ l <= MaxLatency
      /\ Period \in Nat
  BY RecorderAssumption DEF TypeOK
<1>2. BackoffDelay \in Nat
  <2> DEFINE i == IF backoff_idx < Len(Backoff) THEN backoff_idx + 1 ELSE Len(Backoff)
  <2>1. Backoff \in Seq(Nat) /\ Len(Backoff) \in Nat /\ Len(Backoff) > 0
    BY RecorderAssumption
  <2>2. i \in 1..Len(Backoff)
    BY <2>1, <1>1
  <2>3. Backoff[i] \in Nat
    BY <2>1, <2>2, ElementOfSeq
  <2> QED
    BY <2>3 DEF BackoffDelay
<1>3. Target(tick) \in Nat
  BY <1>1, Slots
<1> QED
  BY <1>1, <1>2, <1>3

-----------------------------------------------------------------------------
\* The inductive invariant

IInv ==
  /\ TypeOK
  /\ SlotsAccounted
  /\ EmittedAccounted
  /\ StartsInItsSlot
  /\ BlockLosesNothing
  /\ Joined

\* Sequences as the channel uses them.
LEMMA Queues ==
  ASSUME NEW q \in Seq(Nat), NEW e \in Nat
  PROVE  /\ Append(q, e) \in Seq(Nat)
         /\ <<e>> \in Seq(Nat)
         /\ Append(q, e) = q \o <<e>>
         /\ Len(Append(q, e)) = Len(q) + 1
         /\ Len(q) \in Nat
         /\ q # <<>> => /\ Head(q) \in Nat
                        /\ Tail(q) \in Seq(Nat)
                        /\ Len(q) > 0
                        /\ Len(Tail(q)) = Len(q) - 1
                        /\ q = <<Head(q)>> \o Tail(q)
OBVIOUS

\* Taking the head of the queue to the end of what was delivered changes
\* nothing in the sequence of both.
LEMMA Handover ==
  ASSUME NEW p \in Seq(Nat), NEW q \in Seq(Nat), q # <<>>
  PROVE  Append(p, Head(q)) \o Tail(q) = p \o q
<1>1. /\ Head(q) \in Nat /\ Tail(q) \in Seq(Nat)
      /\ q = <<Head(q)>> \o Tail(q)
  BY Queues
<1>2. Append(p, Head(q)) = p \o <<Head(q)>>
  BY <1>1, Queues
<1>3. <<Head(q)>> \in Seq(Nat)
  BY <1>1, Queues
<1>4. (p \o <<Head(q)>>) \o Tail(q) = p \o (<<Head(q)>> \o Tail(q))
  BY <1>1, <1>3, ConcatAssociative, SMTT(30)
<1> QED
  BY <1>1, <1>2, <1>4

\* A batch that follows both follows the second.
LEMMA Following ==
  ASSUME NEW p \in Seq(Nat), NEW q \in Seq(Nat), NEW e \in Nat
  PROVE  /\ p \o q \in Seq(Nat)
         /\ (p \o q) \o <<>> = p \o q
         /\ (p \o q) \o <<e>> = p \o Append(q, e)
<1>1. p \o q \in Seq(Nat)
  BY ConcatProperties
<1>2. <<e>> \in Seq(Nat) /\ Append(q, e) = q \o <<e>>
  BY Queues
<1>3. (p \o q) \o <<e>> = p \o (q \o <<e>>)
  BY <1>2, ConcatAssociative
<1>4. (p \o q) \o <<>> = p \o q
  BY <1>1, ConcatEmptySeq
<1> QED
  BY <1>1, <1>2, <1>3, <1>4

\* A recording starts with all counters at zero (recorder.py:175-224).
LEMMA InitIInv == Init => IInv
<1> SUFFICES ASSUME Init PROVE IInv
  OBVIOUS
<1>1. TypeOK
  <2>1. <<>> \in Seq(Nat) /\ Len(<<>>) = 0 /\ BufferSize \in Nat
    BY RecorderAssumption
  <2>2. /\ opts \in Options /\ clock = 0 /\ pc = "poll" /\ outcome = "running" /\ tick = 0
        /\ backoff_idx = 0 /\ samples_emitted = 0 /\ samples_late = 0 /\ disconnects = 0
        /\ finished_at = FALSE /\ queue = <<>> /\ cm = "open" /\ ended = FALSE
        /\ polled = <<>> /\ delivered = <<>> /\ evicted = 0
    BY DEF Init
  <2>3. Len(queue) <= BufferSize
    BY <2>1, <2>2
  <2> QED
    BY <2>1, <2>2, <2>3 DEF TypeOK, Awaits, Outcomes
<1>2. SlotsAccounted /\ EmittedAccounted
  BY DEF Init, SlotsAccounted, EmittedAccounted
<1>3. StartsInItsSlot
  BY RecorderAssumption DEF Init, StartsInItsSlot, Target
<1>4. BlockLosesNothing /\ Joined
  BY DEF Init, BlockLosesNothing, Joined
<1> QED
  BY <1>1, <1>2, <1>3, <1>4 DEF IInv

\* A poll that returns, whatever becomes of its batch.
LEMMA PublishIInv ==
  ASSUME IInv, NEW d \in 0..MaxWait, Publish(d)
  PROVE  IInv'
<1> USE DEF PollReturns, At
<1>0. 0 \in 0..MaxLatency
  BY RecorderAssumption
<1>1. /\ TypeOK /\ tick \in Nat /\ samples_late \in Nat /\ samples_emitted \in Nat
      /\ evicted \in Nat /\ queue \in Seq(Nat) /\ delivered \in Seq(Nat)
      /\ polled \in Seq(Nat) /\ tick + 1 \in Nat /\ samples_late + 1 \in Nat
      /\ clock + d \in Nat /\ outcome \in Outcomes
      /\ Len(delivered) \in Nat /\ Len(queue) \in Nat /\ BufferSize \in Nat \ {0}
      /\ Len(queue) <= BufferSize
  BY <1>0, Numbers, RecorderAssumption DEF IInv, TypeOK
<1>2. /\ pc = "poll" /\ outcome = "running" /\ cm = "open" /\ ~finished_at
      /\ polled' = Append(polled, tick) /\ backoff_idx' = 0
      /\ opts' = opts /\ disconnects' = disconnects /\ finished_at' = finished_at
      /\ delivered' = delivered /\ ended' = ended /\ cm' = cm
  BY DEF Publish, PublishRoom, PublishBlock, PublishDropNewest, PublishDropOldest,
         IInv, Joined
<1>3. /\ Append(polled, tick) \in Seq(Nat) /\ Append(queue, tick) \in Seq(Nat)
      /\ Append(polled, tick) = polled \o <<tick>>
      /\ Append(queue, tick) = queue \o <<tick>>
      /\ Len(Append(queue, tick)) = Len(queue) + 1
      /\ <<tick>> \in Seq(Nat)
  BY <1>1, Queues
<1>4. /\ samples_emitted + samples_late = tick + evicted
      /\ samples_emitted = Len(delivered) + Len(queue) + evicted
  BY <1>1, <1>2 DEF IInv, SlotsAccounted, EmittedAccounted
<1>5. opts.overflow = "BLOCK" => polled = delivered \o queue
  <2>1. (delivered \o queue) \o <<>> = delivered \o queue
    BY <1>1, Following
  <2> QED
    BY <1>2, <2>1 DEF IInv, BlockLosesNothing
<1>6. Joined'
  BY <1>2 DEF Joined
<1>7. CASE PublishRoom(d)
  <2>1. /\ Len(queue) < BufferSize /\ queue' = Append(queue, tick)
        /\ samples_emitted' = samples_emitted + 1 /\ evicted' = evicted
        /\ NextSlot(tick + 1, samples_late, clock + d)
    BY <1>7, <1>1 DEF PublishRoom, Full
  <2>2. /\ clock' = clock + d /\ tick' \in Nat /\ samples_late' \in Nat
        /\ samples_late' + (tick + 1) = tick' + samples_late
        /\ pc' \in {"sleep", "poll", "end"} /\ outcome' \in Outcomes
        /\ pc' = "poll" => clock + d >= Target(tick')
                           /\ clock + d <= Target(tick') + Period
    BY <2>1, <1>1, NextSlotFacts
  <2>3. TypeOK'
    BY <2>1, <2>2, <1>1, <1>2, <1>3, SMTT(30) DEF TypeOK, Awaits
  <2>4. SlotsAccounted'
    <3>1. ~(pc' \in {"backoff", "rebuild"})
      BY <2>2
    <3>2. samples_late' \in Nat /\ tick' \in Nat /\ tick \in Nat /\ evicted \in Nat
          /\ samples_emitted \in Nat /\ samples_late \in Nat
      BY <2>2, <1>1
    <3>3. /\ samples_emitted + samples_late = tick + evicted
          /\ samples_emitted' = samples_emitted + 1 /\ evicted' = evicted
          /\ samples_late' + (tick + 1) = tick' + samples_late
      BY <2>1, <2>2, <1>4
    <3>4. samples_emitted' + samples_late' = tick' + evicted'
      BY <3>2, <3>3
    <3>5. evicted' \in Nat
      BY <3>2, <3>3
    <3> QED
      BY <3>1, <3>2, <3>4, <3>5 DEF SlotsAccounted
  <2>7. EmittedAccounted'
    <3>1. (IF pc' = "sent" THEN 1 ELSE 0) = 0
      BY <2>2
    <3> QED
      BY <3>1, <2>1, <2>2, <1>1, <1>2, <1>3, <1>4 DEF EmittedAccounted
  <2>5. StartsInItsSlot'
    BY <2>2 DEF StartsInItsSlot, Target
  <2>6. BlockLosesNothing'
    <3>1. (delivered \o queue) \o <<tick>> = delivered \o Append(queue, tick)
      BY <1>1, Following, SMTT(30)
    <3>2. (delivered \o Append(queue, tick)) \o <<>> = delivered \o Append(queue, tick)
      BY <1>1, <1>3, Following
    <3> QED
      BY <3>1, <3>2, <2>1, <2>2, <1>2, <1>3, <1>5 DEF BlockLosesNothing
  <2> QED
    BY <2>3, <2>4, <2>5, <2>6, <2>7, <1>6 DEF IInv
<1>8. CASE PublishBlock(d)
  <2>1. /\ clock' = clock + d /\ pc' = "offer" /\ outcome' = outcome /\ tick' = tick
        /\ samples_emitted' = samples_emitted /\ samples_late' = samples_late
        /\ queue' = queue /\ evicted' = evicted
    BY <1>8 DEF PublishBlock
  <2>2. TypeOK'
    BY <2>1, <1>1, <1>2, <1>3 DEF TypeOK, Awaits
  <2>3. SlotsAccounted' /\ EmittedAccounted' /\ StartsInItsSlot'
    BY <2>1, <1>1, <1>2, <1>4 DEF SlotsAccounted, EmittedAccounted, StartsInItsSlot
  <2>4. BlockLosesNothing'
    BY <2>1, <1>2, <1>3, <1>5 DEF BlockLosesNothing
  <2> QED
    BY <2>2, <2>3, <2>4, <1>6 DEF IInv
<1>9. CASE PublishDropNewest(d)
  <2>1. /\ queue' = queue /\ samples_emitted' = samples_emitted /\ evicted' = evicted
        /\ opts.overflow = "DROP_NEWEST"
        /\ NextSlot(tick + 1, samples_late + 1, clock + d)
    BY <1>9 DEF PublishDropNewest
  <2>2. /\ clock' = clock + d /\ tick' \in Nat /\ samples_late' \in Nat
        /\ samples_late' + (tick + 1) = tick' + (samples_late + 1)
        /\ pc' \in {"sleep", "poll", "end"} /\ outcome' \in Outcomes
        /\ pc' = "poll" => clock + d >= Target(tick')
                           /\ clock + d <= Target(tick') + Period
    BY <2>1, <1>1, NextSlotFacts
  <2>3. TypeOK'
    BY <2>1, <2>2, <1>1, <1>2, <1>3 DEF TypeOK, Awaits
  <2>4. SlotsAccounted'
    <3>1. ~(pc' \in {"backoff", "rebuild"})
      BY <2>2
    <3>2. samples_late' \in Nat /\ tick' \in Nat /\ tick \in Nat /\ evicted \in Nat
          /\ samples_emitted \in Nat /\ samples_late \in Nat
      BY <2>2, <1>1
    <3>3. /\ samples_emitted + samples_late = tick + evicted
          /\ samples_emitted' = samples_emitted /\ evicted' = evicted
          /\ samples_late' + (tick + 1) = tick' + (samples_late + 1)
      BY <2>1, <2>2, <1>4
    <3>4. samples_emitted' + samples_late' = tick' + evicted'
      BY <3>2, <3>3
    <3>5. evicted' \in Nat
      BY <3>2, <3>3
    <3> QED
      BY <3>1, <3>2, <3>4, <3>5 DEF SlotsAccounted
  <2>7. EmittedAccounted'
    <3>1. (IF pc' = "sent" THEN 1 ELSE 0) = 0
      BY <2>2
    <3> QED
      BY <3>1, <2>1, <2>2, <1>1, <1>2, <1>4 DEF EmittedAccounted
  <2>5. StartsInItsSlot'
    BY <2>2 DEF StartsInItsSlot, Target
  <2>6. BlockLosesNothing'
    BY <2>1, <1>2 DEF BlockLosesNothing
  <2> QED
    BY <2>3, <2>4, <2>5, <2>6, <2>7, <1>6 DEF IInv
<1>10. CASE PublishDropOldest(d)
  <2>1. /\ Len(queue) >= BufferSize /\ queue' = Append(Tail(queue), tick)
        /\ samples_emitted' = samples_emitted + 1 /\ evicted' = evicted + 1
        /\ opts.overflow = "DROP_OLDEST"
        /\ NextSlot(tick + 1, samples_late + 1, clock + d)
    BY <1>10 DEF PublishDropOldest, Full
  <2>2. /\ clock' = clock + d /\ tick' \in Nat /\ samples_late' \in Nat
        /\ samples_late' + (tick + 1) = tick' + (samples_late + 1)
        /\ pc' \in {"sleep", "poll", "end"} /\ outcome' \in Outcomes
        /\ pc' = "poll" => clock + d >= Target(tick')
                           /\ clock + d <= Target(tick') + Period
    BY <2>1, <1>1, NextSlotFacts
  <2>3. /\ queue # <<>> /\ Tail(queue) \in Seq(Nat) /\ Len(Tail(queue)) = Len(queue) - 1
        /\ queue' \in Seq(Nat) /\ Len(queue') = Len(queue)
    <3>1. queue # <<>>
      BY <2>1, <1>1
    <3>2. Tail(queue) \in Seq(Nat) /\ Len(Tail(queue)) = Len(queue) - 1
      BY <3>1, <1>1, Queues
    <3>3. queue' \in Seq(Nat) /\ Len(queue') = Len(Tail(queue)) + 1
      BY <3>2, <2>1, <1>1, Queues
    <3> QED
      BY <3>1, <3>2, <3>3, <1>1
  <2>4. TypeOK'
    BY <2>1, <2>2, <2>3, <1>1, <1>2, <1>3 DEF TypeOK, Awaits
  <2>5. SlotsAccounted'
    <3>1. ~(pc' \in {"backoff", "rebuild"})
      BY <2>2
    <3>2. samples_late' \in Nat /\ tick' \in Nat /\ tick \in Nat /\ evicted \in Nat
          /\ samples_emitted \in Nat /\ samples_late \in Nat
      BY <2>2, <1>1
    <3>3. /\ samples_emitted + samples_late = tick + evicted
          /\ samples_emitted' = samples_emitted + 1 /\ evicted' = evicted + 1
          /\ samples_late' + (tick + 1) = tick' + (samples_late + 1)
      BY <2>1, <2>2, <1>4
    <3>4. samples_emitted' + samples_late' = tick' + evicted'
      BY <3>2, <3>3
    <3>5. evicted' \in Nat
      BY <3>2, <3>3
    <3> QED
      BY <3>1, <3>2, <3>4, <3>5 DEF SlotsAccounted
  <2>8. EmittedAccounted'
    <3>1. (IF pc' = "sent" THEN 1 ELSE 0) = 0
      BY <2>2
    <3> QED
      BY <3>1, <2>1, <2>2, <2>3, <1>1, <1>2, <1>4 DEF EmittedAccounted
  <2>6. StartsInItsSlot'
    BY <2>2 DEF StartsInItsSlot, Target
  <2>7. BlockLosesNothing'
    BY <2>1, <1>2 DEF BlockLosesNothing
  <2> QED
    BY <2>4, <2>5, <2>6, <2>7, <2>8, <1>6 DEF IInv
<1> QED
  BY <1>7, <1>8, <1>9, <1>10 DEF Publish

\* send_stream.send under BLOCK, once it is resumed.
LEMMA OfferIInv ==
  ASSUME IInv, OfferRoom \/ OfferBlocks
  PROVE  IInv'
<1>0. 0 \in 0..MaxWait /\ 0 \in 0..MaxLatency
  BY RecorderAssumption
<1>1. /\ tick \in Nat /\ samples_late \in Nat /\ samples_emitted \in Nat
      /\ evicted \in Nat /\ queue \in Seq(Nat) /\ delivered \in Seq(Nat)
      /\ tick + 1 \in Nat /\ clock \in Nat /\ outcome \in Outcomes
      /\ Len(delivered) \in Nat /\ Len(queue) \in Nat /\ BufferSize \in Nat
  BY <1>0, Numbers, RecorderAssumption DEF IInv, TypeOK
<1>2. /\ pc = "offer" /\ opts' = opts /\ backoff_idx' = backoff_idx
      /\ disconnects' = disconnects /\ finished_at' = finished_at
      /\ delivered' = delivered /\ evicted' = evicted /\ ended' = ended
      /\ cm' = cm /\ polled' = polled /\ cm = "open"
  BY DEF OfferRoom, OfferBlocks, At, summary, stream
<1>3. Joined'
  BY <1>2 DEF IInv, Joined
<1>4. CASE OfferBlocks
  <2>1. /\ pc' = "send" /\ clock' = clock /\ outcome' = outcome /\ tick' = tick
        /\ samples_emitted' = samples_emitted /\ samples_late' = samples_late
        /\ queue' = queue
    BY <1>4 DEF OfferBlocks, summary, stream
  <2>2. TypeOK'
    BY <2>1, <1>2 DEF IInv, TypeOK, Awaits
  <2>3. SlotsAccounted' /\ EmittedAccounted' /\ StartsInItsSlot' /\ BlockLosesNothing'
    BY <2>1, <1>2 DEF IInv, SlotsAccounted, EmittedAccounted, StartsInItsSlot,
                      BlockLosesNothing
  <2> QED
    BY <2>2, <2>3, <1>3 DEF IInv
<1>5. CASE OfferRoom
  <2>1. /\ Len(queue) < BufferSize /\ queue' = Append(queue, tick)
        /\ samples_emitted' = samples_emitted + 1
        /\ NextSlot(tick + 1, samples_late, clock)
    BY <1>5, <1>1 DEF OfferRoom, Full
  <2>2. /\ clock' = clock /\ tick' \in Nat /\ samples_late' \in Nat
        /\ samples_late' + (tick + 1) = tick' + samples_late
        /\ pc' \in {"sleep", "poll", "end"} /\ outcome' \in Outcomes
        /\ pc' = "poll" => clock >= Target(tick') /\ clock <= Target(tick') + Period
    BY <2>1, <1>1, NextSlotFacts
  <2>3. queue' \in Seq(Nat) /\ Len(queue') = Len(queue) + 1
    BY <2>1, <1>1, Queues
  <2>4. TypeOK'
    BY <2>1, <2>2, <2>3, <1>1, <1>2 DEF IInv, TypeOK, Awaits
  <2>5. SlotsAccounted'
    <3>1. samples_emitted + samples_late = tick + evicted
      BY <1>1, <1>2 DEF IInv, SlotsAccounted
    <3>a. samples_late' \in Nat /\ tick' \in Nat /\ tick \in Nat /\ evicted \in Nat
          /\ samples_emitted \in Nat /\ samples_late \in Nat
      BY <2>2, <1>1
    <3>b. /\ samples_emitted' = samples_emitted + 1 /\ evicted' = evicted
          /\ samples_late' + (tick + 1) = tick' + samples_late
      BY <2>1, <2>2, <1>2
    <3>2. samples_emitted' + samples_late' = tick' + evicted'
      BY <3>1, <3>a, <3>b
    <3>3. evicted' \in Nat /\ tick' \in Nat /\ ~(pc' \in {"backoff", "rebuild"})
      BY <2>2, <1>1, <1>2
    <3> QED
      BY <3>2, <3>3 DEF SlotsAccounted
  <2>6. EmittedAccounted'
    <3>1. samples_emitted = Len(delivered) + Len(queue) + evicted
      BY <1>1, <1>2 DEF IInv, EmittedAccounted
    <3>2. (IF pc' = "sent" THEN 1 ELSE 0) = 0
      BY <2>2
    <3> QED
      BY <3>1, <3>2, <2>1, <2>3, <1>1, <1>2 DEF EmittedAccounted
  <2>7. StartsInItsSlot'
    BY <2>2 DEF StartsInItsSlot, Target
  <2>8. BlockLosesNothing'
    <3>1. (delivered \o queue) \o <<tick>> = delivered \o queue'
      BY <2>1, <1>1, Following
    <3>2. (delivered \o queue') \o <<>> = delivered \o queue'
      BY <2>3, <1>1, Following
    <3>3. ~(pc' \in {"offer", "send"})
      BY <2>2
    <3>4. opts.overflow = "BLOCK" => polled = (delivered \o queue) \o <<tick>>
      BY <1>2 DEF IInv, BlockLosesNothing
    <3> QED
      BY <3>1, <3>2, <3>3, <3>4, <1>2 DEF BlockLosesNothing
  <2> QED
    BY <2>4, <2>5, <2>6, <2>7, <2>8, <1>3 DEF IInv
<1> QED
  BY <1>4, <1>5

\* The blocked send returns and its batch is counted.
LEMMA SendReturnsIInv ==
  ASSUME IInv, NEW d \in 0..MaxWait, SendReturns(d)
  PROVE  IInv'
<1>0. 0 \in 0..MaxLatency
  BY RecorderAssumption
<1>1. /\ TypeOK /\ tick \in Nat /\ samples_late \in Nat /\ samples_emitted \in Nat
      /\ evicted \in Nat /\ queue \in Seq(Nat) /\ delivered \in Seq(Nat)
      /\ tick + 1 \in Nat /\ clock + d \in Nat /\ outcome \in Outcomes
      /\ Len(delivered) \in Nat /\ Len(queue) \in Nat
  BY <1>0, Numbers DEF IInv, TypeOK
<1>2. /\ pc = "sent" /\ outcome = "running" /\ samples_emitted' = samples_emitted + 1
      /\ opts' = opts /\ backoff_idx' = backoff_idx /\ disconnects' = disconnects
      /\ finished_at' = finished_at /\ queue' = queue /\ delivered' = delivered
      /\ evicted' = evicted /\ ended' = ended /\ cm' = cm /\ polled' = polled
      /\ NextSlot(tick + 1, samples_late, clock + d)
  BY DEF SendReturns, stream
<1>3. /\ clock' = clock + d /\ tick' \in Nat /\ samples_late' \in Nat
      /\ samples_late' + (tick + 1) = tick' + samples_late
      /\ pc' \in {"sleep", "poll", "end"} /\ outcome' \in Outcomes
      /\ pc' = "poll" => clock + d >= Target(tick')
                         /\ clock + d <= Target(tick') + Period
  BY <1>1, <1>2, NextSlotFacts
<1>4. TypeOK'
  BY <1>1, <1>2, <1>3 DEF IInv, TypeOK, Awaits
<1>5. SlotsAccounted'
  <2>1. samples_emitted + samples_late = tick + evicted
    BY <1>1, <1>2 DEF IInv, SlotsAccounted
  <2>2. samples_late' + (tick + 1) = tick' + samples_late
    BY <1>3
  <2>3. /\ samples_late' \in Nat /\ tick' \in Nat /\ tick \in Nat /\ evicted \in Nat
        /\ samples_emitted \in Nat /\ samples_late \in Nat
    BY <1>1, <1>3
  <2>4. samples_emitted + 1 + samples_late' = tick' + evicted
    BY <2>1, <2>2, <2>3
  <2>5. ~(pc' \in {"backoff", "rebuild"})
    BY <1>3
  <2> QED
    BY <1>2, <2>3, <2>4, <2>5 DEF SlotsAccounted
<1>6. EmittedAccounted'
  <2>1. samples_emitted + 1 = Len(delivered) + Len(queue) + evicted
    BY <1>2 DEF IInv, EmittedAccounted
  <2>2. (IF pc' = "sent" THEN 1 ELSE 0) = 0
    BY <1>3
  <2> QED
    BY <1>1, <1>2, <2>1, <2>2 DEF EmittedAccounted
<1>7. StartsInItsSlot'
  BY <1>3 DEF StartsInItsSlot, Target
<1>8. BlockLosesNothing'
  BY <1>2, <1>3 DEF IInv, BlockLosesNothing
<1>9. Joined'
  BY <1>2 DEF IInv, Joined
<1> QED
  BY <1>4, <1>5, <1>6, <1>7, <1>8, <1>9 DEF IInv

\* The reconnect goes on with the next slot, from a backoff or a rebuild.
LEMMA ReconnectIInv ==
  ASSUME IInv, NEW now \in Nat,
         NextSlot(tick + 1, samples_late, now),
         pc \in {"backoff", "rebuild"}, outcome = "running", cm = "open",
         backoff_idx' \in {0, backoff_idx + 1},
         UNCHANGED <<opts, samples_emitted, disconnects, finished_at, stream, cm, polled>>
  PROVE  IInv'
<1>1. /\ TypeOK /\ tick \in Nat /\ samples_late \in Nat /\ samples_emitted \in Nat
      /\ evicted \in Nat /\ tick + 1 \in Nat /\ outcome \in Outcomes
      /\ backoff_idx' \in Nat
  BY DEF IInv, TypeOK
<1>2. /\ opts' = opts /\ samples_emitted' = samples_emitted
      /\ disconnects' = disconnects /\ finished_at' = finished_at
      /\ queue' = queue /\ delivered' = delivered
      /\ evicted' = evicted /\ ended' = ended /\ cm' = cm /\ polled' = polled
  BY DEF stream
<1>3. /\ clock' = now /\ tick' \in Nat /\ samples_late' \in Nat
      /\ samples_late' + (tick + 1) = tick' + samples_late
      /\ pc' \in {"sleep", "poll", "end"} /\ outcome' \in Outcomes
      /\ pc' = "poll" => now >= Target(tick') /\ now <= Target(tick') + Period
  BY <1>1, NextSlotFacts
<1>4. TypeOK'
  BY <1>1, <1>2, <1>3 DEF IInv, TypeOK, Awaits
<1>5. SlotsAccounted'
  <2>1. samples_emitted + samples_late = tick + evicted + 1
    BY <1>1 DEF IInv, SlotsAccounted
  <2>2. samples_late' + (tick + 1) = tick' + samples_late
    BY <1>3
  <2>3. /\ samples_late' \in Nat /\ tick' \in Nat /\ tick \in Nat /\ evicted \in Nat
        /\ samples_emitted \in Nat /\ samples_late \in Nat
    BY <1>1, <1>3
  <2>4. samples_emitted + samples_late' = tick' + evicted
    BY <2>1, <2>2, <2>3
  <2>5. ~(pc' \in {"backoff", "rebuild"})
    BY <1>3
  <2> QED
    BY <1>2, <2>3, <2>4, <2>5 DEF SlotsAccounted
<1>6. EmittedAccounted'
  BY <1>2, <1>3 DEF IInv, EmittedAccounted
<1>7. StartsInItsSlot'
  BY <1>3 DEF StartsInItsSlot, Target
<1>8. BlockLosesNothing'
  BY <1>2, <1>3 DEF IInv, BlockLosesNothing
<1>9. Joined'
  BY <1>2 DEF IInv, Joined
<1> QED
  BY <1>4, <1>5, <1>6, <1>7, <1>8, <1>9 DEF IInv

\* The source was rebuilt (recorder.py:342-352).
LEMMA RebuiltIInv ==
  ASSUME IInv, NEW d \in 0..MaxWait, Rebuilt(d)
  PROVE  IInv'
<1>0. 0 \in 0..MaxLatency
  BY RecorderAssumption
<1>1. clock + d \in Nat
  BY <1>0, Numbers DEF IInv
<1> QED
  BY <1>1, ReconnectIInv DEF Rebuilt, At

\* The backoff ends (recorder.py:341-352).
LEMMA BackoffOverIInv ==
  ASSUME IInv, NEW l \in 0..MaxLatency, BackoffOver(l)
  PROVE  IInv'
<1>0. 0 \in 0..MaxWait
  BY RecorderAssumption
<1>1. clock + BackoffDelay + l \in Nat
  BY <1>0, Numbers DEF IInv
<1>2. CASE opts.factory
  <2>1. /\ pc = "backoff" /\ outcome = "running" /\ cm = "open"
        /\ clock' = clock + BackoffDelay + l /\ pc' = "rebuild"
        /\ outcome' = outcome /\ tick' = tick /\ backoff_idx' = backoff_idx
        /\ samples_late' = samples_late /\ opts' = opts
        /\ samples_emitted' = samples_emitted /\ disconnects' = disconnects
        /\ finished_at' = finished_at /\ queue' = queue /\ delivered' = delivered
        /\ evicted' = evicted /\ ended' = ended /\ cm' = cm /\ polled' = polled
    BY <1>2 DEF BackoffOver, At, stream
  <2>2. TypeOK'
    BY <1>1, <2>1 DEF IInv, TypeOK, Awaits
  <2>3. SlotsAccounted' /\ EmittedAccounted'
    BY <2>1 DEF IInv, SlotsAccounted, EmittedAccounted
  <2>4. StartsInItsSlot' /\ BlockLosesNothing' /\ Joined'
    BY <2>1 DEF IInv, StartsInItsSlot, BlockLosesNothing, Joined
  <2> QED
    BY <2>2, <2>3, <2>4 DEF IInv
<1>3. CASE ~opts.factory
  <2>1. /\ NextSlot(tick + 1, samples_late, clock + BackoffDelay + l)
        /\ pc = "backoff" /\ outcome = "running" /\ cm = "open"
        /\ backoff_idx' = backoff_idx + 1
        /\ UNCHANGED <<opts, samples_emitted, disconnects, finished_at, stream, cm, polled>>
    BY <1>3 DEF BackoffOver, At
  <2> QED
    BY <1>1, <2>1, ReconnectIInv
<1> QED
  BY <1>2, <1>3

\* sleep_until returns, at most MaxLatency late.
LEMMA WakeIInv ==
  ASSUME IInv, NEW l \in 0..MaxLatency, Wake(l)
  PROVE  IInv'
<1>0. 0 \in 0..MaxWait
  BY RecorderAssumption
<1>1. /\ Target(tick) + l \in Nat /\ Target(tick) \in Nat /\ l \in Nat
      /\ l <= MaxLatency /\ MaxLatency \in Nat
  BY <1>0, Numbers, Slots DEF IInv, TypeOK
<1>2. /\ pc = "sleep" /\ outcome = "running" /\ pc' = "poll"
      /\ clock' = Target(tick) + l /\ tick' = tick
  BY DEF Wake, At
<1>3. /\ outcome' = outcome /\ backoff_idx' = backoff_idx
      /\ samples_emitted' = samples_emitted /\ samples_late' = samples_late
      /\ disconnects' = disconnects /\ opts' = opts
      /\ finished_at' = finished_at /\ queue' = queue /\ delivered' = delivered
      /\ evicted' = evicted /\ ended' = ended /\ cm' = cm /\ polled' = polled
  BY DEF Wake, summary, stream
<1>4. TypeOK'
  BY <1>1, <1>2, <1>3 DEF IInv, TypeOK, Awaits
<1>5. SlotsAccounted' /\ EmittedAccounted'
  BY <1>2, <1>3 DEF IInv, SlotsAccounted, EmittedAccounted
<1>6. StartsInItsSlot'
  <2>1. Target(tick') = Target(tick)
    BY <1>2
  <2>2. clock' >= Target(tick') /\ clock' <= Target(tick') + MaxLatency
    BY <1>1, <1>2, <2>1
  <2> QED
    BY <2>2 DEF StartsInItsSlot, Target
<1>7. BlockLosesNothing' /\ Joined'
  BY <1>2, <1>3 DEF IInv, BlockLosesNothing, Joined
<1> QED
  BY <1>4, <1>5, <1>6, <1>7 DEF IInv

\* The poll raises a connection error: the slot is late, and over at once.
LEMMA DisconnectIInv ==
  ASSUME IInv, NEW d \in 0..MaxWait, Disconnect(d)
  PROVE  IInv'
<1>0. 0 \in 0..MaxLatency
  BY RecorderAssumption
<1>1. /\ clock + d \in Nat /\ samples_late \in Nat /\ samples_emitted \in Nat
      /\ tick \in Nat /\ evicted \in Nat /\ disconnects \in Nat
  BY <1>0, Numbers DEF IInv, TypeOK
<1>2. /\ pc = "poll" /\ pc' = "backoff" /\ outcome' = outcome
      /\ clock' = clock + d /\ samples_late' = samples_late + 1
      /\ disconnects' = disconnects + 1
      /\ tick' = tick /\ backoff_idx' = backoff_idx
      /\ samples_emitted' = samples_emitted /\ opts' = opts
      /\ finished_at' = finished_at /\ queue' = queue /\ delivered' = delivered
      /\ evicted' = evicted /\ ended' = ended /\ cm' = cm /\ polled' = polled
  BY DEF Disconnect, At, stream
<1>3. TypeOK'
  BY <1>1, <1>2 DEF IInv, TypeOK, Awaits
<1>4. SlotsAccounted'
  <2>1. samples_emitted + samples_late = tick + evicted
    BY <1>1, <1>2 DEF IInv, SlotsAccounted
  <2> QED
    BY <1>1, <1>2, <2>1 DEF SlotsAccounted
<1>5. EmittedAccounted' /\ StartsInItsSlot'
  BY <1>2 DEF IInv, EmittedAccounted, StartsInItsSlot
<1>6. BlockLosesNothing' /\ Joined'
  BY <1>2 DEF IInv, BlockLosesNothing, Joined
<1> QED
  BY <1>3, <1>4, <1>5, <1>6 DEF IInv

\* A receive moves one batch from the queue to the consumer, and a blocked
\* batch, if there is one, to the end of the queue.
LEMMA ReceiveIInv == ASSUME IInv, Receive PROVE IInv'
<1>1. /\ tick \in Nat /\ queue \in Seq(Nat) /\ delivered \in Seq(Nat)
      /\ Len(queue) \in Nat /\ Len(delivered) \in Nat /\ evicted \in Nat
      /\ samples_emitted \in Nat /\ BufferSize \in Nat /\ Len(queue) <= BufferSize
  BY RecorderAssumption DEF IInv, TypeOK
<1>2. /\ queue # <<>> /\ cm = "open"
      /\ delivered' = Append(delivered, Head(queue))
      /\ opts' = opts /\ clock' = clock /\ outcome' = outcome /\ tick' = tick
      /\ backoff_idx' = backoff_idx /\ samples_emitted' = samples_emitted
      /\ samples_late' = samples_late /\ disconnects' = disconnects
      /\ finished_at' = finished_at /\ evicted' = evicted /\ ended' = ended
      /\ cm' = cm /\ polled' = polled
  BY DEF Receive, summary
<1>3. /\ Head(queue) \in Nat /\ Tail(queue) \in Seq(Nat)
      /\ Len(Tail(queue)) = Len(queue) - 1
  BY <1>1, <1>2, Queues
<1>4. delivered' \in Seq(Nat) /\ Len(delivered') = Len(delivered) + 1
  BY <1>1, <1>2, <1>3, Queues
<1>5. delivered' \o Tail(queue) = delivered \o queue
  BY <1>1, <1>2, Handover
<1>6. Joined'
  BY <1>2 DEF IInv, Joined
<1>7. CASE pc = "send"
  <2>1. pc' = "sent" /\ queue' = Append(Tail(queue), tick)
    BY <1>7 DEF Receive
  <2>2. queue' \in Seq(Nat) /\ Len(queue') = Len(queue)
    <3>1. queue' \in Seq(Nat) /\ Len(queue') = Len(Tail(queue)) + 1
      BY <2>1, <1>1, <1>3, Queues
    <3> QED
      BY <3>1, <1>1, <1>3
  <2>3. TypeOK'
    BY <2>1, <2>2, <1>1, <1>2, <1>4 DEF IInv, TypeOK, Awaits
  <2>4. SlotsAccounted' /\ StartsInItsSlot'
    BY <2>1, <1>2, <1>7 DEF IInv, SlotsAccounted, StartsInItsSlot
  <2>5. EmittedAccounted'
    <3>1. samples_emitted = Len(delivered) + Len(queue) + evicted
      BY <1>1, <1>7 DEF IInv, EmittedAccounted
    <3> QED
      BY <3>1, <2>1, <2>2, <1>1, <1>2, <1>4 DEF EmittedAccounted
  <2>6. BlockLosesNothing'
    <3>1. (delivered' \o Tail(queue)) \o <<tick>> = delivered' \o queue'
      BY <2>1, <1>1, <1>3, <1>4, Following
    <3>2. (delivered' \o queue') \o <<>> = delivered' \o queue'
      BY <2>2, <1>4, Following
    <3> QED
      BY <3>1, <3>2, <2>1, <1>2, <1>5, <1>7 DEF IInv, BlockLosesNothing
  <2> QED
    BY <2>3, <2>4, <2>5, <2>6, <1>6 DEF IInv
<1>8. CASE pc # "send"
  <2>1. pc' = pc /\ queue' = Tail(queue)
    BY <1>8 DEF Receive
  <2>2. TypeOK'
    BY <2>1, <1>1, <1>2, <1>3, <1>4 DEF IInv, TypeOK
  <2>3. SlotsAccounted' /\ StartsInItsSlot'
    BY <2>1, <1>2 DEF IInv, SlotsAccounted, StartsInItsSlot
  <2>4. EmittedAccounted'
    BY <2>1, <1>1, <1>2, <1>3, <1>4 DEF IInv, EmittedAccounted
  <2>5. BlockLosesNothing'
    BY <2>1, <1>2, <1>5, <1>8 DEF IInv, BlockLosesNothing
  <2> QED
    BY <2>2, <2>3, <2>4, <2>5, <1>6 DEF IInv
<1> QED
  BY <1>7, <1>8

\* The steps that move neither batch nor counter: the end of the producer,
\* of the iteration and of the context manager.
LEMMA EndingIInv ==
  ASSUME IInv,
         \/ EndOfStream \/ LeaveBody \/ Exit
         \/ ProducerFails \/ ProducerCancelled \/ UNCHANGED vars
  PROVE  IInv'
<1>1. /\ opts' = opts /\ clock' = clock /\ pc' = pc /\ tick' = tick
      /\ backoff_idx' = backoff_idx /\ samples_emitted' = samples_emitted
      /\ samples_late' = samples_late /\ disconnects' = disconnects
      /\ queue' = queue /\ delivered' = delivered /\ evicted' = evicted
      /\ polled' = polled
  BY DEF EndOfStream, LeaveBody, Exit, ProducerFails, ProducerCancelled, vars,
         schedule, summary, stream
<1>2. /\ outcome' \in Outcomes /\ finished_at' \in BOOLEAN /\ ended' \in BOOLEAN
      /\ cm' \in {"open", "closing"}
  BY DEF EndOfStream, LeaveBody, Exit, ProducerFails, ProducerCancelled, vars,
         schedule, summary, stream, IInv, TypeOK, Outcomes
<1>3. Joined'
  BY DEF EndOfStream, LeaveBody, Exit, ProducerFails, ProducerCancelled, vars,
         schedule, summary, stream, IInv, Joined
<1>4. TypeOK'
  BY <1>1, <1>2 DEF IInv, TypeOK
<1>5. SlotsAccounted' /\ EmittedAccounted' /\ StartsInItsSlot' /\ BlockLosesNothing'
  BY <1>1 DEF IInv, SlotsAccounted, EmittedAccounted, StartsInItsSlot,
              BlockLosesNothing
<1> QED
  BY <1>3, <1>4, <1>5 DEF IInv

\* Every step of the producer and of the consumer keeps the invariant.
LEMMA NextIInv == IInv /\ [Next]_vars => IInv'
<1> SUFFICES ASSUME IInv, [Next]_vars PROVE IInv'
  OBVIOUS
<1>1. ASSUME NEW l \in 0..MaxLatency, Wake(l) \/ BackoffOver(l) PROVE IInv'
  BY <1>1, WakeIInv, BackoffOverIInv
<1>2. ASSUME NEW d \in 0..MaxWait,
             Publish(d) \/ SendReturns(d) \/ Disconnect(d) \/ Rebuilt(d)
      PROVE  IInv'
  BY <1>2, PublishIInv, SendReturnsIInv, DisconnectIInv, RebuiltIInv
<1>3. CASE Receive
  BY <1>3, ReceiveIInv
<1>4. CASE \/ EndOfStream \/ LeaveBody \/ Exit
           \/ ProducerFails \/ ProducerCancelled \/ UNCHANGED vars
  BY <1>4, EndingIInv
<1>5. CASE OfferRoom \/ OfferBlocks
  BY <1>5, OfferIInv
<1> QED
  BY <1>1, <1>2, <1>3, <1>4, <1>5 DEF Next, Producer, Consumer

\* The inductive invariant holds in every state of a recording
\* (recorder.py:133-407).
THEOREM Invariance == Spec => []IInv
BY InitIInv, NextIInv, PTL DEF Spec

-----------------------------------------------------------------------------
\* The end of a run

\* A batch is of the slot being worked on or an earlier one, and once one is of
\* a slot past the end the loop is left with the next slot.
EInv ==
  /\ \A i \in 1..Len(polled) : polled[i] <= tick
  /\ OnePollPastTheEnd

\* Entering the loop with the next slot: it is left if a slot past the end has
\* been polled (recorder.py:316-323).
LEMMA NextSlotEInv ==
  ASSUME IInv, EInv, NEW late \in Nat, NEW now \in Nat,
         NextSlot(tick + 1, late, now),
         polled' = polled \/ polled' = Append(polled, tick),
         polled' # polled => pc = "poll"
  PROVE  EInv'
<1>1. /\ tick \in Nat /\ tick + 1 \in Nat /\ polled \in Seq(Nat)
      /\ TotalTicks \in Nat /\ Len(polled) \in Nat
  BY RecorderAssumption DEF IInv, TypeOK
<1>2. Missed(tick + 1, now) \in Nat
  BY <1>1, MissedFacts
<1>3. tick' \in Nat /\ tick' >= tick
  BY <1>1, <1>2 DEF NextSlot
<1>4. \A i \in 1..Len(polled) : polled[i] \in Nat /\ polled[i] <= tick
  BY <1>1, ElementOfSeq DEF EInv
<1>5. \A i \in 1..Len(polled') : polled'[i] \in Nat /\ polled'[i] <= tick
  <2>1. CASE polled' = polled
    BY <1>4, <2>1
  <2>2. CASE polled' = Append(polled, tick)
    <3>1. ASSUME NEW i \in 1..Len(polled')
          PROVE  polled'[i] \in Nat /\ polled'[i] <= tick
      <4>1. Len(polled') = Len(polled) + 1
        BY <2>2, <1>1
      <4>2. CASE i = Len(polled) + 1
        BY <2>2, <4>2, <1>1
      <4>3. CASE i # Len(polled) + 1
        <5>1. i \in 1..Len(polled)
          BY <4>1, <4>3, <1>1
        <5>2. polled'[i] = polled[i]
          BY <2>2, <5>1, <1>1
        <5> QED
          BY <5>1, <5>2, <1>4
      <4> QED
        BY <4>2, <4>3
    <3> QED
      BY <3>1
  <2> QED
    BY <2>1, <2>2
<1>6. tick + 1 >= TotalTicks + 1 => pc' = "end"
  BY <1>1 DEF NextSlot
<1>7. OnePollPastTheEnd'
  <2> SUFFICES ASSUME NEW i \in 1..Len(polled'), polled'[i] >= TotalTicks
               PROVE  i = Len(polled') /\ pc' \in {"offer", "send", "sent", "end"}
    BY DEF OnePollPastTheEnd
  <2>1. pc' = "end"
    BY <1>1, <1>5, <1>6
  <2>2. CASE polled' = polled
    BY <2>1, <2>2 DEF EInv, OnePollPastTheEnd
  <2>3. CASE polled' # polled
    <3>1. pc = "poll" /\ polled' = Append(polled, tick)
      BY <2>3
    <3>2. i <= Len(polled) => polled[i] >= TotalTicks /\ i \in 1..Len(polled)
      BY <3>1, <1>1
    <3>3. ~(i <= Len(polled))
      BY <3>1, <3>2 DEF EInv, OnePollPastTheEnd
    <3> QED
      BY <3>1, <3>3, <1>1, <2>1
  <2> QED
    BY <2>2, <2>3
<1>8. \A i \in 1..Len(polled') : polled'[i] <= tick'
  BY <1>1, <1>3, <1>5
<1> QED
  BY <1>7, <1>8 DEF EInv

\* Every step keeps it.
LEMMA NextEInv == IInv /\ EInv /\ [Next]_vars => EInv'
<1> SUFFICES ASSUME IInv, EInv, [Next]_vars PROVE EInv'
  OBVIOUS
<1>1. /\ tick \in Nat /\ samples_late \in Nat /\ samples_late + 1 \in Nat
      /\ clock \in Nat /\ polled \in Seq(Nat)
  BY DEF IInv, TypeOK
<1>2. ASSUME NEW d \in 0..MaxWait, Publish(d) PROVE EInv'
  <2>1. clock + d \in Nat
    BY <1>1, RecorderAssumption
  <2>2. polled' = Append(polled, tick) /\ pc = "poll"
    BY <1>2 DEF Publish, PublishRoom, PublishBlock, PublishDropNewest,
                PublishDropOldest, PollReturns, At
  <2>3. CASE PublishBlock(d)
    <3>1. tick' = tick /\ pc' = "offer"
      BY <2>3 DEF PublishBlock
    <3>2. \A i \in 1..Len(polled) : polled[i] <= tick /\ ~(polled[i] >= TotalTicks)
      BY <2>2 DEF EInv, OnePollPastTheEnd
    <3> QED
      BY <1>1, <2>2, <3>1, <3>2 DEF EInv, OnePollPastTheEnd
  <2>4. CASE PublishDropNewest(d)
    BY <1>1, <2>1, <2>2, <2>4, NextSlotEInv DEF PublishDropNewest
  <2>5. CASE PublishRoom(d)
    BY <1>1, <2>1, <2>2, <2>5, NextSlotEInv DEF PublishRoom
  <2>6. CASE PublishDropOldest(d)
    BY <1>1, <2>1, <2>2, <2>6, NextSlotEInv DEF PublishDropOldest
  <2> QED
    BY <1>2, <2>3, <2>4, <2>5, <2>6 DEF Publish
<1>3. ASSUME NEW d \in 0..MaxWait, SendReturns(d) \/ Rebuilt(d) PROVE EInv'
  <2>1. clock + d \in Nat
    BY <1>1, RecorderAssumption
  <2> QED
    BY <1>1, <1>3, <2>1, NextSlotEInv DEF SendReturns, Rebuilt
<1>4. ASSUME NEW l \in 0..MaxLatency, BackoffOver(l) PROVE EInv'
  <2>1. clock + BackoffDelay + l \in Nat
    BY RecorderAssumption, Numbers DEF IInv
  <2>2. CASE opts.factory
    BY <1>4, <2>2 DEF BackoffOver, At, EInv, OnePollPastTheEnd
  <2>3. CASE ~opts.factory
    BY <1>1, <1>4, <2>1, <2>3, NextSlotEInv DEF BackoffOver
  <2> QED
    BY <2>2, <2>3
<1>5. CASE OfferRoom
  BY <1>1, <1>5, NextSlotEInv DEF OfferRoom
<1>6. ASSUME NEW l \in 0..MaxLatency, Wake(l) PROVE EInv'
  BY <1>6 DEF Wake, At, EInv, OnePollPastTheEnd
<1>7. ASSUME NEW d \in 0..MaxWait, Disconnect(d) PROVE EInv'
  BY <1>7 DEF Disconnect, At, EInv, OnePollPastTheEnd
<1>8. CASE Receive
  BY <1>8 DEF Receive, EInv, OnePollPastTheEnd
<1>9. CASE \/ OfferBlocks \/ EndOfStream \/ LeaveBody \/ Exit
           \/ ProducerFails \/ ProducerCancelled \/ UNCHANGED vars
  BY <1>9 DEF OfferBlocks, At, EndOfStream, LeaveBody, Exit, ProducerFails,
              ProducerCancelled, vars, schedule, EInv, OnePollPastTheEnd
<1> QED
  BY <1>2, <1>3, <1>4, <1>5, <1>6, <1>7, <1>8, <1>9 DEF Next, Producer, Consumer

-----------------------------------------------------------------------------
\* The theorems

\* The counters never become negative and the stream never holds more than its
\* capacity, whatever the overflow policy does (recorder.py:366-407).
THEOREM TypeCorrect == Spec => []TypeOK
BY Invariance, PTL DEF IInv

\* The AcquisitionSummary balances at every await: no slot is passed without
\* being emitted or counted late, and no batch is counted that was not put on
\* the stream.
THEOREM CountersBalance == Spec => []Balanced
BY Invariance, PTL DEF IInv, Balanced

\* The schedule does not drift, for every period and every series of poll
\* times, backoffs and blocked sends.
THEOREM NoDrift == Spec => []StartsInItsSlot
BY Invariance, PTL DEF IInv

\* BLOCK never loses a batch, whatever the buffer size.
THEOREM BlockKeepsAll == Spec => []BlockLosesNothing
BY Invariance, PTL DEF IInv

\* Whatever is skipped, a run of any duration polls past its end once at most,
\* and that poll is its last (recorder.py:316-323).
THEOREM PastTheEndOnce == Spec => []OnePollPastTheEnd
<1>1. Init => EInv
  BY DEF Init, EInv, OnePollPastTheEnd
<1> QED
  BY <1>1, Invariance, NextEInv, PTL DEF Spec, EInv

\* The summary the context manager returns is final: the producer was joined.
THEOREM SummaryFinal == Spec => SummaryFrozen
<1>1. IInv /\ [Next]_vars => (finished_at => UNCHANGED <<summary, schedule>>)
  <2> SUFFICES ASSUME IInv, [Next]_vars, finished_at
               PROVE  UNCHANGED <<summary, schedule>>
    OBVIOUS
  <2>1. cm = "closing" /\ outcome # "running"
    BY DEF IInv, Joined
  <2> QED
    BY <2>1 DEF Next, Producer, Consumer, Publish, PublishRoom, PublishBlock,
                PublishDropNewest, PublishDropOldest, PollReturns, SendReturns,
                OfferRoom, OfferBlocks, Disconnect, BackoffOver, Rebuilt,
                Wake, At, ProducerFails,
                ProducerCancelled, Receive, EndOfStream, LeaveBody, Exit, vars
<1>2. IInv /\ [Next]_vars => (finished_at => UNCHANGED <<stream>>)
  <2> SUFFICES ASSUME IInv, [Next]_vars, finished_at
               PROVE  UNCHANGED <<stream>>
    OBVIOUS
  <2>1. cm = "closing" /\ outcome # "running"
    BY DEF IInv, Joined
  <2> QED
    BY <2>1 DEF Next, Producer, Consumer, Publish, PublishRoom, PublishBlock,
                PublishDropNewest, PublishDropOldest, PollReturns, SendReturns,
                OfferRoom, OfferBlocks, Disconnect, BackoffOver, Rebuilt,
                Wake, At, ProducerFails,
                ProducerCancelled, Receive, EndOfStream, LeaveBody, Exit, vars, stream
<1>3. IInv /\ [Next]_vars =>
        [finished_at => UNCHANGED <<summary, stream, schedule>>]_vars
  BY <1>1, <1>2
<1> QED
  BY <1>3, Invariance, PTL DEF Spec, SummaryFrozen

-----------------------------------------------------------------------------
\* The stream a recording promises

\* The slot being worked on is later than any that was polled, once it is
\* waited for or being polled.
Later ==
  /\ newestPolled \in Int /\ newestPolled >= -1
  /\ newestPolled <= tick
  /\ pc \in {"sleep", "poll"} => newestPolled < tick

LEMMA NewestFacts ==
  ASSUME polled \in Seq(Nat), tick \in Nat
  PROVE  /\ polled' = polled => newestPolled' = newestPolled
         /\ polled' = Append(polled, tick) => newestPolled' = tick
<1>1. ASSUME polled' = Append(polled, tick)
      PROVE  newestPolled' = tick
  <2>1. Len(polled') = Len(polled) + 1 /\ polled'[Len(polled) + 1] = tick /\ Len(polled) \in Nat
    BY <1>1, AppendProperties
  <2>2. polled' # <<>>
    BY <2>1
  <2> QED
    BY <2>1, <2>2 DEF newestPolled
<1> QED
  BY <1>1 DEF newestPolled

\* The loop goes on to a later slot.
LEMMA NextSlotLater ==
  ASSUME tick \in Nat, NEW late, NEW now \in Nat, NextSlot(tick + 1, late, now)
  PROVE  tick' \in Nat /\ tick' > tick /\ pc' \in {"sleep", "poll", "end"}
<1>1. tick + 1 \in Nat /\ Missed(tick + 1, now) \in Nat
  BY MissedFacts
<1> QED
  BY <1>1 DEF NextSlot

LEMMA NextLater == IInv /\ Later /\ [Next]_vars => Later'
<1> SUFFICES ASSUME IInv, Later, [Next]_vars PROVE Later'
  OBVIOUS
<1>1. /\ tick \in Nat /\ clock \in Nat /\ polled \in Seq(Nat)
      /\ newestPolled \in Int /\ newestPolled >= -1 /\ newestPolled <= tick
      /\ -1 \in Int /\ tick >= -1
  BY DEF IInv, TypeOK, Later
<1>2. ASSUME NEW late, NEW now \in Nat, NextSlot(tick + 1, late, now),
             polled' = polled \/ polled' = Append(polled, tick)
      PROVE  Later'
  <2>1. tick' \in Nat /\ tick' > tick
    BY <1>1, <1>2, NextSlotLater
  <2>2. newestPolled' = newestPolled \/ newestPolled' = tick
    BY <1>1, <1>2, NewestFacts
  <2> QED
    BY <1>1, <2>1, <2>2 DEF Later
<1>3. ASSUME NEW d \in 0..MaxWait, Publish(d) PROVE Later'
  <2>1. clock + d \in Nat
    BY <1>1, RecorderAssumption
  <2>2. polled' = Append(polled, tick)
    BY <1>3 DEF Publish, PublishRoom, PublishBlock, PublishDropNewest,
                PublishDropOldest, PollReturns
  <2>3. CASE PublishBlock(d)
    <3>1. tick' = tick /\ pc' = "offer" /\ newestPolled' = tick
      BY <1>1, <2>2, <2>3, NewestFacts DEF PublishBlock
    <3> QED
      BY <1>1, <3>1 DEF Later
  <2>4. CASE PublishRoom(d) \/ PublishDropNewest(d) \/ PublishDropOldest(d)
    BY <1>2, <2>1, <2>2, <2>4 DEF PublishRoom, PublishDropNewest, PublishDropOldest
  <2> QED
    BY <1>3, <2>3, <2>4 DEF Publish
<1>4. ASSUME NEW d \in 0..MaxWait, SendReturns(d) \/ Rebuilt(d) PROVE Later'
  <2>1. clock + d \in Nat
    BY <1>1, RecorderAssumption
  <2> QED
    BY <1>2, <1>4, <2>1 DEF SendReturns, Rebuilt
<1>5. CASE OfferRoom
  BY <1>1, <1>2, <1>5 DEF OfferRoom
<1>6. ASSUME NEW l \in 0..MaxLatency, BackoffOver(l) PROVE Later'
  <2>1. clock + BackoffDelay + l \in Nat
    BY RecorderAssumption, Numbers DEF IInv
  <2>2. CASE opts.factory
    <3>1. tick' = tick /\ pc' = "rebuild" /\ polled' = polled
      BY <1>6, <2>2 DEF BackoffOver
    <3> QED
      BY <1>1, <3>1, NewestFacts DEF Later
  <2>3. CASE ~opts.factory
    BY <1>2, <1>6, <2>1, <2>3 DEF BackoffOver
  <2> QED
    BY <2>2, <2>3
<1>7. ASSUME tick' = tick, polled' = polled,
             pc' \in {"sleep", "poll"} => pc \in {"sleep", "poll"}
      PROVE  Later'
  BY <1>1, <1>7, NewestFacts DEF Later
<1>8. ASSUME NEW l \in 0..MaxLatency, Wake(l) PROVE Later'
  BY <1>7, <1>8 DEF Wake, At
<1>9. ASSUME NEW d \in 0..MaxWait, Disconnect(d) PROVE Later'
  BY <1>7, <1>9 DEF Disconnect
<1>10. CASE Receive
  BY <1>7, <1>10 DEF Receive
<1>11. CASE \/ OfferBlocks \/ EndOfStream \/ LeaveBody \/ Exit
            \/ ProducerFails \/ ProducerCancelled \/ UNCHANGED vars
  BY <1>7, <1>11 DEF OfferBlocks, EndOfStream, LeaveBody, Exit, ProducerFails,
                     ProducerCancelled, vars, schedule
<1> QED
  BY <1>3, <1>4, <1>5, <1>6, <1>8, <1>9, <1>10, <1>11 DEF Next, Producer, Consumer

\* Reading the oldest pending batch, when the last one still waits to be sent.
LEMMA ReadWhileWaiting ==
  ASSUME NEW q \in Seq(Nat), q # <<>>, NEW e \in Nat
  PROVE  /\ q \o <<e>> = Append(q, e)
         /\ Head(Append(q, e)) = Head(q)
         /\ Tail(Append(q, e)) = Append(Tail(q), e)
         /\ Append(q, e) # <<>>
<1>1. /\ Append(q, e) \in Seq(Nat) /\ Append(q, e) = q \o <<e>>
      /\ Len(Append(q, e)) = Len(q) + 1 /\ Len(q) \in Nat /\ Len(q) > 0
      /\ Tail(q) \in Seq(Nat) /\ Len(Tail(q)) = Len(q) - 1
  BY Queues
<1>2. Append(q, e) # <<>>
  BY <1>1
<1>3. Head(Append(q, e)) = Head(q)
  BY <1>1
<1>4. Tail(Append(q, e)) = Append(Tail(q), e)
  OBVIOUS
<1> QED
  BY <1>1, <1>2, <1>3, <1>4

\* Every step of the recorder is one of the stream, or the reader of the stream
\* does not notice it.
LEMMA StepFeeds == IInv /\ Later /\ [Next]_vars => [Feed!Next]_(Feed!vars)
<1> SUFFICES ASSUME IInv, Later, [Next]_vars
             PROVE  Feed!Next \/ UNCHANGED Feed!vars
  BY DEF Feed!vars
<1>1. /\ tick \in Nat /\ clock \in Nat /\ polled \in Seq(Nat) /\ queue \in Seq(Nat)
      /\ Len(queue) \in Nat /\ BufferSize \in Nat \ {0} /\ Len(queue) <= BufferSize
      /\ newestPolled \in Int /\ tick + 1 \in Nat /\ pc \in Awaits
  BY RecorderAssumption DEF IInv, TypeOK, Later
<1>2. /\ queue \o <<>> = queue /\ queue \o <<tick>> = Append(queue, tick)
      /\ Append(queue, tick) \in Seq(Nat)
      /\ Append(queue, tick) \o <<>> = Append(queue, tick)
  BY <1>1, Queues, ConcatEmptySeq
<1>3. /\ pc \in {"offer", "send"} => pendingBatches = Append(queue, tick)
      /\ pc \notin {"offer", "send"} => pendingBatches = queue
  BY <1>2 DEF pendingBatches
<1>4. ASSUME opts' = opts, polled' = polled, queue' = queue, delivered' = delivered,
             pc \notin {"offer", "send"}, pc' \notin {"offer", "send"}
      PROVE  UNCHANGED Feed!vars
  <2>1. newestPolled' = newestPolled
    BY <1>1, <1>4, NewestFacts
  <2>2. pendingBatches' = pendingBatches
    BY <1>4 DEF pendingBatches
  <2> QED
    BY <1>4, <2>1, <2>2 DEF Feed!vars
<1>5. ASSUME NEW d \in 0..MaxWait, Publish(d) PROVE Feed!Next
  <2>1. /\ polled' = Append(polled, tick) /\ pc = "poll" /\ opts' = opts
        /\ delivered' = delivered /\ clock + d \in Nat
    BY <1>1, <1>5, RecorderAssumption
       DEF Publish, PublishRoom, PublishBlock, PublishDropNewest, PublishDropOldest,
           PollReturns, At
  <2>2. newestPolled' = tick /\ newestPolled < tick
    BY <1>1, <2>1, NewestFacts DEF Later
  <2>3. pendingBatches = queue /\ Feed!Polled
    BY <1>1, <1>3, <2>1, <2>2 DEF Feed!Polled
  <2>4. CASE PublishBlock(d)
    <3>1. pc' = "offer" /\ tick' = tick /\ queue' = queue /\ opts.overflow = "BLOCK"
      BY <2>4 DEF PublishBlock
    <3>2. pendingBatches' = Append(queue, tick)
      BY <1>2, <3>1 DEF pendingBatches
    <3>3. Feed!Publish
      BY <1>1, <2>1, <2>2, <2>3, <3>1, <3>2 DEF Feed!Publish
    <3> QED
      BY <3>3 DEF Feed!Next
  <2>5. CASE PublishRoom(d)
    <3>1. /\ Len(queue) < BufferSize /\ queue' = Append(queue, tick)
          /\ NextSlot(tick + 1, samples_late, clock + d)
      BY <1>1, <2>5 DEF PublishRoom, Full
    <3>2. pc' \in {"sleep", "poll", "end"}
      BY <1>1, <2>1, <3>1, NextSlotLater
    <3>3. pendingBatches' = Append(queue, tick)
      BY <1>2, <3>1, <3>2 DEF pendingBatches
    <3>4. Feed!Publish
      BY <1>1, <2>1, <2>2, <2>3, <3>1, <3>3 DEF Feed!Publish
    <3> QED
      BY <3>4 DEF Feed!Next
  <2>6. CASE PublishDropNewest(d)
    <3>1. /\ Len(queue) = BufferSize /\ queue' = queue /\ opts.overflow = "DROP_NEWEST"
          /\ NextSlot(tick + 1, samples_late + 1, clock + d)
      BY <1>1, <2>6 DEF PublishDropNewest, Full
    <3>2. pc' \in {"sleep", "poll", "end"}
      BY <1>1, <2>1, <3>1, NextSlotLater
    <3>3. pendingBatches' = queue
      BY <1>2, <3>1, <3>2 DEF pendingBatches
    <3>4. Feed!DropNewest
      BY <2>1, <2>3, <3>1, <3>3 DEF Feed!DropNewest
    <3> QED
      BY <3>4 DEF Feed!Next
  <2>7. CASE PublishDropOldest(d)
    <3>1. /\ Len(queue) = BufferSize /\ queue' = Append(Tail(queue), tick)
          /\ opts.overflow = "DROP_OLDEST"
          /\ NextSlot(tick + 1, samples_late + 1, clock + d)
      BY <1>1, <2>7 DEF PublishDropOldest, Full
    <3>2. pc' \in {"sleep", "poll", "end"}
      BY <1>1, <2>1, <3>1, NextSlotLater
    <3>3. Append(Tail(queue), tick) \o <<>> = Append(Tail(queue), tick)
      <4>1. queue # <<>>
        BY <1>1, <3>1
      <4>2. Append(Tail(queue), tick) \in Seq(Nat)
        BY <1>1, <4>1, Queues
      <4> QED
        BY <4>2, ConcatEmptySeq
    <3>4. pendingBatches' = Append(Tail(queue), tick)
      BY <3>1, <3>2, <3>3 DEF pendingBatches
    <3>5. Feed!DropOldest
      BY <2>1, <2>2, <2>3, <3>1, <3>4 DEF Feed!DropOldest
    <3> QED
      BY <3>5 DEF Feed!Next
  <2> QED
    BY <1>5, <2>4, <2>5, <2>6, <2>7 DEF Publish
<1>6. ASSUME NEW d \in 0..MaxWait, SendReturns(d) \/ Rebuilt(d) PROVE UNCHANGED Feed!vars
  <2>1. clock + d \in Nat
    BY <1>1, RecorderAssumption
  <2>2. pc' \in {"sleep", "poll", "end"}
    BY <1>1, <1>6, <2>1, NextSlotLater DEF SendReturns, Rebuilt
  <2> QED
    BY <1>4, <1>6, <2>2 DEF SendReturns, Rebuilt, At, stream
<1>7. CASE OfferRoom
  <2>1. /\ pc = "offer" /\ queue' = Append(queue, tick) /\ polled' = polled
        /\ opts' = opts /\ delivered' = delivered
        /\ NextSlot(tick + 1, samples_late, clock)
    BY <1>7 DEF OfferRoom, At
  <2>2. pc' \in {"sleep", "poll", "end"}
    BY <1>1, <2>1, NextSlotLater
  <2>3. pendingBatches' = pendingBatches
    BY <1>2, <1>3, <2>1, <2>2 DEF pendingBatches
  <2>4. newestPolled' = newestPolled
    BY <1>1, <2>1, NewestFacts
  <2> QED
    BY <2>1, <2>3, <2>4 DEF Feed!vars
<1>8. ASSUME NEW l \in 0..MaxLatency, BackoffOver(l) PROVE UNCHANGED Feed!vars
  <2>1. clock + BackoffDelay + l \in Nat
    BY RecorderAssumption, Numbers DEF IInv
  <2>2. pc' \notin {"offer", "send"}
    <3>1. CASE opts.factory
      BY <1>8, <3>1 DEF BackoffOver
    <3>2. CASE ~opts.factory
      BY <1>1, <1>8, <2>1, <3>2, NextSlotLater DEF BackoffOver
    <3> QED
      BY <3>1, <3>2
  <2> QED
    BY <1>4, <1>8, <2>2 DEF BackoffOver, At, stream
<1>9. ASSUME NEW l \in 0..MaxLatency, Wake(l) PROVE UNCHANGED Feed!vars
  BY <1>4, <1>9 DEF Wake, At, stream
<1>10. ASSUME NEW d \in 0..MaxWait, Disconnect(d) PROVE UNCHANGED Feed!vars
  BY <1>4, <1>10 DEF Disconnect, At, stream
<1>11. CASE Receive
  <2>1. /\ queue # <<>> /\ delivered' = Append(delivered, Head(queue))
        /\ tick' = tick /\ opts' = opts /\ polled' = polled
    BY <1>11 DEF Receive
  <2>2. newestPolled' = newestPolled
    BY <1>1, <2>1, NewestFacts
  <2>3. /\ Tail(queue) \in Seq(Nat) /\ Append(Tail(queue), tick) \in Seq(Nat)
        /\ Tail(queue) \o <<tick>> = Append(Tail(queue), tick)
        /\ Append(Tail(queue), tick) \o <<>> = Append(Tail(queue), tick)
        /\ Tail(queue) \o <<>> = Tail(queue)
    <3>1. Tail(queue) \in Seq(Nat)
      BY <1>1, <2>1, Queues
    <3> QED
      BY <1>1, <3>1, Queues, ConcatEmptySeq
  <2>4. /\ Head(Append(queue, tick)) = Head(queue) /\ Append(queue, tick) # <<>>
        /\ Tail(Append(queue, tick)) = Append(Tail(queue), tick)
    BY <1>1, <2>1, ReadWhileWaiting
  <2>5. /\ pendingBatches # <<>> /\ Head(pendingBatches) = Head(queue)
        /\ pendingBatches' = Tail(pendingBatches)
    <3>1. CASE pc = "send"
      <4>1. queue' = Append(Tail(queue), tick) /\ pc' = "sent"
        BY <1>11, <3>1 DEF Receive
      <4> QED
        BY <1>3, <2>1, <2>3, <2>4, <3>1, <4>1 DEF pendingBatches
    <3>2. CASE pc = "offer"
      <4>1. queue' = Tail(queue) /\ pc' = "offer"
        BY <1>11, <3>2 DEF Receive
      <4> QED
        BY <1>3, <2>1, <2>3, <2>4, <3>2, <4>1 DEF pendingBatches
    <3>3. CASE pc \notin {"offer", "send"}
      <4>1. queue' = Tail(queue) /\ pc' = pc
        BY <1>11, <3>3 DEF Receive
      <4> QED
        BY <1>3, <2>1, <2>3, <3>3, <4>1 DEF pendingBatches
    <3> QED
      BY <3>1, <3>2, <3>3
  <2>6. Feed!Read
    BY <2>1, <2>2, <2>5 DEF Feed!Read
  <2> QED
    BY <2>6 DEF Feed!Next
<1>12. CASE \/ OfferBlocks \/ EndOfStream \/ LeaveBody \/ Exit
            \/ ProducerFails \/ ProducerCancelled \/ UNCHANGED vars
  <2>1. /\ opts' = opts /\ polled' = polled /\ queue' = queue /\ delivered' = delivered
        /\ tick' = tick /\ (pc' \in {"offer", "send"} <=> pc \in {"offer", "send"})
    BY <1>12 DEF OfferBlocks, EndOfStream, LeaveBody, Exit, ProducerFails,
                 ProducerCancelled, vars, schedule, stream, At
  <2>2. newestPolled' = newestPolled /\ pendingBatches' = pendingBatches
    BY <1>1, <2>1, NewestFacts DEF pendingBatches
  <2> QED
    BY <2>1, <2>2 DEF Feed!vars
<1> QED
  BY <1>5, <1>6, <1>7, <1>8, <1>9, <1>10, <1>11, <1>12 DEF Next, Producer, Consumer

\* record() implements the stream of batches it promises, for every period,
\* duration and buffer size, and whatever the polls and the reader do.
THEOREM RecorderImplementsBatchStream == Spec => ImplementsBatchStream
<1>1. Init => Later
  BY DEF Init, Later, newestPolled
<1>2. Init => Feed!Init
  BY DEF Init, Feed!Init, newestPolled, pendingBatches, Options, OverflowPolicy
<1>3. Spec => [](IInv /\ Later)
  BY <1>1, InitIInv, NextIInv, NextLater, PTL DEF Spec
<1> QED
  BY <1>2, <1>3, StepFeeds, PTL DEF Spec, ImplementsBatchStream, Feed!Spec

-----------------------------------------------------------------------------
\* PollStream: the recording inside a session

\* A step of the session is a step of the recording, or the recording does not
\* notice it.
LEMMA StepIsStep == [StreamNext]_allvars => [Next]_vars
<1> SUFFICES ASSUME [StreamNext]_allvars PROVE [Next]_vars
  OBVIOUS
<1> USE DEF recording, vars
<1>1. CASE EnterSession
  BY <1>1 DEF EnterSession
<1>2. CASE PollLoop
  BY <1>2 DEF PollLoop, Next
<1>3. CASE Forwarder
  <2>1. CASE ForwarderStarts
    BY <2>1 DEF ForwarderStarts
  <2>2. CASE ForwarderReceives
    BY <2>2 DEF ForwarderReceives, Next, Consumer
  <2>3. CASE ForwardSample
    BY <2>3 DEF ForwardSample
  <2>4. CASE BatchesEnd
    BY <2>4 DEF BatchesEnd, Next, Consumer
  <2>5. CASE ForwarderLeaves
    BY <2>5 DEF ForwarderLeaves, Next
  <2>6. CASE ForwarderEnds
    BY <2>6 DEF ForwarderEnds, Next
  <2> QED
    BY <1>3, <2>1, <2>2, <2>3, <2>4, <2>5, <2>6 DEF Forwarder
<1>4. CASE Reader \/ Quit \/ SessionCloses
  BY <1>4 DEF Reader, Read, IterationEnds, Break, Ended, Quit, Aclose, SessionCloses
<1>5. CASE UNCHANGED allvars
  BY <1>5 DEF allvars
<1> QED
  BY <1>1, <1>2, <1>3, <1>4, <1>5 DEF StreamNext

\* What a session runs is a recording: Analyzer.stream adds a forwarder and a
\* reader to record() and changes nothing about it (analyzer.py:187-202).
THEOREM StreamRecords == StreamSpec => Spec
<1>1. StreamInit => Init
  BY DEF StreamInit
<1> QED
  BY <1>1, StepIsStep, PTL DEF StreamSpec, Spec

\* So a reader's source loses no batch, and its schedule does not drift.
THEOREM StreamInherits == StreamSpec => [](BlockLosesNothing /\ StartsInItsSlot /\ Balanced)
BY StreamRecords, BlockKeepsAll, NoDrift, CountersBalance, PTL

-----------------------------------------------------------------------------
\* The session

\* The recording goes on: its only option is the slot it has reached.
NoEnd ==
  /\ ~opts.auto_reconnect
  /\ pc \in {"sleep", "poll", "offer", "send", "sent"}
  /\ pc \in {"offer", "send", "sent"} => tick <= LastSlot
  /\ outcome # "finished"
  /\ ended => outcome = "failed"

\* How far the forwarder, the session and the reader are apart.
Nested ==
  /\ session = "new" <=> fwd = "unborn"
  /\ fwd \in {"unborn", "spawned", "receive", "forward"} <=> cm = "open"
  /\ fwd = "leaving" => ~finished_at
  /\ fwd \in {"over", "failed"} => finished_at /\ outcome # "running"
  /\ fwd = "failed" => outcome = "failed"
  /\ fwd = "over" => outcome # "failed"
  /\ session \in {"closed", "raised"} => fwd \in {"over", "failed"}
  /\ session = "closed" => fwd = "over"
  \* Only a failure ends the recording of a session that nobody leaves.
  /\ session = "open" /\ fwd \in {"leaving", "over", "failed"} => outcome = "failed"
  /\ session \in {"new", "open"} => reader \in {"iterating", "ended"}
  /\ session \in {"closing", "closed", "raised"} => reader \in {"broke", "ended", "quit"}
  /\ reader = "ended" => fwd = "failed"
  /\ reader = "broke" => Len(got) = count

SInv == StreamTypeOK /\ (fwd = "forward" => hand # <<>>) /\ NoEnd /\ Nested

LEMMA InitSInv == StreamInit => SInv
<1> SUFFICES ASSUME StreamInit PROVE SInv
  OBVIOUS
<1>1. TypeOK
  BY InitIInv DEF StreamInit, IInv
<1>2. StreamTypeOK
  BY <1>1, PollStreamAssumption
     DEF StreamInit, StreamTypeOK, Sessions, Forwarders, Readers
<1> QED
  BY <1>2 DEF StreamInit, Init, SInv, NoEnd, Nested

LEMMA SamplesFacts ==
  ASSUME NEW b \in Nat
  PROVE  Samples(b) \in Seq(Sample) /\ Samples(b) # <<>>
<1>1. PerBatch \in Nat \ {0}
  BY PollStreamAssumption
<1>2. \A k \in 1..PerBatch : <<b, k>> \in Sample
  BY DEF Sample
<1>3. Samples(b) \in Seq(Sample)
  BY <1>1, <1>2, IsASeq DEF Samples
<1>4. DOMAIN Samples(b) = 1..PerBatch
  BY DEF Samples
<1> QED
  BY <1>1, <1>3, <1>4, EmptySeq, LenProperties

\* A step of the poll loop that goes to another slot leaves it polling.
LEMMA SlotNotLast ==
  ASSUME NEW t \in Nat, NEW late, NEW now,
         t <= LastSlot + 1, outcome = "running", NextSlot(t, late, now)
  PROVE  pc' \in {"sleep", "poll"} /\ outcome' = "running"
BY PollStreamAssumption, RecorderAssumption DEF NextSlot

\* The poll loop fails, is cancelled, or polls on: it never finishes.
LEMMA PollLoopNoEnd ==
  ASSUME IInv, NoEnd, PollLoop
  PROVE  NoEnd' /\ (outcome = "failed" => outcome' = "failed")
<1> USE DEF NoEnd
<1>1. tick \in Nat /\ polled \in Seq(Nat) /\ LastSlot \in Nat
  BY PollStreamAssumption DEF IInv, TypeOK
<1>2. outcome = "running" /\ ended' = ended /\ opts' = opts
  BY DEF PollLoop, Producer, Publish, PublishRoom, PublishBlock, PublishDropNewest,
         PublishDropOldest, PollReturns, SendReturns, OfferRoom, OfferBlocks,
         Disconnect, BackoffOver, Rebuilt, Wake, At, ProducerFails,
         ProducerCancelled, stream
<1>3. ASSUME NEW d \in 0..MaxWait, Publish(d) PROVE NoEnd'
  <2>1. polled' = Append(polled, tick)
    BY <1>3 DEF Publish, PublishRoom, PublishBlock, PublishDropNewest,
                PublishDropOldest, PollReturns
  <2>2. polled' # polled
    BY <2>1, <1>1, AppendProperties
  <2>3. tick <= LastSlot
    BY <2>2 DEF PollLoop
  <2>4. CASE PublishBlock(d)
    BY <2>3, <2>4, <1>2 DEF PublishBlock
  <2>5. CASE PublishRoom(d) \/ PublishDropNewest(d) \/ PublishDropOldest(d)
    <3>1. \E late, now : NextSlot(tick + 1, late, now)
      BY <2>5 DEF PublishRoom, PublishDropNewest, PublishDropOldest
    <3>2. tick + 1 \in Nat /\ tick + 1 <= LastSlot + 1
      BY <2>3, <1>1
    <3> QED
      BY <3>1, <3>2, <1>2, SlotNotLast
  <2> QED
    BY <1>3, <2>4, <2>5 DEF Publish
<1>4. ASSUME NEW d \in 0..MaxWait, SendReturns(d) \/ OfferRoom PROVE NoEnd'
  <2>1. tick <= LastSlot /\ \E late, now : NextSlot(tick + 1, late, now)
    BY <1>4 DEF SendReturns, OfferRoom, At
  <2>2. tick + 1 \in Nat /\ tick + 1 <= LastSlot + 1
    BY <2>1, <1>1
  <2> QED
    BY <2>1, <2>2, <1>2, SlotNotLast
<1>5. ASSUME NEW l \in 0..MaxLatency, Wake(l) PROVE NoEnd'
  BY <1>2, <1>5 DEF Wake, At
<1>6. CASE OfferBlocks
  BY <1>2, <1>6 DEF OfferBlocks, At
<1>7. CASE ProducerFails \/ ProducerCancelled
  BY <1>2, <1>7 DEF ProducerFails, ProducerCancelled
<1>8. ASSUME NEW d, Disconnect(d) \/ Rebuilt(d) \/ BackoffOver(d) PROVE FALSE
  BY <1>8 DEF Disconnect, Rebuilt, BackoffOver, At
<1>9. 0 \in 0..MaxWait
  BY RecorderAssumption
<1> QED
  BY <1>2, <1>3, <1>4, <1>5, <1>6, <1>7, <1>8, <1>9 DEF PollLoop, Producer

\* The poll loop works on the stream of batches only.
LEMMA PollLoopSInv == ASSUME IInv, SInv, PollLoop, TypeOK' PROVE SInv'
<1>1. NoEnd' /\ (outcome = "failed" => outcome' = "failed")
  BY PollLoopNoEnd DEF SInv
<1>2. UNCHANGED <<session, fwd, hand, out, got, count, reader, cm, finished_at>>
  BY DEF PollLoop, forwarder, readers, Producer, Publish, PublishRoom, PublishBlock,
         PublishDropNewest, PublishDropOldest, PollReturns, SendReturns, OfferRoom,
         OfferBlocks, Disconnect, BackoffOver, Rebuilt, Wake, At, ProducerFails,
         ProducerCancelled
<1>3. outcome = "running"
  BY DEF PollLoop, Producer, Publish, PublishRoom, PublishBlock,
         PublishDropNewest, PublishDropOldest, PollReturns, SendReturns, OfferRoom,
         OfferBlocks, Disconnect, BackoffOver, Rebuilt, Wake, At, ProducerFails,
         ProducerCancelled
<1>4. Nested'
  BY <1>1, <1>2, <1>3 DEF SInv, Nested
<1>5. StreamTypeOK'
  BY <1>2 DEF SInv, StreamTypeOK
<1> QED
  BY <1>1, <1>2, <1>4, <1>5 DEF SInv

\* Passing samples on changes nothing else.
LEMMA ForwardSInv ==
  ASSUME IInv, SInv, TypeOK', ForwarderStarts \/ ForwarderReceives \/ ForwardSample \/ BatchesEnd
  PROVE  SInv'
<1> USE DEF SInv
<1>1. CASE ForwarderStarts
  <2>1. StreamTypeOK'
    BY <1>1 DEF ForwarderStarts, StreamTypeOK, recording, readers, Forwarders
  <2>2. NoEnd' /\ Nested'
    BY <1>1 DEF ForwarderStarts, NoEnd, Nested, recording, readers, schedule, summary, stream
  <2> QED
    BY <2>1, <2>2, <1>1 DEF ForwarderStarts
<1>2. CASE ForwarderReceives
  <2>1. Samples(Head(queue)) \in Seq(Sample) /\ Samples(Head(queue)) # <<>>
    <3>1. queue # <<>> /\ queue \in Seq(Nat)
      BY <1>2 DEF ForwarderReceives, Receive, IInv, TypeOK
    <3>2. Head(queue) \in Nat
      BY <3>1
    <3> QED
      BY <3>2, SamplesFacts
  <2>2. StreamTypeOK'
    BY <1>2, <2>1 DEF ForwarderReceives, StreamTypeOK, readers, Forwarders
  <2>3. NoEnd'
    BY <1>2 DEF ForwarderReceives, Receive, NoEnd
  <2>4. Nested'
    BY <1>2 DEF ForwarderReceives, Forwarding, Receive, Nested, readers
  <2> QED
    BY <1>2, <2>1, <2>2, <2>3, <2>4 DEF ForwarderReceives
<1>3. CASE ForwardSample
  <2>1. hand \in Seq(Sample) /\ hand # <<>> /\ out \in Seq(Sample)
    BY <1>3 DEF ForwardSample, Forwarding, StreamTypeOK
  <2>2. Head(hand) \in Sample /\ Tail(hand) \in Seq(Sample)
    BY <2>1
  <2>3. Append(out, Head(hand)) \in Seq(Sample)
    BY <2>1, <2>2, AppendProperties
  <2>4. StreamTypeOK'
    BY <1>3, <2>2, <2>3 DEF ForwardSample, StreamTypeOK, recording, readers, Forwarders
  <2>5. NoEnd' /\ Nested'
    BY <1>3 DEF ForwardSample, Forwarding, NoEnd, Nested, recording, readers, schedule,
                summary, stream
  <2> QED
    BY <1>3, <2>4, <2>5 DEF ForwardSample
<1>4. CASE BatchesEnd
  <2>1. StreamTypeOK'
    BY <1>4 DEF BatchesEnd, StreamTypeOK, forwarder, readers
  <2>2. NoEnd' /\ Nested'
    BY <1>4 DEF BatchesEnd, EndOfStream, NoEnd, Nested, forwarder, readers, schedule
  <2> QED
    BY <1>4, <2>1, <2>2 DEF BatchesEnd, forwarder
<1> QED
  BY <1>1, <1>2, <1>3, <1>4

\* Leaving record() takes two steps: the poll loop is cancelled, then joined.
LEMMA LeaveSInv ==
  ASSUME IInv, SInv, TypeOK', ForwarderLeaves \/ ForwarderEnds
  PROVE  SInv'
<1> USE DEF SInv
<1>1. CASE ForwarderLeaves
  <2>1. StreamTypeOK'
    BY <1>1, EmptySeq DEF ForwarderLeaves, StreamTypeOK, readers, Forwarders
  <2>2. ~finished_at
    BY <1>1 DEF ForwarderLeaves, LeaveBody, IInv, Joined
  <2>3. NoEnd' /\ Nested'
    BY <1>1, <2>2 DEF ForwarderLeaves, LeaveBody, NoEnd, Nested, readers, schedule,
                      summary, stream
  <2> QED
    BY <1>1, <2>1, <2>3 DEF ForwarderLeaves
<1>2. CASE ForwarderEnds
  <2>1. StreamTypeOK'
    BY <1>2 DEF ForwarderEnds, StreamTypeOK, readers, Forwarders
  <2>2. NoEnd' /\ Nested'
    BY <1>2 DEF ForwarderEnds, Exit, NoEnd, Nested, readers, schedule, summary, stream
  <2> QED
    BY <1>2, <2>1, <2>2 DEF ForwarderEnds
<1> QED
  BY <1>1, <1>2

\* The reader and the session do not touch the recording.
LEMMA ReaderSInv ==
  ASSUME SInv, TypeOK', EnterSession \/ Reader \/ Quit \/ SessionCloses
  PROVE  SInv'
<1> USE DEF SInv
<1>1. UNCHANGED recording
  BY DEF EnterSession, Reader, Read, IterationEnds, Break, Ended, Quit, Aclose,
         SessionCloses
<1>2. NoEnd'
  BY <1>1 DEF NoEnd, recording, schedule, stream
<1>3. CASE Read
  <2>1. Head(out) \in Sample /\ Tail(out) \in Seq(Sample) /\ got \in Seq(Sample)
    BY <1>3 DEF Read, StreamTypeOK
  <2>2. Append(got, Head(out)) \in Seq(Sample)
    BY <2>1, AppendProperties
  <2>3. StreamTypeOK'
    BY <1>3, <2>1, <2>2 DEF Read, StreamTypeOK
  <2>4. Nested'
    BY <1>1, <1>3 DEF Read, Nested, recording, schedule
  <2> QED
    BY <1>2, <1>3, <2>3, <2>4 DEF Read
<1>4. CASE EnterSession
  <2>1. StreamTypeOK'
    BY <1>4 DEF EnterSession, StreamTypeOK, Sessions, Forwarders
  <2>2. Nested'
    BY <1>1, <1>4 DEF EnterSession, Nested, recording, schedule
  <2> QED
    BY <1>2, <1>4, <2>1, <2>2 DEF EnterSession
<1>5. CASE IterationEnds \/ Break \/ Ended \/ Quit \/ SessionCloses
  <2>1. UNCHANGED <<fwd, hand, out, got, count>>
    BY <1>5 DEF IterationEnds, Break, Ended, Quit, Aclose, SessionCloses, forwarder
  <2>2. StreamTypeOK'
    BY <1>5, <2>1 DEF IterationEnds, Break, Ended, Quit, Aclose, SessionCloses,
                      StreamTypeOK, Sessions, Readers
  <2>3. Nested'
    BY <1>1, <1>5, <2>1 DEF IterationEnds, Break, Ended, Quit, Aclose, SessionCloses,
                            Nested, recording, schedule
  <2> QED
    BY <1>2, <2>1, <2>2, <2>3
<1> QED
  BY <1>3, <1>4, <1>5 DEF Reader

LEMMA NextSInv == IInv /\ IInv' /\ SInv /\ [StreamNext]_allvars => SInv'
<1> SUFFICES ASSUME IInv, IInv', SInv, [StreamNext]_allvars PROVE SInv'
  OBVIOUS
<1>1. TypeOK'
  BY DEF IInv
<1>2. CASE StreamNext
  BY <1>1, <1>2, PollLoopSInv, ForwardSInv, LeaveSInv, ReaderSInv DEF StreamNext, Forwarder
<1>3. CASE UNCHANGED allvars
  <2>1. StreamTypeOK'
    BY <1>1, <1>3 DEF SInv, StreamTypeOK, allvars, forwarder, readers
  <2>2. NoEnd' /\ Nested'
    BY <1>3 DEF SInv, NoEnd, Nested, allvars, recording, forwarder, readers, schedule,
                stream
  <2> QED
    BY <1>3, <2>1, <2>2 DEF SInv, allvars, forwarder
<1> QED
  BY <1>2, <1>3

LEMMA StreamInvariance == StreamSpec => []SInv
BY StreamRecords, Invariance, InitSInv, NextSInv, PTL DEF StreamSpec

\* The streams of batches and of samples hold what their names say.
THEOREM StreamTypeCorrect == StreamSpec => []StreamTypeOK
BY StreamInvariance, PTL DEF SInv

\* When a session has been left the recording is over, its summary final and
\* the analyser no longer polled; and a session whose source failed before the
\* reader got its count is not left quietly (stream_session.py:89-98).
THEOREM SessionToldTheTruth == StreamSpec => []SessionTells
<1>1. SInv => SessionTells
  BY DEF SInv, Nested, SessionTells, NestedInSession, NeverShort
<1> QED
  BY <1>1, StreamInvariance, PTL

-----------------------------------------------------------------------------
\* The samples on their way

\* Whole batches and what is left over.
LEMMA Scaled ==
  ASSUME NEW p \in Nat, NEW a \in Nat, NEW b \in Nat, a <= b
  PROVE  p * a <= p * b /\ p * a \in Nat
<1>1. PICK d \in Nat : b = a + d
  <2>1. b - a \in Nat /\ b = a + (b - a)
    OBVIOUS
  <2> QED
    BY <2>1
<1>2. p * b = p * a + p * d /\ p * d \in Nat /\ p * a \in Nat
  BY <1>1
<1> QED
  BY <1>2
LEMMA Quotients ==
  ASSUME NEW a \in Nat, NEW p \in Nat \ {0}
  PROVE  \E q \in Nat, r \in 0..(p - 1) : q = a \div p /\ r = a % p /\ a = p * q + r
<1>1. PICK q, r : q = a \div p /\ r = a % p
  OBVIOUS
<1>2. q \in Nat /\ r \in 0..(p - 1) /\ r = a - p * q
  <2>1. a \div p \in Nat /\ a % p \in 0..(p - 1)
    OBVIOUS
  <2>2. a % p = a - p * (a \div p)
    OBVIOUS
  <2> QED
    BY <1>1, <2>1, <2>2, Zenon
<1>3. p * q \in Nat
  BY <1>2
<1>4. a = p * q + r
  BY <1>2, <1>3
<1> QED
  BY <1>1, <1>2, <1>4, Zenon
LEMMA Quotient ==
  ASSUME NEW p \in Nat \ {0}, NEW q \in Nat, NEW r \in 0..(p - 1), NEW a \in Nat, a = p * q + r
  PROVE  a \div p = q /\ a % p = r
<1>1. PICK x \in Nat, y \in 0..(p - 1) : x = a \div p /\ y = a % p /\ a = p * x + y
  BY Quotients
<1>2. x \in Nat /\ y \in 0..(p - 1) /\ a = p * x + y
  BY <1>1
<1>3. ~(x < q)
  <2> SUFFICES ASSUME x < q PROVE FALSE
    OBVIOUS
  <2>1. p * (x + 1) <= p * q
    BY <1>2, Scaled
  <2>2. p * (x + 1) = p * x + p
    BY <1>2
  <2>3. p * x \in Nat /\ p * q \in Nat
    BY <1>2
  <2> QED
    BY <1>2, <2>1, <2>2, <2>3
<1>4. ~(q < x)
  <2> SUFFICES ASSUME q < x PROVE FALSE
    OBVIOUS
  <2>1. p * (q + 1) <= p * x
    BY <1>2, Scaled
  <2>2. p * (q + 1) = p * q + p
    OBVIOUS
  <2>3. p * x \in Nat /\ p * q \in Nat
    BY <1>2
  <2> QED
    BY <1>2, <2>1, <2>2, <2>3
<1>5. x = q
  BY <1>2, <1>3, <1>4
<1>6. y = r
  <2>1. p * q \in Nat
    OBVIOUS
  <2> QED
    BY <1>2, <1>5, <2>1
<1> QED
  BY <1>1, <1>5, <1>6

\* Where the i-th sample of n batches is.
LEMMA Place ==
  ASSUME NEW n \in Nat, NEW i \in 1..(PerBatch * n)
  PROVE  \E q \in 0..(n - 1), r \in 0..(PerBatch - 1) :
           /\ i - 1 = PerBatch * q + r
           /\ (i - 1) \div PerBatch = q /\ (i - 1) % PerBatch = r
<1>1. PerBatch \in Nat \ {0} /\ PerBatch * n \in Nat
  BY PollStreamAssumption
<1>2. i - 1 \in Nat /\ i - 1 < PerBatch * n
  BY <1>1
<1>3. PICK q \in Nat, r \in 0..(PerBatch - 1) :
        /\ q = (i - 1) \div PerBatch /\ r = (i - 1) % PerBatch
        /\ i - 1 = PerBatch * q + r
  BY <1>1, <1>2, Quotients
<1>4. ~(n <= q)
  <2> SUFFICES ASSUME n <= q PROVE FALSE
    OBVIOUS
  <2>1. PerBatch * n <= PerBatch * q /\ PerBatch * q \in Nat
    BY <1>1, Scaled
  <2>2. PerBatch * q <= i - 1
    BY <1>3, <2>1
  <2> QED
    BY <1>1, <1>2, <2>1, <2>2
<1>5. q \in 0..(n - 1)
  BY <1>4
<1> QED
  BY <1>3, <1>5

LEMMA FlatFacts ==
  ASSUME NEW b \in Seq(Nat)
  PROVE  /\ Flat(b) \in Seq(Sample) /\ Len(Flat(b)) = PerBatch * Len(b)
         /\ PerBatch * Len(b) \in Nat
         /\ DOMAIN Flat(b) = 1..(PerBatch * Len(b))
<1>1. PerBatch \in Nat \ {0} /\ Len(b) \in Nat /\ PerBatch * Len(b) \in Nat
  BY PollStreamAssumption
<1>2. ASSUME NEW i \in 1..(PerBatch * Len(b))
      PROVE  <<b[(i - 1) \div PerBatch + 1], ((i - 1) % PerBatch) + 1>> \in Sample
  <2>1. PICK q \in 0..(Len(b) - 1), r \in 0..(PerBatch - 1) :
          (i - 1) \div PerBatch = q /\ (i - 1) % PerBatch = r
    BY <1>1, Place
  <2>2. q + 1 \in 1..Len(b) /\ r + 1 \in 1..PerBatch
    BY <1>1
  <2>3. b[q + 1] \in Nat
    BY <2>2, ElementOfSeq
  <2> QED
    BY <2>1, <2>2, <2>3 DEF Sample
<1>3. Flat(b) \in Seq(Sample)
  BY <1>1, <1>2, IsASeq DEF Flat
<1>4. DOMAIN Flat(b) = 1..(PerBatch * Len(b))
  BY DEF Flat
<1> QED
  BY <1>1, <1>3, <1>4, LenProperties

\* The samples of batches one after the other.
LEMMA FlatConcat ==
  ASSUME NEW a \in Seq(Nat), NEW b \in Seq(Nat)
  PROVE  Flat(a \o b) = Flat(a) \o Flat(b)
<1>1. PICK m, n : m = Len(a) /\ n = Len(b)
  OBVIOUS
<1>2. /\ m \in Nat /\ n \in Nat /\ PerBatch \in Nat \ {0}
      /\ PerBatch * m \in Nat /\ PerBatch * n \in Nat /\ PerBatch * (m + n) = PerBatch * m + PerBatch * n
  <2>1. m \in Nat /\ n \in Nat /\ PerBatch \in Nat \ {0}
    BY <1>1, PollStreamAssumption
  <2> QED
    BY <2>1
<1>3. PICK c : c = a \o b
  OBVIOUS
<1>4. /\ c \in Seq(Nat) /\ Len(c) = m + n
      /\ \A i \in 1..(m + n) : c[i] = IF i <= m THEN a[i] ELSE b[i - m]
  BY <1>1, <1>3, ConcatProperties
<1>5. /\ Flat(a) \in Seq(Sample) /\ Len(Flat(a)) = PerBatch * m
      /\ Flat(b) \in Seq(Sample) /\ Len(Flat(b)) = PerBatch * n
      /\ Flat(c) \in Seq(Sample) /\ Len(Flat(c)) = PerBatch * m + PerBatch * n
  BY <1>1, <1>2, <1>4, FlatFacts
<1>6. PICK f, fa, fb : f = fa \o fb /\ fa = Flat(a) /\ fb = Flat(b)
  OBVIOUS
<1>7. /\ f \in Seq(Sample) /\ Len(f) = PerBatch * m + PerBatch * n
      /\ \A i \in 1..(PerBatch * m + PerBatch * n) :
           f[i] = IF i <= PerBatch * m THEN fa[i] ELSE fb[i - PerBatch * m]
  <2>1. /\ fa \in Seq(Sample) /\ Len(fa) = PerBatch * m
        /\ fb \in Seq(Sample) /\ Len(fb) = PerBatch * n
    BY <1>5, <1>6
  <2>2. /\ f \in Seq(Sample) /\ Len(f) = Len(fa) + Len(fb)
        /\ \A i \in 1..(Len(fa) + Len(fb)) :
             f[i] = IF i <= Len(fa) THEN fa[i] ELSE fb[i - Len(fa)]
    BY <1>6, <2>1, ConcatProperties
  <2> QED
    BY <2>1, <2>2
<1>8. ASSUME NEW i \in 1..(PerBatch * m + PerBatch * n)
      PROVE  Flat(c)[i] = f[i]
  <2>1. Flat(c)[i] = <<c[(i - 1) \div PerBatch + 1], ((i - 1) % PerBatch) + 1>>
    BY <1>1, <1>2, <1>4 DEF Flat
  <2>2. CASE i <= PerBatch * m
    <3>1. i \in 1..(PerBatch * m)
      BY <1>2, <2>2
    <3>2. f[i] = <<a[(i - 1) \div PerBatch + 1], ((i - 1) % PerBatch) + 1>>
      BY <1>1, <1>6, <1>7, <2>2, <3>1 DEF Flat
    <3>3. PICK q \in 0..(m - 1) : (i - 1) \div PerBatch = q
      BY <1>1, <1>2, <3>1, Place
    <3>4. q + 1 \in 1..(m + n) /\ q + 1 <= m
      BY <1>2
    <3>5. c[q + 1] = a[q + 1]
      BY <1>4, <3>4
    <3> QED
      BY <2>1, <3>2, <3>3, <3>5
  <2>3. CASE ~(i <= PerBatch * m)
    <3>1. PICK j : j = i - PerBatch * m
      OBVIOUS
    <3>2. j \in 1..(PerBatch * n) /\ i = PerBatch * m + j
      BY <1>2, <2>3, <3>1
    <3>3. f[i] = <<b[(j - 1) \div PerBatch + 1], ((j - 1) % PerBatch) + 1>>
      BY <1>1, <1>6, <1>7, <2>3, <3>1, <3>2 DEF Flat
    <3>4. PICK q \in 0..(n - 1), r \in 0..(PerBatch - 1) :
            j - 1 = PerBatch * q + r /\ (j - 1) \div PerBatch = q /\ (j - 1) % PerBatch = r
      BY <1>1, <1>2, <3>2, Place
    <3>5. PerBatch * q \in Nat /\ PerBatch * (m + q) = PerBatch * m + PerBatch * q /\ m + q \in Nat
      BY <1>2
    <3>6. i - 1 = PerBatch * (m + q) + r /\ i - 1 \in Nat
      BY <1>2, <3>2, <3>4, <3>5
    <3>7. (i - 1) \div PerBatch = m + q /\ (i - 1) % PerBatch = r
      <4>1. PICK w, z : w = m + q /\ z = i - 1
        OBVIOUS
      <4>2. w \in Nat /\ z \in Nat /\ z = PerBatch * w + r
        BY <3>5, <3>6, <4>1
      <4>3. z \div PerBatch = w /\ z % PerBatch = r
        <5>1. PerBatch \in Nat \ {0} /\ r \in 0..(PerBatch - 1)
          BY <1>2
        <5> QED
          BY <4>2, <5>1, Quotient
      <4> QED
        BY <4>1, <4>3
    <3>8. PICK k : k = m + q + 1
      OBVIOUS
    <3>9. k \in 1..(m + n) /\ ~(k <= m) /\ k - m = q + 1
      BY <1>2, <3>8
    <3>10. c[k] = b[q + 1]
      BY <1>4, <3>9
    <3> QED
      BY <2>1, <3>3, <3>4, <3>7, <3>8, <3>10
  <2> QED
    BY <2>2, <2>3
<1>9. Flat(c) = f
  BY <1>5, <1>7, <1>8, SeqEqual
<1> QED
  BY <1>3, <1>6, <1>9

LEMMA FlatOne ==
  ASSUME NEW x \in Nat
  PROVE  Flat(<<x>>) = Samples(x)
<1>1. PerBatch \in Nat \ {0} /\ Len(<<x>>) = 1 /\ PerBatch * 1 = PerBatch
  BY PollStreamAssumption
<1>2. DOMAIN Flat(<<x>>) = 1..PerBatch /\ DOMAIN Samples(x) = 1..PerBatch
  BY <1>1 DEF Flat, Samples
<1>3. ASSUME NEW i \in 1..PerBatch
      PROVE  Flat(<<x>>)[i] = Samples(x)[i]
  <2>1. i - 1 \in Nat /\ i - 1 \in 0..(PerBatch - 1) /\ i - 1 = PerBatch * 0 + (i - 1)
    BY <1>1
  <2>2. (i - 1) \div PerBatch = 0 /\ (i - 1) % PerBatch = i - 1
    BY <1>1, <2>1, Quotient
  <2>3. 0 + 1 = 1 /\ (i - 1) + 1 = i /\ <<x>>[1] = x
    OBVIOUS
  <2>4. Flat(<<x>>)[i] = <<<<x>>[(i - 1) \div PerBatch + 1], ((i - 1) % PerBatch) + 1>>
    BY <1>1 DEF Flat
  <2> QED
    BY <2>2, <2>3, <2>4 DEF Samples
<1>4. Flat(<<x>>) = [i \in 1..PerBatch |-> Flat(<<x>>)[i]]
  BY <1>1 DEF Flat
<1>5. Samples(x) = [i \in 1..PerBatch |-> Samples(x)[i]]
  BY DEF Samples
<1> QED
  BY <1>2, <1>3, <1>4, <1>5

\* Samples passed on from the head of a sequence: one taken, one given.
LEMMA PassedOn ==
  /\ \A p, q, r \in Seq(Sample) : (p \o q) \o r = p \o (q \o r)
  /\ \A p, r \in Seq(Sample) : r # <<>> => Append(p, Head(r)) \o Tail(r) = p \o r
  /\ \A p, q, r \in Seq(Sample) :
       r # <<>> => (p \o Append(q, Head(r))) \o Tail(r) = (p \o q) \o r
<1>1. \A p, q, r \in Seq(Sample) : (p \o q) \o r = p \o (q \o r)
  BY ConcatAssociative, SMTT(60)
<1>2. ASSUME NEW p \in Seq(Sample), NEW r \in Seq(Sample), r # <<>>
      PROVE  /\ Append(p, Head(r)) = p \o <<Head(r)>>
             /\ <<Head(r)>> \in Seq(Sample) /\ Tail(r) \in Seq(Sample)
             /\ r = <<Head(r)>> \o Tail(r)
  <2>1. Head(r) \in Sample /\ Tail(r) \in Seq(Sample) /\ r = <<Head(r)>> \o Tail(r)
    BY <1>2
  <2> QED
    BY <2>1, AppendIsConcat
<1>3. ASSUME NEW p \in Seq(Sample), NEW r \in Seq(Sample), r # <<>>
      PROVE  Append(p, Head(r)) \o Tail(r) = p \o r
  <2>1. PICK h, t \in Seq(Sample) : h = <<Head(r)>> /\ t = Tail(r)
    BY <1>2, <1>3
  <2>2. (p \o h) \o t = p \o (h \o t)
    BY <1>1, <2>1, Zenon
  <2> QED
    BY <1>2, <1>3, <2>1, <2>2, ZenonT(60)
<1>4. ASSUME NEW p \in Seq(Sample), NEW q \in Seq(Sample), NEW r \in Seq(Sample), r # <<>>
      PROVE  (p \o Append(q, Head(r))) \o Tail(r) = (p \o q) \o r
  <2>1. PICK h, t \in Seq(Sample) : h = <<Head(r)>> /\ t = Tail(r)
    BY <1>2, <1>4
  <2>2. PICK c \in Seq(Sample) : c = p \o q
    BY ConcatProperties
  <2>3. p \o (q \o h) = c \o h
    <3>1. (p \o q) \o h = p \o (q \o h)
      BY ConcatAssociative, SMTT(60)
    <3> QED
      BY <2>2, <3>1, Zenon
  <2>4. (c \o h) \o t = c \o (h \o t)
    BY <1>1, <2>1, <2>2, Zenon
  <2> QED
    BY <1>2, <1>4, <2>1, <2>2, <2>3, <2>4, ZenonT(60)
<1> QED
  BY <1>1, <1>3, <1>4, Zenon

LEMMA ConcatPrefix ==
  ASSUME NEW S, NEW s \in Seq(S), NEW t \in Seq(S)
  PROVE  IsPrefix(s, s \o t)
<1>1. PICK c : c = s \o t
  OBVIOUS
<1>2. /\ c \in Seq(S) /\ Len(s) \in Nat /\ Len(t) \in Nat /\ Len(c) = Len(s) + Len(t)
      /\ \A i \in 1..Len(s) : c[i] = s[i]
  <2>1. /\ c \in Seq(S) /\ Len(c) = Len(s) + Len(t)
        /\ \A i \in 1..(Len(s) + Len(t)) : c[i] = IF i <= Len(s) THEN s[i] ELSE t[i - Len(s)]
    BY <1>1, ConcatProperties
  <2>2. Len(s) \in Nat /\ Len(t) \in Nat
    OBVIOUS
  <2>3. \A i \in 1..Len(s) : i \in 1..(Len(s) + Len(t)) /\ i <= Len(s)
    BY <2>2
  <2> QED
    BY <2>1, <2>2, <2>3
<1>3. SubSeq(c, 1, Len(s)) = [i \in 1..Len(s) |-> c[i]]
  BY <1>2
<1>4. SubSeq(s, 1, Len(s)) = [i \in 1..Len(s) |-> s[i]]
  BY <1>2
<1>5. SubSeq(s, 1, Len(s)) = SubSeq(c, 1, Len(s))
  BY <1>2, <1>3, <1>4
<1> QED
  BY <1>1, <1>2, <1>5 DEF IsPrefix

\* What was received from the recording is in the streams and hands up to the
\* reader, until the body is left; from then on nothing but the reader moves.
OnTheWay ==
  /\ opts.overflow = "BLOCK"
  /\ fwd \in {"unborn", "spawned", "receive"} => hand = <<>>
  /\ IF cm = "open" THEN Flat(delivered) = (got \o out) \o hand
     ELSE IsPrefix(got \o out, Flat(polled))

\* The batches not received yet follow.
LEMMA PassedOnFacts ==
  ASSUME IInv, SInv, OnTheWay
  PROVE  /\ PassedOnInOrder
         /\ IsPrefix(got \o out, Flat(polled))
<1>1. PICK blocked : blocked = IF pc \in {"offer", "send"} THEN <<tick>> ELSE <<>>
  OBVIOUS
<1>2. /\ blocked \in Seq(Nat) /\ queue \in Seq(Nat) /\ delivered \in Seq(Nat)
      /\ got \in Seq(Sample) /\ out \in Seq(Sample) /\ hand \in Seq(Sample)
  BY <1>1 DEF IInv, TypeOK, SInv, StreamTypeOK
<1>3. CASE cm = "open"
  <2>1. polled = (delivered \o queue) \o blocked
    BY <1>1 DEF IInv, BlockLosesNothing, OnTheWay
  <2>2. PICK rest : rest = queue \o blocked
    OBVIOUS
  <2>3. rest \in Seq(Nat) /\ polled = delivered \o rest
    <3>1. (delivered \o queue) \o blocked = delivered \o (queue \o blocked)
      <4>1. \A p, q, r \in Seq(Nat) : (p \o q) \o r = p \o (q \o r)
        BY ONLY ConcatAssociative
      <4> QED
        BY <1>2, <4>1, Zenon
    <3>2. queue \o blocked \in Seq(Nat)
      BY <1>2, ConcatProperties
    <3> QED
      BY <2>1, <2>2, <3>1, <3>2
  <2>4. Flat(polled) = Flat(delivered) \o Flat(rest)
    BY <1>2, <2>3, FlatConcat
  <2>5. Flat(polled) = ((got \o out) \o hand) \o Flat(rest)
    BY <1>3, <2>4 DEF OnTheWay
  <2>6. PICK x, y : x = got \o out /\ y = Flat(rest)
    OBVIOUS
  <2>7. x \in Seq(Sample) /\ y \in Seq(Sample) /\ hand \o y \in Seq(Sample)
    BY <1>2, <2>3, <2>6, FlatFacts, ConcatProperties
  <2>8. Flat(polled) = x \o (hand \o y)
    <3>1. (x \o hand) \o y = x \o (hand \o y)
      <4>1. x \in Seq(Sample) /\ hand \in Seq(Sample) /\ y \in Seq(Sample)
        BY <1>2, <2>7
      <4> QED
        BY <4>1, PassedOn, Zenon
    <3>2. Flat(polled) = (x \o hand) \o y
      BY <2>5, <2>6
    <3> QED
      BY <3>1, <3>2
  <2>9. IsPrefix(got \o out, Flat(polled))
    BY <2>6, <2>7, <2>8, ConcatPrefix
  <2> QED
    BY <1>1, <1>3, <2>2, <2>5, <2>9 DEF PassedOnInOrder
<1>4. CASE cm # "open"
  BY <1>4 DEF OnTheWay, PassedOnInOrder
<1> QED
  BY <1>3, <1>4

\* The poll loop does not touch what was received, and polls in an open body only.
LEMMA PollLoopPasses ==
  ASSUME PollLoop
  PROVE  /\ UNCHANGED <<opts, delivered, cm, got, out, hand, fwd>>
         /\ cm # "open" => polled' = polled
BY DEF PollLoop, Producer, Publish, PublishRoom, PublishBlock, PublishDropNewest,
       PublishDropOldest, PollReturns, SendReturns, OfferRoom, OfferBlocks, Disconnect,
       BackoffOver, Rebuilt, Wake, At, ProducerFails, ProducerCancelled, stream,
       forwarder, readers

LEMMA NextOnTheWay ==
  ASSUME IInv, SInv, OnTheWay, [StreamNext]_allvars
  PROVE  OnTheWay'
<1>1. /\ got \in Seq(Sample) /\ out \in Seq(Sample) /\ hand \in Seq(Sample)
      /\ queue \in Seq(Nat) /\ delivered \in Seq(Nat)
  BY DEF IInv, TypeOK, SInv, StreamTypeOK
<1>2. ASSUME UNCHANGED <<opts, delivered, polled, cm>>,
             got' \o out' = got \o out, hand' = hand,
             fwd' \in {"unborn", "spawned", "receive"} =>
               fwd \in {"unborn", "spawned", "receive"}
      PROVE  OnTheWay'
  BY <1>2 DEF OnTheWay, Flat
<1>3. CASE PollLoop
  <2>1. CASE cm = "open"
    BY <2>1, <1>3, PollLoopPasses DEF OnTheWay, Flat
  <2>2. CASE cm # "open"
    BY <1>2, <1>3, <2>2, PollLoopPasses
  <2> QED
    BY <2>1, <2>2
<1>4. CASE ForwarderReceives
  <2>1. /\ cm = "open" /\ cm' = cm /\ fwd = "receive" /\ opts' = opts
        /\ got' = got /\ out' = out /\ fwd' = "forward" /\ queue # <<>>
        /\ hand' = Samples(Head(queue)) /\ delivered' = Append(delivered, Head(queue))
    BY <1>4 DEF ForwarderReceives, Forwarding, Receive, readers
  <2>2. Head(queue) \in Nat
    BY <1>1, <2>1, Queues
  <2>3. Flat(Append(delivered, Head(queue))) = Flat(delivered) \o Samples(Head(queue))
    <3>1. Append(delivered, Head(queue)) = delivered \o <<Head(queue)>>
      BY <1>1, <2>2, AppendIsConcat
    <3>2. <<Head(queue)>> \in Seq(Nat)
      BY <2>2, Queues
    <3> QED
      BY <1>1, <2>2, <3>1, <3>2, FlatConcat, FlatOne
  <2>4. Flat(delivered) = got \o out
    <3>1. Flat(delivered) = (got \o out) \o <<>>
      BY <2>1 DEF OnTheWay
    <3>2. got \o out \in Seq(Sample)
      BY <1>1, ConcatProperties
    <3> QED
      BY <3>1, <3>2, ConcatEmptySeq
  <2>5. Flat(delivered)' = Flat(Append(delivered, Head(queue)))
    BY <2>1 DEF Flat
  <2> QED
    BY <2>1, <2>3, <2>4, <2>5 DEF OnTheWay
<1>5. CASE ForwardSample
  <2>1. /\ cm = "open" /\ cm' = cm /\ opts' = opts /\ delivered' = delivered
        /\ got' = got /\ out' = Append(out, Head(hand)) /\ hand' = Tail(hand)
        /\ fwd' = (IF Tail(hand) = <<>> THEN "receive" ELSE "forward") /\ hand # <<>>
    BY <1>5 DEF ForwardSample, Forwarding, recording, readers, stream, SInv
  <2>2. (got \o Append(out, Head(hand))) \o Tail(hand) = (got \o out) \o hand
    BY <1>1, <2>1, PassedOn, Zenon
  <2>3. Flat(delivered)' = Flat(delivered)
    BY <2>1 DEF Flat
  <2> QED
    BY <2>1, <2>2, <2>3 DEF OnTheWay
<1>6. CASE ForwarderStarts \/ BatchesEnd \/ ForwarderEnds
  BY <1>2, <1>6 DEF ForwarderStarts, BatchesEnd, EndOfStream, ForwarderEnds, Exit,
                    recording, forwarder, readers, stream
<1>7. CASE ForwarderLeaves
  <2>1. /\ cm' = "closing" /\ fwd' = "leaving" /\ opts' = opts
        /\ got' = got /\ out' = out /\ polled' = polled
    BY <1>7 DEF ForwarderLeaves, LeaveBody, readers
  <2>2. IsPrefix(got \o out, Flat(polled))
    BY PassedOnFacts
  <2>3. IsPrefix(got' \o out', Flat(polled'))
    BY <2>1, <2>2
  <2> QED
    BY <2>1, <2>3 DEF OnTheWay, Flat
<1>8. CASE Read
  <2>1. /\ UNCHANGED <<opts, delivered, polled, cm, hand, fwd>> /\ out # <<>>
        /\ got' = Append(got, Head(out)) /\ out' = Tail(out)
    BY <1>8 DEF Read, recording, stream
  <2>2. got' \o out' = got \o out
    BY <1>1, <2>1, PassedOn, Zenon
  <2> QED
    BY <1>2, <2>1, <2>2
<1>9. CASE \/ EnterSession \/ IterationEnds \/ Break \/ Ended \/ Quit \/ SessionCloses
           \/ UNCHANGED allvars
  <2>1. UNCHANGED <<recording, hand, out, got>>
    BY <1>9 DEF EnterSession, IterationEnds, Break, Ended, Quit, Aclose, SessionCloses,
                forwarder, readers, allvars
  <2>2. fwd' \in {"unborn", "spawned", "receive"} => fwd \in {"unborn", "spawned", "receive"}
    BY <1>9 DEF EnterSession, IterationEnds, Break, Ended, Quit, Aclose, SessionCloses,
                forwarder, allvars, SInv, Nested
  <2> QED
    BY <1>2, <2>1, <2>2 DEF recording, stream
<1> QED
  BY <1>3, <1>4, <1>5, <1>6, <1>7, <1>8, <1>9 DEF StreamNext, Forwarder, Reader

\* The two streams and the two tasks pass the samples on in order, however
\* large a batch is and however far the reader is behind (analyzer.py:197-202).
THEOREM EverySamplePassedOn == StreamSpec => []PassedOnInOrder
<1>1. StreamInit => OnTheWay
  <2> SUFFICES ASSUME StreamInit PROVE OnTheWay
    OBVIOUS
  <2>1. /\ opts.overflow = "BLOCK" /\ hand = <<>> /\ cm = "open"
        /\ delivered = <<>> /\ got = <<>> /\ out = <<>>
    BY DEF StreamInit, Init
  <2>2. Flat(<<>>) = <<>>
    <3>1. <<>> \in Seq(Nat) /\ Len(<<>>) = 0 /\ PerBatch * 0 = 0
      BY PollStreamAssumption
    <3>2. Flat(<<>>) \in Seq(Sample) /\ Len(Flat(<<>>)) = 0
      BY <3>1, FlatFacts
    <3> QED
      BY <3>2, EmptySeq
  <2>3. (got \o out) \o hand = <<>>
    BY <2>1
  <2> QED
    BY <2>1, <2>2, <2>3 DEF OnTheWay
<1>2. IInv /\ SInv /\ OnTheWay => PassedOnInOrder
  BY PassedOnFacts
<1> QED
  BY <1>1, <1>2, StreamRecords, Invariance, StreamInvariance, NextOnTheWay, PTL
     DEF StreamSpec
=============================================================================

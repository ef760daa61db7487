------------------------------ MODULE Recorder ------------------------------
(***************************************************************************)
(* streaming/recorder.py: record() drives a PollSource on the absolute     *)
(* schedule start + n * period and hands one batch per slot to a consumer  *)
(* through a bounded memory stream.  The producer task and the consumer    *)
(* share one event loop, so what happens between two awaits is one step:   *)
(* a producer step below runs from the resumption of one await to the next *)
(* await, and pc names the await the producer is parked at.                *)
(*                                                                         *)
(* A batch is the slot it was polled for.  Time is an integer; it passes   *)
(* in the producer's steps only, since the consumer reads no clock.        *)
(***************************************************************************)
EXTENDS Integers, Sequences

CONSTANTS
  Period,        \* 1 / rate_hz, in clock units
  TotalTicks,    \* round(duration * rate_hz); duration=None is "large enough"
  BufferSize,    \* capacity of the receive stream
  Backoff,       \* the reconnect schedule, in clock units
  MaxWait,       \* bound: longest poll, rebuild or wait for a slow consumer
  MaxLatency     \* bound: how late the event loop may wake a sleeper

ASSUME RecorderAssumption ==
  /\ Period \in Nat \ {0}
  /\ TotalTicks \in Nat \ {0}
  /\ BufferSize \in Nat \ {0}
  /\ Backoff \in Seq(Nat)
  /\ Len(Backoff) > 0
  /\ MaxWait \in Nat
  /\ MaxLatency \in Nat

VARIABLES
  opts,            \* overflow, auto_reconnect, reconnect_factory of the call
  clock,           \* anyio.current_time() - start
  pc,              \* the await the producer is parked at
  outcome,         \* how _run_producer stands
  tick,            \* the slot being worked on
  backoff_idx,     \* consecutive failures, the index into the schedule
  samples_emitted, \* AcquisitionSummary counters
  samples_late,
  disconnects,
  finished_at,     \* finished_at is set: the context manager has returned
  queue,           \* batches buffered in the memory stream
  cm,              \* the context manager body: "open" until it is left
  ended,           \* the consumer's iteration met EndOfStream
  polled,          \* history: batches the source returned
  delivered,       \* history: batches the consumer received
  evicted          \* history: how many batches DROP_OLDEST evicted

summary == <<samples_emitted, samples_late, disconnects>>
stream == <<queue, delivered, evicted, ended>>
schedule == <<clock, pc, outcome, tick, backoff_idx>>
vars == <<opts, schedule, summary, finished_at, stream, cm, polled>>

OverflowPolicy == {"BLOCK", "DROP_NEWEST", "DROP_OLDEST"}
Options ==
  [overflow: OverflowPolicy, auto_reconnect: BOOLEAN, factory: BOOLEAN]

\* send_stream.send yields once ("offer"), then blocks while the buffer is full
\* ("send"); "sent": the blocked batch was taken by a receive, and the producer
\* has not been resumed yet.
Awaits == {"sleep", "poll", "backoff", "rebuild", "offer", "send", "sent", "end"}
Outcomes == {"running", "finished", "failed", "cancelled"}

TypeOK ==
  /\ opts \in Options
  /\ clock \in Nat
  /\ pc \in Awaits
  /\ outcome \in Outcomes
  /\ tick \in Nat
  /\ backoff_idx \in Nat
  /\ samples_emitted \in Nat
  /\ samples_late \in Nat
  /\ disconnects \in Nat
  /\ finished_at \in BOOLEAN
  /\ queue \in Seq(Nat)
  /\ Len(queue) <= BufferSize
  /\ cm \in {"open", "closing"}
  /\ ended \in BOOLEAN
  /\ polled \in Seq(Nat)
  /\ delivered \in Seq(Nat)
  /\ evicted \in Nat

-----------------------------------------------------------------------------
\* Schedule

Target(t) == t * Period

\* Mutant of Missed: a fixed-delay loop, which never skips.
MissedNever(t, now) == 0

\* Whole periods lost when slot t is reached at time now.
Missed(t, now) ==
  IF now > Target(t) + Period THEN (now - Target(t)) \div Period ELSE 0

\* Mutant of NextSlot: the loop looks for the very end of the schedule.
NextSlotUntilEqual(t, late, now) ==
  LET missed == Missed(t, now)
  IN  /\ clock' = now
      /\ IF t # TotalTicks
           THEN /\ tick' = t + missed
                /\ samples_late' = late + missed
                /\ pc' = IF now < Target(t + missed) THEN "sleep" ELSE "poll"
                /\ outcome' = outcome
           ELSE /\ tick' = t
                /\ samples_late' = late
                /\ pc' = "end"
                /\ outcome' = "finished"

\* The top of the while loop, entered at time now for slot t with the late
\* count as it stands: stop, or skip the lost slots and sleep or poll.
NextSlot(t, late, now) ==
  LET missed == Missed(t, now)
  IN  /\ clock' = now
      /\ IF t < TotalTicks
           THEN /\ tick' = t + missed
                /\ samples_late' = late + missed
                /\ pc' = IF now < Target(t + missed) THEN "sleep" ELSE "poll"
                /\ outcome' = outcome
           ELSE /\ tick' = t
                /\ samples_late' = late
                /\ pc' = "end"
                /\ outcome' = "finished"

Init ==
  /\ opts \in Options
  /\ clock = 0
  /\ pc = "poll"
  /\ outcome = "running"
  /\ tick = 0
  /\ backoff_idx = 0
  /\ samples_emitted = 0
  /\ samples_late = 0
  /\ disconnects = 0
  /\ finished_at = FALSE
  /\ queue = <<>>
  /\ cm = "open"
  /\ ended = FALSE
  /\ polled = <<>>
  /\ delivered = <<>>
  /\ evicted = 0

\* Cancellation reaches the producer at whatever it awaits, except an await
\* whose result is already there ("sent").
At(await) ==
  /\ outcome = "running"
  /\ cm = "open"
  /\ pc = await

\* sleep_until returns.
Wake(l) ==
  /\ At("sleep")
  /\ clock' = Target(tick) + l
  /\ pc' = "poll"
  /\ UNCHANGED <<opts, outcome, tick, backoff_idx, summary, finished_at, stream, cm,
                 polled>>

-----------------------------------------------------------------------------
\* The poll returns a batch after d: _publish, then the next slot.

PollReturns ==
  /\ At("poll")
  /\ polled' = Append(polled, tick)
  /\ backoff_idx' = 0
  /\ UNCHANGED <<opts, disconnects, finished_at, delivered, ended, cm>>

Full == Len(queue) >= BufferSize

\* The dropping policies, send_nowait: there is room.
PublishRoom(d) ==
  /\ PollReturns
  /\ opts.overflow # "BLOCK"
  /\ ~Full
  /\ queue' = Append(queue, tick)
  /\ samples_emitted' = samples_emitted + 1
  /\ NextSlot(tick + 1, samples_late, clock + d)
  /\ UNCHANGED evicted

\* Mutant of PublishBlock: BLOCK discards like DROP_NEWEST.
PublishBlockDiscards(d) ==
  /\ PollReturns
  /\ opts.overflow = "BLOCK"
  /\ IF Full
       THEN NextSlot(tick + 1, samples_late + 1, clock + d)
       ELSE /\ clock' = clock + d
            /\ pc' = "offer"
            /\ UNCHANGED <<outcome, tick, samples_late>>
  /\ UNCHANGED <<queue, samples_emitted, evicted>>

\* BLOCK: send_stream.send, which lets other tasks run before it tries.
PublishBlock(d) ==
  /\ PollReturns
  /\ opts.overflow = "BLOCK"
  /\ clock' = clock + d
  /\ pc' = "offer"
  /\ UNCHANGED <<outcome, tick, samples_emitted, samples_late, queue, evicted>>

\* send_stream.send goes on: there is room.
OfferRoom ==
  /\ At("offer")
  /\ ~Full
  /\ queue' = Append(queue, tick)
  /\ samples_emitted' = samples_emitted + 1
  /\ NextSlot(tick + 1, samples_late, clock)
  /\ UNCHANGED <<opts, backoff_idx, disconnects, finished_at, delivered, evicted,
                 ended, cm, polled>>

\* send_stream.send goes on: wait for the consumer.
OfferBlocks ==
  /\ At("offer")
  /\ Full
  /\ pc' = "send"
  /\ UNCHANGED <<opts, clock, outcome, tick, backoff_idx, summary, finished_at,
                 stream, cm, polled>>

\* DROP_NEWEST: discard the batch just polled.
PublishDropNewest(d) ==
  /\ PollReturns
  /\ Full
  /\ opts.overflow = "DROP_NEWEST"
  /\ NextSlot(tick + 1, samples_late + 1, clock + d)
  /\ UNCHANGED <<queue, samples_emitted, evicted>>

\* Mutant of PublishDropOldest: the newest buffered batch is evicted.
PublishDropNewerBatch(d) ==
  /\ PollReturns
  /\ Full
  /\ opts.overflow = "DROP_OLDEST"
  /\ queue' = Append(SubSeq(queue, 1, Len(queue) - 1), tick)
  /\ evicted' = evicted + 1
  /\ samples_emitted' = samples_emitted + 1
  /\ NextSlot(tick + 1, samples_late + 1, clock + d)

\* DROP_OLDEST: the evict-and-retry loop has no await, so one eviction always
\* makes the room the retry needs.
PublishDropOldest(d) ==
  /\ PollReturns
  /\ Full
  /\ opts.overflow = "DROP_OLDEST"
  /\ queue' = Append(Tail(queue), tick)
  /\ evicted' = evicted + 1
  /\ samples_emitted' = samples_emitted + 1
  /\ NextSlot(tick + 1, samples_late + 1, clock + d)

\* The blocked send returns.  It is no longer cancellable: it resumes, counts
\* the batch and only then meets a pending cancellation at its next await.
SendReturns(d) ==
  /\ outcome = "running"
  /\ pc = "sent"
  /\ samples_emitted' = samples_emitted + 1
  /\ NextSlot(tick + 1, samples_late, clock + d)
  /\ UNCHANGED <<opts, backoff_idx, disconnects, finished_at, stream, cm, polled>>

-----------------------------------------------------------------------------
\* The poll raises

\* Mutant of Disconnect: the slot of the failed poll is not counted late.
DisconnectUncounted(d) ==
  /\ At("poll")
  /\ opts.auto_reconnect
  /\ clock' = clock + d
  /\ disconnects' = disconnects + 1
  /\ pc' = "backoff"
  /\ UNCHANGED <<opts, outcome, tick, backoff_idx, samples_emitted, samples_late,
                 finished_at, stream, cm, polled>>

\* ServomexConnectionError under auto_reconnect: count the slot late, back off.
Disconnect(d) ==
  /\ At("poll")
  /\ opts.auto_reconnect
  /\ clock' = clock + d
  /\ samples_late' = samples_late + 1
  /\ disconnects' = disconnects + 1
  /\ pc' = "backoff"
  /\ UNCHANGED <<opts, outcome, tick, backoff_idx, samples_emitted, finished_at,
                 stream, cm, polled>>

BackoffDelay ==
  Backoff[IF backoff_idx < Len(Backoff) THEN backoff_idx + 1 ELSE Len(Backoff)]

\* The backoff sleep ends: rebuild the source, or go on with the old one.
BackoffOver(l) ==
  /\ At("backoff")
  /\ LET now == clock + BackoffDelay + l
     IN  IF opts.factory
           THEN /\ clock' = now
                /\ pc' = "rebuild"
                /\ UNCHANGED <<outcome, tick, backoff_idx, samples_late>>
           ELSE /\ backoff_idx' = backoff_idx + 1
                /\ NextSlot(tick + 1, samples_late, now)
  /\ UNCHANGED <<opts, samples_emitted, disconnects, finished_at, stream, cm, polled>>

\* reconnect_factory returns a source, or raises ServomexConnectionError.
Rebuilt(d) ==
  /\ At("rebuild")
  /\ backoff_idx' \in {0, backoff_idx + 1}
  /\ NextSlot(tick + 1, samples_late, clock + d)
  /\ UNCHANGED <<opts, samples_emitted, disconnects, finished_at, stream, cm, polled>>

\* Any other error of the source or of the factory (a timeout too), and a
\* connection error without auto_reconnect, ends the producer.
ProducerFails ==
  /\ outcome = "running"
  /\ cm = "open"
  /\ pc \in {"poll", "rebuild"}
  /\ outcome' = "failed"
  /\ UNCHANGED <<opts, clock, pc, tick, backoff_idx, summary, finished_at, stream, cm,
                 polled>>

-----------------------------------------------------------------------------
\* The consumer and the context manager

\* A receive takes the oldest batch; a blocked sender's batch moves into the
\* buffer in the same step.  The consumer of a producer that failed may still
\* run until the task group cancels it.
Receive ==
  /\ cm = "open"
  /\ ~ended
  /\ queue # <<>>
  /\ delivered' = Append(delivered, Head(queue))
  /\ IF pc = "send"
       THEN /\ queue' = Append(Tail(queue), tick)
            /\ pc' = "sent"
       ELSE /\ queue' = Tail(queue)
            /\ pc' = pc
  /\ UNCHANGED <<opts, clock, outcome, tick, backoff_idx, summary, finished_at,
                 evicted, ended, cm, polled>>

\* The producer closed the stream, whichever way it ended, and the buffer is
\* drained.
EndOfStream ==
  /\ cm = "open"
  /\ outcome \in {"finished", "failed"}
  /\ queue = <<>>
  /\ ~ended
  /\ ended' = TRUE
  /\ UNCHANGED <<opts, schedule, summary, finished_at, queue, delivered, evicted, cm,
                 polled>>

\* The caller leaves the body: tg.cancel().
LeaveBody ==
  /\ cm = "open"
  /\ cm' = "closing"
  /\ UNCHANGED <<opts, schedule, summary, finished_at, stream, polled>>

\* Mutant of ProducerCancelled: a blocked send is shielded.
ProducerCancelledUnlessSending ==
  /\ cm = "closing"
  /\ outcome = "running"
  /\ pc \notin {"send", "sent"}
  /\ outcome' = "cancelled"
  /\ UNCHANGED <<opts, clock, pc, tick, backoff_idx, summary, finished_at, stream, cm,
                 polled>>

ProducerCancelled ==
  /\ cm = "closing"
  /\ outcome = "running"
  /\ pc # "sent"
  /\ outcome' = "cancelled"
  /\ UNCHANGED <<opts, clock, pc, tick, backoff_idx, summary, finished_at, stream, cm,
                 polled>>

\* Mutant of Exit: the producer is cancelled and not joined.
ExitUnjoined ==
  /\ cm = "closing"
  /\ ~finished_at
  /\ finished_at' = TRUE
  /\ UNCHANGED <<opts, schedule, summary, stream, cm, polled>>

\* The task group has joined the producer; the summary is closed.
Exit ==
  /\ cm = "closing"
  /\ outcome # "running"
  /\ ~finished_at
  /\ finished_at' = TRUE
  /\ UNCHANGED <<opts, schedule, summary, stream, cm, polled>>

Publish(d) ==
  \/ PublishRoom(d)
  \/ PublishBlock(d)
  \/ PublishDropNewest(d)
  \/ PublishDropOldest(d)

Producer ==
  \/ \E l \in 0..MaxLatency : Wake(l) \/ BackoffOver(l)
  \/ \E d \in 0..MaxWait :
       Publish(d) \/ SendReturns(d) \/ Disconnect(d) \/ Rebuilt(d)
  \/ OfferRoom
  \/ OfferBlocks
  \/ ProducerFails
  \/ ProducerCancelled

Consumer == Receive \/ EndOfStream

Next == Producer \/ Consumer \/ LeaveBody \/ Exit

Spec == Init /\ [][Next]_vars

\* The event loop resumes every task that can run, and every poll ends because
\* the source bounds it by a timeout.  Nothing obliges the caller to leave the
\* body while the stream is open; once it has, or the producer failed, the
\* context manager unwinds by itself.
Fairness ==
  /\ WF_vars(Producer)
  /\ WF_vars(Consumer)
  /\ WF_vars(outcome = "failed" /\ LeaveBody)
  /\ WF_vars(Exit)

FairSpec == Spec /\ Fairness
-----------------------------------------------------------------------------
\* Properties

\* Every slot the schedule has passed is accounted for: it was emitted or
\* counted late, a slot whose batch was emitted and then evicted being both
\* (the AcquisitionSummary counters against tick, recorder.py:317-360).
SlotsAccounted ==
  samples_emitted + samples_late =
    tick + evicted + (IF pc \in {"backoff", "rebuild"} THEN 1 ELSE 0)

\* samples_emitted counts the batches that went onto the stream: those
\* received, those still buffered and those evicted.  A batch handed over from
\* a blocked send is counted only when the producer resumes, and that
\* happens even if the context manager is being left.
EmittedAccounted ==
  samples_emitted + (IF pc = "sent" THEN 1 ELSE 0) =
    Len(delivered) + Len(queue) + evicted

\* The AcquisitionSummary balances at every await.
Balanced == SlotsAccounted /\ EmittedAccounted

\* "The recorder blocks rather than discarding" (recorder.py:69): under BLOCK
\* every polled batch has been received, is buffered or is the blocked one.
BlockLosesNothing ==
  opts.overflow = "BLOCK" =>
    polled =
      delivered \o queue \o (IF pc \in {"offer", "send"} THEN <<tick>> ELSE <<>>)

\* Drift does not accumulate (recorder.py:13-15): however long the polls, the
\* backoffs and the blocked sends were, a poll starts within one period of
\* the slot it is for, or as late as the event loop wakes a sleeper.
StartsInItsSlot ==
  pc = "poll" =>
    /\ clock >= Target(tick)
    /\ clock <= Target(tick) + Period \/ clock <= Target(tick) + MaxLatency

\* The skip of recorder.py:319-323 is not bounded by total_ticks, so a run can
\* poll past its duration: once at most, and then it is over.
OnePollPastTheEnd ==
  \A i \in 1..Len(polled) :
    polled[i] >= TotalTicks =>
      /\ i = Len(polled)
      /\ pc \in {"offer", "send", "sent", "end"}

\* "The CM cancels and joins [the producer] before returning" (recorder.py:16):
\* once finished_at is set nothing moves the summary or the stream.
SummaryFrozen ==
  [][finished_at => UNCHANGED <<summary, stream, schedule>>]_vars

\* What the reader of the stream knows of the recorder: the batch that waits to
\* be sent is pending like those in the buffer.
newestPolled == IF polled = <<>> THEN -1 ELSE polled[Len(polled)]
pendingBatches == queue \o (IF pc \in {"offer", "send"} THEN <<tick>> ELSE <<>>)

Feed == INSTANCE BatchStream WITH
  Capacity <- BufferSize,
  overflow <- opts.overflow,
  newest <- newestPolled,
  pending <- pendingBatches,
  read <- delivered

\* record() is the stream of batches it promises its reader: newer slots only,
\* read in their order, and given up as the overflow policy says
\* (recorder.py:62-73).
ImplementsBatchStream == Feed!Spec

\* A finite run whose consumer keeps reading ends: the iteration meets the end
\* of the stream, or the body is left.
RunEnds == <>(ended \/ cm = "closing")

\* Leaving the body always completes, even past a blocked send.
ExitCompletes == cm = "closing" ~> finished_at

\* Nobody waits for ever: a recording ends, and so does leaving it.
Ends == RunEnds /\ ExitCompletes
=============================================================================

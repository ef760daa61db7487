----------------------------- MODULE PollStream -----------------------------
(***************************************************************************)
(* Analyzer.stream() over Modbus: record() runs inside a producer task     *)
(* that forwards every sample of every batch to an unbounded memory        *)
(* stream, and a StreamingSession owns that task.  Three tasks pass the    *)
(* samples on: the poll loop of Recorder, the forwarder, which is the      *)
(* consumer of the recording, and the reader, whose async for stops after  *)
(* `count' samples as servomex-stream does, or earlier when it quits.      *)
(*                                                                         *)
(* Two task groups are nested: the session's holds the forwarder, the      *)
(* recording's the poll loop.  A failure in a group cancels its owner once *)
(* the event loop comes to it, and leaving a group waits for its tasks.    *)
(***************************************************************************)
EXTENDS Recorder, SequencesExt

CONSTANTS
  PerBatch,  \* samples in a batch: the channels of a frame
  MaxCount,  \* bound: samples a reader asks for
  LastSlot   \* bound: no poll for a later slot returns

ASSUME PollStreamAssumption ==
  /\ PerBatch \in Nat \ {0}
  /\ MaxCount \in Nat
  /\ LastSlot \in Nat
  /\ LastSlot + 1 < TotalTicks \* the recording has no duration

VARIABLES
  session,  \* the StreamingSession
  fwd,      \* where the producer coroutine stands
  hand,     \* samples of the batch being forwarded that are not sent yet
  out,      \* the unbounded stream of samples
  got,      \* history: samples the reader has got
  count,    \* samples the reader asks for
  reader    \* how the reader's loop stands

readers == <<session, got, count, reader>>
forwarder == <<fwd, hand, out>>
recording == <<opts, schedule, summary, finished_at, stream, cm, polled>>
allvars == <<recording, forwarder, readers>>

\* "closing": aclose waits for the task group.  "raised": the group raised what
\* the source had failed with, "closed": it did not.
Sessions == {"new", "open", "closing", "closed", "raised"}
\* "forward": at the yield of send.send; "leaving": record() is being left.
Forwarders == {"unborn", "spawned", "receive", "forward", "leaving", "over", "failed"}
Readers == {"iterating", "ended", "broke", "quit"}

Sample == Nat \X (1..PerBatch)

StreamTypeOK ==
  /\ TypeOK
  /\ session \in Sessions
  /\ fwd \in Forwarders
  /\ hand \in Seq(Sample)
  /\ out \in Seq(Sample)
  /\ got \in Seq(Sample)
  /\ count \in 0..MaxCount
  /\ reader \in Readers

\* The samples of a batch, in the order of the frame, and of one batch after the
\* other.
Samples(batch) == [k \in 1..PerBatch |-> <<batch, k>>]
Flat(batches) ==
  [i \in 1..(PerBatch * Len(batches)) |->
     <<batches[(i - 1) \div PerBatch + 1], ((i - 1) % PerBatch) + 1>>]

StreamInit ==
  /\ Init
  /\ opts = [overflow |-> "BLOCK", auto_reconnect |-> FALSE, factory |-> FALSE]
  /\ session = "new"
  /\ fwd = "unborn"
  /\ hand = <<>>
  /\ out = <<>>
  /\ got = <<>>
  /\ count \in 1..MaxCount
  /\ reader = "iterating"

\* __aenter__ starts the producer; without it nothing is ever polled.
EnterSession ==
  /\ session = "new"
  /\ session' = "open"
  /\ fwd' = "spawned"
  /\ UNCHANGED <<recording, hand, out, got, count, reader>>

-----------------------------------------------------------------------------
\* The forwarder

\* A task that has been spawned runs up to its first await even if it has been
\* cancelled by then: it enters record(), which spawns the poll loop.
ForwarderStarts ==
  /\ fwd = "spawned"
  /\ fwd' = "receive"
  /\ UNCHANGED <<recording, hand, out, readers>>

\* The poll loop once record() is entered.  The recording has no duration: it
\* does not finish by itself.
PollLoop ==
  /\ fwd \notin {"unborn", "spawned"}
  /\ Producer
  /\ polled' # polled => tick <= LastSlot
  /\ UNCHANGED <<forwarder, readers>>

\* Nobody has cancelled the forwarder.
Forwarding(at) == fwd = at /\ session = "open" /\ cm = "open"

ForwarderReceives ==
  /\ Forwarding("receive")
  /\ Receive
  /\ hand' = Samples(Head(queue))
  /\ fwd' = "forward"
  /\ UNCHANGED <<out, readers>>

\* Mutant of ForwardSample: only the first sample of a batch is sent.
ForwardFirst ==
  /\ Forwarding("forward")
  /\ out' = Append(out, Head(hand))
  /\ hand' = <<>>
  /\ fwd' = "receive"
  /\ UNCHANGED <<recording, readers>>

\* send.send resumes; the stream is unbounded, so it never waits.
ForwardSample ==
  /\ Forwarding("forward")
  /\ out' = Append(out, Head(hand))
  /\ hand' = Tail(hand)
  /\ fwd' = IF Tail(hand) = <<>> THEN "receive" ELSE "forward"
  /\ UNCHANGED <<recording, readers>>

\* The poll loop that failed has closed the stream of batches.
BatchesEnd ==
  /\ Forwarding("receive")
  /\ EndOfStream
  /\ UNCHANGED <<forwarder, readers>>

\* Mutant of ForwarderLeaves: sending is shielded from cancellation.
ForwarderLeavesReceiving ==
  /\ fwd = "receive"
  /\ ended \/ outcome = "failed" \/ session = "closing"
  /\ LeaveBody
  /\ fwd' = "leaving"
  /\ UNCHANGED <<hand, out, readers>>

\* The body of record() is left: the recording ended, its poll loop failed, or
\* the session was closed.  What is in hand is dropped.
ForwarderLeaves ==
  /\ fwd \in {"receive", "forward"}
  /\ ended \/ outcome = "failed" \/ session = "closing"
  /\ LeaveBody
  /\ fwd' = "leaving"
  /\ hand' = <<>>
  /\ UNCHANGED <<out, readers>>

\* record() has joined its poll loop and raises what that failed with; then
\* the sending end of the stream is closed, and the task is over.
ForwarderEnds ==
  /\ fwd = "leaving"
  /\ Exit
  /\ fwd' = IF outcome = "failed" THEN "failed" ELSE "over"
  /\ UNCHANGED <<hand, out, readers>>

-----------------------------------------------------------------------------
\* The reader

\* A reader whose producer failed may still run until it is cancelled.
Read ==
  /\ session = "open"
  /\ reader = "iterating"
  /\ Len(got) < count
  /\ out # <<>>
  /\ got' = Append(got, Head(out))
  /\ out' = Tail(out)
  /\ UNCHANGED <<recording, fwd, hand, session, count, reader>>

\* StopAsyncIteration: the sending end is closed and the buffer drained.
IterationEnds ==
  /\ session = "open"
  /\ reader = "iterating"
  /\ Len(got) < count
  /\ out = <<>>
  /\ fwd \in {"over", "failed"}
  /\ reader' = "ended"
  /\ UNCHANGED <<recording, forwarder, session, got, count>>

\* aclose cancels the producer; the loop is over, or left with an exception, be
\* it the cancellation after a failure.
Aclose(why) ==
  /\ session = "open"
  /\ session' = "closing"
  /\ reader' = why
  /\ UNCHANGED <<recording, forwarder, got, count>>

Break == reader = "iterating" /\ Len(got) = count /\ Aclose("broke")
Ended == reader = "ended" /\ Aclose("ended")
Quit == reader = "iterating" /\ Aclose("quit")

\* Mutant of SessionCloses: the group is cancelled and not joined.
SessionClosesUnjoined ==
  /\ session = "closing"
  /\ session' = IF fwd = "failed" THEN "raised" ELSE "closed"
  /\ UNCHANGED <<recording, forwarder, got, count, reader>>

\* The task group has joined the producer.
SessionCloses ==
  /\ session = "closing"
  /\ fwd \in {"over", "failed"}
  /\ session' = IF fwd = "failed" THEN "raised" ELSE "closed"
  /\ UNCHANGED <<recording, forwarder, got, count, reader>>

Forwarder ==
  \/ ForwarderStarts \/ ForwarderReceives \/ ForwardSample
  \/ BatchesEnd \/ ForwarderLeaves \/ ForwarderEnds

Reader == Read \/ IterationEnds \/ Break \/ Ended

StreamNext ==
  \/ EnterSession \/ PollLoop \/ Forwarder \/ Reader \/ Quit \/ SessionCloses

StreamSpec == StreamInit /\ [][StreamNext]_allvars

\* As for Recorder; the reader keeps iterating, and is cancelled by the group
\* whose task has failed.  Nobody need enter a session, or quit.
StreamFairness ==
  /\ WF_allvars(PollLoop)
  /\ WF_allvars(Forwarder)
  /\ WF_allvars(Reader)
  /\ WF_allvars(fwd = "failed" /\ Quit)
  /\ WF_allvars(SessionCloses)

StreamFairSpec == StreamSpec /\ StreamFairness
-----------------------------------------------------------------------------
\* Properties

\* No sample is lost, repeated or reordered on its way through the two streams
\* and the two tasks (analyzer.py:197-202): while nobody has been cancelled,
\* what was polled is what the reader got, then what is on the way to it.
PassedOnInOrder ==
  LET blocked == IF pc \in {"offer", "send"} THEN <<tick>> ELSE <<>>
      onTheWay == got \o out \o hand \o Flat(queue \o blocked)
  IN  IF cm = "open" THEN Flat(polled) = onTheWay ELSE IsPrefix(got \o out, Flat(polled))

\* "The recorder's lifetime is strictly nested in the session"
\* (stream_session.py:61-62): when aclose returns or raises, the recording is
\* over and its summary final, and nothing polls the analyser any more.
NestedInSession ==
  session \in {"closed", "raised"} => outcome # "running" /\ finished_at

\* An analyser that fails cannot pass for one that has nothing more to say: the
\* loop of a reader may end quietly, but then leaving the session raises what
\* the source failed with.  servomex-stream exits with 0 only after count
\* samples (stream.py:41-54).
NeverShort ==
  session = "closed" => outcome # "failed" /\ (reader = "quit" \/ Len(got) = count)

\* What the end of a session tells its caller: that the recording is over, and
\* whether it got what it asked for (stream_session.py:89-98).
SessionTells == NestedInSession /\ NeverShort

\* Leaving a session always completes, whatever the three tasks are waiting
\* for, and a failure of the source gets there too.
CloseCompletes ==
  /\ (session = "closing") ~> (session \in {"closed", "raised"})
  /\ (outcome = "failed") ~> (session \in {"closed", "raised"})

\* n samples have been polled, or have been read if anybody still wants them.
Polled(n) == Len(Flat(polled)) >= n
Arrived(n) == Len(got) >= n \/ session # "open" \/ count < n

\* Whatever was polled reaches the reader in the end, unless it stops.
EverySampleArrives ==
  \A n \in 1..MaxCount :
    Polled(n) ~> Arrived(n)

StreamEnds == CloseCompletes /\ EverySampleArrives
=============================================================================

# servomexlib in TLA+

A verification development of `servomexlib`, the asynchronous Python library for
Servomex 4100 gas analysers (Modbus RTU/ASCII polling and passive continuous
broadcast), kept beside its source. TLA+ modules model its components, TLC
checks them on small instances, and TLAPS proves theorems about all of them for
every value of their constants. `PROJECT.json` lists the components, the
runs, the mutants that show each property is sensitive to the code, the source
lines of every definition, the hazards and the theorems. Paths below are
relative to `src/src/servomexlib/` unless they begin with `docs/`.

## The system

Everything runs on one event loop (anyio), except what `sync/` does around it.
Code between two `await`s is atomic, so every module takes one step from the
resumption of an await to the next await.

| Component | State | Operations | Talks to |
|---|---|---|---|
| recorder (`streaming/recorder.py`) | schedule, summary, bounded memory stream | `record()`: poll, publish, reconnect, exit | a `PollSource` (analyser or manager), a consumer, `pipe` |
| manager (`manager.py`) | `_devices`, `_ports` with reference sets and locks, `_closed` | `add`, `remove`, `close`, `poll`, `poll_samples`, `execute_each` | transports, Modbus clients; pollers that do not take its state lock |
| calibration control (`devices/session.py`, `protocol/modbus/client.py`) | session lock, pulse under way | `start_calibration`, `stop_calibration` | the coils of the analyser, through a bus that retries |
| read plan (`protocol/modbus/read_plan.py`) | local to one call | `_coalesce` | the Modbus client |
| Modbus reads (`protocol/modbus/client.py`) | sweep plan, read policy, names, last frame | `read_frame`, `read_channel`, `status`, `identify`, `snapshot` | session lock, analyser |
| continuous client (`protocol/continuous/client.py`, `streaming/stream_session.py`, `devices/analyzer.py`) | latest frame, event, subscribers, background task | receive loop, `read_frame`, `stream`, enter, exit | the analyser's broadcast, readers, streams |
| frame parser (`protocol/continuous/parser.py`, `checksum.py`) | none | `parse_frame`, `verify` | receive loop, detection |
| sinks (`sinks/`) | handle, schema lock, writer, rows | `open`, `write_many`, `close`, `pipe()` | a recording, a file or a database |
| opening (`devices/factory.py`, `devices/discovery.py`, `protocol/detect.py`, `transport/`) | port, pushback buffer | `open_device`, `find_devices`, `detect_protocol`, `read_until` | serial ports |
| sync facade (`sync/`) | portals, their loops, entered contexts | `SyncAnalyzer`, `SyncManager`, `SyncSink`, `record_to_sink` | threads of the caller, anyio's blocking portal |
| poll stream (`devices/analyzer.py:193-206`, `streaming/stream_session.py`) | producer task, unbounded stream | `Analyzer.stream` over Modbus, `servomex-stream` | recorder |
| registers (`registry/`, `protocol/modbus/registers.py`) | constants | addresses, decoding of words and bits | Modbus client |
| models, errors, cli, fakes | records | pure functions, printing | everything |

What is hard in it, and what must hold (the `hazards` of `PROJECT.json` list
these at their lines):

* **recorder**: a slow poll, a blocked consumer, a reconnect and the exit meet at
  any await. The schedule must not drift, the counters must account for every
  slot, no policy may lose more than it says, and the exit must end.
* **manager**: polls read the registry without the lock that `add`, `remove` and
  `close` hold across awaits. A port must be open exactly as long as a device
  needs it, and every poll must end and be complete.
* **calibration**: a pulse is three transactions, each retried, failed or
  cancelled, and a physical coil remembers. Pulses must not mix or repeat.
* **Modbus reads**: plans, policy and names are cached across awaits and changed
  by other tasks; an analyser may lack slots.
* **continuous**: frames come unasked; readers race with the receive loop, and
  streams with the exit of the analyser.
* **sinks**: a flush fails, is cancelled, or is retried on a sink that kept a
  schema lock.
* **opening**: the same bytes pass a probe, a listener and a client, and each
  failure must close what it opened.
* **poll stream**: a failure in the poll loop, two nested task groups and a reader
  that stops at any await. Leaving must complete, and a short stream must not
  pass for a whole one.
* **registers**: a plan, a block base and an offset meet in one subtraction; a
  slip decodes a channel from its neighbour.
* **sync**: who started a loop stops it, after everything on it was closed.

## Plan

In this order; what is done is described below, what is left is at the end.

1. `Recorder`, refined from `BatchStream`, with proofs: the acquisition loop is
   the core of the library.
2. `Manager`: the shared registry.
3. `Calibration`: the only operation that acts on the instrument.
4. `ReadPlan`, with proofs, `Sweep` over it, and `FrameRead`, which composes two
   plans with `Registers`.
5. `Continuous`, over `Frames`.
6. `Sinks`, `Open`, `Sync`.
7. `PollStream`, which composes `Recorder` with the session around it.
8. Proofs about `Calibration`, `Manager`, `Continuous`, `Sinks`, `Sync`,
   `PollStream`.
9. Proofs about `Sweep`, `Open` and `FrameRead`, the refinement of `BatchStream`,
   and what the earlier proofs left to TLC: the fewest blocks, the outcomes of
   polls and the samples on the way.
10. Proofs about `Frames`: what the parser makes of a damaged line.

## Modules

`MC<name>` instantiates `<name>` for TLC and `<name>*.cfg` gives the constants.
A definition named after a mutation (marked "Mutant" in its comment) is not part
of any specification: it is a plausible slip in the definition that follows it,
which the property it stands for must notice.

**Recorder** (`streaming/recorder.py`). `pc` is the await at which
`_run_producer` is parked: `sleep` (the drift-free sleep), `poll`, `offer` (the
yield with which every `send_stream.send` begins), `send` (one that found the
buffer full), `sent` (its item was taken but the producer has not
been resumed), `backoff`, `rebuild`. `Wake`, `PollReturns` inside the four
`Publish*` actions, `SendReturns`, `Disconnect`, `BackoffOver`, `Rebuilt` and
`ProducerFails` are its steps; `NextSlot` is the top of the `for` loop with its
skip of missed slots; `Receive` and `EndOfStream` are the consumer, `LeaveBody`,
`ProducerCancelled` and `Exit` the context manager. A batch is represented by
its slot. Time passes in producer steps only; `MaxWait` and `MaxLatency` bound
how long. Left out: `max_drift_ms`, and `duration=None` (a large `TotalTicks`).

**BatchStream** is what a reader of a recording may rely on: batches come in the
order of their slots, each at most once, no more than the capacity are pending,
and only the two dropping policies drop. `Feed` in `Recorder` maps the recorder's
queue and blocked batch to its `pending`; the run checks `ImplementsBatchStream`,
and `RecorderProofs` proves it.

**PollStream** (`Analyzer._poll_stream`, `StreamingSession`) EXTENDS `Recorder`,
whose consumer becomes the forwarding task: `fwd` is where that stands, `hand`
what it has of a batch, `out` the unbounded stream of samples, `session` the
session that owns it, `reader` an `async for` that stops after `count` samples.
Two task groups are nested, and each step of the session is one step of the
recording or none.

**Manager** (`manager.py`). `devices` and `ports` are `_devices` and `_ports`;
`task[t]` is where an `add`, `remove` or `close` stands, `state_lock` who is
inside; taking the lock is one step with what the call does up to its next await.
`Opened`/`OpenFails` are the await of the transport's opening, `Closed`
that of closing. A poll is a set of port groups, each with its own lock and
position; `TakePortLock` and `TakeSession` are the two waits, and `GoOn` looks the
next device up, which raises the `KeyError` of a removed one. A poll takes the
devices of a port in the order it was given them, which is any. `direct` is a task
that uses an analyser it got from `get`.

**Calibration** (`Session.start_calibration` and `stop_calibration`,
`ModbusClient._execute` and `_pulse_coil`). `phase` is the transaction of the
pulse, `attempt` the bus's retries, `coil` the analyser's coils. A request may be
lost before or after the analyser executed it.

**ReadPlan** (`_coalesce`). One step per iteration: `Extend`, `Cut`, `Finish`.
Nonempty sets of distinct channels (the callers never pass duplicates).

**Registers** and **FrameRead** (`registers.py`, `channels.py`, `status.py`,
`_sweep_once`, `calibration_status`). `Registers` holds the tables and their
addresses on the wire as operators. `FrameRead` is a whole sweep: `ReadPlan` for
the registers and, as an instance, for the discretes, one transaction per block,
one for the analyser, the slices and the frame. What the analyser answers is the
address and the time of every word, so `FrameTrue` can ask of each field of the
frame where it came from and when. The analyser changes between transactions; its
layout is that of `testing.py`.

**Sweep** (`ModbusClient` reads). `call` holds an operation's phase (`input`,
`status`, `analyser`), the blocks it has yet to read and what it has read; `plan`,
`policy`, `channels` and `metadata` are the client's caches. `Illegal` and
`TimesOut` are the two errors that make `_with_plan_fallback` try again;
`Configure` is somebody at the analyser's front panel. A lookup of a slot that
was not read has no step, and `EverySlotRead` says that this never happens.

**Frames** (`parser.py`, `checksum.py`). Pure operators over lines of characters:
`Verified` is `verify`, `Accepted` the conditions of `parse_frame`, `Says` what
the frame reads, `Wire` the line the analyser sends, and `Lines` those lines with a
character lost, gained or garbled, or cut at the front. Smaller than life: base
and checksum width are constants, header and block have fewer fields. Left out:
clock, autocal, alarm and unit fields, the byte `0x00` (which an additive
checksum cannot see), and the odd spellings that Python's `int()` takes.
`FramesAssumption` asks that every byte is below the checksum's modulus, as 255
is below 2^16 (with one hexadecimal digit a garbled byte could pass), and that the
number of readings is written in its header field, here one digit.

**Continuous** (`ContinuousClient`, `StreamingSession`, `Analyzer`'s context).
Frames are numbered as they arrive; `HandleGood` and `HandleBad` take a line of
`Lines` and do what `_handle` does, without an await. `fresh` numbers the event that
`_signal_fresh` sets and replaces. `buffer` is a stream's memory stream.

**Sinks** (`sinks/`). One sink of any of the six kinds through opens, pipes,
failures, cancellations and closes. `locked` is the `SchemaLock`, `ready` whether
the insert statement or writer exists, `stored` the rows that ultimately reached
the file or table. `Leftovers` is what a failed write leaves: nothing (SQLite), all
or nothing (Postgres), any prefix (files).

**Open** (`factory.py`, `discovery.py`, `detect.py`, `transport/base.py`). One
call at a time over several sources, with explicit protocols and `AUTO`. A
broadcast is a sequence of half frames, so a reader can tune in within one; `buf`
is the pushback buffer that detection hands to the client. `job.results` is what
`find_devices` has found, `ExitCode` what `servomex-discover` makes of it.

**Sync** (`sync/`). `host` says whose loop a facade uses, `loop` the state of each
portal's event loop, `phase` the facade's user, `second` another thread that
polls or iterates on it, also while the first closes it and after: `iterating` is
the `__next__` of a stream opened in time, `stranded` that of one opened too late
for `aclose` to end it. `resource` is `closing` between the end of the
subscriptions and that of the port, `crashed` when the receive loop raised and
`aclose` never came to either. A `KeyboardInterrupt` (`Interrupted`) takes the thread
from any call it waits for; `orphan` is the call that the loop goes on with. It is
modelled where the threads wait, not between two bytecodes. anyio's portal is
external: stopping a loop waits for its tasks, or cancels them when an exception
leaves the `with` block.

## Runs

| Run | Instance | What it shows |
|---|---|---|
| `recorder` | period 2, four slots, buffer 2, waits to 4, backoff 1 then 4 | Counters, order, schedule and summary under every policy and option; one poll at most past the end; the recorder implements `BatchStream`; a run ends and leaving it completes |
| `pollstream` | two samples a batch, buffer 1, polls to slot 3, up to four samples asked for | Samples arrive in order, all of them, in the end; leaving a session completes, with the recording over, and tells a short stream from a whole one |
| `calibration` | three callers, one group, one retry | Pulses do not overlap or repeat; a raised coil has one explanation; success means the pulse happened; calls end |
| `calibration_trigger` | one caller, two calls | Expected violation, see below |
| `manager_admin` | two tasks; three names; a path, a transport, a pre-built analyser | Names, references and open transports agree, also during and after `close` |
| `manager_polls` | two polls and a direct user against add, remove, close | How far the port lock goes; a poll that returns is complete; one raises only if a device was removed; every poll ends |
| `readplan` | all sets of six channels of the 4100 with gaps, twelve policies for registers and three for discretes, two states of the analyser, its own fault and maintenance among them | Each channel read once, inside its block, within the policy, in the fewest blocks; each field of the frame is what was at its address |
| `sweep` | two tasks, three slots, five analysers | No lookup misses, only missing slots are fatal, names and snapshots are not stale |
| `continuous` | a reader, two streams, two broadcast frames and their damaged forms | No damaged line is taken for a frame and no sound one refused; wakes, fan-out and exit are right |
| `sinks` | six kinds, batches to 3, batch size 2, flush interval 1 | Pipes account for every sample; nothing is stored twice or out of order; assertions fail only on a sink past use; what waits is flushed while batches come |
| `open` | a port, a given transport, analysers of every kind, silence and a missing port | No port is left open that has no owner; at most one bad line after a drain; a sweep tells the truth of every port |
| `sync` | one facade of each kind, private or shared, used two at a time | Loops are stopped by who started them, after what is on them, through failures, interrupts and late calls; leaving a portal ends but for the streams and contexts that `Stuck` names |

**Bounds.** Each is named in its module, and counts occurrences; none limits an
order. Four slots let the recorder poll, miss, drop and disconnect once each
with the consumer one or two behind; a wait of 4 is two periods, enough to skip a
slot and to start the next one late, and the buffer of 2 tells "full" from "one
left". `PollStream` stops the analyser after `LastSlot`: four batches are more than
the two streams, the hand and the reader hold at once. Three callers are the least
at which a queue has an order. Two tasks on one port are enough for the registry:
every conflict is between two tasks on one port; a third name is for the
pre-built analyser, and `MaxAdds` lets a path be reopened after it was closed and
a poll reach the identity of a stale lock. The channels of `readplan` leave out
one slot and three in a row, the sets of them wider gaps, and its policies cut
within, at and beyond these. Three slots have a middle one to lack. Two frames let
a wake be compared with what was cached, and a stream fall behind. Five samples
fill a batch of two twice with a rest. `MaxHalves` = 5 gives a half frame, and
two whole ones. In `Sync` two facades are entered at a time (`MaxEntered`): they
interact only through the one shared portal, and each is used once.

**Deadlock** is checked for `Manager` and `Open`. The others really stop: a
recording, a plan, a context that was left or calls that have all been made
(`CHECK_DEADLOCK FALSE`); that nobody waits for ever is `Ends`, `StreamEnds`,
`CallsEnd`, `ExitEndsStreams`, `FlushedWhileFed` and `StopsEnd` instead. In `Sweep`
a missed lookup would stop a call without stopping the others, which is why it is
an invariant.

**Fairness.** The event loop resumes tasks that can run: weak fairness of the
producer, of a consumer that keeps iterating, of the forwarding task, and of
unwinding a context that was left. The caller, the analyser, the line and
cancellation owe nothing. Polls, transactions and opens end because each has a
timeout (`Recorder`, `Calibration`, `Manager`, `Sync`), also those whose thread was
interrupted; a recording ends with its duration. `anyio.Lock` hands over in
FIFO order: `Calibration` keeps its queue; `Manager` assumes strong fairness of
each group's acquisition instead, and weak fairness of the rest of a poll and of
the end of a direct call, whose bus has a timeout. `Sinks` assumes that the stream
gives its next batch or ends and that a write ends; what it says of an idle stream
is that nothing is flushed. Nothing is assumed of
`SyncStreamingSession.__next__`, which has no deadline.

## Proofs

The proof modules hold for every value of the constants that the modules'
assumptions allow: for example `RecorderAssumption` (positive period, slots and
capacity, a nonempty backoff schedule) or `ReadPlanAssumption` (a finite table whose
spans do not overlap, as `registry/channels.py:126-146` checks at import, a
positive width, policies that pass `__post_init__`). `FrameAssumption` asks the
same of the policies for the discretes, and that the analyser is in some state;
that the register tables meet `ReadPlanAssumption` for the discretes is a lemma
(`StatusTable`). TLC evaluates the assumptions on every run. Type invariants are
proved and not run again. Components that share a module for their proofs:
`PollStream` is in `RecorderProofs`, whose theorems it inherits, `Frames` in
`ContinuousProofs`, whose lines they are, `Open` in `SweepProofs`, whose client it
makes, and `Sync` in `SinksProofs`, whose sinks it wraps. `IInv` is the inductive invariant of the component the module
is named after (`SInv`, `LadderInv` and `SyncInv` those of `PollStream`, `Open` and
`Sync`), with one lemma for each action or group of actions.

* `RecorderProofs`. `IInv` joins the types (with the bound on the queue), the two
  balances, the schedule, the conservation under BLOCK, and `Joined`: a run whose
  summary is final has a body that was left and a producer that has ended. They
  are inductive together: the balance of the emitted batches needs that a `sent`
  batch is counted exactly once, which the exit could break without `Joined`, and
  the schedule needs the types to make the skipped slots natural numbers.
  `Division`, `Slots`, `MissedFacts` and `NextSlotFacts` carry the arithmetic of
  skipping; `Queues`, `Handover` and `Following` the sequences. From it:
  `TypeCorrect`, `CountersBalance`, `NoDrift`, `BlockKeepsAll`, the action property
  `SummaryFinal`, and, with `EInv` (a poll past the end is the last of `polled`),
  `PastTheEndOnce`.
* `RecorderImplementsBatchStream`, also there, is the refinement of `BatchStream`.
  Each step maps to a step or a stutter of it; the one fact that the recorder's
  own properties do not give is that a batch is published in a slot later than
  every one polled before (`Later`), since a reconnect, a skip and an exit all move
  the slot.
* `ReadPlanProofs`. That the blocks are disjoint does not follow from one
  iteration: the invariant adds that the spans to come lie beyond the current run
  (`Ahead`) and the finished blocks before it (`Behind`). From it: `TypeCorrect` and
  `PlanIsSound`, by way of `PlanCoversOnce`, `PlanSlicesInside` and
  `PlanObeysPolicy`. `NoPlanIsShorter` compares the loop with an arbitrary other way
  to cut the same channels: by the time the loop starts a block the other has
  started as many (`Reached`), because a block of the other that began no later
  would break the policy at the same span. The induction is over the loop's steps, so
  that it is one more invariant (`Greedy`).
* `FrameReadProofs`. The invariant of `ReadPlanProofs` holds for both plans, the
  second time through an instance of that module (`BothPlansAreBest`). On top of it,
  `Gathered` says that each word read so far is of its channel's own address, and
  that what is missing is in a block that is left; and that no word is later than
  any discrete, so that the flags of a reading are never older than its value.
  The arithmetic is in `RowOfChannel` and the lemmas after it: base, offset and
  length of every channel's registers and discretes. From it: `FrameTellsTruth`.
* `PollStream` in `RecorderProofs`. `StreamRecords` is a refinement: on the recorder's variables
  every behaviour of a session is one of `Recorder`, so that its theorems hold in a
  session (`StreamInherits`). `SessionToldTheTruth` needs how far the session, the
  forwarder and the recording can be apart (`Nested`) and that a recording without
  duration ends by failing only (`NoEnd`). `EverySamplePassedOn` keeps a balance
  between what the recorder delivered and what the reader has, the session's stream
  holds and the forwarder carries (`OnTheWay`), together with `BlockKeepsAll`.
* `CalibrationProofs`. Success means a transition only if the coil a pulse drives
  stays up until its off write (`EdgeHeld`) or was up from an abandoned one
  (`PulseWorth`); that no other pulse interferes is `OnePulseAtATime` with a queue
  in which nobody waits twice (`WaitsOnce`). From it: `TypeCorrect`,
  `PulsesKeptApart`, `RaisedOnlyByAbandoning`, and the action property `OkIsPulsed`.
* `ManagerProofs`. `RInv` is about the registry: who is inside the state lock is
  alone (`LockHeld`), what a call knew before an await still holds after it (`Shape`:
  the port that is being opened is not in the table, the one being closed no
  longer), references are counted (`Counted`), and devices and ports work on the
  transport the path has (`PortsWired`, `DevicesWired`). `PInv` is about the calls:
  locks and analysers exclude (`LocksApart`, `GroupsApart`, `UsersApart`), and the
  device a call holds, registered or not by now, was wired to its port
  (`CallsWired`). From them: `TypeCorrect`, `RefsAreDevices`, `OpenPortsMatch`,
  `LockGoesThisFar`. The action property `PollOutcomes` (`PollsTellAll`) needs a third,
  `WorkKept`: as long as nothing cut a poll short, every device it was asked for
  has a result or is still to come in some group.
* `SweepProofs`. An operation holds the lock from start to end (`OneAtATime`), but
  plan, policy and names outlive it. The invariant says that the cached plan is
  the plan of the policy it was made under (`GoodPlan`), which the policy in force
  may no longer be; that the blocks an operation has left are blocks of its slots
  under the policy in force (`Planning`), so that the retry after a strict
  relearning cannot go on with old blocks; that what it has read and what is left
  cover what it was asked for (`Covered`); and that what it has read is no older
  than the last identify (`Fresh`). From it: `SlotsAreRead`, `IllegalMeansMissing`,
  `NamesAreRefreshed`, and the action property `SnapshotsInOrder`.
* `ContinuousProofs`. A wait knows an event and a frame that are not from the
  future (`WaitsInTime`), and a stream that was not opened has nothing
  (`Untouched`); the frames of a stream are a run of numbers that the next one
  extends. From it: `TypeCorrect`, `WokenByNewFrame`, `NothingMissed`.
* `Frames` in `ContinuousProofs`. `OutcomesRight` holds for every base and width of
  the checksum, everything an analyser may say and each damage of `Noisy`, byte by
  byte. A line whose body has one byte more, less or other has another sum, and by
  less than the modulus, so another checksum (`BodyChanged`, `HeardBody`). Damage
  within the checksum leaves the fields before it as they were, so that what is
  read is right (`HeardField`, `ReadRight`), unless a semicolon comes to stand in it,
  and then it is no number (`SemiInChecksum`). A line cut at its head must
  begin with the space of a padded value, and has then an odd number of fields
  where the header, the blocks and the trailer make it even (`HeardCut`,
  `UnevenFields`); the last byte and the first have cases of their own (`HeardLast`,
  `HeardFirst`: a second space at the start goes unnoticed, and harms nothing).
  That what was sent is taken rests on `ValueOfChecksum` (the digits denote the
  number) and `FieldsOfLine` (splitting gives back what was joined). From it, by
  `NeverMisheard`, `HeardRightAlways`: no step of the receive loop takes a line
  for what was not said, or refuses one that came as it was sent.
* Sums, numerals and the count of the semicolons are recursive functions, and the
  library's induction theorems cannot be instantiated. Their inductions are done by
  hand: a set of counterexamples among the numbers has a least element
  (`WFMin` with `NatLessThanWellFounded`, in `Least`), and the equation of the
  function at that number contradicts it (`SumConcat`, `ValueOfChecksum`,
  `CountInOrder`).
* `Open` in `SweepProofs`. The halves of frames in the port are the last ones
  sent (`Wires`), those in the pushback buffer come right before them, and after one
  bad line the next begins with the first half of a frame (`Buffered`): that makes
  `OneBadLine` inductive over probe, detection and client. The port of the call that
  runs is nobody else's (`OwnPort`). `Progress` lines up what a sweep was asked, has
  found and has yet to ask. From it: `EveryPortAccounted`, `ResyncLosesOneLine`,
  `SweepTellsTruth`.
* `SinksProofs`. The buffer is the rest of what the stream gave (`Buffered`), what
  was emitted is at the end of the sink (`AtTheEnd`) and nothing in it is newer than
  that (`NothingNewer`): without the last, a failed flush that stored a prefix and a
  pipe that starts again could store out of order. From it and `Prepared`:
  `TypeCorrect`, `AssertionsHold`, `PipeKeepsAll`, `StoresOnce`.
* `Sync` in `SinksProofs`. A facade holds nothing open where its loop may be off (`Held`), and
  what runs on a loop, a call without its thread (`Lone`) included, keeps it on
  (`Busy`); a facade does not touch another's loop (`Others`). From it: `NoLoopLeaks`, `NothingOutlivesItsLoop`.

Only model-checked: every liveness property (`Ends`, `StreamEnds`, `CallsEnd`,
`PollsEnd`, `ExitEndsStreams`, `FlushedWhileFed`, `StopsEnd`), since the provers have
neither fairness nor `ENABLED`. Every safety property of the runs is also a theorem.

## Where the code disagrees with what is said of it

`calibration_trigger` shows one: a pulse that fails or is cancelled between its
on write and its off write leaves the coil at 1 (`_pulse_coil` has no
`try/finally`), and the next `start_calibration` writes 1 over 1, reads 1, writes 0
and succeeds without the 0→1 transition that triggers (`docs/design.md:239-240`).
On the instance of `calibration`, `RaisedCoilExplained` shows that this is the
only way a coil stays up.

The models follow the code in these as well; no run is spent on them:

* `streaming/recorder.py:317`: the last slot can be polled after the duration
  that line 158 promises to stop at. It is one poll (`OnePollPastTheEnd`).
* `manager.py:121-122` says the port lock serialises every transaction, but an
  analyser used directly (`get`, line 255) takes only its session lock, and a
  group keeps the lock of a port entry that was removed and made anew since
  (329). `SharedOnlyIfStale` says how far the lock does go.
* `manager.py:334`: a device removed during a poll is a `KeyError` that escapes
  the mapping of results of 322-323 (`PollOutcomes`).
* `manager.py:433`: a port opened for an `add` that then fails to build its
  analyser stays in the table with no reference; only a later `add` of the same
  path reuses it, and `close` does not close it (`OpenMatchesRegistry`).
* `devices/analyzer.py:85`: a failed identify in `__aenter__` leaves the receive
  loop running (`docs/design.md:311-312`; `Continuous!IdentifyFails`).
* `devices/factory.py:53`: `open_device` leaves the port open when detection
  raises (`Open!leaked`).
* `devices/discovery.py:130`: a broadcaster that falls silent during identify
  raises inside a task group; the `ExceptionGroup` passes `except ServomexError`
  and `find_devices` raises, against "a sweep never aborts on one dead port"
  (65). `SweepTells` says that nothing else aborts one.
* `protocol/modbus/client.py`: the slots of a full table are contiguous, so the
  strict retry of a full sweep repeats the very block that was rejected.
* `sinks/sqlite.py:175`: the schema is locked before `CREATE TABLE`; if that fails
  the next write meets the assertion at 179. `sinks/parquet.py:171`: a sink closed
  and opened again meets the assertion at 126. `AssertionsExplained` says when.
* `sinks/base.py:172`: `flush_interval` is looked at only when a batch comes
  (136-138 promise a flush after it). `FlushedWhileFed` says what is left of it.
* `transport/base.py:112-114`: `drain_input` empties the pushback buffer, not the
  operating system's; `read_available` (138-152) has a total deadline where an
  idle gap is described.
* `sync/analyzer.py:51-55` enters and leaves a POLL session's task group in two
  portal calls, which `sync/portal.py:68-71` says must be one.
* `sync/sinks.py:42`: an `open` that raises, or is interrupted, in `__enter__` leaves
  the private loop running, and so does an interrupt while a loop starts
  (`portal.py:40`, where anyio then joins a thread that nobody stops).
  `LoopsAccounted` names them (`failed`).
* `sync/analyzer.py:121-124`: an interrupt of the thread that waits in
  `managed.__enter__()` stops neither the entering nor the task that then waits for
  its exit; `active.__exit__(None, None, None)` waits for that task for ever, against
  "torn down with the analyzer" (101-102). The same wait comes of a shared portal that
  is left without an exception while an analyser is open on it (`portal.py:51`).
  `StopsEnd` names both (`NeverLeft`).
* `protocol/continuous/client.py:177-180`: `stream` takes subscribers during and after
  `aclose`, which nobody ends; and when the receive loop raises anything but a lost
  connection (83), `Session.aclose` raises at `devices/session.py:102` and does not
  come to the client, its subscribers and its port. A `__next__` on such a stream keeps
  a portal that is left without an exception from stopping. `StopsEnd` names both
  (`Endless`).

## Not modelled

* `SyncStreamingSession` over a POLL session: its task group is entered in one
  call of the portal and left in another, which anyio refuses (see above), so
  what it then does is up to a version of a library outside the repository.
* Values: float32 words, units, the character set of names, clock, autocal and
  alarm fields of a frame. They are pure functions without a state to get wrong,
  tested by example; a model of them would repeat their tables.
* `_canonical_port_key` (`manager.py:98-109`): a path of `Manager` is one already, so
  that two spellings get one key is not checked; it is a pure function of the platform.
* In `Continuous`, a receive loop that raises anything but a lost connection; `Sync` has
  what it does to the streams (`LoopCrashes`).
* `reopen` and `read_available` of the transports: nothing in the library calls
  them, and what they do depends on the serial driver.
* `servomex-capture`, `-decode` and `-read`, arguments and printing.
* Column types and row projection of the sinks; `max_drift_ms`, a maximum that is
  only reported.
* Exception classes and their contexts, records, logging, and `testing.py` but
  for the layout in which it loads an analyser.

## What is left

1. A POLL session of the sync facade, once its task group has one owner.
2. An analyser whose `__aenter__` fails as a property of `Continuous`, once the code
   leaves what it entered.

## Running

    tlc -workers 2 -config Recorder.cfg MCRecorder
    tlapm RecorderProofs.tla

and likewise for the other configurations of `PROJECT.json`.

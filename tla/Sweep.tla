-------------------------------- MODULE Sweep --------------------------------
(***************************************************************************)
(* protocol/modbus/client.py: the reads of ModbusClient.  read_frame,      *)
(* read_channel and identify read whole blocks of channel slots, planned   *)
(* by read_plan.py, and fall back once to blocks without gaps when the     *)
(* analyser rejects a block or does not answer; the plan of the sweep and  *)
(* the names of the channels are cached.  identify narrows the sweep to    *)
(* the named slots.  Every operation runs under the session lock.          *)
(*                                                                         *)
(* A slot stands for its registers in the FC04 space and its discretes in  *)
(* the FC02 space; the slots of both tables are contiguous, so one set of  *)
(* blocks stands for the plans of both.  The policies are the default one, *)
(* whose limits no table reaches, and its strict variant: ReadPlan has     *)
(* the algorithm for every policy.  What a slot holds is the version of    *)
(* the analyser's configuration its name was read in.                      *)
(***************************************************************************)
EXTENDS Integers, FiniteSets, FiniteSetsExt

CONSTANTS
  Callers,     \* tasks that use the analyser
  Slots,       \* positions of the channel slots in the register table
  Devices,     \* analysers: the slots they implement in each space, and name
  None,        \* absence
  MaxCalls,    \* bound: operations that get the lock
  MaxFailures, \* bound: transactions that fail on the bus
  MaxConfig    \* bound: changes of the analyser's configuration

ASSUME SweepAssumption ==
  /\ Slots # {} /\ Slots \subseteq Nat /\ IsFiniteSet(Slots)
  /\ Devices \subseteq
       [inputs : SUBSET Slots, discretes : SUBSET Slots, named : SUBSET Slots]
  /\ \A d \in Devices : d.named \subseteq d.inputs
  /\ None \notin Callers
  /\ MaxCalls \in Nat /\ MaxFailures \in Nat /\ MaxConfig \in Nat

VARIABLES
  device,     \* the analyser
  config,     \* the version of its configuration
  channels,   \* _channels
  policy,     \* _read_policy: may it read across gaps, may it fall back
  metadata,   \* _metadata: the names known, by slot
  plan,       \* _planned_channels, _planned_policy and the plan itself
  lock,       \* the caller inside the session lock
  call,       \* where each operation stands
  rejected,   \* slots of the operation that ended last, if an illegal address ended it
  last_frame, \* Session._last_frame
  now,        \* operations that got the lock so far: their time stamps
  failures,   \* failed transactions
  identified  \* configuration at the start of the last identify that ended well

vars == <<device, config, channels, policy, metadata, plan, lock, call, rejected,
          last_frame, now, failures, identified>>
outside == <<device, config>>
bounds == <<failures, identified>>

Idle == [pc |-> "idle", op |-> None, slots |-> {}, at |-> 0, since |-> 0,
         todo |-> {}, words |-> <<>>, states |-> {}, names |-> <<>>, retried |-> FALSE]

Init ==
  /\ device \in Devices /\ config = 0
  /\ channels \in (SUBSET Slots) \ {{}}
  /\ policy \in [gaps : BOOLEAN, fallback : BOOLEAN]
  /\ metadata = <<>>
  /\ plan = None
  /\ lock = None
  /\ call = [c \in Callers |-> Idle]
  /\ rejected = None
  /\ last_frame = None
  /\ now = 0 /\ failures = 0 /\ identified = 0

-----------------------------------------------------------------------------
\* Plans

Span(lo, hi, S) == [span |-> (lo..hi) \cap Slots, slices |-> (lo..hi) \cap S]

\* A block is the slots it reads and the slots it is read for.
Blocks(S, gaps) ==
  IF gaps THEN {Span(Min(S), Max(S), S)}
  ELSE {Span(r[1], r[2], S) : r \in
          {r \in S \X S : /\ r[1] <= r[2]
                          /\ r[1]..r[2] \subseteq S
                          /\ r[1] - 1 \notin S /\ r[2] + 1 \notin S}}

\* _ensure_sweep_plan, from a cached plan p under the policy po.
Ensured(p, po) ==
  IF p # None /\ p.channels = channels /\ p.policy = po THEN p
  ELSE [channels |-> channels, policy |-> po, blocks |-> Blocks(channels, po.gaps)]

\* Mutant of PlanFor: the cached plan, whatever it was made for.
PlanForSweep(S, p, po) == Ensured(p, po).blocks

PlanFor(S, p, po) ==
  IF S = channels THEN Ensured(p, po).blocks ELSE Blocks(S, po.gaps)
Cached(S, p, po) == IF S = channels THEN Ensured(p, po) ELSE p

-----------------------------------------------------------------------------
\* Operations

Planned == {"frame", "channel", "identify"} \* those under _with_plan_fallback

\* self._channels is looked at whenever a sweep needs it.
Wanted(r) ==
  CASE r.op = "frame" -> channels
    [] r.op = "identify" -> Slots
    [] OTHER -> r.slots

FirstPhase(op) ==
  CASE op \in Planned -> "input" [] op = "status" -> "status" [] OTHER -> "analyser"

\* An attempt of the operation r, from the cached plan p under the policy po.
Begin(c, r, p, po) ==
  LET S == Wanted(r)
      reads == r.op # "analyser"
  IN  /\ plan' = IF reads THEN Cached(S, p, po) ELSE p
      /\ call' = [call EXCEPT ![c] =
           [r EXCEPT !.pc = FirstPhase(r.op), !.slots = S,
                     !.todo = IF reads THEN PlanFor(S, p, po) ELSE {},
                     !.words = <<>>, !.states = {}]]

Stamped(op, S) ==
  [Idle EXCEPT !.op = op, !.slots = S, !.at = now + 1, !.since = config]

\* _execute, from the lock on: nothing is read before.  analyser_status,
\* calibration_status and loopback are one transaction each: "analyser".
Start(c, op, S) ==
  /\ call[c].pc = "idle"
  /\ now < MaxCalls
  /\ lock = None
  /\ lock' = c
  /\ now' = now + 1
  /\ Begin(c, Stamped(op, S), plan, policy)
  /\ UNCHANGED <<outside, channels, policy, metadata, rejected, last_frame, bounds>>

Block(c) == CHOOSE b \in call[c].todo : \A d \in call[c].todo : Min(b.span) <= Min(d.span)
Rest(c) == call[c].todo \ {Block(c)}
Reading(c, phase) == call[c].pc = phase

\* The analyser answers only blocks whose every slot it implements.
Readable(c) ==
  CASE Reading(c, "input") -> Block(c).span \subseteq device.inputs
    [] Reading(c, "status") -> Block(c).span \subseteq device.discretes
    [] OTHER -> TRUE

End(c, why) ==
  /\ lock' = None
  /\ call' = [call EXCEPT ![c] = Idle]
  /\ rejected' = IF why = "illegal" THEN call[c].slots ELSE None

\* A dict update: the entries of f, and those of g for other keys.
Over(f, g) == [s \in DOMAIN f \cup DOMAIN g |-> IF s \in DOMAIN f THEN f[s] ELSE g[s]]

\* The words of this block, by slot.  A slot that is looked up and was in no
\* block is a KeyError: no step is then enabled for the operation.
Slice(c) == [s \in Block(c).slices |->
              [config |-> config, named |-> s \in device.named]]
WithWords(c) == [call[c] EXCEPT !.words = Over(Slice(c), @), !.todo = Rest(c)]
Complete(r) == Wanted(r) \subseteq DOMAIN r.words

\* Another block to read.
ReadInput(c) ==
  /\ Reading(c, "input") /\ Readable(c) /\ Rest(c) # {}
  /\ call' = [call EXCEPT ![c] = WithWords(c)]
  /\ UNCHANGED <<outside, channels, policy, metadata, plan, lock, rejected, last_frame, now, bounds>>

\* The last block: on to the status map, planned only now.
ReadInputs(c) ==
  /\ Reading(c, "input") /\ Readable(c) /\ Rest(c) = {}
  /\ call[c].op # "identify"
  /\ LET r == WithWords(c)
         S == Wanted(r)
     IN  /\ plan' = Cached(S, plan, policy)
         /\ call' = [call EXCEPT ![c] = [r EXCEPT !.pc = "status",
                                                  !.todo = PlanFor(S, plan, policy)]]
  /\ UNCHANGED <<outside, channels, policy, metadata, lock, rejected, last_frame, now, bounds>>

\* set_channels: the sweep is narrowed to the slots with a name, if any.
SetChannels(populated) ==
  IF populated = {} THEN UNCHANGED <<channels, plan>>
  ELSE channels' = populated /\ plan' = None

\* Mutant of Refreshed: only missing names are filled in.
RefreshedMissing(r) == Over(metadata, [s \in Slots |-> r.words[s].config])

\* identify takes every name anew.
Refreshed(r) == [s \in Slots |-> r.words[s].config]

Identified(c) ==
  /\ Reading(c, "input") /\ Readable(c) /\ Rest(c) = {}
  /\ call[c].op = "identify"
  /\ LET r == WithWords(c)
     IN  /\ Complete(r)
         /\ metadata' = Refreshed(r)
         /\ SetChannels({s \in Slots : r.words[s].named})
         /\ identified' = r.since
         /\ End(c, "ok")
  /\ UNCHANGED <<outside, policy, last_frame, now, failures>>

WithStates(c) ==
  [call[c] EXCEPT !.states = @ \cup Block(c).slices, !.todo = Rest(c)]

ReadStatus(c) ==
  /\ Reading(c, "status") /\ Readable(c) /\ Rest(c) # {}
  /\ call' = [call EXCEPT ![c] = WithStates(c)]
  /\ UNCHANGED <<outside, channels, policy, metadata, plan, lock, rejected, last_frame, now, bounds>>

\* status(channel) ends here.
ReadState(c) ==
  /\ Reading(c, "status") /\ Readable(c) /\ Rest(c) = {}
  /\ call[c].op = "status"
  /\ Wanted(call[c]) \subseteq WithStates(c).states
  /\ End(c, "ok")
  /\ UNCHANGED <<outside, channels, policy, metadata, plan, last_frame, now, bounds>>

\* _build_reading, for the channels of the operation: names not known yet are
\* taken from the words just read.
Named(r) == Over(metadata, [s \in Wanted(r) |-> r.words[s].config])

\* Mutant of BuildReadings: the lock is released before the last transaction.
BuildReadingsReleases(c) ==
  /\ Reading(c, "status") /\ Readable(c) /\ Rest(c) = {}
  /\ call[c].op \in {"frame", "channel"}
  /\ LET r == WithStates(c)
     IN  /\ Complete(r) /\ Wanted(r) \subseteq r.states
         /\ metadata' = Named(r)
         /\ IF r.op = "channel"
            THEN End(c, "ok")
            ELSE /\ call' = [call EXCEPT ![c] =
                       [r EXCEPT !.pc = "analyser",
                                 !.names = [s \in Wanted(r) |-> Named(r)[s]]]]
                 /\ lock' = None
                 /\ UNCHANGED rejected
  /\ UNCHANGED <<outside, channels, policy, plan, last_frame, now, bounds>>

BuildReadings(c) ==
  /\ Reading(c, "status") /\ Readable(c) /\ Rest(c) = {}
  /\ call[c].op \in {"frame", "channel"}
  /\ LET r == WithStates(c)
     IN  /\ Complete(r) /\ Wanted(r) \subseteq r.states
         /\ metadata' = Named(r)
         /\ IF r.op = "channel"
            THEN End(c, "ok")
            ELSE /\ call' = [call EXCEPT ![c] =
                       [r EXCEPT !.pc = "analyser",
                                 !.names = [s \in Wanted(r) |-> Named(r)[s]]]]
                 /\ UNCHANGED <<lock, rejected>>
  /\ UNCHANGED <<outside, channels, policy, plan, last_frame, now, bounds>>

\* The last transaction of a sweep, or the only one of the analyser-level
\* reads.  Session.read_frame keeps the frame in the same step.
ReadAnalyser(c) ==
  /\ Reading(c, "analyser")
  /\ End(c, "ok")
  /\ last_frame' = IF call[c].op = "frame"
                   THEN [at |-> call[c].at, names |-> call[c].names]
                   ELSE last_frame
  /\ UNCHANGED <<outside, channels, policy, metadata, plan, now, bounds>>

-----------------------------------------------------------------------------
\* Failures

InTransaction(c) == call[c].pc \in {"input", "status", "analyser"}

ShouldFallback(c) ==
  /\ call[c].op \in Planned /\ ~call[c].retried
  /\ policy.fallback /\ policy.gaps

\* Mutant of Strict: the policy is kept, only the plan is made again.
StrictForgotten == policy

Strict == [policy EXCEPT !.gaps = FALSE]

\* IllegalDataAddressError or FrameTimeoutError: once more, strictly.
Rejected(c, out) ==
  \/ /\ ShouldFallback(c)
     /\ policy' = Strict
     /\ Begin(c, [call[c] EXCEPT !.retried = TRUE], None, Strict)
     /\ UNCHANGED <<lock, rejected>>
  \/ /\ ~ShouldFallback(c)
     /\ End(c, out)
     /\ UNCHANGED <<policy, plan>>

Illegal(c) ==
  /\ InTransaction(c) /\ ~Readable(c)
  /\ Rejected(c, "illegal")
  /\ UNCHANGED <<outside, channels, metadata, last_frame, now, bounds>>

Fails == failures < MaxFailures /\ failures' = failures + 1

\* No answer after the retries of the bus.
TimesOut(c) ==
  /\ InTransaction(c) /\ Fails
  /\ Rejected(c, "timeout")
  /\ UNCHANGED <<outside, channels, metadata, last_frame, now, identified>>

\* Any other error of the bus, and cancellation.
Breaks(c) ==
  /\ InTransaction(c) /\ Fails
  /\ End(c, "error")
  /\ UNCHANGED <<outside, channels, policy, metadata, plan, last_frame, now, identified>>

\* At the front panel names are changed, slots are given a name or lose it.
Configure ==
  /\ config < MaxConfig
  /\ config' = config + 1
  /\ \E S \in SUBSET device.inputs :
       device' = [device EXCEPT !.named = S]
  /\ UNCHANGED <<channels, policy, metadata, plan, lock, call, rejected, last_frame, now, bounds>>

-----------------------------------------------------------------------------

Starts(c) ==
  \/ \E op \in {"frame", "identify", "analyser"} : Start(c, op, {})
  \/ \E op \in {"channel", "status"}, s \in Slots : Start(c, op, {s})

Step(c) ==
  \/ ReadInput(c)
  \/ ReadInputs(c)
  \/ Identified(c)
  \/ ReadStatus(c)
  \/ ReadState(c)
  \/ BuildReadings(c)
  \/ ReadAnalyser(c)
  \/ Illegal(c)
  \/ TimesOut(c)
  \/ Breaks(c)

Next ==
  \/ \E c \in Callers : Starts(c) \/ Step(c)
  \/ Configure

Spec == Init /\ [][Next]_vars

-----------------------------------------------------------------------------
\* Properties

\* What an operation has read and is still going to read covers every slot it
\* will look up, although plans are cached, channels are narrowed and policies
\* change between its awaits: no KeyError (client.py:243-252).
StillToRead(c) == UNION {b.slices : b \in call[c].todo}
EverySlotRead ==
  \A c \in Callers :
    /\ Reading(c, "input") =>
         Wanted(call[c]) \subseteq DOMAIN call[c].words \cup StillToRead(c)
    /\ Reading(c, "status") =>
         /\ Wanted(call[c]) \subseteq call[c].states \cup StillToRead(c)
         /\ call[c].op # "status" => Complete(call[c])

\* "If a device rejects a broad span, the client caches a strict gap-free policy
\* and retries so later polls stay compatible" (docs/design.md:257-258): with
\* fallback on, an address is illegal only when the analyser lacks a slot the
\* operation was for, whatever other slots it lacks.
IllegalOnlyIfMissing ==
  (rejected # None /\ policy.fallback) =>
    ~(rejected \subseteq device.inputs \cap device.discretes)

\* "name/unit metadata is cached internally and refreshed by identify()"
\* (docs/design.md:256): no cached name is older than the last identify.
NamesSinceIdentify == \A s \in DOMAIN metadata : metadata[s] >= identified

\* snapshot() never goes back to a frame that was swept before the one it
\* returned already, however the reads of several tasks interleave.
LaterFrame == last_frame = None \/ last_frame.at < last_frame'.at
SnapshotInOrder == [][last_frame' # last_frame => LaterFrame]_vars
=============================================================================

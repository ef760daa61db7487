------------------------------ MODULE FrameRead ------------------------------
(***************************************************************************)
(* One sweep of protocol/modbus/client.py (_sweep_once) from the plans to  *)
(* the frame: the plans of both tables, one transaction per block, one for *)
(* the analyser, and the decoding of what was read.  It composes two read  *)
(* plans with the tables of Registers; the failures of a transaction, the  *)
(* fallback and the cached names are in Sweep.                             *)
(*                                                                         *)
(* The analyser goes on measuring between two transactions.  What it       *)
(* answers is the place and the time of every word and bit, as             *)
(* load_4100_banks and load_cal_state of testing.py lay them out.          *)
(***************************************************************************)
EXTENDS ReadPlan, Registers

CONSTANTS
  StatusPolicies, \* the policies for the table of discretes
  CalStates,      \* the states of the calibration groups, one after the other
  Flags,          \* the analyser's own fault and maintenance, at the same times
  None            \* absence

Channels == {c \in ChannelId : ValuePdu(c) \in Spans}
ChannelAt(s) == CHOOSE c \in Channels : ValuePdu(c) = s
StatusSpan(s) == StatusPdu(ChannelAt(s))

BlockReads == [base : Nat, end : Nat, spans : SUBSET Nat]

ASSUME FrameAssumption ==
  /\ Spans \subseteq {ValuePdu(c) : c \in ChannelId}
  /\ Width = INPUT_CHANNEL_REGISTERS
  /\ StatusPolicies \subseteq ReadCoalescingPolicy
  /\ None \notin [input : SUBSET BlockReads, discrete : SUBSET BlockReads]
  /\ CalStates \in Seq([1..CAL_GROUPS -> [calibrating : BOOLEAN, gas2 : BOOLEAN]]) \ {<<>>}
  /\ Flags \in [1..Len(CalStates) -> [fault : BOOLEAN, maintenance : BOOLEAN]]

VARIABLES
  spolicy, schannels, sordered, sruns, srun, sdone, \* the plan of the discretes
  time,     \* how often the analyser has updated what it measures
  pending,  \* blocks left to read, of both tables
  words,    \* input_words: what was read for each channel
  statuses, \* its decoded discretes
  analyser, \* the analyser's own status, None before it was read
  progress  \* the answer of calibration_status, and when it was read

Status == INSTANCE ReadPlan WITH
  Spans <- {StatusSpan(s) : s \in Spans}, Width <- DISCRETE_BITS,
  Policies <- StatusPolicies, policy <- spolicy, channels <- schannels,
  ordered <- sordered, runs <- sruns, run <- srun, done <- sdone

splan == <<spolicy, schannels, sordered, sruns, srun, sdone>>
read == <<pending, words, statuses, analyser, progress>>
fvars == <<vars, splan, time, read>>

\* What FC04 and FC02 answer: the word or the bit of each address and its time.
Response(base, count) == [i \in 1..count |-> <<base + i - 1, time>>]

\* The analyser's flags are the first bits of its block, two bits for each group
\* the last.
CalGroupBits ==
  [i \in 1..(2 * CAL_GROUPS) |->
     LET g == CalStates[time][(i + 1) \div 2] IN IF i % 2 = 1 THEN g.calibrating ELSE g.gas2]
AnalyserBit(pdu) ==
  CASE pdu = AnalyserPdu -> Flags[time].fault
    [] pdu = AnalyserPdu + 1 -> Flags[time].maintenance
    [] pdu >= CalGroupPdu -> CalGroupBits[pdu - CalGroupPdu + 1]
    [] OTHER -> FALSE
AnalyserBits(base, count) == [i \in 1..count |-> AnalyserBit(base + i - 1)]

FrameInit ==
  /\ Init
  /\ schannels = {StatusSpan(s) : s \in channels}
  /\ Status!Init
  /\ time = 1
  /\ pending = None
  /\ words = <<>> /\ statuses = <<>>
  /\ analyser = None /\ progress = None

PlanInput ==
  /\ Next
  /\ UNCHANGED <<splan, time, read>>

PlanStatus ==
  /\ done
  /\ Status!Next
  /\ UNCHANGED <<vars, time, read>>

Planned ==
  /\ done /\ sdone /\ pending = None
  /\ pending' = [input |-> runs, discrete |-> sruns]
  /\ UNCHANGED <<vars, splan, time, words, statuses, analyser, progress>>

Lowest(B, b) == b \in B /\ \A c \in B : b.base <= c.base

\* Mutant of Slice: offsets count the channels of the block, as if there were no gap.
SliceDense(response, b, s, width) ==
  LET first == width * Cardinality({u \in b.spans : u < s})
  IN  SubSeq(response, first + 1, first + width)

Slice(response, b, s, width) ==
  SubSeq(response, Offset(b, s) + 1, Offset(b, s) + width)

\* _read_input_channel_words: the blocks in the order of their addresses.
ReadInputBlock(b) ==
  /\ pending # None
  /\ Lowest(pending.input, b)
  /\ LET answer == Response(b.base, b.end - b.base)
     IN  words' = [c \in DOMAIN words \cup {ChannelAt(s) : s \in b.spans} |->
           IF c \in DOMAIN words THEN words[c] ELSE Slice(answer, b, ValuePdu(c), Width)]
  /\ pending' = [pending EXCEPT !.input = @ \ {b}]
  /\ UNCHANGED <<vars, splan, time, statuses, analyser, progress>>

\* _read_status_map, once all words are there.
ReadStatusBlock(b) ==
  /\ pending # None /\ pending.input = {}
  /\ Lowest(pending.discrete, b)
  /\ LET answer == Response(b.base, b.end - b.base)
         Decoded(c) ==
           DiscreteStatus(Slice(answer, b, StatusPdu(c), DISCRETE_BITS), KindFor(c))
     IN  statuses' = [c \in DOMAIN statuses \cup {d \in Channels : StatusPdu(d) \in b.spans} |->
           IF c \in DOMAIN statuses THEN statuses[c] ELSE Decoded(c)]
  /\ pending' = [pending EXCEPT !.discrete = @ \ {b}]
  /\ UNCHANGED <<vars, splan, time, words, analyser, progress>>

\* _read_analyser, the last transaction of the sweep.
ReadAnalyser ==
  /\ pending = [input |-> {}, discrete |-> {}]
  /\ analyser = None
  /\ analyser' = [status |-> AnalyserStatus(AnalyserBits(AnalyserPdu, ANALYSER_BLOCK)),
                  time |-> time]
  /\ UNCHANGED <<vars, splan, time, pending, words, statuses, progress>>

\* calibration_status of a group, once the sweep has released the lock.
ReadCalProgress(group) ==
  /\ analyser # None /\ progress = None
  /\ progress' = [group |-> group, time |-> time,
                  is |-> CalProgress(group, AnalyserBits(CalGroupPdu, 2 * CAL_GROUPS))]
  /\ UNCHANGED <<vars, splan, time, pending, words, statuses, analyser>>

\* The analyser measures.  It changes nothing before the first transaction.
Measure ==
  /\ pending # None /\ progress = None
  /\ time < Len(CalStates)
  /\ time' = time + 1
  /\ UNCHANGED <<vars, splan, read>>

FrameNext ==
  \/ PlanInput \/ PlanStatus \/ Planned \/ ReadAnalyser \/ Measure
  \/ \E b \in runs : ReadInputBlock(b)
  \/ \E b \in sruns : ReadStatusBlock(b)
  \/ \E g \in 1..CAL_GROUPS : ReadCalProgress(g)

FrameSpec == FrameInit /\ [][FrameNext]_fvars

\* _build_reading for a channel whose name is not known yet.
BuildReading(c) ==
  LET names == VALUE_REGISTERS + NAME_REGISTERS
  IN  [channel |-> c,
       value |-> SubSeq(words[c], 1, VALUE_REGISTERS),
       name |-> SubSeq(words[c], VALUE_REGISTERS + 1, names),
       unit |-> SubSeq(words[c], names + 1, names + UNIT_REGISTERS),
       status |-> statuses[c]]

Readings == {BuildReading(c) : c \in {ChannelAt(s) : s \in channels}}

-----------------------------------------------------------------------------
\* Properties

Registered(pdu, count, t) == [i \in 1..count |-> <<pdu + i - 1, t>>]
Discrete(c, i, t) == <<StatusPdu(c) + i, t>>

\* A reading is made of its own channel's registers and bits, each in its
\* field: value, name and unit as they were in one moment, the flags as they
\* were in one moment that is not earlier, before the analyser was asked; an
\* external input has no maintenance, calibration or warm-up flag.  Whatever
\* the policies merge, cut and skip, no neighbour's word gets in
\* (modbus/client.py:351, registry/status.py:57).
OwnWords ==
  analyser # None =>
    \A r \in Readings : \E t, u \in 1..analyser.time :
      /\ t <= u
      /\ r.value = Registered(ValuePdu(r.channel), 2, t)
      /\ r.name = Registered(NamePdu(r.channel), 3, t)
      /\ r.unit = Registered(UnitPdu(r.channel), 2, t)
      /\ r.status.fault = Discrete(r.channel, 0, u)
      /\ \A a \in 1..4 : r.status.alarms[a] = Discrete(r.channel, 3 + a, u)
      /\ <<r.status.maintenance, r.status.calibrating, r.status.warming_up>> =
           IF r.channel[1] = "E" THEN <<Clear, Clear, Clear>>
           ELSE [i \in 1..3 |-> Discrete(r.channel, i, u)]

\* The frame and calibration_status() decode the same discretes by code of their
\* own, from blocks that start eight bits apart: both tell what each group was
\* doing when they asked, so they agree while the analyser does not move on
\* (modbus/client.py:289, 300).  So does the frame of the analyser's own flags.
SameProgress ==
  /\ analyser # None =>
       LET true == Flags[analyser.time]
       IN  /\ analyser.status.fault = true.fault
           /\ analyser.status.maintenance = true.maintenance
  /\ analyser # None => \A g \in 1..CAL_GROUPS :
       LET told == analyser.status.cal_groups[g]  true == CalStates[analyser.time][g]
       IN  told = [calibrating |-> true.calibrating, cal_gas |-> IF true.gas2 THEN 2 ELSE 1]
  /\ progress # None =>
       LET true == CalStates[progress.time][progress.group]
       IN  /\ progress.is.active = true.calibrating
           /\ progress.is.phase = "IDLE" <=> ~true.calibrating
           /\ progress.is.phase = "CAL_GAS_2" <=> true.calibrating /\ true.gas2

\* A frame says of every channel, and of the analyser itself, what its own
\* registers and bits said (modbus/client.py:262-300).
FrameTrue == OwnWords /\ SameProgress
=============================================================================

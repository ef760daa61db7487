--------------------------- MODULE FrameReadProofs ---------------------------
(***************************************************************************)
(* Theorems of FrameRead, for every choice of the 4100's channels, every   *)
(* pair of policies and whatever the analyser measures meanwhile.          *)
(*                                                                         *)
(* They rest on the invariant of the two plans (ReadPlanProofs, once for   *)
(* each table), on the arithmetic of the register tables, and on what a    *)
(* sweep has gathered so far (Gathered).                                   *)
(***************************************************************************)
EXTENDS FrameRead, ReadPlanProofs

StatusPlan == INSTANCE ReadPlanProofs WITH
  Spans <- {StatusSpan(s) : s \in Spans}, Width <- DISCRETE_BITS,
  Policies <- StatusPolicies, policy <- spolicy, channels <- schannels,
  ordered <- sordered, runs <- sruns, run <- srun, done <- sdone

-----------------------------------------------------------------------------
\* The register tables

\* Channel number n of the ten has seven registers from 7n and eight discretes
\* from 8n (registry/channels.py:126-146).
LEMMA RowOfChannel ==
  ASSUME NEW c \in ChannelId
  PROVE  \E n \in 0..9 :
           /\ ValuePdu(c) = 7 * n /\ StatusPdu(c) = 8 * n
           /\ NamePdu(c) = 7 * n + 2 /\ UnitPdu(c) = 7 * n + 5
           /\ \/ c = <<"I", n + 1>> /\ n < 4
              \/ c = <<"D", n - 3>> /\ 4 <= n /\ n < 8
              \/ c = <<"E", n - 7>> /\ 8 <= n
<1> DEFINE I == [prefix |-> "I", count |-> 4, register_base |-> 30001, discrete_base |-> 10001]
           D == [prefix |-> "D", count |-> 4, register_base |-> 30029, discrete_base |-> 10033]
           E == [prefix |-> "E", count |-> 2, register_base |-> 30057, discrete_base |-> 10065]
<1>1. BLOCKS = {I, D, E}
  BY DEF BLOCKS
<1>0. PICK b \in BLOCKS : c \in {<<b.prefix, i>> : i \in 1..b.count}
  BY DEF ChannelId
<1>2. PICK i \in 1..b.count : c = <<b.prefix, i>>
  BY <1>0
<1>3. \A d \in BLOCKS : d.prefix = b.prefix => d = b
  BY <1>1
<1>4. c[1] = b.prefix /\ c[2] = i
  BY <1>2
<1>5. (CHOOSE d \in BLOCKS : d.prefix = c[1]) = b
  BY <1>3, <1>4
<1>6. b.count \in Nat /\ b.register_base \in Nat /\ b.discrete_base \in Nat /\ i \in Nat
  BY <1>1
<1>7. /\ ChannelSpec(c).value_register = b.register_base + 7 * (i - 1)
      /\ ChannelSpec(c).name_register = b.register_base + 7 * (i - 1) + 2
      /\ ChannelSpec(c).unit_register = b.register_base + 7 * (i - 1) + 2 + 3
      /\ ChannelSpec(c).status_discrete = b.discrete_base + 8 * (i - 1)
  <2>1. PICK row : row = CHOOSE d \in BLOCKS : d.prefix = c[1]
    OBVIOUS
  <2>2. row = b
    BY <1>5, <2>1
  <2>3. ChannelSpec(c) =
          [value_register |-> row.register_base + INPUT_CHANNEL_REGISTERS * (c[2] - 1),
           name_register |->
             row.register_base + INPUT_CHANNEL_REGISTERS * (c[2] - 1) + VALUE_REGISTERS,
           unit_register |->
             row.register_base + INPUT_CHANNEL_REGISTERS * (c[2] - 1) + VALUE_REGISTERS
               + NAME_REGISTERS,
           status_discrete |-> row.discrete_base + DISCRETE_BITS * (c[2] - 1)]
    BY <2>1, Zenon DEF ChannelSpec
  <2>4. /\ INPUT_CHANNEL_REGISTERS = 7 /\ VALUE_REGISTERS = 2 /\ NAME_REGISTERS = 3
        /\ DISCRETE_BITS = 8
    BY DEF INPUT_CHANNEL_REGISTERS, VALUE_REGISTERS, NAME_REGISTERS, UNIT_REGISTERS,
           DISCRETE_BITS
  <2> QED
    BY <1>4, <2>2, <2>3, <2>4
<1>8. /\ ValuePdu(c) = b.register_base + 7 * (i - 1) - 30001
      /\ NamePdu(c) = b.register_base + 7 * (i - 1) + 2 - 30001
      /\ UnitPdu(c) = b.register_base + 7 * (i - 1) + 2 + 3 - 30001
      /\ StatusPdu(c) = b.discrete_base + 8 * (i - 1) - 10001
  BY <1>6, <1>7 DEF ValuePdu, NamePdu, UnitPdu, StatusPdu, InputPdu, DiscretePdu
<1> HIDE DEF I, D, E
<1>9. CASE b = I
  <2>1. b.prefix = "I" /\ b.count = 4 /\ b.register_base = 30001 /\ b.discrete_base = 10001
    BY <1>9 DEF I
  <2>2. i - 1 \in 0..9 /\ i - 1 < 4 /\ c = <<"I", (i - 1) + 1>>
    BY <1>2, <2>1
  <2> QED
    BY <1>6, <1>8, <2>1, <2>2
<1>10. CASE b = D
  <2>1. b.prefix = "D" /\ b.count = 4 /\ b.register_base = 30029 /\ b.discrete_base = 10033
    BY <1>10 DEF D
  <2>2. i + 3 \in 0..9 /\ 4 <= i + 3 /\ i + 3 < 8 /\ c = <<"D", (i + 3) - 3>>
    BY <1>2, <2>1
  <2> QED
    BY <1>6, <1>8, <2>1, <2>2
<1>11. CASE b = E
  <2>1. b.prefix = "E" /\ b.count = 2 /\ b.register_base = 30057 /\ b.discrete_base = 10065
    BY <1>11 DEF E
  <2>2. i + 7 \in 0..9 /\ 8 <= i + 7 /\ c = <<"E", (i + 7) - 7>>
    BY <1>2, <2>1
  <2> QED
    BY <1>6, <1>8, <2>1, <2>2
<1> QED
  BY <1>1, <1>9, <1>10, <1>11

\* Two channels share no register and no discrete.
LEMMA RowsApart ==
  /\ \A c \in ChannelId : ValuePdu(c) \in 0..63 /\ StatusPdu(c) \in 0..72
  /\ \A c, d \in ChannelId : ValuePdu(c) = ValuePdu(d) <=> c = d
  /\ \A c, d \in ChannelId : StatusPdu(c) = StatusPdu(d) <=> c = d
  /\ \A c, d \in ChannelId : StatusPdu(c) < StatusPdu(d) => StatusPdu(c) + 8 <= StatusPdu(d)
BY RowOfChannel

LEMMA ChannelOfSpan ==
  /\ Channels \subseteq ChannelId
  /\ \A s \in Spans : ChannelAt(s) \in Channels /\ ValuePdu(ChannelAt(s)) = s
  /\ \A c \in Channels : ValuePdu(c) \in Spans /\ ChannelAt(ValuePdu(c)) = c
<1>1. Channels \subseteq ChannelId /\ \A c \in Channels : ValuePdu(c) \in Spans
  BY DEF Channels
<1>2. \A s \in Spans : \E c \in Channels : ValuePdu(c) = s
  BY FrameAssumption DEF Channels
<1>3. \A s \in Spans : ChannelAt(s) \in Channels /\ ValuePdu(ChannelAt(s)) = s
  BY <1>2 DEF ChannelAt
<1> QED
  BY <1>1, <1>3, RowsApart

\* The table of discretes is one a plan can be made of.
LEMMA StatusTable ==
  /\ {StatusSpan(s) : s \in Spans} \subseteq Nat
  /\ StatusPlan!IsFiniteSet({StatusSpan(s) : s \in Spans})
  /\ DISCRETE_BITS \in Nat \ {0}
  /\ StatusPlan!NoOverlap
  /\ StatusPolicies \subseteq StatusPlan!ReadCoalescingPolicy
<1>1. {StatusSpan(s) : s \in Spans} \subseteq 0..72
  BY ChannelOfSpan, RowsApart DEF StatusSpan
<1>2. IsFiniteSet({StatusSpan(s) : s \in Spans})
  <2>1. PICK T : T = {StatusSpan(s) : s \in Spans}
    OBVIOUS
  <2>2. T \in SUBSET (0..72) /\ 0 \in Int /\ 72 \in Int
    BY <1>1, <2>1
  <2>3. IsFiniteSet(0..72)
    BY <2>2, FS_Interval, Zenon
  <2>4. IsFiniteSet(T)
    BY <2>2, <2>3, FS_Subset, Zenon
  <2> QED
    BY <2>1, <2>4, Zenon
<1>3. StatusPlan!IsFiniteSet({StatusSpan(s) : s \in Spans})
  BY <1>2 DEF StatusPlan!IsFiniteSet, IsFiniteSet
<1>4. StatusPlan!NoOverlap
  BY ChannelOfSpan, RowsApart DEF StatusPlan!NoOverlap, StatusSpan, DISCRETE_BITS
<1>5. StatusPolicies \subseteq StatusPlan!ReadCoalescingPolicy
  BY FrameAssumption DEF StatusPlan!ReadCoalescingPolicy, ReadCoalescingPolicy
<1> QED
  BY <1>1, <1>3, <1>4, <1>5 DEF DISCRETE_BITS

-----------------------------------------------------------------------------
\* The two plans

\* The plan of the discretes is one of ReadPlanProofs.
LEMMA StatusPlanIs ==
  /\ Status!Init => StatusPlan!Init
  /\ Status!Next => StatusPlan!Next
BY DEF Status!Init, StatusPlan!Init, Status!Next, StatusPlan!Next, Status!Extend,
       StatusPlan!Extend, Status!Cut, StatusPlan!Cut, Status!Finish, StatusPlan!Finish,
       Status!First, StatusPlan!First, Status!Joins, StatusPlan!Joins, Status!SpanRun,
       StatusPlan!SpanRun, Status!Larger, StatusPlan!Larger

LEMMA StatusInit == Status!Init => StatusPlan!IInv
BY StatusPlanIs, StatusTable, StatusPlan!InitIInv

LEMMA StatusStep == StatusPlan!IInv /\ (Status!Next \/ UNCHANGED splan) => StatusPlan!IInv'
<1>1. UNCHANGED splan => UNCHANGED StatusPlan!vars
  BY DEF splan, StatusPlan!vars
<1> QED
  BY <1>1, StatusPlanIs, StatusTable, StatusPlan!NextIInv

-----------------------------------------------------------------------------
\* Slices and what is made of them

LEMMA RegisteredIs ==
  ASSUME NEW pdu \in Nat, NEW count \in Nat, NEW t \in Nat
  PROVE  /\ Registered(pdu, count, t) \in Seq(Nat \X Nat)
         /\ Len(Registered(pdu, count, t)) = count
         /\ \A i \in 1..count : Registered(pdu, count, t)[i] = <<pdu + i - 1, t>>
BY DEF Registered

\* SubSeq, by a name that is only expanded where it is meant to be.
Part(s, lo, hi) == SubSeq(s, lo, hi)

\* A part of what was answered is what would have been answered for that part.
LEMMA PartRegistered ==
  ASSUME NEW pdu \in Nat, NEW count \in Nat, NEW t \in Nat, NEW lo \in Nat \ {0},
         NEW hi \in Nat, lo <= hi + 1, hi <= count
  PROVE  Part(Registered(pdu, count, t), lo, hi)
           = Registered(pdu + lo - 1, hi - lo + 1, t)
<1> DEFINE whole == Registered(pdu, count, t)
           part == Part(whole, lo, hi)
<1>1. /\ whole \in Seq(Nat \X Nat) /\ Len(whole) = count
      /\ \A i \in 1..count : whole[i] = <<pdu + i - 1, t>>
  BY RegisteredIs
<1> HIDE DEF whole
<1>2. part = [i \in 1..(hi - lo + 1) |-> whole[lo + i - 1]]
  BY <1>1 DEF Part
<1>3. \A i \in 1..(hi - lo + 1) : whole[lo + i - 1] = <<(pdu + lo - 1) + i - 1, t>>
  BY <1>1
<1>4. part = [i \in 1..(hi - lo + 1) |-> <<(pdu + lo - 1) + i - 1, t>>]
  BY <1>2, <1>3
<1> QED
  BY <1>4 DEF whole, Registered

\* The slice of a channel is its own registers, as they were when the block was
\* read (modbus/client.py:351-355, 362-365).
LEMMA SliceRegistered ==
  ASSUME time \in Nat, NEW b \in [base : Nat, end : Nat, spans : SUBSET Nat],
         NEW s \in Nat, NEW n \in Nat,
         b.base <= s, s - b.base + n <= b.end - b.base
  PROVE  Slice(Response(b.base, b.end - b.base), b, s, n) = Registered(s, n, time)
<1>1. PICK base \in Nat : base = b.base
  OBVIOUS
<1>2. PICK count \in Nat : count = b.end - b.base
  OBVIOUS
<1>3. PICK lo \in Nat \ {0}, hi \in Nat : lo = (s - b.base) + 1 /\ hi = (s - b.base) + n
  BY <1>1
<1>4. lo <= hi + 1 /\ hi <= count /\ base + lo - 1 = s /\ hi - lo + 1 = n
  BY <1>1, <1>2, <1>3
<1>5. Response(base, count) = Registered(base, count, time)
  BY DEF Response, Registered
<1>6. Part(Registered(base, count, time), lo, hi) = Registered(s, n, time)
  <2>1. PICK t \in Nat : t = time
    OBVIOUS
  <2>2. Part(Registered(base, count, t), lo, hi) = Registered(base + lo - 1, hi - lo + 1, t)
    BY <1>4, PartRegistered
  <2> QED
    BY <1>4, <2>1, <2>2
<1> QED
  BY <1>1, <1>2, <1>3, <1>5, <1>6, Zenon DEF Slice, Offset, Part

\* The value, the name and the unit of a channel's seven registers.
LEMMA FieldsOfWords ==
  ASSUME NEW c \in ChannelId, NEW t \in Nat
  PROVE  LET word == Registered(ValuePdu(c), 7, t)
         IN  /\ SubSeq(word, 1, 2) = Registered(ValuePdu(c), 2, t)
             /\ SubSeq(word, 3, 5) = Registered(NamePdu(c), 3, t)
             /\ SubSeq(word, 6, 7) = Registered(UnitPdu(c), 2, t)
<1>1. PICK v \in Nat : v = ValuePdu(c) /\ NamePdu(c) = v + 3 - 1 /\ UnitPdu(c) = v + 6 - 1
  BY RowOfChannel
<1>2. Part(Registered(v, 7, t), 1, 2) = Registered(v + 1 - 1, 2 - 1 + 1, t)
  BY PartRegistered
<1>3. Part(Registered(v, 7, t), 3, 5) = Registered(v + 3 - 1, 5 - 3 + 1, t)
  BY PartRegistered
<1>4. Part(Registered(v, 7, t), 6, 7) = Registered(v + 6 - 1, 7 - 6 + 1, t)
  BY PartRegistered
<1>5. v + 1 - 1 = v /\ 2 - 1 + 1 = 2 /\ 5 - 3 + 1 = 3 /\ 7 - 6 + 1 = 2
  OBVIOUS
<1> QED
  BY <1>1, <1>2, <1>3, <1>4, <1>5, Zenon DEF Part

\* The flags of a channel's eight discretes.
LEMMA FlagsOfDiscretes ==
  ASSUME NEW c \in ChannelId, NEW u \in Nat,
         NEW r, r = DiscreteStatus(Registered(StatusPdu(c), 8, u), KindFor(c))
  PROVE  /\ r.fault = Discrete(c, 0, u)
         /\ \A a \in 1..4 : r.alarms[a] = Discrete(c, 3 + a, u)
         /\ <<r.maintenance, r.calibrating, r.warming_up>> =
              IF c[1] = "E" THEN <<Clear, Clear, Clear>> ELSE [i \in 1..3 |-> Discrete(c, i, u)]
<1>1. PICK n \in 0..9 :
        /\ StatusPdu(c) = 8 * n
        /\ c[1] \in {"I", "D", "E"}
  BY RowOfChannel
<1>2. PICK bits : bits = Registered(StatusPdu(c), 8, u)
  OBVIOUS
<1>3. \A i \in 0..7 : Bit(bits, i) = Discrete(c, i, u)
  <2>1. /\ Len(bits) = 8
        /\ \A i \in 1..8 : bits[i] = <<StatusPdu(c) + i - 1, u>>
    <3>1. StatusPdu(c) \in Nat /\ 8 \in Nat
      BY <1>1
    <3> QED
      BY <1>2, <3>1, RegisteredIs, Zenon
  <2> QED
    BY <1>1, <2>1 DEF Bit, Discrete
<1>4. KindFor(c) = "EXTERNAL_INPUT" <=> c[1] = "E"
  BY <1>1 DEF KindFor
<1>5. /\ r.fault = Bit(bits, 0)
      /\ \A a \in 1..4 : r.alarms[a] = Bit(bits, 3 + a)
      /\ r.maintenance = IF c[1] = "E" THEN Clear ELSE Bit(bits, 1)
      /\ r.calibrating = IF c[1] = "E" THEN Clear ELSE Bit(bits, 2)
      /\ r.warming_up = IF c[1] = "E" THEN Clear ELSE Bit(bits, 3)
  BY <1>2, <1>4 DEF DiscreteStatus
<1> QED
  BY <1>3, <1>5

\* The discretes of the calibration groups, at the end of the analyser's block
\* and in a block of their own.
LEMMA GroupBits ==
  ASSUME time \in 1..Len(CalStates), NEW g \in 1..CAL_GROUPS
  PROVE  /\ DOMAIN CalGroupBits = 1..8
         /\ CalGroupBits[2 * g - 1] = CalStates[time][g].calibrating
         /\ CalGroupBits[2 * g] = CalStates[time][g].gas2
         /\ CalStates[time][g].calibrating \in BOOLEAN /\ CalStates[time][g].gas2 \in BOOLEAN
<1>1. g \in 1..4 /\ CAL_GROUPS = 4
  BY DEF CAL_GROUPS
<1>2. /\ (2 * g - 1 + 1) \div 2 = g /\ (2 * g - 1) % 2 = 1 /\ 2 * g - 1 \in 1..8
      /\ (2 * g + 1) \div 2 = g /\ (2 * g) % 2 # 1 /\ 2 * g \in 1..8
  BY <1>1
<1>3. CalStates[time] \in [1..4 -> [calibrating : BOOLEAN, gas2 : BOOLEAN]]
  BY <1>1, FrameAssumption
<1>4. CalGroupBits = [i \in 1..8 |->
        IF i % 2 = 1 THEN CalStates[time][(i + 1) \div 2].calibrating
                     ELSE CalStates[time][(i + 1) \div 2].gas2]
  BY <1>1 DEF CalGroupBits
<1> QED
  BY <1>1, <1>2, <1>3, <1>4

\* The discretes at the addresses of the analyser's own flags and of the calibration
\* groups (registers.py:43-47).
LEMMA BitsOfAnalyser ==
  ASSUME time \in 1..Len(CalStates)
  PROVE  /\ AnalyserPdu = 1000 /\ CalGroupPdu = 1008
         /\ AnalyserBit(1000) = Flags[time].fault
         /\ AnalyserBit(1001) = Flags[time].maintenance
         /\ \A j \in 1..8 : AnalyserBit(1007 + j) = CalGroupBits[j]
<1>1. AnalyserPdu = 1000 /\ CalGroupPdu = 1008
  BY DEF AnalyserPdu, CalGroupPdu, DiscretePdu
<1>2. /\ 1000 # AnalyserPdu + 1 /\ 1001 = AnalyserPdu + 1 /\ 1001 # AnalyserPdu
      /\ ~(1000 >= CalGroupPdu) /\ ~(1001 >= CalGroupPdu)
  BY <1>1
<1>3. ASSUME NEW j \in 1..8 PROVE AnalyserBit(1007 + j) = CalGroupBits[j]
  <2>1. PICK a : a = 1007 + j
    OBVIOUS
  <2>2. /\ a # AnalyserPdu /\ a # AnalyserPdu + 1 /\ a >= CalGroupPdu
        /\ a - CalGroupPdu + 1 = j
    BY <1>1, <2>1
  <2>3. AnalyserBit(a) = CalGroupBits[a - CalGroupPdu + 1]
    BY <2>2, Zenon DEF AnalyserBit
  <2> QED
    BY <2>1, <2>2, <2>3
<1> QED
  BY <1>1, <1>2, <1>3 DEF AnalyserBit

\* The fault and maintenance told of the analyser are those it held when it was
\* read (status.py, _sweep_once).
LEMMA FlagsTold ==
  ASSUME time \in 1..Len(CalStates),
         NEW is, is = AnalyserStatus(AnalyserBits(AnalyserPdu, ANALYSER_BLOCK))
  PROVE  is.fault = Flags[time].fault /\ is.maintenance = Flags[time].maintenance
<1>1. PICK bits : bits = AnalyserBits(AnalyserPdu, ANALYSER_BLOCK)
  OBVIOUS
<1>2. bits = [i \in 1..16 |-> AnalyserBit(1000 + i - 1)]
  BY <1>1, BitsOfAnalyser DEF AnalyserBits, ANALYSER_BLOCK
<1>3. bits[1] = AnalyserBit(1000) /\ bits[2] = AnalyserBit(1001)
  BY <1>2
<1> QED
  BY <1>1, <1>3, BitsOfAnalyser DEF AnalyserStatus

LEMMA ToldByFrame ==
  ASSUME time \in 1..Len(CalStates), NEW g \in 1..CAL_GROUPS
  PROVE  AnalyserStatus(AnalyserBits(AnalyserPdu, ANALYSER_BLOCK)).cal_groups[g]
           = [calibrating |-> CalStates[time][g].calibrating,
              cal_gas |-> IF CalStates[time][g].gas2 THEN 2 ELSE 1]
<1>1. PICK bits : bits = AnalyserBits(AnalyserPdu, ANALYSER_BLOCK)
  OBVIOUS
<1>2. PICK lit : lit = CalGroupBits
  OBVIOUS
<1>3. g \in 1..4 /\ CAL_GROUPS = 4 /\ ANALYSER_BLOCK = 16 /\ AnalyserPdu = 1000 /\ CalGroupPdu = 1008
  BY DEF CAL_GROUPS, ANALYSER_BLOCK, AnalyserPdu, CalGroupPdu, DiscretePdu
<1>4. /\ DOMAIN lit = 1..8
      /\ lit[2 * g - 1] = CalStates[time][g].calibrating /\ lit[2 * g - 1] \in BOOLEAN
      /\ lit[2 * g] = CalStates[time][g].gas2 /\ lit[2 * g] \in BOOLEAN
  BY <1>2, GroupBits
<1>5. bits = [i \in 1..16 |-> AnalyserBit(1000 + i - 1)]
  BY <1>1, <1>3 DEF AnalyserBits
<1>6. /\ bits \in Seq({AnalyserBit(1000 + i - 1) : i \in 1..16}) /\ Len(bits) = 16
      /\ bits[2 * g + 7] = lit[2 * g - 1] /\ bits[2 * g + 8] = lit[2 * g]
  <2>1. /\ AnalyserBit(1007 + (2 * g - 1)) = lit[2 * g - 1]
        /\ AnalyserBit(1007 + 2 * g) = lit[2 * g]
    BY <1>2, <1>3, BitsOfAnalyser
  <2>2. /\ 2 * g + 7 \in 1..16 /\ 1000 + (2 * g + 7) - 1 = 1007 + (2 * g - 1)
        /\ 2 * g + 8 \in 1..16 /\ 1000 + (2 * g + 8) - 1 = 1007 + 2 * g
    BY <1>3
  <2> QED
    BY <1>5, <2>1, <2>2
<1>7. PICK groups : groups = SubSeq(bits, 9, ANALYSER_BLOCK)
  OBVIOUS
<1>8. Len(groups) = 8 /\ \A j \in 1..8 : groups[j] = bits[8 + j]
  BY <1>3, <1>6, <1>7
<1>9. /\ Bit(groups, 2 * (g - 1)) = CalStates[time][g].calibrating
      /\ Bit(groups, 2 * (g - 1) + 1) = CalStates[time][g].gas2
  <2>1. /\ 2 * (g - 1) < 8 /\ 2 * (g - 1) + 1 < 8
        /\ 2 * (g - 1) + 1 \in 1..8 /\ 8 + (2 * (g - 1) + 1) = 2 * g + 7
        /\ 2 * (g - 1) + 1 + 1 \in 1..8 /\ 8 + (2 * (g - 1) + 1 + 1) = 2 * g + 8
    BY <1>3
  <2>2. /\ Bit(groups, 2 * (g - 1)) = bits[2 * g + 7]
        /\ Bit(groups, 2 * (g - 1) + 1) = bits[2 * g + 8]
    BY <1>8, <2>1 DEF Bit
  <2> QED
    BY <1>4, <1>6, <2>2
<1>10. AnalyserStatus(bits).cal_groups[g]
         = [calibrating |-> Bit(groups, 2 * (g - 1)),
            cal_gas |-> IF Bit(groups, 2 * (g - 1) + 1) THEN 2 ELSE 1]
  BY <1>7 DEF AnalyserStatus
<1> QED
  BY <1>1, <1>9, <1>10

LEMMA ToldByProgress ==
  ASSUME time \in 1..Len(CalStates), NEW g \in 1..CAL_GROUPS,
         NEW is, is = CalProgress(g, AnalyserBits(CalGroupPdu, 2 * CAL_GROUPS))
  PROVE  /\ is.active = CalStates[time][g].calibrating
         /\ is.phase = "IDLE" <=> ~CalStates[time][g].calibrating
         /\ is.phase = "CAL_GAS_2"
              <=> CalStates[time][g].calibrating /\ CalStates[time][g].gas2
<1>1. PICK bits : bits = AnalyserBits(CalGroupPdu, 2 * CAL_GROUPS)
  OBVIOUS
<1>2. PICK lit : lit = CalGroupBits
  OBVIOUS
<1>3. g \in 1..4 /\ CAL_GROUPS = 4 /\ CalGroupPdu = 1008
  BY DEF CAL_GROUPS, CalGroupPdu, DiscretePdu
<1>4. /\ DOMAIN lit = 1..8
      /\ lit[2 * g - 1] = CalStates[time][g].calibrating /\ lit[2 * g - 1] \in BOOLEAN
      /\ lit[2 * g] = CalStates[time][g].gas2 /\ lit[2 * g] \in BOOLEAN
  BY <1>2, GroupBits
<1>5. bits = [i \in 1..8 |-> AnalyserBit(1008 + i - 1)]
  BY <1>1, <1>3 DEF AnalyserBits
<1>6. /\ bits \in Seq({AnalyserBit(1008 + i - 1) : i \in 1..8}) /\ Len(bits) = 8
      /\ bits[2 * (g - 1) + 1] = lit[2 * g - 1] /\ bits[2 * (g - 1) + 1 + 1] = lit[2 * g]
  <2>1. /\ AnalyserBit(1007 + (2 * g - 1)) = lit[2 * g - 1]
        /\ AnalyserBit(1007 + 2 * g) = lit[2 * g]
    BY <1>2, <1>3, BitsOfAnalyser
  <2>2. /\ 2 * (g - 1) + 1 \in 1..8 /\ 1008 + (2 * (g - 1) + 1) - 1 = 1007 + (2 * g - 1)
        /\ 2 * (g - 1) + 1 + 1 \in 1..8 /\ 1008 + (2 * (g - 1) + 1 + 1) - 1 = 1007 + 2 * g
    BY <1>3
  <2> QED
    BY <1>5, <2>1, <2>2
<1>7. /\ CalIndex(g) = 2 * (g - 1) /\ 2 * (g - 1) < 8 /\ 2 * (g - 1) + 1 < 8
  BY <1>3 DEF CalIndex
<1>8. is = [active |-> lit[2 * g - 1],
            phase |-> IF ~lit[2 * g - 1] THEN "IDLE"
                      ELSE IF lit[2 * g] THEN "CAL_GAS_2" ELSE "CAL_GAS_1"]
  BY <1>1, <1>4, <1>6, <1>7 DEF CalProgress
<1> QED
  BY <1>4, <1>8

-----------------------------------------------------------------------------
\* The inductive invariant

Plans == IInv /\ StatusPlan!IInv /\ schannels = {StatusSpan(s) : s \in channels}

\* Both plans are made before the first transaction, all words are read before
\* the first discrete, and the analyser is asked last.
InOrder ==
  /\ time \in 1..Len(CalStates)
  /\ IF pending = None
     THEN words = <<>> /\ statuses = <<>> /\ analyser = None
     ELSE done /\ sdone /\ pending \in [input : SUBSET runs, discrete : SUBSET sruns]
  /\ pending # None /\ pending.input # {} => statuses = <<>>
  /\ analyser # None =>
       /\ analyser.time \in 1..time
       /\ pending.input = {} /\ pending.discrete = {}

WordsAt(c, t) == words[c] = Registered(ValuePdu(c), 7, t)
StatusAt(c, u) == statuses[c] = DiscreteStatus(Registered(StatusPdu(c), 8, u), KindFor(c))

\* When the sweep last heard of the analyser.
Heard == IF analyser = None THEN time ELSE analyser.time

\* What was gathered is each channel's own, its words no later than any
\* channel's discretes, and what is missing is in a block that is left.
Gathered ==
  /\ \A c \in DOMAIN words : c \in Channels /\ \E t \in 1..Heard : WordsAt(c, t)
  /\ \A c \in DOMAIN statuses :
       /\ c \in Channels
       /\ \E u \in 1..Heard :
            StatusAt(c, u) /\ \A d \in DOMAIN words : \E t \in 1..u : WordsAt(d, t)
  /\ pending # None => \A s \in channels :
       /\ ChannelAt(s) \in DOMAIN words \/ \E b \in pending.input : s \in b.spans
       /\ \/ ChannelAt(s) \in DOMAIN statuses
          \/ \E b \in pending.discrete : StatusSpan(s) \in b.spans

FrameInv == Plans /\ InOrder /\ Gathered /\ SameProgress

\* What the loops of the two plans give once they are done.
LEMMA PlanFacts ==
  ASSUME Plans
  PROVE  /\ runs \subseteq [base : Nat, end : Nat, spans : SUBSET Spans]
         /\ sruns \subseteq [base : Nat, end : Nat, spans : SUBSET Nat]
         /\ channels \subseteq Spans /\ Spans \subseteq Nat
         /\ None \notin [input : SUBSET runs, discrete : SUBSET sruns]
         /\ \A b \in runs : \A s \in b.spans : b.base <= s /\ s - b.base + 7 <= b.end - b.base
         /\ \A b \in sruns : \A s \in b.spans : b.base <= s /\ s - b.base + 8 <= b.end - b.base
         /\ done => \A s \in channels : \E b \in runs : s \in b.spans
         /\ sdone => \A s \in channels : \E b \in sruns : StatusSpan(s) \in b.spans
<1>1. Width = 7 /\ DISCRETE_BITS = 8 /\ Spans \subseteq Nat
  BY FrameAssumption, ReadPlanAssumption
     DEF INPUT_CHANNEL_REGISTERS, VALUE_REGISTERS, NAME_REGISTERS, UNIT_REGISTERS, DISCRETE_BITS
<1>2. /\ runs \subseteq [base : Nat, end : Nat, spans : SUBSET Spans] /\ channels \subseteq Spans
      /\ \A b \in runs : \A s \in b.spans : b.base <= s /\ s - b.base + 7 <= b.end - b.base
  <2>1. TypeOK /\ SlicesInside
    BY DEF Plans, IInv
  <2>2. runs \subseteq [base : Nat, end : Nat, spans : SUBSET Spans] /\ channels \subseteq Spans
    BY <2>1 DEF TypeOK
  <2> QED
    BY <1>1, <2>1, <2>2 DEF SlicesInside, Blocks, Offset
<1>3. done => \A s \in channels : \E b \in runs : s \in b.spans
  BY DEF Plans, IInv, Complete, EachChannelOnce, Blocks
<1>4. /\ sruns \subseteq [base : Nat, end : Nat, spans : SUBSET Nat]
      /\ \A b \in sruns : \A s \in b.spans : b.base <= s /\ s - b.base + 8 <= b.end - b.base
  <2>1. StatusPlan!TypeOK /\ StatusPlan!SlicesInside
    BY DEF Plans, StatusPlan!IInv
  <2>2. sruns \subseteq [base : Nat, end : Nat, spans : SUBSET {StatusSpan(s) : s \in Spans}]
    BY <2>1 DEF StatusPlan!TypeOK
  <2>3. sruns \subseteq [base : Nat, end : Nat, spans : SUBSET Nat]
    BY <2>2, StatusTable
  <2> QED
    BY <1>1, <2>1, <2>3 DEF StatusPlan!SlicesInside, StatusPlan!Blocks, StatusPlan!Offset
<1>5. sdone => \A s \in schannels : \E b \in sruns : s \in b.spans
  BY DEF Plans, StatusPlan!IInv, StatusPlan!Complete, StatusPlan!EachChannelOnce,
         StatusPlan!Blocks
<1>6. None \notin [input : SUBSET runs, discrete : SUBSET sruns]
  <2>1. runs \subseteq BlockReads /\ sruns \subseteq BlockReads
    BY <1>1, <1>2, <1>4 DEF BlockReads
  <2> QED
    BY <2>1, FrameAssumption
<1> QED
  BY <1>1, <1>2, <1>3, <1>4, <1>5, <1>6 DEF Plans

LEMMA InitFrameInv == FrameInit => FrameInv
<1> SUFFICES ASSUME FrameInit PROVE FrameInv
  OBVIOUS
<1>1. Plans
  BY InitIInv, StatusInit DEF FrameInit, Plans
<1>2. /\ time = 1 /\ pending = None /\ words = <<>> /\ statuses = <<>>
      /\ analyser = None /\ progress = None
  BY DEF FrameInit
<1>3. Len(CalStates) \in Nat \ {0}
  BY FrameAssumption
<1>4. InOrder
  BY <1>2, <1>3 DEF InOrder
<1>5. Gathered
  BY <1>2 DEF Gathered
<1> QED
  BY <1>1, <1>2, <1>4, <1>5 DEF FrameInv, SameProgress

\* A plan that is done does nothing any more, and its channels never change.
LEMMA PlanGrows ==
  Next => channels' = channels /\ (done => done') /\ runs \subseteq runs'
<1>1. ASSUME NEW s \in Spans, Extend(s)
      PROVE  channels' = channels /\ done' = done /\ runs' = runs
  BY <1>1 DEF Extend
<1>2. ASSUME NEW s \in Spans, Cut(s)
      PROVE  channels' = channels /\ done' = done /\ runs \subseteq runs'
  BY <1>2 DEF Cut
<1>3. ASSUME Finish PROVE channels' = channels /\ done' /\ runs \subseteq runs'
  BY <1>3 DEF Finish
<1> QED
  BY <1>1, <1>2, <1>3 DEF Next

LEMMA StatusGrows ==
  Status!Next => schannels' = schannels /\ (sdone => sdone') /\ sruns \subseteq sruns'
<1>1. ASSUME NEW s, Status!Extend(s)
      PROVE  schannels' = schannels /\ sdone' = sdone /\ sruns' = sruns
  BY <1>1 DEF Status!Extend
<1>2. ASSUME NEW s, Status!Cut(s)
      PROVE  schannels' = schannels /\ sdone' = sdone /\ sruns \subseteq sruns'
  BY <1>2 DEF Status!Cut
<1>3. ASSUME Status!Finish PROVE schannels' = schannels /\ sdone' /\ sruns \subseteq sruns'
  BY <1>3 DEF Status!Finish
<1> QED
  BY <1>1, <1>2, <1>3 DEF Status!Next

LEMMA PlanningFrameInv ==
  ASSUME FrameInv, PlanInput \/ PlanStatus
  PROVE  FrameInv'
<1>1. /\ channels' = channels /\ schannels' = schannels
      /\ done => done' /\ runs \subseteq runs'
      /\ sdone => sdone' /\ sruns \subseteq sruns'
      /\ UNCHANGED <<time, pending, words, statuses, analyser, progress>>
  BY PlanGrows, StatusGrows DEF PlanInput, PlanStatus, splan, vars, read
<1>2. Plans'
  <2>1. IInv'
    BY NextIInv DEF FrameInv, Plans, PlanInput, PlanStatus, vars
  <2>2. StatusPlan!IInv'
    BY StatusStep DEF FrameInv, Plans, PlanInput, PlanStatus
  <2> QED
    BY <1>1, <2>1, <2>2 DEF FrameInv, Plans
<1>3. InOrder'
  BY <1>1 DEF FrameInv, InOrder
<1>4. Gathered'
  BY <1>1 DEF FrameInv, Gathered, WordsAt, StatusAt, Heard
<1>5. SameProgress'
  BY <1>1 DEF FrameInv, SameProgress
<1> QED
  BY <1>2, <1>3, <1>4, <1>5 DEF FrameInv

\* The other steps leave the plans alone.
LEMMA PlansStay ==
  ASSUME Plans, UNCHANGED <<vars, splan>>
  PROVE  Plans' /\ UNCHANGED <<channels, runs, done, sruns, sdone>>
<1>1. IInv'
  BY NextIInv DEF Plans
<1>2. StatusPlan!IInv'
  BY StatusStep DEF Plans
<1> QED
  BY <1>1, <1>2 DEF Plans, vars, splan

LEMMA PlannedFrameInv == ASSUME FrameInv, Planned PROVE FrameInv'
<1>1. /\ Plans' /\ UNCHANGED <<channels, runs, done, sruns, sdone>>
      /\ UNCHANGED <<time, words, statuses, analyser, progress>>
      /\ done /\ sdone /\ pending = None
      /\ pending' = [input |-> runs, discrete |-> sruns]
  BY PlansStay DEF FrameInv, Planned
<1>2. words = <<>> /\ statuses = <<>> /\ analyser = None
  BY <1>1 DEF FrameInv, InOrder
<1>3. InOrder'
  BY <1>1, <1>2 DEF FrameInv, InOrder
<1>4. Gathered'
  <2>1. \A s \in channels : /\ \E b \in runs : s \in b.spans
                            /\ \E b \in sruns : StatusSpan(s) \in b.spans
    BY <1>1, PlanFacts DEF FrameInv
  <2> QED
    BY <1>1, <1>2, <2>1 DEF Gathered
<1>5. SameProgress'
  BY <1>1 DEF FrameInv, SameProgress
<1> QED
  BY <1>1, <1>3, <1>4, <1>5 DEF FrameInv

LEMMA MeasureFrameInv == ASSUME FrameInv, Measure PROVE FrameInv'
<1>1. /\ Plans' /\ UNCHANGED <<channels, runs, done, sruns, sdone>>
      /\ UNCHANGED <<pending, words, statuses, analyser, progress>>
      /\ time < Len(CalStates) /\ time' = time + 1
  BY PlansStay DEF FrameInv, Measure, read
<1>2. time \in 1..Len(CalStates) /\ Len(CalStates) \in Nat /\ time' \in 1..Len(CalStates)
  BY <1>1, FrameAssumption DEF FrameInv, InOrder
<1>3. InOrder'
  BY <1>1, <1>2 DEF FrameInv, InOrder
<1>4. Gathered'
  <2>1. Heard \in Nat /\ Heard' \in Nat /\ Heard <= Heard'
    BY <1>1, <1>2 DEF FrameInv, InOrder, Heard
  <2>2. 1..Heard \subseteq 1..Heard'
    BY <2>1
  <2> QED
    BY <1>1, <2>2 DEF FrameInv, Gathered, WordsAt, StatusAt
<1>5. SameProgress'
  BY <1>1 DEF FrameInv, SameProgress
<1> QED
  BY <1>1, <1>3, <1>4, <1>5 DEF FrameInv

\* A block of registers: its channels' words, as they are now.
LEMMA InputBlockFrameInv ==
  ASSUME FrameInv, NEW b \in runs, ReadInputBlock(b)
  PROVE  FrameInv'
<1>1. /\ Plans' /\ UNCHANGED <<channels, runs, done, sruns, sdone>>
      /\ UNCHANGED <<time, statuses, analyser, progress>>
      /\ pending # None /\ b \in pending.input
      /\ pending' = [pending EXCEPT !.input = @ \ {b}]
  BY PlansStay DEF FrameInv, ReadInputBlock, Lowest
<1>2. /\ done /\ sdone /\ pending \in [input : SUBSET runs, discrete : SUBSET sruns]
      /\ statuses = <<>> /\ analyser = None /\ time \in Nat /\ time \in 1..time
  BY <1>1, FrameAssumption DEF FrameInv, InOrder
<1>3. /\ pending' \in [input : SUBSET runs, discrete : SUBSET sruns]
      /\ pending'.input = pending.input \ {b} /\ pending'.discrete = pending.discrete
  BY <1>1, <1>2
<1>4. /\ b \in [base : Nat, end : Nat, spans : SUBSET Nat] /\ b.spans \subseteq Spans
      /\ \A s \in b.spans : s \in Nat /\ b.base <= s /\ s - b.base + 7 <= b.end - b.base
  BY PlanFacts DEF FrameInv
<1>5. /\ DOMAIN words' = DOMAIN words \cup {ChannelAt(s) : s \in b.spans}
      /\ \A c \in DOMAIN words : words'[c] = words[c]
      /\ \A s \in b.spans : ChannelAt(s) \notin DOMAIN words =>
           words'[ChannelAt(s)]
             = Slice(Response(b.base, b.end - b.base), b, ValuePdu(ChannelAt(s)), Width)
  BY DEF ReadInputBlock
<1>6. \A s \in b.spans : ChannelAt(s) \in Channels /\ ValuePdu(ChannelAt(s)) = s
  BY <1>4, ChannelOfSpan
<1>7. Width = 7
  BY FrameAssumption
     DEF INPUT_CHANNEL_REGISTERS, VALUE_REGISTERS, NAME_REGISTERS, UNIT_REGISTERS
<1>8. \A s \in b.spans : Slice(Response(b.base, b.end - b.base), b, s, 7) = Registered(s, 7, time)
  <2> TAKE s \in b.spans
  <2> QED
    BY <1>2, <1>4, SliceRegistered
<1>9. Heard = time /\ Heard' = time
  BY <1>1, <1>2 DEF Heard
<1>10. \A c \in DOMAIN words' : c \in Channels /\ \E t \in 1..Heard' : WordsAt(c, t)'
  <2> SUFFICES ASSUME NEW c \in DOMAIN words'
               PROVE  c \in Channels /\ \E t \in 1..time : words'[c] = Registered(ValuePdu(c), 7, t)
    BY <1>9 DEF WordsAt
  <2>1. CASE c \in DOMAIN words
    BY <1>5, <1>9, <2>1 DEF FrameInv, Gathered, WordsAt
  <2>2. CASE c \notin DOMAIN words
    <3>1. PICK s \in b.spans : c = ChannelAt(s)
      BY <1>5, <2>2
    <3>2. words'[c] = Registered(ValuePdu(c), 7, time)
      BY <1>5, <1>6, <1>7, <1>8, <2>2, <3>1
    <3> QED
      BY <1>2, <1>6, <3>1, <3>2
  <2> QED
    BY <2>1, <2>2
<1>11. DOMAIN statuses' = {}
  BY <1>1, <1>2
<1>12. \A s \in channels :
         /\ ChannelAt(s) \in DOMAIN words' \/ \E d \in pending'.input : s \in d.spans
         /\ ChannelAt(s) \in DOMAIN statuses' \/ \E d \in pending'.discrete : StatusSpan(s) \in d.spans
  <2> TAKE s \in channels
  <2>1. /\ ChannelAt(s) \in DOMAIN words \/ \E d \in pending.input : s \in d.spans
        /\ ChannelAt(s) \in DOMAIN statuses \/ \E d \in pending.discrete : StatusSpan(s) \in d.spans
    BY <1>1 DEF FrameInv, Gathered
  <2> QED
    BY <1>1, <1>3, <1>5, <2>1
<1>13. Gathered'
  BY <1>1, <1>10, <1>11, <1>12 DEF Gathered
<1>14. InOrder'
  <2>1. pending' # None
    BY <1>1, <1>3, PlanFacts DEF FrameInv
  <2> QED
    BY <1>1, <1>2, <1>3, <2>1 DEF FrameInv, InOrder
<1>15. SameProgress'
  BY <1>1 DEF FrameInv, SameProgress
<1> QED
  BY <1>1, <1>13, <1>14, <1>15 DEF FrameInv

\* A block of discretes: all words are there, and none is younger.
LEMMA StatusBlockFrameInv ==
  ASSUME FrameInv, NEW b \in sruns, ReadStatusBlock(b)
  PROVE  FrameInv'
<1>1. /\ Plans' /\ UNCHANGED <<channels, runs, done, sruns, sdone>>
      /\ UNCHANGED <<time, words, analyser, progress>>
      /\ pending # None /\ pending.input = {} /\ b \in pending.discrete
      /\ pending' = [pending EXCEPT !.discrete = @ \ {b}]
  BY PlansStay DEF FrameInv, ReadStatusBlock, Lowest
<1>2. /\ done /\ sdone /\ pending \in [input : SUBSET runs, discrete : SUBSET sruns]
      /\ analyser = None /\ time \in Nat /\ time \in 1..time
  BY <1>1, FrameAssumption DEF FrameInv, InOrder
<1>3. /\ pending' \in [input : SUBSET runs, discrete : SUBSET sruns] /\ pending' # None
      /\ pending'.input = pending.input /\ pending'.discrete = pending.discrete \ {b}
  <2>1. /\ pending' \in [input : SUBSET runs, discrete : SUBSET sruns]
        /\ pending'.input = pending.input /\ pending'.discrete = pending.discrete \ {b}
    BY <1>1, <1>2
  <2> QED
    BY <2>1, PlanFacts DEF FrameInv
<1>4. /\ b \in [base : Nat, end : Nat, spans : SUBSET Nat]
      /\ \A s \in b.spans : s \in Nat /\ b.base <= s /\ s - b.base + 8 <= b.end - b.base
  BY PlanFacts DEF FrameInv
<1>5. DISCRETE_BITS = 8
  BY DEF DISCRETE_BITS
<1>6. /\ DOMAIN statuses' = DOMAIN statuses \cup {c \in Channels : StatusPdu(c) \in b.spans}
      /\ \A c \in DOMAIN statuses : statuses'[c] = statuses[c]
      /\ \A c \in DOMAIN statuses' \ DOMAIN statuses :
           statuses'[c]
             = DiscreteStatus(Slice(Response(b.base, b.end - b.base), b, StatusPdu(c), 8), KindFor(c))
  BY <1>5 DEF ReadStatusBlock
<1>7. \A s \in b.spans : Slice(Response(b.base, b.end - b.base), b, s, 8) = Registered(s, 8, time)
  <2> TAKE s \in b.spans
  <2> QED
    BY <1>2, <1>4, SliceRegistered
<1>8. Heard = time /\ Heard' = time
  BY <1>1, <1>2 DEF Heard
<1>9. \A c \in DOMAIN words : c \in Channels /\ \E t \in 1..time : WordsAt(c, t)
  BY <1>8 DEF FrameInv, Gathered
<1>10. \A c \in DOMAIN statuses' :
         /\ c \in Channels
         /\ \E u \in 1..time :
              StatusAt(c, u)' /\ \A d \in DOMAIN words : \E t \in 1..u : WordsAt(d, t)
  <2> SUFFICES ASSUME NEW c \in DOMAIN statuses'
               PROVE  /\ c \in Channels
                      /\ \E u \in 1..time :
                           StatusAt(c, u)' /\ \A d \in DOMAIN words : \E t \in 1..u : WordsAt(d, t)
    OBVIOUS
  <2>1. CASE c \in DOMAIN statuses
    <3>1. c \in Channels
      BY <2>1 DEF FrameInv, Gathered
    <3>2. PICK u \in 1..time :
            StatusAt(c, u) /\ \A d \in DOMAIN words : \E t \in 1..u : WordsAt(d, t)
      BY <1>8, <2>1 DEF FrameInv, Gathered
    <3>3. StatusAt(c, u)'
      BY <1>6, <2>1, <3>2 DEF StatusAt
    <3> QED
      BY <3>1, <3>2, <3>3
  <2>2. CASE c \notin DOMAIN statuses
    <3>1. c \in Channels /\ StatusPdu(c) \in b.spans
      BY <1>6, <2>2
    <3>2. statuses'[c] = DiscreteStatus(Registered(StatusPdu(c), 8, time), KindFor(c))
      BY <1>6, <1>7, <2>2, <3>1
    <3>3. PICK u \in 1..time : u = time
      BY <1>2
    <3>4. StatusAt(c, u)' /\ \A d \in DOMAIN words : \E t \in 1..u : WordsAt(d, t)
      BY <1>9, <3>2, <3>3 DEF StatusAt
    <3> QED
      BY <3>1, <3>4
  <2> QED
    BY <2>1, <2>2
<1>11. \A s \in channels :
         /\ ChannelAt(s) \in DOMAIN words' \/ \E d \in pending'.input : s \in d.spans
         /\ ChannelAt(s) \in DOMAIN statuses' \/ \E d \in pending'.discrete : StatusSpan(s) \in d.spans
  <2> TAKE s \in channels
  <2>1. /\ ChannelAt(s) \in DOMAIN words \/ \E d \in pending.input : s \in d.spans
        /\ ChannelAt(s) \in DOMAIN statuses \/ \E d \in pending.discrete : StatusSpan(s) \in d.spans
    BY <1>1 DEF FrameInv, Gathered
  <2>2. ChannelAt(s) \in Channels
    BY PlanFacts, ChannelOfSpan DEF FrameInv
  <2>3. StatusSpan(s) \in b.spans => ChannelAt(s) \in DOMAIN statuses'
    BY <1>6, <2>2 DEF StatusSpan
  <2> QED
    BY <1>1, <1>3, <1>6, <2>1, <2>3
<1>12. Gathered'
  BY <1>1, <1>8, <1>9, <1>10, <1>11 DEF Gathered, WordsAt
<1>13. InOrder'
  BY <1>1, <1>2, <1>3 DEF FrameInv, InOrder
<1>14. SameProgress'
  BY <1>1 DEF FrameInv, SameProgress
<1> QED
  BY <1>1, <1>12, <1>13, <1>14 DEF FrameInv

\* The last transaction of the sweep.
LEMMA AnalyserFrameInv == ASSUME FrameInv, ReadAnalyser PROVE FrameInv'
<1>1. /\ Plans' /\ UNCHANGED <<channels, runs, done, sruns, sdone>>
      /\ UNCHANGED <<time, pending, words, statuses, progress>>
      /\ pending = [input |-> {}, discrete |-> {}] /\ analyser = None
      /\ analyser' = [status |-> AnalyserStatus(AnalyserBits(AnalyserPdu, ANALYSER_BLOCK)),
                      time |-> time]
  BY PlansStay DEF FrameInv, ReadAnalyser
<1>2. pending # None /\ time \in 1..Len(CalStates) /\ time \in Nat
  BY <1>1, PlanFacts, FrameAssumption DEF FrameInv, InOrder
<1>3. /\ analyser'.time = time
      /\ analyser'.status = AnalyserStatus(AnalyserBits(AnalyserPdu, ANALYSER_BLOCK))
  BY <1>1
<1>4. InOrder'
  BY <1>1, <1>2, <1>3 DEF FrameInv, InOrder
<1>5. Heard' = Heard
  BY <1>1, <1>3 DEF Heard
<1>6. Gathered'
  BY <1>1, <1>5 DEF FrameInv, Gathered, WordsAt, StatusAt
<1>7. SameProgress'
  BY <1>1, <1>2, <1>3, ToldByFrame, FlagsTold DEF FrameInv, SameProgress
<1> QED
  BY <1>1, <1>4, <1>6, <1>7 DEF FrameInv

LEMMA ProgressFrameInv ==
  ASSUME FrameInv, NEW g \in 1..CAL_GROUPS, ReadCalProgress(g)
  PROVE  FrameInv'
<1>1. /\ Plans' /\ UNCHANGED <<channels, runs, done, sruns, sdone>>
      /\ UNCHANGED <<time, pending, words, statuses, analyser>>
      /\ progress' = [group |-> g, time |-> time,
                      is |-> CalProgress(g, AnalyserBits(CalGroupPdu, 2 * CAL_GROUPS))]
  BY PlansStay DEF FrameInv, ReadCalProgress
<1>2. InOrder'
  BY <1>1 DEF FrameInv, InOrder
<1>3. Gathered'
  <2>1. Heard' = Heard
    BY <1>1 DEF Heard
  <2> QED
    BY <1>1, <2>1 DEF FrameInv, Gathered, WordsAt, StatusAt
<1>4. /\ progress'.group = g /\ progress'.time = time
      /\ progress'.is = CalProgress(g, AnalyserBits(CalGroupPdu, 2 * CAL_GROUPS))
  BY <1>1
<1>5. SameProgress'
  BY <1>1, <1>4, ToldByProgress DEF FrameInv, InOrder, SameProgress
<1> QED
  BY <1>1, <1>2, <1>3, <1>5 DEF FrameInv

LEMMA NextFrameInv == FrameInv /\ [FrameNext]_fvars => FrameInv'
<1> SUFFICES ASSUME FrameInv, [FrameNext]_fvars PROVE FrameInv'
  OBVIOUS
<1>1. CASE UNCHANGED fvars
  <2>1. /\ Plans' /\ UNCHANGED <<channels, runs, done, sruns, sdone>>
        /\ UNCHANGED <<time, pending, words, statuses, analyser, progress>>
    BY <1>1, PlansStay DEF FrameInv, fvars, read
  <2> QED
    BY <2>1 DEF FrameInv, InOrder, Gathered, WordsAt, StatusAt, Heard, SameProgress
<1> QED
  BY <1>1, PlanningFrameInv, PlannedFrameInv, MeasureFrameInv, InputBlockFrameInv,
     StatusBlockFrameInv, AnalyserFrameInv, ProgressFrameInv
     DEF FrameNext

LEMMA FrameInvariance == FrameSpec => []FrameInv
BY InitFrameInv, NextFrameInv, PTL DEF FrameSpec

-----------------------------------------------------------------------------
\* The theorems

\* What the invariant says once the sweep is over.
LEMMA OwnWordsFollows == FrameInv => OwnWords
<1> SUFFICES ASSUME FrameInv, analyser # None, NEW s \in channels
             PROVE  \E t, u \in 1..analyser.time :
                      LET r == BuildReading(ChannelAt(s))
                      IN  /\ t <= u
                          /\ r.value = Registered(ValuePdu(r.channel), 2, t)
                          /\ r.name = Registered(NamePdu(r.channel), 3, t)
                          /\ r.unit = Registered(UnitPdu(r.channel), 2, t)
                          /\ r.status.fault = Discrete(r.channel, 0, u)
                          /\ \A a \in 1..4 : r.status.alarms[a] = Discrete(r.channel, 3 + a, u)
                          /\ <<r.status.maintenance, r.status.calibrating, r.status.warming_up>> =
                               IF r.channel[1] = "E" THEN <<Clear, Clear, Clear>>
                               ELSE [i \in 1..3 |-> Discrete(r.channel, i, u)]
  BY DEF OwnWords, Readings
<1>1. PICK c : c = ChannelAt(s)
  OBVIOUS
<1>2. c \in Channels /\ c \in ChannelId
  BY <1>1, PlanFacts, ChannelOfSpan DEF FrameInv
<1>3. c \in DOMAIN words /\ c \in DOMAIN statuses
  BY <1>1 DEF FrameInv, InOrder, Gathered
<1>4. Heard = analyser.time /\ analyser.time \in Nat
  BY FrameAssumption DEF Heard, FrameInv, InOrder
<1>5. PICK u \in 1..analyser.time :
        StatusAt(c, u) /\ \A d \in DOMAIN words : \E t \in 1..u : WordsAt(d, t)
  BY <1>3, <1>4 DEF FrameInv, Gathered
<1>6. PICK t \in 1..u : WordsAt(c, t)
  BY <1>3, <1>5
<1>7. t \in 1..analyser.time /\ t \in Nat /\ u \in Nat /\ t <= u
  BY <1>4
<1>8. PICK r : r = BuildReading(c)
  OBVIOUS
<1>9. /\ r.channel = c
      /\ r.value = SubSeq(words[c], 1, 2)
      /\ r.name = SubSeq(words[c], 3, 5)
      /\ r.unit = SubSeq(words[c], 6, 7)
      /\ r.status = statuses[c]
  BY <1>8 DEF BuildReading, VALUE_REGISTERS, NAME_REGISTERS, UNIT_REGISTERS
<1>10. /\ r.value = Registered(ValuePdu(c), 2, t)
       /\ r.name = Registered(NamePdu(c), 3, t)
       /\ r.unit = Registered(UnitPdu(c), 2, t)
  BY <1>2, <1>6, <1>7, <1>9, FieldsOfWords DEF WordsAt
<1>11. r.status = DiscreteStatus(Registered(StatusPdu(c), 8, u), KindFor(c))
  BY <1>5, <1>9 DEF StatusAt
<1>12. /\ r.status.fault = Discrete(c, 0, u)
       /\ \A a \in 1..4 : r.status.alarms[a] = Discrete(c, 3 + a, u)
       /\ <<r.status.maintenance, r.status.calibrating, r.status.warming_up>> =
            IF c[1] = "E" THEN <<Clear, Clear, Clear>> ELSE [i \in 1..3 |-> Discrete(c, i, u)]
  BY <1>2, <1>7, <1>11, FlagsOfDiscretes
<1> QED
  BY <1>1, <1>7, <1>8, <1>9, <1>10, <1>12

\* A frame says of every channel, and of the analyser, what their own registers
\* and bits said, in the order they were read, for every choice of channels and
\* policies and whatever is measured between two transactions.
THEOREM FrameTellsTruth == FrameSpec => []FrameTrue
<1>1. FrameInv => FrameTrue
  BY OwnWordsFollows DEF FrameInv, FrameTrue
<1> QED
  BY <1>1, FrameInvariance, PTL

\* A sweep makes its two plans as the planner does for each alone, so both are
\* sound and of the fewest blocks that their own policy allows.
THEOREM BothPlansAreBest ==
  FrameSpec => [](/\ PlanSound /\ Fewest
                  /\ StatusPlan!PlanSound /\ StatusPlan!Fewest)
<1>1. FrameInit => Init /\ StatusPlan!Init
  BY StatusPlanIs DEF FrameInit
<1>2. [FrameNext]_fvars => [Next]_vars /\ [StatusPlan!Next]_(StatusPlan!vars)
  <2> SUFFICES ASSUME [FrameNext]_fvars
               PROVE  (Next \/ UNCHANGED vars) /\ (Status!Next \/ UNCHANGED splan)
    BY StatusPlanIs DEF splan, StatusPlan!vars
  <2> QED
    BY DEF FrameNext, PlanInput, PlanStatus, Planned, ReadAnalyser, Measure, ReadInputBlock,
           ReadStatusBlock, ReadCalProgress, fvars
<1>3. StatusPlan!Spec => []StatusPlan!PlanSound /\ []StatusPlan!Fewest
  BY StatusTable, StatusPlan!PlanIsSound, StatusPlan!NoPlanIsShorter
<1> QED
  BY <1>1, <1>2, <1>3, PlanIsSound, NoPlanIsShorter, PTL DEF FrameSpec, Spec, StatusPlan!Spec

=============================================================================

------------------------------ MODULE Registers ------------------------------
(***************************************************************************)
(* Where the 4100 keeps what (registry/channels.py, protocol/modbus/       *)
(* registers.py) and how bits become flags (registry/status.py), as        *)
(* operators.  Decoding a channel is the question which bits end up where,  *)
(* so its bits may be any values; those of the analyser are Booleans.      *)
(***************************************************************************)
EXTENDS Integers, Sequences

VALUE_REGISTERS == 2
NAME_REGISTERS == 3
UNIT_REGISTERS == 2
INPUT_CHANNEL_REGISTERS == VALUE_REGISTERS + NAME_REGISTERS + UNIT_REGISTERS
DISCRETE_BITS == 8
CAL_GROUPS == 4
ANALYSER_BLOCK == 16

\* Transducers, derived channels and external inputs, in data-model numbers.
BLOCKS == {
  [prefix |-> "I", count |-> 4, register_base |-> 30001, discrete_base |-> 10001],
  [prefix |-> "D", count |-> 4, register_base |-> 30029, discrete_base |-> 10033],
  [prefix |-> "E", count |-> 2, register_base |-> 30057, discrete_base |-> 10065]}

ChannelId == UNION {{<<b.prefix, i>> : i \in 1..b.count} : b \in BLOCKS}

KindFor(c) ==
  CASE c[1] = "I" -> "TRANSDUCER" [] c[1] = "D" -> "DERIVED" [] OTHER -> "EXTERNAL_INPUT"

ChannelSpec(c) ==
  LET b == CHOOSE d \in BLOCKS : d.prefix = c[1]
      value == b.register_base + INPUT_CHANNEL_REGISTERS * (c[2] - 1)
  IN  [value_register |-> value,
       name_register |-> value + VALUE_REGISTERS,
       unit_register |-> value + VALUE_REGISTERS + NAME_REGISTERS,
       status_discrete |-> b.discrete_base + DISCRETE_BITS * (c[2] - 1)]

\* Data-model numbers to addresses on the wire.  The analyser's own discretes
\* share the discrete-input space of the channels.
InputPdu(n) == n - 30001
DiscretePdu(n) == n - 10001
ValuePdu(c) == InputPdu(ChannelSpec(c).value_register)
NamePdu(c) == InputPdu(ChannelSpec(c).name_register)
UnitPdu(c) == InputPdu(ChannelSpec(c).unit_register)
StatusPdu(c) == DiscretePdu(ChannelSpec(c).status_discrete)
AnalyserPdu == DiscretePdu(11001)
CalGroupPdu == DiscretePdu(11009)

-----------------------------------------------------------------------------
\* Decoding.  Bits are counted from zero, as in the source.

Clear == <<>> \* the flag of a bit that is not looked at

Bit(bits, i) == IF i < Len(bits) THEN bits[i + 1] ELSE Clear

\* Bit 0 of an external input is "invalid", bits 1 to 3 are reserved.
DiscreteStatus(bits, kind) ==
  LET Plain(i) == IF kind = "EXTERNAL_INPUT" THEN Clear ELSE Bit(bits, i)
  IN  [fault |-> Bit(bits, 0),
       maintenance |-> Plain(1),
       calibrating |-> Plain(2),
       warming_up |-> Plain(3),
       alarms |-> [a \in 1..4 |-> Bit(bits, 3 + a)]]

AnalyserStatus(bits) ==
  LET groups == SubSeq(bits, 9, ANALYSER_BLOCK)
  IN  [fault |-> bits[1],
       maintenance |-> bits[2],
       cal_groups |-> [g \in 1..CAL_GROUPS |->
         [calibrating |-> Bit(groups, 2 * (g - 1)),
          cal_gas |-> IF Bit(groups, 2 * (g - 1) + 1) THEN 2 ELSE 1]]]

CalIndex(group) == 2 * (group - 1)

\* CalibrationProgress of a group, from the eight discretes of the groups.
CalProgress(group, bits) ==
  LET Lit(i) == i < Len(bits) /\ bits[i + 1]
      calibrating == Lit(CalIndex(group))
      gas2 == Lit(CalIndex(group) + 1)
  IN  [active |-> calibrating,
       phase |-> IF ~calibrating THEN "IDLE" ELSE IF gas2 THEN "CAL_GAS_2" ELSE "CAL_GAS_1"]
=============================================================================

------------------------------ MODULE ReadPlan ------------------------------
(***************************************************************************)
(* protocol/modbus/read_plan.py: _coalesce() merges the register spans of  *)
(* the requested channels, at least one, into block reads, one loop        *)
(* iteration per step.                                                     *)
(* plan_input_reads and plan_status_reads differ in Width and in where the *)
(* spans start (protocol/modbus/registers.py, registry/channels.py).       *)
(*                                                                         *)
(* A span is named by its first address; a run of spans becomes one block  *)
(* read of the addresses base..end-1, and the slice of a channel inside    *)
(* the block is at offset span - base.                                     *)
(***************************************************************************)
EXTENDS Integers, FiniteSets

CONSTANTS
  Spans,   \* value_pdu or status_pdu of every channel
  Width,   \* INPUT_CHANNEL_REGISTERS or DISCRETE_BITS
  Policies \* policies for one of the two tables

\* _validate raises at import when the ranges of two channels overlap.
NoOverlap == \A a, b \in Spans : a < b => a + Width <= b

\* What __post_init__ lets through.
ReadCoalescingPolicy == [max_gap : Nat, max_count : Nat \ {0}]

ASSUME ReadPlanAssumption ==
  /\ Spans \subseteq Nat /\ IsFiniteSet(Spans)
  /\ Width \in Nat \ {0}
  /\ NoOverlap
  /\ Policies \subseteq ReadCoalescingPolicy

VARIABLES
  policy,   \* the policy of this plan
  channels, \* the spans to plan for
  ordered,  \* the part of the sorted spans the loop has not reached
  runs,     \* finished blocks
  run,      \* the block being built
  done      \* the last run has been appended

vars == <<policy, channels, ordered, runs, run, done>>

SpanRun(s) == [base |-> s, end |-> s + Width, spans |-> {s}]

First(s, S) == s \in S /\ \A u \in S : s <= u

Init ==
  /\ policy \in Policies
  /\ channels \in SUBSET Spans
  /\ \E s \in channels :
       /\ First(s, channels)
       /\ run = SpanRun(s)
       /\ ordered = channels \ {s}
  /\ runs = {}
  /\ done = FALSE

Larger(a, b) == IF a < b THEN b ELSE a

\* Mutant of Joins: an exclusive count limit.
JoinsBelowCount(s) ==
  /\ s - run.end <= policy.max_gap
  /\ Larger(run.end, s + Width) - run.base < policy.max_count

\* The span joins the run: the gap and the merged block are within the policy.
Joins(s) ==
  /\ s - run.end <= policy.max_gap
  /\ Larger(run.end, s + Width) - run.base <= policy.max_count

Extend(s) ==
  /\ First(s, ordered)
  /\ Joins(s)
  /\ run' = [run EXCEPT !.end = Larger(@, s + Width), !.spans = @ \cup {s}]
  /\ ordered' = ordered \ {s}
  /\ UNCHANGED <<policy, channels, runs, done>>

\* Mutant of Cut: the finished run is forgotten.
CutForgets(s) ==
  /\ First(s, ordered)
  /\ ~Joins(s)
  /\ run' = SpanRun(s)
  /\ ordered' = ordered \ {s}
  /\ UNCHANGED <<policy, channels, runs, done>>

\* Otherwise the run is finished and the span opens the next one.
Cut(s) ==
  /\ First(s, ordered)
  /\ ~Joins(s)
  /\ runs' = runs \cup {run}
  /\ run' = SpanRun(s)
  /\ ordered' = ordered \ {s}
  /\ UNCHANGED <<policy, channels, done>>

Finish ==
  /\ ordered = {}
  /\ ~done
  /\ runs' = runs \cup {run}
  /\ done' = TRUE
  /\ UNCHANGED <<policy, channels, ordered, run>>

Next == (\E s \in Spans : Extend(s) \/ Cut(s)) \/ Finish

Spec == Init /\ [][Next]_vars

\* Where the words of a channel start in the response of its block.
Offset(b, s) == s - b.base

-----------------------------------------------------------------------------
\* Properties

Blocks == runs \cup {run}

TypeOK ==
  /\ policy \in Policies
  /\ channels \in SUBSET Spans
  /\ ordered \in SUBSET Spans
  /\ runs \in SUBSET [base : Nat, end : Nat, spans : SUBSET Spans]
  /\ run \in [base : Nat, end : Nat, spans : SUBSET Spans]
  /\ done \in BOOLEAN

\* Every requested channel is in exactly one block or still to come, and no
\* other channel is in any: each gets its words once (modbus/client.py:351).
EachChannelOnce ==
  /\ channels = ordered \cup UNION {b.spans : b \in Blocks}
  /\ \A b \in Blocks : b.spans \cap ordered = {}
  /\ \A b, c \in Blocks : b # c => b.spans \cap c.spans = {}

\* The slice of a channel lies inside the response of its block, so no reading
\* is decoded from a short slice or from a neighbour's registers.
SlicesInside ==
  \A b \in Blocks : \A s \in b.spans :
    Offset(b, s) >= 0 /\ Offset(b, s) + Width <= b.end - b.base

\* A block that merges channels keeps the policy's count; a block of one
\* channel is as long as the channel whatever the policy says.
CountBounded ==
  \A b \in Blocks :
    b.end - b.base <= policy.max_count \/ \E s \in Spans : b = SpanRun(s)

\* No address is read twice in a sweep.
BlocksDisjoint ==
  \A b, c \in Blocks : b # c => b.end <= c.base \/ c.end <= b.base

\* "Whether the policy forbids reads across address gaps" (read_plan.py:45):
\* the strict policy reads no address that belongs to no requested channel,
\* which is why the fallback to it can help an analyser with gaps.
StrictReadsNoGap ==
  policy.max_gap = 0 =>
    \A b \in Blocks : \A a \in b.base..(b.end - 1) :
      \E s \in b.spans : s <= a /\ a < s + Width

\* Every block is one the policy allows.
PolicyObeyed == CountBounded /\ StrictReadsNoGap

\* What ModbusClient relies on when it reads the blocks of a plan and slices
\* their responses (modbus/client.py:351-355, 362-365).
PlanSound == EachChannelOnce /\ SlicesInside /\ PolicyObeyed

\* "The fewest FC04/FC02 block reads allowed by a coalescing policy"
\* (read_plan.py:4-5), against all ways to cut the sorted spans.
BlockFrom(c, cuts) == {s \in channels : c <= s /\ \A d \in cuts : d > c => s < d}
Allowed(B) ==
  \/ Cardinality(B) = 1
  \/ /\ \A s, u \in B : u + Width - s <= policy.max_count
     /\ \A s \in B : \/ \A u \in B : s <= u
                     \/ \E u \in B : u < s /\ s - (u + Width) <= policy.max_gap
Cuttings ==
  {cuts \in SUBSET channels :
     /\ \A s \in channels : \E c \in cuts : c <= s
     /\ \A c \in cuts : Allowed(BlockFrom(c, cuts))}
Fewest == done => \A cuts \in Cuttings : Cardinality(runs) <= Cardinality(cuts)
=============================================================================

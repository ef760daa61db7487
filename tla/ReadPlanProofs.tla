--------------------------- MODULE ReadPlanProofs ---------------------------
(***************************************************************************)
(* Theorems of ReadPlan, for every table of channels that do not overlap,  *)
(* every width and every policy.                                           *)
(*                                                                         *)
(* The properties of the blocks are not inductive: that the next span lies *)
(* beyond all of them, and that the blocks lie one after the other, is     *)
(* what keeps a span from landing in two blocks or a block from growing    *)
(* into another.  That no plan is shorter rests on the loop being greedy:  *)
(* by the time it starts a block every other plan has started as many      *)
(* (Reached).                                                              *)
(***************************************************************************)
EXTENDS ReadPlan, FiniteSetTheorems, TLAPS

\* The spans the loop has not reached lie beyond the run.
Ahead == \A s \in ordered : run.end <= s

\* The finished blocks lie before the run, and the run is one at the end.
Behind == \A b \in runs : (done /\ b = run) \/ b.end <= run.base

Proper == \A b \in Blocks : b.base < b.end

Complete == done => ordered = {} /\ run \in runs

IInv ==
  /\ TypeOK
  /\ EachChannelOnce
  /\ SlicesInside
  /\ CountBounded
  /\ BlocksDisjoint
  /\ StrictReadsNoGap
  /\ Ahead
  /\ Behind
  /\ Proper
  /\ Complete

-----------------------------------------------------------------------------

\* What the channel tables give: natural addresses, a positive width, and no
\* overlap (registry/channels.py:126-146).
LEMMA Tables ==
  /\ Spans \subseteq Nat
  /\ Width \in Nat \ {0}
  /\ \A a, b \in Spans : a < b => a + Width <= b
  /\ Policies \subseteq [max_gap : Nat, max_count : Nat \ {0}]
BY ReadPlanAssumption DEF NoOverlap, ReadCoalescingPolicy

\* A span as a run of its own: read_plan.py:167-169 and 179-181 build it.
LEMMA SpanRunFacts ==
  ASSUME NEW s \in Spans
  PROVE  /\ SpanRun(s) \in [base : Nat, end : Nat, spans : SUBSET Spans]
         /\ SpanRun(s).base = s
         /\ SpanRun(s).end = s + Width
         /\ SpanRun(s).spans = {s}
         /\ s \in Nat /\ Width \in Nat /\ Width > 0
BY Tables DEF SpanRun

\* The first run holds the first span alone (read_plan.py:165-169).
LEMMA InitIInv == Init => IInv
<1> SUFFICES ASSUME Init PROVE IInv
  OBVIOUS
<1>1. PICK s \in channels : /\ First(s, channels)
                            /\ run = SpanRun(s)
                            /\ ordered = channels \ {s}
  BY DEF Init
<1>2. /\ runs = {} /\ done = FALSE /\ policy \in Policies
      /\ channels \in SUBSET Spans /\ s \in Spans
  BY <1>1 DEF Init
<1>3. /\ run \in [base : Nat, end : Nat, spans : SUBSET Spans]
      /\ run.base = s /\ run.end = s + Width /\ run.spans = {s}
      /\ s \in Nat /\ Width \in Nat /\ Width > 0
  BY <1>1, <1>2, SpanRunFacts
<1>4. Blocks = {run}
  BY <1>2 DEF Blocks
<1>5. TypeOK
  BY <1>1, <1>2, <1>3 DEF TypeOK
<1>6. EachChannelOnce
  BY <1>1, <1>3, <1>4 DEF EachChannelOnce
<1>7. SlicesInside /\ Proper
  BY <1>3, <1>4 DEF SlicesInside, Offset, Proper
<1>8. CountBounded
  BY <1>1, <1>2, <1>4 DEF CountBounded
<1>9. BlocksDisjoint
  BY <1>4 DEF BlocksDisjoint
<1>10. StrictReadsNoGap
  BY <1>3, <1>4 DEF StrictReadsNoGap
<1>11. Ahead
  <2> SUFFICES ASSUME NEW u \in ordered PROVE run.end <= u
    BY DEF Ahead
  <2>1. u \in Spans /\ u # s /\ s <= u /\ u \in Nat
    BY <1>1, <1>2, Tables DEF First
  <2> QED
    BY <2>1, <1>2, <1>3, Tables
<1>12. Behind /\ Complete
  BY <1>2 DEF Behind, Complete
<1> QED
  BY <1>5, <1>6, <1>7, <1>8, <1>9, <1>10, <1>11, <1>12 DEF IInv

\* What every iteration knows of the span it looks at: it is the least to
\* come, so that the others lie beyond it, and every block lies before it.
LEMMA NextSpan ==
  ASSUME IInv, NEW s \in Spans, First(s, ordered)
  PROVE  /\ ~done
         /\ s \in ordered /\ s \in Nat /\ Width \in Nat /\ Width > 0
         /\ run.base \in Nat /\ run.end \in Nat /\ run.base < run.end
         /\ run.end <= s
         /\ \A b \in runs : b.base \in Nat /\ b.end \in Nat /\ b.base < b.end
         /\ \A b \in runs : b.end <= run.base
         /\ \A u \in ordered \ {s} : u \in Nat /\ s + Width <= u
         /\ policy.max_gap \in Nat /\ policy.max_count \in Nat
<1>1. s \in ordered /\ ~done
  BY DEF IInv, Complete, First
<1>2. s \in Nat /\ Width \in Nat /\ Width > 0
  BY Tables
<1>3. run.base \in Nat /\ run.end \in Nat
  BY DEF IInv, TypeOK
<1>4. run.base < run.end /\ \A b \in runs : b.base < b.end
  BY DEF IInv, Proper, Blocks
<1>5. run.end <= s
  BY <1>1 DEF IInv, Ahead
<1>6. \A b \in runs : b.base \in Nat /\ b.end \in Nat
  BY DEF IInv, TypeOK
<1>7. \A b \in runs : b.end <= run.base
  BY <1>1 DEF IInv, Behind
<1>8. \A u \in ordered \ {s} : u \in Nat /\ s + Width <= u
  <2> SUFFICES ASSUME NEW u \in ordered, u # s
               PROVE  u \in Nat /\ s + Width <= u
    OBVIOUS
  <2>1. u \in Spans /\ u \in Nat /\ s <= u
    BY Tables DEF IInv, TypeOK, First
  <2> QED
    BY <2>1, <1>2, Tables
<1>9. policy.max_gap \in Nat /\ policy.max_count \in Nat
  BY Tables DEF IInv, TypeOK
<1> QED
  BY <1>1, <1>2, <1>3, <1>4, <1>5, <1>6, <1>7, <1>8, <1>9

-----------------------------------------------------------------------------

\* The span joins the run: only the run changes, and it grows to its end.
LEMMA ExtendIInv ==
  ASSUME IInv, NEW s \in Spans, Extend(s)
  PROVE  IInv'
<1>1. /\ ~done
      /\ s \in ordered /\ s \in Nat /\ Width \in Nat /\ Width > 0
      /\ run.base \in Nat /\ run.end \in Nat /\ run.base < run.end
      /\ run.end <= s
      /\ \A b \in runs : b.base \in Nat /\ b.end \in Nat /\ b.base < b.end
      /\ \A b \in runs : b.end <= run.base
      /\ \A u \in ordered \ {s} : u \in Nat /\ s + Width <= u
      /\ policy.max_gap \in Nat /\ policy.max_count \in Nat
  BY NextSpan DEF Extend
<1>2. /\ s - run.end <= policy.max_gap
      /\ s + Width - run.base <= policy.max_count
  BY <1>1 DEF Extend, Joins, Larger
<1>3. run \in [base : Nat, end : Nat, spans : SUBSET Spans]
  BY DEF IInv, TypeOK
<1>4. /\ run'.base = run.base
      /\ run'.end = s + Width
      /\ run'.spans = run.spans \cup {s}
      /\ run' \in [base : Nat, end : Nat, spans : SUBSET Spans]
  <2>1. Larger(run.end, s + Width) = s + Width /\ s + Width \in Nat
    BY <1>1 DEF Larger
  <2>2. run' = [run EXCEPT !.end = s + Width, !.spans = run.spans \cup {s}]
    BY <2>1 DEF Extend
  <2> QED
    BY <2>1, <2>2, <1>3
<1>5. /\ ordered' = ordered \ {s} /\ runs' = runs /\ done' = done
      /\ policy' = policy /\ channels' = channels
  BY DEF Extend
<1>6. Blocks = runs \cup {run} /\ Blocks' = runs \cup {run'}
  BY <1>5 DEF Blocks
<1>7. run \notin runs
  BY <1>1
<1>8. TypeOK'
  BY <1>4, <1>5 DEF IInv, TypeOK
<1>9. EachChannelOnce'
  <2>1. /\ channels = ordered \cup UNION {b.spans : b \in Blocks}
        /\ \A b \in Blocks : b.spans \cap ordered = {}
        /\ \A b, c \in Blocks : b # c => b.spans \cap c.spans = {}
    BY DEF IInv, EachChannelOnce
  <2>2. UNION {b.spans : b \in Blocks'} = (UNION {b.spans : b \in Blocks}) \cup {s}
    BY <1>4, <1>6
  <2>3. channels' = ordered' \cup UNION {b.spans : b \in Blocks'}
    BY <2>1, <2>2, <1>1, <1>5
  <2>4. \A b \in Blocks' : b.spans \cap ordered' = {}
    BY <2>1, <1>4, <1>5, <1>6
  <2>5. \A b \in runs : b.spans \cap run.spans = {} /\ s \notin b.spans
    BY <2>1, <1>1, <1>6, <1>7
  <2>6. \A b, c \in Blocks' : b # c => b.spans \cap c.spans = {}
    BY <2>1, <2>5, <1>4, <1>6
  <2> QED
    BY <2>3, <2>4, <2>6 DEF EachChannelOnce
<1>10. SlicesInside'
  <2>1. \A u \in run.spans : u \in Nat /\ run.base <= u /\ u + Width <= run.end
    BY <1>1, <1>3, <1>6, Tables DEF IInv, SlicesInside, Offset
  <2>2. \A u \in run'.spans :
          Offset(run', u) >= 0 /\ Offset(run', u) + Width <= run'.end - run'.base
    BY <2>1, <1>1, <1>4 DEF Offset
  <2> QED
    BY <2>2, <1>6 DEF IInv, SlicesInside, Offset
<1>11. CountBounded'
  <2>1. run'.end - run'.base <= policy'.max_count
    BY <1>1, <1>2, <1>4, <1>5
  <2>2. \A b \in runs : \/ b.end - b.base <= policy'.max_count
                        \/ \E u \in Spans : b = SpanRun(u)
    BY <1>5, <1>6 DEF IInv, CountBounded
  <2> QED
    BY <2>1, <2>2, <1>6 DEF CountBounded, SpanRun
<1>12. BlocksDisjoint'
  BY <1>1, <1>4, <1>6 DEF IInv, BlocksDisjoint
<1>13. StrictReadsNoGap'
  <2> SUFFICES ASSUME policy.max_gap = 0
               PROVE  \A b \in Blocks' : \A a \in b.base..(b.end - 1) :
                        \E u \in b.spans : u <= a /\ a < u + Width
    BY <1>5 DEF StrictReadsNoGap
  <2>1. \A b \in Blocks : \A a \in b.base..(b.end - 1) :
          \E u \in b.spans : u <= a /\ a < u + Width
    BY DEF IInv, StrictReadsNoGap
  <2>2. s = run.end
    BY <1>1, <1>2
  <2>3. ASSUME NEW a \in run.base..(s + Width - 1)
        PROVE  \E u \in run.spans \cup {s} : u <= a /\ a < u + Width
    <3>1. CASE a < run.end
      <4>1. a \in run.base..(run.end - 1)
        BY <3>1, <1>1
      <4> QED
        BY <4>1, <2>1, <1>6
    <3>2. CASE a >= run.end
      BY <3>2, <2>2, <1>1
    <3> QED
      BY <3>1, <3>2, <1>1
  <2>4. \A a \in run'.base..(run'.end - 1) :
          \E u \in run'.spans : u <= a /\ a < u + Width
    <3> TAKE a \in run'.base..(run'.end - 1)
    <3>1. a \in run.base..(s + Width - 1)
      BY <1>1, <1>4
    <3>2. PICK u \in run.spans \cup {s} : u <= a /\ a < u + Width
      BY <3>1, <2>3
    <3>3. u \in run'.spans
      BY <3>2, <1>4
    <3> QED
      BY <3>2, <3>3
  <2> TAKE b \in Blocks'
  <2>5. CASE b = run'
    BY <2>4, <2>5
  <2>6. CASE b \in runs
    BY <2>1, <2>6, <1>6
  <2> QED
    BY <2>5, <2>6, <1>6
<1>14. Ahead' /\ Complete'
  BY <1>1, <1>4, <1>5 DEF Ahead, Complete
<1>15. Behind'
  BY <1>1, <1>4, <1>5 DEF Behind
<1>16. Proper'
  BY <1>1, <1>4, <1>6 DEF Proper
<1> QED
  BY <1>8, <1>9, <1>10, <1>11, <1>12, <1>13, <1>14, <1>15, <1>16 DEF IInv

\* The run is finished and the span opens the next one, beyond all blocks.
LEMMA CutIInv ==
  ASSUME IInv, NEW s \in Spans, Cut(s)
  PROVE  IInv'
<1>1. /\ ~done
      /\ s \in ordered /\ s \in Nat /\ Width \in Nat /\ Width > 0
      /\ run.base \in Nat /\ run.end \in Nat /\ run.base < run.end
      /\ run.end <= s
      /\ \A b \in runs : b.base \in Nat /\ b.end \in Nat /\ b.base < b.end
      /\ \A b \in runs : b.end <= run.base
      /\ \A u \in ordered \ {s} : u \in Nat /\ s + Width <= u
      /\ policy.max_gap \in Nat /\ policy.max_count \in Nat
  BY NextSpan DEF Cut
<1>2. /\ run' = SpanRun(s)
      /\ run'.base = s /\ run'.end = s + Width /\ run'.spans = {s}
      /\ run' \in [base : Nat, end : Nat, spans : SUBSET Spans]
  BY SpanRunFacts DEF Cut
<1>3. /\ ordered' = ordered \ {s} /\ runs' = runs \cup {run} /\ done' = done
      /\ policy' = policy /\ channels' = channels
  BY DEF Cut
<1>4. Blocks = runs \cup {run} /\ Blocks' = Blocks \cup {run'}
  BY <1>3 DEF Blocks
<1>5. \A b \in Blocks : b.base \in Nat /\ b.end \in Nat /\ b.end <= s
  BY <1>1, <1>4
<1>6. TypeOK'
  BY <1>2, <1>3 DEF IInv, TypeOK
<1>7. EachChannelOnce'
  <2>1. /\ channels = ordered \cup UNION {b.spans : b \in Blocks}
        /\ \A b \in Blocks : b.spans \cap ordered = {}
        /\ \A b, c \in Blocks : b # c => b.spans \cap c.spans = {}
    BY DEF IInv, EachChannelOnce
  <2>2. UNION {b.spans : b \in Blocks'} = (UNION {b.spans : b \in Blocks}) \cup {s}
    BY <1>2, <1>4
  <2>3. channels' = ordered' \cup UNION {b.spans : b \in Blocks'}
    BY <2>1, <2>2, <1>1, <1>3
  <2>4. \A b \in Blocks' : b.spans \cap ordered' = {}
    BY <2>1, <1>2, <1>3, <1>4
  <2>5. \A b \in Blocks : s \notin b.spans
    BY <2>1, <1>1
  <2>6. \A b, c \in Blocks' : b # c => b.spans \cap c.spans = {}
    BY <2>1, <2>5, <1>2, <1>4
  <2> QED
    BY <2>3, <2>4, <2>6 DEF EachChannelOnce
<1>8. SlicesInside'
  BY <1>1, <1>2, <1>4 DEF IInv, SlicesInside, Offset
<1>9. CountBounded'
  BY <1>2, <1>3, <1>4 DEF IInv, CountBounded, SpanRun
<1>10. BlocksDisjoint'
  BY <1>2, <1>4, <1>5 DEF IInv, BlocksDisjoint
<1>11. StrictReadsNoGap'
  <2>1. \A a \in run'.base..(run'.end - 1) :
          \E u \in run'.spans : u <= a /\ a < u + Width
    BY <1>1, <1>2
  <2> QED
    BY <2>1, <1>3, <1>4 DEF IInv, StrictReadsNoGap
<1>12. Ahead' /\ Complete'
  BY <1>1, <1>2, <1>3 DEF Ahead, Complete
<1>13. Behind'
  BY <1>2, <1>3, <1>4, <1>5 DEF Behind
<1>14. Proper'
  BY <1>1, <1>2, <1>4 DEF IInv, Proper
<1> QED
  BY <1>6, <1>7, <1>8, <1>9, <1>10, <1>11, <1>12, <1>13, <1>14 DEF IInv

\* The last run is appended (read_plan.py:183-184).
LEMMA FinishIInv == ASSUME IInv, Finish PROVE IInv'
<1>1. Blocks' = Blocks
  BY DEF Finish, Blocks
<1>2. TypeOK'
  BY DEF IInv, TypeOK, Finish
<1>3. /\ EachChannelOnce' /\ SlicesInside' /\ CountBounded' /\ BlocksDisjoint'
      /\ StrictReadsNoGap' /\ Proper'
  BY <1>1 DEF IInv, Finish, EachChannelOnce, SlicesInside, CountBounded,
              BlocksDisjoint, StrictReadsNoGap, Proper
<1>4. Ahead' /\ Complete'
  BY DEF IInv, Finish, Ahead, Complete
<1>5. Behind'
  BY DEF IInv, Finish, Behind
<1> QED
  BY <1>2, <1>3, <1>4, <1>5 DEF IInv

\* Every iteration of the loop keeps the invariant.
LEMMA NextIInv == IInv /\ [Next]_vars => IInv'
<1> SUFFICES ASSUME IInv, [Next]_vars PROVE IInv'
  OBVIOUS
<1>1. CASE \E s \in Spans : Extend(s)
  BY <1>1, ExtendIInv
<1>2. CASE \E s \in Spans : Cut(s)
  BY <1>2, CutIInv
<1>3. CASE Finish
  BY <1>3, FinishIInv
<1>4. CASE UNCHANGED vars
  BY <1>4 DEF vars, IInv, TypeOK, EachChannelOnce, SlicesInside, CountBounded,
              BlocksDisjoint, StrictReadsNoGap, Ahead, Behind, Proper, Complete, Blocks
<1> QED
  BY <1>1, <1>2, <1>3, <1>4 DEF Next

\* The inductive invariant holds all along the loop of _coalesce
\* (read_plan.py:156-184).
THEOREM Invariance == Spec => []IInv
BY InitIInv, NextIInv, PTL DEF Spec

\* The state of the loop keeps its types: addresses and counts never become
\* negative (read_plan.py:156-184).
THEOREM TypeCorrect == Spec => []TypeOK
BY Invariance, PTL DEF IInv

\* Each requested channel is in exactly one block read and gets its words once,
\* for every channel table and policy.
THEOREM PlanCoversOnce == Spec => []EachChannelOnce
BY Invariance, PTL DEF IInv

\* Every slice lies inside its block's response, and no register is read twice
\* in one sweep.
THEOREM PlanSlicesInside == Spec => [](SlicesInside /\ BlocksDisjoint)
BY Invariance, PTL DEF IInv

\* No merged block is longer than the policy allows, and the strict policy
\* reads no register between channels.
THEOREM PlanObeysPolicy == Spec => []PolicyObeyed
BY Invariance, PTL DEF IInv, PolicyObeyed

\* A plan is sound for every table without overlap and every policy: the blocks
\* hold each channel once, whole, within the policy (read_plan.py:156-184).
THEOREM PlanIsSound == Spec => []PlanSound
BY PlanCoversOnce, PlanSlicesInside, PlanObeysPolicy, PTL DEF PlanSound

-----------------------------------------------------------------------------
\* The fewest blocks: the loop stays ahead of every other way to cut.

\* As many of the cuts as there are blocks have come by the start of the run,
\* and one of them is the latest the loop has reached.
Reached(cuts) ==
  /\ Cardinality(Blocks) <= Cardinality({d \in cuts : d <= run.base})
  /\ \E c \in cuts : c < run.end /\ \A d \in cuts : d < run.end => d <= c

Greedy ==
  /\ run.base \in run.spans
  /\ IsFiniteSet(Blocks)
  /\ done => runs = Blocks
  /\ \A cuts \in Cuttings : Reached(cuts)

\* The channels the loop has reached end by the end of the run.
LEMMA Seen ==
  ASSUME IInv
  PROVE  /\ channels \subseteq Nat /\ IsFiniteSet(channels)
         /\ \A u \in channels \ ordered : u + Width <= run.end /\ u < run.end
         /\ \A u \in ordered : run.end <= u
<1>1. /\ channels \subseteq Spans /\ Spans \subseteq Nat /\ IsFiniteSet(Spans)
      /\ Width \in Nat \ {0}
  BY ReadPlanAssumption DEF IInv, TypeOK
<1>2. channels \subseteq Nat /\ IsFiniteSet(channels)
  BY <1>1, FS_Subset
<1>3. ASSUME NEW u \in channels \ ordered
      PROVE  u + Width <= run.end /\ u < run.end
  <2>1. PICK b \in Blocks : u \in b.spans
    BY DEF IInv, EachChannelOnce
  <2>2. /\ b.base \in Nat /\ b.end \in Nat /\ run.base \in Nat /\ run.end \in Nat
        /\ run.base < run.end /\ (b = run \/ b.end <= run.base)
    BY DEF IInv, TypeOK, Blocks, Proper, Behind
  <2>3. (u - b.base) + Width <= b.end - b.base
    BY <2>1 DEF IInv, SlicesInside, Offset
  <2>4. u \in Nat /\ Width \in Nat /\ Width > 0
    BY <1>1, <1>2
  <2>5. u + Width <= b.end
    BY <2>2, <2>3, <2>4
  <2>6. b.end <= run.end
    BY <2>2
  <2> QED
    BY <2>2, <2>4, <2>5, <2>6
<1> QED
  BY <1>2, <1>3 DEF IInv, Ahead

LEMMA CutFacts ==
  ASSUME IInv, NEW cuts \in Cuttings
  PROVE  /\ cuts \subseteq channels /\ cuts \subseteq Nat /\ IsFiniteSet(cuts)
         /\ \A n \in Nat : IsFiniteSet({d \in cuts : d <= n})
<1>1. cuts \subseteq channels
  BY DEF Cuttings
<1>2. cuts \subseteq Nat /\ IsFiniteSet(cuts)
  BY <1>1, Seen, FS_Subset
<1>3. ASSUME NEW n \in Nat PROVE IsFiniteSet({d \in cuts : d <= n})
  BY <1>2, FS_Subset
<1> QED
  BY <1>1, <1>2, <1>3

\* The first span is a cut of every cutting.
LEMMA InitGreedy == ASSUME Init, IInv PROVE Greedy
<1>1. PICK s \in channels : First(s, channels) /\ run = SpanRun(s) /\ ordered = channels \ {s}
  BY DEF Init
<1>2. /\ runs = {} /\ done = FALSE /\ s \in Spans /\ Blocks = {run}
  BY <1>1 DEF Init, Blocks, IInv, TypeOK
<1>3. /\ run.base = s /\ run.end = s + Width /\ run.spans = {s}
      /\ s \in Nat /\ Width \in Nat /\ Width > 0
  BY <1>1, <1>2, SpanRunFacts
<1>4. IsFiniteSet(Blocks) /\ Cardinality(Blocks) = 1
  BY <1>2, FS_Singleton
<1>5. ASSUME NEW cuts \in Cuttings
      PROVE  Reached(cuts)
  <2>1. s \in cuts
    <3>1. PICK c \in cuts : c <= s
      BY DEF Cuttings
    <3>2. c \in channels /\ c \in Nat /\ s <= c
      BY <1>1, CutFacts DEF First
    <3> QED
      BY <1>3, <3>1, <3>2
  <2>2. \A d \in cuts : d \in Nat /\ (d < s + Width => d <= s)
    <3> SUFFICES ASSUME NEW d \in cuts PROVE d \in Nat /\ (d < s + Width => d <= s)
      OBVIOUS
    <3>1. d \in channels /\ d \in Nat /\ s <= d
      BY <1>1, CutFacts DEF First
    <3>2. d = s \/ d \in ordered
      BY <1>1, <3>1
    <3> QED
      BY <1>3, <3>1, <3>2, Seen
  <2>3. Cardinality({d \in cuts : d <= s}) >= 1
    <3>1. IsFiniteSet({d \in cuts : d <= s}) /\ {s} \in SUBSET {d \in cuts : d <= s}
      BY <1>3, <2>1, CutFacts
    <3>2. Cardinality({s}) = 1
      BY FS_Singleton
    <3> QED
      BY <3>1, <3>2, FS_Subset, FS_CardinalityType
  <2> QED
    BY <1>3, <1>4, <2>1, <2>2, <2>3 DEF Reached
<1> QED
  BY <1>2, <1>3, <1>4, <1>5 DEF Greedy

\* The latest cut moves to a span that is one, and stays otherwise.
LEMMA LatestCut ==
  ASSUME IInv, Greedy, NEW cuts \in Cuttings, NEW s \in Spans, First(s, ordered)
  PROVE  \E c \in cuts : c <= s /\ \A d \in cuts : d < s + Width => d <= c
<1>1. /\ s \in ordered /\ s \in Nat /\ Width \in Nat /\ Width > 0
      /\ run.end \in Nat /\ run.end <= s /\ \A u \in ordered \ {s} : u \in Nat /\ s + Width <= u
  BY NextSpan
<1>2. PICK c \in cuts : c < run.end /\ \A d \in cuts : d < run.end => d <= c
  BY DEF Greedy, Reached
<1>3. c \in Nat
  BY CutFacts
<1>4. \A d \in cuts : d \in Nat /\ (d < s + Width => d < run.end \/ d = s)
  <2> TAKE d \in cuts
  <2>1. d \in channels /\ d \in Nat
    BY CutFacts
  <2>2. CASE d \in ordered
    BY <1>1, <2>1, <2>2
  <2>3. CASE d \notin ordered
    BY <2>1, <2>3, Seen
  <2> QED
    BY <2>2, <2>3
<1>5. CASE s \in cuts
  BY <1>1, <1>4, <1>5
<1>6. CASE s \notin cuts
  <2>1. \A d \in cuts : d < s + Width => d <= c
    BY <1>2, <1>4, <1>6
  <2>2. c <= s
    BY <1>1, <1>2, <1>3
  <2> QED
    BY <2>1, <2>2
<1> QED
  BY <1>5, <1>6

LEMMA ExtendGreedy ==
  ASSUME IInv, Greedy, NEW s \in Spans, Extend(s)
  PROVE  Greedy'
<1>1. /\ ~done /\ s \in Nat /\ Width \in Nat /\ run.base \in Nat /\ run.end \in Nat
      /\ run.base < run.end /\ run.end <= s
  BY NextSpan DEF Extend
<1>2. /\ run'.base = run.base /\ run'.end = s + Width /\ run'.spans = run.spans \cup {s}
      /\ run \in [base : Nat, end : Nat, spans : SUBSET Spans]
  <2>1. run \in [base : Nat, end : Nat, spans : SUBSET Spans]
    BY DEF IInv, TypeOK
  <2>2. Larger(run.end, s + Width) = s + Width
    BY <1>1 DEF Larger
  <2>3. run' = [run EXCEPT !.end = s + Width, !.spans = run.spans \cup {s}]
    BY <2>2 DEF Extend
  <2> QED
    BY <2>1, <2>3
<1>3. /\ runs' = runs /\ done' = done /\ policy' = policy /\ channels' = channels
      /\ Blocks = runs \cup {run} /\ Blocks' = runs \cup {run'} /\ run \notin runs
  BY <1>1, NextSpan DEF Extend, Blocks
<1>4. IsFiniteSet(runs) /\ Cardinality(Blocks) = Cardinality(runs) + 1
  <2>1. IsFiniteSet(runs)
    <3>1. IsFiniteSet(Blocks) /\ runs \in SUBSET Blocks
      BY <1>3 DEF Greedy
    <3> QED
      BY <3>1, FS_Subset
  <2> QED
    BY <1>3, <2>1, FS_AddElement
<1>5. IsFiniteSet(Blocks') /\ Cardinality(Blocks') <= Cardinality(Blocks)
  <2>1. PICK r : r = run'
    OBVIOUS
  <2>2. Cardinality(runs) \in Nat
    BY <1>4, FS_CardinalityType
  <2>3. IsFiniteSet(runs \cup {r}) /\ Cardinality(runs \cup {r}) <= Cardinality(runs) + 1
    BY <1>4, <2>2, FS_AddElement
  <2> QED
    BY <1>3, <1>4, <2>1, <2>3
<1>6. Cuttings' = Cuttings
  BY <1>3 DEF Cuttings, Allowed, BlockFrom
<1>7. ASSUME NEW cuts \in Cuttings PROVE Reached(cuts)'
  <2>1. PICK c \in cuts : c <= s /\ \A d \in cuts : d < s + Width => d <= c
    BY LatestCut DEF Extend
  <2>2. c < s + Width
    BY <1>1, <2>1, CutFacts, Tables
  <2>3. Cardinality(Blocks') <= Cardinality({d \in cuts : d <= run.base})
    <3>1. /\ Cardinality({d \in cuts : d <= run.base}) \in Nat
          /\ Cardinality(Blocks) \in Nat /\ Cardinality(Blocks') \in Nat
      BY <1>1, <1>5, CutFacts, FS_CardinalityType DEF Greedy
    <3>2. Cardinality(Blocks) <= Cardinality({d \in cuts : d <= run.base})
      BY DEF Greedy, Reached
    <3> QED
      BY <1>5, <3>1, <3>2
  <2> QED
    BY <1>2, <2>1, <2>2, <2>3 DEF Reached
<1> QED
  BY <1>1, <1>2, <1>3, <1>5, <1>6, <1>7 DEF Greedy

\* A span that cannot join the run cannot be in one block with its first span:
\* every cutting has a cut between the two.
LEMMA CutBetween ==
  ASSUME IInv, Greedy, NEW cuts \in Cuttings, NEW s \in Spans, Cut(s)
  PROVE  \E c \in cuts : run.base < c /\ c <= s
<1>1. /\ s \in ordered /\ s \in Nat /\ Width \in Nat /\ Width > 0
      /\ run.base \in Nat /\ run.end \in Nat /\ run.base < run.end /\ run.end <= s
      /\ policy.max_gap \in Nat /\ policy.max_count \in Nat
  BY NextSpan DEF Cut
<1>2. PICK c \in cuts : c <= s /\ \A d \in cuts : d < s + Width => d <= c
  BY LatestCut DEF Cut
<1>3. c \in Nat /\ channels \subseteq Nat /\ cuts \subseteq channels
  BY CutFacts, Seen
<1> SUFFICES ASSUME c <= run.base PROVE FALSE
  BY <1>1, <1>2, <1>3
<1>4. PICK B : B = BlockFrom(c, cuts)
  OBVIOUS
<1>5. B \subseteq channels /\ IsFiniteSet(B) /\ Allowed(B)
  <2>1. B \subseteq channels
    BY <1>4 DEF BlockFrom
  <2> QED
    BY <1>4, <2>1, Seen, FS_Subset DEF Cuttings
<1>6. s \in channels /\ run.base \in channels
  BY <1>1 DEF IInv, EachChannelOnce, Greedy, Blocks
<1>7. \A d \in cuts : d > c => s + Width <= d
  BY <1>1, <1>2, <1>3
<1>8. s \in B /\ run.base \in B
  <2>1. \A d \in cuts : d > c => s < d /\ run.base < d
    BY <1>1, <1>3, <1>7
  <2> QED
    BY <1>2, <1>4, <1>6, <2>1 DEF BlockFrom
<1>9. Cardinality(B) # 1
  BY <1>1, <1>5, <1>8, FS_Singleton
<1>10. s + Width - run.base <= policy.max_count
  BY <1>5, <1>8, <1>9 DEF Allowed
<1>11. PICK u \in B : u < s /\ s - (u + Width) <= policy.max_gap
  <2>1. ~(\A u \in B : s <= u)
    BY <1>1, <1>8
  <2> QED
    BY <1>5, <1>8, <1>9, <2>1 DEF Allowed
<1>12. u \in Nat /\ u + Width <= run.end
  <2>1. u \in channels /\ u \in Nat
    BY <1>3, <1>5
  <2>2. u \notin ordered
    BY <1>1, <1>11, <2>1, Tables DEF Cut, First
  <2> QED
    BY <2>1, <2>2, Seen
<1>13. s - run.end <= policy.max_gap
  BY <1>1, <1>11, <1>12
<1>14. Joins(s)
  BY <1>1, <1>10, <1>13 DEF Joins, Larger
<1> QED
  BY <1>14 DEF Cut

LEMMA CutGreedy ==
  ASSUME IInv, Greedy, NEW s \in Spans, Cut(s)
  PROVE  Greedy'
<1>1. /\ ~done /\ s \in Nat /\ Width \in Nat /\ Width > 0 /\ run.base \in Nat /\ run.end \in Nat
      /\ run.base < run.end /\ run.end <= s
  BY NextSpan DEF Cut
<1>2. run'.base = s /\ run'.end = s + Width /\ run'.spans = {s}
  BY SpanRunFacts DEF Cut
<1>3. /\ done' = done /\ policy' = policy /\ channels' = channels
      /\ Blocks' = Blocks \cup {run'}
  BY DEF Cut, Blocks
<1>4. IsFiniteSet(Blocks') /\ Cardinality(Blocks') <= Cardinality(Blocks) + 1
  <2>1. IsFiniteSet(Blocks) /\ Cardinality(Blocks) \in Nat
    BY FS_CardinalityType DEF Greedy
  <2>2. PICK B, r : B = Blocks /\ r = run'
    OBVIOUS
  <2>3. IsFiniteSet(B \cup {r}) /\ Cardinality(B \cup {r}) <= Cardinality(B) + 1
    BY <2>1, <2>2, FS_AddElement
  <2> QED
    BY <1>3, <2>2, <2>3
<1>5. Cuttings' = Cuttings
  BY <1>3 DEF Cuttings, Allowed, BlockFrom
<1>6. ASSUME NEW cuts \in Cuttings PROVE Reached(cuts)'
  <2>1. PICK c \in cuts : c <= s /\ \A d \in cuts : d < s + Width => d <= c
    BY LatestCut DEF Cut
  <2>2. PICK e \in cuts : run.base < e /\ e <= s
    BY CutBetween
  <2>3. cuts \subseteq Nat
    BY CutFacts
  <2>4. PICK old, new : old = {d \in cuts : d <= run.base} /\ new = {d \in cuts : d <= s}
    OBVIOUS
  <2>5. IsFiniteSet(old) /\ IsFiniteSet(new) /\ Cardinality(Blocks) <= Cardinality(old)
    <3>1. IsFiniteSet(old) /\ IsFiniteSet(new)
      BY <1>1, <2>4, CutFacts
    <3>2. Cardinality(Blocks) <= Cardinality(old)
      BY <2>4 DEF Greedy, Reached
    <3> QED
      BY <3>1, <3>2
  <2>6. e \notin old /\ old \cup {e} \subseteq new
    <3>1. \A d \in cuts : d \in Nat /\ (d <= run.base => d <= s)
      BY <1>1, <2>3
    <3>2. ~(e <= run.base)
      BY <1>1, <2>2, <2>3
    <3> QED
      BY <2>2, <2>4, <3>1, <3>2, Zenon
  <2>7. Cardinality(old \cup {e}) = Cardinality(old) + 1
    BY <2>5, <2>6, FS_AddElement
  <2>8. Cardinality(old) + 1 <= Cardinality(new)
    BY <2>5, <2>6, <2>7, FS_Subset
  <2>9. Cardinality(Blocks') <= Cardinality(new)
    <3>1. /\ Cardinality(old) \in Nat /\ Cardinality(new) \in Nat
          /\ Cardinality(Blocks) \in Nat /\ Cardinality(Blocks') \in Nat
      BY <1>4, <2>5, FS_CardinalityType DEF Greedy
    <3> QED
      BY <1>4, <2>5, <2>8, <3>1
  <2>10. c < s + Width
    BY <1>1, <2>1, <2>3
  <2> QED
    BY <1>2, <2>1, <2>4, <2>9, <2>10 DEF Reached
<1> QED
  BY <1>1, <1>2, <1>3, <1>4, <1>5, <1>6 DEF Greedy

LEMMA NextGreedy == IInv /\ Greedy /\ [Next]_vars => Greedy'
<1> SUFFICES ASSUME IInv, Greedy, [Next]_vars PROVE Greedy'
  OBVIOUS
<1>1. CASE \E s \in Spans : Extend(s)
  BY <1>1, ExtendGreedy
<1>2. CASE \E s \in Spans : Cut(s)
  BY <1>2, CutGreedy
<1>3. CASE Finish \/ UNCHANGED vars
  <2>1. /\ Blocks' = Blocks /\ UNCHANGED <<policy, channels, run>>
        /\ (done => runs = Blocks)'
    BY <1>3 DEF Finish, vars, Blocks, Greedy
  <2>2. Cuttings' = Cuttings
    BY <2>1 DEF Cuttings, Allowed, BlockFrom
  <2> QED
    BY <2>1, <2>2 DEF Greedy, Reached
<1> QED
  BY <1>1, <1>2, <1>3 DEF Next

\* "The fewest FC04/FC02 block reads allowed by a coalescing policy"
\* (read_plan.py:4-5): no other way to cut the channels of a sweep into blocks
\* the policy allows has fewer, for every table, policy and choice of channels.
THEOREM NoPlanIsShorter == Spec => []Fewest
<1>1. IInv /\ Greedy => Fewest
  <2> SUFFICES ASSUME IInv, Greedy, done, NEW cuts \in Cuttings
               PROVE  Cardinality(runs) <= Cardinality(cuts)
    BY DEF Fewest
  <2>1. PICK old : old = {d \in cuts : d <= run.base}
    OBVIOUS
  <2>2. /\ IsFiniteSet(cuts) /\ old \in SUBSET cuts
        /\ Cardinality(runs) <= Cardinality(old) /\ IsFiniteSet(runs)
    BY <2>1, CutFacts DEF Greedy, Reached
  <2>3. Cardinality(old) <= Cardinality(cuts) /\ IsFiniteSet(old)
    BY <2>2, FS_Subset
  <2> QED
    BY <2>2, <2>3, FS_CardinalityType
<1>2. Init => Greedy
  BY InitIInv, InitGreedy
<1> QED
  BY <1>1, <1>2, Invariance, NextGreedy, PTL DEF Spec
=============================================================================

----------------------------- MODULE SweepProofs -----------------------------
(***************************************************************************)
(* Theorems of Sweep, for every table of slots, every analyser and any     *)
(* number of tasks, operations, failures and changes at the front panel,   *)
(* and of Open, the ladder that leads to the clients, for every set of     *)
(* ports and transports.                                                   *)
(***************************************************************************)
EXTENDS Sweep, Open, SequenceTheorems, FiniteSetTheorems, TLAPS

Ops == Planned \cup {"status", "analyser"}
Policies == [gaps : BOOLEAN, fallback : BOOLEAN]
Spans == [span : SUBSET Slots, slices : SUBSET Slots]
Words == UNION {[D -> [config : Nat, named : BOOLEAN]] : D \in SUBSET Slots}
Names == UNION {[D -> Nat] : D \in SUBSET Slots}
Calls == [pc : {"idle", "input", "status", "analyser"}, op : Ops \cup {None},
          slots : SUBSET Slots, at : Nat, since : Nat, todo : SUBSET Spans,
          words : Words, states : SUBSET Slots, names : Names, retried : BOOLEAN]

SweepTypeOK ==
  /\ device \in [inputs : SUBSET Slots, discretes : SUBSET Slots, named : SUBSET Slots]
  /\ config \in Nat /\ now \in Nat /\ identified \in Nat
  /\ channels \in (SUBSET Slots) \ {{}}
  /\ policy \in Policies
  /\ metadata \in Names
  /\ call \in [Callers -> Calls]

-----------------------------------------------------------------------------
\* Least and greatest slots

LEMMA Lowest ==
  ASSUME NEW S \in SUBSET Nat, S # {}
  PROVE  /\ Min(S) \in S
         /\ \A k \in S : Min(S) <= k
<1>1. PICK m \in S : \A k \in S : <<k, m>> \notin OpToRel(<, Nat)
  BY WFMin, NatLessThanWellFounded, Zenon
<1>2. \A k \in S : ~(k < m)
  BY <1>1, Zenon DEF OpToRel
<1>3. \A k \in S : m <= k
  BY <1>2
<1> QED
  BY <1>3 DEF Min

\* The least of the upper ends of a finite set is its greatest element.
LEMMA Highest ==
  ASSUME NEW S \in SUBSET Nat, S # {}, IsFiniteSet(S)
  PROVE  /\ Max(S) \in S
         /\ \A k \in S : k <= Max(S)
<1> DEFINE Above(k) == {x \in S : k <= x}
           Tails == {Above(k) : k \in S}
<1>1. Tails # {} /\ Tails \in SUBSET FiniteSubsetsOf(S)
  <2>1. \A T \in SUBSET S : IsFiniteSet(T)
    BY FS_Subset
  <2> QED
    BY <2>1 DEF FiniteSubsetsOf
<1>2. PICK T \in Tails : \A U \in Tails : <<U, T>> \notin StrictSubsetOrdering(S)
  <2> HIDE DEF Tails
  <2> QED
    BY <1>1, WFMin, FS_StrictSubsetOrderingWellFounded, Zenon
<1>3. PICK m \in S : T = Above(m)
  BY <1>2
<1>4. \A k \in S : k <= m
  <2> SUFFICES ASSUME NEW k \in S, ~(k <= m)
               PROVE  FALSE
    OBVIOUS
  <2>1. Above(k) \in Tails /\ Above(k) \subseteq Above(m)
    <3>1. k \in Nat /\ m \in Nat /\ m <= k
      OBVIOUS
    <3>2. \A x \in S : k <= x => m <= x
      BY <3>1
    <3> QED
      BY <3>2
  <2>2. m \in Above(m) /\ m \notin Above(k)
    OBVIOUS
  <2>3. <<Above(k), Above(m)>> \in StrictSubsetOrdering(S)
    BY <2>1, <2>2 DEF StrictSubsetOrdering
  <2> QED
    BY <2>1, <2>3, <1>2, <1>3
<1> QED
  BY <1>4 DEF Max

LEMMA SlotSets ==
  ASSUME NEW S \in SUBSET Slots
  PROVE  S \in SUBSET Nat /\ IsFiniteSet(S)
BY SweepAssumption, FS_Subset

-----------------------------------------------------------------------------
\* Plans

\* The slots next to s in S, without a gap, form a block of S.
LEMMA RunOf ==
  ASSUME NEW S \in SUBSET Slots, NEW s \in S
  PROVE  \E lo, hi \in S :
           /\ lo <= s /\ s <= hi /\ lo..hi \subseteq S
           /\ lo - 1 \notin S /\ hi + 1 \notin S
<1> DEFINE L == {k \in S : k <= s /\ k..s \subseteq S}
           H == {k \in S : s <= k /\ s..k \subseteq S}
<1>1. S \in SUBSET Nat /\ IsFiniteSet(S)
  BY SlotSets
<1>2. s..s \subseteq S
  BY <1>1
<1>3. s \in Nat /\ s <= s
  BY <1>1
<1>4. /\ L \in SUBSET Nat /\ s \in L
      /\ H \in SUBSET S /\ H \in SUBSET Nat /\ s \in H
  BY <1>1, <1>2, <1>3, Zenon
<1>10. IsFiniteSet(H)
  BY <1>1, <1>4, FS_Subset
<1>5. PICK lo \in L : \A k \in L : lo <= k
  BY <1>4, Lowest
<1>6. PICK hi \in H : \A k \in H : k <= hi
  BY <1>4, <1>10, Highest
<1>7. lo - 1 \notin S
  <2> SUFFICES ASSUME lo - 1 \in S
               PROVE  lo - 1 \in L
    BY <1>5, <1>1
  <2> QED
    BY <1>1, <1>5
<1>8. hi + 1 \notin S
  <2> SUFFICES ASSUME hi + 1 \in S
               PROVE  hi + 1 \in H
    BY <1>6, <1>1
  <2> QED
    BY <1>1, <1>6
<1>9. lo..hi \subseteq S
  BY <1>1, <1>5, <1>6
<1> QED
  BY <1>5, <1>6, <1>7, <1>8, <1>9

\* Whatever the policy, the blocks of S are read for the slots of S, each of
\* them, and without gaps they read nothing else.
LEMMA BlockFacts ==
  ASSUME NEW S \in SUBSET Slots, S # {}, NEW gaps \in BOOLEAN
  PROVE  /\ Blocks(S, gaps) \subseteq Spans
         /\ Blocks(S, gaps) # {}
         /\ UNION {b.slices : b \in Blocks(S, gaps)} = S
         /\ \A b \in Blocks(S, gaps) : b.span # {}
         /\ ~gaps \/ (\E s \in Slots : S = {s}) =>
              \A b \in Blocks(S, gaps) : b.span \subseteq S
<1>1. S \in SUBSET Nat /\ IsFiniteSet(S)
  BY SlotSets
<1>2. CASE gaps
  <2> DEFINE lo == Min(S)
             hi == Max(S)
  <2>1. lo \in S /\ hi \in S /\ \A k \in S : lo <= k /\ k <= hi
    BY <1>1, Lowest, Highest
  <2>2. Blocks(S, gaps) = {Span(lo, hi, S)}
    BY <1>2 DEF Blocks
  <2> HIDE DEF lo, hi
  <2>3. S \subseteq lo..hi
    BY <2>1, <1>1
  <2>4. Span(lo, hi, S).slices = S /\ Span(lo, hi, S) \in Spans
    BY <2>3 DEF Span, Spans
  <2>5. lo \in Span(lo, hi, S).span
    BY <2>1, <2>3 DEF Span
  <2>6. ASSUME NEW s \in Slots, S = {s}
        PROVE  Span(lo, hi, S).span \subseteq S
    <3>1. lo = s /\ hi = s /\ s \in Nat
      BY <2>1, <2>6, <1>1
    <3> QED
      BY <3>1, <2>6 DEF Span
  <2> QED
    BY <1>2, <2>2, <2>4, <2>5, <2>6
<1>3. CASE ~gaps
  <2> DEFINE R == {r \in S \X S : /\ r[1] <= r[2]
                                 /\ r[1]..r[2] \subseteq S
                                 /\ r[1] - 1 \notin S /\ r[2] + 1 \notin S}
  <2>1. Blocks(S, gaps) = {Span(r[1], r[2], S) : r \in R}
    BY <1>3 DEF Blocks
  <2>2. ASSUME NEW r \in R
        PROVE  /\ Span(r[1], r[2], S) \in Spans
               /\ Span(r[1], r[2], S).span = r[1]..r[2]
               /\ Span(r[1], r[2], S).slices = r[1]..r[2]
               /\ r[1] \in r[1]..r[2]
               /\ r[1]..r[2] \subseteq S
    <3>1. r[1] \in S /\ r[2] \in S /\ r[1] <= r[2] /\ r[1]..r[2] \subseteq S
      OBVIOUS
    <3>2. r[1] \in Nat /\ r[2] \in Nat
      BY <3>1, <1>1
    <3>3. r[1] \in r[1]..r[2]
      BY <3>1, <3>2
    <3>4. /\ (r[1]..r[2]) \cap Slots = r[1]..r[2]
          /\ (r[1]..r[2]) \cap S = r[1]..r[2]
      BY <3>1
    <3> QED
      BY <3>1, <3>3, <3>4 DEF Span, Spans
  <2>3. ASSUME NEW s \in S
        PROVE  \E r \in R : s \in r[1]..r[2]
    <3>1. PICK lo \in S, hi \in S :
             /\ lo <= s /\ s <= hi /\ lo..hi \subseteq S
             /\ lo - 1 \notin S /\ hi + 1 \notin S
      BY RunOf
    <3>2. <<lo, hi>> \in R /\ s \in lo..hi
      BY <3>1, <1>1
    <3> QED
      BY <3>2
  <2> HIDE DEF R
  <2>4. UNION {b.slices : b \in Blocks(S, gaps)} = S
    <3>1. \A b \in Blocks(S, gaps) : b.slices \subseteq S
      BY <2>1, <2>2
    <3>2. \A s \in S : \E b \in Blocks(S, gaps) : s \in b.slices
      BY <2>1, <2>2, <2>3
    <3> QED
      BY <3>1, <3>2
  <2>5. Blocks(S, gaps) # {}
    BY <2>1, <2>3
  <2>6. \A b \in Blocks(S, gaps) : b \in Spans /\ b.span # {} /\ b.span \subseteq S
    BY <2>1, <2>2
  <2> QED
    BY <2>4, <2>5, <2>6
<1> QED
  BY <1>2, <1>3

-----------------------------------------------------------------------------
\* The inductive invariant

\* Only the holder of the lock is anywhere in an operation.
OneAtATime == \A c \in Callers : call[c].pc # "idle" => lock = c

\* A cached plan has the blocks of the channels and the policy it was made for.
GoodPlan(p) == p # None => /\ p.channels \in (SUBSET Slots) \ {{}}
                           /\ p.policy \in Policies
                           /\ p.blocks = Blocks(p.channels, p.policy.gaps)

\* The blocks an operation still reads are blocks of its slots, under the
\* policy in force; those of an operation on one channel are of that slot.
Planning(r) ==
  /\ r.op \in Ops
  /\ r.slots = Wanted(r)
  /\ r.op \in {"channel", "status"} => \E s \in Slots : r.slots = {s}
  /\ r.retried => ~policy.gaps
  /\ r.pc \in {"input", "status"} =>
       /\ r.op # "analyser"
       /\ r.todo # {}
       /\ r.todo \subseteq Blocks(r.slots, policy.gaps)
  /\ r.pc = "input" => r.op # "status"
  /\ r.pc = "status" => r.op # "identify"

Covered(r) ==
  LET left == UNION {b.slices : b \in r.todo}
  IN  /\ r.pc = "input" => r.slots \subseteq DOMAIN r.words \cup left
      /\ r.pc = "status" => /\ r.slots \subseteq r.states \cup left
                            /\ r.op # "status" => r.slots \subseteq DOMAIN r.words

\* What an operation has read is as new as its start, which is as new as the
\* last identify; its time stamp is the last one given, and is not used yet.
Fresh(r) ==
  /\ r.at = now
  /\ r.since <= config /\ identified <= r.since
  /\ \A s \in DOMAIN r.words : r.since <= r.words[s].config
  /\ last_frame # None => last_frame.at < now

IInv ==
  /\ SweepTypeOK
  /\ OneAtATime
  /\ GoodPlan(plan)
  /\ \A c \in Callers : call[c].pc # "idle" =>
       Planning(call[c]) /\ Covered(call[c]) /\ Fresh(call[c])
  /\ identified <= config
  /\ last_frame # None => last_frame.at \in Nat /\ last_frame.at <= now
  /\ IllegalOnlyIfMissing
  /\ NamesSinceIdentify

-----------------------------------------------------------------------------
\* One attempt

LEMMA PlanFacts ==
  ASSUME channels \in (SUBSET Slots) \ {{}},
         NEW p, GoodPlan(p), NEW po \in Policies,
         NEW S \in SUBSET Slots, S # {}
  PROVE  /\ GoodPlan(Cached(S, p, po))
         /\ PlanFor(S, p, po) = Blocks(S, po.gaps)
<1>1. /\ GoodPlan(Ensured(p, po))
      /\ Ensured(p, po).blocks = Blocks(channels, po.gaps)
  <2>1. CASE p # None /\ p.channels = channels /\ p.policy = po
    <3>1. Ensured(p, po) = p
      BY <2>1 DEF Ensured
    <3> QED
      BY <2>1, <3>1 DEF GoodPlan
  <2>2. CASE ~(p # None /\ p.channels = channels /\ p.policy = po)
    <3> DEFINE n == [channels |-> channels, policy |-> po,
                     blocks |-> Blocks(channels, po.gaps)]
    <3>1. Ensured(p, po) = n
      BY <2>2 DEF Ensured
    <3>2. /\ n.channels = channels /\ n.policy = po
          /\ n.blocks = Blocks(channels, po.gaps)
      OBVIOUS
    <3> HIDE DEF n
    <3> QED
      BY <3>1, <3>2 DEF GoodPlan
  <2> QED
    BY <2>1, <2>2
<1> QED
  BY <1>1 DEF Cached, PlanFor

\* What an operation needs to be attempted.
Startable(r) ==
  /\ r \in Calls /\ r.op \in Ops
  /\ r.op \in {"channel", "status"} => \E s \in Slots : r.slots = {s}
  /\ r.op = "analyser" => r.slots = {}

\* Where an attempt of r under the policy po stands at first.
Attempt(r, po, q) ==
  /\ q \in Calls
  /\ q.pc = FirstPhase(r.op) /\ q.op = r.op /\ q.slots = Wanted(r)
  /\ q.at = r.at /\ q.since = r.since /\ q.retried = r.retried
  /\ q.words = <<>>
  /\ q.op # "analyser" => q.slots # {} /\ q.todo = Blocks(q.slots, po.gaps)

LEMMA EmptyFunctions ==
  /\ <<>> \in Words /\ <<>> \in Names
  /\ DOMAIN <<>> = {}
<1>1. \A T : <<>> \in [{} -> T]
  OBVIOUS
<1>2. {} \in SUBSET Slots
  OBVIOUS
<1> QED
  BY <1>1, <1>2 DEF Words, Names

LEMMA BeginFacts ==
  ASSUME channels \in (SUBSET Slots) \ {{}},
         NEW c \in Callers, NEW p, GoodPlan(p), NEW po \in Policies,
         NEW r, Startable(r), Begin(c, r, p, po)
  PROVE  /\ GoodPlan(plan)'
         /\ \E q : Attempt(r, po, q) /\ call' = [call EXCEPT ![c] = q]
<1> DEFINE S == Wanted(r)
           reads == r.op # "analyser"
           todo == IF reads THEN PlanFor(S, p, po) ELSE {}
           q == [r EXCEPT !.pc = FirstPhase(r.op), !.slots = S, !.todo = todo,
                          !.words = <<>>, !.states = {}]
<1>1. S \in SUBSET Slots /\ (reads => S # {})
  <2>1. r.slots \in SUBSET Slots
    BY DEF Startable, Calls
  <2>6. Slots # {}
    BY SweepAssumption
  <2>2. CASE r.op = "frame"
    BY <2>2 DEF Wanted
  <2>3. CASE r.op = "identify"
    BY <2>6, <2>3 DEF Wanted
  <2>4. CASE r.op \in {"channel", "status"}
    BY <2>1, <2>4 DEF Startable, Wanted
  <2>5. CASE r.op = "analyser"
    BY <2>1, <2>5 DEF Wanted
  <2> QED
    BY <2>2, <2>3, <2>4, <2>5 DEF Startable, Ops, Planned
<1>2. FirstPhase(r.op) \in {"input", "status", "analyser"}
  BY DEF FirstPhase
<1>3. reads => /\ GoodPlan(Cached(S, p, po))
               /\ PlanFor(S, p, po) = Blocks(S, po.gaps)
               /\ Blocks(S, po.gaps) \subseteq Spans
  <2>1. po.gaps \in BOOLEAN
    BY DEF Policies
  <2> QED
    BY <1>1, <2>1, PlanFacts, BlockFacts
<1>4. plan' = (IF reads THEN Cached(S, p, po) ELSE p) /\ call' = [call EXCEPT ![c] = q]
  BY DEF Begin
<1>5. GoodPlan(plan')
  BY <1>3, <1>4
<1>6. todo \in SUBSET Spans
  BY <1>3
<1>7. q \in Calls
  BY <1>1, <1>2, <1>6, EmptyFunctions DEF Startable, Calls
<1>8. /\ q.pc = FirstPhase(r.op) /\ q.op = r.op /\ q.slots = S
      /\ q.at = r.at /\ q.since = r.since /\ q.retried = r.retried
      /\ q.words = <<>> /\ q.todo = todo
  BY DEF Startable, Calls
<1>9. Attempt(r, po, q)
  <2> HIDE DEF q
  <2> QED
    BY <1>1, <1>3, <1>7, <1>8 DEF Attempt
<1> QED
  BY <1>4, <1>5, <1>9 DEF GoodPlan

-----------------------------------------------------------------------------
\* The tasks

\* Nothing but the entry of the one task in the lock changes, and every other
\* task is idle.
LEMMA OneCall ==
  ASSUME SweepTypeOK, OneAtATime,
         NEW c \in Callers, lock \in {None, c}, NEW q \in Calls,
         call' = [call EXCEPT ![c] = q], q.pc # "idle" => lock' = c
  PROVE  /\ call' \in [Callers -> Calls]
         /\ call'[c] = q
         /\ \A d \in Callers : d # c => call'[d].pc = "idle"
         /\ OneAtATime'
<1>1. call \in [Callers -> Calls]
  BY DEF SweepTypeOK
<1>2. call' \in [Callers -> Calls] /\ call'[c] = q
  BY <1>1
<1>3. ASSUME NEW d \in Callers, d # c
      PROVE  call'[d].pc = "idle"
  <2>1. call'[d] = call[d]
    BY <1>1, <1>3
  <2>2. call[d].pc = "idle"
    BY <1>3, SweepAssumption DEF OneAtATime
  <2> QED
    BY <2>1, <2>2
<1> QED
  BY <1>2, <1>3 DEF OneAtATime

LEMMA Held ==
  ASSUME IInv, NEW c \in Callers, call[c].pc # "idle"
  PROVE  /\ lock = c /\ call[c] \in Calls
         /\ Planning(call[c]) /\ Covered(call[c]) /\ Fresh(call[c])
BY DEF IInv, SweepTypeOK, OneAtATime

LEMMA EndFacts ==
  ASSUME IInv, NEW c \in Callers, call[c].pc # "idle", NEW why, End(c, why)
  PROVE  /\ call' \in [Callers -> Calls]
         /\ OneAtATime'
         /\ \A d \in Callers : call'[d].pc = "idle"
         /\ rejected' = IF why = "illegal" THEN call[c].slots ELSE None
<1>1. Idle \in Calls /\ Idle.pc = "idle"
  BY EmptyFunctions DEF Idle, Calls
<1>2. /\ call' = [call EXCEPT ![c] = Idle]
      /\ rejected' = IF why = "illegal" THEN call[c].slots ELSE None
  BY DEF End
<1>3. lock = c /\ SweepTypeOK /\ OneAtATime
  BY Held DEF IInv
<1> QED
  BY <1>1, <1>2, <1>3, OneCall

\* The block that is read next is one of those left.
LEMMA BlockIn ==
  ASSUME NEW c \in Callers, call[c] \in Calls, Planning(call[c]),
         call[c].pc \in {"input", "status"}, policy \in Policies,
         channels \in (SUBSET Slots) \ {{}}
  PROVE  /\ Block(c) \in call[c].todo
         /\ Block(c) \in Spans
         /\ Block(c).slices \subseteq call[c].slots
         /\ call[c].slots \in SUBSET Slots
         /\ ~policy.gaps \/ call[c].op = "status" => Block(c).span \subseteq call[c].slots
<1> DEFINE r == call[c]
<1>1. /\ r.todo # {} /\ r.todo \subseteq Blocks(r.slots, policy.gaps)
      /\ r.slots \in SUBSET Slots /\ policy.gaps \in BOOLEAN
      /\ r.op = "status" => \E s \in Slots : r.slots = {s}
  BY DEF Planning, Calls, Policies
<1>2. r.slots # {}
  <2>1. r.slots = Wanted(r) /\ r.op \in Ops /\ r.op # "analyser"
    BY DEF Planning
  <2>2. Slots # {}
    BY SweepAssumption
  <2>3. r.op \in {"channel", "status"} => \E s \in Slots : r.slots = {s}
    BY DEF Planning
  <2> HIDE DEF r
  <2> QED
    BY <2>1, <2>2, <2>3 DEF Wanted, Ops, Planned
<1> HIDE DEF r
<1>3. /\ \A b \in r.todo : b \in Spans /\ b.span # {} /\ b.slices \subseteq r.slots
      /\ ~policy.gaps \/ r.op = "status" => \A b \in r.todo : b.span \subseteq r.slots
  BY <1>1, <1>2, BlockFacts
<1>4. \A b \in r.todo : b.span \in SUBSET Nat /\ b.span # {}
  BY <1>3, SweepAssumption DEF Spans
<1> DEFINE mins == {Min(b.span) : b \in r.todo}
<1>5. mins \in SUBSET Nat /\ mins # {}
  BY <1>1, <1>4, Lowest
<1>6. PICK b \in r.todo : \A d \in r.todo : Min(b.span) <= Min(d.span)
  <2>1. Min(mins) \in mins /\ \A k \in mins : Min(mins) <= k
    <3> HIDE DEF mins
    <3> QED
      BY <1>5, Lowest
  <2> HIDE DEF Min
  <2> QED
    BY <2>1
<1>7. Block(c) \in r.todo
  BY <1>6 DEF Block, r
<1> QED
  BY <1>1, <1>3, <1>7 DEF r

-----------------------------------------------------------------------------
\* The steps

LEMMA InitIInv == Init => IInv
<1> SUFFICES ASSUME Init
             PROVE  IInv
  OBVIOUS
<1>1. Idle \in Calls /\ Idle.pc = "idle"
  BY EmptyFunctions DEF Idle, Calls
<1>2. \A c \in Callers : call[c] = Idle
  BY DEF Init
<1>3. call \in [Callers -> Calls]
  BY <1>1 DEF Init
<1>4. device \in [inputs : SUBSET Slots, discretes : SUBSET Slots, named : SUBSET Slots]
  BY SweepAssumption DEF Init
<1>5. SweepTypeOK
  BY <1>3, <1>4, EmptyFunctions DEF Init, SweepTypeOK, Policies
<1>6. GoodPlan(plan) /\ IllegalOnlyIfMissing /\ identified <= config
      /\ (last_frame # None => last_frame.at \in Nat /\ last_frame.at <= now)
  BY DEF Init, GoodPlan, IllegalOnlyIfMissing
<1>7. NamesSinceIdentify
  BY EmptyFunctions DEF Init, NamesSinceIdentify
<1>8. \A c \in Callers : call[c].pc = "idle"
  BY <1>1, <1>2
<1>9. OneAtATime
  BY <1>8 DEF OneAtATime
<1> QED
  BY <1>5, <1>6, <1>7, <1>8, <1>9 DEF IInv

\* An operation that goes on.
LEMMA Continues ==
  ASSUME IInv, NEW c \in Callers, lock' = c, lock \in {None, c},
         NEW q \in Calls, call' = [call EXCEPT ![c] = q],
         UNCHANGED <<device, config, channels, rejected, last_frame, identified>>,
         now' \in {now, now + 1},
         policy' \in Policies, policy'.fallback = policy.fallback,
         metadata' \in Names, NamesSinceIdentify', GoodPlan(plan)',
         Planning(q)', Covered(q)', Fresh(q)'
  PROVE  IInv'
<1>1. /\ SweepTypeOK /\ OneAtATime /\ identified <= config /\ IllegalOnlyIfMissing
      /\ last_frame # None => last_frame.at \in Nat /\ last_frame.at <= now
  BY DEF IInv
<1>2. /\ call' \in [Callers -> Calls] /\ call'[c] = q /\ OneAtATime'
      /\ \A d \in Callers : d # c => call'[d].pc = "idle"
  BY <1>1, OneCall
<1>3. SweepTypeOK'
  BY <1>1, <1>2 DEF SweepTypeOK
<1>4. IllegalOnlyIfMissing'
  BY <1>1 DEF IllegalOnlyIfMissing
<1>5. (last_frame # None => last_frame.at \in Nat /\ last_frame.at <= now)'
  BY <1>1 DEF SweepTypeOK
<1>6. (identified <= config)'
  BY <1>1
<1>7. (\A d \in Callers : call[d].pc # "idle" =>
          Planning(call[d]) /\ Covered(call[d]) /\ Fresh(call[d]))'
  <2> SUFFICES ASSUME NEW d \in Callers, (call[d].pc # "idle")'
               PROVE  Planning(call[d])' /\ Covered(call[d])' /\ Fresh(call[d])'
    OBVIOUS
  <2>1. d = c
    BY <1>2
  <2> QED
    BY <2>1, <1>2 DEF Planning, Covered, Fresh, Wanted
<1> QED
  BY <1>2, <1>3, <1>4, <1>5, <1>6, <1>7 DEF IInv

\* An operation that ends.
LEMMA Ends ==
  ASSUME IInv, NEW c \in Callers, call[c].pc # "idle", NEW why, End(c, why),
         UNCHANGED <<device, config, policy, now>>,
         channels' \in (SUBSET Slots) \ {{}}, GoodPlan(plan)',
         identified' \in Nat, identified' <= config,
         metadata' \in Names, NamesSinceIdentify',
         (last_frame # None => last_frame.at \in Nat /\ last_frame.at <= now)',
         why = "illegal" => IllegalOnlyIfMissing'
  PROVE  IInv'
<1>1. /\ call' \in [Callers -> Calls] /\ OneAtATime'
      /\ \A d \in Callers : call'[d].pc = "idle"
      /\ rejected' = IF why = "illegal" THEN call[c].slots ELSE None
  BY EndFacts
<1>2. SweepTypeOK'
  BY <1>1 DEF IInv, SweepTypeOK
<1>3. IllegalOnlyIfMissing'
  BY <1>1 DEF IllegalOnlyIfMissing
<1> QED
  BY <1>1, <1>2, <1>3 DEF IInv

\* An attempt holds what the invariant asks of an operation.
LEMMA Attempted ==
  ASSUME SweepTypeOK, NEW r, Startable(r), NEW q, Attempt(r, policy', q),
         channels' = channels, policy' \in Policies,
         r.retried => ~policy'.gaps,
         r.at = now', r.since <= config', identified' <= r.since,
         last_frame' # None => last_frame'.at < now'
  PROVE  Planning(q)' /\ Covered(q)' /\ Fresh(q)'
<1>1. /\ q \in Calls /\ r.op \in Ops /\ q.op = r.op
      /\ q.pc = FirstPhase(r.op) /\ q.slots = Wanted(r)
      /\ q.at = r.at /\ q.since = r.since /\ q.retried = r.retried /\ q.words = <<>>
      /\ q.op # "analyser" => /\ q.slots # {}
                              /\ q.todo = Blocks(q.slots, policy'.gaps)
      /\ r.op \in {"channel", "status"} => \E s \in Slots : r.slots = {s}
      /\ q.slots \in SUBSET Slots /\ policy'.gaps \in BOOLEAN
  BY DEF Attempt, Startable, Calls, Policies
<1>2. /\ q.pc = "analyser" <=> q.op = "analyser"
      /\ q.pc = "status" <=> q.op = "status"
  BY <1>1 DEF FirstPhase, Ops, Planned
<1>3. q.op # "analyser" => /\ q.todo # {}
                           /\ UNION {b.slices : b \in q.todo} = q.slots
  BY <1>1, BlockFacts
<1>4. Wanted(q)' = q.slots
  BY <1>1 DEF Wanted
<1>5. q.op \in {"channel", "status"} => q.slots = r.slots
  BY <1>1 DEF Wanted
<1>6. Planning(q)'
  BY <1>1, <1>2, <1>3, <1>4, <1>5 DEF Planning
<1>7. Covered(q)'
  BY <1>1, <1>2, <1>3 DEF Covered
<1>8. Fresh(q)'
  BY <1>1, EmptyFunctions DEF Fresh
<1> QED
  BY <1>6, <1>7, <1>8

LEMMA StartStep ==
  ASSUME IInv, NEW c \in Callers, NEW op \in Ops, NEW S \in SUBSET Slots,
         op \in {"channel", "status"} => \E s \in Slots : S = {s},
         op = "analyser" => S = {},
         Start(c, op, S)
  PROVE  IInv'
<1> DEFINE r == Stamped(op, S)
<1>1. /\ SweepTypeOK /\ OneAtATime /\ GoodPlan(plan) /\ NamesSinceIdentify
      /\ channels \in (SUBSET Slots) \ {{}} /\ policy \in Policies
      /\ now \in Nat /\ config \in Nat /\ identified \in Nat
      /\ identified <= config /\ metadata \in Names
      /\ last_frame # None => last_frame.at \in Nat /\ last_frame.at <= now
  BY DEF IInv, SweepTypeOK
<1>2. /\ lock = None /\ lock' = c /\ now' = now + 1
      /\ Begin(c, r, plan, policy)
      /\ device' = device /\ config' = config /\ channels' = channels
      /\ policy' = policy /\ metadata' = metadata /\ rejected' = rejected
      /\ last_frame' = last_frame /\ identified' = identified
  BY DEF Start, outside, bounds
<1>3. /\ r.op = op /\ r.at = now + 1 /\ r.since = config /\ r.retried = FALSE
      /\ r.slots = S
  BY DEF Stamped, Idle
<1>4. r \in Calls
  <2>1. Idle \in Calls
    BY EmptyFunctions DEF Idle, Calls
  <2>2. now + 1 \in Nat
    BY <1>1
  <2> QED
    BY <1>1, <2>1, <2>2 DEF Stamped, Calls
<1> HIDE DEF r
<1>5. Startable(r)
  BY <1>3, <1>4 DEF Startable
<1>6. PICK q : Attempt(r, policy, q) /\ call' = [call EXCEPT ![c] = q]
  BY <1>1, <1>2, <1>5, BeginFacts
<1>7. GoodPlan(plan)'
  BY <1>1, <1>2, <1>5, BeginFacts
<1>8. Planning(q)' /\ Covered(q)' /\ Fresh(q)'
  <2>1. last_frame' # None => last_frame'.at < now'
    BY <1>1, <1>2
  <2> QED
    BY <1>1, <1>2, <1>3, <1>5, <1>6, <2>1, Attempted
<1>9. NamesSinceIdentify' /\ q \in Calls
  BY <1>1, <1>2, <1>6 DEF NamesSinceIdentify, Attempt
<1> QED
  BY <1>1, <1>2, <1>6, <1>7, <1>8, <1>9, Continues

\* A block of words: what is left of the slots is still to be read, and the
\* words are as new as the operation.
LEMMA WordsFacts ==
  ASSUME IInv, NEW c \in Callers, call[c].pc = "input"
  PROVE  LET r == call[c]
             q == WithWords(c)
         IN  /\ q \in Calls /\ q.todo = Rest(c)
             /\ q.pc = "input" /\ q.op = r.op /\ q.slots = r.slots /\ q.at = r.at
             /\ q.since = r.since /\ q.states = r.states /\ q.retried = r.retried
             /\ r.slots \subseteq DOMAIN q.words \cup UNION {b.slices : b \in q.todo}
             /\ DOMAIN q.words \subseteq Slots
             /\ \A s \in DOMAIN q.words :
                  q.words[s].config \in Nat /\ r.since <= q.words[s].config
<1> DEFINE r == call[c]
           w == Over(Slice(c), r.words)
           q == [r EXCEPT !.words = w, !.todo = Rest(c)]
<1>1. /\ r \in Calls /\ Planning(r) /\ Covered(r) /\ Fresh(r)
      /\ policy \in Policies /\ channels \in (SUBSET Slots) \ {{}}
      /\ config \in Nat
  BY Held DEF IInv, SweepTypeOK
<1>2. /\ Block(c) \in r.todo
      /\ Block(c).slices \in SUBSET Slots
      /\ r.slots \in SUBSET Slots
  BY <1>1, BlockIn
<1>3. WithWords(c) = q
  BY DEF WithWords
<1>4. /\ Slice(c) \in [Block(c).slices -> [config : Nat, named : BOOLEAN]]
      /\ \A s \in Block(c).slices : Slice(c)[s].config = config
  BY <1>1 DEF Slice
<1>5. PICK D \in SUBSET Slots : r.words \in [D -> [config : Nat, named : BOOLEAN]]
  BY <1>1 DEF Calls, Words
<1>6. /\ w \in [Block(c).slices \cup D -> [config : Nat, named : BOOLEAN]]
      /\ \A s \in Block(c).slices : w[s] = Slice(c)[s]
      /\ \A s \in D \ Block(c).slices : w[s] = r.words[s]
  <2> DEFINE T == [config : Nat, named : BOOLEAN]
  <2>1. r.words \in [D -> T] /\ Slice(c) \in [Block(c).slices -> T]
    BY <1>4, <1>5
  <2> HIDE DEF T
  <2> HIDE DEF r
  <2>2. /\ w \in [Block(c).slices \cup D -> T]
        /\ \A s \in Block(c).slices : w[s] = Slice(c)[s]
        /\ \A s \in D \ Block(c).slices : w[s] = r.words[s]
    BY <2>1 DEF Over
  <2> QED
    BY <2>2 DEF T
<1>7. w \in Words
  BY <1>2, <1>6 DEF Words
<1>8. Rest(c) \in SUBSET Spans
  BY <1>1 DEF Rest, Calls
<1> HIDE DEF w
<1>9. q \in Calls
  BY <1>1, <1>7, <1>8 DEF Calls
<1>10. /\ q.words = w /\ q.todo = Rest(c)
       /\ q.pc = "input" /\ q.op = r.op /\ q.slots = r.slots /\ q.at = r.at
       /\ q.since = r.since /\ q.states = r.states /\ q.retried = r.retried
  BY <1>1 DEF Calls
<1>11. r.slots \subseteq DOMAIN w \cup UNION {b.slices : b \in Rest(c)}
  <2>1. r.slots \subseteq D \cup UNION {b.slices : b \in r.todo}
    BY <1>1, <1>5 DEF Covered
  <2>2. UNION {b.slices : b \in r.todo} =
          Block(c).slices \cup UNION {b.slices : b \in Rest(c)}
    BY <1>2 DEF Rest
  <2>3. DOMAIN w = Block(c).slices \cup D
    BY <1>6
  <2> QED
    BY <2>1, <2>2, <2>3
<1>12. ASSUME NEW s \in DOMAIN w
       PROVE  w[s].config \in Nat /\ r.since <= w[s].config
  <2>1. s \in Block(c).slices \cup D /\ w[s] \in [config : Nat, named : BOOLEAN]
    BY <1>6
  <2>2. CASE s \in Block(c).slices
    <3>1. w[s].config = config
      BY <1>4, <1>6, <2>2
    <3> QED
      BY <3>1, <1>1 DEF Fresh
  <2>3. CASE s \in D \ Block(c).slices
    <3>1. w[s] = r.words[s] /\ s \in DOMAIN r.words
      BY <1>5, <1>6, <2>3
    <3> QED
      BY <3>1, <2>1, <1>1 DEF Fresh
  <2> QED
    BY <2>1, <2>2, <2>3
<1>13. DOMAIN w \subseteq Slots
  BY <1>2, <1>6
<1> HIDE DEF q
<1> QED
  BY <1>3, <1>9, <1>10, <1>11, <1>12, <1>13

\* The blocks left are blocks of the same slots.
LEMMA RestFacts ==
  ASSUME NEW c \in Callers, call[c].todo \subseteq Blocks(call[c].slots, policy.gaps)
  PROVE  Rest(c) \subseteq Blocks(call[c].slots, policy.gaps)
BY DEF Rest

LEMMA ReadInputStep ==
  ASSUME IInv, NEW c \in Callers, ReadInput(c)
  PROVE  IInv'
<1> DEFINE r == call[c]
<1>8. PICK q : q = WithWords(c)
  OBVIOUS
<1>1. /\ r.pc = "input" /\ Rest(c) # {}
      /\ call' = [call EXCEPT ![c] = q]
      /\ UNCHANGED <<device, config, channels, policy, metadata, plan, lock, rejected,
                     last_frame, now, identified>>
  BY <1>8 DEF ReadInput, Reading, outside, bounds
<1>2. /\ r \in Calls /\ Planning(r) /\ Covered(r) /\ Fresh(r) /\ lock = c
      /\ policy \in Policies /\ GoodPlan(plan) /\ metadata \in Names
      /\ NamesSinceIdentify
  BY <1>1, Held DEF IInv, SweepTypeOK
<1>3. /\ q \in Calls /\ q.todo = Rest(c)
      /\ q.pc = "input" /\ q.op = r.op /\ q.slots = r.slots /\ q.at = r.at
      /\ q.since = r.since /\ q.states = r.states /\ q.retried = r.retried
      /\ r.slots \subseteq DOMAIN q.words \cup UNION {b.slices : b \in q.todo}
      /\ \A s \in DOMAIN q.words : r.since <= q.words[s].config
  BY <1>1, <1>8, WordsFacts
<1>4. Planning(q)'
  <2>1. Wanted(q)' = Wanted(r)
    BY <1>1, <1>3 DEF Wanted
  <2> QED
    BY <1>1, <1>2, <1>3, <2>1, RestFacts DEF Planning
<1>5. Covered(q)'
  BY <1>3 DEF Covered
<1>6. Fresh(q)'
  BY <1>1, <1>2, <1>3 DEF Fresh
<1>7. NamesSinceIdentify' /\ GoodPlan(plan)'
  BY <1>1, <1>2 DEF NamesSinceIdentify, GoodPlan
<1> QED
  BY <1>1, <1>2, <1>3, <1>4, <1>5, <1>6, <1>7, Continues

LEMMA ReadInputsStep ==
  ASSUME IInv, NEW c \in Callers, ReadInputs(c)
  PROVE  IInv'
<1> DEFINE r == call[c]
<1>1. PICK w : w = WithWords(c)
  OBVIOUS
<1>2. PICK q : q = [w EXCEPT !.pc = "status", !.todo = PlanFor(Wanted(w), plan, policy)]
  OBVIOUS
<1>3. /\ r.pc = "input" /\ Rest(c) = {} /\ r.op # "identify"
      /\ plan' = Cached(Wanted(w), plan, policy)
      /\ call' = [call EXCEPT ![c] = q]
      /\ UNCHANGED <<device, config, channels, policy, metadata, lock, rejected,
                     last_frame, now, identified>>
  BY <1>1, <1>2 DEF ReadInputs, Reading, outside, bounds
<1>4. /\ r \in Calls /\ Planning(r) /\ Covered(r) /\ Fresh(r) /\ lock = c
      /\ policy \in Policies /\ GoodPlan(plan) /\ metadata \in Names
      /\ NamesSinceIdentify /\ channels \in (SUBSET Slots) \ {{}}
  BY <1>3, Held DEF IInv, SweepTypeOK
<1>5. /\ w \in Calls /\ w.todo = Rest(c)
      /\ w.op = r.op /\ w.slots = r.slots /\ w.at = r.at
      /\ w.since = r.since /\ w.states = r.states /\ w.retried = r.retried
      /\ r.slots \subseteq DOMAIN w.words \cup UNION {b.slices : b \in w.todo}
      /\ \A s \in DOMAIN w.words : r.since <= w.words[s].config
  BY <1>1, <1>3, WordsFacts
<1>6. Wanted(w) = r.slots /\ Wanted(r) = r.slots
  BY <1>4, <1>5 DEF Wanted, Planning
<1>7. r.slots \in SUBSET Slots /\ r.slots # {} /\ policy.gaps \in BOOLEAN
  <2>1. Block(c) \in r.todo /\ r.slots \in SUBSET Slots
    BY <1>3, <1>4, BlockIn
  <2>2. r.op \in Ops /\ r.op # "analyser" /\ r.op # "status"
    BY <1>3, <1>4 DEF Planning
  <2>3. r.slots # {}
    <3>1. r.op = "channel" => \E s \in Slots : r.slots = {s}
      BY <1>4 DEF Planning
    <3>2. r.op = "frame" => r.slots = channels
      BY <1>6 DEF Wanted
    <3> QED
      BY <1>3, <1>4, <2>2, <3>1, <3>2 DEF Ops, Planned
  <2> QED
    BY <1>4, <2>1, <2>3 DEF Policies
<1>8. /\ GoodPlan(Cached(r.slots, plan, policy))
      /\ PlanFor(r.slots, plan, policy) = Blocks(r.slots, policy.gaps)
  BY <1>4, <1>7, PlanFacts
<1>9. /\ Blocks(r.slots, policy.gaps) \in SUBSET Spans
      /\ Blocks(r.slots, policy.gaps) # {}
      /\ UNION {b.slices : b \in Blocks(r.slots, policy.gaps)} = r.slots
  BY <1>7, BlockFacts
<1>10. /\ q \in Calls /\ q.pc = "status" /\ q.todo = Blocks(r.slots, policy.gaps)
       /\ q.op = r.op /\ q.slots = r.slots /\ q.at = r.at /\ q.since = r.since
       /\ q.words = w.words /\ q.retried = r.retried
  BY <1>2, <1>5, <1>6, <1>8, <1>9 DEF Calls
<1>11. r.slots \subseteq DOMAIN q.words
  BY <1>3, <1>5, <1>10
<1>12. Planning(q)'
  <2>1. Wanted(q)' = Wanted(r)
    BY <1>3, <1>10 DEF Wanted
  <2> QED
    BY <1>3, <1>4, <1>6, <1>9, <1>10, <2>1 DEF Planning
<1>13. Covered(q)'
  BY <1>9, <1>10, <1>11 DEF Covered
<1>14. Fresh(q)'
  BY <1>3, <1>4, <1>5, <1>10 DEF Fresh
<1>15. NamesSinceIdentify' /\ GoodPlan(plan)'
  BY <1>3, <1>4, <1>6, <1>8 DEF NamesSinceIdentify, GoodPlan
<1> QED
  BY <1>3, <1>4, <1>10, <1>12, <1>13, <1>14, <1>15, Continues

LEMMA IdentifiedStep ==
  ASSUME IInv, NEW c \in Callers, Identified(c)
  PROVE  IInv'
<1> DEFINE r == call[c]
<1>1. PICK w : w = WithWords(c)
  OBVIOUS
<1>2. /\ r.pc = "input" /\ Rest(c) = {} /\ r.op = "identify" /\ Complete(w)
      /\ metadata' = Refreshed(w)
      /\ SetChannels({s \in Slots : w.words[s].named})
      /\ identified' = w.since
      /\ End(c, "ok")
      /\ UNCHANGED <<device, config, policy, last_frame, now>>
  BY <1>1 DEF Identified, Reading, outside
<1>3. /\ r \in Calls /\ Fresh(r) /\ GoodPlan(plan)
      /\ channels \in (SUBSET Slots) \ {{}}
      /\ (last_frame # None => last_frame.at \in Nat /\ last_frame.at <= now)
  BY <1>2, Held DEF IInv, SweepTypeOK
<1>4. /\ w.op = r.op /\ w.since = r.since
      /\ \A s \in DOMAIN w.words :
           w.words[s].config \in Nat /\ r.since <= w.words[s].config
  BY <1>1, <1>2, WordsFacts
<1>5. Slots \subseteq DOMAIN w.words
  BY <1>2, <1>4 DEF Complete, Wanted
<1>6. metadata' = [s \in Slots |-> w.words[s].config]
  BY <1>2 DEF Refreshed
<1>7. /\ metadata' \in [Slots -> Nat]
      /\ \A s \in Slots : r.since <= metadata'[s]
  BY <1>4, <1>5, <1>6
<1>8. metadata' \in Names
  BY <1>7 DEF Names
<1>9. NamesSinceIdentify'
  BY <1>2, <1>4, <1>7 DEF NamesSinceIdentify
<1>10. channels' \in (SUBSET Slots) \ {{}} /\ GoodPlan(plan)'
  BY <1>2, <1>3 DEF SetChannels, GoodPlan
<1>11. identified' \in Nat /\ identified' <= config
  BY <1>2, <1>3, <1>4 DEF Fresh, Calls
<1>12. r.pc # "idle" /\ "ok" # "illegal"
  BY <1>2
<1> QED
  BY <1>2, <1>3, <1>8, <1>9, <1>10, <1>11, <1>12, Ends

LEMMA StatesFacts ==
  ASSUME IInv, NEW c \in Callers, call[c].pc = "status"
  PROVE  LET r == call[c]
             q == WithStates(c)
         IN  /\ q \in Calls /\ q.todo = Rest(c)
             /\ q.pc = "status" /\ q.op = r.op /\ q.slots = r.slots /\ q.at = r.at
             /\ q.since = r.since /\ q.words = r.words /\ q.retried = r.retried
             /\ r.slots \subseteq q.states \cup UNION {b.slices : b \in q.todo}
<1> DEFINE r == call[c]
           q == WithStates(c)
<1>1. /\ r \in Calls /\ Planning(r) /\ Covered(r)
      /\ policy \in Policies /\ channels \in (SUBSET Slots) \ {{}}
  BY Held DEF IInv, SweepTypeOK
<1>2. Block(c) \in r.todo /\ Block(c).slices \in SUBSET Slots
  BY <1>1, BlockIn
<1>3. Rest(c) \in SUBSET Spans /\ r.states \cup Block(c).slices \in SUBSET Slots
  BY <1>1, <1>2 DEF Rest, Calls
<1>4. q = [r EXCEPT !.states = r.states \cup Block(c).slices, !.todo = Rest(c)]
  BY DEF WithStates
<1>5. /\ q \in Calls /\ q.todo = Rest(c) /\ q.states = r.states \cup Block(c).slices
      /\ q.pc = "status" /\ q.op = r.op /\ q.slots = r.slots /\ q.at = r.at
      /\ q.since = r.since /\ q.words = r.words /\ q.retried = r.retried
  BY <1>1, <1>3, <1>4 DEF Calls
<1>6. UNION {b.slices : b \in r.todo} =
        Block(c).slices \cup UNION {b.slices : b \in Rest(c)}
  BY <1>2 DEF Rest
<1>7. r.slots \subseteq q.states \cup UNION {b.slices : b \in q.todo}
  BY <1>1, <1>5, <1>6 DEF Covered
<1> QED
  BY <1>5, <1>7

LEMMA ReadStatusStep ==
  ASSUME IInv, NEW c \in Callers, ReadStatus(c)
  PROVE  IInv'
<1> DEFINE r == call[c]
<1>1. PICK q : q = WithStates(c)
  OBVIOUS
<1>2. /\ r.pc = "status" /\ Rest(c) # {}
      /\ call' = [call EXCEPT ![c] = q]
      /\ UNCHANGED <<device, config, channels, policy, metadata, plan, lock, rejected,
                     last_frame, now, identified>>
  BY <1>1 DEF ReadStatus, Reading, outside, bounds
<1>3. /\ r \in Calls /\ Planning(r) /\ Covered(r) /\ Fresh(r) /\ lock = c
      /\ policy \in Policies /\ GoodPlan(plan) /\ metadata \in Names
      /\ NamesSinceIdentify
  BY <1>2, Held DEF IInv, SweepTypeOK
<1>4. /\ q \in Calls /\ q.todo = Rest(c)
      /\ q.pc = "status" /\ q.op = r.op /\ q.slots = r.slots /\ q.at = r.at
      /\ q.since = r.since /\ q.words = r.words /\ q.retried = r.retried
      /\ r.slots \subseteq q.states \cup UNION {b.slices : b \in q.todo}
  BY <1>1, <1>2, StatesFacts
<1>5. Planning(q)'
  <2>1. Wanted(q)' = Wanted(r)
    BY <1>2, <1>4 DEF Wanted
  <2> QED
    BY <1>2, <1>3, <1>4, <2>1, RestFacts DEF Planning
<1>6. Covered(q)'
  BY <1>2, <1>3, <1>4 DEF Covered
<1>7. Fresh(q)'
  BY <1>2, <1>3, <1>4 DEF Fresh
<1>8. NamesSinceIdentify' /\ GoodPlan(plan)'
  BY <1>2, <1>3 DEF NamesSinceIdentify, GoodPlan
<1> QED
  BY <1>2, <1>3, <1>4, <1>5, <1>6, <1>7, <1>8, Continues

\* An operation that ends well and touches no cache.
LEMMA EndStep ==
  ASSUME IInv, NEW c \in Callers, call[c].pc # "idle", NEW why, End(c, why),
         why # "illegal",
         UNCHANGED <<device, config, policy, now, channels, plan, identified, metadata>>,
         (last_frame # None => last_frame.at \in Nat /\ last_frame.at <= now)'
  PROVE  IInv'
<1>1. /\ channels \in (SUBSET Slots) \ {{}} /\ GoodPlan(plan)
      /\ identified \in Nat /\ identified <= config
      /\ metadata \in Names /\ NamesSinceIdentify
  BY DEF IInv, SweepTypeOK
<1>2. GoodPlan(plan)' /\ NamesSinceIdentify'
  BY <1>1 DEF GoodPlan, NamesSinceIdentify
<1> QED
  BY <1>1, <1>2, Ends

LEMMA ReadStateStep ==
  ASSUME IInv, NEW c \in Callers, ReadState(c)
  PROVE  IInv'
<1>1. /\ call[c].pc # "idle" /\ End(c, "ok") /\ "ok" # "illegal"
      /\ UNCHANGED <<device, config, policy, now, channels, plan, identified, metadata,
                     last_frame>>
  BY DEF ReadState, Reading, outside, bounds
<1>2. (last_frame # None => last_frame.at \in Nat /\ last_frame.at <= now)'
  BY <1>1 DEF IInv
<1> QED
  BY <1>1, <1>2, EndStep

\* Names: those known already, and those of the words just read.
LEMMA NamedFacts ==
  ASSUME metadata \in Names, NEW r, Wanted(r) \in SUBSET Slots,
         \A s \in Wanted(r) : r.words[s].config \in Nat
  PROVE  /\ Named(r) \in Names
         /\ Wanted(r) \subseteq DOMAIN Named(r)
         /\ \A s \in DOMAIN Named(r) :
              \/ s \in DOMAIN metadata /\ Named(r)[s] = metadata[s]
              \/ s \in Wanted(r) /\ Named(r)[s] = r.words[s].config
<1>1. PICK D \in SUBSET Slots : metadata \in [D -> Nat]
  BY DEF Names
<1> DEFINE S == Wanted(r)
           f == Named(r)
<1>2. /\ f \in [D \cup S -> Nat]
      /\ \A s \in D : f[s] = metadata[s]
      /\ \A s \in S \ D : f[s] = r.words[s].config
  <2> HIDE DEF S
  <2> QED
    BY <1>1 DEF Named, Over, S
<1> QED
  BY <1>1, <1>2 DEF Names

LEMMA BuildReadingsStep ==
  ASSUME IInv, NEW c \in Callers, BuildReadings(c)
  PROVE  IInv'
<1> DEFINE r == call[c]
<1>1. PICK w : w = WithStates(c)
  OBVIOUS
<1>2. /\ r.pc = "status" /\ r.op \in {"frame", "channel"} /\ Complete(w)
      /\ metadata' = Named(w)
      /\ UNCHANGED <<device, config, channels, policy, plan, last_frame, now, identified>>
  BY <1>1 DEF BuildReadings, Reading, outside, bounds
<1>3. /\ r \in Calls /\ Planning(r) /\ Covered(r) /\ Fresh(r) /\ lock = c
      /\ policy \in Policies /\ GoodPlan(plan) /\ metadata \in Names
      /\ NamesSinceIdentify /\ channels \in (SUBSET Slots) \ {{}}
      /\ identified \in Nat /\ identified <= config
      /\ (last_frame # None => last_frame.at \in Nat /\ last_frame.at <= now)
  BY <1>2, Held DEF IInv, SweepTypeOK
<1>4. /\ w \in Calls /\ w.op = r.op /\ w.slots = r.slots /\ w.at = r.at
      /\ w.since = r.since /\ w.words = r.words /\ w.retried = r.retried
  BY <1>1, <1>2, StatesFacts
<1>5. PICK D \in SUBSET Slots : r.words \in [D -> [config : Nat, named : BOOLEAN]]
  BY <1>3 DEF Calls, Words
<1>6. ASSUME NEW s \in Wanted(w)
      PROVE  w.words[s].config \in Nat /\ identified <= w.words[s].config
  <2>1. s \in DOMAIN r.words /\ w.words = r.words
    BY <1>2, <1>4 DEF Complete
  <2>2. r.words[s] \in [config : Nat, named : BOOLEAN]
    BY <1>5, <2>1
  <2>3. r.since <= r.words[s].config /\ identified <= r.since /\ r.since \in Nat
    BY <1>3, <2>1 DEF Fresh, Calls
  <2> QED
    BY <1>3, <2>1, <2>2, <2>3
<1>7. Wanted(w) \in SUBSET Slots
  BY <1>3, <1>4 DEF Wanted, Calls
<1>8. /\ Named(w) \in Names
      /\ Wanted(w) \subseteq DOMAIN Named(w)
      /\ \A s \in DOMAIN Named(w) :
           \/ s \in DOMAIN metadata /\ Named(w)[s] = metadata[s]
           \/ s \in Wanted(w) /\ Named(w)[s] = w.words[s].config
  BY <1>3, <1>6, <1>7, NamedFacts
<1>9. NamesSinceIdentify'
  BY <1>2, <1>3, <1>6, <1>8 DEF NamesSinceIdentify
<1>10. GoodPlan(plan)' /\ metadata' \in Names
  BY <1>2, <1>3, <1>8 DEF GoodPlan
<1>11. CASE w.op = "channel"
  <2>1. End(c, "ok") /\ "ok" # "illegal" /\ call[c].pc # "idle"
    BY <1>1, <1>2, <1>11 DEF BuildReadings
  <2>2. (last_frame # None => last_frame.at \in Nat /\ last_frame.at <= now)'
    BY <1>2, <1>3
  <2> QED
    BY <1>2, <1>3, <1>9, <1>10, <2>1, <2>2, Ends
<1>12. CASE w.op # "channel"
  <2>1. PICK n : n = [s \in Wanted(w) |-> Named(w)[s]]
    OBVIOUS
  <2>2. PICK q : q = [w EXCEPT !.pc = "analyser", !.names = n]
    OBVIOUS
  <2>3. call' = [call EXCEPT ![c] = q] /\ UNCHANGED <<lock, rejected>>
    BY <1>1, <1>12, <2>1, <2>2 DEF BuildReadings
  <2>4. n \in Names
    BY <1>7, <1>8, <2>1 DEF Names
  <2>5. /\ q \in Calls /\ q.pc = "analyser" /\ q.op = r.op /\ q.slots = r.slots
        /\ q.at = r.at /\ q.since = r.since /\ q.words = r.words /\ q.retried = r.retried
    BY <1>4, <2>2, <2>4 DEF Calls
  <2>6. Planning(q)'
    <3>1. Wanted(q)' = Wanted(r)
      BY <1>2, <2>5 DEF Wanted
    <3> QED
      BY <1>2, <1>3, <2>5, <3>1 DEF Planning
  <2>7. Covered(q)'
    BY <2>5 DEF Covered
  <2>8. Fresh(q)'
    BY <1>2, <1>3, <2>5 DEF Fresh
  <2> QED
    BY <1>2, <1>3, <1>9, <1>10, <2>3, <2>5, <2>6, <2>7, <2>8, Continues
<1> QED
  BY <1>11, <1>12

LEMMA ReadAnalyserStep ==
  ASSUME IInv, NEW c \in Callers, ReadAnalyser(c)
  PROVE  IInv' /\ (last_frame' # last_frame => LaterFrame)
<1>1. /\ call[c].pc # "idle" /\ End(c, "ok") /\ "ok" # "illegal"
      /\ UNCHANGED <<device, config, policy, now, channels, plan, identified, metadata>>
      /\ last_frame' = IF call[c].op = "frame"
                       THEN [at |-> call[c].at, names |-> call[c].names]
                       ELSE last_frame
  BY DEF ReadAnalyser, Reading, outside, bounds
<1>2. /\ call[c] \in Calls /\ Fresh(call[c]) /\ now \in Nat
      /\ last_frame # None => last_frame.at \in Nat /\ last_frame.at <= now
  BY <1>1, Held DEF IInv, SweepTypeOK
<1>3. call[c].at = now /\ (last_frame # None => last_frame.at < now)
  BY <1>2 DEF Fresh
<1>4. (last_frame # None => last_frame.at \in Nat /\ last_frame.at <= now)'
  BY <1>1, <1>2, <1>3
<1>5. last_frame' # last_frame => LaterFrame
  BY <1>1, <1>3 DEF LaterFrame
<1> QED
  BY <1>1, <1>4, <1>5, EndStep

-----------------------------------------------------------------------------
\* The failures

LEMMA FallbackStep ==
  ASSUME IInv, NEW c \in Callers, ShouldFallback(c),
         policy' = Strict,
         Begin(c, [call[c] EXCEPT !.retried = TRUE], None, Strict),
         UNCHANGED <<device, config, channels, metadata, lock, rejected, last_frame,
                     now, identified>>,
         call[c].pc # "idle"
  PROVE  IInv'
<1> DEFINE o == call[c]
<1>1. /\ o \in Calls /\ Planning(o) /\ Fresh(o) /\ lock = c
      /\ policy \in Policies /\ metadata \in Names /\ SweepTypeOK
      /\ NamesSinceIdentify /\ channels \in (SUBSET Slots) \ {{}}
      /\ o.op \in Planned
  BY Held DEF IInv, SweepTypeOK, ShouldFallback
<1>2. PICK r : r = [o EXCEPT !.retried = TRUE]
  OBVIOUS
<1>3. /\ r \in Calls /\ r.op = o.op /\ r.slots = o.slots /\ r.at = o.at
      /\ r.since = o.since
  BY <1>1, <1>2 DEF Calls
<1>4. Startable(r)
  BY <1>1, <1>3 DEF Startable, Planning, Planned
<1>5. policy' \in Policies /\ ~policy'.gaps /\ policy'.fallback = policy.fallback
  BY <1>1 DEF Strict, Policies
<1>6. GoodPlan(None)
  BY DEF GoodPlan
<1>7. PICK q : Attempt(r, policy', q) /\ call' = [call EXCEPT ![c] = q]
  <2>1. PICK po : po = policy'
    OBVIOUS
  <2>2. Begin(c, r, None, po) /\ po \in Policies
    BY <1>2, <1>5, <2>1
  <2> QED
    BY <1>1, <1>4, <1>6, <2>1, <2>2, BeginFacts
<1>8. GoodPlan(plan)'
  <2>1. PICK po : po = policy'
    OBVIOUS
  <2>2. Begin(c, r, None, po) /\ po \in Policies
    BY <1>2, <1>5, <2>1
  <2> QED
    BY <1>1, <1>4, <1>6, <2>2, BeginFacts
<1>9. Planning(q)' /\ Covered(q)' /\ Fresh(q)'
  <2>1. /\ r.at = now' /\ r.since <= config' /\ identified' <= r.since
        /\ last_frame' # None => last_frame'.at < now'
    BY <1>1, <1>3 DEF Fresh
  <2> QED
    BY <1>1, <1>4, <1>5, <1>7, <2>1, Attempted
<1>10. NamesSinceIdentify' /\ q \in Calls
  BY <1>1, <1>7 DEF NamesSinceIdentify, Attempt
<1> QED
  BY <1>1, <1>5, <1>7, <1>8, <1>9, <1>10, Continues

\* A rejected block that no fallback remedies reads only slots the operation is
\* for, so one of these is missing.
LEMMA IllegalFacts ==
  ASSUME IInv, NEW c \in Callers, ~Readable(c), call[c].pc # "idle",
         ~ShouldFallback(c), policy.fallback
  PROVE  ~(call[c].slots \subseteq device.inputs \cap device.discretes)
<1> DEFINE r == call[c]
<1>1. /\ r \in Calls /\ Planning(r)
      /\ policy \in Policies /\ channels \in (SUBSET Slots) \ {{}}
  BY Held DEF IInv, SweepTypeOK
<1>2. /\ r.pc \in {"input", "status"}
      /\ r.pc = "input" => ~(Block(c).span \subseteq device.inputs)
      /\ r.pc = "status" => ~(Block(c).span \subseteq device.discretes)
  BY <1>1 DEF Readable, Reading, Calls
<1>3. ~policy.gaps \/ r.op = "status"
  <2>1. r.op \in Planned \/ r.op = "status"
    BY <1>1, <1>2 DEF Planning, Ops
  <2>2. r.retried => ~policy.gaps
    BY <1>1 DEF Planning
  <2> QED
    BY <2>1, <2>2 DEF ShouldFallback
<1>4. Block(c).span \subseteq r.slots
  BY <1>1, <1>2, <1>3, BlockIn
<1> QED
  BY <1>2, <1>4

LEMMA IllegalStep ==
  ASSUME IInv, NEW c \in Callers, Illegal(c)
  PROVE  IInv'
<1>1. /\ call[c].pc # "idle" /\ ~Readable(c) /\ Rejected(c, "illegal")
      /\ UNCHANGED <<device, config, channels, metadata, last_frame, now, identified>>
  BY DEF Illegal, InTransaction, outside, bounds
<1>2. CASE ShouldFallback(c)
  BY <1>1, <1>2, FallbackStep DEF Rejected
<1>3. CASE ~ShouldFallback(c)
  <2>1. End(c, "illegal") /\ UNCHANGED <<policy, plan>>
    BY <1>1, <1>3 DEF Rejected
  <2>2. /\ channels \in (SUBSET Slots) \ {{}} /\ GoodPlan(plan)
        /\ identified \in Nat /\ identified <= config
        /\ metadata \in Names /\ NamesSinceIdentify
        /\ (last_frame # None => last_frame.at \in Nat /\ last_frame.at <= now)
    BY DEF IInv, SweepTypeOK
  <2>3. /\ GoodPlan(plan)' /\ NamesSinceIdentify'
        /\ (last_frame # None => last_frame.at \in Nat /\ last_frame.at <= now)'
    BY <1>1, <2>1, <2>2 DEF GoodPlan, NamesSinceIdentify
  <2>4. IllegalOnlyIfMissing'
    <3>1. rejected' = call[c].slots
      BY <2>1 DEF End
    <3>2. policy.fallback => ~(call[c].slots \subseteq device.inputs \cap device.discretes)
      BY <1>1, <1>3, IllegalFacts
    <3> QED
      BY <1>1, <2>1, <3>1, <3>2 DEF IllegalOnlyIfMissing
  <2> QED
    BY <1>1, <2>1, <2>2, <2>3, <2>4, Ends
<1> QED
  BY <1>2, <1>3

LEMMA TimesOutStep ==
  ASSUME IInv, NEW c \in Callers, TimesOut(c)
  PROVE  IInv'
<1>1. /\ call[c].pc # "idle" /\ Rejected(c, "timeout")
      /\ UNCHANGED <<device, config, channels, metadata, last_frame, now, identified>>
  BY DEF TimesOut, InTransaction, outside
<1>2. CASE ShouldFallback(c)
  BY <1>1, <1>2, FallbackStep DEF Rejected
<1>3. CASE ~ShouldFallback(c)
  <2>1. End(c, "timeout") /\ UNCHANGED <<policy, plan>> /\ "timeout" # "illegal"
    BY <1>1, <1>3 DEF Rejected
  <2>2. (last_frame # None => last_frame.at \in Nat /\ last_frame.at <= now)'
    BY <1>1 DEF IInv
  <2> QED
    BY <1>1, <2>1, <2>2, EndStep
<1> QED
  BY <1>2, <1>3

LEMMA BreaksStep ==
  ASSUME IInv, NEW c \in Callers, Breaks(c)
  PROVE  IInv'
<1>1. /\ call[c].pc # "idle" /\ End(c, "error") /\ "error" # "illegal"
      /\ UNCHANGED <<device, config, policy, now, channels, plan, identified, metadata,
                     last_frame>>
  BY DEF Breaks, InTransaction, outside
<1>2. (last_frame # None => last_frame.at \in Nat /\ last_frame.at <= now)'
  BY <1>1 DEF IInv
<1> QED
  BY <1>1, <1>2, EndStep

LEMMA ConfigureStep ==
  ASSUME IInv, Configure
  PROVE  IInv'
<1>1. PICK S \in SUBSET device.inputs : device' = [device EXCEPT !.named = S]
  BY DEF Configure
<1>2. /\ config' = config + 1
      /\ UNCHANGED <<channels, policy, metadata, plan, lock, call, rejected, last_frame,
                     now, identified>>
  BY DEF Configure, bounds
<1>3. SweepTypeOK /\ identified <= config /\ config \in Nat /\ identified \in Nat
  BY DEF IInv, SweepTypeOK
<1>4. /\ device' \in [inputs : SUBSET Slots, discretes : SUBSET Slots, named : SUBSET Slots]
      /\ device'.inputs = device.inputs /\ device'.discretes = device.discretes
  BY <1>1, <1>3 DEF SweepTypeOK
<1>5. SweepTypeOK'
  BY <1>2, <1>3, <1>4 DEF SweepTypeOK
<1>6. OneAtATime' /\ GoodPlan(plan)' /\ NamesSinceIdentify' /\ IllegalOnlyIfMissing'
      /\ (last_frame # None => last_frame.at \in Nat /\ last_frame.at <= now)'
  BY <1>2, <1>4
  DEF IInv, OneAtATime, GoodPlan, NamesSinceIdentify, IllegalOnlyIfMissing
<1>7. ASSUME NEW c \in Callers, call'[c].pc # "idle"
      PROVE  Planning(call[c])' /\ Covered(call[c])' /\ Fresh(call[c])'
  <2>1. /\ call[c] \in Calls /\ Planning(call[c]) /\ Covered(call[c]) /\ Fresh(call[c])
    BY <1>2, <1>7, Held
  <2>2. Planning(call[c])' /\ Covered(call[c])'
    BY <1>2, <2>1 DEF Planning, Covered, Wanted
  <2>3. call[c].since \in Nat
    BY <2>1 DEF Calls
  <2>4. Fresh(call[c])'
    BY <1>2, <1>3, <2>1, <2>3 DEF Fresh
  <2> QED
    BY <2>2, <2>4
<1>8. (identified <= config)'
  BY <1>2, <1>3
<1> QED
  BY <1>5, <1>6, <1>7, <1>8 DEF IInv

-----------------------------------------------------------------------------
\* The theorems

LEMMA StartsStep ==
  ASSUME IInv, NEW c \in Callers, Starts(c)
  PROVE  IInv'
<1>1. CASE \E op \in {"frame", "identify", "analyser"} : Start(c, op, {})
  <2>1. PICK op \in {"frame", "identify", "analyser"} : Start(c, op, {})
    BY <1>1
  <2>2. op \in Ops /\ op \notin {"channel", "status"} /\ {} \in SUBSET Slots
    BY DEF Ops, Planned
  <2> QED
    BY <2>1, <2>2, StartStep
<1>2. CASE \E op \in {"channel", "status"}, s \in Slots : Start(c, op, {s})
  <2>1. PICK op \in {"channel", "status"}, s \in Slots : Start(c, op, {s})
    BY <1>2
  <2>2. op \in Ops /\ op # "analyser" /\ {s} \in SUBSET Slots
    BY DEF Ops, Planned
  <2> QED
    BY <2>1, <2>2, StartStep
<1> QED
  BY <1>1, <1>2 DEF Starts

LEMMA NextIInv == IInv /\ [Next]_vars => IInv'
<1> SUFFICES ASSUME IInv, [Next]_vars
             PROVE  IInv'
  OBVIOUS
<1>1. ASSUME NEW c \in Callers, Starts(c)
      PROVE  IInv'
  BY <1>1, StartsStep
<1>2. ASSUME NEW c \in Callers, Step(c)
      PROVE  IInv'
  BY <1>2, ReadInputStep, ReadInputsStep, IdentifiedStep, ReadStatusStep, ReadStateStep,
     BuildReadingsStep, ReadAnalyserStep, IllegalStep, TimesOutStep, BreaksStep DEF Step
<1>3. CASE Configure
  BY <1>3, ConfigureStep
<1>4. CASE UNCHANGED vars
  BY <1>4 DEF vars, outside, bounds, IInv, SweepTypeOK, OneAtATime, GoodPlan, Planning,
     Covered, Fresh, Wanted, IllegalOnlyIfMissing, NamesSinceIdentify
<1> QED
  BY <1>1, <1>2, <1>3, <1>4 DEF Next

\* Every reachable state satisfies the inductive invariant: one operation at a
\* time, a cached plan that is the plan of its channels and policy, and an
\* operation that holds what it needs (client.py:414-491).
THEOREM SweepInvariance == Spec => []IInv
<1> QED
  BY InitIInv, NextIInv, PTL DEF Spec

\* No operation looks up a slot it has not read, for any table, any analyser
\* and any order of the operations (client.py:243-252).
THEOREM SlotsAreRead == Spec => []EverySlotRead
<1>1. IInv => EverySlotRead
  <2> SUFFICES ASSUME IInv, NEW c \in Callers
               PROVE  /\ Reading(c, "input") =>
                           Wanted(call[c]) \subseteq DOMAIN call[c].words \cup StillToRead(c)
                      /\ Reading(c, "status") =>
                           /\ Wanted(call[c]) \subseteq call[c].states \cup StillToRead(c)
                           /\ call[c].op # "status" => Complete(call[c])
    BY DEF EverySlotRead
  <2>1. call[c].pc # "idle" => Planning(call[c]) /\ Covered(call[c])
    BY DEF IInv
  <2> QED
    BY <2>1 DEF Reading, Planning, Covered, StillToRead, Complete
<1> QED
  BY <1>1, SweepInvariance, PTL

\* With fallback on, an illegal address that reaches the caller means that the
\* analyser lacks a slot the operation was for (client.py:440-459).
THEOREM IllegalMeansMissing == Spec => []IllegalOnlyIfMissing
<1>1. IInv => IllegalOnlyIfMissing
  BY DEF IInv
<1> QED
  BY <1>1, SweepInvariance, PTL

\* No cached name is older than the last identify that ended well
\* (client.py:319-345, 372-384).
THEOREM NamesAreRefreshed == Spec => []NamesSinceIdentify
<1>1. IInv => NamesSinceIdentify
  BY DEF IInv
<1> QED
  BY <1>1, SweepInvariance, PTL

\* The snapshot is only ever replaced by a sweep that began later
\* (session.py:108-113).
THEOREM SnapshotsInOrder == Spec => SnapshotInOrder
<1>1. IInv /\ [Next]_vars => [last_frame' # last_frame => LaterFrame]_vars
  <2> SUFFICES ASSUME IInv, Next, last_frame' # last_frame
               PROVE  LaterFrame
    OBVIOUS
  <2>1. PICK c \in Callers : Starts(c) \/ Step(c)
    BY DEF Next, Configure
  <2>2. ReadAnalyser(c)
    BY <2>1 DEF Starts, Start, Step, ReadInput, ReadInputs, Identified, ReadStatus, ReadState,
       BuildReadings, Illegal, TimesOut, Breaks
  <2> QED
    BY <2>2, ReadAnalyserStep
<1> QED
  BY <1>1, SweepInvariance, PTL DEF Spec, SnapshotInOrder

-----------------------------------------------------------------------------
\* Open: how a call stands

Stages == {"probe", "listen", "identify"} \* with a transport
Outs == {"ok", "error", "raised", "cancelled"}
Jobs == [pc : {"idle", "resolve"} \cup Stages, op : {"find", "open", Absent},
         src : Sources \cup {Absent}, queue : Seq(Sources), asked : Seq(Sources),
         results : Seq(Modes \cup {Absent}), protocol : Protocols, framing : Framings,
         tries : Nat, kind : Modes \cup {Absent}, out : Outs \cup {Absent}]

OpenTypeOK ==
  /\ mode \in [Sources -> Modes] /\ sent \in [Sources -> Nat]
  /\ wire \in [Sources -> Seq(Nat)] /\ buf \in [Sources -> Seq(Nat)]
  /\ opened \in SUBSET Ports /\ held \in SUBSET Ports /\ leaked \in SUBSET Ports
  /\ job \in Jobs
  /\ bad \in Nat

\* The port of the call that runs is nobody else's.
OwnPort ==
  job.pc \in Stages => job.src \notin held /\ job.src \notin leaked

\* The halves in a serial port are the last ones sent, in order; nothing
\* waits in a closed port or comes from an analyser that does not broadcast.
InOrder(q, last) ==
  /\ Len(q) <= last
  /\ \A i \in 1..Len(q) : q[i] = last - Len(q) + i - 1
Wires ==
  \A s \in Sources :
    /\ InOrder(wire[s], sent[s])
    /\ ~Usable(s) => wire[s] = <<>>
    /\ mode[s] # "continuous" => wire[s] = <<>> /\ buf[s] = <<>>

\* The halves in the buffer come right before those in the port.  Once a bad
\* line was read, the next line begins with the first half of a frame.
Reads == job.pc = "listen" \/ (job.pc = "identify" /\ job.kind = "continuous")
Unread(s) == sent[s] - Len(wire[s])
Buffered ==
  /\ job.pc = "probe" => buf[job.src] = <<>> /\ bad = 0
  /\ Reads => /\ InOrder(buf[job.src], Unread(job.src))
              /\ bad = 1 => (Unread(job.src) - Len(buf[job.src])) % 2 = 0
  /\ OneBadLine

\* What the call that runs has asked, recognised and still has to ask.
Progress ==
  /\ job.pc # "idle" => job.src \in Sources /\ job.op \in {"find", "open"} /\ job.out = Absent
  /\ job.op = "find" => job.src \in Sources
  /\ job.pc = "identify" =>
       /\ job.op = "find" /\ job.kind = mode[job.src]
       /\ job.kind \in Framings \cup {"continuous"}
       /\ job.kind = "continuous" => sent[job.src] > 1
  /\ job.pc # "idle" /\ job.op = "find" =>
       /\ Len(job.asked) = Len(job.results) + 1 + Len(job.queue)
       /\ job.asked[Len(job.results) + 1] = job.src
       /\ \A i \in 1..Len(job.queue) : job.queue[i] = job.asked[Len(job.results) + 1 + i]
       /\ \A i \in DOMAIN job.results : Recognised(i) => job.results[i] = mode[job.asked[i]]

LadderInv ==
  /\ OpenTypeOK
  /\ PortsAccounted /\ OwnPort
  /\ Wires /\ Buffered
  /\ Progress /\ SweepTells

-----------------------------------------------------------------------------
\* Halves in order

LEMMA Sent ==
  ASSUME NEW q \in Seq(Nat), NEW n \in Nat, InOrder(q, n)
  PROVE  Append(q, n) \in Seq(Nat) /\ InOrder(Append(q, n), n + 1)
<1>1. /\ Append(q, n) \in Seq(Nat) /\ Len(Append(q, n)) = Len(q) + 1 /\ Len(q) \in Nat
      /\ \A i \in 1..Len(q) : Append(q, n)[i] = q[i]
      /\ Append(q, n)[Len(q) + 1] = n
  BY AppendProperties
<1>2. \A i \in 1..(Len(q) + 1) : i \in 1..Len(q) \/ i = Len(q) + 1
  BY <1>1
<1> QED
  BY <1>1, <1>2 DEF InOrder

\* What is taken from the front of a run leaves a run, and is one.
LEMMA Parts ==
  ASSUME NEW q \in Seq(Nat), NEW last \in Nat, InOrder(q, last), NEW n \in 0..Len(q)
  PROVE  /\ SubSeq(q, n + 1, Len(q)) \in Seq(Nat) /\ SubSeq(q, 1, n) \in Seq(Nat)
         /\ Len(SubSeq(q, n + 1, Len(q))) = Len(q) - n
         /\ Len(SubSeq(q, 1, n)) = n
         /\ InOrder(SubSeq(q, n + 1, Len(q)), last)
         /\ \A i \in 1..n : SubSeq(q, 1, n)[i] = q[i]
<1> DEFINE t == SubSeq(q, n + 1, Len(q))
           f == SubSeq(q, 1, n)
<1>1. Len(q) \in Nat /\ n \in Nat /\ n <= Len(q) /\ Len(q) <= last
  BY DEF InOrder
<1>2. /\ t \in Seq(Nat) /\ Len(t) = Len(q) - n
      /\ \A i \in 1..Len(t) : t[i] = q[n + i]
  <2>1. \A i \in (n + 1)..Len(q) : q[i] \in Nat
    BY <1>1, ElementOfSeq
  <2> QED
    BY <1>1, <2>1, SubSeqProperties
<1>3. /\ f \in Seq(Nat) /\ Len(f) = n
      /\ \A i \in 1..n : f[i] = q[i]
  <2>1. \A i \in 1..n : q[i] \in Nat
    BY <1>1, ElementOfSeq
  <2> QED
    BY <1>1, <2>1, SubSeqProperties
<1> HIDE DEF t, f
<1>4. InOrder(t, last)
  <2>1. ASSUME NEW i \in 1..Len(t)
        PROVE  t[i] = last - Len(t) + i - 1
    <3>1. n + i \in 1..Len(q)
      BY <1>1, <1>2
    <3>2. q[n + i] = last - Len(q) + (n + i) - 1
      BY <3>1 DEF InOrder
    <3> QED
      BY <1>1, <1>2, <3>2
  <2> QED
    BY <1>1, <1>2, <2>1 DEF InOrder
<1> QED
  BY <1>2, <1>3, <1>4 DEF t, f

\* Received halves continue the buffer.
LEMMA Joined ==
  ASSUME NEW b \in Seq(Nat), NEW w \in Seq(Nat), NEW last \in Nat,
         InOrder(w, last), InOrder(b, last - Len(w)), NEW n \in 0..Len(w)
  PROVE  /\ b \o SubSeq(w, 1, n) \in Seq(Nat)
         /\ InOrder(b \o SubSeq(w, 1, n), last - (Len(w) - n))
         /\ Len(b \o SubSeq(w, 1, n)) = Len(b) + n
<1> DEFINE f == SubSeq(w, 1, n)
           j == b \o f
<1>1. /\ Len(b) \in Nat /\ Len(w) \in Nat /\ n \in Nat /\ n <= Len(w)
      /\ Len(w) <= last /\ Len(b) <= last - Len(w)
  BY DEF InOrder
<1>2. f \in Seq(Nat) /\ Len(f) = n /\ \A i \in 1..n : f[i] = w[i]
  BY Parts
<1> HIDE DEF f
<1>3. /\ j \in Seq(Nat) /\ Len(j) = Len(b) + n
      /\ \A i \in 1..Len(j) : j[i] = IF i <= Len(b) THEN b[i] ELSE f[i - Len(b)]
  <2>1. /\ j \in Seq(Nat) /\ Len(j) = Len(b) + Len(f)
        /\ \A i \in 1..Len(b) + Len(f) :
             j[i] = IF i <= Len(b) THEN b[i] ELSE f[i - Len(b)]
    BY <1>2, ConcatProperties
  <2> QED
    BY <1>2, <2>1
<1>4. ASSUME NEW i \in 1..Len(j)
      PROVE  j[i] = last - (Len(w) - n) - Len(j) + i - 1
  <2>1. CASE i <= Len(b)
    <3>1. j[i] = b[i] /\ i \in 1..Len(b)
      BY <1>1, <1>3, <2>1
    <3>2. b[i] = (last - Len(w)) - Len(b) + i - 1
      BY <3>1 DEF InOrder
    <3> QED
      BY <1>1, <1>3, <3>1, <3>2
  <2>2. CASE ~(i <= Len(b))
    <3>1. i - Len(b) \in 1..n /\ j[i] = f[i - Len(b)]
      BY <1>1, <1>3, <2>2
    <3>2. f[i - Len(b)] = w[i - Len(b)] /\ i - Len(b) \in 1..Len(w)
      BY <1>1, <1>2, <3>1
    <3>3. w[i - Len(b)] = last - Len(w) + (i - Len(b)) - 1
      BY <3>2 DEF InOrder
    <3> QED
      BY <1>1, <1>3, <3>1, <3>2, <3>3
  <2> QED
    BY <2>1, <2>2
<1> HIDE DEF j
<1>5. InOrder(j, last - (Len(w) - n))
  BY <1>1, <1>3, <1>4 DEF InOrder
<1> QED
  BY <1>3, <1>5 DEF j, f

LEMMA Parity ==
  ASSUME NEW n \in Nat
  PROVE  /\ n % 2 \in {0, 1}
         /\ n % 2 = 0 => (n + 1) % 2 = 1
         /\ n % 2 = 1 => (n + 1) % 2 = 0
         /\ n % 2 = 0 => (n + 2) % 2 = 0
OBVIOUS

\* The next line is a whole frame exactly if the buffer begins with the first
\* half of one; whatever it is, the first half of a frame comes next.
LEMMA LineFacts ==
  ASSUME NEW s, NEW last \in Nat, buf[s] \in Seq(Nat), InOrder(buf[s], last),
         Separators(s) # {}
  PROVE  LET rest == SubSeq(buf[s], Separator(s) + 1, Len(buf[s]))
         IN  /\ rest \in Seq(Nat) /\ InOrder(rest, last)
             /\ (last - Len(rest)) % 2 = 0
             /\ Whole(Line(s)) <=> (last - Len(buf[s])) % 2 = 0
             /\ Whole(Line(s)) => last > 1
<1>1. PICK b, first : b = buf[s] /\ first = last - Len(b)
  OBVIOUS
<1>2. /\ b \in Seq(Nat) /\ Len(b) \in Nat /\ first \in Nat
      /\ last = first + Len(b)
      /\ \A i \in 1..Len(b) : b[i] = first + i - 1
  <2>1. b \in Seq(Nat) /\ Len(b) \in Nat
    BY <1>1
  <2>2. Len(b) <= last /\ \A i \in 1..Len(b) : b[i] = last - Len(b) + i - 1
    BY <1>1 DEF InOrder
  <2>3. first \in Nat /\ last = first + Len(b)
    BY <1>1, <2>1, <2>2
  <2> QED
    BY <1>1, <2>1, <2>2, <2>3
<1>3. Separators(s) = {i \in 1..Len(b) : b[i] % 2 = 1}
  BY <1>1, <1>2 DEF Separators
<1>4. PICK k \in 1..Len(b) : b[k] % 2 = 1
  BY <1>3
<1>5. CASE first % 2 = 0
  <2>1. b[1] = first /\ Len(b) >= 2 /\ b[2] = first + 1
    <3>1. b[1] = first /\ k # 1
      BY <1>2, <1>4, <1>5, SMTT(30)
    <3> QED
      BY <1>2, <1>4, <3>1
  <2>2. b[1] % 2 = 0 /\ b[2] % 2 = 1
    BY <1>2, <1>5, <2>1, Parity
  <2>3. 2 \in Separators(s) /\ \A i \in Separators(s) : i \in Nat /\ 2 <= i
    <3>1. \A i \in 1..Len(b) : i # 1 => 2 <= i
      BY <1>2
    <3>2. 2 \in Separators(s)
      <4>1. 2 \in 1..Len(b)
        BY <1>2, <2>1
      <4> QED
        BY <1>3, <2>2, <4>1
    <3>3. \A i \in Separators(s) : i \in 1..Len(b) /\ i # 1
      BY <1>3, <2>2
    <3> QED
      BY <1>2, <3>1, <3>2, <3>3, SMTT(30)
  <2>4. Separator(s) = 2
    <3>1. \A i \in Separators(s) : (\A j \in Separators(s) : i <= j) => i = 2
      BY <2>3
    <3> QED
      BY <2>3, <3>1 DEF Separator
  <2>5. 2 \in 0..Len(b) /\ 2 + 1 = 3
    BY <1>2, <2>1
  <2>6. /\ SubSeq(b, 3, Len(b)) \in Seq(Nat) /\ InOrder(SubSeq(b, 3, Len(b)), last)
        /\ Len(SubSeq(b, 3, Len(b))) = Len(b) - 2
        /\ Len(SubSeq(b, 1, 2)) = 2
        /\ \A i \in 1..2 : SubSeq(b, 1, 2)[i] = b[i]
    BY <1>1, <2>5, Parts, SMTT(30)
  <2>7. Whole(Line(s))
    <3>1. Line(s) = SubSeq(b, 1, 2)
      BY <1>1, <2>4 DEF Line
    <3>2. SubSeq(b, 1, 2)[1] = first /\ SubSeq(b, 1, 2)[2] = first + 1
      BY <2>1, <2>6
    <3> QED
      BY <1>5, <2>6, <3>1, <3>2 DEF Whole
  <2>8. last - (Len(b) - 2) = first + 2 /\ last > 1 /\ last - Len(b) = first
    BY <1>2, <2>1
  <2>9. (first + 2) % 2 = 0
    BY <1>2, <1>5, Parity
  <2> QED
    BY <1>1, <1>5, <2>4, <2>5, <2>6, <2>7, <2>8, <2>9
<1>6. CASE first % 2 # 0
  <2>1. b[1] = first /\ 1 \in 1..Len(b) /\ first % 2 = 1
    BY <1>2, <1>4, <1>6, Parity
  <2>2. 1 \in Separators(s) /\ \A i \in Separators(s) : i \in Nat /\ 1 <= i
    BY <1>2, <1>3, <2>1, SMTT(30)
  <2>3. Separator(s) = 1
    <3>1. \A i \in Separators(s) : (\A j \in Separators(s) : i <= j) => i = 1
      BY <2>2
    <3> QED
      BY <2>2, <3>1 DEF Separator
  <2>4. 1 \in 0..Len(b) /\ 1 + 1 = 2
    BY <1>2, <2>1
  <2>5. /\ SubSeq(b, 2, Len(b)) \in Seq(Nat) /\ InOrder(SubSeq(b, 2, Len(b)), last)
        /\ Len(SubSeq(b, 2, Len(b))) = Len(b) - 1
        /\ Len(SubSeq(b, 1, 1)) = 1
    BY <1>1, <2>4, Parts
  <2>6. ~Whole(Line(s))
    <3>1. Line(s) = SubSeq(b, 1, 1)
      BY <1>1, <2>3 DEF Line
    <3> QED
      BY <2>5, <3>1 DEF Whole
  <2>7. last - (Len(b) - 1) = first + 1 /\ last - Len(b) = first
    BY <1>2, <2>1
  <2>8. (first + 1) % 2 = 0
    BY <1>2, <2>1, Parity
  <2> QED
    BY <1>1, <1>6, <2>3, <2>4, <2>5, <2>6, <2>7, <2>8
<1> QED
  BY <1>5, <1>6

-----------------------------------------------------------------------------
\* The calls

LEMMA QueueFacts ==
  ASSUME NEW T, NEW q \in Seq(T), q # <<>>
  PROVE  /\ Head(q) \in T /\ Tail(q) \in Seq(T) /\ Len(q) \in Nat /\ Len(q) >= 1
         /\ Head(q) = q[1] /\ Len(Tail(q)) = Len(q) - 1
         /\ \A i \in 1..Len(Tail(q)) : Tail(q)[i] = q[i + 1]
BY HeadTailProperties, EmptySeq

LEMMA NoJobFacts == NoJob \in Jobs /\ NoJob.pc = "idle" /\ NoJob.op = Absent
<1>1. <<>> \in Seq(Sources) /\ <<>> \in Seq(Modes \cup {Absent})
  OBVIOUS
<1> QED
  BY <1>1 DEF NoJob, Jobs, Protocols, Framings

\* How a call ends, or goes on with the next source.
LEMMA FinishStep ==
  ASSUME LadderInv, job.pc # "idle", NEW out \in Outs, Finish(out),
         mode' = mode, sent' = sent,
         buf' \in [Sources -> Seq(Nat)], bad' \in Nat, bad' <= 1,
         \A s \in Sources : mode[s] # "continuous" => buf'[s] = <<>>,
         job.pc = "resolve" => out \in {"error", "cancelled"},
         out = "ok" /\ job.op = "find" => job.pc = "identify",
         out = "raised" => mode[job.src] = "continuous" /\ sent[job.src] > 1
  PROVE  LadderInv'
<1>1. /\ OpenTypeOK /\ PortsAccounted /\ OwnPort /\ Wires /\ Progress
      /\ job \in Jobs /\ job.src \in Sources /\ job.op \in {"find", "open"}
      /\ job.pc \in {"resolve"} \cup Stages
  BY DEF LadderInv, OpenTypeOK, Progress, Jobs
<1>2. PICK s, mine, finds, goes_on :
        /\ s = job.src /\ mine = (s \in Ports /\ job.pc # "resolve")
        /\ finds = (job.op = "find")
        /\ goes_on = (finds /\ IsResult(out) /\ job.queue # <<>>)
        /\ mine \in BOOLEAN /\ finds \in BOOLEAN /\ goes_on \in BOOLEAN
  OBVIOUS
<1>3. PICK results :
        results = IF finds /\ IsResult(out)
                  THEN Append(job.results, IF out = "ok" THEN job.kind ELSE Absent)
                  ELSE job.results
  OBVIOUS
<1>4. PICK after :
        after = [NoJob EXCEPT !.op = job.op, !.src = s, !.asked = job.asked,
                              !.results = results]
  OBVIOUS
<1>5. /\ opened' = IF mine /\ Closes(out) THEN opened \ {s} ELSE opened
      /\ wire' = [wire EXCEPT ![s] = IF mine /\ Closes(out) THEN <<>> ELSE @]
      /\ held' = IF job.op = "open" /\ out = "ok" THEN held \cup ({s} \cap Ports) ELSE held
      /\ leaked' = IF job.op = "open" /\ out # "ok" /\ mine THEN leaked \cup {s} ELSE leaked
      /\ job' = IF goes_on
                THEN [after EXCEPT !.pc = "resolve", !.src = Head(job.queue),
                                   !.queue = Tail(job.queue)]
                ELSE [after EXCEPT !.kind = job.kind, !.out = out]
  BY <1>2, <1>3, <1>4 DEF Finish, At
<1>6. Closes(out) <=> (finds /\ s \in Ports)
  BY <1>2 DEF Closes
<1>7. results \in Seq(Modes \cup {Absent})
  <2>1. job.results \in Seq(Modes \cup {Absent}) /\ job.kind \in Modes \cup {Absent}
    BY <1>1 DEF Jobs
  <2> QED
    BY <1>3, <2>1
<1>8. /\ after \in Jobs /\ after.pc = "idle" /\ after.op = job.op /\ after.src = s
      /\ after.asked = job.asked /\ after.results = results
  <2>1. job.op \in {"find", "open", Absent} /\ s \in Sources \cup {Absent} /\ job.asked \in Seq(Sources)
    BY <1>1, <1>2 DEF Jobs
  <2> QED
    BY <1>4, <1>7, <2>1, NoJobFacts DEF Jobs
<1>9. /\ job' \in Jobs
      /\ job'.pc \in {"idle", "resolve"} /\ (job'.pc = "resolve" <=> goes_on)
      /\ job'.op = job.op /\ job'.asked = job.asked /\ job'.results = results
      /\ goes_on => /\ job'.src = Head(job.queue) /\ job'.queue = Tail(job.queue)
                    /\ job'.out = Absent
      /\ ~goes_on => job'.src = s /\ job'.out = out
  <2>1. CASE goes_on
    <3>1. /\ Head(job.queue) \in Sources \cup {Absent}
          /\ Tail(job.queue) \in Seq(Sources)
      BY <1>1, <1>2, <2>1, QueueFacts DEF Jobs
    <3>2. job' = [after EXCEPT !.pc = "resolve", !.src = Head(job.queue),
                               !.queue = Tail(job.queue)]
      BY <1>5, <2>1
    <3>3. after.out = Absent
      BY <1>4 DEF NoJob
    <3> QED
      BY <1>8, <2>1, <3>1, <3>2, <3>3 DEF Jobs
  <2>2. CASE ~goes_on
    <3>1. job' = [after EXCEPT !.kind = job.kind, !.out = out]
      BY <1>5, <2>2
    <3>2. job.kind \in Modes \cup {Absent}
      BY <1>1 DEF Jobs
    <3> QED
      BY <1>8, <2>2, <3>1, <3>2 DEF Jobs
  <2> QED
    BY <1>2, <2>1, <2>2
<1>10. OpenTypeOK'
  <2>1. wire' \in [Sources -> Seq(Nat)]
    <3>1. wire \in [Sources -> Seq(Nat)] /\ <<>> \in Seq(Nat)
      BY <1>1 DEF OpenTypeOK
    <3>2. CASE mine /\ Closes(out)
      BY <1>5, <3>1, <3>2
    <3>3. CASE ~(mine /\ Closes(out))
      <4>1. wire' = [wire EXCEPT ![s] = wire[s]]
        BY <1>5, <3>3
      <4>2. wire[s] \in Seq(Nat)
        BY <1>1, <1>2, <3>1
      <4> QED
        BY <3>1, <4>1, <4>2
    <3> QED
      BY <3>2, <3>3
  <2>2. /\ opened' \in SUBSET Ports /\ held' \in SUBSET Ports /\ leaked' \in SUBSET Ports
    BY <1>1, <1>2, <1>5 DEF OpenTypeOK
  <2> QED
    BY <1>1, <1>9, <2>1, <2>2 DEF OpenTypeOK
<1>11. PortsAccounted'
  <2>1. held \cap leaked = {}
    BY <1>1 DEF PortsAccounted
  <2>2. ~At("probe")' /\ (At("idle") \/ At("resolve"))'
    BY <1>9 DEF At
  <2>3. CASE job.pc = "resolve"
    <3>1. ~mine /\ opened = held \cup leaked /\ out # "ok"
      BY <1>1, <1>2, <2>3 DEF PortsAccounted, At
    <3> QED
      BY <1>5, <2>1, <2>2, <3>1 DEF PortsAccounted
  <2>4. CASE job.pc \in Stages
    <3>1. /\ opened = held \cup leaked \cup ({s} \cap Ports)
          /\ s \notin held /\ s \notin leaked /\ mine = (s \in Ports)
      BY <1>1, <1>2, <2>4 DEF PortsAccounted, OwnPort, At, Stages
    <3>2. CASE job.op = "find"
      <4>1. held' = held /\ leaked' = leaked /\ opened' = opened \ ({s} \cap Ports)
        BY <1>2, <1>5, <1>6, <3>1, <3>2
      <4> QED
        BY <2>1, <2>2, <3>1, <4>1 DEF PortsAccounted
    <3>3. CASE job.op = "open"
      <4>1. opened' = opened
        BY <1>2, <1>5, <1>6, <3>3
      <4>2. \/ held' = held \cup ({s} \cap Ports) /\ leaked' = leaked
            \/ held' = held /\ leaked' = leaked \cup ({s} \cap Ports)
        BY <1>2, <1>5, <3>1, <3>3
      <4> QED
        BY <2>1, <2>2, <3>1, <4>1, <4>2 DEF PortsAccounted
    <3> QED
      BY <1>1, <3>2, <3>3
  <2> QED
    BY <1>1, <2>3, <2>4
<1>12. OwnPort'
  BY <1>9 DEF OwnPort, Stages
<1>13. Wires'
  <2> SUFFICES ASSUME NEW t \in Sources
               PROVE  /\ InOrder(wire[t], sent[t])'
                      /\ ~Usable(t)' => wire'[t] = <<>>
                      /\ mode'[t] # "continuous" => wire'[t] = <<>> /\ buf'[t] = <<>>
    BY DEF Wires
  <2>1. /\ InOrder(wire[t], sent[t]) /\ wire[t] \in Seq(Nat) /\ sent[t] \in Nat
        /\ ~Usable(t) => wire[t] = <<>>
        /\ mode[t] # "continuous" => wire[t] = <<>>
    BY <1>1 DEF Wires, OpenTypeOK
  <2>2. CASE t = s /\ mine /\ Closes(out)
    <3>1. wire'[t] = <<>>
      BY <1>1, <1>5, <2>2 DEF OpenTypeOK
    <3> QED
      BY <2>1, <3>1 DEF InOrder
  <2>3. CASE ~(t = s /\ mine /\ Closes(out))
    <3>1. wire'[t] = wire[t] /\ (Usable(t) => Usable(t)')
      BY <1>1, <1>2, <1>5, <2>3 DEF OpenTypeOK, Usable
    <3> QED
      BY <2>1, <3>1 DEF InOrder
  <2> QED
    BY <2>2, <2>3
<1>14. Buffered'
  BY <1>9 DEF Buffered, Reads, OneBadLine
<1>15. /\ job.op = "find" =>
            /\ IsResult(out) => Len(results) = Len(job.results) + 1
            /\ \A i \in DOMAIN results :
                 results[i] # Absent => results[i] = mode[job.asked[i]]
       /\ Len(job.results) \in Nat /\ Len(results) \in Nat
  <2>1. job.results \in Seq(Modes \cup {Absent}) /\ Len(job.results) \in Nat
    BY <1>1 DEF Jobs
  <2>2. ASSUME job.op = "find"
        PROVE  /\ IsResult(out) => Len(results) = Len(job.results) + 1
               /\ \A i \in DOMAIN results :
                    results[i] # Absent => results[i] = mode[job.asked[i]]
    <3>1. /\ \A i \in DOMAIN job.results :
               job.results[i] # Absent => job.results[i] = mode[job.asked[i]]
          /\ job.asked[Len(job.results) + 1] = job.src
          /\ job.pc = "identify" => job.kind = mode[job.src]
      BY <1>1, <2>2 DEF Progress, Recognised
    <3>2. CASE ~IsResult(out)
      BY <1>2, <1>3, <3>1, <3>2
    <3>3. CASE IsResult(out)
      <4>1. PICK k : k = IF out = "ok" THEN job.kind ELSE Absent
        OBVIOUS
      <4>2. results = Append(job.results, k) /\ k \in Modes \cup {Absent}
        BY <1>1, <1>2, <1>3, <2>2, <3>3, <4>1 DEF Jobs
      <4>3. /\ Len(results) = Len(job.results) + 1
            /\ DOMAIN results = 1..Len(job.results) + 1
            /\ DOMAIN job.results = 1..Len(job.results)
            /\ \A i \in 1..Len(job.results) : results[i] = job.results[i]
            /\ results[Len(job.results) + 1] = k
        BY <2>1, <4>2, AppendProperties
      <4>4. k # Absent => k = mode[job.src]
        BY <2>2, <3>1, <4>1
      <4>5. \A i \in 1..Len(job.results) + 1 :
              i \in 1..Len(job.results) \/ i = Len(job.results) + 1
        BY <2>1
      <4> QED
        BY <3>1, <4>3, <4>4, <4>5
    <3> QED
      BY <3>2, <3>3
  <2> QED
    BY <1>7, <2>1, <2>2
<1>16. Progress'
  <2>1. CASE ~goes_on
    BY <1>1, <1>2, <1>9, <2>1 DEF Progress
  <2>2. CASE goes_on
    <3>1. /\ job.op = "find" /\ IsResult(out) /\ job.queue # <<>>
          /\ job.queue \in Seq(Sources) /\ job.asked \in Seq(Sources)
      BY <1>1, <1>2, <2>2 DEF Jobs
    <3>2. /\ Len(job.asked) = Len(job.results) + 1 + Len(job.queue)
          /\ \A i \in 1..Len(job.queue) : job.queue[i] = job.asked[Len(job.results) + 1 + i]
      BY <1>1, <3>1 DEF Progress
    <3>3. /\ Head(job.queue) \in Sources /\ Len(job.queue) \in Nat /\ Len(job.queue) >= 1
          /\ Head(job.queue) = job.queue[1] /\ Len(Tail(job.queue)) = Len(job.queue) - 1
          /\ \A i \in 1..Len(Tail(job.queue)) : Tail(job.queue)[i] = job.queue[i + 1]
      BY <3>1, QueueFacts
    <3>4. /\ job'.pc = "resolve" /\ job'.src = Head(job.queue) /\ job'.queue = Tail(job.queue)
          /\ job'.out = Absent /\ job'.op = "find" /\ job'.asked = job.asked
          /\ job'.results = results
      BY <1>9, <2>2, <3>1
    <3>9. Len(results) = Len(job.results) + 1 /\ Len(job.results) \in Nat
      BY <1>15, <3>1
    <3>5. Len(job'.asked) = Len(job'.results) + 1 + Len(job'.queue)
      <4>1. /\ Len(job'.asked) = Len(job.asked) /\ Len(job'.results) = Len(results)
            /\ Len(job'.queue) = Len(Tail(job.queue))
        BY <3>4
      <4>2. Len(job.asked) = (Len(job.results) + 1) + 1 + (Len(job.queue) - 1)
        <5>1. \A r, q \in Nat : r + 1 + q = (r + 1) + 1 + (q - 1)
          OBVIOUS
        <5>2. Len(job.results) \in Nat /\ Len(job.queue) \in Nat
          BY <3>3, <3>9
        <5> QED
          BY <3>2, <5>1, <5>2
      <4> QED
        BY <3>3, <3>9, <4>1, <4>2
    <3>6. job'.asked[Len(job'.results) + 1] = job'.src
      <4>1. 1 \in 1..Len(job.queue) /\ Len(results) + 1 = Len(job.results) + 1 + 1
        BY <1>15, <3>1, <3>3
      <4> QED
        BY <3>2, <3>3, <3>4, <4>1
    <3>7. ASSUME NEW i \in 1..Len(job'.queue)
          PROVE  job'.queue[i] = job'.asked[Len(job'.results) + 1 + i]
      <4>1. /\ i \in 1..Len(Tail(job.queue)) /\ i + 1 \in 1..Len(job.queue)
            /\ Len(results) + 1 + i = Len(job.results) + 1 + (i + 1)
        <5>1. i \in 1..(Len(job.queue) - 1) /\ i \in 1..Len(Tail(job.queue))
          BY <3>3, <3>4
        <5>2. i \in Nat /\ i + 1 \in 1..Len(job.queue)
          BY <3>3, <5>1
        <5>3. Len(results) + 1 + i = Len(job.results) + 1 + (i + 1)
          <6>1. \A r, k \in Nat : (r + 1) + 1 + k = r + 1 + (k + 1)
            OBVIOUS
          <6> QED
            BY <3>9, <5>2, <6>1
        <5> QED
          BY <5>1, <5>2, <5>3
      <4> QED
        BY <3>2, <3>3, <3>4, <4>1
    <3>8. \A i \in DOMAIN job'.results : Recognised(i)' => job'.results[i] = mode'[job'.asked[i]]
      BY <1>15, <3>1, <3>4 DEF Recognised
    <3> QED
      BY <3>3, <3>4, <3>5, <3>6, <3>7, <3>8 DEF Progress
  <2> QED
    BY <1>2, <2>1, <2>2
<1>17. SweepTells'
  <2> SUFFICES ASSUME job'.op = "find", job'.out # Absent
               PROVE  /\ \A i \in DOMAIN job'.results :
                           Recognised(i)' => job'.results[i] = mode'[job'.asked[i]]
                      /\ job'.out \notin {"raised", "cancelled"} => Len(job'.results) = Len(job'.asked)
                      /\ ExitCode' = 2 => \A i \in DOMAIN job'.asked : ~Recognised(i)'
                      /\ job'.out = "raised" => mode'[job'.src] = "continuous" /\ sent'[job'.src] > 1
    BY DEF SweepTells
  <2>1. ~goes_on /\ job.op = "find" /\ finds /\ job'.out = out /\ job'.src = job.src
    BY <1>2, <1>9
  <2>2. \A i \in DOMAIN job'.results :
          Recognised(i)' => job'.results[i] = mode'[job'.asked[i]]
    BY <1>9, <1>15, <2>1 DEF Recognised
  <2>3. job'.out \notin {"raised", "cancelled"} => Len(job'.results) = Len(job'.asked)
    <3> SUFFICES ASSUME out \notin {"raised", "cancelled"}
                 PROVE  Len(results) = Len(job.asked)
      BY <1>9, <2>1
    <3>1. IsResult(out) /\ job.queue = <<>>
      BY <1>2, <2>1 DEF IsResult, Outs
    <3>2. Len(job.asked) = Len(job.results) + 1 + Len(job.queue) /\ Len(job.queue) = 0
      BY <1>1, <2>1, <3>1 DEF Progress
    <3> QED
      BY <1>15, <2>1, <3>1, <3>2
  <2>4. ExitCode' = 2 => \A i \in DOMAIN job'.asked : ~Recognised(i)'
    <3> SUFFICES ASSUME ExitCode' = 2
                 PROVE  \A i \in DOMAIN job'.asked : ~Recognised(i)'
      OBVIOUS
    <3>1. out # "cancelled" /\ out # "raised"
      BY <2>1, OpenAssumption DEF ExitCode
    <3>2. out \in {"ok", "error"}
      BY <3>1 DEF Outs
    <3>3. \A i \in DOMAIN job'.results : job'.results[i] = Absent
      BY <2>1, <3>2 DEF ExitCode
    <3>4. DOMAIN job'.asked = DOMAIN job'.results
      <4>1. Len(job'.results) = Len(job'.asked)
        BY <2>1, <2>3, <3>1
      <4>2. job'.results \in Seq(Modes \cup {Absent}) /\ job'.asked \in Seq(Sources)
        BY <1>9 DEF Jobs
      <4> QED
        BY <4>1, <4>2
    <3> QED
      BY <3>3, <3>4 DEF Recognised
  <2> QED
    BY <2>1, <2>2, <2>3, <2>4
<1> QED
  BY <1>10, <1>11, <1>12, <1>13, <1>14, <1>16, <1>17 DEF LadderInv

-----------------------------------------------------------------------------
\* The steps

LEMMA InitLadder == OpenInit => LadderInv
<1> SUFFICES ASSUME OpenInit
             PROVE  LadderInv
  OBVIOUS
<1>1. /\ job = NoJob /\ bad = 0 /\ opened = {} /\ held = {} /\ leaked = {}
      /\ \A s \in Sources : wire[s] = <<>> /\ buf[s] = <<>>
      /\ sent \in [Sources -> {0, 1}]
  BY DEF OpenInit
<1>2. OpenTypeOK
  <2>1. <<>> \in Seq(Nat)
    OBVIOUS
  <2>2. wire \in [Sources -> Seq(Nat)] /\ buf \in [Sources -> Seq(Nat)]
    BY <2>1 DEF OpenInit
  <2>3. sent \in [Sources -> Nat] /\ mode \in [Sources -> Modes]
    BY <1>1 DEF OpenInit
  <2> QED
    BY <1>1, <2>2, <2>3, NoJobFacts DEF OpenTypeOK
<1>3. PortsAccounted /\ OwnPort
  BY <1>1, NoJobFacts DEF PortsAccounted, OwnPort, Stages, At
<1>4. Wires
  BY <1>1 DEF Wires, InOrder
<1>5. Buffered
  BY <1>1, NoJobFacts DEF Buffered, Reads, OneBadLine
<1>6. Progress
  BY <1>1, NoJobFacts, OpenAssumption DEF Progress
<1>7. SweepTells
  BY <1>1 DEF SweepTells, NoJob
<1> QED
  BY <1>2, <1>3, <1>4, <1>5, <1>6, <1>7 DEF LadderInv

\* What holds of the source of a call that has its transport.
LEMMA Active ==
  ASSUME LadderInv, job.pc \in Stages
  PROVE  LET s == job.src
         IN  /\ s \in Sources /\ Usable(s)
             /\ wire[s] \in Seq(Nat) /\ buf[s] \in Seq(Nat) /\ sent[s] \in Nat
             /\ InOrder(wire[s], sent[s]) /\ Unread(s) \in Nat
             /\ (mode[s] # "continuous" => buf[s] = <<>> /\ wire[s] = <<>>)
             /\ job.op \in {"find", "open"} /\ job.out = Absent
             /\ opened = held \cup leaked \cup ({s} \cap Ports)
             /\ s \notin held /\ s \notin leaked
<1>1. job.pc # "idle" /\ job.pc # "resolve"
  BY DEF Stages
<1>2. /\ job.src \in Sources /\ job.op \in {"find", "open"} /\ job.out = Absent
  BY <1>1 DEF LadderInv, Progress
<1>3. /\ opened = held \cup leaked \cup ({job.src} \cap Ports)
      /\ job.src \notin held /\ job.src \notin leaked
  BY <1>1 DEF LadderInv, PortsAccounted, OwnPort, At
<1>4. Usable(job.src)
  BY <1>2, <1>3 DEF Usable, Sources
<1>5. /\ wire[job.src] \in Seq(Nat) /\ buf[job.src] \in Seq(Nat) /\ sent[job.src] \in Nat
  BY <1>2 DEF LadderInv, OpenTypeOK
<1>6. /\ InOrder(wire[job.src], sent[job.src])
      /\ mode[job.src] # "continuous" => buf[job.src] = <<>> /\ wire[job.src] = <<>>
  BY <1>2 DEF LadderInv, Wires
<1>7. Unread(job.src) \in Nat
  BY <1>5, <1>6 DEF Unread, InOrder
<1> QED
  BY <1>2, <1>3, <1>4, <1>5, <1>6, <1>7

LEMMA ArriveStep ==
  ASSUME LadderInv, NEW s \in Sources, Arrive(s)
  PROVE  LadderInv'
<1>1. /\ mode[s] = "continuous"
      /\ sent' = [sent EXCEPT ![s] = @ + 1]
      /\ wire' = [wire EXCEPT ![s] = IF Usable(s) THEN Append(@, sent[s]) ELSE @]
      /\ UNCHANGED <<mode, buf, opened, held, leaked, job, bad>>
  BY DEF Arrive, port
<1>2. OpenTypeOK /\ PortsAccounted /\ OwnPort /\ Wires /\ Buffered /\ Progress /\ SweepTells
  BY DEF LadderInv
<1>3. /\ wire \in [Sources -> Seq(Nat)] /\ sent \in [Sources -> Nat]
      /\ mode \in [Sources -> Modes]
  BY <1>2 DEF OpenTypeOK
<1>4. /\ sent' \in [Sources -> Nat] /\ sent'[s] = sent[s] + 1
      /\ \A t \in Sources : t # s => sent'[t] = sent[t]
  BY <1>1, <1>3
<1>5. /\ Append(wire[s], sent[s]) \in Seq(Nat)
      /\ InOrder(Append(wire[s], sent[s]), sent[s] + 1)
      /\ Len(Append(wire[s], sent[s])) = Len(wire[s]) + 1
  BY <1>2, <1>3, Sent DEF Wires
<1>6. /\ wire' \in [Sources -> Seq(Nat)]
      /\ Usable(s) => wire'[s] = Append(wire[s], sent[s])
      /\ ~Usable(s) => wire'[s] = wire[s]
      /\ \A t \in Sources : t # s => wire'[t] = wire[t]
  <2>1. CASE Usable(s)
    BY <1>1, <1>3, <1>5, <2>1
  <2>2. CASE ~Usable(s)
    <3>1. wire' = [wire EXCEPT ![s] = wire[s]]
      BY <1>1, <2>2
    <3> QED
      BY <1>3, <2>2, <3>1
  <2> QED
    BY <2>1, <2>2
<1>7. OpenTypeOK'
  BY <1>1, <1>2, <1>4, <1>6 DEF OpenTypeOK
<1>8. PortsAccounted' /\ OwnPort'
  BY <1>1, <1>2 DEF PortsAccounted, OwnPort, At
<1>9. Wires'
  <2> SUFFICES ASSUME NEW t \in Sources
               PROVE  /\ InOrder(wire[t], sent[t])'
                      /\ ~Usable(t)' => wire'[t] = <<>>
                      /\ mode'[t] # "continuous" => wire'[t] = <<>> /\ buf'[t] = <<>>
    BY DEF Wires
  <2>1. /\ InOrder(wire[t], sent[t]) /\ sent[t] \in Nat
        /\ ~Usable(t) => wire[t] = <<>>
        /\ mode[t] # "continuous" => wire[t] = <<>> /\ buf[t] = <<>>
    BY <1>2, <1>3 DEF Wires
  <2>2. Usable(t)' = Usable(t)
    BY <1>1 DEF Usable
  <2>3. CASE t # s
    BY <1>1, <1>4, <1>6, <2>1, <2>2, <2>3 DEF InOrder
  <2>4. CASE t = s /\ Usable(s)
    BY <1>1, <1>4, <1>5, <1>6, <2>2, <2>4 DEF InOrder
  <2>5. CASE t = s /\ ~Usable(s)
    BY <1>1, <1>4, <1>6, <2>1, <2>2, <2>5 DEF InOrder
  <2> QED
    BY <2>3, <2>4, <2>5
<1>10. Buffered'
  <2>1. CASE ~Reads
    BY <1>1, <1>2, <2>1 DEF Buffered, Reads, OneBadLine
  <2>2. CASE Reads
    <3>1. /\ job.pc \in Stages /\ job.pc # "probe"
      BY <2>2 DEF Reads, Stages
    <3>2. job.src \in Sources /\ Usable(job.src) /\ Unread(job.src) \in Nat
      BY <3>1, Active
    <3>3. Unread(job.src)' = Unread(job.src)
      <4>1. CASE job.src = s
        <5>1. Len(wire'[s]) = Len(wire[s]) + 1 /\ sent'[s] = sent[s] + 1
          BY <1>4, <1>5, <1>6, <3>2, <4>1
        <5>2. Len(wire[s]) \in Nat /\ sent[s] \in Nat
          BY <1>3
        <5> QED
          BY <1>1, <4>1, <5>1, <5>2 DEF Unread
      <4>2. CASE job.src # s
        BY <1>1, <1>4, <1>6, <3>2, <4>2 DEF Unread
      <4> QED
        BY <4>1, <4>2
    <3> QED
      BY <1>1, <1>2, <2>2, <3>1, <3>3 DEF Buffered, Reads, OneBadLine, InOrder
  <2> QED
    BY <2>1, <2>2
<1>11. ASSUME NEW t \in Sources, sent[t] > 1
       PROVE  sent'[t] > 1
  <2>1. sent[s] \in Nat /\ sent[t] \in Nat
    BY <1>3
  <2>2. CASE t = s
    BY <1>4, <1>11, <2>1, <2>2
  <2>3. CASE t # s
    BY <1>4, <1>11, <2>3
  <2> QED
    BY <2>2, <2>3
<1>12. Progress'
  BY <1>1, <1>2, <1>11 DEF Progress, Recognised
<1>13. SweepTells'
  <2>1. job.op = "find" => job.src \in Sources
    BY <1>2 DEF Progress
  <2> QED
    BY <1>1, <1>2, <1>11, <2>1 DEF SweepTells, Recognised, ExitCode
<1> QED
  BY <1>7, <1>8, <1>9, <1>10, <1>12, <1>13 DEF LadderInv

\* The call goes on with its transport.
LEMMA OnStep ==
  ASSUME LadderInv, job.pc \in Stages, UNCHANGED <<mode, sent, opened, held, leaked>>,
         job' \in Jobs, job'.pc \in Stages,
         job'.op = job.op, job'.src = job.src, job'.queue = job.queue,
         job'.asked = job.asked, job'.results = job.results, job'.out = job.out,
         job'.pc = "identify" =>
           /\ job'.op = "find" /\ job'.kind = mode[job.src]
           /\ job'.kind \in Framings \cup {"continuous"}
           /\ job'.kind = "continuous" => sent[job.src] > 1,
         wire' \in [Sources -> Seq(Nat)], buf' \in [Sources -> Seq(Nat)], bad' \in Nat,
         Wires', Buffered'
  PROVE  LadderInv'
<1>1. OpenTypeOK /\ PortsAccounted /\ OwnPort /\ Progress
  BY DEF LadderInv
<1>2. job.pc # "idle" /\ job.pc # "resolve" /\ job'.pc # "idle" /\ job'.pc # "resolve"
  BY DEF Stages
<1>3. OpenTypeOK'
  BY <1>1 DEF OpenTypeOK
<1>4. PortsAccounted' /\ OwnPort'
  BY <1>1, <1>2 DEF PortsAccounted, OwnPort, At
<1>5. Progress'
  BY <1>1, <1>2 DEF Progress, Recognised
<1>6. SweepTells'
  BY <1>1, <1>2 DEF Progress, SweepTells
<1> QED
  BY <1>3, <1>4, <1>5, <1>6 DEF LadderInv

\* A line read by the call that runs.
LEMMA ReadFacts ==
  ASSUME LadderInv, Reads, ReadLine(job.src)
  PROVE  LET s == job.src
         IN  /\ buf' \in [Sources -> Seq(Nat)]
             /\ \A t \in Sources : t # s => buf'[t] = buf[t]
             /\ bad' \in Nat /\ bad' <= 1
             /\ mode[s] = "continuous"
             /\ InOrder(buf'[s], Unread(s)) /\ (Unread(s) - Len(buf'[s])) % 2 = 0
             /\ Whole(Line(s)) => sent[s] > 1
<1>1. PICK s : s = job.src
  OBVIOUS
<1>2. job.pc \in Stages
  BY DEF Reads, Stages
<1>3. /\ s \in Sources /\ wire[s] \in Seq(Nat) /\ buf[s] \in Seq(Nat) /\ sent[s] \in Nat
      /\ Unread(s) \in Nat /\ InOrder(wire[s], sent[s])
      /\ mode[s] # "continuous" => buf[s] = <<>>
  BY <1>1, <1>2, Active
<1>4. /\ Separators(s) # {}
      /\ buf' = [buf EXCEPT ![s] = SubSeq(buf[s], Separator(s) + 1, Len(buf[s]))]
      /\ bad' = IF Whole(Line(s)) THEN bad ELSE bad + 1
  BY <1>1 DEF ReadLine, Take
<1>5. /\ InOrder(buf[s], Unread(s))
      /\ bad = 1 => (Unread(s) - Len(buf[s])) % 2 = 0
      /\ bad \in Nat /\ bad <= 1 /\ buf \in [Sources -> Seq(Nat)]
  BY <1>1 DEF LadderInv, Buffered, OneBadLine, OpenTypeOK
<1>6. PICK rest : rest = SubSeq(buf[s], Separator(s) + 1, Len(buf[s]))
  OBVIOUS
<1>7. /\ rest \in Seq(Nat) /\ InOrder(rest, Unread(s))
      /\ (Unread(s) - Len(rest)) % 2 = 0
      /\ Whole(Line(s)) <=> (Unread(s) - Len(buf[s])) % 2 = 0
      /\ Whole(Line(s)) => Unread(s) > 1
  BY <1>3, <1>4, <1>5, <1>6, LineFacts
<1>8. buf' \in [Sources -> Seq(Nat)] /\ buf'[s] = rest /\ \A t \in Sources : t # s => buf'[t] = buf[t]
  BY <1>3, <1>4, <1>5, <1>6, <1>7
<1>9. bad' \in Nat /\ bad' <= 1
  BY <1>4, <1>5, <1>7
<1>10. mode[s] = "continuous"
  <2>1. buf[s] # <<>>
    BY <1>4 DEF Separators
  <2> QED
    BY <1>3, <2>1
<1>11. Unread(s) <= sent[s]
  BY <1>3 DEF Unread
<1>12. Whole(Line(s)) => sent[s] > 1
  BY <1>3, <1>7, <1>11
<1> QED
  BY <1>1, <1>7, <1>8, <1>9, <1>10, <1>12

LEMMA CloseStep ==
  ASSUME LadderInv, NEW s \in Sources, CloseDevice(s)
  PROVE  LadderInv'
<1>1. /\ s \in held /\ held' = held \ {s} /\ opened' = opened \ {s}
      /\ wire' = [wire EXCEPT ![s] = <<>>] /\ buf' = [buf EXCEPT ![s] = <<>>]
      /\ UNCHANGED <<mode, sent, leaked, job, bad>>
  BY DEF CloseDevice
<1>2. OpenTypeOK /\ PortsAccounted /\ OwnPort /\ Wires /\ Buffered /\ Progress /\ SweepTells
  BY DEF LadderInv
<1>3. /\ wire \in [Sources -> Seq(Nat)] /\ buf \in [Sources -> Seq(Nat)]
      /\ sent \in [Sources -> Nat]
  BY <1>2 DEF OpenTypeOK
<1>4. /\ wire' \in [Sources -> Seq(Nat)] /\ buf' \in [Sources -> Seq(Nat)]
      /\ wire'[s] = <<>> /\ buf'[s] = <<>>
      /\ \A t \in Sources : t # s => wire'[t] = wire[t] /\ buf'[t] = buf[t]
  <2>1. <<>> \in Seq(Nat)
    OBVIOUS
  <2> QED
    BY <1>1, <1>3, <2>1
<1>5. OpenTypeOK'
  BY <1>1, <1>2, <1>4 DEF OpenTypeOK
<1>6. PortsAccounted' /\ OwnPort'
  <2>1. CASE job.pc = "idle" \/ job.pc = "resolve"
    BY <1>1, <1>2, <2>1 DEF PortsAccounted, OwnPort, Stages, At
  <2>2. CASE job.pc # "idle" /\ job.pc # "resolve"
    <3>1. job.pc \in Stages
      BY <1>2, <2>2 DEF OpenTypeOK, Jobs
    <3>2. job.src # s
      BY <1>1, <1>2, <3>1 DEF OwnPort
    <3> QED
      BY <1>1, <1>2, <2>2, <3>1, <3>2 DEF PortsAccounted, OwnPort, At
  <2> QED
    BY <2>1, <2>2
<1>7. Wires'
  <2> SUFFICES ASSUME NEW t \in Sources
               PROVE  /\ InOrder(wire[t], sent[t])'
                      /\ ~Usable(t)' => wire'[t] = <<>>
                      /\ mode'[t] # "continuous" => wire'[t] = <<>> /\ buf'[t] = <<>>
    BY DEF Wires
  <2>1. CASE t = s
    BY <1>1, <1>3, <1>4, <2>1 DEF InOrder
  <2>2. CASE t # s
    BY <1>1, <1>2, <1>4, <2>2 DEF InOrder, Wires, Usable
  <2> QED
    BY <2>1, <2>2
<1>8. Buffered'
  <2>1. CASE job.pc \in Stages
    <3>1. job.src # s /\ job.src \in Sources
      BY <1>1, <2>1, Active
    <3>2. buf'[job.src] = buf[job.src] /\ Unread(job.src)' = Unread(job.src)
      BY <1>1, <1>4, <3>1 DEF Unread
    <3> QED
      BY <1>1, <1>2, <3>2 DEF Buffered, Reads, OneBadLine, InOrder
  <2>2. CASE job.pc \notin Stages
    BY <1>1, <1>2, <2>2 DEF Buffered, Reads, OneBadLine, Stages
  <2> QED
    BY <2>1, <2>2
<1>9. Progress' /\ SweepTells'
  BY <1>1, <1>2 DEF Progress, SweepTells, Recognised, ExitCode
<1> QED
  BY <1>5, <1>6, <1>7, <1>8, <1>9 DEF LadderInv

\* A call that begins, with nothing recognised.
LEMMA BeginStep ==
  ASSUME LadderInv, At("idle"), UNCHANGED <<mode, line, port>>,
         job' \in Jobs, job'.pc = "resolve", job'.out = Absent, job'.src \in Sources,
         job'.op \in {"find", "open"}, job'.results = <<>>,
         job'.op = "find" =>
           /\ Len(job'.asked) = 1 + Len(job'.queue) /\ job'.asked[1] = job'.src
           /\ \A i \in 1..Len(job'.queue) : job'.queue[i] = job'.asked[i + 1]
  PROVE  LadderInv'
<1>1. OpenTypeOK /\ PortsAccounted /\ Wires /\ Buffered
  BY DEF LadderInv
<1>2. OpenTypeOK' /\ PortsAccounted' /\ OwnPort' /\ Wires'
  BY <1>1 DEF OpenTypeOK, PortsAccounted, OwnPort, Wires, Usable, InOrder, At, Stages, line, port
<1>3. Buffered'
  BY <1>1 DEF Buffered, Reads, OneBadLine, line
<1>4. Len(job'.results) = 0 /\ DOMAIN job'.results = {}
  OBVIOUS
<1>5. Progress'
  <2>1. ASSUME job'.op = "find"
        PROVE  /\ Len(job'.asked) = Len(job'.results) + 1 + Len(job'.queue)
               /\ job'.asked[Len(job'.results) + 1] = job'.src
               /\ \A i \in 1..Len(job'.queue) :
                    job'.queue[i] = job'.asked[Len(job'.results) + 1 + i]
    <3>1. Len(job'.queue) \in Nat
      BY DEF Jobs
    <3>2. \A i \in 1..Len(job'.queue) : 0 + 1 + i = i + 1
      BY <3>1
    <3> QED
      BY <1>4, <2>1, <3>1, <3>2
  <2> QED
    BY <1>4, <2>1 DEF Progress
<1>6. SweepTells'
  BY DEF SweepTells
<1> QED
  BY <1>2, <1>3, <1>5, <1>6 DEF LadderInv

LEMMA FindStep ==
  ASSUME LadderInv, NEW queue \in Queues, Find(queue)
  PROVE  LadderInv'
<1>1. queue \in Seq(Sources) /\ queue # <<>>
  <2>1. PICK n \in 1..Cardinality(Sources) : queue \in [1..n -> Sources]
    BY DEF Queues
  <2>2. n \in Nat
    BY <2>1
  <2> QED
    BY <2>1, <2>2 DEF Find
<1>2. /\ Head(queue) \in Sources /\ Tail(queue) \in Seq(Sources) /\ Len(queue) \in Nat
      /\ Head(queue) = queue[1] /\ Len(Tail(queue)) = Len(queue) - 1 /\ Len(queue) >= 1
      /\ \A i \in 1..Len(Tail(queue)) : Tail(queue)[i] = queue[i + 1]
  BY <1>1, QueueFacts
<1>3. job' = [NoJob EXCEPT !.op = "find", !.pc = "resolve",
                           !.src = Head(queue), !.queue = Tail(queue), !.asked = queue]
  BY DEF Find
<1>4. /\ job' \in Jobs /\ job'.pc = "resolve" /\ job'.op = "find" /\ job'.src = queue[1]
      /\ job'.queue = Tail(queue) /\ job'.asked = queue
      /\ job'.results = <<>> /\ job'.out = Absent
  BY <1>1, <1>2, <1>3, NoJobFacts DEF Jobs, NoJob
<1>5. Len(queue) = 1 + (Len(queue) - 1)
  BY <1>2
<1> QED
  BY <1>2, <1>4, <1>5, BeginStep DEF Find

LEMMA OpenStep ==
  ASSUME LadderInv, NEW s \in Sources, NEW protocol \in Protocols, OpenDevice(s, protocol)
  PROVE  LadderInv'
<1>1. job' = [NoJob EXCEPT !.op = "open", !.pc = "resolve", !.src = s, !.protocol = protocol]
  BY DEF OpenDevice
<1>2. /\ job' \in Jobs /\ job'.pc = "resolve" /\ job'.op = "open" /\ job'.src = s
      /\ job'.results = <<>> /\ job'.out = Absent
  BY <1>1, NoJobFacts DEF Jobs, NoJob
<1> QED
  BY <1>2, BeginStep DEF OpenDevice

\* A call that gets its transport: the port was nobody's.
LEMMA Taken ==
  ASSUME LadderInv, At("resolve"), job.src \in Given \/ CanOpen(job.src)
  PROVE  /\ job.src \in Sources /\ job.op \in {"find", "open"} /\ job.out = Absent
         /\ job.src \notin held /\ job.src \notin leaked
         /\ opened = held \cup leaked
<1>1. job.src \in Sources /\ job.op \in {"find", "open"} /\ job.out = Absent
  BY DEF LadderInv, Progress, At
<1>2. /\ opened = held \cup leaked
      /\ opened \in SUBSET Ports /\ held \in SUBSET Ports /\ leaked \in SUBSET Ports
  BY DEF LadderInv, PortsAccounted, OpenTypeOK
<1> QED
  BY <1>1, <1>2, OpenAssumption DEF CanOpen

LEMMA ResolveStep ==
  ASSUME LadderInv, Resolve
  PROVE  LadderInv'
<1>1. PICK s : s = job.src
  OBVIOUS
<1>2. /\ opened' = opened \cup ({s} \cap Ports)
      /\ buf' = [buf EXCEPT ![s] = <<>>] /\ bad' = 0
      /\ job' = [job EXCEPT !.pc = "probe"]
      /\ UNCHANGED <<mode, sent, wire, held, leaked>>
  BY <1>1 DEF Resolve, Drain, Go
<1>3. OpenTypeOK /\ PortsAccounted /\ Wires /\ Progress
  BY DEF LadderInv
<1>4. /\ s \in Sources /\ job.op \in {"find", "open"} /\ job.out = Absent
      /\ s \notin held /\ s \notin leaked /\ opened = held \cup leaked
  BY <1>1, Taken DEF Resolve
<1>5. job.pc = "resolve" /\ job \in Jobs /\ buf \in [Sources -> Seq(Nat)]
  BY <1>3 DEF Resolve, At, OpenTypeOK
<1>6. /\ job' \in Jobs /\ job'.pc = "probe" /\ job'.op = job.op /\ job'.src = s
      /\ job'.queue = job.queue /\ job'.asked = job.asked /\ job'.results = job.results
      /\ job'.out = Absent
  BY <1>1, <1>2, <1>4, <1>5 DEF Jobs, Stages
<1>7. /\ buf' \in [Sources -> Seq(Nat)] /\ buf'[s] = <<>>
      /\ \A t \in Sources : t # s => buf'[t] = buf[t]
  <2>1. <<>> \in Seq(Nat)
    OBVIOUS
  <2> QED
    BY <1>2, <1>4, <1>5, <2>1
<1>8. OpenTypeOK'
  BY <1>2, <1>3, <1>6, <1>7 DEF OpenTypeOK
<1>9. PortsAccounted' /\ OwnPort'
  BY <1>2, <1>3, <1>4, <1>6 DEF PortsAccounted, OwnPort, At
<1>10. Wires'
  BY <1>2, <1>3, <1>7 DEF Wires, InOrder, Usable
<1>11. Buffered'
  BY <1>2, <1>6, <1>7 DEF Buffered, Reads, OneBadLine
<1>12. Progress'
  BY <1>1, <1>2, <1>3, <1>4, <1>5, <1>6 DEF Progress, Recognised
<1>13. SweepTells'
  BY <1>6 DEF SweepTells
<1> QED
  BY <1>8, <1>9, <1>10, <1>11, <1>12, <1>13 DEF LadderInv

LEMMA ResolveExplicitStep ==
  ASSUME LadderInv, ResolveExplicit
  PROVE  LadderInv'
<1>1. PICK s : s = job.src
  OBVIOUS
<1>2. /\ opened' = opened \cup ({s} \cap Ports) /\ held' = held \cup ({s} \cap Ports)
      /\ job' = NoJob
      /\ UNCHANGED <<mode, sent, wire, buf, bad, leaked>>
  BY <1>1 DEF ResolveExplicit, line
<1>3. OpenTypeOK /\ PortsAccounted /\ Wires /\ Buffered
  BY DEF LadderInv
<1>4. s \in Sources /\ s \notin held /\ s \notin leaked /\ opened = held \cup leaked
  BY <1>1, Taken DEF ResolveExplicit
<1>5. OpenTypeOK'
  BY <1>2, <1>3, NoJobFacts DEF OpenTypeOK
<1>6. PortsAccounted' /\ OwnPort'
  BY <1>2, <1>3, <1>4, NoJobFacts DEF PortsAccounted, OwnPort, At, Stages
<1>7. Wires'
  BY <1>2, <1>3 DEF Wires, InOrder, Usable
<1>8. Buffered'
  BY <1>2, <1>3, NoJobFacts DEF Buffered, Reads, OneBadLine
<1>9. Progress' /\ SweepTells'
  BY <1>2, NoJobFacts, OpenAssumption DEF Progress, SweepTells
<1> QED
  BY <1>5, <1>6, <1>7, <1>8, <1>9 DEF LadderInv

\* Where nothing is drained or read, a call may end as FinishStep has it.
LEMMA CallEndsStep ==
  ASSUME LadderInv, job.pc # "idle", NEW out \in Outs, Finish(out),
         UNCHANGED <<mode, sent, buf, bad>>,
         job.pc = "resolve" => out \in {"error", "cancelled"},
         out = "ok" /\ job.op = "find" => job.pc = "identify",
         out = "raised" => mode[job.src] = "continuous" /\ sent[job.src] > 1
  PROVE  LadderInv'
<1>1. /\ buf \in [Sources -> Seq(Nat)] /\ bad \in Nat /\ bad <= 1
      /\ \A s \in Sources : mode[s] # "continuous" => buf[s] = <<>>
  BY DEF LadderInv, OpenTypeOK, Wires, Buffered, OneBadLine
<1> QED
  BY <1>1, FinishStep

LEMMA CannotOpenStep == LadderInv /\ CannotOpen => LadderInv'
BY CallEndsStep DEF CannotOpen, At, Outs

LEMMA NothingHeardStep == LadderInv /\ NothingHeard => LadderInv'
BY CallEndsStep DEF NothingHeard, At, Outs

LEMMA IdentifyModbusStep ==
  ASSUME LadderInv, NEW out \in {"ok", "error"}, IdentifyModbus(out)
  PROVE  LadderInv'
BY CallEndsStep DEF IdentifyModbus, At, Outs

LEMMA IdentifyTimesOutStep == LadderInv /\ IdentifyTimesOut => LadderInv'
<1> SUFFICES ASSUME LadderInv, IdentifyTimesOut
             PROVE  LadderInv'
  OBVIOUS
<1>1. job.pc = "identify" /\ mode[job.src] = "continuous" /\ sent[job.src] > 1
  BY DEF IdentifyTimesOut, At, LadderInv, Progress
<1> QED
  BY <1>1, CallEndsStep DEF IdentifyTimesOut, Outs

LEMMA CancelledStep == LadderInv /\ Cancelled => LadderInv'
BY CallEndsStep DEF Cancelled, At, Outs

LEMMA ProbeEchoedStep ==
  ASSUME LadderInv, ProbeEchoed
  PROVE  LadderInv'
<1>1. job.pc = "probe" /\ mode[job.src] = job.framing /\ UNCHANGED <<mode, sent, buf, bad>>
  BY DEF ProbeEchoed, At
<1>2. CASE job.op = "open" /\ Finish("ok")
  BY <1>1, <1>2, CallEndsStep DEF Outs
<1>3. CASE /\ job.op = "find" /\ UNCHANGED <<wire, port>>
           /\ job' = [job EXCEPT !.pc = "identify", !.kind = job.framing]
  <2>1. OpenTypeOK /\ Wires /\ Buffered /\ job \in Jobs
    BY DEF LadderInv, OpenTypeOK
  <2>2. job.framing \in Framings /\ Framings \subseteq Modes
    BY <2>1 DEF Jobs, Modes
  <2>3. /\ job' \in Jobs /\ job'.pc = "identify" /\ job'.kind = job.framing
        /\ job'.op = job.op /\ job'.src = job.src /\ job'.queue = job.queue
        /\ job'.asked = job.asked /\ job'.results = job.results /\ job'.out = job.out
    BY <1>3, <2>1, <2>2 DEF Jobs, Stages
  <2>4. job'.kind # "continuous"
    BY <2>2, <2>3 DEF Framings
  <2>5. /\ wire' \in [Sources -> Seq(Nat)] /\ buf' \in [Sources -> Seq(Nat)] /\ bad' \in Nat
        /\ UNCHANGED <<opened, held, leaked>>
    BY <1>1, <1>3, <2>1 DEF OpenTypeOK, port
  <2>6. Wires'
    BY <1>1, <1>3, <2>1, <2>5 DEF Wires, InOrder, Usable
  <2>7. Buffered'
    BY <1>1, <2>1, <2>3, <2>4 DEF Buffered, Reads, OneBadLine
  <2> QED
    BY <1>1, <1>3, <2>2, <2>3, <2>4, <2>5, <2>6, <2>7, OnStep DEF Stages
<1> QED
  BY <1>1, <1>2, <1>3 DEF ProbeEchoed, Detected

\* What the framer of a probe takes, or a drain: halves leave the port.
LEMMA Taking ==
  ASSUME LadderInv, job.pc \in Stages, NEW n \in 0..Len(wire[job.src]),
         wire' = [wire EXCEPT ![job.src] = SubSeq(@, n + 1, Len(@))],
         UNCHANGED <<mode, sent, opened>>
  PROVE  LET s == job.src
         IN  /\ wire' \in [Sources -> Seq(Nat)]
             /\ InOrder(wire'[s], sent[s])
             /\ Len(wire'[s]) = Len(wire[s]) - n
             /\ mode[s] # "continuous" => wire'[s] = <<>>
             /\ \A t \in Sources : t # s => wire'[t] = wire[t]
<1>1. PICK s : s = job.src
  OBVIOUS
<1>2. /\ s \in Sources /\ wire[s] \in Seq(Nat) /\ sent[s] \in Nat /\ InOrder(wire[s], sent[s])
      /\ mode[s] # "continuous" => wire[s] = <<>>
  BY <1>1, Active
<1>3. wire \in [Sources -> Seq(Nat)]
  BY DEF LadderInv, OpenTypeOK
<1>4. PICK rest : rest = SubSeq(wire[s], n + 1, Len(wire[s]))
  OBVIOUS
<1>5. rest \in Seq(Nat) /\ InOrder(rest, sent[s]) /\ Len(rest) = Len(wire[s]) - n
  BY <1>1, <1>2, <1>4, Parts
<1>6. wire' = [wire EXCEPT ![s] = rest]
  BY <1>1, <1>4
<1>7. mode[s] # "continuous" => rest = <<>>
  <2>1. ASSUME mode[s] # "continuous"
        PROVE  rest = <<>>
    <3>1. Len(wire[s]) = 0
      BY <1>2, <2>1
    <3>2. Len(rest) = 0
      <4>1. n = 0
        BY <1>1, <3>1
      <4> QED
        BY <1>5, <3>1, <4>1
    <3> QED
      BY <1>5, <3>2, EmptySeq
  <2> QED
    BY <2>1
<1> QED
  BY <1>1, <1>2, <1>3, <1>5, <1>6, <1>7

LEMMA ProbeFailsStep ==
  ASSUME LadderInv, NEW n \in 0..MaxHalves, ProbeFails(n)
  PROVE  LadderInv'
<1>1. PICK s : s = job.src
  OBVIOUS
<1>2. /\ job.pc = "probe" /\ n \in 0..Len(wire[s])
      /\ wire' = [wire EXCEPT ![s] = SubSeq(@, n + 1, Len(@))]
      /\ UNCHANGED <<mode, sent, opened, held, leaked>>
  BY <1>1 DEF ProbeFails, At, port
<1>3. OpenTypeOK /\ Wires /\ Buffered /\ job \in Jobs
  BY DEF LadderInv, OpenTypeOK
<1>4. s \in Sources /\ job.pc \in Stages /\ sent[s] \in Nat /\ wire[s] \in Seq(Nat)
  BY <1>1, <1>2, Active DEF Stages
<1>5. /\ wire' \in [Sources -> Seq(Nat)]
      /\ InOrder(wire'[s], sent[s])
      /\ mode[s] # "continuous" => wire'[s] = <<>>
      /\ \A t \in Sources : t # s => wire'[t] = wire[t]
  BY <1>1, <1>2, <1>4, Taking
<1>6. /\ buf' \in [Sources -> Seq(Nat)] /\ buf'[s] = <<>> /\ bad' = 0
      /\ \A t \in Sources : t # s => buf'[t] = buf[t]
  <2>1. buf \in [Sources -> Seq(Nat)] /\ buf[s] = <<>> /\ bad = 0
    BY <1>1, <1>2, <1>3 DEF OpenTypeOK, Buffered
  <2>2. CASE UNCHANGED <<buf, bad>>
    BY <2>1, <2>2
  <2>3. CASE Drain(s)
    <3>1. <<>> \in Seq(Nat)
      OBVIOUS
    <3> QED
      BY <1>4, <2>1, <2>3, <3>1 DEF Drain
  <2> QED
    BY <1>1, <2>2, <2>3 DEF ProbeFails
<1>7. /\ job' \in Jobs /\ job'.pc \in {"probe", "listen"}
      /\ job'.op = job.op /\ job'.src = s /\ job'.queue = job.queue
      /\ job'.asked = job.asked /\ job'.results = job.results /\ job'.out = job.out
  <2>1. CASE job' = [job EXCEPT !.tries = @ + 1]
    <3>1. job.tries + 1 \in Nat
      BY <1>3 DEF Jobs
    <3> QED
      BY <1>1, <1>2, <1>3, <2>1, <3>1 DEF Jobs
  <2>2. CASE job' = [job EXCEPT !.tries = 0, !.framing = "ascii",
                       !.pc = IF job.framing = "rtu" THEN "probe" ELSE "listen"]
    BY <1>1, <1>3, <2>2 DEF Jobs, Framings, Stages
  <2> QED
    BY <2>1, <2>2 DEF ProbeFails
<1>8. Wires'
  <2> SUFFICES ASSUME NEW t \in Sources
               PROVE  /\ InOrder(wire[t], sent[t])'
                      /\ ~Usable(t)' => wire'[t] = <<>>
                      /\ mode'[t] # "continuous" => wire'[t] = <<>> /\ buf'[t] = <<>>
    BY DEF Wires
  <2>1. CASE t = s
    <3>1. Usable(s)
      BY <1>1, <1>4, Active
    <3> QED
      BY <1>2, <1>5, <1>6, <2>1, <3>1 DEF InOrder, Usable
  <2>2. CASE t # s
    BY <1>2, <1>3, <1>5, <1>6, <2>2 DEF Wires, InOrder, Usable
  <2> QED
    BY <2>1, <2>2
<1>9. Buffered'
  <2>1. InOrder(<<>>, Unread(s)')
    <3>1. Unread(s)' = sent[s] - Len(wire'[s]) /\ Len(wire'[s]) \in Nat
      BY <1>2, <1>4, <1>5 DEF Unread
    <3>2. Len(wire'[s]) <= sent[s]
      BY <1>5 DEF InOrder
    <3>3. Unread(s)' >= 0
      BY <1>4, <3>1, <3>2
    <3> QED
      BY <3>3 DEF InOrder
  <2>2. InOrder(buf[s], Unread(s))'
    BY <1>6, <2>1 DEF InOrder
  <2> QED
    BY <1>6, <1>7, <2>2 DEF Buffered, Reads, OneBadLine
<1> QED
  BY <1>1, <1>2, <1>4, <1>5, <1>6, <1>7, <1>8, <1>9, OnStep DEF Stages

LEMMA ReadMoreStep ==
  ASSUME LadderInv, ReadMore
  PROVE  LadderInv'
<1>1. PICK s : s = job.src
  OBVIOUS
<1> PICK n \in 1..Len(wire[s]) : ReceiveHalves(s, n)
  BY <1>1 DEF ReadMore
<1>2. /\ n \in 1..Len(wire[s])
      /\ buf' = [buf EXCEPT ![s] = buf[s] \o SubSeq(wire[s], 1, n)]
      /\ wire' = [wire EXCEPT ![s] = SubSeq(@, n + 1, Len(@))]
      /\ UNCHANGED <<mode, sent, bad, opened, held, leaked, job>>
  BY <1>1 DEF ReceiveHalves, port
<1>3. OpenTypeOK /\ Wires /\ Buffered /\ Progress
  BY DEF LadderInv
<1>4. Reads /\ job.pc \in Stages
  BY DEF ReadMore, Reads, Stages
<1>5. /\ s \in Sources /\ sent[s] \in Nat /\ wire[s] \in Seq(Nat) /\ buf[s] \in Seq(Nat)
      /\ InOrder(wire[s], sent[s]) /\ Usable(s)
      /\ mode[s] # "continuous" => wire[s] = <<>>
  BY <1>1, <1>4, Active
<1>6. n \in Nat /\ n \in 0..Len(wire[s]) /\ n > 0 /\ Len(wire[s]) \in Nat
  BY <1>2, <1>5
<1>7. mode[s] = "continuous"
  BY <1>5, <1>6
<1>8. /\ wire' \in [Sources -> Seq(Nat)]
      /\ InOrder(wire'[s], sent[s])
      /\ Len(wire'[s]) = Len(wire[s]) - n
      /\ \A t \in Sources : t # s => wire'[t] = wire[t]
  BY <1>1, <1>2, <1>4, <1>6, Taking
<1>9. InOrder(buf[s], sent[s] - Len(wire[s]))
  BY <1>1, <1>3, <1>4 DEF Buffered, Unread
<1>10. PICK b : b = buf[s] \o SubSeq(wire[s], 1, n)
  OBVIOUS
<1>11. b \in Seq(Nat) /\ InOrder(b, sent[s] - (Len(wire[s]) - n)) /\ Len(b) = Len(buf[s]) + n
  BY <1>5, <1>6, <1>9, <1>10, Joined
<1>12. /\ buf' \in [Sources -> Seq(Nat)] /\ buf'[s] = b
       /\ \A t \in Sources : t # s => buf'[t] = buf[t]
  BY <1>2, <1>3, <1>5, <1>10, <1>11 DEF OpenTypeOK
<1>13. Unread(s)' = sent[s] - (Len(wire[s]) - n)
  BY <1>2, <1>8 DEF Unread
<1>14. Wires'
  <2> SUFFICES ASSUME NEW t \in Sources
               PROVE  /\ InOrder(wire[t], sent[t])'
                      /\ ~Usable(t)' => wire'[t] = <<>>
                      /\ mode'[t] # "continuous" => wire'[t] = <<>> /\ buf'[t] = <<>>
    BY DEF Wires
  <2>1. CASE t = s
    BY <1>2, <1>5, <1>7, <1>8, <2>1 DEF InOrder, Usable
  <2>2. CASE t # s
    BY <1>2, <1>3, <1>8, <1>12, <2>2 DEF Wires, InOrder, Usable
  <2> QED
    BY <2>1, <2>2
<1>15. Buffered'
  <2>1. InOrder(buf[s], Unread(s))'
    BY <1>11, <1>12, <1>13 DEF InOrder
  <2>2. Unread(s)' - Len(buf'[s]) = Unread(s) - Len(buf[s])
    <3>1. PICK u, w, l : u = sent[s] /\ w = Len(wire[s]) /\ l = Len(buf[s])
      OBVIOUS
    <3>2. u \in Nat /\ w \in Nat /\ l \in Nat /\ n \in Nat
      BY <1>5, <1>6, <3>1
    <3>3. Len(buf'[s]) = l + n /\ Unread(s)' = u - (w - n)
      BY <1>11, <1>12, <1>13, <3>1
    <3>4. Unread(s)' - Len(buf'[s]) = (u - (w - n)) - (l + n)
      BY <3>3
    <3>5. Unread(s) - Len(buf[s]) = (u - w) - l
      BY <3>1 DEF Unread
    <3>6. (u - (w - n)) - (l + n) = (u - w) - l
      BY <3>2
    <3> QED
      BY <3>4, <3>5, <3>6
  <2>3. job.pc # "probe"
    BY <1>4 DEF Reads
  <2> QED
    BY <1>1, <1>2, <1>3, <1>4, <2>1, <2>2, <2>3 DEF Buffered, Reads, OneBadLine
<1>16. job.pc = "identify" =>
         /\ job.op = "find" /\ job.kind = mode[job.src]
         /\ job.kind \in Framings \cup {"continuous"}
         /\ job.kind = "continuous" => sent[job.src] > 1
  BY <1>3 DEF Progress
<1> QED
  BY <1>2, <1>3, <1>4, <1>8, <1>12, <1>14, <1>15, <1>16, OnStep DEF OpenTypeOK

LEMMA BadLineStep ==
  ASSUME LadderInv, BadLine
  PROVE  LadderInv'
<1>1. PICK s : s = job.src
  OBVIOUS
<1>2. Reads /\ job.pc \in Stages /\ job.pc # "probe"
  BY DEF BadLine, Reads, Stages
<1>3. ReadLine(s) /\ UNCHANGED <<mode, sent, wire, opened, held, leaked, job>>
  BY <1>1 DEF BadLine, port
<1>4. /\ buf' \in [Sources -> Seq(Nat)]
      /\ \A t \in Sources : t # s => buf'[t] = buf[t]
      /\ bad' \in Nat /\ bad' <= 1 /\ mode[s] = "continuous"
      /\ InOrder(buf'[s], Unread(s)) /\ (Unread(s) - Len(buf'[s])) % 2 = 0
  BY <1>1, <1>2, <1>3, ReadFacts
<1>5. OpenTypeOK /\ Wires /\ Progress
  BY DEF LadderInv
<1>6. Wires'
  BY <1>3, <1>4, <1>5 DEF Wires, InOrder, Usable
<1>7. Buffered'
  <2>1. Unread(s)' = Unread(s)
    BY <1>3 DEF Unread
  <2> QED
    BY <1>1, <1>2, <1>3, <1>4, <2>1 DEF Buffered, Reads, OneBadLine, InOrder
<1>8. job.pc = "identify" =>
        /\ job.op = "find" /\ job.kind = mode[job.src]
        /\ job.kind \in Framings \cup {"continuous"}
        /\ job.kind = "continuous" => sent[job.src] > 1
  BY <1>5 DEF Progress
<1> QED
  BY <1>2, <1>3, <1>4, <1>5, <1>6, <1>7, <1>8, OnStep DEF OpenTypeOK

\* A whole line that ends the call.
LEMMA HeardEnds ==
  ASSUME LadderInv, Reads, ReadLine(job.src), Finish("ok"), UNCHANGED <<mode, sent>>,
         job.op = "find" => job.pc = "identify"
  PROVE  LadderInv'
<1>1. PICK s : s = job.src
  OBVIOUS
<1>2. /\ buf' \in [Sources -> Seq(Nat)]
      /\ \A t \in Sources : t # s => buf'[t] = buf[t]
      /\ bad' \in Nat /\ bad' <= 1 /\ mode[s] = "continuous"
  BY <1>1, ReadFacts
<1>3. \A t \in Sources : mode[t] # "continuous" => buf'[t] = <<>>
  BY <1>2 DEF LadderInv, Wires
<1> QED
  BY <1>2, <1>3, FinishStep DEF Reads, Outs

LEMMA ListenedStep ==
  ASSUME LadderInv, Listened
  PROVE  LadderInv'
<1>1. PICK s : s = job.src
  OBVIOUS
<1>2. /\ job.pc = "listen" /\ ReadLine(s) /\ Whole(Line(s)) /\ UNCHANGED <<mode, sent>>
      /\ Reads /\ job.pc \in Stages
  BY <1>1 DEF Listened, At, Reads, Stages
<1>3. CASE job.op = "open" /\ Finish("ok")
  BY <1>1, <1>2, <1>3, HeardEnds
<1>4. CASE /\ job.op = "find" /\ UNCHANGED <<wire, port>>
           /\ job' = [job EXCEPT !.pc = "identify", !.kind = "continuous"]
  <2>1. /\ buf' \in [Sources -> Seq(Nat)]
        /\ \A t \in Sources : t # s => buf'[t] = buf[t]
        /\ bad' \in Nat /\ bad' <= 1 /\ mode[s] = "continuous"
        /\ InOrder(buf'[s], Unread(s)) /\ (Unread(s) - Len(buf'[s])) % 2 = 0
        /\ sent[s] > 1
    BY <1>1, <1>2, ReadFacts
  <2>2. OpenTypeOK /\ Wires /\ job \in Jobs
    BY DEF LadderInv, OpenTypeOK
  <2>3. /\ job' \in Jobs /\ job'.pc = "identify" /\ job'.kind = "continuous"
        /\ job'.op = "find" /\ job'.src = s /\ job'.queue = job.queue
        /\ job'.asked = job.asked /\ job'.results = job.results /\ job'.out = job.out
    BY <1>1, <1>4, <2>2 DEF Jobs, Stages, Modes
  <2>4. Wires'
    BY <1>2, <1>4, <2>1, <2>2 DEF Wires, InOrder, Usable, port
  <2>5. Buffered'
    <3>1. Unread(s)' = Unread(s)
      BY <1>2, <1>4 DEF Unread
    <3> QED
      BY <2>1, <2>3, <3>1 DEF Buffered, Reads, OneBadLine, InOrder
  <2> QED
    BY <1>1, <1>2, <1>4, <2>1, <2>2, <2>3, <2>4, <2>5, OnStep DEF OpenTypeOK, Stages, port
<1> QED
  BY <1>1, <1>2, <1>3, <1>4 DEF Listened, Detected

LEMMA IdentifyHeardStep == LadderInv /\ IdentifyHeard => LadderInv'
BY HeardEnds DEF IdentifyHeard, Reads, At

LEMMA LadderStep == LadderInv /\ [OpenNext]_openVars => LadderInv'
<1> SUFFICES ASSUME LadderInv, [OpenNext]_openVars
             PROVE  LadderInv'
  OBVIOUS
<1>1. CASE UNCHANGED openVars
  BY <1>1 DEF openVars, LadderInv, OpenTypeOK, PortsAccounted, OwnPort, Wires, InOrder,
     Usable, Buffered, Reads, Unread, OneBadLine, Progress, SweepTells, Recognised,
     ExitCode, At
<1>2. CASE \E q \in Queues : Find(q)
  BY <1>2, FindStep
<1>3. CASE \E s \in Sources : CloseDevice(s) \/ Arrive(s)
  BY <1>3, CloseStep, ArriveStep
<1>4. CASE \E s \in Sources, protocol \in Protocols : OpenDevice(s, protocol)
  BY <1>4, OpenStep
<1>5. CASE Resolve \/ ResolveExplicit \/ CannotOpen
  BY <1>5, ResolveStep, ResolveExplicitStep, CannotOpenStep
<1>6. CASE ProbeEchoed \/ (\E n \in 0..MaxHalves : ProbeFails(n))
  BY <1>6, ProbeEchoedStep, ProbeFailsStep
<1>7. CASE ReadMore \/ BadLine \/ Listened \/ NothingHeard
  BY <1>7, ReadMoreStep, BadLineStep, ListenedStep, NothingHeardStep
<1>8. CASE (\E out \in {"ok", "error"} : IdentifyModbus(out)) \/ IdentifyHeard \/ IdentifyTimesOut
  BY <1>8, IdentifyModbusStep, IdentifyHeardStep, IdentifyTimesOutStep
<1>9. CASE Cancelled
  BY <1>9, CancelledStep
<1> QED
  BY <1>1, <1>2, <1>3, <1>4, <1>5, <1>6, <1>7, <1>8, <1>9 DEF OpenNext

\* The inductive invariant: whoever has a port, and how the halves in the port
\* and in the transport's buffer continue each other.
THEOREM LadderInvariance == OpenSpec => []LadderInv
<1> QED
  BY InitLadder, LadderStep, PTL DEF OpenSpec

\* discover_port closes what it opened, however the ladder ends: a serial port
\* that is open is the caller's, was left by an open_device that raised, or is
\* that of the call that runs, and only one of these.
THEOREM EveryPortAccounted == OpenSpec => []PortsAccounted
<1>1. LadderInv => PortsAccounted
  BY DEF LadderInv
<1> QED
  BY <1>1, LadderInvariance, PTL

\* From one drain of the transport on, at most the first line read is not a
\* whole frame, in the ladder and in the client that goes on with its buffer.
THEOREM ResyncLosesOneLine == OpenSpec => []OneBadLine
<1>1. LadderInv => OneBadLine
  BY DEF LadderInv, Buffered
<1> QED
  BY <1>1, LadderInvariance, PTL

\* find_devices answers with one result per port, each what is there, and
\* servomex-discover's exit code follows them; an ExceptionGroup leaves only a
\* broadcaster that was heard.
THEOREM SweepTellsTruth == OpenSpec => []SweepTells
<1>1. LadderInv => SweepTells
  BY DEF LadderInv
<1> QED
  BY <1>1, LadderInvariance, PTL
=============================================================================

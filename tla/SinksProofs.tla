----------------------------- MODULE SinksProofs -----------------------------
(***************************************************************************)
(* Theorems of Sinks, for every batch size, flush interval, number of      *)
(* samples and pipes; and those of Sync, whose facades run a sink, among   *)
(* others, for every number of facades of every kind, each with a loop of  *)
(* its own or on the shared one.                                           *)
(***************************************************************************)
EXTENDS Sinks, Sync, SequenceTheorems, TLAPS

\* A sink that is open is fit to be written to, unless it is past use.
Prepared ==
  /\ kind = "parquet" => create
  /\ ~Between => opened
  /\ pc = "creating" => HasSchema /\ locked
  /\ HasSchema /\ locked /\ ~ready => broken \/ pc = "creating"
  /\ Table /\ ~create /\ opened => (locked /\ ready) \/ broken

\* The buffer is the rest of what the stream gave.
Buffered ==
  /\ pc # "idle" => buffer = Numbers(first + emitted, given)
  /\ pc = "returned" => buffer = <<>>

\* What was emitted is at the end of the sink.
AtTheEnd ==
  Running =>
    /\ emitted <= Len(stored)
    /\ \A i \in 1..emitted : stored[Len(stored) - emitted + i] = first + i

\* Nothing newer than the samples handed over is in the sink.
Below(n) == \A i \in 1..Len(stored) : stored[i] <= n
NothingNewer ==
  /\ Below(given)
  /\ Running \/ (kind = "sqlite" /\ pc = "failed") => Below(first + emitted)

IInv ==
  /\ TypeOK
  /\ Prepared /\ AssertionsExplained
  /\ Buffered /\ AtTheEnd
  /\ NothingNewer /\ StoredInOrder

-----------------------------------------------------------------------------
\* Runs of sample numbers

LEMMA NumbersFacts ==
  ASSUME NEW from \in Nat, NEW to \in Nat, from <= to
  PROVE  /\ Numbers(from, to) \in Seq(Nat)
         /\ Len(Numbers(from, to)) = to - from
         /\ \A i \in 1..(to - from) : Numbers(from, to)[i] = from + i
<1>1. to - from \in Nat /\ \A i \in 1..(to - from) : from + i \in Nat
  OBVIOUS
<1>2. Numbers(from, to) \in Seq(Nat)
  BY <1>1, IsASeq DEF Numbers
<1>3. DOMAIN Numbers(from, to) = 1..(to - from) /\ \A i \in 1..(to - from) : Numbers(from, to)[i] = from + i
  BY DEF Numbers
<1> QED
  BY <1>1, <1>2, <1>3, LenProperties

\* Samples are numbered from 1 to the last one given.
LEMMA NumbersTyped ==
  ASSUME NEW from \in Nat, NEW to \in 0..MaxSamples, from <= to
  PROVE  Numbers(from, to) \in Seq(1..MaxSamples)
<1>1. MaxSamples \in Nat
  BY SinksAssumption
<1>2. to - from \in Nat /\ \A i \in 1..(to - from) : from + i \in 1..MaxSamples
  BY <1>1
<1> QED
  BY <1>2, IsASeq DEF Numbers

LEMMA NumbersJoin ==
  ASSUME NEW a \in Nat, NEW b \in Nat, NEW c \in Nat, a <= b, b <= c
  PROVE  Numbers(a, b) \o Numbers(b, c) = Numbers(a, c)
<1> DEFINE p == Numbers(a, b)
           q == Numbers(b, c)
           r == Numbers(a, c)
           s == p \o q
<1>1. /\ p \in Seq(Nat) /\ Len(p) = b - a /\ \A i \in 1..(b - a) : p[i] = a + i
      /\ q \in Seq(Nat) /\ Len(q) = c - b /\ \A i \in 1..(c - b) : q[i] = b + i
  BY NumbersFacts
<1>2. r \in Seq(Nat) /\ Len(r) = c - a /\ \A i \in 1..(c - a) : r[i] = a + i
  <2>1. a <= c
    OBVIOUS
  <2> QED
    BY <2>1, NumbersFacts
<1> HIDE DEF p, q, r
<1>3. /\ s \in Seq(Nat) /\ Len(s) = Len(p) + Len(q)
      /\ \A i \in 1..(Len(p) + Len(q)) : s[i] = IF i <= Len(p) THEN p[i] ELSE q[i - Len(p)]
  BY <1>1, ConcatProperties
<1> HIDE DEF s
<1>4. (b - a) + (c - b) = c - a
  OBVIOUS
<1>5. /\ Len(s) = c - a
      /\ \A i \in 1..(c - a) : s[i] = IF i <= b - a THEN p[i] ELSE q[i - (b - a)]
  BY <1>1, <1>3, <1>4
<1>6. ASSUME NEW i \in 1..(c - a) PROVE s[i] = r[i]
  <2>1. CASE i <= b - a
    BY <2>1, <1>1, <1>2, <1>5
  <2>2. CASE ~(i <= b - a)
    <3>1. i - (b - a) \in 1..(c - b) /\ b + (i - (b - a)) = a + i
      BY <2>2
    <3>2. s[i] = q[i - (b - a)]
      BY <2>2, <1>5
    <3> QED
      BY <3>1, <3>2, <1>1, <1>2
  <2> QED
    BY <2>1, <2>2
<1>7. s = r
  BY <1>2, <1>3, <1>5, <1>6, SeqEqual
<1> QED
  BY <1>7 DEF p, q, r, s

\* Increasing numbers with greater ones put after them.
Increasing(s) == \A i \in 1..(Len(s) - 1) : s[i] < s[i + 1]

LEMMA Glued ==
  ASSUME NEW p \in Seq(Nat), NEW q \in Seq(Nat), NEW m \in Nat,
         Increasing(p), \A i \in 1..Len(p) : p[i] <= m,
         \A i \in 1..Len(q) : q[i] = m + i
  PROVE  /\ Len(p \o q) = Len(p) + Len(q)
         /\ \A i \in 1..Len(p) : (p \o q)[i] = p[i]
         /\ \A i \in 1..Len(q) : (p \o q)[Len(p) + i] = m + i
         /\ Increasing(p \o q)
         /\ \A i \in 1..Len(p \o q) : (p \o q)[i] <= m + Len(q)
<1>1. /\ Len(p) \in Nat /\ Len(q) \in Nat /\ Len(p \o q) = Len(p) + Len(q)
      /\ \A i \in 1..(Len(p) + Len(q)) : (p \o q)[i] = IF i <= Len(p) THEN p[i] ELSE q[i - Len(p)]
      /\ \A i \in 1..Len(p) : p[i] \in Nat
  BY ConcatProperties, LenProperties, ElementOfSeq
<1> DEFINE s == p \o q
<1>2. \A i \in 1..Len(p) : s[i] = p[i]
  BY <1>1
<1>3. ASSUME NEW i \in 1..Len(q) PROVE s[Len(p) + i] = m + i
  <2>1. /\ Len(p) + i \in 1..(Len(p) + Len(q)) /\ ~(Len(p) + i <= Len(p))
        /\ (Len(p) + i) - Len(p) = i
    BY <1>1
  <2> QED
    BY <2>1, <1>1
<1>4. ASSUME NEW j \in 1..(Len(p) + Len(q))
      PROVE  \/ j \in 1..Len(p)
             \/ \E i \in 1..Len(q) : j = Len(p) + i
  <2>1. CASE j > Len(p)
    <3>1. j - Len(p) \in 1..Len(q) /\ j = Len(p) + (j - Len(p))
      BY <2>1, <1>1
    <3> QED
      BY <3>1
  <2> QED
    BY <2>1, <1>1
<1> HIDE DEF s
<1>5. ASSUME NEW j \in 1..(Len(p) + Len(q)) PROVE s[j] <= m + Len(q)
  <2>1. CASE j \in 1..Len(p)
    <3>1. s[j] <= m /\ s[j] \in Nat
      BY <2>1, <1>1, <1>2
    <3> QED
      BY <3>1, <1>1
  <2>2. ASSUME NEW i \in 1..Len(q), j = Len(p) + i PROVE s[j] <= m + Len(q)
    <3>1. s[j] = m + i
      BY <2>2, <1>3
    <3> QED
      BY <3>1, <1>1
  <2> QED
    BY <2>1, <2>2, <1>4
<1>6. ASSUME NEW j \in 1..(Len(p) + Len(q) - 1) PROVE s[j] < s[j + 1]
  <2>1. CASE j + 1 \in 1..Len(p)
    <3>1. j \in 1..Len(p) /\ j \in 1..(Len(p) - 1)
      BY <2>1, <1>1
    <3>2. s[j] = p[j] /\ s[j + 1] = p[j + 1]
      BY <3>1, <2>1, <1>2
    <3>3. p[j] < p[j + 1]
      BY <3>1 DEF Increasing
    <3> QED
      BY <3>2, <3>3
  <2>2. CASE j = Len(p)
    <3>1. 1 \in 1..Len(q)
      BY <2>2, <1>1
    <3>2. s[j + 1] = m + 1 /\ s[j] <= m /\ s[j] \in Nat
      BY <2>2, <3>1, <1>1, <1>2, <1>3
    <3> QED
      BY <3>2
  <2>3. CASE j > Len(p)
    <3>1. j - Len(p) \in 1..Len(q) /\ j - Len(p) + 1 \in 1..Len(q)
      BY <2>3, <1>1
    <3>2. Len(p) + (j - Len(p)) = j /\ Len(p) + (j - Len(p) + 1) = j + 1
      BY <1>1
    <3>3. s[j] = m + (j - Len(p)) /\ s[j + 1] = m + (j - Len(p) + 1)
      BY <3>1, <3>2, <1>3
    <3> QED
      BY <3>1, <3>3, <1>1
  <2> QED
    BY <2>1, <2>2, <2>3, <1>1
<1> QED
  BY <1>1, <1>2, <1>3, <1>5, <1>6, SMTT(30) DEF Increasing, s

-----------------------------------------------------------------------------
\* The samples

DataInv == Buffered /\ AtTheEnd /\ NothingNewer /\ StoredInOrder

LEMMA Types ==
  ASSUME TypeOK
  PROVE  /\ given \in Nat /\ first \in Nat /\ emitted \in Nat /\ MaxSamples \in Nat
         /\ given \in 0..MaxSamples /\ first + emitted \in Nat /\ first + emitted <= given
         /\ stored \in Seq(1..MaxSamples) /\ stored \in Seq(Nat) /\ Len(stored) \in Nat
         /\ buffer \in Seq(1..MaxSamples) /\ buffer \in Seq(Nat) /\ Len(buffer) \in Nat
<1>1. /\ given \in 0..MaxSamples /\ first \in 0..given /\ emitted \in 0..(given - first)
      /\ stored \in Seq(1..MaxSamples) /\ buffer \in Seq(1..MaxSamples)
      /\ MaxSamples \in Nat
  BY SinksAssumption DEF TypeOK
<1>2. 1..MaxSamples \subseteq Nat
  BY <1>1
<1>3. stored \in Seq(Nat) /\ buffer \in Seq(Nat)
  BY <1>1, <1>2, SeqMonotonic
<1> QED
  BY <1>1, <1>3, LenProperties

\* A step that leaves the samples where they are.
LEMMA DataFrame ==
  ASSUME IInv, UNCHANGED <<kind, stored, buffer, emitted, first, given>>,
         pc' # "idle" => pc # "idle",
         pc' = "returned" => buffer = <<>>,
         Running' => Running,
         pc' = "failed" => Running \/ pc = "failed"
  PROVE  DataInv'
<1>1. Buffered'
  BY DEF IInv, Buffered
<1>2. AtTheEnd' /\ StoredInOrder'
  BY DEF IInv, AtTheEnd, StoredInOrder
<1>3. NothingNewer'
  BY DEF IInv, NothingNewer, Below
<1> QED
  BY <1>1, <1>2, <1>3 DEF DataInv

\* A batch goes to the end of the buffer.
LEMMA BatchExtends ==
  ASSUME IInv, NEW n \in Nat, pc = "reading", given + n <= MaxSamples
  PROVE  LET b == buffer \o Numbers(given, given + n)
         IN  /\ b \in Seq(1..MaxSamples)
             /\ b = Numbers(first + emitted, given + n)
<1>1. /\ given \in Nat /\ first + emitted \in Nat /\ first + emitted <= given
      /\ given + n \in 0..MaxSamples /\ given + n \in Nat /\ given <= given + n
  BY Types DEF IInv
<1>2. buffer = Numbers(first + emitted, given)
  BY DEF IInv, Buffered
<1>3. Numbers(first + emitted, given) \o Numbers(given, given + n) = Numbers(first + emitted, given + n)
  BY <1>1, NumbersJoin
<1>4. first + emitted <= given + n
  BY <1>1
<1>5. Numbers(first + emitted, given + n) \in Seq(1..MaxSamples)
  BY <1>1, <1>4, NumbersTyped
<1> QED
  BY <1>2, <1>3, <1>5

\* What the sink holds once a part of the buffer has reached it.
LEMMA PartWritten ==
  ASSUME IInv, pc = "writing", NEW part \in Seq(1..MaxSamples),
         Len(part) <= Len(buffer), \A i \in 1..Len(part) : part[i] = buffer[i]
  PROVE  LET s == stored \o part
         IN  /\ s \in Seq(1..MaxSamples) /\ Len(s) = Len(stored) + Len(part)
             /\ \A i \in 1..Len(stored) : s[i] = stored[i]
             /\ \A i \in 1..Len(part) : s[Len(stored) + i] = first + emitted + i
             /\ Increasing(s)
             /\ \A i \in 1..Len(s) : s[i] <= given
             /\ Len(buffer) = given - (first + emitted)
<1>1. /\ given \in Nat /\ first + emitted \in Nat /\ first + emitted <= given
      /\ stored \in Seq(1..MaxSamples) /\ stored \in Seq(Nat) /\ MaxSamples \in Nat
      /\ Len(part) \in Nat
  BY Types, LenProperties DEF IInv
<1>2. part \in Seq(Nat)
  <2>1. 1..MaxSamples \subseteq Nat
    BY <1>1
  <2> QED
    BY <2>1, SeqMonotonic
<1>3. buffer = Numbers(first + emitted, given)
  BY DEF IInv, Buffered
<1>4. /\ Len(buffer) = given - (first + emitted)
      /\ \A i \in 1..(given - (first + emitted)) : buffer[i] = first + emitted + i
  BY <1>1, <1>3, NumbersFacts
<1>5. \A i \in 1..Len(part) : part[i] = first + emitted + i
  BY <1>1, <1>4
<1>6. Increasing(stored) /\ \A i \in 1..Len(stored) : stored[i] <= first + emitted
  BY DEF IInv, StoredInOrder, Increasing, NothingNewer, Running, Below
<1> DEFINE s == stored \o part
           m == first + emitted
<1>7. /\ Len(s) = Len(stored) + Len(part)
      /\ \A i \in 1..Len(stored) : s[i] = stored[i]
      /\ \A i \in 1..Len(part) : s[Len(stored) + i] = m + i
      /\ Increasing(s)
      /\ \A i \in 1..Len(s) : s[i] <= m + Len(part)
  <2>1. m \in Nat
    BY <1>1
  <2>2. \A i \in 1..Len(part) : part[i] = m + i
    BY <1>5
  <2>3. \A i \in 1..Len(stored) : stored[i] <= m
    BY <1>6
  <2> HIDE DEF m
  <2> QED
    BY <1>1, <1>2, <1>6, <2>1, <2>2, <2>3, Glued
<1>8. s \in Seq(1..MaxSamples)
  BY <1>1, ConcatProperties
<1>9. ASSUME NEW i \in 1..Len(s) PROVE s[i] <= given
  <2>1. s[i] <= m + Len(part)
    BY <1>7
  <2>2. m + Len(part) <= given /\ m + Len(part) \in Nat
    BY <1>1, <1>4
  <2>3. s[i] \in Nat
    <3>1. s[i] \in 1..MaxSamples
      BY <1>8, ElementOfSeq
    <3> QED
      BY <3>1
  <2> QED
    BY <1>1, <2>1, <2>2, <2>3
<1> QED
  BY <1>4, <1>7, <1>8, <1>9

\* The whole buffer is stored.
LEMMA WriteData ==
  ASSUME IInv, Write
  PROVE  /\ DataInv'
         /\ stored' \in Seq(1..MaxSamples) /\ emitted' = given - first /\ buffer' = <<>>
<1>1. /\ pc = "writing" /\ stored' = stored \o buffer /\ emitted' = emitted + Len(buffer)
      /\ buffer' = <<>> /\ pc' \in {"reading", "returned"}
      /\ UNCHANGED <<kind, first, given>>
  BY DEF Write, Writable, choice
<1>2. /\ given \in Nat /\ first \in Nat /\ emitted \in Nat /\ first + emitted <= given
      /\ buffer \in Seq(1..MaxSamples) /\ Len(buffer) \in Nat /\ Len(stored) \in Nat
  BY Types DEF IInv
<1>3. /\ stored' \in Seq(1..MaxSamples) /\ Len(stored') = Len(stored) + Len(buffer)
      /\ \A i \in 1..Len(stored) : stored'[i] = stored[i]
      /\ \A i \in 1..Len(buffer) : stored'[Len(stored) + i] = first + emitted + i
      /\ Increasing(stored')
      /\ \A i \in 1..Len(stored') : stored'[i] <= given
      /\ Len(buffer) = given - (first + emitted)
  BY <1>1, <1>2, PartWritten
<1>4. emitted' = given - first /\ first + emitted' = given
  BY <1>1, <1>2, <1>3
<1>5. Buffered'
  <2>1. Numbers(given, given) \in Seq(Nat) /\ Len(Numbers(given, given)) = 0
    <3>1. given <= given /\ given - given = 0
      BY <1>2
    <3>2. Numbers(given, given) \in Seq(Nat) /\ Len(Numbers(given, given)) = given - given
      BY <1>2, <3>1, NumbersFacts
    <3> QED
      BY <3>1, <3>2
  <2>2. Numbers(given, given) = <<>>
    BY <2>1, EmptySeq
  <2> QED
    BY <1>1, <1>4, <2>2 DEF Buffered
<1>6. AtTheEnd'
  <2>1. /\ emitted <= Len(stored)
        /\ \A i \in 1..emitted : stored[Len(stored) - emitted + i] = first + i
    BY <1>1 DEF IInv, AtTheEnd, Running
  <2>2. emitted' <= Len(stored') /\ Len(stored') - emitted' = Len(stored) - emitted
    BY <1>1, <1>2, <1>3, <2>1
  <2>3. ASSUME NEW i \in 1..emitted' PROVE stored'[Len(stored') - emitted' + i] = first + i
    <3>1. CASE i <= emitted
      <4>1. Len(stored) - emitted + i \in 1..Len(stored) /\ i \in 1..emitted
        BY <1>2, <2>1, <3>1
      <4> QED
        BY <1>3, <2>1, <2>2, <4>1
    <3>2. CASE ~(i <= emitted)
      <4>1. /\ i - emitted \in 1..Len(buffer)
            /\ Len(stored) - emitted + i = Len(stored) + (i - emitted)
            /\ first + emitted + (i - emitted) = first + i
        BY <1>1, <1>2, <3>2
      <4>2. stored'[Len(stored) + (i - emitted)] = first + emitted + (i - emitted)
        BY <1>3, <4>1
      <4> QED
        BY <2>2, <4>1, <4>2
    <3> QED
      BY <3>1, <3>2
  <2> QED
    BY <2>2, <2>3, <1>1 DEF AtTheEnd
<1>7. NothingNewer' /\ StoredInOrder'
  BY <1>1, <1>3, <1>4 DEF NothingNewer, Below, StoredInOrder, Increasing
<1> QED
  BY <1>1, <1>3, <1>4, <1>5, <1>6, <1>7 DEF DataInv

\* A flush that failed or was cancelled leaves the buffer, and what it may have
\* stored of it.
LEMMA LeftoversData ==
  ASSUME IInv, pc = "writing", NEW part \in Leftovers, stored' = stored \o part,
         pc' = "failed", UNCHANGED <<kind, buffer, emitted, first, given>>
  PROVE  DataInv' /\ stored' \in Seq(1..MaxSamples)
<1>1. /\ buffer \in Seq(1..MaxSamples) /\ Len(buffer) \in Nat
      /\ stored \in Seq(1..MaxSamples) /\ kind \in AllKinds
  BY Types, SinksAssumption DEF IInv, TypeOK
<1>2. /\ part \in Seq(1..MaxSamples) /\ Len(part) <= Len(buffer)
      /\ \A i \in 1..Len(part) : part[i] = buffer[i]
      /\ kind = "sqlite" => part = <<>>
  <2>1. CASE part = <<>>
    <3>1. part \in Seq(1..MaxSamples) /\ Len(part) = 0
      BY <2>1, EmptySeq
    <3> QED
      BY <1>1, <2>1, <3>1
  <2>2. CASE part = buffer /\ kind = "postgres"
    BY <1>1, <2>2
  <2>3. ASSUME NEW n \in 0..Len(buffer), part = SubSeq(buffer, 1, n), kind # "sqlite"
        PROVE  /\ part \in Seq(1..MaxSamples) /\ Len(part) <= Len(buffer)
               /\ \A i \in 1..Len(part) : part[i] = buffer[i]
    <3>1. \A i \in 1..n : buffer[i] \in 1..MaxSamples
      <4>1. \A i \in 1..Len(buffer) : buffer[i] \in 1..MaxSamples
        BY <1>1, ElementOfSeq
      <4> QED
        BY <1>1, <4>1
    <3>2. /\ part \in Seq(1..MaxSamples)
          /\ Len(part) = IF 1 <= n THEN n - 1 + 1 ELSE 0
          /\ \A i \in 1..(n - 1 + 1) : part[i] = buffer[1 + i - 1]
      BY <2>3, <3>1, SubSeqProperties
    <3>3. n \in Nat /\ n <= Len(buffer) /\ n - 1 + 1 = n
      BY <1>1
    <3>4. Len(part) = n
      BY <3>2, <3>3
    <3>5. ASSUME NEW i \in 1..n PROVE part[i] = buffer[i]
      <4>1. part[i] = buffer[1 + i - 1] /\ 1 + i - 1 = i
        BY <3>2, <3>3
      <4> QED
        BY <4>1
    <3> QED
      BY <3>2, <3>3, <3>4, <3>5
  <2>4. \/ part = <<>>
        \/ part = buffer /\ kind = "postgres"
        \/ kind # "sqlite" /\ \E n \in 0..Len(buffer) : part = SubSeq(buffer, 1, n)
    BY DEF Leftovers, RolledBack, Committed, Partial
  <2> QED
    BY <2>1, <2>2, <2>3, <2>4
<1>3. /\ stored' \in Seq(1..MaxSamples) /\ Increasing(stored')
      /\ \A i \in 1..Len(stored') : stored'[i] <= given
  BY <1>2, PartWritten
<1>4. kind = "sqlite" => stored' = stored
  BY <1>1, <1>2, ConcatEmptySeq
<1>5. kind = "sqlite" => \A i \in 1..Len(stored) : stored[i] <= first + emitted
  BY DEF IInv, NothingNewer, Running, Below
<1>6. Buffered' /\ AtTheEnd'
  BY DEF IInv, Buffered, AtTheEnd, Running
<1>7. NothingNewer' /\ StoredInOrder'
  BY <1>3, <1>4, <1>5 DEF NothingNewer, Running, Below, StoredInOrder, Increasing
<1> QED
  BY <1>3, <1>6, <1>7 DEF DataInv

-----------------------------------------------------------------------------
\* The actions

\* Opening and closing keep what is stored, or empty a CSV file.
LEMMA HandleIInv == ASSUME IInv, Open \/ OpenFails \/ Close PROVE IInv'
<1>1. /\ UNCHANGED <<kind, create, table, buffer, emitted, waited, final, first, given, error>>
      /\ Between /\ pc' \in {"idle", pc}
      /\ stored' \in {stored, <<>>} /\ (pc' # "idle" => stored' = stored)
  BY DEF Open, OpenFails, Close, choice, pipe
<1>2. opened' \in BOOLEAN /\ locked' \in BOOLEAN /\ ready' \in BOOLEAN /\ broken' \in BOOLEAN
  BY DEF Open, OpenFails, Close, IInv, TypeOK
<1>3. <<>> \in Seq(1..MaxSamples) /\ Len(<<>>) = 0
  BY EmptySeq
<1>4. TypeOK'
  BY <1>1, <1>2, <1>3 DEF IInv, TypeOK
<1>5. Prepared'
  <2>1. CASE Open
    BY <2>1 DEF Open, choice, IInv, Prepared, Between, IntrospectionFails, Introspects,
                Table, HasSchema, TypeOK
  <2>2. CASE OpenFails
    BY <2>2 DEF OpenFails, choice, IInv, Prepared, Between, Table, HasSchema, TypeOK
  <2>3. CASE Close
    BY <2>3 DEF Close, choice, pipe, IInv, Prepared, Between, Table, HasSchema, TypeOK
  <2> QED
    BY <2>1, <2>2, <2>3
<1>6. AssertionsExplained'
  BY <1>1 DEF Open, OpenFails, Close, IInv, AssertionsExplained
<1>7. DataInv'
  <2>1. CASE stored' = stored
    BY <1>1, <2>1, DataFrame DEF Running, Between, IInv, Buffered
  <2>2. CASE stored' = <<>> /\ pc' = "idle"
    <3>1. Len(stored') = 0
      BY <1>3, <2>2
    <3> QED
      BY <2>2, <3>1
         DEF DataInv, Buffered, AtTheEnd, Running, NothingNewer, Below, StoredInOrder
  <2> QED
    BY <1>1, <2>1, <2>2
<1> QED
  BY <1>4, <1>5, <1>6, <1>7 DEF IInv, DataInv

LEMMA PipeIInv == ASSUME IInv, Pipe PROVE IInv'
<1>1. /\ UNCHANGED <<kind, create, table, opened, locked, ready, stored, broken, given>>
      /\ pc' = "reading" /\ buffer' = <<>> /\ emitted' = 0 /\ waited' = 0 /\ final' = FALSE
      /\ first' = given /\ error' = "none" /\ Between /\ opened
  BY DEF Pipe, choice, sink
<1>2. given \in Nat /\ given <= given /\ given - given = 0 /\ given + 0 = given
  BY Types DEF IInv
<1>3. TypeOK'
  <2>1. /\ first' \in 0..given' /\ emitted' \in 0..(given' - first')
        /\ waited' \in 0..(FlushInterval + 1)
    BY <1>1, <1>2, SinksAssumption
  <2>2. buffer' \in Seq(1..MaxSamples)
    BY <1>1, EmptySeq
  <2> QED
    BY <1>1, <2>1, <2>2 DEF IInv, TypeOK, Errors
<1>4. Numbers(given, given) = <<>>
  <2>1. Numbers(given, given) \in Seq(Nat) /\ Len(Numbers(given, given)) = given - given
    BY <1>2, NumbersFacts
  <2> QED
    BY <1>2, <2>1, EmptySeq
<1>5. Buffered'
  BY <1>1, <1>2, <1>4 DEF Buffered
<1>6. AtTheEnd' /\ NothingNewer' /\ StoredInOrder'
  BY <1>1, <1>2, Types DEF IInv, AtTheEnd, NothingNewer, Below, StoredInOrder
<1>7. Prepared' /\ AssertionsExplained'
  BY <1>1 DEF IInv, Prepared, Between, AssertionsExplained, Table, HasSchema
<1> QED
  BY <1>3, <1>5, <1>6, <1>7 DEF IInv

LEMMA BatchIInv == ASSUME IInv, NEW n \in 0..MaxBatch, Batch(n) PROVE IInv'
<1> DEFINE b == buffer \o Numbers(given, given + n)
<1>1. /\ pc = "reading" /\ given + n <= MaxSamples /\ given' = given + n /\ buffer' = b
      /\ waited' \in {0, waited} /\ pc' \in {"reading", "writing"}
      /\ UNCHANGED <<kind, create, table, opened, locked, ready, stored, broken, emitted,
                     final, first, error>>
  BY DEF Batch, choice, sink
<1>2. n \in Nat
  BY SinksAssumption
<1>3. b \in Seq(1..MaxSamples) /\ b = Numbers(first + emitted, given + n)
  BY <1>1, <1>2, BatchExtends
<1> HIDE DEF b
<1>4. /\ given \in 0..MaxSamples /\ MaxSamples \in Nat /\ first \in 0..given
      /\ emitted \in 0..(given - first) /\ waited \in 0..(FlushInterval + 1)
      /\ FlushInterval \in Nat
  BY SinksAssumption DEF IInv, TypeOK
<1>5. TypeOK'
  <2>1. /\ given' \in 0..MaxSamples /\ first' \in 0..given' /\ emitted' \in 0..(given' - first')
        /\ waited' \in 0..(FlushInterval + 1)
    BY <1>1, <1>2, <1>4
  <2> QED
    BY <1>1, <1>3, <2>1 DEF IInv, TypeOK
<1>6. Buffered' /\ AtTheEnd' /\ StoredInOrder'
  BY <1>1, <1>3 DEF IInv, Buffered, AtTheEnd, Running, StoredInOrder
<1>7. NothingNewer'
  <2>1. ASSUME NEW i \in 1..Len(stored) PROVE stored[i] <= given /\ stored[i] \in Nat
    BY Types, ElementOfSeq DEF IInv, NothingNewer, Below
  <2>2. ASSUME NEW i \in 1..Len(stored) PROVE stored[i] <= given'
    BY <2>1, <1>1, <1>2, <1>4
  <2>3. Below(first + emitted)
    BY <1>1 DEF IInv, NothingNewer, Running
  <2> QED
    BY <1>1, <2>2, <2>3 DEF NothingNewer, Below
<1>8. Prepared' /\ AssertionsExplained'
  BY <1>1 DEF IInv, Prepared, Between, AssertionsExplained, Table, HasSchema
<1> QED
  BY <1>5, <1>6, <1>7, <1>8 DEF IInv

\* The steps of a pipe that move no samples.
LEMMA QuietIInv ==
  ASSUME IInv, Tick \/ StreamEnds \/ LockSchema \/ Created \/ UNCHANGED vars PROVE IInv'
<1>1. UNCHANGED <<kind, create, table, stored, buffer, emitted, first, given, error, opened, broken>>
  BY DEF Tick, StreamEnds, LockSchema, Created, vars, choice, sink, pipe
<1>2. /\ waited' \in 0..(FlushInterval + 1) /\ final' \in BOOLEAN
      /\ locked' \in BOOLEAN /\ ready' \in BOOLEAN
      /\ pc' \in {"idle", "reading", "writing", "creating", "returned", "failed"}
  <2>1. /\ waited \in 0..(FlushInterval + 1) /\ FlushInterval \in Nat /\ final \in BOOLEAN
        /\ locked \in BOOLEAN /\ ready \in BOOLEAN
        /\ pc \in {"idle", "reading", "writing", "creating", "returned", "failed"}
    BY SinksAssumption DEF IInv, TypeOK
  <2>2. CASE Tick
    BY <2>1, <2>2 DEF Tick, choice, sink
  <2>3. CASE StreamEnds \/ UNCHANGED vars
    BY <2>1, <2>3 DEF StreamEnds, vars, choice, sink, pipe
  <2>4. CASE LockSchema \/ Created
    BY <2>1, <2>4 DEF LockSchema, Created, choice
  <2> QED
    BY <2>2, <2>3, <2>4
<1>3. TypeOK'
  BY <1>1, <1>2 DEF IInv, TypeOK
<1>4. /\ pc' # "idle" => pc # "idle"
      /\ pc' = "returned" => buffer = <<>>
      /\ Running' => Running
      /\ pc' = "failed" => Running \/ pc = "failed"
  BY DEF Tick, StreamEnds, LockSchema, Created, vars, choice, sink, pipe, Running, IInv, Buffered
<1>5. DataInv'
  BY <1>1, <1>4, DataFrame
<1>6. Prepared'
  <2>1. CASE Tick \/ StreamEnds \/ UNCHANGED vars
    <3>1. /\ UNCHANGED <<locked, ready>>
          /\ pc' = pc \/ (pc = "reading" /\ pc' \in {"returned", "writing"})
      BY <2>1 DEF Tick, StreamEnds, vars, choice, sink, pipe
    <3>2. (~Between' => ~Between) /\ (pc' = "creating" <=> pc = "creating")
      BY <3>1 DEF Between
    <3> QED
      BY <1>1, <3>1, <3>2 DEF IInv, Prepared, Table, HasSchema
  <2>2. CASE LockSchema
    BY <1>1, <2>2 DEF LockSchema, MustLock, IInv, TypeOK, Prepared, Between, Table, HasSchema
  <2>3. CASE Created
    BY <1>1, <2>3 DEF Created, IInv, TypeOK, Prepared, Between, Table, HasSchema
  <2> QED
    BY <2>1, <2>2, <2>3
<1>7. AssertionsExplained'
  BY <1>1 DEF IInv, AssertionsExplained
<1> QED
  BY <1>3, <1>5, <1>6, <1>7 DEF IInv, DataInv

LEMMA WriteIInv == ASSUME IInv, Write PROVE IInv'
<1>1. /\ UNCHANGED <<kind, create, table, opened, locked, broken, waited, final, first, given, error>>
      /\ ready' = (ready \/ kind = "csv") /\ pc' \in {"reading", "returned"} /\ pc = "writing"
  BY DEF Write, Writable, choice
<1>2. DataInv' /\ stored' \in Seq(1..MaxSamples) /\ emitted' = given - first /\ buffer' = <<>>
  BY WriteData
<1>3. /\ emitted' \in 0..(given - first) /\ buffer' \in Seq(1..MaxSamples)
  BY <1>2, Types, EmptySeq DEF IInv
<1>4. TypeOK'
  BY <1>1, <1>2, <1>3 DEF IInv, TypeOK
<1>5. Prepared' /\ AssertionsExplained'
  BY <1>1 DEF IInv, Prepared, Between, AssertionsExplained, Table, HasSchema
<1> QED
  BY <1>2, <1>4, <1>5 DEF IInv, DataInv

\* Every way a pipe ends with an exception.
LEMMA FailIInv ==
  ASSUME IInv, CreateFails \/ AssertFails \/ WriteFails \/ Cancel PROVE IInv'
<1>1. /\ UNCHANGED <<kind, create, table, opened, locked, buffer, emitted, waited, final, first, given>>
      /\ pc \in {"reading", "writing", "creating"} /\ pc' = "failed"
      /\ broken' = (broken \/ pc = "creating")
      /\ ready' \in {ready, ready \/ kind = "csv"}
      /\ error' \in Errors
  BY DEF CreateFails, AssertFails, WriteFails, Cancel, Writable, Fail, choice, Errors
<1>2. stored' = stored \/ (pc = "writing" /\ \E part \in Leftovers : stored' = stored \o part)
  BY DEF CreateFails, AssertFails, WriteFails, Cancel, Writable
<1>3. DataInv' /\ stored' \in Seq(1..MaxSamples)
  <2>1. CASE stored' = stored
    <3>1. DataInv'
      BY <1>1, <2>1, DataFrame DEF Running
    <3> QED
      BY <2>1, <3>1 DEF IInv, TypeOK
  <2>2. CASE pc = "writing" /\ \E part \in Leftovers : stored' = stored \o part
    BY <1>1, <2>2, LeftoversData
  <2> QED
    BY <1>2, <2>1, <2>2
<1>4. TypeOK'
  BY <1>1, <1>3 DEF IInv, TypeOK
<1>5. Prepared'
  BY <1>1 DEF IInv, TypeOK, Prepared, Between, Table, HasSchema
<1>6. AssertionsExplained'
  <2>1. CASE AssertFails
    <3>1. broken
      BY <2>1 DEF AssertFails, MustLock, IInv, TypeOK, Prepared, Between, Table, HasSchema
    <3> QED
      BY <1>1, <3>1 DEF AssertionsExplained
  <2>2. CASE CreateFails \/ WriteFails \/ Cancel
    BY <2>2 DEF CreateFails, WriteFails, Cancel, Fail, AssertionsExplained
  <2> QED
    BY <2>1, <2>2
<1> QED
  BY <1>3, <1>4, <1>5, <1>6 DEF IInv, DataInv

LEMMA InitIInv == Init => IInv
<1> SUFFICES ASSUME Init PROVE IInv
  OBVIOUS
<1>1. <<>> \in Seq(1..MaxSamples) /\ Len(<<>>) = 0
  BY EmptySeq
<1>2. 0 \in 0..MaxSamples /\ 0 \in 0..0 /\ 0 \in 0..(0 - 0) /\ 0 \in 0..(FlushInterval + 1)
  BY SinksAssumption
<1>3. TypeOK
  BY <1>1, <1>2 DEF Init, TypeOK, Errors, Table
<1>4. Prepared /\ AssertionsExplained
  BY DEF Init, Prepared, Between, AssertionsExplained, Table, HasSchema
<1>5. Buffered /\ AtTheEnd
  BY DEF Init, Buffered, AtTheEnd, Running
<1>6. NothingNewer /\ StoredInOrder
  BY <1>1 DEF Init, NothingNewer, Below, Running, StoredInOrder
<1> QED
  BY <1>3, <1>4, <1>5, <1>6 DEF IInv

LEMMA NextIInv == IInv /\ [Next]_vars => IInv'
BY HandleIInv, PipeIInv, BatchIInv, QuietIInv, WriteIInv, FailIInv DEF Next, Batches

LEMMA Invariance == Spec => []IInv
BY InitIInv, NextIInv, PTL DEF Spec

-----------------------------------------------------------------------------
\* The theorems

\* The counters of a pipe stay within what its stream gave it.
THEOREM TypeCorrect == Spec => []TypeOK
BY Invariance, PTL DEF IInv

\* The assertions of the sinks fail on a sink that is past use and on no other,
\* whatever is opened, written and closed in which order.
THEOREM AssertionsHold == Spec => []AssertionsExplained
BY Invariance, PTL DEF IInv

\* No sample of a pipe is lost between two flushes and samples_emitted is the
\* truth, for every batch size and interval and every series of batches; and
\* a pipe that returns has stored its whole stream (sinks/base.py:160-190).
THEOREM PipeKeepsAll == Spec => []PipeAccounted
<1>1. ASSUME IInv, Running
      PROVE  /\ emitted <= Len(stored)
             /\ Last(stored, emitted) \o buffer = Numbers(first, given)
             /\ pc = "returned" => buffer = <<>>
  <2>1. /\ given \in Nat /\ first \in Nat /\ emitted \in Nat /\ Len(stored) \in Nat
        /\ first + emitted \in Nat /\ first + emitted <= given /\ first <= first + emitted
        /\ stored \in Seq(Nat)
    BY <1>1, Types DEF IInv
  <2>2. /\ emitted <= Len(stored)
        /\ \A i \in 1..emitted : stored[Len(stored) - emitted + i] = first + i
    BY <1>1 DEF IInv, AtTheEnd
  <2>3. buffer = Numbers(first + emitted, given) /\ (pc = "returned" => buffer = <<>>)
    BY <1>1 DEF IInv, Buffered, Running
  <2> DEFINE l == Last(stored, emitted)
             r == Numbers(first, first + emitted)
             m == Len(stored) - emitted + 1
  <2>4. l \in Seq(Nat) /\ Len(l) = emitted /\ \A i \in 1..emitted : l[i] = first + i
    <3>1. m \in Int /\ Len(stored) \in Int /\ Len(stored) - m + 1 = emitted
      BY <2>1
    <3>2. \A i \in m..Len(stored) : stored[i] \in Nat
      <4>1. \A i \in 1..Len(stored) : stored[i] \in Nat
        BY <2>1, ElementOfSeq
      <4> QED
        BY <2>1, <2>2, <4>1
    <3>3. /\ l \in Seq(Nat)
          /\ Len(l) = IF m <= Len(stored) THEN Len(stored) - m + 1 ELSE 0
          /\ \A i \in 1..(Len(stored) - m + 1) : l[i] = stored[m + i - 1]
      BY <3>1, <3>2, SubSeqProperties DEF Last
    <3> HIDE DEF l
    <3>4. Len(l) = emitted
      BY <2>1, <3>1, <3>3
    <3>5. ASSUME NEW i \in 1..emitted PROVE l[i] = first + i
      <4>1. l[i] = stored[m + i - 1] /\ m + i - 1 = Len(stored) - emitted + i
        BY <2>1, <3>1, <3>3
      <4> QED
        BY <2>2, <4>1
    <3> QED
      BY <3>3, <3>4, <3>5
  <2>5. r \in Seq(Nat) /\ Len(r) = emitted /\ \A i \in 1..emitted : r[i] = first + i
    <3>1. (first + emitted) - first = emitted
      BY <2>1
    <3>2. /\ r \in Seq(Nat) /\ Len(r) = (first + emitted) - first
          /\ \A i \in 1..((first + emitted) - first) : r[i] = first + i
      BY <2>1, NumbersFacts
    <3> QED
      BY <3>1, <3>2
  <2> HIDE DEF l, r
  <2>6. l = r
    BY <2>4, <2>5, SeqEqual
  <2>7. r \o Numbers(first + emitted, given) = Numbers(first, given)
    BY <2>1, NumbersJoin DEF r
  <2> QED
    BY <2>2, <2>3, <2>6, <2>7 DEF l
<1>2. IInv => PipeAccounted
  BY <1>1 DEF PipeAccounted
<1> QED
  BY <1>2, Invariance, PTL

\* However pipes fail and are tried again, no sink holds a sample twice or two
\* in the wrong order, and of a flush that failed SQLite holds nothing.
THEOREM StoresOnce == Spec => []StoredOnce
<1>1. ASSUME IInv, kind = "sqlite", pc = "failed",
             NEW i \in 1..Len(stored), NEW j \in 1..Len(buffer)
      PROVE  stored[i] # buffer[j]
  <2>1. stored[i] <= first + emitted /\ stored[i] \in Nat
    BY <1>1, Types, ElementOfSeq DEF IInv, NothingNewer, Below
  <2>2. first + emitted \in Nat /\ given \in Nat /\ first + emitted <= given
    BY <1>1, Types DEF IInv
  <2>3. buffer = Numbers(first + emitted, given)
    BY <1>1 DEF IInv, Buffered
  <2>4. buffer[j] = first + emitted + j
    BY <1>1, <2>2, <2>3, NumbersFacts
  <2> QED
    BY <2>1, <2>2, <2>4
<1>2. IInv => StoredOnce
  BY <1>1 DEF IInv, StoredOnce, SqliteAllOrNothing
<1> QED
  BY <1>2, Invariance, PTL

-----------------------------------------------------------------------------
\* Sync: the invariant of its facades

SyncTypes ==
  /\ host \in [Facades -> Portals] /\ \A f \in Facades : host[f] \in {f, Shared}
  /\ loop \in [Portals -> {"off", "running", "draining", "cancelling"}]
  /\ phase \in [Facades -> Calls \cup {"new", "open", "stopping", "failed", "done"}]
  /\ second \in [Facades -> {"none", "polling", "iterating", "stranded"}]
  /\ resource \in [Facades -> {"closed", "open", "closing", "crashed", "lost"}]
  /\ orphan \in [Facades -> Calls \cup {"none"}]

\* What the phases of each kind of facade are.
Kind(f) ==
  /\ f \in Recordings =>
       phase[f] \in {"new", "running", "stopping", "failed", "done"} /\ resource[f] = "closed"
  /\ f \in Managers => phase[f] \in {"new", "open", "exiting", "stopping", "failed", "done"}
  /\ phase[f] = "opening" => f \in Analyzers \cup Sinks
  /\ phase[f] = "running" => f \in Recordings
  /\ phase[f] = "entering" => f \in Analyzers

\* What a call without its thread may be.
Lone(f) ==
  /\ phase[f] \in Calls \cup {"new", "open"} => orphan[f] = "none"
  /\ orphan[f] = "opening" => f \in Analyzers \cup Sinks
  /\ orphan[f] = "entering" => f \in Analyzers
  /\ orphan[f] = "running" => f \in Recordings

\* A private loop is started by its facade and stopped by it.
Private(f) ==
  IF Owns(f)
  THEN /\ loop[f] = "off" <=> phase[f] \in {"new", "done"}
       /\ loop[f] \in {"draining", "cancelling"} <=> phase[f] = "stopping"
  ELSE loop[f] = "off" /\ phase[f] # "stopping"

\* Where a facade holds nothing that is open; an analyser's context keeps its
\* loop by itself (Busy).
Held(f) ==
  /\ phase[f] \in {"new", "opening", "entering"} => resource[f] = "closed"
  /\ Owns(f) /\ phase[f] \in {"stopping", "failed", "done"} =>
       f \in Analyzers \/ orphan[f] # "none" \/ resource[f] # "open"
  /\ Owns(f) /\ phase[f] = "open" /\ f \in Analyzers => resource[f] \in {"open", "crashed"}

\* What runs on a loop keeps it from stopping.
Busy(f) == InCall(f) \/ InContext(f) \/ second[f] # "none" => Home(f) # "off"

FInv(f) == Kind(f) /\ Lone(f) /\ Private(f) /\ Held(f) /\ Busy(f)

SyncInv == SyncTypes /\ \A f \in Facades : FInv(f)

-----------------------------------------------------------------------------

LEMMA InitSyncInv == SyncInit => SyncInv
<1> SUFFICES ASSUME SyncInit PROVE SyncInv
  OBVIOUS
<1>1. SyncTypes
  BY SyncAssumption DEF SyncInit, SyncTypes
<1>2. ASSUME NEW f \in Facades PROVE FInv(f)
  <2>1. /\ phase[f] = "new" /\ resource[f] = "closed" /\ second[f] = "none" /\ loop[f] = "off"
        /\ orphan[f] = "none"
    BY DEF SyncInit, Portals
  <2> QED
    BY <2>1 DEF FInv, Kind, Lone, Private, Held, Busy, InCall, InContext, Calls
<1> QED
  BY <1>1, <1>2 DEF SyncInv

\* The steps of a facade touch nothing of another one: its loop is its own or
\* the shared one, which no facade stops.
LEMMA Others ==
  ASSUME SyncInv, NEW f \in Facades, NEW g \in Facades \ {f}, host' = host,
         phase'[g] = phase[g], second'[g] = second[g], resource'[g] = resource[g],
         orphan'[g] = orphan[g], \A p \in Portals \ {f} : loop'[p] = loop[p]
  PROVE  FInv(g)'
<1>1. g \in Portals /\ host[g] \in Portals \ {f} /\ g # f
  BY SyncAssumption DEF SyncInv, SyncTypes, Portals
<1>2. loop'[g] = loop[g] /\ Home(g)' = Home(g)
  BY <1>1 DEF Home
<1>3. FInv(g)
  BY DEF SyncInv
<1> QED
  BY <1>2, <1>3
     DEF FInv, Kind, Lone, Private, Held, Busy, InCall, InContext, Owns

\* The user, and what the loop does for one facade.
LEMMA FacadeStep ==
  ASSUME SyncInv, NEW f \in Facades, User(f) \/ Work(f) \/ CallReturns(f)
  PROVE  SyncInv'
<1>1. /\ FInv(f) /\ SyncTypes /\ f \in Portals /\ Shared \in Portals /\ Shared # f
      /\ host[f] \in {f, Shared}
  BY SyncAssumption DEF SyncInv, SyncTypes, Portals
<1>2. host' = host
  BY DEF User, Work, Enter, StartInterrupted, ManagerAdds, Call, SampleComes, SessionLeft,
         LoopCrashes, Exit, ExitRefused, Interrupted, OpenReturns, EnterRaises, Entered,
         SinkOpenRaises, RecordingEnds, StreamsClosed, Exited, ContextCancelled, OrphanEnds,
         CallReturns
<1> USE DEF Go, StopOwn, Calls
\* One step: who is where, and what of it changes.
<1> DEFINE Rest ==
      /\ SyncTypes'
      /\ \A p \in Portals \ {f} : loop'[p] = loop[p]
      /\ \A g \in Facades \ {f} : /\ phase'[g] = phase[g] /\ second'[g] = second[g]
                                  /\ resource'[g] = resource[g] /\ orphan'[g] = orphan[g]
      /\ FInv(f)'
<1> SUFFICES Rest
  <2>1. ASSUME Rest PROVE SyncInv'
    BY <2>1, <1>2, Others DEF SyncInv
  <2> QED
    BY <2>1
<1>3. CASE Enter(f) \/ StartInterrupted(f)
  <2>1. /\ phase[f] = "new" /\ UNCHANGED <<second, resource, orphan>>
        /\ \E at \in {"open", "running", "opening", "failed"} :
             /\ phase' = [phase EXCEPT ![f] = at]
             /\ at = "open" => f \in Managers
             /\ at = "running" => f \in Recordings
             /\ at = "opening" => f \notin Managers \cup Recordings
             /\ at = "failed" => Owns(f)
             /\ at \in {"running", "opening"} => Owns(f) \/ Home(f) = "running"
        /\ IF Owns(f) THEN loop' = [loop EXCEPT ![f] = "running"] ELSE UNCHANGED loop
    BY <1>3 DEF Enter, StartInterrupted, CanEnter
  <2>2. /\ SyncTypes' /\ \A p \in Portals \ {f} : loop'[p] = loop[p]
        /\ \A g \in Facades \ {f} : phase'[g] = phase[g]
        /\ phase'[f] \in {"open", "running", "opening", "failed"}
        /\ phase'[f] = "open" => f \in Managers
        /\ phase'[f] = "running" => f \in Recordings
        /\ phase'[f] = "opening" => f \notin Managers \cup Recordings
        /\ phase'[f] = "failed" => Owns(f)
        /\ phase'[f] \in {"running", "opening"} => Owns(f) \/ Home(f) = "running"
        /\ loop'[f] = IF Owns(f) THEN "running" ELSE loop[f]
    BY <1>1, <1>2, <2>1 DEF SyncTypes
  <2>3. Home(f)' = IF Owns(f) THEN "running" ELSE Home(f)
    BY <1>1, <1>2, <2>2 DEF Home, Owns
  <2>4. /\ resource[f] = "closed" /\ orphan[f] = "none"
        /\ f \in Analyzers \cup Managers \cup Sinks \cup Recordings
    BY <1>1, <2>1 DEF FInv, Held, Lone, Facades
  <2>5. Kind(f)' /\ Lone(f)'
    BY <2>1, <2>2, <2>4, SyncAssumption DEF Kind, Lone
  <2>6. Private(f)' /\ Held(f)' /\ Busy(f)'
    BY <1>1, <1>2, <2>1, <2>2, <2>3, <2>4, SyncAssumption
       DEF FInv, Private, Held, Busy, InCall, InContext, Owns
  <2> QED
    BY <2>1, <2>2, <2>5, <2>6 DEF FInv
\* A call that stays on its loop: the loops are as they were.
<1>4. ASSUME UNCHANGED loop,
             \E at \in {phase[f], "entering", "open", "exiting", "failed", "done"} :
               phase' = [phase EXCEPT ![f] = at],
             \E r \in {resource[f], "open", "closing", "crashed", "closed", "lost"} :
               resource' = [resource EXCEPT ![f] = r],
             \E c \in {second[f], "none", "polling", "iterating", "stranded"} :
               second' = [second EXCEPT ![f] = c],
             \E o \in {orphan[f], "none", "opening"} : orphan' = [orphan EXCEPT ![f] = o],
             Kind(f)', Lone(f)', Held(f)', Busy(f)',
             Owns(f) => phase'[f] = phase[f] \/ (phase[f] \notin {"new", "done", "stopping"} /\ phase'[f] # "done")
      PROVE  Rest
  <2>1. /\ SyncTypes' /\ \A g \in Facades \ {f} : /\ phase'[g] = phase[g] /\ second'[g] = second[g]
                                              /\ resource'[g] = resource[g] /\ orphan'[g] = orphan[g]
        /\ phase'[f] \in {phase[f], "entering", "open", "exiting", "failed", "done"}
    BY <1>1, <1>2, <1>4 DEF SyncTypes
  <2>2. Private(f)'
    BY <1>1, <1>2, <1>4, <2>1 DEF FInv, Private, Owns
  <2> QED
    BY <1>4, <2>1, <2>2 DEF FInv
\* A facade that stops its own loop, if it has one.
<1>5. ASSUME NEW exc \in BOOLEAN, NEW shared \in {"failed", "done"}, StopOwn(f, exc, shared),
             phase[f] \in Calls,
             \E r \in {resource[f], "closed", "lost"} : resource' = [resource EXCEPT ![f] = r],
             \E o \in {orphan[f], phase[f]} : orphan' = [orphan EXCEPT ![f] = o],
             f \in Analyzers \/ orphan'[f] # "none" \/ resource'[f] # "open",
             UNCHANGED second, f \in Recordings => resource'[f] = "closed",
             f \in Managers \cup Recordings => shared = "done"
      PROVE  Rest
  <2>1. /\ SyncTypes'
        /\ \A p \in Portals \ {f} : loop'[p] = loop[p]
        /\ \A g \in Facades \ {f} : /\ phase'[g] = phase[g] /\ resource'[g] = resource[g]
                                    /\ orphan'[g] = orphan[g]
        /\ resource'[f] \in {resource[f], "closed", "lost"}
        /\ orphan'[f] \in {orphan[f], phase[f]}
        /\ phase'[f] = IF Owns(f) THEN "stopping" ELSE shared
        /\ IF Owns(f) THEN loop'[f] \in {"draining", "cancelling"} ELSE loop'[f] = loop[f]
    BY <1>1, <1>2, <1>5 DEF SyncTypes
  <2>2. /\ Owns(f) => Home(f)' # "off"
        /\ ~Owns(f) => Home(f)' = Home(f)
    BY <1>1, <1>2, <2>1 DEF Home, Owns
  <2>3. Private(f)' /\ Held(f)'
    BY <1>1, <1>2, <1>5, <2>1 DEF FInv, Private, Held, Owns
  <2>4. Busy(f)'
    BY <1>1, <1>5, <2>1, <2>2 DEF FInv, Busy, InCall, InContext
  <2>5. Kind(f)' /\ Lone(f)'
    BY <1>1, <1>5, <2>1 DEF FInv, Kind, Lone
  <2> QED
    BY <1>5, <2>1, <2>3, <2>4, <2>5 DEF FInv
<1>6. ASSUME UNCHANGED loop PROVE Home(f)' = Home(f) /\ Owns(f)' = Owns(f)
  BY <1>2, <1>6 DEF Home, Owns
<1>7. /\ phase = [phase EXCEPT ![f] = phase[f]] /\ second = [second EXCEPT ![f] = second[f]]
      /\ resource = [resource EXCEPT ![f] = resource[f]]
      /\ orphan = [orphan EXCEPT ![f] = orphan[f]]
  BY <1>1 DEF SyncTypes
<1>8. phase[f] \in Calls \cup {"new", "open", "stopping", "failed", "done"}
  BY <1>1 DEF SyncTypes
<1>9. f \in Analyzers \cup Managers \cup Sinks \cup Recordings
  BY DEF Facades
<1> HIDE DEF Rest
<1>10. CASE OpenReturns(f)
  <2>1. /\ phase[f] = "opening" /\ UNCHANGED <<loop, second, orphan>>
        /\ IF f \in Analyzers
           THEN phase' = [phase EXCEPT ![f] = "entering"] /\ UNCHANGED resource
           ELSE phase' = [phase EXCEPT ![f] = "open"] /\ resource' = [resource EXCEPT ![f] = "open"]
    BY <1>10 DEF OpenReturns
  <2>2. IF f \in Analyzers THEN phase'[f] = "entering" /\ resource'[f] = resource[f]
        ELSE phase'[f] = "open" /\ resource'[f] = "open"
    BY <1>1, <2>1 DEF SyncTypes
  <2>3. Kind(f)' /\ Lone(f)' /\ Held(f)' /\ Busy(f)'
    BY <1>1, <1>6, <1>9, <2>1, <2>2, SyncAssumption
       DEF FInv, Kind, Lone, Held, Busy, InCall, InContext
  <2> QED
    BY <1>4, <1>7, <2>1, <2>2, <2>3
<1>11. CASE EnterRaises(f)
  <2>1. /\ f \in Analyzers /\ phase[f] \in {"opening", "entering"} /\ UNCHANGED <<second, orphan>>
        /\ \E r \in {"closed", "lost"} : resource' = [resource EXCEPT ![f] = r]
        /\ StopOwn(f, FALSE, "failed")
    BY <1>11 DEF EnterRaises, OpenLeaves
  <2>2. f \notin Recordings /\ f \notin Managers
    BY <2>1, SyncAssumption
  <2> QED
    BY <1>5, <1>7, <2>1, <2>2
<1>12. CASE Entered(f)
  <2>1. /\ phase[f] = "entering" /\ UNCHANGED <<loop, second, orphan>>
        /\ phase' = [phase EXCEPT ![f] = "open"] /\ resource' = [resource EXCEPT ![f] = "open"]
    BY <1>12 DEF Entered
  <2>2. phase'[f] = "open" /\ resource'[f] = "open" /\ f \in Analyzers
    BY <1>1, <2>1 DEF SyncTypes, FInv, Kind
  <2>3. Kind(f)' /\ Lone(f)' /\ Held(f)' /\ Busy(f)'
    BY <1>1, <1>6, <2>1, <2>2, SyncAssumption
       DEF FInv, Kind, Lone, Held, Busy, InCall, InContext
  <2> QED
    BY <1>4, <1>7, <2>1, <2>2, <2>3
<1>13. CASE SinkOpenRaises(f)
  <2>1. /\ f \in Sinks /\ phase[f] = "opening" /\ UNCHANGED <<loop, second, resource, orphan>>
        /\ phase' = [phase EXCEPT ![f] = "failed"]
    BY <1>13 DEF SinkOpenRaises
  <2>2. phase'[f] = "failed"
    BY <1>1, <2>1 DEF SyncTypes
  <2>3. Kind(f)' /\ Lone(f)' /\ Held(f)' /\ Busy(f)'
    BY <1>1, <1>6, <2>1, <2>2, SyncAssumption
       DEF FInv, Kind, Lone, Held, Busy, InCall, InContext
  <2> QED
    BY <1>4, <1>7, <2>1, <2>2, <2>3
<1>14. CASE ManagerAdds(f)
  <2>1. /\ f \in Managers /\ phase[f] = "open" /\ UNCHANGED <<loop, phase, second, orphan>>
        /\ resource' = [resource EXCEPT ![f] = "open"]
    BY <1>14 DEF ManagerAdds
  <2>2. Kind(f)' /\ Lone(f)' /\ Held(f)' /\ Busy(f)'
    BY <1>1, <1>6, <2>1, SyncAssumption
       DEF FInv, Kind, Lone, Held, Busy, InCall, InContext
  <2> QED
    BY <1>4, <1>7, <2>1, <2>2
<1>15. CASE \/ \E op \in {"polling", "iterating", "stranded"} : Call(f, op)
            \/ CallReturns(f) \/ SampleComes(f) \/ SessionLeft(f)
  <2>1. /\ UNCHANGED <<loop, phase, resource, orphan>>
        /\ \E c \in {"none", "polling", "iterating", "stranded"} :
             second' = [second EXCEPT ![f] = c] /\ (c # "none" => Home(f) # "off")
    BY <1>15 DEF Call, CallReturns, SampleComes, SessionLeft
  <2>2. second'[f] # "none" => Home(f) # "off"
    BY <1>1, <2>1 DEF SyncTypes
  <2>3. Kind(f)' /\ Lone(f)' /\ Held(f)' /\ Busy(f)'
    BY <1>1, <1>6, <2>1, <2>2 DEF FInv, Kind, Lone, Held, Busy, InCall, InContext
  <2> QED
    BY <1>4, <1>7, <2>1, <2>3
<1>16. CASE RecordingEnds(f)
  <2>1. /\ phase[f] = "running" /\ StopOwn(f, FALSE, "done") /\ UNCHANGED <<second, resource, orphan>>
    BY <1>16 DEF RecordingEnds
  <2>2. resource[f] = "closed"
    BY <1>1, <2>1 DEF FInv, Kind
  <2> QED
    BY <1>5, <1>7, <2>1, <2>2
<1>17. CASE Exit(f)
  <2>1. /\ phase[f] = "open" /\ Home(f) = "running" /\ UNCHANGED <<loop, second, resource, orphan>>
        /\ phase' = [phase EXCEPT ![f] = "exiting"]
    BY <1>17 DEF Exit, CanExit
  <2>2. phase'[f] = "exiting" /\ f \notin Recordings
    BY <1>1, <2>1 DEF SyncTypes, FInv, Kind
  <2>3. Kind(f)' /\ Lone(f)' /\ Held(f)' /\ Busy(f)'
    BY <1>1, <1>6, <2>1, <2>2 DEF FInv, Kind, Lone, Held, Busy, InCall, InContext
  <2> QED
    BY <1>4, <1>7, <2>1, <2>2, <2>3
\* Of a private portal it cannot come to that.
<1>18. CASE ExitRefused(f)
  <2>1. /\ phase[f] = "open" /\ ~CanExit(f) /\ UNCHANGED <<loop, second, resource, orphan>>
        /\ phase' = [phase EXCEPT ![f] = "done"]
    BY <1>18 DEF ExitRefused
  <2>2. ~Owns(f)
    <3>1. ASSUME Owns(f) PROVE CanExit(f)
      <4>1. loop[f] = "running" /\ Home(f) = "running"
        BY <1>1, <2>1, <3>1 DEF FInv, Private, SyncTypes, Home, Owns
      <4> QED
        BY <1>1, <2>1, <3>1, <4>1 DEF CanExit, FInv, Held
    <3> QED
      BY <2>1, <3>1
  <2>3. phase'[f] = "done"
    BY <1>1, <2>1 DEF SyncTypes
  <2>4. Kind(f)' /\ Lone(f)' /\ Held(f)' /\ Busy(f)'
    BY <1>1, <1>6, <2>1, <2>2, <2>3 DEF FInv, Kind, Lone, Held, Busy, InCall, InContext
  <2> QED
    BY <1>4, <1>7, <2>1, <2>2, <2>4
\* The end of a close, in the thread's call or in one without its thread.
<1>19. ASSUME CloseEnds(f)
       PROVE  \E r \in {resource[f], "closed", "lost"} :
                /\ resource' = [resource EXCEPT ![f] = r]
                /\ r # "open" /\ (InContext(f)' => InContext(f))
                /\ resource[f] = "closed" => r = "closed"
  <2>1. PICK r \in IF resource[f] \in {"closed", "crashed"} THEN {resource[f]} ELSE {"closed", "lost"} :
          resource' = [resource EXCEPT ![f] = r]
    BY <1>19 DEF CloseEnds
  <2> QED
    BY <1>1, <2>1 DEF SyncTypes, InContext
<1>20. ASSUME NEW exc \in BOOLEAN, Exited(f, exc) PROVE Rest
  <2>1. /\ phase[f] = "exiting" /\ StopOwn(f, exc, "done") /\ UNCHANGED <<second, orphan>>
        /\ CloseEnds(f)
    BY <1>20 DEF Exited
  <2>2. PICK r \in {resource[f], "closed", "lost"} :
          resource' = [resource EXCEPT ![f] = r] /\ r # "open"
    BY <1>19, <2>1
  <2>3. resource'[f] # "open" /\ f \notin Recordings
    BY <1>1, <2>1, <2>2 DEF SyncTypes, FInv, Kind
  <2> QED
    BY <1>5, <1>7, <2>1, <2>2, <2>3
\* An analyser's context that is left, or that its loop gives up.
<1>21. CASE LoopCrashes(f) \/ StreamsClosed(f) \/ ContextCancelled(f)
  <2>1. /\ f \in Analyzers /\ UNCHANGED <<loop, phase, second, orphan>> /\ InContext(f)
        /\ \E r \in {"crashed", "closing", "closed", "lost"} : resource' = [resource EXCEPT ![f] = r]
        /\ Owns(f) /\ phase[f] = "open" => resource'[f] = "crashed"
    <3>1. CASE LoopCrashes(f)
      BY <1>1, <3>1 DEF LoopCrashes, InContext, SyncTypes
    <3>2. CASE StreamsClosed(f)
      <4>1. phase[f] = "open" => orphan[f] = "none"
        BY <1>1 DEF FInv, Lone
      <4> QED
        BY <3>2, <4>1 DEF StreamsClosed, InContext, Leaving
    <3>3. CASE ContextCancelled(f)
      <4>1. ~(Owns(f) /\ phase[f] = "open")
        BY <1>1, <3>3 DEF ContextCancelled, Owns, Home, FInv, Private
      <4> QED
        BY <3>3, <4>1 DEF ContextCancelled, InContext
    <3> QED
      BY <1>21, <3>1, <3>2, <3>3
  <2>2. resource'[f] \in {"crashed", "closing", "closed", "lost"}
    BY <1>1, <2>1 DEF SyncTypes
  <2>3. phase[f] \notin {"new", "opening", "entering"}
    BY <1>1, <2>1 DEF FInv, Held, InContext
  <2>4. Kind(f)' /\ Lone(f)' /\ Held(f)' /\ Busy(f)'
    BY <1>1, <1>6, <2>1, <2>2, <2>3, SyncAssumption
       DEF FInv, Kind, Lone, Held, Busy, InCall, InContext
  <2> QED
    BY <1>4, <1>7, <2>1, <2>4
\* The thread goes, the call stays.
<1>22. CASE Interrupted(f)
  <2>1. UNCHANGED <<second, resource>> /\ orphan' = [orphan EXCEPT ![f] = phase[f]]
    BY <1>22 DEF Interrupted
  <2>2. orphan'[f] = phase[f]
    BY <1>1, <2>1 DEF SyncTypes
  <2>3. CASE f \in Sinks /\ phase[f] = "opening" /\ Go(f, "failed") /\ UNCHANGED loop
    <3>1. phase'[f] = "failed"
      BY <1>1, <2>3 DEF SyncTypes
    <3>2. Kind(f)' /\ Lone(f)' /\ Held(f)' /\ Busy(f)'
      BY <1>1, <1>6, <2>1, <2>2, <2>3, <3>1, SyncAssumption
         DEF FInv, Kind, Lone, Held, Busy, InCall, InContext
    <3> QED
      BY <1>4, <1>7, <2>1, <2>3, <3>1, <3>2
  <2>4. CASE f \in Analyzers /\ phase[f] \in {"opening", "entering"} /\ StopOwn(f, FALSE, "failed")
    <3>1. f \notin Recordings /\ f \notin Managers
      BY <2>4, SyncAssumption
    <3> QED
      BY <1>5, <1>7, <2>1, <2>4, <3>1
  <2>5. CASE phase[f] \in {"running", "exiting"} /\ \E exc \in BOOLEAN : StopOwn(f, exc, "done")
    <3>1. f \in Recordings => resource'[f] = "closed"
      BY <1>1, <2>1 DEF FInv, Kind
    <3>2. orphan'[f] # "none"
      BY <2>2, <2>5
    <3>3. PICK exc \in BOOLEAN : StopOwn(f, exc, "done")
      BY <2>5
    <3> QED
      BY <1>5, <1>7, <2>1, <2>5, <3>1, <3>2, <3>3
  <2> HIDE DEF StopOwn, Go
  <2> QED
    BY <1>22, <2>3, <2>4, <2>5 DEF Interrupted
<1>23. CASE OrphanEnds(f)
  <2>1. /\ orphan' = [orphan EXCEPT ![f] = "none"] /\ UNCHANGED <<loop, phase, second>>
        /\ orphan[f] # "none"
    BY <1>23 DEF OrphanEnds
  <2>2. \E r \in {resource[f], "open", "closed", "lost"} :
          /\ resource' = [resource EXCEPT ![f] = r]
          /\ f \notin Analyzers => r # "open"
          /\ f \in Recordings => r = "closed"
    <3>1. CASE /\ orphan[f] \in {"opening", "entering"}
               /\ \E left \in OpenLeaves(orphan[f]) : resource' = [resource EXCEPT ![f] = left]
      BY <1>1, <3>1, SyncAssumption DEF OpenLeaves, FInv, Lone
    <3>2. CASE orphan[f] = "entering" /\ resource' = [resource EXCEPT ![f] = "open"]
      BY <1>1, <3>2, SyncAssumption DEF FInv, Lone
    <3>3. CASE orphan[f] = "running" /\ UNCHANGED resource
      BY <1>1, <1>7, <3>3 DEF FInv, Lone, Kind
    <3>4. CASE orphan[f] = "exiting" /\ CloseEnds(f)
      BY <1>1, <1>19, <3>4 DEF FInv, Kind
    <3> QED
      BY <1>23, <3>1, <3>2, <3>3, <3>4 DEF OrphanEnds
  <2>3. /\ orphan'[f] = "none" /\ f \notin Analyzers => resource'[f] # "open"
        /\ f \in Recordings => resource'[f] = "closed"
    BY <1>1, <2>1, <2>2 DEF SyncTypes
  <2>4. phase[f] \notin Calls \cup {"new", "open"} /\ Home(f) # "off"
    BY <1>1, <2>1 DEF FInv, Lone, Busy, InCall
  <2>5. Kind(f)' /\ Lone(f)' /\ Held(f)' /\ Busy(f)'
    BY <1>1, <1>6, <2>1, <2>3, <2>4 DEF FInv, Kind, Lone, Held, Busy
  <2> QED
    BY <1>4, <1>7, <2>1, <2>2, <2>5
<1> QED
  BY <1>3, <1>10, <1>11, <1>12, <1>13, <1>14, <1>15, <1>16, <1>17, <1>18, <1>20, <1>21, <1>22,
     <1>23
     DEF User, Work

\* A loop that runs nothing any more is off.
LEMMA LoopStopsStep ==
  ASSUME SyncInv, NEW p \in Portals, LoopStops(p)
  PROVE  SyncInv'
<1>1. /\ loop[p] \in {"draining", "cancelling"} /\ Runs(p) = {}
      /\ UNCHANGED <<host, second, resource, orphan>>
      /\ loop' = [loop EXCEPT ![p] = "off"]
      /\ phase' = IF p \in Facades THEN [phase EXCEPT ![p] = "done"] ELSE phase
  BY DEF LoopStops
<1>2. SyncTypes /\ SyncTypes'
  BY <1>1 DEF SyncInv, SyncTypes, Calls
<1>3. \A f \in Facades : f \in Portals /\ host[f] \in {f, Shared} /\ f # Shared
  BY <1>2, SyncAssumption DEF SyncTypes, Portals
<1>4. ASSUME NEW f \in Facades, f = p PROVE FInv(f)'
  <2>1. Owns(f) /\ phase[f] = "stopping" /\ FInv(f)
    BY <1>1, <1>4 DEF SyncInv, FInv, Private
  <2>2. phase'[f] = "done" /\ loop'[f] = "off"
    BY <1>1, <1>2, <1>4 DEF SyncTypes
  <2>3. second[f] = "none" /\ orphan[f] = "none" /\ ~InContext(f)
    BY <1>1, <1>4, <2>1 DEF Runs, Owns, InCall
  <2> QED
    BY <1>1, <2>1, <2>2, <2>3
       DEF FInv, Kind, Lone, Private, Held, Busy, InCall, InContext, Calls, Owns
<1>5. ASSUME NEW f \in Facades, f # p PROVE FInv(f)'
  <2>1. /\ FInv(f) /\ phase'[f] = phase[f] /\ loop'[f] = loop[f] /\ host'[f] = host[f]
        /\ second'[f] = second[f] /\ resource'[f] = resource[f] /\ orphan'[f] = orphan[f]
    BY <1>1, <1>2, <1>3, <1>5 DEF SyncInv, SyncTypes, Calls
  <2>2. Busy(f)'
    <3>1. CASE host[f] = p
      BY <1>1, <2>1, <3>1 DEF Runs, Busy, InCall, InContext, Calls
    <3>2. CASE host[f] # p
      <4>1. Home(f)' = Home(f)
        BY <1>1, <1>2, <1>3, <3>2 DEF Home, SyncTypes
      <4> QED
        BY <2>1, <4>1 DEF FInv, Busy, InCall, InContext, Calls
    <3> QED
      BY <3>1, <3>2
  <2> QED
    BY <2>1, <2>2 DEF FInv, Kind, Lone, Private, Held, Owns
<1> QED
  BY <1>2, <1>4, <1>5 DEF SyncInv

LEMMA SharedStep ==
  ASSUME SyncInv, StartShared \/ \E exc \in BOOLEAN : StopShared(exc)
  PROVE  SyncInv'
<1>1. /\ UNCHANGED <<host, phase, second, resource, orphan>>
      /\ \E l \in {"running", "draining", "cancelling"} : loop' = [loop EXCEPT ![Shared] = l]
  BY DEF StartShared, StopShared
<1>2. SyncTypes /\ SyncTypes'
  <2>1. SyncTypes
    BY DEF SyncInv
  <2>2. loop' \in [Portals -> {"off", "running", "draining", "cancelling"}]
    BY <1>1, <2>1 DEF SyncTypes
  <2> QED
    BY <1>1, <2>1, <2>2 DEF SyncTypes
<1>3. ASSUME NEW f \in Facades PROVE FInv(f)'
  <2>1. FInv(f) /\ f # Shared /\ f \in Portals /\ Shared \in Portals /\ host[f] \in {f, Shared}
    BY <1>2, SyncAssumption DEF SyncInv, SyncTypes, Portals
  <2>2. loop'[f] = loop[f] /\ (Home(f)' = Home(f) \/ Home(f)' # "off")
    BY <1>1, <1>2, <2>1 DEF SyncTypes, Home
  <2> QED
    BY <1>1, <2>1, <2>2 DEF FInv, Kind, Lone, Private, Held, Busy, InCall, InContext, Calls, Owns
<1> QED
  BY <1>2, <1>3 DEF SyncInv

LEMMA NextSyncInv == SyncInv /\ [SyncNext]_syncVars => SyncInv'
<1> SUFFICES ASSUME SyncInv, [SyncNext]_syncVars PROVE SyncInv'
  OBVIOUS
<1>1. CASE UNCHANGED syncVars
  BY <1>1 DEF syncVars, SyncInv, SyncTypes, FInv, Kind, Lone, Private, Held, Busy, InCall, InContext, Calls, Owns, Home
<1> QED
  BY <1>1, FacadeStep, LoopStopsStep, SharedStep DEF SyncNext

LEMMA SyncInvariance == SyncSpec => []SyncInv
BY InitSyncInv, NextSyncInv, PTL DEF SyncSpec

-----------------------------------------------------------------------------
\* The theorems of Sync

\* A private loop runs just while its facade is in use, whatever raises on the
\* way in or out, for every number of facades and portals.
THEOREM NoLoopLeaks == SyncSpec => []LoopsAccounted
<1>1. SyncInv => LoopsAccounted
  BY DEF SyncInv, FInv, Private, LoopsAccounted
<1> QED
  BY <1>1, SyncInvariance, PTL

\* No loop stops under an analyser, nor a private one under anything.
THEOREM NothingOutlivesItsLoop == SyncSpec => []ClosedBeforeLoop
<1>1. SyncInv => ClosedBeforeLoop
  <2> SUFFICES ASSUME SyncInv, NEW f \in Facades, resource[f] = "open", Home(f) = "off"
               PROVE  ~Owns(f) /\ f \notin Analyzers
    BY DEF ClosedBeforeLoop
  <2>1. FInv(f)
    BY DEF SyncInv
  <2> QED
    BY <2>1 DEF FInv, Private, Held, Busy, InCall, InContext, Owns, Home
<1> QED
  BY <1>1, SyncInvariance, PTL
==============================================================================

------------------------------- MODULE Sinks -------------------------------
(***************************************************************************)
(* sinks/: the pipe() driver with one sink object, through any number of   *)
(* opens, pipes, failures, cancellations and closes.                       *)
(*                                                                         *)
(* Samples are numbered as the stream hands them to a pipe.  Of a sink the *)
(* model keeps its handle, the SchemaLock (never released), what it needs  *)
(* to write (an INSERT statement or a writer), and the rows it stored.     *)
(***************************************************************************)
EXTENDS Integers, Sequences

CONSTANTS
  Kinds,         \* the sinks to choose from, a subset of AllKinds
  BatchSize,     \* batch_size
  FlushInterval, \* flush_interval, in ticks
  MaxSamples,    \* bound: samples of all streams
  MaxBatch       \* bound: samples of one batch of a stream

AllKinds == {"memory", "csv", "jsonl", "sqlite", "parquet", "postgres"}

ASSUME SinksAssumption ==
  /\ Kinds \subseteq AllKinds
  /\ BatchSize \in Nat \ {0}
  /\ FlushInterval \in Nat \ {0}
  /\ MaxSamples \in Nat
  /\ MaxBatch \in Nat

VARIABLES
  kind,    \* which sink it is
  create,  \* create_table
  table,   \* whether the table is there before, for ~create
  opened,  \* the handle: connection, pool, file, pyarrow
  locked,  \* SchemaLock.is_locked
  ready,   \* _insert_sql or _writer is set
  stored,  \* numbers of the samples stored, in order
  pc,      \* the current pipe
  buffer,  \* its buffer
  emitted, \* its count of samples handed to the sink
  waited,  \* ticks since its last_flush, counted to FlushInterval + 1
  final,   \* its stream is exhausted
  first,   \* history: samples before its own
  given,   \* history: samples of all streams so far
  broken,  \* history: the preparation of the sink was interrupted or undone
  error    \* how it failed

sink == <<opened, locked, ready, stored, broken>>
pipe == <<pc, buffer, emitted, waited, final, first, given, error>>
choice == <<kind, create, table>>
vars == <<choice, sink, pipe>>

Table == kind \in {"sqlite", "postgres"}
HasSchema == kind \in {"sqlite", "postgres", "parquet"}
Errors == {"none", "write", "schema", "assertion", "cancelled"}

TypeOK ==
  /\ kind \in Kinds
  /\ create \in BOOLEAN /\ table \in BOOLEAN
  /\ opened \in BOOLEAN /\ locked \in BOOLEAN /\ ready \in BOOLEAN
  /\ stored \in Seq(1..MaxSamples)
  /\ pc \in {"idle", "reading", "writing", "creating", "returned", "failed"}
  /\ buffer \in Seq(1..MaxSamples)
  /\ emitted \in 0..(given - first)
  /\ waited \in 0..(FlushInterval + 1)
  /\ final \in BOOLEAN
  /\ first \in 0..given /\ given \in 0..MaxSamples
  /\ broken \in BOOLEAN
  /\ error \in Errors

Init ==
  /\ kind \in Kinds
  /\ create \in IF Table THEN BOOLEAN ELSE {TRUE}
  /\ table \in IF create THEN {FALSE} ELSE BOOLEAN
  /\ opened = FALSE /\ locked = FALSE /\ ready = FALSE
  /\ stored = <<>> /\ broken = FALSE
  /\ pc = "idle" /\ buffer = <<>> /\ emitted = 0 /\ waited = 0 /\ final = FALSE
  /\ first = 0 /\ given = 0 /\ error = "none"

Numbers(from, to) == [i \in 1..(to - from) |-> from + i]

Between == pc \in {"idle", "returned", "failed"}

-----------------------------------------------------------------------------
\* Opening and closing

\* With create_table=False the sink reads the table's columns and locks to
\* them.  That raises when there is no table, and the second time the same
\* sink is opened.
Introspects == Table /\ ~create
IntrospectionFails == Introspects /\ (~table \/ locked)

Open ==
  /\ Between /\ ~opened
  /\ ~IntrospectionFails
  /\ opened' = TRUE
  /\ locked' = (locked \/ Introspects)
  /\ ready' = (ready \/ Introspects)
  /\ stored' = IF kind = "csv" THEN <<>> ELSE stored
  /\ pc' = "idle"
  /\ UNCHANGED <<choice, broken, buffer, emitted, waited, final, first, given, error>>

\* SqliteSink closes its connection again; PostgresSink keeps the pool.
OpenFails ==
  /\ Between /\ ~opened
  /\ IntrospectionFails
  /\ opened' = (kind = "postgres")
  /\ broken' = TRUE
  /\ pc' = "idle"
  /\ UNCHANGED <<choice, locked, ready, stored, buffer, emitted, waited, final, first,
                 given, error>>

\* The file sinks drop their writer; no sink unlocks its schema.
Close ==
  /\ Between /\ opened
  /\ opened' = FALSE
  /\ ready' = (ready /\ Table)
  /\ broken' = (broken \/ (kind = "parquet" /\ locked))
  /\ UNCHANGED <<choice, locked, stored, pipe>>

-----------------------------------------------------------------------------
\* pipe

Pipe ==
  /\ Between /\ opened
  /\ pc' = "reading"
  /\ buffer' = <<>> /\ emitted' = 0 /\ waited' = 0 /\ final' = FALSE
  /\ first' = given /\ error' = "none"
  /\ UNCHANGED <<choice, sink, given>>

\* Time passes while the pipe awaits a batch, and while it awaits the sink:
\* last_flush is the time before the flush.
Tick ==
  /\ pc \in {"reading", "writing", "creating"}
  /\ waited <= FlushInterval
  /\ waited' = waited + 1
  /\ UNCHANGED <<choice, sink, pc, buffer, emitted, final, first, given, error>>

\* mutant: the interval is left out.
DueBySize(b) == Len(b) >= BatchSize

\* Whether a flush is due is asked when a batch comes, and only then.
Due(b) == Len(b) >= BatchSize \/ waited >= FlushInterval

\* mutant: the batch replaces the buffer.
BatchReplaces(n) ==
  LET new == Numbers(given, given + n)
  IN  /\ pc = "reading"
      /\ given + n <= MaxSamples
      /\ given' = given + n
      /\ buffer' = new
      /\ waited' = IF Due(new) THEN 0 ELSE waited
      /\ pc' = IF Due(new) /\ new # <<>> THEN "writing" ELSE "reading"
      /\ UNCHANGED <<choice, sink, emitted, final, first, error>>

Batch(n) ==
  LET extended == buffer \o Numbers(given, given + n)
  IN  /\ pc = "reading"
      /\ given + n <= MaxSamples
      /\ given' = given + n
      /\ buffer' = extended
      /\ waited' = IF Due(extended) THEN 0 ELSE waited
      /\ pc' = IF Due(extended) /\ extended # <<>> THEN "writing" ELSE "reading"
      /\ UNCHANGED <<choice, sink, emitted, final, first, error>>

StreamEnds ==
  /\ pc = "reading"
  /\ final' = TRUE
  /\ pc' = IF buffer = <<>> THEN "returned" ELSE "writing"
  /\ UNCHANGED <<choice, sink, buffer, emitted, waited, first, given, error>>

\* An exception leaves pipe with its buffer; nobody sees that again.
Fail(e) ==
  /\ pc' = "failed"
  /\ error' = e
  /\ broken' = (broken \/ pc = "creating")
  /\ UNCHANGED <<choice, opened, buffer, emitted, waited, final, first, given>>

-----------------------------------------------------------------------------
\* write_many

MustLock == HasSchema /\ ~locked /\ (kind = "sqlite" => create)

\* mutant: the schema is locked and nothing created.
LockSchemaOnly ==
  /\ pc = "writing" /\ MustLock
  /\ kind = "postgres" => create
  /\ locked' = TRUE
  /\ ready' = FALSE
  /\ pc' = "writing"
  /\ UNCHANGED <<choice, opened, stored, broken, buffer, emitted, waited, final, first,
                 given, error>>

\* The schema is locked before the table is created or the writer opened.
LockSchema ==
  /\ pc = "writing" /\ MustLock
  /\ kind = "postgres" => create
  /\ locked' = TRUE
  /\ pc' = "creating"
  /\ UNCHANGED <<choice, opened, ready, stored, broken, buffer, emitted, waited, final, first,
                 given, error>>

Created ==
  /\ pc = "creating"
  /\ ready' = TRUE
  /\ pc' = "writing"
  /\ UNCHANGED <<choice, opened, locked, stored, broken, buffer, emitted, waited, final, first,
                 given, error>>

CreateFails ==
  /\ pc = "creating"
  /\ Fail("write")
  /\ UNCHANGED <<locked, ready, stored>>

\* The assertions on _insert_sql, _writer and create_table.
AssertFails ==
  /\ pc = "writing"
  /\ IF MustLock THEN ~create ELSE HasSchema /\ ~ready
  /\ Fail("assertion")
  /\ UNCHANGED <<locked, ready, stored>>

Writable == pc = "writing" /\ ~MustLock /\ (HasSchema => ready)

\* The CSV header goes with the first rows.
Write ==
  /\ Writable
  /\ stored' = stored \o buffer
  /\ ready' = (ready \/ kind = "csv")
  /\ emitted' = emitted + Len(buffer)
  /\ buffer' = <<>>
  /\ pc' = IF final THEN "returned" ELSE "reading"
  /\ UNCHANGED <<choice, opened, locked, broken, waited, final, first, given, error>>

\* What a write that failed or was cancelled may have stored.  SQLite rolls the
\* transaction back; the commit of Postgres may have been done; a file keeps
\* what reached it.
RolledBack == {<<>>}
Committed == {<<>>, buffer}
Partial == {SubSeq(buffer, 1, n) : n \in 0..Len(buffer)}

\* mutant: no transaction around the INSERTs.
LeftoversUnrolled ==
  IF kind = "postgres" THEN Committed ELSE Partial

Leftovers ==
  CASE kind = "sqlite" -> RolledBack
    [] kind = "postgres" -> Committed
    [] OTHER -> Partial

WriteFails ==
  /\ Writable /\ kind # "memory"
  /\ \E part \in Leftovers : stored' = stored \o part
  /\ ready' = (ready \/ kind = "csv")
  /\ Fail("write")
  /\ UNCHANGED locked

\* The stream raises, or the pipe is cancelled at an await: it awaits its
\* stream and the two databases, the files never.  A thread of
\* SqliteSink that has started is not cancelled.
Cancel ==
  /\ \/ pc = "reading" /\ UNCHANGED stored
     \/ pc = "creating" /\ Table /\ UNCHANGED stored
     \/ /\ Writable /\ Table
        /\ \E part \in Leftovers : stored' = stored \o part
  /\ Fail("cancelled")
  /\ UNCHANGED <<locked, ready>>

Batches == \E n \in 0..MaxBatch : Batch(n)

Next ==
  \/ Open \/ OpenFails \/ Close
  \/ Pipe \/ Tick \/ StreamEnds \/ Cancel
  \/ Batches
  \/ LockSchema \/ Created \/ CreateFails
  \/ Write \/ WriteFails \/ AssertFails

Spec == Init /\ [][Next]_vars

\* A stream that goes on hands over batches, empty ones when every device of a
\* manager failed its poll; time passes, and a sink writes or fails.
Writes == LockSchema \/ Created \/ CreateFails \/ Write \/ WriteFails \/ AssertFails
FairSpec == Spec /\ WF_vars(Tick) /\ WF_vars(Batches) /\ WF_vars(Writes)

-----------------------------------------------------------------------------
\* Properties

Running == pc \in {"reading", "writing", "creating", "returned"}

Last(s, n) == SubSeq(s, Len(s) - n + 1, Len(s))

\* While a pipe runs, and when it has returned, every sample of its stream is
\* counted and in the sink, at its end and in order, or still in the buffer:
\* nothing is lost between two flushes, and samples_emitted is the truth.
\* Returning means that all is stored, whichever of size, time or the end of
\* the stream made the last flush.
PipeAccounted ==
  Running =>
    /\ emitted <= Len(stored)
    /\ Last(stored, emitted) \o buffer = Numbers(first, given)
    /\ pc = "returned" => buffer = <<>>

\* However pipes fail and are tried again on the same sink, it never holds two
\* samples in the wrong order or one twice; and of a flush that failed SQLite
\* stores nothing, whole or in part, so that the next pipe starts clean.
StoredInOrder == \A i \in 1..(Len(stored) - 1) : stored[i] < stored[i + 1]
SqliteAllOrNothing ==
  (kind = "sqlite" /\ pc = "failed") =>
    \A i \in 1..Len(stored), j \in 1..Len(buffer) : stored[i] # buffer[j]
StoredOnce == StoredInOrder /\ SqliteAllOrNothing

\* The interval is asked about only when a batch comes (base.py:172), so an idle
\* stream keeps samples in the buffer for as long as it is idle.  As long as
\* batches come, be they empty, no sample stays there: it is stored, or the
\* pipe fails.
FlushedWhileFed ==
  \A n \in 1..MaxSamples :
    (pc = "reading" /\ \E i \in DOMAIN buffer : buffer[i] = n) ~>
      (pc = "failed" \/ \E i \in DOMAIN stored : stored[i] = n)

\* The assertions of the sinks (sqlite.py:179, postgres.py:275, parquet.py:126)
\* fail only on a sink that is past use: the creation of its table or writer
\* failed or was cancelled with its schema locked, its open failed and was
\* ignored, or it is a Parquet sink that was closed and opened again.  On any
\* other sink they hold, whatever failed before.
AssertionsExplained == error = "assertion" => broken
=============================================================================

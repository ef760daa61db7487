----------------------------- MODULE Continuous -----------------------------
(***************************************************************************)
(* protocol/continuous/client.py: the background receive loop that parses  *)
(* the frames an analyser broadcasts, caches the latest and fans them out, *)
(* with the tasks that read the cache and the streams that subscribe, in   *)
(* the context of the Analyzer that hosts the loop (devices/session.py,    *)
(* devices/analyzer.py).                                                   *)
(*                                                                         *)
(* Frames are numbered as they arrive; what becomes of a line is for the   *)
(* parser (Frames) to say.  Handling one has no await, so it is one step.  *)
(***************************************************************************)
EXTENDS Frames

CONSTANTS
  Readers,  \* tasks that call read_frame
  Streams,  \* StreamingSessions
  MaxFrames \* bound: frames that arrive

ASSUME ContinuousAssumption == MaxFrames \in Nat

VARIABLES
  context,     \* the async with of the Analyzer
  loop,        \* the background task
  arrived,     \* frames handled
  latest,      \* _latest: number of a frame, 0 for None
  fresh,       \* _fresh: number of the current event; the lower ones are set
  reader,      \* a read_frame call of each reader
  subscribers, \* _subscribers, whose send streams are open
  session,     \* each StreamingSession
  buffer,      \* what its memory stream holds: numbers of frames
  received,    \* history: what its consumer has got
  joined,      \* history: arrived, when it subscribed
  left,        \* history: arrived, when its send stream was closed
  misheard     \* history: a frame was refused, or none was taken for one

client == <<latest, fresh, subscribers>>
streams == <<session, buffer, received, joined, left>>
vars == <<context, loop, arrived, client, reader, streams, misheard>>

Contexts == {"new", "identifying", "failed", "open", "closing", "closed"}
Sessions == {"none", "open", "ended", "closed"}
Calls == [pc : {"idle", "waiting"}, event : Nat, cached : Nat]

TypeOK ==
  /\ context \in Contexts
  /\ loop \in {"off", "listening", "stopped", "cancelled"}
  /\ arrived \in 0..MaxFrames
  /\ latest \in 0..arrived
  /\ fresh \in 1..(arrived + 1)
  /\ reader \in [Readers -> Calls]
  /\ subscribers \in SUBSET Streams
  /\ session \in [Streams -> Sessions]
  /\ buffer \in [Streams -> Seq(1..MaxFrames)]
  /\ received \in [Streams -> Seq(1..MaxFrames)]
  /\ joined \in [Streams -> 0..MaxFrames]
  /\ left \in [Streams -> 0..MaxFrames]
  /\ misheard \in BOOLEAN

Init ==
  /\ context = "new"
  /\ loop = "off"
  /\ arrived = 0
  /\ latest = 0
  /\ fresh = 1
  /\ reader = [r \in Readers |-> [pc |-> "idle", event |-> 0, cached |-> 0]]
  /\ subscribers = {}
  /\ session = [s \in Streams |-> "none"]
  /\ buffer = [s \in Streams |-> <<>>]
  /\ received = [s \in Streams |-> <<>>]
  /\ joined = [s \in Streams |-> 0]
  /\ left = [s \in Streams |-> 0]
  /\ misheard = FALSE

-----------------------------------------------------------------------------
\* The receive loop

\* Until the cancellation reaches the loop's await it handles what it has read.
Listening == loop = "listening"

\* mutant: a memory stream of one sample, whose WouldBlock is passed over.
BroadcastWhileRoom ==
  buffer' = [s \in Streams |->
    IF s \in subscribers /\ Len(buffer[s]) < 1 THEN Append(buffer[s], arrived + 1)
    ELSE buffer[s]]

\* Every open stream gets the sample of the frame, an error sample too.
Broadcast ==
  buffer' = [s \in Streams |->
    IF s \in subscribers THEN Append(buffer[s], arrived + 1) ELSE buffer[s]]

HandleGood(l) ==
  /\ l.frame /\ misheard' = (misheard \/ ~l.right)
  /\ Listening
  /\ arrived < MaxFrames
  /\ arrived' = arrived + 1
  /\ latest' = arrived + 1
  /\ fresh' = fresh + 1
  /\ Broadcast
  /\ UNCHANGED <<context, loop, reader, subscribers, session, received, joined, left>>

\* mutant: a bad frame wakes the waiters too.
HandleBadSignals(l) ==
  /\ ~l.frame /\ misheard' = (misheard \/ l.intact)
  /\ Listening
  /\ arrived < MaxFrames
  /\ arrived' = arrived + 1
  /\ fresh' = fresh + 1
  /\ Broadcast
  /\ UNCHANGED <<context, loop, latest, reader, subscribers, session, received, joined,
                 left>>

\* parse_frame raised: the cache and the event stay.
HandleBad(l) ==
  /\ ~l.frame /\ misheard' = (misheard \/ l.intact)
  /\ Listening
  /\ arrived < MaxFrames
  /\ arrived' = arrived + 1
  /\ Broadcast
  /\ UNCHANGED <<context, loop, latest, fresh, reader, subscribers, session, received,
                 joined, left>>

\* The line is lost: the loop returns and tells nobody.
LineLost ==
  /\ Listening
  /\ loop' = "stopped"
  /\ UNCHANGED <<context, arrived, client, reader, streams, misheard>>

-----------------------------------------------------------------------------
\* read_frame

\* The cached frame is returned at once, or the call waits on the event.
Ask(r, wait_fresh) ==
  /\ reader[r].pc = "idle"
  /\ wait_fresh \/ latest = 0
  /\ reader' = [reader EXCEPT ![r] = [pc |-> "waiting", event |-> fresh, cached |-> latest]]
  /\ UNCHANGED <<context, loop, arrived, client, streams, misheard>>

EventSet(r) == reader[r].event < fresh

Answer(r) ==
  /\ reader[r].pc = "waiting"
  /\ EventSet(r)
  /\ reader' = [reader EXCEPT ![r].pc = "idle"]
  /\ UNCHANGED <<context, loop, arrived, client, streams, misheard>>

\* The deadline cancels a wait only while its event is not set.
TimeOut(r) ==
  /\ reader[r].pc = "waiting"
  /\ ~EventSet(r)
  /\ reader' = [reader EXCEPT ![r].pc = "idle"]
  /\ UNCHANGED <<context, loop, arrived, client, streams, misheard>>

-----------------------------------------------------------------------------
\* Streams

\* stream(): the subscription starts with the call, not with the async with.
Subscribe(s) ==
  /\ session[s] = "none"
  /\ session' = [session EXCEPT ![s] = "open"]
  /\ subscribers' = subscribers \cup {s}
  /\ joined' = [joined EXCEPT ![s] = arrived]
  /\ UNCHANGED <<context, loop, arrived, latest, fresh, reader, buffer, received, left, misheard>>

Receive(s) ==
  /\ session[s] = "open"
  /\ buffer[s] # <<>>
  /\ received' = [received EXCEPT ![s] = Append(@, Head(buffer[s]))]
  /\ buffer' = [buffer EXCEPT ![s] = Tail(@)]
  /\ UNCHANGED <<context, loop, arrived, client, reader, session, joined, left, misheard>>

\* __anext__ meets the closed send stream.
EndOfStream(s) ==
  /\ session[s] = "open"
  /\ buffer[s] = <<>>
  /\ s \notin subscribers
  /\ session' = [session EXCEPT ![s] = "ended"]
  /\ UNCHANGED <<context, loop, arrived, client, reader, buffer, received, joined, left, misheard>>

\* StreamingSession.aclose: on_close unsubscribes, then the receiver closes.
CloseStream(s) ==
  /\ session[s] \in {"open", "ended"}
  /\ session' = [session EXCEPT ![s] = "closed"]
  /\ subscribers' = subscribers \ {s}
  /\ left' = IF s \in subscribers THEN [left EXCEPT ![s] = arrived] ELSE left
  /\ UNCHANGED <<context, loop, arrived, latest, fresh, reader, buffer, received, joined, misheard>>

-----------------------------------------------------------------------------
\* The Analyzer's context

\* __aenter__: the session starts the loop; identify then waits for a frame.
Enter(identify_on_enter) ==
  /\ context = "new"
  /\ loop' = "listening"
  /\ context' = IF identify_on_enter THEN "identifying" ELSE "open"
  /\ UNCHANGED <<arrived, client, reader, streams, misheard>>

Identified ==
  /\ context = "identifying"
  /\ latest # 0
  /\ context' = "open"
  /\ UNCHANGED <<loop, arrived, client, reader, streams, misheard>>

\* identify timed out, and __aenter__ raises: no __aexit__ will run.
IdentifyFails ==
  /\ context = "identifying"
  /\ latest = 0
  /\ context' = "failed"
  /\ UNCHANGED <<loop, arrived, client, reader, streams, misheard>>

\* __aexit__ cancels the loop, which dies at its await, and waits for it.
Exit ==
  /\ context = "open"
  /\ context' = "closing"
  /\ UNCHANGED <<loop, arrived, client, reader, streams, misheard>>

LoopCancelled ==
  /\ context = "closing"
  /\ loop = "listening"
  /\ loop' = "cancelled"
  /\ UNCHANGED <<context, arrived, client, reader, streams, misheard>>

\* mutant: only the transport is closed.
CloseClientSubscribed ==
  /\ context = "closing"
  /\ loop # "listening"
  /\ context' = "closed"
  /\ UNCHANGED <<loop, arrived, client, reader, streams, misheard>>

\* ContinuousClient.aclose.
CloseClient ==
  /\ context = "closing"
  /\ loop # "listening"
  /\ context' = "closed"
  /\ subscribers' = {}
  /\ left' = [s \in Streams |-> IF s \in subscribers THEN arrived ELSE left[s]]
  /\ UNCHANGED <<loop, arrived, latest, fresh, reader, session, buffer, received, joined, misheard>>

Loop == (\E l \in Lines : HandleGood(l) \/ HandleBad(l)) \/ LineLost

Reading(r) == (\E wait_fresh \in BOOLEAN : Ask(r, wait_fresh)) \/ Answer(r) \/ TimeOut(r)

Consumer(s) == Receive(s) \/ EndOfStream(s)

Closing == LoopCancelled \/ CloseClient

Next ==
  \/ Loop
  \/ \E r \in Readers : Reading(r)
  \/ \E s \in Streams : Subscribe(s) \/ Consumer(s) \/ CloseStream(s)
  \/ \E identify_on_enter \in BOOLEAN : Enter(identify_on_enter)
  \/ Identified \/ IdentifyFails
  \/ Exit
  \/ Closing

Spec == Init /\ [][Next]_vars

\* The event loop runs the exit and the consumers that iterate; the analyser,
\* the line and the callers owe nothing.
FairSpec == Spec /\ WF_vars(Closing) /\ \A s \in Streams : WF_vars(Consumer(s))

-----------------------------------------------------------------------------
\* Properties

\* "Corruption shows up as a checksum mismatch before we trust any field"
\* (parser.py:75): a line that lost, gained or garbled a byte on its way, or
\* that began before we listened, leaves no frame but what the analyser said;
\* a line as it was sent is always taken.
HeardRight == ~misheard

\* A wait that is woken finds a frame, and a newer one than was cached when
\* the call began: the check after the wait (continuous/client.py:123) never
\* fires, and wait_fresh never returns the frame it was told to skip.
WakeFindsNewFrame ==
  \A r \in Readers :
    (reader[r].pc = "waiting" /\ EventSet(r)) => latest > reader[r].cached

\* A stream gets every frame between its subscription and its closing, the bad
\* ones as error samples, in order, however far its consumer is behind and
\* whatever the other streams do.  A session that was closed or has ended is no
\* subscriber: its unbounded buffer would grow with nobody to read it.
StreamsMissNothing ==
  /\ \A s \in Streams :
       LET until == IF s \in subscribers THEN arrived ELSE left[s]
       IN  session[s] # "none" =>
             received[s] \o buffer[s] = [i \in 1..(until - joined[s]) |-> joined[s] + i]
  /\ \A s \in subscribers : session[s] = "open"

\* Leaving the context ends every stream that was open.
ExitEndsStreams ==
  \A s \in Streams : (context = "closing" /\ session[s] = "open") ~> session[s] # "open"
=============================================================================

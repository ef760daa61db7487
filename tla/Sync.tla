-------------------------------- MODULE Sync ---------------------------------
(***************************************************************************)
(* sync/: the blocking facades.  A SyncPortal runs an event loop in a      *)
(* thread of its own and marshals calls onto it; SyncAnalyzer, SyncManager *)
(* and SyncSink enter and leave their asynchronous twin through it, and    *)
(* record_to_sink runs a whole recording in one call.  A facade owns the   *)
(* loop it starts, or shares one its caller starts and stops.              *)
(*                                                                         *)
(* Each facade is used by a thread that enters it and leaves it, and by a  *)
(* second one that polls or iterates, also while the first is leaving it.  *)
(* A thread may be interrupted (KeyboardInterrupt) where it waits for the  *)
(* loop, which then goes on with the call.  The portal of anyio is         *)
(* external: a loop that is being stopped takes no more calls and waits    *)
(* for those it runs, or cancels them when an exception leaves its with    *)
(* block.                                                                  *)
(***************************************************************************)
EXTENDS FiniteSets, Naturals

CONSTANTS
  Analyzers, Managers, Sinks, Recordings, \* the facades, by kind
  Shared,                                 \* the portal the caller owns
  MaxEntered                              \* bound: facades that are entered

Facades == Analyzers \cup Managers \cup Sinks \cup Recordings
Portals == Facades \cup {Shared} \* a facade's private portal has its name

ASSUME SyncAssumption ==
  /\ Analyzers \cap (Managers \cup Sinks \cup Recordings) = {}
  /\ Managers \cap (Sinks \cup Recordings) = {}
  /\ Sinks \cap Recordings = {}
  /\ Shared \notin Facades
  /\ MaxEntered \in Nat

VARIABLES
  host,     \* each facade's portal
  loop,     \* the event loop of each portal
  phase,    \* what the user of each facade is doing
  second,   \* the call of its second thread
  resource, \* the analyser's context, the manager's ports, the sink's store
  orphan    \* the call whose thread was interrupted, and which the loop goes on with

syncVars == <<host, loop, phase, second, resource, orphan>>

Owns(f) == host[f] = f
Home(f) == loop[host[f]]

SyncInit ==
  /\ host \in {h \in [Facades -> Portals] : \A f \in Facades : h[f] \in {f, Shared}}
  /\ loop = [p \in Portals |-> "off"]
  /\ phase = [f \in Facades |-> "new"]
  /\ second = [f \in Facades |-> "none"]
  /\ resource = [f \in Facades |-> "closed"]
  /\ orphan = [f \in Facades |-> "none"]

Go(f, pc) == phase' = [phase EXCEPT ![f] = pc]

\* __exit__ of the private portal; exc when an exception leaves the with block.
\* The portal forgets its loop first.  An interrupt of the join that follows
\* changes nothing here: the loop, a daemon, goes on stopping.
StopOwn(f, exc, shared) ==
  /\ Go(f, IF Owns(f) THEN "stopping" ELSE shared)
  /\ loop' = IF Owns(f) THEN [loop EXCEPT ![f] = IF exc THEN "cancelling" ELSE "draining"]
             ELSE loop

-----------------------------------------------------------------------------
\* The shared portal

StartShared ==
  /\ loop[Shared] = "off"
  /\ loop' = [loop EXCEPT ![Shared] = "running"]
  /\ UNCHANGED <<host, phase, second, resource, orphan>>

StopShared(exc) ==
  /\ loop[Shared] = "running"
  /\ loop' = [loop EXCEPT ![Shared] = IF exc THEN "cancelling" ELSE "draining"]
  /\ UNCHANGED <<host, phase, second, resource, orphan>>

Calls == {"opening", "entering", "running", "exiting"}
InCall(f) == phase[f] \in Calls \/ orphan[f] # "none"

\* The task of wrap_async_context_manager, in which the analyser's context was
\* entered and will be left.
InContext(f) == f \in Analyzers /\ resource[f] \in {"open", "closing"}

Runs(p) == {f \in Facades : host[f] = p /\ (InCall(f) \/ InContext(f) \/ second[f] # "none")}

LoopStops(p) ==
  /\ loop[p] \in {"draining", "cancelling"}
  /\ Runs(p) = {}
  /\ loop' = [loop EXCEPT ![p] = "off"]
  /\ phase' = IF p \in Facades THEN [phase EXCEPT ![p] = "done"] ELSE phase
  /\ UNCHANGED <<host, second, resource, orphan>>

-----------------------------------------------------------------------------
\* Entering

CanEnter(f) ==
  /\ phase[f] = "new"
  /\ Cardinality({g \in Facades : phase[g] # "new"}) < MaxEntered

\* SyncAnalyzer.open, SyncSink.__enter__ and record_to_sink call at once;
\* SyncManager.__enter__ does not.
Enter(f) ==
  /\ CanEnter(f)
  /\ IF Owns(f)
     THEN loop' = [loop EXCEPT ![f] = "running"]
     ELSE (f \in Managers \/ Home(f) = "running") /\ UNCHANGED loop
  /\ Go(f, IF f \in Managers THEN "open" ELSE IF f \in Recordings THEN "running" ELSE "opening")
  /\ UNCHANGED <<host, second, resource, orphan>>

\* The thread is interrupted while its loop starts: start_blocking_portal joins
\* a loop that nobody stops.
StartInterrupted(f) ==
  /\ CanEnter(f) /\ Owns(f)
  /\ loop' = [loop EXCEPT ![f] = "running"]
  /\ Go(f, "failed")
  /\ UNCHANGED <<host, second, resource, orphan>>

\* open_device, or the sink's open.
OpenReturns(f) ==
  /\ phase[f] = "opening" /\ Home(f) # "cancelling"
  /\ IF f \in Analyzers
     THEN Go(f, "entering") /\ UNCHANGED resource
     ELSE Go(f, "open") /\ resource' = [resource EXCEPT ![f] = "open"]
  /\ UNCHANGED <<host, loop, second, orphan>>

\* What an open that raises, or whose result nobody takes, leaves of the port
\* or the store: one that stays open is lost.
OpenLeaves(step) == IF step = "opening" THEN {"closed", "lost"} ELSE {"lost"}

\* Mutant of EnterRaises: open has no except clause.
EnterRaisesUnhandled(f) ==
  /\ f \in Analyzers /\ phase[f] \in {"opening", "entering"}
  /\ resource' = [resource EXCEPT ![f] = "lost"]
  /\ Go(f, "done")
  /\ UNCHANGED <<host, loop, second, orphan>>

\* open_device or __aenter__ raises, or is cancelled, or the portal was left
\* in between: the private loop is stopped, and there is no SyncAnalyzer.
EnterRaises(f) ==
  /\ f \in Analyzers /\ phase[f] \in {"opening", "entering"}
  /\ \E left \in OpenLeaves(phase[f]) : resource' = [resource EXCEPT ![f] = left]
  /\ StopOwn(f, FALSE, "failed")
  /\ UNCHANGED <<host, second, orphan>>

Entered(f) ==
  /\ phase[f] = "entering" /\ Home(f) # "cancelling"
  /\ resource' = [resource EXCEPT ![f] = "open"]
  /\ Go(f, "open")
  /\ UNCHANGED <<host, loop, second, orphan>>

\* SyncSink.__enter__ has no except clause: its loop runs on.
SinkOpenRaises(f) ==
  /\ f \in Sinks /\ phase[f] = "opening"
  /\ Go(f, "failed")
  /\ UNCHANGED <<host, loop, second, resource, orphan>>

\* manager.add opens a port.
ManagerAdds(f) ==
  /\ f \in Managers /\ phase[f] = "open" /\ Home(f) = "running"
  /\ resource[f] = "closed"
  /\ resource' = [resource EXCEPT ![f] = "open"]
  /\ UNCHANGED <<host, loop, phase, second, orphan>>

-----------------------------------------------------------------------------
\* Calls

\* There is a SyncAnalyzer to call once open returned, also while it is being
\* left and after; the object of a manager or a sink is there from the start.
HasObject(f) ==
  \/ f \in Managers \cup Sinks /\ phase[f] \notin {"new", "failed"}
  \/ f \in Analyzers /\ phase[f] \in {"open", "exiting", "done"}

\* A read, the next sample of a stream that was opened while the analyser was
\* (iterating), or that of a stream opened later (stranded): ContinuousClient
\* takes subscribers also once its aclose has ended the others.
Call(f, op) ==
  /\ HasObject(f) /\ Home(f) = "running" /\ second[f] = "none"
  /\ op # "polling" => f \in Analyzers
  /\ op = "stranded" => resource[f] # "open"
  /\ second' = [second EXCEPT ![f] = op]
  /\ UNCHANGED <<host, loop, phase, resource, orphan>>

\* Mutant of StreamEnded: only a sample ends __next__.
StreamNotEnded(f) == FALSE

\* ContinuousClient.aclose closed the subscriptions: StopIteration.
StreamEnded(f) == resource[f] \in {"closing", "closed", "lost"}

\* A read has a deadline; __next__ has none.
CallReturns(f) ==
  /\ second[f] # "none"
  /\ \/ second[f] = "polling" \/ Home(f) = "cancelling"
     \/ second[f] = "iterating" /\ StreamEnded(f)
  /\ second' = [second EXCEPT ![f] = "none"]
  /\ UNCHANGED <<host, loop, phase, resource, orphan>>

\* Samples come while the receive loop runs.
SampleComes(f) ==
  /\ second[f] = "iterating" /\ resource[f] = "open"
  /\ second' = [second EXCEPT ![f] = "none"]
  /\ UNCHANGED <<host, loop, phase, resource, orphan>>

\* SyncStreamingSession.__exit__ unsubscribes, which ends __next__.
SessionLeft(f) ==
  /\ second[f] \in {"iterating", "stranded"} /\ Home(f) = "running"
  /\ second' = [second EXCEPT ![f] = "none"]
  /\ UNCHANGED <<host, loop, phase, resource, orphan>>

\* The receive loop raises something else than a lost connection, which
\* cancels the task its context is in: aclose raises before it reaches the
\* client, whose subscriptions and port nobody closes any more.
LoopCrashes(f) ==
  /\ f \in Analyzers /\ resource[f] = "open"
  /\ resource' = [resource EXCEPT ![f] = "crashed"]
  /\ UNCHANGED <<host, loop, phase, second, orphan>>

\* The call that is a recording: all its contexts are left within it.
RecordingEnds(f) ==
  /\ phase[f] = "running"
  /\ StopOwn(f, FALSE, "done")
  /\ UNCHANGED <<host, second, resource, orphan>>

-----------------------------------------------------------------------------
\* Leaving

\* An analyser's context belongs to the loop it was entered on, which a shared
\* portal may have left since, and even started another.
CanExit(f) ==
  /\ phase[f] = "open" /\ Home(f) = "running"
  /\ f \in Analyzers => resource[f] \in {"open", "crashed"}

\* Mutant of Exit: the loop is stopped, the resource is left to it.
ExitStopsLoop(f) ==
  /\ CanExit(f)
  /\ \E exc \in BOOLEAN : StopOwn(f, exc, "done")
  /\ UNCHANGED <<host, second, resource, orphan>>

\* __exit__ closes through the portal.
Exit(f) ==
  /\ CanExit(f)
  /\ Go(f, "exiting")
  /\ UNCHANGED <<host, loop, second, resource, orphan>>

\* "not running", from the first line of __exit__.
ExitRefused(f) ==
  /\ phase[f] = "open" /\ ~CanExit(f)
  /\ Go(f, "done")
  /\ UNCHANGED <<host, loop, second, resource, orphan>>

Leaving(f) == phase[f] = "exiting" \/ orphan[f] = "exiting"

\* Session.aclose has joined the receive loop, ContinuousClient.aclose has ended
\* the subscriptions, and the port is about to be closed.
StreamsClosed(f) ==
  /\ f \in Analyzers /\ Leaving(f) /\ resource[f] = "open"
  /\ resource' = [resource EXCEPT ![f] = "closing"]
  /\ UNCHANGED <<host, loop, phase, second, orphan>>

\* aclose, or close, returned or raised.
CloseEnds(f) ==
  /\ f \in Analyzers /\ resource[f] = "open" => Home(f) = "cancelling"
  /\ \E left \in IF resource[f] \in {"closed", "crashed"} THEN {resource[f]} ELSE {"closed", "lost"} :
       resource' = [resource EXCEPT ![f] = left]

\* The finally clause stops the loop.
Exited(f, exc) ==
  /\ phase[f] = "exiting"
  /\ CloseEnds(f)
  /\ StopOwn(f, exc, "done")
  /\ UNCHANGED <<host, second, orphan>>

\* The shared loop cancels the task that holds an analyser's context, and the
\* context is left there.
ContextCancelled(f) ==
  /\ InContext(f) /\ ~Leaving(f) /\ Home(f) = "cancelling"
  /\ \E left \in {"closed", "lost"} : resource' = [resource EXCEPT ![f] = left]
  /\ UNCHANGED <<host, loop, phase, second, orphan>>

-----------------------------------------------------------------------------
\* Interrupts

\* KeyboardInterrupt in the thread that waits for its call.  Each facade does
\* what it does of any exception there; none cancels the call.
Interrupted(f) ==
  /\ \/ f \in Analyzers /\ phase[f] \in {"opening", "entering"} /\ StopOwn(f, FALSE, "failed")
     \/ f \in Sinks /\ phase[f] = "opening" /\ Go(f, "failed") /\ UNCHANGED loop
     \/ phase[f] = "running" /\ StopOwn(f, FALSE, "done")
     \/ phase[f] = "exiting" /\ \E exc \in BOOLEAN : StopOwn(f, exc, "done")
  /\ orphan' = [orphan EXCEPT ![f] = phase[f]]
  /\ UNCHANGED <<host, second, resource>>

\* The loop is done with a call nobody waits for.  The task of a context that
\* was still entered waits for an exit that nobody asks for.
OrphanEnds(f) ==
  /\ orphan' = [orphan EXCEPT ![f] = "none"]
  /\ \/ /\ orphan[f] \in {"opening", "entering"}
        /\ \E left \in OpenLeaves(orphan[f]) : resource' = [resource EXCEPT ![f] = left]
     \/ /\ orphan[f] = "entering" /\ Home(f) # "cancelling"
        /\ resource' = [resource EXCEPT ![f] = "open"]
     \/ orphan[f] = "running" /\ UNCHANGED resource
     \/ orphan[f] = "exiting" /\ CloseEnds(f)
  /\ UNCHANGED <<host, loop, phase, second>>

-----------------------------------------------------------------------------

\* The threads, and the port.
User(f) ==
  \/ Enter(f)
  \/ StartInterrupted(f)
  \/ ManagerAdds(f)
  \/ \E op \in {"polling", "iterating", "stranded"} : Call(f, op)
  \/ SampleComes(f)
  \/ SessionLeft(f)
  \/ LoopCrashes(f)
  \/ Exit(f)
  \/ ExitRefused(f)
  \/ Interrupted(f)

\* What goes on once the loop is done with a call.
Work(f) ==
  \/ OpenReturns(f)
  \/ EnterRaises(f)
  \/ Entered(f)
  \/ SinkOpenRaises(f)
  \/ RecordingEnds(f)
  \/ StreamsClosed(f)
  \/ \E exc \in BOOLEAN : Exited(f, exc)
  \/ ContextCancelled(f)
  \/ OrphanEnds(f)

SyncNext ==
  \/ StartShared
  \/ \E exc \in BOOLEAN : StopShared(exc)
  \/ \E f \in Facades : User(f) \/ Work(f) \/ CallReturns(f)
  \/ \E p \in Portals : LoopStops(p)

SyncSpec == SyncInit /\ [][SyncNext]_syncVars

\* A loop runs its tasks, and each ends: a call on a device or a file has a
\* deadline, a recording has a duration, only __next__ has neither.
SyncFairSpec ==
  /\ SyncSpec
  /\ \A f \in Facades : WF_syncVars(Work(f)) /\ WF_syncVars(CallReturns(f))
  /\ \A p \in Portals : WF_syncVars(LoopStops(p))

-----------------------------------------------------------------------------
\* Properties

\* "a private background loop is started and torn down with the analyzer"
\* (sync/analyzer.py:101-102), and with every other facade, whatever raises
\* on the way in or out: a private loop runs just while its facade is in use.
\* The exceptions ("failed") are a SyncSink whose open raised, or was
\* interrupted, in __enter__, and a thread interrupted while its loop started.
LoopsAccounted ==
  \A f \in Facades :
    loop[f] # "off" <=> /\ Owns(f)
                        /\ phase[f] \notin {"new", "done"}

\* No loop stops under what was opened on it.  What raised on its way in or out
\* may be lost; only managers and sinks can outlive a shared loop that is
\* stopped before them.
ClosedBeforeLoop ==
  \A f \in Facades :
    (resource[f] = "open" /\ Home(f) = "off") => (~Owns(f) /\ f \notin Analyzers)

\* Nothing ends the __next__ of a stream opened during or after the aclose that
\* would have ended it (protocol/continuous/client.py:177-180), nor of one whose
\* receive loop crashed, so that aclose never came to it.
Endless(f) ==
  \/ second[f] = "stranded"
  \/ second[f] = "iterating" /\ resource[f] = "crashed"

\* Nobody leaves the context of an analyser whose open was interrupted while it
\* was being entered (sync/analyzer.py:121-124), nor that of one whose shared
\* portal was left before it.
NeverLeft(f) == InContext(f) /\ ~Leaving(f)

\* Leaving a portal ends, whoever still polls or iterates on it and whatever was
\* interrupted, raised or was opened late: without an exception leaving its with
\* block it waits for ever just for an endless __next__ or a context that nobody
\* leaves; with one it ends whatever runs on it.
Stuck(p) ==
  /\ loop[p] = "draining"
  /\ \E f \in Facades : host[f] = p /\ (Endless(f) \/ NeverLeft(f))
StopsEnd ==
  \A p \in Portals : loop[p] \in {"draining", "cancelling"} ~> loop[p] = "off" \/ Stuck(p)
=============================================================================

------------------------------- MODULE Manager -------------------------------
(***************************************************************************)
(* manager.py: ServomexManager, the registry of analysers that share       *)
(* serial ports, and the polls that run over it.                           *)
(*                                                                         *)
(* add, remove and close run under the state lock; poll, poll_samples and  *)
(* execute_each do not take it.  A poll groups its devices by port and     *)
(* runs one task per group under that port's lock.  An analyser handed out *)
(* by add or get can also be used directly.  Code between two awaits is    *)
(* one step.                                                               *)
(*                                                                         *)
(* A poll visits the devices in the order the caller names them in, each   *)
(* of them once.  execute_each under ErrorPolicy.RAISE raises after its    *)
(* groups are joined and its mapping is complete: that counts as           *)
(* "returned".                                                             *)
(***************************************************************************)
EXTENDS Integers, Sequences, FiniteSets, FiniteSetsExt

Seqs == INSTANCE SequencesExt

CONSTANTS
  Tasks,      \* tasks that call add, remove and close
  Pollers,    \* tasks that call poll, poll_samples or execute_each
  Users,      \* tasks that use an analyser outside the manager
  Names,      \* device names
  Removable,  \* names that callers remove
  Paths,      \* port paths: the manager opens and owns the transport
  Transports, \* transports the caller made: bound, not owned
  Prebuilt,   \* analysers the caller made: tracked only
  Protocols,  \* the protocols callers ask for
  Continuous, \* the one the manager refuses
  None,       \* absence
  MaxAdds     \* bound: ports opened and analysers built in a run

Sources == Paths \cup Transports \cup Prebuilt
Keys == Paths \cup Transports \* canonical port keys: a path stands for its spellings

\* The keys a group of a poll can have: a device's port, or its name if it was
\* pre-built.
GroupKeys == Keys \cup {n \in Names : Prebuilt # {}}

\* A transport the manager opens has an identity of its own.
Handles == Paths \X Nat

\* _DeviceEntry and _PortEntry.
DeviceEntries ==
  [name : Names, source : Sources, transport : Sources \cup Handles,
   analyzer : Prebuilt \cup (Names \X Nat)]
PortEntries ==
  [transport : Transports \cup Handles, lock : Nat \ {0},
   protocol : Protocols \ {Continuous}, refs : SUBSET Names]

ASSUME ManagerAssumption ==
  /\ Names \cap Sources = {}
  /\ Removable \subseteq Names
  /\ Paths \cap Transports = {} /\ Keys \cap Prebuilt = {}
  /\ Sources \cap Handles = {}
  /\ Users \cap (Pollers \X GroupKeys) = {}
  /\ None \notin Names \cup Sources \cup Tasks
  /\ None \notin Handles \cup DeviceEntries \cup PortEntries
  /\ MaxAdds \in Nat

VARIABLES
  devices,    \* _devices, in insertion order
  ports,      \* _ports
  closed,     \* _closed
  opened,     \* transports the manager opened and has not let go of
  fresh,      \* identities given out to port entries and analysers
  state_lock, \* the task inside _state_lock
  task,       \* where each administrative call stands
  poller,     \* how each poll stands
  groups,     \* its port groups
  results,    \* its result mapping: the names that have a DeviceResult
  wanted,     \* the names it was called for
  direct      \* the device a call outside the manager is made on

registry == <<devices, ports, closed, opened, fresh>>
admin == <<state_lock, task>>
polls == <<poller, groups, results, wanted>>
vars == <<registry, admin, polls, direct>>

-----------------------------------------------------------------------------
\* The registry

Registered == {devices[i].name : i \in DOMAIN devices}
Device(n) == devices[CHOOSE i \in DOMAIN devices : devices[i].name = n]

\* Port key of a device; a pre-built analyser is its own group.
GroupKey(d) == IF d.source \in Prebuilt THEN d.name ELSE d.source

\* A lock of a port entry is its number; Unshared is a lock nobody else has.
Unshared == 0

Idle == [pc |-> "idle", op |-> None, name |-> None, source |-> None,
         protocol |-> None, handle |-> None]

Init ==
  /\ devices = <<>>
  /\ ports = [k \in Keys |-> None]
  /\ closed = FALSE
  /\ opened = {}
  /\ fresh = 0
  /\ state_lock = None
  /\ task = [t \in Tasks |-> Idle]
  /\ poller = [p \in Pollers |-> "idle"]
  /\ groups = [p \in Pollers |-> <<>>]
  /\ results = [p \in Pollers |-> {}]
  /\ wanted = [p \in Pollers |-> {}]
  /\ direct = [u \in Users |-> None]

-----------------------------------------------------------------------------
\* add, remove, close

\* A call, up to its async with self._state_lock.
Calls(t, call) ==
  /\ task[t] = Idle
  /\ task' = [task EXCEPT ![t] = [call EXCEPT !.pc = "waiting"]]
  /\ UNCHANGED <<registry, state_lock, polls, direct>>

Adding == {t \in Tasks : task[t].op = "add"}

Add(t, n, s, proto) ==
  /\ fresh + Cardinality(Adding) < MaxAdds
  /\ Calls(t, [Idle EXCEPT !.op = "add", !.name = n, !.source = s,
                           !.protocol = proto])

Remove(t, n) == Calls(t, [Idle EXCEPT !.op = "remove", !.name = n])

Close(t) == Calls(t, [Idle EXCEPT !.op = "close"])

\* Mutant of HasStateLock: add, remove and close do not exclude each other.
HasStateLockAnyway(t) == task[t].pc \in {"waiting", "locked"}

\* The lock is free for a call that waits; "locked" resumes inside it.  What
\* the call does up to its next await is one step with taking the lock.
HasStateLock(t) ==
  \/ task[t].pc = "waiting" /\ state_lock = None
  \/ task[t].pc = "locked"

Leave(t) ==
  /\ state_lock' = None
  /\ task' = [task EXCEPT ![t] = Idle]

Locked(t, op) == task[t].op = op /\ HasStateLock(t)

Clash(t) ==
  /\ task[t].source \in Keys
  /\ ports[task[t].source] # None
  /\ ports[task[t].source].protocol # task[t].protocol

AddRefused(t) ==
  \/ closed
  \/ task[t].name \in Registered
  \/ task[t].source \notin Prebuilt /\ (task[t].protocol = Continuous \/ Clash(t))

Refuse(t) ==
  /\ \/ Locked(t, "add") /\ AddRefused(t)
     \/ Locked(t, "remove") /\ (closed \/ task[t].name \notin Registered)
     \/ Locked(t, "close") /\ closed
  /\ Leave(t)
  /\ UNCHANGED <<registry, polls, direct>>

AddPrebuilt(t) ==
  /\ Locked(t, "add")
  /\ ~AddRefused(t)
  /\ task[t].source \in Prebuilt
  /\ devices' = Append(devices, [name |-> task[t].name, source |-> task[t].source,
                                 transport |-> task[t].source,
                                 analyzer |-> task[t].source])
  /\ Leave(t)
  /\ UNCHANGED <<ports, closed, opened, fresh, polls, direct>>

\* Mutant of Register: the port does not count the device.
RegisterUncounted(t, entry, id) ==
  /\ devices' = Append(devices, [name |-> task[t].name, source |-> task[t].source,
                                 transport |-> entry.transport,
                                 analyzer |-> <<task[t].name, id>>])
  /\ ports' = [ports EXCEPT ![task[t].source] = entry]

\* _build_analyzer on the entry of the port, after which the device is
\* registered; id is the analyser's identity.
Register(t, entry, id) ==
  /\ devices' = Append(devices, [name |-> task[t].name, source |-> task[t].source,
                                 transport |-> entry.transport,
                                 analyzer |-> <<task[t].name, id>>])
  /\ ports' = [ports EXCEPT ![task[t].source] =
                 [entry EXCEPT !.refs = @ \cup {task[t].name}]]

\* _build_analyzer raises (a bad address or timeout, no anymodbus): the port
\* entry that _resolve_port stored stays.
BuildFails(t, entry) ==
  /\ ports' = [ports EXCEPT ![task[t].source] = entry]
  /\ UNCHANGED devices

\* The port is known already.
AddToPort(t) ==
  LET entry == ports[task[t].source]
  IN  /\ Locked(t, "add")
      /\ ~AddRefused(t)
      /\ task[t].source \in Keys
      /\ entry # None
      /\ fresh' = fresh + 1
      /\ Register(t, entry, fresh') \/ BuildFails(t, entry)
      /\ Leave(t)
      /\ UNCHANGED <<closed, opened, polls, direct>>

\* The port is new: await the opening of its transport.
AddOpens(t) ==
  /\ Locked(t, "add")
  /\ ~AddRefused(t)
  /\ task[t].source \in Keys
  /\ ports[task[t].source] = None
  /\ task' = [task EXCEPT ![t].pc = "opening"]
  /\ state_lock' = t
  /\ UNCHANGED <<registry, polls, direct>>

\* It opened: the port entry is stored, then the device is built.
Opened(t) ==
  /\ task[t].pc = "opening"
  /\ fresh' = fresh + 1
  /\ LET s == task[t].source
         transport == IF s \in Paths THEN <<s, fresh'>> ELSE s
         entry == [transport |-> transport, lock |-> fresh',
                   protocol |-> task[t].protocol, refs |-> {}]
     IN  /\ opened' = IF s \in Paths THEN opened \cup {transport} ELSE opened
         /\ Register(t, entry, fresh') \/ BuildFails(t, entry)
  /\ Leave(t)
  /\ UNCHANGED <<closed, polls, direct>>

\* It did not open, or the caller was cancelled meanwhile.
OpenFails(t) ==
  /\ task[t].pc = "opening"
  /\ task[t].source \in Paths
  /\ Leave(t)
  /\ UNCHANGED <<registry, polls, direct>>

\* A port entry without the references that go; one without any other leaves
\* the table.
Released(entry, gone) ==
  IF entry.refs \subseteq gone THEN None ELSE [entry EXCEPT !.refs = @ \ gone]

\* _teardown_device for every device at position i or later.
Teardown(i) ==
  LET gone == {devices[j].name : j \in {j \in DOMAIN devices : j >= i}}
  IN  ports' = [k \in Keys |->
        IF ports[k] = None \/ ports[k].refs \cap gone = {} THEN ports[k]
        ELSE Released(ports[k], gone)]

\* await transport.aclose() of the owned transport that lost its last
\* reference; handle is None when there is none to close.
AwaitClose(t, handle) ==
  /\ task' = [task EXCEPT ![t] = [task[t] EXCEPT !.pc = "closing", !.handle = handle]]
  /\ state_lock' = t

\* The transport a port entry owns, if dropping the references of name n
\* leaves it without one.
LastHandle(s, n) ==
  IF s \in Paths /\ ports[s] # None /\ ports[s].refs \subseteq {n}
    THEN ports[s].transport ELSE None

RemoveDevice(t) ==
  /\ Locked(t, "remove")
  /\ ~closed
  /\ \E i \in DOMAIN devices :
       LET n == devices[i].name
           s == devices[i].source
       IN  /\ n = task[t].name
           /\ devices' = Seqs!RemoveAt(devices, i)
           /\ ports' = IF s \in Keys /\ ports[s] # None
                       THEN [ports EXCEPT ![s] = Released(ports[s], {n})]
                       ELSE ports
           /\ IF LastHandle(s, n) = None
                THEN Leave(t)
                ELSE AwaitClose(t, LastHandle(s, n))
  /\ UNCHANGED <<closed, opened, fresh, polls, direct>>

\* Devices whose teardown, last to first, awaits the closing of a transport:
\* the first one of each owned port.
LastOfPort ==
  {i \in DOMAIN devices :
     /\ devices[i].source \in Paths
     /\ \A j \in 1..(i - 1) : devices[j].source # devices[i].source}

\* close: tear down last to first, up to the next await.
CloseNext(t) ==
  /\ Locked(t, "close")
  /\ ~closed
  /\ IF LastOfPort = {}
       THEN /\ devices' = <<>>
            /\ Teardown(1)
            /\ closed' = TRUE
            /\ Leave(t)
       ELSE LET i == Max(LastOfPort)
            IN  /\ devices' = SubSeq(devices, 1, i - 1)
                /\ Teardown(i)
                /\ AwaitClose(t, devices[i].transport)
                /\ UNCHANGED closed
  /\ UNCHANGED <<opened, fresh, polls, direct>>

\* The caller's task is cancelled while it waits for the lock or for aclose.
\* The manager has let go of that transport either way: whether a cancelled
\* aclose released the device is up to the serial library.
CallCancelled(t) ==
  /\ task[t].pc \in {"waiting", "closing"}
  /\ task' = [task EXCEPT ![t] = Idle]
  /\ state_lock' = IF task[t].pc = "closing" THEN None ELSE state_lock
  /\ opened' = opened \ {task[t].handle}
  /\ UNCHANGED <<devices, ports, closed, fresh, polls, direct>>

\* aclose returned, or raised an error that is swallowed.
Closed(t) ==
  /\ task[t].pc = "closing"
  /\ opened' = opened \ {task[t].handle}
  /\ IF task[t].op = "remove"
       THEN Leave(t)
       ELSE /\ task' = [task EXCEPT ![t] = [task[t] EXCEPT !.pc = "locked", !.handle = None]]
            /\ UNCHANGED state_lock
  /\ UNCHANGED <<devices, ports, closed, fresh, polls, direct>>

-----------------------------------------------------------------------------
\* poll, poll_samples, execute_each

Group(p, k) == groups[p][k]

\* Everybody who is inside an analyser: the groups and the direct users.
InAnalyzer ==
  {c \in Pollers \X GroupKeys :
     c[2] \in DOMAIN groups[c[1]] /\ Group(c[1], c[2]).pc = "io"}
DirectIO == {u \in Users : direct[u] # None}

\* Mutant of PortLockFree: the lock is let go of before the call.
PortLockFreeDuringCalls(lock) ==
  lock = Unshared \/
  \A p \in Pollers : \A k \in DOMAIN groups[p] :
    Group(p, k).pc = "session" => Group(p, k).lock # lock

PortLockFree(lock) ==
  lock = Unshared \/
  \A p \in Pollers : \A k \in DOMAIN groups[p] :
    Group(p, k).pc \in {"session", "io"} => Group(p, k).lock # lock

SessionFree(a) ==
  /\ \A a1 \in InAnalyzer : Group(a1[1], a1[2]).dev.analyzer # a
  /\ \A u \in DirectIO : direct[u].analyzer # a

\* _resolve_names and _group_by_port: one task per group is started, for its
\* members in the order the caller names them in (that of insertion by default).
Poll(p, names) ==
  LET keys == {GroupKey(Device(n)) : n \in names}
      Orders(k) == Seqs!SetToSeqs({n \in names : GroupKey(Device(n)) = k})
  IN  /\ poller[p] = "idle"
      /\ names \subseteq Registered
      /\ \E todo \in [keys -> UNION {Orders(k) : k \in keys}] :
           /\ \A k \in keys : todo[k] \in Orders(k)
           /\ groups' = [groups EXCEPT ![p] =
                [k \in keys |-> [pc |-> "spawned", lock |-> Unshared, dev |-> None,
                                 todo |-> todo[k]]]]
      /\ poller' = [poller EXCEPT ![p] = "running"]
      /\ wanted' = [wanted EXCEPT ![p] = names]
      /\ UNCHANGED <<registry, admin, results, direct>>

InGroup(p, k, at) ==
  /\ poller[p] = "running"
  /\ k \in DOMAIN groups[p]
  /\ Group(p, k).pc = at

SetGroup(p, k, g) == groups' = [groups EXCEPT ![p][k] = g]

\* The group task starts: _lock_for.
StartGroup(p, k) ==
  /\ InGroup(p, k, "spawned")
  /\ SetGroup(p, k,
       [Group(p, k) EXCEPT
          !.pc = "waiting",
          !.lock = IF k \in Keys /\ ports[k] # None
                     THEN ports[k].lock ELSE Unshared])
  /\ UNCHANGED <<registry, admin, poller, results, wanted, direct>>

\* A group task that has ended has no locals any more.
Ended == [pc |-> "done", lock |-> Unshared, dev |-> None, todo |-> <<>>]

\* The next member: self._devices[member] is looked up only now.  If it is
\* gone, that is a KeyError, which no except clause takes.
GoOn(p, k, rest) ==
  LET g == [Group(p, k) EXCEPT !.todo = rest, !.dev = None]
  IN  \/ /\ rest = <<>>
         /\ SetGroup(p, k, Ended)
         /\ UNCHANGED poller
      \/ /\ rest # <<>> /\ Head(rest) \in Registered
         /\ SetGroup(p, k, [g EXCEPT !.pc = "session", !.dev = Device(Head(rest))])
         /\ UNCHANGED poller
      \/ /\ rest # <<>> /\ Head(rest) \notin Registered
         /\ SetGroup(p, k, Ended)
         /\ poller' = [poller EXCEPT ![p] = "raising"]

TakePortLock(p, k) ==
  /\ InGroup(p, k, "waiting")
  /\ PortLockFree(Group(p, k).lock)
  /\ GoOn(p, k, Group(p, k).todo)
  /\ UNCHANGED <<registry, admin, results, wanted, direct>>

\* ModbusClient._execute: the session lock of this analyser only.
TakeSession(p, k) ==
  /\ InGroup(p, k, "session")
  /\ SessionFree(Group(p, k).dev.analyzer)
  /\ SetGroup(p, k, [Group(p, k) EXCEPT !.pc = "io"])
  /\ UNCHANGED <<registry, admin, poller, results, wanted, direct>>

\* Mutant of MemberDone: a failed call leaves no result.
MemberDoneUnrecorded(p, k) ==
  /\ InGroup(p, k, "io")
  /\ GoOn(p, k, Tail(Group(p, k).todo))
  /\ UNCHANGED <<registry, admin, results, wanted, direct>>

\* The call on the analyser returned a value or raised a ServomexError; both
\* are a DeviceResult (poll_samples drops the failed one).  The session lock is
\* free a moment earlier; nobody can tell, as the port lock stays.
MemberDone(p, k) ==
  /\ InGroup(p, k, "io")
  /\ GoOn(p, k, Tail(Group(p, k).todo))
  /\ results' = [results EXCEPT ![p] = @ \cup {Head(Group(p, k).todo)}]
  /\ UNCHANGED <<registry, admin, wanted, direct>>

\* The caller's task is cancelled: the task group cancels every group, and
\* nobody gets the results.
PollCancelled(p) ==
  /\ poller[p] = "running"
  /\ poller' = [poller EXCEPT ![p] = "cancelling"]
  /\ results' = [results EXCEPT ![p] = {}]
  /\ wanted' = [wanted EXCEPT ![p] = {}]
  /\ UNCHANGED <<registry, admin, groups, direct>>

GroupCancelled(p, k) ==
  /\ poller[p] \in {"raising", "cancelling"}
  /\ k \in DOMAIN groups[p]
  /\ Group(p, k).pc # "done"
  /\ SetGroup(p, k, Ended)
  /\ UNCHANGED <<registry, admin, poller, results, wanted, direct>>

\* Mutant of Join: it waits for a result of every device.
JoinComplete(p) ==
  /\ poller[p] # "idle"
  /\ results[p] = wanted[p]
  /\ \A k \in DOMAIN groups[p] : Group(p, k).pc = "done"
  /\ poller' = [poller EXCEPT ![p] = "idle"]
  /\ groups' = [groups EXCEPT ![p] = <<>>]
  /\ results' = [results EXCEPT ![p] = {}]
  /\ wanted' = [wanted EXCEPT ![p] = {}]
  /\ UNCHANGED <<registry, admin, direct>>

\* The task group joins: the poll returns its mapping if it was "running", and
\* raises otherwise.
Join(p) ==
  /\ poller[p] # "idle"
  /\ \A k \in DOMAIN groups[p] : Group(p, k).pc = "done"
  /\ poller' = [poller EXCEPT ![p] = "idle"]
  /\ groups' = [groups EXCEPT ![p] = <<>>]
  /\ results' = [results EXCEPT ![p] = {}]
  /\ wanted' = [wanted EXCEPT ![p] = {}]
  /\ UNCHANGED <<registry, admin, direct>>

\* The analyser add or get returned, used by itself: a call takes its session
\* lock and nothing else.  While it waits for that it holds nothing, so waiting
\* is no state of its own.
DirectCall(u, n) ==
  /\ direct[u] = None
  /\ n \in Registered
  /\ SessionFree(Device(n).analyzer)
  /\ direct' = [direct EXCEPT ![u] = Device(n)]
  /\ UNCHANGED <<registry, admin, polls>>

DirectDone(u) ==
  /\ direct[u] # None
  /\ direct' = [direct EXCEPT ![u] = None]
  /\ UNCHANGED <<registry, admin, polls>>

-----------------------------------------------------------------------------

Call(t) ==
  \/ \E n \in Names, s \in Sources, proto \in Protocols :
       Add(t, n, s, proto)
  \/ \E n \in Removable : Remove(t, n)
  \/ Close(t)

Step(t) ==
  \/ Refuse(t)
  \/ AddPrebuilt(t)
  \/ AddToPort(t)
  \/ AddOpens(t)
  \/ Opened(t)
  \/ OpenFails(t)
  \/ RemoveDevice(t)
  \/ CloseNext(t)
  \/ Closed(t)

Acquire(p, k) == TakePortLock(p, k) \/ TakeSession(p, k)

GroupStep(p, k) ==
  \/ StartGroup(p, k)
  \/ MemberDone(p, k)
  \/ GroupCancelled(p, k)

Next ==
  \/ \E t \in Tasks : Call(t) \/ Step(t) \/ CallCancelled(t)
  \/ \E p \in Pollers :
       \/ \E names \in SUBSET Names : Poll(p, names)
       \/ \E k \in GroupKeys : Acquire(p, k) \/ GroupStep(p, k)
       \/ PollCancelled(p)
       \/ Join(p)
  \/ \E u \in Users :
       \/ \E n \in Names : DirectCall(u, n)
       \/ DirectDone(u)

Spec == Init /\ [][Next]_vars

\* The event loop runs every task that can run; anyio.Lock hands a lock over
\* in FIFO order, so a waiter that keeps finding its lock free again gets it
\* (strong fairness of Acquire); the bus bounds every
\* transaction.  Nothing is assumed of the callers, nor of add, remove and
\* close: a transport that never opens holds up no poll.
Fairness ==
  /\ \A p \in Pollers :
       /\ WF_vars(Join(p) \/ \E k \in GroupKeys : GroupStep(p, k))
       /\ \A k \in GroupKeys : SF_vars(Acquire(p, k))
  /\ \A u \in Users : WF_vars(DirectDone(u))

FairSpec == Spec /\ Fairness

-----------------------------------------------------------------------------
\* Properties

Calling == {"locked", "opening", "closing"}

TypeOK ==
  /\ devices \in Seq(DeviceEntries)
  /\ ports \in [Keys -> PortEntries \cup {None}]
  /\ closed \in BOOLEAN
  /\ opened \subseteq Handles
  /\ fresh \in Nat
  /\ state_lock \in Tasks \cup {None}
  /\ task \in [Tasks ->
       [pc : {"idle", "waiting"} \cup Calling,
        op : {None, "add", "remove", "close"}, name : Names \cup {None},
        source : Sources \cup {None}, protocol : Protocols \cup {None},
        handle : Handles \cup {None}]]
  /\ poller \in [Pollers -> {"idle", "running", "raising", "cancelling"}]
  /\ wanted \in [Pollers -> SUBSET Names]
  /\ direct \in [Users -> DeviceEntries \cup {None}]
  /\ DOMAIN groups = Pollers
  /\ \A p \in Pollers : DOMAIN groups[p] \subseteq GroupKeys
  /\ \A p \in Pollers : \A k \in DOMAIN groups[p] :
       /\ Group(p, k) \in
            [pc : {"spawned", "waiting", "session", "io", "done"}, lock : Nat,
             dev : DeviceEntries \cup {None}, todo : {Group(p, k).todo}]
       /\ Group(p, k).pc \in {"session", "io"} => Group(p, k).dev # None

\* Names are unique, and the reference set of every port is exactly the set of
\* the registered devices on it, whatever add, remove and close do in which
\* order (manager.py:236,464): a port goes with its last device, never before.
RefsMatchDevices ==
  /\ \A i, j \in DOMAIN devices : devices[i].name = devices[j].name => i = j
  /\ \A k \in Keys :
       {n \in Registered : Device(n).source = k} =
       (IF ports[k] = None THEN {} ELSE ports[k].refs)

\* Every transport the manager opened is in its port table or is being closed
\* at this moment; two concurrent adds of one path never open it twice.
OpenedIsTracked ==
  /\ \A h \in opened :
       \/ ports[h[1]] # None /\ ports[h[1]].transport = h
       \/ \E t \in Tasks : task[t].pc = "closing" /\ task[t].handle = h
  /\ \A h1, h2 \in opened : h1[1] = h2[1] => h1 = h2

\* A registered device's port is open: no add, remove or close of another
\* device closes the transport under it.
RegisteredIsOpen ==
  \A i \in DOMAIN devices :
    devices[i].source \in Paths => devices[i].transport \in opened

\* After close, what is still open never had a device: only a port whose first
\* add failed after the port was opened outlives the manager.
CloseLeavesOnlyOrphans ==
  closed =>
    /\ devices = <<>>
    /\ \A h \in opened :
         ports[h[1]] # None /\ ports[h[1]].transport = h /\ ports[h[1]].refs = {}

\* The transports that are open are those the registry needs, those being
\* closed, and no others, before and after the manager is closed.
OpenMatchesRegistry == OpenedIsTracked /\ RegisteredIsOpen /\ CloseLeavesOnlyOrphans

CallDevice(a) == IF a \in Users THEN direct[a] ELSE Group(a[1], a[2]).dev

\* "lock serialises every transaction on the shared stream so two slaves'
\* frames cannot interleave" (manager.py:121-122), and how far that goes: two
\* calls of polls share a transport only when one of them is made by a group
\* whose lock is no longer, or never was, the lock of the port its device is
\* on, the registry having changed between _group_by_port, _lock_for and the
\* call (manager.py:297-305).  A call on an analyser that get() handed out
\* (manager.py:255) shares its transport with anybody, but never its analyser.
HoldsItsPort(a) ==
  LET k == CallDevice(a).source
  IN  k \in Keys /\ ports[k] # None /\ ports[k].lock = Group(a[1], a[2]).lock
SharedOnlyIfStale ==
  \A a, b \in InAnalyzer \cup DirectIO :
    (a # b /\ CallDevice(a).transport = CallDevice(b).transport) =>
      /\ CallDevice(a).analyzer # CallDevice(b).analyzer
      /\ a \in DirectIO \/ b \in DirectIO \/ ~(HoldsItsPort(a) /\ HoldsItsPort(b))

\* A poll returns with a result for every name it was asked for, and for no
\* other (manager.py:322), however its groups were interleaved with each other
\* and with the administrative calls.
ReturnStep(p) ==
  (poller[p] = "running" /\ poller'[p] = "idle") => results[p] = wanted[p]

\* The only way a poll raises is that one of its devices was unregistered
\* after it began.
RaiseStep(p) ==
  (poller[p] = "running" /\ poller'[p] = "raising") => ~(wanted[p] \subseteq Registered)

\* A poll returns everything it was asked for, or raises for that one reason.
PollOutcomes == [][\A p \in Pollers : ReturnStep(p) /\ RaiseStep(p)]_vars

\* No lock is lost and nobody waits for a lock in a circle: every poll ends,
\* however it is removed from, failed or cancelled under.
PollsEnd == \A p \in Pollers : []<>(poller[p] = "idle")
=============================================================================

---------------------------- MODULE ManagerProofs ----------------------------
(***************************************************************************)
(* Theorems of Manager, for every number of tasks, polls, names and ports. *)
(***************************************************************************)
EXTENDS Manager, SequenceTheorems, FiniteSetTheorems, WellFoundedInduction, TLAPS

\* The references of a port, also of one that is not in the table.
Refs(k) == IF ports[k] = None THEN {} ELSE ports[k].refs

\* The registry as a set of entries, each under a name of its own.
Entries == {devices[i] : i \in DOMAIN devices}
UniqueNames ==
  \A i, j \in DOMAIN devices : devices[i].name = devices[j].name => i = j
Counted ==
  \A k \in Keys : \A n :
    n \in Refs(k) <=> \E d \in Entries : d.name = n /\ d.source = k

\* Who is inside the state lock.
LockHeld == \A t \in Tasks : task[t].pc \in Calling <=> state_lock = t

\* What a call that is under way knows.
Shape(t) ==
  LET call == task[t]
  IN  /\ call.pc # "idle" /\ call.op = "add" =>
           call.name \in Names /\ call.source \in Sources /\ call.protocol \in Protocols
      /\ call.pc = "opening" =>
           /\ call.op = "add" /\ ~closed /\ call.name \notin Registered
           /\ call.source \in Keys /\ ports[call.source] = None
           /\ call.protocol # Continuous
      /\ call.pc = "locked" => call.op = "close" /\ ~closed
      /\ call.pc = "closing" =>
           /\ call.op \in {"remove", "close"} /\ ~closed
           /\ call.handle \in opened /\ ports[call.handle[1]] = None
      /\ call.pc # "closing" => call.handle = None
CallShape == \A t \in Tasks : Shape(t)

\* A port of a path owns a transport that is open; a bound one has the
\* caller's.  A device works on its port's.
Wired(k, transport) ==
  IF k \in Paths THEN transport \in Handles /\ transport[1] = k ELSE transport = k
PortsWired ==
  \A k \in Keys : ports[k] # None =>
    /\ Wired(k, ports[k].transport)
    /\ k \in Paths => ports[k].transport \in opened
DevicesWired ==
  \A d \in Entries :
    /\ Wired(d.source, d.transport)
    /\ d.source \in Paths => d.transport = ports[d.source].transport

RegistryTypeOK ==
  /\ devices \in Seq(DeviceEntries)
  /\ ports \in [Keys -> PortEntries \cup {None}]
  /\ closed \in BOOLEAN
  /\ opened \subseteq Handles
  /\ fresh \in Nat
AdminTypeOK ==
  /\ state_lock \in Tasks \cup {None}
  /\ task \in [Tasks ->
       [pc : {"idle", "waiting"} \cup Calling,
        op : {None, "add", "remove", "close"}, name : Names \cup {None},
        source : Sources \cup {None}, protocol : Protocols \cup {None},
        handle : Handles \cup {None}]]
PollsTypeOK ==
  /\ poller \in [Pollers -> {"idle", "running", "raising", "cancelling"}]
  /\ wanted \in [Pollers -> SUBSET Names]
  /\ direct \in [Users -> DeviceEntries \cup {None}]
  /\ DOMAIN groups = Pollers
  /\ \A p \in Pollers : DOMAIN groups[p] \subseteq GroupKeys
  /\ \A p \in Pollers : \A k \in DOMAIN groups[p] :
       /\ Group(p, k) \in
            [pc : {"spawned", "waiting", "session", "io", "done"}, lock : Nat,
             dev : DeviceEntries \cup {None}, todo : {Group(p, k).todo}]
       /\ Group(p, k).pc \in {"session", "io"} => Group(p, k).dev # None

\* A group that holds a lock is the only one to, a call the only one on its
\* analyser, and the device a call is made on was wired to its port.
InPort(p, k) == k \in DOMAIN groups[p] /\ Group(p, k).pc \in {"session", "io"}
InCall(p, k) == k \in DOMAIN groups[p] /\ Group(p, k).pc = "io"
LocksApart ==
  \A p, q \in Pollers : \A k, l \in GroupKeys :
    (/\ InPort(p, k) /\ InPort(q, l)
     /\ Group(p, k).lock = Group(q, l).lock /\ Group(p, k).lock # Unshared)
       => p = q /\ k = l
GroupsApart ==
  \A p, q \in Pollers : \A k, l \in GroupKeys :
    (InCall(p, k) /\ InCall(q, l) /\ Group(p, k).dev.analyzer = Group(q, l).dev.analyzer)
       => p = q /\ k = l
UsersApart ==
  /\ \A u, v \in DirectIO : direct[u].analyzer = direct[v].analyzer => u = v
  /\ \A u \in DirectIO, p \in Pollers, k \in GroupKeys :
       InCall(p, k) => direct[u].analyzer # Group(p, k).dev.analyzer
CallsWired ==
  /\ \A p \in Pollers, k \in GroupKeys :
       InPort(p, k) => Wired(Group(p, k).dev.source, Group(p, k).dev.transport)
  /\ \A u \in DirectIO : Wired(direct[u].source, direct[u].transport)

\* Every port that is open is in the table or being closed.
Tracked ==
  \A h \in opened :
    \/ ports[h[1]] # None /\ ports[h[1]].transport = h
    \/ \E t \in Tasks : task[t].pc = "closing" /\ task[t].handle = h

RInv ==
  /\ RegistryTypeOK
  /\ AdminTypeOK
  /\ UniqueNames
  /\ Counted
  /\ LockHeld
  /\ CallShape
  /\ PortsWired
  /\ DevicesWired
  /\ Tracked
  /\ CloseLeavesOnlyOrphans

PInv ==
  /\ PollsTypeOK
  /\ LocksApart
  /\ GroupsApart
  /\ UsersApart
  /\ CallsWired
-----------------------------------------------------------------------------
\* The state lock

Inside(t) == task[t].pc \in Calling \/ state_lock = None

\* Who has the lock is alone.
LEMMA Alone ==
  ASSUME AdminTypeOK, LockHeld, NEW t \in Tasks, Inside(t)
  PROVE  /\ state_lock \in {None, t}
         /\ \A u \in Tasks \ {t} : task[u].pc \in {"idle", "waiting"}
BY ManagerAssumption DEF AdminTypeOK, LockHeld, Inside

LEMMA LeaveFacts ==
  ASSUME AdminTypeOK, LockHeld, CallShape, NEW t \in Tasks, Inside(t), Leave(t)
  PROVE  /\ AdminTypeOK' /\ LockHeld' /\ CallShape'
         /\ \A u \in Tasks : task'[u].pc \in {"idle", "waiting"}
<1>1. /\ \A u \in Tasks \ {t} : task'[u] = task[u] /\ task'[u].pc \in {"idle", "waiting"}
      /\ task'[t] = Idle /\ state_lock' = None
      /\ AdminTypeOK'
  BY Alone DEF AdminTypeOK, Leave, Idle
<1>2. \A u \in Tasks : task'[u].pc \in {"idle", "waiting"}
  BY <1>1 DEF Idle
<1>3. LockHeld'
  BY <1>1, <1>2, ManagerAssumption DEF LockHeld, Calling
<1>4. ASSUME NEW u \in Tasks PROVE Shape(u)'
  <2>1. CASE u = t
    BY <2>1, <1>1 DEF Shape, Idle
  <2>2. CASE u # t
    BY <2>2, <1>1 DEF CallShape, Shape
  <2> QED
    BY <2>1, <2>2
<1> QED
  BY <1>1, <1>2, <1>3, <1>4 DEF CallShape

LEMMA AwaitFacts ==
  ASSUME AdminTypeOK, LockHeld, CallShape, NEW t \in Tasks, Inside(t),
         NEW h \in Handles, AwaitClose(t, h), h \in opened', ports'[h[1]] = None,
         ~closed', task[t].op \in {"remove", "close"}
  PROVE  /\ AdminTypeOK' /\ LockHeld' /\ CallShape'
         /\ task'[t].pc = "closing" /\ task'[t].handle = h
<1>1. /\ \A u \in Tasks \ {t} : task'[u] = task[u] /\ task'[u].pc \in {"idle", "waiting"}
      /\ state_lock' = t
  BY Alone DEF AdminTypeOK, AwaitClose
<1>2. /\ task'[t].pc = "closing" /\ task'[t].handle = h /\ task'[t].op = task[t].op
      /\ AdminTypeOK'
  <2> DEFINE Records ==
        [pc : {"idle", "waiting"} \cup Calling,
         op : {None, "add", "remove", "close"}, name : Names \cup {None},
         source : Sources \cup {None}, protocol : Protocols \cup {None},
         handle : Handles \cup {None}]
  <2>1. task[t] \in Records /\ task \in [Tasks -> Records]
    BY DEF AdminTypeOK
  <2>2. task' = [task EXCEPT ![t] = [task[t] EXCEPT !.pc = "closing", !.handle = h]]
    BY Zenon DEF AwaitClose
  <2> DEFINE r == [task[t] EXCEPT !.pc = "closing", !.handle = h]
  <2>3. r \in Records /\ r.pc = "closing" /\ r.handle = h /\ r.op = task[t].op
    BY <2>1 DEF Calling
  <2> HIDE DEF r, Records
  <2>4. task'[t] = r /\ task' \in [Tasks -> Records]
    BY <2>1, <2>2, <2>3 DEF r
  <2> QED
    BY <2>3, <2>4, <1>1 DEF AdminTypeOK, Records
<1>3. LockHeld'
  BY <1>1, <1>2, ManagerAssumption DEF LockHeld, Calling
<1>4. ASSUME NEW u \in Tasks PROVE Shape(u)'
  <2>1. CASE u = t
    BY <2>1, <1>2 DEF Shape
  <2>2. CASE u # t
    BY <2>2, <1>1 DEF CallShape, Shape
  <2> QED
    BY <2>1, <2>2
<1> QED
  BY <1>1, <1>2, <1>3, <1>4 DEF CallShape

-----------------------------------------------------------------------------
\* The registry as a set

LEMMA EntryFacts ==
  ASSUME RegistryTypeOK
  PROVE  /\ Len(devices) \in Nat /\ DOMAIN devices = 1..Len(devices)
         /\ \A i \in DOMAIN devices : devices[i] \in DeviceEntries
         /\ Entries \subseteq DeviceEntries
         /\ Registered = {d.name : d \in Entries}
<1>1. /\ Len(devices) \in Nat /\ DOMAIN devices = 1..Len(devices)
      /\ \A i \in DOMAIN devices : devices[i] \in DeviceEntries
  BY LenProperties, ElementOfSeq DEF RegistryTypeOK
<1> QED
  BY <1>1 DEF Entries, Registered

LEMMA EntryAdded ==
  ASSUME RegistryTypeOK, UniqueNames, NEW e \in DeviceEntries, e.name \notin Registered,
         devices' = Append(devices, e)
  PROVE  /\ devices' \in Seq(DeviceEntries)
         /\ UniqueNames'
         /\ Entries' = Entries \cup {e}
<1>1. /\ devices' \in Seq(DeviceEntries)
      /\ Len(devices') = Len(devices) + 1
      /\ \A i \in 1..Len(devices) : devices'[i] = devices[i]
      /\ devices'[Len(devices) + 1] = e
  BY AppendProperties DEF RegistryTypeOK
<1>2. DOMAIN devices' = 1..(Len(devices) + 1)
  BY <1>1, LenProperties
<1>3. UniqueNames'
  BY <1>1, <1>2, EntryFacts DEF UniqueNames, Registered
<1>4. Entries' = Entries \cup {e}
  BY <1>1, <1>2, EntryFacts DEF Entries
<1> QED
  BY <1>1, <1>3, <1>4

LEMMA FrontKept ==
  ASSUME RegistryTypeOK, UniqueNames, NEW i \in 1..(Len(devices) + 1),
         devices' = SubSeq(devices, 1, i - 1)
  PROVE  /\ devices' \in Seq(DeviceEntries)
         /\ UniqueNames'
         /\ Entries' = {devices[j] : j \in 1..(i - 1)}
<1>1. /\ devices' \in Seq(DeviceEntries)
      /\ Len(devices') = i - 1
      /\ \A j \in 1..(i - 1) : devices'[j] = devices[j]
  <2>1. \A j \in 1..(i - 1) : devices[j] \in DeviceEntries
    BY EntryFacts
  <2>2. /\ devices' \in Seq(DeviceEntries)
        /\ Len(devices') = IF 1 <= i - 1 THEN i - 1 - 1 + 1 ELSE 0
        /\ \A j \in 1..(i - 1 - 1 + 1) : devices'[j] = devices[1 + j - 1]
    BY <2>1, EntryFacts, SubSeqProperties
  <2> QED
    BY <2>2, EntryFacts
<1>2. DOMAIN devices' = 1..(i - 1)
  BY <1>1, LenProperties
<1>3. UniqueNames'
  BY <1>1, <1>2, EntryFacts DEF UniqueNames
<1>4. Entries' = {devices[j] : j \in 1..(i - 1)}
  BY <1>1, <1>2 DEF Entries
<1> QED
  BY <1>1, <1>3, <1>4

LEMMA EntryRemoved ==
  ASSUME RegistryTypeOK, UniqueNames, NEW i \in DOMAIN devices,
         devices' = Seqs!RemoveAt(devices, i)
  PROVE  /\ devices' \in Seq(DeviceEntries)
         /\ UniqueNames'
         /\ Entries' = Entries \ {devices[i]}
<1> DEFINE front == SubSeq(devices, 1, i - 1)
           back == SubSeq(devices, i + 1, Len(devices))
           n == Len(devices)
<1>0. n \in Nat /\ i \in 1..n /\ \A j \in 1..n : devices[j] \in DeviceEntries
  BY EntryFacts
<1>1. /\ front \in Seq(DeviceEntries) /\ Len(front) = i - 1
      /\ \A j \in 1..(i - 1) : front[j] = devices[j]
  <2>1. \A j \in 1..(i - 1) : devices[j] \in DeviceEntries
    BY <1>0
  <2>2. /\ front \in Seq(DeviceEntries)
        /\ Len(front) = IF 1 <= i - 1 THEN i - 1 - 1 + 1 ELSE 0
        /\ \A j \in 1..(i - 1 - 1 + 1) : front[j] = devices[1 + j - 1]
    BY <2>1, <1>0, SubSeqProperties
  <2> QED
    BY <2>2, <1>0
<1>2. /\ back \in Seq(DeviceEntries) /\ Len(back) = n - i
      /\ \A j \in 1..(n - i) : back[j] = devices[j + i]
  <2>1. \A j \in (i + 1)..n : devices[j] \in DeviceEntries
    BY <1>0
  <2>2. i + 1 \in Int /\ n \in Int /\ n - (i + 1) + 1 = n - i
    BY <1>0
  <2>3. /\ back \in Seq(DeviceEntries)
        /\ Len(back) = IF i + 1 <= n THEN n - (i + 1) + 1 ELSE 0
        /\ \A j \in 1..(n - (i + 1) + 1) : back[j] = devices[i + 1 + j - 1]
    BY <2>1, <2>2, SubSeqProperties
  <2> HIDE DEF back, n
  <2>4. Len(back) = n - i
    BY <1>0, <2>2, <2>3
  <2>5. ASSUME NEW j \in 1..(n - i) PROVE back[j] = devices[j + i]
    <3>1. back[j] = devices[i + 1 + j - 1]
      BY <2>2, <2>3
    <3>2. i + 1 + j - 1 = j + i
      BY <1>0
    <3> QED
      BY <3>1, <3>2
  <2> QED
    BY <2>3, <2>4, <2>5
<1>3. devices' = front \o back
  BY DEF Seqs!RemoveAt
<1> HIDE DEF front, back, n
<1>4. /\ devices' \in Seq(DeviceEntries) /\ Len(devices') = n - 1
      /\ \A j \in 1..(n - 1) : devices'[j] = IF j < i THEN devices[j] ELSE devices[j + 1]
  <2>1. /\ devices' \in Seq(DeviceEntries) /\ Len(devices') = Len(front) + Len(back)
        /\ \A j \in 1..(Len(front) + Len(back)) :
             devices'[j] = IF j <= Len(front) THEN front[j] ELSE back[j - Len(front)]
    BY <1>1, <1>2, <1>3, ConcatProperties
  <2>2. Len(devices') = n - 1
    BY <2>1, <1>0, <1>1, <1>2
  <2>3. ASSUME NEW j \in 1..(n - 1)
        PROVE devices'[j] = IF j < i THEN devices[j] ELSE devices[j + 1]
    <3>1. devices'[j] = IF j <= Len(front) THEN front[j] ELSE back[j - Len(front)]
      BY <2>1, <1>0, <1>1, <1>2
    <3>2. CASE j < i
      BY <3>1, <3>2, <1>0, <1>1
    <3>3. CASE ~(j < i)
      <4>1. j - (i - 1) \in 1..(n - i) /\ j - (i - 1) + i = j + 1
        BY <3>3, <1>0
      <4>2. back[j - (i - 1)] = devices[j - (i - 1) + i]
        BY <4>1, <1>2
      <4> QED
        BY <3>1, <3>3, <4>1, <4>2, <1>0, <1>1
    <3> QED
      BY <3>2, <3>3
  <2> QED
    BY <2>1, <2>2, <2>3
<1>5. DOMAIN devices' = 1..(n - 1) /\ DOMAIN devices = 1..n
  BY <1>4, LenProperties, EntryFacts DEF n
<1>6. UniqueNames'
  <2> SUFFICES ASSUME NEW j \in 1..(n - 1), NEW k \in 1..(n - 1),
                      devices'[j].name = devices'[k].name
               PROVE  j = k
    BY <1>5 DEF UniqueNames
  <2> DEFINE at(l) == IF l < i THEN l ELSE l + 1
  <2>1. /\ at(j) \in 1..n /\ at(k) \in 1..n
        /\ devices'[j] = devices[at(j)] /\ devices'[k] = devices[at(k)]
    BY <1>0, <1>4
  <2>2. at(j) = at(k)
    BY <2>1, <1>5 DEF UniqueNames
  <2> QED
    BY <2>2, <1>0
<1>7. Entries' \subseteq Entries \ {devices[i]}
  <2> SUFFICES ASSUME NEW j \in 1..(n - 1)
               PROVE  devices'[j] \in Entries /\ devices'[j] # devices[i]
    BY <1>5 DEF Entries
  <2> DEFINE l == IF j < i THEN j ELSE j + 1
  <2>1. l \in 1..n /\ l # i /\ devices'[j] = devices[l]
    BY <1>0, <1>4
  <2> HIDE DEF l
  <2>2. devices[l].name # devices[i].name
    BY <2>1, <1>5 DEF UniqueNames
  <2> QED
    BY <2>1, <2>2, <1>5 DEF Entries
<1>8. ASSUME NEW j \in 1..n, j # i PROVE devices[j] \in Entries'
  <2>1. CASE j < i
    BY <2>1, <1>0, <1>4, <1>5 DEF Entries
  <2>2. CASE j > i
    <3>1. j - 1 \in 1..(n - 1) /\ ~(j - 1 < i) /\ j - 1 + 1 = j
      BY <2>2, <1>0
    <3>2. devices'[j - 1] = devices[j]
      BY <3>1, <1>4
    <3> QED
      BY <3>1, <3>2, <1>5 DEF Entries
  <2> QED
    BY <2>1, <2>2, <1>8, <1>0
<1>9. Entries \ {devices[i]} \subseteq Entries'
  BY <1>8, <1>5 DEF Entries
<1> QED
  BY <1>4, <1>6, <1>7, <1>9
-----------------------------------------------------------------------------
\* Calls and refusals

LEMMA FrameRInv == ASSUME RInv, UNCHANGED <<registry, admin>> PROVE RInv'
<1>1. UNCHANGED <<devices, ports, closed, opened, fresh, state_lock, task>>
  BY DEF registry, admin
<1>2. RegistryTypeOK' /\ AdminTypeOK' /\ UniqueNames' /\ Counted' /\ LockHeld'
  BY <1>1 DEF RInv, RegistryTypeOK, AdminTypeOK, UniqueNames, Counted, LockHeld, Refs, Entries
<1>3. CallShape'
  BY <1>1 DEF RInv, CallShape, Shape, Registered
<1>4. PortsWired' /\ DevicesWired' /\ Tracked' /\ CloseLeavesOnlyOrphans'
  BY <1>1 DEF RInv, PortsWired, DevicesWired, Tracked, CloseLeavesOnlyOrphans, Wired, Entries
<1> QED
  BY <1>2, <1>3, <1>4 DEF RInv

\* Whoever holds the lock and does not await a close: all open ports are in
\* the table.
LEMMA InTable ==
  ASSUME RInv, NEW t \in Tasks, Inside(t), task[t].pc # "closing", NEW h \in opened
  PROVE  h[1] \in Paths /\ ports[h[1]] # None /\ ports[h[1]].transport = h
<1>1. \A u \in Tasks : task[u].pc # "closing"
  BY Alone DEF RInv
<1> QED
  BY <1>1 DEF RInv, Tracked, RegistryTypeOK, Handles

LEMMA LockedFacts ==
  ASSUME RInv, NEW t \in Tasks, NEW op, Locked(t, op)
  PROVE  /\ Inside(t) /\ task[t].op = op /\ task[t].pc \in {"waiting", "locked"}
         /\ op # "close" => task[t].pc = "waiting"
BY DEF RInv, CallShape, Shape, Locked, HasStateLock, Inside, Calling

LEMMA LeavesRInv ==
  ASSUME RInv, NEW t \in Tasks, Inside(t), task[t].pc # "closing", Leave(t),
         UNCHANGED registry
  PROVE  RInv'
<1>1. AdminTypeOK' /\ LockHeld' /\ CallShape'
  BY LeaveFacts DEF RInv
<1>2. Tracked'
  BY InTable DEF Tracked, registry
<1> QED
  BY <1>1, <1>2 DEF RInv, RegistryTypeOK, UniqueNames, Counted, PortsWired, DevicesWired,
     CloseLeavesOnlyOrphans, Refs, Entries, Wired, registry

LEMMA CallsRInv ==
  ASSUME RInv, NEW t \in Tasks, NEW call, Calls(t, call),
         call \in [pc : {"idle"}, op : {"add", "remove", "close"},
                   name : Names \cup {None}, source : Sources \cup {None},
                   protocol : Protocols \cup {None}, handle : {None}],
         call.op = "add" =>
           call.name \in Names /\ call.source \in Sources /\ call.protocol \in Protocols
  PROVE  RInv'
<1> DEFINE r == [call EXCEPT !.pc = "waiting"]
<1>1. /\ r \in [pc : {"waiting"}, op : {"add", "remove", "close"},
                name : Names \cup {None}, source : Sources \cup {None},
                protocol : Protocols \cup {None}, handle : {None}]
      /\ r.op = call.op /\ r.name = call.name /\ r.source = call.source
      /\ r.protocol = call.protocol
  OBVIOUS
<1>2. r.pc = "waiting" /\ r.handle = None
  BY <1>1
<1>3. task' = [task EXCEPT ![t] = r] /\ UNCHANGED <<registry, state_lock>> /\ task[t] = Idle
  BY DEF Calls
<1> HIDE DEF r
<1>4. AdminTypeOK'
  BY <1>1, <1>3 DEF RInv, AdminTypeOK
<1>5. task'[t] = r /\ \A u \in Tasks \ {t} : task'[u] = task[u]
  BY <1>3 DEF RInv, AdminTypeOK
<1>6. LockHeld'
  BY <1>2, <1>3, <1>5 DEF RInv, LockHeld, Calling, Idle
<1>7. ASSUME NEW u \in Tasks PROVE Shape(u)'
  <2>1. CASE u = t
    BY <2>1, <1>1, <1>2, <1>5 DEF Shape
  <2>2. CASE u # t
    BY <2>2, <1>3, <1>5 DEF RInv, CallShape, Shape, Registered, registry
  <2> QED
    BY <2>1, <2>2
<1>8. Tracked'
  BY <1>3, <1>5 DEF RInv, Tracked, Idle, registry
<1> QED
  BY <1>3, <1>4, <1>6, <1>7, <1>8
  DEF RInv, CallShape, RegistryTypeOK, UniqueNames, Counted, PortsWired, DevicesWired,
      CloseLeavesOnlyOrphans, Refs, Entries, Wired, registry

LEMMA CallRInv == ASSUME RInv, NEW t \in Tasks, Call(t) PROVE RInv'
<1>1. ASSUME NEW n \in Names, NEW s \in Sources, NEW proto \in Protocols, Add(t, n, s, proto)
      PROVE  RInv'
  <2> DEFINE call == [Idle EXCEPT !.op = "add", !.name = n, !.source = s, !.protocol = proto]
  <2>1. call \in [pc : {"idle"}, op : {"add"}, name : {n}, source : {s},
                  protocol : {proto}, handle : {None}]
    <3>1. Idle \in [pc : {"idle"}, op : {None}, name : {None}, source : {None},
                    protocol : {None}, handle : {None}]
      BY DEF Idle
    <3> QED
      BY <3>1
  <2> HIDE DEF call
  <2>2. Calls(t, call)
    BY <1>1 DEF Add, call
  <2> QED
    BY <2>1, <2>2, CallsRInv
<1>2. ASSUME NEW n \in Removable, Remove(t, n) PROVE RInv'
  <2> DEFINE call == [Idle EXCEPT !.op = "remove", !.name = n]
  <2>1. call \in [pc : {"idle"}, op : {"remove"}, name : {n}, source : {None},
                  protocol : {None}, handle : {None}]
    <3>1. Idle \in [pc : {"idle"}, op : {None}, name : {None}, source : {None},
                    protocol : {None}, handle : {None}]
      BY DEF Idle
    <3> QED
      BY <3>1
  <2> HIDE DEF call
  <2>2. Calls(t, call)
    BY <1>2 DEF Remove, call
  <2>3. n \in Names
    BY ManagerAssumption
  <2> QED
    BY <2>1, <2>2, <2>3, CallsRInv
<1>3. CASE Close(t)
  <2> DEFINE call == [Idle EXCEPT !.op = "close"]
  <2>1. call \in [pc : {"idle"}, op : {"close"}, name : {None}, source : {None},
                  protocol : {None}, handle : {None}]
    <3>1. Idle \in [pc : {"idle"}, op : {None}, name : {None}, source : {None},
                    protocol : {None}, handle : {None}]
      BY DEF Idle
    <3> QED
      BY <3>1
  <2> HIDE DEF call
  <2>2. Calls(t, call)
    BY <1>3 DEF Close, call
  <2> QED
    BY <2>1, <2>2, CallsRInv
<1> QED
  BY <1>1, <1>2, <1>3 DEF Call

LEMMA RefuseRInv == ASSUME RInv, NEW t \in Tasks, Refuse(t) \/ OpenFails(t) PROVE RInv'
<1>1. CASE Refuse(t)
  <2>1. Inside(t) /\ task[t].pc # "closing"
    BY <1>1, LockedFacts DEF Refuse
  <2> QED
    BY <1>1, <2>1, LeavesRInv DEF Refuse
<1>2. CASE OpenFails(t)
  BY <1>2, LeavesRInv DEF OpenFails, Inside, Calling
<1> QED
  BY <1>1, <1>2

-----------------------------------------------------------------------------
\* add

LEMMA AddPrebuiltRInv == ASSUME RInv, NEW t \in Tasks, AddPrebuilt(t) PROVE RInv'
<1> DEFINE e == [name |-> task[t].name, source |-> task[t].source,
                 transport |-> task[t].source, analyzer |-> task[t].source]
<1>1. Inside(t) /\ task[t].pc # "closing" /\ Locked(t, "add") /\ task[t].op = "add"
  BY LockedFacts DEF AddPrebuilt
<1>2. AdminTypeOK' /\ LockHeld' /\ CallShape'
  BY <1>1, LeaveFacts DEF AddPrebuilt, RInv
<1>3. task[t].name \in Names /\ task[t].source \in Prebuilt /\ ~closed /\ task[t].name \notin Registered
  BY <1>1, LockedFacts DEF AddPrebuilt, AddRefused, RInv, CallShape, Shape
<1>4. /\ e \in DeviceEntries /\ e.name \notin Registered
      /\ e.source = task[t].source /\ e.transport = task[t].source
  BY <1>3 DEF DeviceEntries, Sources
<1>5. devices' = Append(devices, e) /\ UNCHANGED <<ports, closed, opened, fresh>>
  BY DEF AddPrebuilt
<1>6. e.source \notin Keys
  BY <1>3, <1>4, ManagerAssumption
<1> HIDE DEF e
<1>7. devices' \in Seq(DeviceEntries) /\ UniqueNames' /\ Entries' = Entries \cup {e}
  BY <1>4, <1>5, EntryAdded DEF RInv
<1>8. Tracked'
  BY <1>1, <1>5, InTable DEF Tracked
<1>9. Counted'
  BY <1>5, <1>6, <1>7 DEF RInv, Counted, Refs
<1>10. DevicesWired'
  BY <1>4, <1>5, <1>6, <1>7 DEF RInv, DevicesWired, Wired, Keys
<1> QED
  BY <1>2, <1>3, <1>5, <1>7, <1>8, <1>9, <1>10
  DEF RInv, RegistryTypeOK, PortsWired, Wired, CloseLeavesOnlyOrphans

\* What the port table and the registry are after a device was built, or was
\* not, on the entry of its port.
Built(t, entry, id) == Register(t, entry, id) \/ BuildFails(t, entry)

LEMMA BuiltFacts ==
  ASSUME RInv, NEW t \in Tasks, NEW id \in Nat, NEW entry \in PortEntries,
         Built(t, entry, id), task[t].name \in Names, task[t].name \notin Registered,
         task[t].source \in Keys, Wired(task[t].source, entry.transport),
         entry.refs = Refs(task[t].source),
         ports[task[t].source] = None \/ ports[task[t].source].transport = entry.transport
  PROVE  /\ devices' \in Seq(DeviceEntries)
         /\ ports' \in [Keys -> PortEntries \cup {None}]
         /\ UniqueNames' /\ Counted' /\ DevicesWired'
         /\ \A k \in Keys \ {task[t].source} : ports'[k] = ports[k]
         /\ ports'[task[t].source] # None
         /\ ports'[task[t].source].transport = entry.transport
<1> DEFINE n == task[t].name
           s == task[t].source
           e == [name |-> n, source |-> s, transport |-> entry.transport,
                 analyzer |-> <<n, id>>]
           counting == [entry EXCEPT !.refs = @ \cup {n}]
<1>1. /\ e \in DeviceEntries /\ e.name = n /\ e.source = s
      /\ e.transport = entry.transport
  BY DEF DeviceEntries, PortEntries, Sources, Keys
<1>2. /\ counting \in PortEntries /\ counting.refs = entry.refs \cup {n}
      /\ counting.transport = entry.transport
  BY DEF PortEntries
<1>3. None \notin PortEntries
  BY ManagerAssumption
<1>4. CASE Register(t, entry, id)
  <2>1. devices' = Append(devices, e) /\ ports' = [ports EXCEPT ![s] = counting]
    BY <1>4 DEF Register
  <2> HIDE DEF e, counting, n, s
  <2>2. devices' \in Seq(DeviceEntries) /\ UniqueNames' /\ Entries' = Entries \cup {e}
    BY <1>1, <2>1, EntryAdded DEF RInv, n
  <2>3. /\ ports' \in [Keys -> PortEntries \cup {None}]
        /\ \A k \in Keys \ {s} : ports'[k] = ports[k]
        /\ ports'[s] = counting
    BY <1>2, <2>1 DEF RInv, RegistryTypeOK, s
  <2>4. Counted'
    <3> SUFFICES ASSUME NEW k \in Keys, NEW m
                 PROVE  m \in Refs(k)' <=> \E d \in Entries' : d.name = m /\ d.source = k
      BY DEF Counted
    <3>1. m \in Refs(k) <=> \E d \in Entries : d.name = m /\ d.source = k
      BY DEF RInv, Counted
    <3>2. CASE k = s
      <4>1. Refs(k)' = Refs(k) \cup {n}
        BY <3>2, <1>2, <1>3, <2>3 DEF Refs, s
      <4> QED
        BY <3>1, <3>2, <4>1, <2>2, <1>1
    <3>3. CASE k # s
      <4>1. Refs(k)' = Refs(k)
        BY <3>3, <2>3 DEF Refs
      <4> QED
        BY <3>1, <3>3, <4>1, <2>2, <1>1
    <3> QED
      BY <3>2, <3>3
  <2>5. DevicesWired'
    <3> SUFFICES ASSUME NEW d \in Entries'
                 PROVE  /\ Wired(d.source, d.transport)
                        /\ d.source \in Paths => d.transport = ports'[d.source].transport
      BY DEF DevicesWired, Wired
    <3>1. CASE d = e
      BY <3>1, <1>1, <1>2, <2>3 DEF s
    <3>2. CASE d \in Entries
      <4>1. /\ Wired(d.source, d.transport)
            /\ d.source \in Paths => d.transport = ports[d.source].transport
        BY <3>2 DEF RInv, DevicesWired
      <4>2. d.source \in Keys => d.name \in Refs(d.source)
        BY <3>2 DEF RInv, Counted
      <4>3. d.source \in Paths /\ d.source = s => ports'[s].transport = ports[s].transport
        BY <4>2, <1>2, <2>3 DEF Refs, Keys, s
      <4> QED
        BY <4>1, <4>3, <2>3 DEF Keys
    <3> QED
      BY <3>1, <3>2, <2>2
  <2> QED
    BY <2>2, <2>3, <2>4, <2>5, <1>2, <1>3 DEF s
<1>5. CASE BuildFails(t, entry)
  <2>1. devices' = devices /\ ports' = [ports EXCEPT ![s] = entry]
    BY <1>5 DEF BuildFails
  <2> HIDE DEF e, counting, n, s
  <2>2. Entries' = Entries /\ devices' \in Seq(DeviceEntries) /\ UniqueNames'
    BY <2>1 DEF Entries, RInv, RegistryTypeOK, UniqueNames
  <2>3. /\ ports' \in [Keys -> PortEntries \cup {None}]
        /\ \A k \in Keys \ {s} : ports'[k] = ports[k]
        /\ ports'[s] = entry
    BY <2>1 DEF RInv, RegistryTypeOK, s
  <2>4. Counted'
    <3>1. \A k \in Keys : Refs(k)' = Refs(k)
      BY <1>3, <2>3 DEF Refs, s
    <3> QED
      BY <3>1, <2>2 DEF RInv, Counted
  <2>5. DevicesWired'
    <3> SUFFICES ASSUME NEW d \in Entries
                 PROVE  /\ Wired(d.source, d.transport)
                        /\ d.source \in Paths => d.transport = ports'[d.source].transport
      BY <2>2 DEF DevicesWired, Wired
    <3>1. /\ Wired(d.source, d.transport)
          /\ d.source \in Paths => d.transport = ports[d.source].transport
      BY DEF RInv, DevicesWired
    <3>2. d.source \in Keys => d.name \in Refs(d.source)
      BY DEF RInv, Counted
    <3>3. d.source \in Paths /\ d.source = s => ports'[s].transport = ports[s].transport
      BY <3>2, <2>3 DEF Refs, Keys, s
    <3> QED
      BY <3>1, <3>3, <2>3 DEF Keys
  <2> QED
    BY <2>2, <2>3, <2>4, <2>5, <1>3 DEF s
<1> QED
  BY <1>4, <1>5 DEF Built

LEMMA AddToPortRInv == ASSUME RInv, NEW t \in Tasks, AddToPort(t) PROVE RInv'
<1> DEFINE s == task[t].source
           entry == ports[s]
<1>1. Inside(t) /\ task[t].pc = "waiting" /\ Locked(t, "add") /\ task[t].op = "add"
  BY LockedFacts DEF AddToPort
<1>2. AdminTypeOK' /\ LockHeld' /\ CallShape'
  BY <1>1, LeaveFacts DEF AddToPort, RInv
<1>3. task[t].name \in Names /\ s \in Keys /\ ~closed /\ task[t].name \notin Registered
  BY <1>1 DEF AddToPort, AddRefused, RInv, CallShape, Shape
<1>4. entry # None /\ entry \in PortEntries /\ entry.refs = Refs(s) /\ Wired(s, entry.transport)
  BY <1>3 DEF AddToPort, RInv, RegistryTypeOK, PortsWired, Refs
<1>5. fresh' \in Nat /\ Built(t, entry, fresh') /\ UNCHANGED <<closed, opened>>
  BY DEF AddToPort, Built, RInv, RegistryTypeOK
<1> HIDE DEF entry, s
<1>6. /\ devices' \in Seq(DeviceEntries)
      /\ ports' \in [Keys -> PortEntries \cup {None}]
      /\ UniqueNames' /\ Counted' /\ DevicesWired'
      /\ \A k \in Keys \ {s} : ports'[k] = ports[k]
      /\ ports'[s] # None
      /\ ports'[s].transport = ports[s].transport
  BY <1>3, <1>4, <1>5, BuiltFacts DEF s, entry
<1>7. PortsWired'
  BY <1>4, <1>5, <1>6 DEF RInv, PortsWired, Wired, entry
<1>8. Tracked'
  BY <1>1, <1>5, <1>6, InTable DEF Tracked, Keys
<1> QED
  BY <1>2, <1>3, <1>5, <1>6, <1>7, <1>8 DEF RInv, RegistryTypeOK, CloseLeavesOnlyOrphans

LEMMA AddOpensRInv == ASSUME RInv, NEW t \in Tasks, AddOpens(t) PROVE RInv'
<1> DEFINE r == [task[t] EXCEPT !.pc = "opening"]
<1>1. Inside(t) /\ task[t].pc = "waiting" /\ Locked(t, "add") /\ task[t].op = "add"
  BY LockedFacts DEF AddOpens
<1>2. /\ task[t].name \notin Registered /\ task[t].source \in Keys /\ ~closed
      /\ ports[task[t].source] = None /\ task[t].protocol # Continuous
  BY ManagerAssumption DEF AddOpens, AddRefused
<1>3. task' = [task EXCEPT ![t] = r] /\ state_lock' = t /\ UNCHANGED registry
  BY DEF AddOpens
<1>4. /\ r \in [pc : {"opening"}, op : {None, "add", "remove", "close"},
                name : Names \cup {None}, source : Sources \cup {None},
                protocol : Protocols \cup {None}, handle : Handles \cup {None}]
      /\ r.op = task[t].op /\ r.name = task[t].name /\ r.source = task[t].source
      /\ r.protocol = task[t].protocol /\ r.handle = task[t].handle
  BY DEF RInv, AdminTypeOK
<1>5. r.pc = "opening"
  BY <1>4
<1> HIDE DEF r
<1>6. AdminTypeOK'
  BY <1>3, <1>4 DEF RInv, AdminTypeOK, Calling
<1>7. task'[t] = r /\ \A u \in Tasks \ {t} : task'[u] = task[u] /\ task'[u].pc \in {"idle", "waiting"}
  BY <1>1, <1>3, Alone DEF RInv, AdminTypeOK
<1>8. LockHeld'
  BY <1>3, <1>5, <1>7, ManagerAssumption DEF LockHeld, Calling
<1>9. ASSUME NEW u \in Tasks PROVE Shape(u)'
  <2>1. CASE u = t
    BY <2>1, <1>1, <1>2, <1>3, <1>4, <1>5, <1>7
    DEF RInv, CallShape, Shape, Registered, registry
  <2>2. CASE u # t
    BY <2>2, <1>7 DEF RInv, CallShape, Shape
  <2> QED
    BY <2>1, <2>2
<1>10. Tracked'
  BY <1>1, <1>3, InTable DEF Tracked, registry
<1> QED
  BY <1>3, <1>6, <1>8, <1>9, <1>10
  DEF RInv, CallShape, RegistryTypeOK, UniqueNames, Counted, PortsWired, DevicesWired,
      CloseLeavesOnlyOrphans, Refs, Entries, Wired, registry

LEMMA OpenedRInv == ASSUME RInv, NEW t \in Tasks, Opened(t) PROVE RInv'
<1> DEFINE s == task[t].source
           transport == IF s \in Paths THEN <<s, fresh'>> ELSE s
           entry == [transport |-> transport, lock |-> fresh',
                     protocol |-> task[t].protocol, refs |-> {}]
<1>1. Inside(t) /\ task[t].pc = "opening"
  BY DEF Opened, Inside, Calling
<1>2. AdminTypeOK' /\ LockHeld' /\ CallShape'
  BY <1>1, LeaveFacts DEF Opened, RInv
<1>3. /\ task[t].name \in Names /\ s \in Keys /\ ~closed /\ task[t].name \notin Registered
      /\ ports[s] = None /\ task[t].protocol \in Protocols \ {Continuous}
  BY <1>1 DEF RInv, CallShape, Shape
<1>4. fresh' \in Nat \ {0} /\ closed' = closed
  BY DEF Opened, RInv, RegistryTypeOK
<1>5. /\ Wired(s, transport) /\ transport \in Transports \cup Handles
      /\ s \in Paths => transport \in Handles /\ transport[1] = s
  BY <1>3, <1>4 DEF Wired, Handles, Keys
<1>6. /\ opened' = IF s \in Paths THEN opened \cup {transport} ELSE opened
      /\ Built(t, entry, fresh')
  BY DEF Opened, Built
<1> HIDE DEF transport
<1>7. /\ entry \in PortEntries /\ entry.transport = transport /\ entry.refs = {}
  BY <1>3, <1>4, <1>5 DEF PortEntries
<1>8. Refs(s) = {}
  BY <1>3 DEF Refs
<1> HIDE DEF entry, s
<1>9. /\ devices' \in Seq(DeviceEntries)
      /\ ports' \in [Keys -> PortEntries \cup {None}]
      /\ UniqueNames' /\ Counted' /\ DevicesWired'
      /\ \A k \in Keys \ {s} : ports'[k] = ports[k]
      /\ ports'[s] # None
      /\ ports'[s].transport = transport
  BY <1>3, <1>4, <1>5, <1>6, <1>7, <1>8, BuiltFacts DEF s
<1>10. PortsWired'
  BY <1>5, <1>6, <1>9 DEF RInv, PortsWired, Wired
<1>11. Tracked'
  BY <1>1, <1>3, <1>5, <1>6, <1>9, InTable DEF Tracked, Keys
<1>12. opened' \subseteq Handles
  BY <1>5, <1>6 DEF RInv, RegistryTypeOK
<1> QED
  BY <1>2, <1>3, <1>4, <1>9, <1>10, <1>11, <1>12 DEF RInv, RegistryTypeOK, CloseLeavesOnlyOrphans
-----------------------------------------------------------------------------
\* remove and close

LEMMA RemoveDeviceRInv == ASSUME RInv, NEW t \in Tasks, RemoveDevice(t) PROVE RInv'
<1>1. Inside(t) /\ task[t].pc = "waiting" /\ task[t].op = "remove" /\ ~closed
  BY LockedFacts DEF RemoveDevice
<1>2. PICK i, n, s :
        /\ i \in DOMAIN devices
        /\ n = devices[i].name /\ s = devices[i].source
        /\ devices' = Seqs!RemoveAt(devices, i)
        /\ ports' = IF s \in Keys /\ ports[s] # None
                      THEN [ports EXCEPT ![s] = Released(ports[s], {n})]
                      ELSE ports
        /\ IF LastHandle(s, n) = None
             THEN Leave(t)
             ELSE AwaitClose(t, LastHandle(s, n))
        /\ UNCHANGED <<closed, opened, fresh>>
  BY DEF RemoveDevice
<1> DEFINE less == [ports[s] EXCEPT !.refs = @ \ {n}]
           last == ports[s].refs \subseteq {n}
<1>3. /\ devices[i] \in Entries /\ devices[i] \in DeviceEntries
      /\ n \in Names /\ s \in Sources
      /\ \A d \in Entries : d.name = n => d = devices[i]
  BY <1>2, EntryFacts DEF RInv, Entries, DeviceEntries, UniqueNames
<1>4. devices' \in Seq(DeviceEntries) /\ UniqueNames' /\ Entries' = Entries \ {devices[i]}
  BY <1>2, EntryRemoved DEF RInv
<1>5. s \in Keys => ports[s] \in PortEntries /\ ports[s] # None /\ n \in ports[s].refs
  <2>1. s \in Keys => n \in Refs(s)
    BY <1>2, <1>3 DEF RInv, Counted
  <2>2. s \in Keys => ports[s] \in PortEntries \cup {None}
    BY DEF RInv, RegistryTypeOK
  <2> QED
    BY <2>1, <2>2 DEF Refs
<1>6. s \in Keys => /\ less \in PortEntries /\ less.refs = ports[s].refs \ {n}
                    /\ less.transport = ports[s].transport
  BY <1>5 DEF PortEntries
<1>7. None \notin PortEntries /\ None \notin Handles
  BY ManagerAssumption
<1>8. /\ s \in Keys => ports' = [ports EXCEPT ![s] = IF last THEN None ELSE less]
      /\ s \notin Keys => ports' = ports
  <2>1. Released(ports[s], {n}) = IF last THEN None ELSE less
    BY DEF Released
  <2> HIDE DEF last, less
  <2> QED
    BY <1>2, <1>5, <2>1
<1>9. /\ s \in Paths /\ last => /\ LastHandle(s, n) = ports[s].transport
                               /\ ports[s].transport \in Handles /\ ports[s].transport[1] = s
                               /\ ports[s].transport \in opened
      /\ ~(s \in Paths /\ last) => LastHandle(s, n) = None
  BY <1>5 DEF LastHandle, RInv, PortsWired, Wired, Keys
<1> HIDE DEF less, last
<1>10. /\ ports' \in [Keys -> PortEntries \cup {None}]
       /\ \A k \in Keys \ {s} : ports'[k] = ports[k]
       /\ s \in Keys => ports'[s] = IF last THEN None ELSE less
  BY <1>6, <1>8 DEF RInv, RegistryTypeOK
<1>11. Counted'
  <2> SUFFICES ASSUME NEW k \in Keys, NEW m
               PROVE  m \in Refs(k)' <=> \E d \in Entries' : d.name = m /\ d.source = k
    BY DEF Counted
  <2>1. m \in Refs(k) <=> \E d \in Entries : d.name = m /\ d.source = k
    BY DEF RInv, Counted
  <2>2. CASE k = s
    <3>1. Refs(k)' = Refs(k) \ {n}
      BY <2>2, <1>5, <1>6, <1>7, <1>10 DEF Refs, last
    <3> QED
      BY <2>1, <2>2, <3>1, <1>2, <1>3, <1>4
  <2>3. CASE k # s
    <3>1. Refs(k)' = Refs(k)
      BY <2>3, <1>10 DEF Refs
    <3> QED
      BY <2>1, <2>3, <3>1, <1>2, <1>4
  <2> QED
    BY <2>2, <2>3
<1>12. \A k \in Keys : ports'[k] # None => ports[k] # None /\ ports'[k].transport = ports[k].transport
  BY <1>5, <1>6, <1>10
<1>13. PortsWired'
  <2>1. opened' = opened
    BY <1>2
  <2> QED
    BY <2>1, <1>12 DEF RInv, PortsWired, Wired
<1>14. DevicesWired'
  <2> SUFFICES ASSUME NEW d \in Entries'
               PROVE  /\ Wired(d.source, d.transport)
                      /\ d.source \in Paths => d.transport = ports'[d.source].transport
    BY DEF DevicesWired, Wired
  <2>1. /\ Wired(d.source, d.transport)
        /\ d.source \in Paths => d.transport = ports[d.source].transport
    BY <1>4 DEF RInv, DevicesWired
  <2>2. d.source \in Keys => d.name \in Refs(d.source)'
    BY <1>11 DEF Counted
  <2>3. d.source \in Keys => ports'[d.source] # None
    BY <2>2 DEF Refs
  <2> QED
    BY <2>1, <2>3, <1>12 DEF Keys
<1>15. CASE s \in Paths /\ last
  <2>1. s \in Keys /\ ports'[s] = None
    BY <1>15, <1>10 DEF Keys
  <2> DEFINE h == ports[s].transport
  <2>2. AwaitClose(t, h)
    BY <1>2, <1>7, <1>9, <1>15
  <2>3. /\ AdminTypeOK' /\ LockHeld' /\ CallShape'
        /\ task'[t].pc = "closing" /\ task'[t].handle = h
    BY <2>1, <2>2, <1>1, <1>2, <1>9, <1>15, AwaitFacts DEF RInv
  <2>4. Tracked'
    <3> SUFFICES ASSUME NEW g \in opened
                 PROVE  \/ ports'[g[1]] # None /\ ports'[g[1]].transport = g
                        \/ task'[t].handle = g
      BY <1>2, <2>3 DEF Tracked
    <3>1. g[1] \in Paths /\ ports[g[1]] # None /\ ports[g[1]].transport = g
      BY <1>1, InTable
    <3> QED
      BY <3>1, <2>3, <1>10 DEF Keys
  <2> QED
    BY <2>3, <2>4, <1>1, <1>2, <1>4, <1>10, <1>11, <1>13, <1>14
    DEF RInv, RegistryTypeOK, CloseLeavesOnlyOrphans
<1>16. CASE ~(s \in Paths /\ last)
  <2>1. Leave(t)
    BY <1>2, <1>9, <1>16
  <2>2. AdminTypeOK' /\ LockHeld' /\ CallShape'
    BY <2>1, <1>1, LeaveFacts DEF RInv
  <2>3. Tracked'
    <3> SUFFICES ASSUME NEW g \in opened
                 PROVE  ports'[g[1]] # None /\ ports'[g[1]].transport = g
      BY <1>2 DEF Tracked
    <3>1. g[1] \in Paths /\ ports[g[1]] # None /\ ports[g[1]].transport = g
      BY <1>1, InTable
    <3> QED
      BY <3>1, <1>6, <1>7, <1>10, <1>16 DEF Keys
  <2> QED
    BY <2>2, <2>3, <1>1, <1>2, <1>4, <1>10, <1>11, <1>13, <1>14
    DEF RInv, RegistryTypeOK, CloseLeavesOnlyOrphans
<1> QED
  BY <1>15, <1>16

LEMMA Lowest ==
  ASSUME NEW S \in SUBSET Nat, S # {}
  PROVE  \E m \in S : \A k \in S : m <= k
<1>1. PICK m \in S : \A k \in S : <<k, m>> \notin OpToRel(<, Nat)
  BY WFMin, NatLessThanWellFounded, Zenon
<1>2. \A k \in S : ~(k < m)
  BY <1>1, Zenon DEF OpToRel
<1> QED
  BY <1>2

\* The first device of a path that has one is the last to be torn down there.
LEMMA FirstOnPath ==
  ASSUME RegistryTypeOK, NEW j \in DOMAIN devices, devices[j].source \in Paths
  PROVE  \E m \in LastOfPort : devices[m].source = devices[j].source /\ m <= j
<1> DEFINE S == {k \in 1..Len(devices) : devices[k].source = devices[j].source}
<1>1. S \in SUBSET Nat /\ j \in S
  BY EntryFacts
<1>2. PICK m \in S : \A k \in S : m <= k
  BY <1>1, Lowest
<1>3. m \in LastOfPort
  BY <1>2, EntryFacts DEF LastOfPort
<1> QED
  BY <1>1, <1>2, <1>3

LEMMA MaxLast ==
  ASSUME RegistryTypeOK, LastOfPort # {}
  PROVE  /\ Max(LastOfPort) \in LastOfPort
         /\ \A j \in LastOfPort : j <= Max(LastOfPort)
<1> DEFINE len == Len(devices)
           S == {len - j : j \in LastOfPort}
<1>1. len \in Nat /\ \A j \in LastOfPort : j \in 1..len
  BY EntryFacts DEF LastOfPort
<1> HIDE DEF len
<1>2. S \in SUBSET Nat /\ S # {}
  BY <1>1
<1>3. PICK m \in S : \A k \in S : m <= k
  BY <1>2, Lowest
<1>4. PICK i \in LastOfPort : m = len - i
  BY <1>3
<1>5. \A j \in LastOfPort : i >= j
  BY <1>1, <1>3, <1>4
<1>6. /\ Max(LastOfPort) \in LastOfPort
      /\ \A j \in LastOfPort : Max(LastOfPort) >= j
  BY <1>4, <1>5 DEF Max
<1> QED
  BY <1>1, <1>6

LEMMA CloseNextRInv == ASSUME RInv, NEW t \in Tasks, CloseNext(t) PROVE RInv'
<1>1. /\ Inside(t) /\ task[t].pc # "closing" /\ task[t].op = "close" /\ ~closed
      /\ opened' = opened /\ fresh' = fresh
  BY LockedFacts DEF CloseNext
<1> DEFINE len == Len(devices)
<1>2. len \in Nat /\ DOMAIN devices = 1..len
  BY EntryFacts DEF RInv
<1> HIDE DEF len
\* What tearing down the devices from i on does to the registry.
<1>3. ASSUME NEW i \in 1..(len + 1), devices' = SubSeq(devices, 1, i - 1), Teardown(i)
      PROVE  /\ devices' \in Seq(DeviceEntries)
             /\ ports' \in [Keys -> PortEntries \cup {None}]
             /\ UniqueNames' /\ Counted' /\ PortsWired' /\ DevicesWired'
             /\ Entries' = {devices[j] : j \in 1..(i - 1)}
             /\ \A k \in Keys : ports'[k] # None =>
                  ports[k] # None /\ ports'[k].transport = ports[k].transport
             /\ \A k \in Keys : Refs(k)' = {} /\ Refs(k) # {} => ports'[k] = None
             /\ \A k \in Keys : ports[k] # None /\ ports'[k] = None =>
                  Refs(k) # {} /\ Refs(k)' = {}
  <2> DEFINE gone == {devices[j].name : j \in {j \in DOMAIN devices : j >= i}}
             less(k) == [ports[k] EXCEPT !.refs = @ \ gone]
  <2>1. /\ devices' \in Seq(DeviceEntries) /\ UniqueNames'
        /\ Entries' = {devices[j] : j \in 1..(i - 1)}
    BY <1>3, FrontKept DEF RInv, len
  <2>2. ports' = [k \in Keys |->
          IF ports[k] = None \/ ports[k].refs \cap gone = {} THEN ports[k]
          ELSE IF ports[k].refs \subseteq gone THEN None
          ELSE less(k)]
    BY <1>3 DEF Teardown, Released
  <2>3. None \notin PortEntries
    BY ManagerAssumption
  <2>4. ASSUME NEW k \in Keys, ports[k] # None
        PROVE  /\ ports[k] \in PortEntries /\ less(k) \in PortEntries
               /\ less(k).refs = ports[k].refs \ gone
               /\ less(k).transport = ports[k].transport
    <3>1. ports[k] \in PortEntries
      BY <2>4 DEF RInv, RegistryTypeOK
    <3> HIDE DEF gone
    <3> QED
      BY <3>1 DEF PortEntries
  <2>5. \A j \in 1..len : devices[j].name \in gone <=> j >= i
    BY <1>2 DEF RInv, UniqueNames
  <2> HIDE DEF gone, less
  <2>0. Entries = {devices[j] : j \in 1..len}
    BY <1>2 DEF Entries
  <2>6. \A d \in Entries : d \in Entries' <=> d.name \notin gone
    BY <1>2, <2>0, <2>1, <2>5
  <2>7. Entries' \subseteq Entries
    BY <1>2, <2>0, <2>1
  <2>8. ports' \in [Keys -> PortEntries \cup {None}]
    BY <2>2, <2>4 DEF RInv, RegistryTypeOK
  <2>9. \A k \in Keys : Refs(k)' = Refs(k) \ gone
    <3> SUFFICES ASSUME NEW k \in Keys PROVE Refs(k)' = Refs(k) \ gone
      OBVIOUS
    <3>1. CASE ports[k] = None
      BY <3>1, <2>2 DEF Refs
    <3>2. CASE ports[k] # None
      BY <3>2, <2>2, <2>3, <2>4 DEF Refs
    <3> QED
      BY <3>1, <3>2
  <2>10. Counted'
    <3> SUFFICES ASSUME NEW k \in Keys, NEW m
                 PROVE  m \in Refs(k)' <=> \E d \in Entries' : d.name = m /\ d.source = k
      BY DEF Counted
    <3>1. m \in Refs(k) <=> \E d \in Entries : d.name = m /\ d.source = k
      BY DEF RInv, Counted
    <3> QED
      BY <3>1, <2>6, <2>7, <2>9
  <2>11. \A k \in Keys : ports'[k] # None =>
           ports[k] # None /\ ports'[k].transport = ports[k].transport
    BY <2>2, <2>4
  <2>12. PortsWired'
    BY <1>1, <2>11 DEF RInv, PortsWired, Wired
  <2>13. DevicesWired'
    <3> SUFFICES ASSUME NEW d \in Entries'
                 PROVE  /\ Wired(d.source, d.transport)
                        /\ d.source \in Paths => d.transport = ports'[d.source].transport
      BY DEF DevicesWired, Wired
    <3>1. /\ Wired(d.source, d.transport)
          /\ d.source \in Paths => d.transport = ports[d.source].transport
      BY <2>7 DEF RInv, DevicesWired
    <3>2. d.source \in Keys => d.name \in Refs(d.source)'
      BY <2>10 DEF Counted
    <3>3. d.source \in Keys => ports'[d.source] # None
      BY <3>2 DEF Refs
    <3> QED
      BY <3>1, <3>3, <2>11 DEF Keys
  <2>14. \A k \in Keys : Refs(k)' = {} /\ Refs(k) # {} => ports'[k] = None
    <3> SUFFICES ASSUME NEW k \in Keys, Refs(k)' = {}, Refs(k) # {} PROVE ports'[k] = None
      OBVIOUS
    <3>1. Refs(k) \subseteq gone /\ ports[k] # None /\ Refs(k) = ports[k].refs
      BY <2>9 DEF Refs
    <3> QED
      BY <3>1, <2>2
  <2>15. \A k \in Keys : ports[k] # None /\ ports'[k] = None => Refs(k) # {} /\ Refs(k)' = {}
    <3> SUFFICES ASSUME NEW k \in Keys, ports[k] # None, ports'[k] = None
                 PROVE  Refs(k) # {} /\ Refs(k)' = {}
      OBVIOUS
    <3>1. ports[k].refs \cap gone # {}
      BY <2>2
    <3> QED
      BY <3>1 DEF Refs
  <2> QED
    BY <2>1, <2>8, <2>10, <2>11, <2>12, <2>13, <2>14, <2>15
<1>4. CASE LastOfPort = {}
  <2>1. devices' = <<>> /\ Teardown(1) /\ closed' = TRUE /\ Leave(t)
    BY <1>4 DEF CloseNext
  <2>2. devices' = SubSeq(devices, 1, 1 - 1)
    BY <2>1, <1>2, SubSeqEmpty DEF RInv, RegistryTypeOK
  <2>3. 1 \in 1..(len + 1)
    BY <1>2
  <2>4. /\ devices' \in Seq(DeviceEntries)
        /\ ports' \in [Keys -> PortEntries \cup {None}]
        /\ UniqueNames' /\ Counted' /\ PortsWired' /\ DevicesWired'
        /\ \A k \in Keys : ports'[k] # None =>
             ports[k] # None /\ ports'[k].transport = ports[k].transport
        /\ \A k \in Keys : ports[k] # None /\ ports'[k] = None => Refs(k) # {}
        /\ Entries' = {}
    BY <2>1, <2>2, <2>3, <1>3
  <2>5. \A d \in Entries : d.source \notin Paths
    BY <1>4, FirstOnPath DEF Entries, RInv
  <2>6. \A k \in Paths : Refs(k) = {}
    BY <2>5 DEF RInv, Counted, Keys
  <2>7. ASSUME NEW h \in opened
        PROVE  /\ ports'[h[1]] # None /\ ports'[h[1]].transport = h
               /\ ports'[h[1]].refs = {}
    <3>1. h[1] \in Paths /\ ports[h[1]] # None /\ ports[h[1]].transport = h
      BY <1>1, InTable
    <3>2. ports'[h[1]] # None
      BY <3>1, <2>4, <2>6 DEF Keys
    <3>3. Refs(h[1])' = {}
      BY <3>1, <2>4 DEF Counted, Keys
    <3> QED
      BY <3>1, <3>2, <3>3, <2>4 DEF Refs, Keys
  <2>8. AdminTypeOK' /\ LockHeld' /\ CallShape'
    BY <2>1, <1>1, LeaveFacts DEF RInv
  <2> QED
    BY <1>1, <2>1, <2>4, <2>7, <2>8 DEF RInv, RegistryTypeOK, Tracked, CloseLeavesOnlyOrphans
<1>5. CASE LastOfPort # {}
  <2> PICK i, k, h : i = Max(LastOfPort) /\ k = devices[i].source /\ h = devices[i].transport
    OBVIOUS
  <2>1. /\ devices' = SubSeq(devices, 1, i - 1) /\ Teardown(i)
        /\ AwaitClose(t, h) /\ closed' = closed
    BY <1>5 DEF CloseNext
  <2>2. /\ i \in LastOfPort /\ \A j \in LastOfPort : j <= i
        /\ i \in 1..len /\ k \in Paths /\ \A j \in 1..(i - 1) : devices[j].source # k
    BY <1>2, <1>5, MaxLast DEF RInv, LastOfPort
  <2>3. devices[i] \in Entries
    BY <1>2, <2>2 DEF Entries
  <2>4. h = ports[k].transport /\ h \in Handles /\ h[1] = k
    BY <2>2, <2>3 DEF RInv, DevicesWired, Wired
  <2>5. devices[i].name \in Refs(k)
    BY <2>2, <2>3 DEF RInv, Counted, Keys
  <2>6. ports[k] # None /\ h \in opened
    BY <2>2, <2>4, <2>5 DEF Refs, RInv, PortsWired, Keys
  <2>7. /\ devices' \in Seq(DeviceEntries)
        /\ ports' \in [Keys -> PortEntries \cup {None}]
        /\ UniqueNames' /\ Counted' /\ PortsWired' /\ DevicesWired'
        /\ Entries' = {devices[j] : j \in 1..(i - 1)}
        /\ \A s \in Keys : ports'[s] # None =>
             ports[s] # None /\ ports'[s].transport = ports[s].transport
        /\ \A s \in Keys : Refs(s)' = {} /\ Refs(s) # {} => ports'[s] = None
        /\ \A s \in Keys : ports[s] # None /\ ports'[s] = None =>
             Refs(s) # {} /\ Refs(s)' = {}
    BY <2>1, <2>2, <1>2, <1>3
  <2>8. Refs(k)' = {}
    BY <2>2, <2>7 DEF Counted, Keys
  <2>9. ports'[k] = None
    BY <2>2, <2>5, <2>7, <2>8 DEF Keys
  <2>10. /\ AdminTypeOK' /\ LockHeld' /\ CallShape'
         /\ task'[t].pc = "closing" /\ task'[t].handle = h
    BY <2>1, <2>4, <2>6, <2>9, <1>1, AwaitFacts DEF RInv
  \* A path that loses its last device has its first one at i.
  <2>11. ASSUME NEW s \in Paths, Refs(s) # {}, Refs(s)' = {} PROVE s = k
    <3>1. PICK j \in 1..len : devices[j].source = s
      BY <2>11, <1>2 DEF RInv, Counted, Keys, Entries
    <3>2. PICK m \in LastOfPort : devices[m].source = s /\ m <= j
      BY <3>1, <1>2, FirstOnPath DEF RInv
    <3>3. m \in 1..len /\ m <= i
      BY <3>2, <2>2, <1>2 DEF LastOfPort
    <3>4. m \notin 1..(i - 1)
      <4>1. SUFFICES ASSUME m \in 1..(i - 1) PROVE FALSE
        OBVIOUS
      <4>2. devices[m] \in Entries'
        BY <4>1, <2>7
      <4>3. devices[m].name \in Refs(s)'
        BY <4>2, <3>2, <2>7 DEF Counted, Keys
      <4> QED
        BY <4>3, <2>11
    <3>5. m = i
      BY <3>3, <3>4, <2>2, <1>2
    <3> QED
      BY <3>2, <3>5
  <2>12. Tracked'
    <3> SUFFICES ASSUME NEW g \in opened
                 PROVE  \/ ports'[g[1]] # None /\ ports'[g[1]].transport = g
                        \/ g = h
      BY <1>1, <2>10 DEF Tracked
    <3>1. g[1] \in Paths /\ ports[g[1]] # None /\ ports[g[1]].transport = g
      BY <1>1, InTable
    <3>2. CASE ports'[g[1]] = None
      <4>1. g[1] = k
        BY <3>1, <3>2, <2>7, <2>11 DEF Keys
      <4> QED
        BY <4>1, <3>1, <2>4
    <3>3. CASE ports'[g[1]] # None
      BY <3>1, <3>3, <2>7 DEF Keys
    <3> QED
      BY <3>2, <3>3
  <2> QED
    BY <1>1, <2>1, <2>7, <2>10, <2>12 DEF RInv, RegistryTypeOK, CloseLeavesOnlyOrphans
<1> QED
  BY <1>4, <1>5

LEMMA ClosedRInv ==
  ASSUME RInv, NEW t \in Tasks, Closed(t) \/ (CallCancelled(t) /\ task[t].pc = "closing")
  PROVE  RInv'
<1> PICK h : h = task[t].handle
  OBVIOUS
<1>1. /\ Inside(t) /\ task[t].pc = "closing" /\ opened' = opened \ {h}
      /\ UNCHANGED <<devices, ports, closed, fresh>>
  BY DEF Closed, CallCancelled, Inside, Calling
<1>2. /\ task[t].op \in {"remove", "close"} /\ ~closed
      /\ h \in opened /\ h \in Handles /\ ports[h[1]] = None
  BY <1>1 DEF RInv, CallShape, Shape, RegistryTypeOK
<1>3. \A u \in Tasks \ {t} : task[u].pc \in {"idle", "waiting"}
  BY <1>1, Alone DEF RInv
<1>4. PortsWired' /\ DevicesWired'
  BY <1>1, <1>2 DEF RInv, PortsWired, DevicesWired, Entries, Wired
<1>5. Tracked'
  BY <1>1, <1>3 DEF RInv, Tracked
<1>6. AdminTypeOK' /\ LockHeld' /\ CallShape'
  <2>1. CASE Leave(t)
    BY <2>1, <1>1, LeaveFacts DEF RInv
  <2>2. CASE CallCancelled(t)
    <3>1. Leave(t)
      BY <1>1, <2>2 DEF CallCancelled, Leave
    <3> QED
      BY <3>1, <1>1, LeaveFacts DEF RInv
  <2>3. CASE Closed(t) /\ ~Leave(t)
    <3> DEFINE r == [task[t] EXCEPT !.pc = "locked", !.handle = None]
    <3>1. task' = [task EXCEPT ![t] = r] /\ state_lock' = state_lock /\ task[t].op # "remove"
      BY <2>3 DEF Closed
    <3>2. /\ r \in [pc : {"locked"}, op : {None, "add", "remove", "close"},
                    name : Names \cup {None}, source : Sources \cup {None},
                    protocol : Protocols \cup {None}, handle : {None}]
          /\ r.op = task[t].op
      BY DEF RInv, AdminTypeOK
    <3>3. r.pc = "locked" /\ r.handle = None
      BY <3>2
    <3> HIDE DEF r
    <3>4. AdminTypeOK'
      BY <3>1, <3>2 DEF RInv, AdminTypeOK, Calling
    <3>5. task'[t] = r /\ \A u \in Tasks \ {t} : task'[u] = task[u]
      BY <3>1 DEF RInv, AdminTypeOK
    <3>6. LockHeld'
      BY <1>1, <3>1, <3>3, <3>5 DEF RInv, LockHeld, Calling
    <3>7. ASSUME NEW u \in Tasks PROVE Shape(u)'
      <4>1. CASE u = t
        BY <4>1, <1>1, <1>2, <3>1, <3>2, <3>3, <3>5 DEF Shape
      <4>2. CASE u # t
        BY <4>2, <1>1, <1>3, <3>5 DEF RInv, CallShape, Shape
      <4> QED
        BY <4>1, <4>2
    <3> QED
      BY <3>4, <3>6, <3>7 DEF CallShape
  <2> QED
    BY <2>1, <2>2, <2>3
<1>7. RegistryTypeOK' /\ UniqueNames' /\ Counted'
  BY <1>1 DEF RInv, RegistryTypeOK, UniqueNames, Counted, Refs, Entries
<1> QED
  BY <1>1, <1>2, <1>4, <1>5, <1>6, <1>7 DEF RInv, CloseLeavesOnlyOrphans

\* A call that is cancelled while it waits for the lock.
LEMMA WaiterCancelledRInv ==
  ASSUME RInv, NEW t \in Tasks, CallCancelled(t), task[t].pc = "waiting"
  PROVE  RInv'
<1>1. /\ task' = [task EXCEPT ![t] = Idle] /\ state_lock' = state_lock
      /\ opened' = opened \ {task[t].handle}
      /\ UNCHANGED <<devices, ports, closed, fresh>>
  BY DEF CallCancelled
<1>2. opened' = opened
  <2>1. task[t].handle = None /\ None \notin opened
    BY ManagerAssumption DEF RInv, CallShape, Shape, RegistryTypeOK
  <2> QED
    BY <1>1, <2>1
<1>3. AdminTypeOK' /\ task'[t] = Idle /\ \A u \in Tasks \ {t} : task'[u] = task[u]
  BY <1>1 DEF RInv, AdminTypeOK, Idle
<1>4. LockHeld'
  BY <1>1, <1>3 DEF RInv, LockHeld, Idle, Calling
<1>5. ASSUME NEW u \in Tasks PROVE Shape(u)'
  <2>1. CASE u = t
    BY <2>1, <1>3 DEF Shape, Idle
  <2>2. CASE u # t
    BY <2>2, <1>1, <1>2, <1>3 DEF RInv, CallShape, Shape, Registered
  <2> QED
    BY <2>1, <2>2
<1>6. Tracked'
  BY <1>1, <1>2, <1>3 DEF RInv, Tracked
<1>7. RegistryTypeOK' /\ UniqueNames' /\ Counted' /\ PortsWired' /\ DevicesWired'
  BY <1>1, <1>2 DEF RInv, RegistryTypeOK, UniqueNames, Counted, Refs, Entries,
     PortsWired, DevicesWired, Wired
<1> QED
  BY <1>1, <1>2, <1>3, <1>4, <1>5, <1>6, <1>7 DEF RInv, CallShape, CloseLeavesOnlyOrphans

LEMMA AdminRInv ==
  ASSUME RInv, NEW t \in Tasks, Call(t) \/ Step(t) \/ CallCancelled(t)
  PROVE  RInv'
<1>1. CASE Step(t)
  BY <1>1, RefuseRInv, AddPrebuiltRInv, AddToPortRInv, AddOpensRInv, OpenedRInv,
     RemoveDeviceRInv, CloseNextRInv, ClosedRInv DEF Step
<1>2. CASE CallCancelled(t)
  BY <1>2, ClosedRInv, WaiterCancelledRInv DEF CallCancelled
<1> QED
  BY <1>1, <1>2, CallRInv

LEMMA AdminFrame ==
  ASSUME NEW t \in Tasks, Call(t) \/ Step(t) \/ CallCancelled(t)
  PROVE  UNCHANGED <<polls, direct>>
<1>1. CASE Call(t)
  BY <1>1 DEF Call, Add, Remove, Close, Calls
<1>2. CASE Step(t)
  BY <1>2 DEF Step, Refuse, AddPrebuilt, AddToPort, AddOpens, Opened, OpenFails,
     RemoveDevice, CloseNext, Closed
<1>3. CASE CallCancelled(t)
  BY <1>3 DEF CallCancelled
<1> QED
  BY <1>1, <1>2, <1>3
-----------------------------------------------------------------------------
\* Polls and direct calls

LEMMA PollsFrame == ASSUME PInv, UNCHANGED <<polls, direct>> PROVE PInv'
<1>1. UNCHANGED <<poller, groups, wanted, direct>>
  BY DEF polls
<1> QED
  BY <1>1 DEF PInv, PollsTypeOK, LocksApart, GroupsApart, UsersApart, CallsWired,
     InPort, InCall, DirectIO, Group, Wired

\* The entry of a registered name.
LEMMA DeviceFacts ==
  ASSUME RInv, NEW n \in Registered
  PROVE  /\ Device(n) \in Entries /\ Device(n).name = n
         /\ Device(n) \in DeviceEntries /\ Wired(Device(n).source, Device(n).transport)
<1>1. \E i \in DOMAIN devices : devices[i].name = n
  BY DEF Registered
<1>2. Device(n) \in Entries /\ Device(n).name = n
  BY <1>1 DEF Device, Entries
<1> QED
  BY <1>2, EntryFacts DEF RInv, DevicesWired

\* One group changes: it may enter its port only when nobody is inside, and an
\* analyser only when nobody calls it.
LEMMA GroupSet ==
  ASSUME PInv, NEW p \in Pollers, NEW k \in DOMAIN groups[p], NEW g, NEW T,
         g \in [pc : {"spawned", "waiting", "session", "io", "done"}, lock : Nat,
                dev : DeviceEntries \cup {None}, todo : {T}],
         SetGroup(p, k, g), direct' = direct, wanted' = wanted,
         poller' \in [Pollers -> {"idle", "running", "raising", "cancelling"}],
         g.pc \in {"session", "io"} =>
           /\ g.dev # None /\ Wired(g.dev.source, g.dev.transport)
           /\ \/ Group(p, k).pc \in {"session", "io"} /\ g.lock = Group(p, k).lock
              \/ PortLockFree(g.lock),
         g.pc = "io" => SessionFree(g.dev.analyzer)
  PROVE  PInv'
<1>1. /\ DOMAIN groups' = Pollers
      /\ \A q \in Pollers \ {p} : groups'[q] = groups[q]
      /\ DOMAIN groups'[p] = DOMAIN groups[p]
      /\ groups'[p][k] = g
      /\ \A l \in DOMAIN groups[p] \ {k} : groups'[p][l] = groups[p][l]
  BY DEF SetGroup, PInv, PollsTypeOK
<1>2. k \in GroupKeys /\ \A q \in Pollers : DOMAIN groups[q] \subseteq GroupKeys
  BY DEF PInv, PollsTypeOK
<1>3. ASSUME NEW q \in Pollers, NEW l \in GroupKeys, <<q, l>> # <<p, k>>
      PROVE  /\ l \in DOMAIN groups'[q] <=> l \in DOMAIN groups[q]
             /\ l \in DOMAIN groups[q] => groups'[q][l] = groups[q][l]
  BY <1>1, <1>3
<1>4. PollsTypeOK'
  <2>1. g.todo = T
    OBVIOUS
  <2>2. ASSUME NEW q \in Pollers, NEW l \in DOMAIN groups'[q]
        PROVE  /\ groups'[q][l] \in
                    [pc : {"spawned", "waiting", "session", "io", "done"}, lock : Nat,
                     dev : DeviceEntries \cup {None}, todo : {groups'[q][l].todo}]
               /\ groups'[q][l].pc \in {"session", "io"} => groups'[q][l].dev # None
    <3>1. CASE q = p /\ l = k
      BY <3>1, <1>1, <2>1
    <3>2. CASE ~(q = p /\ l = k)
      <4>1. l \in DOMAIN groups[q] /\ groups'[q][l] = groups[q][l]
        BY <3>2, <1>1
      <4> QED
        BY <4>1 DEF PInv, PollsTypeOK, Group
    <3> QED
      BY <3>1, <3>2
  <2>3. \A q \in Pollers : DOMAIN groups'[q] \subseteq GroupKeys
    BY <1>1, <1>2
  <2> QED
    BY <1>1, <2>2, <2>3 DEF PInv, PollsTypeOK, Group
<1>5. ASSUME g.pc \in {"session", "io"},
             NEW q \in Pollers, NEW l \in GroupKeys, <<q, l>> # <<p, k>>, InPort(q, l),
             g.lock = Group(q, l).lock, g.lock # Unshared
      PROVE  FALSE
  <2>1. CASE PortLockFree(g.lock)
    BY <2>1, <1>5 DEF PortLockFree, InPort
  <2>2. CASE Group(p, k).pc \in {"session", "io"} /\ g.lock = Group(p, k).lock
    <3>1. LocksApart
      BY DEF PInv
    <3>2. q # p \/ l # k
      BY <1>5
    <3>3. InPort(p, k)
      BY <2>2 DEF InPort
    <3> QED
      BY <3>1, <3>2, <3>3, <2>2, <1>2, <1>5 DEF LocksApart
  <2> QED
    BY <2>1, <2>2, <1>5
<1>6. LocksApart'
  <2> SUFFICES ASSUME NEW q \in Pollers, NEW r \in Pollers, NEW l \in GroupKeys, NEW m \in GroupKeys,
                      InPort(q, l)', InPort(r, m)',
                      groups'[q][l].lock = groups'[r][m].lock, groups'[q][l].lock # Unshared
               PROVE  q = r /\ l = m
    BY DEF LocksApart, Group
  <2>1. CASE <<q, l>> = <<p, k>> /\ <<r, m>> # <<p, k>>
    BY <2>1, <1>1, <1>3, <1>5 DEF InPort, Group
  <2>2. CASE <<q, l>> # <<p, k>> /\ <<r, m>> = <<p, k>>
    BY <2>2, <1>1, <1>3, <1>5 DEF InPort, Group
  <2>3. CASE <<q, l>> # <<p, k>> /\ <<r, m>> # <<p, k>>
    BY <2>3, <1>3 DEF InPort, Group, PInv, LocksApart
  <2> QED
    BY <2>1, <2>2, <2>3
<1>7. ASSUME g.pc = "io", NEW q \in Pollers, NEW l \in GroupKeys, InCall(q, l)
      PROVE  g.dev.analyzer # Group(q, l).dev.analyzer
  <2>1. <<q, l>> \in InAnalyzer
    BY <1>7 DEF InAnalyzer, InCall
  <2> QED
    BY <2>1, <1>7 DEF SessionFree
<1>8. GroupsApart'
  <2> SUFFICES ASSUME NEW q \in Pollers, NEW r \in Pollers, NEW l \in GroupKeys, NEW m \in GroupKeys,
                      InCall(q, l)', InCall(r, m)',
                      groups'[q][l].dev.analyzer = groups'[r][m].dev.analyzer
               PROVE  q = r /\ l = m
    BY DEF GroupsApart, Group
  <2>1. CASE <<q, l>> = <<p, k>> /\ <<r, m>> # <<p, k>>
    BY <2>1, <1>1, <1>3, <1>7 DEF InCall, Group
  <2>2. CASE <<q, l>> # <<p, k>> /\ <<r, m>> = <<p, k>>
    BY <2>2, <1>1, <1>3, <1>7 DEF InCall, Group
  <2>3. CASE <<q, l>> # <<p, k>> /\ <<r, m>> # <<p, k>>
    BY <2>3, <1>3 DEF InCall, Group, PInv, GroupsApart
  <2> QED
    BY <2>1, <2>2, <2>3
<1>9. UsersApart'
  <2>1. DirectIO' = DirectIO
    BY DEF DirectIO
  <2>2. ASSUME NEW u \in DirectIO, NEW q \in Pollers, NEW l \in GroupKeys, InCall(q, l)'
        PROVE  direct[u].analyzer # groups'[q][l].dev.analyzer
    <3>1. CASE <<q, l>> = <<p, k>>
      BY <3>1, <2>2, <1>1 DEF InCall, Group, SessionFree
    <3>2. CASE <<q, l>> # <<p, k>>
      BY <3>2, <2>2, <1>3 DEF InCall, Group, PInv, UsersApart
    <3> QED
      BY <3>1, <3>2
  <2> QED
    BY <2>1, <2>2 DEF PInv, UsersApart, Group
<1>10. CallsWired'
  <2>1. ASSUME NEW q \in Pollers, NEW l \in GroupKeys, InPort(q, l)'
        PROVE  Wired(groups'[q][l].dev.source, groups'[q][l].dev.transport)
    <3>1. CASE <<q, l>> = <<p, k>>
      BY <3>1, <2>1, <1>1 DEF InPort, Group
    <3>2. CASE <<q, l>> # <<p, k>>
      BY <3>2, <2>1, <1>3 DEF InPort, Group, PInv, CallsWired
    <3> QED
      BY <3>1, <3>2
  <2> QED
    BY <2>1 DEF PInv, CallsWired, DirectIO, Group, Wired
<1> QED
  BY <1>4, <1>6, <1>8, <1>9, <1>10 DEF PInv

\* A group that changes nothing but its place, out of the port or within it.
LEMMA GroupStays ==
  ASSUME PInv, NEW p \in Pollers, NEW k \in DOMAIN groups[p]
  PROVE  /\ Group(p, k) \in
              [pc : {"spawned", "waiting", "session", "io", "done"}, lock : Nat,
               dev : DeviceEntries \cup {None}, todo : {Group(p, k).todo}]
         /\ Group(p, k).pc \in {"session", "io"} =>
              /\ Group(p, k).dev # None
              /\ Wired(Group(p, k).dev.source, Group(p, k).dev.transport)
BY DEF PInv, PollsTypeOK, CallsWired, InPort

LEMMA EndedFacts ==
  /\ Ended \in [pc : {"spawned", "waiting", "session", "io", "done"}, lock : Nat,
                dev : DeviceEntries \cup {None}, todo : {<<>>}]
  /\ Ended.pc = "done" /\ Ended.todo = <<>> /\ Ended.todo \in Seq(Names)
BY DEF Ended, Unshared

LEMMA StartGroupPInv ==
  ASSUME RInv, PInv, NEW p \in Pollers, NEW k \in GroupKeys, StartGroup(p, k)
  PROVE  PInv'
<1> DEFINE lock == IF k \in Keys /\ ports[k] # None THEN ports[k].lock ELSE Unshared
           g == [Group(p, k) EXCEPT !.pc = "waiting", !.lock = lock]
<1>1. /\ k \in DOMAIN groups[p] /\ SetGroup(p, k, g) /\ UNCHANGED <<direct, wanted, poller>>
  BY DEF StartGroup, InGroup
<1>2. lock \in Nat
  BY DEF RInv, RegistryTypeOK, PortEntries, Unshared
<1> HIDE DEF lock
<1>3. /\ g \in [pc : {"waiting"}, lock : Nat,
                dev : DeviceEntries \cup {None}, todo : {Group(p, k).todo}]
  <2>1. Group(p, k) \in
              [pc : {"spawned", "waiting", "session", "io", "done"}, lock : Nat,
               dev : DeviceEntries \cup {None}, todo : {Group(p, k).todo}]
    BY <1>1, GroupStays
  <2> QED
    BY <1>2, <2>1
<1> HIDE DEF g
<1>4. /\ g \in [pc : {"spawned", "waiting", "session", "io", "done"}, lock : Nat,
                dev : DeviceEntries \cup {None}, todo : {Group(p, k).todo}]
      /\ g.pc = "waiting"
  BY <1>3
<1>5. poller' \in [Pollers -> {"idle", "running", "raising", "cancelling"}]
  BY <1>1 DEF PInv, PollsTypeOK
<1> QED
  BY <1>1, <1>4, <1>5, GroupSet

\* The next member, or the end of the group, with the port's lock in hand.
LEMMA GoOnPInv ==
  ASSUME RInv, PInv, NEW p \in Pollers, NEW k \in DOMAIN groups[p], NEW rest,
         GoOn(p, k, rest), direct' = direct, wanted' = wanted,
         \/ Group(p, k).pc \in {"session", "io"}
         \/ PortLockFree(Group(p, k).lock)
  PROVE  PInv'
<1> DEFINE g == [Group(p, k) EXCEPT !.todo = rest, !.dev = None]
           next == [g EXCEPT !.pc = "session", !.dev = Device(Head(rest))]
<1>1. /\ g \in [pc : {"spawned", "waiting", "session", "io", "done"}, lock : Nat,
                dev : {None}, todo : {rest}]
      /\ g.lock = Group(p, k).lock
  BY GroupStays
<1> HIDE DEF g
<1>2. /\ next \in [pc : {"session"}, lock : Nat, dev : {Device(Head(rest))}, todo : {rest}]
      /\ next.lock = Group(p, k).lock
  BY <1>1
<1>3. \/ SetGroup(p, k, Ended) /\ poller' \in {poller, [poller EXCEPT ![p] = "raising"]}
      \/ SetGroup(p, k, next) /\ poller' = poller /\ Head(rest) \in Registered
  BY DEF GoOn, g
<1> HIDE DEF next
<1>4. poller' \in [Pollers -> {"idle", "running", "raising", "cancelling"}]
  BY <1>3 DEF PInv, PollsTypeOK
<1>5. CASE SetGroup(p, k, Ended)
  BY <1>4, <1>5, EndedFacts, GroupSet
<1>6. CASE SetGroup(p, k, next) /\ Head(rest) \in Registered
  <2>1. /\ Device(Head(rest)) \in DeviceEntries
        /\ Wired(Device(Head(rest)).source, Device(Head(rest)).transport)
    BY <1>6, DeviceFacts
  <2>2. /\ next \in [pc : {"spawned", "waiting", "session", "io", "done"}, lock : Nat,
                     dev : DeviceEntries \cup {None}, todo : {rest}]
        /\ next.pc = "session" /\ next.dev = Device(Head(rest))
    BY <1>2, <2>1
  <2>3. next.dev # None
    BY <2>1, <2>2, ManagerAssumption
  <2> QED
    BY <1>2, <1>4, <1>6, <2>1, <2>2, <2>3, GroupSet
<1> QED
  BY <1>3, <1>5, <1>6

LEMMA TakeSessionPInv ==
  ASSUME PInv, NEW p \in Pollers, NEW k \in GroupKeys, TakeSession(p, k)
  PROVE  PInv'
<1> DEFINE g == [Group(p, k) EXCEPT !.pc = "io"]
<1>1. /\ k \in DOMAIN groups[p] /\ SetGroup(p, k, g) /\ UNCHANGED <<direct, wanted, poller>>
      /\ Group(p, k).pc = "session" /\ SessionFree(Group(p, k).dev.analyzer)
  BY DEF TakeSession, InGroup
<1>2. /\ g \in [pc : {"io"}, lock : Nat, dev : DeviceEntries \cup {None},
                todo : {Group(p, k).todo}]
      /\ g.lock = Group(p, k).lock /\ g.dev = Group(p, k).dev
  BY <1>1, GroupStays
<1>3. Group(p, k).dev # None /\ Wired(Group(p, k).dev.source, Group(p, k).dev.transport)
  BY <1>1, GroupStays
<1> HIDE DEF g
<1>4. /\ g \in [pc : {"spawned", "waiting", "session", "io", "done"}, lock : Nat,
                dev : DeviceEntries \cup {None}, todo : {Group(p, k).todo}]
      /\ g.pc = "io"
  BY <1>2
<1>5. poller' \in [Pollers -> {"idle", "running", "raising", "cancelling"}]
  BY <1>1 DEF PInv, PollsTypeOK
<1> QED
  BY <1>1, <1>2, <1>3, <1>4, <1>5, GroupSet

LEMMA GroupCancelledPInv ==
  ASSUME PInv, NEW p \in Pollers, NEW k \in GroupKeys, GroupCancelled(p, k)
  PROVE  PInv'
<1>1. /\ k \in DOMAIN groups[p] /\ SetGroup(p, k, Ended) /\ UNCHANGED <<direct, wanted, poller>>
  BY DEF GroupCancelled
<1>2. poller' \in [Pollers -> {"idle", "running", "raising", "cancelling"}]
  BY <1>1 DEF PInv, PollsTypeOK
<1> QED
  BY <1>1, <1>2, EndedFacts, GroupSet

\* A poll starts or ends: none of its groups is inside a port.
LEMMA GroupsReset ==
  ASSUME PInv, NEW p \in Pollers, NEW new, groups' = [groups EXCEPT ![p] = new],
         DOMAIN new \subseteq GroupKeys,
         \A k \in DOMAIN new :
           /\ new[k] \in [pc : {"spawned"}, lock : Nat, dev : {None}, todo : {new[k].todo}],
         direct' = direct, wanted' \in [Pollers -> SUBSET Names],
         poller' \in [Pollers -> {"idle", "running", "raising", "cancelling"}]
  PROVE  PInv'
<1>1. /\ DOMAIN groups' = Pollers /\ groups'[p] = new
      /\ \A q \in Pollers \ {p} : groups'[q] = groups[q]
  BY DEF PInv, PollsTypeOK
<1>2. ASSUME NEW q \in Pollers, NEW k \in GroupKeys, InPort(q, k)'
      PROVE  q # p /\ InPort(q, k) /\ groups'[q][k] = groups[q][k]
  BY <1>1, <1>2 DEF InPort, Group
<1>3. ASSUME NEW q \in Pollers, NEW k \in GroupKeys, InCall(q, k)'
      PROVE  q # p /\ InCall(q, k) /\ groups'[q][k] = groups[q][k]
  BY <1>1, <1>3 DEF InCall, Group
<1>4. PollsTypeOK'
  <2>1. \A q \in Pollers : DOMAIN groups'[q] \subseteq GroupKeys
    BY <1>1 DEF PInv, PollsTypeOK
  <2>2. ASSUME NEW q \in Pollers, NEW k \in DOMAIN groups'[q]
        PROVE  /\ groups'[q][k] \in
                    [pc : {"spawned", "waiting", "session", "io", "done"}, lock : Nat,
                     dev : DeviceEntries \cup {None}, todo : {groups'[q][k].todo}]
               /\ groups'[q][k].pc \in {"session", "io"} => groups'[q][k].dev # None
    <3>1. CASE q = p
      BY <3>1, <1>1
    <3>2. CASE q # p
      BY <3>2, <1>1 DEF PInv, PollsTypeOK, Group
    <3> QED
      BY <3>1, <3>2
  <2> QED
    BY <1>1, <2>1, <2>2 DEF PInv, PollsTypeOK, Group
<1>5. LocksApart'
  BY <1>2 DEF PInv, LocksApart, Group
<1>6. GroupsApart'
  BY <1>3 DEF PInv, GroupsApart, Group
<1>7. UsersApart'
  BY <1>3 DEF PInv, UsersApart, DirectIO, Group
<1>8. CallsWired'
  BY <1>2 DEF PInv, CallsWired, DirectIO, Group, Wired
<1> QED
  BY <1>4, <1>5, <1>6, <1>7, <1>8 DEF PInv

LEMMA PollPInv ==
  ASSUME RInv, PInv, NEW p \in Pollers, NEW names \in SUBSET Names, Poll(p, names)
  PROVE  PInv'
<1> DEFINE keys == {GroupKey(Device(n)) : n \in names}
<1>1. PICK todo :
        /\ names \subseteq Registered
        /\ groups' = [groups EXCEPT ![p] =
             [k \in keys |-> [pc |-> "spawned", lock |-> Unshared, dev |-> None,
                              todo |-> todo[k]]]]
        /\ poller' = [poller EXCEPT ![p] = "running"]
        /\ wanted' = [wanted EXCEPT ![p] = names] /\ direct' = direct
  BY DEF Poll
<1> DEFINE new == [k \in keys |-> [pc |-> "spawned", lock |-> Unshared, dev |-> None,
                                   todo |-> todo[k]]]
<1>2. keys \subseteq GroupKeys
  <2> SUFFICES ASSUME NEW n \in names PROVE GroupKey(Device(n)) \in GroupKeys
    OBVIOUS
  <2>1. Device(n) \in DeviceEntries
    BY <1>1, DeviceFacts
  <2> QED
    BY <2>1 DEF GroupKey, GroupKeys, DeviceEntries, Sources, Keys
<1> HIDE DEF keys
<1>3. DOMAIN new \subseteq GroupKeys
  BY <1>2
<1>4. \A k \in DOMAIN new :
        new[k] \in [pc : {"spawned"}, lock : Nat, dev : {None}, todo : {new[k].todo}]
  BY DEF Unshared
<1>5. groups' = [groups EXCEPT ![p] = new]
  BY <1>1
<1> HIDE DEF new
<1>6. /\ wanted' \in [Pollers -> SUBSET Names]
      /\ poller' \in [Pollers -> {"idle", "running", "raising", "cancelling"}]
  BY <1>1 DEF PInv, PollsTypeOK
<1> QED
  BY <1>1, <1>3, <1>4, <1>5, <1>6, GroupsReset

LEMMA JoinPInv == ASSUME PInv, NEW p \in Pollers, Join(p) PROVE PInv'
<1>1. /\ groups' = [groups EXCEPT ![p] = <<>>] /\ direct' = direct
      /\ poller' = [poller EXCEPT ![p] = "idle"] /\ wanted' = [wanted EXCEPT ![p] = {}]
  BY DEF Join
<1>2. DOMAIN << >> = {}
  OBVIOUS
<1>3. /\ wanted' \in [Pollers -> SUBSET Names]
      /\ poller' \in [Pollers -> {"idle", "running", "raising", "cancelling"}]
  BY <1>1 DEF PInv, PollsTypeOK
<1> QED
  BY <1>1, <1>2, <1>3, GroupsReset

LEMMA PollCancelledPInv == ASSUME PInv, NEW p \in Pollers, PollCancelled(p) PROVE PInv'
BY DEF PollCancelled, PInv, PollsTypeOK, LocksApart, GroupsApart, UsersApart, CallsWired,
   InPort, InCall, DirectIO, Group, Wired

LEMMA PortPInv ==
  ASSUME RInv, PInv, NEW p \in Pollers, NEW k \in GroupKeys,
         TakePortLock(p, k) \/ MemberDone(p, k)
  PROVE  PInv'
<1>1. CASE TakePortLock(p, k)
  <2>1. /\ k \in DOMAIN groups[p] /\ PortLockFree(Group(p, k).lock)
        /\ GoOn(p, k, Group(p, k).todo) /\ UNCHANGED <<direct, wanted>>
    BY <1>1 DEF TakePortLock, InGroup
  <2> QED
    BY <2>1, GoOnPInv
<1>2. CASE MemberDone(p, k)
  <2>1. /\ k \in DOMAIN groups[p] /\ Group(p, k).pc = "io"
        /\ GoOn(p, k, Tail(Group(p, k).todo)) /\ UNCHANGED <<direct, wanted>>
    BY <1>2 DEF MemberDone, InGroup
  <2> QED
    BY <2>1, GoOnPInv
<1> QED
  BY <1>1, <1>2

LEMMA DirectPInv ==
  ASSUME RInv, PInv, NEW u \in Users, (\E n \in Names : DirectCall(u, n)) \/ DirectDone(u)
  PROVE  PInv'
<1>1. None \notin DeviceEntries
  BY ManagerAssumption
<1>2. CASE DirectDone(u)
  <2>1. direct' = [direct EXCEPT ![u] = None] /\ UNCHANGED <<poller, groups, wanted>>
    BY <1>2 DEF DirectDone, polls
  <2>2. /\ DirectIO' \subseteq DirectIO /\ \A v \in DirectIO' : direct'[v] = direct[v]
        /\ direct' \in [Users -> DeviceEntries \cup {None}]
    BY <2>1 DEF DirectIO, PInv, PollsTypeOK
  <2> QED
    BY <2>1, <2>2 DEF PInv, PollsTypeOK, LocksApart, GroupsApart, UsersApart, CallsWired,
       InPort, InCall, Group, Wired
<1>3. ASSUME NEW n \in Names, DirectCall(u, n) PROVE PInv'
  <2>1. /\ direct' = [direct EXCEPT ![u] = Device(n)] /\ UNCHANGED <<poller, groups, wanted>>
        /\ n \in Registered /\ SessionFree(Device(n).analyzer)
    BY <1>3 DEF DirectCall, polls
  <2>2. Device(n) \in DeviceEntries /\ Wired(Device(n).source, Device(n).transport)
    BY <2>1, DeviceFacts
  <2> PICK d : d = Device(n)
    OBVIOUS
  <2>3. /\ direct' \in [Users -> DeviceEntries \cup {None}]
        /\ direct'[u] = d /\ DirectIO' \subseteq DirectIO \cup {u}
        /\ \A v \in DirectIO' \ {u} : v \in DirectIO /\ direct'[v] = direct[v]
    BY <2>1, <2>2 DEF DirectIO, PInv, PollsTypeOK
  <2>4. PollsTypeOK' /\ LocksApart' /\ GroupsApart'
    BY <2>1, <2>3 DEF PInv, PollsTypeOK, LocksApart, GroupsApart, InPort, InCall, Group
  <2>5. \A v \in DirectIO : direct[v].analyzer # d.analyzer
    BY <2>1 DEF SessionFree
  <2>6. ASSUME NEW p \in Pollers, NEW k \in GroupKeys, InCall(p, k)
        PROVE  Group(p, k).dev.analyzer # d.analyzer
    <3>1. <<p, k>> \in InAnalyzer
      BY <2>6 DEF InAnalyzer, InCall
    <3> QED
      BY <3>1, <2>1 DEF SessionFree
  <2>7. UsersApart'
    BY <2>1, <2>3, <2>5, <2>6 DEF PInv, UsersApart, InCall, Group
  <2>8. CallsWired'
    BY <2>1, <2>2, <2>3 DEF PInv, CallsWired, InPort, Group, Wired
  <2> QED
    BY <2>4, <2>7, <2>8 DEF PInv
<1> QED
  BY <1>2, <1>3

-----------------------------------------------------------------------------
\* The invariant

IInv == RInv /\ PInv

LEMMA InitIInv == Init => IInv
<1> SUFFICES ASSUME Init PROVE IInv
  OBVIOUS
<1>1. /\ devices = <<>> /\ DOMAIN devices = {} /\ devices \in Seq(DeviceEntries)
  BY DEF Init
<1>2. Idle \in [pc : {"idle"}, op : {None}, name : {None}, source : {None},
                protocol : {None}, handle : {None}]
  BY DEF Idle
<1>3. RegistryTypeOK /\ AdminTypeOK
  BY <1>1, <1>2 DEF Init, RegistryTypeOK, AdminTypeOK
<1>4. Entries = {} /\ UniqueNames /\ Counted /\ DevicesWired
  BY <1>1 DEF Init, Entries, UniqueNames, Counted, DevicesWired, Refs
<1>5. LockHeld /\ CallShape
  BY ManagerAssumption DEF Init, LockHeld, CallShape, Shape, Idle, Calling
<1>6. PortsWired /\ Tracked /\ CloseLeavesOnlyOrphans
  BY DEF Init, PortsWired, Tracked, CloseLeavesOnlyOrphans
<1>7. \A p \in Pollers : DOMAIN groups[p] = {}
  BY DEF Init
<1>8. PInv
  BY <1>7 DEF Init, PInv, PollsTypeOK, LocksApart, GroupsApart, UsersApart, CallsWired,
     InPort, InCall, DirectIO
<1> QED
  BY <1>3, <1>4, <1>5, <1>6, <1>8 DEF IInv, RInv

LEMMA NextIInv == IInv /\ [Next]_vars => IInv'
<1> SUFFICES ASSUME IInv, [Next]_vars PROVE IInv'
  OBVIOUS
<1> USE DEF IInv
<1>1. ASSUME NEW t \in Tasks, Call(t) \/ Step(t) \/ CallCancelled(t) PROVE IInv'
  BY <1>1, AdminRInv, AdminFrame, PollsFrame
<1>2. ASSUME NEW p \in Pollers,
             \/ \E names \in SUBSET Names : Poll(p, names)
             \/ \E k \in GroupKeys : Acquire(p, k) \/ GroupStep(p, k)
             \/ PollCancelled(p) \/ Join(p)
      PROVE  IInv'
  <2>1. UNCHANGED <<registry, admin>>
    BY <1>2 DEF Poll, Acquire, GroupStep, TakePortLock, TakeSession, StartGroup, MemberDone,
       GroupCancelled, PollCancelled, Join
  <2>2. PInv'
    BY <1>2, PollPInv, StartGroupPInv, PortPInv, TakeSessionPInv, GroupCancelledPInv,
       PollCancelledPInv, JoinPInv DEF Acquire, GroupStep
  <2> QED
    BY <2>1, <2>2, FrameRInv
<1>3. ASSUME NEW u \in Users, (\E n \in Names : DirectCall(u, n)) \/ DirectDone(u)
      PROVE  IInv'
  <2>1. UNCHANGED <<registry, admin>>
    BY <1>3 DEF DirectCall, DirectDone
  <2> QED
    BY <1>3, <2>1, FrameRInv, DirectPInv
<1>4. CASE UNCHANGED vars
  BY <1>4, FrameRInv, PollsFrame DEF vars
<1> QED
  BY <1>1, <1>2, <1>3, <1>4 DEF Next

LEMMA Invariance == Spec => []IInv
<1> QED
  BY InitIInv, NextIInv, PTL DEF Spec

-----------------------------------------------------------------------------
\* Theorems

\* Whatever administrative calls, polls and direct calls are interleaved, the
\* manager's tables hold what their names say.
THEOREM TypeCorrect == Spec => []TypeOK
<1>1. IInv => TypeOK
  BY DEF IInv, RInv, PInv, RegistryTypeOK, AdminTypeOK, PollsTypeOK, TypeOK
<1> QED
  BY <1>1, Invariance, PTL

\* The reference counts of manager.py:236 and 464 are the devices on the port.
THEOREM RefsAreDevices == Spec => []RefsMatchDevices
<1>1. IInv => RefsMatchDevices
  <2> SUFFICES ASSUME IInv, NEW k \in Keys
               PROVE  {n \in Registered : Device(n).source = k} = Refs(k)
    BY DEF IInv, RInv, UniqueNames, RefsMatchDevices, Refs
  <2>1. ASSUME NEW n \in Registered PROVE n \in Refs(k) <=> Device(n).source = k
    <3>1. Device(n) \in Entries /\ Device(n).name = n
      BY DeviceFacts DEF IInv
    <3>2. \A d \in Entries : d.name = n => d = Device(n)
      BY <3>1 DEF IInv, RInv, UniqueNames, Entries
    <3> QED
      BY <3>1, <3>2 DEF IInv, RInv, Counted
  <2>2. \A n \in Refs(k) : n \in Registered
    BY EntryFacts DEF IInv, RInv, Counted
  <2> QED
    BY <2>1, <2>2
<1> QED
  BY <1>1, Invariance, PTL

\* A port is open exactly as long as a device or a close under way needs it:
\* no call of another task closes it under a device, and close leaves only
\* ports that never had one.
THEOREM OpenPortsMatch == Spec => []OpenMatchesRegistry
<1>1. IInv => OpenMatchesRegistry
  <2> SUFFICES ASSUME IInv PROVE OpenMatchesRegistry
    OBVIOUS
  <2>1. \A h1, h2 \in opened : h1[1] = h2[1] => h1 = h2
    <3>1. \A t, u \in Tasks : task[t].pc = "closing" /\ task[u].pc = "closing" => t = u
      BY DEF IInv, RInv, LockHeld, Calling
    <3>2. \A t \in Tasks : task[t].pc = "closing" => ports[task[t].handle[1]] = None
      BY DEF IInv, RInv, CallShape, Shape
    <3> QED
      BY <3>1, <3>2 DEF IInv, RInv, Tracked
  <2>2. RegisteredIsOpen
    <3> SUFFICES ASSUME NEW i \in DOMAIN devices, devices[i].source \in Paths
                 PROVE  devices[i].transport \in opened
      BY DEF RegisteredIsOpen
    <3>1. devices[i] \in Entries
      BY DEF Entries
    <3>2. /\ devices[i].transport = ports[devices[i].source].transport
          /\ devices[i].name \in Refs(devices[i].source)
      BY <3>1 DEF IInv, RInv, DevicesWired, Counted, Keys
    <3> QED
      BY <3>2 DEF IInv, RInv, PortsWired, Refs, Keys
  <2> QED
    BY <2>1, <2>2 DEF IInv, RInv, Tracked, OpenMatchesRegistry, OpenedIsTracked
<1> QED
  BY <1>1, Invariance, PTL

\* How far the port lock of manager.py:121-122 goes, for every number of polls
\* and users: two calls on one transport are never on one analyser, and one of
\* them is made outside the polls or under a lock its port no longer has.
THEOREM LockGoesThisFar == Spec => []SharedOnlyIfStale
<1>1. IInv => SharedOnlyIfStale
  <2> SUFFICES ASSUME IInv, NEW a \in InAnalyzer \cup DirectIO, NEW b \in InAnalyzer \cup DirectIO,
                      a # b, CallDevice(a).transport = CallDevice(b).transport
               PROVE  /\ CallDevice(a).analyzer # CallDevice(b).analyzer
                      /\ a \in DirectIO \/ b \in DirectIO \/ ~(HoldsItsPort(a) /\ HoldsItsPort(b))
    BY DEF SharedOnlyIfStale
  <2>1. ASSUME NEW c \in InAnalyzer
        PROVE  /\ c[1] \in Pollers /\ c[2] \in GroupKeys /\ c = <<c[1], c[2]>>
               /\ InCall(c[1], c[2]) /\ InPort(c[1], c[2])
               /\ CallDevice(c) = Group(c[1], c[2]).dev
    <3>1. c \in Pollers \X GroupKeys
      BY DEF InAnalyzer
    <3>2. c \notin Users
      BY <3>1, ManagerAssumption
    <3> QED
      BY <3>1, <3>2 DEF InAnalyzer, InCall, InPort, CallDevice
  <2>2. ASSUME NEW u \in DirectIO PROVE u \in Users /\ CallDevice(u) = direct[u]
    BY DEF DirectIO, CallDevice
  <2>3. CallDevice(a).analyzer # CallDevice(b).analyzer
    <3>1. CASE a \in InAnalyzer /\ b \in InAnalyzer
      BY <3>1, <2>1 DEF IInv, PInv, GroupsApart
    <3>2. CASE a \in DirectIO /\ b \in DirectIO
      BY <3>2, <2>2 DEF IInv, PInv, UsersApart
    <3>3. CASE a \in DirectIO /\ b \in InAnalyzer
      BY <3>3, <2>1, <2>2 DEF IInv, PInv, UsersApart
    <3>4. CASE a \in InAnalyzer /\ b \in DirectIO
      BY <3>4, <2>1, <2>2 DEF IInv, PInv, UsersApart
    <3> QED
      BY <3>1, <3>2, <3>3, <3>4
  <2>4. ASSUME a \in InAnalyzer, b \in InAnalyzer, HoldsItsPort(a), HoldsItsPort(b)
        PROVE  FALSE
    <3> DEFINE k == CallDevice(a).source
               l == CallDevice(b).source
               transport == CallDevice(a).transport
    <3>1. /\ k \in Keys /\ ports[k] # None /\ ports[k].lock = Group(a[1], a[2]).lock
          /\ l \in Keys /\ ports[l].lock = Group(b[1], b[2]).lock
      BY <2>4 DEF HoldsItsPort
    <3>2. Wired(k, transport) /\ Wired(l, transport)
      BY <2>1, <2>4 DEF IInv, PInv, CallsWired
    <3> HIDE DEF k, l, transport
    <3>3. k = l
      <4>1. Sources \cap Handles = {} /\ Keys \subseteq Sources
        BY ManagerAssumption DEF Sources, Keys
      <4>2. k \in Paths <=> l \in Paths
        BY <4>1, <3>1, <3>2 DEF Wired
      <4> QED
        BY <4>2, <3>2 DEF Wired
    <3>4. ports[k].lock \in Nat \ {0}
      BY <3>1 DEF IInv, RInv, RegistryTypeOK, PortEntries
    <3>5. a[1] = b[1] /\ a[2] = b[2]
      BY <2>1, <2>4, <3>1, <3>3, <3>4 DEF IInv, PInv, LocksApart, Unshared
    <3> QED
      BY <2>1, <2>4, <3>5
  <2> QED
    BY <2>3, <2>4
<1> QED
  BY <1>1, Invariance, PTL

-----------------------------------------------------------------------------
\* What a poll has left to do

\* A name is in the part of a group that is still to come.
Awaited(p, n) ==
  \E k \in DOMAIN groups[p] : \E i \in DOMAIN Group(p, k).todo : Group(p, k).todo[i] = n

\* Nothing that was asked for is forgotten: it has a result or is to come, as
\* long as nothing has cut the groups short.
WorkKept ==
  \A p \in Pollers :
    /\ poller[p] = "idle" => DOMAIN groups[p] = {} /\ results[p] = {} /\ wanted[p] = {}
    /\ \A k \in DOMAIN groups[p] : Group(p, k).todo \in Seq(Names)
    /\ poller[p] = "running" =>
         /\ \A k \in DOMAIN groups[p] :
              /\ Group(p, k).pc = "done" => Group(p, k).todo = <<>>
              /\ Group(p, k).pc \in {"session", "io"} => Group(p, k).todo # <<>>
         /\ \A n : n \in wanted[p] <=> n \in results[p] \/ Awaited(p, n)

WInv ==
  /\ results \in [Pollers -> SUBSET Names]
  /\ WorkKept

\* An arrangement of a finite set has all of it.
LEMMA Arranged ==
  ASSUME NEW S, IsFiniteSet(S), NEW f \in Seqs!SetToSeqs(S)
  PROVE  f \in Seq(S) /\ \A x : x \in S <=> \E i \in DOMAIN f : f[i] = x
<1>1. PICK m : m = Cardinality(S)
  OBVIOUS
<1>2. m \in Nat
  BY <1>1, FS_CardinalityType
<1>3. f \in [1..m -> S] /\ \A i, j \in 1..m : i # j => f[i] # f[j]
  <2>1. Seqs!Cardinality(S) = Cardinality(S)
    BY DEF Seqs!Cardinality, Cardinality
  <2> QED
    BY <1>1, <2>1 DEF Seqs!SetToSeqs
<1>4. f \in Injection(1..m, S)
  BY <1>3 DEF Injection, IsInjective
<1>5. IsFiniteSet(1..m) /\ Cardinality(1..m) = m
  BY <1>2, FS_Interval
<1>6. f \in Surjection(1..m, S)
  BY <1>1, <1>4, <1>5, FS_Injection
<1> QED
  BY <1>2, <1>3, <1>6 DEF Surjection

\* There are finitely many registered names.
LEMMA RegisteredFinite ==
  ASSUME RInv, NEW S \in SUBSET Registered
  PROVE  IsFiniteSet(S)
<1>1. devices \in Seq(DeviceEntries) /\ Len(devices) \in Nat /\ DOMAIN devices = 1..Len(devices)
  BY DEF RInv, RegistryTypeOK
<1>2. IsFiniteSet(1..Len(devices))
  BY <1>1, FS_Interval
<1>3. PICK f : f = [i \in 1..Len(devices) |-> devices[i].name]
  OBVIOUS
<1>4. f \in Surjection(1..Len(devices), Registered)
  BY <1>1, <1>3 DEF Surjection, Registered
<1>5. IsFiniteSet(Registered)
  BY <1>2, <1>4, FS_Surjection
<1> QED
  BY <1>5, FS_Subset

\* The groups share out what was asked for.
LEMMA PollWInv ==
  ASSUME RInv, PInv, WInv, NEW p \in Pollers, NEW names \in SUBSET Names, Poll(p, names)
  PROVE  WInv'
<1> DEFINE keys == {GroupKey(Device(n)) : n \in names}
           Members(k) == {n \in names : GroupKey(Device(n)) = k}
<1>1. PICK todo :
        /\ \A k \in keys : todo[k] \in Seqs!SetToSeqs(Members(k))
        /\ groups' = [groups EXCEPT ![p] =
             [k \in keys |-> [pc |-> "spawned", lock |-> Unshared, dev |-> None,
                              todo |-> todo[k]]]]
  BY DEF Poll
<1>2. /\ names \subseteq Registered /\ poller[p] = "idle" /\ results' = results
      /\ poller' = [poller EXCEPT ![p] = "running"]
      /\ wanted' = [wanted EXCEPT ![p] = names]
  BY DEF Poll
<1>3. ASSUME NEW k \in keys
      PROVE  /\ todo[k] \in Seq(Names)
             /\ \A n : n \in Members(k) <=> \E i \in DOMAIN todo[k] : todo[k][i] = n
  <2>1. PICK S : S = Members(k)
    OBVIOUS
  <2>2. IsFiniteSet(S) /\ S \subseteq Names /\ todo[k] \in Seqs!SetToSeqs(S)
    BY <1>1, <1>2, <2>1, RegisteredFinite
  <2>3. todo[k] \in Seq(S) /\ \A x : x \in S <=> \E i \in DOMAIN todo[k] : todo[k][i] = x
    BY <2>2, Arranged
  <2> QED
    BY <2>1, <2>2, <2>3, SeqMonotonic
<1>4. /\ DOMAIN groups'[p] = keys
      /\ \A k \in keys : groups'[p][k].todo = todo[k] /\ groups'[p][k].pc = "spawned"
      /\ \A q \in Pollers \ {p} : groups'[q] = groups[q]
  BY <1>1 DEF PInv, PollsTypeOK
<1>5. /\ poller'[p] = "running" /\ wanted'[p] = names /\ results'[p] = {}
      /\ \A q \in Pollers \ {p} : poller'[q] = poller[q] /\ wanted'[q] = wanted[q]
  BY <1>2 DEF PInv, PollsTypeOK, WInv, WorkKept
<1>6. \A n : n \in names <=> Awaited(p, n)'
  <2>1. \A n : n \in names <=> \E k \in keys : n \in Members(k)
    OBVIOUS
  <2>2. \A n : Awaited(p, n)' <=> \E k \in keys : \E i \in DOMAIN todo[k] : todo[k][i] = n
    BY <1>4 DEF Awaited, Group
  <2> HIDE DEF keys, Members
  <2> QED
    BY <1>3, <2>1, <2>2
<1>7. ASSUME NEW q \in Pollers, q # p
      PROVE  \A n : Awaited(q, n)' <=> Awaited(q, n)
  BY <1>4, <1>7 DEF Awaited, Group
<1> HIDE DEF keys, Members
<1>8. WorkKept'
  <2> SUFFICES ASSUME NEW q \in Pollers
               PROVE  /\ poller'[q] = "idle" =>
                           DOMAIN groups'[q] = {} /\ results'[q] = {} /\ wanted'[q] = {}
                      /\ \A k \in DOMAIN groups'[q] : groups'[q][k].todo \in Seq(Names)
                      /\ poller'[q] = "running" =>
                           /\ \A k \in DOMAIN groups'[q] :
                                /\ groups'[q][k].pc = "done" => groups'[q][k].todo = <<>>
                                /\ groups'[q][k].pc \in {"session", "io"} =>
                                     groups'[q][k].todo # <<>>
                           /\ \A n : n \in wanted'[q] <=> n \in results'[q] \/ Awaited(q, n)'
    BY DEF WorkKept, Group
  <2>1. CASE q = p
    BY <2>1, <1>3, <1>4, <1>5, <1>6
  <2>2. CASE q # p
    BY <2>2, <1>2, <1>4, <1>5, <1>7 DEF WInv, WorkKept, Group
  <2> QED
    BY <2>1, <2>2
<1> QED
  BY <1>2, <1>8 DEF WInv

\* One group of one poll changes.
LEMMA GroupWInv ==
  ASSUME PInv, WInv, NEW p \in Pollers, NEW k \in DOMAIN groups[p], NEW g,
         SetGroup(p, k, g), wanted' = wanted, g.todo \in Seq(Names),
         poller[p] # "idle", poller'[p] # "idle",
         \A q \in Pollers \ {p} : poller'[q] = poller[q] /\ results'[q] = results[q],
         results' \in [Pollers -> SUBSET Names],
         poller'[p] = "running" =>
           /\ poller[p] = "running"
           /\ g.pc = "done" => g.todo = <<>>
           /\ g.pc \in {"session", "io"} => g.todo # <<>>
           /\ \A n : \/ n \in results'[p]
                     \/ \E i \in DOMAIN g.todo : g.todo[i] = n
                <=> \/ n \in results[p]
                    \/ \E i \in DOMAIN Group(p, k).todo : Group(p, k).todo[i] = n
  PROVE  WInv'
<1>1. /\ DOMAIN groups'[p] = DOMAIN groups[p] /\ groups'[p][k] = g
      /\ \A q \in Pollers \ {p} : groups'[q] = groups[q]
      /\ \A l \in DOMAIN groups[p] \ {k} : groups'[p][l] = groups[p][l]
  BY DEF SetGroup, PInv, PollsTypeOK
<1>2. ASSUME NEW q \in Pollers, q # p
      PROVE  \A n : Awaited(q, n)' <=> Awaited(q, n)
  BY <1>1, <1>2 DEF Awaited, Group
<1>3. ASSUME poller'[p] = "running", NEW n
      PROVE  n \in results'[p] \/ Awaited(p, n)' <=> n \in results[p] \/ Awaited(p, n)
  <2> DEFINE Elsewhere == \E l \in DOMAIN groups[p] \ {k} : \E i \in DOMAIN groups[p][l].todo :
                            groups[p][l].todo[i] = n
             Here == \E i \in DOMAIN Group(p, k).todo : Group(p, k).todo[i] = n
             Now == \E i \in DOMAIN g.todo : g.todo[i] = n
  <2>1. Awaited(p, n) <=> Elsewhere \/ Here
    BY DEF Awaited, Group
  <2>2. Awaited(p, n)' <=> Elsewhere \/ Now
    BY <1>1 DEF Awaited, Group
  <2>3. (n \in results'[p] \/ Now) <=> (n \in results[p] \/ Here)
    BY <1>3
  <2> QED
    BY <2>1, <2>2, <2>3
<1>4. WorkKept'
  <2> SUFFICES ASSUME NEW q \in Pollers
               PROVE  /\ poller'[q] = "idle" =>
                           DOMAIN groups'[q] = {} /\ results'[q] = {} /\ wanted'[q] = {}
                      /\ \A l \in DOMAIN groups'[q] : groups'[q][l].todo \in Seq(Names)
                      /\ poller'[q] = "running" =>
                           /\ \A l \in DOMAIN groups'[q] :
                                /\ groups'[q][l].pc = "done" => groups'[q][l].todo = <<>>
                                /\ groups'[q][l].pc \in {"session", "io"} =>
                                     groups'[q][l].todo # <<>>
                           /\ \A n : n \in wanted'[q] <=> n \in results'[q] \/ Awaited(q, n)'
    BY DEF WorkKept, Group
  <2>1. CASE q # p
    BY <2>1, <1>1, <1>2 DEF WInv, WorkKept, Group
  <2>2. CASE q = p
    <3>1. \A l \in DOMAIN groups'[p] : groups'[p][l].todo \in Seq(Names)
      BY <1>1 DEF WInv, WorkKept, Group
    <3>2. ASSUME poller'[p] = "running"
          PROVE  /\ \A l \in DOMAIN groups'[p] :
                      /\ groups'[p][l].pc = "done" => groups'[p][l].todo = <<>>
                      /\ groups'[p][l].pc \in {"session", "io"} => groups'[p][l].todo # <<>>
                 /\ \A n : n \in wanted'[p] <=> n \in results'[p] \/ Awaited(p, n)'
      <4>1. poller[p] = "running"
        BY <3>2
      <4>2. \A n : n \in wanted[p] <=> n \in results[p] \/ Awaited(p, n)
        BY <4>1 DEF WInv, WorkKept
      <4>3. \A l \in DOMAIN groups'[p] :
              /\ groups'[p][l].pc = "done" => groups'[p][l].todo = <<>>
              /\ groups'[p][l].pc \in {"session", "io"} => groups'[p][l].todo # <<>>
        BY <3>2, <4>1, <1>1 DEF WInv, WorkKept, Group
      <4> QED
        BY <3>2, <4>2, <4>3, <1>3
    <3> QED
      BY <2>2, <3>1, <3>2
  <2> QED
    BY <2>1, <2>2
<1> QED
  BY <1>4 DEF WInv

LEMMA HeadTail ==
  ASSUME NEW s \in Seq(Names), s # <<>>
  PROVE  /\ Tail(s) \in Seq(Names) /\ Head(s) \in Names
         /\ \A n : (\E i \in DOMAIN s : s[i] = n)
              <=> n = Head(s) \/ \E i \in DOMAIN Tail(s) : Tail(s)[i] = n
<1>1. /\ Len(s) \in Nat \ {0} /\ DOMAIN s = 1..Len(s) /\ Head(s) = s[1]
      /\ Tail(s) \in Seq(Names) /\ DOMAIN Tail(s) = 1..(Len(s) - 1)
      /\ \A i \in 1..(Len(s) - 1) : Tail(s)[i] = s[i + 1]
  BY EmptySeq, HeadTailProperties
<1>2. ASSUME NEW n, NEW i \in DOMAIN s, s[i] = n
      PROVE  n = Head(s) \/ \E j \in DOMAIN Tail(s) : Tail(s)[j] = n
  <2>1. CASE i = 1
    BY <1>1, <1>2, <2>1
  <2>2. CASE i # 1
    <3>1. i - 1 \in 1..(Len(s) - 1) /\ (i - 1) + 1 = i
      BY <1>1, <2>2
    <3> QED
      BY <1>1, <1>2, <3>1
  <2> QED
    BY <2>1, <2>2
<1>3. ASSUME NEW n, NEW j \in DOMAIN Tail(s), Tail(s)[j] = n
      PROVE  \E i \in DOMAIN s : s[i] = n
  <2>1. j + 1 \in 1..Len(s) /\ j \in 1..(Len(s) - 1)
    BY <1>1
  <2> QED
    BY <1>1, <1>3, <2>1
<1>4. 1 \in DOMAIN s /\ Head(s) \in Names
  BY <1>1
<1> QED
  BY <1>1, <1>2, <1>3, <1>4

\* What is left of a poll bounds what can be missing.
LEMMA Asked ==
  ASSUME WInv, NEW p \in Pollers, poller[p] = "running", NEW k \in DOMAIN groups[p],
         NEW i \in DOMAIN Group(p, k).todo
  PROVE  Group(p, k).todo[i] \in wanted[p]
BY DEF WInv, WorkKept, Awaited

LEMMA PlaceWInv ==
  ASSUME PInv, WInv, NEW p \in Pollers, NEW k \in GroupKeys,
         StartGroup(p, k) \/ TakeSession(p, k) \/ GroupCancelled(p, k)
  PROVE  WInv'
<1>1. k \in DOMAIN groups[p] /\ UNCHANGED <<poller, wanted, results>>
  BY DEF StartGroup, TakeSession, GroupCancelled, InGroup
<1>2. Group(p, k).todo \in Seq(Names)
  BY <1>1 DEF WInv, WorkKept
<1>3. poller[p] # "idle"
  BY DEF StartGroup, TakeSession, GroupCancelled, InGroup
<1>4. PICK g :
        /\ SetGroup(p, k, g)
        /\ \/ g.todo = Group(p, k).todo /\ g.pc = "waiting"
           \/ g.todo = Group(p, k).todo /\ g.pc = "io" /\ Group(p, k).pc = "session"
           \/ g.todo = <<>> /\ poller[p] # "running"
  <2>1. Group(p, k) \in
              [pc : {"spawned", "waiting", "session", "io", "done"}, lock : Nat,
               dev : DeviceEntries \cup {None}, todo : {Group(p, k).todo}]
    BY <1>1, GroupStays
  <2>2. CASE StartGroup(p, k)
    <3>1. PICK lock : SetGroup(p, k, [Group(p, k) EXCEPT !.pc = "waiting", !.lock = lock])
      BY <2>2 DEF StartGroup
    <3>2. PICK g : g = [Group(p, k) EXCEPT !.pc = "waiting", !.lock = lock]
      OBVIOUS
    <3>3. g.todo = Group(p, k).todo /\ g.pc = "waiting"
      BY <2>1, <3>2
    <3> QED
      BY <3>1, <3>2, <3>3
  <2>3. CASE TakeSession(p, k)
    BY <2>1, <2>3 DEF TakeSession, InGroup
  <2>4. CASE GroupCancelled(p, k)
    BY <2>4, EndedFacts DEF GroupCancelled
  <2> QED
    BY <2>2, <2>3, <2>4
<1>5. poller[p] = "running" =>
        /\ g.pc = "done" => g.todo = <<>>
        /\ g.pc \in {"session", "io"} => g.todo # <<>>
        /\ g.todo = Group(p, k).todo
  <2>1. poller[p] = "running" /\ Group(p, k).pc = "session" => Group(p, k).todo # <<>>
    BY <1>1 DEF WInv, WorkKept
  <2> QED
    BY <1>4, <2>1
<1>6. g.todo \in Seq(Names)
  BY <1>2, <1>4, EndedFacts
<1> QED
  BY <1>1, <1>3, <1>4, <1>5, <1>6, GroupWInv DEF WInv

\* The next member, with the result of the last one or of none.
LEMMA GoOnWInv ==
  ASSUME PInv, WInv, NEW p \in Pollers, NEW k \in DOMAIN groups[p], NEW rest \in Seq(Names),
         poller[p] = "running", GoOn(p, k, rest), wanted' = wanted,
         results' \in [Pollers -> SUBSET Names],
         \A q \in Pollers \ {p} : results'[q] = results[q],
         \A n : \/ n \in results'[p]
                \/ \E i \in DOMAIN rest : rest[i] = n
           <=> \/ n \in results[p]
               \/ \E i \in DOMAIN Group(p, k).todo : Group(p, k).todo[i] = n
  PROVE  WInv'
<1> DEFINE base == [Group(p, k) EXCEPT !.todo = rest, !.dev = None]
           next == [base EXCEPT !.pc = "session", !.dev = Device(Head(rest))]
<1>1. next.pc = "session" /\ next.todo = rest
  <2>1. Group(p, k) \in
          [pc : {"spawned", "waiting", "session", "io", "done"}, lock : Nat,
           dev : DeviceEntries \cup {None}, todo : {Group(p, k).todo}]
    BY GroupStays
  <2>2. base \in [pc : {"spawned", "waiting", "session", "io", "done"}, lock : Nat,
                  dev : {None}, todo : {rest}]
    BY <2>1
  <2> HIDE DEF base
  <2> QED
    BY <2>2
<1>2. \/ SetGroup(p, k, Ended) /\ rest = <<>> /\ poller' = poller
      \/ SetGroup(p, k, next) /\ rest # <<>> /\ poller' = poller
      \/ SetGroup(p, k, Ended) /\ poller' = [poller EXCEPT ![p] = "raising"]
  BY DEF GoOn
<1> HIDE DEF next
<1>3. PICK g :
        /\ SetGroup(p, k, g) /\ g.todo \in Seq(Names)
        /\ \/ g.todo = rest /\ rest = <<>> /\ g.pc = "done" /\ poller' = poller
           \/ g.todo = rest /\ rest # <<>> /\ g.pc = "session" /\ poller' = poller
           \/ g.pc = "done" /\ poller' = [poller EXCEPT ![p] = "raising"]
  BY <1>1, <1>2, EndedFacts
<1>4. /\ poller'[p] # "idle" /\ \A q \in Pollers \ {p} : poller'[q] = poller[q]
      /\ poller'[p] = "running" =>
           /\ g.todo = rest
           /\ g.pc = "done" => g.todo = <<>>
           /\ g.pc \in {"session", "io"} => g.todo # <<>>
  BY <1>3 DEF PInv, PollsTypeOK
<1> QED
  BY <1>3, <1>4, GroupWInv

LEMMA MembersWInv ==
  ASSUME PInv, WInv, NEW p \in Pollers, NEW k \in GroupKeys,
         TakePortLock(p, k) \/ MemberDone(p, k)
  PROVE  WInv'
<1>1. CASE TakePortLock(p, k)
  <2>1. /\ k \in DOMAIN groups[p] /\ poller[p] = "running" /\ UNCHANGED <<wanted, results>>
        /\ GoOn(p, k, Group(p, k).todo)
    BY <1>1 DEF TakePortLock, InGroup
  <2>2. Group(p, k).todo \in Seq(Names) /\ results' \in [Pollers -> SUBSET Names]
    BY <2>1 DEF WInv, WorkKept
  <2> QED
    BY <2>1, <2>2, GoOnWInv
<1>2. CASE MemberDone(p, k)
  <2>1. PICK todo : todo = Group(p, k).todo
    OBVIOUS
  <2>2. /\ k \in DOMAIN groups[p] /\ poller[p] = "running" /\ wanted' = wanted
        /\ GoOn(p, k, Tail(todo)) /\ Group(p, k).pc = "io"
        /\ results' = [results EXCEPT ![p] = @ \cup {Head(todo)}]
    BY <1>2, <2>1 DEF MemberDone, InGroup
  <2>3. todo \in Seq(Names) /\ todo # <<>> /\ results \in [Pollers -> SUBSET Names]
    BY <2>1, <2>2 DEF WInv, WorkKept
  <2>4. /\ Tail(todo) \in Seq(Names) /\ Head(todo) \in Names
        /\ \A n : (\E i \in DOMAIN todo : todo[i] = n)
             <=> n = Head(todo) \/ \E i \in DOMAIN Tail(todo) : Tail(todo)[i] = n
    BY <2>3, HeadTail
  <2>5. /\ results'[p] = results[p] \cup {Head(todo)}
        /\ \A q \in Pollers \ {p} : results'[q] = results[q]
        /\ results' \in [Pollers -> SUBSET Names]
    BY <2>2, <2>3, <2>4
  <2>6. PICK rest \in Seq(Names) : rest = Tail(todo) /\ GoOn(p, k, rest)
    BY <2>2, <2>4
  <2>7. \A n : \/ n \in results'[p]
               \/ \E i \in DOMAIN rest : rest[i] = n
          <=> \/ n \in results[p]
              \/ \E i \in DOMAIN Group(p, k).todo : Group(p, k).todo[i] = n
    BY <2>1, <2>4, <2>5, <2>6
  <2> QED
    BY <2>2, <2>5, <2>6, <2>7, GoOnWInv
<1> QED
  BY <1>1, <1>2

LEMMA EndsWInv ==
  ASSUME PInv, WInv, NEW p \in Pollers, Join(p) \/ PollCancelled(p)
  PROVE  WInv'
<1>1. CASE PollCancelled(p)
  BY <1>1 DEF PollCancelled, WInv, WorkKept, Awaited, Group, PInv, PollsTypeOK
<1>2. CASE Join(p)
  <2>1. /\ groups' = [groups EXCEPT ![p] = <<>>] /\ poller' = [poller EXCEPT ![p] = "idle"]
        /\ results' = [results EXCEPT ![p] = {}] /\ wanted' = [wanted EXCEPT ![p] = {}]
    BY <1>2 DEF Join
  <2>2. /\ groups'[p] = <<>> /\ poller'[p] = "idle" /\ results'[p] = {} /\ wanted'[p] = {}
        /\ \A q \in Pollers \ {p} :
             /\ groups'[q] = groups[q] /\ poller'[q] = poller[q]
             /\ results'[q] = results[q] /\ wanted'[q] = wanted[q]
        /\ results' \in [Pollers -> SUBSET Names]
    BY <2>1 DEF PInv, PollsTypeOK, WInv
  <2>3. DOMAIN <<>> = {}
    OBVIOUS
  <2>4. WorkKept'
    BY <2>2, <2>3 DEF WInv, WorkKept, Awaited, Group
  <2> QED
    BY <2>2, <2>4 DEF WInv
<1> QED
  BY <1>1, <1>2

LEMMA FrameWInv == ASSUME WInv, UNCHANGED polls PROVE WInv'
BY DEF polls, WInv, WorkKept, Awaited, Group

LEMMA NextWInv == IInv /\ WInv /\ [Next]_vars => WInv'
<1> SUFFICES ASSUME IInv, WInv, [Next]_vars PROVE WInv'
  OBVIOUS
<1> USE DEF IInv
<1>1. ASSUME NEW p \in Pollers,
             \/ \E names \in SUBSET Names : Poll(p, names)
             \/ \E k \in GroupKeys : Acquire(p, k) \/ GroupStep(p, k)
             \/ PollCancelled(p) \/ Join(p)
      PROVE  WInv'
  BY <1>1, PollWInv, PlaceWInv, MembersWInv, EndsWInv DEF Acquire, GroupStep
<1>2. ASSUME NEW t \in Tasks, Call(t) \/ Step(t) \/ CallCancelled(t) PROVE WInv'
  BY <1>2, AdminFrame, FrameWInv
<1>3. ASSUME NEW u \in Users, (\E n \in Names : DirectCall(u, n)) \/ DirectDone(u)
      PROVE  WInv'
  BY <1>3, FrameWInv DEF DirectCall, DirectDone
<1>4. CASE UNCHANGED vars
  BY <1>4, FrameWInv DEF vars
<1> QED
  BY <1>1, <1>2, <1>3, <1>4 DEF Next

\* A step that ends a running poll is its join, and one that makes it raise
\* looks a device up.
LEMMA StepOutcome ==
  ASSUME PInv, WInv, NEW p \in Pollers, [Next]_vars, poller[p] = "running"
  PROVE  /\ poller'[p] = "idle" => Join(p)
         /\ poller'[p] = "raising" =>
              \E k \in DOMAIN groups[p] : \E i \in DOMAIN Group(p, k).todo :
                Group(p, k).todo[i] \notin Registered
<1>1. CASE UNCHANGED poller
  BY <1>1
<1>2. CASE \E q \in Pollers : \/ \E names \in SUBSET Names : Poll(q, names)
                              \/ PollCancelled(q)
  BY <1>2 DEF Poll, PollCancelled, PInv, PollsTypeOK
<1>3. CASE \E q \in Pollers : Join(q)
  BY <1>3 DEF Join, PInv, PollsTypeOK
<1>4. ASSUME NEW q \in Pollers, NEW k \in GroupKeys, TakePortLock(q, k) \/ MemberDone(q, k)
      PROVE  /\ poller'[p] # "idle"
             /\ poller'[p] = "raising" =>
                  \E l \in DOMAIN groups[p] : \E i \in DOMAIN Group(p, l).todo :
                    Group(p, l).todo[i] \notin Registered
  <2>1. /\ k \in DOMAIN groups[q] /\ poller[q] = "running"
        /\ \/ GoOn(q, k, Group(q, k).todo)
           \/ GoOn(q, k, Tail(Group(q, k).todo)) /\ Group(q, k).pc = "io"
    BY <1>4 DEF TakePortLock, MemberDone, InGroup
  <2>2. PICK rest :
          /\ GoOn(q, k, rest)
          /\ \/ rest = Group(q, k).todo
             \/ rest = Tail(Group(q, k).todo) /\ Group(q, k).pc = "io"
    BY <2>1
  <2>3. \/ poller' = poller
        \/ /\ poller' = [poller EXCEPT ![q] = "raising"]
           /\ rest # <<>> /\ Head(rest) \notin Registered
    BY <2>2 DEF GoOn
  <2>4. Group(q, k).todo \in Seq(Names) /\ (Group(q, k).pc = "io" => Group(q, k).todo # <<>>)
    BY <2>1 DEF WInv, WorkKept
  <2>5. ASSUME rest # <<>>
        PROVE  \E i \in DOMAIN Group(q, k).todo : Group(q, k).todo[i] = Head(rest)
    <3>1. PICK todo : todo = Group(q, k).todo
      OBVIOUS
    <3>2. rest \in Seq(Names)
      BY <2>2, <2>4, HeadTail
    <3>3. \E i \in DOMAIN rest : rest[i] = Head(rest)
      BY <2>5, <3>2, HeadTail
    <3>4. CASE rest = todo
      BY <3>1, <3>3, <3>4
    <3>5. CASE rest = Tail(todo) /\ todo # <<>>
      <4>1. \A n : (\E i \in DOMAIN Tail(todo) : Tail(todo)[i] = n)
              => \E i \in DOMAIN todo : todo[i] = n
        BY <2>4, <3>1, <3>5, HeadTail
      <4> QED
        BY <3>1, <3>3, <3>5, <4>1
    <3> QED
      BY <2>2, <2>4, <3>1, <3>4, <3>5
  <2> QED
    BY <2>1, <2>3, <2>5 DEF PInv, PollsTypeOK
<1> QED
  <2>1. ASSUME NEW t \in Tasks, Call(t) \/ Step(t) \/ CallCancelled(t) PROVE UNCHANGED poller
    BY <2>1, AdminFrame DEF polls
  <2>2. ASSUME NEW u \in Users, (\E n \in Names : DirectCall(u, n)) \/ DirectDone(u)
        PROVE  UNCHANGED poller
    BY <2>2 DEF DirectCall, DirectDone, polls
  <2>3. ASSUME NEW q \in Pollers, NEW k \in GroupKeys,
               StartGroup(q, k) \/ TakeSession(q, k) \/ GroupCancelled(q, k)
        PROVE  UNCHANGED poller
    BY <2>3 DEF StartGroup, TakeSession, GroupCancelled
  <2> QED
    BY <1>1, <1>2, <1>3, <1>4, <2>1, <2>2, <2>3 DEF Next, vars, polls, Acquire, GroupStep

\* A poll that returns has a result for every name it was asked for and for no
\* other, and one raises only when a device it was asked for is registered no
\* longer, for every interleaving of its groups with all other calls
\* (manager.py:322-345).
THEOREM PollsTellAll == Spec => PollOutcomes
<1>1. Init => WInv
  BY DEF Init, WInv, WorkKept, Awaited
<1>2. IInv /\ WInv /\ [Next]_vars => [\A p \in Pollers : ReturnStep(p) /\ RaiseStep(p)]_vars
  <2> SUFFICES ASSUME IInv, WInv, [Next]_vars, NEW p \in Pollers, poller[p] = "running"
               PROVE  /\ poller'[p] = "idle" => results[p] = wanted[p]
                      /\ poller'[p] = "raising" => ~(wanted[p] \subseteq Registered)
    BY DEF ReturnStep, RaiseStep
  <2>1. ASSUME poller'[p] = "idle" PROVE results[p] = wanted[p]
    <3>1. \A k \in DOMAIN groups[p] : Group(p, k).todo = <<>>
      BY <2>1, StepOutcome DEF IInv, Join, WInv, WorkKept
    <3>2. DOMAIN <<>> = {}
      OBVIOUS
    <3>3. \A n : ~Awaited(p, n)
      BY <3>1, <3>2 DEF Awaited
    <3> QED
      BY <3>3 DEF WInv, WorkKept, IInv, PInv, PollsTypeOK
  <2>2. ASSUME poller'[p] = "raising" PROVE ~(wanted[p] \subseteq Registered)
    BY <2>2, StepOutcome, Asked DEF IInv
  <2> QED
    BY <2>1, <2>2
<1> QED
  BY <1>1, <1>2, Invariance, NextWInv, PTL DEF Spec, PollOutcomes
=============================================================================

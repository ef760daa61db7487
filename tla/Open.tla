-------------------------------- MODULE Open ---------------------------------
(***************************************************************************)
(* How an analyser is found and opened: the AUTO ladder of                 *)
(* protocol/detect.py on one transport, open_device of devices/factory.py  *)
(* and find_devices of devices/discovery.py around it, the exit codes of   *)
(* servomex-discover, and the line reader of transport/base.py under it,   *)
(* which the ladder and the client it leads to share.                      *)
(*                                                                         *)
(* A broadcasting analyser sends its frames in halves, 0 1 2 3 ...: an odd *)
(* half carries the separator.  They pass through the serial port (wire)   *)
(* and the transport's buffer (buf).  A line that is one whole frame has a *)
(* valid checksum and parses, any other has not.                           *)
(***************************************************************************)
EXTENDS Integers, Sequences, SequencesExt, FiniteSets

CONSTANTS
  Ports,    \* serial paths: the transport is opened here
  Given,    \* transports of the caller, who keeps them open
  Tries,    \* probe_tries
  MaxHalves, \* bound: halves of frames a broadcaster sends
  Absent    \* no port, no device, no outcome

Sources == Ports \cup Given
Framings == {"rtu", "ascii"}
Protocols == Framings \cup {"continuous", "auto"}
Modes == Framings \cup {"continuous", "silent", "absent"}

ASSUME OpenAssumption ==
  /\ Ports \cap Given = {}
  /\ Tries \in Nat \ {0} /\ MaxHalves \in Nat
  /\ Absent \notin Sources /\ Absent \notin Modes
  /\ Absent \notin {"find", "open"} \cup {"ok", "error", "raised", "cancelled"}
  /\ Absent \notin 0..2

VARIABLES
  mode,   \* what is at the other end of each source
  sent,   \* halves sent there
  wire,   \* halves that were not received yet
  buf,    \* ByteStreamTransport._buf
  opened, \* serial ports that are open
  held,   \* ports whose Analyzer the caller has
  leaked, \* ports of an open_device that raised
  job,    \* the call that runs, and where it stands
  bad     \* lines read since the buffer was drained that are no frame

openVars == <<mode, sent, wire, buf, opened, held, leaked, job, bad>>
line == <<sent, wire, buf, bad>>
port == <<opened, held, leaked>>

\* asked is the whole sweep, queue what is left of it; results are the kinds
\* recognised so far, Absent for a port without a device.
NoJob == [pc |-> "idle", op |-> Absent, src |-> Absent, queue |-> <<>>, asked |-> <<>>,
          results |-> <<>>, protocol |-> "auto", framing |-> "rtu", tries |-> 0,
          kind |-> Absent, out |-> Absent]

OpenInit ==
  /\ mode \in [Sources -> Modes] /\ \A g \in Given : mode[g] # "absent"
  /\ sent \in [Sources -> {0, 1}] \* we may tune in within a frame
  /\ wire = [s \in Sources |-> <<>>]
  /\ buf = [s \in Sources |-> <<>>]
  /\ opened = {} /\ held = {} /\ leaked = {}
  /\ job = NoJob
  /\ bad = 0

At(pc) == job.pc = pc
Go(pc) == job' = [job EXCEPT !.pc = pc]

-----------------------------------------------------------------------------
\* The transport

Usable(s) == s \in Given \cup opened

\* Nobody hears what is sent while the port is closed.
Arrive(s) ==
  /\ mode[s] = "continuous" /\ sent[s] < MaxHalves
  /\ sent' = [sent EXCEPT ![s] = @ + 1]
  /\ wire' = [wire EXCEPT ![s] = IF Usable(s) THEN Append(@, sent[s]) ELSE @]
  /\ UNCHANGED <<mode, buf, port, job, bad>>

\* _recv_chunk: at least one half, at most all there are.
ReceiveHalves(s, n) ==
  /\ n \in 1..Len(wire[s])
  /\ buf' = [buf EXCEPT ![s] = @ \o SubSeq(wire[s], 1, n)]
  /\ wire' = [wire EXCEPT ![s] = SubSeq(@, n + 1, Len(@))]
  /\ UNCHANGED <<mode, sent, bad, port, job>>

Separators(s) == {i \in DOMAIN buf[s] : buf[s][i] % 2 = 1}
Separator(s) == CHOOSE i \in Separators(s) : \A j \in Separators(s) : i <= j

\* The next line, up to and including its separator.
Line(s) == SubSeq(buf[s], 1, Separator(s))
Whole(l) == Len(l) = 2 /\ l[1] % 2 = 0 /\ l[2] = l[1] + 1

\* Mutant of Take: what was received behind the line is thrown away.
TakeAll(s) == [buf EXCEPT ![s] = <<>>]

Take(s) == [buf EXCEPT ![s] = SubSeq(@, Separator(s) + 1, Len(@))]

\* read_until returns a line; it receives more when there is none.
ReadLine(s) ==
  /\ Separators(s) # {}
  /\ buf' = Take(s)
  /\ bad' = IF Whole(Line(s)) THEN bad ELSE bad + 1

Drain(s) == buf' = [buf EXCEPT ![s] = <<>>] /\ bad' = 0

-----------------------------------------------------------------------------
\* open_device, discover_port, find_devices

Find(queue) ==
  /\ At("idle") /\ queue # <<>>
  /\ job' = [NoJob EXCEPT !.op = "find", !.pc = "resolve",
                          !.src = Head(queue), !.queue = Tail(queue), !.asked = queue]
  /\ UNCHANGED <<mode, line, port>>

\* open_device with AUTO or an explicit protocol, and open_continuous.
OpenDevice(s, protocol) ==
  /\ At("idle")
  /\ job' = [NoJob EXCEPT !.op = "open", !.pc = "resolve", !.src = s,
                          !.protocol = protocol]
  /\ UNCHANGED <<mode, line, port>>

\* The caller leaves the Analyzer: its client closes the transport.
CloseDevice(s) ==
  /\ s \in held
  /\ held' = held \ {s} /\ opened' = opened \ {s}
  /\ wire' = [wire EXCEPT ![s] = <<>>]
  /\ buf' = [buf EXCEPT ![s] = <<>>]
  /\ UNCHANGED <<mode, sent, leaked, job, bad>>

\* A serial port is exclusive.
CanOpen(s) == mode[s] # "absent" /\ s \notin opened

\* The transport is there; the ladder drains it first.
Resolve ==
  /\ At("resolve") /\ job.protocol = "auto"
  /\ job.src \in Given \/ CanOpen(job.src)
  /\ opened' = opened \cup ({job.src} \cap Ports)
  /\ Drain(job.src)
  /\ Go("probe")
  /\ UNCHANGED <<mode, sent, wire, held, leaked>>

\* An explicit protocol: nothing is drained, probed or read, and whatever the
\* other end speaks, the caller has an Analyzer.
ResolveExplicit ==
  /\ At("resolve") /\ job.protocol # "auto"
  /\ job.src \in Given \/ CanOpen(job.src)
  /\ opened' = opened \cup ({job.src} \cap Ports)
  /\ held' = held \cup ({job.src} \cap Ports)
  /\ job' = NoJob
  /\ UNCHANGED <<mode, line, leaked>>

\* Mutant of Closes: the finally clause spares the sources that raised.
ClosesUnlessRaised(out) == job.op = "find" /\ job.src \in Ports /\ out # "raised"

\* discover_port closes what it opened, in a finally clause.
Closes(out) == job.op = "find" /\ job.src \in Ports

\* Mutant of IsResult: a port without a device aborts the sweep.
IsResultIfOk(out) == out = "ok"

\* What discover_port turns into a DiscoveryResult: success and ServomexError.
IsResult(out) == out \in {"ok", "error"}

\* The ladder and what follows it ended: "ok", "error" (a ServomexError),
\* "raised" (an ExceptionGroup) or "cancelled".  find_devices goes on only
\* with a result.
Finish(out) ==
  LET s == job.src
      mine == s \in Ports /\ ~At("resolve") \* its transport is ours
      finds == job.op = "find"
      results == IF finds /\ IsResult(out)
                 THEN Append(job.results, IF out = "ok" THEN job.kind ELSE Absent)
                 ELSE job.results
      goes_on == finds /\ IsResult(out) /\ job.queue # <<>>
      after == [NoJob EXCEPT !.op = job.op, !.src = s, !.asked = job.asked,
                             !.results = results]
  IN  /\ opened' = IF mine /\ Closes(out) THEN opened \ {s} ELSE opened
      /\ wire' = [wire EXCEPT ![s] = IF mine /\ Closes(out) THEN <<>> ELSE @]
      /\ held' = IF job.op = "open" /\ out = "ok" THEN held \cup ({s} \cap Ports) ELSE held
      /\ leaked' = IF job.op = "open" /\ out # "ok" /\ mine THEN leaked \cup {s} ELSE leaked
      /\ job' = IF goes_on
                THEN [after EXCEPT !.pc = "resolve", !.src = Head(job.queue),
                                   !.queue = Tail(job.queue)]
                ELSE [after EXCEPT !.kind = job.kind, !.out = out]

\* servomex-discover: an ExceptionGroup becomes an error message, and no result
\* is shown.
ExitCode ==
  CASE job.out = "cancelled" -> Absent
    [] job.out = "raised" -> 1
    [] job.out \in {"ok", "error"} /\ \E i \in DOMAIN job.results : job.results[i] # Absent -> 0
    [] OTHER -> 2

\* The port is missing or in use: no transport, so nothing to close either.
CannotOpen ==
  /\ At("resolve") /\ job.src \in Ports /\ ~CanOpen(job.src)
  /\ Finish("error")
  /\ UNCHANGED <<mode, sent, buf, bad>>

Detected(kind) ==
  \/ /\ job.op = "open"
     /\ Finish("ok")
  \/ /\ job.op = "find"
     /\ job' = [job EXCEPT !.pc = "identify", !.kind = kind]
     /\ UNCHANGED <<wire, port>>

\* _probe_modbus: the loopback is echoed.
ProbeEchoed ==
  /\ At("probe") /\ mode[job.src] = job.framing
  /\ Detected(job.framing)
  /\ UNCHANGED <<mode, sent, buf, bad>>

\* It is not, or not in time.  The framer takes what a broadcaster sends, past
\* the transport's buffer.
ProbeFails(n) ==
  LET s == job.src
  IN  /\ At("probe")
      /\ n \in 0..Len(wire[s])
      /\ wire' = [wire EXCEPT ![s] = SubSeq(@, n + 1, Len(@))]
      /\ \/ /\ job.tries + 1 < Tries
            /\ job' = [job EXCEPT !.tries = @ + 1]
            /\ UNCHANGED <<buf, bad>>
         \/ /\ job.tries + 1 = Tries
            /\ job' = [job EXCEPT !.tries = 0, !.framing = "ascii",
                         !.pc = IF job.framing = "rtu" THEN "probe" ELSE "listen"]
            /\ Drain(s)
      /\ UNCHANGED <<mode, sent, port>>

\* read_until on behalf of the ladder or of the client's receive loop.
ReadMore ==
  /\ job.pc = "listen" \/ (job.pc = "identify" /\ job.kind = "continuous")
  /\ Separators(job.src) = {}
  /\ \E n \in 1..Len(wire[job.src]) : ReceiveHalves(job.src, n)

\* A line that is no frame: the next one is tried.
BadLine ==
  /\ job.pc = "listen" \/ (job.pc = "identify" /\ job.kind = "continuous")
  /\ ReadLine(job.src) /\ ~Whole(Line(job.src))
  /\ UNCHANGED <<mode, sent, wire, port, job>>

Listened ==
  /\ At("listen")
  /\ ReadLine(job.src) /\ Whole(Line(job.src))
  /\ Detected("continuous")
  /\ UNCHANGED <<mode, sent>>

\* The listen window is over, or the line is lost: "no recognised protocol".
NothingHeard ==
  /\ At("listen")
  /\ Finish("error")
  /\ UNCHANGED <<mode, sent, buf, bad>>

\* _identify of a Modbus analyser answers or raises a ServomexError.
IdentifyModbus(out) ==
  /\ At("identify") /\ job.kind \in Framings
  /\ out \in {"ok", "error"}
  /\ Finish(out)
  /\ UNCHANGED <<mode, sent, buf, bad>>

\* Its receive loop hears another frame: identify returns, the loop is
\* cancelled and joined.
IdentifyHeard ==
  /\ At("identify") /\ job.kind = "continuous"
  /\ ReadLine(job.src) /\ Whole(Line(job.src))
  /\ Finish("ok")
  /\ UNCHANGED <<mode, sent>>

\* None comes within timeout: the ServomexTimeoutError leaves the task group
\* in an ExceptionGroup, which the except clause for ServomexError lets pass.
IdentifyTimesOut ==
  /\ At("identify") /\ job.kind = "continuous"
  /\ Finish("raised")
  /\ UNCHANGED <<mode, sent, buf, bad>>

\* The caller's task is cancelled.
Cancelled ==
  /\ ~At("idle")
  /\ Finish("cancelled")
  /\ UNCHANGED <<mode, sent, buf, bad>>

-----------------------------------------------------------------------------

Queues == {q \in UNION {[1..n -> Sources] : n \in 1..Cardinality(Sources)} : IsInjective(q)}

OpenNext ==
  \/ \E q \in Queues : Find(q)
  \/ \E s \in Sources : CloseDevice(s) \/ Arrive(s)
  \/ \E s \in Sources, protocol \in Protocols : OpenDevice(s, protocol)
  \/ Resolve \/ ResolveExplicit \/ CannotOpen
  \/ ProbeEchoed \/ (\E n \in 0..MaxHalves : ProbeFails(n))
  \/ ReadMore \/ BadLine \/ Listened \/ NothingHeard
  \/ (\E out \in {"ok", "error"} : IdentifyModbus(out))
  \/ IdentifyHeard \/ IdentifyTimesOut
  \/ Cancelled

OpenSpec == OpenInit /\ [][OpenNext]_openVars

-----------------------------------------------------------------------------
\* Properties

\* discover_port "closes the transport before returning" (discovery.py:67-68),
\* however it ends: between two calls the ports that are open are those of the
\* analysers open_device returned, and those an open_device that raised left
\* behind.
PortsAccounted ==
  /\ held \cap leaked = {}
  /\ opened = held \cup leaked \cup
       (IF At("idle") \/ At("resolve") THEN {} ELSE {job.src} \cap Ports)

\* "A sweep never aborts on one dead port" (discovery.py:65): however the ports
\* answer, a sweep that ends has one result per port, each recognised as what
\* is there, and the exit code of servomex-discover (discover.py:4-5) is that
\* of all of them.  What does abort a sweep, before any result is shown, is a
\* broadcaster that was heard and then sent no second frame in time.
Recognised(i) == job.results[i] # Absent
SweepTells ==
  job.op = "find" /\ job.out # Absent =>
    /\ \A i \in DOMAIN job.results : Recognised(i) => job.results[i] = mode[job.asked[i]]
    /\ job.out \notin {"raised", "cancelled"} => Len(job.results) = Len(job.asked)
    /\ ExitCode = 2 => \A i \in DOMAIN job.asked : ~Recognised(i)
    /\ job.out = "raised" => mode[job.src] = "continuous" /\ sent[job.src] > 1

\* "leaves the transport pushback buffer empty, so the byte stream ... starts
\* clean" (detect.py:6-8) and "the first read after draining may land
\* mid-frame, so resync" (detect.py:123-124): from one drain on, through the
\* listening and the receive loop of the identifying client that goes on with the
\* buffer, at most the first line is not a whole frame.
OneBadLine == bad <= 1
=============================================================================

----------------------------- MODULE Calibration -----------------------------
(***************************************************************************)
(* Autocalibration control: the session's gates (devices/session.py), the  *)
(* per-session lock and the coil pulse (protocol/modbus/client.py), and    *)
(* the analyser at the other end of a lossy serial line.                   *)
(*                                                                         *)
(* One Modbus transaction is one step with one of four outcomes: answered, *)
(* request lost, response lost, refused.  A lost one is retried by the bus *)
(* up to Retries times, so a write may take effect more than once.  The    *)
(* caller's task can be cancelled between any two transactions.            *)
(***************************************************************************)
EXTENDS Integers, Sequences, SequencesExt

CONSTANTS
  Callers,  \* tasks that use the session
  Groups,   \* calibration groups
  BadGroup, \* a group number outside 1..4
  StopAll,  \* the stop-all coil
  Retries,  \* additional attempts of a transaction
  None,     \* no caller
  MaxCalls  \* bound: calls one caller makes

ASSUME CalibrationAssumption ==
  /\ BadGroup \notin Groups
  /\ StopAll \notin Groups \cup {BadGroup}
  /\ None \notin Callers
  /\ Retries \in Nat
  /\ MaxCalls \in Nat

Coils == Groups \cup {StopAll} \* start coils go by their group

VARIABLES
  autocal,  \* AUTOCAL is among the client's capabilities
  calls,    \* calls each caller has made
  phase,    \* where a caller's call stands
  request,  \* the arguments of its call
  attempt,  \* retries spent on the transaction in progress
  result,   \* how its last call ended
  holder,   \* owner of the session lock
  waiters,  \* FIFO of the callers waiting for it
  coil,     \* the analyser: coil bits
  active,   \* the analyser: groups being calibrated
  edges,    \* history: 0->1 transitions the analyser saw from the call
  abandoned \* history: coils whose last pulse was not carried through

client == <<autocal, calls, phase, request, attempt, result>>
lock == <<holder, waiters>>
analyser == <<coil, active>>
history == <<edges, abandoned>>
vars == <<client, lock, analyser, history>>

Requests == [op: {"start"}, group: Groups \cup {BadGroup}, confirm: BOOLEAN]
            \cup [op: {"stop"}, group: {BadGroup}, confirm: BOOLEAN]

\* The coil a request pulses.
CoilOf(req) == IF req.op = "start" THEN req.group ELSE StopAll
target(c) == CoilOf(request[c])

Pulsing == {"on", "readback", "off"}
Phases == {"idle", "queued"} \cup Pulsing
Results == {"none", "ok", "refused", "error", "cancelled"}

TypeOK ==
  /\ autocal \in BOOLEAN
  /\ calls \in [Callers -> Nat]
  /\ phase \in [Callers -> Phases]
  /\ request \in [Callers -> Requests]
  /\ attempt \in [Callers -> 0..Retries]
  /\ result \in [Callers -> Results]
  /\ holder \in Callers \cup {None}
  /\ waiters \in Seq(Callers)
  /\ coil \in [Coils -> {0, 1}]
  /\ active \in SUBSET Groups
  /\ edges \in [Callers -> Nat]
  /\ abandoned \in SUBSET Coils

Init ==
  /\ autocal \in BOOLEAN
  /\ calls = [c \in Callers |-> 0]
  /\ phase = [c \in Callers |-> "idle"]
  /\ request = [c \in Callers |->
                  [op |-> "stop", group |-> BadGroup, confirm |-> FALSE]]
  /\ attempt = [c \in Callers |-> 0]
  /\ result = [c \in Callers |-> "none"]
  /\ holder = None
  /\ waiters = <<>>
  /\ coil = [k \in Coils |-> 0]
  /\ active = {}
  /\ edges = [c \in Callers |-> 0]
  /\ abandoned = {}

-----------------------------------------------------------------------------
\* The session's gates

\* _gate_stateful, _require, _validate_group, in this order.
Passes(req) ==
  /\ req.confirm
  /\ autocal
  /\ req.op = "start" => req.group \in Groups

MayCall(c) ==
  /\ phase[c] = "idle"
  /\ calls[c] < MaxCalls
  /\ calls' = [calls EXCEPT ![c] = @ + 1]

\* Refused before the lock is asked for and before any byte is sent.
Refuse(c, req) ==
  /\ MayCall(c)
  /\ ~Passes(req)
  /\ result' = [result EXCEPT ![c] = "refused"]
  /\ UNCHANGED <<autocal, phase, request, attempt, lock, analyser, history>>

\* _execute: take the session lock and start the pulse, or wait for it.
Call(c, req) ==
  /\ MayCall(c)
  /\ Passes(req)
  /\ request' = [request EXCEPT ![c] = req]
  /\ attempt' = [attempt EXCEPT ![c] = 0]
  /\ result' = [result EXCEPT ![c] = "none"]
  /\ edges' = [edges EXCEPT ![c] = 0]
  /\ IF holder = None
       THEN /\ holder' = c
            /\ phase' = [phase EXCEPT ![c] = "on"]
            /\ UNCHANGED waiters
       ELSE /\ waiters' = Append(waiters, c)
            /\ phase' = [phase EXCEPT ![c] = "queued"]
            /\ UNCHANGED holder
  /\ UNCHANGED <<autocal, analyser, abandoned>>

\* Mutant of Release: nobody wakes the first waiter.
ReleaseWakesNobody(c, outcome) ==
  /\ result' = [result EXCEPT ![c] = outcome]
  /\ attempt' = [attempt EXCEPT ![c] = 0]
  /\ holder' = None
  /\ phase' = [phase EXCEPT ![c] = "idle"]
  /\ UNCHANGED <<autocal, calls, request, waiters>>

\* The call ends; the lock goes straight to the first waiter, if any.
Release(c, outcome) ==
  /\ result' = [result EXCEPT ![c] = outcome]
  /\ attempt' = [attempt EXCEPT ![c] = 0]
  /\ IF waiters = <<>>
       THEN /\ holder' = None
            /\ phase' = [phase EXCEPT ![c] = "idle"]
            /\ UNCHANGED waiters
       ELSE /\ holder' = Head(waiters)
            /\ waiters' = Tail(waiters)
            /\ phase' = [phase EXCEPT ![c] = "idle", ![Head(waiters)] = "on"]
  /\ UNCHANGED <<autocal, calls, request>>

-----------------------------------------------------------------------------
\* The analyser

\* Mutant of Written: the off write writes 1 again.
WrittenStuck(c) ==
  IF phase[c] \in {"on", "off"} THEN [coil EXCEPT ![target(c)] = 1] ELSE coil

\* What the write of the caller's phase makes of the coils.
Written(c) ==
  CASE phase[c] = "on"  -> [coil EXCEPT ![target(c)] = 1]
    [] phase[c] = "off" -> [coil EXCEPT ![target(c)] = 0]
    [] OTHER            -> coil

Rises(c) == phase[c] = "on" /\ coil[target(c)] = 0

\* The analyser executes the request; it acts on a 0->1 transition only.
Execute(c) ==
  /\ coil' = Written(c)
  /\ IF Rises(c)
       THEN /\ edges' = [edges EXCEPT ![c] = @ + 1]
            /\ active' = IF target(c) = StopAll
                           THEN {} ELSE active \cup {target(c)}
       ELSE UNCHANGED <<edges, active>>

\* A calibration runs its course.
CalibrationEnds(g) ==
  /\ g \in active
  /\ active' = active \ {g}
  /\ UNCHANGED <<client, lock, coil, history>>

-----------------------------------------------------------------------------
\* The transactions of _pulse_coil

InPulse(c) == holder = c /\ phase[c] \in Pulsing

\* Mutant of Answered: the pulse ends after the readback.
AnsweredNoOff(c) ==
  /\ InPulse(c)
  /\ Execute(c)
  /\ IF phase[c] = "readback"
       THEN /\ Release(c, "ok")
            /\ abandoned' = abandoned \ {target(c)}
       ELSE /\ phase' = [phase EXCEPT ![c] = "readback"]
            /\ attempt' = [attempt EXCEPT ![c] = 0]
            /\ UNCHANGED <<autocal, calls, request, result, lock, abandoned>>

\* Write on, read back, write off.
Answered(c) ==
  /\ InPulse(c)
  /\ Execute(c)
  /\ IF phase[c] = "off"
       THEN /\ Release(c, "ok")
            /\ abandoned' = abandoned \ {target(c)}
       ELSE /\ phase' = [phase EXCEPT ![c] =
                           IF phase[c] = "on" THEN "readback" ELSE "off"]
            /\ attempt' = [attempt EXCEPT ![c] = 0]
            /\ UNCHANGED <<autocal, calls, request, result, lock, abandoned>>

\* Mutant of Retry: the whole pulse is repeated, not one transaction.
RetryPulse(c) ==
  /\ InPulse(c)
  /\ attempt[c] < Retries
  /\ attempt' = [attempt EXCEPT ![c] = @ + 1]
  /\ phase' = [phase EXCEPT ![c] = "on"]
  /\ UNCHANGED <<autocal, calls, request, result, lock, abandoned>>

\* A request or its response is lost on the line, and the bus tries again.
Retry(c) ==
  /\ InPulse(c)
  /\ attempt[c] < Retries
  /\ attempt' = [attempt EXCEPT ![c] = @ + 1]
  /\ UNCHANGED <<autocal, calls, phase, request, result, lock, abandoned>>

RequestLost(c) == Retry(c) /\ UNCHANGED <<analyser, edges>>

ResponseLost(c) == Retry(c) /\ Execute(c)

\* An exception leaves _pulse_coil where it stands: no off write follows.
Abandon(c, outcome) ==
  /\ InPulse(c)
  /\ Release(c, outcome)
  /\ abandoned' = abandoned \cup {target(c)}

\* An exception response, a lost line, or no answer to the last attempt, which
\* the analyser may have executed.
TransactionFails(c) ==
  /\ Abandon(c, "error")
  /\ \/ UNCHANGED <<analyser, edges>>
     \/ attempt[c] = Retries /\ Execute(c)

\* The caller's task is cancelled between two transactions, before the request
\* of one is executed or after it (then ResponseLost came first).
CancelPulse(c) ==
  /\ Abandon(c, "cancelled")
  /\ UNCHANGED <<analyser, edges>> \/ Execute(c)

\* The caller's task is cancelled while it waits for the lock.
CancelQueued(c) ==
  /\ phase[c] = "queued"
  /\ phase' = [phase EXCEPT ![c] = "idle"]
  /\ result' = [result EXCEPT ![c] = "cancelled"]
  /\ \E i \in DOMAIN waiters : waiters[i] = c /\ waiters' = RemoveAt(waiters, i)
  /\ UNCHANGED <<autocal, calls, request, attempt, holder, analyser, history>>

Transaction(c) ==
  Answered(c) \/ RequestLost(c) \/ ResponseLost(c) \/ TransactionFails(c)

Next ==
  \/ \E c \in Callers :
       \/ \E req \in Requests : Refuse(c, req) \/ Call(c, req)
       \/ Transaction(c)
       \/ CancelPulse(c)
       \/ CancelQueued(c)
  \/ \E g \in Groups : CalibrationEnds(g)

Spec == Init /\ [][Next]_vars

\* The bus bounds every attempt by request_timeout, so a transaction ends; the
\* caller, the analyser and a cancellation owe nothing.
FairSpec == Spec /\ \A c \in Callers : WF_vars(Transaction(c))

-----------------------------------------------------------------------------
\* Properties

\* The lock is held exactly while a pulse is under way, so the on, readback and
\* off of two pulses on one session never mix (modbus/client.py:485), and
\* it never gets lost on an error or a cancellation.
OnePulseAtATime ==
  /\ \A c \in Callers : phase[c] \in Pulsing <=> holder = c
  /\ \A c \in Callers : phase[c] = "queued" <=> \E i \in DOMAIN waiters : waiters[i] = c
  /\ holder = None => waiters = <<>>

\* A pulse starts at most one calibration however often its writes are retried:
\* a repeated on write finds the coil up and makes no transition.
AtMostOneTrigger == \A c \in Callers : edges[c] <= 1

\* Pulses neither overlap nor repeat.
PulsesApart == OnePulseAtATime /\ AtMostOneTrigger

\* A coil is up only inside its own pulse, or because its last pulse was given
\* up between its on and its off write: the exact reach of the hazard that
\* _pulse_coil (modbus/client.py:461) has no try/finally.
RaisedCoilExplained ==
  \A k \in Coils : coil[k] = 1 =>
    \/ k \in abandoned
    \/ \E c \in Callers : phase[c] \in Pulsing /\ target(c) = k

\* What a successful call is worth: its 0->1 transition happened during the
\* call, unless the coil's previous pulse was given up, and it is down now.
OkStep(c) ==
  (phase[c] # "idle" /\ result'[c] = "ok") =>
    /\ edges'[c] = 1 \/ target(c) \in abandoned
    /\ coil'[target(c)] = 0
OkMeansPulsed == [][\A c \in Callers : OkStep(c)]_vars

\* design.md:239-240 and modbus/client.py:207 call start_calibration one
\* 0->1->0 pulse: a call that succeeds made the transition that triggers.
SuccessMeansTriggered ==
  [][\A c \in Callers :
       (phase[c] # "idle" /\ result'[c] = "ok") => edges'[c] = 1]_vars

\* Every call that asked for the lock ends, whoever held it before.
CallsEnd == \A c \in Callers : phase[c] # "idle" ~> phase[c] = "idle"
=============================================================================

------------------------------ MODULE SerialSink ------------------------------
(***************************************************************************)
(* pi-agent/piproxy/sinks.py, class SerialSink: the Pi's serial port.  The *)
(* emitter thread sends, and main's close() sends the release; both go     *)
(* through send(), which also reopens a port that was lost.  The bridge    *)
(* may be pulled and come back under another name, and another serial      *)
(* device may be there.                                                    *)
(*                                                                         *)
(* pyserial's write with write_timeout=0 returns after a short write and   *)
(* spins while the transmit buffer is full (trigger.py:188-199): that spin *)
(* is a caller at "in" with no step to take.                               *)
(***************************************************************************)
EXTENDS Naturals

CONSTANTS
  Ports,      \* device names, /dev/ttyUSB*
  port_spec,  \* the configured one
  None,
  RETRY,      \* RETRY_S in ticks
  FRAME, CAP  \* bytes of a frame, bytes the transmit buffer takes

Callers == {"emitter", "main"}

ASSUME SinkAssumption ==
  /\ port_spec \in Ports /\ None \notin Ports \cup Callers
  /\ RETRY \in Nat \ {0} /\ FRAME \in Nat \ {0} /\ CAP \in Nat /\ CAP >= FRAME

VARIABLES
  bridge, foreign,  \* the names under which the two devices are present, or None
  ser,              \* what self.ser is connected to: None, "bridge", "foreign", "dead"
  retry,            \* _next_retry - now
  queue,            \* bytes in the bridge's transmit buffer
  lock,             \* _lock
  pc,               \* "idle", "lock", "in" (send), and "join", "close", "closed" of main, "gone" of the emitter
  stopped,          \* Emitter._stop
  last              \* whose send ended last

world == <<bridge, foreign>>
sinkVars == <<world, ser, retry, queue, lock, pc, stopped, last>>

Return(c) ==
  /\ pc' = [pc EXCEPT ![c] = IF c = "main" THEN "close" ELSE "idle"]
  /\ lock' = None /\ last' = c

-----------------------------------------------------------------------------
(* Mutations: each breaks the property named with it. *)

\* ReleasedLast: close() does not wait for an emitter that wants the lock.
CloseJoin_NoWait ==
  /\ pc["main"] = "join"
  /\ pc' = [pc EXCEPT !["main"] = "lock"]
  /\ UNCHANGED <<world, ser, retry, queue, lock, stopped, last>>

\* Recovers: only the configured name is looked for.
Resolve_SpecOnly == {p \in {bridge, foreign} : p = port_spec}

-----------------------------------------------------------------------------
(* send *)

Enter(c) ==
  /\ pc[c] = "lock" /\ lock = None
  /\ lock' = c /\ pc' = [pc EXCEPT ![c] = "in"]
  /\ UNCHANGED <<world, ser, retry, queue, stopped, last>>

SendNoHandle(c) ==
  /\ pc[c] = "in" /\ ser = None /\ retry > 0
  /\ Return(c)
  /\ UNCHANGED <<world, ser, retry, queue, stopped>>

\* _resolve: the configured node, or any device of the kind.
Resolve ==
  LET present == {bridge, foreign} \ {None}
  IN  IF port_spec \in present THEN {port_spec} ELSE present

\* _open inline; the report follows if it succeeds.  A node that is there may not open yet.
Open(c) ==
  /\ pc[c] = "in" /\ ser = None /\ retry = 0
  /\ retry' = RETRY
  /\ \/ \E p \in Resolve :
          /\ ser' = IF p = bridge THEN "bridge" ELSE "foreign"
          /\ queue' = 0 /\ UNCHANGED <<pc, lock, last>>
     \/ Return(c) /\ UNCHANGED <<ser, queue>>
  /\ UNCHANGED <<world, stopped>>

\* The whole frame, or as much of it as there is room for; a foreign device takes all.
Write(c) ==
  /\ pc[c] = "in" /\ ser \in {"bridge", "foreign"}
  /\ ser = "bridge" => queue < CAP
  /\ queue' = IF ser = "foreign" THEN queue ELSE IF queue + FRAME > CAP THEN CAP ELSE queue + FRAME
  /\ Return(c)
  /\ UNCHANGED <<world, ser, retry, stopped>>

\* Any OSError: _drop_connection.
WriteFails(c) ==
  /\ pc[c] = "in" /\ ser = "dead"
  /\ ser' = None /\ retry' = RETRY
  /\ Return(c)
  /\ UNCHANGED <<world, queue, stopped>>

SendStep(c) == Enter(c) \/ SendNoHandle(c) \/ Open(c) \/ Write(c) \/ WriteFails(c)

-----------------------------------------------------------------------------
(* The callers *)

EmitterSend ==
  /\ pc["emitter"] = "idle" /\ ~ stopped
  /\ pc' = [pc EXCEPT !["emitter"] = "lock"]
  /\ UNCHANGED <<world, ser, retry, queue, lock, stopped, last>>

EmitterEnds ==
  /\ pc["emitter"] = "idle" /\ stopped
  /\ pc' = [pc EXCEPT !["emitter"] = "gone"]
  /\ UNCHANGED <<world, ser, retry, queue, lock, stopped, last>>

\* Emitter.stop
Stop ==
  /\ pc["main"] = "idle"
  /\ stopped' = TRUE /\ pc' = [pc EXCEPT !["main"] = "join"]
  /\ UNCHANGED <<world, ser, retry, queue, lock, last>>

\* join(timeout=1.0): only a send that spins, or a long open, outlasts it.  Then close().
CloseJoin ==
  /\ pc["main"] = "join" /\ pc["emitter"] \in {"gone", "in"}
  /\ pc' = [pc EXCEPT !["main"] = "lock"]
  /\ UNCHANGED <<world, ser, retry, queue, lock, stopped, last>>

\* The handle is closed without the lock.
CloseHandle ==
  /\ pc["main"] = "close"
  /\ ser' = None /\ pc' = [pc EXCEPT !["main"] = "closed"]
  /\ UNCHANGED <<world, retry, queue, lock, stopped, last>>

-----------------------------------------------------------------------------
(* The devices *)

Pull ==
  /\ bridge # None
  /\ bridge' = None /\ queue' = 0
  /\ ser' = IF ser = "bridge" THEN "dead" ELSE ser
  /\ UNCHANGED <<foreign, retry, lock, pc, stopped, last>>

\* The kernel names it anew.
PutBack ==
  /\ bridge = None
  /\ bridge' \in Ports \ {foreign}
  /\ UNCHANGED <<foreign, ser, retry, queue, lock, pc, stopped, last>>

Drain ==
  /\ queue > 0
  /\ queue' = queue - 1
  /\ UNCHANGED <<world, ser, retry, lock, pc, stopped, last>>

Tick ==
  /\ retry > 0
  /\ retry' = retry - 1
  /\ UNCHANGED <<world, ser, queue, lock, pc, stopped, last>>

-----------------------------------------------------------------------------
\* The port may not be there yet at boot.
SinkInit ==
  /\ bridge \in Ports \cup {None}
  /\ foreign \in (Ports \ {bridge, port_spec}) \cup {None}
  /\ ser = (IF Resolve = {} THEN None ELSE IF bridge \in Resolve THEN "bridge" ELSE "foreign")
  /\ retry = 0 /\ queue = 0 /\ lock = None
  /\ pc = [c \in Callers |-> "idle"]
  /\ stopped = FALSE /\ last = "emitter"

SinkMain == Stop \/ CloseJoin \/ CloseHandle

SinkNext ==
  \/ \E c \in Callers : SendStep(c)
  \/ EmitterSend \/ EmitterEnds \/ SinkMain
  \/ Pull \/ PutBack \/ Drain \/ Tick

SinkSpec == SinkInit /\ [][SinkNext]_sinkVars

-----------------------------------------------------------------------------
(* Properties *)

\* When close() returns, its send of the release was the last to end and the emitter is not
\* inside another, also if it was inside one when close() was called (sinks.py:204-213,
\* 323-328): no report follows the release.  Whether the release reached the port is another
\* matter: a send that was dropped or cut short has ended too (171-178, 185-196).
ReleasedLast == pc["main"] = "closed" => last = "main" /\ pc["emitter"] \in {"idle", "gone"}

\* Once the hardware is back the sink finds it, under whatever name it came
\* (sinks.py:70-74), if no other serial device can be taken for it.
Recovers == <>[](bridge # None /\ foreign = None /\ ~ stopped) => <>[](ser = "bridge")
===============================================================================

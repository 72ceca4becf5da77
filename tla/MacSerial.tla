------------------------------ MODULE MacSerial ------------------------------
(***************************************************************************)
(* mac-app/macvision/trigger.py, class SerialTransport: the trigger's      *)
(* serial port.  Whoever holds Trigger's lock sends (the frame loop, the   *)
(* keepalive, stop); that caller is one process here.  A thread of its own *)
(* reopens a port that was lost, without the transport's lock, and close() *)
(* may meet it anywhere.                                                   *)
(*                                                                         *)
(* The device can be pulled and put back at any time: a handle opened      *)
(* before that is dead.  The caller's thread can be interrupted inside     *)
(* send (Ctrl-C, SIGTERM).                                                 *)
(***************************************************************************)
EXTENDS Naturals, FiniteSets, SequencesExt

CONSTANTS
  Handles,   \* what open() can return; more than are ever open at once
  None,      \* Python's None
  CAP        \* bytes the device's transmit buffer takes

ASSUME SerialAssumption ==
  None \notin Handles /\ Cardinality(Handles) >= 2 /\ CAP \in Nat /\ CAP >= 2

VARIABLES
  ser, fd,       \* self.ser and self._fd, by the handle they belong to
  stop,          \* _stop is set
  portLock,      \* _lock: "free", "caller", "reconnect"
  callerPc,      \* "idle", in send: "look" "write" "drop" "clear", in close: "join" "lock" "flush" "closed"
  byte,          \* the argument of send
  rcPc,          \* the reconnect thread
  fresh,         \* the handle the reconnect thread has just opened
  opened, dead,  \* handles that are open; those of them whose device is gone
  plugged,       \* the device is there
  queue,         \* its transmit buffer
  wire           \* the byte it took last

self == <<ser, fd, stop, portLock>>
device == <<opened, dead, plugged, queue, wire>>
serialVars == <<self, callerPc, byte, rcPc, fresh, device>>

\* Thread.is_alive()
Alive == rcPc \notin {"none", "done"}

Close(h) == opened' = opened \ {h} /\ dead' = dead \ {h}

-----------------------------------------------------------------------------
(* Mutations: each breaks the property named with it. *)

\* Reconnects: only a write that fails starts the thread.
SendNoHandle_Waits ==
  /\ callerPc = "look" /\ ser = None
  /\ callerPc' = "idle" /\ portLock' = "free"
  /\ UNCHANGED <<ser, fd, stop, byte, rcPc, fresh, device>>

\* NothingLeftOpen: _stop is not looked at again after the open.
ReconnectTest_Unchecked ==
  /\ rcPc = "test"
  /\ rcPc' = "return"
  /\ UNCHANGED <<self, callerPc, byte, fresh, device>>

\* ReleaseIsLastByte: the backlog is not discarded.
CloseFlush_KeepsBacklog ==
  /\ callerPc = "flush"
  /\ queue' = IF fd # ser \/ fd \in dead \/ Len(queue) = CAP THEN queue ELSE Append(queue, FALSE)
  /\ Close(ser)
  /\ ser' = None /\ fd' = None /\ portLock' = "free" /\ callerPc' = "closed"
  /\ UNCHANGED <<stop, byte, rcPc, fresh, plugged, wire>>

-----------------------------------------------------------------------------
(* send *)

Begin(b) ==
  /\ callerPc = "idle" /\ portLock = "free"
  /\ portLock' = "caller" /\ callerPc' = "look" /\ byte' = b
  /\ UNCHANGED <<ser, fd, stop, rcPc, fresh, device>>

StartReconnecting == rcPc' = IF stop \/ Alive THEN rcPc ELSE "wait"

SendNoHandle ==
  /\ callerPc = "look" /\ ser = None
  /\ callerPc' = "idle" /\ portLock' = "free"
  /\ StartReconnecting
  /\ UNCHANGED <<ser, fd, stop, byte, fresh, device>>

SendHasHandle ==
  /\ callerPc = "look" /\ ser # None
  /\ callerPc' = "write"
  /\ UNCHANGED <<self, byte, rcPc, fresh, device>>

\* os.write(None) is a TypeError on a port that is open: counted, nothing dropped.
\* A full buffer is a BlockingIOError: the byte is dropped.
SendWrite ==
  /\ callerPc = "write"
  /\ fd = None \/ (fd \in opened /\ fd \notin dead)
  /\ IF fd = None \/ Len(queue) = CAP THEN UNCHANGED <<queue, wire>>
     ELSE queue' = Append(queue, byte) /\ wire' = byte
  /\ callerPc' = "idle" /\ portLock' = "free"
  /\ UNCHANGED <<ser, fd, stop, byte, rcPc, fresh, opened, dead, plugged>>

\* Any other OSError: the device is gone, or the handle was closed already, also one that an
\* interrupt left in _fd.
SendFails ==
  /\ callerPc = "write"
  /\ fd # None /\ (fd \notin opened \/ fd \in dead)
  /\ callerPc' = "drop"
  /\ UNCHANGED <<self, byte, rcPc, fresh, device>>

\* _drop_connection, and the reconnect thread is started.
DropClose ==
  /\ callerPc = "drop"
  /\ Close(ser)
  /\ callerPc' = "clear"
  /\ UNCHANGED <<self, byte, rcPc, fresh, plugged, queue, wire>>

\* Between the two assignments no other thread looks at the fields.
DropClear ==
  /\ callerPc = "clear"
  /\ ser' = None /\ fd' = None
  /\ StartReconnecting
  /\ callerPc' = "idle" /\ portLock' = "free"
  /\ UNCHANGED <<stop, byte, fresh, device>>

\* KeyboardInterrupt inside send: the with statement gives the lock back, main stops.  It
\* may hit before, between and after the two assignments of _drop_connection.
SendInterrupted ==
  /\ callerPc \in {"look", "write", "drop", "clear"}
  /\ callerPc' = "idle" /\ portLock' = "free"
  /\ \/ UNCHANGED <<ser, fd>>
     \/ callerPc = "clear" /\ ser' = None /\ fd' \in {fd, None}
  /\ UNCHANGED <<stop, byte, rcPc, fresh, device>>

-----------------------------------------------------------------------------
(* close *)

CloseSet ==
  /\ callerPc = "idle"
  /\ stop' = TRUE /\ callerPc' = "join"
  /\ UNCHANGED <<ser, fd, portLock, byte, rcPc, fresh, device>>

\* join(RETRY_S + 0.5): only a thread inside the device's open outlasts it.
CloseJoin ==
  /\ callerPc = "join" /\ (~ Alive \/ rcPc = "open")
  /\ callerPc' = "lock"
  /\ UNCHANGED <<self, byte, rcPc, fresh, device>>

CloseLock ==
  /\ callerPc = "lock" /\ portLock = "free"
  /\ IF ser = None THEN callerPc' = "closed" /\ UNCHANGED portLock
     ELSE callerPc' = "flush" /\ portLock' = "caller"
  /\ UNCHANGED <<ser, fd, stop, byte, rcPc, fresh, device>>

\* reset_output_buffer, the release, close; each may fail and is passed over.
CloseFlush ==
  /\ callerPc = "flush"
  /\ queue' = IF ser \in dead THEN queue ELSE IF fd # ser THEN << >> ELSE <<FALSE>>
  /\ wire' = IF ser \in dead \/ fd # ser THEN wire ELSE FALSE
  /\ Close(ser)
  /\ ser' = None /\ fd' = None /\ portLock' = "free" /\ callerPc' = "closed"
  /\ UNCHANGED <<stop, byte, rcPc, fresh, plugged>>

-----------------------------------------------------------------------------
(* The reconnect thread *)

\* wait(RETRY_S) timed out, or the event was set.  Nobody else ever opens the port.
ReconnectWait ==
  /\ rcPc = "wait"
  /\ rcPc' = IF stop THEN "return" ELSE IF ser # None THEN "wait" ELSE "open"
  /\ UNCHANGED <<self, callerPc, byte, fresh, device>>

\* _open: the device's open() and then the two fields, one after the other.
ReconnectOpen ==
  /\ rcPc = "open"
  /\ IF ~ plugged THEN rcPc' = (IF stop THEN "return" ELSE "wait") /\ UNCHANGED <<fresh, opened>>
     ELSE \E h \in Handles \ opened :
            fresh' = h /\ opened' = opened \cup {h} /\ rcPc' = "set_ser"
  /\ UNCHANGED <<self, callerPc, byte, dead, plugged, queue, wire>>

ReconnectSetSer ==
  /\ rcPc = "set_ser"
  /\ ser' = fresh /\ rcPc' = "set_fd"
  /\ UNCHANGED <<fd, stop, portLock, callerPc, byte, fresh, device>>

ReconnectSetFd ==
  /\ rcPc = "set_fd"
  /\ fd' = fresh /\ rcPc' = "test"
  /\ UNCHANGED <<ser, stop, portLock, callerPc, byte, fresh, device>>

ReconnectTest ==
  /\ rcPc = "test"
  /\ rcPc' = IF stop THEN "hand_back" ELSE "return"
  /\ UNCHANGED <<self, callerPc, byte, fresh, device>>

\* close() has been here before: the handle is given back.  None.close() is passed over.
ReconnectHandBack ==
  /\ rcPc = "hand_back" /\ portLock = "free"
  /\ Close(ser)
  /\ ser' = None /\ fd' = None
  /\ rcPc' = "return"
  /\ UNCHANGED <<stop, portLock, callerPc, byte, fresh, plugged, queue, wire>>

\* The thread is alive for a moment after its loop has returned.
ReconnectReturn ==
  /\ rcPc = "return"
  /\ rcPc' = "done"
  /\ UNCHANGED <<self, callerPc, byte, fresh, device>>

-----------------------------------------------------------------------------
(* The device *)

Pull ==
  /\ plugged
  /\ plugged' = FALSE /\ dead' = opened /\ queue' = << >>
  /\ UNCHANGED <<self, callerPc, byte, rcPc, fresh, opened, wire>>

PutBack ==
  /\ ~ plugged
  /\ plugged' = TRUE
  /\ UNCHANGED <<self, callerPc, byte, rcPc, fresh, opened, dead, queue, wire>>

Drain ==
  /\ queue # << >>
  /\ queue' = Tail(queue)
  /\ UNCHANGED <<self, callerPc, byte, rcPc, fresh, opened, dead, plugged, wire>>

-----------------------------------------------------------------------------
\* The constructor has opened the port, or there is no transport.
SerialInit ==
  /\ ser \in Handles /\ fd = ser /\ opened = {ser} /\ dead = {}
  /\ stop = FALSE /\ portLock = "free"
  /\ callerPc = "idle" /\ byte = FALSE
  /\ rcPc = "none" /\ fresh = None
  /\ plugged = TRUE /\ queue = << >>
  /\ wire \in BOOLEAN          \* what a previous run left behind

\* Inside send, and the steps that return from it.
SendStep == SendHasHandle \/ SendFails \/ DropClose

SendReturn == SendNoHandle \/ SendWrite \/ DropClear

CloseStep == CloseJoin \/ CloseLock \/ CloseFlush

Reconnect ==
  \/ ReconnectWait \/ ReconnectOpen \/ ReconnectSetSer \/ ReconnectSetFd
  \/ ReconnectTest \/ ReconnectHandBack \/ ReconnectReturn
===============================================================================

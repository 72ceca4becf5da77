------------------------------ MODULE MacTrigger -------------------------------
(***************************************************************************)
(* mac-app/macvision/trigger.py, class Trigger: the frame loop writes each *)
(* new state at once, a keepalive thread rewrites the current one, and     *)
(* stop() releases the key and closes the transport.  A write is           *)
(* transport.send under the lock; what send does is the transport's        *)
(* (MacSerial), so the *Send operations here are the return from it.  The  *)
(* frame loop's thread can be interrupted (Ctrl-C, SIGTERM) in update.     *)
(***************************************************************************)
EXTENDS Naturals

VARIABLES
  active,    \* _active
  stopEvent, \* _stop is set
  sendLock,  \* who holds _lock: "free", "main", "keepalive"
  mainPc,    \* frame loop thread, in start, update or stop
  arg,       \* the state the main thread is sending
  kaPc,      \* keepalive: "off", "wait", "read", "lock", "send", "done"
  kaArg      \* the state the keepalive thread read from _active

triggerVars == <<active, stopEvent, sendLock, mainPc, arg, kaPc, kaArg>>

InUpdate == mainPc \in {"update_lock", "update_send"}

-----------------------------------------------------------------------------
(* Mutations: each breaks the property named with it. *)

\* WireSettles: only a pressed key is kept alive.
KeepaliveRead_PressedOnly ==
  /\ kaPc = "read"
  /\ kaArg' = active
  /\ kaPc' = IF active THEN "lock" ELSE "wait"
  /\ UNCHANGED <<active, stopEvent, sendLock, mainPc, arg>>

-----------------------------------------------------------------------------
(* The main thread *)

MainAcquire(from, to) ==
  /\ mainPc = from /\ sendLock = "free"
  /\ sendLock' = "main" /\ mainPc' = to
  /\ UNCHANGED <<active, stopEvent, arg, kaPc, kaArg>>

\* transport.send inside _send: whatever it does, the lock is released.
MainTransport(from, to) ==
  /\ mainPc = from
  /\ sendLock' = "free" /\ mainPc' = to
  /\ UNCHANGED <<active, stopEvent, arg, kaArg>>

\* start(): the released state, then the keepalive thread.
StartLock == MainAcquire("start_lock", "start_send")
StartSend ==
  /\ MainTransport("start_send", "idle")
  /\ kaPc' = "wait"

\* update(): the assignment comes before the send and outside the lock.
UpdateAssign(state) ==
  /\ mainPc = "idle"
  /\ active' = state /\ arg' = state
  /\ mainPc' = "update_lock"
  /\ UNCHANGED <<stopEvent, sendLock, kaPc, kaArg>>

UpdateLock == MainAcquire("update_lock", "update_send")
UpdateSend ==
  /\ MainTransport("update_send", "idle")
  /\ UNCHANGED kaPc

\* KeyboardInterrupt: the with statement gives the lock back, main goes to stop().
UpdateInterrupted ==
  /\ InUpdate
  /\ mainPc' = "stop"
  /\ sendLock' = IF sendLock = "main" THEN "free" ELSE sendLock
  /\ UNCHANGED <<active, stopEvent, arg, kaPc, kaArg>>

\* stop(): release the state, stop and join the keepalive, release on the wire, close.
StopCalled ==
  /\ mainPc = "idle"
  /\ mainPc' = "stop"
  /\ UNCHANGED <<active, stopEvent, sendLock, arg, kaPc, kaArg>>

StopAssign ==
  /\ mainPc = "stop"
  /\ active' = FALSE /\ arg' = FALSE
  /\ mainPc' = "stop_event"
  /\ UNCHANGED <<stopEvent, sendLock, kaPc, kaArg>>

StopSet ==
  /\ mainPc = "stop_event"
  /\ stopEvent' = TRUE
  /\ mainPc' = "join"
  /\ UNCHANGED <<active, sendLock, arg, kaPc, kaArg>>

\* join(timeout=1.0): only a send that blocks outlasts it.
StopJoin ==
  /\ mainPc = "join" /\ kaPc \in {"done", "send"}
  /\ mainPc' = "final_lock"
  /\ UNCHANGED <<active, stopEvent, sendLock, arg, kaPc, kaArg>>

StopLock == MainAcquire("final_lock", "final_send")
StopSend ==
  /\ MainTransport("final_send", "close")
  /\ UNCHANGED kaPc

-----------------------------------------------------------------------------
(* The keepalive thread *)

\* _stop.wait(keepalive_s) timed out, or the event was set.
KeepaliveWake ==
  /\ kaPc = "wait"
  /\ kaPc' = IF stopEvent THEN "done" ELSE "read"
  /\ UNCHANGED <<active, stopEvent, sendLock, mainPc, arg, kaArg>>

\* The argument of _send(self._active) is read before _send takes the lock.
KeepaliveRead ==
  /\ kaPc = "read"
  /\ kaArg' = active
  /\ kaPc' = "lock"
  /\ UNCHANGED <<active, stopEvent, sendLock, mainPc, arg>>

KeepaliveLock ==
  /\ kaPc = "lock" /\ sendLock = "free"
  /\ sendLock' = "keepalive" /\ kaPc' = "send"
  /\ UNCHANGED <<active, stopEvent, mainPc, arg, kaArg>>

KeepaliveSend ==
  /\ kaPc = "send"
  /\ sendLock' = "free" /\ kaPc' = "wait"
  /\ UNCHANGED <<active, stopEvent, mainPc, arg, kaArg>>

-----------------------------------------------------------------------------
TriggerInit ==
  /\ active = FALSE /\ stopEvent = FALSE /\ sendLock = "free"
  /\ mainPc = "start_lock" /\ arg = FALSE
  /\ kaPc = "off" /\ kaArg = FALSE

\* What the two threads do outside transport.send.
MainStep == StartLock \/ UpdateLock \/ StopAssign \/ StopSet \/ StopJoin \/ StopLock

KeepaliveStep == KeepaliveWake \/ KeepaliveRead \/ KeepaliveLock

\* A send returns, to the thread that holds the lock.
SendReturns ==
  \/ StartSend \/ UpdateSend \/ StopSend
  \/ KeepaliveSend
===============================================================================

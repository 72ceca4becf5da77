----------------------------- MODULE TriggerPort -----------------------------
(***************************************************************************)
(* The trigger over its serial port: Trigger (MacTrigger) calls send and   *)
(* close of SerialTransport (MacSerial), with the reconnect thread and the *)
(* device running beside them.  Trigger's lock is held from the call of    *)
(* send to its return, so the transport has one caller at a time.          *)
(***************************************************************************)
EXTENDS MacTrigger, MacSerial

vars == <<triggerVars, serialVars>>

-----------------------------------------------------------------------------
(* Calls and returns *)

\* A transmit buffer does not fill between two statements of the reconnect thread: it
\* takes minutes of keepalives.
RoomForAWhile == rcPc \in {"set_fd", "test"} => Len(queue) + 1 < CAP

\* transport.send, by the thread that holds Trigger's lock.
CallSend ==
  /\ \/ mainPc \in {"start_send", "update_send"} /\ RoomForAWhile /\ Begin(arg)
     \/ mainPc = "final_send" /\ Begin(arg)
     \/ kaPc = "send" /\ RoomForAWhile /\ Begin(kaArg)
  /\ UNCHANGED triggerVars

ReturnSend == SendReturn /\ SendReturns

\* Ctrl-C or SIGTERM in update, before, after or inside the transport's send.
Interrupt ==
  /\ UpdateInterrupted
  /\ IF mainPc = "update_send" /\ callerPc # "idle" THEN SendInterrupted
     ELSE UNCHANGED serialVars

\* The last statement of Trigger.stop is transport.close().
CallClose == mainPc = "close" /\ CloseSet /\ UNCHANGED triggerVars

-----------------------------------------------------------------------------
Init == TriggerInit /\ SerialInit

Trigger == (MainStep \/ KeepaliveStep) /\ UNCHANGED serialVars

Transport == (SendStep \/ CloseStep \/ Reconnect) /\ UNCHANGED triggerVars

Next ==
  \/ Trigger \/ Transport
  \/ CallSend \/ ReturnSend \/ CallClose
  \/ Interrupt
  \/ (StopCalled \/ \E state \in BOOLEAN : UpdateAssign(state)) /\ UNCHANGED serialVars
  \/ (Pull \/ PutBack \/ Drain) /\ UNCHANGED triggerVars

Spec == Init /\ [][Next]_vars

\* Every thread runs and none waits for a lock for ever; the device drains.  The open of
\* a device that is there ends; one that is not may keep open() busy for ever.
FairSpec ==
  /\ Spec
  /\ WF_vars(MainStep /\ UNCHANGED serialVars) /\ WF_vars(KeepaliveStep /\ UNCHANGED serialVars)
  /\ SF_vars((UpdateLock \/ StopLock) /\ UNCHANGED serialVars)
  /\ SF_vars(KeepaliveLock /\ UNCHANGED serialVars)
  /\ WF_vars(CallSend) /\ WF_vars(CallClose) /\ WF_vars(ReturnSend)
  /\ WF_vars((SendStep \/ CloseStep) /\ UNCHANGED triggerVars)
  /\ WF_vars(Reconnect /\ rcPc # "open" /\ UNCHANGED triggerVars)
  /\ WF_vars(ReconnectOpen /\ plugged /\ UNCHANGED triggerVars)
  /\ SF_vars(ReconnectHandBack /\ UNCHANGED triggerVars)
  /\ WF_vars(Drain /\ UNCHANGED triggerVars)

-----------------------------------------------------------------------------
(* Properties *)

\* However close() met the reconnect thread, the port ends closed: the next run does not
\* find it busy (trigger.py:253-266).
NothingLeftOpen == callerPc = "closed" /\ ~ Alive => opened = {} /\ ser = None

\* A far end that reads the backlog of a process that is gone reads the release last,
\* whatever the keepalive was doing, wherever an interrupt hit and whichever bytes the
\* port refused (trigger.py:358-370, 583-596).
ReleaseIsLastByte == callerPc = "closed" /\ queue # << >> => Last(queue) = FALSE

\* The frame loop has not been stopped.
Running == mainPc = "idle" \/ InUpdate

\* A byte the port refused or lost, or a stale one that slipped in behind the keepalive's
\* back, is corrected: once the state stays the same and the plug stays in, the wire
\* settles on the state, however many updates repeat it (trigger.py:513-520).
WireSettles ==
  \A state \in BOOLEAN :
    <>[](Running /\ active = state /\ plugged) => <>[](wire = state)

\* A device that stays plugged is written to again, also when the port is lost while the
\* reconnect thread is about to end (trigger.py:273-290).
Reconnects ==
  <>[](Running /\ plugged) => <>[](ser # None /\ fd = ser /\ ser \in opened \ dead)
===============================================================================

--------------------------- MODULE TriggerPortProofs ---------------------------
(***************************************************************************)
(* The trigger over its serial port, for any number of handles and any     *)
(* size of the transmit buffer: whatever the keepalive, the reconnect      *)
(* thread, the device, an interrupt and close() do to each other, the port *)
(* ends closed and the release is the last byte in it.                     *)
(***************************************************************************)
EXTENDS TriggerPort, TLAPS

InSend == {"look", "write", "drop", "clear"}
InClose == {"join", "lock", "flush", "closed"}
Sending == {"start_send", "update_send", "final_send"}
Idle == {"none", "wait", "return", "done"}   \* of the reconnect thread: it has no handle in hand

PortType ==
  /\ active \in BOOLEAN /\ arg \in BOOLEAN /\ kaArg \in BOOLEAN /\ byte \in BOOLEAN
  /\ stopEvent \in BOOLEAN /\ stop \in BOOLEAN /\ plugged \in BOOLEAN
  /\ mainPc \in Sending \cup {"start_lock", "idle", "update_lock", "stop", "stop_event", "join",
                              "final_lock", "close"}
  /\ kaPc \in {"off", "wait", "read", "lock", "send", "done"}
  /\ sendLock \in {"free", "main", "keepalive"} /\ portLock \in {"free", "caller"}
  /\ callerPc \in InSend \cup InClose \cup {"idle"}
  /\ rcPc \in Idle \cup {"open", "set_ser", "set_fd", "test", "hand_back"}
  /\ {ser, fd, fresh} \subseteq Handles \cup {None}
  /\ opened \subseteq Handles /\ dead \subseteq opened
  /\ queue \in Seq(BOOLEAN)

-----------------------------------------------------------------------------
(* The invariant, part by part *)

\* Trigger's lock: one sender at a time, none after the last send, which is a release.
OneSender ==
  /\ sendLock = "main" <=> mainPc \in Sending
  /\ sendLock = "keepalive" <=> kaPc = "send"
  /\ mainPc \in {"stop_event", "join", "final_lock", "final_send", "close"} => ~ arg
  /\ mainPc \in {"join", "final_lock", "final_send", "close"} => stopEvent
  /\ mainPc = "final_lock" => kaPc \in {"done", "send", "wait"}
  /\ mainPc \in {"final_send", "close"} => kaPc \in {"done", "wait"}

\* The transport is called by the holder of that lock, and closed by main alone.
OneCaller ==
  /\ callerPc \in InSend => sendLock # "free"
  /\ callerPc \in InSend /\ sendLock = "main" => byte = arg
  /\ callerPc \in InClose <=> stop
  /\ stop => mainPc = "close"
  /\ portLock = "caller" <=> callerPc \in InSend \cup {"flush"}

\* The port object and its descriptor, statement by statement of the reconnect thread.  Only
\* while there is no port object, or the thread has just set it, may they differ.
Fields ==
  /\ callerPc \in {"write", "drop", "clear", "flush"} => ser # None
  /\ callerPc = "clear" => ser \notin opened
  /\ ser # None => fd = ser \/ rcPc = "set_fd"
  /\ rcPc \in {"open", "set_ser"} => ser = None
  /\ rcPc \in {"set_ser", "set_fd"} => fresh # None
  /\ rcPc = "set_fd" => ser \in {fresh, None}
  /\ rcPc = "hand_back" => stop

\* At most one handle is open, and somebody knows it.
Known == IF rcPc = "set_ser" THEN opened = {fresh} ELSE opened \subseteq {ser}

\* Whom close() can have met: the thread inside open(), or none.
Closing ==
  /\ callerPc \in {"lock", "flush", "closed"} => rcPc # "wait" /\ (rcPc = "return" => ser = None)
  /\ callerPc = "closed" /\ rcPc \in {"none", "done"} => ser = None

\* Bytes are behind a live port only, until close().
Backlog ==
  /\ ~ stop /\ (ser \notin opened \/ ser \in dead) => queue = << >>
  /\ ~ stop /\ rcPc = "set_fd" /\ fd # ser => queue = << >>
  /\ callerPc \in {"drop", "clear"} => queue = << >>
  /\ Len(queue) <= CAP
  /\ rcPc \in {"set_fd", "test"} /\ mainPc # "close" =>
       /\ Len(queue) < CAP
       /\ callerPc \in {"look", "write"} /\ mainPc # "final_send" => Len(queue) + 1 < CAP

\* After the last send the release is the last byte, or it was refused by a full buffer
\* whose port close() is going to flush.
Released(q) == q # << >> => ~ Last(q)
Refused ==
  /\ callerPc # "closed" /\ rcPc \in Idle
  /\ ser # None /\ fd = ser /\ ser \in opened \ dead
AfterLast == mainPc = "close" => Released(queue) \/ Refused

PortInv ==
  PortType /\ OneSender /\ OneCaller /\ Fields /\ Known /\ Closing /\ Backlog /\ AfterLast

-----------------------------------------------------------------------------
\* What the transmit buffer does.
LEMMA ShortQueues ==
  /\ << >> \in Seq(BOOLEAN) /\ Len(<< >>) = 0
  /\ <<FALSE>> \in Seq(BOOLEAN) /\ Len(<<FALSE>>) = 1 /\ Last(<<FALSE>>) = FALSE
BY DEF Last

LEMMA AppendIs ==
  ASSUME NEW q \in Seq(BOOLEAN), NEW b \in BOOLEAN
  PROVE  /\ Append(q, b) \in Seq(BOOLEAN) /\ Len(Append(q, b)) = Len(q) + 1
         /\ Append(q, b) # << >> /\ Last(Append(q, b)) = b
BY DEF Last

LEMMA TailIs ==
  ASSUME NEW q \in Seq(BOOLEAN), q # << >>
  PROVE  /\ Tail(q) \in Seq(BOOLEAN) /\ Len(Tail(q)) = Len(q) - 1 /\ Len(q) > 0
         /\ Tail(q) # << >> => Last(Tail(q)) = Last(q)
BY DEF Last

\* The port of the constructor is the one handle that is open.
LEMMA PortInvInit == Init => PortInv
<1> SUFFICES ASSUME Init PROVE PortInv
  OBVIOUS
<1> USE SerialAssumption DEF Init, TriggerInit, SerialInit, InSend, InClose, Sending, Idle
<1>1. PortType BY ShortQueues DEF PortType
<1>2. OneSender /\ OneCaller BY DEF OneSender, OneCaller
<1>3. Fields /\ Known BY DEF Fields, Known
<1>4. Closing /\ Backlog /\ AfterLast BY DEF Closing, Backlog, AfterLast
<1> QED BY <1>1, <1>2, <1>3, <1>4 DEF PortInv

\* The threads outside transport.send.
LEMMA TriggerKeeps == ASSUME PortInv, Trigger PROVE PortInv'
<1> USE DEF PortInv, PortType, OneSender, OneCaller, Fields, Known, Closing, Backlog, AfterLast, Released, Refused,
        InSend, InClose, Sending, Idle, self, device, triggerVars, serialVars, InUpdate, Alive, Close
<1>1. CASE StartLock BY <1>1 DEF Trigger, StartLock, MainAcquire
<1>2. CASE UpdateLock BY <1>2 DEF Trigger, UpdateLock, MainAcquire
<1>3. CASE StopAssign
  <2>1. PortType' BY <1>3 DEF Trigger, StopAssign
  <2>2. (OneSender /\ OneCaller)' BY <1>3 DEF Trigger, StopAssign
  <2>3. (Fields /\ Known /\ Closing /\ Backlog /\ AfterLast)' BY <1>3 DEF Trigger, StopAssign
  <2> QED BY <2>1, <2>2, <2>3
<1>4. CASE StopSet BY <1>4 DEF Trigger, StopSet, MainAcquire
<1>5. CASE StopJoin BY <1>5 DEF Trigger, StopJoin, MainAcquire
<1>6. CASE StopLock BY <1>6 DEF Trigger, StopLock, MainAcquire
<1>7. CASE KeepaliveWake BY <1>7 DEF Trigger, KeepaliveWake, MainAcquire
<1>8. CASE KeepaliveRead BY <1>8 DEF Trigger, KeepaliveRead, MainAcquire
<1>9. CASE KeepaliveLock BY <1>9 DEF Trigger, KeepaliveLock, MainAcquire
<1> QED BY <1>1, <1>2, <1>3, <1>4, <1>5, <1>6, <1>7, <1>8, <1>9 DEF Trigger, MainStep, KeepaliveStep

\* The transport between its calls and returns.
LEMMA TransportKeeps == ASSUME PortInv, Transport PROVE PortInv'
<1> USE SerialAssumption DEF PortInv, PortType, OneSender, OneCaller, Fields, Known, Closing, Backlog, AfterLast, Released, Refused,
        InSend, InClose, Sending, Idle, self, device, triggerVars, serialVars, InUpdate, Alive, Close
<1>1. CASE SendHasHandle BY <1>1 DEF Transport, SendHasHandle
<1>2. CASE SendFails BY <1>2 DEF Transport, SendFails
<1>3. CASE DropClose BY <1>3 DEF Transport, DropClose
<1>4. CASE CloseJoin BY <1>4 DEF Transport, CloseJoin
<1>5. CASE CloseLock BY <1>5 DEF Transport, CloseLock
<1>6. CASE CloseFlush
  <2>1. PortType' BY <1>6, ShortQueues DEF Transport, CloseFlush
  <2>2. (OneSender /\ OneCaller)' BY <1>6 DEF Transport, CloseFlush
  <2>3. (Fields /\ Known /\ Closing)' BY <1>6 DEF Transport, CloseFlush
  <2>4. (Backlog /\ AfterLast)' BY <1>6, ShortQueues DEF Transport, CloseFlush
  <2> QED BY <2>1, <2>2, <2>3, <2>4
<1>7. CASE ReconnectWait BY <1>7 DEF Transport, ReconnectWait
<1>8. CASE ReconnectOpen BY <1>8 DEF Transport, ReconnectOpen
<1>9. CASE ReconnectSetSer BY <1>9 DEF Transport, ReconnectSetSer
<1>10. CASE ReconnectSetFd BY <1>10 DEF Transport, ReconnectSetFd
<1>11. CASE ReconnectTest BY <1>11 DEF Transport, ReconnectTest
<1>12. CASE ReconnectHandBack BY <1>12 DEF Transport, ReconnectHandBack
<1>13. CASE ReconnectReturn BY <1>13 DEF Transport, ReconnectReturn
<1> QED BY <1>1, <1>2, <1>3, <1>4, <1>5, <1>6, <1>7, <1>8, <1>9, <1>10, <1>11, <1>12, <1>13 DEF Transport, SendStep, CloseStep, Reconnect

\* A call, also the last one and close().
LEMMA CallKeeps == ASSUME PortInv, CallSend \/ CallClose PROVE PortInv'
<1> USE SerialAssumption DEF PortInv, PortType, OneSender, OneCaller, Fields, Known, Closing, Backlog, AfterLast, Released, Refused,
        InSend, InClose, Sending, Idle, self, device, triggerVars, serialVars, InUpdate, Alive, Close
<1>1. CASE CallSend BY <1>1 DEF CallSend, Begin, RoomForAWhile
<1>2. CASE CallClose BY <1>2 DEF CallClose, CloseSet
<1> QED BY <1>1, <1>2

\* A send that returns: refused for want of a handle, written or dropped, or with the
\* connection given up.
LEMMA ReturnKeeps == ASSUME PortInv, ReturnSend PROVE PortInv'
<1> USE SerialAssumption DEF PortInv, PortType, OneSender, OneCaller, Fields, Known, Closing, Backlog, AfterLast, Released, Refused,
        InSend, InClose, Sending, Idle, self, device, triggerVars, serialVars, InUpdate, Alive, Close
<1> USE DEF ReturnSend, SendReturns, StartSend, UpdateSend, StopSend, KeepaliveSend, MainTransport
<1>1. CASE SendNoHandle BY <1>1 DEF SendNoHandle, StartReconnecting
<1>2. CASE SendWrite /\ (fd = None \/ Len(queue) = CAP) /\ UNCHANGED queue
  <2>1. (PortType /\ OneSender /\ OneCaller)' BY <1>2 DEF SendWrite
  <2>2. (Fields /\ Known /\ Closing)' BY <1>2 DEF SendWrite
  <2>3. (Backlog)' BY <1>2 DEF SendWrite
  <2>4. AfterLast' BY <1>2 DEF SendWrite
  <2> QED BY <2>1, <2>2, <2>3, <2>4
<1>3. CASE SendWrite /\ queue' = Append(queue, byte) /\ Len(queue) # CAP
  <2>1. /\ queue' \in Seq(BOOLEAN) /\ Len(queue') = Len(queue) + 1 /\ queue' # << >> /\ Last(queue') = byte
    BY <1>3, AppendIs
  <2>2. fd = ser /\ ser \in opened \ dead
    BY <1>3 DEF SendWrite
  <2>3. (PortType /\ OneSender /\ OneCaller)' BY <1>3, <2>1 DEF SendWrite
  <2>4. (Fields /\ Known /\ Closing)' BY <1>3, <2>2 DEF SendWrite
  <2>5. Backlog' BY <1>3, <2>1, <2>2 DEF SendWrite
  <2>6. AfterLast' BY <1>3, <2>1, <2>2 DEF SendWrite
  <2> QED BY <2>3, <2>4, <2>5, <2>6
<1>4. CASE DropClear
  <2>1. (PortType /\ OneSender /\ OneCaller)' BY <1>4 DEF DropClear, StartReconnecting
  <2>2. (Fields /\ Known /\ Closing)' BY <1>4 DEF DropClear, StartReconnecting
  <2>3. (Backlog)' BY <1>4 DEF DropClear, StartReconnecting
  <2>4. AfterLast' BY <1>4 DEF DropClear, StartReconnecting
  <2> QED BY <2>1, <2>2, <2>3, <2>4
<1> QED BY <1>1, <1>2, <1>3, <1>4 DEF SendReturn, SendWrite

\* Ctrl-C or SIGTERM in update, inside send or outside.
LEMMA InterruptKeeps == ASSUME PortInv, Interrupt PROVE PortInv'
<1> USE SerialAssumption DEF PortInv, PortType, OneSender, OneCaller, Fields, Known, Closing, Backlog, AfterLast, Released, Refused,
        InSend, InClose, Sending, Idle, self, device, triggerVars, serialVars, InUpdate, Alive, Close
<1> QED BY DEF Interrupt, UpdateInterrupted, SendInterrupted

\* The frame loop's next call, and the device.
LEMMA WorldKeeps ==
  ASSUME PortInv,
         \/ (StopCalled \/ \E state \in BOOLEAN : UpdateAssign(state)) /\ UNCHANGED serialVars
         \/ (Pull \/ PutBack \/ Drain) /\ UNCHANGED triggerVars
  PROVE  PortInv'
<1> USE SerialAssumption DEF PortInv, PortType, OneSender, OneCaller, Fields, Known, Closing, Backlog, AfterLast, Released, Refused,
        InSend, InClose, Sending, Idle, self, device, triggerVars, serialVars, InUpdate, Alive, Close
<1>1. CASE StopCalled /\ UNCHANGED serialVars BY <1>1 DEF StopCalled
<1>2. ASSUME NEW state \in BOOLEAN, UpdateAssign(state), UNCHANGED serialVars PROVE PortInv'
  BY <1>2 DEF UpdateAssign
<1>3. CASE Pull /\ UNCHANGED triggerVars
  <2>1. PortType'
    <3>1. queue' \in Seq(BOOLEAN) BY <1>3, ShortQueues DEF Pull
    <3>2. dead' \subseteq opened' /\ opened' \subseteq Handles /\ plugged' \in BOOLEAN BY <1>3 DEF Pull
    <3> QED BY <1>3, <3>1, <3>2 DEF Pull
  <2>5. (OneSender /\ OneCaller)' BY <1>3 DEF Pull
  <2>2. (Fields /\ Known /\ Closing)' BY <1>3 DEF Pull
  <2>3. (Backlog)' BY <1>3, ShortQueues DEF Pull
  <2>4. AfterLast' BY <1>3 DEF Pull
  <2> QED BY <2>1, <2>2, <2>3, <2>4, <2>5
<1>4. CASE PutBack /\ UNCHANGED triggerVars BY <1>4 DEF PutBack
<1>5. CASE Drain /\ UNCHANGED triggerVars BY <1>5, TailIs DEF Drain
<1> QED BY <1>1, <1>2, <1>3, <1>4, <1>5

LEMMA PortInvAlways == Spec => []PortInv
<1>1. PortInv /\ [Next]_vars => PortInv'
  <2> SUFFICES ASSUME PortInv, [Next]_vars PROVE PortInv'
    OBVIOUS
  <2>1. CASE UNCHANGED vars
    BY <2>1 DEF vars, PortInv, PortType, OneSender, OneCaller, Fields, Known, Closing, Backlog, AfterLast, Released, Refused,
        InSend, InClose, Sending, Idle, self, device, triggerVars, serialVars, InUpdate, Alive, Close
  <2> QED BY <2>1, TriggerKeeps, TransportKeeps, CallKeeps, ReturnKeeps, InterruptKeeps, WorldKeeps DEF Next
<1> QED BY PortInvInit, <1>1, PTL DEF Spec

-----------------------------------------------------------------------------
\* The port ends closed, and with it every handle the reconnect thread ever had
\* (trigger.py:253-266).
THEOREM NothingEverLeftOpen == Spec => []NothingLeftOpen
<1>1. PortInv => NothingLeftOpen
  BY SerialAssumption DEF PortInv, PortType, Idle, Known, Closing, Alive, NothingLeftOpen
<1> QED BY PortInvAlways, <1>1, PTL

\* Nothing but the release is the last byte of a port that was closed
\* (trigger.py:358-370, 583-596).
THEOREM ReleaseAlwaysLastByte == Spec => []ReleaseIsLastByte
<1>1. PortInv => ReleaseIsLastByte
  BY DEF PortInv, PortType, OneCaller, InClose, AfterLast, Released, Refused, ReleaseIsLastByte
<1> QED BY PortInvAlways, <1>1, PTL
===============================================================================

------------------------------- MODULE VideoLink -------------------------------
(***************************************************************************)
(* From the screen of the PC to the frame loop of the Mac: WindowsAgent    *)
(* and UdpSource with the network between them, which loses a datagram or  *)
(* lets others overtake it, and where somebody else may send to the port.  *)
(* The agent may be stopped and started again.                             *)
(***************************************************************************)
EXTENDS WindowsAgent, UdpSource

CONSTANT MaxMishaps  \* bound of the model on switches, restarts, runts and overtaken datagrams together

ASSUME VideoAssumption == MaxMishaps \in Nat

VARIABLES
  launches, runts, overtaken,  \* how many so far
  lost,    \* numbers lost on the way in the first launch
  late,    \* a datagram that others overtake, or None
  missed   \* the last frame that was sent cannot be the one that is shown (history)

mishaps == <<launches, runts, overtaken>>
network == <<mishaps, lost, late, missed>>
videoVars == <<agentVars, udpVars, network>>

Calm == switches + launches - 1 + runts + overtaken < MaxMishaps

-----------------------------------------------------------------------------
\* sendto, and what becomes of the datagram.
Transmit ==
  LET d == [seq |-> sequence, frame |-> frame]
  IN  /\ Send
      /\ \/ socket' = Append(socket, d) /\ missed' = FALSE
            /\ UNCHANGED <<lost, late, overtaken>>
         \/ /\ lost' = IF launches = 1 THEN lost \cup {sequence} ELSE lost
            /\ missed' = TRUE
            /\ UNCHANGED <<socket, late, overtaken>>
         \/ /\ Calm /\ late = None
            /\ late' = d /\ overtaken' = overtaken + 1 /\ missed' = FALSE
            /\ UNCHANGED <<socket, lost>>
      /\ UNCHANGED <<launches, runts, udpPc, data, dropped, shown, tracker, unattributed>>

\* Behind newer ones, it is the one that is shown.
Overtaken ==
  /\ late # None
  /\ socket' = Append(socket, late) /\ late' = None
  /\ missed' = (missed \/ sequence # late.seq + 1)
  /\ UNCHANGED <<agentVars, mishaps, lost, udpPc, data, dropped, shown, tracker, unattributed>>

Relaunch ==
  /\ Calm
  /\ Restart
  /\ launches' = launches + 1 /\ missed' = FALSE
  /\ UNCHANGED <<runts, overtaken, lost, late, udpVars>>

SendRunt ==
  /\ Calm
  /\ runts' = runts + 1
  /\ socket' = Append(socket, Runt)
  /\ UNCHANGED <<agentVars, launches, overtaken, lost, late, missed, udpPc, data, dropped, shown, tracker, unattributed>>

\* The flush of the start drops what came during the warmup, and a drain that ends on a
\* runt what came before it.
Receive ==
  /\ UdpNext
  /\ missed' = \/ missed
               \/ UdpFlush /\ socket # << >>
               \/ Return /\ data = Runt /\ dropped > 0
  /\ UNCHANGED <<agentVars, mishaps, lost, late>>

Agent ==
  \/ Quiet /\ UNCHANGED <<udpVars, network>>
  \/ Transmit

VideoInit ==
  /\ AgentInit /\ UdpInit
  /\ launches = 1 /\ runts = 0 /\ overtaken = 0 /\ lost = {} /\ late = None /\ missed = FALSE

VideoNext ==
  \/ Desktop /\ (switches' = switches \/ Calm) /\ UNCHANGED <<udpVars, network>>
  \/ Agent \/ Receive \/ Overtaken \/ Relaunch \/ SendRunt

VideoSpec == VideoInit /\ [][VideoNext]_videoVars

-----------------------------------------------------------------------------
(* Properties *)

\* What the tracker calls lost in transit was lost in transit, and all of it
\* (udp.py:59-62), however losses, drops and the flush mix, and whatever frames the agent
\* does not send at all; as long as the agent is not restarted and nothing is overtaken.
\* Each datagram that is no frame can hide one loss.
LossExact ==
  launches = 1 /\ overtaken = 0 /\ last_seq # None =>
    LET between == Cardinality({s \in lost : first < s /\ s < last_seq})
    IN  between - runts <= lost_in_transit /\ lost_in_transit <= between

\* "Silence on the wire is normal and holding is right" (sources/__init__.py:57-58): when
\* the screen comes to rest on a frame that fits, the frame loop gets it; cursor moves,
\* timeouts, lost duplications and drains never swallow it.  Only a datagram that was lost,
\* dropped by the flush or in front of a runt, or overtaken, leaves the Mac with another.
HoldIsRight ==
  \A v \in 0 .. MaxVersion \ Big :
    <>[](screen = v /\ ~ g_stopRequested /\ pc # "exited") => <>[](shown = v \/ missed)
===============================================================================

------------------------------ MODULE UdpSource ------------------------------
(***************************************************************************)
(* mac-app/macvision/sources/udp.py: datagrams pile up in the socket while *)
(* the frame loop infers; recv() takes the newest, and SequenceTracker     *)
(* splits what is missing into frames dropped here and frames lost on the  *)
(* way.  What a frame shows is a version of the screen; the decoder is     *)
(* left out, as it has no influence on the accounting.                     *)
(***************************************************************************)
EXTENDS Integers, FiniteSets, Sequences

CONSTANT None

ASSUME UdpAssumption == None \notin Int

\* A datagram is [seq, frame]; a runt is shorter than the header.
Runt == [seq |-> None, frame |-> None]

VARIABLES
  socket,                      \* datagrams in the socket buffer
  udpPc,                       \* "warmup", "recv", "drain"
  data, dropped,               \* locals of recv
  shown,                       \* the frame that was returned last, or None
  first, last_seq,             \* the first number observed; SequenceTracker.last_seq
  lost_in_transit, restarts,   \* SequenceTracker
  unattributed                 \* _unattributed_drops

tracker == <<first, last_seq, lost_in_transit, restarts>>
udpVars == <<socket, udpPc, data, dropped, shown, tracker, unattributed>>

-----------------------------------------------------------------------------
(* Mutations: each breaks the property named with it. *)

\* LossExact: what was dropped here is not taken off.
observe_AllLost(seq, drops) ==
  /\ last_seq' = seq
  /\ first' = IF last_seq = None THEN seq ELSE first
  /\ restarts' = IF last_seq # None /\ seq <= last_seq THEN restarts + 1 ELSE restarts
  /\ lost_in_transit' = IF last_seq # None /\ seq > last_seq + 1
                        THEN lost_in_transit + (seq - last_seq - 1) ELSE lost_in_transit

-----------------------------------------------------------------------------
(* SequenceTracker *)

observe(seq, drops) ==
  /\ last_seq' = seq
  /\ first' = IF last_seq = None THEN seq ELSE first
  /\ restarts' = IF last_seq # None /\ seq <= last_seq THEN restarts + 1 ELSE restarts
  /\ lost_in_transit' = IF last_seq # None /\ seq > last_seq + 1
                        THEN lost_in_transit + (seq - last_seq - 1 - drops) ELSE lost_in_transit

-----------------------------------------------------------------------------
(* UdpSource *)

\* Everything that came during the model warmup.
UdpFlush ==
  /\ udpPc = "warmup"
  /\ unattributed' = unattributed + Len(socket) /\ socket' = << >>
  /\ udpPc' = "recv"
  /\ UNCHANGED <<data, dropped, shown, tracker>>

\* The blocking read, then the drain, then the datagram that is left.
UdpRecv ==
  /\ udpPc = "recv" /\ socket # << >>
  /\ data' = Head(socket) /\ socket' = Tail(socket)
  /\ dropped' = 0 /\ udpPc' = "drain"
  /\ UNCHANGED <<shown, tracker, unattributed>>

Drain ==
  /\ udpPc = "drain" /\ socket # << >>
  /\ data' = Head(socket) /\ socket' = Tail(socket)
  /\ dropped' = dropped + 1
  /\ UNCHANGED <<udpPc, shown, tracker, unattributed>>

unpack_header(d) == d # Runt

ReturnFrame ==
  /\ unpack_header(data)
  /\ shown' = data.frame
  /\ observe(data.seq, dropped + unattributed) /\ unattributed' = 0

ReturnNothing ==
  /\ ~ unpack_header(data)
  /\ unattributed' = unattributed + dropped
  /\ UNCHANGED <<shown, tracker>>

Return ==
  /\ udpPc = "drain" /\ socket = << >>
  /\ udpPc' = "recv"
  /\ ReturnFrame \/ ReturnNothing
  /\ UNCHANGED <<socket, data, dropped>>

UdpInit ==
  /\ socket = << >> /\ udpPc = "warmup"
  /\ data = Runt /\ dropped = 0 /\ shown = None
  /\ first = None /\ last_seq = None
  /\ lost_in_transit = 0 /\ restarts = 0 /\ unattributed = 0

UdpNext == UdpFlush \/ UdpRecv \/ Drain \/ Return
===============================================================================

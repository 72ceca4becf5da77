------------------------------ MODULE VideoProofs ------------------------------
(***************************************************************************)
(* The video link for any number of datagrams, losses, runts and restarts; *)
(* and CameraSource for every number of failures before a reopen, every    *)
(* staleness deadline, any number of handles and of frames, where the      *)
(* reader, recv and close meet in any order.                               *)
(***************************************************************************)
EXTENDS MCVideo, FiniteSetTheorems, TLAPS

Swapping == {"swap", "release"}

CameraType ==
  /\ rdPc \in Swapping \cup {"read", "pause", "backoff", "publish", "done"}
  /\ camPc \in {"warmup", "loop", "recv", "join", "closed"}
  /\ stop \in BOOLEAN /\ gaveUp \in BOOLEAN /\ pending \in BOOLEAN
  /\ seq \in Nat /\ sinceRecv \in Nat
  /\ taken \in Nat /\ reported \in Nat /\ flushed \in Nat
  /\ waited \in Nat /\ silence \in Nat

\* The wait of this recv is no longer than the silence, unless a frame is there to take.
WaitIsSilence == camPc = "recv" /\ ~ pending => waited <= silence

\* Who has to release what is open: the reader the one it trades, close() the one in place.
\* A close() that gave up finds the reader in the middle of trading, and stops a second one.
Owned ==
  /\ rdPc \in Swapping => fresh # cap
  /\ camPc \in {"join", "closed"} => stop
  /\ camPc # "closed" => opened = IF rdPc \in Swapping THEN {cap, fresh} ELSE {cap}
  /\ camPc = "closed" =>
       CASE rdPc = "swap" -> gaveUp /\ opened = {fresh}
         [] rdPc = "release" -> gaveUp /\ opened = {cap}
         [] OTHER -> opened = {} \/ (gaveUp /\ opened = {cap})

CameraInv == CameraType /\ FramesAccounted /\ WaitIsSilence /\ Owned

-----------------------------------------------------------------------------
\* A camera that has just been opened holds one handle and no frame.
LEMMA CameraInvInit == CameraInit => CameraInv
<1> SUFFICES ASSUME CameraInit PROVE CameraInv
  OBVIOUS
<1>1. CameraType /\ WaitIsSilence
  BY DEF CameraInit, CameraType, WaitIsSilence, Swapping
<1>2. FramesAccounted
  BY DEF CameraInit, FramesAccounted
<1>3. Owned
  BY DEF CameraInit, Owned, Swapping
<1> QED BY <1>1, <1>2, <1>3 DEF CameraInv

\* One step per action.
LEMMA CameraInvNext == CameraInv /\ [CameraNext]_cameraVars => CameraInv'
<1> SUFFICES ASSUME CameraInv, [CameraNext]_cameraVars PROVE CameraInv'
  OBVIOUS
<1> USE CameraAssumption
<1> USE DEF CameraInv, CameraType, Swapping, FramesAccounted, WaitIsSilence, Owned,
        handles, reader, buffer, counts, loop
<1>1. CASE DeviceFails BY <1>1 DEF DeviceFails
<1>2. CASE DeviceBack BY <1>2 DEF DeviceBack
<1>3. CASE ReaderEnds BY <1>3 DEF ReaderEnds
<1>4. CASE ReadFrame BY <1>4 DEF ReadFrame
<1>5. CASE Publish BY <1>5 DEF Publish
<1>6. CASE ReadFails BY <1>6 DEF ReadFails
<1>7. CASE Pause BY <1>7 DEF Pause
<1>8. CASE Reopen BY <1>8 DEF Reopen
<1>9. CASE ReopenFails BY <1>9 DEF ReopenFails
<1>10. CASE ReopenSwap BY <1>10 DEF ReopenSwap
<1>11. CASE ReopenRelease BY <1>11 DEF ReopenRelease
<1>12. CASE CameraFlush
  <2>1. FramesAccounted'
    <3>1. CASE pending BY <1>12, <3>1 DEF CameraFlush
    <3>2. CASE ~ pending BY <1>12, <3>2 DEF CameraFlush
    <3> QED BY <3>1, <3>2
  <2>2. CameraType'
    <3>1. sinceRecv \in Nat /\ flushed \in Nat /\ (IF pending THEN 1 ELSE 0) \in Nat
      OBVIOUS
    <3>2. flushed' \in Nat
      BY ONLY <3>1, <1>12 DEF CameraFlush
    <3> QED BY <1>12, <3>2 DEF CameraFlush
  <2>3. WaitIsSilence' /\ Owned'
    BY <1>12 DEF CameraFlush
  <2> QED BY <2>1, <2>2, <2>3
<1>13. CASE RecvBegin BY <1>13 DEF RecvBegin
<1>14. CASE RecvFrame
  <2>1. FramesAccounted'
    BY <1>14 DEF RecvFrame
  <2>2. CameraType'
    <3>1. taken \in Nat /\ reported \in Nat /\ sinceRecv \in Nat
      OBVIOUS
    <3>2. taken' \in Nat /\ reported' \in Nat
      BY ONLY <3>1, <1>14 DEF RecvFrame
    <3> QED BY <1>14, <3>2 DEF RecvFrame
  <2>3. WaitIsSilence' /\ Owned'
    BY <1>14 DEF RecvFrame
  <2> QED BY <2>1, <2>2, <2>3
<1>15. CASE RecvStale BY <1>15 DEF RecvStale
<1>16. CASE CloseSet BY <1>16 DEF CloseSet
<1>17. CASE CloseRelease BY <1>17 DEF CloseRelease
<1>18. CASE Tick BY <1>18 DEF Tick
<1>19. CASE UNCHANGED cameraVars BY <1>19 DEF cameraVars
<1> QED
  BY <1>1, <1>2, <1>3, <1>4, <1>5, <1>6, <1>7, <1>8, <1>9, <1>10, <1>11, <1>12, <1>13, <1>14, <1>15,
     <1>16, <1>17, <1>18, <1>19 DEF CameraNext, Reader, Recv

LEMMA CameraInvAlways == CameraSpec => []CameraInv
BY CameraInvInit, CameraInvNext, PTL DEF CameraSpec

-----------------------------------------------------------------------------
\* No frame is lost from the books, however publishing, taking and flushing interleave
\* (camera.py:278-289, 293-326).
THEOREM FramesAlwaysAccounted == CameraSpec => []FramesAccounted
<1>1. CameraInv => FramesAccounted
  BY DEF CameraInv
<1> QED BY CameraInvAlways, <1>1, PTL

\* Stale is never declared of a camera that delivered within the deadline
\* (camera.py:293-314).
THEOREM StaleIsAlwaysSilence == CameraSpec => StaleIsSilence
<1>1. CameraInv /\ [CameraNext]_cameraVars => [RecvStale => silence >= STALE]_cameraVars
  BY CameraAssumption DEF CameraInv, CameraType, WaitIsSilence, RecvStale
<1> QED BY CameraInvAlways, <1>1, PTL DEF CameraSpec, StaleIsSilence

\* At most two handles are open at any time, and after close() and the reader's end none,
\* but for the one that a close() which gave up could not see (camera.py:205-227, 343-356).
THEOREM HandlesAlwaysReleased == CameraSpec => []CameraReleased
<1>1. ASSUME CameraInv PROVE CameraReleased
  <2>1. opened \subseteq {cap, fresh}
    BY <1>1 DEF CameraInv, CameraType, Owned, Swapping
  <2>2. IsFiniteSet({cap, fresh}) /\ Cardinality({cap, fresh}) <= 2
    <3>1. IsFiniteSet({cap}) /\ Cardinality({cap}) = 1
      BY FS_Singleton
    <3>2. {cap, fresh} = {cap} \cup {fresh}
      OBVIOUS
    <3>3. /\ IsFiniteSet({cap} \cup {fresh})
          /\ Cardinality({cap} \cup {fresh}) = IF fresh \in {cap} THEN 1 ELSE 1 + 1
      BY <3>1, FS_AddElement
    <3> QED BY <3>2, <3>3
  <2>3. Cardinality(opened) <= 2
    BY <2>1, <2>2, FS_Subset, FS_CardinalityType
  <2>4. camPc = "closed" /\ rdPc = "done" => opened = {} \/ (gaveUp /\ opened = {cap})
    BY <1>1 DEF CameraInv, Owned
  <2> QED BY <2>3, <2>4 DEF CameraReleased
<1> QED BY CameraInvAlways, <1>1, PTL

-----------------------------------------------------------------------------
(* FormatMatches: the staging texture has the format that m_format says, so  *)
(* a format that differs from m_format is one the texture does not have.     *)

TextureInv ==
  /\ FormatMatches
  /\ staging = "none" \/ staging = m_format

LEMMA TextureInit == VideoInit => TextureInv
BY DEF VideoInit, AgentInit, TextureInv, FormatMatches

LEMMA TextureStep == TextureInv /\ [VideoNext]_videoVars => TextureInv'
<1> SUFFICES ASSUME TextureInv, [VideoNext]_videoVars PROVE TextureInv'
  OBVIOUS
<1> USE DEF TextureInv, FormatMatches, texture, Supported
<1>1. CASE Desktop
  BY <1>1 DEF Desktop, Change, MoveCursor, SwitchDesktop, SwitchFormat, OnSigInt
<1>2. CASE Quiet
  <2>1. CASE LoopHead BY <2>1 DEF LoopHead
  <2>2. CASE AcquireTimeout \/ AcquireCursor BY <2>2 DEF AcquireTimeout, AcquireCursor
  <2>3. CASE AcquireLost BY <2>3 DEF AcquireLost, Throw
  <2>4. CASE AcquireFrame BY <2>4 DEF AcquireFrame
  <2>5. CASE Crop BY <2>5 DEF Crop
  <2>6. CASE CropUnsupported BY <2>6 DEF CropUnsupported, Throw
  <2>7. CASE Encode BY <2>7 DEF Encode
  <2> QED
    BY <1>2, <2>1, <2>2, <2>3, <2>4, <2>5, <2>6, <2>7 DEF Quiet
<1>3. CASE Transmit BY <1>3 DEF Transmit, Send
<1>4. CASE Receive \/ Overtaken \/ SendRunt
  <2>1. UNCHANGED agentVars
    BY <1>4 DEF Receive, Overtaken, SendRunt
  <2> QED
    BY <2>1 DEF agentVars, process
<1>5. CASE Relaunch BY <1>5 DEF Relaunch, Restart
<1>6. CASE UNCHANGED videoVars BY <1>6 DEF videoVars, agentVars, process
<1> QED
  BY <1>1, <1>2, <1>3, <1>4, <1>5, <1>6 DEF VideoNext, Agent

\* The encoder reads the pixels in the format they are in, however often the surface's format
\* changes, the duplication is lost and the agent is started again (capture.cpp:170-175,
\* 238-245).
THEOREM FormatAlwaysMatches == VideoSpec => []FormatMatches
<1>1. TextureInv => FormatMatches
  BY DEF TextureInv
<1> QED
  BY TextureInit, TextureStep, <1>1, PTL DEF VideoSpec

-----------------------------------------------------------------------------
(* LossExact: every frame that was sent and not lost on the way is in the    *)
(* socket or was counted, and each datagram counted too many is a runt.      *)

Sent == [seq : Nat, frame : Nat]
Datagrams == Sent \cup {Runt}

VideoType ==
  /\ sequence \in Nat /\ frame \in Nat /\ screen \in Nat
  /\ socket \in Seq(Datagrams) /\ data \in Datagrams /\ late \in Sent \cup {None}
  /\ udpPc \in {"warmup", "recv", "drain"}
  /\ dropped \in Nat /\ unattributed \in Nat /\ runts \in Nat
  /\ launches \in Nat \ {0} /\ overtaken \in Nat
  /\ lost \in SUBSET Nat /\ lost_in_transit \in Int
  /\ first \in Nat \cup {None} /\ last_seq \in Nat \cup {None}

\* The numbers of the frames in a queue, and that they rise.
Numbers(q) == {q[i].seq : i \in {j \in DOMAIN q : q[j] # Runt}}
Rising(q) == \A i, j \in DOMAIN q :
  i < j /\ q[i] # Runt /\ q[j] # Runt => q[i].seq < q[j].seq

\* Frame w is on this side of the network and everything sent after it is lost or in the socket.
Newest(w) ==
  /\ w \in 0 .. sequence - 1 /\ w \notin lost
  /\ \A x \in w + 1 .. sequence - 1 : x \in lost \/ x \in Numbers(socket)
  /\ last_seq # None => last_seq < w

InHand == udpPc = "drain" /\ data # Runt

Pipeline ==
  /\ late = None
  /\ \A x \in lost : x < sequence
  /\ Rising(socket)
  /\ \A w \in Numbers(socket) : Newest(w)
  /\ InHand => Newest(data.seq) /\ \A w \in Numbers(socket) : data.seq < w
  /\ udpPc = "warmup" => last_seq = None
  /\ last_seq = None => lost_in_transit = 0
  /\ last_seq # None => /\ first \in Nat /\ first <= last_seq
                        /\ last_seq < sequence /\ last_seq \notin lost

\* What was read since the last frame that was returned, and what of it can be a frame.
Read == unattributed + (IF udpPc = "drain" THEN dropped + 1 ELSE 0)
ReadFrames == Read - (IF udpPc = "drain" /\ data = Runt THEN 1 ELSE 0)

\* Frames that left the agent after the last one returned and were not lost.
Since == (last_seq + 1 .. sequence - 1) \ lost
Between == {s \in lost : first < s /\ s < last_seq}

Books ==
  last_seq # None =>
    /\ Cardinality(Since \ Numbers(socket)) <= ReadFrames
    /\ lost_in_transit <= Cardinality(Between)
    /\ Cardinality(Between) - lost_in_transit + Read + Len(socket) - Cardinality(Since) <= runts

InOrder == launches = 1 /\ overtaken = 0

LossInv == VideoType /\ (InOrder => Pipeline /\ Books)

-----------------------------------------------------------------------------
\* A datagram with a number is not a runt.
LEMMA RuntIs ==
  /\ \A d \in Sent : d # Runt /\ d.seq \in Nat /\ d.frame \in Nat
  /\ \A d \in Datagrams : d # Runt => d \in Sent
<1>1. \A d \in Sent : d.seq \in Nat /\ d.frame \in Nat
  BY DEF Sent
<1>2. Runt.seq = None /\ None \notin Nat
  BY UdpAssumption DEF Runt
<1> QED
  BY <1>1, <1>2 DEF Datagrams

LEMMA NumbersOfAppend ==
  ASSUME NEW q \in Seq(Datagrams), NEW d \in Datagrams,
         Rising(q), d # Runt => \A w \in Numbers(q) : w < d.seq
  PROVE  /\ Append(q, d) \in Seq(Datagrams) /\ Len(Append(q, d)) = Len(q) + 1
         /\ Numbers(Append(q, d)) = Numbers(q) \cup (IF d = Runt THEN {} ELSE {d.seq})
         /\ Rising(Append(q, d))
<1> DEFINE N == Len(q)
           p == Append(q, d)
<1>1. /\ N \in Nat /\ p \in Seq(Datagrams) /\ Len(p) = N + 1
      /\ DOMAIN q = 1 .. N /\ DOMAIN p = 1 .. N + 1
      /\ \A i \in 1 .. N : p[i] = q[i]
      /\ p[N + 1] = d
  OBVIOUS
<1> HIDE DEF N, p
<1>2. N + 1 \in 1 .. N + 1 /\ \A i \in 1 .. N + 1 : i \in 1 .. N \/ i = N + 1
  BY <1>1
<1>3. \A i \in 1 .. N : i \in 1 .. N + 1 /\ i < N + 1 /\ ~ (N + 1 < i)
  BY <1>1
<1>4. \A x : x \in Numbers(p) <=> \E i \in 1 .. N + 1 : p[i] # Runt /\ x = p[i].seq
  BY <1>1 DEF Numbers
<1>5. \A x : x \in Numbers(q) <=> \E i \in 1 .. N : q[i] # Runt /\ x = q[i].seq
  BY <1>1 DEF Numbers
<1>6. Numbers(p) = Numbers(q) \cup (IF d = Runt THEN {} ELSE {d.seq})
  BY <1>1, <1>2, <1>3, <1>4, <1>5
<1>7. Rising(p)
  <2> SUFFICES ASSUME NEW i \in 1 .. N + 1, NEW j \in 1 .. N + 1, i < j, p[i] # Runt, p[j] # Runt
               PROVE  p[i].seq < p[j].seq
    BY <1>1 DEF Rising
  <2>1. i \in 1 .. N
    BY <1>1
  <2>2. CASE j \in 1 .. N
    BY <1>1, <2>1, <2>2 DEF Rising
  <2>3. CASE j = N + 1
    BY <1>1, <1>5, <2>1, <2>3
  <2> QED
    BY <1>2, <2>2, <2>3
<1> QED
  BY <1>1, <1>6, <1>7 DEF p, N

LEMMA NumbersOfTail ==
  ASSUME NEW q \in Seq(Datagrams), q # << >>, Rising(q)
  PROVE  /\ Tail(q) \in Seq(Datagrams) /\ Len(Tail(q)) = Len(q) - 1 /\ Head(q) \in Datagrams
         /\ Rising(Tail(q))
         /\ Head(q) = Runt => Numbers(Tail(q)) = Numbers(q)
         /\ Head(q) # Runt => /\ Head(q).seq \in Numbers(q)
                              /\ Numbers(Tail(q)) = Numbers(q) \ {Head(q).seq}
                              /\ \A w \in Numbers(Tail(q)) : Head(q).seq < w
<1> DEFINE N == Len(q)
           t == Tail(q)
           h == Head(q)
<1>1. /\ N \in Nat /\ N > 0 /\ t \in Seq(Datagrams) /\ h \in Datagrams /\ Len(t) = N - 1
      /\ DOMAIN q = 1 .. N /\ DOMAIN t = 1 .. N - 1
      /\ \A i \in 1 .. N - 1 : t[i] = q[i + 1]
      /\ q[1] = h /\ \A i \in 1 .. N : q[i] \in Datagrams
  OBVIOUS
<1> HIDE DEF N, t, h
<1>2. 1 \in 1 .. N /\ \A i \in 1 .. N : i = 1 \/ (i - 1 \in 1 .. N - 1 /\ t[i - 1] = q[i])
  <2>1. \A i \in 1 .. N : i = 1 \/ (i - 1 \in 1 .. N - 1 /\ (i - 1) + 1 = i)
    BY <1>1
  <2> QED
    BY <1>1, <2>1
<1>3. \A i \in 1 .. N - 1 : i + 1 \in 1 .. N /\ 1 < i + 1
  BY <1>1
<1>4. \A x : x \in Numbers(t) <=> \E i \in 1 .. N - 1 : t[i] # Runt /\ x = t[i].seq
  BY <1>1 DEF Numbers
<1>5. \A x : x \in Numbers(q) <=> \E i \in 1 .. N : q[i] # Runt /\ x = q[i].seq
  BY <1>1 DEF Numbers
<1>6. Rising(t)
  <2> SUFFICES ASSUME NEW i \in 1 .. N - 1, NEW j \in 1 .. N - 1, i < j, t[i] # Runt, t[j] # Runt
               PROVE  t[i].seq < t[j].seq
    BY <1>1 DEF Rising
  <2>1. i + 1 < j + 1
    OBVIOUS
  <2> QED
    BY <1>1, <1>3, <2>1 DEF Rising
<1>7. \A x \in Numbers(t) : x \in Numbers(q)
  BY <1>1, <1>3, <1>4, <1>5
<1>8. \A x \in Numbers(q) : x \in Numbers(t) \/ (h # Runt /\ x = h.seq)
  BY <1>1, <1>2, <1>4, <1>5
<1>9. ASSUME h # Runt
      PROVE  /\ h.seq \in Numbers(q) /\ h.seq \in Nat
             /\ \A w \in Numbers(t) : h.seq < w
  <2>1. \A i \in 1 .. N - 1 : t[i] # Runt => h.seq < t[i].seq
    BY <1>1, <1>2, <1>3, <1>9 DEF Rising
  <2>2. h.seq \in Nat
    BY <1>1, <1>9, RuntIs
  <2> QED
    BY <1>1, <1>2, <1>4, <1>5, <1>9, <2>1, <2>2
<1>10. h # Runt => Numbers(t) = Numbers(q) \ {h.seq}
  <2> SUFFICES ASSUME h # Runt PROVE Numbers(t) = Numbers(q) \ {h.seq}
    OBVIOUS
  <2>1. h.seq \notin Numbers(t)
    BY <1>9
  <2> QED
    BY <1>7, <1>8, <2>1
<1>11. h = Runt => Numbers(t) = Numbers(q)
  BY <1>7, <1>8
<1> QED
  BY <1>1, <1>6, <1>9, <1>10, <1>11 DEF N, t, h

-----------------------------------------------------------------------------
LEMMA VideoTypeInit == VideoInit => VideoType
<1> SUFFICES ASSUME VideoInit PROVE VideoType
  OBVIOUS
<1>1. << >> \in Seq(Datagrams) /\ NoFrame \in Nat /\ Runt \in Datagrams
  BY AgentAssumption DEF NoFrame, Datagrams
<1> QED
  BY <1>1 DEF VideoInit, AgentInit, UdpInit, VideoType

\* What a Quiet step or the desktop may change of what the link sees.
LEMMA QuietKeeps ==
  ASSUME VideoType, Quiet \/ Desktop
  PROVE  sequence' = sequence /\ frame' \in Nat /\ screen' \in Nat
<1> USE DEF VideoType, world, texture
<1>1. CASE Desktop
  BY <1>1 DEF Desktop, Change, MoveCursor, SwitchDesktop, SwitchFormat, OnSigInt, process
<1>2. CASE LoopHead \/ AcquireTimeout \/ AcquireCursor
  BY <1>2 DEF LoopHead, AcquireTimeout, AcquireCursor
<1>3. CASE AcquireLost BY <1>3 DEF AcquireLost
<1>4. CASE AcquireFrame BY <1>4 DEF AcquireFrame
<1>5. CASE Crop \/ CropUnsupported BY <1>5 DEF Crop, CropUnsupported
<1>6. CASE Encode BY <1>6 DEF Encode
<1> QED
  BY <1>1, <1>2, <1>3, <1>4, <1>5, <1>6 DEF Quiet

LEMMA VideoTypeStep == VideoType /\ [VideoNext]_videoVars => VideoType'
<1> SUFFICES ASSUME VideoType, [VideoNext]_videoVars PROVE VideoType'
  OBVIOUS
<1>1. CASE (Quiet \/ Desktop) /\ UNCHANGED <<udpVars, network>>
  BY <1>1, QuietKeeps DEF VideoType, udpVars, network, mishaps, tracker
<1>2. CASE Transmit
  <2>1. sequence' = sequence + 1 /\ frame' = frame /\ screen' = screen
    BY <1>2 DEF Transmit, Send, world, texture
  <2>2. [seq |-> sequence, frame |-> frame] \in Sent
    BY DEF VideoType, Sent
  <2>3. UNCHANGED <<launches, runts, udpPc, data, dropped, first, last_seq, lost_in_transit, unattributed>>
    BY <1>2 DEF Transmit, tracker
  <2>4. socket' = Append(socket, [seq |-> sequence, frame |-> frame]) \/ socket' = socket
    BY <1>2 DEF Transmit
  <2>5. socket' \in Seq(Datagrams)
    <3>1. socket \in Seq(Datagrams) /\ [seq |-> sequence, frame |-> frame] \in Datagrams
      BY <2>2 DEF VideoType, Datagrams
    <3> QED
      BY <2>4, <3>1
  <2>6. lost' \in SUBSET Nat /\ late' \in Sent \cup {None} /\ overtaken' \in Nat
    <3>1. /\ lost' = lost \/ lost' = lost \cup {sequence}
          /\ late' = late \/ late' = [seq |-> sequence, frame |-> frame]
          /\ overtaken' = overtaken \/ overtaken' = overtaken + 1
      BY <1>2 DEF Transmit
    <3>2. lost \in SUBSET Nat /\ sequence \in Nat /\ late \in Sent \cup {None} /\ overtaken \in Nat
      BY DEF VideoType
    <3>3. lost' \in SUBSET Nat
      BY <3>1, <3>2, Zenon
    <3>5. overtaken' \in Nat
      BY <3>1, <3>2
    <3>4. late' \in Sent \cup {None}
      BY <2>2, <3>1, <3>2, Zenon
    <3> QED
      BY <3>3, <3>4, <3>5
  <2> QED
    BY <2>1, <2>3, <2>5, <2>6 DEF VideoType
<1>3. CASE Receive
  <2>1. UNCHANGED <<sequence, frame, screen, launches, runts, overtaken, lost, late>>
    BY <1>3 DEF Receive, agentVars, process, world, texture, mishaps
  <2>2. CASE UdpFlush
    BY <2>1, <2>2 DEF UdpFlush, VideoType, tracker
  <2>3. CASE UdpRecv \/ Drain
    <3>1. socket \in Seq(Datagrams) /\ socket # << >>
      BY <2>3 DEF UdpRecv, Drain, VideoType
    <3>2. Head(socket) \in Datagrams /\ Tail(socket) \in Seq(Datagrams)
      BY <3>1
    <3>3. data' = Head(socket) /\ socket' = Tail(socket)
      BY <2>3 DEF UdpRecv, Drain
    <3>4. dropped' \in Nat /\ udpPc' = "drain" /\ UNCHANGED <<first, last_seq, lost_in_transit, unattributed>>
      BY <2>3 DEF UdpRecv, Drain, VideoType, tracker
    <3> QED
      BY <2>1, <3>2, <3>3, <3>4 DEF VideoType
  <2>4. CASE Return
    <3>1. socket' = socket /\ data' = data /\ dropped' = dropped /\ udpPc' = "recv"
      BY <2>4 DEF Return
    <3>2. CASE ReturnNothing
      BY <2>1, <3>1, <3>2 DEF ReturnNothing, VideoType, tracker
    <3>3. CASE ReturnFrame
      <4>1. data.seq \in Nat
        BY <3>3, RuntIs DEF ReturnFrame, unpack_header, VideoType
      <4>2. last_seq' \in Nat /\ first' \in Nat \cup {None} /\ unattributed' = 0
        BY <3>3, <4>1 DEF ReturnFrame, observe, VideoType
      <4>3. lost_in_transit' \in Int
        <5>1. CASE last_seq = None \/ ~ (data.seq > last_seq + 1)
          BY <3>3, <5>1 DEF ReturnFrame, observe, VideoType
        <5>2. CASE last_seq # None /\ data.seq > last_seq + 1
          <6>1. lost_in_transit' = lost_in_transit + (data.seq - last_seq - 1 - (dropped + unattributed))
            BY <3>3, <5>2 DEF ReturnFrame, observe
          <6>2. last_seq \in Nat /\ dropped \in Nat /\ unattributed \in Nat /\ lost_in_transit \in Int
            BY <5>2 DEF VideoType
          <6> QED
            BY <4>1, <6>1, <6>2
        <5> QED
          BY <5>1, <5>2
      <4> QED
        BY <2>1, <3>1, <4>2, <4>3 DEF VideoType
    <3> QED
      BY <2>4, <3>2, <3>3 DEF Return
  <2> QED
    BY <1>3, <2>2, <2>3, <2>4 DEF Receive, UdpNext
<1>4. CASE Overtaken
  <2>1. UNCHANGED <<sequence, frame, screen, launches, runts, overtaken, lost, udpPc, data, dropped, first, last_seq, lost_in_transit, unattributed>>
    BY <1>4 DEF Overtaken, agentVars, process, world, texture, mishaps, tracker
  <2>2. late \in Sent /\ socket' = Append(socket, late) /\ late' = None
    BY <1>4 DEF Overtaken, VideoType
  <2>3. socket' \in Seq(Datagrams)
    <3>1. socket \in Seq(Datagrams) /\ late \in Datagrams
      BY <2>2 DEF VideoType, Datagrams
    <3> QED
      BY <2>2, <3>1
  <2> QED
    BY <2>1, <2>2, <2>3 DEF VideoType
<1>5. CASE Relaunch
  <2>1. NoFrame \in Nat
    BY AgentAssumption DEF NoFrame
  <2>2. sequence' = 0 /\ frame' = NoFrame /\ screen' = screen
    BY <1>5 DEF Relaunch, Restart, world
  <2>3. UNCHANGED <<runts, overtaken, lost, late, udpVars>> /\ launches' = launches + 1
    BY <1>5 DEF Relaunch
  <2> QED
    BY <2>1, <2>2, <2>3 DEF VideoType, udpVars, tracker
<1>6. CASE SendRunt
  <2>1. UNCHANGED <<sequence, frame, screen, launches, late, overtaken, lost, udpPc, data, dropped, first, last_seq, lost_in_transit, unattributed>>
    BY <1>6 DEF SendRunt, agentVars, process, world, texture, tracker
  <2>2. socket' = Append(socket, Runt) /\ runts' = runts + 1 /\ Runt \in Datagrams
    BY <1>6 DEF SendRunt, Datagrams
  <2> QED
    BY <2>1, <2>2 DEF VideoType
<1>7. CASE UNCHANGED videoVars
  BY <1>7 DEF videoVars, agentVars, process, world, texture, udpVars, tracker, network, mishaps, VideoType
<1> QED
  BY <1>1, <1>2, <1>3, <1>4, <1>5, <1>6, <1>7 DEF VideoNext, Agent

-----------------------------------------------------------------------------
\* The sets that are counted are finite.
LEMMA CountedAreFinite ==
  ASSUME VideoType, Pipeline, last_seq # None
  PROVE  /\ last_seq \in Nat
         /\ IsFiniteSet(Since) /\ IsFiniteSet(Since \ Numbers(socket)) /\ IsFiniteSet(Between)
         /\ Cardinality(Since) \in Nat /\ Cardinality(Since \ Numbers(socket)) \in Nat
         /\ Cardinality(Between) \in Nat
<1>1. last_seq \in Nat /\ sequence \in Nat /\ first \in Nat /\ lost \in SUBSET Nat
  BY DEF VideoType, Pipeline
<1>2. IsFiniteSet(last_seq + 1 .. sequence - 1)
  BY <1>1, FS_Interval
<1>3. IsFiniteSet(Since) /\ IsFiniteSet(Since \ Numbers(socket))
  <2>1. Since \in SUBSET (last_seq + 1 .. sequence - 1) /\ Since \ Numbers(socket) \in SUBSET (last_seq + 1 .. sequence - 1)
    BY DEF Since
  <2> QED
    BY <1>2, <2>1, FS_Subset
<1>4. IsFiniteSet(Between)
  <2>1. IsFiniteSet(0 .. last_seq)
    BY <1>1, FS_Interval
  <2>2. \A x \in Between : x \in Nat /\ x < last_seq
    BY <1>1 DEF Between
  <2>3. Between \in SUBSET (0 .. last_seq)
    <3>1. \A x \in Between : x \in 0 .. last_seq
      BY <1>1, <2>2
    <3> QED
      BY <3>1
  <2> QED
    BY <2>1, <2>3, FS_Subset
<1> QED
  BY <1>1, <1>3, <1>4, FS_CardinalityType

\* An agent that was started and a source that warms up have nothing to account for.
LEMMA LossInit == VideoInit => LossInv
<1> SUFFICES ASSUME VideoInit PROVE Pipeline /\ Books
  BY VideoTypeInit DEF LossInv
<1> QED
  BY UdpAssumption DEF VideoInit, UdpInit, AgentInit, Pipeline, Books, InHand, Rising, Numbers

\* A frame is sent: it comes to the socket, or its number is lost.
LEMMA TransmitKeepsBooks ==
  ASSUME VideoType, Pipeline, Books, Transmit, InOrder, InOrder'
  PROVE  Pipeline' /\ Books'
<1> DEFINE s == sequence
           d == [seq |-> s, frame |-> frame]
           arrives == socket' = Append(socket, d) /\ lost' = lost
           vanishes == socket' = socket /\ lost' = lost \cup {s}
<1>1. /\ s \in Nat /\ sequence' = s + 1 /\ late' = late
      /\ UNCHANGED <<runts, udpPc, data, dropped, first, last_seq, lost_in_transit, unattributed>>
      /\ arrives \/ vanishes
  <2>1. UNCHANGED <<runts, udpPc, data, dropped, first, last_seq, lost_in_transit, unattributed>>
    BY DEF Transmit, tracker
  <2>2. sequence \in Nat /\ overtaken \in Nat /\ sequence' = sequence + 1
    BY DEF VideoType, Transmit, Send
  <2>3. launches = 1 /\ overtaken' = overtaken
    BY DEF InOrder
  <2>4. (arrives \/ vanishes) /\ late' = late
    BY <2>2, <2>3 DEF Transmit
  <2> QED
    BY <2>1, <2>2, <2>4
<1>2. d \in Datagrams /\ d # Runt /\ d.seq = s /\ socket \in Seq(Datagrams)
  <2>1. d \in Sent /\ socket \in Seq(Datagrams)
    BY DEF Sent, VideoType
  <2> QED
    BY <2>1, RuntIs DEF Datagrams
<1>3. /\ \A x \in lost : x < s /\ x \in Nat
      /\ \A w \in Numbers(socket) : Newest(w) /\ w \in Nat /\ w < s
      /\ Rising(socket)
  <2>1. \A w \in Numbers(socket) : w \in 0 .. sequence - 1
    BY DEF Pipeline, Newest
  <2> QED
    BY <1>1, <2>1 DEF Pipeline, VideoType
<1>13. last_seq # None => last_seq \in Nat /\ last_seq < s /\ last_seq \notin lost
  <2>1. last_seq \in Nat \cup {None}
    BY DEF VideoType
  <2> QED
    BY <2>1 DEF Pipeline
<1> HIDE DEF d, s
<1>4. /\ arrives => /\ Numbers(socket') = Numbers(socket) \cup {s} /\ Rising(socket')
                    /\ Len(socket') = Len(socket) + 1
      /\ vanishes => Numbers(socket') = Numbers(socket) /\ Rising(socket')
  BY <1>2, <1>3, NumbersOfAppend
<1>5. /\ \A x \in lost' : x < sequence'
      /\ \A x : x \in lost' \/ x \in Numbers(socket') <=> x \in lost \/ x \in Numbers(socket) \/ x = s
  BY <1>1, <1>3, <1>4
<1>6. ASSUME NEW w \in Nat, Newest(w) PROVE Newest(w)'
  <2>1. /\ w \in 0 .. s - 1 /\ w \notin lost /\ (last_seq # None => last_seq < w)
        /\ \A x \in w + 1 .. s - 1 : x \in lost \/ x \in Numbers(socket)
    BY <1>6 DEF Newest, s
  <2>2. w \in 0 .. s /\ w # s
    BY <1>1, <2>1
  <2>3. w \notin lost'
    BY <1>1, <2>1, <2>2
  <2>4. \A x \in w + 1 .. s : x \in lost' \/ x \in Numbers(socket')
    <3>1. \A x \in w + 1 .. s : x \in w + 1 .. s - 1 \/ x = s
      BY <1>1, <2>1
    <3> QED
      BY <1>5, <2>1, <3>1
  <2>5. sequence' - 1 = s
    BY <1>1
  <2> QED
    BY <1>1, <2>1, <2>2, <2>3, <2>4, <2>5 DEF Newest
<1>7. ASSUME arrives, NEW w, w = s PROVE Newest(w)'
  <2>1. /\ w \in 0 .. sequence' - 1 /\ w \notin lost'
        /\ \A x \in w + 1 .. sequence' - 1 : FALSE
    BY <1>1, <1>3, <1>7
  <2>2. last_seq' # None => last_seq' < w
    BY <1>1, <1>13, <1>7
  <2> QED
    BY <2>1, <2>2 DEF Newest
<1>8. \A w \in Numbers(socket') : Newest(w)'
  BY <1>1, <1>3, <1>4, <1>6, <1>7
<1>9. InHand' => Newest(data.seq)' /\ \A w \in Numbers(socket') : data.seq < w
  <2> SUFFICES ASSUME InHand PROVE Newest(data.seq)' /\ \A w \in Numbers(socket') : data.seq < w
    BY <1>1 DEF InHand
  <2>1. Newest(data.seq) /\ \A w \in Numbers(socket) : data.seq < w
    BY DEF Pipeline
  <2>2. data.seq \in 0 .. s - 1
    BY <2>1 DEF Newest, s
  <2>3. data.seq \in Nat /\ data.seq < s
    BY <1>1, <2>2
  <2> QED
    BY <1>1, <1>4, <1>6, <2>1, <2>3
<1>10. Pipeline'
  <2>1. \A w \in Numbers(socket)' : Newest(w)'
    BY <1>8
  <2>2. InHand' => Newest(data.seq)' /\ \A w \in Numbers(socket)' : data'.seq < w
    BY <1>1, <1>9
  <2>3. last_seq # None => last_seq < sequence' /\ last_seq \notin lost'
    <3> SUFFICES ASSUME last_seq # None PROVE last_seq < sequence' /\ last_seq \notin lost'
      OBVIOUS
    <3>1. last_seq < s /\ last_seq \notin lost /\ last_seq \in Nat
      BY <1>13
    <3> QED
      BY <1>1, <3>1
  <2> QED
    BY <1>1, <1>4, <1>5, <1>9, <2>1, <2>3 DEF Pipeline
<1>11. Books'
  <2> SUFFICES ASSUME last_seq # None
               PROVE  /\ Cardinality((Since \ Numbers(socket))') <= ReadFrames
                      /\ lost_in_transit <= Cardinality(Between')
                      /\ Cardinality(Between') - lost_in_transit + Read + Len(socket') - Cardinality(Since') <= runts
    BY <1>1 DEF Books, Read, ReadFrames
  <2>1. last_seq \in Nat /\ last_seq < s /\ Len(socket) \in Nat
    BY <1>2, <1>13
  <2>2. /\ IsFiniteSet(Since) /\ Cardinality(Since) \in Nat /\ Cardinality(Between) \in Nat
        /\ lost_in_transit \in Int /\ Read \in Int /\ runts \in Nat
    <3>1. lost_in_transit \in Int /\ Read \in Int /\ runts \in Nat
      BY DEF VideoType, Read
    <3> QED
      BY <3>1, CountedAreFinite
  <2>3. last_seq + 1 .. sequence' - 1 = (last_seq + 1 .. s - 1) \cup {s}
    BY <1>1, <2>1
  <2>4. s \notin lost /\ s \notin Numbers(socket) /\ s \notin Since
    <3>1. s \notin lost /\ s \notin Numbers(socket)
      BY <1>1, <1>3
    <3>2. s \notin last_seq + 1 .. s - 1
      BY <1>1
    <3> QED
      BY <3>1, <3>2 DEF Since, s
  <2>5. Since = (last_seq + 1 .. s - 1) \ lost /\ Since' = (last_seq + 1 .. sequence' - 1) \ lost'
    BY <1>1 DEF Since, s
  <2>6. (Since \ Numbers(socket))' = Since \ Numbers(socket)
    <3>1. (Since \ Numbers(socket))' = Since' \ Numbers(socket')
      OBVIOUS
    <3> QED
      BY <1>1, <1>4, <2>3, <2>4, <2>5, <3>1
  <2>7. Between' = Between
    <3>1. \A x \in lost' : x \in lost \/ ~ (x < last_seq)
      BY <1>1, <2>1
    <3> QED
      BY <1>1, <3>1 DEF Between
  <2>8. /\ arrives => Cardinality(Since') = Cardinality(Since) + 1 /\ Len(socket') = Len(socket) + 1
        /\ vanishes => Since' = Since /\ Len(socket') = Len(socket)
    <3>1. arrives => Since' = Since \cup {s}
      BY <2>3, <2>4, <2>5
    <3>2. vanishes => Since' = Since
      BY <2>3, <2>4, <2>5
    <3> QED
      BY <1>4, <2>2, <2>4, <3>1, <3>2, FS_AddElement
  <2>9. /\ Cardinality(Since \ Numbers(socket)) <= ReadFrames /\ lost_in_transit <= Cardinality(Between)
        /\ Cardinality(Between) - lost_in_transit + Read + Len(socket) - Cardinality(Since) <= runts
    BY DEF Books
  <2>10. arrives \/ vanishes
    BY <1>1
  <2> HIDE DEF arrives, vanishes
  <2>11. /\ Cardinality((Since \ Numbers(socket))') = Cardinality(Since \ Numbers(socket))
         /\ Cardinality(Between') = Cardinality(Between)
         /\ vanishes => Cardinality(Since') = Cardinality(Since)
    BY <2>6, <2>7, <2>8
  <2> QED
    BY <2>1, <2>2, <2>8, <2>9, <2>10, <2>11
<1> QED
  BY <1>10, <1>11

\* What a datagram that is read was in the socket, it is in hand or dropped now.
LEMMA RecvKeepsBooks ==
  ASSUME VideoType, Pipeline, Books, UdpRecv \/ Drain, UNCHANGED <<sequence, lost, late, runts>>
  PROVE  Pipeline' /\ Books'
<1> DEFINE h == Head(socket)
           t == Tail(socket)
<1>1. /\ socket \in Seq(Datagrams) /\ socket # << >> /\ Rising(socket)
      /\ data' = h /\ socket' = t /\ udpPc' = "drain"
      /\ UNCHANGED <<first, last_seq, lost_in_transit>>
  BY DEF UdpRecv, Drain, VideoType, Pipeline, tracker
<1>2. Read \in Nat /\ Read' = Read + 1
  <2>1. unattributed \in Nat /\ dropped \in Nat /\ unattributed' = unattributed
    BY DEF VideoType, UdpRecv, Drain
  <2>2. CASE UdpRecv
    BY <2>1, <2>2 DEF UdpRecv, Read
  <2>3. CASE Drain
    BY <2>1, <2>3 DEF Drain, Read
  <2> QED
    BY <2>2, <2>3
<1>3. /\ Len(t) = Len(socket) - 1 /\ Rising(t) /\ h \in Datagrams
      /\ h = Runt => Numbers(t) = Numbers(socket)
      /\ h # Runt => /\ h.seq \in Numbers(socket)
                     /\ Numbers(t) = Numbers(socket) \ {h.seq}
                     /\ \A w \in Numbers(t) : h.seq < w
  BY <1>1, NumbersOfTail
<1>4. h # Runt => h.seq \in Nat
  BY <1>3, RuntIs
<1> HIDE DEF h, t
<1>5. ASSUME NEW w, Newest(w), h # Runt => h.seq <= w PROVE Newest(w)'
  <2>1. /\ w \in 0 .. sequence - 1 /\ w \notin lost /\ (last_seq # None => last_seq < w)
        /\ \A x \in w + 1 .. sequence - 1 : x \in lost \/ x \in Numbers(socket)
    BY <1>5 DEF Newest
  <2>2. \A x \in w + 1 .. sequence - 1 : h # Runt => x # h.seq
    BY <1>4, <1>5, <2>1
  <2>3. \A x \in w + 1 .. sequence - 1 : x \in lost \/ x \in Numbers(socket')
    BY <1>1, <1>3, <2>1, <2>2
  <2> QED
    BY <1>1, <2>1, <2>3 DEF Newest
<1>6. \A w \in Numbers(socket) : Newest(w) /\ w \in Nat
  <2>1. \A w \in Numbers(socket) : w \in 0 .. sequence - 1
    BY DEF Pipeline, Newest
  <2> QED
    BY <2>1 DEF Pipeline
<1>7. \A w \in Numbers(socket') : Newest(w)'
  BY <1>1, <1>3, <1>4, <1>5, <1>6
<1>8. ASSUME h # Runt PROVE Newest(data.seq)'
  <2>1. PICK w : w = h.seq
    OBVIOUS
  <2>2. Newest(w)' /\ data'.seq = w
    BY <1>1, <1>3, <1>4, <1>5, <1>6, <1>8, <2>1
  <2> QED
    BY <2>2 DEF Newest
<1>9. Pipeline'
  <2>1. InHand' => Newest(data.seq)' /\ \A w \in Numbers(socket)' : data'.seq < w
    BY <1>1, <1>3, <1>8 DEF InHand
  <2> QED
    BY <1>1, <1>3, <1>7, <2>1 DEF Pipeline
<1>10. Books'
  <2> SUFFICES ASSUME last_seq # None
               PROVE  /\ Cardinality((Since \ Numbers(socket))') <= ReadFrames'
                      /\ lost_in_transit <= Cardinality(Between)
                      /\ Cardinality(Between) - lost_in_transit + Read' + Len(socket') - Cardinality(Since) <= runts
    BY <1>1 DEF Books, Since, Between
  <2>1. /\ Cardinality(Since \ Numbers(socket)) <= ReadFrames
        /\ lost_in_transit <= Cardinality(Between)
        /\ Cardinality(Between) - lost_in_transit + Read + Len(socket) - Cardinality(Since) <= runts
    BY DEF Books
  <2>2. /\ IsFiniteSet(Since \ Numbers(socket)) /\ Cardinality(Since \ Numbers(socket)) \in Nat
        /\ Cardinality(Since) \in Nat /\ Cardinality(Between) \in Nat
        /\ lost_in_transit \in Int /\ runts \in Nat /\ Len(socket) \in Nat
    <3>1. lost_in_transit \in Int /\ runts \in Nat /\ Len(socket) \in Nat
      BY <1>1 DEF VideoType
    <3> QED
      BY <3>1, CountedAreFinite
  <2>3. Read' + Len(socket') = Read + Len(socket)
    BY <1>1, <1>2, <1>3, <2>2
  <2>4. ReadFrames' = Read' - (IF h = Runt THEN 1 ELSE 0) /\ ReadFrames <= Read /\ ReadFrames \in Int
    BY <1>1, <1>2 DEF ReadFrames
  <2>5. (Since \ Numbers(socket))' = Since \ Numbers(t)
    BY <1>1 DEF Since
  <2>6. CASE h = Runt
    <3>1. (Since \ Numbers(socket))' = Since \ Numbers(socket)
      BY <1>3, <2>5, <2>6
    <3>2. ReadFrames <= ReadFrames'
      BY <1>2, <2>4, <2>6
    <3>3. Cardinality((Since \ Numbers(socket))') = Cardinality(Since \ Numbers(socket))
      BY <3>1
    <3>4. ReadFrames' \in Int
      BY <1>2, <2>4
    <3>5. Cardinality((Since \ Numbers(socket))') <= ReadFrames'
      BY <2>1, <2>2, <2>4, <3>2, <3>3, <3>4
    <3>6. Cardinality(Between) - lost_in_transit + Read' + Len(socket') - Cardinality(Since) <= runts
      BY <1>2, <2>1, <2>2, <2>3
    <3> QED
      BY <2>1, <3>5, <3>6
  <2>7. CASE h # Runt
    <3> DEFINE rest == Since \ Numbers(socket)
    <3>1. Since \ Numbers(t) \in SUBSET (rest \cup {h.seq})
      <4>1. Numbers(t) = Numbers(socket) \ {h.seq}
        BY <1>3, <2>7
      <4> QED
        BY <4>1
    <3>2. IsFiniteSet(rest) /\ Cardinality(rest) \in Nat
      BY <2>2
    <3> HIDE DEF rest
    <3>3. IsFiniteSet(rest \cup {h.seq}) /\ Cardinality(rest \cup {h.seq}) <= Cardinality(rest) + 1
      <4>1. /\ IsFiniteSet(rest \cup {h.seq})
            /\ Cardinality(rest \cup {h.seq}) = IF h.seq \in rest THEN Cardinality(rest) ELSE Cardinality(rest) + 1
        BY <3>2, FS_AddElement
      <4> QED
        BY <3>2, <4>1
    <3>4. Cardinality(Since \ Numbers(t)) <= Cardinality(rest \cup {h.seq})
      BY <3>1, <3>3, FS_Subset
    <3>5. Cardinality(rest \cup {h.seq}) \in Nat /\ Cardinality(Since \ Numbers(t)) \in Nat
      <4>1. IsFiniteSet(Since \ Numbers(t))
        BY <3>1, <3>3, FS_Subset
      <4> QED
        BY <3>3, <4>1, FS_CardinalityType
    <3>6. Cardinality(rest) <= ReadFrames
      BY <2>1 DEF rest
    <3>7. Cardinality((Since \ Numbers(socket))') <= ReadFrames'
      <4>1. ReadFrames' = Read + 1
        BY <1>2, <2>4, <2>7
      <4>2. Cardinality((Since \ Numbers(socket))') = Cardinality(Since \ Numbers(t))
        BY <2>5
      <4>3. ReadFrames <= Read /\ ReadFrames \in Int /\ Read \in Nat
        BY <1>2, <2>4
      <4> QED
        BY <3>2, <3>3, <3>4, <3>5, <3>6, <4>1, <4>2, <4>3
    <3>8. Cardinality(Between) - lost_in_transit + Read' + Len(socket') - Cardinality(Since) <= runts
      BY <1>2, <2>1, <2>2, <2>3
    <3> QED
      BY <2>1, <3>7, <3>8
  <2> QED
    BY <2>6, <2>7
<1> QED
  BY <1>9, <1>10

\* Where the numbers in the socket stay, the newest on this side stay so.
LEMMA NewestKept ==
  ASSUME UNCHANGED <<sequence, lost, last_seq>>, Numbers(socket') = Numbers(socket), NEW w, Newest(w)
  PROVE  Newest(w)'
BY DEF Newest

LEMMA EmptySocket == Numbers(<< >>) = {} /\ Rising(<< >>) /\ Len(<< >>) = 0
BY DEF Numbers, Rising

\* A drain that ended on a runt leaves its drops to the next frame.
LEMMA NothingKeepsBooks ==
  ASSUME VideoType, Pipeline, Books, Return, ReturnNothing, UNCHANGED <<sequence, lost, late, runts>>
  PROVE  Pipeline' /\ Books'
<1>1. /\ UNCHANGED <<socket, data, first, last_seq, lost_in_transit>>
      /\ udpPc = "drain" /\ udpPc' = "recv" /\ data = Runt
      /\ dropped \in Nat /\ unattributed \in Nat /\ unattributed' = unattributed + dropped
  BY DEF Return, ReturnNothing, unpack_header, tracker, VideoType
<1>2. \A w \in Numbers(socket') : Newest(w)'
  BY <1>1, NewestKept DEF Pipeline
<1>3. Pipeline'
  <2>1. ~ InHand'
    BY <1>1 DEF InHand
  <2> QED
    BY <1>1, <1>2, <2>1 DEF Pipeline
<1>4. Books'
  <2>1. /\ Read = unattributed + dropped + 1 /\ ReadFrames = unattributed + dropped
        /\ Read' = unattributed + dropped /\ ReadFrames' = unattributed + dropped
    BY <1>1 DEF Read, ReadFrames
  <2> SUFFICES ASSUME last_seq # None
               PROVE  /\ Cardinality(Since \ Numbers(socket)) <= ReadFrames'
                      /\ lost_in_transit <= Cardinality(Between)
                      /\ Cardinality(Between) - lost_in_transit + Read' + Len(socket) - Cardinality(Since) <= runts
    BY <1>1 DEF Books, Since, Between
  <2>2. /\ Cardinality(Since) \in Nat /\ Cardinality(Between) \in Nat
        /\ lost_in_transit \in Int /\ runts \in Nat /\ Len(socket) \in Nat
    <3>1. lost_in_transit \in Int /\ runts \in Nat /\ Len(socket) \in Nat
      BY DEF VideoType
    <3> QED
      BY <3>1, CountedAreFinite
  <2> QED
    BY <1>1, <2>1, <2>2 DEF Books
<1> QED
  BY <1>3, <1>4

\* The flush comes before the first frame: there is nothing to account for yet.
LEMMA FlushKeepsBooks ==
  ASSUME VideoType, Pipeline, Books, UdpFlush, UNCHANGED <<sequence, lost, late, runts>>
  PROVE  Pipeline' /\ Books'
<1>1. UNCHANGED <<first, last_seq, lost_in_transit>> /\ socket' = << >> /\ udpPc' = "recv" /\ last_seq = None
  BY DEF UdpFlush, tracker, Pipeline
<1> QED
  BY <1>1, EmptySocket DEF Pipeline, Books, InHand

\* A runt in the socket can hide one loss, and one more has been sent.
LEMMA RuntKeepsBooks ==
  ASSUME VideoType, Pipeline, Books, SendRunt
  PROVE  Pipeline' /\ Books'
<1>1. /\ UNCHANGED <<sequence, lost, late, udpPc, data, dropped, first, last_seq, lost_in_transit, unattributed>>
      /\ socket' = Append(socket, Runt) /\ runts' = runts + 1
  BY DEF SendRunt, agentVars, process, tracker
<1>2. Numbers(socket') = Numbers(socket) /\ Rising(socket') /\ Len(socket') = Len(socket) + 1
  <2>1. socket \in Seq(Datagrams) /\ Runt \in Datagrams /\ Rising(socket)
    BY DEF VideoType, Datagrams, Pipeline
  <2> QED
    BY <1>1, <2>1, NumbersOfAppend
<1>3. \A w \in Numbers(socket') : Newest(w)'
  BY <1>1, <1>2, NewestKept DEF Pipeline
<1>4. Pipeline'
  <2>1. InHand' => Newest(data.seq)' /\ \A w \in Numbers(socket)' : data'.seq < w
    BY <1>1, <1>2 DEF InHand, Pipeline, Newest
  <2> QED
    BY <1>1, <1>2, <1>3, <2>1 DEF Pipeline
<1>5. Books'
  <2>1. Read' = Read /\ ReadFrames' = ReadFrames /\ Read \in Int
    BY <1>1 DEF Read, ReadFrames, VideoType
  <2> SUFFICES ASSUME last_seq # None
               PROVE  /\ Cardinality(Since \ Numbers(socket)) <= ReadFrames
                      /\ lost_in_transit <= Cardinality(Between)
                      /\ Cardinality(Between) - lost_in_transit + Read + Len(socket') - Cardinality(Since) <= runts'
    BY <1>1, <1>2, <2>1 DEF Books, Since, Between
  <2>2. /\ Cardinality(Since) \in Nat /\ Cardinality(Between) \in Nat
        /\ lost_in_transit \in Int /\ runts \in Nat /\ Len(socket) \in Nat
    <3>1. lost_in_transit \in Int /\ runts \in Nat /\ Len(socket) \in Nat
      BY DEF VideoType
    <3> QED
      BY <3>1, CountedAreFinite
  <2> QED
    BY <1>1, <1>2, <2>1, <2>2 DEF Books
<1> QED
  BY <1>4, <1>5

-----------------------------------------------------------------------------
\* Sets that do not meet are counted one after the other.
LEMMA CountApart ==
  ASSUME NEW S, IsFiniteSet(S), NEW T, IsFiniteSet(T), S \cap T = {}
  PROVE  /\ IsFiniteSet(S \cup T)
         /\ Cardinality(S \cup T) = Cardinality(S) + Cardinality(T)
<1>1. Cardinality(S \cup T) = Cardinality(S) + Cardinality(T) - Cardinality(S \cap T) /\ IsFiniteSet(S \cup T)
  BY FS_Union
<1>2. Cardinality(S \cap T) = 0
  BY FS_EmptySet
<1>3. Cardinality(S) \in Nat /\ Cardinality(T) \in Nat
  BY FS_CardinalityType
<1> QED
  BY <1>1, <1>2, <1>3

\* A frame is returned: between it and the last one, what was delivered was dropped here, and
\* what was lost is between the first and this one.
LEMMA FrameKeepsBooks ==
  ASSUME VideoType, Pipeline, Books, Return, ReturnFrame, UNCHANGED <<sequence, lost, late, runts>>
  PROVE  Pipeline' /\ Books'
<1> DEFINE drops == dropped + unattributed
           B == Cardinality(Between)
<1>1. /\ UNCHANGED <<socket, data>> /\ socket = << >> /\ udpPc = "drain" /\ udpPc' = "recv"
      /\ data # Runt /\ dropped \in Nat /\ unattributed \in Nat /\ unattributed' = 0
      /\ sequence \in Nat /\ runts \in Nat /\ lost \in SUBSET Nat /\ lost_in_transit \in Int
  BY DEF Return, ReturnFrame, unpack_header, VideoType
<1>2. PICK s : s = data.seq
  OBVIOUS
<1>3. /\ s \in Nat /\ s < sequence /\ s \notin lost /\ (last_seq # None => last_seq < s)
      /\ \A x \in s + 1 .. sequence - 1 : x \in lost
  <2>1. Newest(s) /\ Numbers(socket) = {}
    BY <1>1, <1>2, EmptySocket DEF Pipeline, InHand
  <2>2. s \in 0 .. sequence - 1
    BY <2>1 DEF Newest
  <2>3. s \in Nat /\ s < sequence
    BY <1>1, <2>2
  <2> QED
    BY <2>1, <2>3 DEF Newest
<1>4. /\ last_seq' = s
      /\ first' = IF last_seq = None THEN s ELSE first
      /\ lost_in_transit' = IF last_seq # None /\ s > last_seq + 1
                            THEN lost_in_transit + (s - last_seq - 1 - drops) ELSE lost_in_transit
  BY <1>2 DEF ReturnFrame, observe
<1>5. last_seq # None =>
        /\ last_seq \in Nat /\ last_seq < s /\ last_seq \notin lost
        /\ first \in Nat /\ first <= last_seq
  <2>1. last_seq \in Nat \cup {None}
    BY DEF VideoType
  <2> QED
    BY <1>3, <2>1 DEF Pipeline
<1>6. last_seq' # None /\ first' \in Nat /\ first' <= s
  <2>1. s # None
    BY <1>3, UdpAssumption
  <2> QED
    BY <1>3, <1>4, <1>5, <2>1
<1>7. Pipeline'
  <2>1. ~ InHand' /\ Numbers(socket') = {} /\ Rising(socket')
    BY <1>1, EmptySocket DEF InHand
  <2> QED
    BY <1>1, <1>3, <1>4, <1>6, <2>1 DEF Pipeline
<1>8. Read = drops + 1 /\ ReadFrames = drops + 1 /\ Read' = 0 /\ ReadFrames' = 0 /\ drops \in Nat
  BY <1>1 DEF Read, ReadFrames
<1>9. Since' = {} /\ Numbers(socket) = {} /\ Len(socket) = 0
  BY <1>1, <1>3, <1>4, EmptySocket DEF Since
<1> HIDE DEF drops
<1>10. Between' = {x \in lost : first' < x /\ x < s}
  BY <1>4 DEF Between
<1>11. SUFFICES lost_in_transit' <= Cardinality(Between') /\ Cardinality(Between') - lost_in_transit' <= runts
  <2>1. Cardinality(Since') = 0 /\ Cardinality(Since' \ Numbers(socket')) = 0
    <3>1. Since' \ Numbers(socket') = {}
      BY <1>9
    <3> QED
      BY <1>9, <3>1, FS_EmptySet
  <2>2. Cardinality(Between') - lost_in_transit' + 0 + 0 - 0 = Cardinality(Between') - lost_in_transit'
    <3>1. lost_in_transit' \in Int
      BY <1>1, <1>3, <1>4, <1>5, <1>8
    <3>2. IsFiniteSet(Between')
      <4>1. \A x \in Between' : x \in 0 .. s
        BY <1>1, <1>3, <1>10
      <4>2. Between' \in SUBSET (0 .. s) /\ IsFiniteSet(0 .. s)
        BY <1>3, <4>1, FS_Interval
      <4> QED
        BY <4>2, FS_Subset
    <3> QED
      BY <3>1, <3>2, FS_CardinalityType
  <2> QED
    BY <1>1, <1>7, <1>8, <1>9, <2>1, <2>2 DEF Books
<1>12. CASE last_seq = None
  <2>1. lost_in_transit' = 0
    BY <1>4, <1>12 DEF Pipeline
  <2>2. Between' = {}
    <3>1. \A x \in lost : ~ (s < x /\ x < s)
      BY <1>1, <1>3
    <3> QED
      BY <1>4, <1>10, <1>12, <3>1
  <2> QED
    BY <1>1, <2>1, <2>2, FS_EmptySet
<1>13. CASE last_seq # None
  <2> DEFINE Gap == last_seq + 1 .. s - 1
             Lost1 == Gap \cap lost
             Del == Gap \ lost
  <2>1. /\ last_seq \in Nat /\ last_seq < s /\ last_seq \notin lost
        /\ first \in Nat /\ first <= last_seq /\ first' = first
    BY <1>4, <1>5, <1>13
  <2>2. IsFiniteSet(Gap) /\ Cardinality(Gap) = s - last_seq - 1
    <3>1. last_seq + 1 \in Int /\ s - 1 \in Int
      BY <1>3, <2>1
    <3>2. /\ IsFiniteSet(Gap)
          /\ Cardinality(Gap) = IF last_seq + 1 > s - 1 THEN 0 ELSE (s - 1) - (last_seq + 1) + 1
      BY <3>1, FS_Interval
    <3> QED
      BY <1>3, <2>1, <3>2
  <2>3. IsFiniteSet(Lost1) /\ IsFiniteSet(Del)
    BY <2>2, FS_Subset
  <2>4. Cardinality(Gap) = Cardinality(Lost1) + Cardinality(Del)
    <3>1. Lost1 \cup Del = Gap /\ Lost1 \cap Del = {}
      OBVIOUS
    <3> HIDE DEF Lost1, Del, Gap
    <3> QED
      BY <2>3, <3>1, CountApart
  <2>5. Cardinality(Lost1) \in Nat /\ Cardinality(Del) \in Nat
    BY <2>3, FS_CardinalityType
  <2>6. IsFiniteSet(Between) /\ B \in Nat
    BY <1>13, CountedAreFinite
  <2>7. Between' = Between \cup Lost1 /\ Between \cap Lost1 = {}
    <3>1. \A x \in lost : /\ first < x /\ x < s <=> (first < x /\ x < last_seq) \/ x \in Gap
                          /\ ~ (x < last_seq /\ x \in Gap)
      BY <1>1, <1>3, <2>1
    <3> HIDE DEF Gap
    <3>2. Between' = {x \in lost : first < x /\ x < s}
      BY <1>10, <2>1
    <3> QED
      BY <3>1, <3>2 DEF Between
  <2>8. Cardinality(Between') = B + Cardinality(Lost1)
    <3> HIDE DEF Lost1
    <3> QED
      BY <2>3, <2>6, <2>7, CountApart
  <2>9. Cardinality(Since) = Cardinality(Del) + 1
    <3>1. Since = Del \cup {s}
      <4>1. \A x : x \in last_seq + 1 .. sequence - 1 <=> x \in Gap \/ x = s \/ x \in s + 1 .. sequence - 1
        BY <1>1, <1>3, <2>1
      <4> HIDE DEF Gap
      <4> QED
        BY <1>3, <4>1 DEF Since
    <3>2. s \notin Del
      BY <1>3
    <3> HIDE DEF Del
    <3> QED
      BY <2>3, <3>1, <3>2, FS_AddElement
  <2>10. /\ Cardinality(Since) <= drops + 1 /\ lost_in_transit <= B
         /\ B - lost_in_transit + (drops + 1) + 0 - Cardinality(Since) <= runts
    <3>1. Since \ Numbers(socket) = Since
      BY <1>9
    <3> QED
      BY <1>8, <1>9, <1>13, <3>1 DEF Books
  <2> HIDE DEF Gap, Lost1, Del, B
  <2>11. CASE s > last_seq + 1
    <3>1. lost_in_transit' = lost_in_transit + (Cardinality(Lost1) + Cardinality(Del) - drops)
      <4>1. lost_in_transit' = lost_in_transit + (s - last_seq - 1 - drops)
        BY <1>4, <1>13, <2>11
      <4>2. s - last_seq - 1 = Cardinality(Lost1) + Cardinality(Del)
        BY <2>2, <2>4
      <4>3. s - last_seq - 1 \in Int /\ drops \in Nat
        BY <1>3, <1>8, <2>1
      <4>4. s - last_seq - 1 - drops = Cardinality(Lost1) + Cardinality(Del) - drops
        BY <2>5, <4>2, <4>3
      <4> QED
        BY <4>1, <4>4
    <3> QED
      BY <1>1, <1>8, <2>5, <2>6, <2>8, <2>9, <2>10, <3>1
  <2>12. CASE ~ (s > last_seq + 1)
    <3>1. lost_in_transit' = lost_in_transit
      BY <1>4, <2>12
    <3>2. Cardinality(Lost1) = 0 /\ Cardinality(Del) = 0
      BY <1>3, <2>1, <2>2, <2>4, <2>5, <2>12
    <3> QED
      BY <1>1, <1>8, <2>5, <2>6, <2>8, <2>9, <2>10, <3>1, <3>2
  <2> QED
    BY <2>11, <2>12
<1> QED
  BY <1>12, <1>13

-----------------------------------------------------------------------------
\* One step per action of the link; a restart or an overtaken datagram ends the order.
LEMMA LossStep == LossInv /\ [VideoNext]_videoVars => LossInv'
<1> SUFFICES ASSUME VideoType, [VideoNext]_videoVars, InOrder => Pipeline /\ Books, InOrder'
             PROVE  Pipeline' /\ Books'
  BY VideoTypeStep DEF LossInv
<1>1. CASE ((Quiet \/ Desktop) /\ UNCHANGED <<udpVars, network>>) \/ UNCHANGED videoVars
  <2>1. UNCHANGED <<sequence, udpVars, network>>
    <3>1. CASE UNCHANGED videoVars
      BY <3>1 DEF videoVars, agentVars, process
    <3> QED
      BY <1>1, <3>1, QuietKeeps
  <2>2. /\ UNCHANGED <<sequence, lost, late, runts, launches, overtaken>>
        /\ UNCHANGED <<socket, udpPc, data, dropped, first, last_seq, lost_in_transit, unattributed>>
    BY <2>1 DEF udpVars, tracker, network, mishaps
  <2>3. Pipeline /\ Books
    BY <2>2 DEF InOrder
  <2> QED
    BY <2>2, <2>3 DEF Pipeline, Newest, InHand, Books, Read, ReadFrames, Since, Between
<1>2. CASE Transmit
  <2>1. InOrder
    BY <1>2 DEF InOrder, Transmit, VideoType
  <2> QED
    BY <1>2, <2>1, TransmitKeepsBooks
<1>3. CASE Receive
  <2>1. UNCHANGED <<sequence, lost, late, runts>> /\ InOrder
    BY <1>3 DEF Receive, agentVars, process, mishaps, InOrder
  <2> QED
    BY <1>3, <2>1, FlushKeepsBooks, RecvKeepsBooks, FrameKeepsBooks, NothingKeepsBooks
       DEF Receive, UdpNext, Return
<1>4. CASE Overtaken
  <2>1. InOrder /\ late # None
    BY <1>4 DEF Overtaken, mishaps, InOrder
  <2> QED
    BY <2>1 DEF Pipeline
<1>5. CASE Relaunch
  BY <1>5 DEF Relaunch, InOrder, VideoType
<1>6. CASE SendRunt
  <2>1. InOrder
    BY <1>6 DEF SendRunt, InOrder
  <2> QED
    BY <1>6, <2>1, RuntKeepsBooks
<1> QED
  BY <1>1, <1>2, <1>3, <1>4, <1>5, <1>6 DEF VideoNext, Agent

\* A queue holds no more numbers than datagrams.
LEMMA NumbersFit ==
  ASSUME NEW q \in Seq(Datagrams)
  PROVE  IsFiniteSet(Numbers(q)) /\ Cardinality(Numbers(q)) \in Nat /\ Cardinality(Numbers(q)) <= Len(q)
<1> DEFINE I == {j \in DOMAIN q : q[j] # Runt}
           f == [i \in I |-> q[i].seq]
<1>1. IsFiniteSet(1 .. Len(q)) /\ Cardinality(1 .. Len(q)) = Len(q) /\ Len(q) \in Nat
  <2>1. Len(q) \in Nat
    OBVIOUS
  <2>2. IsFiniteSet(1 .. Len(q)) /\ Cardinality(1 .. Len(q)) = IF 1 > Len(q) THEN 0 ELSE Len(q) - 1 + 1
    BY <2>1, FS_Interval
  <2> QED
    BY <2>1, <2>2
<1>2. IsFiniteSet(I) /\ Cardinality(I) <= Len(q)
  <2>1. I \in SUBSET (1 .. Len(q))
    OBVIOUS
  <2> QED
    BY <1>1, <2>1, FS_Subset
<1>3. f \in Surjection(I, Numbers(q))
  BY DEF Surjection, Numbers
<1> HIDE DEF f, I
<1>4. IsFiniteSet(Numbers(q)) /\ Cardinality(Numbers(q)) <= Cardinality(I)
  BY <1>2, <1>3, FS_Surjection
<1>5. Cardinality(Numbers(q)) \in Nat /\ Cardinality(I) \in Nat
  BY <1>2, <1>4, FS_CardinalityType
<1> QED
  BY <1>1, <1>2, <1>4, <1>5

\* What was sent since was read or is in the socket, so the balance of the books is what the
\* runts hide.
LEMMA BooksBalance == LossInv => LossExact
<1> SUFFICES ASSUME VideoType, Pipeline, Books, last_seq # None
             PROVE  /\ Cardinality(Between) - runts <= lost_in_transit
                    /\ lost_in_transit <= Cardinality(Between)
  BY DEF LossInv, LossExact, InOrder, Between
<1> DEFINE rest == Since \ Numbers(socket)
<1>1. /\ IsFiniteSet(Since) /\ IsFiniteSet(rest)
      /\ Cardinality(Since) \in Nat /\ Cardinality(rest) \in Nat /\ Cardinality(Between) \in Nat
  BY CountedAreFinite
<1>2. socket \in Seq(Datagrams) /\ lost_in_transit \in Int /\ runts \in Nat /\ Len(socket) \in Nat
  BY DEF VideoType
<1>3. IsFiniteSet(Numbers(socket)) /\ Cardinality(Numbers(socket)) \in Nat /\ Cardinality(Numbers(socket)) <= Len(socket)
  BY <1>2, NumbersFit
<1>4. Cardinality(Since) <= Cardinality(rest) + Cardinality(Numbers(socket))
  <2>1. Since \in SUBSET (rest \cup Numbers(socket)) /\ rest \cap Numbers(socket) = {}
    OBVIOUS
  <2> HIDE DEF rest
  <2>2. /\ IsFiniteSet(rest \cup Numbers(socket))
        /\ Cardinality(rest \cup Numbers(socket)) = Cardinality(rest) + Cardinality(Numbers(socket))
    BY <1>1, <1>3, <2>1, CountApart
  <2>3. Cardinality(Since) <= Cardinality(rest \cup Numbers(socket))
    BY <2>1, <2>2, FS_Subset
  <2> QED
    BY <2>2, <2>3
<1>5. Read \in Nat /\ ReadFrames <= Read /\ ReadFrames \in Int
  BY DEF Read, ReadFrames, VideoType
<1>6. /\ Cardinality(rest) <= ReadFrames /\ lost_in_transit <= Cardinality(Between)
      /\ Cardinality(Between) - lost_in_transit + Read + Len(socket) - Cardinality(Since) <= runts
  BY DEF Books
<1> HIDE DEF rest
<1> QED
  BY <1>1, <1>2, <1>3, <1>4, <1>5, <1>6

\* While the agent is not restarted and nothing is overtaken, what the tracker calls lost in
\* transit was lost in transit, all of it but for one loss per runt, however many datagrams are
\* sent, lost, read, dropped and flushed (udp.py:59-62, 130-198).
THEOREM LossAlwaysExact == VideoSpec => []LossExact
BY LossInit, LossStep, BooksBalance, PTL DEF VideoSpec

-----------------------------------------------------------------------------
(* The two sources together *)

\* A behaviour with either source is one of the agent's and one of the camera's, of which
\* one rests.
LEMMA SourcesRun == FairSpec => VideoSpec /\ CameraSpec
<1>1. Init => VideoInit /\ CameraInit
  BY DEF Init
<1>2. [Next]_vars => [VideoNext]_videoVars /\ [CameraNext]_cameraVars
  BY DEF Next, vars, OfUdp, OfCamera
<1> QED BY <1>1, <1>2, PTL DEF FairSpec, VideoSpec, CameraSpec
===============================================================================

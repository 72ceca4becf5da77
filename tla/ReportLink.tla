----------------------------- MODULE ReportLink -----------------------------
(***************************************************************************)
(* The report's way from the Pi to the PC: SerialSink frames it (sinks.py, *)
(* send), the ESP32 passes the bytes on (firmware/esp32-proxy) and the Pro *)
(* Micro reassembles, checks and presents them to the host        *)
(* (firmware/pro-micro-proxy).                                             *)
(*                                                                         *)
(* A byte is the set of its 1 bits, so XOR is parity and 0x00 is {}.  Both *)
(* boards handle a byte in far less time than a byte takes on the wire, so *)
(* a byte goes through both in one step; it may be lost before either.     *)
(* Time is counted in keepalive periods: while the Pi is up each sends at  *)
(* least one frame.                                                        *)
(***************************************************************************)
EXTENDS Naturals, FiniteSets, Sequences

CONSTANTS
  Bits,         \* the bits of a byte; 8 in the code
  START,        \* START_BYTE
  REPORT_LEN,   \* 8 in the code
  Reports,      \* the reports KeyState can build; the all-zero one among them
  PERIODS,      \* WATCHDOG_MS in keepalive periods; 12 in the code
  MaxLost       \* bound of the model on lost bytes and outages between two accepted frames

Bytes == SUBSET Bits
Zero == [i \in 1 .. REPORT_LEN |-> {}]

ASSUME ReportAssumption ==
  /\ START \in Bytes /\ START # {}
  /\ REPORT_LEN \in Nat \ {0}
  /\ Zero \in Reports /\ Reports \subseteq [1 .. REPORT_LEN -> Bytes]
  /\ PERIODS \in Nat /\ MaxLost \in Nat

VARIABLES
  piUp,         \* the Pi is up and its serial port open
  sent,         \* every report sent so far
  piReport,     \* the report sent last
  line,         \* bytes under way
  lost,         \* bytes lost and outages since the Pro Micro last accepted a frame
  espInFrame, espLen,         \* ESP32: in_frame, frame_len
  inFrame, frame,             \* Pro Micro: in_frame, rx[0 .. rx_len)
  current, idle, age,         \* Pro Micro: current, idle, millis() - last_frame_ms
  pcReport      \* the report the PC received last

sender == <<piUp, sent, piReport>>
relay == <<espInFrame, espLen>>
proMicro == <<inFrame, frame, current, idle, age, pcReport>>
reportVars == <<sender, line, lost, relay, proMicro>>

-----------------------------------------------------------------------------
(* Framing *)

Xor(s) == {b \in Bits : Cardinality({i \in DOMAIN s : b \in s[i]}) % 2 = 1}

Frame(r) == <<START>> \o r \o <<Xor(r)>>

\* Mutation, AcceptedWasSent: the checksum is not looked at.
Checks_Unchecked(report, byte) == TRUE

Checks(report, byte) == Xor(report) = byte

-----------------------------------------------------------------------------
(* Mutations of the actions below: each breaks the property named with it. *)

\* KeysComeUp: the watchdog waits for the frame it is in to end.
ReportWatchdog_OutOfFrame ==
  /\ ~ inFrame /\ ~ idle /\ age > PERIODS
  /\ current' = Zero /\ idle' = TRUE /\ pcReport' = Zero
  /\ UNCHANGED <<sender, line, lost, relay, inFrame, frame, age>>

\* HostCatchesUp: the frame ends one byte early.
EspReads_Short(byte) ==
  IF ~ espInFrame THEN espInFrame' = (byte = START) /\ espLen' = 0
  ELSE espLen' = espLen + 1 /\ espInFrame' = (espLen + 1 < REPORT_LEN)

-----------------------------------------------------------------------------
(* The Pi *)

\* Emitter and SerialSink.send: the new report at once, the same one as keepalive.
PiSend(r) ==
  /\ piUp /\ line = << >>
  /\ piReport' = r /\ sent' = sent \cup {r}
  /\ line' = Frame(r)
  /\ age' = IF age > PERIODS THEN age ELSE age + 1
  /\ UNCHANGED <<piUp, lost, relay, inFrame, frame, current, idle, pcReport>>

\* A crash or a pulled cable; what is left of the frame may never be written.
PiDown ==
  /\ piUp /\ lost < MaxLost
  /\ piUp' = FALSE /\ lost' = lost + 1
  /\ line' \in {line, << >>}
  /\ UNCHANGED <<sent, piReport, relay, proMicro>>

\* systemd restarts piproxy, or the sink reopens the port.
PiUp ==
  /\ ~ piUp
  /\ piUp' = TRUE
  /\ UNCHANGED <<sent, piReport, line, lost, relay, proMicro>>

-----------------------------------------------------------------------------
(* The Pro Micro *)

\* What usb_keyboard_send returns is not looked at: the PC may have missed it.
emit(report) ==
  /\ current' = report
  /\ idle' = (report = Zero)
  /\ pcReport' = report \/ UNCHANGED pcReport

\* The byte after the report.  Unchanged reports are not sent to the host again.
AtChecksum(byte) ==
  /\ inFrame' = FALSE
  /\ IF ~ Checks(frame, byte) THEN UNCHANGED <<current, idle, pcReport, age>>
     ELSE /\ age' = 0
          /\ IF frame # current THEN emit(frame) ELSE UNCHANGED <<current, idle, pcReport>>
  /\ UNCHANGED frame

Reassemble(byte) ==
  \/ /\ ~ inFrame
     /\ inFrame' = (byte = START)
     /\ frame' = IF byte = START THEN << >> ELSE frame
     /\ UNCHANGED <<current, idle, age, pcReport>>
  \/ /\ inFrame /\ Len(frame) < REPORT_LEN
     /\ frame' = Append(frame, byte)
     /\ UNCHANGED <<inFrame, current, idle, age, pcReport>>
  \/ /\ inFrame /\ Len(frame) = REPORT_LEN
     /\ AtChecksum(byte)

ReportWatchdog ==
  /\ ~ idle /\ age > PERIODS
  /\ emit(Zero)
  /\ UNCHANGED <<sender, line, lost, relay, inFrame, frame, age>>

\* Nothing on the wire for a keepalive period.  The Pro Micro's loop is faster than that.
Silence ==
  /\ ~ piUp /\ line = << >>
  /\ age <= PERIODS
  /\ age' = age + 1
  /\ UNCHANGED <<sender, line, lost, relay, inFrame, frame, current, idle, pcReport>>

-----------------------------------------------------------------------------
(* The ESP32, and a byte's way through both boards *)

\* loop(): outside a frame only a header is passed on, inside everything is.
EspForwards(byte) == espInFrame \/ byte = START

EspReads(byte) ==
  IF ~ espInFrame THEN espInFrame' = (byte = START) /\ espLen' = 0
  ELSE espLen' = espLen + 1 /\ espInFrame' = (espLen + 1 < REPORT_LEN + 1)

\* No byte is lost.
Deliver ==
  /\ line # << >>
  /\ line' = Tail(line)
  /\ EspReads(Head(line))
  /\ IF EspForwards(Head(line)) THEN Reassemble(Head(line)) ELSE UNCHANGED proMicro
  /\ lost' = IF age' < age THEN 0 ELSE lost
  /\ UNCHANGED sender

LoseBeforeEsp ==
  /\ line # << >> /\ lost < MaxLost
  /\ line' = Tail(line) /\ lost' = lost + 1
  /\ UNCHANGED <<sender, relay, proMicro>>

LoseAfterEsp ==
  /\ line # << >> /\ lost < MaxLost
  /\ EspForwards(Head(line))
  /\ line' = Tail(line) /\ lost' = lost + 1
  /\ EspReads(Head(line))
  /\ UNCHANGED <<sender, proMicro>>

-----------------------------------------------------------------------------
ReportInit ==
  /\ piUp = TRUE /\ sent = {Zero} /\ piReport = Zero
  /\ line = << >> /\ lost = 0
  /\ espInFrame = FALSE /\ espLen = 0
  /\ inFrame = FALSE /\ frame = << >>
  /\ current = Zero /\ idle = TRUE /\ age = 0
  /\ pcReport = Zero

ReportNext ==
  \/ \E r \in Reports : PiSend(r)
  \/ PiDown \/ PiUp
  \/ Deliver \/ LoseBeforeEsp \/ LoseAfterEsp
  \/ ReportWatchdog \/ Silence

ReportSpec == ReportInit /\ [][ReportNext]_reportVars

-----------------------------------------------------------------------------
(* Properties *)

\* The Pro Micro acts on no report that nobody sent (pro-micro-proxy.ino:92-99), wherever on
\* the two hops a byte is lost: no more than MaxLost of them between two frames it accepts,
\* and, where it passes, with a START that no other byte of a frame can be.
AcceptedWasSent == {current, pcReport} \subseteq sent

\* Whatever was lost on the way, the host catches up with a report that is sent again and
\* again (sinks.py:275-277), unless the PC missed the transfer itself.
HostCatchesUp ==
  \/ []<>(pcReport = piReport)
  \/ <>[](pcReport # current)
  \/ []<><<TRUE>>_<<piUp, piReport>>
  \/ <>[]~ piUp

\* No key survives a Pi that is gone (pro-micro-proxy.ino:108-110), unless the PC missed
\* the release.
KeysComeUp == <>[]~ piUp => <>[](pcReport = current => pcReport = Zero)
=============================================================================

----------------------------- MODULE FirmwareProofs -----------------------------
(***************************************************************************)
(* Theorems about the two rigs of the firmware.                            *)
(*                                                                         *)
(* The direct trigger link, for every watchdog time, every width of        *)
(* millis(), every buffer size and any number of restarts.  While the wire *)
(* is up, the difference of two wrapped clocks is the true time of         *)
(* silence: this is what the watchdog rests on, and it holds only because  *)
(* the wire never stays up for a whole turn of the clock.                  *)
(*                                                                         *)
(* The Pi's proxy link, for every length of report.  After a lost byte the *)
(* two boards may be out of step with the frame and with each other; a     *)
(* frame put together from the ends of two is dropped because of the bit   *)
(* that only headers have: it is then in the report or in the checksum,    *)
(* never in both.                                                          *)
(***************************************************************************)
EXTENDS MCFirmware, FiniteSetTheorems, TLAPS

-----------------------------------------------------------------------------
(* The direct link: the inductive invariant *)

\* What the watchdog computes is the time since the last byte, and it has not run out by
\* more than the tick in which it is noticed.
WireTimed == pin => Elapsed = silent /\ silent <= WATCHDOG + 1

\* The Pro Micro's belief is not older than one tick either.
BeliefTimed == pressed => silent <= WATCHDOG + 1

IInv == TypeOK /\ WireTimed /\ BeliefTimed

-----------------------------------------------------------------------------
(* Arithmetic of the clock *)

LEMMA ModSmall == ASSUME NEW W \in Nat \ {0}, NEW x \in 0 .. W - 1
                  PROVE  x % W = x /\ (W + x) % W = x /\ W % W = 0
OBVIOUS

\* One tick later the difference is one more, as long as it does not reach the width.
LEMMA ElapsedTick ==
  ASSUME NEW W \in Nat \ {0}, NEW m \in 0 .. W - 1, NEW l \in 0 .. W - 1,
         ((W + m - l) % W) + 1 < W
  PROVE  /\ (m + 1) % W \in 0 .. W - 1
         /\ (W + ((m + 1) % W) - l) % W = ((W + m - l) % W) + 1
<1>1. CASE m < l
  <2>1. (W + m - l) % W = W + m - l
    <3>1. W + m - l \in 0 .. W - 1
      BY <1>1
    <3> QED BY <3>1, ModSmall
  <2>2. (m + 1) % W = m + 1
    <3>1. m + 1 \in 0 .. W - 1
      BY <1>1
    <3> QED BY <3>1, ModSmall
  <2>3. W + (m + 1) - l \in 0 .. W - 1
    BY <1>1, <2>1
  <2>4. (W + (m + 1) - l) % W = W + (m + 1) - l
    BY <2>3, ModSmall
  <2> QED BY <1>1, <2>1, <2>2, <2>4
<1>2. CASE l <= m
  <2>1. (W + m - l) % W = m - l
    <3>1. m - l \in 0 .. W - 1 /\ W + m - l = W + (m - l)
      BY <1>2
    <3> QED BY <3>1, ModSmall
  <2>2. CASE m + 1 < W
    <3>1. (m + 1) % W = m + 1
      <4>1. m + 1 \in 0 .. W - 1
        BY <2>2
      <4> QED BY <4>1, ModSmall
    <3>2. (m + 1) - l \in 0 .. W - 1 /\ W + (m + 1) - l = W + ((m + 1) - l)
      BY <1>2, <2>2
    <3>3. (W + (m + 1) - l) % W = (m + 1) - l
      BY <3>2, ModSmall
    <3> QED BY <2>1, <2>2, <3>1, <3>3
  <2>3. CASE m + 1 = W
    <3>1. (m + 1) % W = 0
      BY <2>3, ModSmall
    <3>2. W - l \in 0 .. W - 1 /\ W + 0 - l = W - l
      BY <2>1, <2>3
    <3>3. (W + 0 - l) % W = W - l
      BY <3>2, ModSmall
    <3> QED BY <2>1, <2>3, <3>1, <3>3
  <2> QED BY <2>2, <2>3
<1> QED BY <1>1, <1>2

-----------------------------------------------------------------------------
(* The invariant holds initially *)

LEMMA InitInv == Init => IInv
<1> SUFFICES ASSUME Init PROVE IInv
  OBVIOUS
<1>1. Width \in Nat \ {0} /\ WATCHDOG \in Nat /\ RxSize \in Nat /\ MaxBoots \in Nat
  BY LinkAssumption
<1>2. TypeOK
  <2>1. rx \in Seq({0, 1}) /\ Len(rx) <= RxSize
    BY <1>1 DEF Init
  <2>2. silent \in 0 .. SilentCap /\ boots \in 0 .. MaxBoots
    BY <1>1 DEF Init, SilentCap
  <2>3. {millis, last_byte_ms} \subseteq 0 .. Width - 1
    BY <1>1 DEF Init
  <2> QED BY <2>1, <2>2, <2>3 DEF Init, TypeOK, None
<1> QED BY <1>2 DEF Init, IInv, WireTimed, BeliefTimed

-----------------------------------------------------------------------------
(* Every step keeps the types *)

LEMMA ReceiveType ==
  ASSUME TypeOK, NEW b \in {0, 1}, Receive(b)
  PROVE  rx' \in Seq({0, 1}) /\ Len(rx') <= RxSize /\ newest' \in {0, 1, None}
<1>1. RxSize \in Nat /\ rx \in Seq({0, 1}) /\ Len(rx) <= RxSize
  BY LinkAssumption DEF TypeOK
<1>2. CASE Len(rx) < RxSize
  <2>1. rx' = Append(rx, b) /\ newest' = b
    BY <1>2 DEF Receive
  <2>2. Append(rx, b) \in Seq({0, 1}) /\ Len(Append(rx, b)) = Len(rx) + 1
    BY <1>1
  <2> QED BY <1>1, <1>2, <2>1, <2>2
<1>3. CASE ~ (Len(rx) < RxSize)
  <2>1. rx' = rx /\ newest' = newest
    BY <1>3 DEF Receive
  <2> QED BY <1>1, <2>1 DEF TypeOK
<1> QED BY <1>2, <1>3

LEMMA NextType == TypeOK /\ [Next]_vars => TypeOK'
<1> SUFFICES ASSUME TypeOK, [Next]_vars PROVE TypeOK'
  OBVIOUS
<1>0. /\ Width \in Nat \ {0} /\ WATCHDOG \in Nat /\ MaxBoots \in Nat /\ RxSize \in Nat
      /\ SilentCap \in Nat
  BY LinkAssumption DEF SilentCap
<1> USE DEF mac, esp, pro, history
<1>1. ASSUME NEW b \in BOOLEAN, Update(b) PROVE TypeOK'
  <2>1. Byte(b) \in {0, 1}
    BY DEF Byte
  <2>2. rx' \in Seq({0, 1}) /\ Len(rx') <= RxSize /\ newest' \in {0, 1, None}
    BY <1>1, <2>1, ReceiveType DEF Update, TypeOK
  <2> QED BY <1>1, <2>2 DEF Update, TypeOK, SilentCap
<1>2. CASE Keepalive
  <2>1. Byte(state) \in {0, 1}
    BY DEF Byte
  <2>2. rx' \in Seq({0, 1}) /\ Len(rx') <= RxSize /\ newest' \in {0, 1, None}
    BY <1>2, <2>1, ReceiveType DEF Keepalive
  <2> QED BY <1>2, <2>2 DEF Keepalive, TypeOK, SilentCap
<1>3. CASE MacGone
  <2>1. boots' \in 0 .. MaxBoots
    BY <1>0, <1>3 DEF MacGone, TypeOK
  <2>2. silent' = silent
    BY <1>3 DEF MacGone
  <2> QED BY <1>3, <2>1, <2>2 DEF MacGone, TypeOK, SilentCap
<1>4. CASE MacBack
  BY <1>4 DEF MacBack, TypeOK, SilentCap
<1>5. CASE Read
  <2>1. rx' \in Seq({0, 1}) /\ Len(rx') <= RxSize /\ last' \in {0, 1}
    BY <1>0, <1>5 DEF Read, TypeOK
  <2> QED BY <1>5, <2>1 DEF Read, TypeOK, SilentCap
<1>6. CASE Act
  BY <1>0, <1>6 DEF Act, TypeOK, SilentCap, None
<1>7. CASE Watchdog
  BY <1>7 DEF Watchdog, TypeOK, SilentCap
<1>8. CASE EspBoots
  <2>1. boots' \in 0 .. MaxBoots
    BY <1>0, <1>8 DEF EspBoots, TypeOK
  <2>2. silent' = silent
    BY <1>8 DEF EspBoots
  <2>3. rx' \in Seq({0, 1}) /\ Len(rx') <= RxSize /\ {millis', last_byte_ms'} \subseteq 0 .. Width - 1
    BY <1>0, <1>8 DEF EspBoots
  <2> QED BY <1>8, <2>1, <2>2, <2>3 DEF EspBoots, TypeOK, SilentCap, None
<1>9. ASSUME NEW taken \in BOOLEAN, ProMicro(taken) PROVE TypeOK'
  BY <1>9 DEF ProMicro, TypeOK, SilentCap
<1>10. CASE ProMicroBoots
  <2>1. boots' \in 0 .. MaxBoots
    BY <1>0, <1>10 DEF ProMicroBoots, TypeOK
  <2>2. silent' = silent
    BY <1>10 DEF ProMicroBoots
  <2> QED BY <1>10, <2>1, <2>2 DEF ProMicroBoots, TypeOK, SilentCap
<1>11. CASE Tick
  <2>1. millis' \in 0 .. Width - 1
    <3>1. (millis + 1) % Width \in 0 .. Width - 1
      BY <1>0 DEF TypeOK
    <3> QED BY <1>11, <3>1 DEF Tick
  <2>2. silent' \in 0 .. SilentCap
    BY <1>0, <1>11 DEF Tick, TypeOK
  <2> QED BY <1>11, <2>1, <2>2 DEF Tick, TypeOK, SilentCap
<1>12. CASE UNCHANGED vars
  BY <1>12 DEF vars, TypeOK, SilentCap
<1> QED BY <1>1, <1>2, <1>3, <1>4, <1>5, <1>6, <1>7, <1>8, <1>9, <1>10, <1>11, <1>12
        DEF Next, Esp, Pro

-----------------------------------------------------------------------------
(* Every step keeps the watchdog's arithmetic true *)

\* A tick on which the wire is up: the watchdog is not due, so there is time left.
LEMMA TickTimed ==
  ASSUME TypeOK, WireTimed, pin, Tick
  PROVE  /\ silent <= WATCHDOG /\ silent' = silent + 1
         /\ pin' = pin /\ Elapsed' = silent'
<1>1. /\ Width \in Nat \ {0} /\ WATCHDOG \in Nat /\ WATCHDOG + 2 <= Width
      /\ millis \in 0 .. Width - 1 /\ last_byte_ms \in 0 .. Width - 1 /\ silent \in Nat
  BY LinkAssumption DEF TypeOK
<1>2. Elapsed = silent /\ silent <= WATCHDOG
  <2>1. Elapsed = silent /\ ~ (Elapsed > WATCHDOG)
    BY DEF WireTimed, Tick, WatchdogDue
  <2> QED BY <1>1, <2>1
<1>3. silent' = silent + 1
  BY <1>1, <1>2 DEF Tick, SilentCap
<1>4. millis' = (millis + 1) % Width /\ last_byte_ms' = last_byte_ms /\ pin' = pin
  BY DEF Tick, esp
<1>5. ((Width + millis - last_byte_ms) % Width) + 1 < Width
  BY <1>1, <1>2 DEF Elapsed
<1>6. Elapsed' = Elapsed + 1
  BY <1>1, <1>4, <1>5, ElapsedTick DEF Elapsed
<1> QED BY <1>2, <1>3, <1>4, <1>6

LEMMA NextTimed == TypeOK /\ WireTimed /\ [Next]_vars => WireTimed'
<1> SUFFICES ASSUME TypeOK, WireTimed, [Next]_vars PROVE WireTimed'
  OBVIOUS
<1> DEFINE Clock == <<pin, silent, millis, last_byte_ms>>
<1>0. Width \in Nat \ {0} /\ WATCHDOG \in Nat /\ millis \in 0 .. Width - 1
  BY LinkAssumption DEF TypeOK
<1>1. ASSUME Clock' = Clock PROVE WireTimed'
  BY <1>1 DEF WireTimed, Elapsed
<1>2. ASSUME ~ pin' PROVE WireTimed'
  BY <1>2 DEF WireTimed
<1>3. CASE Act
  <2>1. silent' = 0 /\ Elapsed' = (Width + millis - millis) % Width
    BY <1>3 DEF Act, Elapsed
  <2>2. Width + millis - millis = Width
    BY <1>0
  <2>3. Width % Width = 0
    BY <1>0, ModSmall
  <2> QED BY <1>0, <2>1, <2>2, <2>3 DEF WireTimed
<1>4. CASE Tick
  <2>1. CASE pin
    BY <1>0, <1>4, <2>1, TickTimed DEF WireTimed, TypeOK
  <2>2. CASE ~ pin
    BY <1>2, <1>4, <2>2 DEF Tick, esp
  <2> QED BY <2>1, <2>2
<1>5. ASSUME Watchdog \/ EspBoots PROVE ~ pin'
  BY <1>5 DEF Watchdog, EspBoots
<1>6. ASSUME \/ \E b \in BOOLEAN : Update(b)
             \/ Keepalive \/ MacGone \/ MacBack \/ Read \/ Pro \/ ProMicroBoots
             \/ UNCHANGED vars
      PROVE  Clock' = Clock
  BY <1>6 DEF Update, Keepalive, MacGone, MacBack, Read, Pro, ProMicro, ProMicroBoots, vars,
              mac, esp, pro, history
<1> QED BY <1>1, <1>2, <1>3, <1>4, <1>5, <1>6 DEF Next, Esp

-----------------------------------------------------------------------------
(* Every step keeps the Pro Micro in time *)

LEMMA NextBelief == TypeOK /\ WireTimed /\ BeliefTimed /\ [Next]_vars => BeliefTimed'
<1> SUFFICES ASSUME TypeOK, WireTimed, BeliefTimed, [Next]_vars PROVE BeliefTimed'
  OBVIOUS
<1>0. WATCHDOG \in Nat /\ silent \in Nat
  BY LinkAssumption DEF TypeOK
<1>1. ASSUME pressed' = pressed, silent' = silent PROVE BeliefTimed'
  BY <1>1 DEF BeliefTimed
<1>2. CASE Act
  BY <1>0, <1>2 DEF Act, BeliefTimed
<1>3. CASE Pro
  <2>1. pressed' = pin /\ silent' = silent
    BY <1>3 DEF Pro, ProMicro, history
  <2> QED BY <2>1 DEF WireTimed, BeliefTimed
<1>4. CASE ProMicroBoots
  BY <1>4 DEF ProMicroBoots, BeliefTimed
<1>5. CASE Tick
  <2>1. pressed' = pressed /\ pin = pressed
    BY <1>5 DEF Tick, pro
  <2>2. CASE pin
    <3>1. silent' = silent + 1 /\ silent <= WATCHDOG
      BY <1>5, <2>2, TickTimed
    <3> QED BY <1>0, <3>1 DEF BeliefTimed
  <2>3. CASE ~ pin
    BY <2>1, <2>3 DEF BeliefTimed, TypeOK
  <2> QED BY <2>2, <2>3
<1>6. ASSUME \/ \E b \in BOOLEAN : Update(b)
             \/ Keepalive \/ MacGone \/ MacBack \/ Read \/ Watchdog \/ EspBoots
             \/ UNCHANGED vars
      PROVE  pressed' = pressed /\ silent' = silent
  BY <1>6 DEF Update, Keepalive, MacGone, MacBack, Read, Watchdog, EspBoots, vars,
              mac, esp, pro, history
<1> QED BY <1>1, <1>2, <1>3, <1>4, <1>5, <1>6 DEF Next, Esp

LEMMA NextInv == IInv /\ [Next]_vars => IInv'
BY NextType, NextTimed, NextBelief DEF IInv

LEMMA Invariance == Spec => []IInv
<1>1. Init => IInv
  BY InitInv
<1>2. IInv /\ [Next]_vars => IInv'
  BY NextInv
<1> QED BY <1>1, <1>2, PTL DEF Spec

-----------------------------------------------------------------------------
(* The newest byte is at the end of the buffer, or has been read *)

NewestLast ==
  /\ rx # << >> => rx[Len(rx)] = newest
  /\ rx = << >> /\ last # None => last = newest

LEMMA ReceiveNewest ==
  ASSUME TypeOK, NewestLast, NEW b \in {0, 1}, Receive(b), last' = last
  PROVE  NewestLast'
<1>1. RxSize \in Nat \ {0} /\ rx \in Seq({0, 1})
  BY LinkAssumption DEF TypeOK
<1>2. CASE Len(rx) < RxSize
  <2>1. rx' = Append(rx, b) /\ newest' = b
    BY <1>2 DEF Receive
  <2>2. Append(rx, b) # << >> /\ Append(rx, b)[Len(Append(rx, b))] = b
    BY <1>1
  <2> QED BY <2>1, <2>2 DEF NewestLast
<1>3. CASE ~ (Len(rx) < RxSize)
  <2>1. rx' = rx /\ newest' = newest
    BY <1>3 DEF Receive
  <2> QED BY <2>1 DEF NewestLast
<1> QED BY <1>2, <1>3

LEMMA NextNewest == TypeOK /\ NewestLast /\ [Next]_vars => NewestLast'
<1> SUFFICES ASSUME TypeOK, NewestLast, [Next]_vars PROVE NewestLast'
  OBVIOUS
<1> USE DEF mac, esp, pro, history
<1>1. ASSUME NEW b \in BOOLEAN, Update(b) PROVE NewestLast'
  <2>1. Byte(b) \in {0, 1} /\ last' = last
    BY <1>1 DEF Byte, Update
  <2>2. CASE Receive(Byte(b))
    BY <2>1, <2>2, ReceiveNewest
  <2>3. CASE UNCHANGED <<rx, newest>>
    BY <2>1, <2>3 DEF NewestLast
  <2> QED BY <1>1, <2>2, <2>3 DEF Update
<1>2. CASE Keepalive
  <2>1. Byte(state) \in {0, 1} /\ last' = last /\ Receive(Byte(state))
    BY <1>2 DEF Byte, Keepalive
  <2> QED BY <2>1, ReceiveNewest
<1>3. CASE Read
  <2>1. rx \in Seq({0, 1}) /\ rx # << >> /\ rx' = Tail(rx) /\ last' = Head(rx) /\ newest' = newest
    BY <1>3 DEF Read, TypeOK
  <2>2. Len(rx) \in Nat \ {0} /\ Len(Tail(rx)) = Len(rx) - 1 /\ Head(rx) = rx[1]
    BY <2>1
  <2>3. CASE Tail(rx) = << >>
    <3>1. Len(rx) = 1
      BY <2>2, <2>3
    <3> QED BY <2>1, <2>2, <2>3, <3>1 DEF NewestLast
  <2>4. CASE Tail(rx) # << >>
    <3>1. Tail(rx)[Len(Tail(rx))] = rx[Len(rx)]
      BY <2>1, <2>2, <2>4
    <3> QED BY <2>1, <2>4, <3>1 DEF NewestLast
  <2> QED BY <2>3, <2>4
<1>4. CASE Act
  BY <1>4 DEF Act, NewestLast
<1>5. CASE EspBoots
  BY <1>5 DEF EspBoots, NewestLast
<1>6. ASSUME MacGone \/ MacBack \/ Watchdog \/ Pro \/ ProMicroBoots \/ Tick \/ UNCHANGED vars
      PROVE  rx' = rx /\ last' = last /\ newest' = newest
  BY <1>6 DEF MacGone, MacBack, Watchdog, Pro, ProMicro, ProMicroBoots, Tick, vars
<1>7. ASSUME rx' = rx /\ last' = last /\ newest' = newest PROVE NewestLast'
  BY <1>7 DEF NewestLast
<1> QED BY <1>1, <1>2, <1>3, <1>4, <1>5, <1>6, <1>7 DEF Next, Esp

-----------------------------------------------------------------------------
(* Theorems *)

\* The buffer never overruns and both clocks stay in range, for every size and width
\* (esp32-link.ino:38-62).
THEOREM LinkTypeCorrect == Spec => []TypeOK
<1>1. IInv => TypeOK
  BY DEF IInv
<1> QED BY <1>1, Invariance, PTL

\* The key on the PC is up one tick after the watchdog's time, for every watchdog time and
\* every width of the clock that exceeds it by two ticks, unless the PC missed the release
\* (esp32-link.ino:55-62, pro-micro-hid.ino:27-38).
THEOREM SilenceReleasesAlways == Spec => []SilenceReleases
<1>1. IInv => SilenceReleases
  BY DEF IInv, BeliefTimed, SilenceReleases
<1> QED BY <1>1, Invariance, PTL

\* The wire falls only for a release byte, for silence that has lasted, or in a restart: the
\* watchdog is never early, also when millis() wraps.
THEOREM NoEarlyReleaseAlways == Spec => NoEarlyRelease
<1>1. IInv /\ [Next]_vars
      => [pin /\ ~ pin' /\ boots' = boots => last = 0 \/ silent > WATCHDOG]_vars
  <2> SUFFICES ASSUME IInv, Next, pin, ~ pin', boots' = boots
               PROVE  last = 0 \/ silent > WATCHDOG
    OBVIOUS
  <2>1. CASE Act
    BY <2>1 DEF Act
  <2>2. CASE Watchdog
    BY <2>2 DEF Watchdog, WatchdogDue, IInv, WireTimed
  <2>3. ~ EspBoots
    BY LinkAssumption DEF EspBoots, IInv, TypeOK
  <2>4. ASSUME \/ \E b \in BOOLEAN : Update(b)
               \/ Keepalive \/ MacGone \/ MacBack \/ Read \/ Pro \/ ProMicroBoots \/ Tick
        PROVE  FALSE
    BY <2>4 DEF Update, Keepalive, MacGone, MacBack, Read, Pro, ProMicro, ProMicroBoots, Tick,
                mac, esp, pro, history
  <2> QED BY <2>1, <2>2, <2>3, <2>4 DEF Next, Esp
<1> QED BY <1>1, Invariance, PTL DEF Spec, NoEarlyRelease

\* What the ESP32 acts on is the last byte it received, for every buffer size, also when the
\* buffer was full in between.
THEOREM NewestWinsAlways == Spec => NewestWins
<1>1. Init => NewestLast
  BY DEF Init, NewestLast
<1>2. TypeOK /\ NewestLast /\ [Next]_vars => NewestLast'
  BY NextNewest
<1>3. TypeOK /\ NewestLast /\ [Next]_vars
      => [last # None /\ last' = None /\ boots' = boots => pin' = (newest # 0)]_vars
  <2> SUFFICES ASSUME NewestLast, TypeOK, Next, last # None, last' = None, boots' = boots
               PROVE  pin' = (newest # 0)
    OBVIOUS
  <2>1. CASE Act
    BY <2>1 DEF Act, NewestLast
  <2>2. CASE Read
    <3>1. rx \in Seq({0, 1}) /\ rx # << >> /\ last' = Head(rx)
      BY <2>2 DEF Read, TypeOK
    <3>2. Head(rx) \in {0, 1}
      BY <3>1
    <3> QED BY <3>1, <3>2 DEF None
  <2>3. ~ EspBoots
    BY LinkAssumption DEF EspBoots, TypeOK
  <2>4. ASSUME \/ \E b \in BOOLEAN : Update(b)
               \/ Keepalive \/ MacGone \/ MacBack \/ Watchdog \/ Pro \/ ProMicroBoots \/ Tick
        PROVE  FALSE
    BY <2>4 DEF Update, Keepalive, MacGone, MacBack, Watchdog, Pro, ProMicro, ProMicroBoots, Tick,
                mac, esp, pro, history
  <2> QED BY <2>1, <2>2, <2>3, <2>4 DEF Next, Esp
<1> QED BY <1>1, <1>2, <1>3, LinkTypeCorrect, PTL DEF Spec, NewestWins

\* The ESP32 implements FarEnd: a step of the link raises the wire only on a byte that was
\* heard, and holds it only for as long as FarEnd allows.
THEOREM LinkImplementsFarEnd == Spec => LinkSpec
<1> DEFINE Age == IF silent > WATCHDOG + 2 THEN WATCHDOG + 2 ELSE silent
<1> USE DEF LinkEnd!vars, LinkEnd!Hear, LinkEnd!Release, LinkEnd!Hold
<1>0. WATCHDOG \in Nat
  BY LinkAssumption
<1>1. Init => LinkEnd!Init
  BY <1>0 DEF Init, LinkEnd!Init
<1>2. IInv /\ IInv' /\ [Next]_vars => [LinkEnd!Next]_(LinkEnd!vars)
  <2> SUFFICES ASSUME IInv, IInv', [Next]_vars PROVE [LinkEnd!Next]_(LinkEnd!vars)
    OBVIOUS
  <2>0. /\ TypeOK /\ WireTimed /\ pin \in BOOLEAN /\ pin' \in BOOLEAN
        /\ silent \in Nat /\ silent' \in Nat
    BY LinkAssumption DEF IInv, TypeOK
  <2>1. CASE Act
    <3>1. silent' = 0
      BY <2>1 DEF Act
    <3> QED BY <1>0, <2>0, <3>1 DEF LinkEnd!Next
  <2>2. ASSUME ~ pin' PROVE [LinkEnd!Next]_(LinkEnd!vars)
    BY <1>0, <2>0, <2>2 DEF LinkEnd!Next
  <2>3. CASE Watchdog \/ EspBoots
    BY <2>2, <2>3 DEF Watchdog, EspBoots
  <2>4. CASE Tick
    <3>1. CASE pin
      <4>1. silent <= WATCHDOG /\ silent' = silent + 1 /\ pin' = pin
        BY <2>0, <2>4, <3>1, TickTimed
      <4> QED BY <1>0, <2>0, <3>1, <4>1 DEF LinkEnd!Next
    <3>2. CASE ~ pin
      BY <2>2, <2>4, <3>2 DEF Tick, esp
    <3> QED BY <3>1, <3>2
  <2>5. ASSUME \/ \E b \in BOOLEAN : Update(b)
               \/ Keepalive \/ MacGone \/ MacBack \/ Read \/ Pro \/ ProMicroBoots
               \/ UNCHANGED vars
        PROVE  pin' = pin /\ silent' = silent
    BY <2>5 DEF Update, Keepalive, MacGone, MacBack, Read, Pro, ProMicro, ProMicroBoots, vars,
                mac, esp, pro, history
  <2> QED BY <2>1, <2>3, <2>4, <2>5 DEF Next, Esp
<1> QED BY <1>1, <1>2, Invariance, PTL DEF Spec, LinkSpec, LinkEnd!Spec
-----------------------------------------------------------------------------
(* The Pi's proxy link: the inductive invariant *)

\* A bit of the header byte that no report uses.  In the code this is bit 7 of 0xAB: no
\* usage of the key table reaches 0x80, and of the modifiers only Right GUI has it.
Spare(b) == b \in START /\ \A r \in Reports : \A i \in 1 .. REPORT_LEN : b \notin r[i]

\* The byte at place i of the frame of report r.
Whole(r, i) ==
  IF i = 1 THEN START ELSE IF i = REPORT_LEN + 2 THEN Xor(r) ELSE r[i - 1]

\* What is under way is the end of that frame.
LineIs ==
  /\ line \in Seq(Bytes) /\ Len(line) <= REPORT_LEN + 2
  /\ \A i \in 1 .. Len(line) : line[i] = Whole(piReport, i + (REPORT_LEN + 2 - Len(line)))

Free(b, s) == \A i \in 1 .. Len(s) : b \notin s[i]

\* One byte of s has the bit.
Marked(b, s) ==
  \E k \in 1 .. Len(s) : b \in s[k] /\ \A i \in 1 .. Len(s) : i # k => b \notin s[i]

\* Both boards are outside a frame.
Outside == ~ espInFrame /\ ~ inFrame

\* Both boards are inside, at the same byte.
Together == espInFrame /\ inFrame /\ espLen = Len(frame) /\ Len(frame) <= REPORT_LEN

\* Nothing of this frame was lost.
Unbroken ==
  /\ Together
  /\ Len(frame) + Len(line) = REPORT_LEN + 1
  /\ \A i \in 1 .. Len(frame) : frame[i] = piReport[i]

\* A byte was lost on the way to the ESP32, and the next header has not been read.
Short(b) ==
  /\ lost = 1 /\ Together /\ Free(b, frame)
  /\ Len(line) + Len(frame) <= REPORT_LEN \/ Len(line) = REPORT_LEN + 2

\* The next header was read as a byte of the report.
Swallowed(b) ==
  /\ lost = 1 /\ Together /\ Marked(b, frame)
  /\ Len(line) <= REPORT_LEN + 1 /\ Len(frame) + Len(line) >= REPORT_LEN + 1

\* A byte was lost between the boards: the Pro Micro is one byte behind the ESP32,
Behind(b) ==
  /\ lost = 1 /\ espInFrame /\ inFrame /\ espLen = Len(frame) + 1 /\ Free(b, frame)
  /\ Len(line) > 0 /\ espLen + Len(line) = REPORT_LEN + 1

\* waits for a last byte that the ESP32 takes to have passed on,
Waiting(b) ==
  /\ lost = 1 /\ ~ espInFrame /\ inFrame /\ Free(b, frame) /\ Len(frame) = REPORT_LEN
  /\ Len(line) \in {0, REPORT_LEN + 2}

\* or has not seen the header of the frame the ESP32 is in.
Deaf ==
  /\ lost = 1 /\ espInFrame /\ ~ inFrame
  /\ Len(line) \in 1 .. REPORT_LEN + 1 /\ espLen = REPORT_LEN + 1 - Len(line)

Stage(b) ==
  Outside \/ Unbroken \/ Short(b) \/ Swallowed(b) \/ Behind(b) \/ Waiting(b) \/ Deaf

ReportInv(b) ==
  /\ piReport \in Reports /\ lost \in {0, 1} /\ age \in Nat
  /\ frame \in Seq(Bytes)
  /\ {Zero, piReport, current, pcReport} \subseteq sent
  /\ LineIs /\ Stage(b)

-----------------------------------------------------------------------------
(* The checksum *)

\* XOR over bytes of which none has the bit leaves the bit out.
LEMMA XorFree ==
  ASSUME NEW b, NEW s, \A i \in DOMAIN s : b \notin s[i]
  PROVE  b \notin Xor(s)
<1>1. {i \in DOMAIN s : b \in s[i]} = {}
  OBVIOUS
<1>2. Cardinality({i \in DOMAIN s : b \in s[i]}) = 0
  BY <1>1, FS_EmptySet
<1> QED BY <1>2 DEF Xor

\* XOR over bytes of which exactly one has the bit has it.
LEMMA XorMarked ==
  ASSUME NEW b \in Bits, NEW s, NEW k \in DOMAIN s, b \in s[k],
         \A i \in DOMAIN s : i # k => b \notin s[i]
  PROVE  b \in Xor(s)
<1>1. {i \in DOMAIN s : b \in s[i]} = {k}
  OBVIOUS
<1>2. Cardinality({i \in DOMAIN s : b \in s[i]}) = 1
  BY <1>1, FS_Singleton
<1> QED BY <1>2 DEF Xor

LEMMA XorByte == ASSUME NEW s PROVE Xor(s) \in Bytes
BY DEF Xor, Bytes

LEMMA PlaceIs ==
  ASSUME NEW n \in Nat, NEW i \in 1 .. n + 2
  PROVE  i = 1 \/ i \in 2 .. n + 1 \/ i = n + 2
OBVIOUS

LEMMA JoinSeq ==
  ASSUME NEW S, NEW s \in Seq(S), NEW t \in Seq(S)
  PROVE  /\ s \o t \in Seq(S) /\ Len(s \o t) = Len(s) + Len(t)
         /\ \A i \in 1 .. Len(s) : (s \o t)[i] = s[i]
         /\ \A i \in Len(s) + 1 .. Len(s) + Len(t) : (s \o t)[i] = t[i - Len(s)]
OBVIOUS

\* What is on the wire for a report.
LEMMA FrameIs ==
  ASSUME NEW r \in Reports
  PROVE  /\ r \in Seq(Bytes) /\ Len(r) = REPORT_LEN /\ DOMAIN r = 1 .. REPORT_LEN
         /\ Frame(r) \in Seq(Bytes) /\ Len(Frame(r)) = REPORT_LEN + 2
         /\ \A i \in 1 .. REPORT_LEN + 2 : Frame(r)[i] = Whole(r, i)
<1>1. REPORT_LEN \in Nat \ {0} /\ START \in Bytes /\ r \in [1 .. REPORT_LEN -> Bytes]
  BY ReportAssumption
<1>2. r \in Seq(Bytes) /\ Len(r) = REPORT_LEN /\ DOMAIN r = 1 .. REPORT_LEN
  BY <1>1
<1>3. Xor(r) \in Bytes
  BY XorByte
<1> DEFINE A == <<START>>
           C == <<Xor(r)>>
<1>4. A \in Seq(Bytes) /\ Len(A) = 1 /\ A[1] = START
  BY <1>1
<1>5. C \in Seq(Bytes) /\ Len(C) = 1 /\ C[1] = Xor(r)
  BY <1>3
<1>6. Frame(r) = (A \o r) \o C
  BY DEF Frame
<1> HIDE DEF A, C
<1>7. /\ A \o r \in Seq(Bytes) /\ Len(A \o r) = REPORT_LEN + 1
      /\ (A \o r)[1] = START
      /\ \A i \in 2 .. REPORT_LEN + 1 : (A \o r)[i] = r[i - 1]
  <2>1. /\ A \o r \in Seq(Bytes) /\ Len(A \o r) = Len(A) + Len(r)
        /\ \A i \in 1 .. Len(A) : (A \o r)[i] = A[i]
        /\ \A i \in Len(A) + 1 .. Len(A) + Len(r) : (A \o r)[i] = r[i - Len(A)]
    BY <1>2, <1>4, JoinSeq
  <2>2. 1 \in 1 .. Len(A) /\ Len(A) + Len(r) = REPORT_LEN + 1
    BY <1>1, <1>2, <1>4
  <2> QED BY <1>4, <2>1, <2>2
<1> DEFINE B == A \o r
<1> HIDE DEF B
<1>8. /\ B \in Seq(Bytes) /\ Len(B) = REPORT_LEN + 1 /\ B[1] = START
      /\ \A i \in 2 .. REPORT_LEN + 1 : B[i] = r[i - 1]
  BY <1>7 DEF B
<1>9. /\ B \o C \in Seq(Bytes) /\ Len(B \o C) = REPORT_LEN + 2
      /\ \A i \in 1 .. REPORT_LEN + 1 : (B \o C)[i] = B[i]
      /\ (B \o C)[REPORT_LEN + 2] = Xor(r)
  <2>1. /\ B \o C \in Seq(Bytes) /\ Len(B \o C) = Len(B) + Len(C)
        /\ \A i \in 1 .. Len(B) : (B \o C)[i] = B[i]
        /\ \A i \in Len(B) + 1 .. Len(B) + Len(C) : (B \o C)[i] = C[i - Len(B)]
    BY <1>5, <1>8, JoinSeq
  <2>2. /\ Len(B) = REPORT_LEN + 1 /\ Len(B) + Len(C) = REPORT_LEN + 2
        /\ REPORT_LEN + 2 \in Len(B) + 1 .. Len(B) + Len(C)
        /\ (REPORT_LEN + 2) - Len(B) = 1
    BY <1>1, <1>5, <1>8
  <2>3. (B \o C)[REPORT_LEN + 2] = Xor(r)
    BY <1>5, <2>1, <2>2
  <2> QED BY <2>1, <2>2, <2>3
<1>10. ASSUME NEW i \in 1 .. REPORT_LEN + 2 PROVE (B \o C)[i] = Whole(r, i)
  <2>1. CASE i = 1
    <3>1. 1 \in 1 .. REPORT_LEN + 1
      BY <1>1
    <3> QED BY <1>8, <1>9, <2>1, <3>1 DEF Whole
  <2>2. CASE i \in 2 .. REPORT_LEN + 1
    <3>1. i \in 1 .. REPORT_LEN + 1 /\ i # 1 /\ i # REPORT_LEN + 2
      BY <1>1, <2>2
    <3> QED BY <1>8, <1>9, <2>2, <3>1 DEF Whole
  <2>3. CASE i = REPORT_LEN + 2
    BY <1>1, <1>9, <2>3 DEF Whole
  <2> QED BY <1>1, <2>1, <2>2, <2>3, PlaceIs
<1> QED BY <1>2, <1>6, <1>9, <1>10 DEF B

-----------------------------------------------------------------------------
(* What is under way *)

\* What the next byte is, by how many are left.
LEMMA HeadIs ==
  ASSUME NEW b, Spare(b), LineIs, piReport \in Reports, line # << >>
  PROVE  /\ Head(line) \in Bytes /\ Len(line) \in 1 .. REPORT_LEN + 2
         /\ Len(line) = REPORT_LEN + 2 => Head(line) = START
         /\ Len(line) < REPORT_LEN + 2 => b \notin Head(line) /\ Head(line) # START
         /\ Len(line) = 1 => Head(line) = Xor(piReport)
         /\ Len(line) \in 2 .. REPORT_LEN + 1
              => Head(line) = piReport[REPORT_LEN + 2 - Len(line)]
<1>1. REPORT_LEN \in Nat \ {0} /\ line \in Seq(Bytes) /\ Len(line) \in 1 .. REPORT_LEN + 2
  BY ReportAssumption DEF LineIs
<1>2. Head(line) = line[1] /\ line[1] = Whole(piReport, 1 + (REPORT_LEN + 2 - Len(line)))
  BY <1>1 DEF LineIs
<1>3. Head(line) \in Bytes
  BY <1>1, <1>2
<1>4. Len(line) = REPORT_LEN + 2 => Head(line) = START
  BY <1>1, <1>2 DEF Whole
<1>5. Len(line) = 1 => Head(line) = Xor(piReport)
  BY <1>1, <1>2 DEF Whole
<1>6. Len(line) \in 2 .. REPORT_LEN + 1 => Head(line) = piReport[REPORT_LEN + 2 - Len(line)]
  <2> SUFFICES ASSUME Len(line) \in 2 .. REPORT_LEN + 1
               PROVE  Head(line) = piReport[REPORT_LEN + 2 - Len(line)]
    OBVIOUS
  <2> DEFINE j == 1 + (REPORT_LEN + 2 - Len(line))
  <2>1. j # 1 /\ j # REPORT_LEN + 2 /\ j - 1 = REPORT_LEN + 2 - Len(line)
    BY <1>1
  <2> QED BY <1>2, <2>1 DEF Whole
<1>7. Len(line) < REPORT_LEN + 2 => b \notin Head(line)
  <2>1. CASE Len(line) = 1
    <3>1. \A i \in DOMAIN piReport : b \notin piReport[i]
      BY FrameIs DEF Spare
    <3>2. b \notin Xor(piReport)
      BY <3>1, XorFree
    <3> QED BY <1>5, <2>1, <3>2
  <2>2. CASE Len(line) \in 2 .. REPORT_LEN + 1
    <3>1. REPORT_LEN + 2 - Len(line) \in 1 .. REPORT_LEN
      BY <1>1, <2>2
    <3> QED BY <1>6, <2>2, <3>1 DEF Spare
  <2>3. REPORT_LEN \in Nat /\ Len(line) \in 1 .. REPORT_LEN + 2
    BY <1>1
  <2>4. Len(line) = 1 \/ Len(line) \in 2 .. REPORT_LEN + 1 \/ Len(line) = REPORT_LEN + 2
    BY <2>3, PlaceIs
  <2>5. Len(line) < REPORT_LEN + 2 => Len(line) # REPORT_LEN + 2
    BY <2>3
  <2> QED BY <2>1, <2>2, <2>4, <2>5
<1> QED BY <1>1, <1>3, <1>4, <1>5, <1>6, <1>7 DEF Spare

\* A byte less is under way, of the same frame.
LEMMA LineMoves ==
  ASSUME LineIs, line # << >>, line' = Tail(line), piReport' = piReport
  PROVE  LineIs' /\ Len(line') = Len(line) - 1
<1>1. REPORT_LEN \in Nat \ {0} /\ line \in Seq(Bytes) /\ Len(line) \in 1 .. REPORT_LEN + 2
  BY ReportAssumption DEF LineIs
<1>2. line' \in Seq(Bytes) /\ Len(line') = Len(line) - 1
  BY <1>1
<1>3. ASSUME NEW i \in 1 .. Len(line')
      PROVE  line'[i] = Whole(piReport, i + (REPORT_LEN + 2 - Len(line')))
  <2>1. line'[i] = line[i + 1] /\ i + 1 \in 1 .. Len(line)
    BY <1>1, <1>2
  <2>2. line[i + 1] = Whole(piReport, (i + 1) + (REPORT_LEN + 2 - Len(line)))
    BY <2>1 DEF LineIs
  <2>3. (i + 1) + (REPORT_LEN + 2 - Len(line)) = i + (REPORT_LEN + 2 - Len(line'))
    BY <1>1, <1>2
  <2> QED BY <2>1, <2>2, <2>3
<1> QED BY <1>1, <1>2, <1>3 DEF LineIs

\* A frame is under way.
LEMMA LineFills ==
  ASSUME NEW r \in Reports, line' = Frame(r), piReport' = r
  PROVE  LineIs' /\ Len(line') = REPORT_LEN + 2
<1>1. REPORT_LEN \in Nat \ {0}
  BY ReportAssumption
<1>2. /\ line' \in Seq(Bytes) /\ Len(line') = REPORT_LEN + 2
      /\ \A i \in 1 .. REPORT_LEN + 2 : line'[i] = Whole(r, i)
  BY FrameIs
<1>3. ASSUME NEW i \in 1 .. Len(line')
      PROVE  line'[i] = Whole(r, i + (REPORT_LEN + 2 - Len(line')))
  <2>1. i + (REPORT_LEN + 2 - Len(line')) = i
    BY <1>1, <1>2
  <2> QED BY <1>2, <2>1
<1> QED BY <1>1, <1>2, <1>3 DEF LineIs

-----------------------------------------------------------------------------
(* What the Pro Micro has *)

LEMMA AppendByte ==
  ASSUME NEW s \in Seq(Bytes), NEW x \in Bytes
  PROVE  /\ Append(s, x) \in Seq(Bytes) /\ Len(Append(s, x)) = Len(s) + 1
         /\ \A i \in 1 .. Len(s) : Append(s, x)[i] = s[i]
         /\ Append(s, x)[Len(s) + 1] = x
OBVIOUS

LEMMA AppendFree ==
  ASSUME NEW b, NEW s \in Seq(Bytes), NEW x \in Bytes, Free(b, s), b \notin x
  PROVE  Free(b, Append(s, x))
BY AppendByte DEF Free

\* The header read as a byte of the report marks it,
LEMMA AppendMark ==
  ASSUME NEW b, NEW s \in Seq(Bytes), NEW x \in Bytes, Free(b, s), b \in x
  PROVE  Marked(b, Append(s, x))
<1>1. Len(s) \in Nat /\ Len(s) + 1 \in 1 .. Len(Append(s, x))
  BY AppendByte
<1>2. \A i \in 1 .. Len(Append(s, x)) : i # Len(s) + 1 => b \notin Append(s, x)[i]
  BY <1>1, AppendByte DEF Free
<1> QED BY <1>1, <1>2, AppendByte DEF Marked

\* and no other byte takes the mark away.
LEMMA AppendMarked ==
  ASSUME NEW b, NEW s \in Seq(Bytes), NEW x \in Bytes, Marked(b, s), b \notin x
  PROVE  Marked(b, Append(s, x))
<1>1. PICK k \in 1 .. Len(s) : b \in s[k] /\ \A i \in 1 .. Len(s) : i # k => b \notin s[i]
  BY DEF Marked
<1>2. k \in 1 .. Len(Append(s, x)) /\ b \in Append(s, x)[k]
  BY <1>1, AppendByte
<1>3. \A i \in 1 .. Len(Append(s, x)) : i # k => b \notin Append(s, x)[i]
  BY <1>1, AppendByte
<1> QED BY <1>2, <1>3 DEF Marked

\* A report whose bytes lack the bit has no header as its checksum, and one that is marked
\* has nothing else.
LEMMA FreeRejects ==
  ASSUME NEW b, NEW s \in Seq(Bytes), NEW x, Free(b, s), b \in x
  PROVE  ~ Checks(s, x)
BY XorFree DEF Checks, Free

LEMMA MarkedRejects ==
  ASSUME NEW b \in Bits, NEW s \in Seq(Bytes), NEW x, Marked(b, s), b \notin x
  PROVE  ~ Checks(s, x)
BY XorMarked DEF Checks, Marked

-----------------------------------------------------------------------------
(* A byte is read *)

\* The ESP32 inside a frame passes everything on and counts it.
LEMMA EspInside ==
  ASSUME NEW x, espInFrame, EspReads(x)
  PROVE  /\ EspForwards(x) /\ espLen' = espLen + 1
         /\ espLen + 1 < REPORT_LEN + 1 => espInFrame'
         /\ ~ (espLen + 1 < REPORT_LEN + 1) => ~ espInFrame'
<1>1. EspForwards(x) /\ espLen' = espLen + 1 /\ espInFrame' = (espLen + 1 < REPORT_LEN + 1)
  BY DEF EspReads, EspForwards
<1> QED BY <1>1, Zenon

\* The Pro Micro takes one more byte of the report,
LEMMA ReadsOn ==
  ASSUME NEW x \in Bytes, inFrame, frame \in Seq(Bytes), Len(frame) < REPORT_LEN, Reassemble(x)
  PROVE  /\ inFrame' = inFrame /\ frame' = Append(frame, x)
         /\ frame' \in Seq(Bytes) /\ Len(frame') = Len(frame) + 1
         /\ age' = age /\ current' = current /\ pcReport' = pcReport
<1>1. REPORT_LEN \in Nat /\ Len(frame) # REPORT_LEN
  BY ReportAssumption
<1>2. /\ inFrame' = inFrame /\ frame' = Append(frame, x)
      /\ age' = age /\ current' = current /\ pcReport' = pcReport
  BY <1>1 DEF Reassemble
<1> QED BY <1>2, AppendByte

\* or drops the report.
LEMMA Rejects ==
  ASSUME NEW x, inFrame, frame \in Seq(Bytes), Len(frame) = REPORT_LEN, ~ Checks(frame, x),
         Reassemble(x)
  PROVE  /\ ~ inFrame' /\ frame' = frame
         /\ age' = age /\ current' = current /\ pcReport' = pcReport
<1>1. ~ (Len(frame) < REPORT_LEN)
  BY ReportAssumption
<1>2. AtChecksum(x)
  BY <1>1 DEF Reassemble
<1> QED BY <1>2 DEF AtChecksum

LEMMA FirstOrLater == ASSUME NEW n \in Nat, NEW i \in 1 .. n PROVE i > 1 \/ i = 1
OBVIOUS

LEMMA DeliverInv ==
  ASSUME NEW b \in START, Spare(b), ReportInv(b), Deliver
  PROVE  ReportInv(b)'
<1> DEFINE h == Head(line)
<1>0. /\ REPORT_LEN \in Nat \ {0} /\ b \in Bits /\ START \in Bytes
      /\ frame \in Seq(Bytes) /\ Len(frame) \in Nat
      /\ LineIs /\ line # << >> /\ piReport \in Reports /\ age \in Nat /\ lost \in {0, 1}
  BY ReportAssumption DEF ReportInv, Deliver, Bytes
<1>1. /\ h \in Bytes /\ Len(line) \in 1 .. REPORT_LEN + 2
      /\ Len(line) = REPORT_LEN + 2 => h = START
      /\ Len(line) < REPORT_LEN + 2 => b \notin h /\ h # START
      /\ Len(line) = 1 => h = Xor(piReport)
      /\ Len(line) \in 2 .. REPORT_LEN + 1 => h = piReport[REPORT_LEN + 2 - Len(line)]
  BY <1>0, HeadIs
<1>2. line' = Tail(line) /\ piReport' = piReport /\ sent' = sent
  BY DEF Deliver, sender
<1>3. LineIs' /\ Len(line') = Len(line) - 1
  BY <1>0, <1>2, LineMoves
<1>4. /\ EspReads(h)
      /\ EspForwards(h) => Reassemble(h)
      /\ ~ EspForwards(h) => UNCHANGED proMicro
      /\ lost' = IF age' < age THEN 0 ELSE lost
  BY DEF Deliver
<1>5. {Zero, piReport, current, pcReport} \subseteq sent
  BY DEF ReportInv
<1> HIDE DEF h
<1>6. age' = age => lost' = lost
  BY <1>0, <1>4
<1>7. Len(line) > 1 \/ Len(line) = 1
  <2>1. REPORT_LEN + 2 \in Nat /\ Len(line) \in 1 .. REPORT_LEN + 2
    BY <1>0, <1>1
  <2> QED BY <2>1, FirstOrLater
\* A step that leaves what was accepted alone is in order if the stage is.
<1>8. ASSUME Stage(b)', frame' \in Seq(Bytes), age' = age, current' = current,
             pcReport' = pcReport
      PROVE  ReportInv(b)'
  BY <1>0, <1>2, <1>3, <1>5, <1>6, <1>8 DEF ReportInv
<1>9. CASE Outside
  <2>1. CASE h = START
    <3>1. Len(line') = REPORT_LEN + 1
      BY <1>0, <1>1, <1>3, <2>1
    <3>2. espInFrame' /\ espLen' = 0 /\ Reassemble(h)
      BY <1>4, <1>9, <2>1 DEF Outside, EspReads, EspForwards
    <3>3. /\ inFrame' /\ frame' = << >>
          /\ age' = age /\ current' = current /\ pcReport' = pcReport
      BY <1>9, <2>1, <3>2 DEF Outside, Reassemble
    <3>4. frame' \in Seq(Bytes) /\ Len(frame') = 0
      BY <3>3
    <3>5. Unbroken'
      BY <1>0, <3>1, <3>2, <3>3, <3>4 DEF Unbroken, Together
    <3> QED BY <1>8, <3>3, <3>4, <3>5 DEF Stage
  <2>2. CASE h # START
    <3>1. ~ espInFrame' /\ ~ EspForwards(h)
      BY <1>4, <1>9, <2>2 DEF Outside, EspReads, EspForwards
    <3>2. UNCHANGED proMicro
      BY <1>4, <3>1
    <3>3. Outside'
      BY <1>9, <3>1, <3>2 DEF Outside, proMicro
    <3> QED BY <1>0, <1>8, <3>2, <3>3 DEF Stage, proMicro
  <2> QED BY <2>1, <2>2
<1>10. ASSUME espInFrame
      PROVE  /\ Reassemble(h) /\ espLen' = espLen + 1
             /\ espLen + 1 < REPORT_LEN + 1 => espInFrame'
             /\ ~ (espLen + 1 < REPORT_LEN + 1) => ~ espInFrame'
  BY <1>4, <1>10, EspInside
<1>11. CASE Unbroken
  <2>0. /\ espInFrame /\ inFrame /\ espLen = Len(frame) /\ Len(frame) <= REPORT_LEN
        /\ Len(frame) + Len(line) = REPORT_LEN + 1
        /\ \A i \in 1 .. Len(frame) : frame[i] = piReport[i]
    BY <1>11 DEF Unbroken, Together
  <2>1. CASE Len(frame) < REPORT_LEN
    <3>1. /\ inFrame' = inFrame /\ frame' = Append(frame, h)
          /\ frame' \in Seq(Bytes) /\ Len(frame') = Len(frame) + 1
          /\ age' = age /\ current' = current /\ pcReport' = pcReport
      BY <1>0, <1>1, <1>10, <2>0, <2>1, ReadsOn
    <3>2. espInFrame' /\ espLen' = Len(frame')
      BY <1>0, <1>10, <2>0, <2>1, <3>1
    <3>3. h = piReport[Len(frame) + 1]
      <4>1. Len(line) \in 2 .. REPORT_LEN + 1 /\ REPORT_LEN + 2 - Len(line) = Len(frame) + 1
        BY <1>0, <1>1, <2>0, <2>1
      <4> QED BY <1>1, <4>1
    <3>4. \A i \in 1 .. Len(frame') : frame'[i] = piReport'[i]
      <4>1. /\ Append(frame, h)[Len(frame) + 1] = h
            /\ \A i \in 1 .. Len(frame) : Append(frame, h)[i] = frame[i]
        BY <1>0, <1>1, AppendByte
      <4> QED BY <1>0, <1>2, <2>0, <3>1, <3>3, <4>1
    <3>5. Len(frame') + Len(line') = REPORT_LEN + 1 /\ Len(frame') <= REPORT_LEN
      BY <1>0, <1>1, <1>3, <2>0, <2>1, <3>1
    <3>6. Unbroken'
      BY <2>0, <3>1, <3>2, <3>4, <3>5 DEF Unbroken, Together
    <3> QED BY <1>8, <3>1, <3>6 DEF Stage
  <2>2. CASE Len(frame) = REPORT_LEN
    <3>1. ~ espInFrame'
      BY <1>0, <1>10, <2>0, <2>2
    <3>2. AtChecksum(h)
      <4>1. ~ (Len(frame) < REPORT_LEN)
        BY <1>0, <2>2
      <4> QED BY <1>10, <2>0, <4>1 DEF Reassemble
    <3>3. frame = piReport
      <4>1. piReport \in Seq(Bytes) /\ Len(piReport) = REPORT_LEN
        BY <1>0, FrameIs
      <4> QED BY <1>0, <2>0, <2>2, <4>1
    <3>4. /\ ~ inFrame' /\ frame' = frame /\ (age' = age \/ age' = 0)
          /\ current' \in {current, frame} /\ pcReport' \in {pcReport, frame}
      BY <3>2 DEF AtChecksum, emit
    <3>5. Outside'
      BY <3>1, <3>4 DEF Outside
    <3>6. lost' \in {0, 1} /\ age' \in Nat
      BY <1>0, <1>4, <3>4
    <3> QED BY <1>0, <1>2, <1>3, <1>5, <3>3, <3>4, <3>5, <3>6 DEF ReportInv, Stage
  <2> QED BY <1>0, <2>0, <2>1, <2>2
<1>12. CASE Short(b)
  <2>0. /\ lost = 1 /\ espInFrame /\ inFrame /\ espLen = Len(frame) /\ Len(frame) <= REPORT_LEN
        /\ Free(b, frame)
        /\ Len(line) + Len(frame) <= REPORT_LEN \/ Len(line) = REPORT_LEN + 2
    BY <1>12 DEF Short, Together
  <2>1. CASE Len(frame) < REPORT_LEN
    <3>1. /\ inFrame' = inFrame /\ frame' = Append(frame, h)
          /\ frame' \in Seq(Bytes) /\ Len(frame') = Len(frame) + 1
          /\ age' = age /\ current' = current /\ pcReport' = pcReport
      BY <1>0, <1>1, <1>10, <2>0, <2>1, ReadsOn
    <3>2. espInFrame' /\ inFrame' /\ espLen' = Len(frame') /\ Len(frame') <= REPORT_LEN /\ lost' = 1
      BY <1>0, <1>6, <1>10, <2>0, <2>1, <3>1
    <3>3. CASE Len(line) = REPORT_LEN + 2
      <4>1. Marked(b, frame')
        BY <1>0, <1>1, <2>0, <3>1, <3>3, AppendMark
      <4>2. Len(line') <= REPORT_LEN + 1 /\ Len(frame') + Len(line') >= REPORT_LEN + 1
        BY <1>0, <1>3, <3>1, <3>3
      <4>3. Swallowed(b)'
        BY <3>2, <4>1, <4>2 DEF Swallowed, Together
      <4> QED BY <1>8, <3>1, <4>3 DEF Stage
    <3>4. CASE Len(line) + Len(frame) <= REPORT_LEN
      <4>1. b \notin h
        BY <1>0, <1>1, <3>4
      <4>2. Free(b, frame')
        BY <1>0, <1>1, <2>0, <3>1, <4>1, AppendFree
      <4>3. Len(line') + Len(frame') <= REPORT_LEN
        BY <1>0, <1>1, <1>3, <3>1, <3>4
      <4>4. Short(b)'
        BY <3>2, <4>2, <4>3 DEF Short, Together
      <4> QED BY <1>8, <3>1, <4>4 DEF Stage
    <3> QED BY <2>0, <3>3, <3>4
  <2>2. CASE Len(frame) = REPORT_LEN
    <3>1. h = START
      BY <1>0, <1>1, <2>0, <2>2
    <3>2. ~ Checks(frame, h)
      BY <1>0, <2>0, <3>1, FreeRejects
    <3>3. /\ ~ inFrame' /\ frame' = frame
          /\ age' = age /\ current' = current /\ pcReport' = pcReport
      BY <1>0, <1>10, <2>0, <2>2, <3>2, Rejects
    <3>4. Outside'
      BY <1>0, <1>10, <2>0, <2>2, <3>3 DEF Outside
    <3> QED BY <1>0, <1>8, <3>3, <3>4 DEF Stage
  <2> QED BY <1>0, <2>0, <2>1, <2>2
<1>13. CASE Swallowed(b)
  <2>0. /\ lost = 1 /\ espInFrame /\ inFrame /\ espLen = Len(frame) /\ Len(frame) <= REPORT_LEN
        /\ Marked(b, frame)
        /\ Len(line) <= REPORT_LEN + 1 /\ Len(frame) + Len(line) >= REPORT_LEN + 1
    BY <1>13 DEF Swallowed, Together
  <2>1. b \notin h
    BY <1>0, <1>1, <2>0
  <2>2. CASE Len(frame) < REPORT_LEN
    <3>1. /\ inFrame' = inFrame /\ frame' = Append(frame, h)
          /\ frame' \in Seq(Bytes) /\ Len(frame') = Len(frame) + 1
          /\ age' = age /\ current' = current /\ pcReport' = pcReport
      BY <1>0, <1>1, <1>10, <2>0, <2>2, ReadsOn
    <3>2. espInFrame' /\ inFrame' /\ espLen' = Len(frame') /\ Len(frame') <= REPORT_LEN /\ lost' = 1
      BY <1>0, <1>6, <1>10, <2>0, <2>2, <3>1
    <3>3. Marked(b, frame')
      BY <1>0, <1>1, <2>0, <2>1, <3>1, AppendMarked
    <3>4. Len(line') <= REPORT_LEN + 1 /\ Len(frame') + Len(line') >= REPORT_LEN + 1
      BY <1>0, <1>1, <1>3, <2>0, <3>1
    <3>5. Swallowed(b)'
      BY <3>2, <3>3, <3>4 DEF Swallowed, Together
    <3> QED BY <1>8, <3>1, <3>5 DEF Stage
  <2>3. CASE Len(frame) = REPORT_LEN
    <3>1. ~ Checks(frame, h)
      BY <1>0, <2>0, <2>1, MarkedRejects
    <3>2. /\ ~ inFrame' /\ frame' = frame
          /\ age' = age /\ current' = current /\ pcReport' = pcReport
      BY <1>0, <1>10, <2>0, <2>3, <3>1, Rejects
    <3>3. Outside'
      BY <1>0, <1>10, <2>0, <2>3, <3>2 DEF Outside
    <3> QED BY <1>0, <1>8, <3>2, <3>3 DEF Stage
  <2> QED BY <1>0, <2>0, <2>2, <2>3
<1>14. CASE Behind(b)
  <2>0. /\ lost = 1 /\ espInFrame /\ inFrame /\ espLen = Len(frame) + 1 /\ Free(b, frame)
        /\ espLen + Len(line) = REPORT_LEN + 1
    BY <1>14 DEF Behind
  <2>1. Len(frame) < REPORT_LEN /\ Len(line) < REPORT_LEN + 2
    BY <1>0, <1>1, <2>0
  <2>2. /\ inFrame' = inFrame /\ frame' = Append(frame, h)
        /\ frame' \in Seq(Bytes) /\ Len(frame') = Len(frame) + 1
        /\ age' = age /\ current' = current /\ pcReport' = pcReport
    BY <1>0, <1>1, <1>10, <2>0, <2>1, ReadsOn
  <2>3. Free(b, frame')
    BY <1>0, <1>1, <2>0, <2>1, <2>2, AppendFree
  <2>4. lost' = 1 /\ inFrame'
    BY <1>6, <2>0, <2>2
  <2>5. CASE Len(line) > 1
    <3>1. /\ espInFrame' /\ espLen' = Len(frame') + 1
          /\ Len(line') > 0 /\ espLen' + Len(line') = REPORT_LEN + 1
      BY <1>0, <1>1, <1>3, <1>10, <2>0, <2>2, <2>5
    <3>2. Behind(b)'
      BY <2>3, <2>4, <3>1 DEF Behind
    <3> QED BY <1>8, <2>2, <3>2 DEF Stage
  <2>6. CASE Len(line) = 1
    <3>1. ~ espInFrame' /\ Len(frame') = REPORT_LEN /\ Len(line') = 0
      BY <1>0, <1>3, <1>10, <2>0, <2>2, <2>6
    <3>2. Waiting(b)'
      BY <2>3, <2>4, <3>1 DEF Waiting
    <3> QED BY <1>8, <2>2, <3>2 DEF Stage
  <2> QED BY <1>7, <2>5, <2>6
<1>15. CASE Waiting(b)
  <2>0. /\ lost = 1 /\ ~ espInFrame /\ inFrame /\ Free(b, frame) /\ Len(frame) = REPORT_LEN
        /\ Len(line) \in {0, REPORT_LEN + 2}
    BY <1>15 DEF Waiting
  <2>1. h = START /\ Len(line') = REPORT_LEN + 1
    BY <1>0, <1>1, <1>3, <2>0
  <2>2. espInFrame' /\ espLen' = 0 /\ Reassemble(h)
    BY <1>4, <2>0, <2>1 DEF EspReads, EspForwards
  <2>3. ~ Checks(frame, h)
    BY <1>0, <2>0, <2>1, FreeRejects
  <2>4. /\ ~ inFrame' /\ frame' = frame
        /\ age' = age /\ current' = current /\ pcReport' = pcReport
    BY <1>0, <2>0, <2>2, <2>3, Rejects
  <2>5. Deaf'
    BY <1>0, <1>6, <2>0, <2>1, <2>2, <2>4 DEF Deaf
  <2> QED BY <1>0, <1>8, <2>4, <2>5 DEF Stage
<1>16. CASE Deaf
  <2>0. /\ lost = 1 /\ espInFrame /\ ~ inFrame
        /\ Len(line) \in 1 .. REPORT_LEN + 1 /\ espLen = REPORT_LEN + 1 - Len(line)
    BY <1>16 DEF Deaf
  <2>1. h # START
    BY <1>0, <1>1, <2>0
  <2>2. /\ ~ inFrame' /\ frame' = frame
        /\ age' = age /\ current' = current /\ pcReport' = pcReport
    BY <1>10, <2>0, <2>1 DEF Reassemble
  <2>3. CASE Len(line) > 1
    <3>1. /\ espInFrame' /\ Len(line') \in 1 .. REPORT_LEN + 1
          /\ espLen' = REPORT_LEN + 1 - Len(line')
      BY <1>0, <1>3, <1>10, <2>0, <2>3
    <3>2. Deaf'
      BY <1>6, <2>0, <2>2, <3>1 DEF Deaf
    <3> QED BY <1>0, <1>8, <2>2, <3>2 DEF Stage
  <2>4. CASE Len(line) = 1
    <3>1. ~ espInFrame'
      BY <1>0, <1>10, <2>0, <2>4
    <3>2. Outside'
      BY <2>2, <3>1 DEF Outside
    <3> QED BY <1>0, <1>8, <2>2, <3>2 DEF Stage
  <2> QED BY <1>7, <2>3, <2>4
<1> QED BY <1>9, <1>11, <1>12, <1>13, <1>14, <1>15, <1>16 DEF ReportInv, Stage

-----------------------------------------------------------------------------
(* The other steps *)

LEMMA SendInv ==
  ASSUME NEW b \in START, Spare(b), ReportInv(b), NEW r \in Reports, PiSend(r)
  PROVE  ReportInv(b)'
<1>0. /\ REPORT_LEN \in Nat \ {0} /\ Len(frame) \in Nat /\ frame \in Seq(Bytes)
      /\ Len(line) = 0 /\ age \in Nat /\ lost \in {0, 1}
  BY ReportAssumption DEF ReportInv, PiSend
<1>1. /\ piReport' = r /\ sent' = sent \cup {r} /\ line' = Frame(r) /\ lost' = lost
      /\ age' \in Nat
      /\ espInFrame' = espInFrame /\ espLen' = espLen /\ inFrame' = inFrame /\ frame' = frame
      /\ current' = current /\ pcReport' = pcReport
  BY <1>0 DEF PiSend, relay
<1>2. LineIs' /\ Len(line') = REPORT_LEN + 2
  BY <1>1, LineFills
<1>3. Outside \/ Short(b) \/ Waiting(b)
  <2>1. ~ Unbroken /\ ~ Swallowed(b) /\ ~ Behind(b) /\ ~ Deaf
    BY <1>0 DEF Unbroken, Swallowed, Behind, Deaf, Together
  <2> QED BY <2>1 DEF ReportInv, Stage
<1>4. Stage(b)'
  <2>1. CASE Outside
    BY <1>1, <2>1 DEF Stage, Outside
  <2>2. CASE Short(b)
    BY <1>1, <1>2, <2>2 DEF Stage, Short, Together
  <2>3. CASE Waiting(b)
    BY <1>1, <1>2, <2>3 DEF Stage, Waiting
  <2> QED BY <1>3, <2>1, <2>2, <2>3
<1>5. {Zero, piReport', current', pcReport'} \subseteq sent'
  BY <1>1 DEF ReportInv
<1> QED BY <1>0, <1>1, <1>2, <1>4, <1>5 DEF ReportInv

\* A loss comes out of step only from a frame of which nothing was lost so far.
LEMMA FirstLoss ==
  ASSUME MaxLost <= 1, NEW b \in START, ReportInv(b), lost < MaxLost
  PROVE  lost = 0 /\ lost + 1 = 1 /\ (Outside \/ Unbroken)
<1>1. lost = 0
  BY ReportAssumption DEF ReportInv
<1> QED BY <1>1 DEF ReportInv, Stage, Short, Swallowed, Behind, Waiting, Deaf

LEMMA FreeOfPrefix ==
  ASSUME NEW b, Spare(b), piReport \in Reports, Unbroken
  PROVE  Free(b, frame)
<1>1. \A i \in 1 .. Len(frame) : i \in 1 .. REPORT_LEN
  BY ReportAssumption DEF Unbroken, Together
<1> QED BY <1>1 DEF Unbroken, Free, Spare

LEMMA DownInv ==
  ASSUME MaxLost <= 1, NEW b \in START, Spare(b), ReportInv(b), PiDown
  PROVE  ReportInv(b)'
<1>0. /\ REPORT_LEN \in Nat \ {0} /\ Len(frame) \in Nat /\ Len(line) \in Nat
      /\ piReport \in Reports /\ LineIs
  BY ReportAssumption DEF ReportInv, LineIs
<1>1. lost = 0 /\ lost + 1 = 1 /\ (Outside \/ Unbroken)
  BY FirstLoss DEF PiDown
<1>2. /\ piReport' = piReport /\ sent' = sent /\ lost' = 1 /\ age' = age
      /\ espInFrame' = espInFrame /\ espLen' = espLen /\ inFrame' = inFrame /\ frame' = frame
      /\ current' = current /\ pcReport' = pcReport
      /\ line' = line \/ line' = << >>
  BY <1>1 DEF PiDown, relay, proMicro
<1>3. LineIs'
  <2>1. CASE line' = line
    BY <1>0, <1>2, <2>1 DEF LineIs
  <2>2. CASE line' = << >>
    BY <1>0, <1>2, <2>2 DEF LineIs
  <2> QED BY <1>2, <2>1, <2>2
<1>4. Stage(b)'
  <2>1. CASE Outside
    BY <1>2, <2>1 DEF Stage, Outside
  <2>2. CASE Unbroken /\ line' = line
    BY <1>2, <2>2 DEF Stage, Unbroken, Together
  <2>3. CASE Unbroken /\ line' = << >>
    <3>1. Len(line') = 0 /\ Len(line') + Len(frame') <= REPORT_LEN
      BY <1>0, <1>2, <2>3 DEF Unbroken, Together
    <3>2. Free(b, frame)
      BY <1>0, <2>3, FreeOfPrefix
    <3> QED BY <1>2, <2>3, <3>1, <3>2 DEF Stage, Short, Unbroken, Together
  <2> QED BY <1>1, <1>2, <2>1, <2>2, <2>3
<1> QED BY <1>2, <1>3, <1>4 DEF ReportInv

LEMMA LoseBeforeInv ==
  ASSUME MaxLost <= 1, NEW b \in START, Spare(b), ReportInv(b), LoseBeforeEsp
  PROVE  ReportInv(b)'
<1>0. /\ REPORT_LEN \in Nat \ {0} /\ Len(frame) \in Nat /\ Len(line) \in Nat
      /\ piReport \in Reports /\ LineIs /\ line # << >>
  BY ReportAssumption DEF ReportInv, LineIs, LoseBeforeEsp
<1>1. lost = 0 /\ lost + 1 = 1 /\ (Outside \/ Unbroken)
  BY FirstLoss DEF LoseBeforeEsp
<1>2. /\ piReport' = piReport /\ sent' = sent /\ lost' = 1 /\ age' = age
      /\ espInFrame' = espInFrame /\ espLen' = espLen /\ inFrame' = inFrame /\ frame' = frame
      /\ current' = current /\ pcReport' = pcReport
      /\ line' = Tail(line)
  BY <1>1 DEF LoseBeforeEsp, sender, relay, proMicro
<1>3. LineIs' /\ Len(line') = Len(line) - 1
  BY <1>0, <1>2, LineMoves
<1>4. Stage(b)'
  <2>1. CASE Outside
    BY <1>2, <2>1 DEF Stage, Outside
  <2>2. CASE Unbroken
    <3>1. Len(line') + Len(frame') <= REPORT_LEN
      BY <1>0, <1>2, <1>3, <2>2 DEF Unbroken
    <3>2. Free(b, frame)
      BY <1>0, <2>2, FreeOfPrefix
    <3> QED BY <1>2, <2>2, <3>1, <3>2 DEF Stage, Short, Unbroken, Together
  <2> QED BY <1>1, <2>1, <2>2
<1> QED BY <1>2, <1>3, <1>4 DEF ReportInv

LEMMA LoseAfterInv ==
  ASSUME MaxLost <= 1, NEW b \in START, Spare(b), ReportInv(b), LoseAfterEsp
  PROVE  ReportInv(b)'
<1>0. /\ REPORT_LEN \in Nat \ {0} /\ Len(frame) \in Nat /\ frame \in Seq(Bytes)
      /\ piReport \in Reports /\ LineIs /\ line # << >>
  BY ReportAssumption DEF ReportInv, LoseAfterEsp
<1>1. lost = 0 /\ lost + 1 = 1 /\ (Outside \/ Unbroken)
  BY FirstLoss DEF LoseAfterEsp
<1>2. /\ piReport' = piReport /\ sent' = sent /\ lost' = 1 /\ age' = age
      /\ inFrame' = inFrame /\ frame' = frame
      /\ current' = current /\ pcReport' = pcReport
      /\ line' = Tail(line)
  BY <1>1 DEF LoseAfterEsp, sender, proMicro
<1>3. LineIs' /\ Len(line') = Len(line) - 1
  BY <1>0, <1>2, LineMoves
<1>4. /\ Len(line) \in 1 .. REPORT_LEN + 2
      /\ Len(line) < REPORT_LEN + 2 => Head(line) # START
  BY <1>0, HeadIs
<1>5. Stage(b)'
  <2>1. CASE Outside
    <3>1. Head(line) = START /\ espInFrame' /\ espLen' = 0
      BY <2>1 DEF Outside, LoseAfterEsp, EspReads, EspForwards
    <3>2. Len(line') = REPORT_LEN + 1
      BY <1>0, <1>3, <1>4, <3>1
    <3> QED BY <1>0, <1>2, <2>1, <3>1, <3>2 DEF Stage, Deaf, Outside
  <2>2. CASE Unbroken
    <3>0. /\ espInFrame /\ inFrame /\ espLen = Len(frame) /\ Len(frame) <= REPORT_LEN
          /\ Len(frame) + Len(line) = REPORT_LEN + 1
      BY <2>2 DEF Unbroken, Together
    <3>1. Free(b, frame)
      BY <1>0, <2>2, FreeOfPrefix
    <3>2. /\ espLen' = espLen + 1
          /\ espLen + 1 < REPORT_LEN + 1 => espInFrame'
          /\ ~ (espLen + 1 < REPORT_LEN + 1) => ~ espInFrame'
      BY <3>0, EspInside DEF LoseAfterEsp
    <3>3. CASE Len(frame) < REPORT_LEN
      <4>1. espInFrame' /\ espLen' = Len(frame') + 1
        BY <1>0, <1>2, <3>0, <3>2, <3>3
      <4>2. Len(line') > 0 /\ espLen' + Len(line') = REPORT_LEN + 1
        BY <1>0, <1>3, <1>4, <3>0, <3>2, <3>3
      <4> QED BY <1>2, <3>0, <3>1, <4>1, <4>2 DEF Stage, Behind
    <3>4. CASE Len(frame) = REPORT_LEN
      <4>1. ~ espInFrame' /\ Len(line') = 0
        BY <1>0, <1>3, <1>4, <3>0, <3>2, <3>4
      <4> QED BY <1>2, <3>0, <3>1, <3>4, <4>1 DEF Stage, Waiting
    <3> QED BY <1>0, <3>0, <3>3, <3>4
  <2> QED BY <1>1, <2>1, <2>2
<1> QED BY <1>2, <1>3, <1>5 DEF ReportInv

\* Steps of the clock and of the watchdog, and the Pi's return.
LEMMA RestInv ==
  ASSUME NEW b \in START, ReportInv(b),
         PiUp \/ ReportWatchdog \/ Silence \/ UNCHANGED reportVars
  PROVE  ReportInv(b)'
<1>0. age \in Nat
  BY DEF ReportInv
<1>1. /\ piReport' = piReport /\ sent' = sent /\ line' = line /\ lost' = lost
      /\ age' \in {age, age + 1}
      /\ espInFrame' = espInFrame /\ espLen' = espLen /\ inFrame' = inFrame /\ frame' = frame
      /\ current' \in {current, Zero} /\ pcReport' \in {pcReport, Zero}
  BY DEF PiUp, ReportWatchdog, Silence, emit, reportVars, sender, relay, proMicro
<1>2. LineIs' = LineIs
  BY <1>1 DEF LineIs
<1>3. Stage(b)
  BY DEF ReportInv
<1>4. Stage(b)'
  BY <1>1, <1>3 DEF Stage, Outside, Together, Unbroken, Short, Swallowed, Behind, Waiting, Deaf
<1> QED BY <1>0, <1>1, <1>2, <1>4 DEF ReportInv

LEMMA StartInv == ASSUME NEW b \in START, ReportInit PROVE ReportInv(b)
<1>1. line \in Seq(Bytes) /\ Len(line) = 0 /\ frame \in Seq(Bytes)
  BY DEF ReportInit
<1>2. Zero \in Reports /\ REPORT_LEN \in Nat
  BY ReportAssumption
<1>3. LineIs
  BY <1>1, <1>2 DEF LineIs
<1> QED BY <1>1, <1>2, <1>3 DEF ReportInit, ReportInv, Stage, Outside

-----------------------------------------------------------------------------
(* The theorem *)

\* The Pro Micro never acts on a report nobody sent (pro-micro-proxy.ino:92-99), for reports
\* of any length and keepalives of any period, with one byte or frame lost before each
\* accepted frame, as long as the reports leave one bit of the header alone.
THEOREM AcceptedWasAlwaysSent ==
  MaxLost <= 1 /\ (\E b \in START : Spare(b)) => (ReportSpec => []AcceptedWasSent)
<1> SUFFICES ASSUME MaxLost <= 1, NEW b \in START, Spare(b)
             PROVE  ReportSpec => []AcceptedWasSent
  OBVIOUS
<1>1. ReportInit => ReportInv(b)
  BY StartInv
<1>2. ReportInv(b) /\ [ReportNext]_reportVars => ReportInv(b)'
  <2> SUFFICES ASSUME ReportInv(b), [ReportNext]_reportVars PROVE ReportInv(b)'
    OBVIOUS
  <2>1. ASSUME NEW r \in Reports, PiSend(r) PROVE ReportInv(b)'
    BY <2>1, SendInv
  <2>2. CASE PiDown
    BY <2>2, DownInv
  <2>3. CASE Deliver
    BY <2>3, DeliverInv
  <2>4. CASE LoseBeforeEsp
    BY <2>4, LoseBeforeInv
  <2>5. CASE LoseAfterEsp
    BY <2>5, LoseAfterInv
  <2>6. CASE PiUp \/ ReportWatchdog \/ Silence \/ UNCHANGED reportVars
    BY <2>6, RestInv
  <2> QED BY <2>1, <2>2, <2>3, <2>4, <2>5, <2>6 DEF ReportNext
<1>3. ReportInv(b) => AcceptedWasSent
  BY DEF ReportInv, AcceptedWasSent
<1> QED BY <1>1, <1>2, <1>3, PTL DEF ReportSpec

-----------------------------------------------------------------------------
(* The two rigs together *)

\* A behaviour of either rig is one of the link and one of the proxy, of which one rests.
LEMMA RigsRun == FirmwareSpec => Spec /\ ReportSpec
<1>1. FirmwareInit => Init /\ ReportInit
  BY DEF FirmwareInit
<1>2. [FirmwareNext]_firmwareVars => [Next]_vars /\ [ReportNext]_reportVars
  BY DEF FirmwareNext, firmwareVars, OfLink, OfProxy
<1> QED BY <1>1, <1>2, PTL DEF FirmwareSpec, Spec, ReportSpec
=================================================================================

----------------------------- MODULE TriggerLink -------------------------------
(***************************************************************************)
(* The direct trigger link: the Mac writes state bytes to a serial port,   *)
(* firmware/esp32-link mirrors the newest one onto a wire and lets it fall *)
(* when the Mac is silent, firmware/pro-micro-hid holds a key while the    *)
(* wire is up.                                                             *)
(*                                                                         *)
(* The clock millis() wraps at 2^32 in the code, at Width here.  One tick  *)
(* is long against a pass of either loop(), so time advances only when     *)
(* both have nothing left to do.  Bytes are lost when the buffer is full   *)
(* and, with the cable loose, at any time.                                 *)
(***************************************************************************)
EXTENDS Integers, Sequences

CONSTANTS
  WATCHDOG,   \* WATCHDOG_MS in ticks
  Width,      \* the range of millis()
  RxSize,     \* bytes the serial receive buffer holds
  MaxBoots    \* bound of the model on restarts of any of the three

ASSUME LinkAssumption ==
  /\ {WATCHDOG, Width, RxSize, MaxBoots} \subseteq Nat
  /\ WATCHDOG + 2 <= Width /\ RxSize > 0

VARIABLES
  macUp, state,           \* the Mac's process and the state it repeats
  rx,                     \* the ESP32's receive buffer
  last,                   \* loop()'s newest byte, or None
  pin,                    \* active and TRIGGER_PIN
  millis, last_byte_ms,
  pressed,                \* the Pro Micro's belief
  host,                   \* the key on the PC
  boots,                  \* restarts so far
  silent, newest          \* history: ticks since a byte was acted on; the last byte received

None == -1
Byte(b) == IF b THEN 1 ELSE 0

mac == <<macUp, state>>
esp == <<last, pin, last_byte_ms>>
pro == <<pressed, host>>
history == <<silent, newest>>
vars == <<mac, rx, esp, millis, pro, boots, history>>

SilentCap == Width + WATCHDOG + 2   \* silence is counted up to past a wrap of millis()

-----------------------------------------------------------------------------
(* Mutations: each breaks the property named with it. *)

\* SilenceReleases: deadlines are compared instead of differences.
Elapsed_Deadline == IF millis > last_byte_ms THEN millis - last_byte_ms ELSE 0

\* LinkSpec: setup() does not drive the pin.
EspBoots_Floating ==
  /\ boots < MaxBoots
  /\ boots' = boots + 1
  /\ rx' = << >> /\ last' = None
  /\ pin' \in BOOLEAN
  /\ millis' = 0 /\ last_byte_ms' = 0
  /\ UNCHANGED <<mac, pro, silent, newest>>

\* KeySettles: the Pro Micro has no edge for the release.
ProMicro_PressOnly(taken) ==
  /\ pin /\ ~ pressed
  /\ pressed' = TRUE
  /\ host' = IF taken THEN TRUE ELSE host
  /\ UNCHANGED <<mac, rx, esp, millis, boots, history>>

-----------------------------------------------------------------------------
(* The Mac: trigger.py *)

Receive(b) ==
  /\ rx' = (IF Len(rx) < RxSize THEN Append(rx, b) ELSE rx)
  /\ newest' = (IF Len(rx) < RxSize THEN b ELSE newest)

Update(b) ==
  /\ macUp
  /\ state' = b
  /\ Receive(Byte(b)) \/ UNCHANGED <<rx, newest>>
  /\ UNCHANGED <<macUp, esp, millis, pro, boots, silent>>

Keepalive ==
  /\ macUp
  /\ Receive(Byte(state))
  /\ UNCHANGED <<mac, esp, millis, pro, boots, silent>>

\* Killed, or the cable is out.
MacGone ==
  /\ macUp /\ boots < MaxBoots
  /\ macUp' = FALSE /\ boots' = boots + 1
  /\ UNCHANGED <<state, rx, esp, millis, pro, history>>

MacBack ==
  /\ ~ macUp
  /\ macUp' = TRUE /\ state' = FALSE
  /\ UNCHANGED <<rx, esp, millis, pro, boots, history>>

-----------------------------------------------------------------------------
(* esp32-link.ino *)

\* setup(), after power-up or the reset that opening the port causes.
EspBoots ==
  /\ boots < MaxBoots
  /\ boots' = boots + 1
  /\ rx' = << >> /\ last' = None /\ pin' = FALSE
  /\ millis' = 0 /\ last_byte_ms' = 0
  /\ UNCHANGED <<mac, pro, history>>

\* The drain: each byte replaces the one before.
Read ==
  /\ rx # << >>
  /\ last' = Head(rx) /\ rx' = Tail(rx)
  /\ UNCHANGED <<mac, pin, last_byte_ms, millis, pro, boots, history>>

Act ==
  /\ rx = << >> /\ last # None
  /\ pin' = (last # 0) /\ last_byte_ms' = millis /\ last' = None
  /\ silent' = 0
  /\ UNCHANGED <<mac, rx, millis, pro, boots, newest>>

\* Unsigned subtraction.
Elapsed == (Width + millis - last_byte_ms) % Width

WatchdogDue == pin /\ Elapsed > WATCHDOG

Watchdog ==
  /\ rx = << >> /\ last = None /\ WatchdogDue
  /\ pin' = FALSE
  /\ UNCHANGED <<mac, rx, last, last_byte_ms, millis, pro, boots, history>>

-----------------------------------------------------------------------------
(* pro-micro-hid.ino *)

\* The edge is taken as done before Keyboard.press or release, whose result is ignored.
ProMicro(taken) ==
  /\ pin # pressed
  /\ pressed' = pin
  /\ host' = IF taken THEN pin ELSE host
  /\ UNCHANGED <<mac, rx, esp, millis, boots, history>>

\* Unplugged from the PC, which lets go of the device's keys.
ProMicroBoots ==
  /\ boots < MaxBoots
  /\ boots' = boots + 1
  /\ pressed' = FALSE /\ host' = FALSE
  /\ UNCHANGED <<mac, rx, esp, millis, history>>

-----------------------------------------------------------------------------
Tick ==
  /\ rx = << >> /\ last = None /\ ~ WatchdogDue /\ pin = pressed
  /\ millis' = (millis + 1) % Width
  /\ silent' = IF silent < SilentCap THEN silent + 1 ELSE silent
  /\ UNCHANGED <<mac, rx, esp, pro, boots, newest>>

Init ==
  /\ macUp = TRUE /\ state = FALSE
  /\ rx = << >> /\ last = None /\ pin = FALSE
  /\ millis = 0 /\ last_byte_ms = 0
  /\ pressed = FALSE /\ host = FALSE /\ boots = 0
  /\ silent = 0 /\ newest = None

Esp == Read \/ Act \/ Watchdog
\* The PC may miss a report, as while it suspends the bus.
Pro == \E taken \in BOOLEAN : ProMicro(taken)

Next ==
  \/ \E b \in BOOLEAN : Update(b)
  \/ Keepalive \/ MacGone \/ MacBack
  \/ Esp \/ EspBoots \/ Pro \/ ProMicroBoots
  \/ Tick

Spec == Init /\ [][Next]_vars

-----------------------------------------------------------------------------
(* Properties *)

TypeOK ==
  /\ {macUp, state, pin, pressed, host} \subseteq BOOLEAN
  /\ rx \in Seq({0, 1}) /\ Len(rx) <= RxSize
  /\ {last, newest} \subseteq {0, 1, None}
  /\ {millis, last_byte_ms} \subseteq 0 .. Width - 1
  /\ boots \in 0 .. MaxBoots /\ silent \in 0 .. SilentCap

\* "A held key can never survive the thing that was holding it" (esp32-link.ino:55-58):
\* the key is up one tick after the watchdog's time, whatever millis() does meanwhile,
\* unless the PC missed the release.
SilenceReleases == host /\ pressed => silent <= WATCHDOG + 1

\* The key does not let go by itself "the moment the PC's screen stopped moving"
\* (TRIGGER.md, "Wire protocol"): only for a release byte, silence or a restart.
NoEarlyRelease ==
  [][pin /\ ~ pin' /\ boots' = boots => last = 0 \/ silent > WATCHDOG]_vars

\* "Keep only the newest byte" (esp32-link.ino:39-45): what the ESP32 acts on is the last
\* byte it received, never history.
NewestWins == [][last # None /\ last' = None /\ boots' = boots => pin' = (newest # 0)]_vars

\* "A lost or duplicated byte corrects itself" (TRIGGER.md, "Wire protocol"): the key
\* settles on a state that rests and is heard in time, unless the PC missed the last edge.
KeySettles ==
  \A s \in BOOLEAN :
    <>[](macUp /\ state = s /\ silent <= WATCHDOG /\ host = pressed) => <>[](host = s)
===============================================================================

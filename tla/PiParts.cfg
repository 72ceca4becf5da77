\* Two keyboards, typed on, pulled and put back, and a kernel buffer of three events (the
\* reader treats every key alike: one key, on either keyboard); a
\* transmit buffer of two and a half frames: the third write is short, the fourth spins; a
\* process that is killed or signalled up to twice.
SPECIFICATION FairSpec
CONSTANTS
  Paths = {event0, event1}
  Keys = {a}
  BUFFER = 3
  Ports = {usb0, usb1}
  port_spec = usb0
  None = None
  RETRY = 2
  FRAME = 2
  CAP = 5
  MaxKills = 2
INVARIANTS Mirrors ReleasedLast LetGo
PROPERTIES Attaches Recovers KeyLetsGo
CHECK_DEADLOCK FALSE

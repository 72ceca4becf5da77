\* Two keyboards and one key: the key is held on the keyboard that is pulled.
SPECIFICATION KeyboardSpec
CONSTANTS
  Paths = {event0, event1}
  Keys = {a}
  BUFFER = 3
INVARIANT NoKeyOutlives
CHECK_DEADLOCK FALSE

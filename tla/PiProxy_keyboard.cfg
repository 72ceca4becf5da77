\* Keyboard, UDP receiver, watchdog, emitter and main, without the HTTP API, under
\* the fairness of the scheduler.
CONSTANTS
  Usages = {x}
  TriggerUsage = k
  ModifierBits = {}
  MAX_KEYS = 6
  MaxOrder = 1
  HasKeyboard = TRUE
  Handlers = {}
  Timeout = 1
SPECIFICATION FairProxySpec
INVARIANTS NoLostWakeup
PROPERTIES WireCatchesUp DeadEmitterUngrabs
CHECK_DEADLOCK FALSE

\* Trigger only (--no-keyboard): the UDP receiver and an HTTP handler contend.
CONSTANTS
  Usages = {x}
  TriggerUsage = k
  ModifierBits = {}
  MAX_KEYS = 6
  MaxOrder = 2
  HasKeyboard = FALSE
  Handlers = {h1}
  Timeout = 2
SPECIFICATION ProxySpec
INVARIANTS TriggerSupervised
PROPERTY ProxyEndSpec
CHECK_DEADLOCK FALSE

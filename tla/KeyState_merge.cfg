\* Nobody presses the trigger key by hand; five keys compete for three slots.
CONSTANTS
  Usages = {a, b, c, d}
  TriggerUsage = k
  ModifierBits = {shift}
  MAX_KEYS = 3
  MaxOrder = 5
SPECIFICATION Spec
INVARIANTS HeldInOrder TriggerNeverLost
PROPERTY MergeSpec

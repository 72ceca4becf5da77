\* The trigger key is also a key of the keyboard; the report has its six slots.
CONSTANTS
  Usages = {k, x}
  TriggerUsage = k
  ModifierBits = {}
  MAX_KEYS = 6
  MaxOrder = 9
SPECIFICATION Spec
INVARIANT MergeExact

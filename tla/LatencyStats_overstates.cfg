\* The agent takes 1 or 3 ms for a frame; both clocks agree.
SPECIFICATION StatsSpec
CONSTANTS
  window = 3
  Spans = {1, 3}
  Offsets = {0}
  None = None
INVARIANTS UnderstatesByHop
CHECK_DEADLOCK FALSE

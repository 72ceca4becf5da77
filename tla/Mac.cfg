\* Every target and every text of --source; failures, signals and a kill at any point.
\* Frames of up to 9 x 9 pixels in square and oblong models, down to a third of the frame;
\* windows of three frames, clocks that are apart and slew.
SPECIFICATION MacSpec
CONSTANTS
  Sides = {2, 3, 5, 8, 9}
  Sizes <- MCSizes
  Labels = {"car", "person"}
  classes = {"car"}
  window = 3
  Spans = {1, 3}
  Offsets = {0, 2}
  None = None
INVARIANTS ReturnsClean ReleasedOnExit ExitCodeTells SourceAsAsked
  DecisionExact ExcessExact EstimateHonest
PROPERTY UnexplainedKeyFalls
CHECK_DEADLOCK FALSE

\* One lost byte while a held chord has START as its checksum.
CONSTANTS
  Bits = {1, 2}
  START <- Header
  REPORT_LEN = 3
  Reports <- AliasReports
  PERIODS = 6
  MaxLost = 1
SPECIFICATION ReportSpec
INVARIANT AcceptedWasSent
CHECK_DEADLOCK FALSE

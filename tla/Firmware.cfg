\* Link: millis() wraps, bytes are lost, boards restart.  Proxy: at most one loss or outage,
\* at any byte, before each accepted frame.
CONSTANTS
  WATCHDOG = 2
  Width = 5
  RxSize = 2
  MaxBoots = 2
  Bits = {1, 2}
  START <- Header
  REPORT_LEN = 3
  Reports <- PlainReports
  PERIODS = 3
  MaxLost = 1
SPECIFICATION FirmwareSpec
INVARIANTS SilenceReleases AcceptedWasSent
PROPERTIES LinkSpec KeySettles HostCatchesUp KeysComeUp
CHECK_DEADLOCK FALSE

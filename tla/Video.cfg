\* UDP: four versions of the screen, one of which does not fit, a desktop switch or a change
\* of the format, also to one that is not supported, or a restart, a runt or an overtaken
\* datagram; any datagram lost.  Camera: a device that fails and comes back.
SPECIFICATION FairSpec
CONSTANTS
  MaxVersion = 3
  MaxSwitches = 1
  Big = {1}
  Formats = {"B8G8R8A8", "R16G16B16A16", "R10G10B10A2"}
  MaxMishaps = 1
  None = None
  REOPEN_AFTER_FAILURES = 2
  STALE = 2
  Handles = {h1, h2, h3}
  MaxFrames = 3
INVARIANTS FormatMatches LossExact FramesAccounted CameraReleased
PROPERTIES HoldIsRight StaleIsSilence CameraRecovers
CHECK_DEADLOCK FALSE

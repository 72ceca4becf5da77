\* Updates, an interrupt and a stop while the port is pulled and put back.  Two handles,
\* one of which is always enough; a buffer of two bytes fills up.
SPECIFICATION FairSpec
CONSTANTS
  Handles = {h1, h2}
  None = None
  CAP = 2
INVARIANTS NothingLeftOpen ReleaseIsLastByte
PROPERTIES WireSettles Reconnects
CHECK_DEADLOCK FALSE

SPECIFICATION ViSpec
CONSTANTS
  Builds = {"vpss", "software"}
  PIPE = 2
  VI_POOL = 3
  MaxTimeouts = 3
  MaxRefused = 2
\* A wild descriptor may crash the program.
CHECK_DEADLOCK FALSE
INVARIANTS
  AllGivenBack
  VpssAllOrNothing
  SuccessHasFrameNV21
PROPERTY LagNeedsTimeouts

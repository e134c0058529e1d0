SPECIFICATION ViSpec
CONSTANTS
  Builds = {"vpss"}
  PIPE = 2
  VI_POOL = 3
  MaxTimeouts = 1
  MaxRefused = 0
CHECK_DEADLOCK FALSE
INVARIANT FailedResizeIsReported

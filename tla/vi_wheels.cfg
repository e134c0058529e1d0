SPECIFICATION LifeSpec
CONSTANTS
  Cameras = {"VI"}
  Signals = {"SIGINT", "SIGTERM"}
INVARIANT WheelsRestAtEnd
CHECK_DEADLOCK FALSE

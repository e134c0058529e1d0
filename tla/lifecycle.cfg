CONSTANTS
  Cameras = {"UVC", "VI"}
  Signals = {"SIGINT", "SIGTERM"}
SPECIFICATION FairLifeSpec
CHECK_DEADLOCK FALSE
INVARIANTS LifeTypeOK WheelsRestInOwnHands VpssGoesBeforeSys ModelFreedTwiceOnlyNested
PROPERTIES QuietSignalEndsProgram SignalStopsWheels

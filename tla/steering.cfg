SPECIFICATION SweepSpec
CONSTANTS
  min_speed_ = 15
  g_stop_center_offset = 120
  half_w = 320
INVARIANTS
  NeverTurnsAway
  BiasReachesWheels
PROPERTIES
  NearerIsSlower
CHECK_DEADLOCK FALSE

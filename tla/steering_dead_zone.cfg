SPECIFICATION SweepSpec
CONSTANTS
  min_speed_ = 15
  g_stop_center_offset = 120
  half_w = 320
INVARIANT CorrectsOutsideDeadZone
CHECK_DEADLOCK FALSE

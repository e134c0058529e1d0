SPECIFICATION RobotSpec
CONSTANTS
  min_speed_ = 15
  g_stop_center_offset = 120
  half_w = 320
  STOP_CONFIRM_CNT = 4
  ALIGN_STALL_FRAMES = 6
  STALL_BUF = 8
  SEARCH_FRAMES = 3
  SCAN_PERIOD = 2
  BUCKET_LOST_FRAMES = 2
  BUCKET_CONFIRM_CNT = 3
  ViewShare = 100
  BallViews = {}
  BucketViews = {}
  SERVO_TICKS = 10
  Plants <- MCPlants
  Grants = {2, 4}
  MaxFaults = 1
  GRIP_ZONE = 26
  REACH_ZONE = 0
  OUTAGE_TICKS = 8
INVARIANTS
  CarriesBall
  ArmKeepsPace
  PicturesAreRecent
  LastLookAtRest
PROPERTIES
  RoundsGoOn

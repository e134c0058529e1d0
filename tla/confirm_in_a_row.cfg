SPECIFICATION HSpec
CONSTANTS
  min_speed_ = 15
  g_stop_center_offset = 120
  half_w = 320
  STOP_CONFIRM_CNT = 3
  ALIGN_STALL_FRAMES = 3
  STALL_BUF = 4
  SEARCH_FRAMES = 1
  SCAN_PERIOD = 1
  BUCKET_LOST_FRAMES = 2
  BUCKET_CONFIRM_CNT = 3
  ViewShare = 100
  BallViews <- MCFewBallViews
  BucketViews <- MCFewBucketViews
INVARIANT ConfirmedInARow

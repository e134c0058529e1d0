SPECIFICATION FairHSpec
CONSTANTS
  min_speed_ = 15
  g_stop_center_offset = 120
  half_w = 320
  STOP_CONFIRM_CNT = 2
  ALIGN_STALL_FRAMES = 2
  STALL_BUF = 3
  SEARCH_FRAMES = 1
  SCAN_PERIOD = 1
  BUCKET_LOST_FRAMES = 2
  BUCKET_CONFIRM_CNT = 2
  ViewShare = 75
  BallViews <- MCFewBallViews
  BucketViews <- MCFewBucketViews
PROPERTIES
  FullBucketEndsApproach

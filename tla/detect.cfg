SPECIFICATION DetectSpec
CONSTANTS
  Outputs <- MCOutputs
  NumBoxes = 3
  model_w = 160
  Cameras <- MCCameras
  conf_thresh = 50
  nms_thresh = 45
\* One picture: the end is the end.
CHECK_DEADLOCK FALSE
INVARIANTS CountIsLength NoTwoOfOneBall NoBallIsLost ChosenIsSeenBest

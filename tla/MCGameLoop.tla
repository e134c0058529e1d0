---------------------------- MODULE MCGameLoop ----------------------------
(* Values for the constants of GameLoop that a .cfg cannot write: what a   *)
(* frame can show.  Its safety, the comparison with the history of what was *)
(* shown, and its liveness are checked over the same behaviours.           *)
EXTENDS GameLoopLiveness, GameLoopHistory

Pairs(areas, offsets) == [area : areas, offset : offsets]

(* 28 and 49 are the ends of the gripper's reach, 27 and 50 just outside.  *)
(* 120 is on the gripper's line; 141 and 150 are off it and close enough   *)
(* together to be a stall, 151 is too far from 141 to be one.              *)
MCBallViews ==
  Pairs({28}, {120, 141, 150, 151}) \cup Pairs({49}, {-60})
  \cup Pairs({1, 27}, {-60, 151}) \cup Pairs({50}, {-60, 0})

(* A bucket up to all of what the camera shows; 70 slows the approach, 90  *)
(* ends it, and 64 is the first offset that turns the wheels.              *)
MCBucketViews ==
  {v \in Pairs({1}, {-200, 0, 64}) \cup Pairs({70, 89, 90, ViewShare}, {30}) :
     v.area <= ViewShare}

(* Fewer of both, where a counterexample is looked for.                    *)
MCFewBallViews ==
  Pairs({28}, {120, 141, 150, 151}) \cup Pairs({27}, {-60}) \cup Pairs({50}, {0})
MCFewBucketViews == {v \in Pairs({1, 90, ViewShare}, {64}) : v.area <= ViewShare}
=============================================================================

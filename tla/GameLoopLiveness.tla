-------------------------- MODULE GameLoopLiveness --------------------------
(***************************************************************************)
(* What the match state machine must eventually do.  The camera decides    *)
(* what it sees, so every property has the form: if from some point on the *)
(* frames show this, then the loop does that.                              *)
(***************************************************************************)
EXTENDS GameLoop

Shows(kind) == view.kind = kind
BallOnTarget == Shows("ball") /\ InReach(view) /\ OnTarget(view.offset)
BucketFillsPicture == Shows("bucket") /\ view.area = ViewShare

(* While the frames show what a round needs, the ball on the gripper's     *)
(* line and then a bucket that fills the camera's picture, rounds go on:   *)
(* balls are delivered for ever, whatever counters, ring buffer and pose   *)
(* the time before left behind.                                            *)
Cooperative == BallOnTarget \/ BucketFillsPicture \/ Shows("unexamined")
CooperationDelivers == <>[]Cooperative => []<>(game_state = "DEPOSIT")

(* A ball in reach that stays off the gripper's line and does not move is  *)
(* kicked at again and again, whatever older offsets the ring buffer holds *)
(* when the ball gets stuck (tennis.cpp:619).                              *)
Stuck(o) == Shows("ball") /\ InReach(view) /\ ~OnTarget(view.offset)
            /\ view.offset \in o..o + ALIGN_STALL_MOVE_PX - 1
StallIsBroken == \A v \in BallViews :
  <>[]Stuck(v.offset) => []<>(pc = "kicking")

(* A bucket that stays out of sight is looked for: the loop does not wait  *)
(* for it standing still for ever (tennis.cpp:445).                        *)
LostBucketIsSought ==
  ~ <>[](game_state \in {"FIND_BUCKET", "APPROACH_BUCKET"} /\ Shows("nothing")
         /\ motor.mode = "standby")

(* "The bucket is large enough: release the ball" (tennis.cpp:97): the     *)
(* robot does not stand before a bucket that fills all the camera shows    *)
(* and go on approaching it for ever.                                      *)
FullBucketEndsApproach == ~ <>[](game_state = "APPROACH_BUCKET" /\ BucketFillsPicture)
=============================================================================

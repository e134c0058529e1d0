--------------------------- MODULE SteeringSweep ---------------------------
(***************************************************************************)
(* A target moves through the picture, a percent of area or a pixel at a   *)
(* time, so that the wheel commands of Steering are checked for every      *)
(* input a frame can give and between neighbouring inputs.                 *)
(***************************************************************************)
EXTENDS Steering

VARIABLES area, offset

sweep == <<area, offset>>

Pixels == -half_w..half_w

SweepInit == area = 0 /\ offset = -half_w

Nearer   == area < 100 /\ area' = area + 1 /\ UNCHANGED offset
Sideways == offset < half_w /\ offset' = offset + 1 /\ UNCHANGED area

SweepNext == Nearer \/ Sideways

SweepSpec == SweepInit /\ [][SweepNext]_sweep

-----------------------------------------------------------------------------
(* Positive: the robot turns to the right. *)
Turn(cmd) == Sign(cmd.left - cmd.right)
TurnsNotAway(cmd, error) == Turn(cmd) \in {0, Sign(error)}

(* After the dead zone map, the PWM scale and every rounding, no branch    *)
(* turns the robot away from what it is after: the ball, the bucket, or,   *)
(* when it is close enough to grab, the gripper's line (tennis.cpp:459,    *)
(* 581, 642, 656).                                                         *)
NeverTurnsAway ==
  /\ area < AREA_STOP => TurnsNotAway(ChaseDrive(area, offset), offset)
  /\ area < BUCKET_AREA_DEPOSIT => TurnsNotAway(BucketDrive(area, offset), offset)
  /\ area >= AREA_REVERSE => TurnsNotAway(ReverseDrive(offset), offset)
  /\ ~OnTarget(offset) => /\ Turn(AlignDrive(offset)) = Sign(stop_off(offset))
                          /\ Turn(KickDrive(offset)) = Sign(stop_off(offset))
  /\ offset # 0 => Turn(SearchDrive(offset)) = Sign(offset)

(* A speed difference the controller computes is still one on the wire:    *)
(* although the dead zone map sends 1 and 2 to the same speed, no bias is  *)
(* lost to it (motor.cpp:54).                                              *)
BiasReachesWheels ==
  /\ area < AREA_STOP /\ TurnBias(offset, K_TURN, MAX_TURN_BIAS_FAR) # 0 =>
       Turn(ChaseDrive(area, offset)) # 0
  /\ TurnBias(offset, BUCKET_K_TURN, BUCKET_MAX_BIAS) # 0 =>
       Turn(BucketDrive(area, offset)) # 0

(* "The nearer, the slower" (tennis.cpp:224): coming nearer to the ball or *)
(* to the bucket never makes the robot drive forward faster.               *)
Forward(cmd) == cmd.left + cmd.right
NearerIsSlower ==
  [][Nearer =>
       /\ area' < AREA_STOP =>
            Forward(ChaseDrive(area', offset)) <= Forward(ChaseDrive(area, offset))
       /\ Forward(BucketDrive(area', offset)) <= Forward(BucketDrive(area, offset))]_sweep

(* "Both wheels forward, correcting the heading on the way" (tennis.cpp:   *)
(* 665), outside CENTER_DEAD_ZONE = 5 pixels: a ball seen further off the  *)
(* middle than that turns the robot.                                       *)
CorrectsOutsideDeadZone ==
  area < AREA_STOP /\ Abs(offset) > CENTER_DEAD_ZONE => Turn(ChaseDrive(area, offset)) # 0
=============================================================================

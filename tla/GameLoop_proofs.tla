-------------------------- MODULE GameLoop_proofs --------------------------
(***************************************************************************)
(* Theorems about GameLoop, for every value of its constants.              *)
(***************************************************************************)
EXTENDS GameLoop, TLAPS

USE DEF FullScale, SPEED_SCALE

(* The dead zone map stays within full scale.                              *)
LEMMA DeadZoneMapRange ==
  ASSUME NEW v \in Int
  PROVE  DeadZoneMap(v) \in -FullScale..FullScale
<1> USE SteeringAssumption
<1>1. CASE v = 0
  BY <1>1 DEF DeadZoneMap
<1>2. CASE v # 0
  <2> DEFINE n   == (Abs(v) - 1) * (FullScale - min_speed_)
             mag == min_speed_ + n \div 99
             m   == IF mag > FullScale THEN FullScale ELSE mag
  <2>1. Abs(v) - 1 \in Nat /\ FullScale - min_speed_ \in Nat
    BY <1>2 DEF Abs
  <2>2. n \in Nat
    BY <2>1
  <2>3. n \div 99 \in Nat
    BY <2>2
  <2>4. m \in 0..FullScale
    BY <2>3
  <2>5. Sign(v) \in {-1, 0, 1}
    BY DEF Sign
  <2>6. DeadZoneMap(v) = Sign(v) * m
    BY <1>2 DEF DeadZoneMap
  <2> HIDE DEF m
  <2>7. CASE Sign(v) = -1
    BY <2>4, <2>6, <2>7
  <2>8. CASE Sign(v) = 0
    BY <2>4, <2>6, <2>8
  <2>9. CASE Sign(v) = 1
    BY <2>4, <2>6, <2>9
  <2> QED BY <2>5, <2>7, <2>8, <2>9
<1> QED BY <1>1, <1>2

LEMMA PwmRange == ASSUME NEW v \in Int PROVE Pwm(v) \in PwmValues
<1> DEFINE d == DeadZoneMap(v)
<1>1. d \in -FullScale..FullScale
  BY DeadZoneMapRange
<1> HIDE DEF d
<1>2. Clamp(d, FullScale) = d
  BY <1>1 DEF Clamp
<1>3. TruncDiv(d * SPEED_SCALE, FullScale) \in PwmValues
  BY <1>1 DEF TruncDiv, PwmValues
<1> QED BY <1>2, <1>3 DEF d, Pwm, to_pwm

LEMMA DriveType ==
  ASSUME NEW l \in Int, NEW r \in Int
  PROVE  Drive(l, r) \in MotorCommand /\ Drive(l, r).mode = "drive"
BY PwmRange DEF Drive, MotorCommand

(* Every command a branch sends is a motor command, and drives.            *)
IsDrive(cmd) == cmd \in MotorCommand /\ cmd.mode = "drive"

LEMMA TurnBiasType ==
  ASSUME NEW o \in Int, NEW gain \in Nat, NEW max \in Nat
  PROVE  TurnBias(o, gain, max) \in Int
<1>1. gain * o \in Int
  OBVIOUS
<1>2. TruncDiv(gain * o, half_w) \in Int
  BY <1>1, SteeringAssumption DEF TruncDiv
<1> QED BY <1>2 DEF TurnBias, Clamp

LEMMA DifferentialType ==
  ASSUME NEW spd \in Int, NEW bias \in Int PROVE IsDrive(Differential(spd, bias))
<1>1. Clamp(spd + bias, FullScale) \in Int /\ Clamp(spd - bias, FullScale) \in Int
  BY DEF Clamp
<1> QED BY <1>1, DriveType DEF Differential, IsDrive

LEMMA PivotType == ASSUME NEW x \in Int PROVE IsDrive(Pivot(x))
BY DriveType DEF Pivot, IsDrive

LEMMA ChaseDriveType == ASSUME NEW v \in View PROVE IsDrive(ChaseDrive(v.area, v.offset))
<1>1. v.area \in Int /\ v.offset \in Int
  BY DEF View
<1>2. base_speed(v.area) \in Int
  BY <1>1 DEF base_speed, AREA_BRAKE, BRAKE_SPEED, AREA_FAR, CHASE_SPEED_FAR
<1>3. /\ TurnBias(v.offset, K_TURN, MAX_TURN_BIAS_NEAR) \in Int
      /\ TurnBias(v.offset, K_TURN, MAX_TURN_BIAS_FAR) \in Int
  BY <1>1, TurnBiasType DEF K_TURN, MAX_TURN_BIAS_NEAR, MAX_TURN_BIAS_FAR
<1> QED BY <1>2, <1>3, PivotType, DifferentialType DEF ChaseDrive

LEMMA BucketDriveType == ASSUME NEW v \in View PROVE IsDrive(BucketDrive(v.area, v.offset))
<1>1. v.offset \in Int
  BY DEF View
<1>2. TurnBias(v.offset, BUCKET_K_TURN, BUCKET_MAX_BIAS) \in Int
  BY <1>1, TurnBiasType DEF BUCKET_K_TURN, BUCKET_MAX_BIAS
<1> QED
  BY <1>2, DifferentialType DEF BucketDrive, BUCKET_BRAKE_SPD, BUCKET_APPROACH_SPD

LEMMA BallDriveTypes ==
  ASSUME NEW o \in Int
  PROVE  /\ IsDrive(ReverseDrive(o)) /\ IsDrive(AlignDrive(o)) /\ IsDrive(KickDrive(o))
         /\ IsDrive(SearchDrive(o)) /\ IsDrive(ScanDrive(1)) /\ IsDrive(ScanDrive(-1))
         /\ IsDrive(FindBucketDrive)
<1>1. IsDrive(ReverseDrive(o))
  BY DriveType DEF ReverseDrive, IsDrive, REVERSE_SPEED, Sign
<1>2. IsDrive(AlignDrive(o)) /\ IsDrive(KickDrive(o))
  BY PivotType DEF AlignDrive, KickDrive, Towards, ALIGN_PIVOT_SPD, ALIGN_KICK_SPD
<1>3. IsDrive(SearchDrive(o)) /\ IsDrive(ScanDrive(1)) /\ IsDrive(ScanDrive(-1))
  BY PivotType DEF SearchDrive, ScanDrive, SEARCH_PIVOT_SPD
<1>4. IsDrive(FindBucketDrive)
  BY PivotType DEF FindBucketDrive, BUCKET_SEARCH_SPD
<1> QED BY <1>1, <1>2, <1>3, <1>4

LEMMA RestTypes ==
  /\ Standby \in MotorCommand /\ Brake \in MotorCommand
  /\ Standby.mode = "standby" /\ Brake.mode = "brake"
BY DEF Standby, Brake, MotorCommand, PwmValues

LEMMA ArmTypes ==
  /\ Ready \in ArmCommand /\ Lowered \in ArmCommand
  /\ \A a \in ArmCommand : /\ [a EXCEPT !.grip = "open"] \in ArmCommand
                            /\ [a EXCEPT !.grip = "closed"] \in ArmCommand
                            /\ [a EXCEPT !.pose = "up"] \in ArmCommand
BY DEF Ready, Lowered, ArmCommand

(* The views an iteration can get have the type of view.                   *)
LEMMA SeenTypes ==
  /\ Nothing \in ViewType /\ NoPicture \in ViewType /\ Unexamined \in ViewType
  /\ \A v \in View : Seen("ball", v) \in ViewType /\ Seen("bucket", v) \in ViewType
BY DEF Nothing, NoPicture, Unexamined, Empty, Seen, View, ViewType

(* Wrapping counters stay in range.                                        *)
LEMMA ModRange == ASSUME NEW a \in Int, NEW n \in Nat \ {0} PROVE a % n \in 0..n - 1
OBVIOUS

-----------------------------------------------------------------------------
(* The invariant: types, and what the branches rely on without a test.     *)
IInv == TypeOK /\ RoundInv

USE GameAssumption, SteeringAssumption

LEMMA ZeroInRange ==
  /\ 0 \in 0..STALL_BUF /\ 0 \in 0..STALL_BUF - 1 /\ 0 \in 0..STOP_CONFIRM_CNT
  /\ 0 \in 0..2 * SCAN_PERIOD - 1 /\ 0 \in 0..BUCKET_CONFIRM_CNT - 1
  /\ 0 \in 0..BUCKET_LOST_FRAMES + 1 /\ 0 \in 0..Never /\ Never \in 0..Never
BY DEF Never

LEMMA InitInv == Init => IInv
<1> SUFFICES ASSUME Init PROVE IInv
  OBVIOUS
<1>1. TypeOK
  <2>2. stopped \in BOOLEAN
    BY DEF Init
  <2>3. align_off_buf \in [0..STALL_BUF - 1 -> Int]
    BY DEF Init
  <2> QED BY <2>2, <2>3, ZeroInRange, RestTypes, ArmTypes, SeenTypes DEF Init, TypeOK, GameState
<1>2. RoundInv
  BY DEF Init, RoundInv, BlockingFollowsStage, ArmFollowsStage, StoppedFollowsStage,
         RestBeforeChange, StopUnconfirmed, Ready, Grabbing
<1> QED BY <1>1, <1>2 DEF IInv

(* What an iteration does whichever branch it takes.                       *)
LEMMA FrameTypes ==
  ASSUME TypeOK, NEW shown \in ViewType, NewFrame(shown)
  PROVE  /\ frame_idx' \in 0..2 * SCAN_PERIOD - 1
         /\ view' \in ViewType
         /\ BallNotSeen => last_offset' \in Int /\ frames_lost' \in 0..Never
<1>1. frame_idx' \in 0..2 * SCAN_PERIOD - 1
  <2>1. 2 * SCAN_PERIOD \in Nat \ {0} /\ frame_idx + 1 \in Int
    BY DEF TypeOK
  <2> QED BY <2>1, ModRange DEF NewFrame
<1>2. ASSUME BallNotSeen PROVE last_offset' \in Int /\ frames_lost' \in 0..Never
  BY <1>2 DEF TypeOK, BallNotSeen, Capped, Never
<1> QED BY <1>1, <1>2 DEF NewFrame

USE DEF IInv

LEMMA NoFrameInv == IInv /\ NoFrame => IInv'
<1> SUFFICES ASSUME IInv, NoFrame PROVE IInv'
  OBVIOUS
<1>1. TypeOK'
  BY FrameTypes, SeenTypes DEF NoFrame, TypeOK, alignVars, bucketVars
<1>2. RoundInv'
  BY DEF NoFrame, RoundInv, BlockingFollowsStage, ArmFollowsStage, StoppedFollowsStage,
         RestBeforeChange, StopUnconfirmed, alignVars, bucketVars, NewFrame
<1> QED BY <1>1, <1>2

LEMMA DepositInv == IInv /\ (Deposit \/ NextRound) => IInv'
<1>1. ASSUME IInv, Deposit PROVE IInv'
  <2>1. TypeOK'
    BY <1>1, FrameTypes, SeenTypes, RestTypes, ArmTypes
    DEF Deposit, TypeOK, HoldStill, Blocking, alignVars, bucketVars
  <2>2. RoundInv'
    BY <1>1 DEF Deposit, TypeOK, RoundInv, BlockingFollowsStage, ArmFollowsStage,
       StoppedFollowsStage, RestBeforeChange, StopUnconfirmed, alignVars, bucketVars,
       NewFrame, HoldStill, Grabbing
  <2> QED BY <2>1, <2>2
<1>2. ASSUME IInv, NextRound PROVE IInv'
  <2>0. stopped' \in BOOLEAN
    BY <1>2 DEF NextRound, ForgetStop
  <2>1. TypeOK'
    BY <1>2, <2>0, ArmTypes, ZeroInRange
    DEF NextRound, TypeOK, ForgetStop, ResetAlign, ForgetBucket, GameState
  <2>2. RoundInv'
    BY <1>2 DEF NextRound, TypeOK, RoundInv, BlockingFollowsStage, ArmFollowsStage,
       StoppedFollowsStage, RestBeforeChange, StopUnconfirmed, ForgetStop, ForgetBucket,
       Ready, Grabbing
  <2> QED BY <2>1, <2>2
<1> QED BY <1>1, <1>2

(* The steps of the bucket stages.                                         *)
LEMMA LookingTypes ==
  ASSUME TypeOK, NEW stage, NEW shown \in ViewType, Looking(stage, shown)
  PROVE  /\ view' \in ViewType /\ frame_idx' \in 0..2 * SCAN_PERIOD - 1
         /\ last_offset' \in Int /\ frames_lost' \in 0..Never
         /\ UNCHANGED <<arm, stopped, stop_confirm_cnt, align_cnt, align_off_buf,
                        align_off_head>>
         /\ pc = "frame" /\ game_state = stage
BY FrameTypes DEF Looking, alignVars, NewFrame

(* The counters of the bucket stages keep their bounds.                     *)
LEMMA BucketCounters ==
  ASSUME TypeOK
  PROVE  /\ CountLost => bucket_lost_cnt' \in 0..BUCKET_LOST_FRAMES + 1
         /\ bucket_lost_cnt' = 0 => bucket_lost_cnt' \in 0..BUCKET_LOST_FRAMES + 1
         /\ ForgetSightings => bucket_confirm' \in 0..BUCKET_CONFIRM_CNT - 1
         /\ bucket_confirm + 1 < BUCKET_CONFIRM_CNT =>
              bucket_confirm + 1 \in 0..BUCKET_CONFIRM_CNT - 1
BY DEF TypeOK, CountLost, ForgetSightings, Capped

(* A loop whose camera may show anything.  The invariant does not depend   *)
(* on what BallViews and BucketViews are, so what is proved of these steps *)
(* holds of the loop between a camera and an arm of its own too (Robot).   *)
AnyFindBucket     == FindMiss \/ \E v \in View : FindWait(v) \/ FindConfirm(v)
AnyApproachBucket == ApproachMiss \/ \E v \in View : ApproachArrive(v) \/ ApproachSteer(v)
AnyNext ==
  \/ NoFrame
  \/ \E v \in View : ChaseBall(v)
  \/ Search \/ Scan
  \/ Grab \/ KickDone
  \/ AnyFindBucket
  \/ AnyApproachBucket \/ Arrived
  \/ Deposit \/ NextRound

LEMMA FindBucketInv == IInv /\ AnyFindBucket => IInv'
<1> USE DEF ForgetBucket, HoldStill
<1>1. ASSUME IInv, FindMiss PROVE IInv'
  <2>0. Looking("FIND_BUCKET", Nothing)
    BY <1>1 DEF FindMiss
  <2>1. IsDrive(FindBucketDrive)
    BY BallDriveTypes
  <2>2. TypeOK'
    <3>1. CountLost /\ ForgetSightings /\ motor' = FindBucketDrive
      BY <1>1 DEF FindMiss
    <3>2. /\ bucket_lost_cnt' \in 0..BUCKET_LOST_FRAMES + 1
          /\ bucket_confirm' \in 0..BUCKET_CONFIRM_CNT - 1
      BY <1>1, <3>1, BucketCounters
    <3> QED BY <1>1, <2>0, <2>1, <3>1, <3>2, LookingTypes, SeenTypes
            DEF FindMiss, TypeOK, IsDrive
  <2>3. RoundInv'
    <3>1. /\ UNCHANGED <<arm, stopped, stop_confirm_cnt, pc, game_state>>
          /\ pc = "frame" /\ game_state = "FIND_BUCKET" /\ bucket_confirm' = 0
      BY <1>1, <2>0, LookingTypes, SeenTypes DEF FindMiss, ForgetSightings
    <3> QED BY <1>1, <3>1
            DEF RoundInv, BlockingFollowsStage, ArmFollowsStage,
        StoppedFollowsStage, RestBeforeChange, StopUnconfirmed, Grabbing
  <2> QED BY <2>2, <2>3
<1>2. ASSUME IInv, NEW v \in View, FindWait(v) PROVE IInv'
  <2>0. Looking("FIND_BUCKET", Seen("bucket", v)) /\ Seen("bucket", v) \in ViewType
    BY <1>2, SeenTypes DEF FindWait
  <2>2. TypeOK'
    <3>1. /\ bucket_lost_cnt' \in 0..BUCKET_LOST_FRAMES + 1
          /\ bucket_confirm' \in 0..BUCKET_CONFIRM_CNT - 1
      BY <1>2, BucketCounters DEF FindWait
    <3> QED BY <1>2, <2>0, <3>1, RestTypes, LookingTypes DEF FindWait, TypeOK
  <2>3. RoundInv'
    BY <1>2, <2>0, <2>2, LookingTypes
    DEF FindWait, TypeOK, RoundInv, BlockingFollowsStage, ArmFollowsStage,
        StoppedFollowsStage, RestBeforeChange, StopUnconfirmed, Grabbing
  <2> QED BY <2>2, <2>3
<1>3. ASSUME IInv, NEW v \in View, FindConfirm(v) PROVE IInv'
  <2>0. Looking("FIND_BUCKET", Seen("bucket", v)) /\ Seen("bucket", v) \in ViewType
    BY <1>3, SeenTypes DEF FindConfirm
  <2>2. TypeOK'
    BY <1>3, <2>0, LookingTypes, ZeroInRange DEF FindConfirm, TypeOK, GameState
  <2>3. RoundInv'
    BY <1>3, <2>0, LookingTypes
    DEF FindConfirm, TypeOK, RoundInv, BlockingFollowsStage, ArmFollowsStage,
        StoppedFollowsStage, RestBeforeChange, StopUnconfirmed, Grabbing
  <2> QED BY <2>2, <2>3
<1> QED BY <1>1, <1>2, <1>3 DEF AnyFindBucket

LEMMA ApproachBucketInv == IInv /\ (AnyApproachBucket \/ Arrived) => IInv'
<1> USE DEF HoldStill
<1>1. ASSUME IInv, ApproachMiss PROVE IInv'
  <2>1. Looking("APPROACH_BUCKET", Nothing) /\ CountLost /\ pc' = pc
    BY <1>1 DEF ApproachMiss
  <2>2. bucket_lost_cnt' \in 0..BUCKET_LOST_FRAMES + 1
    BY <1>1, <2>1, BucketCounters
  <2>3. /\ game_state' \in {"FIND_BUCKET", "APPROACH_BUCKET"}
        /\ bucket_confirm' \in 0..BUCKET_CONFIRM_CNT - 1
        /\ motor' \in {motor, Standby}
    <3>1. game_state = "APPROACH_BUCKET"
      BY <1>1, <2>1, LookingTypes, SeenTypes
    <3>2. CASE bucket_lost_cnt' > BUCKET_LOST_FRAMES
      BY <1>1, <3>2, BucketCounters DEF ApproachMiss
    <3>3. CASE ~(bucket_lost_cnt' > BUCKET_LOST_FRAMES)
      BY <1>1, <3>1, <3>3 DEF ApproachMiss, TypeOK
    <3> QED BY <3>2, <3>3
  <2>4. TypeOK'
    BY <1>1, <2>1, <2>2, <2>3, RestTypes, LookingTypes, SeenTypes DEF TypeOK, GameState
  <2>5. bucket_lost_cnt' > BUCKET_LOST_FRAMES =>
          game_state' = "FIND_BUCKET" /\ motor' = motor
    BY <1>1 DEF ApproachMiss
  <2>6. ~(bucket_lost_cnt' > BUCKET_LOST_FRAMES) =>
          game_state' = "APPROACH_BUCKET" /\ motor' = Standby
    BY <1>1, <2>1, LookingTypes, SeenTypes DEF ApproachMiss
  <2>7. RoundInv'
    <3> USE DEF RoundInv, BlockingFollowsStage, ArmFollowsStage, StoppedFollowsStage,
            RestBeforeChange, StopUnconfirmed, Grabbing
    <3>1. /\ UNCHANGED <<arm, stopped, stop_confirm_cnt, pc>>
          /\ pc = "frame" /\ game_state = "APPROACH_BUCKET"
      BY <1>1, <2>1, LookingTypes, SeenTypes
    <3>2. CASE bucket_lost_cnt' > BUCKET_LOST_FRAMES
      <4>1. bucket_confirm' = 0
        BY <1>1, <3>2 DEF ApproachMiss, ForgetSightings
      <4>2. bucket_lost_cnt \in Nat /\ bucket_lost_cnt > 0
        BY <1>1, <2>1, <3>2 DEF CountLost, Capped, TypeOK
      <4> QED BY <1>1, <2>5, <3>1, <3>2, <4>1, <4>2
    <3>3. CASE ~(bucket_lost_cnt' > BUCKET_LOST_FRAMES)
      BY <1>1, <2>6, <3>1, <3>3
    <3> QED BY <3>2, <3>3
  <2> QED BY <2>4, <2>7
<1>2. ASSUME IInv, NEW v \in View, ApproachArrive(v) PROVE IInv'
  <2>0. Looking("APPROACH_BUCKET", Seen("bucket", v)) /\ Seen("bucket", v) \in ViewType
    BY <1>2, SeenTypes DEF ApproachArrive
  <2>2. TypeOK'
    BY <1>2, <2>0, RestTypes, LookingTypes, ZeroInRange
    DEF ApproachArrive, TypeOK, GameState, Blocking
  <2>3. RoundInv'
    BY <1>2, <2>0, LookingTypes
    DEF ApproachArrive, TypeOK, RoundInv, BlockingFollowsStage, ArmFollowsStage,
        StoppedFollowsStage, RestBeforeChange, StopUnconfirmed, Grabbing
  <2> QED BY <2>2, <2>3
<1>3. ASSUME IInv, NEW v \in View, ApproachSteer(v) PROVE IInv'
  <2>0. Looking("APPROACH_BUCKET", Seen("bucket", v)) /\ Seen("bucket", v) \in ViewType
    BY <1>3, SeenTypes DEF ApproachSteer
  <2>1. IsDrive(BucketDrive(v.area, v.offset))
    BY BucketDriveType
  <2>2. TypeOK'
    BY <1>3, <2>0, <2>1, LookingTypes, ZeroInRange DEF ApproachSteer, TypeOK, IsDrive
  <2>3. RoundInv'
    BY <1>3, <2>0, LookingTypes
    DEF ApproachSteer, TypeOK, RoundInv, BlockingFollowsStage, ArmFollowsStage,
        StoppedFollowsStage, RestBeforeChange, StopUnconfirmed, Grabbing
  <2> QED BY <2>2, <2>3
<1>4. ASSUME IInv, Arrived PROVE IInv'
  <2>2. TypeOK'
    BY <1>4, RestTypes
    DEF Arrived, TypeOK, GameState, alignVars, seenVars, bucketVars
  <2>3. RoundInv'
    BY <1>4
    DEF Arrived, TypeOK, RoundInv, BlockingFollowsStage, ArmFollowsStage,
        StoppedFollowsStage, RestBeforeChange, StopUnconfirmed, Grabbing,
        alignVars, seenVars, bucketVars
  <2> QED BY <2>2, <2>3
<1> QED BY <1>1, <1>2, <1>3, <1>4 DEF AnyApproachBucket

(* The steps of a grab and the end of a kick.                              *)
LEMMA GrabInv == IInv /\ (Grab \/ KickDone) => IInv'
<1> USE DEF Blocked, Blocking, alignVars, seenVars, bucketVars, HoldStill, ForgetBucket,
        ResetAlign
<1> USE DEF RoundInv, BlockingFollowsStage, ArmFollowsStage, StoppedFollowsStage,
        RestBeforeChange, StopUnconfirmed, Grabbing
<1>1. ASSUME IInv, BrakeDone PROVE IInv'
  <2>1. TypeOK'
    <3>1. stopped' \in BOOLEAN
      BY <1>1 DEF BrakeDone
    <3> QED BY <1>1, <3>1, RestTypes DEF BrakeDone, TypeOK
  <2>2. RoundInv'
    BY <1>1 DEF BrakeDone, TypeOK
  <2> QED BY <2>1, <2>2
<1>2. ASSUME IInv, GrabLower PROVE IInv'
  <2>1. TypeOK'
    BY <1>2, ArmTypes DEF GrabLower, TypeOK
  <2>2. RoundInv'
    BY <1>2 DEF GrabLower, TypeOK, Lowered
  <2> QED BY <2>1, <2>2
<1>3. ASSUME IInv, GrabClose PROVE IInv'
  <2>1. TypeOK'
    BY <1>3, ArmTypes DEF GrabClose, TypeOK
  <2>2. RoundInv'
    BY <1>3 DEF GrabClose, TypeOK, ArmCommand
  <2> QED BY <2>1, <2>2
<1>4. ASSUME IInv, GrabLift PROVE IInv'
  <2>1. TypeOK'
    BY <1>4, ArmTypes, ZeroInRange DEF GrabLift, TypeOK, GameState
  <2>2. RoundInv'
    BY <1>4 DEF GrabLift, TypeOK, ArmCommand
  <2> QED BY <2>1, <2>2
<1>5. ASSUME IInv, KickDone PROVE IInv'
  <2>1. TypeOK'
    BY <1>5, RestTypes, ZeroInRange DEF KickDone, TypeOK
  <2>2. RoundInv'
    BY <1>5 DEF KickDone, TypeOK
  <2> QED BY <2>1, <2>2
<1> QED BY <1>1, <1>2, <1>3, <1>4, <1>5 DEF Grab

(* The steps of a chase without a ball.                                    *)
LEMMA LostBallInv == IInv /\ (Search \/ Scan) => IInv'
<1> SUFFICES ASSUME IInv, Search \/ Scan PROVE IInv'
  OBVIOUS
<1>1. LoseBall
  BY DEF Search, Scan
<1>2. IsDrive(motor')
  <2>1. last_offset \in Int
    BY DEF TypeOK
  <2> QED BY <2>1, BallDriveTypes DEF Search, Scan
<1>3. TypeOK'
  <2>1. NewFrame(Nothing) /\ BallNotSeen
    BY <1>1 DEF LoseBall
  <2> QED BY <1>1, <1>2, <2>1, FrameTypes, SeenTypes
          DEF LoseBall, TypeOK, IsDrive, alignVars, bucketVars
<1>4. RoundInv'
  BY <1>1 DEF LoseBall, NewFrame, TypeOK, RoundInv, BlockingFollowsStage,
     ArmFollowsStage, StoppedFollowsStage, RestBeforeChange, StopUnconfirmed, Grabbing,
     alignVars, bucketVars
<1> QED BY <1>3, <1>4

(* The steps of a chase with a ball in the frame: never from the stopped   *)
(* state, whose branch the invariant excludes.                             *)
LEMMA BallFrame ==
  ASSUME IInv, NEW v \in View, ChaseBall(v)
  PROVE  /\ view' \in ViewType /\ frame_idx' \in 0..2 * SCAN_PERIOD - 1
         /\ last_offset' \in Int /\ frames_lost' \in 0..Never
         /\ UNCHANGED <<arm, game_state, bucket_lost_cnt, bucket_confirm>>
         /\ pc = "frame" /\ game_state = "CHASE_BALL"
         /\ stopped = FALSE /\ stopped' = FALSE
         /\ Confirmed = stop_confirm_cnt /\ stop_confirm_cnt \in 0..STOP_CONFIRM_CNT - 1
         /\ BackOff(v) \/ ConfirmStop(v) \/ Align(v) \/ Chase(v)
         /\ v.offset \in Int /\ v \in View
<1>1. v \in View /\ v.offset \in Int /\ Seen("ball", v) \in ViewType
  BY SeenTypes DEF View
<1>2. SeeBall(v)
  BY DEF ChaseBall
<1>3. NewFrame(Seen("ball", v))
  BY <1>2 DEF SeeBall
<1>4. view' \in ViewType /\ frame_idx' \in 0..2 * SCAN_PERIOD - 1
  BY <1>1, <1>3, FrameTypes
<1>5. last_offset' \in Int /\ frames_lost' \in 0..Never
  BY <1>1, <1>2 DEF SeeBall, Never
<1>6. /\ pc = "frame" /\ game_state = "CHASE_BALL"
      /\ UNCHANGED <<arm, game_state, bucket_lost_cnt, bucket_confirm>>
  BY <1>2, <1>3 DEF SeeBall, NewFrame, bucketVars
<1>7. stopped = FALSE
  BY <1>6 DEF TypeOK, RoundInv, StoppedFollowsStage, Grabbing
<1>8. ~Parked(v)
  BY <1>7 DEF Parked
<1>9. stopped' = FALSE /\ (BackOff(v) \/ ConfirmStop(v) \/ Align(v) \/ Chase(v))
  BY <1>8 DEF ChaseBall
<1>10. Confirmed = stop_confirm_cnt /\ stop_confirm_cnt \in 0..STOP_CONFIRM_CNT - 1
  BY <1>6, <1>7 DEF Confirmed, TypeOK, RoundInv, StopUnconfirmed
<1> QED BY <1>1, <1>4, <1>5, <1>6, <1>7, <1>9, <1>10

(* What the branches of a chase leave behind.                              *)
LEMMA BallBranches ==
  ASSUME IInv, NEW v \in View, ChaseBall(v)
  PROVE  /\ motor' \in MotorCommand
         /\ pc' \in {"frame", "braking", "kicking"}
         /\ stop_confirm_cnt' \in 0..STOP_CONFIRM_CNT
         /\ pc' \in {"frame", "kicking"} => stop_confirm_cnt' < STOP_CONFIRM_CNT
         /\ align_cnt' \in 0..STALL_BUF /\ align_off_head' \in 0..STALL_BUF - 1
         /\ align_off_buf' \in [0..STALL_BUF - 1 -> Int]
<1> USE DEF ResetAlign, alignVars
<1>0. /\ pc = "frame" /\ Confirmed = stop_confirm_cnt
      /\ stop_confirm_cnt \in 0..STOP_CONFIRM_CNT - 1
  BY BallFrame
<1>1. CASE BackOff(v)
  <2>1. IsDrive(ReverseDrive(v.offset))
    BY BallFrame, BallDriveTypes
  <2>2. stop_confirm_cnt' = stop_confirm_cnt /\ pc' = pc
    BY <1>0, <1>1 DEF BackOff
  <2>3. /\ stop_confirm_cnt' \in 0..STOP_CONFIRM_CNT
        /\ stop_confirm_cnt' < STOP_CONFIRM_CNT
    BY <1>0, <2>2
  <2> QED BY <1>0, <1>1, <2>1, <2>2, <2>3 DEF BackOff, TypeOK, IsDrive
<1>2. CASE ConfirmStop(v)
  <2>1. stop_confirm_cnt' = stop_confirm_cnt + 1
    BY <1>0, <1>2 DEF ConfirmStop
  <2>2. /\ pc' \in {"frame", "braking"}
        /\ pc' = "frame" => ~(stop_confirm_cnt' >= STOP_CONFIRM_CNT)
    BY <1>0, <1>2 DEF ConfirmStop
  <2>3. stop_confirm_cnt' \in 0..STOP_CONFIRM_CNT
    BY <1>0, <2>1
  <2>4. align_off_buf' \in [0..STALL_BUF - 1 -> Int]
    BY <1>2 DEF ConfirmStop, TypeOK
  <2>5. pc' \in {"frame", "kicking"} => stop_confirm_cnt' < STOP_CONFIRM_CNT
    BY <2>2, <2>3
  <2>6. motor' \in MotorCommand /\ align_cnt' \in 0..STALL_BUF
        /\ align_off_head' \in 0..STALL_BUF - 1
    BY <1>2, RestTypes, ZeroInRange DEF ConfirmStop
  <2> QED BY <2>2, <2>3, <2>4, <2>5, <2>6
<1>3. CASE Align(v)
  <2>1. RecordOffset(v) /\ stop_confirm_cnt' = 0
    BY <1>3 DEF Align
  <2>2. align_off_buf' \in [0..STALL_BUF - 1 -> Int]
    BY <2>1, BallFrame DEF RecordOffset, TypeOK
  <2>3. align_off_head' \in 0..STALL_BUF - 1
    <3>1. STALL_BUF \in Nat \ {0} /\ align_off_head + 1 \in Int
      BY DEF TypeOK
    <3> QED BY <2>1, <3>1, ModRange DEF RecordOffset
  <2>4. align_cnt' \in 0..STALL_BUF
    BY <2>1 DEF RecordOffset, Capped, TypeOK
  <2>5. IsDrive(KickDrive(v.offset)) /\ IsDrive(AlignDrive(v.offset))
    BY BallFrame, BallDriveTypes
  <2>6. motor' \in MotorCommand /\ pc' \in {"frame", "kicking"}
    BY <1>3, <2>5, BallFrame DEF Align, IsDrive
  <2> QED BY <2>1, <2>2, <2>3, <2>4, <2>6, ZeroInRange
<1>4. CASE Chase(v)
  <2>1. IsDrive(ChaseDrive(v.area, v.offset))
    BY BallFrame, ChaseDriveType
  <2>2. align_off_buf' \in [0..STALL_BUF - 1 -> Int]
    BY <1>4 DEF Chase, TypeOK
  <2>3. stop_confirm_cnt' = 0 /\ pc' = "frame"
    BY <1>0, <1>4 DEF Chase
  <2> QED BY <1>4, <2>1, <2>2, <2>3, ZeroInRange DEF Chase, IsDrive
<1> QED BY <1>1, <1>2, <1>3, <1>4, BallFrame

LEMMA ChaseBallInv == ASSUME IInv, NEW v \in View, ChaseBall(v) PROVE IInv'
<1>1. TypeOK'
  <2>1. stopped' \in BOOLEAN /\ game_state' \in GameState /\ arm' \in ArmCommand
    BY BallFrame DEF TypeOK
  <2>2. pc' \in {"frame"} \cup Blocking
    BY BallBranches DEF Blocking
  <2>3. /\ bucket_lost_cnt' \in 0..BUCKET_LOST_FRAMES + 1
        /\ bucket_confirm' \in 0..BUCKET_CONFIRM_CNT - 1
    BY BallFrame DEF TypeOK
  <2> QED BY <2>1, <2>2, <2>3, BallFrame, BallBranches DEF TypeOK
<1>2. RoundInv'
  BY BallFrame, BallBranches
  DEF RoundInv, BlockingFollowsStage, ArmFollowsStage, StoppedFollowsStage,
      RestBeforeChange, StopUnconfirmed, Grabbing
<1> QED BY <1>1, <1>2

-----------------------------------------------------------------------------
LEMMA AnyNextInv == IInv /\ [AnyNext]_vars => IInv'
<1> SUFFICES ASSUME IInv, [AnyNext]_vars PROVE IInv'
  OBVIOUS
<1>1. CASE NoFrame
  BY <1>1, NoFrameInv
<1>2. ASSUME NEW v \in View, ChaseBall(v) PROVE IInv'
  BY <1>2, ChaseBallInv
<1>3. CASE Search \/ Scan
  BY <1>3, LostBallInv
<1>4. CASE Grab \/ KickDone
  BY <1>4, GrabInv
<1>5. CASE AnyFindBucket
  BY <1>5, FindBucketInv
<1>6. CASE AnyApproachBucket \/ Arrived
  BY <1>6, ApproachBucketInv
<1>7. CASE Deposit \/ NextRound
  BY <1>7, DepositInv
<1>8. CASE UNCHANGED vars
  BY <1>8 DEF vars, alignVars, seenVars, bucketVars, TypeOK, RoundInv,
     BlockingFollowsStage, ArmFollowsStage, StoppedFollowsStage, RestBeforeChange,
     StopUnconfirmed, Grabbing
<1> QED BY <1>1, <1>2, <1>3, <1>4, <1>5, <1>6, <1>7, <1>8 DEF AnyNext

LEMMA NextIsAny == [Next]_vars => [AnyNext]_vars
BY DEF Next, AnyNext, FindBucket, ApproachBucket, AnyFindBucket, AnyApproachBucket

LEMMA NextInv == IInv /\ [Next]_vars => IInv'
BY AnyNextInv, NextIsAny

(* The inductive invariant, for every value of the thresholds.             *)
THEOREM Invariant == Spec => []IInv
<1>1. Init => IInv
  BY InitInv
<1>2. IInv /\ [Next]_vars => IInv'
  BY NextInv
<1> QED BY <1>1, <1>2, PTL DEF Spec

(* Every variable keeps its type: every wheel command fits the wire's PWM  *)
(* range, every index into align_off_buf is inside it.                     *)
THEOREM TypeCorrect == Spec => []TypeOK
<1>1. IInv => TypeOK
  OBVIOUS
<1> QED BY <1>1, Invariant, PTL

(* What the branches rely on without testing it always holds.              *)
THEOREM RoundCorrect == Spec => []RoundInv
<1>1. IInv => RoundInv
  OBVIOUS
<1> QED BY <1>1, Invariant, PTL

(* The stopped branch of CHASE_BALL (tennis.cpp:565) is dead code whatever *)
(* the thresholds: at the top of the loop "stopped" means "delivering".    *)
THEOREM StoppedCorrect == Spec => []StoppedIffDelivering
<1>1. IInv => StoppedIffDelivering
  BY DEF RoundInv, StoppedFollowsStage, StoppedIffDelivering, Grabbing
<1> QED BY <1>1, Invariant, PTL

-----------------------------------------------------------------------------
(* A change of stage is never the step that still has the wheels moving:   *)
(* FindConfirm, the last ApproachMiss, GrabLift and NextRound send the     *)
(* wheels nothing, the invariant knows they already got standby.           *)
LEMMA ChangeAtRest ==
  ASSUME IInv, [AnyNext]_vars, game_state' # game_state PROVE motor' = Standby
<1> USE DEF RoundInv, RestBeforeChange, Grabbing
<1>1. ~NoFrame /\ ~Search /\ ~Scan /\ ~(UNCHANGED vars)
  BY DEF NoFrame, Search, Scan, LoseBall, vars
<1>2. \A v \in View : ~ChaseBall(v)
  BY DEF ChaseBall, SeeBall
<1>3. CASE Grab \/ KickDone
  BY <1>3 DEF Grab, BrakeDone, GrabLower, GrabClose, GrabLift, KickDone, Blocked
<1>4. CASE AnyFindBucket
  <2>1. ~FindMiss /\ \A v \in View : ~FindWait(v)
    BY DEF FindMiss, FindWait
  <2>2. PICK v \in View : FindConfirm(v)
    BY <1>4, <2>1 DEF AnyFindBucket
  <2>3. bucket_confirm > 0 /\ game_state = "FIND_BUCKET" /\ motor' = motor
    BY <2>2 DEF FindConfirm, Looking, TypeOK
  <2> QED BY <2>3
<1>5. CASE AnyApproachBucket
  <2>1. \A v \in View : ~ApproachArrive(v) /\ ~ApproachSteer(v)
    BY DEF ApproachArrive, ApproachSteer
  <2>2. ApproachMiss
    BY <1>5, <2>1 DEF AnyApproachBucket
  <2>3. game_state = "APPROACH_BUCKET" /\ CountLost
    BY <2>2 DEF ApproachMiss, Looking
  <2>4. bucket_lost_cnt' > BUCKET_LOST_FRAMES /\ motor' = motor
    BY <2>2 DEF ApproachMiss
  <2>5. bucket_lost_cnt > 0
    BY <2>3, <2>4 DEF CountLost, Capped, TypeOK
  <2> QED BY <2>3, <2>4, <2>5
<1>6. CASE Arrived
  BY <1>6 DEF Arrived, HoldStill
<1>7. CASE Deposit \/ NextRound
  BY <1>7 DEF Deposit, NextRound, BlockingFollowsStage
<1> QED BY <1>1, <1>2, <1>3, <1>4, <1>5, <1>6, <1>7 DEF AnyNext

THEOREM StageChangeCorrect == Spec => StageChangesAtRest
<1>1. IInv /\ [Next]_vars => [game_state' # game_state => motor' = Standby]_vars
  BY ChangeAtRest, NextIsAny
<1> QED BY <1>1, Invariant, PTL DEF Spec, StageChangesAtRest

-----------------------------------------------------------------------------
(* GameLoop implements BallDelivery.  The next lemmas are the steps of the *)
(* simulation, one for each kind of abstract step.                         *)
LEMMA Modes == \A cmd \in MotorCommand : cmd.mode \in {"drive", "brake", "standby"}
BY DEF MotorCommand

LEMMA SteerSeeking ==
  ASSUME IInv, IInv', game_state = "CHASE_BALL", pc \in {"frame", "braking", "kicking"},
         UNCHANGED <<game_state, arm>>
  PROVE  Delivery!Steer
BY Modes DEF Delivery!Steer, Delivery!Wheels, RoundInv, ArmFollowsStage, TypeOK

LEMMA SteerCarrying ==
  ASSUME IInv, IInv', game_state \in {"FIND_BUCKET", "APPROACH_BUCKET"}, pc = "frame",
         game_state' \in {"FIND_BUCKET", "APPROACH_BUCKET"}, UNCHANGED arm
  PROVE  Delivery!Steer
BY Modes DEF Delivery!Steer, Delivery!Wheels, RoundInv, ArmFollowsStage, TypeOK

LEMMA GrabSimulated ==
  ASSUME IInv, IInv', Grab \/ KickDone PROVE Delivery!Next
<1> USE DEF RoundInv, BlockingFollowsStage, ArmFollowsStage, RestBeforeChange, Grabbing, Blocked
<1>1. CASE BrakeDone
  BY <1>1, SteerSeeking DEF BrakeDone, Delivery!Next
<1>2. CASE KickDone
  BY <1>2, SteerSeeking DEF KickDone, Delivery!Next
<1>3. CASE GrabLower
  BY <1>3, RestTypes DEF GrabLower, Lowered, Delivery!Next, Delivery!Reach
<1>4. CASE GrabClose
  BY <1>4, RestTypes DEF GrabClose, Delivery!Next, Delivery!Grasp
<1>5. CASE GrabLift
  BY <1>5, RestTypes DEF GrabLift, Delivery!Next, Delivery!Lift
<1> QED BY <1>1, <1>2, <1>3, <1>4, <1>5 DEF Grab

LEMMA DeliverySimulated ==
  ASSUME IInv, IInv', Arrived \/ Deposit \/ NextRound PROVE Delivery!Next
<1> USE DEF RoundInv, BlockingFollowsStage, ArmFollowsStage, RestBeforeChange, Grabbing
<1>1. CASE Arrived
  BY <1>1, RestTypes DEF Arrived, HoldStill, Delivery!Next, Delivery!Arrive
<1>2. CASE Deposit
  BY <1>2, RestTypes DEF Deposit, NewFrame, HoldStill, Delivery!Next, Delivery!Release
<1>3. CASE NextRound
  BY <1>3, RestTypes DEF NextRound, Ready, Delivery!Next, Delivery!StartOver
<1> QED BY <1>1, <1>2, <1>3

LEMMA StepSimulated ==
  ASSUME IInv, IInv', [AnyNext]_vars PROVE [Delivery!Next]_(Delivery!vars)
<1>1. CASE NoFrame
  BY <1>1 DEF NoFrame, Delivery!vars
<1>2. CASE \E v \in View : ChaseBall(v)
  BY <1>2, BallFrame, SteerSeeking DEF Delivery!Next
<1>3. CASE Search \/ Scan
  BY <1>3, SteerSeeking DEF Search, Scan, LoseBall, NewFrame, Delivery!Next
<1>4. CASE Grab \/ KickDone
  BY <1>4, GrabSimulated
<1>5. CASE AnyFindBucket
  <2>1. pc = "frame" /\ game_state = "FIND_BUCKET" /\ UNCHANGED arm
    BY <1>5 DEF AnyFindBucket, FindMiss, FindWait, FindConfirm, Looking, NewFrame
  <2>2. game_state' \in {"FIND_BUCKET", "APPROACH_BUCKET"}
    BY <1>5, <2>1 DEF AnyFindBucket, FindMiss, FindWait, FindConfirm
  <2> QED BY <2>1, <2>2, SteerCarrying DEF Delivery!Next
<1>6. CASE AnyApproachBucket
  <2>1. pc = "frame" /\ game_state = "APPROACH_BUCKET" /\ UNCHANGED arm
    BY <1>6 DEF AnyApproachBucket, ApproachMiss, ApproachArrive, ApproachSteer, Looking, NewFrame
  <2>2. game_state' \in {"FIND_BUCKET", "APPROACH_BUCKET"}
    BY <1>6, <2>1 DEF AnyApproachBucket, ApproachMiss, ApproachArrive, ApproachSteer
  <2> QED BY <2>1, <2>2, SteerCarrying DEF Delivery!Next
<1>7. CASE Arrived \/ Deposit \/ NextRound
  BY <1>7, DeliverySimulated
<1>8. CASE UNCHANGED vars
  BY <1>8 DEF vars, Delivery!vars
<1> QED BY <1>1, <1>2, <1>3, <1>4, <1>5, <1>6, <1>7, <1>8 DEF AnyNext

(* Whatever the camera shows, the loop takes a ball with the wheels at     *)
(* rest, carries it held and lifted, and lets go of it only at rest.       *)
THEOREM DeliveryImplemented == Spec => Delivers
<1>1. Init => Delivery!Init
  BY RestTypes DEF Init, Ready, Delivery!Init
<1>2. IInv /\ IInv' /\ [Next]_vars => [Delivery!Next]_(Delivery!vars)
  BY StepSimulated, NextIsAny
<1> QED BY <1>1, <1>2, Invariant, PTL DEF Spec, Delivers, Delivery!Spec

-----------------------------------------------------------------------------
(* A camera whose picture fills less of the frame than the area that ends  *)
(* the approach (uvc_capture.cpp letterboxes 640x480 into 640x640, 75      *)
(* percent; tennis.cpp:454 asks for 90): no ball is ever let go.           *)
NotArrived == pc # "arriving" /\ game_state # "DEPOSIT"

THEOREM SmallPictureNeverDeposits ==
  ASSUME ViewShare < BUCKET_AREA_DEPOSIT PROVE Spec => []NotArrived
<1>1. Init => NotArrived
  BY DEF Init, NotArrived
<1>2. IInv /\ NotArrived /\ [Next]_vars => NotArrived'
  <2> SUFFICES ASSUME IInv, NotArrived, [Next]_vars PROVE NotArrived'
    OBVIOUS
  <2>1. CASE NoFrame \/ Search \/ Scan
    BY <2>1 DEF NoFrame, Search, Scan, LoseBall, NotArrived
  <2>2. ASSUME NEW v \in BallViews, ChaseBall(v) PROVE NotArrived'
    BY <2>2, BallFrame, BallBranches DEF NotArrived
  <2>3. CASE Grab \/ KickDone
    BY <2>3 DEF Grab, BrakeDone, GrabLower, GrabClose, GrabLift, KickDone, Blocked, NotArrived
  <2>4. CASE FindBucket
    BY <2>4 DEF FindBucket, FindMiss, FindWait, FindConfirm, NotArrived
  <2>5. \A v \in BucketViews : ~ApproachArrive(v)
    <3> SUFFICES ASSUME NEW v \in BucketViews PROVE ~CloseEnough(v)
      BY DEF ApproachArrive
    <3>1. v.area \in Int /\ v.area <= ViewShare
      BY DEF View
    <3> QED BY <3>1 DEF CloseEnough, BUCKET_AREA_DEPOSIT
  <2>6. CASE ApproachBucket
    BY <2>5, <2>6 DEF ApproachBucket, ApproachMiss, ApproachSteer, NotArrived
  <2>7. ~Arrived /\ ~Deposit
    BY DEF Arrived, Deposit, NotArrived
  <2>8. CASE NextRound
    BY <2>8 DEF NextRound, NotArrived
  <2>9. CASE UNCHANGED vars
    BY <2>9 DEF vars, NotArrived
  <2> QED BY <2>1, <2>2, <2>3, <2>4, <2>6, <2>7, <2>8, <2>9 DEF Next
<1> QED BY <1>1, <1>2, Invariant, PTL DEF Spec
=============================================================================

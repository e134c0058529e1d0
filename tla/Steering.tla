------------------------------ MODULE Steering ------------------------------
(***************************************************************************)
(* The wheel commands the robot computes from what the camera shows, and   *)
(* what Motor::drive and UartMotorDriver make of them before they reach    *)
(* the chassis controller.  Everything here is a function of its inputs.   *)
(*                                                                         *)
(* An area ratio is a whole number of percent of the frame; an offset is   *)
(* in pixels from the middle of the frame, negative to the left.  All      *)
(* speeds are integers, so float arithmetic cut to int is TruncDiv.        *)
(***************************************************************************)
EXTENDS Integers

CONSTANTS
  min_speed_,            (* Motor::min_speed_; tennis.cpp sets it to 15   *)
  g_stop_center_offset,  (* argv[5], STOP_CENTER_OFFSET = 120 by default  *)
  half_w                 (* half the frame's width in pixels, 320         *)

ASSUME SteeringAssumption ==
  /\ min_speed_ \in 1..100
  /\ g_stop_center_offset \in Int
  /\ half_w \in Nat \ {0}

CHASE_SPEED_FAR == 4
AREA_FAR        == 2
AREA_NEAR       == 35
AREA_BRAKE      == 20
BRAKE_SPEED     == 3
AREA_STOP       == 28
AREA_REVERSE    == 50
AREA_STOP_EXIT  == 20
REVERSE_SPEED   == 2

K_TURN            == 6
MAX_TURN_BIAS_FAR == 3
MAX_TURN_BIAS_NEAR == 1
CENTER_DEAD_ZONE  == 5
STOP_CENTER_ZONE  == 20
ALIGN_PIVOT_SPD   == 2
SEARCH_PIVOT_SPD  == 3
ALIGN_STALL_MOVE_PX == 10
ALIGN_KICK_SPD    == 3

BUCKET_AREA_DEPOSIT == 90
BUCKET_AREA_BRAKE   == 70
BUCKET_APPROACH_SPD == 4
BUCKET_BRAKE_SPD    == 2
BUCKET_K_TURN       == 5
BUCKET_MAX_BIAS     == 3
BUCKET_SEARCH_SPD   == 3

SPEED_SCALE == 150       (* UartMotorDriver's default: speed 100 is PWM 150 *)
FullScale   == 100

-----------------------------------------------------------------------------
(* C arithmetic *)

Abs(x) == IF x < 0 THEN -x ELSE x
Sign(x) == IF x > 0 THEN 1 ELSE IF x < 0 THEN -1 ELSE 0
TruncDiv(a, b) == IF a < 0 THEN -((-a) \div b) ELSE a \div b
Clamp(x, bound) == IF x > bound THEN bound ELSE IF x < -bound THEN -bound ELSE x

-----------------------------------------------------------------------------
(* From a speed in -100..100 to the PWM value on the wire *)

(* Motor::drive lifts a non-zero speed over the wheels' dead zone. *)
LiftToMinimum(v) ==                                                (* mutant *)
  Sign(v) * (IF Abs(v) < min_speed_ THEN min_speed_ ELSE Abs(v))
DeadZoneMap(v) ==
  IF v = 0 THEN 0
  ELSE LET mag == min_speed_ + ((Abs(v) - 1) * (FullScale - min_speed_)) \div 99
       IN  Sign(v) * (IF mag > FullScale THEN FullScale ELSE mag)

to_pwm(speed) == TruncDiv(Clamp(speed, FullScale) * SPEED_SCALE, FullScale)

Pwm(v) == to_pwm(DeadZoneMap(v))

(* A motor command is what the controller last received for both wheels. *)
Drive(l, r) == [mode |-> "drive", left |-> Pwm(l), right |-> Pwm(r)]
Brake       == [mode |-> "brake", left |-> 0, right |-> 0]
Standby     == [mode |-> "standby", left |-> 0, right |-> 0]
Pivot(v)    == Drive(v, -v)

-----------------------------------------------------------------------------
(* The speeds each branch of the main loop chooses *)

(* base_speed(): slower the closer the ball is. *)
base_speed(area) ==
  IF area >= AREA_BRAKE THEN BRAKE_SPEED
  ELSE LET span == AREA_BRAKE - AREA_FAR
           t    == IF area < AREA_FAR THEN 0 ELSE area - AREA_FAR
       IN  (CHASE_SPEED_FAR * span + t * (BRAKE_SPEED - CHASE_SPEED_FAR)) \div span

(* The part of the speed that goes to turning: nothing inside the dead     *)
(* zone, else proportional to the offset, cut to int and clamped.          *)
TurnBias(offset, gain, max) ==
  IF Abs(offset) <= CENTER_DEAD_ZONE THEN 0
  ELSE Clamp(TruncDiv(gain * offset, half_w), max)

Differential(spd, bias) ==
  Drive(Clamp(spd + bias, FullScale), Clamp(spd - bias, FullScale))

(* Far: both wheels forward, at different speeds.  Near: pivot.            *)
ChaseDrive(area, offset) ==
  IF area >= AREA_NEAR
  THEN Pivot(TurnBias(offset, K_TURN, MAX_TURN_BIAS_NEAR))
  ELSE Differential(base_speed(area), TurnBias(offset, K_TURN, MAX_TURN_BIAS_FAR))

BucketDriveHasty(area, offset) ==                                  (* mutant *)
  Differential(IF area >= BUCKET_AREA_BRAKE THEN BUCKET_APPROACH_SPD
                                            ELSE BUCKET_BRAKE_SPD,
               TurnBias(offset, BUCKET_K_TURN, BUCKET_MAX_BIAS))
BucketDrive(area, offset) ==
  Differential(IF area >= BUCKET_AREA_BRAKE THEN BUCKET_BRAKE_SPD
                                            ELSE BUCKET_APPROACH_SPD,
               TurnBias(offset, BUCKET_K_TURN, BUCKET_MAX_BIAS))

(* Too close: back off, turning by one step when the ball is off centre. *)
ReverseDriveMirrored(offset) ==                                    (* mutant *)
  LET lean == IF Abs(offset) > CENTER_DEAD_ZONE THEN Sign(offset) ELSE 0
  IN  Drive(-REVERSE_SPEED - lean, -REVERSE_SPEED + lean)
ReverseDrive(offset) ==
  LET lean == IF Abs(offset) > CENTER_DEAD_ZONE THEN Sign(offset) ELSE 0
  IN  Drive(-REVERSE_SPEED + lean, -REVERSE_SPEED - lean)

(* Where the ball has to be for the gripper, relative to where it is. *)
stop_off(offset) == offset - g_stop_center_offset
OnTarget(offset) == Abs(stop_off(offset)) <= STOP_CENTER_ZONE

Towards(x) == IF x > 0 THEN 1 ELSE -1

(* ALIGN_PIVOT_MIN and ALIGN_PIVOT_SPD are both 2: the speed is constant. *)
AlignDrive(offset) == Pivot(Towards(stop_off(offset)) * ALIGN_PIVOT_SPD)
KickDrive(offset)  == Pivot(Towards(stop_off(offset)) * ALIGN_KICK_SPD)

SearchDrive(last_offset) ==
  Pivot(IF last_offset >= 0 THEN SEARCH_PIVOT_SPD ELSE -SEARCH_PIVOT_SPD)
ScanDrive(dir)   == Pivot(dir * SEARCH_PIVOT_SPD)
FindBucketDrive  == Pivot(BUCKET_SEARCH_SPD)

=============================================================================

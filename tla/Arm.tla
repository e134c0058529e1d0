-------------------------------- MODULE Arm --------------------------------
(***************************************************************************)
(* The arm: arm.cpp and the three bus servos it commands.                  *)
(*                                                                         *)
(* A command "#000P1611T1000!" sends one servo to a pulse within a time,   *)
(* and nothing comes back: where the servos are is known only by the       *)
(* clock.  One tick of it is 100 ms.  at is the pulse a servo came from,   *)
(* to the one it goes to, left the ticks it still needs; a servo that is   *)
(* sent to where it is stays there.                                        *)
(***************************************************************************)
EXTENDS Integers

CONSTANT SERVO_TICKS   (* time_ms of set_angle(), 1000 by default: 10     *)

ASSUME ArmAssumption == SERVO_TICKS \in Nat

VARIABLES
  arm_fd,              (* whether the arm's port could be opened          *)
  servo                (* of servo 0, 1 (arm) and 2 (gripper)             *)

armVars == <<arm_fd, servo>>

PULSE_MIN == 500
PULSE_MAX == 2500
ANGLE_MAX == 270

(* static_cast<int>(500 + angle / 270 * 2000), for whole degrees.          *)
angle_to_pulse(angle) ==
  LET pulse == 500 + (angle * 2000) \div ANGLE_MAX
  IN  IF pulse < PULSE_MIN THEN PULSE_MIN ELSE IF pulse > PULSE_MAX THEN PULSE_MAX ELSE pulse

Servos == 0..2

(* The poses, in degrees, of the servos each of them moves.               *)
GripOpen  == [s \in {2} |-> 110]
GripClose == [s \in {2} |-> 50]
ArmDown   == [s \in {0, 1} |-> IF s = 0 THEN 225 ELSE 60]
ArmUp     == [s \in {0, 1} |-> IF s = 0 THEN 150 ELSE 100]

At(pulse) == [at |-> pulse, to |-> pulse, left |-> 0]

(* The port is opened once, in the constructor; without it every command   *)
(* is dropped.  The poses come one after the other, with no reply.         *)
set_angle(pose) ==
  /\ servo' = [s \in Servos |->
                 IF arm_fd /\ s \in DOMAIN pose
                 THEN [servo[s] EXCEPT !.to = angle_to_pulse(pose[s]), !.left = SERVO_TICKS]
                 ELSE servo[s]]
  /\ UNCHANGED arm_fd

Joined(pose, other) ==
  [s \in DOMAIN pose \cup DOMAIN other |-> IF s \in DOMAIN pose THEN pose[s] ELSE other[s]]

(* A tick of the servos.                                                   *)
Turned(s) == IF s.left <= 1 THEN At(s.to) ELSE [s EXCEPT !.left = @ - 1]
MoveServos == servo' = [s \in Servos |-> Turned(servo[s])] /\ UNCHANGED arm_fd

(* The servos of a pose have come to it.                                   *)
InPose(pose) ==
  \A s \in DOMAIN pose :
    /\ servo[s].to = angle_to_pulse(pose[s])
    /\ servo[s].left = 0 \/ servo[s].at = servo[s].to

(* The commands of grab(), release() and grab_pos(), and the sleep after   *)
(* each of them in ticks.                                                  *)
grab_down  == set_angle(Joined(ArmDown, GripOpen))
grab_close == set_angle(GripClose)
grab_lift  == set_angle(ArmUp)
release    == set_angle(GripOpen)
grab_pos   == set_angle(Joined(ArmUp, GripOpen))

SleepDownShort == 5                                                (* mutant *)
SleepDown  == 15
SleepClose == 10
SleepLift  == 12
SleepRelease == 5

(* The arm in the ready position, where the program's start leaves it.     *)
ArmInit ==
  /\ arm_fd \in BOOLEAN
  /\ servo = [s \in Servos |-> At(angle_to_pulse(Joined(ArmUp, GripOpen)[s]))]
=============================================================================

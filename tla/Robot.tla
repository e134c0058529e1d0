------------------------------- MODULE Robot -------------------------------
(***************************************************************************)
(* The match loop with its camera and its arm, on a floor: GameLoop's      *)
(* actions fed by UvcCapture's queue, Arm's servos, and a plant, outside   *)
(* the program, that moves the ball or the bucket through the picture as   *)
(* the wheels turn.  So the loop reacts to pictures that are as old as the *)
(* queue makes them, and its commands decide what the next ones show.      *)
(*                                                                         *)
(* Time passes in ticks of 100 ms.  The program runs when busy is 0; each  *)
(* sleep, pulse and inference sets busy, and Tick moves everything else.   *)
(* A picture is taken every tick: the camera is at least as fast as the    *)
(* loop, so with any more of them the queue would hold the same.           *)
(*                                                                         *)
(* The plant: a pivot moves the picture by px pixels a tick, a curve by 1; *)
(* driving changes the area by 1 percent a tick; brake and standby stop at *)
(* once; with sticky wheels a pivot below STICK does not move at all.  It   *)
(* is a guess at the chassis, not read from any code.                      *)
(*                                                                         *)
(* open() takes the size its driver settles on (uvc_capture.cpp:67), and   *)
(* letterbox() pads what is not square: plant.share is how much of the     *)
(* frame is left to the picture, 75 percent of it for the 640x480 the code *)
(* asks for and all of it for a square sensor.                             *)
(***************************************************************************)
EXTENDS GameLoop, UvcCapture, Arm

CONSTANTS
  Plants,              (* [px, think, sticky, ball, bucket, share]: pixels *)
                       (* of a tick's pivot, ticks of an inference, sticky *)
                       (* wheels, where a ball is at the start of a round  *)
                       (* and the bucket when there is a ball in the grip, *)
                       (* and the percent of the frame that is picture     *)
  GRIP_ZONE,           (* how far off its line the gripper takes a ball    *)
  REACH_ZONE,          (* and by how many percent out of reach             *)
  OUTAGE_TICKS,        (* how long an outage of the camera lasts           *)
  Grants,              (* buffers the driver may grant                     *)
  MaxFaults            (* pictures, buffers and detections that go missing *)
                       (* in a run of the program                          *)

STICK == 23            (* PWM that turns a sticky wheel: above speed 2's   *)

ASSUME RobotAssumption ==
  /\ Plants \subseteq [px : Nat, think : Nat \ {0}, sticky : BOOLEAN,
                      ball : [area : 1..100, offset : Int],
                      bucket : [area : 1..100, offset : Int], share : 1..ViewShare]
  /\ GRIP_ZONE \in Nat /\ REACH_ZONE \in Nat /\ OUTAGE_TICKS \in Nat \ {0}
  /\ Grants \subseteq Nat \ {0, 1}
  /\ MaxFaults \in Nat

VARIABLES
  plant,
  target,              (* the ball, or the bucket while a ball is held     *)
  held,                (* the gripper has the ball                         *)
  busy,                (* ticks until the program goes on                  *)
  waited,              (* ticks getFrame() has waited in select()          *)
  examined,            (* the picture of this iteration, or of the last    *)
  looking,             (* the picture is in the network                    *)
  outage,              (* ticks for which the camera takes no picture      *)
  faults

outside == <<plant, target, held>>
timing  == <<busy, waited, examined, looking>>
robotVars == <<vars, uvcVars, armVars, outside, timing, outage, faults>>

Thing(kind, place) == [thing |-> kind, area |-> place.area, offset |-> place.offset]
Blank == [thing |-> Thing("nothing", [area |-> 0, offset |-> 0]), still |-> TRUE]

(* A robot whose arm port was opened: without it the loop goes on to look  *)
(* for a bucket with nothing in its gripper, and there is no more to say.  *)
RobotInit ==
  /\ Init
  /\ \E granted \in Grants : UvcReady(granted)
  /\ ArmInit /\ arm_fd
  /\ plant \in Plants
  /\ target = Thing("ball", plant.ball)
  /\ held = FALSE
  /\ busy = 0 /\ waited = 0
  /\ examined = [shown |-> Blank, age |-> 0] /\ looking = FALSE
  /\ outage = 0 /\ faults = 0

Fault == faults < MaxFaults /\ faults' = faults + 1
NoFault == UNCHANGED faults

-----------------------------------------------------------------------------
(* The floor *)

Rolling == motor.mode = "drive"
Pivoting == Rolling /\ motor.left * motor.right < 0
Sticks == plant.sticky /\ Pivoting /\ Abs(motor.left) < STICK

(* How far the picture moves to the left, and how much nearer things come. *)
TurnOf == IF Sticks \/ ~Rolling THEN 0
          ELSE IF Pivoting THEN Sign(motor.left) * plant.px
          ELSE Sign(motor.left - motor.right)
Approach == IF Rolling /\ ~Pivoting THEN Sign(motor.left + motor.right) ELSE 0

Within(x, low, high) == IF x < low THEN low ELSE IF x > high THEN high ELSE x

Move ==
  /\ target' = [target EXCEPT !.offset = Within(@ - TurnOf, -2 * half_w, 2 * half_w),
                              !.area = Within(@ + Approach, 1, 100)]
  /\ UNCHANGED held

(* The gripper takes what is on its line and in its reach when it shuts on *)
(* the ground.  The bucket is what there is to see from then on, until the *)
(* gripper opens: then there is another ball.                              *)
InGrip ==
  /\ target.thing = "ball" /\ Abs(stop_off(target.offset)) <= GRIP_ZONE
  /\ target.area >= AREA_STOP - REACH_ZONE /\ target.area < AREA_REVERSE + REACH_ZONE
Shuts  == ~InPose(GripClose) /\ InPose(GripClose)'
Opens == held /\ servo[2].to = angle_to_pulse(GripOpen[2])

Floor ==
  IF Shuts /\ InPose(ArmDown) /\ InGrip
  THEN held' = TRUE /\ target' = Thing("bucket", plant.bucket)
  ELSE IF Opens
  THEN held' = FALSE /\ target' = Thing("ball", plant.ball)
  ELSE Move

(* select() ends with a picture, or after 3 ticks.                         *)
SELECT_TICKS == 3
Selecting == pc = "frame" /\ ~looking /\ busy = 0 /\ NothingFilled
             /\ waited < SELECT_TICKS

Camera ==
  \/ outage = 0 /\ Expose([thing |-> target, still |-> ~Rolling])
     /\ NoFault /\ UNCHANGED outage
  \/ outage = 0 /\ Fault /\ outage' = OUTAGE_TICKS - 1 /\ UNCHANGED uvcVars
  \/ outage > 0 /\ outage' = outage - 1 /\ NoFault /\ UNCHANGED uvcVars

Tick ==
  /\ \/ busy > 0 /\ busy' = busy - 1 /\ UNCHANGED waited
     \/ Selecting /\ waited' = waited + 1 /\ UNCHANGED busy
  /\ MoveServos
  /\ Floor
  /\ Camera
  /\ UNCHANGED <<vars, plant, examined, looking>>

-----------------------------------------------------------------------------
(* The program *)

Runs(ticks) == busy = 0 /\ busy' = ticks

(* uvc_grab_bgr(): the oldest picture.  It may not decode, and its buffer  *)
(* may not be taken back.                                                  *)
TakeFrame ==
  /\ pc = "frame" /\ ~looking
  /\ Runs(plant.think)
  /\ looking' = TRUE
  /\ \/ GetFrame(TRUE) /\ NoFault
     \/ GetFrame(FALSE) /\ Fault
  /\ examined' = Head(filled)
  /\ waited' = 0
  /\ UNCHANGED <<vars, armVars, outside, outage>>

Undecodable ==
  /\ pc = "frame" /\ ~looking /\ Runs(0)
  /\ GetFrame(TRUE) /\ Fault
  /\ NoFrame
  /\ waited' = 0
  /\ UNCHANGED <<armVars, outside, examined, looking, outage>>

TimedOut ==
  /\ NothingFilled /\ waited = SELECT_TICKS /\ ~looking /\ Runs(0)
  /\ NoFrame
  /\ waited' = 0
  /\ UNCHANGED <<uvcVars, armVars, outside, examined, looking, outage, faults>>

(* The branch of this iteration, by what its picture shows.  A fault is a  *)
(* detection that goes missing.                                            *)
Shown == examined.shown.thing
Place == [area |-> Shown.area, offset |-> Shown.offset]
Sees(thing) == Shown.thing = thing /\ Abs(Shown.offset) <= half_w

Misses(thing) == \/ ~Sees(thing) /\ NoFault
                 \/ Sees(thing) /\ Fault

Deciding(ticks) ==
  /\ looking /\ Runs(ticks)
  /\ looking' = FALSE
  /\ UNCHANGED <<uvcVars, outside, waited, examined, outage>>

PULSE_TICKS == 4       (* BRAKE_PULSE_US *)
KICK_TICKS  == 2       (* ALIGN_KICK_US  *)

SeesBall ==
  /\ Sees("ball") /\ NoFault
  /\ ChaseBall(Place)
  /\ Deciding(CASE pc' = "braking" -> PULSE_TICKS [] pc' = "kicking" -> KICK_TICKS
                [] OTHER -> 0)
  /\ UNCHANGED armVars

SeesNoBall ==
  /\ Misses("ball")
  /\ Search \/ Scan
  /\ Deciding(0)
  /\ UNCHANGED armVars

(* No bucket is larger than the picture, and detect_bucket_bgr() divides   *)
(* by the frame, padding and all.                                          *)
Padded(place) == [place EXCEPT !.area = Within(@, 0, plant.share)]

SeesBucket ==
  /\ Sees("bucket") /\ NoFault
  /\ LET seen == Padded(Place) IN
       FindWait(seen) \/ FindConfirm(seen) \/ ApproachArrive(seen) \/ ApproachSteer(seen)
  /\ Deciding(IF pc' = "arriving" THEN PULSE_TICKS ELSE 0)
  /\ UNCHANGED armVars

SeesNoBucket ==
  /\ Misses("bucket")
  /\ FindMiss \/ ApproachMiss
  /\ Deciding(0)
  /\ UNCHANGED armVars

LetGo ==
  /\ Deposit /\ release
  /\ Deciding(SleepRelease) /\ NoFault

(* The rest of a blocking call, each command with the sleep after it.      *)
Goes(ticks) ==
  /\ Runs(ticks)
  /\ UNCHANGED <<uvcVars, outside, waited, examined, looking, outage, faults>>

GrabSteps ==
  \/ GrabLower /\ grab_down  /\ Goes(SleepDown)
  \/ GrabClose /\ grab_close /\ Goes(SleepClose)
  \/ GrabLift  /\ grab_lift  /\ Goes(SleepLift)

PulseEnds == BrakeDone \/ KickDone \/ Arrived

Program ==
  \/ TakeFrame \/ Undecodable \/ TimedOut
  \/ SeesBall \/ SeesNoBall \/ SeesBucket \/ SeesNoBucket
  \/ LetGo
  \/ GrabSteps
  \/ PulseEnds /\ Goes(0) /\ UNCHANGED armVars
  \/ NextRound /\ grab_pos /\ Goes(0)

RobotNext == Tick \/ Program
RobotSpec == RobotInit /\ [][RobotNext]_robotVars /\ WF_robotVars(RobotNext)

-----------------------------------------------------------------------------
(* "Hold this pose while looking for the bucket" (arm.cpp:141): the robot  *)
(* that looks for a bucket has the ball in its gripper.  No sensor says    *)
(* so: it follows from confirmations made on old pictures, a brake, and an *)
(* arm that moves by the clock (tennis.cpp:594, 604).                      *)
CarriesBall == game_state \in {"FIND_BUCKET", "APPROACH_BUCKET"} => held

(* The sleeps of grab() are long enough for the servos: the gripper shuts  *)
(* when the arm is down, the arm lifts when the gripper is shut, and the   *)
(* search begins with the arm up (arm.cpp:149, 153, 158).                  *)
ArmKeepsPace ==
  busy = 0 =>
    /\ pc = "closing" => InPose(ArmDown) /\ InPose(GripOpen)
    /\ pc = "lifting" => InPose(ArmDown) /\ InPose(GripClose)
    /\ pc = "frame" /\ game_state = "FIND_BUCKET" => InPose(ArmUp) /\ InPose(GripClose)

(* The confirmations outlast the queue: when STOP_CONFIRM_CNT is more than *)
(* the buffers and one, the last picture that confirms a grab was taken    *)
(* with the wheels at rest, and not on the way there.  Only a missed       *)
(* picture or detection can break it, for the confirmations need not be in *)
(* a row (tennis.cpp:594).                                                 *)
LastLookAtRest ==
  pc = "braking" /\ faults = 0 /\ buffer_count_ + 1 < STOP_CONFIRM_CNT => examined.shown.still

(* Rounds go on for ever: the chase, the alignment and the approach bring  *)
(* every ball to the bucket although each acts on old pictures, and one    *)
(* lost buffer, picture or detection does not end that (tennis.cpp:656,    *)
(* uvc_capture.cpp:189).  It takes a camera whose picture can show a       *)
(* bucket of BUCKET_AREA_DEPOSIT: at 640x480 no round ends.                *)
RoundsGoOn == plant.share >= BUCKET_AREA_DEPOSIT => []<>(game_state = "DEPOSIT")
=============================================================================

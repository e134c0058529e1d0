------------------------------ MODULE GameLoop ------------------------------
(***************************************************************************)
(* The match state machine: main() of tennis.cpp from "while (true)" on.   *)
(*                                                                         *)
(* One iteration of the loop reads one frame and takes one branch.  A      *)
(* branch that blocks (a brake pulse, a kick, the arm's grab and release)  *)
(* is several steps, one per command sent to the wheels or to the arm: pc  *)
(* names the blocking call the loop is in, "frame" when it is at the top.  *)
(*                                                                         *)
(* Counters that grow without a bound in the code are cut where no test of *)
(* the code can tell the values apart: frame_idx by 2 * SCAN_PERIOD, the   *)
(* frames since the ball was seen at SEARCH_FRAMES + 1, align_cnt at       *)
(* STALL_BUF, bucket_lost_cnt at BUCKET_LOST_FRAMES + 1.                   *)
(***************************************************************************)
EXTENDS Steering

CONSTANTS
  STOP_CONFIRM_CNT,    (* on-target frames before the grab: 4             *)
  ALIGN_STALL_FRAMES,  (* aligning frames before a stall is looked for: 20 *)
  STALL_BUF,           (* slots of align_off_buf: 30                      *)
  SEARCH_FRAMES,       (* frames a lost ball is searched on its side: 25  *)
  SCAN_PERIOD,         (* frames between two scan directions: 60          *)
  BUCKET_LOST_FRAMES,  (* frames a lost bucket is waited for: 10          *)
  BUCKET_CONFIRM_CNT,  (* frames that confirm a bucket: 3                 *)
  BallViews,           (* [area, offset] of the best ball in a frame      *)
  BucketViews,         (* [area, offset] of the bucket in a frame         *)
  ViewShare            (* percent of the frame the camera's picture fills *)

View == [area : 0..100, offset : Int]

ASSUME GameAssumption ==
  /\ STOP_CONFIRM_CNT \in Nat \ {0}
  /\ ALIGN_STALL_FRAMES \in Nat \ {0} /\ STALL_BUF \in Nat
  /\ ALIGN_STALL_FRAMES <= STALL_BUF
  /\ SEARCH_FRAMES \in Nat
  /\ SCAN_PERIOD \in Nat \ {0}
  /\ BUCKET_LOST_FRAMES \in Nat \ {0}
  /\ BUCKET_CONFIRM_CNT \in Nat /\ BUCKET_CONFIRM_CNT >= 2
  /\ ViewShare \in 0..100
  /\ BallViews \subseteq View
  /\ BucketViews \subseteq View
  /\ \A v \in BucketViews : v.area <= ViewShare

VARIABLES
  pc,                (* where the loop is: "frame" or a blocking call     *)
  game_state,        (* GameState                                         *)
  view,              (* what the last frame showed                        *)
  motor,             (* the last command the wheels received              *)
  arm,               (* pose and grip of the last arm command             *)
  stopped, stop_confirm_cnt,
  align_cnt, align_off_buf, align_off_head,
  last_offset,
  frames_lost,       (* frame_idx - last_seen_frame                       *)
  frame_idx,
  bucket_lost_cnt, bucket_confirm

alignVars  == <<align_cnt, align_off_buf, align_off_head>>
seenVars   == <<last_offset, frames_lost>>
bucketVars == <<bucket_lost_cnt, bucket_confirm>>
vars == <<pc, game_state, view, motor, arm, stopped, stop_confirm_cnt, alignVars,
          seenVars, frame_idx, bucketVars>>

GameState == {"CHASE_BALL", "FIND_BUCKET", "APPROACH_BUCKET", "DEPOSIT"}
Blocking  == {"braking", "lowering", "closing", "lifting", "kicking",
              "arriving", "releasing"}

Seen(kind, v) == [kind |-> kind, area |-> v.area, offset |-> v.offset]
Empty(kind)   == [kind |-> kind, area |-> 0, offset |-> 0]
Nothing       == Empty("nothing")        (* no ball, or no bucket         *)
NoPicture     == Empty("noframe")        (* the capture failed            *)
Unexamined    == Empty("unexamined")     (* nobody looked at the frame    *)

Ready       == [pose |-> "up", grip |-> "open"]        (* grab_pos()      *)
LoweredShut == [pose |-> "down", grip |-> "closed"]    (* mutant: not opened *)
Lowered     == [pose |-> "down", grip |-> "open"]      (* grab(), 1.      *)

Never == SEARCH_FRAMES + 1
Capped(n, top) == IF n < top THEN n + 1 ELSE top

Init ==
  /\ pc = "frame"
  /\ game_state = "CHASE_BALL"
  /\ view = Nothing
  /\ motor = Standby
  /\ arm = Ready
  /\ stopped = FALSE
  /\ stop_confirm_cnt = 0
  /\ align_cnt = 0
  /\ align_off_buf = [i \in 0..STALL_BUF - 1 |-> 0]
  /\ align_off_head = 0
  /\ last_offset = 0
  /\ frames_lost = Never
  /\ frame_idx = 0
  /\ bucket_lost_cnt = 0
  /\ bucket_confirm = 0

(* The resets the branches share.  The ring buffer's contents stay.        *)
KeepCount    == stopped' = FALSE /\ UNCHANGED stop_confirm_cnt  (* mutant *)
KeepStopped  == UNCHANGED stopped /\ stop_confirm_cnt' = 0        (* mutant *)
ForgetStop   == stopped' = FALSE /\ stop_confirm_cnt' = 0
ResetAlign   == align_cnt' = 0 /\ align_off_head' = 0 /\ UNCHANGED align_off_buf
ForgetBucket == bucket_lost_cnt' = 0 /\ bucket_confirm' = 0
KeepSightings   == UNCHANGED bucket_confirm                        (* mutant *)
ForgetSightings == bucket_confirm' = 0
Coast        == UNCHANGED motor                                    (* mutant *)
HoldStill    == motor' = Standby

(* The top of an iteration: frame_idx++, and the frame the camera gave.    *)
NewFrame(shown) ==
  /\ pc = "frame"
  /\ frame_idx' = (frame_idx + 1) % (2 * SCAN_PERIOD)
  /\ view' = shown

BallNotSeen ==
  /\ frames_lost' = Capped(frames_lost, Never)
  /\ UNCHANGED last_offset

(* cap_ok is false: nothing is sent, the wheels keep their last command.   *)
NoFrame ==
  /\ NewFrame(NoPicture)
  /\ BallNotSeen
  /\ UNCHANGED <<pc, game_state, motor, arm, stopped, stop_confirm_cnt, alignVars,
                 bucketVars>>

-----------------------------------------------------------------------------
(* DEPOSIT *)

(* Whatever the frame shows: standby(), release(), then half a second      *)
(* while the gripper opens.                                                *)
Deposit ==
  /\ game_state = "DEPOSIT"
  /\ NewFrame(Unexamined)
  /\ HoldStill
  /\ arm' = [arm EXCEPT !.grip = "open"]
  /\ pc' = "releasing"
  /\ BallNotSeen
  /\ UNCHANGED <<game_state, stopped, stop_confirm_cnt, alignVars, bucketVars>>

(* grab_pos(), and everything is reset for the next ball but last_offset   *)
(* and the contents of align_off_buf.                                      *)
NextRound ==
  /\ pc = "releasing"
  /\ pc' = "frame"
  /\ arm' = Ready
  /\ game_state' = "CHASE_BALL"
  /\ ForgetStop /\ ResetAlign /\ ForgetBucket
  /\ frames_lost' = Never
  /\ UNCHANGED <<view, motor, last_offset, frame_idx>>

-----------------------------------------------------------------------------
(* FIND_BUCKET *)

Looking(stage, shown) ==
  /\ game_state = stage
  /\ NewFrame(shown)
  /\ BallNotSeen
  /\ UNCHANGED <<arm, stopped, stop_confirm_cnt, alignVars>>

DropLost  == bucket_lost_cnt' = 0                                  (* mutant *)
CountLost == bucket_lost_cnt' = Capped(bucket_lost_cnt, BUCKET_LOST_FRAMES + 1)

(* A sighting that is not confirmed yet: stand still and look again.       *)
FindWait(v) ==
  /\ Looking("FIND_BUCKET", Seen("bucket", v))
  /\ bucket_confirm + 1 < BUCKET_CONFIRM_CNT
  /\ bucket_confirm' = bucket_confirm + 1
  /\ bucket_lost_cnt' = 0
  /\ HoldStill
  /\ UNCHANGED <<pc, game_state>>

(* The last confirming sighting sends nothing to the wheels.               *)
FindConfirm(v) ==
  /\ Looking("FIND_BUCKET", Seen("bucket", v))
  /\ bucket_confirm + 1 >= BUCKET_CONFIRM_CNT
  /\ game_state' = "APPROACH_BUCKET"
  /\ ForgetBucket
  /\ UNCHANGED <<pc, motor>>

FindMiss ==
  /\ Looking("FIND_BUCKET", Nothing)
  /\ ForgetSightings
  /\ CountLost
  /\ motor' = FindBucketDrive
  /\ UNCHANGED <<pc, game_state>>

-----------------------------------------------------------------------------
(* APPROACH_BUCKET *)

ApproachMiss ==
  /\ Looking("APPROACH_BUCKET", Nothing)
  /\ CountLost
  /\ IF bucket_lost_cnt' > BUCKET_LOST_FRAMES
     THEN /\ game_state' = "FIND_BUCKET"
          /\ ForgetSightings
          /\ UNCHANGED motor
     ELSE /\ HoldStill
          /\ UNCHANGED <<game_state, bucket_confirm>>
  /\ UNCHANGED pc

CloseEnoughOver(v) == v.area > 100                                 (* mutant *)
CloseEnough(v)     == v.area >= BUCKET_AREA_DEPOSIT

(* Close enough: a brake pulse, then standby() and DEPOSIT.                *)
ApproachArrive(v) ==
  /\ Looking("APPROACH_BUCKET", Seen("bucket", v))
  /\ CloseEnough(v)
  /\ bucket_lost_cnt' = 0
  /\ motor' = Brake
  /\ pc' = "arriving"
  /\ UNCHANGED <<game_state, bucket_confirm>>

Arrived ==
  /\ pc = "arriving"
  /\ pc' = "frame"
  /\ HoldStill
  /\ game_state' = "DEPOSIT"
  /\ UNCHANGED <<view, arm, stopped, stop_confirm_cnt, alignVars, seenVars,
                 frame_idx, bucketVars>>

ApproachSteer(v) ==
  /\ Looking("APPROACH_BUCKET", Seen("bucket", v))
  /\ ~CloseEnough(v)
  /\ bucket_lost_cnt' = 0
  /\ motor' = BucketDrive(v.area, v.offset)
  /\ UNCHANGED <<pc, game_state, bucket_confirm>>

-----------------------------------------------------------------------------
(* CHASE_BALL, a ball in the frame *)

(* Stopped, and the ball neither too close nor gone: stay stopped.         *)
Parked(v) == stopped /\ v.area >= AREA_STOP_EXIT /\ v.area < AREA_REVERSE

(* Leaving the stopped state forgets the confirmations.                    *)
ConfirmedNone == 0                                                 (* mutant *)
Confirmed == IF stopped THEN 0 ELSE stop_confirm_cnt

SeeBall(v) ==
  /\ game_state = "CHASE_BALL"
  /\ NewFrame(Seen("ball", v))
  /\ last_offset' = v.offset
  /\ frames_lost' = 0
  /\ UNCHANGED <<arm, game_state, bucketVars>>

(* Too close: back off, and leave every counter as it is.                  *)
BackOff(v) ==
  /\ v.area >= AREA_REVERSE
  /\ motor' = ReverseDrive(v.offset)
  /\ stop_confirm_cnt' = Confirmed
  /\ UNCHANGED <<pc, alignVars>>

InReach(v) == v.area >= AREA_STOP /\ v.area < AREA_REVERSE

(* In reach and on the gripper's line: brake; grab when confirmed.         *)
ConfirmStopHasty(v) ==                                             (* mutant *)
  /\ InReach(v) /\ OnTarget(v.offset)
  /\ stop_confirm_cnt' = Confirmed + 1
  /\ ResetAlign
  /\ motor' = Brake
  /\ pc' = "braking"
ConfirmStop(v) ==
  /\ InReach(v) /\ OnTarget(v.offset)
  /\ stop_confirm_cnt' = Confirmed + 1
  /\ ResetAlign
  /\ motor' = Brake
  /\ pc' = IF stop_confirm_cnt' >= STOP_CONFIRM_CNT THEN "braking" ELSE pc

(* In reach but off the line: the offset goes into the ring buffer, and    *)
(* when the last ones show no movement the robot kicks itself loose.       *)
RecordInPlace(v) ==                                                (* mutant *)
  /\ align_cnt' = Capped(align_cnt, STALL_BUF)
  /\ align_off_buf' = [align_off_buf EXCEPT ![align_off_head] = v.offset]
  /\ UNCHANGED align_off_head
RecordOffset(v) ==
  /\ align_cnt' = Capped(align_cnt, STALL_BUF)
  /\ align_off_buf' = [align_off_buf EXCEPT ![align_off_head] = v.offset]
  /\ align_off_head' = (align_off_head + 1) % STALL_BUF

StalledButLast(cnt, buf) ==                                        (* mutant *)
  /\ cnt >= ALIGN_STALL_FRAMES
  /\ \A i, j \in 0..cnt - 2 : buf[i] - buf[j] < ALIGN_STALL_MOVE_PX
Stalled(cnt, buf) ==
  /\ cnt >= ALIGN_STALL_FRAMES
  /\ \A i, j \in 0..cnt - 1 : buf[i] - buf[j] < ALIGN_STALL_MOVE_PX

Align(v) ==
  /\ InReach(v) /\ ~OnTarget(v.offset)
  /\ RecordOffset(v)
  /\ stop_confirm_cnt' = 0
  /\ IF Stalled(align_cnt', align_off_buf')
     THEN motor' = KickDrive(v.offset) /\ pc' = "kicking"
     ELSE motor' = AlignDrive(v.offset) /\ UNCHANGED pc

Chase(v) ==
  /\ v.area < AREA_STOP
  /\ motor' = ChaseDrive(v.area, v.offset)
  /\ stop_confirm_cnt' = 0
  /\ ResetAlign
  /\ UNCHANGED pc

ChaseBall(v) ==
  /\ SeeBall(v)
  /\ IF Parked(v)
     THEN motor' = Standby /\ UNCHANGED <<pc, stopped, stop_confirm_cnt, alignVars>>
     ELSE /\ stopped' = FALSE
          /\ BackOff(v) \/ ConfirmStop(v) \/ Align(v) \/ Chase(v)

-----------------------------------------------------------------------------
(* The blocking calls of a grab and of a kick *)

Blocked(here, next) ==
  /\ pc = here
  /\ pc' = next
  /\ UNCHANGED <<view, seenVars, frame_idx>>

(* The brake pulse is over: standby(), stopped = true, and arm.grab().     *)
BrakeDone ==
  /\ Blocked("braking", "lowering")
  /\ HoldStill
  /\ stopped' = TRUE
  /\ UNCHANGED <<game_state, arm, stop_confirm_cnt, alignVars, bucketVars>>

GrabLower ==
  /\ Blocked("lowering", "closing")
  /\ arm' = Lowered
  /\ UNCHANGED <<game_state, motor, stopped, stop_confirm_cnt, alignVars, bucketVars>>

GrabClose ==
  /\ Blocked("closing", "lifting")
  /\ arm' = [arm EXCEPT !.grip = "closed"]
  /\ UNCHANGED <<game_state, motor, stopped, stop_confirm_cnt, alignVars, bucketVars>>

GrabLift ==
  /\ Blocked("lifting", "frame")
  /\ arm' = [arm EXCEPT !.pose = "up"]
  /\ game_state' = "FIND_BUCKET"
  /\ ForgetBucket
  /\ UNCHANGED <<motor, stopped, stop_confirm_cnt, alignVars>>

KickDone ==
  /\ Blocked("kicking", "frame")
  /\ motor' = Brake
  /\ ResetAlign
  /\ UNCHANGED <<game_state, arm, stopped, stop_confirm_cnt, bucketVars>>

-----------------------------------------------------------------------------
(* CHASE_BALL, no ball in the frame *)

LoseBall ==
  /\ game_state = "CHASE_BALL"
  /\ NewFrame(Nothing)
  /\ BallNotSeen
  /\ UNCHANGED <<pc, game_state, arm, stopped, stop_confirm_cnt, alignVars, bucketVars>>

(* Lost a moment ago: turn to the side it was last seen on.                *)
Search ==
  /\ LoseBall
  /\ frames_lost' <= SEARCH_FRAMES
  /\ motor' = SearchDrive(last_offset)

(* Lost for long, or never seen: turn on the spot, changing direction.     *)
Scan ==
  /\ LoseBall
  /\ frames_lost' > SEARCH_FRAMES
  /\ motor' = ScanDrive(IF frame_idx' \div SCAN_PERIOD = 0 THEN 1 ELSE -1)

-----------------------------------------------------------------------------
FindBucket     == FindMiss \/ \E v \in BucketViews : FindWait(v) \/ FindConfirm(v)
ApproachBucket == ApproachMiss \/ \E v \in BucketViews : ApproachArrive(v) \/ ApproachSteer(v)
Grab           == BrakeDone \/ GrabLower \/ GrabClose \/ GrabLift

Next ==
  \/ NoFrame
  \/ \E v \in BallViews : ChaseBall(v)
  \/ Search \/ Scan
  \/ Grab \/ KickDone
  \/ FindBucket
  \/ ApproachBucket \/ Arrived
  \/ Deposit \/ NextRound

Spec == Init /\ [][Next]_vars

-----------------------------------------------------------------------------
(* Properties *)

PwmValues == -SPEED_SCALE..SPEED_SCALE
MotorCommand == [mode : {"drive", "brake", "standby"}, left : PwmValues, right : PwmValues]

ArmCommand == [pose : {"up", "down"}, grip : {"open", "closed"}]
ViewType == [kind : {"nothing", "noframe", "unexamined", "ball", "bucket"},
             area : 0..100, offset : Int]

(* Every variable keeps its type, each counter its bound.                  *)
TypeOK ==
  /\ pc \in {"frame"} \cup Blocking
  /\ game_state \in GameState
  /\ view \in ViewType
  /\ motor \in MotorCommand
  /\ arm \in ArmCommand
  /\ stopped \in BOOLEAN
  /\ stop_confirm_cnt \in 0..STOP_CONFIRM_CNT
  /\ align_cnt \in 0..STALL_BUF
  /\ align_off_buf \in [0..STALL_BUF - 1 -> Int]
  /\ align_off_head \in 0..STALL_BUF - 1
  /\ last_offset \in Int
  /\ frames_lost \in 0..Never
  /\ frame_idx \in 0..2 * SCAN_PERIOD - 1
  /\ bucket_lost_cnt \in 0..BUCKET_LOST_FRAMES + 1
  /\ bucket_confirm \in 0..BUCKET_CONFIRM_CNT - 1

(* At the top of the loop, "stopped" says exactly that a ball is being     *)
(* delivered: so the branch of CHASE_BALL for a stopped robot, with its    *)
(* hysteresis at AREA_STOP_EXIT, is never taken (tennis.cpp:565).          *)
StoppedIffDelivering ==
  pc = "frame" => (stopped <=> game_state # "CHASE_BALL")

(* What the branches rely on without testing it: which stage a blocking    *)
(* call belongs to, where the arm is, that the wheels got standby before   *)
(* any step that a stage change may follow, and that the confirmations of  *)
(* a stop have not all been made yet.                                      *)
BlockingFollowsStage ==
  /\ pc \in {"braking", "lowering", "closing", "lifting", "kicking"} =>
       game_state = "CHASE_BALL"
  /\ pc = "arriving" => game_state = "APPROACH_BUCKET"
  /\ pc = "releasing" => game_state = "DEPOSIT"

Grabbing == {"lowering", "closing", "lifting"}

ArmFollowsStage ==
  /\ arm.pose = IF pc \in {"closing", "lifting"} THEN "down" ELSE "up"
  /\ arm.grip = IF pc = "lifting" \/ (game_state # "CHASE_BALL" /\ pc # "releasing")
                THEN "closed" ELSE "open"

StoppedFollowsStage == stopped <=> (game_state # "CHASE_BALL" \/ pc \in Grabbing)

RestBeforeChange ==
  /\ pc \in Grabbing => motor = Standby
  /\ game_state = "FIND_BUCKET" /\ bucket_confirm > 0 => motor = Standby
  /\ game_state = "APPROACH_BUCKET" /\ bucket_lost_cnt > 0 => motor = Standby
  /\ pc = "arriving" => motor = Brake
  /\ game_state = "DEPOSIT" => motor = Standby

StopUnconfirmed ==
  game_state = "CHASE_BALL" /\ pc \in {"frame", "kicking"} =>
    stop_confirm_cnt < STOP_CONFIRM_CNT

RoundInv ==
  /\ BlockingFollowsStage /\ ArmFollowsStage /\ StoppedFollowsStage
  /\ RestBeforeChange /\ StopUnconfirmed

(* The stage of the match changes only when the last command the wheels    *)
(* got is standby.  FindConfirm and the last ApproachMiss send no command  *)
(* themselves: they rely on the one an earlier frame sent, through any     *)
(* number of NoFrame iterations in between.                                *)
StageChangesAtRest == [][game_state' # game_state => motor' = Standby]_vars

(* The loop implements what the robot promises.                            *)
Delivery == INSTANCE BallDelivery WITH
  Seeking <- "seeking", Carrying <- "carrying", Arrived <- "arrived",
  Rolling <- "drive", Braking <- "brake", Resting <- "standby",
  stage <- CASE game_state = "CHASE_BALL" -> "seeking"
             [] game_state = "DEPOSIT" -> "arrived"
             [] OTHER -> "carrying",
  wheels <- motor.mode,
  lowered <- arm.pose = "down",
  closed <- arm.grip = "closed"

Delivers == Delivery!Spec

=============================================================================

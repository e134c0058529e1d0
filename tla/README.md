# Verification of the aka0 tennis robot

aka0 is the program of a small wheeled robot that plays a ball collecting match
on its own: it looks for a tennis ball with a camera and a YOLO network, drives
up to it, grabs it with an arm, looks for a red bucket, drives up to that and
lets the ball go. It runs on an SG2002 board as one process with one thread
(`src/tennis.cpp`), commands the wheels through a UART to an ESP32-C3 chassis
controller and the arm through a second UART to bus servos.

This directory holds TLA+ modules of that program, the TLC configurations that
check them on small instances, and TLAPS proofs of the most important results
for every value of the thresholds.

    tlc -config game_loop.cfg MCGameLoop.tla       # a run, see the table below
    tlapm GameLoop_proofs.tla                      # and the other *_proofs modules

## Inventory

| component | code | state | operations | modelled in |
|---|---|---|---|---|
| match state machine | `tennis.cpp` 341-692 | `game_state`, stop confirmations, alignment counter and ring buffer, last sighting, bucket counters | one iteration per camera frame, one branch per iteration; pulses, grab and release block | `GameLoop` |
| steering | `tennis.cpp` branches, `motor.cpp`, `to_pwm` | none, `min_speed_` | area and offset to two speeds, dead zone map, PWM scale | `Steering` |
| startup, signals, shutdown | `tennis.cpp` 126-156, 242-304, 694; `vi_capture.cpp` 25-108, 192; `sample_common_platform.c` 19-84 | global pointers, signal dispositions, resources held | install handlers, open camera and model, cleanup, destructors | `Lifecycle` |
| UART motor driver | `uart_motor_driver.cpp` | the port | frames out, replies in (only while it is constructed) | `UartLink`, commands in `Steering` |
| arm | `arm.cpp` | the port; the servos hold the pose | `grab`, `release`, `grab_pos` | `Arm`, steps of `GameLoop` |
| UVC capture | `uvc_capture.cpp` | V4L2 buffers, queue | open, close, getFrame | `UvcCapture`; open/close in `Lifecycle` |
| VI capture | `vi_capture.cpp` | VI, SYS, VPSS group, frames | init, deinit, initVpssResize, deinitVpssResize, getFrameAsBGR, getFrameAsNV21 | `ViFrame`; init/deinit in `Lifecycle` |
| ESP32 capture | `esp32_capture.cpp` | device, buffer | init, deinit, getFrameAsBGR | like UVC in `Lifecycle` |
| YOLO detection | `detect.cpp`, `tennis.cpp` 507-551 | none | threshold, NMS, two corrections, choice | `Detect` |
| bucket detection | `bucket_detect.cpp` | none | share of the frame and centre of the largest red region | a view of `GameLoop` |
| PWM motor driver | `pwm_motor_driver.cpp` | sysfs channels | drive, brake, standby | not modelled (`tennis` does not use it) |
| logger, scripts, bench programs, `process.py` | | | | not modelled |
| vendor sensor library | `sensor/` | | samples, headers, binaries | its signal handlers only |

`Robot` composes `GameLoop`, `UvcCapture` and `Arm` with a plant.

How they interact. `main()` calls everything; there is no second thread. An
iteration of the loop asks the camera for a frame and waits for it (300 ms with
UVC, 3 s with VI). With a frame it either runs the network (CHASE_BALL) or the
colour detection (the bucket stages), sends the wheels one command, at most, and
starts over. The chassis controller keeps the last command until the next one:
an iteration that sends nothing leaves the robot doing what it did. The brake
pulses, the kick and the arm's sequences are loops and sleeps inside one
iteration, up to 3.7 s, in which no frame is looked at. SIGINT and SIGTERM run a
handler on top of whatever `main` is doing; it stops the wheels, closes the
camera and the model through global pointers, and calls `exit`.

What is hard here: pictures that are older than the commands they answer,
an arm that moves by the clock, writes and vendor calls whose results are ignored; decisions from counters that several branches set and reset,
over frames that may be missing; stage changes that send no command and rely on
an earlier one; the ring buffer that is never cleared; integer truncation and
the dead zone map between a control law and the wire; handlers that nest, that a
vendor library replaces, and that call functions which are not safe there;
resources that must go in an order. `PROJECT.json` lists each of these hazards at
its line.

What makes each part correct: the wheels rest whenever the stage changes and
whenever the arm is down; the gripper is closed exactly from the grab to the
release; a grab, a kick and an approach have the evidence the code asks for; a
frame stream that shows what is needed leads to deliveries, a stuck ball is
kicked, a lost bucket is looked for; commands turn towards the target; the
program ends with the wheels at rest and its resources given back in order; each
frame of the camera is given back once; a wheel command arrives at both
wheels or is not mistaken for another; the ball that is chosen is the one that
is seen best, and the one the gripper closes on.

## Modules

### Steering, SteeringSweep

`Steering` is the arithmetic of every command: `base_speed`, the turn bias
(`TurnBias`, a float cut to int, so `TruncDiv`), the choice of a branch
(`ChaseDrive`, `BucketDrive`, `ReverseDrive`, `AlignDrive`, `KickDrive`,
`SearchDrive`, `ScanDrive`, `FindBucketDrive`), `Motor::drive`'s dead zone map
(`DeadZoneMap`) and `to_pwm`. A command is what the controller received:
`[mode, left, right]` with PWM values. Areas are whole percents, which is how
finely the thresholds are written; offsets are pixels. `min_speed_`, the gripper's
offset and half the width of the picture are constants of the module.

`SteeringSweep` walks over all areas 0..100 and all offsets of a 640 pixel frame:
its two variables are the ball's (or bucket's) place in the picture, and its
steps move it one percent nearer or one pixel sideways, so that properties can
compare a command with the one for the place before.

### GameLoop

One action per branch of the loop. `pc = "frame"` is the top of an iteration;
`"braking"`, `"lowering"`, `"closing"`, `"lifting"`, `"kicking"`, `"arriving"`,
`"releasing"` are the blocking calls, a step for each command they send:
`arm.grab()` is three. Variables carry the code's names. `frames_lost` stands for
`frame_idx - last_seen_frame`, with `Never` for -999; `motor` and `arm` are the
last command each device got, and `view` records what the last frame showed. What
a frame shows is any member of `BallViews` (the best detection) or `BucketViews`
(what `detect_bucket_bgr` returns), nothing, or no frame at all. `ViewShare` is the
percentage of the 640x640 frame the camera's picture fills: 100 with VI and ESP32,
75 with UVC, whose 640x480 picture `letterbox()` pads. No bucket fills more.

A counter that grows without bound in the code is cut where no test can tell the
values apart: `frame_idx` at twice the scan period (`% (2 * SCAN_PERIOD)`),
`frames_lost` at `SEARCH_FRAMES + 1`, `align_cnt` at `STALL_BUF`, `bucket_lost_cnt`
at `BUCKET_LOST_FRAMES + 1`. The integer overflow of `frame_idx` after years of
frames is not modelled.

`BallDelivery` is the abstract specification: three stages, wheels that roll,
brake or rest, a gripper and an arm, no camera, no counter. `GameLoop!Delivers`
instantiates it with CHASE_BALL as seeking, FIND_BUCKET and APPROACH_BUCKET as
carrying and DEPOSIT as arrived.

`GameLoopLiveness` states what must eventually happen; `GameLoopHistory` adds
variables that remember what the camera has shown and compares the code's
counters with them. `MCGameLoop` gives the views.

### Lifecycle

One thread that runs `main` up to the loop, and a stack of handlers on top of it.
`handler` is the disposition of each signal, which `InstallHandlers` sets and
`OpenCamera` replaces in the VI build, because `SAMPLE_PLAT_SYS_INIT` does. A handler
blocks its own signal only (`Blocked`), so the other one can nest in it.
`cleanup_and_exit()` is a step into each call it makes and one out of it again
(`StepReturns`), between which a signal may come; so is the vendor's handler. `inCall`
says that `main` is inside `malloc`, `free` or `printf`. A handler that has caught
`main` there, or the other signal's handler inside a call that is not async-signal-safe
(`Unsafe`, `Caught`), may wait in its own call for a lock nobody releases (`MayHang`).
What a call gives back is given back as it begins. The vendor's handler knows of VI and
SYS only: `StepVendor` takes SYS down with the VPSS group still up, and records that as
`StepCamera` and `Destroy` would. The loop itself is reduced to commands that leave the
wheels turning or still.

### UvcCapture, Arm, Robot

`UvcCapture` is the driver's queue: how many buffers are empty, and the pictures in
the filled ones, oldest first. When all are filled the driver drops new pictures,
so after a grab the loop sees the oldest ones first. A buffer whose `VIDIOC_QBUF`
fails is in neither set again, because `getFrame()` does not look at the result.
`age` is a history variable: calls of `getFrame()` since the picture was taken.

`Arm` has three servos, each with the pulse it came from, the one it goes to and
the ticks it needs. `grab_down`, `grab_close`, `grab_lift`, `release` and `grab_pos`
are the groups of commands between two sleeps of `arm.cpp`.

`Robot` runs `GameLoop`'s actions on the pictures of `UvcCapture` and moves `Arm`'s
servos, in ticks of 100 ms. `TakeFrame` dequeues a picture and starts the inference,
the branch is taken `think` ticks later (`SeesBall`, `SeesNoBall`, `SeesBucket`,
`SeesNoBucket`, `LetGo`), and each pulse and sleep occupies the program while `Tick`
moves the rest. What the pictures show follows from the commands through a plant,
which is a guess and not read from the code: a pivot moves the picture by `px`
pixels a tick, driving changes the area by a percent a tick, brake and standby
stop at once, sticky wheels do not turn below a PWM of 23. The gripper takes what is
within `GRIP_ZONE` pixels of its line and at most `REACH_ZONE` percent of area nearer or
farther than the loop stops for. `open()` takes the size its driver settles on, and
`letterbox()` pads what is not square, so a plant has a `share`: how much of the frame
is picture, 75 percent for the 640x480 the code asks for, 100 for a square sensor. No
bucket seen is larger (`Padded`). The arm's port is assumed open. A fault is a picture that does not decode, a
buffer that is not taken back, a detection that is missed, or an outage of the camera;
`MaxFaults` bounds them.

### ViFrame

One action per vendor call of `getFrameAsBGR`, `getFrameAsNV21` and
`initVpssResize`, with every failure. `build` is `USE_VPSS_RESIZE`, `entry` the
function. The VPSS scales in order and keeps one result; a call that has timed out
leaves its frame in the VPSS, where the next call finds it. The descriptor that
`CVI_VPSS_GetChnFrame` failed to fill is undefined: the outcomes are a crash, or the
values the call before left on the stack; that frame is then released a second time.
`vpssHeld` is the balance of frames got and releases called, below zero by `wild`, the
calls that went on like this; what the driver does with a release too many is not
modelled beyond the count. `getFrameAsBGR`'s branches for BGR and NV21
output of the VPSS make the same calls and are one here.

### UartLink

The wheels' UART byte by byte. `send_frame` writes a frame whole or cut at any byte;
`Feed` is `recv_frame` as a state machine over one byte, used for the constructor and,
as an assumption, for the controller, whose firmware is not in the repository. The
receiver keeps a running checksum, how much of the payload has come, and its first
four bytes. `recv_frame` does not compare LEN with its 32 bytes: of a longer frame it
reads 32, its checksum takes in what lies behind the buffer, and so it may come out right
or not (`Taken`). A frame it accepts is copied, LEN bytes of it, over the 8 bytes of the
constructor: a longer one ends the model's constructor as `"overwritten"`, or it goes on.
Bytes of one write
follow each other faster than any receiver's timeout; between writes the line may
or may not be silent for longer.

### Detect

From the output tensor to the ball the chase steers for: `getDetections`' loop over
the rows, `NMS`' sort (any order of equal scores), its two loops pair by pair and its
erasing loop step by step, `correctYoloBoxes`, the second correction in `main`, and
the choice. Boxes are corners, where the code computes corners from middle and size.
`id` is a history field: the row a detection came from.

## Runs

| run | specification | shows |
|---|---|---|
| `steering` | `SweepSpec` | no branch turns away from its target; a computed turn reaches the wires; nearer is never faster |
| `steering_dead_zone` | `SweepSpec` | violated: the chase corrects nothing up to 53 pixels off the middle |
| `game_loop` | `FairHSpec` | types, `RoundInv`, "stopped" means delivering, stages change at rest, `BallDelivery` implemented; a grab, a kick, an approach have the evidence the code counts; deliveries go on when the frames cooperate, a stall is kicked, a lost bucket sought, a full bucket ends the approach |
| `uvc_full_bucket` | `FairHSpec`, `ViewShare = 75` | violated: with the UVC picture the approach never ends |
| `confirm_in_a_row` | `HSpec` | violated: the confirming frames need not be in a row |
| `robot` | `RobotSpec` | the ball is in the gripper when the bucket is sought; the sleeps suffice for the servos; pictures are recent; with few buffers the last confirming picture is taken at rest; rounds go on for ever if the camera's picture can show the bucket large enough |
| `lifecycle` | `FairLifeSpec` | both builds: where the program kept its own handlers a signal brings the wheels to rest and they are so when it ends, a handler that hangs included; only the vendor's handler takes SYS down under VPSS; one signal frees the model once; the program ends unless a signal catches it in a call that is not async-signal-safe |
| `vi_wheels` | `LifeSpec` | violated: in the VI build the vendor's handler leaves the wheels turning |
| `vi_frame` | `ViSpec` | VI frames and mappings are given back exactly once on every path, VPSS frames too but for one release too many whenever the descriptor was not written; the VPSS group exists all or not at all; a lag is explained by timeouts; `getFrameAsNV21` and the software build return success only with a frame |
| `vi_failed_resize` | `ViSpec` | violated: `getFrameAsBGR` returns success without a frame |
| `uart_link` | `FairLinkSpec` | four whole writes of a command reach both wheels after any cut; no frame made of pieces moves a wheel; once noise is over the constructor ends, or an answer has overwritten it |
| `detect` | `DetectSpec` | NMS loses no ball and keeps no two of one; its count is right; without padding at the sides the choice is the ball seen best |

Bounds. `steering` covers every offset of the frame and every percent of area. In
the runs of the loop the thresholds are shrunk, never their relations:
three confirming frames instead of four, a stall after two of three
slots instead of twenty of thirty, one or two frames until a search or a bucket
is given up. Every counter then passes its threshold, wraps and is reset on every
branch within a few steps, and ball and bucket views lie on both sides of the
area and offset thresholds, on and next to the gripper's line, with offsets that
are and are not within `ALIGN_STALL_MOVE_PX` of each other. That the invariants do
not depend on the shrunk values is what the proofs show. `Lifecycle` needs no bound:
a handler never returns, so each signal comes at most once.

`robot`: four plants (a slow network on wheels that turn at once, a fast one with
and without sticky wheels, and with sticky wheels both a picture that fills the frame
and a 640x480 one, whose approach never ends: `RoundsGoOn` leaves it out and the
invariants do not), balls that make the loop pass through chase, alignment
and both sides of the gripper's line, two and four buffers, one fault, an outage of
0.8 s, `STOP_CONFIRM_CNT` and all speeds, sleeps and pulses as in the code; the
thresholds of the alignment and the search are shrunk. `vi_frame`: two frames in the VPSS, three
of VI, three timeouts and two refused releases: more than one of each, so that the
effects add up. `uart_link`: one cut write at any byte of any frame, two speeds,
commands without bound, noise of the two bytes that start a frame (the others do not
leave the wait for one), a deadline of two waits instead of 50. `detect`: all outputs
of three boxes out of twelve, which overlap in a chain, reach over the edges or lie
in the padding; lengths in units of 4 pixels, so that 160 stands for 640; four
formats of the camera's picture, one higher than wide. Three boxes are the smallest number with a
suppressed box that would have suppressed another.

What the runs say of the numbers. `GRIP_ZONE` is 26 pixels in `robot`: 20 of
`STOP_CENTER_ZONE`, and 6 because one missed detection lets the search pivot push the
ball off the line between the last confirmation and the brake. With the four buffers
`open()` asks for, the four confirming pictures may all date from before the robot
stopped (`LastLookAtRest` needs `STOP_CONFIRM_CNT` greater than the buffers and one).
`REACH_ZONE` is 0: the ball is where the loop would stop for it.
From `px * think = 12` on, the fixed pivot speeds overshoot the stop zone for ever and
`RoundsGoOn` fails. In `uart_link`, `REPEATS = 4` is needed and enough: a frame cut after its CMD
makes the next AA its LEN, and 34 bytes of the following frames are swallowed before the receiver starts
over; with 3 the property is violated. The brake pulse repeats its command some 17
times; the single `standby()` after it does not.

Fairness. `FairHSpec` is weak fairness of the whole loop: every call
in it returns. `UvcCapture::getFrame` waits at most 300 ms, `CVI_VI_GetChnFrame` 3 s,
pulses and sleeps are finite, and UART writes do not block (motor) or drain at a
fixed rate (arm). Two vendor calls are assumed to return: `CVI_VPSS_SendFrame` is
called without a time limit, and the ESP32 camera's ioctl has the driver's. Nothing
is assumed of the camera: each liveness property of `game_loop` is conditional on
what it shows. `RobotSpec` has weak fairness of any step: time passes or the program
runs, and there is always one of both. `FairLifeSpec` assumes that startup,
destructors and a handler's steps are taken, except the step of a handler that waits
for a lock; that `main` leaves each call it enters; and, strongly fair because
such calls come between, that startup goes on. The loop need not end. `FairLinkSpec` assumes that `write()` returns, that bytes on the
line are read, and that `select()` returns after its time; that noise ends is a
premise of `ConstructorEnds`.

## Proofs

`GameLoop_proofs` proves, for all thresholds and all sets of views that satisfy
`GameAssumption` and `SteeringAssumption`:

- `Invariant`: `IInv == TypeOK /\ RoundInv` is inductive. `TypeOK` by
  itself is not inductive. It does carry over that no index leaves `align_off_buf`
  and that every command's PWM value is between -150 and 150 (`DeadZoneMapRange`,
  `PwmRange` and the lemmas on each drive); that `stop_confirm_cnt` stays below its
  limit needs `StopUnconfirmed`, and that needs `StoppedFollowsStage`, to know that
  a chase never starts stopped. `RestBeforeChange`
  records the standby command that an earlier frame sent; it is where
  `BUCKET_CONFIRM_CNT >= 2` and `BUCKET_LOST_FRAMES >= 1` are needed: with a single
  confirming frame FIND_BUCKET would end with the wheels turning.
- `TypeCorrect`, `RoundCorrect`, `StoppedCorrect`: its parts, and that the stopped
  branch of CHASE_BALL (`tennis.cpp` 565-577) is dead code.
- `StageChangeCorrect`: the action property, from the invariant.
- `DeliveryImplemented`: `Spec => Delivers`. Every step of the loop is a step of
  `BallDelivery` or a stutter: `SteerSeeking` and `SteerCarrying` for all that steers,
  `GrabSimulated` and `DeliverySimulated` for the rest.
- `SmallPictureNeverDeposits`: if `ViewShare < BUCKET_AREA_DEPOSIT`, as in the UVC
  build, DEPOSIT is never reached. The run `uvc_full_bucket` shows the same on an
  instance.

`GameLoopHistory_proofs` proves `GrabEarned`, `KickEarned` and `BucketDebounced` for
every threshold. `HistInv` says that neither counter is ahead of the frames it stands
for, and, for the stall test, that the slots it scans hold the trail: before the ring
buffer is full its head is at `align_cnt` and slot `k - 1` holds the k-th offset,
afterwards the oldest offset is at the head. This is where it matters that every
reset moves `align_off_head` back to 0 together with `align_cnt`: the slots keep what
older frames wrote.

`ViFrame_proofs` proves `ViGivesBack`, `ViGroupAllOrNothing`, `ViSuccessHasFrame` and
`ViLagNeedsTimeouts` for any pool of VI, any room in the VPSS and any number of
timeouts and refusals. `ViInv` says for each call what is still to be given back (a
release for each `CVI_VPSS_GetChnFrame` that was passed, with a frame or without), and
how far `initVpssResize()` has come. `LagInv` adds that the frames in the VPSS and its
result are in the order they were sent in, and that none has been passed by more
frames than there were timeouts; the frame of the running call counts only once its
own timeout has happened (`Passed`).

`SteeringSweep_proofs` proves `SteeringTurnsTheRightWay` and `SteeringSlowsDown` for
every dead zone, stop offset and picture width, where the runs sweep one picture with
`min_speed_` 15. The argument is monotony: the dead zone map and the PWM scale never
swap two speeds (`PwmMonotone`), so a bias that has the sign of the offset
(`TurnBiasSide`) cannot turn the robot the wrong way. `SteeringBiasArrives` needs more:
a bias makes the wheels' speeds differ by two, and two speeds that differ by two
differ on the wire (`PwmTwoApart`), as long as `min_speed_` is at most 50. At 51 the
speeds 1 and 3 come out the same, so the bound is sharp; speeds that differ by one
may come out the same even at 15.

`Robot_proofs` proves `RobotPicturesAreRecent` for every plant, any number of buffers
and any number of faults. The inductive invariant `QueueInv` adds that the buffers,
filled and empty, are together no more than were granted: so a new picture finds a
place in the queue that is no further back than their number. The same module carries
the loop's theorems over to the robot. `RobotIsALoop`: every step of `Robot` is a step
of the loop for some view, or leaves the loop alone; so `RobotInv`, the loop's
invariant with `QueueInv` and the types of the floor (`WorldInv`), is inductive. From
it follow `RobotRoundCorrect`, `RobotStageChangeCorrect`, `RobotDelivers` (the robot
implements `BallDelivery`) and `RobotImplementsLoop` (it implements `Spec`, with a
camera that may show every view). `RobotArmKeepsPace` assumes
`SERVO_TICKS <= SleepClose`: no servo takes longer than the shortest sleep after a
command of `grab()`. `set_angle()` gives a servo 1000 ms and that sleep is 1000 ms
(`arm.cpp:153`), so there is no slack. Its invariant `PaceInv` says where each servo is
bound for at each place of the loop, and that no servo needs more ticks than the
loop still sleeps.

The second half of `Robot_proofs` is about the one promise that no single component
makes: that the robot which looks for a bucket has the ball (`CarriesBall`). The code
has no sensor for it; it follows from pictures that are up to a queue old, a brake, and
sleeps. Three theorems say when.

- `RobotCarriesBall`: for every plant, queue, and any number of faults, if
  `GripSuffices`, that is, if the gripper forgives, to the side and in depth, what the
  wheels can do in the time of a queue and one iteration, and
  `SERVO_TICKS \in 1..SleepClose`. For the plants of the run that would be a `GRIP_ZONE` of
  80 and a `REACH_ZONE` of 10.
- `RobotLastLookAtRest` (the property `LastLookAtRest`): if nothing went missing and
  `STOP_CONFIRM_CNT` is more than the buffers and one, the last confirming picture was
  taken at rest. The plant needs room to stop (`RoomSuffices`): in the time of a queue
  and two iterations the ball comes no nearer than from `AREA_STOP` to `AREA_REVERSE`,
  and in that of a queue and one it does not swing from the stop zone out of the picture.
- `RobotCarriesBallUnlessMissed`: under the same hypotheses a gripper as wide as
  `STOP_CENTER_ZONE`, with any `REACH_ZONE`, is enough for `CarriesBall`. The run's
  constants satisfy these hypotheses (not `GripSuffices`, whose gripper is wider), with
  two buffers; with four, or after a fault, its 26 pixels are what TLC finds enough.

`CarriesBall` is far from inductive. `BaseInv` is what the three arguments share:
`RobotInv` and `PaceInv`; `ClockInv`, how long the program is busy at each place, and
that it brakes before it grabs; `PictureInv`, that ages stay below the number of
buffers; `HandInv`, that the gripper's servo, the scene and `held` agree; `OrderInv`,
that the pictures of what there is now are the youngest of the queue, and the whole
queue from the first of them that is acted on; and `NearInv`, the heart of it: a
picture of the present ball is off what there is now, and what every younger picture
shows, by no more than the ticks the wheels may have rolled since (`Spent`, counted in
laps: an iteration rolls for `think` ticks or for a kick). `OverBall` and `GripInv` then
carry the ball from the last look to the closed gripper: the gripper shuts in the last ticks
of `grab()`'s sleep, while the arm is down and the wheels rest.

For the sharper two, `FlowInv` says that while nothing goes missing every buffer is
empty or filled and a wait for a picture lasts a tick, so `getFrame()` never times out.
`ForwardInv` says how near a ball on the floor can be while the robot still drives
forward: a queue and an iteration past `AREA_STOP`. Hence `KeepInv`: a ball that once
was not too close never becomes so. Without it confirmations need not be in a row even
when nothing is missed, for the branch for a ball too close (`tennis.cpp` 580-588) keeps
`stop_confirm_cnt`. `ConfirmInv` counts: while the loop confirms, the wheels are at rest, the ball stays in the
picture, and of the pictures that wait the i-th was taken at rest as soon as
`i + stop_confirm_cnt` exceeds the buffers and one. So the picture that completes
`STOP_CONFIRM_CNT` was.

`Detect_proofs` proves what NMS promises, for every output of the model, every number
of boxes and every threshold: `DetectNoTwoOfOneBall`, `DetectNoBallIsLost`,
`DetectCountIsLength`. The invariant `DetInv` says, for each place of the two loops,
what has been compared: the survivors before `i` are pairwise of different balls, a
suppressed one names its suppressor, which is alive and at least as sure (this needs the sort),
and `new_count` is the number of those alive. The erasing loop keeps it because
what is before the iterator is alive and the rest keeps its order.
`DetectChosenIsSeenBest` goes on from there: `ChoiceInv` says that a box follows its
row of the output through both corrections, and `AreaIsSeen` that the area `main`
compares is then what the picture shows of the box, or negative where it shows
nothing: boxes are cut to the picture on two sides at a time, so one that lies in the
padding has a negative height but never a negative width. It assumes a picture as wide
as the model's input with as many rows of padding above as below (`AsWide`: 640 by 480
in 640 by 640), and boxes that span a column of the input. The property leaves pictures
higher than wide out (`NoSidePadding`), for it is false of them: a box wholly in the
padding on the left has a negative width, and if it is the only one `main` steers for
it. Formats that are wide but not as wide as the input stay with the run.

`Lifecycle_proofs` proves `LifeWheelsRest`, `LifeVpssBeforeSys` and
`LifeModelFreedTwiceOnlyNested` from `LifeInv`: what each handler on the stack may
still do (a cleanup past its VPSS step has none left, the wheels are still once any
handler is past its first step), that no two handlers on the stack have the same
signal, and that a model which is known but no longer held was freed by a handler
that is still there. `LifeVpssBeforeSys` says who may take SYS down under
VPSS: the vendor's handler alone, which is still on the stack when it has.
`LifeTypeCorrect` adds that the stack is never deeper than three:
the cleanup after a failed model load is always at its bottom (`CleanupAtBottom`), and
above it there is one handler of each signal (`ThreeDeep`).

`UartLink_proofs` proves `LinkInventsNothing` (the property `NothingInvented`) for all
speeds between -150 and 150, any number of cut writes and any noise; only CMD_CONFIG's
payload is that of the code (`TheWheels`). A frame that is cut leaves the controller in the
middle of it, and the checksum so far is then one of a few values (`Hopeless`, by how
many bytes are missing). What follows begins like a frame, `AA 55 CMD LEN` and a motor,
and whatever it is, that beginning keeps the checksum among them, and its next byte is
never the right one (`StaysHopeless`, `NeverRight`). So it matters that no frame is
longer than nine bytes, that no frame's last byte is `AA`, and which commands there
are. `LinkInv` says of every byte on its way that the controller reads it in step with
the frame (`InStep`), looks for a beginning (`Adrift`), or is in a frame it will refuse
for its checksum (`Doomed`), or in one whose LEN is past the buffer (`Swallows`): that
one it may accept, and it obeys nothing in it, for its first payload byte is no motor
(`Stray`) and its CMD no reset. That no CMD is one rests on `LastWord`: nothing is
written after the destructor's.

`CommandsArrive` (the property `CommandsGetThrough`) adds to `LinkInv` how long that can
last. A controller that is out of step reads at most so many bytes before it looks for
a beginning again: `Owed`, never more than 35 (`OwedAtMost`), and every byte it reads is
one less (`OwedLess`), while what looks like a beginning inside a frame leads nowhere
(`FalseStart`). The two frames of a command are twelve bytes or more, so after three
whole commands nothing is owed (`Debt`) and the fourth is read in step: `GetInv` says so
between frames and of every byte on its way (`OnTime`). Hence its one hypothesis besides
`TheWheels`, `REPEATS >= 4`, the value of the run. It is the least that will do: with
three TLC finds a cut after which a wheel keeps its old speed. The destructor's reset
is not repeated and is only promised to a controller that looked for a beginning.

The assumptions are what the constants in the code satisfy, as weak as the proofs
allow. Only model-checked:

- liveness, which the prover cannot do under fairness: `CooperationDelivers`,
  `StallIsBroken`, `LostBucketIsSought`, `FullBucketEndsApproach`,
  `QuietSignalEndsProgram`, `SignalStopsWheels`, `RoundsGoOn`, `ConstructorEnds`.

Every safety invariant and action property of the passing runs is stated by a theorem.
Those of `Robot` on the ball keep hypotheses on the plant, because they depend on it:
confirmations need not be in a row, so a plant that carries the ball out of the
gripper's zone between two of them, after a missed picture, breaks both `CarriesBall`
and what `LastLookAtRest` stands for.

## Not modelled

The network, dequantisation, the colour segmentation and their numbers; JPEG
decoding; the format negotiation of `UvcCapture::open`; a UART that did not open;
the arm's commands that only the bench programs send; the PWM motor driver, which
`tennis` does not use; what goes on after an answer has overwritten the constructor's
array, or what a VPSS frame that is released twice does to the driver; a `close()` that
a signal interrupts half-way, whose nested `close()` is one step with what it frees;
steps of the wall clock; wording of logs; build and init scripts. The chassis, the servos, the V4L2 driver, VI and VPSS and the controller's
firmware are external: they are modelled from how the code uses them.

By lines most of the repository is third-party: `sensor/` holds the headers of
Linux, of the vendor's SDK and of the sensor samples, some 230,000 lines of
declarations, register layouts and a font table without behaviour of this program. The
robot's own code is under 3,000 lines, and the modules above cover the parts of it
that keep state.

## Plan

1. `ESP32 capture` with its buffer, if its driver's behaviour becomes known.
2. A measured plant for `Robot`: the turn rate of the chassis decides whether the
   fixed pivot speeds converge.

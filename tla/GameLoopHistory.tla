-------------------------- MODULE GameLoopHistory --------------------------
(***************************************************************************)
(* GameLoop with variables the code does not have, that remember what the  *)
(* camera has shown: the loop's own counters are checked against them.     *)
(***************************************************************************)
EXTENDS GameLoop, Sequences

VARIABLES
  targetRun,     (* frames in a row, the last one included, that showed    *)
                 (* the ball in reach and on the gripper's line            *)
  roundTargets,  (* such frames since the round began                      *)
  bucketRun,     (* frames in a row that showed a bucket while looking for *)
                 (* one                                                    *)
  trail          (* offsets of the last STALL_BUF aligning frames since    *)
                 (* the ball was last on the line, out of reach or kicked  *)

history == <<targetRun, roundTargets, bucketRun, trail>>
hvars == <<vars, history>>

HInit ==
  /\ Init
  /\ targetRun = 0 /\ roundTargets = 0 /\ bucketRun = 0
  /\ trail = <<>>

Captured == pc = "frame" /\ view'.kind # "noframe"
BallShown == Captured /\ view'.kind = "ball"
TargetShown == BallShown /\ InReach(view') /\ OnTarget(view'.offset)
OffTargetShown == BallShown /\ InReach(view') /\ ~OnTarget(view'.offset)

Observe ==
  /\ targetRun' = IF TargetShown THEN Capped(targetRun, STOP_CONFIRM_CNT)
                  ELSE IF Captured THEN 0 ELSE targetRun
  /\ roundTargets' = IF TargetShown THEN Capped(roundTargets, STOP_CONFIRM_CNT)
                     ELSE IF pc = "releasing" THEN 0 ELSE roundTargets
  /\ bucketRun' = IF game_state # "FIND_BUCKET" THEN 0
                  ELSE IF ~Captured THEN bucketRun
                  ELSE IF view'.kind = "bucket" THEN Capped(bucketRun, BUCKET_CONFIRM_CNT)
                  ELSE 0
  /\ trail' = IF OffTargetShown
              THEN LET longer == Append(trail, view'.offset)
                   IN  IF Len(longer) > STALL_BUF THEN Tail(longer) ELSE longer
              ELSE IF \/ TargetShown
                      \/ BallShown /\ view'.area < AREA_STOP
                      \/ pc \in {"kicking", "releasing"}
                   THEN <<>>
              ELSE trail

HNext == Next /\ Observe

HSpec == HInit /\ [][HNext]_hvars

(* The loop never waits without a limit: every capture call times out,     *)
(* every pulse and every usleep() ends, so an iteration always follows.    *)
(* Observing takes no part in what is enabled.                             *)
FairHSpec == HSpec /\ WF_hvars(HNext)

-----------------------------------------------------------------------------
(* The brake pulse before a grab only follows STOP_CONFIRM_CNT frames of   *)
(* this very round with the ball on the line: none is left over from the   *)
(* round before (tennis.cpp:401, 592).                                     *)
GrabIsEarned == pc = "braking" => roundTargets >= STOP_CONFIRM_CNT

(* A kick follows at least ALIGN_STALL_FRAMES aligning frames, and none of *)
(* the last STALL_BUF of them moved the ball: the part of the ring buffer  *)
(* the stall test scans holds them all and no older offset (tennis.cpp:619) *)
KickHasEvidence ==
  pc = "kicking" =>
    /\ Len(trail) >= ALIGN_STALL_FRAMES
    /\ \A i, j \in 1..Len(trail) : trail[i] - trail[j] < ALIGN_STALL_MOVE_PX

(* The robot sets off for a bucket only after BUCKET_CONFIRM_CNT captured  *)
(* frames in a row showed one (tennis.cpp:359, 420).                       *)
BucketIsDebounced ==
  [][game_state = "FIND_BUCKET" /\ game_state' = "APPROACH_BUCKET"
       => bucketRun' >= BUCKET_CONFIRM_CNT]_hvars

(* "Confirmed N frames in a row" (tennis.cpp:591): the grab follows        *)
(* STOP_CONFIRM_CNT captured frames in a row with the ball on the line.    *)
ConfirmedInARow == pc = "braking" => targetRun >= STOP_CONFIRM_CNT
=============================================================================

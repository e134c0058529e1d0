---------------------------- MODULE BallDelivery ----------------------------
(***************************************************************************)
(* What the robot promises, whatever the camera shows: it takes a ball     *)
(* with the wheels at rest, carries it held and lifted, lets go of it only *)
(* where it has arrived and come to rest, and starts over.                 *)
(***************************************************************************)

CONSTANTS Seeking, Carrying, Arrived,   (* the stages of a round *)
          Rolling, Braking, Resting     (* what the wheels do    *)

VARIABLES stage, wheels, lowered, closed

vars == <<stage, wheels, lowered, closed>>

Wheels == {Rolling, Braking, Resting}

Init ==
  /\ stage = Seeking
  /\ wheels = Resting
  /\ lowered = FALSE /\ closed = FALSE

(* The wheels obey the camera only while the arm is up, and the gripper    *)
(* is closed exactly while a ball is being carried.                        *)
Steer ==
  /\ ~lowered
  /\ \/ stage = Seeking /\ ~closed
     \/ stage = Carrying /\ closed
  /\ wheels' \in Wheels
  /\ UNCHANGED <<stage, lowered, closed>>

Reach ==
  /\ stage = Seeking /\ wheels = Resting /\ ~closed
  /\ lowered' = TRUE
  /\ UNCHANGED <<stage, wheels, closed>>

Grasp ==
  /\ stage = Seeking /\ wheels = Resting /\ lowered
  /\ closed' = TRUE
  /\ UNCHANGED <<stage, wheels, lowered>>

Lift ==
  /\ stage = Seeking /\ closed
  /\ lowered' = FALSE
  /\ stage' = Carrying
  /\ UNCHANGED <<wheels, closed>>

Arrive ==
  /\ stage = Carrying /\ wheels # Rolling
  /\ stage' = Arrived
  /\ wheels' = Resting
  /\ UNCHANGED <<lowered, closed>>

Release ==
  /\ stage = Arrived /\ wheels = Resting /\ closed /\ ~lowered
  /\ closed' = FALSE
  /\ UNCHANGED <<stage, wheels, lowered>>

StartOver ==
  /\ stage = Arrived /\ ~closed
  /\ stage' = Seeking
  /\ UNCHANGED <<wheels, lowered, closed>>

Next == Steer \/ Reach \/ Grasp \/ Lift \/ Arrive \/ Release \/ StartOver

Spec == Init /\ [][Next]_vars

=============================================================================

------------------------------ MODULE MCRobot ------------------------------
(* Values for the constants of Robot: a slow network on wheels that turn   *)
(* at once, and a fast one on sticky wheels; a ball off to the right, out  *)
(* of the gripper's reach, and one in its reach to the left of its line; a *)
(* picture that fills the frame, and the padded one of a 640x480 camera.   *)
(* The bucket starts with room to come nearer before it fills either.      *)
EXTENDS Robot

Ahead(percent) == [area |-> percent, offset |-> 0]
MCPlants == {[px |-> 3, think |-> 2, sticky |-> FALSE, share |-> 100,
              ball |-> [area |-> 27, offset |-> 190], bucket |-> Ahead(87)],
             [px |-> 6, think |-> 1, sticky |-> TRUE, share |-> 100,
              ball |-> [area |-> 28, offset |-> 60], bucket |-> Ahead(87)],
             [px |-> 6, think |-> 1, sticky |-> TRUE, share |-> 75,
              ball |-> [area |-> 28, offset |-> 60], bucket |-> Ahead(72)],
             [px |-> 6, think |-> 1, sticky |-> FALSE, share |-> 100,
              ball |-> [area |-> 25, offset |-> 250], bucket |-> Ahead(87)]}
=============================================================================

------------------------------ MODULE MCDetect ------------------------------
(* Values for the constants of Detect: lengths in units of 4 pixels, the   *)
(* camera's own format and three others an MJPEG picture can have.         *)
EXTENDS Detect

MCCameras == {<<160, 120>>, <<80, 60>>, <<320, 180>>, <<120, 160>>}

Ball       == <<40, 60, 80, 100>>
Shifted    == <<48, 60, 88, 100>>     (* over the threshold with Ball       *)
FurtherOn  == <<56, 60, 96, 100>>     (* with Shifted, not with Ball        *)
AtTheEdge  == <<120, 20, 164, 60>>    (* past the right edge                *)
HalfPadded == <<60, 4, 108, 44>>      (* reaches into the upper padding     *)
Padded     == <<20, 0, 70, 14>>       (* wholly in it, in most formats      *)
Leftmost   == <<-8, 90, 24, 126>>
BesideIt   == <<0, 60, 18, 100>>      (* in the padding at the left, if any *)

Row(b, s0, s1) == [bbox |-> b, scores |-> [c \in {0, 1} |-> IF c = 0 THEN s0 ELSE s1],
                   batch_idx |-> 0]
Sure(b, s)  == Row(b, s, 0)
Other(b, s) == Row(b, s - 10, s)

MCOutputs ==
  {Sure(Ball, 90), Sure(Shifted, 80), Sure(FurtherOn, 60), Sure(Shifted, 90),
   Other(Shifted, 70), Sure(AtTheEdge, 70), Sure(HalfPadded, 60), Sure(Padded, 90),
   Sure(Leftmost, 51), Sure(BesideIt, 85), Sure(Ball, 50), Sure(Ball, 0)}
=============================================================================

------------------------------- MODULE Detect -------------------------------
(***************************************************************************)
(* From the model's output to the ball the chase steers for: detect.cpp    *)
(* and the part of main() that uses it (tennis.cpp:507-551), for one       *)
(* picture of the UVC camera.                                              *)
(*                                                                         *)
(* getDetections() keeps the candidates above the confidence threshold,    *)
(* NMS() sorts them and drops all but one of those that overlap, a score   *)
(* of 0 marking what is dropped; correctYoloBoxes() and main() take the    *)
(* boxes back to the camera's picture, and the largest box is chosen.      *)
(*                                                                         *)
(* A box is <<x1, y1, x2, y2>>, its corners, which the code computes from  *)
(* its middle and its size wherever it uses them.  Scores are per cent and *)
(* lengths integers: the values a run uses make the code's float divisions *)
(* exact.  The model is external; a box it puts out reaches out to all     *)
(* sides from a point of its input, as YOLOv8's do.                        *)
(***************************************************************************)
EXTENDS Integers, Sequences, FiniteSets

CONSTANTS
  Outputs,             (* what the model can put out for one of its boxes:
                          [bbox, scores (one per class), batch_idx]       *)
  NumBoxes,            (* boxes it puts out per picture: 8400             *)
  model_w,             (* side of its square input, FRAME_WIDTH: 640      *)
  Cameras,             (* <<cols, rows>> of the camera's picture          *)
  conf_thresh,         (* 50                                              *)
  nms_thresh           (* 45                                              *)

ASSUME DetectAssumption ==
  /\ \A o \in Outputs :
       /\ DOMAIN o = {"bbox", "scores", "batch_idx"}
       /\ o.bbox \in Int \X Int \X Int \X Int
       /\ DOMAIN o.scores \subseteq Nat /\ DOMAIN o.scores # {}
       /\ \A c \in DOMAIN o.scores : o.scores[c] \in 0..100
  /\ NumBoxes \in Nat
  /\ model_w \in Nat \ {0}
  /\ \A cam \in Cameras : cam \in (Nat \ {0}) \X (Nat \ {0})
  /\ conf_thresh \in 0..100 /\ nms_thresh \in 0..100

VARIABLES
  output,              (* what the model puts out, and never changes      *)
  pc,                  (* the function that runs, or the loop of NMS()    *)
  dets,                (* detections [bbox, cls, score, batch_idx, id];
                          id, where it came from, is not in the program   *)
  det_num,             (* main()'s count of them: NMS()'s *total          *)
  new_count,           (* NMS()'s count of the ones it does not drop      *)
  i, j,                (* the loop variables of NMS()                     *)
  cam,                 (* g_cam_w, g_cam_h                                *)
  best                 (* the detection main() steers for, 0 for none     *)

detVars == <<output, pc, dets, det_num, new_count, i, j, cam, best>>

-----------------------------------------------------------------------------
(* Boxes *)

Least(a, b)    == IF a < b THEN a ELSE b
Greatest(a, b) == IF a > b THEN a ELSE b

Area(b) == (b[3] - b[1]) * (b[4] - b[2])

Shared(a, b) ==
  LET wi == Least(a[3], b[3]) - Greatest(a[1], b[1])
      hi == Least(a[4], b[4]) - Greatest(a[2], b[2])
  IN  Greatest(wi, 0) * Greatest(hi, 0)

(* calIou(a, b) > thresh, without the division.                            *)
calIou_over(a, b) ==
  100 * Shared(a, b) > nms_thresh * (Area(a) + Area(b) - Shared(a, b))

(* letterbox(): a picture of w by h is scaled by model_w / longer side and *)
(* centred in the model's square input.                                    *)
Longer(w, h) == Greatest(w, h)
pad(side, w, h) == (model_w - (side * model_w) \div Longer(w, h)) \div 2

(* The way back, capped at the picture on the side the code caps it.       *)
ToPictureUncapped(b, w, h) ==                                      (* mutant *)
  LET back(v, side) == ((v - pad(side, w, h)) * Longer(w, h)) \div model_w
  IN  <<back(b[1], w), back(b[2], h), back(b[3], w), back(b[4], h)>>

ToPicture(b, w, h) ==
  LET back(v, side) == ((v - pad(side, w, h)) * Longer(w, h)) \div model_w
  IN  <<Greatest(0, back(b[1], w)), Greatest(0, back(b[2], h)),
        Least(w, back(b[3], w)), Least(h, back(b[4], h))>>

-----------------------------------------------------------------------------
(* getDetections() *)

max_score(o) == CHOOSE s \in {o.scores[c] : c \in DOMAIN o.scores} :
                  \A c \in DOMAIN o.scores : o.scores[c] <= s
max_cls(o)   == CHOOSE c \in DOMAIN o.scores :
                  /\ o.scores[c] = max_score(o)
                  /\ \A d \in DOMAIN o.scores : o.scores[d] = max_score(o) => c <= d

AboveAny(o) == TRUE                                                (* mutant *)
Above(o) == max_score(o) > conf_thresh

Detection(k) ==
  [bbox |-> output[k].bbox, cls |-> max_cls(output[k]), score |-> max_score(output[k]),
   batch_idx |-> output[k].batch_idx, id |-> k]

DetectInit ==
  /\ output \in [1..NumBoxes -> Outputs]
  /\ pc = "getDetections"
  /\ dets = <<>> /\ det_num = 0 /\ new_count = 0
  /\ i = 1 /\ j = 2
  /\ cam \in Cameras
  /\ best = 0

(* The rows of the output one after the other; j is the row.               *)
getDetections ==
  /\ pc = "getDetections" /\ i <= NumBoxes
  /\ i' = i + 1
  /\ IF Above(output[i])
     THEN dets' = Append(dets, Detection(i)) /\ det_num' = det_num + 1
     ELSE UNCHANGED <<dets, det_num>>
  /\ UNCHANGED <<output, pc, new_count, j, cam, best>>

(* NMS(): std::sort leaves equal scores in any order.                      *)
Orders(n) == {p \in [1..n -> 1..n] : \A k \in 1..n : \E a \in 1..n : p[a] = k}

Sort ==
  /\ pc = "getDetections" /\ i > NumBoxes
  /\ \E p \in Orders(Len(dets)) :
       /\ \A a, b \in 1..Len(dets) : a < b => dets[p[a]].score >= dets[p[b]].score
       /\ dets' = [k \in 1..Len(dets) |-> dets[p[k]]]
  /\ pc' = IF det_num = 0 THEN "correctYoloBoxes" ELSE "suppress"
  /\ new_count' = det_num
  /\ i' = 1 /\ j' = 2
  /\ UNCHANGED <<output, det_num, cam, best>>

-----------------------------------------------------------------------------
(* NMS(), the loops over the pairs *)

Alive(d) == d.score # 0
SameKind(a, b) == a.batch_idx = b.batch_idx /\ a.cls = b.cls
SameBall(a, b) == SameKind(a, b) /\ calIou_over(a.bbox, b.bbox)

DropsOfAnyClass(a, b) == Alive(b) /\ calIou_over(a.bbox, b.bbox)   (* mutant *)
Drops(a, b) == Alive(b) /\ SameBall(a, b)

Comparing == pc = "suppress" /\ i <= det_num
NextA == i' = i + 1 /\ j' = i + 2

SkipDropped ==
  /\ Comparing /\ ~Alive(dets[i])
  /\ NextA
  /\ UNCHANGED <<output, pc, dets, det_num, new_count, cam, best>>

Compare ==
  /\ Comparing /\ Alive(dets[i]) /\ j <= det_num
  /\ j' = j + 1
  /\ IF Drops(dets[i], dets[j])
     THEN dets' = [dets EXCEPT ![j].score = 0] /\ new_count' = new_count - 1
     ELSE UNCHANGED <<dets, new_count>>
  /\ UNCHANGED <<output, pc, det_num, i, cam, best>>

Compared ==
  /\ Comparing /\ Alive(dets[i]) /\ j > det_num
  /\ NextA
  /\ UNCHANGED <<output, pc, dets, det_num, new_count, cam, best>>

Suppressed ==
  /\ pc = "suppress" /\ i > det_num
  /\ pc' = "erase"
  /\ i' = 1                                            (* the iterator it *)
  /\ UNCHANGED <<output, dets, det_num, new_count, j, cam, best>>

-----------------------------------------------------------------------------
(* NMS(), the loop that erases: erasing moves what follows down by one.    *)

Without(s, k) == [n \in 1..Len(s) - 1 |-> IF n < k THEN s[n] ELSE s[n + 1]]

StepsPast(k) == k + 1                                              (* mutant *)
AfterErase(k) == k

Erase ==
  /\ pc = "erase" /\ i <= Len(dets)
  /\ IF Alive(dets[i]) THEN i' = i + 1 /\ UNCHANGED dets
     ELSE i' = AfterErase(i) /\ dets' = Without(dets, i)
  /\ UNCHANGED <<output, pc, det_num, new_count, j, cam, best>>

Erased ==
  /\ pc = "erase" /\ i > Len(dets)
  /\ pc' = "correctYoloBoxes"
  /\ det_num' = new_count
  /\ UNCHANGED <<output, dets, new_count, i, j, cam, best>>

-----------------------------------------------------------------------------
(* Back to the camera's picture.  uvc_grab_bgr() has letterboxed it to the *)
(* model's input already, so correctYoloBoxes() finds nothing to scale.    *)

correctYoloBoxes ==
  /\ pc = "correctYoloBoxes"
  /\ dets' = [k \in 1..Len(dets) |->
                IF k <= det_num THEN [dets[k] EXCEPT !.bbox = ToPicture(@, model_w, model_w)]
                ELSE dets[k]]
  /\ pc' = "remap"
  /\ UNCHANGED <<output, det_num, new_count, i, j, cam, best>>

Remap ==
  /\ pc = "remap"
  /\ dets' = [k \in 1..Len(dets) |->
                IF k <= det_num THEN [dets[k] EXCEPT !.bbox = ToPicture(@, cam[1], cam[2])]
                ELSE dets[k]]
  /\ pc' = "choose"
  /\ UNCHANGED <<output, det_num, new_count, i, j, cam, best>>

(* The first of the largest.                                               *)
ChooseBest ==
  /\ pc = "choose"
  /\ IF dets = <<>> THEN UNCHANGED best
     ELSE \E b \in 1..Len(dets) :
            /\ \A k \in 1..Len(dets) : Area(dets[k].bbox) <= Area(dets[b].bbox)
            /\ \A k \in 1..b - 1 : Area(dets[k].bbox) < Area(dets[b].bbox)
            /\ best' = b
  /\ pc' = "done"
  /\ UNCHANGED <<output, dets, det_num, new_count, i, j, cam>>

DetectNext ==
  \/ getDetections \/ Sort
  \/ SkipDropped \/ Compare \/ Compared \/ Suppressed
  \/ Erase \/ Erased
  \/ correctYoloBoxes \/ Remap \/ ChooseBest
DetectSpec == DetectInit /\ [][DetectNext]_detVars

-----------------------------------------------------------------------------
Afterwards == {"correctYoloBoxes", "remap", "choose", "done"}

(* NMS() counts apart from erasing, and main() goes through dets by that   *)
(* count: it is the number of detections that are left.  A detection with  *)
(* a score of 0 before the loops would be erased and not counted off       *)
(* (detect.cpp:56, 81).                                                    *)
CountIsLength == pc \in Afterwards => det_num = Len(dets)

(* No two of the detections NMS() leaves are of one ball: same batch, same *)
(* class and an overlap over the threshold, although the loop erases from  *)
(* the vector it walks along (detect.cpp:50, 60).                          *)
NoTwoOfOneBall ==
  pc = "correctYoloBoxes" =>
    \A a, b \in 1..Len(dets) : a # b => Alive(dets[a]) /\ ~SameBall(dets[a], dets[b])

(* And none is lost: a candidate above the threshold is still there, or    *)
(* one of the same ball that is at least as sure is (detect.cpp:44, 54).   *)
NoBallIsLost ==
  pc = "correctYoloBoxes" =>
    \A n \in 1..NumBoxes : max_score(output[n]) > conf_thresh =>
      \E k \in 1..Len(dets) :
        \/ dets[k].id = n
        \/ /\ SameBall(dets[k], Detection(n))
           /\ dets[k].score >= max_score(output[n])

(* What of a box, as the model put it out, lies in the picture within the  *)
(* model's input.                                                          *)
Seen(k) ==
  Shared(output[dets[k].id].bbox,
         <<pad(cam[1], cam[1], cam[2]), pad(cam[2], cam[1], cam[2]),
           model_w - pad(cam[1], cam[1], cam[2]), model_w - pad(cam[2], cam[1], cam[2])>>)

(* A picture that is not higher than wide is padded above and below only.  *)
NoSidePadding == cam[1] >= cam[2]

(* In such a picture the box main() chooses shows the most of a ball, and  *)
(* the offset it steers by is within the picture: boxes are cut to it on   *)
(* two sides only, and one that lies in the letterbox's padding comes back *)
(* with a negative height (detect.cpp:92, tennis.cpp:521, 540).  With the  *)
(* padding at the sides its width is negative, and so can the offset be.   *)
ChosenIsSeenBest ==
  pc = "done" /\ dets # <<>> /\ NoSidePadding =>
    /\ \A k \in 1..Len(dets) : Seen(k) <= Seen(best)
    /\ 0 <= dets[best].bbox[1] + dets[best].bbox[3]
    /\ dets[best].bbox[1] + dets[best].bbox[3] <= 2 * cam[1]
=============================================================================

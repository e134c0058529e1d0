----------------------------- MODULE UvcCapture -----------------------------
(***************************************************************************)
(* The UVC camera: uvc_capture.cpp over the V4L2 driver's buffer queue.    *)
(*                                                                         *)
(* A buffer is empty (queued, the driver may fill it), filled (it holds a  *)
(* picture nobody has read), or lost: getFrame() does not look at the      *)
(* result of VIDIOC_QBUF, so a buffer that was not queued again is neither *)
(* of both from then on.  The driver fills buffers in the order it got     *)
(* them and drops a picture when none is empty: after a long blocking call *)
(* the filled ones hold the OLDEST pictures, not the newest.               *)
(*                                                                         *)
(* age counts the pictures getFrame() has returned since this one was      *)
(* taken; the program has no such counter.                                 *)
(***************************************************************************)
EXTENDS Integers, Sequences

VARIABLES
  buffer_count_,       (* buffers the driver granted                      *)
  empty,               (* how many of them are queued and not filled      *)
  filled               (* pictures taken and not yet read, oldest first   *)

uvcVars == <<buffer_count_, empty, filled>>

(* open() asks for 4 buffers; the driver grants more or fewer, and open()  *)
(* fails with fewer than 2.  It ends with all of them queued.              *)
UvcReady(granted) ==
  /\ granted >= 2
  /\ buffer_count_ = granted
  /\ empty = granted
  /\ filled = <<>>

(* The driver, a picture's time: it is kept only if a buffer is empty.     *)
Expose(shown) ==
  IF empty > 0
  THEN /\ empty' = empty - 1
       /\ filled' = Append(filled, [shown |-> shown, age |-> 0])
       /\ UNCHANGED buffer_count_
  ELSE UNCHANGED uvcVars

Older(pictures) ==
  [i \in DOMAIN pictures |-> [pictures[i] EXCEPT !.age = @ + 1]]

(* VIDIOC_QBUF: taken says whether the driver took the buffer back.        *)
RequeueNever(taken) == UNCHANGED empty                             (* mutant *)
RequeueTwice(taken) == empty' = IF taken THEN empty + 2 ELSE empty  (* mutant *)
Requeue(taken) == empty' = IF taken THEN empty + 1 ELSE empty

(* getFrame() with a picture waiting returns the oldest one at once.       *)
GetFrame(taken) ==
  /\ filled # <<>>
  /\ filled' = Older(Tail(filled))
  /\ Requeue(taken)
  /\ UNCHANGED buffer_count_

(* getFrame() with none waits in select(), 300 ms at most, and returns -1. *)
NothingFilled == filled = <<>>

-----------------------------------------------------------------------------
(* However long the program blocks, getFrame() returns no picture that was *)
(* taken more calls ago than there are buffers: the i-th picture waiting   *)
(* has been passed by so few calls that it is returned in time.  This      *)
(* bounds how stale what the loop reacts to can be (uvc_capture.cpp:170,   *)
(* 189).                                                                   *)
PicturesAreRecent ==
  \A i \in 1..Len(filled) : filled[i].age + i <= buffer_count_
=============================================================================

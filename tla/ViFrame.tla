------------------------------- MODULE ViFrame -------------------------------
(***************************************************************************)
(* The frames of the VI camera: VICapture's VPSS group, getFrameAsBGR()    *)
(* and getFrameAsNV21() over the vendor's VI and VPSS, call by call.       *)
(*                                                                         *)
(* build is USE_VPSS_RESIZE: "vpss" sends each VI frame to the VPSS and    *)
(* reads back a smaller one, "software" maps the VI frame itself.  entry   *)
(* is the function that is running.                                        *)
(*                                                                         *)
(* The VPSS scales in the order it was sent and keeps one result for the   *)
(* caller (u32Depth = 1); when a second one is ready either is dropped.    *)
(* CVI_VPSS_GetChnFrame can give up after a second while the result is     *)
(* still to come: the next call then finds it.  age counts the frames sent *)
(* to the VPSS since a frame was.                                          *)
(***************************************************************************)
EXTENDS Integers, Sequences

CONSTANTS
  Builds,              (* of "vpss", "software"                           *)
  PIPE,                (* frames the VPSS can have in work                *)
  VI_POOL,             (* VI frames that can be out at a time             *)
  MaxTimeouts,         (* CVI_VPSS_GetChnFrame calls that give up         *)
  MaxRefused           (* CVI_VI_ReleaseChnFrame calls that fail          *)

ASSUME ViFrameAssumption ==
  /\ Builds \subseteq {"vpss", "software"}
  /\ PIPE \in Nat \ {0} /\ VI_POOL \in Nat \ {0}
  /\ MaxTimeouts \in Nat /\ MaxRefused \in Nat

VARIABLES
  build, entry,
  pc,                  (* the call that comes next, "idle" between frames *)
  m_bVpssInited,
  group,               (* of "group", "channel", "running": what exists   *)
  inside, ready,       (* frames in the VPSS, and its result, if any      *)
  viHeld,              (* VI frames that were got and not released         *)
  vpssHeld,            (* CVI_VPSS_GetChnFrame calls of this group that    *)
                       (* got a frame, less CVI_VPSS_ReleaseChnFrame calls *)
  wild,                (* calls that went on without one from this group   *)
  mapped,              (* mappings that were made and not undone          *)
  stResizedFrame,      (* the descriptor: [age, own]                      *)
  stack,               (* what an earlier call left in its place          *)
  answer,              (* what the last call returned: [ret, frame]       *)
  timeouts, refused

resources == <<viHeld, vpssHeld, wild, mapped>>
vpssVars  == <<m_bVpssInited, group, inside, ready>>
descriptors == <<stResizedFrame, stack>>
faultVars == <<timeouts, refused>>
viVars == <<build, entry, pc, vpssVars, resources, descriptors, answer, faultVars>>

NoFrame == [age |-> -1, own |-> FALSE]
Received(f) == [age |-> f, own |-> TRUE]
Success(frame) == [ret |-> "CVI_SUCCESS", frame |-> frame]
Failure == [ret |-> "CVI_FAILURE", frame |-> NoFrame]

ViInit ==
  /\ build \in Builds
  /\ entry = "none" /\ pc = "idle"
  /\ m_bVpssInited = FALSE /\ group = {}
  /\ inside = <<>> /\ ready = <<>>
  /\ viHeld = 0 /\ vpssHeld = 0 /\ wild = 0 /\ mapped = 0
  /\ stResizedFrame = NoFrame /\ stack = NoFrame
  /\ answer = Failure
  /\ timeouts = 0 /\ refused = 0

-----------------------------------------------------------------------------
(* initVpssResize() and deinitVpssResize() *)

Idle == pc = "idle" /\ build = "vpss"
NoCapture == UNCHANGED <<build, entry, resources, descriptors, answer, faultVars>>
NothingInside == UNCHANGED <<inside, ready>>

CreateGrp ==
  /\ Idle /\ ~m_bVpssInited
  /\ \/ group' = {"group"} /\ pc' = "SetChnAttr"
     \/ UNCHANGED <<group, pc>>
  /\ UNCHANGED m_bVpssInited /\ NothingInside /\ NoCapture

(* With a second attempt in another format when the first one fails.       *)
SetChnAttr ==
  /\ pc = "SetChnAttr"
  /\ \/ pc' = "EnableChn" /\ UNCHANGED group
     \/ pc' = "idle" /\ group' = {}
  /\ UNCHANGED m_bVpssInited /\ NothingInside /\ NoCapture

EnableChn ==
  /\ pc = "EnableChn"
  /\ \/ pc' = "StartGrp" /\ group' = group \cup {"channel"}
     \/ pc' = "idle" /\ group' = {}
  /\ UNCHANGED m_bVpssInited /\ NothingInside /\ NoCapture

UndoButGroup == group \ {"channel"}                                (* mutant *)
Undo == group \ {"channel", "group"}

StartGrp ==
  /\ pc = "StartGrp" /\ pc' = "idle"
  /\ \/ group' = group \cup {"running"} /\ m_bVpssInited' = TRUE
     \/ group' = Undo /\ UNCHANGED m_bVpssInited
  /\ NothingInside /\ NoCapture

(* Stopping the group drops what it has in work.                           *)
deinitVpssResize ==
  /\ Idle /\ m_bVpssInited
  /\ group' = group \ {"running", "channel", "group"}
  /\ m_bVpssInited' = FALSE
  /\ inside' = <<>> /\ ready' = <<>> /\ timeouts' = 0
  /\ vpssHeld' = 0 /\ wild' = 0
  /\ UNCHANGED <<build, entry, pc, viHeld, mapped, descriptors, answer, refused>>

-----------------------------------------------------------------------------
(* The VPSS *)

Scale ==
  /\ inside # <<>>
  /\ inside' = Tail(inside)
  /\ \/ ready' = <<Head(inside)>>
     \/ ready # <<>> /\ UNCHANGED ready
  /\ UNCHANGED <<build, entry, pc, m_bVpssInited, group, resources, descriptors,
                 answer, faultVars>>

-----------------------------------------------------------------------------
(* getFrameAsBGR() and getFrameAsNV21() *)

Returns(what) == pc' = "idle" /\ answer' = what
Goes(next) == pc' = next /\ UNCHANGED answer
Keep == UNCHANGED <<build, entry>>

(* CVI_VI_GetChnFrame: a frame, or none within 3 seconds.                  *)
Capture(function) ==
  /\ pc = "idle"
  /\ function = "NV21" => build = "vpss"
  /\ entry' = function
  /\ stResizedFrame' = NoFrame
  /\ \/ /\ viHeld < VI_POOL
        /\ viHeld' = viHeld + 1
        /\ Goes(IF build = "vpss" THEN "SendFrame" ELSE "Mmap")
     \/ Returns(Failure) /\ UNCHANGED viHeld
  /\ UNCHANGED <<build, vpssVars, vpssHeld, wild, mapped, stack, faultVars>>

(* CVI_VI_ReleaseChnFrame: when it fails the frame stays out.              *)
ReleaseVi ==
  \/ viHeld' = viHeld - 1 /\ UNCHANGED refused
  \/ refused < MaxRefused /\ refused' = refused + 1 /\ UNCHANGED viHeld

Aged(frames) == [i \in 1..Len(frames) |-> frames[i] + 1]

(* CVI_VPSS_SendFrame, without a time limit: it waits for room.            *)
SentTwice(frames) == Append(Append(Aged(Aged(frames)), 1), 0)      (* mutant *)
Sent(frames)      == Append(Aged(frames), 0)
Send ==
  /\ m_bVpssInited /\ Len(inside) < PIPE
  /\ inside' = Sent(inside)
  /\ ready' = Aged(ready)
  /\ Goes("GetChnFrame")
  /\ UNCHANGED <<viHeld, refused>>

(* Not initialised, or not taken: the frame is given back.                 *)
SendFails ==
  /\ ReleaseVi
  /\ Returns(Failure)
  /\ NothingInside

SendFrame ==
  /\ pc = "SendFrame"
  /\ Send \/ SendFails
  /\ Keep
  /\ UNCHANGED <<m_bVpssInited, group, vpssHeld, wild, mapped, descriptors, timeouts>>

(* CVI_VPSS_GetChnFrame with a result there.                               *)
GetChnFrame ==
  /\ pc = "GetChnFrame" /\ ready # <<>>
  /\ stResizedFrame' = Received(ready[1])
  /\ stack' = IF entry = "BGR" THEN Received(ready[1]) ELSE stack
  /\ ready' = <<>>
  /\ vpssHeld' = vpssHeld + 1
  /\ Goes("Mmap")
  /\ Keep
  /\ UNCHANGED <<m_bVpssInited, group, inside, viHeld, wild, mapped, faultVars>>

(* It gives up.  getFrameAsBGR() logs that and goes on with a descriptor   *)
(* nobody wrote: either what the last call left on the stack, or values    *)
(* that crash the program.  getFrameAsNV21() gives the frame back.         *)
GoesOn ==
  /\ \/ /\ stack # NoFrame
        /\ stResizedFrame' = [stack EXCEPT !.own = FALSE] /\ wild' = wild + 1
        /\ Goes("Mmap")
     \/ Goes("crashed") /\ UNCHANGED <<stResizedFrame, wild>>
  /\ UNCHANGED <<stack, viHeld, refused>>
GivesUp ==
  /\ ReleaseVi
  /\ Returns(Failure)
  /\ UNCHANGED <<descriptors, wild>>

OnTimeoutAlways(function) == GoesOn                                (* mutant *)
OnTimeout(function) == IF function = "BGR" THEN GoesOn ELSE GivesUp

GetTimesOut ==
  /\ pc = "GetChnFrame" /\ ready = <<>>
  /\ timeouts < MaxTimeouts /\ timeouts' = timeouts + 1
  /\ OnTimeout(entry)
  /\ Keep
  /\ UNCHANGED <<vpssVars, vpssHeld, mapped>>

(* Map it, and copy or convert the picture.                                *)
Mmap ==
  /\ pc = "Mmap"
  /\ mapped' = mapped + 1
  /\ Goes("Munmap")
  /\ Keep
  /\ UNCHANGED <<vpssVars, viHeld, vpssHeld, wild, descriptors, faultVars>>

Munmap ==
  /\ pc = "Munmap"
  /\ mapped' = mapped - 1
  /\ Goes(IF build = "vpss" THEN "ReleaseVpss" ELSE "ReleaseVi")
  /\ Keep
  /\ UNCHANGED <<vpssVars, viHeld, vpssHeld, wild, descriptors, faultVars>>

(* CVI_VPSS_ReleaseChnFrame, of whatever the descriptor names: a wild one  *)
(* names the frame of an earlier call, which is then released again.       *)
VpssKept == UNCHANGED vpssHeld                                     (* mutant *)
VpssGivenBack == vpssHeld' = vpssHeld - 1

ReleaseVpss ==
  /\ pc = "ReleaseVpss"
  /\ VpssGivenBack
  /\ Goes("ReleaseVi")
  /\ Keep
  /\ UNCHANGED <<vpssVars, viHeld, wild, mapped, descriptors, faultVars>>

(* Only the software build looks at the result of the release.             *)
Return ==
  /\ pc = "ReleaseVi"
  /\ ReleaseVi
  /\ Returns(IF build = "software"
             THEN IF refused' = refused THEN Success(Received(0)) ELSE Failure
             ELSE Success(stResizedFrame))
  /\ Keep
  /\ UNCHANGED <<vpssVars, vpssHeld, wild, mapped, descriptors, timeouts>>

-----------------------------------------------------------------------------
initVpssResize == CreateGrp \/ SetChnAttr \/ EnableChn \/ StartGrp
getFrame ==
  \/ \E function \in {"BGR", "NV21"} : Capture(function)
  \/ SendFrame \/ GetChnFrame \/ GetTimesOut \/ Mmap \/ Munmap \/ ReleaseVpss \/ Return

ViNext == initVpssResize \/ deinitVpssResize \/ Scale \/ getFrame
ViSpec == ViInit /\ [][ViNext]_viVars

-----------------------------------------------------------------------------
(* Between two frames nothing is out but the VI frames whose release the   *)
(* driver refused, nothing is mapped, and the VPSS has had one release for *)
(* each frame it gave, on every path, the failing ones included, and one   *)
(* too many for each call that went on with a wild descriptor              *)
(* (vi_capture.cpp:226, 277, 314, 442).                                    *)
AllGivenBack ==
  pc = "idle" => viHeld = refused /\ vpssHeld = -wild /\ mapped = 0

(* A group exists if and only if the flag says so, whichever step of       *)
(* initVpssResize() failed: the next attempt starts from nothing, and a    *)
(* frame is only sent to a group that runs (vi_capture.cpp:163, 180).      *)
VpssAllOrNothing ==
  /\ pc = "idle" => group = IF m_bVpssInited THEN {"group", "channel", "running"} ELSE {}
  /\ inside # <<>> \/ ready # <<>> => m_bVpssInited

(* What a call returns lags behind by at most one frame for each time the  *)
(* VPSS did not answer in time.  They do lag: the late answer is taken for the next *)
(* frame's, whose answer is then late in turn (vi_capture.cpp:232, 439).   *)
LagNeedsTimeouts ==
  [][Return /\ answer'.ret = "CVI_SUCCESS" /\ answer'.frame.own
       => answer'.frame.age <= timeouts]_viVars

(* getFrameAsNV21(), and the software build, return success only with a    *)
(* picture that this very call got.                                        *)
SuccessHasFrame ==
  answer.ret = "CVI_SUCCESS" => answer.frame.own
SuccessHasFrameNV21 ==
  pc = "idle" /\ (entry = "NV21" \/ build = "software") => SuccessHasFrame

(* "@return CVI_SUCCESS on success, otherwise CVI_FAILURE" (vi_capture.hpp: *)
(* 53), of getFrameAsBGR(), the function the match loop calls.             *)
FailedResizeIsReported == pc = "idle" /\ entry = "BGR" => SuccessHasFrame
=============================================================================

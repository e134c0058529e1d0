--------------------------- MODULE ViFrame_proofs ---------------------------
(* That VI and VPSS get back what they gave, for any number of frames in   *)
(* the VPSS, any pool of VI and any number of timeouts and refusals.       *)
EXTENDS ViFrame, SequenceTheorems, TLAPS

Setup  == {"SetChnAttr", "EnableChn", "StartGrp"}
Frames == {"SendFrame", "GetChnFrame", "Mmap", "Munmap", "ReleaseVpss", "ReleaseVi"}

DescOK(d) == "own" \in DOMAIN d /\ d.own \in BOOLEAN

ViTypeOK ==
  /\ pc \in {"idle", "crashed"} \cup Setup \cup Frames
  /\ build \in {"vpss", "software"}
  /\ m_bVpssInited \in BOOLEAN
  /\ viHeld \in Nat /\ vpssHeld \in Int /\ wild \in Nat /\ mapped \in Nat /\ refused \in Nat
  /\ DescOK(stResizedFrame) /\ DescOK(stack)

(* How far initVpssResize() has come.                                      *)
GroupOK ==
  /\ pc \in Setup => ~m_bVpssInited /\ build = "vpss"
  /\ pc \in {"SetChnAttr", "EnableChn"} => group = {"group"}
  /\ pc = "StartGrp" => group = {"group", "channel"}
  /\ pc \notin Setup => group = IF m_bVpssInited THEN {"group", "channel", "running"} ELSE {}
  /\ inside # <<>> \/ ready # <<>> => m_bVpssInited

(* What each call finds still to be given back: a release is owed for each *)
(* CVI_VPSS_GetChnFrame that was passed, with a frame or without.          *)
Owed == IF build = "vpss" /\ pc \in {"Mmap", "Munmap", "ReleaseVpss"} THEN 1 ELSE 0
HeldOK ==
  /\ pc \in {"idle"} \cup Setup => viHeld = refused
  /\ pc \in Frames => viHeld = refused + 1
  /\ vpssHeld = Owed - wild
  /\ mapped = IF pc = "Munmap" THEN 1 ELSE 0

(* What the answer of this call, or of the last one, rests on.             *)
AnswerOK ==
  /\ pc \in {"idle"} \cup Setup /\ (entry = "NV21" \/ build = "software") => SuccessHasFrame
  /\ pc \in {"Mmap", "Munmap", "ReleaseVpss", "ReleaseVi"} /\ build = "vpss" /\ entry = "NV21"
       => stResizedFrame.own
  /\ build = "software" => ~stResizedFrame.own \/ pc \notin Frames
  /\ pc \in Frames /\ entry = "NV21" => build = "vpss"
  /\ pc \in Frames => entry \in {"BGR", "NV21"}
  /\ pc \in {"SendFrame", "GetChnFrame", "ReleaseVpss"} => build = "vpss"

ViInv == ViTypeOK /\ GroupOK /\ HeldOK /\ AnswerOK

-----------------------------------------------------------------------------
LEMMA ViInitInv == ViInit => ViInv
PROOF
  <1> SUFFICES ASSUME ViInit PROVE ViInv
    OBVIOUS
  <1> USE DEF ViInit, Setup, Frames
  <1>1. build \in {"vpss", "software"}
    BY ViFrameAssumption
  <1>2. DescOK(NoFrame) /\ ~NoFrame.own /\ Failure.ret = "CVI_FAILURE"
    BY DEF DescOK, NoFrame, Failure
  <1>3. ViTypeOK
    <2>1. viHeld \in Nat /\ vpssHeld \in Int /\ wild \in Nat /\ mapped \in Nat /\ refused \in Nat
      OBVIOUS
    <2> QED  BY <1>1, <1>2, <2>1 DEF ViTypeOK
  <1>4. GroupOK /\ HeldOK
    BY DEF GroupOK, HeldOK, Owed
  <1>5. AnswerOK
    BY <1>2 DEF AnswerOK, SuccessHasFrame
  <1> QED  BY <1>3, <1>4, <1>5 DEF ViInv

(* Setting the group up and taking it down leaves the frames alone.        *)
LEMMA SetupStep == ViInv /\ (initVpssResize \/ deinitVpssResize) => ViInv'
PROOF
  <1> SUFFICES ASSUME ViInv, initVpssResize \/ deinitVpssResize PROVE ViInv'
    OBVIOUS
  <1> USE DEF ViInv, ViTypeOK, Setup, Frames
  <1>1. /\ UNCHANGED <<build, entry, viHeld, mapped, descriptors, answer, refused>>
        /\ UNCHANGED <<vpssHeld, wild>> \/ (vpssHeld' = 0 /\ wild' = 0)
        /\ pc \in {"idle"} \cup Setup /\ pc' \in {"idle"} \cup Setup
    BY DEF initVpssResize, CreateGrp, SetChnAttr, EnableChn, StartGrp, deinitVpssResize,
           Idle, NoCapture, faultVars, resources
  <1>2. m_bVpssInited' \in BOOLEAN /\ GroupOK'
    <2>1. CASE CreateGrp
      BY <2>1 DEF GroupOK, CreateGrp, Idle, NothingInside, NoCapture
    <2>2. CASE SetChnAttr
      BY <2>2 DEF GroupOK, SetChnAttr, NothingInside, NoCapture
    <2>3. CASE EnableChn
      BY <2>3 DEF GroupOK, EnableChn, NothingInside, NoCapture
    <2>4. CASE StartGrp
      <3>1. /\ pc' = "idle" /\ group = {"group", "channel"} /\ m_bVpssInited = FALSE
            /\ UNCHANGED <<inside, ready>>
            /\ \/ group' = group \cup {"running"} /\ m_bVpssInited' = TRUE
               \/ group' = Undo /\ UNCHANGED m_bVpssInited
        BY <2>4 DEF GroupOK, StartGrp, NothingInside
      <3>2. group \cup {"running"} = {"group", "channel", "running"} /\ Undo = {}
        BY <3>1 DEF Undo
      <3> QED  BY <3>1, <3>2 DEF GroupOK
    <2>5. CASE deinitVpssResize
      <3>1. /\ pc = "idle" /\ pc' = pc /\ m_bVpssInited /\ m_bVpssInited' = FALSE
            /\ group' = group \ {"running", "channel", "group"}
            /\ inside' = <<>> /\ ready' = <<>>
        BY <2>5 DEF deinitVpssResize, Idle
      <3>2. group' = {}
        BY <3>1 DEF GroupOK
      <3> QED  BY <3>1, <3>2 DEF GroupOK
    <2> QED  BY <2>1, <2>2, <2>3, <2>4, <2>5 DEF initVpssResize
  <1>3. ViTypeOK'
    BY <1>1, <1>2 DEF descriptors, DescOK
  <1>4. HeldOK'
    BY <1>1 DEF HeldOK, Owed
  <1>5. AnswerOK'
    BY <1>1 DEF AnswerOK, descriptors, SuccessHasFrame
  <1> QED  BY <1>2, <1>3, <1>4, <1>5

(* A step of the VPSS, or of a capture, leaves the group alone.            *)
LEMMA SameGroup ==
  ASSUME ViInv, UNCHANGED <<m_bVpssInited, group>>, pc \notin Setup, pc' \notin Setup,
         inside' # <<>> \/ ready' # <<>> => m_bVpssInited
  PROVE  GroupOK'
PROOF
  BY DEF ViInv, GroupOK, Setup

LEMMA ScaleStep == ViInv /\ Scale => ViInv'
PROOF
  <1> SUFFICES ASSUME ViInv, Scale PROVE ViInv'
    OBVIOUS
  <1>1. /\ UNCHANGED <<build, entry, pc, m_bVpssInited, group, viHeld, vpssHeld, wild, mapped,
                       stResizedFrame, stack, answer, refused>>
        /\ m_bVpssInited
    BY DEF Scale, resources, descriptors, faultVars, ViInv, GroupOK
  <1>2. GroupOK'
    BY <1>1 DEF ViInv, GroupOK
  <1>3. ViTypeOK' /\ HeldOK'
    BY <1>1 DEF ViInv, ViTypeOK, DescOK, HeldOK, Owed
  <1>4. AnswerOK'
    BY <1>1 DEF ViInv, AnswerOK, SuccessHasFrame
  <1> QED  BY <1>2, <1>3, <1>4 DEF ViInv

-----------------------------------------------------------------------------
(* One lemma per call of getFrameAsBGR() and getFrameAsNV21().             *)

LEMMA CaptureStep ==
  ASSUME ViInv, NEW function \in {"BGR", "NV21"}, Capture(function)
  PROVE  ViInv'
PROOF
  <1> USE DEF ViInv, Setup, Frames
  <1>1. /\ pc = "idle" /\ entry' = function /\ stResizedFrame' = NoFrame
        /\ UNCHANGED <<build, m_bVpssInited, group, inside, ready, vpssHeld, wild, mapped, stack, refused>>
        /\ function = "NV21" => build = "vpss"
    BY DEF Capture, vpssVars, faultVars
  <1>2. \/ /\ viHeld' = viHeld + 1 /\ UNCHANGED answer
           /\ pc' = IF build = "vpss" THEN "SendFrame" ELSE "Mmap"
        \/ pc' = "idle" /\ answer' = Failure /\ UNCHANGED viHeld
    BY DEF Capture, Goes, Returns
  <1>3. pc' \notin Setup /\ GroupOK'
    BY <1>1, <1>2, SameGroup DEF GroupOK
  <1>4. ViTypeOK'
    BY <1>1, <1>2 DEF ViTypeOK, DescOK, NoFrame
  <1>5. HeldOK'
    BY <1>1, <1>2 DEF ViTypeOK, HeldOK, Owed, NoFrame
  <1>6. AnswerOK'
    BY <1>1, <1>2 DEF ViTypeOK, AnswerOK, SuccessHasFrame, Failure, NoFrame
  <1> QED  BY <1>3, <1>4, <1>5, <1>6

LEMMA SendFrameStep == ViInv /\ SendFrame => ViInv'
PROOF
  <1> SUFFICES ASSUME ViInv, SendFrame PROVE ViInv'
    OBVIOUS
  <1> USE DEF ViInv, Setup, Frames
  <1>1. /\ pc = "SendFrame"
        /\ UNCHANGED <<build, entry, m_bVpssInited, group, vpssHeld, wild, mapped, stResizedFrame, stack>>
    BY DEF SendFrame, Keep, descriptors
  <1>2. CASE Send
    <2>1. /\ pc' = "GetChnFrame" /\ m_bVpssInited
          /\ UNCHANGED <<viHeld, refused, answer>>
      BY <1>2 DEF Send, Goes
    <2>2. GroupOK'
      BY <1>1, <2>1, SameGroup
    <2>3. ViTypeOK' /\ HeldOK'
      BY <1>1, <2>1 DEF ViTypeOK, DescOK, HeldOK, Owed
    <2>4. AnswerOK'
      BY <1>1, <2>1 DEF ViTypeOK, AnswerOK
    <2> QED  BY <2>2, <2>3, <2>4
  <1>3. CASE SendFails
    <2>1. /\ pc' = "idle" /\ answer' = Failure /\ UNCHANGED <<inside, ready>>
          /\ \/ viHeld' = viHeld - 1 /\ UNCHANGED refused
             \/ refused' = refused + 1 /\ UNCHANGED viHeld
      BY <1>3 DEF SendFails, ReleaseVi, Returns, NothingInside
    <2>2. GroupOK'
      BY <1>1, <2>1, SameGroup DEF GroupOK
    <2>3. ViTypeOK' /\ HeldOK'
      BY <1>1, <2>1 DEF ViTypeOK, DescOK, HeldOK, Owed
    <2>4. AnswerOK'
      BY <1>1, <2>1 DEF ViTypeOK, AnswerOK, SuccessHasFrame, Failure
    <2> QED  BY <2>2, <2>3, <2>4
  <1> QED  BY <1>2, <1>3 DEF SendFrame

LEMMA GetChnFrameStep == ViInv /\ GetChnFrame => ViInv'
PROOF
  <1> SUFFICES ASSUME ViInv, GetChnFrame PROVE ViInv'
    OBVIOUS
  <1> USE DEF ViInv, Setup, Frames
  <1>1. /\ pc = "GetChnFrame" /\ pc' = "Mmap" /\ m_bVpssInited /\ build = "vpss"
        /\ UNCHANGED <<build, entry, m_bVpssInited, group, inside, viHeld, wild, mapped, answer, refused>>
        /\ stResizedFrame' = Received(ready[1])
        /\ stack' = stack \/ stack' = Received(ready[1])
        /\ vpssHeld' = vpssHeld + 1
    BY DEF GetChnFrame, Goes, Keep, faultVars, GroupOK, AnswerOK
  <1>2. DescOK(Received(ready[1])) /\ Received(ready[1]).own = TRUE
    BY DEF DescOK, Received
  <1>3. GroupOK'
    BY <1>1, SameGroup
  <1>4. DescOK(stResizedFrame') /\ DescOK(stack')
    BY <1>1, <1>2 DEF ViTypeOK
  <1>5. ViTypeOK'
    BY <1>1, <1>4 DEF ViTypeOK
  <1>6. HeldOK'
    BY <1>1, <1>2 DEF ViTypeOK, HeldOK, Owed
  <1>7. AnswerOK'
    BY <1>1, <1>2 DEF ViTypeOK, AnswerOK
  <1> QED  BY <1>3, <1>5, <1>6, <1>7

LEMMA GetTimesOutStep == ViInv /\ GetTimesOut => ViInv'
PROOF
  <1> SUFFICES ASSUME ViInv, GetTimesOut PROVE ViInv'
    OBVIOUS
  <1> USE DEF ViInv, Setup, Frames
  <1>1. /\ pc = "GetChnFrame" /\ build = "vpss"
        /\ UNCHANGED <<build, entry, m_bVpssInited, group, inside, ready, vpssHeld, mapped>>
    BY DEF GetTimesOut, Keep, vpssVars, AnswerOK
  <1>2. CASE GoesOn /\ entry = "BGR"
    <2>1. /\ UNCHANGED <<answer, stack, viHeld, refused>>
          /\ \/ /\ pc' = "Mmap"
                /\ stResizedFrame' = [stack EXCEPT !.own = FALSE] /\ wild' = wild + 1
             \/ pc' = "crashed" /\ UNCHANGED <<stResizedFrame, wild>>
      BY <1>2 DEF GoesOn, Goes
    <2>2. DescOK([stack EXCEPT !.own = FALSE]) /\ [stack EXCEPT !.own = FALSE].own = FALSE
      BY DEF ViTypeOK, DescOK
    <2>3. pc' \in {"Mmap", "crashed"} /\ GroupOK'
      BY <1>1, <2>1, SameGroup DEF GroupOK
    <2>4. DescOK(stResizedFrame') /\ (pc' = "Mmap" => stResizedFrame'.own = FALSE)
      <3>1. CASE pc' = "Mmap" /\ stResizedFrame' = [stack EXCEPT !.own = FALSE]
        BY <2>2, <3>1
      <3>2. CASE pc' = "crashed" /\ UNCHANGED stResizedFrame
        BY <3>2 DEF ViTypeOK
      <3> QED  BY <2>1, <3>1, <3>2
    <2>5. ViTypeOK'
      BY <1>1, <2>1, <2>3, <2>4 DEF ViTypeOK
    <2>6. HeldOK'
      BY <1>1, <2>1, <2>3, <2>4 DEF ViTypeOK, HeldOK, Owed
    <2>7. AnswerOK'
      BY <1>1, <1>2, <2>1, <2>3 DEF AnswerOK
    <2> QED  BY <2>3, <2>5, <2>6, <2>7
  <1>3. CASE GivesUp
    <2>1. /\ pc' = "idle" /\ answer' = Failure /\ UNCHANGED <<stResizedFrame, stack, wild>>
          /\ \/ viHeld' = viHeld - 1 /\ UNCHANGED refused
             \/ refused' = refused + 1 /\ UNCHANGED viHeld
      BY <1>3 DEF GivesUp, ReleaseVi, Returns, descriptors
    <2>2. GroupOK'
      BY <1>1, <2>1, SameGroup DEF GroupOK
    <2>3. ViTypeOK' /\ HeldOK'
      BY <1>1, <2>1 DEF ViTypeOK, DescOK, HeldOK, Owed
    <2>4. AnswerOK'
      BY <1>1, <2>1 DEF ViTypeOK, AnswerOK, SuccessHasFrame, Failure
    <2> QED  BY <2>2, <2>3, <2>4
  <1> QED  BY <1>2, <1>3 DEF GetTimesOut, OnTimeout

LEMMA MapStep == ViInv /\ (Mmap \/ Munmap \/ ReleaseVpss) => ViInv'
PROOF
  <1> SUFFICES ASSUME ViInv, Mmap \/ Munmap \/ ReleaseVpss PROVE ViInv'
    OBVIOUS
  <1> USE DEF ViInv, Setup, Frames
  <1>1. UNCHANGED <<build, entry, m_bVpssInited, group, inside, ready, viHeld,
                    stResizedFrame, stack, answer, refused>>
    BY DEF Mmap, Munmap, ReleaseVpss, Keep, Goes, vpssVars, descriptors, faultVars
  <1>2. CASE Mmap
    <2>1. pc = "Mmap" /\ pc' = "Munmap" /\ mapped' = mapped + 1 /\ UNCHANGED <<vpssHeld, wild>>
      BY <1>2 DEF Mmap, Goes
    <2>2. GroupOK'
      BY <1>1, <2>1, SameGroup DEF GroupOK
    <2>3. ViTypeOK' /\ HeldOK'
      BY <1>1, <2>1 DEF ViTypeOK, DescOK, HeldOK, Owed
    <2>4. AnswerOK'
      BY <1>1, <2>1 DEF AnswerOK
    <2> QED  BY <2>2, <2>3, <2>4
  <1>3. CASE Munmap
    <2>1. /\ pc = "Munmap" /\ mapped' = mapped - 1 /\ UNCHANGED <<vpssHeld, wild>>
          /\ pc' = IF build = "vpss" THEN "ReleaseVpss" ELSE "ReleaseVi"
      BY <1>3 DEF Munmap, Goes
    <2>2. GroupOK'
      BY <1>1, <2>1, SameGroup DEF GroupOK
    <2>3. build = "software" => ~stResizedFrame.own
      BY <2>1 DEF AnswerOK
    <2>4. ViTypeOK' /\ HeldOK'
      BY <1>1, <2>1, <2>3 DEF ViTypeOK, DescOK, HeldOK, Owed
    <2>5. AnswerOK'
      BY <1>1, <2>1 DEF ViTypeOK, AnswerOK
    <2> QED  BY <2>2, <2>4, <2>5
  <1>4. CASE ReleaseVpss
    <2>1. /\ build = "vpss" /\ pc = "ReleaseVpss" /\ pc' = "ReleaseVi" /\ mapped' = mapped
          /\ vpssHeld' = vpssHeld - 1 /\ wild' = wild
      BY <1>4 DEF ReleaseVpss, VpssGivenBack, Goes, AnswerOK
    <2>2. GroupOK'
      BY <1>1, <2>1, SameGroup DEF GroupOK
    <2>3. ViTypeOK' /\ HeldOK'
      BY <1>1, <2>1 DEF ViTypeOK, DescOK, HeldOK, Owed
    <2>4. AnswerOK'
      BY <1>1, <2>1 DEF AnswerOK
    <2> QED  BY <2>2, <2>3, <2>4
  <1> QED  BY <1>2, <1>3, <1>4

LEMMA ReturnStep == ViInv /\ Return => ViInv'
PROOF
  <1> SUFFICES ASSUME ViInv, Return PROVE ViInv'
    OBVIOUS
  <1> USE DEF ViInv, Setup, Frames
  <1>1. /\ pc = "ReleaseVi" /\ pc' = "idle"
        /\ UNCHANGED <<build, entry, m_bVpssInited, group, inside, ready, vpssHeld, wild, mapped,
                       stResizedFrame, stack>>
        /\ \/ viHeld' = viHeld - 1 /\ UNCHANGED refused
           \/ refused' = refused + 1 /\ UNCHANGED viHeld
    BY DEF Return, ReleaseVi, Returns, Keep, vpssVars, descriptors
  <1>2. \/ build = "vpss" /\ answer' = Success(stResizedFrame)
        \/ build = "software" /\ answer' \in {Success(Received(0)), Failure}
    BY DEF Return, Returns, ViTypeOK
  <1>3. GroupOK'
    BY <1>1, SameGroup DEF GroupOK
  <1>4. ViTypeOK' /\ HeldOK'
    BY <1>1 DEF ViTypeOK, DescOK, HeldOK, Owed
  <1>5. build = "software" \/ entry = "NV21" => SuccessHasFrame'
    BY <1>1, <1>2 DEF AnswerOK, ViTypeOK, SuccessHasFrame, Success, Failure, Received
  <1>6. AnswerOK'
    BY <1>1, <1>5 DEF AnswerOK
  <1> QED  BY <1>3, <1>4, <1>6

-----------------------------------------------------------------------------
LEMMA ViStep == ViInv /\ [ViNext]_viVars => ViInv'
PROOF
  <1> SUFFICES ASSUME ViInv, [ViNext]_viVars PROVE ViInv'
    OBVIOUS
  <1>1. CASE UNCHANGED viVars
    <2>1. UNCHANGED <<build, entry, pc, m_bVpssInited, group, inside, ready, viHeld, vpssHeld,
                      wild, mapped, stResizedFrame, stack, answer, refused>>
      BY <1>1 DEF viVars, vpssVars, resources, descriptors, faultVars
    <2>2. ViTypeOK' /\ GroupOK' /\ HeldOK'
      BY <2>1 DEF ViInv, ViTypeOK, DescOK, GroupOK, HeldOK, Owed
    <2>3. AnswerOK'
      BY <2>1 DEF ViInv, AnswerOK, SuccessHasFrame
    <2> QED  BY <2>2, <2>3 DEF ViInv
  <1>2. CASE ViNext
    BY <1>2, SetupStep, ScaleStep, CaptureStep, SendFrameStep, GetChnFrameStep,
       GetTimesOutStep, MapStep, ReturnStep DEF ViNext, getFrame
  <1> QED  BY <1>1, <1>2

LEMMA ViAlways == ViSpec => []ViInv
PROOF
  BY ViInitInv, ViStep, PTL DEF ViSpec

-----------------------------------------------------------------------------
(* How far a result can lag.  The frames in the VPSS and its result are in *)
(* the order they were sent in, and the oldest has been passed by no more  *)
(* frames than there were timeouts, this call's own not counted.           *)
Passed == IF pc = "GetChnFrame" THEN timeouts + 1 ELSE timeouts

InOrder ==
  /\ inside \in Seq(Nat) /\ ready \in Seq(Nat) /\ Len(ready) <= 1
  /\ timeouts \in Nat
  /\ \A m, n \in 1..Len(inside) : m < n => inside[m] > inside[n]
  /\ ready # <<>> => \A n \in 1..Len(inside) : ready[1] > inside[n]
Recent ==
  /\ \A n \in 1..Len(inside) : inside[n] < Passed
  /\ ready # <<>> => ready[1] < Passed
TakenRecent ==
  pc \in {"Mmap", "Munmap", "ReleaseVpss", "ReleaseVi"} /\ stResizedFrame.own
    => stResizedFrame.age <= timeouts

LagInv == InOrder /\ Recent /\ TakenRecent

LEMMA SameLength ==
  ASSUME NEW m \in Nat, NEW n \in Nat, 1..m = 1..n
  PROVE  m = n
PROOF
  <1>1. m # 0 => m \in 1..n
    OBVIOUS
  <1>2. n # 0 => n \in 1..m
    OBVIOUS
  <1> QED  BY <1>1, <1>2

LEMMA AgedFrames ==
  ASSUME NEW s \in Seq(Nat)
  PROVE  /\ Aged(s) \in Seq(Nat) /\ Len(Aged(s)) = Len(s) /\ Len(s) \in Nat
         /\ \A n \in 1..Len(s) : s[n] \in Nat /\ Aged(s)[n] = s[n] + 1
         /\ s = <<>> <=> Len(s) = 0
         /\ Aged(s) = <<>> <=> s = <<>>
PROOF
  <1>1. Len(s) \in Nat /\ s \in [1..Len(s) -> Nat]
    BY LenProperties
  <1>2. Aged(s) \in [1..Len(s) -> Nat]
    BY <1>1 DEF Aged
  <1>3. Aged(s) \in Seq(Nat)
    BY <1>1, <1>2, SeqDef
  <1>4. DOMAIN Aged(s) = 1..Len(s) /\ DOMAIN Aged(s) = 1..Len(Aged(s)) /\ Len(Aged(s)) \in Nat
    BY <1>2, <1>3, LenProperties
  <1>5. Len(Aged(s)) = Len(s)
    BY <1>1, <1>4, SameLength
  <1>6. /\ s = <<>> <=> Len(s) = 0
        /\ Aged(s) = <<>> <=> Len(Aged(s)) = 0
    BY <1>3, EmptySeq
  <1>7. \A n \in 1..Len(s) : s[n] \in Nat /\ Aged(s)[n] = s[n] + 1
    BY <1>1 DEF Aged
  <1> QED  BY <1>1, <1>3, <1>5, <1>6, <1>7

LEMMA LagInit == ViInit => LagInv
PROOF
  <1>1. <<>> \in Seq(Nat) /\ Len(<<>>) = 0
    BY EmptySeq
  <1> QED  BY <1>1 DEF ViInit, LagInv, InOrder, Recent, TakenRecent, Passed

(* What neither sends a frame nor takes one.                               *)
LEMMA QuietLag ==
  ASSUME LagInv, UNCHANGED <<inside, ready, timeouts>>,
         pc # "GetChnFrame", pc' # "GetChnFrame",
         pc' \in {"Mmap", "Munmap", "ReleaseVpss", "ReleaseVi"} =>
           \/ stResizedFrame' = NoFrame
           \/ /\ stResizedFrame' = stResizedFrame
              /\ pc \in {"Mmap", "Munmap", "ReleaseVpss", "ReleaseVi"}
  PROVE  LagInv'
PROOF
  <1>1. InOrder' /\ Recent'
    BY DEF LagInv, InOrder, Recent, Passed
  <1>2. TakenRecent'
    BY DEF LagInv, TakenRecent, NoFrame
  <1> QED  BY <1>1, <1>2 DEF LagInv

LEMMA DeinitLag == LagInv /\ deinitVpssResize => LagInv'
PROOF
  <1> SUFFICES ASSUME LagInv, deinitVpssResize PROVE LagInv'
    OBVIOUS
  <1>1. pc' = "idle" /\ inside' = <<>> /\ ready' = <<>> /\ timeouts' = 0
    BY DEF deinitVpssResize, Idle
  <1>2. <<>> \in Seq(Nat) /\ Len(<<>>) = 0
    BY EmptySeq
  <1> QED  BY <1>1, <1>2 DEF LagInv, InOrder, Recent, TakenRecent

LEMMA ScaleLag == LagInv /\ Scale => LagInv'
PROOF
  <1> SUFFICES ASSUME LagInv, Scale PROVE LagInv'
    OBVIOUS
  <1>1. /\ inside # <<>> /\ inside' = Tail(inside)
        /\ ready' = <<Head(inside)>> \/ (ready # <<>> /\ UNCHANGED ready)
        /\ UNCHANGED <<pc, timeouts, stResizedFrame>>
    BY DEF Scale, descriptors, faultVars
  <1>2. /\ Tail(inside) \in Seq(Nat) /\ Len(inside) \in Nat \ {0}
        /\ Len(Tail(inside)) = Len(inside) - 1
        /\ \A n \in 1..Len(Tail(inside)) : Tail(inside)[n] = inside[n + 1]
        /\ Head(inside) = inside[1] /\ Head(inside) \in Nat
    BY <1>1, HeadTailProperties, EmptySeq DEF LagInv, InOrder
  <1>3. \A n \in 1..Len(inside) : inside[n] \in Nat
    BY ElementOfSeq DEF LagInv, InOrder
  <1>4. CASE ready' = <<Head(inside)>>
    <2>1. ready' \in Seq(Nat) /\ Len(ready') = 1 /\ ready'[1] = inside[1]
      BY <1>2, <1>4
    <2>2. InOrder'
      <3>1. ASSUME NEW n \in 1..Len(inside')
            PROVE  n + 1 \in 1..Len(inside) /\ inside'[n] = inside[n + 1]
        BY <1>1, <1>2
      <3>2. \A m, n \in 1..Len(inside') : m < n => inside'[m] > inside'[n]
        <4> SUFFICES ASSUME NEW m \in 1..Len(inside'), NEW n \in 1..Len(inside'), m < n
                     PROVE  inside'[m] > inside'[n]
          OBVIOUS
        <4>1. m \in Int /\ n \in Int /\ m + 1 < n + 1
          BY <1>1, <1>2
        <4> QED  BY <3>1, <4>1 DEF LagInv, InOrder
      <3>3. \A n \in 1..Len(inside') : ready'[1] > inside'[n]
        <4> SUFFICES ASSUME NEW n \in 1..Len(inside') PROVE ready'[1] > inside'[n]
          OBVIOUS
        <4>1. 1 \in 1..Len(inside) /\ 1 < n + 1
          BY <1>1, <1>2
        <4> QED  BY <2>1, <3>1, <4>1 DEF LagInv, InOrder
      <3>4. inside' \in Seq(Nat) /\ timeouts' \in Nat
        BY <1>1, <1>2 DEF LagInv, InOrder
      <3> QED  BY <2>1, <3>2, <3>3, <3>4 DEF InOrder
    <2>3. Recent' /\ TakenRecent'
      BY <1>1, <1>2, <2>1 DEF LagInv, Recent, TakenRecent, Passed
    <2> QED  BY <2>2, <2>3 DEF LagInv
  <1>5. CASE ready # <<>> /\ UNCHANGED ready
    <2>1. InOrder'
      BY <1>1, <1>2, <1>3, <1>5 DEF LagInv, InOrder
    <2>2. Recent' /\ TakenRecent'
      BY <1>1, <1>2, <1>5 DEF LagInv, Recent, TakenRecent, Passed
    <2> QED  BY <2>1, <2>2 DEF LagInv
  <1> QED  BY <1>1, <1>4, <1>5

LEMMA SendLag == LagInv /\ SendFrame => LagInv'
PROOF
  <1> SUFFICES ASSUME LagInv, SendFrame PROVE LagInv'
    OBVIOUS
  <1>1. pc = "SendFrame" /\ UNCHANGED timeouts
    BY DEF SendFrame
  <1>2. CASE SendFails
    BY <1>1, <1>2, QuietLag DEF SendFails, Returns, NothingInside
  <1>3. CASE Send
    <2>1. pc' = "GetChnFrame" /\ inside' = Append(Aged(inside), 0) /\ ready' = Aged(ready)
      BY <1>3 DEF Send, Sent, Goes
    <2>2. /\ inside \in Seq(Nat) /\ ready \in Seq(Nat) /\ Len(ready) <= 1 /\ timeouts \in Nat
      BY DEF LagInv, InOrder
    <2>3. /\ Aged(inside) \in Seq(Nat) /\ Len(Aged(inside)) = Len(inside)
          /\ Len(inside) \in Nat
          /\ \A n \in 1..Len(inside) : inside[n] \in Nat /\ Aged(inside)[n] = inside[n] + 1
      BY <2>2, AgedFrames
    <2>4. /\ ready' \in Seq(Nat) /\ Len(ready') <= 1
          /\ ready' # <<>> => ready # <<>> /\ ready[1] \in Nat /\ ready'[1] = ready[1] + 1
      <3>1. /\ ready' \in Seq(Nat) /\ Len(ready') = Len(ready) /\ Len(ready) \in Nat
            /\ \A n \in 1..Len(ready) : ready[n] \in Nat /\ ready'[n] = ready[n] + 1
            /\ ready = <<>> <=> Len(ready) = 0
            /\ ready' = <<>> <=> ready = <<>>
        BY <2>1, <2>2, AgedFrames
      <3>2. ready # <<>> => 1 \in 1..Len(ready)
        BY <3>1
      <3> QED  BY <2>2, <3>1, <3>2
    <2>5. /\ inside' \in Seq(Nat) /\ Len(inside') = Len(inside) + 1
          /\ \A n \in 1..Len(inside) : inside'[n] = inside[n] + 1
          /\ inside'[Len(inside) + 1] = 0
      BY <2>1, <2>3, AppendProperties
    <2>6. ASSUME NEW n \in 1..Len(inside')
          PROVE  \/ n \in 1..Len(inside) /\ inside[n] \in Nat /\ inside'[n] = inside[n] + 1
                 \/ n = Len(inside) + 1 /\ inside'[n] = 0
      BY <2>3, <2>5
    <2>7. InOrder'
      <3>1. \A m, n \in 1..Len(inside') : m < n => inside'[m] > inside'[n]
        <4> SUFFICES ASSUME NEW m \in 1..Len(inside'), NEW n \in 1..Len(inside'), m < n
                     PROVE  inside'[m] > inside'[n]
          OBVIOUS
        <4>1. m \in 1..Len(inside) /\ inside[m] \in Nat /\ inside'[m] = inside[m] + 1
          BY <2>3, <2>5, <2>6
        <4>2. CASE n \in 1..Len(inside) /\ inside[n] \in Nat /\ inside'[n] = inside[n] + 1
          <5>1. inside[m] > inside[n]
            BY <4>1, <4>2 DEF LagInv, InOrder
          <5> QED  BY <4>1, <4>2, <5>1
        <4>3. CASE inside'[n] = 0
          BY <4>1, <4>3
        <4> QED  BY <2>6, <4>2, <4>3
      <3>2. ASSUME ready' # <<>>, NEW n \in 1..Len(inside')
            PROVE  ready'[1] > inside'[n]
        <4>1. ready # <<>> /\ ready[1] \in Nat /\ ready'[1] = ready[1] + 1
          BY <2>4, <3>2
        <4>2. CASE n \in 1..Len(inside) /\ inside[n] \in Nat /\ inside'[n] = inside[n] + 1
          <5>1. ready[1] > inside[n]
            BY <4>1, <4>2 DEF LagInv, InOrder
          <5> QED  BY <4>1, <4>2, <5>1
        <4>3. CASE inside'[n] = 0
          BY <4>1, <4>3
        <4> QED  BY <2>6, <4>2, <4>3
      <3> QED  BY <1>1, <2>2, <2>4, <2>5, <3>1, <3>2 DEF InOrder
    <2>8. Recent'
      <3>1. Passed' = timeouts + 1 /\ Passed = timeouts
        BY <1>1, <2>1 DEF Passed
      <3>2. ASSUME NEW n \in 1..Len(inside') PROVE inside'[n] < Passed'
        <4>1. CASE n \in 1..Len(inside) /\ inside[n] \in Nat /\ inside'[n] = inside[n] + 1
          <5>1. inside[n] < timeouts
            BY <3>1, <4>1 DEF LagInv, Recent
          <5> QED  BY <2>2, <3>1, <4>1, <5>1
        <4>2. CASE inside'[n] = 0
          BY <2>2, <3>1, <4>2
        <4> QED  BY <2>6, <4>1, <4>2
      <3>3. ready' # <<>> => ready'[1] < Passed'
        BY <2>2, <2>4, <3>1 DEF LagInv, Recent
      <3> QED  BY <3>2, <3>3 DEF Recent
    <2> QED  BY <2>1, <2>7, <2>8 DEF LagInv, TakenRecent
  <1> QED  BY <1>2, <1>3 DEF SendFrame

LEMMA GetLag == LagInv /\ GetChnFrame => LagInv'
PROOF
  <1> SUFFICES ASSUME LagInv, GetChnFrame PROVE LagInv'
    OBVIOUS
  <1>1. /\ pc = "GetChnFrame" /\ pc' = "Mmap" /\ ready # <<>> /\ ready' = <<>>
        /\ UNCHANGED <<inside, timeouts>>
        /\ stResizedFrame' = Received(ready[1])
    BY DEF GetChnFrame, Goes, faultVars
  <1>2. <<>> \in Seq(Nat) /\ Len(<<>>) = 0
    BY EmptySeq
  <1>3. /\ ready[1] \in Nat /\ timeouts \in Nat
        /\ \A n \in 1..Len(inside) : inside[n] \in Nat
    BY <1>1, EmptySeq, ElementOfSeq DEF LagInv, InOrder
  <1>4. ready[1] <= timeouts /\ \A n \in 1..Len(inside) : inside[n] < timeouts
    BY <1>1, <1>3 DEF LagInv, InOrder, Recent, Passed
  <1>5. InOrder'
    BY <1>1, <1>2 DEF LagInv, InOrder
  <1>6. Recent'
    BY <1>1, <1>4 DEF Recent, Passed
  <1>7. TakenRecent'
    BY <1>1, <1>4 DEF TakenRecent, Received
  <1> QED  BY <1>5, <1>6, <1>7 DEF LagInv

LEMMA TimeoutLag == ViInv /\ LagInv /\ GetTimesOut => LagInv'
PROOF
  <1> SUFFICES ASSUME ViInv, LagInv, GetTimesOut PROVE LagInv'
    OBVIOUS
  <1>1. /\ pc = "GetChnFrame" /\ timeouts' = timeouts + 1
        /\ UNCHANGED <<inside, ready>>
        /\ \/ GoesOn
           \/ GivesUp
    BY DEF GetTimesOut, vpssVars, OnTimeout
  <1>2. pc' # "GetChnFrame" /\ (pc' \in {"idle", "crashed"} \/ stResizedFrame'.own = FALSE)
    <2>1. CASE GoesOn
      BY <2>1 DEF GoesOn, Goes, ViInv, ViTypeOK, DescOK
    <2>2. CASE GivesUp
      BY <2>2 DEF GivesUp, Returns
    <2> QED  BY <1>1, <2>1, <2>2
  <1>3. InOrder'
    BY <1>1 DEF LagInv, InOrder
  <1>4. Recent'
    BY <1>1, <1>2 DEF LagInv, Recent, Passed
  <1>5. TakenRecent'
    BY <1>2 DEF TakenRecent
  <1> QED  BY <1>3, <1>4, <1>5 DEF LagInv

LEMMA LagStep == ViInv /\ LagInv /\ [ViNext]_viVars => LagInv'
PROOF
  <1> SUFFICES ASSUME ViInv, LagInv, [ViNext]_viVars PROVE LagInv'
    OBVIOUS
  <1>1. CASE UNCHANGED viVars
    BY <1>1 DEF viVars, vpssVars, descriptors, faultVars, LagInv, InOrder, Recent,
         TakenRecent, Passed
  <1>2. CASE initVpssResize
    BY <1>2, QuietLag DEF initVpssResize, CreateGrp, SetChnAttr, EnableChn, StartGrp, Idle,
         NothingInside, NoCapture, faultVars
  <1>3. ASSUME NEW function \in {"BGR", "NV21"}, Capture(function) PROVE LagInv'
    BY <1>3, QuietLag DEF Capture, Goes, Returns, vpssVars, faultVars
  <1>4. CASE Mmap \/ Munmap \/ ReleaseVpss
    BY <1>4, QuietLag DEF Mmap, Munmap, ReleaseVpss, Goes, vpssVars, descriptors, faultVars
  <1>5. CASE Return
    BY <1>5, QuietLag DEF Return, Returns, vpssVars
  <1> QED  BY <1>1, <1>2, <1>3, <1>4, <1>5, DeinitLag, ScaleLag, SendLag, GetLag, TimeoutLag
       DEF ViNext, getFrame

(* Between two frames VI lacks only what it refused to take back, nothing  *)
(* is mapped, and the VPSS has had as many releases as it gave frames, and *)
(* one more for each call that went on with a descriptor nobody wrote.     *)
THEOREM ViGivesBack == ViSpec => []AllGivenBack
PROOF
  <1>1. ViInv => AllGivenBack
    BY DEF ViInv, ViTypeOK, HeldOK, Owed, AllGivenBack
  <1> QED  BY <1>1, ViAlways, PTL

(* Whatever step of initVpssResize() fails, the group exists all or not at *)
(* all, and only a running one has frames.                                 *)
THEOREM ViGroupAllOrNothing == ViSpec => []VpssAllOrNothing
PROOF
  <1>1. ViInv => VpssAllOrNothing
    BY DEF ViInv, GroupOK, Setup, VpssAllOrNothing
  <1> QED  BY <1>1, ViAlways, PTL

(* getFrameAsNV21() and the software build never report success without a  *)
(* frame of this very call.                                                *)
THEOREM ViSuccessHasFrame == ViSpec => []SuccessHasFrameNV21
PROOF
  <1>1. ViInv => SuccessHasFrameNV21
    BY DEF ViInv, AnswerOK, SuccessHasFrameNV21
  <1> QED  BY <1>1, ViAlways, PTL

(* A result lags by at most one frame for each time the VPSS was late.     *)
THEOREM ViLagNeedsTimeouts == ViSpec => LagNeedsTimeouts
PROOF
  <1>1. ViInit => ViInv /\ LagInv
    BY ViInitInv, LagInit
  <1>2. ViInv /\ LagInv /\ [ViNext]_viVars => ViInv' /\ LagInv'
    BY ViStep, LagStep
  <1>3. ViInv /\ LagInv /\ [ViNext]_viVars
          => [Return /\ answer'.ret = "CVI_SUCCESS" /\ answer'.frame.own
                => answer'.frame.age <= timeouts]_viVars
    <2> SUFFICES ASSUME ViInv, LagInv, Return, answer'.ret = "CVI_SUCCESS", answer'.frame.own
                 PROVE  answer'.frame.age <= timeouts
      OBVIOUS
    <2>1. pc = "ReleaseVi" /\ timeouts \in Nat
      BY DEF Return, LagInv, InOrder
    <2>2. answer' \in {Success(stResizedFrame), Success(Received(0)), Failure}
      BY DEF Return, Returns
    <2>3. CASE answer' = Success(stResizedFrame)
      BY <2>1, <2>3 DEF LagInv, TakenRecent, Success
    <2>4. CASE answer' = Success(Received(0))
      BY <2>1, <2>4 DEF Success, Received
    <2>5. CASE answer' = Failure
      BY <2>5 DEF Failure
    <2> QED  BY <2>2, <2>3, <2>4, <2>5
  <1> QED  BY <1>1, <1>2, <1>3, PTL DEF ViSpec, LagNeedsTimeouts
=============================================================================

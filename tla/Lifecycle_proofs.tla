-------------------------- MODULE Lifecycle_proofs --------------------------
(* That every way out of the program leaves the wheels at rest, and VPSS   *)
(* down before SYS and the model freed once as far as the program's own    *)
(* handlers go, for any signals and builds.                                *)
EXTENDS Lifecycle, SequenceTheorems, TLAPS

Kinds == {"inline", "own", "vendor"}
Steps == {"standby", "vpss", "halting", "camera", "closing", "model", "freeing", "sys",
          "stopping", "exit", "flushing", "hung"}
Frames == [kind : Kinds, sig : Signals \cup {"none"}, step : Steps]
Last    == {"exit", "flushing", "hung"}
(* What comes when VPSS has been seen to. *)
Cleaned == {"halting", "camera", "closing", "model", "freeing"} \cup Last

StateOK ==
  /\ camera \in Cameras
  /\ pc \in {"start", "motor", "camera", "vpss", "model", "register", "loop",
             "return"} \cup Ended
  /\ handler \in [Signals -> {"default", "own", "vendor"}]
  /\ wheels \in {"still", "turning"}
  /\ stack \in Seq(Frames)

(* The program's own handlers are in force from the first statement on, if *)
(* the camera does not replace them; the vendor's, once it has.            *)
HandlersOK ==
  /\ camera = "UVC" => \A s \in Signals :
       /\ handler[s] \in {"default", "own"}
       /\ pc \notin {"start"} \cup Ended => handler[s] = "own"
  /\ camera = "VI" /\ pc \in {"vpss", "model", "register", "loop"} =>
       \A s \in Signals : handler[s] \in {"default", "vendor"}

(* What is acquired and known where main is.                               *)
MainOK ==
  /\ pc \in {"start", "motor", "camera", "vpss"} => "vpss" \notin held
  /\ pc = "return" /\ stack = <<>> => "vpss" \notin held
  /\ "vpss" \in held => "capture" \in known
  /\ pc \in {"camera", "vpss", "model", "register", "loop"} => {"motor", "capture"} \subseteq known
  /\ pc = "register" => "model" \in held
  /\ "model" \in known => pc \in {"loop"} \cup Ended
  /\ wheels = "turning" /\ camera = "UVC" => pc = "loop"

(* What each handler or cleanup on the stack has behind it.                *)
FrameOK(f) ==
  /\ f.kind = "inline" => "model" \notin known /\ pc \in {"return"} \cup Ended
  /\ f.kind # "inline" => f.sig \in Signals
  /\ f.kind = "vendor" => camera = "VI" /\ f.step \in {"sys", "stopping"} \cup Last
  /\ f.kind # "vendor" => /\ f.step \notin {"sys", "stopping"}
                          /\ f.step \in Cleaned => "vpss" \notin held
  /\ camera = "VI" /\ "model" \in known => f.kind = "vendor"
  /\ camera = "UVC" /\ wheels = "turning" => f.step = "standby"

FramesOK == \A n \in 1..Len(stack) : FrameOK(stack[n])

DistinctSignals ==
  \A m, n \in 1..Len(stack) :
    stack[m].sig = stack[n].sig /\ stack[m].sig # "none" => m = n

(* A model that is gone was freed by a handler that is still on the stack. *)
ModelOK ==
  "model" \in known \ held =>
    \E n \in 1..Len(stack) : stack[n].kind = "own" /\ stack[n].step \in {"freeing"} \cup Last

(* A failed model load puts its cleanup at the bottom of the stack.        *)
CleanupAtBottom == \A n \in 1..Len(stack) : stack[n].kind = "inline" => n = 1

LifeInv ==
  /\ StateOK /\ HandlersOK /\ MainOK /\ FramesOK /\ DistinctSignals /\ ModelOK
  /\ WheelsRestInOwnHands /\ VpssGoesBeforeSys /\ ModelFreedTwiceOnlyNested

-----------------------------------------------------------------------------
(* The stack *)

LEMMA ContinueFacts ==
  ASSUME stack \in Seq(Frames), stack # <<>>, NEW next \in Steps, Continue(next)
  PROVE  /\ Len(stack) \in Nat \ {0} /\ Len(stack) \in 1..Len(stack)
         /\ Top = stack[Len(stack)] /\ Top \in Frames
         /\ stack' \in Seq(Frames) /\ Len(stack') = Len(stack) /\ stack' # <<>>
         /\ \A n \in 1..Len(stack) :
              /\ stack[n] \in Frames /\ stack'[n] \in Frames
              /\ stack'[n].kind = stack[n].kind /\ stack'[n].sig = stack[n].sig
              /\ n # Len(stack) => stack'[n] = stack[n]
         /\ stack'[Len(stack)].step = next
         /\ Blocked' = Blocked
PROOF
  <1>1. Len(stack) \in Nat \ {0} /\ Len(stack) \in 1..Len(stack)
    BY LenProperties, EmptySeq
  <1>2. \A n \in 1..Len(stack) : stack[n] \in Frames
    BY ElementOfSeq
  <1> DEFINE f == [stack[Len(stack)] EXCEPT !.step = next]
  <1>3. f \in Frames /\ f.kind = stack[Len(stack)].kind /\ f.sig = stack[Len(stack)].sig
        /\ f.step = next
    BY <1>1, <1>2 DEF Frames
  <1>4. stack' = [stack EXCEPT ![Len(stack)] = f]
    BY DEF Continue
  <1>5. /\ stack' \in Seq(Frames) /\ Len(stack') = Len(stack)
        /\ \A n \in 1..Len(stack) : stack'[n] = IF n = Len(stack) THEN f ELSE stack[n]
    <2> HIDE DEF f
    <2> QED  BY <1>1, <1>3, <1>4, ExceptSeq
  <1>6. stack' # <<>>
    BY <1>1, <1>5, EmptySeq
  <1>7. \A n \in 1..Len(stack) :
          /\ stack[n] \in Frames /\ stack'[n] \in Frames
          /\ stack'[n].kind = stack[n].kind /\ stack'[n].sig = stack[n].sig
          /\ n # Len(stack) => stack'[n] = stack[n]
    <2> HIDE DEF f
    <2> QED  BY <1>2, <1>3, <1>5
  <1>8. Blocked' = Blocked
    BY <1>5, <1>7 DEF Blocked
  <1> HIDE DEF f
  <1> QED  BY <1>1, <1>2, <1>3, <1>5, <1>6, <1>7, <1>8 DEF Top

(* A step of the innermost handler keeps the invariant, if it takes VPSS   *)
(* down before it goes on to the rest and frees the model last.            *)
LEMMA HandlerGoesOn ==
  ASSUME LifeInv, stack # <<>>, pc \notin Ended, NEW next \in Steps, Continue(next),
         UNCHANGED <<camera, pc, handler, known>>,
         held' \subseteq held, wheels' \in {wheels, "still"},
         Top.kind = "vendor" => next \in {"stopping"} \cup Last,
         Top.kind # "vendor" => next \notin {"sys", "stopping"},
         Top.kind # "vendor" /\ next \in Cleaned => "vpss" \notin held',
         camera = "UVC" /\ wheels' = "turning" => next = "standby",
         Top.step \in {"freeing"} \cup Last => next \in Last,
         "model" \in known /\ "model" \in held \ held' =>
           Top.kind = "own" /\ next \in {"freeing"} \cup Last,
         "model" \notin known => ("model" \in held => "model" \in held'),
         "vpss" \in misuse' \ misuse => Top.kind = "vendor",
         "model" \in misuse' \ misuse =>
           Blocked = {"SIGINT", "SIGTERM"} /\ \A n \in 1..Len(stack) : stack[n].kind = "own"
  PROVE  LifeInv'
PROOF
  <1>1. /\ Len(stack) \in Nat \ {0} /\ Len(stack) \in 1..Len(stack)
        /\ Top = stack[Len(stack)] /\ Top \in Frames
        /\ stack' \in Seq(Frames) /\ Len(stack') = Len(stack) /\ stack' # <<>>
        /\ \A n \in 1..Len(stack) :
             /\ stack[n] \in Frames /\ stack'[n] \in Frames
             /\ stack'[n].kind = stack[n].kind /\ stack'[n].sig = stack[n].sig
             /\ n # Len(stack) => stack'[n] = stack[n]
        /\ stack'[Len(stack)].step = next
        /\ Blocked' = Blocked
    BY ContinueFacts DEF LifeInv, StateOK
  <1>2. StateOK'
    BY <1>1 DEF LifeInv, StateOK
  <1>3. HandlersOK'
    BY DEF LifeInv, HandlersOK
  <1>4. MainOK'
    BY <1>1 DEF LifeInv, MainOK
  <1>5. FramesOK'
    <2> SUFFICES ASSUME NEW n \in 1..Len(stack) PROVE FrameOK(stack[n])'
      BY <1>1 DEF FramesOK
    <2>1. FrameOK(stack[n])
      BY DEF LifeInv, FramesOK
    <2>2. CASE n = Len(stack)
      BY <1>1, <2>1, <2>2 DEF FrameOK
    <2>3. CASE n # Len(stack)
      BY <1>1, <2>1, <2>3 DEF FrameOK
    <2> QED  BY <2>2, <2>3
  <1>6. DistinctSignals'
    BY <1>1 DEF LifeInv, DistinctSignals
  <1>7. ModelOK'
    <2> SUFFICES ASSUME "model" \in known, "model" \notin held'
                 PROVE  \E n \in 1..Len(stack) :
                          stack'[n].kind = "own" /\ stack'[n].step \in {"freeing"} \cup Last
      BY <1>1 DEF ModelOK
    <2>1. CASE "model" \in held
      BY <1>1, <2>1
    <2>2. CASE "model" \notin held
      <3>1. PICK n \in 1..Len(stack) :
              stack[n].kind = "own" /\ stack[n].step \in {"freeing"} \cup Last
        BY <2>2 DEF LifeInv, ModelOK
      <3>2. CASE n = Len(stack)
        BY <1>1, <3>1, <3>2
      <3>3. CASE n # Len(stack)
        BY <1>1, <3>1, <3>3
      <3> QED  BY <3>2, <3>3
    <2> QED  BY <2>1, <2>2
  <1>8. WheelsRestInOwnHands' /\ VpssGoesBeforeSys'
    <2>1. WheelsRestInOwnHands'
      BY DEF WheelsRestInOwnHands, WheelsRestAtEnd
    <2>2. CASE "vpss" \in misuse
      <3>1. PICK n \in 1..Len(stack) : stack[n].kind = "vendor"
        BY <2>2 DEF LifeInv, VpssGoesBeforeSys
      <3> QED  BY <1>1, <2>1, <3>1 DEF VpssGoesBeforeSys
    <2>3. CASE "vpss" \notin misuse
      BY <1>1, <2>1, <2>3 DEF VpssGoesBeforeSys
    <2> QED  BY <2>2, <2>3
  <1>9. ModelFreedTwiceOnlyNested'
    BY <1>1 DEF LifeInv, ModelFreedTwiceOnlyNested
  <1> QED  BY <1>2, <1>3, <1>4, <1>5, <1>6, <1>7, <1>8, <1>9 DEF LifeInv

-----------------------------------------------------------------------------
(* The handlers' steps *)

LEMMA TopFacts ==
  ASSUME LifeInv, stack # <<>>
  PROVE  /\ Len(stack) \in 1..Len(stack) /\ Top = stack[Len(stack)] /\ Top \in Frames
         /\ FrameOK(Top)
PROOF
  <1>1. Len(stack) \in 1..Len(stack)
    BY LenProperties, EmptySeq DEF LifeInv, StateOK
  <1>2. stack[Len(stack)] \in Frames
    BY <1>1, ElementOfSeq DEF LifeInv, StateOK
  <1> QED  BY <1>1, <1>2 DEF Top, LifeInv, FramesOK

LEMMA StandbyStep == LifeInv /\ StepStandby /\ UNCHANGED camera => LifeInv'
PROOF
  <1> SUFFICES ASSUME LifeInv, StepStandby, UNCHANGED camera PROVE LifeInv'
    OBVIOUS
  <1>1. /\ stack # <<>> /\ pc \notin Ended /\ Top.step = "standby"
        /\ Continue("vpss") /\ UNCHANGED <<pc, handler, known, held, inCall, misuse>>
        /\ wheels' = IF "motor" \in known THEN "still" ELSE wheels
    BY DEF StepStandby, At, StopWheels
  <1>2. FrameOK(Top)
    BY <1>1, TopFacts
  <1>3. Top.kind # "vendor"
    BY <1>1, <1>2 DEF FrameOK, Last
  <1>4. ~(camera = "UVC" /\ wheels' = "turning")
    BY <1>1 DEF LifeInv, MainOK, StateOK
  <1> QED  BY <1>1, <1>3, <1>4, HandlerGoesOn DEF Steps, Cleaned, Last

LEMMA VpssStep == LifeInv /\ StepVpss /\ UNCHANGED camera => LifeInv'
PROOF
  <1> SUFFICES ASSUME LifeInv, StepVpss, UNCHANGED camera PROVE LifeInv'
    OBVIOUS
  <1>1. /\ stack # <<>> /\ pc \notin Ended /\ Top.step = "vpss"
        /\ UNCHANGED <<pc, handler, known, wheels, inCall, misuse>>
        /\ held' = IF "capture" \in known THEN held \ {"vpss"} ELSE held
    BY DEF StepVpss, At, TakeVpssDown
  <1>2. FrameOK(Top)
    BY <1>1, TopFacts
  <1>3. Top.kind # "vendor" /\ ~(camera = "UVC" /\ wheels = "turning")
    BY <1>1, <1>2 DEF FrameOK, Last, LifeInv, StateOK
  <1>4. held' \subseteq held /\ "vpss" \notin held' /\ ("model" \in held => "model" \in held')
    BY <1>1 DEF LifeInv, MainOK
  <1>5. PICK next \in {"halting", "camera"} : Continue(next)
    BY DEF StepVpss
  <1> QED  BY <1>1, <1>3, <1>4, <1>5, HandlerGoesOn DEF Steps, Last

LEMMA CameraStep == LifeInv /\ StepCamera /\ UNCHANGED camera => LifeInv'
PROOF
  <1> SUFFICES ASSUME LifeInv, StepCamera, UNCHANGED camera PROVE LifeInv'
    OBVIOUS
  <1>1. /\ stack # <<>> /\ pc \notin Ended /\ Top.step = "camera"
        /\ UNCHANGED <<pc, handler, known, wheels, inCall>>
        /\ held' = IF "capture" \in known THEN held \ {"camera", "sys"} ELSE held
        /\ misuse' = misuse \cup (held \cap {"vpss"}) /\ Continue("closing")
    BY DEF StepCamera, At
  <1>3. FrameOK(Top)
    BY <1>1, TopFacts
  <1>4. Top.kind # "vendor" /\ "vpss" \notin held /\ ~(camera = "UVC" /\ wheels = "turning")
    BY <1>1, <1>3 DEF FrameOK, Cleaned, Last
  <1>5. held' \subseteq held /\ ("model" \in held => "model" \in held') /\ misuse' = misuse
    BY <1>1, <1>4
  <1> QED  BY <1>1, <1>4, <1>5, HandlerGoesOn DEF Steps, Last

LEMMA ModelStep == LifeInv /\ StepModel /\ UNCHANGED camera => LifeInv'
PROOF
  <1> SUFFICES ASSUME LifeInv, StepModel, UNCHANGED camera PROVE LifeInv'
    OBVIOUS
  <1>1. /\ stack # <<>> /\ pc \notin Ended /\ Top.step = "model"
        /\ UNCHANGED <<pc, handler, known, wheels, inCall>>
    BY DEF StepModel, At
  <1>2. PICK next \in {"freeing", "exit"} :
          /\ Continue(next)
          /\ IF "model" \in known
             THEN held' = held \ {"model"} /\ misuse' = misuse \cup ({"model"} \ held)
             ELSE held' = held /\ misuse' = misuse
    BY DEF StepModel, Free
  <1>3. /\ FrameOK(Top) /\ Top \in Frames
        /\ Len(stack) \in 1..Len(stack) /\ Top = stack[Len(stack)]
    BY <1>1, TopFacts
  <1>4. Top.kind # "vendor" /\ "vpss" \notin held /\ ~(camera = "UVC" /\ wheels = "turning")
    BY <1>1, <1>3 DEF FrameOK, Cleaned, Last
  <1>5. "model" \in known => Top.kind = "own" /\ camera # "VI"
    BY <1>3, <1>4 DEF FrameOK, Frames, Kinds
  <1>6. held' \subseteq held /\ "vpss" \notin held' /\ "vpss" \notin misuse' \ misuse
    BY <1>2, <1>4
  <1>7. ASSUME "model" \in misuse' \ misuse
        PROVE  Blocked = {"SIGINT", "SIGTERM"} /\ \A n \in 1..Len(stack) : stack[n].kind = "own"
    <2>1. "model" \in known /\ "model" \notin held
      BY <1>2, <1>7
    <2>2. \A n \in 1..Len(stack) : FrameOK(stack[n]) /\ stack[n] \in Frames
      BY ElementOfSeq DEF LifeInv, FramesOK, StateOK
    <2>3. camera = "UVC"
      BY <1>5, <2>1, LifecycleAssumption DEF LifeInv, StateOK
    <2>4. \A n \in 1..Len(stack) : stack[n].kind = "own" /\ stack[n].sig \in Signals
      BY <2>1, <2>2, <2>3 DEF FrameOK, Frames, Kinds
    <2>5. PICK n \in 1..Len(stack) : stack[n].step \in {"freeing"} \cup Last
      BY <2>1 DEF LifeInv, ModelOK
    <2>6. n # Len(stack)
      BY <1>1, <1>3, <2>5 DEF Last
    <2>7. stack[n].sig # stack[Len(stack)].sig
      BY <1>3, <2>4, <2>6, LifecycleAssumption DEF LifeInv, DistinctSignals
    <2>8. {"SIGINT", "SIGTERM"} = {stack[n].sig, stack[Len(stack)].sig}
      BY <1>3, <2>4, <2>7, LifecycleAssumption
    <2>9. Blocked = {"SIGINT", "SIGTERM"}
      BY <1>3, <2>4, <2>8, LifecycleAssumption DEF Blocked
    <2> QED  BY <2>4, <2>9
  <1>8. /\ "model" \in known /\ "model" \in held \ held' => Top.kind = "own"
        /\ "model" \notin known => ("model" \in held => "model" \in held')
    BY <1>2, <1>5
  <1> QED  BY <1>1, <1>2, <1>4, <1>6, <1>7, <1>8, HandlerGoesOn DEF Steps, Last

LEMMA VendorStep == LifeInv /\ StepVendor /\ UNCHANGED camera => LifeInv'
PROOF
  <1> SUFFICES ASSUME LifeInv, StepVendor, UNCHANGED camera PROVE LifeInv'
    OBVIOUS
  <1>1. /\ stack # <<>> /\ pc \notin Ended /\ Top.step = "sys" /\ Continue("stopping")
        /\ UNCHANGED <<pc, handler, known, wheels, inCall>>
        /\ held' = held \ {"sys"} /\ misuse' = misuse \cup (held \cap {"vpss"})
    BY DEF StepVendor, At
  <1>2. FrameOK(Top)
    BY <1>1, TopFacts
  <1>3. Top.kind = "vendor" /\ camera = "VI"
    BY <1>1, <1>2 DEF FrameOK
  <1>4. /\ held' \subseteq held /\ ("model" \in held => "model" \in held')
        /\ misuse' \ misuse \subseteq {"vpss"}
    BY <1>1
  <1> QED  BY <1>1, <1>3, <1>4, HandlerGoesOn DEF Steps, Last

(* What a handler called returns, or the handler waits for ever.           *)
LEMMA ReturnsStep == LifeInv /\ StepReturns /\ UNCHANGED camera => LifeInv'
PROOF
  <1> SUFFICES ASSUME LifeInv, StepReturns, UNCHANGED camera PROVE LifeInv'
    OBVIOUS
  <1>1. PICK call \in DOMAIN After : At(call) /\ (Continue(After[call]) \/ MayHang)
    BY DEF StepReturns
  <1>2. /\ stack # <<>> /\ pc \notin Ended /\ Top.step = call
        /\ UNCHANGED <<pc, handler, known, held, wheels, inCall, misuse>>
    BY <1>1 DEF StepReturns, At
  <1>3. FrameOK(Top)
    BY <1>2, TopFacts
  <1>4. /\ call \in {"halting", "closing", "freeing", "stopping"}
        /\ After[call] = CASE call = "halting" -> "camera" [] call = "closing" -> "model"
                           [] OTHER -> "exit"
    BY DEF After
  <1>5. PICK next \in {After[call], "hung"} : Continue(next)
    BY <1>1 DEF MayHang
  <1>6. /\ next \in Steps /\ next \notin {"sys", "stopping"}
        /\ call \notin {"halting", "closing"} => next \in Last
    BY <1>4, <1>5 DEF Steps, Last
  <1>7. ~(camera = "UVC" /\ wheels = "turning")
    BY <1>2, <1>3, <1>4 DEF FrameOK
  <1>8. CASE Top.kind = "vendor"
    <2>1. call \notin {"halting", "closing"}
      BY <1>2, <1>3, <1>8 DEF FrameOK, Last
    <2> QED  BY <1>2, <1>5, <1>6, <1>7, <1>8, <2>1, HandlerGoesOn
  <1>9. CASE Top.kind # "vendor"
    <2>1. "vpss" \notin held
      BY <1>2, <1>3, <1>4, <1>9 DEF FrameOK, Cleaned
    <2>2. Top.step \in {"freeing"} \cup Last => next \in Last
      BY <1>2, <1>4, <1>6 DEF Last
    <2> QED  BY <1>2, <1>5, <1>6, <1>7, <1>9, <2>1, <2>2, HandlerGoesOn
  <1> QED  BY <1>8, <1>9

LEMMA ExitStep == LifeInv /\ CleanupAtBottom /\ StepExit /\ UNCHANGED camera => LifeInv'
PROOF
  <1> SUFFICES ASSUME LifeInv, CleanupAtBottom, StepExit, UNCHANGED camera PROVE LifeInv'
    OBVIOUS
  <1>1. /\ stack # <<>> /\ pc \notin Ended /\ Top.step = "exit"
        /\ UNCHANGED <<pc, handler, known, held, wheels, inCall, misuse>>
    BY DEF StepExit, At
  <1>2. /\ FrameOK(Top) /\ Top \in Frames
        /\ Len(stack) \in 1..Len(stack) /\ Top = stack[Len(stack)]
    BY <1>1, TopFacts
  <1>3. ~(camera = "UVC" /\ wheels = "turning")
    BY <1>1, <1>2 DEF FrameOK
  <1>4. CASE Top.kind = "inline"
    <2>1. pc' = pc /\ stack' = SubSeq(stack, 1, Len(stack) - 1)
      BY <1>4 DEF StepExit
    <2>2. Len(stack) \in Nat /\ stack \in Seq(Frames)
      BY LenProperties DEF LifeInv, StateOK
    <2>3. /\ stack' \in Seq(Frames) /\ Len(stack') = Len(stack) - 1
          /\ \A n \in 1..Len(stack') : n \in 1..Len(stack) /\ stack'[n] = stack[n]
      <3> DEFINE m == Len(stack) - 1
      <3>1. m \in Nat /\ \A n \in 1..m : stack[n] \in Frames
        BY <1>2, <2>2, ElementOfSeq
      <3> HIDE DEF m
      <3>2. /\ SubSeq(stack, 1, m) \in Seq(Frames)
            /\ Len(SubSeq(stack, 1, m)) = IF 1 <= m THEN m - 1 + 1 ELSE 0
            /\ \A n \in 1..m - 1 + 1 : SubSeq(stack, 1, m)[n] = stack[1 + n - 1]
        BY <3>1, SubSeqProperties
      <3>3. \A n \in 1..m : SubSeq(stack, 1, m)[n] = stack[n]
        BY <3>1, <3>2
      <3>4. stack' = SubSeq(stack, 1, m) /\ m = Len(stack) - 1
        BY <2>1 DEF m
      <3> QED  BY <2>2, <3>1, <3>2, <3>3, <3>4
    <2>4. "model" \notin known /\ "vpss" \notin held /\ misuse \cap {"model", "vpss"} = {}
      <3>1. "model" \notin known /\ "vpss" \notin held
        BY <1>1, <1>2, <1>4 DEF FrameOK, Cleaned, Last
      <3>2. "model" \notin misuse
        BY <1>2, <1>4 DEF LifeInv, ModelFreedTwiceOnlyNested
      <3>3. Len(stack) = 1
        BY <1>2, <1>4 DEF CleanupAtBottom
      <3>4. "vpss" \notin misuse
        BY <1>2, <1>4, <3>3 DEF LifeInv, VpssGoesBeforeSys
      <3> QED  BY <3>1, <3>2, <3>4
    <2>5. StateOK' /\ HandlersOK'
      BY <1>1, <2>1, <2>3 DEF LifeInv, StateOK, HandlersOK
    <2>6. MainOK'
      BY <1>1, <2>1, <2>4 DEF LifeInv, MainOK
    <2>7. FramesOK' /\ DistinctSignals'
      BY <1>1, <2>1, <2>3 DEF LifeInv, FramesOK, FrameOK, DistinctSignals
    <2>8. ModelOK' /\ ModelFreedTwiceOnlyNested'
      BY <1>1, <2>4 DEF ModelOK, ModelFreedTwiceOnlyNested
    <2> QED  BY <1>1, <2>1, <2>4, <2>5, <2>6, <2>7, <2>8
         DEF LifeInv, WheelsRestInOwnHands, WheelsRestAtEnd, VpssGoesBeforeSys
  <1>5. CASE Top.kind # "inline" /\ Continue("flushing")
    <2>1. Top.kind # "vendor" => "vpss" \notin held
      BY <1>1, <1>2 DEF FrameOK, Cleaned, Last
    <2> QED  BY <1>1, <1>3, <1>5, <2>1, HandlerGoesOn DEF Steps, Last
  <1> QED  BY <1>4, <1>5 DEF StepExit

LEMMA FlushStep == LifeInv /\ StepFlush /\ UNCHANGED camera => LifeInv'
PROOF
  <1> SUFFICES ASSUME LifeInv, StepFlush, UNCHANGED camera PROVE LifeInv'
    OBVIOUS
  <1>1. /\ stack # <<>> /\ pc \notin Ended /\ Top.step = "flushing"
        /\ UNCHANGED <<handler, known, held, wheels, inCall, misuse>>
    BY DEF StepFlush, At
  <1>2. FrameOK(Top)
    BY <1>1, TopFacts
  <1>3. ~(camera = "UVC" /\ wheels = "turning")
    BY <1>1, <1>2 DEF FrameOK
  <1>4. CASE pc' = "exited" /\ UNCHANGED stack
    <2>1. wheels' = "still" \/ camera' # "UVC"
      BY <1>1, <1>3 DEF LifeInv, StateOK
    <2>2. StateOK' /\ HandlersOK' /\ MainOK'
      BY <1>1, <1>3, <1>4 DEF LifeInv, StateOK, HandlersOK, MainOK, Ended
    <2>3. FramesOK'
      BY <1>1, <1>4 DEF LifeInv, FramesOK, FrameOK, Ended
    <2>4. DistinctSignals' /\ ModelOK' /\ ModelFreedTwiceOnlyNested' /\ Blocked' = Blocked
      BY <1>1, <1>4 DEF LifeInv, DistinctSignals, ModelOK, ModelFreedTwiceOnlyNested, Blocked
    <2> QED  BY <1>1, <1>4, <2>1, <2>2, <2>3, <2>4
         DEF LifeInv, WheelsRestInOwnHands, WheelsRestAtEnd, VpssGoesBeforeSys
  <1>5. CASE Continue("hung") /\ UNCHANGED pc
    <2>1. Top.kind # "vendor" => "vpss" \notin held
      BY <1>1, <1>2 DEF FrameOK, Cleaned, Last
    <2> QED  BY <1>1, <1>3, <1>5, <2>1, HandlerGoesOn DEF Steps, Last
  <1> QED  BY <1>4, <1>5 DEF StepFlush, Leave, MayHang

-----------------------------------------------------------------------------
(* A signal *)

LEMMA DeliverStep ==
  ASSUME LifeInv, NEW s \in Signals, Deliver(s), UNCHANGED camera
  PROVE  LifeInv'
PROOF
  <1>1. /\ pc \notin Ended /\ s \notin Blocked
        /\ UNCHANGED <<known, held, wheels, inCall, misuse>>
        /\ handler[s] \in {"default", "own", "vendor"}
        /\ stack \in Seq(Frames) /\ Len(stack) \in Nat
        /\ "none" \notin Signals
    BY LenProperties, LifecycleAssumption DEF Deliver, LifeInv, StateOK
  <1>2. CASE handler[s] = "default"
    <2>1. pc' = "killed" /\ UNCHANGED <<handler, stack>>
      BY <1>2 DEF Deliver
    <2>2. camera = "UVC" => pc = "start"
      BY <1>1, <1>2 DEF LifeInv, HandlersOK
    <2>3. wheels' = "still" \/ camera' # "UVC"
      BY <1>1, <2>2 DEF LifeInv, StateOK, MainOK
    <2>4. StateOK' /\ HandlersOK' /\ MainOK'
      BY <1>1, <2>1, <2>3 DEF LifeInv, StateOK, HandlersOK, MainOK, Ended
    <2>5. FramesOK'
      BY <1>1, <2>1 DEF LifeInv, FramesOK, FrameOK, Ended
    <2>6. DistinctSignals' /\ ModelOK' /\ ModelFreedTwiceOnlyNested'
      BY <1>1, <2>1 DEF LifeInv, DistinctSignals, ModelOK, ModelFreedTwiceOnlyNested, Blocked
    <2> QED  BY <1>1, <2>1, <2>3, <2>4, <2>5, <2>6
         DEF LifeInv, WheelsRestInOwnHands, WheelsRestAtEnd, VpssGoesBeforeSys
  <1>3. CASE handler[s] # "default"
    <2>1. PICK f \in Frames :
            /\ stack' = Append(stack, f) /\ pc' = pc /\ f.sig = s
            /\ handler[s] = "own" => f.kind = "own" /\ f.step = "standby" /\ handler' = handler
            /\ handler[s] = "vendor" =>
                 /\ f.kind = "vendor" /\ f.step = "sys"
                 /\ handler' = [handler EXCEPT ![s] = "default"]
      <3>1. CASE handler[s] = "own"
        <4>1. Cleanup("own", s) \in Frames
          BY DEF Cleanup, Frames, Kinds, Steps
        <4> QED  BY <3>1, <4>1 DEF Deliver, Cleanup
      <3>2. CASE handler[s] = "vendor"
        <4>1. [kind |-> "vendor", sig |-> s, step |-> "sys"] \in Frames
          BY DEF Frames, Kinds, Steps
        <4> QED  BY <3>2, <4>1 DEF Deliver
      <3> QED  BY <1>1, <1>3, <3>1, <3>2
    <2>2. /\ stack' \in Seq(Frames) /\ Len(stack') = Len(stack) + 1 /\ stack' # <<>>
          /\ \A n \in 1..Len(stack) : stack'[n] = stack[n]
          /\ stack'[Len(stack) + 1] = f
      BY <1>1, <2>1, AppendProperties
    <2>3. \A n \in 1..Len(stack') : n \in 1..Len(stack) \/ n = Len(stack) + 1
      BY <1>1, <2>2
    <2>4. handler[s] \in {"own", "vendor"} /\ (camera = "UVC" => handler[s] = "own")
      BY <1>1, <1>3 DEF LifeInv, HandlersOK
    <2>5. StateOK'
      BY <1>1, <2>1, <2>2, <2>4 DEF LifeInv, StateOK
    <2>6. HandlersOK'
      BY <1>1, <2>1, <2>4 DEF LifeInv, StateOK, HandlersOK
    <2>7. MainOK'
      BY <1>1, <2>1, <2>2 DEF LifeInv, MainOK
    <2>8. FrameOK(f)'
      <3>1. camera = "VI" /\ "model" \in known => handler[s] = "vendor"
        BY <1>1, <2>4 DEF LifeInv, HandlersOK, MainOK
      <3>2. camera \in {"UVC", "VI"}
        BY LifecycleAssumption DEF LifeInv, StateOK
      <3> QED  BY <1>1, <2>1, <2>4, <3>1, <3>2 DEF FrameOK, Cleaned, Last
    <2>9. FramesOK'
      <3> SUFFICES ASSUME NEW n \in 1..Len(stack') PROVE FrameOK(stack[n])'
        BY DEF FramesOK
      <3>1. CASE n \in 1..Len(stack)
        BY <1>1, <2>1, <2>2, <3>1 DEF LifeInv, FramesOK, FrameOK
      <3>2. CASE n = Len(stack) + 1
        BY <2>2, <2>8, <3>2 DEF FrameOK
      <3> QED  BY <2>3, <3>1, <3>2
    <2>10. DistinctSignals'
      <3>1. \A n \in 1..Len(stack) : stack[n].sig # s
        BY <1>1 DEF Blocked
      <3> QED  BY <2>1, <2>2, <2>3, <3>1 DEF LifeInv, DistinctSignals
    <2>11. ModelOK'
      BY <1>1, <2>2 DEF LifeInv, ModelOK
    <2>12. ModelFreedTwiceOnlyNested'
      <3>1. s \in {"SIGINT", "SIGTERM"} /\ Blocked # {"SIGINT", "SIGTERM"}
        BY <1>1, LifecycleAssumption
      <3> QED  BY <1>1, <3>1 DEF LifeInv, ModelFreedTwiceOnlyNested
    <2> QED  BY <1>1, <2>1, <2>5, <2>6, <2>7, <2>9, <2>10, <2>11, <2>12
         DEF LifeInv, WheelsRestInOwnHands, WheelsRestAtEnd, VpssGoesBeforeSys
  <1> QED  BY <1>2, <1>3

-----------------------------------------------------------------------------
(* main, which only runs when no handler does *)

(* A step of main that leaves the stack empty disturbs what is said of     *)
(* main alone.                                                             *)
LEMMA MainGoesOn ==
  ASSUME LifeInv, stack = <<>>, stack' = <<>>, StateOK', HandlersOK', MainOK',
         "vpss" \notin misuse', misuse' \subseteq misuse \cup {"vpss"},
         "model" \in known' => "model" \in held',
         camera' = "UVC" /\ pc' \in Ended => wheels' = "still"
  PROVE  LifeInv'
PROOF
  <1>1. Len(stack) = 0 /\ Len(stack') = 0
    BY EmptySeq
  <1>2. FramesOK' /\ DistinctSignals' /\ ModelOK'
    BY <1>1 DEF FramesOK, DistinctSignals, ModelOK
  <1>3. Blocked' = Blocked
    BY DEF Blocked
  <1>4. ModelFreedTwiceOnlyNested'
    BY <1>1, <1>3 DEF LifeInv, ModelFreedTwiceOnlyNested
  <1> QED  BY <1>2, <1>4 DEF LifeInv, WheelsRestInOwnHands, WheelsRestAtEnd, VpssGoesBeforeSys

LEMMA Unbothered ==
  ASSUME LifeInv, stack = <<>>
  PROVE  "vpss" \notin misuse /\ ("model" \in known => "model" \in held)
PROOF
  <1>1. Len(stack) = 0
    BY EmptySeq
  <1> QED  BY <1>1 DEF LifeInv, VpssGoesBeforeSys, ModelOK

LEMMA StartupStep == LifeInv /\ Startup /\ UNCHANGED camera => LifeInv'
PROOF
  <1> SUFFICES ASSUME LifeInv, Startup, UNCHANGED camera PROVE LifeInv'
    OBVIOUS
  <1>1. stack = <<>> /\ misuse' = misuse /\ wheels' = wheels
    BY DEF Startup, InstallHandlers, SetPointers, OpenCamera, OpenVpss, LoadModel,
           RegisterModel, Main
  <1>2. "vpss" \notin misuse /\ ("model" \in known => "model" \in held)
    BY <1>1, Unbothered
  <1>3. \A S : <<>> \in Seq(S)
    BY EmptySeq
  <1> USE DEF LifeInv, StateOK, HandlersOK, MainOK, Ended
  <1>4. CASE InstallHandlers
    <2>1. StateOK' /\ HandlersOK' /\ MainOK'
      BY <1>1, <1>4 DEF InstallHandlers, Main
    <2> QED  BY <1>1, <1>2, <1>4, <2>1, MainGoesOn DEF InstallHandlers, Main
  <1>5. CASE SetPointers
    <2>1. StateOK' /\ HandlersOK' /\ MainOK'
      BY <1>1, <1>5 DEF SetPointers, Main
    <2> QED  BY <1>1, <1>2, <1>5, <2>1, MainGoesOn DEF SetPointers, Main
  <1>6. CASE OpenCamera
    <2>1. "model" \notin known'
      BY <1>6 DEF OpenCamera, Main
    <2>2. StateOK' /\ HandlersOK'
      BY <1>1, <1>6 DEF OpenCamera, Main
    <2>3. MainOK'
      BY <1>1, <1>6 DEF OpenCamera, Main
    <2> QED  BY <1>1, <1>2, <1>6, <2>1, <2>2, <2>3, MainGoesOn DEF OpenCamera, Main
  <1>7. CASE OpenVpss
    <2>1. "model" \notin known'
      BY <1>7 DEF OpenVpss, Main
    <2>2. StateOK' /\ HandlersOK'
      BY <1>1, <1>7 DEF OpenVpss, Main
    <2>3. MainOK'
      BY <1>1, <1>7 DEF OpenVpss, Main
    <2> QED  BY <1>1, <1>2, <1>7, <2>1, <2>2, <2>3, MainGoesOn DEF OpenVpss, Main
  <1>8. CASE LoadModel /\ stack' = <<>>
    <2>1. /\ pc = "model" /\ pc' = "register" /\ held' = held \cup {"model"}
          /\ UNCHANGED <<handler, known, wheels, misuse>>
      BY <1>8 DEF LoadModel, Main
    <2>2. StateOK' /\ HandlersOK' /\ MainOK'
      BY <1>1, <1>8, <2>1
    <2> QED  BY <1>1, <1>2, <1>8, <2>1, <2>2, MainGoesOn
  <1>9. CASE LoadModel /\ stack' # <<>>
    <2> DEFINE f == Cleanup("inline", "none")
    <2>1. /\ pc = "model" /\ pc' = "return" /\ stack' = <<f>>
          /\ UNCHANGED <<handler, known, held, wheels, misuse>>
      BY <1>1, <1>9 DEF LoadModel, Main
    <2>2. /\ f \in Frames /\ f.kind = "inline" /\ f.step = "standby" /\ f.sig = "none"
      BY DEF Frames, Kinds, Steps, Cleanup
    <2>3. /\ stack' \in Seq(Frames) /\ Len(stack') = 1 /\ stack'[1] = f
      BY <2>1, <2>2
    <2>4. StateOK' /\ HandlersOK' /\ MainOK'
      BY <1>1, <1>9, <2>1, <2>3
    <2>5. FrameOK(stack[1])'
      BY <2>1, <2>2, <2>3 DEF FrameOK, Cleaned, Last
    <2>6. FramesOK' /\ DistinctSignals'
      BY <2>3, <2>5 DEF FramesOK, DistinctSignals
    <2>7. ModelOK'
      BY <2>1 DEF ModelOK
    <2>8. "model" \notin misuse
      <3>1. Blocked = {}
        BY <1>1, EmptySeq DEF Blocked
      <3> QED  BY <1>1, <3>1 DEF ModelFreedTwiceOnlyNested
    <2> QED  BY <1>1, <1>2, <2>1, <2>4, <2>6, <2>7, <2>8
         DEF WheelsRestInOwnHands, WheelsRestAtEnd, VpssGoesBeforeSys, ModelFreedTwiceOnlyNested
  <1>10. CASE RegisterModel
    <2>1. StateOK' /\ HandlersOK' /\ MainOK'
      BY <1>1, <1>10 DEF RegisterModel, Main
    <2> QED  BY <1>1, <1>2, <1>10, <2>1, MainGoesOn DEF RegisterModel, Main
  <1> QED  BY <1>4, <1>5, <1>6, <1>7, <1>8, <1>9, <1>10 DEF Startup

LEMMA LoopStep == LifeInv /\ (Loop \/ Destroy) /\ UNCHANGED camera => LifeInv'
PROOF
  <1> SUFFICES ASSUME LifeInv, Loop \/ Destroy, UNCHANGED camera PROVE LifeInv'
    OBVIOUS
  <1>1. stack = <<>> /\ stack' = stack /\ UNCHANGED <<handler, known>>
    BY DEF Loop, Destroy, CommandWheels, EnterCall, LeaveCall, Main
  <1>2. "vpss" \notin misuse /\ ("model" \in known => "model" \in held)
    BY <1>1, Unbothered
  <1> USE DEF LifeInv, StateOK, HandlersOK, MainOK, Ended
  <1>3. CASE CommandWheels
    <2>1. StateOK' /\ HandlersOK' /\ MainOK'
      BY <1>1, <1>3 DEF CommandWheels, Main
    <2> QED  BY <1>1, <1>2, <1>3, <2>1, MainGoesOn DEF CommandWheels, Main
  <1>4. CASE EnterCall \/ LeaveCall
    <2>1. UNCHANGED <<pc, held, wheels, misuse>>
      BY <1>4 DEF EnterCall, LeaveCall
    <2>2. StateOK' /\ HandlersOK' /\ MainOK'
      BY <1>1, <2>1
    <2>3. camera' = "UVC" /\ pc' \in Ended => wheels' = "still"
      BY <2>1 DEF WheelsRestInOwnHands, WheelsRestAtEnd
    <2> QED  BY <1>1, <1>2, <2>1, <2>2, <2>3, MainGoesOn
  <1>5. CASE Destroy
    <2>1. /\ pc = "return" /\ pc' = "exited" /\ held' = held \ {"camera", "sys", "vpss"}
          /\ misuse' = misuse \cup (held \cap {"vpss"}) /\ wheels' = "still"
      BY <1>5 DEF Destroy, Main
    <2>2. "vpss" \notin held
      BY <1>1, <2>1
    <2>3. StateOK' /\ HandlersOK' /\ MainOK'
      BY <1>1, <2>1
    <2> QED  BY <1>1, <1>2, <2>1, <2>2, <2>3, MainGoesOn
  <1> QED  BY <1>3, <1>4, <1>5 DEF Loop

-----------------------------------------------------------------------------
(* How deep the stack gets.  A cleanup is at its bottom, and no two        *)
(* handlers share a signal: so there are no more than the cleanup and one  *)
(* handler for each signal.                                                *)
KeptThings ==
  /\ known \subseteq {"motor", "capture", "model"}
  /\ held \subseteq {"camera", "sys", "vpss", "model"}
  /\ misuse \subseteq {"vpss", "model"}
  /\ inCall \in BOOLEAN

LEMMA KeptStep == KeptThings /\ [LifeNext]_lifeVars => KeptThings'
PROOF
  <1> SUFFICES ASSUME KeptThings, [LifeNext]_lifeVars PROVE KeptThings'
    OBVIOUS
  <1> USE DEF KeptThings
  <1>1. CASE UNCHANGED lifeVars
    BY <1>1 DEF lifeVars
  <1>2. CASE Startup
    BY <1>2 DEF Startup, InstallHandlers, SetPointers, OpenCamera, OpenVpss, LoadModel, RegisterModel
  <1>3. CASE Loop \/ Destroy
    BY <1>3 DEF Loop, CommandWheels, EnterCall, LeaveCall, Destroy
  <1>4. CASE StepStandby \/ StepVpss
    BY <1>4 DEF StepStandby, StepVpss, TakeVpssDown
  <1>5. CASE StepCamera \/ StepModel
    BY <1>5 DEF StepCamera, StepModel, Free
  <1>6. CASE StepVendor \/ StepReturns \/ StepExit \/ StepFlush
    BY <1>6 DEF StepVendor, StepReturns, StepExit, StepFlush
  <1>7. CASE \E s \in Signals : Deliver(s)
    BY <1>7 DEF Deliver
  <1> QED  BY <1>1, <1>2, <1>3, <1>4, <1>5, <1>6, <1>7 DEF LifeNext, Handle

(* Every step leaves the stack, gives its top another step, takes the top  *)
(* off, starts it with a cleanup, or puts a signal's handler on it.        *)
LEMMA StackSteps ==
  ASSUME LifeInv, LifeNext
  PROVE  \/ stack' = stack
         \/ stack # <<>> /\ \E next \in Steps : Continue(next)
         \/ stack # <<>> /\ stack' = SubSeq(stack, 1, Len(stack) - 1)
         \/ stack' = <<Cleanup("inline", "none")>>
         \/ \E f \in Frames : f.kind # "inline" /\ stack' = Append(stack, f)
PROOF
  <1>1. CASE Startup \/ Loop \/ Destroy
    <2>1. stack' = stack \/ stack' = <<Cleanup("inline", "none")>>
      BY <1>1 DEF Startup, InstallHandlers, SetPointers, OpenCamera, OpenVpss, LoadModel,
           RegisterModel, Loop, CommandWheels, EnterCall, LeaveCall, Destroy
    <2> QED  BY <2>1
  <1>2. CASE Handle
    <2>1. stack # <<>>
      BY <1>2 DEF Handle, StepStandby, StepVpss, StepCamera, StepModel, StepVendor, StepReturns,
           StepExit, StepFlush, At
    <2>2. ASSUME StepReturns PROVE \E next \in Steps : Continue(next)
      BY <2>2 DEF StepReturns, MayHang, After, Steps
    <2>3. \/ stack' = stack
          \/ \E next \in {"vpss", "halting", "camera", "closing", "freeing", "stopping", "exit",
                           "flushing", "hung"} : Continue(next)
          \/ stack' = SubSeq(stack, 1, Len(stack) - 1)
          \/ StepReturns
      BY <1>2 DEF Handle, StepStandby, StepVpss, StepCamera, StepModel, StepVendor, StepExit,
           StepFlush, MayHang, Leave
    <2> QED  BY <2>1, <2>2, <2>3 DEF Steps
  <1>3. CASE \E s \in Signals : Deliver(s)
    <2>1. PICK s \in Signals : Deliver(s)
      BY <1>3
    <2>2. handler[s] \in {"default", "own", "vendor"}
      BY <2>1 DEF LifeInv, StateOK
    <2>3. CASE handler[s] = "default"
      BY <2>1, <2>3 DEF Deliver
    <2>4. CASE handler[s] = "own"
      <3>1. Cleanup("own", s) \in Frames /\ Cleanup("own", s).kind # "inline"
        BY DEF Cleanup, Frames, Kinds, Steps
      <3> QED  BY <2>1, <2>4, <3>1 DEF Deliver
    <2>5. CASE handler[s] = "vendor"
      <3> DEFINE f == [kind |-> "vendor", sig |-> s, step |-> "sys"]
      <3>1. f \in Frames /\ f.kind # "inline"
        BY DEF Frames, Kinds, Steps
      <3>2. stack' = Append(stack, f)
        BY <2>1, <2>5 DEF Deliver
      <3> HIDE DEF f
      <3> QED  BY <3>1, <3>2
    <2> QED  BY <2>2, <2>3, <2>4, <2>5
  <1> QED  BY <1>1, <1>2, <1>3 DEF LifeNext

LEMMA BottomStep == LifeInv /\ CleanupAtBottom /\ [LifeNext]_lifeVars => CleanupAtBottom'
PROOF
  <1> SUFFICES ASSUME LifeInv, CleanupAtBottom, [LifeNext]_lifeVars PROVE CleanupAtBottom'
    OBVIOUS
  <1>1. stack \in Seq(Frames) /\ Len(stack) \in Nat
    BY LenProperties DEF LifeInv, StateOK
  <1>2. CASE stack' = stack
    BY <1>2 DEF CleanupAtBottom
  <1>3. CASE stack # <<>> /\ \E next \in Steps : Continue(next)
    <2>1. PICK next \in Steps : Continue(next)
      BY <1>3
    <2>2. /\ Len(stack') = Len(stack)
          /\ \A n \in 1..Len(stack) : stack'[n].kind = stack[n].kind
      BY <1>1, <1>3, <2>1, ContinueFacts
    <2> QED  BY <2>2 DEF CleanupAtBottom
  <1>4. CASE stack # <<>> /\ stack' = SubSeq(stack, 1, Len(stack) - 1)
    <2> DEFINE m == Len(stack) - 1
    <2>1. m \in Nat /\ m <= Len(stack)
      BY <1>1, <1>4, EmptySeq
    <2>2. /\ Len(SubSeq(stack, 1, m)) = m
          /\ \A n \in 1..m : SubSeq(stack, 1, m)[n] = stack[n]
      <3>1. 1 \in 1..Len(stack) + 1 /\ m \in 1 - 1..Len(stack)
        BY <1>1, <2>1
      <3>2. /\ Len(SubSeq(stack, 1, m)) = IF 1 <= m THEN m - 1 + 1 ELSE 0
            /\ \A n \in 1..m - 1 + 1 : SubSeq(stack, 1, m)[n] = stack[1 + n - 1]
        <4> HIDE DEF m
        <4> QED  BY <1>1, <3>1, SubSeqProperties
      <3> HIDE DEF m
      <3>3. m - 1 + 1 = m /\ \A n \in 1..m : 1 + n - 1 = n
        BY <2>1
      <3>4. Len(SubSeq(stack, 1, m)) = m
        BY <2>1, <3>2
      <3> QED  BY <3>2, <3>3, <3>4
    <2>3. stack' = SubSeq(stack, 1, m)
      BY <1>4
    <2> HIDE DEF m
    <2>4. \A n \in 1..m : n \in 1..Len(stack)
      BY <1>1, <2>1
    <2> QED  BY <2>2, <2>3, <2>4 DEF CleanupAtBottom
  <1>5. CASE stack' = <<Cleanup("inline", "none")>>
    <2>1. Len(stack') = 1
      BY <1>5
    <2> QED  BY <2>1 DEF CleanupAtBottom
  <1>6. CASE \E f \in Frames : f.kind # "inline" /\ stack' = Append(stack, f)
    <2>1. PICK f \in Frames : f.kind # "inline" /\ stack' = Append(stack, f)
      BY <1>6
    <2>2. /\ Len(stack') = Len(stack) + 1
          /\ \A n \in 1..Len(stack) : stack'[n] = stack[n]
          /\ stack'[Len(stack) + 1] = f
      BY <1>1, <2>1, AppendProperties
    <2>3. \A n \in 1..Len(stack') : n \in 1..Len(stack) \/ n = Len(stack) + 1
      BY <1>1, <2>2
    <2> QED  BY <2>1, <2>2, <2>3 DEF CleanupAtBottom
  <1>7. CASE UNCHANGED lifeVars
    BY <1>7, <1>2 DEF lifeVars
  <1> QED  BY <1>2, <1>3, <1>4, <1>5, <1>6, <1>7, StackSteps

-----------------------------------------------------------------------------
LEMMA LifeInitInv == LifeInit => LifeInv
PROOF
  <1> SUFFICES ASSUME LifeInit PROVE LifeInv
    OBVIOUS
  <1>1. stack = <<>> /\ Len(stack) = 0 /\ stack \in Seq(Frames)
    BY EmptySeq DEF LifeInit
  <1>2. StateOK /\ HandlersOK /\ MainOK
    BY <1>1 DEF LifeInit, StateOK, HandlersOK, MainOK, Ended
  <1> QED  BY <1>1, <1>2 DEF LifeInit, LifeInv, FramesOK, DistinctSignals, ModelOK, Ended,
        WheelsRestInOwnHands, WheelsRestAtEnd, VpssGoesBeforeSys, ModelFreedTwiceOnlyNested

LEMMA LifeStep == LifeInv /\ CleanupAtBottom /\ [LifeNext]_lifeVars => LifeInv'
PROOF
  <1> SUFFICES ASSUME LifeInv, CleanupAtBottom, [LifeNext]_lifeVars PROVE LifeInv'
    OBVIOUS
  <1>1. CASE UNCHANGED lifeVars
    <2>1. StateOK' /\ HandlersOK' /\ MainOK'
      BY <1>1 DEF lifeVars, LifeInv, StateOK, HandlersOK, MainOK
    <2>2. FramesOK'
      BY <1>1 DEF lifeVars, LifeInv, FramesOK, FrameOK
    <2>3. DistinctSignals' /\ ModelOK'
      BY <1>1 DEF lifeVars, LifeInv, DistinctSignals, ModelOK
    <2>4. Blocked' = Blocked
      BY <1>1 DEF lifeVars, Blocked
    <2> QED  BY <1>1, <2>1, <2>2, <2>3, <2>4
         DEF lifeVars, LifeInv, WheelsRestInOwnHands, WheelsRestAtEnd,
             VpssGoesBeforeSys, ModelFreedTwiceOnlyNested
  <1>2. CASE LifeNext
    BY <1>2, StartupStep, LoopStep, DeliverStep, StandbyStep, VpssStep, CameraStep,
       ModelStep, VendorStep, ReturnsStep, ExitStep, FlushStep DEF LifeNext, Handle
  <1> QED  BY <1>1, <1>2

LEMMA LifeAlways == LifeSpec => [](LifeInv /\ CleanupAtBottom)
PROOF
  <1>1. LifeInit => CleanupAtBottom
    <2> SUFFICES ASSUME LifeInit PROVE CleanupAtBottom
      OBVIOUS
    <2>1. Len(stack) = 0
      BY EmptySeq DEF LifeInit
    <2> QED  BY <2>1 DEF CleanupAtBottom
  <1> QED  BY <1>1, LifeInitInv, LifeStep, BottomStep, PTL DEF LifeSpec

(* However the program ends, in the builds that keep their own handlers    *)
(* the wheels are at rest.                                                 *)
THEOREM LifeWheelsRest == LifeSpec => []WheelsRestInOwnHands
PROOF
  <1>1. LifeInv => WheelsRestInOwnHands
    BY DEF LifeInv
  <1> QED  BY <1>1, LifeAlways, PTL

(* No cleanup and no destructor takes SYS down with VPSS still on it: if    *)
(* that happened, the vendor's handler did it.                             *)
THEOREM LifeVpssBeforeSys == LifeSpec => []VpssGoesBeforeSys
PROOF
  <1>1. LifeInv => VpssGoesBeforeSys
    BY DEF LifeInv
  <1> QED  BY <1>1, LifeAlways, PTL

(* Only the second signal, on top of the first one's handler, frees the    *)
(* model twice.                                                            *)
THEOREM LifeModelFreedTwiceOnlyNested == LifeSpec => []ModelFreedTwiceOnlyNested
PROOF
  <1>1. LifeInv => ModelFreedTwiceOnlyNested
    BY DEF LifeInv
  <1> QED  BY <1>1, LifeAlways, PTL

-----------------------------------------------------------------------------
LEMMA ThreeDeep ==
  ASSUME LifeInv, CleanupAtBottom
  PROVE  Len(stack) <= 3
PROOF
  <1>1. Len(stack) \in Nat
    BY LenProperties DEF LifeInv, StateOK
  <1>2. ASSUME NEW n \in 1..Len(stack), n # 1
        PROVE  stack[n].sig \in {"SIGINT", "SIGTERM"}
    <2>1. stack[n].kind # "inline"
      BY <1>2 DEF CleanupAtBottom
    <2> QED  BY <1>2, <2>1, LifecycleAssumption DEF LifeInv, FramesOK, FrameOK
  <1>3. SUFFICES ASSUME Len(stack) >= 4 PROVE FALSE
    BY <1>1
  <1>4. 2 \in 1..Len(stack) /\ 3 \in 1..Len(stack) /\ 4 \in 1..Len(stack)
    BY <1>1, <1>3
  <1>5. /\ stack[2].sig \in {"SIGINT", "SIGTERM"}
        /\ stack[3].sig \in {"SIGINT", "SIGTERM"}
        /\ stack[4].sig \in {"SIGINT", "SIGTERM"}
    BY <1>2, <1>4
  <1>6. /\ stack[2].sig # stack[3].sig /\ stack[3].sig # stack[4].sig
        /\ stack[2].sig # stack[4].sig
    BY <1>4, <1>5 DEF LifeInv, DistinctSignals
  <1> QED  BY <1>5, <1>6

(* However signals and failures come together, no more than a cleanup and  *)
(* two handlers are ever running, one on top of the other.                 *)
THEOREM LifeTypeCorrect == LifeSpec => []LifeTypeOK
PROOF
  <1>1. LifeInit => KeptThings
    BY DEF LifeInit, KeptThings
  <1>2. LifeInv /\ CleanupAtBottom /\ KeptThings => LifeTypeOK
    BY ThreeDeep DEF LifeInv, StateOK, KeptThings, LifeTypeOK
  <1> QED  BY <1>1, <1>2, LifeAlways, KeptStep, PTL DEF LifeSpec
=============================================================================

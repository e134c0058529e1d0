----------------------------- MODULE Lifecycle -----------------------------
(***************************************************************************)
(* Starting and ending the program: main() of tennis.cpp up to and around  *)
(* its loop, the signal handlers, and the destructors of main's locals.    *)
(*                                                                         *)
(* One thread runs main; a signal interrupts it and pushes a handler on    *)
(* its stack, which a second, different signal can interrupt in turn.      *)
(* Neither handler returns, so a signal is delivered at most once.         *)
(*                                                                         *)
(* camera is the build: "UVC" stands for the UVC and the ESP32 camera,     *)
(* "VI" for the sensor behind the vendor's sample library, whose           *)
(* SAMPLE_PLAT_SYS_INIT installs handlers of its own.                      *)
(***************************************************************************)
EXTENDS Sequences, Naturals

CONSTANTS Cameras, Signals

ASSUME LifecycleAssumption ==
  /\ Cameras \subseteq {"UVC", "VI"}
  /\ Signals \subseteq {"SIGINT", "SIGTERM"}

VARIABLES
  camera,   (* the camera the program was built for, one of Cameras       *)
  pc,       (* what main does next                                        *)
  handler,  (* the disposition of each signal                             *)
  stack,    (* handlers and cleanups running, the innermost last          *)
  known,    (* the global pointers that are set: g_motor and the others   *)
  held,     (* camera, sys, vpss and model, as far as they are acquired   *)
  wheels,   (* what the chassis controller was last told                  *)
  inCall,   (* main is inside malloc, free or printf                      *)
  misuse    (* what was used or freed after its release                   *)

lifeVars == <<camera, pc, handler, stack, known, held, wheels, inCall, misuse>>

Ended == {"exited", "killed"}

LifeInit ==
  /\ camera \in Cameras
  /\ pc = "start"
  /\ handler = [s \in Signals |-> "default"]
  /\ stack = <<>>
  /\ known = {} /\ held = {} /\ misuse = {}
  /\ wheels = "still"
  /\ inCall = FALSE

-----------------------------------------------------------------------------
(* main *)

Main(here) == pc = here /\ stack = <<>> /\ ~inCall

InstallHandlers ==
  /\ Main("start")
  /\ handler' = [s \in Signals |-> "own"]
  /\ pc' = "motor"
  /\ UNCHANGED <<stack, known, held, wheels, inCall, misuse>>

(* The motor, the arm, and the camera object, none of them can fail.       *)
SetPointers ==
  /\ Main("motor")
  /\ known' = {"motor", "capture"}
  /\ pc' = "camera"
  /\ UNCHANGED <<handler, stack, held, wheels, inCall, misuse>>

(* open() or init(): a failure gives back what it acquired and returns     *)
(* from main.  VICapture::init() installs the vendor's handlers on the way.*)
OpenCamera ==
  /\ Main("camera")
  /\ \/ held' = {} /\ pc' = "return" /\ UNCHANGED handler
     \/ camera = "UVC" /\ held' = {"camera"} /\ pc' = "model" /\ UNCHANGED handler
     \/ /\ camera = "VI"
        /\ handler' = [s \in Signals |-> "vendor"]
        /\ \/ held' = {"sys"} /\ pc' = "vpss"
           \/ held' = {} /\ pc' = "return"
  /\ UNCHANGED <<stack, known, wheels, inCall, misuse>>

(* initVpssResize(); its failure branch calls vi_capture.deinit().         *)
OpenVpss ==
  /\ Main("vpss")
  /\ \/ held' = held \cup {"vpss"} /\ pc' = "model"
     \/ held' = held \ {"sys"} /\ pc' = "return"
  /\ UNCHANGED <<handler, stack, known, wheels, inCall, misuse>>

(* CVI_NN_RegisterModel(): a failure runs cleanup_and_exit(), which does   *)
(* not exit, and returns.                                                  *)
Cleanup(kind, sig) == [kind |-> kind, sig |-> sig, step |-> "standby"]

LoadModel ==
  /\ Main("model")
  /\ \/ held' = held \cup {"model"} /\ pc' = "register" /\ UNCHANGED stack
     \/ pc' = "return" /\ stack' = <<Cleanup("inline", "none")>> /\ UNCHANGED held
  /\ UNCHANGED <<handler, known, wheels, inCall, misuse>>

RegisterModel ==
  /\ Main("register")
  /\ known' = known \cup {"model"}
  /\ pc' = "loop"
  /\ UNCHANGED <<handler, stack, held, wheels, inCall, misuse>>

(* The match loop, of which only what a signal can interrupt matters.      *)
CommandWheels ==
  /\ Main("loop")
  /\ wheels' \in {"still", "turning"}
  /\ UNCHANGED <<pc, handler, stack, known, held, inCall, misuse>>

(* main allocates, frees and prints wherever it is.                        *)
EnterCall == Main(pc) /\ pc \notin Ended /\ inCall' = TRUE
             /\ UNCHANGED <<pc, handler, stack, known, held, wheels, misuse>>
LeaveCall == inCall /\ stack = <<>> /\ inCall' = FALSE
             /\ UNCHANGED <<pc, handler, stack, known, held, wheels, misuse>>

(* The destructors, last object first: ~VICapture runs deinit() and then   *)
(* deinitVpssResize(); ~UartMotorDriver sends CMD_RESET.                   *)
Destroy ==
  /\ Main("return")
  /\ pc' = "exited"
  /\ held' = held \ {"camera", "sys", "vpss"}
  /\ misuse' = misuse \cup (held \cap {"vpss"})
  /\ wheels' = "still"
  /\ UNCHANGED <<handler, stack, known, inCall>>

-----------------------------------------------------------------------------
(* Signals and handlers *)

NothingBlocked == {}                                               (* mutant *)
Blocked == {stack[i].sig : i \in 1..Len(stack)}

Deliver(s) ==
  /\ pc \notin Ended
  /\ s \notin Blocked
  /\ CASE handler[s] = "default" -> pc' = "killed" /\ UNCHANGED <<handler, stack>>
       [] handler[s] = "own" ->
            stack' = Append(stack, Cleanup("own", s)) /\ UNCHANGED <<pc, handler>>
       [] handler[s] = "vendor" ->      (* SA_RESETHAND *)
            /\ stack' = Append(stack, [kind |-> "vendor", sig |-> s, step |-> "sys"])
            /\ handler' = [handler EXCEPT ![s] = "default"]
            /\ UNCHANGED pc
  /\ UNCHANGED <<known, held, wheels, inCall, misuse>>

Top == stack[Len(stack)]
At(step) == pc \notin Ended /\ stack # <<>> /\ Top.step = step
Continue(next) == stack' = [stack EXCEPT ![Len(stack)].step = next]

(* Freeing what is not there any more is a misuse.                         *)
Free(thing) ==
  /\ held' = held \ {thing}
  /\ misuse' = misuse \cup ({thing} \ held)

(* CVI_VPSS_*, close(), CVI_NN_CleanupModel(), SYS_Exit() and exit() are   *)
(* not async-signal-safe.  A handler that has caught main, or the handler  *)
(* it interrupts, inside such a call can wait in its own for a lock that   *)
(* is never released.                                                      *)
Unsafe  == {"halting", "closing", "freeing", "stopping", "flushing"}
Caught  == /\ stack # <<>>
           /\ inCall \/ \E n \in 1..Len(stack) - 1 : stack[n].step \in Unsafe
MayHang == Caught /\ Continue("hung")

(* cleanup_and_exit(): the wheels first; write() is all it takes.          *)
SkipWheels == UNCHANGED wheels                                     (* mutant *)
StopWheels == wheels' = IF "motor" \in known THEN "still" ELSE wheels

StepStandby ==
  /\ At("standby")
  /\ StopWheels
  /\ Continue("vpss")
  /\ UNCHANGED <<pc, handler, known, held, inCall, misuse>>

(* deinitVpssResize() looks whether there is a VPSS to give back.          *)
LeaveVpss    == UNCHANGED held                                     (* mutant *)
TakeVpssDown == held' = IF "capture" \in known THEN held \ {"vpss"} ELSE held

StepVpss ==
  /\ At("vpss")
  /\ TakeVpssDown
  /\ Continue(IF "capture" \in known /\ "vpss" \in held THEN "halting" ELSE "camera")
  /\ UNCHANGED <<pc, handler, known, wheels, inCall, misuse>>

(* close() or deinit(): no VPSS may be left when SYS goes.                 *)
StepCamera ==
  /\ At("camera")
  /\ held' = IF "capture" \in known THEN held \ {"camera", "sys"} ELSE held
  /\ misuse' = misuse \cup (held \cap {"vpss"})
  /\ Continue("closing")
  /\ UNCHANGED <<pc, handler, known, wheels, inCall>>

(* CVI_NN_CleanupModel(g_model): g_model is never set back to null.        *)
StepModel ==
  /\ At("model")
  /\ \/ "model" \in known /\ Free("model") /\ Continue("freeing")
     \/ "model" \notin known /\ UNCHANGED <<held, misuse>> /\ Continue("exit")
  /\ UNCHANGED <<pc, handler, known, wheels, inCall>>

(* _SAMPLE_PLAT_ERR_Exit(): the vendor's handler knows of VI and SYS only  *)
(* and takes them down with the program's VPSS group still up.             *)
StepVendor ==
  /\ At("sys")
  /\ held' = held \ {"sys"}
  /\ misuse' = misuse \cup (held \cap {"vpss"})
  /\ Continue("stopping")
  /\ UNCHANGED <<pc, handler, known, wheels, inCall>>

(* What was called returns, or waits for ever.                             *)
After == [halting |-> "camera", closing |-> "model", freeing |-> "exit", stopping |-> "exit"]

StepReturns ==
  /\ \E call \in DOMAIN After : At(call) /\ (Continue(After[call]) \/ MayHang)
  /\ UNCHANGED <<pc, handler, known, held, wheels, inCall, misuse>>

(* mutant: a handler that cleans up and goes back to what it interrupted.  *)
ReturnOnly == stack' = SubSeq(stack, 1, Len(stack) - 1) /\ UNCHANGED pc
Leave      == \/ pc' = "exited" /\ UNCHANGED stack
              \/ MayHang /\ UNCHANGED pc

(* The cleanup after a failed model load goes back to main, a handler      *)
(* calls exit().                                                           *)
StepExit ==
  /\ At("exit")
  /\ IF Top.kind = "inline"
     THEN stack' = SubSeq(stack, 1, Len(stack) - 1)
     ELSE Continue("flushing")
  /\ UNCHANGED <<pc, handler, known, held, wheels, inCall, misuse>>

(* exit() flushes stdout and runs no destructor of main's locals.          *)
StepFlush ==
  /\ At("flushing")
  /\ Leave
  /\ UNCHANGED <<handler, known, held, wheels, inCall, misuse>>

-----------------------------------------------------------------------------
Startup == InstallHandlers \/ SetPointers \/ OpenCamera \/ OpenVpss \/ LoadModel
           \/ RegisterModel
Loop    == CommandWheels \/ EnterCall \/ LeaveCall
Handle  == StepStandby \/ StepVpss \/ StepCamera \/ StepModel \/ StepVendor
           \/ StepReturns \/ StepExit \/ StepFlush

LifeNext ==
  /\ Startup \/ Loop \/ Destroy \/ Handle \/ \E s \in Signals : Deliver(s)
  /\ UNCHANGED camera

LifeSpec == LifeInit /\ [][LifeNext]_lifeVars

(* What a handler does is done, and main does not stay inside one call, or *)
(* between two of them, for ever; its loop need not end.                   *)
FairLifeSpec ==
  /\ LifeSpec
  /\ WF_lifeVars(Handle /\ UNCHANGED camera)
  /\ WF_lifeVars(LeaveCall /\ UNCHANGED camera)
  /\ SF_lifeVars((Startup \/ Destroy) /\ UNCHANGED camera)

-----------------------------------------------------------------------------
LifeTypeOK ==
  /\ camera \in Cameras
  /\ pc \in {"start", "motor", "camera", "vpss", "model", "register", "loop",
             "return"} \cup Ended
  /\ handler \in [Signals -> {"default", "own", "vendor"}]
  /\ known \subseteq {"motor", "capture", "model"}
  /\ held \subseteq {"camera", "sys", "vpss", "model"}
  /\ wheels \in {"still", "turning"}
  /\ inCall \in BOOLEAN
  /\ misuse \subseteq {"vpss", "model"}
  /\ Len(stack) <= 3

(* "Ctrl-C exits safely" (tennis.cpp:16): however the program ends, on a   *)
(* failure, a signal or two of them in any order, during startup or in the *)
(* loop, the wheels are at rest when it has ended.                         *)
WheelsRestAtEnd == pc \in Ended => wheels = "still"

(* The same of the builds that keep the program's own handlers.            *)
WheelsRestInOwnHands == camera = "UVC" => WheelsRestAtEnd

(* SYS goes down with VPSS still on it by the vendor's handler alone, which *)
(* leaves the program at once: a cleanup has the order right               *)
(* (tennis.cpp:145), and ~VICapture, which has it the other way round      *)
(* (vi_capture.cpp:35), only runs when the VPSS is gone.                   *)
VpssGoesBeforeSys ==
  "vpss" \in misuse => \E n \in 1..Len(stack) : stack[n].kind = "vendor"

(* The cleanup frees the model twice, g_model not being set back to null   *)
(* (tennis.cpp:147), only when the other signal interrupts the handler     *)
(* after it has done so: one signal alone, repeated or not, frees it once. *)
ModelFreedTwiceOnlyNested ==
  "model" \in misuse =>
    /\ Blocked = {"SIGINT", "SIGTERM"}
    /\ \A n \in 1..Len(stack) : stack[n].kind = "own"

(* "Ctrl-C exits safely": a signal ends the program, or it or one that     *)
(* came on top of it has caught main or a handler inside a call that is    *)
(* not async-signal-safe; nothing else keeps the program from ending.      *)
QuietSignalEndsProgram == (stack # <<>> /\ ~Caught) ~> (pc \in Ended \/ Caught)

(* "Ctrl-C exits safely", of the builds that keep the program's handlers:  *)
(* whatever a signal has caught, and even if its handler then waits for    *)
(* ever, the wheels come to rest and stay so: the standby goes first and   *)
(* takes no lock (tennis.cpp:139).                                         *)
SignalStopsWheels == (camera = "UVC" /\ stack # <<>>) ~> [](wheels = "still")
=============================================================================

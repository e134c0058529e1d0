---------------------------- MODULE Robot_proofs ----------------------------
(* That the camera's queue bounds how old a picture is, that the loop does *)
(* behind that queue what it promises alone, and that the arm keeps pace   *)
(* with its sleeps, for any number of buffers and for any plant.  Then, on *)
(* the second half, that the robot looks for a bucket with the ball in its *)
(* gripper, and that it grabs what it saw at rest: how far what a picture  *)
(* shows can be from what there is now, who may still drive forward, and   *)
(* which pictures in the queue were taken since the wheels stopped.        *)
EXTENDS Robot, GameLoop_proofs, SequenceTheorems

IsPicture(x) == x = [shown |-> x.shown, age |-> x.age] /\ x.age \in Nat
IsPictures(s) == \E S : s \in Seq(S) /\ \A x \in S : IsPicture(x)

(* What the queue needs: there are no more buffers than were granted, and  *)
(* a picture's place and the calls that passed it add up to no more.       *)
QueueTypeOK == buffer_count_ \in Nat /\ empty \in Nat /\ IsPictures(filled)
BuffersAreConserved == empty + Len(filled) <= buffer_count_
QueueInv == QueueTypeOK /\ BuffersAreConserved /\ PicturesAreRecent

-----------------------------------------------------------------------------
(* A picture that is taken goes to the end of the queue.                   *)
LEMMA ExposedPictures ==
  ASSUME NEW s, IsPictures(s), NEW shown
  PROVE  LET t == Append(s, [shown |-> shown, age |-> 0])
         IN  /\ IsPictures(t)
             /\ Len(s) \in Nat /\ Len(t) = Len(s) + 1
             /\ \A n \in 1..Len(s) : t[n] = s[n]
             /\ t[Len(s) + 1].age = 0 /\ t[Len(s) + 1].shown = shown
PROOF
  <1> DEFINE e == [shown |-> shown, age |-> 0]
             t == Append(s, e)
  <1>1. PICK S : s \in Seq(S) /\ \A x \in S : IsPicture(x)
    BY DEF IsPictures
  <1> DEFINE S2 == S \cup {e}
  <1>2. s \in Seq(S2)
    <2>1. PICK n \in Nat : s \in [1..n -> S]
      BY <1>1, SeqDef
    <2>2. s \in [1..n -> S2]
      BY <2>1
    <2> QED  BY <2>2, SeqDef
  <1>3. \A x \in S2 : IsPicture(x)
    BY <1>1 DEF IsPicture
  <1>4. /\ t \in Seq(S2) /\ Len(t) = Len(s) + 1
        /\ \A n \in 1..Len(s) : t[n] = s[n]
        /\ t[Len(s) + 1] = e
    <2>1. e \in S2
      OBVIOUS
    <2> HIDE DEF e, S2
    <2> QED  BY <1>2, <2>1, AppendProperties
  <1>5. Len(s) \in Nat
    BY <1>2, LenProperties
  <1>6. IsPictures(t)
    BY <1>3, <1>4 DEF IsPictures
  <1> QED  BY <1>4, <1>5, <1>6

LEMMA SameLength ==
  ASSUME NEW m \in Nat, NEW n \in Nat, 1..m = 1..n
  PROVE  m = n
PROOF
  <1>1. m # 0 => m \in 1..n
    OBVIOUS
  <1>2. n # 0 => n \in 1..m
    OBVIOUS
  <1> QED  BY <1>1, <1>2

(* When the oldest is taken out, each of the others moves up by one place  *)
(* and is one call older.                                                  *)
LEMMA OlderPictures ==
  ASSUME NEW s, IsPictures(s), s # <<>>
  PROVE  LET t == Older(Tail(s))
         IN  /\ IsPictures(t)
             /\ Len(s) \in Nat \ {0} /\ Len(t) = Len(s) - 1
             /\ \A n \in 1..Len(s) : s[n].age \in Nat
             /\ \A n \in 1..Len(t) : /\ t[n].age = s[n + 1].age + 1
                                     /\ t[n].shown = s[n + 1].shown
PROOF
  <1> DEFINE t == Older(Tail(s))
  <1>1. PICK S : s \in Seq(S) /\ \A x \in S : IsPicture(x)
    BY DEF IsPictures
  <1> DEFINE S2 == {[shown |-> x.shown, age |-> x.age + 1] : x \in S}
  <1>2. /\ Tail(s) \in Seq(S) /\ Len(Tail(s)) = Len(s) - 1
        /\ \A n \in 1..Len(Tail(s)) : Tail(s)[n] = s[n + 1]
    BY <1>1, HeadTailProperties
  <1>3. /\ Len(s) \in Nat \ {0}
        /\ Len(Tail(s)) \in Nat /\ DOMAIN Tail(s) = 1..Len(Tail(s))
        /\ \A n \in 1..Len(s) : s[n] \in S
        /\ \A n \in 1..Len(Tail(s)) : Tail(s)[n] \in S
    BY <1>1, <1>2, LenProperties, ElementOfSeq, EmptySeq
  <1>4. \A x \in S : /\ [x EXCEPT !.age = @ + 1] = [shown |-> x.shown, age |-> x.age + 1]
                     /\ [shown |-> x.shown, age |-> x.age + 1] \in S2
                     /\ x.age \in Nat
    <2> TAKE x \in S
    <2>1. x = [shown |-> x.shown, age |-> x.age] /\ x.age \in Nat
      BY <1>1 DEF IsPicture
    <2>2. [[shown |-> x.shown, age |-> x.age] EXCEPT !.age = @ + 1]
            = [shown |-> x.shown, age |-> x.age + 1]
      OBVIOUS
    <2>3. [x EXCEPT !.age = @ + 1] = [shown |-> x.shown, age |-> x.age + 1]
      BY <2>1, <2>2, Zenon
    <2> QED  BY <2>1, <2>3
  <1>5. t = [n \in 1..Len(Tail(s)) |->
               [shown |-> Tail(s)[n].shown, age |-> Tail(s)[n].age + 1]]
    BY <1>3, <1>4 DEF Older
  <1>6. t \in [1..Len(Tail(s)) -> S2]
    BY <1>3, <1>4, <1>5
  <1>7. t \in Seq(S2)
    BY <1>3, <1>6, SeqDef
  <1>8. Len(t) = Len(s) - 1
    <2>1. DOMAIN t = 1..Len(t) /\ Len(t) \in Nat
      <3> HIDE DEF t, S2
      <3> QED  BY <1>7, LenProperties
    <2>2. DOMAIN t = 1..Len(Tail(s))
      BY <1>5
    <2> HIDE DEF t, S2
    <2> QED  BY <1>2, <1>3, <2>1, <2>2, SameLength
  <1>9. \A x \in S2 : IsPicture(x)
    <2>1. ASSUME NEW y \in S PROVE IsPicture([shown |-> y.shown, age |-> y.age + 1])
      <3> DEFINE r == [shown |-> y.shown, age |-> y.age + 1]
      <3>1. r.shown = y.shown /\ r.age = y.age + 1
        OBVIOUS
      <3>2. y.age + 1 \in Nat
        <4>1. y.age \in Nat
          BY <1>1 DEF IsPicture
        <4> QED  BY <4>1
      <3>3. r = [shown |-> r.shown, age |-> r.age]
        OBVIOUS
      <3> QED  BY <3>1, <3>2, <3>3 DEF IsPicture
    <2> QED  BY <2>1
  <1>10. \A n \in 1..Len(s) : s[n].age \in Nat
    BY <1>3, <1>4
  <1>11. \A n \in 1..Len(t) : t[n].age = s[n + 1].age + 1 /\ t[n].shown = s[n + 1].shown
    BY <1>2, <1>3, <1>5, <1>8
  <1> QED  BY <1>3, <1>7, <1>8, <1>9, <1>10, <1>11 DEF IsPictures

-----------------------------------------------------------------------------
(* A step of the robot leaves the queue alone, or is the driver's, or is a *)
(* getFrame() that returns a picture.                                      *)
LEMMA QueueSteps ==
  ASSUME [RobotNext]_robotVars
  PROVE  \/ UNCHANGED uvcVars
         \/ \E shown : Expose(shown)
         \/ \E taken \in BOOLEAN : GetFrame(taken)
PROOF
  <1>1. CASE UNCHANGED robotVars
    BY <1>1 DEF robotVars
  <1>2. CASE Tick
    BY <1>2 DEF Tick, Camera
  <1>3. CASE TakeFrame \/ Undecodable
    BY <1>3 DEF TakeFrame, Undecodable
  <1>4. CASE TimedOut
    BY <1>4 DEF TimedOut
  <1>5. CASE SeesBall \/ SeesNoBall \/ SeesBucket \/ SeesNoBucket \/ LetGo
    BY <1>5 DEF SeesBall, SeesNoBall, SeesBucket, SeesNoBucket, LetGo, Deciding
  <1>6. CASE GrabSteps \/ (PulseEnds /\ Goes(0) /\ UNCHANGED armVars)
             \/ (NextRound /\ grab_pos /\ Goes(0))
    BY <1>6 DEF GrabSteps, Goes
  <1> QED  BY <1>1, <1>2, <1>3, <1>4, <1>5, <1>6 DEF RobotNext, Program

(* Nothing is queued and nothing filled but what open() was granted.       *)
LEMMA QueueInit == RobotInit => QueueInv
PROOF
  <1> SUFFICES ASSUME RobotInit PROVE QueueInv
    OBVIOUS
  <1>1. PICK granted \in Grants : UvcReady(granted)
    BY DEF RobotInit
  <1>2. granted \in Nat /\ buffer_count_ = granted /\ empty = granted /\ filled = <<>>
    BY <1>1, RobotAssumption DEF UvcReady
  <1>3. filled \in Seq({}) /\ Len(filled) = 0
    BY <1>2, EmptySeq
  <1>4. IsPictures(filled)
    BY <1>3 DEF IsPictures
  <1> QED  BY <1>2, <1>3, <1>4 DEF QueueInv, QueueTypeOK, BuffersAreConserved, PicturesAreRecent

LEMMA QueueStep == QueueInv /\ [RobotNext]_robotVars => QueueInv'
PROOF
  <1> SUFFICES ASSUME QueueInv, [RobotNext]_robotVars PROVE QueueInv'
    OBVIOUS
  <1> USE DEF QueueInv, QueueTypeOK, BuffersAreConserved, PicturesAreRecent
  <1>1. CASE UNCHANGED uvcVars
    BY <1>1 DEF uvcVars
  <1>2. CASE (\E shown : Expose(shown)) /\ ~UNCHANGED uvcVars
    <2>1. PICK shown : /\ empty > 0 /\ empty' = empty - 1
                       /\ filled' = Append(filled, [shown |-> shown, age |-> 0])
                       /\ buffer_count_' = buffer_count_
      BY <1>2 DEF Expose
    <2>2. /\ IsPictures(filled') /\ Len(filled) \in Nat /\ Len(filled') = Len(filled) + 1
          /\ \A n \in 1..Len(filled) : filled'[n] = filled[n]
          /\ filled'[Len(filled) + 1].age = 0
      BY <2>1, ExposedPictures
    <2>3. \A n \in 1..Len(filled') : n \in 1..Len(filled) \/ n = Len(filled) + 1
      BY <2>2
    <2>4. \A n \in 1..Len(filled') : filled'[n].age + n <= buffer_count_'
      BY <2>1, <2>2, <2>3
    <2> QED  BY <2>1, <2>2, <2>4 DEF IsPictures
  <1>3. CASE \E taken \in BOOLEAN : GetFrame(taken)
    <2>1. PICK taken \in BOOLEAN : GetFrame(taken)
      BY <1>3
    <2>2. /\ filled # <<>> /\ filled' = Older(Tail(filled))
          /\ empty' = (IF taken THEN empty + 1 ELSE empty)
          /\ buffer_count_' = buffer_count_
      BY <2>1 DEF GetFrame, Requeue
    <2>3. /\ IsPictures(filled') /\ Len(filled) \in Nat \ {0} /\ Len(filled') = Len(filled) - 1
          /\ \A n \in 1..Len(filled) : filled[n].age \in Nat
          /\ \A n \in 1..Len(filled') : filled'[n].age = filled[n + 1].age + 1
      BY <2>2, OlderPictures
    <2>4. \A n \in 1..Len(filled') : filled'[n].age + n <= buffer_count_'
      BY <2>2, <2>3
    <2> QED  BY <2>2, <2>3, <2>4 DEF IsPictures
  <1> QED  BY <1>1, <1>2, <1>3, QueueSteps

(* However long the program blocks in its loop, getFrame() returns no      *)
(* picture that was taken more calls ago than there are buffers.           *)
THEOREM RobotPicturesAreRecent == RobotSpec => []PicturesAreRecent
PROOF
  <1>1. QueueInv => PicturesAreRecent
    BY DEF QueueInv
  <1> QED  BY QueueInit, QueueStep, <1>1, PTL DEF RobotSpec

-----------------------------------------------------------------------------
(* What the pictures show.  Every thing on the floor, in a waiting picture *)
(* or in the one the loop looks at has a place the loop's branches are     *)
(* made for, so every step of the robot is a step of GameLoop for some     *)
(* view, or leaves the loop alone.                                         *)
Placed(t) == t.area \in 0..100 /\ t.offset \in Int

WorldInv ==
  /\ plant \in Plants
  /\ target = Thing(target.thing, target) /\ Placed(target)
  /\ \A n \in 1..Len(filled) : Placed(filled[n].shown.thing)
  /\ Placed(examined.shown.thing)

LEMMA PaddedType == ASSUME WorldInv PROVE Padded(Place) \in View
PROOF
  <1>1. plant.share \in Nat /\ plant.share <= 100
    BY RobotAssumption, GameAssumption DEF WorldInv
  <1>2. Shown.area \in 0..100 /\ Shown.offset \in Int
    BY DEF WorldInv, Placed, Shown
  <1>3. Within(Shown.area, 0, plant.share) \in 0..100
    BY <1>1, <1>2 DEF Within
  <1> QED  BY <1>2, <1>3 DEF Padded, Place, View

LEMMA RobotIsALoop ==
  ASSUME WorldInv, [RobotNext]_robotVars
  PROVE  [AnyNext]_vars
PROOF
  <1>1. Place \in View
    BY DEF WorldInv, Placed, Place, Shown, View
  <1>2. CASE Tick \/ TakeFrame \/ UNCHANGED robotVars
    BY <1>2 DEF Tick, TakeFrame, robotVars
  <1>3. CASE Undecodable \/ TimedOut
    BY <1>3 DEF Undecodable, TimedOut, AnyNext
  <1>4. CASE SeesBall
    BY <1>1, <1>4 DEF SeesBall, AnyNext
  <1>5. CASE SeesNoBall
    BY <1>5 DEF SeesNoBall, AnyNext
  <1>6. CASE SeesBucket
    BY PaddedType, <1>6 DEF SeesBucket, AnyNext, AnyFindBucket, AnyApproachBucket
  <1>7. CASE SeesNoBucket
    BY <1>7 DEF SeesNoBucket, AnyNext, AnyFindBucket, AnyApproachBucket
  <1>8. CASE LetGo
    BY <1>8 DEF LetGo, AnyNext
  <1>9. CASE GrabSteps \/ PulseEnds \/ NextRound
    BY <1>9 DEF GrabSteps, PulseEnds, AnyNext, Grab
  <1> QED  BY <1>2, <1>3, <1>4, <1>5, <1>6, <1>7, <1>8, <1>9 DEF RobotNext, Program

LEMMA WithinType ==
  ASSUME NEW x \in Int, NEW low \in Int, NEW high \in Int, low <= high
  PROVE  Within(x, low, high) \in low..high
BY DEF Within

(* The plant keeps what it moves on the floor.                             *)
LEMMA FloorStep ==
  ASSUME TypeOK, WorldInv, Floor
  PROVE  target' = Thing(target'.thing, target') /\ Placed(target')
PROOF
  <1>1. CASE target' = Thing("bucket", plant.bucket)
    BY <1>1, RobotAssumption DEF Thing, Placed, WorldInv
  <1>2. CASE target' = Thing("ball", plant.ball)
    BY <1>2, RobotAssumption DEF Thing, Placed, WorldInv
  <1>3. CASE Move
    <2> DEFINE o == Within(target.offset - TurnOf, -2 * half_w, 2 * half_w)
               a == Within(target.area + Approach, 1, 100)
    <2>1. motor.left \in Int /\ motor.right \in Int /\ plant.px \in Nat
      BY RobotAssumption DEF TypeOK, MotorCommand, PwmValues, WorldInv
    <2>2. TurnOf \in Int /\ Approach \in Int
      <3>1. \A x \in Int : Sign(x) \in {-1, 0, 1}
        BY DEF Sign
      <3>2. /\ motor.left - motor.right \in Int /\ motor.left + motor.right \in Int
            /\ \A x \in {-1, 0, 1} : x * plant.px \in Int
        BY <2>1
      <3> QED  BY <2>1, <3>1, <3>2 DEF TurnOf, Approach
    <2>3. o \in Int /\ a \in 1..100
      <3>. Placed(target)
        BY DEF WorldInv
      <3>0. target.offset \in Int /\ target.area \in Int
        BY DEF Placed
      <3>1. target.offset - TurnOf \in Int /\ target.area + Approach \in Int
        BY <2>2, <3>0
      <3>2. -2 * half_w \in Int /\ 2 * half_w \in Int /\ -2 * half_w <= 2 * half_w
        BY SteeringAssumption
      <3>3. o \in -2 * half_w..2 * half_w
        BY <3>1, <3>2, WithinType
      <3>4. a \in 1..100
        BY <3>1 DEF Within
      <3> QED  BY <3>2, <3>3, <3>4
    <2>4. target' = [target EXCEPT !.offset = o, !.area = a]
      BY <1>3 DEF Move
    <2> HIDE DEF o, a
    <2>5. target' = [thing |-> target.thing, area |-> a, offset |-> o]
      BY <2>4 DEF WorldInv, Thing
    <2> QED  BY <2>3, <2>5 DEF Thing, Placed
  <1> QED  BY <1>1, <1>2, <1>3 DEF Floor

(* A step leaves the pictures alone, or adds one of the target to the      *)
(* queue, or takes the oldest one out, to look at it or not.               *)
LEMMA PictureSteps ==
  ASSUME [RobotNext]_robotVars
  PROVE  \/ UNCHANGED <<filled, examined>>
         \/ /\ filled' = Append(filled, [shown |-> [thing |-> target, still |-> ~Rolling],
                                          age |-> 0])
            /\ UNCHANGED examined
         \/ /\ filled # <<>> /\ filled' = Older(Tail(filled))
            /\ examined' \in {examined, Head(filled)}
PROOF
  <1>1. CASE UNCHANGED robotVars
    BY <1>1 DEF robotVars, uvcVars, timing
  <1>2. CASE Tick
    BY <1>2 DEF Tick, Camera, Expose, uvcVars
  <1>3. CASE TakeFrame \/ Undecodable
    BY <1>3 DEF TakeFrame, Undecodable, GetFrame
  <1>4. CASE TimedOut
    BY <1>4 DEF TimedOut, uvcVars
  <1>5. CASE SeesBall \/ SeesNoBall \/ SeesBucket \/ SeesNoBucket \/ LetGo
    BY <1>5 DEF SeesBall, SeesNoBall, SeesBucket, SeesNoBucket, LetGo, Deciding, uvcVars
  <1>6. CASE GrabSteps \/ (PulseEnds /\ Goes(0) /\ UNCHANGED armVars)
             \/ (NextRound /\ grab_pos /\ Goes(0))
    BY <1>6 DEF GrabSteps, Goes, uvcVars
  <1> QED  BY <1>1, <1>2, <1>3, <1>4, <1>5, <1>6 DEF RobotNext, Program

LEMMA FloorOnlyInTick ==
  ASSUME [RobotNext]_robotVars
  PROVE  plant' = plant /\ (target' = target \/ Floor)
BY DEF RobotNext, robotVars, outside, Tick, Program, TakeFrame, Undecodable, TimedOut, SeesBall,
       SeesNoBall, SeesBucket, SeesNoBucket, LetGo, Deciding, GrabSteps, Goes

LEMMA WorldStep ==
  ASSUME TypeOK, QueueInv, WorldInv, [RobotNext]_robotVars
  PROVE  WorldInv'
PROOF
  <1>1. plant' \in Plants /\ target' = Thing(target'.thing, target') /\ Placed(target')
    BY FloorOnlyInTick, FloorStep DEF WorldInv, Thing, Placed
  <1>2. /\ \A n \in 1..Len(filled') : Placed(filled'[n].shown.thing)
        /\ Placed(examined'.shown.thing)
    <2>1. CASE UNCHANGED <<filled, examined>>
      BY <2>1 DEF WorldInv
    <2>2. CASE /\ filled' = Append(filled, [shown |-> [thing |-> target, still |-> ~Rolling],
                                            age |-> 0])
               /\ UNCHANGED examined
      <3> DEFINE shot == [thing |-> target, still |-> ~Rolling]
      <3>1. shot.thing = target
        OBVIOUS
      <3> HIDE DEF shot
      <3>2. filled' = Append(filled, [shown |-> shot, age |-> 0])
        BY <2>2 DEF shot
      <3>3. /\ Len(filled) \in Nat /\ Len(filled') = Len(filled) + 1
            /\ \A n \in 1..Len(filled) : filled'[n] = filled[n]
            /\ filled'[Len(filled) + 1].shown = shot
        BY <3>2, ExposedPictures DEF QueueInv, QueueTypeOK
      <3>4. \A n \in 1..Len(filled') : n \in 1..Len(filled) \/ n = Len(filled) + 1
        BY <3>3
      <3> QED  BY <2>2, <3>1, <3>3, <3>4 DEF WorldInv
    <2>3. CASE /\ filled # <<>> /\ filled' = Older(Tail(filled))
               /\ examined' \in {examined, Head(filled)}
      <3>1. /\ Len(filled) \in Nat \ {0} /\ Len(filled') = Len(filled) - 1
            /\ \A n \in 1..Len(filled') : filled'[n].shown = filled[n + 1].shown
        BY <2>3, OlderPictures DEF QueueInv, QueueTypeOK
      <3>2. \A n \in 1..Len(filled') : n + 1 \in 1..Len(filled)
        BY <3>1
      <3>3. Head(filled) = filled[1] /\ 1 \in 1..Len(filled)
        BY <2>3, <3>1, HeadTailProperties DEF QueueInv, QueueTypeOK, IsPictures
      <3> QED  BY <2>3, <3>1, <3>2, <3>3 DEF WorldInv
    <2> QED  BY <2>1, <2>2, <2>3, PictureSteps
  <1> QED  BY <1>1, <1>2 DEF WorldInv

LEMMA WorldInit == RobotInit => WorldInv
PROOF
  <1> SUFFICES ASSUME RobotInit PROVE WorldInv
    OBVIOUS
  <1>1. filled = <<>> /\ Len(filled) = 0
    BY EmptySeq DEF RobotInit, UvcReady
  <1>2. plant \in Plants /\ target = Thing("ball", plant.ball)
        /\ plant.ball.area \in 1..100 /\ plant.ball.offset \in Int
    BY RobotAssumption DEF RobotInit
  <1>3. target = Thing(target.thing, target) /\ Placed(target)
    BY <1>2 DEF Thing, Placed
  <1>4. Placed(examined.shown.thing)
    BY DEF RobotInit, Blank, Thing, Placed
  <1> QED  BY <1>1, <1>2, <1>3, <1>4 DEF WorldInv

(* The robot's invariant: the loop's own, the queue's and the pictures'.   *)
RobotInv == IInv /\ QueueInv /\ WorldInv

LEMMA RobotInvariant == RobotSpec => []RobotInv
PROOF
  <1>1. RobotInit => RobotInv
    BY InitInv, QueueInit, WorldInit DEF RobotInit, RobotInv
  <1>2. RobotInv /\ [RobotNext]_robotVars => RobotInv'
    BY RobotIsALoop, AnyNextInv, QueueStep, WorldStep DEF RobotInv, IInv
  <1> QED  BY <1>1, <1>2, PTL DEF RobotSpec

(* What the branches of the loop rely on holds between a queue of old      *)
(* pictures and an arm that is still moving too.                           *)
THEOREM RobotRoundCorrect == RobotSpec => [](TypeOK /\ RoundInv)
PROOF
  <1>1. RobotInv => TypeOK /\ RoundInv
    BY DEF RobotInv, IInv
  <1> QED  BY <1>1, RobotInvariant, PTL

(* The robot changes the stage of the match with its wheels at rest.       *)
THEOREM RobotStageChangeCorrect == RobotSpec => StageChangesAtRest
PROOF
  <1>1. RobotInv /\ [RobotNext]_robotVars => [game_state' # game_state => motor' = Standby]_vars
    <2> SUFFICES ASSUME RobotInv, [RobotNext]_robotVars, game_state' # game_state
                 PROVE  motor' = Standby
      OBVIOUS
    <2> QED  BY RobotIsALoop, ChangeAtRest DEF RobotInv
  <1> QED  BY <1>1, RobotInvariant, PTL DEF RobotSpec, StageChangesAtRest

(* The robot is an implementation of the match loop alone, of one whose    *)
(* camera may show anything: every step of the camera, the arm and the     *)
(* floor is a step of the loop or leaves it where it is.                   *)
THEOREM RobotImplementsLoop ==
  ASSUME BallViews = View, BucketViews = View
  PROVE  RobotSpec => Spec
PROOF
  <1>1. RobotInit => Init
    BY DEF RobotInit
  <1>2. AnyNext => Next
    BY DEF AnyNext, Next, AnyFindBucket, AnyApproachBucket, FindBucket, ApproachBucket
  <1>3. RobotInv /\ [RobotNext]_robotVars => [Next]_vars
    BY <1>2, RobotIsALoop DEF RobotInv
  <1> QED  BY <1>1, <1>3, RobotInvariant, PTL DEF RobotSpec, Spec

(* And so of what the robot promises, whatever the views of the loop that  *)
(* was checked alone: with wheels at rest it takes a ball, carries it held *)
(* and lifted, and lets go of it.                                          *)
THEOREM RobotDelivers == RobotSpec => Delivers
PROOF
  <1>1. RobotInit => Delivery!Init
    BY RestTypes DEF RobotInit, Init, Ready, Delivery!Init
  <1>2. RobotInv /\ RobotInv' /\ [RobotNext]_robotVars => [Delivery!Next]_(Delivery!vars)
    BY RobotIsALoop, StepSimulated DEF RobotInv
  <1> QED  BY <1>1, <1>2, RobotInvariant, PTL DEF RobotSpec, Delivers, Delivery!Spec

-----------------------------------------------------------------------------
(* The arm keeps pace with the loop.  The loop never hears of a servo: it  *)
(* relies on the sleep after each command.  So what is invariant is not    *)
(* where a servo is but that it needs no more ticks than the loop still    *)
(* sleeps, and, for the servos the last command did not move, none at all. *)
Settling(servos, pose, ticks) ==
  \A s \in DOMAIN pose :
    /\ servos[s].to = angle_to_pulse(pose[s])
    /\ servos[s].left <= ticks \/ servos[s].at = servos[s].to

IsServo(x) == x = [at |-> x.at, to |-> x.to, left |-> x.left] /\ x.left \in Nat

ServoTypeOK ==
  /\ arm_fd = TRUE
  /\ servo = [s \in Servos |-> servo[s]]
  /\ \A s \in Servos : IsServo(servo[s])
  /\ busy \in Nat

Carrying == game_state \in {"FIND_BUCKET", "APPROACH_BUCKET"}

PaceInv ==
  /\ ServoTypeOK
  /\ pc = "closing" => Settling(servo, ArmDown, busy) /\ Settling(servo, GripOpen, busy)
  /\ pc = "lifting" => Settling(servo, ArmDown, 0) /\ Settling(servo, GripClose, busy)
  /\ Carrying => Settling(servo, ArmUp, busy) /\ Settling(servo, GripClose, 0)

LEMMA PoseDomains ==
  /\ DOMAIN ArmDown = {0, 1} /\ DOMAIN ArmUp = {0, 1}
  /\ DOMAIN GripOpen = {2} /\ DOMAIN GripClose = {2}
BY DEF ArmDown, ArmUp, GripOpen, GripClose

(* A settled servo stays so; a tick brings the others one tick nearer.     *)
LEMMA ServoTick ==
  ASSUME NEW x, IsServo(x), NEW ticks \in Nat, NEW pulse,
         x.to = pulse, x.left <= ticks \/ x.at = x.to
  PROVE  /\ IsServo(Turned(x)) /\ Turned(x).to = pulse
         /\ Turned(x).left <= (IF ticks = 0 THEN 0 ELSE ticks - 1) \/ Turned(x).at = Turned(x).to
PROOF
  <1>1. x.left \in Nat
    BY DEF IsServo
  <1>2. CASE x.left <= 1
    <2>1. Turned(x) = [at |-> x.to, to |-> x.to, left |-> 0]
      BY <1>2 DEF Turned, At
    <2> QED  BY <2>1 DEF IsServo
  <1>3. CASE ~(x.left <= 1)
    <2>1. Turned(x) = [x EXCEPT !.left = @ - 1]
      BY <1>3 DEF Turned
    <2>2. Turned(x) = [at |-> x.at, to |-> x.to, left |-> x.left - 1]
      BY <2>1 DEF IsServo
    <2>3. x.left - 1 \in Nat
      BY <1>1, <1>3
    <2>4. x.left <= ticks => x.left - 1 <= IF ticks = 0 THEN 0 ELSE ticks - 1
      BY <1>1, <1>3
    <2> QED  BY <2>2, <2>3, <2>4 DEF IsServo
  <1> QED  BY <1>2, <1>3

LEMMA ServosMove ==
  ASSUME ServoTypeOK, MoveServos, NEW ticks \in Nat,
         NEW pose, DOMAIN pose \subseteq Servos, Settling(servo, pose, ticks)
  PROVE  Settling(servo', pose, IF ticks = 0 THEN 0 ELSE ticks - 1)
PROOF
  <1> DEFINE next == IF ticks = 0 THEN 0 ELSE ticks - 1
  <1>1. ASSUME NEW s \in DOMAIN pose
        PROVE  /\ servo'[s].to = angle_to_pulse(pose[s])
               /\ servo'[s].left <= next \/ servo'[s].at = servo'[s].to
    <2>1. servo'[s] = Turned(servo[s]) /\ IsServo(servo[s])
      BY DEF MoveServos, ServoTypeOK
    <2>2. /\ servo[s].to = angle_to_pulse(pose[s])
          /\ servo[s].left <= ticks \/ servo[s].at = servo[s].to
      BY DEF Settling
    <2> QED  BY <2>1, <2>2, ServoTick
  <1> QED  BY <1>1 DEF Settling

(* What a command asks of a servo it will have done within SERVO_TICKS; a  *)
(* servo that it does not name goes on as before.                          *)
LEMMA PoseSet ==
  ASSUME ServoTypeOK, NEW pose, DOMAIN pose \subseteq Servos, set_angle(pose)
  PROVE  /\ arm_fd' = TRUE /\ servo' = [s \in Servos |-> servo'[s]]
         /\ \A s \in Servos : IsServo(servo'[s])
         /\ \A s \in DOMAIN pose : /\ servo'[s].to = angle_to_pulse(pose[s])
                                   /\ servo'[s].left = SERVO_TICKS
         /\ \A s \in Servos \ DOMAIN pose : servo'[s] = servo[s]
PROOF
  <1>1. \A s \in Servos \ DOMAIN pose : servo'[s] = servo[s]
    BY DEF set_angle
  <1>2. ASSUME NEW s \in DOMAIN pose
        PROVE  servo'[s] = [at |-> servo[s].at, to |-> angle_to_pulse(pose[s]), left |-> SERVO_TICKS]
    <2>1. servo'[s] = [servo[s] EXCEPT !.to = angle_to_pulse(pose[s]), !.left = SERVO_TICKS]
      BY DEF set_angle, ServoTypeOK
    <2>2. servo[s] = [at |-> servo[s].at, to |-> servo[s].to, left |-> servo[s].left]
      BY DEF ServoTypeOK, IsServo
    <2> QED  BY <2>1, <2>2
  <1>3. ASSUME NEW s \in Servos PROVE IsServo(servo'[s])
    <2>1. CASE s \in DOMAIN pose
      <3> DEFINE r == [at |-> servo[s].at, to |-> angle_to_pulse(pose[s]), left |-> SERVO_TICKS]
      <3>1. r = [at |-> r.at, to |-> r.to, left |-> r.left] /\ r.left \in Nat
        BY ArmAssumption
      <3>2. servo'[s] = r
        BY <1>2, <2>1
      <3> HIDE DEF r
      <3> QED  BY <3>1, <3>2 DEF IsServo
    <2>2. CASE s \notin DOMAIN pose
      BY <1>1, <2>2 DEF ServoTypeOK
    <2> QED  BY <2>1, <2>2
  <1> QED  BY <1>1, <1>2, <1>3 DEF set_angle, ServoTypeOK

(* A step of the program that sends the arm nothing, and leads neither     *)
(* into the grab nor into the delivery, may take any time.                 *)
LEMMA ArmLeftAlone ==
  ASSUME PaceInv, UNCHANGED armVars, busy = 0, busy' \in Nat,
         pc' \in {"closing", "lifting"} => pc' = pc,
         Carrying' => Carrying
  PROVE  PaceInv'
PROOF
  <1>1. servo' = servo /\ arm_fd' = arm_fd
    BY DEF armVars
  <1>2. ServoTypeOK'
    BY <1>1 DEF PaceInv, ServoTypeOK
  <1>3. ASSUME NEW pose, DOMAIN pose \subseteq Servos, Settling(servo, pose, 0)
        PROVE  Settling(servo', pose, busy') /\ Settling(servo', pose, 0)
    <2>1. \A s \in DOMAIN pose : servo[s].left \in Nat
      BY <1>3 DEF PaceInv, ServoTypeOK, IsServo
    <2> QED  BY <1>1, <1>3, <2>1 DEF Settling
  <1>4. /\ DOMAIN ArmDown \subseteq Servos /\ DOMAIN ArmUp \subseteq Servos
        /\ DOMAIN GripOpen \subseteq Servos /\ DOMAIN GripClose \subseteq Servos
    BY PoseDomains DEF Servos
  <1> QED  BY <1>2, <1>3, <1>4 DEF PaceInv

LEMMA TickPace ==
  ASSUME PaceInv, Tick
  PROVE  PaceInv'
PROOF
  <1> DEFINE next == IF busy = 0 THEN 0 ELSE busy - 1
  <1>1. /\ busy \in Nat /\ busy' = next /\ MoveServos /\ UNCHANGED <<pc, game_state>>
    BY DEF Tick, Selecting, vars, PaceInv, ServoTypeOK
  <1>2. ServoTypeOK'
    <2>1. arm_fd' = TRUE /\ servo' = [s \in Servos |-> Turned(servo[s])]
      BY <1>1 DEF MoveServos, PaceInv, ServoTypeOK
    <2>2. \A s \in Servos : IsServo(Turned(servo[s]))
      <3> TAKE s \in Servos
      <3>1. IsServo(servo[s])
        BY DEF PaceInv, ServoTypeOK
      <3>2. servo[s].left \in Nat /\ servo[s].left <= servo[s].left
        BY <3>1 DEF IsServo
      <3> QED  BY <3>1, <3>2, ServoTick
    <2>3. busy' \in Nat
      BY <1>1
    <2>4. servo' = [s \in Servos |-> servo'[s]]
      BY <2>1
    <2> QED  BY <2>1, <2>2, <2>3, <2>4 DEF ServoTypeOK
  <1>3. ASSUME NEW pose, DOMAIN pose \subseteq Servos
        PROVE  /\ Settling(servo, pose, busy) => Settling(servo', pose, busy')
               /\ Settling(servo, pose, 0) => Settling(servo', pose, 0)
    BY <1>1, <1>3, ServosMove DEF PaceInv
  <1>4. /\ DOMAIN ArmDown \subseteq Servos /\ DOMAIN ArmUp \subseteq Servos
        /\ DOMAIN GripOpen \subseteq Servos /\ DOMAIN GripClose \subseteq Servos
    BY PoseDomains DEF Servos
  <1> HIDE DEF next
  <1> QED  BY <1>1, <1>2, <1>3, <1>4 DEF PaceInv, Carrying

(* The three commands of a grab, with the sleep after each.  Each waits    *)
(* long enough for what it sent, if that takes no longer than the shortest *)
(* of the sleeps.                                                          *)
LEMMA GrabPace ==
  ASSUME SERVO_TICKS <= SleepClose, IInv, PaceInv, GrabSteps
  PROVE  PaceInv'
PROOF
  <1> USE DEF Blocked, Runs, Goes, SleepDown, SleepClose, SleepLift
  <1>1. /\ SERVO_TICKS \in Nat /\ SERVO_TICKS <= 10 /\ ServoTypeOK
        /\ pc \in {"lowering", "closing", "lifting"} /\ game_state = "CHASE_BALL" /\ busy = 0
    BY ArmAssumption
    DEF PaceInv, GrabSteps, GrabLower, GrabClose, GrabLift, IInv, RoundInv, BlockingFollowsStage
  <1>2. /\ DOMAIN ArmDown = {0, 1} /\ DOMAIN ArmUp = {0, 1}
        /\ DOMAIN GripOpen = {2} /\ DOMAIN GripClose = {2} /\ Servos = {0, 1, 2}
    BY PoseDomains DEF Servos
  <1>6. /\ DOMAIN ArmUp \subseteq Servos /\ DOMAIN GripClose \subseteq Servos
        /\ Servos \ DOMAIN ArmUp = {2} /\ Servos \ DOMAIN GripClose = {0, 1}
    BY <1>2
  <1>3. CASE GrabLower /\ grab_down /\ Goes(SleepDown)
    <2> DEFINE pose == Joined(ArmDown, GripOpen)
    <2>1. /\ DOMAIN pose = Servos
          /\ \A s \in {0, 1} : pose[s] = ArmDown[s]
          /\ pose[2] = GripOpen[2]
      BY <1>2 DEF Joined
    <2>2. set_angle(pose) /\ busy' = 15 /\ pc' = "closing" /\ game_state' = game_state
      BY <1>3 DEF grab_down, GrabLower
    <2> HIDE DEF pose
    <2>3. /\ arm_fd' = TRUE /\ servo' = [s \in Servos |-> servo'[s]]
          /\ \A s \in Servos : IsServo(servo'[s])
          /\ \A s \in Servos : servo'[s].to = angle_to_pulse(pose[s]) /\ servo'[s].left = SERVO_TICKS
      BY <1>1, <2>1, <2>2, PoseSet
    <2>4. ServoTypeOK'
      BY <2>2, <2>3 DEF ServoTypeOK
    <2>5. Settling(servo', ArmDown, busy') /\ Settling(servo', GripOpen, busy')
      BY <1>1, <1>2, <2>1, <2>2, <2>3 DEF Settling
    <2> QED  BY <1>1, <2>2, <2>4, <2>5 DEF PaceInv, Carrying
  <1>4. CASE GrabClose /\ grab_close /\ Goes(SleepClose)
    <2>1. set_angle(GripClose) /\ busy' = 10 /\ pc = "closing" /\ pc' = "lifting"
          /\ game_state' = game_state
      BY <1>4 DEF grab_close, GrabClose
    <2>2. /\ arm_fd' = TRUE /\ servo' = [s \in Servos |-> servo'[s]]
          /\ \A s \in Servos : IsServo(servo'[s])
          /\ servo'[2].to = angle_to_pulse(GripClose[2]) /\ servo'[2].left = SERVO_TICKS
          /\ \A s \in {0, 1} : servo'[s] = servo[s]
      BY <1>1, <1>2, <1>6, <2>1, PoseSet
    <2>3. ServoTypeOK'
      BY <2>1, <2>2 DEF ServoTypeOK
    <2>4. Settling(servo', GripClose, busy')
      BY <1>1, <1>2, <2>1, <2>2 DEF Settling
    <2>5. Settling(servo', ArmDown, 0)
      BY <1>1, <1>2, <2>1, <2>2 DEF Settling, PaceInv
    <2> QED  BY <1>1, <2>1, <2>3, <2>4, <2>5 DEF PaceInv, Carrying
  <1>5. CASE GrabLift /\ grab_lift /\ Goes(SleepLift)
    <2>1. set_angle(ArmUp) /\ busy' = 12 /\ pc = "lifting" /\ pc' = "frame"
      BY <1>5 DEF grab_lift, GrabLift
    <2>2. /\ arm_fd' = TRUE /\ servo' = [s \in Servos |-> servo'[s]]
          /\ \A s \in Servos : IsServo(servo'[s])
          /\ \A s \in {0, 1} : servo'[s].to = angle_to_pulse(ArmUp[s]) /\ servo'[s].left = SERVO_TICKS
          /\ servo'[2] = servo[2]
      BY <1>1, <1>2, <1>6, <2>1, PoseSet
    <2>3. ServoTypeOK'
      BY <2>1, <2>2 DEF ServoTypeOK
    <2>4. Settling(servo', ArmUp, busy')
      BY <1>1, <1>2, <2>1, <2>2 DEF Settling
    <2>5. Settling(servo', GripClose, 0)
      BY <1>1, <1>2, <2>1, <2>2 DEF Settling, PaceInv
    <2> QED  BY <2>1, <2>3, <2>4, <2>5 DEF PaceInv
  <1> QED  BY <1>3, <1>4, <1>5 DEF GrabSteps

(* Opening the gripper for the bucket and making ready for the next ball   *)
(* end a delivery: nothing is relied on until the next grab.               *)
LEMMA DeliveryPace ==
  ASSUME PaceInv, ~Carrying', pc' \notin {"closing", "lifting"}, busy' \in Nat,
         release \/ grab_pos
  PROVE  PaceInv'
PROOF
  <1> DEFINE ready == Joined(ArmUp, GripOpen)
  <1>1. /\ DOMAIN GripOpen \subseteq Servos /\ DOMAIN ready \subseteq Servos
    BY PoseDomains DEF Joined, Servos
  <1>2. set_angle(GripOpen) \/ set_angle(ready)
    BY DEF release, grab_pos
  <1> HIDE DEF ready
  <1>3. /\ arm_fd' = TRUE /\ servo' = [s \in Servos |-> servo'[s]]
        /\ \A s \in Servos : IsServo(servo'[s])
    BY <1>1, <1>2, PoseSet DEF PaceInv
  <1> QED  BY <1>3 DEF PaceInv, ServoTypeOK

LEMMA PaceStep ==
  ASSUME SERVO_TICKS <= SleepClose, RobotInv, PaceInv, [RobotNext]_robotVars
  PROVE  PaceInv'
PROOF
  <1>1. IInv /\ WorldInv
    BY DEF RobotInv
  <1> USE DEF Runs
  <1>2. CASE UNCHANGED robotVars
    BY <1>2 DEF robotVars, vars, armVars, timing, PaceInv, ServoTypeOK, Carrying
  <1>3. CASE Tick
    BY <1>3, TickPace
  <1>4. CASE TakeFrame
    <2>1. plant.think \in Nat
      BY <1>1, RobotAssumption DEF WorldInv
    <2>2. UNCHANGED <<pc, game_state, armVars>> /\ busy = 0 /\ busy' = plant.think
      BY <1>4 DEF TakeFrame, vars
    <2>3. busy' \in Nat /\ UNCHANGED armVars
      BY <2>1, <2>2
    <2> QED  BY <2>2, <2>3, ArmLeftAlone DEF Carrying
  <1>5. CASE Undecodable \/ TimedOut
    <2>1. UNCHANGED <<pc, game_state>> /\ UNCHANGED armVars /\ busy = 0 /\ busy' = 0
      BY <1>5 DEF Undecodable, TimedOut, NoFrame
    <2> QED  BY <2>1, ArmLeftAlone DEF Carrying
  <1>6. CASE SeesBall \/ SeesNoBall
    <2>1. busy = 0 /\ busy' \in Nat /\ UNCHANGED armVars
      BY <1>6 DEF SeesBall, SeesNoBall, Deciding, PULSE_TICKS, KICK_TICKS
    <2>2. game_state' = game_state /\ pc' \in {"frame", "braking", "kicking"}
      <3>1. CASE SeesBall
        <4>1. Place \in View /\ ChaseBall(Place)
          BY <1>1, <3>1 DEF SeesBall, WorldInv, Placed, Place, Shown, View
        <4> QED  BY <1>1, <4>1, BallFrame, BallBranches
      <3>2. CASE SeesNoBall
        BY <3>2 DEF SeesNoBall, Search, Scan, LoseBall, NewFrame
      <3> QED  BY <1>6, <3>1, <3>2
    <2> QED  BY <2>1, <2>2, ArmLeftAlone DEF Carrying
  <1>7. CASE SeesBucket \/ SeesNoBucket
    <2>1. busy = 0 /\ busy' \in Nat /\ UNCHANGED armVars
      BY <1>7 DEF SeesBucket, SeesNoBucket, Deciding, PULSE_TICKS
    <2>2. pc' \in {"frame", "arriving"} /\ Carrying
      BY <1>7 DEF SeesBucket, SeesNoBucket, FindWait, FindConfirm, FindMiss, ApproachArrive,
         ApproachSteer, ApproachMiss, Looking, NewFrame, Carrying
    <2> QED  BY <2>1, <2>2, ArmLeftAlone
  <1>8. CASE LetGo
    <2>1. release /\ busy' \in Nat /\ pc' = "releasing" /\ game_state' = "DEPOSIT"
      BY <1>8 DEF LetGo, Deciding, Deposit, SleepRelease
    <2> QED  BY <2>1, DeliveryPace DEF Carrying
  <1>9. CASE GrabSteps
    BY <1>1, <1>9, GrabPace
  <1>10. CASE PulseEnds /\ Goes(0) /\ UNCHANGED armVars
    <2>1. /\ busy = 0 /\ busy' = 0 /\ UNCHANGED armVars
          /\ pc' \in {"lowering", "frame"} /\ game_state' \in {game_state, "DEPOSIT"}
      BY <1>10 DEF PulseEnds, Goes, BrakeDone, KickDone, Arrived, Blocked
    <2> QED  BY <2>1, ArmLeftAlone DEF Carrying
  <1>11. CASE NextRound /\ grab_pos /\ Goes(0)
    <2>1. grab_pos /\ busy' = 0 /\ pc' = "frame" /\ game_state' = "CHASE_BALL"
      BY <1>11 DEF NextRound, Goes
    <2> QED  BY <2>1, DeliveryPace DEF Carrying
  <1> QED  BY <1>2, <1>3, <1>4, <1>5, <1>6, <1>7, <1>8, <1>9, <1>10, <1>11 DEF RobotNext, Program

LEMMA PaceInit == RobotInit => PaceInv
PROOF
  <1> SUFFICES ASSUME RobotInit PROVE PaceInv
    OBVIOUS
  <1>1. pc = "frame" /\ game_state = "CHASE_BALL" /\ busy = 0 /\ arm_fd = TRUE
    BY DEF RobotInit, Init, ArmInit
  <1>2. servo = [s \in Servos |-> At(angle_to_pulse(Joined(ArmUp, GripOpen)[s]))]
    BY DEF RobotInit, ArmInit
  <1>3. \A pulse : IsServo(At(pulse))
    BY DEF IsServo, At
  <1>4. ServoTypeOK
    BY <1>1, <1>2, <1>3 DEF ServoTypeOK
  <1> QED  BY <1>1, <1>4 DEF PaceInv, Carrying

(* The sleeps of grab() are long enough, for any loop, floor and queue, if *)
(* a servo needs no more than the shortest of them.  There is no slack:    *)
(* set_angle() gives a servo 1000 ms and the sleep after the gripper's     *)
(* command is as long (arm.cpp:153).                                       *)
THEOREM RobotArmKeepsPace ==
  ASSUME SERVO_TICKS <= SleepClose
  PROVE  RobotSpec => []ArmKeepsPace
PROOF
  <1>1. PaceInv /\ RobotInv /\ [RobotNext]_robotVars => PaceInv'
    BY PaceStep
  <1>2. PaceInv => ArmKeepsPace
    <2> SUFFICES ASSUME PaceInv, busy = 0
                 PROVE  /\ pc = "closing" => InPose(ArmDown) /\ InPose(GripOpen)
                        /\ pc = "lifting" => InPose(ArmDown) /\ InPose(GripClose)
                        /\ game_state = "FIND_BUCKET" => InPose(ArmUp) /\ InPose(GripClose)
      BY DEF ArmKeepsPace
    <2>1. /\ DOMAIN ArmDown \subseteq Servos /\ DOMAIN ArmUp \subseteq Servos
          /\ DOMAIN GripOpen \subseteq Servos /\ DOMAIN GripClose \subseteq Servos
      BY PoseDomains DEF Servos
    <2>2. ASSUME NEW pose, DOMAIN pose \subseteq Servos, Settling(servo, pose, 0)
          PROVE  InPose(pose)
      <3>1. \A s \in DOMAIN pose : servo[s].left \in Nat
        BY <2>2 DEF PaceInv, ServoTypeOK, IsServo
      <3> QED  BY <2>2, <3>1 DEF Settling, InPose
    <2> QED  BY <2>1, <2>2 DEF PaceInv, Carrying
  <1> QED  BY <1>1, <1>2, PaceInit, RobotInvariant, PTL DEF RobotSpec

-----------------------------------------------------------------------------
(* An iteration rolls for no more than a lap: while the network thinks, or *)
(* for a kick.  A tick of rolling swings the picture by no more than this. *)
LapOf(p)   == IF p.think < KICK_TICKS THEN KICK_TICKS ELSE p.think
SwingOf(p) == IF p.px = 0 THEN 1 ELSE p.px

Lap   == LapOf(plant)
Swing == SwingOf(plant)

LEMMA PlantFacts ==
  ASSUME WorldInv
  PROVE  /\ Lap \in Nat /\ Lap >= 2 /\ plant.think \in Nat \ {0} /\ plant.think <= Lap
         /\ Swing \in Nat \ {0} /\ plant.px \in Nat /\ plant.px <= Swing
BY RobotAssumption DEF WorldInv, Lap, LapOf, Swing, SwingOf, KICK_TICKS

LEMMA TimesGrows ==
  ASSUME NEW w \in Nat, NEW m \in Int, NEW n \in Int, m <= n
  PROVE  /\ w * m \in Int /\ w * n \in Int /\ w * m <= w * n
         /\ w * (m + 1) = w * m + w
PROOF
  <1>1. PICK d \in Nat : n = m + d
    <2>1. n - m \in Nat /\ n = m + (n - m)
      OBVIOUS
    <2> QED  BY <2>1
  <1>2. w * (m + d) = w * m + w * d /\ w * d \in Nat
    OBVIOUS
  <1> QED  BY <1>1, <1>2

-----------------------------------------------------------------------------
(* A tick moves the picture by no more than a swing, and what it shows by  *)
(* no more than a percent; and only when the wheels roll.                  *)
Step == IF Rolling THEN 1 ELSE 0

LEMMA SignRange == ASSUME NEW x \in Int PROVE Sign(x) \in {-1, 0, 1}
BY DEF Sign

LEMMA StepRange ==
  ASSUME TypeOK, WorldInv
  PROVE  /\ TurnOf \in Int /\ -(Swing * Step) <= TurnOf /\ TurnOf <= Swing * Step
         /\ Approach \in Int /\ -Step <= Approach /\ Approach <= Step
         /\ Step \in {0, 1} /\ Swing * Step \in Int
PROOF
  <1>1. motor.left \in Int /\ motor.right \in Int
    BY DEF TypeOK, MotorCommand, PwmValues
  <1>2. /\ Sign(motor.left) \in {-1, 0, 1} /\ Sign(motor.left - motor.right) \in {-1, 0, 1}
        /\ Sign(motor.left + motor.right) \in {-1, 0, 1}
    BY <1>1, SignRange
  <1>3. Swing \in Nat \ {0} /\ plant.px \in Nat /\ plant.px <= Swing
    BY PlantFacts
  <1>4. CASE ~Rolling
    <2>1. TurnOf = 0 /\ Approach = 0 /\ Step = 0
      BY <1>4 DEF TurnOf, Approach, Step
    <2> QED  BY <1>3, <2>1
  <1>5. CASE Rolling
    <2>1. Step = 1
      BY <1>5 DEF Step
    <2>2. \A x \in {-1, 0, 1} : x * plant.px \in {-plant.px, 0, plant.px}
      BY <1>3
    <2>3. TurnOf \in {0, -plant.px, plant.px, -1, 1}
      BY <1>2, <2>2 DEF TurnOf
    <2>4. Approach \in {-1, 0, 1}
      BY <1>2 DEF Approach
    <2> QED  BY <1>3, <2>1, <2>3, <2>4
  <1> QED  BY <1>4, <1>5

LEMMA Moves ==
  ASSUME WorldInv, Move
  PROVE  /\ target' = [thing |-> target.thing, area |-> target'.area, offset |-> target'.offset]
         /\ target'.thing = target.thing /\ held' = held
         /\ target'.offset = Within(target.offset - TurnOf, -2 * half_w, 2 * half_w)
         /\ target'.area = Within(target.area + Approach, 1, 100)
PROOF
  <1> DEFINE o == Within(target.offset - TurnOf, -2 * half_w, 2 * half_w)
             a == Within(target.area + Approach, 1, 100)
  <1>1. target' = [target EXCEPT !.offset = o, !.area = a] /\ held' = held
    BY DEF Move
  <1> HIDE DEF o, a
  <1>2. target = [thing |-> target.thing, area |-> target.area, offset |-> target.offset]
    BY DEF WorldInv, Thing
  <1>3. target' = [thing |-> target.thing, area |-> a, offset |-> o]
    BY <1>1, <1>2
  <1> QED  BY <1>1, <1>3 DEF o, a

-----------------------------------------------------------------------------
(* What a tick and a getFrame() do to the pictures, place by place.        *)
LEMMA TickQueue ==
  ASSUME QueueInv, Tick
  PROVE  /\ Len(filled) \in Nat /\ Len(filled') \in Nat
         /\ \A n \in 1..Len(filled) : n \in 1..Len(filled') /\ filled'[n] = filled[n]
         /\ \A n \in 1..Len(filled') :
              \/ n \in 1..Len(filled)
              \/ /\ n = Len(filled) + 1 /\ Len(filled') = Len(filled) + 1
                 /\ filled'[n].age = 0 /\ filled'[n].shown.thing = target
                 /\ filled'[n].shown.still = ~Rolling
PROOF
  <1>1. CASE filled' = filled
    <2>1. Len(filled) \in Nat
      BY LenProperties DEF QueueInv, QueueTypeOK, IsPictures
    <2> QED  BY <1>1, <2>1
  <1>2. CASE filled' # filled
    <2> DEFINE shot == [thing |-> target, still |-> ~Rolling]
    <2>1. shot.thing = target /\ shot.still = ~Rolling
      OBVIOUS
    <2>2. filled' = Append(filled, [shown |-> shot, age |-> 0])
      BY <1>2 DEF Tick, Camera, Expose, uvcVars
    <2> HIDE DEF shot
    <2>3. /\ Len(filled) \in Nat /\ Len(filled') = Len(filled) + 1
          /\ \A n \in 1..Len(filled) : filled'[n] = filled[n]
          /\ filled'[Len(filled) + 1].age = 0 /\ filled'[Len(filled) + 1].shown = shot
      BY <2>2, ExposedPictures DEF QueueInv, QueueTypeOK
    <2>4. \A n \in 1..Len(filled') : n \in 1..Len(filled) \/ n = Len(filled) + 1
      BY <2>3
    <2>5. \A n \in 1..Len(filled) : n \in 1..Len(filled')
      BY <2>3
    <2>6. Len(filled') \in Nat
      BY <2>3
    <2> QED  BY <2>1, <2>3, <2>4, <2>5, <2>6
  <1> QED  BY <1>1, <1>2

Pops == TakeFrame \/ Undecodable

LEMMA PopQueue ==
  ASSUME QueueInv, Pops
  PROVE  /\ Len(filled) \in Nat \ {0} /\ Len(filled') = Len(filled) - 1
         /\ Head(filled) = filled[1] /\ 1 \in 1..Len(filled)
         /\ filled[1].age \in Nat /\ filled[1].age + 1 <= buffer_count_
         /\ \A n \in 1..Len(filled') :
              /\ n + 1 \in 1..Len(filled) /\ filled[n + 1].age \in Nat
              /\ filled'[n].age = filled[n + 1].age + 1
              /\ filled'[n].shown = filled[n + 1].shown
PROOF
  <1>1. filled # <<>> /\ filled' = Older(Tail(filled))
    BY DEF Pops, TakeFrame, Undecodable, GetFrame
  <1>2. /\ Len(filled) \in Nat \ {0} /\ Len(filled') = Len(filled) - 1
        /\ \A n \in 1..Len(filled) : filled[n].age \in Nat
        /\ \A n \in 1..Len(filled') : /\ filled'[n].age = filled[n + 1].age + 1
                                      /\ filled'[n].shown = filled[n + 1].shown
    BY <1>1, OlderPictures DEF QueueInv, QueueTypeOK
  <1>3. Head(filled) = filled[1] /\ 1 \in 1..Len(filled)
    BY <1>1, <1>2, HeadTailProperties DEF QueueInv, QueueTypeOK, IsPictures
  <1>4. \A n \in 1..Len(filled') : n + 1 \in 1..Len(filled)
    BY <1>2
  <1>5. filled[1].age + 1 <= buffer_count_
    BY <1>3 DEF QueueInv, PicturesAreRecent
  <1> QED  BY <1>2, <1>3, <1>4, <1>5

-----------------------------------------------------------------------------
(* The other steps are the program's: they leave the pictures and the      *)
(* floor alone, and end whatever it was doing.                             *)
Acts ==
  \/ TimedOut
  \/ SeesBall \/ SeesNoBall \/ SeesBucket \/ SeesNoBucket
  \/ LetGo
  \/ GrabSteps
  \/ PulseEnds /\ Goes(0) /\ UNCHANGED armVars
  \/ NextRound /\ grab_pos /\ Goes(0)

LEMMA StepKinds == [RobotNext]_robotVars => Tick \/ Pops \/ Acts \/ UNCHANGED robotVars
BY DEF RobotNext, Program, Pops, Acts

(* What the program does while it looks at a picture or blocks, and for    *)
(* how long; and that a picture that is looked at is a real one.           *)
ClockInv ==
  /\ busy \in Nat /\ looking \in BOOLEAN
  /\ looking => pc = "frame" /\ busy <= plant.think
  /\ pc = "kicking" => busy <= KICK_TICKS
  /\ pc = "braking" => motor = Brake
  /\ pc = "frame" /\ ~looking /\ Rolling => busy = 0

PictureInv ==
  /\ buffer_count_ \in Grants
  /\ examined.age \in Nat /\ examined.age + 1 <= buffer_count_
  /\ target.area \in 1..100
  /\ \A i \in 1..Len(filled) : filled[i].shown.thing.area \in 1..100
  /\ looking => Shown.area \in 1..100

LEMMA NotRolling ==
  ASSUME RobotInv, ClockInv, pc \notin {"frame", "kicking"}
  PROVE  ~Rolling
PROOF
  <1>1. pc \in {"braking", "lowering", "closing", "lifting", "arriving", "releasing"}
    BY DEF RobotInv, IInv, TypeOK, Blocking
  <1>2. motor \in {Brake, Standby}
    BY <1>1 DEF ClockInv, RobotInv, IInv, RoundInv, RestBeforeChange, BlockingFollowsStage, Grabbing
  <1> QED  BY <1>2, RestTypes DEF Rolling

LEMMA ActFrame ==
  ASSUME ClockInv, Acts
  PROVE  /\ UNCHANGED <<buffer_count_, empty, filled, plant, target, held, examined, outage>>
         /\ busy = 0 /\ looking' = FALSE
PROOF
  <1> USE DEF uvcVars, outside, Runs
  <1>1. CASE TimedOut
    BY <1>1 DEF TimedOut
  <1>2. CASE SeesBall \/ SeesNoBall \/ SeesBucket \/ SeesNoBucket \/ LetGo
    BY <1>2 DEF SeesBall, SeesNoBall, SeesBucket, SeesNoBucket, LetGo, Deciding
  <1>3. CASE GrabSteps \/ (PulseEnds /\ Goes(0)) \/ (NextRound /\ Goes(0))
    <2>1. pc # "frame"
      BY <1>3 DEF GrabSteps, GrabLower, GrabClose, GrabLift, PulseEnds, BrakeDone, KickDone,
         Arrived, NextRound, Blocked
    <2>2. \E ticks : Goes(ticks)
      BY <1>3 DEF GrabSteps
    <2>3. looking = FALSE
      BY <2>1 DEF ClockInv
    <2> QED  BY <2>2, <2>3 DEF Goes
  <1> QED  BY <1>1, <1>2, <1>3 DEF Acts

LEMMA PlaceType == ASSUME WorldInv PROVE Place \in View
BY DEF WorldInv, Placed, Place, Shown, View

(* What the wheels and the program do next.  From a look the loop goes on  *)
(* at once, to a kick or to a blocking call; a blocking call ends at rest. *)
LEMMA ActMoves ==
  ASSUME RobotInv, ClockInv, Acts
  PROVE  /\ busy' \in Nat
         /\ pc' = "braking" => motor' = Brake
         /\ looking => /\ pc' = "kicking" => busy' = KICK_TICKS
                       /\ pc' = "frame" => busy' = 0
         /\ ~looking => /\ pc' # "kicking"
                        /\ pc' = "frame" /\ Rolling' => pc = "frame" /\ motor' = motor /\ busy' = 0
PROOF
  <1> USE DEF Runs
  <1>0. IInv /\ WorldInv
    BY DEF RobotInv
  <1>1. CASE TimedOut
    BY <1>1 DEF TimedOut, NoFrame, NewFrame
  <1>2. CASE SeesBall
    <2>1. looking /\ ChaseBall(Place) /\ Place \in View
      BY <1>0, <1>2, PlaceType DEF SeesBall, Deciding
    <2>2. pc' \in {"frame", "braking", "kicking"}
      BY <1>0, <2>1, BallBranches
    <2>3. busy' = CASE pc' = "braking" -> PULSE_TICKS [] pc' = "kicking" -> KICK_TICKS [] OTHER -> 0
      BY <1>2 DEF SeesBall, Deciding
    <2>4. /\ pc' = "braking" => busy' = PULSE_TICKS
          /\ pc' = "kicking" => busy' = KICK_TICKS
          /\ pc' = "frame" => busy' = 0
      BY <2>2, <2>3
    <2>5. pc' = "braking" => motor' = Brake
      <3>1. pc = "frame" /\ (BackOff(Place) \/ ConfirmStop(Place) \/ Align(Place) \/ Chase(Place))
        BY <1>0, <2>1, BallFrame
      <3> QED  BY <3>1 DEF BackOff, ConfirmStop, Align, Chase
    <2> QED  BY <2>1, <2>2, <2>4, <2>5 DEF PULSE_TICKS, KICK_TICKS
  <1>3. CASE SeesNoBall
    <2>1. looking /\ pc' = "frame" /\ busy' = 0
      BY <1>3 DEF SeesNoBall, Deciding, Search, Scan, LoseBall, NewFrame
    <2> QED  BY <2>1
  <1>4. CASE SeesBucket
    <2>1. looking /\ pc' \in {"frame", "arriving"}
      BY <1>4 DEF SeesBucket, Deciding, FindWait, FindConfirm, ApproachArrive, ApproachSteer,
         Looking, NewFrame
    <2>2. busy' = IF pc' = "arriving" THEN PULSE_TICKS ELSE 0
      BY <1>4 DEF SeesBucket, Deciding
    <2> QED  BY <2>1, <2>2 DEF PULSE_TICKS
  <1>5. CASE SeesNoBucket
    <2>1. looking /\ pc' = "frame" /\ busy' = 0
      BY <1>5 DEF SeesNoBucket, Deciding, FindMiss, ApproachMiss, Looking, NewFrame
    <2> QED  BY <2>1
  <1>6. CASE LetGo
    <2>1. looking /\ pc' = "releasing" /\ busy' = SleepRelease
      BY <1>6 DEF LetGo, Deciding, Deposit
    <2> QED  BY <2>1 DEF SleepRelease
  <1>7. CASE GrabSteps
    <2>1. /\ pc \in Grabbing /\ pc' \in {"closing", "lifting", "frame"} /\ motor' = motor
          /\ busy' \in Nat
      BY <1>7 DEF GrabSteps, GrabLower, GrabClose, GrabLift, Blocked, Grabbing, Goes,
         SleepDown, SleepClose, SleepLift
    <2>2. motor' = Standby /\ ~looking
      BY <1>0, <2>1 DEF ClockInv, IInv, RoundInv, RestBeforeChange, Grabbing
    <2> QED  BY <2>1, <2>2, RestTypes DEF Rolling
  <1>8. CASE PulseEnds /\ Goes(0) /\ UNCHANGED armVars
    <2>1. /\ pc # "frame" /\ pc' \in {"lowering", "frame"} /\ motor' \in {Brake, Standby}
          /\ busy' = 0
      BY <1>8 DEF PulseEnds, BrakeDone, KickDone, Arrived, Blocked, Goes, HoldStill
    <2> QED  BY <2>1, RestTypes DEF ClockInv, Rolling
  <1>9. CASE NextRound /\ grab_pos /\ Goes(0)
    <2>1. pc = "releasing" /\ pc' = "frame" /\ motor' = motor /\ busy' = 0
      BY <1>9 DEF NextRound, Goes
    <2>2. motor' = Standby
      BY <1>0, <2>1 DEF IInv, RoundInv, RestBeforeChange, BlockingFollowsStage
    <2> QED  BY <2>1, <2>2, RestTypes DEF ClockInv, Rolling
  <1> QED  BY <1>1, <1>2, <1>3, <1>4, <1>5, <1>6, <1>7, <1>8, <1>9 DEF Acts

LEMMA ClockStep ==
  ASSUME RobotInv, ClockInv, [RobotNext]_robotVars
  PROVE  ClockInv'
PROOF
  <1>1. CASE UNCHANGED robotVars
    BY <1>1 DEF robotVars, vars, timing, outside, ClockInv, Rolling
  <1>2. CASE Tick
    <2>1. UNCHANGED <<pc, motor, looking, plant>>
          /\ ((busy > 0 /\ busy' = busy - 1) \/ busy' = busy)
      BY <1>2 DEF Tick, vars
    <2>2. busy' \in Nat /\ busy' <= busy
      BY <2>1 DEF ClockInv
    <2>3. plant.think \in Nat
      BY PlantFacts DEF RobotInv
    <2> QED  BY <2>1, <2>2, <2>3 DEF ClockInv, Rolling, KICK_TICKS
  <1>3. CASE TakeFrame
    <2>1. pc' = "frame" /\ looking' = TRUE /\ busy' = plant.think /\ plant' = plant
      BY <1>3 DEF TakeFrame, Runs, vars, outside
    <2> QED  BY <2>1, PlantFacts DEF ClockInv, RobotInv
  <1>4. CASE Undecodable
    <2>1. UNCHANGED <<pc, motor, looking>> /\ busy' = 0 /\ ~looking /\ pc = "frame"
      BY <1>4 DEF Undecodable, NoFrame, Runs
    <2> QED  BY <2>1 DEF ClockInv
  <1>5. CASE Acts
    <2>1. busy' \in Nat /\ looking' = FALSE /\ (pc' = "braking" => motor' = Brake)
      BY <1>5, ActFrame, ActMoves
    <2>2. pc' = "kicking" => busy' <= KICK_TICKS
      BY <1>5, ActMoves DEF ClockInv, KICK_TICKS
    <2>3. pc' = "frame" /\ Rolling' => busy' = 0
      BY <1>5, ActMoves DEF ClockInv
    <2> QED  BY <2>1, <2>2, <2>3 DEF ClockInv
  <1> QED  BY <1>1, <1>2, <1>3, <1>4, <1>5, StepKinds DEF Pops

LEMMA PictureStep ==
  ASSUME RobotInv, ClockInv, PictureInv, [RobotNext]_robotVars
  PROVE  PictureInv'
PROOF
  <1>1. CASE UNCHANGED robotVars
    BY <1>1 DEF robotVars, uvcVars, timing, outside, PictureInv, Shown
  <1>2. CASE Tick
    <2>1. UNCHANGED <<buffer_count_, examined, looking>>
      BY <1>2 DEF Tick, Camera, Expose, uvcVars
    <2>2. target'.area \in 1..100
      <3>1. CASE Move
        <4>2. target.area + Approach \in Int
          <5>1. Approach \in Int
            BY StepRange DEF RobotInv, IInv
          <5>2. target.area \in 1..100
            BY Zenon DEF PictureInv
          <5> QED  BY <5>1, <5>2
        <4>4. target'.area = Within(target.area + Approach, 1, 100)
          BY <3>1, Moves DEF RobotInv
        <4> QED  BY <4>2, <4>4 DEF Within
      <3>2. CASE target' = Thing("bucket", plant.bucket) \/ target' = Thing("ball", plant.ball)
        <4>1. plant.bucket.area \in 1..100 /\ plant.ball.area \in 1..100
          BY RobotAssumption DEF RobotInv, WorldInv
        <4> QED  BY <3>2, <4>1 DEF Thing
      <3> QED  BY <1>2, <3>1, <3>2 DEF Tick, Floor
    <2>3. \A i \in 1..Len(filled') : filled'[i].shown.thing.area \in 1..100
      BY <1>2, TickQueue DEF RobotInv, PictureInv
    <2> QED  BY <2>1, <2>2, <2>3 DEF PictureInv, Shown
  <1>3. CASE Pops
    <2>1. UNCHANGED <<buffer_count_, target>> /\ examined' \in {examined, filled[1]}
          /\ (looking' => examined' = filled[1])
      <3>1. CASE TakeFrame
        BY <1>3, <3>1, PopQueue DEF TakeFrame, GetFrame, outside, RobotInv
      <3>2. CASE Undecodable
        BY <3>2 DEF Undecodable, GetFrame, outside
      <3> QED  BY <1>3, <3>1, <3>2 DEF Pops
    <2>2. \A i \in 1..Len(filled') : filled'[i].shown.thing.area \in 1..100
      BY <1>3, PopQueue DEF RobotInv, PictureInv
    <2>3. filled[1].age \in Nat /\ filled[1].age + 1 <= buffer_count_
          /\ filled[1].shown.thing.area \in 1..100
      BY <1>3, PopQueue DEF RobotInv, PictureInv
    <2> QED  BY <2>1, <2>2, <2>3 DEF PictureInv, Shown
  <1>4. CASE Acts
    BY <1>4, ActFrame DEF PictureInv, Shown
  <1> QED  BY <1>1, <1>2, <1>3, <1>4, StepKinds

-----------------------------------------------------------------------------
(* The ticks of rolling that this iteration may have spent already: when   *)
(* it began its picture waited, so that each picture that waits has seen   *)
(* its age in laps, and these.                                             *)
Spent ==
  IF looking THEN IF Rolling THEN Lap - busy ELSE KICK_TICKS
  ELSE IF pc = "kicking" THEN Lap + KICK_TICKS - busy
  ELSE IF pc = "frame" /\ Rolling THEN Lap
  ELSE Lap + KICK_TICKS

LEMMA SpentType ==
  ASSUME RobotInv, ClockInv
  PROVE  Spent \in Nat /\ Spent <= Lap + KICK_TICKS
BY PlantFacts DEF RobotInv, ClockInv, Spent, KICK_TICKS

LEMMA SpentTick ==
  ASSUME RobotInv, ClockInv, Tick
  PROVE  /\ Spent' \in Nat /\ Step <= Spent'
         /\ looking \/ filled # <<>> => Spent + Step <= Spent'
PROOF
  <1>1. UNCHANGED <<pc, motor, looking, plant>> /\ Lap' = Lap
    BY DEF Tick, vars, Lap
  <1>2. Rolling' = Rolling
    BY <1>1 DEF Rolling
  <1>3. \/ busy > 0 /\ busy' = busy - 1
        \/ pc = "frame" /\ ~looking /\ busy = 0 /\ filled = <<>> /\ busy' = busy
    BY DEF Tick, Selecting, NothingFilled
  <1>4. Lap \in Nat /\ Lap >= 2 /\ plant.think <= Lap /\ plant.think \in Nat
    BY PlantFacts DEF RobotInv
  <1>5. busy \in Nat /\ (looking => busy <= plant.think) /\ (pc = "kicking" => busy <= KICK_TICKS)
        /\ (looking => pc = "frame") /\ (pc = "frame" /\ ~looking /\ Rolling => busy = 0)
    BY DEF ClockInv
  <1>6. CASE ~Rolling
    <2>1. Step = 0
      BY <1>6 DEF Step
    <2> QED  BY <1>1, <1>2, <1>3, <1>4, <1>5, <1>6, <2>1 DEF Spent, KICK_TICKS
  <1>7. CASE Rolling
    <2>1. Step = 1 /\ (pc = "frame" \/ pc = "kicking")
      BY <1>7, NotRolling DEF Step
    <2> QED  BY <1>1, <1>2, <1>3, <1>4, <1>5, <1>7, <2>1 DEF Spent, KICK_TICKS
  <1> QED  BY <1>6, <1>7

LEMMA SpentPop ==
  ASSUME RobotInv, ClockInv, Pops
  PROVE  Spent' \in Nat /\ Spent <= Lap + Spent'
PROOF
  <1>1. Lap \in Nat /\ Lap >= 2 /\ plant.think <= Lap /\ plant.think \in Nat
    BY PlantFacts DEF RobotInv
  <1>2. UNCHANGED <<pc, motor, plant>> /\ Lap' = Lap /\ pc = "frame" /\ looking = FALSE
    BY DEF Pops, TakeFrame, Undecodable, NoFrame, NewFrame, vars, outside, Lap, ClockInv
  <1>3. Rolling' = Rolling
    BY <1>2 DEF Rolling
  <1>4. CASE TakeFrame
    <2>1. looking' = TRUE /\ busy' = plant.think
      BY <1>4 DEF TakeFrame, Runs
    <2> QED  BY <1>1, <1>2, <1>3, <2>1 DEF Spent, KICK_TICKS
  <1>5. CASE Undecodable
    <2>1. looking' = FALSE
      BY <1>2, <1>5 DEF Undecodable
    <2> QED  BY <1>1, <1>2, <1>3, <2>1 DEF Spent, KICK_TICKS
  <1> QED  BY <1>4, <1>5 DEF Pops

LEMMA SpentAct ==
  ASSUME RobotInv, ClockInv, Acts
  PROVE  Spent' \in Nat /\ Spent <= Spent'
PROOF
  <1>1. Lap \in Nat /\ Lap >= 2
    BY PlantFacts DEF RobotInv
  <1>2. Lap' = Lap /\ busy = 0 /\ looking' = FALSE
    BY ActFrame DEF Lap
  <1>3. CASE looking
    <2>1. pc' = "kicking" => busy' = KICK_TICKS
      BY <1>3, ActMoves
    <2>2. Spent <= Lap /\ Spent \in Nat
      BY <1>1, <1>2, <1>3 DEF Spent, KICK_TICKS
    <2>3. Spent' \in Nat /\ Spent' >= Lap
      BY <1>1, <1>2, <2>1 DEF Spent, KICK_TICKS
    <2> QED  BY <1>1, <2>2, <2>3
  <1>4. CASE ~looking
    <2>1. /\ pc' # "kicking"
          /\ pc' = "frame" /\ Rolling' => pc = "frame" /\ motor' = motor
      BY <1>4, ActMoves
    <2>2. pc' = "frame" /\ Rolling' => pc = "frame" /\ Rolling
      BY <2>1 DEF Rolling
    <2> QED  BY <1>1, <1>2, <1>4, <2>1, <2>2 DEF Spent, KICK_TICKS
  <1> QED  BY <1>3, <1>4

-----------------------------------------------------------------------------
(* What the gripper does to the floor.  It opens where it was told to, and *)
(* shuts only in a grab; so the ball changes hands only when the loop      *)
(* waits for the arm.                                                      *)
OpenPulse   == angle_to_pulse(GripOpen[2])
ClosedPulse == angle_to_pulse(GripClose[2])

HandInv ==
  /\ held \in BOOLEAN
  /\ target.thing = IF held THEN "bucket" ELSE "ball"
  /\ servo[2].to = IF arm.grip = "open" THEN OpenPulse ELSE ClosedPulse
  /\ arm.grip = "open" /\ held => pc = "releasing" /\ busy = SleepRelease
  /\ arm.grip = "closed" /\ pc # "lifting" => InPose(GripClose)
  /\ game_state \in {"APPROACH_BUCKET", "DEPOSIT"} => held \/ pc = "releasing"

ShowsNow(picture) == picture.shown.thing.thing = target.thing
AllNow == \A i \in 1..Len(filled) : ShowsNow(filled[i])

Grabs == pc \in {"braking", "lowering", "closing", "lifting"}

(* Where the loop waits for the arm, or for a bucket that it has seen.     *)
Committed == \/ ~held /\ (Grabs \/ game_state = "FIND_BUCKET")
             \/ held /\ game_state \in {"APPROACH_BUCKET", "DEPOSIT"}

(* The queue never mixes up two rounds: what was taken after a picture of  *)
(* the thing that is on the floor now shows it too, and when the ball      *)
(* changes hands every picture that waits shows what has just gone.        *)
OrderInv ==
  /\ \A i, j \in 1..Len(filled) : i <= j /\ ShowsNow(filled[i]) => ShowsNow(filled[j])
  /\ looking /\ ShowsNow(examined) => AllNow
  /\ Committed => AllNow
  /\ ~held /\ game_state = "FIND_BUCKET" /\ looking => ShowsNow(examined)

LEMMA PulsesDiffer == OpenPulse # ClosedPulse
BY DEF OpenPulse, ClosedPulse, angle_to_pulse, GripOpen, GripClose, PULSE_MIN, PULSE_MAX, ANGLE_MAX

LEMMA GripPose ==
  InPose(GripClose) <=> /\ servo[2].to = ClosedPulse
                        /\ servo[2].left = 0 \/ servo[2].at = servo[2].to
BY PoseDomains DEF InPose, ClosedPulse

LEMMA ServoTurns ==
  ASSUME ServoTypeOK, MoveServos
  PROVE  /\ servo'[2].to = servo[2].to
         /\ servo[2].left \in Nat
         /\ InPose(GripClose) => InPose(GripClose)'
PROOF
  <1>1. servo'[2] = Turned(servo[2]) /\ IsServo(servo[2])
    BY DEF MoveServos, ServoTypeOK, Servos
  <1>2. servo[2].left \in Nat
    BY <1>1 DEF IsServo
  <1>3. /\ servo'[2].to = servo[2].to
        /\ servo[2].at = servo[2].to => servo'[2].at = servo'[2].to
        /\ servo[2].left = 0 => servo'[2].at = servo'[2].to
    <2>1. CASE servo[2].left <= 1
      <3>1. servo'[2] = [at |-> servo[2].to, to |-> servo[2].to, left |-> 0]
        BY <1>1, <2>1 DEF Turned, At
      <3> QED  BY <3>1
    <2>2. CASE ~(servo[2].left <= 1)
      <3>1. servo'[2] = [servo[2] EXCEPT !.left = @ - 1]
        BY <1>1, <2>2 DEF Turned
      <3>2. servo'[2].to = servo[2].to /\ servo'[2].at = servo[2].at
        BY <1>1, <3>1 DEF IsServo
      <3> QED  BY <2>2, <3>2
    <2> QED  BY <2>1, <2>2
  <1>4. InPose(GripClose)' <=> /\ servo'[2].to = ClosedPulse
                               /\ servo'[2].left = 0 \/ servo'[2].at = servo'[2].to
    BY PoseDomains DEF InPose, ClosedPulse
  <1> QED  BY <1>2, <1>3, <1>4, GripPose

(* A tick moves the floor, or the ball goes into the gripper or out of it. *)
LEMMA FloorCases ==
  ASSUME RobotInv, PaceInv, HandInv, Tick
  PROVE  \/ /\ Move /\ held' = held
            /\ ~(Shuts /\ InPose(ArmDown) /\ InGrip)
            /\ arm.grip = "open" => ~held
         \/ /\ pc = "lifting" /\ ~held /\ held' = TRUE /\ target' = Thing("bucket", plant.bucket)
            /\ target.thing = "ball" /\ target'.thing = "bucket" /\ InGrip
         \/ /\ pc = "releasing" /\ held /\ held' = FALSE /\ target' = Thing("ball", plant.ball)
            /\ target.thing = "bucket" /\ target'.thing = "ball"
PROOF
  <1>1. ServoTypeOK /\ MoveServos /\ Floor
    BY DEF PaceInv, Tick
  <1>2. arm.grip = IF pc = "lifting" \/ (game_state # "CHASE_BALL" /\ pc # "releasing")
                   THEN "closed" ELSE "open"
    BY DEF RobotInv, IInv, RoundInv, ArmFollowsStage
  <1>3. CASE Shuts /\ InPose(ArmDown) /\ InGrip
    <2>1. held' = TRUE /\ target' = Thing("bucket", plant.bucket)
      BY <1>1, <1>3 DEF Floor
    <2>2. target'.thing = "bucket"
      BY <2>1 DEF Thing
    <2>3. servo'[2].to = ClosedPulse
      <3>1. InPose(GripClose)'
        BY <1>3 DEF Shuts
      <3> QED  BY <3>1, PoseDomains DEF InPose, ClosedPulse
    <2>4. servo[2].to = ClosedPulse
      BY <1>1, <2>3, ServoTurns
    <2>5. arm.grip = "closed"
      BY <1>2, <2>4, PulsesDiffer DEF HandInv
    <2>6. pc = "lifting"
      BY <1>3, <2>5 DEF HandInv, Shuts
    <2>7. target.thing = "ball"
      BY <1>3 DEF InGrip
    <2>8. ~held
      BY <2>7 DEF HandInv
    <2> QED  BY <1>3, <2>1, <2>2, <2>6, <2>7, <2>8
  <1>4. CASE Opens /\ ~(Shuts /\ InPose(ArmDown) /\ InGrip)
    <2>1. held' = FALSE /\ target' = Thing("ball", plant.ball)
      BY <1>1, <1>4 DEF Floor
    <2>2. target'.thing = "ball"
      BY <2>1 DEF Thing
    <2>3. held /\ servo[2].to = OpenPulse
      BY <1>4 DEF Opens, OpenPulse
    <2>4. arm.grip = "open"
      BY <2>3, PulsesDiffer DEF HandInv
    <2> QED  BY <2>1, <2>2, <2>3, <2>4 DEF HandInv
  <1>5. CASE ~Opens /\ ~(Shuts /\ InPose(ArmDown) /\ InGrip)
    <2>1. Move /\ held' = held
      BY <1>1, <1>5 DEF Floor, Move
    <2>2. arm.grip = "open" => ~held
      BY <1>5 DEF Opens, HandInv, OpenPulse
    <2> QED  BY <1>5, <2>1, <2>2
  <1> QED  BY <1>3, <1>4, <1>5

LEMMA HandTick ==
  ASSUME RobotInv, PaceInv, HandInv, Tick
  PROVE  HandInv'
PROOF
  <1>1. UNCHANGED <<pc, game_state, arm>> /\ ServoTypeOK /\ MoveServos
    BY DEF Tick, vars, PaceInv
  <1>2. servo'[2].to = IF arm'.grip = "open" THEN OpenPulse ELSE ClosedPulse
    BY <1>1, ServoTurns DEF HandInv
  <1>3. arm'.grip = "closed" /\ pc' # "lifting" => InPose(GripClose)'
    BY <1>1, ServoTurns DEF HandInv
  <1>4. arm.grip = IF pc = "lifting" \/ (game_state # "CHASE_BALL" /\ pc # "releasing")
                   THEN "closed" ELSE "open"
    BY DEF RobotInv, IInv, RoundInv, ArmFollowsStage
  <1>5. CASE Move /\ held' = held /\ (arm.grip = "open" => ~held)
    <2>1. target'.thing = target.thing
      BY <1>5, Moves DEF RobotInv
    <2> QED  BY <1>1, <1>2, <1>3, <1>5, <2>1 DEF HandInv
  <1>6. CASE pc = "lifting" /\ ~held /\ held' = TRUE /\ target'.thing = "bucket"
    BY <1>1, <1>2, <1>3, <1>4, <1>6 DEF HandInv
  <1>7. CASE pc = "releasing" /\ held' = FALSE /\ target'.thing = "ball"
    BY <1>1, <1>2, <1>3, <1>7 DEF HandInv
  <1> QED  BY <1>5, <1>6, <1>7, FloorCases

(* In the round's first stage the ball is on the floor, and in the last    *)
(* ones the loop has looked for a bucket that there is only when the ball  *)
(* is in the gripper.                                                      *)
LEMMA ChaseEmptyHanded ==
  ASSUME RobotInv, HandInv, game_state = "CHASE_BALL", pc # "lifting"
  PROVE  ~held /\ target.thing = "ball" /\ arm.grip = "open"
PROOF
  <1>1. arm.grip = "open"
    BY DEF RobotInv, IInv, RoundInv, ArmFollowsStage
  <1>2. pc # "releasing"
    BY DEF RobotInv, IInv, RoundInv, BlockingFollowsStage
  <1>3. ~held
    BY <1>1, <1>2 DEF HandInv
  <1>4. target.thing = "ball"
    BY <1>3, Zenon DEF HandInv
  <1> QED  BY <1>1, <1>3, <1>4

LEMMA ArmSent ==
  ASSUME ServoTypeOK, NEW pose, DOMAIN pose \subseteq Servos, set_angle(pose)
  PROVE  servo'[2].to = IF 2 \in DOMAIN pose THEN angle_to_pulse(pose[2]) ELSE servo[2].to
PROOF
  <1>1. 2 \in Servos
    BY DEF Servos
  <1>2. CASE 2 \in DOMAIN pose
    BY <1>2, PoseSet
  <1>3. CASE 2 \notin DOMAIN pose
    BY <1>1, <1>3, PoseSet
  <1> QED  BY <1>2, <1>3

LEMMA GripSent ==
  ASSUME ServoTypeOK
  PROVE  /\ grab_down \/ release \/ grab_pos => servo'[2].to = OpenPulse
         /\ grab_close => servo'[2].to = ClosedPulse
         /\ grab_lift => servo'[2] = servo[2]
PROOF
  <1>1. /\ DOMAIN ArmDown = {0, 1} /\ DOMAIN ArmUp = {0, 1}
        /\ DOMAIN GripOpen = {2} /\ DOMAIN GripClose = {2} /\ Servos = {0, 1, 2}
    BY PoseDomains DEF Servos
  <1>2. /\ DOMAIN Joined(ArmDown, GripOpen) = {0, 1, 2} /\ Joined(ArmDown, GripOpen)[2] = GripOpen[2]
        /\ DOMAIN Joined(ArmUp, GripOpen) = {0, 1, 2} /\ Joined(ArmUp, GripOpen)[2] = GripOpen[2]
    BY <1>1 DEF Joined
  <1>3. grab_down \/ grab_pos => servo'[2].to = OpenPulse
    BY <1>1, <1>2, ArmSent DEF grab_down, grab_pos, OpenPulse
  <1>4. release => servo'[2].to = OpenPulse
    BY <1>1, ArmSent DEF release, OpenPulse
  <1>5. grab_close => servo'[2].to = ClosedPulse
    BY <1>1, ArmSent DEF grab_close, ClosedPulse
  <1>6. grab_lift => servo'[2] = servo[2]
    BY <1>1 DEF grab_lift, set_angle
  <1> QED  BY <1>3, <1>4, <1>5, <1>6

LEMMA HandAct ==
  ASSUME RobotInv, PaceInv, ClockInv, HandInv, OrderInv, Acts
  PROVE  HandInv'
PROOF
  <1>1. busy = 0 /\ UNCHANGED <<held, target>> /\ ServoTypeOK
    BY ActFrame DEF PaceInv
  <1>2. arm.grip = "open" => ~held
    BY <1>1 DEF HandInv, SleepRelease
  <1>3. arm.grip = IF pc = "lifting" \/ (game_state # "CHASE_BALL" /\ pc # "releasing")
                   THEN "closed" ELSE "open"
    BY DEF RobotInv, IInv, RoundInv, ArmFollowsStage
  <1>4. ASSUME UNCHANGED <<arm, servo>>, pc # "lifting",
               game_state' \in {"APPROACH_BUCKET", "DEPOSIT"} => held
        PROVE  HandInv'
    <2>1. InPose(GripClose)' = InPose(GripClose)
      BY <1>4 DEF InPose
    <2> QED  BY <1>1, <1>2, <1>4, <2>1 DEF HandInv
  <1>5. CASE TimedOut \/ SeesBall \/ SeesNoBall
    <2>1. UNCHANGED <<arm, servo>>
      BY <1>5 DEF TimedOut, SeesBall, SeesNoBall, armVars, NoFrame, ChaseBall, SeeBall,
         Search, Scan, LoseBall
    <2>2. game_state' = game_state /\ pc = "frame"
      BY <1>5 DEF TimedOut, SeesBall, SeesNoBall, NoFrame, ChaseBall, SeeBall, NewFrame,
         Search, Scan, LoseBall
    <2> QED  BY <1>4, <2>1, <2>2 DEF HandInv
  <1>6. CASE SeesBucket \/ SeesNoBucket
    <2>1. UNCHANGED <<arm, servo>> /\ pc = "frame" /\ looking
      BY <1>6 DEF SeesBucket, SeesNoBucket, armVars, Deciding, FindWait, FindConfirm, FindMiss,
         ApproachArrive, ApproachSteer, ApproachMiss, Looking, NewFrame
    <2>2. game_state' \in {"APPROACH_BUCKET", "DEPOSIT"} =>
            game_state = "APPROACH_BUCKET" \/ (game_state = "FIND_BUCKET" /\ Sees("bucket"))
      <3>1. CASE SeesBucket
        BY <3>1 DEF SeesBucket, FindWait, FindConfirm, ApproachArrive, ApproachSteer, Looking
      <3>2. CASE SeesNoBucket
        <4>1. CASE FindMiss
          BY <4>1 DEF FindMiss, Looking
        <4>2. CASE ApproachMiss
          BY <4>2 DEF ApproachMiss, Looking
        <4> QED  BY <3>2, <4>1, <4>2 DEF SeesNoBucket
      <3> QED  BY <1>6, <3>1, <3>2
    <2>3. game_state = "FIND_BUCKET" /\ Sees("bucket") => held
      BY <2>1 DEF OrderInv, HandInv, ShowsNow, Sees, Shown
    <2> QED  BY <1>4, <2>1, <2>2, <2>3 DEF HandInv
  <1>7. CASE LetGo
    <2>1. release /\ arm'.grip = "open" /\ pc' = "releasing" /\ busy' = SleepRelease
      BY <1>7 DEF LetGo, Deposit, Deciding, Runs, RobotInv, IInv, TypeOK, ArmCommand
    <2> QED  BY <1>1, <2>1, GripSent DEF HandInv
  <1>8. CASE GrabSteps
    <2>1. pc \in Grabbing /\ game_state = "CHASE_BALL" /\ arm \in ArmCommand
      BY <1>8 DEF GrabSteps, GrabLower, GrabClose, GrabLift, Blocked, Grabbing,
         RobotInv, IInv, RoundInv, BlockingFollowsStage, TypeOK
    <2>2. CASE GrabLower /\ grab_down
      <3>1. arm'.grip = "open" /\ arm.grip = "open" /\ game_state' = "CHASE_BALL"
        BY <1>3, <2>1, <2>2 DEF GrabLower, Blocked, Lowered
      <3> QED  BY <1>1, <1>2, <2>2, <3>1, GripSent DEF HandInv
    <2>3. CASE GrabClose /\ grab_close
      <3>1. arm'.grip = "closed" /\ pc' = "lifting" /\ game_state' = "CHASE_BALL"
        BY <2>1, <2>3 DEF GrabClose, Blocked, ArmCommand
      <3> QED  BY <1>1, <2>3, <3>1, GripSent DEF HandInv
    <2>4. CASE GrabLift /\ grab_lift
      <3>1. arm'.grip = "closed" /\ arm.grip = "closed" /\ game_state' = "FIND_BUCKET"
        BY <1>3, <2>1, <2>4 DEF GrabLift, Blocked, ArmCommand
      <3>2. InPose(GripClose)
        <4>1. Settling(servo, GripClose, 0)
          BY <1>1, <2>4 DEF PaceInv, GrabLift, Blocked
        <4>2. IsServo(servo[2])
          BY DEF PaceInv, ServoTypeOK, Servos
        <4> QED  BY <4>1, <4>2, PoseDomains DEF Settling, InPose, IsServo
      <3>3. servo'[2] = servo[2]
        BY <1>1, <2>4, GripSent
      <3>4. InPose(GripClose)'
        BY <3>2, <3>3, PoseDomains DEF InPose
      <3> QED  BY <1>1, <3>1, <3>3, <3>4 DEF HandInv
    <2> QED  BY <1>8, <2>2, <2>3, <2>4 DEF GrabSteps
  <1>9. CASE PulseEnds /\ Goes(0) /\ UNCHANGED armVars
    <2>1. UNCHANGED <<arm, servo>> /\ pc # "lifting"
      BY <1>9 DEF PulseEnds, BrakeDone, KickDone, Arrived, Blocked, armVars
    <2>2. game_state' = game_state \/ (pc = "arriving" /\ game_state = "APPROACH_BUCKET")
      BY <1>9 DEF PulseEnds, BrakeDone, KickDone, Arrived, RobotInv, IInv, RoundInv,
         BlockingFollowsStage
    <2>3. pc # "releasing"
      BY <1>9 DEF PulseEnds, BrakeDone, KickDone, Arrived, Blocked
    <2> QED  BY <1>4, <2>1, <2>2, <2>3 DEF HandInv
  <1>10. CASE NextRound /\ grab_pos /\ Goes(0)
    <2>1. grab_pos /\ arm'.grip = "open" /\ arm.grip = "open" /\ game_state' = "CHASE_BALL"
      BY <1>3, <1>10 DEF NextRound, Ready
    <2> QED  BY <1>1, <1>2, <2>1, GripSent DEF HandInv
  <1> QED  BY <1>5, <1>6, <1>7, <1>8, <1>9, <1>10 DEF Acts

(* When the ball changes hands no picture shows what is there from then    *)
(* on, and the loop looks at none.                                         *)
LEMMA TickCases ==
  ASSUME RobotInv, PaceInv, ClockInv, HandInv, OrderInv, Tick
  PROVE  \/ Move /\ held' = held /\ target'.thing = target.thing
         \/ /\ \A n \in 1..Len(filled') : ~ShowsNow(filled[n])'
            /\ looking' = FALSE /\ ~Committed' /\ pc' \in {"lifting", "releasing"}
            /\ ~held' => game_state' = "DEPOSIT"
PROOF
  <1>1. UNCHANGED <<pc, game_state, looking, examined>>
    BY DEF Tick, vars
  <1>2. CASE Move /\ held' = held
    BY <1>2, Moves DEF RobotInv
  <1>3. CASE /\ target'.thing # target.thing
             /\ \/ pc = "lifting" /\ ~held /\ held' = TRUE
                \/ pc = "releasing" /\ held /\ held' = FALSE
    <2>1. game_state = IF pc = "lifting" THEN "CHASE_BALL" ELSE "DEPOSIT"
      BY <1>3 DEF RobotInv, IInv, RoundInv, BlockingFollowsStage
    <2>2. looking' = FALSE
      BY <1>1, <1>3 DEF ClockInv
    <2>3. AllNow
      BY <1>3, <2>1 DEF OrderInv, Committed, Grabs
    <2>4. \A n \in 1..Len(filled') : \/ n \in 1..Len(filled) /\ filled'[n] = filled[n]
                                     \/ filled'[n].shown.thing = target
      BY TickQueue DEF RobotInv
    <2>5. \A n \in 1..Len(filled') : filled'[n].shown.thing.thing = target.thing
      BY <2>3, <2>4 DEF AllNow, ShowsNow
    <2>6. \A n \in 1..Len(filled') : ~ShowsNow(filled[n])'
      BY <1>3, <2>5 DEF ShowsNow
    <2>7. ~Committed' /\ (~held' => game_state' = "DEPOSIT")
      <3>1. CASE pc = "lifting"
        BY <1>1, <1>3, <2>1, <3>1 DEF Committed
      <3>2. CASE pc = "releasing"
        BY <1>1, <1>3, <2>1, <3>2 DEF Committed, Grabs
      <3> QED  BY <1>3, <3>1, <3>2
    <2> QED  BY <1>1, <1>3, <2>2, <2>6, <2>7
  <1> QED  BY <1>2, <1>3, FloorCases

LEMMA OrderTick ==
  ASSUME RobotInv, PaceInv, ClockInv, HandInv, OrderInv, Tick
  PROVE  OrderInv'
PROOF
  <1>1. UNCHANGED <<pc, game_state, looking, examined>>
    BY DEF Tick, vars
  <1>2. /\ Len(filled) \in Nat /\ Len(filled') \in Nat
        /\ \A n \in 1..Len(filled) : n \in 1..Len(filled') /\ filled'[n] = filled[n]
        /\ \A n \in 1..Len(filled') :
             \/ n \in 1..Len(filled)
             \/ n = Len(filled) + 1 /\ filled'[n].shown.thing = target
    BY TickQueue DEF RobotInv
  <1>3. CASE held' = held /\ target'.thing = target.thing
    <2>2. /\ \A n \in 1..Len(filled) : ShowsNow(filled[n])' <=> ShowsNow(filled[n])
          /\ \A n \in 1..Len(filled') : n \in 1..Len(filled) \/ ShowsNow(filled[n])'
          /\ ShowsNow(examined)' <=> ShowsNow(examined)
      BY <1>1, <1>2, <1>3 DEF ShowsNow
    <2>3. AllNow => AllNow'
      BY <1>2, <2>2 DEF AllNow
    <2>4. ASSUME NEW i \in 1..Len(filled'), NEW j \in 1..Len(filled'), i <= j, ShowsNow(filled[i])'
          PROVE  ShowsNow(filled[j])'
      <3>1. CASE j \in 1..Len(filled)
        <4>1. i \in 1..Len(filled)
          BY <1>2, <2>4, <3>1
        <4> QED  BY <2>2, <2>4, <3>1, <4>1 DEF OrderInv
      <3>2. CASE j \notin 1..Len(filled)
        BY <2>2, <3>2
      <3> QED  BY <3>1, <3>2
    <2>5. Committed <=> Committed'
      BY <1>1, <1>3 DEF Committed, Grabs
    <2>6. (looking' /\ ShowsNow(examined)' => AllNow') /\ (Committed' => AllNow')
      BY <1>1, <2>2, <2>3, <2>5 DEF OrderInv
    <2>7. ~held' /\ game_state' = "FIND_BUCKET" /\ looking' => ShowsNow(examined)'
      BY <1>1, <1>3, <2>2 DEF OrderInv
    <2> QED  BY <2>4, <2>6, <2>7 DEF OrderInv
  <1>4. CASE /\ \A n \in 1..Len(filled') : ~ShowsNow(filled[n])'
             /\ looking' = FALSE /\ ~Committed'
    BY <1>4 DEF OrderInv
  <1> QED  BY <1>3, <1>4, TickCases

LEMMA OrderPop ==
  ASSUME RobotInv, ClockInv, OrderInv, Pops
  PROVE  OrderInv'
PROOF
  <1>1. UNCHANGED <<pc, game_state, held, target>>
    BY DEF Pops, TakeFrame, Undecodable, NoFrame, vars, outside
  <1>2. (looking' => examined' = filled[1]) /\ 1 \in 1..Len(filled)
    <2>1. CASE TakeFrame
      BY <2>1, PopQueue DEF TakeFrame, RobotInv, Pops
    <2>2. CASE Undecodable
      BY <2>2, PopQueue DEF Undecodable, RobotInv, Pops
    <2> QED  BY <2>1, <2>2 DEF Pops
  <1>3. /\ Len(filled) \in Nat \ {0} /\ Len(filled') = Len(filled) - 1
        /\ \A n \in 1..Len(filled') : /\ n + 1 \in 1..Len(filled)
                                      /\ filled'[n].shown = filled[n + 1].shown
    BY PopQueue DEF RobotInv
  <1>4. \A n \in 1..Len(filled') : ShowsNow(filled[n])' <=> ShowsNow(filled[n + 1])
    BY <1>1, <1>3 DEF ShowsNow
  <1>5. looking' => (ShowsNow(examined)' <=> ShowsNow(filled[1]))
    BY <1>1, <1>2 DEF ShowsNow
  <1>6. \A i, j \in 1..Len(filled') : i <= j /\ ShowsNow(filled[i])' => ShowsNow(filled[j])'
    <2> SUFFICES ASSUME NEW i \in 1..Len(filled'), NEW j \in 1..Len(filled'), i <= j,
                        ShowsNow(filled[i + 1])
                 PROVE  ShowsNow(filled[j + 1])
      BY <1>4
    <2>1. i + 1 \in 1..Len(filled) /\ j + 1 \in 1..Len(filled) /\ i + 1 <= j + 1
      BY <1>3
    <2> QED  BY <2>1 DEF OrderInv
  <1>7. ShowsNow(filled[1]) => AllNow'
    <2> SUFFICES ASSUME ShowsNow(filled[1]), NEW n \in 1..Len(filled') PROVE ShowsNow(filled[n + 1])
      BY <1>4 DEF AllNow
    <2>1. n + 1 \in 1..Len(filled) /\ 1 <= n + 1
      BY <1>3
    <2> QED  BY <1>2, <2>1 DEF OrderInv
  <1>8. AllNow => AllNow' /\ ShowsNow(filled[1])
    BY <1>2, <1>3, <1>4 DEF AllNow
  <1>9. (Committed' => Committed) /\ (~held' /\ game_state' = "FIND_BUCKET" => Committed)
    BY <1>1 DEF Committed, Grabs
  <1> QED  BY <1>5, <1>6, <1>7, <1>8, <1>9 DEF OrderInv

(* What leads up to a grab or to a delivery is a picture of the thing that *)
(* is there.                                                               *)
LEMMA ActCommits ==
  ASSUME RobotInv, HandInv, OrderInv, Acts, Committed', held' = held, target' = target
  PROVE  Committed \/ (looking /\ ShowsNow(examined))
PROOF
  <1>1. CASE TimedOut
    BY <1>1 DEF TimedOut, NoFrame, Committed, Grabs
  <1>2. CASE SeesBall
    <2>1. looking /\ Shown.thing = "ball" /\ game_state = "CHASE_BALL" /\ pc = "frame"
      BY <1>2 DEF SeesBall, Sees, Deciding, ChaseBall, SeeBall, NewFrame
    <2> QED  BY <2>1, ChaseEmptyHanded DEF ShowsNow, Shown
  <1>3. CASE SeesNoBall
    <2>1. pc' = "frame" /\ game_state' = "CHASE_BALL"
      BY <1>3 DEF SeesNoBall, Search, Scan, LoseBall, NewFrame
    <2> QED  BY <2>1 DEF Committed, Grabs
  <1>4. CASE SeesBucket
    <2>1. looking /\ Shown.thing = "bucket" /\ pc' \in {"frame", "arriving"}
      BY <1>4 DEF SeesBucket, Sees, Deciding, FindWait, FindConfirm, ApproachArrive,
         ApproachSteer, Looking, NewFrame
    <2>2. ~held => game_state' = "FIND_BUCKET" /\ game_state = "FIND_BUCKET"
      <3>1. game_state \in {"FIND_BUCKET", "APPROACH_BUCKET"} /\ pc = "frame"
            /\ game_state' \in {"FIND_BUCKET", "APPROACH_BUCKET"}
        BY <1>4 DEF SeesBucket, FindWait, FindConfirm, ApproachArrive, ApproachSteer,
           Looking, NewFrame
      <3>2. game_state = "APPROACH_BUCKET" => held
        BY <3>1 DEF HandInv
      <3>3. game_state = "FIND_BUCKET" => held
        BY <2>1 DEF OrderInv, HandInv, ShowsNow, Shown
      <3> QED  BY <3>1, <3>2, <3>3
    <2>3. held => ShowsNow(examined)
      BY <2>1 DEF HandInv, ShowsNow, Shown
    <2> QED  BY <2>1, <2>2, <2>3 DEF Committed
  <1>5. CASE SeesNoBucket
    <2>1. /\ pc' = "frame" /\ pc = "frame"
          /\ game_state' = "FIND_BUCKET" \/ game_state' = game_state
      BY <1>5 DEF SeesNoBucket, FindMiss, ApproachMiss, Looking, NewFrame
    <2>2. game_state = "APPROACH_BUCKET" => held
      BY <2>1 DEF HandInv
    <2>3. game_state \in {"FIND_BUCKET", "APPROACH_BUCKET"}
      BY <1>5 DEF SeesNoBucket, FindMiss, ApproachMiss, Looking
    <2> QED  BY <2>1, <2>2, <2>3 DEF Committed, Grabs
  <1>6. CASE LetGo
    <2>1. pc' = "releasing" /\ game_state' = game_state
      BY <1>6 DEF LetGo, Deposit
    <2> QED  BY <2>1 DEF Committed, Grabs
  <1>7. CASE GrabSteps
    <2>1. pc \in Grabbing /\ game_state' \in {"CHASE_BALL", "FIND_BUCKET"}
      BY <1>7 DEF GrabSteps, GrabLower, GrabClose, GrabLift, Blocked, Grabbing,
         RobotInv, IInv, RoundInv, BlockingFollowsStage
    <2> QED  BY <2>1 DEF Committed, Grabs, Grabbing
  <1>8. CASE PulseEnds /\ Goes(0) /\ UNCHANGED armVars
    <2>1. \/ pc = "braking" /\ game_state' = "CHASE_BALL"
          \/ pc' = "frame" /\ game_state' = "CHASE_BALL"
          \/ pc' = "frame" /\ game_state = "APPROACH_BUCKET" /\ game_state' = "DEPOSIT"
      BY <1>8 DEF PulseEnds, BrakeDone, KickDone, Arrived, Blocked, RobotInv, IInv, RoundInv,
         BlockingFollowsStage
    <2> QED  BY <2>1 DEF Committed, Grabs
  <1>9. CASE NextRound /\ grab_pos /\ Goes(0)
    <2>1. pc' = "frame" /\ game_state' = "CHASE_BALL"
      BY <1>9 DEF NextRound
    <2> QED  BY <2>1 DEF Committed, Grabs
  <1> QED  BY <1>1, <1>2, <1>3, <1>4, <1>5, <1>6, <1>7, <1>8, <1>9 DEF Acts

LEMMA OrderAct ==
  ASSUME RobotInv, ClockInv, HandInv, OrderInv, Acts
  PROVE  OrderInv'
PROOF
  <1>1. UNCHANGED <<filled, target, held, examined>> /\ looking' = FALSE
    BY ActFrame
  <1>2. (AllNow <=> AllNow') /\ \A i : ShowsNow(filled[i])' <=> ShowsNow(filled[i])
    BY <1>1 DEF AllNow, ShowsNow
  <1>3. Committed' => AllNow
    BY <1>1, ActCommits DEF OrderInv
  <1>4. Len(filled') = Len(filled)
    BY <1>1
  <1> QED  BY <1>1, <1>2, <1>3, <1>4 DEF OrderInv

-----------------------------------------------------------------------------
(* Near: while q is looked at n ticks of rolling after p, in the same      *)
(* round.  A ball that is out of the picture may be anywhere.              *)
Near(w, p, q, n) ==
  Abs(p.offset) <= half_w =>
    Abs(q.offset - p.offset) <= w * n /\ Abs(q.area - p.area) <= n

LEMMA NearGrows ==
  ASSUME NEW w \in Nat, NEW p, NEW q, NEW m \in Int, NEW n \in Int, m <= n,
         Placed(p), Placed(q), Near(w, p, q, m)
  PROVE  Near(w, p, q, n)
PROOF
  <1>1. p.offset \in Int /\ q.offset \in Int /\ p.area \in Int /\ q.area \in Int
    BY DEF Placed
  <1>2. Abs(q.offset - p.offset) \in Int /\ Abs(q.area - p.area) \in Int
    BY <1>1 DEF Abs
  <1>3. w * m \in Int /\ w * n \in Int /\ w * m <= w * n
    BY TimesGrows
  <1> HIDE DEF Abs
  <1> QED  BY <1>2, <1>3 DEF Near

LEMMA WithinNear ==
  ASSUME NEW x \in Int, NEW low \in Int, NEW high \in Int, NEW p \in Int, NEW d \in Int,
         low <= p, p <= high, -d <= x - p, x - p <= d
  PROVE  Abs(Within(x, low, high) - p) <= d
BY DEF Within, Abs

LEMMA NearMoves ==
  ASSUME TypeOK, WorldInv, Move, NEW p, Placed(p), p.area \in 1..100,
         NEW m \in Nat, NEW n \in Nat, m + Step <= n, Near(Swing, p, target, m)
  PROVE  Near(Swing, p, target', n)
PROOF
  <1> SUFFICES ASSUME Abs(p.offset) <= half_w
               PROVE  /\ Abs(target'.offset - p.offset) <= Swing * n
                      /\ Abs(target'.area - p.area) <= n
    BY DEF Near
  <1>1. /\ p.offset \in Int /\ target.offset \in Int /\ target.area \in Int /\ half_w \in Nat
        /\ Swing \in Nat /\ Swing * m \in Int
    <2>1. Swing \in Nat /\ half_w \in Nat
      BY PlantFacts, SteeringAssumption
    <2>2. Placed(target)
      BY DEF WorldInv
    <2>3. Swing * m \in Int
      BY <2>1
    <2> QED  BY <2>1, <2>2, <2>3 DEF Placed
  <1>2. /\ Abs(target.offset - p.offset) <= Swing * m /\ Abs(target.area - p.area) <= m
    BY DEF Near
  <1>3. /\ -(Swing * m) <= target.offset - p.offset /\ target.offset - p.offset <= Swing * m
        /\ -m <= target.area - p.area /\ target.area - p.area <= m
        /\ -half_w <= p.offset /\ p.offset <= half_w
    BY <1>1, <1>2 DEF Abs
  <1>4. /\ TurnOf \in Int /\ -(Swing * Step) <= TurnOf /\ TurnOf <= Swing * Step
        /\ Approach \in Int /\ -Step <= Approach /\ Approach <= Step
        /\ Step \in {0, 1} /\ Swing * Step \in Int
    BY StepRange
  <1>5. Swing * m + Swing * Step <= Swing * n /\ Swing * n \in Int
    <2>1. m + Step \in Int
      BY <1>4
    <2>2. Swing * (m + Step) <= Swing * n /\ Swing * n \in Int
      BY <1>1, <2>1, TimesGrows
    <2>3. Swing * (m + 1) = Swing * m + Swing /\ Swing * 0 = 0 /\ Swing * 1 = Swing
      BY <1>1, TimesGrows
    <2>4. Swing * (m + Step) = Swing * m + Swing * Step
      BY <1>1, <1>4, <2>3
    <2> QED  BY <2>2, <2>4
  <1>6. /\ target'.offset = Within(target.offset - TurnOf, -2 * half_w, 2 * half_w)
        /\ target'.area = Within(target.area + Approach, 1, 100)
    BY Moves
  <1>7. Abs(target'.offset - p.offset) <= Swing * n
    <2>1. /\ target.offset - TurnOf \in Int
          /\ -(Swing * n) <= target.offset - TurnOf - p.offset
          /\ target.offset - TurnOf - p.offset <= Swing * n
      BY <1>1, <1>3, <1>4, <1>5
    <2>2. /\ -2 * half_w \in Int /\ 2 * half_w \in Int
          /\ -2 * half_w <= p.offset /\ p.offset <= 2 * half_w
      BY <1>1, <1>3
    <2> QED  BY <1>1, <1>5, <1>6, <2>1, <2>2, WithinNear
  <1>8. Abs(target'.area - p.area) <= n
    <2>1. p.area \in Int /\ 1 <= p.area /\ p.area <= 100
      OBVIOUS
    <2> DEFINE x == target.area + Approach
    <2>2. x \in Int /\ -n <= x - p.area /\ x - p.area <= n
      BY <1>1, <1>3, <1>4, <2>1
    <2>3. target'.area = Within(x, 1, 100)
      BY <1>6
    <2> HIDE DEF x
    <2>4. Abs(Within(x, 1, 100) - p.area) <= n
      BY <2>1, <2>2, WithinNear
    <2> QED  BY <2>3, <2>4
  <1> QED  BY <1>7, <1>8

LEMMA NearSelf ==
  ASSUME NEW p, Placed(p), NEW w \in Nat
  PROVE  Near(w, p, p, 0)
PROOF
  <1>1. p.offset - p.offset = 0 /\ p.area - p.area = 0 /\ w * 0 = 0
    BY DEF Placed
  <1> QED  BY <1>1 DEF Near, Abs

(* And so is everything that came after p: the target, and the pictures    *)
(* from the k-th in the queue on.                                          *)
Follows(w, p, now, pictures, n, k) ==
  /\ Near(w, p, now, n)
  /\ \A j \in k..Len(pictures) : Near(w, p, pictures[j].shown.thing, n)

(* A picture that waits has seen its age in laps and what this iteration   *)
(* spent; the one that is looked at has been passed by its own call too.   *)
NearInv ==
  /\ \A i \in 1..Len(filled) : ShowsNow(filled[i]) =>
       Follows(Swing, filled[i].shown.thing, target, filled, Lap * filled[i].age + Spent, i + 1)
  /\ looking /\ ShowsNow(examined) =>
       Follows(Swing, Shown, target, filled, Lap * (examined.age + 1) + Spent, 1)

LEMMA PicturesPlaced ==
  ASSUME RobotInv, PictureInv
  PROVE  /\ Placed(target) /\ target.area \in 1..100
         /\ \A i \in 1..Len(filled) : /\ Placed(filled[i].shown.thing)
                                      /\ filled[i].shown.thing.area \in 1..100
                                      /\ filled[i].age \in Nat
         /\ Placed(Shown) /\ (looking => Shown.area \in 1..100) /\ examined.age \in Nat
         /\ buffer_count_ \in Nat /\ examined.age + 1 <= buffer_count_
PROOF
  <1>1. \A i \in 1..Len(filled) : filled[i].age \in Nat
    <2>1. PICK S : filled \in Seq(S) /\ \A x \in S : IsPicture(x)
      BY DEF RobotInv, QueueInv, QueueTypeOK, IsPictures
    <2>2. \A i \in 1..Len(filled) : filled[i] \in S
      BY <2>1, ElementOfSeq
    <2> QED  BY <2>1, <2>2 DEF IsPicture
  <1>2. buffer_count_ \in Nat
    BY DEF RobotInv, QueueInv, QueueTypeOK
  <1> QED  BY <1>1, <1>2 DEF RobotInv, WorldInv, PictureInv, Shown

LEMMA FollowsTick ==
  ASSUME RobotInv, PictureInv, Tick, Move, NEW p, Placed(p), p.area \in 1..100,
         NEW m \in Nat, NEW n \in Nat, m + Step <= n, NEW k \in Nat \ {0},
         Follows(Swing, p, target, filled, m, k)
  PROVE  Follows(Swing', p, target', filled', n, k)
PROOF
  <1>1. Swing' = Swing /\ Swing \in Nat
    BY PlantFacts DEF Tick, Swing, RobotInv
  <1>2. Near(Swing, p, target', n)
    BY NearMoves DEF Follows, RobotInv, IInv
  <1>3. m <= n
    BY StepRange DEF RobotInv, IInv
  <1>4. ASSUME NEW j \in k..Len(filled')
        PROVE  Near(Swing, p, filled'[j].shown.thing, n)
    <2>1. Len(filled) \in Nat /\ Len(filled') \in Nat /\ j \in 1..Len(filled')
      BY <1>4, TickQueue DEF RobotInv
    <2>2. CASE j \in 1..Len(filled)
      <3>1. filled'[j] = filled[j] /\ j \in k..Len(filled)
        BY <1>4, <2>1, <2>2, TickQueue DEF RobotInv
      <3>2. Near(Swing, p, filled[j].shown.thing, m) /\ Placed(filled[j].shown.thing)
        BY <2>2, <3>1, PicturesPlaced DEF Follows
      <3> QED  BY <1>1, <1>3, <3>1, <3>2, NearGrows
    <2>3. CASE j \notin 1..Len(filled)
      <3>1. filled'[j].shown.thing = target
        BY <2>1, <2>3, TickQueue DEF RobotInv
      <3>2. Near(Swing, p, target, m) /\ Placed(target)
        BY PicturesPlaced DEF Follows
      <3> QED  BY <1>1, <1>3, <3>1, <3>2, NearGrows
    <2> QED  BY <2>2, <2>3
  <1> QED  BY <1>1, <1>2, <1>4 DEF Follows

LEMMA AddGrows ==
  ASSUME NEW a \in Nat, NEW s \in Nat, NEW t \in Nat, NEW d \in Int, s + d <= t
  PROVE  a + s \in Nat /\ a + t \in Nat /\ a + s + d <= a + t
OBVIOUS

LEMMA NearTick ==
  ASSUME RobotInv, PaceInv, ClockInv, PictureInv, HandInv, OrderInv, NearInv, Tick
  PROVE  NearInv'
PROOF
  <1>1. UNCHANGED <<looking, examined>> /\ Lap' = Lap /\ Swing' = Swing /\ Shown' = Shown
    BY DEF Tick, Lap, Swing, Shown
  <1>2. CASE Move /\ target'.thing = target.thing
    <2>1. /\ Spent \in Nat /\ Spent' \in Nat /\ Step \in {0, 1} /\ Step <= Spent'
          /\ looking \/ filled # <<>> => Spent + Step <= Spent'
          /\ Lap \in Nat /\ Swing \in Nat
      BY SpentType, SpentTick, StepRange, PlantFacts DEF RobotInv, IInv
    <2>4. ASSUME NEW a \in Nat, looking \/ filled # <<>>
          PROVE  a + Spent \in Nat /\ a + Spent' \in Nat /\ a + Spent + Step <= a + Spent'
      <3>1. Spent + Step <= Spent'
        BY <2>1, <2>4, Zenon
      <3>2. Spent \in Nat /\ Spent' \in Nat /\ Step \in Int
        BY <2>1
      <3> QED  BY <3>1, <3>2, AddGrows
    <2>2. ASSUME NEW i \in 1..Len(filled'), ShowsNow(filled[i])'
          PROVE  Follows(Swing', filled'[i].shown.thing, target', filled',
                         Lap' * filled'[i].age + Spent', i + 1)
      <3>1. CASE i \in 1..Len(filled)
        <4>1. filled'[i] = filled[i]
          BY <3>1, TickQueue DEF RobotInv
        <4>2. ShowsNow(filled[i])
          BY <1>2, <2>2, <4>1 DEF ShowsNow
        <4>3. filled # <<>>
          BY <3>1, EmptySeq
        <4>4. filled[i].age \in Nat
          BY <3>1, PicturesPlaced
        <4> DEFINE a == Lap * filled[i].age
                   m == a + Spent
                   n == a + Spent'
        <4>5. a \in Nat
          BY <2>1, <4>4
        <4>6. m \in Nat /\ n \in Nat /\ m + Step <= n
          BY <2>4, <4>3, <4>5
        <4>7. Follows(Swing, filled[i].shown.thing, target, filled, m, i + 1) /\ i + 1 \in Nat \ {0}
          BY <3>1, <4>2 DEF NearInv
        <4> HIDE DEF m, n
        <4>8. Follows(Swing', filled[i].shown.thing, target', filled', n, i + 1)
          BY <1>2, <3>1, <4>6, <4>7, PicturesPlaced, FollowsTick
        <4> QED  BY <1>1, <4>1, <4>8 DEF n
      <3>2. CASE i \notin 1..Len(filled)
        <4>1. /\ filled'[i].shown.thing = target /\ filled'[i].age = 0
              /\ i = Len(filled') /\ Len(filled') \in Nat
          BY <3>2, TickQueue DEF RobotInv
        <4>2. Near(Swing, target, target, 0)
          BY <2>1, PicturesPlaced, NearSelf
        <4>3. Near(Swing, target, target', Spent')
          <5>1. 0 + Step <= Spent'
            BY <2>1
          <5> QED  BY <1>2, <2>1, <4>2, <5>1, PicturesPlaced, NearMoves DEF RobotInv, IInv
        <4>4. Lap' * filled'[i].age + Spent' = Spent'
          BY <1>1, <2>1, <4>1
        <4>5. (i + 1)..Len(filled') = {}
          BY <4>1
        <4> QED  BY <1>1, <4>1, <4>3, <4>4, <4>5 DEF Follows
      <3> QED  BY <3>1, <3>2
    <2>3. ASSUME looking', ShowsNow(examined)'
          PROVE  Follows(Swing', Shown', target', filled', Lap' * (examined'.age + 1) + Spent', 1)
      <3>1. looking /\ ShowsNow(examined)
        BY <1>1, <1>2, <2>3 DEF ShowsNow
      <3> DEFINE m == Lap * (examined.age + 1) + Spent
                 n == Lap * (examined.age + 1) + Spent'
      <3>2. Lap * (examined.age + 1) \in Nat
        BY <2>1, PicturesPlaced
      <3>3. m \in Nat /\ n \in Nat /\ m + Step <= n
        BY <2>4, <3>1, <3>2
      <3>4. Follows(Swing, Shown, target, filled, m, 1)
        BY <3>1 DEF NearInv
      <3> HIDE DEF m, n
      <3>5. Follows(Swing', Shown, target', filled', n, 1)
        BY <1>2, <3>1, <3>3, <3>4, PicturesPlaced, FollowsTick
      <3> QED  BY <1>1, <3>5 DEF n
    <2> QED  BY <2>2, <2>3 DEF NearInv
  <1>3. CASE (\A n \in 1..Len(filled') : ~ShowsNow(filled[n])') /\ looking' = FALSE
    BY <1>3 DEF NearInv
  <1> QED  BY <1>2, <1>3, TickCases

LEMMA LapGrows ==
  ASSUME WorldInv, NEW a \in Nat, NEW s \in Nat, NEW t \in Nat, s <= Lap + t
  PROVE  /\ Lap * a + s \in Nat /\ Lap * (a + 1) + t \in Nat
         /\ Lap * a + s <= Lap * (a + 1) + t
PROOF
  <1>1. Lap \in Nat
    BY PlantFacts
  <1>2. Lap * (a + 1) = Lap * a + Lap /\ Lap * a \in Nat
    BY <1>1, TimesGrows
  <1> QED  BY <1>1, <1>2

LEMMA FollowsPop ==
  ASSUME RobotInv, PictureInv, Pops, NEW p, Placed(p), NEW m \in Nat, NEW n \in Nat, m <= n,
         NEW k \in Nat \ {0}, Follows(Swing, p, target, filled, m, k + 1)
  PROVE  Follows(Swing', p, target', filled', n, k)
PROOF
  <1>1. target' = target /\ Swing' = Swing /\ Swing \in Nat
    BY PlantFacts DEF Pops, TakeFrame, Undecodable, NoFrame, vars, outside, Swing, RobotInv
  <1>2. Near(Swing, p, target, n)
    <2>1. Placed(target) /\ Near(Swing, p, target, m)
      BY PicturesPlaced DEF Follows
    <2> QED  BY <1>1, <2>1, NearGrows
  <1>3. ASSUME NEW j \in k..Len(filled')
        PROVE  Near(Swing, p, filled'[j].shown.thing, n)
    <2>1. /\ Len(filled) \in Nat /\ Len(filled') = Len(filled) - 1
          /\ \A i \in 1..Len(filled') : i + 1 \in 1..Len(filled)
                                         /\ filled'[i].shown = filled[i + 1].shown
      BY PopQueue DEF RobotInv
    <2>2. j \in 1..Len(filled')
      BY <1>3, <2>1
    <2>3. j + 1 \in (k + 1)..Len(filled) /\ j + 1 \in 1..Len(filled)
          /\ filled'[j].shown = filled[j + 1].shown
      BY <1>3, <2>1, <2>2
    <2>4. Near(Swing, p, filled[j + 1].shown.thing, m) /\ Placed(filled[j + 1].shown.thing)
      BY <2>3, PicturesPlaced DEF Follows
    <2> QED  BY <1>1, <2>3, <2>4, NearGrows
  <1> QED  BY <1>1, <1>2, <1>3 DEF Follows

LEMMA NearPop ==
  ASSUME RobotInv, ClockInv, PictureInv, NearInv, Pops
  PROVE  NearInv'
PROOF
  <1>1. UNCHANGED <<target, plant>> /\ Lap' = Lap
    BY DEF Pops, TakeFrame, Undecodable, NoFrame, vars, outside, Lap
  <1>2. /\ Len(filled) \in Nat \ {0} /\ Len(filled') = Len(filled) - 1 /\ 1 \in 1..Len(filled)
        /\ \A n \in 1..Len(filled') :
             /\ n + 1 \in 1..Len(filled) /\ filled[n + 1].age \in Nat
             /\ filled'[n].age = filled[n + 1].age + 1
             /\ filled'[n].shown = filled[n + 1].shown
    BY PopQueue DEF RobotInv
  <1>3. Spent \in Nat /\ Spent' \in Nat /\ Spent <= Lap + Spent'
    BY SpentType, SpentPop
  <1>4. ASSUME NEW i \in 1..Len(filled), ShowsNow(filled[i]), NEW k \in Nat \ {0}, i = k
        PROVE  Follows(Swing', filled[i].shown.thing, target', filled',
                       Lap' * (filled[i].age + 1) + Spent', k)
    <2>1. filled[i].age \in Nat /\ Placed(filled[i].shown.thing)
      BY PicturesPlaced
    <2> DEFINE m == Lap * filled[i].age + Spent
               n == Lap * (filled[i].age + 1) + Spent'
    <2>2. m \in Nat /\ n \in Nat /\ m <= n
      BY <1>3, <2>1, LapGrows DEF RobotInv
    <2>3. Follows(Swing, filled[i].shown.thing, target, filled, m, k + 1)
      BY <1>4 DEF NearInv
    <2> HIDE DEF m, n
    <2>4. Follows(Swing', filled[i].shown.thing, target', filled', n, k)
      BY <2>1, <2>2, <2>3, FollowsPop
    <2> QED  BY <1>1, <2>4 DEF n
  <1>5. ASSUME NEW i \in 1..Len(filled'), ShowsNow(filled[i])'
        PROVE  Follows(Swing', filled'[i].shown.thing, target', filled',
                       Lap' * filled'[i].age + Spent', i + 1)
    <2>1. /\ i + 1 \in 1..Len(filled) /\ filled'[i].age = filled[i + 1].age + 1
          /\ filled'[i].shown = filled[i + 1].shown /\ i + 1 \in Nat \ {0}
      BY <1>2
    <2>2. ShowsNow(filled[i + 1])
      BY <1>1, <1>5, <2>1 DEF ShowsNow
    <2> QED  BY <1>4, <2>1, <2>2
  <1>6. ASSUME looking', ShowsNow(examined)'
        PROVE  Follows(Swing', Shown', target', filled', Lap' * (examined'.age + 1) + Spent', 1)
    <2>1. examined' = filled[1]
      <3>1. CASE TakeFrame
        BY <3>1, PopQueue DEF TakeFrame, RobotInv, Pops
      <3>2. CASE Undecodable
        BY <1>6, <3>2 DEF Undecodable
      <3> QED  BY <3>1, <3>2 DEF Pops
    <2>2. ShowsNow(filled[1]) /\ Shown' = filled[1].shown.thing
      BY <1>1, <1>6, <2>1 DEF ShowsNow, Shown
    <2> QED  BY <1>2, <1>4, <2>1, <2>2
  <1> QED  BY <1>5, <1>6 DEF NearInv

LEMMA NearAct ==
  ASSUME RobotInv, ClockInv, PictureInv, NearInv, Acts
  PROVE  NearInv'
PROOF
  <1>1. UNCHANGED <<filled, target, plant>> /\ looking' = FALSE /\ Lap' = Lap /\ Swing' = Swing
    BY ActFrame DEF Lap, Swing
  <1>2. /\ Spent \in Nat /\ Spent' \in Nat /\ Spent <= Spent' /\ Lap \in Nat /\ Swing \in Nat
    BY SpentType, SpentAct, PlantFacts DEF RobotInv
  <1>3. ASSUME NEW i \in 1..Len(filled), ShowsNow(filled[i])
        PROVE  Follows(Swing, filled[i].shown.thing, target, filled,
                       Lap * filled[i].age + Spent', i + 1)
    <2>1. filled[i].age \in Nat /\ Placed(filled[i].shown.thing) /\ Placed(target)
          /\ \A j \in 1..Len(filled) : Placed(filled[j].shown.thing)
      BY PicturesPlaced
    <2> DEFINE m == Lap * filled[i].age + Spent
               n == Lap * filled[i].age + Spent'
    <2>2. Lap * filled[i].age \in Nat
      BY <1>2, <2>1
    <2>3. m \in Nat /\ n \in Nat /\ m <= n
      BY <1>2, <2>2
    <2>4. Follows(Swing, filled[i].shown.thing, target, filled, m, i + 1)
      BY <1>3 DEF NearInv
    <2> HIDE DEF m, n
    <2>5. Near(Swing, filled[i].shown.thing, target, n)
      BY <1>2, <2>1, <2>3, <2>4, NearGrows DEF Follows
    <2>6. ASSUME NEW j \in (i + 1)..Len(filled)
          PROVE  Near(Swing, filled[i].shown.thing, filled[j].shown.thing, n)
      <3>1. j \in 1..Len(filled)
        BY <2>6
      <3> QED  BY <1>2, <2>1, <2>3, <2>4, <3>1, NearGrows DEF Follows
    <2>7. Follows(Swing, filled[i].shown.thing, target, filled, n, i + 1)
      BY <2>5, <2>6 DEF Follows
    <2> QED  BY <2>7 DEF n
  <1>4. \A i : ShowsNow(filled[i])' <=> ShowsNow(filled[i])
    BY <1>1 DEF ShowsNow
  <1> QED  BY <1>1, <1>3, <1>4 DEF NearInv

LEMMA HandPop ==
  ASSUME RobotInv, ClockInv, HandInv, Pops
  PROVE  HandInv'
PROOF
  <1>1. UNCHANGED <<pc, game_state, arm, servo, held, target>> /\ pc = "frame"
    BY DEF Pops, TakeFrame, Undecodable, NoFrame, NewFrame, vars, outside, armVars
  <1>2. InPose(GripClose)' = InPose(GripClose)
    BY <1>1 DEF InPose
  <1>3. arm.grip = "open" => ~held
    BY <1>1 DEF HandInv
  <1> QED  BY <1>1, <1>2, <1>3 DEF HandInv

-----------------------------------------------------------------------------
(* All of it together, for servos that keep pace.                          *)
BaseInv ==
  /\ RobotInv /\ PaceInv /\ ClockInv /\ PictureInv
  /\ HandInv /\ OrderInv /\ NearInv

LEMMA BaseInit == RobotInit => BaseInv
PROOF
  <1> SUFFICES ASSUME RobotInit PROVE BaseInv
    OBVIOUS
  <1>1. RobotInv /\ PaceInv
    BY InitInv, QueueInit, WorldInit, PaceInit DEF RobotInit, RobotInv
  <1>2. /\ pc = "frame" /\ game_state = "CHASE_BALL" /\ motor = Standby /\ arm = Ready
        /\ held = FALSE /\ busy = 0 /\ looking = FALSE
        /\ target = Thing("ball", plant.ball)
        /\ examined = [shown |-> Blank, age |-> 0]
        /\ filled = <<>> /\ buffer_count_ \in Grants
    BY DEF RobotInit, Init, UvcReady
  <1>3. target.thing = "ball" /\ target.area \in 1..100
    BY <1>1, <1>2, RobotAssumption DEF RobotInv, WorldInv, Thing
  <1>4. Len(filled) = 0
    BY <1>2
  <1>5. ClockInv
    BY <1>2 DEF ClockInv
  <1>6. PictureInv
    <2>1. buffer_count_ \in Nat \ {0, 1}
      BY <1>2, RobotAssumption
    <2> QED  BY <1>2, <1>3, <1>4, <2>1 DEF PictureInv
  <1>7. HandInv
    <2>1. servo[2] = At(angle_to_pulse(Joined(ArmUp, GripOpen)[2]))
      BY DEF RobotInit, ArmInit, Servos
    <2>2. Joined(ArmUp, GripOpen)[2] = GripOpen[2]
      BY PoseDomains DEF Joined
    <2>3. servo[2].to = OpenPulse /\ arm.grip = "open"
      BY <1>2, <2>1, <2>2 DEF At, OpenPulse, Ready
    <2> QED  BY <1>2, <1>3, <2>3 DEF HandInv
  <1>8. OrderInv /\ NearInv
    BY <1>2, <1>4 DEF OrderInv, NearInv, AllNow, Committed, Grabs
  <1> QED  BY <1>1, <1>5, <1>6, <1>7, <1>8 DEF BaseInv

LEMMA BaseStep ==
  ASSUME SERVO_TICKS <= SleepClose, BaseInv, [RobotNext]_robotVars
  PROVE  BaseInv'
PROOF
  <1>1. RobotInv' /\ PaceInv' /\ ClockInv' /\ PictureInv'
    <2>1. RobotInv'
      BY RobotIsALoop, AnyNextInv, QueueStep, WorldStep DEF BaseInv, RobotInv, IInv
    <2>2. PaceInv' /\ ClockInv' /\ PictureInv'
      BY PaceStep, ClockStep, PictureStep DEF BaseInv
    <2> QED  BY <2>1, <2>2
  <1>2. CASE UNCHANGED robotVars
    <2>1. HandInv'
      BY <1>2 DEF BaseInv, HandInv, robotVars, vars, armVars, outside, timing, InPose
    <2>2. UNCHANGED <<filled, target, held, examined, looking, busy, pc, motor, game_state, plant>>
      BY <1>2 DEF robotVars, vars, uvcVars, outside, timing
    <2>3. OrderInv'
      BY <2>2 DEF BaseInv, OrderInv, AllNow, ShowsNow, Committed, Grabs
    <2>4. Lap' = Lap /\ Swing' = Swing /\ Shown' = Shown
      BY <2>2 DEF Lap, Swing, Shown
    <2>5. Spent' = Spent
      BY <2>2, <2>4 DEF Spent, Rolling
    <2>6. NearInv'
      BY <2>2, <2>4, <2>5 DEF BaseInv, NearInv, ShowsNow
    <2> QED  BY <1>1, <2>1, <2>3, <2>6 DEF BaseInv
  <1>3. CASE Tick
    BY <1>1, <1>3, HandTick, OrderTick, NearTick DEF BaseInv
  <1>4. CASE Pops
    BY <1>1, <1>4, HandPop, OrderPop, NearPop DEF BaseInv
  <1>5. CASE Acts
    BY <1>1, <1>5, HandAct, OrderAct, NearAct DEF BaseInv
  <1> QED  BY <1>2, <1>3, <1>4, <1>5, StepKinds

-----------------------------------------------------------------------------
(* The gripper shuts once in a grab, as the last ticks of the sleep run    *)
(* out: so what is in its grip as long as the arm is down will be held.    *)
GripInv ==
  /\ \A s \in Servos : servo[s].left = 0 => servo[s].at = servo[s].to
  /\ arm.grip = "closed" /\ ~held =>
       /\ pc = "lifting" /\ servo[2].left \in 1..busy
       /\ servo[2].at = OpenPulse

LEMMA GripTick ==
  ASSUME BaseInv, GripInv, pc = "lifting" /\ ~held => InGrip, Tick
  PROVE  GripInv'
PROOF
  <1>1. UNCHANGED <<pc, game_state, arm>> /\ ServoTypeOK /\ MoveServos /\ Floor
    BY DEF Tick, vars, BaseInv, PaceInv
  <1>2. \A s \in Servos : servo'[s] = Turned(servo[s]) /\ IsServo(servo[s])
    BY <1>1 DEF MoveServos, ServoTypeOK
  <1>3. ASSUME NEW s \in Servos, servo'[s].left = 0
        PROVE  servo'[s].at = servo'[s].to
    <2>1. servo[s].left \in Nat
      BY <1>2 DEF IsServo
    <2>2. CASE servo[s].left <= 1
      <3>1. servo'[s] = [at |-> servo[s].to, to |-> servo[s].to, left |-> 0]
        BY <1>2, <2>2 DEF Turned, At
      <3> QED  BY <3>1
    <2>3. CASE ~(servo[s].left <= 1)
      <3>1. servo'[s] = [servo[s] EXCEPT !.left = @ - 1]
        BY <1>2, <2>3 DEF Turned
      <3>2. servo'[s].left = servo[s].left - 1
        BY <1>2, <3>1 DEF IsServo
      <3> QED  BY <1>3, <2>1, <2>3, <3>2
    <2> QED  BY <2>2, <2>3
  <1>4. ASSUME arm'.grip = "closed", ~held'
        PROVE  pc' = "lifting" /\ servo'[2].left \in 1..busy' /\ servo'[2].at = OpenPulse
    <2>1. ~held
      <3>1. arm.grip = "closed" /\ pc # "releasing"
        BY <1>1, <1>4 DEF BaseInv, RobotInv, IInv, RoundInv, ArmFollowsStage, BlockingFollowsStage
      <3>2. ~(held /\ held' = FALSE /\ pc = "releasing") /\ held \in BOOLEAN
        BY <3>1 DEF BaseInv, HandInv
      <3> QED  BY <1>4, <3>2, FloorCases DEF BaseInv
    <2>2. pc = "lifting" /\ servo[2].left \in 1..busy /\ servo[2].at = OpenPulse /\ InGrip
      BY <1>1, <1>4, <2>1 DEF GripInv
    <2>3. servo[2].to = ClosedPulse /\ busy \in Nat
      <3>1. arm.grip = "closed"
        BY <1>1, <1>4
      <3> QED  BY <3>1 DEF BaseInv, HandInv, ClockInv
    <2>4. InPose(ArmDown) /\ ~InPose(GripClose)
      <3>1. ~InPose(GripClose)
        BY <2>2, <2>3, GripPose, PulsesDiffer
      <3>2. Settling(servo, ArmDown, 0)
        BY <2>2 DEF BaseInv, PaceInv
      <3>3. \A s \in DOMAIN ArmDown : servo[s].left \in Nat
        BY <1>2, PoseDomains DEF Servos, IsServo
      <3> QED  BY <3>1, <3>2, <3>3 DEF Settling, InPose
    <2>5. servo[2].left # 1
      <3> SUFFICES ASSUME servo[2].left = 1 PROVE FALSE
        OBVIOUS
      <3>1. servo'[2] = [at |-> servo[2].to, to |-> servo[2].to, left |-> 0]
        BY <1>2 DEF Turned, At, Servos
      <3>2. servo'[2].to = ClosedPulse /\ servo'[2].left = 0
        BY <2>3, <3>1
      <3>3. InPose(GripClose)'
        BY <3>2, PoseDomains DEF InPose, ClosedPulse
      <3>4. held' = TRUE
        BY <1>1, <2>2, <2>4, <3>3 DEF Floor, Shuts
      <3> QED  BY <1>4, <3>4
    <2>6. servo'[2] = [servo[2] EXCEPT !.left = @ - 1] /\ IsServo(servo[2])
      BY <1>2, <2>2, <2>5 DEF Turned, Servos
    <2>7. servo'[2].left = servo[2].left - 1 /\ servo'[2].at = servo[2].at
      BY <2>6 DEF IsServo
    <2>8. busy' = busy - 1
      BY <2>2 DEF Tick, Selecting
    <2> QED  BY <1>1, <2>2, <2>3, <2>5, <2>7, <2>8
  <1> QED  BY <1>3, <1>4 DEF GripInv

LEMMA PoseSentLeft ==
  ASSUME SERVO_TICKS \in 1..SleepClose, ServoTypeOK, NEW pose, DOMAIN pose \subseteq Servos,
         set_angle(pose), \A s \in Servos : servo[s].left = 0 => servo[s].at = servo[s].to
  PROVE  \A s \in Servos : servo'[s].left = 0 => servo'[s].at = servo'[s].to
PROOF
  <1> TAKE s \in Servos
  <1>1. CASE s \in DOMAIN pose
    <2>1. servo'[s].left = SERVO_TICKS
      BY <1>1, PoseSet
    <2>2. SERVO_TICKS # 0
      OBVIOUS
    <2> QED  BY <2>1, <2>2
  <1>2. CASE s \notin DOMAIN pose
    <2>1. servo'[s] = servo[s]
      BY <1>2, PoseSet
    <2> QED  BY <2>1
  <1> QED  BY <1>1, <1>2

LEMMA GripAct ==
  ASSUME SERVO_TICKS \in 1..SleepClose, BaseInv, GripInv, Acts
  PROVE  GripInv'
PROOF
  <1>1. busy = 0 /\ held' = held /\ ServoTypeOK
    BY ActFrame DEF BaseInv, PaceInv
  <1>2. arm.grip = "closed" => held
    BY <1>1 DEF GripInv
  <1>3. \A s \in Servos : servo'[s].left = 0 => servo'[s].at = servo'[s].to
    <2>1. \/ servo' = servo
          \/ grab_down \/ grab_close \/ grab_lift \/ release \/ grab_pos
      BY DEF Acts, TimedOut, SeesBall, SeesNoBall, SeesBucket, SeesNoBucket, LetGo, GrabSteps,
         armVars
    <2>2. /\ DOMAIN Joined(ArmDown, GripOpen) \subseteq Servos
          /\ DOMAIN Joined(ArmUp, GripOpen) \subseteq Servos
          /\ DOMAIN GripClose \subseteq Servos /\ DOMAIN ArmUp \subseteq Servos
          /\ DOMAIN GripOpen \subseteq Servos
      BY PoseDomains DEF Joined, Servos
    <2>3. CASE servo' = servo
      BY <2>3 DEF GripInv
    <2>4. CASE grab_down \/ grab_close \/ grab_lift \/ release \/ grab_pos
      <3>1. \E pose : DOMAIN pose \subseteq Servos /\ set_angle(pose)
        BY <2>2, <2>4 DEF grab_down, grab_close, grab_lift, release, grab_pos
      <3> QED  BY <1>1, <3>1, PoseSentLeft DEF GripInv
    <2> QED  BY <2>1, <2>3, <2>4
  <1>4. CASE GrabClose /\ grab_close /\ Goes(SleepClose)
    <2>1. pc = "closing" /\ pc' = "lifting" /\ busy' = SleepClose
      BY <1>4 DEF GrabClose, Blocked, Goes, Runs
    <2>2. Settling(servo, GripOpen, 0)
      BY <1>1, <2>1 DEF BaseInv, PaceInv
    <2>3. servo[2].at = OpenPulse /\ servo[2].left \in Nat
      <3>1. servo[2].to = OpenPulse /\ (servo[2].left <= 0 \/ servo[2].at = servo[2].to)
        BY <2>2, PoseDomains DEF Settling, OpenPulse
      <3>2. servo[2].left \in Nat /\ (servo[2].left = 0 => servo[2].at = servo[2].to)
        BY <1>1 DEF ServoTypeOK, IsServo, GripInv, Servos
      <3> QED  BY <3>1, <3>2
    <2>4. servo'[2].left = SERVO_TICKS /\ servo'[2].at = servo[2].at
      <3>1. servo'[2] = [servo[2] EXCEPT !.to = angle_to_pulse(GripClose[2]), !.left = SERVO_TICKS]
        BY <1>1, <1>4, PoseDomains DEF grab_close, set_angle, Servos, ServoTypeOK
      <3>2. IsServo(servo[2])
        BY <1>1 DEF ServoTypeOK, Servos
      <3> QED  BY <3>1, <3>2 DEF IsServo
    <2> QED  BY <1>3, <2>1, <2>3, <2>4 DEF GripInv
  <1>5. CASE ~(GrabClose /\ grab_close /\ Goes(SleepClose))
    <2>1. arm'.grip = "closed" => arm.grip = "closed"
      <3>1. arm \in ArmCommand
        BY DEF BaseInv, RobotInv, IInv, TypeOK
      <3>2. CASE TimedOut \/ SeesBall \/ SeesNoBall
        BY <3>2 DEF TimedOut, SeesBall, SeesNoBall, NoFrame, ChaseBall, SeeBall, Search, Scan, LoseBall
      <3>3. CASE SeesBucket \/ SeesNoBucket
        BY <3>3 DEF SeesBucket, SeesNoBucket, FindWait, FindConfirm, FindMiss, ApproachArrive,
           ApproachSteer, ApproachMiss, Looking
      <3>4. CASE LetGo \/ (NextRound /\ grab_pos /\ Goes(0))
        BY <3>1, <3>4 DEF LetGo, Deposit, NextRound, Ready, ArmCommand
      <3>5. CASE GrabSteps
        BY <1>5, <3>1, <3>5 DEF GrabSteps, GrabLower, GrabLift, Lowered, ArmCommand
      <3>6. CASE PulseEnds /\ Goes(0) /\ UNCHANGED armVars
        BY <3>6 DEF PulseEnds, BrakeDone, KickDone, Arrived
      <3> QED  BY <3>2, <3>3, <3>4, <3>5, <3>6 DEF Acts
    <2> QED  BY <1>1, <1>2, <1>3, <2>1 DEF GripInv
  <1> QED  BY <1>4, <1>5

LEMMA GripStep ==
  ASSUME SERVO_TICKS \in 1..SleepClose, BaseInv, GripInv, pc = "lifting" /\ ~held => InGrip,
         [RobotNext]_robotVars
  PROVE  GripInv'
PROOF
  <1>1. CASE UNCHANGED robotVars
    BY <1>1 DEF robotVars, vars, armVars, outside, timing, GripInv
  <1>2. CASE Pops
    <2>1. UNCHANGED <<pc, arm, servo, held>> /\ busy = 0 /\ pc = "frame"
      BY <1>2 DEF Pops, TakeFrame, Undecodable, NoFrame, NewFrame, vars, outside, armVars, Runs
    <2> QED  BY <2>1 DEF GripInv
  <1> QED  BY <1>1, <1>2, GripTick, GripAct, StepKinds

LEMMA GripHolds ==
  ASSUME BaseInv, GripInv
  PROVE  CarriesBall
PROOF
  <1> SUFFICES ASSUME game_state \in {"FIND_BUCKET", "APPROACH_BUCKET"} PROVE held
    BY DEF CarriesBall
  <1>1. pc \notin {"releasing", "lifting"}
    BY DEF BaseInv, RobotInv, IInv, RoundInv, BlockingFollowsStage
  <1>2. arm.grip = "closed"
    BY <1>1 DEF BaseInv, RobotInv, IInv, RoundInv, ArmFollowsStage
  <1> QED  BY <1>1, <1>2 DEF GripInv

LEMMA GripInit ==
  ASSUME RobotInit
  PROVE  GripInv
PROOF
  <1>1. arm.grip = "open"
    BY DEF RobotInit, Init, Ready
  <1>2. \A s \in Servos : servo[s].at = servo[s].to
    BY DEF RobotInit, ArmInit, At
  <1> QED  BY <1>1, <1>2 DEF GripInv

-----------------------------------------------------------------------------
(* A picture that was looked at is at most as many laps old as there are   *)
(* buffers, and one.                                                       *)
LEMMA FollowsGrows ==
  ASSUME RobotInv, PictureInv, NEW p, Placed(p), NEW m \in Nat, NEW n \in Nat, m <= n,
         Follows(Swing, p, target, filled, m, 1)
  PROVE  Follows(Swing, p, target, filled, n, 1)
PROOF
  <1>1. Swing \in Nat /\ Placed(target) /\ \A j \in 1..Len(filled) : Placed(filled[j].shown.thing)
    BY PlantFacts, PicturesPlaced DEF RobotInv
  <1>2. Near(Swing, p, target, n)
    BY <1>1, NearGrows DEF Follows
  <1>3. ASSUME NEW j \in 1..Len(filled) PROVE Near(Swing, p, filled[j].shown.thing, n)
    BY <1>1, NearGrows DEF Follows
  <1> QED  BY <1>2, <1>3 DEF Follows

LapsInQueue == Lap * (buffer_count_ + 1)

LEMMA LookedAt ==
  ASSUME BaseInv, looking, busy = 0, ShowsNow(examined)
  PROVE  LapsInQueue \in Nat /\ Follows(Swing, Shown, target, filled, LapsInQueue, 1)
PROOF
  <1>1. Follows(Swing, Shown, target, filled, Lap * (examined.age + 1) + Spent, 1)
    BY DEF BaseInv, NearInv
  <1>2. /\ Lap \in Nat /\ Lap >= 2 /\ examined.age \in Nat /\ Placed(Shown)
        /\ buffer_count_ \in Nat /\ examined.age + 1 <= buffer_count_
    BY PlantFacts, PicturesPlaced DEF BaseInv, RobotInv
  <1>3. Spent \in Nat /\ Spent <= Lap
    <2>1. Spent = IF Rolling THEN Lap - 0 ELSE KICK_TICKS
      BY DEF Spent
    <2> QED  BY <1>2, <2>1 DEF KICK_TICKS
  <1> DEFINE m == Lap * (examined.age + 1) + Spent
             n == Lap * (buffer_count_ + 1)
  <1>4. m \in Nat /\ n \in Nat /\ m <= n
    <2>1. examined.age + 1 \in Nat
      BY <1>2
    <2>2. /\ Lap * (examined.age + 1) \in Nat /\ Lap * buffer_count_ \in Nat
          /\ Lap * (examined.age + 1) <= Lap * buffer_count_
          /\ Lap * (buffer_count_ + 1) = Lap * buffer_count_ + Lap
      BY <1>2, <2>1, TimesGrows
    <2> QED  BY <1>2, <1>3, <2>2
  <1> HIDE DEF m, n
  <1>5. Follows(Swing, Shown, target, filled, n, 1)
    BY <1>1, <1>2, <1>4, FollowsGrows DEF BaseInv, m
  <1> QED  BY <1>4, <1>5 DEF n, LapsInQueue

(* A grab is decided on a picture in which the ball was in reach and on    *)
(* its line, and since then the wheels cannot have taken it far.           *)
OverBall ==
  Grabs /\ ~held =>
    /\ ShowsNow(examined) /\ Abs(Shown.offset) <= half_w
    /\ OnTarget(Shown.offset) /\ InReach(Shown)
    /\ Near(Swing, Shown, target, LapsInQueue)

LEMMA OverBallTick ==
  ASSUME BaseInv, OverBall, Tick
  PROVE  OverBall'
PROOF
  <1>1. /\ UNCHANGED <<pc, game_state, examined>> /\ Swing' = Swing /\ Shown' = Shown
        /\ LapsInQueue' = LapsInQueue
    BY DEF Tick, vars, Lap, Swing, Shown, Camera, Expose, uvcVars, LapsInQueue
  <1> SUFFICES ASSUME Grabs, ~held'
               PROVE  /\ ShowsNow(examined)' /\ Abs(Shown.offset) <= half_w
                      /\ OnTarget(Shown.offset) /\ InReach(Shown)
                      /\ Near(Swing, Shown, target', LapsInQueue)
    BY <1>1 DEF OverBall, Grabs
  <1>2. Move /\ held' = held /\ target'.thing = target.thing
    <2>1. game_state' # "DEPOSIT"
      BY <1>1 DEF Grabs, BaseInv, RobotInv, IInv, RoundInv, BlockingFollowsStage
    <2> QED  BY <2>1, TickCases DEF BaseInv
  <1>3. /\ ShowsNow(examined) /\ Abs(Shown.offset) <= half_w
        /\ OnTarget(Shown.offset) /\ InReach(Shown)
        /\ Near(Swing, Shown, target, LapsInQueue)
    BY <1>2 DEF OverBall
  <1>4. ShowsNow(examined)'
    BY <1>1, <1>2, <1>3 DEF ShowsNow
  <1>5. Step = 0
    <2>1. ~Rolling
      BY NotRolling DEF Grabs, BaseInv
    <2> QED  BY <2>1 DEF Step
  <1>6. LapsInQueue \in Nat /\ Placed(Shown) /\ Shown.area \in 1..100
    <2>1. Lap \in Nat /\ buffer_count_ \in Nat /\ Placed(Shown)
      BY PlantFacts, PicturesPlaced DEF BaseInv, RobotInv
    <2>2. Shown.area \in 1..100
      BY <1>3, <2>1 DEF InReach, AREA_STOP, AREA_REVERSE, Placed
    <2> QED  BY <2>1, <2>2 DEF LapsInQueue
  <1>7. Near(Swing, Shown, target', LapsInQueue)
    <2>1. LapsInQueue + Step <= LapsInQueue
      BY <1>5, <1>6
    <2> QED  BY <1>2, <1>3, <1>6, <2>1, NearMoves DEF BaseInv, RobotInv, IInv
  <1> QED  BY <1>3, <1>4, <1>7

(* The branch that commits a grab.                                         *)
LEMMA GrabCommitted ==
  ASSUME BaseInv, Acts, Grabs', ~Grabs
  PROVE  /\ SeesBall /\ looking /\ Sees("ball") /\ ConfirmStop(Place)
         /\ pc' = "braking" /\ ~held /\ game_state = "CHASE_BALL" /\ ShowsNow(examined)
PROOF
  <1>1. CASE SeesBall
    <2>1. looking /\ Sees("ball") /\ ChaseBall(Place) /\ Place \in View
      BY <1>1, PlaceType DEF SeesBall, Deciding, BaseInv, RobotInv
    <2>2. pc' = "braking" /\ pc = "frame" /\ game_state = "CHASE_BALL"
          /\ (BackOff(Place) \/ ConfirmStop(Place) \/ Align(Place) \/ Chase(Place))
      <3>1. pc = "frame" /\ game_state = "CHASE_BALL" /\ pc' \in {"frame", "braking", "kicking"}
            /\ (BackOff(Place) \/ ConfirmStop(Place) \/ Align(Place) \/ Chase(Place))
        BY <2>1, BallFrame, BallBranches DEF ChaseBall, SeeBall, NewFrame, BaseInv, RobotInv
      <3> QED  BY <3>1 DEF Grabs
    <2>3. ConfirmStop(Place)
      BY <2>2 DEF BackOff, Align, Chase
    <2>4. ~held /\ target.thing = "ball"
      BY <2>2, ChaseEmptyHanded DEF BaseInv
    <2> QED  BY <1>1, <2>1, <2>2, <2>3, <2>4 DEF ShowsNow, Sees, Shown
  <1>2. CASE TimedOut \/ SeesNoBall \/ SeesBucket \/ SeesNoBucket \/ LetGo
    <2>1. pc' \in {"frame", "arriving", "releasing"}
      BY <1>2 DEF TimedOut, NoFrame, SeesNoBall, Search, Scan, LoseBall, NewFrame, SeesBucket,
         SeesNoBucket, FindWait, FindConfirm, FindMiss, ApproachArrive, ApproachSteer,
         ApproachMiss, Looking, LetGo, Deposit
    <2> QED  BY <2>1 DEF Grabs
  <1>3. CASE GrabSteps \/ (PulseEnds /\ Goes(0)) \/ (NextRound /\ Goes(0))
    <2>1. pc \in {"braking", "lowering", "closing", "lifting"} \/ pc' = "frame"
      BY <1>3 DEF GrabSteps, GrabLower, GrabClose, GrabLift, PulseEnds, BrakeDone, KickDone,
         Arrived, Blocked, NextRound
    <2> QED  BY <2>1 DEF Grabs
  <1> QED  BY <1>1, <1>2, <1>3 DEF Acts

LEMMA OverBallAct ==
  ASSUME BaseInv, OverBall, Acts
  PROVE  OverBall'
PROOF
  <1>1. /\ UNCHANGED <<target, held, examined>> /\ Swing' = Swing /\ Shown' = Shown
        /\ LapsInQueue' = LapsInQueue /\ busy = 0
    BY ActFrame DEF BaseInv, Lap, Swing, Shown, LapsInQueue
  <1>2. ShowsNow(examined)' <=> ShowsNow(examined)
    BY <1>1 DEF ShowsNow
  <1>3. CASE Grabs
    BY <1>1, <1>2, <1>3 DEF OverBall
  <1>4. CASE Grabs' /\ ~Grabs
    <2>1. looking /\ Sees("ball") /\ ConfirmStop(Place) /\ ShowsNow(examined)
      BY <1>4, GrabCommitted
    <2>2. OnTarget(Shown.offset) /\ InReach(Shown) /\ Abs(Shown.offset) <= half_w
      BY <2>1 DEF ConfirmStop, Place, InReach, Sees
    <2>3. Near(Swing, Shown, target, LapsInQueue)
      BY <1>1, <2>1, LookedAt DEF Follows
    <2> QED  BY <1>1, <1>2, <2>1, <2>2, <2>3 DEF OverBall
  <1> QED  BY <1>3, <1>4 DEF OverBall

LEMMA OverBallStep ==
  ASSUME BaseInv, OverBall, [RobotNext]_robotVars
  PROVE  OverBall'
PROOF
  <1>1. CASE UNCHANGED robotVars
    BY <1>1 DEF robotVars, vars, uvcVars, outside, timing, OverBall, Grabs, ShowsNow, Shown, Lap, Swing,
       LapsInQueue
  <1>2. CASE Pops
    <2>1. pc' = "frame"
      BY <1>2 DEF Pops, TakeFrame, Undecodable, NoFrame, NewFrame, vars
    <2> QED  BY <2>1 DEF OverBall, Grabs
  <1> QED  BY <1>1, <1>2, OverBallTick, OverBallAct, StepKinds

(* A gripper that forgives what the wheels can do in the time of a whole   *)
(* queue, and a lap: on any floor of these the ball is in its grip.        *)
Reaches(p, laps) ==
  /\ STOP_CENTER_ZONE + SwingOf(p) * (LapOf(p) * laps) <= GRIP_ZONE
  /\ LapOf(p) * laps <= REACH_ZONE

GripSuffices == \A p \in Plants, b \in Grants : Reaches(p, b + 1)

LEMMA ZoneReached ==
  ASSUME NEW x \in Int, NEW y \in Int, NEW g \in Int, NEW z \in Int, NEW d \in Int,
         NEW grip \in Int, Abs(x - g) <= z, Abs(y - x) <= d, z + d <= grip
  PROVE  Abs(y - g) <= grip
BY DEF Abs

LEMMA InGripOverBall ==
  ASSUME GripSuffices, BaseInv, OverBall, pc = "lifting", ~held
  PROVE  InGrip
PROOF
  <1>1. /\ Abs(Shown.offset) <= half_w /\ OnTarget(Shown.offset) /\ InReach(Shown)
        /\ Near(Swing, Shown, target, LapsInQueue)
    BY DEF OverBall, Grabs
  <1>2. /\ LapsInQueue \in Nat /\ Swing \in Nat /\ Placed(Shown) /\ Placed(target)
    <2>1. Lap \in Nat /\ buffer_count_ + 1 \in Nat
      BY PlantFacts, PicturesPlaced DEF BaseInv, RobotInv
    <2> QED  BY <2>1, PlantFacts, PicturesPlaced DEF BaseInv, RobotInv, LapsInQueue
  <1>3. /\ Shown.offset \in Int /\ Shown.area \in Int /\ target.offset \in Int /\ target.area \in Int
        /\ g_stop_center_offset \in Int /\ GRIP_ZONE \in Int /\ REACH_ZONE \in Int
    BY <1>2, SteeringAssumption, RobotAssumption DEF Placed
  <1>5. Reaches(plant, buffer_count_ + 1)
    BY DEF GripSuffices, BaseInv, RobotInv, WorldInv, PictureInv
  <1>6. STOP_CENTER_ZONE + Swing * LapsInQueue <= GRIP_ZONE /\ LapsInQueue <= REACH_ZONE
    BY <1>5 DEF Reaches, Lap, Swing, LapsInQueue
  <1>7. /\ Abs(target.offset - Shown.offset) <= Swing * LapsInQueue
        /\ Abs(target.area - Shown.area) <= LapsInQueue
    BY <1>1 DEF Near
  <1>8. Swing * LapsInQueue \in Int /\ STOP_CENTER_ZONE \in Int
    BY <1>2 DEF STOP_CENTER_ZONE
  <1>10. Abs(stop_off(target.offset)) <= GRIP_ZONE
    BY <1>1, <1>3, <1>6, <1>7, <1>8, ZoneReached DEF OnTarget, stop_off
  <1>11. target.area >= AREA_STOP - REACH_ZONE /\ target.area < AREA_REVERSE + REACH_ZONE
    BY <1>1, <1>2, <1>3, <1>6, <1>7 DEF InReach, Abs, AREA_STOP, AREA_REVERSE
  <1>12. target.thing = "ball"
    BY DEF BaseInv, HandInv
  <1> QED  BY <1>10, <1>11, <1>12 DEF InGrip

(* Whatever goes missing, on any floor, with any queue and servos in time: *)
(* a robot that looks for a bucket has the ball in its gripper, if the     *)
(* gripper forgives a queue's worth of rolling (arm.cpp:141).  Without     *)
(* GripSuffices a fault can part the ball from what the last picture       *)
(* showed, for confirmations need not be in a row (tennis.cpp:594).        *)
THEOREM RobotCarriesBall ==
  ASSUME SERVO_TICKS \in 1..SleepClose, GripSuffices
  PROVE  RobotSpec => []CarriesBall
PROOF
  <1> DEFINE Inv == BaseInv /\ OverBall /\ GripInv
  <1>1. RobotInit => Inv
    <2>1. RobotInit => OverBall
      BY DEF RobotInit, Init, OverBall, Grabs
    <2> QED  BY <2>1, BaseInit, GripInit
  <1>2. Inv /\ [RobotNext]_robotVars => Inv'
    <2> SUFFICES ASSUME Inv, [RobotNext]_robotVars PROVE Inv'
      OBVIOUS
    <2>1. SERVO_TICKS <= SleepClose
      BY DEF SleepClose
    <2>2. pc = "lifting" /\ ~held => InGrip
      BY InGripOverBall
    <2> QED  BY <2>1, <2>2, BaseStep, OverBallStep, GripStep
  <1>3. Inv => CarriesBall
    BY GripHolds
  <1> QED  BY <1>1, <1>2, <1>3, PTL DEF RobotSpec

-----------------------------------------------------------------------------
(* As long as nothing goes missing every tick leaves a picture waiting: so *)
(* the loop never waits with the wheels rolling, and select() never ends   *)
(* without a picture.                                                      *)
FlowInv ==
  /\ faults \in Nat
  /\ faults = 0 =>
       /\ outage = 0 /\ empty \in Nat /\ empty + Len(filled) = buffer_count_
       /\ filled = <<>> => /\ waited = 0
                           /\ looking => busy = plant.think
                           /\ ~looking => ~Rolling

LEMMA Faultless ==
  ASSUME faults \in Nat, [RobotNext]_robotVars
  PROVE  /\ faults' \in Nat
         /\ faults' = 0 => faults = 0 /\ ~Fault
PROOF
  <1>1. Fault => faults' = faults + 1
    BY DEF Fault
  <1>2. Fault \/ NoFault
    BY DEF RobotNext, robotVars, Tick, Camera, Program, TakeFrame, Undecodable, TimedOut, SeesBall,
       SeesNoBall, SeesBucket, SeesNoBucket, Misses, LetGo, GrabSteps, Goes, NoFault
  <1> QED  BY <1>1, <1>2 DEF NoFault

LEMMA FlowTick ==
  ASSUME BaseInv, FlowInv, Tick, faults' = 0
  PROVE  FlowInv' /\ filled' # <<>>
PROOF
  <1>1. /\ outage = 0 /\ empty \in Nat /\ empty + Len(filled) = buffer_count_
        /\ faults = 0 /\ ~Fault
    BY Faultless DEF FlowInv, RobotNext
  <1>2. Expose([thing |-> target, still |-> ~Rolling]) /\ outage' = outage
    BY <1>1 DEF Tick, Camera
  <1>3. Len(filled) \in Nat /\ Len(filled') \in Nat /\ buffer_count_ \in Nat \ {0, 1}
    BY TickQueue, RobotAssumption DEF BaseInv, RobotInv, PictureInv
  <1>4. empty' \in Nat /\ empty' + Len(filled') = buffer_count_' /\ filled' # <<>>
    <2>1. CASE empty > 0
      <3>1. empty' = empty - 1 /\ buffer_count_' = buffer_count_
            /\ filled' = Append(filled, [shown |-> [thing |-> target, still |-> ~Rolling], age |-> 0])
        BY <1>2, <2>1 DEF Expose
      <3>2. Len(filled') = Len(filled) + 1
        BY <3>1, ExposedPictures DEF BaseInv, RobotInv, QueueInv, QueueTypeOK
      <3>3. Len(filled') # 0
        BY <1>3, <3>2
      <3>4. filled' # <<>>
        BY <3>3, EmptySeq
      <3> QED  BY <1>1, <1>3, <2>1, <3>1, <3>2, <3>4
    <2>2. CASE ~(empty > 0)
      <3>1. UNCHANGED uvcVars
        BY <1>2, <2>2 DEF Expose
      <3>2. empty = 0
        BY <1>1, <2>2
      <3>3. Len(filled) # 0
        BY <1>1, <1>3, <3>2
      <3>4. filled # <<>>
        BY <3>3, EmptySeq
      <3> QED  BY <1>1, <3>1, <3>4 DEF uvcVars
    <2> QED  BY <2>1, <2>2
  <1> QED  BY <1>1, <1>2, <1>4 DEF FlowInv

LEMMA FlowPop ==
  ASSUME BaseInv, FlowInv, Pops, faults' = 0
  PROVE  FlowInv' /\ TakeFrame
PROOF
  <1>1. /\ outage = 0 /\ empty \in Nat /\ empty + Len(filled) = buffer_count_
        /\ faults = 0 /\ ~Fault
    BY Faultless DEF FlowInv, RobotNext, Program, Pops
  <1>2. TakeFrame /\ GetFrame(TRUE)
    BY <1>1 DEF Pops, TakeFrame, Undecodable
  <1>3. Len(filled) \in Nat \ {0} /\ Len(filled') = Len(filled) - 1
    BY PopQueue DEF BaseInv, RobotInv
  <1>4. empty' = empty + 1 /\ buffer_count_' = buffer_count_
    BY <1>2 DEF GetFrame, Requeue
  <1>5. waited' = 0 /\ looking' = TRUE /\ busy' = plant'.think /\ outage' = outage
    BY <1>2 DEF TakeFrame, Runs, outside
  <1>6. empty' \in Nat /\ empty' + Len(filled') = buffer_count_'
    BY <1>1, <1>3, <1>4
  <1> QED  BY <1>1, <1>2, <1>5, <1>6 DEF FlowInv

LEMMA FlowAct ==
  ASSUME BaseInv, BaseInv', FlowInv, Acts, faults' = 0
  PROVE  FlowInv' /\ ~TimedOut
PROOF
  <1>1. /\ outage = 0 /\ empty \in Nat /\ empty + Len(filled) = buffer_count_
        /\ faults = 0
    BY Faultless DEF FlowInv, RobotNext, Program, Acts
  <1>2. UNCHANGED <<filled, empty, buffer_count_, outage, plant>> /\ busy = 0 /\ looking' = FALSE
    BY ActFrame DEF BaseInv
  <1>3. filled = <<>> => waited = 0 /\ ~looking /\ ~Rolling
    <2>1. plant.think # 0
      BY PlantFacts DEF BaseInv, RobotInv
    <2> QED  BY <1>1, <1>2, <2>1 DEF FlowInv
  <1>4. ~TimedOut
    BY <1>3 DEF TimedOut, NothingFilled, SELECT_TICKS
  <1>5. waited' = waited
    BY <1>4 DEF Acts, SeesBall, SeesNoBall, SeesBucket, SeesNoBucket, LetGo, Deciding, GrabSteps, Goes
  <1>6. ~looking /\ ~Rolling => ~Rolling'
    <2> SUFFICES ASSUME ~looking, ~Rolling PROVE ~Rolling'
      OBVIOUS
    <2>1. pc' # "kicking" /\ ~(pc' = "frame" /\ Rolling')
      <3>1. pc' # "kicking" /\ (pc' = "frame" /\ Rolling' => motor' = motor)
        BY ActMoves DEF BaseInv
      <3>2. motor' = motor => ~Rolling'
        BY DEF Rolling
      <3> QED  BY <3>1, <3>2
    <2>2. pc' \notin {"frame", "kicking"} => ~Rolling'
      <3>1. pc' \in {"braking", "lowering", "closing", "lifting", "arriving", "releasing",
                     "frame", "kicking"}
        BY DEF BaseInv, RobotInv, IInv, TypeOK, Blocking
      <3>2. pc' \notin {"frame", "kicking"} => motor' \in {Brake, Standby}
        BY <3>1 DEF BaseInv, ClockInv, RobotInv, IInv, RoundInv, RestBeforeChange,
           BlockingFollowsStage, Grabbing
      <3> QED  BY <3>2, RestTypes DEF Rolling
    <2> QED  BY <2>1, <2>2
  <1> QED  BY <1>1, <1>2, <1>3, <1>4, <1>5, <1>6 DEF FlowInv

LEMMA FlowStep ==
  ASSUME BaseInv, BaseInv', FlowInv, [RobotNext]_robotVars
  PROVE  FlowInv'
PROOF
  <1>1. CASE UNCHANGED robotVars
    BY <1>1 DEF robotVars, vars, uvcVars, outside, timing, FlowInv, Rolling
  <1>2. CASE faults' # 0
    BY <1>2, Faultless DEF FlowInv
  <1> QED  BY <1>1, <1>2, FlowTick, FlowPop, FlowAct, StepKinds

LEMMA FlowInit == RobotInit => FlowInv
PROOF
  <1> SUFFICES ASSUME RobotInit PROVE FlowInv
    OBVIOUS
  <1>1. /\ faults = 0 /\ outage = 0 /\ waited = 0 /\ looking = FALSE /\ motor = Standby
        /\ buffer_count_ \in Grants /\ empty = buffer_count_ /\ filled = <<>>
    BY DEF RobotInit, Init, UvcReady
  <1>2. empty \in Nat /\ Len(filled) = 0
    BY <1>1, RobotAssumption
  <1> QED  BY <1>1, <1>2, RestTypes DEF FlowInv, Rolling

-----------------------------------------------------------------------------
(* Only the chase and the approach drive forward: a pivot goes nowhere, as *)
(* the two wheels get opposite speeds, and backing off goes away.          *)
NotForward(cmd) == cmd.left \in Int /\ cmd.right \in Int /\ cmd.left + cmd.right <= 0

LEMMA SlowPwm ==
  ASSUME NEW v \in 1..3
  PROVE  Pwm(v) \in Nat /\ Pwm(-v) = -Pwm(v)
PROOF
  <1> USE DEF FullScale, SPEED_SCALE
  <1>1. PICK d \in 0..100 : DeadZoneMap(v) = d /\ DeadZoneMap(-v) = -d
    <2> DEFINE mag == min_speed_ + ((v - 1) * (100 - min_speed_)) \div 99
               m   == IF mag > 100 THEN 100 ELSE mag
    <2>1. Abs(v) = v /\ Abs(-v) = v /\ Sign(v) = 1 /\ Sign(-v) = -1 /\ v # 0 /\ -v # 0
      BY DEF Abs, Sign
    <2>2. DeadZoneMap(v) = 1 * m /\ DeadZoneMap(-v) = (-1) * m
      BY <2>1 DEF DeadZoneMap
    <2>3. m \in 0..100
      <3>1. (v - 1) * (100 - min_speed_) \in {0, 100 - min_speed_, 2 * (100 - min_speed_)}
        BY SteeringAssumption
      <3>2. ((v - 1) * (100 - min_speed_)) \div 99 \in Nat
        BY <3>1, SteeringAssumption
      <3> QED  BY <3>2, SteeringAssumption
    <2> HIDE DEF m
    <2>4. 1 * m = m /\ (-1) * m = -m
      BY <2>3
    <2> QED  BY <2>2, <2>3, <2>4
  <1>2. Clamp(d, 100) = d /\ Clamp(-d, 100) = -d
    BY DEF Clamp
  <1>3. TruncDiv(d * 150, 100) \in Nat /\ TruncDiv((-d) * 150, 100) = -TruncDiv(d * 150, 100)
    BY DEF TruncDiv
  <1> QED  BY <1>1, <1>2, <1>3 DEF Pwm, to_pwm

LEMMA NoForwardCommand ==
  /\ NotForward(Brake) /\ NotForward(Standby)
  /\ NotForward(FindBucketDrive)
  /\ \A dir \in {1, -1} : NotForward(ScanDrive(dir))
  /\ \A offset \in Int : /\ NotForward(AlignDrive(offset)) /\ NotForward(KickDrive(offset))
                         /\ NotForward(SearchDrive(offset)) /\ NotForward(ReverseDrive(offset))
PROOF
  <1>1. \A v \in 1..3 : NotForward(Pivot(v)) /\ NotForward(Pivot(-v))
    <2> TAKE v \in 1..3
    <2>1. Pwm(v) \in Nat /\ Pwm(-v) = -Pwm(v) /\ -(-v) = v
      BY SlowPwm
    <2> QED  BY <2>1 DEF NotForward, Pivot, Drive
  <1>2. /\ NotForward(Pivot(2)) /\ NotForward(Pivot(-2))
        /\ NotForward(Pivot(3)) /\ NotForward(Pivot(-3))
    BY <1>1
  <1>3. NotForward(Brake) /\ NotForward(Standby)
    BY DEF NotForward, Brake, Standby
  <1>4. NotForward(FindBucketDrive) /\ \A dir \in {1, -1} : NotForward(ScanDrive(dir))
    <2>1. 1 * 3 = 3 /\ (-1) * 3 = -3
      OBVIOUS
    <2> QED  BY <1>2, <2>1 DEF FindBucketDrive, ScanDrive, BUCKET_SEARCH_SPD, SEARCH_PIVOT_SPD
  <1>5. ASSUME NEW offset \in Int
        PROVE  NotForward(AlignDrive(offset)) /\ NotForward(KickDrive(offset))
    <2>1. Towards(stop_off(offset)) \in {1, -1}
      BY DEF Towards
    <2>2. 1 * 2 = 2 /\ (-1) * 2 = -2 /\ 1 * 3 = 3 /\ (-1) * 3 = -3
      OBVIOUS
    <2>3. \A t \in {1, -1} : NotForward(Pivot(t * 2)) /\ NotForward(Pivot(t * 3))
      BY <1>2, <2>2
    <2> QED  BY <2>1, <2>3 DEF AlignDrive, KickDrive, ALIGN_PIVOT_SPD, ALIGN_KICK_SPD
  <1>6. ASSUME NEW offset \in Int
        PROVE  NotForward(SearchDrive(offset))
    BY <1>2 DEF SearchDrive, SEARCH_PIVOT_SPD
  <1>7. ASSUME NEW offset \in Int
        PROVE  NotForward(ReverseDrive(offset))
    <2>1. \A v \in 1..3 : Pwm(-v) \in Int /\ Pwm(-v) <= 0
      <3> TAKE v \in 1..3
      <3>1. Pwm(v) \in Nat /\ Pwm(-v) = -Pwm(v)
        BY SlowPwm
      <3> QED  BY <3>1
    <2>2. \A l, r \in 1..3 : NotForward(Drive(-l, -r))
      BY <2>1 DEF NotForward, Drive
    <2> DEFINE lean == IF Abs(offset) > CENTER_DEAD_ZONE THEN Sign(offset) ELSE 0
    <2>3. lean \in {-1, 0, 1}
      BY DEF Sign
    <2>4. ReverseDrive(offset) = Drive(-2 + lean, -2 - lean)
      BY DEF ReverseDrive, REVERSE_SPEED
    <2> HIDE DEF lean
    <2>5. 2 - lean \in 1..3 /\ 2 + lean \in 1..3 /\ -2 + lean = -(2 - lean) /\ -2 - lean = -(2 + lean)
      BY <2>3
    <2> QED  BY <2>2, <2>4, <2>5
  <1> QED  BY <1>3, <1>4, <1>5, <1>6, <1>7

LEMMA ApproachSign ==
  ASSUME NotForward(motor')
  PROVE  ~(Approach' > 0)
BY DEF NotForward, Approach, Sign

(* The one command that brings an empty-handed robot nearer to anything.   *)
LEMMA ForwardAct ==
  ASSUME BaseInv, BaseInv', Acts, ~TimedOut, ~held, Approach' > 0
  PROVE  /\ looking /\ Sees("ball") /\ ShowsNow(examined) /\ Shown.area < AREA_STOP
         /\ pc' = "frame"
PROOF
  <1>1. ~NotForward(motor')
    BY ApproachSign
  <1>2. CASE SeesBall
    <2>1. looking /\ Sees("ball") /\ ChaseBall(Place) /\ Place \in View
      BY <1>2, PlaceType DEF SeesBall, Deciding, BaseInv, RobotInv
    <2>2. pc = "frame" /\ game_state = "CHASE_BALL" /\ Place.offset \in Int
          /\ (BackOff(Place) \/ ConfirmStop(Place) \/ Align(Place) \/ Chase(Place))
      BY <2>1, BallFrame DEF BaseInv, RobotInv
    <2>3. Chase(Place)
      BY <1>1, <2>2, NoForwardCommand DEF BackOff, ConfirmStop, Align
    <2>4. target.thing = "ball"
      BY <2>2, ChaseEmptyHanded DEF BaseInv
    <2>5. ShowsNow(examined)
      BY <2>1, <2>4 DEF ShowsNow, Sees, Shown
    <2> QED  BY <2>1, <2>2, <2>3, <2>5 DEF Chase, Place
  <1>3. CASE SeesNoBall
    <2>1. Search \/ Scan
      BY <1>3 DEF SeesNoBall
    <2>2. last_offset \in Int
      BY DEF BaseInv, RobotInv, IInv, TypeOK
    <2>3. NotForward(motor')
      BY <2>1, <2>2, NoForwardCommand DEF Search, Scan
    <2> QED  BY <1>1, <2>3
  <1>4. CASE SeesBucket \/ SeesNoBucket
    <2>1. pc = "frame" /\ looking /\ game_state \in {"FIND_BUCKET", "APPROACH_BUCKET"}
      BY <1>4 DEF SeesBucket, SeesNoBucket, Deciding, FindWait, FindConfirm, FindMiss,
         ApproachArrive, ApproachSteer, ApproachMiss, Looking, NewFrame
    <2>2. game_state = "FIND_BUCKET"
      BY <2>1 DEF BaseInv, HandInv
    <2>3. Shown.thing = "ball"
      BY <2>1, <2>2 DEF BaseInv, OrderInv, HandInv, ShowsNow, Shown
    <2>4. SeesNoBucket
      BY <1>4, <2>3 DEF SeesBucket, Sees
    <2>5. motor' = FindBucketDrive
      BY <2>2, <2>4 DEF SeesNoBucket, FindMiss, ApproachMiss, Looking
    <2> QED  BY <1>1, <2>5, NoForwardCommand
  <1>5. CASE LetGo
    BY <1>1, <1>5, NoForwardCommand DEF LetGo, Deposit, HoldStill
  <1>6. CASE GrabSteps \/ (NextRound /\ grab_pos /\ Goes(0))
    <2>1. motor' = motor /\ pc \in {"lowering", "closing", "lifting", "releasing"}
      BY <1>6 DEF GrabSteps, GrabLower, GrabClose, GrabLift, Blocked, NextRound
    <2>2. ~Rolling
      BY <2>1, NotRolling DEF BaseInv
    <2> QED  BY <2>1, <2>2 DEF Approach, Rolling
  <1>7. CASE PulseEnds /\ Goes(0) /\ UNCHANGED armVars
    <2>1. motor' \in {Brake, Standby}
      BY <1>7 DEF PulseEnds, BrakeDone, KickDone, Arrived, HoldStill
    <2> QED  BY <1>1, <2>1, NoForwardCommand
  <1> QED  BY <1>2, <1>3, <1>4, <1>5, <1>6, <1>7 DEF Acts

(* A robot that drives forward does so on a picture as old as the queue:   *)
(* so it may come nearer than it stops by the laps in the queue, and by    *)
(* the one in which it looks at the next picture.                          *)
ForwardInv ==
  faults = 0 /\ ~held /\ Approach > 0 =>
    /\ pc = "frame"
    /\ target.area < AREA_STOP + LapsInQueue + (IF looking THEN Lap - busy ELSE 0)

LEMMA QueueTypes ==
  ASSUME BaseInv
  PROVE  /\ Lap \in Nat /\ Lap >= 2 /\ Swing \in Nat /\ LapsInQueue \in Nat
         /\ plant.think \in Nat \ {0} /\ plant.think <= Lap
         /\ busy \in Nat /\ Approach \in {-1, 0, 1}
         /\ target.area \in 1..100 /\ target.offset \in Int /\ Placed(target)
         /\ held \in BOOLEAN
PROOF
  <1>1. Lap \in Nat /\ Lap >= 2 /\ Swing \in Nat /\ plant.think \in Nat \ {0} /\ plant.think <= Lap
    BY PlantFacts DEF BaseInv, RobotInv
  <1>2. buffer_count_ \in Nat /\ Placed(target) /\ target.area \in 1..100
    BY PicturesPlaced DEF BaseInv
  <1>3. LapsInQueue \in Nat
    BY <1>1, <1>2 DEF LapsInQueue
  <1>4. Approach \in {-1, 0, 1}
    <2>1. Approach \in Int /\ -Step <= Approach /\ Approach <= Step /\ Step \in {0, 1}
      BY StepRange DEF BaseInv, RobotInv, IInv
    <2> QED  BY <2>1
  <1> QED  BY <1>1, <1>2, <1>3, <1>4 DEF BaseInv, ClockInv, HandInv, Placed

LEMMA TickApproach ==
  ASSUME BaseInv, Tick
  PROVE  /\ Approach' = Approach /\ Lap' = Lap /\ LapsInQueue' = LapsInQueue
         /\ UNCHANGED <<pc, game_state, motor, looking, examined>>
BY DEF Tick, Camera, Expose, uvcVars, vars, Approach, Rolling, Pivoting, Lap, LapsInQueue

LEMMA ForwardTick ==
  ASSUME BaseInv, FlowInv, ForwardInv, Tick, faults' = 0, ~held', Approach' > 0
  PROVE  /\ ~held /\ Approach = 1 /\ looking /\ busy \in Nat \ {0} /\ busy' = busy - 1
         /\ faults = 0 /\ Move /\ target'.thing = target.thing
         /\ target'.area <= target.area + 1
PROOF
  <1>1. faults = 0
    BY Faultless DEF FlowInv, RobotNext
  <1>2. Approach > 0 /\ Approach = 1
    BY TickApproach, QueueTypes
  <1>3. Rolling
    BY <1>2 DEF Approach
  <1>4. Move /\ held' = held /\ target'.thing = target.thing
    <2>1. pc \notin {"lifting", "releasing"}
      BY <1>3, NotRolling DEF BaseInv
    <2>2. pc' = pc
      BY TickApproach
    <2> QED  BY <2>1, <2>2, TickCases DEF BaseInv
  <1>5. pc = "frame"
    BY <1>1, <1>2, <1>4 DEF ForwardInv
  <1>6. looking
    <2> SUFFICES ASSUME ~looking PROVE FALSE
      OBVIOUS
    <2>1. busy = 0
      BY <1>3, <1>5 DEF BaseInv, ClockInv
    <2>2. filled = <<>>
      BY <2>1 DEF Tick, Selecting, NothingFilled
    <2> QED  BY <1>1, <1>3, <2>2 DEF FlowInv
  <1>7. busy \in Nat \ {0} /\ busy' = busy - 1
    BY <1>6, QueueTypes DEF Tick, Selecting
  <1>8. target'.area <= target.area + 1
    <2>1. target'.area = Within(target.area + Approach, 1, 100)
      BY <1>4, Moves DEF BaseInv, RobotInv
    <2>2. target.area \in 1..100
      BY QueueTypes
    <2> QED  BY <1>2, <2>1, <2>2 DEF Within
  <1> QED  BY <1>1, <1>2, <1>4, <1>6, <1>7, <1>8

LEMMA ForwardStep ==
  ASSUME BaseInv, BaseInv', FlowInv, ForwardInv, [RobotNext]_robotVars
  PROVE  ForwardInv'
PROOF
  <1> SUFFICES ASSUME faults' = 0, ~held', Approach' > 0
               PROVE  /\ pc' = "frame"
                      /\ target'.area < AREA_STOP + LapsInQueue'
                                        + (IF looking' THEN Lap' - busy' ELSE 0)
    BY DEF ForwardInv
  <1>1. faults = 0
    BY Faultless DEF FlowInv
  <1>2. /\ Lap \in Nat /\ LapsInQueue \in Nat /\ target.area \in 1..100 /\ busy \in Nat
        /\ plant.think \in Nat /\ plant.think <= Lap
    BY QueueTypes
  <1>3. CASE UNCHANGED robotVars
    BY <1>1, <1>3 DEF robotVars, vars, uvcVars, outside, timing, ForwardInv, Approach, Rolling,
       Pivoting, Lap, LapsInQueue
  <1>4. CASE Tick
    <2>1. /\ ~held /\ Approach = 1 /\ looking /\ busy \in Nat \ {0} /\ busy' = busy - 1
          /\ target'.area <= target.area + 1
      BY <1>4, ForwardTick
    <2>2. pc = "frame" /\ target.area < AREA_STOP + LapsInQueue + (Lap - busy)
      BY <1>1, <2>1 DEF ForwardInv
    <2>3. pc' = pc /\ looking' = looking /\ Lap' = Lap /\ LapsInQueue' = LapsInQueue
      BY <1>4, TickApproach
    <2>4. target'.area \in 1..100
      BY DEF BaseInv, PictureInv
    <2> QED  BY <1>2, <2>1, <2>2, <2>3, <2>4 DEF AREA_STOP
  <1>5. CASE Pops
    <2>1. TakeFrame
      BY <1>5, FlowPop
    <2>2. /\ UNCHANGED <<pc, motor, target, held, buffer_count_, plant>> /\ ~looking /\ looking'
          /\ busy' = plant.think
      BY <2>1 DEF TakeFrame, GetFrame, Runs, vars, outside
    <2>3. Approach' = Approach /\ Lap' = Lap /\ LapsInQueue' = LapsInQueue
      BY <2>2 DEF Approach, Rolling, Pivoting, Lap, LapsInQueue
    <2>4. pc = "frame" /\ target.area < AREA_STOP + LapsInQueue
      BY <1>1, <1>2, <2>2, <2>3 DEF ForwardInv, AREA_STOP
    <2> QED  BY <1>2, <2>2, <2>3, <2>4 DEF AREA_STOP
  <1>6. CASE Acts
    <2>1. UNCHANGED <<target, held, buffer_count_, plant>> /\ busy = 0 /\ looking' = FALSE
      BY <1>6, ActFrame DEF BaseInv
    <2>2. ~TimedOut
      BY <1>6, FlowAct
    <2>3. /\ looking /\ Sees("ball") /\ ShowsNow(examined) /\ Shown.area < AREA_STOP
          /\ pc' = "frame"
      BY <1>6, <2>1, <2>2, ForwardAct
    <2>4. Near(Swing, Shown, target, LapsInQueue)
      BY <2>1, <2>3, LookedAt DEF Follows
    <2>5. Abs(target.area - Shown.area) <= LapsInQueue
      BY <2>3, <2>4 DEF Near, Sees
    <2>6. Shown.area \in 1..100
      BY <2>3, PicturesPlaced DEF BaseInv
    <2>7. target.area < AREA_STOP + LapsInQueue
      BY <1>2, <2>3, <2>5, <2>6 DEF Abs, AREA_STOP
    <2>8. LapsInQueue' = LapsInQueue
      BY <2>1 DEF LapsInQueue, Lap
    <2> QED  BY <1>2, <2>1, <2>3, <2>7, <2>8 DEF AREA_STOP
  <1> QED  BY <1>3, <1>4, <1>5, <1>6, StepKinds

LEMMA ForwardInit ==
  ASSUME RobotInit
  PROVE  ForwardInv
BY NoForwardCommand DEF RobotInit, Init, ForwardInv, Approach, Rolling, Standby

-----------------------------------------------------------------------------
(* Room to stop: a queue of pictures and a look cost less than there is    *)
(* between the area at which the loop stops and that at which it backs     *)
(* off, and a ball on the gripper's line does not leave the picture.       *)
Few == buffer_count_ + 1 < STOP_CONFIRM_CNT

HasRoom(p, laps) ==
  /\ AREA_STOP + LapOf(p) * laps + LapOf(p) <= AREA_REVERSE
  /\ Abs(g_stop_center_offset) + STOP_CENTER_ZONE + SwingOf(p) * (LapOf(p) * laps) <= half_w

RoomSuffices ==
  \A p \in Plants, b \in Grants : b + 1 < STOP_CONFIRM_CNT => HasRoom(p, b + 1)

LEMMA Room ==
  ASSUME RoomSuffices, BaseInv, Few
  PROVE  /\ AREA_STOP + LapsInQueue + Lap <= AREA_REVERSE
         /\ Abs(g_stop_center_offset) + STOP_CENTER_ZONE + Swing * LapsInQueue <= half_w
PROOF
  <1>1. HasRoom(plant, buffer_count_ + 1)
    BY DEF RoomSuffices, Few, BaseInv, RobotInv, WorldInv, PictureInv
  <1> QED  BY <1>1 DEF HasRoom, Lap, Swing, LapsInQueue

(* A ball that once was not too close never becomes so: neither what there *)
(* is now nor what the pictures show from then on.                         *)
Keep(p, now, pictures, k) ==
  p.area < AREA_REVERSE =>
    /\ now.area < AREA_REVERSE
    /\ \A j \in k..Len(pictures) : pictures[j].shown.thing.area < AREA_REVERSE

KeepInv ==
  faults = 0 /\ Few /\ ~held =>
    /\ \A i \in 1..Len(filled) : ShowsNow(filled[i]) =>
         Keep(filled[i].shown.thing, target, filled, i + 1)
    /\ looking /\ ShowsNow(examined) => Keep(Shown, target, filled, 1)

LEMMA StaysOff ==
  ASSUME RoomSuffices, BaseInv, FlowInv, ForwardInv, Tick, Move, faults' = 0, Few, ~held',
         target.area < AREA_REVERSE
  PROVE  target'.area < AREA_REVERSE
PROOF
  <1>1. /\ target'.area = Within(target.area + Approach, 1, 100) /\ target.area \in 1..100
        /\ Approach \in {-1, 0, 1} /\ Lap \in Nat /\ LapsInQueue \in Nat
    BY Moves, QueueTypes DEF BaseInv, RobotInv
  <1>2. CASE Approach' > 0
    <2>1. /\ ~held /\ Approach = 1 /\ looking /\ busy \in Nat \ {0} /\ faults = 0
          /\ target'.area <= target.area + 1
      BY <1>2, ForwardTick
    <2>2. target.area < AREA_STOP + LapsInQueue + (Lap - busy)
      BY <2>1 DEF ForwardInv
    <2>3. AREA_STOP + LapsInQueue + Lap <= AREA_REVERSE
      BY Room
    <2>4. target'.area \in Int
      BY <1>1 DEF Within
    <2> QED  BY <1>1, <2>1, <2>2, <2>3, <2>4 DEF AREA_STOP, AREA_REVERSE
  <1>3. CASE ~(Approach' > 0)
    <2>1. Approach \in {-1, 0}
      BY <1>1, <1>3, TickApproach
    <2> QED  BY <1>1, <2>1 DEF Within, AREA_REVERSE
  <1> QED  BY <1>2, <1>3

LEMMA KeepTick ==
  ASSUME RoomSuffices, BaseInv, FlowInv, ForwardInv, KeepInv, Tick
  PROVE  KeepInv'
PROOF
  <1> SUFFICES ASSUME faults' = 0, Few', ~held'
               PROVE  /\ \A i \in 1..Len(filled') : ShowsNow(filled[i])' =>
                           Keep(filled'[i].shown.thing, target', filled', i + 1)
                      /\ looking' /\ ShowsNow(examined)' => Keep(Shown', target', filled', 1)
    BY DEF KeepInv
  <1>1. faults = 0 /\ Few
    BY Faultless DEF FlowInv, RobotNext, Few, Tick, Camera, Expose, uvcVars
  <1>2. CASE Move /\ held' = held /\ target'.thing = target.thing
    <2>1. /\ looking' = looking /\ examined' = examined /\ Shown' = Shown /\ ~held
      BY <1>2, TickApproach DEF Shown
    <2>2. /\ Len(filled) \in Nat /\ Len(filled') \in Nat
          /\ \A n \in 1..Len(filled) : n \in 1..Len(filled') /\ filled'[n] = filled[n]
          /\ \A n \in 1..Len(filled') :
               \/ n \in 1..Len(filled)
               \/ n = Len(filled) + 1 /\ Len(filled') = n /\ filled'[n].shown.thing = target
      BY TickQueue DEF BaseInv, RobotInv
    <2>3. target.area < AREA_REVERSE => target'.area < AREA_REVERSE
      BY <1>1, <1>2, StaysOff
    <2>4. ASSUME NEW p, NEW k \in Nat \ {0}, Keep(p, target, filled, k)
          PROVE  Keep(p, target', filled', k)
      <3> SUFFICES ASSUME p.area < AREA_REVERSE, NEW j \in k..Len(filled')
                   PROVE  filled'[j].shown.thing.area < AREA_REVERSE
        BY <2>3, <2>4 DEF Keep
      <3>1. j \in 1..Len(filled') /\ target.area < AREA_REVERSE
        BY <2>2, <2>4 DEF Keep
      <3>2. CASE j \in 1..Len(filled)
        <4>1. j \in k..Len(filled) /\ filled'[j] = filled[j]
          BY <2>2, <3>2
        <4> QED  BY <2>4, <4>1 DEF Keep
      <3>3. CASE j \notin 1..Len(filled)
        BY <2>2, <3>1, <3>3
      <3> QED  BY <3>2, <3>3
    <2>5. ASSUME NEW i \in 1..Len(filled'), ShowsNow(filled[i])'
          PROVE  Keep(filled'[i].shown.thing, target', filled', i + 1)
      <3>1. CASE i \in 1..Len(filled)
        <4>1. filled'[i] = filled[i] /\ ShowsNow(filled[i]) /\ i + 1 \in Nat \ {0}
          BY <1>2, <2>2, <2>5, <3>1 DEF ShowsNow
        <4>2. Keep(filled[i].shown.thing, target, filled, i + 1)
          BY <1>1, <2>1, <3>1, <4>1 DEF KeepInv
        <4> QED  BY <2>4, <4>1, <4>2
      <3>2. CASE i \notin 1..Len(filled)
        <4>1. filled'[i].shown.thing = target /\ (i + 1)..Len(filled') = {}
          BY <2>2, <3>2
        <4> QED  BY <2>3, <4>1 DEF Keep
      <3> QED  BY <3>1, <3>2
    <2>6. looking' /\ ShowsNow(examined)' => Keep(Shown', target', filled', 1)
      <3> SUFFICES ASSUME looking', ShowsNow(examined)' PROVE Keep(Shown, target', filled', 1)
        BY <2>1
      <3>1. looking /\ ShowsNow(examined)
        BY <1>2, <2>1 DEF ShowsNow
      <3>2. Keep(Shown, target, filled, 1)
        BY <1>1, <2>1, <3>1 DEF KeepInv
      <3> QED  BY <2>4, <3>2
    <2> QED  BY <2>5, <2>6
  <1>3. CASE (\A n \in 1..Len(filled') : ~ShowsNow(filled[n])') /\ looking' = FALSE
    BY <1>3
  <1> QED  BY <1>2, <1>3, TickCases DEF BaseInv

LEMMA KeepPop ==
  ASSUME BaseInv, FlowInv, KeepInv, Pops, faults' = 0, Few', ~held'
  PROVE  KeepInv'
PROOF
  <1>1. TakeFrame /\ faults = 0
    BY FlowPop, Faultless DEF FlowInv, RobotNext, Program, Pops
  <1>2. UNCHANGED <<target, held, buffer_count_>> /\ Few /\ ~held
    BY <1>1 DEF TakeFrame, GetFrame, outside, Few
  <1>3. /\ Len(filled) \in Nat \ {0} /\ Len(filled') = Len(filled) - 1 /\ 1 \in 1..Len(filled)
        /\ \A n \in 1..Len(filled') : n + 1 \in 1..Len(filled)
                                       /\ filled'[n].shown = filled[n + 1].shown
    BY PopQueue DEF BaseInv, RobotInv
  <1>4. examined' = filled[1] /\ Shown' = filled[1].shown.thing
    BY <1>1, PopQueue DEF TakeFrame, BaseInv, RobotInv, Shown, Pops
  <1>5. ASSUME NEW i \in 1..Len(filled), ShowsNow(filled[i]), NEW k \in Nat \ {0}, i = k
        PROVE  Keep(filled[i].shown.thing, target', filled', k)
    <2>1. Keep(filled[i].shown.thing, target, filled, k + 1)
      BY <1>1, <1>2, <1>5 DEF KeepInv
    <2> SUFFICES ASSUME filled[i].shown.thing.area < AREA_REVERSE, NEW j \in k..Len(filled')
                 PROVE  filled'[j].shown.thing.area < AREA_REVERSE
      BY <1>2, <2>1 DEF Keep
    <2>2. j \in 1..Len(filled')
      BY <1>3
    <2>3. j + 1 \in (k + 1)..Len(filled) /\ filled'[j].shown = filled[j + 1].shown
      BY <1>3, <2>2
    <2> QED  BY <2>1, <2>3 DEF Keep
  <1>6. ASSUME NEW i \in 1..Len(filled'), ShowsNow(filled[i])'
        PROVE  Keep(filled'[i].shown.thing, target', filled', i + 1)
    <2>1. i + 1 \in 1..Len(filled) /\ filled'[i].shown = filled[i + 1].shown /\ i + 1 \in Nat \ {0}
      BY <1>3
    <2>2. ShowsNow(filled[i + 1])
      BY <1>2, <1>6, <2>1 DEF ShowsNow
    <2> QED  BY <1>5, <2>1, <2>2
  <1>7. ShowsNow(examined)' => Keep(Shown', target', filled', 1)
    <2> SUFFICES ASSUME ShowsNow(examined)' PROVE Keep(filled[1].shown.thing, target', filled', 1)
      BY <1>4
    <2>1. ShowsNow(filled[1])
      BY <1>2, <1>4 DEF ShowsNow
    <2> QED  BY <1>3, <1>5, <2>1
  <1> QED  BY <1>6, <1>7 DEF KeepInv

LEMMA KeepStep ==
  ASSUME RoomSuffices, BaseInv, FlowInv, ForwardInv, KeepInv, [RobotNext]_robotVars
  PROVE  KeepInv'
PROOF
  <1>1. CASE UNCHANGED robotVars
    BY <1>1 DEF robotVars, uvcVars, outside, timing, KeepInv, Few, ShowsNow, Shown
  <1>2. CASE Pops
    BY <1>2, KeepPop DEF KeepInv
  <1>3. CASE Acts
    <2>1. UNCHANGED <<filled, target, held, buffer_count_>> /\ looking' = FALSE
      BY <1>3, ActFrame DEF BaseInv
    <2>2. faults' = 0 => faults = 0
      BY Faultless DEF FlowInv
    <2>3. \A i : ShowsNow(filled[i])' <=> ShowsNow(filled[i])
      BY <2>1 DEF ShowsNow
    <2>4. Few' <=> Few
      BY <2>1 DEF Few
    <2> QED  BY <2>1, <2>2, <2>3, <2>4 DEF KeepInv
  <1> QED  BY <1>1, <1>2, <1>3, KeepTick, StepKinds

LEMMA KeepInit ==
  ASSUME RobotInit
  PROVE  KeepInv
PROOF
  <1>1. filled = <<>> /\ looking = FALSE
    BY DEF RobotInit, UvcReady
  <1> QED  BY <1>1 DEF KeepInv

-----------------------------------------------------------------------------
(* While the loop confirms a stop the wheels are at rest, so what every    *)
(* picture from then on shows is where the ball still is.  With every      *)
(* confirmation one older picture has gone: after more of them than there  *)
(* are buffers, and one, there is none left.                               *)
AtRest(picture) == picture.shown.still = TRUE /\ picture.shown.thing = target
InSight(t) == Abs(t.offset) <= half_w /\ t.area < AREA_REVERSE

Confirming == game_state = "CHASE_BALL" /\ pc = "frame" /\ stop_confirm_cnt > 0

ConfirmInv ==
  faults = 0 /\ Few =>
    /\ pc = "kicking" => stop_confirm_cnt = 0
    /\ Confirming =>
         /\ motor = Brake /\ AllNow /\ InSight(target)
         /\ \A i \in 1..Len(filled) :
              /\ InSight(filled[i].shown.thing)
              /\ i + stop_confirm_cnt + (IF looking THEN 1 ELSE 0) > buffer_count_ + 1 =>
                   AtRest(filled[i])
         /\ looking => /\ ShowsNow(examined) /\ InSight(Shown)
                       /\ stop_confirm_cnt > buffer_count_ => AtRest(examined)
    /\ Grabs /\ ~held =>
         /\ AtRest(examined) /\ InSight(target)
         /\ OnTarget(target.offset) /\ InReach(target)

LEMMA RestMoves ==
  ASSUME BaseInv, Move, ~Rolling, InSight(target)
  PROVE  target' = target
PROOF
  <1>1. TurnOf = 0 /\ Approach = 0
    BY DEF TurnOf, Approach
  <1>2. /\ target' = [thing |-> target.thing, area |-> target'.area, offset |-> target'.offset]
        /\ target'.offset = Within(target.offset - 0, -2 * half_w, 2 * half_w)
        /\ target'.area = Within(target.area + 0, 1, 100)
    BY <1>1, Moves DEF BaseInv, RobotInv
  <1>3. target.area \in 1..100 /\ target.offset \in Int /\ half_w \in Nat
    BY QueueTypes, SteeringAssumption
  <1>4. -2 * half_w <= target.offset /\ target.offset <= 2 * half_w
    BY <1>3 DEF InSight, Abs
  <1>5. target'.offset = target.offset /\ target'.area = target.area
    BY <1>2, <1>3, <1>4 DEF Within
  <1>6. target = [thing |-> target.thing, area |-> target.area, offset |-> target.offset]
    BY DEF BaseInv, RobotInv, WorldInv, Thing
  <1> QED  BY <1>2, <1>5, <1>6

LEMMA ConfirmTick ==
  ASSUME BaseInv, FlowInv, ConfirmInv, Tick
  PROVE  ConfirmInv'
PROOF
  <1> SUFFICES ASSUME faults' = 0, Few' PROVE ConfirmInv'
    BY DEF ConfirmInv
  <1>1. /\ faults = 0 /\ Few /\ buffer_count_' = buffer_count_
        /\ UNCHANGED <<pc, game_state, motor, looking, examined, stop_confirm_cnt>>
        /\ Shown' = Shown
    BY Faultless DEF FlowInv, RobotNext, Few, Tick, Camera, Expose, uvcVars, vars, Shown
  <1>2. ASSUME ~Rolling, InSight(target), pc # "releasing", pc = "frame" \/ ~held'
        PROVE  target' = target /\ held' = held
    <2>1. Move /\ held' = held
      <3>1. pc' = "lifting" => game_state' = "CHASE_BALL"
        BY <1>1 DEF BaseInv, RobotInv, IInv, RoundInv, BlockingFollowsStage
      <3>2. \/ Move /\ held' = held
            \/ pc' \in {"lifting", "releasing"} /\ (~held' => game_state' = "DEPOSIT")
        BY TickCases DEF BaseInv
      <3> QED  BY <1>1, <1>2, <3>1, <3>2
    <2> QED  BY <1>2, <2>1, RestMoves
  <1>3. pc' = "kicking" => stop_confirm_cnt' = 0
    BY <1>1 DEF ConfirmInv
  <1>4. ASSUME Confirming'
        PROVE  /\ motor' = Brake /\ AllNow' /\ InSight(target)'
               /\ \A i \in 1..Len(filled') :
                    /\ InSight(filled[i].shown.thing)'
                    /\ i + stop_confirm_cnt' + (IF looking' THEN 1 ELSE 0) > buffer_count_' + 1 =>
                         AtRest(filled[i])'
               /\ looking' => /\ ShowsNow(examined)' /\ InSight(Shown)'
                              /\ stop_confirm_cnt' > buffer_count_' => AtRest(examined)'
    <2>1. /\ motor = Brake /\ AllNow /\ InSight(target) /\ pc = "frame"
          /\ \A i \in 1..Len(filled) :
               /\ InSight(filled[i].shown.thing)
               /\ i + stop_confirm_cnt + (IF looking THEN 1 ELSE 0) > buffer_count_ + 1 =>
                    AtRest(filled[i])
          /\ looking => /\ ShowsNow(examined) /\ InSight(Shown)
                        /\ stop_confirm_cnt > buffer_count_ => AtRest(examined)
      BY <1>1, <1>4 DEF ConfirmInv, Confirming
    <2>2. ~Rolling
      BY <2>1, RestTypes DEF Rolling
    <2>3. target' = target
      BY <1>2, <2>1, <2>2
    <2>4. /\ \A n \in 1..Len(filled) : n \in 1..Len(filled') /\ filled'[n] = filled[n]
          /\ \A n \in 1..Len(filled') :
               \/ n \in 1..Len(filled)
               \/ filled'[n].shown.thing = target /\ filled'[n].shown.still = ~Rolling
      BY TickQueue DEF BaseInv, RobotInv
    <2>5. ASSUME NEW i \in 1..Len(filled')
          PROVE  /\ ShowsNow(filled[i])' /\ InSight(filled[i].shown.thing)'
                 /\ i + stop_confirm_cnt' + (IF looking' THEN 1 ELSE 0) > buffer_count_' + 1 =>
                      AtRest(filled[i])'
      <3>1. CASE i \in 1..Len(filled)
        <4>1. filled'[i] = filled[i]
          BY <2>4, <3>1
        <4> QED  BY <1>1, <2>1, <2>3, <3>1, <4>1 DEF AllNow, ShowsNow, InSight, AtRest
      <3>2. CASE i \notin 1..Len(filled)
        <4>1. filled'[i].shown.thing = target /\ filled'[i].shown.still = ~Rolling
          BY <2>4, <3>2
        <4>2. filled'[i].shown.still = TRUE
          BY <2>2, <4>1
        <4> QED  BY <2>1, <2>3, <4>1, <4>2 DEF ShowsNow, InSight, AtRest
      <3> QED  BY <3>1, <3>2
    <2>6. looking' => /\ ShowsNow(examined)' /\ InSight(Shown)'
                      /\ stop_confirm_cnt' > buffer_count_' => AtRest(examined)'
      BY <1>1, <2>1, <2>3 DEF ShowsNow, InSight, AtRest
    <2> QED  BY <1>1, <2>1, <2>3, <2>5, <2>6 DEF AllNow, InSight
  <1>5. ASSUME Grabs', ~held'
        PROVE  /\ AtRest(examined)' /\ InSight(target)'
               /\ OnTarget(target'.offset) /\ InReach(target')
    <2>1. Grabs /\ ~Rolling
      BY <1>1, <1>5, NotRolling DEF Grabs, BaseInv
    <2>2. ~held
      <3>1. game_state' # "DEPOSIT"
        BY <1>1, <1>5 DEF Grabs, BaseInv, RobotInv, IInv, RoundInv, BlockingFollowsStage
      <3>2. held' = held
        BY <1>5, <3>1, TickCases DEF BaseInv
      <3> QED  BY <1>5, <3>2
    <2>3. /\ AtRest(examined) /\ InSight(target) /\ OnTarget(target.offset) /\ InReach(target)
      BY <1>1, <2>1, <2>2 DEF ConfirmInv
    <2>4. target' = target
      BY <1>2, <1>5, <2>1, <2>3 DEF Grabs
    <2> QED  BY <1>1, <2>3, <2>4 DEF AtRest, InSight
  <1> QED  BY <1>3, <1>4, <1>5 DEF ConfirmInv

LEMMA ConfirmPop ==
  ASSUME BaseInv, FlowInv, ConfirmInv, Pops, faults' = 0, Few'
  PROVE  ConfirmInv'
PROOF
  <1>1. TakeFrame /\ faults = 0
    BY FlowPop, Faultless DEF FlowInv, RobotNext, Program, Pops
  <1>2. /\ UNCHANGED <<target, held, buffer_count_, pc, game_state, motor, stop_confirm_cnt>>
        /\ pc = "frame" /\ looking' = TRUE /\ ~looking /\ Few
    BY <1>1 DEF TakeFrame, GetFrame, outside, vars, Few
  <1>3. /\ Len(filled) \in Nat \ {0} /\ Len(filled') = Len(filled) - 1 /\ 1 \in 1..Len(filled)
        /\ \A n \in 1..Len(filled') : n + 1 \in 1..Len(filled)
                                       /\ filled'[n].shown = filled[n + 1].shown
    BY PopQueue DEF BaseInv, RobotInv
  <1>4. examined' = filled[1] /\ Shown' = filled[1].shown.thing
    BY <1>1, PopQueue DEF TakeFrame, BaseInv, RobotInv, Shown, Pops
  <1>5. stop_confirm_cnt \in Nat /\ buffer_count_ \in Nat
    BY PicturesPlaced DEF BaseInv, RobotInv, IInv, TypeOK
  <1>6. ASSUME Confirming'
        PROVE  /\ motor' = Brake /\ AllNow' /\ InSight(target)'
               /\ \A i \in 1..Len(filled') :
                    /\ InSight(filled[i].shown.thing)'
                    /\ i + stop_confirm_cnt' + (IF looking' THEN 1 ELSE 0) > buffer_count_' + 1 =>
                         AtRest(filled[i])'
               /\ looking' => /\ ShowsNow(examined)' /\ InSight(Shown)'
                              /\ stop_confirm_cnt' > buffer_count_' => AtRest(examined)'
    <2>1. /\ motor = Brake /\ AllNow /\ InSight(target)
          /\ \A i \in 1..Len(filled) :
               /\ InSight(filled[i].shown.thing)
               /\ i + stop_confirm_cnt + 0 > buffer_count_ + 1 => AtRest(filled[i])
      BY <1>1, <1>2, <1>6 DEF ConfirmInv, Confirming
    <2>2. ASSUME NEW i \in 1..Len(filled')
          PROVE  /\ ShowsNow(filled[i])' /\ InSight(filled[i].shown.thing)'
                 /\ i + stop_confirm_cnt' + 1 > buffer_count_' + 1 => AtRest(filled[i])'
      <3>1. i + 1 \in 1..Len(filled) /\ filled'[i].shown = filled[i + 1].shown /\ i \in Nat
        BY <1>3
      <3>2. i + stop_confirm_cnt + 1 = (i + 1) + stop_confirm_cnt + 0
        BY <1>5, <3>1
      <3> QED  BY <1>2, <2>1, <3>1, <3>2 DEF AllNow, ShowsNow, InSight, AtRest
    <2>3. ShowsNow(examined)' /\ InSight(Shown)'
          /\ (stop_confirm_cnt' > buffer_count_' => AtRest(examined)')
      <3>1. stop_confirm_cnt > buffer_count_ => 1 + stop_confirm_cnt + 0 > buffer_count_ + 1
        BY <1>5
      <3> QED  BY <1>2, <1>3, <1>4, <2>1, <3>1 DEF AllNow, ShowsNow, InSight, AtRest
    <2> QED  BY <1>2, <2>1, <2>2, <2>3 DEF AllNow, InSight
  <1> QED  BY <1>2, <1>6 DEF ConfirmInv, Grabs

LEMMA Counts ==
  ASSUME BaseInv
  PROVE  stop_confirm_cnt \in Nat /\ buffer_count_ \in Nat /\ Len(filled) \in Nat
PROOF
  <1>1. buffer_count_ \in Nat
    BY PicturesPlaced DEF BaseInv, RobotInv
  <1>2. stop_confirm_cnt \in Nat
    BY GameAssumption DEF BaseInv, RobotInv, IInv, TypeOK
  <1>3. Len(filled) \in Nat
    BY LenProperties DEF BaseInv, RobotInv, QueueInv, QueueTypeOK, IsPictures
  <1> QED  BY <1>1, <1>2, <1>3

(* The first confirmation: by then the wheels may still roll, but the ball *)
(* has not left the picture and will not.                                  *)
LEMMA FirstConfirm ==
  ASSUME RoomSuffices, BaseInv, KeepInv, faults = 0, Few, ~held, looking, busy = 0,
         ShowsNow(examined), OnTarget(Shown.offset), InReach(Shown), Abs(Shown.offset) <= half_w
  PROVE  /\ AllNow /\ InSight(target)
         /\ \A i \in 1..Len(filled) : InSight(filled[i].shown.thing)
PROOF
  <1>1. AllNow
    BY DEF BaseInv, OrderInv
  <1>2. Follows(Swing, Shown, target, filled, LapsInQueue, 1) /\ LapsInQueue \in Nat
    BY LookedAt
  <1>3. Keep(Shown, target, filled, 1) /\ Shown.area < AREA_REVERSE
    BY DEF KeepInv, InReach
  <1>4. Abs(g_stop_center_offset) + STOP_CENTER_ZONE + Swing * LapsInQueue <= half_w
    BY Room
  <1>5. /\ Swing * LapsInQueue \in Int /\ g_stop_center_offset \in Int /\ half_w \in Int
        /\ Shown.offset \in Int
    BY <1>2, QueueTypes, SteeringAssumption, PicturesPlaced DEF BaseInv, Placed
  <1>6. ASSUME NEW q, Placed(q), Near(Swing, Shown, q, LapsInQueue), q.area < AREA_REVERSE
        PROVE  InSight(q)
    <2>1. Abs(q.offset - Shown.offset) <= Swing * LapsInQueue /\ q.offset \in Int
      BY <1>6 DEF Near, Placed
    <2>2. Abs(Shown.offset - g_stop_center_offset) <= 20
      BY DEF OnTarget, stop_off, STOP_CENTER_ZONE
    <2> DEFINE d == Swing * LapsInQueue
    <2>3. d \in Int /\ Abs(q.offset - Shown.offset) <= d
          /\ Abs(g_stop_center_offset) + 20 + d <= half_w
      BY <1>4, <1>5, <2>1 DEF STOP_CENTER_ZONE
    <2> HIDE DEF d
    <2>4. Abs(q.offset) <= half_w
      BY <1>5, <2>1, <2>2, <2>3 DEF Abs
    <2> QED  BY <1>6, <2>4 DEF InSight
  <1>7. InSight(target)
    BY <1>2, <1>3, <1>6, QueueTypes DEF Follows, Keep
  <1>8. ASSUME NEW i \in 1..Len(filled) PROVE InSight(filled[i].shown.thing)
    BY <1>2, <1>3, <1>6, PicturesPlaced DEF BaseInv, Follows, Keep
  <1> QED  BY <1>1, <1>7, <1>8

LEMMA ConfirmAct ==
  ASSUME RoomSuffices, BaseInv, BaseInv', FlowInv, KeepInv, ConfirmInv, Acts, faults' = 0, Few'
  PROVE  ConfirmInv'
PROOF
  <1>1. /\ UNCHANGED <<filled, target, held, examined, buffer_count_>> /\ Shown' = Shown
        /\ busy = 0 /\ looking' = FALSE
    BY ActFrame DEF BaseInv, Shown
  <1>2. faults = 0 /\ Few /\ ~TimedOut /\ ~Fault
    BY <1>1, FlowAct, Faultless DEF FlowInv, RobotNext, Program, Acts, Few
  <1>3. /\ (AllNow' <=> AllNow) /\ (InSight(target)' <=> InSight(target))
        /\ (AtRest(examined)' <=> AtRest(examined)) /\ (ShowsNow(examined)' <=> ShowsNow(examined))
        /\ \A i : /\ InSight(filled[i].shown.thing)' <=> InSight(filled[i].shown.thing)
                  /\ AtRest(filled[i])' <=> AtRest(filled[i])
    BY <1>1 DEF AllNow, ShowsNow, InSight, AtRest
  <1>4. /\ stop_confirm_cnt \in Nat /\ buffer_count_ \in Nat /\ Len(filled) \in Nat
        /\ Len(filled) <= buffer_count_
    <2>1. stop_confirm_cnt \in Nat /\ buffer_count_ \in Nat /\ Len(filled) \in Nat
      BY Counts
    <2>3. empty \in Nat /\ empty + Len(filled) = buffer_count_
      BY <1>2 DEF FlowInv
    <2> QED  BY <2>1, <2>3
  <1>5. Confirming /\ looking => Sees("ball") /\ Shown.area < AREA_REVERSE
    <2> SUFFICES ASSUME Confirming, looking PROVE Sees("ball") /\ Shown.area < AREA_REVERSE
      OBVIOUS
    <2>1. ShowsNow(examined) /\ InSight(Shown)
      BY <1>2 DEF ConfirmInv
    <2>2. target.thing = "ball"
      BY ChaseEmptyHanded DEF BaseInv, Confirming
    <2> QED  BY <2>1, <2>2 DEF ShowsNow, InSight, Sees, Shown
  <1>6. CASE SeesBall
    <2>1. looking /\ Sees("ball") /\ ChaseBall(Place) /\ Place \in View
      BY <1>6, PlaceType DEF SeesBall, Deciding, BaseInv, RobotInv
    <2>2. pc = "frame" /\ game_state = "CHASE_BALL" /\ Confirmed = stop_confirm_cnt
          /\ (BackOff(Place) \/ ConfirmStop(Place) \/ Align(Place) \/ Chase(Place))
      BY <2>1, BallFrame DEF BaseInv, RobotInv
    <2>3. ~held /\ ShowsNow(examined)
      BY <2>1, <2>2, ChaseEmptyHanded DEF BaseInv, ShowsNow, Sees, Shown
    <2>4. CASE BackOff(Place)
      <3>1. ~Confirming
        <4>1. ~(Shown.area < AREA_REVERSE)
          <5>1. Place.area \in Int /\ Place.area >= AREA_REVERSE
            BY <2>1, <2>4 DEF BackOff, View
          <5> QED  BY <5>1 DEF Place, AREA_REVERSE
        <4> QED  BY <1>5, <2>1, <4>1
      <3>2. stop_confirm_cnt = 0 /\ stop_confirm_cnt' = 0 /\ pc' = "frame"
        BY <1>4, <2>2, <2>4, <3>1 DEF Confirming, BackOff
      <3> QED  BY <3>2 DEF ConfirmInv, Confirming, Grabs
    <2>5. CASE Align(Place) \/ Chase(Place)
      <3>1. stop_confirm_cnt' = 0 /\ pc' \in {"frame", "kicking"}
        BY <2>2, <2>5 DEF Align, Chase
      <3> QED  BY <3>1 DEF ConfirmInv, Confirming, Grabs
    <2>6. CASE ConfirmStop(Place)
      <3>1. /\ stop_confirm_cnt' = stop_confirm_cnt + 1 /\ motor' = Brake
            /\ pc' = IF stop_confirm_cnt' >= STOP_CONFIRM_CNT THEN "braking" ELSE "frame"
            /\ OnTarget(Shown.offset) /\ InReach(Shown) /\ Abs(Shown.offset) <= half_w
        BY <2>1, <2>2, <2>6 DEF ConfirmStop, Place, InReach, Sees
      <3>2. CASE stop_confirm_cnt = 0
        <4>1. pc' = "frame"
          <5>1. ~(stop_confirm_cnt' >= STOP_CONFIRM_CNT)
            <6>1. STOP_CONFIRM_CNT \in Nat
              BY GameAssumption
            <6> QED  BY <1>2, <1>4, <3>1, <3>2, <6>1 DEF Few
          <5>2. pc' = IF stop_confirm_cnt' >= STOP_CONFIRM_CNT THEN "braking" ELSE "frame"
            BY <3>1
          <5> QED  BY <5>1, <5>2
        <4>2. AllNow /\ InSight(target) /\ \A i \in 1..Len(filled) : InSight(filled[i].shown.thing)
          BY <1>1, <1>2, <2>1, <2>3, <3>1, FirstConfirm
        <4>3. \A i \in 1..Len(filled) : ~(i + stop_confirm_cnt' + 0 > buffer_count_ + 1)
          BY <1>4, <3>1, <3>2
        <4> QED  BY <1>1, <1>3, <3>1, <4>1, <4>2, <4>3 DEF ConfirmInv, Grabs
      <3>3. CASE stop_confirm_cnt # 0
        <4>1. Confirming
          BY <1>4, <2>2, <3>3 DEF Confirming
        <4>2. /\ AllNow /\ InSight(target)
              /\ \A i \in 1..Len(filled) :
                   /\ InSight(filled[i].shown.thing)
                   /\ i + stop_confirm_cnt + 1 > buffer_count_ + 1 => AtRest(filled[i])
              /\ stop_confirm_cnt > buffer_count_ => AtRest(examined)
          BY <1>2, <2>1, <4>1 DEF ConfirmInv
        <4>3. \A i \in 1..Len(filled) : i + stop_confirm_cnt' + 0 = i + stop_confirm_cnt + 1
          BY <1>4, <3>1
        <4>4. CASE pc' = "frame"
          BY <1>1, <1>3, <3>1, <4>2, <4>3, <4>4 DEF ConfirmInv, Grabs
        <4>5. CASE pc' = "braking"
          <5>1. stop_confirm_cnt > buffer_count_
            <6>1. STOP_CONFIRM_CNT \in Nat /\ stop_confirm_cnt + 1 >= STOP_CONFIRM_CNT
              BY <3>1, <4>5, GameAssumption
            <6> QED  BY <1>2, <1>4, <6>1 DEF Few
          <5>2. AtRest(examined)
            BY <4>2, <5>1
          <5>3. target = Shown
            BY <5>2 DEF AtRest, Shown
          <5> QED  BY <1>1, <1>3, <3>1, <4>2, <4>5, <5>2, <5>3 DEF ConfirmInv, Confirming
        <4> QED  BY <3>1, <4>4, <4>5
      <3> QED  BY <3>2, <3>3
    <2> QED  BY <2>2, <2>4, <2>5, <2>6
  <1>7. CASE SeesNoBall
    <2>1. looking /\ ~Sees("ball")
      BY <1>2, <1>7 DEF SeesNoBall, Misses, Deciding
    <2>2. stop_confirm_cnt' = stop_confirm_cnt /\ pc' = "frame" /\ pc = "frame"
          /\ game_state' = game_state
      BY <1>7 DEF SeesNoBall, Search, Scan, LoseBall, NewFrame
    <2>3. ~Confirming'
      BY <1>5, <2>1, <2>2 DEF Confirming
    <2> QED  BY <2>2, <2>3 DEF ConfirmInv, Grabs
  <1>8. CASE SeesBucket \/ SeesNoBucket \/ LetGo
    <2>1. pc' \in {"frame", "arriving", "releasing"} /\ game_state' # "CHASE_BALL"
      BY <1>8 DEF SeesBucket, SeesNoBucket, FindWait, FindConfirm, FindMiss, ApproachArrive,
         ApproachSteer, ApproachMiss, Looking, NewFrame, LetGo, Deposit
    <2> QED  BY <2>1 DEF ConfirmInv, Confirming, Grabs
  <1>9. CASE GrabSteps \/ (PulseEnds /\ Goes(0)) \/ (NextRound /\ grab_pos /\ Goes(0))
    <2>1. /\ pc' # "kicking"
          /\ Grabs' => Grabs
          /\ Confirming' => stop_confirm_cnt' = 0
      <3>1. CASE GrabSteps
        BY <3>1 DEF GrabSteps, GrabLower, GrabClose, GrabLift, Blocked, Grabs, Confirming
      <3>2. CASE BrakeDone \/ Arrived
        BY <3>2 DEF BrakeDone, Arrived, Blocked, Grabs, Confirming
      <3>3. CASE KickDone
        BY <1>2, <3>3 DEF KickDone, Blocked, Grabs, ConfirmInv
      <3>4. CASE NextRound
        BY <3>4 DEF NextRound, ForgetStop, Grabs
      <3> QED  BY <1>9, <3>1, <3>2, <3>3, <3>4 DEF PulseEnds
    <2>2. ~Confirming'
      BY <2>1 DEF Confirming
    <2>3. Grabs' /\ ~held' => /\ AtRest(examined)' /\ InSight(target)'
                              /\ OnTarget(target'.offset) /\ InReach(target')
      BY <1>1, <1>2, <1>3, <2>1 DEF ConfirmInv
    <2> QED  BY <2>1, <2>2, <2>3 DEF ConfirmInv
  <1> QED  BY <1>2, <1>6, <1>7, <1>8, <1>9 DEF Acts
LEMMA ConfirmStep ==
  ASSUME RoomSuffices, BaseInv, BaseInv', FlowInv, ForwardInv, KeepInv, ConfirmInv,
         [RobotNext]_robotVars
  PROVE  ConfirmInv'
PROOF
  <1> SUFFICES ASSUME faults' = 0, Few' PROVE ConfirmInv'
    BY DEF ConfirmInv
  <1>1. CASE Tick
    BY <1>1, ConfirmTick
  <1>2. CASE Pops
    BY <1>2, ConfirmPop
  <1>3. CASE Acts
    BY <1>3, ConfirmAct
  <1>4. CASE UNCHANGED robotVars
    BY <1>4 DEF robotVars, vars, uvcVars, outside, timing, ConfirmInv, Few, Confirming, AllNow,
       ShowsNow, InSight, AtRest, Shown, Grabs
  <1> QED  BY <1>1, <1>2, <1>3, <1>4, StepKinds

LEMMA ConfirmInit ==
  ASSUME RobotInit
  PROVE  ConfirmInv
BY DEF RobotInit, Init, ConfirmInv, Confirming, Grabs

(* LastLookAtRest for every floor with room to stop, any number of buffers *)
(* and any bound on faults: the STOP_CONFIRM_CNT pictures that confirm a   *)
(* grab outlast the queue, so the last one was taken with the wheels at    *)
(* rest (tennis.cpp:594).  SERVO_TICKS is here because an arm that lags    *)
(* would let the ball be taken, and the scene change, at another time.     *)
THEOREM RobotLastLookAtRest ==
  ASSUME SERVO_TICKS <= SleepClose, RoomSuffices
  PROVE  RobotSpec => []LastLookAtRest
PROOF
  <1> DEFINE Inv == BaseInv /\ FlowInv /\ ForwardInv /\ KeepInv /\ ConfirmInv
  <1>1. RobotInit => Inv
    BY BaseInit, FlowInit, ForwardInit, KeepInit, ConfirmInit
  <1>2. Inv /\ [RobotNext]_robotVars => Inv'
    <2> SUFFICES ASSUME Inv, [RobotNext]_robotVars PROVE Inv'
      OBVIOUS
    <2>1. BaseInv'
      BY BaseStep
    <2>2. FlowInv' /\ ForwardInv' /\ KeepInv' /\ ConfirmInv'
      BY <2>1, FlowStep, ForwardStep, KeepStep, ConfirmStep
    <2> QED  BY <2>1, <2>2
  <1>3. Inv => LastLookAtRest
    <2> SUFFICES ASSUME Inv, pc = "braking", faults = 0, Few PROVE examined.shown.still
      BY DEF LastLookAtRest, Few
    <2>1. game_state = "CHASE_BALL"
      BY DEF BaseInv, RobotInv, IInv, RoundInv, BlockingFollowsStage
    <2>2. ~held
      BY <2>1, ChaseEmptyHanded DEF BaseInv
    <2>3. AtRest(examined)
      BY <2>2 DEF ConfirmInv, Grabs
    <2> QED  BY <2>3 DEF AtRest
  <1> QED  BY <1>1, <1>2, <1>3, PTL DEF RobotSpec
-----------------------------------------------------------------------------
(* With nothing missing, more confirmations than pictures can wait, and a  *)
(* gripper no narrower than the zone the loop stops in, the ball is taken  *)
(* however slow the network is and however far the wheels turn in a tick.  *)
LEMMA AtRestInGrip ==
  ASSUME GRIP_ZONE >= STOP_CENTER_ZONE, BaseInv, ConfirmInv, faults = 0, Few,
         pc = "lifting", ~held
  PROVE  InGrip
PROOF
  <1>1. OnTarget(target.offset) /\ InReach(target)
    BY DEF ConfirmInv, Grabs
  <1>2. /\ target.area \in Int /\ target.offset \in Int /\ g_stop_center_offset \in Int
        /\ GRIP_ZONE \in Nat /\ REACH_ZONE \in Nat
    BY QueueTypes, SteeringAssumption, RobotAssumption
  <1>3. Abs(stop_off(target.offset)) <= GRIP_ZONE
    BY <1>1, <1>2 DEF OnTarget, stop_off, Abs, STOP_CENTER_ZONE
  <1>4. target.area >= AREA_STOP - REACH_ZONE /\ target.area < AREA_REVERSE + REACH_ZONE
    BY <1>1, <1>2 DEF InReach, AREA_STOP, AREA_REVERSE
  <1>5. target.thing = "ball"
    BY DEF BaseInv, HandInv
  <1> QED  BY <1>3, <1>4, <1>5 DEF InGrip

LEMMA FewStays ==
  ASSUME BaseInv, [RobotNext]_robotVars
  PROVE  buffer_count_' = buffer_count_
PROOF
  <1>1. CASE Tick
    BY <1>1 DEF Tick, Camera, Expose, uvcVars
  <1>2. CASE Pops
    BY <1>2 DEF Pops, TakeFrame, Undecodable, GetFrame
  <1>3. CASE Acts
    BY <1>3, ActFrame DEF BaseInv
  <1>4. CASE UNCHANGED robotVars
    BY <1>4 DEF robotVars, uvcVars
  <1> QED  BY <1>1, <1>2, <1>3, <1>4, StepKinds

(* CarriesBall as long as nothing went missing and more confirmations are  *)
(* asked for than pictures can wait: the last look was a look at the ball  *)
(* where it still is, and nothing moves until the gripper shuts on it      *)
(* (tennis.cpp:594, 604; arm.cpp:141).                                     *)
THEOREM RobotCarriesBallUnlessMissed ==
  ASSUME SERVO_TICKS \in 1..SleepClose, RoomSuffices, GRIP_ZONE >= STOP_CENTER_ZONE
  PROVE  RobotSpec => [](faults = 0 /\ buffer_count_ + 1 < STOP_CONFIRM_CNT => CarriesBall)
PROOF
  <1> DEFINE Rest == BaseInv /\ FlowInv /\ ForwardInv /\ KeepInv /\ ConfirmInv
             Inv  == Rest /\ (faults = 0 /\ Few => GripInv)
  <1>1. RobotInit => Inv
    BY BaseInit, FlowInit, ForwardInit, KeepInit, ConfirmInit, GripInit
  <1>2. Inv /\ [RobotNext]_robotVars => Inv'
    <2> SUFFICES ASSUME Inv, [RobotNext]_robotVars PROVE Inv'
      OBVIOUS
    <2>1. SERVO_TICKS <= SleepClose
      BY DEF SleepClose
    <2>2. BaseInv'
      BY <2>1, BaseStep
    <2>3. FlowInv' /\ ForwardInv' /\ KeepInv' /\ ConfirmInv'
      BY <2>2, FlowStep, ForwardStep, KeepStep, ConfirmStep
    <2>4. ASSUME faults' = 0, Few' PROVE GripInv'
      <3>1. faults = 0 /\ Few
        BY <2>4, Faultless, FewStays DEF FlowInv, Few
      <3>2. pc = "lifting" /\ ~held => InGrip
        BY <3>1, AtRestInGrip
      <3> QED  BY <3>1, <3>2, GripStep
    <2> QED  BY <2>2, <2>3, <2>4
  <1>3. Inv => (faults = 0 /\ buffer_count_ + 1 < STOP_CONFIRM_CNT => CarriesBall)
    BY GripHolds DEF Few
  <1> QED  BY <1>1, <1>2, <1>3, PTL DEF RobotSpec
=============================================================================

------------------------ MODULE SteeringSweep_proofs ------------------------
(***************************************************************************)
(* The wheel commands turn the robot the right way, and slow it down on    *)
(* the way to its target, for every dead zone min_speed_, every stop       *)
(* offset and every picture width.                                         *)
(*                                                                         *)
(* The argument is one about monotone functions: the dead zone map and the *)
(* PWM scale never swap two speeds (PwmMonotone), so a bias that has the   *)
(* sign of the offset (TurnBiasSide) cannot turn the robot away from it,   *)
(* and a smaller speed cannot become a larger one on the wire.             *)
(***************************************************************************)
EXTENDS SteeringSweep, TLAPS

(* The sweep stays among the inputs a frame can give. *)
SweepTypeOK == area \in 0..100 /\ offset \in Pixels

-----------------------------------------------------------------------------
(* The arithmetic of Steering *)

(* Integer division of a natural number by a positive one is natural. *)
LEMMA DivNat ==
  ASSUME NEW a \in Nat, NEW b \in Nat \ {0}
  PROVE  a \div b \in Nat
  OBVIOUS

(* What the dead zone leaves of the scale grows with the speed. *)
LEMMA ProductMonotone ==
  ASSUME NEW a \in Nat, NEW b \in Nat, NEW k \in Nat, a <= b
  PROVE  a * k \in Nat /\ a * k <= b * k
  OBVIOUS

LEMMA DivBy99Monotone ==
  ASSUME NEW a \in Nat, NEW b \in Nat, a <= b
  PROVE  a \div 99 \in Nat /\ a \div 99 <= b \div 99
  OBVIOUS

-----------------------------------------------------------------------------
(* Speeds on the wire *)

(* The part of DeadZoneMap above zero, before the sign is put back. *)
LiftedSpeed(v) == min_speed_ + ((v - 1) * (FullScale - min_speed_)) \div 99

LEMMA LiftedSpeedMonotone ==
  ASSUME NEW u \in Nat \ {0}, NEW v \in Nat \ {0}, u <= v
  PROVE  /\ LiftedSpeed(u) \in Int
         /\ min_speed_ <= LiftedSpeed(u)
         /\ LiftedSpeed(u) <= LiftedSpeed(v)
<1> DEFINE k == FullScale - min_speed_
           a == (u - 1) * k
           b == (v - 1) * k
<1>1. k \in Nat /\ u - 1 \in Nat /\ v - 1 \in Nat /\ u - 1 <= v - 1
  BY SteeringAssumption DEF FullScale
<1>2. a \in Nat /\ b \in Nat /\ a <= b
  <2> HIDE DEF k
  <2> QED BY <1>1, ProductMonotone
<1>3. a \div 99 \in Nat /\ a \div 99 <= b \div 99 /\ b \div 99 \in Nat
  <2> HIDE DEF a, b
  <2> QED BY <1>2, DivBy99Monotone
<1>4. LiftedSpeed(u) = min_speed_ + a \div 99 /\ LiftedSpeed(v) = min_speed_ + b \div 99
  BY DEF LiftedSpeed
<1>5. min_speed_ \in Int
  BY SteeringAssumption
<1> HIDE DEF a, b
<1> QED BY <1>3, <1>4, <1>5

LEMMA DeadZoneMapPositive ==
  ASSUME NEW v \in Nat \ {0}
  PROVE  DeadZoneMap(v) = IF LiftedSpeed(v) > FullScale THEN FullScale ELSE LiftedSpeed(v)
<1>1. LiftedSpeed(v) \in Int
  BY LiftedSpeedMonotone
<1>2. Abs(v) = v /\ Sign(v) = 1 /\ v # 0
  BY DEF Abs, Sign
<1>3. DeadZoneMap(v) = 1 * (IF LiftedSpeed(v) > FullScale THEN FullScale ELSE LiftedSpeed(v))
  BY <1>2 DEF DeadZoneMap, LiftedSpeed
<1> QED BY <1>1, <1>3 DEF FullScale

LEMMA DeadZoneMapNegative ==
  ASSUME NEW v \in Nat \ {0}
  PROVE  DeadZoneMap(-v) = -DeadZoneMap(v)
<1>1. LiftedSpeed(v) \in Int
  BY LiftedSpeedMonotone
<1>2. Abs(-v) = v /\ Sign(-v) = -1 /\ -v # 0
  BY DEF Abs, Sign
<1>3. DeadZoneMap(-v) = (-1) * (IF LiftedSpeed(v) > FullScale THEN FullScale ELSE LiftedSpeed(v))
  BY <1>2 DEF DeadZoneMap, LiftedSpeed
<1> QED BY <1>1, <1>3, DeadZoneMapPositive DEF FullScale

(* The dead zone map keeps every speed within the scale, moves every speed *)
(* that is not zero, is odd, and never swaps two speeds.                   *)
LEMMA DeadZoneMapFacts ==
  ASSUME NEW u \in Nat, NEW v \in Nat, u <= v
  PROVE  /\ DeadZoneMap(u) \in 0..FullScale
         /\ u > 0 => DeadZoneMap(u) > 0
         /\ DeadZoneMap(-u) = -DeadZoneMap(u)
         /\ DeadZoneMap(u) <= DeadZoneMap(v)
<1>1. CASE u <= 0
  <2>1. u = 0 /\ -u = 0
    BY <1>1
  <2>2. DeadZoneMap(0) = 0 /\ DeadZoneMap(u) = 0 /\ DeadZoneMap(-u) = 0
    BY <2>1 DEF DeadZoneMap
  <2>3. DeadZoneMap(v) >= 0
    <3> SUFFICES ASSUME v # 0
                 PROVE  DeadZoneMap(v) >= 0
      BY <2>2
    <3>1. LiftedSpeed(v) \in Int /\ min_speed_ <= LiftedSpeed(v)
      BY LiftedSpeedMonotone
    <3> QED BY <3>1, DeadZoneMapPositive, SteeringAssumption DEF FullScale
  <2> QED BY <2>1, <2>2, <2>3 DEF FullScale
<1>2. CASE u > 0
  <2>1. u \in Nat \ {0} /\ v \in Nat \ {0}
    BY <1>2
  <2>2. /\ LiftedSpeed(u) \in Int /\ LiftedSpeed(v) \in Int
        /\ min_speed_ <= LiftedSpeed(u) /\ LiftedSpeed(u) <= LiftedSpeed(v)
    BY <2>1, LiftedSpeedMonotone
  <2>3. DeadZoneMap(u) = IF LiftedSpeed(u) > 100 THEN 100 ELSE LiftedSpeed(u)
    BY <2>1, DeadZoneMapPositive DEF FullScale
  <2>4. DeadZoneMap(v) = IF LiftedSpeed(v) > 100 THEN 100 ELSE LiftedSpeed(v)
    BY <2>1, DeadZoneMapPositive DEF FullScale
  <2>5. DeadZoneMap(-u) = -DeadZoneMap(u)
    BY <2>1, DeadZoneMapNegative
  <2>6. DeadZoneMap(u) >= 1 /\ DeadZoneMap(u) <= 100 /\ DeadZoneMap(u) \in Int
    BY <2>2, <2>3, SteeringAssumption
  <2>7. DeadZoneMap(u) <= DeadZoneMap(v)
    BY <2>2, <2>3, <2>4
  <2> QED BY <2>5, <2>6, <2>7 DEF FullScale
<1> QED BY <1>1, <1>2

(* On the scale, two different speeds stay different on the wire. *)
LEMMA ToPwmFacts ==
  ASSUME NEW x \in 0..FullScale, NEW y \in 0..FullScale
  PROVE  /\ to_pwm(x) \in Nat
         /\ to_pwm(-x) = -to_pwm(x)
         /\ x <= y => to_pwm(x) <= to_pwm(y)
         /\ x < y => to_pwm(x) < to_pwm(y)
<1>1. Clamp(x, FullScale) = x /\ Clamp(-x, FullScale) = -x /\ Clamp(y, FullScale) = y
  BY DEF Clamp, FullScale
<1>2. to_pwm(x) = (x * 150) \div 100 /\ to_pwm(y) = (y * 150) \div 100
  BY <1>1 DEF to_pwm, TruncDiv, FullScale, SPEED_SCALE
<1>3. to_pwm(-x) = -((x * 150) \div 100)
  <2>1. CASE x <= 0
    BY <2>1, <1>1 DEF to_pwm, TruncDiv, FullScale, SPEED_SCALE
  <2>2. CASE x > 0
    <3>1. (-x) * 150 < 0 /\ -((-x) * 150) = x * 150
      BY <2>2
    <3> QED BY <1>1, <3>1 DEF to_pwm, TruncDiv, FullScale, SPEED_SCALE
  <2> QED BY <2>1, <2>2 DEF FullScale
<1>4. x \in Nat /\ y \in Nat
  BY DEF FullScale
<1>5. x < y => (x * 150) \div 100 < (y * 150) \div 100
  BY <1>4
<1>6. x <= y => (x * 150) \div 100 <= (y * 150) \div 100
  BY <1>4
<1> QED BY <1>2, <1>3, <1>4, <1>5, <1>6

(* The wire: a speed's PWM value.  It is zero only for speed zero, it is   *)
(* odd, and a higher speed never gets a lower value.                       *)
LEMMA PwmOfNat ==
  ASSUME NEW u \in Nat, NEW v \in Nat, u <= v
  PROVE  /\ Pwm(u) \in Nat
         /\ u > 0 => Pwm(u) > 0
         /\ Pwm(-u) = -Pwm(u)
         /\ Pwm(u) <= Pwm(v)
<1>1. /\ DeadZoneMap(u) \in 0..FullScale /\ DeadZoneMap(v) \in 0..FullScale
      /\ u > 0 => DeadZoneMap(u) > 0
      /\ DeadZoneMap(-u) = -DeadZoneMap(u)
      /\ DeadZoneMap(u) <= DeadZoneMap(v)
  BY DeadZoneMapFacts
<1>2. 0 \in 0..FullScale
  BY DEF FullScale
<1>3. to_pwm(0) = 0
  BY <1>2, ToPwmFacts
<1>4. u > 0 => Pwm(u) > 0
  BY <1>1, <1>2, <1>3, ToPwmFacts DEF Pwm
<1> QED BY <1>1, <1>4, ToPwmFacts DEF Pwm

LEMMA PwmMonotone ==
  ASSUME NEW u \in Int, NEW v \in Int, u <= v
  PROVE  Pwm(u) \in Int /\ Pwm(v) \in Int /\ Pwm(u) <= Pwm(v)
<1>1. CASE u >= 0
  BY <1>1, PwmOfNat
<1>2. CASE u < 0 /\ v >= 0
  <2>1. /\ -u \in Nat /\ v \in Nat /\ -(-u) = u
    BY <1>2
  <2>2. Pwm(-u) \in Nat /\ Pwm(u) = -Pwm(-u) /\ Pwm(v) \in Nat
    BY <2>1, PwmOfNat
  <2> QED BY <2>2
<1>3. CASE v < 0
  <2>1. /\ -u \in Nat /\ -v \in Nat /\ -v <= -u /\ -(-u) = u /\ -(-v) = v
    BY <1>3
  <2>2. /\ Pwm(-u) \in Nat /\ Pwm(u) = -Pwm(-u)
        /\ Pwm(-v) \in Nat /\ Pwm(v) = -Pwm(-v)
        /\ Pwm(-v) <= Pwm(-u)
    BY <2>1, PwmOfNat
  <2> QED BY <2>2
<1> QED BY <1>1, <1>2, <1>3

(* Two speed steps apart is enough for two wheels to differ on the wire,   *)
(* as long as the dead zone takes at most half of the scale.               *)
LEMMA PwmTwoApart ==
  ASSUME min_speed_ <= 50,
         NEW u \in Nat, NEW v \in Nat, u + 2 <= v, v <= 100
  PROVE  Pwm(u) < Pwm(v)
<1>1. CASE u <= 0
  <2>1. u = 0 /\ v > 0 /\ DeadZoneMap(0) = 0 /\ 0 \in 0..FullScale
    BY <1>1 DEF DeadZoneMap, FullScale
  <2>2. DeadZoneMap(v) \in 0..FullScale /\ DeadZoneMap(v) > 0
    BY <2>1, DeadZoneMapFacts
  <2> QED BY <2>1, <2>2, ToPwmFacts DEF Pwm
<1>2. CASE u > 0
  <2> DEFINE k == FullScale - min_speed_
             a == (u - 1) * k
             b == (v - 1) * k
  <2>1. k \in 50..99 /\ u - 1 \in Nat /\ v - 1 \in Nat /\ u - 1 + 2 <= v - 1 /\ v - 1 <= 99
    BY <1>2, SteeringAssumption DEF FullScale
  <2>2. a \in Nat /\ b \in Nat /\ a + 99 <= b /\ b <= 99 * k
    <3> HIDE DEF k
    <3>1. a \in Nat /\ (u - 1 + 2) * k \in Nat /\ (u - 1 + 2) * k <= b
      BY <2>1, ProductMonotone
    <3>2. (u - 1 + 2) * k = a + 2 * k
      BY <2>1
    <3>3. b \in Nat /\ b <= 99 * k
      BY <2>1, ProductMonotone
    <3> QED BY <2>1, <3>1, <3>2, <3>3
  <2>3. a \div 99 \in Nat /\ b \div 99 \in Nat /\ a \div 99 < b \div 99 /\ b \div 99 <= k
    <3> HIDE DEF a, b, k
    <3> QED BY <2>1, <2>2
  <2>4. LiftedSpeed(u) = min_speed_ + a \div 99 /\ LiftedSpeed(v) = min_speed_ + b \div 99
    BY DEF LiftedSpeed
  <2>5. LiftedSpeed(u) < LiftedSpeed(v) /\ LiftedSpeed(v) <= 100 /\ LiftedSpeed(u) \in Int
    <3>1. min_speed_ \in Int /\ min_speed_ + k = 100
      BY SteeringAssumption DEF FullScale
    <3> HIDE DEF a, b, k
    <3> QED BY <2>1, <2>3, <2>4, <3>1
  <2>6. u \in Nat \ {0} /\ v \in Nat \ {0} /\ LiftedSpeed(v) \in Int
    BY <1>2, LiftedSpeedMonotone
  <2>7. DeadZoneMap(u) = LiftedSpeed(u) /\ DeadZoneMap(v) = LiftedSpeed(v)
    BY <2>5, <2>6, DeadZoneMapPositive DEF FullScale
  <2>8. DeadZoneMap(u) \in 0..FullScale /\ DeadZoneMap(v) \in 0..FullScale
    BY <2>6, DeadZoneMapFacts
  <2> QED BY <2>5, <2>7, <2>8, ToPwmFacts DEF Pwm
<1> QED BY <1>1, <1>2

-----------------------------------------------------------------------------
(* The bias *)

(* The bias leans to the side the target is on, and no further than its    *)
(* bound.                                                                  *)
LEMMA TurnBiasSide ==
  ASSUME NEW x \in Int, NEW gain \in Nat, NEW max \in Nat
  PROVE  /\ TurnBias(x, gain, max) \in -max..max
         /\ x >= 0 => TurnBias(x, gain, max) >= 0
         /\ x <= 0 => TurnBias(x, gain, max) <= 0
<1> DEFINE q == TruncDiv(gain * x, half_w)
<1>1. half_w \in Nat \ {0}
  BY SteeringAssumption
<1>2. CASE x >= 0
  <2>1. gain * x \in Nat
    BY <1>2
  <2>2. q = (gain * x) \div half_w
    BY <2>1 DEF TruncDiv
  <2>3. q \in Nat
    BY <1>1, <2>1, <2>2, DivNat
  <2>4. Clamp(q, max) \in 0..max
    <3> HIDE DEF q
    <3> QED BY <2>3 DEF Clamp
  <2>5. TurnBias(x, gain, max) \in 0..max
    BY <2>4 DEF TurnBias
  <2>6. x <= 0 => TurnBias(x, gain, max) = 0
    BY <1>2 DEF TurnBias, Abs, CENTER_DEAD_ZONE
  <2> QED BY <2>5, <2>6
<1>3. CASE x < 0
  <2>1. gain * (-x) \in Nat /\ -(gain * x) = gain * (-x)
    BY <1>3
  <2>2. (gain * (-x)) \div half_w \in Nat
    BY <1>1, <2>1, DivNat
  <2>3. q \in Int /\ q <= 0
    <3>1. CASE gain * x < 0
      BY <2>1, <2>2, <3>1 DEF TruncDiv
    <3>2. CASE ~(gain * x < 0)
      <4>1. gain * x <= 0 /\ gain * x >= 0 /\ gain * x \in Int
        BY <1>3, <2>1, <3>2
      <4>2. gain * x = 0 /\ gain * (-x) = 0
        BY <2>1, <4>1
      <4>3. q = 0 \div half_w
        BY <3>2, <4>2 DEF TruncDiv
      <4> QED BY <1>1, <4>3
    <3> QED BY <3>1, <3>2
  <2>4. Clamp(q, max) \in -max..0
    <3> HIDE DEF q
    <3> QED BY <2>3 DEF Clamp
  <2>5. TurnBias(x, gain, max) \in -max..0
    BY <2>4 DEF TurnBias
  <2> QED BY <1>3, <2>5
<1> QED BY <1>2, <1>3

-----------------------------------------------------------------------------
(* What a branch sends to the wheels *)

LEMMA DriveTurn ==
  ASSUME NEW l \in Int, NEW r \in Int
  PROVE  /\ l <= r => Turn(Drive(l, r)) \in {0, -1}
         /\ l >= r => Turn(Drive(l, r)) \in {0, 1}
         /\ Pwm(l) # Pwm(r) => Turn(Drive(l, r)) # 0
<1>1. Pwm(l) \in Int /\ Pwm(r) \in Int
  BY PwmMonotone
<1>2. l <= r => Pwm(l) <= Pwm(r)
  BY PwmMonotone
<1>3. l >= r => Pwm(l) >= Pwm(r)
  BY PwmMonotone
<1>4. Drive(l, r).left = Pwm(l) /\ Drive(l, r).right = Pwm(r)
  BY DEF Drive
<1> QED BY <1>1, <1>2, <1>3, <1>4 DEF Turn, Sign

LEMMA TurnsToSide ==
  ASSUME NEW cmd, NEW error \in Int,
         error >= 0 => Turn(cmd) \in {0, 1},
         error <= 0 => Turn(cmd) \in {0, -1}
  PROVE  TurnsNotAway(cmd, error)
<1>1. CASE error > 0
  BY <1>1 DEF TurnsNotAway, Sign
<1>2. CASE error < 0
  <2>1. Sign(error) = -1
    BY <1>2 DEF Sign
  <2> QED BY <1>2, <2>1 DEF TurnsNotAway
<1>3. CASE error = 0
  <2>1. Turn(cmd) = 0
    BY <1>3
  <2> QED BY <2>1 DEF TurnsNotAway
<1> QED BY <1>1, <1>2, <1>3

(* Adding the bias to one wheel and taking it from the other turns the     *)
(* robot to the bias's side or not at all.                                 *)
LEMMA DifferentialTurnsNotAway ==
  ASSUME NEW spd \in Int, NEW bias \in Int, NEW error \in Int,
         error >= 0 => bias >= 0, error <= 0 => bias <= 0
  PROVE  TurnsNotAway(Differential(spd, bias), error)
<1> DEFINE l == Clamp(spd + bias, FullScale)
           r == Clamp(spd - bias, FullScale)
<1>1. /\ l \in Int /\ r \in Int
      /\ bias >= 0 => l >= r
      /\ bias <= 0 => l <= r
  BY DEF Clamp, FullScale
<1>2. Differential(spd, bias) = Drive(l, r)
  BY DEF Differential
<1>3. /\ error >= 0 => Turn(Drive(l, r)) \in {0, 1}
      /\ error <= 0 => Turn(Drive(l, r)) \in {0, -1}
  <2> HIDE DEF l, r
  <2> QED BY <1>1, DriveTurn
<1> HIDE DEF l, r
<1> QED BY <1>2, <1>3, TurnsToSide

(* A pivot turns the robot to the side its speed points to. *)
LEMMA PivotTurns ==
  ASSUME NEW v \in Nat, v > 0
  PROVE  Turn(Pivot(v)) = 1 /\ Turn(Pivot(-v)) = -1
<1>1. Pwm(v) \in Nat /\ Pwm(v) > 0 /\ Pwm(-v) = -Pwm(v)
  BY PwmOfNat
<1>2. -(-v) = v
  OBVIOUS
<1>3. Pivot(v) = Drive(v, -v) /\ Pivot(-v) = Drive(-v, v)
  BY <1>2 DEF Pivot
<1> QED BY <1>1, <1>3 DEF Turn, Drive, Sign

LEMMA SweepTypeCorrect == SweepSpec => []SweepTypeOK
<1>1. SweepInit => SweepTypeOK
  BY SteeringAssumption DEF SweepInit, SweepTypeOK, Pixels
<1>2. SweepTypeOK /\ [SweepNext]_sweep => SweepTypeOK'
  BY SteeringAssumption DEF SweepTypeOK, SweepNext, Nearer, Sideways, sweep, Pixels
<1> QED BY <1>1, <1>2, PTL DEF SweepSpec

-----------------------------------------------------------------------------
(* No branch of the main loop turns the robot away from what it is after,  *)
(* after every rounding on the way to the wire.                            *)
LEMMA NeverTurnsAwayHolds ==
  ASSUME SweepTypeOK
  PROVE  NeverTurnsAway
<1>1. offset \in Int /\ area \in Int /\ g_stop_center_offset \in Int
  BY SteeringAssumption DEF SweepTypeOK, Pixels
<1>2. /\ base_speed(area) \in Int
      /\ area < AREA_STOP => ~(area >= AREA_NEAR)
  BY <1>1 DEF base_speed, AREA_BRAKE, AREA_FAR, BRAKE_SPEED, CHASE_SPEED_FAR,
              AREA_STOP, AREA_NEAR
<1>3. ASSUME area < AREA_STOP
      PROVE  TurnsNotAway(ChaseDrive(area, offset), offset)
  <2> DEFINE bias == TurnBias(offset, K_TURN, MAX_TURN_BIAS_FAR)
  <2>1. /\ bias \in Int
        /\ offset >= 0 => bias >= 0
        /\ offset <= 0 => bias <= 0
    BY <1>1, TurnBiasSide DEF K_TURN, MAX_TURN_BIAS_FAR
  <2>2. ChaseDrive(area, offset) = Differential(base_speed(area), bias)
    BY <1>2, <1>3 DEF ChaseDrive
  <2> HIDE DEF bias
  <2> QED BY <1>1, <1>2, <2>1, <2>2, DifferentialTurnsNotAway
<1>4. TurnsNotAway(BucketDrive(area, offset), offset)
  <2> DEFINE bias == TurnBias(offset, BUCKET_K_TURN, BUCKET_MAX_BIAS)
             spd  == IF area >= BUCKET_AREA_BRAKE THEN BUCKET_BRAKE_SPD
                                                  ELSE BUCKET_APPROACH_SPD
  <2>1. /\ bias \in Int
        /\ offset >= 0 => bias >= 0
        /\ offset <= 0 => bias <= 0
    BY <1>1, TurnBiasSide DEF BUCKET_K_TURN, BUCKET_MAX_BIAS
  <2>2. spd \in Int
    BY DEF BUCKET_BRAKE_SPD, BUCKET_APPROACH_SPD
  <2>3. BucketDrive(area, offset) = Differential(spd, bias)
    BY DEF BucketDrive
  <2> HIDE DEF bias, spd
  <2> QED BY <1>1, <2>1, <2>2, <2>3, DifferentialTurnsNotAway
<1>5. TurnsNotAway(ReverseDrive(offset), offset)
  <2> DEFINE lean == IF Abs(offset) > CENTER_DEAD_ZONE THEN Sign(offset) ELSE 0
             l    == -REVERSE_SPEED + lean
             r    == -REVERSE_SPEED - lean
  <2>1. /\ l \in Int /\ r \in Int
        /\ offset >= 0 => l >= r
        /\ offset <= 0 => l <= r
    BY <1>1 DEF Sign, REVERSE_SPEED
  <2>2. ReverseDrive(offset) = Drive(l, r)
    BY DEF ReverseDrive
  <2> HIDE DEF l, r
  <2>3. /\ offset >= 0 => Turn(Drive(l, r)) \in {0, 1}
        /\ offset <= 0 => Turn(Drive(l, r)) \in {0, -1}
    BY <2>1, DriveTurn
  <2> QED BY <1>1, <2>2, <2>3, TurnsToSide
<1>6. ASSUME ~OnTarget(offset)
      PROVE  /\ Turn(AlignDrive(offset)) = Sign(stop_off(offset))
             /\ Turn(KickDrive(offset)) = Sign(stop_off(offset))
  <2>1. stop_off(offset) \in Int /\ stop_off(offset) # 0
    BY <1>1, <1>6 DEF OnTarget, stop_off, Abs, STOP_CENTER_ZONE
  <2>2. /\ Turn(Pivot(2)) = 1 /\ Turn(Pivot(-2)) = -1
        /\ Turn(Pivot(3)) = 1 /\ Turn(Pivot(-3)) = -1
    BY PivotTurns
  <2>3. CASE stop_off(offset) > 0
    <3>1. Towards(stop_off(offset)) = 1 /\ Sign(stop_off(offset)) = 1
      BY <2>3 DEF Towards, Sign
    <3>2. 1 * ALIGN_PIVOT_SPD = 2 /\ 1 * ALIGN_KICK_SPD = 3
      BY DEF ALIGN_PIVOT_SPD, ALIGN_KICK_SPD
    <3> QED BY <2>2, <3>1, <3>2 DEF AlignDrive, KickDrive
  <2>4. CASE stop_off(offset) < 0
    <3>1. Towards(stop_off(offset)) = -1 /\ Sign(stop_off(offset)) = -1
      BY <2>1, <2>4 DEF Towards, Sign
    <3>2. (-1) * ALIGN_PIVOT_SPD = -2 /\ (-1) * ALIGN_KICK_SPD = -3
      BY DEF ALIGN_PIVOT_SPD, ALIGN_KICK_SPD
    <3> QED BY <2>2, <3>1, <3>2 DEF AlignDrive, KickDrive
  <2> QED BY <2>1, <2>3, <2>4
<1>7. ASSUME offset # 0
      PROVE  Turn(SearchDrive(offset)) = Sign(offset)
  <2>1. Turn(Pivot(3)) = 1 /\ Turn(Pivot(-3)) = -1
    BY PivotTurns
  <2>2. SEARCH_PIVOT_SPD = 3 /\ -SEARCH_PIVOT_SPD = -3
    BY DEF SEARCH_PIVOT_SPD
  <2>3. CASE offset > 0
    BY <1>1, <2>1, <2>2, <2>3 DEF SearchDrive, Sign
  <2>4. CASE offset < 0
    <3>1. ~(offset >= 0) /\ Sign(offset) = -1
      BY <1>1, <2>4 DEF Sign
    <3> QED BY <2>1, <2>2, <3>1 DEF SearchDrive
  <2> QED BY <1>1, <1>7, <2>3, <2>4
<1> QED BY <1>3, <1>4, <1>5, <1>6, <1>7 DEF NeverTurnsAway

(* Whatever the dead zone, the stop offset and the width of the picture,   *)
(* no branch's command turns the robot away from what it is after.         *)
THEOREM SteeringTurnsTheRightWay == SweepSpec => []NeverTurnsAway
BY SweepTypeCorrect, NeverTurnsAwayHolds, PTL

-----------------------------------------------------------------------------
(* The wheels of a robot that is told to turn get different PWM values, if *)
(* the dead zone takes at most half of the scale.  The code sets 15; with  *)
(* min_speed_ = 51 the speeds 3 and 1 would be the same on the wire.       *)

LEMMA WheelsDiffer ==
  ASSUME min_speed_ <= 50,
         NEW spd \in 2..4, NEW bias \in -3..3, bias # 0
  PROVE  Turn(Differential(spd, bias)) # 0
<1>1. /\ Clamp(spd + bias, FullScale) = spd + bias
      /\ Clamp(spd - bias, FullScale) = spd - bias
  BY DEF Clamp, FullScale
<1>2. Differential(spd, bias) = Drive(spd + bias, spd - bias)
  BY <1>1 DEF Differential
<1>3. \A u, v \in -1..7 : u + 2 <= v => Pwm(u) # Pwm(v)
  <2> SUFFICES ASSUME NEW u \in -1..7, NEW v \in -1..7, u + 2 <= v
               PROVE  Pwm(u) # Pwm(v)
    OBVIOUS
  <2>1. CASE u >= 0
    <3>1. u \in Nat /\ v \in Nat /\ v <= 100
      BY <2>1
    <3>2. Pwm(u) < Pwm(v) /\ Pwm(u) \in Nat /\ Pwm(v) \in Nat
      BY <3>1, PwmTwoApart, PwmOfNat
    <3> QED BY <3>2
  <2>2. CASE u < 0
    <3>1. u = -1 /\ v \in Nat
      BY <2>2
    <3>2. Pwm(1) \in Nat /\ Pwm(1) > 0 /\ Pwm(-1) = -Pwm(1) /\ Pwm(v) \in Nat
      BY <3>1, PwmOfNat
    <3> QED BY <3>1, <3>2
  <2> QED BY <2>1, <2>2
<1>4. Pwm(spd + bias) # Pwm(spd - bias)
  <2>1. spd + bias \in -1..7 /\ spd - bias \in -1..7
    OBVIOUS
  <2>2. CASE bias > 0
    <3>1. spd - bias + 2 <= spd + bias
      BY <2>2
    <3> QED BY <1>3, <2>1, <3>1
  <2>3. CASE bias < 0
    <3>1. spd + bias + 2 <= spd - bias
      BY <2>3
    <3> QED BY <1>3, <2>1, <3>1
  <2> QED BY <2>2, <2>3
<1>5. spd + bias \in Int /\ spd - bias \in Int
  OBVIOUS
<1> QED BY <1>2, <1>4, <1>5, DriveTurn

(* Nearer than 20 percent the base speed is 3, farther away 3 or 4, never  *)
(* rising with the area.                                                   *)
LEMMA BaseSpeedFalls ==
  ASSUME NEW a \in 0..100
  PROVE  /\ base_speed(a) \in 3..4
         /\ base_speed(a + 1) \in 3..4
         /\ base_speed(a + 1) <= base_speed(a)
  BY DEF base_speed, AREA_BRAKE, AREA_FAR, BRAKE_SPEED, CHASE_SPEED_FAR

LEMMA BiasReachesWheelsHolds ==
  ASSUME min_speed_ <= 50, SweepTypeOK
  PROVE  BiasReachesWheels
<1>1. offset \in Int /\ area \in 0..100
  BY SteeringAssumption DEF SweepTypeOK, Pixels
<1>2. ASSUME area < AREA_STOP, TurnBias(offset, K_TURN, MAX_TURN_BIAS_FAR) # 0
      PROVE  Turn(ChaseDrive(area, offset)) # 0
  <2> DEFINE bias == TurnBias(offset, K_TURN, MAX_TURN_BIAS_FAR)
  <2>1. bias \in -3..3
    BY <1>1, TurnBiasSide DEF K_TURN, MAX_TURN_BIAS_FAR
  <2>2. base_speed(area) \in 2..4
    BY <1>1, BaseSpeedFalls
  <2>3. ChaseDrive(area, offset) = Differential(base_speed(area), bias)
    BY <1>1, <1>2 DEF ChaseDrive, AREA_STOP, AREA_NEAR
  <2>4. bias # 0
    BY <1>2
  <2> HIDE DEF bias
  <2> QED BY <2>1, <2>2, <2>3, <2>4, WheelsDiffer
<1>3. ASSUME TurnBias(offset, BUCKET_K_TURN, BUCKET_MAX_BIAS) # 0
      PROVE  Turn(BucketDrive(area, offset)) # 0
  <2> DEFINE bias == TurnBias(offset, BUCKET_K_TURN, BUCKET_MAX_BIAS)
             spd  == IF area >= BUCKET_AREA_BRAKE THEN BUCKET_BRAKE_SPD
                                                  ELSE BUCKET_APPROACH_SPD
  <2>1. bias \in -3..3
    BY <1>1, TurnBiasSide DEF BUCKET_K_TURN, BUCKET_MAX_BIAS
  <2>2. spd \in 2..4
    BY DEF BUCKET_BRAKE_SPD, BUCKET_APPROACH_SPD
  <2>3. BucketDrive(area, offset) = Differential(spd, bias)
    BY DEF BucketDrive
  <2>4. bias # 0
    BY <1>3
  <2> HIDE DEF bias, spd
  <2> QED BY <2>1, <2>2, <2>3, <2>4, WheelsDiffer
<1> QED BY <1>2, <1>3 DEF BiasReachesWheels

(* A bias is never lost on the wire while the dead zone is at most half of *)
(* the scale; at 51 speeds 1 and 3 come out the same.  The code sets 15.   *)
THEOREM SteeringBiasArrives ==
  ASSUME min_speed_ <= 50
  PROVE  SweepSpec => []BiasReachesWheels
<1>1. SweepTypeOK => BiasReachesWheels
  BY BiasReachesWheelsHolds
<1> QED BY <1>1, SweepTypeCorrect, PTL

-----------------------------------------------------------------------------
(* Coming nearer never makes the robot drive forward faster. *)

LEMMA SlowerOnTheWire ==
  ASSUME NEW s \in Int, NEW t \in Int, s <= t, NEW bias \in Int
  PROVE  Forward(Differential(s, bias)) <= Forward(Differential(t, bias))
<1> DEFINE sl == Clamp(s + bias, FullScale)
           sr == Clamp(s - bias, FullScale)
           tl == Clamp(t + bias, FullScale)
           tr == Clamp(t - bias, FullScale)
<1>1. /\ sl \in Int /\ sr \in Int /\ tl \in Int /\ tr \in Int
      /\ sl <= tl /\ sr <= tr
  BY DEF Clamp, FullScale
<1>2. /\ Forward(Differential(s, bias)) = Pwm(sl) + Pwm(sr)
      /\ Forward(Differential(t, bias)) = Pwm(tl) + Pwm(tr)
  BY DEF Forward, Differential, Drive
<1> HIDE DEF sl, sr, tl, tr
<1>3. /\ Pwm(sl) \in Int /\ Pwm(tl) \in Int /\ Pwm(sl) <= Pwm(tl)
      /\ Pwm(sr) \in Int /\ Pwm(tr) \in Int /\ Pwm(sr) <= Pwm(tr)
  BY <1>1, PwmMonotone
<1> QED BY <1>2, <1>3

LEMMA NearerStepIsSlower ==
  ASSUME SweepTypeOK, Nearer
  PROVE  /\ area' < AREA_STOP =>
              Forward(ChaseDrive(area', offset)) <= Forward(ChaseDrive(area, offset))
         /\ Forward(BucketDrive(area', offset)) <= Forward(BucketDrive(area, offset))
<1>1. offset \in Int /\ area \in 0..100 /\ area' = area + 1
  BY SteeringAssumption DEF SweepTypeOK, Pixels, Nearer
<1>2. ASSUME area' < AREA_STOP
      PROVE  Forward(ChaseDrive(area', offset)) <= Forward(ChaseDrive(area, offset))
  <2> DEFINE bias == TurnBias(offset, K_TURN, MAX_TURN_BIAS_FAR)
  <2>1. bias \in Int
    BY <1>1, TurnBiasSide DEF K_TURN, MAX_TURN_BIAS_FAR
  <2>2. /\ base_speed(area) \in Int /\ base_speed(area') \in Int
        /\ base_speed(area') <= base_speed(area)
    BY <1>1, BaseSpeedFalls
  <2>3. /\ ChaseDrive(area, offset) = Differential(base_speed(area), bias)
        /\ ChaseDrive(area', offset) = Differential(base_speed(area'), bias)
    BY <1>1, <1>2 DEF ChaseDrive, AREA_STOP, AREA_NEAR
  <2> HIDE DEF bias
  <2> QED BY <2>1, <2>2, <2>3, SlowerOnTheWire
<1>3. Forward(BucketDrive(area', offset)) <= Forward(BucketDrive(area, offset))
  <2> DEFINE bias   == TurnBias(offset, BUCKET_K_TURN, BUCKET_MAX_BIAS)
             spd(a) == IF a >= BUCKET_AREA_BRAKE THEN BUCKET_BRAKE_SPD
                                                 ELSE BUCKET_APPROACH_SPD
  <2>1. bias \in Int
    BY <1>1, TurnBiasSide DEF BUCKET_K_TURN, BUCKET_MAX_BIAS
  <2>2. spd(area) \in Int /\ spd(area') \in Int /\ spd(area') <= spd(area)
    BY <1>1 DEF BUCKET_AREA_BRAKE, BUCKET_BRAKE_SPD, BUCKET_APPROACH_SPD
  <2>3. /\ BucketDrive(area, offset) = Differential(spd(area), bias)
        /\ BucketDrive(area', offset) = Differential(spd(area'), bias)
    BY DEF BucketDrive
  <2> HIDE DEF bias, spd
  <2> QED BY <2>1, <2>2, <2>3, SlowerOnTheWire
<1> QED BY <1>2, <1>3

(* No step nearer to the ball or to the bucket makes the robot faster.     *)
THEOREM SteeringSlowsDown == SweepSpec => NearerIsSlower
<1>1. SweepTypeOK /\ [SweepNext]_sweep =>
        [Nearer =>
           /\ area' < AREA_STOP =>
                Forward(ChaseDrive(area', offset)) <= Forward(ChaseDrive(area, offset))
           /\ Forward(BucketDrive(area', offset)) <= Forward(BucketDrive(area, offset))]_sweep
  BY NearerStepIsSlower
<1> QED BY <1>1, SweepTypeCorrect, PTL DEF SweepSpec, NearerIsSlower
=============================================================================

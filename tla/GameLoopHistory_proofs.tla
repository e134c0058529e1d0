----------------------- MODULE GameLoopHistory_proofs -----------------------
(***************************************************************************)
(* That the loop's counters say what the camera has shown, for every value *)
(* of the thresholds: nobody resets too few of them, or too late.          *)
(***************************************************************************)
EXTENDS GameLoopHistory, GameLoop_proofs, SequenceTheorems

(* The two counters are never ahead of the frames they stand for.          *)
RoundCounted ==
  /\ roundTargets \in 0..STOP_CONFIRM_CNT
  /\ stop_confirm_cnt <= roundTargets
  /\ pc = "braking" => stop_confirm_cnt >= STOP_CONFIRM_CNT
BucketCounted ==
  /\ bucketRun \in 0..BUCKET_CONFIRM_CNT
  /\ game_state = "FIND_BUCKET" => bucket_confirm <= bucketRun

(* Where the ring buffer has the k-th of the offsets that count.           *)
Slot(cnt, head, k) ==
  IF cnt < STALL_BUF \/ head + k - 1 < STALL_BUF
  THEN (IF cnt < STALL_BUF THEN k - 1 ELSE head + k - 1)
  ELSE head + k - 1 - STALL_BUF

(* The part of it that the stall test scans holds the trail.               *)
RingHoldsTrail ==
  /\ trail \in Seq(Int) /\ Len(trail) = align_cnt
  /\ align_cnt < STALL_BUF => align_off_head = align_cnt
  /\ \A k \in 1..align_cnt : trail[k] = align_off_buf[Slot(align_cnt, align_off_head, k)]

HistInv == RoundCounted /\ BucketCounted /\ RingHoldsTrail /\ KickHasEvidence

USE GameAssumption DEF IInv

-----------------------------------------------------------------------------
LEMMA CappedRange ==
  ASSUME NEW top \in Nat, NEW n \in 0..top
  PROVE  Capped(n, top) \in 0..top /\ Capped(n, top) >= n /\ (n < top => Capped(n, top) = n + 1)
BY DEF Capped

LEMMA HistInit == HInit => HistInv
<1> SUFFICES ASSUME HInit PROVE HistInv
  OBVIOUS
<1>1. <<>> \in Seq(Int) /\ Len(<<>>) = 0
  BY EmptySeq
<1>2. RoundCounted /\ BucketCounted
  BY DEF HInit, Init, RoundCounted, BucketCounted
<1>3. RingHoldsTrail
  BY <1>1 DEF HInit, Init, RingHoldsTrail
<1>4. KickHasEvidence
  BY DEF HInit, Init, KickHasEvidence
<1> QED BY <1>2, <1>3, <1>4 DEF HistInv

(* A step that is not a frame with a ball: the counters of a chase stay,   *)
(* or are forgotten where the history forgets, too.                        *)
LEMMA NoBallStep ==
  ASSUME IInv, Next, \A v \in BallViews : ~ChaseBall(v)
  PROVE  /\ ~BallShown
         /\ pc' # "braking" /\ pc' # "kicking"
         /\ \/ /\ pc \notin {"kicking", "releasing"}
               /\ UNCHANGED <<stop_confirm_cnt, align_cnt, align_off_buf, align_off_head>>
            \/ /\ pc = "kicking" /\ UNCHANGED stop_confirm_cnt
               /\ align_cnt' = 0 /\ align_off_head' = 0
            \/ /\ pc = "releasing" /\ stop_confirm_cnt' = 0
               /\ align_cnt' = 0 /\ align_off_head' = 0
<1> USE DEF BallShown, Captured, alignVars, Nothing, NoPicture, Unexamined, Empty, Seen
<1>1. CASE NoFrame \/ Search \/ Scan \/ Deposit
  BY <1>1 DEF NoFrame, Search, Scan, LoseBall, Deposit, NewFrame
<1>2. CASE Grab \/ Arrived
  BY <1>2 DEF Grab, BrakeDone, GrabLower, GrabClose, GrabLift, Blocked, Arrived
<1>3. CASE KickDone \/ NextRound
  BY <1>3 DEF KickDone, Blocked, NextRound, ResetAlign, ForgetStop
<1>4. CASE FindBucket
  BY <1>4 DEF FindBucket, FindMiss, FindWait, FindConfirm, Looking, NewFrame
<1>5. CASE ApproachBucket
  BY <1>5 DEF ApproachBucket, ApproachMiss, ApproachArrive, ApproachSteer, Looking, NewFrame
<1> QED BY <1>1, <1>2, <1>3, <1>4, <1>5 DEF Next

-----------------------------------------------------------------------------
(* The confirmations of a stop.                                            *)
LEMMA RoundStep == ASSUME IInv, HistInv, HNext PROVE RoundCounted'
<1>1. /\ roundTargets \in 0..STOP_CONFIRM_CNT /\ stop_confirm_cnt <= roundTargets
      /\ stop_confirm_cnt \in 0..STOP_CONFIRM_CNT
  BY DEF HistInv, RoundCounted, TypeOK
<1>2. Next /\ Observe
  BY DEF HNext
<1>3. ASSUME NEW v \in BallViews, ChaseBall(v) PROVE RoundCounted'
  <2>1. /\ Confirmed = stop_confirm_cnt /\ stop_confirm_cnt < STOP_CONFIRM_CNT
        /\ pc = "frame" /\ (BackOff(v) \/ ConfirmStop(v) \/ Align(v) \/ Chase(v))
    <3>1. /\ Confirmed = stop_confirm_cnt /\ stop_confirm_cnt \in 0..STOP_CONFIRM_CNT - 1
          /\ pc = "frame" /\ (BackOff(v) \/ ConfirmStop(v) \/ Align(v) \/ Chase(v))
      BY <1>3, BallFrame
    <3>2. stop_confirm_cnt < STOP_CONFIRM_CNT
      BY <3>1
    <3> QED BY <3>1, <3>2
  <2>2. BallShown /\ view' = Seen("ball", v)
    BY <1>3, <2>1 DEF ChaseBall, SeeBall, NewFrame, BallShown, Captured, Seen
  <2>3. roundTargets' \in {roundTargets, Capped(roundTargets, STOP_CONFIRM_CNT)}
    BY <1>2, <2>1 DEF Observe
  <2>4. roundTargets' \in 0..STOP_CONFIRM_CNT /\ roundTargets' >= roundTargets
    BY <1>1, <2>3, CappedRange
  <2>5. CASE ConfirmStop(v)
    <3>1. TargetShown
      BY <2>2, <2>5 DEF ConfirmStop, TargetShown, InReach, Seen
    <3>2. roundTargets' = Capped(roundTargets, STOP_CONFIRM_CNT)
      BY <1>2, <3>1 DEF Observe
    <3>3. stop_confirm_cnt' = stop_confirm_cnt + 1
      BY <2>1, <2>5 DEF ConfirmStop
    <3>4. stop_confirm_cnt' <= roundTargets'
      BY <1>1, <2>1, <3>2, <3>3 DEF Capped
    <3>5. pc' = "braking" => stop_confirm_cnt' >= STOP_CONFIRM_CNT
      BY <2>1, <2>5 DEF ConfirmStop
    <3> QED BY <2>4, <3>4, <3>5 DEF RoundCounted
  <2>6. CASE BackOff(v) \/ Align(v) \/ Chase(v)
    <3>1. stop_confirm_cnt' \in {0, stop_confirm_cnt} /\ pc' # "braking"
      BY <2>1, <2>6 DEF BackOff, Align, Chase
    <3> QED BY <1>1, <2>4, <3>1 DEF RoundCounted
  <2> QED BY <2>1, <2>5, <2>6
<1>4. CASE \A v \in BallViews : ~ChaseBall(v)
  <2>1. /\ ~TargetShown /\ pc' # "braking"
        /\ pc = "releasing" => stop_confirm_cnt' = 0
        /\ stop_confirm_cnt' \in {0, stop_confirm_cnt}
    BY <1>2, <1>4, NoBallStep DEF TargetShown
  <2>2. roundTargets' = IF pc = "releasing" THEN 0 ELSE roundTargets
    BY <1>2, <2>1 DEF Observe
  <2> QED BY <1>1, <2>1, <2>2 DEF RoundCounted
<1> QED BY <1>3, <1>4

-----------------------------------------------------------------------------
(* The sightings of a bucket.                                              *)
LEMMA BucketStep ==
  ASSUME IInv, HistInv, HNext
  PROVE  /\ BucketCounted'
         /\ game_state = "FIND_BUCKET" /\ game_state' = "APPROACH_BUCKET"
              => bucketRun' >= BUCKET_CONFIRM_CNT
<1>1. /\ bucketRun \in 0..BUCKET_CONFIRM_CNT /\ bucket_confirm \in 0..BUCKET_CONFIRM_CNT - 1
      /\ game_state = "FIND_BUCKET" => bucket_confirm <= bucketRun
  BY DEF HistInv, BucketCounted, TypeOK
<1>2. Next /\ Observe
  BY DEF HNext
<1>3. CASE game_state = "FIND_BUCKET"
  <2>1. pc = "frame" /\ (NoFrame \/ FindBucket)
    <3>1. pc = "frame"
      BY <1>2, <1>3 DEF Next, RoundInv, BlockingFollowsStage, TypeOK, Blocking
    <3>2. \A v \in BallViews : ~ChaseBall(v)
      BY <1>3 DEF ChaseBall, SeeBall
    <3> QED BY <1>2, <1>3, <3>1, <3>2
        DEF Next, Search, Scan, LoseBall, Grab, BrakeDone, GrabLower, GrabClose, GrabLift,
            KickDone, Blocked, ApproachBucket, ApproachMiss, ApproachArrive, ApproachSteer,
            Looking, Arrived, Deposit, NextRound
  <2>2. CASE NoFrame
    <3>1. view'.kind = "noframe" /\ UNCHANGED <<game_state, bucket_confirm>>
      BY <2>2 DEF NoFrame, NewFrame, NoPicture, Empty, bucketVars
    <3>2. bucketRun' = bucketRun
      BY <1>2, <1>3, <3>1 DEF Observe, Captured
    <3> QED BY <1>1, <1>3, <3>1, <3>2 DEF BucketCounted
  <2>3. CASE FindMiss
    <3>1. view'.kind = "nothing" /\ game_state' = game_state /\ bucket_confirm' = 0
      BY <2>3 DEF FindMiss, Looking, NewFrame, Nothing, Empty, ForgetSightings
    <3>2. bucketRun' = 0
      BY <1>2, <1>3, <2>1, <3>1 DEF Observe, Captured
    <3> QED BY <1>1, <1>3, <3>1, <3>2 DEF BucketCounted
  <2>4. ASSUME NEW v \in BucketViews, FindWait(v) \/ FindConfirm(v)
        PROVE  /\ BucketCounted'
               /\ game_state' = "APPROACH_BUCKET" => bucketRun' >= BUCKET_CONFIRM_CNT
    <3>1. view'.kind = "bucket"
      BY <2>4 DEF FindWait, FindConfirm, Looking, NewFrame, Seen
    <3>2. bucketRun' = Capped(bucketRun, BUCKET_CONFIRM_CNT)
      BY <1>2, <1>3, <2>1, <3>1 DEF Observe, Captured
    <3>3. bucketRun' \in 0..BUCKET_CONFIRM_CNT /\ bucketRun' >= bucket_confirm + 1
      BY <1>1, <1>3, <3>2 DEF Capped
    <3>4. CASE FindWait(v)
      BY <1>1, <1>3, <3>3, <3>4 DEF FindWait, BucketCounted
    <3>5. CASE FindConfirm(v)
      BY <1>1, <3>3, <3>5 DEF FindConfirm, BucketCounted
    <3> QED BY <2>4, <3>4, <3>5
  <2> QED BY <2>1, <2>2, <2>3, <2>4 DEF FindBucket
<1>4. CASE game_state # "FIND_BUCKET"
  <2>1. bucketRun' = 0
    BY <1>2, <1>4 DEF Observe
  <2>2. game_state' = "FIND_BUCKET" => bucket_confirm' = 0
    <3>1. ASSUME NEW v \in BallViews, ChaseBall(v) PROVE game_state' = game_state
      BY <3>1 DEF ChaseBall, SeeBall
    <3>2. CASE NoFrame \/ Search \/ Scan \/ Deposit \/ NextRound \/ Arrived
      BY <1>4, <3>2 DEF NoFrame, Search, Scan, LoseBall, Deposit, NextRound, Arrived
    <3>3. CASE Grab \/ KickDone
      BY <1>4, <3>3 DEF Grab, BrakeDone, GrabLower, GrabClose, GrabLift, KickDone,
                        ForgetBucket
    <3>4. ~FindBucket
      BY <1>4 DEF FindBucket, FindMiss, FindWait, FindConfirm, Looking
    <3>5. CASE ApproachBucket
      BY <1>4, <3>5 DEF ApproachBucket, ApproachMiss, ApproachArrive, ApproachSteer,
                        ForgetSightings
    <3> QED BY <1>2, <1>4, <3>1, <3>2, <3>3, <3>4, <3>5 DEF Next
  <2> QED BY <1>4, <2>1, <2>2 DEF BucketCounted
<1> QED BY <1>3, <1>4

-----------------------------------------------------------------------------
(* The ring buffer and the trail.                                          *)
LEMMA WrapStep ==
  ASSUME NEW h \in 0..STALL_BUF - 1
  PROVE  (h + 1) % STALL_BUF = IF h + 1 < STALL_BUF THEN h + 1 ELSE 0
<1>1. CASE h + 1 < STALL_BUF
  BY <1>1
<1>2. CASE h + 1 = STALL_BUF
  BY <1>2
<1> QED BY <1>1, <1>2

(* A slot of the ring buffer is scanned, and holds one offset only.        *)
LEMMA SlotScanned ==
  ASSUME NEW cnt \in 0..STALL_BUF, NEW head \in 0..STALL_BUF - 1,
         cnt < STALL_BUF => head = cnt, NEW k \in 1..cnt
  PROVE  Slot(cnt, head, k) \in 0..cnt - 1
BY DEF Slot

(* The trail after one more offset, in terms of the one before: the oldest *)
(* offset falls out once the ring buffer is full.                          *)
Longer(s, o) == LET longer == Append(s, o)
                IN  IF Len(longer) > STALL_BUF THEN Tail(longer) ELSE longer

LEMMA LongerTrail ==
  ASSUME NEW s \in Seq(Int), Len(s) <= STALL_BUF, NEW o \in Int
  PROVE  /\ Longer(s, o) \in Seq(Int)
         /\ Len(Longer(s, o)) = Capped(Len(s), STALL_BUF)
         /\ Longer(s, o)[Len(Longer(s, o))] = o
         /\ \A k \in 1..Len(Longer(s, o)) - 1 :
              Longer(s, o)[k] = IF Len(s) < STALL_BUF THEN s[k] ELSE s[k + 1]
<1> DEFINE t == Append(s, o)
<1>1. /\ t \in Seq(Int) /\ t # <<>> /\ Len(t) = Len(s) + 1 /\ Len(s) \in Nat
      /\ \A i \in 1..Len(s) : t[i] = s[i]
      /\ t[Len(s) + 1] = o
  BY AppendProperties, LenProperties
<1> HIDE DEF t
<1>2. CASE Len(s) < STALL_BUF
  <2>1. Longer(s, o) = t /\ Capped(Len(s), STALL_BUF) = Len(s) + 1
    BY <1>1, <1>2 DEF Longer, t, Capped
  <2> QED BY <1>1, <1>2, <2>1
<1>3. CASE Len(s) = STALL_BUF
  <2>1. Longer(s, o) = Tail(t) /\ Capped(Len(s), STALL_BUF) = STALL_BUF
    BY <1>1, <1>3 DEF Longer, t, Capped
  <2>2. /\ Tail(t) \in Seq(Int) /\ Len(Tail(t)) = STALL_BUF
        /\ \A i \in 1..STALL_BUF : Tail(t)[i] = t[i + 1]
    BY <1>1, <1>3, HeadTailProperties
  <2>3. Tail(t)[STALL_BUF] = o
    BY <1>1, <1>3, <2>2
  <2>4. \A k \in 1..STALL_BUF - 1 : Tail(t)[k] = s[k + 1]
    BY <1>1, <1>3, <2>2
  <2>5. Len(Longer(s, o)) = STALL_BUF /\ ~(Len(s) < STALL_BUF)
    BY <1>3, <2>1, <2>2
  <2> QED BY <2>1, <2>2, <2>3, <2>4, <2>5
<1> QED BY <1>1, <1>2, <1>3

LEMMA RingStep ==
  ASSUME IInv, RingHoldsTrail, NEW o \in Int, trail' = Longer(trail, o),
         align_cnt' = Capped(align_cnt, STALL_BUF),
         align_off_buf' = [align_off_buf EXCEPT ![align_off_head] = o],
         align_off_head' = (align_off_head + 1) % STALL_BUF
  PROVE  RingHoldsTrail'
<1> DEFINE N == STALL_BUF  c == align_cnt  h == align_off_head
<1>1. /\ N \in Nat \ {0} /\ c \in 0..N /\ h \in 0..N - 1
      /\ align_off_buf \in [0..N - 1 -> Int]
      /\ trail \in Seq(Int) /\ Len(trail) = c
      /\ c < N => h = c
  BY DEF TypeOK, RingHoldsTrail
<1>2. h' = IF h + 1 < N THEN h + 1 ELSE 0
  BY <1>1, WrapStep
<1>3. c' = IF c < N THEN c + 1 ELSE N
  BY <1>1 DEF Capped
<1>4. c' < N => h' = c'
  BY <1>1, <1>2, <1>3
<1>5. /\ trail' \in Seq(Int) /\ Len(trail') = c' /\ trail'[c'] = o
      /\ \A k \in 1..c' - 1 : trail'[k] = IF c < N THEN trail[k] ELSE trail[k + 1]
  <2>1. Len(trail) <= STALL_BUF
    BY <1>1
  <2>2. /\ trail' \in Seq(Int) /\ Len(trail') = Capped(Len(trail), STALL_BUF)
        /\ trail'[Len(trail')] = o
        /\ \A k \in 1..Len(trail') - 1 :
             trail'[k] = IF Len(trail) < STALL_BUF THEN trail[k] ELSE trail[k + 1]
    <3>1. trail \in Seq(Int)
      BY <1>1
    <3> QED BY <2>1, <3>1, LongerTrail
  <2>3. Len(trail') = c'
    BY <1>1, <2>2
  <2> QED BY <1>1, <2>2, <2>3
<1>6. ASSUME NEW k \in 1..c' PROVE trail'[k] = align_off_buf'[Slot(c', h', k)]
  <2>1. CASE k = c'
    <3>1. Slot(c', h', k) = h
      BY <1>1, <1>2, <1>3, <2>1 DEF Slot
    <3>2. align_off_buf'[h] = o
      BY <1>1
    <3> QED BY <1>5, <2>1, <3>1, <3>2
  <2>2. CASE k # c'
    <3>1. k \in 1..c' - 1
      BY <1>1, <1>3, <2>2
    <3> DEFINE old == IF c < N THEN k ELSE k + 1
    <3>2. old \in 1..c /\ trail'[k] = trail[old]
      <4>1. CASE c < N
        BY <1>1, <1>3, <1>5, <3>1, <4>1
      <4>2. CASE ~(c < N)
        BY <1>1, <1>3, <1>5, <3>1, <4>2
      <4> QED BY <4>1, <4>2
    <3>3. trail[old] = align_off_buf[Slot(c, h, old)]
      BY <3>2 DEF RingHoldsTrail
    <3>4. Slot(c', h', k) = Slot(c, h, old)
      <4>1. CASE c < N
        <5>1. k \in Int /\ h = c /\ c' = c + 1 /\ old = k
          BY <1>1, <1>3, <3>1, <4>1
        <5>2. CASE c + 1 < N
          BY <4>1, <5>1, <5>2 DEF Slot
        <5>3. CASE c + 1 = N
          <6>1. h' = 0 /\ c' = N /\ k - 1 < N
            BY <1>1, <1>2, <3>1, <5>1, <5>3
          <6> QED BY <1>1, <4>1, <5>1, <6>1 DEF Slot
        <5> QED BY <1>1, <4>1, <5>2, <5>3
      <4>2. CASE c = N
        <5>1. k \in 1..N - 1 /\ c' = N /\ old = k + 1
          BY <1>1, <1>3, <3>1, <4>2
        <5>2. CASE h + 1 < N
          <6>1. h' = h + 1 /\ h \in Int /\ k \in Int /\ N \in Int /\ ~(N < N)
            BY <1>1, <1>2, <5>1, <5>2
          <6>2. Slot(c', h', k) = IF h + k < N THEN h + k ELSE h + k - N
            BY <5>1, <6>1 DEF Slot
          <6>3. Slot(c, h, old) = IF h + k < N THEN h + k ELSE h + k - N
            BY <4>2, <5>1, <6>1 DEF Slot
          <6> QED BY <6>2, <6>3
        <5>3. CASE h + 1 = N
          BY <1>1, <1>2, <4>2, <5>1, <5>3 DEF Slot
        <5> QED BY <1>1, <5>2, <5>3
      <4> QED BY <1>1, <4>1, <4>2
    <3>5. Slot(c, h, old) \in 0..N - 1 /\ Slot(c, h, old) # h
      BY <1>1, <1>2, <1>3, <3>1 DEF Slot
    <3>6. align_off_buf'[Slot(c, h, old)] = align_off_buf[Slot(c, h, old)]
      BY <1>1, <3>5
    <3> QED BY <3>2, <3>3, <3>4, <3>6
  <2> QED BY <2>1, <2>2
<1> QED BY <1>4, <1>5, <1>6 DEF RingHoldsTrail

(* What resets the one resets the other.                                   *)
LEMMA TrailStep == ASSUME IInv, HistInv, HNext PROVE RingHoldsTrail'
<1>1. RingHoldsTrail /\ Next /\ Observe /\ align_cnt \in 0..STALL_BUF
  BY DEF HistInv, HNext, TypeOK
<1>2. <<>> \in Seq(Int) /\ Len(<<>>) = 0
  BY EmptySeq
<1>3. ASSUME trail' = <<>>, align_cnt' = 0, align_off_head' = 0 PROVE RingHoldsTrail'
  BY <1>2, <1>3 DEF RingHoldsTrail
<1>4. ASSUME UNCHANGED <<trail, align_cnt, align_off_buf, align_off_head>>
      PROVE  RingHoldsTrail'
  BY <1>1, <1>4 DEF RingHoldsTrail
<1>5. ASSUME NEW v \in BallViews, ChaseBall(v) PROVE RingHoldsTrail'
  <2>1. pc = "frame" /\ (BackOff(v) \/ ConfirmStop(v) \/ Align(v) \/ Chase(v))
    BY <1>5, BallFrame
  <2>2. BallShown /\ view' = Seen("ball", v) /\ v.offset \in Int /\ v.area \in Int
    BY <1>5, <2>1 DEF ChaseBall, SeeBall, NewFrame, BallShown, Captured, Seen, View
  <2>3. view'.area = v.area /\ view'.offset = v.offset
    BY <2>2 DEF Seen
  <2>4. CASE BackOff(v)
    <3>1. ~InReach(view') /\ ~(view'.area < AREA_STOP)
      BY <2>2, <2>3, <2>4 DEF BackOff, InReach, AREA_REVERSE, AREA_STOP
    <3>2. trail' = trail
      BY <1>1, <2>1, <3>1 DEF Observe, TargetShown, OffTargetShown
    <3> QED BY <1>4, <2>4, <3>2 DEF BackOff, alignVars
  <2>5. CASE ConfirmStop(v)
    <3>1. TargetShown /\ ~OffTargetShown
      BY <2>2, <2>3, <2>5 DEF ConfirmStop, TargetShown, OffTargetShown, InReach
    <3>2. trail' = <<>>
      BY <1>1, <3>1 DEF Observe
    <3> QED BY <1>3, <2>5, <3>2 DEF ConfirmStop, ResetAlign
  <2>6. CASE Align(v)
    <3>1. OffTargetShown
      BY <2>2, <2>3, <2>6 DEF Align, OffTargetShown, InReach
    <3>2. trail' = Longer(trail, v.offset)
      BY <1>1, <2>3, <3>1 DEF Observe, Longer
    <3> QED BY <1>1, <2>2, <2>6, <3>2, RingStep DEF Align, RecordOffset
  <2>7. CASE Chase(v)
    <3>1. ~OffTargetShown /\ BallShown /\ view'.area < AREA_STOP
      BY <2>2, <2>3, <2>7 DEF Chase, OffTargetShown, InReach, AREA_STOP
    <3>2. trail' = <<>>
      BY <1>1, <3>1 DEF Observe
    <3> QED BY <1>3, <2>7, <3>2 DEF Chase, ResetAlign
  <2> QED BY <2>1, <2>4, <2>5, <2>6, <2>7
<1>6. CASE \A v \in BallViews : ~ChaseBall(v)
  <2>1. ~BallShown /\ trail' = IF pc \in {"kicking", "releasing"} THEN <<>> ELSE trail
    BY <1>1, <1>6, NoBallStep DEF Observe, TargetShown, OffTargetShown
  <2> QED BY <1>1, <1>3, <1>4, <1>6, <2>1, NoBallStep
<1> QED BY <1>5, <1>6

(* A kick starts from a stall, and the slots of a stall are the trail.     *)
LEMMA KickStep == ASSUME IInv, IInv', HistInv, HNext, RingHoldsTrail' PROVE KickHasEvidence'
<1>1. Next
  BY DEF HNext
<1>2. ASSUME NEW v \in BallViews, ChaseBall(v), pc' = "kicking" PROVE KickHasEvidence'
  <2>1. pc = "frame" /\ (BackOff(v) \/ ConfirmStop(v) \/ Align(v) \/ Chase(v))
    BY <1>2, BallFrame
  <2>2. Stalled(align_cnt', align_off_buf')
    BY <1>2, <2>1 DEF BackOff, ConfirmStop, Align, Chase
  <2>3. /\ align_cnt' \in 0..STALL_BUF /\ align_off_head' \in 0..STALL_BUF - 1
        /\ align_cnt' < STALL_BUF => align_off_head' = align_cnt'
        /\ Len(trail') = align_cnt'
    BY DEF TypeOK, RingHoldsTrail
  <2>4. Len(trail') >= ALIGN_STALL_FRAMES
    BY <2>2, <2>3 DEF Stalled
  <2>5. ASSUME NEW i \in 1..Len(trail'), NEW j \in 1..Len(trail')
        PROVE  trail'[i] - trail'[j] < ALIGN_STALL_MOVE_PX
    <3> DEFINE slot(k) == Slot(align_cnt', align_off_head', k)
    <3>1. /\ trail'[i] = align_off_buf'[slot(i)] /\ slot(i) \in 0..align_cnt' - 1
          /\ trail'[j] = align_off_buf'[slot(j)] /\ slot(j) \in 0..align_cnt' - 1
      BY <2>3, SlotScanned DEF RingHoldsTrail
    <3> HIDE DEF slot
    <3> QED BY <2>2, <3>1 DEF Stalled
  <2> QED BY <2>4, <2>5 DEF KickHasEvidence
<1>3. CASE \A v \in BallViews : ~ChaseBall(v)
  BY <1>1, <1>3, NoBallStep DEF KickHasEvidence
<1> QED BY <1>2, <1>3 DEF KickHasEvidence

-----------------------------------------------------------------------------
LEMMA HistStep == ASSUME IInv, HistInv, [HNext]_hvars PROVE IInv' /\ HistInv'
<1>1. CASE HNext
  <2>1. IInv'
    BY <1>1, NextInv DEF HNext
  <2> QED BY <1>1, <2>1, RoundStep, BucketStep, TrailStep, KickStep DEF HistInv
<1>2. CASE UNCHANGED hvars
  <2>1. IInv'
    BY <1>2, NextInv DEF hvars
  <2>2. /\ UNCHANGED <<pc, game_state, stop_confirm_cnt, bucket_confirm>>
        /\ UNCHANGED <<align_cnt, align_off_buf, align_off_head>>
        /\ UNCHANGED <<roundTargets, bucketRun, trail>>
    BY <1>2 DEF hvars, vars, history, alignVars, bucketVars
  <2>3. RoundCounted' /\ BucketCounted'
    BY <2>2 DEF HistInv, RoundCounted, BucketCounted
  <2>4. RingHoldsTrail' /\ KickHasEvidence'
    BY <2>2 DEF HistInv, RingHoldsTrail, KickHasEvidence
  <2> QED BY <2>1, <2>3, <2>4 DEF HistInv
<1> QED BY <1>1, <1>2

LEMMA HistAlways == HSpec => [](IInv /\ HistInv)
<1>1. HInit => IInv /\ HistInv
  BY InitInv, HistInit DEF HInit
<1>2. IInv /\ HistInv /\ [HNext]_hvars => (IInv /\ HistInv)'
  BY HistStep
<1> QED BY <1>1, <1>2, PTL DEF HSpec

(* The brake pulse of a grab follows as many frames of this round with the *)
(* ball on the gripper's line as the threshold asks for.                   *)
THEOREM GrabEarned == HSpec => []GrabIsEarned
<1>1. IInv /\ HistInv => GrabIsEarned
  BY DEF HistInv, RoundCounted, GrabIsEarned, TypeOK
<1> QED BY <1>1, HistAlways, PTL

(* Each kick follows ALIGN_STALL_FRAMES aligning frames without movement,  *)
(* although the stall test scans the ring buffer from slot 0 and a reset   *)
(* of it only moves the head.                                              *)
THEOREM KickEarned == HSpec => []KickHasEvidence
<1>1. HistInv => KickHasEvidence
  BY DEF HistInv
<1> QED BY <1>1, HistAlways, PTL

(* The approach of a bucket follows as many captured frames in a row that  *)
(* showed one as the debounce asks for.                                    *)
THEOREM BucketDebounced == HSpec => BucketIsDebounced
<1>1. IInv /\ HistInv /\ [HNext]_hvars =>
        [game_state = "FIND_BUCKET" /\ game_state' = "APPROACH_BUCKET"
           => bucketRun' >= BUCKET_CONFIRM_CNT]_hvars
  BY BucketStep
<1> QED BY <1>1, HistAlways, PTL DEF HSpec, BucketIsDebounced
=============================================================================

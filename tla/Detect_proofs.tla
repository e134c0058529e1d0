--------------------------- MODULE Detect_proofs ---------------------------
(* That NMS() leaves one detection of each ball and counts them right, and *)
(* that main() chooses the one of which most is seen, for any output of    *)
(* the model, any number of boxes and any thresholds.                      *)
EXTENDS Detect, SequenceTheorems, FunctionTheorems, FiniteSetTheorems, TLAPS

Rows == 1..NumBoxes
Score(n) == max_score(output[n])
Candidates == {n \in Rows : Score(n) > conf_thresh}

(* A detection is a row of the output, as it was or with its score gone:   *)
(* which ball it is of is a matter of the row.                             *)
Dropped(n) == [Detection(n) EXCEPT !.score = 0]
Entries == {Detection(n) : n \in Candidates} \cup {Dropped(n) : n \in Candidates}
Same(m, n) == SameBall(Detection(m), Detection(n))

Places == 1..Len(dets)
Living == {k \in Places : Alive(dets[k])}

(* The pairs the loops are through with have at most one living of a ball. *)
Apart(m, n) ==
  \A a, b \in Living : a < b /\ (a < m \/ (a = m /\ b < n)) =>
    ~Same(dets[a].id, dets[b].id)

(* Of every candidate there is a living detection: itself, or one that the *)
(* loops are through with and that dropped it.                             *)
Covered(m) ==
  \A n \in Candidates : \E k \in Living :
    \/ dets[k].id = n
    \/ k <= m /\ Same(dets[k].id, n) /\ Score(dets[k].id) >= Score(n)

(* The same of all places, when the loops are through with everything.     *)
AllApart == \A a, b \in Living : a < b => ~Same(dets[a].id, dets[b].id)
AllCovered ==
  \A n \in Candidates : \E k \in Living :
    dets[k].id = n \/ (Same(dets[k].id, n) /\ Score(dets[k].id) >= Score(n))

Sorted == \A a, b \in Places : a < b => Score(dets[a].id) >= Score(dets[b].id)

Before == {"getDetections", "suppress", "erase", "correctYoloBoxes"}

DetTypeOK ==
  /\ output \in [Rows -> Outputs]
  /\ pc \in Before \cup Afterwards
  /\ i \in Nat \ {0} /\ j \in Nat
  /\ pc \in Before => dets \in Seq(Entries)
  /\ \E S : dets \in Seq(S)

Parsing == pc = "getDetections" =>
  /\ det_num = Len(dets) /\ Living = Places
  /\ \A n \in Candidates : n < i => \E k \in Places : dets[k].id = n

Looping == pc = "suppress" =>
  /\ det_num = Len(dets) /\ i < j
  /\ Sorted /\ Apart(i, j) /\ Covered(i)
  /\ new_count = Cardinality(Living)

Erasing == pc = "erase" =>
  /\ AllApart /\ AllCovered
  /\ new_count = Cardinality(Living)
  /\ \A k \in Places : k < i => k \in Living

Leaving == pc = "correctYoloBoxes" =>
  /\ Living = Places
  /\ AllApart /\ AllCovered

DetInv == DetTypeOK /\ Parsing /\ Looping /\ Erasing /\ Leaving /\ CountIsLength

-----------------------------------------------------------------------------
(* Entries *)

LEMMA EntryFields ==
  ASSUME output \in [Rows -> Outputs], NEW d \in Entries
  PROVE  /\ d.id \in Candidates
         /\ d.bbox = Detection(d.id).bbox /\ d.cls = Detection(d.id).cls
         /\ d.batch_idx = Detection(d.id).batch_idx
         /\ Alive(d) => d.score = Score(d.id)
PROOF
  <1>1. CASE d \in {Detection(n) : n \in Candidates}
    BY <1>1 DEF Detection, Score
  <1>2. CASE d \in {Dropped(n) : n \in Candidates}
    BY <1>2 DEF Dropped, Detection, Alive
  <1> QED  BY <1>1, <1>2 DEF Entries

LEMMA DropEntry ==
  ASSUME output \in [Rows -> Outputs], NEW d \in Entries
  PROVE  LET e == [d EXCEPT !.score = 0]
         IN  e \in Entries /\ e.id = d.id /\ ~Alive(e)
PROOF
  <1>1. PICK n \in Candidates : d = Detection(n) \/ d = Dropped(n)
    BY DEF Entries
  <1>2. [d EXCEPT !.score = 0] = Dropped(n) /\ d.id = n
    BY <1>1 DEF Dropped, Detection
  <1>3. Dropped(n).id = n /\ ~Alive(Dropped(n))
    BY DEF Dropped, Detection, Alive
  <1> QED  BY <1>2, <1>3 DEF Entries

LEMMA CandidateAlive ==
  ASSUME NEW n \in Candidates
  PROVE  Alive(Detection(n)) /\ Detection(n).id = n
PROOF
  BY DetectAssumption DEF Candidates, Alive, Detection, Score

LEMMA SameOfEntries ==
  ASSUME output \in [Rows -> Outputs], NEW d \in Entries, NEW e \in Entries
  PROVE  /\ SameBall(d, e) <=> Same(d.id, e.id)
         /\ SameBall(d, Detection(e.id)) <=> Same(d.id, e.id)
PROOF
  BY EntryFields DEF SameBall, SameKind, Same

LEMMA SameIsSymmetric ==
  ASSUME output \in [Rows -> Outputs], NEW m \in Rows, NEW n \in Rows
  PROVE  Same(m, n) <=> Same(n, m)
PROOF
  <1>1. output[m].bbox \in Int \X Int \X Int \X Int /\ output[n].bbox \in Int \X Int \X Int \X Int
    BY DetectAssumption
  <1> DEFINE a == output[m].bbox
             b == output[n].bbox
  <1>2. /\ a[1] \in Int /\ a[2] \in Int /\ a[3] \in Int /\ a[4] \in Int
        /\ b[1] \in Int /\ b[2] \in Int /\ b[3] \in Int /\ b[4] \in Int
    BY <1>1
  <1>3. Area(a) \in Int /\ Area(b) \in Int
    BY <1>2 DEF Area
  <1>4. Shared(a, b) = Shared(b, a) /\ Shared(a, b) \in Int
    <2>1. \A x, y \in Int : /\ Least(x, y) = Least(y, x) /\ Least(x, y) \in Int
                            /\ Greatest(x, y) = Greatest(y, x) /\ Greatest(x, y) \in Int
      BY DEF Least, Greatest
    <2> DEFINE wi == Least(a[3], b[3]) - Greatest(a[1], b[1])
               hi == Least(a[4], b[4]) - Greatest(a[2], b[2])
    <2>2. /\ wi \in Int /\ hi \in Int
          /\ wi = Least(b[3], a[3]) - Greatest(b[1], a[1])
          /\ hi = Least(b[4], a[4]) - Greatest(b[2], a[2])
      <3> HIDE DEF a, b
      <3>1. /\ Least(a[3], b[3]) = Least(b[3], a[3]) /\ Least(a[3], b[3]) \in Int
            /\ Least(a[4], b[4]) = Least(b[4], a[4]) /\ Least(a[4], b[4]) \in Int
        BY <1>2, <2>1
      <3>2. /\ Greatest(a[1], b[1]) = Greatest(b[1], a[1]) /\ Greatest(a[1], b[1]) \in Int
            /\ Greatest(a[2], b[2]) = Greatest(b[2], a[2]) /\ Greatest(a[2], b[2]) \in Int
        BY <1>2, <2>1
      <3> QED  BY <3>1, <3>2
    <2>3. Greatest(wi, 0) * Greatest(hi, 0) \in Int
      BY <2>1, <2>2
    <2> QED  BY <2>2, <2>3 DEF Shared
  <1>5. calIou_over(a, b) <=> calIou_over(b, a)
    <2> HIDE DEF a, b
    <2>1. Area(a) + Area(b) - Shared(a, b) = Area(b) + Area(a) - Shared(b, a)
      BY <1>3, <1>4
    <2> QED  BY <1>4, <2>1 DEF calIou_over
  <1>6. Detection(m).bbox = a /\ Detection(n).bbox = b
    BY DEF Detection
  <1> QED  BY <1>5, <1>6 DEF Same, SameBall, SameKind

-----------------------------------------------------------------------------
(* What does not change the output changes nothing that is said of rows.   *)
LEMMA RowsStay ==
  ASSUME output' = output
  PROVE  /\ Candidates' = Candidates /\ Entries' = Entries
         /\ \A n : Detection(n)' = Detection(n) /\ Score(n)' = Score(n)
         /\ \A m, n : Same(m, n)' <=> Same(m, n)
PROOF
  BY DEF Candidates, Entries, Dropped, Detection, Score, Same

LEMMA SameLength ==
  ASSUME NEW m \in Nat, NEW n \in Nat, 1..m = 1..n
  PROVE  m = n
PROOF
  <1>1. m # 0 => m \in 1..n
    OBVIOUS
  <1>2. n # 0 => n \in 1..m
    OBVIOUS
  <1> QED  BY <1>1, <1>2

LEMMA RowNumbers == Rows \subseteq Nat \ {0} /\ Candidates \subseteq Rows
PROOF
  BY DetectAssumption DEF Candidates, Rows

LEMMA InitInv == DetectInit => DetInv
PROOF
  <1> SUFFICES ASSUME DetectInit PROVE DetInv
    OBVIOUS
  <1>1. dets = <<>> /\ Len(dets) = 0 /\ \A S : dets \in Seq(S)
    BY EmptySeq DEF DetectInit
  <1>2. Places = {} /\ Living = {}
    BY <1>1 DEF Places, Living
  <1>3. pc = "getDetections" /\ i = 1 /\ j = 2 /\ det_num = 0 /\ output \in [Rows -> Outputs]
    BY DEF DetectInit, Rows
  <1>4. DetTypeOK
    BY <1>1, <1>3 DEF DetTypeOK, Before, Afterwards
  <1>5. \A n \in Candidates : ~(n < i)
    BY <1>3, RowNumbers
  <1>6. Parsing
    BY <1>1, <1>2, <1>3, <1>5 DEF Parsing
  <1> QED  BY <1>3, <1>4, <1>6 DEF DetInv, Looping, Erasing, Leaving, CountIsLength, Afterwards

LEMMA ParseStep == DetInv /\ getDetections => DetInv'
PROOF
  <1> SUFFICES ASSUME DetInv, getDetections PROVE DetInv'
    OBVIOUS
  <1>1. /\ pc = "getDetections" /\ pc' = pc /\ output' = output
        /\ i <= NumBoxes /\ i' = i + 1 /\ j' = j
    BY DEF getDetections
  <1>2. /\ output \in [Rows -> Outputs] /\ dets \in Seq(Entries)
        /\ i \in Rows /\ i' \in Nat \ {0} /\ j \in Nat
        /\ det_num = Len(dets) /\ Living = Places /\ Len(dets) \in Nat
        /\ \A n \in Candidates : n < i => \E k \in Places : dets[k].id = n
    BY <1>1, LenProperties, DetectAssumption DEF DetInv, DetTypeOK, Parsing, Before, Rows
  <1>3. CASE Above(output[i])
    <2>1. i \in Candidates /\ dets' = Append(dets, Detection(i)) /\ det_num' = det_num + 1
      BY <1>2, <1>3 DEF getDetections, Above, Candidates, Score
    <2>2. /\ Detection(i) \in Entries /\ Alive(Detection(i)) /\ Detection(i).id = i
      BY <2>1, CandidateAlive DEF Entries
    <2>3. /\ dets' \in Seq(Entries) /\ Len(dets') = Len(dets) + 1
          /\ \A k \in Places : dets'[k] = dets[k]
          /\ dets'[Len(dets) + 1] = Detection(i)
      BY <1>2, <2>1, <2>2, AppendProperties DEF Places
    <2>4. \A k \in Places' : k \in Places \/ k = Len(dets) + 1
      BY <1>2, <2>3 DEF Places
    <2>5. Living' = Places'
      BY <1>2, <2>2, <2>3, <2>4 DEF Living
    <2>6. \A n \in Candidates : n < i' => \E k \in Places' : dets'[k].id = n
      <3> TAKE n \in Candidates
      <3> HAVE n < i'
      <3>1. Len(dets) + 1 \in Places' /\ \A k \in Places : k \in Places'
        BY <1>2, <2>3 DEF Places
      <3>2. CASE n = i
        BY <2>2, <2>3, <3>1, <3>2
      <3>3. CASE n < i
        BY <1>2, <2>3, <3>1, <3>3
      <3> QED  BY <1>1, <1>2, <3>2, <3>3, RowNumbers
    <2> QED  BY <1>1, <1>2, <2>1, <2>3, <2>5, <2>6, RowsStay
         DEF DetInv, DetTypeOK, Parsing, Looping, Erasing, Leaving, CountIsLength, Afterwards, Rows
  <1>4. CASE ~Above(output[i])
    <2>1. i \notin Candidates /\ UNCHANGED <<dets, det_num>>
      BY <1>4 DEF getDetections, Above, Candidates, Score
    <2>2. \A n \in Candidates : n < i' => n < i
      BY <1>1, <1>2, <2>1, RowNumbers
    <2>3. Living' = Places' /\ Places' = Places
      BY <1>2, <2>1 DEF Living, Places
    <2> QED  BY <1>1, <1>2, <2>1, <2>2, <2>3, RowsStay
         DEF DetInv, DetTypeOK, Parsing, Looping, Erasing, Leaving, CountIsLength, Afterwards, Rows
  <1> QED  BY <1>3, <1>4

-----------------------------------------------------------------------------
LEMMA SortStep == DetInv /\ Sort => DetInv'
PROOF
  <1> SUFFICES ASSUME DetInv, Sort PROVE DetInv'
    OBVIOUS
  <1>1. /\ pc = "getDetections" /\ output' = output /\ i > NumBoxes
        /\ i' = 1 /\ j' = 2 /\ det_num' = det_num /\ new_count' = det_num
        /\ pc' = IF det_num = 0 THEN "correctYoloBoxes" ELSE "suppress"
    BY DEF Sort
  <1>2. /\ output \in [Rows -> Outputs] /\ dets \in Seq(Entries)
        /\ det_num = Len(dets) /\ Living = Places /\ Len(dets) \in Nat
        /\ i \in Nat
    BY <1>1, LenProperties DEF DetInv, DetTypeOK, Parsing, Before
  <1>3. \A n \in Candidates : \E k \in Places : dets[k].id = n
    <2>1. \A n \in Candidates : n < i
      BY <1>1, <1>2, DetectAssumption DEF Candidates, Rows
    <2> QED  BY <1>1, <2>1 DEF DetInv, Parsing
  <1>4. PICK p \in Orders(Len(dets)) :
          /\ \A a, b \in Places : a < b => dets[p[a]].score >= dets[p[b]].score
          /\ dets' = [k \in Places |-> dets[p[k]]]
    BY DEF Sort, Places
  <1>5. /\ \A k \in Places : p[k] \in Places
        /\ \A k \in Places : \E a \in Places : p[a] = k
    BY <1>4 DEF Orders, Places
  <1>6. \A k \in Places : dets[k] \in Entries
    BY <1>2, ElementOfSeq DEF Places
  <1>7. dets' \in Seq(Entries)
    <2>1. dets' \in [1..Len(dets) -> Entries]
      BY <1>4, <1>5, <1>6 DEF Places
    <2> QED  BY <1>2, <2>1, SeqDef
  <1>8. Len(dets') = Len(dets) /\ Places' = Places
    <2>1. Len(dets') \in Nat /\ DOMAIN dets' = 1..Len(dets')
      BY <1>7, LenProperties
    <2>2. DOMAIN dets' = 1..Len(dets)
      BY <1>4 DEF Places
    <2> QED  BY <1>2, <2>1, <2>2, SameLength DEF Places
  <1>9. Living' = Places'
    BY <1>2, <1>4, <1>5, <1>8 DEF Living
  <1>10. Sorted'
    <2> SUFFICES ASSUME NEW a \in Places, NEW b \in Places, a < b
                 PROVE  Score(dets'[a].id) >= Score(dets'[b].id)
      BY <1>8, RowsStay, <1>1 DEF Sorted
    <2>1. Alive(dets[p[a]]) /\ Alive(dets[p[b]])
      BY <1>2, <1>5 DEF Living
    <2>2. dets[p[a]].score = Score(dets[p[a]].id) /\ dets[p[b]].score = Score(dets[p[b]].id)
      BY <1>2, <1>5, <1>6, <2>1, EntryFields
    <2> QED  BY <1>4, <2>2
  <1>11. \A n \in Candidates : \E k \in Places : dets'[k].id = n
    <2> TAKE n \in Candidates
    <2>1. PICK k \in Places : dets[k].id = n
      BY <1>3
    <2>2. PICK a \in Places : p[a] = k
      BY <1>5
    <2> QED  BY <1>4, <2>1, <2>2
  <1>12. Covered(i)' /\ AllCovered'
    BY <1>1, <1>8, <1>9, <1>11, RowsStay DEF Covered, AllCovered
  <1>13. Apart(i, j)'
    BY <1>1, <1>8, <1>9 DEF Apart, Places
  <1>14. new_count' = Cardinality(Living')
    <2>1. Cardinality(1..Len(dets)) = Len(dets)
      <3>1. \A n \in Nat : Cardinality(1..n) = IF 1 > n THEN 0 ELSE n - 1 + 1
        BY FS_Interval
      <3> QED  BY <1>2, <3>1
    <2> QED  BY <1>1, <1>2, <1>8, <1>9, <2>1 DEF Places
  <1>15. CASE det_num = 0
    <2>1. Places = {}
      BY <1>2, <1>15 DEF Places
    <2>2. AllApart'
      BY <1>8, <1>9, <2>1 DEF AllApart
    <2> QED  BY <1>1, <1>2, <1>7, <1>8, <1>9, <1>12, <1>15, <2>2, RowsStay
         DEF DetInv, DetTypeOK, Parsing, Looping, Erasing, Leaving, CountIsLength,
             Afterwards, Before, Rows
  <1>16. CASE det_num # 0
    BY <1>1, <1>2, <1>7, <1>8, <1>10, <1>12, <1>13, <1>14, <1>16, RowsStay
    DEF DetInv, DetTypeOK, Parsing, Looping, Erasing, Leaving, CountIsLength,
        Afterwards, Before, Rows
  <1> QED  BY <1>15, <1>16

-----------------------------------------------------------------------------
(* The loops over the pairs *)

LEMMA LoopFacts ==
  ASSUME DetInv, pc = "suppress"
  PROVE  /\ output \in [Rows -> Outputs] /\ dets \in Seq(Entries)
         /\ i \in Nat \ {0} /\ j \in Nat /\ i < j
         /\ det_num = Len(dets) /\ Len(dets) \in Nat
         /\ Sorted /\ Apart(i, j) /\ Covered(i) /\ new_count = Cardinality(Living)
         /\ \A k \in Places : k \in Nat /\ dets[k] \in Entries
         /\ Living \subseteq Places
PROOF
  <1>1. dets \in Seq(Entries) /\ Len(dets) \in Nat
    BY LenProperties DEF DetInv, DetTypeOK, Before
  <1>2. \A k \in Places : k \in Nat /\ dets[k] \in Entries
    BY <1>1, ElementOfSeq DEF Places
  <1> QED  BY <1>1, <1>2 DEF DetInv, DetTypeOK, Looping, Living

(* The steps that only move on.                                            *)
LEMMA MoveOn ==
  ASSUME DetInv, pc = "suppress", pc' = pc,
         UNCHANGED <<output, dets, det_num, new_count>>,
         i' \in {i, i + 1}, j' \in Nat, i' < j', Apart(i', j')
  PROVE  DetInv'
PROOF
  <1>1. /\ output \in [Rows -> Outputs] /\ dets \in Seq(Entries)
        /\ i \in Nat \ {0} /\ det_num = Len(dets) /\ Sorted /\ Covered(i)
        /\ new_count = Cardinality(Living)
        /\ Living \subseteq Places /\ \A k \in Places : k \in Nat
    BY LoopFacts
  <1>2. Places' = Places /\ Living' = Living /\ i' \in Nat \ {0}
    BY <1>1 DEF Places, Living
  <1>3. Covered(i)'
    <2> SUFFICES ASSUME NEW n \in Candidates
                 PROVE  \E k \in Living : \/ dets[k].id = n
                                          \/ /\ k <= i' /\ Same(dets[k].id, n)
                                             /\ Score(dets[k].id) >= Score(n)
      BY <1>2, RowsStay DEF Covered
    <2>1. PICK k \in Living : \/ dets[k].id = n
                              \/ /\ k <= i /\ Same(dets[k].id, n)
                                 /\ Score(dets[k].id) >= Score(n)
      BY <1>1 DEF Covered
    <2>2. k \in Nat
      BY <1>1
    <2>3. k <= i => k <= i'
      BY <1>1, <2>2
    <2> QED  BY <2>1, <2>3
  <1>4. Sorted' /\ Apart(i, j)'
    BY <1>1, <1>2, RowsStay DEF Sorted, Apart
  <1> QED  BY <1>1, <1>2, <1>3, <1>4, RowsStay
       DEF DetInv, DetTypeOK, Parsing, Looping, Erasing, Leaving, CountIsLength,
           Afterwards, Before, Rows

LEMMA SkipStep == DetInv /\ SkipDropped => DetInv'
PROOF
  <1> SUFFICES ASSUME DetInv, SkipDropped PROVE DetInv'
    OBVIOUS
  <1>1. /\ pc = "suppress" /\ pc' = pc /\ ~Alive(dets[i])
        /\ UNCHANGED <<output, dets, det_num, new_count>>
        /\ i' = i + 1 /\ j' = i + 2
    BY DEF SkipDropped, Comparing, NextA
  <1>2. Apart(i', j')
    <2> SUFFICES ASSUME NEW a \in Living, NEW b \in Living, a < b,
                        a < i' \/ (a = i' /\ b < j')
                 PROVE  ~Same(dets[a].id, dets[b].id)
      BY DEF Apart
    <2>1. a \in Nat /\ b \in Nat /\ a # i /\ i \in Nat
      BY <1>1, LoopFacts DEF Living
    <2>2. a < i
      BY <1>1, <2>1
    <2> QED  BY <1>1, <2>2, LoopFacts DEF Apart
  <1> QED  BY <1>1, <1>2, LoopFacts, MoveOn

LEMMA ComparedStep == DetInv /\ Compared => DetInv'
PROOF
  <1> SUFFICES ASSUME DetInv, Compared PROVE DetInv'
    OBVIOUS
  <1>1. /\ pc = "suppress" /\ pc' = pc /\ j > det_num
        /\ UNCHANGED <<output, dets, det_num, new_count>>
        /\ i' = i + 1 /\ j' = i + 2
    BY DEF Compared, Comparing, NextA
  <1>2. Apart(i', j')
    <2> SUFFICES ASSUME NEW a \in Living, NEW b \in Living, a < b,
                        a < i' \/ (a = i' /\ b < j')
                 PROVE  ~Same(dets[a].id, dets[b].id)
      BY DEF Apart
    <2>1. /\ a \in Nat /\ b \in Nat /\ i \in Nat /\ j \in Nat
          /\ b <= Len(dets) /\ det_num = Len(dets) /\ Len(dets) \in Nat
      BY <1>1, LoopFacts DEF Living, Places
    <2>2. a < i \/ (a = i /\ b < j)
      BY <1>1, <2>1
    <2> QED  BY <1>1, <2>2, LoopFacts DEF Apart
  <1> QED  BY <1>1, <1>2, LoopFacts, MoveOn

LEMMA LivingIsFinite ==
  ASSUME Len(dets) \in Nat
  PROVE  IsFiniteSet(Living) /\ Cardinality(Living) \in Nat
PROOF
  <1>1. \A n \in Nat : IsFiniteSet(1..n)
    BY FS_Interval
  <1>2. IsFiniteSet(Places) /\ Living \in SUBSET Places
    BY <1>1 DEF Places, Living
  <1>3. IsFiniteSet(Living)
    BY <1>2, FS_Subset
  <1> QED  BY <1>3, FS_CardinalityType

LEMMA CompareStep == DetInv /\ Compare => DetInv'
PROOF
  <1> SUFFICES ASSUME DetInv, Compare PROVE DetInv'
    OBVIOUS
  <1>1. /\ pc = "suppress" /\ pc' = pc /\ i <= det_num /\ j <= det_num /\ Alive(dets[i])
        /\ UNCHANGED <<output, det_num, i>> /\ j' = j + 1
    BY DEF Compare, Comparing
  <1>2. /\ output \in [Rows -> Outputs] /\ dets \in Seq(Entries)
        /\ i \in Nat \ {0} /\ j \in Nat /\ i < j
        /\ det_num = Len(dets) /\ Len(dets) \in Nat
        /\ Sorted /\ Apart(i, j) /\ Covered(i) /\ new_count = Cardinality(Living)
        /\ \A k \in Places : k \in Nat /\ dets[k] \in Entries
        /\ Living \subseteq Places
    BY <1>1, LoopFacts
  <1>3. i \in Places /\ j \in Places /\ i \in Living
    BY <1>1, <1>2 DEF Places, Living
  <1>4. Drops(dets[i], dets[j]) <=> j \in Living /\ Same(dets[i].id, dets[j].id)
    BY <1>2, <1>3, SameOfEntries DEF Drops, Living
  <1>5. CASE Drops(dets[i], dets[j])
    <2> DEFINE e == [dets[j] EXCEPT !.score = 0]
    <2>1. dets' = [dets EXCEPT ![j] = e] /\ new_count' = new_count - 1
      BY <1>5 DEF Compare
    <2>2. e \in Entries /\ e.id = dets[j].id /\ ~Alive(e)
      BY <1>2, <1>3, DropEntry
    <2>3. /\ dets' \in Seq(Entries) /\ Len(dets') = Len(dets)
          /\ \A k \in Places : dets'[k] = IF k = j THEN e ELSE dets[k]
      <3> HIDE DEF e
      <3> QED  BY <1>2, <1>3, <2>1, <2>2, ExceptSeq DEF Places
    <2>4. Places' = Places /\ \A k \in Places : dets'[k].id = dets[k].id
      <3> HIDE DEF e
      <3> QED  BY <2>2, <2>3 DEF Places
    <2>5. Living' = Living \ {j} /\ j \in Living
      <3> HIDE DEF e
      <3> QED  BY <1>4, <1>5, <2>2, <2>3, <2>4 DEF Living
    <2>6. new_count' = Cardinality(Living')
      <3>1. Cardinality(Living \ {j}) = Cardinality(Living) - 1
        BY <1>2, <2>5, LivingIsFinite, FS_RemoveElement
      <3> QED  BY <1>2, <2>1, <2>5, <3>1
    <2>7. Apart(i, j)'
      <3> SUFFICES ASSUME NEW a \in Living', NEW b \in Living', a < b,
                          a < i \/ (a = i /\ b < j + 1)
                   PROVE  ~Same(dets[a].id, dets[b].id)
        BY <1>1, <1>2, <2>4, <2>5, RowsStay DEF Apart
      <3>1. a \in Living /\ b \in Living /\ b # j /\ b \in Nat
        BY <1>2, <2>5
      <3>2. a < i \/ (a = i /\ b < j)
        BY <1>2, <3>1
      <3> QED  BY <1>2, <3>1, <3>2 DEF Apart
    <2>8. Covered(i)'
      <3> SUFFICES ASSUME NEW n \in Candidates
                   PROVE  \E k \in Living' :
                            \/ dets[k].id = n
                            \/ k <= i /\ Same(dets[k].id, n) /\ Score(dets[k].id) >= Score(n)
        BY <1>1, <1>2, <2>4, <2>5, RowsStay DEF Covered
      <3>1. PICK k \in Living :
              \/ dets[k].id = n
              \/ k <= i /\ Same(dets[k].id, n) /\ Score(dets[k].id) >= Score(n)
        BY <1>2 DEF Covered
      <3>2. CASE k # j
        BY <2>5, <3>1, <3>2
      <3>3. CASE k = j
        <4>1. dets[j].id = n
          BY <1>2, <3>1, <3>3
        <4>2. Same(dets[i].id, n)
          BY <1>4, <1>5, <4>1
        <4>3. Score(dets[i].id) >= Score(n)
          BY <1>2, <1>3, <4>1 DEF Sorted
        <4>4. i \in Living' /\ i <= i
          BY <1>2, <1>3, <2>5
        <4> QED  BY <4>2, <4>3, <4>4
      <3> QED  BY <3>2, <3>3
    <2>9. Sorted'
      BY <1>1, <1>2, <2>4, RowsStay DEF Sorted
    <2> QED  BY <1>1, <1>2, <2>3, <2>6, <2>7, <2>8, <2>9, RowsStay
         DEF DetInv, DetTypeOK, Parsing, Looping, Erasing, Leaving, CountIsLength,
             Afterwards, Before, Rows
  <1>6. CASE ~Drops(dets[i], dets[j])
    <2>1. UNCHANGED <<dets, new_count>>
      BY <1>6 DEF Compare
    <2>2. Apart(i', j')
      <3> SUFFICES ASSUME NEW a \in Living, NEW b \in Living, a < b,
                          a < i' \/ (a = i' /\ b < j')
                   PROVE  ~Same(dets[a].id, dets[b].id)
        BY DEF Apart
      <3>1. a < i \/ (a = i /\ b < j) \/ (a = i /\ b = j)
        BY <1>1, <1>2
      <3> QED  BY <1>2, <1>4, <1>6, <3>1 DEF Apart
    <2> QED  BY <1>1, <1>2, <2>1, <2>2, MoveOn
  <1> QED  BY <1>5, <1>6

LEMMA SuppressedStep == DetInv /\ Suppressed => DetInv'
PROOF
  <1> SUFFICES ASSUME DetInv, Suppressed PROVE DetInv'
    OBVIOUS
  <1>1. /\ pc = "suppress" /\ pc' = "erase" /\ i > det_num /\ i' = 1
        /\ UNCHANGED <<output, dets, det_num, new_count, j>>
    BY DEF Suppressed
  <1>2. /\ output \in [Rows -> Outputs] /\ dets \in Seq(Entries)
        /\ i \in Nat \ {0} /\ j \in Nat
        /\ det_num = Len(dets) /\ Len(dets) \in Nat
        /\ Apart(i, j) /\ Covered(i) /\ new_count = Cardinality(Living)
        /\ \A k \in Places : k \in Nat /\ k <= Len(dets)
        /\ Living \subseteq Places
    BY <1>1, LoopFacts DEF Places
  <1>3. Places' = Places /\ Living' = Living
    BY <1>1 DEF Places, Living
  <1>4. AllApart'
    <2> SUFFICES ASSUME NEW a \in Living, NEW b \in Living, a < b
                 PROVE  ~Same(dets[a].id, dets[b].id)
      BY <1>1, <1>3, RowsStay DEF AllApart
    <2>1. a < i
      BY <1>1, <1>2
    <2> QED  BY <1>2, <2>1 DEF Apart
  <1>5. AllCovered'
    <2> SUFFICES ASSUME NEW n \in Candidates
                 PROVE  \E k \in Living :
                          dets[k].id = n \/ (Same(dets[k].id, n) /\ Score(dets[k].id) >= Score(n))
      BY <1>1, <1>3, RowsStay DEF AllCovered
    <2> QED  BY <1>2 DEF Covered
  <1>6. Erasing'
    <2>1. \A k \in Places' : ~(k < i')
      BY <1>1, <1>3 DEF Places
    <2> QED  BY <1>1, <1>2, <1>3, <1>4, <1>5, <2>1 DEF Erasing
  <1> QED  BY <1>1, <1>2, <1>6, RowsStay
       DEF DetInv, DetTypeOK, Parsing, Looping, Leaving, CountIsLength,
           Afterwards, Before, Rows

-----------------------------------------------------------------------------
(* The loop that erases *)

LEMMA EraseFacts ==
  ASSUME DetInv, pc = "erase"
  PROVE  /\ output \in [Rows -> Outputs] /\ dets \in Seq(Entries)
         /\ i \in Nat \ {0} /\ j \in Nat /\ Len(dets) \in Nat
         /\ AllApart /\ AllCovered /\ new_count = Cardinality(Living)
         /\ \A k \in Places : k < i => k \in Living
         /\ \A k \in Places : k \in Nat /\ dets[k] \in Entries
         /\ Living \subseteq Places
PROOF
  <1>1. dets \in Seq(Entries) /\ Len(dets) \in Nat
    BY LenProperties DEF DetInv, DetTypeOK, Before
  <1>2. \A k \in Places : k \in Nat /\ dets[k] \in Entries
    BY <1>1, ElementOfSeq DEF Places
  <1> QED  BY <1>1, <1>2 DEF DetInv, DetTypeOK, Erasing, Living

LEMMA EraseStep == DetInv /\ Erase => DetInv'
PROOF
  <1> SUFFICES ASSUME DetInv, Erase PROVE DetInv'
    OBVIOUS
  <1>1. /\ pc = "erase" /\ pc' = pc /\ i <= Len(dets)
        /\ UNCHANGED <<output, det_num, new_count, j>>
    BY DEF Erase
  <1>2. /\ output \in [Rows -> Outputs] /\ dets \in Seq(Entries)
        /\ i \in Nat \ {0} /\ j \in Nat /\ Len(dets) \in Nat
        /\ AllApart /\ AllCovered /\ new_count = Cardinality(Living)
        /\ \A k \in Places : k < i => k \in Living
        /\ \A k \in Places : k \in Nat /\ dets[k] \in Entries
        /\ Living \subseteq Places
    BY <1>1, EraseFacts
  <1>3. i \in Places
    BY <1>1, <1>2 DEF Places
  <1>4. CASE Alive(dets[i])
    <2>1. i' = i + 1 /\ dets' = dets
      BY <1>4 DEF Erase
    <2>2. Places' = Places /\ Living' = Living
      BY <2>1 DEF Places, Living
    <2>3. \A k \in Places : k < i + 1 => k \in Living
      <3>1. \A k \in Places : k < i + 1 => k < i \/ k = i
        BY <1>2
      <3>2. i \in Living
        BY <1>3, <1>4 DEF Living
      <3> QED  BY <1>2, <3>1, <3>2
    <2>4. AllApart' /\ AllCovered'
      BY <1>1, <1>2, <2>1, <2>2, RowsStay DEF AllApart, AllCovered
    <2>5. Erasing'
      BY <1>1, <1>2, <2>1, <2>2, <2>3, <2>4 DEF Erasing
    <2> QED  BY <1>1, <1>2, <2>1, <2>5, RowsStay
         DEF DetInv, DetTypeOK, Parsing, Looping, Leaving, CountIsLength, Afterwards, Before, Rows
  <1>5. CASE ~Alive(dets[i])
    <2> DEFINE g(n) == IF n < i THEN n ELSE n + 1
    <2>1. i' = i /\ dets' = Without(dets, i)
      BY <1>5 DEF Erase, AfterErase
    <2>2. i \notin Living
      BY <1>5 DEF Living
    <2>3. Len(dets) - 1 \in Nat
      BY <1>1, <1>2
    <2>4. \A n \in 1..Len(dets) - 1 : g(n) \in Places
      BY <1>2, <2>3 DEF Places
    <2>5. dets' = [n \in 1..Len(dets) - 1 |-> dets[g(n)]]
      BY <2>1 DEF Without
    <2>6. dets' \in Seq(Entries)
      <3>1. dets' \in [1..Len(dets) - 1 -> Entries]
        <4> HIDE DEF g
        <4> QED  BY <1>2, <2>4, <2>5
      <3> QED  BY <2>3, <3>1, SeqDef
    <2>7. Len(dets') = Len(dets) - 1
      <3>1. Len(dets') \in Nat /\ DOMAIN dets' = 1..Len(dets')
        BY <2>6, LenProperties
      <3>2. DOMAIN dets' = 1..Len(dets) - 1
        BY <2>5
      <3> QED  BY <2>3, <3>1, <3>2, SameLength
    <2>8. Places' = 1..Len(dets) - 1
      BY <2>7 DEF Places
    <2>9. \A n \in Living' : n \in Nat /\ g(n) \in Living /\ dets'[n] = dets[g(n)]
      <3> SUFFICES ASSUME NEW n \in Living'
                   PROVE  n \in Nat /\ g(n) \in Living /\ dets'[n] = dets[g(n)]
        OBVIOUS
      <3>1. n \in 1..Len(dets) - 1 /\ Alive(dets'[n])
        BY <2>8 DEF Living
      <3>2. n \in Nat /\ g(n) \in Places
        BY <2>3, <2>4, <3>1
      <3>3. dets'[n] = dets[g(n)]
        <4> HIDE DEF g
        <4> QED  BY <2>5, <3>1
      <3> HIDE DEF g
      <3> QED  BY <3>1, <3>2, <3>3 DEF Living
    <2>10. \A k \in Living : \E n \in Living' : g(n) = k
      <3> SUFFICES ASSUME NEW k \in Living PROVE \E n \in Living' : g(n) = k
        OBVIOUS
      <3> DEFINE n == IF k < i THEN k ELSE k - 1
      <3>1. k \in Places /\ k \in Nat /\ k # i /\ Alive(dets[k])
        BY <1>2, <2>2 DEF Living
      <3>2. n \in 1..Len(dets) - 1 /\ g(n) = k
        BY <1>1, <1>2, <2>3, <3>1 DEF Places
      <3>3. dets'[n] = dets[k]
        <4> HIDE DEF g, n
        <4> QED  BY <2>5, <3>2
      <3>4. n \in Living'
        <4> HIDE DEF n
        <4> QED  BY <2>8, <3>1, <3>2, <3>3 DEF Living
      <3> QED  BY <3>2, <3>4
    <2>11. \A a, b \in Living' : /\ a < b => g(a) < g(b)
                                 /\ g(a) = g(b) => a = b
      BY <1>2, <2>9
    <2>12. Cardinality(Living') = Cardinality(Living)
      <3> DEFINE f == [n \in Living' |-> g(n)]
      <3>1. /\ f \in [Living' -> Living]
            /\ \A a, b \in Living' : f[a] = f[b] => a = b
            /\ \A k \in Living : \E n \in Living' : f[n] = k
        <4> HIDE DEF g
        <4> QED  BY <2>9, <2>10, <2>11
      <3>2. f \in Bijection(Living', Living)
        <4> HIDE DEF f
        <4> QED  BY <3>1, Fun_IsBij
      <3>3. IsFiniteSet(Living')
        <4>1. \A n \in Nat : IsFiniteSet(1..n)
          BY FS_Interval
        <4>2. IsFiniteSet(Places') /\ Living' \in SUBSET Places'
          BY <2>3, <2>8, <4>1 DEF Living
        <4> QED  BY <4>2, FS_Subset
      <3>4. ExistsBijection(Living', Living)
        BY <3>2 DEF ExistsBijection
      <3> QED  BY <3>3, <3>4, FS_Bijection
    <2>13. AllApart'
      <3> SUFFICES ASSUME NEW a \in Living', NEW b \in Living', a < b
                   PROVE  ~Same(dets'[a].id, dets'[b].id)
        BY <1>1, RowsStay DEF AllApart
      <3>1. g(a) \in Living /\ g(b) \in Living /\ g(a) < g(b)
        BY <2>9, <2>11
      <3> HIDE DEF g
      <3> QED  BY <1>2, <2>9, <3>1 DEF AllApart
    <2>14. AllCovered'
      <3> SUFFICES ASSUME NEW n \in Candidates
                   PROVE  \E k \in Living' :
                            \/ dets'[k].id = n
                            \/ Same(dets'[k].id, n) /\ Score(dets'[k].id) >= Score(n)
        BY <1>1, RowsStay DEF AllCovered
      <3>1. PICK k \in Living :
              dets[k].id = n \/ (Same(dets[k].id, n) /\ Score(dets[k].id) >= Score(n))
        BY <1>2 DEF AllCovered
      <3>2. PICK m \in Living' : g(m) = k
        BY <2>10
      <3>3. dets'[m] = dets[k]
        BY <2>9, <3>2
      <3> QED  BY <3>1, <3>3
    <2>15. \A k \in Places' : k < i => k \in Living'
      <3> SUFFICES ASSUME NEW k \in Places', k < i PROVE k \in Living'
        OBVIOUS
      <3>1. k \in Places /\ g(k) = k /\ k \in 1..Len(dets) - 1
        BY <2>3, <2>8 DEF Places
      <3>2. Alive(dets[k])
        BY <1>2, <3>1 DEF Living
      <3>3. dets'[k] = dets[k]
        <4> HIDE DEF g
        <4> QED  BY <2>5, <3>1
      <3> QED  BY <3>2, <3>3 DEF Living
    <2>16. Erasing'
      BY <1>1, <1>2, <2>1, <2>12, <2>13, <2>14, <2>15 DEF Erasing
    <2> QED  BY <1>1, <1>2, <2>1, <2>6, <2>16, RowsStay
         DEF DetInv, DetTypeOK, Parsing, Looping, Leaving, CountIsLength, Afterwards, Before, Rows
  <1> QED  BY <1>4, <1>5

LEMMA ErasedStep == DetInv /\ Erased => DetInv'
PROOF
  <1> SUFFICES ASSUME DetInv, Erased PROVE DetInv'
    OBVIOUS
  <1>1. /\ pc = "erase" /\ pc' = "correctYoloBoxes" /\ i > Len(dets)
        /\ det_num' = new_count /\ UNCHANGED <<output, dets, new_count, i, j>>
    BY DEF Erased
  <1>2. /\ output \in [Rows -> Outputs] /\ dets \in Seq(Entries)
        /\ i \in Nat \ {0} /\ j \in Nat /\ Len(dets) \in Nat
        /\ AllApart /\ AllCovered /\ new_count = Cardinality(Living)
        /\ \A k \in Places : k < i => k \in Living
        /\ Living \subseteq Places
    BY <1>1, EraseFacts
  <1>3. Places' = Places /\ Living' = Living
    BY <1>1 DEF Places, Living
  <1>4. Living = Places
    <2>1. \A k \in Places : k < i
      BY <1>1, <1>2 DEF Places
    <2> QED  BY <1>2, <2>1
  <1>5. det_num' = Len(dets)
    <2>1. \A n \in Nat : Cardinality(1..n) = IF 1 > n THEN 0 ELSE n - 1 + 1
      BY FS_Interval
    <2>2. Cardinality(Places) = Len(dets)
      BY <1>2, <2>1 DEF Places
    <2> QED  BY <1>1, <1>2, <1>4, <2>2
  <1>6. AllApart' /\ AllCovered'
    BY <1>1, <1>2, <1>3, RowsStay DEF AllApart, AllCovered
  <1> QED  BY <1>1, <1>2, <1>3, <1>4, <1>5, <1>6, RowsStay
       DEF DetInv, DetTypeOK, Parsing, Looping, Erasing, Leaving, CountIsLength,
           Afterwards, Before, Rows

-----------------------------------------------------------------------------
(* Back to the picture: boxes change, their number does not.               *)
LEMMA RestStep == DetInv /\ (correctYoloBoxes \/ Remap \/ ChooseBest) => DetInv'
PROOF
  <1> SUFFICES ASSUME DetInv, correctYoloBoxes \/ Remap \/ ChooseBest PROVE DetInv'
    OBVIOUS
  <1>1. /\ pc \in Afterwards /\ pc' \in Afterwards \ Before
        /\ UNCHANGED <<output, det_num, i, j>>
    BY DEF correctYoloBoxes, Remap, ChooseBest, Afterwards, Before
  <1>2. /\ output \in [Rows -> Outputs] /\ i \in Nat \ {0} /\ j \in Nat
        /\ det_num = Len(dets)
    BY <1>1 DEF DetInv, DetTypeOK, CountIsLength
  <1>3. PICK S : dets \in Seq(S)
    BY DEF DetInv, DetTypeOK
  <1>4. Len(dets) \in Nat
    BY <1>3, LenProperties
  <1>5. (\E T : dets' \in Seq(T)) /\ Len(dets') = Len(dets)
    <2>1. CASE ChooseBest
      BY <1>3, <2>1 DEF ChooseBest
    <2>2. CASE correctYoloBoxes \/ Remap
      <3> DEFINE T == {dets'[k] : k \in 1..Len(dets)}
      <3>1. dets' \in [1..Len(dets) -> T] /\ DOMAIN dets' = 1..Len(dets)
        BY <2>2 DEF correctYoloBoxes, Remap
      <3> HIDE DEF T
      <3>2. dets' \in Seq(T)
        BY <1>4, <3>1, SeqDef
      <3>3. Len(dets') \in Nat /\ DOMAIN dets' = 1..Len(dets')
        BY <3>2, LenProperties
      <3> QED  BY <1>4, <3>1, <3>2, <3>3, SameLength
    <2> QED  BY <2>1, <2>2
  <1> QED  BY <1>1, <1>2, <1>5, RowsStay
       DEF DetInv, DetTypeOK, Parsing, Looping, Erasing, Leaving, CountIsLength,
           Afterwards, Before, Rows

LEMMA DetectStep == DetInv /\ [DetectNext]_detVars => DetInv'
PROOF
  <1> SUFFICES ASSUME DetInv, [DetectNext]_detVars PROVE DetInv'
    OBVIOUS
  <1>1. CASE UNCHANGED detVars
    <2>1. UNCHANGED <<output, pc, dets, det_num, new_count, i, j>>
      BY <1>1 DEF detVars
    <2>2. Places' = Places /\ Living' = Living
      BY <2>1 DEF Places, Living
    <2> QED  BY <2>1, <2>2, RowsStay
         DEF DetInv, DetTypeOK, Parsing, Looping, Erasing, Leaving, CountIsLength, Rows,
             Sorted, Apart, Covered, AllApart, AllCovered
  <1>2. CASE DetectNext
    BY <1>2, ParseStep, SortStep, SkipStep, CompareStep, ComparedStep, SuppressedStep,
       EraseStep, ErasedStep, RestStep DEF DetectNext
  <1> QED  BY <1>1, <1>2

-----------------------------------------------------------------------------
LEMMA InvNoTwo == DetInv => NoTwoOfOneBall
PROOF
  <1> SUFFICES ASSUME DetInv, pc = "correctYoloBoxes",
                      NEW a \in 1..Len(dets), NEW b \in 1..Len(dets), a # b
               PROVE  Alive(dets[a]) /\ ~SameBall(dets[a], dets[b])
    BY DEF NoTwoOfOneBall
  <1>1. /\ output \in [Rows -> Outputs] /\ dets \in Seq(Entries)
        /\ Living = 1..Len(dets) /\ AllApart
    BY DEF DetInv, DetTypeOK, Leaving, Before, Places
  <1>2. dets[a] \in Entries /\ dets[b] \in Entries /\ Len(dets) \in Nat
    BY <1>1, ElementOfSeq, LenProperties
  <1>3. dets[a].id \in Rows /\ dets[b].id \in Rows
    BY <1>1, <1>2, EntryFields, RowNumbers
  <1>4. a < b \/ b < a
    BY <1>2
  <1>5. ~Same(dets[a].id, dets[b].id)
    BY <1>1, <1>3, <1>4, SameIsSymmetric DEF AllApart
  <1> QED  BY <1>1, <1>2, <1>5, SameOfEntries DEF Living

LEMMA InvNoneLost == DetInv => NoBallIsLost
PROOF
  <1> SUFFICES ASSUME DetInv, pc = "correctYoloBoxes",
                      NEW n \in 1..NumBoxes, max_score(output[n]) > conf_thresh
               PROVE  \E k \in 1..Len(dets) :
                        \/ dets[k].id = n
                        \/ /\ SameBall(dets[k], Detection(n))
                           /\ dets[k].score >= max_score(output[n])
    BY DEF NoBallIsLost
  <1>1. /\ output \in [Rows -> Outputs] /\ dets \in Seq(Entries)
        /\ Living = 1..Len(dets) /\ AllCovered
    BY DEF DetInv, DetTypeOK, Leaving, Before, Places
  <1>2. n \in Candidates
    BY DEF Candidates, Score, Rows
  <1>3. PICK k \in Living :
          dets[k].id = n \/ (Same(dets[k].id, n) /\ Score(dets[k].id) >= Score(n))
    BY <1>1, <1>2 DEF AllCovered
  <1>4. dets[k] \in Entries /\ Alive(dets[k]) /\ k \in 1..Len(dets)
    BY <1>1, <1>3, ElementOfSeq DEF Living
  <1>5. Detection(n) \in Entries /\ Detection(n).id = n
    BY <1>2, CandidateAlive DEF Entries
  <1>6. SameBall(dets[k], Detection(n)) <=> Same(dets[k].id, n)
    BY <1>1, <1>4, <1>5, SameOfEntries
  <1>7. dets[k].score = Score(dets[k].id)
    BY <1>1, <1>4, EntryFields
  <1> QED  BY <1>3, <1>4, <1>6, <1>7 DEF Score

(* NMS() leaves at most one detection of a ball.                           *)
THEOREM DetectNoTwoOfOneBall == DetectSpec => []NoTwoOfOneBall
PROOF
  BY InitInv, DetectStep, InvNoTwo, PTL DEF DetectSpec

(* NMS() leaves at least one, and the surest.                              *)
THEOREM DetectNoBallIsLost == DetectSpec => []NoBallIsLost
PROOF
  BY InitInv, DetectStep, InvNoneLost, PTL DEF DetectSpec

(* The count main() goes through the detections by is their number.        *)
THEOREM DetectCountIsLength == DetectSpec => []CountIsLength
PROOF
  <1>1. DetInv => CountIsLength
    BY DEF DetInv
  <1> QED  BY InitInv, DetectStep, <1>1, PTL DEF DetectSpec

-----------------------------------------------------------------------------
(* The choice.  A box follows its row of the output: first as it lies in   *)
(* the model's input, then as it lies in the picture.                      *)
InInput(n)   == ToPicture(output[n].bbox, model_w, model_w)
InPicture(n) == ToPicture(InInput(n), cam[1], cam[2])

IsOf(d, b) == {"bbox", "id"} \subseteq DOMAIN d /\ d.id \in Rows /\ d.bbox = b

BoxesFollow ==
  /\ cam \in Cameras
  /\ pc = "remap" => \A k \in Places : IsOf(dets[k], InInput(dets[k].id))
  /\ pc \in {"choose", "done"} => \A k \in Places : IsOf(dets[k], InPicture(dets[k].id))

BestIsLargest ==
  pc = "done" /\ dets # <<>> =>
    /\ best \in Places
    /\ \A k \in Places : Area(dets[k].bbox) <= Area(dets[best].bbox)

ChoiceInv == DetInv /\ BoxesFollow /\ BestIsLargest

(* A step of boxes back, of all of them: the count is their number.        *)
LEMMA BoxStep ==
  ASSUME DetInv, pc \in Afterwards, NEW w, NEW h,
         dets' = [k \in 1..Len(dets) |->
                    IF k <= det_num THEN [dets[k] EXCEPT !.bbox = ToPicture(@, w, h)]
                    ELSE dets[k]],
         \A k \in Places : {"bbox", "id"} \subseteq DOMAIN dets[k] /\ dets[k].id \in Rows
  PROVE  /\ Places' = Places
         /\ \A k \in Places : /\ {"bbox", "id"} \subseteq DOMAIN dets'[k]
                              /\ dets'[k].id = dets[k].id
                              /\ dets'[k].bbox = ToPicture(dets[k].bbox, w, h)
PROOF
  <1>1. det_num = Len(dets)
    BY DEF DetInv, CountIsLength
  <1>2. PICK S : dets \in Seq(S)
    BY DEF DetInv, DetTypeOK
  <1>3. Len(dets) \in Nat
    BY <1>2, LenProperties
  <1>4. Places' = Places
    <2> DEFINE T == {dets'[k] : k \in 1..Len(dets)}
    <2>1. dets' \in [1..Len(dets) -> T] /\ DOMAIN dets' = 1..Len(dets)
      OBVIOUS
    <2> HIDE DEF T
    <2>2. dets' \in Seq(T)
      BY <1>3, <2>1, SeqDef
    <2>3. Len(dets') \in Nat /\ DOMAIN dets' = 1..Len(dets')
      BY <2>2, LenProperties
    <2> QED  BY <1>3, <2>1, <2>3, SameLength DEF Places
  <1>5. ASSUME NEW k \in Places
        PROVE  dets'[k] = [dets[k] EXCEPT !.bbox = ToPicture(dets[k].bbox, w, h)]
    <2>1. k \in 1..Len(dets) /\ k <= det_num
      BY <1>1, <1>3 DEF Places
    <2> QED  BY <2>1
  <1>6. ASSUME NEW k \in Places
        PROVE  /\ {"bbox", "id"} \subseteq DOMAIN dets'[k]
               /\ dets'[k].id = dets[k].id
               /\ dets'[k].bbox = ToPicture(dets[k].bbox, w, h)
    <2> DEFINE d == dets[k]
               b == ToPicture(dets[k].bbox, w, h)
    <2>1. dets'[k] = [d EXCEPT !.bbox = b] /\ {"bbox", "id"} \subseteq DOMAIN d
      BY <1>5
    <2> HIDE DEF d, b
    <2>2. /\ {"bbox", "id"} \subseteq DOMAIN dets'[k]
          /\ dets'[k].id = d.id /\ dets'[k].bbox = b
      BY <2>1
    <2> QED  BY <2>2 DEF d, b
  <1> QED  BY <1>4, <1>6

LEMMA ChoiceInit == DetectInit => ChoiceInv
PROOF
  BY InitInv DEF ChoiceInv, BoxesFollow, BestIsLargest, DetectInit

LEMMA ChoiceStep == ChoiceInv /\ [DetectNext]_detVars => ChoiceInv'
PROOF
  <1> SUFFICES ASSUME ChoiceInv, [DetectNext]_detVars PROVE BoxesFollow' /\ BestIsLargest'
    BY DetectStep DEF ChoiceInv
  <1>1. DetInv /\ BoxesFollow /\ BestIsLargest
    BY DEF ChoiceInv
  <1>2. output' = output /\ cam' = cam /\ cam \in Cameras
    BY <1>1 DEF DetectNext, detVars, BoxesFollow, getDetections, Sort, SkipDropped, Compare,
                Compared, Suppressed, Erase, Erased, correctYoloBoxes, Remap, ChooseBest
  <1>3. \A n : InInput(n)' = InInput(n) /\ InPicture(n)' = InPicture(n)
    BY <1>2 DEF InInput, InPicture
  <1>4. CASE correctYoloBoxes
    <2>1. pc = "correctYoloBoxes" /\ pc' = "remap"
      BY <1>4 DEF correctYoloBoxes
    <2>2. \A k \in Places : /\ {"bbox", "id"} \subseteq DOMAIN dets[k] /\ dets[k].id \in Rows
                            /\ dets[k].bbox = output[dets[k].id].bbox
      <3> SUFFICES ASSUME NEW k \in Places
                   PROVE  /\ {"bbox", "id"} \subseteq DOMAIN dets[k] /\ dets[k].id \in Rows
                          /\ dets[k].bbox = output[dets[k].id].bbox
        OBVIOUS
      <3>1. output \in [Rows -> Outputs] /\ dets[k] \in Entries
        BY <1>1, <2>1, ElementOfSeq DEF DetInv, DetTypeOK, Before, Places
      <3>2. dets[k].id \in Rows /\ dets[k].bbox = Detection(dets[k].id).bbox
        BY <3>1, EntryFields, RowNumbers
      <3>3. {"bbox", "id"} \subseteq DOMAIN dets[k]
        <4>1. PICK n \in Candidates : dets[k] = Detection(n) \/ dets[k] = Dropped(n)
          BY <3>1 DEF Entries
        <4>2. {"bbox", "id"} \subseteq DOMAIN Detection(n)
          BY DEF Detection
        <4>3. DOMAIN Dropped(n) = DOMAIN Detection(n)
          BY DEF Dropped
        <4> QED  BY <4>1, <4>2, <4>3
      <3> QED  BY <3>2, <3>3 DEF Detection
    <2>3. /\ Places' = Places
          /\ \A k \in Places : /\ {"bbox", "id"} \subseteq DOMAIN dets'[k]
                               /\ dets'[k].id = dets[k].id
                               /\ dets'[k].bbox = ToPicture(dets[k].bbox, model_w, model_w)
      BY <1>1, <1>4, <2>1, <2>2, BoxStep DEF correctYoloBoxes, Afterwards
    <2>4. \A k \in Places' : IsOf(dets[k], InInput(dets[k].id))'
      BY <1>2, <2>2, <2>3 DEF IsOf, InInput, Rows
    <2> QED  BY <1>2, <2>1, <2>4 DEF BoxesFollow, BestIsLargest
  <1>5. CASE Remap
    <2>1. pc = "remap" /\ pc' = "choose"
      BY <1>5 DEF Remap
    <2>2. \A k \in Places : /\ {"bbox", "id"} \subseteq DOMAIN dets[k] /\ dets[k].id \in Rows
                            /\ dets[k].bbox = InInput(dets[k].id)
      BY <1>1, <2>1 DEF BoxesFollow, IsOf
    <2>3. /\ Places' = Places
          /\ \A k \in Places : /\ {"bbox", "id"} \subseteq DOMAIN dets'[k]
                               /\ dets'[k].id = dets[k].id
                               /\ dets'[k].bbox = ToPicture(dets[k].bbox, cam[1], cam[2])
      <3> DEFINE w == cam[1]
                 h == cam[2]
      <3>1. dets' = [k \in 1..Len(dets) |->
                       IF k <= det_num THEN [dets[k] EXCEPT !.bbox = ToPicture(@, w, h)]
                       ELSE dets[k]]
        BY <1>5 DEF Remap
      <3>2. DetInv /\ pc \in Afterwards
        BY <1>1, <2>1 DEF Afterwards
      <3> HIDE DEF w, h
      <3>3. /\ Places' = Places
            /\ \A k \in Places : /\ {"bbox", "id"} \subseteq DOMAIN dets'[k]
                                 /\ dets'[k].id = dets[k].id
                                 /\ dets'[k].bbox = ToPicture(dets[k].bbox, w, h)
        BY <2>2, <3>1, <3>2, BoxStep
      <3> QED  BY <3>3 DEF w, h
    <2>4. \A k \in Places' : IsOf(dets[k], InPicture(dets[k].id))'
      BY <1>2, <1>3, <2>2, <2>3 DEF IsOf, InPicture, Rows
    <2> QED  BY <1>2, <2>1, <2>4 DEF BoxesFollow, BestIsLargest
  <1>6. CASE ChooseBest
    <2>1. pc = "choose" /\ pc' = "done" /\ dets' = dets /\ Places' = Places
      BY <1>6 DEF ChooseBest, Places
    <2>2. BoxesFollow'
      BY <1>1, <1>2, <1>3, <2>1 DEF BoxesFollow, IsOf, Rows
    <2>3. BestIsLargest'
      <3> SUFFICES ASSUME dets # <<>>
                   PROVE  /\ best' \in Places
                          /\ \A k \in Places : Area(dets[k].bbox) <= Area(dets[best'].bbox)
        BY <2>1 DEF BestIsLargest
      <3> QED  BY <1>6 DEF ChooseBest, Places
    <2> QED  BY <2>2, <2>3
  <1>7. CASE UNCHANGED detVars
    BY <1>1, <1>7 DEF detVars, BoxesFollow, BestIsLargest, Places, IsOf, InInput, InPicture, Rows
  <1>8. CASE pc' \in Before
    BY <1>2, <1>8 DEF BoxesFollow, BestIsLargest, Before
  <1>9. ASSUME getDetections \/ Sort \/ SkipDropped \/ Compare \/ Compared \/ Suppressed
               \/ Erase \/ Erased
        PROVE  pc' \in Before
    BY <1>9 DEF getDetections, Sort, SkipDropped, Compare, Compared, Suppressed, Comparing,
                Erase, Erased, Before
  <1> QED  BY <1>4, <1>5, <1>6, <1>7, <1>8, <1>9 DEF DetectNext

-----------------------------------------------------------------------------
(* Boxes and pictures.  The picture is as wide as the model's input, with  *)
(* p rows of padding above it and below: the camera's own 640 by 480 in    *)
(* 640 by 640, where p is 80.                                              *)
AsWide(c) == c[1] = model_w /\ \E p \in Nat : c[2] = model_w - 2 * p

(* A box of the model reaches out to both sides from some column of its    *)
(* input: its anchor's.                                                    *)
SpansAColumn(b) == \E x \in 0..model_w : b[1] <= x /\ x <= b[3]

LEMMA TimesThenDiv ==
  ASSUME NEW x \in Int, NEW m \in Nat \ {0}
  PROVE  (x * m) \div m = x
PROOF
  OBVIOUS

LEMMA Padding ==
  ASSUME NEW p \in Nat, NEW h \in Nat \ {0}, h = model_w - 2 * p
  PROVE  /\ Longer(model_w, h) = model_w /\ Longer(model_w, model_w) = model_w
         /\ pad(model_w, model_w, h) = 0 /\ pad(model_w, model_w, model_w) = 0
         /\ pad(h, model_w, h) = p
PROOF
  <1>1. model_w \in Nat \ {0}
    BY DetectAssumption
  <1>2. Longer(model_w, h) = model_w /\ Longer(model_w, model_w) = model_w
    BY <1>1 DEF Longer, Greatest
  <1>3. (model_w * model_w) \div model_w = model_w /\ (h * model_w) \div model_w = h
    BY <1>1, TimesThenDiv
  <1>4. (model_w - h) \div 2 = p /\ (model_w - model_w) \div 2 = 0
    BY <1>1
  <1> QED  BY <1>2, <1>3, <1>4 DEF pad

(* Both ways back together: the columns cut to the picture, the rows cut   *)
(* to it and counted from its first one.                                   *)
LEMMA BothWaysBack ==
  ASSUME NEW p \in Nat, NEW h \in Nat \ {0}, h = model_w - 2 * p,
         NEW b, b[1] \in Int, b[2] \in Int, b[3] \in Int, b[4] \in Int
  PROVE  ToPicture(ToPicture(b, model_w, model_w), model_w, h) =
           <<Greatest(0, b[1]), Greatest(p, b[2]) - p,
             Least(model_w, b[3]), Least(model_w - p, b[4]) - p>>
PROOF
  <1>1. model_w \in Nat \ {0}
    BY DetectAssumption
  <1>2. \A v \in Int : ((v - 0) * model_w) \div model_w = v
    BY <1>1, TimesThenDiv
  <1>3. \A v \in Int : ((v - p) * model_w) \div model_w = v - p
    BY <1>1, TimesThenDiv
  <1> DEFINE c == ToPicture(b, model_w, model_w)
  <1>4. c = <<Greatest(0, b[1]), Greatest(0, b[2]), Least(model_w, b[3]), Least(model_w, b[4])>>
    BY <1>2, Padding DEF ToPicture
  <1>5. /\ c[1] = Greatest(0, b[1]) /\ c[2] = Greatest(0, b[2])
        /\ c[3] = Least(model_w, b[3]) /\ c[4] = Least(model_w, b[4])
        /\ c[1] \in Int /\ c[2] \in Int /\ c[3] \in Int /\ c[4] \in Int
    BY <1>1, <1>4 DEF Least, Greatest
  <1> HIDE DEF c
  <1>6. ToPicture(c, model_w, h) =
          <<Greatest(0, c[1]), Greatest(0, c[2] - p), Least(model_w, c[3]), Least(h, c[4] - p)>>
    BY <1>2, <1>3, <1>5, Padding DEF ToPicture
  <1>7. /\ Greatest(0, c[1]) = Greatest(0, b[1])
        /\ Greatest(0, c[2] - p) = Greatest(p, b[2]) - p
        /\ Least(model_w, c[3]) = Least(model_w, b[3])
        /\ Least(h, c[4] - p) = Least(model_w - p, b[4]) - p
    BY <1>1, <1>5 DEF Least, Greatest
  <1> QED  BY <1>6, <1>7 DEF c

(* So the area main() compares is what is seen of the box, or negative     *)
(* where nothing is.                                                       *)
LEMMA AreaIsSeen ==
  ASSUME NEW p \in Nat, NEW h \in Nat \ {0}, h = model_w - 2 * p,
         NEW b, b[1] \in Int, b[2] \in Int, b[3] \in Int, b[4] \in Int, SpansAColumn(b)
  PROVE  LET a == ToPicture(ToPicture(b, model_w, model_w), model_w, h)
         IN  /\ Area(a) \in Int
             /\ Shared(b, <<0, p, model_w, model_w - p>>) = Greatest(Area(a), 0)
             /\ 0 <= a[1] + a[3] /\ a[1] + a[3] <= 2 * model_w
PROOF
  <1>1. model_w \in Nat \ {0}
    BY DetectAssumption
  <1> DEFINE a == ToPicture(ToPicture(b, model_w, model_w), model_w, h)
             wi == Least(b[3], model_w) - Greatest(b[1], 0)
             hi == Least(b[4], model_w - p) - Greatest(b[2], p)
  <1>2. a = <<Greatest(0, b[1]), Greatest(p, b[2]) - p,
              Least(model_w, b[3]), Least(model_w - p, b[4]) - p>>
    BY BothWaysBack
  <1>3. /\ a[1] = Greatest(0, b[1]) /\ a[2] = Greatest(p, b[2]) - p
        /\ a[3] = Least(model_w, b[3]) /\ a[4] = Least(model_w - p, b[4]) - p
    BY <1>2
  <1> HIDE DEF a
  <1>4. /\ b[1] <= model_w /\ 0 <= b[3] /\ b[1] <= b[3]
    BY <1>1 DEF SpansAColumn
  <1>5. /\ a[1] \in 0..model_w /\ a[3] \in 0..model_w
        /\ a[3] - a[1] = wi /\ wi \in Nat
    BY <1>1, <1>3, <1>4 DEF Least, Greatest
  <1>6. a[4] - a[2] = hi /\ hi \in Int
    BY <1>1, <1>3 DEF Least, Greatest
  <1>7. Shared(b, <<0, p, model_w, model_w - p>>) = Greatest(wi, 0) * Greatest(hi, 0)
    BY DEF Shared
  <1> HIDE DEF wi, hi
  <1>8. Area(a) = wi * hi
    BY <1>5, <1>6 DEF Area
  <1>9. Greatest(wi, 0) = wi
    BY <1>5 DEF Greatest
  <1>10. wi * hi \in Int /\ wi * Greatest(hi, 0) = Greatest(wi * hi, 0)
    <2>1. CASE hi >= 0
      <3>1. wi * hi \in Nat
        BY <1>5, <1>6, <2>1
      <3>2. Greatest(hi, 0) = hi /\ Greatest(wi * hi, 0) = wi * hi
        BY <1>6, <2>1, <3>1 DEF Greatest
      <3> QED  BY <3>1, <3>2
    <2>2. CASE hi < 0
      <3>1. wi * (0 - hi) \in Nat /\ wi * hi = 0 - wi * (0 - hi)
        BY <1>5, <1>6, <2>2
      <3>2. wi * hi \in Int /\ wi * hi <= 0
        BY <1>5, <1>6, <3>1
      <3>3. Greatest(hi, 0) = 0 /\ Greatest(wi * hi, 0) = 0 /\ wi * 0 = 0
        BY <1>5, <1>6, <2>2, <3>2 DEF Greatest
      <3> QED  BY <3>2, <3>3
    <2> QED  BY <1>6, <2>1, <2>2
  <1>11. 0 <= a[1] + a[3] /\ a[1] + a[3] <= 2 * model_w
    BY <1>1, <1>5
  <1> QED  BY <1>7, <1>8, <1>9, <1>10, <1>11 DEF a

LEMMA InvChosen ==
  ASSUME \A c \in Cameras : c[1] >= c[2] => AsWide(c),
         \A o \in Outputs : SpansAColumn(o.bbox), ChoiceInv
  PROVE  ChosenIsSeenBest
PROOF
  <1> SUFFICES ASSUME pc = "done", dets # <<>>, NoSidePadding
               PROVE  /\ \A k \in Places : Seen(k) <= Seen(best)
                      /\ 0 <= dets[best].bbox[1] + dets[best].bbox[3]
                      /\ dets[best].bbox[1] + dets[best].bbox[3] <= 2 * cam[1]
    BY DEF ChosenIsSeenBest, Places
  <1>1. /\ output \in [Rows -> Outputs] /\ cam \in Cameras
        /\ \A k \in Places : IsOf(dets[k], InPicture(dets[k].id))
        /\ best \in Places
        /\ \A k \in Places : Area(dets[k].bbox) <= Area(dets[best].bbox)
    BY DEF ChoiceInv, BoxesFollow, BestIsLargest, DetInv, DetTypeOK
  <1> DEFINE h == cam[2]
  <1>2. cam[1] = model_w /\ h \in Nat \ {0} /\ \E p \in Nat : h = model_w - 2 * p
    BY <1>1, DetectAssumption DEF AsWide, NoSidePadding
  <1>3. PICK p \in Nat : h = model_w - 2 * p
    BY <1>2
  <1>4. /\ pad(cam[1], cam[1], cam[2]) = 0
        /\ pad(cam[2], cam[1], cam[2]) = p
    <2> HIDE DEF h
    <2>1. pad(model_w, model_w, h) = 0 /\ pad(h, model_w, h) = p
      BY <1>2, <1>3, Padding
    <2> QED  BY <1>2, <2>1 DEF h
  <1>5. ASSUME NEW k \in Places
        PROVE  /\ Area(dets[k].bbox) \in Int
               /\ Seen(k) = Greatest(Area(dets[k].bbox), 0)
               /\ 0 <= dets[k].bbox[1] + dets[k].bbox[3]
               /\ dets[k].bbox[1] + dets[k].bbox[3] <= 2 * model_w
    <2> DEFINE b == output[dets[k].id].bbox
               a == dets[k].bbox
    <2>1. dets[k].id \in Rows /\ a = ToPicture(ToPicture(b, model_w, model_w), model_w, h)
      BY <1>1, <1>2 DEF IsOf, InPicture, InInput
    <2>2. output[dets[k].id] \in Outputs
      BY <1>1, <2>1
    <2>3. SpansAColumn(b) /\ b \in Int \X Int \X Int \X Int
      BY <2>2, DetectAssumption
    <2>4. Seen(k) = Shared(b, <<0, p, model_w, model_w - p>>)
      <3>1. model_w - 0 = model_w
        BY DetectAssumption
      <3> QED  BY <1>2, <1>4, <3>1 DEF Seen
    <2> HIDE DEF a, b, h
    <2>5. b[1] \in Int /\ b[2] \in Int /\ b[3] \in Int /\ b[4] \in Int
      BY <2>3
    <2>6. /\ Area(a) \in Int
          /\ Shared(b, <<0, p, model_w, model_w - p>>) = Greatest(Area(a), 0)
          /\ 0 <= a[1] + a[3] /\ a[1] + a[3] <= 2 * model_w
      BY <1>2, <1>3, <2>1, <2>3, <2>5, AreaIsSeen
    <2> QED  BY <2>4, <2>6 DEF a
  <1>6. ASSUME NEW k \in Places PROVE Seen(k) <= Seen(best)
    <2> DEFINE x == Area(dets[k].bbox)
               y == Area(dets[best].bbox)
    <2>1. x \in Int /\ y \in Int /\ x <= y /\ Seen(k) = Greatest(x, 0) /\ Seen(best) = Greatest(y, 0)
      BY <1>1, <1>5
    <2> HIDE DEF x, y
    <2> QED  BY <2>1 DEF Greatest
  <1> QED  BY <1>1, <1>2, <1>5, <1>6

(* main() steers for the detection of which most is seen, at an offset     *)
(* within the picture, although boxes are cut to the picture on two sides  *)
(* only at a time: for boxes that span a column of the model's input, when *)
(* the pictures that have no padding at the sides are as wide as it is.    *)
THEOREM DetectChosenIsSeenBest ==
  ASSUME \A c \in Cameras : c[1] >= c[2] => AsWide(c),
         \A o \in Outputs : SpansAColumn(o.bbox)
  PROVE  DetectSpec => []ChosenIsSeenBest
PROOF
  <1>1. ChoiceInv => ChosenIsSeenBest
    BY InvChosen
  <1> QED  BY ChoiceInit, ChoiceStep, <1>1, PTL DEF DetectSpec
=============================================================================

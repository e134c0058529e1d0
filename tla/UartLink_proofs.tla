--------------------------- MODULE UartLink_proofs ---------------------------
(* That pieces of frames never move a wheel, whatever is cut and however   *)
(* often, and that commands reach the wheels.                              *)
EXTENDS UartLink, SequenceTheorems, TLAPS

(* The checksums no sequence of bytes that can follow makes right, by how  *)
(* many bytes of payload are missing: what follows are frames, or their    *)
(* beginnings, and so a first byte of FRAME_SOF0.                          *)
Hopeless(missing) ==
  CASE missing = 0 -> Int \ {FRAME_SOF0}
    [] missing = 1 -> {6, 16, 18, 19, 20, 83, 172, 184, 185, 232, 233, 235, 236, 237, 246, 248, 251}
    [] missing = 2 -> {6, 18, 19, 92, 185, 190, 249}
    [] missing = 3 -> {19, 20, 172}
    [] missing = 4 -> {6}

LEMMA RepeatsNat == REPEATS \in Nat
  BY UartAssumption

USE DEF FRAME_SOF0, FRAME_SOF1, CMD_INIT, CMD_CONFIG, CMD_SET_SPEED, CMD_STOP, CMD_BRAKE,
        CMD_RESET, Motors

-----------------------------------------------------------------------------
LEMMA XorInt == ASSUME NEW a \in Int, NEW b \in Int PROVE Xor(a, b) \in Int
  BY SMTT(60) DEF Xor, OddBits, Bit

(* The exclusive ors the frames of the program meet.                        *)
LEMMA XorTable ==
  /\ Xor(2, 4) = 6 /\ Xor(6, 0) = 6 /\ Xor(6, 18) = 20 /\ Xor(6, 85) = 83
  /\ Xor(6, 170) = 172 /\ Xor(16, 3) = 19 /\ Xor(18, 0) = 18 /\ Xor(18, 32) = 50
  /\ Xor(18, 170) = 184 /\ Xor(18, 255) = 237 /\ Xor(19, 0) = 19 /\ Xor(19, 1) = 18
  /\ Xor(19, 85) = 70 /\ Xor(19, 170) = 185 /\ Xor(19, 255) = 236 /\ Xor(20, 72) = 92
  /\ Xor(20, 85) = 65 /\ Xor(20, 170) = 190 /\ Xor(83, 85) = 6 /\ Xor(92, 78) = 18
  /\ Xor(92, 170) = 246 /\ Xor(172, 85) = 249 /\ Xor(172, 170) = 6 /\ Xor(184, 85) = 237
  /\ Xor(185, 85) = 236 /\ Xor(185, 170) = 19 /\ Xor(190, 85) = 235 /\ Xor(190, 170) = 20
  /\ Xor(232, 1) = 233 /\ Xor(233, 3) = 234 /\ Xor(235, 1) = 234 /\ Xor(236, 170) = 70
  /\ Xor(237, 170) = 71 /\ Xor(246, 85) = 163 /\ Xor(248, 0) = 248 /\ Xor(249, 1) = 248
  /\ Xor(249, 2) = 251 /\ Xor(249, 16) = 233 /\ Xor(249, 17) = 232 /\ Xor(249, 18) = 235
  /\ Xor(249, 170) = 83 /\ Xor(249, 255) = 6 /\ Xor(251, 4) = 255
  BY SMTT(60) DEF Xor, OddBits, Bit

LEMMA HopelessInt == \A d \in 0..4 : Hopeless(d) \subseteq Int
  BY DEF Hopeless

(* What follows a hopeless checksum leaves it hopeless, and is not it.     *)
Commands == {CMD_INIT, CMD_CONFIG, CMD_SET_SPEED, CMD_STOP, CMD_BRAKE, CMD_RESET}

LEMMA AfterOne ==
  /\ \A x \in Hopeless(1) : Xor(x, 170) \notin {170, 85}
  /\ \A x \in Hopeless(2) : Xor(x, 170) \in Hopeless(1)
  /\ \A x \in Hopeless(3) : Xor(x, 170) \in Hopeless(2)
  /\ \A x \in Hopeless(4) : Xor(x, 170) \in Hopeless(3)
PROOF
  <1>1. \A x \in Hopeless(1) : Xor(x, 170) \notin {170, 85}
    BY SMTT(60) DEF Hopeless, Xor, OddBits, Bit
  <1>2. /\ Xor(6, 170) = 172 /\ Xor(18, 170) = 184 /\ Xor(19, 170) = 185 /\ Xor(20, 170) = 190
        /\ Xor(92, 170) = 246 /\ Xor(172, 170) = 6 /\ Xor(185, 170) = 19 /\ Xor(190, 170) = 20
        /\ Xor(249, 170) = 83
    BY XorTable
  <1> QED  BY <1>1, <1>2, SMTT(60) DEF Hopeless

LEMMA AfterTwo ==
  /\ \A x \in Hopeless(2) : Xor(Xor(x, 170), 85) \notin Commands \cup {170}
  /\ \A x \in Hopeless(3) : Xor(Xor(x, 170), 85) \in {83, 235, 236}
  /\ \A x \in Hopeless(4) : Xor(Xor(x, 170), 85) = 249
PROOF
  <1>1. /\ Xor(6, 170) = 172 /\ Xor(18, 170) = 184 /\ Xor(19, 170) = 185 /\ Xor(20, 170) = 190
        /\ Xor(92, 170) = 246 /\ Xor(172, 170) = 6 /\ Xor(185, 170) = 19 /\ Xor(190, 170) = 20
        /\ Xor(249, 170) = 83
    BY XorTable
  <1>2. /\ Xor(6, 85) = 83 /\ Xor(19, 85) = 70 /\ Xor(20, 85) = 65 /\ Xor(83, 85) = 6
        /\ Xor(172, 85) = 249 /\ Xor(184, 85) = 237 /\ Xor(185, 85) = 236 /\ Xor(190, 85) = 235
        /\ Xor(246, 85) = 163
    BY XorTable
  <1>3. /\ \A x \in Hopeless(3) : Xor(Xor(x, 170), 85) \in {83, 235, 236}
        /\ \A x \in Hopeless(4) : Xor(Xor(x, 170), 85) = 249
    BY <1>1, <1>2 DEF Hopeless
  <1>4. \A x \in Hopeless(2) : Xor(Xor(x, 170), 85) \in {249, 237, 236, 163, 70, 65, 6}
    BY <1>1, <1>2 DEF Hopeless
  <1> QED  BY <1>3, <1>4, SMTT(60) DEF Commands

LEMMA AfterThree ==
  /\ \A x \in Hopeless(3), c \in Commands :
       Xor(Xor(Xor(x, 170), 85), c) \notin {0, 1, 3, 4, 170}
  /\ \A x \in Hopeless(4), c \in Commands : Xor(Xor(Xor(x, 170), 85), c) \in Hopeless(1)
PROOF
  <1>1. \A c \in Commands : Xor(83, c) \notin {0, 1, 3, 4, 170}
    BY SMTT(60) DEF Xor, OddBits, Bit, Commands
  <1>2. \A c \in Commands : Xor(235, c) \notin {0, 1, 3, 4, 170}
    BY SMTT(60) DEF Xor, OddBits, Bit, Commands
  <1>3. \A c \in Commands : Xor(236, c) \notin {0, 1, 3, 4, 170}
    BY SMTT(60) DEF Xor, OddBits, Bit, Commands
  <1>4. /\ Xor(249, 1) = 248 /\ Xor(249, 2) = 251 /\ Xor(249, 16) = 233
        /\ Xor(249, 17) = 232 /\ Xor(249, 18) = 235 /\ Xor(249, 255) = 6
    BY XorTable
  <1>5. \A c \in Commands : Xor(249, c) \in Hopeless(1)
    BY <1>4 DEF Commands, Hopeless
  <1> QED  BY <1>1, <1>2, <1>3, <1>5, AfterTwo, SMTT(60)

LEMMA ChecksumOfNone ==
  ASSUME NEW c \in {CMD_INIT, CMD_RESET}, NEW s, Len(s) = 0
  PROVE  calc_checksum(c, s) = c /\ Xor(c, 0) = c
  BY SMTT(60) DEF calc_checksum, Xor, OddBits, Bit

LEMMA ChecksumOfOne ==
  ASSUME NEW c \in {CMD_STOP, CMD_BRAKE}, NEW m \in Motors, NEW s, Len(s) = 1, s[1] = m
  PROVE  /\ calc_checksum(c, s) = Xor(Xor(c, 1), m)
         /\ calc_checksum(c, s) \in {16, 17, 18, 19}
         /\ Xor(c, 1) \in {16, 19}
  BY SMTT(60) DEF calc_checksum, Xor, OddBits, Bit

(* The checksum c of a speed's frame up to its low byte lo, and k with it.  *)
SpeedSums(m, hi, lo, c, k) ==
  /\ \/ c = 19 /\ m = 0 /\ hi = 0
     \/ c = 18 /\ m = 1 /\ hi = 0
     \/ c = 236 /\ m = 0 /\ hi = 255
     \/ c = 237 /\ m = 1 /\ hi = 255
  /\ k = Xor(c, lo)
  /\ k \in Int /\ k # 170 /\ (lo = 170 => k # 85)

(* The payload s of a speed's frame: its motor and the speed's two bytes.  *)
SpeedBytesOf(m, hi, lo, s) ==
  /\ m \in Motors
  /\ \/ hi = 0 /\ lo \in 0..150
     \/ hi = 255 /\ lo \in 106..255
  /\ Len(s) = 3 /\ s[1] = m /\ s[2] = hi /\ s[3] = lo

LEMMA ChecksumOfSpeed ==
  ASSUME NEW m, NEW hi, NEW lo, NEW s, SpeedBytesOf(m, hi, lo, s)
  PROVE  SpeedSums(m, hi, lo, Xor(Xor(Xor(16, 3), m), hi), calc_checksum(CMD_SET_SPEED, s))
PROOF
  <1> DEFINE c == Xor(Xor(Xor(16, 3), m), hi)
             k == calc_checksum(CMD_SET_SPEED, s)
  <1> USE DEF SpeedBytesOf
  <1>1. /\ Xor(16, 3) = 19 /\ Xor(19, 0) = 19 /\ Xor(19, 1) = 18
        /\ Xor(18, 0) = 18 /\ Xor(18, 255) = 237 /\ Xor(19, 255) = 236
    BY XorTable
  <1>2. \/ c = 19 /\ m = 0 /\ hi = 0
        \/ c = 18 /\ m = 1 /\ hi = 0
        \/ c = 236 /\ m = 0 /\ hi = 255
        \/ c = 237 /\ m = 1 /\ hi = 255
    BY <1>1
  <1> HIDE DEF c
  <1>3. k = Xor(c, lo)
    <2>1. k = OddBits(LAMBDA u : Bit(16, u) + Bit(3, u) + Bit(m, u) + Bit(hi, u) + Bit(lo, u) + Bit(0, u))
      BY DEF calc_checksum, OddBits
    <2>2. \A u \in {1, 2, 4, 8, 16, 32, 64, 128} : Bit(lo, u) \in {0, 1}
      BY DEF Bit
    <2>3. \A u \in {1, 2, 4, 8, 16, 32, 64, 128} :
            (Bit(16, u) + Bit(3, u) + Bit(m, u) + Bit(hi, u) + Bit(lo, u) + Bit(0, u)) % 2 =
              (Bit(c, u) + Bit(lo, u)) % 2
      <3> SUFFICES ASSUME NEW u \in {1, 2, 4, 8, 16, 32, 64, 128}, NEW x \in {0, 1}
                   PROVE  (Bit(16, u) + Bit(3, u) + Bit(m, u) + Bit(hi, u) + x + Bit(0, u)) % 2 =
                            (Bit(c, u) + x) % 2
        BY <2>2
      <3>1. CASE c = 19 /\ m = 0 /\ hi = 0
        BY <3>1 DEF Bit
      <3>2. CASE c = 18 /\ m = 1 /\ hi = 0
        BY <3>2 DEF Bit
      <3>3. CASE c = 236 /\ m = 0 /\ hi = 255
        BY <3>3 DEF Bit
      <3>4. CASE c = 237 /\ m = 1 /\ hi = 255
        BY <3>4 DEF Bit
      <3> QED  BY <1>2, <3>1, <3>2, <3>3, <3>4
    <2> QED  BY <2>1, <2>3, SMTT(60) DEF Xor, OddBits
  <1>4. Xor(c, lo) \in Int /\ Xor(c, lo) # 170 /\ (lo = 170 => Xor(c, lo) # 85)
    <2>1. CASE hi = 0
      BY <1>2, <2>1, SMTT(60) DEF Xor, OddBits, Bit
    <2>2. CASE hi = 255
      <3>0. lo \in 106..255 /\ lo \in Int /\ c \in {236, 237}
        BY <1>2, <2>2
      <3>1. Xor(c, lo) \in Int
        BY <3>0, XorInt
      <3>2. \A x \in 106..255 : Xor(236, x) # 170
        BY SMTT(60) DEF Xor, OddBits, Bit
      <3>3. \A x \in 106..255 : Xor(237, x) # 170
        BY SMTT(60) DEF Xor, OddBits, Bit
      <3>4. Xor(236, 170) = 70 /\ Xor(237, 170) = 71
        BY XorTable
      <3> QED  BY <3>0, <3>1, <3>2, <3>3, <3>4
    <2> QED  BY <2>1, <2>2
  <1> HIDE DEF k
  <1>5. SpeedSums(m, hi, lo, c, k)
    BY <1>2, <1>3, <1>4 DEF SpeedSums
  <1> QED  BY <1>5 DEF c, k

(* A checksum after the first bytes of a frame, up to four of them.        *)
After(x, f, bytes) ==
  CASE bytes = 0 -> x
    [] bytes = 1 -> Xor(x, f[1])
    [] bytes = 2 -> Xor(Xor(x, f[1]), f[2])
    [] bytes = 3 -> Xor(Xor(Xor(x, f[1]), f[2]), f[3])
    [] bytes = 4 -> Xor(Xor(Xor(Xor(x, f[1]), f[2]), f[3]), f[4])

(* The checksum of a frame's first bytes, from its command on.             *)
Chk(f, bytes) ==
  CASE bytes = 4 -> Xor(f[3], f[4])
    [] bytes = 5 -> Xor(Xor(f[3], f[4]), f[5])
    [] bytes = 6 -> Xor(Xor(Xor(f[3], f[4]), f[5]), f[6])
    [] bytes = 7 -> Xor(Xor(Xor(Xor(f[3], f[4]), f[5]), f[6]), f[7])
    [] bytes = 8 -> Xor(Xor(Xor(Xor(Xor(f[3], f[4]), f[5]), f[6]), f[7]), f[8])

Headed(f) ==
  /\ f[1] = FRAME_SOF0 /\ f[2] = FRAME_SOF1
  /\ \/ f[3] = CMD_INIT /\ f[4] = 0 /\ f[5] = 1
     \/ f[3] = CMD_CONFIG /\ f[4] = 4 /\ f[5] = 18
     \/ f[3] = CMD_SET_SPEED /\ f[4] = 3 /\ f[5] \in Motors
     \/ f[3] \in {CMD_STOP, CMD_BRAKE} /\ f[4] = 1 /\ f[5] \in Motors
     \/ f[3] = CMD_RESET /\ f[4] = 0 /\ f[5] = 255

LEMMA AfterFour ==
  ASSUME NEW f, Headed(f), NEW x \in Hopeless(4)
  PROVE  After(x, f, 4) # f[5] /\ After(x, f, 4) # 170
PROOF
  <1>1. Xor(Xor(x, 170), 85) = 249
    BY AfterTwo
  <1>2. After(x, f, 4) = Xor(Xor(249, f[3]), f[4])
    BY <1>1, SMTT(60) DEF After, Headed
  <1>3. /\ Xor(249, 1) = 248 /\ Xor(249, 2) = 251 /\ Xor(249, 16) = 233
        /\ Xor(249, 17) = 232 /\ Xor(249, 18) = 235 /\ Xor(249, 255) = 6
    BY XorTable
  <1>4. /\ Xor(248, 0) = 248 /\ Xor(251, 4) = 255 /\ Xor(233, 3) = 234
        /\ Xor(232, 1) = 233 /\ Xor(235, 1) = 234 /\ Xor(6, 0) = 6
    BY XorTable
  <1> QED  BY <1>2, <1>3, <1>4 DEF Headed

LEMMA StaysHopeless ==
  ASSUME NEW f, Headed(f), NEW p \in 0..4, NEW d \in 0..4, p + d <= 4, NEW x \in Hopeless(p + d)
  PROVE  After(x, f, p) \in Hopeless(d)
PROOF
  <1>1. f[1] = 170 /\ f[2] = 85 /\ f[3] \in Commands /\ f[4] \in {0, 1, 3, 4} /\ x \in Int
    BY HopelessInt DEF Headed, Commands
  <1>2. After(x, f, p) \in Int
    BY <1>1, XorInt DEF After, Commands
  <1>3. CASE p = 0
    BY <1>3 DEF After
  <1>4. CASE p = 1
    <2>1. After(x, f, p) = Xor(x, 170)
      BY <1>1, <1>4 DEF After
    <2>2. CASE d = 0
      BY <1>2, <1>4, <2>1, <2>2, AfterOne DEF Hopeless
    <2> QED  BY <1>4, <2>1, <2>2, AfterOne
  <1>5. CASE p = 2
    <2>1. After(x, f, p) = Xor(Xor(x, 170), 85)
      BY <1>1, <1>5 DEF After
    <2>2. CASE d = 0
      BY <1>2, <1>5, <2>1, <2>2, AfterTwo DEF Hopeless
    <2>3. CASE d # 0
      <3>1. p + d \in {3, 4}
        BY <1>5, <2>3
      <3> QED  BY <1>5, <2>1, <3>1, AfterTwo DEF Hopeless
    <2> QED  BY <2>2, <2>3
  <1>6. CASE p = 3
    <2>1. After(x, f, p) = Xor(Xor(Xor(x, 170), 85), f[3])
      BY <1>1, <1>6 DEF After
    <2>2. CASE d = 0
      BY <1>1, <1>2, <1>6, <2>1, <2>2, AfterThree DEF Hopeless
    <2> QED  BY <1>1, <1>6, <2>1, <2>2, AfterThree
  <1>7. CASE p = 4
    BY <1>2, <1>7, AfterFour DEF Hopeless
  <1> QED  BY <1>3, <1>4, <1>5, <1>6, <1>7

LEMMA NeverRight ==
  ASSUME NEW f, Headed(f), NEW p \in 0..4, NEW x \in Hopeless(p)
  PROVE  After(x, f, p) # f[p + 1]
PROOF
  <1>1. f[1] = 170 /\ f[2] = 85 /\ f[3] \in Commands /\ f[4] \in {0, 1, 3, 4}
    BY DEF Headed, Commands
  <1>2. CASE p = 0
    BY <1>1, <1>2 DEF After, Hopeless
  <1>3. CASE p = 1
    BY <1>1, <1>3, AfterOne DEF After
  <1>4. CASE p = 2
    BY <1>1, <1>4, AfterTwo DEF After
  <1>5. CASE p = 3
    BY <1>1, <1>5, AfterThree DEF After
  <1>6. CASE p = 4
    BY <1>6, AfterFour
  <1> QED  BY <1>2, <1>3, <1>4, <1>5, <1>6

-----------------------------------------------------------------------------
(* What the driver writes.  Wherever it is cut behind its header, the      *)
(* checksum so far is hopeless for what is missing; and it does not end in *)
(* what looks like a beginning.                                            *)
Good(f) ==
  /\ f \in Seq(Int) /\ Headed(f) /\ Len(f) = 5 + f[4]
  /\ \A p \in 4..Len(f) - 1 : Chk(f, p) \in Hopeless(Len(f) - 1 - p)
  /\ f[Len(f)] = Chk(f, Len(f) - 1)
  /\ \A p \in 2..Len(f) : f[p] = 170 => p = Len(f) - 1 /\ f[Len(f)] # 85

Framed(f, cmd, payload) ==
  /\ f \in Seq(Int) /\ Len(f) = 5 + Len(payload)
  /\ f[1] = 170 /\ f[2] = 85
  /\ f[3] = cmd /\ f[4] = Len(payload)
  /\ f[5 + Len(payload)] = calc_checksum(cmd, payload)
  /\ \A n \in 5..4 + Len(payload) : f[n] = payload[n - 4]

LEMMA FrameParts ==
  ASSUME NEW c \in Int, NEW s \in Seq(Int), calc_checksum(c, s) \in Int
  PROVE  Framed(Frame(c, s), c, s)
PROOF
  <1> DEFINE a == 170
             b == 85
             d == Len(s)
             k == calc_checksum(c, s)
             f == Frame(c, s)
             h == <<a, b, c, d>>
             g == h \o s
  <1>1. a \in Int /\ b \in Int /\ d \in Int /\ k \in Int
    BY LenProperties
  <1>2. f = g \o <<k>>
    BY DEF Frame
  <1> HIDE DEF a, b, d, k, f
  <1>3. h \in Seq(Int) /\ Len(h) = 4 /\ h[1] = a /\ h[2] = b /\ h[3] = c /\ h[4] = d
    BY <1>1
  <1>4. <<k>> \in Seq(Int) /\ Len(<<k>>) = 1 /\ <<k>>[1] = k /\ Len(s) \in Nat
    BY <1>1, LenProperties
  <1> HIDE DEF h
  <1>5. /\ g \in Seq(Int) /\ Len(g) = 4 + Len(s)
        /\ \A i \in 1..4 + Len(s) : g[i] = IF i <= 4 THEN h[i] ELSE s[i - 4]
    <2>1. /\ h \o s \in Seq(Int) /\ Len(h \o s) = Len(h) + Len(s)
          /\ \A i \in 1..Len(h) + Len(s) :
               (h \o s)[i] = IF i <= Len(h) THEN h[i] ELSE s[i - Len(h)]
      BY <1>3, ConcatProperties
    <2> QED  BY <1>3, <2>1
  <1> HIDE DEF g
  <1>6. /\ f \in Seq(Int) /\ Len(f) = 5 + Len(s)
        /\ \A i \in 1..5 + Len(s) :
             f[i] = IF i <= 4 + Len(s) THEN g[i] ELSE <<k>>[i - (4 + Len(s))]
    <2> DEFINE t == <<k>>
    <2>1. t \in Seq(Int) /\ Len(t) = 1
      BY <1>4
    <2> HIDE DEF t
    <2>2. /\ g \o t \in Seq(Int) /\ Len(g \o t) = Len(g) + Len(t)
          /\ \A i \in 1..Len(g) + Len(t) :
               (g \o t)[i] = IF i <= Len(g) THEN g[i] ELSE t[i - Len(g)]
      BY <1>5, <2>1, ConcatProperties
    <2>3. Len(g) + Len(t) = 5 + Len(s)
      BY <1>4, <1>5, <2>1
    <2> QED  BY <1>2, <1>5, <2>2, <2>3 DEF t
  <1>7. /\ f[1] = a /\ f[2] = b /\ f[3] = c /\ f[4] = d
        /\ \A n \in 5..4 + Len(s) : f[n] = s[n - 4]
    <2>1. ASSUME NEW n \in 1..4 PROVE f[n] = h[n]
      <3>1. n \in 1..4 + Len(s) /\ n \in 1..5 + Len(s) /\ n <= 4 /\ n <= 4 + Len(s)
        BY <1>4
      <3>2. f[n] = g[n]
        BY <1>6, <3>1
      <3>3. g[n] = h[n]
        BY <1>5, <3>1
      <3> QED  BY <3>2, <3>3
    <2>2. ASSUME NEW n \in 5..4 + Len(s) PROVE f[n] = s[n - 4]
      <3>1. n \in 1..4 + Len(s) /\ n \in 1..5 + Len(s) /\ ~(n <= 4) /\ n <= 4 + Len(s)
        BY <1>4
      <3>2. f[n] = g[n]
        BY <1>6, <3>1
      <3>3. g[n] = s[n - 4]
        BY <1>5, <3>1
      <3> QED  BY <3>2, <3>3
    <2> QED  BY <1>3, <2>1, <2>2
  <1>8. f[5 + Len(s)] = k
    BY <1>4, <1>6, SMTT(60)
  <1> QED  BY <1>6, <1>7, <1>8 DEF a, b, d, k, f, Framed

LEMMA GoodOfNone ==
  ASSUME NEW c \in {CMD_INIT, CMD_RESET}
  PROVE  Good(Frame(c, <<>>)) /\ Frame(c, <<>>)[3] = c
PROOF
  <1> DEFINE s == <<>>
             f == Frame(c, s)
  <1>1. s \in Seq(Int) /\ Len(s) = 0
    BY EmptySeq
  <1> HIDE DEF s
  <1>2. calc_checksum(c, s) = c /\ Xor(c, 0) = c
    BY <1>1, ChecksumOfNone
  <1>3. /\ f \in Seq(Int) /\ Len(f) = 5
        /\ f[1] = 170 /\ f[2] = 85 /\ f[3] = c /\ f[4] = 0 /\ f[5] = c
    <2>1. c \in Int /\ calc_checksum(c, s) \in Int
      BY <1>2
    <2>2. Framed(f, c, s)
      BY <1>1, <2>1, FrameParts
    <2> HIDE DEF f
    <2> QED  BY <1>1, <1>2, <2>2 DEF Framed
  <1> HIDE DEF f
  <1>4. Headed(f)
    BY <1>3 DEF Headed
  <1>5. Chk(f, 4) = c /\ c \in Hopeless(0)
    BY <1>2, <1>3 DEF Chk, Hopeless
  <1>6. \A p \in 4..Len(f) - 1 : Chk(f, p) \in Hopeless(Len(f) - 1 - p)
    <2>1. \A p \in 4..Len(f) - 1 : p = 4 /\ Len(f) - 1 - p = 0
      BY <1>3
    <2> QED  BY <1>5, <2>1
  <1>7. \A p \in 2..Len(f) : f[p] # 170
    <2>1. \A p \in 2..Len(f) : p \in {2, 3, 4, 5}
      BY <1>3
    <2> QED  BY <1>3, <2>1
  <1>8. Good(f)
    BY <1>3, <1>4, <1>5, <1>6, <1>7 DEF Good
  <1> QED  BY <1>3, <1>8 DEF f, s

LEMMA GoodOfOne ==
  ASSUME NEW c \in {CMD_STOP, CMD_BRAKE}, NEW m \in Motors
  PROVE  Good(Frame(c, <<m>>)) /\ Frame(c, <<m>>)[3] = c /\ Frame(c, <<m>>)[5] = m
PROOF
  <1> DEFINE s == <<m>>
             f == Frame(c, s)
             k == calc_checksum(c, s)
  <1>1. s \in Seq(Int) /\ Len(s) = 1 /\ s[1] = m
    OBVIOUS
  <1> HIDE DEF s
  <1>2. k = Xor(Xor(c, 1), m) /\ k \in {16, 17, 18, 19}
    BY <1>1, ChecksumOfOne
  <1>3. Xor(c, 1) \in {16, 19}
    BY <1>1, ChecksumOfOne
  <1>4. /\ f \in Seq(Int) /\ Len(f) = 6
        /\ f[1] = 170 /\ f[2] = 85 /\ f[3] = c /\ f[4] = 1 /\ f[5] = m /\ f[6] = k
    <2>1. c \in Int /\ k \in Int
      BY <1>2
    <2>2. Framed(f, c, s)
      BY <1>1, <2>1, FrameParts
    <2> HIDE DEF f
    <2>3. f[5] = s[1]
      BY <1>1, <2>2 DEF Framed
    <2> QED  BY <1>1, <2>2, <2>3 DEF Framed
  <1> HIDE DEF f, k
  <1>5. Headed(f)
    BY <1>4 DEF Headed
  <1>6. Chk(f, 4) \in Hopeless(1) /\ Chk(f, 5) = k /\ k \in Hopeless(0)
    BY <1>2, <1>3, <1>4 DEF Chk, Hopeless
  <1>7. \A p \in 4..Len(f) - 1 : Chk(f, p) \in Hopeless(Len(f) - 1 - p)
    <2>1. \A p \in 4..Len(f) - 1 : \/ p = 4 /\ Len(f) - 1 - p = 1
                                   \/ p = 5 /\ Len(f) - 1 - p = 0
      BY <1>4
    <2> QED  BY <1>6, <2>1
  <1>8. \A p \in 2..Len(f) : f[p] # 170
    <2>1. \A p \in 2..Len(f) : p \in {2, 3, 4, 5, 6}
      BY <1>4
    <2> QED  BY <1>2, <1>4, <2>1
  <1>9. Len(f) - 1 = 5
    BY <1>4
  <1>10. Good(f)
    BY <1>4, <1>5, <1>6, <1>7, <1>8, <1>9 DEF Good
  <1> QED  BY <1>4, <1>10 DEF f, s

(* The first byte of a speed is the sign, the second one within the range  *)
(* that to_pwm() cuts it to.                                               *)
PwmRange == -150..150

LEMMA SpeedBytes ==
  ASSUME NEW v \in PwmRange
  PROVE  /\ put_be16(v) = <<put_be16(v)[1], put_be16(v)[2]>>
         /\ \/ put_be16(v)[1] = 0 /\ put_be16(v)[2] \in 0..150
            \/ put_be16(v)[1] = 255 /\ put_be16(v)[2] \in 106..255
PROOF
  <1>1. put_be16(v)[1] = (v \div 256) % 256 /\ put_be16(v)[2] = v % 256
    BY DEF put_be16
  <1>2. CASE v >= 0
    BY <1>1, <1>2 DEF PwmRange, put_be16
  <1>3. CASE v < 0
    <2>1. v \div 256 \in Int /\ v \div 256 = 0 - 1
      BY <1>3 DEF PwmRange
    <2>2. (v \div 256) % 256 = 255
      <3>1. \A x \in PwmRange : x < 0 => x % 256 = x + 256
        BY DEF PwmRange
      <3> QED  BY <2>1, <3>1 DEF PwmRange
    <2>3. v % 256 = v + 256
      BY <1>3 DEF PwmRange
    <2> QED  BY <1>1, <1>3, <2>1, <2>2, <2>3 DEF PwmRange, put_be16
  <1> QED  BY <1>2, <1>3 DEF PwmRange

LEMMA GoodOfSpeed ==
  ASSUME NEW m \in Motors, NEW v \in PwmRange
  PROVE  LET f == Frame(CMD_SET_SPEED, <<m>> \o put_be16(v))
         IN  Good(f) /\ f[3] = 16 /\ f[5] = m /\ put_be16(v) = <<f[6], f[7]>>
PROOF
  <1> DEFINE hi == put_be16(v)[1]
             lo == put_be16(v)[2]
             s == <<m, hi, lo>>
             f == Frame(CMD_SET_SPEED, s)
             k == calc_checksum(CMD_SET_SPEED, s)
             c == Xor(Xor(Xor(16, 3), m), hi)
  <1>1. /\ put_be16(v) = <<hi, lo>>
        /\ \/ hi = 0 /\ lo \in 0..150
           \/ hi = 255 /\ lo \in 106..255
    BY SpeedBytes
  <1> HIDE DEF hi, lo
  <1>2. <<m>> \o put_be16(v) = s
    <2> DEFINE a == <<m>>
               b == <<hi, lo>>
    <2>1. /\ a \in Seq(Int) /\ Len(a) = 1 /\ a[1] = m
          /\ b \in Seq(Int) /\ Len(b) = 2 /\ b[1] = hi /\ b[2] = lo
          /\ s \in Seq(Int) /\ Len(s) = 3 /\ s[1] = m /\ s[2] = hi /\ s[3] = lo
      BY <1>1
    <2> HIDE DEF a, b, s
    <2>2. /\ a \o b \in Seq(Int) /\ Len(a \o b) = Len(a) + Len(b)
          /\ \A i \in 1..Len(a) + Len(b) : (a \o b)[i] = IF i <= Len(a) THEN a[i] ELSE b[i - Len(a)]
      BY <2>1, ConcatProperties
    <2>3. (a \o b)[1] = m /\ (a \o b)[2] = hi /\ (a \o b)[3] = lo
      BY <2>1, <2>2
    <2>4. \A i \in 1..Len(a \o b) : (a \o b)[i] = s[i]
      <3>1. \A i \in 1..Len(a \o b) : i \in {1, 2, 3}
        BY <2>1, <2>2
      <3> QED  BY <2>1, <2>3, <3>1
    <2>5. a \o b = s
      <3>1. Len(a \o b) = Len(s)
        BY <2>1, <2>2
      <3> QED  BY <2>1, <2>2, <2>4, <3>1, SeqEqual
    <2> QED  BY <1>1, <2>5 DEF a, b
  <1>3. s \in Seq(Int) /\ Len(s) = 3 /\ s[1] = m /\ s[2] = hi /\ s[3] = lo
    BY <1>1
  <1> HIDE DEF s
  <1>4. /\ Xor(16, 3) = 19 /\ Xor(19, 0) = 19 /\ Xor(19, 1) = 18
    BY XorTable
  <1>5. SpeedSums(m, hi, lo, c, k)
    <2>1. SpeedBytesOf(m, hi, lo, s)
      BY <1>1, <1>3 DEF SpeedBytesOf
    <2> QED  BY <2>1, ChecksumOfSpeed
  <1> HIDE DEF c, k
  <1>6. /\ f \in Seq(Int) /\ Len(f) = 8
        /\ f[1] = 170 /\ f[2] = 85 /\ f[3] = 16 /\ f[4] = 3 /\ f[5] = m /\ f[6] = hi /\ f[7] = lo
        /\ f[8] = k
    <2>1. k \in Int
      BY <1>5 DEF SpeedSums
    <2>2. Framed(f, 16, s)
      BY <1>3, <2>1, FrameParts DEF k
    <2> HIDE DEF f
    <2>3. f[5] = s[1] /\ f[6] = s[2] /\ f[7] = s[3]
      BY <1>3, <2>2 DEF Framed
    <2> QED  BY <1>3, <2>2, <2>3 DEF Framed, k
  <1> HIDE DEF f
  <1>7. Headed(f)
    BY <1>6 DEF Headed
  <1>8. /\ Chk(f, 4) = 19 /\ Chk(f, 5) = Xor(19, m) /\ Chk(f, 6) = c /\ Chk(f, 7) = k
    BY <1>4, <1>5, <1>6 DEF Chk, c, SpeedSums
  <1>9. /\ Chk(f, 4) \in Hopeless(3) /\ Chk(f, 5) \in Hopeless(2) /\ Chk(f, 6) \in Hopeless(1)
         /\ Chk(f, 7) \in Hopeless(0)
    BY <1>4, <1>5, <1>8 DEF Hopeless, SpeedSums
  <1>10. \A p \in 4..Len(f) - 1 : Chk(f, p) \in Hopeless(Len(f) - 1 - p)
    <2>1. \A p \in 4..Len(f) - 1 : \/ p = 4 /\ Len(f) - 1 - p = 3
                                   \/ p = 5 /\ Len(f) - 1 - p = 2
                                   \/ p = 6 /\ Len(f) - 1 - p = 1
                                   \/ p = 7 /\ Len(f) - 1 - p = 0
      BY <1>6
    <2> QED  BY <1>9, <2>1
  <1>11. \A p \in 2..Len(f) : f[p] = 170 => p = Len(f) - 1 /\ f[Len(f)] # 85
    <2>1. \A p \in 2..Len(f) : p \in {2, 3, 4, 5, 6, 7, 8}
      BY <1>6
    <2>2. \A p \in 2..Len(f) : f[p] = 170 => p = 7
      BY <1>1, <1>5, <1>6, <2>1 DEF SpeedSums
    <2> QED  BY <1>5, <1>6, <2>2 DEF SpeedSums
  <1>12. Len(f) - 1 = 7
    BY <1>6
  <1>13. Good(f)
    BY <1>6, <1>7, <1>8, <1>10, <1>11, <1>12 DEF Good
  <1> QED  BY <1>1, <1>2, <1>6, <1>13 DEF f

LEMMA GoodOfConfig ==
  ASSUME ppr_ = 4680, pwm_freq_ = 20000
  PROVE  LET f == Frame(CMD_CONFIG, put_be16(ppr_) \o put_be16(pwm_freq_))
         IN  Good(f) /\ f[3] = CMD_CONFIG
PROOF
  <1> DEFINE s == <<18, 72, 78, 32>>
             u == put_be16(ppr_) \o put_be16(pwm_freq_)
             f == Frame(CMD_CONFIG, s)
  <1>1. /\ s \in Seq(Int) /\ Len(s) = 4
        /\ s[1] = 18 /\ s[2] = 72 /\ s[3] = 78 /\ s[4] = 32
    OBVIOUS
  <1>2. u = s
    <2> DEFINE a == <<18, 72>>
               b == <<78, 32>>
    <2>1. put_be16(ppr_) = a /\ put_be16(pwm_freq_) = b
      BY DEF put_be16
    <2>2. /\ a \in Seq(Int) /\ Len(a) = 2 /\ a[1] = 18 /\ a[2] = 72
          /\ b \in Seq(Int) /\ Len(b) = 2 /\ b[1] = 78 /\ b[2] = 32
      OBVIOUS
    <2> HIDE DEF a, b, s
    <2>7. a \in Seq(Int) /\ b \in Seq(Int)
      BY <2>2
    <2>3. /\ a \o b \in Seq(Int) /\ Len(a \o b) = Len(a) + Len(b)
          /\ \A i \in 1..Len(a) + Len(b) : (a \o b)[i] = IF i <= Len(a) THEN a[i] ELSE b[i - Len(a)]
      BY <2>7, ConcatProperties
    <2>4. (a \o b)[1] = 18 /\ (a \o b)[2] = 72 /\ (a \o b)[3] = 78 /\ (a \o b)[4] = 32
      BY <2>2, <2>3
    <2>5. \A i \in 1..Len(a \o b) : (a \o b)[i] = s[i]
      <3>1. \A i \in 1..Len(a \o b) : i \in {1, 2, 3, 4}
        BY <2>2, <2>3
      <3> QED  BY <1>1, <2>4, <3>1
    <2>6. a \o b = s
      <3>1. Len(a \o b) = Len(s)
        BY <1>1, <2>2, <2>3
      <3>2. s \in Seq(Int) /\ a \o b \in Seq(Int)
        BY <1>1, <2>3
      <3> DEFINE v == a \o b
      <3>3. v \in Seq(Int) /\ Len(v) = Len(s) /\ \A i \in 1..Len(v) : v[i] = s[i]
        BY <2>5, <3>1, <3>2
      <3> HIDE DEF v
      <3>4. v = s
        BY <3>2, <3>3, SeqEqual
      <3> QED  BY <3>4 DEF v
    <2> QED  BY <2>1, <2>6
  <1> HIDE DEF s, u
  <1>3. calc_checksum(CMD_CONFIG, s) = 50
    BY <1>1 DEF calc_checksum, OddBits, Bit
  <1>4. /\ f \in Seq(Int) /\ Len(f) = 9
        /\ f[1] = 170 /\ f[2] = 85 /\ f[3] = 2 /\ f[4] = 4
        /\ f[5] = 18 /\ f[6] = 72 /\ f[7] = 78 /\ f[8] = 32 /\ f[9] = 50
    <2>1. Framed(f, 2, s)
      BY <1>1, <1>3, FrameParts
    <2> HIDE DEF f
    <2>2. f[5] = s[1] /\ f[6] = s[2] /\ f[7] = s[3] /\ f[8] = s[4]
      BY <1>1, <2>1 DEF Framed
    <2> QED  BY <1>1, <1>3, <2>1, <2>2 DEF Framed
  <1> HIDE DEF f
  <1>5. Headed(f)
    BY <1>4 DEF Headed
  <1>6. /\ Xor(2, 4) = 6 /\ Xor(6, 18) = 20 /\ Xor(20, 72) = 92 /\ Xor(92, 78) = 18
        /\ Xor(18, 32) = 50
    BY XorTable
  <1>7. /\ Chk(f, 4) = 6 /\ Chk(f, 5) = 20 /\ Chk(f, 6) = 92 /\ Chk(f, 7) = 18 /\ Chk(f, 8) = 50
    BY <1>4, <1>6 DEF Chk
  <1>8. \A p \in 4..Len(f) - 1 : Chk(f, p) \in Hopeless(Len(f) - 1 - p)
    <2>1. \A p \in 4..Len(f) - 1 : \/ p = 4 /\ Len(f) - 1 - p = 4
                                   \/ p = 5 /\ Len(f) - 1 - p = 3
                                   \/ p = 6 /\ Len(f) - 1 - p = 2
                                   \/ p = 7 /\ Len(f) - 1 - p = 1
                                   \/ p = 8 /\ Len(f) - 1 - p = 0
      BY <1>4
    <2>2. /\ Chk(f, 4) \in Hopeless(4) /\ Chk(f, 5) \in Hopeless(3) /\ Chk(f, 6) \in Hopeless(2)
          /\ Chk(f, 7) \in Hopeless(1) /\ Chk(f, 8) \in Hopeless(0)
      BY <1>7 DEF Hopeless
    <2> QED  BY <2>1, <2>2
  <1>9. \A p \in 2..Len(f) : f[p] # 170
    <2>1. \A p \in 2..Len(f) : p \in {2, 3, 4, 5, 6, 7, 8, 9}
      BY <1>4
    <2> QED  BY <1>4, <2>1
  <1>10. Len(f) - 1 = 8
    BY <1>4
  <1>11. Good(f)
    BY <1>4, <1>5, <1>7, <1>8, <1>9, <1>10 DEF Good
  <1>12. Good(Frame(CMD_CONFIG, u)) /\ Frame(CMD_CONFIG, u)[3] = CMD_CONFIG
    BY <1>2, <1>4, <1>11 DEF f
  <1> QED  BY <1>12 DEF u

-----------------------------------------------------------------------------
(* The receiver, with the first bytes of a frame read.                     *)
Receiver ==
  [at : {"SOF0", "SOF1", "CMD", "LEN", "PAYLOAD", "CHK"}, cmd : Int, len : Int, got : Int,
   chk : Int, payload : Seq(Int), accepted : Seq(Int)]

Fresh(r) == r.got = 0 /\ r.payload = <<>>
Within(r) == IF r.got = r.len THEN "CHK" ELSE "PAYLOAD"

(* It began with this frame ...                                            *)
InBody(r, f, bytes) ==
  /\ r.at = Within(r) /\ r.cmd = f[3] /\ r.len = f[4] /\ r.got = bytes - 4
  /\ r.chk = Chk(f, bytes)
  /\ Len(r.payload) = bytes - 4
  /\ \A i \in 1..bytes - 4 : r.payload[i] = f[4 + i]

InStep(r, f, bytes) ==
  \/ bytes = 0 /\ r.at = "SOF0" /\ Fresh(r)
  \/ bytes = 1 /\ r.at = "SOF1" /\ Fresh(r)
  \/ bytes = 2 /\ r.at = "CMD"  /\ Fresh(r)
  \/ bytes = 3 /\ r.at = "LEN"  /\ Fresh(r) /\ r.cmd = f[3]
  \/ bytes \in 4..Len(f) - 1 /\ InBody(r, f, bytes)

(* ... or missed its beginning, or has taken it for the rest of a header,  *)
(* or of a frame it will refuse for its checksum, or of one that is longer *)
(* than the buffer.                                                        *)
Adrift(r, f, bytes) ==
  \/ r.at = "SOF0" /\ Fresh(r) /\ bytes >= 1
  \/ r.at = "SOF1" /\ Fresh(r) /\ (bytes = 0 \/ (bytes >= 2 /\ f[bytes] = 170))
  \/ r.at = "CMD"  /\ Fresh(r) /\ bytes = 0
  \/ r.at = "LEN"  /\ Fresh(r) /\ bytes = 0 /\ r.cmd # CMD_RESET
  \/ r.at = "LEN"  /\ Fresh(r) /\ bytes = 1 /\ r.cmd = FRAME_SOF0

(* What is longer than the buffer began with a SOF for its LEN: its command *)
(* is one as well, or else the byte that will be taken for a motor is.     *)
Swallows(r, bytes) ==
  /\ r.len > PAYLOAD_MAX /\ r.got \in 0..PAYLOAD_MAX
  /\ r.at = IF r.got = PAYLOAD_MAX THEN "CHK" ELSE "PAYLOAD"
  /\ Len(r.payload) = IF r.got = 0 THEN 0 ELSE 1
  /\ \/ r.cmd = FRAME_SOF0
     \/ /\ r.cmd # CMD_RESET
        /\ r.got = 0 => bytes \in {0, 1}
        /\ r.got # 0 => r.payload[1] \in {FRAME_SOF0, FRAME_SOF1}

Short(r) == r.len \in 0..4 /\ r.got \in 0..r.len /\ r.at = Within(r)
Doomed(r, f, bytes) ==
  /\ Short(r) /\ r.len - r.got + bytes <= 4
  /\ \E x \in Hopeless(r.len - r.got + bytes) : r.chk = After(x, f, bytes)

Reads(r, f, bytes) ==
  InStep(r, f, bytes) \/ Adrift(r, f, bytes) \/ Swallows(r, bytes) \/ Doomed(r, f, bytes)

(* Wherever a frame is cut, the receiver is left like this.                *)
Left(r) ==
  \/ r.at \in {"SOF0", "SOF1", "CMD", "LEN"} /\ Fresh(r)
  \/ Swallows(r, 0)
  \/ Short(r) /\ r.chk \in Hopeless(r.len - r.got)

LEMMA LeftAnywhere ==
  ASSUME NEW f, Good(f), NEW p \in 0..Len(f), NEW r, Reads(r, f, p)
  PROVE  Left(r)
PROOF
  <1>1. Len(f) \in Nat /\ Len(f) = 5 + f[4] /\ f[4] \in 0..4
    BY LenProperties DEF Good, Headed
  <1>2. CASE InStep(r, f, p)
    <2>1. CASE p \in 4..Len(f) - 1 /\ InBody(r, f, p)
      <3>1. r.len = f[4] /\ r.got = p - 4 /\ r.at = Within(r) /\ r.chk = Chk(f, p)
        BY <2>1 DEF InBody
      <3>2. Short(r) /\ r.len - r.got = Len(f) - 1 - p
        BY <1>1, <2>1, <3>1 DEF Short
      <3>3. Chk(f, p) \in Hopeless(Len(f) - 1 - p)
        BY <2>1 DEF Good
      <3> QED  BY <3>1, <3>2, <3>3 DEF Left
    <2> QED  BY <1>2, <2>1 DEF InStep, Left
  <1>3. CASE Adrift(r, f, p)
    BY <1>3 DEF Adrift, Left
  <1>4. CASE Swallows(r, p)
    <2>1. Swallows(r, 0)
      BY <1>4 DEF Swallows
    <2> QED  BY <2>1 DEF Left
  <1>5. CASE Doomed(r, f, p)
    <2>1. PICK x \in Hopeless(r.len - r.got + p) : r.chk = After(x, f, p)
      BY <1>5 DEF Doomed
    <2> DEFINE d == r.len - r.got
    <2>2. Short(r) /\ d \in 0..4 /\ p \in 0..4 /\ p + d <= 4 /\ d + p = p + d
      BY <1>5 DEF Doomed, Short
    <2> HIDE DEF d
    <2>3. x \in Hopeless(p + d)
      BY <2>1, <2>2 DEF d
    <2>4. After(x, f, p) \in Hopeless(d)
      BY <2>2, <2>3, StaysHopeless DEF Good
    <2> QED  BY <2>1, <2>2, <2>4 DEF Left, d
  <1> QED  BY <1>2, <1>3, <1>4, <1>5 DEF Reads

(* A frame that is written next finds it so.                               *)
LEMMA FoundSo ==
  ASSUME NEW f, NEW r, Left(r), r.at = "LEN" => r.cmd # CMD_RESET
  PROVE  Reads(r, f, 0)
PROOF
  <1>1. CASE r.at \in {"SOF0", "SOF1", "CMD", "LEN"} /\ Fresh(r)
    <2>1. CASE r.at = "SOF0"
      BY <1>1, <2>1 DEF Reads, InStep
    <2>2. CASE r.at # "SOF0"
      BY <1>1, <2>2 DEF Reads, Adrift
    <2> QED  BY <2>1, <2>2
  <1>2. CASE Swallows(r, 0)
    BY <1>2 DEF Reads
  <1>3. CASE Short(r) /\ r.chk \in Hopeless(r.len - r.got)
    <2>1. r.len - r.got + 0 = r.len - r.got /\ r.len - r.got + 0 <= 4
      BY <1>3 DEF Short
    <2>2. After(r.chk, f, 0) = r.chk
      BY DEF After
    <2> QED  BY <1>3, <2>1, <2>2 DEF Reads, Doomed
  <1> QED  BY <1>1, <1>2, <1>3 DEF Left

-----------------------------------------------------------------------------
(* One byte more, for each of the states a frame can find.                 *)
Follows(q, f, bytes) ==
  IF bytes = Len(f) THEN q = Done(f) ELSE q \in Receiver /\ InStep(q, f, bytes)

(* A frame that is longer than the buffer, and about no motor.             *)
Stray(g) ==
  /\ g \in Seq(Int) /\ Overlong(g) /\ g[3] # CMD_RESET
  /\ g[3] \in {CMD_SET_SPEED, CMD_STOP, CMD_BRAKE} => OneOf(g) \notin Motors

Goes(q, f, bytes) ==
  \/ q.at = "done" /\ (q.accepted \in {NoFrame, f} \/ Stray(q.accepted))
  \/ q \in Receiver /\ Reads(q, f, bytes)

LEMMA GivenUp ==
  ASSUME NEW f, NEW p, NEW q, q = Done(NoFrame)
  PROVE  Goes(q, f, p)
  BY DEF Goes, Done, AtSOF

LEMMA GoodHead ==
  ASSUME NEW f, Good(f)
  PROVE  /\ Len(f) \in 5..9 /\ f[1] = 170 /\ f[2] = 85 /\ f[3] \in Commands
         /\ f[4] \in {0, 1, 3, 4} /\ Len(f) = 5 + f[4]
         /\ \A n \in 1..Len(f) : f[n] \in Int
  BY LenProperties, ElementOfSeq, SMTT(60) DEF Good, Headed, Commands

LEMMA ReadsHeader ==
  ASSUME NEW f, Good(f), NEW p \in 0..3, NEW r \in Receiver, InStep(r, f, p),
         NEW q, q = Feed(r, f[p + 1])
  PROVE  Follows(q, f, p + 1)
PROOF
  <1>0. /\ f[1] = 170 /\ f[2] = 85 /\ f[3] \in Int /\ f[4] \in {0, 1, 3, 4}
        /\ Len(f) = 5 + f[4]
    BY GoodHead DEF Commands
  <1>1. CASE p = 0
    <2>1. r.at = "SOF0" /\ Fresh(r)
      BY <1>1 DEF InStep
    <2>2. q = [r EXCEPT !.at = "SOF1"]
      BY <1>0, <1>1, <2>1 DEF Feed
    <2>3. q \in Receiver /\ q.at = "SOF1" /\ Fresh(q)
      <3>1. q \in Receiver
        BY <2>2 DEF Receiver
      <3>2. q.at = "SOF1"
        BY <2>2 DEF Receiver
      <3>3. Fresh(q)
        BY <2>1, <2>2 DEF Receiver, Fresh
      <3> QED  BY <2>1, <3>1, <3>2, <3>3
    <2> QED  BY <1>0, <1>1, <2>3 DEF Follows, InStep
  <1>2. CASE p = 1
    <2>1. r.at = "SOF1" /\ Fresh(r)
      BY <1>2 DEF InStep
    <2>2. q = [r EXCEPT !.at = "CMD"]
      BY <1>0, <1>2, <2>1 DEF Feed
    <2>3. q \in Receiver /\ q.at = "CMD" /\ Fresh(q)
      <3>1. q \in Receiver
        BY <2>2 DEF Receiver
      <3>2. q.at = "CMD"
        BY <2>2 DEF Receiver
      <3>3. Fresh(q)
        BY <2>1, <2>2 DEF Receiver, Fresh
      <3> QED  BY <2>1, <3>1, <3>2, <3>3
    <2> QED  BY <1>0, <1>2, <2>3 DEF Follows, InStep
  <1>3. CASE p = 2
    <2>1. r.at = "CMD" /\ Fresh(r)
      BY <1>3 DEF InStep
    <2>2. q = [r EXCEPT !.at = "LEN", !.cmd = f[3]] /\ f[3] \in Int
      BY <1>0, <1>3, <2>1 DEF Feed
    <2>3. q \in Receiver /\ q.at = "LEN" /\ Fresh(q) /\ q.cmd = f[3]
      <3>1. q \in Receiver
        BY <2>2 DEF Receiver
      <3>2. q.at = "LEN" /\ q.cmd = f[3]
        BY <2>2 DEF Receiver
      <3>3. Fresh(q)
        BY <2>1, <2>2 DEF Receiver, Fresh
      <3> QED  BY <2>1, <3>1, <3>2, <3>3
    <2> QED  BY <1>0, <1>3, <2>3 DEF Follows, InStep
  <1>4. CASE p = 3
    <2>1. r.at = "LEN" /\ Fresh(r) /\ r.cmd = f[3]
      BY <1>4 DEF InStep
    <2>2. /\ q = [r EXCEPT !.at = IF f[4] = 0 THEN "CHK" ELSE "PAYLOAD",
                           !.len = f[4], !.chk = Xor(f[3], f[4])]
          /\ f[3] \in Int /\ f[4] \in Int /\ Xor(f[3], f[4]) \in Int
      BY <1>0, <1>4, <2>1, XorInt DEF Feed
    <2>3. /\ q \in Receiver /\ q.at = IF f[4] = 0 THEN "CHK" ELSE "PAYLOAD"
          /\ q.len = f[4] /\ q.chk = Xor(f[3], f[4]) /\ q.cmd = f[3] /\ Fresh(q)
      <3>1. q \in Receiver
        BY <2>2 DEF Receiver
      <3>2. /\ q.at = IF f[4] = 0 THEN "CHK" ELSE "PAYLOAD"
            /\ q.len = f[4] /\ q.chk = Xor(f[3], f[4]) /\ q.cmd = r.cmd
        BY <2>2 DEF Receiver
      <3>3. Fresh(q)
        BY <2>1, <2>2 DEF Receiver, Fresh
      <3> QED  BY <2>1, <3>1, <3>2, <3>3
    <2>4. InBody(q, f, 4)
      BY <1>0, <2>3, EmptySeq DEF InBody, Within, Fresh, Chk
    <2>5. 4 \in 4..Len(f) - 1
      BY <1>0
    <2> QED  BY <1>0, <1>4, <2>3, <2>4, <2>5 DEF Follows, InStep
  <1> QED  BY <1>1, <1>2, <1>3, <1>4

(* What has been kept is put together to the frame that was read.          *)
LEMMA PutTogether ==
  ASSUME NEW f, Good(f), NEW s \in Seq(Int), Len(s) = Len(f) - 5,
         \A i \in 1..Len(s) : s[i] = f[4 + i]
  PROVE  <<f[1], f[2], f[3], f[4]>> \o s \o <<f[Len(f)]>> = f
PROOF
  <1> DEFINE h == <<f[1], f[2], f[3], f[4]>>
             e == <<f[Len(f)]>>
             g == h \o s
             w == g \o e
             n == Len(s)
  <1>1. Len(f) \in 5..9 /\ \A i \in 1..Len(f) : f[i] \in Int
    BY GoodHead
  <1>2. f[1] \in Int /\ f[2] \in Int /\ f[3] \in Int /\ f[4] \in Int /\ f[Len(f)] \in Int
    BY <1>1
  <1>3. /\ h \in Seq(Int) /\ Len(h) = 4
        /\ h[1] = f[1] /\ h[2] = f[2] /\ h[3] = f[3] /\ h[4] = f[4]
    BY <1>2
  <1>4. e \in Seq(Int) /\ Len(e) = 1 /\ e[1] = f[Len(f)]
    BY <1>2
  <1>5. n \in Nat /\ Len(f) = n + 5 /\ \A i \in 1..n : s[i] = f[4 + i]
    BY <1>1, LenProperties
  <1> HIDE DEF h, e, n
  <1>6. /\ g \in Seq(Int) /\ Len(g) = Len(h) + Len(s)
        /\ \A i \in 1..Len(h) + Len(s) : g[i] = IF i <= Len(h) THEN h[i] ELSE s[i - Len(h)]
    BY <1>3, ConcatProperties
  <1> HIDE DEF g
  <1>A. g \in Seq(Int) /\ e \in Seq(Int)
    BY <1>4, <1>6
  <1>7. /\ w \in Seq(Int) /\ Len(w) = Len(g) + Len(e)
        /\ \A i \in 1..Len(g) + Len(e) : w[i] = IF i <= Len(g) THEN g[i] ELSE e[i - Len(g)]
    BY <1>A, ConcatProperties
  <1> HIDE DEF w
  <1>8. Len(g) = n + 4 /\ Len(w) = n + 5
    BY <1>3, <1>4, <1>5, <1>6, <1>7 DEF n
  <1>9. ASSUME NEW i \in 1..n + 5 PROVE w[i] = f[i]
    <2>1. CASE i = n + 5
      <3>1. w[i] = e[i - Len(g)] /\ i - Len(g) = 1
        BY <1>4, <1>5, <1>7, <1>8, <2>1
      <3> QED  BY <1>4, <1>5, <2>1, <3>1
    <2>2. CASE i <= 4
      <3>1. w[i] = g[i]
        BY <1>4, <1>5, <1>7, <1>8, <2>2
      <3>2. g[i] = h[i]
        BY <1>3, <1>5, <1>6, <1>8, <2>2
      <3>3. i \in {1, 2, 3, 4}
        BY <1>5, <2>2
      <3> QED  BY <1>3, <3>1, <3>2, <3>3
    <2>3. CASE i > 4 /\ i < n + 5
      <3>1. w[i] = g[i]
        BY <1>4, <1>5, <1>7, <1>8, <2>3
      <3>2. g[i] = s[i - 4]
        BY <1>3, <1>5, <1>6, <1>8, <2>3
      <3>3. i - 4 \in 1..n /\ 4 + (i - 4) = i
        BY <1>5, <2>3
      <3>4. s[i - 4] = f[4 + (i - 4)]
        BY <1>5, <3>3
      <3> QED  BY <3>1, <3>2, <3>3, <3>4
    <2> QED  BY <1>5, <2>1, <2>2, <2>3
  <1>10. w \in Seq(Int) /\ f \in Seq(Int) /\ Len(w) = Len(f) /\ \A i \in 1..Len(w) : w[i] = f[i]
    BY <1>5, <1>7, <1>8, <1>9 DEF Good
  <1>11. w = f
    BY <1>10, SeqEqual
  <1> QED  BY <1>11 DEF w, g, h, e

LEMMA ReadsBody ==
  ASSUME NEW f, Good(f), NEW p \in 4..Len(f) - 1, NEW r \in Receiver, InBody(r, f, p),
         NEW q, q = Feed(r, f[p + 1])
  PROVE  Follows(q, f, p + 1)
PROOF
  <1>0. /\ Len(f) \in 5..9 /\ f[1] = 170 /\ f[2] = 85 /\ f[3] \in Int
        /\ f[4] \in {0, 1, 3, 4} /\ Len(f) = 5 + f[4] /\ f[p + 1] \in Int
    BY GoodHead DEF Commands
  <1>1. /\ r.at = Within(r) /\ r.cmd = f[3] /\ r.len = f[4] /\ r.got = p - 4
        /\ r.chk = Chk(f, p) /\ r.chk \in Int /\ r.payload \in Seq(Int)
        /\ Len(r.payload) = p - 4 /\ \A i \in 1..p - 4 : r.payload[i] = f[4 + i]
    BY DEF InBody, Receiver
  <1>A. /\ r.got = p - 4 /\ r.len = Len(f) - 5 /\ r.len \in {0, 1, 3, 4}
        /\ Len(f) \in Int /\ p \in Int
    <2>1. Len(f) - 5 = f[4]
      BY <1>0
    <2> QED  BY <1>0, <1>1, <2>1
  <1>2. CASE p = Len(f) - 1
    <2>1. r.at = "CHK"
      <3>1. r.got = r.len
        BY <1>A, <1>2
      <3> QED  BY <1>1, <3>1 DEF Within
    <2>2. p + 1 = Len(f) /\ f[Len(f)] = Chk(f, p)
      BY <1>0, <1>2 DEF Good
    <2>3. q = Done(Accepted(r, f[Len(f)]))
      <3>1. q = CheckedEnd(r, f[Len(f)])
        BY <2>1, <2>2 DEF Feed
      <3>2. f[Len(f)] = r.chk
        BY <1>1, <2>2
      <3> QED  BY <3>1, <3>2 DEF CheckedEnd
    <2>4. Accepted(r, f[Len(f)]) = f
      <3>1. Len(r.payload) = Len(f) - 5 /\ \A i \in 1..Len(r.payload) : r.payload[i] = f[4 + i]
        BY <1>0, <1>1, <1>2
      <3>2. <<f[1], f[2], f[3], f[4]>> \o r.payload \o <<f[Len(f)]>> = f
        BY <1>1, <3>1, PutTogether
      <3> QED  BY <1>0, <1>1, <3>2 DEF Accepted
    <2>5. q = Done(f)
      BY <2>3, <2>4
    <2> QED  BY <2>2, <2>5 DEF Follows
  <1>3. CASE p < Len(f) - 1
    <2> DEFINE b == f[p + 1]
    <2>1. r.at = "PAYLOAD" /\ r.got + 1 = p - 3 /\ r.got < Kept(r.len) /\ ~(r.len > PAYLOAD_MAX)
          /\ Until(r.len) = r.len
      <3>1. /\ r.got \in Int /\ r.len \in {0, 1, 3, 4} /\ r.got < r.len
            /\ r.got + 1 = p - 3
        BY <1>A, <1>3
      <3>2. r.at = "PAYLOAD"
        BY <1>1, <3>1 DEF Within
      <3> QED  BY <3>1, <3>2 DEF Kept, PAYLOAD_KEPT, PAYLOAD_MAX, Until
    <2>2. Feed(r, b) = Payload(r, b)
      BY <2>1 DEF Feed
    <2>3. Xor(r.chk, b) \in Int /\ Xor(r.chk, b) = Chk(f, p + 1)
      <3>1. p \in {4, 5, 6, 7}
        BY <1>0, <1>3
      <3>2. Xor(r.chk, b) \in Int
        BY <1>0, <1>1, XorInt, ZenonT(60)
      <3>3. Chk(f, p + 1) = Xor(Chk(f, p), f[p + 1])
        <4>1. CASE p = 4
          BY <4>1 DEF Chk
        <4>2. CASE p = 5
          BY <4>2 DEF Chk
        <4>3. CASE p = 6
          BY <4>3 DEF Chk
        <4>4. CASE p = 7
          BY <4>4 DEF Chk
        <4> QED  BY <3>1, <4>1, <4>2, <4>3, <4>4
      <3> QED  BY <1>1, <3>2, <3>3
    <2>4. /\ Append(r.payload, b) \in Seq(Int) /\ Len(Append(r.payload, b)) = p - 3
          /\ \A i \in 1..p - 3 : Append(r.payload, b)[i] = f[4 + i]
      <3> DEFINE s == r.payload
      <3>1. s \in Seq(Int) /\ b \in Int /\ Len(s) = p - 4 /\ \A i \in 1..p - 4 : s[i] = f[4 + i]
        BY <1>0, <1>1
      <3> HIDE DEF s, b
      <3>2. /\ Append(s, b) \in Seq(Int) /\ Len(Append(s, b)) = Len(s) + 1
            /\ \A i \in 1..Len(s) : Append(s, b)[i] = s[i]
            /\ Append(s, b)[Len(s) + 1] = b
        BY <3>1, AppendProperties
      <3>3. ASSUME NEW i \in 1..p - 3 PROVE Append(s, b)[i] = f[4 + i]
        <4>1. CASE i = p - 3
          BY <3>1, <3>2, <4>1 DEF b
        <4>2. CASE i < p - 3
          BY <3>1, <3>2, <4>2
        <4>3. i < p - 3 \/ i = p - 3
          BY <1>A
        <4> QED  BY <4>1, <4>2, <4>3
      <3>4. Len(Append(s, b)) = p - 3
        BY <3>1, <3>2
      <3> QED  BY <3>2, <3>3, <3>4 DEF s
    <2> DEFINE a == IF r.got + 1 = r.len THEN "CHK" ELSE "PAYLOAD"
               x == Xor(r.chk, b)
               t == Append(r.payload, b)
    <2>5. q = [r EXCEPT !.at = a, !.got = p - 3, !.chk = x, !.payload = t]
      BY <2>1, <2>2 DEF Payload
    <2>6. a \in {"CHK", "PAYLOAD"} /\ x \in Int /\ t \in Seq(Int) /\ p - 3 \in Int
      BY <1>0, <2>3, <2>4
    <2> HIDE DEF a, x, t
    <2>7. q \in Receiver
      BY <2>5, <2>6 DEF Receiver
    <2>8. /\ q.at = a /\ q.cmd = r.cmd /\ q.len = r.len /\ q.got = p - 3 /\ q.chk = x
          /\ q.payload = t
      BY <2>5 DEF Receiver
    <2>9. q.at = Within(q)
      BY <2>1, <2>8 DEF a, Within
    <2>10. InBody(q, f, p + 1)
      <3>1. p - 3 = p + 1 - 4
        OBVIOUS
      <3>2. /\ q.cmd = f[3] /\ q.len = f[4] /\ q.got = p + 1 - 4 /\ q.chk = Chk(f, p + 1)
        BY <1>1, <2>3, <2>8, <3>1 DEF x
      <3>3. Len(q.payload) = p + 1 - 4 /\ \A i \in 1..p + 1 - 4 : q.payload[i] = f[4 + i]
        BY <2>4, <2>8, <3>1 DEF t
      <3> QED  BY <2>9, <3>2, <3>3 DEF InBody
    <2>11. p + 1 \in 4..Len(f) - 1 /\ p + 1 # Len(f)
      BY <1>0, <1>3, SMTT(60)
    <2> QED  BY <2>7, <2>10, <2>11 DEF Follows, InStep
  <1> QED  BY <1>0, <1>2, <1>3

LEMMA ReadsInStep ==
  ASSUME NEW f, Good(f), NEW p \in 0..Len(f) - 1, NEW r \in Receiver, InStep(r, f, p),
         NEW q, q = Feed(r, f[p + 1])
  PROVE  Follows(q, f, p + 1)
PROOF
  <1>1. CASE p \in 0..3
    BY <1>1, ReadsHeader
  <1>2. CASE p \in 4..Len(f) - 1
    <2>1. InBody(r, f, p)
      BY <1>2 DEF InStep
    <2> QED  BY <1>2, <2>1, ReadsBody
  <1>3. p \in 0..3 \/ p \in 4..Len(f) - 1
    BY GoodHead
  <1> QED  BY <1>1, <1>2, <1>3

LEMMA ReadsAdrift ==
  ASSUME NEW f, Good(f), NEW p \in 0..Len(f) - 1, NEW r \in Receiver, Adrift(r, f, p),
         NEW q, q = Feed(r, f[p + 1])
  PROVE  Goes(q, f, p + 1)
PROOF
  <1>0. /\ Len(f) \in Int /\ f[1] = 170 /\ f[2] = 85 /\ p \in Nat
    BY GoodHead
  <1>1. CASE r.at = "SOF0"
    <2>1. Fresh(r) /\ p >= 1
      BY <1>1 DEF Adrift
    <2>2. CASE f[p + 1] = 170
      <3>1. q = [r EXCEPT !.at = "SOF1"]
        BY <1>1, <2>2 DEF Feed
      <3>2. q \in Receiver
        BY <3>1 DEF Receiver
      <3>3. q.at = "SOF1"
        BY <3>1 DEF Receiver
      <3>4. Fresh(q)
        BY <2>1, <3>1 DEF Receiver, Fresh
      <3>5. p + 1 >= 2
        BY <1>0, <2>1
      <3> QED  BY <2>2, <3>2, <3>3, <3>4, <3>5 DEF Goes, Reads, Adrift
    <2>3. CASE f[p + 1] # 170
      <3>1. q = r
        BY <1>1, <2>3 DEF Feed
      <3>2. p + 1 >= 1
        BY <1>0
      <3> QED  BY <1>1, <2>1, <3>1, <3>2 DEF Goes, Reads, Adrift
    <2> QED  BY <2>2, <2>3
  <1>2. CASE r.at = "SOF1"
    <2>1. Fresh(r) /\ f[p + 1] # 85
      <3>1. CASE p = 0
        BY <1>0, <1>2, <3>1 DEF Adrift
      <3>2. CASE p # 0
        <4>1. Fresh(r) /\ p >= 2 /\ f[p] = 170
          BY <1>2, <3>2 DEF Adrift
        <4>2. p \in 2..Len(f)
          BY <1>0, <4>1
        <4>3. p = Len(f) - 1 /\ f[Len(f)] # 85
          BY <4>1, <4>2 DEF Good
        <4>4. p + 1 = Len(f)
          BY <1>0, <4>3
        <4> QED  BY <4>1, <4>3, <4>4
      <3> QED  BY <3>1, <3>2
    <2>2. q = [r EXCEPT !.at = "SOF0"]
      BY <1>2, <2>1 DEF Feed
    <2>3. q \in Receiver
      BY <2>2 DEF Receiver
    <2>4. q.at = "SOF0"
      BY <2>2 DEF Receiver
    <2>5. Fresh(q)
      BY <2>1, <2>2 DEF Receiver, Fresh
    <2>6. p + 1 >= 1
      BY <1>0
    <2> QED  BY <2>3, <2>4, <2>5, <2>6 DEF Goes, Reads, Adrift
  <1>3. CASE r.at = "CMD"
    <2>1. Fresh(r) /\ p = 0
      BY <1>3 DEF Adrift
    <2> DEFINE b == f[p + 1]
    <2>A. p + 1 = 1 /\ b \in Int
      BY <1>0, <2>1
    <2>2. q = [r EXCEPT !.at = "LEN", !.cmd = b]
      BY <1>3 DEF Feed
    <2>6. b = 170
      BY <1>0, <2>1
    <2> HIDE DEF b
    <2>3. q \in Receiver
      BY <2>2, <2>A DEF Receiver
    <2>4. q.at = "LEN" /\ q.cmd = 170
      BY <2>2, <2>6 DEF Receiver
    <2>5. Fresh(q)
      BY <2>1, <2>2 DEF Receiver, Fresh
    <2> QED  BY <2>1, <2>3, <2>4, <2>5, <2>A DEF Goes, Reads, Adrift
  <1>4. CASE r.at = "LEN"
    <2> DEFINE b == f[p + 1]
               x == Xor(r.cmd, b)
    <2>1. p \in {0, 1} /\ r.got = 0
      BY <1>4 DEF Adrift, Fresh
    <2>2. b \in {170, 85} /\ b \in Int /\ b # 0
      BY <1>0, <2>1
    <2>3. x \in Int
      <3>1. r.cmd \in Int /\ b \in Int
        BY <2>2 DEF Receiver
      <3> QED  BY <3>1, XorInt
    <2>4. Feed(r, b) = [r EXCEPT !.at = "PAYLOAD", !.len = b, !.chk = x]
      BY <1>4, <2>2 DEF Feed
    <2> HIDE DEF b, x
    <2>5. q = [r EXCEPT !.at = "PAYLOAD", !.len = b, !.chk = x]
      BY <2>4 DEF b
    <2>6. q \in Receiver
      <3>1. b \in Int /\ x \in Int
        BY <2>2, <2>3
      <3> QED  BY <2>5, <3>1 DEF Receiver
    <2>7. q.at = "PAYLOAD" /\ q.len = b /\ q.got = r.got /\ q.cmd = r.cmd /\ q.payload = r.payload
      BY <2>5 DEF Receiver
    <2>8. Len(r.payload) = 0 /\ (r.cmd = 170 \/ (r.cmd # 255 /\ p + 1 \in {0, 1}))
      <3>1. r.payload = <<>> /\ (r.cmd = 170 \/ (r.cmd # 255 /\ p = 0))
        BY <1>4 DEF Adrift, Fresh
      <3> QED  BY <1>0, <3>1, EmptySeq
    <2>9. Swallows(q, p + 1)
      BY <2>1, <2>2, <2>7, <2>8 DEF Swallows, PAYLOAD_MAX
    <2> QED  BY <2>6, <2>9 DEF Goes, Reads
  <1> QED  BY <1>1, <1>2, <1>3, <1>4 DEF Adrift

LEMMA AcceptedParts ==
  ASSUME NEW r \in Receiver, Len(r.payload) = 1, NEW b \in Int
  PROVE  /\ Accepted(r, b) \in Seq(Int) /\ Accepted(r, b) # NoFrame
         /\ Accepted(r, b)[3] = r.cmd /\ Accepted(r, b)[4] = r.len
         /\ Accepted(r, b)[5] = r.payload[1]
PROOF
  <1> DEFINE h == <<FRAME_SOF0, FRAME_SOF1, r.cmd, r.len>>
             t == r.payload
             e == <<b>>
             w == h \o t
             g == w \o e
  <1>1. /\ h \in Seq(Int) /\ Len(h) = 4 /\ h[3] = r.cmd /\ h[4] = r.len
        /\ t \in Seq(Int) /\ Len(t) = 1 /\ t[1] = r.payload[1]
        /\ e \in Seq(Int) /\ Len(e) = 1
    BY DEF Receiver
  <1>2. Accepted(r, b) = g
    BY DEF Accepted
  <1> HIDE DEF h, t, e
  <1>3. /\ w \in Seq(Int) /\ Len(w) = Len(h) + Len(t)
        /\ \A i \in 1..Len(h) + Len(t) : w[i] = IF i <= Len(h) THEN h[i] ELSE t[i - Len(h)]
    BY <1>1, ConcatProperties
  <1> HIDE DEF w
  <1>4. /\ Len(w) = 5 /\ w \in Seq(Int) /\ e \in Seq(Int)
        /\ \A i \in 1..5 : w[i] = IF i <= 4 THEN h[i] ELSE t[i - 4]
    BY <1>1, <1>3
  <1>5. /\ g \in Seq(Int) /\ Len(g) = Len(w) + Len(e)
        /\ \A i \in 1..Len(w) + Len(e) : g[i] = IF i <= Len(w) THEN w[i] ELSE e[i - Len(w)]
    BY <1>4, ConcatProperties
  <1> HIDE DEF g
  <1>6. Len(g) = 6 /\ \A i \in 1..5 : g[i] = w[i]
    BY <1>1, <1>4, <1>5
  <1>7. g # <<>>
    BY <1>5, <1>6, EmptySeq
  <1>8. g[3] = h[3] /\ g[4] = h[4] /\ g[5] = t[1]
    <2>1. g[3] = w[3] /\ g[4] = w[4] /\ g[5] = w[5]
      BY <1>6
    <2>2. w[3] = h[3] /\ w[4] = h[4] /\ w[5] = t[1]
      BY <1>4
    <2> QED  BY <2>1, <2>2
  <1> QED  BY <1>1, <1>2, <1>5, <1>7, <1>8 DEF NoFrame

LEMMA ReadsSwallows ==
  ASSUME NEW f, Good(f), NEW p \in 0..Len(f) - 1, NEW r \in Receiver, Swallows(r, p),
         NEW q, q = Feed(r, f[p + 1])
  PROVE  Goes(q, f, p + 1)
PROOF
  <1> DEFINE b == f[p + 1]
  <1>0. /\ Len(f) \in Int /\ f[1] = 170 /\ f[2] = 85 /\ p \in Nat /\ b \in Int
    BY GoodHead
  <1>1. /\ r.len > 32 /\ r.len \in Int /\ r.got \in 0..32 /\ r.payload \in Seq(Int)
        /\ r.at = IF r.got = 32 THEN "CHK" ELSE "PAYLOAD"
    BY DEF Swallows, Receiver, PAYLOAD_MAX
  <1>2. r.len > PAYLOAD_MAX /\ Until(r.len) = 32 /\ Kept(r.len) = 1
    BY <1>1 DEF PAYLOAD_MAX, Until, Kept
  <1>3. CASE r.got = 32
    <2> DEFINE g == Accepted(r, b)
    <2>1. q = Done(g)
      BY <1>1, <1>2, <1>3 DEF Feed, CheckedEnd
    <2>2. /\ Len(r.payload) = 1
          /\ r.cmd = 170 \/ (r.cmd # 255 /\ r.payload[1] \in {170, 85})
      BY <1>3 DEF Swallows
    <2> HIDE DEF b
    <2>3. /\ g \in Seq(Int) /\ g # NoFrame
          /\ g[3] = r.cmd /\ g[4] = r.len /\ g[5] = r.payload[1]
      <3>1. b \in Int /\ Len(r.payload) = 1
        BY <1>0, <2>2
      <3> QED  BY <3>1, AcceptedParts, Zenon
    <2> HIDE DEF g
    <2>4. Overlong(g)
      BY <1>2, <2>3 DEF Overlong
    <2>5. g[3] # 255 /\ (g[3] \in {16, 17, 18} => OneOf(g) \notin {0, 1})
      <3>1. CASE g[3] = 170
        BY <3>1
      <3>2. CASE g[3] # 255 /\ g[5] \in {170, 85}
        BY <3>2 DEF OneOf
      <3> QED  BY <2>2, <2>3, <3>1, <3>2
    <2>6. Stray(g)
      BY <2>3, <2>4, <2>5 DEF Stray
    <2> QED  BY <2>1, <2>6 DEF Goes, Done, AtSOF
  <1>4. CASE r.got # 32
    <2> DEFINE n == r.got + 1
               a == IF n = 32 THEN "CHK" ELSE "PAYLOAD"
               t == IF r.got < 1 THEN Append(r.payload, b) ELSE r.payload
               z == 0
    <2>1. q = Payload(r, b)
      BY <1>1, <1>4 DEF Feed
    <2>2. q = [r EXCEPT !.at = a, !.got = n, !.chk = z, !.payload = t]
      BY <1>2, <2>1 DEF Payload
    <2>A. r.got \in 0..31
      <3> DEFINE x == r.got
      <3>1. x \in 0..32 /\ x # 32
        BY <1>1, <1>4
      <3> HIDE DEF x
      <3>2. x \in 0..31
        BY <3>1
      <3> QED  BY <3>2 DEF x
    <2>3. n \in 1..32 /\ n \in Int /\ z \in Int /\ a \in {"CHK", "PAYLOAD"}
      <3> DEFINE x == r.got
      <3>1. x \in 0..31
        BY <2>A
      <3> HIDE DEF x
      <3>2. x + 1 \in 1..32 /\ x + 1 \in Int
        BY <3>1
      <3> QED  BY <3>2 DEF x
    <2>4. /\ t \in Seq(Int) /\ Len(t) = 1
          /\ r.cmd = 170 \/ (r.cmd # 255 /\ t[1] \in {170, 85})
      <3>1. CASE r.got = 0
        <4>1. r.payload \in Seq(Int) /\ Len(r.payload) = 0 /\ t = Append(r.payload, b)
          BY <1>1, <3>1 DEF Swallows
        <4>2. t \in Seq(Int) /\ Len(t) = 1 /\ t[1] = b
          <5> DEFINE o == r.payload
          <5>1. o \in Seq(Int) /\ Len(o) = 0 /\ t = Append(o, b)
            BY <4>1
          <5> HIDE DEF o, t, b
          <5>2. /\ Append(o, b) \in Seq(Int) /\ Len(Append(o, b)) = Len(o) + 1
                /\ Append(o, b)[Len(o) + 1] = b
            BY <1>0, <5>1, AppendProperties
          <5> QED  BY <5>1, <5>2
        <4>3. r.cmd = 170 \/ (r.cmd # 255 /\ p \in {0, 1})
          BY <3>1 DEF Swallows
        <4>4. p \in {0, 1} => b \in {170, 85}
          BY <1>0
        <4> QED  BY <4>2, <4>3, <4>4
      <3>2. CASE r.got # 0
        <4>1. t = r.payload
          <5>1. ASSUME NEW x \in 0..31, x # 0 PROVE ~(x < 1)
            BY <5>1
          <5> QED  BY <2>A, <3>2, <5>1
        <4>2. /\ Len(r.payload) = 1
              /\ r.cmd = 170 \/ (r.cmd # 255 /\ r.payload[1] \in {170, 85})
          BY <3>2 DEF Swallows
        <4> HIDE DEF t
        <4> QED  BY <1>1, <4>1, <4>2
      <3> QED  BY <3>1, <3>2
    <2>5. a = IF n = 32 THEN "CHK" ELSE "PAYLOAD"
      OBVIOUS
    <2> HIDE DEF a, n, t, z
    <2>6. q \in Receiver
      <3>1. a \in {"CHK", "PAYLOAD"} /\ n \in Int /\ z \in Int /\ t \in Seq(Int)
        BY <2>3, <2>4
      <3> QED  BY <2>2, <3>1 DEF Receiver
    <2>7. q.at = a /\ q.cmd = r.cmd /\ q.len = r.len /\ q.got = n /\ q.payload = t
      BY <2>2 DEF Receiver
    <2>8. n \in 0..32 /\ n # 0
      BY <2>3
    <2>9. Swallows(q, p + 1)
      BY <1>1, <2>4, <2>5, <2>7, <2>8 DEF Swallows, PAYLOAD_MAX
    <2> QED  BY <2>6, <2>9 DEF Goes, Reads
  <1> QED  BY <1>3, <1>4

LEMMA ReadsDoomed ==
  ASSUME NEW f, Good(f), NEW p \in 0..Len(f) - 1, NEW r \in Receiver, Doomed(r, f, p),
         NEW q, q = Feed(r, f[p + 1])
  PROVE  Goes(q, f, p + 1)
PROOF
  <1> DEFINE d == r.len - r.got
             b == f[p + 1]
  <1>1. /\ r.len \in 0..4 /\ r.got \in 0..r.len /\ r.at = Within(r)
        /\ d \in 0..4 /\ p \in 0..4 /\ d + p \in 0..4 /\ p + d = d + p
    <2>1. Short(r) /\ r.len \in 0..4 /\ r.got \in 0..r.len /\ r.at = Within(r)
      BY DEF Doomed, Short
    <2>2. d \in 0..4 /\ d + p <= 4
      BY <2>1 DEF Doomed
    <2> HIDE DEF d
    <2>3. p \in Nat
      BY GoodHead
    <2> QED  BY <2>1, <2>2, <2>3
  <1>2. PICK x \in Hopeless(d + p) : r.chk = After(x, f, p)
    BY DEF Doomed
  <1>3. Len(f) \in Int /\ b \in Int /\ Len(f) >= 5
    BY GoodHead
  <1>4. CASE d = 0
    <2>1. r.at = "CHK" /\ ~(r.len > PAYLOAD_MAX) /\ d + p = p
      BY <1>1, <1>4 DEF Within, PAYLOAD_MAX
    <2>2. x \in Hopeless(p)
      BY <1>2, <2>1
    <2>3. r.chk # b
      BY <1>1, <1>2, <2>2, NeverRight DEF Good
    <2>4. q = CheckedEnd(r, b)
      BY <2>1 DEF Feed
    <2>5. q = Done(NoFrame)
      BY <2>1, <2>3, <2>4 DEF CheckedEnd
    <2> QED  BY <2>5, GivenUp
  <1>5. CASE d >= 1
    <2> DEFINE a == IF r.got + 1 = r.len THEN "CHK" ELSE "PAYLOAD"
               n == r.got + 1
               y == Xor(r.chk, b)
               t == Append(r.payload, b)
    <2>1. /\ r.at = "PAYLOAD" /\ r.got < Kept(r.len)
          /\ ~(r.len > PAYLOAD_MAX) /\ Until(r.len) = r.len
      <3>1. r.got < r.len /\ r.got \in Int /\ r.len \in Int
        BY <1>1, <1>5
      <3>2. r.at = "PAYLOAD"
        BY <1>1, <3>1 DEF Within
      <3>3. r.len <= 4 /\ r.got < 4
        BY <1>1, <3>1
      <3> QED  BY <3>1, <3>2, <3>3 DEF Kept, PAYLOAD_KEPT, PAYLOAD_MAX, Until
    <2>2. q = Payload(r, b)
      BY <2>1 DEF Feed
    <2>3. q = [r EXCEPT !.at = a, !.got = n, !.chk = y, !.payload = t]
      BY <2>1, <2>2 DEF Payload
    <2>4. a \in {"CHK", "PAYLOAD"} /\ n \in Int /\ y \in Int /\ t \in Seq(Int)
      <3>1. r.chk \in Int /\ r.payload \in Seq(Int)
        BY DEF Receiver
      <3>2. y \in Int
        BY <1>3, <3>1, XorInt
      <3>3. t \in Seq(Int)
        BY <1>3, <3>1, AppendProperties
      <3>4. n \in Int
        BY <1>1
      <3> QED  BY <3>2, <3>3, <3>4
    <2>5. y = After(x, f, p + 1)
      <3>1. p \in {0, 1, 2, 3}
        BY <1>1, <1>5
      <3>2. After(x, f, p + 1) = Xor(After(x, f, p), f[p + 1])
        <4>1. CASE p = 0
          BY <4>1 DEF After
        <4>2. CASE p = 1
          BY <4>2 DEF After
        <4>3. CASE p = 2
          BY <4>3 DEF After
        <4>4. CASE p = 3
          BY <4>4 DEF After
        <4> QED  BY <3>1, <4>1, <4>2, <4>3, <4>4
      <3> QED  BY <1>2, <3>2
    <2>6. n \in 0..r.len /\ r.len - n + (p + 1) = d + p
      <3>1. r.len \in Int /\ r.got \in Int /\ p \in Int /\ r.got >= 0 /\ r.got < r.len
        BY <1>1, <1>5
      <3> QED  BY <3>1
    <2> HIDE DEF a, n, y, t
    <2>7. q \in Receiver
      BY <2>3, <2>4 DEF Receiver
    <2>8. q.at = a /\ q.len = r.len /\ q.got = n /\ q.chk = y
      BY <2>3 DEF Receiver
    <2>9. Short(q)
      BY <1>1, <2>6, <2>8 DEF Short, Within, a, n
    <2>10. q.len - q.got + (p + 1) = d + p
      BY <2>6, <2>8
    <2> HIDE DEF d
    <2>11. Doomed(q, f, p + 1)
      BY <1>1, <1>2, <2>5, <2>8, <2>9, <2>10 DEF Doomed
    <2> QED  BY <2>7, <2>11 DEF Goes, Reads
  <1> QED  BY <1>1, <1>4, <1>5

LEMMA OneByte ==
  ASSUME NEW f, Good(f), NEW p \in 0..Len(f) - 1, NEW r \in Receiver, Reads(r, f, p),
         NEW q, q = Feed(r, f[p + 1])
  PROVE  Goes(q, f, p + 1)
PROOF
  <1>1. CASE InStep(r, f, p)
    <2>1. Follows(q, f, p + 1)
      BY <1>1, ReadsInStep
    <2>2. q = Done(f) => q.at = "done" /\ q.accepted = f
      BY DEF Done, AtSOF
    <2> QED  BY <2>1, <2>2 DEF Follows, Goes, Reads
  <1>2. CASE Adrift(r, f, p)
    BY <1>2, ReadsAdrift
  <1>3. CASE Swallows(r, p)
    BY <1>3, ReadsSwallows
  <1>4. CASE Doomed(r, f, p)
    BY <1>4, ReadsDoomed
  <1> QED  BY <1>1, <1>2, <1>3, <1>4 DEF Reads

-----------------------------------------------------------------------------
(* The inductive invariant: only good frames are written, and while the    *)
(* bytes of one come in the controller reads them as above.                *)
AllGood(frames) == frames \in Seq(Seq(Int)) /\ \A i \in 1..Len(frames) : Good(frames[i])

Coming(bytes) ==
  /\ Reads(chassis.rx, buf, bytes)
  /\ bytes + Len(down) <= Len(buf)
  /\ \A i \in 1..Len(down) : down[i] = buf[bytes + i]

OnTheLine ==
  /\ down \in Seq(Int)
  /\ down = <<>> => Left(chassis.rx)
  /\ down # <<>> => Good(buf) /\ \E bytes \in 0..Len(buf) - 1 : Coming(bytes)

Controller ==
  [rx : Receiver, inited : BOOLEAN, wheels : [Motors -> Seq(Int)], last : Seq(Int)]

LineInv == AllGood(outbox) /\ OnTheLine /\ chassis \in Controller

(* Nothing is written after the destructor's frame: the command of one     *)
(* that is read on is never CMD_RESET.                                     *)
NoReset(r) == r.at = "LEN" => r.cmd # CMD_RESET
LastWord ==
  /\ pc # "closed" => /\ \A i \in 1..Len(outbox) : outbox[i][3] # CMD_RESET
                      /\ down # <<>> => buf[3] # CMD_RESET
                      /\ NoReset(chassis.rx)
  /\ pc = "closed" /\ outbox # <<>> =>
       Len(outbox) = 1 /\ down = <<>> /\ NoReset(chassis.rx)

LinkInv == LineInv /\ LastWord

LEMMA OneGood == ASSUME NEW f, Good(f) PROVE AllGood(<<f>>)
PROOF
  <1>1. f \in Seq(Int)
    BY DEF Good
  <1> QED  BY <1>1 DEF AllGood

LEMMA TwoGood == ASSUME NEW f, Good(f), NEW g, Good(g) PROVE AllGood(<<f, g>>)
PROOF
  <1>1. f \in Seq(Int) /\ g \in Seq(Int)
    BY DEF Good
  <1> DEFINE o == <<f, g>>
  <1>2. o \in Seq(Seq(Int)) /\ Len(o) = 2 /\ o[1] = f /\ o[2] = g
    BY <1>1
  <1> HIDE DEF o
  <1>3. \A i \in 1..Len(o) : i \in {1, 2}
    BY <1>2
  <1>4. AllGood(o)
    BY <1>2, <1>3 DEF AllGood
  <1> QED  BY <1>4 DEF o

LEMMA StartedOver == AtSOF \in Receiver /\ AtSOF.at = "SOF0" /\ Fresh(AtSOF) /\ Left(AtSOF)
PROOF
  <1>1. AtSOF \in Receiver
    BY DEF AtSOF, Receiver, NoFrame
  <1>2. AtSOF.at = "SOF0" /\ Fresh(AtSOF)
    BY DEF AtSOF, Fresh
  <1> QED  BY <1>1, <1>2 DEF Left

(* The frame is the one that ended, where it is not longer than the buffer. *)
LEMMA TakenIs ==
  ASSUME NEW f, f = NoFrame \/ Good(f)
  PROVE  Taken(f) = {f}
PROOF
  <1>1. ~Overlong(f)
    <2>1. Good(f) => f[4] \in {0, 1, 3, 4}
      BY GoodHead
    <2> QED  BY <2>1 DEF Overlong, PAYLOAD_MAX
  <1> QED  BY <1>1 DEF Taken

LEMMA TakenOf ==
  ASSUME NEW f, NEW g \in Taken(f)
  PROVE  g \in {NoFrame, f}
  BY DEF Taken

(* What the controller does with a frame never touches how it reads.       *)
LEMMA ObeyParts ==
  ASSUME NEW c \in Controller, NEW frame, frame = NoFrame \/ Good(frame) \/ Stray(frame),
         NEW q, q = Obey(c, frame)
  PROVE  q \in Controller /\ q.rx = AtSOF /\ q.last = frame
PROOF
  <1> DEFINE start == AtSOF
             next == [c EXCEPT !.rx = start, !.last = frame]
  <1>1. start \in Receiver
    BY StartedOver
  <1>2. frame \in Seq(Int)
    BY EmptySeq DEF NoFrame, Good, Stray
  <1> HIDE DEF start
  <1>3. next \in Controller
    BY <1>1, <1>2 DEF Controller
  <1>4. next.rx = start /\ next.last = frame
    BY DEF Controller
  <1>5. CASE Obey(c, frame) = next
    BY <1>3, <1>4, <1>5 DEF start
  <1>6. CASE frame # NoFrame /\ frame[3] = CMD_INIT
    <2>1. Obey(c, frame) = [next EXCEPT !.inited = TRUE]
      BY <1>6 DEF Obey, start
    <2> HIDE DEF next
    <2>2. q = [next EXCEPT !.inited = TRUE]
      BY <2>1
    <2>3. q \in Controller
      BY <1>3, <2>2 DEF Controller
    <2>4. q.rx = next.rx /\ q.last = next.last
      BY <1>3, <2>2 DEF Controller
    <2> QED  BY <1>4, <2>3, <2>4 DEF start
  <1>7. CASE frame # NoFrame /\ frame[3] = CMD_RESET
    <2> DEFINE still == Still
    <2>1. Obey(c, frame) = [next EXCEPT !.inited = FALSE, !.wheels = still]
      BY <1>7 DEF Obey, start
    <2>2. still \in [Motors -> Seq(Int)]
      BY DEF Still
    <2> HIDE DEF next, still
    <2>3. q = [next EXCEPT !.inited = FALSE, !.wheels = still]
      BY <2>1
    <2>4. q \in Controller
      BY <1>3, <2>2, <2>3 DEF Controller
    <2>5. q.rx = next.rx /\ q.last = next.last
      BY <1>3, <2>3 DEF Controller
    <2> QED  BY <1>4, <2>4, <2>5 DEF start
  <1>8. CASE /\ frame # NoFrame /\ frame[3] \in {CMD_SET_SPEED, CMD_STOP, CMD_BRAKE}
             /\ c.inited /\ OneOf(frame) \in Motors
    <2> DEFINE m == OneOf(frame)
               x == Value(frame)
    <2>1. Obey(c, frame) = [next EXCEPT !.wheels[m] = x]
      BY <1>8 DEF Obey, start
    <2>2. x \in Seq(Int)
      <3>1. Good(frame) /\ frame[3] \in Int
        BY <1>8 DEF Stray
      <3>2. CASE frame[3] = CMD_SET_SPEED
        <4>1. frame[4] = 3 /\ Len(frame) = 8
          BY <3>1, <3>2 DEF Good, Headed
        <4>2. frame[6] \in Int /\ frame[7] \in Int
          BY <3>1, <4>1, GoodHead
        <4> QED  BY <3>2, <4>2 DEF Value
      <3>3. CASE frame[3] # CMD_SET_SPEED
        BY <3>1, <3>3 DEF Value
      <3> QED  BY <3>2, <3>3
    <2> HIDE DEF next, m, x
    <2>3. q = [next EXCEPT !.wheels[m] = x]
      BY <2>1
    <2>4. q \in Controller
      BY <1>3, <2>2, <2>3, ZenonT(60) DEF Controller
    <2>5. q.rx = next.rx /\ q.last = next.last
      BY <1>3, <2>3 DEF Controller
    <2> QED  BY <1>4, <2>4, <2>5 DEF start
  <1>9. \/ frame # NoFrame /\ frame[3] \in {CMD_INIT, CMD_RESET}
        \/ /\ frame # NoFrame /\ frame[3] \in {CMD_SET_SPEED, CMD_STOP, CMD_BRAKE}
           /\ c.inited /\ OneOf(frame) \in Motors
        \/ Obey(c, frame) = next
    BY DEF Obey, start
  <1> QED  BY <1>5, <1>6, <1>7, <1>8, <1>9

LEMMA ObeyStray ==
  ASSUME NEW c \in Controller, NEW g, Stray(g), NEW q, q = Obey(c, g)
  PROVE  q.wheels = c.wheels
PROOF
  <1> DEFINE start == AtSOF
             next == [c EXCEPT !.rx = start, !.last = g]
  <1>1. start \in Receiver /\ g \in Seq(Int)
    BY StartedOver DEF Stray
  <1>2. /\ g # NoFrame /\ g[3] # CMD_RESET
        /\ g[3] \in {CMD_SET_SPEED, CMD_STOP, CMD_BRAKE} => OneOf(g) \notin Motors
    BY DEF Stray, Overlong
  <1>3. q = next \/ q = [next EXCEPT !.inited = TRUE]
    BY <1>2 DEF Obey
  <1> HIDE DEF start
  <1>4. next \in Controller /\ next.wheels = c.wheels
    BY <1>1 DEF Controller
  <1> HIDE DEF next
  <1>5. q = [next EXCEPT !.inited = TRUE] => q.wheels = next.wheels
    BY <1>4 DEF Controller
  <1> QED  BY <1>3, <1>4, <1>5

LEMMA ReadStep ==
  ASSUME LinkInv, ChassisReads, NEW p \in 0..Len(buf) - 1, Coming(p),
         NEW q, q = Feed(chassis.rx, buf[p + 1])
  PROVE  /\ Good(buf) /\ chassis \in Controller /\ chassis' \in Controller
         /\ down' \in Seq(Int) /\ Len(down) \in Nat /\ Len(down') = Len(down) - 1
         /\ Goes(q, buf, p + 1) /\ Left(chassis'.rx) /\ Coming(p + 1)'
         /\ \/ /\ q.at = "done" /\ chassis'.rx = AtSOF
               /\ chassis'.last \in Taken(q.accepted)
               /\ chassis'.last \in {NoFrame, buf} \/ Stray(chassis'.last)
               /\ chassis' = Obey(chassis, chassis'.last)
            \/ /\ q.at # "done" /\ chassis'.rx = q /\ chassis'.last = NoFrame
               /\ chassis'.inited = chassis.inited /\ chassis'.wheels = chassis.wheels
PROOF
  <1> DEFINE r == chassis.rx
             b == Head(down)
             t == Tail(down)
  <1>1. /\ chassis \in Controller /\ r \in Receiver /\ AllGood(outbox)
        /\ down \in Seq(Int) /\ down # <<>> /\ Good(buf)
    BY DEF LinkInv, LineInv, OnTheLine, ChassisReads, Controller
  <1>2. down' = t /\ buf' = buf /\ chassis' \in ReadByte(chassis, b)
    BY DEF ChassisReads
  <1>3. Len(buf) \in Nat /\ Len(down) \in Nat /\ Len(down) >= 1 /\ p \in Nat
    BY <1>1, GoodHead, LenProperties, EmptySeq
  <1>4. /\ t \in Seq(Int) /\ Len(t) = Len(down) - 1
        /\ \A i \in 1..Len(t) : t[i] = down[i + 1]
    BY <1>1, HeadTailProperties
  <1>5. /\ p + Len(down) <= Len(buf) /\ Reads(r, buf, p)
        /\ \A i \in 1..Len(down) : down[i] = buf[p + i]
    BY DEF Coming
  <1>6. b = buf[p + 1]
    <2>1. b = down[1]
      BY <1>1, HeadTailProperties
    <2>2. 1 \in 1..Len(down)
      BY <1>3
    <2> QED  BY <1>5, <2>1, <2>2
  <1>7. Goes(q, buf, p + 1)
    BY <1>1, <1>5, OneByte
  <1>8. IF q.at = "done" THEN \E g \in Taken(q.accepted) : chassis' = Obey(chassis, g)
        ELSE chassis' = [chassis EXCEPT !.rx = q, !.last = NoFrame]
    BY <1>2, <1>6 DEF ReadByte
  <1> HIDE DEF t
  <1>9. \A i \in 1..Len(t) : t[i] = buf[(p + 1) + i]
    <2> SUFFICES ASSUME NEW i \in 1..Len(t) PROVE t[i] = buf[(p + 1) + i]
      OBVIOUS
    <2>1. i + 1 \in 1..Len(down) /\ p + (i + 1) = (p + 1) + i
      BY <1>3, <1>4
    <2> QED  BY <1>4, <1>5, <2>1
  <1>10. (p + 1) + Len(t) <= Len(buf) /\ p + 1 \in Nat
    BY <1>3, <1>4, <1>5
  <1>11. /\ chassis' \in Controller /\ Left(chassis'.rx) /\ Reads(chassis'.rx, buf, p + 1)
         /\ \/ /\ q.at = "done" /\ chassis'.rx = AtSOF
               /\ chassis'.last \in Taken(q.accepted)
               /\ chassis'.last \in {NoFrame, buf} \/ Stray(chassis'.last)
               /\ chassis' = Obey(chassis, chassis'.last)
            \/ /\ q.at # "done" /\ chassis'.rx = q /\ chassis'.last = NoFrame
               /\ chassis'.inited = chassis.inited /\ chassis'.wheels = chassis.wheels
    <2>1. CASE q.at = "done"
      <3>1. q.accepted \in {NoFrame, buf} \/ Stray(q.accepted)
        BY <1>7, <2>1 DEF Goes, Receiver
      <3>2. PICK g \in Taken(q.accepted) : chassis' = Obey(chassis, g)
        BY <1>8, <2>1
      <3>6. g \in {NoFrame, buf} \/ Stray(g)
        BY <3>1, TakenOf
      <3>3. chassis' \in Controller /\ chassis'.rx = AtSOF /\ chassis'.last = g
        BY <1>1, <3>2, <3>6, ObeyParts
      <3>4. p + 1 >= 1
        BY <1>3
      <3>5. Reads(AtSOF, buf, p + 1)
        BY <3>4, StartedOver DEF Reads, Adrift
      <3> QED  BY <2>1, <3>2, <3>3, <3>5, <3>6, StartedOver
    <2>2. CASE q.at # "done"
      <3> DEFINE none == NoFrame
      <3>1. q \in Receiver /\ Reads(q, buf, p + 1)
        BY <1>7, <2>2 DEF Goes
      <3>2. none \in Seq(Int)
        BY EmptySeq DEF NoFrame
      <3>3. chassis' = [chassis EXCEPT !.rx = q, !.last = none]
        BY <1>8, <2>2
      <3> HIDE DEF none
      <3>4. chassis' \in Controller
        BY <1>1, <3>1, <3>2, <3>3 DEF Controller
      <3>5. /\ chassis'.rx = q /\ chassis'.last = none
            /\ chassis'.inited = chassis.inited /\ chassis'.wheels = chassis.wheels
        BY <1>1, <3>3 DEF Controller
      <3>6. p + 1 \in 0..Len(buf)
        BY <1>3
      <3>7. Left(q)
        BY <1>1, <3>1, <3>6, LeftAnywhere
      <3> QED  BY <2>2, <3>1, <3>4, <3>5, <3>7 DEF none
    <2> QED  BY <2>1, <2>2
  <1>12. Coming(p + 1)'
    BY <1>2, <1>9, <1>10, <1>11 DEF Coming
  <1> QED  BY <1>1, <1>2, <1>3, <1>4, <1>7, <1>11, <1>12

LEMMA ReadInv ==
  ASSUME LinkInv, ChassisReads
  PROVE  /\ LineInv'
         /\ chassis'.last # NoFrame =>
              \/ chassis'.last = buf
              \/ Overlong(chassis'.last) /\ chassis'.wheels = chassis.wheels
PROOF
  <1>1. PICK p \in 0..Len(buf) - 1 : Coming(p)
    BY DEF LinkInv, LineInv, OnTheLine, ChassisReads
  <1> DEFINE q == Feed(chassis.rx, buf[p + 1])
  <1>2. /\ Good(buf) /\ chassis' \in Controller /\ down' \in Seq(Int) /\ Left(chassis'.rx)
        /\ Len(down) \in Nat /\ Len(down') = Len(down) - 1 /\ Coming(p + 1)'
    BY <1>1, ReadStep
  <1>3. \/ chassis'.last \in {NoFrame, buf}
        \/ Stray(chassis'.last) /\ chassis' = Obey(chassis, chassis'.last)
    BY <1>1, ReadStep
  <1>7. Stray(chassis'.last) /\ chassis' = Obey(chassis, chassis'.last)
          => Overlong(chassis'.last) /\ chassis'.wheels = chassis.wheels
    BY ObeyStray DEF LinkInv, LineInv, Stray
  <1>4. buf' = buf /\ outbox' = outbox /\ AllGood(outbox)
    BY DEF ChassisReads, host, LinkInv, LineInv
  <1>5. down' # <<>> => p + 1 \in 0..Len(buf) - 1
    <2>1. down' # <<>> => Len(down') >= 1
      BY <1>2, EmptySeq
    <2>2. p + 1 + Len(down') <= Len(buf)
      BY <1>2, <1>4 DEF Coming
    <2>3. Len(buf) \in Nat /\ p \in Nat
      BY <1>2, GoodHead
    <2> QED  BY <1>2, <2>1, <2>2, <2>3
  <1>6. OnTheLine'
    BY <1>2, <1>4, <1>5 DEF OnTheLine
  <1> QED  BY <1>2, <1>3, <1>4, <1>6, <1>7 DEF LineInv

LEMMA SendInv ==
  ASSUME LinkInv, send_frame
  PROVE  LineInv'
PROOF
  <1> DEFINE f == Head(outbox)
  <1>1. /\ AllGood(outbox) /\ chassis \in Controller /\ chassis' = chassis
        /\ outbox # <<>> /\ down = <<>> /\ Left(chassis.rx)
        /\ buf' = f /\ outbox' = Tail(outbox)
    BY DEF LinkInv, LineInv, OnTheLine, send_frame
  <1>2. AllGood(outbox')
    <2>1. /\ outbox' \in Seq(Seq(Int)) /\ Len(outbox') = Len(outbox) - 1 /\ Len(outbox) \in Nat
          /\ \A i \in 1..Len(outbox') : outbox'[i] = outbox[i + 1]
      BY <1>1, HeadTailProperties, LenProperties DEF AllGood
    <2>2. \A i \in 1..Len(outbox') : i + 1 \in 1..Len(outbox)
      BY <2>1
    <2> QED  BY <1>1, <2>1, <2>2 DEF AllGood
  <1>3. Good(f)
    <2>1. f = outbox[1] /\ Len(outbox) \in Nat /\ Len(outbox) # 0
      BY <1>1, HeadTailProperties, LenProperties, EmptySeq DEF AllGood
    <2>2. 1 \in 1..Len(outbox)
      BY <2>1
    <2> QED  BY <1>1, <2>1, <2>2 DEF AllGood
  <1>4. f \in Seq(Int) /\ Len(f) \in 5..9
    BY <1>3, GoodHead DEF Good
  <1> HIDE DEF f
  <1>5. /\ down' \in Seq(Int) /\ Len(down') <= Len(f) /\ Len(down') \in Nat
        /\ \A i \in 1..Len(down') : down'[i] = f[i]
    <2>1. CASE WrittenWhole
      BY <1>4, <2>1 DEF WrittenWhole, f
    <2>2. CASE WrittenInPart
      <3>1. PICK n \in 0..Len(f) - 1 : down' = SubSeq(f, 1, n)
        BY <2>2 DEF WrittenInPart, f
      <3>2. 1 \in Int /\ n \in Nat /\ n <= Len(f) /\ \A i \in 1..n : i \in 1..Len(f)
        BY <1>4
      <3>3. /\ SubSeq(f, 1, n) \in Seq(Int) /\ Len(SubSeq(f, 1, n)) = n
            /\ \A i \in 1..n : SubSeq(f, 1, n)[i] = f[i]
        BY <1>4, <3>2, SubSeqProperties
      <3> QED  BY <3>1, <3>2, <3>3
    <2> QED  BY <2>1, <2>2 DEF send_frame
  <1>6. down' # <<>> => Coming(0)'
    <2>0. NoReset(chassis.rx)
      BY <1>1 DEF LinkInv, LastWord
    <2>1. Reads(chassis.rx, f, 0)
      BY <1>1, <2>0, FoundSo DEF NoReset
    <2>2. 0 + Len(down') <= Len(f) /\ \A i \in 1..Len(down') : down'[i] = f[0 + i]
      BY <1>4, <1>5
    <2> QED  BY <1>1, <2>1, <2>2 DEF Coming
  <1>7. 0 \in 0..Len(f) - 1
    <2>1. Len(f) \in 5..9
      BY <1>4
    <2> QED  BY <2>1
  <1>8. OnTheLine'
    BY <1>1, <1>3, <1>5, <1>6, <1>7 DEF OnTheLine
  <1> QED  BY <1>1, <1>2, <1>8 DEF LinkInv, LineInv

LEMMA QuietInv ==
  ASSUME LinkInv, ChassisQuiet
  PROVE  LineInv'
PROOF
  <1> DEFINE start == AtSOF
  <1>1. /\ chassis \in Controller /\ chassis' = [chassis EXCEPT !.rx = start]
        /\ down = <<>> /\ down' = down /\ outbox' = outbox /\ AllGood(outbox)
    BY DEF LinkInv, LineInv, ChassisQuiet, host, line
  <1>2. start \in Receiver /\ Left(start)
    BY StartedOver
  <1> HIDE DEF start
  <1>3. chassis' \in Controller /\ chassis'.rx = start
    BY <1>1, <1>2 DEF Controller
  <1>4. OnTheLine'
    BY <1>1, <1>2, <1>3, EmptySeq DEF OnTheLine
  <1> QED  BY <1>1, <1>3, <1>4 DEF LinkInv, LineInv

(* What reaches neither the line nor the controller.                       *)
LEMMA ElsewhereInv ==
  ASSUME LinkInv, buf' = buf, down' = down, chassis' = chassis, AllGood(outbox')
  PROVE  LineInv'
PROOF
  <1>1. OnTheLine'
    BY DEF LinkInv, LineInv, OnTheLine, Coming
  <1> QED  BY <1>1 DEF LinkInv, LineInv

(* What the driver is constructed with (uart_motor_driver.hpp:32), and the *)
(* range to_pwm() cuts speeds to (uart_motor_driver.cpp:229).              *)
TheWheels == ppr_ = 4680 /\ pwm_freq_ = 20000 /\ Speeds \subseteq PwmRange \X PwmRange

LEMMA CommandInv ==
  ASSUME TheWheels, LinkInv, drive \/ Brake \/ standby \/ Close
  PROVE  LineInv'
PROOF
  <1>1. CASE drive
    <2>1. PICK s \in Speeds : Send("drive", set_speeds(s[1], s[2]), Speed(s[1], s[2]))
      BY <1>1 DEF drive
    <2>2. s[1] \in PwmRange /\ s[2] \in PwmRange
      BY DEF TheWheels
    <2>3. AllGood(set_speeds(s[1], s[2]))
      <3> DEFINE F(m, v) == Frame(CMD_SET_SPEED, <<m>> \o put_be16(v))
      <3>1. Good(F(0, s[1])) /\ Good(F(1, s[2]))
        BY <2>2, GoodOfSpeed
      <3>2. set_speeds(s[1], s[2]) = <<F(0, s[1]), F(1, s[2])>>
        BY DEF set_speeds, Pair
      <3> HIDE DEF F
      <3> QED  BY <3>1, <3>2, TwoGood
    <2> QED  BY <2>1, <2>3, ElsewhereInv DEF Send
  <1>2. CASE Brake
    <2>1. AllGood(brake)
      BY GoodOfOne, TwoGood DEF brake, Pair
    <2> QED  BY <1>2, <2>1, ElsewhereInv DEF Brake, Send
  <1>3. CASE standby
    <2>1. AllGood(stop)
      BY GoodOfOne, TwoGood DEF stop, Pair
    <2> QED  BY <1>3, <2>1, ElsewhereInv DEF standby, Send
  <1>4. CASE Close
    <2>1. AllGood(<<Frame(CMD_RESET, <<>>)>>)
      BY GoodOfNone, OneGood
    <2> QED  BY <1>4, <2>1, ElsewhereInv DEF Close, Send
  <1> QED  BY <1>1, <1>2, <1>3, <1>4

LEMMA HostInv ==
  ASSUME TheWheels, LinkInv, Construct \/ Arrive \/ MakeNoise \/ FallSilent
  PROVE  LineInv'
PROOF
  <1>1. AllGood(outbox)
    BY DEF LinkInv, LineInv
  <1>2. CASE Construct
    <2>1. AllGood(<<Frame(CMD_CONFIG, put_be16(ppr_) \o put_be16(pwm_freq_))>>)
      BY GoodOfConfig, OneGood DEF TheWheels
    <2>2. AllGood(outbox')
      <3>1. WaitEnds => AllGood(outbox')
        BY <1>1, <2>1 DEF WaitEnds
      <3>2. WaitGoesOn => AllGood(outbox')
        BY <1>1 DEF WaitGoesOn
      <3>3. ASSUME NEW g, Overwritten(g) PROVE AllGood(outbox')
        BY <1>1, <3>3 DEF Overwritten
      <3> QED  BY <1>2, <3>1, <3>2, <3>3 DEF Construct, ReceiveByte, ReceiveNothing
    <2>3. buf' = buf /\ down' = down /\ chassis' = chassis
      BY <1>2 DEF Construct, ReceiveByte, ReceiveNothing, line
    <2> QED  BY <2>2, <2>3, ElsewhereInv
  <1>3. CASE Arrive \/ MakeNoise \/ FallSilent
    <2>1. /\ outbox' = outbox /\ buf' = buf /\ down' = down /\ chassis' = chassis
      BY <1>3 DEF Arrive, MakeNoise, FallSilent, host, line
    <2> QED  BY <1>1, <2>1, ElsewhereInv
  <1> QED  BY <1>2, <1>3

(* The frames of the commands, other than the destructor's.                *)
LEMMA NotReset ==
  ASSUME TheWheels
  PROVE  /\ \A c \in {CMD_STOP, CMD_BRAKE} : \A i \in 1..2 :
              Pair(LAMBDA m : Frame(c, <<m>>))[i][3] # CMD_RESET
         /\ \A s \in Speeds : \A i \in 1..2 : set_speeds(s[1], s[2])[i][3] # CMD_RESET
PROOF
  <1>1. ASSUME NEW c \in {CMD_STOP, CMD_BRAKE}, NEW i \in 1..2
        PROVE  Pair(LAMBDA m : Frame(c, <<m>>))[i][3] # CMD_RESET
    <2> DEFINE F(m) == Frame(c, <<m>>)
    <2>1. F(0)[3] # 255 /\ F(1)[3] # 255
      BY GoodOfOne
    <2>2. Pair(LAMBDA m : Frame(c, <<m>>)) = <<F(0), F(1)>>
      BY DEF Pair
    <2> HIDE DEF F
    <2>3. i = 1 \/ i = 2
      OBVIOUS
    <2> QED  BY <2>1, <2>2, <2>3
  <1>2. ASSUME NEW s \in Speeds, NEW i \in 1..2
        PROVE  set_speeds(s[1], s[2])[i][3] # CMD_RESET
    <2> DEFINE F(m, v) == Frame(CMD_SET_SPEED, <<m>> \o put_be16(v))
    <2>1. s[1] \in PwmRange /\ s[2] \in PwmRange
      BY DEF TheWheels
    <2>2. F(0, s[1])[3] # 255 /\ F(1, s[2])[3] # 255
      BY <2>1, GoodOfSpeed
    <2>3. set_speeds(s[1], s[2]) = <<F(0, s[1]), F(1, s[2])>>
      BY DEF set_speeds, Pair
    <2> HIDE DEF F
    <2>4. i = 1 \/ i = 2
      OBVIOUS
    <2> QED  BY <2>2, <2>3, <2>4
  <1> QED  BY <1>1, <1>2

LEMMA ReadLastWord ==
  ASSUME LinkInv, ChassisReads
  PROVE  LastWord'
PROOF
  <1>1. /\ down # <<>> /\ pc' = pc /\ outbox' = outbox /\ buf' = buf
    BY DEF ChassisReads, host
  <1>2. ~(pc = "closed" /\ outbox # <<>>)
    BY <1>1 DEF LinkInv, LastWord
  <1>3. ASSUME pc # "closed" PROVE NoReset(chassis'.rx)
    <2>1. PICK p \in 0..Len(buf) - 1 : Coming(p)
      BY DEF LinkInv, LineInv, OnTheLine, ChassisReads
    <2> DEFINE r == chassis.rx
               q == Feed(r, buf[p + 1])
    <2>2. /\ Good(buf) /\ r \in Receiver /\ Reads(r, buf, p)
          /\ chassis'.rx = AtSOF \/ chassis'.rx = q
      BY <2>1, ReadStep DEF Coming, Controller
    <2>3. buf[3] # 255 /\ buf[1] = 170
      BY <1>1, <1>3, <2>2, GoodHead DEF LinkInv, LastWord
    <2> HIDE DEF r
    <2>4. CASE r.at = "CMD"
      <3>1. p = 2 \/ p = 0
        BY <2>2, <2>4 DEF Reads, InStep, InBody, Adrift, Swallows, Doomed, Short, Within
      <3>2. q = [r EXCEPT !.at = "LEN", !.cmd = buf[p + 1]]
        BY <2>4 DEF Feed
      <3>3. q.cmd = buf[p + 1]
        BY <2>2, <3>2 DEF Receiver
      <3> QED  BY <2>2, <2>3, <3>1, <3>3, StartedOver DEF NoReset
    <2>5. CASE r.at # "CMD"
      <3>1. q.at # "LEN"
        BY <2>2, <2>5 DEF Feed, Receiver, Payload, CheckedEnd, Done, AtSOF
      <3> QED  BY <2>2, <3>1, StartedOver DEF NoReset
    <2> QED  BY <2>4, <2>5
  <1> QED  BY <1>1, <1>2, <1>3 DEF LinkInv, LastWord

LEMMA SendLastWord ==
  ASSUME LinkInv, send_frame
  PROVE  LastWord'
PROOF
  <1>1. /\ AllGood(outbox) /\ outbox # <<>> /\ buf' = Head(outbox) /\ outbox' = Tail(outbox)
        /\ chassis' = chassis
        /\ pc' = CASE pc = "init" -> "initAck" [] pc = "config" -> "configAck" [] OTHER -> pc
    BY DEF send_frame, LinkInv, LineInv
  <1>2. outbox \in Seq(Seq(Int)) /\ Len(outbox) \in Nat \ {0}
    BY <1>1, LenProperties, EmptySeq DEF AllGood
  <1>3. /\ Head(outbox) = outbox[1] /\ Len(outbox') = Len(outbox) - 1
        /\ outbox' \in Seq(Seq(Int))
        /\ \A i \in 1..Len(outbox') : outbox'[i] = outbox[i + 1] /\ i + 1 \in 1..Len(outbox)
    BY <1>1, <1>2, HeadTailProperties
  <1>4. pc = "closed" <=> pc' = "closed"
    BY <1>1
  <1>5. CASE pc = "closed"
    <2>1. Len(outbox) = 1
      BY <1>1, <1>5 DEF LinkInv, LastWord
    <2>2. Len(outbox') = 0
      BY <1>3, <2>1
    <2>3. outbox' = <<>>
      BY <1>3, <2>2, EmptySeq
    <2> QED  BY <1>4, <1>5, <2>3 DEF LastWord
  <1>6. CASE pc # "closed"
    <2>1. 1 \in 1..Len(outbox)
      BY <1>2
    <2>2. \A i \in 1..Len(outbox) : outbox[i][3] # CMD_RESET
      BY <1>6 DEF LinkInv, LastWord
    <2>3. NoReset(chassis.rx)
      BY <1>6 DEF LinkInv, LastWord
    <2>4. ASSUME NEW i \in 1..Len(outbox') PROVE outbox'[i][3] # CMD_RESET
      <3>1. outbox'[i] = outbox[i + 1] /\ i + 1 \in 1..Len(outbox)
        BY <1>3
      <3>2. outbox[i + 1][3] # CMD_RESET
        BY <2>2, <3>1
      <3> QED  BY <3>1, <3>2
    <2>5. buf'[3] # CMD_RESET
      <3>1. buf' = outbox[1]
        BY <1>1, <1>3
      <3>2. outbox[1][3] # CMD_RESET
        BY <2>1, <2>2
      <3> QED  BY <3>1, <3>2
    <2>6. NoReset(chassis'.rx)
      BY <1>1, <2>3
    <2> QED  BY <1>4, <1>6, <2>4, <2>5, <2>6 DEF LastWord
  <1> QED  BY <1>5, <1>6

LEMMA ElsewhereLastWord ==
  ASSUME LinkInv, down' = down, buf' = buf, chassis'.rx = chassis.rx \/ chassis'.rx = AtSOF,
         outbox' = outbox /\ pc' = pc
  PROVE  LastWord'
PROOF
  <1>1. NoReset(AtSOF)
    BY StartedOver DEF NoReset
  <1>2. NoReset(chassis.rx) => NoReset(chassis'.rx)
    BY <1>1
  <1> QED  BY <1>2 DEF LinkInv, LastWord

LEMMA CommandLastWord ==
  ASSUME TheWheels, LinkInv, drive \/ Brake \/ standby \/ Close
  PROVE  LastWord'
PROOF
  <1>1. pc = "ready" /\ outbox = <<>> /\ down = <<>> /\ down' = <<>> /\ chassis' = chassis
    BY DEF drive, Brake, standby, Close, Send
  <1>2. NoReset(chassis.rx)
    BY <1>1 DEF LinkInv, LastWord
  <1>3. CASE Close
    <2> DEFINE f == Frame(CMD_RESET, <<>>)
    <2>1. pc' = "closed" /\ outbox' = <<f>>
      BY <1>3 DEF Close, Send
    <2> HIDE DEF f
    <2> QED  BY <1>1, <1>2, <2>1 DEF LastWord
  <1>4. CASE drive \/ Brake \/ standby
    <2>1. pc' = "ready"
      BY <1>1, <1>4 DEF drive, Brake, standby, Command
    <2>2. Len(outbox') = 2 /\ \A i \in 1..2 : outbox'[i][3] # CMD_RESET
      <3>1. CASE drive
        <4>1. PICK s \in Speeds : outbox' = set_speeds(s[1], s[2])
          BY <3>1 DEF drive, Send
        <4>2. Len(set_speeds(s[1], s[2])) = 2
          BY DEF set_speeds, Pair
        <4> QED  BY <4>1, <4>2, NotReset
      <3>2. CASE Brake
        <4>1. outbox' = Pair(LAMBDA m : Frame(CMD_BRAKE, <<m>>))
          BY <3>2 DEF Brake, Send, brake
        <4>2. Len(outbox') = 2
          BY <4>1 DEF Pair
        <4> QED  BY <4>1, <4>2, NotReset
      <3>3. CASE standby
        <4>1. outbox' = Pair(LAMBDA m : Frame(CMD_STOP, <<m>>))
          BY <3>3 DEF standby, Send, stop
        <4>2. Len(outbox') = 2
          BY <4>1 DEF Pair
        <4> QED  BY <4>1, <4>2, NotReset
      <3> QED  BY <1>4, <3>1, <3>2, <3>3
    <2> QED  BY <1>1, <1>2, <2>1, <2>2 DEF LastWord
  <1> QED  BY <1>3, <1>4

LEMMA HostLastWord ==
  ASSUME TheWheels, LinkInv, Construct \/ Arrive \/ MakeNoise \/ FallSilent
  PROVE  LastWord'
PROOF
  <1>1. CASE Arrive \/ MakeNoise \/ FallSilent
    <2>1. down' = down /\ buf' = buf /\ chassis' = chassis /\ outbox' = outbox /\ pc' = pc
      BY <1>1 DEF Arrive, MakeNoise, FallSilent, host, line
    <2> QED  BY <2>1, ElsewhereLastWord
  <1>2. CASE Construct
    <2> DEFINE f == Frame(CMD_CONFIG, put_be16(ppr_) \o put_be16(pwm_freq_))
    <2>1. /\ pc \in {"initAck", "configAck"}
          /\ down' = down /\ buf' = buf /\ chassis' = chassis
      BY <1>2 DEF Construct, ReceiveByte, ReceiveNothing, Waiting, line
    <2>2. f[3] # CMD_RESET
      BY GoodOfConfig DEF TheWheels
    <2>3. pc' # "closed" /\ (outbox' = outbox \/ outbox' = <<f>>)
      <3>1. WaitEnds => pc' # "closed" /\ (outbox' = outbox \/ outbox' = <<f>>)
        BY DEF WaitEnds
      <3>2. WaitGoesOn => pc' # "closed" /\ outbox' = outbox
        BY <2>1 DEF WaitGoesOn
      <3>3. ASSUME NEW g, Overwritten(g) PROVE pc' # "closed" /\ outbox' = outbox
        BY <3>3 DEF Overwritten
      <3> QED  BY <1>2, <3>1, <3>2, <3>3 DEF Construct, ReceiveByte, ReceiveNothing
    <2> HIDE DEF f
    <2>4. \A i \in 1..Len(outbox') : outbox'[i][3] # CMD_RESET
      <3>1. CASE outbox' = outbox
        BY <2>1, <3>1 DEF LinkInv, LastWord
      <3>2. CASE outbox' = <<f>>
        BY <2>2, <3>2
      <3> QED  BY <2>3, <3>1, <3>2
    <2> QED  BY <2>1, <2>3, <2>4 DEF LinkInv, LastWord
  <1> QED  BY <1>1, <1>2

LEMMA LinkInvInit == ASSUME LinkInit PROVE LinkInv
PROOF
  <1>1. AllGood(outbox) /\ \A i \in 1..Len(outbox) : outbox[i][3] # CMD_RESET
    <2> DEFINE f == Frame(CMD_INIT, <<>>)
    <2>1. Good(f) /\ f[3] # CMD_RESET
      BY GoodOfNone
    <2> HIDE DEF f
    <2>2. AllGood(<<f>>) /\ \A i \in 1..Len(<<f>>) : <<f>>[i][3] # CMD_RESET
      BY <2>1, OneGood
    <2> QED  BY <2>2 DEF LinkInit, f
  <1>2. OnTheLine
    BY EmptySeq, StartedOver DEF LinkInit, OnTheLine
  <1>3. chassis \in Controller
    BY StartedOver, EmptySeq DEF LinkInit, Controller, Still, NoFrame
  <1>4. LastWord
    BY <1>1, StartedOver DEF LinkInit, LastWord, NoReset
  <1> QED  BY <1>1, <1>2, <1>3, <1>4 DEF LinkInv, LineInv

LEMMA LinkInvStep ==
  ASSUME TheWheels, LinkInv, [LinkNext]_linkVars
  PROVE  LinkInv'
PROOF
  <1>1. CASE UNCHANGED linkVars
    <2>1. LineInv'
      BY <1>1, ElsewhereInv DEF linkVars, host, line, LinkInv, LineInv
    <2>2. LastWord'
      BY <1>1, ElsewhereLastWord DEF linkVars, host, line
    <2> QED  BY <2>1, <2>2 DEF LinkInv
  <1>2. CASE LinkNext
    <2>1. LineInv'
      BY <1>2, ReadInv, SendInv, QuietInv, CommandInv, HostInv DEF LinkNext
    <2>2. ChassisQuiet => LastWord'
      <3>1. ChassisQuiet => /\ down' = down /\ buf' = buf /\ chassis'.rx = AtSOF
                            /\ outbox' = outbox /\ pc' = pc
        BY DEF ChassisQuiet, host, line, LinkInv, LineInv, Controller
      <3> QED  BY <3>1, ElsewhereLastWord
    <2>3. LastWord'
      BY <1>2, <2>2, ReadLastWord, SendLastWord, CommandLastWord, HostLastWord DEF LinkNext
    <2> QED  BY <2>1, <2>3 DEF LinkInv
  <1> QED  BY <1>1, <1>2

(* However often a write is cut, and wherever, whatever the speeds and the *)
(* noise: what the wheels' controller takes for a frame is the frame that  *)
(* was written last, whole, or one that is longer than its buffer, and     *)
(* that one moves no wheel (uart_motor_driver.cpp:28, 171-188).            *)
THEOREM LinkInventsNothing ==
  ASSUME TheWheels
  PROVE  LinkSpec => NothingInvented
PROOF
  <1>1. LinkInit => LinkInv
    BY LinkInvInit
  <1>2. LinkInv /\ [LinkNext]_linkVars => LinkInv'
    BY LinkInvStep
  <1>3. LinkInv /\ [LinkNext]_linkVars
          => [ChassisReads /\ chassis'.last # NoFrame =>
                \/ chassis'.last = buf
                \/ Overlong(chassis'.last) /\ chassis'.wheels = chassis.wheels]_linkVars
    BY ReadInv
  <1> QED  BY <1>1, <1>2, <1>3, PTL DEF LinkSpec, NothingInvented

-----------------------------------------------------------------------------
(* How many bytes a receiver that is out of step reads at most before it   *)
(* looks for the beginning of a frame again.                               *)
Owed(r) ==
  CASE r.at = "SOF0" -> 0
    [] r.at = "SOF1" -> 1
    [] r.at = "CMD"  -> 35
    [] r.at = "LEN"  -> 34
    [] r.at \in {"PAYLOAD", "CHK"} ->
         IF r.len > PAYLOAD_MAX THEN 33 - r.got ELSE r.len - r.got + 1

LEMMA OwedAtMost ==
  ASSUME NEW r \in Receiver, Left(r)
  PROVE  Owed(r) \in 0..35
PROOF
  <1>1. CASE r.at \in {"SOF0", "SOF1", "CMD", "LEN"}
    BY <1>1 DEF Owed
  <1>2. CASE Swallows(r, 0)
    <2>1. r.len > PAYLOAD_MAX /\ r.got \in 0..32 /\ r.at \in {"PAYLOAD", "CHK"}
      BY <1>2 DEF Swallows, PAYLOAD_MAX
    <2>2. Owed(r) = 33 - r.got
      BY <2>1 DEF Owed
    <2> QED  BY <2>1, <2>2
  <1>3. CASE Short(r)
    <2>1. r.len \in 0..4 /\ r.got \in 0..r.len /\ r.at \in {"PAYLOAD", "CHK"}
      BY <1>3 DEF Short, Within
    <2>2. ~(r.len > PAYLOAD_MAX)
      BY <2>1 DEF PAYLOAD_MAX
    <2>3. Owed(r) = r.len - r.got + 1
      BY <2>1, <2>2 DEF Owed
    <2> QED  BY <2>1, <2>3
  <1> QED  BY <1>1, <1>2, <1>3 DEF Left

(* What looks like the first byte of a frame, but is not, leads nowhere.   *)
LEMMA FalseStart ==
  ASSUME NEW f, Good(f), NEW p \in 0..Len(f) - 1, NEW r \in Receiver, Reads(r, f, p),
         r.at = "SOF1", p # 1, NEW q, q = Feed(r, f[p + 1])
  PROVE  q.at = "SOF0"
PROOF
  <1>0. p \in Nat
    BY GoodHead
  <1>1. Goes(q, f, p + 1)
    BY OneByte
  <1>2. q = [r EXCEPT !.at = IF f[p + 1] = 85 THEN "CMD" ELSE "SOF0"]
    BY DEF Feed
  <1>3. q.at = IF f[p + 1] = 85 THEN "CMD" ELSE "SOF0"
    BY <1>2 DEF Receiver
  <1>4. q.at = "CMD" => Reads(q, f, p + 1)
    BY <1>1 DEF Goes
  <1>5. ~(q.at = "CMD" /\ InStep(q, f, p + 1))
    <2>1. p + 1 # 2
      BY <1>0
    <2>2. ~(q.at = "CMD" /\ InBody(q, f, p + 1))
      BY DEF InBody, Within
    <2> QED  BY <2>1, <2>2 DEF InStep
  <1>6. ~(q.at = "CMD" /\ Adrift(q, f, p + 1))
    <2>1. p + 1 # 0
      BY <1>0
    <2> QED  BY <2>1 DEF Adrift
  <1>7. ~(q.at = "CMD" /\ (Swallows(q, p + 1) \/ Doomed(q, f, p + 1)))
    BY DEF Swallows, Doomed, Short, Within
  <1> QED  BY <1>3, <1>4, <1>5, <1>6, <1>7 DEF Reads

LEMMA OwedLess ==
  ASSUME NEW f, Good(f), NEW p \in 0..Len(f) - 1, NEW r \in Receiver, Reads(r, f, p),
         ~InStep(r, f, p), r.at # "SOF0", NEW q, q = Feed(r, f[p + 1])
  PROVE  q.at \in {"done", "SOF0"} \/ Owed(q) = Owed(r) - 1
PROOF
  <1> DEFINE b == f[p + 1]
  <1>1. CASE r.at = "SOF1"
    <2>1. p # 1
      BY <1>1 DEF Reads, Adrift, Swallows, Doomed, Short, Within
    <2> QED  BY <1>1, <2>1, FalseStart
  <1>2. CASE r.at = "CMD"
    <2>1. q = [r EXCEPT !.at = "LEN", !.cmd = b]
      BY <1>2 DEF Feed
    <2>2. q.at = "LEN"
      BY <2>1 DEF Receiver
    <2> QED  BY <1>2, <2>2 DEF Owed
  <1>3. CASE r.at = "LEN"
    <2>1. p \in {0, 1} /\ r.got = 0
      BY <1>3 DEF Reads, Adrift, Swallows, Doomed, Short, Within, Fresh
    <2>2. b > 32 /\ b # 0
      BY <2>1, GoodHead
    <2>3. q = [r EXCEPT !.at = "PAYLOAD", !.len = b, !.chk = Xor(r.cmd, b)]
      BY <1>3, <2>2 DEF Feed
    <2> HIDE DEF b
    <2>4. q.at = "PAYLOAD" /\ q.len = b /\ q.got = r.got
      BY <2>3 DEF Receiver
    <2>5. Owed(q) = 33 /\ Owed(r) = 34
      BY <1>3, <2>1, <2>2, <2>4 DEF Owed, PAYLOAD_MAX
    <2> QED  BY <2>5
  <1>4. CASE r.at \in {"PAYLOAD", "CHK"}
    <2>1. Swallows(r, p) \/ Doomed(r, f, p)
      BY <1>4 DEF Reads, Adrift
    <2>2. CASE r.at = "CHK"
      <3>1. q = CheckedEnd(r, b)
        BY <2>2 DEF Feed
      <3> QED  BY <3>1 DEF CheckedEnd, Done, AtSOF
    <2>3. CASE r.at = "PAYLOAD"
      <3> DEFINE a == IF r.got + 1 = Until(r.len) THEN "CHK" ELSE "PAYLOAD"
                 n == r.got + 1
                 y == IF r.len > PAYLOAD_MAX THEN 0 ELSE Xor(r.chk, b)
                 t == IF r.got < Kept(r.len) THEN Append(r.payload, b) ELSE r.payload
      <3>1. q = [r EXCEPT !.at = a, !.got = n, !.chk = y, !.payload = t]
        BY <2>3 DEF Feed, Payload
      <3>2. a \in {"PAYLOAD", "CHK"} /\ r.got \in Int /\ r.len \in Int
        BY DEF Receiver
      <3> HIDE DEF a, y, t
      <3>3. q.at = a /\ q.got = r.got + 1 /\ q.len = r.len
        BY <3>1 DEF Receiver
      <3>4. CASE r.len > PAYLOAD_MAX
        <4>1. Owed(q) = 33 - (r.got + 1) /\ Owed(r) = 33 - r.got
          BY <2>3, <3>2, <3>3, <3>4 DEF Owed
        <4> QED  BY <3>2, <4>1
      <3>5. CASE ~(r.len > PAYLOAD_MAX)
        <4>1. Owed(q) = r.len - (r.got + 1) + 1 /\ Owed(r) = r.len - r.got + 1
          BY <2>3, <3>2, <3>3, <3>5 DEF Owed
        <4> QED  BY <3>2, <4>1
      <3> QED  BY <3>4, <3>5
    <2> QED  BY <1>4, <2>2, <2>3
  <1> QED  BY <1>1, <1>2, <1>3, <1>4 DEF Receiver

(* In step with the frame, or looking for a beginning, or still to read at *)
(* most so many bytes, counted from the beginning of the frame.            *)
OnTime(r, f, bytes, debt) ==
  \/ InStep(r, f, bytes)
  \/ r.at = "SOF0"
  \/ r.at = "SOF1" /\ bytes >= 2
  \/ Owed(r) + bytes <= debt

LEMMA StaysOnTime ==
  ASSUME NEW f, Good(f), NEW p \in 0..Len(f) - 1, NEW r \in Receiver, Reads(r, f, p),
         NEW debt \in Int, OnTime(r, f, p, debt), NEW q, q = Feed(r, f[p + 1])
  PROVE  q.at = "done" \/ OnTime(q, f, p + 1, debt)
PROOF
  <1>0. p \in Nat
    BY GoodHead
  <1>1. CASE InStep(r, f, p)
    <2>1. Follows(q, f, p + 1)
      BY <1>1, ReadsInStep
    <2> QED  BY <2>1 DEF Follows, OnTime, Done, AtSOF
  <1>2. CASE ~InStep(r, f, p) /\ r.at = "SOF0"
    <2>1. p >= 1
      BY <1>2 DEF Reads, Adrift, Swallows, Doomed, Short, Within
    <2>2. p + 1 >= 2
      BY <1>0, <2>1
    <2>3. q = r \/ q = [r EXCEPT !.at = "SOF1"]
      BY <1>2 DEF Feed
    <2>4. q.at = "SOF0" \/ q.at = "SOF1"
      BY <1>2, <2>3 DEF Receiver
    <2> QED  BY <2>2, <2>4 DEF OnTime
  <1>3. CASE ~InStep(r, f, p) /\ r.at = "SOF1" /\ p >= 2
    <2>1. p # 1
      BY <1>3
    <2>2. q.at = "SOF0"
      BY <1>3, <2>1, FalseStart
    <2> QED  BY <2>2 DEF OnTime
  <1>4. CASE ~InStep(r, f, p) /\ r.at # "SOF0" /\ Owed(r) + p <= debt
    <2>1. q.at \in {"done", "SOF0"} \/ Owed(q) = Owed(r) - 1
      BY <1>4, OwedLess
    <2>2. Owed(r) \in 0..35
      <3>1. p \in 0..Len(f)
        BY <1>0
      <3> QED  BY <3>1, LeftAnywhere, OwedAtMost
    <2>3. Owed(q) = Owed(r) - 1 => Owed(q) + (p + 1) <= debt
      <3> DEFINE x == Owed(r)
                 y == Owed(q)
      <3>0. x \in 0..35 /\ x + p <= debt
        BY <1>4, <2>2
      <3> HIDE DEF x, y
      <3>1. x \in Int /\ p \in Int /\ x + p <= debt
        BY <1>0, <3>0
      <3>2. y = x - 1 => y + (p + 1) <= debt
        BY <3>1
      <3> QED  BY <3>2 DEF x, y
    <2> QED  BY <2>1, <2>3 DEF OnTime
  <1> QED  BY <1>1, <1>2, <1>3, <1>4 DEF OnTime

LEMMA InTheEnd ==
  ASSUME NEW f, Good(f), NEW r \in Receiver, Reads(r, f, Len(f)), NEW debt,
         OnTime(r, f, Len(f), debt)
  PROVE  r.at = "SOF0" \/ Owed(r) + Len(f) <= debt
PROOF
  <1> DEFINE n == Len(f)
  <1>0. n \in 5..9
    BY GoodHead
  <1> HIDE DEF n
  <1>1. n \notin {0, 1, 2, 3} /\ ~(n \in 4..n - 1) /\ n >= 2 /\ n \in 2..n /\ n # n - 1
    BY <1>0
  <1>2. ~InStep(r, f, Len(f))
    BY <1>1 DEF InStep, n
  <1>3. r.at # "SOF1"
    <2>1. SUFFICES ASSUME r.at = "SOF1" PROVE FALSE
      OBVIOUS
    <2>2. f[Len(f)] = 170
      BY <1>1, <1>2, <2>1 DEF Reads, Adrift, Swallows, Doomed, Short, Within, n
    <2>3. Len(f) \in 2..Len(f) /\ Len(f) # Len(f) - 1
      BY <1>1 DEF n
    <2> QED  BY <2>2, <2>3 DEF Good
  <1> QED  BY <1>2, <1>3 DEF OnTime

-----------------------------------------------------------------------------
(* A frame that tells a motor what the command is about.                   *)
Tells(f, m, of) ==
  /\ Good(f) /\ Len(f) >= 6 /\ f[3] \in {CMD_SET_SPEED, CMD_STOP, CMD_BRAKE}
  /\ OneOf(f) = m /\ Value(f) = of[m]

LEMMA ObeyTells ==
  ASSUME NEW c \in Controller, NEW f, NEW m \in Motors, NEW of, Tells(f, m, of),
         NEW q, q = Obey(c, f)
  PROVE  /\ q.inited = c.inited
         /\ c.inited => q.wheels[m] = of[m]
         /\ \A k \in Motors \ {m} : q.wheels[k] = c.wheels[k]
PROOF
  <1> DEFINE start == AtSOF
             next == [c EXCEPT !.rx = start, !.last = f]
             x == Value(f)
  <1>1. f # NoFrame /\ f[3] \in {CMD_SET_SPEED, CMD_STOP, CMD_BRAKE} /\ OneOf(f) = m /\ x = of[m]
    BY GoodHead, EmptySeq DEF Tells, NoFrame
  <1>2. q = IF c.inited THEN [next EXCEPT !.wheels[m] = x] ELSE next
    BY <1>1 DEF Obey
  <1>3. start \in Receiver /\ f \in Seq(Int)
    BY StartedOver DEF Tells, Good
  <1> HIDE DEF start, x
  <1>4. next \in Controller
    BY <1>3 DEF Controller
  <1>5. next.inited = c.inited /\ next.wheels = c.wheels
    BY DEF Controller
  <1> HIDE DEF next
  <1>6. CASE c.inited
    <2>1. q = [next EXCEPT !.wheels[m] = x]
      BY <1>2, <1>6
    <2>2. q.inited = next.inited
      BY <1>4, <2>1 DEF Controller
    <2>3. q.wheels = [next.wheels EXCEPT ![m] = x]
      BY <1>4, <2>1 DEF Controller
    <2>4. next.wheels \in [Motors -> Seq(Int)]
      BY <1>4 DEF Controller
    <2>5. q.wheels[m] = x /\ \A k \in Motors \ {m} : q.wheels[k] = next.wheels[k]
      BY <2>3, <2>4
    <2> QED  BY <1>1, <1>5, <2>2, <2>5
  <1>7. CASE ~c.inited
    BY <1>2, <1>5, <1>7
  <1> QED  BY <1>6, <1>7

LEMMA ObeyNothing ==
  ASSUME NEW c \in Controller, NEW q, q = Obey(c, NoFrame)
  PROVE  q.inited = c.inited /\ q.wheels = c.wheels
PROOF
  <1>1. q = [c EXCEPT !.rx = AtSOF, !.last = NoFrame]
    BY DEF Obey
  <1> QED  BY <1>1 DEF Controller

LEMMA ObeyReset ==
  ASSUME NEW c \in Controller, NEW f, Good(f), f[3] = CMD_RESET, NEW q, q = Obey(c, f)
  PROVE  ~q.inited
PROOF
  <1> DEFINE start == AtSOF
             still == Still
             next == [c EXCEPT !.rx = start, !.last = f]
  <1>1. f # NoFrame
    BY GoodHead, EmptySeq DEF NoFrame
  <1>2. q = [next EXCEPT !.inited = FALSE, !.wheels = still]
    BY <1>1 DEF Obey
  <1>3. start \in Receiver /\ f \in Seq(Int)
    BY StartedOver DEF Good
  <1> HIDE DEF start, still
  <1>4. next \in Controller
    BY <1>3 DEF Controller
  <1> HIDE DEF next
  <1>5. q.inited = FALSE
    BY <1>2, <1>4 DEF Controller
  <1> QED  BY <1>5

-----------------------------------------------------------------------------
(* Which frames a command still has to bring.                              *)
Pending ==
  /\ Len(outbox) \in 0..2
  /\ Len(outbox) = 2 =>
       /\ down = <<>>
       /\ Tells(outbox[1], 0, command.of) /\ Tells(outbox[2], 1, command.of)
  /\ Len(outbox) = 1 =>
       Tells(outbox[1], 1, command.of) /\ (down # <<>> => Tells(buf, 0, command.of))
  /\ Len(outbox) = 0 => (down # <<>> => Tells(buf, 1, command.of))

(* The bytes on the line are all the rest of the frame.                    *)
Came == Len(buf) - Len(down)
Whole == Came \in 0..Len(buf) /\ Coming(Came)

(* What is owed between two frames: a command is at least twelve bytes.    *)
Debt == 35 - 12 * repeated - (IF Len(outbox) = 1 THEN 6 ELSE 0)

(* The frames that are sure to be read: after three whole commands nothing *)
(* is owed any more.                                                       *)
Sure == clean \/ repeated + Len(outbox) >= 4

Synchronised ==
  /\ down = <<>> => chassis.rx.at = "SOF0" \/ (~clean /\ Owed(chassis.rx) <= Debt)
  /\ down # <<>> /\ repeated >= 0 => Whole /\ OnTime(chassis.rx, buf, Came, Debt + 6)
  /\ down # <<>> /\ Sure => Whole /\ InStep(chassis.rx, buf, Came)

Told(m) == chassis.inited => chassis.wheels[m] = command.of[m]
Wheels ==
  /\ Sure /\ (Len(outbox) = 0 \/ (Len(outbox) = 1 /\ down = <<>>)) => Told(0)
  /\ Sure /\ Len(outbox) = 0 /\ down = <<>> => Told(1)

(* The destructor's one frame is read if nothing was owed before it.       *)
Resetting ==
  /\ repeated <= 1 /\ Len(outbox) \in 0..1
  /\ Len(outbox) = 1 =>
       /\ down = <<>> /\ repeated <= 0 /\ outbox[1][3] = CMD_RESET
       /\ clean => chassis.rx.at = "SOF0"
  /\ clean /\ Len(outbox) = 0 /\ down # <<>> =>
       Whole /\ InStep(chassis.rx, buf, Came) /\ buf[3] = CMD_RESET
  /\ clean /\ Len(outbox) = 0 /\ down = <<>> => ~chassis.inited

Moves == {"drive", "brake", "standby"}
GetInv ==
  /\ clean \in BOOLEAN /\ repeated \in -1..REPEATS
  /\ command \in [name : Moves \cup {"none", "reset"}, of : [Motors -> Seq(Int)]]
  /\ command.name \in Moves => pc = "ready" /\ Pending /\ Synchronised /\ Wheels
  /\ command.name = "reset" => pc = "closed" /\ Resetting

(* The frames of each command do tell the motors what it is about.         *)
LEMMA OneTells ==
  ASSUME NEW c \in {CMD_STOP, CMD_BRAKE}, NEW m \in Motors, NEW of, of[m] = <<c>>
  PROVE  Tells(Frame(c, <<m>>), m, of)
PROOF
  <1> DEFINE f == Frame(c, <<m>>)
  <1>1. Good(f) /\ f[3] = c /\ f[5] = m
    BY GoodOfOne
  <1> HIDE DEF f
  <1>2. Len(f) = 6
    <2>1. Headed(f) /\ Len(f) = 5 + f[4]
      BY <1>1 DEF Good
    <2>2. f[4] = 1
      BY <1>1, <2>1 DEF Headed
    <2> QED  BY <2>1, <2>2
  <1>3. Value(f) = <<c>> /\ OneOf(f) = m
    BY <1>1 DEF Value, OneOf
  <1>4. Len(f) >= 6
    BY <1>2
  <1>5. Tells(f, m, of)
    BY <1>1, <1>3, <1>4 DEF Tells
  <1> QED  BY <1>5 DEF f

LEMMA SpeedTells ==
  ASSUME NEW m \in Motors, NEW v \in PwmRange, NEW of, of[m] = <<CMD_SET_SPEED>> \o put_be16(v)
  PROVE  Tells(Frame(CMD_SET_SPEED, <<m>> \o put_be16(v)), m, of) /\ of[m] \in Seq(Int)
PROOF
  <1> DEFINE f == Frame(CMD_SET_SPEED, <<m>> \o put_be16(v))
             a == <<16>>
             b == put_be16(v)
             hi == f[6]
             lo == f[7]
  <1>1. Good(f) /\ f[3] = 16 /\ f[5] = m /\ b = <<hi, lo>>
    BY GoodOfSpeed
  <1> HIDE DEF f
  <1>2. Len(f) = 8
    <2>1. Headed(f) /\ Len(f) = 5 + f[4]
      BY <1>1 DEF Good
    <2>2. f[4] = 3
      BY <1>1, <2>1 DEF Headed
    <2> QED  BY <2>1, <2>2
  <1>3. hi \in Int /\ lo \in Int
    <2>1. \A n \in 1..Len(f) : f[n] \in Int
      BY <1>1, GoodHead
    <2> QED  BY <1>2, <2>1
  <1>4. OneOf(f) = m /\ Value(f) = <<16, hi, lo>>
    BY <1>1 DEF Value, OneOf
  <1>5. a \o b = <<16, hi, lo>>
    <2> HIDE DEF hi, lo, b
    <2> DEFINE x == <<hi, lo>>
               w == <<16, hi, lo>>
    <2>1. /\ a \in Seq(Int) /\ Len(a) = 1 /\ a[1] = 16
          /\ x \in Seq(Int) /\ Len(x) = 2 /\ x[1] = hi /\ x[2] = lo
          /\ w \in Seq(Int) /\ Len(w) = 3 /\ w[1] = 16 /\ w[2] = hi /\ w[3] = lo
      BY <1>3
    <2> HIDE DEF a, x, w
    <2>2. /\ a \o x \in Seq(Int) /\ Len(a \o x) = Len(a) + Len(x)
          /\ \A i \in 1..Len(a) + Len(x) : (a \o x)[i] = IF i <= Len(a) THEN a[i] ELSE x[i - Len(a)]
      BY <2>1, ConcatProperties
    <2>3. (a \o x)[1] = 16 /\ (a \o x)[2] = hi /\ (a \o x)[3] = lo
      BY <2>1, <2>2
    <2>4. Len(a \o x) = Len(w)
      BY <2>1, <2>2
    <2>5. \A i \in 1..Len(a \o x) : (a \o x)[i] = w[i]
      <3>1. \A i \in 1..Len(a \o x) : i \in {1, 2, 3}
        BY <2>1, <2>2
      <3> QED  BY <2>1, <2>3, <3>1
    <2>6. a \o x = w
      BY <2>1, <2>2, <2>4, <2>5, SeqEqual
    <2> QED  BY <1>1, <2>6 DEF x, w
  <1>6. <<16, hi, lo>> \in Seq(Int)
    BY <1>3
  <1>7. of[m] = <<16, hi, lo>>
    BY <1>5
  <1>8. Len(f) >= 6
    BY <1>2
  <1> HIDE DEF hi, lo, a, b
  <1>9. Tells(f, m, of)
    BY <1>1, <1>4, <1>7, <1>8 DEF Tells
  <1> QED  BY <1>6, <1>7, <1>9 DEF f

LEMMA DebtIs ==
  ASSUME NEW r \in Int, repeated = r
  PROVE  Debt = IF Len(outbox) = 1 THEN 29 - 12 * r ELSE 35 - 12 * r
  BY DEF Debt

(* What reaches neither the line nor the controller, again.                *)
LEMMA GetElsewhere ==
  ASSUME GetInv, buf' = buf, down' = down, chassis' = chassis, command' = command,
         clean' = clean, repeated' = repeated,
         command.name = "none" \/ (outbox' = outbox /\ pc' = pc)
  PROVE  GetInv'
PROOF
  <1>1. CASE command.name = "none"
    BY <1>1 DEF GetInv, Moves
  <1>2. CASE outbox' = outbox /\ pc' = pc
    <2>1. (Pending => Pending') /\ (Wheels => Wheels') /\ (Resetting => Resetting')
      BY <1>2 DEF Pending, Wheels, Resetting, Told, Sure, Whole, Came, Coming
    <2>2. Synchronised => Synchronised'
      BY <1>2 DEF Synchronised, Sure, Whole, Came, Coming, Debt
    <2> QED  BY <1>2, <2>1, <2>2 DEF GetInv
  <1> QED  BY <1>1, <1>2

LEMMA GetHost ==
  ASSUME GetInv, Construct \/ Arrive \/ MakeNoise \/ FallSilent
  PROVE  GetInv'
PROOF
  <1>1. CASE Construct
    <2>1. pc \in {"initAck", "configAck"} /\ command' = command /\ chassis' = chassis
          /\ buf' = buf /\ down' = down /\ clean' = clean /\ repeated' = repeated
      BY <1>1 DEF Construct, ReceiveByte, ReceiveNothing, Waiting, line
    <2>2. command.name = "none"
      BY <2>1 DEF GetInv
    <2> QED  BY <2>1, <2>2, GetElsewhere
  <1>2. CASE Arrive \/ MakeNoise \/ FallSilent
    <2>1. pc' = pc /\ outbox' = outbox /\ command' = command /\ chassis' = chassis
          /\ buf' = buf /\ down' = down /\ clean' = clean /\ repeated' = repeated
      BY <1>2 DEF Arrive, MakeNoise, FallSilent, host, line
    <2> QED  BY <2>1, GetElsewhere
  <1> QED  BY <1>1, <1>2

LEMMA GetQuiet ==
  ASSUME LinkInv, GetInv, ChassisQuiet
  PROVE  GetInv'
PROOF
  <1> DEFINE start == AtSOF
  <1>1. /\ chassis \in Controller /\ chassis' = [chassis EXCEPT !.rx = start]
        /\ down = <<>> /\ start.at = "SOF0"
    BY StartedOver DEF LinkInv, LineInv, ChassisQuiet
  <1>2. /\ pc' = pc /\ outbox' = outbox /\ command' = command /\ buf' = buf /\ down' = down
        /\ clean' = clean /\ repeated' = repeated
    BY DEF ChassisQuiet, host, line
  <1> HIDE DEF start
  <1>3. chassis'.rx = start /\ chassis'.inited = chassis.inited /\ chassis'.wheels = chassis.wheels
    BY <1>1 DEF Controller
  <1>4. Pending => Pending'
    BY <1>2 DEF Pending
  <1>5. Wheels => Wheels'
    BY <1>2, <1>3 DEF Wheels, Told, Sure
  <1>6. Synchronised'
    BY <1>1, <1>2, <1>3 DEF Synchronised
  <1>7. Resetting => Resetting'
    BY <1>1, <1>2, <1>3 DEF Resetting
  <1>8. command'.name \in Moves => pc' = "ready" /\ Pending' /\ Synchronised' /\ Wheels'
    BY <1>2, <1>4, <1>5, <1>6 DEF GetInv
  <1>9. command'.name = "reset" => pc' = "closed" /\ Resetting'
    BY <1>2, <1>7 DEF GetInv
  <1>10. /\ clean' \in BOOLEAN /\ repeated' \in -1..REPEATS
         /\ command' \in [name : Moves \cup {"none", "reset"}, of : [Motors -> Seq(Int)]]
    BY <1>2 DEF GetInv
  <1> QED  BY <1>8, <1>9, <1>10 DEF GetInv

(* A command begins.                                                       *)
LEMMA GetSend ==
  ASSUME LinkInv, GetInv, NEW name \in Moves, NEW frames, NEW of \in [Motors -> Seq(Int)],
         Send(name, frames, of), Command, Len(frames) = 2,
         Tells(frames[1], 0, of), Tells(frames[2], 1, of)
  PROVE  GetInv'
PROOF
  <1>1. /\ pc = "ready" /\ pc' = "ready" /\ outbox = <<>> /\ down = <<>> /\ down' = <<>>
        /\ outbox' = frames /\ command' = [name |-> name, of |-> of]
        /\ clean' = (chassis.rx = AtSOF)
        /\ repeated' = IF command' = command THEN repeated ELSE 0
        /\ chassis' = chassis
    BY DEF Send, Command
  <1>2. /\ Len(outbox) = 0 /\ Len(outbox') = 2
        /\ Len(outbox) # 1 /\ Len(outbox') # 1 /\ Len(outbox') # 0
    <2>1. Len(outbox) = 0
      BY <1>1, EmptySeq
    <2>2. Len(outbox') = 2
      BY <1>1
    <2> QED  BY <2>1, <2>2
  <1>3. Pending'
    <2>1. command'.of = of /\ outbox'[1] = frames[1] /\ outbox'[2] = frames[2]
      BY <1>1
    <2>2. Len(outbox') \in 0..2
      BY <1>2
    <2> QED  BY <1>1, <1>2, <2>1, <2>2 DEF Pending
  <1>4. Wheels'
    BY <1>2 DEF Wheels
  <1>5. repeated' \in -1..REPEATS
    <2>1. 0 \in -1..REPEATS
      BY RepeatsNat
    <2>2. repeated \in -1..REPEATS
      BY DEF GetInv
    <2> QED  BY <1>1, <2>1, <2>2
  <1>6. chassis.rx \in Receiver /\ Left(chassis.rx)
    BY <1>1 DEF LinkInv, LineInv, OnTheLine, Controller
  <1>7. chassis.rx.at = "SOF0" \/ (~clean' /\ Owed(chassis.rx) <= Debt')
    <2>1. CASE chassis.rx = AtSOF
      BY <2>1, StartedOver
    <2>2. CASE chassis.rx # AtSOF /\ command' = command
      <3>1. command.name = name /\ ~clean' /\ repeated' = repeated
        <4>1. command'.name = name
          BY <1>1
        <4>2. ~clean' /\ repeated' = repeated
          BY <1>1, <2>2
        <4> QED  BY <2>2, <4>1, <4>2
      <3>2. Synchronised
        BY <3>1 DEF GetInv
      <3>3. Debt' = Debt
        BY <1>2, <3>1 DEF Debt
      <3>4. chassis.rx.at = "SOF0" \/ Owed(chassis.rx) <= Debt
        BY <1>1, <3>2 DEF Synchronised
      <3> QED  BY <3>1, <3>3, <3>4
    <2>3. CASE chassis.rx # AtSOF /\ command' # command
      <3>1. ~clean' /\ repeated' = 0
        BY <1>1, <2>3
      <3>2. Debt' = 35
        BY <1>2, <3>1 DEF Debt
      <3>3. Owed(chassis.rx) \in 0..35
        BY <1>6, OwedAtMost
      <3>4. Owed(chassis.rx) <= 35
        <4>1. \A x \in 0..35 : x <= 35
          OBVIOUS
        <4> QED  BY <3>3, <4>1
      <3> QED  BY <3>1, <3>2, <3>4
    <2> QED  BY <2>1, <2>2, <2>3
  <1>8. Synchronised'
    BY <1>1, <1>7 DEF Synchronised
  <1>9. clean' \in BOOLEAN /\ command'.name = name /\ name # "reset"
    BY <1>1 DEF Moves
  <1>10. command' \in [name : Moves \cup {"none", "reset"}, of : [Motors -> Seq(Int)]]
    BY <1>1
  <1> QED  BY <1>1, <1>3, <1>4, <1>5, <1>8, <1>9, <1>10 DEF GetInv

LEMMA GetPair ==
  ASSUME LinkInv, GetInv, NEW c \in {CMD_STOP, CMD_BRAKE}, NEW name \in Moves,
         NEW frames, NEW of, frames = Pair(LAMBDA m : Frame(c, <<m>>)),
         of = [m \in Motors |-> <<c>>], Send(name, frames, of), Command
  PROVE  GetInv'
PROOF
  <1> DEFINE F(m) == Frame(c, <<m>>)
  <1>1. <<c>> \in Seq(Int) /\ of[0] = <<c>> /\ of[1] = <<c>>
    OBVIOUS
  <1>2. of \in [Motors -> Seq(Int)]
    BY <1>1
  <1>3. Tells(F(0), 0, of) /\ Tells(F(1), 1, of)
    BY <1>1, OneTells
  <1>4. frames = <<F(0), F(1)>>
    BY DEF Pair
  <1> HIDE DEF F
  <1>5. Len(frames) = 2 /\ frames[1] = F(0) /\ frames[2] = F(1)
    BY <1>4
  <1> QED  BY <1>2, <1>3, <1>5, GetSend

LEMMA GetCommand ==
  ASSUME TheWheels, LinkInv, GetInv, drive \/ Brake \/ standby
  PROVE  GetInv'
PROOF
  <1>1. CASE drive
    <2>1. PICK s \in Speeds : Send("drive", set_speeds(s[1], s[2]), Speed(s[1], s[2])) /\ Command
      BY <1>1 DEF drive
    <2> DEFINE l == s[1]
               r == s[2]
               F(m, v) == Frame(CMD_SET_SPEED, <<m>> \o put_be16(v))
               G(v) == <<CMD_SET_SPEED>> \o put_be16(v)
               frames == set_speeds(l, r)
               of == Speed(l, r)
    <2>2. l \in PwmRange /\ r \in PwmRange
      BY DEF TheWheels
    <2>3. frames = <<F(0, l), F(1, r)>>
      BY DEF set_speeds, Pair
    <2>4. of = [m \in Motors |-> IF m = 0 THEN G(l) ELSE G(r)]
      BY DEF Speed
    <2>5. of[0] = G(l) /\ of[1] = G(r)
      <3> HIDE DEF G, of
      <3> QED  BY <2>4
    <2>6. /\ Tells(F(0, l), 0, of) /\ Tells(F(1, r), 1, of)
          /\ of[0] \in Seq(Int) /\ of[1] \in Seq(Int)
      <3> HIDE DEF of, l, r
      <3> QED  BY <2>2, <2>5, SpeedTells
    <2> HIDE DEF F, G
    <2>7. of \in [Motors -> Seq(Int)]
      <3> HIDE DEF of
      <3> QED  BY <2>4, <2>5, <2>6
    <2>8. Len(frames) = 2 /\ frames[1] = F(0, l) /\ frames[2] = F(1, r)
      <3> HIDE DEF frames, l, r
      <3> QED  BY <2>3
    <2>9. Send("drive", frames, of) /\ Command /\ "drive" \in Moves
      BY <2>1 DEF Moves
    <2> HIDE DEF frames, of
    <2> QED  BY <2>6, <2>7, <2>8, <2>9, GetSend
  <1>2. CASE Brake
    <2>1. Send("brake", brake, [m \in Motors |-> <<CMD_BRAKE>>]) /\ Command /\ "brake" \in Moves
      BY <1>2 DEF Brake, Moves
    <2>2. brake = Pair(LAMBDA m : Frame(CMD_BRAKE, <<m>>))
      BY DEF brake
    <2> QED  BY <2>1, <2>2, GetPair
  <1>3. CASE standby
    <2>1. Send("standby", stop, Still) /\ Command /\ "standby" \in Moves
      BY <1>3 DEF standby, Moves
    <2>2. stop = Pair(LAMBDA m : Frame(CMD_STOP, <<m>>))
      BY DEF stop
    <2>3. Still = [m \in Motors |-> <<CMD_STOP>>]
      BY DEF Still
    <2> QED  BY <2>1, <2>2, <2>3, GetPair
  <1> QED  BY <1>1, <1>2, <1>3

LEMMA GetClose ==
  ASSUME LinkInv, GetInv, Close
  PROVE  GetInv'
PROOF
  <1> DEFINE f == Frame(CMD_RESET, <<>>)
             o == <<f>>
  <1>1. /\ pc = "ready" /\ pc' = "closed" /\ down' = <<>> /\ outbox' = o
        /\ command' = [name |-> "reset", of |-> Still]
        /\ clean' = (chassis.rx = AtSOF) /\ chassis' = chassis
        /\ repeated' = IF command' = command THEN repeated ELSE 0
    BY DEF Close, Send
  <1>2. f[3] = CMD_RESET
    BY GoodOfNone
  <1> HIDE DEF f
  <1>3. Len(o) = 1 /\ o[1] = f
    OBVIOUS
  <1> HIDE DEF o
  <1>4. command'.name = "reset"
    BY <1>1
  <1>5. repeated' = 0
    <2>1. command.name # "reset"
      BY <1>1 DEF GetInv
    <2> QED  BY <1>1, <1>4, <2>1
  <1>6. Len(outbox') = 1 /\ outbox'[1][3] = CMD_RESET
    BY <1>1, <1>2, <1>3
  <1>7. clean' => chassis'.rx.at = "SOF0"
    BY <1>1, StartedOver
  <1>8. Resetting'
    BY <1>1, <1>5, <1>6, <1>7 DEF Resetting
  <1>9. repeated' \in -1..REPEATS
    BY <1>5, RepeatsNat
  <1>10. command' \in [name : Moves \cup {"none", "reset"}, of : [Motors -> Seq(Int)]]
    BY <1>1 DEF Still
  <1>11. clean' \in BOOLEAN /\ command'.name \notin Moves
    BY <1>1, <1>4 DEF Moves
  <1> QED  BY <1>1, <1>8, <1>9, <1>10, <1>11 DEF GetInv

(* A frame of it is written, whole or in part.                             *)
SendsNext ==
  /\ outbox # <<>> /\ down = <<>> /\ Len(outbox) \in Nat \ {0}
  /\ Len(outbox') = Len(outbox) - 1 /\ \A i \in 1..Len(outbox') : outbox'[i] = outbox[i + 1]
  /\ outbox' = <<>> <=> Len(outbox') = 0
  /\ buf' = outbox[1] /\ Good(buf') /\ chassis' = chassis /\ command' = command
  /\ chassis.rx \in Receiver /\ Left(chassis.rx) /\ NoReset(chassis.rx)

LEMMA SendsTheNext ==
  ASSUME LinkInv, send_frame
  PROVE  SendsNext /\ Head(outbox) = outbox[1]
PROOF
  <1>1. /\ AllGood(outbox) /\ chassis \in Controller /\ outbox # <<>> /\ down = <<>>
        /\ Left(chassis.rx) /\ NoReset(chassis.rx)
    BY DEF LinkInv, LineInv, LastWord, OnTheLine, send_frame
  <1>2. /\ buf' = Head(outbox) /\ outbox' = Tail(outbox)
        /\ chassis' = chassis /\ command' = command
    BY DEF send_frame
  <1>3. outbox \in Seq(Seq(Int)) /\ \A i \in 1..Len(outbox) : Good(outbox[i])
    BY <1>1 DEF AllGood
  <1>4. Len(outbox) \in Nat \ {0}
    BY <1>1, <1>3, LenProperties, EmptySeq
  <1>5. /\ Head(outbox) = outbox[1] /\ Len(outbox') = Len(outbox) - 1
        /\ \A i \in 1..Len(outbox') : outbox'[i] = outbox[i + 1]
        /\ outbox' \in Seq(Seq(Int))
    BY <1>1, <1>2, <1>3, HeadTailProperties
  <1>6. 1 \in 1..Len(outbox)
    BY <1>4
  <1>7. Good(outbox[1])
    BY <1>3, <1>6
  <1>8. chassis.rx \in Receiver
    BY <1>1 DEF Controller
  <1>9. outbox' = <<>> <=> Len(outbox') = 0
    BY <1>5, EmptySeq
  <1> QED  BY <1>1, <1>2, <1>4, <1>5, <1>7, <1>8, <1>9 DEF SendsNext

LEMMA LooksFresh ==
  ASSUME NEW r, Left(r), r.at = "SOF0"
  PROVE  Fresh(r)
  BY DEF Left, Swallows, Short, Within

LEMMA StillPending ==
  ASSUME SendsNext, Pending
  PROVE  Pending' /\ Len(outbox) \in 1..2 /\ Tells(buf', 2 - Len(outbox), command.of)
PROOF
  <1>1. Len(outbox) \in 1..2
    BY DEF SendsNext, Pending
  <1>2. CASE Len(outbox) = 2
    <2>1. Len(outbox') = 1 /\ outbox'[1] = outbox[2]
      BY <1>2 DEF SendsNext
    <2>2. Tells(outbox[1], 0, command.of) /\ Tells(outbox[2], 1, command.of)
      BY <1>2 DEF Pending
    <2>3. Tells(buf', 0, command.of) /\ Tells(outbox'[1], 1, command'.of) /\ command' = command
      BY <2>1, <2>2 DEF SendsNext
    <2>4. Pending'
      BY <2>1, <2>3 DEF Pending
    <2> QED  BY <1>1, <1>2, <2>3, <2>4
  <1>3. CASE Len(outbox) = 1
    <2>1. Len(outbox') = 0 /\ Len(outbox') # 1 /\ Len(outbox') # 2 /\ Len(outbox') \in 0..2
      BY <1>3 DEF SendsNext
    <2>2. Tells(buf', 1, command.of) /\ command' = command
      BY <1>3 DEF SendsNext, Pending
    <2>3. Pending'
      BY <2>1, <2>2 DEF Pending
    <2> QED  BY <1>1, <1>3, <2>2, <2>3
  <1> QED  BY <1>1, <1>2, <1>3

(* The whole frame is on the line.                                         *)
LEMMA WholeNow ==
  ASSUME SendsNext, WrittenWhole, Head(outbox) = outbox[1]
  PROVE  Whole' /\ Came' = 0 /\ down' = buf' /\ down' # <<>>
PROOF
  <1>1. /\ down' = buf' /\ Good(buf') /\ chassis' = chassis
        /\ Left(chassis.rx) /\ NoReset(chassis.rx)
    BY DEF SendsNext, WrittenWhole
  <1>2. Len(buf') \in 5..9
    BY <1>1, GoodHead
  <1>3. down' # <<>> /\ Came' = 0
    <2>1. Len(down') # 0 /\ Len(buf') - Len(down') = 0
      BY <1>1, <1>2, SMTT(60)
    <2>2. down' # <<>>
      BY <2>1, EmptySeq
    <2> QED  BY <2>1, <2>2 DEF Came
  <1>4. Coming(0)'
    <2>1. Reads(chassis'.rx, buf', 0)
      BY <1>1, FoundSo DEF NoReset
    <2>2. 0 + Len(down') <= Len(buf') /\ \A i \in 1..Len(down') : down'[i] = buf'[0 + i]
      BY <1>1, <1>2
    <2> QED  BY <2>1, <2>2 DEF Coming
  <1>5. Came' \in 0..Len(buf')
    BY <1>2, <1>3
  <1> QED  BY <1>1, <1>3, <1>4, <1>5 DEF Whole

LEMMA DebtGoesDown ==
  ASSUME SendsNext, Len(outbox) \in 1..2, repeated \in -1..REPEATS, WrittenWhole
  PROVE  /\ repeated' \in -1..REPEATS /\ Debt \in Int /\ Debt' \in Int /\ Debt <= Debt' + 6
         /\ Sure' => clean \/ Debt < 0
         /\ Sure' /\ Len(outbox) = 1 => Sure
         /\ clean' = clean
PROOF
  <1> DEFINE r == repeated
             s == repeated'
  <1>1. r \in -1..REPEATS /\ r \in Int /\ REPEATS \in Nat
    BY RepeatsNat
  <1>2. CASE Len(outbox) = 2
    <2>1. Len(outbox') = 1 /\ clean' = clean
      BY <1>2 DEF SendsNext, WrittenWhole
    <2>2. s = r
      <3>1. outbox' # <<>>
        BY <2>1, EmptySeq
      <3> QED  BY <3>1 DEF WrittenWhole
    <2> HIDE DEF r, s
    <2>3. Debt = 35 - 12 * r /\ Debt' = 29 - 12 * r
      BY <1>1, <1>2, <2>1, <2>2 DEF Debt, r, s
    <2>4. Debt \in Int /\ Debt' \in Int /\ Debt <= Debt' + 6
      BY <1>1, <2>3
    <2>5. Sure' => clean \/ r + 1 >= 4
      BY <2>1, <2>2 DEF Sure, r, s
    <2>6. r + 1 >= 4 => Debt < 0
      BY <1>1, <2>3
    <2>7. s \in -1..REPEATS
      BY <1>1, <2>2
    <2>8. Len(outbox) # 1
      BY <1>2
    <2> QED  BY <2>1, <2>4, <2>5, <2>6, <2>7, <2>8 DEF s
  <1>3. CASE Len(outbox) = 1
    <2>1. Len(outbox') = 0 /\ clean' = clean
      BY <1>3 DEF SendsNext, WrittenWhole
    <2>2. (s = r + 1 /\ r < REPEATS) \/ (s = r /\ r = REPEATS)
      <3>1. (s = r + 1 /\ r < REPEATS) \/ s = r
        BY DEF WrittenWhole
      <3>2. outbox' = <<>>
        BY <2>1 DEF SendsNext
      <3> QED  BY <1>1, <3>1, <3>2 DEF WrittenWhole
    <2> HIDE DEF r, s
    <2>3. Debt = 29 - 12 * r /\ Debt' = 35 - 12 * s
      BY <1>1, <1>3, <2>1, <2>2 DEF Debt, r, s
    <2>4. Debt \in Int /\ Debt' \in Int /\ Debt <= Debt' + 6 /\ s \in -1..REPEATS
      BY <1>1, <2>2, <2>3
    <2>5. Sure' => clean \/ s + 0 >= 4
      BY <2>1 DEF Sure, s
    <2>6. s + 0 >= 4 => r + 1 >= 4
      BY <1>1, <2>2
    <2>7. r + 1 >= 4 => Debt < 0
      BY <1>1, <2>3
    <2>8. r + 1 >= 4 => Sure
      BY <1>3 DEF Sure, r
    <2>9. clean => Sure
      BY DEF Sure
    <2> QED  BY <1>3, <2>1, <2>4, <2>5, <2>6, <2>7, <2>8, <2>9 DEF r, s
  <1> QED  BY <1>2, <1>3

LEMMA GetWhole ==
  ASSUME SendsNext, Pending, Synchronised, Wheels, repeated \in -1..REPEATS,
         WrittenWhole, Head(outbox) = outbox[1]
  PROVE  Synchronised' /\ Wheels'
PROOF
  <1>1. Len(outbox) \in 1..2
    BY StillPending
  <1>2. /\ Debt \in Int /\ Debt' \in Int /\ Debt <= Debt' + 6
        /\ Sure' => clean \/ Debt < 0
        /\ Sure' /\ Len(outbox) = 1 => Sure
    BY <1>1, DebtGoesDown
  <1>3. Whole' /\ Came' = 0 /\ down' # <<>>
    BY WholeNow
  <1>4. /\ down = <<>> /\ chassis' = chassis /\ command' = command
        /\ chassis.rx \in Receiver /\ Left(chassis.rx)
        /\ Len(outbox') = Len(outbox) - 1
    BY DEF SendsNext
  <1>5. chassis.rx.at = "SOF0" \/ (~clean /\ Owed(chassis.rx) <= Debt)
    BY <1>4 DEF Synchronised
  <1>6. Owed(chassis.rx) \in 0..35
    BY <1>4, OwedAtMost
  <1>7. OnTime(chassis.rx, buf', 0, Debt' + 6)
    <2> DEFINE x == Owed(chassis.rx)
               d == Debt
               e == Debt'
    <2>1. x \in 0..35 /\ d \in Int /\ e \in Int /\ d <= e + 6
      BY <1>2, <1>6
    <2> HIDE DEF x, d, e
    <2>2. x <= d => x + 0 <= e + 6
      BY <2>1
    <2>3. Owed(chassis.rx) <= Debt => Owed(chassis.rx) + 0 <= Debt' + 6
      BY <2>2 DEF x, d, e
    <2> QED  BY <1>5, <2>3 DEF OnTime
  <1>8. Sure' => InStep(chassis.rx, buf', 0)
    <2> DEFINE x == Owed(chassis.rx)
               d == Debt
    <2>1. x \in 0..35 /\ d \in Int
      BY <1>2, <1>6
    <2> HIDE DEF x, d
    <2>2. ~(x <= d /\ d < 0)
      BY <2>1
    <2>3. Sure' => chassis.rx.at = "SOF0"
      BY <1>2, <1>5, <2>2 DEF x, d
    <2> QED  BY <1>4, <2>3, LooksFresh DEF InStep
  <1>9. Synchronised'
    BY <1>3, <1>4, <1>7, <1>8 DEF Synchronised
  <1>10. Sure' /\ Len(outbox') = 0 => Told(0)'
    <2>1. Len(outbox') = 0 => Len(outbox) = 1
      BY <1>1, <1>4
    <2>2. Sure /\ Len(outbox) = 1 => Told(0)
      BY <1>4 DEF Wheels
    <2>3. Told(0) => Told(0)'
      BY <1>4 DEF Told
    <2> QED  BY <1>2, <2>1, <2>2, <2>3
  <1> QED  BY <1>3, <1>9, <1>10 DEF Wheels

LEMMA GetPart ==
  ASSUME SendsNext, Pending, WrittenInPart
  PROVE  Synchronised' /\ Wheels'
PROOF
  <1>1. Len(outbox) \in 1..2
    BY StillPending
  <1>2. /\ ~clean' /\ repeated' = -1 /\ chassis' = chassis
        /\ chassis.rx \in Receiver /\ Left(chassis.rx)
    BY DEF WrittenInPart, SendsNext
  <1>3. Len(outbox') \in 0..1
    <2>1. Len(outbox') = Len(outbox) - 1
      BY DEF SendsNext
    <2> QED  BY <1>1, <2>1
  <1>4. ~Sure'
    <2>1. ~(repeated' + Len(outbox') >= 4)
      <3> DEFINE n == Len(outbox')
      <3>1. n \in 0..1
        BY <1>3
      <3> HIDE DEF n
      <3>2. ~(-1 + n >= 4)
        BY <3>1
      <3> QED  BY <1>2, <3>2 DEF n
    <2> QED  BY <1>2, <2>1 DEF Sure
  <1>5. Owed(chassis.rx) <= Debt'
    <2>1. Debt' = 47 \/ Debt' = 41
      BY <1>2, <1>3 DEF Debt
    <2>2. Owed(chassis.rx) \in 0..35
      BY <1>2, OwedAtMost
    <2>3. \A x \in 0..35 : x <= 47 /\ x <= 41
      OBVIOUS
    <2> QED  BY <2>1, <2>2, <2>3
  <1>6. ~(repeated' >= 0)
    BY <1>2
  <1>7. Synchronised'
    BY <1>2, <1>4, <1>5, <1>6 DEF Synchronised
  <1> QED  BY <1>4, <1>7 DEF Wheels

LEMMA GetReset ==
  ASSUME SendsNext, Resetting, WrittenWhole \/ WrittenInPart, repeated \in -1..REPEATS,
         Head(outbox) = outbox[1]
  PROVE  Resetting'
PROOF
  <1>1. Len(outbox) = 1 /\ Len(outbox') = 0
    BY DEF SendsNext, Resetting
  <1>2. /\ repeated <= 0 /\ outbox[1][3] = CMD_RESET /\ buf' = outbox[1]
        /\ clean => chassis.rx.at = "SOF0"
        /\ chassis' = chassis /\ Left(chassis.rx)
    BY <1>1 DEF Resetting, SendsNext
  <1>3. CASE WrittenWhole
    <2>1. Whole' /\ Came' = 0 /\ down' # <<>>
      BY <1>3, WholeNow
    <2>2. clean' = clean
      BY <1>3 DEF WrittenWhole
    <2>3. clean' => InStep(chassis'.rx, buf', Came')
      BY <1>2, <2>1, <2>2, LooksFresh DEF InStep
    <2>4. repeated' <= 1
      <3>1. repeated' = repeated + 1 \/ repeated' = repeated
        BY <1>3 DEF WrittenWhole
      <3>2. repeated \in Int
        OBVIOUS
      <3> QED  BY <1>2, <3>1, <3>2
    <2>5. Len(outbox') \in 0..1 /\ Len(outbox') # 1
      BY <1>1
    <2> QED  BY <1>2, <2>1, <2>3, <2>4, <2>5 DEF Resetting
  <1>4. CASE WrittenInPart
    <2>1. ~clean' /\ repeated' = -1
      BY <1>4 DEF WrittenInPart
    <2>2. repeated' <= 1 /\ Len(outbox') \in 0..1 /\ Len(outbox') # 1
      BY <1>1, <2>1
    <2> QED  BY <2>1, <2>2 DEF Resetting
  <1> QED  BY <1>3, <1>4

LEMMA GetWritten ==
  ASSUME LinkInv, GetInv, send_frame
  PROVE  GetInv'
PROOF
  <1>1. SendsNext /\ Head(outbox) = outbox[1]
    BY SendsTheNext
  <1>2. command' = command /\ (WrittenWhole \/ WrittenInPart)
    BY DEF send_frame
  <1>3. repeated \in -1..REPEATS
    BY DEF GetInv
  <1>4. repeated' \in -1..REPEATS /\ clean' \in BOOLEAN
    <2>1. CASE WrittenWhole
      <3>1. (repeated' = repeated + 1 /\ repeated < REPEATS) \/ repeated' = repeated
        BY <2>1 DEF WrittenWhole
      <3>2. repeated' \in -1..REPEATS
        BY <1>3, <3>1, RepeatsNat
      <3> QED  BY <2>1, <3>2 DEF WrittenWhole, GetInv
    <2>2. CASE WrittenInPart
      <3>1. repeated' = -1 /\ clean' = FALSE
        BY <2>2 DEF WrittenInPart
      <3>2. -1 \in -1..REPEATS
        BY RepeatsNat
      <3> QED  BY <3>1, <3>2
    <2> QED  BY <1>2, <2>1, <2>2
  <1>5. command.name \in Moves => pc' = "ready" /\ Pending' /\ Synchronised' /\ Wheels'
    <2> SUFFICES ASSUME command.name \in Moves
                 PROVE  pc' = "ready" /\ Pending' /\ Synchronised' /\ Wheels'
      OBVIOUS
    <2>1. pc = "ready" /\ Pending /\ Synchronised /\ Wheels
      BY DEF GetInv
    <2>2. pc' = "ready"
      BY <2>1 DEF send_frame
    <2> QED  BY <1>1, <1>2, <1>3, <2>1, <2>2, StillPending, GetWhole, GetPart
  <1>6. command.name = "reset" => pc' = "closed" /\ Resetting'
    <2> SUFFICES ASSUME command.name = "reset" PROVE pc' = "closed" /\ Resetting'
      OBVIOUS
    <2>1. pc = "closed" /\ Resetting
      BY DEF GetInv
    <2>2. pc' = "closed"
      BY <2>1 DEF send_frame
    <2> QED  BY <1>1, <1>2, <1>3, <2>1, <2>2, GetReset
  <1> QED  BY <1>2, <1>4, <1>5, <1>6 DEF GetInv

(* The controller reads a byte of it.                                      *)
ReadsNext(p, q) ==
  /\ q = Feed(chassis.rx, buf[p + 1])
  /\ Good(buf) /\ Len(buf) \in 5..9 /\ p \in 0..Len(buf) - 1
  /\ chassis \in Controller /\ chassis.rx \in Receiver /\ Reads(chassis.rx, buf, p)
  /\ chassis'.rx \in Receiver /\ Left(chassis'.rx) /\ Reads(chassis'.rx, buf, p + 1)
  /\ down # <<>> /\ (down' = <<>> <=> p + 1 = Len(buf))
  /\ Whole' /\ Came = p /\ Came' = p + 1
  /\ \/ /\ q.at = "done" /\ chassis'.rx = AtSOF
        /\ \E g \in Taken(q.accepted) : chassis' = Obey(chassis, g)
     \/ /\ q.at # "done" /\ chassis'.rx = q
        /\ chassis'.inited = chassis.inited /\ chassis'.wheels = chassis.wheels
  /\ UNCHANGED <<pc, outbox, command, buf, clean, repeated>>

LEMMA ReadsTheNext ==
  ASSUME LinkInv, ChassisReads, Whole, NEW p, p = Came, NEW q, q = Feed(chassis.rx, buf[p + 1])
  PROVE  ReadsNext(p, q)
PROOF
  <1>1. down # <<>> /\ down \in Seq(Int) /\ Good(buf) /\ chassis \in Controller
    BY DEF LinkInv, LineInv, OnTheLine, ChassisReads
  <1>2. UNCHANGED <<pc, outbox, command, buf, clean, repeated>>
    BY DEF ChassisReads, host
  <1>3. Len(buf) \in 5..9 /\ Len(down) \in Nat \ {0}
    BY <1>1, GoodHead, LenProperties, EmptySeq
  <1>4. p \in 0..Len(buf) - 1 /\ p = Len(buf) - Len(down)
    BY <1>3 DEF Whole, Came
  <1>5. Coming(p)
    BY DEF Whole
  <1>6. /\ chassis' \in Controller /\ down' \in Seq(Int) /\ Len(down') = Len(down) - 1
        /\ Left(chassis'.rx) /\ Coming(p + 1)'
        /\ \/ /\ q.at = "done" /\ chassis'.rx = AtSOF
              /\ \E g \in Taken(q.accepted) : chassis' = Obey(chassis, g)
           \/ /\ q.at # "done" /\ chassis'.rx = q
              /\ chassis'.inited = chassis.inited /\ chassis'.wheels = chassis.wheels
    BY <1>4, <1>5, ReadStep, Zenon
  <1>7. chassis.rx \in Receiver /\ chassis'.rx \in Receiver
    BY <1>1, <1>6 DEF Controller
  <1>8. Reads(chassis.rx, buf, p) /\ Reads(chassis'.rx, buf, p + 1)
    BY <1>2, <1>5, <1>6 DEF Coming
  <1>9. down' = <<>> <=> p + 1 = Len(buf)
    <2>1. down' = <<>> <=> Len(down') = 0
      BY <1>6, EmptySeq
    <2>2. Len(down') = 0 <=> p + 1 = Len(buf)
      <3>1. Len(down') = Len(down) - 1
        BY <1>6
      <3> QED  BY <1>3, <1>4, <3>1
    <2> QED  BY <2>1, <2>2
  <1>10. Came' = p + 1 /\ Came' \in 0..Len(buf)
    <2>1. Came' = Len(buf) - (Len(down) - 1)
      BY <1>2, <1>6 DEF Came
    <2>2. Len(buf) - (Len(down) - 1) = p + 1 /\ p + 1 \in 0..Len(buf)
      BY <1>3, <1>4
    <2> QED  BY <2>1, <2>2
  <1>11. Whole'
    BY <1>2, <1>6, <1>10 DEF Whole
  <1> QED  BY <1>1, <1>2, <1>3, <1>4, <1>6, <1>7, <1>8, <1>9, <1>10, <1>11 DEF ReadsNext

(* A frame that is read in step is obeyed in the end.                      *)
LEMMA ReadToTheEnd ==
  ASSUME NEW p, NEW q, ReadsNext(p, q), InStep(chassis.rx, buf, p)
  PROVE  /\ down' = <<>> => /\ chassis'.rx.at = "SOF0" /\ chassis' = Obey(chassis, buf)
         /\ down' # <<>> => /\ InStep(chassis'.rx, buf, Came')
                            /\ chassis'.inited = chassis.inited
                            /\ chassis'.wheels = chassis.wheels
PROOF
  <1>1. Follows(q, buf, p + 1)
    BY ReadsInStep DEF ReadsNext
  <1>2. CASE down' = <<>>
    <2>1. q = Done(buf)
      BY <1>1, <1>2 DEF Follows, ReadsNext
    <2>2. q.at = "done" /\ q.accepted = buf
      BY <2>1 DEF Done, AtSOF
    <2>3. chassis' = Obey(chassis, buf) /\ chassis'.rx = AtSOF
      BY <2>2, TakenIs DEF ReadsNext
    <2> QED  BY <1>2, <2>3, StartedOver
  <1>3. CASE down' # <<>>
    <2>1. q \in Receiver /\ InStep(q, buf, p + 1)
      BY <1>1, <1>3 DEF Follows, ReadsNext
    <2>2. q.at # "done"
      BY <2>1 DEF Receiver
    <2> QED  BY <1>3, <2>1, <2>2 DEF ReadsNext
  <1> QED  BY <1>2, <1>3

LEMMA ReadOnTime ==
  ASSUME NEW p, NEW q, ReadsNext(p, q), NEW debt \in Int, OnTime(chassis.rx, buf, p, debt)
  PROVE  OnTime(chassis'.rx, buf, Came', debt)
PROOF
  <1>1. q.at = "done" \/ OnTime(q, buf, p + 1, debt)
    BY StaysOnTime DEF ReadsNext
  <1>2. CASE q.at = "done"
    BY <1>2, StartedOver DEF ReadsNext, OnTime
  <1>3. CASE q.at # "done"
    BY <1>1, <1>3 DEF ReadsNext
  <1> QED  BY <1>2, <1>3

(* The wheels that a command reaches, and those it has reached stay so.    *)
LEMMA ReadTells ==
  ASSUME Pending, Synchronised, Wheels, Sure, NEW p, NEW q, ReadsNext(p, q)
  PROVE  Synchronised' /\ Wheels'
PROOF
  <1>1. /\ down # <<>> /\ Whole' /\ UNCHANGED <<outbox, command, buf, clean, repeated>>
        /\ chassis \in Controller
    BY DEF ReadsNext
  <1>2. InStep(chassis.rx, buf, p)
    <2>1. InStep(chassis.rx, buf, Came)
      BY <1>1 DEF Synchronised
    <2> QED  BY <2>1 DEF ReadsNext
  <1>3. /\ down' = <<>> => /\ chassis'.rx.at = "SOF0" /\ chassis' = Obey(chassis, buf)
        /\ down' # <<>> => /\ InStep(chassis'.rx, buf, Came')
                           /\ chassis'.inited = chassis.inited
                           /\ chassis'.wheels = chassis.wheels
    BY <1>2, ReadToTheEnd
  <1>4. Synchronised'
    BY <1>1, <1>3 DEF Synchronised, OnTime
  <1>5. Len(outbox) = 0 \/ Len(outbox) = 1
    BY <1>1 DEF Pending
  <1>6. CASE down' # <<>>
    <2>1. Len(outbox') = 0 => Told(0)
      BY <1>1 DEF Wheels
    <2>2. Told(0) => Told(0)'
      BY <1>1, <1>3, <1>6 DEF Told
    <2> QED  BY <1>4, <1>6, <2>1, <2>2 DEF Wheels
  <1>7. CASE down' = <<>> /\ Len(outbox) = 1
    <2>1. Tells(buf, 0, command.of) /\ 0 \in Motors
      BY <1>1, <1>7 DEF Pending
    <2>2. chassis' = Obey(chassis, buf)
      BY <1>3, <1>7
    <2>3. chassis'.inited = chassis.inited /\ (chassis.inited => chassis'.wheels[0] = command.of[0])
      BY <1>1, <2>1, <2>2, ObeyTells
    <2>4. Told(0)'
      BY <1>1, <2>3 DEF Told
    <2>5. Len(outbox') # 0
      BY <1>1, <1>7
    <2> QED  BY <1>4, <2>4, <2>5 DEF Wheels
  <1>8. CASE down' = <<>> /\ Len(outbox) = 0
    <2>1. Tells(buf, 1, command.of) /\ 1 \in Motors
      BY <1>1, <1>8 DEF Pending
    <2>2. chassis' = Obey(chassis, buf)
      BY <1>3, <1>8
    <2>3. /\ chassis'.inited = chassis.inited
          /\ chassis.inited => chassis'.wheels[1] = command.of[1]
          /\ \A k \in Motors \ {1} : chassis'.wheels[k] = chassis.wheels[k]
      BY <1>1, <2>1, <2>2, ObeyTells
    <2>4. chassis'.wheels[0] = chassis.wheels[0]
      BY <2>3
    <2>5. Told(0)
      BY <1>8 DEF Wheels
    <2>6. Told(0)' /\ Told(1)'
      BY <1>1, <2>3, <2>4, <2>5 DEF Told
    <2> QED  BY <1>4, <2>6 DEF Wheels
  <1> QED  BY <1>4, <1>5, <1>6, <1>7, <1>8

LEMMA ReadOwing ==
  ASSUME Pending, Synchronised, ~Sure, repeated \in Nat, NEW p, NEW q, ReadsNext(p, q)
  PROVE  Synchronised' /\ Wheels'
PROOF
  <1>1. /\ down # <<>> /\ Whole' /\ UNCHANGED <<outbox, command, buf, clean, repeated>>
        /\ chassis'.rx \in Receiver /\ Good(buf) /\ Reads(chassis'.rx, buf, p + 1)
        /\ down' = <<>> <=> p + 1 = Len(buf)
        /\ Came' = p + 1
    BY DEF ReadsNext
  <1>2. Debt \in Int /\ Debt' = Debt
    <2>1. Debt \in Int
      BY DEF Debt
    <2> QED  BY <1>1, <2>1 DEF Debt
  <1>3. Debt + 6 \in Int
    BY <1>2
  <1>4. OnTime(chassis.rx, buf, p, Debt + 6)
    <2>1. Whole /\ OnTime(chassis.rx, buf, Came, Debt + 6)
      BY <1>1 DEF Synchronised
    <2>2. Came = p
      BY DEF ReadsNext
    <2> QED  BY <2>1, <2>2
  <1>5. OnTime(chassis'.rx, buf, Came', Debt + 6)
    BY <1>3, <1>4, ReadOnTime
  <1>6. ~Sure' /\ ~clean'
    BY <1>1 DEF Sure
  <1>7. down' = <<>> => chassis'.rx.at = "SOF0" \/ Owed(chassis'.rx) <= Debt
    <2> SUFFICES ASSUME down' = <<>>
                 PROVE  chassis'.rx.at = "SOF0" \/ Owed(chassis'.rx) <= Debt
      OBVIOUS
    <2>1. Came' = Len(buf) /\ Reads(chassis'.rx, buf, Len(buf))
      BY <1>1
    <2>2. chassis'.rx.at = "SOF0" \/ Owed(chassis'.rx) + Len(buf) <= Debt + 6
      BY <1>1, <1>5, <2>1, InTheEnd
    <2>3. Len(buf) >= 6 /\ Len(buf) \in 5..9
      <3>1. \E m \in {0, 1} : Tells(buf, m, command.of)
        BY <1>1 DEF Pending
      <3> QED  BY <1>1, <3>1, GoodHead DEF Tells
    <2>4. Owed(chassis'.rx) \in 0..35
      BY <1>1, OwedAtMost DEF ReadsNext
    <2> DEFINE x == Owed(chassis'.rx)
               n == Len(buf)
               d == Debt
    <2>5. x \in 0..35 /\ n >= 6 /\ n \in 5..9 /\ d \in Int
      BY <1>2, <2>3, <2>4
    <2> HIDE DEF x, n, d
    <2>6. x + n <= d + 6 => x <= d
      BY <2>5
    <2> QED  BY <2>2, <2>6 DEF x, n, d
  <1>8. Synchronised'
    BY <1>1, <1>2, <1>5, <1>6, <1>7 DEF Synchronised
  <1> QED  BY <1>6, <1>8 DEF Wheels

(* The frame was cut: whatever comes, no more than 35 bytes are owed.      *)
LEMMA ReadAfterCut ==
  ASSUME LinkInv, ChassisReads, Pending, repeated = -1, ~clean
  PROVE  Synchronised' /\ Wheels'
PROOF
  <1>1. PICK p \in 0..Len(buf) - 1 : Coming(p)
    BY DEF LinkInv, LineInv, OnTheLine, ChassisReads
  <1>2. chassis' \in Controller /\ Left(chassis'.rx)
    BY <1>1, ReadStep
  <1>3. /\ repeated' = -1 /\ ~clean' /\ outbox' = outbox
        /\ chassis'.rx \in Receiver
    BY <1>2 DEF ChassisReads, host, Controller
  <1>4. Len(outbox') \in 0..2 /\ ~(repeated' >= 0)
    BY <1>3 DEF Pending
  <1>5. ~Sure'
    <2> DEFINE n == Len(outbox')
    <2>1. n \in 0..2
      BY <1>4
    <2> HIDE DEF n
    <2>2. ~(-1 + n >= 4)
      BY <2>1
    <2> QED  BY <1>3, <2>2 DEF Sure, n
  <1>6. Owed(chassis'.rx) <= Debt'
    <2>1. Debt' = 47 \/ Debt' = 41
      BY <1>3 DEF Debt
    <2>2. Owed(chassis'.rx) \in 0..35
      BY <1>2, <1>3, OwedAtMost
    <2>3. \A x \in 0..35 : x <= 47 /\ x <= 41
      OBVIOUS
    <2> QED  BY <2>1, <2>2, <2>3
  <1>7. Synchronised'
    BY <1>3, <1>4, <1>5, <1>6 DEF Synchronised
  <1> QED  BY <1>5, <1>7 DEF Wheels

LEMMA ReadReset ==
  ASSUME LinkInv, ChassisReads, Resetting
  PROVE  Resetting'
PROOF
  <1>1. down # <<>> /\ UNCHANGED <<outbox, buf, clean, repeated>>
    BY DEF ChassisReads, host
  <1>2. Len(outbox) = 0
    BY <1>1 DEF Resetting
  <1>3. repeated <= 1 /\ Len(outbox') = 0 /\ Len(outbox') \in 0..1 /\ Len(outbox') # 1
    BY <1>1, <1>2 DEF Resetting
  <1>4. CASE ~clean
    BY <1>1, <1>3, <1>4 DEF Resetting
  <1>5. CASE clean
    <2> DEFINE p == Came
               q == Feed(chassis.rx, buf[p + 1])
    <2>1. Whole /\ InStep(chassis.rx, buf, p) /\ buf[3] = CMD_RESET
      BY <1>1, <1>2, <1>5 DEF Resetting
    <2>2. ReadsNext(p, q)
      BY <2>1, ReadsTheNext
    <2> HIDE DEF p, q
    <2>3. Whole' /\ Good(buf) /\ chassis \in Controller
      BY <2>2 DEF ReadsNext
    <2>4. /\ down' = <<>> => chassis' = Obey(chassis, buf)
          /\ down' # <<>> => InStep(chassis'.rx, buf, Came')
      BY <2>1, <2>2, ReadToTheEnd
    <2>5. down' = <<>> => ~chassis'.inited
      BY <2>1, <2>3, <2>4, ObeyReset
    <2> QED  BY <1>1, <1>3, <2>1, <2>3, <2>4, <2>5 DEF Resetting
  <1> QED  BY <1>4, <1>5

LEMMA GetRead ==
  ASSUME LinkInv, GetInv, ChassisReads
  PROVE  GetInv'
PROOF
  <1>1. down # <<>> /\ UNCHANGED <<pc, command, clean, repeated, outbox, buf>>
    BY DEF ChassisReads, host
  <1>2. repeated \in -1..REPEATS /\ clean \in BOOLEAN
    BY DEF GetInv
  <1>3. Pending => Pending'
    BY <1>1 DEF Pending
  <1>4. Pending /\ Synchronised /\ Wheels => Synchronised' /\ Wheels'
    <2> SUFFICES ASSUME Pending, Synchronised, Wheels PROVE Synchronised' /\ Wheels'
      OBVIOUS
    <2> DEFINE p == Came
               q == Feed(chassis.rx, buf[p + 1])
    <2>1. Whole => ReadsNext(p, q)
      BY ReadsTheNext
    <2> HIDE DEF p, q
    <2>2. CASE Sure
      <3>1. Whole
        BY <1>1, <2>2 DEF Synchronised
      <3> QED  BY <2>1, <2>2, <3>1, ReadTells
    <2>3. CASE ~Sure /\ repeated >= 0
      <3>1. Whole
        BY <1>1, <2>3 DEF Synchronised
      <3>2. repeated \in Nat
        BY <1>2, <2>3, RepeatsNat
      <3> QED  BY <2>1, <2>3, <3>1, <3>2, ReadOwing
    <2>4. CASE ~Sure /\ ~(repeated >= 0)
      <3>1. repeated = -1
        BY <1>2, <2>4, RepeatsNat
      <3>2. ~clean
        BY <2>4 DEF Sure
      <3> QED  BY <3>1, <3>2, ReadAfterCut
    <2> QED  BY <2>2, <2>3, <2>4
  <1>5. Resetting => Resetting'
    BY ReadReset
  <1>6. command.name \in Moves => pc' = "ready" /\ Pending' /\ Synchronised' /\ Wheels'
    BY <1>1, <1>3, <1>4 DEF GetInv
  <1>7. command.name = "reset" => pc' = "closed" /\ Resetting'
    BY <1>1, <1>5 DEF GetInv
  <1>8. /\ clean' \in BOOLEAN /\ repeated' \in -1..REPEATS
        /\ command' \in [name : Moves \cup {"none", "reset"}, of : [Motors -> Seq(Int)]]
    BY <1>1 DEF GetInv
  <1> QED  BY <1>1, <1>6, <1>7, <1>8 DEF GetInv

LEMMA GetInvInit == ASSUME LinkInit PROVE GetInv
PROOF
  <1>1. 0 \in -1..REPEATS
    BY RepeatsNat
  <1>2. Still \in [Motors -> Seq(Int)]
    BY DEF Still
  <1> QED  BY <1>1, <1>2 DEF LinkInit, GetInv, Moves

LEMMA GetInvStep ==
  ASSUME TheWheels, LinkInv, GetInv, [LinkNext]_linkVars
  PROVE  GetInv'
PROOF
  <1>1. CASE UNCHANGED linkVars
    BY <1>1, GetElsewhere DEF linkVars, host, line
  <1>2. CASE LinkNext
    BY <1>2, GetWritten, GetHost, GetCommand, GetClose, GetRead, GetQuiet DEF LinkNext
  <1> QED  BY <1>1, <1>2

LEMMA GetThrough ==
  ASSUME REPEATS >= 4, LinkInv, GetInv
  PROVE  CommandsGetThrough
PROOF
  <1> SUFFICES ASSUME outbox = <<>>, down = <<>>, chassis.inited, command.name # "none",
                      clean \/ repeated >= REPEATS
               PROVE  chassis.wheels = command.of
    BY DEF CommandsGetThrough
  <1>1. Len(outbox) = 0
    BY EmptySeq
  <1>2. repeated >= REPEATS => repeated >= 4
    BY RepeatsNat DEF GetInv
  <1>3. Sure
    BY <1>1, <1>2 DEF Sure, GetInv
  <1>4. command.name # "reset"
    <2> SUFFICES ASSUME command.name = "reset" PROVE FALSE
      OBVIOUS
    <2>1. Resetting
      BY DEF GetInv
    <2>2. ~(repeated >= REPEATS)
      BY <2>1, RepeatsNat DEF GetInv, Resetting
    <2> QED  BY <1>1, <2>1, <2>2 DEF Resetting
  <1>5. Wheels
    BY <1>4 DEF GetInv
  <1>6. chassis.wheels[0] = command.of[0] /\ chassis.wheels[1] = command.of[1]
    BY <1>1, <1>3, <1>5 DEF Wheels, Told
  <1>7. chassis.wheels \in [Motors -> Seq(Int)] /\ command.of \in [Motors -> Seq(Int)]
    BY DEF LinkInv, LineInv, Controller, GetInv
  <1> DEFINE a == chassis.wheels
             b == command.of
  <1> HIDE DEF a, b
  <1>8. a = b
    <2>1. a \in [Motors -> Seq(Int)] /\ b \in [Motors -> Seq(Int)]
      BY <1>7 DEF a, b
    <2>2. \A m \in Motors : a[m] = b[m]
      BY <1>6 DEF a, b
    <2> QED  BY <2>1, <2>2
  <1> QED  BY <1>8 DEF a, b

(* A command that is written whole while the controller looks for the      *)
(* beginning of a frame, or has been repeated four times after the last    *)
(* write that was cut, is what both wheels do (uart_motor_driver.cpp:128). *)
THEOREM CommandsArrive ==
  ASSUME TheWheels, REPEATS >= 4
  PROVE  LinkSpec => []CommandsGetThrough
PROOF
  <1>1. LinkInit => LinkInv /\ GetInv
    BY LinkInvInit, GetInvInit
  <1>2. LinkInv /\ GetInv /\ [LinkNext]_linkVars => LinkInv' /\ GetInv'
    BY LinkInvStep, GetInvStep
  <1>3. LinkInv /\ GetInv => CommandsGetThrough
    BY GetThrough
  <1> QED  BY <1>1, <1>2, <1>3, PTL DEF LinkSpec

=============================================================================

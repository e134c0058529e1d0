------------------------------ MODULE UartLink ------------------------------
(***************************************************************************)
(* The wheels' UART: the frames UartMotorDriver writes, what it waits for  *)
(* while it is constructed, and the chassis controller at the other end.   *)
(*                                                                         *)
(* A frame is AA 55 CMD LEN PAYLOAD CHK.  The port is non-blocking and the *)
(* result of write() is ignored: when the kernel's buffer is full a frame  *)
(* is cut at any byte, or not sent at all.  The controller's firmware is   *)
(* not part of the repository: it is taken to read frames as recv_frame()  *)
(* does, the repository's only receiver, and to move only after CMD_INIT.  *)
(*                                                                         *)
(* The bytes of one write follow each other at once, in less time than any *)
(* receiver waits for the next byte, and are read before the next write;   *)
(* between two writes the line may be silent for longer than that.         *)
(***************************************************************************)
EXTENDS Integers, Sequences

CONSTANTS
  Speeds,              (* <<left, right>> PWM values of drive()           *)
  ppr_, pwm_freq_,     (* what CMD_CONFIG carries: 4680 and 20000         *)
  DEADLINE,            (* waits of 10 ms before recv_frame() gives up: 50 *)
  MaxCuts,             (* writes that are cut                             *)
  NoiseBytes,          (* bytes that may come in besides the replies      *)
  REPEATS              (* whole commands that make up for a cut one       *)

TwoBytes == 0..65535

ASSUME UartAssumption ==
  /\ Speeds \subseteq Int \X Int
  /\ ppr_ \in TwoBytes /\ pwm_freq_ \in TwoBytes
  /\ DEADLINE \in Nat \ {0}
  /\ MaxCuts \in Nat /\ REPEATS \in Nat
  /\ NoiseBytes \subseteq 0..255

VARIABLES
  pc,                  (* where the constructor is, or one of Ended       *)
  outbox,              (* frames the command has still to write           *)
  buf, down,           (* the frame written last, its bytes on the line   *)
  command,             (* [name, of]: what each motor was told last       *)
  rx, deadline,        (* recv_frame() of the constructor                 *)
  reply, up,           (* the controller's answers, and bytes that came   *)
  noisy,               (* the line makes noise, until it stops for good   *)
  chassis,             (* the controller: [rx, inited, wheels, last]      *)
  cuts,                (* cut writes so far                               *)
  clean, repeated      (* how much of the command is sure to be read      *)

host     == <<pc, outbox, command>>
line     == <<buf, down, cuts, clean, repeated>>
replies  == <<reply, up, noisy>>
receiver == <<rx, deadline>>
linkVars == <<host, line, replies, receiver, chassis>>

FRAME_SOF0    == 170
FRAME_SOF1    == 85
CMD_INIT      == 1
CMD_CONFIG    == 2
CMD_SET_SPEED == 16
CMD_STOP      == 17
CMD_BRAKE     == 18
CMD_RESET     == 255
RSP_ACK       == 128                 (* the controller's, nobody compares *)

PAYLOAD_MAX  == 32
PAYLOAD_KEPT == 4                    (* CMD_CONFIG has the longest *)
RSP_ROOM     == 8                    (* payload[8] and rsp[8] *)

-----------------------------------------------------------------------------
(* Frames *)

(* The exclusive or of bytes, bit by bit: one is set if it is set in an    *)
(* odd number of them.                                                     *)
Bit(b, value) == (b \div value) % 2
OddBits(sum(_)) ==
  LET bit(v) == v * (sum(v) % 2)
  IN  bit(1) + bit(2) + bit(4) + bit(8) + bit(16) + bit(32) + bit(64) + bit(128)

Xor(a, b) == OddBits(LAMBDA v : Bit(a, v) + Bit(b, v))

(* No payload that is sent is longer than PAYLOAD_KEPT.                    *)
calc_checksum(cmd, payload) ==
  LET byte(i) == IF i <= Len(payload) THEN payload[i] ELSE 0
  IN  OddBits(LAMBDA v : Bit(cmd, v) + Bit(Len(payload), v)
                           + Bit(byte(1), v) + Bit(byte(2), v) + Bit(byte(3), v) + Bit(byte(4), v))

put_be16(v) == <<(v \div 256) % 256, v % 256>>      (* a negative one wraps *)

Frame(cmd, payload) ==
  <<FRAME_SOF0, FRAME_SOF1, cmd, Len(payload)>> \o payload
    \o <<calc_checksum(cmd, payload)>>

Motors == {0, 1}
Pair(frame(_)) == <<frame(0), frame(1)>>

set_speeds(l, r) ==
  Pair(LAMBDA m : Frame(CMD_SET_SPEED, <<m>> \o put_be16(IF m = 0 THEN l ELSE r)))
stop  == Pair(LAMBDA m : Frame(CMD_STOP, <<m>>))
BrakeOneWheel == Pair(LAMBDA m : Frame(CMD_BRAKE, <<0>>))          (* mutant *)
brake == Pair(LAMBDA m : Frame(CMD_BRAKE, <<m>>))

-----------------------------------------------------------------------------
(* recv_frame(), a byte at a time.  at is the byte it waits for, chk the   *)
(* checksum of what has come so far, got how much of the payload that is;  *)
(* of the payload the first bytes are kept, as many as any command has, or *)
(* of a longer frame than there is room for only the motor's, the first.   *)
(* accepted is the frame that has just ended, if its checksum was right.   *)
(* LEN is not compared with the buffer: of a frame that is longer only     *)
(* PAYLOAD_MAX bytes are read, the checksum takes in what lies behind the  *)
(* buffer, and whether it comes out right is anybody's guess (see Taken).  *)

NoFrame == <<>>
AtSOF == [at |-> "SOF0", cmd |-> 0, len |-> 0, got |-> 0, chk |-> 0,
          payload |-> <<>>, accepted |-> NoFrame]
Done(frame) == [AtSOF EXCEPT !.at = "done", !.accepted = frame]

Until(len) == IF len < PAYLOAD_MAX THEN len ELSE PAYLOAD_MAX
Kept(len)  == IF len > PAYLOAD_MAX THEN 1 ELSE PAYLOAD_KEPT

Accepted(r, b) == <<FRAME_SOF0, FRAME_SOF1, r.cmd, r.len>> \o r.payload \o <<b>>

UncheckedEnd(r, b) == Done(Accepted(r, b))                         (* mutant *)
CheckedEnd(r, b) ==
  Done(IF r.len > PAYLOAD_MAX \/ b = r.chk THEN Accepted(r, b) ELSE NoFrame)

Overlong(frame) == frame # NoFrame /\ frame[4] > PAYLOAD_MAX
Taken(frame)    == IF Overlong(frame) THEN {frame, NoFrame} ELSE {frame}

Payload(r, b) ==
  [r EXCEPT !.at  = IF r.got + 1 = Until(r.len) THEN "CHK" ELSE "PAYLOAD",
            !.got = r.got + 1,
            !.chk = IF r.len > PAYLOAD_MAX THEN 0 ELSE Xor(r.chk, b),
            !.payload = IF r.got < Kept(r.len) THEN Append(r.payload, b) ELSE r.payload]

Feed(r, b) ==
  CASE r.at = "SOF0" -> IF b = FRAME_SOF0 THEN [r EXCEPT !.at = "SOF1"] ELSE r
    [] r.at = "SOF1" -> [r EXCEPT !.at = IF b = FRAME_SOF1 THEN "CMD" ELSE "SOF0"]
    [] r.at = "CMD"  -> [r EXCEPT !.at = "LEN", !.cmd = b]
    [] r.at = "LEN"  -> [r EXCEPT !.at = IF b = 0 THEN "CHK" ELSE "PAYLOAD",
                                  !.len = b, !.chk = Xor(r.cmd, b)]
    [] r.at = "PAYLOAD" -> Payload(r, b)
    [] r.at = "CHK"  -> CheckedEnd(r, b)

(* The wait for a byte is over: only the wait for the first one goes on,   *)
(* as long as the deadline is not used up.                                 *)
Forever(d) == d                                                    (* mutant *)
Shorter(d) == d - 1
GivesUp(r, d) == r.at # "SOF0" \/ Shorter(d) = 0

-----------------------------------------------------------------------------
(* The controller *)

Still == [m \in Motors |-> <<CMD_STOP>>]
OneOf(frame) == frame[5]                      (* the motor a frame is about *)
Value(frame) == IF frame[3] = CMD_SET_SPEED THEN <<CMD_SET_SPEED, frame[6], frame[7]>>
                ELSE <<frame[3]>>

Obey(c, frame) ==
  LET next == [c EXCEPT !.rx = AtSOF, !.last = frame]
  IN  CASE frame = NoFrame -> next
        [] frame # NoFrame /\ frame[3] = CMD_INIT  -> [next EXCEPT !.inited = TRUE]
        [] frame # NoFrame /\ frame[3] = CMD_RESET ->
             [next EXCEPT !.inited = FALSE, !.wheels = Still]
        [] frame # NoFrame /\ frame[3] \in {CMD_SET_SPEED, CMD_STOP, CMD_BRAKE} ->
             IF c.inited /\ OneOf(frame) \in Motors
             THEN [next EXCEPT !.wheels[OneOf(frame)] = Value(frame)]
             ELSE next
        [] OTHER -> next

ReadByte(c, b) ==
  LET r == Feed(c.rx, b)
  IN  IF r.at = "done" THEN {Obey(c, frame) : frame \in Taken(r.accepted)}
      ELSE {[c EXCEPT !.rx = r, !.last = NoFrame]}

(* It answers the two frames the constructor waits for.  Nobody reads an   *)
(* answer, or anything else that comes in, once the constructor has ended. *)
Answered == {CMD_INIT, CMD_CONFIG}
Ended        == {"ready", "closed", "overwritten"}
Constructing == pc \notin Ended

ChassisReads ==
  /\ down # <<>>
  /\ down' = Tail(down)
  /\ chassis' \in ReadByte(chassis, Head(down))
  /\ reply' = IF Constructing /\ chassis'.last # NoFrame /\ chassis'.last[3] \in Answered
              THEN reply \o Frame(RSP_ACK, <<>>) ELSE reply
  /\ UNCHANGED <<host, buf, cuts, clean, repeated, up, noisy, receiver>>

(* It waits 10 or 50 ms for the rest of a frame, and starts over.          *)
ChassisQuiet ==
  /\ down = <<>> /\ chassis.rx # AtSOF
  /\ chassis' = [chassis EXCEPT !.rx = AtSOF]
  /\ UNCHANGED <<host, line, replies, receiver>>

-----------------------------------------------------------------------------
LinkInit ==
  /\ pc = "init"
  /\ outbox = <<Frame(CMD_INIT, <<>>)>>
  /\ buf = NoFrame /\ down = <<>>
  /\ command = [name |-> "none", of |-> Still]
  /\ rx = AtSOF /\ deadline = DEADLINE
  /\ reply = <<>> /\ up = <<>> /\ noisy \in BOOLEAN
  /\ chassis = [rx |-> AtSOF, inited |-> FALSE, wheels |-> Still, last |-> NoFrame]
  /\ cuts = 0
  /\ clean = TRUE /\ repeated = 0

(* send_frame(): write() takes n bytes of it.                              *)
WrittenWhole ==
  /\ down' = Head(outbox)
  /\ repeated' = IF outbox' = <<>> /\ repeated < REPEATS THEN repeated + 1 ELSE repeated
  /\ UNCHANGED <<cuts, clean>>

WrittenInPart ==
  /\ cuts < MaxCuts /\ cuts' = cuts + 1
  /\ \E n \in 0..Len(Head(outbox)) - 1 : down' = SubSeq(Head(outbox), 1, n)
  /\ clean' = FALSE /\ repeated' = -1

send_frame ==
  /\ outbox # <<>> /\ down = <<>>
  /\ buf' = Head(outbox) /\ outbox' = Tail(outbox)
  /\ WrittenWhole \/ WrittenInPart
  /\ pc' = CASE pc = "init" -> "initAck" [] pc = "config" -> "configAck" [] OTHER -> pc
  /\ UNCHANGED <<command, replies, receiver, chassis>>

-----------------------------------------------------------------------------
(* The constructor: each of its two frames waits for an answer, whatever   *)
(* that says, and goes on without one.  The answer's payload is copied, as *)
(* long as its LEN says, over a local array of RSP_ROOM bytes: a longer    *)
(* one overwrites what lies behind it, and the constructor goes on or not. *)

Waiting == pc \in {"initAck", "configAck"}

WaitEnds ==
  /\ rx' = AtSOF /\ deadline' = DEADLINE
  /\ IF pc = "initAck"
     THEN /\ pc' = "config"
          /\ outbox' = <<Frame(CMD_CONFIG, put_be16(ppr_) \o put_be16(pwm_freq_))>>
          /\ UNCHANGED <<reply, noisy>>
     ELSE /\ pc' = "ready"
          /\ reply' = <<>> /\ noisy' = FALSE
          /\ UNCHANGED outbox

Overwritten(frame) ==
  /\ frame # NoFrame /\ frame[4] > RSP_ROOM
  /\ pc' = "overwritten"
  /\ UNCHANGED <<rx, deadline, outbox, reply, noisy>>

WaitGoesOn == UNCHANGED <<pc, outbox, reply, noisy>>

ReceiveByte ==
  /\ Waiting /\ up # <<>>
  /\ LET r == Feed(rx, Head(up))
     IN  IF r.at = "done" THEN WaitEnds \/ Overwritten(r.accepted)
         ELSE rx' = r /\ WaitGoesOn /\ UNCHANGED deadline
  /\ up' = IF pc' = "ready" THEN <<>> ELSE Tail(up)
  /\ UNCHANGED <<command, line, chassis>>

(* select() finds nothing for 10 ms (50 within a frame).                   *)
ReceiveNothing ==
  /\ Waiting /\ up = <<>>
  /\ IF GivesUp(rx, deadline) THEN WaitEnds
     ELSE deadline' = Shorter(deadline) /\ WaitGoesOn /\ UNCHANGED rx
  /\ UNCHANGED <<command, line, up, chassis>>

Arrive ==
  /\ Waiting /\ reply # <<>>
  /\ up' = up \o reply /\ reply' = <<>>
  /\ UNCHANGED <<host, line, noisy, receiver, chassis>>

MakeNoise ==
  /\ Waiting /\ noisy /\ up = <<>>
  /\ \E b \in NoiseBytes : up' = <<b>>
  /\ UNCHANGED <<host, line, reply, noisy, receiver, chassis>>

FallSilent ==
  /\ noisy /\ noisy' = FALSE
  /\ UNCHANGED <<host, line, reply, up, receiver, chassis>>

-----------------------------------------------------------------------------
(* The commands of the loop, two frames each, and the destructor's.        *)

Speed(l, r) == [m \in Motors |-> <<CMD_SET_SPEED>> \o put_be16(IF m = 0 THEN l ELSE r)]

Send(name, frames, of) ==
  /\ pc = "ready" /\ outbox = <<>> /\ down = <<>>
  /\ outbox' = frames
  /\ command' = [name |-> name, of |-> of]
  /\ clean' = (chassis.rx = AtSOF)
  /\ repeated' = IF command' = command THEN repeated ELSE 0
  /\ UNCHANGED <<buf, down, cuts, replies, receiver, chassis>>

Command == pc' = pc

drive   == Command /\ \E s \in Speeds : Send("drive", set_speeds(s[1], s[2]), Speed(s[1], s[2]))
Brake   == Command /\ Send("brake", brake, [m \in Motors |-> <<CMD_BRAKE>>])
standby == Command /\ Send("standby", stop, Still)

Close ==
  /\ Send("reset", <<Frame(CMD_RESET, <<>>)>>, Still)
  /\ pc' = "closed"

-----------------------------------------------------------------------------
Construct == ReceiveByte \/ ReceiveNothing
LinkNext ==
  \/ send_frame \/ Construct \/ Arrive \/ MakeNoise \/ FallSilent
  \/ drive \/ Brake \/ standby \/ Close
  \/ ChassisReads \/ ChassisQuiet
LinkSpec == LinkInit /\ [][LinkNext]_linkVars

(* write() does not block and select() returns after its time.             *)
FairLinkSpec == LinkSpec /\ WF_linkVars(send_frame \/ ChassisReads) /\ WF_linkVars(Construct)

-----------------------------------------------------------------------------
(* A command that is written whole while the controller waits for the      *)
(* start of a frame reaches both motors.  After a cut write the frames     *)
(* that follow are read as its rest, but REPEATS whole writings of the     *)
(* same command make up for that without any pause between them: so the    *)
(* brake pulse, which repeats its command, ends with both wheels braked    *)
(* (uart_motor_driver.cpp:128, tennis.cpp:600).                            *)
CommandsGetThrough ==
  (/\ outbox = <<>> /\ down = <<>>
   /\ chassis.inited /\ command.name # "none"
   /\ clean \/ repeated >= REPEATS)
    => chassis.wheels = command.of

(* However a frame was cut, its beginning and the frames after it never    *)
(* pass for a frame that moves a wheel: what the controller takes for one  *)
(* is the frame that was written last, and was written whole, or one whose *)
(* LEN, read out of the middle of a frame, is past the end of the buffer;  *)
(* and that one names no wheel (uart_motor_driver.cpp:28, 171-188).        *)
NothingInvented ==
  [][ChassisReads /\ chassis'.last # NoFrame =>
       \/ chassis'.last = buf
       \/ Overlong(chassis'.last) /\ chassis'.wheels = chassis.wheels]_linkVars

(* Each wait of the constructor is over in the end, whether answers come   *)
(* early, late, never or in pieces, once the line has fallen silent: it    *)
(* has ended, or an answer too long for its array has overwritten it       *)
(* (uart_motor_driver.cpp:150, 187).                                       *)
ConstructorEnds == <>[]~noisy => <>(pc \in Ended)
=============================================================================

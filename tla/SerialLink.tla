----------------------------- MODULE SerialLink -----------------------------
(***************************************************************************)
(* The serial line between the Pi and the Arduino, end to end: the Pi      *)
(* writes a packet for each command of the operator; the Arduino's receive *)
(* interrupt puts each byte in a ring that is shorter than a packet, which *)
(* loop() drains whenever it comes round; the answers go out through a     *)
(* ring of their own, and Serial.write() waits while it is full.           *)
(*                                                                         *)
(* Time is counted in bytes: a Tick is the time one byte takes at 9600     *)
(* baud, in either direction.  The firmware is much faster than the line:  *)
(* while it waits for nothing, at most one Tick falls in a pass of loop(). *)
(*                                                                         *)
(* What deserialize() makes of the bytes is in Assembler; here it is used: *)
(* while nothing is lost, PacketSize bytes are the next packet sent, and   *)
(* after a loss the packet may be refused or be any command.               *)
(***************************************************************************)
EXTENDS Integers, Sequences

CONSTANTS PacketSize,    \* bytes of a packet on the line: 140
          RxSize,        \* bytes the receive ring holds: 63
          TxSize,        \* bytes the transmit ring and registers hold: 65
          ColorTime,     \* bytes sent in the time readColor() takes: about 76
          MaxBoot,       \* most bytes sent while setup() still runs
          MaxCommands    \* bound on the commands the operator gives

ASSUME SizesAssumption ==
  /\ PacketSize \in Nat /\ RxSize \in Nat /\ TxSize \in Nat
  /\ RxSize >= 3 /\ TxSize >= 2
  /\ RxSize < PacketSize /\ TxSize < PacketSize
ASSUME TimesAssumption ==
  /\ ColorTime \in Nat \ {0} /\ MaxBoot \in Nat /\ MaxCommands \in Nat
  /\ ColorTime + 4 <= RxSize + TxSize

Commands == {"move", "clear", "stop", "stats"}

VARIABLES
  \* the Pi and the operator
  asked, heard,   \* commands given, last answers received
  hurried,        \* a command was given before the last one was answered
  \* the line to the Arduino
  pending,        \* the packets sent that deserialize() has not handed over
  backlog,        \* bytes the Pi has yet to send
  rx,             \* bytes in the receive ring
  held,           \* bytes of the packet assemble() is at
  lost,           \* bytes that found the ring full
  \* the line to the Pi
  air,            \* the answers under way
  tx,             \* how many bytes of them have not left yet
  \* the firmware
  fw,             \* where it is
  late,           \* a Tick fell in this pass of loop() while it did not wait
  todo,           \* answers the handler has yet to write
  doing,          \* the command the handler carries out once they are written
  busy,           \* Ticks until setup() or readColor() is through
  moving,         \* dir # STOP
  \* history
  boot,           \* Ticks setup() took after the HELLO was sent
  executed        \* commands carried out

operator == <<asked, heard, hurried>>
inward   == <<pending, backlog, rx, held, lost>>
outward  == <<air, tx>>
firmware == <<fw, late, todo, doing, busy, moving>>
history  == <<boot, executed>>
vars     == <<operator, inward, outward, firmware, history>>

\* The Pi has just sent the HELLO, three seconds after it opened the line and
\* so reset the Arduino.
Init ==
  /\ asked = 0 /\ heard = 0 /\ hurried = FALSE
  /\ pending = <<"hello">> /\ backlog = PacketSize
  /\ rx = 0 /\ held = 0 /\ lost = 0
  /\ air = <<>> /\ tx = 0
  /\ boot \in 0 .. MaxBoot
  /\ fw = "setup" /\ busy = boot /\ late = FALSE
  /\ todo = <<>> /\ doing = "none" /\ moving = FALSE
  /\ executed = 0

-----------------------------------------------------------------------------
(* The Pi: uartSendPacket() *)

Ask(command) ==
  /\ asked < MaxCommands
  /\ asked' = asked + 1
  /\ hurried' = (hurried \/ asked # heard)
  /\ pending' = Append(pending, command)
  /\ backlog' = backlog + PacketSize
  /\ UNCHANGED <<heard, rx, held, lost, outward, firmware, history>>

-----------------------------------------------------------------------------
(* The line *)

\* Mutant: the ring takes a byte more than it has room for.
ReceivePast ==
  IF backlog = 0 THEN UNCHANGED <<backlog, rx, lost>>
  ELSE /\ backlog' = backlog - 1
       /\ IF rx <= RxSize THEN rx' = rx + 1 /\ UNCHANGED lost
                          ELSE lost' = lost + 1 /\ UNCHANGED rx

\* _rx_complete_irq(): a byte that finds the ring full is dropped.
Receive ==
  IF backlog = 0 THEN UNCHANGED <<backlog, rx, lost>>
  ELSE /\ backlog' = backlog - 1
       /\ IF rx < RxSize THEN rx' = rx + 1 /\ UNCHANGED lost
                         ELSE lost' = lost + 1 /\ UNCHANGED rx

\* The Pi has all of the first answer; the last answer to a command is the one
\* an operator waits for.
Transmit ==
  IF tx = 0 THEN UNCHANGED <<air, tx, heard>>
  ELSE /\ tx' = tx - 1
       /\ IF tx' = (Len(air) - 1) * PacketSize
            THEN /\ air' = Tail(air)
                 /\ heard' = IF Head(air) = "status" THEN heard ELSE heard + 1
            ELSE UNCHANGED <<air, heard>>

\* Mutant: a byte that arrives does not wake the CPU.
WokenByAnswer == tx > 0

\* A byte is due, and its interrupt wakes the CPU; the timers are off.
Woken == backlog > 0

\* Mutant: sendResponse() waits until the last byte has left.
Unsent == tx > 0

\* Serial.write() waits for room.
Full == tx > TxSize

\* The firmware waits: in delay(), in Serial.write(), or in sleep_cpu().
Waiting == \/ fw \in {"setup", "color"} /\ busy > 0
           \/ fw = "write" /\ Full
           \/ fw = "asleep"

Tick ==
  /\ Waiting \/ ~late
  /\ Receive /\ Transmit
  /\ late' = ~Waiting
  /\ busy' = IF busy > 0 THEN busy - 1 ELSE 0
  /\ fw' = IF fw = "asleep" /\ Woken THEN "poll" ELSE fw
  /\ UNCHANGED <<asked, hurried, pending, held, todo, doing, moving, history>>

-----------------------------------------------------------------------------
(* The firmware *)

SetUp ==
  /\ fw = "setup" /\ busy = 0
  /\ fw' = "poll"
  /\ UNCHANGED <<operator, inward, outward, late, todo, doing, busy, moving,
                 history>>

\* Mutant: GET_STATS sends its OK first.
AnswersEarly(command) ==
  IF command = "stats" THEN <<"ok", "status">> ELSE <<"ok">>

\* The packets handlePacket() sends back.
Answers(command) ==
  CASE command = "stats" -> <<"status", "ok">>
    [] command = "hello" -> <<>>
    [] OTHER             -> <<"ok">>

\* handlePacket(), handleCommand(): a move or a STOP is answered, then carried
\* out; GET_STATS and CLEAR_STATS are carried out, then answered.
Later == {"move", "stop"}

Handle(command) ==
  /\ todo' = Answers(command)
  /\ doing' = IF command \in Later THEN command ELSE "none"
  /\ executed' = IF command \in Later \cup {"hello"} THEN executed ELSE executed + 1
  /\ fw' = "write"
  /\ UNCHANGED moving

\* sendBadPacket(), sendBadChecksum()
Refuse ==
  /\ todo' = <<"error">> /\ fw' = "write"
  /\ UNCHANGED <<doing, moving, executed>>

\* readPacket() takes all there is, and it is not a packet yet,
Poll ==
  /\ fw = "poll" /\ held + rx < PacketSize
  /\ held' = held + rx /\ rx' = 0
  /\ fw' = "rest"
  /\ UNCHANGED <<operator, pending, backlog, lost, outward, late, todo, doing,
                 busy, moving, history>>

\* or it is, and the packet is handled.
Assembled ==
  /\ fw = "poll" /\ held + rx >= PacketSize
  /\ held' = held + rx - PacketSize /\ rx' = 0
  /\ pending' = IF pending = <<>> THEN <<>> ELSE Tail(pending)
  /\ IF lost = 0 THEN Handle(Head(pending))
     ELSE Refuse \/ \E command \in Commands \cup {"hello"} : Handle(command)
  /\ UNCHANGED <<operator, backlog, lost, outward, late, busy, boot>>

\* sendResponse(): Serial.write() returns when the ring has room for the rest.
Write ==
  /\ fw = "write" /\ ~Full /\ todo # <<>>
  /\ air' = Append(air, Head(todo)) /\ tx' = tx + PacketSize
  /\ todo' = Tail(todo)
  /\ UNCHANGED <<operator, inward, fw, late, doing, busy, moving, history>>

\* Then forward() and the others set dir and the motors, stop() the motors,
\* and readColor() follows a STOP.
Written ==
  /\ fw = "write" /\ ~Full /\ todo = <<>>
  /\ executed' = IF doing = "none" THEN executed ELSE executed + 1
  /\ moving' = (moving \/ doing = "move")
  /\ IF doing = "stop" THEN fw' = "color" /\ busy' = ColorTime
                       ELSE fw' = "rest" /\ UNCHANGED busy
  /\ doing' = "none"
  /\ UNCHANGED <<operator, inward, outward, late, todo, boot>>

\* readColor() is through.
Colored ==
  /\ fw = "color" /\ busy = 0
  /\ fw' = "rest"
  /\ UNCHANGED <<operator, inward, outward, late, todo, doing, busy, moving,
                 history>>

\* Mutant: the CPU is put to sleep whatever dir is.
SleepsAlways == TRUE

\* loop() ends by putting the CPU to sleep
Sleeps == ~moving

Rest ==
  /\ fw = "rest"
  /\ IF Sleeps THEN fw' = "asleep" /\ UNCHANGED late
               ELSE fw' = "poll" /\ late' = FALSE
  /\ UNCHANGED <<operator, inward, outward, todo, doing, busy, moving, history>>

Firmware == \/ SetUp \/ Poll \/ Assembled \/ Write \/ Written
            \/ Colored \/ Rest

-----------------------------------------------------------------------------
\* Another interrupt wakes the CPU: a byte has left, a wheel is turned by hand.
Nudge ==
  /\ fw = "asleep"
  /\ fw' = "poll" /\ late' = FALSE
  /\ UNCHANGED <<operator, inward, outward, todo, doing, busy, moving, history>>

-----------------------------------------------------------------------------
Next == \/ \E command \in Commands : Ask(command)
        \/ Tick \/ Firmware \/ Nudge

Spec == Init /\ [][Next]_vars

\* Time passes, however often the CPU is woken in between, and the firmware
\* runs when it does not wait.
FairSpec == Spec /\ SF_vars(Tick) /\ WF_vars(Firmware)

-----------------------------------------------------------------------------
\* Every variable has its type: the rings hold what they can.
TypeOK ==
  /\ asked \in 0 .. MaxCommands /\ heard \in Nat /\ hurried \in BOOLEAN
  /\ pending \in Seq(Commands \cup {"hello"})
  /\ backlog \in Nat /\ rx \in 0 .. RxSize
  /\ held \in 0 .. PacketSize - 1 /\ lost \in Nat
  /\ air \in Seq({"ok", "status", "error"})
  /\ tx \in 0 .. TxSize + PacketSize
  /\ fw \in {"setup", "poll", "write", "color", "rest", "asleep"}
  /\ late \in BOOLEAN
  /\ todo \in Seq({"ok", "status", "error"}) /\ doing \in Later \cup {"none"}
  /\ busy \in Nat /\ moving \in BOOLEAN
  /\ boot \in 0 .. MaxBoot /\ executed \in Nat

\* The operator has waited for each answer, and the Arduino was up in time.
Trusted == ~hurried /\ boot < RxSize

\* An operator who waits for the last answer to each command before giving the
\* next never loses a byte of one, although loop() reads the ring only now and
\* then and the ring is shorter than a packet.
NoLossIfTrusted == Trusted => lost = 0

\* The CPU sleeps only before the first move, and then with no more of what an
\* operator who waits has sent unread than the one byte that came after
\* readPacket() and before sleep_cpu(), unless more is due, which wakes it.
SleepsOnOneByte ==
  fw = "asleep" => ~moving /\ (Trusted => rx <= 1 \/ Woken)

\* The CPU sleeps on that byte, and nothing of the line will wake it.
Stranded == fw = "asleep" /\ rx = 1 /\ ~Woken /\ ~moving

\* An operator who waits is answered in the end, unless the last byte of the
\* command came just before the CPU went to sleep.
AnsweredUnlessStranded ==
  asked # heard /\ Trusted ~> asked = heard \/ Stranded \/ ~Trusted

\* Each command is carried out once, and the operator has the last answer to it
\* only then, although forward() and the others, and stop(), are called after
\* their answer is written: it is still in the ring when they are.
D == INSTANCE Dialogue WITH trusted <- Trusted
ImplementsDialogue == D!Spec
=============================================================================

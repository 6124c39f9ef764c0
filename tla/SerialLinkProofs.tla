-------------------------- MODULE SerialLinkProofs --------------------------
(***************************************************************************)
(* What holds of SerialLink for every size of the packets and of the rings *)
(* and for every number of commands.                                       *)
(***************************************************************************)
EXTENDS SerialLink, TLAPS

\* There are n answers under way just when there are t bytes of them to send:
\* Serial.write() lets at most one answer and a ring of another be under way.
InStep(n, t) ==
  /\ n <= 2
  /\ n = 0 => t = 0
  /\ n = 1 => 0 < t /\ t <= PacketSize
  /\ n = 2 => PacketSize < t /\ t <= PacketSize + TxSize

OutwardOK == InStep(Len(air), tx)

\* While no byte is lost, those not handed over yet are due, in the ring or in
\* the buffers of assemble().
Conserved == lost = 0 => backlog + rx + held = PacketSize * Len(pending)

\* What is left of the answer to the last command, by what is still to be
\* written and what is under way.
Answering ==
  \/ Len(todo) = 0 /\ Len(air) = 1 /\ air[1] = "ok"
  \/ Len(todo) = 0 /\ Len(air) = 2 /\ air[1] = "status" /\ air[2] = "ok"
  \/ Len(todo) = 1 /\ todo[1] = "ok" /\ Len(air) = 0
  \/ Len(todo) = 1 /\ todo[1] = "ok" /\ Len(air) = 1 /\ air[1] = "status"
  \/ Len(todo) = 2 /\ todo[1] = "status" /\ todo[2] = "ok" /\ Len(air) = 0

\* The commands carried out, or answered and about to be.
Carried == executed + (IF doing = "none" THEN 0 ELSE 1)

\* The command is on its way, possibly behind the HELLO: nothing is answered.
OnItsWay ==
  /\ heard = Carried /\ Carried = asked - 1
  /\ \/ Len(pending) = 1 /\ pending[1] \in Commands
     \/ Len(pending) = 2 /\ pending[1] = "hello" /\ pending[2] \in Commands
  /\ Len(todo) = 0 /\ Len(air) = 0

\* All that was asked is answered; the HELLO may still be on its way.
Idle ==
  /\ heard = Carried /\ Carried = asked
  /\ \/ Len(pending) = 0
     \/ Len(pending) = 1 /\ pending[1] = "hello"
  /\ Len(todo) = 0 /\ Len(air) = 0

\* The command was carried out or is about to be, and is being answered.
InAnswer ==
  /\ heard = Carried - 1 /\ Carried = asked
  /\ Len(pending) = 0
  /\ Answering

\* Where the dialogue with an operator who waits can be.
Talk == Trusted => /\ OnItsWay \/ Idle \/ InAnswer
                   /\ Len(todo) # 0 => fw = "write"
                   /\ doing # "none" => fw = "write" /\ InAnswer

\* A byte may have come in this pass of loop().
Lag == IF late THEN 1 ELSE 0

\* One byte more may have come after the wait was over.
Over == IF busy = 0 THEN Lag ELSE 0

\* How full the ring can be wherever the firmware is.
Timing ==
  Trusted =>
    /\ lost = 0
    /\ fw = "setup"  => rx + busy <= boot + Over
    /\ fw = "poll"   => rx <= RxSize - 1 + Lag
    /\ fw = "write"  => /\ rx <= Lag
                        /\ InAnswer /\ Len(todo) = 0 => tx + Lag >= TxSize
    /\ fw = "color"  => held = 0 /\ rx + busy + TxSize <= tx + ColorTime + 1 + Over
    /\ fw = "rest"   => rx <= RxSize - 3 + Lag /\ (rx <= Lag \/ held = 0)
    /\ fw = "asleep" => rx <= RxSize - 2 /\ (rx <= 1 \/ held = 0)

\* The CPU sleeps only before the first move.
StillAsleep == fw = "asleep" => ~moving

\* The inductive invariant.
IInv == TypeOK /\ OutwardOK /\ Conserved /\ Talk /\ Timing /\ StillAsleep

-----------------------------------------------------------------------------
(* The types. *)

\* Each part of a step of the firmware and of the line keeps the types.
LEMMA TickTypes == TypeOK /\ OutwardOK /\ Tick => TypeOK'
<1> SUFFICES ASSUME TypeOK, OutwardOK, Tick PROVE TypeOK'
  OBVIOUS
<1> USE SizesAssumption, TimesAssumption
<1>1. backlog' \in Nat /\ rx' \in 0 .. RxSize /\ lost' \in Nat
  BY DEF TypeOK, Tick, Receive
<1>2. air' \in Seq({"ok", "status", "error"}) /\ tx' \in 0 .. TxSize + PacketSize
      /\ heard' \in Nat
  <2>1. CASE tx = 0
    BY <2>1 DEF TypeOK, Tick, Transmit
  <2>2. CASE tx # 0
    <3>1. air # <<>> /\ tx' = tx - 1
      BY <2>2 DEF TypeOK, OutwardOK, InStep, Tick, Transmit
    <3>2. Tail(air) \in Seq({"ok", "status", "error"})
      BY <3>1 DEF TypeOK
    <3>3. air' \in {air, Tail(air)} /\ heard' \in {heard, heard + 1}
      BY <2>2 DEF Tick, Transmit
    <3>4. air' \in Seq({"ok", "status", "error"})
      <4>1. air \in Seq({"ok", "status", "error"})
        BY DEF TypeOK
      <4> QED
        BY <4>1, <3>2, <3>3
    <3>5. tx' \in 0 .. TxSize + PacketSize /\ heard' \in Nat
      BY <2>2, <3>1, <3>3 DEF TypeOK
    <3> QED
      BY <3>4, <3>5
  <2> QED
    BY <2>1, <2>2
<1>3. fw' \in {"setup", "poll", "write", "color", "rest", "asleep"}
  BY DEF TypeOK, Tick
<1>4. late' \in BOOLEAN
  <2>1. Waiting \in BOOLEAN
    BY DEF Waiting
  <2> QED
    BY <2>1 DEF Tick
<1>5. busy' \in Nat
  BY DEF TypeOK, Tick
<1>6. UNCHANGED <<asked, hurried, pending, held, todo, doing, moving, boot, executed>>
  BY DEF Tick, history
<1> QED
  BY <1>1, <1>2, <1>3, <1>4, <1>5, <1>6 DEF TypeOK

\* What handlePacket() does with a packet has its types.
LEMMA HandleTypes ==
  ASSUME TypeOK, NEW command \in Commands \cup {"hello"}, Handle(command)
  PROVE  /\ todo' \in Seq({"ok", "status", "error"})
         /\ doing' \in Later \cup {"none"}
         /\ moving' = moving /\ executed' \in Nat /\ fw' = "write"
<1>1. todo' \in Seq({"ok", "status", "error"})
  <2>1. /\ <<"ok">> \in Seq({"ok", "status", "error"})
        /\ <<>> \in Seq({"ok", "status", "error"})
        /\ <<"status", "ok">> \in Seq({"ok", "status", "error"})
    OBVIOUS
  <2>2. command # "hello" /\ command # "stats" => todo' = <<"ok">>
    BY DEF Handle, Answers
  <2>3. command = "stats" => todo' = <<"status", "ok">>
    BY DEF Handle, Answers
  <2>4. command = "hello" => todo' = <<>>
    BY DEF Handle, Answers
  <2> QED
    BY <2>1, <2>2, <2>3, <2>4
<1>2. moving' = moving /\ fw' = "write"
  BY DEF Handle
<1>3. doing' \in Later \cup {"none"}
  BY DEF Handle, Later
<1>4. executed' \in Nat
  BY DEF Handle, TypeOK
<1> QED
  BY <1>1, <1>2, <1>3, <1>4

\* While no byte is lost, what assemble() completes is a packet of the Pi.
LEMMA OnePending ==
  ASSUME TypeOK, Conserved, lost = 0, held + rx >= PacketSize
  PROVE  pending # <<>> /\ Head(pending) \in Commands \cup {"hello"}
<1>1. Len(pending) # 0
  BY SizesAssumption DEF TypeOK, Conserved
<1> QED
  BY <1>1 DEF TypeOK

\* The steps of the line to the Arduino and of the handler keep the types.
LEMMA AssembledTypes == TypeOK /\ Conserved /\ Assembled => TypeOK'
<1> SUFFICES ASSUME TypeOK, Conserved, Assembled PROVE TypeOK'
  OBVIOUS
<1>1. held' \in 0 .. PacketSize - 1 /\ rx' \in 0 .. RxSize
  BY SizesAssumption DEF TypeOK, Assembled
<1>2. pending' \in Seq(Commands \cup {"hello"})
  <2>1. pending # <<>> => Tail(pending) \in Seq(Commands \cup {"hello"})
    BY DEF TypeOK
  <2> QED
    BY <2>1 DEF TypeOK, Assembled
<1>3. /\ todo' \in Seq({"ok", "status", "error"})
      /\ doing' \in Later \cup {"none"}
      /\ moving' = moving /\ executed' \in Nat /\ fw' = "write"
  <2>1. CASE lost = 0
    BY <2>1, OnePending, HandleTypes DEF Assembled
  <2>2. CASE lost # 0
    <3>1. CASE Refuse
      BY <3>1 DEF Refuse, TypeOK
    <3>2. CASE \E command \in Commands \cup {"hello"} : Handle(command)
      BY <3>2, HandleTypes
    <3> QED
      BY <2>2, <3>1, <3>2 DEF Assembled
  <2> QED
    BY <2>1, <2>2
<1>4. UNCHANGED <<asked, heard, hurried, backlog, lost, air, tx, late, busy, boot>>
  BY DEF Assembled, operator, outward
<1> QED
  BY <1>1, <1>2, <1>3, <1>4 DEF TypeOK

\* Serial.write() is left with room for one answer at most.
LEMMA WriteTypes == TypeOK /\ Write => TypeOK'
<1> SUFFICES ASSUME TypeOK, Write PROVE TypeOK'
  OBVIOUS
<1>1. tx' \in 0 .. TxSize + PacketSize
  BY SizesAssumption DEF TypeOK, Write, Full
<1>2. todo # <<>> /\ Head(todo) \in {"ok", "status", "error"}
      /\ Tail(todo) \in Seq({"ok", "status", "error"})
  BY DEF TypeOK, Write
<1>3. air' \in Seq({"ok", "status", "error"}) /\ todo' \in Seq({"ok", "status", "error"})
  BY <1>2 DEF TypeOK, Write
<1>4. UNCHANGED <<asked, heard, hurried, pending, backlog, rx, held, lost, fw, late,
                  doing, busy, moving, boot, executed>>
  BY DEF Write, operator, inward, history
<1> QED
  BY <1>1, <1>3, <1>4 DEF TypeOK

\* A move or a STOP is carried out once its answer is written.
LEMMA WrittenTypes == TypeOK /\ Written => TypeOK'
<1> SUFFICES ASSUME TypeOK, Written PROVE TypeOK'
  OBVIOUS
<1>1. executed' \in Nat /\ busy' \in Nat
  BY TimesAssumption DEF TypeOK, Written
<1>2. moving' \in BOOLEAN
  <2>1. (moving \/ doing = "move") \in BOOLEAN
    OBVIOUS
  <2> QED
    BY <2>1 DEF Written
<1>3. fw' \in {"setup", "poll", "write", "color", "rest", "asleep"}
      /\ doing' \in Later \cup {"none"}
  BY DEF Written
<1>4. UNCHANGED <<asked, heard, hurried, pending, backlog, rx, held, lost, air, tx,
                  late, todo, boot>>
  BY DEF Written, operator, inward, outward
<1> QED
  BY <1>1, <1>2, <1>3, <1>4 DEF TypeOK

\* Every step keeps the types.
LEMMA TypeStep == TypeOK /\ OutwardOK /\ Conserved /\ [Next]_vars => TypeOK'
<1> SUFFICES ASSUME TypeOK, OutwardOK, Conserved, [Next]_vars PROVE TypeOK'
  OBVIOUS
<1> USE SizesAssumption, TimesAssumption
    DEF vars, operator, inward, outward, firmware, history
<1>1. ASSUME NEW command \in Commands, Ask(command) PROVE TypeOK'
  <2>1. pending' \in Seq(Commands \cup {"hello"})
    BY <1>1 DEF TypeOK, Ask
  <2>2. hurried' \in BOOLEAN
    <3>1. (hurried \/ asked # heard) \in BOOLEAN
      OBVIOUS
    <3> QED
      BY <3>1, <1>1 DEF Ask
  <2>3. asked' \in 0 .. MaxCommands /\ backlog' \in Nat
    BY <1>1 DEF TypeOK, Ask
  <2> QED
    BY <1>1, <2>1, <2>2, <2>3 DEF TypeOK, Ask
<1>2. CASE Tick
  BY <1>2, TickTypes
<1>3. CASE SetUp
  BY <1>3 DEF TypeOK, SetUp
<1>4. CASE Poll
  <2>1. held' \in 0 .. PacketSize - 1 /\ rx' \in 0 .. RxSize
    BY <1>4 DEF TypeOK, Poll
  <2> QED
    BY <1>4, <2>1 DEF TypeOK, Poll
<1>5. CASE Assembled
  BY <1>5, AssembledTypes
<1>6. CASE Write
  BY <1>6, WriteTypes
<1>7. CASE Written
  BY <1>7, WrittenTypes
<1>8. CASE Colored
  BY <1>8 DEF TypeOK, Colored
<1>9. CASE Rest
  BY <1>9 DEF TypeOK, Rest
<1>10. CASE Nudge
  BY <1>10 DEF TypeOK, Nudge
<1>11. CASE UNCHANGED vars
  BY <1>11 DEF TypeOK
<1> QED
  BY <1>1, <1>2, <1>3, <1>4, <1>5, <1>6, <1>7, <1>8, <1>9, <1>10, <1>11
  DEF Next, Firmware

-----------------------------------------------------------------------------
(* The parts of the invariant, one after the other. *)

\* A byte leaves, and with it perhaps an answer; or an answer is written.
LEMMA InStepStays ==
  ASSUME NEW n \in Nat, NEW t \in Nat, InStep(n, t)
  PROVE  /\ t # 0 => /\ n # 0
                     /\ t - 1 = (n - 1) * PacketSize => InStep(n - 1, t - 1)
                     /\ t - 1 # (n - 1) * PacketSize => InStep(n, t - 1)
         /\ t <= TxSize => InStep(n + 1, t + PacketSize)
<1> USE SizesAssumption DEF InStep
<1>1. CASE n = 0
  BY <1>1
<1>2. CASE n = 1
  <2>1. (n - 1) * PacketSize = 0
    BY <1>2
  <2> QED
    BY <1>2, <2>1
<1>3. CASE n = 2
  <2>1. (n - 1) * PacketSize = PacketSize
    BY <1>3
  <2> QED
    BY <1>3, <2>1
<1> QED
  BY <1>1, <1>2, <1>3

\* The answers under way and the bytes of them stay in step.
LEMMA OutwardStep == TypeOK /\ OutwardOK /\ [Next]_vars => OutwardOK'
<1> SUFFICES ASSUME TypeOK, OutwardOK, [Next]_vars PROVE OutwardOK'
  OBVIOUS
<1>0. /\ air \in Seq({"ok", "status", "error"}) /\ tx \in Nat
      /\ todo \in Seq({"ok", "status", "error"})
  BY DEF TypeOK
<1>1. CASE Tick
  <2>1. CASE tx = 0
    BY <1>1, <2>1 DEF Tick, Transmit, OutwardOK
  <2>2. CASE tx # 0
    <3>1. /\ Len(air) # 0
          /\ tx - 1 = (Len(air) - 1) * PacketSize => InStep(Len(air) - 1, tx - 1)
          /\ tx - 1 # (Len(air) - 1) * PacketSize => InStep(Len(air), tx - 1)
      BY <1>0, <2>2, InStepStays DEF OutwardOK
    <3>2. Len(Tail(air)) = Len(air) - 1
      BY <1>0, <3>1
    <3>3. tx' = tx - 1
      BY <1>1, <2>2 DEF Tick, Transmit
    <3>4. tx - 1 = (Len(air) - 1) * PacketSize => air' = Tail(air)
      BY <1>1, <2>2, <3>3 DEF Tick, Transmit
    <3>5. tx - 1 # (Len(air) - 1) * PacketSize => air' = air
      BY <1>1, <2>2, <3>3 DEF Tick, Transmit
    <3> QED
      BY <3>1, <3>2, <3>3, <3>4, <3>5 DEF OutwardOK
  <2> QED
    BY <2>1, <2>2
<1>2. CASE Write
  <2>1. Head(todo) \in {"ok", "status", "error"} /\ tx <= TxSize
        /\ air' = Append(air, Head(todo)) /\ tx' = tx + PacketSize
    BY <1>0, <1>2, SizesAssumption DEF Write, Full
  <2>2. Len(air') = Len(air) + 1
    BY <1>0, <2>1
  <2>3. InStep(Len(air) + 1, tx + PacketSize)
    BY <1>0, <2>1, InStepStays DEF OutwardOK
  <2> QED
    BY <2>1, <2>2, <2>3 DEF OutwardOK
<1>3. CASE UNCHANGED <<air, tx>>
  BY <1>3 DEF OutwardOK
<1> QED
  BY <1>1, <1>2, <1>3
  DEF Next, Firmware, Ask, SetUp, Poll, Assembled, Written, Colored, Rest, Nudge,
      vars, operator, inward, outward, firmware, history

\* A packet more is PacketSize bytes more.
LEMMA OneMore ==
  ASSUME NEW n \in Nat PROVE /\ PacketSize * (n + 1) = PacketSize * n + PacketSize
                             /\ PacketSize * n \in Nat
  BY SizesAssumption

\* Bytes are due, in the ring, with assemble(), or handed over; or one is lost.
LEMMA ConservedStep == TypeOK /\ Conserved /\ [Next]_vars => Conserved'
<1> SUFFICES ASSUME TypeOK, Conserved, [Next]_vars, lost' = 0
             PROVE  backlog' + rx' + held' = PacketSize * Len(pending')
  BY DEF Conserved
<1> USE SizesAssumption DEF vars, operator, inward, outward, firmware, history
<1>0. /\ pending \in Seq(Commands \cup {"hello"}) /\ Len(pending) \in Nat
      /\ backlog \in Nat /\ rx \in 0 .. RxSize /\ held \in 0 .. PacketSize - 1
      /\ lost \in Nat
  BY DEF TypeOK
<1>1. ASSUME NEW command \in Commands, Ask(command)
      PROVE backlog' + rx' + held' = PacketSize * Len(pending')
  <2>1. /\ Len(pending') = Len(pending) + 1
        /\ backlog' = backlog + PacketSize /\ rx' = rx /\ held' = held /\ lost' = lost
    BY <1>0, <1>1 DEF Ask
  <2>2. PacketSize * Len(pending') = PacketSize * Len(pending) + PacketSize
    BY <1>0, <2>1, OneMore
  <2> QED
    BY <1>0, <2>1, <2>2 DEF Conserved
<1>2. CASE Tick
  <2>1. pending' = pending /\ held' = held /\ lost = 0 /\ backlog' + rx' = backlog + rx
    BY <1>0, <1>2 DEF Tick, Receive
  <2>2. backlog' \in Nat /\ rx' \in Nat
    BY <1>0, <1>2 DEF Tick, Receive
  <2> QED
    BY <1>0, <2>1, <2>2 DEF Conserved
<1>3. CASE Poll
  BY <1>0, <1>3 DEF Poll, Conserved
<1>4. CASE Assembled
  <2>1. lost = 0 /\ held' = held + rx - PacketSize /\ rx' = 0 /\ backlog' = backlog
        /\ held + rx >= PacketSize
    BY <1>4 DEF Assembled
  <2>2. pending # <<>> /\ pending' = Tail(pending)
    BY <1>4, <2>1, OnePending DEF Assembled
  <2>3. Len(pending') \in Nat /\ Len(pending) = Len(pending') + 1
    BY <1>0, <2>2
  <2>4. PacketSize * Len(pending) = PacketSize * Len(pending') + PacketSize
        /\ PacketSize * Len(pending') \in Nat
    BY <2>3, OneMore
  <2> QED
    BY <1>0, <2>1, <2>4 DEF Conserved
<1>5. CASE UNCHANGED inward
  BY <1>5 DEF Conserved
<1> QED
  BY <1>1, <1>2, <1>3, <1>4, <1>5
  DEF Next, Firmware, SetUp, Write, Written, Colored, Rest, Nudge

\* The CPU is put to sleep only while dir is STOP.
LEMMA AsleepStep == StillAsleep /\ [Next]_vars => StillAsleep'
<1> SUFFICES ASSUME StillAsleep, [Next]_vars, fw' = "asleep" PROVE ~moving'
  BY DEF StillAsleep
<1> USE DEF vars, operator, inward, outward, firmware, history
<1>1. CASE Rest
  BY <1>1 DEF Rest, Sleeps
<1>2. CASE fw = "asleep" /\ moving' = moving
  BY <1>2 DEF StillAsleep
<1>3. CASE Assembled
  <2>1. fw' = "write"
    BY <1>3 DEF Assembled, Refuse, Handle
  <2> QED
    BY <2>1
<1>4. CASE Written
  <2>1. fw' \in {"color", "rest"}
    BY <1>4 DEF Written
  <2> QED
    BY <2>1
<1> QED
  BY <1>1, <1>2, <1>3, <1>4
  DEF Next, Firmware, Ask, Tick, SetUp, Poll, Write, Colored, Nudge

-----------------------------------------------------------------------------
(* Where the dialogue can be. *)

\* Trust that is lost does not come back.
LEMMA TrustKept == [Next]_vars /\ Trusted' => Trusted
<1> SUFFICES ASSUME [Next]_vars, Trusted' PROVE Trusted
  OBVIOUS
<1>1. boot' = boot
  BY DEF Next, Firmware, Ask, Tick, SetUp, Poll, Assembled, Write, Written,
         Colored, Rest, Nudge, vars, operator, inward, outward, firmware, history
<1>2. ~hurried
  BY DEF Trusted, Next, Firmware, Ask, Tick, SetUp, Poll, Assembled, Write,
         Written, Colored, Rest, Nudge, vars, operator, inward, outward,
         firmware, history
<1> QED
  BY <1>1, <1>2 DEF Trusted

\* The first of a sequence and the rest of it.
LEMMA TailFacts ==
  ASSUME NEW S, NEW s \in Seq(S), Len(s) # 0
  PROVE  /\ Len(Tail(s)) = Len(s) - 1
         /\ Head(s) = s[1]
         /\ Len(s) = 2 => Tail(s)[1] = s[2]
  OBVIOUS

\* A sequence of at most one, and one more.
LEMMA AppendFacts ==
  ASSUME NEW S, NEW s \in Seq(S), NEW e \in S
  PROVE  /\ Len(Append(s, e)) = Len(s) + 1
         /\ Len(s) = 0 => Append(s, e)[1] = e
         /\ Len(s) = 1 => Append(s, e)[1] = s[1] /\ Append(s, e)[2] = e
  OBVIOUS

\* An operator who waits asks when all is answered.
LEMMA AskTalk ==
  ASSUME TypeOK, Talk, Trusted, Trusted', NEW command \in Commands, Ask(command)
  PROVE  Talk'
<1>1. asked = heard
  BY DEF Trusted, Ask, TypeOK
<1>2. Idle
  BY <1>1 DEF Talk, OnItsWay, InAnswer, TypeOK
<1>3. /\ Len(pending') = Len(pending) + 1
      /\ Len(pending) = 0 => pending'[1] = command
      /\ Len(pending) = 1 => pending'[1] = pending[1] /\ pending'[2] = command
  BY AppendFacts DEF TypeOK, Ask
<1>4. OnItsWay'
  <2>1. heard' = Carried' /\ Carried' = asked' - 1
    BY <1>2 DEF Idle, Ask, Carried, TypeOK, history, firmware
  <2>2. Len(todo') = 0 /\ Len(air') = 0
    BY <1>2 DEF Idle, Ask, outward, firmware
  <2>3. \/ Len(pending') = 1 /\ pending'[1] \in Commands
        \/ Len(pending') = 2 /\ pending'[1] = "hello" /\ pending'[2] \in Commands
    <3>1. CASE Len(pending) = 0
      BY <1>3, <3>1
    <3>2. CASE Len(pending) = 1 /\ pending[1] = "hello"
      BY <1>3, <3>2
    <3> QED
      BY <1>2, <3>1, <3>2 DEF Idle
  <2> QED
    BY <2>1, <2>2, <2>3 DEF OnItsWay
<1>5. doing = "none" /\ doing' = doing /\ fw' = fw /\ todo' = todo
  BY <1>1 DEF Talk, InAnswer, TypeOK, Ask, firmware
<1> QED
  BY <1>4, <1>5 DEF Talk, OnItsWay

\* An answer arrives, or a part of one does.
LEMMA TickTalk ==
  ASSUME TypeOK, OutwardOK, Talk, Timing, Trusted, Tick
  PROVE  Talk'
<1>1. /\ asked' = asked /\ executed' = executed /\ pending' = pending
      /\ todo' = todo /\ doing' = doing /\ Carried' = Carried
      /\ fw = "write" => fw' = "write"
  BY DEF Tick, history, Carried
<1>2. CASE tx = 0
  <2>1. air' = air /\ heard' = heard
    BY <1>2 DEF Tick, Transmit
  <2> QED
    BY <1>1, <2>1 DEF Talk, OnItsWay, Idle, InAnswer, Answering
<1>3. CASE tx # 0
  <2>1. Len(air) # 0
    BY <1>3, InStepStays DEF TypeOK, OutwardOK
  <2>2. InAnswer
    BY <2>1 DEF Talk, OnItsWay, Idle
  <2>3. tx' = tx - 1
    BY <1>3 DEF Tick, Transmit
  <2>4. CASE air' = air /\ heard' = heard
    BY <1>1, <2>2, <2>4 DEF Talk, InAnswer, Answering
  <2>5. CASE /\ air' = Tail(air) /\ tx' = (Len(air) - 1) * PacketSize
             /\ heard' = IF Head(air) = "status" THEN heard ELSE heard + 1
    <3>1. /\ Len(air') = Len(air) - 1 /\ Head(air) = air[1]
          /\ Len(air) = 2 => air'[1] = air[2]
      BY <2>1, <2>5, TailFacts DEF TypeOK
    <3>2. CASE Len(air) = 1 /\ air[1] = "ok" /\ Len(todo) = 0
      <4>1. tx = 1
        <5>1. (Len(air) - 1) * PacketSize = 0
          BY <3>2, SizesAssumption
        <5> QED
          BY <2>3, <2>5, <5>1 DEF TypeOK
      <4>2. fw # "write"
        BY <2>2, <3>2, <4>1, SizesAssumption DEF Timing, Tick, Waiting, Full, Lag
      <4>3. doing = "none"
        BY <4>2 DEF Talk
      <4>4. heard' = Carried
        BY <2>2, <2>5, <3>1, <3>2 DEF InAnswer, Carried, TypeOK
      <4>5. Len(air') = 0
        BY <3>1, <3>2
      <4>6. Idle'
        BY <1>1, <2>2, <3>2, <4>4, <4>5 DEF InAnswer, Idle
      <4> QED
        BY <1>1, <4>3, <4>6 DEF Talk, Idle
    <3>3. CASE Len(air) = 1 /\ air[1] = "status" /\ Len(todo) = 1 /\ todo[1] = "ok"
      <4>1. Len(air') = 0 /\ heard' = heard
        BY <2>5, <3>1, <3>3
      <4>2. Answering'
        BY <1>1, <3>3, <4>1 DEF Answering
      <4>3. InAnswer'
        BY <1>1, <2>2, <4>1, <4>2 DEF InAnswer
      <4> QED
        BY <1>1, <4>3 DEF Talk
    <3>4. CASE Len(air) = 2 /\ air[1] = "status" /\ air[2] = "ok" /\ Len(todo) = 0
      <4>0. air'[1] = "ok" /\ heard' = heard
        BY <2>5, <3>1, <3>4
      <4>1. Len(air') = 1 /\ air'[1] = "ok" /\ heard' = heard
        BY <3>1, <3>4, <4>0
      <4>2. Answering'
        BY <1>1, <3>4, <4>1 DEF Answering
      <4>3. InAnswer'
        BY <1>1, <2>2, <4>1, <4>2 DEF InAnswer
      <4> QED
        BY <1>1, <4>3 DEF Talk
    <3> QED
      BY <2>1, <2>2, <3>2, <3>3, <3>4 DEF InAnswer, Answering
  <2> QED
    BY <1>3, <2>4, <2>5 DEF Tick, Transmit
<1> QED
  BY <1>2, <1>3

\* A packet is handed over: the HELLO, or the command.
LEMMA AssembledTalk ==
  ASSUME TypeOK, Conserved, Talk, Timing, Trusted, Assembled
  PROVE  Talk'
<1>0. doing = "none"
  <2>1. fw # "write"
    BY DEF Assembled
  <2> QED
    BY <2>1 DEF Talk
<1>1. lost = 0 /\ held + rx >= PacketSize
  BY DEF Timing, Assembled
<1>2. pending # <<>> /\ pending' = Tail(pending) /\ Handle(Head(pending))
  BY <1>1, OnePending DEF Assembled
<1>3. /\ Len(pending) # 0 /\ Len(pending') = Len(pending) - 1
      /\ Head(pending) = pending[1]
      /\ Len(pending) = 2 => pending'[1] = pending[2]
  <2>1. Len(pending) # 0
    BY <1>2 DEF TypeOK
  <2> QED
    BY <1>2, <2>1, TailFacts DEF TypeOK
<1>4. /\ asked' = asked /\ heard' = heard /\ air' = air
  BY DEF Assembled, operator, outward
<1>5. fw' = "write"
  BY <1>2 DEF Handle
<1>6. CASE OnItsWay /\ Len(pending) = 1 /\ pending[1] \in Commands
  <2>1. Carried' = Carried + 1
    BY <1>2, <1>3, <1>6, <1>0 DEF Handle, Commands, Later, Carried, TypeOK
  <2>2. Len(pending') = 0
    BY <1>3, <1>6
  <2>3. \/ todo' = <<"ok">>
        \/ todo' = <<"status", "ok">>
    BY <1>2, <1>3, <1>6 DEF Handle, Answers, Commands
  <2>4. Len(air') = 0
    BY <1>4, <1>6 DEF OnItsWay
  <2>5. Answering'
    BY <2>3, <2>4 DEF Answering
  <2>6. heard' = Carried' - 1 /\ Carried' = asked'
    BY <1>4, <1>6, <2>1 DEF OnItsWay, TypeOK
  <2> QED
    BY <1>5, <2>2, <2>5, <2>6 DEF Talk, InAnswer
<1>7. CASE pending[1] = "hello"
  <2>1. executed' = executed /\ doing' = "none" /\ todo' = <<>> /\ Carried' = Carried
    BY <1>2, <1>3, <1>7, <1>0 DEF Handle, Answers, Later, Carried
  <2>2. Len(todo') = 0
    BY <2>1
  <2>3. CASE OnItsWay /\ Len(pending) = 2 /\ pending[2] \in Commands
    <3>1. Len(pending') = 1 /\ pending'[1] \in Commands
      <4>1. Len(pending') = 1
        BY <1>3, <2>3
      <4> QED
        BY <1>3, <2>3, <4>1
    <3>2. OnItsWay'
      BY <1>4, <2>1, <2>2, <2>3, <3>1 DEF OnItsWay
    <3> QED
      BY <2>1, <2>2, <3>2 DEF Talk
  <2>4. CASE Idle /\ Len(pending) = 1
    <3>1. Len(pending') = 0
      BY <1>3, <2>4
    <3>2. Idle'
      BY <1>4, <2>1, <2>2, <2>4, <3>1 DEF Idle
    <3> QED
      BY <2>1, <2>2, <3>2 DEF Talk
  <2> QED
    BY <1>3, <1>7, <2>3, <2>4 DEF Talk, OnItsWay, Idle, InAnswer, Commands
<1> QED
  BY <1>3, <1>6, <1>7 DEF Talk, OnItsWay, Idle, InAnswer

\* A part of the answer is written.
LEMMA WriteTalk ==
  ASSUME TypeOK, Talk, Trusted, Write
  PROVE  Talk'
<1>1. /\ asked' = asked /\ heard' = heard /\ Carried' = Carried
      /\ pending' = pending /\ fw' = "write" /\ doing' = doing
  BY DEF Write, operator, inward, history, Carried
<1>2. /\ todo # <<>> /\ todo' = Tail(todo) /\ air' = Append(air, Head(todo))
      /\ todo \in Seq({"ok", "status", "error"})
      /\ air \in Seq({"ok", "status", "error"})
  BY DEF Write, TypeOK
<1>3. Len(todo) # 0
  BY <1>2
<1>4. InAnswer
  BY <1>3 DEF Talk, OnItsWay, Idle
<1>5. /\ Len(todo') = Len(todo) - 1 /\ Head(todo) = todo[1]
      /\ Len(todo) = 2 => todo'[1] = todo[2]
  BY <1>2, <1>3, TailFacts
<1>6. Head(todo) \in {"ok", "status", "error"}
  BY <1>2
<1>7. /\ Len(air') = Len(air) + 1
      /\ Len(air) = 0 => air'[1] = Head(todo)
      /\ Len(air) = 1 => air'[1] = air[1] /\ air'[2] = Head(todo)
  BY <1>2, <1>6, AppendFacts
<1>8. Answering'
  <2>1. CASE Len(todo) = 1 /\ todo[1] = "ok" /\ Len(air) = 0
    <3>1. Len(todo') = 0 /\ Len(air') = 1
      BY <1>5, <1>7, <2>1
    <3> QED
      BY <1>5, <1>7, <2>1, <3>1 DEF Answering
  <2>2. CASE Len(todo) = 1 /\ todo[1] = "ok" /\ Len(air) = 1 /\ air[1] = "status"
    <3>1. Len(todo') = 0 /\ Len(air') = 2
      BY <1>5, <1>7, <2>2
    <3> QED
      BY <1>5, <1>7, <2>2, <3>1 DEF Answering
  <2>3. CASE /\ Len(todo) = 2 /\ todo[1] = "status" /\ todo[2] = "ok"
             /\ Len(air) = 0
    <3>1. Len(todo') = 1 /\ Len(air') = 1
      BY <1>5, <1>7, <2>3
    <3> QED
      BY <1>5, <1>7, <2>3, <3>1 DEF Answering
  <2> QED
    BY <1>3, <1>4, <2>1, <2>2, <2>3 DEF InAnswer, Answering
<1>9. InAnswer'
  BY <1>1, <1>4, <1>8 DEF InAnswer
<1> QED
  BY <1>1, <1>9 DEF Talk

\* The dialogue stays where it can be.
LEMMA TalkStep ==
  TypeOK /\ OutwardOK /\ Conserved /\ Talk /\ Timing /\ [Next]_vars => Talk'
<1> SUFFICES ASSUME TypeOK, OutwardOK, Conserved, Talk, Timing, [Next]_vars,
                    Trusted'
             PROVE  Talk'
  BY DEF Talk
<1>1. Trusted
  BY TrustKept
<1>2. ASSUME NEW command \in Commands, Ask(command) PROVE Talk'
  BY <1>1, <1>2, AskTalk
<1>3. CASE Tick
  BY <1>1, <1>3, TickTalk
<1>4. CASE Assembled
  BY <1>1, <1>4, AssembledTalk
<1>5. CASE Write
  BY <1>1, <1>5, WriteTalk
<1>6. CASE Written
  <2>1. /\ UNCHANGED <<asked, heard, pending, todo, air>>
        /\ doing' = "none" /\ todo = <<>>
    BY <1>6 DEF Written, operator, inward, outward
  <2>2. Len(todo) = 0
    BY <2>1
  <2>3. Carried' = Carried
    BY <1>6 DEF Written, Carried, TypeOK
  <2> QED
    BY <1>1, <2>1, <2>2, <2>3 DEF Talk, OnItsWay, Idle, InAnswer, Answering
<1>7. CASE UNCHANGED <<asked, heard, executed, pending, todo, air, doing, fw>>
  BY <1>1, <1>7 DEF Talk, OnItsWay, Idle, InAnswer, Answering, Carried
<1>8. CASE SetUp \/ Poll \/ Colored \/ Rest \/ Nudge
  <2>1. /\ UNCHANGED <<asked, heard, executed, pending, todo, air, doing>>
        /\ fw # "write"
    BY <1>8 DEF SetUp, Poll, Colored, Rest, Nudge, operator, inward, outward, history
  <2>2. Len(todo) = 0 /\ doing = "none"
    BY <1>1, <2>1 DEF Talk
  <2> QED
    BY <1>1, <2>1, <2>2 DEF Talk, OnItsWay, Idle, InAnswer, Answering, Carried
<1> QED
  BY <1>2, <1>3, <1>4, <1>5, <1>6, <1>7, <1>8
  DEF Next, Firmware, vars, operator, inward, outward, firmware, history

-----------------------------------------------------------------------------
(* How full the ring can be. *)

\* While the answer is under way, nothing is left of the command.
LEMMA NothingLeft ==
  ASSUME TypeOK, Conserved, lost = 0, Len(pending) = 0
  PROVE  backlog = 0 /\ rx = 0 /\ held = 0
<1>1. PacketSize * Len(pending) = 0
  BY SizesAssumption
<1> QED
  BY <1>1 DEF TypeOK, Conserved

\* While answers are under way to an operator who waits, the line to the
\* Arduino is quiet.
LEMMA Quiet ==
  ASSUME TypeOK, OutwardOK, Conserved, Talk, Timing, Trusted,
         tx # 0 \/ Len(todo) # 0 \/ doing # "none"
  PROVE  InAnswer /\ backlog = 0 /\ rx = 0 /\ held = 0
<1>1. tx # 0 => Len(air) # 0
  BY InStepStays DEF TypeOK, OutwardOK
<1>2. InAnswer
  BY <1>1 DEF Talk, OnItsWay, Idle
<1> QED
  BY <1>2, NothingLeft DEF InAnswer, Timing

\* One byte time passes wherever the firmware is.
LEMMA TickTiming ==
  ASSUME TypeOK, OutwardOK, Conserved, Talk, Timing, Trusted, Tick
  PROVE  Timing'
<1> USE SizesAssumption, TimesAssumption
<1>1. /\ rx \in Nat /\ busy \in Nat /\ boot \in Nat /\ tx \in Nat
      /\ backlog \in Nat /\ held \in Nat /\ late \in BOOLEAN
  BY DEF TypeOK
<1>2. /\ held' = held /\ boot' = boot /\ todo' = todo
      /\ lost = 0 /\ boot < RxSize
  BY DEF Tick, Timing, Trusted, history
<1>3. busy' = IF busy > 0 THEN busy - 1 ELSE 0
  BY DEF Tick
<1>4. tx' = IF tx = 0 THEN 0 ELSE tx - 1
  BY DEF Tick, Transmit
<1>5. IF backlog = 0 THEN rx' = rx /\ lost' = lost
      ELSE IF rx < RxSize THEN rx' = rx + 1 /\ lost' = lost
      ELSE rx' = rx
  BY DEF Tick, Receive
<1>6. CASE fw = "setup"
  <2>0. Waiting <=> busy > 0
    BY <1>6 DEF Waiting
  <2>1. fw' = "setup" /\ (busy > 0 => ~late') /\ (busy = 0 => ~late /\ late')
    <3>1. busy > 0 \/ busy = 0
      BY <1>1
    <3>2. ~(busy > 0 /\ busy = 0)
      BY <1>1
    <3> QED
      BY <1>6, <2>0, <3>1, <3>2 DEF Tick
  <2>2. rx + busy <= boot
    BY <1>6, <2>1, <1>1 DEF Timing, Over, Lag
  <2>3. lost' = 0
    BY <1>1, <1>2, <1>5, <2>2
  <2>4. rx' + busy' <= boot' + Over'
    <3>1. CASE busy > 0
      <4>1. Over' = 0
        BY <2>1, <3>1 DEF Over, Lag
      <4>2. busy' = busy - 1
        BY <1>3, <3>1
      <4>3. PICK r \in {0, 1} : rx' = rx + r
        BY <1>1, <1>5
      <4> QED
        BY <1>1, <1>2, <2>2, <4>1, <4>2, <4>3
    <3>2. CASE busy = 0
      <4>1. Over' = 1
        BY <1>3, <2>1, <3>2 DEF Over, Lag
      <4>2. busy' = 0
        BY <1>3, <3>2
      <4>3. PICK r \in {0, 1} : rx' = rx + r
        BY <1>1, <1>5
      <4> QED
        BY <1>1, <1>2, <2>2, <3>2, <4>1, <4>2, <4>3
    <3> QED
      BY <1>1, <3>1, <3>2
  <2> QED
    BY <2>1, <2>3, <2>4 DEF Timing
<1>7. CASE fw = "poll"
  <2>1. fw' = "poll" /\ ~late /\ late'
    BY <1>7 DEF Tick, Waiting
  <2>2. rx <= RxSize - 1
    BY <1>7, <2>1, <1>1 DEF Timing, Lag
  <2>3. lost' = 0 /\ rx' <= RxSize
    BY <1>1, <1>2, <1>5, <2>2
  <2>4. Lag' = 1
    BY <2>1 DEF Lag
  <2> QED
    BY <2>1, <2>3, <2>4 DEF Timing
<1>8. CASE fw = "write"
  <2>0. Waiting <=> tx > TxSize
    BY <1>8 DEF Waiting, Full
  <2>1. fw' = "write" /\ (tx > TxSize => ~late') /\ (tx <= TxSize => ~late /\ late')
    <3>1. ~(tx > TxSize /\ tx <= TxSize)
      BY <1>1
    <3> QED
      BY <1>8, <2>0, <3>1 DEF Tick
  <2>2. CASE tx > TxSize
    <3>1. backlog = 0 /\ rx = 0
      BY <1>1, <2>2, Quiet
    <3>2. lost' = 0 /\ rx' = 0 /\ Lag' = 0
      BY <1>2, <1>5, <2>1, <2>2, <3>1 DEF Lag
    <3>3. tx' >= TxSize
      BY <1>1, <1>4, <2>2
    <3>4. tx' + Lag' >= TxSize
      BY <1>1, <1>4, <3>2, <3>3
    <3> QED
      BY <2>1, <3>2, <3>4 DEF Timing
  <2>3. CASE tx <= TxSize
    <3>1. rx <= 0 /\ Lag' = 1
      BY <1>8, <1>1, <2>1, <2>3 DEF Timing, Lag
    <3>2. lost' = 0 /\ rx' <= 1
      BY <1>1, <1>2, <1>5, <3>1
    <3>3. ASSUME InAnswer', Len(todo') = 0 PROVE tx' + Lag' >= TxSize
      <4>1. InAnswer
        <5>1. CASE Len(air) = 0
          <6>1. tx = 0
            BY <5>1 DEF OutwardOK, InStep
          <6>2. air' = air
            BY <6>1 DEF Tick, Transmit
          <6> QED
            BY <1>2, <3>3, <5>1, <6>2 DEF InAnswer, Answering
        <5>2. CASE Len(air) # 0
          BY <5>2 DEF Talk, OnItsWay, Idle
        <5> QED
          BY <5>1, <5>2
      <4>2. tx >= TxSize
        BY <1>1, <1>2, <1>8, <2>1, <2>3, <3>3, <4>1 DEF Timing, Lag
      <4> QED
        BY <1>1, <1>4, <3>1, <4>2
    <3> QED
      BY <2>1, <3>1, <3>2, <3>3 DEF Timing
  <2> QED
    BY <1>1, <2>2, <2>3
<1>9. CASE fw = "color"
  <2>0. Waiting <=> busy > 0
    BY <1>9 DEF Waiting
  <2>1. fw' = "color" /\ (busy > 0 => ~late') /\ (busy = 0 => ~late /\ late')
    <3>1. busy > 0 \/ busy = 0
      BY <1>1
    <3>2. ~(busy > 0 /\ busy = 0)
      BY <1>1
    <3> QED
      BY <1>9, <2>0, <3>1, <3>2 DEF Tick
  <2>2. rx + busy + TxSize <= tx + ColorTime + 1 /\ held = 0
    BY <1>9, <2>1, <1>1 DEF Timing, Over, Lag
  <2>3. tx # 0 => backlog = 0 /\ rx = 0
    BY Quiet
  <2>4. lost' = 0 /\ rx' \in Nat
    BY <1>1, <1>2, <1>5, <2>2, <2>3
  <2>5. Over' = IF busy > 0 THEN 0 ELSE 1
    <3>1. CASE busy > 0
      BY <2>1, <3>1 DEF Over, Lag
    <3>2. CASE busy = 0
      BY <1>3, <2>1, <3>2 DEF Over, Lag
    <3> QED
      BY <1>1, <3>1, <3>2
  <2>6. rx' + busy' + TxSize <= tx' + ColorTime + 1 + Over'
    <3>1. CASE tx # 0
      <4>1. rx' = 0 /\ tx' = tx - 1
        BY <1>4, <1>5, <2>3, <3>1
      <4> QED
        BY <1>1, <1>3, <2>2, <2>3, <2>5, <3>1, <4>1
    <3>2. CASE tx = 0
      <4>1. PICK r \in {0, 1} : rx' = rx + r
        BY <1>1, <1>5
      <4>2. tx' = 0
        BY <1>4, <3>2
      <4>3. CASE busy > 0
        <5>1. busy' = busy - 1 /\ Over' = 0
          BY <1>3, <2>5, <4>3
        <5> QED
          BY <1>1, <2>2, <3>2, <4>1, <4>2, <5>1
      <4>4. CASE busy = 0
        <5>1. busy' = 0 /\ Over' = 1
          BY <1>3, <2>5, <4>4
        <5> QED
          BY <1>1, <2>2, <3>2, <4>1, <4>2, <4>4, <5>1
      <4> QED
        BY <1>1, <4>3, <4>4
    <3> QED
      BY <3>1, <3>2
  <2> QED
    BY <1>2, <2>1, <2>2, <2>4, <2>6 DEF Timing
<1>10. CASE fw = "rest"
  <2>1. fw' = "rest" /\ ~late /\ late'
    BY <1>10 DEF Tick, Waiting
  <2>2. rx <= RxSize - 3 /\ (rx = 0 \/ held = 0)
    BY <1>10, <2>1, <1>1 DEF Timing, Lag
  <2>3. lost' = 0 /\ rx' <= rx + 1 /\ rx' \in Nat
    BY <1>1, <1>2, <1>5, <2>2
  <2>4. Lag' = 1
    BY <2>1 DEF Lag
  <2>5. rx' <= RxSize - 3 + Lag' /\ (rx' <= Lag' \/ held' = 0)
    BY <1>1, <1>2, <2>2, <2>3, <2>4
  <2> QED
    BY <2>1, <2>3, <2>5 DEF Timing
<1>11. CASE fw = "asleep"
  <2>1. ~late'
    BY <1>11 DEF Tick, Waiting
  <2>2. rx <= RxSize - 2 /\ (rx <= 1 \/ held = 0)
    BY <1>11 DEF Timing
  <2>3. CASE backlog > 0
    <3>1. fw' = "poll"
      BY <1>11, <2>3 DEF Tick, Woken
    <3>2. lost' = 0 /\ rx' <= RxSize - 1
      BY <1>1, <1>2, <1>5, <2>2, <2>3
    <3>3. Lag' = 0
      BY <2>1 DEF Lag
    <3> QED
      BY <3>1, <3>2, <3>3 DEF Timing
  <2>4. CASE backlog = 0
    <3>1. fw' = "asleep"
      BY <1>11, <2>4 DEF Tick, Woken
    <3>2. lost' = 0 /\ rx' = rx
      BY <1>2, <1>5, <2>4
    <3> QED
      BY <1>2, <2>2, <3>1, <3>2 DEF Timing
  <2> QED
    BY <1>1, <2>3, <2>4
<1> QED
  BY <1>6, <1>7, <1>8, <1>9, <1>10, <1>11 DEF TypeOK

\* readColor() begins with nothing left of the command, and as much of the
\* answer to send as keeps the operator waiting until the ring can take more.
LEMMA WrittenTiming ==
  ASSUME TypeOK, OutwardOK, Conserved, Talk, Timing, Trusted, Written
  PROVE  Timing'
<1> USE SizesAssumption, TimesAssumption
<1>1. /\ rx' = rx /\ tx' = tx /\ late' = late /\ held' = held /\ lost' = 0
      /\ fw = "write" /\ todo = <<>>
  BY DEF Written, inward, outward, Timing
<1>2. /\ rx \in Nat /\ tx \in Nat /\ late \in BOOLEAN
  BY DEF TypeOK
<1>3. CASE doing = "stop"
  <2>1. fw' = "color" /\ busy' = ColorTime
    BY <1>3 DEF Written
  <2>2. InAnswer /\ rx = 0 /\ held = 0
    BY <1>3, Quiet
  <2>3. tx + Lag >= TxSize
    BY <1>1, <2>2 DEF Timing
  <2>4. Over' = 0
    BY <2>1 DEF Over
  <2>5. Lag \in 0 .. 1
    BY DEF Lag
  <2>6. 0 + ColorTime + TxSize <= tx + ColorTime + 1
    BY <1>2, <2>3, <2>5
  <2>7. rx' = 0 /\ busy' + TxSize <= tx + ColorTime + 1
    BY <1>1, <2>1, <2>2, <2>6
  <2> QED
    BY <1>1, <1>2, <2>1, <2>2, <2>4, <2>7 DEF Timing
<1>4. CASE doing # "stop"
  <2>1. fw' = "rest"
    BY <1>4 DEF Written
  <2>2. rx <= Lag
    BY <1>1 DEF Timing
  <2>3. Lag' = Lag /\ Lag \in 0 .. 1
    BY <1>1 DEF Lag
  <2>4. rx <= RxSize - 3 + Lag
    BY <1>2, <2>2, <2>3
  <2> QED
    BY <1>1, <2>1, <2>2, <2>3, <2>4 DEF Timing
<1> QED
  BY <1>3, <1>4

\* readColor() is through, and the ring has room for three bytes yet.
LEMMA ColoredTiming ==
  ASSUME TypeOK, OutwardOK, Conserved, Talk, Timing, Trusted, Colored
  PROVE  Timing'
<1> USE SizesAssumption, TimesAssumption
<1>1. /\ rx' = rx /\ held' = held /\ lost' = 0 /\ late' = late
      /\ fw = "color" /\ busy = 0 /\ fw' = "rest"
  BY DEF Colored, inward, Timing
<1>2. /\ rx \in Nat /\ tx \in Nat /\ late \in BOOLEAN
  BY DEF TypeOK
<1>3. Lag' = Lag /\ Lag \in 0 .. 1 /\ Over = Lag
  BY <1>1 DEF Lag, Over
<1>4. rx + TxSize <= tx + ColorTime + 1 + Lag /\ held = 0
  BY <1>1, <1>2, <1>3 DEF Timing
<1>5. tx # 0 => rx = 0
  BY Quiet
<1>6. rx <= RxSize - 3 + Lag
  BY <1>2, <1>3, <1>4, <1>5
<1> QED
  BY <1>1, <1>3, <1>4, <1>6 DEF Timing

\* The ring never fills under the firmware's feet.
LEMMA TimingStep ==
  TypeOK /\ OutwardOK /\ Conserved /\ Talk /\ Talk' /\ Timing /\ [Next]_vars
    => Timing'
<1> SUFFICES ASSUME TypeOK, OutwardOK, Conserved, Talk, Talk', Timing,
                    [Next]_vars, Trusted'
             PROVE  Timing'
  BY DEF Timing
<1> USE SizesAssumption, TimesAssumption
<1>1. Trusted
  BY TrustKept
<1>2. /\ rx \in Nat /\ tx \in Nat /\ late \in BOOLEAN /\ busy \in Nat
      /\ lost = 0 /\ boot < RxSize /\ boot \in Nat
  BY <1>1 DEF TypeOK, Timing, Trusted
<1>3. Lag \in 0 .. 1
  BY DEF Lag
<1>4. ASSUME NEW command \in Commands, Ask(command) PROVE Timing'
  <2>1. UNCHANGED <<rx, held, lost, tx, boot, fw, late, todo, busy>>
    BY <1>4 DEF Ask, outward, firmware, history
  <2>2. ~InAnswer'
    <3>1. asked' = asked + 1 /\ Carried' = Carried /\ asked = heard
      BY <1>1, <1>4 DEF Ask, history, firmware, Carried, Trusted, TypeOK
    <3>2. Carried \in Int /\ asked \in Nat /\ (Carried = heard \/ Carried = asked)
      BY <1>1 DEF Carried, TypeOK, InAnswer, Talk, OnItsWay, Idle
    <3> QED
      BY <3>1, <3>2 DEF InAnswer
  <2> QED
    BY <1>1, <2>1, <2>2 DEF Timing, Lag, Over
<1>5. CASE Tick
  BY <1>1, <1>5, TickTiming
<1>6. CASE SetUp
  <2>1. UNCHANGED <<rx, late, lost>> /\ fw = "setup" /\ busy = 0 /\ fw' = "poll"
    BY <1>6 DEF SetUp, inward
  <2>2. Over = Lag /\ Lag' = Lag
    BY <2>1 DEF Over, Lag
  <2>3. rx <= RxSize - 1 + Lag
    BY <1>1, <1>2, <1>3, <2>1, <2>2 DEF Timing
  <2> QED
    BY <1>2, <2>1, <2>2, <2>3 DEF Timing
<1>7. CASE Poll
  <2>1. rx' = 0 /\ lost' = lost /\ late' = late /\ fw' = "rest"
    BY <1>7 DEF Poll
  <2>2. Lag' = Lag
    BY <2>1 DEF Lag
  <2>3. 0 <= RxSize - 3 + Lag /\ 0 <= Lag
    BY <1>3
  <2> QED
    BY <1>2, <2>1, <2>2, <2>3 DEF Timing
<1>8. CASE Assembled
  <2>1. rx' = 0 /\ lost' = lost /\ late' = late
    BY <1>8 DEF Assembled
  <2>2. fw' = "write" /\ Handle(Head(pending)) /\ Head(pending) \in Commands \cup {"hello"}
    BY <1>2, <1>8, OnePending DEF Assembled, Handle
  <2>3. Lag' = Lag /\ 0 <= Lag
    BY <1>3, <2>1 DEF Lag
  <2>4. ~(InAnswer' /\ Len(todo') = 0)
    <3>1. CASE Head(pending) = "hello"
      <4>0. doing = "none"
        <5>1. fw # "write"
          BY <1>8 DEF Assembled
        <5> QED
          BY <1>1, <5>1 DEF Talk
      <4>1. Carried' = Carried /\ heard' = heard
        BY <1>8, <2>2, <3>1, <4>0 DEF Handle, Assembled, operator, Carried, Later
      <4>2. ~InAnswer
        <5>1. Len(pending) # 0
          BY <1>2, <1>8, OnePending DEF Assembled, TypeOK
        <5> QED
          BY <5>1 DEF InAnswer
      <4>3. heard = Carried
        BY <1>1, <4>2 DEF Talk, OnItsWay, Idle
      <4>4. heard \in Nat
        BY DEF TypeOK
      <4> QED
        BY <4>1, <4>3, <4>4 DEF InAnswer
    <3>2. CASE Head(pending) # "hello"
      <4>1. todo' = <<"ok">> \/ todo' = <<"status", "ok">>
        BY <2>2, <3>2 DEF Handle, Answers
      <4> QED
        BY <4>1
    <3> QED
      BY <3>1, <3>2
  <2> QED
    BY <1>2, <2>1, <2>2, <2>3, <2>4 DEF Timing
<1>9. CASE Write
  <2>1. /\ UNCHANGED <<rx, lost, late>> /\ fw = "write" /\ fw' = "write"
        /\ tx' = tx + PacketSize
    BY <1>9 DEF Write, inward
  <2>2. Lag' = Lag
    BY <2>1 DEF Lag
  <2>3. rx <= Lag
    BY <1>1, <2>1 DEF Timing
  <2>4. tx + PacketSize + Lag >= TxSize
    BY <1>2, <1>3
  <2>5. tx' + Lag' >= TxSize
    BY <2>1, <2>2, <2>4
  <2> QED
    BY <1>2, <2>1, <2>2, <2>3, <2>5 DEF Timing
<1>10. CASE Written
  BY <1>1, <1>10, WrittenTiming
<1>11. CASE Colored
  BY <1>1, <1>11, ColoredTiming
<1>12. CASE Rest
  <2>1. UNCHANGED <<rx, held, lost>> /\ fw = "rest" /\ fw' \in {"asleep", "poll"}
        /\ (fw' = "poll" => late' = FALSE)
    BY <1>12 DEF Rest, inward
  <2>2. rx <= RxSize - 2 /\ (rx <= 1 \/ held = 0)
    BY <1>1, <1>2, <1>3, <2>1 DEF Timing
  <2>3. Lag' \in 0 .. 1 /\ (fw' = "poll" => Lag' = 0)
    BY <2>1 DEF Lag
  <2>4. CASE fw' = "asleep"
    BY <1>2, <2>1, <2>2, <2>4 DEF Timing
  <2>5. CASE fw' = "poll"
    <3>1. Lag' = 0 /\ rx <= RxSize - 1 + 0
      BY <1>2, <2>2, <2>3, <2>5
    <3> QED
      BY <1>2, <2>1, <2>5, <3>1 DEF Timing
  <2> QED
    BY <2>1, <2>4, <2>5
<1>13. CASE Nudge
  <2>1. UNCHANGED <<rx, lost>> /\ fw = "asleep" /\ fw' = "poll" /\ late' = FALSE
    BY <1>13 DEF Nudge, inward
  <2>2. Lag' = 0
    BY <2>1 DEF Lag
  <2>3. rx <= RxSize - 2
    BY <1>1, <2>1 DEF Timing
  <2>4. rx' <= RxSize - 1 + 0
    BY <1>2, <2>1, <2>3
  <2> QED
    BY <1>2, <2>1, <2>2, <2>4 DEF Timing
<1>14. CASE UNCHANGED vars
  <2>1. UNCHANGED <<asked, heard, executed, doing, pending, todo, air, rx, held, lost,
                    tx, boot, fw, late, busy>>
    BY <1>14 DEF vars, operator, inward, outward, firmware, history
  <2> QED
    BY <1>1, <2>1 DEF Timing, InAnswer, Answering, Carried, Lag, Over
<1> QED
  BY <1>4, <1>5, <1>6, <1>7, <1>8, <1>9, <1>10, <1>11, <1>12, <1>13, <1>14
  DEF Next, Firmware

-----------------------------------------------------------------------------
(* The invariant, and what it implies. *)

\* The HELLO is on its way to an Arduino that may not be up yet.
LEMMA Initially == Init => IInv
<1> SUFFICES ASSUME Init PROVE IInv
  OBVIOUS
<1> USE SizesAssumption, TimesAssumption DEF Init
<1>1. pending = <<"hello">> /\ Len(pending) = 1 /\ pending[1] = "hello"
      /\ Len(todo) = 0 /\ Len(air) = 0 /\ todo = <<>> /\ air = <<>>
  OBVIOUS
<1>2. TypeOK
  <2>1. pending \in Seq(Commands \cup {"hello"})
    <3>1. "hello" \in Commands \cup {"hello"}
      OBVIOUS
    <3> QED
      BY <1>1, <3>1
  <2>2. todo \in Seq({"ok", "status", "error"}) /\ air \in Seq({"ok", "status", "error"})
    BY <1>1
  <2>3. asked = 0 /\ heard = 0 /\ executed = 0 /\ lost = 0 /\ backlog = PacketSize
    OBVIOUS
  <2>4. rx = 0 /\ held = 0 /\ tx = 0
    OBVIOUS
  <2>5. boot \in 0 .. MaxBoot /\ busy = boot
    OBVIOUS
  <2>6. /\ fw = "setup" /\ late \in BOOLEAN /\ doing \in Later \cup {"none"}
        /\ moving \in BOOLEAN /\ hurried \in BOOLEAN
    OBVIOUS
  <2>7. asked \in 0 .. MaxCommands /\ backlog \in Nat /\ busy \in Nat
    BY <2>3, <2>5
  <2>8. rx \in 0 .. RxSize /\ held \in 0 .. PacketSize - 1
        /\ tx \in 0 .. TxSize + PacketSize
    BY <2>4
  <2> HIDE DEF Init
  <2> QED
    BY <2>1, <2>2, <2>3, <2>5, <2>6, <2>7, <2>8 DEF TypeOK
<1>3. OutwardOK
  BY <1>1 DEF OutwardOK, InStep
<1>4. Conserved
  <2>1. PacketSize * Len(pending) = PacketSize
    BY <1>1
  <2> QED
    BY <2>1 DEF Conserved
<1>5. Talk
  <2>1. Idle
    BY <1>1 DEF Idle, Carried
  <2> QED
    BY <1>1, <2>1 DEF Talk
<1>6. Timing
  <2>1. Over \in Nat
    BY DEF Over, Lag
  <2>2. rx + busy <= boot + Over
    BY <2>1
  <2> QED
    BY <2>2 DEF Timing
<1>7. StillAsleep
  BY DEF StillAsleep
<1> QED
  BY <1>2, <1>3, <1>4, <1>5, <1>6, <1>7 DEF IInv

\* The inductive invariant holds.
LEMMA Invariance == Spec => []IInv
<1>1. Init => IInv
  BY Initially
<1>2. IInv /\ [Next]_vars => IInv'
  <2> SUFFICES ASSUME IInv, [Next]_vars PROVE IInv'
    OBVIOUS
  <2>1. TypeOK' /\ OutwardOK' /\ Conserved' /\ StillAsleep'
    BY TypeStep, OutwardStep, ConservedStep, AsleepStep DEF IInv
  <2>2. Talk'
    BY TalkStep DEF IInv
  <2>3. Timing'
    BY <2>2, TimingStep DEF IInv
  <2> QED
    BY <2>1, <2>2, <2>3 DEF IInv
<1> QED
  BY <1>1, <1>2, PTL DEF Spec

\* Whatever the sizes, the rings hold no more than they can, and every variable
\* has its type.
THEOREM TypeCorrect == Spec => []TypeOK
<1>1. IInv => TypeOK
  BY DEF IInv
<1> QED
  BY <1>1, Invariance, PTL

\* Whatever the sizes within the assumptions, an operator who waits for each
\* answer never loses a byte of a command.
THEOREM NoLoss == Spec => []NoLossIfTrusted
<1>1. IInv => NoLossIfTrusted
  BY DEF IInv, Timing, NoLossIfTrusted
<1> QED
  BY <1>1, Invariance, PTL

\* Whatever the sizes, the CPU goes to sleep on one unread byte at most, or
\* with more due.
THEOREM OneByteAtMost == Spec => []SleepsOnOneByte
<1>1. IInv => SleepsOnOneByte
  <2> SUFFICES ASSUME IInv, fw = "asleep", Trusted
               PROVE  rx <= 1 \/ Woken
    BY DEF IInv, StillAsleep, SleepsOnOneByte
  <2>1. lost = 0 /\ (rx <= 1 \/ held = 0)
    BY DEF IInv, Timing
  <2>2. rx \in 0 .. RxSize /\ backlog \in Nat /\ Len(pending) \in Nat
    BY DEF IInv, TypeOK
  <2>3. CASE held = 0
    <3>1. backlog + rx = PacketSize * Len(pending)
      BY <2>1, <2>2, <2>3 DEF IInv, Conserved
    <3>2. CASE Len(pending) = 0
      <4>1. PacketSize * Len(pending) = 0
        BY <3>2, SizesAssumption
      <4> QED
        BY <2>2, <3>1, <4>1
    <3>3. CASE Len(pending) # 0
      <4>1. PICK n \in Nat : Len(pending) = n + 1
        <5>1. Len(pending) - 1 \in Nat /\ Len(pending) = (Len(pending) - 1) + 1
          BY <2>2, <3>3
        <5> QED
          BY <5>1
      <4>2. PacketSize * Len(pending) = PacketSize * n + PacketSize
            /\ PacketSize * n \in Nat
        BY <4>1, OneMore
      <4> QED
        BY <2>2, <3>1, <4>2, SizesAssumption DEF Woken
    <3> QED
      BY <3>2, <3>3
  <2> QED
    BY <2>1, <2>3
<1> QED
  BY <1>1, Invariance, PTL

\* The last answer to a command reaches the operator only when nothing is left
\* to be carried out: the ring the answer is in when a move or STOP begins is
\* longer than a byte.
LEMMA HeardLast ==
  ASSUME TypeOK, OutwardOK, Talk, Timing, Trusted, Tick, heard' # heard
  PROVE  doing = "none"
<1> SUFFICES ASSUME doing # "none" PROVE FALSE
  OBVIOUS
<1>1. fw = "write" /\ InAnswer
  BY DEF Talk
<1>2. tx # 0 /\ tx - 1 = (Len(air) - 1) * PacketSize /\ Head(air) # "status"
  BY DEF Tick, Transmit
<1>3. Len(air) # 0
  BY <1>2, InStepStays DEF TypeOK, OutwardOK
<1>4. Head(air) = air[1]
  BY <1>3, TailFacts DEF TypeOK
<1>5. Len(air) = 1 /\ Len(todo) = 0
  BY <1>1, <1>2, <1>3, <1>4 DEF InAnswer, Answering
<1>6. tx = 1
  <2>1. (Len(air) - 1) * PacketSize = 0
    BY <1>5, SizesAssumption
  <2> QED
    BY <1>2, <2>1 DEF TypeOK
<1>7. tx + Lag >= TxSize
  BY <1>1, <1>5 DEF Timing
<1>8. late
  BY <1>6, <1>7, SizesAssumption DEF Lag
<1>9. Waiting
  BY <1>8 DEF Tick
<1>10. tx > TxSize
  BY <1>1, <1>9 DEF Waiting, Full
<1> QED
  BY <1>6, <1>10, SizesAssumption

\* Whatever the sizes, the line and the firmware implement the dialogue: each
\* command is carried out once, and the last answer to it reaches the operator
\* only then, although a move or a STOP is answered before it is carried out.
THEOREM DialogueImplemented == Spec => ImplementsDialogue
<1>1. Init => D!Init
  BY DEF Init, D!Init, Trusted
<1>2. IInv /\ IInv' /\ [Next]_vars => [D!Next]_(D!vars)
  <2> SUFFICES ASSUME IInv, IInv', [Next]_vars PROVE D!Next \/ UNCHANGED D!vars
    BY DEF D!vars
  <2>1. Trusted' => Trusted
    BY TrustKept
  <2>2. CASE ~Trusted'
    BY <2>1, <2>2 DEF D!Next
  <2>3. CASE Trusted'
    <3>0. asked \in Nat /\ heard \in Nat /\ executed \in Nat
      BY DEF IInv, TypeOK
    <3>1. ASSUME NEW command \in Commands, Ask(command) PROVE D!Next
      BY <2>1, <2>3, <3>0, <3>1 DEF Ask, history, Trusted, D!Next, D!Ask
    <3>2. CASE Tick
      <4>1. asked' = asked /\ executed' = executed
        BY <3>2 DEF Tick, history
      <4>2. CASE heard' = heard
        BY <2>1, <2>3, <4>1, <4>2 DEF D!vars
      <4>3. CASE heard' # heard
        <5>1. heard' = heard + 1 /\ tx # 0
          BY <3>2, <4>3 DEF Tick, Transmit
        <5>2. InAnswer
          BY <2>1, <2>3, <5>1, Quiet DEF IInv
        <5>3. doing = "none"
          BY <2>1, <2>3, <3>2, <4>3, HeardLast DEF IInv
        <5>4. heard < executed
          BY <3>0, <5>2, <5>3 DEF InAnswer, Carried
        <5> QED
          BY <2>1, <4>1, <5>1, <5>4 DEF D!Next, D!Hear
      <4> QED
        BY <4>2, <4>3
    <3>3. CASE Assembled
      <4>1. asked' = asked /\ heard' = heard
        BY <3>3 DEF Assembled, operator
      <4>2. CASE executed' = executed
        BY <2>1, <2>3, <4>1, <4>2 DEF D!vars
      <4>3. CASE executed' # executed
        <5>1. lost = 0 /\ Handle(Head(pending)) /\ pending # <<>>
          BY <2>1, <2>3, <3>3, OnePending DEF Assembled, IInv, Timing
        <5>2. executed' = executed + 1 /\ Head(pending) # "hello"
          BY <4>3, <5>1 DEF Handle
        <5>3. Len(pending) # 0 /\ Head(pending) = pending[1]
          BY <5>1 DEF IInv, TypeOK
        <5>4. OnItsWay /\ doing = "none"
          BY <2>1, <2>3, <3>3, <5>2, <5>3
          DEF IInv, Talk, InAnswer, Idle, Assembled
        <5>5. executed < asked
          BY <3>0, <5>4 DEF OnItsWay, Carried
        <5> QED
          BY <2>1, <4>1, <5>2, <5>5 DEF D!Next, D!Execute
      <4> QED
        BY <4>2, <4>3
    <3>5. CASE Written
      <4>1. asked' = asked /\ heard' = heard
        BY <3>5 DEF Written, operator
      <4>2. CASE doing = "none"
        <5>1. executed' = executed
          BY <3>5, <4>2 DEF Written
        <5> QED
          BY <2>1, <2>3, <4>1, <5>1 DEF D!vars
      <4>3. CASE doing # "none"
        <5>1. executed' = executed + 1
          BY <3>5, <4>3 DEF Written
        <5>2. InAnswer
          BY <2>1, <2>3, <4>3 DEF IInv, Talk
        <5>3. executed < asked
          BY <3>0, <4>3, <5>2 DEF InAnswer, Carried
        <5> QED
          BY <2>1, <4>1, <5>1, <5>3 DEF D!Next, D!Execute
      <4> QED
        BY <4>2, <4>3
    <3>4. CASE UNCHANGED <<asked, heard, executed>>
      BY <2>1, <2>3, <3>4 DEF D!vars
    <3> QED
      BY <3>1, <3>2, <3>3, <3>4, <3>5
      DEF Next, Firmware, SetUp, Poll, Write, Colored, Rest, Nudge,
          vars, operator, inward, outward, firmware, history
  <2> QED
    BY <2>2, <2>3
<1> QED
  BY <1>1, <1>2, Invariance, PTL DEF Spec, ImplementsDialogue, D!Spec
=============================================================================

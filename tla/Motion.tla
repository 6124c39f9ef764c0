------------------------------- MODULE Motion -------------------------------
(***************************************************************************)
(* final_alex.ino: how the firmware carries out a movement command.        *)
(*                                                                         *)
(* The main program (loop() and the handlers it calls) runs with           *)
(* interrupts enabled, so the encoder interrupts INT0 and INT1 fall between *)
(* any two of its steps: between the pin writes of a handler, between the  *)
(* assignments of clearCounters(), and between the bytes of a 32-bit       *)
(* counter the 8-bit CPU loads one at a time.  An interrupt handler itself *)
(* runs to its end.                                                        *)
(*                                                                         *)
(* The four tick counters nothing but sendStatus() reads are left out.     *)
(***************************************************************************)
EXTENDS Integers, Sequences

CONSTANTS Commands,      \* the command packets that may arrive
          MilliPerTick,  \* 1000 * WHEEL_CIRC / COUNTS_PER_REV: 68
          MilliPerDeg,   \* 1000 * the factor of computeDeltaTicks: 2193
          Byte,          \* values of one byte of a counter: 256
          MaxTicks,      \* bound on each tick counter
          MaxCommands    \* bound on the packets that arrive

Directions == {"FORWARD", "BACKWARD", "LEFT", "RIGHT"}
Straight   == {"FORWARD", "BACKWARD"}

ASSUME CommandsAssumption ==
  Commands \subseteq [op : Directions \cup {"STOP", "CLEAR_STATS"},
                      amount : Nat, speed : Nat]
ASSUME ScalesAssumption ==
  /\ MilliPerTick \in Nat /\ MilliPerDeg \in Nat /\ Byte \in Nat \ {0}
  /\ MaxTicks \in Nat /\ MaxCommands \in Nat

Pins == {"LF", "LR", "RF", "RR"}

Counters == {"rightForwardTicks", "leftForwardTicksTurns",
             "rightForwardTicksTurns", "rightReverseTicks",
             "forwardDist", "reverseDist"}

VARIABLES
  pc,            \* where the main program is
  cmd,           \* the command packet being handled
  at,            \* next of the writes of a handler's pins or counters
  half,          \* a counter when its low byte was loaded
  dir, deltaDist, newDist, deltaTicks, targetTicks,   \* the globals
  pwm,           \* OCR0B, OCR0A, OCR2A and OCR1B, by the pin they drive
  count,         \* the volatile counters
  moved,         \* ticks of the measuring wheel since the move began
  logged,        \* moved when the move's counter was last brought up to date
  mark,          \* logged when loop() last loaded that counter
  disturbed,     \* counters were cleared, or the start misread, in this move
  issued         \* command packets that have arrived

program == <<pc, cmd, at, half>>
goal    == <<deltaDist, newDist, deltaTicks, targetTicks>>
history == <<moved, logged, mark, disturbed, issued>>
vars    == <<program, dir, goal, pwm, count, history>>

Init ==
  /\ pc = "poll" /\ cmd = [op |-> "STOP", amount |-> 0, speed |-> 0]
  /\ at = 1 /\ half = 0
  /\ dir = "STOP"
  /\ deltaDist = 0 /\ newDist = 0 /\ deltaTicks = 0 /\ targetTicks = 0
  /\ pwm = [p \in Pins |-> 0]
  /\ count = [c \in Counters |-> 0]
  /\ moved = 0 /\ logged = 0 /\ mark = 0 /\ disturbed = FALSE /\ issued = 0

-----------------------------------------------------------------------------
(* Arithmetic *)

\* Centimetres for a count of ticks, truncated to unsigned long.
Dist(ticks) == (ticks * MilliPerTick) \div 1000

computeDeltaTicks(ang) == (ang * MilliPerDeg) \div 1000

\* The distance forward() and reverse() add; 9999999 means for ever.
DeltaDist(dist) == IF dist > 0 THEN dist \div 2 ELSE 9999999

\* The ticks left() and right() add; 99999999 means for ever.
DeltaTicks(ang) ==
  IF ang = 0 THEN 99999999 ELSE computeDeltaTicks(ang) \div 4

pwmVal(speed) == ((IF speed > 100 THEN 100 ELSE speed) * 255) \div 100

\* Tenths of pwmVal(speed) a handler writes to each pin it drives.
Share(d) ==
  CASE d = "FORWARD"  -> [LF |-> 10, RF |-> 9,  LR |-> 0,  RR |-> 0]
    [] d = "BACKWARD" -> [LR |-> 10, RR |-> 9,  LF |-> 0,  RF |-> 0]
    [] d = "LEFT"     -> [LR |-> 10, RF |-> 14, LF |-> 0,  RR |-> 0]
    [] d = "RIGHT"    -> [RR |-> 10, LF |-> 13, LR |-> 0,  RF |-> 0]
    [] OTHER          -> [LF |-> 0,  RF |-> 0,  LR |-> 0,  RR |-> 0]

\* analogWriteBareMetal(): OCR1B is 16 bits wide, the other three are 8.
Register(pin, val) == IF pin = "RR" THEN val % 65536 ELSE val % 256

Duty(d, pin, speed) == Register(pin, (Share(d)[pin] * pwmVal(speed)) \div 10)

\* Mutant: forward() writes the left wheel's second pin twice.
PinTwice ==
  [FORWARD  |-> <<"LF", "RF", "LR", "LR">>,
   BACKWARD |-> <<"LR", "RR", "LF", "RF">>,
   LEFT     |-> <<"LR", "RF", "LF", "RR">>,
   RIGHT    |-> <<"RR", "LF", "LR", "RF">>,
   STOP     |-> <<"LF", "LR", "RF", "RR">>]

\* The order in which forward(), reverse(), left(), right() and stop() write
\* their pins, and clearCounters() its counters.
PinOrder ==
  [FORWARD  |-> <<"LF", "RF", "LR", "RR">>,
   BACKWARD |-> <<"LR", "RR", "LF", "RF">>,
   LEFT     |-> <<"LR", "RF", "LF", "RR">>,
   RIGHT    |-> <<"RR", "LF", "LR", "RF">>,
   STOP     |-> <<"LF", "LR", "RF", "RR">>]

\* Mutant: the distances are cleared before the ticks they are made from.
DistancesFirst == <<"forwardDist", "reverseDist", "rightForwardTicks",
                    "leftForwardTicksTurns", "rightForwardTicksTurns",
                    "rightReverseTicks">>

ClearOrder == <<"rightForwardTicks", "leftForwardTicksTurns",
                "rightForwardTicksTurns", "rightReverseTicks",
                "forwardDist", "reverseDist">>

\* The counter that measures a move in direction d.
Gauge(d) ==
  CASE d = "FORWARD"  -> "forwardDist"
    [] d = "BACKWARD" -> "reverseDist"
    [] d = "LEFT"     -> "rightForwardTicksTurns"
    [] d = "RIGHT"    -> "leftForwardTicksTurns"

\* A 32-bit load: the low byte first, the others after an interrupt perhaps.
Carried(old, new) == old \div Byte # new \div Byte
Loaded(old, new) == (old % Byte) + Byte * (new \div Byte)

-----------------------------------------------------------------------------
(* The main program *)

Goto(label) == pc' = label

\* loop() finds no whole packet, or one that moves nothing: a status request,
\* an unknown command, another packet type, a damaged packet.
NoCommand ==
  /\ pc = "poll" /\ Goto("check")
  /\ UNCHANGED <<cmd, at, half, dir, goal, pwm, count, history>>

\* handleCommand(): the packet is acknowledged before it is carried out, or
\* after; the writes of sendOK() touch nothing modelled here.
Command(c) ==
  /\ pc = "poll" /\ issued < MaxCommands
  /\ cmd' = c /\ at' = 1 /\ issued' = issued + 1
  /\ Goto(CASE c.op \in Directions     -> "aim"
            [] c.op = "STOP"            -> "halt"
            [] c.op = "CLEAR_STATS"     -> "clear")
  /\ UNCHANGED <<half, dir, goal, pwm, count, moved, logged, mark, disturbed>>

\* forward(), reverse(), left(), right() compute the delta and begin to load
\* the counter it is added to.
Aim ==
  /\ pc = "aim" /\ Goto("aimed")
  /\ half' = count[Gauge(cmd.op)]
  /\ IF cmd.op \in Straight
     THEN deltaDist' = DeltaDist(cmd.amount) /\ UNCHANGED deltaTicks
     ELSE deltaTicks' = DeltaTicks(cmd.amount) /\ UNCHANGED deltaDist
  /\ UNCHANGED <<cmd, at, dir, newDist, targetTicks, pwm, count, history>>

\* ... load the rest of it and set the goal,
Aimed ==
  LET start == count[Gauge(cmd.op)] IN
  /\ pc = "aimed" /\ Goto("face")
  /\ IF cmd.op \in Straight
     THEN newDist' = Loaded(half, start) + deltaDist /\ UNCHANGED targetTicks
     ELSE targetTicks' = Loaded(half, start) + deltaTicks /\ UNCHANGED newDist
  /\ disturbed' = Carried(half, start)
  /\ UNCHANGED <<cmd, at, half, dir, deltaDist, deltaTicks, pwm, count,
                 moved, logged, mark, issued>>

\* ... and tell the interrupt handlers which counters to use from now on.
Face ==
  /\ pc = "face" /\ Goto("drive")
  /\ dir' = cmd.op /\ at' = 1
  /\ moved' = 0 /\ logged' = 0
  /\ UNCHANGED <<cmd, half, goal, pwm, count, mark, disturbed, issued>>

\* One analogWriteBareMetal() of a movement handler.
Drive ==
  LET pin == PinOrder[dir][at] IN
  /\ pc = "drive"
  /\ pwm' = [pwm EXCEPT ![pin] = Duty(dir, pin, cmd.speed)]
  /\ at' = at + 1
  /\ Goto(IF at = 4 THEN "check" ELSE "drive")
  /\ UNCHANGED <<cmd, half, dir, goal, count, history>>

\* One analogWriteBareMetal() of stop(): in handleCommand(), which then reads
\* the colour sensor, or in loop(), which after a turn clears its goal.
Halt ==
  /\ pc \in {"halt", "arrived", "turned"}
  /\ pwm' = [pwm EXCEPT ![PinOrder["STOP"][at]] = 0]
  /\ at' = at + 1
  /\ IF at < 4 THEN pc' = pc
     ELSE Goto(IF pc = "halt" THEN "check" ELSE "poll")
  /\ IF at = 4 /\ pc = "turned"
     THEN deltaTicks' = 0 /\ targetTicks' = 0
     ELSE UNCHANGED <<deltaTicks, targetTicks>>
  /\ UNCHANGED <<cmd, half, dir, deltaDist, newDist, count, history>>

\* One assignment of clearCounters(), for any argument of clearOneCounter().
Clear ==
  /\ pc = "clear"
  /\ count' = [count EXCEPT ![ClearOrder[at]] = 0]
  /\ at' = at + 1
  /\ Goto(IF at = Len(ClearOrder) THEN "check" ELSE "clear")
  /\ disturbed' = TRUE
  /\ UNCHANGED <<cmd, half, dir, goal, pwm, moved, logged, mark, issued>>

\* The tests of deltaDist, targetTicks and dir at the end of loop().
Armed == \/ dir \in Straight /\ deltaDist > 0
         \/ dir \in {"LEFT", "RIGHT"} /\ targetTicks > 0

Goal == IF dir \in Straight THEN newDist ELSE targetTicks

Check ==
  /\ pc = "check" /\ Armed
  /\ Goto("compare")
  /\ half' = count[Gauge(dir)] /\ mark' = logged
  /\ UNCHANGED <<cmd, at, dir, goal, pwm, count, moved, logged, disturbed,
                 issued>>

NoCheck ==
  /\ pc = "check" /\ ~Armed /\ dir # "STOP"
  /\ Goto("poll")
  /\ UNCHANGED <<cmd, at, half, dir, goal, pwm, count, history>>

\* Mutants: the comparison is off by one, either way.
Passed == Loaded(half, count[Gauge(dir)]) > Goal
Nearly == Loaded(half, count[Gauge(dir)]) + 1 >= Goal

Reached == Loaded(half, count[Gauge(dir)]) >= Goal

\* Mutant: a straight move is over without stop().
ArriveRolling ==
  /\ pc = "compare" /\ Reached
  /\ at' = 1
  /\ \/ /\ dir \in Straight /\ Goto("poll")
        /\ deltaDist' = 0 /\ newDist' = 0
     \/ /\ dir \notin Straight /\ Goto("turned")
        /\ UNCHANGED <<deltaDist, newDist>>
  /\ UNCHANGED <<cmd, half, dir, deltaTicks, targetTicks, pwm, count, history>>

\* loop() clears the goal of a straight move before stop(), of a turn after.
Arrive ==
  /\ pc = "compare" /\ Reached
  /\ at' = 1
  /\ \/ /\ dir \in Straight /\ Goto("arrived")
        /\ deltaDist' = 0 /\ newDist' = 0
     \/ /\ dir \notin Straight /\ Goto("turned")
        /\ UNCHANGED <<deltaDist, newDist>>
  /\ UNCHANGED <<cmd, half, dir, deltaTicks, targetTicks, pwm, count, history>>

GoOn ==
  /\ pc = "compare" /\ ~Reached
  /\ Goto("poll")
  /\ UNCHANGED <<cmd, at, half, dir, goal, pwm, count, history>>

\* Mutant: the Arduino sleeps whenever it has no move to watch.
Unwatched == ~Armed

\* The branch loop() has for dir = STOP with targetTicks > 0 is left out: no
\* state reaches it (SleepsOnlyAtRest).
Resting == dir = "STOP"

\* putArduinoToIdle(): the timers are shut down and the CPU sleeps.
Sleep ==
  /\ pc = "check" /\ Resting
  /\ Goto("asleep")
  /\ UNCHANGED <<cmd, at, half, dir, goal, pwm, count, history>>

\* Any interrupt wakes it: a byte from the Pi, or a wheel turned by hand.
Wake ==
  /\ pc = "asleep"
  /\ Goto("poll")
  /\ UNCHANGED <<cmd, at, half, dir, goal, pwm, count, history>>

Main == \/ NoCommand \/ (\E c \in Commands : Command(c))
        \/ Aim \/ Aimed \/ Face \/ Drive \/ Halt \/ Clear
        \/ Check \/ NoCheck \/ Arrive \/ GoOn \/ Sleep \/ Wake

-----------------------------------------------------------------------------
(* The encoder interrupts *)

\* The counter each handler increments in direction d, of those modelled.
LeftTicks(d)  == IF d = "RIGHT" THEN {"leftForwardTicksTurns"} ELSE {}
RightTicks(d) ==
  CASE d = "FORWARD"  -> {"rightForwardTicks"}
    [] d = "BACKWARD" -> {"rightReverseTicks"}
    [] d = "LEFT"     -> {"rightForwardTicksTurns"}
    [] OTHER          -> {}

\* Mutant: going backward the handlers count down.
IncrementSigned(ticks) ==
  /\ \A c \in ticks : count[c] < MaxTicks
  /\ count' = [c \in Counters |->
                 IF c \notin ticks THEN count[c]
                 ELSE IF dir = "BACKWARD" THEN count[c] - 1 ELSE count[c] + 1]
  /\ moved' = IF disturbed THEN moved ELSE moved + 1

Increment(ticks) ==
  /\ \A c \in ticks : count[c] < MaxTicks
  /\ count' = [c \in Counters |-> IF c \in ticks THEN count[c] + 1 ELSE count[c]]
  /\ moved' = IF disturbed THEN moved ELSE moved + 1

\* A straight move is measured by the right wheel, and its distance brought
\* up to date by the left one.
leftISR ==
  /\ \/ /\ dir = "FORWARD"
        /\ count' = [count EXCEPT !["forwardDist"] = Dist(count["rightForwardTicks"])]
        /\ logged' = moved /\ UNCHANGED moved
     \/ /\ dir = "BACKWARD"
        /\ count' = [count EXCEPT !["reverseDist"] = Dist(count["rightReverseTicks"])]
        /\ logged' = moved /\ UNCHANGED moved
     \/ /\ dir = "RIGHT"
        /\ Increment(LeftTicks(dir))
        /\ logged' = moved'
  /\ UNCHANGED <<program, dir, goal, pwm, mark, disturbed, issued>>

rightISR ==
  /\ RightTicks(dir) # {}
  /\ Increment(RightTicks(dir))
  /\ logged' = IF dir = "LEFT" THEN moved' ELSE logged
  /\ UNCHANGED <<program, dir, goal, pwm, mark, disturbed, issued>>

Next == Main \/ leftISR \/ rightISR

Spec == Init /\ [][Next]_vars

\* loop() runs for ever; a wheel that is driven turns, one that is not may.
LeftDriven  == pwm["LF"] > 0 \/ pwm["LR"] > 0
RightDriven == pwm["RF"] > 0 \/ pwm["RR"] > 0

Fairness == /\ WF_vars(Main)
            /\ WF_vars(LeftDriven /\ leftISR)
            /\ WF_vars(RightDriven /\ rightISR)

FairSpec == Spec /\ Fairness

-----------------------------------------------------------------------------
(* Properties *)

Labels == {"poll", "aim", "aimed", "face", "drive", "halt", "arrived",
           "turned", "clear", "check", "compare", "asleep"}

\* Every variable has its type; the counters are unsigned and never wrap.
TypeOK ==
  /\ pc \in Labels /\ at \in Nat \ {0} /\ half \in Nat
  /\ cmd \in [op : Directions \cup {"STOP", "CLEAR_STATS"},
               amount : Nat, speed : Nat]
  /\ dir \in Directions \cup {"STOP"}
  /\ deltaDist \in Nat /\ newDist \in Nat
  /\ deltaTicks \in Nat /\ targetTicks \in Nat
  /\ pwm \in [Pins -> Nat] /\ count \in [Counters -> Nat]
  /\ moved \in Nat /\ logged \in Nat /\ mark \in Nat
  /\ disturbed \in BOOLEAN /\ issued \in Nat

Driven(d) == {p \in Pins : Share(d)[p] > 0}

\* Between two handlers the motors are driven the way dir says, if at all:
\* no wheel is fed both ways, and the interrupt handlers, which go by dir,
\* count the wheels' ticks on the counters of the move being made.
DriveMatchesDir ==
  pc # "drive" => \A p \in Pins : pwm[p] > 0 => p \in Driven(dir)

\* Except while clearCounters() is under way the distances never exceed what
\* the right wheel's ticks make of them: an interrupt between two of its
\* assignments does not bring an old distance back.
DistanceFollowsTicks ==
  pc # "clear" =>
    /\ count["forwardDist"] <= Dist(count["rightForwardTicks"])
    /\ count["reverseDist"] <= Dist(count["rightReverseTicks"])

\* The CPU is put to sleep, its PWM timers off, only before the first move:
\* with every pin low and no goal for loop() to watch.
SleepsOnlyAtRest ==
  (pc \in {"check", "asleep"} /\ dir = "STOP") \/ pc = "asleep" =>
    /\ \A p \in Pins : pwm[p] = 0
    /\ deltaDist = 0 /\ targetTicks = 0

\* What a move still watched by loop() was told to cover.
Asked == IF dir \in Straight THEN deltaDist ELSE deltaTicks

Covered(d, ticks) == IF d \in Straight THEN Dist(ticks) ELSE ticks

\* When loop() lets a move go on, its measuring wheel had not covered what
\* the command asked for, unless the counters were cleared or its start was
\* misread: no interleaving of the encoders makes a move run over otherwise.
NoMissedStop ==
  [][(pc = "compare" /\ pc' = "poll" /\ ~disturbed)
       => Covered(dir, mark) < Asked]_vars

\* loop() ends a move by itself only when its counter is at the goal, unless
\* a tick carried into the next byte between the two loads of the counter.
NoEarlyStop ==
  [][(pc = "compare" /\ pc' \in {"arrived", "turned"})
       => count[Gauge(dir)] >= Goal \/ Carried(half, count[Gauge(dir)])]_vars

\* A move with a goal the wheels can reach ends with every motor off, by
\* loop() or by a STOP, unless another movement command takes its place: not
\* even clearing the counters half-way keeps it going.
Moving   == \E p \in Pins : pwm[p] > 0
Bounded  == Armed /\ Goal <= Covered(dir, MaxTicks)
Underway == pc \in {"poll", "check"} /\ Moving /\ Bounded
BoundedMoveStops ==
  \A n \in 0 .. MaxCommands :
    (Underway /\ issued = n)
      ~> (~Moving \/ (issued > n /\ cmd.op \in Directions))

-----------------------------------------------------------------------------
(* What the comments of the source say, and the code does not do *)

\* "Specifying a distance of 0 means Alex will continue moving forward
\* indefinitely": a command with an amount starts a move loop() watches.
OnlyZeroRunsForEver ==
  [][(pc = "drive" /\ pc' = "check" /\ cmd.amount > 0) => Armed]_vars

\* "speed is expressed as a percentage. E.g. 50 is turn left at half speed":
\* each wheel of a turn is driven at no less than the percentage asked for.
SpeedIsPercentage ==
  [][(pc = "drive" /\ pc' = "check" /\ dir \notin Straight)
       => \A p \in Driven(dir) : pwm'[p] >= pwmVal(cmd.speed)]_vars
=============================================================================

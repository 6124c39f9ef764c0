---------------------------- MODULE MotionProofs ----------------------------
(***************************************************************************)
(* What holds of Motion for every set of commands, every calibration of    *)
(* the wheels and every width of a counter's byte.                         *)
(***************************************************************************)
EXTENDS Motion, TLAPS

-----------------------------------------------------------------------------
(* The calculations *)

\* Distance never decreases with ticks.
LEMMA DistMonotone ==
  ASSUME NEW a \in Nat, NEW b \in Nat, a <= b
  PROVE  Dist(a) \in Nat /\ Dist(b) \in Nat /\ Dist(a) <= Dist(b)
<1>1. a * MilliPerTick \in Nat /\ b * MilliPerTick \in Nat
  BY ScalesAssumption
<1>2. a * MilliPerTick <= b * MilliPerTick
  BY ScalesAssumption
<1> QED
  BY <1>1, <1>2 DEF Dist

\* No ticks are no distance.
LEMMA DistZero == Dist(0) = 0
  BY ScalesAssumption DEF Dist

\* What forward(), reverse(), left() and right() add is never negative.
LEMMA DeltasAreNat ==
  ASSUME NEW n \in Nat
  PROVE  DeltaDist(n) \in Nat /\ DeltaTicks(n) \in Nat
<1>1. n * MilliPerDeg \in Nat
  BY ScalesAssumption
<1>2. computeDeltaTicks(n) \in Nat
  BY <1>1 DEF computeDeltaTicks
<1> QED
  BY <1>2 DEF DeltaDist, DeltaTicks

\* A counter loaded in two parts: its value, if no tick carried in between.
LEMMA LoadedInParts ==
  ASSUME NEW old \in Nat, NEW new \in Nat
  PROVE  /\ Loaded(old, new) \in Nat
         /\ ~Carried(old, new) => Loaded(old, new) = old
<1>1. /\ old \div Byte \in Nat /\ new \div Byte \in Nat /\ old % Byte \in Nat
      /\ old = Byte * (old \div Byte) + (old % Byte)
  BY ScalesAssumption
<1>2. Byte * (new \div Byte) \in Nat /\ Byte * (old \div Byte) \in Nat
  BY <1>1, ScalesAssumption
<1> QED
  BY <1>1, <1>2 DEF Loaded, Carried

\* A distance covered in two parts is no shorter than the parts: what the
\* truncation of each part drops may make one more centimetre.
LEMMA DistOfSum ==
  ASSUME NEW a \in Nat, NEW b \in Nat
  PROVE  /\ Dist(a) \in Nat /\ Dist(b) \in Nat /\ Dist(a + b) \in Nat
         /\ Dist(a) + Dist(b) <= Dist(a + b)
<1> DEFINE x == a * MilliPerTick
           y == b * MilliPerTick
<1>1. x \in Nat /\ y \in Nat
  BY ScalesAssumption
<1>2. (a + b) * MilliPerTick = x + y
  BY ScalesAssumption
<1>3. /\ x \div 1000 \in Nat /\ y \div 1000 \in Nat /\ (x + y) \div 1000 \in Nat
      /\ (x \div 1000) + (y \div 1000) <= (x + y) \div 1000
  <2> HIDE DEF x, y
  <2> QED
    BY <1>1
<1> QED
  BY <1>2, <1>3 DEF Dist

\* A counter that grew between its two loads is not read below its old value.
LEMMA LoadedNotBelow ==
  ASSUME NEW old \in Nat, NEW new \in Nat, old <= new
  PROVE  Loaded(old, new) \in Nat /\ old <= Loaded(old, new)
<1>1. /\ old \div Byte \in Nat /\ new \div Byte \in Nat /\ old % Byte \in Nat
      /\ old = Byte * (old \div Byte) + (old % Byte)
      /\ new = Byte * (new \div Byte) + (new % Byte)
      /\ new % Byte < Byte
  BY ScalesAssumption
<1>2. old \div Byte <= new \div Byte
  <2> DEFINE q == old \div Byte
             r == new \div Byte
  <2> SUFFICES ASSUME r < q
               PROVE  FALSE
    BY <1>1
  <2>1. q \in Nat /\ r \in Nat /\ r + 1 <= q
    BY <1>1
  <2>2. Byte * (r + 1) <= Byte * q
    <3> HIDE DEF q, r
    <3> QED
      BY <2>1, ScalesAssumption
  <2>3. Byte * (r + 1) = Byte * r + Byte
    <3> HIDE DEF q, r
    <3> QED
      BY <2>1, ScalesAssumption
  <2>4. Byte * r \in Nat /\ Byte * q \in Nat
    BY <2>1, ScalesAssumption
  <2> QED
    BY <1>1, <2>2, <2>3, <2>4, ScalesAssumption
<1>3. /\ Byte * (old \div Byte) \in Nat /\ Byte * (new \div Byte) \in Nat
      /\ Byte * (old \div Byte) <= Byte * (new \div Byte)
  BY <1>1, <1>2, ScalesAssumption
<1> QED
  BY <1>1, <1>3 DEF Loaded

\* Each handler drives two pins with a share of pwmVal(), and no others.
LEMMA Shares ==
  ASSUME NEW d \in Directions \cup {"STOP"}, NEW p \in Pins
  PROVE  Share(d)[p] \in Nat /\ (Share(d)[p] = 0 \/ p \in Driven(d))
<1>1. Share(d)[p] \in Nat
  BY DEF Share, Pins, Directions
<1> QED
  BY <1>1 DEF Driven

\* A pin that is not driven is written 0; every duty is a natural number.
LEMMA DutyIsNat ==
  ASSUME NEW d \in Directions \cup {"STOP"}, NEW p \in Pins, NEW s \in Nat
  PROVE  /\ Duty(d, p, s) \in Nat
         /\ p \notin Driven(d) => Duty(d, p, s) = 0
<1>1. pwmVal(s) \in Nat
  BY DEF pwmVal
<1>2. Share(d)[p] * pwmVal(s) \in Nat
  BY <1>1, Shares
<1>3. (Share(d)[p] * pwmVal(s)) \div 10 \in Nat
  BY <1>2
<1>4. p \notin Driven(d) => (Share(d)[p] * pwmVal(s)) \div 10 = 0
  BY <1>1, Shares
<1> QED
  BY <1>3, <1>4 DEF Duty, Register

\* Every handler writes every pin.
LEMMA Orders ==
  ASSUME NEW d \in Directions \cup {"STOP"}
  PROVE  /\ \A j \in 1 .. 4 : PinOrder[d][j] \in Pins
         /\ \A p \in Pins : \E j \in 1 .. 4 : PinOrder[d][j] = p
  BY DEF PinOrder, Pins, Directions

\* Every direction has a counter to be measured on.
LEMMA Gauges ==
  ASSUME NEW d \in Directions
  PROVE  Gauge(d) \in Counters
  BY DEF Gauge, Counters, Directions

\* clearCounters() clears every counter, each tick count before its distance.
LEMMA Clears ==
  /\ Len(ClearOrder) = 6
  /\ \A j \in 1 .. 6 : ClearOrder[j] \in Counters
  /\ ClearOrder[1] = "rightForwardTicks" /\ ClearOrder[4] = "rightReverseTicks"
  /\ ClearOrder[5] = "forwardDist" /\ ClearOrder[6] = "reverseDist"
  /\ \A j \in 1 .. 4 : ClearOrder[j] \notin {"forwardDist", "reverseDist"}
  /\ \A j \in 1 .. 6 : j # 1 => ClearOrder[j] # "rightForwardTicks"
  /\ \A j \in 1 .. 6 : j # 4 => ClearOrder[j] # "rightReverseTicks"
  BY DEF ClearOrder, Counters

-----------------------------------------------------------------------------
(* The inductive invariant *)

\* Where the main program is, and what its variables then hold.
Control ==
  /\ pc \in {"aim", "aimed", "face", "drive"} => cmd.op \in Directions
  /\ pc = "drive" => dir = cmd.op /\ at \in 1 .. 4
  /\ pc \in {"halt", "arrived", "turned"} => at \in 1 .. 4
  /\ pc = "clear" => at \in 1 .. 6
  /\ pc \in {"compare", "arrived", "turned"} => dir \in Directions

\* A movement handler has already written its first pins.
Written ==
  pc = "drive" =>
    \A j \in 1 .. 4 : j < at /\ PinOrder[dir][j] \notin Driven(dir)
                       => pwm[PinOrder[dir][j]] = 0

\* clearCounters() breaks the tie of a distance to its ticks when it clears
\* the ticks, and restores it when it clears the distance.
Distances ==
  /\ pc # "clear" \/ at \in {1, 6}
       => count["forwardDist"] <= Dist(count["rightForwardTicks"])
  /\ pc # "clear" \/ at \in 1 .. 4
       => count["reverseDist"] <= Dist(count["rightReverseTicks"])

\* Before the first move nothing is armed but by the move being set up.
Unarmed ==
  /\ dir = "STOP" => deltaDist = 0 \/ pc \in {"aimed", "face"}
  /\ dir = "STOP" => targetTicks = 0 \/ pc = "face"
  /\ pc = "asleep" => dir = "STOP"

\* A gauge only grows between the two loads loop() makes of it.
Sampled == pc = "compare" => half <= count[Gauge(dir)]

\* Where the goal of a move in direction d was counted from.
Start(d) == IF d \in Straight THEN newDist - deltaDist
                              ELSE targetTicks - deltaTicks

\* A handler counts the goal from what it loaded of the gauge, which the
\* interrupts of the move before may have brought up since.
Setting ==
  /\ pc \in {"aimed", "face"} => half <= count[Gauge(cmd.op)]
  /\ pc = "face" /\ ~disturbed => Start(cmd.op) = half

\* The ticks a straight move's distance is made from.
Behind(d) == IF d = "FORWARD" THEN "rightForwardTicks" ELSE "rightReverseTicks"

\* While a move is not disturbed its gauge holds at least the start of the
\* move and what the wheel had covered when the gauge was last brought up to
\* date; a straight move's gauge can be, for the ticks it is made from hold
\* at least the start and what the wheel has covered.
Followed ==
  dir \in Directions /\ pc \notin {"aimed", "face"} /\ ~disturbed =>
    /\ Start(dir) >= 0
    /\ Start(dir) + Covered(dir, logged) <= count[Gauge(dir)]
    /\ dir \in Straight => /\ moved <= count[Behind(dir)]
                           /\ Start(dir) <= Dist(count[Behind(dir)] - moved)
    /\ dir \notin Straight => logged = moved
    /\ pc = "compare" => Start(dir) + Covered(dir, mark) <= half

Inv == /\ TypeOK /\ Control /\ Written /\ DriveMatchesDir
       /\ Distances /\ Unarmed /\ Sampled /\ Setting /\ Followed

\* Every step keeps every type.
LEMMA TypeStep ==
  ASSUME TypeOK, Control, [Next]_vars
  PROVE  TypeOK'
<1> USE DEF TypeOK
<1>1. CASE NoCommand
  BY <1>1 DEF NoCommand, Goto, goal, history, Labels
<1>2. ASSUME NEW c \in Commands, Command(c)
      PROVE  TypeOK'
  <2>1. c \in [op : Directions \cup {"STOP", "CLEAR_STATS"}, amount : Nat, speed : Nat]
    BY CommandsAssumption
  <2>2. pc' \in Labels
    BY <1>2, <2>1 DEF Command, Goto, Labels
  <2> QED
    BY <1>2, <2>1, <2>2 DEF Command, goal
<1>3. CASE Aim
  <2>1. count[Gauge(cmd.op)] \in Nat
    BY <1>3, Gauges DEF Aim, Control
  <2>2. DeltaDist(cmd.amount) \in Nat /\ DeltaTicks(cmd.amount) \in Nat
    BY DeltasAreNat
  <2> QED
    BY <1>3, <2>1, <2>2 DEF Aim, Goto, history, Labels
<1>4. CASE Aimed
  <2>1. count[Gauge(cmd.op)] \in Nat
    BY <1>4, Gauges DEF Aimed, Control
  <2>2. Loaded(half, count[Gauge(cmd.op)]) \in Nat
    BY <2>1, LoadedInParts
  <2>3. Carried(half, count[Gauge(cmd.op)]) \in BOOLEAN
    BY DEF Carried
  <2> QED
    BY <1>4, <2>2, <2>3 DEF Aimed, Goto, Labels
<1>5. CASE Face
  BY <1>5 DEF Face, Control, Goto, goal, Labels
<1>6. CASE Drive
  <2>1. PinOrder[dir][at] \in Pins
    BY <1>6, Orders DEF Drive, Control
  <2>2. Duty(dir, PinOrder[dir][at], cmd.speed) \in Nat
    BY <1>6, <2>1, DutyIsNat DEF Drive, Control
  <2> QED
    BY <1>6, <2>1, <2>2 DEF Drive, Goto, goal, history, Labels
<1>7. CASE Halt
  <2>1. pwm' \in [Pins -> Nat]
    BY <1>7 DEF Halt
  <2>2. pc' \in Labels /\ deltaTicks' \in Nat /\ targetTicks' \in Nat /\ at' \in Nat \ {0}
    BY <1>7 DEF Halt, Goto, Labels
  <2> QED
    BY <1>7, <2>1, <2>2 DEF Halt, history
<1>8. CASE Clear
  <2>1. count' \in [Counters -> Nat]
    BY <1>8 DEF Clear
  <2>2. pc' \in Labels /\ at' \in Nat \ {0}
    BY <1>8 DEF Clear, Goto, Labels
  <2> QED
    BY <1>8, <2>1, <2>2 DEF Clear, goal
<1>9. CASE Check
  <2>1. dir \in Directions
    BY <1>9 DEF Check, Armed, Straight, Directions
  <2>2. count[Gauge(dir)] \in Nat
    BY <2>1, Gauges
  <2> QED
    BY <1>9, <2>2 DEF Check, Goto, goal, Labels
<1>10. CASE NoCheck \/ GoOn \/ Sleep \/ Wake
  BY <1>10 DEF NoCheck, GoOn, Sleep, Wake, Goto, goal, history, Labels
<1>11. CASE Arrive
  BY <1>11 DEF Arrive, Goto, history, Labels
<1>12. CASE leftISR
  <2>1. Dist(count["rightForwardTicks"]) \in Nat /\ Dist(count["rightReverseTicks"]) \in Nat
    BY DistMonotone DEF Counters
  <2>2. count' \in [Counters -> Nat] /\ moved' \in Nat /\ logged' \in Nat
    BY <1>12, <2>1 DEF leftISR, Increment, LeftTicks
  <2> QED
    BY <1>12, <2>2 DEF leftISR, program, goal
<1>13. CASE rightISR
  <2>1. count' \in [Counters -> Nat] /\ moved' \in Nat /\ logged' \in Nat
    BY <1>13 DEF rightISR, Increment
  <2> QED
    BY <1>13, <2>1 DEF rightISR, program, goal
<1>14. CASE UNCHANGED vars
  BY <1>14 DEF vars, program, goal, history
<1> QED
  BY <1>1, <1>2, <1>3, <1>4, <1>5, <1>6, <1>7, <1>8, <1>9, <1>10, <1>11, <1>12,
     <1>13, <1>14 DEF Next, Main

\* A handler runs for the command it was called for, in its direction.
LEMMA ControlStep ==
  ASSUME TypeOK, Control, [Next]_vars
  PROVE  Control'
<1> USE DEF Control
<1>1. CASE NoCommand \/ NoCheck \/ GoOn \/ Sleep \/ Wake
  BY <1>1 DEF NoCommand, NoCheck, GoOn, Sleep, Wake, Goto
<1>2. ASSUME NEW c \in Commands, Command(c)
      PROVE  Control'
  <2>1. c.op \in Directions \cup {"STOP", "CLEAR_STATS"}
    BY CommandsAssumption
  <2> QED
    BY <1>2, <2>1 DEF Command, Goto, Directions
<1>3. CASE Aim \/ Aimed \/ Face
  BY <1>3 DEF Aim, Aimed, Face, Goto
<1>4. CASE Drive
  BY <1>4 DEF Drive, Goto
<1>5. CASE Halt
  BY <1>5 DEF Halt, Goto
<1>6. CASE Clear
  BY <1>6, Clears DEF Clear, Goto
<1>7. CASE Check
  BY <1>7 DEF Check, Armed, Straight, Directions, Goto
<1>8. CASE Arrive
  BY <1>8 DEF Arrive, Goto
<1>9. CASE leftISR \/ rightISR \/ UNCHANGED vars
  BY <1>9 DEF leftISR, rightISR, vars, program
<1> QED
  BY <1>1, <1>2, <1>3, <1>4, <1>5, <1>6, <1>7, <1>8, <1>9 DEF Next, Main

\* The pins a handler has written so far hold what it wrote.
LEMMA WrittenStep ==
  ASSUME TypeOK, Control, Written, [Next]_vars
  PROVE  Written'
<1> USE DEF Written
<1>1. CASE Face
  BY <1>1 DEF Face
<1>2. CASE Drive
  <2> SUFFICES ASSUME pc' = "drive", NEW j \in 1 .. 4, j < at',
                      PinOrder[dir][j] \notin Driven(dir)
               PROVE  pwm'[PinOrder[dir][j]] = 0
    BY <1>2 DEF Drive
  <2>1. dir \in Directions /\ at \in 1 .. 4
    BY <1>2 DEF Drive, Control
  <2>2. PinOrder[dir][j] \in Pins /\ PinOrder[dir][at] \in Pins
    BY <2>1, Orders
  <2>3. /\ pwm' = [pwm EXCEPT ![PinOrder[dir][at]] = Duty(dir, PinOrder[dir][at], cmd.speed)]
        /\ at' = at + 1
    BY <1>2 DEF Drive
  <2>4. CASE PinOrder[dir][j] = PinOrder[dir][at]
    <3>1. Duty(dir, PinOrder[dir][at], cmd.speed) = 0
      BY <2>1, <2>2, <2>4, DutyIsNat DEF TypeOK
    <3> QED
      BY <2>2, <2>3, <2>4, <3>1 DEF TypeOK
  <2>5. CASE PinOrder[dir][j] # PinOrder[dir][at]
    <3>1. j < at
      BY <2>1, <2>3, <2>5
    <3>2. pwm[PinOrder[dir][j]] = 0
      BY <1>2, <3>1 DEF Drive
    <3> QED
      BY <2>2, <2>3, <2>5, <3>2 DEF TypeOK
  <2> QED
    BY <2>4, <2>5
<1>3. CASE leftISR \/ rightISR \/ UNCHANGED vars
  BY <1>3 DEF leftISR, rightISR, vars, program
<1>4. CASE Halt
  BY <1>4 DEF Halt, Goto
<1>5. CASE Clear
  BY <1>5 DEF Clear, Goto
<1>6. CASE NoCommand \/ (\E c \in Commands : Command(c)) \/ Aim \/ Aimed
  BY <1>6, CommandsAssumption DEF NoCommand, Command, Aim, Aimed, Goto
<1>7. CASE Check \/ NoCheck \/ Arrive \/ GoOn \/ Sleep \/ Wake
  BY <1>7 DEF Check, NoCheck, Arrive, GoOn, Sleep, Wake, Goto
<1> QED
  BY <1>1, <1>2, <1>3, <1>4, <1>5, <1>6, <1>7 DEF Next, Main

\* Outside the handlers the pins stay as dir says.
LEMMA DriveStep ==
  ASSUME TypeOK, Control, Written, DriveMatchesDir, [Next]_vars
  PROVE  DriveMatchesDir'
<1> USE DEF DriveMatchesDir
<1>1. CASE Face
  BY <1>1 DEF Face, Goto
<1>2. CASE Drive
  <2> SUFFICES ASSUME pc' # "drive", NEW p \in Pins, p \notin Driven(dir)
               PROVE  pwm'[p] = 0
    BY <1>2, DutyIsNat DEF Drive
  <2>1. dir \in Directions /\ at = 4
    BY <1>2 DEF Drive, Control, Goto
  <2>2. pwm' = [pwm EXCEPT ![PinOrder[dir][4]] = Duty(dir, PinOrder[dir][4], cmd.speed)]
    BY <1>2, <2>1 DEF Drive
  <2>3. PICK j \in 1 .. 4 : PinOrder[dir][j] = p
    BY <2>1, Orders
  <2>4. CASE PinOrder[dir][4] = p
    <3>1. Duty(dir, p, cmd.speed) = 0
      BY <2>1, DutyIsNat DEF TypeOK
    <3> QED
      BY <2>2, <2>4, <3>1 DEF TypeOK
  <2>5. CASE PinOrder[dir][4] # p
    <3>1. j < at
      BY <2>1, <2>3, <2>5
    <3>2. pwm[p] = 0
      BY <1>2, <2>3, <3>1 DEF Written, Drive
    <3> QED
      BY <2>2, <2>5, <3>2 DEF TypeOK
  <2> QED
    BY <2>4, <2>5
<1>3. CASE leftISR \/ rightISR \/ UNCHANGED vars
  BY <1>3 DEF leftISR, rightISR, vars, program
<1>4. CASE Halt
  <2>1. pc # "drive" /\ dir' = dir
    BY <1>4 DEF Halt
  <2>2. \A p \in Pins : pwm'[p] = pwm[p] \/ pwm'[p] = 0
    BY <1>4 DEF Halt, TypeOK
  <2> QED
    BY <2>1, <2>2
<1>5. CASE Clear
  BY <1>5 DEF Clear, Goto
<1>6. CASE NoCommand \/ (\E c \in Commands : Command(c)) \/ Aim \/ Aimed
  BY <1>6 DEF NoCommand, Command, Aim, Aimed
<1>7. CASE Check \/ NoCheck \/ Arrive \/ GoOn \/ Sleep \/ Wake
  BY <1>7 DEF Check, NoCheck, Arrive, GoOn, Sleep, Wake
<1> QED
  BY <1>1, <1>2, <1>3, <1>4, <1>5, <1>6, <1>7 DEF Next, Main

\* An interrupt leaves every counter where it was or brings it up, as long as
\* the distances do not run ahead of the ticks.
LEMMA InterruptsCountUp ==
  ASSUME TypeOK, leftISR \/ rightISR
  PROVE  /\ count["rightForwardTicks"] <= count'["rightForwardTicks"]
         /\ count["rightReverseTicks"] <= count'["rightReverseTicks"]
         /\ count["rightForwardTicksTurns"] <= count'["rightForwardTicksTurns"]
         /\ count["leftForwardTicksTurns"] <= count'["leftForwardTicksTurns"]
         /\ \/ count'["forwardDist"] = count["forwardDist"]
            \/ count'["forwardDist"] = Dist(count'["rightForwardTicks"])
         /\ \/ count'["reverseDist"] = count["reverseDist"]
            \/ count'["reverseDist"] = Dist(count'["rightReverseTicks"])
<1> USE DEF TypeOK, Counters
<1>1. CASE leftISR
  <2>1. CASE dir = "FORWARD" \/ dir = "BACKWARD"
    BY <1>1, <2>1 DEF leftISR
  <2>2. CASE dir = "RIGHT"
    BY <1>1, <2>2 DEF leftISR, Increment, LeftTicks
  <2> QED
    BY <1>1, <2>1, <2>2 DEF leftISR
<1>2. CASE rightISR
  BY <1>2 DEF rightISR, Increment, RightTicks
<1> QED
  BY <1>1, <1>2

\* The distances stay behind the ticks, through clearCounters() too.
LEMMA DistancesStep ==
  ASSUME TypeOK, Control, Distances, [Next]_vars, TypeOK'
  PROVE  Distances'
<1> USE DEF Distances
<1>1. CASE leftISR \/ rightISR
  <2>1. pc' = pc /\ at' = at
    BY <1>1 DEF leftISR, rightISR, program
  <2>2. /\ Dist(count["rightForwardTicks"]) \in Nat
        /\ Dist(count["rightForwardTicks"]) <= Dist(count'["rightForwardTicks"])
        /\ Dist(count'["rightForwardTicks"]) \in Nat
    BY <1>1, InterruptsCountUp, DistMonotone DEF TypeOK, Counters
  <2>3. /\ Dist(count["rightReverseTicks"]) \in Nat
        /\ Dist(count["rightReverseTicks"]) <= Dist(count'["rightReverseTicks"])
        /\ Dist(count'["rightReverseTicks"]) \in Nat
    BY <1>1, InterruptsCountUp, DistMonotone DEF TypeOK, Counters
  <2>4. count["forwardDist"] \in Nat /\ count["reverseDist"] \in Nat
    BY DEF TypeOK, Counters
  <2>5. (pc # "clear" \/ at \in {1, 6})
          => count'["forwardDist"] <= Dist(count'["rightForwardTicks"])
    BY <1>1, <2>2, <2>4, InterruptsCountUp
  <2>6. (pc # "clear" \/ at \in 1 .. 4)
          => count'["reverseDist"] <= Dist(count'["rightReverseTicks"])
    BY <1>1, <2>3, <2>4, InterruptsCountUp
  <2> QED
    BY <2>1, <2>5, <2>6
<1>2. CASE Clear
  <2>1. /\ at \in 1 .. 6 /\ at' = at + 1 /\ count' = [count EXCEPT ![ClearOrder[at]] = 0]
        /\ pc' = IF at = 6 THEN "check" ELSE "clear"
        /\ pc = "clear"
    BY <1>2, Clears DEF Clear, Control, Goto
  <2>2. /\ Dist(count["rightForwardTicks"]) \in Nat /\ Dist(count["rightReverseTicks"]) \in Nat
        /\ count["forwardDist"] \in Nat /\ count["reverseDist"] \in Nat
    BY DistMonotone DEF TypeOK, Counters
  <2>3. CASE at \in 1 .. 3
    <3>1. /\ count'["reverseDist"] = count["reverseDist"]
          /\ count'["rightReverseTicks"] = count["rightReverseTicks"]
      BY <2>1, <2>3, Clears DEF TypeOK, Counters
    <3>2. at' \in 2 .. 4 /\ pc' = "clear"
      BY <2>1, <2>3
    <3> QED
      BY <2>1, <2>3, <3>1, <3>2
  <2>4. CASE at = 4
    BY <2>1, <2>4
  <2>5. CASE at = 5
    <3>1. count'["forwardDist"] = 0 /\ Dist(count'["rightForwardTicks"]) \in Nat
      BY <2>1, <2>5, Clears, DistMonotone DEF TypeOK, Counters
    <3> QED
      BY <2>1, <2>5, <3>1
  <2>6. CASE at = 6
    <3>1. /\ count'["reverseDist"] = 0 /\ Dist(count'["rightReverseTicks"]) \in Nat
          /\ count'["forwardDist"] = count["forwardDist"]
          /\ count'["rightForwardTicks"] = count["rightForwardTicks"]
      BY <2>1, <2>6, Clears, DistMonotone DEF TypeOK, Counters
    <3> QED
      BY <2>1, <2>6, <3>1
  <2> QED
    BY <2>1, <2>3, <2>4, <2>5, <2>6
<1>3. ASSUME NEW c \in Commands, Command(c)
      PROVE  Distances'
  BY <1>3 DEF Command
<1>4. CASE Halt
  BY <1>4 DEF Halt, Goto
<1>5. CASE NoCommand \/ Aim \/ Aimed \/ Face \/ Drive
  BY <1>5 DEF NoCommand, Aim, Aimed, Face, Drive, Goto
<1>6. CASE Check \/ NoCheck \/ Arrive \/ GoOn \/ Sleep \/ Wake
  BY <1>6 DEF Check, NoCheck, Arrive, GoOn, Sleep, Wake, Goto
<1>7. CASE UNCHANGED vars
  BY <1>7 DEF vars, program
<1> QED
  BY <1>1, <1>2, <1>3, <1>4, <1>5, <1>6, <1>7 DEF Next, Main

\* Before the first move there is no goal.
LEMMA UnarmedStep ==
  ASSUME TypeOK, Control, Unarmed, [Next]_vars
  PROVE  Unarmed'
<1> USE DEF Unarmed
<1>1. CASE NoCommand \/ NoCheck \/ GoOn \/ Sleep \/ Wake \/ Check
  BY <1>1 DEF NoCommand, NoCheck, GoOn, Sleep, Wake, Check, Resting, Goto, goal
<1>2. ASSUME NEW c \in Commands, Command(c)
      PROVE  Unarmed'
  BY <1>2, CommandsAssumption DEF Command, Goto, goal, Directions
<1>3. CASE Aim \/ Aimed
  BY <1>3 DEF Aim, Aimed, Goto
<1>4. CASE Face
  BY <1>4 DEF Face, Goto, Control, Directions
<1>5. CASE Drive \/ Clear
  BY <1>5 DEF Drive, Clear, Goto, goal
<1>6. CASE Halt
  BY <1>6 DEF Halt, Goto
<1>7. CASE Arrive
  BY <1>7 DEF Arrive, Goto, Straight, Control
<1>8. CASE leftISR \/ rightISR \/ UNCHANGED vars
  BY <1>8 DEF leftISR, rightISR, vars, program, goal
<1> QED
  BY <1>1, <1>2, <1>3, <1>4, <1>5, <1>6, <1>7, <1>8 DEF Next, Main

\* An interrupt never takes a gauge back.
LEMMA GaugesCountUp ==
  ASSUME TypeOK, Distances, pc # "clear", leftISR \/ rightISR, TypeOK',
         NEW d \in Directions
  PROVE  /\ count[Gauge(d)] \in Nat /\ count'[Gauge(d)] \in Nat
         /\ count[Gauge(d)] <= count'[Gauge(d)]
<1>1. \A c \in Counters : count[c] \in Nat /\ count'[c] \in Nat
  BY DEF TypeOK
<1>2. /\ Dist(count["rightForwardTicks"]) <= Dist(count'["rightForwardTicks"])
      /\ Dist(count["rightReverseTicks"]) <= Dist(count'["rightReverseTicks"])
      /\ Dist(count["rightForwardTicks"]) \in Nat /\ Dist(count'["rightForwardTicks"]) \in Nat
      /\ Dist(count["rightReverseTicks"]) \in Nat /\ Dist(count'["rightReverseTicks"]) \in Nat
  BY <1>1, InterruptsCountUp, DistMonotone DEF Counters
<1>3. /\ count["forwardDist"] <= Dist(count["rightForwardTicks"])
      /\ count["reverseDist"] <= Dist(count["rightReverseTicks"])
  BY DEF Distances
<1>4. CASE d = "FORWARD"
  BY <1>1, <1>2, <1>3, <1>4, InterruptsCountUp DEF Gauge, Counters
<1>5. CASE d = "BACKWARD"
  BY <1>1, <1>2, <1>3, <1>5, InterruptsCountUp DEF Gauge, Counters
<1>6. CASE d = "LEFT" \/ d = "RIGHT"
  BY <1>1, <1>6, InterruptsCountUp DEF Gauge, Counters
<1> QED
  BY <1>4, <1>5, <1>6 DEF Directions

\* What the first load of a counter saw stays behind the counter.
LEMMA SampledStep ==
  ASSUME TypeOK, Control, Distances, Sampled, [Next]_vars, TypeOK'
  PROVE  Sampled'
<1> USE DEF Sampled
<1>1. CASE Check
  BY <1>1, Gauges DEF Check, Armed, Straight, Directions, TypeOK
<1>2. CASE leftISR \/ rightISR
  <2> SUFFICES ASSUME pc = "compare"
               PROVE  half <= count'[Gauge(dir)]
    BY <1>2 DEF leftISR, rightISR, program
  <2>1. half \in Nat /\ half <= count[Gauge(dir)] /\ dir \in Directions
    BY DEF TypeOK, Control
  <2> QED
    BY <1>2, <2>1, GaugesCountUp
<1>3. ASSUME NEW c \in Commands, Command(c)
      PROVE  Sampled'
  BY <1>3, CommandsAssumption DEF Command, Goto, Directions
<1>4. CASE NoCommand \/ Aim \/ Aimed \/ Face \/ Drive \/ Clear
  BY <1>4 DEF NoCommand, Aim, Aimed, Face, Drive, Clear, Goto
<1>5. CASE Halt
  BY <1>5 DEF Halt, Goto
<1>6. CASE NoCheck \/ Arrive \/ GoOn \/ Sleep \/ Wake
  BY <1>6 DEF NoCheck, Arrive, GoOn, Sleep, Wake, Goto
<1>7. CASE UNCHANGED vars
  BY <1>7 DEF vars, program
<1> QED
  BY <1>1, <1>2, <1>3, <1>4, <1>5, <1>6, <1>7 DEF Next, Main

\* A goal is counted from what was loaded, unless a tick carried.
LEMMA SettingStep ==
  ASSUME TypeOK, Control, Distances, Setting, [Next]_vars, TypeOK'
  PROVE  Setting'
<1> USE DEF Setting
<1>1. CASE Aim
  BY <1>1, Gauges DEF Aim, Goto, Control, TypeOK
<1>2. CASE Aimed
  <2>1. cmd.op \in Directions /\ half \in Nat /\ count[Gauge(cmd.op)] \in Nat
    BY <1>2, Gauges DEF Aimed, Control, TypeOK
  <2>2. /\ half <= count[Gauge(cmd.op)] /\ pc' = "face"
        /\ UNCHANGED <<half, count, cmd, deltaDist, deltaTicks>>
        /\ disturbed' = Carried(half, count[Gauge(cmd.op)])
    BY <1>2 DEF Aimed, Goto
  <2>3. ~disturbed' => Loaded(half, count[Gauge(cmd.op)]) = half
    BY <2>1, <2>2, LoadedInParts
  <2>4. ~disturbed' => Start(cmd.op)' = half
    <3>1. CASE cmd.op \in Straight
      BY <1>2, <2>1, <2>2, <2>3, <3>1 DEF Aimed, Start, TypeOK
    <3>2. CASE cmd.op \notin Straight
      BY <1>2, <2>1, <2>2, <2>3, <3>2 DEF Aimed, Start, TypeOK
    <3> QED
      BY <3>1, <3>2
  <2> QED
    BY <2>2, <2>4
<1>3. CASE leftISR \/ rightISR
  <2>1. UNCHANGED <<pc, cmd, half, disturbed>> /\ UNCHANGED goal
    BY <1>3 DEF leftISR, rightISR, program
  <2>2. Start(cmd.op)' = Start(cmd.op)
    BY <2>1 DEF Start, goal
  <2>3. pc \in {"aimed", "face"} => half <= count'[Gauge(cmd.op)]
    BY <1>3, GaugesCountUp DEF Control, TypeOK
  <2> QED
    BY <2>1, <2>2, <2>3
<1>4. ASSUME NEW c \in Commands, Command(c)
      PROVE  Setting'
  BY <1>4, CommandsAssumption DEF Command, Goto, Directions
<1>5. CASE NoCommand \/ Face \/ Drive \/ Clear
  BY <1>5 DEF NoCommand, Face, Drive, Clear, Goto
<1>6. CASE Halt
  BY <1>6 DEF Halt, Goto
<1>7. CASE Check \/ NoCheck \/ Arrive \/ GoOn \/ Sleep \/ Wake
  BY <1>7 DEF Check, NoCheck, Arrive, GoOn, Sleep, Wake, Goto
<1>8. CASE UNCHANGED vars
  BY <1>8 DEF vars, program, goal, history, Start
<1> QED
  BY <1>1, <1>2, <1>3, <1>4, <1>5, <1>6, <1>7, <1>8 DEF Next, Main

\* The encoder interrupts of an undisturbed move keep its gauge up.
LEMMA FollowedInterrupt ==
  ASSUME TypeOK, Control, Distances, Followed, leftISR \/ rightISR, TypeOK',
         dir \in Directions, pc \notin {"aimed", "face"}, ~disturbed
  PROVE  Followed'
<1>1. /\ UNCHANGED <<pc, dir, half, mark, disturbed>>
      /\ Start(dir)' = Start(dir)
  BY DEF leftISR, rightISR, program, goal, Start
<1>2. /\ moved \in Nat /\ logged \in Nat /\ mark \in Nat
      /\ moved' \in Nat /\ logged' \in Nat
      /\ Start(dir) \in Int /\ Start(dir) >= 0
      /\ Start(dir) + Covered(dir, logged) <= count[Gauge(dir)]
      /\ pc = "compare" => Start(dir) + Covered(dir, mark) <= half
  BY DEF TypeOK, Followed, Start
<1>3. \A c \in Counters : count[c] \in Nat /\ count'[c] \in Nat
  BY DEF TypeOK
<1>4. CASE dir \in Straight
  <2> DEFINE g == Gauge(dir)
             t == Behind(dir)
             r == count[t] - moved
  <2>1. g \in Counters /\ t \in Counters /\ g # t
    BY <1>4 DEF Straight, Gauge, Behind, Counters
  <2>2. moved <= count[t] /\ r \in Nat /\ Start(dir) <= Dist(r)
    BY <1>2, <1>3, <1>4, <2>1 DEF Followed
  <2>3. CASE leftISR
    <3>1. count' = [count EXCEPT ![g] = Dist(count[t])] /\ moved' = moved /\ logged' = moved
      BY <1>4, <2>3 DEF leftISR, Straight, Gauge, Behind
    <3>2. Dist(r) + Dist(moved) <= Dist(r + moved) /\ Dist(r) \in Nat /\ Dist(moved) \in Nat
      BY <1>2, <2>2, DistOfSum
    <3>3. count'[g] = Dist(count[t]) /\ count'[t] = count[t]
      BY <2>1, <3>1 DEF TypeOK
    <3>4. r + moved = count[t]
      BY <1>2, <1>3, <2>1
    <3>5. Start(dir) + Dist(moved) <= count'[g]
      BY <1>2, <1>3, <2>1, <2>2, <3>2, <3>3, <3>4
    <3> HIDE DEF g, t, r
    <3>6. /\ moved' <= count'[t]
          /\ count'[t] - moved' = r
      BY <2>2, <3>1, <3>3 DEF r
    <3>7. Start(dir) + Covered(dir, logged') <= count'[g]
      BY <1>4, <3>1, <3>5 DEF Covered
    <3> QED
      BY <1>1, <1>2, <1>4, <2>2, <3>6, <3>7 DEF Followed, g, t
  <2>4. CASE rightISR
    <3>1. count'[t] = count[t] + 1 /\ count'[g] = count[g] /\ moved' = moved + 1 /\ logged' = logged
      BY <1>4, <2>1, <2>4 DEF rightISR, Increment, RightTicks, Straight, Gauge, Behind, Counters
    <3>2. /\ moved' <= count'[t]
          /\ count'[t] - moved' = r
      BY <1>2, <1>3, <2>1, <2>2, <3>1
    <3> HIDE DEF g, t, r
    <3>3. Start(dir) + Covered(dir, logged') <= count'[g]
      BY <1>2, <3>1 DEF g
    <3> QED
      BY <1>1, <1>2, <1>4, <2>2, <3>2, <3>3 DEF Followed, g, t
  <2> QED
    BY <2>3, <2>4
<1>5. CASE dir = "LEFT" \/ dir = "RIGHT"
  <2>1. Gauge(dir) \in Counters /\ logged = moved /\ dir \notin Straight
    BY <1>5, Gauges DEF Followed, Straight
  <2>2. /\ count'[Gauge(dir)] = count[Gauge(dir)] + 1
        /\ moved' = moved + 1 /\ logged' = moved'
    BY <1>5, <2>1 DEF leftISR, rightISR, Increment, LeftTicks, RightTicks, Gauge
  <2>3. Start(dir) + Covered(dir, logged') <= count'[Gauge(dir)]
    BY <1>2, <1>3, <2>1, <2>2 DEF Covered
  <2> QED
    BY <1>1, <1>2, <2>1, <2>2, <2>3 DEF Followed
<1> QED
  BY <1>4, <1>5 DEF Directions, Straight

\* A goal that is cleared leaves the move to be counted from nothing.
LEMMA FollowedFromZero ==
  ASSUME TypeOK, Followed, dir \in Directions, pc \notin {"aimed", "face"}, ~disturbed
  PROVE  /\ 0 + Covered(dir, logged) <= count[Gauge(dir)]
         /\ dir \in Straight => 0 <= Dist(count[Behind(dir)] - moved)
<1>1. Start(dir) \in Int /\ count[Gauge(dir)] \in Nat /\ logged \in Nat /\ moved \in Nat
  BY Gauges DEF Start, TypeOK
<1>2. Covered(dir, logged) \in Nat
  BY <1>1, DistMonotone DEF Covered
<1>3. dir \in Straight => Dist(count[Behind(dir)] - moved) \in Nat
  <2> SUFFICES ASSUME dir \in Straight
               PROVE  Dist(count[Behind(dir)] - moved) \in Nat
    OBVIOUS
  <2>1. count[Behind(dir)] \in Nat
    BY DEF Behind, TypeOK, Counters
  <2>2. count[Behind(dir)] - moved \in Nat
    BY <1>1, <2>1 DEF Followed
  <2> QED
    BY <2>2, DistMonotone
<1> QED
  BY <1>1, <1>2, <1>3 DEF Followed

\* A move starts with its gauge at or past the start it is counted from, and
\* keeps up with its wheel until it is disturbed or another move begins.
LEMMA FollowedStep ==
  ASSUME TypeOK, Control, Distances, Setting, Followed, [Next]_vars, TypeOK'
  PROVE  Followed'
<1>1. CASE Face
  <2>1. /\ cmd.op \in Directions /\ dir' = cmd.op /\ pc' = "drive"
        /\ moved' = 0 /\ logged' = 0
        /\ UNCHANGED <<cmd, half, count, disturbed>> /\ Start(cmd.op)' = Start(cmd.op)
    BY <1>1 DEF Face, Control, Goto, goal, Start
  <2> SUFFICES ASSUME ~disturbed
               PROVE  Followed'
    BY <2>1 DEF Followed
  <2>2. Start(cmd.op) = half /\ half <= count[Gauge(cmd.op)] /\ half \in Nat
    BY <1>1 DEF Face, Setting, TypeOK
  <2>3. Start(dir)' = half
    BY <2>1, <2>2 DEF Start
  <2>4. Covered(cmd.op, 0) = 0
    BY DistZero DEF Covered
  <2>5. Gauge(cmd.op) \in Counters /\ count[Gauge(cmd.op)] \in Nat
    BY <2>1, Gauges DEF TypeOK
  <2>6. cmd.op \in Straight =>
          /\ count[Behind(cmd.op)] \in Nat
          /\ count[Gauge(cmd.op)] <= Dist(count[Behind(cmd.op)])
          /\ Dist(count[Behind(cmd.op)]) \in Nat
    <3>1. count["rightForwardTicks"] \in Nat /\ count["rightReverseTicks"] \in Nat
      BY DEF TypeOK, Counters
    <3>2. Dist(count["rightForwardTicks"]) \in Nat /\ Dist(count["rightReverseTicks"]) \in Nat
      BY <3>1, DistMonotone
    <3> QED
      BY <1>1, <3>1, <3>2 DEF Face, Distances, Straight, Gauge, Behind
  <2> QED
    BY <2>1, <2>2, <2>3, <2>4, <2>5, <2>6 DEF Followed
<1>2. CASE leftISR \/ rightISR
  <2>1. CASE dir \in Directions /\ pc \notin {"aimed", "face"} /\ ~disturbed
    BY <1>2, <2>1, FollowedInterrupt
  <2>2. CASE ~(dir \in Directions /\ pc \notin {"aimed", "face"} /\ ~disturbed)
    BY <1>2, <2>2 DEF leftISR, rightISR, program, Followed
  <2> QED
    BY <2>1, <2>2
<1>3. CASE Check
  <2>1. /\ half' = count[Gauge(dir)] /\ mark' = logged
        /\ UNCHANGED <<dir, count, moved, logged, disturbed>>
        /\ Start(dir)' = Start(dir) /\ pc = "check"
    BY <1>3 DEF Check, goal, Start
  <2> QED
    BY <2>1 DEF Followed
<1>4. CASE Clear \/ Aim \/ Aimed
  BY <1>4 DEF Clear, Aim, Aimed, Goto, Followed
<1>5. CASE Halt
  <2>1. /\ UNCHANGED <<dir, count, moved, logged, disturbed>>
        /\ pc \notin {"aimed", "face"} /\ pc' # "compare"
    BY <1>5 DEF Halt, Goto, history
  <2>2. Start(dir)' = Start(dir) \/ Start(dir)' = 0
    BY <1>5 DEF Halt, Start
  <2> QED
    BY <2>1, <2>2, FollowedFromZero DEF Followed
<1>6. CASE Arrive
  <2>1. /\ UNCHANGED <<dir, count, moved, logged, disturbed>>
        /\ pc \notin {"aimed", "face"} /\ pc' # "compare"
    BY <1>6 DEF Arrive, Goto, history
  <2>2. Start(dir)' = Start(dir) \/ Start(dir)' = 0
    BY <1>6 DEF Arrive, Start
  <2> QED
    BY <2>1, <2>2, FollowedFromZero DEF Followed
<1>7. ASSUME NEW c \in Commands, Command(c)
      PROVE  Followed'
  <2>1. /\ UNCHANGED <<dir, count, moved, logged, disturbed>>
        /\ pc \notin {"aimed", "face"} /\ pc' # "compare"
        /\ Start(dir)' = Start(dir)
    BY <1>7, CommandsAssumption DEF Command, Goto, goal, Start, Directions
  <2> QED
    BY <2>1 DEF Followed
<1>8. CASE NoCommand \/ Drive \/ NoCheck \/ GoOn \/ Sleep \/ Wake
  <2>1. /\ UNCHANGED <<dir, count, moved, logged, disturbed>>
        /\ pc \notin {"aimed", "face"} /\ pc' # "compare"
        /\ Start(dir)' = Start(dir)
    BY <1>8 DEF NoCommand, Drive, NoCheck, GoOn, Sleep, Wake, Goto, goal, history, Start
  <2> QED
    BY <2>1 DEF Followed
<1>9. CASE UNCHANGED vars
  BY <1>9 DEF vars, program, goal, history, Start, Followed
<1> QED
  BY <1>1, <1>2, <1>3, <1>4, <1>5, <1>6, <1>7, <1>8, <1>9 DEF Next, Main

\* The invariant holds at reset.
LEMMA InvInit == Init => Inv
<1> SUFFICES ASSUME Init
             PROVE  Inv
  OBVIOUS
<1>1. TypeOK
  <2>1. /\ pc \in Labels /\ at \in Nat \ {0} /\ half \in Nat
        /\ cmd \in [op : Directions \cup {"STOP", "CLEAR_STATS"},
                    amount : Nat, speed : Nat]
        /\ dir \in Directions \cup {"STOP"}
    BY DEF Init, Labels
  <2>2. pwm \in [Pins -> Nat] /\ count \in [Counters -> Nat]
    BY DEF Init
  <2> QED
    BY <2>1, <2>2 DEF Init, TypeOK
<1>2. Control /\ Written /\ DriveMatchesDir /\ Unarmed /\ Sampled
  BY DEF Init, Control, Written, DriveMatchesDir, Unarmed, Sampled
<1>4. Setting /\ Followed
  BY DEF Init, Setting, Followed, Directions
<1>3. Distances
  BY DistZero DEF Init, Distances, Counters
<1> QED
  BY <1>1, <1>2, <1>3, <1>4 DEF Inv

\* Every step of the main program and of the interrupts preserves it.
LEMMA InvStep ==
  ASSUME Inv, [Next]_vars
  PROVE  Inv'
<1>1. TypeOK'
  BY TypeStep DEF Inv
<1> QED
  BY <1>1, ControlStep, WrittenStep, DriveStep, DistancesStep, UnarmedStep,
     SampledStep, SettingStep, FollowedStep DEF Inv

\* So it always holds.
LEMMA Invariance == Spec => []Inv
  BY InvInit, InvStep, PTL DEF Spec

-----------------------------------------------------------------------------
(* Results *)

\* Every variable of the firmware keeps its type: no step of a handler writes
\* a pin or clears a counter that does not exist.
THEOREM TypeCorrect == Spec => []TypeOK
<1>1. Inv => TypeOK
  BY DEF Inv
<1> QED
  BY <1>1, Invariance, PTL

\* For every command and speed, no wheel is left fed both ways, and the
\* motors run the way the interrupt handlers believe they do.
THEOREM MotorsMatchDir == Spec => []DriveMatchesDir
<1>1. Inv => DriveMatchesDir
  BY DEF Inv
<1> QED
  BY <1>1, Invariance, PTL

\* For every calibration of the encoders, clearing the counters one by one
\* with the interrupts enabled leaves no distance ahead of its ticks.
THEOREM DistancesNeverAhead == Spec => []DistanceFollowsTicks
<1>1. Inv => DistanceFollowsTicks
  BY DEF Inv, Distances, DistanceFollowsTicks
<1> QED
  BY <1>1, Invariance, PTL

\* The CPU is never put to sleep with a motor running or a goal armed.
THEOREM NoSleepInMotion == Spec => []SleepsOnlyAtRest
<1>1. Inv => SleepsOnlyAtRest
  <2> SUFFICES ASSUME Inv, (pc \in {"check", "asleep"} /\ dir = "STOP") \/ pc = "asleep"
               PROVE  /\ \A p \in Pins : pwm[p] = 0
                      /\ deltaDist = 0 /\ targetTicks = 0
    BY DEF SleepsOnlyAtRest
  <2>1. dir = "STOP" /\ pc \in {"check", "asleep"} /\ deltaDist = 0 /\ targetTicks = 0
    BY DEF Inv, Unarmed
  <2>2. Driven("STOP") = {}
    BY DEF Driven, Share, Pins
  <2>3. \A p \in Pins : pwm[p] = 0
    BY <2>1, <2>2 DEF Inv, DriveMatchesDir, TypeOK
  <2> QED
    BY <2>1, <2>3
<1> QED
  BY <1>1, Invariance, PTL

\* loop() never ends a move before its counter is at the goal unless a tick
\* carried between the two loads of the counter, for every width of a byte.
THEOREM StopsAtGoal == Spec => NoEarlyStop
<1>1. ASSUME Inv, [Next]_vars
      PROVE  [(pc = "compare" /\ pc' \in {"arrived", "turned"})
                => count[Gauge(dir)] >= Goal \/ Carried(half, count[Gauge(dir)])]_vars
  <2> SUFFICES ASSUME pc = "compare", pc' \in {"arrived", "turned"},
                      ~Carried(half, count[Gauge(dir)])
               PROVE  count[Gauge(dir)] >= Goal
    OBVIOUS
  <2>1. Arrive
    BY <1>1 DEF Next, Main, NoCommand, Command, Aim, Aimed, Face, Drive, Halt,
                Clear, Check, NoCheck, GoOn, Sleep, Wake, leftISR, rightISR,
                vars, program, Goto
  <2>2. Loaded(half, count[Gauge(dir)]) >= Goal
    BY <2>1 DEF Arrive, Reached
  <2>3. half \in Nat /\ count[Gauge(dir)] \in Nat /\ Goal \in Nat
    BY <1>1, Gauges DEF Inv, TypeOK, Control, Goal
  <2>4. Loaded(half, count[Gauge(dir)]) = half
    BY <2>3, LoadedInParts
  <2>5. half <= count[Gauge(dir)]
    BY <1>1 DEF Inv, Sampled
  <2> QED
    BY <2>2, <2>3, <2>4, <2>5
<1> QED
  BY <1>1, Invariance, PTL DEF Spec, NoEarlyStop

\* loop() never lets a move go on whose wheel had covered what the command
\* asked for when the counter was loaded, however the interrupts fall between
\* the loads, the handlers' assignments and the comparison; only a cleared
\* counter or a start misread by a carry can make it run over.
THEOREM StopNotMissed == Spec => NoMissedStop
<1>1. ASSUME Inv, [Next]_vars
      PROVE  [(pc = "compare" /\ pc' = "poll" /\ ~disturbed)
                => Covered(dir, mark) < Asked]_vars
  <2> SUFFICES ASSUME pc = "compare", pc' = "poll", ~disturbed
               PROVE  Covered(dir, mark) < Asked
    OBVIOUS
  <2>1. GoOn
    BY <1>1 DEF Next, Main, NoCommand, Command, Aim, Aimed, Face, Drive, Halt,
                Clear, Check, NoCheck, Arrive, Sleep, Wake, leftISR, rightISR,
                vars, program, Goto
  <2>2. dir \in Directions /\ half \in Nat /\ count[Gauge(dir)] \in Nat
    BY <1>1, Gauges DEF Inv, TypeOK, Control
  <2>3. half <= Loaded(half, count[Gauge(dir)]) /\ Loaded(half, count[Gauge(dir)]) \in Nat
    BY <1>1, <2>2, LoadedNotBelow DEF Inv, Sampled
  <2>4. Goal \in Nat /\ Asked \in Nat /\ Start(dir) = Goal - Asked
    BY <1>1 DEF Inv, TypeOK, Goal, Asked, Start
  <2>5. Loaded(half, count[Gauge(dir)]) < Goal
    BY <2>1, <2>3, <2>4 DEF GoOn, Reached
  <2>6. Start(dir) + Covered(dir, mark) <= half
    BY <1>1, <2>2 DEF Inv, Followed
  <2>7. Covered(dir, mark) \in Nat
    BY <1>1, DistMonotone DEF Inv, TypeOK, Covered
  <2> QED
    BY <2>2, <2>3, <2>4, <2>5, <2>6, <2>7
<1> QED
  BY <1>1, Invariance, PTL DEF Spec, NoMissedStop
=============================================================================

---------------------------- MODULE ClientProofs ----------------------------
(***************************************************************************)
(* What holds of Client however many keys are pressed and answers sent.    *)
(***************************************************************************)
EXTENDS Client, TLAPS

\* The threads run once the loop has started them, and each sets _exitFlag
\* before it frees the session.
Started ==
  /\ rpc # "none" => lpc \in {"wait", "free", "done"}
  /\ wpc # "none" => lpc \in {"reader", "wait", "free", "done"}
  /\ lpc \in {"free", "done"} => exitFlag
  /\ rpc \in {"exit", "done"} => exitFlag
  /\ wpc \in {"exit", "done"} => exitFlag

\* The session is live from connectSSL() until a thread has set _exitFlag or
\* the certificate is refused.
LiveUntilEnd ==
  /\ lpc \notin {"resolve", "connect"} /\ ~exitFlag /\ ~refused
       => session = "live"
  /\ lpc = "resolve" /\ ~exited => ~misused
  /\ MisusedOnlyAtEnd

\* The reader finds the end of the connection only where there is one.
Watching ==
  /\ lpc \in {"resolve", "connect"} => peer = "away"
  /\ rpc = "set" /\ len = "end" => peer = "closed" \/ misused
  /\ WatcherStaysConnected

\* A test of the reader that is about to go wrong has a store of the writer to
\* itself.
OneStoreEach ==
  /\ ShownAsRead
  /\ rpc = "show" /\ len = "end" /\ networkActive => repeated + 1 <= raised
  /\ rpc = "show" /\ len = "data" /\ ~networkActive => dropped + 1 <= lowered

\* The inductive invariant.
IInv == TypeOK /\ Started /\ LiveUntilEnd /\ Watching /\ OneStoreEach

-----------------------------------------------------------------------------
(* The parts of the invariant, one after the other. *)

\* Every step keeps the types.
LEMMA TypeStep == TypeOK /\ [Next]_vars => TypeOK'
<1> SUFFICES ASSUME TypeOK, [Next]_vars PROVE TypeOK'
  OBVIOUS
<1> USE BoundsAssumption
    DEF vars, outside, loop, reader, writer, flags, At, ReaderAt, WriterAt
<1>1. misused' \in BOOLEAN
  <2>1. (misused \/ session # "live") \in BOOLEAN
    OBVIOUS
  <2>2. (misused' = misused) \/ Use
    BY DEF Next, Answer, CloseConnection, Interrupt, Main, Loop, Resolve,
           HostUnknown, Connect, ConnectFails, Verified, Refused, StartWriter,
           StartReader, Close, LoopFree, Reader, ReaderTest, Read, ReaderSet,
           Show, ReaderStop, ReaderExit, Key, Sending, IfActive, Write,
           WriterSet, WriterStop, WriterExit, Free
  <2> QED
    BY <2>1, <2>2 DEF Use, TypeOK
<1>2. CASE Answer \/ CloseConnection
  BY <1>1, <1>2 DEF TypeOK, Answer, CloseConnection
<1>3. CASE Interrupt \/ Main
  BY <1>1, <1>3 DEF TypeOK, Interrupt, Main
<1>4. CASE Loop
  BY <1>1, <1>4 DEF TypeOK, Loop, Resolve, HostUnknown, Connect, ConnectFails,
    Verified, Refused, StartWriter, StartReader, Close, LoopFree, Free
<1>5. CASE ReaderTest \/ ReaderStop \/ ReaderExit
  BY <1>1, <1>5 DEF TypeOK, ReaderTest, ReaderStop, ReaderExit, Free
<1>6. CASE Read
  <2>1. inbox' \in Nat /\ len' \in Outcomes
    BY <1>6 DEF TypeOK, Read, Outcomes
  <2> QED
    BY <1>1, <1>6, <2>1 DEF TypeOK, Read
<1>7. CASE ReaderSet
  <2>1. networkActive' \in BOOLEAN
    <3>1. (len = "data") \in BOOLEAN
      OBVIOUS
    <3> QED
      BY <1>7, <3>1 DEF ReaderSet
  <2> QED
    BY <1>1, <1>7, <2>1 DEF TypeOK, ReaderSet
<1>8. CASE Show
  <2>1. repeated' \in Nat /\ dropped' \in Nat
    BY <1>8 DEF TypeOK, Show
  <2> QED
    BY <1>1, <1>8, <2>1 DEF TypeOK, Show
<1>9. CASE Key
  <2>1. keys' \in 0 .. MaxKeys
    BY <1>9 DEF TypeOK, Key
  <2> QED
    BY <1>1, <1>9, <2>1 DEF TypeOK, Key
<1>10. CASE IfActive \/ Write \/ WriterStop \/ WriterExit
  BY <1>1, <1>10 DEF TypeOK, IfActive, Write, WriterStop, WriterExit, Free
<1>11. CASE WriterSet
  <2>1. raised' \in Nat /\ lowered' \in Nat
    BY <1>11 DEF TypeOK, WriterSet
  <2> QED
    BY <1>1, <1>11, <2>1 DEF TypeOK, WriterSet
<1>12. CASE UNCHANGED vars
  BY <1>12 DEF TypeOK
<1> QED
  BY <1>2, <1>3, <1>4, <1>5, <1>6, <1>7, <1>8, <1>9, <1>10, <1>11, <1>12
  DEF Next, Reader, Sending

\* Every step keeps the order of starting and stopping.
LEMMA StartedStep == Started /\ [Next]_vars => Started'
<1> SUFFICES ASSUME Started, [Next]_vars PROVE Started'
  OBVIOUS
<1> USE DEF vars, outside, loop, reader, writer, flags, At, ReaderAt, WriterAt,
            Started
<1>1. CASE Answer \/ CloseConnection \/ Interrupt \/ Main
  BY <1>1 DEF Answer, CloseConnection, Interrupt, Main
<1>2. CASE Loop
  BY <1>2 DEF Loop, Resolve, HostUnknown, Connect, ConnectFails, Verified,
    Refused, StartWriter, StartReader, Close, LoopFree
<1>3. CASE Reader
  BY <1>3 DEF Reader, ReaderTest, Read, ReaderSet, Show, ReaderStop, ReaderExit
<1>4. CASE Key \/ Sending
  BY <1>4 DEF Key, Sending, IfActive, Write, WriterSet, WriterStop, WriterExit
<1>5. CASE UNCHANGED vars
  BY <1>5
<1> QED
  BY <1>1, <1>2, <1>3, <1>4, <1>5 DEF Next

\* No step ends the session of a client that is not stopped.
LEMMA LiveStep == Started /\ LiveUntilEnd /\ [Next]_vars => LiveUntilEnd'
<1> SUFFICES ASSUME Started, LiveUntilEnd, [Next]_vars PROVE LiveUntilEnd'
  OBVIOUS
<1> USE DEF vars, outside, loop, reader, writer, flags, At, ReaderAt, WriterAt,
            Started, LiveUntilEnd, MisusedOnlyAtEnd, Use, Free
<1>1. CASE Answer \/ CloseConnection \/ Interrupt \/ Main
  BY <1>1 DEF Answer, CloseConnection, Interrupt, Main
<1>2. CASE Loop
  <2>1. CASE Resolve \/ HostUnknown \/ Connect \/ ConnectFails
    BY <2>1 DEF Resolve, HostUnknown, Connect, ConnectFails
  <2>2. CASE Verified \/ Refused \/ StartWriter \/ StartReader
    BY <2>2 DEF Verified, Refused, StartWriter, StartReader
  <2>3. CASE Close \/ LoopFree
    BY <2>3 DEF Close, LoopFree
  <2> QED
    BY <1>2, <2>1, <2>2, <2>3 DEF Loop
<1>3. CASE Reader
  <2>1. CASE ReaderTest \/ ReaderSet \/ Show \/ ReaderStop
    BY <2>1 DEF ReaderTest, ReaderSet, Show, ReaderStop
  <2>2. CASE Read
    BY <2>2 DEF Read
  <2>3. CASE ReaderExit
    BY <2>3 DEF ReaderExit
  <2> QED
    BY <1>3, <2>1, <2>2, <2>3 DEF Reader
<1>4. CASE Key \/ Sending
  <2>1. CASE Key \/ IfActive \/ WriterSet \/ WriterStop
    BY <2>1 DEF Key, IfActive, WriterSet, WriterStop
  <2>2. CASE Write
    BY <2>2 DEF Write
  <2>3. CASE WriterExit
    BY <2>3 DEF WriterExit
  <2> QED
    BY <1>4, <2>1, <2>2, <2>3 DEF Sending
<1>5. CASE UNCHANGED vars
  BY <1>5
<1> QED
  BY <1>1, <1>2, <1>3, <1>4, <1>5 DEF Next

\* No step of the reader lowers networkActive while the connection is up.
LEMMA WatchingStep == TypeOK /\ Started /\ Watching /\ [Next]_vars => Watching'
<1> SUFFICES ASSUME TypeOK, Started, Watching, [Next]_vars PROVE Watching'
  OBVIOUS
<1> USE DEF vars, outside, loop, reader, writer, flags, At, ReaderAt, WriterAt,
            Watching, WatcherStaysConnected
<1>1. CASE Answer \/ CloseConnection \/ Interrupt \/ Main
  BY <1>1 DEF Answer, CloseConnection, Interrupt, Main
<1>2. CASE Loop
  <2>1. CASE Resolve \/ HostUnknown \/ ConnectFails
    BY <2>1 DEF Resolve, HostUnknown, ConnectFails, Use, Free
  <2>2. CASE Connect
    BY <2>2 DEF Connect, Started
  <2>3. CASE Verified \/ Refused \/ StartWriter \/ StartReader
    BY <2>3 DEF Verified, Refused, StartWriter, StartReader, Use, Free
  <2>4. CASE Close \/ LoopFree
    BY <2>4 DEF Close, LoopFree, Use, Free
  <2> QED
    BY <1>2, <2>1, <2>2, <2>3, <2>4 DEF Loop
<1>3. CASE Reader
  <2>1. CASE ReaderTest \/ Show \/ ReaderStop
    BY <2>1 DEF ReaderTest, Show, ReaderStop
  <2>2. CASE Read
    BY <2>2 DEF Read, Use
  <2>3. CASE ReaderSet
    <3>1. len \in {"data", "end"}
      BY DEF TypeOK, Outcomes
    <3> QED
      BY <2>3, <3>1 DEF ReaderSet
  <2>4. CASE ReaderExit
    BY <2>4 DEF ReaderExit, Use, Free
  <2> QED
    BY <1>3, <2>1, <2>2, <2>3, <2>4 DEF Reader
<1>4. CASE Key \/ Sending
  BY <1>4 DEF Key, Sending, IfActive, Write, WriterSet, WriterStop, WriterExit,
    Use, Free
<1>5. CASE UNCHANGED vars
  BY <1>5
<1> QED
  BY <1>1, <1>2, <1>3, <1>4, <1>5 DEF Next

\* Each test of the reader that goes wrong uses up a store of the writer.
LEMMA StoreStep == TypeOK /\ OneStoreEach /\ [Next]_vars => OneStoreEach'
<1> SUFFICES ASSUME TypeOK, OneStoreEach, [Next]_vars PROVE OneStoreEach'
  OBVIOUS
<1> USE DEF vars, outside, loop, reader, writer, flags, At, ReaderAt, WriterAt,
            OneStoreEach, ShownAsRead
<1>0. /\ repeated \in Nat /\ dropped \in Nat /\ raised \in Nat /\ lowered \in Nat
      /\ networkActive \in BOOLEAN
  BY DEF TypeOK
<1>1. CASE UNCHANGED <<rpc, len, networkActive, repeated, dropped, raised, lowered>>
  BY <1>1
<1>2. CASE /\ UNCHANGED <<repeated, dropped, raised, lowered>>
           /\ rpc' # "show"
  BY <1>2
<1>3. CASE ReaderSet
  <2>1. /\ rpc' = "show" /\ networkActive' = (len = "data") /\ len' = len
        /\ UNCHANGED <<repeated, dropped, raised, lowered>>
    BY <1>3 DEF ReaderSet
  <2>2. ~(len' = "end" /\ networkActive') /\ ~(len' = "data" /\ ~networkActive')
    BY <2>1
  <2> QED
    BY <2>1, <2>2
<1>4. CASE Show
  <2>1. /\ rpc = "show" /\ rpc' = "test" /\ raised' = raised /\ lowered' = lowered
    BY <1>4 DEF Show
  <2>2. repeated' <= raised
    <3>1. CASE networkActive /\ len = "end"
      <4>1. repeated' = repeated + 1
        BY <1>4, <3>1 DEF Show
      <4> QED
        BY <2>1, <3>1, <4>1
    <3>2. CASE ~(networkActive /\ len = "end")
      <4>1. repeated' = repeated
        BY <1>4, <3>2 DEF Show
      <4> QED
        BY <4>1
    <3> QED
      BY <3>1, <3>2
  <2>3. dropped' <= lowered
    <3>1. CASE ~networkActive /\ len = "data"
      <4>1. dropped' = dropped + 1
        BY <1>4, <3>1 DEF Show
      <4> QED
        BY <2>1, <3>1, <4>1
    <3>2. CASE ~(~networkActive /\ len = "data")
      <4>1. dropped' = dropped
        BY <1>4, <3>2 DEF Show
      <4> QED
        BY <4>1
    <3> QED
      BY <3>1, <3>2
  <2> QED
    BY <2>1, <2>2, <2>3
<1>5. CASE WriterSet
  <2>1. UNCHANGED <<rpc, len, repeated, dropped>>
    BY <1>5 DEF WriterSet
  <2>2. CASE networkActive' /\ ~networkActive
    <3>1. raised' = raised + 1 /\ lowered' = lowered
      BY <1>5, <2>2 DEF WriterSet
    <3>2. repeated + 1 <= raised + 1 /\ repeated <= raised + 1
      BY <1>0
    <3> QED
      BY <2>1, <2>2, <3>1, <3>2
  <2>3. CASE networkActive /\ ~networkActive'
    <3>1. raised' = raised /\ lowered' = lowered + 1
      BY <1>5, <2>3 DEF WriterSet
    <3>2. dropped + 1 <= lowered + 1 /\ dropped <= lowered + 1
      BY <1>0
    <3> QED
      BY <2>1, <2>3, <3>1, <3>2
  <2>4. CASE networkActive' = networkActive
    <3>1. raised' = raised /\ lowered' = lowered
      BY <1>5, <2>4 DEF WriterSet
    <3> QED
      BY <2>1, <2>4, <3>1
  <2>5. networkActive' \in BOOLEAN
    BY <1>5 DEF WriterSet
  <2> QED
    BY <1>0, <2>2, <2>3, <2>4, <2>5
<1>6. CASE Interrupt \/ Main \/ Answer \/ CloseConnection
  BY <1>1, <1>6 DEF Interrupt, Main, Answer, CloseConnection
<1>7. CASE Loop
  <2>1. UNCHANGED <<len, networkActive, repeated, dropped, raised, lowered>>
        /\ (rpc' = rpc \/ rpc' = "test")
    BY <1>7 DEF Loop, Resolve, HostUnknown, Connect, ConnectFails, Verified,
      Refused, StartWriter, StartReader, Close, LoopFree
  <2> QED
    BY <2>1
<1>8. CASE ReaderTest \/ Read \/ ReaderStop \/ ReaderExit
  BY <1>2, <1>8 DEF ReaderTest, Read, ReaderStop, ReaderExit
<1>9. CASE Key \/ IfActive \/ Write \/ WriterStop \/ WriterExit
  BY <1>1, <1>9 DEF Key, IfActive, Write, WriterStop, WriterExit
<1>10. CASE UNCHANGED vars
  BY <1>1, <1>10
<1> QED
  BY <1>3, <1>4, <1>5, <1>6, <1>7, <1>8, <1>9, <1>10 DEF Next, Reader, Sending

-----------------------------------------------------------------------------
(* The invariant, and what it implies. *)

\* The inductive invariant holds.
LEMMA Invariance == Spec => []IInv
<1>1. Init => IInv
  <2> SUFFICES ASSUME Init PROVE IInv
    OBVIOUS
  <2>1. TypeOK
    <3>1. peer = "away" /\ lpc = "resolve" /\ session = "none"
          /\ rpc = "none" /\ len = "data" /\ wpc = "none"
      BY DEF Init
    <3>2. inbox = 0 /\ given = 0 /\ keys = 0
          /\ raised = 0 /\ lowered = 0 /\ repeated = 0 /\ dropped = 0
      BY DEF Init
    <3>3. /\ networkActive \in BOOLEAN /\ exitFlag \in BOOLEAN
          /\ exited \in BOOLEAN /\ refused \in BOOLEAN
          /\ misused \in BOOLEAN /\ wrote \in BOOLEAN
      BY DEF Init
    <3>4. given \in 0 .. MaxAnswers /\ keys \in 0 .. MaxKeys
      BY <3>2, BoundsAssumption
    <3> QED
      BY <3>1, <3>2, <3>3, <3>4 DEF TypeOK, Outcomes
  <2>2. Started /\ LiveUntilEnd /\ Watching /\ OneStoreEach
    BY DEF Init, Started, LiveUntilEnd, MisusedOnlyAtEnd, Watching,
      WatcherStaysConnected, OneStoreEach, ShownAsRead
  <2> QED
    BY <2>1, <2>2 DEF IInv
<1>2. IInv /\ [Next]_vars => IInv'
  BY TypeStep, StartedStep, LiveStep, WatchingStep, StoreStep DEF IInv
<1> QED
  BY <1>1, <1>2, PTL DEF Spec

\* However many keys and answers: every variable has its type.
THEOREM TypeCorrect == Spec => []TypeOK
<1>1. IInv => TypeOK
  BY DEF IInv
<1> QED
  BY <1>1, Invariance, PTL

\* However many keys and answers: while the client runs, no thread uses or
\* frees a session that another has freed.
THEOREM SessionKept == Spec => []MisusedOnlyAtEnd
<1>1. IInv => MisusedOnlyAtEnd
  BY DEF IInv, LiveUntilEnd
<1> QED
  BY <1>1, Invariance, PTL

\* However many answers: an operator who has sent nothing stays connected.
THEOREM WatcherKept == Spec => []WatcherStaysConnected
<1>1. IInv => WatcherStaysConnected
  BY DEF IInv, Watching
<1> QED
  BY <1>1, Invariance, PTL

\* However many keys and answers: each answer shown twice, or not at all, took
\* a store of the writer of its own.
THEOREM AnswersShown == Spec => []ShownAsRead
<1>1. IInv => ShownAsRead
  BY DEF IInv, OneStoreEach
<1> QED
  BY <1>1, Invariance, PTL

\* However many keys and answers: once networkActive is down, only an answer
\* to an earlier command lets the operator send again.
THEOREM MutedUntilAnswer == Spec => MuteUntilAnswer
<1>1. [Next]_vars => [Mute /\ ~Mute' => rpc = "set" /\ len = "data"]_vars
  <2> SUFFICES ASSUME [Next]_vars, Mute, ~Mute'
               PROVE  rpc = "set" /\ len = "data"
    OBVIOUS
  <2> USE DEF vars, outside, loop, reader, writer, flags, At, ReaderAt,
              WriterAt, Mute
  <2>1. CASE ReaderSet
    BY <2>1 DEF ReaderSet
  <2>2. networkActive' = networkActive /\ wpc' = wpc => FALSE
    OBVIOUS
  <2>3. CASE Answer \/ CloseConnection \/ Interrupt \/ Main \/ Loop
    BY <2>2, <2>3 DEF Answer, CloseConnection, Interrupt, Main, Loop, Resolve,
      HostUnknown, Connect, ConnectFails, Verified, Refused, StartWriter,
      StartReader, Close, LoopFree
  <2>4. CASE ReaderTest \/ Read \/ Show \/ ReaderStop \/ ReaderExit
    BY <2>2, <2>4 DEF ReaderTest, Read, Show, ReaderStop, ReaderExit
  <2>5. CASE Key \/ Sending
    BY <2>5 DEF Key, Sending, IfActive, Write, WriterSet, WriterStop, WriterExit
  <2>6. CASE UNCHANGED vars
    BY <2>2, <2>6
  <2> QED
    BY <2>1, <2>3, <2>4, <2>5, <2>6 DEF Next, Reader
<1> QED
  BY <1>1, PTL DEF Spec, MuteUntilAnswer
=============================================================================

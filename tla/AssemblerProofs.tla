-------------------------- MODULE AssemblerProofs --------------------------
(***************************************************************************)
(* What holds of Assembler for every packet size, chunk size and stream.   *)
(***************************************************************************)
EXTENDS Assembler, TLAPS

\* At most one of the two buffers holds part of the packet being assembled.
OneBuffer ==
  /\ leftoverFlag => counter = 0
  /\ ~leftoverFlag => leftoverCount = 0

\* The part of the invariant that needs nothing of the line.
Shape == TypeOK /\ OneBuffer /\ NothingWithheld

\* The sender's packets follow one another without a gap up to sent.
Tiled ==
  \A s \in starts : s + PacketSize <= sent /\ s + PacketSize \in starts \cup {sent}

\* What the buffers hold is the stream from frameStart on.
InStream ==
  /\ frameStart \in starts \cup {sent}
  /\ \A i \in Index :
       /\ i < counter => privateBuffer[i] = frameStart + i
       /\ i < leftoverCount => leftoverBuffer[i] = frameStart + i

\* The inductive invariant: while nothing was dropped, the buffers hold the
\* stream; and a dataSize is misread only once something was.
IInv ==
  /\ Shape
  /\ Tiled
  /\ received <= sent
  /\ (lost = 0 /\ fault = "none") => InStream
  /\ SizeMisreadOnlyByLoss

-----------------------------------------------------------------------------
(* The arithmetic of one call of assemble(). *)

\* What assemble() makes of a chunk that fits the caller's buffer: the parts
\* it is cut into are never negative and never longer than their buffers.
LEMMA Cut ==
  ASSUME Shape, NEW len \in 1 .. MaxChunk, len <= PacketSize
  PROVE  /\ CopyCount = leftoverCount
         /\ KeptLeftover = 0
         /\ Filled = counter + leftoverCount /\ Filled \in Index
         /\ Fills(len) => /\ BytesLeft(len) = PacketSize - Filled
                          /\ NewLeftover(len) = Filled + len - PacketSize
         /\ ~Fills(len) => /\ BytesLeft(len) = len
                           /\ NewLeftover(len) = 0
                           /\ Filled + len \in Index
         /\ NewLeftover(len) \in Index
         /\ FlagAfter(len) = Fills(len)
<1> USE SizesAssumption, BoundsAssumption DEF Index
<1>1. CopyCount = leftoverCount
  BY DEF Shape, TypeOK, OneBuffer, CopyCount
<1>2. KeptLeftover = 0 /\ Filled = counter + leftoverCount /\ Filled \in Index
  BY <1>1 DEF Shape, TypeOK, OneBuffer, KeptLeftover, Filled
<1>3. FlagAfter(len) = Fills(len)
  BY DEF Shape, TypeOK, FlagAfter, Fills
<1> QED
  BY <1>1, <1>2, <1>3 DEF Fills, BytesLeft, NewLeftover, Shape, TypeOK

\* The buffers keep their types through assemble().
LEMMA AssembleTypes ==
  ASSUME Shape, NEW len \in 1 .. MaxChunk, len <= PacketSize, Assemble(len)
  PROVE  /\ counter' \in Index /\ leftoverCount' \in Index
         /\ leftoverFlag' \in BOOLEAN
         /\ leftoverBuffer' \in [Index -> Int]
         /\ privateBuffer' \in [Index -> Int]
         /\ OneBuffer'
         /\ counter' + leftoverCount' < PacketSize
         /\ Fills(len) => counter' = 0 /\ leftoverCount' = counter + leftoverCount + len - PacketSize
         /\ ~Fills(len) => counter' = counter + leftoverCount + len /\ leftoverCount' = 0
<1> USE SizesAssumption, BoundsAssumption
<1>0. /\ Filled = counter + leftoverCount /\ Filled \in Index
      /\ KeptLeftover = 0 /\ NewLeftover(len) \in Index
      /\ FlagAfter(len) = Fills(len)
      /\ Fills(len) => BytesLeft(len) = PacketSize - Filled
                       /\ NewLeftover(len) = Filled + len - PacketSize
      /\ ~Fills(len) => BytesLeft(len) = len /\ NewLeftover(len) = 0
                        /\ Filled + len \in Index
  BY Cut
<1>1. Fills(len) \in BOOLEAN /\ BytesLeft(len) \in Int
  <2>1. Fills(len) \in BOOLEAN
    BY DEF Fills
  <2> QED
    BY <1>0, <2>1 DEF Index
<1>2. Assembled(len) \in [Index -> Int]
  <2> SUFFICES ASSUME NEW i \in Index
               PROVE  (IF i < counter THEN privateBuffer[i]
                       ELSE IF i < Filled THEN leftoverBuffer[i - counter]
                       ELSE IF i < Filled + BytesLeft(len) THEN received + i - Filled
                       ELSE privateBuffer[i]) \in Int
    BY DEF Assembled
  <2>1. counter <= i /\ i < Filled => i - counter \in Index
    BY <1>0 DEF Shape, TypeOK, Index
  <2> QED
    BY <1>0, <1>1, <2>1 DEF Shape, TypeOK, Index
<1>3. Leftover(len) \in [Index -> Int]
  <2> SUFFICES ASSUME NEW i \in Index
               PROVE  (IF KeptLeftover <= i /\ i < NewLeftover(len)
                       THEN received + BytesLeft(len) + i - KeptLeftover
                       ELSE leftoverBuffer[i]) \in Int
    BY DEF Leftover
  <2> QED
    BY <1>0, <1>1 DEF Shape, TypeOK, Index
<1>4. /\ Fills(len) => counter' = 0 /\ leftoverCount' = Filled + len - PacketSize
      /\ ~Fills(len) => counter' = Filled + len /\ leftoverCount' = 0
      /\ leftoverFlag' = Fills(len)
      /\ leftoverCount' \in Index
  BY <1>0 DEF Assemble
<1>5. counter' \in Index
  BY <1>0, <1>4, <1>1 DEF Index
<1>6. leftoverFlag' \in BOOLEAN /\ OneBuffer'
  BY <1>1, <1>4 DEF OneBuffer
<1>7. leftoverBuffer' \in [Index -> Int] /\ privateBuffer' \in [Index -> Int]
  BY <1>2, <1>3 DEF Assemble
<1>8. /\ Fills(len) => counter' = 0 /\ leftoverCount' = counter + leftoverCount + len - PacketSize
      /\ ~Fills(len) => counter' = counter + leftoverCount + len /\ leftoverCount' = 0
  BY <1>0, <1>4 DEF Shape, TypeOK, Index
<1>9. counter' + leftoverCount' < PacketSize
  <2>1. CASE Fills(len)
    BY <2>1, <1>4, <1>5 DEF Index
  <2>2. CASE ~Fills(len)
    BY <2>2, <1>4, <1>5 DEF Index
  <2> QED
    BY <2>1, <2>2
<1> QED
  BY <1>4, <1>5, <1>6, <1>7, <1>8, <1>9

\* What deserialize() may do to the outcome.
LEMMA DeserializeTypes ==
  ASSUME TypeOK, NEW buf \in [Index -> Int], Deserialize(buf)
  PROVE  /\ result' \in Verdicts /\ packet' \in Int
         /\ fault' \in {fault, "dataSize"}
  BY SizesAssumption DEF Deserialize, Accept, Reject, Spliced, TypeOK, Verdicts, Index

\* The first part of the invariant is preserved, whatever the line drops and
\* however long the chunks are.
LEMMA ShapeStep ==
  ASSUME Shape, [Next]_vars
  PROVE  Shape'
<1> USE SizesAssumption, BoundsAssumption
<1>1. CASE Send
  BY <1>1 DEF Send, Shape, TypeOK, OneBuffer, NothingWithheld, statics, outcome
<1>2. CASE Lose
  BY <1>2 DEF Lose, Shape, TypeOK, OneBuffer, NothingWithheld, statics, outcome
<1>3. ASSUME NEW len \in 1 .. MaxChunk, Receive(len)
      PROVE  Shape'
  <2>1. Assemble(len) /\ len <= PacketSize /\ fault = "none"
    BY <1>3 DEF Receive
  <2>2. Assembled(len) \in [Index -> Int] /\ privateBuffer' = Assembled(len)
    BY <2>1, AssembleTypes DEF Assemble
  <2>3. /\ result' \in Verdicts /\ packet' \in Int /\ fault' \in Faults
        /\ Fills(len) => frameStart' = frameStart + PacketSize
        /\ ~Fills(len) => frameStart' = frameStart
    <3>1. CASE Complete(len)
      BY <3>1, <2>1, <2>2, DeserializeTypes DEF Complete, Faults, Shape
    <3>2. CASE Incomplete(len)
      BY <3>2, <2>1 DEF Incomplete, Reject, Shape, TypeOK, Verdicts, Faults
    <3> QED
      BY <1>3, <3>1, <3>2 DEF Receive
  <2>4. TypeOK' /\ OneBuffer'
    BY <1>3, <2>1, <2>3, AssembleTypes DEF Receive, Shape, TypeOK
  <2>5. NothingWithheld'
    <3>1. /\ counter' + leftoverCount' < PacketSize
          /\ received' = received + len /\ lost' = lost
          /\ received - lost = frameStart + counter + leftoverCount
      BY <1>3, <2>1, AssembleTypes DEF Receive, Shape, NothingWithheld
    <3>5. /\ Fills(len) => counter' = 0 /\ leftoverCount' = counter + leftoverCount + len - PacketSize
          /\ ~Fills(len) => counter' = counter + leftoverCount + len /\ leftoverCount' = 0
      BY <1>3, <2>1, AssembleTypes
    <3>2. counter' \in Int /\ leftoverCount' \in Int
      BY <2>4 DEF TypeOK, Index
    <3>3. /\ received \in Int /\ lost \in Int /\ frameStart \in Int
          /\ counter \in Int /\ leftoverCount \in Int /\ PacketSize \in Int
          /\ len \in Int
      BY <1>3 DEF Shape, TypeOK, Index
    <3>4. received' - lost' = frameStart' + counter' + leftoverCount'
      BY <3>1, <3>3, <3>5, <2>3
    <3> QED
      BY <3>1, <3>4 DEF NothingWithheld
  <2> QED
    BY <2>4, <2>5 DEF Shape
<1>4. ASSUME NEW len \in 1 .. MaxChunk, Overrun(len)
      PROVE  Shape'
  BY <1>4 DEF Overrun, Shape, TypeOK, OneBuffer, NothingWithheld, statics, Faults
<1>5. CASE UNCHANGED vars
  BY <1>5 DEF vars, line, statics, outcome, Shape, TypeOK, OneBuffer, NothingWithheld
<1> QED
  BY <1>1, <1>2, <1>3, <1>4, <1>5 DEF Next, Read

-----------------------------------------------------------------------------
(* What the buffers hold *)

\* After assemble() the packet buffer, and the leftover buffer behind it,
\* hold the stream from frameStart on without a gap.
LEMMA AssembleContents ==
  ASSUME Shape, InStream, lost = 0, fault = "none",
         NEW len \in 1 .. MaxChunk, len <= PacketSize, Assemble(len),
         NEW i \in Index
  PROVE  /\ Fills(len) \/ i < counter' => privateBuffer'[i] = frameStart + i
         /\ i < leftoverCount' => leftoverBuffer'[i] = frameStart + PacketSize + i
<1> USE SizesAssumption
<1>1. /\ received \in Int /\ frameStart \in Int /\ len \in Int
      /\ counter \in Nat /\ leftoverCount \in Nat /\ i \in Nat
      /\ received = frameStart + counter + leftoverCount
  BY DEF Shape, TypeOK, NothingWithheld, Index
<1>2. /\ KeptLeftover = 0 /\ Filled = counter + leftoverCount
      /\ Fills(len) => BytesLeft(len) = PacketSize - Filled
      /\ ~Fills(len) => BytesLeft(len) = len /\ NewLeftover(len) = 0
  BY Cut
<1>3. /\ Fills(len) => counter' = 0
      /\ ~Fills(len) => counter' = Filled + len
      /\ leftoverCount' = NewLeftover(len)
  BY DEF Assemble
<1>4. Fills(len) \/ i < counter' => privateBuffer'[i] = frameStart + i
  <2> SUFFICES ASSUME Fills(len) \/ i < Filled + len
               PROVE  Assembled(len)[i] = frameStart + i
    BY <1>1, <1>2, <1>3 DEF Assemble
  <2>1. i < Filled + BytesLeft(len)
    BY <1>1, <1>2 DEF Index
  <2>2. CASE i < counter
    BY <2>2 DEF Assembled, InStream
  <2>3. CASE counter <= i /\ i < Filled
    <3>1. counter = 0 /\ i < leftoverCount
      BY <1>1, <1>2, <2>3 DEF Shape, OneBuffer, TypeOK
    <3>2. Assembled(len)[i] = leftoverBuffer[i]
      BY <1>1, <2>3, <3>1 DEF Assembled
    <3> QED
      BY <3>1, <3>2 DEF InStream
  <2>4. CASE Filled <= i
    <3>1. Assembled(len)[i] = received + i - Filled
      BY <1>1, <1>2, <2>1, <2>4 DEF Assembled
    <3> QED
      BY <1>1, <1>2, <3>1
  <2> QED
    BY <1>1, <1>2, <2>2, <2>3, <2>4
<1>5. i < leftoverCount' => leftoverBuffer'[i] = frameStart + PacketSize + i
  <2> SUFFICES ASSUME i < NewLeftover(len)
               PROVE  Leftover(len)[i] = frameStart + PacketSize + i
    BY <1>3 DEF Assemble
  <2>1. Fills(len)
    BY <1>1, <1>2
  <2>2. Leftover(len)[i] = received + (PacketSize - Filled) + i - 0
    BY <1>1, <1>2, <2>1 DEF Leftover
  <2> QED
    BY <1>1, <1>2, <2>2
<1> QED
  BY <1>4, <1>5

\* A packet completed while nothing was dropped starts where one was sent,
\* and is accepted.
LEMMA CompletedPacket ==
  ASSUME IInv, lost = 0, NEW len \in 1 .. MaxChunk, Receive(len), Fills(len)
  PROVE  /\ result' = "PACKET_OK" /\ packet' = frameStart /\ fault' = "none"
         /\ frameStart' = frameStart + PacketSize
         /\ frameStart \in starts
         /\ frameStart + PacketSize <= sent
         /\ frameStart + PacketSize \in starts \cup {sent}
<1> USE SizesAssumption
<1> DEFINE buf == Assembled(len)
<1>1. Shape /\ InStream /\ fault = "none" /\ Assemble(len) /\ len <= PacketSize
  BY DEF IInv, Receive
<1>2. /\ received \in Int /\ frameStart \in Nat /\ len \in Int /\ sent \in Int
      /\ counter \in Nat /\ leftoverCount \in Nat
      /\ received = frameStart + counter + leftoverCount
      /\ received + len <= sent
  BY <1>1 DEF Shape, TypeOK, NothingWithheld, Index, Receive
<1>3. \A i \in Index : buf[i] = frameStart + i
  <2> SUFFICES ASSUME NEW i \in Index
               PROVE  buf[i] = frameStart + i
    OBVIOUS
  <2>1. privateBuffer'[i] = frameStart + i
    BY <1>1, AssembleContents
  <2> QED
    BY <1>1, <2>1 DEF Assemble
<1>4. frameStart < sent
  <2>1. Filled = counter + leftoverCount /\ Filled + len >= PacketSize
    BY <1>1, Cut DEF Fills
  <2>2. counter + leftoverCount < PacketSize
    BY <1>1 DEF Shape, NothingWithheld
  <2> QED
    BY <1>2, <2>1, <2>2
<1>5. frameStart \in starts
  BY <1>1, <1>2, <1>4 DEF InStream
<1>6. frameStart + PacketSize <= sent /\ frameStart + PacketSize \in starts \cup {sent}
  BY <1>5 DEF IInv, Tiled
<1>7. HasMagic(buf) /\ HasSize(buf) /\ Contiguous(buf) /\ buf[0] = frameStart
  <2>1. \A i \in Index : InPlace(buf, i)
    <3> SUFFICES ASSUME NEW i \in Index
                 PROVE  buf[i] - i = frameStart
      BY <1>5 DEF InPlace
    <3>1. buf[i] = frameStart + i
      BY <1>3
    <3> HIDE DEF buf
    <3> QED
      BY <1>2, <3>1 DEF Index
  <2>2. /\ 0 .. MagicSize - 1 \subseteq Index
        /\ MagicSize .. MagicSize + SizeSize - 1 \subseteq Index
        /\ 0 \in Index
    BY DEF Index
  <2>3. buf[0] = frameStart
    <3>1. buf[0] = frameStart + 0
      BY <1>3, <2>2
    <3> QED
      BY <1>2, <3>1
  <2> HIDE DEF buf
  <2> QED
    BY <1>3, <2>1, <2>2, <2>3 DEF HasMagic, HasSize, Contiguous
<1>8. Complete(len) /\ fault = "none"
  BY <1>1 DEF Receive, Incomplete
<1> HIDE DEF buf
<1>9. result' = "PACKET_OK" /\ packet' = frameStart /\ fault' = "none"
  BY <1>7, <1>8 DEF Complete, Deserialize, Accept, Reject, buf
<1> QED
  BY <1>5, <1>6, <1>8, <1>9 DEF Complete

-----------------------------------------------------------------------------
(* The inductive invariant *)

\* The invariant holds before a byte is sent.
LEMMA IInvInit == Init => IInv
<1> SUFFICES ASSUME Init
             PROVE  IInv
  OBVIOUS
<1>1. TypeOK /\ OneBuffer
  <2>1. 0 \in Index /\ [i \in Index |-> -1] \in [Index -> Int]
    BY SizesAssumption DEF Index
  <2> QED
    BY <2>1 DEF Init, TypeOK, OneBuffer, Verdicts, Faults
<1>2. NothingWithheld
  BY SizesAssumption DEF Init, NothingWithheld
<1>3. Tiled /\ received <= sent /\ SizeMisreadOnlyByLoss
  BY DEF Init, Tiled, SizeMisreadOnlyByLoss
<1>4. InStream
  BY DEF Init, InStream, Index
<1> QED
  BY <1>1, <1>2, <1>3, <1>4 DEF IInv, Shape

\* Every step of the line and of the receiver preserves it.
LEMMA IInvStep ==
  ASSUME IInv, [Next]_vars
  PROVE  IInv'
<1> USE SizesAssumption, BoundsAssumption
<1>shape. Shape'
  BY ShapeStep DEF IInv
<1>typed. sent \in Nat /\ received \in Nat /\ lost \in Nat /\ PacketSize \in Nat \ {0} /\ starts \subseteq Nat
  BY DEF IInv, Shape, TypeOK
<1>1. CASE Send
  <2>1. /\ sent' = sent + PacketSize /\ starts' = starts \cup {sent}
        /\ received' = received /\ lost' = lost /\ fault' = fault
        /\ frameStart' = frameStart /\ counter' = counter
        /\ leftoverCount' = leftoverCount
        /\ privateBuffer' = privateBuffer /\ leftoverBuffer' = leftoverBuffer
    BY <1>1 DEF Send, statics, outcome
  <2>2. Tiled'
    <3> SUFFICES ASSUME NEW s \in starts'
                 PROVE  s + PacketSize <= sent' /\ s + PacketSize \in starts' \cup {sent'}
      BY DEF Tiled
    <3>1. CASE s = sent
      BY <2>1, <3>1, <1>typed
    <3>2. CASE s \in starts
      BY <2>1, <3>2, <1>typed DEF IInv, Tiled
    <3> QED
      BY <2>1, <3>1, <3>2
  <2>3. received' <= sent'
    BY <2>1, <1>typed DEF IInv
  <2>4. (lost' = 0 /\ fault' = "none") => InStream'
    BY <2>1 DEF IInv, InStream
  <2> QED
    BY <1>shape, <2>1, <2>2, <2>3, <2>4 DEF IInv, SizeMisreadOnlyByLoss
<1>2. CASE Lose
  <2>1. /\ starts' = starts /\ sent' = sent /\ lost' = lost + 1
        /\ received' = received + 1 /\ received < sent
    BY <1>2 DEF Lose
  <2>2. lost' # 0 /\ lost' > 0 /\ received' <= sent'
    BY <2>1, <1>typed
  <2>3. Tiled'
    BY <2>1 DEF IInv, Tiled
  <2>4. SizeMisreadOnlyByLoss'
    BY <2>2 DEF SizeMisreadOnlyByLoss
  <2> QED
    BY <1>shape, <2>2, <2>3, <2>4 DEF IInv
<1>3. ASSUME NEW len \in 1 .. MaxChunk, Receive(len)
      PROVE  IInv'
  <2>1. /\ starts' = starts /\ sent' = sent /\ lost' = lost /\ fault = "none"
        /\ received' = received + len /\ received + len <= sent
        /\ Assemble(len) /\ len <= PacketSize
    BY <1>3 DEF Receive
  <2>2. Tiled' /\ received' <= sent'
    BY <2>1 DEF IInv, Tiled
  <2>3. ASSUME lost = 0
        PROVE  fault' = "none" /\ InStream'
    <3>1. InStream /\ Shape
      BY <2>1, <2>3 DEF IInv
    <3>2. \A i \in Index :
            /\ Fills(len) \/ i < counter' => privateBuffer'[i] = frameStart + i
            /\ i < leftoverCount' => leftoverBuffer'[i] = frameStart + PacketSize + i
      BY <1>3, <2>1, <2>3, <3>1, AssembleContents
    <3>3. CASE Fills(len)
      <4>1. /\ fault' = "none" /\ frameStart' = frameStart + PacketSize
            /\ frameStart + PacketSize \in starts \cup {sent}
        BY <1>3, <2>3, <3>3, CompletedPacket
      <4>2. counter' = 0
        BY <2>1, <3>3 DEF Assemble
      <4>3. \A i \in Index : ~(i < counter')
        BY <4>2 DEF Index
      <4> QED
        BY <2>1, <3>2, <4>1, <4>3 DEF InStream
    <3>4. CASE ~Fills(len)
      <4>1. Incomplete(len)
        BY <1>3, <3>4 DEF Receive, Complete
      <4>2. fault' = "none" /\ frameStart' = frameStart
        BY <2>1, <4>1 DEF Incomplete, Reject
      <4>3. leftoverCount' = 0
        BY <1>3, <2>1, <3>1, <3>4, AssembleTypes
      <4>4. \A i \in Index : ~(i < leftoverCount')
        BY <4>3 DEF Index
      <4> QED
        BY <2>1, <3>1, <3>2, <4>2, <4>4 DEF InStream
    <3> QED
      BY <3>3, <3>4
  <2>4. lost # 0 => lost' > 0
    BY <2>1, <1>typed
  <2> QED
    BY <1>shape, <2>1, <2>2, <2>3, <2>4 DEF IInv, SizeMisreadOnlyByLoss
<1>4. ASSUME NEW len \in 1 .. MaxChunk, Overrun(len)
      PROVE  IInv'
  <2>1. /\ starts' = starts /\ sent' = sent /\ lost' = lost /\ fault' = "buffer"
        /\ received' <= sent'
    BY <1>4 DEF Overrun
  <2> QED
    BY <1>shape, <2>1 DEF IInv, Tiled, SizeMisreadOnlyByLoss
<1>5. CASE UNCHANGED vars
  BY <1>shape, <1>5 DEF vars, line, statics, outcome, IInv, Tiled, InStream,
                    SizeMisreadOnlyByLoss
<1> QED
  BY <1>1, <1>2, <1>3, <1>4, <1>5 DEF Next, Read

\* The packet buffer and the leftovers hold the stream from frameStart on, or
\* bytes were dropped: the invariant the other results rest on.
THEOREM Invariance == Spec => []IInv
<1>1. Init => IInv
  BY IInvInit
<1>2. IInv /\ [Next]_vars => IInv'
  BY IInvStep
<1> QED
  BY <1>1, <1>2, PTL DEF Spec

-----------------------------------------------------------------------------
(* Results *)

\* The statics of serialize.cpp keep their types for every packet size, every
\* chunk size and whatever the line drops: no index of assemble() ever
\* leaves leftoverBuffer or _privateBuffer.
THEOREM TypeCorrect == Spec => []TypeOK
<1>1. IInv => TypeOK
  BY DEF IInv, Shape
<1> QED
  BY <1>1, Invariance, PTL

\* The receiver never sits on a whole packet and accounts for every byte it
\* was given, whatever the line drops.
THEOREM Withholding == Spec => []NothingWithheld
<1>1. IInv => NothingWithheld
  BY DEF IInv, Shape
<1> QED
  BY <1>1, Invariance, PTL

\* deserialize() trusts dataSize, and is right to on a line that drops
\* nothing.
THEOREM SizeTrusted == Spec => []SizeMisreadOnlyByLoss
<1>1. IInv => SizeMisreadOnlyByLoss
  BY DEF IInv
<1> QED
  BY <1>1, Invariance, PTL

-----------------------------------------------------------------------------
(* A line that drops nothing, read in chunks that fit the caller's buffer *)

Lossless == MaxLoss = 0 /\ MaxChunk <= PacketSize

LosslessInv == IInv /\ lost = 0 /\ fault = "none"

\* A line that drops nothing and chunks that fit keep the receiver in step.
LEMMA LosslessStep ==
  ASSUME Lossless, LosslessInv, [Next]_vars
  PROVE  LosslessInv'
<1>1. IInv'
  BY IInvStep DEF LosslessInv
<1>2. CASE Send
  BY <1>1, <1>2 DEF Send, outcome, LosslessInv
<1>3. ~Lose
  BY DEF Lose, Lossless, LosslessInv
<1>4. ASSUME NEW len \in 1 .. MaxChunk, Receive(len)
      PROVE  LosslessInv'
  <2>1. lost' = lost
    BY <1>4 DEF Receive
  <2>2. CASE Fills(len)
    BY <1>1, <1>4, <2>1, <2>2, CompletedPacket DEF LosslessInv
  <2>3. CASE ~Fills(len)
    <3>1. Incomplete(len)
      BY <1>4, <2>3 DEF Receive, Complete
    <3> QED
      BY <1>1, <2>1, <3>1 DEF Incomplete, Reject, LosslessInv
  <2> QED
    BY <2>2, <2>3
<1>5. ASSUME NEW len \in 1 .. MaxChunk
      PROVE  ~Overrun(len)
  BY SizesAssumption, BoundsAssumption DEF Overrun, Lossless
<1>6. CASE UNCHANGED vars
  BY <1>1, <1>6 DEF vars, line, outcome, LosslessInv
<1> QED
  BY <1>2, <1>3, <1>4, <1>5, <1>6 DEF Next, Read

\* So it stays in step for ever.
LEMMA LosslessInvariance ==
  ASSUME Lossless
  PROVE  Spec => []LosslessInv
<1>1. Init => LosslessInv
  BY IInvInit DEF LosslessInv, Init
<1>2. LosslessInv /\ [Next]_vars => LosslessInv'
  BY LosslessStep
<1> QED
  BY <1>1, <1>2, PTL DEF Spec

\* Every step of the receiver hands over the next packet the sender wrote, or
\* none: the safety part of ImplementsFraming.
THEOREM FramingSafety ==
  ASSUME Lossless
  PROVE  Spec => Delivery!Init /\ [][Delivery!Next]_(Delivery!vars)
<1>1. Init => Delivery!Init
  BY DEF Init, Delivery!Init
<1>2. LosslessInv /\ [Next]_vars => [Delivery!Next]_(Delivery!vars)
  <2> SUFFICES ASSUME LosslessInv, [Next]_vars
               PROVE  Delivery!Next \/ UNCHANGED Delivery!vars
    OBVIOUS
  <2>1. CASE Send
    BY <2>1 DEF Send, outcome, Delivery!Next, Delivery!Send
  <2>2. ~Lose
    BY DEF Lose, Lossless, LosslessInv
  <2>3. ASSUME NEW len \in 1 .. MaxChunk, Receive(len)
        PROVE  Delivery!Next \/ UNCHANGED Delivery!vars
    <3>1. CASE Fills(len)
      <4>1. /\ packet' = frameStart /\ frameStart' = frameStart + PacketSize
            /\ frameStart + PacketSize <= sent /\ sent' = sent
        BY <2>3, <3>1, CompletedPacket DEF LosslessInv, Receive
      <4> QED
        BY <4>1 DEF Delivery!Next, Delivery!Deliver
    <3>2. CASE ~Fills(len)
      <4>1. Incomplete(len) /\ sent' = sent
        BY <2>3, <3>2 DEF Receive, Complete
      <4> QED
        BY <4>1 DEF Incomplete, Reject, Delivery!vars
    <3> QED
      BY <3>1, <3>2
  <2>4. ASSUME NEW len \in 1 .. MaxChunk
        PROVE  ~Overrun(len)
    BY SizesAssumption, BoundsAssumption DEF Overrun, Lossless
  <2>5. CASE UNCHANGED vars
    BY <2>5 DEF vars, line, outcome, Delivery!vars
  <2> QED
    BY <2>1, <2>2, <2>3, <2>4, <2>5 DEF Next, Read
<1> QED
  BY <1>1, <1>2, LosslessInvariance, PTL DEF Spec

-----------------------------------------------------------------------------
(* A line that drops bytes: where the receiver's frames lie on the sender's *)

\* A multiple of the packet size leaves no remainder.
LEMMA MultipleHasNoRemainder ==
  ASSUME NEW k \in Nat
  PROVE  k * PacketSize \in Nat /\ (k * PacketSize) % PacketSize = 0
<1> DEFINE x == k * PacketSize
           q == x \div PacketSize
<1>1. PacketSize \in Nat \ {0} /\ x \in Nat
  BY SizesAssumption
<1>2. /\ q \in Int /\ x % PacketSize \in 0 .. PacketSize - 1
      /\ x = PacketSize * q + (x % PacketSize)
  <2> HIDE DEF x
  <2> QED
    BY <1>1
<1>3. x % PacketSize = PacketSize * (k - q)
  <2>1. PacketSize * (k - q) = PacketSize * k - PacketSize * q
    <3> HIDE DEF q
    <3> QED
      BY <1>1, <1>2
  <2>2. PacketSize * k = x
    BY <1>1
  <2>3. PacketSize * q \in Int
    <3> HIDE DEF q
    <3> QED
      BY <1>1, <1>2
  <2> HIDE DEF x, q
  <2>4. x % PacketSize = x - PacketSize * q
    BY <1>1, <1>2, <2>3
  <2> QED
    BY <2>1, <2>2, <2>4
<1> HIDE DEF x, q
<1>4. k - q \in Int
  BY <1>2
<1>5. k - q >= 1 => PacketSize * (k - q) >= PacketSize
  BY <1>1, <1>4
<1>6. k - q <= -1 => PacketSize * (k - q) <= -PacketSize
  BY <1>1, <1>4
<1>7. k - q = 0 => PacketSize * (k - q) = 0
  BY <1>1
<1> QED
  BY <1>1, <1>2, <1>3, <1>4, <1>5, <1>6, <1>7 DEF x

\* A number past a multiple of the packet size is a multiple itself if and
\* only if what it is past it by is.
LEMMA MultiplesApart ==
  ASSUME NEW m \in Nat, NEW n \in Nat
  PROVE  (\E k \in Nat : m * PacketSize + n = k * PacketSize) <=> n % PacketSize = 0
<1>1. PacketSize \in Nat \ {0} /\ m * PacketSize \in Nat
  BY SizesAssumption
<1>2. ASSUME NEW k \in Nat, m * PacketSize + n = k * PacketSize
      PROVE  n % PacketSize = 0
  <2>1. (k - m) * PacketSize = k * PacketSize - m * PacketSize
    BY <1>1
  <2>2. k * PacketSize \in Nat
    BY <1>1
  <2>3. n = (k - m) * PacketSize
    BY <1>1, <1>2, <2>1, <2>2
  <2>4. k - m >= 0
    <3> SUFFICES ASSUME k - m <= -1
                 PROVE  FALSE
      OBVIOUS
    <3>1. (k - m) * PacketSize <= -PacketSize
      BY <1>1
    <3> QED
      BY <1>1, <2>3, <3>1
  <2> QED
    BY <2>3, <2>4, MultipleHasNoRemainder
<1>3. ASSUME n % PacketSize = 0
      PROVE  \E k \in Nat : m * PacketSize + n = k * PacketSize
  <2> DEFINE q == n \div PacketSize
  <2>1. q \in Nat /\ n = PacketSize * q + (n % PacketSize)
    BY <1>1
  <2> HIDE DEF q
  <2>2. n = q * PacketSize
    BY <1>1, <1>3, <2>1
  <2>3. (m + q) * PacketSize = m * PacketSize + q * PacketSize
    BY <1>1, <2>1
  <2> QED
    BY <2>1, <2>2, <2>3
<1> QED
  BY <1>2, <1>3

\* The sender's packets, and the receiver's, begin at multiples of the packet
\* size, the sender's at every one of them below sent.
Gridded ==
  /\ \E k \in Nat : sent = k * PacketSize
  /\ \E k \in Nat : frameStart = k * PacketSize
  /\ starts = {s \in Nat : s < sent /\ \E k \in Nat : s = k * PacketSize}

\* There is a multiple of the packet size one packet after each, and none
\* between the two.
LEMMA NextMultiple ==
  ASSUME NEW k \in Nat
  PROVE  /\ (k + 1) * PacketSize = k * PacketSize + PacketSize
         /\ \A j \in Nat : j * PacketSize < k * PacketSize + PacketSize
                          => j * PacketSize <= k * PacketSize
<1>1. PacketSize \in Nat \ {0}
  BY SizesAssumption
<1>2. (k + 1) * PacketSize = k * PacketSize + PacketSize
  BY <1>1
<1>3. ASSUME NEW j \in Nat, j * PacketSize < k * PacketSize + PacketSize
      PROVE  j * PacketSize <= k * PacketSize
  <2>1. CASE j <= k
    BY <1>1, <2>1
  <2>2. CASE k + 1 <= j
    <3>1. (k + 1) * PacketSize <= j * PacketSize
      BY <1>1, <2>2
    <3>2. k * PacketSize \in Nat /\ j * PacketSize \in Nat
      BY <1>1
    <3> QED
      BY <1>1, <1>2, <1>3, <3>1, <3>2
  <2> QED
    BY <2>1, <2>2
<1> QED
  BY <1>2, <1>3

\* Only whole packets are sent, and only whole packets completed.
LEMMA GriddedStep ==
  ASSUME Shape, Gridded, [Next]_vars
  PROVE  Gridded'
<1>1. PacketSize \in Nat \ {0} /\ sent \in Nat /\ frameStart \in Nat
  BY SizesAssumption DEF Shape, TypeOK
<1>2. CASE Send
  <2>1. sent' = sent + PacketSize /\ starts' = starts \cup {sent} /\ frameStart' = frameStart
    BY <1>2 DEF Send, outcome
  <2>2. PICK n \in Nat : sent = n * PacketSize
    BY DEF Gridded
  <2>3. sent' = (n + 1) * PacketSize
    BY <2>1, <2>2, NextMultiple
  <2>4. ASSUME NEW s \in Nat
        PROVE  s \in starts' <=> s < sent' /\ \E k \in Nat : s = k * PacketSize
    <3>1. s \in starts' <=> s = sent \/ (s < sent /\ \E k \in Nat : s = k * PacketSize)
      BY <2>1 DEF Gridded
    <3>2. ASSUME s < sent + PacketSize, NEW k \in Nat, s = k * PacketSize
          PROVE  s <= sent
      BY <2>2, <3>2, NextMultiple
    <3>3. s \in starts' => s < sent' /\ \E k \in Nat : s = k * PacketSize
      <4>1. CASE s = sent
        BY <1>1, <2>1, <2>2, <4>1
      <4>2. CASE s < sent /\ \E k \in Nat : s = k * PacketSize
        <5>1. s < sent'
          BY <1>1, <2>1, <4>2
        <5> QED
          BY <4>2, <5>1
      <4> QED
        BY <3>1, <4>1, <4>2
    <3>4. s < sent' /\ (\E k \in Nat : s = k * PacketSize) => s \in starts'
      <4> SUFFICES ASSUME s < sent', NEW k \in Nat, s = k * PacketSize
                   PROVE  s \in starts'
        OBVIOUS
      <4>1. s <= sent
        BY <2>1, <3>2
      <4>2. s = sent \/ s < sent
        BY <1>1, <4>1
      <4> QED
        BY <3>1, <4>2
    <3> QED
      BY <3>3, <3>4
  <2>5. starts' \subseteq Nat
    BY <1>1, <2>1 DEF Gridded
  <2>6. starts' = {s \in Nat : s < sent' /\ \E k \in Nat : s = k * PacketSize}
    BY <2>4, <2>5
  <2>7. (\E k \in Nat : sent' = k * PacketSize) /\ \E k \in Nat : frameStart' = k * PacketSize
    BY <2>1, <2>3 DEF Gridded
  <2> QED
    BY <2>6, <2>7 DEF Gridded
<1>3. CASE Read
  <2>1. sent' = sent /\ starts' = starts
    BY <1>3 DEF Read, Receive, Overrun
  <2>2. frameStart' = frameStart \/ frameStart' = frameStart + PacketSize
    BY <1>3 DEF Read, Receive, Overrun, Complete, Incomplete
  <2>3. PICK n \in Nat : frameStart = n * PacketSize
    BY DEF Gridded
  <2>4. \E k \in Nat : frameStart' = k * PacketSize
    BY <2>2, <2>3, NextMultiple
  <2> QED
    BY <2>1, <2>4 DEF Gridded
<1>4. CASE Lose \/ UNCHANGED vars
  BY <1>4 DEF Lose, vars, line, outcome, Gridded
<1> QED
  BY <1>2, <1>3, <1>4 DEF Next

\* A packet made of consecutive bytes begins as far past its frame as bytes
\* were dropped.
LEMMA FrameDisplaced ==
  ASSUME Shape, NEW len \in 1 .. MaxChunk, Receive(len), Fills(len),
         Contiguous(Assembled(len))
  PROVE  Assembled(len)[0] = frameStart + lost /\ frameStart + lost < sent
<1> USE SizesAssumption, BoundsAssumption
<1>1. /\ received \in Int /\ frameStart \in Nat /\ lost \in Nat /\ sent \in Int
      /\ counter \in Nat /\ leftoverCount \in Nat /\ len \in Nat
      /\ received - lost = frameStart + counter + leftoverCount
      /\ received + len <= sent /\ len <= PacketSize
  BY DEF Shape, TypeOK, NothingWithheld, Index, Receive
<1>2. /\ Filled = counter + leftoverCount /\ Filled \in Index
      /\ BytesLeft(len) = PacketSize - Filled
  BY <1>1, Cut
<1> DEFINE last == PacketSize - 1
<1>3. Assembled(len)[last] = received + last - Filled
  <2>1. last \in Index /\ ~(last < counter) /\ ~(last < Filled) /\ last < Filled + BytesLeft(len)
    BY <1>1, <1>2 DEF Index
  <2> HIDE DEF last
  <2> QED
    BY <2>1 DEF Assembled
<1>4. Assembled(len)[last] = Assembled(len)[0] + last
  BY DEF Contiguous, Index
<1>5. Assembled(len)[0] \in Int
  <2>1. Assembled(len) \in [Index -> Int]
    BY <1>1, AssembleTypes DEF Receive, Assemble
  <2> QED
    BY <2>1 DEF Index
<1>6. Filled + len >= PacketSize
  BY DEF Fills
<1> QED
  BY <1>1, <1>2, <1>3, <1>4, <1>5, <1>6 DEF Index

\* The magic number is in place in a packet of consecutive bytes if and only
\* if its first byte is the first of a packet sent.
LEMMA MagicOfContiguous ==
  ASSUME NEW buf \in [Index -> Int], Contiguous(buf)
  PROVE  HasMagic(buf) <=> buf[0] \in starts
<1>1. 0 \in Index /\ 0 \in 0 .. MagicSize - 1 /\ 0 .. MagicSize - 1 \subseteq Index
  BY SizesAssumption DEF Index
<1>2. \A i \in Index : buf[i] - i = buf[0]
  BY <1>1 DEF Contiguous, Index
<1>3. \A i \in Index : InPlace(buf, i) <=> buf[0] \in starts
  BY <1>2 DEF InPlace
<1> QED
  BY <1>1, <1>3 DEF HasMagic

\* Whatever the line drops and however the stream is cut into chunks, a
\* packet that comes through undisturbed is accepted if and only if the bytes
\* dropped so far make whole packets: once out of step the receiver refuses
\* every packet until further losses happen to put it back.
THEOREM LockedOut == Spec => LockedOutUntilRealigned
<1> DEFINE GInv == IInv /\ Gridded
<1>1. Init => GInv
  <2> SUFFICES ASSUME Init
               PROVE  Gridded
    BY IInvInit
  <2>1. 0 = 0 * PacketSize
    BY SizesAssumption
  <2>2. sent = 0 /\ frameStart = 0 /\ starts = {}
    BY DEF Init
  <2> QED
    BY <2>1, <2>2 DEF Gridded
<1>2. GInv /\ [Next]_vars => GInv'
  BY IInvStep, GriddedStep DEF IInv
<1>3. ASSUME GInv, [Next]_vars
      PROVE  [(frameStart' # frameStart /\ fault' = "none" /\ Contiguous(privateBuffer'))
                => (result' = "PACKET_OK" <=> lost % PacketSize = 0)]_vars
  <2> SUFFICES ASSUME frameStart' # frameStart, fault' = "none",
                      Contiguous(privateBuffer')
               PROVE  result' = "PACKET_OK" <=> lost % PacketSize = 0
    OBVIOUS
  <2>1. PICK len \in 1 .. MaxChunk : Receive(len) /\ Complete(len)
    BY <1>3 DEF Next, Send, Lose, Read, Receive, Overrun, Incomplete, vars, outcome
  <2> DEFINE buf == Assembled(len)
  <2>2. /\ Shape /\ Fills(len) /\ Deserialize(buf)
        /\ len <= PacketSize /\ Assemble(len) /\ privateBuffer' = buf
    BY <1>3, <2>1 DEF IInv, Complete, Receive, Assemble
  <2>3. buf \in [Index -> Int] /\ Contiguous(buf)
    BY <2>2, AssembleTypes
  <2>4. result' = "PACKET_OK" <=> HasMagic(buf)
    <3> HIDE DEF buf
    <3> QED
      BY <2>2, <2>3 DEF Deserialize, Accept, Reject
  <2>5. HasMagic(buf) <=> buf[0] \in starts
    BY <2>3, MagicOfContiguous
  <2>6. buf[0] = frameStart + lost /\ frameStart + lost < sent
    BY <2>1, <2>2, <2>3, FrameDisplaced
  <2>7. PICK m \in Nat : frameStart = m * PacketSize
    BY <1>3 DEF Gridded
  <2>8. frameStart + lost \in Nat /\ lost \in Nat
    BY <2>2 DEF Shape, TypeOK
  <2>9. buf[0] \in starts <=> \E k \in Nat : m * PacketSize + lost = k * PacketSize
    BY <1>3, <2>6, <2>7, <2>8 DEF Gridded
  <2> QED
    BY <2>4, <2>5, <2>8, <2>9, MultiplesApart
<1> HIDE DEF GInv
<1> QED
  BY <1>1, <1>2, <1>3, PTL DEF Spec, LockedOutUntilRealigned
=============================================================================

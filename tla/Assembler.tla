----------------------------- MODULE Assembler -----------------------------
(***************************************************************************)
(* serialize.cpp: how the receiving end of the serial line (the firmware's *)
(* readPacket, the Pi's uartReceiveThread) cuts the bytes that read()      *)
(* returns, in chunks of any size, back into TComms packets.               *)
(*                                                                         *)
(* A byte is named by its position in the stream the sender wrote, so the  *)
(* contents of a buffer say which bytes it holds.  The statics of          *)
(* assemble() are variables; frameStart and received only count.           *)
(***************************************************************************)
EXTENDS Integers, FiniteSets

CONSTANTS PacketSize,   \* PACKET_SIZE, sizeof(TComms)
          MagicSize,    \* bytes of TComms.magic
          SizeSize,     \* bytes of TComms.dataSize
          MaxChunk,     \* most bytes one read() returns
          MaxLoss,      \* bound on the bytes the line drops
          MaxSent       \* bound on the bytes the sender writes

ASSUME SizesAssumption ==
  /\ MagicSize \in Nat \ {0} /\ SizeSize \in Nat \ {0}
  /\ PacketSize \in Nat /\ MagicSize + SizeSize < PacketSize
ASSUME BoundsAssumption ==
  /\ MaxChunk \in Nat \ {0} /\ MaxLoss \in Nat /\ MaxSent \in Nat

Index == 0 .. PacketSize - 1

Verdicts == {"PACKET_OK", "PACKET_BAD", "PACKET_CHECKSUM_BAD",
             "PACKET_INCOMPLETE"}

\* "buffer": the chunk is longer than the caller's char buffer[PACKET_SIZE];
\* "dataSize": the checksum loop runs to a dataSize that is not one.
Faults == {"none", "buffer", "dataSize"}

\* What deserialize() copies out when a packet made of the bytes of two
\* passes its checksum by chance.
Spliced == -2

VARIABLES
  starts,          \* stream positions at which the sender began a packet
  sent,            \* bytes the sender has written
  received,        \* bytes taken off the line, dropped ones included
  lost,            \* how many of them were dropped
  counter, leftoverFlag, leftoverCount, leftoverBuffer,   \* assemble()
  privateBuffer,   \* _privateBuffer
  result,          \* what deserialize() returned last
  packet,          \* its output: the packet copied out last, -1 before it
  frameStart,      \* PacketSize times the packets completed so far
  fault            \* the buffer the code ran past the end of, if any

line     == <<starts, sent, received, lost>>
statics  == <<counter, leftoverFlag, leftoverCount, leftoverBuffer,
              privateBuffer>>
outcome  == <<result, packet, frameStart, fault>>
vars     == <<line, statics, outcome>>

Init ==
  /\ starts = {} /\ sent = 0 /\ received = 0 /\ lost = 0
  /\ counter = 0 /\ leftoverFlag = FALSE /\ leftoverCount = 0
  /\ leftoverBuffer = [i \in Index |-> -1]
  /\ privateBuffer = [i \in Index |-> -1]
  /\ result = "PACKET_INCOMPLETE" /\ packet = -1 /\ frameStart = 0
  /\ fault = "none"

-----------------------------------------------------------------------------
(* The line *)

\* serialize() makes one TComms; serialWrite hands all of it to the line.
Send ==
  /\ sent + PacketSize <= MaxSent
  /\ starts' = starts \cup {sent}
  /\ sent' = sent + PacketSize
  /\ UNCHANGED <<received, lost, statics, outcome>>

\* _rx_complete_irq(): a byte read() never sees, for its parity is wrong or
\* the receive ring is full.
Lose ==
  /\ fault = "none"
  /\ received < sent /\ lost < MaxLoss
  /\ received' = received + 1 /\ lost' = lost + 1
  /\ UNCHANGED <<starts, sent, statics, outcome>>

-----------------------------------------------------------------------------
(* assemble() *)

\* Bytes of leftoverBuffer this call moves to the front of the packet.
CopyCount ==
  IF ~leftoverFlag THEN 0
  ELSE IF leftoverCount <= PacketSize THEN leftoverCount ELSE PacketSize

\* counter once they are moved.
Filled == counter + CopyCount

\* Mutant: a chunk that ends where the packet ends does not complete it.
FillsPast(len) == Filled + len > PacketSize

\* The new chunk reaches the end of the packet.
Fills(len) == Filled + len >= PacketSize

\* Bytes of the chunk that go into the packet; the others are left over.
BytesLeft(len) == IF Fills(len) THEN PacketSize - Filled ELSE len

\* Mutant: leftoverCount is not reset when the leftovers move out.
KeptAll == leftoverCount

\* leftoverCount after the leftovers moved out, then after the new ones.
KeptLeftover == leftoverCount - CopyCount
NewLeftover(len) == KeptLeftover + len - BytesLeft(len)

\* Mutant: the chunk is copied from the packet's index, not from its start.
AssembledAhead(len) ==
  [i \in Index |->
     IF i < counter THEN privateBuffer[i]
     ELSE IF i < Filled THEN leftoverBuffer[i - counter]
     ELSE IF i < Filled + BytesLeft(len) THEN received + i
     ELSE privateBuffer[i]]

Assembled(len) ==
  [i \in Index |->
     IF i < counter THEN privateBuffer[i]
     ELSE IF i < Filled THEN leftoverBuffer[i - counter]
     ELSE IF i < Filled + BytesLeft(len) THEN received + i - Filled
     ELSE privateBuffer[i]]

\* Mutant: the leftovers are taken from the start of the chunk.
LeftoverFront(len) ==
  [i \in Index |->
     IF KeptLeftover <= i /\ i < NewLeftover(len)
     THEN received + i - KeptLeftover
     ELSE leftoverBuffer[i]]

Leftover(len) ==
  [i \in Index |->
     IF KeptLeftover <= i /\ i < NewLeftover(len)
     THEN received + BytesLeft(len) + i - KeptLeftover
     ELSE leftoverBuffer[i]]

\* The flag is cleared when every leftover fits, set when the packet fills.
FlagAfter(len) ==
  Fills(len) \/ (leftoverFlag /\ leftoverCount > PacketSize)

Assemble(len) ==
  /\ privateBuffer' = Assembled(len)
  /\ leftoverBuffer' = Leftover(len)
  /\ leftoverCount' = NewLeftover(len)
  /\ leftoverFlag' = FlagAfter(len)
  /\ counter' = IF Fills(len) THEN 0 ELSE Filled + len

-----------------------------------------------------------------------------
(* deserialize(), on the buffer a completed packet leaves *)

\* Byte i of the buffer is byte i of some packet the sender wrote.
InPlace(buf, i) == buf[i] - i \in starts

\* Mutant: the magic number is not compared.
AnyMagic(buf) == TRUE

HasMagic(buf) == \A i \in 0 .. MagicSize - 1 : InPlace(buf, i)

HasSize(buf) ==
  \A i \in MagicSize .. MagicSize + SizeSize - 1 : InPlace(buf, i)

\* Consecutive bytes of the stream: nothing was dropped among them.
Contiguous(buf) == \A i \in Index : buf[i] = buf[0] + i

Accept(p) == result' = "PACKET_OK" /\ packet' = p /\ fault' = fault
Reject(r) == result' = r /\ UNCHANGED <<packet, fault>>

\* A magic number where the payload happens to have one is left out: the
\* four bytes FF FE FD FC are no command, count or text Alex sends.
Deserialize(buf) ==
  \/ /\ ~HasMagic(buf)
     /\ Reject("PACKET_BAD")
  \/ /\ HasMagic(buf) /\ Contiguous(buf)
     /\ Accept(buf[0])
  \/ /\ HasMagic(buf) /\ ~Contiguous(buf)
     /\ Accept(Spliced) \/ Reject("PACKET_CHECKSUM_BAD")
  \/ /\ HasMagic(buf) /\ ~HasSize(buf)
     /\ fault' = "dataSize"
     /\ UNCHANGED <<result, packet>>

-----------------------------------------------------------------------------
(* One pass of the receiver: read() and, if it returned any byte,
   deserialize(). *)

Complete(len) ==
  /\ Fills(len)
  /\ Deserialize(Assembled(len))
  /\ frameStart' = frameStart + PacketSize

Incomplete(len) ==
  /\ ~Fills(len)
  /\ Reject("PACKET_INCOMPLETE")
  /\ UNCHANGED frameStart

Receive(len) ==
  /\ fault = "none"
  /\ received + len <= sent
  /\ received' = received + len
  /\ len <= PacketSize
  /\ Assemble(len)
  /\ Complete(len) \/ Incomplete(len)
  /\ UNCHANGED <<starts, sent, lost>>

\* read() is asked for MAX_BUFFER_LEN bytes, readSerial() for all there are.
Overrun(len) ==
  /\ fault = "none"
  /\ received + len <= sent
  /\ received' = received + len
  /\ len > PacketSize
  /\ fault' = "buffer"
  /\ UNCHANGED <<starts, sent, lost, statics, result, packet, frameStart>>

Read == \E len \in 1 .. MaxChunk : Receive(len) \/ Overrun(len)

Next == Send \/ Lose \/ Read

Spec == Init /\ [][Next]_vars

\* Both receivers poll the line for ever.
FairSpec == Spec /\ WF_vars(Read)

-----------------------------------------------------------------------------
(* Properties *)

\* The statics of assemble() keep their types: above all, no index leaves
\* leftoverBuffer or _privateBuffer.
TypeOK ==
  /\ starts \subseteq Nat
  /\ sent \in Nat /\ received \in Nat /\ lost \in Nat
  /\ counter \in Index /\ leftoverCount \in Index
  /\ leftoverFlag \in BOOLEAN
  /\ leftoverBuffer \in [Index -> Int] /\ privateBuffer \in [Index -> Int]
  /\ result \in Verdicts /\ packet \in Int /\ frameStart \in Nat
  /\ fault \in Faults

\* The receiver never sits on a whole packet: what assemble() holds back in
\* its packet buffer and its leftover buffer together is less than one
\* packet, and no byte it was given is missing or counted twice.
NothingWithheld ==
  fault = "none" =>
    /\ counter + leftoverCount < PacketSize
    /\ received - lost = frameStart + counter + leftoverCount

\* A dataSize is misread only after the line has dropped bytes.
SizeMisreadOnlyByLoss == fault = "dataSize" => lost > 0

\* On a line that drops nothing, deserialize() hands over exactly the
\* packets sent, each once, whole and in order, and gets to all of them.
Delivery == INSTANCE Framing WITH next <- frameStart
ImplementsFraming == Delivery!Spec

\* deserialize() has no way to find the start of a packet again: when the
\* dropped bytes do not add up to whole packets, every packet that comes
\* through undisturbed is refused, and accepted once they do.
LockedOutUntilRealigned ==
  [][(frameStart' # frameStart /\ fault' = "none" /\ Contiguous(privateBuffer'))
       => (result' = "PACKET_OK" <=> lost % PacketSize = 0)]_vars
=============================================================================

------------------------------ MODULE Framing ------------------------------
(***************************************************************************)
(* What the two ends of Alex's serial line expect of deserialize(): the    *)
(* sender writes whole packets, and the receiver is handed each of them    *)
(* once, whole and in the order they were sent.  A packet is named by the  *)
(* position in the byte stream of its first byte.                          *)
(***************************************************************************)
EXTENDS Integers

CONSTANTS PacketSize,   \* bytes of a packet on the line
          MaxSent       \* bound on the bytes a behaviour sends

VARIABLES sent,         \* bytes sent so far
          next,         \* the first packet the receiver does not have yet
          packet        \* the packet handed over last, -1 before the first

vars == <<sent, next, packet>>

Init == sent = 0 /\ next = 0 /\ packet = -1

Send == /\ sent + PacketSize <= MaxSent
        /\ sent' = sent + PacketSize
        /\ UNCHANGED <<next, packet>>

Deliver == /\ next + PacketSize <= sent
           /\ packet' = next
           /\ next' = next + PacketSize
           /\ UNCHANGED sent

Next == Send \/ Deliver

Spec == Init /\ [][Next]_vars /\ WF_vars(Deliver)
=============================================================================

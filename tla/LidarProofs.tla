----------------------------- MODULE LidarProofs -----------------------------
(***************************************************************************)
(* What holds of Lidar for turns, arrays and streams of any length.        *)
(***************************************************************************)
EXTENDS Lidar, SequenceTheorems, TLAPS

\* The loop stays inside local_buf, and publishes when the node at hand is the
\* first of a turn and local_scan begins with one.
Looping ==
  /\ count <= Len(buf) /\ pos <= count + 1
  /\ cpc \in {"lock", "copy", "signal"}
       => pos <= count /\ buf[pos].sync /\ FromStart

\* The lock is held by the thread that copies, and no thread is started beside
\* one that runs.
Locking ==
  /\ mpc = "command" => cpc = "none"
  /\ lock = "main" <=> mpc = "copy"
  /\ lock = "cache" <=> cpc \in {"copy", "signal"}

\* A scan nobody has grabbed is announced, or about to be, unless the main
\* thread has taken the event and is on its way to the scan.
Waking ==
  /\ mpc \notin {"check", "lock", "copy"} /\ cached # <<>>
       => dataEvt \/ cpc = "signal"
  /\ mpc \in {"lock", "copy"} => cached # <<>>

\* At most the first of the nodes of s is the first of a turn.
OneAtMost(s) == \A i \in 2 .. Len(s) : ~s[i].sync

\* So it is for local_scan, and it is so published and grabbed.
OneEach ==
  /\ OneAtMost(scan) /\ OneAtMost(cached)
  /\ cached # <<>> => cached[1].sync
  /\ result = "ok" => nodes # <<>>
  /\ OneStart

\* The inductive invariant.
IInv == TypeOK /\ Looping /\ Locking /\ Waking /\ OneEach

-----------------------------------------------------------------------------
(* Lemmas about the nodes. *)

\* A new sample, a capsule's nodes and what nobody has written are nodes.
LEMMA Nodes ==
  /\ Junk \subseteq Node
  /\ \A p \in {-1} \cup Nat : \A b \in BOOLEAN : [at |-> p, sync |-> b] \in Node
  /\ \A n \in Node : n.sync \in BOOLEAN
  BY DEF Junk, Node

\* An array that nobody has written is a sequence of nodes.
LEMMA JunkArray ==
  ASSUME NEW n \in Nat, NEW s \in [1 .. n -> Junk]
  PROVE  s \in Seq(Node) /\ Len(s) = n
<1>1. s \in [1 .. n -> Node]
  BY Nodes
<1>2. s \in Seq(Node)
  BY <1>1, SeqDef
<1> QED
  BY <1>1, <1>2, LenProperties

\* Add keeps local_scan a sequence of nodes that fits, with one first at most,
\* and moves on.
LEMMA AddProperties ==
  ASSUME TypeOK, Looping, OneAtMost(scan), pos <= count, Add
  PROVE  /\ scan' \in Seq(Node) /\ Len(scan') < MaxScan
         /\ OneAtMost(scan') /\ pos' = pos + 1
<1> USE SizesAssumption
<1>1. buf[pos] \in Node
  <2>1. buf \in Seq(Node) /\ pos \in Nat \ {0} /\ count \in Nat
    BY DEF TypeOK, ScalarsOK, ArraysOK
  <2>2. Len(buf) \in Nat /\ count <= Len(buf)
    BY <2>1, LenProperties DEF Looping
  <2>3. pos \in 1 .. Len(buf)
    BY <2>1, <2>2
  <2> QED
    BY <2>1, <2>3, ElementOfSeq
<1>2. CASE buf[pos].sync
  <2>1. scan' = <<buf[pos]>>
    BY <1>2 DEF Add
  <2>2. scan' \in Seq(Node) /\ Len(scan') = 1
    BY <2>1, <1>1
  <2> QED
    BY <2>2 DEF OneAtMost, Add
<1>3. CASE ~buf[pos].sync /\ Len(scan) < MaxScan - 1
  <2>1. scan' = Append(scan, buf[pos]) /\ scan \in Seq(Node)
    BY <1>3 DEF Add, TypeOK, ArraysOK
  <2>2. /\ scan' \in Seq(Node) /\ Len(scan') = Len(scan) + 1
        /\ \A i \in 1 .. Len(scan) : scan'[i] = scan[i]
        /\ scan'[Len(scan) + 1] = buf[pos]
    BY <2>1, <1>1, AppendProperties
  <2>3. Len(scan) \in Nat
    BY <2>1, LenProperties
  <2>4. ASSUME NEW i \in 2 .. Len(scan') PROVE ~scan'[i].sync
    <3>1. CASE i = Len(scan) + 1
      BY <3>1, <2>2, <1>3
    <3>2. CASE i # Len(scan) + 1
      <4>1. i \in 2 .. Len(scan) /\ i \in 1 .. Len(scan)
        BY <3>2, <2>2, <2>3
      <4> QED
        BY <4>1, <2>2 DEF OneAtMost
    <3> QED
      BY <3>1, <3>2
  <2>5. Len(scan') < MaxScan /\ pos' = pos + 1
    BY <2>2, <2>3, <1>3 DEF Add
  <2> QED
    BY <2>2, <2>4, <2>5 DEF OneAtMost
<1>4. CASE ~buf[pos].sync /\ ~(Len(scan) < MaxScan - 1)
  BY <1>4 DEF Add, TypeOK, ArraysOK
<1> QED
  BY <1>2, <1>3, <1>4

\* What grabScanData() copies: the first nodes of the cached scan.
LEMMA GrabProperties ==
  ASSUME TypeOK, cached # <<>>, Grab
  PROVE  /\ nodes' \in Seq(Node) /\ nodes' # <<>>
         /\ Len(nodes') <= Room /\ Len(nodes') <= Len(cached)
         /\ Len(nodes') = Len(cached) \/ Len(nodes') = Room
         /\ \A i \in 1 .. Len(nodes') : nodes'[i] = cached[i]
<1> USE SizesAssumption
<1> DEFINE k == IF Len(cached) < Room THEN Len(cached) ELSE Room
<1>1. cached \in Seq(Node) /\ Len(cached) \in Nat \ {0}
  BY EmptySeq DEF TypeOK, ArraysOK
<1>2. k \in Nat \ {0} /\ k <= Len(cached) /\ k <= Room
  BY <1>1
<1>7. k = Len(cached) \/ k = Room
  OBVIOUS
<1>3. \A i \in 1 .. k : cached[i] \in Node
  BY <1>1, <1>2, ElementOfSeq
<1>4. nodes' = SubSeq(cached, 1, k)
  BY DEF Grab
<1> HIDE DEF k
<1>5. /\ nodes' \in Seq(Node) /\ Len(nodes') = k
      /\ \A i \in 1 .. k : nodes'[i] = cached[i]
  <2>1. /\ SubSeq(cached, 1, k) \in Seq(Node)
        /\ Len(SubSeq(cached, 1, k)) = IF 1 <= k THEN k - 1 + 1 ELSE 0
        /\ \A i \in 1 .. k - 1 + 1 : SubSeq(cached, 1, k)[i] = cached[1 + i - 1]
    BY <1>2, <1>3, SubSeqProperties
  <2> QED
    BY <2>1, <1>2, <1>4
<1>6. nodes' # <<>>
  BY <1>5, <1>2, EmptySeq
<1> QED
  BY <1>2, <1>5, <1>6, <1>7
-----------------------------------------------------------------------------
(* The parts of the invariant, one after the other. *)

\* Every step keeps the types of the variables that are not arrays.
LEMMA ScalarsStep == ScalarsOK /\ [Next]_vars => ScalarsOK'
<1> SUFFICES ASSUME ScalarsOK, [Next]_vars PROVE ScalarsOK'
  OBVIOUS
<1> USE SizesAssumption
    DEF ScalarsOK, lidar, locals, capsule, main, shared, Reading, AfterRead
<1>1. CASE Disable
  BY <1>1 DEF Disable
<1>2. CASE StartFails
  BY <1>2 DEF StartFails
<1>3. CASE WaitOK \/ WaitBlocks
  <2>1. CASE WaitOK
    BY <2>1 DEF WaitOK
  <2>2. CASE WaitBlocks
    BY <2>2 DEF WaitBlocks
  <2> QED
    BY <1>3, <2>1, <2>2
<1>4. CASE CheckOK
  BY <1>4 DEF CheckOK
<1>5. CASE Lock
  BY <1>5 DEF Lock
<1>6. CASE Show
  BY <1>6 DEF Show
<1>7. CASE Join
  BY <1>7 DEF Join
<1>8. CASE WaitTimesOut \/ WaitFails
  <2>1. CASE WaitTimesOut
    BY <2>1 DEF WaitTimesOut
  <2>2. CASE WaitFails
    BY <2>2 DEF WaitFails
  <2> QED
    BY <1>8, <2>1, <2>2
<1>9. CASE CheckFails
  BY <1>9 DEF CheckFails
<1>10. CASE Grab
  BY <1>10 DEF Grab
<1>11. CASE UNCHANGED vars
  BY <1>11 DEF vars
<1>12. CASE Start
  BY <1>12 DEF Start
<1>13. CASE Test
  BY <1>13 DEF Test
<1>14. CASE CapsuleTimesOut
  BY <1>14 DEF CapsuleTimesOut
<1>15. CASE PortFails
  <2>1. cpc' \in {"test", "gone"} /\ isScanning' \in BOOLEAN
    BY <1>15 DEF PortFails
  <2>2. UNCHANGED <<lidar, locals, capsule, main, lock, dataEvt, harmed>>
    BY <1>15 DEF PortFails
  <2> QED
    BY <2>1, <2>2
<1>16. CASE LoopEnds
  BY <1>16 DEF LoopEnds
<1>17. CASE Publish
  BY <1>17 DEF Publish
<1>18. CASE CacheLock
  BY <1>18 DEF CacheLock
<1>19. CASE Copy
  BY <1>19 DEF Copy
<1>20. CASE ReceiveNode
  BY <1>20 DEF ReceiveNode
<1>21. CASE NodesTimeOut
  <2>1. count' \in Nat /\ harmed' \subseteq {-1} \cup Nat
    BY <1>21 DEF NodesTimeOut, Samples, MaxSample
  <2>2. pos' = 1 /\ cpc' \in {"test", "loop"}
    BY <1>21 DEF NodesTimeOut
  <2>3. UNCHANGED <<lidar, capsule, main, shared>>
    BY <1>21 DEF NodesTimeOut
  <2> QED
    BY <2>1, <2>2, <2>3
<1>22. CASE ReceiveCapsule
  <2>1. rdy' \in BOOLEAN
    <3>1. (rdy /\ next # start) \in BOOLEAN
      OBVIOUS
    <3> QED
      BY <1>22, <3>1 DEF ReceiveCapsule
  <2>2. prev' \in {-1} \cup Nat /\ count' \in Nat /\ next' \in Nat
    BY <1>22 DEF ReceiveCapsule
  <2>3. /\ cpc' \in {"test", "loop"} /\ pos' = 1
        /\ UNCHANGED <<express, start, scan, main, shared, harmed>>
    BY <1>22 DEF ReceiveCapsule
  <2> QED
    BY <2>1, <2>2, <2>3
<1>23. CASE Lose
  <2>1. next' \in Nat /\ harmed' \subseteq {-1} \cup Nat
    BY <1>23 DEF Lose
  <2>2. rdy' \in BOOLEAN /\ cpc' \in {cpc, "test"}
    BY <1>23 DEF Lose
  <2>3. UNCHANGED <<express, start, locals, prev, main, shared>>
    BY <1>23 DEF Lose
  <2> QED
    BY <2>1, <2>2, <2>3
<1>24. CASE AddNode
  BY <1>24 DEF AddNode, Add
<1>25. CASE Signal
  BY <1>25 DEF Signal, Add
<1> QED
  BY <1>1, <1>2, <1>3, <1>4, <1>5, <1>6, <1>7, <1>8, <1>9, <1>10, <1>11,
     <1>12, <1>13, <1>14, <1>15, <1>16, <1>17, <1>18, <1>19, <1>20, <1>21,
     <1>22, <1>23, <1>24, <1>25
     DEF Next, Main, Cache

\* The arrays hold nodes, and each has room for them.
LEMMA TypeStep ==
  TypeOK /\ Looping /\ Waking /\ OneEach /\ [Next]_vars => TypeOK'
<1> SUFFICES ASSUME TypeOK, Looping, Waking, OneEach, [Next]_vars PROVE TypeOK'
  OBVIOUS
<1>1. ScalarsOK'
  BY ScalarsStep DEF TypeOK
<1> DEFINE Same == UNCHANGED <<buf, scan, nodes, cached>>
           New  == /\ ArraysOK'
                   /\ Len(scan') < MaxScan /\ Len(cached') < MaxScan
                   /\ Len(nodes') <= Room
<1>0. <<>> \in Seq(Node) /\ Len(<<>>) = 0
  BY EmptySeq
<1>2. Same => New
  BY DEF TypeOK, ArraysOK
<1>3. ASSUME Join PROVE New
  BY <1>0, <1>3, SizesAssumption DEF Join, shared, TypeOK, ArraysOK
<1>4. ASSUME Start PROVE New
  <2>1. buf' \in Seq(Node)
    BY <1>4, SizesAssumption, JunkArray DEF Start
  <2> QED
    BY <1>4, <1>0, <2>1, SizesAssumption DEF Start, TypeOK, ArraysOK
<1>5. ASSUME WaitTimesOut \/ WaitFails PROVE New
  <2>1. nodes' = <<>> /\ UNCHANGED <<buf, scan, cached>>
    BY <1>5 DEF WaitTimesOut, WaitFails, locals, shared
  <2> QED
    BY <1>0, <2>1, SizesAssumption DEF TypeOK, ArraysOK
<1>6. ASSUME CheckFails PROVE New
  <2>1. nodes' \in Seq(Node) /\ Len(nodes') = Room
    BY <1>6, SizesAssumption, JunkArray DEF CheckFails
  <2> QED
    BY <1>6, <2>1, SizesAssumption DEF CheckFails, locals, shared, TypeOK, ArraysOK
<1>7. ASSUME Grab PROVE New
  <2>1. nodes' \in Seq(Node) /\ Len(nodes') <= Room
    BY <1>7, GrabProperties DEF Grab, Waking
  <2> QED
    BY <1>7, <1>0, <2>1, SizesAssumption DEF Grab, locals, TypeOK, ArraysOK
<1>8. ASSUME ReceiveNode PROVE New
  <2>1. [at |-> next, sync |-> next % PerTurn = 0] \in Node
    <3>1. (next % PerTurn = 0) \in BOOLEAN /\ next \in Nat
      BY DEF TypeOK, ScalarsOK
    <3> QED
      BY <3>1, Nodes
  <2>2. pos \in 1 .. Len(buf) /\ buf \in Seq(Node)
    <3>1. buf \in Seq(Node) /\ pos \in Nat \ {0} /\ count \in Nat
      BY DEF TypeOK, ScalarsOK, ArraysOK
    <3>2. Len(buf) \in Nat /\ count <= Len(buf) /\ pos <= count
      BY <1>8, <3>1, LenProperties DEF ReceiveNode, Looping
    <3> QED
      BY <3>1, <3>2
  <2>3. buf' \in Seq(Node)
    BY <1>8, <2>1, <2>2, ExceptSeq DEF ReceiveNode
  <2> QED
    BY <1>8, <2>3 DEF ReceiveNode, main, shared, TypeOK, ArraysOK
<1>9. ASSUME ReceiveCapsule PROVE New
  <2> DEFINE n == [at |-> prev, sync |-> next % PerTurn < prev % PerTurn]
  <2>1. n \in Node
    <3>1. (next % PerTurn < prev % PerTurn) \in BOOLEAN
      OBVIOUS
    <3> QED
      BY <3>1, Nodes DEF TypeOK, ScalarsOK
  <2>2. <<n>> \in Seq(Node)
    BY <2>1
  <2>3. buf' \in {buf, <<n>>, <<>>} /\ UNCHANGED <<scan, main, shared>>
    BY <1>9 DEF ReceiveCapsule
  <2> HIDE DEF n
  <2> QED
    BY <1>0, <2>2, <2>3 DEF main, shared, TypeOK, ArraysOK
<1>10. ASSUME AddNode PROVE New
  <2>1. scan' \in Seq(Node) /\ Len(scan') < MaxScan
    BY <1>10, AddProperties DEF AddNode, OneEach
  <2> QED
    BY <1>10, <2>1 DEF AddNode, main, shared, TypeOK, ArraysOK
<1>11. ASSUME Copy PROVE New
  BY <1>11 DEF Copy, locals, main, TypeOK, ArraysOK
<1>12. ASSUME Signal PROVE New
  <2>1. scan' \in Seq(Node) /\ Len(scan') < MaxScan
    BY <1>12, AddProperties DEF Signal, OneEach, Looping
  <2> QED
    BY <1>12, <2>1 DEF Signal, main, TypeOK, ArraysOK
<1>13. ASSUME \/ Disable \/ StartFails \/ WaitOK \/ WaitBlocks \/ CheckOK
                   \/ Lock \/ Show \/ Test
                   \/ NodesTimeOut \/ CapsuleTimesOut \/ Lose \/ PortFails \/ LoopEnds
                   \/ Publish \/ CacheLock \/ UNCHANGED vars
       PROVE  New
  <2>1. Same
    BY <1>13 DEF Disable, StartFails, WaitOK, WaitBlocks, CheckOK, Lock, Show, Test,
       NodesTimeOut, CapsuleTimesOut, Lose, PortFails, LoopEnds, Publish,
       CacheLock, locals, main, shared, vars
  <2> QED
    BY <1>2, <2>1
<1> QED
  <2>1. New
    BY <1>3, <1>4, <1>5, <1>6, <1>7, <1>8, <1>9, <1>10, <1>11, <1>12, <1>13
       DEF Next, Main, Cache
  <2> QED
    BY <1>1, <2>1 DEF TypeOK

\* The loop over local_buf stays inside it.
LEMMA LoopingStep ==
  TypeOK /\ Looping /\ OneEach /\ [Next]_vars => Looping'
<1> SUFFICES ASSUME TypeOK, Looping, OneEach, [Next]_vars PROVE Looping'
  OBVIOUS
<1>1. count \in Nat /\ pos \in Nat \ {0} /\ buf \in Seq(Node) /\ Len(buf) \in Nat
  BY LenProperties DEF TypeOK, ScalarsOK, ArraysOK
<1>0. <<>> \in Seq(Node) /\ Len(<<>>) = 0
  BY EmptySeq
<1> USE DEF Looping, FromStart
<1>2. ASSUME UNCHANGED <<cpc, locals>> PROVE Looping'
  BY <1>2 DEF locals
<1>3. ASSUME Join PROVE Looping'
  BY <1>0, <1>3 DEF Join
<1>4. ASSUME Start PROVE Looping'
  <2>1. Len(buf') = Batch
    BY <1>4, SizesAssumption, JunkArray DEF Start
  <2> QED
    BY <1>4, <2>1, SizesAssumption DEF Start
<1>5. ASSUME Test PROVE Looping'
  BY <1>1, <1>5 DEF Test
<1>6. ASSUME ReceiveNode PROVE Looping'
  <2>1. Len(buf') = Len(buf)
    BY <1>6 DEF ReceiveNode
  <2>2. cpc' \in {"first", "read", "test", "loop"}
    BY <1>6 DEF ReceiveNode, Reading, AfterRead
  <2>3. count' = count /\ pos' <= count + 1
    BY <1>1, <1>6 DEF ReceiveNode
  <2> QED
    BY <2>1, <2>2, <2>3
<1>7. ASSUME NodesTimeOut PROVE Looping'
  <2>1. buf' = buf /\ pos' = 1 /\ cpc' \in {"test", "loop"}
    BY <1>7 DEF NodesTimeOut, AfterRead
  <2>2. count' = count \/ count' = pos - 1
    BY <1>7 DEF NodesTimeOut
  <2>3. count' <= Len(buf) /\ 1 <= count' + 1
    BY <1>1, <2>2
  <2> QED
    BY <2>1, <2>3
<1>8. ASSUME ReceiveCapsule PROVE Looping'
  <2> DEFINE n == [at |-> prev, sync |-> next % PerTurn < prev % PerTurn]
  <2>1. \/ count' = count /\ buf' = buf
        \/ count' = 1 /\ buf' = <<n>>
        \/ count' = 0 /\ buf' = <<>>
    BY <1>8 DEF ReceiveCapsule
  <2>2. Len(<<n>>) = 1
    OBVIOUS
  <2>3. pos' = 1 /\ cpc' \in {"test", "loop"}
    BY <1>8 DEF ReceiveCapsule, AfterRead
  <2> HIDE DEF n
  <2>4. count' <= Len(buf') /\ 1 <= count' + 1
    BY <1>0, <1>1, <2>1, <2>2
  <2> QED
    BY <2>3, <2>4
<1>9. ASSUME CapsuleTimesOut \/ Lose \/ PortFails PROVE Looping'
  BY <1>9 DEF CapsuleTimesOut, Lose, PortFails, Reading, locals
<1>10. ASSUME LoopEnds \/ Publish \/ CacheLock \/ Copy PROVE Looping'
  BY <1>10 DEF LoopEnds, Publish, CacheLock, Copy, locals
<1>11. ASSUME AddNode \/ Signal PROVE Looping'
  BY <1>1, <1>11 DEF AddNode, Signal, Add
<1>12. ASSUME \/ Disable \/ StartFails \/ WaitOK \/ WaitBlocks
                   \/ WaitTimesOut \/ WaitFails \/ CheckFails
                   \/ CheckOK \/ Lock \/ Grab \/ Show \/ UNCHANGED vars
       PROVE  Looping'
  <2>1. UNCHANGED <<cpc, locals>>
    BY <1>12 DEF Disable, StartFails, WaitOK, WaitBlocks, WaitTimesOut,
       WaitFails, CheckFails, CheckOK,
       Lock, Grab, Show, vars
  <2> QED
    BY <1>2, <2>1
<1> QED
  BY <1>3, <1>4, <1>5, <1>6, <1>7, <1>8, <1>9, <1>10, <1>11, <1>12
     DEF Next, Main, Cache

\* One thread at a time holds the lock.
LEMMA LockingStep == TypeOK /\ Locking /\ [Next]_vars => Locking'
<1> SUFFICES ASSUME ScalarsOK, Locking, [Next]_vars PROVE Locking'
  BY DEF TypeOK
<1> USE DEF ScalarsOK, Locking, shared, main
<1>1. CASE Disable \/ StartFails \/ Show
  BY <1>1 DEF Disable, StartFails, Show
<1>2. CASE Join \/ Start
  BY <1>2 DEF Join, Start
<1>3. CASE WaitOK \/ WaitBlocks \/ WaitTimesOut \/ WaitFails \/ CheckFails
                     \/ CheckOK
  BY <1>3 DEF WaitOK, WaitBlocks, WaitTimesOut, WaitFails, CheckFails, CheckOK
<1>4. CASE Lock \/ Grab
  BY <1>4 DEF Lock, Grab
<1>5. CASE Test \/ ReceiveNode \/ NodesTimeOut \/ ReceiveCapsule
  BY <1>5 DEF Test, ReceiveNode, NodesTimeOut, ReceiveCapsule, Reading, AfterRead
<1>6. CASE CapsuleTimesOut \/ Lose \/ PortFails
  BY <1>6 DEF CapsuleTimesOut, Lose, PortFails, Reading
<1>7. CASE LoopEnds \/ AddNode \/ Publish
  BY <1>7 DEF LoopEnds, AddNode, Publish
<1>8. CASE CacheLock \/ Copy \/ Signal
  BY <1>8 DEF CacheLock, Copy, Signal
<1>9. CASE UNCHANGED vars
  BY <1>9 DEF vars
<1> QED
  BY <1>1, <1>2, <1>3, <1>4, <1>5, <1>6, <1>7, <1>8, <1>9 DEF Next, Main, Cache

\* No scan is left without its event.
LEMMA WakingStep ==
  TypeOK /\ Locking /\ Looping /\ Waking /\ [Next]_vars => Waking'
<1> SUFFICES ASSUME ScalarsOK, Locking, Looping, Waking, [Next]_vars PROVE Waking'
  BY DEF TypeOK
<1> USE DEF ScalarsOK, Locking, Waking, shared, main
<1>1. CASE Disable \/ StartFails \/ Show
  BY <1>1 DEF Disable, StartFails, Show
<1>2. CASE Join \/ Start
  BY <1>2 DEF Join, Start
<1>3. CASE WaitOK \/ WaitBlocks \/ WaitTimesOut \/ WaitFails \/ CheckFails
                     \/ CheckOK
  BY <1>3 DEF WaitOK, WaitBlocks, WaitTimesOut, WaitFails, CheckFails, CheckOK
<1>4. CASE Lock \/ Grab
  BY <1>4 DEF Lock, Grab
<1>5. CASE Test \/ ReceiveNode \/ NodesTimeOut \/ ReceiveCapsule
  BY <1>5 DEF Test, ReceiveNode, NodesTimeOut, ReceiveCapsule, Reading, AfterRead
<1>6. CASE CapsuleTimesOut \/ Lose \/ PortFails
  BY <1>6 DEF CapsuleTimesOut, Lose, PortFails, Reading
<1>7. CASE LoopEnds \/ AddNode \/ Publish
  BY <1>7 DEF LoopEnds, AddNode, Publish
<1>8. CASE CacheLock
  BY <1>8 DEF CacheLock
<1>9. CASE Copy
  <2>1. scan # <<>>
    BY <1>9 DEF Copy, Looping, FromStart
  <2> QED
    BY <1>9, <2>1 DEF Copy
<1>10. CASE Signal
  BY <1>10 DEF Signal
<1>11. CASE UNCHANGED vars
  BY <1>11 DEF vars
<1> QED
  BY <1>1, <1>2, <1>3, <1>4, <1>5, <1>6, <1>7, <1>8, <1>9, <1>10, <1>11
     DEF Next, Main, Cache

\* A turn keeps its one first node on its way to the caller.
LEMMA OneEachStep == IInv /\ [Next]_vars => OneEach'
<1> SUFFICES ASSUME IInv, [Next]_vars PROVE OneEach'
  OBVIOUS
<1> DEFINE Same == UNCHANGED <<scan, cached, result, nodes>>
<1>0. OneAtMost(<<>>)
  BY EmptySeq DEF OneAtMost
<1>i. TypeOK /\ Looping /\ Locking /\ Waking /\ OneEach
  BY DEF IInv
<1>1. Same => OneEach'
  BY <1>i DEF OneEach, OneAtMost, OneStart
<1>2. ASSUME Join \/ Start PROVE OneEach'
  <2>1. scan' = <<>> /\ UNCHANGED <<cached, result, nodes>>
    BY <1>2 DEF Join, Start, shared
  <2> QED
    BY <1>0, <1>i, <2>1 DEF OneEach, OneAtMost, OneStart
<1>3. ASSUME WaitTimesOut \/ WaitFails \/ CheckFails PROVE OneEach'
  <2>1. result' \in {"timeout", "failed"} /\ UNCHANGED <<scan, cached>>
    BY <1>3 DEF WaitTimesOut, WaitFails, CheckFails, locals, shared
  <2> QED
    BY <1>i, <2>1 DEF OneEach, OneAtMost, OneStart
<1>4. ASSUME Grab PROVE OneEach'
  <2>1. cached # <<>>
    BY <1>4, <1>i DEF Grab, Waking
  <2>2. /\ nodes' \in Seq(Node) /\ nodes' # <<>> /\ Len(nodes') <= Len(cached)
        /\ \A i \in 1 .. Len(nodes') : nodes'[i] = cached[i]
    BY <1>4, <1>i, <2>1, GrabProperties
  <2>3. Len(nodes') \in Nat \ {0} /\ Len(cached) \in Nat
    BY <1>i, <2>2, EmptySeq, LenProperties DEF TypeOK, ArraysOK
  <2>4. nodes'[1] = cached[1] /\ cached[1].sync
    BY <1>i, <2>1, <2>2, <2>3 DEF OneEach
  <2>5. \A i \in 2 .. Len(nodes') : ~nodes'[i].sync
    <3>1. TAKE i \in 2 .. Len(nodes')
    <3>2. i \in 1 .. Len(nodes') /\ i \in 2 .. Len(cached)
      BY <2>2, <2>3
    <3> QED
      BY <1>i, <2>2, <3>2 DEF OneEach, OneAtMost
  <2>6. cached' = <<>> /\ scan' = scan
    BY <1>4 DEF Grab, locals
  <2> QED
    BY <1>0, <1>i, <2>2, <2>4, <2>5, <2>6 DEF OneEach, OneAtMost, OneStart
<1>5. ASSUME AddNode \/ Signal PROVE OneEach'
  <2>1. pos <= count /\ Add /\ UNCHANGED <<cached, result, nodes>>
    BY <1>5, <1>i DEF AddNode, Signal, Looping, main, shared
  <2>2. OneAtMost(scan')
    BY <1>i, <2>1, AddProperties DEF OneEach
  <2> QED
    BY <1>i, <2>1, <2>2 DEF OneEach, OneAtMost, OneStart
<1>6. ASSUME Copy PROVE OneEach'
  <2>1. cached' = scan /\ scan[1].sync /\ UNCHANGED <<scan, result, nodes>>
    BY <1>6, <1>i DEF Copy, Looping, FromStart, locals, main
  <2> QED
    BY <1>i, <2>1 DEF OneEach, OneAtMost, OneStart
<1>7. ASSUME \/ Disable \/ StartFails \/ WaitOK \/ WaitBlocks \/ CheckOK
                  \/ Lock \/ Show \/ Test
                  \/ ReceiveNode \/ NodesTimeOut \/ ReceiveCapsule
                  \/ CapsuleTimesOut \/ Lose \/ PortFails \/ LoopEnds \/ Publish
                  \/ CacheLock \/ UNCHANGED vars
       PROVE OneEach'
  <2>1. Same \/ (result' = result /\ UNCHANGED <<scan, cached, nodes>>)
    BY <1>7 DEF Disable, StartFails, WaitOK, WaitBlocks, CheckOK, Lock, Show,
       Test, ReceiveNode,
       NodesTimeOut, ReceiveCapsule, CapsuleTimesOut, Lose, PortFails, LoopEnds,
       Publish, CacheLock, locals, main, shared, vars
  <2> QED
    BY <1>1, <2>1
<1> QED
  BY <1>2, <1>3, <1>4, <1>5, <1>6, <1>7 DEF Next, Main, Cache

-----------------------------------------------------------------------------
(* The invariant, and the theorems. *)

\* The first states satisfy the invariant.
LEMMA InitInvariant == Init => IInv
<1> SUFFICES ASSUME Init PROVE IInv
  OBVIOUS
<1>0. <<>> \in Seq(Node) /\ Len(<<>>) = 0
  BY EmptySeq
<1>1. TypeOK
  <2>1. ScalarsOK
    <3>1. rdy \in BOOLEAN
      BY Zenon DEF Init
    <3>2. express \in BOOLEAN /\ isScanning \in BOOLEAN /\ dataEvt \in BOOLEAN
      BY DEF Init
    <3>3. harmed \subseteq {-1} \cup Nat
      BY DEF Init
    <3>4. next \in Nat /\ start \in Nat /\ count \in Nat /\ pos \in Nat \ {0}
      BY DEF Init
    <3>5. /\ cpc = "none" /\ prev = -1 /\ mpc = "disable" /\ result = "timeout"
          /\ lock = "free"
      BY DEF Init
    <3> QED
      BY <3>1, <3>2, <3>3, <3>4, <3>5 DEF ScalarsOK
  <2>2. ArraysOK /\ Len(scan) < MaxScan /\ Len(cached) < MaxScan /\ Len(nodes) <= Room
    BY <1>0, SizesAssumption DEF Init, ArraysOK
  <2> QED
    BY <2>1, <2>2 DEF TypeOK
<1>2. Looping /\ Locking /\ Waking
  BY <1>0 DEF Init, Looping, Locking, Waking
<1>3. OneEach
  BY <1>0 DEF Init, OneEach, OneAtMost, OneStart
<1> QED
  BY <1>1, <1>2, <1>3 DEF IInv

\* The invariant holds of every behaviour.
LEMMA Invariant == Spec => []IInv
<1>1. IInv /\ [Next]_vars => IInv'
  BY TypeStep, LoopingStep, LockingStep, WakingStep, OneEachStep DEF IInv
<1> QED
  BY InitInvariant, <1>1, PTL DEF Spec

\* For every length of a turn and size of the arrays, every variable has its
\* type and neither local_scan, the cached scan nor the caller's array is
\* overrun.
THEOREM TypeCorrect == Spec => []TypeOK
<1>1. IInv => TypeOK
  BY DEF IInv
<1> QED
  BY Invariant, <1>1, PTL

\* A thread in Event::wait() is woken for every scan that has been published
\* and not grabbed: no wake-up is lost, across restarts either.
THEOREM ScanNotMissed == Spec => []NoScanMissed
<1>1. IInv => NoScanMissed
  BY DEF IInv, Waking, NoScanMissed
<1> QED
  BY Invariant, <1>1, PTL

\* What grabScanData() returns begins with the first node of a turn, and holds
\* no other first node, whatever was lost, late or left over from before.
THEOREM OneStartKept == Spec => []OneStart
<1>1. IInv => OneStart
  BY DEF IInv, OneEach
<1> QED
  BY Invariant, <1>1, PTL

\* The threads implement the slot that rplidar_driver.h promises.
THEOREM SlotImplemented == Spec => ImplementsSlot
<1> DEFINE g == IF result = "ok" THEN nodes ELSE <<>>
           w == mpc = "blocked"
<1>1. Init => Promise!Init
  BY DEF Init, Promise!Init, slot
<1>2. ASSUME IInv, IInv', [Next]_vars PROVE [Promise!Next]_<<slot, g, w>>
  <2> DEFINE Idle == slot' = slot /\ g' = g /\ w' = w
  <2>i. ScalarsOK /\ Waking /\ Waking' /\ Locking /\ OneEach
    BY <1>2 DEF IInv, TypeOK
  <2> SUFFICES Promise!Next \/ Idle
    OBVIOUS
  <2>1. CASE Disable \/ StartFails \/ Show
    BY <2>1 DEF Disable, StartFails, Show, shared, slot
  <2>2. CASE Join \/ Start
    BY <2>2 DEF Join, Start, shared, slot
  <2>3. CASE CheckOK \/ Lock
    BY <2>3 DEF CheckOK, Lock, shared, slot
  <2>4. CASE WaitOK
    <3>1. slot' = slot /\ g' = g /\ ~w'
      BY <2>4 DEF WaitOK, slot
    <3>2. CASE w
      BY <3>1, <3>2 DEF Promise!Next, Promise!Wake
    <3>3. CASE ~w
      BY <3>1, <3>3
    <3> QED
      BY <3>2, <3>3
  <2>5. CASE WaitBlocks
    BY <2>5 DEF WaitBlocks, shared, slot, Promise!Next, Promise!Wait
  <2>6. CASE WaitTimesOut \/ WaitFails
    <3>1. w /\ ~w' /\ slot' = slot /\ g' = <<>>
      BY <2>6 DEF WaitTimesOut, WaitFails, shared, slot
    <3> QED
      BY <3>1 DEF Promise!Next, Promise!Miss
  <2>7. CASE CheckFails
    BY <2>7 DEF CheckFails, shared, slot, Promise!Next, Promise!Miss
  <2>8. CASE Grab
    <3>1. slot = cached /\ cached # <<>> /\ slot' = <<>>
      BY <2>8, <2>i DEF Grab, Waking, slot
    <3>2. g' = SubSeq(slot, 1, IF Len(slot) < Room THEN Len(slot) ELSE Room)
      BY <2>8, <3>1 DEF Grab
    <3> QED
      BY <2>8, <3>1, <3>2 DEF Grab, Promise!Next, Promise!Take
  <2>9. CASE Copy
    <3>1. scan # <<>> /\ scan \in Seq(Node) /\ cached' = scan
      BY <1>2, <2>9 DEF Copy, IInv, Looping, FromStart, TypeOK, ArraysOK
    <3>2. g' = g /\ w' = w /\ dataEvt' = dataEvt /\ mpc' = mpc
      BY <2>9 DEF Copy, main
    <3> QED
      BY <3>1, <3>2 DEF slot, Promise!Next, Promise!Put
  <2>10. CASE Signal
    <3>1. g' = g /\ w' = w /\ cached' = cached /\ dataEvt'
      BY <2>10 DEF Signal, main
    <3>2. slot' = cached
      BY <3>1 DEF slot
    <3>3. CASE cached = <<>>
      BY <3>1, <3>2, <3>3 DEF slot
    <3>4. CASE cached # <<>>
      <4>1. cached \in Seq(Node)
        BY <1>2 DEF IInv, TypeOK, ArraysOK
      <4> QED
        BY <3>1, <3>2, <3>4, <4>1 DEF Promise!Next, Promise!Put
    <3> QED
      BY <3>3, <3>4
  <2>11. CASE Test \/ ReceiveNode \/ NodesTimeOut \/ ReceiveCapsule \/ CapsuleTimesOut
             \/ Lose \/ PortFails \/ LoopEnds \/ AddNode \/ Publish \/ CacheLock
             \/ UNCHANGED vars
    <3>1. UNCHANGED <<mpc, nodes, result, dataEvt, cached>>
      BY <2>11 DEF Test, ReceiveNode, NodesTimeOut, ReceiveCapsule, CapsuleTimesOut,
         Lose, PortFails, LoopEnds, AddNode, Publish, CacheLock, main, shared, vars
    <3> QED
      BY <3>1 DEF slot
  <2> QED
    BY <1>2, <2>1, <2>2, <2>3, <2>4, <2>5, <2>6, <2>7, <2>8, <2>9, <2>10, <2>11
       DEF Next, Main, Cache
<1> QED
  BY Invariant, <1>1, <1>2, PTL DEF Spec, ImplementsSlot, Promise!Spec

-----------------------------------------------------------------------------
(* The samples on their way: what the order of the stream makes of them. *)

\* The part of local_buf that is still to go into local_scan: what has been
\* read of it so far, then what the loop over it has not come to.
Lo == IF cpc = "read" THEN 1 ELSE pos
Hi == CASE cpc = "read" -> IF express THEN 0 ELSE pos - 1
        [] cpc \in {"loop", "lock", "copy", "signal"} -> count
        [] OTHER -> 0

\* The capsule before is there, and the next one makes nodes of it.
Ready == express /\ rdy /\ next # start

\* The next sample to come into local_buf, the one at i of what is there, and
\* the next to come into local_scan.
Coming  == IF Ready THEN prev ELSE next
From(i) == IF i \in Lo .. Hi THEN buf[i].at ELSE Coming
Done    == From(Lo)

\* No nodes left in local_buf have been scanned again.
Streaming == express \/ harmed # Samples

\* All of s was sent before p.
Before(s, p) == \A i \in 1 .. Len(s) : s[i].at < p

\* Nothing is held that the lidar has not sent; a capsule that is kept is the
\* last one that came.
Numbered ==
  /\ start <= next /\ next <= MaxSample + 1
  /\ ~express => harmed \subseteq Samples
  /\ Before(buf, next) /\ Before(scan, next)
  /\ Before(cached, next) /\ Before(nodes, next)
  /\ Ready => prev + 1 = next
  /\ cpc = "first" => scan = <<>> /\ ~Ready

\* The sample at i of local_buf and the one after it: none of those between
\* them has come through.
Linked(i) ==
  /\ buf[i].at \in Nat /\ buf[i].at < From(i + 1)
  /\ buf[i].at + 1 .. From(i + 1) - 1 \subseteq harmed
  /\ buf[i].sync <=> Begins(buf[i].at)

Linking == Streaming => \A i \in Lo .. Hi : Linked(i)

\* What is in the arrays was sent in the order it went through them.
Ordered ==
  Streaming =>
    /\ Before(scan, Done) /\ Before(cached, Done) /\ Before(nodes, Done)
    /\ scan # <<>> => /\ scan[1].at \in Nat /\ Before(nodes, scan[1].at)
                      /\ cpc # "signal" => Before(cached, scan[1].at)
    /\ cached # <<>> => cached[1].at \in Nat /\ Before(nodes, cached[1].at)

Consecutive(s) == \A i \in 1 .. Len(s) : s[i].at = s[1].at + i - 1

Least(a, b) == IF a < b THEN a ELSE b

\* A turn that has begun at a is in local_scan up to Done, as much as there is
\* room for, if nothing of it was harmed; and if the thread is past the turn
\* without having published it, something was.
GrownFrom(a) ==
  /\ Begins(a)
  /\ (a .. Done - 1) \cap harmed = {}
       => Consecutive(scan) /\ Len(scan) = Least(Done - a, MaxScan - 1)
  /\ Done > a + PerTurn => Needs(a) \cap harmed # {}

Growing ==
  Streaming /\ FromStart /\ cpc \notin {"none", "gone"}
    => \E a \in Nat : scan[1].at = a /\ GrownFrom(a)

\* A turn nothing of which was harmed is published whole, or as much of it as
\* local_scan has room for.
Whole(s) ==
  Begins(s[1].at) /\ Consecutive(s) /\ Len(s) = Least(PerTurn, MaxScan - 1)

Published ==
  Streaming /\ cached # <<>>
    => \A a \in Nat : cached[1].at = a /\ Needs(a) \cap harmed = {} => Whole(cached)

\* What the order of the stream adds to the invariant.
TurnInv == IInv /\ Numbered /\ Linking /\ Ordered /\ Growing /\ Published

\* The samples of a stream are not renumbered: what was harmed stays so, and
\* the two kinds of lidar do not change into each other.
LEMMA StreamGoesOn ==
  ASSUME TypeOK, Numbered, [Next]_vars
  PROVE  /\ express' = express /\ MaxSample' = MaxSample /\ Samples' = Samples
         /\ next <= next' /\ harmed \subseteq harmed'
         /\ Streaming' => Streaming
<1>0. next \in Nat
  BY DEF TypeOK, ScalarsOK
<1>1. express' = express /\ next <= next'
  <2>1. CASE Start
    BY <2>1, <1>0 DEF Start
  <2>2. CASE ReceiveNode \/ ReceiveCapsule \/ Lose
    BY <2>2, <1>0 DEF ReceiveNode, ReceiveCapsule, Lose
  <2>3. CASE \/ Disable \/ Join \/ StartFails \/ WaitOK \/ WaitBlocks
             \/ WaitTimesOut \/ WaitFails \/ CheckFails
             \/ CheckOK \/ Lock \/ Grab \/ Show \/ Test \/ NodesTimeOut
             \/ CapsuleTimesOut \/ PortFails \/ LoopEnds \/ AddNode \/ Publish
             \/ CacheLock \/ Copy \/ Signal \/ UNCHANGED vars
    <3>1. UNCHANGED lidar
      BY <2>3 DEF Disable, Join, StartFails, WaitOK, WaitBlocks, WaitTimesOut,
         WaitFails, CheckFails, CheckOK,
         Lock, Grab, Show, Test, NodesTimeOut, CapsuleTimesOut, PortFails, LoopEnds,
         AddNode, Publish, CacheLock, Copy, Signal, vars
    <3> QED
      BY <3>1, <1>0 DEF lidar
  <2> QED
    BY <2>1, <2>2, <2>3 DEF Next, Main, Cache
<1>2. MaxSample' = MaxSample /\ Samples' = Samples
  BY <1>1 DEF MaxSample, Samples
<1>3. /\ harmed \subseteq harmed'
      /\ ~express /\ harmed = Samples => harmed' = Samples
  <2>1. CASE NodesTimeOut
    BY <2>1 DEF NodesTimeOut, Numbered
  <2>2. CASE CapsuleTimesOut
    BY <2>2 DEF CapsuleTimesOut
  <2>3. CASE Lose
    <3>1. next \in Samples /\ harmed' = harmed \cup {next}
      BY <2>3, <1>0, SizesAssumption DEF Lose, Samples, MaxSample
    <3> QED
      BY <3>1
  <2>4. CASE \/ Disable \/ Join \/ Start \/ StartFails \/ WaitOK
             \/ WaitBlocks \/ WaitTimesOut \/ WaitFails
             \/ CheckFails \/ CheckOK \/ Lock \/ Grab \/ Show \/ Test \/ ReceiveNode
             \/ ReceiveCapsule \/ PortFails \/ LoopEnds \/ AddNode \/ Publish
             \/ CacheLock \/ Copy \/ Signal \/ UNCHANGED vars
    <3>1. harmed' = harmed
      BY <2>4 DEF Disable, Join, Start, StartFails, WaitOK, WaitBlocks,
         WaitTimesOut, WaitFails, CheckFails,
         CheckOK, Lock, Grab, Show, Test, ReceiveNode, ReceiveCapsule, PortFails,
         LoopEnds, AddNode, Publish, CacheLock, Copy, Signal, vars
    <3> QED
      BY <3>1
  <2> QED
    BY <2>1, <2>2, <2>3, <2>4 DEF Next, Main, Cache
<1> QED
  BY <1>1, <1>2, <1>3 DEF Streaming

\* What was sent before p was sent before whatever comes later.
LEMMA BeforeLater ==
  ASSUME NEW s \in Seq(Node), NEW p \in Int, NEW q \in Int, p <= q, Before(s, p)
  PROVE  Before(s, q)
<1> SUFFICES ASSUME NEW i \in 1 .. Len(s)
             PROVE  s[i].at < q
  BY DEF Before
<1>1. s[i] \in Node /\ s[i].at < p
  BY ElementOfSeq DEF Before
<1>2. s[i].at \in Int
  BY <1>1 DEF Node
<1> QED
  BY <1>1, <1>2

\* What nobody has written is no sample.
LEMMA JunkBefore ==
  ASSUME NEW n \in Nat, NEW s \in [1 .. n -> Junk], NEW p \in Nat
  PROVE  Before(s, p)
<1> SUFFICES ASSUME NEW i \in 1 .. Len(s)
             PROVE  s[i].at < p
  BY DEF Before
<1>1. Len(s) = n
  BY JunkArray
<1>2. s[i] \in Junk
  BY <1>1
<1> QED
  BY <1>2 DEF Junk

\* The node at hand is one of local_buf.
LEMMA AtHand ==
  ASSUME TypeOK, Looping, pos <= count
  PROVE  pos \in 1 .. Len(buf) /\ buf[pos] \in Node
<1>1. buf \in Seq(Node) /\ pos \in Nat \ {0} /\ count \in Nat
  BY DEF TypeOK, ScalarsOK, ArraysOK
<1>2. Len(buf) \in Nat /\ count <= Len(buf)
  BY <1>1, LenProperties DEF Looping
<1>3. pos \in 1 .. Len(buf)
  BY <1>1, <1>2
<1> QED
  BY <1>1, <1>3, ElementOfSeq

\* The node at hand joins local_scan at its end, or begins it, or is dropped.
LEMMA AddBefore ==
  ASSUME TypeOK, Looping, pos <= count, Add,
         NEW p \in Int, Before(scan, p), buf[pos].at < p
  PROVE  Before(scan', p)
<1>1. buf[pos] \in Node /\ scan \in Seq(Node) /\ Len(scan) \in Nat
  BY AtHand, LenProperties DEF TypeOK, ArraysOK
<1>2. CASE scan' = <<buf[pos]>>
  <2>1. Len(scan') = 1 /\ scan'[1] = buf[pos]
    BY <1>2
  <2> QED
    BY <2>1 DEF Before
<1>3. CASE scan' = Append(scan, buf[pos])
  <2>1. /\ Len(scan') = Len(scan) + 1
        /\ \A i \in 1 .. Len(scan) : scan'[i] = scan[i]
        /\ scan'[Len(scan) + 1] = buf[pos]
    BY <1>1, <1>3, AppendProperties
  <2> SUFFICES ASSUME NEW i \in 1 .. Len(scan')
               PROVE  scan'[i].at < p
    BY DEF Before
  <2>2. i \in 1 .. Len(scan) \/ i = Len(scan) + 1
    BY <1>1, <2>1
  <2> QED
    BY <2>1, <2>2 DEF Before
<1>4. CASE scan' = scan
  BY <1>4 DEF Before
<1> QED
  BY <1>2, <1>3, <1>4 DEF Add

\* Only what was sent is held, and a capsule is kept until the next is there.
LEMMA NumberedStep ==
  ASSUME IInv, Numbered, [Next]_vars
  PROVE  Numbered'
<1>0. /\ TypeOK /\ Looping /\ Waking /\ ScalarsOK /\ ArraysOK
      /\ next \in Nat /\ start \in Nat /\ next' \in Nat /\ MaxSample \in Nat
  <2>1. TypeOK /\ Looping /\ Waking /\ ScalarsOK /\ ArraysOK
    BY DEF IInv, TypeOK
  <2>2. ScalarsOK'
    BY <2>1, ScalarsStep
  <2> QED
    BY <2>1, <2>2, SizesAssumption DEF ScalarsOK, MaxSample
<1>1. /\ express' = express /\ MaxSample' = MaxSample /\ Samples' = Samples
      /\ next <= next'
  BY <1>0, StreamGoesOn
<1> DEFINE Bounds == start' <= next' /\ next' <= MaxSample + 1
           Harm   == ~express => harmed' \subseteq Samples
           Arrays == /\ Before(buf', next') /\ Before(scan', next')
                     /\ Before(cached', next') /\ Before(nodes', next')
           Kept   == Ready' => prev' + 1 = next'
           First  == cpc' = "first" => scan' = <<>> /\ ~Ready'
<1>2. Harm
  <2>1. harmed' = harmed \/ harmed' = Samples \/ Lose \/ CapsuleTimesOut
    BY DEF Next, Main, Cache, Disable, Join, Start, StartFails, WaitOK,
       WaitBlocks, WaitTimesOut, WaitFails,
       CheckFails, CheckOK, Lock, Grab, Show, Test, ReceiveNode, NodesTimeOut,
       ReceiveCapsule, PortFails, LoopEnds, AddNode, Publish, CacheLock, Copy,
       Signal, vars
  <2>2. CASE Lose
    <3>1. next \in Samples /\ harmed' = harmed \cup {next}
      BY <2>2, <1>0, SizesAssumption DEF Lose, Samples, MaxSample
    <3> QED
      BY <3>1 DEF Numbered
  <2>3. CASE CapsuleTimesOut
    BY <2>3 DEF CapsuleTimesOut
  <2> QED
    BY <2>1, <2>2, <2>3 DEF Numbered
<1>3. ASSUME NEW s \in Seq(Node), Before(s, next) PROVE Before(s, next')
  BY <1>0, <1>1, <1>3, BeforeLater
<1>4. /\ Before(buf, next') /\ Before(scan, next')
      /\ Before(cached, next') /\ Before(nodes, next')
  BY <1>0, <1>3 DEF Numbered, ArraysOK
<1>5. Before(<<>>, next')
  BY EmptySeq DEF Before
<1> SUFFICES Bounds /\ Arrays /\ Kept /\ First
  BY <1>1, <1>2 DEF Numbered
<1>6. CASE \/ Disable \/ StartFails \/ WaitOK \/ WaitBlocks \/ CheckOK
              \/ Lock \/ Show \/ UNCHANGED vars
  <2>1. UNCHANGED <<lidar, cpc, locals, capsule, nodes, cached>>
    BY <1>6 DEF Disable, StartFails, WaitOK, WaitBlocks, CheckOK, Lock, Show,
       vars, main, shared
  <2> QED
    BY <2>1, <1>4 DEF lidar, locals, capsule, Numbered, Ready
<1>7. CASE WaitTimesOut \/ WaitFails \/ CheckFails
  <2>1. UNCHANGED <<lidar, cpc, locals, capsule, cached>>
    BY <1>7 DEF WaitTimesOut, WaitFails, CheckFails, shared
  <2>2. Before(nodes', next')
    BY <1>0, <1>5, <1>7, SizesAssumption, JunkBefore DEF WaitTimesOut, WaitFails,
       CheckFails
  <2> QED
    BY <2>1, <2>2, <1>4 DEF lidar, locals, capsule, Numbered, Ready
<1>8. CASE Grab
  <2>1. UNCHANGED <<lidar, cpc, locals, capsule>> /\ cached' = <<>>
    BY <1>8 DEF Grab
  <2>2. Before(nodes', next')
    <3>1. /\ nodes' \in Seq(Node) /\ Len(nodes') <= Len(cached)
          /\ \A i \in 1 .. Len(nodes') : nodes'[i] = cached[i]
      BY <1>0, <1>8, GrabProperties DEF Grab, Waking
    <3>2. Len(nodes') \in Nat /\ Len(cached) \in Nat
      BY <1>0, <3>1, LenProperties DEF ArraysOK
    <3>3. \A i \in 1 .. Len(nodes') : i \in 1 .. Len(cached)
      BY <3>1, <3>2
    <3> QED
      BY <1>4, <3>1, <3>3 DEF Before
  <2> QED
    BY <2>1, <2>2, <1>4, <1>5 DEF lidar, locals, capsule, Numbered, Ready
<1>9. CASE Join
  <2>1. /\ UNCHANGED <<lidar, capsule, nodes, cached>> /\ buf' = <<>> /\ scan' = <<>>
        /\ cpc' = "none"
    BY <1>9 DEF Join, shared
  <2> QED
    BY <2>1, <1>4, <1>5 DEF lidar, capsule, Numbered, Ready
<1>10. CASE Start
  <2>1. /\ next' <= MaxSample /\ next <= next'
        /\ start' = IF express THEN next' ELSE start
        /\ scan' = <<>> /\ UNCHANGED <<express, capsule, nodes, cached>>
        /\ buf' \in [1 .. Batch -> Junk]
    BY <1>1, <1>10 DEF Start
  <2>2. Before(buf', next')
    BY <1>0, <2>1, SizesAssumption, JunkBefore
  <2>3. ~Ready' /\ start' <= next'
    BY <1>0, <2>1 DEF Ready, Numbered
  <2> QED
    BY <1>0, <1>4, <1>5, <2>1, <2>2, <2>3
<1>11. CASE \/ Test \/ NodesTimeOut \/ PortFails \/ LoopEnds \/ Publish \/ CacheLock
  <2>1. UNCHANGED <<lidar, buf, scan, capsule, nodes, cached>> /\ cpc' # "first"
    BY <1>11 DEF Test, NodesTimeOut, PortFails, LoopEnds, Publish, CacheLock,
       locals, main, shared, AfterRead
  <2> QED
    BY <2>1, <1>4 DEF lidar, capsule, Numbered, Ready
<1>12. CASE Copy
  <2>1. UNCHANGED <<lidar, locals, capsule, nodes>> /\ cached' = scan /\ cpc' = "signal"
    BY <1>12 DEF Copy, main
  <2> QED
    BY <2>1, <1>4 DEF lidar, locals, capsule, Numbered, Ready
<1>13. CASE ReceiveNode
  <2> DEFINE n == [at |-> next, sync |-> next % PerTurn = 0]
  <2>1. /\ ~express /\ next' = next + 1 /\ next <= MaxSample
        /\ UNCHANGED <<express, start, count, scan, nodes, cached>>
        /\ pos <= count /\ buf' = [buf EXCEPT ![pos] = n]
    BY <1>13 DEF ReceiveNode, main, shared
  <2>2. Before(buf', next')
    <3>1. Len(buf') = Len(buf)
      BY <2>1 DEF Before
    <3>2. ASSUME NEW i \in 1 .. Len(buf) PROVE buf'[i].at < next'
      <4>1. buf \in Seq(Node)
        BY <1>0 DEF ArraysOK
      <4>2. buf'[i] = IF i = pos THEN n ELSE buf[i]
        BY <2>1, <4>1
      <4>3. buf[i].at < next' /\ n.at = next /\ next < next'
        BY <1>0, <1>4, <2>1 DEF Before
      <4> QED
        BY <4>2, <4>3
    <3> QED
      BY <3>1, <3>2 DEF Before
  <2>3. cpc' = "first" => cpc = "first"
    BY <1>13 DEF ReceiveNode, AfterRead
  <2>4. start' <= next' /\ next' <= MaxSample + 1
    BY <1>0, <2>1 DEF Numbered
  <2> QED
    BY <1>4, <2>1, <2>2, <2>3, <2>4 DEF Ready, Numbered
<1>14. CASE ReceiveCapsule
  <2> DEFINE n == [at |-> prev, sync |-> next % PerTurn < prev % PerTurn]
  <2>1. /\ express /\ next' = next + 1 /\ next <= MaxSample
        /\ UNCHANGED <<express, start, scan, nodes, cached>>
        /\ cpc' # "first"
        /\ \/ cpc = "first" /\ rdy' = (rdy /\ next # start) /\ buf' = buf
           \/ cpc # "first" /\ buf' = (IF Ready THEN <<n>> ELSE <<>>) /\ prev' = next
    BY <1>14 DEF ReceiveCapsule, Ready, AfterRead, main, shared
  <2>2. start' <= next' /\ next' <= MaxSample + 1
    BY <1>0, <2>1 DEF Numbered
  <2>3. Ready' => prev' + 1 = next'
    <3>1. CASE cpc = "first"
      <4>1. ~rdy'
        BY <2>1, <3>1 DEF Numbered, Ready
      <4> QED
        BY <4>1 DEF Ready
    <3>2. CASE cpc # "first"
      BY <2>1, <3>2
    <3> QED
      BY <3>1, <3>2
  <2>4. Before(buf', next')
    <3>1. CASE buf' = <<n>> /\ Ready
      <4>1. prev + 1 = next /\ prev \in Int
        BY <1>0, <3>1 DEF Numbered, ScalarsOK
      <4>2. n.at < next'
        BY <1>0, <2>1, <4>1
      <4> HIDE DEF n
      <4>3. Len(buf') = 1 /\ buf'[1] = n
        BY <3>1
      <4> QED
        BY <4>2, <4>3 DEF Before
    <3> QED
      BY <1>4, <1>5, <2>1, <3>1
  <2> QED
    BY <1>4, <2>1, <2>2, <2>3, <2>4
<1>15. CASE CapsuleTimesOut
  <2>1. /\ UNCHANGED <<lidar, locals, prev, nodes, cached>> /\ cpc' = "test"
        /\ rdy' \in {rdy, FALSE}
    BY <1>15 DEF CapsuleTimesOut, main, shared
  <2>2. Ready' => Ready
    BY <2>1 DEF Ready, lidar
  <2> QED
    BY <1>4, <2>1, <2>2 DEF lidar, locals, Numbered
<1>16. CASE Lose
  <2>1. /\ next' = next + 1 /\ next <= MaxSample
        /\ UNCHANGED <<express, start, locals, prev, nodes, cached>>
        /\ cpc' = "first" => cpc = "first"
        /\ ~Ready'
    BY <1>16 DEF Lose, Ready, main, shared
  <2>2. start' <= next' /\ next' <= MaxSample + 1
    BY <1>0, <2>1 DEF Numbered
  <2> QED
    BY <1>4, <2>1, <2>2 DEF locals, Numbered
<1>17. CASE AddNode \/ Signal
  <2>1. /\ Add /\ pos <= count /\ cpc' = "loop"
        /\ UNCHANGED <<lidar, buf, count, capsule, nodes, cached>>
    BY <1>0, <1>17 DEF AddNode, Signal, Looping, main, shared
  <2>2. buf[pos].at < next'
    BY <1>0, <1>4, <2>1, AtHand DEF Before
  <2>3. Before(scan', next')
    BY <1>0, <1>4, <2>1, <2>2, AddBefore
  <2> QED
    BY <1>4, <2>1, <2>3 DEF lidar, capsule, Numbered, Ready
<1> QED
  BY <1>6, <1>7, <1>8, <1>9, <1>10, <1>11, <1>12, <1>13, <1>14, <1>15, <1>16, <1>17
     DEF Next, Main, Cache

\* The remainder of a number written as so many turns and a part of one.
LEMMA RemainderOf ==
  ASSUME NEW q \in Int, NEW r \in 0 .. PerTurn - 1
  PROVE  (PerTurn * q + r) % PerTurn = r
<1> DEFINE x == PerTurn * q + r
           k == x \div PerTurn
           m == x % PerTurn
<1>1. PerTurn \in Nat \ {0, 1} /\ PerTurn * q \in Int /\ x \in Int
  BY SizesAssumption
<1>2. k \in Int /\ m \in 0 .. PerTurn - 1 /\ x = PerTurn * k + m /\ PerTurn * k \in Int
  <2> HIDE DEF x
  <2> QED
    BY <1>1
<1> HIDE DEF k, m
<1>3. PerTurn * (q - k) = PerTurn * q - PerTurn * k
  BY <1>1, <1>2
<1>4. PerTurn * (q - k) = m - r
  BY <1>1, <1>2, <1>3
<1>5. q - k >= 1 => PerTurn * (q - k) >= PerTurn
  BY <1>1, <1>2
<1>6. q - k <= -1 => PerTurn * (q - k) <= -PerTurn
  BY <1>1, <1>2
<1>7. q - k = 0
  BY <1>1, <1>2, <1>4, <1>5, <1>6
<1>8. m = r
  BY <1>1, <1>2, <1>4, <1>7
<1> QED
  BY <1>8 DEF m

\* The angle falls after the last capsule of a turn, and only then.
LEMMA TurnWraps ==
  ASSUME NEW p \in Nat
  PROVE  (p + 1) % PerTurn < p % PerTurn <=> p % PerTurn = PerTurn - 1
<1> DEFINE q == p \div PerTurn
           r == p % PerTurn
<1>1. /\ PerTurn \in Nat \ {0, 1}
      /\ q \in Int /\ r \in 0 .. PerTurn - 1 /\ p = PerTurn * q + r
  BY SizesAssumption
<1> HIDE DEF q, r
<1>2. PerTurn * (q + 1) = PerTurn * q + PerTurn /\ PerTurn * q \in Int
  BY <1>1
<1>3. CASE r = PerTurn - 1
  <2>1. p + 1 = PerTurn * (q + 1) + 0
    BY <1>1, <1>2, <1>3
  <2>2. (p + 1) % PerTurn = 0
    BY <1>1, <2>1, RemainderOf
  <2> QED
    BY <1>1, <1>3, <2>2 DEF r
<1>4. CASE r # PerTurn - 1
  <2>1. p + 1 = PerTurn * q + (r + 1) /\ r + 1 \in 0 .. PerTurn - 1
    BY <1>1, <1>2, <1>4
  <2>2. (p + 1) % PerTurn = r + 1
    BY <1>1, <2>1, RemainderOf
  <2> QED
    BY <1>1, <1>4, <2>2 DEF r
<1> QED
  BY <1>3, <1>4

\* A turn begins PerTurn samples after another, and none before.
LEMMA TurnsApart ==
  ASSUME NEW a \in Nat, NEW d \in Nat, Begins(a)
  PROVE  /\ Begins(a + PerTurn)
         /\ Begins(d) /\ a < d => a + PerTurn <= d
<1> DEFINE first == IF express THEN PerTurn - 1 ELSE 0
           i == a \div PerTurn
           j == d \div PerTurn
<1>1. PerTurn \in Nat \ {0, 1} /\ first \in 0 .. PerTurn - 1
  BY SizesAssumption
<1>2. i \in Int /\ a = PerTurn * i + first
  BY <1>1 DEF Begins
<1>3. j \in Int /\ (Begins(d) => d = PerTurn * j + first)
  BY <1>1 DEF Begins
<1> HIDE DEF i, j, first
<1>4. Begins(a + PerTurn)
  <2>1. a + PerTurn = PerTurn * (i + 1) + first
    BY <1>1, <1>2
  <2>2. (a + PerTurn) % PerTurn = first
    BY <1>1, <1>2, <2>1, RemainderOf
  <2> QED
    BY <2>2 DEF Begins, first
<1>5. ASSUME Begins(d), a < d
      PROVE  a + PerTurn <= d
  <2>1. PerTurn * (j - i) = PerTurn * j - PerTurn * i /\ PerTurn * i \in Int /\ PerTurn * j \in Int
    BY <1>1, <1>2, <1>3
  <2>2. PerTurn * (j - i) > 0
    BY <1>1, <1>2, <1>3, <1>5, <2>1
  <2>3. j - i >= 1
    BY <1>1, <1>2, <1>3, <2>2
  <2>4. PerTurn * (j - i) >= PerTurn
    BY <1>1, <1>2, <1>3, <2>3
  <2> QED
    BY <1>1, <1>2, <1>3, <1>5, <2>1, <2>4
<1> QED
  BY <1>4, <1>5

\* What is pending in local_buf lies inside it, and the next sample to come is
\* one.
LEMMA Pending ==
  ASSUME TypeOK, Looping, Numbered
  PROVE  /\ Lo \in Nat \ {0} /\ Hi \in Int /\ Lo .. Hi \subseteq 1 .. Len(buf)
         /\ \A i \in Lo .. Hi : buf[i] \in Node /\ buf[i].at < next
         /\ Coming \in Nat /\ Coming <= next
         /\ Hi < Lo => Done = Coming
         /\ Lo <= Hi => Done = buf[Lo].at
         /\ Done \in Int /\ Done <= next
<1>1. /\ buf \in Seq(Node) /\ Len(buf) \in Nat /\ pos \in Nat \ {0} /\ count \in Nat
      /\ next \in Nat /\ start \in Nat /\ prev \in Int
      /\ count <= Len(buf) /\ pos <= count + 1
  BY LenProperties DEF TypeOK, ScalarsOK, ArraysOK, Looping
<1>2. Lo \in Nat \ {0} /\ Hi \in Int
  BY <1>1 DEF Lo, Hi
<1>3. Hi <= Len(buf)
  BY <1>1 DEF Hi
<1>4. Lo .. Hi \subseteq 1 .. Len(buf)
  BY <1>1, <1>2, <1>3
<1>5. ASSUME NEW i \in Lo .. Hi
      PROVE  buf[i] \in Node /\ buf[i].at < next /\ buf[i].at \in Int
  <2>1. buf[i] \in Node
    BY <1>1, <1>4, ElementOfSeq
  <2> QED
    BY <1>4, <2>1 DEF Numbered, Before, Node
<1>6. Coming \in Nat /\ Coming <= next
  <2>1. CASE Ready
    <3>1. prev + 1 = next /\ start <= next /\ next # start
      BY <2>1 DEF Numbered, Ready
    <3>2. next >= 1
      BY <1>1, <3>1
    <3> QED
      BY <1>1, <2>1, <3>1, <3>2 DEF Coming
  <2>2. CASE ~Ready
    BY <1>1, <2>2 DEF Coming
  <2> QED
    BY <2>1, <2>2
<1>7. CASE Hi < Lo
  <2>1. Done = Coming
    BY <1>2, <1>7 DEF Done, From
  <2> QED
    BY <1>1, <1>2, <1>4, <1>5, <1>6, <1>7, <2>1
<1>8. CASE Lo <= Hi
  <2>1. Lo \in Lo .. Hi
    BY <1>2, <1>8
  <2>2. Done = buf[Lo].at
    BY <2>1 DEF Done, From
  <2>3. Done \in Int /\ Done <= next
    BY <1>1, <1>5, <2>1, <2>2
  <2> QED
    BY <1>2, <1>4, <1>5, <1>6, <1>8, <2>2, <2>3
<1> QED
  BY <1>2, <1>7, <1>8

\* What is not lost of an unbroken stream is a sample.
LEMMA PendingSamples ==
  ASSUME TypeOK, Looping, Numbered, Linking, Streaming
  PROVE  /\ Done \in Nat
         /\ \A i \in Lo .. Hi : From(i + 1) \in Nat /\ Linked(i)
<1>1. Done \in Nat
  BY Pending DEF Linking, Linked
<1>2. ASSUME NEW i \in Lo .. Hi
      PROVE  From(i + 1) \in Nat /\ Linked(i)
  <2>1. CASE i + 1 \in Lo .. Hi
    BY <2>1 DEF Linking, Linked, From
  <2>2. CASE i + 1 \notin Lo .. Hi
    BY <2>2, Pending DEF Linking, From
  <2> QED
    BY <2>1, <2>2
<1> QED
  BY <1>1, <1>2

\* The cache thread goes on to the next sample to come, or over one or two of
\* which one is lost.
Advanced ==
  \/ Done' = Done
  \/ /\ Done < Done' /\ Done' <= Done + (IF express THEN 2 ELSE 1)
     /\ \E h \in Done .. Done' - 1 : h \in harmed'

\* Nothing is pending before or after the step.
LEMMA EmptyStep ==
  ASSUME TypeOK, Looping, Numbered, Hi < Lo, TypeOK', Looping', Numbered', Hi' < Lo'
  PROVE  Linking' /\ Done = Coming /\ Done' = Coming'
<1>1. Lo' \in Int /\ Hi' \in Int
  BY DEF Lo, Hi, TypeOK, ScalarsOK
<1>2. Lo' .. Hi' = {}
  BY <1>1
<1>3. Done' = Coming'
  BY <1>1, <1>2 DEF Done, From
<1> QED
  BY <1>2, <1>3, Pending DEF Linking

\* The steps that leave what is pending as it is.
LEMMA PendingKept ==
  ASSUME TypeOK, Looping, Numbered, Linking,
         express' = express, Streaming' => Streaming, harmed \subseteq harmed',
         Lo' = Lo, Hi' = Hi, Coming' = Coming, buf' = buf
  PROVE  Linking' /\ Done' = Done
<1>1. \A i : From(i)' = From(i)
  BY DEF From
<1>2. Done' = Done
  BY DEF Done, From
<1>3. \A i : Linked(i) => Linked(i)'
  BY <1>1 DEF Linked, Begins
<1> QED
  BY <1>2, <1>3 DEF Linking

\* A node is read, or lost, or the read ends: what has been read so far stays
\* linked.
LEMMA ReadNodeStep ==
  ASSUME IInv, Numbered, Linking, Streaming', IInv', Numbered', ~express, cpc = "read",
         ReceiveNode \/ NodesTimeOut \/ Lose
  PROVE  Linking' /\ Advanced /\ Done' >= Done
<1>0. /\ TypeOK /\ Looping /\ ScalarsOK /\ express' = express /\ harmed \subseteq harmed'
      /\ Streaming /\ TypeOK' /\ Looping'
  <2>1. Next
    BY DEF Next, Cache
  <2> QED
    BY <2>1, StreamGoesOn DEF IInv, TypeOK
<1>1. /\ Lo = 1 /\ Hi = pos - 1 /\ Coming = next /\ Coming' = next'
      /\ next \in Nat /\ pos \in Nat \ {0} /\ count \in Nat
  BY <1>0 DEF Lo, Hi, Coming, Ready, ScalarsOK
<1>2. CASE ReceiveNode
  <2>0. PICK p \in Nat \ {0} : p = pos
    BY <1>1
  <2>q. PICK q \in Nat : q = next
    BY <1>1
  <2> DEFINE n == [at |-> q, sync |-> q % PerTurn = 0]
  <2>1. /\ buf' = [buf EXCEPT ![p] = n] /\ next' = q + 1 /\ harmed' = harmed
        /\ p \in 1 .. Len(buf) /\ p <= count /\ count' = count
        /\ \/ p = count /\ pos' = 1 /\ cpc' = "loop"
           \/ p # count /\ pos' = p + 1 /\ cpc' = "read"
    BY <1>0, <1>2, <2>0, <2>q, AtHand DEF ReceiveNode, AfterRead
  <2>2. Lo' = 1 /\ Hi' = p
    BY <1>0, <1>1, <2>0, <2>1 DEF Lo, Hi
  <2>3. buf'[p] = n /\ \A i \in 1 .. p - 1 : buf'[i] = buf[i]
    <3>1. buf \in Seq(Node) /\ \A i \in 1 .. p - 1 : i \in 1 .. Len(buf) /\ i # p
      BY <1>0, <1>1, <2>1, LenProperties DEF TypeOK, ArraysOK
    <3> QED
      BY <2>1, <3>1
  <2>4. \A i \in 1 .. p : From(i)' = From(i)
    <3> SUFFICES ASSUME NEW i \in 1 .. p
                 PROVE  buf'[i].at = From(i)
      BY <2>2 DEF From
    <3>1. CASE i = p
      BY <1>1, <2>0, <2>q, <2>3, <3>1 DEF From
    <3>2. CASE i # p
      <4>1. i \in 1 .. p - 1
        BY <1>1, <3>2
      <4> QED
        BY <1>1, <2>0, <2>3, <4>1 DEF From
    <3> QED
      BY <3>1, <3>2
  <2>5. From(p + 1)' = q + 1
    BY <1>1, <2>1, <2>2 DEF From
  <2>6. ASSUME NEW i \in 1 .. p PROVE Linked(i)'
    <3>1. CASE i = p
      <4>1. n.at = q /\ (n.sync <=> Begins(q)')
        BY <1>0 DEF Begins
      <4>2. q + 1 .. From(p + 1)' - 1 = {}
        BY <1>1, <2>5
      <4> HIDE DEF n
      <4> QED
        BY <1>1, <2>3, <2>5, <3>1, <4>1, <4>2 DEF Linked
    <3>2. CASE i # p
      <4>1. i \in 1 .. p - 1 /\ i + 1 \in 1 .. p
        BY <1>1, <3>2
      <4>2. Linked(i)
        BY <1>0, <1>1, <2>0, <4>1 DEF Linking
      <4>3. buf'[i] = buf[i] /\ From(i + 1)' = From(i + 1)
        BY <2>3, <2>4, <4>1
      <4> QED
        BY <1>0, <4>2, <4>3 DEF Linked, Begins
    <3> QED
      BY <3>1, <3>2
  <2>7. Done' = Done
    BY <1>1, <2>2, <2>4 DEF Done
  <2> QED
    BY <1>0, <2>2, <2>6, <2>7, Pending DEF Linking, Advanced
<1>3. CASE NodesTimeOut
  <2>1. /\ count' = pos - 1 \/ harmed' = Samples
        /\ UNCHANGED <<next, buf>> /\ pos' = 1 /\ cpc' = "loop"
        /\ Samples' = Samples
    BY <1>0, <1>3 DEF NodesTimeOut, AfterRead, lidar, Samples, MaxSample
  <2>2. count' = pos - 1
    BY <1>0, <2>1 DEF Streaming
  <2>3. Lo' = Lo /\ Hi' = Hi /\ Coming' = Coming
    BY <1>1, <2>1, <2>2 DEF Lo, Hi
  <2> QED
    BY <1>0, <2>1, <2>3, Pending, PendingKept DEF Advanced
<1>4. CASE Lose
  <2>1. next' = next + 1 /\ next \in harmed' /\ UNCHANGED <<cpc, buf, pos>>
    BY <1>4 DEF Lose, locals
  <2>2. Lo' = Lo /\ Hi' = Hi
    BY <1>0, <1>1, <2>1 DEF Lo, Hi
  <2>3. ASSUME NEW i \in Lo .. Hi
        PROVE  Linked(i)' /\ From(i)' = From(i)
    <3>1. Linked(i) /\ From(i)' = From(i) /\ buf' = buf
      BY <1>0, <2>1, <2>2 DEF Linking, From
    <3>2. CASE i + 1 \in Lo .. Hi
      <4>1. From(i + 1)' = From(i + 1)
        BY <2>1, <2>2, <3>2 DEF From
      <4> QED
        BY <1>0, <3>1, <4>1 DEF Linked, Begins
    <3>3. CASE i + 1 \notin Lo .. Hi
      <4>1. From(i + 1) = next /\ From(i + 1)' = next + 1
        BY <1>1, <2>1, <2>2, <3>3 DEF From
      <4>2. buf[i].at \in Nat /\ buf[i].at < next /\ buf[i].at + 1 .. next - 1 \subseteq harmed
        BY <3>1, <4>1 DEF Linked
      <4>3. buf[i].at + 1 .. next + 1 - 1 \subseteq harmed'
        <5> SUFFICES ASSUME NEW x \in buf[i].at + 1 .. next + 1 - 1
                     PROVE  x \in harmed'
          OBVIOUS
        <5>1. x = next \/ x \in buf[i].at + 1 .. next - 1
          BY <1>1, <4>2
        <5> QED
          BY <1>0, <2>1, <4>2, <5>1
      <4> QED
        BY <1>0, <1>1, <3>1, <4>1, <4>2, <4>3 DEF Linked, Begins
    <3> QED
      BY <3>2, <3>3
  <2>4. CASE Hi < Lo
    <3>1. Done = next
      BY <1>0, <1>1, <2>4, Pending
    <3>2. Done' = next + 1
      BY <1>1, <2>1, <2>2, <2>4 DEF Done, From
    <3>3. Done < Done' /\ Done' <= Done + 1 /\ next \in Done .. Done' - 1
      BY <1>1, <3>1, <3>2
    <3>4. Advanced /\ Done' >= Done
      BY <1>0, <1>1, <2>1, <3>1, <3>2, <3>3 DEF Advanced
    <3> QED
      BY <2>2, <2>3, <3>4 DEF Linking
  <2>5. CASE Lo <= Hi
    <3>1. Lo \in Lo .. Hi
      BY <1>1, <2>5
    <3>2. Done' = Done
      BY <2>2, <2>3, <3>1 DEF Done
    <3> QED
      BY <1>0, <2>2, <2>3, <3>2, Pending DEF Linking, Advanced
  <2> QED
    BY <1>1, <2>4, <2>5
<1> QED
  BY <1>2, <1>3, <1>4

\* What is pending is linked after every step but Add, and the cache thread
\* never goes back; after its first read it passes over nothing but what is
\* lost.
LEMMA ReadingStep ==
  ASSUME IInv, Numbered, Linking, Streaming', IInv', Numbered', [Next]_vars,
         ~AddNode, ~Signal
  PROVE  /\ Linking' /\ Done <= Done'
         /\ ~Start /\ cpc # "first" /\ cpc' \notin {"none", "gone"} => Advanced
<1>0. /\ TypeOK /\ Looping /\ Locking /\ ScalarsOK /\ express' = express
      /\ harmed \subseteq harmed' /\ next <= next'
      /\ Streaming /\ (Streaming' => Streaming) /\ TypeOK' /\ Looping'
  BY StreamGoesOn DEF IInv, TypeOK
<1>t. /\ next \in Nat /\ next' \in Nat /\ prev \in Int
      /\ count \in Nat /\ pos \in Nat \ {0}
  BY <1>0 DEF TypeOK, ScalarsOK
<1>d. /\ Done \in Int /\ Coming \in Nat /\ Coming <= next
  BY <1>0, Pending
<1>1. CASE \/ Disable \/ StartFails \/ WaitOK \/ WaitBlocks \/ WaitTimesOut
           \/ WaitFails \/ CheckFails \/ CheckOK
           \/ Lock \/ Grab \/ Show \/ UNCHANGED vars
  <2>1. UNCHANGED <<lidar, cpc, locals, capsule>>
    BY <1>1 DEF Disable, StartFails, WaitOK, WaitBlocks, WaitTimesOut, WaitFails,
       CheckFails, CheckOK, Lock,
       Grab, Show, vars
  <2>2. /\ Lo' = Lo /\ Hi' = Hi /\ Coming' = Coming /\ buf' = buf
    BY <2>1 DEF lidar, locals, capsule, Lo, Hi, Coming, Ready
  <2> QED
    BY <1>0, <1>d, <2>2, PendingKept DEF Advanced
<1>2. CASE Publish \/ CacheLock \/ Copy
  <2>1. /\ UNCHANGED <<lidar, locals, capsule>>
        /\ cpc \in {"loop", "lock", "copy"} /\ cpc' \in {"lock", "copy", "signal"}
    BY <1>2 DEF Publish, CacheLock, Copy
  <2>2. /\ Lo' = Lo /\ Hi' = Hi /\ Coming' = Coming /\ buf' = buf
    BY <2>1 DEF lidar, locals, capsule, Lo, Hi, Coming, Ready
  <2> QED
    BY <1>0, <1>d, <2>2, PendingKept DEF Advanced
<1>3. CASE LoopEnds \/ Test \/ Join
  <2>1. /\ UNCHANGED <<lidar, capsule>>
        /\ \/ cpc = "loop" /\ pos > count /\ cpc' = "test" /\ pos' = pos
           \/ cpc = "test" /\ cpc' \in {"read", "gone"} /\ pos' = 1
           \/ cpc \in {"none", "gone"} /\ cpc' = "none" /\ pos' = 1
    BY <1>3 DEF LoopEnds, Test, Join, locals
  <2>2. Hi < Lo
    BY <1>t, <2>1 DEF Lo, Hi
  <2>3. Hi' < Lo'
    BY <1>t, <2>1 DEF Lo, Hi
  <2>4. Coming' = Coming
    BY <2>1 DEF lidar, capsule, Coming, Ready
  <2> QED
    BY <1>0, <1>d, <2>2, <2>3, <2>4, EmptyStep DEF Advanced
<1>4. CASE Start
  <2>1. /\ cpc = "none" /\ cpc' = "first" /\ pos' = 1
    BY <1>0, <1>4 DEF Start, Locking
  <2>2. Hi < Lo
    BY <1>t, <2>1 DEF Lo, Hi
  <2>3. Hi' < Lo'
    BY <2>1 DEF Lo, Hi
  <2>4. Coming' = next'
    BY <1>4 DEF Start, Coming, Ready
  <2>5. Linking' /\ Done = Coming /\ Done' = next'
    BY <1>0, <2>2, <2>3, <2>4, EmptyStep
  <2> QED
    BY <1>0, <1>4, <1>d, <1>t, <2>5
<1>5. CASE PortFails
  <2>1. /\ UNCHANGED <<lidar, capsule, pos>> /\ cpc \in {"first", "read"}
        /\ \/ cpc = "first" /\ cpc' = "test"
           \/ cpc' = "gone"
    BY <1>5 DEF PortFails, Reading, locals
  <2>2. Hi' < Lo'
    BY <1>t, <2>1 DEF Lo, Hi
  <2>3. Coming' = Coming
    BY <2>1 DEF lidar, capsule, Coming, Ready
  <2>4. CASE Hi < Lo
    BY <1>0, <1>d, <2>2, <2>3, <2>4, EmptyStep DEF Advanced
  <2>5. CASE Lo <= Hi
    <3>1. cpc = "read" /\ ~express
      BY <1>t, <2>1, <2>5 DEF Lo, Hi
    <3>2. Done <= Coming
      BY <1>0, <3>1, Pending DEF Coming, Ready
    <3>3. Lo' .. Hi' = {} /\ Lo' \in Int /\ Hi' \in Int
      BY <1>t, <2>1, <2>2 DEF Lo, Hi
    <3>4. Done' = Coming' /\ Linking'
      BY <3>3 DEF Done, From, Linking
    <3> QED
      BY <2>1, <2>3, <3>1, <3>2, <3>4
  <2>6. Lo \in Int /\ Hi \in Int
    BY <1>0, Pending
  <2> QED
    BY <2>4, <2>5, <2>6
<1>6. CASE ~express /\ cpc = "first" /\ (ReceiveNode \/ NodesTimeOut \/ Lose)
  <2>1. cpc' \in {"first", "test"} /\ pos' \in Nat \ {0}
    BY <1>0, <1>6, <1>t DEF ReceiveNode, NodesTimeOut, Lose, AfterRead, TypeOK, ScalarsOK, locals
  <2>2. Hi < Lo /\ Hi' < Lo'
    BY <1>6, <1>t, <2>1 DEF Lo, Hi
  <2>3. Coming = next /\ Coming' = next' /\ Linking' /\ Done = next /\ Done' = next'
    BY <1>0, <1>6, <2>2, EmptyStep DEF Coming, Ready
  <2> QED
    BY <1>0, <1>6, <1>t, <2>3
<1>7. CASE ~express /\ cpc = "read" /\ (ReceiveNode \/ NodesTimeOut \/ Lose)
  BY <1>7, <1>d, ReadNodeStep
<1>8. CASE ReceiveCapsule
  <2> DEFINE n == [at |-> prev, sync |-> next % PerTurn < prev % PerTurn]
  <2>1. /\ express /\ next' = next + 1 /\ start' = start /\ pos' = 1 /\ harmed' = harmed
        /\ \/ /\ cpc = "first" /\ cpc' = "test" /\ rdy' = (rdy /\ next # start)
           \/ /\ cpc = "read" /\ cpc' = "loop" /\ prev' = next /\ rdy' = TRUE
              /\ count' = (IF Ready THEN 1 ELSE 0)
              /\ Ready => buf' = <<n>>
    BY <1>8 DEF ReceiveCapsule, Reading, AfterRead, Ready
  <2>2. Hi < Lo
    BY <1>t, <2>1 DEF Lo, Hi
  <2>3. start <= next /\ start \in Nat
    BY <1>0 DEF Numbered, ScalarsOK
  <2> HIDE DEF n
  <2>4. CASE cpc = "first"
    <3>1. ~Ready /\ ~rdy'
      BY <2>1, <2>4 DEF Numbered, Ready
    <3>2. Hi' < Lo' /\ Coming = next /\ Coming' = next + 1
      BY <2>1, <2>4, <3>1 DEF Lo, Hi, Coming, Ready
    <3> QED
      BY <1>0, <1>t, <2>2, <2>4, <3>2, EmptyStep
  <2>5. CASE cpc = "read" /\ ~Ready
    <3>1. Hi' < Lo'
      BY <2>1, <2>5 DEF Lo, Hi
    <3>2. Ready'
      BY <1>0, <1>t, <2>1, <2>3, <2>5 DEF Ready
    <3>3. Coming = next /\ Coming' = next
      BY <2>1, <2>5, <3>2 DEF Coming
    <3> QED
      BY <1>0, <1>t, <2>2, <3>1, <3>3, EmptyStep DEF Advanced
  <2>6. CASE cpc = "read" /\ Ready
    <3>1. prev + 1 = next /\ prev \in Nat
      BY <1>0, <2>6, Pending DEF Numbered, Coming
    <3>2. Lo' = 1 /\ Hi' = 1
      BY <2>1, <2>6 DEF Lo, Hi
    <3>3. Ready'
      BY <1>0, <1>t, <2>1, <2>3, <2>6 DEF Ready
    <3>4. buf'[1] = n /\ n.at = prev /\ (n.sync <=> next % PerTurn < prev % PerTurn)
      <4>1. buf'[1] = n
        BY <2>1, <2>6
      <4>2. n.at = prev /\ (n.sync <=> next % PerTurn < prev % PerTurn)
        BY DEF n
      <4> QED
        BY <4>1, <4>2
    <3>5. From(1)' = prev /\ From(2)' = next
      BY <2>1, <2>6, <3>2, <3>3, <3>4 DEF From, Coming
    <3>6. Done' = prev
      BY <3>2, <3>5 DEF Done
    <3>7. Done = prev
      BY <1>0, <2>2, <2>6, Pending DEF Coming
    <3>8. n.sync <=> prev % PerTurn = PerTurn - 1
      BY <3>1, <3>4, TurnWraps
    <3>9. Linked(1)'
      <4>1. 1 + 1 = 2 /\ prev + 1 .. next - 1 = {}
        BY <1>t, <3>1
      <4>2. buf'[1].at \in Nat /\ buf'[1].at < From(2)'
        BY <1>t, <3>1, <3>4, <3>5
      <4>3. buf'[1].at + 1 .. From(2)' - 1 \subseteq harmed'
        BY <3>4, <3>5, <4>1
      <4> QED
        BY <1>0, <2>1, <3>4, <3>8, <4>1, <4>2, <4>3 DEF Linked, Begins
    <3> QED
      BY <1>d, <3>2, <3>6, <3>7, <3>9 DEF Linking, Advanced
  <2> QED
    BY <2>1, <2>4, <2>5, <2>6
<1>9. CASE CapsuleTimesOut
  <2>1. /\ express /\ cpc \in {"first", "read"} /\ cpc' = "test"
        /\ UNCHANGED <<next, start, pos, prev>> /\ rdy' \in {rdy, FALSE}
        /\ rdy' # rdy => prev \in harmed'
    BY <1>9 DEF CapsuleTimesOut, Reading, lidar, locals
  <2>2. Hi < Lo /\ Hi' < Lo'
    BY <1>t, <2>1 DEF Lo, Hi
  <2>3. Linking' /\ Done = Coming /\ Done' = Coming'
    BY <1>0, <2>2, EmptyStep
  <2>4. CASE Coming' = Coming
    BY <1>d, <2>3, <2>4 DEF Advanced
  <2>5. CASE Coming' # Coming
    <3>1. Ready /\ Coming = prev /\ Coming' = next /\ prev \in harmed'
      <4>1. CASE rdy' = rdy
        <5>1. Ready' = Ready
          BY <1>0, <2>1, <4>1 DEF Ready
        <5> QED
          BY <2>1, <2>5, <5>1 DEF Coming
      <4>2. CASE rdy' = FALSE /\ rdy' # rdy
        <5>1. ~Ready' /\ Coming' = next
          BY <2>1, <4>2 DEF Ready, Coming
        <5>2. Ready
          BY <2>5, <5>1 DEF Coming
        <5> QED
          BY <2>1, <4>2, <5>1, <5>2 DEF Coming
      <4> QED
        BY <2>1, <4>1, <4>2
    <3>2. prev + 1 = next
      BY <3>1 DEF Numbered
    <3> QED
      BY <1>0, <1>t, <2>1, <2>3, <3>1, <3>2 DEF Advanced
  <2> QED
    BY <2>4, <2>5
<1>10. CASE express /\ Lose
  <2>1. /\ cpc \in {"first", "read"} /\ cpc' \in {"first", "read", "test"}
        /\ UNCHANGED <<express, start, pos, prev>> /\ ~rdy' /\ next' = next + 1
        /\ next \in harmed'
    BY <1>10 DEF Lose, Reading, locals
  <2>2. Hi < Lo /\ Hi' < Lo'
    BY <1>10, <1>t, <2>1 DEF Lo, Hi
  <2>3. Linking' /\ Done = Coming /\ Done' = next + 1
    BY <1>0, <2>1, <2>2, EmptyStep DEF Coming, Ready
  <2>4. Coming = next \/ Coming + 1 = next
    BY DEF Coming, Numbered
  <2>5. Done < Done' /\ Done' <= Done + 2 /\ next \in Done .. Done' - 1
    BY <1>d, <1>t, <2>3, <2>4
  <2> QED
    BY <1>10, <1>d, <1>t, <2>1, <2>3, <2>5 DEF Advanced
<1>11. ReceiveNode \/ NodesTimeOut \/ Lose => cpc \in {"first", "read"}
  BY DEF ReceiveNode, NodesTimeOut, Lose, Reading
<1>12. ReceiveNode \/ NodesTimeOut => ~express
  BY DEF ReceiveNode, NodesTimeOut
<1> QED
  BY <1>1, <1>2, <1>3, <1>4, <1>5, <1>6, <1>7, <1>8, <1>9, <1>10, <1>11, <1>12
     DEF Next, Main, Cache

\* Add goes on from the sample at hand to the one after it.
LEMMA AddStep ==
  ASSUME IInv, Numbered, Linking, Streaming, AddNode \/ Signal
  PROVE  /\ Linking'
         /\ Done = buf[pos].at /\ Done \in Nat /\ Done' \in Nat /\ Done < Done'
         /\ Done + 1 .. Done' - 1 \subseteq harmed
         /\ buf[pos].sync <=> Begins(Done)
<1>0. TypeOK /\ Looping /\ pos \in Nat \ {0} /\ count \in Nat
  BY DEF IInv, TypeOK, ScalarsOK
<1>1. PICK p \in Nat \ {0} : p = pos
  BY <1>0
<1>2. /\ UNCHANGED <<lidar, buf, count, capsule, harmed>>
      /\ pos' = p + 1 /\ p <= count
      /\ cpc \in {"loop", "signal"} /\ cpc' = "loop"
  BY <1>0, <1>1 DEF AddNode, Signal, Add, Looping
<1>3. Lo = p /\ Hi = count /\ Lo' = p + 1 /\ Hi' = count
  BY <1>1, <1>2 DEF Lo, Hi
<1>4. Coming' = Coming
  BY <1>2 DEF lidar, capsule, Coming, Ready
<1>5. \A i \in Nat : i # p => From(i)' = From(i)
  BY <1>0, <1>2, <1>3, <1>4 DEF From
<1>6. p \in Lo .. Hi /\ Linked(p) /\ From(p + 1) \in Nat
  BY <1>0, <1>1, <1>2, <1>3, PendingSamples
<1>7. Done = buf[p].at
  BY <1>3, <1>6 DEF Done, From
<1>8. Done' = From(p + 1)
  BY <1>1, <1>3, <1>5 DEF Done
<1>9. Linking'
  <2> SUFFICES ASSUME NEW i \in p + 1 .. count
               PROVE  Linked(i)'
    BY <1>3 DEF Linking
  <2>1. i \in Lo .. Hi /\ i + 1 \in Nat /\ i + 1 # p
    BY <1>0, <1>1, <1>3
  <2>2. Linked(i) /\ From(i + 1)' = From(i + 1)
    BY <1>5, <2>1 DEF Linking
  <2> QED
    BY <1>2, <2>2 DEF Linked, Begins, lidar
<1> QED
  BY <1>1, <1>6, <1>7, <1>8, <1>9 DEF Linked

\* The links of what is pending hold after every step.
LEMMA LinkingStep ==
  ASSUME IInv, Numbered, Linking, IInv', Numbered', [Next]_vars
  PROVE  Linking'
<1>1. CASE ~Streaming'
  BY <1>1 DEF Linking
<1>2. CASE Streaming' /\ (AddNode \/ Signal)
  <2>1. Streaming
    BY <1>2, StreamGoesOn DEF IInv
  <2> QED
    BY <1>2, <2>1, AddStep
<1>3. CASE Streaming' /\ ~AddNode /\ ~Signal
  BY <1>3, ReadingStep
<1> QED
  BY <1>1, <1>2, <1>3

\* What local_scan begins with after Add: what it began with, or the node at
\* hand.
LEMMA AddFirst ==
  ASSUME TypeOK, Looping, pos <= count, Add
  PROVE  /\ scan' # <<>>
         /\ \/ scan'[1] = buf[pos] /\ (buf[pos].sync \/ scan = <<>>)
            \/ scan # <<>> /\ scan'[1] = scan[1] /\ ~buf[pos].sync
<1>1. buf[pos] \in Node /\ scan \in Seq(Node) /\ Len(scan) \in Nat
  BY AtHand, LenProperties DEF TypeOK, ArraysOK
<1>2. CASE buf[pos].sync
  BY <1>2 DEF Add
<1>3. CASE ~buf[pos].sync /\ Len(scan) < MaxScan - 1
  <2>1. scan' = Append(scan, buf[pos])
    BY <1>3 DEF Add
  <2>2. /\ Len(scan') = Len(scan) + 1 /\ scan' \in Seq(Node)
        /\ \A i \in 1 .. Len(scan) : scan'[i] = scan[i]
        /\ scan'[Len(scan) + 1] = buf[pos]
    BY <1>1, <2>1, AppendProperties
  <2>3. scan' # <<>>
    BY <1>1, <2>2, EmptySeq
  <2>4. CASE scan = <<>>
    BY <1>3, <2>2, <2>3, <2>4, EmptySeq
  <2>5. CASE scan # <<>>
    <3>1. 1 \in 1 .. Len(scan)
      BY <1>1, <2>5, EmptySeq
    <3> QED
      BY <1>3, <2>2, <2>3, <2>5, <3>1
  <2> QED
    BY <2>4, <2>5
<1>4. CASE ~buf[pos].sync /\ ~(Len(scan) < MaxScan - 1)
  <2>1. scan' = scan
    BY <1>4 DEF Add
  <2>2. Len(scan) # 0
    BY <1>1, <1>4, SizesAssumption
  <2> QED
    BY <1>1, <1>4, <2>1, <2>2, EmptySeq
<1> QED
  BY <1>2, <1>3, <1>4

\* The thread is never behind where it was.
LEMMA DoneStep ==
  ASSUME IInv, Numbered, Linking, Streaming', IInv', Numbered', [Next]_vars
  PROVE  Done \in Nat /\ Done' \in Nat /\ Done <= Done'
<1>0. TypeOK /\ Looping /\ TypeOK' /\ Streaming
  BY StreamGoesOn DEF IInv
<1>1. Done \in Nat
  BY <1>0, PendingSamples
<1>2. CASE AddNode \/ Signal
  BY <1>0, <1>2, AddStep
<1>3. CASE ~AddNode /\ ~Signal
  <2>1. Done <= Done' /\ Linking'
    BY <1>3, ReadingStep
  <2>2. CASE Lo' \in Lo' .. Hi'
    BY <1>1, <2>1, <2>2 DEF Linking, Linked, Done, From
  <2>3. CASE Lo' \notin Lo' .. Hi'
    <3>1. Done' = Coming'
      BY <2>3 DEF Done, From
    <3>2. Coming' \in Int
      BY <1>0 DEF Coming, TypeOK, ScalarsOK
    <3> QED
      BY <1>1, <2>1, <3>1, <3>2
  <2> QED
    BY <1>1, <2>1, <2>2, <2>3
<1> QED
  BY <1>1, <1>2, <1>3

\* Every array holds only what was sent before what the one after it holds.
LEMMA OrderedStep ==
  ASSUME IInv, Numbered, Linking, Ordered, IInv', Numbered', [Next]_vars
  PROVE  Ordered'
<1> DEFINE Scanned == scan' # <<>> => /\ scan'[1].at \in Nat /\ Before(nodes', scan'[1].at)
                                      /\ cpc' # "signal" => Before(cached', scan'[1].at)
           Cached  == cached' # <<>> => cached'[1].at \in Nat /\ Before(nodes', cached'[1].at)
           All     == Before(scan', Done') /\ Before(cached', Done') /\ Before(nodes', Done')
<1> SUFFICES ASSUME Streaming'
             PROVE  All /\ Scanned /\ Cached
  BY DEF Ordered, Before
<1>0. /\ TypeOK /\ Looping /\ Locking /\ Waking /\ ArraysOK /\ Streaming
      /\ Done \in Nat /\ Done' \in Nat /\ Done <= Done'
  BY StreamGoesOn, DoneStep DEF IInv, TypeOK
<1>2. /\ Before(scan, Done) /\ Before(cached, Done) /\ Before(nodes, Done)
      /\ scan # <<>> => /\ scan[1].at \in Nat /\ Before(nodes, scan[1].at)
                        /\ cpc # "signal" => Before(cached, scan[1].at)
      /\ cached # <<>> => cached[1].at \in Nat /\ Before(nodes, cached[1].at)
  BY <1>0 DEF Ordered
<1>3. Before(scan, Done') /\ Before(cached, Done') /\ Before(nodes, Done')
  BY <1>0, <1>2, BeforeLater DEF ArraysOK
<1>4. \A p : Before(<<>>, p)
  BY EmptySeq DEF Before
<1>5. CASE WaitTimesOut \/ WaitFails \/ CheckFails
  <2>1. UNCHANGED <<scan, cached, cpc>>
    BY <1>5 DEF WaitTimesOut, WaitFails, CheckFails, locals, shared
  <2>2. ASSUME NEW p \in Nat PROVE Before(nodes', p)
    BY <1>4, <1>5, SizesAssumption, JunkBefore DEF WaitTimesOut, WaitFails,
       CheckFails
  <2> QED
    BY <1>0, <1>2, <1>3, <2>1, <2>2
<1>6. CASE Grab
  <2>1. cpc # "signal" /\ cached # <<>>
    BY <1>0, <1>6 DEF Grab, Locking, Waking
  <2>2. /\ nodes' \in Seq(Node) /\ Len(nodes') <= Len(cached)
        /\ \A i \in 1 .. Len(nodes') : nodes'[i] = cached[i]
    BY <1>0, <1>6, <2>1, GrabProperties
  <2>3. \A i \in 1 .. Len(nodes') : i \in 1 .. Len(cached)
    BY <1>0, <2>2, LenProperties DEF ArraysOK
  <2>4. \A p : Before(cached, p) => Before(nodes', p)
    BY <2>2, <2>3 DEF Before
  <2>5. cached' = <<>> /\ UNCHANGED <<scan, cpc>>
    BY <1>6 DEF Grab, locals
  <2> QED
    BY <1>2, <1>3, <1>4, <2>1, <2>4, <2>5
<1>7. CASE Copy
  <2>1. scan # <<>> /\ cached' = scan /\ cpc' = "signal" /\ UNCHANGED <<scan, nodes>>
    BY <1>0, <1>7 DEF Copy, Looping, FromStart, locals, main
  <2> QED
    BY <1>2, <1>3, <2>1
<1>8. CASE AddNode \/ Signal
  <2>1. /\ Add /\ pos <= count /\ cpc' = "loop" /\ UNCHANGED <<nodes, cached>>
        /\ cpc = "signal" => buf[pos].sync
        /\ cpc \in {"loop", "signal"}
    BY <1>0, <1>8 DEF AddNode, Signal, Looping, main, shared
  <2>2. Done = buf[pos].at /\ Done < Done'
    BY <1>0, <1>8, AddStep
  <2>3. Before(scan', Done')
    BY <1>0, <1>3, <2>1, <2>2, AddBefore
  <2>4. \/ scan'[1] = buf[pos]
        \/ scan # <<>> /\ scan'[1] = scan[1] /\ cpc # "signal"
    BY <1>0, <2>1, AddFirst
  <2> QED
    BY <1>0, <1>2, <1>3, <2>1, <2>2, <2>3, <2>4
<1>9. CASE Join \/ Start
  <2>1. scan' = <<>> /\ UNCHANGED <<nodes, cached>>
    BY <1>9 DEF Join, Start, shared
  <2> QED
    BY <1>2, <1>3, <1>4, <2>1
<1>10. CASE \/ Disable \/ StartFails \/ WaitOK \/ WaitBlocks \/ CheckOK
            \/ Lock \/ Show \/ Test
            \/ ReceiveNode \/ NodesTimeOut \/ ReceiveCapsule \/ CapsuleTimesOut \/ Lose
            \/ PortFails \/ LoopEnds \/ Publish \/ CacheLock \/ UNCHANGED vars
  <2>1. UNCHANGED <<scan, cached, nodes>> /\ (cpc' # "signal" => cpc # "signal")
    BY <1>10 DEF Disable, StartFails, WaitOK, WaitBlocks, CheckOK, Lock, Show,
       Test, ReceiveNode,
       NodesTimeOut, ReceiveCapsule, CapsuleTimesOut, Lose, PortFails, LoopEnds,
       Publish, CacheLock, locals, main, shared, vars, Reading
  <2> QED
    BY <1>2, <1>3, <2>1
<1> QED
  BY <1>5, <1>6, <1>7, <1>8, <1>9, <1>10 DEF Next, Main, Cache

\* A turn in local_scan stays whole while the thread goes on, or something of it
\* is lost.
LEMMA GrownAdvanced ==
  ASSUME NEW a \in Nat, GrownFrom(a), a < Done, Done \in Nat, Done' \in Nat, Advanced,
         express \in BOOLEAN, express' = express, scan' = scan, harmed \subseteq harmed'
  PROVE  GrownFrom(a)'
<1>0. PerTurn \in Nat
  BY SizesAssumption
<1> DEFINE Lost == Needs(a)' \cap harmed' # {}
<1>1. Needs(a)' = Needs(a) /\ Begins(a)' = Begins(a) /\ Consecutive(scan)' = Consecutive(scan)
  BY DEF Needs, Begins, Consecutive
<1>2. Begins(a) /\ (Done > a + PerTurn => Lost)
  BY <1>1 DEF GrownFrom
<1>3. CASE Done' = Done
  <2>1. (a .. Done - 1) \cap harmed' = {} => (a .. Done - 1) \cap harmed = {}
    OBVIOUS
  <2> QED
    BY <1>1, <1>2, <1>3, <2>1 DEF GrownFrom
<1>4. CASE Done' # Done
  <2>d. PICK d \in Nat : d = Done
    OBVIOUS
  <2>e. PICK e \in Nat : e = Done'
    OBVIOUS
  <2>1. PICK h \in d .. e - 1 : h \in harmed' /\ e <= d + (IF express THEN 2 ELSE 1)
    BY <1>4, <2>d, <2>e DEF Advanced
  <2>2. h \in a .. e - 1
    BY <2>d, <2>1
  <2>3. ~(d > a + PerTurn) => h \in Needs(a)
    BY <1>0, <2>1, <2>2 DEF Needs
  <2>4. Lost
    BY <1>1, <1>2, <2>d, <2>1, <2>3
  <2> QED
    BY <1>1, <1>2, <2>e, <2>1, <2>2, <2>4 DEF GrownFrom
<1> QED
  BY <1>3, <1>4

\* A node that begins a turn begins a whole one.
LEMMA GrownNew ==
  ASSUME NEW d \in Nat, Begins(d), NEW n, n.at = d, scan' = <<n>>,
         NEW e \in Nat, Done' = e, d < e, d + 1 .. e - 1 \subseteq harmed',
         express' = express
  PROVE  GrownFrom(d)'
<1>0. PerTurn \in Nat \ {0, 1} /\ MaxScan \in Nat \ {0, 1}
  BY SizesAssumption
<1>1. Begins(d)' /\ Needs(d)' = Needs(d)
  BY DEF Begins, Needs
<1>2. Len(scan') = 1 /\ scan'[1] = n
  OBVIOUS
<1>3. Consecutive(scan)'
  BY <1>2 DEF Consecutive
<1>4. d + 1 < e => d + 1 \in harmed' /\ d + 1 \in d .. e - 1 /\ d + 1 \in Needs(d)
  BY <1>0 DEF Needs
<1>5. d + 1 = e => Least(e - d, MaxScan - 1) = 1
  BY <1>0 DEF Least
<1>6. (d .. e - 1) \cap harmed' = {} => Len(scan') = Least(e - d, MaxScan - 1)
  BY <1>2, <1>4, <1>5
<1>7. e > d + PerTurn => Needs(d)' \cap harmed' # {}
  BY <1>0, <1>1, <1>4
<1> QED
  BY <1>1, <1>3, <1>6, <1>7 DEF GrownFrom

\* A node that does not begin a turn goes to the end of the one in local_scan.
LEMMA GrownOn ==
  ASSUME TypeOK, Looping, pos <= count, Add, ~buf[pos].sync, scan # <<>>,
         NEW a \in Nat, scan[1].at = a, GrownFrom(a),
         NEW d \in Nat, Done = d, buf[pos].at = d, a < d, ~Begins(d),
         NEW e \in Nat, Done' = e, d < e, d + 1 .. e - 1 \subseteq harmed,
         express \in BOOLEAN, express' = express, harmed' = harmed
  PROVE  GrownFrom(a)'
<1>0. PerTurn \in Nat \ {0, 1} /\ MaxScan \in Nat \ {0, 1}
  BY SizesAssumption
<1>1. Begins(a) /\ Begins(a)' /\ Needs(a)' = Needs(a)
  BY DEF GrownFrom, Begins, Needs
<1>2. e > a + PerTurn => Needs(a) \cap harmed # {}
  <2>1. d # a + PerTurn
    BY <1>1, TurnsApart
  <2>2. d > a + PerTurn => Needs(a) \cap harmed # {}
    BY DEF GrownFrom
  <2>3. d < a + PerTurn /\ e > a + PerTurn => a + PerTurn \in d + 1 .. e - 1
    BY <1>0
  <2>4. a + PerTurn \in Needs(a)
    BY <1>0 DEF Needs
  <2> QED
    BY <1>0, <2>1, <2>2, <2>3, <2>4
<1>3. ASSUME (a .. e - 1) \cap harmed = {}
      PROVE  Consecutive(scan)' /\ Len(scan') = Least(e - a, MaxScan - 1)
  <2>1. e = d + 1
    <3>1. d + 1 < e => d + 1 \in d + 1 .. e - 1 /\ d + 1 \in a .. e - 1
      OBVIOUS
    <3> QED
      BY <1>3, <3>1
  <2>2. (a .. d - 1) \cap harmed = {}
    <3>1. a .. d - 1 \subseteq a .. e - 1
      OBVIOUS
    <3> QED
      BY <1>3, <3>1
  <2>3. Consecutive(scan) /\ Len(scan) = Least(d - a, MaxScan - 1)
    BY <2>2 DEF GrownFrom
  <2>4. buf[pos] \in Node /\ scan \in Seq(Node) /\ Len(scan) \in Nat
    BY AtHand, LenProperties DEF TypeOK, ArraysOK
  <2>5. CASE Len(scan) < MaxScan - 1
    <3>1. scan' = Append(scan, buf[pos])
      BY <2>5 DEF Add
    <3>2. /\ Len(scan') = Len(scan) + 1
          /\ \A i \in 1 .. Len(scan) : scan'[i] = scan[i]
          /\ scan'[Len(scan) + 1] = buf[pos]
      BY <2>4, <3>1, AppendProperties
    <3>3. Len(scan) = d - a
      BY <1>0, <2>3, <2>5 DEF Least
    <3>4. Len(scan') = Least(e - a, MaxScan - 1)
      BY <1>0, <2>1, <2>5, <3>2, <3>3 DEF Least
    <3>5. scan'[1].at = a
      <4>1. 1 \in 1 .. Len(scan)
        BY <3>3
      <4> QED
        BY <3>2, <4>1
    <3>6. ASSUME NEW i \in 1 .. Len(scan')
          PROVE  scan'[i].at = a + i - 1
      <4>1. CASE i \in 1 .. Len(scan)
        BY <2>3, <3>2, <4>1 DEF Consecutive
      <4>2. CASE i = Len(scan) + 1
        BY <3>2, <3>3, <4>2
      <4> QED
        BY <2>4, <3>2, <4>1, <4>2
    <3> QED
      BY <3>4, <3>5, <3>6 DEF Consecutive
  <2>6. CASE ~(Len(scan) < MaxScan - 1)
    <3>1. scan' = scan
      BY <2>6 DEF Add
    <3>2. Len(scan) = Least(e - a, MaxScan - 1)
      BY <1>0, <2>1, <2>3, <2>4, <2>6 DEF Least
    <3> QED
      BY <2>3, <3>1, <3>2 DEF Consecutive
  <2> QED
    BY <2>5, <2>6
<1> QED
  BY <1>1, <1>2, <1>3 DEF GrownFrom

\* The sample at hand is the one the loop is at.
LEMMA HandDone ==
  ASSUME TypeOK, Looping, Numbered, Linking, Streaming, pos <= count,
         cpc \in {"loop", "lock", "copy", "signal"}
  PROVE  Done = buf[pos].at /\ (buf[pos].sync <=> Begins(Done))
<1>1. PICK p \in Nat \ {0} : p = pos
  BY DEF TypeOK, ScalarsOK
<1>2. Lo = p /\ Hi = count /\ count \in Nat
  BY <1>1 DEF Lo, Hi, TypeOK, ScalarsOK
<1>3. p \in Lo .. Hi
  BY <1>1, <1>2
<1>4. Done = buf[p].at
  BY <1>2, <1>3 DEF Done, From
<1>5. Linked(p)
  BY <1>3 DEF Linking
<1> QED
  BY <1>1, <1>4, <1>5 DEF Linked

\* What is in local_scan is what has come of its turn.
LEMMA GrowingStep ==
  ASSUME IInv, Numbered, Linking, Ordered, Growing, IInv', Numbered', [Next]_vars
  PROVE  Growing'
<1> SUFFICES ASSUME Streaming', scan' # <<>>, scan'[1].sync, cpc' \notin {"none", "gone"}
             PROVE  \E a \in Nat : scan'[1].at = a /\ GrownFrom(a)'
  BY DEF Growing, FromStart
<1>0. /\ TypeOK /\ Looping /\ Locking /\ ArraysOK /\ Streaming
      /\ Done \in Nat /\ Done' \in Nat /\ Done <= Done'
      /\ express \in BOOLEAN /\ express' = express /\ harmed \subseteq harmed'
  BY StreamGoesOn, DoneStep DEF IInv, TypeOK, ScalarsOK
<1>1. FromStart => scan[1].at \in Nat /\ scan[1].at < Done
  <2>1. scan # <<>> => 1 \in 1 .. Len(scan)
    <3>1. Len(scan) \in Nat
      BY <1>0, LenProperties DEF ArraysOK
    <3> QED
      BY <1>0, <3>1, EmptySeq DEF ArraysOK
  <2> QED
    BY <1>0, <2>1 DEF FromStart, Ordered, Before
<1>2. CASE AddNode \/ Signal
  <2>1. /\ Add /\ pos <= count /\ express' = express /\ harmed' = harmed
        /\ cpc \in {"loop", "signal"}
        /\ cpc = "signal" => buf[pos].sync
    BY <1>0, <1>2 DEF AddNode, Signal, Looping, lidar
  <2>2. PICK d \in Nat : d = Done
    BY <1>0
  <2>e. PICK e \in Nat : e = Done'
    BY <1>0
  <2>3. /\ d = buf[pos].at /\ d < e /\ d + 1 .. e - 1 \subseteq harmed
        /\ buf[pos].sync <=> Begins(d)
    BY <1>0, <1>2, <2>2, <2>e, AddStep
  <2>4. CASE buf[pos].sync
    <3>1. scan' = <<buf[pos]>>
      BY <2>1, <2>4 DEF Add
    <3>2. scan'[1].at = d
      BY <2>3, <3>1
    <3>3. GrownFrom(d)'
      BY <1>0, <2>1, <2>e, <2>3, <2>4, <3>1, GrownNew
    <3> QED
      BY <3>2, <3>3
  <2>5. CASE ~buf[pos].sync
    <3>1. scan # <<>> /\ scan'[1] = scan[1] /\ FromStart /\ cpc = "loop"
      BY <1>0, <2>1, <2>5, AddFirst DEF FromStart
    <3>2. PICK a \in Nat : a = scan[1].at /\ a < d
      BY <1>1, <2>2, <3>1
    <3>3. GrownFrom(a)
      BY <1>0, <3>1, <3>2 DEF Growing
    <3>4. GrownFrom(a)'
      BY <1>0, <2>1, <2>2, <2>e, <2>3, <2>5, <3>1, <3>2, <3>3, GrownOn
    <3> QED
      BY <3>1, <3>2, <3>4
  <2> QED
    BY <2>4, <2>5
<1>3. CASE ~AddNode /\ ~Signal
  <2>1. scan' = scan /\ ~Start /\ cpc \notin {"none", "gone"}
    BY <1>0, <1>3 DEF Next, Main, Cache, Disable, Join, Start, StartFails,
       WaitOK, WaitBlocks,
       WaitTimesOut, WaitFails, CheckFails, CheckOK, Lock, Grab, Show, Test,
       ReceiveNode,
       NodesTimeOut, ReceiveCapsule, CapsuleTimesOut, Lose, PortFails, LoopEnds,
       Publish, CacheLock, Copy, locals, vars, Reading
  <2>2. FromStart /\ cpc # "first"
    BY <2>1 DEF FromStart, Numbered
  <2>3. Advanced
    BY <1>3, <2>1, <2>2, ReadingStep
  <2>4. PICK a \in Nat : a = scan[1].at /\ a < Done
    BY <1>1, <2>2
  <2>5. GrownFrom(a)
    BY <1>0, <2>1, <2>2, <2>4 DEF Growing
  <2>6. GrownFrom(a)'
    BY <1>0, <2>1, <2>3, <2>4, <2>5, GrownAdvanced
  <2> QED
    BY <2>1, <2>4, <2>6
<1> QED
  BY <1>2, <1>3

\* A turn is published when the next one begins, with all that has come of it.
LEMMA PublishedStep ==
  ASSUME IInv, Numbered, Linking, Ordered, Growing, Published, IInv', Numbered',
         [Next]_vars
  PROVE  Published'
<1> SUFFICES ASSUME Streaming', cached' # <<>>,
                    NEW a \in Nat, cached'[1].at = a, Needs(a)' \cap harmed' = {}
             PROVE  Whole(cached)'
  BY DEF Published
<1>0. /\ TypeOK /\ Looping /\ Locking /\ ArraysOK /\ Streaming /\ Done \in Nat
      /\ express' = express /\ harmed \subseteq harmed'
  BY StreamGoesOn, DoneStep DEF IInv, TypeOK
<1>1. Needs(a)' = Needs(a) /\ Begins(a)' = Begins(a) /\ Needs(a) \cap harmed = {}
  BY <1>0 DEF Needs, Begins
<1>2. CASE Copy
  <2>1. /\ FromStart /\ pos <= count /\ buf[pos].sync /\ cpc = "copy" /\ cached' = scan
        /\ scan # <<>>
    BY <1>0, <1>2 DEF Copy, Looping, FromStart
  <2>2. Done = buf[pos].at /\ Begins(Done)
    BY <1>0, <2>1, HandDone
  <2>3. a = scan[1].at /\ a < Done
    <3>1. Len(scan) \in Nat
      BY <1>0, LenProperties DEF ArraysOK
    <3>2. 1 \in 1 .. Len(scan)
      BY <1>0, <2>1, <3>1, EmptySeq DEF ArraysOK
    <3> QED
      BY <1>0, <2>1, <3>2 DEF Ordered, Before
  <2>4. GrownFrom(a)
    BY <1>0, <2>1, <2>3 DEF Growing
  <2>6. Done = a + PerTurn
    <3>1. a + PerTurn <= Done
      BY <1>0, <2>2, <2>3, <2>4, TurnsApart DEF GrownFrom
    <3> QED
      BY <1>0, <1>1, <2>4, <3>1, SizesAssumption DEF GrownFrom
  <2>7. (a .. Done - 1) \cap harmed = {}
    <3>1. a .. Done - 1 \subseteq Needs(a)
      BY <2>6, SizesAssumption DEF Needs
    <3> QED
      BY <1>1, <3>1
  <2>8. Consecutive(scan) /\ Len(scan) = Least(PerTurn, MaxScan - 1) /\ Begins(a)
    <3>1. Done - a = PerTurn
      BY <2>6, SizesAssumption
    <3> QED
      BY <2>4, <2>7, <3>1 DEF GrownFrom
  <2> QED
    BY <1>1, <2>1, <2>3, <2>8 DEF Whole, Consecutive
<1>3. CASE ~Copy
  <2>1. cached' = cached
    BY <1>3 DEF Next, Main, Cache, Disable, Join, Start, StartFails, WaitOK,
       WaitBlocks,
       WaitTimesOut, WaitFails, CheckFails, CheckOK, Lock, Grab, Show, Test,
       ReceiveNode,
       NodesTimeOut, ReceiveCapsule, CapsuleTimesOut, Lose, PortFails, LoopEnds,
       AddNode, Publish, CacheLock, Signal, shared, vars
  <2>2. Whole(cached)
    BY <1>0, <1>1, <2>1 DEF Published
  <2> QED
    BY <1>1, <2>1, <2>2 DEF Whole, Consecutive
<1> QED
  BY <1>2, <1>3

-----------------------------------------------------------------------------
(* The invariant with the order of the stream, and its theorems. *)

\* What the order of the stream adds holds of the first states.
LEMMA InitTurn == Init => TurnInv
<1> SUFFICES ASSUME Init PROVE TurnInv
  OBVIOUS
<1>1. IInv
  BY InitInvariant
<1>2. \A p : Before(<<>>, p)
  BY EmptySeq DEF Before
<1>3. /\ next = 0 /\ start = 0 /\ harmed = {} /\ cpc = "none" /\ pos = 1
      /\ buf = <<>> /\ scan = <<>> /\ cached = <<>> /\ nodes = <<>>
  BY DEF Init
<1>4. MaxSample \in Nat
  BY SizesAssumption DEF MaxSample
<1>5. Numbered
  BY <1>2, <1>3, <1>4 DEF Numbered, Ready
<1>6. Lo .. Hi = {}
  BY <1>3 DEF Lo, Hi
<1>7. Linking
  BY <1>6 DEF Linking
<1>8. Ordered
  BY <1>2, <1>3 DEF Ordered
<1>9. Growing /\ Published
  BY <1>3 DEF Growing, Published
<1> QED
  BY <1>1, <1>5, <1>7, <1>8, <1>9 DEF TurnInv

\* The stream is in order in every behaviour.
LEMMA TurnInvariant == Spec => []TurnInv
<1>1. TurnInv /\ [Next]_vars /\ IInv' => TurnInv'
  <2> SUFFICES ASSUME TurnInv, [Next]_vars, IInv'
               PROVE  TurnInv'
    OBVIOUS
  <2>1. IInv /\ Numbered /\ Linking /\ Ordered /\ Growing /\ Published
    BY DEF TurnInv
  <2>2. Numbered'
    BY <2>1, NumberedStep
  <2>3. Linking'
    BY <2>1, <2>2, LinkingStep
  <2>4. Ordered'
    BY <2>1, <2>2, OrderedStep
  <2>5. Growing'
    BY <2>1, <2>2, GrowingStep
  <2>6. Published'
    BY <2>1, <2>2, PublishedStep
  <2> QED
    BY <2>2, <2>3, <2>4, <2>5, <2>6 DEF TurnInv
<1> QED
  BY Invariant, InitTurn, <1>1, PTL DEF Spec

\* What grabScanData() returns was sent after all it returned before: no turn is
\* seen twice or out of order, across restarts and with a scan published while
\* the last one was copied, unless nodes left in local_buf were scanned again.
THEOREM TurnsInOrder == Spec => NeverTwice
<1>1. ASSUME TurnInv, [Next]_vars
      PROVE  [Grab /\ harmed # Samples
                => \A i \in 1 .. Len(nodes) : nodes[i].at < nodes'[1].at]_vars
  <2> SUFFICES ASSUME Grab, harmed # Samples
               PROVE  \A i \in 1 .. Len(nodes) : nodes[i].at < nodes'[1].at
    OBVIOUS
  <2>1. TypeOK /\ ArraysOK /\ cached # <<>> /\ Streaming
    BY <1>1 DEF TurnInv, IInv, TypeOK, Grab, Waking, Streaming
  <2>2. /\ nodes' \in Seq(Node) /\ nodes' # <<>>
        /\ \A i \in 1 .. Len(nodes') : nodes'[i] = cached[i]
    BY <2>1, GrabProperties
  <2>3. 1 \in 1 .. Len(nodes')
    <3>1. Len(nodes') \in Nat
      BY <2>2, LenProperties
    <3> QED
      BY <2>2, <3>1, EmptySeq
  <2>4. Before(nodes, cached[1].at)
    BY <1>1, <2>1 DEF TurnInv, Ordered
  <2> QED
    BY <2>2, <2>3, <2>4 DEF Before
<1> QED
  BY TurnInvariant, <1>1, PTL DEF Spec, NeverTwice

\* Once nodes left in local_buf were scanned again, nothing counts as unharmed.
Spoilt == ~Streaming /\ nodes # <<>> => Needs(nodes[1].at) \cap harmed # {}

LEMMA SpoiltForGood == IInv /\ Numbered => Spoilt
<1> SUFFICES ASSUME IInv, Numbered, ~Streaming, nodes # <<>>
             PROVE  Needs(nodes[1].at) \cap harmed # {}
  BY DEF Spoilt
<1>1. /\ ~express /\ harmed = 0 .. MaxNode /\ next \in Nat /\ next <= MaxNode + 1
      /\ nodes \in Seq(Node) /\ Len(nodes) \in Nat /\ PerTurn \in Nat \ {0, 1}
      /\ MaxNode \in Nat
  BY SizesAssumption, LenProperties
     DEF Streaming, Samples, MaxSample, Numbered, IInv, TypeOK, ScalarsOK, ArraysOK
<1>2. 1 \in 1 .. Len(nodes) /\ nodes[1] \in Node
  <2>1. 1 \in 1 .. Len(nodes)
    BY <1>1, EmptySeq
  <2> QED
    BY <1>1, <2>1, ElementOfSeq
<1>3. PICK a \in {-1} \cup Nat : a = nodes[1].at /\ a < next
  BY <1>2 DEF Numbered, Before, Node
<1>4. CASE a = -1
  <2>1. 0 \in Needs(a) /\ 0 \in harmed
    BY <1>1, <1>4 DEF Needs
  <2> QED
    BY <1>3, <2>1
<1>5. CASE a \in Nat
  <2>1. a \in Needs(a) /\ a \in harmed
    BY <1>1, <1>3, <1>5 DEF Needs
  <2> QED
    BY <1>3, <2>1
<1> QED
  BY <1>4, <1>5

\* A turn is whole when it is grabbed, and stays what it was.
LEMMA WholeStep ==
  ASSUME TurnInv, WholeUnlessLost, [Next]_vars, TypeOK', OneEach', Spoilt'
  PROVE  WholeUnlessLost'
<1> SUFFICES ASSUME result' = "ok",
                    NEW a, nodes'[1].at = a, Needs(a)' \cap harmed' = {}
             PROVE  OneTurn(nodes)'
  BY DEF WholeUnlessLost, Needs
<1>0. /\ IInv /\ Numbered /\ Ordered /\ Published /\ TypeOK /\ ArraysOK /\ Waking
      /\ MaxScan \in Nat \ {0, 1} /\ PerTurn \in Nat \ {0, 1} /\ Room \in Nat \ {0}
  BY SizesAssumption DEF TurnInv, IInv, TypeOK
<1>1. express' = express /\ harmed \subseteq harmed' /\ (Streaming' => Streaming)
  BY <1>0, StreamGoesOn
<1>2. Needs(a) \cap harmed = {} /\ Begins(a)' = Begins(a)
  BY <1>1 DEF Needs, Begins
<1>3. Streaming
  <2>1. nodes' # <<>>
    BY DEF OneEach
  <2>2. Streaming'
    BY <2>1 DEF Spoilt, Needs
  <2> QED
    BY <1>1, <2>2
<1>4. CASE Grab
  <2>1. cached # <<>>
    BY <1>0, <1>4 DEF Grab, Waking
  <2>2. /\ nodes' \in Seq(Node) /\ nodes' # <<>>
        /\ Len(nodes') <= Room /\ Len(nodes') <= Len(cached)
        /\ Len(nodes') = Len(cached) \/ Len(nodes') = Room
        /\ \A i \in 1 .. Len(nodes') : nodes'[i] = cached[i]
    BY <1>0, <1>4, <2>1, GrabProperties
  <2>3. Len(nodes') \in Nat \ {0} /\ Len(cached) \in Nat
    BY <1>0, <2>2, LenProperties, EmptySeq DEF ArraysOK
  <2>4. cached[1].at = a
    BY <2>2, <2>3
  <2>5. Begins(a) /\ Consecutive(cached) /\ Len(cached) = Least(PerTurn, MaxScan - 1)
    <3>1. a \in Nat
      BY <1>0, <1>3, <2>1, <2>4 DEF Ordered
    <3> QED
      BY <1>0, <1>2, <1>3, <2>1, <2>4, <3>1 DEF Published, Whole
  <2>6. Len(nodes') = IF PerTurn < Room THEN PerTurn ELSE Room
    BY <1>0, <2>2, <2>3, <2>5, RoomAssumption DEF Least
  <2>7. ASSUME NEW i \in 1 .. Len(nodes')
        PROVE  nodes'[i].at = a + i - 1
    BY <2>2, <2>3, <2>4, <2>5 DEF Consecutive
  <2> QED
    BY <1>2, <2>5, <2>6, <2>7 DEF OneTurn, Begins
<1>5. CASE ~Grab
  <2>1. nodes' = nodes /\ result' = result
    BY <1>5 DEF Next, Main, Cache, Disable, Join, Start, StartFails, WaitOK,
       WaitBlocks,
       WaitTimesOut, WaitFails, CheckFails, CheckOK, Lock, Show, Test,
       ReceiveNode, NodesTimeOut,
       ReceiveCapsule, CapsuleTimesOut, Lose, PortFails, LoopEnds, AddNode, Publish,
       CacheLock, Copy, Signal, main, vars
  <2>2. OneTurn(nodes)
    BY <1>2, <2>1 DEF WholeUnlessLost
  <2> QED
    BY <1>1, <2>1, <2>2 DEF OneTurn, Begins
<1> QED
  BY <1>4, <1>5

\* A turn of which no sample was lost or dropped is grabbed whole and in order,
\* or as much of it as the caller has room for: neither a restart, a capsule that
\* came late nor a grab that overlaps the next turn takes a node away.
THEOREM TurnsWhole == Spec => []WholeUnlessLost
<1>1. Init => WholeUnlessLost
  BY DEF Init, WholeUnlessLost
<1>2. TurnInv => Spoilt /\ TypeOK /\ OneEach
  BY SpoiltForGood DEF TurnInv, IInv
<1>3. /\ TurnInv /\ WholeUnlessLost /\ [Next]_vars /\ TypeOK' /\ OneEach' /\ Spoilt'
      => WholeUnlessLost'
  BY WholeStep
<1> QED
  BY TurnInvariant, <1>1, <1>2, <1>3, PTL DEF Spec
=============================================================================

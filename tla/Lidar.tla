-------------------------------- MODULE Lidar --------------------------------
(***************************************************************************)
(* The lidar reader w7s1.cpp and the part of the RPLidar SDK it runs: the  *)
(* main thread starts a scan, grabs one turn of it, writes it to a file    *)
(* and starts again; a cache thread reads the lidar's samples and          *)
(* publishes each full turn.  They share _isScanning, the cached scan, the *)
(* mutex _lock and the auto-reset event _dataEvt.                          *)
(*                                                                         *)
(* A lidar sends single nodes or, with newer firmware, capsules of 32      *)
(* nodes whose angles are only known when the next capsule is there.  A    *)
(* sample (a node or a capsule) is named by its number in the lidar's      *)
(* stream; a capsule's nodes are one node here.  Samples may be lost, and  *)
(* each read may time out or fail.                                         *)
(***************************************************************************)
EXTENDS Integers, Sequences, FiniteSets

CONSTANTS PerTurn,     \* samples of one turn
          MaxScan,     \* MAX_SCAN_NODES
          Batch,       \* nodes _waitScanData() is asked for: 128
          Room,        \* nodes w7s1 has room for: 720
          MaxNode,     \* bound on the nodes the lidar sends, or
          MaxCapsule,  \* on the capsules
          MaxLost      \* bound on the samples lost or dropped

ASSUME SizesAssumption ==
  /\ PerTurn \in Nat \ {0, 1} /\ MaxScan \in Nat \ {0, 1}
  /\ Batch \in Nat \ {0} /\ Room \in Nat \ {0}
  /\ MaxNode \in Nat /\ MaxCapsule \in Nat /\ MaxLost \in Nat

\* What the caller has room for is less than what local_scan holds: 720 < 2048.
ASSUME RoomAssumption == Room < MaxScan

VARIABLES
  \* the lidar
  express,        \* its firmware is new enough: it sends capsules
  next,           \* the sample it sends next
  start,          \* the first capsule since the scan was started
  \* the cache thread: where it is, and its locals
  cpc, buf, count, pos, scan,
  \* _cached_previous_capsuledata, _is_previous_capsuledataRdy
  prev, rdy,
  \* the main thread: where it is, its nodes[0 .. count-1], and what
  \* grabScanData() returned
  mpc, nodes, result,
  \* shared by the two
  isScanning, lock, dataEvt, cached,
  \* history
  harmed          \* samples lost on the way or dropped, or all of them once
                  \* nodes left in local_buf were scanned again

lidar   == <<express, next, start>>
locals  == <<buf, count, pos, scan>>
capsule == <<prev, rdy>>
main    == <<mpc, nodes, result>>
shared  == <<isScanning, lock, dataEvt, cached>>
vars    == <<lidar, cpc, locals, capsule, main, shared, harmed>>

Node == [at : {-1} \cup Nat, sync : BOOLEAN]

MaxSample == IF express THEN MaxCapsule ELSE MaxNode

Samples == 0 .. MaxSample

\* What is in an array that nobody has written.
Junk == [at : {-1}, sync : BOOLEAN]

Init ==
  /\ express \in BOOLEAN /\ next = 0 /\ start = 0
  /\ cpc = "none" /\ buf = <<>> /\ count = 0 /\ pos = 1 /\ scan = <<>>
  /\ prev = -1 /\ rdy \in {FALSE, express} \* the constructor does not set it
  /\ mpc = "disable" /\ nodes = <<>> /\ result = "timeout"
  /\ isScanning = FALSE /\ lock = "free" /\ dataEvt = FALSE /\ cached = <<>>
  /\ harmed = {}

-----------------------------------------------------------------------------
(* The main thread: the loop of main() *)

\* Mutant: stopping also forgets the cached scan.
DisableForgets ==
  /\ mpc \in {"disable", "stop"}
  /\ isScanning' = FALSE /\ cached' = <<>>
  /\ mpc' = IF mpc = "disable" THEN "join" ELSE "rejoin"
  /\ UNCHANGED <<lidar, cpc, locals, capsule, nodes, result, lock, dataEvt,
                 harmed>>

\* startScan() begins, by way of getDeviceInfo(), with _disableDataGrabbing(), and
\* so does the stop() at the end.
Disable ==
  /\ mpc \in {"disable", "stop"}
  /\ isScanning' = FALSE
  /\ mpc' = IF mpc = "disable" THEN "join" ELSE "rejoin"
  /\ UNCHANGED <<lidar, cpc, locals, capsule, nodes, result, lock, dataEvt,
                 cached, harmed>>

\* The thread of the last scan has ended, or there has been none.  (That it is
\* joined again, some more times, is taken to return at once.)
Join ==
  /\ mpc \in {"join", "rejoin"} /\ cpc \in {"none", "gone"}
  /\ cpc' = "none" /\ buf' = <<>> /\ count' = 0 /\ pos' = 1 /\ scan' = <<>>
  /\ mpc' = IF mpc = "join" THEN "command" ELSE "ended"
  /\ UNCHANGED <<lidar, capsule, nodes, result, shared, harmed>>

\* Mutant: starting resets the event, and leaves the cached scan.
StartClears ==
  /\ mpc = "command"
  /\ next' \in next .. next + PerTurn - 1 /\ next' <= MaxSample
  /\ start' = IF express THEN next' ELSE start
  /\ isScanning' = TRUE /\ mpc' = "wait" /\ dataEvt' = FALSE
  /\ cpc' = "first" /\ pos' = 1 /\ scan' = <<>>
  /\ buf' \in [1 .. Batch -> Junk] /\ count' = Batch
  /\ UNCHANGED <<express, capsule, nodes, result, lock, cached, harmed>>

\* The lidar confirms the command, and a new cache thread is created.  Nothing
\* resets the event, the cached scan or the last capsule.
Start ==
  /\ mpc = "command"
  /\ next' \in next .. next + PerTurn - 1 /\ next' <= MaxSample
  /\ start' = IF express THEN next' ELSE start
  /\ isScanning' = TRUE /\ mpc' = "wait"
  /\ cpc' = "first" /\ pos' = 1 /\ scan' = <<>>
  /\ buf' \in [1 .. Batch -> Junk] /\ count' = Batch
  /\ UNCHANGED <<express, capsule, nodes, result, lock, dataEvt, cached, harmed>>

\* It does not, in time, or the thread cannot be created: the loop of main() is
\* left.
StartFails ==
  /\ mpc = "command"
  /\ mpc' = "stop" /\ isScanning' \in BOOLEAN
  /\ UNCHANGED <<lidar, cpc, locals, capsule, nodes, result, lock, dataEvt,
                 cached, harmed>>

-----------------------------------------------------------------------------
(* The main thread: grabScanData() *)

\* Event::wait() takes the event back, at once or after it has blocked ...
WaitOK ==
  /\ mpc \in {"wait", "blocked"} /\ dataEvt
  /\ dataEvt' = FALSE /\ mpc' = "check"
  /\ UNCHANGED <<lidar, cpc, locals, capsule, nodes, result, isScanning, lock,
                 cached, harmed>>

\* which it does if the event is not set ...
WaitBlocks ==
  /\ mpc = "wait" /\ ~dataEvt
  /\ mpc' = "blocked"
  /\ UNCHANGED <<lidar, cpc, locals, capsule, nodes, result, shared, harmed>>

\* until the time is over: it does not look again whether the event is set, and
\* count is 0.
WaitTimesOut ==
  /\ mpc = "blocked"
  /\ mpc' = "show" /\ nodes' = <<>> /\ result' = "timeout"
  /\ UNCHANGED <<lidar, cpc, locals, capsule, shared, harmed>>

\* Or it fails.
WaitFails ==
  /\ mpc = "blocked"
  /\ mpc' = "show" /\ nodes' = <<>> /\ result' = "failed"
  /\ UNCHANGED <<lidar, cpc, locals, capsule, shared, harmed>>

\* The count of the cached scan is read without the lock.  If it is 0, count
\* is left as it was, and nodes as the stack had it.
CheckFails ==
  /\ mpc = "check" /\ cached = <<>>
  /\ mpc' = "show" /\ result' = "timeout"
  /\ nodes' \in [1 .. Room -> Junk]
  /\ UNCHANGED <<lidar, cpc, locals, capsule, shared, harmed>>

CheckOK ==
  /\ mpc = "check" /\ cached # <<>>
  /\ mpc' = "lock"
  /\ UNCHANGED <<lidar, cpc, locals, capsule, nodes, result, shared, harmed>>

Lock ==
  /\ mpc = "lock" /\ lock = "free"
  /\ lock' = "main" /\ mpc' = "copy"
  /\ UNCHANGED <<lidar, cpc, locals, capsule, nodes, result, isScanning,
                 dataEvt, cached, harmed>>

\* Mutant: the count of the cached scan is not reset.
GrabKeeps ==
  /\ mpc = "copy"
  /\ nodes' = SubSeq(cached, 1, IF Len(cached) < Room THEN Len(cached) ELSE Room)
  /\ lock' = "free" /\ mpc' = "show" /\ result' = "ok"
  /\ UNCHANGED <<lidar, cpc, locals, capsule, isScanning, dataEvt, cached,
                 harmed>>

\* As much as there is room for is copied, and the cached scan is gone.
Grab ==
  /\ mpc = "copy"
  /\ nodes' = SubSeq(cached, 1, IF Len(cached) < Room THEN Len(cached) ELSE Room)
  /\ cached' = <<>> /\ lock' = "free"
  /\ mpc' = "show" /\ result' = "ok"
  /\ UNCHANGED <<lidar, cpc, locals, capsule, isScanning, dataEvt, harmed>>

\* capture_and_display() writes the nodes to the file, unless the wait failed; a
\* timeout, too, ends the loop of main().
Show ==
  /\ mpc = "show"
  /\ mpc' = IF result = "ok" THEN "disable" ELSE "stop"
  /\ UNCHANGED <<lidar, cpc, locals, capsule, nodes, result, shared, harmed>>

-----------------------------------------------------------------------------
(* The cache thread: reading *)

Reading == cpc \in {"first", "read"}

\* The first read is thrown away, whatever came of it.
AfterRead == IF cpc = "first" THEN "test" ELSE "loop"

\* Mutant: the thread does not look at _isScanning.
TestForever ==
  /\ cpc = "test"
  /\ cpc' = "read" /\ pos' = 1
  /\ UNCHANGED <<lidar, buf, count, scan, capsule, main, shared, harmed>>

\* while(_isScanning), and the end of the thread.
Test ==
  /\ cpc = "test"
  /\ cpc' = IF isScanning THEN "read" ELSE "gone"
  /\ pos' = 1
  /\ UNCHANGED <<lidar, buf, count, scan, capsule, main, shared, harmed>>

\* Mutant: off by one, the last node is not waited for.
ReceiveShort ==
  /\ ~express /\ Reading /\ next <= MaxSample /\ pos <= count
  /\ buf' = [buf EXCEPT ![pos] = [at |-> next, sync |-> next % PerTurn = 0]]
  /\ next' = next + 1
  /\ pos' = IF pos + 1 >= count THEN 1 ELSE pos + 1
  /\ cpc' = IF pos + 1 >= count THEN AfterRead ELSE cpc
  /\ UNCHANGED <<express, start, count, scan, capsule, main, shared, harmed>>

\* _waitScanData() puts the next node in local_buf, until it has count nodes.
ReceiveNode ==
  /\ ~express /\ Reading /\ next <= MaxSample /\ pos <= count
  /\ buf' = [buf EXCEPT ![pos] = [at |-> next, sync |-> next % PerTurn = 0]]
  /\ next' = next + 1
  /\ pos' = IF pos = count THEN 1 ELSE pos + 1
  /\ cpc' = IF pos = count THEN AfterRead ELSE cpc
  /\ UNCHANGED <<express, start, count, scan, capsule, main, shared, harmed>>

\* Or its time is over: when _waitNode() says so, count is left as it was, and
\* what local_buf held before is scanned again; when it notices so itself,
\* count is what it has, and stays at that for the rest of this scan.
NodesTimeOut ==
  /\ ~express /\ Reading
  /\ count' \in {count, pos - 1}
  /\ harmed' = IF cpc = "read" /\ count' # pos - 1 THEN Samples ELSE harmed
  /\ pos' = 1 /\ cpc' = AfterRead
  /\ UNCHANGED <<lidar, buf, scan, capsule, main, shared>>

\* _waitCapsuledNode() returns a capsule; the first one of a scan is marked.
\* _capsuleToNormal() makes the nodes of the one before it.  One of them is the
\* first of a turn if the angle falls from that capsule to this one.
ReceiveCapsule ==
  /\ express /\ Reading /\ next <= MaxSample
  /\ LET ready == rdy /\ next # start IN
     IF cpc = "first"
     THEN rdy' = ready /\ UNCHANGED <<prev, buf, count>>
     ELSE /\ buf' = IF ready
                    THEN <<[at |-> prev,
                            sync |-> next % PerTurn < prev % PerTurn]>>
                    ELSE <<>>
          /\ count' = IF ready THEN 1 ELSE 0
          /\ prev' = next /\ rdy' = TRUE
  /\ next' = next + 1 /\ pos' = 1 /\ cpc' = AfterRead
  /\ UNCHANGED <<express, start, scan, main, shared, harmed>>

\* The bound on the samples lost.
NotTooMany == harmed' = Samples \/ Cardinality(harmed') <= MaxLost

\* Or times out: the capsule before is kept, unless _waitCapsuledNode() notices
\* so itself.
CapsuleTimesOut ==
  /\ express /\ Reading
  /\ rdy' \in {rdy, FALSE}
  /\ harmed' = IF rdy' = rdy THEN harmed ELSE harmed \cup {prev}
  /\ NotTooMany
  /\ cpc' = "test"
  /\ UNCHANGED <<lidar, locals, prev, main, shared>>

\* Bytes of a sample are lost.  _waitNode() drops what is left of a node it has
\* not begun; _waitCapsuledNode() also forgets the capsule before, and if it was
\* at the checksum by then, the read fails.  A capsule that ends in the next one
\* takes that along: this happens twice in a row.
Lose ==
  /\ Reading /\ next <= MaxSample /\ (express \/ pos <= count)
  /\ next' = next + 1 /\ harmed' = harmed \cup {next} /\ NotTooMany
  /\ IF express THEN rdy' = FALSE /\ cpc' \in {cpc, "test"}
                ELSE UNCHANGED <<rdy, cpc>>
  /\ UNCHANGED <<express, start, locals, prev, main, shared>>

\* The port fails, and with it the thread, if it has made its first read.
PortFails ==
  /\ Reading /\ (express \/ pos <= count)
  /\ IF cpc = "first" THEN cpc' = "test" /\ UNCHANGED isScanning
                      ELSE cpc' = "gone" /\ isScanning' = FALSE
  /\ UNCHANGED <<lidar, locals, capsule, main, lock, dataEvt, cached, harmed>>

-----------------------------------------------------------------------------
(* The cache thread: the loop over what was read *)

LoopEnds ==
  /\ cpc = "loop" /\ pos > count
  /\ cpc' = "test"
  /\ UNCHANGED <<lidar, locals, capsule, main, shared, harmed>>

\* Mutant: what is in local_scan is published although no turn began there.
FromAnywhere == scan # <<>>

\* local_scan[0] is the first node of a turn.
FromStart == scan # <<>> /\ scan[1].sync

\* Mutant: scan_count has no limit.
AddOverruns ==
  /\ scan' = IF buf[pos].sync THEN <<buf[pos]>> ELSE Append(scan, buf[pos])
  /\ pos' = pos + 1

\* The node at hand goes into local_scan, in place of the last turn if it is
\* the first of a turn, and nowhere if local_scan is full.
Add ==
  /\ scan' = IF buf[pos].sync THEN <<buf[pos]>>
             ELSE IF Len(scan) < MaxScan - 1 THEN Append(scan, buf[pos])
             ELSE scan
  /\ pos' = pos + 1

AddNode ==
  /\ cpc = "loop" /\ pos <= count
  /\ ~(buf[pos].sync /\ FromStart)
  /\ Add
  /\ UNCHANGED <<lidar, cpc, buf, count, capsule, main, shared, harmed>>

\* The next turn begins: the last one is published.
Publish ==
  /\ cpc = "loop" /\ pos <= count
  /\ buf[pos].sync /\ FromStart
  /\ cpc' = "lock"
  /\ UNCHANGED <<lidar, locals, capsule, main, shared, harmed>>

CacheLock ==
  /\ cpc = "lock" /\ lock = "free"
  /\ lock' = "cache" /\ cpc' = "copy"
  /\ UNCHANGED <<lidar, locals, capsule, main, isScanning, dataEvt, cached,
                 harmed>>

Copy ==
  /\ cpc = "copy"
  /\ cached' = scan /\ cpc' = "signal"
  /\ UNCHANGED <<lidar, locals, capsule, main, isScanning, lock, dataEvt,
                 harmed>>

\* Mutant: the lock is kept.
SignalLocked ==
  /\ cpc = "signal"
  /\ dataEvt' = TRUE
  /\ Add /\ cpc' = "loop"
  /\ UNCHANGED <<lidar, buf, count, capsule, main, isScanning, lock, cached,
                 harmed>>

Signal ==
  /\ cpc = "signal"
  /\ dataEvt' = TRUE /\ lock' = "free"
  /\ Add /\ cpc' = "loop"
  /\ UNCHANGED <<lidar, buf, count, capsule, main, isScanning, cached, harmed>>

-----------------------------------------------------------------------------
Main == \/ Disable \/ Join \/ Start \/ StartFails
        \/ WaitOK \/ WaitBlocks \/ WaitTimesOut \/ WaitFails
        \/ CheckFails \/ CheckOK \/ Lock \/ Grab \/ Show

Cache == \/ Test \/ ReceiveNode \/ NodesTimeOut \/ ReceiveCapsule
         \/ CapsuleTimesOut \/ Lose \/ PortFails
         \/ LoopEnds \/ AddNode \/ Publish \/ CacheLock \/ Copy \/ Signal

Next == Main \/ Cache

Spec == Init /\ [][Next]_vars

\* Both threads run whenever they can: every wait for the lidar has a timeout.
\* The cache thread holds the lock for a moment of each turn, so the main
\* thread, which waits for it, gets it when it is released often enough.
FairSpec == Spec /\ WF_vars(Main) /\ WF_vars(Cache) /\ SF_vars(Lock)

-----------------------------------------------------------------------------
\* Every variable but the arrays has its type ...
ScalarsOK ==
  /\ express \in BOOLEAN /\ next \in Nat /\ start \in Nat
  /\ cpc \in {"none", "first", "test", "read", "loop", "lock", "copy",
              "signal", "gone"}
  /\ count \in Nat /\ pos \in Nat \ {0}
  /\ prev \in {-1} \cup Nat /\ rdy \in BOOLEAN
  /\ mpc \in {"disable", "join", "command", "wait", "blocked", "check", "lock",
              "copy", "show", "stop", "rejoin", "ended"}
  /\ result \in {"ok", "timeout", "failed"}
  /\ isScanning \in BOOLEAN /\ lock \in {"free", "main", "cache"}
  /\ dataEvt \in BOOLEAN
  /\ harmed \subseteq {-1} \cup Nat

\* and the arrays hold nodes.
ArraysOK ==
  /\ buf \in Seq(Node) /\ scan \in Seq(Node)
  /\ nodes \in Seq(Node) /\ cached \in Seq(Node)

\* Every variable has its type, and no array is overrun: local_scan and the
\* cached scan by nodes without a first one among them, the caller's by a scan
\* it has no room for.
TypeOK ==
  /\ ScalarsOK /\ ArraysOK
  /\ Len(scan) < MaxScan /\ Len(cached) < MaxScan /\ Len(nodes) <= Room

\* A thread that waits for the event does not wait past a scan: whatever was
\* published and not grabbed has its event set, or about to be.
NoScanMissed ==
  mpc \in {"wait", "blocked"} /\ cached # <<>> => dataEvt \/ cpc = "signal"

\* rplidar_driver.h:175: the first node grabbed is the first of a turn, and
\* no other is, whatever was lost and however late it came.
OneStart ==
  result = "ok" => /\ nodes[1].sync
                   /\ \A i \in 2 .. Len(nodes) : ~nodes[i].sync

\* The first of a turn: in a stream of capsules, the last that begins before 0.
Begins(p) == p % PerTurn = IF express THEN PerTurn - 1 ELSE 0

\* s is one turn, cut to the room there was.
OneTurn(s) ==
  /\ Len(s) = IF PerTurn < Room THEN PerTurn ELSE Room
  /\ Begins(s[1].at)
  /\ \A i \in 1 .. Len(s) : s[i].at = s[1].at + i - 1

\* The samples a turn from a needs: its own, and the one that ends it.
Needs(a) == a .. a + PerTurn + (IF express THEN 1 ELSE 0)

\* A turn of which nothing was lost is grabbed whole and in order, unless a
\* read of single nodes has ever timed out half-way.
WholeUnlessLost ==
  result = "ok" /\ Needs(nodes[1].at) \cap harmed = {}
  => OneTurn(nodes)

\* No turn is grabbed twice, or after a later one: neither a scan that was
\* published while the last one was copied, nor the last of a thread that has
\* ended.  Reads of single nodes that time out are excepted.
NeverTwice ==
  [][Grab /\ harmed # Samples => \A i \in 1 .. Len(nodes) : nodes[i].at < nodes'[1].at]_vars

\* The reader never hangs, in a join or at the lock.
ReaderGoesOn == []<>(mpc \in {"disable", "ended"})

-----------------------------------------------------------------------------
\* The slot: what is cached, once it has been announced.
slot == IF dataEvt \/ mpc \in {"check", "lock", "copy"} THEN cached ELSE <<>>

Promise == INSTANCE Slot WITH Scans <- Seq(Node), Nothing <- <<>>,
             got <- IF result = "ok" THEN nodes ELSE <<>>,
             waits <- mpc = "blocked"

\* The threads implement the slot of rplidar_driver.h: nothing is grabbed
\* twice, a grab waits only if nothing is announced, and one in vain leaves
\* what is announced meanwhile to the next.
ImplementsSlot == Promise!Spec

=============================================================================

--------------------------------- MODULE Slot ---------------------------------
(***************************************************************************)
(* What rplidar_driver.h promises of scans and grabScanData(): the driver  *)
(* keeps the last scan that nobody has grabbed; a scan is grabbed at most  *)
(* once, cut to the room the caller has.  A caller waits only if there is  *)
(* none, and goes away with nothing only if there was none when it came or *)
(* there is none when it goes; what comes as its time runs out may be left *)
(* to the next caller, but is not lost.                                    *)
(***************************************************************************)
EXTENDS Integers, Sequences

CONSTANTS Room,       \* nodes the caller has room for
          Scans,      \* the scans that may be published
          Nothing     \* RESULT_OPERATION_TIMEOUT, RESULT_OPERATION_FAIL

VARIABLES slot,       \* the scan nobody has grabbed, or <<>>
          got,        \* what the last grabScanData() returned
          waits       \* a caller came when there was none

Init == slot = <<>> /\ got = Nothing /\ waits = FALSE

Put  == slot' \in Scans \ {<<>>} /\ UNCHANGED <<got, waits>>

Wait == slot = <<>> /\ ~waits /\ waits' = TRUE /\ UNCHANGED <<slot, got>>

Wake == waits /\ waits' = FALSE /\ UNCHANGED <<slot, got>>

Take == /\ ~waits /\ slot # <<>> /\ slot' = <<>>
        /\ got' = SubSeq(slot, 1, IF Len(slot) < Room THEN Len(slot) ELSE Room)
        /\ UNCHANGED waits

Miss == /\ waits \/ slot = <<>>
        /\ got' = Nothing /\ waits' = FALSE /\ UNCHANGED slot

Next == Put \/ Wait \/ Wake \/ Take \/ Miss

Spec == Init /\ [][Next]_<<slot, got, waits>>
=============================================================================

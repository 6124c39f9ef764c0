------------------------------ MODULE Dialogue ------------------------------
(***************************************************************************)
(* What an operator who waits for the answer to each command before giving *)
(* the next expects of Alex: each command is carried out once, and when he *)
(* has its answer it has been.  Once he no longer waits (trusted is FALSE) *)
(* nothing is promised.                                                    *)
(***************************************************************************)
EXTENDS Integers

VARIABLES asked,      \* commands given
          executed,   \* commands carried out
          heard,      \* answers received
          trusted     \* the operator has waited for each, so far

vars == <<asked, executed, heard, trusted>>

Init == asked = 0 /\ executed = 0 /\ heard = 0 /\ trusted \in BOOLEAN

Ask     == /\ asked = heard
           /\ asked' = asked + 1 /\ UNCHANGED <<executed, heard>>

Execute == /\ executed < asked
           /\ executed' = executed + 1 /\ UNCHANGED <<asked, heard>>

Hear    == /\ heard < executed
           /\ heard' = heard + 1 /\ UNCHANGED <<asked, executed>>

Next == /\ trusted' => trusted
        /\ trusted' => Ask \/ Execute \/ Hear

Spec == Init /\ [][Next]_vars
=============================================================================

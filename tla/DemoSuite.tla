------------------------------- MODULE DemoSuite -------------------------------
(***************************************************************************)
(* What a suite of demos promises: unless it gives up before the first one *)
(* or is killed, it runs all of them in order, a failure of one not        *)
(* keeping the others from running, and its exit code is 0 exactly when    *)
(* none of them has failed.                                                *)
(***************************************************************************)
EXTENDS Naturals

CONSTANT N             \* number of demos

VARIABLES ran,         \* how many have returned
          failed,      \* those that returned an error
          outcome      \* "running", "killed" or the exit code

vars == << ran, failed, outcome >>

Over == outcome # "running"

Init == ran = 0 /\ failed = {} /\ outcome = "killed"

Launch == /\ Over
          /\ ran' = 0 /\ failed' = {} /\ outcome' = "running"

RunNext == /\ ~Over /\ ran < N
           /\ ran' = ran + 1
           /\ failed' \in {failed, failed \cup {ran + 1}}
           /\ UNCHANGED outcome

GiveUp == /\ ~Over /\ ran = 0
          /\ outcome' = "1"
          /\ UNCHANGED << ran, failed >>

Conclude == /\ ~Over /\ ran = N
            /\ outcome' = IF failed = {} THEN "0" ELSE "1"
            /\ UNCHANGED << ran, failed >>

Die == /\ ~Over
       /\ outcome' = "killed"
       /\ UNCHANGED << ran, failed >>

Next == Launch \/ RunNext \/ GiveUp \/ Conclude \/ Die

Spec == Init /\ [][Next]_vars

=============================================================================

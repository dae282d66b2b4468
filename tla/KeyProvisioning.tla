---------------------------- MODULE KeyProvisioning ----------------------------
(***************************************************************************)
(* What the demo promises about the keys of the secure element, without    *)
(* its calls, handles and files.  A run replaces the demo keys one after   *)
(* the other.  Before a key is made the old one may be erased; once it is  *)
(* made it stays; the next key is not touched before.  A run passes only   *)
(* when every key was made in it; it may fail or lose power at any point,  *)
(* and a key whose creation was not acknowledged may exist all the same.   *)
(***************************************************************************)
EXTENDS Naturals, Sequences

CONSTANTS KeyOrder,    \* the key identifiers in the order they are made
          Transient,   \* those the secure element loses with its power
          NoKey        \* the material of an empty slot

Ids == { KeyOrder[i] : i \in DOMAIN KeyOrder }

VARIABLES store,       \* key material by identifier: the run that made it
          run,         \* number of the current run
          made,        \* identifiers whose creation was acknowledged in it
          outcome      \* "idle", "running", "passed" or "failed"

vars == << store, run, made, outcome >>

(* The key whose turn it is. *)
Turn(id) == /\ id \in Ids \ made
             /\ \A i, j \in DOMAIN KeyOrder :
                    (i < j /\ KeyOrder[j] = id) => KeyOrder[i] \in made

Init == /\ store \in [Ids -> {NoKey, 0}]
        /\ run = 0
        /\ made = {}
        /\ outcome = "idle"

Begin == /\ outcome # "running"
         /\ run' = run + 1
         /\ made' = {}
         /\ outcome' = "running"
         /\ UNCHANGED store

Erase(id) == /\ outcome = "running"
             /\ Turn(id)
             /\ store' = [store EXCEPT ![id] = NoKey]
             /\ UNCHANGED << run, made, outcome >>

(* The key is made and the run learns of it. *)
Make(id) == /\ outcome = "running"
            /\ Turn(id)
            /\ store' = [store EXCEPT ![id] = run]
            /\ made' = made \cup {id}
            /\ UNCHANGED << run, outcome >>

(* The key is made and the answer is lost. *)
MakeUnnoticed(id) == /\ outcome = "running"
                     /\ Turn(id)
                     /\ store' = [store EXCEPT ![id] = run]
                     /\ UNCHANGED << run, made, outcome >>

(* The session ends, with it the transient objects may go. *)
Finish == /\ outcome = "running"
          /\ outcome' \in {"failed"} \cup (IF made = Ids THEN {"passed"} ELSE {})
          /\ \E lost \in SUBSET Transient :
                store' = [id \in Ids |-> IF id \in lost THEN NoKey ELSE store[id]]
          /\ UNCHANGED << run, made >>

Next == \/ Begin
        \/ Finish
        \/ \E id \in Ids : Erase(id) \/ Make(id) \/ MakeUnnoticed(id)

Spec == Init /\ [][Next]_vars

=============================================================================

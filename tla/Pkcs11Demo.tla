------------------------------- MODULE Pkcs11Demo ------------------------------
(***************************************************************************)
(* The program pkcs11_demo of pkcs11_example/: it loads the PKCS#11        *)
(* library, opens one session, runs ten functions on it whatever each of   *)
(* them returns, and releases session and library.  The functions are the  *)
(* scripts of Pkcs11Scripts.                                               *)
(*                                                                         *)
(* The objects they make live on the token beyond the run; the cryptograph-*)
(* ic operations they begin are state of the session that they share.      *)
(***************************************************************************)
EXTENDS Naturals, Sequences, Pkcs11Scripts

CONSTANTS MaxRuns,     \* bound on the runs of the program
          MaxFaults,   \* bound on the external failures in a run, its death included
          Leftovers    \* what the token may hold in the beginning

ASSUME MaxRunsAssumption == MaxRuns \in Nat
ASSUME MaxFaultsAssumption == MaxFaults \in Nat
ASSUME LeftoversAssumption == Leftovers \subseteq SUBSET TokenIds

VARIABLES
    objects,   \* identifiers of the objects on the token and in the session
    active,    \* operations begun in the session and not finished
    opened,    \* what main has to release: "library", "module", "session"
    slot,      \* slots[0]: "unset", "listed" or "garbage"
    at,        \* where main is
    rc,        \* its exit code
    stage,     \* number of the function that runs
    round,     \* its round,
    pc,        \* and the call of that round
    frc,       \* the local rc of the function
    held,      \* its handles that are not CK_INVALID_HANDLE
    pending,   \* outputs of the round that nothing has confirmed yet
    failed,    \* the functions that returned 1 in this run
    before,    \* objects at the start of the run
    lost,      \* objects that a failed call may have left behind in it
    faults,    \* external failures in it
    runs       \* runs started

vars == << objects, active, opened, slot, at, rc, stage, round, pc, frc, held,
           pending, failed, before, lost, faults, runs >>

token   == << objects, active >>
control == << stage, round, pc, frc >>
locals  == << held, pending >>
history == << before, runs >>

-----------------------------------------------------------------------------
Script == Demos[stage]
Round  == Script[round]
Current == Round[pc]

(* Inside a function, at a call of the given kind. *)
At(kind) == /\ at = "demos"
            /\ stage \in DOMAIN Demos
            /\ round \in DOMAIN Script
            /\ pc \in DOMAIN Round
            /\ Current.kind = kind

Calm  == UNCHANGED faults
Fault == faults < MaxFaults /\ faults' = faults + 1

Proceed == pc' = pc + 1 /\ UNCHANGED << stage, round, frc >>

(* The first of the DESTROYs that close the round, or the end of it.       *)
RoundEnd ==
    CHOOSE k \in 1 .. Len(Round) + 1 :
        /\ \A j \in k .. Len(Round) : Round[j].kind = "destroy"
        /\ k > 1 => Round[k - 1].kind # "destroy"

(* The call has failed: the code goes where onfail says. *)
Refused ==
    LET f == Current.onfail
    IN  /\ frc' = IF f.rc = 1 THEN 1 ELSE frc
        /\ \/ f.to = "on" /\ pc' = pc + 1 /\ round' = round
           \/ f.to = "end" /\ pc' = RoundEnd /\ round' = round
           \/ f.to = "cleanup" /\ pc' = 1 /\ round' = Len(Script)
        /\ UNCHANGED stage

(* The rest of main's and the functions' state while a call is made. *)
Quiet == UNCHANGED << opened, slot, at, rc, failed, history >>

-----------------------------------------------------------------------------
(* Calls of the functions.                                                 *)

Info ==
    /\ At("query")
    /\ \/ Proceed /\ Calm
       \/ Refused /\ Fault
    /\ UNCHANGED << token, locals, lost >> /\ Quiet

Ids(handles) == { h.id : h \in handles }

(* C_GenerateKey, C_GenerateKeyPair, C_CreateObject, C_DeriveKey.  An      *)
(* occupied identifier may be overwritten or refused: external.            *)
Make ==
    /\ At("create")
    /\ LET ids == Ids(Current.makes)
       IN  \/ /\ objects' = objects \cup ids
              /\ held' = held \cup Current.makes
              /\ Proceed /\ Calm /\ UNCHANGED lost
           \/ /\ ids \cap objects # {}
              /\ Refused /\ Calm /\ UNCHANGED << objects, held, lost >>
           \/ /\ Refused /\ Fault /\ UNCHANGED held
              /\ \/ UNCHANGED << objects, lost >>
                 \/ objects' = objects \cup ids /\ lost' = lost \cup ids
    /\ UNCHANGED << active, pending >> /\ Quiet

(* C_...Init.  External: one that finds its operation active may restart   *)
(* or refuse.                                                              *)
BeginOperation ==
    /\ At("begin")
    /\ \/ /\ Ids(Current.uses) \subseteq objects
          /\ active' = active \cup {Current.op}
          /\ Proceed /\ Calm
       \/ /\ Current.op \in active \/ ~(Ids(Current.uses) \subseteq objects)
          /\ Refused /\ Calm /\ UNCHANGED active
       \/ Refused /\ Fault /\ UNCHANGED active
    /\ UNCHANGED << objects, locals, lost >> /\ Quiet

(* What an operation leaves to be confirmed, and what it confirms. *)
Confirmed(op) == IF op = "verify" THEN {"sig"} ELSE {}
Produced(op)  == CASE op = "sign" -> {"sig"} [] op = "encrypt" -> {"ct"}
                   [] OTHER -> {}

(* C_Sign, C_Verify, C_Encrypt and so on.  External: one that fails may    *)
(* leave the operation active.                                             *)
FinishOperation ==
    /\ At("finish")
    /\ \/ /\ active' = active \ {Current.op}
          /\ pending' = (pending \ Confirmed(Current.op)) \cup Produced(Current.op)
          /\ Proceed /\ Calm
       \/ /\ active' \in {active, active \ {Current.op}}
          /\ Refused /\ Fault /\ UNCHANGED pending
    /\ UNCHANGED << objects, held, lost >> /\ Quiet

(* C_GetAttributeValue on a derived secret. *)
ExportSecret ==
    /\ At("export")
    /\ \/ pending' = pending \cup {Current.op} /\ Proceed /\ Calm
       \/ pending' = pending /\ Refused /\ Fault
    /\ UNCHANGED << token, held, lost >> /\ Quiet

(* memcmp: of a decrypted text with the plain text, of the two secrets.    *)
Compared(what) == IF what = "secret" THEN {"alice", "bob"} ELSE {what}

CompareOutputs ==
    /\ At("compare")
    /\ LET what == Compared(Current.op)
       IN  \/ what \subseteq pending /\ pending' = pending \ what /\ Proceed /\ Calm
           \/ ~(what \subseteq pending) /\ pending' = pending /\ Refused /\ Calm
           \/ pending' = pending /\ Refused /\ Fault
    /\ UNCHANGED << token, held, lost >> /\ Quiet

(* DESTROY.  External: two handles may name one object of the secure       *)
(* element, which then goes with the first or with the second.             *)
DestroyObject ==
    /\ At("destroy")
    /\ \E h \in Current.uses :
          IF h \notin held
          THEN Calm /\ UNCHANGED << objects, held, lost >>
          ELSE /\ held' = held \ {h}
               /\ \/ /\ \/ objects' = objects \ {h.id}
                        \/ h.id \in Ids(held') /\ objects' = objects
                     /\ Calm /\ UNCHANGED lost
                  \/ /\ h.id \in objects /\ objects' = objects
                     /\ lost' = lost \cup {h.id} /\ Fault
    /\ Proceed
    /\ UNCHANGED << active, pending >> /\ Quiet

-----------------------------------------------------------------------------
(* The loops of the functions, and RUN.                                    *)

(* Plausible bug: continue without the increment of the loop. *)
NextRound_Repeats ==
    /\ at = "demos"
    /\ stage \in DOMAIN Demos /\ round \in DOMAIN Script /\ pc = Len(Round) + 1
    /\ round' = round /\ pc' = 1
    /\ pending' = {}
    /\ UNCHANGED << stage, frc, held, token, lost, faults >> /\ Quiet

(* The next pass of a loop, the next block, or the return. *)
NextRound ==
    /\ at = "demos"
    /\ stage \in DOMAIN Demos /\ round \in DOMAIN Script /\ pc = Len(Round) + 1
    /\ round' = round + 1 /\ pc' = 1
    /\ pending' = {}
    /\ UNCHANGED << stage, frc, held, token, lost, faults >> /\ Quiet

(* Plausible bug: the result of the last function decides. *)
Return_LastWins ==
    /\ at = "demos"
    /\ stage \in DOMAIN Demos /\ round = Len(Script) + 1
    /\ rc' = frc
    /\ failed' = failed \cup (IF frc = 1 THEN {stage} ELSE {})
    /\ stage' = stage + 1 /\ round' = 1 /\ pc' = 1 /\ frc' = 0
    /\ held' = {} /\ pending' = {}
    /\ at' = IF stage = Len(Demos) THEN "close" ELSE at
    /\ UNCHANGED << token, opened, slot, history, lost, faults >>

(* Plausible bug: one function too many is called. *)
Return_OffByOne ==
    /\ at = "demos"
    /\ stage \in DOMAIN Demos /\ round = Len(Script) + 1
    /\ rc' = IF frc = 1 THEN 1 ELSE rc
    /\ failed' = failed \cup (IF frc = 1 THEN {stage} ELSE {})
    /\ stage' = stage + 1 /\ round' = 1 /\ pc' = 1 /\ frc' = 0
    /\ held' = {} /\ pending' = {}
    /\ at' = IF stage > Len(Demos) THEN "close" ELSE at
    /\ UNCHANGED << token, opened, slot, history, lost, faults >>

(* A function returns; its locals are gone. *)
Return ==
    /\ at = "demos"
    /\ stage \in DOMAIN Demos /\ round = Len(Script) + 1
    /\ rc' = IF frc = 1 THEN 1 ELSE rc
    /\ failed' = failed \cup (IF frc = 1 THEN {stage} ELSE {})
    /\ stage' = stage + 1 /\ round' = 1 /\ pc' = 1 /\ frc' = 0
    /\ held' = {} /\ pending' = {}
    /\ at' = IF stage = Len(Demos) THEN "close" ELSE at
    /\ UNCHANGED << token, opened, slot, history, lost, faults >>

-----------------------------------------------------------------------------
(* main before and after the functions.                                    *)

(* External: the objects and operations of the session end with it. *)
EndOfSession == objects' = objects \ SessionIds /\ active' = {}

Launch ==
    /\ at \in {"idle", "exited", "killed"} /\ runs < MaxRuns
    /\ runs' = runs + 1
    /\ opened' = {} /\ EndOfSession /\ before' = objects'
    /\ at' = "load" /\ rc' = 0 /\ slot' = "unset" /\ faults' = 0
    /\ stage' = 1 /\ round' = 1 /\ pc' = 1 /\ frc' = 0
    /\ held' = {} /\ pending' = {} /\ failed' = {} /\ lost' = {}

(* A step of main on the way to the session: it goes on, or it goes to the *)
(* label that releases what has been opened.                               *)
Opening(here, next, gains, label) ==
    /\ at = here
    /\ \/ at' = next /\ opened' = opened \cup gains /\ rc' = rc /\ Calm
       \/ at' = label /\ opened' = opened /\ rc' = 1 /\ Fault
    /\ UNCHANGED << token, slot, control, locals, failed, history, lost >>

Load       == Opening("load", "resolve", {"library"}, "exited")
Resolve    == Opening("resolve", "initialize", {}, "unload")
Initialize == Opening("initialize", "count", {"module"}, "unload")
CountSlots == Opening("count", "slots", {}, "finalize")

(* The second C_GetSlotList is not checked: if it fails, or if the token   *)
(* has gone, slots[0] is read uninitialised.                               *)
ReadSlot ==
    /\ at = "slots"
    /\ at' = "open"
    /\ \/ slot' = "listed" /\ Calm
       \/ slot' = "garbage" /\ Fault
    /\ UNCHANGED << token, opened, rc, control, locals, failed, history, lost >>

(* An arbitrary slot number may or may not be one of the library's.        *)
OpenSession ==
    \/ Opening("open", "demos", {"session"}, "finalize")
    \/ /\ at = "open" /\ slot = "garbage"
       /\ at' = "finalize" /\ rc' = 1 /\ Calm
       /\ UNCHANGED << token, opened, slot, control, locals, failed, history, lost >>

(* C_CloseSession, whose result is ignored. *)
CloseSession ==
    /\ at = "close" /\ at' = "finalize"
    /\ \/ opened' = opened \ {"session"} /\ EndOfSession /\ Calm
       \/ UNCHANGED << opened, token >> /\ Fault
    /\ UNCHANGED << slot, rc, control, locals, failed, history, lost >>

(* C_Finalize closes what is open, too; its result is ignored. *)
Finalize ==
    /\ at = "finalize" /\ at' = "unload"
    /\ \/ /\ opened' = opened \ {"module", "session"} /\ EndOfSession
          /\ Calm /\ UNCHANGED lost
       \/ /\ UNCHANGED << opened, token >> /\ Fault
          /\ lost' = lost \cup (opened \ {"library"}) \cup (objects \cap SessionIds)
    /\ UNCHANGED << slot, rc, control, locals, failed, history >>

(* dlclose, and the end of the process. *)
Unload ==
    /\ at = "unload" /\ at' = "exited"
    /\ opened' = opened \ {"library"}
    /\ UNCHANGED << token, slot, rc, control, locals, failed, history, lost, faults >>

(* External: the process dies.  A call under way may have had its effect.  *)
Kill ==
    /\ at \notin {"idle", "exited", "killed"}
    /\ at' = "killed" /\ opened' = {} /\ active' = {}
    /\ \E effect \in {objects} \cup
              (IF At("create") THEN {objects \cup Ids(Current.makes)} ELSE {}) \cup
              (IF At("destroy") THEN {objects \ Ids(Current.uses \cap held)} ELSE {}) :
          objects' = effect \ SessionIds
    /\ Fault
    /\ UNCHANGED << slot, rc, control, locals, failed, history, lost >>

-----------------------------------------------------------------------------
Init ==
    /\ objects \in Leftovers
    /\ active = {} /\ opened = {} /\ slot = "unset" /\ at = "idle" /\ rc = 0
    /\ stage = 1 /\ round = 1 /\ pc = 1 /\ frc = 0
    /\ held = {} /\ pending = {} /\ failed = {} /\ before = objects /\ lost = {} /\ faults = 0 /\ runs = 0

DemoStep == \/ Info \/ Make \/ BeginOperation \/ FinishOperation \/ ExportSecret
            \/ CompareOutputs \/ DestroyObject \/ NextRound \/ Return

MainStep == \/ Load \/ Resolve \/ Initialize \/ CountSlots \/ ReadSlot
            \/ OpenSession \/ CloseSession \/ Finalize \/ Unload

Next == DemoStep \/ MainStep \/ Launch \/ Kill

Spec == Init /\ [][Next]_vars

(* The program has no step that waits: it goes on while it lives.          *)
FairSpec == Spec /\ WF_vars(DemoStep \/ MainStep)

-----------------------------------------------------------------------------
Exited == at = "exited"

(* Every variable stays in its range: a function never runs past its end,  *)
(* whatever fails in it.                                                   *)
TypeOK ==
    /\ objects \subseteq TokenIds \cup SessionIds
    /\ active \subseteq {"find", "digest", "sign", "verify", "encrypt", "decrypt"}
    /\ opened \subseteq {"library", "module", "session"}
    /\ slot \in {"unset", "listed", "garbage"}
    /\ at \in {"idle", "load", "resolve", "initialize", "count", "slots", "open",
               "demos", "close", "finalize", "unload", "exited", "killed"}
    /\ rc \in 0 .. 1 /\ frc \in 0 .. 1
    /\ stage \in 1 .. Len(Demos) + 1
    /\ at = "demos" => /\ stage \in DOMAIN Demos
                       /\ round \in 1 .. Len(Script) + 1
                       /\ round \in DOMAIN Script => pc \in 1 .. Len(Round) + 1
    /\ \A h \in held : h.id \in TokenIds \cup SessionIds
    /\ pending \subseteq {"sig", "ct", "alice", "bob"}
    /\ failed \subseteq DOMAIN Demos
    /\ before \subseteq TokenIds
    /\ faults \in 0 .. MaxFaults /\ runs \in 0 .. MaxRuns

(* A run that returns has destroyed every object it has made and released  *)
(* session and library, on its error paths too; what remains was there     *)
(* before or comes from a call that failed.                                *)
LeavesNothing == Exited => objects \cup opened \subseteq before \cup lost

(* No function uses a handle that is invalid, or whose object it has       *)
(* destroyed.                                                              *)
UsesLiveObjects ==
    At("begin") \/ At("query") \/ At("export") \/ At("create") =>
        Current.uses \subseteq held /\ Ids(Current.uses) \subseteq objects

(* An object that a function leaves behind is not in the way of a later    *)
(* function of the run: an identifier is occupied when it is to be made    *)
(* only if an earlier run has left it.                                     *)
IdsAreFresh == At("create") => Ids(Current.makes) \cap objects \subseteq before

(* An operation left active, which may keep a later function from          *)
(* beginning its own and make it skip a test, is never without a failure   *)
(* that the exit code reports.                                             *)
ActiveMeansFailed ==
    at \in {"demos", "close"} /\ round = 1 /\ pc = 1 /\ active \ {"find"} # {}
        => rc = 1

(* When a round ends well, every signature made in it was verified and     *)
(* every encrypted text decrypted and compared.                            *)
OutputsAreConfirmed ==
    at = "demos" /\ stage \in DOMAIN Demos /\ round \in DOMAIN Script
        /\ pc = Len(Round) + 1 /\ frc = 0
        => pending \cap {"sig", "ct"} = {}

(* With nothing in its way and no external failure the suite passes and    *)
(* leaves the token empty.                                                 *)
CleanRunPasses ==
    Exited /\ faults = 0 /\ before = {} => rc = 0 /\ objects = {}

(* A key that an aborted run has left and that keeps a function from       *)
(* making its own is reported by the exit code, unless the code skips the  *)
(* test instead: the pairs of run_ecc, and the RSA pair for OAEP.          *)
LeftoversShow ==
    Exited /\ faults = 0 /\ rc = 0 =>
        objects \subseteq before \cap {"30", "31", "32", "51"}

(* demo_ecdh_derive.c: the function derives a secret from each side and    *)
(* verifies that they match; a suite that passes has seen them match.      *)
SecretsCompared ==
    at = "demos" /\ stage \in DOMAIN Demos /\ round \in DOMAIN Script
        /\ pc = Len(Round) + 1 /\ frc = 0
        => "bob" \notin pending

-----------------------------------------------------------------------------
(* The suite implements DemoSuite. *)
Outcome == IF at = "exited" THEN (IF rc = 0 THEN "0" ELSE "1")
           ELSE IF at \in {"idle", "killed"} THEN "killed" ELSE "running"

Suite == INSTANCE DemoSuite WITH
            N <- Len(Demos), ran <- stage - 1, failed <- failed, outcome <- Outcome

(* All demos run in order whichever of them fails, and the exit code is 0  *)
(* exactly when none has.                                                  *)
ImplementsSuite == Suite!Spec

(* Every run comes to an end. *)
EveryRunEnds == (at = "load") ~> (at \in {"exited", "killed"})

=============================================================================

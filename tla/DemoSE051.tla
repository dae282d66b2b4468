------------------------------- MODULE DemoSE051 -------------------------------
(***************************************************************************)
(* The program demo_se051 of app/: ex_sss_entry runs nine demo functions   *)
(* in a fixed order and stops at the first that fails.  Every function is  *)
(* a script of calls to the secure element, to mbedTLS and to the file     *)
(* system (module DemoScripts); any call may fail, and power may be cut    *)
(* between any two of them.  The key slots of the secure element and the   *)
(* CSR files outlive a run, so the next one starts on what is left.        *)
(*                                                                         *)
(* Key material is abstracted to the number of the run that created it.    *)
(***************************************************************************)
EXTENDS DemoScripts, CsrEncoding

CONSTANTS MaxRuns,        \* bound on the number of times the program is run
          NoKey,          \* the material of an empty key slot
          EcSpkiLens, EcSigLens,     \* lengths the secure element may return
          RsaSpkiLens, RsaSigLens    \* for a public key and a signature

ASSUME MaxRunsAssumption == MaxRuns \in Nat
ASSUME NoKeyAssumption == NoKey \notin Nat
(* The SSS API never returns more than the buffer it is given can hold. *)
ASSUME LensAssumption ==
    /\ EcSpkiLens  \subseteq 0 .. EcCsr.pubBuf
    /\ EcSigLens   \subseteq 0 .. EcCsr.sigBuf
    /\ RsaSpkiLens \subseteq 0 .. RsaCsr.pubBuf
    /\ RsaSigLens  \subseteq 0 .. RsaCsr.sigBuf

VARIABLES
    se,        \* key slots of the secure element: material by identifier
    files,     \* CSR files: key they certify and key that signed them
    run,       \* number of the current run
    before,    \* se at the start of the run
    phase,     \* "idle", "running", "exited" or "killed"
    stage,     \* the demo function running
    pc,        \* its next call
    status,    \* the local status, kept as "ok" or "fail"
    faulty,    \* an external call has failed in this run
    held,      \* locals that are initialised and not freed
    spki,      \* the exported public key: key and length
    sig        \* the signature or ciphertext: key and length

ghosts  == << run, before >>
control == << phase, stage, pc, status, faulty >>
buffers == << spki, sig >>
vars    == << se, files, run, before, phase, stage, pc, status, faulty, held,
              spki, sig >>

Material == 0 .. MaxRuns \cup {NoKey}
Unusable == [pub |-> NoKey, sig |-> NoKey]     \* missing or truncated file
Blank    == [key |-> NoKey, len |-> 0]

CsrOf(id)    == IF id = "RSA" THEN RsaCsr ELSE EcCsr
SpkiLens(id) == IF id = "RSA" THEN RsaSpkiLens ELSE EcSpkiLens
SigLens(id)  == IF id = "RSA" THEN RsaSigLens ELSE EcSigLens

-----------------------------------------------------------------------------
(* The next call, and how a call ends. *)

Current == Script[stage][pc]

At(op) == /\ phase = "running" /\ status = "ok"
          /\ pc \in DOMAIN Script[stage]
          /\ Current.op = op

Proceed == pc' = pc + 1 /\ UNCHANGED << phase, stage, status, faulty >>

(* The call fails for a reason outside of the program. *)
Fault == status' = "fail" /\ faulty' = TRUE /\ UNCHANGED << phase, stage, pc >>

(* The call is refused because of the state of the secure element. *)
Refused == status' = "fail" /\ UNCHANGED << phase, stage, pc, faulty >>

(* A failure that the program does not notice. *)
Unnoticed == pc' = pc + 1 /\ faulty' = TRUE /\ UNCHANGED << phase, stage, status >>

(* MBEDTLS_ASN1_CHK_ADD returns from the demo function without cleanup. *)
ReturnAtOnce == /\ phase' = "exited" /\ status' = "fail"
                /\ UNCHANGED << stage, pc, faulty >>

(* The transient key is lost when the session that made it ends. *)
SessionEnds == se' \in { se, [se EXCEPT !["SHARED"] = NoKey] }

-----------------------------------------------------------------------------
(* Calls to the secure element. *)

(* erase_key_if_exists: whatever fails in it, the caller goes on. *)
EraseIfExists ==
    /\ At("erase")
    /\ \/ se' = [se EXCEPT ![Current.id] = NoKey] /\ Proceed
       \/ se' = se /\ Unnoticed
    /\ UNCHANGED << files, ghosts, held, buffers >>

(* sss_key_object_init and the sss_*_context_init calls. *)
OpenObject ==
    /\ At("init")
    /\ \/ held' = held \cup {Current.obj} /\ Proceed
       \/ held' = held /\ Fault
    /\ UNCHANGED << se, files, ghosts, buffers >>

(* sss_key_object_get_handle. *)
GetHandleOf ==
    /\ At("get_handle")
    /\ \/ IF se[Current.id] # NoKey THEN Proceed ELSE Refused
       \/ Fault
    /\ UNCHANGED << se, files, ghosts, held, buffers >>

(* sss_key_object_allocate_handle: what it does with an occupied           *)
(* identifier depends on the object found there.                           *)
AllocateHandle ==
    /\ At("allocate")
    /\ \/ Proceed
       \/ se[Current.id] # NoKey /\ Refused
       \/ Fault
    /\ UNCHANGED << se, files, ghosts, held, buffers >>

(* Plausible bug: the result of the generation is not looked at. *)
CreateKey_Unchecked ==
    /\ At("create")
    /\ LET created == [se EXCEPT ![Current.id] = run]
       IN  \/ se' = created /\ Proceed
           \/ se' \in {se, created} /\ Unnoticed
    /\ UNCHANGED << files, ghosts, held, buffers >>

(* sss_key_store_generate_key and sss_derive_key_dh.  A failed call may    *)
(* have taken effect on the secure element, its answer being lost.         *)
CreateKey ==
    /\ At("create")
    /\ LET created == [se EXCEPT ![Current.id] = run]
       IN  \/ se' = created /\ Proceed
           \/ se' \in {se, created} /\ Fault
    /\ UNCHANGED << files, ghosts, held, buffers >>

(* Plausible bug: the result of the export is not looked at. *)
ExportPublicKey_Unchecked ==
    /\ At("get_key")
    /\ \/ /\ \E n \in SpkiLens(Current.id) :
                spki' = [key |-> se[Current.id], len |-> n]
          /\ Proceed
       \/ spki' = spki /\ Unnoticed
    /\ UNCHANGED << se, files, ghosts, held, sig >>

(* sss_key_store_get_key. *)
ExportPublicKey ==
    /\ At("get_key")
    /\ \/ /\ \E n \in SpkiLens(Current.id) :
                spki' = [key |-> se[Current.id], len |-> n]
          /\ Proceed
       \/ spki' = spki /\ Fault
    /\ UNCHANGED << se, files, ghosts, held, sig >>

(* The export of the shared secret, which may fail or be forbidden. *)
TryExportSecret ==
    /\ At("try_get_key")
    /\ Proceed
    /\ UNCHANGED << se, files, ghosts, held, buffers >>

(* Random numbers and digests. *)
ComputeBytes ==
    /\ At("compute")
    /\ Proceed \/ Fault
    /\ UNCHANGED << se, files, ghosts, held, buffers >>

(* sss_asymmetric_sign_digest and sss_asymmetric_encrypt. *)
SignOrEncrypt ==
    /\ At("sign")
    /\ \/ /\ \E n \in SigLens(Current.id) :
                sig' = [key |-> se[Current.id], len |-> n]
          /\ Proceed
       \/ sig' = sig /\ Fault
    /\ UNCHANGED << se, files, ghosts, held, spki >>

(* sss_asymmetric_verify_digest, and sss_asymmetric_decrypt followed by    *)
(* the comparison with the plaintext.                                      *)
VerifyOrDecrypt ==
    /\ At("verify")
    /\ \/ IF se[Current.id] = sig.key THEN Proceed ELSE Refused
       \/ Fault
    /\ UNCHANGED << se, files, ghosts, held, buffers >>

FreeContext ==
    /\ At("free")
    /\ held' = held \ {Current.obj}
    /\ Proceed
    /\ UNCHANGED << se, files, ghosts, buffers >>

-----------------------------------------------------------------------------
(* The CSR functions: mbedTLS writes into stack buffers, stdio into /tmp.  *)

WriteCri ==
    /\ At("build_cri")
    /\ IF CriFits(CsrOf(Current.id), spki.len)
       THEN Proceed \/ Fault
       ELSE ReturnAtOnce
    /\ UNCHANGED << se, files, ghosts, held, buffers >>

WriteCsr ==
    /\ At("assemble")
    /\ IF CsrFits(CsrOf(Current.id), spki.len, sig.len)
       THEN Proceed
       ELSE ReturnAtOnce
    /\ UNCHANGED << se, files, ghosts, held, buffers >>

TheCsr == [pub |-> spki.key, sig |-> sig.key]

(* fopen, fwrite and fclose, none of whose results is looked at: the file  *)
(* is written, cannot be opened, or is left truncated.                     *)
Store(f) == \/ files' = [files EXCEPT ![f] = TheCsr] /\ Proceed
            \/ files' \in {files, [files EXCEPT ![f] = Unusable]} /\ Unnoticed

WriteDerFile ==
    /\ At("write_der")
    /\ Store(Current.obj)
    /\ UNCHANGED << se, ghosts, held, buffers >>

WritePemFile ==
    /\ At("write_pem")
    /\ IF PemFits(CsrOf(Current.id), spki.len, sig.len)
       THEN Store(Current.obj)
       ELSE files' = files /\ Proceed
    /\ UNCHANGED << se, ghosts, held, buffers >>

-----------------------------------------------------------------------------
(* Ends of demo functions and of runs. *)

Returned == phase = "running" /\ status = "ok" /\ pc = Len(Script[stage]) + 1

NextDemo ==
    /\ Returned /\ stage < Len(Script)
    /\ stage' = stage + 1 /\ pc' = 1
    /\ held' = held \ Cleanup[stage]
    /\ spki' = Blank /\ sig' = Blank
    /\ UNCHANGED << se, files, ghosts, phase, status, faulty >>

AllPassed ==
    /\ Returned /\ stage = Len(Script)
    /\ phase' = "exited"
    /\ held' = held \ Cleanup[stage]
    /\ SessionEnds
    /\ UNCHANGED << files, ghosts, stage, pc, status, faulty, buffers >>

(* Plausible bug: RUN reports the failure and goes on. *)
Abort_GoesOn ==
    /\ phase = "running" /\ status = "fail"
    /\ stage' = stage + 1 /\ pc' = 1 /\ status' = "ok"
    /\ held' = held \ Cleanup[stage]
    /\ UNCHANGED << se, files, ghosts, phase, faulty, buffers >>

(* Plausible bug: RUN calls a demo function again until it succeeds. *)
Abort_Retries ==
    /\ phase = "running" /\ status = "fail"
    /\ pc' = 1 /\ status' = "ok"
    /\ held' = held \ Cleanup[stage]
    /\ UNCHANGED << se, files, ghosts, phase, stage, faulty, buffers >>

Abort ==
    /\ phase = "running" /\ status = "fail"
    /\ phase' = "exited"
    /\ held' = held \ Cleanup[stage]
    /\ SessionEnds
    /\ UNCHANGED << files, ghosts, stage, pc, status, faulty, buffers >>

(* External: the process dies or the board loses power. *)
Kill ==
    /\ phase = "running"
    /\ phase' = "killed"
    /\ held' = {}
    /\ SessionEnds
    /\ UNCHANGED << files, ghosts, stage, pc, status, faulty, buffers >>

StartRun ==
    /\ phase # "running" /\ run < MaxRuns
    /\ run' = run + 1
    /\ before' = se
    /\ phase' = "running" /\ stage' = 1 /\ pc' = 1
    /\ status' = "ok" /\ faulty' = FALSE
    /\ held' = {}
    /\ spki' = Blank /\ sig' = Blank
    /\ UNCHANGED << se, files >>

Init ==
    /\ se \in [KeyIds -> {NoKey, 0}]
    /\ \E left \in { Unusable, [pub |-> 0, sig |-> 0] } :
          files = [f \in Files |-> left]
    /\ run = 0 /\ before = se
    /\ phase = "idle" /\ stage = 1 /\ pc = 1
    /\ status = "ok" /\ faulty = FALSE
    /\ held = {}
    /\ spki = Blank /\ sig = Blank

(* What the program itself does. *)
Program ==
    \/ EraseIfExists \/ OpenObject \/ GetHandleOf \/ AllocateHandle
    \/ CreateKey \/ ExportPublicKey \/ TryExportSecret \/ ComputeBytes
    \/ SignOrEncrypt \/ VerifyOrDecrypt \/ FreeContext
    \/ WriteCri \/ WriteCsr \/ WriteDerFile \/ WritePemFile
    \/ NextDemo \/ AllPassed \/ Abort

Next == Program \/ Kill \/ StartRun

Spec == Init /\ [][Next]_vars

(* Every call returns: the program has no loop and waits for nobody. *)
FairSpec == Spec /\ WF_vars(Program)

-----------------------------------------------------------------------------
Passed == phase = "exited" /\ status = "ok"

(* Every variable stays in its range. *)
TypeOK ==
    /\ se \in [KeyIds -> Material]
    /\ files \in [Files -> [pub : Material, sig : Material]]
    /\ run \in 0 .. MaxRuns
    /\ before \in [KeyIds -> Material]
    /\ phase \in {"idle", "running", "exited", "killed"}
    /\ stage \in Stages
    /\ pc \in 1 .. Len(Script[stage]) + 1
    /\ status \in {"ok", "fail"}
    /\ faulty \in BOOLEAN
    /\ held \subseteq Handles
    /\ spki \in [key : Material, len : Nat]
    /\ sig \in [key : Material, len : Nat]

(* Wherever a run stands or has stopped, the keys it has created so far    *)
(* are those of this run and the keys whose erase_key_if_exists it has not *)
(* reached are those it found: a failure never costs a later key.          *)
Persistent == KeyIds \ {"SHARED"}

KeysReplacedInOrder ==
    phase # "idle" =>
        \A id \in Persistent :
            /\ Created(id, stage, pc) => se[id] = run
            /\ ~Created(id, stage, pc) /\ se[id] # before[id] =>
                   /\ se[id] \in {NoKey, run}
                   /\ Done("erase", id, stage, pc)

(* A run that passes leaves every persistent key created in this run, and, *)
(* unless an external failure went unnoticed, four files each certifying   *)
(* the key now on the secure element with that key's own signature.        *)
FileKey(f) == IF f \in {"ec_csr.der", "ec_csr.pem"} THEN "ALICE" ELSE "RSA"

PassedRunDelivers ==
    Passed =>
        /\ \A id \in Persistent : se[id] = run
        /\ ~faulty =>
               \A f \in Files :
                   files[f] = [pub |-> se[FileKey(f)], sig |-> se[FileKey(f)]]

(* Whatever runs were aborted or killed, a CSR file that can be read is    *)
(* signed by the key it certifies.                                         *)
CsrIsSelfSigned == \A f \in Files : files[f].pub = files[f].sig

(* Every demo function starts, and ex_sss_entry returns, with no object    *)
(* and no context left open, on the error paths too.                       *)
NothingLeaks ==
    (phase = "running" /\ status = "ok" /\ pc = 1) \/ phase = "exited"
        => held = {}

(* A call only works on locals that are open, and never initialises one    *)
(* that still is (its first resources would be lost).                      *)
UsesOpenObjects ==
    phase = "running" /\ status = "ok" /\ pc \in DOMAIN Script[stage] =>
        /\ Current.uses \subseteq held
        /\ Current.op = "init" => Current.obj \notin held

(* Recovery: whatever an earlier run left on the secure element, a run in  *)
(* which no external call fails passes.                                    *)
FaultlessRunPasses == phase = "exited" /\ ~faulty => status = "ok"

(* A run that is not killed returns an exit status, after any failure.     *)
EveryRunEnds == phase = "running" ~> phase # "running"

(* What the last log lines of the CSR functions say: "CSR written to" both *)
(* files.                                                                  *)
CsrWrittenWhenPassed ==
    Passed => \A f \in Files : files[f] = [pub |-> run, sig |-> run]

-----------------------------------------------------------------------------
(* The run as KeyProvisioning sees it. *)

Outcome == CASE phase = "exited" /\ status = "ok" -> "passed"
             [] phase = "exited" /\ status # "ok" -> "failed"
             [] phase = "killed" -> "failed"
             [] OTHER -> phase

Provisioning ==
    INSTANCE KeyProvisioning
        WITH KeyOrder  <- << "ALICE", "BOB", "SHARED", "RSA" >>,
             Transient <- {"SHARED"},
             store     <- se,
             run       <- run,
             made      <- { id \in KeyIds : Created(id, stage, pc) },
             outcome   <- Outcome

(* Seen from the key slots, every run is a run of KeyProvisioning. *)
ImplementsProvisioning == Provisioning!Spec

=============================================================================

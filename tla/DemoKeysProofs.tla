----------------------------- MODULE DemoKeysProofs -----------------------------
(***************************************************************************)
(* Theorems about the keys and the files of the demo, for any number of    *)
(* runs: wherever a run stands or has stopped, it has replaced the keys it *)
(* created, has at most erased or replaced the one it was working on, and  *)
(* has not touched the others, as KeyProvisioning says; a run that no call *)
(* fails passes, and one that passes has delivered its keys and its files. *)
(***************************************************************************)
EXTENDS DemoSE051Proofs

(* Where the scripts erase and create each key. *)
KeyStage(id)   == CASE id = "ALICE" -> 2 [] id = "RSA" -> 6 [] OTHER -> 4
EraseCall(id)  == CASE id = "BOB" -> 3 [] id = "SHARED" -> 7 [] OTHER -> 1
CreateCall(id) == CASE id = "BOB" -> 6 [] id = "SHARED" -> 11 [] OTHER -> 4

LEMMA KeyCalls ==
    \A s \in Stages : \A k \in DOMAIN Script[s] : \A id \in KeyIds :
        /\ (Script[s][k].op = "create" /\ Script[s][k].id = id)
               <=> (s = KeyStage(id) /\ k = CreateCall(id))
        /\ (Script[s][k].op = "erase" /\ Script[s][k].id = id)
               <=> (s = KeyStage(id) /\ k = EraseCall(id))
<1> USE DEF KeyStage, EraseCall, CreateCall, KeyIds, None,
            Call, Erase, Open, GetHandle, Allocate, Create, GetKey, TryGetKey,
            Compute, Sign, Verify, Free, BuildCri, AssembleCsr, WriteDer, WritePem
<1> DEFINE Good(demo, s) ==
      \A k \in DOMAIN demo : \A id \in KeyIds :
          /\ (demo[k].op = "create" /\ demo[k].id = id)
                 <=> (s = KeyStage(id) /\ k = CreateCall(id))
          /\ (demo[k].op = "erase" /\ demo[k].id = id)
                 <=> (s = KeyStage(id) /\ k = EraseCall(id))
<1>1. Good(demo_rng, 1)
  BY DEF demo_rng
<1>2. Good(demo_ec_keygen, 2)
  BY DEF demo_ec_keygen
<1>3. Good(demo_ec_sign_verify, 3)
  BY DEF demo_ec_sign_verify, SignVerify
<1>4. Good(demo_ec_ecdh, 4)
  BY DEF demo_ec_ecdh
<1>5. Good(demo_ec_csr, 5)
  BY DEF demo_ec_csr, Csr
<1>6. Good(demo_rsa_keygen, 6)
  BY DEF demo_rsa_keygen
<1>7. Good(demo_rsa_sign_verify, 7)
  BY DEF demo_rsa_sign_verify, SignVerify
<1>8. Good(demo_rsa_enc_dec, 8)
  BY DEF demo_rsa_enc_dec
<1>9. Good(demo_rsa_csr, 9)
  BY DEF demo_rsa_csr, Csr
<1> HIDE DEF Good
<1>10. \A s \in 1 .. 9 : Good(Script[s], s)
  BY <1>1, <1>2, <1>3, <1>4, <1>5, <1>6, <1>7, <1>8, <1>9, ScriptIs
<1> QED
  BY <1>10, StagesAre DEF Good

LEMMA KeyCallsInScript ==
    \A id \in KeyIds :
        /\ KeyStage(id) \in Stages
        /\ EraseCall(id) \in DOMAIN Script[KeyStage(id)]
        /\ CreateCall(id) \in DOMAIN Script[KeyStage(id)]
        /\ EraseCall(id) \in Nat /\ EraseCall(id) < CreateCall(id)
        /\ EraseCall(id) >= 1 /\ CreateCall(id) \in Nat
<1>1. DOMAIN Script[2] = 1 .. 5 /\ DOMAIN Script[6] = 1 .. 4
  BY ScriptIs DEF demo_ec_keygen, demo_rsa_keygen
<1>2. DOMAIN Script[4] = 1 .. 12
  BY ScriptIs DEF demo_ec_ecdh
<1> QED
  BY <1>1, <1>2, StagesAre DEF KeyStage, EraseCall, CreateCall, KeyIds

(* Which keys are created and erased is a matter of the position alone. *)
LEMMA DoneIsPosition ==
    \A id \in KeyIds : \A s, k :
        /\ Created(id, s, k) <=> Before(KeyStage(id), CreateCall(id), s, k)
        /\ Done("erase", id, s, k) <=> Before(KeyStage(id), EraseCall(id), s, k)
BY KeyCalls, KeyCallsInScript DEF Created, Done

(* One call further, the created keys are those created before and that of *)
(* the call itself.                                                        *)
LEMMA DoneByCall ==
    ASSUME TypeOK, pc \in DOMAIN Script[stage], NEW id \in KeyIds
    PROVE  /\ Created(id, stage, pc + 1) <=>
                  \/ Created(id, stage, pc)
                  \/ Current.op = "create" /\ Current.id = id
           /\ Done("erase", id, stage, pc + 1) <=>
                  \/ Done("erase", id, stage, pc)
                  \/ Current.op = "erase" /\ Current.id = id
           /\ Created(id, stage, pc) => ~(Current.op \in {"erase", "create"}
                                              /\ Current.id = id)
           /\ Current.op = "create" /\ Current.id = id =>
                  Done("erase", id, stage, pc)
<1>1. stage \in 1 .. 9 /\ pc \in Nat /\ stage \in Stages
  BY ScriptWellFormed, StagesAre DEF TypeOK
<1>2. /\ (Current.op = "create" /\ Current.id = id)
             <=> (stage = KeyStage(id) /\ pc = CreateCall(id))
      /\ (Current.op = "erase" /\ Current.id = id)
             <=> (stage = KeyStage(id) /\ pc = EraseCall(id))
  BY <1>1, KeyCalls DEF Current
<1>3. /\ KeyStage(id) \in 1 .. 9
      /\ CreateCall(id) \in Nat /\ EraseCall(id) \in Nat
      /\ EraseCall(id) < CreateCall(id)
  BY KeyCallsInScript, StagesAre
<1> QED
  BY <1>1, <1>2, <1>3, DoneIsPosition DEF Before

(* The end of a demo function is the start of the next one. *)
LEMMA DoneByDemo ==
    ASSUME TypeOK, stage < Len(Script), pc = Len(Script[stage]) + 1,
           NEW id \in KeyIds
    PROVE  /\ Created(id, stage + 1, 1) <=> Created(id, stage, pc)
           /\ Done("erase", id, stage + 1, 1) <=> Done("erase", id, stage, pc)
<1>1. stage \in 1 .. 9 /\ stage \in Stages /\ Len(Script[stage]) \in Nat
      /\ DOMAIN Script[stage] = 1 .. Len(Script[stage])
  BY ScriptWellFormed, StagesAre DEF TypeOK
<1>2. /\ KeyStage(id) \in 1 .. 9
      /\ CreateCall(id) \in Nat /\ EraseCall(id) \in Nat
      /\ EraseCall(id) < CreateCall(id) /\ EraseCall(id) >= 1
  BY KeyCallsInScript, StagesAre
<1>3. KeyStage(id) = stage => /\ EraseCall(id) <= Len(Script[stage])
                              /\ CreateCall(id) <= Len(Script[stage])
  BY <1>1, KeyCallsInScript
<1> QED
  BY <1>1, <1>2, <1>3, DoneIsPosition DEF Before

-----------------------------------------------------------------------------
(* At the start of a run nothing is created yet. *)
LEMMA NothingDoneAtStart ==
    \A id \in KeyIds : ~Created(id, 1, 1) /\ ~Done("erase", id, 1, 1)
<1> TAKE id \in KeyIds
<1>1. /\ KeyStage(id) \in 1 .. 9
      /\ CreateCall(id) \in Nat /\ EraseCall(id) \in Nat
      /\ EraseCall(id) < CreateCall(id) /\ EraseCall(id) >= 1
  BY KeyCallsInScript, StagesAre
<1>2. /\ ~Before(KeyStage(id), CreateCall(id), 1, 1)
      /\ ~Before(KeyStage(id), EraseCall(id), 1, 1)
  BY <1>1 DEF Before
<1> QED
  BY <1>2, DoneIsPosition

LEMMA EndOfRunKeepsPersistent ==
    ASSUME TypeOK, SessionEnds
    PROVE  \A id \in Persistent : se'[id] = se[id]
BY DEF TypeOK, SessionEnds, Persistent, KeyIds

(* A call that changes no key slot and is not a creation. *)
LEMMA CallKeepsKeys ==
    ASSUME TypeOK, KeysReplacedInOrder, NEW op, At(op), op # "create",
           Proceed \/ Fault \/ Refused \/ Unnoticed \/ ReturnAtOnce,
           se' = se, run' = run, before' = before
    PROVE  KeysReplacedInOrder'
<1>1. Current.op = op /\ pc \in DOMAIN Script[stage] /\ phase = "running"
  BY DEF At
<1>2. stage' = stage /\ pc' \in {pc, pc + 1}
  BY DEF Proceed, Fault, Refused, Unnoticed, ReturnAtOnce
<1>3. Persistent \subseteq KeyIds
  BY DEF Persistent
<1>4. SUFFICES ASSUME NEW id \in Persistent
               PROVE  /\ Created(id, stage', pc') => se'[id] = run'
                      /\ ~Created(id, stage', pc') /\ se'[id] # before'[id] =>
                             /\ se'[id] \in {NoKey, run'}
                             /\ Done("erase", id, stage', pc')
  BY DEF KeysReplacedInOrder
<1>5. /\ Created(id, stage', pc') <=> Created(id, stage, pc)
      /\ Done("erase", id, stage, pc) => Done("erase", id, stage', pc')
  BY <1>1, <1>2, <1>3, DoneByCall
<1> QED
  BY <1>1, <1>5 DEF KeysReplacedInOrder

(* Keys are replaced one after the other, each erased before it is made,   *)
(* and no failure, lost answer or power cut touches a later one.           *)
THEOREM KeysInOrder == Spec => []KeysReplacedInOrder
<1>1. Init => KeysReplacedInOrder
  BY DEF Init, KeysReplacedInOrder
<1>2. ASSUME TypeOK, KeysReplacedInOrder, [Next]_vars
      PROVE  KeysReplacedInOrder'
  <2> USE TypeOK, KeysReplacedInOrder
  <2>0. Persistent \subseteq KeyIds
    BY DEF Persistent
  <2>1. CASE OpenObject \/ GetHandleOf \/ AllocateHandle \/ ExportPublicKey
             \/ TryExportSecret \/ ComputeBytes \/ SignOrEncrypt
             \/ VerifyOrDecrypt \/ FreeContext \/ WriteCri \/ WriteCsr
             \/ WriteDerFile \/ WritePemFile
    <3>1. /\ \E op : op # "create" /\ At(op)
          /\ Proceed \/ Fault \/ Refused \/ Unnoticed \/ ReturnAtOnce
          /\ se' = se /\ run' = run /\ before' = before
      BY <2>1 DEF OpenObject, GetHandleOf, AllocateHandle, ExportPublicKey,
                  TryExportSecret, ComputeBytes, SignOrEncrypt,
                  VerifyOrDecrypt, FreeContext, WriteCri, WriteCsr,
                  WriteDerFile, WritePemFile, Store, ghosts
    <3> QED
      BY <3>1, CallKeepsKeys
  <2>2. CASE EraseIfExists
    <3>1. /\ At("erase") /\ pc' = pc + 1 /\ stage' = stage
          /\ run' = run /\ before' = before
          /\ se' \in {se, [se EXCEPT ![Current.id] = NoKey]}
      BY <2>2 DEF EraseIfExists, Proceed, Unnoticed, ghosts
    <3>2. SUFFICES ASSUME NEW id \in Persistent
                   PROVE  /\ Created(id, stage, pc + 1) => se'[id] = run
                          /\ ~Created(id, stage, pc + 1)
                             /\ se'[id] # before[id] =>
                                    /\ se'[id] \in {NoKey, run}
                                    /\ Done("erase", id, stage, pc + 1)
      BY <3>1 DEF KeysReplacedInOrder
    <3>3. CASE Current.id = id
      BY <2>0, <3>1, <3>3, DoneByCall DEF At, TypeOK, KeysReplacedInOrder
    <3>4. CASE Current.id # id
      BY <2>0, <3>1, <3>4, DoneByCall DEF At, TypeOK, KeysReplacedInOrder
    <3> QED
      BY <3>3, <3>4
  <2>3. CASE CreateKey
    <3>1. /\ At("create") /\ stage' = stage /\ run' = run /\ before' = before
          /\ \/ pc' = pc + 1 /\ se' = [se EXCEPT ![Current.id] = run]
             \/ pc' = pc /\ se' \in {se, [se EXCEPT ![Current.id] = run]}
      BY <2>3 DEF CreateKey, Proceed, Fault, ghosts
    <3>2. SUFFICES ASSUME NEW id \in Persistent
                   PROVE  /\ Created(id, stage, pc') => se'[id] = run
                          /\ ~Created(id, stage, pc')
                             /\ se'[id] # before[id] =>
                                    /\ se'[id] \in {NoKey, run}
                                    /\ Done("erase", id, stage, pc')
      BY <3>1 DEF KeysReplacedInOrder
    <3>3. CASE Current.id = id
      BY <2>0, <3>1, <3>3, DoneByCall DEF At, TypeOK, KeysReplacedInOrder
    <3>4. CASE Current.id # id
      BY <2>0, <3>1, <3>4, DoneByCall DEF At, TypeOK, KeysReplacedInOrder
    <3> QED
      BY <3>3, <3>4
  <2>4. CASE NextDemo
    <3>1. /\ phase = "running" /\ stage < Len(Script)
          /\ pc = Len(Script[stage]) + 1
          /\ stage' = stage + 1 /\ pc' = 1
          /\ se' = se /\ run' = run /\ before' = before
      BY <2>4 DEF NextDemo, Returned, ghosts
    <3> QED
      BY <2>0, <3>1, DoneByDemo DEF KeysReplacedInOrder
  <2>5. CASE AllPassed \/ Abort \/ Kill
    <3>1. /\ phase = "running" /\ stage' = stage /\ pc' = pc
          /\ run' = run /\ before' = before /\ SessionEnds
      BY <2>5 DEF AllPassed, Abort, Kill, Returned, ghosts
    <3> QED
      BY <3>1, EndOfRunKeepsPersistent DEF KeysReplacedInOrder
  <2>6. CASE StartRun
    BY <2>0, <2>6, NothingDoneAtStart DEF StartRun, KeysReplacedInOrder
  <2>7. CASE UNCHANGED vars
    BY <2>7 DEF vars, KeysReplacedInOrder
  <2> QED
    BY <1>2, <2>1, <2>2, <2>3, <2>4, <2>5, <2>6, <2>7 DEF Next, Program
<1> QED
  BY <1>1, <1>2, Typing, PTL DEF Spec


-----------------------------------------------------------------------------
(* Why a run in which nothing fails passes: get_handle only asks for keys  *)
(* created in the run, allocate only for those erased and not yet created, *)
(* and what was signed or encrypted is verified with the same key.         *)

LEMMA HandleCalls ==
    \A s \in Stages : \A k \in DOMAIN Script[s] :
        LET id == Script[s][k].id
        IN  /\ Script[s][k].op = "get_handle" => id \in KeyIds /\ KeyStage(id) < s
            /\ Script[s][k].op = "allocate" =>
                   /\ id \in KeyIds /\ KeyStage(id) = s
                   /\ EraseCall(id) < k /\ k < CreateCall(id)
<1> USE DEF KeyStage, EraseCall, CreateCall, KeyIds, None,
            Call, Erase, Open, GetHandle, Allocate, Create, GetKey, TryGetKey,
            Compute, Sign, Verify, Free, BuildCri, AssembleCsr, WriteDer, WritePem
<1> DEFINE Good(demo, s) ==
      \A k \in DOMAIN demo :
          /\ demo[k].op = "get_handle" => demo[k].id \in KeyIds /\ KeyStage(demo[k].id) < s
          /\ demo[k].op = "allocate" =>
                 /\ demo[k].id \in KeyIds /\ KeyStage(demo[k].id) = s
                 /\ EraseCall(demo[k].id) < k /\ k < CreateCall(demo[k].id)
<1>1. Good(demo_rng, 1)
  BY DEF demo_rng
<1>2. Good(demo_ec_keygen, 2)
  BY DEF demo_ec_keygen
<1>3. Good(demo_ec_sign_verify, 3)
  BY DEF demo_ec_sign_verify, SignVerify
<1>4. Good(demo_ec_ecdh, 4)
  BY DEF demo_ec_ecdh
<1>5. Good(demo_ec_csr, 5)
  BY DEF demo_ec_csr, Csr
<1>6. Good(demo_rsa_keygen, 6)
  BY DEF demo_rsa_keygen
<1>7. Good(demo_rsa_sign_verify, 7)
  BY DEF demo_rsa_sign_verify, SignVerify
<1>8. Good(demo_rsa_enc_dec, 8)
  BY DEF demo_rsa_enc_dec
<1>9. Good(demo_rsa_csr, 9)
  BY DEF demo_rsa_csr, Csr
<1> HIDE DEF Good
<1>10. \A s \in 1 .. 9 : Good(Script[s], s)
  BY <1>1, <1>2, <1>3, <1>4, <1>5, <1>6, <1>7, <1>8, <1>9, ScriptIs
<1> QED
  BY <1>10, StagesAre DEF Good

(* The key slots of a running run.                                         *)
FaultlessInv ==
    /\ phase = "running" =>
           \A id \in KeyIds : Created(id, stage, pc) => se[id] = run
    /\ phase = "running" /\ ~faulty =>
           /\ status = "ok"
           /\ \A id \in KeyIds :
                  Done("erase", id, stage, pc) /\ ~Created(id, stage, pc)
                      => se[id] = NoKey
    /\ FaultlessRunPasses

(* The run number is the material of a key, never that of an empty slot.   *)
LEMMA RunIsKey == TypeOK => run # NoKey
BY MaxRunsAssumption, NoKeyAssumption DEF TypeOK

LEMMA HandleIsThere ==
    ASSUME TypeOK, FaultlessInv, At("get_handle")
    PROVE  se[Current.id] # NoKey
<1>1. /\ stage \in 1 .. 9 /\ pc \in DOMAIN Script[stage]
      /\ phase = "running" /\ Current.op = "get_handle"
  BY CurrentCall, StagesAre DEF At
<1>2. Current.id \in KeyIds /\ KeyStage(Current.id) < stage
  BY <1>1, HandleCalls, StagesAre DEF Current
<1>3. Created(Current.id, stage, pc)
  BY <1>2, DoneIsPosition DEF Before
<1> QED
  BY <1>1, <1>2, <1>3, RunIsKey DEF FaultlessInv

LEMMA SlotIsFree ==
    ASSUME TypeOK, FaultlessInv, At("allocate"), ~faulty
    PROVE  se[Current.id] = NoKey
<1>1. /\ stage \in 1 .. 9 /\ pc \in DOMAIN Script[stage] /\ pc \in Nat
      /\ phase = "running" /\ Current.op = "allocate"
  BY CurrentCall, StagesAre DEF At, TypeOK
<1>2. /\ Current.id \in KeyIds /\ KeyStage(Current.id) = stage
      /\ EraseCall(Current.id) < pc /\ pc < CreateCall(Current.id)
  BY <1>1, HandleCalls, StagesAre DEF Current
<1>3. EraseCall(Current.id) \in Nat /\ CreateCall(Current.id) \in Nat
  BY <1>2, KeyCallsInScript
<1>4. Done("erase", Current.id, stage, pc) /\ ~Created(Current.id, stage, pc)
  BY <1>1, <1>2, <1>3, DoneIsPosition DEF Before
<1> QED
  BY <1>1, <1>2, <1>4 DEF FaultlessInv

(* A call that leaves the key slots alone and is not refused.              *)
LEMMA CallKeepsFaultless ==
    ASSUME TypeOK, FaultlessInv, NEW op, At(op), op \notin {"erase", "create"},
           Proceed \/ Fault \/ Unnoticed,
           se' = se, run' = run
    PROVE  FaultlessInv'
<1>1. /\ Current.op = op /\ pc \in DOMAIN Script[stage]
      /\ phase = "running" /\ status = "ok"
  BY DEF At
<1>2. /\ stage' = stage /\ pc' \in {pc, pc + 1} /\ phase' = "running"
      /\ (~faulty' => ~faulty /\ status' = "ok")
  BY <1>1 DEF Proceed, Fault, Unnoticed
<1>3. ASSUME NEW id \in KeyIds
      PROVE  /\ Created(id, stage', pc') <=> Created(id, stage, pc)
             /\ Done("erase", id, stage', pc') <=> Done("erase", id, stage, pc)
  BY <1>1, <1>2, DoneByCall
<1> QED
  BY <1>1, <1>2, <1>3 DEF FaultlessInv, FaultlessRunPasses

LEMMA FaultlessKept == Spec => []FaultlessInv
<1>1. Init => FaultlessInv
  BY DEF Init, FaultlessInv, FaultlessRunPasses
<1>2. ASSUME TypeOK, ResourceInv, BufferInv, FaultlessInv, [Next]_vars
      PROVE  FaultlessInv'
  <2> USE TypeOK, FaultlessInv
  <2>1. CASE OpenObject \/ ExportPublicKey \/ TryExportSecret \/ ComputeBytes
             \/ SignOrEncrypt \/ FreeContext \/ WriteDerFile \/ WritePemFile
    <3>1. /\ \E op : op \notin {"erase", "create"} /\ At(op)
          /\ Proceed \/ Fault \/ Unnoticed
          /\ se' = se /\ run' = run
      BY <2>1 DEF OpenObject, ExportPublicKey, TryExportSecret, ComputeBytes,
                  SignOrEncrypt, FreeContext, WriteDerFile, WritePemFile,
                  Store, ghosts
    <3> QED
      BY <3>1, CallKeepsFaultless
  <2>2. CASE GetHandleOf
    <3>1. /\ At("get_handle") /\ se' = se /\ run' = run
          /\ Proceed \/ Fault
      BY <2>2, HandleIsThere DEF GetHandleOf, ghosts
    <3> QED
      BY <3>1, CallKeepsFaultless
  <2>3. CASE AllocateHandle
    <3>1. At("allocate") /\ se' = se /\ run' = run
      BY <2>3 DEF AllocateHandle, ghosts
    <3>2. CASE Proceed \/ Fault
      BY <3>1, <3>2, CallKeepsFaultless
    <3>3. CASE se[Current.id] # NoKey /\ Refused
      <4>1. faulty
        BY <3>1, <3>3, SlotIsFree DEF TypeOK
      <4> QED
        BY <3>1, <3>3, <4>1 DEF Refused, At, FaultlessInv, FaultlessRunPasses
    <3> QED
      BY <2>3, <3>2, <3>3 DEF AllocateHandle
  <2>4. CASE VerifyOrDecrypt
    <3>1. At("verify") /\ se' = se /\ run' = run
      BY <2>4 DEF VerifyOrDecrypt, ghosts
    <3>2. se[Current.id] = sig.key
      BY <1>2, <3>1, CurrentBuffers DEF BufferInv
    <3>3. Proceed \/ Fault
      BY <2>4, <3>2 DEF VerifyOrDecrypt
    <3> QED
      BY <3>1, <3>3, CallKeepsFaultless
  <2>5. CASE WriteCri \/ WriteCsr
    <3>1. /\ \E op \in {"build_cri", "assemble"} : At(op)
          /\ Proceed \/ Fault
          /\ se' = se /\ run' = run
      BY <1>2, <2>5, NoEarlyReturn DEF WriteCri, WriteCsr, ghosts
    <3> QED
      BY <3>1, CallKeepsFaultless
  <2>6. CASE EraseIfExists
    <3>1. /\ At("erase") /\ pc' = pc + 1 /\ stage' = stage /\ run' = run
          /\ phase' = "running" /\ status' = "ok"
          /\ \/ se' = [se EXCEPT ![Current.id] = NoKey] /\ faulty' = faulty
             \/ se' = se /\ faulty'
      BY <2>6 DEF EraseIfExists, At, Proceed, Unnoticed, ghosts
    <3>2. ASSUME NEW id \in KeyIds
          PROVE  /\ Created(id, stage, pc + 1) => se'[id] = run
                 /\ ~faulty' /\ Done("erase", id, stage, pc + 1)
                    /\ ~Created(id, stage, pc + 1) => se'[id] = NoKey
      BY <3>1, DoneByCall DEF At, TypeOK, FaultlessInv
    <3> QED
      BY <3>1, <3>2 DEF FaultlessInv, FaultlessRunPasses
  <2>7. CASE CreateKey
    <3>1. /\ At("create") /\ stage' = stage /\ run' = run /\ phase' = "running"
          /\ \/ /\ se' = [se EXCEPT ![Current.id] = run]
                /\ pc' = pc + 1 /\ faulty' = faulty /\ status' = status
             \/ /\ se' \in {se, [se EXCEPT ![Current.id] = run]}
                /\ pc' = pc /\ faulty'
      BY <2>7 DEF CreateKey, At, Proceed, Fault, ghosts
    <3>2. ASSUME NEW id \in KeyIds
          PROVE  /\ Created(id, stage, pc') => se'[id] = run
                 /\ ~faulty' /\ Done("erase", id, stage, pc')
                    /\ ~Created(id, stage, pc') => se'[id] = NoKey
      BY <3>1, DoneByCall DEF At, TypeOK, FaultlessInv
    <3> QED
      BY <3>1, <3>2 DEF At, FaultlessInv, FaultlessRunPasses
  <2>8. CASE NextDemo
    <3>1. /\ phase = "running" /\ stage < Len(Script) /\ status' = "ok"
          /\ pc = Len(Script[stage]) + 1 /\ faulty' = faulty
          /\ stage' = stage + 1 /\ pc' = 1 /\ phase' = "running"
          /\ se' = se /\ run' = run
      BY <2>8 DEF NextDemo, Returned, ghosts
    <3> QED
      BY <3>1, DoneByDemo DEF FaultlessInv, FaultlessRunPasses
  <2>9. CASE AllPassed \/ Abort \/ Kill
    BY <2>9 DEF AllPassed, Abort, Kill, Returned, FaultlessInv, FaultlessRunPasses
  <2>10. CASE StartRun
    BY <2>10, NothingDoneAtStart DEF StartRun, FaultlessInv, FaultlessRunPasses
  <2>11. CASE UNCHANGED vars
    BY <2>11 DEF vars, FaultlessInv, FaultlessRunPasses
  <2> QED
    BY <1>2, <2>1, <2>2, <2>3, <2>4, <2>5, <2>6, <2>7, <2>8, <2>9, <2>10,
       <2>11 DEF Next, Program
<1> QED
  BY <1>1, <1>2, Typing, ResourcesKept, BuffersKept, PTL DEF Spec

(* Recovery: a run in which no external call fails passes, whatever the    *)
(* earlier ones left on the secure element.                                *)
THEOREM FaultlessPasses == Spec => []FaultlessRunPasses
<1>1. FaultlessInv => FaultlessRunPasses
  BY DEF FaultlessInv
<1> QED
  BY <1>1, FaultlessKept, PTL


-----------------------------------------------------------------------------
(* What a run that passes leaves.                                          *)

(* Where each CSR file is written. *)
WriteStage(f) == IF f \in {"ec_csr.der", "ec_csr.pem"} THEN 5 ELSE 9
WriteCall(f)  == IF f \in {"ec_csr.der", "rsa_csr.der"} THEN 10 ELSE 11

LEMMA WriteCalls ==
    \A s \in Stages : \A k \in DOMAIN Script[s] : \A f \in Files :
        Script[s][k].op \in {"write_der", "write_pem"} /\ Script[s][k].obj = f
            <=> s = WriteStage(f) /\ k = WriteCall(f)
<1> USE DEF WriteStage, WriteCall, Files, None,
            Call, Erase, Open, GetHandle, Allocate, Create, GetKey, TryGetKey,
            Compute, Sign, Verify, Free, BuildCri, AssembleCsr, WriteDer, WritePem
<1> DEFINE Good(demo, s) ==
      \A k \in DOMAIN demo : \A f \in Files :
          demo[k].op \in {"write_der", "write_pem"} /\ demo[k].obj = f
              <=> s = WriteStage(f) /\ k = WriteCall(f)
<1>1. Good(demo_rng, 1)
  BY DEF demo_rng
<1>2. Good(demo_ec_keygen, 2)
  BY DEF demo_ec_keygen
<1>3. Good(demo_ec_sign_verify, 3)
  BY DEF demo_ec_sign_verify, SignVerify
<1>4. Good(demo_ec_ecdh, 4)
  BY DEF demo_ec_ecdh
<1>5. Good(demo_ec_csr, 5)
  BY DEF demo_ec_csr, Csr
<1>6. Good(demo_rsa_keygen, 6)
  BY DEF demo_rsa_keygen
<1>7. Good(demo_rsa_sign_verify, 7)
  BY DEF demo_rsa_sign_verify, SignVerify
<1>8. Good(demo_rsa_enc_dec, 8)
  BY DEF demo_rsa_enc_dec
<1>9. Good(demo_rsa_csr, 9)
  BY DEF demo_rsa_csr, Csr
<1> HIDE DEF Good
<1>10. \A s \in 1 .. 9 : Good(Script[s], s)
  BY <1>1, <1>2, <1>3, <1>4, <1>5, <1>6, <1>7, <1>8, <1>9, ScriptIs
<1> QED
  BY <1>10, StagesAre DEF Good

(* The call that writes f lies before call k of stage s. *)
Written(f, s, k) == Before(WriteStage(f), WriteCall(f), s, k)

(* A file is written once its call is made, unless a failure went by       *)
(* unnoticed; and a run passes only at the end of its last function.       *)
FileInv ==
    /\ ~faulty => \A f \in Files :
           Written(f, stage, pc) => files[f] = [pub |-> run, sig |-> run]
    /\ Passed => stage = 9 /\ pc = Len(Script[9]) + 1

LEMMA WrittenByCall ==
    ASSUME TypeOK, NEW op, At(op), NEW f \in Files
    PROVE  Written(f, stage, pc + 1) <=>
               \/ Written(f, stage, pc)
               \/ op \in {"write_der", "write_pem"} /\ Current.obj = f
<1>1. /\ stage \in 1 .. 9 /\ pc \in DOMAIN Script[stage] /\ pc \in Nat
      /\ Current.op = op
  BY CurrentCall, StagesAre DEF TypeOK
<1>2. WriteStage(f) \in 1 .. 9 /\ WriteCall(f) \in Nat
  BY DEF WriteStage, WriteCall
<1>3. op \in {"write_der", "write_pem"} /\ Current.obj = f
          <=> stage = WriteStage(f) /\ pc = WriteCall(f)
  BY <1>1, StagesAre, WriteCalls DEF Current
<1> QED
  BY <1>1, <1>2, <1>3 DEF Written, Before

LEMMA WrittenByDemo ==
    ASSUME TypeOK, stage < 9, pc = Len(Script[stage]) + 1, NEW f \in Files
    PROVE  Written(f, stage + 1, 1) <=> Written(f, stage, pc)
<1>1. stage \in 1 .. 9 /\ Len(Script[stage]) \in Nat
  BY ScriptWellFormed, StagesAre DEF TypeOK
<1>2. Len(Script[5]) = 11
  BY ScriptIs DEF demo_ec_csr, Csr
<1>3. WriteStage(f) \in {5, 9} /\ WriteCall(f) \in 10 .. 11
  BY DEF WriteStage, WriteCall
<1>4. stage = 5 => Len(Script[stage]) = 11
  BY <1>2
<1>5. PICK n \in Nat : pc = n + 1 /\ (stage = 5 => n = 11)
  BY <1>1, <1>4
<1> QED
  BY <1>1, <1>3, <1>5 DEF Written, Before

LEMMA NothingWrittenAtStart == \A f \in Files : ~Written(f, 1, 1)
BY DEF Written, Before, WriteStage, WriteCall

(* A call that writes no file. *)
LEMMA CallKeepsFiles ==
    ASSUME TypeOK, FileInv, NEW op, At(op), op \notin {"write_der", "write_pem"},
           Proceed \/ Fault \/ Refused \/ Unnoticed,
           files' = files, run' = run
    PROVE  FileInv'
<1>1. /\ stage' = stage /\ pc' \in {pc, pc + 1} /\ phase' = "running"
      /\ (~faulty' => ~faulty)
  BY DEF At, Proceed, Fault, Refused, Unnoticed
<1>2. \A f \in Files : Written(f, stage', pc') => Written(f, stage, pc)
  BY <1>1, WrittenByCall
<1> QED
  BY <1>1, <1>2 DEF FileInv, Passed

(* The request that a CSR function writes is one for the key of this run.  *)
LEMMA RequestIsOfThisRun ==
    ASSUME TypeOK, BufferInv, FaultlessInv,
           NEW op \in {"write_der", "write_pem"}, At(op)
    PROVE  TheCsr = [pub |-> run, sig |-> run]
<1>1. /\ stage \in 1 .. 9 /\ pc \in DOMAIN Script[stage] /\ Current.op = op
      /\ Current.obj \in Files /\ phase = "running"
  BY CurrentCall, StagesAre DEF WellFormed, At
<1>2. stage \in {5, 9}
  BY <1>1, WriteCalls, StagesAre DEF Current, WriteStage
<1>3. StageKey(stage) \in KeyIds /\ KeyStage(StageKey(stage)) < stage
  BY <1>2 DEF StageKey, KeyIds, KeyStage
<1>4. Created(StageKey(stage), stage, pc)
  BY <1>3, DoneIsPosition DEF Before
<1>5. se[StageKey(stage)] = run
  BY <1>1, <1>3, <1>4 DEF FaultlessInv
<1> QED
  BY <1>5, WrittenCsrIsSelfSigned

LEMMA FilesKept == Spec => []FileInv
<1>1. Init => FileInv
  BY NothingWrittenAtStart DEF Init, FileInv, Passed
<1>2. ASSUME TypeOK, ResourceInv, BufferInv, FaultlessInv, FileInv, [Next]_vars
      PROVE  FileInv'
  <2> USE TypeOK, FileInv
  <2>1. CASE EraseIfExists \/ OpenObject \/ GetHandleOf \/ AllocateHandle
             \/ CreateKey \/ ExportPublicKey \/ TryExportSecret
             \/ ComputeBytes \/ SignOrEncrypt \/ VerifyOrDecrypt
             \/ FreeContext
    <3>1. /\ \E op : op \notin {"write_der", "write_pem"} /\ At(op)
          /\ Proceed \/ Fault \/ Refused \/ Unnoticed
          /\ files' = files /\ run' = run
      BY <2>1 DEF EraseIfExists, OpenObject, GetHandleOf, AllocateHandle,
                  CreateKey, ExportPublicKey, TryExportSecret, ComputeBytes,
                  SignOrEncrypt, VerifyOrDecrypt, FreeContext, ghosts
    <3> QED
      BY <3>1, CallKeepsFiles
  <2>2. CASE WriteCri \/ WriteCsr
    <3>1. /\ \E op \in {"build_cri", "assemble"} : At(op)
          /\ Proceed \/ Fault
          /\ files' = files /\ run' = run
      BY <1>2, <2>2, NoEarlyReturn DEF WriteCri, WriteCsr, ghosts
    <3> QED
      BY <3>1, CallKeepsFiles
  <2>3. CASE WriteDerFile \/ WritePemFile
    <3>1. PICK op \in {"write_der", "write_pem"} : At(op)
      BY <2>3 DEF WriteDerFile, WritePemFile
    <3>2. Store(Current.obj) /\ run' = run
      <4>1. /\ CsrOf(Current.id) = StageCsr(stage)
            /\ spki.len \in 0 .. StageCsr(stage).pubBuf
            /\ sig.len \in 0 .. StageCsr(stage).sigBuf
        <5>1. /\ stage \in {5, 9} /\ Current.id = StageKey(stage)
              /\ phase = "running"
          <6>1. /\ stage \in 1 .. 9 /\ pc \in DOMAIN Script[stage]
                /\ Current.op = op /\ Current.obj \in Files
            BY <3>1, CurrentCall, StagesAre DEF WellFormed
          <6>2. stage \in {5, 9}
            BY <6>1, WriteCalls, StagesAre DEF Current, WriteStage
          <6> QED
            BY <3>1, <6>2, CurrentBuffers
        <5>2. CsrOf(Current.id) = StageCsr(stage)
          BY <5>1 DEF CsrOf, StageCsr, StageKey
        <5> QED
          BY <1>2, <5>1, <5>2, StageCsrTyped DEF TypeOK, ResourceInv
      <4>2. PemFits(CsrOf(Current.id), spki.len, sig.len)
        BY <4>1, StageCsrTyped, CsrAlwaysFits
      <4> QED
        BY <2>3, <4>2 DEF WriteDerFile, WritePemFile, ghosts
    <3>3. /\ Current.obj \in Files /\ phase' = "running"
          /\ stage' = stage /\ pc' = pc + 1
          /\ ~faulty' => ~faulty /\ files' = [files EXCEPT ![Current.obj] = TheCsr]
      BY <3>1, <3>2, CurrentCall DEF Store, Proceed, Unnoticed, WellFormed, At
    <3>4. ASSUME ~faulty', NEW f \in Files, Written(f, stage, pc + 1)
          PROVE  files'[f] = [pub |-> run, sig |-> run]
      <4>1. Written(f, stage, pc) \/ Current.obj = f
        BY <3>1, <3>4, WrittenByCall
      <4>2. TheCsr = [pub |-> run, sig |-> run]
        BY <1>2, <3>1, RequestIsOfThisRun
      <4> QED
        BY <3>3, <3>4, <4>1, <4>2 DEF FileInv, TypeOK
    <3> QED
      BY <3>2, <3>3, <3>4 DEF FileInv, Passed
  <2>4. CASE NextDemo
    <3>1. /\ stage < 9 /\ pc = Len(Script[stage]) + 1
          /\ stage' = stage + 1 /\ pc' = 1 /\ phase' = "running"
          /\ files' = files /\ run' = run /\ faulty' = faulty
      BY <2>4 DEF NextDemo, Returned, ghosts, Script
    <3> QED
      BY <3>1, WrittenByDemo DEF FileInv, Passed
  <2>5. CASE AllPassed
    <3>1. stage = 9
      BY <2>5 DEF AllPassed, Script
    <3> QED
      BY <2>5, <3>1 DEF AllPassed, Returned, ghosts, FileInv, Passed
  <2>6. CASE Abort \/ Kill
    BY <2>6 DEF Abort, Kill, ghosts, FileInv, Passed
  <2>7. CASE StartRun
    BY <2>7, NothingWrittenAtStart DEF StartRun, FileInv, Passed
  <2>8. CASE UNCHANGED vars
    BY <2>8 DEF vars, FileInv, Passed
  <2> QED
    BY <1>2, <2>1, <2>2, <2>3, <2>4, <2>5, <2>6, <2>7, <2>8 DEF Next, Program
<1> QED
  BY <1>1, <1>2, Typing, ResourcesKept, BuffersKept, FaultlessKept, PTL DEF Spec

(* At the end of the last function every key is created and every file     *)
(* written.                                                                *)
LEMMA AllDoneAtEnd ==
    /\ \A id \in KeyIds : Created(id, 9, Len(Script[9]) + 1)
    /\ \A f \in Files : Written(f, 9, Len(Script[9]) + 1)
<1>1. \A id \in KeyIds : KeyStage(id) < 9
  BY DEF KeyStage, KeyIds
<1>2. Len(Script[9]) = 11
  BY ScriptIs DEF demo_rsa_csr, Csr
<1>3. \A f \in Files : Written(f, 9, Len(Script[9]) + 1)
  BY <1>2 DEF Written, Before, WriteStage, WriteCall
<1> QED
  BY <1>1, <1>3, DoneIsPosition DEF Before

(* A run that passes has created every persistent key, and its four files  *)
(* certify and are signed by the keys now on the secure element, unless a  *)
(* failure of stdio went by unnoticed.                                     *)
THEOREM PassedDelivers == Spec => []PassedRunDelivers
<1>1. ASSUME KeysReplacedInOrder, FileInv
      PROVE  PassedRunDelivers
  <2>1. SUFFICES ASSUME Passed
                 PROVE  /\ \A id \in Persistent : se[id] = run
                        /\ ~faulty => \A f \in Files :
                               files[f] = [pub |-> se[FileKey(f)],
                                           sig |-> se[FileKey(f)]]
    BY DEF PassedRunDelivers
  <2>2. \A id \in Persistent : se[id] = run
    BY <1>1, <2>1, AllDoneAtEnd
       DEF KeysReplacedInOrder, FileInv, Passed, Persistent
  <2>3. \A f \in Files : FileKey(f) \in Persistent
    BY DEF FileKey, Persistent, KeyIds
  <2>4. ~faulty => \A f \in Files : files[f] = [pub |-> run, sig |-> run]
    BY <1>1, <2>1, AllDoneAtEnd DEF FileInv
  <2> QED
    BY <2>2, <2>3, <2>4
<1> QED
  BY <1>1, KeysInOrder, FilesKept, PTL


-----------------------------------------------------------------------------
(* The run seen from the key slots. *)
Order == << "ALICE", "BOB", "SHARED", "RSA" >>
Made  == { id \in KeyIds : Created(id, stage, pc) }

LEMMA IdsAre == Provisioning!Ids = KeyIds
<1>1. DOMAIN Order = 1 .. 4
  BY DEF Order
<1>2. /\ Order[1] = "ALICE" /\ Order[2] = "BOB"
      /\ Order[3] = "SHARED" /\ Order[4] = "RSA"
  BY DEF Order
<1>3. { Order[i] : i \in DOMAIN Order } = KeyIds
  BY <1>1, <1>2 DEF KeyIds
<1> QED
  BY <1>3 DEF Provisioning!Ids, Order

(* The keys are made in the order of Order. *)
LEMMA OrderOfCreation ==
    \A i, j \in DOMAIN Order : i < j =>
        \/ KeyStage(Order[i]) < KeyStage(Order[j])
        \/ /\ KeyStage(Order[i]) = KeyStage(Order[j])
           /\ CreateCall(Order[i]) < EraseCall(Order[j])
<1>1. DOMAIN Order = 1 .. 4
  BY DEF Order
<1>2. /\ Order[1] = "ALICE" /\ Order[2] = "BOB"
      /\ Order[3] = "SHARED" /\ Order[4] = "RSA"
  BY DEF Order
<1>3. /\ KeyStage(Order[1]) = 2 /\ KeyStage(Order[2]) = 4
      /\ KeyStage(Order[3]) = 4 /\ KeyStage(Order[4]) = 6
      /\ CreateCall(Order[2]) = 6 /\ EraseCall(Order[3]) = 7
  BY <1>2 DEF KeyStage, CreateCall, EraseCall
<1> QED
  BY <1>1, <1>3

(* A call that erases or creates a key is made when it is its turn. *)
LEMMA TurnOfCall ==
    ASSUME TypeOK, NEW op \in {"erase", "create"}, At(op)
    PROVE  Current.id \in KeyIds /\ Provisioning!Turn(Current.id)
<1> DEFINE id == Current.id
<1>1. /\ stage \in 1 .. 9 /\ stage \in Stages /\ pc \in DOMAIN Script[stage]
      /\ pc \in Nat /\ Current.op = op /\ id \in KeyIds
  BY CurrentCall, StagesAre DEF WellFormed, TypeOK
<1>2. stage = KeyStage(id) /\ pc \in {EraseCall(id), CreateCall(id)}
  BY <1>1, KeyCalls DEF Current
<1>3. EraseCall(id) <= pc
  BY <1>1, <1>2, KeyCallsInScript
<1>4. ~Created(id, stage, pc)
  BY <1>1, DoneByCall
<1>5. ASSUME NEW i \in DOMAIN Order, NEW j \in DOMAIN Order, i < j, Order[j] = id
      PROVE  Order[i] \in Made
  <2>1. Order[i] \in KeyIds
    BY IdsAre DEF Provisioning!Ids, Order
  <2>2. Before(KeyStage(Order[i]), CreateCall(Order[i]), stage, pc)
    <3>1. /\ CreateCall(Order[i]) \in Nat /\ EraseCall(id) \in Nat
          /\ KeyStage(Order[i]) \in 1 .. 9
      BY <1>1, <2>1, KeyCallsInScript, StagesAre
    <3> QED
      BY <1>1, <1>2, <1>3, <1>5, <3>1, OrderOfCreation DEF Before
  <2> QED
    BY <2>1, <2>2, DoneIsPosition DEF Made
<1> HIDE DEF id
<1> QED
  BY <1>1, <1>4, <1>5, IdsAre DEF Provisioning!Turn, Made, Order, id

(* A call further on the same key slots, no key made, is a stutter. *)
LEMMA CallStutters ==
    ASSUME TypeOK, NEW op, At(op), op # "create",
           Proceed \/ Fault \/ Refused \/ Unnoticed, se' = se, run' = run
    PROVE  UNCHANGED Provisioning!vars
<1>1. /\ stage' = stage /\ pc' \in {pc, pc + 1}
      /\ phase = "running" /\ phase' = "running"
      /\ pc \in DOMAIN Script[stage] /\ Current.op = op
  BY DEF At, Proceed, Fault, Refused, Unnoticed
<1>2. \A id \in KeyIds : Created(id, stage', pc') <=> Created(id, stage, pc)
  BY <1>1, DoneByCall
<1>3. { id \in KeyIds : Created(id, stage', pc') } = Made
  BY <1>2 DEF Made
<1>4. Outcome' = Outcome
  BY <1>1 DEF Outcome
<1> QED
  BY <1>3, <1>4 DEF Provisioning!vars, Made

LEMMA EndOfSession ==
    ASSUME TypeOK, SessionEnds
    PROVE  \E lost \in SUBSET {"SHARED"} :
               se' = [id \in KeyIds |-> IF id \in lost THEN NoKey ELSE se[id]]
<1>1. CASE se' = se
  <2>1. se' = [id \in KeyIds |-> IF id \in {} THEN NoKey ELSE se[id]]
    BY <1>1 DEF TypeOK
  <2>2. WITNESS {} \in SUBSET {"SHARED"}
  <2> QED
    BY <2>1
<1>2. CASE se' = [se EXCEPT !["SHARED"] = NoKey]
  <2>1. se' = [id \in KeyIds |-> IF id \in {"SHARED"} THEN NoKey ELSE se[id]]
    BY <1>2 DEF TypeOK
  <2>2. {"SHARED"} \in SUBSET {"SHARED"}
    OBVIOUS
  <2> QED
    BY <2>1, <2>2
<1> QED
  BY <1>1, <1>2 DEF SessionEnds

(* Seen from the key slots, every run of the program is one of             *)
(* KeyProvisioning: whatever call fails, is refused or has its effect with *)
(* the answer lost, the keys are erased and made one after the other, each *)
(* in its turn, and only a run that made all of them passes.               *)
THEOREM ProvisioningImplemented == Spec => ImplementsProvisioning
<1>1. Init => Provisioning!Init
  <2> SUFFICES ASSUME Init PROVE Provisioning!Init
    OBVIOUS
  <2>1. Made = {}
    BY NothingDoneAtStart DEF Init, Made
  <2> QED
    BY <2>1, IdsAre DEF Init, Provisioning!Init, Made, Outcome
<1>2. ASSUME TypeOK, ResourceInv, BufferInv, [Next]_vars
      PROVE  [Provisioning!Next]_(Provisioning!vars)
  <2> USE TypeOK
  <2>1. CASE OpenObject \/ GetHandleOf \/ AllocateHandle \/ ExportPublicKey
             \/ TryExportSecret \/ ComputeBytes \/ SignOrEncrypt
             \/ VerifyOrDecrypt \/ FreeContext \/ WriteDerFile \/ WritePemFile
    <3>1. /\ \E op : op # "create" /\ At(op)
          /\ Proceed \/ Fault \/ Refused \/ Unnoticed
          /\ se' = se /\ run' = run
      BY <2>1 DEF OpenObject, GetHandleOf, AllocateHandle, ExportPublicKey,
                  TryExportSecret, ComputeBytes, SignOrEncrypt,
                  VerifyOrDecrypt, FreeContext, WriteDerFile, WritePemFile,
                  Store, ghosts
    <3> QED
      BY <3>1, CallStutters
  <2>2. CASE WriteCri \/ WriteCsr
    <3>1. /\ \E op \in {"build_cri", "assemble"} : At(op)
          /\ Proceed \/ Fault
          /\ se' = se /\ run' = run
      BY <1>2, <2>2, NoEarlyReturn DEF WriteCri, WriteCsr, ghosts
    <3> QED
      BY <3>1, CallStutters
  <2>3. CASE EraseIfExists
    <3>1. At("erase") /\ run' = run
      BY <2>3 DEF EraseIfExists, ghosts
    <3>2. CASE se' = se
      <4>1. Proceed \/ Unnoticed
        BY <2>3 DEF EraseIfExists
      <4> QED
        BY <3>1, <3>2, <4>1, CallStutters
    <3>3. CASE se' = [se EXCEPT ![Current.id] = NoKey] /\ Proceed
      <4>1. Current.id \in KeyIds /\ Provisioning!Turn(Current.id)
        BY <3>1, TurnOfCall
      <4>2. /\ stage' = stage /\ pc' = pc + 1
            /\ phase = "running" /\ phase' = "running"
            /\ pc \in DOMAIN Script[stage] /\ Current.op = "erase"
        BY <3>1, <3>3 DEF At, Proceed
      <4>3. { id \in KeyIds : Created(id, stage', pc') } = Made
        BY <4>2, DoneByCall DEF Made
      <4>4. Outcome = "running" /\ Outcome' = "running"
        BY <4>2 DEF Outcome
      <4>5. Provisioning!Erase(Current.id)
        BY <3>1, <3>3, <4>1, <4>3, <4>4 DEF Provisioning!Erase, Made
      <4> QED
        BY <4>1, <4>5, IdsAre DEF Provisioning!Next
    <3> QED
      BY <2>3, <3>2, <3>3 DEF EraseIfExists
  <2>4. CASE CreateKey
    <3>1. /\ At("create") /\ run' = run
          /\ \/ se' = [se EXCEPT ![Current.id] = run] /\ Proceed
             \/ se' \in {se, [se EXCEPT ![Current.id] = run]} /\ Fault
      BY <2>4 DEF CreateKey, ghosts
    <3>2. Current.id \in KeyIds /\ Provisioning!Turn(Current.id)
      BY <3>1, TurnOfCall
    <3>3. /\ stage' = stage /\ phase = "running" /\ phase' = "running"
          /\ pc \in DOMAIN Script[stage] /\ Current.op = "create"
      BY <3>1 DEF At, Proceed, Fault
    <3>4. Outcome = "running" /\ Outcome' = "running"
      BY <3>3 DEF Outcome
    <3>5. CASE se' = [se EXCEPT ![Current.id] = run] /\ Proceed
      <4>1. pc' = pc + 1
        BY <3>5 DEF Proceed
      <4>2. { id \in KeyIds : Created(id, stage', pc') } = Made \cup {Current.id}
        BY <3>2, <3>3, <4>1, DoneByCall DEF Made
      <4>3. Provisioning!Make(Current.id)
        BY <3>1, <3>2, <3>4, <3>5, <4>2 DEF Provisioning!Make, Made
      <4> QED
        BY <3>2, <4>3, IdsAre DEF Provisioning!Next
    <3>6. CASE Fault
      <4>1. { id \in KeyIds : Created(id, stage', pc') } = Made
        BY <3>6 DEF Fault, Made
      <4>2. CASE se' = se
        BY <3>1, <3>4, <4>1, <4>2 DEF Provisioning!vars, Made
      <4>3. CASE se' = [se EXCEPT ![Current.id] = run]
        <5>1. Provisioning!MakeUnnoticed(Current.id)
          BY <3>1, <3>2, <3>4, <4>1, <4>3 DEF Provisioning!MakeUnnoticed, Made
        <5> QED
          BY <3>2, <5>1, IdsAre DEF Provisioning!Next
      <4> QED
        BY <3>1, <3>6, <4>2, <4>3
    <3> QED
      BY <3>1, <3>5, <3>6
  <2>5. CASE NextDemo
    <3>1. /\ stage < Len(Script) /\ pc = Len(Script[stage]) + 1
          /\ stage' = stage + 1 /\ pc' = 1 /\ se' = se /\ run' = run
          /\ phase = "running" /\ phase' = "running"
      BY <2>5 DEF NextDemo, Returned, ghosts
    <3>2. { id \in KeyIds : Created(id, stage', pc') } = Made
      BY <3>1, DoneByDemo DEF Made
    <3>3. Outcome' = Outcome
      BY <3>1 DEF Outcome
    <3> QED
      BY <3>1, <3>2, <3>3 DEF Provisioning!vars, Made
  <2>6. CASE AllPassed \/ Abort \/ Kill
    <3>1. /\ phase = "running" /\ stage' = stage /\ pc' = pc /\ run' = run
          /\ SessionEnds
      BY <2>6 DEF AllPassed, Abort, Kill, Returned, ghosts
    <3>2. Outcome = "running"
      BY <3>1 DEF Outcome
    <3>3. Outcome' = "failed" \/ (Outcome' = "passed" /\ Made = KeyIds)
      <4>1. CASE Abort \/ Kill
        BY <4>1 DEF Abort, Kill, Outcome
      <4>2. CASE AllPassed
        <5>1. stage = 9 /\ pc = Len(Script[9]) + 1
          BY <4>2 DEF AllPassed, Returned, Script
        <5>2. Made = KeyIds
          BY <5>1, AllDoneAtEnd DEF Made
        <5> QED
          BY <4>2, <5>2 DEF AllPassed, Returned, Outcome
      <4> QED
        BY <2>6, <4>1, <4>2
    <3>4. { id \in KeyIds : Created(id, stage', pc') } = Made
      BY <3>1 DEF Made
    <3>5. Provisioning!Finish
      BY <3>1, <3>2, <3>3, <3>4, EndOfSession, IdsAre
         DEF Provisioning!Finish, Made
    <3> QED
      BY <3>5 DEF Provisioning!Next
  <2>7. CASE StartRun
    <3>1. /\ phase # "running" /\ phase' = "running" /\ run' = run + 1
          /\ stage' = 1 /\ pc' = 1 /\ se' = se
      BY <2>7 DEF StartRun
    <3>2. { id \in KeyIds : Created(id, stage', pc') } = {}
      BY <3>1, NothingDoneAtStart
    <3>3. Outcome # "running" /\ Outcome' = "running"
      BY <3>1 DEF Outcome, TypeOK
    <3> QED
      BY <3>1, <3>2, <3>3 DEF Provisioning!Next, Provisioning!Begin
  <2>8. CASE UNCHANGED vars
    BY <2>8 DEF vars, Provisioning!vars, Outcome
  <2> QED
    BY <1>2, <2>1, <2>2, <2>3, <2>4, <2>5, <2>6, <2>7, <2>8 DEF Next, Program
<1> QED
  BY <1>1, <1>2, Typing, ResourcesKept, BuffersKept, PTL
     DEF Spec, ImplementsProvisioning, Provisioning!Spec

=============================================================================

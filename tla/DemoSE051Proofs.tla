---------------------------- MODULE DemoSE051Proofs ----------------------------
(***************************************************************************)
(* Theorems about the demo for any number of runs and any lengths that the *)
(* secure element may return: its state stays typed, it uses a local only  *)
(* while it is open, no path through it leaves an object or a context      *)
(* open, and a CSR is signed by the key that it certifies.                 *)
(***************************************************************************)
EXTENDS DemoSE051, CsrEncodingProofs

(* The CSR of the key that the demo function at stage s works with. *)
StageCsr(s) == IF s < 6 THEN EcCsr ELSE RsaCsr

(* What the calls of the demo function at stage s have in common. *)
WellFormed(c, s) ==
    /\ c.op \in {"erase", "create"} => c.id \in KeyIds
    /\ c.op \in {"get_key", "sign", "build_cri", "assemble"} =>
           c.id \in KeyIds /\ CsrOf(c.id) = StageCsr(s)
    /\ c.op \in {"init", "free"} => c.obj \in Handles
    /\ c.op = "init" => c.obj \in Cleanup[s]
    /\ c.op \in {"write_der", "write_pem"} => c.obj \in Files

LEMMA StagesAre == Stages = 1 .. 9
BY DEF Stages, Script

LEMMA ScriptIs ==
    /\ Script[1] = demo_rng /\ Script[2] = demo_ec_keygen
    /\ Script[3] = demo_ec_sign_verify /\ Script[4] = demo_ec_ecdh
    /\ Script[5] = demo_ec_csr /\ Script[6] = demo_rsa_keygen
    /\ Script[7] = demo_rsa_sign_verify /\ Script[8] = demo_rsa_enc_dec
    /\ Script[9] = demo_rsa_csr
BY DEF Script

(* Every call of every demo function is well formed: read off the scripts. *)
LEMMA ScriptWellFormed ==
    \A s \in Stages :
        /\ Len(Script[s]) \in Nat
        /\ DOMAIN Script[s] = 1 .. Len(Script[s])
        /\ \A k \in DOMAIN Script[s] : WellFormed(Script[s][k], s)
<1> USE DEF WellFormed, StageCsr, CsrOf, Cleanup, KeyIds, Handles, Files, None,
            Call, Erase, Open, GetHandle, Allocate, Create, GetKey, TryGetKey,
            Compute, Sign, Verify, Free, BuildCri, AssembleCsr, WriteDer, WritePem
<1> DEFINE Good(demo, s) == /\ Len(demo) \in Nat
                            /\ DOMAIN demo = 1 .. Len(demo)
                            /\ \A k \in DOMAIN demo : WellFormed(demo[k], s)
<1>1. Good(demo_rng, 1)
  BY DEF demo_rng
<1>2. Good(demo_ec_keygen, 2)
  BY DEF demo_ec_keygen
<1>3. Good(demo_ec_sign_verify, 3)
  BY DEF demo_ec_sign_verify, SignVerify
<1>4. Good(demo_ec_ecdh, 4)
  BY DEF demo_ec_ecdh
<1>5. Good(demo_ec_csr, 5)
  BY DEF demo_ec_csr, Csr
<1>6. Good(demo_rsa_keygen, 6)
  BY DEF demo_rsa_keygen
<1>7. Good(demo_rsa_sign_verify, 7)
  BY DEF demo_rsa_sign_verify, SignVerify
<1>8. Good(demo_rsa_enc_dec, 8)
  BY DEF demo_rsa_enc_dec
<1>9. Good(demo_rsa_csr, 9)
  BY DEF demo_rsa_csr, Csr
<1> HIDE DEF Good
<1>10. \A s \in 1 .. 9 : Good(Script[s], s)
  BY <1>1, <1>2, <1>3, <1>4, <1>5, <1>6, <1>7, <1>8, <1>9, ScriptIs
<1> QED
  BY <1>10, StagesAre DEF Good

-----------------------------------------------------------------------------
(* The call that an action executes lies in the script and is well formed. *)
LEMMA CurrentCall ==
    ASSUME TypeOK, NEW op, At(op)
    PROVE  /\ stage \in Stages /\ pc \in DOMAIN Script[stage]
           /\ pc + 1 \in 1 .. Len(Script[stage]) + 1
           /\ Current.op = op /\ WellFormed(Current, stage)
BY ScriptWellFormed DEF TypeOK, At, Current

LEMMA LensTyped ==
    \A id \in KeyIds : /\ SpkiLens(id) \subseteq 0 .. CsrOf(id).pubBuf
                       /\ SigLens(id) \subseteq 0 .. CsrOf(id).sigBuf
                       /\ CsrOf(id).pubBuf \in Nat /\ CsrOf(id).sigBuf \in Nat
BY LensAssumption DEF SpkiLens, SigLens, CsrOf, EcCsr, RsaCsr

LEMMA MaterialTyped == NoKey \in Material /\ 0 \in Material
BY MaxRunsAssumption DEF Material

(* How a call ends keeps the control state typed. *)
LEMMA EndTyped ==
    ASSUME TypeOK, NEW op, At(op),
           Proceed \/ Fault \/ Refused \/ Unnoticed \/ ReturnAtOnce
    PROVE  /\ phase' \in {"idle", "running", "exited", "killed"}
           /\ stage' \in Stages
           /\ pc' \in 1 .. Len(Script[stage']) + 1
           /\ status' \in {"ok", "fail"}
           /\ faulty' \in BOOLEAN
BY CurrentCall DEF TypeOK, Proceed, Fault, Refused, Unnoticed, ReturnAtOnce

LEMMA SessionEndsTyped ==
    ASSUME se \in [KeyIds -> Material], SessionEnds
    PROVE  se' \in [KeyIds -> Material]
BY MaterialTyped DEF SessionEnds

LEMMA StoreTyped ==
    ASSUME TypeOK, NEW f \in Files, Store(f)
    PROVE  files' \in [Files -> [pub : Material, sig : Material]]
<1>1. TheCsr \in [pub : Material, sig : Material]
  BY DEF TypeOK, TheCsr
<1>2. Unusable \in [pub : Material, sig : Material]
  BY MaterialTyped DEF Unusable
<1> QED
  BY <1>1, <1>2 DEF TypeOK, Store

(* Every variable stays in its range, whatever the number of runs. *)
THEOREM Typing == Spec => []TypeOK
<1>1. Init => TypeOK
  <2> SUFFICES ASSUME Init PROVE TypeOK
    OBVIOUS
  <2>1. se \in [KeyIds -> Material] /\ before \in [KeyIds -> Material]
    BY MaterialTyped DEF Init
  <2>2. files \in [Files -> [pub : Material, sig : Material]]
    <3>1. \A left \in { Unusable, [pub |-> 0, sig |-> 0] } :
              left \in [pub : Material, sig : Material]
      BY MaterialTyped DEF Unusable
    <3> QED
      BY <3>1 DEF Init
  <2>3. 1 \in Stages /\ 1 \in 1 .. Len(Script[1]) + 1
    BY StagesAre, ScriptWellFormed
  <2>4. Blank \in [key : Material, len : Nat]
    BY MaterialTyped DEF Blank
  <2>5. stage \in Stages /\ pc \in 1 .. Len(Script[stage]) + 1
    BY <2>3 DEF Init
  <2>6. run \in 0 .. MaxRuns /\ held \subseteq Handles
    BY MaxRunsAssumption DEF Init
  <2>7. phase = "idle" /\ status = "ok" /\ faulty = FALSE
    BY DEF Init
  <2>8. spki = Blank /\ sig = Blank
    BY DEF Init
  <2> QED
    BY <2>1, <2>2, <2>4, <2>5, <2>6, <2>7, <2>8 DEF TypeOK
<1>2. ASSUME TypeOK, [Next]_vars
      PROVE  TypeOK'
  <2> USE TypeOK
  <2>1. CASE EraseIfExists
    <3>1. se' \in [KeyIds -> Material]
      BY <2>1, CurrentCall, MaterialTyped DEF EraseIfExists, TypeOK, WellFormed
    <3> QED
      BY <2>1, <3>1, EndTyped DEF EraseIfExists, TypeOK, ghosts, buffers
  <2>2. CASE OpenObject
    <3>1. held' \subseteq Handles
      BY <2>2, CurrentCall DEF OpenObject, TypeOK, WellFormed
    <3> QED
      BY <2>2, <3>1, EndTyped DEF OpenObject, TypeOK, ghosts, buffers
  <2>3. CASE GetHandleOf \/ AllocateHandle \/ TryExportSecret \/ ComputeBytes
             \/ VerifyOrDecrypt \/ WriteCri \/ WriteCsr
    <3>1. /\ \E op : At(op)
          /\ Proceed \/ Fault \/ Refused \/ ReturnAtOnce
          /\ UNCHANGED << se, files, ghosts, held, buffers >>
      BY <2>3 DEF GetHandleOf, AllocateHandle, TryExportSecret, ComputeBytes,
                  VerifyOrDecrypt, WriteCri, WriteCsr
    <3> QED
      BY <3>1, EndTyped DEF TypeOK, ghosts, buffers
  <2>4. CASE CreateKey
    <3>1. se' \in [KeyIds -> Material]
      BY <2>4, CurrentCall DEF CreateKey, TypeOK, WellFormed, Material
    <3> QED
      BY <2>4, <3>1, EndTyped DEF CreateKey, TypeOK, ghosts, buffers
  <2>5. CASE ExportPublicKey
    <3>1. spki' \in [key : Material, len : Nat]
      <4>1. Current.id \in KeyIds
        BY <2>5, CurrentCall DEF ExportPublicKey, WellFormed
      <4> QED
        BY <2>5, <4>1, LensTyped DEF ExportPublicKey, TypeOK
    <3> QED
      BY <2>5, <3>1, EndTyped DEF ExportPublicKey, TypeOK, ghosts
  <2>6. CASE SignOrEncrypt
    <3>1. sig' \in [key : Material, len : Nat]
      <4>1. Current.id \in KeyIds
        BY <2>6, CurrentCall DEF SignOrEncrypt, WellFormed
      <4> QED
        BY <2>6, <4>1, LensTyped DEF SignOrEncrypt, TypeOK
    <3> QED
      BY <2>6, <3>1, EndTyped DEF SignOrEncrypt, TypeOK, ghosts
  <2>7. CASE FreeContext
    BY <2>7, EndTyped DEF FreeContext, TypeOK, ghosts, buffers
  <2>8. CASE WriteDerFile \/ WritePemFile
    <3>1. /\ \E op : At(op)
          /\ Proceed \/ Unnoticed
      BY <2>8 DEF WriteDerFile, WritePemFile, Store
    <3>2. files' \in [Files -> [pub : Material, sig : Material]]
      <4>1. Current.obj \in Files
        BY <2>8, CurrentCall DEF WriteDerFile, WritePemFile, WellFormed
      <4>2. Store(Current.obj) \/ files' = files
        BY <2>8 DEF WriteDerFile, WritePemFile
      <4> QED
        BY <4>1, <4>2, StoreTyped DEF TypeOK
    <3> QED
      BY <2>8, <3>1, <3>2, EndTyped
         DEF WriteDerFile, WritePemFile, TypeOK, ghosts, buffers
  <2>9. CASE NextDemo
    <3>1. /\ stage + 1 \in Stages
          /\ 1 \in 1 .. Len(Script[stage + 1]) + 1
      BY <2>9, StagesAre, ScriptWellFormed DEF NextDemo, TypeOK, Stages
    <3>2. Blank \in [key : Material, len : Nat]
      BY MaterialTyped DEF Blank
    <3> QED
      BY <2>9, <3>1, <3>2 DEF NextDemo, TypeOK, ghosts
  <2>10. CASE AllPassed \/ Abort \/ Kill
    BY <2>10, SessionEndsTyped
       DEF AllPassed, Abort, Kill, TypeOK, ghosts, buffers
  <2>11. CASE StartRun
    <3>1. 1 \in Stages /\ 1 \in 1 .. Len(Script[1]) + 1
      BY StagesAre, ScriptWellFormed
    <3>2. Blank \in [key : Material, len : Nat]
      BY MaterialTyped DEF Blank
    <3>3. stage' \in Stages /\ pc' \in 1 .. Len(Script[stage']) + 1
      BY <2>11, <3>1 DEF StartRun
    <3>4. run' \in 0 .. MaxRuns
      BY <2>11, MaxRunsAssumption DEF StartRun, TypeOK
    <3>5. spki' = Blank /\ sig' = Blank
      BY <2>11 DEF StartRun
    <3> QED
      BY <2>11, <3>2, <3>3, <3>4, <3>5 DEF StartRun, TypeOK
  <2>12. CASE UNCHANGED vars
    BY <2>12 DEF vars, TypeOK
  <2> QED
    BY <1>2, <2>1, <2>2, <2>3, <2>4, <2>5, <2>6, <2>7, <2>8, <2>9, <2>10,
       <2>11, <2>12 DEF Next, Program
<1> QED
  BY <1>1, <1>2, PTL DEF Spec

-----------------------------------------------------------------------------
(* Why nothing leaks: what is open is always among what the cleanup of the *)
(* running function frees, and the macros that return without cleanup      *)
(* never do, because the lengths stay within the buffers of the function.  *)
ResourceInv ==
    /\ phase = "running" =>
           /\ held \subseteq Cleanup[stage]
           /\ spki.len <= StageCsr(stage).pubBuf
           /\ sig.len <= StageCsr(stage).sigBuf
    /\ NothingLeaks

LEMMA StageCsrTyped ==
    \A s : /\ StageCsr(s) \in Csrs
           /\ StageCsr(s).pubBuf \in Nat /\ StageCsr(s).sigBuf \in Nat
BY DEF StageCsr, Csrs, EcCsr, RsaCsr

(* The macros of WriteCri and WriteCsr do not return early. *)
LEMMA NoEarlyReturn ==
    ASSUME TypeOK, ResourceInv, NEW op \in {"build_cri", "assemble"}, At(op)
    PROVE  /\ CriFits(CsrOf(Current.id), spki.len)
           /\ CsrFits(CsrOf(Current.id), spki.len, sig.len)
<1>1. CsrOf(Current.id) = StageCsr(stage)
  BY CurrentCall DEF WellFormed
<1>2. /\ spki.len \in 0 .. StageCsr(stage).pubBuf
      /\ sig.len \in 0 .. StageCsr(stage).sigBuf
  BY StageCsrTyped DEF TypeOK, ResourceInv, At
<1> QED
  BY <1>1, <1>2, StageCsrTyped, CriAlwaysFits, CsrAlwaysFits

(* A call that keeps to the locals of its function preserves ResourceInv. *)
LEMMA CallKeepsResources ==
    ASSUME TypeOK, ResourceInv, NEW op, At(op),
           Proceed \/ Fault \/ Refused \/ Unnoticed,
           held' \subseteq Cleanup[stage],
           spki'.len <= StageCsr(stage).pubBuf,
           sig'.len <= StageCsr(stage).sigBuf
    PROVE  ResourceInv'
<1>1. phase' = "running" /\ stage' = stage
  BY DEF At, Proceed, Fault, Refused, Unnoticed
<1>2. status' = "ok" => pc' # 1
  BY CurrentCall DEF TypeOK, Proceed, Fault, Refused, Unnoticed
<1> QED
  BY <1>1, <1>2 DEF ResourceInv, NothingLeaks

LEMMA ResourcesKept == Spec => []ResourceInv
<1>1. Init => ResourceInv
  BY DEF Init, ResourceInv, NothingLeaks
<1>2. ASSUME TypeOK, TypeOK', ResourceInv, [Next]_vars
      PROVE  ResourceInv'
  <2> USE TypeOK, ResourceInv
  <2>1. CASE EraseIfExists \/ GetHandleOf \/ AllocateHandle \/ CreateKey
             \/ TryExportSecret \/ ComputeBytes \/ VerifyOrDecrypt
             \/ WriteDerFile \/ WritePemFile
    <3>1. /\ \E op : At(op)
          /\ Proceed \/ Fault \/ Refused \/ Unnoticed
          /\ UNCHANGED << held, buffers >>
      BY <2>1 DEF EraseIfExists, GetHandleOf, AllocateHandle, CreateKey,
                  TryExportSecret, ComputeBytes, VerifyOrDecrypt,
                  WriteDerFile, WritePemFile, Store
    <3> QED
      BY <3>1, CallKeepsResources DEF At, ResourceInv, buffers
  <2>2. CASE WriteCri \/ WriteCsr
    <3>1. /\ \E op \in {"build_cri", "assemble"} : At(op)
          /\ Proceed \/ Fault
          /\ UNCHANGED << held, buffers >>
      BY <2>2, NoEarlyReturn DEF WriteCri, WriteCsr
    <3> QED
      BY <3>1, CallKeepsResources DEF At, ResourceInv, buffers
  <2>3. CASE OpenObject
    <3>1. held' \subseteq Cleanup[stage]
      BY <2>3, CurrentCall DEF OpenObject, WellFormed, At, ResourceInv
    <3> QED
      BY <2>3, <3>1, CallKeepsResources DEF OpenObject, At, ResourceInv, buffers
  <2>4. CASE FreeContext
    BY <2>4, CallKeepsResources DEF FreeContext, At, ResourceInv, buffers
  <2>5. CASE ExportPublicKey
    <3>1. Current.id \in KeyIds /\ CsrOf(Current.id) = StageCsr(stage)
      BY <2>5, CurrentCall DEF ExportPublicKey, WellFormed
    <3>2. spki'.len <= StageCsr(stage).pubBuf
      BY <2>5, <3>1, LensTyped DEF ExportPublicKey, At, ResourceInv
    <3> QED
      BY <2>5, <3>2, CallKeepsResources DEF ExportPublicKey, At, ResourceInv
  <2>6. CASE SignOrEncrypt
    <3>1. Current.id \in KeyIds /\ CsrOf(Current.id) = StageCsr(stage)
      BY <2>6, CurrentCall DEF SignOrEncrypt, WellFormed
    <3>2. sig'.len <= StageCsr(stage).sigBuf
      BY <2>6, <3>1, LensTyped DEF SignOrEncrypt, At, ResourceInv
    <3> QED
      BY <2>6, <3>2, CallKeepsResources DEF SignOrEncrypt, At, ResourceInv
  <2>7. CASE NextDemo
    <3>1. held' = {} /\ phase' = "running"
      BY <2>7 DEF NextDemo, Returned, ResourceInv
    <3>2. spki'.len = 0 /\ sig'.len = 0
      BY <2>7 DEF NextDemo, Blank
    <3> QED
      BY <3>1, <3>2, StageCsrTyped DEF ResourceInv, NothingLeaks
  <2>8. CASE AllPassed \/ Abort
    BY <2>8 DEF AllPassed, Abort, Returned, ResourceInv, NothingLeaks
  <2>9. CASE Kill
    BY <2>9 DEF Kill, ResourceInv, NothingLeaks
  <2>10. CASE StartRun
    <3>1. held' = {} /\ phase' = "running"
      BY <2>10 DEF StartRun
    <3>2. spki'.len = 0 /\ sig'.len = 0
      BY <2>10 DEF StartRun, Blank
    <3> QED
      BY <3>1, <3>2, StageCsrTyped DEF ResourceInv, NothingLeaks
  <2>11. CASE UNCHANGED vars
    BY <2>11 DEF vars, ResourceInv, NothingLeaks
  <2> QED
    BY <1>2, <2>1, <2>2, <2>3, <2>4, <2>5, <2>6, <2>7, <2>8, <2>9, <2>10,
       <2>11 DEF Next, Program
<1> QED
  BY <1>1, <1>2, Typing, PTL DEF Spec

(* Every demo function starts and ex_sss_entry returns with nothing open,  *)
(* for every number of runs and every length the secure element returns.   *)
THEOREM NoLeaks == Spec => []NothingLeaks
<1>1. ResourceInv => NothingLeaks
  BY DEF ResourceInv
<1> QED
  BY <1>1, ResourcesKept, PTL

-----------------------------------------------------------------------------
(* What is open, call by call: entry k of a function's table is what its   *)
(* calls 1 .. k-1 have initialised and not freed.                          *)

KeyOpen == {"keyPair"}
DigOpen == {"keyPair", "dig_ctx"}
CtxOpen == {"keyPair", "asym"}
AllOpen == {"keyPair", "dig_ctx", "asym"}

SignVerifyOpen ==
    << {}, KeyOpen, KeyOpen, DigOpen, DigOpen, AllOpen, AllOpen, DigOpen,
       AllOpen, AllOpen >>

EcdhOpen ==
    LET a    == {"alice"}
        ab   == {"alice", "bob"}
        abs  == {"alice", "bob", "shared"}
        absd == {"alice", "bob", "shared", "dctx"}
    IN  << {}, a, a, a, ab, ab, ab, ab, abs, abs, absd, absd, absd >>

CsrOpen == << {}, KeyOpen, KeyOpen, KeyOpen, KeyOpen, KeyOpen, CtxOpen,
              CtxOpen, KeyOpen, KeyOpen, KeyOpen, KeyOpen >>

RngOpen       == << {}, {"rng"}, {"rng"} >>
EcKeygenOpen  == << {}, {}, KeyOpen, KeyOpen, KeyOpen, KeyOpen >>
RsaKeygenOpen == << {}, {}, KeyOpen, KeyOpen, KeyOpen >>
EncDecOpen    == << {}, KeyOpen, KeyOpen, CtxOpen, CtxOpen, KeyOpen, CtxOpen, CtxOpen >>

OpenBefore ==
    << RngOpen, EcKeygenOpen, SignVerifyOpen, EcdhOpen, CsrOpen, RsaKeygenOpen,
       SignVerifyOpen, EncDecOpen, CsrOpen >>

(* The tables follow the calls, and every call finds open what it uses and *)
(* closed what it opens.                                                   *)
FollowsTable(c, now, next) ==
    /\ c.uses \subseteq now
    /\ c.op = "init" =>
           c.obj \notin now /\ \A h : h \in next <=> h \in now \/ h = c.obj
    /\ c.op = "free" => \A h : h \in next <=> h \in now /\ h # c.obj
    /\ c.op \notin {"init", "free"} => next = now

LEMMA TablesFollow ==
    \A s \in Stages :
        /\ OpenBefore[s][1] = {}
        /\ \A k \in DOMAIN Script[s] :
               FollowsTable(Script[s][k], OpenBefore[s][k], OpenBefore[s][k + 1])
<1> USE DEF KeyOpen, DigOpen, CtxOpen, AllOpen, None,
            Call, Erase, Open, GetHandle, Allocate, Create, GetKey, TryGetKey,
            Compute, Sign, Verify, Free, BuildCri, AssembleCsr, WriteDer, WritePem
<1> DEFINE Good(demo, table) ==
      /\ table[1] = {}
      /\ \A k \in DOMAIN demo : FollowsTable(demo[k], table[k], table[k + 1])
<1>1. Good(demo_rng, RngOpen)
  BY DEF FollowsTable, demo_rng, RngOpen
<1>2. Good(demo_ec_keygen, EcKeygenOpen)
  BY DEF FollowsTable, demo_ec_keygen, EcKeygenOpen
<1>3. ASSUME NEW id PROVE Good(SignVerify(id), SignVerifyOpen)
  <2> DEFINE d == SignVerify(id)
             t == SignVerifyOpen
  <2>1. FollowsTable(d[1], t[1], t[2]) /\ FollowsTable(d[2], t[2], t[3])
    BY DEF FollowsTable, SignVerify, SignVerifyOpen
  <2>2. FollowsTable(d[3], t[3], t[4]) /\ FollowsTable(d[4], t[4], t[5])
    BY DEF FollowsTable, SignVerify, SignVerifyOpen
  <2>3. FollowsTable(d[5], t[5], t[6]) /\ FollowsTable(d[6], t[6], t[7])
    BY DEF FollowsTable, SignVerify, SignVerifyOpen
  <2>4. FollowsTable(d[7], t[7], t[8]) /\ FollowsTable(d[8], t[8], t[9])
    BY DEF FollowsTable, SignVerify, SignVerifyOpen
  <2>5. FollowsTable(d[9], t[9], t[10])
    BY DEF FollowsTable, SignVerify, SignVerifyOpen
  <2>6. DOMAIN d = 1 .. 9 /\ t[1] = {}
    BY DEF SignVerify, SignVerifyOpen
  <2> HIDE DEF d, t
  <2>7. \A k \in DOMAIN d : FollowsTable(d[k], t[k], t[k + 1])
    BY <2>1, <2>2, <2>3, <2>4, <2>5, <2>6
  <2> QED
    BY <2>6, <2>7 DEF d, t
<1>4. Good(demo_ec_ecdh, EcdhOpen)
  <2> DEFINE d == demo_ec_ecdh
             t == EcdhOpen
  <2>1. FollowsTable(d[1], t[1], t[2]) /\ FollowsTable(d[2], t[2], t[3])
    BY DEF FollowsTable, demo_ec_ecdh, EcdhOpen
  <2>2. FollowsTable(d[3], t[3], t[4]) /\ FollowsTable(d[4], t[4], t[5])
    BY DEF FollowsTable, demo_ec_ecdh, EcdhOpen
  <2>3. FollowsTable(d[5], t[5], t[6]) /\ FollowsTable(d[6], t[6], t[7])
    BY DEF FollowsTable, demo_ec_ecdh, EcdhOpen
  <2>4. FollowsTable(d[7], t[7], t[8]) /\ FollowsTable(d[8], t[8], t[9])
    BY DEF FollowsTable, demo_ec_ecdh, EcdhOpen
  <2>5. FollowsTable(d[9], t[9], t[10]) /\ FollowsTable(d[10], t[10], t[11])
    BY DEF FollowsTable, demo_ec_ecdh, EcdhOpen
  <2>6. FollowsTable(d[11], t[11], t[12]) /\ FollowsTable(d[12], t[12], t[13])
    BY DEF FollowsTable, demo_ec_ecdh, EcdhOpen
  <2>7. DOMAIN d = 1 .. 12 /\ t[1] = {}
    BY DEF demo_ec_ecdh, EcdhOpen
  <2> HIDE DEF d, t
  <2>8. \A k \in DOMAIN d : FollowsTable(d[k], t[k], t[k + 1])
    BY <2>1, <2>2, <2>3, <2>4, <2>5, <2>6, <2>7
  <2> QED
    BY <2>7, <2>8 DEF d, t
<1>5. ASSUME NEW id, NEW der, NEW pem PROVE Good(Csr(id, der, pem), CsrOpen)
  <2> DEFINE d == Csr(id, der, pem)
             t == CsrOpen
  <2>1. FollowsTable(d[1], t[1], t[2]) /\ FollowsTable(d[2], t[2], t[3])
    BY DEF FollowsTable, Csr, CsrOpen
  <2>2. FollowsTable(d[3], t[3], t[4]) /\ FollowsTable(d[4], t[4], t[5])
    BY DEF FollowsTable, Csr, CsrOpen
  <2>3. FollowsTable(d[5], t[5], t[6]) /\ FollowsTable(d[6], t[6], t[7])
    BY DEF FollowsTable, Csr, CsrOpen
  <2>4. FollowsTable(d[7], t[7], t[8]) /\ FollowsTable(d[8], t[8], t[9])
    BY DEF FollowsTable, Csr, CsrOpen
  <2>5. FollowsTable(d[9], t[9], t[10]) /\ FollowsTable(d[10], t[10], t[11])
    BY DEF FollowsTable, Csr, CsrOpen
  <2>6. FollowsTable(d[11], t[11], t[12])
    BY DEF FollowsTable, Csr, CsrOpen
  <2>7. DOMAIN d = 1 .. 11 /\ t[1] = {}
    BY DEF Csr, CsrOpen
  <2> HIDE DEF d, t
  <2>8. \A k \in DOMAIN d : FollowsTable(d[k], t[k], t[k + 1])
    BY <2>1, <2>2, <2>3, <2>4, <2>5, <2>6, <2>7
  <2> QED
    BY <2>7, <2>8 DEF d, t
<1>6. Good(demo_rsa_keygen, RsaKeygenOpen)
  BY DEF FollowsTable, demo_rsa_keygen, RsaKeygenOpen
<1>7. Good(demo_rsa_enc_dec, EncDecOpen)
  <2> DEFINE d == demo_rsa_enc_dec
             t == EncDecOpen
  <2>1. FollowsTable(d[1], t[1], t[2]) /\ FollowsTable(d[2], t[2], t[3])
    BY DEF FollowsTable, demo_rsa_enc_dec, EncDecOpen
  <2>2. FollowsTable(d[3], t[3], t[4]) /\ FollowsTable(d[4], t[4], t[5])
    BY DEF FollowsTable, demo_rsa_enc_dec, EncDecOpen
  <2>3. FollowsTable(d[5], t[5], t[6]) /\ FollowsTable(d[6], t[6], t[7])
    BY DEF FollowsTable, demo_rsa_enc_dec, EncDecOpen
  <2>4. FollowsTable(d[7], t[7], t[8])
    BY DEF FollowsTable, demo_rsa_enc_dec, EncDecOpen
  <2>5. DOMAIN d = 1 .. 7 /\ t[1] = {}
    BY DEF demo_rsa_enc_dec, EncDecOpen
  <2> HIDE DEF d, t
  <2>6. \A k \in DOMAIN d : FollowsTable(d[k], t[k], t[k + 1])
    BY <2>1, <2>2, <2>3, <2>4, <2>5
  <2> QED
    BY <2>5, <2>6 DEF d, t
<1> HIDE DEF Good
<1>8. /\ OpenBefore[1] = RngOpen /\ OpenBefore[2] = EcKeygenOpen
      /\ OpenBefore[3] = SignVerifyOpen /\ OpenBefore[4] = EcdhOpen
      /\ OpenBefore[5] = CsrOpen /\ OpenBefore[6] = RsaKeygenOpen
      /\ OpenBefore[7] = SignVerifyOpen /\ OpenBefore[8] = EncDecOpen
      /\ OpenBefore[9] = CsrOpen
  BY DEF OpenBefore
<1>9. /\ Good(demo_ec_sign_verify, SignVerifyOpen)
      /\ Good(demo_rsa_sign_verify, SignVerifyOpen)
      /\ Good(demo_ec_csr, CsrOpen) /\ Good(demo_rsa_csr, CsrOpen)
  BY <1>3, <1>5 DEF demo_ec_sign_verify, demo_rsa_sign_verify,
                    demo_ec_csr, demo_rsa_csr
<1>10. \A s \in 1 .. 9 : Good(Script[s], OpenBefore[s])
  BY <1>1, <1>2, <1>4, <1>6, <1>7, <1>8, <1>9, ScriptIs
<1> QED
  BY <1>10, StagesAre DEF Good

(* The locals of a running function are open as its table says, whether    *)
(* its last call succeeded or not.                                         *)
HeldInv == phase = "running" => held = OpenBefore[stage][pc]

(* A call that neither opens nor frees keeps to the table. *)
LEMMA CallKeepsHeld ==
    ASSUME TypeOK, HeldInv, NEW op, op \notin {"init", "free"}, At(op),
           Proceed \/ Fault \/ Refused \/ Unnoticed \/ ReturnAtOnce,
           held' = held
    PROVE  HeldInv'
<1>1. /\ stage \in Stages /\ pc \in DOMAIN Script[stage]
      /\ Current.op = op /\ phase = "running"
  BY CurrentCall DEF At
<1>2. OpenBefore[stage][pc + 1] = OpenBefore[stage][pc]
  BY <1>1, TablesFollow DEF Current, FollowsTable
<1> QED
  BY <1>1, <1>2 DEF HeldInv, Proceed, Fault, Refused, Unnoticed, ReturnAtOnce

LEMMA HeldKept == Spec => []HeldInv
<1>1. Init => HeldInv
  BY DEF Init, HeldInv
<1>2. ASSUME TypeOK, ResourceInv, HeldInv, [Next]_vars
      PROVE  HeldInv'
  <2> USE TypeOK, HeldInv
  <2>1. CASE EraseIfExists \/ GetHandleOf \/ AllocateHandle \/ CreateKey
             \/ ExportPublicKey \/ TryExportSecret \/ ComputeBytes
             \/ SignOrEncrypt \/ VerifyOrDecrypt \/ WriteCri \/ WriteCsr
             \/ WriteDerFile \/ WritePemFile
    <3>1. /\ \E op : op \notin {"init", "free"} /\ At(op)
          /\ Proceed \/ Fault \/ Refused \/ Unnoticed \/ ReturnAtOnce
          /\ held' = held
      BY <2>1 DEF EraseIfExists, GetHandleOf, AllocateHandle, CreateKey,
                  ExportPublicKey, TryExportSecret, ComputeBytes,
                  SignOrEncrypt, VerifyOrDecrypt, WriteCri, WriteCsr,
                  WriteDerFile, WritePemFile, Store
    <3> QED
      BY <3>1, CallKeepsHeld
  <2>2. CASE OpenObject \/ FreeContext
    <3>1. /\ At("init") \/ At("free")
          /\ stage \in Stages /\ pc \in DOMAIN Script[stage]
          /\ FollowsTable(Current, OpenBefore[stage][pc], OpenBefore[stage][pc + 1])
      BY <2>2, CurrentCall, TablesFollow DEF OpenObject, FreeContext, Current
    <3>2. /\ phase = "running" /\ stage' = stage
          /\ \/ pc' = pc + 1
                /\ held' = IF Current.op = "init" THEN held \cup {Current.obj}
                                                  ELSE held \ {Current.obj}
             \/ pc' = pc /\ held' = held
          /\ Current.op \in {"init", "free"}
      BY <2>2 DEF OpenObject, FreeContext, At, Proceed, Fault
    <3> QED
      BY <3>1, <3>2 DEF HeldInv, FollowsTable
  <2>3. CASE NextDemo
    <3>1. held' = {} /\ pc' = 1
      BY <1>2, <2>3 DEF NextDemo, Returned, ResourceInv
    <3>2. stage' \in Stages
      BY <2>3, StagesAre, ScriptWellFormed DEF NextDemo, TypeOK, Stages
    <3> QED
      BY <3>1, <3>2, TablesFollow DEF HeldInv
  <2>4. CASE AllPassed \/ Abort \/ Kill
    BY <2>4 DEF AllPassed, Abort, Kill, HeldInv
  <2>5. CASE StartRun
    BY <2>5, StagesAre, TablesFollow DEF StartRun, HeldInv
  <2>6. CASE UNCHANGED vars
    BY <2>6 DEF vars, HeldInv
  <2> QED
    BY <1>2, <2>1, <2>2, <2>3, <2>4, <2>5, <2>6 DEF Next, Program
<1> QED
  BY <1>1, <1>2, Typing, ResourcesKept, PTL DEF Spec

(* No call works on a local that is closed or freed, and none initialises  *)
(* one that is still open.                                                 *)
THEOREM OpenObjectsUsed == Spec => []UsesOpenObjects
<1>1. ASSUME TypeOK, HeldInv
      PROVE  UsesOpenObjects
  <2>1. SUFFICES ASSUME phase = "running", pc \in DOMAIN Script[stage]
                 PROVE  /\ Current.uses \subseteq held
                        /\ Current.op = "init" => Current.obj \notin held
    BY DEF UsesOpenObjects
  <2> QED
    BY <1>1, <2>1, TablesFollow DEF TypeOK, HeldInv, Current, FollowsTable
<1> QED
  BY <1>1, Typing, HeldKept, PTL


-----------------------------------------------------------------------------
(* Why a CSR is always signed by the key it certifies: what the buffers    *)
(* hold was exported from, or computed with, the key now in the slot,      *)
(* since a function that exports or signs replaces no key afterwards.      *)

(* The key that the function at stage s exports, signs and verifies with.  *)
StageKey(s) == IF s < 6 THEN "ALICE" ELSE "RSA"

EarlierIn(demo, op, k) == \E j \in DOMAIN demo : j < k /\ demo[j].op = op

(* Such a call was completed before call k of stage s. *)
Earlier(op, s, k) == EarlierIn(Script[s], op, k)

UsesStageKey(demo, key) ==
    \A k \in DOMAIN demo :
        /\ demo[k].op \in {"get_key", "sign", "verify", "write_der", "write_pem"} =>
               demo[k].id = key
        /\ demo[k].op \in {"erase", "create"} =>
               ~EarlierIn(demo, "get_key", k) /\ ~EarlierIn(demo, "sign", k)
        /\ demo[k].op = "verify" => EarlierIn(demo, "sign", k)
        /\ demo[k].op \in {"write_der", "write_pem"} =>
               EarlierIn(demo, "get_key", k) /\ EarlierIn(demo, "sign", k)

LEMMA StageKeysUsed ==
    \A s \in Stages : UsesStageKey(Script[s], StageKey(s))
<1> USE DEF UsesStageKey, EarlierIn, None,
            Call, Erase, Open, GetHandle, Allocate, Create, GetKey, TryGetKey,
            Compute, Sign, Verify, Free, BuildCri, AssembleCsr, WriteDer, WritePem
<1>1. UsesStageKey(demo_rng, "ALICE")
  BY DEF demo_rng
<1>2. UsesStageKey(demo_ec_keygen, "ALICE")
  BY DEF demo_ec_keygen
<1>3. ASSUME NEW id PROVE UsesStageKey(SignVerify(id), id)
  <2> DEFINE d == SignVerify(id)
  <2>1. /\ DOMAIN d = 1 .. 9
        /\ d[6].op = "sign" /\ d[6].id = id /\ d[9].op = "verify" /\ d[9].id = id
    BY DEF SignVerify
  <2>2. \A k \in {1, 2, 3, 4, 5, 7, 8} :
            d[k].op \in {"init", "get_handle", "compute", "free"}
    BY DEF SignVerify
  <2> HIDE DEF d
  <2>3. UsesStageKey(d, id)
    BY <2>1, <2>2
  <2> QED
    BY <2>3 DEF d
<1>4. UsesStageKey(demo_ec_ecdh, "ALICE")
  BY DEF demo_ec_ecdh
<1>5. ASSUME NEW id, NEW der, NEW pem PROVE UsesStageKey(Csr(id, der, pem), id)
  <2> DEFINE d == Csr(id, der, pem)
  <2>1. /\ DOMAIN d = 1 .. 11
        /\ d[3].op = "get_key" /\ d[3].id = id /\ d[7].op = "sign" /\ d[7].id = id
        /\ d[10].op = "write_der" /\ d[10].id = id
        /\ d[11].op = "write_pem" /\ d[11].id = id
    BY DEF Csr
  <2>2. \A k \in {1, 2, 4, 5, 6, 8, 9} :
            d[k].op \in {"init", "get_handle", "build_cri", "compute", "free",
                        "assemble"}
    BY DEF Csr
  <2> HIDE DEF d
  <2>3. UsesStageKey(d, id)
    BY <2>1, <2>2
  <2> QED
    BY <2>3 DEF d
<1>6. UsesStageKey(demo_rsa_keygen, "RSA")
  BY DEF demo_rsa_keygen
<1>7. UsesStageKey(demo_rsa_enc_dec, "RSA")
  BY DEF demo_rsa_enc_dec
<1> HIDE DEF UsesStageKey, EarlierIn
<1>8. /\ UsesStageKey(demo_ec_sign_verify, "ALICE")
      /\ UsesStageKey(demo_rsa_sign_verify, "RSA")
      /\ UsesStageKey(demo_ec_csr, "ALICE")
      /\ UsesStageKey(demo_rsa_csr, "RSA")
  BY <1>3, <1>5 DEF demo_ec_sign_verify, demo_rsa_sign_verify,
                    demo_ec_csr, demo_rsa_csr
<1>9. \A s \in 1 .. 9 : UsesStageKey(Script[s], StageKey(s))
  BY <1>1, <1>2, <1>4, <1>6, <1>7, <1>8, ScriptIs DEF StageKey
<1> QED
  BY <1>9, StagesAre

(* One call further, and at the start of a function. *)
LEMMA EarlierSteps ==
    ASSUME NEW s \in Stages, NEW op
    PROVE  /\ ~Earlier(op, s, 1)
           /\ \A k \in DOMAIN Script[s] :
                  Earlier(op, s, k + 1) <=> Earlier(op, s, k) \/ Script[s][k].op = op
<1>1. DOMAIN Script[s] = 1 .. Len(Script[s]) /\ Len(Script[s]) \in Nat
  BY ScriptWellFormed
<1> QED
  BY <1>1 DEF Earlier, EarlierIn

BufferInv ==
    phase = "running" =>
        /\ Earlier("get_key", stage, pc) => spki.key = se[StageKey(stage)]
        /\ Earlier("sign", stage, pc) => sig.key = se[StageKey(stage)]

LEMMA CurrentBuffers ==
    ASSUME TypeOK, NEW op, At(op)
    PROVE  /\ phase = "running" /\ stage \in Stages /\ pc \in DOMAIN Script[stage]
           /\ \A o : Earlier(o, stage, pc + 1) <=> Earlier(o, stage, pc) \/ o = op
           /\ op \in {"get_key", "sign", "verify", "write_der", "write_pem"} =>
                  Current.id = StageKey(stage)
           /\ op \in {"erase", "create"} => /\ ~Earlier("get_key", stage, pc)
                                            /\ ~Earlier("sign", stage, pc)
           /\ op = "verify" => Earlier("sign", stage, pc)
           /\ op \in {"write_der", "write_pem"} => /\ Earlier("get_key", stage, pc)
                                                   /\ Earlier("sign", stage, pc)
<1>1. /\ stage \in Stages /\ pc \in DOMAIN Script[stage]
      /\ Current.op = op /\ phase = "running" /\ Current = Script[stage][pc]
  BY CurrentCall DEF At, Current
<1>2. UsesStageKey(Script[stage], StageKey(stage))
  BY <1>1, StageKeysUsed
<1> QED
  BY <1>1, <1>2, EarlierSteps DEF UsesStageKey, Earlier

LEMMA BuffersKept == Spec => []BufferInv
<1>1. Init => BufferInv
  BY DEF Init, BufferInv
<1>2. ASSUME TypeOK, BufferInv, [Next]_vars
      PROVE  BufferInv'
  <2> USE TypeOK, BufferInv
  <2>1. CASE OpenObject \/ GetHandleOf \/ AllocateHandle \/ TryExportSecret
             \/ ComputeBytes \/ VerifyOrDecrypt \/ FreeContext \/ WriteCri
             \/ WriteCsr \/ WriteDerFile \/ WritePemFile
    <3>1. /\ \E op : op \notin {"get_key", "sign"} /\ At(op)
          /\ Proceed \/ Fault \/ Refused \/ Unnoticed \/ ReturnAtOnce
          /\ se' = se /\ spki' = spki /\ sig' = sig
      BY <2>1 DEF OpenObject, GetHandleOf, AllocateHandle, TryExportSecret,
                  ComputeBytes, VerifyOrDecrypt, FreeContext, WriteCri,
                  WriteCsr, WriteDerFile, WritePemFile, Store, buffers
    <3> QED
      BY <3>1, CurrentBuffers
         DEF BufferInv, Proceed, Fault, Refused, Unnoticed, ReturnAtOnce
  <2>2. CASE EraseIfExists \/ CreateKey
    <3>1. /\ At("erase") \/ At("create")
          /\ stage' = stage /\ pc' \in {pc, pc + 1}
      BY <2>2 DEF EraseIfExists, CreateKey, Proceed, Unnoticed, Fault
    <3>2. /\ ~Earlier("get_key", stage', pc')
          /\ ~Earlier("sign", stage', pc')
      BY <3>1, CurrentBuffers
    <3> QED
      BY <3>2 DEF BufferInv
  <2>3. CASE ExportPublicKey
    <3>1. /\ At("get_key") /\ se' = se /\ sig' = sig /\ stage' = stage
          /\ \/ pc' = pc + 1 /\ spki'.key = se[Current.id]
             \/ pc' = pc /\ spki' = spki
      BY <2>3 DEF ExportPublicKey, Proceed, Fault
    <3> QED
      BY <3>1, CurrentBuffers DEF BufferInv
  <2>4. CASE SignOrEncrypt
    <3>1. /\ At("sign") /\ se' = se /\ spki' = spki /\ stage' = stage
          /\ \/ pc' = pc + 1 /\ sig'.key = se[Current.id]
             \/ pc' = pc /\ sig' = sig
      BY <2>4 DEF SignOrEncrypt, Proceed, Fault
    <3> QED
      BY <3>1, CurrentBuffers DEF BufferInv
  <2>5. CASE NextDemo \/ StartRun
    <3>1. pc' = 1 /\ stage' \in Stages
      BY <2>5, StagesAre, ScriptWellFormed DEF NextDemo, StartRun, TypeOK, Stages
    <3> QED
      BY <3>1, EarlierSteps DEF BufferInv
  <2>6. CASE AllPassed \/ Abort \/ Kill
    BY <2>6 DEF AllPassed, Abort, Kill, BufferInv
  <2>7. CASE UNCHANGED vars
    BY <2>7 DEF vars, BufferInv
  <2> QED
    BY <1>2, <2>1, <2>2, <2>3, <2>4, <2>5, <2>6, <2>7 DEF Next, Program
<1> QED
  BY <1>1, <1>2, Typing, PTL DEF Spec

(* The two files of a CSR function get a request whose key and signature   *)
(* come from the same slot.                                                *)
LEMMA WrittenCsrIsSelfSigned ==
    ASSUME TypeOK, BufferInv, NEW op \in {"write_der", "write_pem"}, At(op)
    PROVE  TheCsr = [pub |-> se[StageKey(stage)], sig |-> se[StageKey(stage)]]
BY CurrentBuffers DEF BufferInv, TheCsr

(* Whatever fails and whenever the power is cut, over any number of runs,  *)
(* a CSR file that can be read is signed by the key it certifies.          *)
THEOREM SelfSigned == Spec => []CsrIsSelfSigned
<1>1. Init => CsrIsSelfSigned
  BY DEF Init, CsrIsSelfSigned, Unusable
<1>2. ASSUME TypeOK, BufferInv, CsrIsSelfSigned, [Next]_vars
      PROVE  CsrIsSelfSigned'
  <2> USE TypeOK, BufferInv, CsrIsSelfSigned
  <2>1. CASE WriteDerFile \/ WritePemFile
    <3>1. PICK op \in {"write_der", "write_pem"} : At(op)
      BY <2>1 DEF WriteDerFile, WritePemFile
    <3>2. files' = files \/ Store(Current.obj)
      BY <2>1 DEF WriteDerFile, WritePemFile
    <3>3. TheCsr.pub = TheCsr.sig /\ Unusable.pub = Unusable.sig
      BY <3>1, WrittenCsrIsSelfSigned DEF Unusable
    <3> QED
      BY <3>2, <3>3 DEF CsrIsSelfSigned, Store, TypeOK
  <2>2. CASE files' = files
    BY <2>2 DEF CsrIsSelfSigned
  <2> QED
    BY <1>2, <2>1, <2>2
       DEF Next, Program, vars, EraseIfExists, OpenObject, GetHandleOf,
           AllocateHandle, CreateKey, ExportPublicKey, TryExportSecret,
           ComputeBytes, SignOrEncrypt, VerifyOrDecrypt, FreeContext,
           WriteCri, WriteCsr, NextDemo, AllPassed, Abort, Kill, StartRun
<1> QED
  BY <1>1, <1>2, Typing, BuffersKept, PTL DEF Spec

=============================================================================

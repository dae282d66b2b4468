------------------------------ MODULE DemoScripts ------------------------------
(***************************************************************************)
(* The nine demo functions of app/ as straight-line scripts of calls, in   *)
(* the order in which ex_sss_entry runs them.  Each call names the local   *)
(* object or context it initialises, frees or works for (obj), the key     *)
(* identifier of the secure element it reaches (id), and the live locals   *)
(* it dereferences (uses).  Every call is followed in the code by          *)
(* ENSURE_OR_GO_CLEANUP unless DemoSE051 says that its result is ignored;  *)
(* the statements after the label cleanup are the table Cleanup.           *)
(***************************************************************************)
EXTENDS Sequences, Naturals

KeyIds  == {"ALICE", "BOB", "SHARED", "RSA"}       \* DEMO_KEY_*
Handles == {"rng", "keyPair", "dig_ctx", "asym", "alice", "bob", "shared", "dctx"}
Files   == {"ec_csr.der", "ec_csr.pem", "rsa_csr.der", "rsa_csr.pem"}
None    == "none"

Call(op, obj, id, uses) == [op |-> op, obj |-> obj, id |-> id, uses |-> uses]

Erase(id)           == Call("erase", None, id, {})
Open(h, uses)       == Call("init", h, None, uses)      \* object or context init
GetHandle(h, id)    == Call("get_handle", h, id, {h})
Allocate(h, id)     == Call("allocate", h, id, {h})
Create(h, id, uses) == Call("create", h, id, uses)      \* generate or derive
GetKey(h, id)       == Call("get_key", h, id, {h})
TryGetKey(h, id)    == Call("try_get_key", h, id, {h})  \* result only logged
Compute(uses)       == Call("compute", None, None, uses)
Sign(id)            == Call("sign", "asym", id, {"asym", "keyPair"})
Verify(id)          == Call("verify", "asym", id, {"asym", "keyPair"})
Free(h)             == Call("free", h, None, {h})
BuildCri(id)        == Call("build_cri", None, id, {})
AssembleCsr(id)     == Call("assemble", None, id, {})
WriteDer(f, id)     == Call("write_der", f, id, {})
WritePem(f, id)     == Call("write_pem", f, id, {})

-----------------------------------------------------------------------------
demo_rng == << Open("rng", {}), Compute({"rng"}) >>

(* Plausible bug: the leftover key is not erased first. *)
demo_ec_keygen_KeepsOldKey ==
    << Open("keyPair", {}), Allocate("keyPair", "ALICE"),
       Create("keyPair", "ALICE", {"keyPair"}), GetKey("keyPair", "ALICE") >>

demo_ec_keygen ==
    << Erase("ALICE"),
       Open("keyPair", {}), Allocate("keyPair", "ALICE"),
       Create("keyPair", "ALICE", {"keyPair"}), GetKey("keyPair", "ALICE") >>

(* Sign and verify with one context variable, freed between the two uses:  *)
(* the EC and the RSA version make the same calls on different keys.       *)
SignVerify(id) ==
    << Open("keyPair", {}), GetHandle("keyPair", id),
       Open("dig_ctx", {}), Compute({"dig_ctx"}),
       Open("asym", {"keyPair"}), Sign(id), Free("asym"),
       Open("asym", {"keyPair"}), Verify(id) >>

demo_ec_sign_verify == SignVerify("ALICE")

(* Plausible bug: the identifier of the other party is erased. *)
demo_ec_ecdh_ErasesAlice ==
    << Open("alice", {}), GetHandle("alice", "ALICE"),
       Erase("ALICE"),
       Open("bob", {}), Allocate("bob", "BOB"), Create("bob", "BOB", {"bob"}) >>

demo_ec_ecdh ==
    << Open("alice", {}), GetHandle("alice", "ALICE"),
       Erase("BOB"),
       Open("bob", {}), Allocate("bob", "BOB"), Create("bob", "BOB", {"bob"}),
       Erase("SHARED"),
       Open("shared", {}), Allocate("shared", "SHARED"),
       Open("dctx", {"alice"}),
       Create("shared", "SHARED", {"dctx", "alice", "bob", "shared"}),
       TryGetKey("shared", "SHARED") >>

(* Export the public key, build and hash the CertificationRequestInfo,     *)
(* sign it on the secure element, assemble the request, write two files.   *)
Csr(id, der, pem) ==
    << Open("keyPair", {}), GetHandle("keyPair", id), GetKey("keyPair", id),
       BuildCri(id), Compute({}),
       Open("asym", {"keyPair"}), Sign(id), Free("asym"),
       AssembleCsr(id), WriteDer(der, id), WritePem(pem, id) >>

demo_ec_csr == Csr("ALICE", "ec_csr.der", "ec_csr.pem")

demo_rsa_keygen ==
    << Erase("RSA"),
       Open("keyPair", {}), Allocate("keyPair", "RSA"),
       Create("keyPair", "RSA", {"keyPair"}) >>

demo_rsa_sign_verify == SignVerify("RSA")

(* Plausible bug: the context still open from encryption is opened again. *)
demo_rsa_enc_dec_ReopensContext ==
    << Open("keyPair", {}), GetHandle("keyPair", "RSA"),
       Open("asym", {"keyPair"}), Sign("RSA"),
       Open("asym", {"keyPair"}), Verify("RSA") >>

(* Encryption followed by decryption and the comparison with the plaintext *)
(* has the shape of a signature followed by its verification: the second   *)
(* call succeeds exactly when the key is still the one the first used.     *)
demo_rsa_enc_dec ==
    << Open("keyPair", {}), GetHandle("keyPair", "RSA"),
       Open("asym", {"keyPair"}), Sign("RSA"), Free("asym"),
       Open("asym", {"keyPair"}), Verify("RSA") >>

(* Plausible bug: a file name copied from demo_ec_csr. *)
demo_rsa_csr_OverwritesEc == Csr("RSA", "ec_csr.der", "rsa_csr.pem")

demo_rsa_csr == Csr("RSA", "rsa_csr.der", "rsa_csr.pem")

-----------------------------------------------------------------------------
(* The order of RUN in ex_sss_entry. *)
Script == << demo_rng, demo_ec_keygen, demo_ec_sign_verify, demo_ec_ecdh,
             demo_ec_csr, demo_rsa_keygen, demo_rsa_sign_verify,
             demo_rsa_enc_dec, demo_rsa_csr >>

(* Plausible bug: demo_ec_ecdh forgets the derivation context. *)
Cleanup_WithoutDctx ==
    << {"rng"}, {"keyPair"}, {"asym", "dig_ctx", "keyPair"},
       {"shared", "bob", "alice"}, {"asym", "keyPair"}, {"keyPair"},
       {"asym", "dig_ctx", "keyPair"}, {"asym", "keyPair"}, {"asym", "keyPair"} >>

(* What the statements after the label cleanup free, stage by stage; to    *)
(* free a zeroed or an already freed variable has no effect.               *)
Cleanup ==
    << {"rng"}, {"keyPair"}, {"asym", "dig_ctx", "keyPair"},
       {"dctx", "shared", "bob", "alice"}, {"asym", "keyPair"}, {"keyPair"},
       {"asym", "dig_ctx", "keyPair"}, {"asym", "keyPair"}, {"asym", "keyPair"} >>

Stages == 1 .. Len(Script)

(* The positions of a run, and those that come before a given one. *)
Before(t, j, s, k) == t < s \/ (t = s /\ j < k)

(* Some call op on key id was completed before call k of stage s. *)
Done(op, id, s, k) ==
    \E t \in Stages : \E j \in DOMAIN Script[t] :
        /\ Before(t, j, s, k)
        /\ Script[t][j].op = op
        /\ Script[t][j].id = id

Created(id, s, k) == Done("create", id, s, k)

=============================================================================

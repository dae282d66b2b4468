----------------------------- MODULE Pkcs11Scripts -----------------------------
(***************************************************************************)
(* The ten functions of pkcs11_example/ as data.  A function is a sequence *)
(* of rounds: the passes of its loop, or its blocks, one after the other;  *)
(* the last round is what follows the label cleanup.  A round is a         *)
(* sequence of calls, each with what the code does when the call fails.    *)
(***************************************************************************)
EXTENDS Naturals, Sequences

(* A local handle and the identifier of the object it names.               *)
H(var, id) == [var |-> var, id |-> id]

(* When a call fails: whether the function is going to return 1, and where *)
(* control goes: to the next call, to the end of the round or to cleanup.  *)
Check  == [rc |-> 1, to |-> "cleanup"]     \* CK_CHECK, [FAIL] and goto cleanup
Fail   == [rc |-> 1, to |-> "end"]         \* [FAIL] and goto next
Skip   == [rc |-> 0, to |-> "end"]         \* [SKIP] and continue
Leave  == [rc |-> 0, to |-> "cleanup"]     \* [SKIP] and goto cleanup
Ignore == [rc |-> 0, to |-> "on"]

Call(kind, op, uses, makes, onfail) ==
    [kind |-> kind, op |-> op, uses |-> uses, makes |-> makes, onfail |-> onfail]

Query(uses, onfail)         == Call("query", "none", uses, {}, onfail)
Create(uses, makes, onfail) == Call("create", "none", uses, makes, onfail)
Begin(op, uses, onfail)     == Call("begin", op, uses, {}, onfail)
Finish(op, onfail)          == Call("finish", op, {}, {}, onfail)
Export(what, uses)          == Call("export", what, uses, {}, Skip)
Compare(what, onfail)       == Call("compare", what, {}, {}, onfail)
Destroy(h)                  == Call("destroy", "none", {h}, {}, Ignore)

-----------------------------------------------------------------------------
(* The fourth is the test for a token, without which the function returns; *)
(* what is printed of each slot and each object found does not matter.     *)
run_module_info ==
    << << Query({}, Check), Query({}, Check), Query({}, Check),
          Query({}, Leave), Query({}, Check), Query({}, Ignore),
          Begin("find", {}, Check), Query({}, Ignore), Finish("find", Ignore),
          Query({}, Ignore) >>,
       << >> >>

(* Seven buffer sizes. *)
run_random_gen ==
    LET size == << Query({}, Check) >>
    IN  << size, size, size, size, size, size, size, << >> >>

(* Five digest algorithms. *)
run_digest ==
    LET alg == << Begin("digest", {}, Skip), Finish("digest", Check) >>
    IN  << alg, alg, alg, alg, alg, << >> >>

(* A key that is made and destroyed. *)
Brief(id, makes) == << Create({}, makes, Check), Destroy(H("hKey", id)) >>

run_sym_key_gen ==
    << Brief("B0", {H("hKey", "B0")}), Brief("B1", {H("hKey", "B1")}),
       Brief("B2", {H("hKey", "B2")}), Brief("B3", {H("hKey", "B3")}), << >> >>

run_import_object ==
    << Brief("82", {H("hKey", "82")}), Brief("83", {H("hKey", "83")}),
       << Create({}, {H("hPub", "80")}, Check),
          Query({H("hPub", "80")}, Ignore),
          Destroy(H("hPub", "80")) >>,
       << >> >>

Pair(id) == {H("hPub", id), H("hPriv", id)}

(* One pass of the loop over the curves. *)
Curve(id) ==
    << Create({}, Pair(id), Skip),
       Query({H("hPub", id)}, Ignore),
       Begin("sign", {H("hPriv", id)}, Skip), Finish("sign", Fail),
       Begin("verify", {H("hPub", id)}, Fail), Finish("verify", Fail),
       Destroy(H("hPriv", id)), Destroy(H("hPub", id)) >>

run_ecc == << Curve("30"), Curve("31"), Curve("32"), << >> >>

(* Plausible bug: the generation of the key is not checked. *)
run_rsa_skips ==
    << << Create({}, Pair("40"), Leave),
          Begin("sign", {H("hPriv", "40")}, Check), Finish("sign", Check),
          Begin("verify", {H("hPub", "40")}, Check), Finish("verify", Check),
          Begin("sign", {H("hPriv", "40")}, Leave), Finish("sign", Check),
          Begin("verify", {H("hPub", "40")}, Check), Finish("verify", Check) >>,
       << Destroy(H("hPriv", "40")), Destroy(H("hPub", "40")) >> >>

(* PKCS#1 v1.5, then PSS. *)
run_rsa ==
    << << Create({}, Pair("40"), Check),
          Query({H("hPub", "40")}, Ignore),
          Begin("sign", {H("hPriv", "40")}, Check), Finish("sign", Check),
          Begin("verify", {H("hPub", "40")}, Check), Finish("verify", Check),
          Begin("sign", {H("hPriv", "40")}, Leave), Finish("sign", Check),
          Begin("verify", {H("hPub", "40")}, Check), Finish("verify", Check) >>,
       << Destroy(H("hPriv", "40")), Destroy(H("hPub", "40")) >> >>

alice == Pair("70")   \* hAlicePub, hAlicePriv
bob   == Pair("71")   \* hBobPub, hBobPriv

(* The derived keys are session objects.  That the first cannot be read is *)
(* only printed.                                                           *)
run_ecdh_derive ==
    << << Create({}, alice, Check), Create({}, bob, Check),
          Query({H("hPub", "71")}, Check), Query({H("hPub", "70")}, Check),
          Create({H("hPriv", "70")}, {H("hShared1", "S1")}, Leave),
          [Export("alice", {H("hShared1", "S1")}) EXCEPT !.onfail = Ignore],
          Create({H("hPriv", "71")}, {H("hShared2", "S2")}, Leave),
          Export("bob", {H("hShared2", "S2")}),
          Compare("secret", Ignore) >>,
       << Destroy(H("hShared2", "S2")), Destroy(H("hShared1", "S1")),
          Destroy(H("hPriv", "71")), Destroy(H("hPub", "71")),
          Destroy(H("hPriv", "70")), Destroy(H("hPub", "70")) >> >>

(* Plausible bug: a MAC that does not verify is reported and forgotten. *)
run_hmac_forgets ==
    LET key == H("hKey", "60")
        alg == << Begin("sign", {key}, Skip), Finish("sign", Check),
                  Begin("verify", {key}, Leave), Finish("verify", Leave) >>
    IN  << << Create({}, {key}, Check) >>, alg, alg, alg, alg, << Destroy(key) >> >>

(* Plausible bug: the loop goes on after a MAC that failed. *)
run_hmac_continues ==
    LET key == H("hKey", "60")
        alg == << Begin("sign", {key}, Skip), Finish("sign", Skip),
                  Begin("verify", {key}, Check), Finish("verify", Check) >>
    IN  << << Create({}, {key}, Check) >>, alg, alg, alg, alg, << Destroy(key) >> >>

(* Plausible bug: an identifier copied from run_import_object. *)
run_hmac_copied ==
    LET key == H("hKey", "83")
        alg == << Begin("sign", {key}, Skip), Finish("sign", Check),
                  Begin("verify", {key}, Check), Finish("verify", Check) >>
    IN  << << Create({}, {key}, Check) >>, alg, alg, alg, alg, << Destroy(key) >> >>

(* The import of the key, then four algorithms. *)
run_hmac ==
    LET key == H("hKey", "60")
        alg == << Begin("sign", {key}, Skip), Finish("sign", Check),
                  Begin("verify", {key}, Check), Finish("verify", Check) >>
    IN  << << Create({}, {key}, Check) >>, alg, alg, alg, alg, << Destroy(key) >> >>

(* Plausible bug: the AES key is destroyed between its two uses. *)
run_encrypt_decrypt_early ==
    LET aes == H("hAes", "50")
        trip == << Begin("encrypt", {aes}, Check), Finish("encrypt", Check),
                   Begin("decrypt", {aes}, Check), Finish("decrypt", Check),
                   Compare("ct", Check) >>
    IN  << << Create({}, {aes}, Check) >>, trip \o << Destroy(aes) >>, trip,
           << Destroy(aes) >> >>

(* Plausible bug: the RSA key is destroyed only where all went well. *)
run_encrypt_decrypt_leaks ==
    LET aes == H("hAes", "50")
        trip == << Begin("encrypt", {aes}, Check), Finish("encrypt", Check),
                   Begin("decrypt", {aes}, Check), Finish("decrypt", Check),
                   Compare("ct", Check) >>
    IN  << << Create({}, {aes}, Check) >>, trip, trip, << Destroy(aes) >>,
           << Create({}, Pair("51"), Leave),
              Begin("encrypt", {H("hPub", "51")}, Leave), Finish("encrypt", Check),
              Begin("decrypt", {H("hPriv", "51")}, Check), Finish("decrypt", Check),
              Compare("ct", Check),
              Destroy(H("hPriv", "51")), Destroy(H("hPub", "51")) >>,
           << Destroy(aes) >> >>

(* AES in two modes, then RSA with its own pair of keys.                   *)
run_encrypt_decrypt ==
    LET aes == H("hAes", "50")
        trip == << Begin("encrypt", {aes}, Check), Finish("encrypt", Check),
                   Begin("decrypt", {aes}, Check), Finish("decrypt", Check),
                   Compare("ct", Check) >>
    IN  << << Create({}, {aes}, Check) >>, trip, trip, << Destroy(aes) >>,
           << Create({}, Pair("51"), Leave),
              Begin("encrypt", {H("hPub", "51")}, Skip), Finish("encrypt", Fail),
              Begin("decrypt", {H("hPriv", "51")}, Fail), Finish("decrypt", Fail),
              Compare("ct", Fail),
              Destroy(H("hPriv", "51")), Destroy(H("hPub", "51")) >>,
           << Destroy(aes) >> >>

-----------------------------------------------------------------------------
Demos == << run_module_info, run_random_gen, run_digest, run_sym_key_gen,
            run_import_object, run_ecc, run_rsa, run_ecdh_derive, run_hmac,
            run_encrypt_decrypt >>

TokenIds   == {"B0", "B1", "B2", "B3", "82", "83", "80", "30", "31", "32",
               "40", "70", "71", "60", "50", "51"}
SessionIds == {"S1", "S2"}

=============================================================================

--------------------------- MODULE Pkcs11PlanProofs ----------------------------
(***************************************************************************)
(* What the PKCS#11 suite can rely on from one call to another, for any    *)
(* number of runs, any leftover objects and any number of failures: the    *)
(* objects it uses are there, the identifiers it takes are its own, and a  *)
(* run that no call fails passes and shows what earlier runs have left.    *)
(* The proofs know the scripts through ScriptsPlanned and BirthPlace.      *)
(***************************************************************************)
EXTENDS Pkcs11DemoProofs

(* The object that a function makes in its first round for later ones, by  *)
(* the function and the round that counts on it.                           *)
Kept(s, r) == IF s = 9 /\ r \in 2 .. 5 THEN {H("hKey", "60")}
              ELSE IF s = 10 /\ r \in 2 .. 3 THEN {H("hAes", "50")} ELSE {}

(* Only DESTROYs are left of the round q. *)
Closing(q, k) == \A j \in k .. Len(q) : q[j].kind = "destroy"

MadeBefore(q, k, h) == \E j \in 1 .. k - 1 : h \in q[j].makes

(* At call k of a round the function counts on the handle h: for the calls *)
(* of the round on what came in and was made in it, at its end on what the *)
(* next round takes over.                                                  *)
CountsOn(q, k, in, out, h) == IF Closing(q, k) THEN h \in out ELSE h \in in \/ MadeBefore(q, k, h)

(* A round that is given the handles in, and passes on the handles out.    *)
RoundCounts(q, in, out) ==
    /\ \A k \in DOMAIN q :
          /\ q[k].kind # "destroy" => \A h \in q[k].uses : h \in in \/ MadeBefore(q, k, h)
          /\ q[k].kind = "destroy" => /\ Closing(q, k)
                                      /\ \A h \in q[k].uses : \A g \in out : g.id # h.id
          /\ q[k].kind # "create" \/ q[k].onfail.to = "on" => q[k].makes = {}
          /\ q[k].onfail.to = "end" => out \subseteq in
    /\ \A h \in out : h \in in \/ MadeBefore(q, Len(q) + 1, h)

(* Where the scripts make the object of an identifier: function, round and *)
(* call.                                                                   *)
Born(id) ==
    CASE id = "B0" -> << 4, 1, 1 >> [] id = "B1" -> << 4, 2, 1 >> [] id = "B2" -> << 4, 3, 1 >>
      [] id = "B3" -> << 4, 4, 1 >> [] id = "82" -> << 5, 1, 1 >> [] id = "83" -> << 5, 2, 1 >>
      [] id = "80" -> << 5, 3, 1 >> [] id = "30" -> << 6, 1, 1 >> [] id = "31" -> << 6, 2, 1 >>
      [] id = "32" -> << 6, 3, 1 >> [] id = "40" -> << 7, 1, 1 >> [] id = "70" -> << 8, 1, 1 >>
      [] id = "71" -> << 8, 1, 2 >> [] id = "S1" -> << 8, 1, 5 >> [] id = "S2" -> << 8, 1, 7 >>
      [] id = "60" -> << 9, 1, 1 >> [] id = "50" -> << 10, 1, 1 >> [] OTHER -> << 10, 5, 1 >>

(* Call k of round r of function s lies behind the place p. *)
Behind(p, s, r, k) ==
    \/ p[1] < s
    \/ p[1] = s /\ p[2] < r
    \/ p[1] = s /\ p[2] = r /\ p[3] < k

(* What a call leaves to be confirmed, and what it confirms. *)
Gives(c, o) == \/ c.kind = "finish" /\ o \in Produced(c.op)
               \/ c.kind = "export" /\ o = c.op
Takes(c, o) == \/ c.kind = "finish" /\ o \in Confirmed(c.op)
               \/ c.kind = "compare" /\ o \in Compared(c.op)
Yields(q, k, o) == \E j \in 1 .. k - 1 : Gives(q[j], o) /\ \A i \in j + 1 .. k - 1 : ~Takes(q[i], o)

Skippable == {"30", "31", "32", "51"}

RoundPlans(q, s, r) ==
    \A k \in DOMAIN q :
       /\ q[k].kind = "create" => \A h \in q[k].makes : Born(h.id) = << s, r, k >>
       /\ q[k].kind = "create" /\ q[k].onfail.rc = 0 =>
             \/ \A h \in q[k].makes : h.id \in SessionIds
             \/ /\ \A h \in q[k].makes : h.id \in Skippable
                /\ \A id \in (TokenIds \cup SessionIds) \ Skippable :
                      Born(id)[1] = s => Behind(Born(id), s, r, k)
       /\ q[k].kind = "begin" /\ q[k].op = "find" => << s, r, k >> = << 1, 1, 7 >> /\ q[k].onfail.rc = 1
       /\ q[k].kind = "compare" => /\ q[k].onfail.rc = 1 \/ q[k].onfail.to = "on"
                                   /\ \A o \in Compared(q[k].op) : Yields(q, k, o)

(* A round of the function s as its scripts have it. *)
Planned(q, s, r) ==
    RoundCounts(q, Kept(s, r), Kept(s, r + 1)) /\ RoundPlans(q, s, r)

LEMMA NothingPlanned ==
    ASSUME NEW s, NEW r, Kept(s, r + 1) = {}
    PROVE  Planned(<< >>, s, r)
BY DEF Planned, RoundCounts, RoundPlans

LEMMA BriefPlanned ==
    ASSUME NEW id, NEW s, NEW r, Kept(s, r + 1) = {}, Born(id) = << s, r, 1 >>
    PROVE  Planned(Brief(id, {H("hKey", id)}), s, r)
<1> DEFINE q == Brief(id, {H("hKey", id)})
<1>1. /\ Len(q) = 2 /\ DOMAIN q = 1 .. 2
      /\ q[1] = Create({}, {H("hKey", id)}, Check) /\ q[2] = Destroy(H("hKey", id))
  BY DEF Brief
<1> HIDE DEF q
<1>2. RoundCounts(q, Kept(s, r), Kept(s, r + 1))
  BY <1>1 DEF RoundCounts, Closing, MadeBefore, Create, Destroy, Call, Check, Ignore
<1>3. RoundPlans(q, s, r)
  BY <1>1 DEF RoundPlans, Create, Destroy, Call, Check, Ignore, H
<1> QED
  BY <1>2, <1>3 DEF Planned, q

LEMMA ModuleInfoPlanned == \A r \in 1 .. 2 : Planned(run_module_info[r], 1, r)
<1> DEFINE q == run_module_info[1]
<1>1. /\ Len(q) = 10 /\ DOMAIN q = 1 .. 10
      /\ q[1] = Query({}, Check) /\ q[2] = Query({}, Check) /\ q[3] = Query({}, Check)
      /\ q[4] = Query({}, Leave) /\ q[5] = Query({}, Check) /\ q[6] = Query({}, Ignore)
      /\ q[7] = Begin("find", {}, Check) /\ q[8] = Query({}, Ignore)
      /\ q[9] = Finish("find", Ignore) /\ q[10] = Query({}, Ignore)
  BY DEF run_module_info
<1> HIDE DEF q
<1>2. \A r : Kept(1, r) = {}
  BY DEF Kept
<1>3. \A k \in DOMAIN q : /\ q[k].kind \in {"query", "begin", "finish"}
                          /\ q[k].uses = {} /\ q[k].makes = {}
                          /\ q[k].onfail.to \in {"on", "cleanup"}
                          /\ q[k].kind = "begin" => k = 7 /\ q[k].onfail.rc = 1
  BY <1>1 DEF Call, Query, Create, Begin, Finish, Export, Compare, Destroy, H, Pair,
         Check, Fail, Skip, Leave, Ignore
<1>4. RoundCounts(q, {}, {})
  BY <1>3 DEF RoundCounts
<1>5. RoundPlans(q, 1, 1)
  BY <1>3 DEF RoundPlans
<1>6. run_module_info[2] = << >>
  BY DEF run_module_info
<1>7. Planned(q, 1, 1)
  BY <1>2, <1>4, <1>5 DEF Planned
<1>8. Planned(run_module_info[2], 1, 2)
  BY <1>2, <1>6, NothingPlanned
<1> QED
  BY <1>7, <1>8 DEF q

LEMMA RandomGenPlanned == \A r \in 1 .. 8 : Planned(run_random_gen[r], 2, r)
<1> DEFINE q == << Query({}, Check) >>
<1>1. Len(q) = 1 /\ DOMAIN q = 1 .. 1 /\ q[1] = Query({}, Check)
  OBVIOUS
<1>2. run_random_gen[8] = << >> /\ \A r \in 1 .. 7 : run_random_gen[r] = q
  BY DEF run_random_gen
<1> HIDE DEF q
<1>3. RoundCounts(q, {}, {}) /\ \A r : RoundPlans(q, 2, r)
  BY <1>1 DEF RoundCounts, RoundPlans, Query, Call, Check
<1>4. \A r : Kept(2, r) = {}
  BY DEF Kept
<1>5. \A r : Planned(q, 2, r)
  BY <1>3, <1>4 DEF Planned
<1>6. Planned(run_random_gen[8], 2, 8)
  BY <1>2, <1>4, NothingPlanned
<1> QED
  BY <1>2, <1>5, <1>6

LEMMA DigestPlanned == \A r \in 1 .. 6 : Planned(run_digest[r], 3, r)
<1> DEFINE q == << Begin("digest", {}, Skip), Finish("digest", Check) >>
<1>1. Len(q) = 2 /\ DOMAIN q = 1 .. 2 /\ q[1] = Begin("digest", {}, Skip) /\ q[2] = Finish("digest", Check)
  OBVIOUS
<1>2. run_digest[6] = << >> /\ \A r \in 1 .. 5 : run_digest[r] = q
  BY DEF run_digest
<1> HIDE DEF q
<1>3. RoundCounts(q, {}, {}) /\ \A r : RoundPlans(q, 3, r)
  BY <1>1 DEF RoundCounts, RoundPlans, Begin, Finish, Call, Check, Skip
<1>4. \A r : Kept(3, r) = {}
  BY DEF Kept
<1>5. \A r : Planned(q, 3, r)
  BY <1>3, <1>4 DEF Planned
<1>6. Planned(run_digest[6], 3, 6)
  BY <1>2, <1>4, NothingPlanned
<1> QED
  BY <1>2, <1>5, <1>6

LEMMA SymKeyGenPlanned == \A r \in 1 .. 5 : Planned(run_sym_key_gen[r], 4, r)
<1>1. /\ run_sym_key_gen[5] = << >>
      /\ run_sym_key_gen[1] = Brief("B0", {H("hKey", "B0")})
      /\ run_sym_key_gen[2] = Brief("B1", {H("hKey", "B1")})
      /\ run_sym_key_gen[3] = Brief("B2", {H("hKey", "B2")})
      /\ run_sym_key_gen[4] = Brief("B3", {H("hKey", "B3")})
  BY DEF run_sym_key_gen
<1>2. /\ Born("B0") = << 4, 1, 1 >> /\ Born("B1") = << 4, 2, 1 >>
      /\ Born("B2") = << 4, 3, 1 >> /\ Born("B3") = << 4, 4, 1 >>
  BY DEF Born
<1>3. \A r : Kept(4, r) = {}
  BY DEF Kept
<1>4. Planned(run_sym_key_gen[1], 4, 1) /\ Planned(run_sym_key_gen[2], 4, 2)
  BY <1>1, <1>2, <1>3, BriefPlanned
<1>5. Planned(run_sym_key_gen[3], 4, 3) /\ Planned(run_sym_key_gen[4], 4, 4)
  BY <1>1, <1>2, <1>3, BriefPlanned
<1>6. Planned(run_sym_key_gen[5], 4, 5)
  BY <1>1, <1>3, NothingPlanned
<1> QED
  BY <1>4, <1>5, <1>6

LEMMA ImportObjectPlanned == \A r \in 1 .. 4 : Planned(run_import_object[r], 5, r)
<1> DEFINE q == run_import_object[3]
<1>1. /\ run_import_object[4] = << >>
      /\ run_import_object[1] = Brief("82", {H("hKey", "82")})
      /\ run_import_object[2] = Brief("83", {H("hKey", "83")})
  BY DEF run_import_object
<1>2. /\ Len(q) = 3 /\ DOMAIN q = 1 .. 3 /\ q[1] = Create({}, {H("hPub", "80")}, Check)
      /\ q[2] = Query({H("hPub", "80")}, Ignore) /\ q[3] = Destroy(H("hPub", "80"))
  BY DEF run_import_object
<1> HIDE DEF q
<1>3. Born("82") = << 5, 1, 1 >> /\ Born("83") = << 5, 2, 1 >> /\ Born("80") = << 5, 3, 1 >>
  BY DEF Born
<1>4. \A r : Kept(5, r) = {}
  BY DEF Kept
<1>5. RoundCounts(q, {}, {})
  BY <1>2 DEF RoundCounts, Closing, MadeBefore, Create, Query, Destroy, Call, Check, Ignore
<1>6. RoundPlans(q, 5, 3)
  BY <1>2, <1>3 DEF RoundPlans, Create, Query, Destroy, Call, Check, Ignore, H
<1>7. Planned(run_import_object[1], 5, 1) /\ Planned(run_import_object[2], 5, 2)
  BY <1>1, <1>3, <1>4, BriefPlanned
<1>8. Planned(run_import_object[3], 5, 3) /\ Planned(run_import_object[4], 5, 4)
  BY <1>1, <1>4, <1>5, <1>6, NothingPlanned DEF Planned, q
<1> QED
  BY <1>7, <1>8

LEMMA EccPlanned == \A r \in 1 .. 4 : Planned(run_ecc[r], 6, r)
<1>1. /\ run_ecc[1] = Curve("30") /\ run_ecc[2] = Curve("31")
      /\ run_ecc[3] = Curve("32") /\ run_ecc[4] = << >>
  BY DEF run_ecc
<1>2. Born("30") = << 6, 1, 1 >> /\ Born("31") = << 6, 2, 1 >> /\ Born("32") = << 6, 3, 1 >>
  BY DEF Born
<1>3. \A r : Kept(6, r) = {}
  BY DEF Kept
<1>4. \A id \in (TokenIds \cup SessionIds) \ Skippable : Born(id)[1] # 6
  BY DEF Born, TokenIds, SessionIds, Skippable
<1>5. ASSUME NEW r, NEW id \in {"30", "31", "32"}, Born(id) = << 6, r, 1 >>
      PROVE  Planned(Curve(id), 6, r)
  <2> DEFINE q == Curve(id)
  <2>1. Len(q) = 8 /\ DOMAIN q = 1 .. 8
    BY DEF Curve
  <2>2. /\ q[1] = Create({}, Pair(id), Skip) /\ q[2] = Query({H("hPub", id)}, Ignore)
        /\ q[3] = Begin("sign", {H("hPriv", id)}, Skip) /\ q[4] = Finish("sign", Fail)
        /\ q[5] = Begin("verify", {H("hPub", id)}, Fail) /\ q[6] = Finish("verify", Fail)
        /\ q[7] = Destroy(H("hPriv", id)) /\ q[8] = Destroy(H("hPub", id))
    BY DEF Curve
  <2> HIDE DEF q
  <2>3. \A k \in DOMAIN q : q[k].kind \in {"query", "begin", "finish", "destroy", "create"}
                            /\ (q[k].kind = "create" <=> k = 1) /\ (q[k].kind = "destroy" <=> k \in 7 .. 8)
                            /\ q[k].uses \subseteq Pair(id) /\ (k # 1 => q[k].makes = {})
    BY <2>1, <2>2 DEF Call, Query, Create, Begin, Finish, Export, Compare, Destroy, H, Pair,
         Check, Fail, Skip, Leave, Ignore
  <2>4. q[1].makes = Pair(id) /\ q[1].uses = {} /\ q[1].onfail.to = "end"
    BY <2>2 DEF Create, Call, Skip
  <2>5. RoundCounts(q, {}, {})
    <3>1. \A k \in DOMAIN q : k # 1 => \A h \in q[k].uses : MadeBefore(q, k, h)
      BY <2>1, <2>3, <2>4 DEF MadeBefore
    <3>2. \A k \in 7 .. 8 : Closing(q, k)
      BY <2>1, <2>3 DEF Closing
    <3> QED
      BY <2>1, <2>3, <2>4, <3>1, <3>2 DEF RoundCounts
  <2>6. RoundPlans(q, 6, r)
    <3>1. \A h \in Pair(id) : h.id = id
      BY DEF Pair, H
    <3>2. id \in Skippable
      BY DEF Skippable
    <3>3. \A k \in DOMAIN q : q[k].kind = "begin" => q[k].op # "find"
      BY <2>1, <2>2 DEF Call, Query, Create, Begin, Finish, Export, Compare, Destroy, H, Pair,
         Check, Fail, Skip, Leave, Ignore
    <3> QED
      BY <1>4, <1>5, <2>3, <2>4, <3>1, <3>2, <3>3 DEF RoundPlans
  <2> QED
    BY <1>3, <2>5, <2>6 DEF Planned, q
<1>6. Planned(run_ecc[1], 6, 1) /\ Planned(run_ecc[2], 6, 2) /\ Planned(run_ecc[3], 6, 3)
  BY <1>1, <1>2, <1>5
<1>7. Planned(run_ecc[4], 6, 4)
  BY <1>1, <1>3, NothingPlanned
<1> QED
  BY <1>6, <1>7


(* A last round, which only destroys. *)
LEMMA LastPlanned ==
    ASSUME NEW q, NEW s, NEW r, Kept(s, r + 1) = {}, Len(q) \in Nat, DOMAIN q = 1 .. Len(q),
           \A k \in DOMAIN q : \E h : q[k] = Destroy(h)
    PROVE  Planned(q, s, r)
<1>1. \A k \in DOMAIN q : q[k].kind = "destroy" /\ q[k].makes = {} /\ q[k].onfail = Ignore
  BY DEF Destroy, Call
<1>2. \A k \in DOMAIN q : Closing(q, k)
  BY <1>1 DEF Closing
<1>3. RoundCounts(q, Kept(s, r), Kept(s, r + 1))
  BY <1>1, <1>2 DEF RoundCounts, Ignore
<1>4. RoundPlans(q, s, r)
  BY <1>1 DEF RoundPlans
<1> QED
  BY <1>3, <1>4 DEF Planned

LEMMA RsaPlanned == \A r \in 1 .. 2 : Planned(run_rsa[r], 7, r)
<1> DEFINE q    == run_rsa[1]
           last == run_rsa[2]
<1>1. /\ Len(last) = 2 /\ DOMAIN last = 1 .. 2
      /\ last[1] = Destroy(H("hPriv", "40")) /\ last[2] = Destroy(H("hPub", "40"))
  BY DEF run_rsa
<1>2. /\ Len(q) = 10 /\ DOMAIN q = 1 .. 10
      /\ q[1] = Create({}, Pair("40"), Check) /\ q[2] = Query({H("hPub", "40")}, Ignore)
      /\ q[3] = Begin("sign", {H("hPriv", "40")}, Check) /\ q[4] = Finish("sign", Check)
      /\ q[5] = Begin("verify", {H("hPub", "40")}, Check) /\ q[6] = Finish("verify", Check)
      /\ q[7] = Begin("sign", {H("hPriv", "40")}, Leave) /\ q[8] = Finish("sign", Check)
      /\ q[9] = Begin("verify", {H("hPub", "40")}, Check) /\ q[10] = Finish("verify", Check)
  BY DEF run_rsa
<1> HIDE DEF q, last
<1>3. \A k \in DOMAIN q : /\ q[k].kind \in {"query", "begin", "finish", "create"}
                          /\ q[k].kind = "create" <=> k = 1
                          /\ q[k].kind = "begin" => q[k].op # "find"
                          /\ q[k].uses \subseteq Pair("40") /\ (k # 1 => q[k].makes = {})
                          /\ q[k].onfail.to # "end"
  BY <1>2 DEF Call, Query, Create, Begin, Finish, Export, Compare, Destroy, H, Pair,
         Check, Fail, Skip, Leave, Ignore
<1>4. q[1].makes = Pair("40") /\ q[1].uses = {} /\ q[1].onfail = Check
  BY <1>2 DEF Create, Call
<1>5. RoundCounts(q, {}, {})
  <2>1. \A k \in DOMAIN q : k # 1 => \A h \in q[k].uses : MadeBefore(q, k, h)
    BY <1>2, <1>3, <1>4 DEF MadeBefore
  <2> QED
    BY <1>3, <1>4, <2>1 DEF RoundCounts, Check
<1>6. RoundPlans(q, 7, 1)
  <2>1. \A h \in Pair("40") : Born(h.id) = << 7, 1, 1 >>
    BY DEF Pair, H, Born
  <2> QED
    BY <1>3, <1>4, <2>1 DEF RoundPlans, Check
<1>7. \A r : Kept(7, r) = {}
  BY DEF Kept
<1>8. Planned(q, 7, 1)
  BY <1>5, <1>6, <1>7 DEF Planned
<1>9. Planned(last, 7, 2)
  BY <1>1, <1>7, LastPlanned
<1> QED
  BY <1>8, <1>9 DEF q, last

LEMMA EcdhDerivePlanned == \A r \in 1 .. 2 : Planned(run_ecdh_derive[r], 8, r)
<1> DEFINE q    == run_ecdh_derive[1]
           last == run_ecdh_derive[2]
<1>1. /\ Len(last) = 6 /\ DOMAIN last = 1 .. 6
      /\ last[1] = Destroy(H("hShared2", "S2")) /\ last[2] = Destroy(H("hShared1", "S1"))
      /\ last[3] = Destroy(H("hPriv", "71")) /\ last[4] = Destroy(H("hPub", "71"))
      /\ last[5] = Destroy(H("hPriv", "70")) /\ last[6] = Destroy(H("hPub", "70"))
  BY DEF run_ecdh_derive
<1>2. /\ Len(q) = 9 /\ DOMAIN q = 1 .. 9
      /\ q[1] = Create({}, alice, Check) /\ q[2] = Create({}, bob, Check)
      /\ q[3] = Query({H("hPub", "71")}, Check) /\ q[4] = Query({H("hPub", "70")}, Check)
      /\ q[5] = Create({H("hPriv", "70")}, {H("hShared1", "S1")}, Leave)
      /\ q[6] = Call("export", "alice", {H("hShared1", "S1")}, {}, Ignore)
      /\ q[7] = Create({H("hPriv", "71")}, {H("hShared2", "S2")}, Leave)
      /\ q[8] = Export("bob", {H("hShared2", "S2")})
      /\ q[9] = Compare("secret", Ignore)
  BY DEF run_ecdh_derive, Export, Call
<1> HIDE DEF q, last
<1>3. \A k \in DOMAIN q : /\ q[k].kind \in {"query", "create", "export", "compare"}
                          /\ q[k].kind = "create" <=> k \in {1, 2, 5, 7}
                          /\ q[k].kind = "compare" <=> k = 9
  BY <1>2 DEF Call, Query, Create, Begin, Finish, Export, Compare, Destroy, H, Pair,
         Check, Fail, Skip, Leave, Ignore
<1>4. /\ q[1].makes = alice /\ q[2].makes = bob
      /\ q[5].makes = {H("hShared1", "S1")} /\ q[7].makes = {H("hShared2", "S2")}
      /\ q[1].onfail = Check /\ q[2].onfail = Check /\ q[5].onfail = Leave /\ q[7].onfail = Leave
  BY <1>2 DEF Create, Call
<1>5. RoundCounts(q, {}, {})
  <2>1. /\ q[1].uses = {} /\ q[2].uses = {} /\ q[9].uses = {}
        /\ q[3].uses = {H("hPub", "71")} /\ q[4].uses = {H("hPub", "70")}
        /\ q[5].uses = {H("hPriv", "70")} /\ q[6].uses = {H("hShared1", "S1")}
        /\ q[7].uses = {H("hPriv", "71")} /\ q[8].uses = {H("hShared2", "S2")}
    BY <1>2 DEF Create, Query, Export, Compare, Call
  <2>2. /\ MadeBefore(q, 3, H("hPub", "71")) /\ MadeBefore(q, 4, H("hPub", "70"))
        /\ MadeBefore(q, 5, H("hPriv", "70"))
    BY <1>4 DEF MadeBefore, alice, bob, Pair
  <2>3. /\ MadeBefore(q, 6, H("hShared1", "S1")) /\ MadeBefore(q, 7, H("hPriv", "71"))
        /\ MadeBefore(q, 8, H("hShared2", "S2"))
    BY <1>4 DEF MadeBefore, alice, bob, Pair
  <2>4. ASSUME NEW k \in DOMAIN q, NEW h \in q[k].uses PROVE MadeBefore(q, k, h)
    <3>1. k \in {1, 2, 9} \/ k \in {3, 4, 5} \/ k \in {6, 7, 8}
      BY <1>2
    <3>2. k \notin {1, 2, 9}
      BY <2>1, <2>4
    <3>3. CASE k \in {3, 4, 5}
      BY <2>1, <2>2, <2>4, <3>3
    <3>4. CASE k \in {6, 7, 8}
      BY <2>1, <2>3, <2>4, <3>4
    <3> QED
      BY <3>1, <3>2, <3>3, <3>4
  <2>5. \A k \in {3, 4, 6, 8, 9} : q[k].makes = {}
    BY <1>2 DEF Query, Export, Compare, Call
  <2>6. \A k \in {1, 2, 5, 7} : q[k].onfail.to = "cleanup"
    BY <1>4 DEF Check, Leave
  <2> QED
    BY <1>2, <1>3, <2>4, <2>5, <2>6 DEF RoundCounts
<1>6. RoundPlans(q, 8, 1)
  <2>1. \A k \in {1, 2, 5, 7} : \A h \in q[k].makes : Born(h.id) = << 8, 1, k >>
    BY <1>4 DEF alice, bob, Pair, H, Born
  <2>2. \A k \in {5, 7} : \A h \in q[k].makes : h.id \in SessionIds
    BY <1>4 DEF H, SessionIds
  <2>3. q[1].onfail.rc = 1 /\ q[2].onfail.rc = 1 /\ q[9].onfail.to = "on"
    BY <1>2, <1>4 DEF Check, Compare, Ignore, Call
  <2>4. \A o \in Compared(q[9].op) : Yields(q, 9, o)
    <3>1. q[9].op = "secret" /\ Compared("secret") = {"alice", "bob"}
      BY <1>2 DEF Compare, Call, Compared
    <3>2. Gives(q[6], "alice") /\ Gives(q[8], "bob")
      BY <1>2 DEF Gives, Export, Call
    <3>3. \A i \in 7 .. 8 : ~Takes(q[i], "alice")
      BY <1>2, <1>3 DEF Takes
    <3>4. Yields(q, 9, "alice")
      <4>1. 6 \in 1 .. 9 - 1 /\ \A i \in 6 + 1 .. 9 - 1 : i \in 7 .. 8
        OBVIOUS
      <4> QED
        BY <3>2, <3>3, <4>1 DEF Yields
    <3>5. Yields(q, 9, "bob")
      <4>1. 8 \in 1 .. 9 - 1 /\ \A i \in 8 + 1 .. 9 - 1 : FALSE
        OBVIOUS
      <4> QED
        BY <3>2, <4>1 DEF Yields
    <3> QED
      BY <3>1, <3>4, <3>5
  <2> QED
    BY <1>2, <1>3, <2>1, <2>2, <2>3, <2>4 DEF RoundPlans
<1>7. \A r : Kept(8, r) = {}
  BY DEF Kept
<1>8. Planned(q, 8, 1)
  BY <1>5, <1>6, <1>7 DEF Planned
<1>9. Planned(last, 8, 2)
  BY <1>1, <1>7, LastPlanned
<1> QED
  BY <1>8, <1>9 DEF q, last

(* The first round of a function that makes one key for the others. *)
LEMMA KeyPlanned ==
    ASSUME NEW h, NEW s, Kept(s, 1) = {}, Kept(s, 2) = {h}, Born(h.id) = << s, 1, 1 >>
    PROVE  Planned(<< Create({}, {h}, Check) >>, s, 1)
<1> DEFINE q == << Create({}, {h}, Check) >>
<1>1. Len(q) = 1 /\ DOMAIN q = 1 .. 1 /\ q[1] = Create({}, {h}, Check)
  OBVIOUS
<1> HIDE DEF q
<1>2. RoundCounts(q, {}, {h})
  BY <1>1 DEF RoundCounts, MadeBefore, Create, Call, Check
<1>3. RoundPlans(q, s, 1)
  BY <1>1 DEF RoundPlans, Create, Call, Check
<1> QED
  BY <1>2, <1>3 DEF Planned, q

LEMMA HmacPlanned == \A r \in 1 .. 6 : Planned(run_hmac[r], 9, r)
<1> DEFINE key  == H("hKey", "60")
           alg  == << Begin("sign", {key}, Skip), Finish("sign", Check),
                      Begin("verify", {key}, Check), Finish("verify", Check) >>
           last == << Destroy(key) >>
<1>1. /\ run_hmac[1] = << Create({}, {key}, Check) >>
      /\ run_hmac[2] = alg /\ run_hmac[3] = alg /\ run_hmac[4] = alg /\ run_hmac[5] = alg
      /\ run_hmac[6] = last
  BY DEF run_hmac
<1>2. /\ Len(alg) = 4 /\ DOMAIN alg = 1 .. 4
      /\ alg[1] = Begin("sign", {key}, Skip) /\ alg[2] = Finish("sign", Check)
      /\ alg[3] = Begin("verify", {key}, Check) /\ alg[4] = Finish("verify", Check)
  OBVIOUS
<1>3. Len(last) = 1 /\ DOMAIN last = 1 .. 1 /\ last[1] = Destroy(key)
  OBVIOUS
<1>4. key.id = "60"
  BY DEF H
<1> HIDE DEF alg, last, key
<1>5. \A k \in DOMAIN alg : /\ alg[k].kind \in {"begin", "finish"} /\ alg[k].op # "find"
                            /\ alg[k].uses \subseteq {key} /\ alg[k].makes = {}
  BY <1>2 DEF Call, Query, Create, Begin, Finish, Export, Compare, Destroy, H, Pair,
         Check, Fail, Skip, Leave, Ignore
<1>6. \A out \in {{}, {key}} : RoundCounts(alg, {key}, out)
  BY <1>5 DEF RoundCounts
<1>7. \A r : RoundPlans(alg, 9, r)
  BY <1>5 DEF RoundPlans
<1>8. /\ \A r \in 2 .. 5 : Kept(9, r) = {key}
      /\ Kept(9, 1) = {} /\ Kept(9, 6) = {} /\ Kept(9, 6 + 1) = {}
  BY DEF Kept, key
<1>9. \A r \in 2 .. 5 : Planned(alg, 9, r)
  <2> TAKE r \in 2 .. 5
  <2>1. r + 1 \in 2 .. 5 \/ r + 1 = 6
    OBVIOUS
  <2>2. Kept(9, r) = {key} /\ Kept(9, r + 1) \in {{}, {key}}
    BY <1>8, <2>1
  <2> QED
    BY <1>6, <1>7, <2>2 DEF Planned
<1>10. Planned(run_hmac[1], 9, 1)
  <2>1. Born(key.id) = << 9, 1, 1 >>
    BY <1>4 DEF Born
  <2>2. Kept(9, 2) = {key}
    BY <1>8
  <2> QED
    BY <1>1, <1>8, <2>1, <2>2, KeyPlanned
<1>11. Planned(last, 9, 6)
  BY <1>3, <1>8, LastPlanned
<1> QED
  BY <1>1, <1>9, <1>10, <1>11

LEMMA EncryptDecryptPlanned == \A r \in 1 .. 6 : Planned(run_encrypt_decrypt[r], 10, r)
<1> DEFINE aes  == H("hAes", "50")
           trip == << Begin("encrypt", {aes}, Check), Finish("encrypt", Check),
                      Begin("decrypt", {aes}, Check), Finish("decrypt", Check),
                      Compare("ct", Check) >>
           rsa  == run_encrypt_decrypt[5]
           last == << Destroy(aes) >>
<1>1. /\ run_encrypt_decrypt[1] = << Create({}, {aes}, Check) >>
      /\ run_encrypt_decrypt[2] = trip /\ run_encrypt_decrypt[3] = trip
      /\ run_encrypt_decrypt[4] = last /\ run_encrypt_decrypt[6] = last
  BY DEF run_encrypt_decrypt
<1>2. /\ Len(trip) = 5 /\ DOMAIN trip = 1 .. 5
      /\ trip[1] = Begin("encrypt", {aes}, Check) /\ trip[2] = Finish("encrypt", Check)
      /\ trip[3] = Begin("decrypt", {aes}, Check) /\ trip[4] = Finish("decrypt", Check)
      /\ trip[5] = Compare("ct", Check)
  OBVIOUS
<1>3. Len(last) = 1 /\ DOMAIN last = 1 .. 1 /\ last[1] = Destroy(aes)
  OBVIOUS
<1>4. /\ Len(rsa) = 8 /\ DOMAIN rsa = 1 .. 8
      /\ rsa[1] = Create({}, Pair("51"), Leave)
      /\ rsa[2] = Begin("encrypt", {H("hPub", "51")}, Skip)
      /\ rsa[3] = Finish("encrypt", Fail)
      /\ rsa[4] = Begin("decrypt", {H("hPriv", "51")}, Fail)
      /\ rsa[5] = Finish("decrypt", Fail) /\ rsa[6] = Compare("ct", Fail)
      /\ rsa[7] = Destroy(H("hPriv", "51")) /\ rsa[8] = Destroy(H("hPub", "51"))
  BY DEF run_encrypt_decrypt
<1>5. aes.id = "50"
  BY DEF H
<1> HIDE DEF aes, trip, rsa, last
<1>6. /\ \A r \in 2 .. 3 : Kept(10, r) = {aes}
      /\ \A r : r \notin 2 .. 3 => Kept(10, r) = {}
  BY DEF Kept, aes
<1>7. ASSUME NEW out \in {{}, {aes}}, NEW r
      PROVE  RoundCounts(trip, {aes}, out) /\ RoundPlans(trip, 10, r)
  <2>1. \A k \in DOMAIN trip : /\ trip[k].kind \in {"begin", "finish", "compare"} /\ trip[k].op # "find"
                               /\ trip[k].uses \subseteq {aes} /\ trip[k].makes = {}
                               /\ trip[k].onfail = Check /\ (trip[k].kind = "compare" <=> k = 5)
    BY <1>2 DEF Call, Query, Create, Begin, Finish, Export, Compare, Destroy, H, Pair,
         Check, Fail, Skip, Leave, Ignore
  <2>2. RoundCounts(trip, {aes}, out)
    BY <2>1 DEF RoundCounts
  <2>3. trip[5].op = "ct" /\ Compared("ct") = {"ct"}
    BY <1>2 DEF Compare, Call, Compared
  <2>4. Gives(trip[2], "ct") /\ \A i \in 3 .. 4 : ~Takes(trip[i], "ct")
    <3>1. Gives(trip[2], "ct")
      BY <1>2 DEF Gives, Produced, Finish, Call
    <3>2. ~Takes(trip[3], "ct") /\ ~Takes(trip[4], "ct")
      BY <1>2 DEF Takes, Confirmed, Begin, Finish, Call
    <3> QED
      BY <3>1, <3>2
  <2>5. Yields(trip, 5, "ct")
    <3>1. 2 \in 1 .. 5 - 1 /\ \A i \in 2 + 1 .. 5 - 1 : i \in 3 .. 4
      OBVIOUS
    <3> QED
      BY <2>4, <3>1 DEF Yields
  <2>6. RoundPlans(trip, 10, r)
    BY <2>1, <2>3, <2>5 DEF RoundPlans, Check
  <2> QED
    BY <2>2, <2>6
<1>8. Planned(rsa, 10, 5)
  <2>1. \A k \in DOMAIN rsa :
            /\ rsa[k].kind \in {"begin", "finish", "compare", "destroy", "create"}
            /\ (rsa[k].kind = "create" <=> k = 1) /\ (rsa[k].kind = "destroy" <=> k \in 7 .. 8)
            /\ (rsa[k].kind = "compare" <=> k = 6)
            /\ rsa[k].op # "find" /\ (k # 1 => rsa[k].makes = {})
            /\ rsa[k].uses \subseteq Pair("51")
    BY <1>4 DEF Call, Query, Create, Begin, Finish, Export, Compare, Destroy, H, Pair,
         Check, Fail, Skip, Leave, Ignore
  <2>2. rsa[1].makes = Pair("51") /\ rsa[1].uses = {} /\ rsa[1].onfail = Leave
    BY <1>4 DEF Create, Call
  <2>3. RoundCounts(rsa, {}, {})
    <3>1. \A k \in DOMAIN rsa : k # 1 => \A h \in rsa[k].uses : MadeBefore(rsa, k, h)
      BY <1>4, <2>1, <2>2 DEF MadeBefore
    <3>2. \A k \in 7 .. 8 : Closing(rsa, k)
      BY <1>4, <2>1 DEF Closing
    <3> QED
      BY <1>4, <2>1, <2>2, <3>1, <3>2 DEF RoundCounts, Leave
  <2>4. rsa[6].op = "ct" /\ Compared("ct") = {"ct"} /\ rsa[6].onfail.rc = 1
    BY <1>4 DEF Compare, Call, Compared, Fail
  <2>5. Gives(rsa[3], "ct") /\ \A i \in 4 .. 5 : ~Takes(rsa[i], "ct")
    <3>1. Gives(rsa[3], "ct")
      BY <1>4 DEF Gives, Produced, Finish, Call
    <3>2. ~Takes(rsa[4], "ct") /\ ~Takes(rsa[5], "ct")
      BY <1>4 DEF Takes, Confirmed, Begin, Finish, Call
    <3> QED
      BY <3>1, <3>2
  <2>6. Yields(rsa, 6, "ct")
    <3>1. 3 \in 1 .. 6 - 1 /\ \A i \in 3 + 1 .. 6 - 1 : i \in 4 .. 5
      OBVIOUS
    <3> QED
      BY <2>5, <3>1 DEF Yields
  <2>7. RoundPlans(rsa, 10, 5)
    <3>1. \A h \in Pair("51") : h.id = "51"
      BY DEF Pair, H
    <3>2. "51" \in Skippable /\ Born("51") = << 10, 5, 1 >>
      BY DEF Skippable, Born
    <3>3. \A id \in (TokenIds \cup SessionIds) \ Skippable :
              Born(id)[1] = 10 => Behind(Born(id), 10, 5, 1)
      <4>1. \A id \in (TokenIds \cup SessionIds) \ Skippable : id = "50" \/ Born(id)[1] # 10
        BY DEF Born, TokenIds, SessionIds, Skippable
      <4>2. Born("50") = << 10, 1, 1 >>
        BY DEF Born
      <4>3. Behind(<< 10, 1, 1 >>, 10, 5, 1)
        BY DEF Behind
      <4> QED
        BY <4>1, <4>2, <4>3
    <3> QED
      BY <2>1, <2>2, <2>4, <2>6, <3>1, <3>2, <3>3 DEF RoundPlans
  <2> QED
    BY <1>6, <2>3, <2>7 DEF Planned
<1>9. Planned(trip, 10, 2) /\ Planned(trip, 10, 3)
  <2>1. Kept(10, 2) = {aes} /\ Kept(10, 2 + 1) = {aes} /\ Kept(10, 3) = {aes} /\ Kept(10, 3 + 1) = {}
    BY <1>6
  <2> QED
    BY <1>7, <2>1 DEF Planned
<1>10. Planned(run_encrypt_decrypt[1], 10, 1)
  <2>1. Born(aes.id) = << 10, 1, 1 >>
    BY <1>5 DEF Born
  <2>2. Kept(10, 2) = {aes} /\ Kept(10, 1) = {}
    BY <1>6
  <2> QED
    BY <1>1, <2>1, <2>2, KeyPlanned
<1>11. Planned(last, 10, 4) /\ Planned(last, 10, 6)
  <2>1. Kept(10, 4 + 1) = {} /\ Kept(10, 6 + 1) = {}
    BY <1>6
  <2> QED
    BY <1>3, <2>1, LastPlanned
<1> QED
  BY <1>1, <1>8, <1>9, <1>10, <1>11 DEF rsa

(* Every round of every function is planned like this, and a function      *)
(* begins and ends without a handle.                                       *)
LEMMA ScriptsPlanned ==
    ASSUME NEW s \in DOMAIN Demos
    PROVE  /\ \A r \in DOMAIN Demos[s] : Planned(Demos[s][r], s, r)
           /\ Kept(s, 1) = {} /\ Kept(s, Len(Demos[s]) + 1) = {}
<1>1. /\ Demos[1] = run_module_info /\ Demos[2] = run_random_gen /\ Demos[3] = run_digest
      /\ Demos[4] = run_sym_key_gen /\ Demos[5] = run_import_object /\ Demos[6] = run_ecc
      /\ Demos[7] = run_rsa /\ Demos[8] = run_ecdh_derive /\ Demos[9] = run_hmac
      /\ Demos[10] = run_encrypt_decrypt
  BY DEF Demos
<1>2. /\ DOMAIN run_module_info = 1 .. 2 /\ DOMAIN run_random_gen = 1 .. 8
      /\ DOMAIN run_digest = 1 .. 6 /\ DOMAIN run_sym_key_gen = 1 .. 5
      /\ DOMAIN run_import_object = 1 .. 4 /\ DOMAIN run_ecc = 1 .. 4 /\ DOMAIN run_rsa = 1 .. 2
  BY DEF run_module_info, run_random_gen, run_digest, run_sym_key_gen, run_import_object,
         run_ecc, run_rsa
<1>3. /\ DOMAIN run_ecdh_derive = 1 .. 2 /\ DOMAIN run_hmac = 1 .. 6
      /\ DOMAIN run_encrypt_decrypt = 1 .. 6
      /\ Len(run_hmac) = 6 /\ Len(run_encrypt_decrypt) = 6
  BY DEF run_ecdh_derive, run_hmac, run_encrypt_decrypt
<1>4. s \in 1 .. 10
  BY TenDemos
<1>5. Kept(s, 1) = {} /\ Kept(s, Len(Demos[s]) + 1) = {}
  <2>1. CASE s \in 9 .. 10
    <3>1. s = 9 \/ s = 10
      BY <2>1
    <3>2. Len(Demos[9]) = 6 /\ Len(Demos[10]) = 6
      BY <1>1, <1>3
    <3> DEFINE n == Len(Demos[s])
    <3>3. n = 6
      BY <3>1, <3>2
    <3> HIDE DEF n
    <3>4. Kept(s, n + 1) = {}
      BY <3>1, <3>3 DEF Kept
    <3> QED
      BY <3>1, <3>4 DEF Kept, n
  <2>2. CASE s \notin 9 .. 10
    BY <2>2 DEF Kept
  <2> QED
    BY <2>1, <2>2
<1>6. CASE s \in 1 .. 5
  <2>1. \A r \in DOMAIN Demos[s] : Planned(Demos[s][r], s, r)
    BY <1>1, <1>2, <1>6, ModuleInfoPlanned, RandomGenPlanned, DigestPlanned, SymKeyGenPlanned,
       ImportObjectPlanned
  <2> QED
    BY <1>5, <2>1
<1>7. CASE s \in 6 .. 10
  <2>1. \A r \in DOMAIN Demos[s] : Planned(Demos[s][r], s, r)
    BY <1>1, <1>2, <1>3, <1>7, EccPlanned, RsaPlanned, EcdhDerivePlanned, HmacPlanned,
       EncryptDecryptPlanned
  <2> QED
    BY <1>5, <2>1
<1> QED
  BY <1>4, <1>6, <1>7

(* The call k of round r of the function d makes the object of id.         *)
Makes(d, r, k, id) ==
    /\ r \in DOMAIN d /\ k \in DOMAIN d[r] /\ d[r][k].kind = "create"
    /\ \E h \in d[r][k].makes : h.id = id

LEMMA MakesOne ==
    ASSUME NEW d, NEW r \in DOMAIN d, NEW k \in DOMAIN d[r], NEW uses, NEW var, NEW id, NEW onfail,
           d[r][k] = Create(uses, {H(var, id)}, onfail)
    PROVE  Makes(d, r, k, id)
<1>1. d[r][k].makes = {H(var, id)} /\ d[r][k].kind = "create"
  BY DEF Create, Call
<1>2. H(var, id).id = id
  BY DEF H
<1> QED
  BY <1>1, <1>2 DEF Makes

LEMMA MakesPair ==
    ASSUME NEW d, NEW r \in DOMAIN d, NEW k \in DOMAIN d[r], NEW uses, NEW id, NEW onfail,
           d[r][k] = Create(uses, Pair(id), onfail)
    PROVE  Makes(d, r, k, id)
<1>1. H("hPub", id) \in d[r][k].makes /\ d[r][k].kind = "create"
  BY DEF Create, Call, Pair
<1>2. H("hPub", id).id = id
  BY DEF H
<1> QED
  BY <1>1, <1>2 DEF Makes

(* At the place where an identifier is born its object is made. *)
LEMMA BirthPlace ==
    ASSUME NEW id \in TokenIds \cup SessionIds, NEW s \in DOMAIN Demos,
           NEW r, NEW k, Born(id) = << s, r, k >>
    PROVE  Makes(Demos[s], r, k, id)
<1>1. /\ Demos[4] = run_sym_key_gen /\ Demos[5] = run_import_object /\ Demos[6] = run_ecc
      /\ Demos[7] = run_rsa /\ Demos[8] = run_ecdh_derive /\ Demos[9] = run_hmac
      /\ Demos[10] = run_encrypt_decrypt
  BY DEF Demos
<1>2. /\ Makes(run_sym_key_gen, 1, 1, "B0") /\ Makes(run_sym_key_gen, 2, 1, "B1")
      /\ Makes(run_sym_key_gen, 3, 1, "B2") /\ Makes(run_sym_key_gen, 4, 1, "B3")
  <2>1. /\ {1, 2, 3, 4} \subseteq DOMAIN run_sym_key_gen
        /\ 1 \in DOMAIN run_sym_key_gen[1] /\ 1 \in DOMAIN run_sym_key_gen[2]
        /\ 1 \in DOMAIN run_sym_key_gen[3] /\ 1 \in DOMAIN run_sym_key_gen[4]
    BY DEF run_sym_key_gen, Brief
  <2>2. /\ run_sym_key_gen[1][1] = Create({}, {H("hKey", "B0")}, Check)
        /\ run_sym_key_gen[2][1] = Create({}, {H("hKey", "B1")}, Check)
        /\ run_sym_key_gen[3][1] = Create({}, {H("hKey", "B2")}, Check)
        /\ run_sym_key_gen[4][1] = Create({}, {H("hKey", "B3")}, Check)
    BY DEF run_sym_key_gen, Brief
  <2>3. Makes(run_sym_key_gen, 1, 1, "B0") /\ Makes(run_sym_key_gen, 2, 1, "B1")
    BY <2>1, <2>2, MakesOne
  <2>4. Makes(run_sym_key_gen, 3, 1, "B2") /\ Makes(run_sym_key_gen, 4, 1, "B3")
    BY <2>1, <2>2, MakesOne
  <2> QED
    BY <2>3, <2>4
<1>3. /\ Makes(run_import_object, 1, 1, "82") /\ Makes(run_import_object, 2, 1, "83")
      /\ Makes(run_import_object, 3, 1, "80")
  <2>1. /\ {1, 2, 3} \subseteq DOMAIN run_import_object
        /\ 1 \in DOMAIN run_import_object[1] /\ 1 \in DOMAIN run_import_object[2]
        /\ 1 \in DOMAIN run_import_object[3]
    BY DEF run_import_object, Brief
  <2>2. /\ run_import_object[1][1] = Create({}, {H("hKey", "82")}, Check)
        /\ run_import_object[2][1] = Create({}, {H("hKey", "83")}, Check)
        /\ run_import_object[3][1] = Create({}, {H("hPub", "80")}, Check)
    BY DEF run_import_object, Brief
  <2>3. Makes(run_import_object, 1, 1, "82") /\ Makes(run_import_object, 2, 1, "83")
    BY <2>1, <2>2, MakesOne
  <2>4. Makes(run_import_object, 3, 1, "80")
    BY <2>1, <2>2, MakesOne
  <2> QED
    BY <2>3, <2>4
<1>4. /\ Makes(run_ecc, 1, 1, "30") /\ Makes(run_ecc, 2, 1, "31") /\ Makes(run_ecc, 3, 1, "32")
  <2>1. /\ {1, 2, 3} \subseteq DOMAIN run_ecc
        /\ 1 \in DOMAIN run_ecc[1] /\ 1 \in DOMAIN run_ecc[2] /\ 1 \in DOMAIN run_ecc[3]
    BY DEF run_ecc, Curve
  <2>2. /\ run_ecc[1][1] = Create({}, Pair("30"), Skip)
        /\ run_ecc[2][1] = Create({}, Pair("31"), Skip)
        /\ run_ecc[3][1] = Create({}, Pair("32"), Skip)
    BY DEF run_ecc, Curve
  <2> QED
    BY <2>1, <2>2, MakesPair
<1>5. Makes(run_rsa, 1, 1, "40")
  <2>1. /\ 1 \in DOMAIN run_rsa /\ 1 \in DOMAIN run_rsa[1]
        /\ run_rsa[1][1] = Create({}, Pair("40"), Check)
    BY DEF run_rsa
  <2> QED
    BY <2>1, MakesPair
<1>6. /\ Makes(run_ecdh_derive, 1, 1, "70") /\ Makes(run_ecdh_derive, 1, 2, "71")
      /\ Makes(run_ecdh_derive, 1, 5, "S1") /\ Makes(run_ecdh_derive, 1, 7, "S2")
  <2>1. 1 \in DOMAIN run_ecdh_derive /\ {1, 2, 5, 7} \subseteq DOMAIN run_ecdh_derive[1]
    BY DEF run_ecdh_derive
  <2>2. /\ run_ecdh_derive[1][1] = Create({}, Pair("70"), Check)
        /\ run_ecdh_derive[1][2] = Create({}, Pair("71"), Check)
        /\ run_ecdh_derive[1][5] = Create({H("hPriv", "70")}, {H("hShared1", "S1")}, Leave)
        /\ run_ecdh_derive[1][7] = Create({H("hPriv", "71")}, {H("hShared2", "S2")}, Leave)
    BY DEF run_ecdh_derive, alice, bob
  <2>3. Makes(run_ecdh_derive, 1, 1, "70") /\ Makes(run_ecdh_derive, 1, 2, "71")
    BY <2>1, <2>2, MakesPair
  <2>4. Makes(run_ecdh_derive, 1, 5, "S1") /\ Makes(run_ecdh_derive, 1, 7, "S2")
    BY <2>1, <2>2, MakesOne
  <2> QED
    BY <2>3, <2>4
<1>7. Makes(run_hmac, 1, 1, "60")
  <2>1. /\ 1 \in DOMAIN run_hmac /\ 1 \in DOMAIN run_hmac[1]
        /\ run_hmac[1][1] = Create({}, {H("hKey", "60")}, Check)
    BY DEF run_hmac
  <2> QED
    BY <2>1, MakesOne
<1>8. Makes(run_encrypt_decrypt, 1, 1, "50") /\ Makes(run_encrypt_decrypt, 5, 1, "51")
  <2>1. /\ {1, 5} \subseteq DOMAIN run_encrypt_decrypt
        /\ 1 \in DOMAIN run_encrypt_decrypt[1] /\ 1 \in DOMAIN run_encrypt_decrypt[5]
        /\ run_encrypt_decrypt[1][1] = Create({}, {H("hAes", "50")}, Check)
        /\ run_encrypt_decrypt[5][1] = Create({}, Pair("51"), Leave)
    BY DEF run_encrypt_decrypt
  <2> QED
    BY <2>1, MakesOne, MakesPair
<1>9. CASE id \in {"B0", "B1", "B2", "B3"}
  BY <1>1, <1>2, <1>9 DEF Born
<1>10. CASE id \in {"82", "83", "80", "30", "31", "32"}
  BY <1>1, <1>3, <1>4, <1>10 DEF Born
<1>11. CASE id \in {"40", "70", "71", "S1", "S2"}
  BY <1>1, <1>5, <1>6, <1>11 DEF Born
<1>12. CASE id \in {"60", "50", "51"}
  BY <1>1, <1>7, <1>8, <1>12 DEF Born
<1> QED
  BY <1>9, <1>10, <1>11, <1>12 DEF TokenIds, SessionIds

Places == Nat \X Nat \X Nat

LEMMA BornSomewhere == \A id : Born(id) \in Places
BY DEF Born, Places

-----------------------------------------------------------------------------
(* What a function counts on from call to call. *)

LEMMA CountsNext ==
    ASSUME NEW q, NEW k \in DOMAIN q, NEW in, NEW out, NEW h,
           Len(q) \in Nat, DOMAIN q = 1 .. Len(q), RoundCounts(q, in, out),
           q[k].kind # "destroy", CountsOn(q, k + 1, in, out, h)
    PROVE  CountsOn(q, k, in, out, h) \/ h \in q[k].makes
<1>1. ~Closing(q, k)
  BY DEF Closing
<1>2. \A n : h \in q[n].makes /\ n \in DOMAIN q /\ n <= k => h \in q[k].makes \/ MadeBefore(q, k, h)
  BY DEF MadeBefore
<1>3. CASE Closing(q, k + 1)
  <2>1. h \in in \/ MadeBefore(q, Len(q) + 1, h)
    BY <1>3 DEF CountsOn, RoundCounts
  <2>2. ASSUME MadeBefore(q, Len(q) + 1, h)
        PROVE  h \in q[k].makes \/ MadeBefore(q, k, h)
    <3>1. PICK n \in 1 .. Len(q) : h \in q[n].makes
      BY <2>2 DEF MadeBefore
    <3>2. q[n].kind = "create"
      BY <3>1 DEF RoundCounts
    <3>3. ~(n \in k + 1 .. Len(q))
      BY <1>3, <3>2 DEF Closing
    <3>4. n <= k
      BY <3>1, <3>3
    <3> QED
      BY <1>2, <3>1, <3>4
  <2> QED
    BY <1>1, <2>1, <2>2 DEF CountsOn
<1>4. CASE ~Closing(q, k + 1)
  <2>1. h \in in \/ MadeBefore(q, k + 1, h)
    BY <1>4 DEF CountsOn
  <2>2. ASSUME MadeBefore(q, k + 1, h)
        PROVE  h \in q[k].makes \/ MadeBefore(q, k, h)
    <3>1. PICK n \in 1 .. k : h \in q[n].makes
      BY <2>2 DEF MadeBefore
    <3> QED
      BY <1>2, <3>1
  <2> QED
    BY <1>1, <2>1, <2>2 DEF CountsOn
<1> QED
  BY <1>3, <1>4

(* A round begins with what it was given. *)
LEMMA CountsFirst ==
    ASSUME NEW q, NEW in, NEW out, NEW h,
           Len(q) \in Nat, DOMAIN q = 1 .. Len(q), RoundCounts(q, in, out),
           CountsOn(q, 1, in, out, h)
    PROVE  h \in in
<1>1. CASE Closing(q, 1)
  <2>1. h \in in \/ MadeBefore(q, Len(q) + 1, h)
    BY <1>1 DEF CountsOn, RoundCounts
  <2>2. ~MadeBefore(q, Len(q) + 1, h)
    BY <1>1 DEF MadeBefore, Closing, RoundCounts
  <2> QED
    BY <2>1, <2>2
<1>2. CASE ~Closing(q, 1)
  BY <1>2 DEF CountsOn, MadeBefore
<1> QED
  BY <1>1, <1>2

(* The plan of the round in which the suite is. *)
LEMMA PlanHere ==
    ASSUME Typed, at = "demos", NEW r \in DOMAIN Script
    PROVE  /\ Planned(Script[r], stage, r)
           /\ Len(Script[r]) \in Nat /\ DOMAIN Script[r] = 1 .. Len(Script[r])
<1>1. stage \in DOMAIN Demos /\ ScriptFits(Script)
  BY CurrentScript DEF Typed
<1> QED
  BY <1>1, ScriptsPlanned DEF Script, ScriptFits, RoundFits

-----------------------------------------------------------------------------
(* What a function counts on, followed through the steps. *)

(* What a call of a function does to its handles. *)
LEMMA CallKeeps ==
    ASSUME Typed, FunctionCall
    PROVE  /\ objects \subseteq objects' /\ held \subseteq held'
           /\ \/ Proceed /\ \A h \in Current.makes : h \in held' /\ h.id \in objects'
              \/ Refused
<1>1. CASE Make
  <2>1. /\ objects \subseteq objects' /\ held \subseteq held'
        /\ \/ /\ Proceed /\ held' = held \cup Current.makes
              /\ objects' = objects \cup Ids(Current.makes)
           \/ Refused
    BY <1>1 DEF Make
  <2> QED
    BY <2>1 DEF Ids
<1>2. CASE FunctionCall /\ ~Make
  <2>1. objects' = objects /\ held' = held /\ (Proceed \/ Refused) /\ Current.kind # "create"
    BY <1>2 DEF FunctionCall, At, Info, BeginOperation, FinishOperation, ExportSecret,
                CompareOutputs, token, locals
  <2>2. Planned(Round, stage, round) /\ pc \in DOMAIN Round
    BY Moves, PlanHere DEF Typed, Round
  <2>3. Current.makes = {}
    BY <2>1, <2>2 DEF Planned, RoundCounts, Current
  <2> QED
    BY <2>1, <2>3
<1> QED
  BY <1>1, <1>2 DEF FunctionCall

(* While a function counts on a handle, the handle is valid and its object *)
(* is there.                                                               *)
LiveInv ==
    at = "demos" /\ round \in DOMAIN Script =>
        \A h : CountsOn(Round, pc, Kept(stage, round), Kept(stage, round + 1), h)
                  => h \in held /\ h.id \in objects

LEMMA NothingAtFirst ==
    ASSUME NEW s \in DOMAIN Demos, NEW h
    PROVE  ~CountsOn(Demos[s][1], 1, Kept(s, 1), Kept(s, 1 + 1), h)
<1>1. Planned(Demos[s][1], s, 1) /\ Kept(s, 1) = {}
      /\ Len(Demos[s][1]) \in Nat /\ DOMAIN Demos[s][1] = 1 .. Len(Demos[s][1])
  BY ScriptsPlanned, ScriptsFit DEF ScriptFits, RoundFits
<1> QED
  BY <1>1, CountsFirst DEF Planned

LEMMA LiveStep ==
    ASSUME Typed, Typed', LiveInv, [Next]_vars
    PROVE  LiveInv'
<1> DEFINE in  == Kept(stage, round)
           out == Kept(stage, round + 1)
<1>1. CASE FunctionCall
  <2>1. /\ at = "demos" /\ at' = at /\ stage' = stage /\ round \in DOMAIN Script
        /\ pc \in DOMAIN Round /\ Current.kind # "destroy" /\ ScriptFits(Script)
    BY <1>1, Moves DEF Typed
  <2>2. /\ Planned(Round, stage, round) /\ Len(Round) \in Nat /\ DOMAIN Round = 1 .. Len(Round)
    BY <2>1, PlanHere DEF Round
  <2>3. RoundCounts(Round, in, out) /\ Script' = Script /\ Current = Round[pc]
    BY <2>1, <2>2 DEF Planned, Script, Current
  <2>4. objects \subseteq objects' /\ held \subseteq held'
    BY <1>1, CallKeeps
  <2>5. ASSUME NEW h, CountsOn(Round, pc, in, out, h)
        PROVE  h \in held' /\ h.id \in objects'
    BY <2>1, <2>4, <2>5 DEF LiveInv
  <2>6. ASSUME round' = round, pc' = pc + 1,
               \A h \in Current.makes : h \in held' /\ h.id \in objects'
        PROVE  LiveInv'
    <3>1. Round' = Round
      BY <2>3, <2>6 DEF Round
    <3>2. ASSUME NEW h, CountsOn(Round, pc + 1, in, out, h)
          PROVE  h \in held' /\ h.id \in objects'
      <4>1. CountsOn(Round, pc, in, out, h) \/ h \in Current.makes
        BY <2>1, <2>2, <2>3, <3>2, CountsNext
      <4> QED
        BY <2>5, <2>6, <4>1
    <3> QED
      BY <2>1, <2>6, <3>1, <3>2 DEF LiveInv
  <2>7. CASE Proceed /\ \A h \in Current.makes : h \in held' /\ h.id \in objects'
    BY <2>6, <2>7 DEF Proceed
  <2>8. CASE Refused /\ Current.onfail.to = "on"
    <3>1. Current.makes = {}
      BY <2>1, <2>3, <2>8 DEF RoundCounts
    <3> QED
      BY <2>6, <2>8, <3>1 DEF Refused
  <2>9. CASE Refused /\ Current.onfail.to = "end"
    <3> DEFINE e == RoundEnd
    <3>1. round' = round /\ pc' = e
      BY <2>9 DEF Refused
    <3>2. Closing(Round, e)
      BY <2>1, <2>2, RoundEndIs DEF Closing
    <3> HIDE DEF e
    <3>3. Round' = Round
      BY <2>3, <3>1 DEF Round
    <3>4. out \subseteq in
      BY <2>1, <2>3, <2>9 DEF RoundCounts
    <3>5. ~Closing(Round, pc)
      BY <2>1, <2>2, <2>3 DEF Closing
    <3>6. ASSUME NEW h, CountsOn(Round, e, in, out, h)
          PROVE  h \in held' /\ h.id \in objects'
      <4>1. CountsOn(Round, pc, in, out, h)
        BY <3>2, <3>4, <3>5, <3>6 DEF CountsOn
      <4> QED
        BY <2>5, <4>1
    <3> QED
      BY <2>1, <3>1, <3>3, <3>6 DEF LiveInv
  <2>10. CASE Refused /\ Current.onfail.to = "cleanup"
    <3> DEFINE n == Len(Script)
    <3>1. round' = n /\ pc' = 1 /\ Round' = Script[n]
      BY <2>3, <2>10 DEF Refused, Round
    <3>2. n \in DOMAIN Script /\ Kept(stage, n + 1) = {}
      BY <2>1, ScriptsPlanned, CurrentScript DEF ScriptFits, Script, Typed
    <3>3. Closing(Script[n], 1)
      <4>1. DOMAIN Script[n] = 1 .. Len(Script[n]) /\ \A k \in DOMAIN Script[n] : Script[n][k].kind = "destroy"
        BY <2>1, <3>2 DEF ScriptFits, RoundFits
      <4> QED
        BY <4>1 DEF Closing
    <3> HIDE DEF n
    <3>4. \A h, given : ~CountsOn(Script[n], 1, given, Kept(stage, n + 1), h)
      BY <3>2, <3>3 DEF CountsOn
    <3> QED
      BY <2>1, <3>1, <3>4 DEF LiveInv
  <2>11. Current.onfail.to \in {"on", "end", "cleanup"}
    BY <1>1, CurrentFits, Moves DEF CallFits, Typed
  <2> QED
    BY <1>1, <2>7, <2>8, <2>9, <2>10, <2>11, CallKeeps
<1>2. CASE DestroyObject
  <2>1. /\ at = "demos" /\ at' = at /\ stage' = stage /\ round \in DOMAIN Script
        /\ pc \in DOMAIN Round /\ Current.kind = "destroy" /\ round' = round /\ pc' = pc + 1
    BY <1>2, Moves DEF Typed, DestroyObject, Proceed
  <2>2. /\ Planned(Round, stage, round) /\ Len(Round) \in Nat /\ DOMAIN Round = 1 .. Len(Round)
    BY <2>1, PlanHere DEF Round
  <2>3. RoundCounts(Round, in, out) /\ Round' = Round /\ Current = Round[pc]
    BY <2>1, <2>2 DEF Planned, Round, Script, Current
  <2>4. Closing(Round, pc) /\ \A u \in Current.uses : \A g \in out : g.id # u.id
    BY <2>1, <2>3 DEF RoundCounts
  <2>5. Closing(Round, pc + 1)
    BY <2>1, <2>2, <2>4 DEF Closing
  <2>6. ASSUME NEW h \in out PROVE h \in held' /\ h.id \in objects'
    <3>1. h \in held /\ h.id \in objects
      BY <2>1, <2>4, <2>6 DEF LiveInv, CountsOn
    <3>2. PICK u \in Current.uses :
              IF u \notin held
              THEN UNCHANGED << objects, held >>
              ELSE held' = held \ {u} /\ (objects' = objects \ {u.id} \/ objects' = objects)
      BY <1>2 DEF DestroyObject
    <3>3. h.id # u.id
      BY <2>4, <2>6
    <3> QED
      BY <3>1, <3>2, <3>3
  <2>7. \A h : CountsOn(Round, pc + 1, in, out, h) => h \in out
    BY <2>5 DEF CountsOn
  <2> QED
    BY <2>1, <2>3, <2>6, <2>7 DEF LiveInv
<1>3. CASE NextRound
  <2>1. /\ at = "demos" /\ stage' = stage /\ round \in DOMAIN Script /\ pc = Len(Round) + 1
        /\ round' = round + 1 /\ pc' = 1 /\ held' = held /\ objects' = objects
    BY <1>3 DEF NextRound, token
  <2>2. Script' = Script /\ Len(Round) \in Nat
    BY <2>1, PlanHere DEF Script, Round
  <2>3. \A h \in out : h \in held /\ h.id \in objects
    <3>1. Closing(Round, pc)
      BY <2>1, <2>2 DEF Closing
    <3> QED
      BY <2>1, <3>1 DEF LiveInv, CountsOn
  <2>4. ASSUME round + 1 \in DOMAIN Script, NEW h,
               CountsOn(Script[round + 1], 1, out, Kept(stage, (round + 1) + 1), h)
        PROVE  h \in out
    <3> DEFINE r == round + 1
    <3>1. /\ Planned(Script[r], stage, r)
          /\ Len(Script[r]) \in Nat /\ DOMAIN Script[r] = 1 .. Len(Script[r])
      BY <2>1, <2>4, PlanHere
    <3> QED
      BY <2>4, <3>1, CountsFirst DEF Planned
  <2>5. Round' = Script[round + 1]
    BY <2>1, <2>2 DEF Round
  <2> QED
    BY <2>1, <2>2, <2>3, <2>4, <2>5 DEF LiveInv
<1>4. CASE Return \/ Approach
  <2>1. at' = "demos" => round' = 1 /\ pc' = 1 /\ stage' \in DOMAIN Demos
    <3>1. at' = "demos" => round' = 1 /\ pc' = 1
      BY <1>4, ApproachGoesOn DEF Return, Typed, Fresh
    <3>2. at' = "demos" => stage' \in DOMAIN Demos
      BY TenDemos DEF Typed, SuiteInv
    <3> QED
      BY <3>1, <3>2
  <2>2. Script' = Demos[stage'] /\ Round' = Script'[round']
    BY DEF Script, Round
  <2> QED
    BY <2>1, <2>2, NothingAtFirst DEF LiveInv
<1>5. CASE Ending \/ Launch \/ Kill
  BY <1>5, EndingGoesOn DEF Launch, Kill, LiveInv
<1>6. CASE UNCHANGED vars
  BY <1>6 DEF vars, LiveInv, Script, Round
<1> QED
  BY <1>1, <1>2, <1>3, <1>4, <1>5, <1>6
     DEF Next, DemoStep, MainStep, FunctionCall, Approach, Ending

LEMMA LiveAlways == Spec => []LiveInv
<1>1. Init => LiveInv
  BY DEF Init, LiveInv
<1> QED
  BY <1>1, TypedAlways, LiveStep, PTL DEF Spec

(* A function uses no handle that is invalid or whose object is gone: what *)
(* it counts on at a call covers what the call uses.                       *)
THEOREM LiveObjectsUsed == Spec => []UsesLiveObjects
<1>1. Typed /\ LiveInv => UsesLiveObjects
  <2> SUFFICES ASSUME Typed, LiveInv, NEW kind, kind # "destroy", At(kind), NEW h \in Current.uses
               PROVE  h \in held /\ h.id \in objects
    BY DEF UsesLiveObjects, Ids
  <2>1. /\ at = "demos" /\ round \in DOMAIN Script /\ pc \in DOMAIN Round /\ Current.kind # "destroy"
    BY DEF At
  <2>2. /\ Planned(Round, stage, round) /\ Len(Round) \in Nat /\ DOMAIN Round = 1 .. Len(Round)
    BY <2>1, PlanHere DEF Round
  <2>3. ~Closing(Round, pc)
    BY <2>1, <2>2 DEF Closing, Current
  <2>4. h \in Kept(stage, round) \/ MadeBefore(Round, pc, h)
    BY <2>1, <2>2 DEF Planned, RoundCounts, Current
  <2> QED
    BY <2>1, <2>3, <2>4 DEF LiveInv, CountsOn
<1> QED
  BY <1>1, TypedAlways, LiveAlways, PTL

-----------------------------------------------------------------------------
(* The order of the calls of a run. *)

(* A call leads onward: to a later call of the round or to a later round.  *)
LEMMA Onward ==
    ASSUME Typed, FunctionCall \/ DestroyObject
    PROVE  /\ stage \in Nat /\ round \in Nat /\ pc \in Nat /\ round' \in Nat /\ pc' \in Nat
           /\ stage' = stage
           /\ \/ round' = round /\ pc' > pc
              \/ round' > round
<1>1. /\ stage' = stage /\ ScriptFits(Script) /\ RoundFits(Round, Script[Len(Script)])
      /\ round \in DOMAIN Script /\ pc \in DOMAIN Round
      /\ FunctionCall => Current.kind # "destroy"
  BY Moves DEF Typed
<1>2. stage \in Nat
  BY DEF Typed, SuiteInv
<1>3. /\ DOMAIN Script = 1 .. Len(Script) /\ Len(Script) \in Nat
      /\ DOMAIN Round = 1 .. Len(Round) /\ Len(Round) \in Nat
  BY <1>1 DEF ScriptFits, RoundFits
<1>4. CASE round' = round /\ pc' = pc + 1
  BY <1>1, <1>2, <1>3, <1>4
<1>5. CASE FunctionCall /\ round' = round /\ pc' = RoundEnd
  <2>1. RoundEnd \in pc + 1 .. Len(Round) + 1
    BY <1>1, <1>3, <1>5, RoundEndIs
  <2> QED
    BY <1>1, <1>2, <1>3, <1>5, <2>1
<1>6. CASE FunctionCall /\ round' = Len(Script) /\ pc' = 1
  <2>1. round # Len(Script)
    BY <1>1, <1>6 DEF ScriptFits, Round, Current
  <2> QED
    BY <1>1, <1>2, <1>3, <1>6, <2>1
<1> QED
  BY <1>4, <1>5, <1>6, Moves DEF Typed, Refusal

(* What lies behind stays behind; so does the call that is made. *)
LEMMA StaysBehind ==
    ASSUME Typed, FunctionCall \/ DestroyObject, NEW p \in Places,
           Behind(p, stage, round, pc) \/ p = << stage, round, pc >>
    PROVE  Behind(p, stage', round', pc')
<1>1. p[1] \in Nat /\ p[2] \in Nat /\ p[3] \in Nat
  BY DEF Places
<1>2. CASE p = << stage, round, pc >>
  <2>1. p[1] = stage /\ p[2] = round /\ p[3] = pc
    BY <1>2
  <2> QED
    BY <2>1, Onward DEF Behind
<1>3. CASE Behind(p, stage, round, pc)
  BY <1>1, <1>3, Onward DEF Behind
<1> QED
  BY <1>2, <1>3

LEMMA TurnsBehind ==
    ASSUME Typed, NextRound \/ Return, NEW p \in Places, Behind(p, stage, round, pc)
    PROVE  Behind(p, stage', round', pc')
<1>1. p[1] \in Nat /\ p[2] \in Nat /\ p[3] \in Nat /\ stage \in Nat
  BY DEF Places, Typed, SuiteInv
<1>2. CASE NextRound
  <2>1. stage' = stage /\ round' = round + 1 /\ round \in DOMAIN Script /\ ScriptFits(Script)
    BY <1>2, CurrentScript DEF NextRound, Typed
  <2>2. round \in Nat
    BY <2>1 DEF ScriptFits
  <2> QED
    BY <1>1, <2>1, <2>2 DEF Behind
<1>3. CASE Return
  <2>1. stage' = stage + 1
    BY <1>3 DEF Return
  <2> QED
    BY <1>1, <2>1 DEF Behind
<1> QED
  BY <1>2, <1>3

(* What has been made or begun in this run stands behind the suite. *)
BirthInv ==
    at = "demos" => /\ \A id \in lost : Behind(Born(id), stage, round, pc)
                    /\ \A h \in held : Behind(Born(h.id), stage, round, pc)
                    /\ "find" \in active => Behind(<< 1, 1, 7 >>, stage, round, pc)

LEMMA BirthStep ==
    ASSUME Typed, BirthInv, [Next]_vars
    PROVE  BirthInv'
<1>0. << 1, 1, 7 >> \in Places
  BY DEF Places
<1>1. CASE FunctionCall \/ DestroyObject
  <2>1. /\ at = "demos" /\ at' = at /\ round \in DOMAIN Script /\ pc \in DOMAIN Round
        /\ Planned(Round, stage, round)
    BY <1>1, Moves, PlanHere DEF Typed, Round
  <2>2. RoundPlans(Round, stage, round) /\ Current = Round[pc]
    BY <2>1 DEF Planned, Current
  <2>3. ASSUME NEW id, Behind(Born(id), stage, round, pc)
        PROVE  Behind(Born(id), stage', round', pc')
    BY <1>1, <2>3, StaysBehind, BornSomewhere
  <2>4. ASSUME Make, NEW h \in Current.makes
        PROVE  Behind(Born(h.id), stage', round', pc')
    <3>1. Born(h.id) = << stage, round, pc >>
      BY <2>1, <2>2, <2>4 DEF RoundPlans, Make, At
    <3> QED
      BY <1>1, <3>1, StaysBehind, BornSomewhere
  <2>5. \A h \in held' : h \in held \/ (Make /\ h \in Current.makes)
    BY <1>1 DEF FunctionCall, DestroyObject, Info, Make, BeginOperation, FinishOperation,
                ExportSecret, CompareOutputs, locals
  <2>6. \A id \in lost' : \/ id \in lost
                          \/ Make /\ id \in Ids(Current.makes)
                          \/ id \in Ids(held)
    <3>1. CASE Make
      BY <3>1 DEF Make
    <3>2. CASE DestroyObject
      BY <3>2 DEF DestroyObject, Ids
    <3>3. CASE FunctionCall /\ ~Make
      BY <3>3 DEF FunctionCall, Info, BeginOperation, FinishOperation, ExportSecret, CompareOutputs
    <3> QED
      BY <1>1, <3>1, <3>2, <3>3
  <2>7. "find" \in active' => Behind(<< 1, 1, 7 >>, stage', round', pc')
    <3>1. CASE "find" \in active
      BY <1>0, <1>1, <2>1, <3>1, StaysBehind DEF BirthInv
    <3>2. CASE "find" \notin active /\ "find" \in active'
      <4>1. Current.kind = "begin" /\ Current.op = "find"
        BY <1>1, <3>2 DEF FunctionCall, DestroyObject, Info, Make, BeginOperation,
           FinishOperation, ExportSecret, CompareOutputs, token, At
      <4>2. << stage, round, pc >> = << 1, 1, 7 >>
        BY <2>1, <2>2, <4>1 DEF RoundPlans
      <4> QED
        BY <1>0, <1>1, <4>2, StaysBehind
    <3> QED
      BY <3>1, <3>2
  <2>8. \A h \in held' : Behind(Born(h.id), stage', round', pc')
    BY <2>1, <2>3, <2>4, <2>5 DEF BirthInv
  <2>9. \A id \in lost' : Behind(Born(id), stage', round', pc')
    BY <2>1, <2>3, <2>4, <2>6 DEF BirthInv, Ids
  <2> QED
    BY <2>7, <2>8, <2>9 DEF BirthInv
<1>2. CASE NextRound \/ Return
  <2>1. /\ at = "demos" /\ held' \subseteq held /\ lost' = lost /\ active' = active
    BY <1>2 DEF NextRound, Return, token
  <2>2. ASSUME NEW id, Behind(Born(id), stage, round, pc)
        PROVE  Behind(Born(id), stage', round', pc')
    BY <1>2, <2>2, TurnsBehind, BornSomewhere
  <2>3. "find" \in active' => Behind(<< 1, 1, 7 >>, stage', round', pc')
    BY <1>0, <1>2, <2>1, TurnsBehind DEF BirthInv
  <2> QED
    BY <2>1, <2>2, <2>3 DEF BirthInv
<1>3. CASE Approach
  <2>1. lost' = {} /\ held' = {} /\ active' = {}
    BY <1>3, ApproachGoesOn DEF Typed, Fresh
  <2> QED
    BY <2>1 DEF BirthInv
<1>4. CASE Ending \/ Launch \/ Kill
  BY <1>4, EndingGoesOn DEF Launch, Kill, BirthInv
<1>5. CASE UNCHANGED vars
  BY <1>5 DEF vars, BirthInv
<1> QED
  BY <1>1, <1>2, <1>3, <1>4, <1>5
     DEF Next, DemoStep, MainStep, FunctionCall, Approach, Ending

LEMMA BirthAlways == Spec => [](BirthInv /\ DebtInv)
<1>1. Init => BirthInv /\ DebtInv
  BY DEF Init, BirthInv, DebtInv
<1>2. Typed /\ BirthInv /\ DebtInv /\ [Next]_vars => BirthInv' /\ DebtInv'
  BY BirthStep, DebtStep
<1> QED
  BY <1>1, <1>2, TypedAlways, PTL DEF Spec

(* What the run has made so far was made at other places than the call     *)
(* that comes next, and under other identifiers.                           *)
LEMMA FreshIds == Typed /\ BirthInv /\ DebtInv => IdsAreFresh
<1> SUFFICES ASSUME Typed, BirthInv, DebtInv, At("create"), NEW h \in Current.makes,
                    h.id \in objects, h.id \notin before
             PROVE  FALSE
  BY DEF IdsAreFresh, Ids
<1>1. /\ at = "demos" /\ round \in DOMAIN Script /\ pc \in DOMAIN Round
      /\ Current.kind = "create" /\ Current = Round[pc]
  BY DEF At, Current
<1>2. Planned(Round, stage, round) /\ DOMAIN Round = 1 .. Len(Round)
  BY <1>1, PlanHere DEF Round
<1>3. Born(h.id) = << stage, round, pc >>
  BY <1>1, <1>2 DEF Planned, RoundPlans
<1>4. h.id \in lost \cup Ids(held)
  BY <1>1 DEF DebtInv
<1>5. Behind(<< stage, round, pc >>, stage, round, pc)
  BY <1>1, <1>3, <1>4 DEF BirthInv, Ids
<1>6. stage \in Nat /\ round \in Nat /\ pc \in Nat
  BY <1>1, <1>2, CurrentScript DEF Typed, SuiteInv, ScriptFits
<1> QED
  BY <1>5, <1>6 DEF Behind

(* No function finds an identifier taken by an earlier function of its     *)
(* run: only what an earlier run has left is in the way of a new object.   *)
THEOREM FreshIdentifiers == Spec => []IdsAreFresh
BY FreshIds, BirthAlways, TypedAlways, PTL

-----------------------------------------------------------------------------
(* Runs in which no call fails. *)

(* Runs without an external failure. *)
CalmInv == faults = 0 => slot # "garbage" /\ lost = {}

LEMMA CalmStep ==
    ASSUME Typed, CalmInv, [Next]_vars
    PROVE  /\ CalmInv'
           /\ faults' = 0 => faults = 0 \/ Launch
<1>1. faults \in Nat
  BY DEF Typed, Counters
<1>2. CASE Calls
  <2>1. slot' = slot
    BY <1>2, CallsAreLocal
  <2>2. faults' = 0 => faults = 0 /\ lost' = lost
    <3>1. CASE Info \/ BeginOperation \/ FinishOperation \/ ExportSecret \/ CompareOutputs
      BY <1>1, <3>1 DEF Info, BeginOperation, FinishOperation, ExportSecret, CompareOutputs,
                        Calm, Fault
    <3>2. CASE Make \/ DestroyObject \/ NextRound
      BY <1>1, <3>2 DEF Make, DestroyObject, NextRound, Calm, Fault
    <3> QED
      BY <1>2, <3>1, <3>2 DEF Calls
  <2> QED
    BY <2>1, <2>2 DEF CalmInv
<1>3. CASE Return \/ Unload
  BY <1>3 DEF Return, Unload, CalmInv
<1>4. CASE Load \/ Resolve \/ Initialize \/ CountSlots
  BY <1>1, <1>4 DEF Load, Resolve, Initialize, CountSlots, Opening, Calm, Fault, CalmInv
<1>5. CASE ReadSlot \/ OpenSession
  BY <1>1, <1>5 DEF ReadSlot, OpenSession, Opening, Calm, Fault, CalmInv
<1>6. CASE CloseSession \/ Finalize
  BY <1>1, <1>6 DEF CloseSession, Finalize, Calm, Fault, CalmInv
<1>7. CASE Launch \/ Kill
  BY <1>1, <1>7 DEF Launch, Kill, Fault, CalmInv
<1>8. CASE UNCHANGED vars
  BY <1>8 DEF vars, CalmInv
<1> QED
  BY <1>2, <1>3, <1>4, <1>5, <1>6, <1>7, <1>8 DEF Next, DemoStep, MainStep, Calls

(* All that is known of the calls of a run. *)
SessionInv == Typed /\ ActiveInv /\ LiveInv /\ BirthInv /\ DebtInv /\ CalmInv

LEMMA SessionStep ==
    ASSUME SessionInv, Typed', [Next]_vars
    PROVE  SessionInv'
BY ActiveStep, LiveStep, BirthStep, DebtStep, CalmStep DEF SessionInv

LEMMA SessionAlways == Spec => []SessionInv
<1>1. Init => SessionInv
  BY InitTyped DEF Init, SessionInv, ActiveInv, LiveInv, BirthInv, DebtInv, CalmInv
<1> QED
  BY <1>1, SessionStep, TypedAlways, PTL DEF Spec

(* Without an external failure, and while nothing has failed, a call fails *)
(* only because its identifier is taken or because two outputs differ.     *)
LEMMA CalmCall ==
    ASSUME SessionInv, FunctionCall, Calm, rc = 0, frc = 0, faults \in Nat
    PROVE  \/ Proceed /\ \A h \in Current.makes : h \in held'
           \/ Refused /\ Make /\ Ids(Current.makes) \cap objects # {}
           \/ Refused /\ CompareOutputs /\ ~(Compared(Current.op) \subseteq pending)
<1>1. ~Fault
  BY DEF Calm, Fault
<1>2. CASE Info \/ FinishOperation \/ ExportSecret
  <2>1. Proceed
    BY <1>1, <1>2 DEF Info, FinishOperation, ExportSecret
  <2>2. Current.kind \in {"query", "finish", "export"}
    BY <1>2 DEF Info, FinishOperation, ExportSecret, At
  <2>3. Planned(Round, stage, round) /\ pc \in DOMAIN Round
    BY Moves, PlanHere DEF SessionInv, Typed, Round
  <2>4. Current.makes = {}
    BY <2>2, <2>3 DEF Planned, RoundCounts, Current
  <2> QED
    BY <2>1, <2>4
<1>3. CASE Make
  BY <1>1, <1>3 DEF Make
<1>4. CASE BeginOperation
  <2>1. /\ at = "demos" /\ round \in DOMAIN Script /\ pc \in DOMAIN Round
        /\ Current.kind = "begin" /\ Current = Round[pc] /\ stage \in Nat
    BY <1>4 DEF BeginOperation, At, Current, SessionInv, Typed, SuiteInv
  <2>2. /\ Planned(Round, stage, round) /\ Len(Round) \in Nat /\ DOMAIN Round = 1 .. Len(Round)
    BY <2>1, PlanHere DEF Round, SessionInv
  <2>3. Ids(Current.uses) \subseteq objects
    <3>1. ~Closing(Round, pc)
      BY <2>1, <2>2 DEF Closing
    <3>2. \A h \in Current.uses : h \in Kept(stage, round) \/ MadeBefore(Round, pc, h)
      BY <2>1, <2>2 DEF Planned, RoundCounts
    <3> QED
      BY <2>1, <3>1, <3>2 DEF LiveInv, CountsOn, SessionInv, Ids
  <2>4. Current.op \notin active
    <3>1. CASE Current.op = "find"
      <4>1. << stage, round, pc >> = << 1, 1, 7 >>
        BY <2>1, <2>2, <3>1 DEF Planned, RoundPlans
      <4>2. ~Behind(<< 1, 1, 7 >>, stage, round, pc)
        BY <4>1 DEF Behind
      <4> QED
        BY <2>1, <3>1, <4>2 DEF BirthInv, SessionInv
    <3>2. CASE Current.op # "find"
      <4>1. ~Here("finish", Current.op)
        BY <2>1, HereIs DEF SessionInv, Typed
      <4> QED
        BY <2>1, <3>2, <4>1 DEF ActiveInv, SessionInv
    <3> QED
      BY <3>1, <3>2
  <2>5. Proceed
    BY <1>1, <1>4, <2>3, <2>4 DEF BeginOperation
  <2>6. Current.makes = {}
    BY <2>1, <2>2 DEF Planned, RoundCounts
  <2> QED
    BY <2>5, <2>6
<1>5. CASE CompareOutputs
  <2>1. Planned(Round, stage, round) /\ pc \in DOMAIN Round /\ Current.kind = "compare"
    BY <1>5, Moves, PlanHere DEF SessionInv, Typed, Round, CompareOutputs, At
  <2>2. Current.makes = {}
    BY <2>1 DEF Planned, RoundCounts, Current
  <2> QED
    BY <1>1, <1>5, <2>2 DEF CompareOutputs
<1> QED
  BY <1>2, <1>3, <1>4, <1>5 DEF FunctionCall

-----------------------------------------------------------------------------
(* A run that finds the token empty and meets no failure: no function      *)
(* fails, and what a call is to compare has been made.                     *)
CleanInv ==
    faults = 0 /\ before = {} =>
        /\ at = "demos" => /\ rc = 0 /\ frc = 0
                           /\ round \in DOMAIN Script =>
                                 \A o : Yields(Round, pc, o) => o \in pending
        /\ at \in {"close", "finalize", "unload", "exited"} => rc = 0

LEMMA NothingYielded == \A q, o : ~Yields(q, 1, o)
BY DEF Yields

LEMMA YieldsNext ==
    ASSUME NEW q, NEW k \in Nat \ {0}, NEW o, Yields(q, k + 1, o)
    PROVE  Gives(q[k], o) \/ (Yields(q, k, o) /\ ~Takes(q[k], o))
<1>1. PICK j \in 1 .. k : Gives(q[j], o) /\ \A i \in j + 1 .. k : ~Takes(q[i], o)
  BY DEF Yields
<1>2. CASE j = k
  BY <1>1, <1>2
<1>3. CASE j # k
  <2>1. j \in 1 .. k - 1 /\ k \in j + 1 .. k /\ \A i \in j + 1 .. k - 1 : i \in j + 1 .. k
    BY <1>3
  <2> QED
    BY <1>1, <2>1 DEF Yields
<1> QED
  BY <1>2, <1>3

(* The outputs of the round that the next calls rely on. *)
LEMMA PendingNext ==
    ASSUME SuiteInv, FunctionCall \/ DestroyObject, Proceed, ~Fault,
           NEW o, Gives(Current, o) \/ (o \in pending /\ ~Takes(Current, o))
    PROVE  o \in pending'
<1>1. CASE Info \/ Make \/ BeginOperation \/ DestroyObject
  <2>1. pending' = pending /\ Current.kind \in {"query", "create", "begin", "destroy"}
    BY <1>1 DEF Info, Make, BeginOperation, DestroyObject, At, locals
  <2> QED
    BY <2>1 DEF Gives
<1>2. CASE FinishOperation
  BY <1>2 DEF FinishOperation, At, Gives, Takes
<1>3. CASE ExportSecret
  BY <1>3 DEF ExportSecret, At, Gives
<1>4. CASE CompareOutputs
  BY <1>4 DEF CompareOutputs, At, Gives, Takes
<1> QED
  BY <1>1, <1>2, <1>3, <1>4 DEF FunctionCall

LEMMA CleanStep ==
    ASSUME SessionInv, CleanInv, [Next]_vars
    PROVE  CleanInv'
<1> SUFFICES ASSUME faults' = 0, before' = {} PROVE CleanInv'
  BY DEF CleanInv
<1>0. Typed /\ SuiteInv /\ faults \in Nat /\ (faults = 0 \/ Launch)
  BY CalmStep DEF SessionInv, Typed, Counters
<1>1. CASE FunctionCall \/ DestroyObject
  <2>1. /\ at = "demos" /\ at' = at /\ rc' = rc /\ before' = before /\ stage' = stage
    BY <1>1, CallsAreLocal DEF Calls, FunctionCall
  <2>2. /\ round \in DOMAIN Script /\ pc \in DOMAIN Round
    BY <1>0, <1>1, Moves
  <2>3. faults = 0
    BY <1>0, <2>1 DEF Launch
  <2>4. /\ Planned(Round, stage, round) /\ DOMAIN Round = 1 .. Len(Round) /\ Current = Round[pc]
        /\ Len(Round) \in Nat
    BY <1>0, <2>1, <2>2, PlanHere DEF Round, Current
  <2>5. rc = 0 /\ frc = 0 /\ \A o : Yields(Round, pc, o) => o \in pending
    BY <2>1, <2>2, <2>3 DEF CleanInv
  <2>6. ~Fault /\ (FunctionCall => Calm)
    <3>1. ~Fault
      BY <2>3 DEF Fault
    <3> QED
      BY <2>3, <3>1 DEF Calm
  <2>7. Proceed
    <3>1. CASE DestroyObject
      BY <3>1 DEF DestroyObject
    <3>2. CASE FunctionCall
      <4>1. ~(Make /\ Ids(Current.makes) \cap objects # {})
        <5>1. IdsAreFresh
          BY FreshIds DEF SessionInv
        <5> QED
          BY <2>1, <5>1 DEF IdsAreFresh, Make
      <4>2. ~(CompareOutputs /\ ~(Compared(Current.op) \subseteq pending))
        <5>1. CompareOutputs => \A o \in Compared(Current.op) : Yields(Round, pc, o)
          BY <2>2, <2>4 DEF Planned, RoundPlans, CompareOutputs, At
        <5> QED
          BY <2>5, <5>1
      <4> QED
        BY <1>0, <2>5, <2>6, <3>2, <4>1, <4>2, CalmCall
    <3> QED
      BY <1>1, <3>1, <3>2
  <2>8. stage' = stage /\ round' = round /\ pc' = pc + 1 /\ frc' = frc /\ Round' = Round
    BY <2>7 DEF Proceed, Round, Script
  <2>9. ASSUME NEW o, Yields(Round, pc + 1, o) PROVE o \in pending'
    <3>1. pc \in Nat \ {0}
      BY <2>2, <2>4
    <3>2. Gives(Round[pc], o) \/ (Yields(Round, pc, o) /\ ~Takes(Round[pc], o))
      BY <2>9, <3>1, YieldsNext
    <3> QED
      BY <1>0, <1>1, <2>4, <2>5, <2>6, <2>7, <3>2, PendingNext
  <2> QED
    BY <2>1, <2>5, <2>8, <2>9 DEF CleanInv
<1>2. CASE NextRound \/ Return
  <2>1. /\ at = "demos" /\ pc' = 1 /\ before' = before /\ frc' \in {0, frc}
        /\ frc = 0 => rc' = rc
        /\ at' \in {"demos", "close"}
    BY <1>2 DEF NextRound, Return, Quiet, history
  <2>2. faults = 0 /\ rc = 0 /\ frc = 0
    BY <1>0, <2>1 DEF CleanInv, Launch
  <2> QED
    BY <2>1, <2>2, NothingYielded DEF CleanInv
<1>3. CASE Approach
  <2>1. faults = 0 /\ at \in Ways /\ rc = 0 /\ slot # "garbage" /\ pc' = 1 /\ frc' = 0
    BY <1>0, <1>3, ApproachGoesOn DEF Launch, Ways, SuiteInv, Typed, Fresh, SessionInv, CalmInv
  <2>2. ~Fault
    BY <2>1 DEF Fault
  <2>3. at' \notin {"close", "finalize", "unload", "exited"} /\ rc' = rc
    <3>1. CASE Load \/ Resolve \/ Initialize \/ CountSlots
      BY <2>2, <3>1 DEF Load, Resolve, Initialize, CountSlots, Opening
    <3>2. CASE ReadSlot \/ OpenSession
      BY <2>1, <2>2, <3>2 DEF ReadSlot, OpenSession, Opening
    <3> QED
      BY <1>3, <3>1, <3>2 DEF Approach
  <2> QED
    BY <2>1, <2>3, NothingYielded DEF CleanInv
<1>4. CASE Ending
  <2>1. before' = before /\ at # "demos" /\ ~Launch
    BY <1>4, EndingGoesOn DEF Ending, CloseSession, Finalize, Unload, history, Launch
  <2> QED
    BY <1>0, <1>4, <2>1, EndingGoesOn DEF CleanInv
<1>5. CASE Launch
  BY <1>5 DEF Launch, CleanInv
<1>6. CASE Kill
  BY <1>6 DEF Kill, CleanInv
<1>7. CASE UNCHANGED vars
  BY <1>7 DEF vars, CleanInv, Round, Script
<1> QED
  BY <1>1, <1>2, <1>3, <1>4, <1>5, <1>6, <1>7
     DEF Next, DemoStep, MainStep, FunctionCall, Approach, Ending

(* On an empty token and without an external failure the suite passes, and *)
(* leaves the token as it was.                                             *)
THEOREM CleanPasses == Spec => []CleanRunPasses
<1>1. Init => CleanInv
  BY DEF Init, CleanInv
<1>2. SessionInv /\ CleanInv /\ [Next]_vars => CleanInv'
  BY CleanStep
<1>3. SessionInv /\ CleanInv => CleanRunPasses
  BY DEF SessionInv, CleanInv, CleanRunPasses, Exited, DebtInv, CalmInv
<1> QED
  BY <1>1, <1>2, <1>3, SessionAlways, PTL DEF Spec

-----------------------------------------------------------------------------
(* Objects that an earlier run has left. *)

AnyId == TokenIds \cup SessionIds

(* The place where an identifier is born is a call of the scripts. *)
LEMMA BornInScripts ==
    ASSUME NEW id \in AnyId, NEW s \in DOMAIN Demos, Born(id)[1] = s
    PROVE  /\ Born(id)[2] \in DOMAIN Demos[s]
           /\ Born(id)[3] \in DOMAIN Demos[s][Born(id)[2]]
           /\ Makes(Demos[s], Born(id)[2], Born(id)[3], id)
<1> DEFINE p == Born(id)
<1>1. p = << p[1], p[2], p[3] >>
  BY BornSomewhere DEF Places
<1> HIDE DEF p
<1>2. Born(id) = << s, p[2], p[3] >>
  BY <1>1 DEF p
<1>3. Makes(Demos[s], p[2], p[3], id)
  BY <1>2, BirthPlace DEF AnyId
<1> QED
  BY <1>3 DEF Makes, p

LEMMA BornLate == \A id : Born(id)[1] \in 4 .. 10
BY DEF Born

(* Nothing lies between a call and the next one, the next round or the     *)
(* next function.                                                          *)
LEMMA NextCall ==
    ASSUME NEW p \in Places, NEW s \in Nat, NEW r \in Nat, NEW k \in Nat,
           ~Behind(p, s, r, k), p # << s, r, k >>
    PROVE  ~Behind(p, s, r, k + 1)
<1>1. p[1] \in Nat /\ p[2] \in Nat /\ p[3] \in Nat /\ p = << p[1], p[2], p[3] >>
  BY DEF Places
<1>2. ~(p[1] = s /\ p[2] = r /\ p[3] = k)
  BY <1>1
<1> QED
  BY <1>1, <1>2 DEF Behind

LEMMA NextPlace ==
    ASSUME Typed, NextRound \/ Return, NEW id \in AnyId,
           ~Behind(Born(id), stage, round, pc)
    PROVE  ~Behind(Born(id), stage', round', pc') /\ Born(id)[1] >= stage'
<1> DEFINE p == Born(id)
<1>1. p \in Places /\ p[1] \in Nat /\ p[2] \in Nat /\ p[3] \in Nat
  BY BornSomewhere DEF Places
<1>2. at = "demos" /\ stage \in DOMAIN Demos /\ ScriptFits(Script) /\ stage \in Nat /\ pc' = 1
  BY CurrentScript DEF NextRound, Return, Typed, SuiteInv
<1>3. \A s \in DOMAIN Demos : p[1] = s => p[2] \in DOMAIN Demos[s] /\ p[3] \in DOMAIN Demos[s][p[2]]
  BY BornInScripts
<1>4. ASSUME NEW s \in DOMAIN Demos, p[1] = s
      PROVE  p[2] >= 1 /\ p[3] >= 1
  <2>1. ScriptFits(Demos[s]) /\ p[2] \in DOMAIN Demos[s] /\ p[3] \in DOMAIN Demos[s][p[2]]
    BY <1>3, <1>4, ScriptsFit
  <2> HIDE DEF p
  <2>2. DOMAIN Demos[s] = 1 .. Len(Demos[s])
    BY <2>1 DEF ScriptFits
  <2>3. DOMAIN Demos[s][p[2]] = 1 .. Len(Demos[s][p[2]])
    BY <2>1 DEF ScriptFits, RoundFits
  <2> QED
    BY <1>1, <2>1, <2>2, <2>3
<1>5. p[1] \in DOMAIN Demos
  BY BornLate, TenDemos
<1>6. p[2] >= 1 /\ p[3] >= 1
  BY <1>4, <1>5
<1>7. p[1] = stage => p[2] \in DOMAIN Script /\ p[3] \in DOMAIN Script[p[2]]
  BY <1>2, <1>3 DEF Script
<1>8. ~Behind(p, stage, round, pc)
  OBVIOUS
<1> HIDE DEF p
<1>9. CASE NextRound
  <2>1. /\ stage' = stage /\ round' = round + 1 /\ round \in DOMAIN Script
        /\ pc = Len(Round) + 1 /\ Round = Script[round]
    BY <1>9 DEF NextRound, Round
  <2>2. round \in Nat /\ Len(Round) \in Nat /\ DOMAIN Round = 1 .. Len(Round)
    BY <1>2, <2>1 DEF ScriptFits, RoundFits
  <2>3. p[1] = stage /\ p[2] = round => p[3] < pc
    BY <1>7, <2>1, <2>2
  <2>4. ~Behind(p, stage, round + 1, 1)
    BY <1>1, <1>2, <1>6, <1>8, <2>2, <2>3 DEF Behind
  <2>5. ~(p[1] < stage)
    BY <1>8 DEF Behind
  <2>6. p[1] >= stage
    BY <1>1, <1>2, <2>5
  <2>7. ~Behind(p, stage', round', pc') /\ p[1] >= stage'
    BY <1>2, <2>1, <2>4, <2>6
  <2> QED
    BY <2>7 DEF p
<1>10. CASE Return
  <2>1. stage' = stage + 1 /\ round' = 1 /\ round = Len(Script) + 1
    BY <1>10 DEF Return
  <2>2. Len(Script) \in Nat /\ DOMAIN Script = 1 .. Len(Script)
    BY <1>2 DEF ScriptFits
  <2>3. p[1] = stage => p[2] < round
    BY <1>7, <2>1, <2>2
  <2>4. p[1] > stage
    BY <1>1, <1>2, <1>8, <2>3 DEF Behind
  <2>5. ~Behind(p, stage + 1, 1, 1)
    BY <1>1, <1>2, <1>6, <2>4 DEF Behind
  <2>6. ~Behind(p, stage', round', pc') /\ p[1] >= stage'
    BY <1>1, <1>2, <2>1, <2>4, <2>5
  <2> QED
    BY <2>6 DEF p
<1> QED
  BY <1>9, <1>10

(* In a run without an external failure whose exit code is still 0: an     *)
(* object whose place the suite has passed has a handle, unless the code   *)
(* skips the test where its identifier is taken.                           *)
LeftInv ==
    faults = 0 /\ rc = 0 =>
        /\ at = "demos" /\ frc = 0 =>
              \A id \in objects : \/ id \in Ids(held) \/ id \in Skippable
                                  \/ ~Behind(Born(id), stage, round, pc)
        /\ at \in {"close", "finalize", "unload", "exited"} => objects \subseteq Skippable

(* A call that passes the birth place of an object makes it, or is not the *)
(* place; one that gives up the function silently gives up nothing else.   *)
LEMMA LeftCall ==
    ASSUME SessionInv, FunctionCall, Calm, rc = 0, frc = 0, frc' = 0,
           NEW id \in objects, id \notin Skippable, ~Behind(Born(id), stage, round, pc)
    PROVE  id \in Ids(held') \/ ~Behind(Born(id), stage', round', pc')
<1>0. Typed /\ SuiteInv /\ faults \in Nat /\ id \in AnyId
  BY DEF SessionInv, Typed, Counters, Data, AnyId
<1>1. /\ at = "demos" /\ stage' = stage /\ stage \in DOMAIN Demos
      /\ round \in DOMAIN Script /\ pc \in DOMAIN Round /\ Current = Round[pc]
  BY <1>0, Moves, CurrentScript DEF Current
<1>2. /\ Planned(Round, stage, round) /\ stage \in Nat /\ round \in Nat /\ pc \in Nat
  BY <1>0, <1>1, Onward, PlanHere DEF Round
<1>3. Born(id) \in Places
  BY BornSomewhere
<1>4. ASSUME Born(id) = << stage, round, pc >>
      PROVE  Make /\ \E h \in Current.makes : h.id = id
  <2>1. Makes(Script, round, pc, id)
    BY <1>0, <1>1, <1>4, BirthPlace DEF AnyId, Script
  <2>2. Current.kind = "create" /\ \E h \in Current.makes : h.id = id
    BY <2>1 DEF Makes, Round, Current
  <2> QED
    BY <2>2 DEF FunctionCall, Info, BeginOperation, FinishOperation, ExportSecret,
                CompareOutputs, At
<1>5. ASSUME round' = round, pc' = pc + 1, Born(id) # << stage, round, pc >>
      PROVE  ~Behind(Born(id), stage', round', pc')
  BY <1>1, <1>2, <1>3, <1>5, NextCall
<1>6. CASE Proceed /\ \A h \in Current.makes : h \in held'
  BY <1>4, <1>5, <1>6 DEF Proceed, Ids
<1>7. CASE Refused /\ Make /\ Ids(Current.makes) \cap objects # {}
  <2>1. Current.kind = "create" /\ Current.onfail.rc = 0
    <3>1. Current.onfail.rc \in {0, 1} /\ (Current.onfail.rc = 1 => frc' = 1)
      BY <1>0, <1>7, CurrentFits DEF CallFits, FunctionCall, Refused
    <3> QED
      BY <1>7, <3>1 DEF Make, At
  <2>2. \E h \in Current.makes : h.id \notin SessionIds
    <3>1. PICK h \in Current.makes : h.id \in objects
      BY <1>7 DEF Ids
    <3>2. h.id \in before
      BY <1>7, <3>1, FreshIds DEF SessionInv, IdsAreFresh, Ids, Make
    <3>3. h.id \in TokenIds
      BY <1>0, <3>2 DEF Typed, Data
    <3> QED
      BY <3>1, <3>3 DEF TokenIds, SessionIds
  <2>3. /\ \A h \in Current.makes : h.id \in Skippable
        /\ Born(id)[1] = stage => Behind(Born(id), stage, round, pc)
    BY <1>0, <1>1, <1>2, <2>1, <2>2 DEF Planned, RoundPlans, AnyId
  <2>4. Born(id)[1] # stage /\ ~(Born(id)[1] < stage)
    BY <2>3 DEF Behind
  <2> QED
    BY <1>1, <2>4 DEF Behind
<1>8. CASE Refused /\ CompareOutputs
  <2>1. Current.kind = "compare"
    BY <1>8 DEF CompareOutputs, At
  <2>2. Current.onfail.rc # 1
    BY <1>8 DEF Refused
  <2>3. Current.onfail.to = "on"
    BY <1>1, <1>2, <2>1, <2>2 DEF Planned, RoundPlans
  <2>4. round' = round /\ pc' = pc + 1
    BY <1>8, <2>3 DEF Refused
  <2>5. Born(id) # << stage, round, pc >>
    BY <1>4, <2>1 DEF Make, At
  <2> QED
    BY <1>5, <2>4, <2>5
<1> QED
  BY <1>0, <1>6, <1>7, <1>8, CalmCall

LEMMA LeftStep ==
    ASSUME SessionInv, LeftInv, [Next]_vars
    PROVE  LeftInv'
<1> SUFFICES ASSUME faults' = 0, rc' = 0 PROVE LeftInv'
  BY DEF LeftInv
<1>0. Typed /\ SuiteInv /\ faults \in Nat /\ (faults = 0 \/ Launch)
  BY CalmStep DEF SessionInv, Typed, Counters
<1>1. CASE FunctionCall
  <2>1. /\ at = "demos" /\ at' = at /\ rc' = rc /\ faults = 0 /\ frc' \in {frc, 1} /\ frc \in {0, 1}
    BY <1>0, <1>1, CallsAreLocal, Moves
       DEF Calls, FunctionCall, Refusal, Launch, Typed, Fresh
  <2>2. SUFFICES ASSUME frc' = 0, NEW id \in objects'
                 PROVE  \/ id \in Ids(held') \/ id \in Skippable
                        \/ ~Behind(Born(id), stage', round', pc')
    BY <2>1 DEF LeftInv
  <2>3. frc = 0 /\ Calm
    BY <2>1, <2>2 DEF Calm
  <2>4. held \subseteq held'
    BY <1>0, <1>1, CallKeeps
  <2>5. id \in objects \/ id \in Ids(held')
    <3>1. CASE Make
      <4>1. \/ objects' = objects \cup Ids(Current.makes) /\ held' = held \cup Current.makes
            \/ objects' = objects
            \/ Fault
        BY <3>1 DEF Make
      <4>2. ~Fault
        BY <2>1 DEF Fault
      <4> QED
        BY <2>2, <4>1, <4>2 DEF Ids
    <3>2. CASE FunctionCall /\ ~Make
      <4>1. objects' = objects
        BY <3>2 DEF FunctionCall, Info, BeginOperation, FinishOperation, ExportSecret,
                    CompareOutputs, token
      <4> QED
        BY <2>2, <4>1
    <3> QED
      BY <1>1, <3>1, <3>2
  <2>6. CASE id \in Ids(held)
    BY <2>4, <2>6 DEF Ids
  <2>7. CASE id \in objects /\ id \notin Skippable /\ id \notin Ids(held)
    <3>1. ~Behind(Born(id), stage, round, pc)
      BY <2>1, <2>3, <2>7 DEF LeftInv
    <3> QED
      BY <1>1, <2>1, <2>2, <2>3, <2>7, <3>1, LeftCall
  <2> QED
    BY <2>5, <2>6, <2>7
<1>2. CASE DestroyObject
  <2>1. /\ at = "demos" /\ at' = at /\ rc' = rc /\ faults = 0 /\ frc' = frc
        /\ stage' = stage /\ round' = round /\ pc' = pc + 1
    BY <1>0, <1>2, CallsAreLocal DEF Calls, Launch, DestroyObject, Proceed
  <2>2. SUFFICES ASSUME frc = 0, NEW id \in objects'
                 PROVE  \/ id \in Ids(held') \/ id \in Skippable
                        \/ ~Behind(Born(id), stage, round, pc + 1)
    BY <2>1 DEF LeftInv
  <2>3. id \in objects /\ (id \in Ids(held) => id \in Ids(held'))
    <3>1. PICK h \in Current.uses :
              IF h \notin held
              THEN UNCHANGED << objects, held >>
              ELSE /\ held' = held \ {h}
                   /\ \/ objects' = objects \ {h.id}
                      \/ h.id \in Ids(held') /\ objects' = objects
                      \/ Fault
      BY <1>2 DEF DestroyObject
    <3>2. ~Fault
      BY <2>1 DEF Fault
    <3> QED
      BY <2>2, <3>1, <3>2 DEF Ids
  <2>4. CASE ~Behind(Born(id), stage, round, pc)
    <3>1. /\ stage \in DOMAIN Demos /\ round \in DOMAIN Script /\ Current.kind = "destroy"
      BY <1>0, <1>2, Moves, CurrentScript
    <3>2. Born(id) # << stage, round, pc >>
      <4>1. SUFFICES ASSUME Born(id) = << stage, round, pc >> PROVE FALSE
        OBVIOUS
      <4>2. Makes(Script, round, pc, id)
        BY <1>0, <2>3, <3>1, <4>1, BirthPlace DEF Script, Typed, Data
      <4> QED
        BY <3>1, <4>2 DEF Makes, Current, Round
    <3>3. Born(id) \in Places /\ stage \in Nat /\ round \in Nat /\ pc \in Nat
      BY <1>0, <1>2, BornSomewhere, Onward
    <3> QED
      BY <2>4, <3>2, <3>3, NextCall
  <2> QED
    BY <2>1, <2>2, <2>3, <2>4 DEF LeftInv
<1>3. CASE NextRound
  <2>1. /\ at = "demos" /\ at' = at /\ rc' = rc /\ faults = 0 /\ frc' = frc
        /\ held' = held /\ objects' = objects
    BY <1>0, <1>3 DEF NextRound, Quiet, token, Launch
  <2>2. ASSUME NEW id \in objects, ~Behind(Born(id), stage, round, pc)
        PROVE  ~Behind(Born(id), stage', round', pc')
    BY <1>0, <1>3, <2>2, NextPlace DEF Typed, Data, AnyId
  <2> QED
    BY <2>1, <2>2 DEF LeftInv, Ids
<1>4. CASE Return
  <2>1. /\ at = "demos" /\ faults = 0 /\ frc = 0 /\ rc = 0 /\ held' = {} /\ objects' = objects
        /\ at' = IF stage = 10 THEN "close" ELSE at
        /\ stage' = stage + 1 /\ stage \in 1 .. 10
    BY <1>0, <1>4, TenDemos DEF Return, token, Launch, Typed, Fresh
  <2>2. held = {}
    <3>1. \A h \in held : Owed(Script, round, pc, h)
      BY <2>1 DEF SessionInv, DebtInv
    <3>2. Len(Script) \in Nat /\ DOMAIN Script = 1 .. Len(Script) /\ round = Len(Script) + 1
      BY <1>0, <1>4, <2>1, CurrentScript DEF ScriptFits, Return
    <3> DEFINE n == Len(Script)
    <3>3. round = n + 1 /\ n \in Nat
      BY <3>2
    <3> HIDE DEF n
    <3>4. ~(round < n) /\ round # n /\ round \notin 1 .. n
      BY <3>3
    <3>5. \A h : ~Owed(Script, round, pc, h)
      BY <3>2, <3>4 DEF Owed, n
    <3> QED
      BY <3>1, <3>5
  <2>3. ASSUME NEW id \in objects, id \notin Skippable
        PROVE  ~Behind(Born(id), stage', round', pc') /\ Born(id)[1] >= stage'
    <3>1. ~Behind(Born(id), stage, round, pc)
      BY <2>1, <2>2, <2>3 DEF LeftInv, Ids
    <3> QED
      BY <1>0, <1>4, <2>3, <3>1, NextPlace DEF Typed, Data, AnyId
  <2>4. at' = "close" => objects \subseteq Skippable
    BY <2>1, <2>3, BornLate
  <2> QED
    BY <2>1, <2>3, <2>4 DEF LeftInv
<1>5. CASE Approach
  <2>1. /\ stage' = 1 /\ round' = 1 /\ pc' = 1 /\ at' \in Ways \cup {"demos"}
    BY <1>0, <1>5, ApproachGoesOn DEF Typed, Fresh, SuiteInv
  <2>2. \A id : ~Behind(Born(id), 1, 1, 1)
    BY BornLate DEF Behind
  <2> QED
    BY <2>1, <2>2 DEF LeftInv, Ways
<1>6. CASE Ending
  <2>1. objects' \subseteq objects /\ ~Launch /\ at \in {"close", "finalize", "unload"}
    BY <1>6 DEF Ending, CloseSession, Finalize, Unload, EndOfSession, token, Launch
  <2> QED
    BY <1>0, <1>6, <2>1, EndingGoesOn DEF LeftInv
<1>7. CASE Launch \/ Kill
  BY <1>7 DEF Launch, Kill, LeftInv
<1>8. CASE UNCHANGED vars
  BY <1>8 DEF vars, LeftInv, Ids
<1> QED
  BY <1>1, <1>2, <1>3, <1>4, <1>5, <1>6, <1>7, <1>8
     DEF Next, DemoStep, MainStep, FunctionCall, Approach, Ending

(* A key that an aborted run has left is reported by the exit code of a    *)
(* run that meets no failure, unless its test is one that the code skips.  *)
THEOREM LeftoversReported == Spec => []LeftoversShow
<1>1. Init => LeftInv
  BY DEF Init, LeftInv
<1>2. SessionInv /\ LeftInv /\ [Next]_vars => LeftInv'
  BY LeftStep
<1>3. SessionInv /\ LeftInv => LeftoversShow
  BY DEF SessionInv, LeftInv, LeftoversShow, Exited, DebtInv, CalmInv, Skippable
<1> QED
  BY <1>1, <1>2, <1>3, SessionAlways, PTL DEF Spec

=============================================================================

--------------------------- MODULE Pkcs11DemoProofs ----------------------------
(***************************************************************************)
(* The PKCS#11 suite for any number of runs, any leftover objects and any  *)
(* number of failures: it implements DemoSuite, stays typed, and leaves    *)
(* nothing behind unreported in the session, on the token or unconfirmed.  *)
(* The proofs know the scripts only through ScriptsFit.                    *)
(***************************************************************************)
EXTENDS Pkcs11Demo, WellFoundedInduction, TLAPS

Ways == {"load", "resolve", "initialize", "count", "slots", "open"}

(* The exit code and the functions that have failed, from the start of     *)
(* main to its end: a run gives up before its first function, or has run   *)
(* all of them.                                                            *)
SuiteInv ==
    /\ at \in Ways \cup {"idle", "demos", "close", "finalize", "unload", "exited", "killed"}
    /\ stage \in Nat /\ rc \in {0, 1}
    /\ at \in Ways => stage = 1 /\ failed = {} /\ rc = 0
    /\ at = "demos" => stage \in 1 .. 10
    /\ at = "close" => stage = 11
    /\ at \in {"demos", "close"} => (rc = 1 <=> failed # {})
    /\ at \in {"finalize", "unload", "exited"} =>
          \/ stage = 1 /\ failed = {} /\ rc = 1
          \/ stage = 11 /\ (rc = 1 <=> failed # {})

LEMMA TenDemos == Len(Demos) = 10 /\ DOMAIN Demos = 1 .. 10
BY DEF Demos

(* The calls of a function.                                                *)
Calls == \/ Info \/ Make \/ BeginOperation \/ FinishOperation \/ ExportSecret
         \/ CompareOutputs \/ DestroyObject \/ NextRound

(* No call changes what main knows. *)
LEMMA CallsAreLocal ==
    ASSUME Calls
    PROVE  /\ at = "demos" /\ at' = at /\ rc' = rc /\ failed' = failed
           /\ stage' = stage /\ opened' = opened /\ slot' = slot
           /\ before' = before /\ runs' = runs
<1>1. CASE Info
  BY <1>1 DEF Info, At, Proceed, Refused, Quiet, history
<1>2. CASE Make
  BY <1>2 DEF Make, At, Proceed, Refused, Quiet, history
<1>3. CASE BeginOperation
  BY <1>3 DEF BeginOperation, At, Proceed, Refused, Quiet, history
<1>4. CASE FinishOperation
  BY <1>4 DEF FinishOperation, At, Proceed, Refused, Quiet, history
<1>5. CASE ExportSecret
  BY <1>5 DEF ExportSecret, At, Proceed, Refused, Quiet, history
<1>6. CASE CompareOutputs
  BY <1>6 DEF CompareOutputs, At, Proceed, Refused, Quiet, history
<1>7. CASE DestroyObject
  BY <1>7 DEF DestroyObject, At, Proceed, Quiet, history
<1>8. CASE NextRound
  BY <1>8 DEF NextRound, Quiet, history
<1> QED
  BY <1>1, <1>2, <1>3, <1>4, <1>5, <1>6, <1>7, <1>8 DEF Calls

(* The steps of main towards the session. *)
Approach == Load \/ Resolve \/ Initialize \/ CountSlots \/ ReadSlot \/ OpenSession

LEMMA ApproachGoesOn ==
    ASSUME Approach
    PROVE  /\ at \in Ways /\ stage' = stage /\ failed' = failed
           /\ \/ at' \in Ways \cup {"demos"} /\ rc' = rc
              \/ at' \in {"finalize", "unload", "exited"} /\ rc' = 1
           /\ active' = active /\ objects' = objects
           /\ round' = round /\ pc' = pc /\ frc' = frc
           /\ held' = held /\ pending' = pending
           /\ before' = before /\ lost' = lost
<1>1. CASE Load \/ Resolve \/ Initialize \/ CountSlots
  BY <1>1 DEF Load, Resolve, Initialize, CountSlots, Opening, Ways, token, control, locals, history
<1>2. CASE ReadSlot
  BY <1>2 DEF ReadSlot, Ways, token, control, locals, history
<1>3. CASE OpenSession
  BY <1>3 DEF OpenSession, Opening, Ways, token, control, locals, history
<1> QED
  BY <1>1, <1>2, <1>3 DEF Approach

(* The steps of main from the session on. *)
Ending == CloseSession \/ Finalize \/ Unload

LEMMA EndingGoesOn ==
    ASSUME Ending
    PROVE  /\ \/ at = "close" /\ at' = "finalize"
              \/ at = "finalize" /\ at' = "unload"
              \/ at = "unload" /\ at' = "exited"
           /\ stage' = stage /\ failed' = failed /\ rc' = rc
BY DEF Ending, CloseSession, Finalize, Unload, control

LEMMA InvInit == Init => SuiteInv
BY DEF Init, SuiteInv, Ways

LEMMA InvStep ==
    ASSUME SuiteInv, [Next]_vars
    PROVE  SuiteInv'
<1>1. CASE Calls
  BY <1>1, CallsAreLocal DEF SuiteInv, Ways
<1>2. CASE Return
  <2>1. stage \in 1 .. 10
    BY <1>2 DEF Return, SuiteInv
  <2>2. /\ stage' = stage + 1 /\ at' = IF stage = 10 THEN "close" ELSE "demos"
        /\ rc' = IF frc = 1 THEN 1 ELSE rc
        /\ failed' = failed \cup (IF frc = 1 THEN {stage} ELSE {})
    BY <1>2, TenDemos DEF Return
  <2>3. (rc' = 1 <=> failed' # {}) /\ rc' \in {0, 1}
    BY <1>2, <2>2 DEF SuiteInv, Return
  <2>4. stage' \in Nat /\ (at' = "demos" => stage' \in 1 .. 10) /\ (at' = "close" => stage' = 11)
    BY <2>1, <2>2
  <2>5. at' \in {"demos", "close"}
    BY <2>2
  <2> QED
    BY <2>3, <2>4, <2>5 DEF SuiteInv, Ways
<1>3. CASE Approach
  <2>1. at \in Ways => stage = 1 /\ failed = {} /\ rc = 0
    BY DEF SuiteInv
  <2> QED
    BY <1>3, <2>1, ApproachGoesOn DEF SuiteInv, Ways
<1>4. CASE Ending
  BY <1>4, EndingGoesOn DEF SuiteInv, Ways
<1>5. CASE Launch
  BY <1>5 DEF Launch, SuiteInv, Ways
<1>6. CASE Kill
  BY <1>6 DEF Kill, SuiteInv, Ways, control
<1>7. CASE UNCHANGED vars
  BY <1>7 DEF vars, SuiteInv
<1> QED
  BY <1>1, <1>2, <1>3, <1>4, <1>5, <1>6, <1>7
     DEF Next, DemoStep, MainStep, Calls, Approach, Ending

(* The suite implements DemoSuite, whatever happens in its functions.      *)
THEOREM SuiteImplemented == Spec => ImplementsSuite
<1>1. Init => Suite!Init
  BY DEF Init, Suite!Init, Outcome
<1>2. ASSUME SuiteInv, [Next]_vars
      PROVE  [Suite!Next]_(Suite!vars)
  <2>1. CASE Calls
    BY <2>1, CallsAreLocal DEF Suite!vars, Outcome
  <2>2. CASE Return
    <3>1. stage \in 1 .. 10 /\ at = "demos"
      BY <1>2, <2>2 DEF Return, SuiteInv
    <3>2. /\ stage' = stage + 1 /\ at' \in {"close", "demos"}
          /\ failed' = failed \cup (IF frc = 1 THEN {stage} ELSE {})
      BY <2>2 DEF Return
    <3>3. stage' - 1 = (stage - 1) + 1 /\ stage - 1 < 10 /\ (stage - 1) + 1 = stage
      BY <3>1, <3>2
    <3>4. Outcome = "running" /\ Outcome' = "running"
      BY <3>1, <3>2 DEF Outcome
    <3>5. failed' \in {failed, failed \cup {stage}}
      BY <3>2
    <3> QED
      BY <3>3, <3>4, <3>5, TenDemos DEF Suite!Next, Suite!RunNext, Suite!Over
  <2>3. CASE Approach
    <3>1. at \in Ways /\ stage = 1 /\ failed = {} /\ stage' = stage /\ failed' = failed
      BY <1>2, <2>3, ApproachGoesOn DEF SuiteInv
    <3>2. Outcome = "running"
      BY <3>1 DEF Outcome, Ways
    <3>3. Outcome' = "running" \/ Outcome' = "1"
      BY <2>3, ApproachGoesOn DEF Outcome, Ways
    <3> QED
      BY <3>1, <3>2, <3>3 DEF Suite!Next, Suite!GiveUp, Suite!Over, Suite!vars
  <2>4. CASE Ending
    <3>1. stage' = stage /\ failed' = failed /\ rc' = rc
      BY <2>4, EndingGoesOn
    <3>2. CASE at' # "exited"
      BY <2>4, <3>1, <3>2, EndingGoesOn DEF Suite!vars, Outcome
    <3>3. CASE at' = "exited"
      <4>1. at = "unload" /\ Outcome = "running" /\ Outcome' = IF rc = 0 THEN "0" ELSE "1"
        BY <2>4, <3>1, <3>3, EndingGoesOn DEF Outcome
      <4>2. CASE stage = 1 /\ failed = {} /\ rc = 1
        BY <3>1, <4>1, <4>2 DEF Suite!Next, Suite!GiveUp, Suite!Over
      <4>3. CASE stage = 11 /\ (rc = 1 <=> failed # {})
        <5>1. Outcome' = IF failed = {} THEN "0" ELSE "1"
          BY <1>2, <4>1, <4>3 DEF SuiteInv
        <5>2. stage - 1 = 10 /\ stage' - 1 = stage - 1
          BY <3>1, <4>3
        <5> QED
          BY <3>1, <4>1, <5>1, <5>2, TenDemos DEF Suite!Next, Suite!Conclude, Suite!Over
      <4> QED
        BY <1>2, <4>1, <4>2, <4>3 DEF SuiteInv
    <3> QED
      BY <3>2, <3>3
  <2>5. CASE Launch
    BY <2>5 DEF Launch, Outcome, Suite!Next, Suite!Launch, Suite!Over
  <2>6. CASE Kill
    BY <2>6 DEF Kill, control, Outcome, Suite!Next, Suite!Die, Suite!Over
  <2>7. CASE UNCHANGED vars
    BY <2>7 DEF vars, Outcome, Suite!vars
  <2> QED
    BY <1>2, <2>1, <2>2, <2>3, <2>4, <2>5, <2>6, <2>7
       DEF Next, DemoStep, MainStep, Calls, Approach, Ending
<1> QED
  BY <1>1, <1>2, InvInit, InvStep, PTL DEF Spec, ImplementsSuite, Suite!Spec

-----------------------------------------------------------------------------
(* What the scripts have in common. *)

Kinds == {"query", "create", "begin", "finish", "export", "compare", "destroy"}
Ops   == {"find", "digest", "sign", "verify", "encrypt", "decrypt"}

(* A call by itself: from where a lost output would go unnoticed the       *)
(* function returns 1.                                                     *)
CallFits(c) ==
    /\ c.kind \in Kinds /\ c.onfail.rc \in {0, 1} /\ c.onfail.to \in {"on", "end", "cleanup"}
    /\ \A h \in c.makes : h.id \in TokenIds \cup SessionIds
    /\ c.kind = "destroy" => \E h \in c.uses : c.uses = {h}
    /\ c.kind = "begin" => c.op \in Ops
    /\ c.kind = "export" => c.op \in {"alice", "bob"}
    /\ c.kind = "finish" /\ c.op # "find" => c.onfail.rc = 1
    /\ c.kind = "begin" /\ c.op \in {"verify", "decrypt"} => c.onfail.rc = 1
    /\ c.kind = "compare" /\ c.op = "ct" => c.onfail.rc = 1

(* The k-th call of round q is of this kind. *)
Stands(q, k, kind, op) == k \in DOMAIN q /\ q[k].kind = kind /\ q[k].op = op

(* What is begun is finished next; what is made is confirmed next.         *)
OrderFits(q, k) ==
    /\ \A op \in Ops \ {"find"} : Stands(q, k, "begin", op) => Stands(q, k + 1, "finish", op)
    /\ Stands(q, k, "finish", "sign") => Stands(q, k + 1, "begin", "verify")
    /\ Stands(q, k, "finish", "encrypt") => Stands(q, k + 1, "begin", "decrypt")
    /\ Stands(q, k, "finish", "decrypt") => Stands(q, k + 1, "compare", "ct")

(* From the k-th call of round q on, the DESTROY of h is reached.          *)
Ahead(q, k, h) == \E j \in DOMAIN q : k <= j /\ q[j].uses = {h} /\ q[j].kind = "destroy"

(* It stands at the end of the round, and nothing before it jumps past it. *)
ClosedIn(q, k, h) ==
    /\ \E j \in DOMAIN q : /\ k <= j /\ q[j].uses = {h}
                           /\ \A n \in j .. Len(q) : q[n].kind = "destroy"
    /\ \A n \in k .. Len(q) : q[n].onfail.to # "cleanup"

RoundFits(q, last) ==
    /\ Len(q) \in Nat /\ DOMAIN q = 1 .. Len(q)
    /\ \A k \in DOMAIN q : CallFits(q[k])
    /\ \A k \in DOMAIN q : OrderFits(q, k)
    /\ \A k \in DOMAIN q : \A h \in q[k].makes : ClosedIn(q, k + 1, h) \/ Ahead(last, 1, h)

(* The last round, which follows the label cleanup, only destroys.         *)
ScriptFits(d) ==
    /\ Len(d) \in Nat /\ Len(d) >= 2 /\ DOMAIN d = 1 .. Len(d)
    /\ \A r \in DOMAIN d : RoundFits(d[r], d[Len(d)])
    /\ \A k \in DOMAIN d[Len(d)] : d[Len(d)][k].kind = "destroy" /\ d[Len(d)][k].makes = {}

LEMMA DestroyFits == \A h : CallFits(Destroy(h))
<1> TAKE h
<1>1. Destroy(h).uses = {h} /\ Destroy(h).makes = {} /\ Destroy(h).kind = "destroy"
      /\ Destroy(h).onfail.rc = 0 /\ Destroy(h).onfail.to = "on"
  BY DEF Destroy, Call, Ignore
<1>2. \E g \in Destroy(h).uses : Destroy(h).uses = {g}
  BY <1>1
<1> QED
  BY <1>1, <1>2 DEF CallFits, Kinds

LEMMA NothingFits == \A last : RoundFits(<< >>, last)
BY DEF RoundFits

(* A key that is made and destroyed at once. *)
LEMMA BriefFits ==
    ASSUME NEW id \in TokenIds, NEW last
    PROVE  RoundFits(Brief(id, {H("hKey", id)}), last)
<1> DEFINE q == Brief(id, {H("hKey", id)})
<1>1. /\ Len(q) = 2 /\ DOMAIN q = 1 .. 2
      /\ q[1] = Create({}, {H("hKey", id)}, Check) /\ q[2] = Destroy(H("hKey", id))
  BY DEF Brief
<1> HIDE DEF q
<1>2. CallFits(q[1])
  BY <1>1 DEF CallFits, Create, Call, Check, H, Kinds
<1>3. ClosedIn(q, 2, H("hKey", id)) /\ q[1].makes = {H("hKey", id)} /\ q[2].makes = {}
  BY <1>1 DEF ClosedIn, Create, Destroy, Call, Check, Ignore
<1>4. \A k \in DOMAIN q : OrderFits(q, k)
  BY <1>1 DEF OrderFits, Stands, Create, Destroy, Call
<1>5. \A k \in DOMAIN q : CallFits(q[k])
  BY <1>1, <1>2, DestroyFits
<1>6. \A k \in DOMAIN q : \A h \in q[k].makes : ClosedIn(q, k + 1, h) \/ Ahead(last, 1, h)
  BY <1>1, <1>3
<1>7. RoundFits(q, last)
  BY <1>1, <1>4, <1>5, <1>6 DEF RoundFits
<1> QED
  BY <1>7 DEF q

(* Every function is like this: read off the scripts. *)
LEMMA ScriptsFit == \A s \in DOMAIN Demos : ScriptFits(Demos[s])
<1>1. ScriptFits(run_module_info)
  <2>1. RoundFits(run_module_info[1], run_module_info[2])
    BY DEF run_module_info, RoundFits, CallFits, OrderFits, Stands, ClosedIn, Ahead,
         Call, Query, Create, Begin, Finish, Destroy, H, Pair,
         Check, Fail, Skip, Leave, Ignore, Kinds, Ops
  <2>2. RoundFits(run_module_info[2], run_module_info[2])
    BY DEF run_module_info, RoundFits, CallFits, OrderFits, Stands, ClosedIn, Ahead,
         Call, Query, Create, Begin, Finish, Destroy, H, Pair,
         Check, Fail, Skip, Leave, Ignore, Kinds, Ops
  <2>3. Len(run_module_info) = 2 /\ DOMAIN run_module_info = 1 .. 2 /\ run_module_info[2] = << >>
    BY DEF run_module_info
  <2> QED
    BY <2>1, <2>2, <2>3 DEF ScriptFits
<1>2. ScriptFits(run_random_gen)
  <2>1. RoundFits(<< Query({}, Check) >>, << >>)
    BY DEF RoundFits, CallFits, OrderFits, Stands, ClosedIn, Ahead,
         Call, Query, Create, Begin, Finish, Destroy, H, Pair,
         Check, Fail, Skip, Leave, Ignore, Kinds, Ops
  <2>2. /\ Len(run_random_gen) = 8 /\ DOMAIN run_random_gen = 1 .. 8 /\ run_random_gen[8] = << >>
        /\ \A r \in 1 .. 7 : run_random_gen[r] = << Query({}, Check) >>
    BY DEF run_random_gen
  <2>3. \A r \in 1 .. 8 : RoundFits(run_random_gen[r], << >>)
    BY <2>1, <2>2, NothingFits
  <2> QED
    BY <2>2, <2>3 DEF ScriptFits
<1>3. ScriptFits(run_digest)
  <2> DEFINE alg == << Begin("digest", {}, Skip), Finish("digest", Check) >>
  <2>1. RoundFits(alg, << >>)
    BY DEF RoundFits, CallFits, OrderFits, Stands, ClosedIn, Ahead,
         Call, Query, Create, Begin, Finish, Destroy, H, Pair,
         Check, Fail, Skip, Leave, Ignore, Kinds, Ops
  <2>2. /\ Len(run_digest) = 6 /\ DOMAIN run_digest = 1 .. 6 /\ run_digest[6] = << >>
        /\ \A r \in 1 .. 5 : run_digest[r] = alg
    BY DEF run_digest
  <2> HIDE DEF alg
  <2>3. \A r \in 1 .. 6 : RoundFits(run_digest[r], << >>)
    BY <2>1, <2>2, NothingFits
  <2> QED
    BY <2>2, <2>3 DEF ScriptFits
<1>4. ScriptFits(run_sym_key_gen)
  <2>1. /\ Len(run_sym_key_gen) = 5 /\ DOMAIN run_sym_key_gen = 1 .. 5 /\ run_sym_key_gen[5] = << >>
        /\ run_sym_key_gen[1] = Brief("B0", {H("hKey", "B0")})
        /\ run_sym_key_gen[2] = Brief("B1", {H("hKey", "B1")})
        /\ run_sym_key_gen[3] = Brief("B2", {H("hKey", "B2")})
        /\ run_sym_key_gen[4] = Brief("B3", {H("hKey", "B3")})
    BY DEF run_sym_key_gen
  <2>2. {"B0", "B1", "B2", "B3"} \subseteq TokenIds
    BY DEF TokenIds
  <2>3. \A r \in 1 .. 5 : RoundFits(run_sym_key_gen[r], << >>)
    <3>1. RoundFits(run_sym_key_gen[1], << >>) /\ RoundFits(run_sym_key_gen[2], << >>)
      BY <2>1, <2>2, BriefFits
    <3>2. RoundFits(run_sym_key_gen[3], << >>) /\ RoundFits(run_sym_key_gen[4], << >>)
      BY <2>1, <2>2, BriefFits
    <3>3. RoundFits(run_sym_key_gen[5], << >>)
      BY <2>1, NothingFits
    <3> QED
      BY <3>1, <3>2, <3>3
  <2> QED
    BY <2>1, <2>3 DEF ScriptFits
<1>5. ScriptFits(run_import_object)
  <2> DEFINE q == run_import_object[3]
  <2>1. /\ Len(run_import_object) = 4 /\ DOMAIN run_import_object = 1 .. 4
        /\ run_import_object[4] = << >>
        /\ run_import_object[1] = Brief("82", {H("hKey", "82")})
        /\ run_import_object[2] = Brief("83", {H("hKey", "83")})
    BY DEF run_import_object
  <2>2. /\ Len(q) = 3 /\ DOMAIN q = 1 .. 3 /\ q[1] = Create({}, {H("hPub", "80")}, Check)
        /\ q[2] = Query({H("hPub", "80")}, Ignore) /\ q[3] = Destroy(H("hPub", "80"))
    BY DEF run_import_object
  <2> HIDE DEF q
  <2>3. CallFits(q[1]) /\ CallFits(q[2]) /\ CallFits(q[3])
    <3>1. CallFits(q[3])
      BY <2>2, DestroyFits
    <3>2. CallFits(q[1]) /\ CallFits(q[2])
      BY <2>2 DEF CallFits, TokenIds,
         Call, Query, Create, Begin, Finish, Destroy, H, Pair,
         Check, Fail, Skip, Leave, Ignore, Kinds, Ops
    <3> QED
      BY <3>1, <3>2
  <2>4. \A k \in DOMAIN q : OrderFits(q, k)
    BY <2>2 DEF OrderFits, Stands,
         Call, Query, Create, Begin, Finish, Destroy, H, Pair,
         Check, Fail, Skip, Leave, Ignore, Kinds, Ops
  <2>5. ClosedIn(q, 2, H("hPub", "80"))
    BY <2>2 DEF ClosedIn,
         Call, Query, Create, Begin, Finish, Destroy, H, Pair,
         Check, Fail, Skip, Leave, Ignore, Kinds, Ops
  <2>6. \A k \in DOMAIN q : \A h \in q[k].makes : ClosedIn(q, k + 1, h)
    BY <2>2, <2>5 DEF Call, Query, Create, Begin, Finish, Destroy, H, Pair,
         Check, Fail, Skip, Leave, Ignore, Kinds, Ops
  <2>7. RoundFits(q, << >>)
    <3>1. \A k \in DOMAIN q : CallFits(q[k])
      BY <2>2, <2>3
    <3> QED
      BY <2>2, <3>1, <2>4, <2>6 DEF RoundFits
  <2>8. \A r \in 1 .. 4 : RoundFits(run_import_object[r], << >>)
    <3>1. "82" \in TokenIds /\ "83" \in TokenIds
      BY DEF TokenIds
    <3>2. RoundFits(run_import_object[1], << >>) /\ RoundFits(run_import_object[2], << >>)
      BY <2>1, <3>1, BriefFits
    <3>3. RoundFits(run_import_object[3], << >>) /\ RoundFits(run_import_object[4], << >>)
      BY <2>1, <2>7, NothingFits DEF q
    <3> QED
      BY <3>2, <3>3
  <2> QED
    BY <2>1, <2>8 DEF ScriptFits
<1>6. ScriptFits(run_ecc)
  <2>1. ASSUME NEW id \in {"30", "31", "32"}
        PROVE  RoundFits(Curve(id), << >>)
    <3> DEFINE q == Curve(id)
    <3>1. Len(q) = 8 /\ DOMAIN q = 1 .. 8
      BY DEF Curve
    <3>2. /\ q[1] = Create({}, Pair(id), Skip) /\ q[2] = Query({H("hPub", id)}, Ignore)
          /\ q[3] = Begin("sign", {H("hPriv", id)}, Skip) /\ q[4] = Finish("sign", Fail)
          /\ q[5] = Begin("verify", {H("hPub", id)}, Fail) /\ q[6] = Finish("verify", Fail)
          /\ q[7] = Destroy(H("hPriv", id)) /\ q[8] = Destroy(H("hPub", id))
      BY DEF Curve
    <3> HIDE DEF q
    <3>3. \A k \in DOMAIN q : CallFits(q[k])
      <4>1. CallFits(q[1])
        BY <2>1, <3>2 DEF CallFits, TokenIds,
         Call, Query, Create, Begin, Finish, Destroy, H, Pair,
         Check, Fail, Skip, Leave, Ignore, Kinds, Ops
      <4>2. CallFits(q[2]) /\ CallFits(q[3]) /\ CallFits(q[4]) /\ CallFits(q[5]) /\ CallFits(q[6])
        BY <3>2 DEF CallFits,
         Call, Query, Create, Begin, Finish, Destroy, H, Pair,
         Check, Fail, Skip, Leave, Ignore, Kinds, Ops
      <4>3. CallFits(q[7]) /\ CallFits(q[8])
        BY <3>2, DestroyFits
      <4> QED
        BY <4>1, <4>2, <4>3, <3>1
    <3>4. \A k \in DOMAIN q : OrderFits(q, k)
      BY <3>1, <3>2 DEF OrderFits, Stands,
         Call, Query, Create, Begin, Finish, Destroy, H, Pair,
         Check, Fail, Skip, Leave, Ignore, Kinds, Ops
    <3>5. ASSUME NEW h \in Pair(id) PROVE ClosedIn(q, 2, h)
      <4>1. \A n \in 2 .. Len(q) : q[n].onfail.to # "cleanup"
        BY <3>1, <3>2 DEF Call, Query, Create, Begin, Finish, Destroy, H, Pair,
         Check, Fail, Skip, Leave, Ignore, Kinds, Ops
      <4>2. q[7].uses = {H("hPriv", id)} /\ q[8].uses = {H("hPub", id)}
            /\ q[7].kind = "destroy" /\ q[8].kind = "destroy"
        BY <3>2 DEF Call, Query, Create, Begin, Finish, Destroy, H, Pair,
         Check, Fail, Skip, Leave, Ignore, Kinds, Ops
      <4>3. CASE h = H("hPub", id)
        BY <4>1, <4>2, <4>3, <3>1 DEF ClosedIn,
         Call, Query, Create, Begin, Finish, Destroy, H, Pair,
         Check, Fail, Skip, Leave, Ignore, Kinds, Ops
      <4>4. CASE h = H("hPriv", id)
        BY <4>1, <4>2, <4>4, <3>1 DEF ClosedIn,
         Call, Query, Create, Begin, Finish, Destroy, H, Pair,
         Check, Fail, Skip, Leave, Ignore, Kinds, Ops
      <4> QED
        BY <4>3, <4>4 DEF Pair
    <3>6. \A k \in DOMAIN q : \A h \in q[k].makes : ClosedIn(q, k + 1, h)
      BY <3>1, <3>2, <3>5 DEF Call, Query, Create, Begin, Finish, Destroy, H, Pair,
         Check, Fail, Skip, Leave, Ignore, Kinds, Ops
    <3> QED
      BY <3>1, <3>3, <3>4, <3>6 DEF RoundFits, q
  <2>2. Len(run_ecc) = 4 /\ DOMAIN run_ecc = 1 .. 4
    BY DEF run_ecc
  <2>3. /\ run_ecc[1] = Curve("30") /\ run_ecc[2] = Curve("31")
        /\ run_ecc[3] = Curve("32") /\ run_ecc[4] = << >>
    BY DEF run_ecc
  <2>4. RoundFits(<< >>, << >>)
    BY DEF RoundFits
  <2> QED
    BY <2>1, <2>2, <2>3, <2>4 DEF ScriptFits
<1>7. ScriptFits(run_rsa)
  <2> DEFINE q    == run_rsa[1]
             last == run_rsa[2]
  <2>1. Len(run_rsa) = 2 /\ DOMAIN run_rsa = 1 .. 2
    BY DEF run_rsa
  <2>2. /\ Len(last) = 2 /\ DOMAIN last = 1 .. 2
        /\ last[1] = Destroy(H("hPriv", "40")) /\ last[2] = Destroy(H("hPub", "40"))
    BY DEF run_rsa
  <2>3. /\ Len(q) = 10 /\ DOMAIN q = 1 .. 10
        /\ q[1] = Create({}, Pair("40"), Check) /\ q[2] = Query({H("hPub", "40")}, Ignore)
        /\ q[3] = Begin("sign", {H("hPriv", "40")}, Check) /\ q[4] = Finish("sign", Check)
        /\ q[5] = Begin("verify", {H("hPub", "40")}, Check) /\ q[6] = Finish("verify", Check)
        /\ q[7] = Begin("sign", {H("hPriv", "40")}, Leave) /\ q[8] = Finish("sign", Check)
        /\ q[9] = Begin("verify", {H("hPub", "40")}, Check) /\ q[10] = Finish("verify", Check)
    BY DEF run_rsa
  <2> HIDE DEF q, last
  <2>4. RoundFits(last, last)
    <3>1. \A k \in DOMAIN last : CallFits(last[k]) /\ last[k].makes = {}
      <4>1. \A k \in DOMAIN last : CallFits(last[k])
        BY <2>2, DestroyFits
      <4>2. \A k \in DOMAIN last : last[k].makes = {}
        BY <2>2 DEF Destroy, Call
      <4> QED
        BY <4>1, <4>2
    <3>2. \A k \in DOMAIN last : OrderFits(last, k)
      BY <2>2 DEF OrderFits, Stands,
         Call, Query, Create, Begin, Finish, Destroy, H, Pair,
         Check, Fail, Skip, Leave, Ignore, Kinds, Ops
    <3> QED
      BY <2>2, <3>1, <3>2 DEF RoundFits
  <2>5. \A h \in Pair("40") : Ahead(last, 1, h)
    BY <2>2 DEF Ahead,
         Call, Query, Create, Begin, Finish, Destroy, H, Pair,
         Check, Fail, Skip, Leave, Ignore, Kinds, Ops
  <2>6. \A k \in DOMAIN q : CallFits(q[k])
    <3>1. CallFits(q[1]) /\ CallFits(q[2]) /\ CallFits(q[3]) /\ CallFits(q[4])
      BY <2>3 DEF CallFits, TokenIds,
         Call, Query, Create, Begin, Finish, Destroy, H, Pair,
         Check, Fail, Skip, Leave, Ignore, Kinds, Ops
    <3>2. CallFits(q[5]) /\ CallFits(q[6]) /\ CallFits(q[7]) /\ CallFits(q[8])
      BY <2>3 DEF CallFits, TokenIds,
         Call, Query, Create, Begin, Finish, Destroy, H, Pair,
         Check, Fail, Skip, Leave, Ignore, Kinds, Ops
    <3>3. CallFits(q[9]) /\ CallFits(q[10])
      BY <2>3 DEF CallFits, TokenIds,
         Call, Query, Create, Begin, Finish, Destroy, H, Pair,
         Check, Fail, Skip, Leave, Ignore, Kinds, Ops
    <3>4. DOMAIN q = 1 .. 10
      BY <2>3
    <3> QED
      BY <3>1, <3>2, <3>3, <3>4
  <2>7. \A k \in DOMAIN q : OrderFits(q, k)
    BY <2>3 DEF OrderFits, Stands,
         Call, Query, Create, Begin, Finish, Destroy, H, Pair,
         Check, Fail, Skip, Leave, Ignore, Kinds, Ops
  <2>8. \A k \in DOMAIN q : \A h \in q[k].makes : Ahead(last, 1, h)
    BY <2>3, <2>5 DEF Call, Query, Create, Begin, Finish, Destroy, H, Pair,
         Check, Fail, Skip, Leave, Ignore, Kinds, Ops
  <2>9. RoundFits(q, last)
    BY <2>3, <2>6, <2>7, <2>8 DEF RoundFits
  <2>10. \A k \in DOMAIN last : last[k].kind = "destroy" /\ last[k].makes = {}
    BY <2>2 DEF Destroy, Call
  <2> QED
    BY <2>1, <2>4, <2>9, <2>10 DEF ScriptFits, q, last
<1>8. ScriptFits(run_ecdh_derive)
  <2> DEFINE q    == run_ecdh_derive[1]
             last == run_ecdh_derive[2]
  <2>1. Len(run_ecdh_derive) = 2 /\ DOMAIN run_ecdh_derive = 1 .. 2
    BY DEF run_ecdh_derive
  <2>2. /\ Len(last) = 6 /\ DOMAIN last = 1 .. 6
        /\ last[1] = Destroy(H("hShared2", "S2")) /\ last[2] = Destroy(H("hShared1", "S1"))
        /\ last[3] = Destroy(H("hPriv", "71")) /\ last[4] = Destroy(H("hPub", "71"))
        /\ last[5] = Destroy(H("hPriv", "70")) /\ last[6] = Destroy(H("hPub", "70"))
    BY DEF run_ecdh_derive
  <2>3. /\ Len(q) = 9 /\ DOMAIN q = 1 .. 9
        /\ q[1] = Create({}, alice, Check) /\ q[2] = Create({}, bob, Check)
        /\ q[3] = Query({H("hPub", "71")}, Check) /\ q[4] = Query({H("hPub", "70")}, Check)
        /\ q[5] = Create({H("hPriv", "70")}, {H("hShared1", "S1")}, Leave)
        /\ q[6] = Call("export", "alice", {H("hShared1", "S1")}, {}, Ignore)
        /\ q[7] = Create({H("hPriv", "71")}, {H("hShared2", "S2")}, Leave)
        /\ q[8] = Export("bob", {H("hShared2", "S2")})
        /\ q[9] = Compare("secret", Ignore)
    BY DEF run_ecdh_derive, Export, Call
  <2> HIDE DEF q, last
  <2>4. RoundFits(last, last)
    <3>1. \A k \in DOMAIN last : CallFits(last[k])
      BY <2>2, DestroyFits
    <3>2. \A k \in DOMAIN last : last[k].makes = {}
      BY <2>2 DEF Destroy, Call
    <3>3. \A k \in DOMAIN last : OrderFits(last, k)
      BY <2>2 DEF OrderFits, Stands,
         Call, Query, Create, Begin, Finish, Destroy, H, Pair,
         Check, Fail, Skip, Leave, Ignore, Kinds, Ops
    <3> QED
      BY <2>2, <3>1, <3>2, <3>3 DEF RoundFits
  <2>5. \A h \in alice \cup bob \cup {H("hShared1", "S1"), H("hShared2", "S2")} : Ahead(last, 1, h)
    BY <2>2 DEF Ahead, alice, bob,
         Call, Query, Create, Begin, Finish, Destroy, H, Pair,
         Check, Fail, Skip, Leave, Ignore, Kinds, Ops
  <2>6. \A k \in DOMAIN q : CallFits(q[k])
    <3>1. CallFits(q[1]) /\ CallFits(q[2])
      BY <2>3 DEF CallFits, TokenIds, alice, bob,
         Call, Query, Create, Begin, Finish, Destroy, H, Pair,
         Check, Fail, Skip, Leave, Ignore, Kinds, Ops
    <3>2. CallFits(q[3]) /\ CallFits(q[4]) /\ CallFits(q[6]) /\ CallFits(q[8]) /\ CallFits(q[9])
      BY <2>3 DEF CallFits, Export, Compare,
         Call, Query, Create, Begin, Finish, Destroy, H, Pair,
         Check, Fail, Skip, Leave, Ignore, Kinds, Ops
    <3>3. CallFits(q[5]) /\ CallFits(q[7])
      BY <2>3 DEF CallFits, SessionIds,
         Call, Query, Create, Begin, Finish, Destroy, H, Pair,
         Check, Fail, Skip, Leave, Ignore, Kinds, Ops
    <3>4. DOMAIN q = 1 .. 9
      BY <2>3
    <3> QED
      BY <3>1, <3>2, <3>3, <3>4
  <2>7. \A k \in DOMAIN q : OrderFits(q, k)
    BY <2>3 DEF OrderFits, Stands, Export, Compare,
         Call, Query, Create, Begin, Finish, Destroy, H, Pair,
         Check, Fail, Skip, Leave, Ignore, Kinds, Ops
  <2>8. \A k \in DOMAIN q : \A h \in q[k].makes : Ahead(last, 1, h)
    <3>1. \A k \in DOMAIN q : q[k].makes \subseteq
              alice \cup bob \cup {H("hShared1", "S1"), H("hShared2", "S2")}
      BY <2>3 DEF Create, Query, Export, Compare, Call
    <3> QED
      BY <2>5, <3>1
  <2>9. RoundFits(q, last)
    BY <2>3, <2>6, <2>7, <2>8 DEF RoundFits
  <2>10. \A k \in DOMAIN last : last[k].kind = "destroy" /\ last[k].makes = {}
    BY <2>2 DEF Destroy, Call
  <2> QED
    BY <2>1, <2>4, <2>9, <2>10 DEF ScriptFits, q, last
<1>9. ScriptFits(run_hmac)
  <2> DEFINE key  == H("hKey", "60")
             make == << Create({}, {key}, Check) >>
             alg  == << Begin("sign", {key}, Skip), Finish("sign", Check),
                        Begin("verify", {key}, Check), Finish("verify", Check) >>
             last == << Destroy(key) >>
  <2>1. /\ Len(run_hmac) = 6 /\ DOMAIN run_hmac = 1 .. 6
        /\ run_hmac[1] = make /\ run_hmac[2] = alg /\ run_hmac[3] = alg
        /\ run_hmac[4] = alg /\ run_hmac[5] = alg /\ run_hmac[6] = last
    BY DEF run_hmac
  <2>2. Len(last) = 1 /\ DOMAIN last = 1 .. 1 /\ last[1] = Destroy(key)
    OBVIOUS
  <2>3. RoundFits(last, last)
    <3>1. \A k \in DOMAIN last : CallFits(last[k])
      BY <2>2, DestroyFits
    <3>2. \A k \in DOMAIN last : last[k].makes = {}
      BY <2>2 DEF Destroy, Call
    <3>3. \A k \in DOMAIN last : OrderFits(last, k)
      BY <2>2 DEF OrderFits, Stands,
         Call, Query, Create, Begin, Finish, Destroy, H, Pair,
         Check, Fail, Skip, Leave, Ignore, Kinds, Ops
    <3> QED
      BY <2>2, <3>1, <3>2, <3>3 DEF RoundFits
  <2>4. Ahead(last, 1, key)
    BY <2>2 DEF Ahead, Destroy, Call
  <2>5. RoundFits(make, last)
    <3>1. CallFits(make[1])
      BY DEF CallFits, TokenIds,
         Call, Query, Create, Begin, Finish, Destroy, H, Pair,
         Check, Fail, Skip, Leave, Ignore, Kinds, Ops
    <3>2. make[1].makes = {key} /\ Len(make) = 1 /\ DOMAIN make = 1 .. 1
      BY DEF Create, Call
    <3>3. OrderFits(make, 1)
      BY DEF OrderFits, Stands,
         Call, Query, Create, Begin, Finish, Destroy, H, Pair,
         Check, Fail, Skip, Leave, Ignore, Kinds, Ops
    <3> HIDE DEF make, last
    <3>4. /\ \A k \in DOMAIN make : CallFits(make[k]) /\ OrderFits(make, k)
          /\ \A k \in DOMAIN make : \A h \in make[k].makes : Ahead(last, 1, h)
      BY <2>4, <3>1, <3>2, <3>3
    <3> QED
      BY <3>2, <3>4 DEF RoundFits
  <2>6. RoundFits(alg, last)
    BY DEF RoundFits, CallFits, OrderFits, Stands, ClosedIn, Ahead,
         Call, Query, Create, Begin, Finish, Destroy, H, Pair,
         Check, Fail, Skip, Leave, Ignore, Kinds, Ops
  <2>7. last[1].kind = "destroy" /\ last[1].makes = {}
    BY DEF Destroy, Call
  <2> HIDE DEF make, alg, last
  <2>8. \A r \in 1 .. 6 : RoundFits(run_hmac[r], last)
    BY <2>1, <2>3, <2>5, <2>6
  <2> QED
    BY <2>1, <2>2, <2>7, <2>8 DEF ScriptFits
<1>10. ScriptFits(run_encrypt_decrypt)
  <2> DEFINE aes  == H("hAes", "50")
             make == << Create({}, {aes}, Check) >>
             trip == << Begin("encrypt", {aes}, Check), Finish("encrypt", Check),
                        Begin("decrypt", {aes}, Check), Finish("decrypt", Check),
                        Compare("ct", Check) >>
             rsa  == run_encrypt_decrypt[5]
             last == << Destroy(aes) >>
  <2>1. /\ Len(run_encrypt_decrypt) = 6 /\ DOMAIN run_encrypt_decrypt = 1 .. 6
        /\ run_encrypt_decrypt[1] = make /\ run_encrypt_decrypt[2] = trip
        /\ run_encrypt_decrypt[3] = trip /\ run_encrypt_decrypt[4] = last
        /\ run_encrypt_decrypt[6] = last
    BY DEF run_encrypt_decrypt
  <2>2. Len(last) = 1 /\ DOMAIN last = 1 .. 1 /\ last[1] = Destroy(aes)
    OBVIOUS
  <2>3. RoundFits(last, last)
    <3>1. \A k \in DOMAIN last : CallFits(last[k])
      BY <2>2, DestroyFits
    <3>2. \A k \in DOMAIN last : last[k].makes = {}
      BY <2>2 DEF Destroy, Call
    <3>3. \A k \in DOMAIN last : OrderFits(last, k)
      BY <2>2 DEF OrderFits, Stands,
         Call, Query, Create, Begin, Finish, Destroy, H, Pair,
         Check, Fail, Skip, Leave, Ignore, Kinds, Ops
    <3> QED
      BY <2>2, <3>1, <3>2, <3>3 DEF RoundFits
  <2>4. Ahead(last, 1, aes)
    BY <2>2 DEF Ahead, Destroy, Call
  <2>5. RoundFits(make, last)
    <3>1. CallFits(make[1])
      BY DEF CallFits, TokenIds,
         Call, Query, Create, Begin, Finish, Destroy, H, Pair,
         Check, Fail, Skip, Leave, Ignore, Kinds, Ops
    <3>2. make[1].makes = {aes} /\ Len(make) = 1 /\ DOMAIN make = 1 .. 1
      BY DEF Create, Call
    <3>3. OrderFits(make, 1)
      BY DEF OrderFits, Stands,
         Call, Query, Create, Begin, Finish, Destroy, H, Pair,
         Check, Fail, Skip, Leave, Ignore, Kinds, Ops
    <3> HIDE DEF make, last
    <3>4. /\ \A k \in DOMAIN make : CallFits(make[k]) /\ OrderFits(make, k)
          /\ \A k \in DOMAIN make : \A h \in make[k].makes : Ahead(last, 1, h)
      BY <2>4, <3>1, <3>2, <3>3
    <3> QED
      BY <3>2, <3>4 DEF RoundFits
  <2>6. RoundFits(trip, last)
    BY DEF RoundFits, CallFits, OrderFits, Stands, ClosedIn, Ahead, Compare,
         Call, Query, Create, Begin, Finish, Destroy, H, Pair,
         Check, Fail, Skip, Leave, Ignore, Kinds, Ops
  <2>7. last[1].kind = "destroy" /\ last[1].makes = {}
    BY DEF Destroy, Call
  <2>8. /\ Len(rsa) = 8 /\ DOMAIN rsa = 1 .. 8
        /\ rsa[1] = Create({}, Pair("51"), Leave)
        /\ rsa[2] = Begin("encrypt", {H("hPub", "51")}, Skip)
        /\ rsa[3] = Finish("encrypt", Fail)
        /\ rsa[4] = Begin("decrypt", {H("hPriv", "51")}, Fail)
        /\ rsa[5] = Finish("decrypt", Fail) /\ rsa[6] = Compare("ct", Fail)
        /\ rsa[7] = Destroy(H("hPriv", "51")) /\ rsa[8] = Destroy(H("hPub", "51"))
    BY DEF run_encrypt_decrypt
  <2> HIDE DEF make, trip, rsa, last
  <2>9. RoundFits(rsa, last)
    <3>1. \A k \in DOMAIN rsa : CallFits(rsa[k])
      <4>1. CallFits(rsa[1])
        BY <2>8 DEF CallFits, TokenIds,
         Call, Query, Create, Begin, Finish, Destroy, H, Pair,
         Check, Fail, Skip, Leave, Ignore, Kinds, Ops
      <4>2. CallFits(rsa[2]) /\ CallFits(rsa[3]) /\ CallFits(rsa[4]) /\ CallFits(rsa[5])
            /\ CallFits(rsa[6])
        BY <2>8 DEF CallFits, Compare,
         Call, Query, Create, Begin, Finish, Destroy, H, Pair,
         Check, Fail, Skip, Leave, Ignore, Kinds, Ops
      <4>3. CallFits(rsa[7]) /\ CallFits(rsa[8])
        BY <2>8, DestroyFits
      <4> QED
        BY <4>1, <4>2, <4>3, <2>8
    <3>2. \A k \in DOMAIN rsa : OrderFits(rsa, k)
      BY <2>8 DEF OrderFits, Stands, Compare,
         Call, Query, Create, Begin, Finish, Destroy, H, Pair,
         Check, Fail, Skip, Leave, Ignore, Kinds, Ops
    <3>3. ASSUME NEW h \in Pair("51") PROVE ClosedIn(rsa, 2, h)
      <4>1. \A n \in 2 .. Len(rsa) : rsa[n].onfail.to # "cleanup"
        BY <2>8 DEF Compare,
         Call, Query, Create, Begin, Finish, Destroy, H, Pair,
         Check, Fail, Skip, Leave, Ignore, Kinds, Ops
      <4>2. rsa[7].uses = {H("hPriv", "51")} /\ rsa[8].uses = {H("hPub", "51")}
            /\ rsa[7].kind = "destroy" /\ rsa[8].kind = "destroy"
        BY <2>8 DEF Destroy, Call
      <4>3. CASE h = H("hPub", "51")
        BY <4>1, <4>2, <4>3, <2>8 DEF ClosedIn
      <4>4. CASE h = H("hPriv", "51")
        BY <4>1, <4>2, <4>4, <2>8 DEF ClosedIn
      <4> QED
        BY <4>3, <4>4 DEF Pair
    <3>4. \A k \in DOMAIN rsa : \A h \in rsa[k].makes : ClosedIn(rsa, k + 1, h)
      BY <2>8, <3>3 DEF Create, Begin, Finish, Compare, Destroy, Call
    <3> QED
      BY <2>8, <3>1, <3>2, <3>4 DEF RoundFits
  <2>10. \A r \in 1 .. 6 : RoundFits(run_encrypt_decrypt[r], last)
    BY <2>1, <2>3, <2>5, <2>6, <2>9 DEF rsa
  <2> QED
    BY <2>1, <2>2, <2>7, <2>10 DEF ScriptFits
<1> QED
  <2>1. /\ Demos[1] = run_module_info /\ Demos[2] = run_random_gen /\ Demos[3] = run_digest
        /\ Demos[4] = run_sym_key_gen /\ Demos[5] = run_import_object /\ Demos[6] = run_ecc
        /\ Demos[7] = run_rsa /\ Demos[8] = run_ecdh_derive /\ Demos[9] = run_hmac
        /\ Demos[10] = run_encrypt_decrypt
    BY DEF Demos
  <2>2. DOMAIN Demos = 1 .. 10
    BY TenDemos
  <2> QED
    BY <1>1, <1>2, <1>3, <1>4, <1>5, <1>6, <1>7, <1>8, <1>9, <1>10, <2>1, <2>2

-----------------------------------------------------------------------------
(* The position in the scripts. *)

LEMMA CurrentScript ==
    ASSUME SuiteInv, at = "demos"
    PROVE  stage \in DOMAIN Demos /\ ScriptFits(Script)
BY ScriptsFit, TenDemos DEF SuiteInv, Script

(* The end of a round lies behind every call that is not one of the last   *)
(* DESTROYs.                                                               *)
LEMMA RoundEndIs ==
    ASSUME Len(Round) \in Nat, DOMAIN Round = 1 .. Len(Round), pc \in DOMAIN Round,
           Current.kind # "destroy"
    PROVE  /\ RoundEnd \in pc + 1 .. Len(Round) + 1
           /\ Round[RoundEnd - 1].kind # "destroy"
           /\ \A j \in RoundEnd .. Len(Round) : Round[j].kind = "destroy"
<1> DEFINE P(k) == \A j \in k .. Len(Round) : Round[j].kind = "destroy"
           T == { k \in 1 .. Len(Round) + 1 : P(k) }
           R == { ss \in Nat \X Nat : ss[1] < ss[2] }
           Good(k) == P(k) /\ (k > 1 => Round[k - 1].kind # "destroy")
<1>1. Len(Round) + 1 \in T
  OBVIOUS
<1>2. IsWellFoundedOn(R, Nat)
  BY NatLessThanWellFounded DEF OpToRel
<1>3. PICK k \in T : \A m \in T : ~(<< m, k >> \in R)
  <2>1. T \subseteq Nat /\ T # {}
    BY <1>1
  <2> HIDE DEF T, R
  <2> QED
    BY <1>2, <2>1, WFMin
<1>4. ASSUME NEW m \in T PROVE k <= m
  <2>1. ~(<< m, k >> \in R)
    BY <1>3
  <2>2. m \in Nat /\ k \in Nat /\ << m, k >> \in Nat \X Nat
    OBVIOUS
  <2>3. << m, k >>[1] = m /\ << m, k >>[2] = k
    OBVIOUS
  <2>4. ~(m < k)
    BY <2>1, <2>2, <2>3
  <2> QED
    BY <2>2, <2>4
<1>5. k > 1 => Round[k - 1].kind # "destroy"
  <2> SUFFICES ASSUME k > 1, Round[k - 1].kind = "destroy" PROVE FALSE
    OBVIOUS
  <2>1. P(k - 1)
    OBVIOUS
  <2>2. k - 1 \in T
    BY <2>1
  <2> QED
    BY <1>4, <2>2
<1>6. RoundEnd \in 1 .. Len(Round) + 1 /\ Good(RoundEnd)
  BY <1>5 DEF RoundEnd
<1>7. RoundEnd > pc
  BY <1>6 DEF Current
<1> QED
  BY <1>6, <1>7


(* A call of the functions other than DESTROY. *)
FunctionCall == \/ Info \/ Make \/ BeginOperation \/ FinishOperation
                \/ ExportSecret \/ CompareOutputs

Refusal == /\ frc' = IF Current.onfail.rc = 1 THEN 1 ELSE frc
           /\ \/ round' = round /\ pc' = pc + 1
              \/ round' = round /\ pc' = RoundEnd /\ Current.onfail.to = "end"
              \/ round' = Len(Script) /\ pc' = 1 /\ Current.onfail.to = "cleanup"

(* Where a call stands and where control goes. *)
LEMMA Moves ==
    ASSUME SuiteInv, FunctionCall \/ DestroyObject
    PROVE  /\ at = "demos" /\ at' = at /\ stage' = stage
           /\ ScriptFits(Script) /\ RoundFits(Round, Script[Len(Script)])
           /\ round \in DOMAIN Script /\ pc \in DOMAIN Round
           /\ \/ round' = round /\ pc' = pc + 1 /\ frc' = frc
              \/ FunctionCall /\ Refusal
           /\ FunctionCall => Current.kind # "destroy"
           /\ DestroyObject => Current.kind = "destroy"
<1>1. /\ at = "demos" /\ at' = at /\ stage' = stage
  BY CallsAreLocal DEF Calls, FunctionCall
<1>2. ScriptFits(Script)
  BY <1>1, CurrentScript
<1>3. round \in DOMAIN Script /\ pc \in DOMAIN Round
  BY DEF FunctionCall, At, Info, Make, BeginOperation, FinishOperation, ExportSecret,
         CompareOutputs, DestroyObject
<1>4. RoundFits(Round, Script[Len(Script)])
  BY <1>2, <1>3 DEF ScriptFits, Round
<1>5. /\ FunctionCall => Current.kind # "destroy"
      /\ DestroyObject => Current.kind = "destroy"
  BY DEF FunctionCall, At, Info, Make, BeginOperation, FinishOperation, ExportSecret,
         CompareOutputs, DestroyObject
<1>6. CASE FunctionCall
  <2>1. Proceed \/ Refused
    BY <1>6 DEF FunctionCall, Info, Make, BeginOperation, FinishOperation, ExportSecret,
                CompareOutputs
  <2>2. CASE Proceed
    BY <2>2, <1>1, <1>2, <1>3, <1>4, <1>5 DEF Proceed
  <2>3. CASE Refused
    BY <2>3, <1>1, <1>2, <1>3, <1>4, <1>5, <1>6 DEF Refused, Refusal
  <2> QED
    BY <2>1, <2>2, <2>3
<1>7. CASE DestroyObject
  BY <1>7, <1>1, <1>2, <1>3, <1>4, <1>5 DEF DestroyObject, Proceed
<1> QED
  BY <1>6, <1>7

-----------------------------------------------------------------------------
(* Typing. *)

Place ==
    at = "demos" => /\ stage \in DOMAIN Demos
                    /\ round \in 1 .. Len(Script) + 1
                    /\ round \in DOMAIN Script => pc \in 1 .. Len(Round) + 1
                    /\ round = 1 /\ pc = 1 => frc = 0

(* Nothing has happened before the first function begins. *)
Fresh ==
    /\ frc \in {0, 1}
    /\ at \in Ways => /\ round = 1 /\ pc = 1 /\ frc = 0 /\ held = {} /\ pending = {}
                      /\ active = {} /\ objects = before /\ lost = {}

LEMMA PlaceStep ==
    ASSUME SuiteInv, Fresh, Place, [Next]_vars
    PROVE  Place'
<1>1. CASE FunctionCall \/ DestroyObject
  <2>1. /\ at = "demos" /\ stage' = stage /\ ScriptFits(Script)
        /\ RoundFits(Round, Script[Len(Script)])
        /\ round \in DOMAIN Script /\ pc \in DOMAIN Round
    BY <1>1, Moves
  <2>2. Script' = Script
    BY <2>1 DEF Script
  <2>3. /\ DOMAIN Script = 1 .. Len(Script) /\ Len(Script) \in Nat /\ Len(Script) >= 2
        /\ DOMAIN Round = 1 .. Len(Round) /\ Len(Round) \in Nat
    BY <2>1 DEF ScriptFits, RoundFits
  <2>4. CASE round' = round /\ pc' = pc + 1
    <3>1. Round' = Round
      BY <2>2, <2>4 DEF Round
    <3> QED
      BY <2>1, <2>2, <2>3, <2>4, <3>1 DEF Place
  <2>5. CASE round' = round /\ pc' = RoundEnd /\ FunctionCall
    <3>1. Round' = Round
      BY <2>2, <2>5 DEF Round
    <3>2. RoundEnd \in pc + 1 .. Len(Round) + 1
      BY <2>1, <2>3, <2>5, Moves, RoundEndIs
    <3> QED
      BY <2>1, <2>2, <2>3, <2>5, <3>1, <3>2 DEF Place
  <2>6. CASE round' = Len(Script) /\ pc' = 1
    <3>1. Round' = Script[Len(Script)]
      BY <2>2, <2>6 DEF Round
    <3>2. Len(Round') \in Nat
      BY <2>1, <2>3, <3>1 DEF ScriptFits, RoundFits
    <3> QED
      BY <2>1, <2>2, <2>3, <2>6, <3>2 DEF Place
  <2> QED
    BY <1>1, <2>4, <2>5, <2>6, Moves DEF Refusal
<1>2. CASE NextRound
  <2>1. /\ at = "demos" /\ stage' = stage /\ stage \in DOMAIN Demos /\ ScriptFits(Script)
        /\ round \in DOMAIN Script /\ round' = round + 1 /\ pc' = 1
    BY <1>2, CurrentScript DEF NextRound
  <2>2. Script' = Script
    BY <2>1 DEF Script
  <2>3. round' \in DOMAIN Script => Len(Round') \in Nat
    BY <2>1, <2>2 DEF ScriptFits, RoundFits, Round
  <2> QED
    BY <2>1, <2>2, <2>3 DEF Place, ScriptFits
<1>3. CASE Return
  <2>1. stage' = stage + 1 /\ round' = 1 /\ pc' = 1 /\ frc' = 0
        /\ (at' = "demos" => stage' \in DOMAIN Demos)
    BY <1>3, TenDemos DEF Return
  <2> QED
    BY <2>1, ScriptsFit DEF Place, Script, Round, ScriptFits, RoundFits
<1>4. CASE Approach
  <2>1. /\ stage' = stage /\ round' = 1 /\ pc' = 1 /\ frc' = 0 /\ stage = 1
    BY <1>4, ApproachGoesOn DEF Fresh, SuiteInv
  <2> QED
    BY <2>1, ScriptsFit, TenDemos DEF Place, Script, Round, ScriptFits, RoundFits
<1>5. CASE Ending
  BY <1>5, EndingGoesOn DEF Place
<1>6. CASE Launch \/ Kill
  BY <1>6 DEF Launch, Kill, Place
<1>7. CASE UNCHANGED vars
  BY <1>7 DEF vars, Place, Script, Round
<1> QED
  BY <1>1, <1>2, <1>3, <1>4, <1>5, <1>6, <1>7
     DEF Next, DemoStep, MainStep, FunctionCall, Approach, Ending

LEMMA FreshStep ==
    ASSUME SuiteInv, Fresh, [Next]_vars
    PROVE  Fresh'
<1>1. CASE FunctionCall \/ DestroyObject
  BY <1>1, Moves DEF Fresh, Refusal, Ways
<1>2. CASE NextRound \/ Return
  BY <1>2 DEF NextRound, Return, Fresh, Quiet, Ways
<1>3. CASE Approach
  BY <1>3, ApproachGoesOn DEF Fresh, Ways
<1>4. CASE Ending
  <2>1. frc' = frc
    BY <1>4 DEF Ending, CloseSession, Finalize, Unload, control
  <2> QED
    BY <1>4, <2>1, EndingGoesOn DEF Fresh, Ways
<1>5. CASE Launch
  BY <1>5 DEF Launch, EndOfSession, Fresh
<1>6. CASE Kill
  BY <1>6 DEF Kill, Fresh, control, Ways
<1>7. CASE UNCHANGED vars
  BY <1>7 DEF vars, Fresh
<1> QED
  BY <1>1, <1>2, <1>3, <1>4, <1>5, <1>6, <1>7
     DEF Next, DemoStep, MainStep, FunctionCall, Approach, Ending


(* Objects, handles, operations and outputs. *)
Data ==
    /\ objects \subseteq TokenIds \cup SessionIds /\ before \subseteq TokenIds
    /\ active \subseteq Ops
    /\ \A h \in held : h.id \in TokenIds \cup SessionIds
    /\ pending \subseteq {"sig", "ct", "alice", "bob"}

LEMMA CurrentFits ==
    ASSUME SuiteInv, FunctionCall \/ DestroyObject
    PROVE  CallFits(Current)
BY Moves DEF RoundFits, Current

LEMMA DataStep ==
    ASSUME SuiteInv, Data, [Next]_vars
    PROVE  Data'
<1> DEFINE All == TokenIds \cup SessionIds
<1>1. CASE Info
  BY <1>1 DEF Info, Quiet, history, token, locals, Data
<1>2. CASE Make
  <2>1. \A h \in Current.makes : h.id \in All
    BY <1>2, CurrentFits DEF FunctionCall, CallFits
  <2>2. Ids(Current.makes) \subseteq All
    BY <2>1 DEF Ids
  <2>3. objects' \in {objects, objects \cup Ids(Current.makes)}
        /\ held' \in {held, held \cup Current.makes}
    BY <1>2 DEF Make
  <2>4. UNCHANGED << before, active, pending >>
    BY <1>2 DEF Make, Quiet, history
  <2> QED
    BY <2>1, <2>2, <2>3, <2>4 DEF Data
<1>3. CASE BeginOperation
  <2>1. Current.op \in Ops
    BY <1>3, CurrentFits DEF FunctionCall, CallFits, BeginOperation, At
  <2>2. active' \in {active, active \cup {Current.op}}
    BY <1>3 DEF BeginOperation
  <2>3. UNCHANGED << objects, before, held, pending >>
    BY <1>3 DEF BeginOperation, Quiet, history, locals
  <2> QED
    BY <2>1, <2>2, <2>3 DEF Data
<1>4. CASE FinishOperation
  <2>1. active' \subseteq active /\ UNCHANGED << objects, before, held >>
    BY <1>4 DEF FinishOperation, Quiet, history
  <2>2. pending' \subseteq pending \cup {"sig", "ct"}
    BY <1>4 DEF FinishOperation, Produced
  <2> QED
    BY <2>1, <2>2 DEF Data
<1>5. CASE ExportSecret
  <2>1. Current.op \in {"alice", "bob"}
    BY <1>5, CurrentFits DEF FunctionCall, CallFits, ExportSecret, At
  <2>2. pending' \subseteq pending \cup {Current.op} /\ UNCHANGED << objects, active, before, held >>
    BY <1>5 DEF ExportSecret, Quiet, history, token
  <2> QED
    BY <2>1, <2>2 DEF Data
<1>6. CASE CompareOutputs
  <2>1. pending' \subseteq pending /\ UNCHANGED << objects, active, before, held >>
    BY <1>6 DEF CompareOutputs, Quiet, history, token
  <2> QED
    BY <2>1 DEF Data
<1>7. CASE DestroyObject
  <2>1. objects' \subseteq objects /\ held' \subseteq held /\ UNCHANGED << active, before, pending >>
    BY <1>7 DEF DestroyObject, Quiet, history
  <2> QED
    BY <2>1 DEF Data
<1>8. CASE NextRound \/ Return
  <2>1. held' \subseteq held /\ pending' = {} /\ UNCHANGED << objects, active, before >>
    BY <1>8 DEF NextRound, Return, Quiet, history, token
  <2> QED
    BY <2>1 DEF Data
<1>9. CASE Approach
  BY <1>9, ApproachGoesOn DEF Data
<1>10. CASE Ending \/ Kill
  <2>1. objects' \subseteq TokenIds \cup SessionIds /\ active' \subseteq active
    <3>1. CASE Ending
      BY <3>1 DEF Ending, CloseSession, Finalize, Unload, EndOfSession, token, Data
    <3>2. CASE Kill
      <4>1. At("create") => Ids(Current.makes) \subseteq All
        <5>1. ASSUME At("create") PROVE CallFits(Current)
          BY <5>1, CurrentScript DEF At, ScriptFits, RoundFits, Script, Round, Current
        <5> QED
          BY <5>1 DEF CallFits, Ids
      <4>2. PICK effect \in {objects} \cup
              (IF At("create") THEN {objects \cup Ids(Current.makes)} ELSE {}) \cup
              (IF At("destroy") THEN {objects \ Ids(Current.uses \cap held)} ELSE {}) :
                objects' = effect \ SessionIds
        BY <3>2 DEF Kill
      <4>3. effect \subseteq All
        BY <4>1, <4>2 DEF Data
      <4> QED
        BY <3>2, <4>2, <4>3 DEF Kill
    <3> QED
      BY <1>10, <3>1, <3>2
  <2>2. UNCHANGED << before, held, pending >>
    BY <1>10 DEF Ending, CloseSession, Finalize, Unload, Kill, locals, history
  <2> QED
    BY <2>1, <2>2 DEF Data
<1>11. CASE Launch
  <2>1. objects' = objects \ SessionIds /\ before' = objects' /\ active' = {}
        /\ held' = {} /\ pending' = {}
    BY <1>11 DEF Launch, EndOfSession
  <2> QED
    BY <2>1 DEF Data
<1>12. CASE UNCHANGED vars
  BY <1>12 DEF vars, Data
<1> QED
  BY <1>1, <1>2, <1>3, <1>4, <1>5, <1>6, <1>7, <1>8, <1>9, <1>10, <1>11, <1>12
     DEF Next, DemoStep, MainStep, Approach, Ending

(* The counters and what main has opened. *)
Counters ==
    /\ opened \subseteq {"library", "module", "session"}
    /\ slot \in {"unset", "listed", "garbage"}
    /\ failed \subseteq 1 .. 10
    /\ stage \in 1 .. 11
    /\ faults \in 0 .. MaxFaults /\ runs \in 0 .. MaxRuns

LEMMA CountersStep ==
    ASSUME SuiteInv, Counters, [Next]_vars
    PROVE  Counters'
<1>1. CASE FunctionCall \/ DestroyObject \/ NextRound
  <2>1. UNCHANGED << opened, slot, failed, stage, runs >>
    BY <1>1, CallsAreLocal DEF Calls, FunctionCall
  <2>2. Calm \/ Fault
    BY <1>1 DEF FunctionCall, Info, Make, BeginOperation, FinishOperation, ExportSecret,
                CompareOutputs, DestroyObject, NextRound, Calm
  <2> QED
    BY <2>1, <2>2, MaxFaultsAssumption DEF Counters, Calm, Fault
<1>2. CASE Return
  BY <1>2 DEF Return, SuiteInv, Counters, history
<1>3. CASE Approach
  <2>1. Calm \/ Fault
    BY <1>3 DEF Approach, Load, Resolve, Initialize, CountSlots, ReadSlot, OpenSession, Opening
  <2>2. UNCHANGED << failed, stage, runs >>
    BY <1>3 DEF Approach, Load, Resolve, Initialize, CountSlots, ReadSlot, OpenSession, Opening,
                control, history
  <2>3. opened' \subseteq {"library", "module", "session"} /\ slot' \in {"unset", "listed", "garbage"}
    BY <1>3 DEF Approach, Load, Resolve, Initialize, CountSlots, ReadSlot, OpenSession, Opening,
                Counters
  <2> QED
    BY <2>1, <2>2, <2>3, MaxFaultsAssumption DEF Counters, Calm, Fault
<1>4. CASE Ending
  <2>1. Calm \/ Fault
    BY <1>4 DEF Ending, CloseSession, Finalize, Unload, Calm
  <2>2. UNCHANGED << failed, stage, runs, slot >> /\ opened' \subseteq opened
    BY <1>4 DEF Ending, CloseSession, Finalize, Unload, control, history
  <2> QED
    BY <2>1, <2>2, MaxFaultsAssumption DEF Counters, Calm, Fault
<1>5. CASE Launch
  <2>1. runs' = runs + 1 /\ runs < MaxRuns /\ opened' = {} /\ slot' = "unset" /\ faults' = 0
        /\ stage' = 1 /\ failed' = {}
    BY <1>5 DEF Launch
  <2> QED
    BY <2>1, MaxRunsAssumption, MaxFaultsAssumption DEF Counters
<1>6. CASE Kill
  <2>1. Fault /\ opened' = {} /\ UNCHANGED << slot, failed, stage, runs >>
    BY <1>6 DEF Kill, control, history
  <2> QED
    BY <2>1, MaxFaultsAssumption DEF Counters, Fault
<1>7. CASE UNCHANGED vars
  BY <1>7 DEF vars, Counters
<1> QED
  BY <1>1, <1>2, <1>3, <1>4, <1>5, <1>6, <1>7
     DEF Next, DemoStep, MainStep, FunctionCall, Approach, Ending

(* All that is known of the control and of the kinds of the data. *)
Typed == SuiteInv /\ Fresh /\ Place /\ Data /\ Counters

LEMMA InitTyped == Init => Typed
<1> SUFFICES ASSUME Init PROVE Typed
  OBVIOUS
<1>1. SuiteInv
  BY InvInit
<1>2. Fresh /\ Place
  BY DEF Init, Fresh, Place, Ways
<1>3. objects \subseteq TokenIds
  BY LeftoversAssumption DEF Init
<1>4. Data
  BY <1>3 DEF Init, Data
<1>5. Counters
  BY MaxRunsAssumption, MaxFaultsAssumption DEF Init, Counters
<1> QED
  BY <1>1, <1>2, <1>4, <1>5 DEF Typed

LEMMA StaysTyped ==
    ASSUME Typed, [Next]_vars
    PROVE  Typed'
BY InvStep, FreshStep, PlaceStep, DataStep, CountersStep DEF Typed

LEMMA TypedAlways == Spec => []Typed
BY InitTyped, StaysTyped, PTL DEF Spec

(* The variables of the suite stay in their ranges: no failure takes a     *)
(* function past its end.                                                  *)
THEOREM SuiteTyping == Spec => []TypeOK
<1>1. Typed => TypeOK
  BY TenDemos DEF Typed, TypeOK, SuiteInv, Fresh, Place, Data, Counters, Ways, Ops
<1> QED
  BY <1>1, TypedAlways, PTL


-----------------------------------------------------------------------------
(* Operations left active, and outputs not confirmed. *)

Here(kind, op) == round \in DOMAIN Script /\ Stands(Round, pc, kind, op)

(* An operation is active because its end comes next, or because a         *)
(* function has failed.                                                    *)
ActiveInv ==
    /\ at = "demos" => \A op \in active \ {"find"} :
                          rc = 1 \/ frc = 1 \/ (pc > 1 /\ Here("finish", op))
    /\ at = "close" => \A op \in active \ {"find"} : rc = 1

(* An output is unconfirmed because its confirmation comes next, or        *)
(* because the function is going to return 1.                              *)
PendingInv ==
    at = "demos" =>
        /\ "sig" \in pending =>
              frc = 1 \/ Here("begin", "verify") \/ Here("finish", "verify")
        /\ "ct" \in pending =>
              frc = 1 \/ Here("begin", "decrypt") \/ Here("finish", "decrypt")
                      \/ Here("compare", "ct")

(* The next call of the round. *)
LEMMA HereNext ==
    ASSUME SuiteInv, FunctionCall, Proceed, NEW kind, NEW op, Stands(Round, pc + 1, kind, op)
    PROVE  Here(kind, op)'
<1>1. /\ stage' = stage /\ round' = round /\ pc' = pc + 1 /\ round \in DOMAIN Script
  BY Moves DEF Proceed
<1>2. Script' = Script
  BY <1>1 DEF Script
<1>3. Round' = Round
  BY <1>1, <1>2 DEF Round
<1> QED
  BY <1>1, <1>2, <1>3 DEF Here, Stands

LEMMA HereIs ==
    ASSUME SuiteInv, FunctionCall \/ DestroyObject, NEW kind, NEW op
    PROVE  Here(kind, op) <=> Current.kind = kind /\ Current.op = op
BY Moves DEF Here, Stands, Current

(* Calls that neither begin nor finish an operation. *)
LEMMA OtherCalls ==
    ASSUME SuiteInv, Info \/ Make \/ DestroyObject
    PROVE  /\ at = "demos" /\ at' = at /\ rc' = rc /\ frc' \in {frc, 1}
           /\ active' = active /\ pending' = pending
           /\ Current.kind \in {"query", "create", "destroy"}
<1>1. at = "demos" /\ at' = at /\ rc' = rc
  BY CallsAreLocal DEF Calls
<1>2. frc' \in {frc, 1}
  BY Moves DEF FunctionCall, Refusal
<1>3. active' = active /\ pending' = pending /\ Current.kind \in {"query", "create", "destroy"}
  BY DEF Info, Make, DestroyObject, At, token, locals
<1> QED
  BY <1>1, <1>2, <1>3

LEMMA ActiveStep ==
    ASSUME Typed, ActiveInv, [Next]_vars
    PROVE  ActiveInv'
<1> USE DEF Typed
<1>1. CASE Info \/ Make \/ DestroyObject
  BY <1>1, OtherCalls, HereIs DEF ActiveInv, FunctionCall
<1>2. CASE ExportSecret \/ CompareOutputs
  <2>1. at = "demos" /\ at' = at /\ rc' = rc /\ active' = active
        /\ Current.kind \in {"export", "compare"}
    BY <1>2, CallsAreLocal DEF Calls, ExportSecret, CompareOutputs, At, token
  <2>2. frc' \in {frc, 1}
    BY <1>2, Moves DEF FunctionCall, Refusal
  <2> QED
    BY <1>2, <2>1, <2>2, HereIs DEF ActiveInv, FunctionCall
<1>3. CASE BeginOperation
  <2>1. at = "demos" /\ at' = at /\ rc' = rc /\ Current.kind = "begin"
    BY <1>3, CallsAreLocal DEF Calls, BeginOperation, At
  <2>2. frc' \in {frc, 1}
    BY <1>3, Moves DEF FunctionCall, Refusal
  <2>3. \A op \in active \ {"find"} : rc' = 1 \/ frc' = 1
    BY <1>3, <2>1, <2>2, HereIs DEF ActiveInv, FunctionCall
  <2>4. ASSUME Proceed, NEW op, op = Current.op, op # "find"
        PROVE  pc' > 1 /\ Here("finish", op)'
    <3>1. op \in Ops /\ pc \in DOMAIN Round /\ DOMAIN Round = 1 .. Len(Round)
      BY <1>3, <2>1, <2>4, CurrentFits, Moves DEF FunctionCall, CallFits, RoundFits
    <3>2. OrderFits(Round, pc)
      BY <1>3, Moves DEF FunctionCall, RoundFits
    <3>3. Stands(Round, pc, "begin", op)
      BY <2>1, <2>4, <3>1 DEF Stands, Current
    <3>4. Stands(Round, pc + 1, "finish", op)
      BY <2>4, <3>1, <3>2, <3>3 DEF OrderFits
    <3>5. pc' > 1
      BY <2>4, <3>1 DEF Proceed
    <3> QED
      BY <1>3, <2>4, <3>4, <3>5, HereNext DEF FunctionCall
  <2>5. \/ active' = active
        \/ Proceed /\ active' = active \cup {Current.op}
    BY <1>3 DEF BeginOperation
  <2>6. \A op \in active' \ {"find"} : rc' = 1 \/ frc' = 1 \/ (pc' > 1 /\ Here("finish", op)')
    BY <2>3, <2>4, <2>5
  <2> QED
    BY <2>1, <2>6 DEF ActiveInv
<1>4. CASE FinishOperation
  <2>1. at = "demos" /\ at' = at /\ rc' = rc /\ Current.kind = "finish"
    BY <1>4, CallsAreLocal DEF Calls, FinishOperation, At
  <2>2. frc' \in {frc, 1}
    BY <1>4, Moves DEF FunctionCall, Refusal
  <2>3. \A op \in active \ {"find"} : op # Current.op => rc' = 1 \/ frc' = 1
    BY <1>4, <2>1, <2>2, HereIs DEF ActiveInv, FunctionCall
  <2>4. CASE active' = active \ {Current.op}
    BY <2>1, <2>3, <2>4 DEF ActiveInv
  <2>5. CASE active' = active /\ Refused
    <3>1. Current.op # "find" => Current.onfail.rc = 1
      BY <1>4, <2>1, CurrentFits DEF FunctionCall, CallFits
    <3>2. Current.op # "find" => frc' = 1
      BY <2>5, <3>1 DEF Refused
    <3> QED
      BY <2>1, <2>3, <2>5, <3>2 DEF ActiveInv
  <2> QED
    BY <1>4, <2>4, <2>5 DEF FinishOperation
<1>5. CASE NextRound
  <2>1. \A op : ~Here("finish", op)
    <3>1. ScriptFits(Script) /\ round \in DOMAIN Script /\ pc = Len(Round) + 1
      BY <1>5, CurrentScript DEF NextRound
    <3>2. Len(Round) \in Nat /\ DOMAIN Round = 1 .. Len(Round)
      BY <3>1 DEF ScriptFits, RoundFits, Round
    <3> QED
      BY <3>1, <3>2 DEF Here, Stands
  <2>2. at = "demos" /\ at' = at /\ rc' = rc /\ frc' = frc /\ active' = active
    BY <1>5 DEF NextRound, Quiet, token
  <2> QED
    BY <2>1, <2>2 DEF ActiveInv
<1>6. CASE Return
  <2>1. \A op : ~Here("finish", op)
    <3>1. ScriptFits(Script) /\ round = Len(Script) + 1
      BY <1>6, CurrentScript DEF Return
    <3> QED
      BY <3>1 DEF ScriptFits, Here
  <2>2. at = "demos" /\ active' = active /\ rc' = IF frc = 1 THEN 1 ELSE rc
    BY <1>6 DEF Return, token
  <2> QED
    BY <2>1, <2>2 DEF ActiveInv
<1>7. CASE Approach
  <2>1. active' = {}
    BY <1>7, ApproachGoesOn DEF Fresh
  <2> QED
    BY <2>1 DEF ActiveInv
<1>8. CASE Ending \/ Launch \/ Kill
  BY <1>8, EndingGoesOn DEF Launch, Kill, ActiveInv
<1>9. CASE UNCHANGED vars
  BY <1>9 DEF vars, ActiveInv, Here, Script, Round
<1> QED
  BY <1>1, <1>2, <1>3, <1>4, <1>5, <1>6, <1>7, <1>8, <1>9
     DEF Next, DemoStep, MainStep, Approach, Ending

(* An operation that a function has left active for the next ones is       *)
(* always reported by the exit code.                                       *)
THEOREM ActiveIsReported == Spec => []ActiveMeansFailed
<1>1. Init => ActiveInv
  BY DEF Init, ActiveInv
<1>2. Typed /\ ActiveInv => ActiveMeansFailed
  BY DEF Typed, Place, ActiveInv, ActiveMeansFailed
<1> QED
  BY <1>1, <1>2, TypedAlways, ActiveStep, PTL DEF Spec


LEMMA PendingStep ==
    ASSUME Typed, PendingInv, [Next]_vars
    PROVE  PendingInv'
<1> USE DEF Typed
<1>1. CASE Info \/ Make \/ DestroyObject
  BY <1>1, OtherCalls, HereIs DEF PendingInv, FunctionCall
<1>2. CASE ExportSecret
  <2>1. at = "demos" /\ at' = at /\ Current.kind = "export"
    BY <1>2, CallsAreLocal DEF Calls, ExportSecret, At
  <2>2. frc' \in {frc, 1} /\ Current.op \in {"alice", "bob"}
    BY <1>2, <2>1, Moves, CurrentFits DEF FunctionCall, Refusal, CallFits
  <2>3. pending' \subseteq pending \cup {Current.op}
    BY <1>2 DEF ExportSecret
  <2> QED
    BY <1>2, <2>1, <2>2, <2>3, HereIs DEF PendingInv, FunctionCall
<1>3. CASE CompareOutputs
  <2>1. at = "demos" /\ at' = at /\ Current.kind = "compare"
    BY <1>3, CallsAreLocal DEF Calls, CompareOutputs, At
  <2>2. frc' \in {frc, 1}
    BY <1>3, Moves DEF FunctionCall, Refusal
  <2>3. pending' \subseteq pending
    BY <1>3 DEF CompareOutputs
  <2>4. Current.op = "ct" => "ct" \notin pending' \/ frc' = 1
    <3>1. Current.op = "ct" => Current.onfail.rc = 1
      BY <1>3, <2>1, CurrentFits DEF FunctionCall, CallFits
    <3>2. \/ pending' = pending \ Compared(Current.op)
          \/ Refused
      BY <1>3 DEF CompareOutputs
    <3> QED
      BY <3>1, <3>2 DEF Refused, Compared
  <2> QED
    BY <1>3, <2>1, <2>2, <2>3, <2>4, HereIs DEF PendingInv, FunctionCall
<1>4. CASE BeginOperation
  <2>1. at = "demos" /\ at' = at /\ Current.kind = "begin" /\ pending' = pending
    BY <1>4, CallsAreLocal DEF Calls, BeginOperation, At, locals
  <2>2. frc' \in {frc, 1}
    BY <1>4, Moves DEF FunctionCall, Refusal
  <2>3. ASSUME NEW op \in {"verify", "decrypt"}, Current.op = op
        PROVE  frc' = 1 \/ Here("finish", op)'
    <3>1. CASE Proceed
      <4>1. pc \in DOMAIN Round /\ OrderFits(Round, pc)
        BY <1>4, Moves DEF FunctionCall, RoundFits
      <4>2. Stands(Round, pc + 1, "finish", op)
        BY <2>1, <2>3, <4>1 DEF OrderFits, Stands, Current, Ops
      <4> QED
        BY <1>4, <3>1, <4>2, HereNext DEF FunctionCall
    <3>2. CASE Refused
      <4>1. Current.onfail.rc = 1
        BY <1>4, <2>1, <2>3, CurrentFits DEF FunctionCall, CallFits
      <4> QED
        BY <3>2, <4>1 DEF Refused
    <3> QED
      BY <1>4, <3>1, <3>2 DEF BeginOperation
  <2>4. "sig" \in pending => frc = 1 \/ Current.op = "verify"
    BY <1>4, <2>1, HereIs DEF PendingInv, FunctionCall
  <2>5. "ct" \in pending => frc = 1 \/ Current.op = "decrypt"
    BY <1>4, <2>1, HereIs DEF PendingInv, FunctionCall
  <2> QED
    BY <2>1, <2>2, <2>3, <2>4, <2>5 DEF PendingInv
<1>5. CASE FinishOperation
  <2>1. at = "demos" /\ at' = at /\ Current.kind = "finish"
    BY <1>5, CallsAreLocal DEF Calls, FinishOperation, At
  <2>2. frc' \in {frc, 1}
    BY <1>5, Moves DEF FunctionCall, Refusal
  <2>3. "sig" \in pending => frc = 1 \/ Current.op = "verify"
    BY <1>5, <2>1, HereIs DEF PendingInv, FunctionCall
  <2>4. "ct" \in pending => frc = 1 \/ Current.op = "decrypt"
    BY <1>5, <2>1, HereIs DEF PendingInv, FunctionCall
  <2>5. CASE Proceed /\ pending' = (pending \ Confirmed(Current.op)) \cup Produced(Current.op)
    <3>1. pc \in DOMAIN Round /\ OrderFits(Round, pc)
      BY <1>5, Moves DEF FunctionCall, RoundFits
    <3>2. ASSUME Current.op = "sign" PROVE Here("begin", "verify")'
      <4>1. Stands(Round, pc + 1, "begin", "verify")
        BY <2>1, <3>1, <3>2 DEF OrderFits, Stands, Current
      <4> QED
        BY <1>5, <2>5, <4>1, HereNext DEF FunctionCall
    <3>3. ASSUME Current.op = "encrypt" PROVE Here("begin", "decrypt")'
      <4>1. Stands(Round, pc + 1, "begin", "decrypt")
        BY <2>1, <3>1, <3>3 DEF OrderFits, Stands, Current
      <4> QED
        BY <1>5, <2>5, <4>1, HereNext DEF FunctionCall
    <3>4. ASSUME Current.op = "decrypt" PROVE Here("compare", "ct")'
      <4>1. Stands(Round, pc + 1, "compare", "ct")
        BY <2>1, <3>1, <3>4 DEF OrderFits, Stands, Current
      <4> QED
        BY <1>5, <2>5, <4>1, HereNext DEF FunctionCall
    <3>5. "sig" \in pending' => Current.op = "sign" \/ (frc = 1 /\ Current.op # "verify")
      BY <2>3, <2>5 DEF Confirmed, Produced
    <3>6. "ct" \in pending' => Current.op \in {"encrypt", "decrypt"} \/ frc = 1
      BY <2>4, <2>5 DEF Confirmed, Produced
    <3>7. "sig" \in pending' => frc' = 1 \/ Here("begin", "verify")'
      BY <2>2, <3>2, <3>5
    <3>8. "ct" \in pending' => frc' = 1 \/ Here("begin", "decrypt")' \/ Here("compare", "ct")'
      BY <2>2, <3>3, <3>4, <3>6
    <3> QED
      BY <2>1, <3>7, <3>8 DEF PendingInv
  <2>6. CASE Refused /\ pending' = pending
    <3>1. Current.op # "find" => Current.onfail.rc = 1
      BY <1>5, <2>1, CurrentFits DEF FunctionCall, CallFits
    <3>2. Current.op # "find" => frc' = 1
      BY <2>6, <3>1 DEF Refused
    <3>3. ("sig" \in pending' => frc' = 1) /\ ("ct" \in pending' => frc' = 1)
      BY <2>2, <2>3, <2>4, <2>6, <3>2
    <3> QED
      BY <3>3 DEF PendingInv
  <2> QED
    BY <1>5, <2>5, <2>6 DEF FinishOperation
<1>6. CASE NextRound \/ Return
  <2>1. pending' = {}
    BY <1>6 DEF NextRound, Return
  <2> QED
    BY <2>1 DEF PendingInv
<1>7. CASE Approach
  <2>1. pending' = {}
    BY <1>7, ApproachGoesOn DEF Fresh
  <2> QED
    BY <2>1 DEF PendingInv
<1>8. CASE Ending \/ Launch \/ Kill
  BY <1>8, EndingGoesOn DEF Launch, Kill, PendingInv
<1>9. CASE UNCHANGED vars
  BY <1>9 DEF vars, PendingInv, Here, Script, Round
<1> QED
  BY <1>1, <1>2, <1>3, <1>4, <1>5, <1>6, <1>7, <1>8, <1>9
     DEF Next, DemoStep, MainStep, Approach, Ending

(* When a round ends and its function has not failed, every signature was  *)
(* verified and every encrypted text decrypted and compared.               *)
THEOREM OutputsConfirmed == Spec => []OutputsAreConfirmed
<1>1. Init => PendingInv
  BY DEF Init, PendingInv
<1>2. Typed /\ PendingInv => OutputsAreConfirmed
  <2> SUFFICES ASSUME Typed, PendingInv, at = "demos", stage \in DOMAIN Demos,
                      round \in DOMAIN Script, pc = Len(Round) + 1, frc = 0
               PROVE  pending \cap {"sig", "ct"} = {}
    BY DEF OutputsAreConfirmed
  <2>1. ScriptFits(Script)
    BY CurrentScript DEF Typed
  <2>2. Len(Round) \in Nat /\ DOMAIN Round = 1 .. Len(Round)
    BY <2>1 DEF ScriptFits, RoundFits, Round
  <2>3. \A kind, op : ~Here(kind, op)
    BY <2>2 DEF Here, Stands
  <2> QED
    BY <2>3 DEF PendingInv
<1> QED
  BY <1>1, <1>2, TypedAlways, PendingStep, PTL DEF Spec


-----------------------------------------------------------------------------
(* Objects and handles. *)

(* At call k of round r of the script d the DESTROY of h is still to come. *)
Owed(d, r, k, h) ==
    \/ r \in DOMAIN d /\ ClosedIn(d[r], k, h)
    \/ r < Len(d) /\ Ahead(d[Len(d)], 1, h)
    \/ r = Len(d) /\ Ahead(d[r], k, h)

(* Every object of the run has a handle that is owed its DESTROY.          *)
DebtInv ==
    /\ at = "demos" => /\ \A h \in held : Owed(Script, round, pc, h)
                       /\ objects \subseteq before \cup lost \cup Ids(held)
    /\ at \in {"close", "finalize", "unload", "exited"} => objects \subseteq before \cup lost

LEMMA DebtKept ==
    ASSUME Typed, FunctionCall \/ DestroyObject, NEW h, Owed(Script, round, pc, h),
           DestroyObject => Current.uses # {h}
    PROVE  Owed(Script, round, pc, h)'
<1> DEFINE last == Script[Len(Script)]
<1>1. /\ at = "demos" /\ stage' = stage /\ ScriptFits(Script) /\ RoundFits(Round, last)
      /\ round \in DOMAIN Script /\ pc \in DOMAIN Round
      /\ FunctionCall => Current.kind # "destroy"
  BY Moves DEF Typed
<1>2. /\ DOMAIN Script = 1 .. Len(Script) /\ Len(Script) \in Nat /\ Len(Script) >= 2
      /\ DOMAIN Round = 1 .. Len(Round) /\ Len(Round) \in Nat
  BY <1>1 DEF ScriptFits, RoundFits
<1>3. Script' = Script
  BY <1>1 DEF Script
<1>4. Round = Script[round] /\ Current = Round[pc]
  BY DEF Round, Current
<1>5. round = Len(Script) => Current.kind = "destroy"
  BY <1>1, <1>4 DEF ScriptFits
<1> HIDE DEF last
<1>6. ASSUME NEW r, NEW k, round' = r, pc' = k, Owed(Script, r, k, h)
      PROVE  Owed(Script, round, pc, h)'
  BY <1>3, <1>6 DEF Owed
<1>7. CASE round' = round /\ pc' = pc + 1
  <2>1. ASSUME ClosedIn(Round, pc, h) PROVE ClosedIn(Round, pc + 1, h)
    <3>1. PICK j \in DOMAIN Round : /\ pc <= j /\ Round[j].uses = {h}
                                    /\ \A n \in j .. Len(Round) : Round[n].kind = "destroy"
      BY <2>1 DEF ClosedIn
    <3>2. Round[j].kind = "destroy"
      BY <1>2, <3>1
    <3>3. j # pc
      BY <1>1, <1>4, <3>1, <3>2
    <3>4. pc + 1 <= j
      BY <1>1, <1>2, <3>1, <3>3
    <3>5. \A n \in pc + 1 .. Len(Round) : Round[n].onfail.to # "cleanup"
      BY <1>1, <1>2, <2>1 DEF ClosedIn
    <3> QED
      BY <3>1, <3>4, <3>5 DEF ClosedIn
  <2>2. ASSUME Ahead(Round, pc, h) PROVE Ahead(Round, pc + 1, h)
    <3>1. PICK j \in DOMAIN Round : pc <= j /\ Round[j].uses = {h} /\ Round[j].kind = "destroy"
      BY <2>2 DEF Ahead
    <3>2. j # pc
      BY <1>1, <1>4, <3>1
    <3>3. pc + 1 <= j
      BY <1>1, <1>2, <3>1, <3>2
    <3> QED
      BY <3>1, <3>3 DEF Ahead
  <2>3. Owed(Script, round, pc + 1, h)
    BY <1>4, <2>1, <2>2 DEF Owed
  <2> QED
    BY <1>6, <1>7, <2>3
<1>8. CASE FunctionCall /\ round' = round /\ pc' = RoundEnd /\ Current.onfail.to = "end"
  <2>1. /\ RoundEnd \in pc + 1 .. Len(Round) + 1
        /\ Round[RoundEnd - 1].kind # "destroy"
    BY <1>1, <1>2, <1>8, RoundEndIs
  <2>2. round # Len(Script)
    BY <1>1, <1>5, <1>8
  <2>3. ASSUME ClosedIn(Round, pc, h) PROVE ClosedIn(Round, RoundEnd, h)
    <3> DEFINE e == RoundEnd
    <3>0. e \in pc + 1 .. Len(Round) + 1 /\ Round[e - 1].kind # "destroy"
      BY <2>1
    <3> HIDE DEF e
    <3>1. PICK j \in DOMAIN Round : /\ pc <= j /\ Round[j].uses = {h}
                                    /\ \A n \in j .. Len(Round) : Round[n].kind = "destroy"
      BY <2>3 DEF ClosedIn
    <3>2. ~(e - 1 \in j .. Len(Round))
      BY <3>0, <3>1
    <3>3. e <= j
      BY <1>1, <1>2, <3>0, <3>1, <3>2
    <3>4. \A n \in e .. Len(Round) : Round[n].onfail.to # "cleanup"
      BY <1>1, <1>2, <2>3, <3>0 DEF ClosedIn
    <3>5. ClosedIn(Round, e, h)
      BY <3>1, <3>3, <3>4 DEF ClosedIn
    <3> QED
      BY <3>5 DEF e
  <2>4. Owed(Script, round, RoundEnd, h)
    BY <1>4, <2>2, <2>3 DEF Owed
  <2> DEFINE e == RoundEnd
  <2>5. round' = round /\ pc' = e /\ Owed(Script, round, e, h)
    BY <1>8, <2>4
  <2> HIDE DEF e
  <2>6. Script' = Script /\ round' = round /\ pc' = e
    BY <1>3, <2>5
  <2> QED
    BY <2>5, <2>6 DEF Owed
<1>9. CASE FunctionCall /\ round' = Len(Script) /\ pc' = 1 /\ Current.onfail.to = "cleanup"
  <2>1. round # Len(Script)
    BY <1>1, <1>5, <1>9
  <2>2. ~ClosedIn(Round, pc, h)
    BY <1>1, <1>2, <1>4, <1>9 DEF ClosedIn
  <2>3. Ahead(Script[Len(Script)], 1, h)
    BY <1>4, <2>1, <2>2 DEF Owed
  <2>4. Owed(Script, Len(Script), 1, h)
    BY <2>3 DEF Owed
  <2> QED
    BY <1>3, <1>9, <2>4 DEF Owed
<1> QED
  BY <1>7, <1>8, <1>9, Moves DEF Typed, Refusal

LEMMA DebtStep ==
    ASSUME Typed, DebtInv, [Next]_vars
    PROVE  DebtInv'
<1> USE DEF Typed
<1>1. CASE FunctionCall /\ ~Make
  <2>1. at = "demos" /\ at' = at /\ UNCHANGED << objects, held, before, lost >>
    <3>1. at = "demos" /\ at' = at /\ before' = before
      BY <1>1, CallsAreLocal DEF Calls, FunctionCall
    <3>2. UNCHANGED << objects, held, lost >>
      BY <1>1 DEF FunctionCall, Info, BeginOperation, FinishOperation, ExportSecret,
                  CompareOutputs, token, locals
    <3> QED
      BY <3>1, <3>2
  <2>2. \A h \in held : Owed(Script, round, pc, h)'
    <3> TAKE h \in held
    <3>1. Owed(Script, round, pc, h) /\ ~DestroyObject
      BY <1>1, <2>1, Moves DEF DebtInv
    <3> QED
      BY <1>1, <3>1, DebtKept
  <2>3. \A h \in held' : Owed(Script, round, pc, h)'
    BY <2>1, <2>2
  <2> QED
    BY <2>1, <2>3 DEF DebtInv, Ids
<1>2. CASE Make
  <2>1. at = "demos" /\ at' = at /\ before' = before
    BY <1>2, CallsAreLocal DEF Calls
  <2>2. ~DestroyObject /\ FunctionCall
    BY <1>2, Moves DEF FunctionCall
  <2>3. \A h \in held : Owed(Script, round, pc, h)'
    BY <2>1, <2>2, DebtKept DEF DebtInv
  <2>4. CASE /\ objects' = objects \cup Ids(Current.makes)
             /\ held' = held \cup Current.makes /\ Proceed /\ lost' = lost
    <3>1. ASSUME NEW h \in Current.makes PROVE Owed(Script, round, pc, h)'
      <4> DEFINE last == Script[Len(Script)]
      <4>1. /\ stage' = stage /\ ScriptFits(Script) /\ RoundFits(Round, last)
            /\ round \in DOMAIN Script /\ pc \in DOMAIN Round
            /\ Current.kind # "destroy"
        BY <2>2, Moves
      <4>2. Script' = Script /\ round' = round /\ pc' = pc + 1
        BY <2>4, <4>1 DEF Script, Proceed
      <4>3. ClosedIn(Round, pc + 1, h) \/ Ahead(last, 1, h)
        BY <3>1, <4>1 DEF RoundFits, Current
      <4>4. round < Len(Script)
        <5>1. round # Len(Script)
          BY <4>1 DEF ScriptFits, Round, Current
        <5> QED
          BY <4>1, <5>1 DEF ScriptFits
      <4>5. Owed(Script, round, pc + 1, h)
        BY <4>1, <4>3, <4>4 DEF Owed, Round
      <4> QED
        BY <4>2, <4>5 DEF Owed
    <3>2. \A h \in held' : Owed(Script, round, pc, h)'
      BY <2>3, <2>4, <3>1
    <3>3. objects' \subseteq before \cup lost \cup Ids(held')
      BY <2>1, <2>4 DEF DebtInv, Ids
    <3> QED
      BY <2>1, <2>4, <3>2, <3>3 DEF DebtInv
  <2>5. CASE held' = held /\ \E new \in SUBSET Ids(Current.makes) :
                                  objects' = objects \cup new /\ lost' = lost \cup new
    <3>1. objects' \subseteq before \cup lost' \cup Ids(held')
      BY <2>1, <2>5 DEF DebtInv
    <3> QED
      BY <2>1, <2>3, <2>5, <3>1 DEF DebtInv
  <2>6. \/ /\ objects' = objects \cup Ids(Current.makes)
           /\ held' = held \cup Current.makes /\ Proceed /\ lost' = lost
        \/ held' = held /\ objects' = objects /\ lost' = lost
        \/ /\ held' = held /\ objects' = objects \cup Ids(Current.makes)
           /\ lost' = lost \cup Ids(Current.makes)
    BY <1>2 DEF Make
  <2>7. ASSUME held' = held, objects' = objects, lost' = lost
        PROVE  held' = held /\ \E new \in SUBSET Ids(Current.makes) :
                                   objects' = objects \cup new /\ lost' = lost \cup new
    <3>1. {} \in SUBSET Ids(Current.makes) /\ objects' = objects \cup {} /\ lost' = lost \cup {}
      BY <2>7
    <3> QED
      BY <2>7, <3>1
  <2> QED
    BY <2>4, <2>5, <2>6, <2>7
<1>3. CASE DestroyObject
  <2>1. at = "demos" /\ at' = at /\ before' = before
    BY <1>3, CallsAreLocal DEF Calls
  <2>2. PICK h \in Current.uses :
          IF h \notin held
          THEN UNCHANGED << objects, held, lost >>
          ELSE /\ held' = held \ {h}
               /\ \/ objects' = objects \ {h.id} /\ lost' = lost
                  \/ h.id \in Ids(held') /\ objects' = objects /\ lost' = lost
                  \/ objects' = objects /\ lost' = lost \cup {h.id}
    BY <1>3 DEF DestroyObject
  <2>3. Current.uses = {h}
    BY <1>3, <2>2, CurrentFits, Moves DEF CallFits
  <2>4. \A g \in held \ {h} : Owed(Script, round, pc, g)'
    BY <1>3, <2>1, <2>3, DebtKept DEF DebtInv
  <2>5. held' \subseteq held \ {h}
    BY <2>2
  <2>6. objects' \subseteq before \cup lost' \cup Ids(held')
    <3>1. objects \subseteq before \cup lost \cup Ids(held)
      BY <2>1 DEF DebtInv
    <3>2. CASE h \notin held
      BY <2>2, <3>1, <3>2
    <3>3. CASE h \in held
      <4>1. Ids(held) = Ids(held') \cup {h.id}
        BY <2>2, <3>3 DEF Ids
      <4> QED
        BY <2>2, <3>1, <3>3, <4>1
    <3> QED
      BY <3>2, <3>3
  <2> QED
    BY <2>1, <2>4, <2>5, <2>6 DEF DebtInv
<1>4. CASE NextRound
  <2>1. /\ at = "demos" /\ at' = at /\ stage' = stage /\ round' = round + 1 /\ pc' = 1
        /\ round \in DOMAIN Script /\ pc = Len(Round) + 1
        /\ UNCHANGED << objects, held, before, lost >>
    BY <1>4 DEF NextRound, Quiet, history, token
  <2>2. /\ ScriptFits(Script) /\ Script' = Script
    BY <2>1, CurrentScript DEF Script
  <2>3. Len(Round) \in Nat /\ DOMAIN Round = 1 .. Len(Round) /\ Round = Script[round]
    BY <2>1, <2>2 DEF ScriptFits, RoundFits, Round
  <2>4. ASSUME NEW h, Owed(Script, round, pc, h)
        PROVE  Owed(Script, round + 1, 1, h)
    <3>1. ~ClosedIn(Round, pc, h) /\ ~Ahead(Round, pc, h)
      BY <2>1, <2>3 DEF ClosedIn, Ahead
    <3>2. round < Len(Script) /\ Ahead(Script[Len(Script)], 1, h)
      BY <2>3, <2>4, <3>1 DEF Owed
    <3>3. round + 1 < Len(Script) \/ round + 1 = Len(Script)
      BY <2>1, <2>2, <3>2 DEF ScriptFits
    <3> QED
      BY <3>2, <3>3 DEF Owed
  <2>5. \A h \in held : Owed(Script, round + 1, 1, h)
    BY <2>1, <2>4 DEF DebtInv
  <2>6. \A h \in held' : Owed(Script', round', pc', h)
    BY <2>1, <2>2, <2>5
  <2> QED
    BY <2>1, <2>6 DEF DebtInv, Ids
<1>5. CASE Return
  <2>1. /\ at = "demos" /\ at' \in {"demos", "close"} /\ round = Len(Script) + 1 /\ held' = {}
        /\ UNCHANGED << objects, before, lost >>
    BY <1>5 DEF Return, token, history
  <2>2. ScriptFits(Script)
    BY <2>1, CurrentScript
  <2>3. \A h : ~Owed(Script, round, pc, h)
    <3>1. Len(Script) \in Nat /\ DOMAIN Script = 1 .. Len(Script)
      BY <2>2 DEF ScriptFits
    <3> DEFINE n == Len(Script)
    <3>2. round = n + 1 /\ n \in Nat
      BY <2>1, <3>1
    <3> HIDE DEF n
    <3>3. ~(round < n) /\ round # n /\ round \notin 1 .. n
      BY <3>2
    <3>4. round \notin DOMAIN Script /\ ~(round < Len(Script)) /\ round # Len(Script)
      BY <3>1, <3>3 DEF n
    <3> QED
      BY <3>4 DEF Owed
  <2>4. Ids(held) = {}
    BY <2>1, <2>3 DEF DebtInv, Ids
  <2> QED
    BY <2>1, <2>4 DEF DebtInv
<1>6. CASE Approach
  <2>1. objects' = before' /\ held' = {}
    BY <1>6, ApproachGoesOn DEF Fresh
  <2> QED
    BY <2>1 DEF DebtInv
<1>7. CASE Ending
  <2>1. objects' \subseteq objects /\ lost \subseteq lost' /\ before' = before
    BY <1>7 DEF Ending, CloseSession, Finalize, Unload, EndOfSession, token, history
  <2> QED
    BY <1>7, <2>1, EndingGoesOn DEF DebtInv
<1>8. CASE Launch \/ Kill
  BY <1>8 DEF Launch, Kill, DebtInv
<1>9. CASE UNCHANGED vars
  BY <1>9 DEF vars, DebtInv, Script, Ids
<1> QED
  BY <1>1, <1>2, <1>3, <1>4, <1>5, <1>6, <1>7, <1>8, <1>9
     DEF Next, DemoStep, MainStep, FunctionCall, Approach, Ending

(* What main still has to release. *)
OpenedInv ==
    /\ at \in {"idle", "load"} => opened = {}
    /\ at \in {"resolve", "initialize"} => opened = {"library"}
    /\ at = "unload" => opened \subseteq {"library"} \cup lost
    /\ at = "exited" => opened \subseteq lost

LEMMA OpenedStep ==
    ASSUME Typed, OpenedInv, [Next]_vars
    PROVE  OpenedInv'
<1> USE DEF Typed
<1>1. CASE Calls
  BY <1>1, CallsAreLocal DEF OpenedInv
<1>2. CASE Return
  BY <1>2 DEF Return, OpenedInv
<1>3. CASE Load \/ Resolve \/ Initialize \/ CountSlots
  BY <1>3 DEF Load, Resolve, Initialize, CountSlots, Opening, OpenedInv
<1>4. CASE ReadSlot \/ OpenSession
  BY <1>4 DEF ReadSlot, OpenSession, Opening, OpenedInv
<1>5. CASE CloseSession \/ Unload
  BY <1>5 DEF CloseSession, Unload, OpenedInv
<1>6. CASE Finalize
  <2>1. at' = "unload" /\ opened' \subseteq {"library"} \cup lost'
    BY <1>6 DEF Finalize, Counters
  <2> QED
    BY <2>1 DEF OpenedInv
<1>7. CASE Launch \/ Kill
  BY <1>7 DEF Launch, Kill, OpenedInv
<1>8. CASE UNCHANGED vars
  BY <1>8 DEF vars, OpenedInv
<1> QED
  BY <1>1, <1>2, <1>3, <1>4, <1>5, <1>6, <1>7, <1>8 DEF Next, DemoStep, MainStep, Calls

(* A run that returns has destroyed what it has made and closed what it    *)
(* has opened, on every path, but for what a failed call has left.         *)
THEOREM NothingIsLeft == Spec => []LeavesNothing
<1>1. Init => DebtInv /\ OpenedInv
  BY DEF Init, DebtInv, OpenedInv
<1>2. DebtInv /\ OpenedInv => LeavesNothing
  BY DEF DebtInv, OpenedInv, LeavesNothing, Exited
<1>3. Typed /\ DebtInv /\ OpenedInv /\ [Next]_vars => DebtInv' /\ OpenedInv'
  BY DebtStep, OpenedStep
<1> QED
  BY <1>1, <1>2, <1>3, TypedAlways, PTL DEF Spec

=============================================================================

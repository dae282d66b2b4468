------------------------------- MODULE CryptoApp -------------------------------
(***************************************************************************)
(* The program se05x_crypto_app of cpp_app/: an invocation opens a         *)
(* session, executes one command on one key identifier and closes the      *)
(* session.  Keys persist on the secure element and files on the host, so  *)
(* that verify, decrypt and ecdh meet the file that an earlier invocation  *)
(* has written and a key that another one may have replaced since.         *)
(*                                                                         *)
(* A failed call throws; main catches, closes the session and returns 1.   *)
(***************************************************************************)
EXTENDS Naturals, Sequences

CONSTANTS Ids,           \* key identifiers the user works with
          TransientIds,  \* the two identifiers that ecdh takes for itself
          EccSizes,      \* sizes of the curves named by --curve
          RsaSizes,      \* sizes named by --bits
          MaxKeys,       \* bound on the number of keys generated
          NoKey          \* an empty slot

ASSUME SizesAssumption ==
    EccSizes \subseteq {256, 384, 521} /\ RsaSizes \subseteq {2048, 3072, 4096}
ASSUME MaxKeysAssumption == MaxKeys \in Nat
ASSUME NoKeyAssumption == NoKey \notin [alg : {"ecc", "rsa"}, size : Nat, serial : Nat]

(* ecdh puts the peer key under 0xEF009E01 and the secret under 0xEF009E02 *)
(* of the secure element.  The user keeps no key of his own there.         *)
ASSUME TransientAssumption == Ids \cap TransientIds = {}

VARIABLES
    se,        \* slots of Ids: algorithm, size and serial number of the key
    file,      \* the file that --out, --sig, --peer and --in name
    made,      \* number of keys generated so far
    inv,       \* the invocation: group, command and options
    before,    \* key slots and file when it was started
    phase,     \* "idle", "boot", "running", "exited" or "killed"
    pc,        \* next step of the command
    st,        \* status kept over the release of a context
    result,    \* what the command is going to emit
    ctx,       \* an sss context is initialised and not freed
    session,   \* "open" or "closed"
    rc,        \* exit code
    faulty     \* an external call has failed in this invocation

vars == << se, file, made, inv, before, phase, pc, st, result, ctx, session,
           rc, faulty >>
store == << se, file, made >>
call  == << inv, before >>

Keys == [alg : {"ecc"}, size : EccSizes, serial : 1 .. MaxKeys]
            \cup [alg : {"rsa"}, size : RsaSizes, serial : 1 .. MaxKeys]
Kinds == {"none", "torn", "random", "public", "signature", "cipher", "plain",
          "secret", "csr"}
Content == [kind : Kinds, key : Keys \cup {NoKey}]
Plain(kind) == [kind |-> kind, key |-> NoKey]
By(kind, k) == [kind |-> kind, key |-> k]

-----------------------------------------------------------------------------
(* doRng, doEcc and doRsa: the steps of each command.  "context",          *)
(* "operate" and "conclude" are the initialisation of an sss context, the  *)
(* call that uses it, and its release followed by the check of the status. *)
(* rng allocates its output, "buffer", while the context is open.          *)
Steps ==
    [ rng     |-> << "context", "buffer", "operate", "conclude", "emit" >>,
      genkey  |-> << "erase", "size", "allocate", "generate", "public_key", "emit" >>,
      pub     |-> << "open", "public_key", "emit" >>,
      sign    |-> << "open", "read", "context", "operate", "conclude", "emit" >>,
      verify  |-> << "open", "read", "context", "operate", "conclude" >>,
      encrypt |-> << "open", "read", "context", "operate", "conclude", "emit" >>,
      decrypt |-> << "open", "read", "context", "operate", "conclude", "emit" >>,
      ecdh    |-> << "open", "read", "load_peer", "context", "operate",
                     "conclude", "read_secret", "emit" >>,
      csr     |-> << "open", "subject", "public_key", "build_cri", "context",
                     "operate", "conclude", "emit" >>,
      unknown |-> << "reject" >> ]

Commands(group) ==
    CASE group = "ecc" -> {"genkey", "pub", "sign", "verify", "ecdh", "csr", "unknown"}
      [] group = "rsa" -> {"genkey", "pub", "sign", "verify", "encrypt", "decrypt",
                           "csr", "unknown"}
      [] group = "rng" -> {"rng"}

Sizes(group) == IF group = "ecc" THEN EccSizes ELSE RsaSizes

(* Whether --curve, --bits or --subject is given and can be used, and      *)
(* whether as many random bytes as asked for can be allocated.             *)
Arguments(cmd) == CASE cmd \in {"genkey", "rng"} -> {"ok", "invalid"}
                    [] cmd = "csr"    -> {"ok", "invalid", "missing"}
                    [] OTHER          -> {"ok"}

(* What the user may ask for; size is what --curve or --bits stands for.   *)
Requests(group, cmd) ==
    [ group : {group}, cmd : {cmd}, id : Ids,
      size  : IF cmd = "genkey" THEN Sizes(group) ELSE {0},
      force : IF cmd = "genkey" THEN BOOLEAN ELSE {FALSE},
      arg   : Arguments(cmd),
      out   : {"file", "stdout"} ]

Invocations ==
    UNION { UNION { Requests(group, cmd) : cmd \in Commands(group) }
            : group \in {"rng", "ecc", "rsa"} }

-----------------------------------------------------------------------------
(* Buffers.  External: the length of what the secure element returns, and  *)
(* that a call fails when its output does not fit.                         *)

PubLen(k) == CASE k.alg = "ecc" -> (IF k.size = 521 THEN 158
                                    ELSE IF k.size = 384 THEN 120 ELSE 91)
               [] k.alg = "rsa" -> k.size \div 8 + 38
SigLen(k) == CASE k.alg = "ecc" -> 2 * ((k.size + 7) \div 8) + 9
               [] k.alg = "rsa" -> k.size \div 8
SecretLen(k) == (k.size + 7) \div 8

(* Plausible bug: generate forgets to set bits_. *)
KeyBits_NeverSet == 2048

(* The member bits_: generate sets it, open leaves its initial value.      *)
KeyBits == IF inv.cmd = "genkey" THEN inv.size ELSE 2048

PubBuf    == IF inv.group = "ecc" THEN 256 ELSE KeyBits \div 8 + 64
OutBuf    == IF inv.group = "ecc" THEN 256 ELSE KeyBits \div 8
SecretBuf == 64

-----------------------------------------------------------------------------
Script == Steps[inv.cmd]
Key    == se[inv.id]
At(step) == /\ phase = "running"
            /\ pc \in DOMAIN Script
            /\ Script[pc] = step

Proceed == pc' = pc + 1 /\ UNCHANGED << phase, session, rc >>

(* main returns: ex_sss_session_close comes first on every path. *)
Exit(code) == phase' = "exited" /\ session' = "closed" /\ rc' = code

(* An exception reaches the handler of main. *)
Throw == Exit(1) /\ UNCHANGED pc

Calm   == UNCHANGED faulty
Fault  == faulty' = TRUE
Refuse == Throw /\ Calm                        \* a request that cannot be met
Fail   == Throw /\ Fault                       \* a failed external call

-----------------------------------------------------------------------------
(* main up to the command. *)

Start ==
    /\ phase \in {"idle", "exited", "killed"}
    /\ \E i \in Invocations :
          /\ i.cmd = "genkey" => made < MaxKeys
          /\ inv' = i
    /\ before' = [se |-> se, file |-> file]
    /\ phase' = "boot" /\ pc' = 1 /\ st' = "ok" /\ result' = Plain("none")
    /\ ctx' = FALSE /\ session' = "closed" /\ rc' = 0 /\ faulty' = FALSE
    /\ UNCHANGED store

(* ex_sss_boot_open, then ex_sss_key_store_and_object_init. *)
Boot ==
    /\ phase = "boot"
    /\ IF session = "closed"
       THEN \/ session' = "open" /\ UNCHANGED << phase, rc, faulty >>
            \/ Exit(1) /\ Fault
       ELSE \/ phase' = "running" /\ UNCHANGED << session, rc, faulty >>
            \/ Exit(1) /\ Fault
    /\ UNCHANGED << store, call, pc, st, result, ctx >>

-----------------------------------------------------------------------------
(* Provisioning. *)

(* Plausible bug: the old key is erased without being asked to. *)
Erase_Always ==
    /\ At("erase")
    /\ LET erased == [se EXCEPT ![inv.id] = NoKey]
       IN  \/ se' = erased /\ Calm
           \/ se' \in {se, erased} /\ Fault
    /\ Proceed
    /\ UNCHANGED << file, made, call, st, result, ctx >>

(* --force: eraseKey, every exception of which is swallowed. *)
Erase ==
    /\ At("erase")
    /\ LET erased == [se EXCEPT ![inv.id] = NoKey]
       IN  IF inv.force
           THEN \/ se' = erased /\ Calm
                \/ se' \in {se, erased} /\ Fault
           ELSE se' = se /\ Calm
    /\ Proceed
    /\ UNCHANGED << file, made, call, st, result, ctx >>

(* parseCurve and parseBits, evaluated after the erasure. *)
ParseSize ==
    /\ At("size")
    /\ IF inv.arg = "ok" THEN Proceed /\ Calm ELSE Refuse
    /\ UNCHANGED << store, call, st, result, ctx >>

(* An occupied identifier may be refused, depending on the object there.   *)
Allocate ==
    /\ At("allocate")
    /\ \/ Proceed /\ Calm
       \/ Key # NoKey /\ Refuse
       \/ Fail
    /\ UNCHANGED << store, call, st, result, ctx >>

(* Plausible bug: the size is passed in bytes. *)
Generate_InBytes ==
    /\ At("generate")
    /\ LET k == [alg |-> inv.group, size |-> (inv.size + 7) \div 8, serial |-> made + 1]
           generated == [se EXCEPT ![inv.id] = k]
       IN  \/ se' = generated /\ Proceed /\ Calm
           \/ se' = se /\ Key # NoKey /\ Refuse
           \/ se' \in {se, generated} /\ Fail
    /\ made' = made + 1
    /\ UNCHANGED << file, call, st, result, ctx >>

(* Plausible bug: a key that is there already is taken for the new one.    *)
Generate_TakesOld ==
    /\ At("generate")
    /\ LET k == [alg |-> inv.group, size |-> inv.size, serial |-> made + 1]
           generated == [se EXCEPT ![inv.id] = k]
       IN  \/ se' = generated /\ Proceed /\ Calm
           \/ se' = se /\ Key # NoKey /\ Proceed /\ Calm
           \/ se' \in {se, generated} /\ Fail
    /\ made' = made + 1
    /\ UNCHANGED << file, call, st, result, ctx >>

(* A failed generation may have taken effect, its answer being lost. *)
Generate ==
    /\ At("generate")
    /\ LET k == [alg |-> inv.group, size |-> inv.size, serial |-> made + 1]
           generated == [se EXCEPT ![inv.id] = k]
       IN  \/ se' = generated /\ Proceed /\ Calm
           \/ se' = se /\ Key # NoKey /\ Refuse
           \/ se' \in {se, generated} /\ Fail
    /\ made' = made + 1
    /\ UNCHANGED << file, call, st, result, ctx >>

-----------------------------------------------------------------------------
(* Working with a key. *)

(* openHandle. *)
Open ==
    /\ At("open")
    /\ \/ IF Key = NoKey THEN Refuse ELSE Proceed /\ Calm
       \/ Fail
    /\ UNCHANGED << store, call, st, result, ctx >>

(* publicKeyDer: whatever the object is, its public part, if it fits. *)
PublicKey ==
    /\ At("public_key")
    /\ \/ IF PubLen(Key) <= PubBuf
          THEN Proceed /\ Calm /\ result' = By("public", Key)
          ELSE Refuse /\ result' = result
       \/ Fail /\ result' = result
    /\ UNCHANGED << store, call, st, ctx >>

(* readFile: the message of sign, verify and encrypt is always there; the  *)
(* signature, the ciphertext and the peer key are what the file holds.     *)
Read ==
    /\ At("read")
    /\ \/ IF inv.cmd \in {"verify", "decrypt", "ecdh"} /\ file.kind = "none"
          THEN Refuse
          ELSE Proceed /\ Calm
       \/ Fail
    /\ UNCHANGED << store, call, st, result, ctx >>

(* csr: --subject is looked at before makeCsr exports the key. *)
Subject ==
    /\ At("subject")
    /\ IF inv.arg = "missing" THEN Refuse ELSE Proceed /\ Calm
    /\ UNCHANGED << store, call, st, result, ctx >>

(* buildCri (module CsrWriter) and the hash of what it returns. *)
BuildCri ==
    /\ At("build_cri")
    /\ \/ IF inv.arg = "invalid" THEN Refuse ELSE Proceed /\ Calm
       \/ Fail
    /\ UNCHANGED << store, call, st, result, ctx >>

(* ecdh: the peer key is set as a key of curve_, which open leaves at      *)
(* P-256; for another size the secure element may accept or refuse it.     *)
(* The objects of the peer and of the secret are those of TransientIds, so *)
(* that the slots of Ids stay as they are.                                 *)
LoadPeer ==
    /\ At("load_peer")
    /\ \/ file.kind = "public" /\ file.key.alg = "ecc" /\ Proceed /\ Calm
       \/ ~(file.kind = "public" /\ file.key.alg = "ecc" /\ file.key.size = 256)
             /\ Refuse
       \/ Fail
    /\ UNCHANGED << store, call, st, result, ctx >>

InitContext ==
    /\ At("context")
    /\ \/ ctx' = TRUE /\ Proceed /\ Calm
       \/ ctx' = ctx /\ Fail
    /\ UNCHANGED << store, call, st, result >>

(* getRandom: the vector of as many bytes as the user asks for.  The       *)
(* allocation throws between the initialisation of the context and its     *)
(* release, which is then skipped.                                         *)
AllocateOut ==
    /\ At("buffer")
    /\ IF inv.arg = "ok" THEN Proceed /\ Calm ELSE Refuse
    /\ UNCHANGED << store, call, st, result, ctx >>

(* External: when the call on the context succeeds. *)
Matches ==
    /\ inv.cmd # "rng" => Key.alg = inv.group
    /\ inv.cmd \in {"sign", "csr", "encrypt"} => SigLen(Key) <= OutBuf
    /\ inv.cmd = "verify"  => file = By("signature", Key)
    /\ inv.cmd = "decrypt" => file = By("cipher", Key)
    /\ inv.cmd = "ecdh"    => file.key.size = Key.size

(* What each command emits, and whether a key has made it. *)
Product == [ rng |-> "random", genkey |-> "public", pub |-> "public",
             sign |-> "signature", verify |-> "none", encrypt |-> "cipher",
             decrypt |-> "plain", ecdh |-> "secret", csr |-> "csr",
             unknown |-> "none" ]

Output == By(Product[inv.cmd],
             IF inv.cmd \in {"rng", "verify", "decrypt"} THEN NoKey ELSE Key)

Operate ==
    /\ At("operate")
    /\ \/ /\ IF Matches THEN st' = "ok" /\ result' = Output
                        ELSE st' = "fail" /\ result' = result
          /\ Calm
       \/ st' = "fail" /\ result' = result /\ Fault
    /\ Proceed
    /\ UNCHANGED << store, call, ctx >>

(* Plausible bug: the check comes before the release. *)
Conclude_ChecksFirst ==
    /\ At("conclude")
    /\ IF inv.cmd = "verify"
       THEN Exit(IF st = "ok" THEN 0 ELSE 2) /\ UNCHANGED pc /\ ctx' = FALSE
       ELSE IF st = "ok" THEN Proceed /\ ctx' = FALSE ELSE Throw /\ ctx' = ctx
    /\ UNCHANGED << store, call, st, result, faulty >>

(* Plausible bug: verify prints its verdict and always returns 0. *)
Conclude_IgnoresVerdict ==
    /\ At("conclude")
    /\ ctx' = FALSE
    /\ IF inv.cmd = "verify"
       THEN Exit(0) /\ UNCHANGED pc
       ELSE IF st = "ok" THEN Proceed ELSE Throw
    /\ UNCHANGED << store, call, st, result, faulty >>

(* Plausible bug: the status is not checked after the release. *)
Conclude_Unchecked ==
    /\ At("conclude")
    /\ ctx' = FALSE
    /\ IF inv.cmd = "verify"
       THEN Exit(IF st = "ok" THEN 0 ELSE 2) /\ UNCHANGED pc
       ELSE Proceed
    /\ UNCHANGED << store, call, st, result, faulty >>

(* The context is freed, then the status is checked; verify turns it into  *)
(* the exit code 0 or 2.                                                   *)
Conclude ==
    /\ At("conclude")
    /\ ctx' = FALSE
    /\ IF inv.cmd = "verify"
       THEN Exit(IF st = "ok" THEN 0 ELSE 2) /\ UNCHANGED pc
       ELSE IF st = "ok" THEN Proceed ELSE Throw
    /\ UNCHANGED << store, call, st, result, faulty >>

(* The derived secret is read back into 64 bytes. *)
ReadSecret ==
    /\ At("read_secret")
    /\ \/ IF SecretLen(Key) <= SecretBuf THEN Proceed /\ Calm ELSE Refuse
       \/ Fail
    /\ UNCHANGED << store, call, st, result, ctx >>

(* Plausible bug: the write is checked, and the truncated file left there. *)
Emit_ThrowsLate ==
    /\ At("emit")
    /\ IF inv.out = "stdout"
       THEN file' = file /\ Proceed /\ Calm
       ELSE \/ file' = result /\ Proceed /\ Calm
            \/ file' \in {file, Plain("torn")} /\ Fail
    /\ UNCHANGED << se, made, call, st, result, ctx >>

(* emit, emitText and writeFile: a file that cannot be opened throws, a    *)
(* write that fails goes unnoticed.                                        *)
Emit ==
    /\ At("emit")
    /\ IF inv.out = "stdout"
       THEN file' = file /\ Proceed /\ Calm
       ELSE \/ file' = result /\ Proceed /\ Calm
            \/ file' = file /\ Fail
            \/ file' = Plain("torn") /\ Proceed /\ Fault
    /\ UNCHANGED << se, made, call, st, result, ctx >>

(* "unknown ecc command" and its like. *)
Reject ==
    /\ At("reject") /\ Refuse
    /\ UNCHANGED << store, call, st, result, ctx >>

Finish ==
    /\ phase = "running" /\ pc = Len(Script) + 1
    /\ Exit(0)
    /\ UNCHANGED << store, call, pc, st, result, ctx, faulty >>

(* External: the process dies; a file being written is left truncated.     *)
Kill ==
    /\ phase \in {"boot", "running"}
    /\ phase' = "killed"
    /\ file' \in {file} \cup (IF At("emit") /\ inv.out = "file"
                              THEN {Plain("torn")} ELSE {})
    /\ UNCHANGED << se, made, call, pc, st, result, ctx, session, rc, faulty >>

Init ==
    /\ se = [id \in Ids |-> NoKey] /\ file = Plain("none") /\ made = 0
    /\ inv \in { i \in Invocations : i.cmd = "rng" }
    /\ before = [se |-> se, file |-> file]
    /\ phase = "idle" /\ pc = 1 /\ st = "ok" /\ result = Plain("none")
    /\ ctx = FALSE /\ session = "closed" /\ rc = 0 /\ faulty = FALSE

Next ==
    \/ Start \/ Boot \/ Erase \/ ParseSize \/ Allocate \/ Generate \/ Open
    \/ PublicKey \/ Read \/ Subject \/ BuildCri \/ LoadPeer \/ InitContext
    \/ AllocateOut \/ Operate \/ Conclude \/ ReadSecret \/ Emit \/ Reject \/ Finish \/ Kill

Spec == Init /\ [][Next]_vars

-----------------------------------------------------------------------------
Exited == phase = "exited"

(* Every variable stays in its range; a command never runs past its end.   *)
TypeOK ==
    /\ se \in [Ids -> Keys \cup {NoKey}]
    /\ file \in Content /\ result \in Content
    /\ made \in 0 .. MaxKeys
    /\ inv \in Invocations
    /\ before.se \in [Ids -> Keys \cup {NoKey}] /\ before.file \in Content
    /\ phase \in {"idle", "boot", "running", "exited", "killed"}
    /\ pc \in 1 .. Len(Script) + 1
    /\ st \in {"ok", "fail"}
    /\ ctx \in BOOLEAN /\ faulty \in BOOLEAN
    /\ session \in {"open", "closed"}
    /\ rc \in 0 .. 2

(* Whatever call fails, the program returns with its session closed and    *)
(* every context freed.  The one exception is a count of random bytes that *)
(* cannot be allocated: it leaves the context of getRandom as it is.       *)
ReleasedAtExit ==
    Exited => /\ session = "closed"
              /\ ctx => inv.cmd = "rng" /\ inv.arg = "invalid" /\ rc = 1

(* Only genkey changes the keys under the user's identifiers, and only the *)
(* one it was given.  That slot then holds the key that was asked for, or  *)
(* it is empty, for which --force is needed.  Without --force the new key  *)
(* takes the place of an old one only if the secure element allows it.     *)
OnlyGenkeyChangesKeys ==
    \A id \in Ids :
        phase # "idle" /\ se[id] # before.se[id] =>
            /\ inv.cmd = "genkey" /\ inv.id = id
            /\ \/ se[id] = NoKey /\ inv.force
               \/ se[id] = [alg |-> inv.group, size |-> inv.size, serial |-> made]

(* verify says yes exactly to a signature made by the key that is under    *)
(* the identifier now, not by one it has replaced.                         *)
VerdictIsSound ==
    Exited /\ inv.cmd = "verify" =>
        /\ rc = 0 => file = By("signature", se[inv.id])
        /\ rc = 2 /\ ~faulty /\ se[inv.id].alg = inv.group
               => file # By("signature", se[inv.id])

(* A command that fails leaves the file it was going to write as it was.   *)
FailureKeepsFile == Exited /\ rc # 0 => file = before.file

(* A command that succeeds has put into the file the output of the key     *)
(* that is under the identifier, unless a failed write went unnoticed.     *)
SuccessDelivers ==
    Exited /\ rc = 0 /\ ~faulty /\ inv.out = "file" /\ inv.cmd # "verify" =>
        /\ file.kind \notin {"none", "torn"}
        /\ inv.cmd \notin {"rng", "decrypt"} => file.key = se[inv.id]

(* What a command needs in order to succeed. *)
Wanted ==
    LET k == before.se[inv.id]
        own == k # NoKey /\ k.alg = inv.group
    IN  /\ inv.arg = "ok" /\ inv.cmd # "unknown"
        /\ CASE inv.cmd = "rng"     -> TRUE
             [] inv.cmd = "genkey"  -> k = NoKey \/ inv.force
             [] inv.cmd = "verify"  -> own /\ before.file = By("signature", k)
             [] inv.cmd = "decrypt" -> own /\ before.file = By("cipher", k)
             [] inv.cmd = "ecdh"    -> /\ own
                                       /\ before.file.kind = "public"
                                       /\ before.file.key.alg = "ecc"
                                       /\ before.file.key.size = k.size
             [] OTHER               -> own

(* On keys of the default sizes, every command whose key and input are     *)
(* there succeeds unless an external call fails.                           *)
DefaultSizesWork ==
    Exited /\ ~faulty /\ Wanted
        /\ (inv.cmd \notin {"genkey", "rng"} => before.se[inv.id].size \in {256, 2048})
        => rc = 0

(* The usage text and the comment on the options: the commands work on the *)
(* keys of every size that genkey offers.                                  *)
DocumentedCommandsWork == Exited /\ ~faulty /\ Wanted => rc = 0

(* The message "wrote ... bytes to" the file: a command that returns 0 has *)
(* written what it computed.                                               *)
WroteWhatItSays ==
    Exited /\ rc = 0 /\ inv.out = "file" /\ inv.cmd # "verify" => file = result

-----------------------------------------------------------------------------
(* The program implements KeyService: a command is done once its last step *)
(* is, and answers when main returns.                                      *)
Status == CASE phase = "idle"   -> "idle"
            [] phase = "exited" -> "answered"
            [] phase = "killed" -> "dead"
            [] OTHER            -> IF pc \in DOMAIN Script THEN "busy" ELSE "done"

Service ==
    INSTANCE KeyService
        WITH Demands <- Invocations, Slots <- Ids, keys <- se, request <- inv,
             status <- Status, code <- rc

(* A command, with all that may fail in it, is one request to a store of   *)
(* keys: what it answers and writes is true of the key that is in the slot *)
(* at that moment, for genkey the one that it has made.                    *)
ImplementsService == Service!Spec

=============================================================================

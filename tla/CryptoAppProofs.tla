---------------------------- MODULE CryptoAppProofs ----------------------------
(***************************************************************************)
(* Theorems about the command line program, for any identifiers, sizes and *)
(* number of keys: its type invariant, what it guarantees when it returns, *)
(* whichever call failed, that it works on keys of the default sizes       *)
(* unless a call fails, and that it implements KeyService.                 *)
(***************************************************************************)
EXTENDS CryptoApp, TLAPS

Cmds == {"rng", "genkey", "pub", "sign", "verify", "encrypt", "decrypt",
         "ecdh", "csr", "unknown"}

(* What the scripts of the commands have in common. *)
Shape(script, cmd) ==
    /\ Len(script) \in 1 .. 8
    /\ DOMAIN script = 1 .. Len(script)
    /\ \A k \in DOMAIN script :
          /\ script[k] = "context" =>
                 k + 1 \in DOMAIN script /\ script[k + 1] \in {"buffer", "operate"}
          /\ script[k] = "buffer" =>
                 k + 1 \in DOMAIN script /\ script[k + 1] = "operate"
          /\ script[k] = "operate" =>
                 k + 1 \in DOMAIN script /\ script[k + 1] = "conclude"
          /\ script[k] = "conclude" => k > 1 /\ script[k - 1] = "operate"
          /\ script[k] = "emit" => k = Len(script) /\ cmd # "verify"
          /\ script[k] \in {"erase", "generate"} => cmd = "genkey"
          /\ script[k] = "generate" => k = 4
          /\ cmd = "verify" /\ k = Len(script) => script[k] = "conclude"

LEMMA Shapes == \A cmd \in Cmds : Shape(Steps[cmd], cmd)
<1>1. Shape(Steps["rng"], "rng")
  BY DEF Shape, Steps
<1>2. Shape(Steps["genkey"], "genkey")
  BY DEF Shape, Steps
<1>3. Shape(Steps["pub"], "pub")
  BY DEF Shape, Steps
<1>4. Shape(Steps["sign"], "sign")
  BY DEF Shape, Steps
<1>5. Shape(Steps["verify"], "verify")
  BY DEF Shape, Steps
<1>6. Shape(Steps["encrypt"], "encrypt")
  BY DEF Shape, Steps
<1>7. Shape(Steps["decrypt"], "decrypt")
  BY DEF Shape, Steps
<1>8. Shape(Steps["ecdh"], "ecdh")
  BY DEF Shape, Steps
<1>9. Shape(Steps["csr"], "csr")
  BY DEF Shape, Steps
<1>10. Shape(Steps["unknown"], "unknown")
  BY DEF Shape, Steps
<1> QED
  BY <1>1, <1>2, <1>3, <1>4, <1>5, <1>6, <1>7, <1>8, <1>9, <1>10 DEF Cmds

(* What the user's invocations have in common. *)
LEMMA InvocationTyped ==
    \A i \in Invocations :
        /\ i.cmd \in Cmds
        /\ i.id \in Ids
        /\ i.force \in BOOLEAN
        /\ i.cmd = "genkey" =>
              \/ i.group = "ecc" /\ i.size \in EccSizes
              \/ i.group = "rsa" /\ i.size \in RsaSizes
<1>1. SUFFICES ASSUME NEW i \in Invocations
               PROVE  /\ i.cmd \in Cmds
                      /\ i.id \in Ids
                      /\ i.force \in BOOLEAN
                      /\ i.cmd = "genkey" =>
                            \/ i.group = "ecc" /\ i.size \in EccSizes
                            \/ i.group = "rsa" /\ i.size \in RsaSizes
  OBVIOUS
<1>2. PICK group \in {"rng", "ecc", "rsa"} :
         i \in UNION { Requests(group, cmd) : cmd \in Commands(group) }
  BY DEF Invocations
<1>3. PICK cmd \in Commands(group) : i \in Requests(group, cmd)
  BY <1>2
<1>4. i.group = group /\ i.cmd = cmd /\ i.id \in Ids
  BY <1>3 DEF Requests
<1>5. i.size \in (IF cmd = "genkey" THEN Sizes(group) ELSE {0})
  BY <1>3 DEF Requests
<1>6. i.force \in (IF cmd = "genkey" THEN BOOLEAN ELSE {FALSE})
  BY <1>3 DEF Requests
<1>7. cmd \in Cmds /\ (cmd = "genkey" => group \in {"ecc", "rsa"})
  BY <1>3 DEF Commands, Cmds
<1> QED
  BY <1>4, <1>5, <1>6, <1>7 DEF Sizes

-----------------------------------------------------------------------------
(* The type invariant. *)

(* While a key is still to be generated there is a serial number for it. *)
SerialLeft ==
    inv.cmd = "genkey" /\ phase \in {"boot", "running"} /\ pc <= 4
        => made < MaxKeys

ControlTyped ==
    /\ inv \in Invocations
    /\ before.se \in [Ids -> Keys \cup {NoKey}] /\ before.file \in Content
    /\ phase \in {"idle", "boot", "running", "exited", "killed"}
    /\ pc \in 1 .. Len(Script) + 1
    /\ faulty \in BOOLEAN
    /\ session \in {"open", "closed"}
    /\ rc \in 0 .. 2

DataTyped ==
    /\ se \in [Ids -> Keys \cup {NoKey}]
    /\ file \in Content /\ result \in Content
    /\ made \in 0 .. MaxKeys
    /\ st \in {"ok", "fail"}
    /\ ctx \in BOOLEAN

LEMMA TypeParts == TypeOK <=> ControlTyped /\ DataTyped
BY DEF TypeOK, ControlTyped, DataTyped

(* How a step of a command ends: the next step, or the exit of main. *)
StepEnds == Proceed \/ (UNCHANGED pc /\ \E code \in 0 .. 2 : Exit(code))

LEMMA EndOfStep == (Proceed => StepEnds) /\ (Throw => StepEnds)
<1>1. Proceed => StepEnds
  BY DEF StepEnds
<1>2. ASSUME Throw PROVE StepEnds
  <2>1. UNCHANGED pc /\ Exit(1) /\ 1 \in 0 .. 2
    BY <1>2 DEF Throw
  <2> QED
    BY <2>1 DEF StepEnds
<1> QED
  BY <1>1, <1>2

LEMMA ConcludeEnds ==
    ASSUME Exit(IF st = "ok" THEN 0 ELSE 2), UNCHANGED pc
    PROVE  StepEnds
BY DEF StepEnds, Exit

LEMMA ScriptTyped ==
    ASSUME TypeOK
    PROVE  Shape(Script, inv.cmd) /\ inv.cmd \in Cmds
BY InvocationTyped, Shapes DEF TypeOK, Script

(* A step of a command leaves the control variables in their ranges. *)
LEMMA StepTyped ==
    ASSUME TypeOK, SerialLeft, NEW step, At(step), UNCHANGED call,
           faulty' \in {faulty, TRUE},
           StepEnds
    PROVE  /\ ControlTyped'
           /\ made' = made => SerialLeft'
<1>1. Script' = Script /\ inv' = inv /\ before' = before
  BY DEF call, Script
<1>2. pc \in 1 .. Len(Script) /\ Len(Script) \in Nat /\ phase = "running"
  BY ScriptTyped DEF Shape, At
<1>3. pc' \in 1 .. Len(Script) + 1 /\ pc <= pc'
  BY <1>2 DEF StepEnds, Proceed
<1>4. /\ phase' \in {"running", "exited"}
      /\ session' \in {session, "closed"} /\ rc' \in {rc} \cup 0 .. 2
  BY <1>2 DEF StepEnds, Proceed, Exit
<1>5. ControlTyped'
  BY <1>1, <1>3, <1>4 DEF ControlTyped, TypeOK
<1>6. ASSUME made' = made PROVE SerialLeft'
  BY <1>1, <1>2, <1>3, <1>6 DEF SerialLeft
<1> QED
  BY <1>5, <1>6

LEMMA KeyTyped ==
    ASSUME TypeOK
    PROVE  inv.id \in Ids /\ Key \in Keys \cup {NoKey}
BY InvocationTyped DEF TypeOK, Key

LEMMA ContentTyped ==
    \A kind \in Kinds : /\ Plain(kind) \in Content
                        /\ \A k \in Keys \cup {NoKey} : By(kind, k) \in Content
BY DEF Plain, By, Content

(* Every variable stays in its range, whatever is asked of the program.    *)
THEOREM AppTyping == Spec => []TypeOK
<1> DEFINE Inv == TypeOK /\ SerialLeft
<1>1. Init => Inv
  <2> SUFFICES ASSUME Init PROVE Inv
    OBVIOUS
  <2>1. inv \in Invocations /\ inv.cmd = "rng" /\ pc = 1
    BY DEF Init
  <2>2. 1 \in 1 .. Len(Script) + 1
    BY <2>1, Shapes DEF Script, Shape, Cmds
  <2>3. Plain("none") \in Content
    BY ContentTyped DEF Kinds
  <2>4. se \in [Ids -> Keys \cup {NoKey}]
    BY DEF Init
  <2>5. made \in 0 .. MaxKeys
    BY MaxKeysAssumption DEF Init
  <2>6. ControlTyped
    <3>1. before.se = se /\ before.file = Plain("none")
      BY DEF Init
    <3>2. /\ phase = "idle" /\ session = "closed" /\ rc = 0 /\ faulty = FALSE
      BY DEF Init
    <3>3. rc \in 0 .. 2 /\ pc \in 1 .. Len(Script) + 1
      BY <2>1, <2>2, <3>2
    <3>4. before.se \in [Ids -> Keys \cup {NoKey}] /\ before.file \in Content
      BY <2>3, <2>4, <3>1
    <3> QED
      BY <2>1, <3>2, <3>3, <3>4 DEF ControlTyped
  <2>7. DataTyped
    BY <2>3, <2>4, <2>5 DEF Init, DataTyped
  <2>8. SerialLeft
    BY <2>1 DEF SerialLeft
  <2> QED
    BY <2>6, <2>7, <2>8, TypeParts
<1>2. ASSUME Inv, [Next]_vars
      PROVE  Inv'
  <2> USE <1>2
  <2>1. CASE Start
    <3>1. /\ inv' \in Invocations /\ pc' = 1 /\ phase' = "boot"
          /\ before' = [se |-> se, file |-> file]
          /\ inv'.cmd = "genkey" => made < MaxKeys
          /\ UNCHANGED store
          /\ st' = "ok" /\ result' = Plain("none") /\ ctx' = FALSE
          /\ session' = "closed" /\ rc' = 0 /\ faulty' = FALSE
      BY <2>1 DEF Start
    <3>2. 1 \in 1 .. Len(Script') + 1
      BY <3>1, InvocationTyped, Shapes DEF Script, Shape
    <3>3. Plain("none") \in Content
      BY ContentTyped DEF Kinds
    <3>4. ControlTyped'
      <4>1. before'.se = se /\ before'.file = file
        BY <3>1
      <4>2. se \in [Ids -> Keys \cup {NoKey}] /\ file \in Content
        BY DEF TypeOK
      <4>3. rc' \in 0 .. 2 /\ pc' \in 1 .. Len(Script') + 1
        BY <3>1, <3>2
      <4>4. /\ before'.se \in [Ids -> Keys \cup {NoKey}]
            /\ before'.file \in Content
        BY <4>1, <4>2
      <4> QED
        BY <3>1, <4>3, <4>4 DEF ControlTyped
    <3>5. DataTyped'
      BY <3>1, <3>3 DEF DataTyped, TypeOK, store
    <3>6. SerialLeft'
      BY <3>1 DEF SerialLeft, store
    <3> QED
      BY <3>4, <3>5, <3>6 DEF TypeOK, ControlTyped, DataTyped
  <2>2. CASE Boot
    <3>1. /\ phase = "boot" /\ UNCHANGED << store, call, pc, st, result, ctx >>
          /\ phase' \in {"boot", "running", "exited"}
          /\ session' \in {"open", "closed"}
          /\ rc' \in {rc, 1} /\ faulty' \in {faulty, TRUE}
      BY <2>2 DEF Boot, Exit, Fault, TypeOK
    <3>2. ControlTyped'
      <4>1. inv' = inv /\ before' = before /\ pc' = pc /\ Script' = Script
        BY <3>1 DEF call, Script
      <4>2. ControlTyped
        BY DEF TypeOK, ControlTyped
      <4>3. rc' \in 0 .. 2
        BY <3>1, <4>2 DEF ControlTyped
      <4>5. faulty' \in BOOLEAN
        BY <3>1, <4>2 DEF ControlTyped
      <4>4. pc' \in 1 .. Len(Script') + 1
        BY <4>1, <4>2 DEF ControlTyped
      <4> QED
        BY <3>1, <4>1, <4>2, <4>3, <4>4, <4>5 DEF ControlTyped
    <3>3. DataTyped'
      BY <3>1 DEF DataTyped, TypeOK, store
    <3>4. SerialLeft'
      BY <3>1 DEF SerialLeft, store, call
    <3> QED
      BY <3>2, <3>3, <3>4 DEF TypeOK, ControlTyped, DataTyped
  <2>3. CASE ParseSize \/ Allocate \/ Open \/ Read \/ Subject \/ BuildCri
             \/ LoadPeer \/ AllocateOut \/ ReadSecret \/ Reject
    <3>1. /\ \E step : At(step)
          /\ UNCHANGED << store, call, st, result, ctx >>
          /\ faulty' \in {faulty, TRUE}
          /\ StepEnds
      BY <2>3, EndOfStep DEF ParseSize, Allocate, Open, Read, Subject, BuildCri, LoadPeer,
                  AllocateOut, ReadSecret, Reject, Refuse, Fail, Calm, Fault
    <3> QED
      BY <3>1, StepTyped DEF TypeOK, ControlTyped, store
  <2>4. CASE Erase
    <3>1. /\ At("erase") /\ Proceed /\ faulty' \in {faulty, TRUE}
          /\ se' \in {se, [se EXCEPT ![inv.id] = NoKey]}
          /\ UNCHANGED << file, made, call, st, result, ctx >>
      BY <2>4 DEF Erase, Calm, Fault
    <3>2. se' \in [Ids -> Keys \cup {NoKey}]
      BY <3>1 DEF TypeOK
    <3>3. ControlTyped' /\ SerialLeft'
      BY <3>1, StepTyped, EndOfStep
    <3> QED
      BY <3>1, <3>2, <3>3 DEF TypeOK, ControlTyped
  <2>5. CASE Generate
    <3> DEFINE k == [alg |-> inv.group, size |-> inv.size, serial |-> made + 1]
    <3>1. /\ At("generate") /\ faulty' \in {faulty, TRUE}
          /\ StepEnds
          /\ Proceed \/ Throw
          /\ se' \in {se, [se EXCEPT ![inv.id] = k]}
          /\ made' = made + 1
          /\ UNCHANGED << file, call, st, result, ctx >>
      BY <2>5, EndOfStep DEF Generate, Refuse, Fail, Calm, Fault
    <3>2. /\ inv.cmd = "genkey" /\ pc = 4 /\ phase = "running"
      BY <3>1, ScriptTyped DEF At, Shape
    <3>3. made < MaxKeys /\ made + 1 \in 1 .. MaxKeys
      BY <3>2, MaxKeysAssumption DEF SerialLeft, TypeOK
    <3>4. k \in Keys
      BY <3>2, <3>3, InvocationTyped DEF TypeOK, Keys
    <3>5. se' \in [Ids -> Keys \cup {NoKey}]
      BY <3>1, <3>4 DEF TypeOK
    <3>6. SerialLeft'
      BY <3>1, <3>2 DEF SerialLeft, Proceed, Throw, Exit
    <3>7. ControlTyped'
      BY <3>1, StepTyped
    <3> QED
      BY <3>1, <3>3, <3>5, <3>6, <3>7 DEF TypeOK, ControlTyped
  <2>6. CASE PublicKey
    <3>1. /\ At("public_key") /\ faulty' \in {faulty, TRUE}
          /\ StepEnds
          /\ result' \in {result, By("public", Key)}
          /\ UNCHANGED << store, call, st, ctx >>
      BY <2>6, EndOfStep DEF PublicKey, Refuse, Fail, Calm, Fault
    <3>2. result' \in Content
      BY <3>1, KeyTyped, ContentTyped DEF TypeOK, Kinds
    <3> QED
      BY <3>1, <3>2, StepTyped DEF TypeOK, ControlTyped, store
  <2>7. CASE InitContext
    <3>1. /\ At("context") /\ faulty' \in {faulty, TRUE}
          /\ StepEnds
          /\ ctx' \in {ctx, TRUE}
          /\ UNCHANGED << store, call, st, result >>
      BY <2>7, EndOfStep DEF InitContext, Fail, Calm, Fault
    <3> QED
      BY <3>1, StepTyped DEF TypeOK, ControlTyped, store
  <2>8. CASE Operate
    <3>1. /\ At("operate") /\ faulty' \in {faulty, TRUE} /\ Proceed
          /\ st' \in {"ok", "fail"} /\ result' \in {result, Output}
          /\ UNCHANGED << store, call, ctx >>
      BY <2>8 DEF Operate, Calm, Fault
    <3>2. Product[inv.cmd] \in Kinds
      BY ScriptTyped DEF Product, Kinds, Cmds
    <3>3. result' \in Content
      BY <3>1, <3>2, KeyTyped, ContentTyped DEF TypeOK, Output
    <3>4. ControlTyped' /\ SerialLeft'
      BY <3>1, StepTyped, EndOfStep DEF store
    <3> QED
      BY <3>1, <3>3, <3>4 DEF TypeOK, ControlTyped, store
  <2>9. CASE Conclude
    <3>1. /\ At("conclude") /\ ctx' = FALSE /\ faulty' = faulty
          /\ StepEnds
          /\ UNCHANGED << store, call, st, result >>
      BY <2>9, EndOfStep, ConcludeEnds DEF Conclude
    <3> QED
      BY <3>1, StepTyped DEF TypeOK, ControlTyped, store
  <2>10. CASE Emit
    <3>1. /\ At("emit") /\ faulty' \in {faulty, TRUE}
          /\ StepEnds
          /\ file' \in {file, result, Plain("torn")}
          /\ UNCHANGED << se, made, call, st, result, ctx >>
      BY <2>10, EndOfStep DEF Emit, Fail, Calm, Fault
    <3>2. file' \in Content
      BY <3>1, ContentTyped DEF TypeOK, Kinds
    <3> QED
      BY <3>1, <3>2, StepTyped DEF TypeOK, ControlTyped
  <2>11. CASE Finish
    BY <2>11 DEF Finish, Exit, TypeOK, SerialLeft, store, call, Script
  <2>12. CASE Kill
    <3>1. /\ phase' = "killed" /\ file' \in {file, Plain("torn")}
          /\ UNCHANGED << se, made, call, pc, st, result, ctx, session, rc, faulty >>
      BY <2>12 DEF Kill
    <3>2. file' \in Content
      BY <3>1, ContentTyped DEF TypeOK, Kinds
    <3> QED
      BY <3>1, <3>2 DEF TypeOK, SerialLeft, call, Script
  <2>13. CASE UNCHANGED vars
    BY <2>13 DEF vars, TypeOK, SerialLeft, Script
  <2> QED
    BY <1>2, <2>1, <2>2, <2>3, <2>4, <2>5, <2>6, <2>7, <2>8, <2>9, <2>10,
       <2>11, <2>12, <2>13 DEF Next
<1> QED
  BY <1>1, <1>2, PTL DEF Spec

-----------------------------------------------------------------------------
(* What the program guarantees when it returns.                            *)

(* The steps that change neither a key, nor the file, nor the context.     *)
PlainStep ==
    /\ \E step : /\ At(step)
                 /\ step \notin {"erase", "generate", "context", "operate",
                                 "conclude", "emit"}
    /\ Throw \/ (Proceed /\ ~At("reject"))
    /\ At("buffer") => Proceed \/ inv.arg # "ok"
    /\ se' = se /\ file' = file /\ made' = made /\ inv' = inv /\ before' = before
    /\ ctx' = ctx /\ st' = st
    /\ result' = result \/ (At("public_key") /\ result' = By("public", Key))
    /\ Proceed /\ At("public_key") => result' = By("public", Key)
    /\ Proceed /\ At("open") => Key # NoKey
    /\ Proceed /\ At("load_peer") => file.kind = "public" /\ file.key.alg = "ecc"
    /\ faulty' \in {faulty, TRUE}

LEMMA KindsOfSteps ==
    ASSUME [Next]_vars
    PROVE  Start \/ Boot \/ PlainStep \/ Erase \/ Generate \/ InitContext
               \/ Operate \/ Conclude \/ Emit \/ Finish \/ Kill \/ UNCHANGED vars
<1>1. ASSUME ParseSize \/ Allocate \/ Open \/ Read \/ Subject \/ BuildCri
                 \/ LoadPeer \/ AllocateOut \/ ReadSecret \/ Reject \/ PublicKey
      PROVE  PlainStep
  <2>1. CASE ParseSize
    BY <2>1 DEF ParseSize, PlainStep, At, Calm, Fault, Refuse, store, call
  <2>2. CASE Allocate
    BY <2>2 DEF Allocate, PlainStep, At, Calm, Fault, Refuse, Fail, store, call
  <2>3. CASE Open
    BY <2>3 DEF Open, PlainStep, At, Calm, Fault, Refuse, Fail, Throw, Exit, Proceed, store, call
  <2>4. CASE Read
    BY <2>4 DEF Read, PlainStep, At, Calm, Fault, Refuse, Fail, store, call
  <2>5. CASE Subject
    BY <2>5 DEF Subject, PlainStep, At, Calm, Fault, Refuse, Fail, store, call
  <2>6. CASE BuildCri
    BY <2>6 DEF BuildCri, PlainStep, At, Calm, Fault, Refuse, Fail, store, call
  <2>7. CASE LoadPeer
    BY <2>7 DEF LoadPeer, PlainStep, At, Calm, Fault, Refuse, Fail, Throw, Exit, Proceed, store, call
  <2>8. CASE ReadSecret
    BY <2>8 DEF ReadSecret, PlainStep, At, Calm, Fault, Refuse, Fail, store, call
  <2>9. CASE Reject
    BY <2>9 DEF Reject, PlainStep, At, Calm, Fault, Refuse, store, call
  <2>10. CASE PublicKey
    <3>1. /\ At("public_key") /\ ~At("reject") /\ ~At("open") /\ ~At("load_peer")
          /\ ~At("buffer")
          /\ UNCHANGED << store, call, st, ctx >>
      BY <2>10 DEF PublicKey, At
    <3>2. ~(Throw /\ Proceed)
      BY <3>1 DEF At, Throw, Proceed, Exit
    <3>3. \/ Proceed /\ Calm /\ result' = By("public", Key)
          \/ Throw /\ (Calm \/ Fault) /\ result' = result
      BY <2>10 DEF PublicKey, Refuse, Fail
    <3>4. /\ \E step : /\ At(step)
                       /\ step \notin {"erase", "generate", "context",
                                       "operate", "conclude", "emit"}
          /\ se' = se /\ file' = file /\ made' = made /\ inv' = inv /\ before' = before
          /\ ctx' = ctx /\ st' = st
      BY <3>1 DEF store, call
    <3>5. faulty' \in {faulty, TRUE}
      BY <3>3 DEF Calm, Fault
    <3> QED
      BY <3>1, <3>2, <3>3, <3>4, <3>5 DEF PlainStep
  <2>11. CASE AllocateOut
    BY <2>11 DEF AllocateOut, PlainStep, At, Calm, Refuse, store, call
  <2> QED
    BY <1>1, <2>1, <2>2, <2>3, <2>4, <2>5, <2>6, <2>7, <2>8, <2>9, <2>10, <2>11
<1> QED
  BY <1>1 DEF Next

(* Which commands take which steps. *)
StepsTaken(script, cmd) ==
    \A k \in DOMAIN script :
        /\ script[k] = "reject" => cmd = "unknown"
        /\ script[k] \in {"erase", "size", "allocate", "generate"} => cmd = "genkey"
        /\ script[k] \in {"context", "operate", "conclude", "open", "read",
                          "subject", "build_cri"} => cmd \notin {"genkey", "unknown"}
        /\ script[k] \in {"open", "public_key", "read_secret", "load_peer"} =>
               cmd # "rng"
        /\ script[k] \in {"load_peer", "read_secret"} => cmd = "ecdh"
        /\ script[k] = "buffer" => cmd = "rng"
        /\ cmd = "genkey" =>
               script[k] = << "erase", "size", "allocate", "generate",
                              "public_key", "emit" >>[k]

LEMMA TakenSteps == \A cmd \in Cmds : StepsTaken(Steps[cmd], cmd)
<1>1. StepsTaken(Steps["rng"], "rng")
  BY DEF StepsTaken, Steps
<1>2. StepsTaken(Steps["genkey"], "genkey")
  BY DEF StepsTaken, Steps
<1>3. StepsTaken(Steps["pub"], "pub")
  BY DEF StepsTaken, Steps
<1>4. StepsTaken(Steps["sign"], "sign")
  BY DEF StepsTaken, Steps
<1>5. StepsTaken(Steps["verify"], "verify")
  BY DEF StepsTaken, Steps
<1>6. StepsTaken(Steps["encrypt"], "encrypt")
  BY DEF StepsTaken, Steps
<1>7. StepsTaken(Steps["decrypt"], "decrypt")
  BY DEF StepsTaken, Steps
<1>8. StepsTaken(Steps["ecdh"], "ecdh")
  BY DEF StepsTaken, Steps
<1>9. StepsTaken(Steps["csr"], "csr")
  BY DEF StepsTaken, Steps
<1>10. StepsTaken(Steps["unknown"], "unknown")
  BY DEF StepsTaken, Steps
<1> QED
  BY <1>1, <1>2, <1>3, <1>4, <1>5, <1>6, <1>7, <1>8, <1>9, <1>10 DEF Cmds

(* The position of a command determines its step. *)
LEMMA StepOfCommand ==
    ASSUME TypeOK, NEW step, At(step)
    PROVE  /\ phase = "running" /\ pc \in 1 .. Len(Script) /\ pc \in DOMAIN Script
           /\ Script[pc] = step
           /\ step = "reject" => inv.cmd = "unknown"
           /\ step \in {"erase", "size", "allocate", "generate"}
                  => inv.cmd = "genkey"
           /\ step \in {"context", "operate", "conclude", "open", "read",
                        "subject", "build_cri"}
                  => inv.cmd \notin {"genkey", "unknown"}
           /\ step \in {"open", "public_key", "read_secret", "load_peer"}
                  => inv.cmd # "rng"
           /\ step \in {"load_peer", "read_secret"} => inv.cmd = "ecdh"
           /\ step = "buffer" => inv.cmd = "rng"
           /\ inv.cmd = "genkey" =>
                 /\ pc = 1 <=> step = "erase"
                 /\ pc = 2 <=> step = "size"
                 /\ pc = 3 <=> step = "allocate"
                 /\ pc = 4 <=> step = "generate"
                 /\ pc = 5 <=> step = "public_key"
<1>1. StepsTaken(Script, inv.cmd) /\ Shape(Script, inv.cmd)
  BY ScriptTyped, TakenSteps DEF Script
<1>2. phase = "running" /\ pc \in DOMAIN Script /\ Script[pc] = step
  BY DEF At
<1>3. pc \in 1 .. Len(Script)
  BY <1>1, <1>2 DEF Shape
<1>4. ASSUME inv.cmd = "genkey"
      PROVE  /\ pc = 1 <=> step = "erase"
             /\ pc = 2 <=> step = "size"
             /\ pc = 3 <=> step = "allocate"
             /\ pc = 4 <=> step = "generate"
             /\ pc = 5 <=> step = "public_key"
  <2>1. Len(Script) = 6
    BY <1>4 DEF Script, Steps
  <2>2. pc \in 1 .. 6
    BY <1>3, <2>1
  <2>3. step = << "erase", "size", "allocate", "generate", "public_key", "emit" >>[pc]
    BY <1>1, <1>2, <1>4 DEF StepsTaken
  <2> QED
    BY <2>2, <2>3
<1> QED
  BY <1>1, <1>2, <1>3, <1>4 DEF StepsTaken

(* The two counts of random bytes that rng tells apart. *)
LEMMA RandomArguments ==
    \A i \in Invocations : i.cmd = "rng" => i.arg \in {"ok", "invalid"}
<1> SUFFICES ASSUME NEW i \in Invocations, i.cmd = "rng"
             PROVE  i.arg \in {"ok", "invalid"}
  OBVIOUS
<1>1. PICK group \in {"rng", "ecc", "rsa"} :
         i \in UNION { Requests(group, cmd) : cmd \in Commands(group) }
  BY DEF Invocations
<1>2. PICK cmd \in Commands(group) : i \in Requests(group, cmd)
  BY <1>1
<1>3. i.cmd = cmd /\ i.arg \in Arguments(cmd)
  BY <1>2 DEF Requests
<1> QED
  BY <1>3 DEF Arguments

(* A context is open only between its initialisation and its release, or   *)
(* after a throw at the only step in between that throws.                  *)
ReleaseInv ==
    /\ Exited => session = "closed"
    /\ ctx => \/ phase = "killed"
              \/ /\ phase = "running" /\ pc \in DOMAIN Script
                 /\ Script[pc] \in {"buffer", "operate", "conclude"}
              \/ /\ phase = "exited" /\ rc = 1
                 /\ inv.cmd = "rng" /\ inv.arg = "invalid"

(* Whatever call fails, the program returns with its session closed; it    *)
(* leaves a context open only for a random count that it cannot allocate.  *)
THEOREM Released == Spec => []ReleasedAtExit
<1>1. Init => ReleaseInv
  BY DEF Init, ReleaseInv, Exited
<1>2. ASSUME TypeOK, ReleaseInv, [Next]_vars
      PROVE  ReleaseInv'
  <2> USE TypeOK, ReleaseInv
  <2>0. Shape(Script, inv.cmd)
    BY ScriptTyped
  <2>1. CASE Start
    BY <2>1 DEF Start, ReleaseInv, Exited
  <2>2. CASE Boot
    BY <2>2 DEF Boot, Exit, ReleaseInv, Exited
  <2>3. CASE PlainStep
    <3>1. ctx' = ctx /\ inv' = inv /\ Script' = Script
      BY <2>3 DEF PlainStep, Script
    <3>2. phase' = "exited" => session' = "closed"
      BY <2>3 DEF PlainStep, Proceed, Throw, Exit, ReleaseInv, Exited
    <3>3. CASE ~At("buffer")
      <4>1. ~ctx
        BY <2>3, <3>3 DEF PlainStep, At, ReleaseInv
      <4> QED
        BY <3>1, <3>2, <4>1 DEF ReleaseInv, Exited
    <3>4. CASE At("buffer") /\ Proceed
      <4>1. /\ phase' = "running" /\ pc' \in DOMAIN Script
            /\ Script[pc'] = "operate"
        BY <2>0, <3>4 DEF At, Proceed, Shape
      <4> QED
        BY <3>1, <4>1 DEF ReleaseInv, Exited
    <3>5. CASE At("buffer") /\ Throw
      <4>1. inv.cmd = "rng" /\ inv.arg = "invalid"
        <5>1. inv.cmd = "rng"
          BY <3>5, StepOfCommand
        <5>2. ~Proceed
          BY <3>5 DEF At, Throw, Exit, Proceed
        <5>3. inv.arg # "ok"
          BY <2>3, <3>5, <5>2 DEF PlainStep
        <5> QED
          BY <5>1, <5>3, RandomArguments DEF TypeOK
      <4>2. phase' = "exited" /\ rc' = 1
        BY <3>5 DEF Throw, Exit
      <4> QED
        BY <3>1, <3>2, <4>1, <4>2 DEF ReleaseInv, Exited
    <3> QED
      BY <2>3, <3>3, <3>4, <3>5 DEF PlainStep
  <2>4. CASE Erase
    <3>1. ~ctx /\ ctx' = ctx
      BY <2>4 DEF Erase, At, ReleaseInv
    <3>2. phase' = phase /\ session' = session
      BY <2>4 DEF Erase, Proceed
    <3> QED
      BY <3>1, <3>2 DEF ReleaseInv, Exited
  <2>5. CASE Generate
    <3>1. ~ctx /\ ctx' = ctx
      BY <2>5 DEF Generate, At, ReleaseInv
    <3>2. phase' = "exited" => session' = "closed"
      BY <2>5 DEF Generate, Refuse, Fail, Proceed, Throw, Exit, ReleaseInv, Exited
    <3> QED
      BY <3>1, <3>2 DEF ReleaseInv, Exited
  <2>6. CASE InitContext
    <3>1. phase = "running" /\ pc \in DOMAIN Script /\ Script[pc] = "context"
      BY <2>6 DEF InitContext, At
    <3>2. Script[pc + 1] \in {"buffer", "operate"} /\ pc + 1 \in DOMAIN Script
      BY <2>0, <3>1 DEF Shape
    <3>3. Script' = Script
      BY <2>6 DEF InitContext, call, Script
    <3>4. CASE Proceed
      BY <3>1, <3>2, <3>3, <3>4 DEF Proceed, ReleaseInv, Exited
    <3>5. CASE Fail /\ ctx' = ctx
      <4>1. ~ctx
        BY <3>1 DEF ReleaseInv
      <4> QED
        BY <3>5, <4>1 DEF Fail, Throw, Exit, ReleaseInv, Exited
    <3> QED
      BY <2>6, <3>4, <3>5 DEF InitContext
  <2>7. CASE Operate
    <3>1. phase = "running" /\ pc \in DOMAIN Script /\ Script[pc] = "operate"
      BY <2>7 DEF Operate, At
    <3>2. Script[pc + 1] = "conclude" /\ pc + 1 \in DOMAIN Script
      BY <2>0, <3>1 DEF Shape
    <3>3. Script' = Script /\ ctx' = ctx /\ Proceed
      BY <2>7 DEF Operate, call, Script
    <3> QED
      BY <3>1, <3>2, <3>3 DEF Proceed, ReleaseInv, Exited
  <2>8. CASE Conclude
    <3>1. ctx' = FALSE
      BY <2>8 DEF Conclude
    <3>2. phase' = "exited" => session' = "closed"
      BY <2>8 DEF Conclude, At, Proceed, Throw, Exit
    <3> QED
      BY <3>1, <3>2 DEF ReleaseInv, Exited
  <2>9. CASE Emit
    <3>1. ~ctx /\ ctx' = ctx
      BY <2>9 DEF Emit, At, ReleaseInv
    <3>2. phase' = "exited" => session' = "closed"
      BY <2>9 DEF Emit, Fail, Proceed, Throw, Exit, ReleaseInv, Exited
    <3> QED
      BY <3>1, <3>2 DEF ReleaseInv, Exited
  <2>10. CASE Finish
    <3>1. pc \notin DOMAIN Script
      BY <2>0, <2>10 DEF Finish, Shape
    <3> QED
      BY <2>10, <3>1 DEF Finish, Exit, ReleaseInv, Exited
  <2>11. CASE Kill
    BY <2>11 DEF Kill, ReleaseInv, Exited
  <2>12. CASE UNCHANGED vars
    BY <2>12 DEF vars, ReleaseInv, Exited, Script
  <2> QED
    BY <1>2, <2>1, <2>2, <2>3, <2>4, <2>5, <2>6, <2>7, <2>8, <2>9, <2>10,
       <2>11, <2>12, KindsOfSteps
<1>3. ReleaseInv => ReleasedAtExit
  BY DEF ReleaseInv, ReleasedAtExit, Exited
<1> QED
  BY <1>1, <1>2, <1>3, AppTyping, PTL DEF Spec

-----------------------------------------------------------------------------
(* The keys. *)

(* A key is made by the fourth step of genkey; until then a slot changes   *)
(* only by --force.                                                        *)
KeysInv ==
    /\ OnlyGenkeyChangesKeys
    /\ phase = "boot" => pc = 1
    /\ phase \in {"boot", "running"} /\ pc <= 4 =>
          \A id \in Ids : se[id] # before.se[id] => se[id] = NoKey /\ inv.force

(* A step that changes neither the keys nor their number. *)
LEMMA KeysInvKept ==
    ASSUME TypeOK, KeysInv, phase # "idle",
           se' = se, made' = made, inv' = inv, before' = before,
           phase' = "boot" => phase = "boot" /\ pc' = pc,
           phase' \in {"boot", "running"} =>
               phase \in {"boot", "running"} /\ pc' \in {pc, pc + 1}
    PROVE  KeysInv'
<1>1. pc \in Nat
  BY ScriptTyped DEF TypeOK, Shape
<1>2. OnlyGenkeyChangesKeys'
  BY DEF KeysInv, OnlyGenkeyChangesKeys
<1>3. phase' \in {"boot", "running"} /\ pc' <= 4 => phase \in {"boot", "running"} /\ pc <= 4
  BY <1>1
<1>4. phase' \in {"boot", "running"} /\ pc' <= 4 =>
         \A id \in Ids : se'[id] # before'.se[id] => se'[id] = NoKey /\ inv'.force
  BY <1>3 DEF KeysInv
<1> QED
  BY <1>2, <1>4 DEF KeysInv

(* Only genkey changes a slot of the user, only the one it names; the slot *)
(* holds the key asked for, or is empty because of --force.                *)
THEOREM KeysKept == Spec => []OnlyGenkeyChangesKeys
<1>1. Init => KeysInv
  BY DEF Init, KeysInv, OnlyGenkeyChangesKeys
<1>2. ASSUME TypeOK, KeysInv, [Next]_vars
      PROVE  KeysInv'
  <2> USE TypeOK, KeysInv
  <2>0. Shape(Script, inv.cmd) /\ inv.id \in Ids
    BY ScriptTyped, KeyTyped
  <2>1. CASE Start
    BY <2>1 DEF Start, KeysInv, OnlyGenkeyChangesKeys, store
  <2>2. ASSUME NEW step, At(step), se' = se, made' = made, inv' = inv,
               before' = before, StepEnds
        PROVE  KeysInv'
    <3>1. phase = "running"
      BY <2>2 DEF At
    <3>2. phase' = "exited" \/ (phase' = "running" /\ pc' = pc + 1)
      BY <2>2, <3>1 DEF StepEnds, Proceed, Exit
    <3> QED
      BY <2>2, <3>1, <3>2, KeysInvKept
  <2>3. CASE Boot
    <3>1. phase = "boot" /\ pc' = pc
      BY <2>3 DEF Boot
    <3> QED
      BY <2>3, <3>1, KeysInvKept DEF Boot, store, call
  <2>4. CASE PlainStep
    BY <2>2, <2>4, EndOfStep DEF PlainStep
  <2>5. CASE InitContext \/ Operate \/ Conclude \/ Emit
    <3>1. CASE InitContext
      BY <2>2, <3>1, EndOfStep DEF InitContext, Fail, store, call
    <3>2. CASE Operate
      BY <2>2, <3>2, EndOfStep DEF Operate, store, call
    <3>3. CASE Conclude
      BY <2>2, <3>3, EndOfStep, ConcludeEnds DEF Conclude, store, call
    <3>4. CASE Emit
      BY <2>2, <3>4, EndOfStep DEF Emit, Fail, call
    <3> QED
      BY <2>5, <3>1, <3>2, <3>3, <3>4
  <2>6. CASE Finish \/ Kill
    <3>1. /\ phase \in {"boot", "running"} /\ phase' \in {"exited", "killed"}
          /\ se' = se /\ made' = made /\ inv' = inv /\ before' = before
      BY <2>6 DEF Finish, Exit, Kill, store, call
    <3> QED
      BY <3>1, KeysInvKept
  <2>7. CASE Erase
    <3>1. /\ phase = "running" /\ inv' = inv /\ before' = before /\ made' = made
          /\ se' = se \/ (inv.force /\ se' = [se EXCEPT ![inv.id] = NoKey])
          /\ At("erase") /\ Proceed
      BY <2>7 DEF Erase, At, call
    <3>2. inv.cmd = "genkey" /\ pc = 1
      BY <3>1, StepOfCommand
    <3>3. CASE se' = se
      BY <2>2, <3>1, <3>3, EndOfStep
    <3>4. CASE inv.force /\ se' = [se EXCEPT ![inv.id] = NoKey]
      <4>1. \A id \in Ids \ {inv.id} : se'[id] = se[id]
        BY <3>4 DEF TypeOK
      <4>2. se'[inv.id] = NoKey
        BY <2>0, <3>4 DEF TypeOK
      <4>3. \A id \in Ids : se'[id] # before.se[id] => se'[id] = NoKey /\ id = inv.id
        BY <3>1, <3>2, <4>1, <4>2 DEF KeysInv, OnlyGenkeyChangesKeys
      <4>4. phase' = "running"
        BY <3>1 DEF Proceed
      <4> QED
        BY <3>1, <3>2, <3>4, <4>3, <4>4 DEF KeysInv, OnlyGenkeyChangesKeys
    <3> QED
      BY <3>1, <3>3, <3>4
  <2>8. CASE Generate
    <3> DEFINE k == [alg |-> inv.group, size |-> inv.size, serial |-> made + 1]
    <3>1. /\ phase = "running" /\ inv' = inv /\ before' = before
          /\ se' = se \/ se' = [se EXCEPT ![inv.id] = k]
          /\ made' = made + 1 /\ At("generate")
          /\ Proceed \/ Throw
      BY <2>8 DEF Generate, Refuse, Fail, At, call
    <3>2. inv.cmd = "genkey" /\ pc = 4
      BY <3>1, StepOfCommand
    <3>3. \A id \in Ids : se[id] # before.se[id] =>
             se[id] = NoKey /\ inv.force /\ id = inv.id
      BY <3>1, <3>2 DEF KeysInv, OnlyGenkeyChangesKeys
    <3>4. \A id \in Ids : se'[id] # before.se[id] =>
             /\ id = inv.id
             /\ (se'[id] = NoKey /\ inv.force) \/ se'[id] = k
      <4>1. CASE se' = se
        BY <3>3, <4>1
      <4>2. CASE se' = [se EXCEPT ![inv.id] = k]
        <5>1. \A id \in Ids \ {inv.id} : se'[id] = se[id]
          BY <4>2 DEF TypeOK
        <5>2. se'[inv.id] = k
          BY <2>0, <4>2 DEF TypeOK
        <5> HIDE DEF k
        <5> QED
          BY <3>3, <5>1, <5>2
      <4> QED
        BY <3>1, <4>1, <4>2
    <3>5. k = [alg |-> inv'.group, size |-> inv'.size, serial |-> made']
      BY <3>1
    <3>6. OnlyGenkeyChangesKeys'
      <4> HIDE DEF k
      <4> QED
        BY <3>1, <3>2, <3>4, <3>5 DEF OnlyGenkeyChangesKeys
    <3>7. phase' = "exited" \/ (phase' = "running" /\ pc' = 5)
      BY <3>1, <3>2 DEF Proceed, Throw, Exit
    <3> QED
      BY <3>6, <3>7 DEF KeysInv
  <2>9. CASE UNCHANGED vars
    BY <2>9 DEF vars, KeysInv, OnlyGenkeyChangesKeys
  <2> QED
    BY <1>2, <2>1, <2>3, <2>4, <2>5, <2>6, <2>7, <2>8, <2>9, KindsOfSteps
<1>3. KeysInv => OnlyGenkeyChangesKeys
  BY DEF KeysInv
<1> QED
  BY <1>1, <1>2, <1>3, AppTyping, PTL DEF Spec

-----------------------------------------------------------------------------
(* The file. *)

(* Until its last step a command has not touched the file.                 *)
FileInv ==
    /\ phase = "boot" => file = before.file
    /\ phase = "running" /\ pc \in DOMAIN Script => file = before.file
    /\ FailureKeepsFile

LEMMA FileInvKept == Spec => []FileInv
<1>1. Init => FileInv
  BY DEF Init, FileInv, FailureKeepsFile, Exited
<1>2. ASSUME TypeOK, FileInv, [Next]_vars
      PROVE  FileInv'
  <2> USE TypeOK, FileInv
  <2>0. Shape(Script, inv.cmd) /\ Len(Script) \in Nat
    BY ScriptTyped DEF Shape
  <2>1. CASE Start
    BY <2>1 DEF Start, FileInv, FailureKeepsFile, Exited, store
  <2>2. CASE Boot
    BY <2>2 DEF Boot, Exit, FileInv, FailureKeepsFile, Exited, store, call, Script
  <2>3. ASSUME NEW step, At(step), file' = file, before' = before, inv' = inv,
               StepEnds
        PROVE  FileInv'
    <3>1. phase = "running" /\ file = before.file
      BY <2>3 DEF At, FileInv
    <3>2. file' = before'.file
      BY <2>3, <3>1
    <3> QED
      BY <3>2 DEF FileInv, FailureKeepsFile
  <2>4. CASE PlainStep
    BY <2>3, <2>4, EndOfStep DEF PlainStep
  <2>5. CASE Erase
    BY <2>3, <2>5, EndOfStep DEF Erase, call
  <2>6. CASE Generate
    BY <2>3, <2>6, EndOfStep DEF Generate, Refuse, Fail, call
  <2>7. CASE InitContext
    BY <2>3, <2>7, EndOfStep DEF InitContext, Fail, store, call
  <2>8. CASE Operate
    BY <2>3, <2>8, EndOfStep DEF Operate, store, call
  <2>9. CASE Conclude
    BY <2>3, <2>9, EndOfStep, ConcludeEnds DEF Conclude, store, call
  <2>10. CASE Emit
    <3>1. /\ phase = "running" /\ pc = Len(Script) /\ pc + 1 \notin DOMAIN Script
      BY <2>0, <2>10 DEF Emit, At, Shape
    <3>2. inv' = inv /\ before' = before /\ Script' = Script
      BY <2>10 DEF Emit, call, Script
    <3>3. CASE file' = file /\ Fail
      BY <2>3, <2>10, <3>2, <3>3, EndOfStep DEF Emit, Fail
    <3>4. CASE Proceed
      BY <3>1, <3>2, <3>4 DEF Proceed, FileInv, FailureKeepsFile, Exited
    <3> QED
      BY <2>10, <3>3, <3>4 DEF Emit
  <2>11. CASE Finish
    BY <2>11 DEF Finish, Exit, FileInv, FailureKeepsFile, Exited
  <2>12. CASE Kill
    BY <2>12 DEF Kill, FileInv, FailureKeepsFile, Exited
  <2>13. CASE UNCHANGED vars
    BY <2>13 DEF vars, FileInv, FailureKeepsFile, Exited, Script
  <2> QED
    BY <1>2, <2>1, <2>2, <2>4, <2>5, <2>6, <2>7, <2>8, <2>9, <2>10, <2>11,
       <2>12, <2>13, KindsOfSteps
<1> QED
  BY <1>1, <1>2, AppTyping, PTL DEF Spec

(* A command that fails leaves the file as it found it, whichever call of  *)
(* it failed.                                                              *)
THEOREM FileKept == Spec => []FailureKeepsFile
<1>1. FileInv => FailureKeepsFile
  BY DEF FileInv
<1> QED
  BY <1>1, FileInvKept, PTL

-----------------------------------------------------------------------------
(* The verdict. *)

Signed == file = By("signature", Key)

(* verify cannot leave but through its last step, whose status tells       *)
(* whether the file holds a signature of the key: neither the file nor the *)
(* key changes from the operation to the exit.                             *)
VerdictInv ==
    inv.cmd = "verify" =>
        /\ phase = "boot" => pc = 1
        /\ phase = "running" => pc \in DOMAIN Script
        /\ phase = "running" /\ Script[pc] = "conclude" =>
              /\ st = "ok" => Signed
              /\ st # "ok" /\ ~faulty /\ Key.alg = inv.group => ~Signed
        /\ Exited =>
              /\ rc = 0 => Signed
              /\ rc = 2 /\ ~faulty /\ Key.alg = inv.group => ~Signed

LEMMA VerdictKept == Spec => []VerdictInv
<1>1. Init => VerdictInv
  BY DEF Init, VerdictInv, Exited
<1>2. ASSUME TypeOK, VerdictInv, [Next]_vars
      PROVE  VerdictInv'
  <2> USE TypeOK, VerdictInv
  <2>0. Shape(Script, inv.cmd) /\ Len(Script) \in 1 .. 8
    BY ScriptTyped DEF Shape
  <2>1. CASE Start
    BY <2>1 DEF Start, VerdictInv, Exited
  <2>2. CASE Boot
    <3>1. /\ phase = "boot" /\ pc' = pc /\ inv' = inv /\ Script' = Script
      BY <2>2 DEF Boot, call, Script
    <3>2. \/ phase' \in {"boot", "running"}
          \/ phase' = "exited" /\ rc' = 1
      BY <2>2, <3>1 DEF Boot, Exit
    <3>3. 1 \in DOMAIN Script /\ Script[1] # "conclude"
      BY <2>0 DEF Shape
    <3> QED
      BY <3>1, <3>2, <3>3 DEF VerdictInv, Exited
  <2>3. ASSUME NEW step, At(step), step \notin {"operate", "conclude"},
               inv' = inv, Proceed \/ Throw
        PROVE  VerdictInv'
    <3>1. SUFFICES ASSUME inv.cmd = "verify" PROVE VerdictInv'
      BY <2>3 DEF VerdictInv
    <3>2. CASE Throw
      BY <3>2 DEF Throw, Exit, VerdictInv, Exited
    <3>3. CASE Proceed
      <4>1. pc \in DOMAIN Script /\ pc # Len(Script)
        BY <2>0, <2>3, <3>1 DEF At, Shape
      <4>2. pc + 1 \in DOMAIN Script /\ (pc + 1) - 1 = pc
        BY <2>0, <4>1 DEF Shape
      <4>3. Script[pc + 1] # "conclude"
        BY <2>0, <2>3, <4>2 DEF At, Shape
      <4>4. phase' = "running" /\ pc' = pc + 1 /\ Script' = Script
        BY <2>3, <3>3 DEF At, Proceed, Script
      <4> QED
        BY <4>2, <4>3, <4>4 DEF VerdictInv, Exited
    <3> QED
      BY <2>3, <3>2, <3>3
  <2>4. CASE PlainStep
    BY <2>3, <2>4 DEF PlainStep
  <2>5. CASE InitContext
    BY <2>3, <2>5 DEF InitContext, Fail, call
  <2>6. CASE Erase \/ Generate \/ Emit
    <3>1. inv.cmd # "verify"
      BY <2>0, <2>6 DEF Erase, Generate, Emit, At, Shape
    <3>2. inv' = inv
      BY <2>6 DEF Erase, Generate, Emit, call
    <3> QED
      BY <3>1, <3>2 DEF VerdictInv
  <2>7. CASE Operate
    <3>1. /\ phase = "running" /\ pc \in DOMAIN Script /\ Script[pc] = "operate"
          /\ Proceed /\ inv' = inv /\ Script' = Script /\ se' = se /\ file' = file
      BY <2>7 DEF Operate, At, store, call, Script
    <3>2. pc + 1 \in DOMAIN Script
      BY <2>0, <3>1 DEF Shape
    <3>3. Key' = Key /\ (Signed' <=> Signed)
      BY <3>1 DEF Key, Signed
    <3>4. ASSUME inv.cmd = "verify"
          PROVE  /\ st' = "ok" => Signed
                 /\ st' # "ok" /\ ~faulty' /\ Key.alg = inv.group => ~Signed
      BY <2>7, <3>4 DEF Operate, Matches, Fault, Signed
    <3> QED
      BY <3>1, <3>2, <3>3, <3>4 DEF VerdictInv, Exited, Proceed
  <2>8. CASE Conclude
    <3>1. /\ phase = "running" /\ Script[pc] = "conclude"
          /\ inv' = inv /\ se' = se /\ file' = file /\ faulty' = faulty
      BY <2>8 DEF Conclude, At, store, call
    <3>2. Key' = Key /\ (Signed' <=> Signed)
      BY <3>1 DEF Key, Signed
    <3>3. SUFFICES ASSUME inv.cmd = "verify" PROVE VerdictInv'
      BY <3>1 DEF VerdictInv
    <3>4. phase' = "exited" /\ (rc' = 0 => st = "ok") /\ (rc' = 2 => st # "ok")
      BY <2>8, <3>3 DEF Conclude, Exit
    <3> QED
      BY <3>1, <3>2, <3>3, <3>4 DEF VerdictInv, Exited
  <2>9. CASE Finish
    <3>1. phase = "running" /\ pc \notin DOMAIN Script /\ inv' = inv
      BY <2>0, <2>9 DEF Finish, Shape, call
    <3> QED
      BY <3>1 DEF VerdictInv
  <2>10. CASE Kill
    BY <2>10 DEF Kill, VerdictInv, Exited
  <2>11. CASE UNCHANGED vars
    BY <2>11 DEF vars, VerdictInv, Exited, Script, Key, Signed
  <2> QED
    BY <1>2, <2>1, <2>2, <2>4, <2>5, <2>6, <2>7, <2>8, <2>9, <2>10, <2>11,
       KindsOfSteps
<1> QED
  BY <1>1, <1>2, AppTyping, PTL DEF Spec

(* Exit code 0 of verify means a signature by the key now under the        *)
(* identifier; exit code 2 without a failed call means that it is not.     *)
THEOREM Verdict == Spec => []VerdictIsSound
<1>1. VerdictInv => VerdictIsSound
  BY DEF VerdictInv, VerdictIsSound, Signed, Key
<1> QED
  BY <1>1, VerdictKept, PTL

-----------------------------------------------------------------------------
(* What the scripts say about the order of the last steps. *)
Order(script, cmd) ==
    /\ script[1] \notin {"conclude", "read_secret", "emit"}
    /\ script[Len(script)] \in {"emit", "conclude", "reject"}
    /\ cmd # "verify" => script[Len(script)] # "conclude"
    /\ \A k \in DOMAIN script :
          /\ script[k] = "read_secret" => k > 1 /\ script[k - 1] = "conclude"
          /\ script[k] = "emit" =>
                 k > 1 /\ script[k - 1] \in {"public_key", "conclude", "read_secret"}
          /\ script[k] = "operate" => cmd \notin {"genkey", "pub", "unknown"}

LEMMA Orders == \A cmd \in Cmds : Order(Steps[cmd], cmd)
<1>1. Order(Steps["rng"], "rng")
  BY DEF Order, Steps
<1>2. Order(Steps["genkey"], "genkey")
  BY DEF Order, Steps
<1>3. Order(Steps["pub"], "pub")
  BY DEF Order, Steps
<1>4. Order(Steps["sign"], "sign")
  BY DEF Order, Steps
<1>5. Order(Steps["verify"], "verify")
  BY DEF Order, Steps
<1>6. Order(Steps["encrypt"], "encrypt")
  BY DEF Order, Steps
<1>7. Order(Steps["decrypt"], "decrypt")
  BY DEF Order, Steps
<1>8. Order(Steps["ecdh"], "ecdh")
  BY DEF Order, Steps
<1>9. Order(Steps["csr"], "csr")
  BY DEF Order, Steps
<1>10. Order(Steps["unknown"], "unknown")
  BY DEF Order, Steps
<1> QED
  BY <1>1, <1>2, <1>3, <1>4, <1>5, <1>6, <1>7, <1>8, <1>9, <1>10 DEF Cmds

(* Where a command stands after a step. *)
LEMMA StepFollowed ==
    ASSUME TypeOK, NEW step, At(step), Proceed, inv' = inv
    PROVE  /\ phase' = "running" /\ pc' = pc + 1 /\ Script' = Script
           /\ pc + 1 \in DOMAIN Script =>
                 /\ Script[pc + 1] = "conclude" => step = "operate"
                 /\ Script[pc + 1] = "read_secret" => step = "conclude"
                 /\ Script[pc + 1] = "emit" =>
                        step \in {"public_key", "conclude", "read_secret"}
           /\ pc + 1 \notin DOMAIN Script =>
                 /\ step \in {"emit", "conclude", "reject"}
                 /\ step = "conclude" => inv.cmd = "verify"
<1>1. Shape(Script, inv.cmd) /\ Order(Script, inv.cmd)
  BY ScriptTyped, Orders DEF Script
<1>2. /\ pc \in DOMAIN Script /\ Script[pc] = step /\ phase = "running"
      /\ pc \in 1 .. Len(Script) /\ Len(Script) \in Nat
  BY <1>1 DEF At, Shape
<1>3. phase' = "running" /\ pc' = pc + 1 /\ Script' = Script
  BY <1>2 DEF Proceed, Script
<1>4. (pc + 1) - 1 = pc
  BY <1>2
<1>5. pc + 1 \in DOMAIN Script =>
          /\ Script[pc + 1] = "conclude" => step = "operate"
          /\ Script[pc + 1] = "read_secret" => step = "conclude"
          /\ Script[pc + 1] = "emit" =>
                 step \in {"public_key", "conclude", "read_secret"}
  BY <1>1, <1>2, <1>4 DEF Shape, Order
<1>6. ASSUME pc + 1 \notin DOMAIN Script
      PROVE  /\ step \in {"emit", "conclude", "reject"}
             /\ step = "conclude" => inv.cmd = "verify"
  <2>1. pc = Len(Script)
    BY <1>1, <1>2, <1>6 DEF Shape
  <2> QED
    BY <1>1, <1>2, <2>1 DEF Order
<1> QED
  BY <1>3, <1>5, <1>6

(* What the command is going to emit, and has emitted, is of the key now   *)
(* under the identifier.                                                   *)
Ready ==
    /\ result.kind \notin {"none", "torn"}
    /\ inv.cmd \notin {"rng", "decrypt"} => result.key = Key

Delivered ==
    /\ file.kind \notin {"none", "torn"}
    /\ inv.cmd \notin {"rng", "decrypt"} => file.key = Key

ToFile == inv.cmd # "verify" /\ inv.out = "file" /\ ~faulty

DeliveryInv ==
    /\ phase = "boot" => pc = 1
    /\ phase = "running" /\ pc \in DOMAIN Script /\ inv.cmd # "verify" =>
          /\ Script[pc] = "conclude" /\ st = "ok" => Ready
          /\ Script[pc] \in {"read_secret", "emit"} => Ready
    /\ phase = "running" /\ pc \notin DOMAIN Script /\ ToFile => Delivered
    /\ Exited /\ rc = 0 /\ ToFile => Delivered

LEMMA OutputIsReady ==
    ASSUME TypeOK, inv.cmd \notin {"verify", "unknown"}, result' = Output,
           inv' = inv, se' = se
    PROVE  Ready'
<1>1. inv.cmd \in Cmds
  BY ScriptTyped
<1>2. Product[inv.cmd] \notin {"none", "torn"}
  BY <1>1 DEF Cmds, Product
<1>3. result'.kind = Product[inv.cmd]
  BY DEF Output, By
<1>4. inv.cmd \notin {"rng", "decrypt"} => result'.key = Key
  BY DEF Output, By
<1> QED
  BY <1>2, <1>3, <1>4 DEF Ready, Key

(* A command that returns 0 has put the output of the key into the file.   *)
THEOREM Delivery == Spec => []SuccessDelivers
<1>1. Init => DeliveryInv
  BY DEF Init, DeliveryInv, Exited
<1>2. ASSUME TypeOK, DeliveryInv, [Next]_vars
      PROVE  DeliveryInv'
  <2> USE TypeOK, DeliveryInv
  <2>1. CASE Start
    BY <2>1 DEF Start, DeliveryInv, Exited
  <2>2. CASE Boot
    <3>1. /\ phase = "boot" /\ pc' = pc /\ inv' = inv /\ Script' = Script
      BY <2>2 DEF Boot, call, Script
    <3>2. \/ phase' \in {"boot", "running"}
          \/ phase' = "exited" /\ rc' = 1
      BY <2>2, <3>1 DEF Boot, Exit
    <3>3. /\ 1 \in DOMAIN Script
          /\ Script[1] \notin {"conclude", "read_secret", "emit"}
      BY ScriptTyped, Orders DEF Shape, Order, Script
    <3> QED
      BY <3>1, <3>2, <3>3 DEF DeliveryInv, Exited
  <2>3. ASSUME NEW step, At(step), Throw, inv' = inv
        PROVE  DeliveryInv'
    BY <2>3 DEF Throw, Exit, DeliveryInv, Exited
  <2>4. ASSUME NEW step, At(step), Proceed, inv' = inv,
               step \notin {"operate", "public_key", "conclude", "read_secret",
                            "emit", "reject"}
        PROVE  DeliveryInv'
    BY <2>4, StepFollowed DEF DeliveryInv, Exited
  <2>5. CASE PlainStep
    <3>1. PICK step : /\ At(step)
                      /\ step \notin {"erase", "generate", "context", "operate",
                                      "conclude", "emit"}
      BY <2>5 DEF PlainStep
    <3>2. inv' = inv /\ se' = se /\ Key' = Key
      BY <2>5 DEF PlainStep, Key
    <3>3. CASE Throw
      BY <2>3, <3>1, <3>2, <3>3
    <3>4. CASE Proceed /\ step = "public_key"
      <4>1. result' = By("public", Key)
        BY <2>5, <3>1, <3>4 DEF PlainStep
      <4>2. Ready'
        BY <3>2, <4>1 DEF Ready, By
      <4> QED
        BY <3>1, <3>2, <3>4, <4>2, StepFollowed DEF DeliveryInv, Exited
    <3>5. CASE Proceed /\ step = "read_secret"
      <4>1. result' = result
        BY <2>5, <3>1, <3>5 DEF PlainStep, At
      <4>2. inv.cmd # "verify" => Ready'
        BY <3>1, <3>2, <3>5, <4>1 DEF DeliveryInv, At, Ready
      <4> QED
        BY <3>1, <3>2, <3>5, <4>2, StepFollowed DEF DeliveryInv, Exited
    <3>6. CASE Proceed /\ step \notin {"public_key", "read_secret"}
      <4>1. step # "reject"
        BY <2>5, <3>1, <3>6 DEF PlainStep, At, Throw, Proceed, Exit
      <4> QED
        BY <2>4, <3>1, <3>2, <3>6, <4>1
    <3> QED
      BY <2>5, <3>3, <3>4, <3>5, <3>6 DEF PlainStep
  <2>6. CASE Erase
    BY <2>4, <2>6 DEF Erase, call
  <2>7. CASE Generate
    BY <2>3, <2>4, <2>7 DEF Generate, Refuse, Fail, call
  <2>8. CASE InitContext
    BY <2>3, <2>4, <2>8 DEF InitContext, Fail, call
  <2>9. CASE Operate
    <3>1. /\ At("operate") /\ Proceed /\ inv' = inv /\ se' = se
          /\ st' = "ok" => result' = Output
      BY <2>9 DEF Operate, call, store
    <3>2. inv.cmd # "unknown"
      BY <3>1, ScriptTyped, Orders DEF At, Order, Script
    <3>3. inv.cmd # "verify" /\ st' = "ok" => Ready'
      BY <3>1, <3>2, OutputIsReady
    <3> QED
      BY <3>1, <3>3, StepFollowed DEF DeliveryInv, Exited
  <2>10. CASE Conclude
    <3>1. At("conclude") /\ inv' = inv /\ se' = se /\ result' = result
      BY <2>10 DEF Conclude, call, store
    <3>2. CASE inv.cmd = "verify"
      <4>1. phase' = "exited"
        BY <2>10, <3>2 DEF Conclude, Exit
      <4> QED
        BY <3>1, <3>2, <4>1 DEF DeliveryInv, ToFile
    <3>3. CASE inv.cmd # "verify" /\ st = "ok" /\ Proceed
      <4>1. Ready'
        BY <3>1, <3>3 DEF DeliveryInv, At, Ready, Key
      <4> QED
        BY <3>1, <3>3, <4>1, StepFollowed DEF DeliveryInv, Exited
    <3>4. CASE Throw
      BY <2>3, <3>1, <3>4
    <3> QED
      BY <2>10, <3>2, <3>3, <3>4 DEF Conclude
  <2>11. CASE Emit
    <3>1. At("emit") /\ inv' = inv /\ se' = se /\ Key' = Key
      BY <2>11 DEF Emit, call, Key
    <3>2. CASE Throw
      BY <2>3, <3>1, <3>2
    <3>3. CASE Proceed
      <4>1. inv.cmd # "verify" => Ready
        BY <3>1 DEF DeliveryInv, At
      <4>2. ToFile' => file' = result
        BY <2>11, <3>1, <3>3 DEF Emit, ToFile, Fault, Fail, Throw, Exit, Proceed, At
      <4>3. ToFile' => Delivered'
        BY <3>1, <4>1, <4>2 DEF ToFile, Ready, Delivered
      <4> QED
        BY <3>1, <3>3, <4>3, StepFollowed DEF DeliveryInv, Exited
    <3> QED
      BY <2>11, <3>2, <3>3 DEF Emit, Fail
  <2>12. CASE Finish
    <3>1. /\ phase = "running" /\ pc \notin DOMAIN Script /\ phase' = "exited"
          /\ UNCHANGED << se, file, inv, faulty >>
      BY <2>12, ScriptTyped DEF Finish, Exit, Shape, store, call
    <3>2. ToFile' = ToFile /\ Delivered' = Delivered
      BY <3>1 DEF ToFile, Delivered, Key
    <3> QED
      BY <3>1, <3>2 DEF DeliveryInv
  <2>13. CASE Kill
    BY <2>13 DEF Kill, DeliveryInv, Exited
  <2>14. CASE UNCHANGED vars
    BY <2>14 DEF vars, DeliveryInv, Exited, ToFile, Delivered, Ready, Script, Key
  <2> QED
    BY <1>2, <2>1, <2>2, <2>5, <2>6, <2>7, <2>8, <2>9, <2>10, <2>11, <2>12,
       <2>13, <2>14, KindsOfSteps
<1>3. DeliveryInv => SuccessDelivers
  BY DEF DeliveryInv, SuccessDelivers, ToFile, Delivered, Key
<1> QED
  BY <1>1, <1>2, <1>3, AppTyping, PTL DEF Spec

-----------------------------------------------------------------------------
(* Why a command on keys of the default sizes meets no refusal.            *)

(* Which commands each group has. *)
LEMMA GroupOfCommand ==
    \A i \in Invocations :
        /\ i.group \in {"rng", "ecc", "rsa"}
        /\ i.cmd = "ecdh" => i.group = "ecc"
        /\ i.group = "rng" <=> i.cmd = "rng"
<1> SUFFICES ASSUME NEW i \in Invocations
             PROVE  /\ i.group \in {"rng", "ecc", "rsa"}
                    /\ i.cmd = "ecdh" => i.group = "ecc"
                    /\ i.group = "rng" <=> i.cmd = "rng"
  OBVIOUS
<1>1. PICK group \in {"rng", "ecc", "rsa"} :
         i \in UNION { Requests(group, cmd) : cmd \in Commands(group) }
  BY DEF Invocations
<1>2. PICK cmd \in Commands(group) : i \in Requests(group, cmd)
  BY <1>1
<1>3. i.group = group /\ i.cmd = cmd
  BY <1>2 DEF Requests
<1> QED
  BY <1>3 DEF Commands

(* A command whose key and input are there, on a key of a default size. *)
Usual == Wanted /\ (inv.cmd \notin {"genkey", "rng"} =>
                        before.se[inv.id].size \in {256, 2048})

SmoothInv ==
    Usual /\ ~faulty =>
        /\ phase = "boot" => pc = 1 /\ se = before.se
        /\ phase = "running" /\ inv.cmd = "genkey" =>
              /\ pc = 1 => se = before.se
              /\ pc \in 2 .. 4 => Key = NoKey
              /\ pc = 5 => Key.alg = inv.group /\ Key.size = inv.size
        /\ phase = "running" /\ pc \in DOMAIN Script /\ Script[pc] = "conclude"
              => st = "ok"
        /\ Exited => rc = 0

LEMMA SizesOffered ==
    /\ \A n \in EccSizes : n \in {256, 384, 521}
    /\ \A n \in RsaSizes : n \in {2048, 3072, 4096}
BY SizesAssumption

LEMMA KeysOfSize ==
    \A k \in Keys : \/ k.alg = "ecc" /\ k.size \in {256, 384, 521}
                    \/ k.alg = "rsa" /\ k.size \in {2048, 3072, 4096}
<1> TAKE k \in Keys
<1>1. CASE k \in [alg : {"ecc"}, size : EccSizes, serial : 1 .. MaxKeys]
  BY <1>1, SizesOffered
<1>2. CASE k \in [alg : {"rsa"}, size : RsaSizes, serial : 1 .. MaxKeys]
  BY <1>2, SizesOffered
<1> QED
  BY <1>1, <1>2 DEF Keys

(* The key of a usual command, and what it needs of the buffers. *)
LEMMA UsualKey ==
    ASSUME TypeOK, OnlyGenkeyChangesKeys, Usual, phase = "running",
           inv.cmd \notin {"genkey", "rng"}
    PROVE  /\ Key = before.se[inv.id] /\ Key # NoKey /\ Key.alg = inv.group
           /\ \/ inv.group = "ecc" /\ Key.size = 256
              \/ inv.group = "rsa" /\ Key.size = 2048
           /\ PubLen(Key) <= PubBuf /\ SigLen(Key) <= OutBuf
           /\ inv.cmd = "ecdh" => SecretLen(Key) <= SecretBuf
<1>1. inv.id \in Ids /\ inv.cmd \in Cmds /\ Key \in Keys \cup {NoKey}
  BY KeyTyped, ScriptTyped
<1>2. Key = before.se[inv.id]
  BY <1>1 DEF OnlyGenkeyChangesKeys, Key
<1>3. Key # NoKey /\ Key.alg = inv.group /\ Key.size \in {256, 2048}
  BY <1>1, <1>2 DEF Usual, Wanted, Cmds
<1>4. \/ inv.group = "ecc" /\ Key.size = 256
      \/ inv.group = "rsa" /\ Key.size = 2048
  BY <1>1, <1>3, KeysOfSize
<1>5. KeyBits = 2048
  BY DEF KeyBits
<1>6. PubLen(Key) <= PubBuf
  BY <1>3, <1>4, <1>5 DEF PubLen, PubBuf
<1>7. SigLen(Key) <= OutBuf
  BY <1>3, <1>4, <1>5 DEF SigLen, OutBuf
<1>8. inv.cmd = "ecdh" => SecretLen(Key) <= SecretBuf
  <2>1. inv.cmd = "ecdh" => Key.size = 256
    BY <1>4, GroupOfCommand DEF TypeOK
  <2> QED
    BY <2>1 DEF SecretLen, SecretBuf
<1> QED
  BY <1>2, <1>3, <1>4, <1>6, <1>7, <1>8

(* A step that, in a usual command and unless a call fails, goes on. *)
LEMMA SmoothStep ==
    ASSUME TypeOK, SmoothInv, NEW step, At(step),
           inv' = inv, before' = before, faulty' \in {faulty, TRUE},
           Usual /\ ~faulty' => Proceed,
           se' = se, step \notin {"erase", "generate"},
           step = "operate" /\ Usual /\ ~faulty' => st' = "ok"
    PROVE  SmoothInv'
<1>1. Usual' <=> Usual
  BY DEF Usual, Wanted, By
<1>2. SUFFICES ASSUME Usual, ~faulty' PROVE SmoothInv'
  BY <1>1 DEF SmoothInv
<1>3. Proceed /\ ~faulty
  BY <1>2, TypeParts DEF DataTyped, ControlTyped
<1>4. /\ phase' = "running" /\ pc' = pc + 1 /\ Script' = Script /\ Key' = Key
      /\ pc + 1 \in DOMAIN Script /\ Script[pc + 1] = "conclude" => step = "operate"
  BY <1>3, StepFollowed DEF Key
<1>5. inv.cmd = "genkey" => /\ pc \in 1 .. 6 /\ pc # 1 /\ pc # 4
                            /\ pc \in 2 .. 4 => Key = NoKey
  <2>1. inv.cmd = "genkey" => Len(Script) = 6
    BY DEF Script, Steps
  <2> QED
    BY <1>2, <1>3, <2>1, StepOfCommand DEF SmoothInv
<1>6. Usual' /\ inv'.cmd = "genkey" =>
         /\ pc' # 1
         /\ pc' \in 2 .. 4 => Key' = NoKey
         /\ pc' # 5
  BY <1>4, <1>5
<1> QED
  BY <1>2, <1>4, <1>6 DEF SmoothInv, Exited

(* What the file holds when a command reads it. *)
LEMMA UsualFile ==
    ASSUME TypeOK, FileInv, OnlyGenkeyChangesKeys, Usual, NEW step, At(step)
    PROVE  /\ file = before.file
           /\ inv.cmd = "verify"  => file = By("signature", Key)
           /\ inv.cmd = "decrypt" => file = By("cipher", Key)
           /\ inv.cmd = "ecdh" =>
                 /\ file.kind = "public" /\ file.key.alg = "ecc"
                 /\ file.key.size = 256 /\ Key.size = 256
           /\ inv.cmd \in {"verify", "decrypt", "ecdh"} => file.kind # "none"
<1>1. file = before.file /\ phase = "running"
  BY DEF FileInv, At
<1>2. inv.cmd \notin {"genkey", "rng"} => Key = before.se[inv.id]
  BY <1>1, UsualKey
<1>3. inv.cmd = "verify" => file = By("signature", Key)
  BY <1>1, <1>2 DEF Usual, Wanted
<1>4. inv.cmd = "decrypt" => file = By("cipher", Key)
  BY <1>1, <1>2 DEF Usual, Wanted
<1>5. inv.cmd = "ecdh" => Key.size = 256
  BY <1>1, UsualKey, GroupOfCommand DEF TypeOK
<1>6. inv.cmd = "ecdh" => /\ file.kind = "public" /\ file.key.alg = "ecc"
                          /\ file.key.size = 256
  BY <1>1, <1>2, <1>5 DEF Usual, Wanted
<1> QED
  BY <1>1, <1>3, <1>4, <1>5, <1>6 DEF By

(* On keys of the default sizes the buffers are large enough and bits_ and *)
(* curve_ fit by chance: a command whose key and input are there can only  *)
(* fail because an external call does.                                     *)
THEOREM DefaultsWork == Spec => []DefaultSizesWork
<1>1. Init => SmoothInv
  BY DEF Init, SmoothInv, Exited
<1>2. ASSUME TypeOK, FileInv, OnlyGenkeyChangesKeys, SmoothInv, [Next]_vars
      PROVE  SmoothInv'
  <2> USE TypeOK, FileInv, OnlyGenkeyChangesKeys, SmoothInv
  <2>0. Usual => inv.arg = "ok" /\ inv.cmd # "unknown"
    BY DEF Usual, Wanted
  <2>1. CASE Start
    <3>1. phase' = "boot" /\ pc' = 1 /\ se' = se /\ before'.se = se
      BY <2>1 DEF Start, store
    <3> QED
      BY <3>1 DEF SmoothInv, Exited
  <2>2. CASE Boot
    <3>1. /\ phase = "boot" /\ pc' = pc /\ inv' = inv /\ before' = before
          /\ se' = se /\ Script' = Script /\ Key' = Key
      BY <2>2 DEF Boot, store, call, Script, Key
    <3>2. \/ phase' \in {"boot", "running"} /\ faulty' = faulty
          \/ faulty'
      BY <2>2, <3>1 DEF Boot, Fault
    <3>3. Usual' <=> Usual
      BY <3>1 DEF Usual, Wanted, By
    <3>4. 1 \in DOMAIN Script /\ Script[1] # "conclude"
      BY ScriptTyped, Orders DEF Shape, Order, Script
    <3> QED
      BY <3>1, <3>2, <3>3, <3>4 DEF SmoothInv, Exited
  <2>3. CASE Erase
    <3>1. /\ At("erase") /\ Proceed /\ inv' = inv /\ before' = before
          /\ faulty' \/ (faulty' = faulty /\ se' = IF inv.force
                             THEN [se EXCEPT ![inv.id] = NoKey] ELSE se)
      BY <2>3 DEF Erase, Calm, Fault, call
    <3>2. inv.cmd = "genkey" /\ pc = 1 /\ phase = "running" /\ inv.id \in Ids
      BY <3>1, StepOfCommand, KeyTyped
    <3>3. Usual' <=> Usual
      BY <3>1 DEF Usual, Wanted, By
    <3>4. SUFFICES ASSUME Usual, ~faulty' PROVE SmoothInv'
      BY <3>3 DEF SmoothInv
    <3>5. se = before.se
      BY <3>1, <3>2, <3>4 DEF SmoothInv
    <3>6. Key = NoKey \/ inv.force
      BY <3>2, <3>4, <3>5 DEF Usual, Wanted, Key
    <3>7. Key' = NoKey
      BY <3>1, <3>2, <3>4, <3>6 DEF Key, TypeOK
    <3>8. /\ phase' = "running" /\ pc' = 2 /\ inv'.cmd = "genkey"
          /\ pc' \in DOMAIN Script' => Script'[pc'] # "conclude"
      BY <3>1, <3>2, StepFollowed
    <3> QED
      BY <3>7, <3>8 DEF SmoothInv, Exited
  <2>4. CASE Generate
    <3> DEFINE k == [alg |-> inv.group, size |-> inv.size, serial |-> made + 1]
    <3>1. /\ At("generate") /\ inv' = inv /\ before' = before
          /\ faulty' \/ (faulty' = faulty /\ Key # NoKey)
                \/ (faulty' = faulty /\ Proceed /\ se' = [se EXCEPT ![inv.id] = k])
      BY <2>4 DEF Generate, Calm, Fail, Fault, Refuse, call
    <3>2. inv.cmd = "genkey" /\ pc = 4 /\ phase = "running" /\ inv.id \in Ids
      BY <3>1, StepOfCommand, KeyTyped
    <3>3. Usual' <=> Usual
      BY <3>1 DEF Usual, Wanted, By
    <3>4. SUFFICES ASSUME Usual, ~faulty' PROVE SmoothInv'
      BY <3>3 DEF SmoothInv
    <3>5. faulty' = faulty /\ Proceed /\ se' = [se EXCEPT ![inv.id] = k]
      <4>1. ~faulty => Key = NoKey
        BY <3>2, <3>4 DEF SmoothInv
      <4> QED
        BY <3>1, <3>4, <4>1
    <3>6. Key' = k
      BY <3>1, <3>2, <3>5 DEF Key, TypeOK
    <3>7. /\ phase' = "running" /\ pc' = 5 /\ inv'.cmd = "genkey"
          /\ pc' \in DOMAIN Script' => Script'[pc'] # "conclude"
      BY <3>1, <3>2, <3>5, StepFollowed
    <3>8. Key'.alg = inv'.group /\ Key'.size = inv'.size
      BY <3>1, <3>6
    <3> QED
      BY <3>7, <3>8 DEF SmoothInv, Exited
  <2>5. ASSUME NEW step, At(step), UNCHANGED << se, call >>,
               step \notin {"erase", "generate", "operate"},
               faulty' \in {faulty, TRUE},
               Usual /\ ~faulty' => Proceed
        PROVE  SmoothInv'
    BY <2>5, SmoothStep DEF call
  <2>6. CASE ParseSize
    BY <2>0, <2>5, <2>6 DEF ParseSize, Refuse, Calm, store
  <2>7. CASE Allocate
    <3>1. At("allocate") /\ UNCHANGED << se, call >> /\ faulty' \in {faulty, TRUE}
      BY <2>7 DEF Allocate, Calm, Refuse, Fail, Fault, store
    <3>2. inv.cmd = "genkey" /\ pc = 3 /\ phase = "running"
      BY <3>1, StepOfCommand
    <3>3. Usual /\ ~faulty => Key = NoKey
      BY <3>2 DEF SmoothInv
    <3>4. Usual /\ ~faulty' => Proceed
      BY <2>7, <3>3 DEF Allocate, Refuse, Fail, Fault, Calm
    <3> QED
      BY <2>5, <3>1, <3>4
  <2>8. CASE Open
    <3>1. At("open") /\ UNCHANGED << se, call >> /\ faulty' \in {faulty, TRUE}
      BY <2>8 DEF Open, Calm, Refuse, Fail, Fault, store
    <3>2. Usual => Key # NoKey
      BY <3>1, StepOfCommand, UsualKey
    <3>3. Usual /\ ~faulty' => Proceed
      BY <2>8, <3>2 DEF Open, Fail, Fault
    <3> QED
      BY <2>5, <3>1, <3>3
  <2>9. CASE PublicKey
    <3>1. At("public_key") /\ UNCHANGED << se, call >> /\ faulty' \in {faulty, TRUE}
      BY <2>9 DEF PublicKey, Calm, Refuse, Fail, Fault, store
    <3>2. Usual /\ ~faulty => PubLen(Key) <= PubBuf
      <4>1. CASE inv.cmd # "genkey"
        BY <3>1, <4>1, StepOfCommand, UsualKey
      <4>2. CASE inv.cmd = "genkey"
        <5>1. Usual /\ ~faulty => Key.alg = inv.group /\ Key.size = inv.size
          BY <3>1, <4>2, StepOfCommand DEF SmoothInv
        <5>2. \/ inv.group = "ecc" /\ inv.size \in {256, 384, 521}
              \/ inv.group = "rsa" /\ inv.size \in {2048, 3072, 4096}
          BY <4>2, InvocationTyped, SizesOffered DEF TypeOK
        <5>3. KeyBits = inv.size
          BY <4>2 DEF KeyBits
        <5> QED
          BY <5>1, <5>2, <5>3 DEF PubLen, PubBuf
      <4> QED
        BY <4>1, <4>2
    <3>3. Usual /\ ~faulty' => Proceed
      BY <2>9, <3>2 DEF PublicKey, Fail, Fault, Refuse, Calm
    <3> QED
      BY <2>5, <3>1, <3>3
  <2>10. CASE Read
    <3>1. At("read") /\ UNCHANGED << se, call >> /\ faulty' \in {faulty, TRUE}
      BY <2>10 DEF Read, Calm, Refuse, Fail, Fault, store
    <3>2. Usual => (inv.cmd \in {"verify", "decrypt", "ecdh"} => file.kind # "none")
      BY <3>1, UsualFile
    <3>3. Usual /\ ~faulty' => Proceed
      BY <2>10, <3>2 DEF Read, Fail, Fault
    <3> QED
      BY <2>5, <3>1, <3>3
  <2>11. CASE Subject \/ BuildCri
    <3>1. PICK step \in {"subject", "build_cri"} : At(step)
      BY <2>11 DEF Subject, BuildCri
    <3>2. UNCHANGED << se, call >> /\ faulty' \in {faulty, TRUE}
      BY <2>11 DEF Subject, BuildCri, Calm, Refuse, Fail, Fault, store
    <3>3. Usual /\ ~faulty' => Proceed
      BY <2>0, <2>11 DEF Subject, BuildCri, Fail, Fault
    <3> QED
      BY <2>5, <3>1, <3>2, <3>3
  <2>12. CASE LoadPeer
    <3>1. At("load_peer") /\ UNCHANGED << se, call >> /\ faulty' \in {faulty, TRUE}
      BY <2>12 DEF LoadPeer, Calm, Refuse, Fail, Fault, store
    <3>2. Usual => file.kind = "public" /\ file.key.alg = "ecc" /\ file.key.size = 256
      BY <3>1, StepOfCommand, UsualFile
    <3>3. Usual /\ ~faulty' => Proceed
      BY <2>12, <3>2 DEF LoadPeer, Fail, Fault
    <3> QED
      BY <2>5, <3>1, <3>3
  <2>13. CASE InitContext
    BY <2>5, <2>13 DEF InitContext, Fail, Fault, Calm, store
  <2>22. CASE AllocateOut
    <3>1. At("buffer") /\ UNCHANGED << se, call >> /\ faulty' \in {faulty, TRUE}
      BY <2>22 DEF AllocateOut, Calm, Refuse, store
    <3>2. Usual => Proceed
      BY <2>0, <2>22 DEF AllocateOut
    <3> QED
      BY <2>5, <3>1, <3>2
  <2>14. CASE Operate
    <3>1. /\ At("operate") /\ inv' = inv /\ before' = before /\ se' = se
          /\ Proceed /\ faulty' \in {faulty, TRUE}
      BY <2>14 DEF Operate, Calm, Fault, store, call
    <3>2. Usual => Matches
      <4> SUFFICES ASSUME Usual PROVE Matches
        OBVIOUS
      <4>1. phase = "running" /\ inv.cmd \notin {"genkey", "unknown"}
        BY <3>1, StepOfCommand
      <4>2. CASE inv.cmd = "rng"
        BY <4>2 DEF Matches
      <4>3. CASE inv.cmd # "rng"
        <5>1. Key.alg = inv.group /\ SigLen(Key) <= OutBuf
          BY <4>1, <4>3, UsualKey
        <5>2. /\ inv.cmd = "verify"  => file = By("signature", Key)
              /\ inv.cmd = "decrypt" => file = By("cipher", Key)
              /\ inv.cmd = "ecdh" => file.key.size = Key.size
          BY <3>1, UsualFile
        <5> QED
          BY <5>1, <5>2 DEF Matches
      <4> QED
        BY <4>2, <4>3
    <3>3. Usual /\ ~faulty' => st' = "ok"
      BY <2>14, <3>2 DEF Operate, Fault
    <3> QED
      BY <3>1, <3>3, SmoothStep
  <2>15. CASE Conclude
    <3>1. At("conclude") /\ UNCHANGED << se, call, faulty >> /\ phase = "running"
      BY <2>15 DEF Conclude, At, store
    <3>2. Usual /\ ~faulty => st = "ok"
      BY <3>1 DEF SmoothInv, At
    <3>3. CASE inv.cmd = "verify"
      <4>1. Usual' <=> Usual
        BY <3>1 DEF Usual, Wanted, By, call
      <4>2. Usual /\ ~faulty => phase' = "exited" /\ rc' = 0
        BY <2>15, <3>2, <3>3 DEF Conclude, Exit
      <4> QED
        BY <3>1, <4>1, <4>2 DEF SmoothInv
    <3>4. CASE inv.cmd # "verify"
      <4>1. Usual /\ ~faulty => Proceed
        BY <2>15, <3>2, <3>4 DEF Conclude
      <4> QED
        BY <2>5, <3>1, <4>1
    <3> QED
      BY <3>3, <3>4
  <2>16. CASE ReadSecret
    <3>1. At("read_secret") /\ UNCHANGED << se, call >> /\ faulty' \in {faulty, TRUE}
      BY <2>16 DEF ReadSecret, Calm, Refuse, Fail, Fault, store
    <3>2. Usual => SecretLen(Key) <= SecretBuf
      BY <3>1, StepOfCommand, UsualKey
    <3>3. Usual /\ ~faulty' => Proceed
      BY <2>16, <3>2 DEF ReadSecret, Fail, Fault
    <3> QED
      BY <2>5, <3>1, <3>3
  <2>17. CASE Emit
    <3>1. At("emit") /\ UNCHANGED << se, call >> /\ faulty' \in {faulty, TRUE}
      BY <2>17 DEF Emit, Calm, Fail, Fault
    <3>2. ~faulty' => Proceed
      BY <2>17 DEF Emit, Fail, Fault
    <3> QED
      BY <2>5, <3>1, <3>2
  <2>18. CASE Reject
    <3>1. At("reject") /\ UNCHANGED << se, call, faulty >>
      BY <2>18 DEF Reject, Refuse, Calm, store
    <3>2. ~Usual
      BY <2>0, <3>1, StepOfCommand
    <3> QED
      BY <2>5, <3>1, <3>2
  <2>19. CASE Finish
    BY <2>19 DEF Finish, Exit, SmoothInv, Exited
  <2>20. CASE Kill
    BY <2>20 DEF Kill, SmoothInv, Exited
  <2>21. CASE UNCHANGED vars
    BY <2>21 DEF vars, SmoothInv, Usual, Wanted, By, Key, Script, Exited
  <2> QED
    BY <1>2, <2>1, <2>2, <2>3, <2>4, <2>6, <2>7, <2>8, <2>9, <2>10, <2>11,
       <2>12, <2>13, <2>14, <2>15, <2>16, <2>17, <2>18, <2>19, <2>20, <2>21,
       <2>22 DEF Next
<1>3. SmoothInv => DefaultSizesWork
  BY DEF SmoothInv, DefaultSizesWork, Usual
<1> QED
  BY <1>1, <1>2, <1>3, AppTyping, FileInvKept, KeysKept, PTL DEF Spec

-----------------------------------------------------------------------------
(* The program as a key service. *)

(* Where a script opens the key, loads the peer and exports the key. *)
OpensFirst(script, cmd) ==
    /\ cmd \notin {"rng", "genkey", "unknown"} => script[1] = "open"
    /\ cmd = "ecdh" => script[3] = "load_peer"
    /\ \A k \in DOMAIN script :
          /\ script[k] = "operate" => cmd = "rng" \/ k > 1
          /\ script[k] = "operate" /\ cmd = "ecdh" => k > 3
          /\ script[k] = "public_key" => k > 1
          /\ script[k] = "public_key" /\ k + 1 \in DOMAIN script /\ script[k + 1] = "emit"
                 => cmd \in {"pub", "genkey"}
          /\ script[k] = "emit" => cmd # "unknown"
          /\ script[k] \in {"conclude", "read_secret"} => cmd \notin {"pub", "genkey", "unknown"}

LEMMA KeyOpensFirst == \A cmd \in Cmds : OpensFirst(Steps[cmd], cmd)
<1>1. OpensFirst(Steps["rng"], "rng")
  BY DEF OpensFirst, Steps
<1>2. OpensFirst(Steps["genkey"], "genkey")
  BY DEF OpensFirst, Steps
<1>3. OpensFirst(Steps["pub"], "pub")
  BY DEF OpensFirst, Steps
<1>4. OpensFirst(Steps["sign"], "sign")
  BY DEF OpensFirst, Steps
<1>5. OpensFirst(Steps["verify"], "verify")
  BY DEF OpensFirst, Steps
<1>6. OpensFirst(Steps["encrypt"], "encrypt")
  BY DEF OpensFirst, Steps
<1>7. OpensFirst(Steps["decrypt"], "decrypt")
  BY DEF OpensFirst, Steps
<1>8. OpensFirst(Steps["ecdh"], "ecdh")
  BY DEF OpensFirst, Steps
<1>9. OpensFirst(Steps["csr"], "csr")
  BY DEF OpensFirst, Steps
<1>10. OpensFirst(Steps["unknown"], "unknown")
  BY DEF OpensFirst, Steps
<1> QED
  BY <1>1, <1>2, <1>3, <1>4, <1>5, <1>6, <1>7, <1>8, <1>9, <1>10 DEF Cmds

(* The key that genkey has been asked for, with the last serial number.    *)
Wished == [alg |-> inv.group, size |-> inv.size, serial |-> made]

IsPeer == file.kind = "public" /\ file.key.alg = "ecc"

(* There is an output, and it may be given away. *)
Presentable == result = Output /\ Service!Deliverable

(* What a command has found out at each of its steps. *)
ServiceInv ==
    /\ phase = "boot" => pc = 1
    /\ phase \in {"boot", "running"} => rc = 0
    /\ phase = "running" =>
          /\ inv.cmd \notin {"rng", "genkey", "unknown"} /\ pc > 1 => Key # NoKey
          /\ inv.cmd = "genkey" /\ pc > 4 => Key = Wished
          /\ inv.cmd = "ecdh" /\ pc > 3 /\ pc \in DOMAIN Script => IsPeer
          /\ pc \in DOMAIN Script /\ inv.cmd # "verify" =>
                /\ Script[pc] = "conclude" /\ st = "ok" => Presentable
                /\ Script[pc] \in {"read_secret", "emit"} => Presentable

(* A step that leaves the keys and the file alone, but may learn of them.  *)
LEMMA ServiceStep ==
    ASSUME TypeOK, ServiceInv, NEW step, At(step),
           se' = se, file' = file, made' = made, inv' = inv,
           step # "generate",
           \/ Throw
           \/ /\ Proceed
              /\ step = "open" => Key # NoKey
              /\ step = "load_peer" => IsPeer
              /\ step = "operate" /\ st' = "ok" /\ inv.cmd # "verify" => Presentable'
              /\ step = "public_key" => result' = By("public", Key)
              /\ step = "conclude" => st = "ok"
              /\ step \in {"conclude", "read_secret"} => result' = result
    PROVE  ServiceInv'
<1>1. Script' = Script /\ Key' = Key /\ Wished' = Wished /\ IsPeer' = IsPeer
  BY DEF Script, Key, Wished, IsPeer
<1>2. /\ phase = "running" /\ pc \in 1 .. Len(Script) /\ pc \in DOMAIN Script
      /\ Script[pc] = step
  BY StepOfCommand
<1>3. CASE Throw
  BY <1>2, <1>3 DEF Throw, Exit, ServiceInv
<1>4. CASE /\ Proceed
           /\ step = "open" => Key # NoKey
           /\ step = "load_peer" => IsPeer
           /\ step = "operate" /\ st' = "ok" /\ inv.cmd # "verify" => Presentable'
           /\ step = "public_key" => result' = By("public", Key)
           /\ step = "conclude" => st = "ok"
           /\ step \in {"conclude", "read_secret"} => result' = result
  <2>0. OpensFirst(Script, inv.cmd) /\ inv.cmd \in Cmds
    BY ScriptTyped, KeyOpensFirst DEF Script
  <2>1. phase' = "running" /\ pc' = pc + 1 /\ rc' = 0
    BY <1>2, <1>4 DEF Proceed, ServiceInv
  <2>2. inv.cmd \notin {"rng", "genkey", "unknown"} => Key # NoKey
    <3>1. CASE pc = 1
      BY <1>2, <1>4, <2>0, <3>1 DEF OpensFirst
    <3>2. CASE pc > 1
      BY <1>2, <3>2 DEF ServiceInv
    <3> QED
      BY <1>2, <3>1, <3>2
  <2>3. inv.cmd = "genkey" /\ pc' > 4 => Key = Wished
    <3>1. inv.cmd = "genkey" => pc # 4
      BY StepOfCommand
    <3> QED
      BY <1>2, <2>1, <3>1 DEF ServiceInv
  <2>4. inv.cmd = "ecdh" /\ pc' > 3 => IsPeer
    <3>1. CASE pc = 3
      BY <1>2, <1>4, <2>0, <3>1 DEF OpensFirst
    <3>2. CASE pc > 3
      BY <1>2, <3>2 DEF ServiceInv
    <3> QED
      BY <1>2, <2>1, <3>1, <3>2
  <2>5. ASSUME pc' \in DOMAIN Script, inv.cmd # "verify"
        PROVE  /\ Script[pc'] = "conclude" /\ st' = "ok" => Presentable'
               /\ Script[pc'] \in {"read_secret", "emit"} => Presentable'
    <3>1. /\ Script[pc'] = "conclude" => step = "operate"
          /\ Script[pc'] = "read_secret" => step = "conclude"
          /\ Script[pc'] = "emit" => step \in {"public_key", "conclude", "read_secret"}
      BY <1>4, <2>1, <2>5, StepFollowed
    <3>2. CASE step = "operate"
      BY <1>4, <2>5, <3>1, <3>2
    <3>3. CASE step \in {"conclude", "read_secret"}
      <4>1. Presentable
        BY <1>2, <1>4, <2>5, <3>3 DEF ServiceInv
      <4>2. Output' = Output /\ (Service!Deliverable)' = Service!Deliverable
        BY DEF Output, Key, Service!Deliverable, Service!Key, Service!NewKey, Service!Holds
      <4> QED
        BY <1>4, <3>1, <3>3, <4>1, <4>2 DEF Presentable
    <3>4. CASE step = "public_key" /\ Script[pc'] = "emit"
      <4>1. inv.cmd \in {"pub", "genkey"}
        BY <1>2, <2>0, <2>1, <2>5, <3>4 DEF OpensFirst
      <4>2. result' = Output'
        BY <1>1, <1>4, <3>4, <4>1 DEF Output, Product
      <4>3. Key # NoKey /\ (inv.cmd = "genkey" => Key = Wished)
        <5>1. CASE inv.cmd = "pub"
          BY <2>2, <5>1
        <5>2. CASE inv.cmd = "genkey"
          <6>1. pc = 5
            BY <3>4, <5>2, StepOfCommand
          <6>2. Key = Wished
            BY <1>2, <5>2, <6>1 DEF ServiceInv
          <6>3. inv.size \in Nat /\ inv.group \in {"ecc", "rsa"} /\ made \in Nat
            BY <5>2, InvocationTyped, SizesOffered DEF TypeOK
          <6>4. Wished # NoKey
            BY <6>3, NoKeyAssumption DEF Wished
          <6> QED
            BY <6>2, <6>4
        <5> QED
          BY <4>1, <5>1, <5>2
      <4>4. (Service!Deliverable)'
        BY <1>1, <4>1, <4>3 DEF Service!Deliverable, Service!Key, Service!NewKey, Key, Wished
      <4> QED
        BY <3>1, <3>4, <4>2, <4>4 DEF Presentable
    <3> QED
      BY <3>1, <3>2, <3>3, <3>4
  <2> QED
    BY <1>1, <2>1, <2>2, <2>3, <2>4, <2>5 DEF ServiceInv
<1> QED
  BY <1>3, <1>4

LEMMA ServiceInvKept == Spec => []ServiceInv
<1>1. Init => ServiceInv
  BY DEF Init, ServiceInv
<1>2. ASSUME TypeOK, ServiceInv, [Next]_vars
      PROVE  ServiceInv'
  <2> USE TypeOK, ServiceInv
  <2>1. CASE Start
    BY <2>1 DEF Start, ServiceInv
  <2>2. CASE Boot
    <3>1. /\ phase = "boot" /\ pc = 1 /\ pc' = pc /\ inv' = inv /\ Script' = Script
      BY <2>2 DEF Boot, call, Script, ServiceInv
    <3>2. \/ phase' \in {"boot", "running"} /\ rc' = rc
          \/ phase' = "exited"
      BY <2>2, <3>1 DEF Boot, Exit
    <3>3. 1 \in DOMAIN Script /\ Script[1] \notin {"conclude", "read_secret", "emit"}
      BY ScriptTyped, Orders DEF Shape, Order, Script
    <3> QED
      BY <3>1, <3>2, <3>3 DEF ServiceInv
  <2>3. ASSUME NEW step, At(step), Throw PROVE ServiceInv'
    BY <2>3 DEF Throw, Exit, ServiceInv
  <2>4. CASE PlainStep
    <3>1. PICK step : /\ At(step)
                      /\ step \notin {"erase", "generate", "context", "operate",
                                      "conclude", "emit"}
      BY <2>4 DEF PlainStep
    <3>2. /\ se' = se /\ file' = file /\ made' = made /\ inv' = inv
          /\ Throw \/ Proceed
          /\ step = "public_key" /\ Proceed => result' = By("public", Key)
          /\ step = "read_secret" => result' = result
          /\ step = "open" /\ Proceed => Key # NoKey
          /\ step = "load_peer" /\ Proceed => IsPeer
      BY <2>4, <3>1 DEF PlainStep, At, IsPeer
    <3> QED
      BY <3>1, <3>2, ServiceStep
  <2>6. CASE Erase
    <3>1. At("erase") /\ Proceed /\ inv' = inv
      BY <2>6 DEF Erase, call
    <3>2. inv.cmd = "genkey" /\ pc = 1
      BY <3>1, StepOfCommand
    <3>3. /\ phase' = "running" /\ pc' = 2 /\ Script' = Script /\ rc' = 0
          /\ 2 \in DOMAIN Script => Script[2] \notin {"conclude", "emit", "read_secret"}
      BY <3>1, <3>2, StepFollowed DEF Proceed, ServiceInv, At
    <3> QED
      BY <3>1, <3>2, <3>3 DEF ServiceInv
  <2>7. CASE Generate
    <3> DEFINE k == [alg |-> inv.group, size |-> inv.size, serial |-> made + 1]
    <3>1. /\ At("generate") /\ inv' = inv /\ made' = made + 1
          /\ Throw \/ (Proceed /\ se' = [se EXCEPT ![inv.id] = k])
      BY <2>7 DEF Generate, Refuse, Fail, call
    <3>2. inv.cmd = "genkey" /\ pc = 4 /\ inv.id \in Ids
      BY <3>1, StepOfCommand, KeyTyped
    <3>3. CASE Throw
      BY <2>3, <3>1, <3>3
    <3>4. CASE Proceed /\ se' = [se EXCEPT ![inv.id] = k]
      <4>1. Key' = Wished'
        BY <3>1, <3>2, <3>4 DEF Key, Wished, TypeOK
      <4>2. /\ phase' = "running" /\ pc' = 5 /\ Script' = Script /\ rc' = 0
            /\ 5 \in DOMAIN Script => Script[5] \notin {"conclude", "emit", "read_secret"}
        BY <3>1, <3>2, <3>4, StepFollowed DEF Proceed, ServiceInv, At
      <4> QED
        BY <3>1, <3>2, <4>1, <4>2 DEF ServiceInv
    <3> QED
      BY <3>1, <3>3, <3>4
  <2>8. CASE InitContext
    BY <2>3, <2>8, ServiceStep DEF InitContext, Fail, store, call
  <2>9. CASE Operate
    <3>1. /\ At("operate") /\ Proceed
          /\ se' = se /\ file' = file /\ made' = made /\ inv' = inv
          /\ st' = "ok" => Matches /\ result' = Output
      BY <2>9 DEF Operate, store, call
    <3>2. ASSUME st' = "ok", inv.cmd # "verify" PROVE Presentable'
      <4>1. OpensFirst(Script, inv.cmd) /\ inv.cmd \notin {"genkey", "unknown"}
        BY <3>1, ScriptTyped, KeyOpensFirst, StepOfCommand DEF Script
      <4>2. phase = "running" /\ pc \in DOMAIN Script /\ Script[pc] = "operate"
        BY <3>1 DEF At
      <4>3. inv.cmd # "rng" => Key # NoKey
        BY <4>1, <4>2 DEF OpensFirst, ServiceInv
      <4>4. inv.cmd = "ecdh" => IsPeer
        BY <4>1, <4>2 DEF OpensFirst, ServiceInv
      <4>5. result' = Output'
        BY <3>1, <3>2 DEF Output, Key
      <4>6. Service!Deliverable
        BY <3>1, <3>2, <4>1, <4>3, <4>4
           DEF Matches, Service!Deliverable, Service!Key, Service!Holds, Key, By, IsPeer
      <4>7. (Service!Deliverable)'
        BY <3>1, <4>6 DEF Service!Deliverable, Service!Key, Service!NewKey, Service!Holds
      <4> QED
        BY <4>5, <4>7 DEF Presentable
    <3> QED
      BY <3>1, <3>2, ServiceStep
  <2>10. CASE Conclude
    <3>1. /\ At("conclude") /\ result' = result
          /\ se' = se /\ file' = file /\ made' = made /\ inv' = inv
      BY <2>10 DEF Conclude, store, call
    <3>2. CASE inv.cmd = "verify"
      <4>1. phase' = "exited"
        BY <2>10, <3>2 DEF Conclude, Exit
      <4> QED
        BY <4>1 DEF ServiceInv
    <3>3. CASE inv.cmd # "verify" /\ (Throw \/ (st = "ok" /\ Proceed))
      BY <3>1, <3>3, ServiceStep
    <3> QED
      BY <2>10, <3>2, <3>3 DEF Conclude
  <2>11. CASE Emit
    <3>1. At("emit") /\ inv' = inv /\ se' = se /\ made' = made /\ (Throw \/ Proceed)
      BY <2>11 DEF Emit, Fail, call
    <3>2. CASE Throw
      BY <2>3, <3>1, <3>2
    <3>3. CASE Proceed
      <4>1. Shape(Script, inv.cmd)
        BY ScriptTyped
      <4>2. /\ phase' = "running" /\ pc' = Len(Script) + 1 /\ Script' = Script /\ rc' = 0
            /\ Len(Script) \in 1 .. 8 /\ pc = Len(Script) /\ phase = "running"
            /\ pc \in DOMAIN Script /\ Script[pc] = "emit"
        BY <3>1, <3>3, <4>1 DEF Shape, At, Proceed, Script, ServiceInv
      <4>3. pc' \notin DOMAIN Script'
        BY <4>1, <4>2 DEF Shape
      <4>4. /\ inv.cmd \notin {"rng", "genkey", "unknown"} => Key # NoKey
            /\ inv.cmd = "genkey" => Key = Wished
        <5>1. pc > 1 /\ (inv.cmd = "genkey" => pc > 4)
          <6>1. Order(Script, inv.cmd)
            BY ScriptTyped, Orders DEF Script
          <6>2. pc > 1
            BY <3>1, <4>2, <6>1 DEF Order, At
          <6>3. inv.cmd = "genkey" => Len(Script) = 6
            BY DEF Script, Steps
          <6>4. inv.cmd = "genkey" => pc = 6
            BY <4>2, <6>3
          <6> QED
            BY <6>2, <6>4
        <5> QED
          BY <4>2, <5>1 DEF ServiceInv
      <4>5. Key' = Key /\ Wished' = Wished
        BY <3>1 DEF Key, Wished
      <4> QED
        BY <3>1, <4>2, <4>3, <4>4, <4>5 DEF ServiceInv
    <3> QED
      BY <3>1, <3>2, <3>3
  <2>12. CASE Finish \/ Kill
    <3>1. phase' \in {"exited", "killed"}
      BY <2>12 DEF Finish, Exit, Kill
    <3> QED
      BY <3>1 DEF ServiceInv
  <2>13. CASE UNCHANGED vars
    BY <2>13 DEF vars, ServiceInv, Script, Key, Wished, IsPeer, Presentable, Output,
                 Service!Deliverable, Service!Key, Service!NewKey, Service!Holds
  <2> QED
    BY <1>2, <2>1, <2>2, <2>4, <2>6, <2>7, <2>8, <2>9, <2>10, <2>11, <2>12, <2>13,
       KindsOfSteps
<1> QED
  BY <1>1, <1>2, AppTyping, PTL DEF Spec

(* A command is busy until its last step is done. *)
LEMMA BusyWhile ==
    ASSUME TypeOK, ServiceInv
    PROVE  /\ phase = "idle" => Status = "idle"
           /\ phase = "exited" => Status = "answered"
           /\ phase = "killed" => Status = "dead"
           /\ phase = "boot" => Status = "busy"
           /\ phase = "running" =>
                  Status = IF pc \in DOMAIN Script THEN "busy" ELSE "done"
<1>1. 1 \in DOMAIN Script
  BY ScriptTyped DEF Shape
<1> QED
  BY <1>1 DEF Status, ServiceInv

(* The commands that deliver something deliver what the service promises.  *)
LEMMA ProductIsKind ==
    \A cmd \in Cmds \ {"verify", "unknown"} :
        cmd \in DOMAIN Service!Kind /\ Product[cmd] = Service!Kind[cmd]
BY DEF Cmds, Product, Service!Kind

(* A step that changes neither a key nor the file goes unseen, or answers  *)
(* with a refusal.                                                         *)
LEMMA StepUnseen ==
    ASSUME TypeOK, ServiceInv, NEW step, At(step),
           se' = se, file' = file, made' = made, inv' = inv,
           Throw \/ Proceed,
           step \in {"emit", "reject"} => ~Proceed,
           step = "conclude" => inv.cmd # "verify"
    PROVE  [Service!Next]_(Service!vars)
<1>1. phase = "running" /\ pc \in DOMAIN Script /\ Status = "busy"
  BY BusyWhile DEF At
<1>2. CASE Throw
  <2>1. Status' = "answered" /\ rc' = 1
    BY <1>2 DEF Throw, Exit, Status
  <2>2. Service!Refuse
    BY <1>1, <2>1 DEF Service!Refuse, Service!Answer
  <2> QED
    BY <2>2 DEF Service!Next
<1>3. CASE Proceed
  <2>1. step \notin {"emit", "reject"}
    BY <1>3
  <2>2. phase' = "running" /\ pc' \in DOMAIN Script'
    BY <1>3, <2>1, StepFollowed
  <2>3. Status' = "busy" /\ rc' = rc
    BY <1>3, <2>2 DEF Status, Proceed
  <2> QED
    BY <1>1, <2>3 DEF Service!vars
<1> QED
  BY <1>2, <1>3

(* Deciding verify: the answer 0 is given to signatures by the key only.   *)
LEMMA VerdictGiven ==
    ASSUME TypeOK, ServiceInv, VerdictInv, Conclude, inv.cmd = "verify"
    PROVE  Service!Next
<1>1. /\ At("conclude") /\ UNCHANGED << store, call >>
      /\ Exit(IF st = "ok" THEN 0 ELSE 2)
  BY DEF Conclude
<1>2. phase = "running" /\ pc \in DOMAIN Script /\ Script[pc] = "conclude"
  BY <1>1 DEF At
<1>3. Status = "busy" /\ Status' = "answered"
  BY <1>1, <1>2, BusyWhile DEF Exit, Status
<1>4. CASE st = "ok"
  <2>1. rc' = 0
    BY <1>1, <1>4 DEF Exit
  <2>2. file = By("signature", Key)
    BY <1>2, <1>4 DEF VerdictInv, Signed, Key
  <2>3. Service!Accept
    BY <1>1, <1>3, <2>1, <2>2
       DEF Service!Accept, Service!Answer, Service!Holds, Service!Key, Key, By, store, call
  <2> QED
    BY <2>3 DEF Service!Next
<1>5. CASE st # "ok"
  <2>1. rc' = 2
    BY <1>1, <1>5 DEF Exit
  <2>2. Service!Reject
    BY <1>1, <1>3, <2>1 DEF Service!Reject, Service!Answer, store, call
  <2> QED
    BY <2>2 DEF Service!Next
<1> QED
  BY <1>4, <1>5

(* Writing the file: what is in it is the product of the key now there.    *)
LEMMA EmitDelivers ==
    ASSUME TypeOK, ServiceInv, Emit, Proceed
    PROVE  Service!Deliver
<1>1. /\ At("emit") /\ inv' = inv /\ se' = se /\ made' = made
      /\ phase = "running" /\ pc \in DOMAIN Script /\ Script[pc] = "emit"
  BY DEF Emit, At, call
<1>2. Shape(Script, inv.cmd) /\ OpensFirst(Script, inv.cmd) /\ inv.cmd \in Cmds
  BY ScriptTyped, KeyOpensFirst DEF Script
<1>3. inv.cmd \notin {"verify", "unknown"} /\ pc = Len(Script) /\ Len(Script) \in Nat
  BY <1>1, <1>2 DEF Shape, OpensFirst
<1>4. Presentable
  BY <1>1, <1>3 DEF ServiceInv
<1>5. Status = "busy"
  BY <1>1, BusyWhile
<1>6. Status' = "done" /\ rc' = rc
  <2>1. phase' = "running" /\ pc' = Len(Script) + 1 /\ Script' = Script /\ rc' = rc
    BY <1>1, <1>3 DEF Proceed, Script
  <2>2. pc' \notin DOMAIN Script'
    BY <1>2, <1>3, <2>1 DEF Shape
  <2> QED
    BY <2>1, <2>2 DEF Status
<1>7. inv.cmd \in DOMAIN Service!Kind /\ Product[inv.cmd] = Service!Kind[inv.cmd]
  BY <1>2, <1>3, ProductIsKind
<1>8. result = [kind |-> Service!Kind[inv.cmd],
                key  |-> IF inv.cmd \in {"rng", "decrypt"} THEN NoKey ELSE Service!Key]
  BY <1>3, <1>4, <1>7 DEF Presentable, Output, By, Service!Key, Key
<1>9. IF inv.out = "stdout" THEN file' = file
      ELSE file' \in {result, Service!Torn}
  <2>1. Plain("torn") = Service!Torn
    BY DEF Plain, Service!Torn
  <2>2. ~Fail
    BY <1>1 DEF Proceed, Fail, Throw, Exit
  <2> QED
    BY <2>1, <2>2 DEF Emit
<1>10. Service!Deliverable
  BY <1>4 DEF Presentable
<1> QED
  BY <1>1, <1>5, <1>6, <1>7, <1>8, <1>9, <1>10 DEF Service!Deliver

(* The program implements the key service, whichever call fails and        *)
(* whenever it is killed.                                                  *)
THEOREM ServiceImplemented == Spec => ImplementsService
<1>1. Init => Service!Init
  <2> SUFFICES ASSUME Init PROVE Service!Init
    OBVIOUS
  <2>1. Status = "idle"
    BY DEF Init, Status
  <2> QED
    BY <2>1 DEF Init, Service!Init, Plain
<1>2. ASSUME TypeOK, ServiceInv, VerdictInv, [Next]_vars
      PROVE  [Service!Next]_(Service!vars)
  <2> USE TypeOK, ServiceInv
  <2>1. CASE Start
    <3>1. /\ phase \in {"idle", "exited", "killed"} /\ inv' \in Invocations
          /\ phase' = "boot" /\ pc' = 1 /\ rc' = 0 /\ UNCHANGED store
      BY <2>1 DEF Start
    <3>2. Status \notin {"busy", "done"}
      BY <3>1, BusyWhile
    <3>3. Status' = "busy"
      <4>1. 1 \in DOMAIN Script'
        BY <3>1, InvocationTyped, Shapes DEF Script, Shape
      <4> QED
        BY <3>1, <4>1 DEF Status
    <3>4. Service!Ask
      BY <3>1, <3>2, <3>3 DEF Service!Ask, store
    <3> QED
      BY <3>4 DEF Service!Next
  <2>2. CASE Boot
    <3>1. phase = "boot" /\ UNCHANGED << store, call, pc >> /\ Status = "busy"
      BY <2>2, BusyWhile DEF Boot
    <3>2. CASE phase' \in {"boot", "running"} /\ rc' = rc
      <4>1. Script' = Script /\ pc = 1
        BY <3>1 DEF call, Script, ServiceInv
      <4>2. Status' = "busy"
        BY <3>1, <3>2, <4>1, ScriptTyped DEF Status, Shape
      <4> QED
        BY <3>1, <3>2, <4>2 DEF Service!vars, store, call
    <3>3. CASE Exit(1)
      <4>1. Status' = "answered" /\ rc' = 1
        BY <3>3 DEF Exit, Status
      <4>2. Service!Refuse
        BY <3>1, <4>1 DEF Service!Refuse, Service!Answer, store, call
      <4> QED
        BY <4>2 DEF Service!Next
    <3> QED
      BY <2>2, <3>1, <3>2, <3>3 DEF Boot
  <2>3. CASE PlainStep
    <3>1. PICK step : /\ At(step)
                      /\ step \notin {"erase", "generate", "context", "operate",
                                      "conclude", "emit"}
      BY <2>3 DEF PlainStep
    <3>2. /\ se' = se /\ file' = file /\ made' = made /\ inv' = inv
          /\ Throw \/ (Proceed /\ step # "reject")
      BY <2>3, <3>1 DEF PlainStep
    <3>3. step = "reject" => ~Proceed
      BY <3>1, <3>2 DEF Throw, Exit, Proceed, At
    <3> QED
      BY <3>1, <3>2, <3>3, StepUnseen
  <2>4. CASE Erase
    <3>1. At("erase") /\ Proceed /\ file' = file /\ made' = made /\ inv' = inv
      BY <2>4 DEF Erase, call
    <3>2. CASE se' = se
      BY <3>1, <3>2, StepUnseen
    <3>3. CASE inv.force /\ se' = [se EXCEPT ![inv.id] = NoKey]
      <4>1. inv.cmd = "genkey" /\ phase = "running" /\ pc \in DOMAIN Script
        BY <3>1, StepOfCommand
      <4>2. phase' = "running" /\ pc' \in DOMAIN Script' /\ rc' = rc
        BY <3>1, StepFollowed DEF Proceed
      <4>3. Status = "busy" /\ Status' = "busy"
        BY <4>1, <4>2, BusyWhile DEF Status
      <4>4. Service!Forget
        BY <3>1, <3>3, <4>1, <4>2, <4>3 DEF Service!Forget, Service!Put
      <4> QED
        BY <4>4 DEF Service!Next
    <3> QED
      BY <2>4, <3>2, <3>3 DEF Erase
  <2>5. CASE Generate
    <3> DEFINE k == [alg |-> inv.group, size |-> inv.size, serial |-> made + 1]
    <3>1. /\ At("generate") /\ made' = made + 1 /\ file' = file /\ inv' = inv
          /\ \/ Proceed /\ se' = [se EXCEPT ![inv.id] = k]
             \/ Throw /\ se' \in {se, [se EXCEPT ![inv.id] = k]}
      BY <2>5 DEF Generate, Refuse, Fail, call
    <3>2. /\ inv.cmd = "genkey" /\ phase = "running" /\ pc \in DOMAIN Script
          /\ Status = "busy"
      BY <3>1, StepOfCommand, BusyWhile
    <3>3. Service!NewKey(made') = k
      BY <3>1 DEF Service!NewKey
    <3>4. CASE Proceed /\ se' = [se EXCEPT ![inv.id] = k]
      <4>1. phase' = "running" /\ pc' \in DOMAIN Script' /\ rc' = rc
        BY <3>1, <3>4, StepFollowed DEF Proceed
      <4>2. Status' = Status
        BY <3>2, <4>1 DEF Status
      <4>3. Service!Put(Service!NewKey(made'))
        BY <3>3, <3>4 DEF Service!Put
      <4>4. Service!Make
        BY <3>1, <3>2, <4>1, <4>2, <4>3 DEF Service!Make
      <4> QED
        BY <4>4 DEF Service!Next
    <3>5. CASE Throw /\ se' \in {se, [se EXCEPT ![inv.id] = k]}
      <4>1. Status' = "answered" /\ rc' = 1
        BY <3>5 DEF Throw, Exit, Status
      <4>2. Service!Put(Service!NewKey(made')) \/ se' = se
        BY <3>3, <3>5 DEF Service!Put
      <4>3. Service!Make
        BY <3>1, <3>2, <4>1, <4>2 DEF Service!Make
      <4> QED
        BY <4>3 DEF Service!Next
    <3> QED
      BY <3>1, <3>4, <3>5
  <2>6. CASE InitContext
    BY <2>6, StepUnseen DEF InitContext, Fail, store, call
  <2>7. CASE Operate
    BY <2>7, StepUnseen DEF Operate, store, call
  <2>8. CASE Conclude
    <3>1. CASE inv.cmd = "verify"
      BY <1>2, <2>8, <3>1, VerdictGiven
    <3>2. CASE inv.cmd # "verify"
      BY <2>8, <3>2, StepUnseen DEF Conclude, store, call
    <3> QED
      BY <3>1, <3>2
  <2>9. CASE Emit
    <3>1. At("emit") /\ inv' = inv /\ se' = se /\ made' = made
      BY <2>9 DEF Emit, call
    <3>2. CASE Proceed
      BY <2>9, <3>2, EmitDelivers DEF Service!Next
    <3>3. CASE Fail /\ file' = file
      <4>1. Throw /\ ~Proceed
        BY <3>1, <3>3 DEF Fail, Throw, Exit, Proceed, At
      <4> QED
        BY <3>1, <3>3, <4>1, StepUnseen
    <3> QED
      BY <2>9, <3>2, <3>3 DEF Emit
  <2>10. CASE Finish
    <3>1. /\ phase = "running" /\ pc \notin DOMAIN Script
          /\ phase' = "exited" /\ rc' = 0 /\ UNCHANGED << store, call >>
      BY <2>10, ScriptTyped DEF Finish, Exit, Shape
    <3>2. Status = "done" /\ Status' = "answered"
      BY <3>1, BusyWhile DEF Status
    <3>3. Service!Succeed
      BY <3>1, <3>2 DEF Service!Succeed, Service!Answer, store, call
    <3> QED
      BY <3>3 DEF Service!Next
  <2>11. CASE Kill
    <3>1. /\ phase \in {"boot", "running"} /\ phase' = "killed"
          /\ UNCHANGED << se, made, call, pc, rc >>
      BY <2>11 DEF Kill
    <3>2. Status \in {"busy", "done"} /\ Status' = "dead"
      BY <3>1, BusyWhile DEF Status
    <3>3. CASE file' = file
      BY <3>1, <3>2, <3>3 DEF Service!Next, Service!Die, call
    <3>4. CASE At("emit") /\ inv.out = "file" /\ file' = Plain("torn")
      <4>1. Status = "busy"
        BY <3>4, BusyWhile DEF At
      <4>2. inv.cmd \in Cmds \ {"verify", "unknown"}
        BY <3>4, ScriptTyped, KeyOpensFirst DEF At, Script, Shape, OpensFirst
      <4>3. inv.cmd \in DOMAIN Service!Kind
        BY <4>2, ProductIsKind
      <4>4. file' = Service!Torn
        BY <3>4 DEF Plain, Service!Torn
      <4> QED
        BY <3>1, <3>2, <3>4, <4>1, <4>3, <4>4 DEF Service!Next, Service!Die, call
    <3> QED
      BY <2>11, <3>3, <3>4 DEF Kill
  <2>12. CASE UNCHANGED vars
    BY <2>12 DEF vars, Service!vars, Status, Script
  <2> QED
    BY <1>2, <2>1, <2>2, <2>3, <2>4, <2>5, <2>6, <2>7, <2>8, <2>9, <2>10, <2>11,
       <2>12, KindsOfSteps
<1> QED
  BY <1>1, <1>2, AppTyping, ServiceInvKept, VerdictKept, PTL
     DEF Spec, ImplementsService, Service!Spec

=============================================================================

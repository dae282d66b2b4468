# Formal model of the SE05x programs

The repository builds three programs around an NXP SE05x secure element: a
demo in C (`app/`), a command line program in C++ (`cpp_app/`) and a suite of
PKCS#11 demos (`pkcs11_example/`).  This directory holds TLA+ models of their
behaviour, the TLC configurations that check them, and theorems that TLAPS
proves about them.  Paths below are relative to the root of the repository.

## 1. The system

| Part | State it keeps | Operations | What makes it correct |
|---|---|---|---|
| C demo, `app/` | key slots `DEMO_KEY_*` on the secure element; four CSR files in `/tmp`; SSS objects and contexts in locals | nine `demo_*` functions, run in order by `ex_sss_entry` | a later run recovers from what an aborted run leaves; keys are replaced only in their turn; nothing leaks on error paths; a CSR is signed by the key it certifies |
| CSR encoding, in `demo_ec.c`, `demo_rsa.c`, `csr.cpp` | write pointer and byte counter in a fixed buffer | mbedTLS ASN.1 and PEM writers | the structures fit; pointer and counter agree |
| CSR builder, `cpp_app/csr.cpp` | two buffers, a raw list of subject names | `buildCri`, `assembleCsr`, `toPem`, `makeCsr` | the list is freed when something throws; nothing fails once the secure element has signed |
| Key wrappers and commands, `cpp_app/se05x_crypto.cpp`, `main.cpp` | persistent keys; files; session; context | `rng`, and for `ecc` and `rsa`: `genkey pub sign verify encrypt decrypt ecdh csr` | only `genkey` changes a key, the one it names; verdicts and outputs belong to the key now in the slot; everything is released |
| Option parser, `main.cpp` | none | `parseArgs`, `parseId` | options and values are told apart; the identifier is the one written |
| PKCS#11 suite, `pkcs11_example/` | one session shared by ten demos; token objects; active operations | `run_*` | a failed demo does not disturb the next; the exit code tells of any failure |
| Build files, `pkcs11_lib/`, `ext/` | none | none | not modelled: no behaviour of their own, or code that is not in the repository |

The programs are sequential.  What interacts is one call with the secure
element, and one run with the next: key slots and files persist, and a run may
stop anywhere.  Every call to the secure element may fail, and it may take
effect and still report failure when its answer is lost.  Neither program
retries or times out by itself.  The hazards this gives rise to are listed in
`PROJECT.json`, each at its line.

## 2. Modules

| Module | Models |
|---|---|
| `CsrEncoding` | sizes of the DER and PEM structures; buffer sizes of the two C builders |
| `DemoScripts` | the nine demo functions as sequences of calls; what each `cleanup:` frees |
| `DemoSE051` | the machine that executes them: calls, failures, lost answers, power loss, repeated runs |
| `KeyProvisioning` | abstract specification: keys are replaced one after the other |
| `CsrWriter` | `csr.cpp`, statement by statement, exceptions included |
| `CryptoApp` | the command line program: one invocation after another over persistent keys and a file |
| `KeyService` | abstract specification: what the command line program does to keys, file and exit code |
| `OptionParser` | `parseArgs` token by token, `strtoul`, and the request that `main` makes of the line |
| `Pkcs11Scripts` | the ten PKCS#11 demos as rounds of calls, and where each goes when a call fails |
| `Pkcs11Demo` | `pkcs11_demo.c` and the machine that executes the scripts on one session |
| `DemoSuite` | abstract specification: all demos run in order, the exit code tells of any failure |
| `MCDemoSE051`, `MCCsrWriter`, `MCCryptoApp`, `MCOptionParser`, `MCPkcs11Demo` | the constants of the TLC runs |
| `CsrEncodingProofs`, `DemoSE051Proofs`, `DemoKeysProofs`, `CsrWriterProofs`, `CryptoAppProofs`, `OptionParserProofs`, `Pkcs11DemoProofs`, `Pkcs11PlanProofs` | theorems and their proofs |

`DemoSE051` extends `DemoScripts` and `CsrEncoding`; `CsrWriter` extends
`CsrEncoding`.  `DemoSE051` is shown to implement `KeyProvisioning` by the
refinement mapping `Provisioning` at its end, `CryptoApp` to implement
`KeyService` by `Service`; `Pkcs11Demo` extends `Pkcs11Scripts` and implements
`DemoSuite` by the mapping `Suite`.

### The C demo: DemoScripts and DemoSE051

Every demo function is straight-line code: a call, `ENSURE_OR_GO_CLEANUP`, the
next call.  It is written as a sequence of records that name the call, the
local it initialises or works for, the key identifier it reaches and the
locals it dereferences.  `stage` and `pc` are the position in the program; each
action of `DemoSE051` is one kind of call.

| Variable | Code |
|---|---|
| `se` | the key slots; material is the number of the run that created it |
| `files` | the files in `/tmp`: key certified and key that signed; unusable if missing or truncated |
| `held` | SSS objects and contexts initialised and not freed |
| `status`, `phase` | the local `status` and where the process is |
| `spki`, `sig` | the buffers of that name (`sig` also stands for the ciphertext) |
| `faulty` | an external call has failed in this run; only properties read it |

A call proceeds, is refused because of the state of the secure element (no such
key, a signature of another key), or fails for an external reason.
`erase_key_if_exists` and the four file operations ignore failures, as the code
does: there a failure is a step that proceeds.  A failed `CreateKey` may have
created the key.  `AllocateHandle` on an occupied identifier may be refused or
not: that depends on the object found there.  When a buffer of the CSR
functions is too small, `MBEDTLS_ASN1_CHK_ADD` returns from the function past
its cleanup (`ReturnAtOnce`).  Encryption followed by decryption and the
comparison has the shape of sign and verify, hence the same actions.  `Kill`
ends a run anywhere.  The transient key `SHARED` may be lost when a session
ends.

### The CSR builder: CsrWriter

`at` is the statement about to be executed, `c` the distance of the write
pointer from the start of the buffer, `len` the bytes counted.  `Write` stands
for the `CHK` calls and for the two raw copies, with the check each performs; it
moves the pointer and leaves in `r` what it wrote.  `Count` is the addition
that follows it, inside `CHK` or, after the raw copies, in a statement of its
own; `half` says which of the two is next.  `Write` says which statements free
the subject list when they throw: the two that the code releases by hand.  The
two small `CHK` writes before them (`csr.cpp:48-51`) do not, and the model shows
why this is harmless: they cannot fail in a buffer of 4096 bytes.

A subject that `mbedtls_x509_string_to_names` refuses half way (`CN=a,BOGUS=b`)
may leave a list of its first components, and the exception at `csr.cpp:44`
frees nothing.  `ParseSubject` allows it, and `NamesReleased` speaks of the list
once the subject has been accepted.

### The command line program: CryptoApp

`Steps` lists, for each command, the calls in the order of the code; `erase`
comes before `size` because the arguments of `generate` are evaluated after
the erasure.  `Conclude` is the release of the context and the check after it.
`KeyBits` is `bits_`, which `open` does not set.  A key is its algorithm, its
size and a serial number; a file holds one output together with the key that
made it, so a later `verify`, `decrypt` or `ecdh` meets stale files and
replaced keys.  An exception takes any step to the exit of `main`.  Wrong
uses are included: a command on a key of the other algorithm, an unusable
`--curve`, `--bits` or `--subject`, an unknown command.  Its invocations are the
requests that `OptionParser` makes of command lines.

`AllocateOut` is the buffer of `getRandom`, allocated between `context_init` and
`context_free` with the size the user gives: a count that cannot be allocated
throws and leaves the context open.  Buffers of a fixed size are taken to be
there.  `ecdh` puts its two transient objects under fixed identifiers
(`TransientIds`); the model has no slots for them, and `TransientAssumption`
says that the user has no keys there.

`KeyService` knows neither calls nor buffers nor contexts: a request makes or
forgets a key, delivers one output of the key that is in the slot at that
moment, and is answered.  `Status` at the end of `CryptoApp` is the mapping: a
command is done once its last step is.

### The option parser: OptionParser

`argv` is arbitrary: a token is its text and the characters `strtoul` sees in
it.  The four branches of the loop are four actions; what the code does with an
option at the end of the line (its value is `1`) and with an option after an
option (it becomes the value) is theirs.  `Assign` is what follows the loop,
the shift of the count of `rng` included, and `Run` is the choice `main` makes
and what a handler reads before it reaches for a key.  The options that no handler looks at are
represented by `--other`.  `strtoul` has base 0:
sign, prefix, digits, and the largest value for a number too large, which
depends on the width of `unsigned long`; `parseId` cuts the result down to the
32 bits of an identifier.

### The PKCS#11 suite: Pkcs11Scripts and Pkcs11Demo

A demo is a sequence of rounds, the passes of its loop or its blocks; the last
is what follows `cleanup:`.  Each call carries what the code does when it
fails: `Check` is `CK_CHECK`, `Fail` a `[FAIL]` with a jump to the end of the
pass, `Skip` and `Leave` a `[SKIP]`, `Ignore` a result that is not looked at.
`stage`, `round` and `pc` are the position.

| Variable | Code |
|---|---|
| `objects` | objects on the token and in the session, by identifier; external |
| `active` | operations begun in the session and not finished; external |
| `held` | handles of the running demo that are not `CK_INVALID_HANDLE` |
| `pending` | signatures, texts and secrets that nothing has confirmed |
| `opened`, `slot` | what `main` has opened; `slots[0]`, uninitialised when the second `C_GetSlotList` fails |
| `rc`, `frc` | the `rc` of `main` and of the running demo |
| `before`, `lost`, `failed`, `faults` | history, for the properties and the bounds |

Whatever PKCS#11 or the secure element may do is allowed: a call fails at any
time, a create that fails may have made its object, an operation that fails
may stay active, `C_...Init` on an active operation may restart it or refuse,
an occupied identifier may be overwritten or refused, the two handles of a key
pair may be one object.  Token objects survive the run, session objects
(the derived secrets) and operations do not.  `Kill` ends the process at any
call, which may have had its effect.

## 3. Runs

| Run | Question | Result |
|---|---|---|
| `demo_safety` | two runs of the demo on any leftovers: seven invariants | pass, 628121 states |
| `demo_refinement` | does it implement `KeyProvisioning`, and does every run end? | pass |
| `demo_csr_written` | is a file written when the log says so? | violated |
| `csr_writer` | five invariants of the CSR builder | pass, 225040 states |
| `app_safety` | any sequence of commands, two keys generated: seven invariants; does it implement `KeyService`? | pass, 358969 states |
| `app_documented` | do the documented commands work on keys of every documented size? | violated |
| `app_wrote` | is the output written when the message says so? | violated |
| `options` | does a command line mean what is written, in any order, on both machines? six invariants | pass, 358618 states |
| `options_hex` | is the value of `--id` hexadecimal, as the usage text says? | violated |
| `suite_safety` | one run of the suite on any one leftover object, two failures: seven invariants | pass, 3122271 states |
| `suite_recovery` | two runs, one failure or kill in each: leftovers show, `DemoSuite` is implemented, every run ends | pass, 183082 states |
| `suite_secrets` | has a passing suite seen the two ECDH secrets match? | violated |

**Demo.**  `KeysReplacedInOrder`: a failure never costs a key whose turn has
not come.  `PassedRunDelivers`: a run that passes has replaced all keys and
written four matching files, unless an external failure went unnoticed.
`CsrIsSelfSigned` holds of the files whatever was aborted.  `NothingLeaks` and
`UsesOpenObjects`: locals are freed on all paths and used only while open.
`FaultlessRunPasses` is recovery: whatever is left over, a run in which no call
fails passes.

**CSR builder.**  `SignedIsDelivered`: buffers and subject are such that no
failure is left once the secure element has signed.  `OutputInBuffer`: where a
structure is used (hashed, or turned into PEM) the pointer has moved as far as
the bytes were counted, so it starts where the code says.  `NamesReleased`: an
accepted subject is freed on every way out.  `DeliversWholeCsr`: the request has
the length of its DER structure; the information of one that is signed fits its
buffer, and a write throws only if that information does not fit.

**Command line.**  `ReleasedAtExit` (session and contexts, with the exception of
`AllocateOut`, which the property names), `OnlyGenkeyChangesKeys` (a slot holds
the key that `genkey` was asked for, or is empty because of `--force`; without
`--force` an old key is replaced only if the secure element allows an occupied
identifier to be taken), `VerdictIsSound` (a signature verifies under the key in the slot now), `FailureKeepsFile` (a
command that fails leaves its output file alone), `SuccessDelivers`, and
`DefaultSizesWork` (P-256 and RSA-2048 keys, and `genkey` of any size).
`ImplementsService` adds the order of things: the file is written last, after
the key was looked up and with what that very key has made, for `genkey` the
new key and not one it met; from then on the exit code is 0, and in every other
case the file is as it was, unless the process died while writing.

**Option parser.**  `OptionsAsWritten`, `PositionalsAsWritten`: on a well-formed
line (every option has a value that is not an option) each option has its own
last value and the words keep their order.  `DocumentedLinesWork` relates the
line to the request; `provision`, which `main.cpp:141` and `:190` take for
`genkey` and no usage text names, is the one undocumented command it admits
(`Accepted`).  `NoIdNoKey` speaks of every line, the malformed ones included:
the key is the one after the last `--id` that is an option.  In a chain of
options every second one is a value (`TakenAsValue`), so `--in --out --sig --id`
gives none.  `IdIsExact`: a number that fits an identifier is read in the base it
is written in, and nothing is cut off.

**PKCS#11 suite.**  `LeavesNothing`: a run that returns has destroyed what it
made and closed what it opened.  `UsesLiveObjects` and `IdsAreFresh`: no handle
is used invalid or destroyed, and no demo is in the way of a later one.
`ActiveMeansFailed`: an operation left active, which may make a later demo skip
its test, is reported by the exit code.  `OutputsAreConfirmed`: no demo ends
well with an unverified signature or text.  `CleanRunPasses`: on an empty token,
with no failure, the suite passes and leaves the token empty.  `LeftoversShow`:
a key of an aborted run that keeps a demo from working shows in the exit code,
except for the demos that say `[SKIP]`.

### Bounds

* `MaxRuns = 2`: a run starts on arbitrary leftovers (`Init` picks any subset
  of the slots and old or unusable files), so one run sees everything a
  predecessor can leave, and the second shows that what a run leaves by itself
  is no worse.  Lengths are the shortest and the longest a buffer admits; that
  everything between fits as well is proved (`CsrAlwaysFits`).
* Liveness of the demo and of the suite is checked over two runs; the next
  starts only by the user's choice.
* `options`: all lines of up to four of eleven words, every order of the five parts
  of a longer line, options given twice, and a command with three to five tokens
  that take each other for values, with numbers around each boundary
  of the scaled widths.  An identifier has 8 bits instead of 32, an `unsigned
  long` 8 or 16 as on armhf (as wide as an identifier) and aarch64 (twice as
  wide).  That lines of any length are parsed alike, and numbers of any width
  read alike, is proved.
* `suite_safety`: the demos use different identifiers, so one leftover object
  meets the one demo that it disturbs; two external failures let one fall on
  the recovery from the other.  `suite_recovery` starts on an empty token and
  makes its leftovers itself.  All safety properties are proved without bounds.
* `csr_writer`: subjects around every change of the DER length field and around
  the sizes at which the 4096-byte buffer fills up.
* `app_safety`: two identifiers (one used, one that must not be touched), two
  keys, one small and one large size of each algorithm.  P-521 is the curve
  whose shared secret exceeds the buffer; RSA-3072 exceeds the buffers of
  `RsaKey::open`.  Identifiers are symmetric: the program only passes them on.

### Fairness

Only the two properties `EveryRunEnds` use it: weak fairness of the program's
own steps, in `DemoSE051` and in `Pkcs11Demo` (`DemoStep \/ MainStep`).  The
programs have one thread and wait for nobody, their loops have fixed bounds, and
the property assumes that each library call returns.  Starting runs and killing
them is never forced.

### Violations

1. `CsrWrittenWhenPassed`: `demo_ec.c:339-357` and `demo_rsa.c:315-333` ignore
   `fopen`, `fwrite`, `fclose` and a failing PEM encoder, log that both files
   were written, and return success; a file of an earlier run may remain.
2. `DocumentedCommandsWork`: `RsaKey::open` leaves `bits_` at 2048, so `pub`,
   `sign`, `encrypt` and `csr` fail on the 3072- and 4096-bit keys that
   `genkey` creates.  The same property also fails for `ecdh` on P-521, whose
   66-byte secret is read into 64 bytes.  The model assumes that the library
   refuses an output that does not fit.
3. `WroteWhatItSays`: `writeFile` does not look at the result of `f.write`.
4. `SecretsCompared`: `run_ecdh_derive` prints a mismatch of the two secrets and
   returns 0, and compares nothing when one of them cannot be read.
5. `IdIsHex`: `parseId` reads `--id 10` as decimal 10 and `--id EF000001` as 0;
   the usage text asks for `<hex>` and does not mention the prefix.

## 4. Proofs

Every property of the passing runs is proved for all values of the constants,
except the two `EveryRunEnds`.

| Theorem | States |
|---|---|
| `CriAlwaysFits`, `CsrAlwaysFits` | for every public key and signature that fit their own buffers, CRI, CSR and PEM text of both C builders fit theirs |
| `Typing`, `NoLeaks`, `OpenObjectsUsed`, `SelfSigned` | `Spec => []Inv` of `DemoSE051`, for `TypeOK`, `NothingLeaks`, `UsesOpenObjects`, `CsrIsSelfSigned` |
| `KeysInOrder`, `FaultlessPasses`, `PassedDelivers` | `Spec => []Inv` of `DemoSE051`, for `KeysReplacedInOrder`, `FaultlessRunPasses`, `PassedRunDelivers` |
| `ProvisioningImplemented` | `Spec => ImplementsProvisioning` of `DemoSE051`, a refinement |
| `WriterTyping`, `OutputIsWritten`, `NamesAreReleased`, `WriterIsSafe`, `WholeCsrDelivered` | `Spec => []Inv` of `CsrWriter`, for `TypeOK`, `OutputInBuffer`, `NamesReleased`, `SignedIsDelivered`, `DeliversWholeCsr` |
| `AppTyping`, `Released`, `KeysKept`, `FileKept` | `Spec => []Inv` of `CryptoApp`, for `TypeOK`, `ReleasedAtExit`, `OnlyGenkeyChangesKeys`, `FailureKeepsFile` |
| `Verdict`, `Delivery`, `DefaultsWork` | `Spec => []Inv` of `CryptoApp`, for `VerdictIsSound`, `SuccessDelivers`, `DefaultSizesWork` |
| `ServiceImplemented` | `Spec => ImplementsService` of `CryptoApp`, a refinement |
| `ParserTyping`, `OptionsRead`, `PositionalsRead`, `NoKeyWithoutId`, `DocumentedLines`, `IdentifierExact` | `Spec => []Inv` of `OptionParser`, for `TypeOK`, `OptionsAsWritten`, `PositionalsAsWritten`, `NoIdNoKey`, `DocumentedLinesWork`, `IdIsExact` |
| `SuiteImplemented` | `Spec => ImplementsSuite` of `Pkcs11Demo`, a refinement |
| `SuiteTyping`, `ActiveIsReported`, `OutputsConfirmed`, `NothingIsLeft` | `Spec => []Inv` of `Pkcs11Demo`, for `TypeOK`, `ActiveMeansFailed`, `OutputsAreConfirmed`, `LeavesNothing` |
| `LiveObjectsUsed`, `FreshIdentifiers`, `CleanPasses`, `LeftoversReported` | `Spec => []Inv` of `Pkcs11Demo`, for `UsesLiveObjects`, `IdsAreFresh`, `CleanRunPasses`, `LeftoversShow` |

The assumptions are those of the modules: the bounds `MaxRuns`, `MaxFaults`
and `MaxKeys` are natural numbers, `NoKey` is neither a key nor a number, the
key sizes are among those the options name, the user's identifiers are not the
two of `ecdh`'s transient objects, the secure element returns no more
than the buffer it is given holds, a command line is a sequence of tokens, an
identifier is no wider than an `unsigned long`, and leftover objects have
identifiers of the suite.

### The C demo

*NoLeaks.*  The property speaks of a run between two functions and at its end;
it is not inductive.  `ResourceInv` says that in the middle of stage `s` the
open locals are among those that `Cleanup[s]` frees, and that the buffers of
keys and signatures hold no more than their size.  Each script initialises only
locals its cleanup frees (`ScriptWellFormed`), and `CsrAlwaysFits` excludes
`ReturnAtOnce`, the one exit that bypasses the cleanup.

*OpenObjectsUsed.*  `HeldInv` says exactly which locals are open: entry `k` of
the table `OpenBefore[s]` for call `k` of stage `s`.  That the tables follow the
calls, and that every call finds open what it uses, is a fact about the scripts.

*SelfSigned.*  `BufferInv`: once a function has exported or signed, its buffers
belong to the key in the slot, because no function that has done so replaces a
key afterwards.

*KeysInOrder.*  The property is inductive relative to `TypeOK`: the keys that a
run may have erased or replaced are a function of its position, and completing
a call adds its own key to them and leaves the others.

*FaultlessPasses, PassedDelivers.*  `FaultlessInv` joins recovery to the
position: behind its creation a key is of this run, between erasure and
creation its slot is empty, so nothing that is left over can refuse a call.
`FileInv`: behind its write call a file holds this run's key and signature,
unless a failure went unnoticed; a run passes only at the end of the last
function.

*ProvisioningImplemented.*  A call of the demo erases or creates a key in its
turn (`TurnOfCall`) and no other step touches a slot; a run that passes stands
behind all creations.  `ResourceInv` is needed to exclude `ReturnAtOnce`.

### The CSR builder

`PointerInv` says that pointer, counter and the bytes not yet counted add up to
the size of the buffer, and that the latter are those of the statement just
executed; nothing is left to count between two statements (`AllCounted`), which
is `OutputInBuffer`.  `WriterInv` states for each statement how many bytes may
have been written and whether the list is allocated.  A CRI that was hashed has at
most 4096 bytes, so the request has at most 4096 plus the signature and the
headers, which 8192 holds; and the base64 text is shorter than twice the DER.
For `DeliversWholeCsr` a second invariant (`ExactInv`) gives the exact number of
bytes at each statement as a sum of `Tlv` sizes.

### The command line program

`Shapes`, `Orders`, `TakenSteps` and `KeyOpensFirst` read off the scripts of all
commands what the theorems need of them: where `context`, `operate`, `conclude`
and `emit` may stand and what comes before them.  Typing needs `SerialLeft`: a
serial number remains until `generate`, at step 4 of `genkey`, has taken it.
`ReleaseInv`: a context is open only between `context` and `conclude`, or after
the exception of `AllocateOut`.  `FileInv`: the
file is what it was at the start until the last step, which is where `emit`
stands.  `VerdictInv`: `verify` leaves through `conclude` or with exit code 1,
and there the status says whether the file holds a signature of the key; neither
can change in between.  For `OnlyGenkeyChangesKeys`, `KeysInv` adds that
before `generate` a slot that has changed is empty and `--force` was given.

*Delivery.*  `DeliveryInv`: what is about to be emitted is of the key now under
the identifier, from the moment it is made, and so is the file after the last
step.

*DefaultsWork.*  `SmoothInv` says that a command whose key and input are there
(`Usual`) is still on its way or has returned 0, unless a call has failed; each
step needs its own reason why it is not refused.  For a key of the default size
the reasons are that `bits_` has the value 2048 it would have been set to, and
that `curve_` is P-256 (`UsualKey`).

*ServiceImplemented.*  `ServiceInv` is what a command has found out at each of
its steps: the key exists once it was opened, for `genkey` it is the one just
made, the peer is a public key, and when `emit` is reached the output is what
the service may deliver.  Most steps are stutters or refusals (`StepUnseen`);
`VerdictInv` gives the answer of `verify`.

### The option parser

The loop invariant `WrittenInv` relates `opt` to the part of
the line before `i`: its domain, and for each option the last value given there.
`PlainInv` counts the plain words before `i`; counting needs that a set of
positions grows by one element when a word is taken and by none otherwise.

*NoKeyWithoutId.*  `GivenInv` holds of malformed lines too: the options in front
of `i`, back to the last token that is none, are even in number (`EvenRun`), and
`--id` in `opt` has what follows the last one that is no value.
`EvenRunFacts`: after an even run a token is not taken, after one more option it
is; a run has one beginning only.

*DocumentedLines.*  `LastInv` gives each option in `opt` a last position on the
line, `ArgsInv` says that what `main` hands over comes from the positionals and
from `opt`, and `FirstWords` that group and command are the first two words.

*IdentifierExact.*  The value of `strtoul` is a recursive function of the digits.
The induction theorems of the library take an operator, which the provers cannot
instantiate; `SetInduction` and `InductionUpTo` state induction for a set and are
proved from the well-foundedness of the natural numbers.  With them a number of
at most `top` is read digit by digit as its own leading part (`ValueIs`), hence
exactly (`DigitsRead`); `FormsRead` tells the three bases apart; and what fits an
identifier survives the conversion to 32 bits.

### The PKCS#11 suite

*SuiteImplemented.*  `SuiteInv` ties the exit code to the set of failed
demos: on the way to the session it is 0 and nothing has failed; between the
demos it is 1 exactly when one has failed; from `finalize` on the run has given
up before its first demo or has run all ten.

*`Pkcs11DemoProofs`.*  `ScriptsFit` reads off the ten scripts what the other
proofs need of them: what is begun is finished by the next call and what is
made is confirmed by the next ones, a failure in between makes the demo return
1, the last round only destroys, and the handle that a call makes has its
DESTROY where no jump from there on misses it.  `ActiveInv` and `PendingInv`
say that an operation or an output is open only because its end is the next
call or a failure is going to be reported.  `DebtInv` says that every object on
the token was there before, was lost to a failed call, or has a handle that is
owed a DESTROY (`Owed`); `DebtKept` shows that no jump forfeits it.  `RoundEnd`,
where `[SKIP]` and `[FAIL]` jump to, exists by well-founded induction.

*`Pkcs11PlanProofs`.*  `ScriptsPlanned` says which handles each round takes over
and passes on (`Kept`) and which a call may therefore count on (`CountsOn`);
`LiveInv`: those are valid and their objects exist, since an object is destroyed
only where nothing counts on it any more.  `Born` is the one place where the
suite makes the object of an identifier, and `BirthInv` says that whatever was
made or lost in this run lies `Behind` the suite, so an identifier is fresh when
its place is reached.  `CalmInv` keeps apart the runs without an external
failure.  In such a run on an empty token no demo fails and what a comparison
needs has been made (`CleanInv`); with leftovers, and as long as the exit code is
0, an object behind whose place the suite stands has a handle or belongs to a
demo that says `[SKIP]` (`LeftInv`).

### Only model-checked

Both `EveryRunEnds`: liveness under fairness and `ENABLED` are out of the
prover's reach.  The five violations are TLC's counterexamples.  No module
declares a RECURSIVE operator.

## 5. Not modelled

* Bytes: digests, signatures and keys are abstract values, messages do not occur.
* In `Pkcs11Demo`: templates, mechanisms and lengths; what is printed; the
  slots and objects that `run_module_info` lists.
* In `OptionParser`: how a file is opened or `--curve` compared (`CryptoApp`).
* Log output, except where a property says what a message claims.
* Concurrent use of one secure element by several processes.
* In `CryptoApp`: the transient objects of `ecdh`.  What the secure element does
  with one on an occupied identifier is not to be seen in this repository, hence
  `TransientAssumption`.  Also failures of standard output, allocations of a fixed
  size that fail, and SSS objects, which the wrappers never free.
* In `CsrWriter`: what is in the list that a refused subject leaves behind.

## 6. Plan

1. Composition: `CsrWriter` as the implementation of the step `build_cri` and
   what follows it in `CryptoApp`; `OptionParser` in front of it.
2. `ecdh` on an identifier of its own transient objects, once it is known how
   the secure element treats them.

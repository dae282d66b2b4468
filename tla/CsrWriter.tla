------------------------------- MODULE CsrWriter -------------------------------
(***************************************************************************)
(* makeCsrImpl of cpp_app/csr.cpp: buildCri writes the request information *)
(* backwards into a buffer of 4096 bytes, the secure element signs its     *)
(* hash, assembleCsr writes the request into a buffer of 8192 bytes and    *)
(* toPem encodes it.  A write moves the pointer c first and counts its     *)
(* bytes in len afterwards; what is handed on is c .. c + len.  Any call   *)
(* may throw; the list of names that mbedTLS allocates for the subject is  *)
(* not owned by an object and must be freed by hand on the way out.        *)
(***************************************************************************)
EXTENDS CsrEncoding, Sequences

CONSTANTS SpkiLens,      \* lengths of the exported public key
          NameLens,      \* lengths of the encoded subject
          SigLens        \* lengths of the signature

(* The public key has at most the bits_ / 8 + 64 bytes of RSA-4096, the    *)
(* signature at most the bits_ / 8; the subject comes from the user.       *)
ASSUME WriterLensAssumption ==
    SpkiLens \subseteq 0 .. 576 /\ NameLens \subseteq Nat /\ SigLens \subseteq 0 .. 512

CriBuf == 4096
CsrBuf == 8192

VARIABLES
    input,     \* the lengths and the kind of key of this call
    at,        \* the statement to execute
    c,         \* bytes between the start of the buffer and the write pointer
    len,       \* bytes that the writer has counted
    half,      \* of a statement that writes: "write" moves c, then "count"
    r,         \* the bytes written and not counted yet
    names,     \* the subject list: "null", "allocated" or "freed"
    cri,       \* length of the request information handed on
    outcome    \* "running", "done" or "threw"

vars == << input, at, c, len, half, r, names, cri, outcome >>

Inputs == [spki : SpkiLens, name : NameLens, sig : SigLens, isEc : BOOLEAN]

(* buildCri, then makeCsrImpl, then assembleCsr and toPem. *)
Statements ==
    << "parse_dn", "attr_len", "attr_tag", "spki", "names", "version",
       "cri_len", "cri_tag", "sha256", "sign", "bitstring", "sig_alg", "cri",
       "csr_len", "csr_tag", "pem" >>

Statement == Statements[at]
CriWrites == {"attr_len", "attr_tag", "spki", "names", "version", "cri_len", "cri_tag"}
CsrWrites == {"bitstring", "sig_alg", "cri", "csr_len", "csr_tag"}

(* Plausible bug: explicit NULL parameters for EC as well. *)
SigAlgSize_WithNull(isEc) == IF isEc THEN 14 ELSE 15

(* writeSigAlgId: EC omits the parameters, RSA has an explicit NULL. *)
SigAlgSize(isEc) == IF isEc THEN 12 ELSE 15

(* The bytes that a statement writes in front of what is written. *)
Size(s) ==
    CASE s \in {"attr_len", "attr_tag", "cri_tag", "csr_tag"} -> 1
      [] s = "spki"      -> input.spki
      [] s = "names"     -> input.name
      [] s = "version"   -> VersionSize
      [] s \in {"cri_len", "csr_len"} -> LenSize(len)
      [] s = "bitstring" -> Tlv(input.sig + 1)
      [] s = "sig_alg"   -> SigAlgSize(input.isEc)
      [] s = "cri"       -> cri

(* Plausible bug: the list is freed only when the names were written. *)
Frees_UnlessNamesFail(s) == s = "spki"

(* The statements that free the subject list when they throw. *)
Frees(s) == s \in {"spki", "names"}

(* Plausible bug: the pointer is moved without a look at the buffer. *)
Room_Unchecked(n) == TRUE

(* There is room for n bytes in front of the write pointer. *)
Room(n) == n <= c

(* Plausible bug: the raw copies, which do not use CHK, are not counted. *)
Counted_CallsOnly(s, n) == IF s \in {"spki", "cri"} THEN 0 ELSE n

(* What len grows by after a statement that wrote n bytes: CHK adds what   *)
(* the call returned, a raw copy is followed by an addition of its own.    *)
Counted(s, n) == n

-----------------------------------------------------------------------------
Step == at' = at + 1 /\ UNCHANGED outcome
Throw == outcome' = "threw" /\ UNCHANGED at

(* mbedtls_x509_string_to_names.  A call that fails may have stored the    *)
(* components in front of the one it rejects; the throw frees nothing.     *)
ParseSubject ==
    /\ outcome = "running" /\ Statement = "parse_dn"
    /\ \/ names' = "allocated" /\ Step
       \/ names' \in {names, "allocated"} /\ Throw
    /\ UNCHANGED << input, c, len, half, r, cri >>

(* A write in front of the others, refused when the buffer is too small;   *)
(* x509_write_names is the last use of the list, whatever it returns.      *)
Write ==
    /\ outcome = "running" /\ half = "write"
    /\ Statement \in CriWrites \cup CsrWrites
    /\ LET n == Size(Statement)
       IN  IF Room(n)
           THEN /\ c' = c - n
                /\ half' = "count" /\ r' = n
                /\ names' = IF Statement = "names" THEN "freed" ELSE names
                /\ UNCHANGED << at, outcome >>
           ELSE /\ names' = IF Frees(Statement) THEN "freed" ELSE names
                /\ Throw
                /\ UNCHANGED << c, half, r >>
    /\ UNCHANGED << input, len, cri >>

(* The bytes of the last write are added to those returned. *)
Count ==
    /\ outcome = "running" /\ half = "count"
    /\ len' = len + Counted(Statement, r)
    /\ half' = "write" /\ r' = 0
    /\ Step
    /\ UNCHANGED << input, c, names, cri >>

(* buildCri returns the bytes from the pointer on: hash them. *)
HashCri ==
    /\ outcome = "running" /\ Statement = "sha256"
    /\ cri' = len
    /\ Step \/ Throw
    /\ UNCHANGED << input, c, len, half, r, names >>

(* The signature of the secure element; assembleCsr starts on its buffer. *)
SignCri ==
    /\ outcome = "running" /\ Statement = "sign"
    /\ \/ c' = CsrBuf /\ len' = 0 /\ Step
       \/ Throw /\ UNCHANGED << c, len >>
    /\ UNCHANGED << input, half, r, names, cri >>

(* Plausible bug: as many bytes for the text as for the DER. *)
PemBuffer_AsDer(n) == n + 256

(* The buffer that toPem allocates for n bytes of DER. *)
PemBuffer(n) == n * 2 + 256

EncodePem ==
    /\ outcome = "running" /\ Statement = "pem"
    /\ outcome' = IF PemSize(len) <= PemBuffer(len) THEN "done" ELSE "threw"
    /\ UNCHANGED << input, at, c, len, half, r, names, cri >>

Init ==
    /\ input \in Inputs
    /\ at = 1 /\ c = CriBuf /\ len = 0 /\ half = "write" /\ r = 0
    /\ names = "null" /\ cri = 0
    /\ outcome = "running"

Next == ParseSubject \/ Write \/ Count \/ HashCri \/ SignCri \/ EncodePem

Spec == Init /\ [][Next]_vars

-----------------------------------------------------------------------------
(* The statements after "sign" are reached once the secure element signed. *)
Signed == at > 10

(* Every variable stays in its range. *)
TypeOK ==
    /\ input \in Inputs
    /\ at \in 1 .. Len(Statements)
    /\ c \in 0 .. CsrBuf
    /\ len \in Nat /\ cri \in Nat
    /\ half \in {"write", "count"} /\ r \in Nat
    /\ names \in {"null", "allocated", "freed"}
    /\ outcome \in {"running", "done", "threw"}

Buffer == IF Signed THEN CsrBuf ELSE CriBuf

(* When the bytes c .. c + len are handed on, to the hash or to the PEM    *)
(* encoding, they are all those written and end with the buffer: after     *)
(* every write, whatever its branch, pointer and counter agree again.      *)
OutputInBuffer ==
    Statement \in {"sha256", "pem"} => c + len = Buffer

(* A subject list that was built is released on every way out, exceptions  *)
(* included: what is left is left by a subject that could not be parsed.   *)
NamesReleased ==
    outcome # "running" /\ names = "allocated" => Statement = "parse_dn"

(* Once the secure element has signed, the request can be delivered:       *)
(* whatever the user's subject, no buffer is found too small after the     *)
(* signature was made.                                                     *)
SignedIsDelivered == Signed => outcome # "threw"

(* What is delivered has the size of the DER structure it stands for; only *)
(* a request whose information fits its buffer is signed, and a write      *)
(* refuses none that fits.                                                 *)
DerSize == CsrSize(CriSize(input.spki, input.name),
                   IF input.isEc THEN EcCsr.alg ELSE RsaCsr.alg, input.sig)

CriFitsBuffer == CriSize(input.spki, input.name) <= CriBuf

DeliversWholeCsr ==
    /\ outcome = "done" => len = DerSize
    /\ Signed => CriFitsBuffer
    /\ (outcome = "threw" /\ Statement \in CriWrites \cup CsrWrites \cup {"pem"})
          => ~CriFitsBuffer

=============================================================================

---------------------------- MODULE CsrWriterProofs ----------------------------
(***************************************************************************)
(* For a subject of any length: makeCsrImpl never writes in front of its   *)
(* buffers, returns the bytes it has written, frees the subject list that  *)
(* it has built, and cannot run out of space once the secure element has   *)
(* signed.                                                                 *)
(***************************************************************************)
EXTENDS CsrWriter, CsrEncodingProofs

(* The bytes written lie between pointer and end of the buffer; those of   *)
(* the last write may not be counted yet.                                  *)
PointerInv ==
    /\ c + len + r = Buffer
    /\ half = "count" => outcome = "running" /\ r = Size(Statement)
    /\ half = "count" => at \in (2 .. 8) \cup (11 .. 15)
    /\ half = "write" => r = 0

(* The subject list from its allocation to its last use. *)
NamesInv ==
    /\ at = 1 /\ outcome = "running" => names = "null"
    /\ at > 1 => names # "null"
    /\ (outcome = "running" /\ at \in 2 .. 5 /\ ~(at = 5 /\ half = "count")) =>
          names = "allocated"
    /\ at = 5 /\ half = "count" => names = "freed"
    /\ at > 5 => names # "allocated"

(* How much is written before each statement: next to nothing before the   *)
(* writes that would throw without freeing the list, and so little after   *)
(* the signature that the second buffer cannot be too small.               *)
LenInv ==
    /\ cri <= CriBuf
    /\ at \in {1, 2} => len = 0
    /\ at = 3 => len = 1
    /\ at = 4 => len = 2
    /\ at = 11 => len = 0
    /\ at = 12 => len <= 517
    /\ at = 13 => len <= 532
    /\ at = 14 => len <= 532 + cri
    /\ at = 15 => len <= 535 + cri
    /\ at = 16 => len <= 536 + cri

WriterInv ==
    /\ TypeOK
    /\ PointerInv
    /\ NamesReleased
    /\ SignedIsDelivered
    /\ NamesInv
    /\ LenInv

LEMMA StatementsAre ==
    /\ Len(Statements) = 16
    /\ Statements[1] = "parse_dn" /\ Statements[2] = "attr_len"
    /\ Statements[3] = "attr_tag" /\ Statements[4] = "spki"
    /\ Statements[5] = "names" /\ Statements[6] = "version"
    /\ Statements[7] = "cri_len" /\ Statements[8] = "cri_tag"
    /\ Statements[9] = "sha256" /\ Statements[10] = "sign"
    /\ Statements[11] = "bitstring" /\ Statements[12] = "sig_alg"
    /\ Statements[13] = "cri" /\ Statements[14] = "csr_len"
    /\ Statements[15] = "csr_tag" /\ Statements[16] = "pem"
BY DEF Statements

LEMMA StatementCount == Len(Statements) = 16
BY StatementsAre

(* The PEM buffer of toPem holds the text of every DER. *)
LEMMA PemBufferSuffices ==
    ASSUME NEW n \in Nat
    PROVE  PemSize(n) <= PemBuffer(n)
BY PemBound DEF PemBuffer

LEMMA InputTyped ==
    ASSUME input \in Inputs
    PROVE  input.spki \in 0 .. 576 /\ input.name \in Nat /\ input.sig \in 0 .. 512
<1>1. input.spki \in SpkiLens /\ input.name \in NameLens /\ input.sig \in SigLens
  BY DEF Inputs
<1>2. /\ \A n \in SpkiLens : n \in 0 .. 576
      /\ \A n \in NameLens : n \in Nat
      /\ \A n \in SigLens  : n \in 0 .. 512
  BY WriterLensAssumption
<1> QED
  BY <1>1, <1>2

(* The statements that write a fixed or a bounded number of bytes. *)
LEMMA SizeBounds ==
    ASSUME WriterInv
    PROVE  /\ Statement \in {"attr_len", "attr_tag", "cri_tag", "csr_tag"} =>
                  Size(Statement) = 1
           /\ Statement = "spki" => Size(Statement) \in 0 .. 576
           /\ Statement = "names" => Size(Statement) \in Nat
           /\ Statement = "version" => Size(Statement) = 3
           /\ Statement \in {"cri_len", "csr_len"} => Size(Statement) \in 1 .. 4
           /\ Statement = "csr_len" /\ len < 65536 => Size(Statement) <= 3
           /\ Statement = "bitstring" => Size(Statement) \in 0 .. 517
           /\ Statement = "sig_alg" => Size(Statement) \in 0 .. 15
           /\ Statement = "cri" => Size(Statement) = cri
<1>1. input.spki \in 0 .. 576 /\ input.name \in Nat /\ input.sig \in 0 .. 512
  BY InputTyped DEF WriterInv, TypeOK
<1>2. LenSize(len) \in 1 .. 4 /\ (len < 65536 => LenSize(len) <= 3)
  BY DEF LenSize, WriterInv, TypeOK
<1>3. Tlv(input.sig + 1) \in 0 .. 517
  BY <1>1 DEF Tlv, LenSize
<1> QED
  BY <1>1, <1>2, <1>3 DEF Size, SigAlgSize, VersionSize

(* What the statements that write something need of the invariant. *)
LEMMA WriterFacts ==
    ASSUME WriterInv
    PROVE  /\ c \in 0 .. 8192 /\ len \in Nat /\ r \in Nat /\ cri \in Nat
           /\ at \in 1 .. 16 /\ half \in {"write", "count"} /\ cri <= 4096
           /\ Statement = Statements[at]
           /\ at <= 10 => c + len + r = 4096
           /\ at > 10 => c + len + r = 8192
           /\ Signed <=> at > 10
<1>1. at \in 1 .. 16 /\ c \in 0 .. 8192 /\ len \in Nat /\ r \in Nat /\ cri \in Nat
  BY StatementCount DEF WriterInv, TypeOK, CsrBuf
<1> QED
  BY <1>1 DEF WriterInv, TypeOK, PointerInv, LenInv, Buffer, Signed, CriBuf, CsrBuf, Statement

LEMMA PartOfWhole ==
    ASSUME NEW a \in Nat, NEW b \in Nat, NEW w \in Nat, a + b = w
    PROVE  b <= w
OBVIOUS

(* Between two writes everything that was written is counted.              *)
LEMMA AllCounted ==
    ASSUME WriterInv, half = "write"
    PROVE  /\ r = 0
           /\ at <= 10 => c + len = 4096
           /\ at > 10 => c + len = 8192
<1>1. r = 0
  BY DEF WriterInv, PointerInv
<1>2. c \in 0 .. 8192 /\ len \in Nat
  BY WriterFacts
<1>3. c + len + r = c + len
  BY <1>1, <1>2
<1> QED
  BY <1>1, <1>3, WriterFacts

LEMMA WritingAt ==
    ASSUME WriterInv, Statement \in CriWrites \cup CsrWrites
    PROVE  at \in (2 .. 8) \cup (11 .. 15)
BY WriterFacts, StatementsAre DEF CriWrites, CsrWrites

(* The bytes that each write takes, by the place of its statement. *)
LEMMA SizeAt ==
    ASSUME WriterInv, at \in (2 .. 8) \cup (11 .. 15)
    PROVE  /\ Size(Statement) \in Nat
           /\ at \in {2, 3, 8, 15} => Size(Statement) = 1
           /\ at = 11 => Size(Statement) <= 517
           /\ at = 12 => Size(Statement) <= 15
           /\ at = 13 => Size(Statement) = cri
           /\ at = 14 /\ len < 65536 => Size(Statement) <= 3
BY WriterFacts, StatementsAre, SizeBounds

(* A write takes its bytes from the room in front of the pointer.  The     *)
(* bounds on the lengths leave that room for every write after the         *)
(* signature, and for the writes that would not free the list.             *)
LEMMA WriteKeepsInv ==
    ASSUME WriterInv, Write
    PROVE  WriterInv'
<1> DEFINE n == Size(Statement)
<1>1. /\ outcome = "running" /\ half = "write"
      /\ input' = input /\ cri' = cri /\ len' = len
      /\ at' = at /\ Statement' = Statement
  BY WriterFacts DEF Write, Throw, Statement
<1>2. at \in (2 .. 8) \cup (11 .. 15)
  BY WritingAt DEF Write
<1>3. n \in Nat /\ Size(Statement)' = n
  <2>1. n \in Nat
    BY <1>2, SizeAt
  <2>2. Size(Statement)' = n
    BY <1>1 DEF Size
  <2> QED
    BY <2>1, <2>2
<1>4. IF n <= c
      THEN /\ c' = c - n /\ half' = "count" /\ r' = n /\ outcome' = outcome
           /\ names' = IF Statement = "names" THEN "freed" ELSE names
      ELSE /\ c' = c /\ half' = "write" /\ r' = r /\ outcome' = "threw"
           /\ names' = IF Frees(Statement) THEN "freed" ELSE names
  BY <1>1 DEF Write, Room, Throw
<1>5. /\ c \in 0 .. 8192 /\ len \in Nat /\ r = 0 /\ cri \in Nat /\ cri <= 4096
      /\ at <= 10 => c + len = 4096
      /\ at > 10 => c + len = 8192
  <2>1. r = 0 /\ (at <= 10 => c + len = 4096) /\ (at > 10 => c + len = 8192)
    BY <1>1, AllCounted
  <2>2. c \in 0 .. 8192 /\ len \in Nat /\ cri \in Nat /\ cri <= 4096
    BY WriterFacts
  <2> QED
    BY <2>1, <2>2
<1>6. /\ Statement = "names" <=> at = 5
      /\ Frees(Statement) <=> at \in {4, 5}
      /\ Statement = "parse_dn" <=> at = 1
  BY <1>2, WriterFacts, StatementsAre DEF Frees
<1>7. at \in (2 .. 3) \cup (11 .. 15) => n <= c
  BY <1>2, <1>3, <1>5, SizeAt DEF WriterInv, LenInv
<1>8. Buffer' = Buffer /\ Signed' = Signed
  BY <1>1 DEF Buffer, Signed
<1> HIDE DEF n
<1>9. TypeOK'
  <2>1. c' \in 0 .. 8192 /\ r' \in Nat /\ half' \in {"write", "count"}
    <3>1. CASE n <= c
      <4>1. c' = c - n /\ r' = n /\ half' = "count"
        BY <1>4, <3>1
      <4> QED
        <5>1. c - n \in 0 .. 8192
          BY <1>3, <1>5, <3>1
        <5> QED
          BY <1>3, <4>1, <5>1
    <3>2. CASE ~(n <= c)
      <4>1. c' = c /\ r' = r /\ half' = "write"
        BY <1>4, <3>2
      <4> QED
        BY <1>5, <4>1
    <3> QED
      BY <3>1, <3>2
  <2>2. outcome' \in {"running", "threw"} /\ names' \in {names, "freed"}
    BY <1>1, <1>4
  <2> QED
    BY <1>1, <2>1, <2>2 DEF WriterInv, TypeOK, CsrBuf
<1>10. PointerInv'
  <2>1. CASE n <= c
    BY <1>1, <1>2, <1>3, <1>4, <1>5, <1>8, <2>1 DEF WriterInv, PointerInv, n
  <2>2. CASE ~(n <= c)
    BY <1>1, <1>2, <1>3, <1>4, <1>5, <1>8, <2>2 DEF WriterInv, PointerInv
  <2> QED
    BY <2>1, <2>2
<1>11. NamesReleased' /\ SignedIsDelivered' /\ NamesInv'
  BY <1>1, <1>2, <1>4, <1>6, <1>7, WriterFacts
     DEF WriterInv, NamesReleased, SignedIsDelivered, Signed, NamesInv
<1>12. LenInv'
  BY <1>1 DEF WriterInv, LenInv
<1> QED
  BY <1>9, <1>10, <1>11, <1>12 DEF WriterInv

(* Counting the bytes of a write gives the length before the next one. *)
LEMMA CountKeepsInv ==
    ASSUME WriterInv, Count
    PROVE  WriterInv'
<1>1. /\ outcome = "running" /\ half = "count"
      /\ r = Size(Statement) /\ at \in (2 .. 8) \cup (11 .. 15)
      /\ len' = len + r /\ half' = "write" /\ r' = 0 /\ at' = at + 1
      /\ UNCHANGED << input, c, names, cri, outcome >>
  BY DEF Count, Counted, Step, WriterInv, PointerInv
<1>2. /\ c \in 0 .. 8192 /\ len \in Nat /\ r \in Nat /\ cri \in Nat
      /\ cri <= 4096 /\ Buffer' = Buffer /\ Signed' = Signed
  BY <1>1, WriterFacts DEF Buffer, Signed
<1>3. TypeOK'
  BY <1>1, <1>2, StatementCount DEF WriterInv, TypeOK
<1>4. PointerInv'
  BY <1>1, <1>2 DEF WriterInv, PointerInv
<1>5. NamesReleased' /\ SignedIsDelivered' /\ NamesInv'
  BY <1>1, <1>2 DEF WriterInv, NamesReleased, SignedIsDelivered, NamesInv
<1>6. LenInv'
  <2>1. at < 9 => len + r <= 4096
    <3>1. c \in 0 .. 8192 /\ len \in Nat /\ r \in Nat
      BY WriterFacts
    <3>2. at < 9 => c + (len + r) = 4096
      BY <1>1, <3>1, WriterFacts
    <3>3. c \in Nat /\ len + r \in Nat
      BY <3>1
    <3> QED
      BY <3>2, <3>3, PartOfWhole
  <2>2. /\ at = 2 => r = 1
        /\ at = 3 => r = 1
        /\ at = 11 => r <= 517
        /\ at = 12 => r <= 15
        /\ at = 13 => r = cri
        /\ at = 14 => r <= 3
        /\ at = 15 => r = 1
    BY <1>1, <1>2, SizeAt DEF WriterInv, LenInv
  <2> QED
    BY <1>1, <1>2, <2>1, <2>2 DEF WriterInv, LenInv, CriBuf
<1> QED
  BY <1>3, <1>4, <1>5, <1>6 DEF WriterInv

(* The invariant holds for subjects of any length.                         *)
THEOREM WriterInvariant == Spec => []WriterInv
<1>1. Init => WriterInv
  BY StatementsAre
     DEF Init, WriterInv, TypeOK, PointerInv, Buffer, Signed, NamesReleased,
         SignedIsDelivered, NamesInv, LenInv, CriBuf, CsrBuf
<1>2. ASSUME WriterInv, [Next]_vars
      PROVE  WriterInv'
  <2> USE WriterInv
  <2>1. CASE ParseSubject
    <3>1. at = 1 /\ names = "null"
      BY <2>1, WriterFacts, StatementsAre DEF ParseSubject, WriterInv, NamesInv
    <3>2. /\ UNCHANGED << input, c, len, half, r, cri >>
          /\ \/ at' = 2 /\ names' = "allocated" /\ outcome' = "running"
             \/ at' = 1 /\ names' \in {"null", "allocated"} /\ outcome' = "threw"
      BY <2>1, <3>1 DEF ParseSubject, Step, Throw
    <3>3. TypeOK'
      BY <3>2, StatementCount DEF WriterInv, TypeOK
    <3>4. PointerInv' /\ LenInv'
      BY <3>1, <3>2, WriterFacts DEF WriterInv, PointerInv, LenInv, Buffer, Signed
    <3>5. NamesReleased' /\ SignedIsDelivered' /\ NamesInv'
      BY <3>1, <3>2, StatementsAre, WriterFacts
         DEF WriterInv, NamesReleased, SignedIsDelivered, Signed, NamesInv,
             Statement, PointerInv
    <3> QED
      BY <3>3, <3>4, <3>5 DEF WriterInv
  <2>2. CASE Write
    BY <2>2, WriteKeepsInv
  <2>3. CASE Count
    BY <2>3, CountKeepsInv
  <2>4. CASE HashCri
    <3>1. at = 9 /\ half = "write" /\ r = 0 /\ len <= 4096
      <4>1. at = 9
        BY <2>4, WriterFacts, StatementsAre DEF HashCri
      <4>2. half = "write" /\ r = 0
        BY <4>1, WriterFacts DEF WriterInv, PointerInv
      <4>3. c \in 0 .. 8192 /\ len \in Nat /\ c + len = 4096
        BY <4>1, <4>2, WriterFacts, AllCounted
      <4>4. len <= 4096
        <5>1. c \in Nat
          BY <4>3
        <5> QED
          BY <4>3, <5>1, PartOfWhole
      <4> QED
        BY <4>1, <4>2, <4>4
    <3>2. /\ UNCHANGED << input, c, len, half, r, names >>
          /\ cri' = len
          /\ \/ at' = 10 /\ outcome' = "running"
             \/ at' = 9 /\ outcome' = "threw"
      BY <2>4, <3>1 DEF HashCri, Step, Throw
    <3>3. TypeOK'
      BY <3>2, StatementCount DEF WriterInv, TypeOK
    <3>4. PointerInv' /\ LenInv'
      BY <3>1, <3>2, WriterFacts DEF WriterInv, PointerInv, LenInv, Buffer, Signed, CriBuf
    <3>5. NamesReleased' /\ SignedIsDelivered' /\ NamesInv'
      BY <3>1, <3>2 DEF WriterInv, NamesReleased, SignedIsDelivered, Signed, NamesInv
    <3> QED
      BY <3>3, <3>4, <3>5 DEF WriterInv
  <2>5. CASE SignCri
    <3>1. at = 10 /\ half = "write" /\ r = 0
      BY <2>5, WriterFacts, StatementsAre DEF SignCri, WriterInv, PointerInv
    <3>2. /\ UNCHANGED << input, half, r, names, cri >>
          /\ \/ at' = 11 /\ outcome' = "running" /\ c' = 8192 /\ len' = 0
             \/ at' = 10 /\ outcome' = "threw" /\ c' = c /\ len' = len
      BY <2>5, <3>1 DEF SignCri, Step, Throw, CsrBuf
    <3>3. TypeOK'
      <4>1. c' \in 0 .. CsrBuf /\ len' \in Nat
        BY <3>2, WriterFacts DEF CsrBuf
      <4> QED
        BY <3>2, <4>1, StatementCount DEF WriterInv, TypeOK
    <3>4. PointerInv' /\ LenInv'
      BY <3>1, <3>2, WriterFacts
         DEF WriterInv, PointerInv, LenInv, Buffer, Signed, CsrBuf
    <3>5. NamesReleased' /\ SignedIsDelivered' /\ NamesInv'
      BY <3>1, <3>2 DEF WriterInv, NamesReleased, SignedIsDelivered, Signed, NamesInv
    <3> QED
      BY <3>3, <3>4, <3>5 DEF WriterInv
  <2>6. CASE EncodePem
    <3>1. at = 16 /\ half = "write"
      BY <2>6, WriterFacts, StatementsAre DEF EncodePem, WriterInv, PointerInv
    <3>2. PemSize(len) <= PemBuffer(len)
      BY PemBufferSuffices DEF WriterInv, TypeOK
    <3>3. /\ UNCHANGED << input, at, c, len, half, r, names, cri >>
          /\ outcome' = "done"
      BY <2>6, <3>2 DEF EncodePem
    <3>4. TypeOK'
      BY <3>3 DEF WriterInv, TypeOK
    <3>5. PointerInv' /\ LenInv'
      BY <3>1, <3>3 DEF WriterInv, PointerInv, LenInv, Buffer, Signed
    <3>6. NamesReleased' /\ SignedIsDelivered' /\ NamesInv'
      BY <3>1, <3>3 DEF WriterInv, NamesReleased, SignedIsDelivered, Signed, NamesInv
    <3> QED
      BY <3>4, <3>5, <3>6 DEF WriterInv
  <2>7. CASE UNCHANGED vars
    <3>1. UNCHANGED << input, at, c, len, half, r, names, cri, outcome >>
      BY <2>7 DEF vars
    <3>2. TypeOK' /\ NamesReleased' /\ SignedIsDelivered' /\ NamesInv' /\ LenInv'
      BY <3>1 DEF WriterInv, TypeOK, NamesReleased, SignedIsDelivered, Signed,
                  NamesInv, LenInv, Statement
    <3>3. Buffer' = Buffer /\ Size(Statement)' = Size(Statement)
      BY <3>1 DEF Buffer, Signed, Size, Statement
    <3>4. PointerInv'
      BY <3>1, <3>3 DEF WriterInv, PointerInv
    <3> QED
      BY <3>2, <3>4 DEF WriterInv
  <2> QED
    BY <1>2, <2>1, <2>2, <2>3, <2>4, <2>5, <2>6, <2>7 DEF Next
<1> QED
  BY <1>1, <1>2, PTL DEF Spec

(* Every variable stays in its range, the write pointer within the buffer. *)
THEOREM WriterTyping == Spec => []TypeOK
<1>1. WriterInv => TypeOK
  BY DEF WriterInv
<1> QED
  BY <1>1, WriterInvariant, PTL

(* For every subject, the bytes that are hashed and those that are encoded *)
(* are all the bytes written: none is handed on before it is counted.      *)
THEOREM OutputIsWritten == Spec => []OutputInBuffer
<1>1. WriterInv => OutputInBuffer
  <2> SUFFICES ASSUME WriterInv, Statement \in {"sha256", "pem"}
               PROVE  c + len = Buffer
    BY DEF OutputInBuffer
  <2>1. at \in {9, 16}
    BY WriterFacts, StatementsAre
  <2>2. half = "write"
    BY <2>1, WriterFacts DEF WriterInv, PointerInv
  <2> QED
    BY <2>1, <2>2, AllCounted DEF Buffer, Signed, CriBuf, CsrBuf
<1> QED
  BY <1>1, WriterInvariant, PTL

(* A subject list that was built is freed whatever throws, although no     *)
(* object owns it; only a subject that mbedTLS rejects may leave one.      *)
THEOREM NamesAreReleased == Spec => []NamesReleased
<1>1. WriterInv => NamesReleased
  BY DEF WriterInv
<1> QED
  BY <1>1, WriterInvariant, PTL

(* For every subject the user may give, a request signed by the secure     *)
(* element is delivered.                                                   *)
THEOREM WriterIsSafe == Spec => []SignedIsDelivered
<1>1. WriterInv => SignedIsDelivered
  BY DEF WriterInv
<1> QED
  BY <1>1, WriterInvariant, PTL

-----------------------------------------------------------------------------
(* The bytes written before each statement, exactly. *)
Body == AttributesSize + input.spki + input.name + VersionSize
BitString == Tlv(input.sig + 1)
Algorithm == SigAlgSize(input.isEc)

ExactInv ==
    /\ at = 5 => len = AttributesSize + input.spki
    /\ at = 6 => len = AttributesSize + input.spki + input.name
    /\ at = 7 => len = Body
    /\ at = 8 => len = Body + LenSize(Body)
    /\ at = 9 => len = Tlv(Body)
    /\ at > 9 => cri = Tlv(Body)
    /\ at = 12 => len = BitString
    /\ at = 13 => len = BitString + Algorithm
    /\ at = 14 => len = BitString + Algorithm + cri
    /\ at = 15 => len = BitString + Algorithm + cri + LenSize(BitString + Algorithm + cri)
    /\ at = 16 => len = Tlv(BitString + Algorithm + cri)
    /\ outcome = "done" => at = 16
    /\ outcome = "threw" /\ at \in 2 .. 8 => Tlv(Body) > CriBuf

LEMMA SizesTyped ==
    ASSUME WriterInv
    PROVE  BitString \in Nat /\ Algorithm \in Nat
<1>1. input \in Inputs
  BY DEF WriterInv, TypeOK
<1>2. input.sig + 1 \in Nat
  BY <1>1, InputTyped
<1> QED
  BY <1>2, TlvBounds DEF BitString, Algorithm, SigAlgSize

LEMMA BodyTyped ==
    ASSUME WriterInv
    PROVE  /\ input.spki \in Nat /\ input.name \in Nat /\ Body \in Nat
           /\ Body = 5 + input.spki + input.name
           /\ Tlv(Body) = 1 + LenSize(Body) + Body
           /\ LenSize(Body) \in 1 .. 4
<1>1. input.spki \in Nat /\ input.name \in Nat
  <2>1. input \in Inputs
    BY DEF WriterInv, TypeOK
  <2> QED
    BY <2>1, InputTyped
<1>2. Body \in Nat /\ Body = 5 + input.spki + input.name
  BY <1>1 DEF Body, AttributesSize, VersionSize
<1> QED
  BY <1>1, <1>2 DEF Tlv, LenSize

(* The bytes that each statement writes, in the terms of ExactInv. *)
LEMMA ExactSizes ==
    ASSUME WriterInv, ExactInv, at \in (2 .. 8) \cup (11 .. 15)
    PROVE  /\ at \in {2, 3, 8, 15} => Size(Statement) = 1
           /\ at = 4 => Size(Statement) = input.spki
           /\ at = 5 => Size(Statement) = input.name
           /\ at = 6 => Size(Statement) = 3
           /\ at \in {7, 14} => Size(Statement) = LenSize(len)
           /\ at = 11 => Size(Statement) = BitString
           /\ at = 12 => Size(Statement) = Algorithm
           /\ at = 13 => Size(Statement) = cri
BY WriterFacts, StatementsAre DEF Size, VersionSize, BitString, Algorithm

(* A write is refused only when the request information does not fit.      *)
LEMMA WriteKeepsExact ==
    ASSUME WriterInv, ExactInv, Write
    PROVE  ExactInv'
<1> DEFINE n == Size(Statement)
<1>1. /\ outcome = "running" /\ half = "write" /\ r = 0
      /\ input' = input /\ cri' = cri /\ len' = len /\ at' = at
      /\ at \in (2 .. 8) \cup (11 .. 15)
  BY WritingAt DEF Write, Throw, WriterInv, PointerInv
<1>2. Body' = Body /\ BitString' = BitString /\ Algorithm' = Algorithm
  BY <1>1 DEF Body, BitString, Algorithm
<1>3. outcome' = "running" \/ (outcome' = "threw" /\ ~(n <= c))
  BY <1>1 DEF Write, Room, Throw
<1>4. ASSUME ~(n <= c), at \in 2 .. 8
      PROVE  Tlv(Body) > CriBuf
  <2>1. c + len = 4096 /\ len \in Nat /\ c \in Nat
    <3>1. c \in 0 .. 8192 /\ len \in Nat
      BY WriterFacts
    <3>2. c + len = 4096
      BY <1>1, <1>4, AllCounted
    <3> HIDE DEF n
    <3>3. c \in Nat
      BY <3>1
    <3> QED
      BY <3>1, <3>2, <3>3
  <2>2. n \in Nat
    BY <1>1, SizeAt
  <2>3. len + n <= Tlv(Body)
    <3> HIDE DEF n
    <3>1. /\ at = 2 => len = 0
          /\ at = 3 => len = 1
          /\ at = 4 => len = 2
      BY DEF WriterInv, LenInv
    <3>2. /\ at \in {2, 3, 8} => n = 1
          /\ at = 4 => n = input.spki
          /\ at = 5 => n = input.name
          /\ at = 6 => n = 3
          /\ at = 7 => n = LenSize(len)
      BY <1>1, ExactSizes DEF n
    <3>3. /\ at = 5 => len = 2 + input.spki
          /\ at = 6 => len = 2 + input.spki + input.name
          /\ at = 7 => len = Body
          /\ at = 8 => len = Body + LenSize(Body)
      BY DEF ExactInv, AttributesSize
    <3> QED
      BY <1>4, <3>1, <3>2, <3>3, BodyTyped
  <2> HIDE DEF n
  <2>4. Tlv(Body) \in Nat
    BY BodyTyped
  <2> QED
    BY <1>4, <2>1, <2>2, <2>3, <2>4 DEF CriBuf
<1> HIDE DEF n
<1> QED
  BY <1>1, <1>2, <1>3, <1>4 DEF ExactInv

(* Counting gives the exact length before the next statement.              *)
LEMMA CountKeepsExact ==
    ASSUME WriterInv, ExactInv, Count
    PROVE  ExactInv'
<1>1. /\ outcome = "running" /\ outcome' = "running"
      /\ r = Size(Statement) /\ at \in (2 .. 8) \cup (11 .. 15)
      /\ len' = len + r /\ at' = at + 1
      /\ input' = input /\ cri' = cri
  BY DEF Count, Counted, Step, WriterInv, PointerInv
<1>2. /\ at \in {8, 15} => r = 1
      /\ at = 4 => r = input.spki
      /\ at = 5 => r = input.name
      /\ at = 6 => r = 3
      /\ at \in {7, 14} => r = LenSize(len)
      /\ at = 11 => r = BitString
      /\ at = 12 => r = Algorithm
      /\ at = 13 => r = cri
  BY <1>1, ExactSizes
<1>3. /\ len \in Nat /\ cri \in Nat /\ r \in Nat
      /\ at = 4 => len = 2
      /\ at = 11 => len = 0
  BY WriterFacts DEF WriterInv, LenInv
<1>4. /\ Body' = Body /\ BitString' = BitString /\ Algorithm' = Algorithm
      /\ Body \in Nat /\ BitString \in Nat /\ Algorithm \in Nat
  BY <1>1, SizesTyped, BodyTyped DEF Body, BitString, Algorithm
<1>5. /\ Tlv(BitString + Algorithm + cri)
            = 1 + LenSize(BitString + Algorithm + cri) + (BitString + Algorithm + cri)
      /\ LenSize(BitString + Algorithm + cri) \in Nat
  BY DEF Tlv, LenSize
<1>6. CASE at \in 2 .. 8
  BY <1>1, <1>2, <1>3, <1>4, <1>6, BodyTyped DEF ExactInv, AttributesSize
<1>7. CASE at \in 11 .. 15
  BY <1>1, <1>2, <1>3, <1>4, <1>5, <1>7 DEF ExactInv
<1> QED
  BY <1>1, <1>6, <1>7

(* The other statements write nothing. *)
LEMMA OthersKeepExact ==
    ASSUME WriterInv, ExactInv, ParseSubject \/ HashCri \/ SignCri \/ EncodePem
    PROVE  ExactInv'
<1>1. input' = input /\ at \in 1 .. 16
  BY StatementCount DEF ParseSubject, HashCri, SignCri, EncodePem, WriterInv, TypeOK
<1>2. Body' = Body /\ BitString' = BitString /\ Algorithm' = Algorithm
  BY <1>1 DEF Body, BitString, Algorithm
<1>3. CASE ParseSubject
  <2>1. /\ at = 1
        /\ at' = 1 \/ (at' = 2 /\ outcome' = "running")
        /\ outcome' \in {"running", "threw"}
    BY <1>1, <1>3, StatementsAre DEF ParseSubject, Statement, Step, Throw
  <2> QED
    BY <1>3, <2>1 DEF ExactInv
<1>4. CASE HashCri
  <2>1. at = 9 /\ at' \in {9, 10} /\ cri' = len /\ len' = len /\ outcome' \in {"running", "threw"}
    BY <1>1, <1>4, StatementsAre DEF HashCri, Statement, Step, Throw
  <2> QED
    BY <1>2, <2>1 DEF ExactInv
<1>5. CASE SignCri
  <2>1. at = 10 /\ at' \in {10, 11} /\ cri' = cri /\ outcome' \in {"running", "threw"}
    BY <1>1, <1>5, StatementsAre DEF SignCri, Statement, Step, Throw
  <2> QED
    BY <1>2, <2>1 DEF ExactInv
<1>6. CASE EncodePem
  <2>1. at = 16 /\ at' = at /\ cri' = cri /\ len' = len
    BY <1>1, <1>6, StatementsAre DEF EncodePem, Statement
  <2> QED
    BY <1>2, <2>1 DEF ExactInv
<1> QED
  BY <1>3, <1>4, <1>5, <1>6

(* What is delivered has the length of the DER structure, for subjects of  *)
(* any length; what is signed fits its buffer, and what a write refuses    *)
(* does not.                                                               *)
THEOREM WholeCsrDelivered == Spec => []DeliversWholeCsr
<1>1. Init => ExactInv
  BY DEF Init, ExactInv
<1>2. ASSUME WriterInv, ExactInv, [Next]_vars
      PROVE  ExactInv'
  <2>1. CASE Write
    BY <1>2, <2>1, WriteKeepsExact
  <2>2. CASE Count
    BY <1>2, <2>2, CountKeepsExact
  <2>3. CASE ParseSubject \/ HashCri \/ SignCri \/ EncodePem
    BY <1>2, <2>3, OthersKeepExact
  <2>4. CASE UNCHANGED vars
    BY <1>2, <2>4 DEF vars, ExactInv, Body, BitString, Algorithm
  <2> QED
    BY <1>2, <2>1, <2>2, <2>3, <2>4 DEF Next
<1>3. WriterInv /\ ExactInv => DeliversWholeCsr
  <2> SUFFICES ASSUME WriterInv, ExactInv
               PROVE  DeliversWholeCsr
    OBVIOUS
  <2>1. Tlv(Body) = CriSize(input.spki, input.name)
    BY DEF Body, CriSize
  <2>2. cri \in Nat /\ BitString \in Nat /\ Algorithm \in Nat
    BY SizesTyped DEF WriterInv, TypeOK
  <2>3. Algorithm = IF input.isEc THEN EcCsr.alg ELSE RsaCsr.alg
    BY DEF Algorithm, SigAlgSize, EcCsr, RsaCsr
  <2>4. at > 9 => DerSize = Tlv(BitString + Algorithm + cri)
    <3>1. BitString + Algorithm + cri = cri + Algorithm + BitString
      BY <2>2
    <3> QED
      BY <2>1, <2>3, <3>1 DEF ExactInv, DerSize, CsrSize, BitString
  <2>5. at > 9 => cri = CriSize(input.spki, input.name)
    BY <2>1 DEF ExactInv
  <2>6. at \in 1 .. 16 /\ cri <= CriBuf
    BY StatementCount DEF WriterInv, TypeOK, LenInv
  <2>7. ASSUME outcome = "threw", Statement \in CriWrites \cup CsrWrites \cup {"pem"}
        PROVE  ~CriFitsBuffer
    <3>1. at \in 2 .. 8
      BY <2>7, WriterFacts, StatementsAre
         DEF CriWrites, CsrWrites, WriterInv, SignedIsDelivered, Signed
    <3>2. Tlv(Body) > CriBuf /\ Tlv(Body) \in Nat
      BY <2>7, <3>1, BodyTyped DEF ExactInv
    <3> QED
      BY <2>1, <3>2 DEF CriFitsBuffer, CriBuf
  <2> QED
    BY <2>4, <2>5, <2>6, <2>7 DEF ExactInv, DeliversWholeCsr, CriFitsBuffer, Signed
<1> QED
  BY <1>1, <1>2, <1>3, WriterInvariant, PTL DEF Spec

=============================================================================

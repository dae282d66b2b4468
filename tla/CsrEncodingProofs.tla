--------------------------- MODULE CsrEncodingProofs ---------------------------
(***************************************************************************)
(* The stack buffers of the two CSR functions hold every request that the  *)
(* key and signature buffers admit.                                        *)
(***************************************************************************)
EXTENDS CsrEncoding, TLAPS

(* A TLV takes between two and five bytes more than its content, and four  *)
(* at most while its length fits in two bytes.                             *)
LEMMA TlvBounds ==
    ASSUME NEW n \in Nat
    PROVE  /\ Tlv(n) \in Nat
           /\ n + 2 <= Tlv(n) /\ Tlv(n) <= n + 5
           /\ n < 65536 => Tlv(n) <= n + 4
BY DEF Tlv, LenSize

(* The PEM text of n bytes stays below 3n/2 + 82 bytes. *)
LEMMA PemBound ==
    ASSUME NEW n \in Nat
    PROVE  PemSize(n) \in Nat /\ 2 * PemSize(n) <= 3 * n + 164
<1> DEFINE third  == (n + 2) \div 3
           base64 == 4 * third + 1
           lines  == base64 \div 64
<1>1. third \in Nat /\ 3 * third <= n + 2
  OBVIOUS
<1>2. lines \in Nat /\ 64 * lines <= base64
  BY <1>1
<1> QED
  BY <1>1, <1>2 DEF PemSize

(* demo_ec_csr and demo_rsa_csr: the CertificationRequestInfo fits in      *)
(* cri_buf for every public key that fits in its buffer.                   *)
THEOREM CriAlwaysFits ==
    \A c \in Csrs : \A spkiLen \in 0 .. c.pubBuf : CriFits(c, spkiLen)
<1>1. \A spkiLen \in 0 .. 200 : CriLen(spkiLen) <= 512
  BY DEF CriLen, CriSize, AttributesSize, VersionSize, SubjectSize, Tlv, LenSize
<1>2. \A spkiLen \in 0 .. 512 : CriLen(spkiLen) <= 1024
  BY DEF CriLen, CriSize, AttributesSize, VersionSize, SubjectSize, Tlv, LenSize
<1> QED
  BY <1>1, <1>2 DEF Csrs, EcCsr, RsaCsr, CriFits

(* The CertificationRequest fits in csr_buf and its PEM text in pem_buf,   *)
(* so that the macros of the assembly never return early and the PEM file  *)
(* is never skipped for want of space.                                     *)
THEOREM CsrAlwaysFits ==
    \A c \in Csrs :
        \A spkiLen \in 0 .. c.pubBuf, sigLen \in 0 .. c.sigBuf :
            CsrFits(c, spkiLen, sigLen) /\ PemFits(c, spkiLen, sigLen)
<1>1. ASSUME NEW spkiLen \in 0 .. 512, NEW sigLen \in 0 .. 256,
             NEW alg \in 0 .. 15
      PROVE  /\ PemSize(CsrSize(CriLen(spkiLen), alg, sigLen)) \in Nat
             /\ CsrSize(CriLen(spkiLen), alg, sigLen) \in Nat
             /\ CsrSize(CriLen(spkiLen), alg, sigLen) <= spkiLen + sigLen + 56
             /\ 2 * PemSize(CsrSize(CriLen(spkiLen), alg, sigLen))
                    <= 3 * (spkiLen + sigLen + 56) + 164
  <2> DEFINE cri     == CriLen(spkiLen)
             bits    == Tlv(sigLen + 1)
             content == cri + alg + bits
             size    == Tlv(content)
  <2>1. cri \in Nat /\ cri <= spkiLen + 32
    BY DEF CriLen, CriSize, AttributesSize, VersionSize, SubjectSize, Tlv, LenSize
  <2>2. bits \in Nat /\ bits <= sigLen + 5
    BY DEF Tlv, LenSize
  <2>3. content \in Nat /\ content <= spkiLen + sigLen + 52
    BY <2>1, <2>2
  <2> HIDE DEF content
  <2>4. size \in Nat /\ size <= spkiLen + sigLen + 56
    BY <2>3, TlvBounds
  <2> HIDE DEF size
  <2>5. PemSize(size) \in Nat /\ 2 * PemSize(size) <= 3 * size + 164
    BY <2>4, PemBound
  <2>6. CsrSize(CriLen(spkiLen), alg, sigLen) = size
    BY DEF CsrSize, size, content
  <2>7. 3 * size + 164 <= 3 * (spkiLen + sigLen + 56) + 164
    BY <2>4
  <2>8. 2 * PemSize(size) <= 3 * (spkiLen + sigLen + 56) + 164
    BY <2>4, <2>5, <2>7
  <2> QED
    BY <2>4, <2>5, <2>6, <2>8
<1>2. ASSUME NEW spkiLen \in 0 .. 200, NEW sigLen \in 0 .. 128
      PROVE  CsrFits(EcCsr, spkiLen, sigLen) /\ PemFits(EcCsr, spkiLen, sigLen)
  <2>1. EcCsr.alg = 12 /\ EcCsr.csrBuf = 1024 /\ EcCsr.pemBuf = 1024
    BY DEF EcCsr
  <2>2. spkiLen \in 0 .. 512 /\ sigLen \in 0 .. 256 /\ 12 \in 0 .. 15
    OBVIOUS
  <2> DEFINE size == CsrSize(CriLen(spkiLen), 12, sigLen)
  <2>3. /\ PemSize(size) \in Nat
        /\ size \in Nat /\ size <= spkiLen + sigLen + 56
        /\ 2 * PemSize(size) <= 3 * (spkiLen + sigLen + 56) + 164
    BY <2>2, <1>1
  <2> HIDE DEF size
  <2>4. size <= 1024 /\ PemSize(size) <= 1024
    BY <2>2, <2>3
  <2> QED
    BY <2>1, <2>4 DEF CsrFits, PemFits, CsrLen, size
<1>3. ASSUME NEW spkiLen \in 0 .. 512, NEW sigLen \in 0 .. 256
      PROVE  CsrFits(RsaCsr, spkiLen, sigLen) /\ PemFits(RsaCsr, spkiLen, sigLen)
  <2>1. RsaCsr.alg = 15 /\ RsaCsr.csrBuf = 2048 /\ RsaCsr.pemBuf = 2048
    BY DEF RsaCsr
  <2>2. 15 \in 0 .. 15
    OBVIOUS
  <2> DEFINE size == CsrSize(CriLen(spkiLen), 15, sigLen)
  <2>3. /\ PemSize(size) \in Nat
        /\ size \in Nat /\ size <= spkiLen + sigLen + 56
        /\ 2 * PemSize(size) <= 3 * (spkiLen + sigLen + 56) + 164
    BY <2>2, <1>1
  <2> HIDE DEF size
  <2>4. size <= 2048 /\ PemSize(size) <= 2048
    BY <2>3
  <2> QED
    BY <2>1, <2>4 DEF CsrFits, PemFits, CsrLen, size
<1>4. EcCsr.pubBuf = 200 /\ EcCsr.sigBuf = 128
  BY DEF EcCsr
<1>5. RsaCsr.pubBuf = 512 /\ RsaCsr.sigBuf = 256
  BY DEF RsaCsr
<1>6. \A spkiLen \in 0 .. EcCsr.pubBuf, sigLen \in 0 .. EcCsr.sigBuf :
          CsrFits(EcCsr, spkiLen, sigLen) /\ PemFits(EcCsr, spkiLen, sigLen)
  BY <1>2, <1>4
<1>7. \A spkiLen \in 0 .. RsaCsr.pubBuf, sigLen \in 0 .. RsaCsr.sigBuf :
          CsrFits(RsaCsr, spkiLen, sigLen) /\ PemFits(RsaCsr, spkiLen, sigLen)
  BY <1>3, <1>5
<1> QED
  BY <1>6, <1>7, Zenon DEF Csrs

=============================================================================

------------------------------ MODULE CsrEncoding ------------------------------
(***************************************************************************)
(* Sizes of the DER structures that the CSR builders of app/demo_ec.c,     *)
(* app/demo_rsa.c and cpp_app/csr.cpp write backwards into fixed buffers   *)
(* with mbedTLS.  A structure is abstracted to the number of bytes it      *)
(* takes: the builders branch on nothing else.                             *)
(***************************************************************************)
EXTENDS Naturals

(* External: mbedtls_asn1_write_len, as many bytes as DER needs. *)
LenSize(n) == IF n < 128 THEN 1
              ELSE IF n < 256 THEN 2
              ELSE IF n < 65536 THEN 3
              ELSE 4

(* External: content of n bytes with its length and its tag. *)
Tlv(n) == 1 + LenSize(n) + n

(* External: what mbedtls_pem_write_buffer asks of its output buffer: the  *)
(* base64 text with its NUL, the two 36- and 34-byte delimiter lines and   *)
(* one newline for each line of 64 characters.                             *)
PemSize(n) ==
    LET base64 == 4 * ((n + 2) \div 3) + 1
    IN  base64 + 36 + 34 + (base64 \div 64) + 1

AttributesSize == 2      \* the empty [0] attributes
VersionSize    == 3      \* INTEGER 0
SubjectSize    == 23     \* the encoded name CN=SE051-Demo

(* CertificationRequestInfo: attributes, public key, subject and version,  *)
(* wrapped in a SEQUENCE.                                                  *)
CriSize(spkiLen, nameLen) ==
    Tlv(AttributesSize + spkiLen + nameLen + VersionSize)

(* CertificationRequest: the CRI, the algorithm identifier and the         *)
(* signature as a BIT STRING, wrapped in a SEQUENCE.                       *)
CsrSize(criLen, algLen, sigLen) == Tlv(criLen + algLen + Tlv(sigLen + 1))

-----------------------------------------------------------------------------
(* The two CSR builders of the demo: buffer sizes of the stack arrays and  *)
(* size of the algorithm identifier, with and without NULL parameters.     *)

EcCsr  == [ pubBuf |-> 200, sigBuf |-> 128, criBuf |-> 512,
            csrBuf |-> 1024, pemBuf |-> 1024, alg |-> 12 ]
RsaCsr == [ pubBuf |-> 512, sigBuf |-> 256, criBuf |-> 1024,
            csrBuf |-> 2048, pemBuf |-> 2048, alg |-> 15 ]

Csrs == { EcCsr, RsaCsr }

(* What the builder c needs for a key and a signature of the given sizes. *)
CriLen(spkiLen) == CriSize(spkiLen, SubjectSize)
CsrLen(c, spkiLen, sigLen) == CsrSize(CriLen(spkiLen), c.alg, sigLen)

CriFits(c, spkiLen)         == CriLen(spkiLen) <= c.criBuf
CsrFits(c, spkiLen, sigLen) == CsrLen(c, spkiLen, sigLen) <= c.csrBuf
PemFits(c, spkiLen, sigLen) == PemSize(CsrLen(c, spkiLen, sigLen)) <= c.pemBuf

=============================================================================

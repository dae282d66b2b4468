------------------------------ MODULE MCCsrWriter ------------------------------
(***************************************************************************)
(* CsrWriter on the lengths around which the DER length field grows and    *)
(* the buffers fill up.                                                    *)
(***************************************************************************)
EXTENDS CsrWriter

MCSpkiLens == {0, 91, 99, 227, 294, 550, 576}
MCNameLens == {0, 23, 127, 128, 255, 256} \cup (3500 .. 3540) \cup (4060 .. 4100)
                  \cup {65000}
MCSigLens  == {0, 72, 126, 127, 254, 255, 256, 512}

=============================================================================

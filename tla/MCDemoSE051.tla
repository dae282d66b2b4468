------------------------------ MODULE MCDemoSE051 ------------------------------
(***************************************************************************)
(* DemoSE051 on small instances: the lengths are the shortest and the      *)
(* longest that each buffer admits.                                        *)
(***************************************************************************)
EXTENDS DemoSE051

MCEcSpkiLens  == {0, 200}
MCEcSigLens   == {0, 128}
MCRsaSpkiLens == {0, 512}
MCRsaSigLens  == {0, 256}

=============================================================================

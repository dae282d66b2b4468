------------------------------ MODULE MCCryptoApp ------------------------------
(***************************************************************************)
(* CryptoApp with two identifiers, which the program treats alike.         *)
(***************************************************************************)
EXTENDS CryptoApp, TLC

IdSymmetry == Permutations(Ids)

=============================================================================

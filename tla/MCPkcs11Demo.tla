------------------------------ MODULE MCPkcs11Demo ------------------------------
(***************************************************************************)
(* Pkcs11Demo on a token that is empty, or that holds one object of a run  *)
(* before: the demos use different identifiers, so that each meets the one *)
(* that is in its way.                                                     *)
(***************************************************************************)
EXTENDS Pkcs11Demo

MCEmpty     == {{}}
MCLeftovers == {{}} \cup { {id} : id \in TokenIds }

=============================================================================

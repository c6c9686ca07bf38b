----------------------------- MODULE MCSignatures ------------------------------
(* An instance of Signatures for TLC. *)
EXTENDS Signatures
=============================================================================

--------------------------- MODULE MCProviderCall ---------------------------
(* Instances of ProviderCall for TLC. *)
EXTENDS ProviderCall
=============================================================================

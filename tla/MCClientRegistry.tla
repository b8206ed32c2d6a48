-------------------------- MODULE MCClientRegistry --------------------------
(***************************************************************************)
(* Small instances of ClientRegistry.                                      *)
(***************************************************************************)
EXTENDS ClientRegistry
=============================================================================

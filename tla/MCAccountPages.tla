---------------------------- MODULE MCAccountPages ----------------------------
(* An instance of AccountPages for TLC. *)
EXTENDS AccountPages
=============================================================================

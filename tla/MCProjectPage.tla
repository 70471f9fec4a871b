----------------------------- MODULE MCProjectPage -----------------------------
(* An instance of ProjectPage for TLC. *)
EXTENDS ProjectPage

=============================================================================

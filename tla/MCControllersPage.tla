-------------------------- MODULE MCControllersPage --------------------------
(* An instance of ControllersPage for TLC. *)
EXTENDS ControllersPage, TLC

CONSTANTS a, b, v, w, t
=============================================================================

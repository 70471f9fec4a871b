--------------------------- MODULE MCProjectClone ---------------------------
(* Instances of ProjectClone for TLC.                                      *)
EXTENDS ProjectClone
=============================================================================

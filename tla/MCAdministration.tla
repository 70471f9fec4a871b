-------------------------- MODULE MCAdministration --------------------------
(* Instances of Administration for TLC.                                    *)
EXTENDS Administration, TLC

(* The requests are interchangeable: no definition tells one from another. *)
AnyRequest == Permutations(Requests)
=============================================================================

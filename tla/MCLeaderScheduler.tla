-------------------------- MODULE MCLeaderScheduler --------------------------
(* Instances of LeaderScheduler for TLC.                                   *)
EXTENDS LeaderScheduler
=============================================================================

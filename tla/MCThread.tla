------------------------------ MODULE MCThread ------------------------------
(* Thread.tla for TLC. One Starter beside the Joiner is enough for two calls   *)
(* to cross, and the runs check liveness, so there is no symmetry.             *)
EXTENDS Thread

EveryKind == {"plain", "after", "periodic"}
=============================================================================

----------------------------- MODULE MCRegistry -----------------------------
(* A few shared appenders for TLC. *)
EXTENDS Registry
=============================================================================

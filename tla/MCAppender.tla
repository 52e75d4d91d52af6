----------------------------- MODULE MCAppender -----------------------------
(* Appender.tla for TLC. Clients are interchangeable: the safety runs use     *)
(* their permutations as symmetry.                                            *)
EXTENDS Appender, TLC

ClientSymmetry == Permutations(Clients)
=============================================================================

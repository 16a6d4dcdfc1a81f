--------------------------- MODULE MCFileLogger ---------------------------
(* A small instance of FileLogger for TLC. *)
EXTENDS FileLogger, TLC

Symmetry == Permutations(Threads)
=============================================================================

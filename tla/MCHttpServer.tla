---------------------------- MODULE MCHttpServer ----------------------------
(* HttpServer for TLC: the symmetric sets of the safety runs.              *)
EXTENDS HttpServer, TLC

Symmetry == Permutations(Conns) \cup Permutations(Stoppers)
=============================================================================

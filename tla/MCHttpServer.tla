---------------------------- MODULE MCHttpServer ----------------------------
(***************************************************************************)
(* Instances of HttpServer for TLC.                                         *)
(***************************************************************************)
EXTENDS HttpServer, TLC

CONSTANTS k1, k2, k3

\* The clients are interchangeable.
ClientSymmetry == Permutations({k1, k2, k3})
=============================================================================

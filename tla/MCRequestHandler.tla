-------------------------- MODULE MCRequestHandler --------------------------
(***************************************************************************)
(* Requests are interchangeable.                                           *)
(***************************************************************************)
EXTENDS RequestHandler, TLC

Symmetry == Permutations(Requests)
=============================================================================

-------------------------- MODULE MCSessionManager --------------------------
(***************************************************************************)
(* SessionManager on interchangeable channels.                             *)
(***************************************************************************)
EXTENDS SessionManager, TLC

CONSTANTS c1, c2

Symmetry == Permutations(Channels)
=============================================================================

---------------------------- MODULE MCRshSession ----------------------------
(***************************************************************************)
(* Instances of RshSession for TLC.  The constants are in the .cfg files;  *)
(* clients that may all be killed are interchangeable.                     *)
(***************************************************************************)
EXTENDS RshSession, TLC

Symmetry == Permutations(Clients)
=============================================================================

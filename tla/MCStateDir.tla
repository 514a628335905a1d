------------------------------- MODULE MCStateDir -------------------------------
(***************************************************************************)
(* A finite instance of StateDir.  Servers are interchangeable.            *)
(***************************************************************************)
EXTENDS StateDir, TLC

ServerSymmetry == Permutations(Server)
===============================================================================

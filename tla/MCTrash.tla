-------------------------------- MODULE MCTrash --------------------------------
(***************************************************************************)
(* A finite instance of Trash: a day is a tick, and a duration is at most  *)
(* 3, so that a retention of 1 day fits and one of 4 days wraps.           *)
(***************************************************************************)
EXTENDS Trash, TLC

Servers == Permutations(Process)
===============================================================================

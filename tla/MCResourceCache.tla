---------------------------- MODULE MCResourceCache ----------------------------
(***************************************************************************)
(* A finite instance of ResourceCache.                                     *)
(***************************************************************************)
EXTENDS ResourceCache, TLC

ReaderSymmetry == Permutations(Reader)
===============================================================================

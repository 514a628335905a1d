---------------------------- MODULE MCHttpSessions ----------------------------
(***************************************************************************)
(* A finite instance of HttpSessions.                                      *)
(***************************************************************************)
EXTENDS HttpSessions
===============================================================================

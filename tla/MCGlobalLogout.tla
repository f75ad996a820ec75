---------------------------- MODULE MCGlobalLogout ----------------------------
(* A small instance of GlobalLogout for TLC. No symmetry set: the run checks *)
(* liveness properties.                                                      *)
EXTENDS GlobalLogout, TLC
===============================================================================

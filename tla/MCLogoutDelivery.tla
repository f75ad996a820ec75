--------------------------- MODULE MCLogoutDelivery ---------------------------
(* A small instance of LogoutDelivery for TLC. No symmetry set: the run      *)
(* checks a liveness property and a refinement.                              *)
EXTENDS LogoutDelivery, TLC
===============================================================================

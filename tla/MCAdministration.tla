--------------------------- MODULE MCAdministration ---------------------------
(* A small instance of Administration for TLC: the bootstrap administrator,  *)
(* an administrator and a developer with a client.                           *)
EXTENDS Administration, TLC

CONSTANTS boot, admin, developer, app

MCStored == {(boot :> "bootadmin") @@ (admin :> "admin") @@ (developer :> "developer")}
MCRegistered == app :> developer

Symmetry == Permutations(Request) \cup Permutations(Flow)
===============================================================================

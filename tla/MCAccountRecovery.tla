-------------------------- MODULE MCAccountRecovery --------------------------
(* Small instances of AccountRecovery for TLC.                             *)
EXTENDS AccountRecovery, TLC

Symmetry == Permutations(Codes) \cup Permutations(Recoveries)
            \cup Permutations(Challenges) \cup Permutations(Passkeys)
            \cup Permutations(Sessions) \cup Permutations(Providers)
            \cup Permutations(Requests)
===============================================================================

-------------------------- MODULE MCCentralSessions --------------------------
(* Small instances of CentralSessions for TLC.                             *)
EXTENDS CentralSessions, TLC

\* With Admin = User the users are interchangeable too. The specification is
\* symmetric in all three; OtherSessionsUntouched is an action property of a
\* single step, which symmetry leaves sound.
Symmetry == Permutations(User) \cup Permutations(Sid) \cup Permutations(Request)
===============================================================================

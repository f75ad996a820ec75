----------------------------- MODULE MCAuditArchive -----------------------------
(* Two writers, one with its clock a minute ahead, over three events: the first  *)
(* two fill a batch by their number, the third alone by its size. Two attempts   *)
(* stand for five, two generations for many.                                     *)
EXTENDS AuditArchive

CONSTANTS w1, w2

MCSkew == [w \in Writer |-> IF w = w1 THEN 0 ELSE 1]
MCBytes == <<1, 1, 2>>
MCBackoff == <<1>>
=============================================================================

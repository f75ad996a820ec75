------------------------------- MODULE MCAlertRuns -------------------------------
(* Three alerts of the audit source, one global and two with hashed          *)
(* dimensions, of which a run can afford two; an operator looks at the       *)
(* first.                                                                    *)
EXTENDS AlertRuns, TLC

CONSTANTS w1, w2, s1, g1, g2, k1, k2, k3

MCPlace == k1 :> 1 @@ k2 :> 2 @@ k3 :> 3
MCGroupOf == [k \in Key |-> IF k = k1 THEN g1 ELSE g2]
MCSourceOf == [g \in Group |-> s1]
MCReaderOf == [s \in Source |-> "audit"]
MCActs == [k \in Key |-> IF k = k1 THEN 1 ELSE 0]

Evaluation(severity, immediate) ==
    [severity |-> severity, known |-> TRUE, immediate |-> immediate,
     evidence |-> [severity |-> severity]]
MCObserved == k1 :> {Evaluation("critical", TRUE), Evaluation("none", TRUE)}
              @@ k2 :> {Evaluation("critical", FALSE)}
              @@ k3 :> {Evaluation("critical", FALSE)}

Symmetry == Permutations(Worker)
===============================================================================

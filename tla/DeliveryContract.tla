--------------------------- MODULE DeliveryContract ---------------------------
(***************************************************************************)
(* What the logout outbox promises its callers, without leases, queues or  *)
(* consumers: an owed notice is tried a bounded number of times and ends   *)
(* acknowledged or abandoned; it is acknowledged only after the relying    *)
(* party was told; an acknowledgement is final; only an operator reopens   *)
(* what is not acknowledged, and every reopening is counted.               *)
(***************************************************************************)
EXTENDS Integers

CONSTANTS Delivery, MaxAttempts

VARIABLES
    work,        \* state of each notice
    told,        \* the relying party has accepted the notice
    generation,  \* how often an operator has reopened it
    tries        \* attempts spent in this generation

vars == <<work, told, generation, tries>>

TypeOK ==
    /\ work \in [Delivery -> {"none", "owed", "acknowledged", "abandoned"}]
    /\ told \in [Delivery -> BOOLEAN]
    /\ generation \in [Delivery -> Nat]
    /\ tries \in [Delivery -> 0..MaxAttempts]

Init ==
    /\ work = [d \in Delivery |-> "none"]
    /\ told = [d \in Delivery |-> FALSE]
    /\ generation = [d \in Delivery |-> 0]
    /\ tries = [d \in Delivery |-> 0]

\* A revocation records the notice; without an endpoint it is abandoned at once.
Record(d) ==
    /\ work[d] = "none"
    /\ \E w \in {"owed", "abandoned"} : work' = [work EXCEPT ![d] = w]
    /\ UNCHANGED <<told, generation, tries>>

Try(d) ==
    /\ work[d] = "owed"
    /\ tries[d] < MaxAttempts
    /\ tries' = [tries EXCEPT ![d] = @ + 1]
    /\ UNCHANGED <<work, told, generation>>

\* The relying party may accept late, when the notice is no longer owed, but
\* never before a first try.
Hear(d) ==
    /\ generation[d] > 0 \/ tries[d] > 0
    /\ told' = [told EXCEPT ![d] = TRUE]
    /\ UNCHANGED <<work, generation, tries>>

Acknowledge(d) ==
    /\ work[d] = "owed"
    /\ tries[d] > 0
    /\ told[d]
    /\ work' = [work EXCEPT ![d] = "acknowledged"]
    /\ UNCHANGED <<told, generation, tries>>

Abandon(d) ==
    /\ work[d] = "owed"
    /\ tries[d] > 0
    /\ work' = [work EXCEPT ![d] = "abandoned"]
    /\ UNCHANGED <<told, generation, tries>>

Reopen(d) ==
    /\ work[d] \in {"owed", "abandoned"}
    /\ work' = [work EXCEPT ![d] = "owed"]
    /\ generation' = [generation EXCEPT ![d] = @ + 1]
    /\ tries' = [tries EXCEPT ![d] = 0]
    /\ UNCHANGED told

Next ==
    \E d \in Delivery :
      \/ Record(d) \/ Try(d) \/ Hear(d) \/ Acknowledge(d)
      \/ Abandon(d) \/ Reopen(d)

Spec == Init /\ [][Next]_vars
===============================================================================

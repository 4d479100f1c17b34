----------------------------- MODULE MCSendGuard -----------------------------
(* Instances of SendGuard for TLC.  Server lives and keys are                *)
(* interchangeable: every property quantifies over all of them.             *)
EXTENDS SendGuard, TLC

Interchangeable == Permutations(Servers) \cup Permutations(Keys)

\* A failed write, or two operators at work, is looked at with one send less,
\* and not both at once.
OneTrouble ==
    /\ usurped \/ Cardinality(reading) > 1 => faults = 0
    /\ usurped \/ Cardinality(reading) > 1 \/ faults > 0 => sends[MaxSends].pc = "none"

=============================================================================

---------------------------- MODULE MCTxObserver ----------------------------
(* An instance of TxObserver for TLC: two flows that share an observer or  *)
(* have one each.                                                          *)
EXTENDS TxObserver, TLC

CONSTANTS o1, o2, l1, l2

TwoObservers == {o1, o2}
TwoLooks == {l1, l2}
Together == {(l1 :> o1) @@ (l2 :> o1)}
Apart == {(l1 :> o1) @@ (l2 :> o2), (l1 :> o2) @@ (l2 :> o1)}
MCSetups == Together \cup Apart
InPool == {"mempool_entry"}
Rejected == {"rejected"}
OneOrTwo == {1, 2}

LookSymmetry == Permutations(TwoLooks)

\* Flows with an observer each only share what they sealed: one look each,
\* one at a time.
OneLookEach ==
    Cardinality(Range(observerOf)) > 1 =>
        taken <= 2 /\ faults = 0 /\ Cardinality({l \in Looks : look[l].pc # "idle"}) <= 1

=============================================================================

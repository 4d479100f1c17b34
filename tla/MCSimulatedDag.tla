--------------------------- MODULE MCSimulatedDag ---------------------------
(* An instance of SimulatedDag for TLC.  With k of 0 or 1, t2 conflicts with     *)
(* t1 and with t3, so that t3 may be accepted for want of t2.  With k of 2 or 3, *)
(* and no transactions, a block can merge three beside its selected parent.      *)
EXTENDS SimulatedDag, TLC

MCInputs == ("t1" :> {1}) @@ ("t2" :> {1, 2}) @@ ("t3" :> {2})
MCPayloads == {<<>>, <<"t1">>, <<"t2", "t3">>}
MCMaxBlocks == (0 :> 4) @@ (1 :> 4) @@ (2 :> 5) @@ (3 :> 5)
MCMaxCarriers == (0 :> 2) @@ (1 :> 2) @@ (2 :> 0) @@ (3 :> 0)

=============================================================================

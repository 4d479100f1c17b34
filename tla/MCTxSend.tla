------------------------------ MODULE MCTxSend ------------------------------
(* An instance of TxSend for TLC: two transitions of two covenants that    *)
(* share an outpoint.  The order of the first one's outpoints is not the    *)
(* order of its covenants.                                                  *)
EXTENDS TxSend, TLC

CONSTANTS move1, move2

MCTxs == {move1, move2}
MCOuts == (move1 :> {1, 2}) @@ (move2 :> {2, 3})
MCCovenants == (1 :> 2) @@ (2 :> 1) @@ (3 :> 2)

=============================================================================

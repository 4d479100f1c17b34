------------------------ MODULE MCSimulatedExecution ------------------------
(* An instance of SimulatedExecution for TLC: t1 spends the initial coin,  *)
(* t2 the output of t1, t3 also the initial coin.                          *)
EXTENDS SimulatedExecution, TLC

CONSTANTS t1, t2, t3, coin

MCTxs == {t1, t2, t3}
MCInputs == (t1 :> {coin}) @@ (t2 :> {t1}) @@ (t3 :> {coin})

=============================================================================

--------------------------- MODULE MCWorkspaceLock ---------------------------
(* An instance of WorkspaceLock for TLC: two processes of one host, the      *)
(* second with two flows, and a third process on another host.               *)
EXTENDS WorkspaceLock, TLC

CONSTANTS f1, f2, f3, f4

MCFlows == {f1, f2, f3, f4}
MCProcOf == (f1 :> 1) @@ (f2 :> 2) @@ (f3 :> 2) @@ (f4 :> 3)
MCHost == <<"here", "here", "there">>
MCOperators == {f1}

=============================================================================

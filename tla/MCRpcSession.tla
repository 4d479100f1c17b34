---------------------------- MODULE MCRpcSession ----------------------------
(* Instance of RpcSession for TLC: a request, a submission, two close(). *)
EXTENDS RpcSession, TLC

CONSTANTS r1, send, k1, k2

MCCalls == {r1, send}
MCBroadcasts == {send}
MCCloses == {k1, k2}

=============================================================================

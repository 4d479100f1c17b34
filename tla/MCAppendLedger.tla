--------------------------- MODULE MCAppendLedger ---------------------------
(* Instance of AppendLedger for TLC: p1 and p2 share a host, p3 is remote. *)
EXTENDS AppendLedger, TLC

CONSTANTS p1, p2, p3

MCProcs == {p1, p2, p3}
MCHost == (p1 :> "here") @@ (p2 :> "here") @@ (p3 :> "there")
ShortCuts == {"part", "bare"}

=============================================================================

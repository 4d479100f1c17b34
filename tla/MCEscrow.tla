------------------------------ MODULE MCEscrow ------------------------------
(* An instance of Escrow for TLC: two requests, in one server or in one     *)
(* each, on an escrow that was just created or is ready to be released.     *)
EXTENDS Escrow, TLC

CONSTANTS p1, p2, x1, x2

TwoProcs == {p1, p2}
TwoHandlers == {x1, x2}
MCSetups == [TwoHandlers -> TwoProcs]
MCBranches == {"release", "refund"}
MCRoles == {"buyer", "seller", "arbiter"}
MCRequired == [b \in MCBranches |-> IF b = "release" THEN {"buyer", "seller"} ELSE {"buyer", "arbiter"}]

Created == [state |-> "CREATED", fund |-> "none", ftx |-> None, draft |-> None,
            sigs |-> NoSigs, rel |-> "none", rtx |-> None]
Ready == [Created EXCEPT !.state = "READY_TO_RELEASE", !.fund = "broadcast", !.ftx = <<"fund", 1>>,
            !.draft = <<"release", 1>>,
            !.sigs = [r \in Roles |-> IF r \in Required["release"] THEN <<"release", 1>> ELSE None]]
MCStarts == {Created, Ready}

\* Two servers interleave in many more ways: they take two requests.
Requests == Cardinality(Range(procOf)) > 1 => requests <= 2

Symmetry == Permutations(TwoHandlers) \cup Permutations(TwoProcs)

=============================================================================

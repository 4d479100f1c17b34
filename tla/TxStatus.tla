------------------------------ MODULE TxStatus ------------------------------
(***************************************************************************)
(* The state of a transaction as it is derived from evidence: deriveTxStatus *)
(* (packages/artifacts/src/tx-status.ts) over a recorded submission and the  *)
(* sealed observations, and the covenant and ZK states built on it           *)
(* (operation-status.ts).  Pure operators, no state.                         *)
(*                                                                         *)
(* An observation is what one observer saw in one look: its point (the blue  *)
(* score of the sink), the time it was sealed and a finding.  Artifacts that *)
(* do not verify are never evidence, so none is represented.                 *)
(***************************************************************************)
EXTENDS Integers, FiniteSets

CONSTANTS
    NoBlock,           \* the absent block hash
    MinConfirmations,  \* the policy's depth for CONFIRMED
    FinalityDepth      \* finalityDepthFor(networkId)

ASSUME DepthAssumption ==
    /\ MinConfirmations \in Nat
    /\ FinalityDepth \in Nat

SubmitOutcomes == {"none", "accepted", "rejected", "unknown", "synthetic"}

Finding(type, block) ==
    [type |-> type, block |-> block, replaced |-> NoBlock, depth |-> 0,
     from |-> NoBlock, to |-> NoBlock]

\* checkTxObservationCoherence, the part an observer can get wrong: a block
\* above the sink of the look, and a block that replaces itself.
Coherent(blue, height, f) == height <= blue /\ f.replaced # f.block

\* byPoint: the sink's blue score, then the time.
ByPoint(a, b) == a.blue < b.blue \/ (a.blue = b.blue /\ a.at < b.at)

Latest(S) == CHOOSE x \in S : \A y \in S \ {x} : ByPoint(y, x)

Claim(status, block, depth) == [status |-> status, block |-> block, depth |-> depth]
Conflicting == Claim("CONFLICTING_OBSERVATIONS", NoBlock, 0)

-----------------------------------------------------------------------------
(* deriveObserverHistory: the looks S of one observer, in point order *)
Took(x) == x.finding.type \in {"chain_accepted", "finality_reached"}

\* The block a finding says left the selected chain.
Left(f) == CASE f.type = "chain_accepted" -> f.replaced
             [] f.type = "chain_removed" -> f.block
             [] OTHER -> NoBlock

Finals(S) == {x \in S : x.finding.type = "finality_reached"}

\* The block last reported final is later reported gone.
Incoherent(S) ==
    \E y \in S :
        LET earlier == {x \in Finals(S) : ByPoint(x, y)}
        IN earlier # {} /\ Left(y.finding) = Latest(earlier).finding.block

\* The accepting blocks still standing: the last acceptance of each block that
\* has not left since.
Standing(S) ==
    {x \in S : Took(x) /\ \A y \in S : ByPoint(x, y) =>
        /\ Left(y.finding) # x.finding.block
        /\ Took(y) => y.finding.block # x.finding.block}

\* The removals of a block this observer had seen accepting.
Removals(S) ==
    {y \in S : /\ y.finding.type = "chain_removed"
               /\ \E x \in S : Took(x) /\ x.finding.block = y.finding.block /\ ByPoint(x, y)}

Depth(block, depth) ==
    Claim(IF depth >= MinConfirmations THEN "CONFIRMED" ELSE "ACCEPTED", block, depth)

\* What the last look supports when no acceptance stands.
ByLastLook(S) ==
    LET last == Latest(S)
        f == last.finding
    IN IF Removals(S) # {} /\ (last = Latest(Removals(S)) \/ f.type = "not_found")
       THEN Claim("REORGED", Latest(Removals(S)).finding.block, 0)
       ELSE CASE f.type = "chain_removed" -> Claim("NOT_ON_CHAIN", f.block, 0)
              [] f.type = "mempool_entry" -> Claim("MEMPOOL_ACCEPTED", NoBlock, 0)
              [] f.type = "mempool_orphan" -> Claim("MEMPOOL_ORPHAN", NoBlock, 0)
              [] f.type = "pruned_unobservable" -> Claim("UNOBSERVABLE_PRUNED", NoBlock, 0)
              [] OTHER -> Claim("NO_CLAIM", NoBlock, 0)

ObserverHistory(S) ==
    LET standing == Standing(S) IN
    IF Incoherent(S) THEN Conflicting
    ELSE IF Finals(S) # {}
         THEN LET f == Latest(Finals(S)).finding IN Claim("FINALIZED", f.block, f.depth)
    ELSE IF Cardinality(standing) > 1 THEN Conflicting
    ELSE IF standing # {}
         THEN LET f == (CHOOSE x \in standing : TRUE).finding IN Depth(f.block, f.depth)
    ELSE ByLastLook(S)

-----------------------------------------------------------------------------
(* deriveTxStatus: the histories are combined without any order between    *)
(* observers.                                                              *)
Positive == {"ACCEPTED", "CONFIRMED", "FINALIZED"}
Negative == {"REORGED", "NOT_ON_CHAIN"}
Pooled == {"MEMPOOL_ACCEPTED", "MEMPOOL_ORPHAN"}

Histories(S) ==
    {ObserverHistory({x \in S : x.observer = o}) : o \in {x.observer : x \in S}}

\* All observers name one block: the depth is the least of theirs, and the
\* finality of one is enough.
Agreed(H) ==
    LET block == (CHOOSE h \in H : TRUE).block
        least == CHOOSE d \in {h.depth : h \in H} : \A h \in H : d <= h.depth
    IN IF \E h \in H : h.status = "FINALIZED" THEN Claim("FINALIZED", block, least)
       ELSE Depth(block, least)

BySubmission(sub) ==
    Claim(CASE sub = "accepted" -> "SUBMITTED"
            [] sub = "rejected" -> "REJECTED_BY_NODE"
            [] OTHER -> "INSUFFICIENT_EVIDENCE", NoBlock, 0)

DeriveTxStatus(sub, S) ==
    LET all == Histories(S)
        With(statuses) == {h \in all : h.status \in statuses}
        One(H) == IF Cardinality({<<h.status, h.block>> : h \in H}) > 1
                  THEN Conflicting ELSE CHOOSE h \in H : TRUE
    IN IF sub = "synthetic"
       THEN IF S # {} THEN Conflicting ELSE Claim("SYNTHETIC_EXECUTED", NoBlock, 0)
       ELSE IF Conflicting \in all THEN Conflicting
       ELSE IF With(Positive) # {}
            THEN IF With(Negative) # {} \/ Cardinality({h.block : h \in With(Positive)}) > 1
                 THEN Conflicting ELSE Agreed(With(Positive))
       ELSE IF With({"REORGED"}) # {} THEN One(With({"REORGED"}))
       ELSE IF With(Pooled) # {} THEN One(With(Pooled))
       ELSE IF With({"UNOBSERVABLE_PRUNED"}) # {} THEN One(With({"UNOBSERVABLE_PRUNED"}))
       ELSE BySubmission(sub)

-----------------------------------------------------------------------------
(* operation-status.ts *)

\* Mutant: a confirmed transition is called final.
CovenantStatus_Confirmed(status, terminated) ==
    CASE status = "REJECTED_BY_NODE" -> [kind |-> "TRANSITION_REJECTED", active |-> "spent", isFinal |-> TRUE]
      [] status \in Positive ->
            [kind |-> "TRANSITION_CONFIRMED", active |-> "successor", isFinal |-> status # "ACCEPTED"]
      [] OTHER -> [kind |-> "INCONCLUSIVE", active |-> "none", isFinal |-> FALSE]

\* deriveCovenantStatus: the state of a covenant transition that ends the
\* covenant (terminated) or moves it on; "none" when nothing was observed.
CovenantStatus(status, terminated) ==
    CASE status = "none" -> [kind |-> "PROPOSED", active |-> "spent", isFinal |-> FALSE]
      [] status = "REJECTED_BY_NODE" -> [kind |-> "TRANSITION_REJECTED", active |-> "spent", isFinal |-> TRUE]
      [] status = "REORGED" -> [kind |-> "TRANSITION_REORGED", active |-> "spent", isFinal |-> FALSE]
      [] status = "CONFLICTING_OBSERVATIONS" -> [kind |-> "CONFLICTED", active |-> "none", isFinal |-> FALSE]
      [] status \in Pooled \cup {"SUBMITTED"} -> [kind |-> "MEMPOOL_PENDING", active |-> "none", isFinal |-> FALSE]
      [] status \in Positive \cup {"SYNTHETIC_EXECUTED"} ->
            [kind |-> IF terminated THEN "TERMINATED" ELSE "TRANSITION_CONFIRMED",
             active |-> IF terminated THEN "none" ELSE "successor",
             isFinal |-> status = "FINALIZED"]
      [] OTHER -> [kind |-> "INCONCLUSIVE", active |-> "none", isFinal |-> FALSE]

\* deriveZkOperationStatus.
ZkOperationStatus(verified, status) ==
    CASE ~verified -> [kind |-> "PROOF_VERIFICATION_FAILED", isFinal |-> TRUE]
      [] verified /\ status = "none" -> [kind |-> "PROOF_VERIFIED_OFFCHAIN", isFinal |-> FALSE]
      [] verified /\ status = "REJECTED_BY_NODE" -> [kind |-> "TX_REJECTED", isFinal |-> TRUE]
      [] verified /\ status = "REORGED" -> [kind |-> "TX_REORGED", isFinal |-> FALSE]
      [] verified /\ status \in Pooled \cup {"SUBMITTED"} -> [kind |-> "TX_SUBMITTED", isFinal |-> FALSE]
      [] verified /\ status \in Positive \cup {"SYNTHETIC_EXECUTED"} ->
            [kind |-> "SETTLED", isFinal |-> status = "FINALIZED"]
      [] OTHER -> [kind |-> "INCONCLUSIVE", isFinal |-> FALSE]

=============================================================================

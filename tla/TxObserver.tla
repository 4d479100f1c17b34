----------------------------- MODULE TxObserver -----------------------------
(***************************************************************************)
(* Looking at a transaction: HardkasTx.observe (packages/sdk/src/tx.ts) and *)
(* observeTxOnce (tx-observer.ts).  A look is a series of calls to a node,  *)
(* between any two of which the node's selected chain may change, other     *)
(* looks of the workspace may be sealed, and the node may fail to answer.   *)
(*                                                                         *)
(* The node is external.  Blocks form a tree (path); the selected chain     *)
(* of an observer's node is the path from block 0 to its tip, the blue      *)
(* score of a block its height.  A block either accepts the transaction or  *)
(* not, and no chain accepts it twice.  A node moves to a heavier tip and   *)
(* never gives up a block that is FinalityDepth deep.                       *)
(***************************************************************************)
EXTENDS TxStatus, Sequences, FiniteSetsExt

CONSTANTS
    Observers,    \* observer identities (one configured node each)
    Looks,        \* flows that may call observe()
    Setups,       \* the observers the flows may be configured with
    Pools,        \* findings about a mempool entry
    Submissions,  \* recorded outcomes of the submission the run starts from
    MaxBlocks,    \* bound on the blocks
    MaxLooks,     \* bound on the looks taken
    MaxFaults,    \* bound on the failed or unserved calls
    BatchBounds   \* the values of options.maxBatches; one chain block per answer

ASSUME ObserverAssumption ==
    /\ Setups \subseteq [Looks -> Observers]
    /\ Pools \subseteq {"mempool_entry", "mempool_orphan"}
    /\ Submissions \subseteq SubmitOutcomes \ {"synthetic"}
    /\ {MaxBlocks, MaxLooks, MaxFaults} \subseteq Nat /\ BatchBounds \subseteq Nat \ {0}
    /\ NoBlock \notin 0..MaxBlocks

VARIABLES
    path,       \* path[b]: the chain from block 0 to block b
    accepting,  \* the blocks that accept the transaction
    tip,        \* the sink of each observer's node
    observerOf, \* the observer each flow is configured with
    submission, \* what the workspace recorded about the submission
    maxBatches, \* the answers a look reads at most
    sealed,     \* the sealed observations
    derived,    \* what deriveTxStatus makes of them
    look,       \* the look each flow is taking
    taken,      \* looks begun so far
    faults      \* failed calls so far

config == <<observerOf, submission, maxBatches>>
evidence == <<sealed, derived>>
vars == <<path, accepting, tip, config, evidence, look, taken, faults>>

Blocks == 0..Len(path)
Path(b) == IF b = 0 THEN <<0>> ELSE path[b]
Height(b) == Len(Path(b)) - 1
OnChain(b, t) == b \in Range(Path(t))

\* The block of the chain of t that accepts the transaction.
AcceptedOn(t) ==
    LET hits == Range(Path(t)) \cap accepting
    IN IF hits = {} THEN NoBlock ELSE CHOOSE b \in hits : TRUE

\* Ghost: what the chain of t really says, as a claim.
Truth(t) ==
    LET b == AcceptedOn(t)
    IN Claim("truth", b, IF b = NoBlock THEN 0 ELSE Height(t) - Height(b))

\* `quiet' and `truth' are ghosts: nothing happened beside the look so far,
\* and what the chain said when it last answered.
Idle == [pc |-> "idle", prev |-> NoBlock, start |-> 0, cursor |-> 0,
         blue |-> 0, block |-> NoBlock, batches |-> 0,
         quiet |-> FALSE, truth |-> Claim("truth", NoBlock, 0)]

Init ==
    /\ path = <<>> /\ accepting = {}
    /\ tip = [o \in Observers |-> 0]
    /\ observerOf \in Setups
    /\ submission \in Submissions /\ maxBatches \in BatchBounds
    /\ sealed = {} /\ derived = DeriveTxStatus(submission, {})
    /\ look = [l \in Looks |-> Idle]
    /\ taken = 0 /\ faults = 0

-----------------------------------------------------------------------------
(* The nodes *)
\* A block competes for the top of the tree: its parent is at most one below
\* the highest block.
NewBlock(p, accepts) ==
    /\ Len(path) < MaxBlocks
    /\ p \in Blocks /\ \A b \in Blocks : Height(b) <= Height(p) + 1
    /\ accepts => AcceptedOn(p) = NoBlock
    /\ path' = Append(path, Append(Path(p), Len(path) + 1))
    /\ accepting' = IF accepts THEN accepting \cup {Len(path) + 1} ELSE accepting
    /\ UNCHANGED <<tip, config, evidence, look, taken, faults>>

Heavier(b, t) == Height(b) > Height(t) \/ (Height(b) = Height(t) /\ b > t)

\* Looks other than l (all when l is no look) have company from now on.
Disturbed(l, o) ==
    [k \in Looks |-> IF k # l /\ look[k].pc # "idle" /\ observerOf[k] = o
                     THEN [look[k] EXCEPT !.quiet = FALSE] ELSE look[k]]

MoveTip(o, b) ==
    /\ o \in Range(observerOf) /\ b \in Blocks /\ Heavier(b, tip[o])
    /\ \A c \in Range(Path(tip[o])) : Height(tip[o]) - Height(c) >= FinalityDepth => OnChain(c, b)
    /\ tip' = [tip EXCEPT ![o] = b]
    /\ look' = Disturbed(NoBlock, o)
    /\ UNCHANGED <<path, accepting, config, evidence, taken, faults>>

\* getVirtualChainFromBlock: the chain blocks above the last common block,
\* one per answer; NoBlock when there is none.
Common(start, t) == Max({i \in DOMAIN Path(t) : i <= Len(Path(start)) /\ Path(t)[i] = Path(start)[i]})
NextOnChain(start, t) ==
    IF Common(start, t) = Len(Path(t)) THEN NoBlock ELSE Path(t)[Common(start, t) + 1]

-----------------------------------------------------------------------------
(* observe *)
\* verifiedCursor: the last position a look verified, walking back.
Position(f) ==
    IF f.to # NoBlock THEN f.to
    ELSE CASE f.type = "not_found" -> f.from
           [] f.type = "chain_removed" -> f.block
           [] OTHER -> NoBlock

VerifiedCursor(S) ==
    LET verified == {x \in S : Position(x.finding) # NoBlock}
    IN IF verified = {} THEN 0 ELSE Position(Latest(verified).finding)

\* Mutant: only a confirmed block is asked about again.
CurrentAccepting_Confirmed ==
    IF derived.status \in {"CONFIRMED", "FINALIZED"} THEN derived.block ELSE NoBlock

\* The block the evidence establishes as accepting.
CurrentAccepting == IF derived.status \in Positive THEN derived.block ELSE NoBlock

\* The evidence is read and the cursor chosen before the first call.
Begin(l) ==
    /\ look[l].pc = "idle" /\ taken < MaxLooks
    /\ taken' = taken + 1
    /\ look' = [look EXCEPT ![l] = [Idle EXCEPT !.pc = "point", !.prev = CurrentAccepting,
                 !.start = VerifiedCursor(sealed), !.cursor = VerifiedCursor(sealed), !.quiet = TRUE]]
    /\ UNCHANGED <<path, accepting, tip, config, evidence, faults>>

At(l, pc) == look[l].pc = pc
Sink(l) == tip[observerOf[l]]

\* getBlockDagInfo and getSinkBlueScore.
ReadPoint(l) ==
    /\ At(l, "point")
    /\ look' = [look EXCEPT ![l].blue = Height(Sink(l)),
                            ![l].pc = IF look[l].prev # NoBlock THEN "previous" ELSE "scan"]
    /\ UNCHANGED <<path, accepting, tip, config, evidence, taken, faults>>

\* seal and write look t: an incoherent observation throws and nothing is
\* recorded.
Seal(l, t, f, coherent) ==
    /\ sealed' = IF coherent
                 THEN sealed \cup {[observer |-> observerOf[l], blue |-> t.blue, at |-> Cardinality(sealed) + 1,
                                    finding |-> f, truth |-> t.truth]}
                 ELSE sealed
    /\ derived' = DeriveTxStatus(submission, sealed')
    /\ look' = [Disturbed(l, observerOf[l]) EXCEPT ![l] = Idle]

\* The look after one answer about the chain above `from': a block that
\* accepts the transaction, one more block to go on from, or the end (of the
\* chain or of the batches).
Told(l, from, found) ==
    LET next == NextOnChain(from, Sink(l))
        t == [look[l] EXCEPT !.batches = @ + 1]
        now == Truth(Sink(l))
    IN IF next = NoBlock THEN [t EXCEPT !.pc = "ended", !.truth = now]
       ELSE IF next \in accepting THEN [t EXCEPT !.pc = found, !.block = next, !.truth = now]
       ELSE [t EXCEPT !.cursor = next, !.pc = IF t.batches >= maxBatches THEN "ended" ELSE @]

\* The chain that replaced the accepting block is followed to its end; only
\* if it does not accept the transaction is the removal the finding.
FollowFrom(l, from) ==
    LET t == [Told(l, from, "moved") EXCEPT !.pc = IF @ = "previous" THEN "follow" ELSE @]
    IN IF t.pc = "ended"
       THEN Seal(l, t, Finding("chain_removed", t.prev), TRUE)
       ELSE look' = [look EXCEPT ![l] = t] /\ UNCHANGED evidence

\* Is the block established as accepting still on the selected chain?
AskPrevious(l) ==
    /\ At(l, "previous")
    /\ IF OnChain(look[l].prev, Sink(l))
         THEN /\ look' = [look EXCEPT ![l].pc = "header", ![l].block = look[l].prev,
                                      ![l].truth = Truth(Sink(l))]
              /\ UNCHANGED evidence
         ELSE FollowFrom(l, look[l].prev)
    /\ UNCHANGED <<path, accepting, tip, config, taken, faults>>

Follow(l) ==
    /\ At(l, "follow")
    /\ FollowFrom(l, look[l].cursor)
    /\ UNCHANGED <<path, accepting, tip, config, taken, faults>>

\* The finding of a scan that met no acceptance, given what getMempoolEntry
\* answered: its window ends at the last block read.
Unseen(t, pool) ==
    IF pool # "none"
    THEN [Finding(pool, NoBlock) EXCEPT !.to = IF t.batches > 0 THEN t.cursor ELSE NoBlock]
    ELSE [Finding("not_found", NoBlock) EXCEPT !.from = t.start,
            !.to = IF t.cursor # t.start THEN t.cursor ELSE NoBlock]

\* getMempoolEntry, and the scan of the chain from the cursor.  What the
\* mempool holds is left open; it matters only when the chain says nothing.
ScanChain(l) ==
    /\ At(l, "scan")
    /\ LET t == Told(l, look[l].cursor, "header")
       IN IF t.pc = "ended"
          THEN \E pool \in Pools \cup {"none"} : Seal(l, t, Unseen(t, pool), TRUE)
          ELSE look' = [look EXCEPT ![l] = t] /\ UNCHANGED evidence
    /\ UNCHANGED <<path, accepting, tip, config, taken, faults>>

\* Mutant: the depth is measured from the sink of the moment.
ReadHeader_Sink(l) ==
    /\ look[l].pc \in {"header", "moved"}
    /\ LET t == look[l]
           depth == Height(Sink(l)) - Height(t.block)
           f == IF depth >= FinalityDepth
                THEN [Finding("finality_reached", t.block) EXCEPT !.depth = depth]
                ELSE [Finding("chain_accepted", t.block) EXCEPT !.depth = Max({depth, 0}),
                        !.replaced = IF t.pc = "moved" THEN t.prev ELSE NoBlock]
       IN Seal(l, t, f, Coherent(t.blue, Height(t.block), f))
    /\ UNCHANGED <<path, accepting, tip, config, taken, faults>>

\* acceptedBy: the depth is measured from the sink read at the start.
ReadHeader(l) ==
    /\ look[l].pc \in {"header", "moved"}
    /\ LET t == look[l]
           depth == t.blue - Height(t.block)
           f == IF depth >= FinalityDepth
                THEN [Finding("finality_reached", t.block) EXCEPT !.depth = depth]
                ELSE [Finding("chain_accepted", t.block) EXCEPT !.depth = Max({depth, 0}),
                        !.replaced = IF t.pc = "moved" THEN t.prev ELSE NoBlock]
       IN Seal(l, t, f, Coherent(t.blue, Height(t.block), f))
    /\ UNCHANGED <<path, accepting, tip, config, taken, faults>>

-----------------------------------------------------------------------------
(* Calls that fail *)
Fault == faults < MaxFaults /\ faults' = faults + 1

\* The node cannot say what became of the accepting block: the look goes on
\* without it.
PreviousUnserved(l) ==
    /\ At(l, "previous") /\ Fault
    /\ look' = [look EXCEPT ![l].pc = "scan", ![l].quiet = FALSE]
    /\ UNCHANGED <<path, accepting, tip, config, evidence, taken>>

\* Mutant: the window of a look that could not read the chain ends at the sink.
Unserved_Sink(l) ==
    /\ look[l].pc \in {"scan", "header", "moved"} /\ Fault
    /\ LET t == look[l]
       IN \/ Seal(l, t, Finding("pruned_unobservable", NoBlock), TRUE)
          \/ t.pc = "scan" /\ \E pool \in Pools :
               Seal(l, t, [Unseen(t, pool) EXCEPT !.to = Sink(l)], TRUE)
    /\ UNCHANGED <<path, accepting, tip, config, taken>>

\* The chain is not served from the cursor, or the accepting block is pruned.
Unserved(l) ==
    /\ look[l].pc \in {"scan", "header", "moved"} /\ Fault
    /\ LET t == look[l]
       IN \/ Seal(l, t, Finding("pruned_unobservable", NoBlock), TRUE)
          \/ t.pc = "scan" /\ \E pool \in Pools : Seal(l, t, Unseen(t, pool), TRUE)
    /\ UNCHANGED <<path, accepting, tip, config, taken>>

\* Any other failed or incoherent answer ends the look, nothing sealed.
CallFails(l) ==
    /\ look[l].pc # "idle" /\ Fault
    /\ look' = [look EXCEPT ![l] = Idle]
    /\ UNCHANGED <<path, accepting, tip, config, evidence, taken>>

Next ==
    \/ \E p \in Blocks, accepts \in BOOLEAN : NewBlock(p, accepts)
    \/ \E o \in Observers, b \in Blocks : MoveTip(o, b)
    \/ \E l \in Looks :
         \/ Begin(l) \/ ReadPoint(l) \/ AskPrevious(l) \/ Follow(l) \/ ScanChain(l) \/ ReadHeader(l)
         \/ PreviousUnserved(l) \/ Unserved(l) \/ CallFails(l)

Spec == Init /\ [][Next]_vars

-----------------------------------------------------------------------------
(* Properties *)
Seen == {x.observer : x \in sealed}

\* An accepting block that a look reported removed.
Reported(b) == \E x \in sealed : x.finding.type = "chain_removed" /\ x.finding.block = b

\* The types; a block is the end of its own path, and a look reads no more batches
\* than maxBatches.
TypeOK ==
    /\ \A b \in DOMAIN path : path[b] \in Seq(Blocks) /\ path[b][Len(path[b])] = b
    /\ accepting \subseteq 1..MaxBlocks
    /\ tip \in [Observers -> 0..MaxBlocks]
    /\ \A l \in Looks : look[l].batches \in 0..maxBatches /\ look[l].cursor \in Blocks
    /\ faults \in 0..MaxFaults /\ taken \in 0..MaxLooks

\* A depth is never overstated: it is at most the depth the block had when the
\* node last said it was on its chain (observeTxOnce measures from the sink it
\* read first).
NeverOverstated ==
    \A x \in sealed : Took(x) =>
        x.truth.block = x.finding.block /\ x.finding.depth <= x.truth.depth

\* "The observer's cursor never moves past chain that a look did not read": an
\* acceptance on the chain that is not established lies above the cursor, so
\* the next scan meets it.  The exception is a block that was reported removed
\* and came back to the chain: it is itself the cursor, and no later look asks
\* about it.
CursorNeverSkips ==
    \A o \in Observers :
        LET b == AcceptedOn(tip[o])
        IN b # NoBlock /\ derived.status \notin Positive /\ ~Reported(b) =>
             ~OnChain(b, VerifiedCursor(sealed))

\* Block b is not among the maxBatches blocks that look l can read: those of the
\* chain above the block it starts from.
OutOfReach(l, b) ==
    LET from == IF look[l].prev # NoBlock THEN look[l].prev ELSE look[l].start
    IN Height(b) >= Common(from, Sink(l)) + maxBatches

\* A look during which nothing else happened settles the question: afterwards
\* the derived state names the accepting block of the chain, or none if there
\* is none.  Not so if the block lies more than maxBatches blocks ahead of the
\* look, which then stops and leaves it to the next ones; if it had been reported
\* removed; or if the evidence was already in conflict: then no look asks about
\* the earlier block again, and only finality ends the conflict.
QuietLookDecides ==
    [][\A l \in Looks :
         LET t == Truth(Sink(l)) IN
         look[l].quiet /\ look'[l].pc = "idle" /\ faults' = faults
           /\ Seen \subseteq {observerOf[l]} =>
           IF t.block = NoBlock THEN derived'.status \notin Positive
           ELSE \/ derived'.status \in Positive /\ derived'.block = t.block
                \/ OutOfReach(l, t.block) \/ Reported(t.block) \/ derived = Conflicting]_sealed

\* A covenant or ZK state that is called final stays, unless it is the final
\* TRANSITION_REJECTED / TX_REJECTED of a transaction a chain accepts after
\* all, or another observer disagrees.
FinalOperationStays ==
    [][LET was == derived.status
           is == derived'.status
       IN CovenantStatus(was, FALSE).isFinal \/ ZkOperationStatus(TRUE, was).isFinal =>
            \/ /\ CovenantStatus(was, FALSE) = CovenantStatus(is, FALSE)
               /\ ZkOperationStatus(TRUE, was) = ZkOperationStatus(TRUE, is)
            \/ was = "REJECTED_BY_NODE"
            \/ is = "CONFLICTING_OBSERVATIONS" /\ Cardinality(Seen') > 1]_sealed

=============================================================================

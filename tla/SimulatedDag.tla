---------------------------- MODULE SimulatedDag ----------------------------
(***************************************************************************)
(* The simulated DAG of the localnet (packages/localnet/src/dag.ts): blocks *)
(* are added with their GHOSTDAG data, and moving the sink decides which of *)
(* the transactions in its past are accepted and which are displaced.       *)
(***************************************************************************)
EXTENDS Ghostdag

CONSTANTS
    Ks,         \* the GHOSTDAG parameters a DAG may be created with
    Inputs,     \* Inputs[t]: the outpoints transaction t spends
    Payloads,   \* sequences of transactions a block may carry
    MaxBlocks,  \* bound, for each k: blocks beside genesis; their hashes are 1..MaxBlocks[k]
    MaxCarriers \* bound, for each k: blocks that carry transactions

Txs == DOMAIN Inputs

ASSUME SimulatedDagAssumption ==
    /\ Ks \subseteq Nat
    /\ \A t \in Txs : Inputs[t] # {}
    /\ Payloads \subseteq Seq(Txs)
    /\ {MaxBlocks, MaxCarriers} \subseteq [Ks -> Nat]

VARIABLES
    k,
    dag,        \* the blocks and their GHOSTDAG data
    txs,        \* acceptedTxIds of each block
    daa,        \* daaScore of each block
    isBlue,     \* the colour each block was given last
    sink,
    path,       \* selectedPathToSink, as a set: the blocks of a chain
    accepted, displaced, conflicts, \* conflicts: <<outpoint, winner, loser>>
    recoloured  \* ghost: a block under the sink changed its colour since the sink moved

result == <<sink, path, accepted, displaced, conflicts>>
vars == <<k, dag, txs, daa, isBlue, result, recoloured>>

At(f, b, v) == [x \in DOMAIN f \cup {b} |-> IF x = b THEN v ELSE f[x]]

Init ==
    /\ k \in Ks /\ recoloured = FALSE
    /\ dag = [b \in {Genesis} |-> GenesisData]
    /\ txs = [b \in {Genesis} |-> <<>>] /\ daa = [b \in {Genesis} |-> 0]
    /\ isBlue = [b \in {Genesis} |-> FALSE]
    /\ sink = Genesis /\ path = {Genesis} /\ accepted = {} /\ displaced = {} /\ conflicts = {}

\* addSimulatedBlock: the new block is blue, and its mergeset is coloured.
AddSimulatedBlock(b, parents, payload) ==
    /\ b \notin DOMAIN dag /\ parents # {}
    /\ payload # <<>> => Cardinality({x \in DOMAIN txs : txs[x] # <<>>}) < MaxCarriers[k]
    /\ dag' = At(dag, b, ComputeGhostdag(k, dag, b, parents))
    /\ txs' = At(txs, b, payload)
    /\ daa' = At(daa, b, 1 + (CHOOSE m \in {daa[p] : p \in parents} : \A p \in parents : daa[p] <= m))
    /\ isBlue' = [x \in DOMAIN dag' |-> \/ x = b
                                        \/ x \in dag'[b].blues
                                        \/ x \notin dag'[b].reds /\ isBlue[x]]
    /\ recoloured' = (recoloured \/ \E x \in dag[sink].past \ {Genesis} : isBlue'[x] # isBlue[x])
    /\ UNCHANGED <<k, result>>

Added == DOMAIN dag \ {Genesis}

-----------------------------------------------------------------------------
\* The order of moveSink: work, colour, DAA score, id.  Genesis is left out: it
\* carries no transactions.
Earlier(a, b) ==
    \/ dag[a].work < dag[b].work
    \/ /\ dag[a].work = dag[b].work
       /\ \/ isBlue[a] /\ ~isBlue[b]
          \/ isBlue[a] = isBlue[b] /\ (daa[a] < daa[b] \/ (daa[a] = daa[b] /\ a < b))

\* Mutant: the blocks outside the sink's past are not left out.
Sequenced_AllBlocks(s) ==
    LET order == Sorted(Added, Earlier)
    IN FlattenSeq([i \in 1..Len(order) |-> txs[order[i]]])

\* Mutant: red blocks do not count.
Sequenced_BluesOnly(s) ==
    LET order == Sorted({b \in dag[s].past \ {Genesis} : isBlue[b]}, Earlier)
    IN FlattenSeq([i \in 1..Len(order) |-> txs[order[i]]])

\* identifyReachableBlocks and the sort: the transactions of the sink's past, in
\* that order.
Sequenced(s) ==
    LET order == Sorted(dag[s].past \ {Genesis}, Earlier)
    IN FlattenSeq([i \in 1..Len(order) |-> txs[order[i]]])

CalculateSelectedPath(s) ==
    LET walk[b \in DOMAIN dag] == IF b = Genesis THEN {b} ELSE {b} \cup walk[dag[b].sp]
    IN walk[s]

\* findBestTip: the best of the blocks that are nobody's parent.
FindBestTip == FindSelectedParent(dag, DOMAIN dag \ UNION {dag[b].parents : b \in DOMAIN dag})

\* The conflict a transaction is listed under: its first input that is spent.
ConflictOf(t, spent) ==
    LET hit == {s \in spent : s[1] \in Inputs[t]}
        first == {s \in hit : \A r \in hit : s[1] <= r[1]}
    IN {<<s[1], s[2], t>> : s \in first}

\* The loop over the transactions: one whose input is spent is displaced, with
\* the first such input as the conflict; any other is accepted.
Decide(order) ==
    LET start == [accepted |-> {}, displaced |-> {}, spent |-> {}, conflicts |-> {}]
        after[n \in 0..Len(order)] ==
            IF n = 0 THEN start
            ELSE LET a == after[n - 1]
                     t == order[n]
                     conflict == ConflictOf(t, a.spent)
                 IN IF conflict = {}
                    THEN [a EXCEPT !.accepted = @ \cup {t}, !.spent = @ \cup (Inputs[t] \X {t})]
                    ELSE [a EXCEPT !.displaced = @ \cup {t},
                                   !.conflicts = @ \cup conflict]
    IN after[Len(order)]

NewlyDisplaced(now) == accepted \ now

\* moveSink.  What was accepted before and is not now is displaced too.
MoveSink(s) ==
    LET d == Decide(Sequenced(s))
        gone == NewlyDisplaced(d.accepted)
    IN /\ s \in DOMAIN dag
       /\ sink' = s /\ path' = CalculateSelectedPath(s)
       /\ accepted' = d.accepted
       /\ displaced' = d.displaced \cup gone
       /\ conflicts' = d.conflicts \cup UNION {ConflictOf(t, d.spent) : t \in gone}
       /\ recoloured' = FALSE
       /\ UNCHANGED <<k, dag, txs, daa, isBlue>>

\* The parents a miner names: none is an ancestor of another.
Antichains == {S \in SUBSET DOMAIN dag : \A p, q \in S : p # q => p \notin dag[q].past}

Next ==
    \/ \E b \in 1..MaxBlocks[k], parents \in Antichains, payload \in Payloads : AddSimulatedBlock(b, parents, payload)
    \/ \E s \in DOMAIN dag : MoveSink(s)

Spec == Init /\ [][Next]_vars

-----------------------------------------------------------------------------
(* Properties *)
Conflict(t, u) == Inputs[t] \cap Inputs[u] # {}
InPast(s) == UNION {ToSet(txs[b]) : b \in dag[s].past}

\* The shape of the state: a selected parent is a parent, no block is merged as
\* both blue and red, and the path leads from genesis to the sink.
TypeOK ==
    /\ DOMAIN dag \subseteq 0..MaxBlocks[k] /\ {Genesis, sink} \subseteq path /\ path \subseteq dag[sink].past
    /\ \A b \in Added : dag[b].sp \in dag[b].parents /\ dag[b].blues \cap dag[b].reds = {}
    /\ accepted \cup displaced \subseteq Txs

\* What computeGhostdag computes block by block is what it is defined to be: the
\* search for the mergeset finds the blocks in the past of a block that are not in
\* the past of its selected parent, and the blue score, added up along selected
\* parents, counts every block their chain merged as blue, none twice.
DataAsDefined ==
    LET bluePast[b \in DOMAIN dag] == IF b = Genesis THEN {} ELSE bluePast[dag[b].sp] \cup dag[b].blues
    IN \A b \in Added :
         /\ dag[b].blues \cup dag[b].reds = (dag[b].past \ (dag[dag[b].sp].past \cup {b})) \cup {dag[b].sp}
         /\ dag[b].score = Cardinality(bluePast[b])

\* No block of the set has more than k others in its anticone.
KCluster(S) == \A x \in S : Cardinality({y \in S : InAnticone(dag, x, y)}) <= k

\* computeGhostdag colours greedily: in the order of the mergeset, a block is
\* blue exactly if it makes a k-cluster with the selected parent and the blues
\* before it.  The engine does not count anticones anew for each block but keeps
\* their sizes, and it pushes two sizes for each blue: from the second blue on
\* the size it reads is another block's.  That never makes a block red that
\* should be blue, nor the other way round.
GreedyColouring ==
    \A b \in Added : \A x \in (dag[b].blues \cup dag[b].reds) \ {dag[b].sp} :
        LET blues == {dag[b].sp} \cup {y \in dag[b].blues : Before(dag, y, x)}
        IN x \in dag[b].blues <=> KCluster(blues \cup {x})

\* What moveSink accepts is a maximal set without double spends: no outpoint is
\* spent by two accepted transactions, and one under the sink is refused only for
\* an accepted one that spends one of its inputs, so what an earlier sink displaced
\* is reconsidered.
MaximalAcceptance ==
    /\ \A t, u \in accepted : t # u => ~Conflict(t, u)
    /\ \A t \in InPast(sink) \ accepted : \E u \in accepted : Conflict(t, u)

\* Blocks added after the sink moved do not change what moving it again to the
\* same block would accept, unless one of them recolours a block under the sink:
\* colours are one field per block, written by whoever merges it last.
VerdictStands == recoloured \/ accepted = Decide(Sequenced(sink)).accepted

=============================================================================

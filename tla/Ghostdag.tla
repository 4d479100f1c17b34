------------------------------ MODULE Ghostdag ------------------------------
(***************************************************************************)
(* The GHOSTDAG approximation of the simulator (packages/simulator/src): the *)
(* selected parent, the mergeset and its colouring, for a block that is     *)
(* being added to a DAG.                                                    *)
(*                                                                         *)
(* Blocks are numbered by the order of their hashes; genesis, whose hash is *)
(* all zeros, is 0.  A DAG maps its blocks to records with the fields       *)
(* parents, past (pastSet: the block and its ancestors), sp, blues, reds    *)
(* (mergesetBlues and mergesetReds), score and work.  All blocks of a       *)
(* simulated DAG have the same difficulty, so work counts blocks.  k is the *)
(* parameter of the engine: how many blues may be parallel to a blue.       *)
(***************************************************************************)
EXTENDS Integers, FiniteSets, Sequences, SequencesExt

Genesis == 0
GenesisData == [parents |-> {}, past |-> {Genesis}, sp |-> Genesis, blues |-> {Genesis}, reds |-> {},
                score |-> 0, work |-> 0]

\* compareSortableBlocks: ascending by blueWork, then by hash.
Before(dag, a, b) ==
    dag[a].work < dag[b].work \/ (dag[a].work = dag[b].work /\ a < b)

FindSelectedParent(dag, parents) == CHOOSE p \in parents : \A q \in parents \ {p} : Before(dag, q, p)

\* The sequence of the elements of S in the order LT.
Sorted(S, LT(_, _)) ==
    LET least[T \in SUBSET S] ==
            IF T = {} THEN <<>>
            ELSE LET x == CHOOSE x \in T : \A y \in T \ {x} : LT(x, y) IN <<x>> \o least[T \ {x}]
    IN least[S]

SortBlocks(dag, S) == Sorted(S, LAMBDA a, b : Before(dag, a, b))

-----------------------------------------------------------------------------
\* Mutant: the search goes on below the past of the selected parent.
Mergeset_Through(dag, parents, sp) ==
    LET seed == {p \in parents : p # sp /\ p \notin dag[sp].past}
        found[n \in 0..Cardinality(DOMAIN dag)] ==
            IF n = 0 THEN seed
            ELSE found[n - 1] \cup (UNION {dag[b].parents : b \in found[n - 1]} \ {Genesis})
    IN found[Cardinality(DOMAIN dag)]

\* unorderedMergesetWithoutSelectedParent: breadth first from the other
\* parents, never into the past of the selected parent.
Mergeset(dag, parents, sp) ==
    LET seed == {p \in parents : p # sp /\ p \notin dag[sp].past}
        found[n \in 0..Cardinality(DOMAIN dag)] ==
            IF n = 0 THEN seed
            ELSE LET S == found[n - 1]
                 IN S \cup (UNION {dag[b].parents : b \in S} \ (dag[sp].past \cup {Genesis}))
    IN found[Cardinality(DOMAIN dag)]

\* orderedMergesetWithoutSelectedParent
OrderedMergeset(dag, parents, sp) == SortBlocks(dag, Mergeset(dag, parents, sp))

\* isDagAncestorOf: genesis is everyone's ancestor, a block its own.
IsDagAncestorOf(dag, a, b) == a = Genesis \/ a \in dag[b].past
InAnticone(dag, a, b) == ~IsDagAncestorOf(dag, a, b) /\ ~IsDagAncestorOf(dag, b, a)

\* checkBlueCandidateApprox: the positions of the context that are in the
\* candidate's anticone, if the candidate may be blue.
Touched(dag, c, blues) == {i \in 1..Len(blues) : InAnticone(dag, blues[i], c)}

\* Mutant: the sizes are compared when they count the candidate already.
MayBeBlue_CountedFirst(k, dag, c, blues, sizes) ==
    LET touched == Touched(dag, c, blues)
    IN Cardinality(touched) <= k /\ \A i \in touched : sizes[i] + 1 < k

MayBeBlue(k, dag, c, blues, sizes) ==
    LET touched == Touched(dag, c, blues)
    IN Cardinality(touched) <= k /\ \A i \in touched : sizes[i] < k

\* The loop over the ordered mergeset.  A blue candidate enters the context
\* once, but two sizes are recorded for it: its own by the check, and a zero by
\* the caller.
Colouring(k, dag, sp, ordered) ==
    LET start == [blues |-> <<sp>>, sizes |-> <<0>>, reds |-> {}]
        after[n \in 0..Len(ordered)] ==
            IF n = 0 THEN start
            ELSE LET a == after[n - 1]
                     c == ordered[n]
                     touched == Touched(dag, c, a.blues)
                 IN IF Len(a.blues) - 1 <= k /\ MayBeBlue(k, dag, c, a.blues, a.sizes)
                    THEN [a EXCEPT !.blues = Append(@, c),
                                   !.sizes = [i \in 1..Len(@) |-> @[i] + (IF i \in touched THEN 1 ELSE 0)]
                                             \o <<Cardinality(touched), 0>>]
                    ELSE [a EXCEPT !.reds = @ \cup {c}]
    IN after[Len(ordered)]

ComputeGhostdag(k, dag, b, parents) ==
    LET sp == FindSelectedParent(dag, parents)
        colour == Colouring(k, dag, sp, OrderedMergeset(dag, parents, sp))
    IN [parents |-> parents, past |-> {b} \cup UNION {dag[p].past : p \in parents}, sp |-> sp,
        blues |-> ToSet(colour.blues), reds |-> colour.reds,
        score |-> dag[sp].score + Len(colour.blues), work |-> dag[sp].work + Len(colour.blues)]

=============================================================================

-------------------------- MODULE TxObserverProofs --------------------------
(***************************************************************************)
(* What the looks at a transaction establish, for any tree of blocks, any  *)
(* observers, looks, faults and depth of finality.                         *)
(***************************************************************************)
EXTENDS TxObserver, TLAPS, FiniteSetTheorems, WellFoundedInduction

\* The prover of every leaf that names no other.
USE Zenon

-----------------------------------------------------------------------------
(* The tree of blocks *)

\* The path of a block starts at block 0 and ends at the block; every block on it
\* stands where its own path ends, and has that much of it as its own path.
PathAt(t) ==
    /\ Path(t) \in Seq(Blocks) /\ Len(Path(t)) >= 1
    /\ Path(t)[1] = 0 /\ Path(t)[Len(Path(t))] = t
    /\ \A i \in 1..Len(Path(t)) :
         /\ Len(Path(Path(t)[i])) = i
         /\ \A j \in 1..i : Path(Path(t)[i])[j] = Path(t)[j]

PathsInv ==
    /\ path \in Seq(Seq(Nat)) /\ Len(path) <= MaxBlocks
    /\ \A t \in Blocks : PathAt(t)

\* The depth of a block below a sink of blue score `blue' makes it final.
Deep(b, blue) == Height(b) + FinalityDepth <= blue

\* No chain accepts the transaction twice.
TreeInv ==
    /\ PathsInv
    /\ accepting \subseteq Blocks \ {0}
    /\ \A t \in Blocks : \A b, c \in accepting : OnChain(b, t) /\ OnChain(c, t) => b = c
    /\ tip \in [Observers -> Blocks]

\* Heights and positions.
LEMMA PathFacts ==
    ASSUME PathsInv, NEW t \in Blocks
    PROVE  /\ PathAt(t) /\ Height(t) \in Nat /\ Len(Path(t)) = Height(t) + 1
           /\ DOMAIN Path(t) = 1..Len(Path(t))
           /\ \A i \in 1..Len(Path(t)) : Path(t)[i] \in Blocks
<1>1. PathAt(t)
  BY DEF PathsInv
<1>2. Path(t) \in Seq(Blocks) /\ Len(Path(t)) \in Nat /\ Len(Path(t)) >= 1
  BY <1>1, SMTT(30) DEF PathAt
<1> QED
  BY <1>1, <1>2, SMTT(30) DEF Height

\* A block is on a chain exactly when it stands on it at its own height.
LEMMA OnIndex ==
    ASSUME PathsInv, NEW t \in Blocks, NEW b \in Blocks
    PROVE  OnChain(b, t) <=> Height(b) <= Height(t) /\ Path(t)[Height(b) + 1] = b
<1>1. PathAt(t) /\ DOMAIN Path(t) = 1..Len(Path(t)) /\ Len(Path(t)) = Height(t) + 1
      /\ Height(t) \in Nat /\ Height(b) \in Nat /\ Len(Path(b)) = Height(b) + 1
  BY PathFacts
<1>2. OnChain(b, t) <=> \E i \in 1..Len(Path(t)) : Path(t)[i] = b
  BY <1>1 DEF OnChain, Range
<1>3. ASSUME NEW i \in 1..Len(Path(t)), Path(t)[i] = b PROVE i = Height(b) + 1
  BY <1>1, <1>3, SMTT(30) DEF PathAt
<1>4. ASSUME Height(b) <= Height(t) PROVE Height(b) + 1 \in 1..Len(Path(t))
  BY <1>1, <1>4, SMTT(30)
<1>5. ASSUME NEW i \in 1..Len(Path(t)), i = Height(b) + 1 PROVE Height(b) <= Height(t)
  BY <1>1, <1>5, SMTT(30)
<1> QED
  BY <1>2, <1>3, <1>4, <1>5

\* Two blocks of a chain at one height are one, and a chain has a block at every
\* height up to its tip's.
LEMMA OneAtHeight ==
    ASSUME PathsInv, NEW t \in Blocks
    PROVE  /\ OnChain(t, t)
           /\ \A b, c \in Blocks : OnChain(b, t) /\ OnChain(c, t) /\ Height(b) = Height(c) => b = c
           /\ \A b \in Blocks : Height(b) <= Height(t) =>
                \E c \in Blocks : OnChain(c, t) /\ Height(c) = Height(b)
<1>1. PathAt(t) /\ DOMAIN Path(t) = 1..Len(Path(t)) /\ Len(Path(t)) = Height(t) + 1 /\ Height(t) \in Nat
      /\ \A i \in 1..Len(Path(t)) : Path(t)[i] \in Blocks
  BY PathFacts
<1>2. OnChain(t, t)
  <2>1. Len(Path(t)) \in 1..Len(Path(t))
    BY <1>1, SMTT(30)
  <2> QED
    BY <1>1, <2>1 DEF OnChain, Range, PathAt
<1>3. \A b, c \in Blocks : OnChain(b, t) /\ OnChain(c, t) /\ Height(b) = Height(c) => b = c
  <2>1. ASSUME NEW b \in Blocks, OnChain(b, t) PROVE Path(t)[Height(b) + 1] = b
    BY <2>1, OnIndex
  <2> QED BY <2>1
<1>4. ASSUME NEW b \in Blocks, Height(b) <= Height(t)
      PROVE  \E c \in Blocks : OnChain(c, t) /\ Height(c) = Height(b)
  <2>1. Height(b) \in Nat /\ Height(b) + 1 \in 1..Len(Path(t))
    BY <1>1, <1>4, PathFacts, SMTT(30)
  <2> DEFINE c == Path(t)[Height(b) + 1]
  <2>2. c \in Blocks /\ Len(Path(c)) = Height(b) + 1
    BY <1>1, <2>1 DEF PathAt
  <2>3. Height(c) = Height(b)
    BY <2>1, <2>2, SMTT(30) DEF Height
  <2>4. OnChain(c, t)
    BY <1>1, <2>1 DEF OnChain, Range
  <2> QED BY <2>2, <2>3, <2>4
<1> QED BY <1>2, <1>3, <1>4

\* A bounded, non-empty set of natural numbers has a greatest element.
LEMMA Greatest ==
    ASSUME NEW S \in SUBSET Nat, S # {}, NEW n \in Nat, \A m \in S : m <= n
    PROVE  \E x \in S : \A y \in S : y <= x
<1> DEFINE T == {n - m : m \in S}
<1>0. \A m \in S : n - m \in Nat
  BY SMTT(30)
<1>1. T \in SUBSET Nat /\ T # {}
  BY <1>0
<1>2. \E x \in T : \A y \in T : ~(<<y, x>> \in OpToRel(<, Nat))
  <2> HIDE DEF T
  <2> QED BY <1>1, NatLessThanWellFounded, WFMin
<1>3. PICK x \in T : \A y \in T : ~(<<y, x>> \in OpToRel(<, Nat))
  BY <1>2
<1>4. PICK a \in S : x = n - a
  BY <1>3
<1>5. ASSUME NEW y \in S PROVE y <= a
  <2>1. ~(n - y < n - a) \/ ~(n - y \in Nat /\ n - a \in Nat)
    BY <1>3, <1>4 DEF OpToRel
  <2> QED BY <1>1, <2>1, SMTT(30)
<1> QED BY <1>5

\* The next block of a scan is on the chain that is scanned, and of the blocks
\* below it those that are not on the chain of the cursor were not passed by.
LEMMA NextFacts ==
    ASSUME PathsInv, NEW start \in Blocks, NEW t \in Blocks, NoBlock \notin Blocks,
           NextOnChain(start, t) # NoBlock
    PROVE  /\ NextOnChain(start, t) \in Blocks /\ OnChain(NextOnChain(start, t), t)
           /\ \A b \in Blocks : OnChain(b, NextOnChain(start, t)) =>
                b = NextOnChain(start, t) \/ OnChain(b, start)
<1> DEFINE S == {i \in DOMAIN Path(t) : i <= Len(Path(start)) /\ Path(t)[i] = Path(start)[i]}
           m == Max(S)
<1>1. /\ PathAt(t) /\ DOMAIN Path(t) = 1..Len(Path(t)) /\ Len(Path(t)) = Height(t) + 1 /\ Height(t) \in Nat
      /\ \A i \in 1..Len(Path(t)) : Path(t)[i] \in Blocks
  BY PathFacts
<1>2. /\ PathAt(start) /\ DOMAIN Path(start) = 1..Len(Path(start)) /\ Len(Path(start)) = Height(start) + 1
      /\ Height(start) \in Nat
  BY PathFacts
<1>3. S \in SUBSET Nat /\ 1 \in S /\ \A i \in S : i <= Len(Path(t))
  BY <1>1, <1>2, SMTT(30) DEF PathAt
<1>4. m \in S /\ \A i \in S : i <= m
  <2> HIDE DEF S
  <2>1. Len(Path(t)) \in Nat
    BY <1>1, SMTT(30)
  <2>2. \E x \in S : \A y \in S : y <= x
    BY <1>3, <2>1, Greatest
  <2>3. \E x \in S : \A y \in S : x >= y
    BY <1>3, <2>2, SMTT(30)
  <2>4. m \in S /\ \A y \in S : m >= y
    BY <2>3 DEF Max
  <2> QED BY <1>3, <2>4, SMTT(30)
<1>5. NextOnChain(start, t) = IF m = Len(Path(t)) THEN NoBlock ELSE Path(t)[m + 1]
  BY DEF NextOnChain, Common
<1> DEFINE n == Path(t)[m + 1]
<1>6. m # Len(Path(t)) /\ NextOnChain(start, t) = n
  BY <1>5
<1> HIDE DEF m
<1>7. m + 1 \in 1..Len(Path(t)) /\ m \in 1..Len(Path(t)) /\ m \in 1..Len(Path(start))
      /\ Path(t)[m] = Path(start)[m]
  BY <1>1, <1>2, <1>4, <1>6, SMTT(30)
<1>8. n \in Blocks /\ OnChain(n, t) /\ Len(Path(n)) = m + 1 /\ \A j \in 1..m + 1 : Path(n)[j] = Path(t)[j]
  BY <1>1, <1>7 DEF PathAt, OnChain, Range
<1>9. \A j \in 1..m : Path(t)[j] = Path(start)[j]
  <2>1. \A j \in 1..m : Path(Path(t)[m])[j] = Path(t)[j] /\ Path(Path(start)[m])[j] = Path(start)[j]
    BY <1>1, <1>2, <1>7 DEF PathAt
  <2> QED BY <1>7, <2>1
<1>10. ASSUME NEW b \in Blocks, OnChain(b, n) PROVE b = n \/ OnChain(b, start)
  <2>1. DOMAIN Path(n) = 1..Len(Path(n))
    BY <1>8, PathFacts
  <2>2. PICK j \in 1..m + 1 : Path(n)[j] = b
    BY <1>8, <1>10, <2>1 DEF OnChain, Range
  <2>3. CASE j = m + 1
    BY <1>8, <2>2, <2>3
  <2>4. CASE j # m + 1
    <3>1. j \in 1..m /\ j \in 1..Len(Path(start))
      BY <1>1, <1>2, <1>7, <2>4, SMTT(30)
    <3>2. Path(start)[j] = b
      BY <1>8, <1>9, <2>2, <3>1
    <3> QED BY <1>2, <3>1, <3>2 DEF OnChain, Range
  <2> QED BY <2>3, <2>4
<1> HIDE DEF n
<1> QED BY <1>6, <1>8, <1>10

-----------------------------------------------------------------------------
(* What a step does to the tree *)

\* Blocks stay, with their paths.
PathsStay == Blocks \subseteq Blocks' /\ \A b \in Blocks : Path(b)' = Path(b)

\* A new block gets the path of its parent and itself at the end; the blocks that
\* were there keep theirs.
LEMMA NewBlockPaths ==
    ASSUME PathsInv, NEW p \in Blocks, NEW accepts, NewBlock(p, accepts), NEW n, n = Len(path) + 1
    PROVE  /\ PathsInv' /\ PathsStay /\ Blocks' = Blocks \cup {n} /\ n \notin Blocks
           /\ Path(n)' = Append(Path(p), n)
<1>1. path \in Seq(Seq(Nat)) /\ Len(path) \in Nat /\ n \in Nat
  BY SMTT(30) DEF PathsInv
<1>2. PathAt(p) /\ DOMAIN Path(p) = 1..Len(Path(p)) /\ Len(Path(p)) \in Nat
  BY PathFacts, SMTT(30)
<1>3. path' = Append(path, Append(Path(p), n)) /\ Len(path) < MaxBlocks
  BY DEF NewBlock
<1>4. Append(Path(p), n) \in Seq(Nat)
  BY <1>1, <1>2, SMTT(30) DEF PathAt, Blocks
<1>5. path' \in Seq(Seq(Nat)) /\ Len(path') = n /\ n <= MaxBlocks
      /\ path'[n] = Append(Path(p), n) /\ \A b \in 1..Len(path) : path'[b] = path[b]
  BY <1>1, <1>3, <1>4, ObserverAssumption, SMTT(30)
<1>6. Blocks' = Blocks \cup {n} /\ n \notin Blocks
  BY <1>1, <1>5, SMTT(30) DEF Blocks
<1>7. ASSUME NEW b \in Blocks PROVE Path(b)' = Path(b)
  BY <1>1, <1>5, SMTT(30) DEF Blocks, Path
<1>8. Path(n)' = Append(Path(p), n)
  BY <1>1, <1>5, SMTT(30) DEF Path
<1>9. ASSUME NEW t \in Blocks PROVE PathAt(t)'
  <2>1. PathAt(t) /\ \A i \in 1..Len(Path(t)) : Path(t)[i] \in Blocks
    BY PathFacts
  <2>2. \A i \in 1..Len(Path(t)) : Path(Path(t)[i])' = Path(Path(t)[i])
    BY <1>7, <2>1
  <2>3. Path(t)' \in Seq(Blocks')
    BY <1>6, <1>7, <2>1, SMTT(30) DEF PathAt
  <2> QED BY <1>7, <2>1, <2>2, <2>3 DEF PathAt
<1>10. PathAt(n)'
  <2> DEFINE m == Len(Path(p))
  <2>1. /\ Len(Path(n)') = m + 1 /\ Path(n)'[m + 1] = n /\ \A i \in 1..m : Path(n)'[i] = Path(p)[i]
        /\ Path(n)' \in Seq(Blocks')
    BY <1>2, <1>6, <1>8, SMTT(30) DEF PathAt
  <2>2. m >= 1 /\ Path(p)[1] = 0
    BY <1>2 DEF PathAt
  <2>3. ASSUME NEW i \in 1..m + 1
        PROVE  Len(Path(Path(n)[i]))' = i /\ \A j \in 1..i : (Path(Path(n)[i])[j])' = (Path(n)[j])'
    <3>1. CASE i = m + 1
      <4>1. (Path(n)[i])' = n
        BY <2>1, <3>1
      <4>2. (Path(Path(n)[i]))' = Path(n)'
        BY <4>1
      <4> QED BY <2>1, <3>1, <4>2
    <3>2. CASE i # m + 1
      <4>1. i \in 1..m /\ 1..i \subseteq 1..m
        BY <1>2, <3>2, SMTT(30)
      <4>2. Path(p)[i] \in Blocks /\ Path(n)'[i] = Path(p)[i]
        BY <2>1, <4>1, PathFacts
      <4>3. Len(Path(Path(p)[i])) = i /\ \A j \in 1..i : Path(Path(p)[i])[j] = Path(p)[j]
        BY <1>2, <4>1 DEF PathAt
      <4> QED BY <1>7, <2>1, <4>1, <4>2, <4>3
    <3> QED BY <3>1, <3>2
  <2>4. Path(n)'[1] = 0 /\ Len(Path(n)') >= 1
    BY <1>2, <2>1, <2>2, SMTT(30)
  <2> QED BY <2>1, <2>3, <2>4 DEF PathAt
<1>11. PathsInv'
  BY <1>5, <1>6, <1>9, <1>10 DEF PathsInv
<1> QED BY <1>6, <1>7, <1>8, <1>11 DEF PathsStay

\* The steps of a look.
LookStep(l) ==
    \/ Begin(l) \/ ReadPoint(l) \/ AskPrevious(l) \/ Follow(l) \/ ScanChain(l) \/ ReadHeader(l)
    \/ PreviousUnserved(l) \/ Unserved(l) \/ CallFails(l)

\* What is known of the blocks stays known; a block that accepts the transaction
\* is on no chain that was there before it.
TreeStays ==
    /\ Blocks \subseteq Blocks' /\ accepting \subseteq accepting'
    /\ \A t \in Blocks :
         /\ Height(t)' = Height(t)
         /\ \A b \in Blocks : OnChain(b, t)' <=> OnChain(b, t)
         /\ \A b \in accepting' : OnChain(b, t)' => b \in accepting

\* A node's sink never gets lower; whether a block that is final at its height is
\* on its chain never changes.
SinkStays(o) ==
    /\ Height(tip[o]) <= Height(tip[o])' /\ Height(tip[o])' \in Nat
    /\ \A b \in Blocks : Deep(b, Height(tip[o])) => (OnChain(b, tip[o])' <=> OnChain(b, tip[o]))

\* A new block.
LEMMA NewBlockTree ==
    ASSUME TreeInv, NEW p \in Blocks, NEW accepts \in BOOLEAN, NewBlock(p, accepts)
    PROVE  TreeInv' /\ TreeStays /\ tip' = tip
<1> DEFINE n == Len(path) + 1
<1>0. PICK m : m = n
  OBVIOUS
<1>1. PathsInv
  BY DEF TreeInv
<1>2. /\ PathsInv' /\ PathsStay /\ Blocks' = Blocks \cup {m} /\ m \notin Blocks
      /\ Path(m)' = Append(Path(p), m)
  BY <1>0, <1>1, NewBlockPaths
<1>3. /\ accepting' = IF accepts THEN accepting \cup {m} ELSE accepting
      /\ accepts => AcceptedOn(p) = NoBlock
      /\ tip' = tip
  BY <1>0 DEF NewBlock
<1>4. ASSUME NEW t \in Blocks
      PROVE  Height(t)' = Height(t) /\ \A b \in Blocks' : OnChain(b, t)' <=> OnChain(b, t)
  <2>1. Path(t)' = Path(t)
    BY <1>2 DEF PathsStay
  <2> QED BY <2>1 DEF Height, OnChain, Range
<1>5. ASSUME NEW t \in Blocks PROVE ~OnChain(m, t)
  BY <1>1, <1>2, PathFacts DEF OnChain, Range
<1>6. ASSUME NEW b, OnChain(b, m)' PROVE b = m \/ OnChain(b, p)
  <2>1. Path(p) \in Seq(Blocks) /\ DOMAIN Path(p) = 1..Len(Path(p))
    BY <1>1, PathFacts DEF PathAt
  <2>2. \A i \in DOMAIN Append(Path(p), m) :
          Append(Path(p), m)[i] = m \/ (i \in DOMAIN Path(p) /\ Append(Path(p), m)[i] = Path(p)[i])
    BY <2>1, SMTT(30)
  <2>3. PICK i \in DOMAIN Append(Path(p), m) : Append(Path(p), m)[i] = b
    BY <1>2, <1>6 DEF OnChain, Range
  <2> QED BY <2>2, <2>3 DEF OnChain, Range
<1>7. accepting \subseteq Blocks \ {0} /\ 0 \in Blocks /\ NoBlock \notin Blocks
  BY <1>1, ObserverAssumption, SMTT(30) DEF TreeInv, PathsInv, Blocks
<1>8. accepting' \subseteq Blocks' \ {0}
  BY <1>2, <1>3, <1>7
<1>9. accepts => \A b \in accepting : ~OnChain(b, p)
  <2> SUFFICES ASSUME accepts, NEW b \in accepting, OnChain(b, p) PROVE FALSE
    OBVIOUS
  <2> DEFINE hits == Range(Path(p)) \cap accepting
  <2>1. b \in hits
    BY DEF OnChain
  <2>2. AcceptedOn(p) \in hits
    BY <2>1 DEF AcceptedOn
  <2> QED BY <1>3, <1>7, <2>2
<1>10. ASSUME NEW t \in Blocks', NEW b \in accepting', NEW c \in accepting', OnChain(b, t)', OnChain(c, t)'
       PROVE  b = c
  <2>1. CASE t \in Blocks
    <3>1. OnChain(b, t) /\ OnChain(c, t)
      BY <1>4, <1>8, <1>10, <2>1
    <3>2. b \in accepting /\ c \in accepting
      BY <1>3, <1>5, <2>1, <3>1
    <3> QED BY <2>1, <3>1, <3>2 DEF TreeInv
  <2>2. CASE t = m
    <3>1. (b = m \/ OnChain(b, p)) /\ (c = m \/ OnChain(c, p))
      BY <1>6, <1>10, <2>2
    <3>2. CASE accepts
      BY <1>3, <1>5, <1>9, <3>1, <3>2
    <3>3. CASE ~accepts
      <4>1. b \in accepting /\ c \in accepting
        BY <1>3, <3>3
      <4> QED BY <1>2, <1>7, <3>1, <4>1 DEF TreeInv
    <3> QED BY <3>2, <3>3
  <2> QED BY <1>2, <2>1, <2>2
<1>11. tip' \in [Observers -> Blocks']
  BY <1>2, <1>3, SMTT(30) DEF TreeInv
<1>12. TreeInv'
  BY <1>2, <1>8, <1>10, <1>11 DEF TreeInv
<1>13. TreeStays
  <2>1. \A t \in Blocks, b \in accepting' : OnChain(b, t)' => b \in accepting
    BY <1>3, <1>4, <1>5, <1>8
  <2> QED BY <1>2, <1>3, <1>4, <2>1 DEF TreeStays
<1> QED BY <1>3, <1>12, <1>13

\* Without a new block the paths stay.
LEMMA SamePaths ==
    ASSUME PathsInv, UNCHANGED path
    PROVE  PathsInv'
BY SMTT(30) DEF PathsInv, PathAt, Path, Blocks

\* A node moves to a heavier tip, and keeps what is final.
LEMMA MoveTipTree ==
    ASSUME TreeInv, NEW o \in Observers, NEW b \in Blocks, MoveTip(o, b)
    PROVE  TreeInv' /\ TreeStays /\ \A q \in Observers : SinkStays(q)
<1>1. UNCHANGED <<path, accepting>> /\ tip' = [tip EXCEPT ![o] = b] /\ Heavier(b, tip[o])
      /\ \A c \in Range(Path(tip[o])) : Height(tip[o]) - Height(c) >= FinalityDepth => OnChain(c, b)
  BY DEF MoveTip
<1>2. TreeInv' /\ TreeStays
  <2>1. Blocks' = Blocks /\ \A t : Path(t)' = Path(t)
    BY <1>1 DEF Blocks, Path
  <2>2. \A t, c : Height(t)' = Height(t) /\ (OnChain(c, t)' <=> OnChain(c, t))
    BY <1>1 DEF Height, OnChain, Path
  <2>3. PathsInv'
    BY <1>1, SamePaths DEF TreeInv
  <2>4. tip' \in [Observers -> Blocks']
    BY <1>1, <2>1 DEF TreeInv
  <2> QED BY <1>1, <2>1, <2>2, <2>3, <2>4 DEF TreeInv, TreeStays
<1>3. PathsInv /\ tip[o] \in Blocks /\ FinalityDepth \in Nat
  BY DepthAssumption DEF TreeInv
<1>4. ASSUME NEW q \in Observers PROVE SinkStays(q)
  <2>1. CASE q # o
    <3>1. tip'[q] = tip[q] /\ tip[q] \in Blocks
      BY <1>1, <2>1 DEF TreeInv
    <3>2. Height(tip[q])' = Height(tip[q]) /\ \A c \in Blocks : OnChain(c, tip[q])' <=> OnChain(c, tip[q])
      <4>1. path' = path
        BY <1>1
      <4> QED BY <3>1, <4>1 DEF Height, OnChain, Path
    <3>3. Height(tip[q]) \in Nat
      BY <1>3, <3>1, PathFacts
    <3> QED BY <3>2, <3>3, SMTT(30) DEF SinkStays
  <2>2. CASE q = o
    <3>1. Height(tip[o])' = Height(b) /\ \A c : OnChain(c, tip[o])' <=> OnChain(c, b)
      BY <1>1 DEF Height, OnChain, Path, TreeInv
    <3>2. Height(b) \in Nat /\ Height(tip[o]) \in Nat
      BY <1>3, PathFacts
    <3>3. Height(tip[o]) <= Height(b)
      BY <1>1, <3>2, SMTT(30) DEF Heavier
    <3>4. ASSUME NEW c \in Blocks, Deep(c, Height(tip[o])), OnChain(c, tip[o]) PROVE OnChain(c, b)
      <4>1. Height(tip[o]) - Height(c) >= FinalityDepth
        <5>1. Height(c) \in Nat
          BY <1>3, PathFacts
        <5> QED BY <1>3, <3>2, <3>4, <5>1, SMTT(30) DEF Deep
      <4> QED BY <1>1, <3>4, <4>1 DEF OnChain
    <3>5. ASSUME NEW c \in Blocks, Deep(c, Height(tip[o])), OnChain(c, b) PROVE OnChain(c, tip[o])
      <4>1. Height(c) \in Nat /\ Height(c) <= Height(tip[o])
        <5>1. Height(c) \in Nat
          BY <1>3, PathFacts
        <5> QED BY <1>3, <3>2, <3>5, <5>1, SMTT(30) DEF Deep
      <4>2. PICK d \in Blocks : OnChain(d, tip[o]) /\ Height(d) = Height(c)
        BY <1>3, <4>1, OneAtHeight
      <4>3. OnChain(d, b)
        BY <3>4, <3>5, <4>2 DEF Deep
      <4> QED BY <1>3, <3>5, <4>2, <4>3, OneAtHeight
    <3> QED BY <2>2, <3>1, <3>2, <3>3, <3>4, <3>5 DEF SinkStays
  <2> QED BY <2>1, <2>2
<1> QED BY <1>2, <1>4

\* Every step keeps the tree.
LEMMA TreeStep ==
    ASSUME TreeInv, [Next]_vars
    PROVE  TreeInv' /\ TreeStays /\ \A o \in Observers : SinkStays(o)
<1>1. CASE UNCHANGED <<path, accepting, tip>>
  <2>1. Blocks' = Blocks /\ \A t : Path(t)' = Path(t)
    BY <1>1 DEF Blocks, Path
  <2>2. \A t, c : Height(t)' = Height(t) /\ (OnChain(c, t)' <=> OnChain(c, t))
    BY <1>1 DEF Height, OnChain, Path
  <2>3. TreeInv'
    BY <1>1, <2>1, <2>2, SamePaths DEF TreeInv
  <2>4. \A o \in Observers : Height(tip[o]) \in Nat
    BY PathFacts DEF TreeInv
  <2>5. \A o \in Observers : Height(tip[o])' = Height(tip[o]) /\ \A c : OnChain(c, tip[o])' <=> OnChain(c, tip[o])
    BY <1>1 DEF Height, OnChain, Path
  <2>6. \A o \in Observers : Height(tip[o]) <= Height(tip[o])' /\ Height(tip[o])' \in Nat
    BY <2>4, <2>5, SMTT(30)
  <2> QED BY <1>1, <2>1, <2>2, <2>3, <2>5, <2>6 DEF TreeStays, SinkStays
<1>2. ASSUME NEW p \in Blocks, NEW accepts \in BOOLEAN, NewBlock(p, accepts)
      PROVE  \A o \in Observers : SinkStays(o)
  <2>1. TreeStays /\ tip' = tip
    BY <1>2, NewBlockTree
  <2>2. ASSUME NEW o \in Observers PROVE SinkStays(o)
    <3>1. tip[o] \in Blocks /\ tip'[o] = tip[o]
      BY <2>1 DEF TreeInv
    <3>2. Height(tip[o]) \in Nat
      BY <3>1, PathFacts DEF TreeInv
    <3>3. PICK t \in Blocks : t = tip[o]
      BY <3>1
    <3>4. Height(tip[o])' = Height(t)' /\ \A c : OnChain(c, tip[o])' <=> OnChain(c, t)'
      BY <3>1, <3>3 DEF Height, OnChain
    <3>5. Height(tip[o])' = Height(tip[o]) /\ \A c \in Blocks : OnChain(c, tip[o])' <=> OnChain(c, tip[o])
      BY <2>1, <3>3, <3>4 DEF TreeStays
    <3>6. Height(tip[o]) <= Height(tip[o])' /\ Height(tip[o])' \in Nat
      BY <3>2, <3>5, SMTT(30)
    <3> QED BY <3>5, <3>6 DEF SinkStays
  <2> QED BY <2>2
<1>3. \/ \E p \in Blocks, accepts \in BOOLEAN : NewBlock(p, accepts)
      \/ \E o \in Observers, b \in Blocks : MoveTip(o, b)
      \/ UNCHANGED <<path, accepting, tip>>
  BY DEF Next, vars, Begin, ReadPoint, AskPrevious, Follow, ScanChain, ReadHeader,
     PreviousUnserved, Unserved, CallFails
<1> QED BY <1>1, <1>2, <1>3, NewBlockTree, MoveTipTree

-----------------------------------------------------------------------------
(* Types *)
Refs == (0..MaxBlocks) \cup {NoBlock}
Pcs == {"idle", "point", "previous", "scan", "follow", "header", "moved", "ended"}
FindingTypes == {"chain_accepted", "finality_reached", "chain_removed", "not_found",
                 "mempool_entry", "mempool_orphan", "pruned_unobservable"}
Truths == [status : {"truth"}, block : Refs, depth : Int]
LookRecords == [pc : Pcs, prev : Refs, start : Refs, cursor : Refs, blue : Nat, block : Refs,
                batches : Nat, quiet : BOOLEAN, truth : Truths]
FindingRecords == [type : FindingTypes, block : Refs, replaced : Refs, depth : Int,
                   from : Refs, to : Refs]
Observations == [observer : Observers, blue : Nat, at : Nat, finding : FindingRecords, truth : Truths]

Types ==
    /\ look \in [Looks -> LookRecords]
    /\ sealed \subseteq Observations
    /\ observerOf \in [Looks -> Observers]
    /\ submission \in Submissions

\* The observations have times of their own, and points that are bounded.
OrderInv ==
    /\ IsFiniteSet(sealed)
    /\ \A x \in sealed : x.at <= Cardinality(sealed)
    /\ \A x, y \in sealed : x.at = y.at => x = y
    /\ \E n \in Nat : \A x \in sealed : x.blue <= n

\* Some of the observations have a latest one.
LEMMA LatestIn ==
    ASSUME Types, OrderInv, NEW S \in SUBSET sealed, S # {}
    PROVE  Latest(S) \in S
<1>1. PICK n \in Nat : \A x \in S : x.blue <= n
  BY DEF OrderInv
<1>2. Cardinality(sealed) \in Nat /\ \A x \in S : x.at <= Cardinality(sealed)
  BY FS_CardinalityType DEF OrderInv
<1>3. \A x \in S : x.blue \in Nat /\ x.at \in Nat
  BY DEF Types, Observations
<1> DEFINE Blues == {x.blue : x \in S}
<1>4. PICK b \in Blues : \A c \in Blues : c <= b
  <2>1. Blues \in SUBSET Nat /\ Blues # {} /\ \A c \in Blues : c <= n
    BY <1>1, <1>3
  <2> HIDE DEF Blues
  <2> QED BY <2>1, Greatest
<1> DEFINE Top == {x \in S : x.blue = b}
           Times == {x.at : x \in Top}
<1>5. PICK a \in Times : \A c \in Times : c <= a
  <2>1. Times \in SUBSET Nat /\ Times # {} /\ \A c \in Times : c <= Cardinality(sealed)
    BY <1>2, <1>3, <1>4
  <2> HIDE DEF Times
  <2> QED BY <1>2, <2>1, Greatest
<1>6. PICK x \in Top : x.at = a
  BY <1>5
<1>7. x \in S /\ x.blue = b /\ b \in Nat /\ a \in Nat
  BY <1>3, <1>6
<1>8. ASSUME NEW y \in S \ {x} PROVE ByPoint(y, x)
  <2>1. y.blue <= b /\ y.blue \in Nat /\ y.at \in Nat
    BY <1>3, <1>4
  <2>2. y.blue = b => y.at <= a
    BY <1>5
  <2>3. y.at # a
    BY <1>6, <1>7 DEF OrderInv
  <2> QED BY <1>6, <1>7, <2>1, <2>2, <2>3, SMTT(30) DEF ByPoint
<1>9. \E z \in S : \A y \in S \ {z} : ByPoint(y, z)
  BY <1>7, <1>8
<1> QED BY <1>9 DEF Latest

\* The parts of a claim.
LEMMA ClaimParts ==
    /\ \A status, b, n : /\ Claim(status, b, n).status = status
                          /\ Claim(status, b, n).block = b /\ Claim(status, b, n).depth = n
    /\ \A b, n : Depth(b, n).block = b /\ Depth(b, n).status \in {"CONFIRMED", "ACCEPTED"}
    /\ Conflicting.status = "CONFLICTING_OBSERVATIONS"
<1>1. \A status, b, n : /\ Claim(status, b, n).status = status
                         /\ Claim(status, b, n).block = b /\ Claim(status, b, n).depth = n
  BY DEF Claim
<1>2. \A b, n : \E status \in {"CONFIRMED", "ACCEPTED"} : Depth(b, n) = Claim(status, b, n)
  BY DEF Depth
<1> QED BY <1>1, <1>2, SMTT(30) DEF Conflicting

\* Observers that agree establish the block of one of them.
LEMMA AgreedParts ==
    \A H : /\ Agreed(H).block = (CHOOSE g \in H : TRUE).block
           /\ Agreed(H).status \in Positive
           /\ (\E g \in H : g.status = "FINALIZED") => Agreed(H).status = "FINALIZED"
           /\ Agreed(H).status = "FINALIZED" => \E g \in H : g.status = "FINALIZED"
<1> SUFFICES ASSUME NEW H PROVE
           /\ Agreed(H).block = (CHOOSE g \in H : TRUE).block
           /\ Agreed(H).status \in Positive
           /\ (\E g \in H : g.status = "FINALIZED") => Agreed(H).status = "FINALIZED"
           /\ Agreed(H).status = "FINALIZED" => \E g \in H : g.status = "FINALIZED"
  OBVIOUS
<1> DEFINE b == (CHOOSE g \in H : TRUE).block
           n == CHOOSE d \in {g.depth : g \in H} : \A g \in H : d <= g.depth
           final == \E g \in H : g.status = "FINALIZED"
<1>1. Agreed(H) = IF final THEN Claim("FINALIZED", b, n) ELSE Depth(b, n)
  BY DEF Agreed
<1> HIDE DEF b, n, final
<1>2. Agreed(H).block = b /\ Agreed(H).status \in Positive /\ (final <=> Agreed(H).status = "FINALIZED")
  BY <1>1, ClaimParts, SMTT(30) DEF Positive
<1> QED BY <1>2 DEF b, final

\* The histories with one of some states.
With(W, S) == {g \in Histories(S) : g.status \in W}

\* What is derived, case by case.
LEMMA DerivedCases ==
    ASSUME NEW sub, NEW S, sub # "synthetic"
    PROVE  LET d == DeriveTxStatus(sub, S) IN
           /\ Conflicting \in Histories(S) => d = Conflicting
           /\ Conflicting \notin Histories(S) /\ With(Positive, S) # {} =>
                d = IF With(Negative, S) # {} \/ Cardinality({g.block : g \in With(Positive, S)}) > 1
                    THEN Conflicting ELSE Agreed(With(Positive, S))
           /\ Conflicting \notin Histories(S) /\ With(Positive, S) = {} =>
                \/ d = Conflicting \/ d = BySubmission(sub)
                \/ d \in With({"REORGED"}, S) \/ d \in With(Pooled, S) \/ d \in With({"UNOBSERVABLE_PRUNED"}, S)
<1> DEFINE d == DeriveTxStatus(sub, S)
           One(H) == IF Cardinality({<<g.status, g.block>> : g \in H}) > 1
                     THEN Conflicting ELSE CHOOSE g \in H : TRUE
<1>1. Conflicting \in Histories(S) => d = Conflicting
  BY DEF DeriveTxStatus
<1>2. Conflicting \notin Histories(S) /\ With(Positive, S) # {} =>
        d = IF With(Negative, S) # {} \/ Cardinality({g.block : g \in With(Positive, S)}) > 1
            THEN Conflicting ELSE Agreed(With(Positive, S))
  BY DEF DeriveTxStatus, With
<1>3. Conflicting \notin Histories(S) /\ With(Positive, S) = {} =>
        d = IF With({"REORGED"}, S) # {} THEN One(With({"REORGED"}, S))
            ELSE IF With(Pooled, S) # {} THEN One(With(Pooled, S))
            ELSE IF With({"UNOBSERVABLE_PRUNED"}, S) # {} THEN One(With({"UNOBSERVABLE_PRUNED"}, S))
            ELSE BySubmission(sub)
  BY DEF DeriveTxStatus, With
<1>4. \A H : H # {} => One(H) = Conflicting \/ One(H) \in H
  OBVIOUS
<1> HIDE DEF d, One
<1>5. Conflicting \notin Histories(S) /\ With(Positive, S) = {} =>
        \/ d = Conflicting \/ d = BySubmission(sub)
        \/ d \in With({"REORGED"}, S) \/ d \in With(Pooled, S) \/ d \in With({"UNOBSERVABLE_PRUNED"}, S)
  BY <1>3, <1>4
<1> QED BY <1>1, <1>2, <1>5 DEF d

\* What the evidence establishes as accepting is the block of an observation that
\* says so.
LEMMA HistoryBlock ==
    ASSUME Types, OrderInv, NEW S \in SUBSET sealed, ObserverHistory(S).status \in Positive
    PROVE  \E x \in S : Took(x) /\ x.finding.block = ObserverHistory(S).block
<1>1. Finals(S) \in SUBSET sealed /\ Finals(S) \subseteq S /\ \A x \in Finals(S) : Took(x)
  BY DEF Finals, Took
<1>2. CASE Finals(S) # {} /\ ~Incoherent(S)
  <2>1. Latest(Finals(S)) \in Finals(S)
    BY <1>1, <1>2, LatestIn
  <2>2. ObserverHistory(S).block = Latest(Finals(S)).finding.block
    BY <1>2 DEF ObserverHistory, Claim
  <2> QED BY <1>1, <2>1, <2>2
<1>3. CASE Finals(S) = {} /\ ~Incoherent(S) /\ Standing(S) # {} /\ ~(Cardinality(Standing(S)) > 1)
  <2> DEFINE x == CHOOSE x \in Standing(S) : TRUE
  <2>1. x \in Standing(S)
    BY <1>3
  <2>2. x \in S /\ Took(x)
    BY <2>1 DEF Standing
  <2>3. ObserverHistory(S) = Depth(x.finding.block, x.finding.depth)
    BY <1>3 DEF ObserverHistory
  <2> HIDE DEF x
  <2>4. ObserverHistory(S).block = x.finding.block
    BY <2>3, ClaimParts, SMTT(30)
  <2> QED BY <2>2, <2>4
<1>4. Conflicting.status \notin Positive
  BY DEF Conflicting, Claim, Positive
<1>5. ByLastLook(S).status \notin Positive
  <2> DEFINE f == Latest(S).finding
  <2>1. ByLastLook(S).status \in {"REORGED", "NOT_ON_CHAIN", "MEMPOOL_ACCEPTED", "MEMPOOL_ORPHAN",
                                  "UNOBSERVABLE_PRUNED", "NO_CLAIM"}
    BY SMTT(30) DEF ByLastLook, Claim
  <2> QED BY <2>1 DEF Positive
<1> QED BY <1>2, <1>3, <1>4, <1>5 DEF ObserverHistory

\* What is derived as accepted is what the observers agree on.
LEMMA DerivedAgreed ==
    ASSUME NEW sub \in Submissions, NEW S, DeriveTxStatus(sub, S).status \in Positive
    PROVE  With(Positive, S) # {} /\ DeriveTxStatus(sub, S) = Agreed(With(Positive, S))
<1> DEFINE H == With(Positive, S)
           d == DeriveTxStatus(sub, S)
<1>1. sub # "synthetic"
  BY ObserverAssumption
<1>2. /\ Conflicting.status \notin Positive /\ BySubmission(sub).status \notin Positive
      /\ \A W \in {{"REORGED"}, Pooled, {"UNOBSERVABLE_PRUNED"}} : \A g \in With(W, S) : g.status \notin Positive
  <2>1. \E status \in {"SUBMITTED", "REJECTED_BY_NODE", "INSUFFICIENT_EVIDENCE"} :
          BySubmission(sub) = Claim(status, NoBlock, 0)
    BY SMTT(30) DEF BySubmission
  <2>2. "CONFLICTING_OBSERVATIONS" \notin Positive /\ BySubmission(sub).status \notin Positive
    BY <2>1, ClaimParts, SMTT(30) DEF Positive
  <2> QED BY <2>2, ClaimParts DEF With, Pooled, Positive
<1>3. /\ Conflicting \in Histories(S) => d = Conflicting
      /\ Conflicting \notin Histories(S) /\ H # {} =>
           d = IF With(Negative, S) # {} \/ Cardinality({g.block : g \in H}) > 1
               THEN Conflicting ELSE Agreed(H)
      /\ Conflicting \notin Histories(S) /\ H = {} =>
           \/ d = Conflicting \/ d = BySubmission(sub)
           \/ d \in With({"REORGED"}, S) \/ d \in With(Pooled, S)
           \/ d \in With({"UNOBSERVABLE_PRUNED"}, S)
  BY <1>1, DerivedCases
<1>4. d.status \in Positive
  OBVIOUS
<1> HIDE DEF d, H
<1>5. d # Conflicting /\ d # BySubmission(sub)
  BY <1>2, <1>4
<1>6. /\ d \notin With({"REORGED"}, S) /\ d \notin With(Pooled, S)
      /\ d \notin With({"UNOBSERVABLE_PRUNED"}, S)
  BY <1>2, <1>4
<1>7. H # {} /\ d = Agreed(H)
  BY <1>3, <1>5, <1>6
<1> QED BY <1>7 DEF d, H

\* What is derived as accepted is a block some observation says is accepting.
LEMMA DerivedBlock ==
    ASSUME Types, OrderInv, DeriveTxStatus(submission, sealed).status \in Positive
    PROVE  \E x \in sealed : Took(x) /\ x.finding.block = DeriveTxStatus(submission, sealed).block
<1> DEFINE H == With(Positive, sealed)
           d == DeriveTxStatus(submission, sealed)
<1>3. H # {} /\ d = Agreed(H)
  BY DerivedAgreed DEF Types
<1>4. d.block = (CHOOSE g \in H : TRUE).block
  BY <1>3, AgreedParts
<1>5. PICK g \in H : d.block = g.block
  BY <1>3, <1>4
<1>6. PICK o : g = ObserverHistory({x \in sealed : x.observer = o})
  BY <1>5 DEF With, Histories
<1>7. g.status \in Positive
  BY <1>5 DEF With
<1>8. \E x \in {x \in sealed : x.observer = o} : Took(x) /\ x.finding.block = g.block
  BY <1>6, <1>7, HistoryBlock
<1> QED BY <1>5, <1>8

-----------------------------------------------------------------------------
(* The inductive invariant *)

\* Every acceptance on the chain of p was reported removed: a cursor at p has
\* passed nothing by.
Clean(p) == \A b \in accepting : OnChain(b, p) => Reported(b)

\* A look k at the node of o: where it stands hides no acceptance; the sink it
\* read is not above the node's; the block it asks about is not on the chain
\* once it was found missing, if it was final, and the block it found is.
LookOK(k, o) ==
    /\ k.prev # NoBlock => k.prev \in accepting
    /\ k.start \in Blocks /\ k.cursor \in Blocks
    /\ k.pc # "idle" => Clean(k.start)
    /\ k.pc \in {"point", "previous", "scan"} => Clean(k.cursor)
    /\ k.pc \in {"previous", "scan", "follow", "header", "moved"} => k.blue <= Height(tip[o])
    /\ k.pc \in {"previous", "follow", "moved"} => k.prev # NoBlock
    /\ k.pc \in {"follow", "moved"} /\ Deep(k.prev, k.blue) => ~OnChain(k.prev, tip[o])
    /\ k.pc \in {"header", "moved"} =>
         /\ k.block \in accepting /\ k.truth.block = k.block
         /\ k.blue - Height(k.block) <= k.truth.depth
         /\ Deep(k.block, k.blue) => OnChain(k.block, tip[o])

\* A sealed observation: it was no deeper than its node; the block it found is
\* accepting and no deeper than it says; a final block is on its node's chain, a
\* block that left is not if it was final; the position it verified is clean.
SealedOK(x) ==
    /\ x.blue <= Height(tip[x.observer])
    /\ Took(x) => /\ x.finding.block \in accepting /\ x.truth.block = x.finding.block
                  /\ x.finding.depth <= x.truth.depth
    /\ x.finding.type = "finality_reached" =>
         Deep(x.finding.block, x.blue) /\ OnChain(x.finding.block, tip[x.observer])
    /\ Left(x.finding) # NoBlock =>
         /\ Left(x.finding) \in accepting
         /\ Deep(Left(x.finding), x.blue) => ~OnChain(Left(x.finding), tip[x.observer])
    /\ x.finding.type # "chain_removed" /\ Position(x.finding) # NoBlock =>
         Position(x.finding) \in Blocks /\ Clean(Position(x.finding))
    /\ x.finding.type = "chain_removed" => x.finding.to = NoBlock

LookInv == \A l \in Looks : LookOK(look[l], observerOf[l])

SealedInv ==
    /\ \A x \in sealed : SealedOK(x)
    /\ derived = DeriveTxStatus(submission, sealed)

Inv == Types /\ OrderInv /\ TreeInv /\ LookInv /\ SealedInv

-----------------------------------------------------------------------------
(* What was known stays known *)

\* Evidence is only added.
Grows == TreeStays /\ (\A o \in Observers : SinkStays(o)) /\ sealed \subseteq sealed'

\* A clean position stays clean.
LEMMA CleanStays ==
    ASSUME Grows, NEW p \in Blocks, Clean(p), accepting \subseteq Blocks
    PROVE  Clean(p)'
<1> SUFFICES ASSUME NEW b \in accepting', OnChain(b, p)' PROVE Reported(b)'
  BY DEF Clean
<1>1. b \in accepting
  BY DEF Grows, TreeStays
<1>2. OnChain(b, p)
  BY <1>1 DEF Grows, TreeStays
<1>3. Reported(b)
  BY <1>1, <1>2 DEF Clean
<1> QED BY <1>3 DEF Reported, Grows

\* So does what is known of a final block.
LEMMA DeepStays ==
    ASSUME TreeInv, Grows, NEW o \in Observers, NEW b \in Blocks, NEW blue \in Nat,
           blue <= Height(tip[o])
    PROVE  /\ (Deep(b, blue))' <=> Deep(b, blue)
           /\ (blue <= Height(tip[o]))'
           /\ Deep(b, blue) => (OnChain(b, tip[o])' <=> OnChain(b, tip[o]))
<1>1. tip[o] \in Blocks /\ PathsInv
  BY DEF TreeInv
<1>2. Height(tip[o]) \in Nat /\ Height(b) \in Nat /\ FinalityDepth \in Nat
  BY <1>1, PathFacts, DepthAssumption
<1>3. Height(b)' = Height(b)
  BY DEF Grows, TreeStays
<1>4. SinkStays(o)
  BY DEF Grows
<1>5. Deep(b, blue) => Deep(b, Height(tip[o]))
  BY <1>2, SMTT(30) DEF Deep
<1>6. (blue <= Height(tip[o]))'
  <2>1. Height(tip[o]) <= Height(tip[o])' /\ Height(tip[o])' \in Nat
    BY <1>4 DEF SinkStays
  <2> QED BY <1>2, <2>1, SMTT(30)
<1>7. Deep(b, blue)' <=> Deep(b, blue)
  BY <1>3 DEF Deep
<1> QED BY <1>4, <1>5, <1>6, <1>7 DEF SinkStays

\* A look that does not move stays as it should be.
LEMMA LookStays ==
    ASSUME TreeInv, Grows, NEW k \in LookRecords, NEW o \in Observers, LookOK(k, o)
    PROVE  LookOK(k, o)'
<1>1. accepting \subseteq Blocks /\ Blocks \subseteq Blocks' /\ accepting \subseteq accepting' /\ k.blue \in Nat
  BY DEF TreeInv, Grows, TreeStays, LookRecords
<1>2. k.start \in Blocks /\ k.cursor \in Blocks /\ (k.prev # NoBlock => k.prev \in accepting)
  BY DEF LookOK
<1>3. /\ (k.prev # NoBlock => k.prev \in accepting)'
      /\ (k.start \in Blocks /\ k.cursor \in Blocks)'
  BY <1>1, <1>2
<1>4. (k.pc # "idle" => Clean(k.start))' /\ (k.pc \in {"point", "previous", "scan"} => Clean(k.cursor))'
  <2>1. k.pc # "idle" => Clean(k.start)'
    BY <1>1, <1>2, CleanStays DEF LookOK
  <2>2. k.pc \in {"point", "previous", "scan"} => Clean(k.cursor)'
    BY <1>1, <1>2, CleanStays DEF LookOK
  <2> QED BY <2>1, <2>2
<1>5. (k.pc \in {"previous", "scan", "follow", "header", "moved"} => k.blue <= Height(tip[o]))'
  <2>1. 0 \in Blocks
    BY SMTT(30) DEF TreeInv, PathsInv, Blocks
  <2>2. ASSUME k.pc \in {"previous", "scan", "follow", "header", "moved"} PROVE (k.blue <= Height(tip[o]))'
    BY <1>1, <2>1, <2>2, DeepStays DEF LookOK
  <2> QED BY <2>2
<1>6. (k.pc \in {"previous", "follow", "moved"} => k.prev # NoBlock)'
  BY DEF LookOK
<1>7. (k.pc \in {"follow", "moved"} /\ Deep(k.prev, k.blue) => ~OnChain(k.prev, tip[o]))'
  <2> SUFFICES ASSUME k.pc \in {"follow", "moved"}, Deep(k.prev, k.blue)' PROVE ~OnChain(k.prev, tip[o])'
    OBVIOUS
  <2>1. k.prev \in Blocks /\ k.blue <= Height(tip[o]) /\ (Deep(k.prev, k.blue) => ~OnChain(k.prev, tip[o]))
    BY <1>1 DEF LookOK
  <2> QED BY <1>1, <2>1, DeepStays
<1>8. (k.pc \in {"header", "moved"} =>
         /\ k.block \in accepting /\ k.truth.block = k.block
         /\ k.blue - Height(k.block) <= k.truth.depth
         /\ Deep(k.block, k.blue) => OnChain(k.block, tip[o]))'
  <2> SUFFICES ASSUME k.pc \in {"header", "moved"}
               PROVE  /\ (k.block \in accepting)' /\ k.truth.block = k.block
                      /\ (k.blue - Height(k.block) <= k.truth.depth)'
                      /\ Deep(k.block, k.blue)' => OnChain(k.block, tip[o])'
    OBVIOUS
  <2>1. /\ k.block \in accepting /\ k.block \in Blocks /\ k.blue <= Height(tip[o]) /\ k.truth.block = k.block
        /\ k.blue - Height(k.block) <= k.truth.depth
        /\ Deep(k.block, k.blue) => OnChain(k.block, tip[o])
    BY <1>1 DEF LookOK
  <2>2. Height(k.block)' = Height(k.block)
    BY <2>1 DEF Grows, TreeStays
  <2>3. Deep(k.block, k.blue)' => OnChain(k.block, tip[o])'
    BY <1>1, <2>1, DeepStays
  <2> QED BY <1>1, <2>1, <2>2, <2>3
<1> QED BY <1>3, <1>4, <1>5, <1>6, <1>7, <1>8 DEF LookOK

\* A sealed observation stays as it should be.
LEMMA SealedStays ==
    ASSUME TreeInv, Grows, NEW x \in Observations, SealedOK(x)
    PROVE  SealedOK(x)'
<1> DEFINE o == x.observer
           f == x.finding
<1>1. /\ accepting \subseteq Blocks /\ Blocks \subseteq Blocks' /\ accepting \subseteq accepting'
      /\ x.blue \in Nat /\ o \in Observers /\ x.blue <= Height(tip[o])
  BY DEF TreeInv, Grows, TreeStays, Observations, SealedOK
<1>2. (x.blue <= Height(tip[o]))'
  <2>1. 0 \in Blocks
    BY SMTT(30) DEF TreeInv, PathsInv, Blocks
  <2> QED BY <1>1, <2>1, DeepStays
<1>3. (Took(x) => /\ f.block \in accepting /\ x.truth.block = f.block
                  /\ f.depth <= x.truth.depth)'
  BY <1>1 DEF SealedOK, Took
<1>4. (f.type = "finality_reached" => Deep(f.block, x.blue) /\ OnChain(f.block, tip[o]))'
  <2> SUFFICES ASSUME f.type = "finality_reached" PROVE Deep(f.block, x.blue)' /\ OnChain(f.block, tip[o])'
    OBVIOUS
  <2>1. Took(x)
    BY DEF Took
  <2>2. f.block \in Blocks /\ Deep(f.block, x.blue) /\ OnChain(f.block, tip[o])
    BY <1>1, <2>1 DEF SealedOK
  <2> QED BY <1>1, <2>2, DeepStays
<1>5. (Left(f) # NoBlock => /\ Left(f) \in accepting
                            /\ Deep(Left(f), x.blue) => ~OnChain(Left(f), tip[o]))'
  <2> SUFFICES ASSUME Left(f) # NoBlock
               PROVE  (Left(f) \in accepting)' /\ (Deep(Left(f), x.blue)' => ~OnChain(Left(f), tip[o])')
    BY DEF Left
  <2>1. PICK b : b = Left(f)
    OBVIOUS
  <2>2. b \in accepting /\ (Deep(b, x.blue) => ~OnChain(b, tip[o]))
    BY <2>1 DEF SealedOK
  <2>3. (b \in accepting)' /\ (Deep(b, x.blue)' => ~OnChain(b, tip[o])')
    BY <1>1, <2>2, DeepStays
  <2> QED BY <2>1, <2>3
<1>6. (f.type # "chain_removed" /\ Position(f) # NoBlock => Position(f) \in Blocks /\ Clean(Position(f)))'
  <2> SUFFICES ASSUME f.type # "chain_removed", Position(f) # NoBlock
               PROVE  (Position(f) \in Blocks)' /\ Clean(Position(f))'
    OBVIOUS
  <2>1. PICK b : b = Position(f)
    OBVIOUS
  <2>2. b \in Blocks /\ Clean(b)
    BY <2>1 DEF SealedOK
  <2>3. (b \in Blocks)' /\ Clean(b)'
    BY <1>1, <2>2, CleanStays
  <2> QED BY <2>1, <2>3
<1>7. f.type = "chain_removed" => f.to = NoBlock
  BY DEF SealedOK
<1> QED BY <1>2, <1>3, <1>4, <1>5, <1>6, <1>7 DEF SealedOK

-----------------------------------------------------------------------------
(* What the node answers *)

\* The block of a chain that accepts the transaction, and how deep it is.
LEMMA AcceptedFacts ==
    ASSUME TreeInv, NEW t \in Blocks, NEW b \in accepting, OnChain(b, t)
    PROVE  /\ AcceptedOn(t) = b /\ Truth(t).block = b
           /\ Truth(t).depth = Height(t) - Height(b) /\ Truth(t).status = "truth"
<1>1. b \in Range(Path(t)) \cap accepting
  BY DEF OnChain
<1>2. \A c \in Range(Path(t)) \cap accepting : c = b
  BY <1>1 DEF TreeInv, OnChain
<1>3. AcceptedOn(t) = b
  BY <1>1, <1>2 DEF AcceptedOn
<1>4. b # NoBlock
  BY ObserverAssumption, SMTT(30) DEF TreeInv, PathsInv, Blocks
<1>5. Truth(t) = Claim("truth", b, Height(t) - Height(b))
  BY <1>3, <1>4 DEF Truth
<1>6. Truth(t).block = b /\ Truth(t).depth = Height(t) - Height(b) /\ Truth(t).status = "truth"
  BY <1>5, ClaimParts, SMTT(30)
<1> QED BY <1>3, <1>6

\* What a chain says is a claim, and a block it names is an accepting one on it.
LEMMA TruthFacts ==
    ASSUME TreeInv, NEW t \in Blocks
    PROVE  /\ Truth(t) \in Truths
           /\ AcceptedOn(t) # NoBlock => AcceptedOn(t) \in accepting /\ OnChain(AcceptedOn(t), t)
<1>1. AcceptedOn(t) # NoBlock => AcceptedOn(t) \in Range(Path(t)) \cap accepting
  BY DEF AcceptedOn
<1>2. AcceptedOn(t) # NoBlock => AcceptedOn(t) \in accepting /\ OnChain(AcceptedOn(t), t)
  BY <1>1 DEF OnChain
<1>3. Blocks \subseteq Refs /\ NoBlock \in Refs /\ accepting \subseteq Blocks
  BY ObserverAssumption, SMTT(30) DEF TreeInv, PathsInv, Blocks, Refs
<1>4. AcceptedOn(t) \in Refs
  BY <1>2, <1>3
<1>5. \A b \in Blocks : Height(b) \in Nat
  BY PathFacts DEF TreeInv
<1>6. (IF AcceptedOn(t) = NoBlock THEN 0 ELSE Height(t) - Height(AcceptedOn(t))) \in Int
  BY <1>2, <1>3, <1>5, SMTT(30)
<1>7. PICK n \in Int : Truth(t) = Claim("truth", AcceptedOn(t), n)
  BY <1>6 DEF Truth
<1>8. Truth(t) \in Truths
  BY <1>4, <1>7, SMTT(30) DEF Truths, Claim
<1> QED BY <1>2, <1>8

\* Looks with one field changed.
LEMMA Edits ==
    \A r \in LookRecords :
        /\ \A c \in Pcs : [r EXCEPT !.pc = c] \in LookRecords
        /\ \A b \in Refs : [r EXCEPT !.block = b] \in LookRecords /\ [r EXCEPT !.cursor = b] \in LookRecords
        /\ \A T \in Truths : [r EXCEPT !.truth = T] \in LookRecords
        /\ \A n \in Nat : [r EXCEPT !.blue = n] \in LookRecords /\ [r EXCEPT !.batches = n] \in LookRecords
        /\ [r EXCEPT !.quiet = FALSE] \in LookRecords
<1> SUFFICES ASSUME NEW r \in LookRecords PROVE
        /\ \A c \in Pcs : [r EXCEPT !.pc = c] \in LookRecords
        /\ \A b \in Refs : [r EXCEPT !.block = b] \in LookRecords /\ [r EXCEPT !.cursor = b] \in LookRecords
        /\ \A T \in Truths : [r EXCEPT !.truth = T] \in LookRecords
        /\ \A n \in Nat : [r EXCEPT !.blue = n] \in LookRecords /\ [r EXCEPT !.batches = n] \in LookRecords
        /\ [r EXCEPT !.quiet = FALSE] \in LookRecords
  OBVIOUS
<1>1. \A c \in Pcs : [r EXCEPT !.pc = c] \in LookRecords
  BY SMTT(30) DEF LookRecords
<1>2. \A b \in Refs : [r EXCEPT !.block = b] \in LookRecords
  BY SMTT(30) DEF LookRecords
<1>3. \A b \in Refs : [r EXCEPT !.cursor = b] \in LookRecords
  BY SMTT(30) DEF LookRecords
<1>4. \A T \in Truths : [r EXCEPT !.truth = T] \in LookRecords
  BY SMTT(30) DEF LookRecords
<1>5. \A n \in Nat : [r EXCEPT !.blue = n] \in LookRecords
  BY SMTT(30) DEF LookRecords
<1>6. \A n \in Nat : [r EXCEPT !.batches = n] \in LookRecords
  BY SMTT(30) DEF LookRecords
<1>7. [r EXCEPT !.quiet = FALSE] \in LookRecords
  BY DEF LookRecords
<1> QED BY <1>1, <1>2, <1>3, <1>4, <1>5, <1>6, <1>7

\* The answer about the chain above `from': the end, an accepting block of the
\* chain, or a block that hides no acceptance `from' did not hide.
Answered(t, k, l, from, found) ==
    /\ t \in LookRecords /\ t.prev = k.prev /\ t.start = k.start /\ t.blue = k.blue
    /\ \/ t.pc = "ended" /\ t.cursor = k.cursor
       \/ /\ t.pc = found /\ t.cursor = k.cursor
          /\ t.block \in accepting /\ OnChain(t.block, Sink(l)) /\ t.truth.block = t.block
          /\ t.truth.depth = Height(Sink(l)) - Height(t.block)
       \/ t.pc \in {"ended", k.pc} /\ t.cursor \in Blocks /\ (Clean(from) => Clean(t.cursor))

\* What a look is told.
LEMMA ToldFacts ==
    ASSUME Types, TreeInv, NEW l \in Looks, NEW from \in Blocks, NEW found \in {"header", "moved"},
           look[l].cursor \in Blocks
    PROVE  Answered(Told(l, from, found), look[l], l, from, found)
<1>0. PICK k \in LookRecords : k = look[l] /\ k.cursor \in Blocks
  BY DEF Types
<1>t. PICK t : t = Told(l, from, found)
  OBVIOUS
<1> SUFFICES Answered(t, k, l, from, found)
  BY <1>0, <1>t
<1>1. Sink(l) \in Blocks /\ PathsInv /\ NoBlock \notin Blocks /\ Blocks \subseteq Refs
  BY ObserverAssumption, SMTT(30) DEF Types, TreeInv, PathsInv, Sink, Blocks, Refs
<1> DEFINE now == Truth(Sink(l))
           next == NextOnChain(from, Sink(l))
<1>2. now \in Truths
  BY <1>1, TruthFacts
<1>3. next # NoBlock => /\ next \in Blocks /\ OnChain(next, Sink(l))
                        /\ \A b \in Blocks : OnChain(b, next) => b = next \/ OnChain(b, from)
  BY <1>1, NextFacts
<1>4. PICK r : r = [k EXCEPT !.batches = @ + 1]
  OBVIOUS
<1>5. r \in LookRecords
  BY <1>4, SMTT(30) DEF LookRecords
<1>6. /\ r.prev = k.prev /\ r.start = k.start /\ r.blue = k.blue /\ r.cursor = k.cursor
      /\ r.pc = k.pc
  BY <1>4, SMTT(30) DEF LookRecords
<1>7. t = IF next = NoBlock THEN [r EXCEPT !.pc = "ended", !.truth = now]
          ELSE IF next \in accepting THEN [r EXCEPT !.pc = found, !.block = next, !.truth = now]
          ELSE [r EXCEPT !.cursor = next, !.pc = IF r.batches >= maxBatches THEN "ended" ELSE @]
  BY <1>0, <1>t, <1>4 DEF Told
<1>8. {"ended", "header", "moved"} \subseteq Pcs /\ r.pc \in Pcs
  BY <1>5 DEF Pcs, LookRecords
<1>9. PICK T : T = now
  OBVIOUS
<1>10. PICK n : n = next
  OBVIOUS
<1> HIDE DEF now, next
<1>11. CASE n = NoBlock
  <2>1. t = [r EXCEPT !.pc = "ended", !.truth = T]
    BY <1>7, <1>9, <1>10, <1>11
  <2>2. T \in Truths
    BY <1>2, <1>9
  <2>3. t \in LookRecords
    <3>1. PICK q \in LookRecords : q = [r EXCEPT !.pc = "ended"]
      BY <1>5, <1>8, Edits
    <3>2. [q EXCEPT !.truth = T] \in LookRecords
      BY <2>2, Edits
    <3> QED BY <2>1, <3>1, <3>2
  <2>4. t.prev = r.prev /\ t.start = r.start /\ t.blue = r.blue /\ t.cursor = r.cursor /\ t.pc = "ended"
    BY <1>5, <2>1, SMTT(30) DEF LookRecords
  <2> QED BY <1>6, <2>3, <2>4 DEF Answered
<1>12. CASE n # NoBlock /\ n \in accepting
  <2>1. t = [r EXCEPT !.pc = found, !.block = n, !.truth = T]
    BY <1>7, <1>9, <1>10, <1>12
  <2>2. T \in Truths /\ n \in Blocks /\ n \in Refs /\ OnChain(n, Sink(l)) /\ found \in Pcs
    BY <1>1, <1>2, <1>3, <1>8, <1>9, <1>10, <1>12
  <2>3. t \in LookRecords
    <3>1. PICK q \in LookRecords : q = [r EXCEPT !.pc = found]
      BY <1>5, <2>2, Edits
    <3>2. PICK w \in LookRecords : w = [q EXCEPT !.block = n]
      BY <2>2, Edits
    <3>3. [w EXCEPT !.truth = T] \in LookRecords
      BY <2>2, Edits
    <3> QED BY <2>1, <3>1, <3>2, <3>3
  <2>4. /\ t.prev = r.prev /\ t.start = r.start /\ t.blue = r.blue /\ t.cursor = r.cursor
        /\ t.pc = found /\ t.block = n /\ t.truth = T
    BY <1>5, <2>1, SMTT(30) DEF LookRecords
  <2>5. T.block = n /\ T.depth = Height(Sink(l)) - Height(n)
    BY <1>1, <1>9, <1>12, <2>2, AcceptedFacts DEF now
  <2> QED BY <1>6, <1>12, <2>2, <2>3, <2>4, <2>5 DEF Answered
<1>13. CASE n # NoBlock /\ n \notin accepting
  <2>1. PICK c \in {"ended", r.pc} : t = [r EXCEPT !.cursor = n, !.pc = c]
    BY <1>7, <1>10, <1>13
  <2>2. n \in Blocks /\ n \in Refs /\ c \in Pcs
    BY <1>1, <1>3, <1>8, <1>10, <1>13
  <2>3. t \in LookRecords
    <3>1. PICK q \in LookRecords : q = [r EXCEPT !.cursor = n]
      BY <1>5, <2>2, Edits
    <3>2. [q EXCEPT !.pc = c] \in LookRecords
      BY <2>2, Edits
    <3> QED BY <2>1, <3>1, <3>2
  <2>4. /\ t.prev = r.prev /\ t.start = r.start /\ t.blue = r.blue /\ t.cursor = n /\ t.pc = c
    BY <1>5, <2>1, SMTT(30) DEF LookRecords
  <2>5. Clean(from) => Clean(n)
    <3>1. accepting \subseteq Blocks
      BY DEF TreeInv
    <3> QED BY <1>3, <1>10, <1>13, <3>1 DEF Clean
  <2> QED BY <1>6, <2>1, <2>2, <2>3, <2>4, <2>5 DEF Answered
<1> QED BY <1>11, <1>12, <1>13

-----------------------------------------------------------------------------
(* What a look starts from *)

\* Blocks are references, and no block is the absent one.
LEMMA BlockFacts ==
    ASSUME TreeInv
    PROVE  /\ Blocks \subseteq Refs /\ NoBlock \in Refs /\ NoBlock \notin Blocks
           /\ 0 \in Blocks /\ accepting \subseteq Blocks
  BY ObserverAssumption, SMTT(30) DEF TreeInv, PathsInv, Blocks, Refs

\* An idle look is as it should be.
LEMMA IdleOK ==
    ASSUME TreeInv, NEW o
    PROVE  Idle \in LookRecords /\ LookOK(Idle, o)
<1>1. /\ Idle.pc = "idle" /\ Idle.prev = NoBlock /\ Idle.start = 0 /\ Idle.cursor = 0 /\ Idle.blue = 0
      /\ Idle.block = NoBlock /\ Idle.batches = 0
  BY DEF Idle
<1>2. 0 \in Blocks /\ 0 \in Refs /\ NoBlock \in Refs
  BY BlockFacts
<1>3. Claim("truth", NoBlock, 0) \in Truths
  BY <1>2, SMTT(30) DEF Claim, Truths
<1>4. Idle \in LookRecords
  <2>1. "idle" \in Pcs /\ FALSE \in BOOLEAN /\ 0 \in Nat
    BY SMTT(30) DEF Pcs
  <2> QED BY <1>2, <1>3, <2>1 DEF Idle, LookRecords
<1> QED BY <1>1, <1>2, <1>4 DEF LookOK

\* The block a look asks about first is an accepting one.
LEMMA CurrentFacts ==
    ASSUME Types, OrderInv, SealedInv
    PROVE  CurrentAccepting # NoBlock => CurrentAccepting \in accepting
<1> SUFFICES ASSUME CurrentAccepting # NoBlock PROVE CurrentAccepting \in accepting
  OBVIOUS
<1>1. derived.status \in Positive /\ CurrentAccepting = derived.block
  BY DEF CurrentAccepting
<1>2. PICK x \in sealed : Took(x) /\ x.finding.block = derived.block
  BY <1>1, DerivedBlock DEF SealedInv
<1>3. x.finding.block \in accepting
  BY <1>2 DEF SealedInv, SealedOK
<1> QED BY <1>1, <1>2, <1>3

\* The position a look verified hides no acceptance; a removed block is the only
\* acceptance on its chain, and it was reported.
LEMMA PositionClean ==
    ASSUME TreeInv, SealedInv, NEW x \in sealed, Position(x.finding) # NoBlock
    PROVE  Position(x.finding) \in Blocks /\ Clean(Position(x.finding))
<1>1. SealedOK(x)
  BY DEF SealedInv
<1>2. CASE x.finding.type # "chain_removed"
  BY <1>1, <1>2 DEF SealedOK
<1>3. CASE x.finding.type = "chain_removed"
  <2>1. x.finding.to = NoBlock
    BY <1>1, <1>3 DEF SealedOK
  <2>2. Position(x.finding) = x.finding.block /\ Left(x.finding) = x.finding.block
    BY <1>3, <2>1, SMTT(30) DEF Position, Left
  <2>3. PICK b : b = x.finding.block
    OBVIOUS
  <2>4. b \in accepting /\ b \in Blocks
    BY <1>1, <2>2, <2>3, BlockFacts DEF SealedOK
  <2>5. OnChain(b, b)
    BY <2>4, OneAtHeight DEF TreeInv
  <2>6. \A c \in accepting : OnChain(c, b) => c = b
    BY <2>4, <2>5 DEF TreeInv
  <2>7. Reported(b)
    BY <1>3, <2>3 DEF Reported
  <2>8. Clean(b)
    BY <2>6, <2>7 DEF Clean
  <2> QED BY <2>2, <2>3, <2>4, <2>8
<1> QED BY <1>2, <1>3

\* So the cursor of the next look hides none.
LEMMA CursorClean ==
    ASSUME Types, OrderInv, TreeInv, SealedInv
    PROVE  VerifiedCursor(sealed) \in Blocks /\ Clean(VerifiedCursor(sealed))
<1> DEFINE verified == {x \in sealed : Position(x.finding) # NoBlock}
<1>1. CASE verified = {}
  <2>1. VerifiedCursor(sealed) = 0
    BY <1>1 DEF VerifiedCursor
  <2>2. 0 \in Blocks /\ accepting \subseteq Blocks \ {0}
    BY BlockFacts DEF TreeInv
  <2>3. ASSUME NEW b \in accepting, OnChain(b, 0) PROVE FALSE
    <3>1. Range(Path(0)) = {0}
      BY SMTT(30) DEF Path, Range
    <3> QED BY <2>2, <2>3, <3>1 DEF OnChain
  <2> QED BY <2>1, <2>2, <2>3 DEF Clean
<1>2. CASE verified # {}
  <2>1. verified \in SUBSET sealed
    OBVIOUS
  <2>2. Latest(verified) \in verified
    BY <1>2, <2>1, LatestIn
  <2>3. VerifiedCursor(sealed) = Position(Latest(verified).finding)
    BY <1>2 DEF VerifiedCursor
  <2>4. PICK x \in verified : x = Latest(verified)
    BY <2>2
  <2>5. Position(x.finding) \in Blocks /\ Clean(Position(x.finding))
    BY PositionClean
  <2> HIDE DEF verified
  <2> QED BY <2>3, <2>4, <2>5
<1> QED BY <1>1, <1>2

-----------------------------------------------------------------------------
(* The steps of a look: what each does to the look and to the evidence *)

\* Only the look of l changes, and it is then as it should be.
Turns(l) ==
    /\ look' \in [Looks -> LookRecords]
    /\ LookOK(look'[l], observerOf[l])
    /\ \A j \in Looks : j # l => \/ look'[j] = look[j]
                                 \/ look'[j] = [look[j] EXCEPT !.quiet = FALSE]
    /\ UNCHANGED <<observerOf, submission>>

\* The evidence stays, or an observation of the look's observer joins it.
Records(l) ==
    /\ \/ sealed' = sealed
       \/ \E x \in Observations : /\ SealedOK(x) /\ x.at = Cardinality(sealed) + 1
                                  /\ sealed' = sealed \cup {x}
    /\ derived' = DeriveTxStatus(submission, sealed')

\* A look begins at the verified cursor.
LEMMA BeginTurns ==
    ASSUME Inv, NEW l \in Looks, Begin(l)
    PROVE  Turns(l) /\ Records(l)
<1> DEFINE c == VerifiedCursor(sealed)
           a == CurrentAccepting
<1>1. /\ c \in Blocks /\ Clean(c) /\ (a # NoBlock => a \in accepting)
      /\ Blocks \subseteq Refs /\ NoBlock \in Refs /\ accepting \subseteq Blocks /\ Idle \in LookRecords
  BY CursorClean, CurrentFacts, BlockFacts, IdleOK DEF Inv
<1> HIDE DEF c, a
<1>2. PICK r : r = [Idle EXCEPT !.pc = "point", !.prev = a, !.start = c, !.cursor = c, !.quiet = TRUE]
  OBVIOUS
<1>3. r = [pc |-> "point", prev |-> a, start |-> c, cursor |-> c, blue |-> 0, block |-> NoBlock,
           batches |-> 0, quiet |-> TRUE, truth |-> Claim("truth", NoBlock, 0)]
  BY <1>2, ZenonT(60) DEF Idle
<1>4. r \in LookRecords
  <2>1. a \in Refs /\ c \in Refs /\ "point" \in Pcs /\ 0 \in Nat /\ TRUE \in BOOLEAN
    BY <1>1, SMTT(30) DEF Pcs
  <2>2. Claim("truth", NoBlock, 0) \in Truths
    BY <1>1, SMTT(30) DEF Claim, Truths
  <2> QED BY <1>1, <1>3, <2>1, <2>2 DEF LookRecords
<1>5. r.pc = "point" /\ r.prev = a /\ r.start = c /\ r.cursor = c
  BY <1>3
<1>6. LookOK(r, observerOf[l])
  BY <1>1, <1>5 DEF LookOK
<1>7. look' = [look EXCEPT ![l] = r] /\ UNCHANGED <<config, evidence>> /\ look \in [Looks -> LookRecords]
  BY <1>2 DEF Begin, Inv, Types, c, a
<1>8. Turns(l)
  BY <1>4, <1>6, <1>7 DEF Turns, config
<1> QED BY <1>7, <1>8 DEF Records, Inv, SealedInv, evidence

\* The point of a look is its node's sink.
LEMMA ReadPointTurns ==
    ASSUME Inv, NEW l \in Looks, ReadPoint(l)
    PROVE  Turns(l) /\ Records(l)
<1>0. PICK k \in LookRecords : k = look[l]
  BY DEF Inv, Types
<1>1. PICK h \in Nat : h = Height(Sink(l))
  BY PathFacts DEF Inv, Types, TreeInv, Sink
<1>2. PICK c \in {"previous", "scan"} : c = IF k.prev # NoBlock THEN "previous" ELSE "scan"
  OBVIOUS
<1>3. PICK q \in LookRecords : q = [k EXCEPT !.blue = h]
  BY Edits
<1>4. PICK r \in LookRecords : r = [q EXCEPT !.pc = c]
  <2>1. c \in Pcs
    BY DEF Pcs
  <2> QED BY <2>1, Edits
<1>5. /\ look' = [[look EXCEPT ![l] = q] EXCEPT ![l] = r] /\ look \in [Looks -> LookRecords]
      /\ UNCHANGED <<config, evidence>> /\ k.pc = "point"
  BY <1>0, <1>1, <1>2, <1>3, <1>4 DEF ReadPoint, At, Inv, Types
<1>6. r.pc = c /\ r.prev = k.prev /\ r.start = k.start /\ r.cursor = k.cursor /\ r.blue = h
  BY <1>3, <1>4, SMTT(30) DEF LookRecords
<1>7. LookOK(k, observerOf[l])
  BY <1>0 DEF Inv, LookInv
<1>8. r.blue <= Height(tip[observerOf[l]])
  BY <1>1, <1>6, SMTT(30) DEF Sink
<1>9. LookOK(r, observerOf[l])
  BY <1>2, <1>5, <1>6, <1>7, <1>8 DEF LookOK
<1>10. Turns(l)
  BY <1>5, <1>9 DEF Turns, config
<1> QED BY <1>5, <1>10 DEF Records, Inv, SealedInv, evidence

\* The observation a look t of l seals with finding f.
NewObs(l, t, f) ==
    [observer |-> observerOf[l], blue |-> t.blue, at |-> Cardinality(sealed) + 1,
     finding |-> f, truth |-> t.truth]

\* The parts of a sealed observation.
LEMMA ObsParts ==
    ASSUME Inv, NEW l \in Looks, NEW t \in LookRecords, NEW f \in FindingRecords
    PROVE  /\ NewObs(l, t, f) \in Observations
           /\ NewObs(l, t, f).observer = observerOf[l] /\ NewObs(l, t, f).blue = t.blue
           /\ NewObs(l, t, f).at = Cardinality(sealed) + 1
           /\ NewObs(l, t, f).finding = f /\ NewObs(l, t, f).truth = t.truth
<1>1. Cardinality(sealed) + 1 \in Nat
  <2>1. Cardinality(sealed) \in Nat
    BY FS_CardinalityType DEF Inv, OrderInv
  <2> QED BY <2>1, SMTT(30)
<1>2. observerOf[l] \in Observers /\ t.blue \in Nat /\ t.truth \in Truths
  BY DEF Inv, Types, LookRecords
<1>3. NewObs(l, t, f) \in Observations
  BY <1>1, <1>2 DEF NewObs, Observations
<1> QED BY <1>3 DEF NewObs

\* The parts of a finding.
LEMMA FindingParts ==
    ASSUME NEW type \in FindingTypes, NEW b \in Refs, NoBlock \in Refs
    PROVE  /\ Finding(type, b) \in FindingRecords
           /\ Finding(type, b).type = type /\ Finding(type, b).block = b
           /\ Finding(type, b).replaced = NoBlock /\ Finding(type, b).depth = 0
           /\ Finding(type, b).from = NoBlock /\ Finding(type, b).to = NoBlock
<1>1. 0 \in Int
  BY SMTT(30)
<1>2. Finding(type, b) \in FindingRecords
  BY <1>1 DEF Finding, FindingRecords
<1> QED BY <1>2 DEF Finding

\* Sealing ends the look; only the ghosts of others change.
LEMMA SealTurns ==
    ASSUME Inv, NEW l \in Looks, NEW t \in LookRecords, NEW f \in FindingRecords,
           look' = [Disturbed(l, observerOf[l]) EXCEPT ![l] = Idle], UNCHANGED config,
           derived' = DeriveTxStatus(submission, sealed'),
           sealed' = sealed \/ (sealed' = sealed \cup {NewObs(l, t, f)} /\ SealedOK(NewObs(l, t, f)))
    PROVE  Turns(l) /\ Records(l)
<1>1. look \in [Looks -> LookRecords] /\ Idle \in LookRecords /\ LookOK(Idle, observerOf[l])
  BY IdleOK DEF Inv, Types
<1> DEFINE D == Disturbed(l, observerOf[l])
<1>2. \A j \in Looks : [look[j] EXCEPT !.quiet = FALSE] \in LookRecords
  BY <1>1, Edits
<1>3. /\ D \in [Looks -> LookRecords]
      /\ \A j \in Looks : D[j] = look[j] \/ D[j] = [look[j] EXCEPT !.quiet = FALSE]
  BY <1>1, <1>2 DEF Disturbed
<1> HIDE DEF D
<1>4. look' = [D EXCEPT ![l] = Idle]
  BY DEF D
<1>5. Turns(l)
  BY <1>1, <1>3, <1>4 DEF Turns, config
<1>6. NewObs(l, t, f) \in Observations /\ NewObs(l, t, f).at = Cardinality(sealed) + 1
  BY ObsParts
<1>7. Records(l)
  BY <1>6 DEF Records
<1> QED BY <1>5, <1>7

\* A removal that is sealed is of an accepting block that is off the chain.
LEMMA RemovalOK ==
    ASSUME Inv, NEW l \in Looks, NEW t \in LookRecords, t.prev \in accepting,
           t.blue <= Height(Sink(l)), Deep(t.prev, t.blue) => ~OnChain(t.prev, Sink(l))
    PROVE  /\ Finding("chain_removed", t.prev) \in FindingRecords
           /\ SealedOK(NewObs(l, t, Finding("chain_removed", t.prev)))
<1>1. t.prev \in Refs /\ NoBlock \in Refs /\ "chain_removed" \in FindingTypes
  BY BlockFacts DEF Inv, LookRecords, FindingTypes
<1>2. PICK f \in FindingRecords : f = Finding("chain_removed", t.prev)
  BY <1>1, FindingParts
<1>3. f.type = "chain_removed" /\ f.block = t.prev /\ f.to = NoBlock
  BY <1>1, <1>2, FindingParts
<1>4. PICK x \in Observations : x = NewObs(l, t, f)
  BY ObsParts
<1>5. x.observer = observerOf[l] /\ x.blue = t.blue /\ x.finding = f
  BY <1>4, ObsParts
<1>6. Left(f) = t.prev
  BY <1>3, SMTT(30) DEF Left
<1>7. ~Took(x)
  BY <1>3, <1>5 DEF Took
<1>8. SealedOK(x)
  BY <1>3, <1>5, <1>6, <1>7 DEF SealedOK, Sink
<1> QED BY <1>2, <1>4, <1>8

\* Only a look is written.
LEMMA MoveTurns ==
    ASSUME Inv, NEW l \in Looks, NEW r \in LookRecords, LookOK(r, observerOf[l]),
           look' = [look EXCEPT ![l] = r], UNCHANGED <<config, evidence>>
    PROVE  Turns(l) /\ Records(l)
<1>1. look \in [Looks -> LookRecords]
  BY DEF Inv, Types
<1>2. Turns(l)
  BY <1>1 DEF Turns, config
<1> QED BY <1>2 DEF Records, Inv, SealedInv, evidence

\* A look in its place: its record, its node and its point.
LEMMA LookFacts ==
    ASSUME Inv, NEW l \in Looks, NEW k, k = look[l]
    PROVE  /\ k \in LookRecords /\ LookOK(k, observerOf[l]) /\ Sink(l) = tip[observerOf[l]]
           /\ Sink(l) \in Blocks /\ Height(Sink(l)) \in Nat /\ k.blue \in Nat
           /\ \A b \in Blocks : Height(b) \in Nat
<1>1. k \in LookRecords /\ LookOK(k, observerOf[l]) /\ Sink(l) = tip[observerOf[l]] /\ Sink(l) \in Blocks
  BY DEF Inv, Types, LookInv, TreeInv, Sink
<1>2. \A b \in Blocks : Height(b) \in Nat
  BY PathFacts DEF Inv, TreeInv
<1> QED BY <1>1, <1>2 DEF LookRecords

\* The chain that replaced the accepting block is followed.
LEMMA FollowTurns ==
    ASSUME Inv, NEW l \in Looks, NEW k, k = look[l], k.pc \in {"previous", "follow"},
           NEW from \in Blocks, FollowFrom(l, from), UNCHANGED config,
           Deep(k.prev, k.blue) => ~OnChain(k.prev, Sink(l))
    PROVE  Turns(l) /\ Records(l)
<1>1. /\ k \in LookRecords /\ LookOK(k, observerOf[l]) /\ Sink(l) = tip[observerOf[l]]
      /\ Sink(l) \in Blocks /\ Height(Sink(l)) \in Nat /\ k.blue \in Nat
      /\ \A b \in Blocks : Height(b) \in Nat
  BY LookFacts
<1>2. /\ k.prev # NoBlock /\ k.prev \in accepting /\ k.blue <= Height(Sink(l)) /\ k.start \in Blocks
      /\ Clean(k.start) /\ k.cursor \in Blocks
  BY <1>1 DEF LookOK
<1>3. PICK s : s = Told(l, from, "moved")
  OBVIOUS
<1>4. /\ s \in LookRecords /\ s.prev = k.prev /\ s.start = k.start /\ s.blue = k.blue
      /\ \/ s.pc = "ended" /\ s.cursor = k.cursor
         \/ /\ s.pc = "moved" /\ s.cursor = k.cursor
            /\ s.block \in accepting /\ OnChain(s.block, Sink(l)) /\ s.truth.block = s.block
            /\ s.truth.depth = Height(Sink(l)) - Height(s.block)
         \/ s.pc \in {"ended", k.pc} /\ s.cursor \in Blocks
  <2>1. Answered(s, k, l, from, "moved")
    BY <1>1, <1>2, <1>3, ToldFacts DEF Inv
  <2> QED BY <2>1 DEF Answered
<1>5. PICK c \in {"ended", "moved", "follow"} : c = IF s.pc = "previous" THEN "follow" ELSE s.pc
  BY <1>4
<1>6. PICK t : t = [s EXCEPT !.pc = c]
  OBVIOUS
<1>7. t \in LookRecords
  <2>1. c \in Pcs
    BY DEF Pcs
  <2> QED BY <1>4, <1>6, <2>1, Edits
<1>8. /\ t.prev = s.prev /\ t.start = s.start /\ t.blue = s.blue /\ t.cursor = s.cursor /\ t.block = s.block
      /\ t.truth = s.truth /\ t.pc = c
  BY <1>4, <1>6, SMTT(30) DEF LookRecords
<1>9. t = [Told(l, from, "moved") EXCEPT !.pc = IF @ = "previous" THEN "follow" ELSE @]
  BY <1>3, <1>5, <1>6
<1>10. CASE c = "ended"
  <2>1. Seal(l, t, Finding("chain_removed", t.prev), TRUE)
    BY <1>8, <1>9, <1>10 DEF FollowFrom
  <2>2. PICK f \in FindingRecords : f = Finding("chain_removed", t.prev) /\ SealedOK(NewObs(l, t, f))
    BY <1>1, <1>2, <1>4, <1>7, <1>8, RemovalOK
  <2>3. /\ look' = [Disturbed(l, observerOf[l]) EXCEPT ![l] = Idle]
        /\ derived' = DeriveTxStatus(submission, sealed') /\ sealed' = sealed \cup {NewObs(l, t, f)}
    BY <2>1, <2>2 DEF Seal, NewObs
  <2> QED BY <1>7, <2>2, <2>3, SealTurns
<1>11. CASE c # "ended"
  <2>1. look' = [look EXCEPT ![l] = t] /\ UNCHANGED evidence
    BY <1>8, <1>9, <1>11 DEF FollowFrom
  <2>2. c = "moved" => /\ t.block \in accepting /\ OnChain(t.block, Sink(l)) /\ t.truth.block = t.block
                       /\ t.blue - Height(t.block) <= t.truth.depth
    <3> SUFFICES ASSUME c = "moved"
                 PROVE  /\ t.block \in accepting /\ OnChain(t.block, Sink(l)) /\ t.truth.block = t.block
                        /\ t.blue - Height(t.block) <= t.truth.depth
      OBVIOUS
    <3>1. s.pc = "moved"
      BY <1>5
    <3>2. /\ s.block \in accepting /\ OnChain(s.block, Sink(l)) /\ s.truth.block = s.block
          /\ s.truth.depth = Height(Sink(l)) - Height(s.block)
      BY <1>4, <3>1
    <3>3. Height(s.block) \in Nat
      BY <1>1, <3>2, BlockFacts DEF Inv
    <3>4. k.blue - Height(s.block) <= Height(Sink(l)) - Height(s.block)
      BY <1>1, <1>2, <3>3, SMTT(30)
    <3> QED BY <1>4, <1>8, <3>2, <3>4
  <2>3. c \in {"moved", "follow"} /\ t.cursor \in Blocks
    BY <1>2, <1>4, <1>8, <1>11
  <2>4. LookOK(t, observerOf[l])
    BY <1>1, <1>2, <1>4, <1>8, <2>2, <2>3 DEF LookOK
  <2> QED BY <1>7, <2>1, <2>4, MoveTurns
<1> QED BY <1>10, <1>11

\* The look asks about the block the evidence establishes.
LEMMA AskPreviousTurns ==
    ASSUME Inv, NEW l \in Looks, AskPrevious(l)
    PROVE  Turns(l) /\ Records(l)
<1>0. PICK k : k = look[l]
  OBVIOUS
<1>1. /\ k \in LookRecords /\ LookOK(k, observerOf[l]) /\ Sink(l) = tip[observerOf[l]]
      /\ Sink(l) \in Blocks /\ Height(Sink(l)) \in Nat /\ k.blue \in Nat
      /\ \A b \in Blocks : Height(b) \in Nat
  BY <1>0, LookFacts
<1>2. k.pc = "previous" /\ UNCHANGED config
  BY <1>0 DEF AskPrevious, At
<1>3. /\ k.prev \in accepting /\ k.prev \in Blocks /\ k.blue <= Height(Sink(l)) /\ k.start \in Blocks
      /\ Clean(k.start) /\ k.cursor \in Blocks
  BY <1>1, <1>2, BlockFacts DEF LookOK, Inv
<1>4. CASE ~OnChain(k.prev, Sink(l))
  <2>1. FollowFrom(l, k.prev)
    BY <1>0, <1>4 DEF AskPrevious
  <2> QED BY <1>0, <1>2, <1>3, <1>4, <2>1, FollowTurns
<1>5. CASE OnChain(k.prev, Sink(l))
  <2>1. PICK T \in Truths : T = Truth(Sink(l))
    BY <1>1, TruthFacts DEF Inv
  <2>2. T.block = k.prev /\ T.depth = Height(Sink(l)) - Height(k.prev)
    BY <1>1, <1>3, <1>5, <2>1, AcceptedFacts DEF Inv
  <2>3. PICK q \in LookRecords : q = [k EXCEPT !.pc = "header"]
    BY <1>1, Edits DEF Pcs
  <2>4. PICK w \in LookRecords : w = [q EXCEPT !.block = k.prev]
    BY <1>3, BlockFacts, Edits DEF Inv
  <2>5. PICK r \in LookRecords : r = [w EXCEPT !.truth = T]
    BY Edits
  <2>6. UNCHANGED evidence /\ look \in [Looks -> LookRecords]
        /\ look' = [[[look EXCEPT ![l] = q] EXCEPT ![l] = w] EXCEPT ![l] = r]
    BY <1>0, <1>5, <2>1, <2>3, <2>4, <2>5 DEF AskPrevious, Inv, Types
  <2>7. look' = [look EXCEPT ![l] = r]
    BY <2>6
  <2>8. /\ r.pc = "header" /\ r.prev = k.prev /\ r.start = k.start /\ r.cursor = k.cursor /\ r.blue = k.blue
        /\ r.block = k.prev /\ r.truth = T
    BY <1>1, <2>3, <2>4, <2>5, SMTT(30) DEF LookRecords
  <2>9. k.blue - Height(k.prev) <= T.depth
    <3>1. Height(k.prev) \in Nat
      BY <1>1, <1>3
    <3> QED BY <1>1, <1>3, <2>2, <3>1, SMTT(30)
  <2>10. LookOK(r, observerOf[l])
    BY <1>1, <1>3, <1>5, <2>2, <2>8, <2>9 DEF LookOK
  <2> QED BY <1>2, <2>6, <2>7, <2>10, MoveTurns
<1> QED BY <1>4, <1>5

\* The look goes on along the chain that replaced it.
LEMMA FollowStepTurns ==
    ASSUME Inv, NEW l \in Looks, Follow(l)
    PROVE  Turns(l) /\ Records(l)
<1>0. PICK k : k = look[l]
  OBVIOUS
<1>1. k.pc = "follow" /\ UNCHANGED config /\ FollowFrom(l, k.cursor)
  BY <1>0 DEF Follow, At
<1>2. LookOK(k, observerOf[l]) /\ Sink(l) = tip[observerOf[l]]
  BY <1>0, LookFacts
<1>3. k.cursor \in Blocks /\ (Deep(k.prev, k.blue) => ~OnChain(k.prev, Sink(l)))
  BY <1>1, <1>2 DEF LookOK
<1> QED BY <1>0, <1>1, <1>3, FollowTurns

\* A finding that names no accepting block verifies only positions the look
\* itself went through.
LEMMA UnseenOK ==
    ASSUME Inv, NEW l \in Looks, NEW t \in LookRecords, NEW pool \in Pools \cup {"none"},
           t.start \in Blocks, Clean(t.start), t.cursor \in Blocks, Clean(t.cursor),
           t.blue <= Height(Sink(l))
    PROVE  Unseen(t, pool) \in FindingRecords /\ SealedOK(NewObs(l, t, Unseen(t, pool)))
<1>1. Blocks \subseteq Refs /\ NoBlock \in Refs /\ NoBlock \notin Blocks
  BY BlockFacts DEF Inv
<1>2. {"mempool_entry", "mempool_orphan", "not_found"} \subseteq FindingTypes
  BY DEF FindingTypes
<1>3. PICK f : f = Unseen(t, pool)
  OBVIOUS
<1>4. /\ f \in FindingRecords /\ f.type \in {"mempool_entry", "mempool_orphan", "not_found"}
      /\ f.to \in {t.cursor, NoBlock} /\ f.from \in {t.start, NoBlock}
  <2>1. CASE pool # "none"
    <3>1. pool \in {"mempool_entry", "mempool_orphan"}
      BY <2>1, ObserverAssumption
    <3>2. PICK g : g = Finding(pool, NoBlock) /\ g \in FindingRecords /\ g.type = pool /\ g.from = NoBlock
      <4>1. pool \in FindingTypes
        BY <1>2, <3>1
      <4>2. /\ Finding(pool, NoBlock) \in FindingRecords /\ Finding(pool, NoBlock).type = pool
            /\ Finding(pool, NoBlock).from = NoBlock
        BY <1>1, <4>1, FindingParts
      <4> QED BY <4>2
    <3>3. PICK c \in {t.cursor, NoBlock} : f = [g EXCEPT !.to = c]
      BY <1>3, <2>1, <3>2 DEF Unseen
    <3>4. c \in Refs
      BY <1>1
    <3>5. f \in FindingRecords /\ f.type = g.type /\ f.to = c /\ f.from = g.from
      BY <3>2, <3>3, <3>4, SMTT(30) DEF FindingRecords
    <3> QED BY <3>1, <3>2, <3>3, <3>5
  <2>2. CASE pool = "none"
    <3>1. PICK g : g = Finding("not_found", NoBlock) /\ g \in FindingRecords /\ g.type = "not_found"
      <4>1. "not_found" \in FindingTypes
        BY <1>2
      <4>2. Finding("not_found", NoBlock) \in FindingRecords /\ Finding("not_found", NoBlock).type = "not_found"
        BY <1>1, <4>1, FindingParts
      <4> QED BY <4>2
    <3>2. PICK c \in {t.cursor, NoBlock} : f = [[g EXCEPT !.from = t.start] EXCEPT !.to = c]
      BY <1>3, <2>2, <3>1 DEF Unseen
    <3>3. c \in Refs /\ t.start \in Refs
      BY <1>1
    <3>4. PICK w : w = [g EXCEPT !.from = t.start]
      OBVIOUS
    <3>5. w \in FindingRecords /\ w.type = g.type /\ w.from = t.start
      BY <3>1, <3>3, <3>4, SMTT(30) DEF FindingRecords
    <3>6. f = [w EXCEPT !.to = c]
      BY <3>2, <3>4
    <3>7. f \in FindingRecords /\ f.type = w.type /\ f.to = c /\ f.from = w.from
      BY <3>3, <3>5, <3>6, SMTT(30) DEF FindingRecords
    <3> QED BY <3>1, <3>2, <3>5, <3>7
  <2> QED BY <2>1, <2>2
<1>5. Left(f) = NoBlock /\ f.type # "chain_removed" /\ f.type # "finality_reached" /\ f.type # "chain_accepted"
  <2>1. f.type # "chain_removed" /\ f.type # "finality_reached" /\ f.type # "chain_accepted"
    BY <1>4
  <2> QED BY <2>1, SMTT(30) DEF Left
<1>6. Position(f) \in {NoBlock, t.cursor, t.start}
  <2>1. CASE f.to # NoBlock
    BY <1>4, <2>1 DEF Position
  <2>2. CASE f.to = NoBlock /\ f.type = "not_found"
    <3>1. Position(f) = f.from
      BY <2>2, SMTT(30) DEF Position
    <3> QED BY <1>4, <3>1
  <2>3. CASE f.to = NoBlock /\ f.type # "not_found"
    <3>1. Position(f) = NoBlock
      BY <1>5, <2>3, SMTT(30) DEF Position
    <3> QED BY <3>1
  <2> QED BY <2>1, <2>2, <2>3
<1>7. PICK x \in Observations : x = NewObs(l, t, f)
  BY <1>4, ObsParts
<1>8. x.observer = observerOf[l] /\ x.blue = t.blue /\ x.finding = f
  BY <1>4, <1>7, ObsParts
<1>9. ~Took(x)
  BY <1>5, <1>8 DEF Took
<1>10. SealedOK(x)
  BY <1>5, <1>6, <1>8, <1>9 DEF SealedOK, Sink
<1> QED BY <1>3, <1>4, <1>7, <1>10

\* A look that cannot read the chain claims nothing.
LEMMA PrunedOK ==
    ASSUME Inv, NEW l \in Looks, NEW t \in LookRecords, t.blue <= Height(Sink(l))
    PROVE  /\ Finding("pruned_unobservable", NoBlock) \in FindingRecords
           /\ SealedOK(NewObs(l, t, Finding("pruned_unobservable", NoBlock)))
<1>1. NoBlock \in Refs /\ "pruned_unobservable" \in FindingTypes
  BY BlockFacts DEF Inv, FindingTypes
<1>2. PICK f : /\ f = Finding("pruned_unobservable", NoBlock) /\ f \in FindingRecords
               /\ f.type = "pruned_unobservable" /\ f.to = NoBlock
  <2>1. /\ Finding("pruned_unobservable", NoBlock) \in FindingRecords
        /\ Finding("pruned_unobservable", NoBlock).type = "pruned_unobservable"
        /\ Finding("pruned_unobservable", NoBlock).to = NoBlock
    BY <1>1, FindingParts
  <2> QED BY <2>1
<1>3. PICK x \in Observations : x = NewObs(l, t, f)
  BY <1>2, ObsParts
<1>4. x.observer = observerOf[l] /\ x.blue = t.blue /\ x.finding = f
  BY <1>2, <1>3, ObsParts
<1>5. Left(f) = NoBlock /\ Position(f) = NoBlock
  BY <1>2, SMTT(30) DEF Left, Position
<1>6. ~Took(x)
  BY <1>2, <1>4 DEF Took
<1>7. SealedOK(x)
  BY <1>2, <1>4, <1>5, <1>6 DEF SealedOK, Sink
<1> QED BY <1>2, <1>3, <1>7

\* One answer of a scan.
LEMMA ScanTurns ==
    ASSUME Inv, NEW l \in Looks, ScanChain(l)
    PROVE  Turns(l) /\ Records(l)
<1>0. PICK k : k = look[l]
  OBVIOUS
<1>1. /\ k \in LookRecords /\ LookOK(k, observerOf[l]) /\ Sink(l) = tip[observerOf[l]]
      /\ Sink(l) \in Blocks /\ Height(Sink(l)) \in Nat /\ k.blue \in Nat
      /\ \A b \in Blocks : Height(b) \in Nat
  BY <1>0, LookFacts
<1>2. k.pc = "scan" /\ UNCHANGED config
  BY <1>0 DEF ScanChain, At
<1>3. /\ k.blue <= Height(Sink(l)) /\ k.start \in Blocks /\ Clean(k.start) /\ k.cursor \in Blocks
      /\ Clean(k.cursor) /\ (k.prev # NoBlock => k.prev \in accepting)
  BY <1>1, <1>2 DEF LookOK
<1>4. PICK t : t = Told(l, k.cursor, "header")
  OBVIOUS
<1>5. Answered(t, k, l, k.cursor, "header")
  BY <1>0, <1>3, <1>4, ToldFacts DEF Inv
<1>6. /\ t \in LookRecords /\ t.prev = k.prev /\ t.start = k.start /\ t.blue = k.blue
      /\ \/ t.pc = "ended" /\ t.cursor \in Blocks /\ Clean(t.cursor)
         \/ /\ t.pc = "header" /\ t.cursor \in Blocks
            /\ t.block \in accepting /\ OnChain(t.block, Sink(l)) /\ t.truth.block = t.block
            /\ t.truth.depth = Height(Sink(l)) - Height(t.block)
         \/ t.pc = "scan" /\ t.cursor \in Blocks /\ Clean(t.cursor)
  BY <1>2, <1>3, <1>5 DEF Answered
<1>7. CASE t.pc = "ended"
  <2>1. PICK pool \in Pools \cup {"none"} : Seal(l, t, Unseen(t, pool), TRUE)
    BY <1>0, <1>4, <1>7 DEF ScanChain
  <2>2. t.cursor \in Blocks /\ Clean(t.cursor)
    BY <1>6, <1>7
  <2>3. PICK f \in FindingRecords : f = Unseen(t, pool) /\ SealedOK(NewObs(l, t, f))
    BY <1>3, <1>6, <2>2, UnseenOK
  <2>4. /\ look' = [Disturbed(l, observerOf[l]) EXCEPT ![l] = Idle]
        /\ derived' = DeriveTxStatus(submission, sealed') /\ sealed' = sealed \cup {NewObs(l, t, f)}
    BY <2>1, <2>3 DEF Seal, NewObs
  <2> QED BY <1>2, <1>6, <2>3, <2>4, SealTurns
<1>8. CASE t.pc # "ended"
  <2>1. look' = [look EXCEPT ![l] = t] /\ UNCHANGED evidence
    BY <1>0, <1>4, <1>8 DEF ScanChain
  <2>2. t.pc = "header" => t.blue - Height(t.block) <= t.truth.depth
    <3> SUFFICES ASSUME t.pc = "header" PROVE t.blue - Height(t.block) <= t.truth.depth
      OBVIOUS
    <3>1. t.block \in accepting /\ t.truth.depth = Height(Sink(l)) - Height(t.block)
      BY <1>6
    <3>2. Height(t.block) \in Nat
      BY <1>1, <3>1, BlockFacts DEF Inv
    <3> QED BY <1>1, <1>3, <1>6, <3>1, <3>2, SMTT(30)
  <2>3. LookOK(t, observerOf[l])
    <3>1. CASE t.pc = "header"
      BY <1>1, <1>3, <1>6, <2>2, <3>1 DEF LookOK
    <3>2. CASE t.pc = "scan"
      BY <1>1, <1>3, <1>6, <3>2 DEF LookOK
    <3> QED BY <1>6, <1>8, <3>1, <3>2
  <2> QED BY <1>2, <1>6, <2>1, <2>3, MoveTurns
<1> QED BY <1>7, <1>8

\* The greater of a number and zero.
LEMMA MaxZero ==
    ASSUME NEW n \in Nat
    PROVE  Max({n, 0}) = n
<1>1. n \in {n, 0} /\ \A m \in {n, 0} : n >= m
  BY SMTT(30)
<1>2. \A q \in {n, 0} : (\A m \in {n, 0} : q >= m) => q = n
  BY SMTT(30)
<1> QED BY <1>1, <1>2 DEF Max

\* The acceptance a look found is sealed: its depth is counted from the sink the
\* look read first, so it is no more than the chain then said.
LEMMA AcceptanceOK ==
    ASSUME Inv, NEW l \in Looks, NEW t \in LookRecords, LookOK(t, observerOf[l]), t.pc \in {"header", "moved"},
           NEW f \in FindingRecords, f.type \in {"finality_reached", "chain_accepted"}, f.block = t.block,
           f.depth = t.blue - Height(t.block), f.to = NoBlock,
           f.type = "finality_reached" => f.depth >= FinalityDepth,
           f.replaced # NoBlock => t.pc = "moved" /\ f.replaced = t.prev
    PROVE  SealedOK(NewObs(l, t, f))
<1>1. PICK x \in Observations : x = NewObs(l, t, f)
  BY ObsParts
<1>2. x.observer = observerOf[l] /\ x.blue = t.blue /\ x.finding = f /\ x.truth = t.truth
  BY <1>1, ObsParts
<1>3. /\ t.block \in accepting /\ t.truth.block = t.block /\ t.blue - Height(t.block) <= t.truth.depth
      /\ Deep(t.block, t.blue) => OnChain(t.block, tip[observerOf[l]])
      /\ t.blue <= Height(tip[observerOf[l]])
  BY DEF LookOK
<1>4. Height(t.block) \in Nat /\ t.blue \in Nat /\ FinalityDepth \in Nat
  <2>1. t.block \in Blocks
    BY <1>3, BlockFacts DEF Inv
  <2> QED BY <2>1, PathFacts, DepthAssumption DEF Inv, TreeInv, LookRecords
<1>5. f.type = "finality_reached" => Deep(t.block, t.blue)
  BY <1>4, SMTT(30) DEF Deep
<1>6. Position(f) = NoBlock
  BY SMTT(30) DEF Position
<1>7. Left(f) # NoBlock => t.pc = "moved" /\ Left(f) = t.prev
  <2>1. CASE f.type = "chain_accepted"
    <3>1. Left(f) = f.replaced
      BY <2>1, SMTT(30) DEF Left
    <3> QED BY <3>1
  <2>2. CASE f.type = "finality_reached"
    <3>1. Left(f) = NoBlock
      BY <2>2, SMTT(30) DEF Left
    <3> QED BY <3>1
  <2> QED BY <2>1, <2>2
<1>8. t.pc = "moved" => t.prev \in accepting /\ (Deep(t.prev, t.blue) => ~OnChain(t.prev, tip[observerOf[l]]))
  BY DEF LookOK
<1>9. Left(f) # NoBlock =>
        Left(f) \in accepting /\ (Deep(Left(f), t.blue) => ~OnChain(Left(f), tip[observerOf[l]]))
  BY <1>7, <1>8
<1>10. SealedOK(x)
  BY <1>2, <1>3, <1>5, <1>6, <1>9 DEF SealedOK
<1> QED BY <1>1, <1>10

\* The header of the accepting block is read, and the look ends.
LEMMA HeaderTurns ==
    ASSUME Inv, NEW l \in Looks, ReadHeader(l)
    PROVE  Turns(l) /\ Records(l)
<1>0. PICK k : k = look[l]
  OBVIOUS
<1>1. /\ k \in LookRecords /\ LookOK(k, observerOf[l]) /\ Sink(l) = tip[observerOf[l]]
      /\ Sink(l) \in Blocks /\ Height(Sink(l)) \in Nat /\ k.blue \in Nat
      /\ \A b \in Blocks : Height(b) \in Nat
  BY <1>0, LookFacts
<1>2. k.pc \in {"header", "moved"} /\ UNCHANGED config
  BY <1>0 DEF ReadHeader
<1>3. k.block \in accepting /\ k.block \in Refs /\ NoBlock \in Refs /\ Height(k.block) \in Nat /\ k.prev \in Refs
  BY <1>1, <1>2, BlockFacts DEF LookOK, Inv, LookRecords
<1>4. PICK n : n = k.blue - Height(k.block)
  OBVIOUS
<1>5. n \in Int
  BY <1>1, <1>3, <1>4, SMTT(30)
<1>6. PICK p \in Refs : p = IF k.pc = "moved" THEN k.prev ELSE NoBlock
  BY <1>3
<1>7. PICK f : f = IF n >= FinalityDepth
                   THEN [Finding("finality_reached", k.block) EXCEPT !.depth = n]
                   ELSE [Finding("chain_accepted", k.block) EXCEPT !.depth = Max({n, 0}), !.replaced = p]
  OBVIOUS
<1>8. Seal(l, k, f, Coherent(k.blue, Height(k.block), f))
  BY <1>0, <1>4, <1>6, <1>7 DEF ReadHeader
<1>9. /\ look' = [Disturbed(l, observerOf[l]) EXCEPT ![l] = Idle]
      /\ derived' = DeriveTxStatus(submission, sealed')
      /\ sealed' = IF Coherent(k.blue, Height(k.block), f) THEN sealed \cup {NewObs(l, k, f)} ELSE sealed
  BY <1>8 DEF Seal, NewObs
<1>10. CASE ~Coherent(k.blue, Height(k.block), f)
  <2>1. Idle \in LookRecords /\ Finding("pruned_unobservable", NoBlock) \in FindingRecords
    BY <1>3, IdleOK, FindingParts DEF Inv, FindingTypes
  <2> QED BY <1>1, <1>2, <1>9, <1>10, <2>1, SealTurns
<1>11. CASE Coherent(k.blue, Height(k.block), f)
  <2>1. n \in Nat
    BY <1>1, <1>3, <1>4, <1>11, SMTT(30) DEF Coherent
  <2>2. f \in FindingRecords /\ SealedOK(NewObs(l, k, f))
    <3>1. CASE n >= FinalityDepth
      <4>1. PICK g : g = Finding("finality_reached", k.block)
        OBVIOUS
      <4>2. /\ g \in FindingRecords /\ g.type = "finality_reached" /\ g.block = k.block /\ g.to = NoBlock
            /\ g.replaced = NoBlock
        <5>1. "finality_reached" \in FindingTypes
          BY DEF FindingTypes
        <5> QED BY <1>3, <4>1, <5>1, FindingParts
      <4>3. f = [g EXCEPT !.depth = n]
        BY <1>7, <3>1, <4>1
      <4>4. /\ f \in FindingRecords /\ f.type = g.type /\ f.block = g.block /\ f.to = g.to
            /\ f.replaced = g.replaced /\ f.depth = n
        BY <1>5, <4>2, <4>3, SMTT(30) DEF FindingRecords
      <4> QED BY <1>1, <1>2, <1>4, <3>1, <4>2, <4>4, AcceptanceOK
    <3>2. CASE ~(n >= FinalityDepth)
      <4>1. PICK g : g = Finding("chain_accepted", k.block)
        OBVIOUS
      <4>2. g \in FindingRecords /\ g.type = "chain_accepted" /\ g.block = k.block /\ g.to = NoBlock
        <5>1. "chain_accepted" \in FindingTypes
          BY DEF FindingTypes
        <5> QED BY <1>3, <4>1, <5>1, FindingParts
      <4>3. f = [[g EXCEPT !.depth = n] EXCEPT !.replaced = p]
        BY <1>7, <2>1, <3>2, <4>1, MaxZero
      <4>4. PICK w : w = [g EXCEPT !.depth = n]
        OBVIOUS
      <4>5. w \in FindingRecords /\ w.type = g.type /\ w.block = g.block /\ w.to = g.to /\ w.depth = n
        BY <1>5, <4>2, <4>4, SMTT(30) DEF FindingRecords
      <4>6. f = [w EXCEPT !.replaced = p]
        BY <4>3, <4>4
      <4>7. /\ f \in FindingRecords /\ f.type = w.type /\ f.block = w.block /\ f.to = w.to
            /\ f.replaced = p /\ f.depth = w.depth
        BY <4>5, <4>6, SMTT(30) DEF FindingRecords
      <4>8. f.replaced # NoBlock => k.pc = "moved" /\ f.replaced = k.prev
        BY <1>6, <4>7
      <4>9. f.type = "chain_accepted" /\ f.block = k.block /\ f.to = NoBlock /\ f.depth = k.blue - Height(k.block)
        BY <1>4, <4>2, <4>5, <4>7
      <4> QED BY <1>1, <1>2, <4>7, <4>8, <4>9, AcceptanceOK
    <3> QED BY <3>1, <3>2
  <2> QED BY <1>1, <1>2, <1>9, <1>11, <2>2, SealTurns
<1> QED BY <1>10, <1>11

\* A look goes on without the accepting block, or is given up.
LEMMA UnservedTurns ==
    ASSUME Inv, NEW l \in Looks, PreviousUnserved(l) \/ Unserved(l) \/ CallFails(l)
    PROVE  Turns(l) /\ Records(l)
<1>0. PICK k : k = look[l]
  OBVIOUS
<1>1. /\ k \in LookRecords /\ LookOK(k, observerOf[l]) /\ Sink(l) = tip[observerOf[l]]
      /\ look \in [Looks -> LookRecords]
  BY <1>0, LookFacts DEF Inv, Types
<1>2. CASE PreviousUnserved(l)
  <2>1. PICK q \in LookRecords : q = [k EXCEPT !.pc = "scan"]
    BY <1>1, Edits DEF Pcs
  <2>2. PICK r \in LookRecords : r = [q EXCEPT !.quiet = FALSE]
    BY Edits
  <2>3. /\ look' = [[look EXCEPT ![l] = q] EXCEPT ![l] = r] /\ UNCHANGED <<config, evidence>>
        /\ k.pc = "previous"
    BY <1>0, <1>1, <1>2, <2>1, <2>2 DEF PreviousUnserved, At
  <2>4. look' = [look EXCEPT ![l] = r]
    BY <1>1, <2>3
  <2>5. /\ r.pc = "scan" /\ r.prev = k.prev /\ r.start = k.start /\ r.cursor = k.cursor
        /\ r.blue = k.blue
    BY <1>1, <2>1, <2>2, SMTT(30) DEF LookRecords
  <2>6. LookOK(r, observerOf[l])
    BY <1>1, <2>3, <2>5 DEF LookOK
  <2> QED BY <2>3, <2>4, <2>6, MoveTurns
<1>3. CASE Unserved(l)
  <2>1. k.pc \in {"scan", "header", "moved"} /\ UNCHANGED config
    BY <1>0, <1>3 DEF Unserved
  <2>2. k.blue <= Height(Sink(l))
    BY <1>1, <2>1 DEF LookOK
  <2>3. PICK f \in FindingRecords : Seal(l, k, f, TRUE) /\ SealedOK(NewObs(l, k, f))
    <3>1. CASE Seal(l, k, Finding("pruned_unobservable", NoBlock), TRUE)
      BY <1>1, <2>2, <3>1, PrunedOK
    <3>2. CASE k.pc = "scan" /\ \E pool \in Pools : Seal(l, k, Unseen(k, pool), TRUE)
      <4>1. PICK pool \in Pools \cup {"none"} : Seal(l, k, Unseen(k, pool), TRUE)
        BY <3>2
      <4>2. k.start \in Blocks /\ Clean(k.start) /\ k.cursor \in Blocks /\ Clean(k.cursor)
        BY <1>1, <3>2 DEF LookOK
      <4> QED BY <1>1, <2>2, <4>1, <4>2, UnseenOK
    <3> QED BY <1>0, <1>3, <3>1, <3>2 DEF Unserved
  <2>4. /\ look' = [Disturbed(l, observerOf[l]) EXCEPT ![l] = Idle]
        /\ derived' = DeriveTxStatus(submission, sealed') /\ sealed' = sealed \cup {NewObs(l, k, f)}
    BY <2>3 DEF Seal, NewObs
  <2> QED BY <1>1, <2>1, <2>3, <2>4, SealTurns
<1>4. CASE CallFails(l)
  <2>1. look' = [look EXCEPT ![l] = Idle] /\ UNCHANGED <<config, evidence>>
    BY <1>4 DEF CallFails
  <2>2. Idle \in LookRecords /\ LookOK(Idle, observerOf[l])
    BY IdleOK DEF Inv
  <2> QED BY <2>1, <2>2, MoveTurns
<1> QED BY <1>2, <1>3, <1>4

-----------------------------------------------------------------------------
(* Every step keeps the invariant *)

\* Company changes nothing but the ghost.
LEMMA QuietOK ==
    ASSUME NEW k \in LookRecords, NEW o, LookOK(k, o)
    PROVE  LookOK([k EXCEPT !.quiet = FALSE], o)
<1>1. PICK r : r = [k EXCEPT !.quiet = FALSE]
  OBVIOUS
<1>2. /\ r.pc = k.pc /\ r.prev = k.prev /\ r.start = k.start /\ r.cursor = k.cursor /\ r.blue = k.blue
      /\ r.block = k.block /\ r.truth = k.truth
  BY <1>1, SMTT(30) DEF LookRecords
<1>3. LookOK(r, o)
  BY <1>2 DEF LookOK
<1> QED BY <1>1, <1>3

\* What any step does to the looks and the evidence.
LEMMA AnyStep ==
    ASSUME Inv, [Next]_vars
    PROVE  /\ look' \in [Looks -> LookRecords] /\ UNCHANGED <<observerOf, submission>>
           /\ \A j \in Looks : LookOK(look'[j], observerOf[j])
           /\ \/ sealed' = sealed
              \/ \E x \in Observations : /\ SealedOK(x) /\ x.at = Cardinality(sealed) + 1
                                         /\ sealed' = sealed \cup {x}
           /\ derived' = DeriveTxStatus(submission, sealed')
<1>1. look \in [Looks -> LookRecords] /\ \A j \in Looks : LookOK(look[j], observerOf[j])
  BY DEF Inv, Types, LookInv
<1>2. \A j \in Looks : /\ [look[j] EXCEPT !.quiet = FALSE] \in LookRecords
                       /\ LookOK([look[j] EXCEPT !.quiet = FALSE], observerOf[j])
  BY <1>1, QuietOK, Edits
<1>3. ASSUME NEW l \in Looks, LookStep(l)
      PROVE  Turns(l) /\ Records(l)
  BY <1>3, BeginTurns, ReadPointTurns, AskPreviousTurns, FollowStepTurns, ScanTurns, HeaderTurns,
     UnservedTurns DEF LookStep
<1>4. CASE \E l \in Looks : LookStep(l)
  <2>1. PICK l \in Looks : Turns(l) /\ Records(l)
    BY <1>3, <1>4
  <2>2. \A j \in Looks : LookOK(look'[j], observerOf[j])
    BY <1>1, <1>2, <2>1 DEF Turns
  <2> QED BY <2>1, <2>2 DEF Turns, Records
<1>5. CASE UNCHANGED <<config, evidence, look>>
  BY <1>1, <1>5 DEF config, evidence, Inv, SealedInv
<1>6. ASSUME NEW o \in Observers, NEW b \in Blocks, MoveTip(o, b)
      PROVE  /\ look' \in [Looks -> LookRecords] /\ \A j \in Looks : LookOK(look'[j], observerOf[j])
             /\ UNCHANGED <<config, evidence>>
  <2>1. look' = Disturbed(NoBlock, o) /\ UNCHANGED <<config, evidence>>
    BY <1>6 DEF MoveTip
  <2>2. \A j \in Looks : look'[j] = look[j] \/ look'[j] = [look[j] EXCEPT !.quiet = FALSE]
    BY <2>1 DEF Disturbed
  <2>3. look' \in [Looks -> LookRecords]
    BY <1>1, <1>2, <2>1 DEF Disturbed
  <2> QED BY <1>1, <1>2, <2>1, <2>2, <2>3
<1>7. \/ \E l \in Looks : LookStep(l)
      \/ \E o \in Observers, b \in Blocks : MoveTip(o, b)
      \/ UNCHANGED <<config, evidence, look>>
  BY DEF Next, vars, LookStep, NewBlock
<1> QED BY <1>4, <1>5, <1>6, <1>7 DEF config, evidence, Inv, SealedInv

\* The order of the observations is kept.
LEMMA OrderStep ==
    ASSUME Types, OrderInv, NEW x \in Observations, x.at = Cardinality(sealed) + 1,
           sealed' = sealed \cup {x}
    PROVE  OrderInv'
<1>1. Cardinality(sealed) \in Nat /\ IsFiniteSet(sealed)
  BY FS_CardinalityType DEF OrderInv
<1>2. \A y \in sealed : y.at \in Nat /\ y.blue \in Nat /\ y.at <= Cardinality(sealed)
  BY DEF Types, OrderInv, Observations
<1>3. x \notin sealed
  BY <1>1, <1>2, SMTT(30)
<1>4. IsFiniteSet(sealed') /\ Cardinality(sealed') = Cardinality(sealed) + 1
  BY <1>1, <1>3, FS_AddElement
<1>5. \A y \in sealed' : y.at <= Cardinality(sealed')
  BY <1>1, <1>2, <1>4, SMTT(30)
<1>6. \A y \in sealed : y.at # x.at
  BY <1>1, <1>2, SMTT(30)
<1>7. \A y, z \in sealed' : y.at = z.at => y = z
  BY <1>6 DEF OrderInv
<1>8. \E n \in Nat : \A y \in sealed' : y.blue <= n
  <2>1. PICK n \in Nat : \A y \in sealed : y.blue <= n
    BY DEF OrderInv
  <2>2. x.blue \in Nat
    BY DEF Observations
  <2>3. n + x.blue \in Nat /\ \A y \in sealed' : y.blue <= n + x.blue
    BY <1>2, <2>1, <2>2, SMTT(30)
  <2> QED BY <2>3
<1> QED BY <1>4, <1>5, <1>7, <1>8 DEF OrderInv

\* Every step keeps the invariant.
LEMMA Inductive ==
    ASSUME Inv, [Next]_vars
    PROVE  Inv' /\ Grows
<1>1. /\ look' \in [Looks -> LookRecords] /\ UNCHANGED <<observerOf, submission>>
      /\ \A j \in Looks : LookOK(look'[j], observerOf[j])
      /\ \/ sealed' = sealed
         \/ \E x \in Observations : /\ SealedOK(x) /\ x.at = Cardinality(sealed) + 1
                                    /\ sealed' = sealed \cup {x}
      /\ derived' = DeriveTxStatus(submission, sealed')
  BY AnyStep
<1>2. TreeInv' /\ TreeStays /\ \A o \in Observers : SinkStays(o)
  BY TreeStep DEF Inv
<1>3. Grows
  BY <1>1, <1>2 DEF Grows
<1>4. Types'
  BY <1>1 DEF Inv, Types
<1>5. OrderInv'
  <2>1. CASE sealed' = sealed
    BY <2>1 DEF Inv, OrderInv
  <2>2. CASE sealed' # sealed
    BY <1>1, <2>2, OrderStep DEF Inv
  <2> QED BY <2>1, <2>2
<1>6. LookInv'
  <2> SUFFICES ASSUME NEW j \in Looks PROVE LookOK(look[j], observerOf[j])'
    BY DEF LookInv
  <2>1. PICK r \in LookRecords : r = look'[j]
    BY <1>1
  <2>2. PICK o \in Observers : o = observerOf[j]
    BY DEF Inv, Types
  <2>3. LookOK(r, o)
    BY <1>1, <2>1, <2>2
  <2>4. LookOK(r, o)'
    BY <1>3, <2>3, LookStays DEF Inv
  <2>5. o = observerOf'[j]
    BY <1>1, <2>2
  <2> QED BY <2>1, <2>4, <2>5 DEF LookOK
<1>7. SealedInv'
  <2>1. ASSUME NEW x \in sealed' PROVE SealedOK(x)'
    <3>1. x \in Observations /\ SealedOK(x)
      BY <1>1, <2>1 DEF Inv, SealedInv, Types
    <3> QED BY <1>3, <3>1, SealedStays DEF Inv
  <2>2. derived' = DeriveTxStatus(submission', sealed')
    BY <1>1
  <2> QED BY <2>1, <2>2 DEF SealedInv
<1> QED BY <1>2, <1>3, <1>4, <1>5, <1>6, <1>7 DEF Inv

\* The invariant holds at the start.
LEMMA Initially ==
    ASSUME Init
    PROVE  Inv
<1>1. path = <<>> /\ Blocks = {0}
  BY SMTT(30) DEF Init, Blocks
<1>2. Path(0) = <<0>>
  BY DEF Path
<1>3. PathAt(0)
  BY <1>1, <1>2, SMTT(30) DEF PathAt
<1>4. PathsInv
  <2>1. path \in Seq(Seq(Nat)) /\ Len(path) = 0 /\ 0 <= MaxBlocks
    BY <1>1, ObserverAssumption, SMTT(30)
  <2> QED BY <1>1, <1>3, <2>1 DEF PathsInv
<1>5. TreeInv
  <2>1. accepting = {} /\ tip = [o \in Observers |-> 0]
    BY DEF Init
  <2> QED BY <1>1, <1>4, <2>1 DEF TreeInv
<1>6. look = [l \in Looks |-> Idle] /\ sealed = {} /\ observerOf \in Setups /\ submission \in Submissions
      /\ derived = DeriveTxStatus(submission, sealed)
  BY DEF Init
<1>7. Types
  <2>1. Idle \in LookRecords
    BY <1>5, IdleOK
  <2> QED BY <1>6, <2>1, ObserverAssumption DEF Types
<1>8. OrderInv
  <2>1. IsFiniteSet({}) /\ 0 \in Nat
    BY FS_EmptySet, SMTT(30)
  <2> QED BY <1>6, <2>1 DEF OrderInv
<1>9. LookInv
  BY <1>5, <1>6, IdleOK DEF LookInv
<1>10. SealedInv
  BY <1>6 DEF SealedInv
<1> QED BY <1>5, <1>7, <1>8, <1>9, <1>10 DEF Inv

\* The invariant holds in every behaviour.
THEOREM InvHolds == Spec => []Inv
<1>1. Init => Inv
  BY Initially
<1>2. Inv /\ [Next]_vars => Inv'
  BY Inductive
<1> QED BY <1>1, <1>2, PTL DEF Spec

\* A depth is never overstated: what is sealed is at most the depth the block had
\* when the node last said it was on its chain (observeTxOnce measures from the
\* sink it read first).
THEOREM NeverOverstatedHolds == Spec => []NeverOverstated
<1>1. Inv => NeverOverstated
  BY DEF Inv, SealedInv, SealedOK, NeverOverstated
<1> QED BY <1>1, InvHolds, PTL

\* The cursor never passes an acceptance that is not established: whatever the
\* next look starts above was read, or was reported removed (verifiedCursor).
THEOREM CursorNeverSkipsHolds == Spec => []CursorNeverSkips
<1>1. Inv => CursorNeverSkips
  <2> SUFFICES ASSUME Inv, NEW o \in Observers, AcceptedOn(tip[o]) # NoBlock, ~Reported(AcceptedOn(tip[o]))
               PROVE  ~OnChain(AcceptedOn(tip[o]), VerifiedCursor(sealed))
    BY DEF CursorNeverSkips
  <2>1. tip[o] \in Blocks
    BY DEF Inv, TreeInv
  <2>2. AcceptedOn(tip[o]) \in accepting
    BY <2>1, TruthFacts DEF Inv
  <2>3. Clean(VerifiedCursor(sealed))
    BY CursorClean DEF Inv
  <2> QED BY <2>2, <2>3 DEF Clean
<1> QED BY <1>1, InvHolds, PTL

-----------------------------------------------------------------------------
(* Finality *)

\* No observer contradicts the finality it reported.
LEMMA NeverIncoherent ==
    ASSUME Inv, NEW o, NEW S, S = {x \in sealed : x.observer = o}
    PROVE  ~Incoherent(S)
<1> SUFFICES ASSUME Incoherent(S) PROVE FALSE
  OBVIOUS
<1>1. PICK y \in S : /\ {x \in Finals(S) : ByPoint(x, y)} # {}
                     /\ Left(y.finding) = Latest({x \in Finals(S) : ByPoint(x, y)}).finding.block
  BY DEF Incoherent
<1> DEFINE E == {x \in Finals(S) : ByPoint(x, y)}
<1>2. E \in SUBSET sealed
  BY DEF Finals
<1>3. Latest(E) \in E
  BY <1>1, <1>2, LatestIn DEF Inv
<1>4. PICK x \in E : x = Latest(E)
  BY <1>3
<1>5. Left(y.finding) = x.finding.block
  BY <1>1, <1>4
<1>6. /\ x \in sealed /\ x.finding.type = "finality_reached" /\ x.observer = o /\ ByPoint(x, y)
      /\ y \in sealed /\ y.observer = o
  BY DEF Finals
<1> HIDE DEF E
<1>7. SealedOK(x) /\ SealedOK(y)
  BY <1>6 DEF Inv, SealedInv
<1>8. PICK b : b = x.finding.block
  OBVIOUS
<1>9. b \in accepting /\ Deep(b, x.blue) /\ OnChain(b, tip[o])
  BY <1>6, <1>7, <1>8 DEF SealedOK, Took
<1>10. b \in Blocks /\ b # NoBlock
  BY <1>9, BlockFacts DEF Inv
<1>11. ~Deep(b, y.blue)
  BY <1>5, <1>6, <1>7, <1>8, <1>9, <1>10 DEF SealedOK
<1>12. x.blue \in Nat /\ y.blue \in Nat /\ Height(b) \in Nat /\ FinalityDepth \in Nat
  BY <1>6, <1>10, PathFacts, DepthAssumption DEF Inv, Types, TreeInv, Observations
<1>13. x.blue <= y.blue
  BY <1>6, <1>12, SMTT(30) DEF ByPoint
<1> QED BY <1>9, <1>11, <1>12, <1>13, SMTT(30) DEF Deep

\* An observer that saw the block final says so from then on.
FinalsStand ==
    \A x \in sealed : x.finding.type = "finality_reached" =>
        ObserverHistory({y \in sealed : y.observer = x.observer}).status = "FINALIZED"

\* An observer never takes a finality back.
LEMMA FinalsStandHolds == Inv => FinalsStand
<1> SUFFICES ASSUME Inv, NEW x \in sealed, x.finding.type = "finality_reached"
             PROVE  ObserverHistory({y \in sealed : y.observer = x.observer}).status = "FINALIZED"
  BY DEF FinalsStand
<1>0. PICK S : S = {y \in sealed : y.observer = x.observer}
  OBVIOUS
<1>1. ~Incoherent(S)
  BY <1>0, NeverIncoherent
<1>2. Finals(S) # {}
  BY <1>0 DEF Finals
<1>3. PICK b, n : ObserverHistory(S) = Claim("FINALIZED", b, n)
  BY <1>1, <1>2 DEF ObserverHistory
<1>4. ObserverHistory(S).status = "FINALIZED"
  BY <1>3, ClaimParts, SMTT(30)
<1> QED BY <1>0, <1>4

\* A history that is final rests on an observation that is.
LEMMA FinalSeen ==
    ASSUME NEW S, ObserverHistory(S).status = "FINALIZED"
    PROVE  Finals(S) # {}
<1> SUFFICES ASSUME Finals(S) = {} PROVE FALSE
  OBVIOUS
<1>1. \/ ObserverHistory(S) = Conflicting
      \/ \E b, n : ObserverHistory(S) = Depth(b, n)
      \/ ObserverHistory(S) = ByLastLook(S)
  BY DEF ObserverHistory
<1>2. Conflicting.status # "FINALIZED" /\ \A b, n : Depth(b, n).status # "FINALIZED"
  BY ClaimParts, SMTT(30)
<1>3. ByLastLook(S).status \in {"REORGED", "NOT_ON_CHAIN", "MEMPOOL_ACCEPTED", "MEMPOOL_ORPHAN",
                                "UNOBSERVABLE_PRUNED", "NO_CLAIM"}
  BY SMTT(30) DEF ByLastLook, Claim
<1>4. ByLastLook(S).status # "FINALIZED"
  BY <1>3
<1> QED BY <1>1, <1>2, <1>4

\* Two observers of a finite record are more than one.
LEMMA TwoSeen ==
    ASSUME NEW S, IsFiniteSet(S), NEW x \in S, NEW y \in S, x.observer # y.observer
    PROVE  Cardinality({z.observer : z \in S}) > 1
<1> DEFINE T == {z.observer : z \in S}
           f == [z \in S |-> z.observer]
<1>1. f \in Surjection(S, T)
  BY DEF Surjection
<1>2. IsFiniteSet(T)
  BY <1>1, FS_Surjection
<1>3. x.observer \in T /\ y.observer \in T
  OBVIOUS
<1> HIDE DEF T
<1>4. Cardinality(T) # 1
  <2> SUFFICES ASSUME Cardinality(T) = 1 PROVE FALSE
    OBVIOUS
  <2>1. \E z : T = {z}
    <3>1. IsFiniteSet(T) => (Cardinality(T) = 1 <=> \E z : T = {z})
      BY FS_Singleton
    <3> QED BY <1>2, <3>1
  <2>2. PICK z : T = {z}
    BY <2>1
  <2> QED BY <1>3, <2>2
<1>5. Cardinality(T) # 0 /\ Cardinality(T) \in Nat
  BY <1>2, <1>3, FS_EmptySet, FS_CardinalityType
<1>6. Cardinality(T) > 1
  BY <1>4, <1>5, SMTT(30)
<1> QED BY <1>6 DEF T

\* With one observer's history final, a derived state that is not is a conflict
\* between observers.
LEMMA FinalDerived ==
    ASSUME NEW sub \in Submissions, NEW S, IsFiniteSet(S), NEW x \in S,
           ObserverHistory({y \in S : y.observer = x.observer}).status = "FINALIZED"
    PROVE  \/ DeriveTxStatus(sub, S).status = "FINALIZED"
           \/ /\ DeriveTxStatus(sub, S).status = "CONFLICTING_OBSERVATIONS"
              /\ Cardinality({y.observer : y \in S}) > 1
<1> DEFINE Of(o) == {y \in S : y.observer = o}
           d == DeriveTxStatus(sub, S)
           H == With(Positive, S)
<1>0. PICK g : g = ObserverHistory(Of(x.observer))
  OBVIOUS
<1>1. g.status = "FINALIZED" /\ g \in Histories(S)
  BY <1>0 DEF Histories
<1>2. "FINALIZED" \in Positive /\ "FINALIZED" \notin Negative /\ Conflicting.status = "CONFLICTING_OBSERVATIONS"
      /\ Conflicting # g
  <2>1. Conflicting.status = "CONFLICTING_OBSERVATIONS"
    BY ClaimParts
  <2> QED BY <1>1, <2>1 DEF Positive, Negative
<1>3. g \in H
  BY <1>1, <1>2 DEF With
<1>4. ASSUME NEW h \in Histories(S), h # g
      PROVE  Cardinality({y.observer : y \in S}) > 1
  <2>1. PICK y \in S : h = ObserverHistory(Of(y.observer))
    BY DEF Histories
  <2>2. y.observer # x.observer
    BY <1>0, <1>4, <2>1
  <2> QED BY <2>2, TwoSeen
<1>5. CASE Conflicting \in Histories(S)
  <2>1. d = Conflicting
    BY <1>5, DerivedCases, ObserverAssumption
  <2> QED BY <1>2, <1>4, <1>5, <2>1
<1>6. CASE Conflicting \notin Histories(S)
  <2>1. d = IF With(Negative, S) # {} \/ Cardinality({h.block : h \in H}) > 1
            THEN Conflicting ELSE Agreed(H)
    <3>1. sub # "synthetic" /\ H # {}
      BY <1>3, ObserverAssumption
    <3> QED BY <1>6, <3>1, DerivedCases
  <2> HIDE DEF d
  <2>2. CASE d = Agreed(H)
    <3>1. Agreed(H).status = "FINALIZED"
      BY <1>1, <1>3, AgreedParts
    <3> QED BY <2>2, <3>1 DEF d
  <2>3. CASE With(Negative, S) # {} /\ d = Conflicting
    <3>1. PICK h \in With(Negative, S) : TRUE
      BY <2>3
    <3>2. h \in Histories(S) /\ h # g
      BY <1>1, <1>2 DEF With
    <3> QED BY <1>2, <1>4, <2>3, <3>2 DEF d
  <2>4. CASE Cardinality({h.block : h \in H}) > 1 /\ d = Conflicting
    <3>1. \E h \in H : h # g
      <4> SUFFICES ASSUME \A h \in H : h = g PROVE FALSE
        OBVIOUS
      <4>1. {h.block : h \in H} = {g.block}
        BY <1>3
      <4>2. Cardinality({h.block : h \in H}) = 1
        BY <4>1, FS_Singleton
      <4> HIDE DEF H
      <4>3. PICK n : n = Cardinality({h.block : h \in H})
        OBVIOUS
      <4>4. n = 1 /\ n > 1
        BY <2>4, <4>2, <4>3
      <4> QED BY <4>4, SMTT(30)
    <3>2. PICK h \in H : h # g
      BY <3>1
    <3>3. h \in Histories(S)
      BY DEF With
    <3> QED BY <1>2, <1>4, <2>4, <3>2, <3>3 DEF d
  <2> QED BY <2>1, <2>2, <2>3, <2>4
<1> QED BY <1>5, <1>6

\* A derived finality stays, or observers disagree.
LEMMA FinalityStays ==
    ASSUME Inv, Inv', FinalsStand', Grows, submission' = submission, derived.status = "FINALIZED"
    PROVE  \/ derived'.status = "FINALIZED"
           \/ derived'.status = "CONFLICTING_OBSERVATIONS" /\ Cardinality(Seen') > 1
<1>1. derived = DeriveTxStatus(submission, sealed) /\ submission \in Submissions
  BY DEF Inv, SealedInv, Types
<1>2. derived = Agreed(With(Positive, sealed))
  <2>1. derived.status \in Positive
    BY DEF Positive
  <2> QED BY <1>1, <2>1, DerivedAgreed
<1>3. PICK g \in With(Positive, sealed) : g.status = "FINALIZED"
  BY <1>2, AgreedParts
<1>4. PICK o : g = ObserverHistory({y \in sealed : y.observer = o})
  BY DEF With, Histories
<1>5. PICK S : S = {y \in sealed : y.observer = o}
  OBVIOUS
<1>6. Finals(S) # {}
  BY <1>3, <1>4, <1>5, FinalSeen
<1>7. PICK x \in sealed : x.finding.type = "finality_reached"
  BY <1>5, <1>6 DEF Finals
<1>8. x \in sealed'
  BY DEF Grows
<1>9. ObserverHistory({y \in sealed' : y.observer = x.observer}).status = "FINALIZED"
  BY <1>7, <1>8 DEF FinalsStand
<1>10. IsFiniteSet(sealed') /\ derived' = DeriveTxStatus(submission, sealed')
  BY DEF Inv, OrderInv, SealedInv
<1>11. Seen' = {y.observer : y \in sealed'}
  BY DEF Seen
<1>12. PICK R : R = sealed'
  OBVIOUS
<1>13. /\ IsFiniteSet(R) /\ x \in R /\ ObserverHistory({y \in R : y.observer = x.observer}).status = "FINALIZED"
       /\ derived' = DeriveTxStatus(submission, R) /\ Seen' = {y.observer : y \in R}
  BY <1>8, <1>9, <1>10, <1>11, <1>12
<1>14. \/ DeriveTxStatus(submission, R).status = "FINALIZED"
       \/ /\ DeriveTxStatus(submission, R).status = "CONFLICTING_OBSERVATIONS"
          /\ Cardinality({y.observer : y \in R}) > 1
  BY <1>1, <1>13, FinalDerived
<1> QED BY <1>13, <1>14

\* Only a rejection and a finality are called final.
LEMMA FinalKinds ==
    ASSUME NEW status, CovenantStatus(status, FALSE).isFinal \/ ZkOperationStatus(TRUE, status).isFinal
    PROVE  status = "REJECTED_BY_NODE" \/ status = "FINALIZED"
<1>1. ASSUME NEW st, st # "REJECTED_BY_NODE", st # "FINALIZED"
      PROVE  ~CovenantStatus(st, FALSE).isFinal /\ ~ZkOperationStatus(TRUE, st).isFinal
  <2>1. ~CovenantStatus(st, FALSE).isFinal
    BY <1>1, ZenonT(60) DEF CovenantStatus, Pooled, Positive
  <2>2. ~ZkOperationStatus(TRUE, st).isFinal
    BY <1>1, ZenonT(60) DEF ZkOperationStatus, Pooled, Positive
  <2> QED BY <2>1, <2>2
<1> QED BY <1>1

\* What a step may do to a state that is called final.
FinalStep ==
    LET was == derived.status
        is == derived'.status
    IN CovenantStatus(was, FALSE).isFinal \/ ZkOperationStatus(TRUE, was).isFinal =>
         \/ /\ CovenantStatus(was, FALSE) = CovenantStatus(is, FALSE)
            /\ ZkOperationStatus(TRUE, was) = ZkOperationStatus(TRUE, is)
         \/ was = "REJECTED_BY_NODE"
         \/ is = "CONFLICTING_OBSERVATIONS" /\ Cardinality(Seen') > 1

\* A covenant or ZK state that is called final stays, whatever the node, the
\* other looks and the failures do, unless it is the rejection of a transaction
\* a chain accepts after all, or another observer disagrees (deriveTxStatus,
\* deriveCovenantStatus, deriveZkOperationStatus).
THEOREM FinalOperationStaysHolds == Spec => FinalOperationStays
<1>1. Inv /\ [Next]_vars => Inv'
  BY Inductive
<1>2. Inv' => FinalsStand'
  BY FinalsStandHolds, PTL
<1>3. Inv /\ Inv' /\ [Next]_vars => [FinalStep]_sealed
  <2> SUFFICES ASSUME Inv, Inv', [Next]_vars,
                      CovenantStatus(derived.status, FALSE).isFinal \/ ZkOperationStatus(TRUE, derived.status).isFinal
               PROVE  \/ derived'.status = derived.status
                      \/ derived.status = "REJECTED_BY_NODE"
                      \/ derived'.status = "CONFLICTING_OBSERVATIONS" /\ Cardinality(Seen') > 1
    BY DEF FinalStep
  <2>1. derived.status = "REJECTED_BY_NODE" \/ derived.status = "FINALIZED"
    BY FinalKinds
  <2>2. Grows /\ submission' = submission /\ FinalsStand'
    BY <1>2, Inductive, AnyStep
  <2> QED BY <2>1, <2>2, FinalityStays
<1> QED BY <1>1, <1>3, InvHolds, PTL DEF Spec, FinalOperationStays, FinalStep

=============================================================================

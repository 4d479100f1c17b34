---------------------------- MODULE TxSendProofs ----------------------------
(***************************************************************************)
(* Proofs about TxSend for any flows, transactions, covenants, crashes and *)
(* faults.                                                                 *)
(***************************************************************************)
EXTENDS TxSend, TLAPS, WellFoundedInduction

Sent == {"answer", "storeLock", "record"}
PastLookUp == {"covLock", "examine", "preflight", "submit"} \cup Sent
HoldsTx == {"lookup"} \cup PastLookUp

\* A live flow past the transaction's lock holds it, and what a live flow
\* holds it holds for the transaction it is sending.
LockInv ==
    /\ \A f \in Flows \ dead : pc[f] \in HoldsTx => txLock[tx[f]] = f
    /\ \A f \in Flows \ dead, t \in Txs :
          txLock[t] = f => pc[f] \in HoldsTx \cup {"release"}
    /\ \A f \in Flows \ dead, c \in Covenants :
          covLock[c] = f => pc[f] \in PastLookUp \cup {"release"}
    /\ \A f \in Flows \ dead : storeLock = f => pc[f] = "record"

\* The covenants a flow holds come before those it still has to take.
OrderInv ==
    \A f \in Flows \ dead : pc[f] = "covLock" =>
        \A c \in Covenants, d \in Missing(f) : covLock[c] = f => c < d

\* Broadcasts are counted by records, lost records and the flows that are
\* about to record; a flow past the look-up sends what is not recorded.
CountInv ==
    /\ OncePerTx
    /\ \A t \in Txs : broadcasts[t] > unrecorded[t] =>
          t \in records \/ \E f \in Flows \ dead : tx[f] = t /\ pc[f] \in Sent
    /\ \A f \in Flows \ dead : pc[f] \in PastLookUp => tx[f] \notin records

\* From the listing to the record a flow holds all of its covenants, and the
\* open rivals on record are among those it still examines or found pending,
\* then among those it names.
Examined == {"preflight", "submit"} \cup Sent
RivalInv ==
    /\ \A f \in Flows \ dead : pc[f] \in {"examine"} \cup Examined =>
          \A c \in CovsOf(tx[f]) : covLock[c] = f
    /\ \A f \in Flows \ dead : pc[f] = "examine" =>
          \A u \in records \cap Rivals(tx[f]) : Open(u) => u \in todo[f] \cup found[f]
    /\ \A f \in Flows \ dead : pc[f] \in Examined =>
          \A u \in records \cap Rivals(tx[f]) : Open(u) => u \in names[f]
    /\ NoSilentRivals

IInv == TypeOK /\ LockInv /\ OrderInv /\ CountInv /\ RivalInv

-----------------------------------------------------------------------------
\* A non-empty set of natural numbers has a least element.
LEMMA LeastNat ==
    ASSUME NEW S \in SUBSET Nat, S # {}
    PROVE  \E n \in S : \A m \in S : n <= m
<1>1. \E x \in S : \A y \in S : ~(<<y, x>> \in OpToRel(<, Nat))
  BY NatLessThanWellFounded, WFMin, Zenon
<1>2. \A x, y \in S : ~(<<y, x>> \in OpToRel(<, Nat)) => x <= y
  BY DEF OpToRel
<1> QED
  BY <1>1, <1>2, Zenon

\* A non-empty set of covenants has a greatest element.
LEMMA GreatestCovenant ==
    ASSUME NEW S \in SUBSET (0..LastCovenant), S # {}
    PROVE  \E n \in S : \A m \in S : m <= n
<1> DEFINE T == {LastCovenant - m : m \in S}
<1>1. T \in SUBSET Nat /\ T # {}
  <2>1. \A m \in S : LastCovenant - m \in Nat
    BY SendAssumption
  <2>2. PICK m \in S : TRUE
    BY Zenon
  <2>3. LastCovenant - m \in T
    BY Zenon
  <2> QED
    BY <2>1, <2>3, Zenon
<1>2. PICK k \in T : \A j \in T : k <= j
  BY <1>1, LeastNat, Zenon
<1>3. PICK n \in S : k = LastCovenant - n
  BY <1>2, Zenon
<1>4. \A m \in S : LastCovenant - n <= LastCovenant - m
  BY <1>2, <1>3, Zenon
<1> QED
  BY <1>4, SendAssumption

\* Covenants are natural numbers up to LastCovenant.
LEMMA CovenantBound == Covenants \subseteq 0..LastCovenant /\ Covenants \subseteq Nat
  BY SendAssumption DEF Covenants

\* The covenants of a transaction are covenants.
LEMMA CovsOfBound == \A t \in Txs : CovsOf(t) \subseteq Covenants
  BY SendAssumption, Zenon DEF Covenants, CovsOf

\* NextLock is the least covenant a flow has still to lock.
LEMMA NextLockLeast ==
    ASSUME TypeOK, NEW f \in Flows, Missing(f) # {}
    PROVE  /\ NextLock(f) \in Missing(f)
           /\ \A d \in Missing(f) : NextLock(f) <= d
<1>1. Missing(f) \in SUBSET Nat
  BY CovsOfBound, CovenantBound, Zenon DEF Missing, TypeOK
<1>2. \E c \in Missing(f) : \A d \in Missing(f) : c <= d
  BY <1>1, LeastNat, Zenon
<1> QED
  BY <1>2, Zenon DEF NextLock

-----------------------------------------------------------------------------
\* Every step preserves the types, and what a record says.
LEMMA TypeStep == TypeOK /\ [Next]_vars => TypeOK'
<1> SUFFICES ASSUME TypeOK, [Next]_vars PROVE TypeOK'
  BY Zenon
<1> USE SendAssumption DEF TypeOK, Goto, At, Faulty, Labels, Outcomes, flowVars, lockVars,
        storeVars, nodeVars, history
<1>1. ASSUME NEW f \in Flows, LockTx(f) PROVE TypeOK'
  BY <1>1, Zenon DEF LockTx
<1>2. ASSUME NEW f \in Flows, LookUp(f) PROVE TypeOK'
  BY <1>2, Zenon DEF LookUp
<1>3. ASSUME NEW f \in Flows, LockCovenant(f) PROVE TypeOK'
  BY <1>3, Zenon DEF LockCovenant
<1>4. ASSUME NEW f \in Flows, ListRivals(f) PROVE TypeOK'
  BY <1>4, Zenon DEF ListRivals
<1>5. ASSUME NEW f \in Flows, Judge(f) PROVE TypeOK'
  BY <1>5, Zenon DEF Judge
<1>6. ASSUME NEW f \in Flows, Preflight(f) PROVE TypeOK'
  <2>1. \E l \in {"submit", "release"} : pc' = [pc EXCEPT ![f] = l]
    BY <1>6, Zenon DEF Preflight
  <2>2. pc' \in [Flows -> Labels] /\ \A g \in Flows : pc'[g] \in {"storeLock", "record"} => pc'[g] = pc[g]
    BY <2>1
  <2>3. faults' \in Nat
    BY <1>6 DEF Preflight
  <2> QED
    BY <1>6, <2>2, <2>3, Zenon DEF Preflight
<1>7. ASSUME NEW f \in Flows, NotSent(f) PROVE TypeOK'
  BY <1>7 DEF NotSent
<1>8. ASSUME NEW f \in Flows, Submit(f) PROVE TypeOK'
  BY <1>8 DEF Submit
<1>9. ASSUME NEW f \in Flows, Answered(f) PROVE TypeOK'
  BY <1>9, ZenonT(60) DEF Answered
<1>10. ASSUME NEW f \in Flows, NoAnswer(f) PROVE TypeOK'
  BY <1>10, Zenon DEF NoAnswer
<1>11. ASSUME NEW f \in Flows, LockStore(f) PROVE TypeOK'
  BY <1>11, Zenon DEF LockStore
<1>12. ASSUME NEW f \in Flows, Record(f) PROVE TypeOK'
  BY <1>12 DEF Record
<1>13. ASSUME NEW f \in Flows, RecordFails(f) PROVE TypeOK'
  BY <1>13 DEF RecordFails
<1>14. ASSUME NEW f \in Flows, TimesOut(f) PROVE TypeOK'
  BY <1>14 DEF TimesOut
<1>15. ASSUME NEW f \in Flows, Release(f) PROVE TypeOK'
  BY <1>15, Zenon DEF Release
<1>16. ASSUME NEW f \in Flows, Crash(f) PROVE TypeOK'
  BY <1>16 DEF Crash
<1>17. ASSUME NEW f \in Flows, NEW u \in Txs, Examine(f, u) PROVE TypeOK'
  BY <1>17 DEF Examine
<1>18. ASSUME NEW f \in Flows, NEW t \in Txs, NEW r \in SUBSET Rivals(t), Begin(f, t, r) PROVE TypeOK'
  BY <1>18 DEF Begin, Rivals
<1>19. ASSUME NEW t \in Txs, Arrives(t) PROVE TypeOK'
  BY <1>19, Zenon DEF Arrives, others
<1>20. ASSUME NEW t \in Txs, Accepts(t) PROVE TypeOK'
  BY <1>20, Zenon DEF Accepts, others
<1>21. ASSUME NEW t \in Txs, Drops(t) PROVE TypeOK'
  BY <1>21, Zenon DEF Drops, others
<1>22. ASSUME NEW o \in Outpoints, SpentElsewhere(o) PROVE TypeOK'
  BY <1>22, Zenon DEF SpentElsewhere, others
<1>23. CASE UNCHANGED vars
  BY <1>23, Zenon DEF vars
<1> QED
  BY <1>1, <1>2, <1>3, <1>4, <1>5, <1>6, <1>7, <1>8, <1>9, <1>10, <1>11,
     <1>12, <1>13, <1>14, <1>15, <1>16, <1>17, <1>18, <1>19, <1>20, <1>21,
     <1>22, <1>23, ZenonT(60) DEF Next, Step, Node

-----------------------------------------------------------------------------
\* Every step preserves who holds which lock.
LEMMA LockStep == TypeOK /\ LockInv /\ [Next]_vars => LockInv'
<1> SUFFICES ASSUME TypeOK, LockInv, [Next]_vars PROVE LockInv'
  BY Zenon
<1> USE SendAssumption DEF TypeOK, LockInv, Goto, At, Faulty, Free, HoldsTx, PastLookUp, Sent,
        flowVars, lockVars, storeVars, nodeVars, history
<1>1. ASSUME NEW f \in Flows, LockTx(f) PROVE LockInv'
  BY <1>1 DEF LockTx
<1>2. ASSUME NEW f \in Flows, LookUp(f) PROVE LockInv'
  BY <1>2 DEF LookUp
<1>3. ASSUME NEW f \in Flows, LockCovenant(f) PROVE LockInv'
  BY <1>3 DEF LockCovenant
<1>4. ASSUME NEW f \in Flows, ListRivals(f) PROVE LockInv'
  BY <1>4 DEF ListRivals
<1>5. ASSUME NEW f \in Flows, Judge(f) PROVE LockInv'
  BY <1>5 DEF Judge
<1>6. ASSUME NEW f \in Flows, Preflight(f) PROVE LockInv'
  <2>1. pc' = [pc EXCEPT ![f] = "submit"] \/ pc' = [pc EXCEPT ![f] = "release"]
    BY <1>6, Zenon DEF Preflight
  <2>2. CASE pc' = [pc EXCEPT ![f] = "submit"]
    BY <1>6, <2>2 DEF Preflight
  <2>3. CASE pc' = [pc EXCEPT ![f] = "release"]
    BY <1>6, <2>3 DEF Preflight
  <2> QED
    BY <2>1, <2>2, <2>3, Zenon
<1>7. ASSUME NEW f \in Flows, NotSent(f) PROVE LockInv'
  BY <1>7 DEF NotSent
<1>8. ASSUME NEW f \in Flows, Submit(f) PROVE LockInv'
  BY <1>8 DEF Submit
<1>9. ASSUME NEW f \in Flows, Answered(f) PROVE LockInv'
  BY <1>9 DEF Answered
<1>10. ASSUME NEW f \in Flows, NoAnswer(f) PROVE LockInv'
  BY <1>10 DEF NoAnswer
<1>11. ASSUME NEW f \in Flows, LockStore(f) PROVE LockInv'
  BY <1>11 DEF LockStore
<1>12. ASSUME NEW f \in Flows, Record(f) PROVE LockInv'
  BY <1>12 DEF Record
<1>13. ASSUME NEW f \in Flows, RecordFails(f) PROVE LockInv'
  BY <1>13 DEF RecordFails
<1>14. ASSUME NEW f \in Flows, TimesOut(f) PROVE LockInv'
  BY <1>14 DEF TimesOut
<1>15. ASSUME NEW f \in Flows, Release(f) PROVE LockInv'
  BY <1>15 DEF Release
<1>16. ASSUME NEW f \in Flows, Crash(f) PROVE LockInv'
  BY <1>16, ZenonT(60) DEF Crash
<1>17. ASSUME NEW f \in Flows, NEW u \in Txs, Examine(f, u) PROVE LockInv'
  BY <1>17, ZenonT(60) DEF Examine
<1>18. ASSUME NEW f \in Flows, NEW t \in Txs, NEW r \in SUBSET Rivals(t), Begin(f, t, r) PROVE LockInv'
  BY <1>18 DEF Begin, Rivals
<1>19. ASSUME NEW t \in Txs, Arrives(t) PROVE LockInv'
  BY <1>19, ZenonT(60) DEF Arrives, others
<1>20. ASSUME NEW t \in Txs, Accepts(t) PROVE LockInv'
  BY <1>20, Zenon DEF Accepts, others
<1>21. ASSUME NEW t \in Txs, Drops(t) PROVE LockInv'
  BY <1>21, ZenonT(60) DEF Drops, others
<1>22. ASSUME NEW o \in Outpoints, SpentElsewhere(o) PROVE LockInv'
  BY <1>22, ZenonT(60) DEF SpentElsewhere, others
<1>23. CASE UNCHANGED vars
  BY <1>23, ZenonT(60) DEF vars
<1> QED
  BY <1>1, <1>2, <1>3, <1>4, <1>5, <1>6, <1>7, <1>8, <1>9, <1>10, <1>11,
     <1>12, <1>13, <1>14, <1>15, <1>16, <1>17, <1>18, <1>19, <1>20, <1>21,
     <1>22, <1>23, ZenonT(60) DEF Next, Step, Node

\* Every step preserves the count of the broadcasts.
LEMMA CountStep == TypeOK /\ LockInv /\ CountInv /\ [Next]_vars => CountInv'
<1> SUFFICES ASSUME TypeOK, LockInv, CountInv, [Next]_vars PROVE CountInv'
  BY Zenon
<1> USE SendAssumption DEF TypeOK, LockInv, CountInv, OncePerTx, Goto, At, Faulty, Free, HoldsTx,
        PastLookUp, Sent, flowVars, lockVars, storeVars, nodeVars, history
<1>1. ASSUME NEW f \in Flows, LockTx(f) PROVE CountInv'
  BY <1>1 DEF LockTx
<1>2. ASSUME NEW f \in Flows, LookUp(f) PROVE CountInv'
  BY <1>2 DEF LookUp, Recorded
<1>3. ASSUME NEW f \in Flows, LockCovenant(f) PROVE CountInv'
  BY <1>3, ZenonT(60) DEF LockCovenant
<1>4. ASSUME NEW f \in Flows, ListRivals(f) PROVE CountInv'
  BY <1>4, SMTT(30) DEF ListRivals
<1>5. ASSUME NEW f \in Flows, Judge(f) PROVE CountInv'
  BY <1>5, SMTT(30) DEF Judge
<1>6. ASSUME NEW f \in Flows, Preflight(f) PROVE CountInv'
  <2>1. pc' = [pc EXCEPT ![f] = "submit"] \/ pc' = [pc EXCEPT ![f] = "release"]
    BY <1>6, Zenon DEF Preflight
  <2>2. CASE pc' = [pc EXCEPT ![f] = "submit"]
    BY <1>6, <2>2 DEF Preflight
  <2>3. CASE pc' = [pc EXCEPT ![f] = "release"]
    BY <1>6, <2>3 DEF Preflight
  <2> QED
    BY <2>1, <2>2, <2>3, Zenon
<1>7. ASSUME NEW f \in Flows, NotSent(f) PROVE CountInv'
  BY <1>7 DEF NotSent
<1>8. ASSUME NEW f \in Flows, Submit(f) PROVE CountInv'
  BY <1>8 DEF Submit
<1>9. ASSUME NEW f \in Flows, Answered(f) PROVE CountInv'
  BY <1>9 DEF Answered
<1>10. ASSUME NEW f \in Flows, NoAnswer(f) PROVE CountInv'
  BY <1>10 DEF NoAnswer
<1>11. ASSUME NEW f \in Flows, LockStore(f) PROVE CountInv'
  BY <1>11 DEF LockStore
<1>12. ASSUME NEW f \in Flows, Record(f) PROVE CountInv'
  BY <1>12, SMTT(30) DEF Record
<1>13. ASSUME NEW f \in Flows, RecordFails(f) PROVE CountInv'
  BY <1>13, SMTT(30) DEF RecordFails
<1>14. ASSUME NEW f \in Flows, TimesOut(f) PROVE CountInv'
  BY <1>14 DEF TimesOut
<1>15. ASSUME NEW f \in Flows, Release(f) PROVE CountInv'
  BY <1>15, SMTT(30) DEF Release
<1>16. ASSUME NEW f \in Flows, Crash(f) PROVE CountInv'
  BY <1>16 DEF Crash
<1>17. ASSUME NEW f \in Flows, NEW u \in Txs, Examine(f, u) PROVE CountInv'
  BY <1>17, ZenonT(60) DEF Examine
<1>18. ASSUME NEW f \in Flows, NEW t \in Txs, NEW r \in SUBSET Rivals(t), Begin(f, t, r) PROVE CountInv'
  BY <1>18, SMTT(30) DEF Begin, Rivals
<1>19. ASSUME NEW t \in Txs, Arrives(t) PROVE CountInv'
  BY <1>19, ZenonT(60) DEF Arrives, others
<1>20. ASSUME NEW t \in Txs, Accepts(t) PROVE CountInv'
  BY <1>20, ZenonT(60) DEF Accepts, others
<1>21. ASSUME NEW t \in Txs, Drops(t) PROVE CountInv'
  BY <1>21, ZenonT(60) DEF Drops, others
<1>22. ASSUME NEW o \in Outpoints, SpentElsewhere(o) PROVE CountInv'
  BY <1>22, ZenonT(60) DEF SpentElsewhere, others
<1>23. CASE UNCHANGED vars
  BY <1>23 DEF vars
<1> QED
  BY <1>1, <1>2, <1>3, <1>4, <1>5, <1>6, <1>7, <1>8, <1>9, <1>10, <1>11,
     <1>12, <1>13, <1>14, <1>15, <1>16, <1>17, <1>18, <1>19, <1>20, <1>21,
     <1>22, <1>23, ZenonT(60) DEF Next, Step, Node

\* Every step preserves the order in which covenants are locked.
LEMMA OrderStep == TypeOK /\ LockInv /\ OrderInv /\ [Next]_vars => OrderInv'
<1> SUFFICES ASSUME TypeOK, LockInv, OrderInv, [Next]_vars PROVE OrderInv'
  OBVIOUS
<1> USE SendAssumption DEF TypeOK, LockInv, OrderInv, Missing, Goto, At, Faulty, Free, HoldsTx,
        PastLookUp, Sent, flowVars, lockVars, storeVars, nodeVars, history
<1>1. ASSUME NEW f \in Flows, LockTx(f) PROVE OrderInv'
  BY <1>1 DEF LockTx
<1>2. ASSUME NEW f \in Flows, LookUp(f) PROVE OrderInv'
  BY <1>2 DEF LookUp
<1>3. ASSUME NEW f \in Flows, LockCovenant(f) PROVE OrderInv'
  <2> DEFINE n == NextLock(f)
  <2>1. n \in Missing(f) /\ \A d \in Missing(f) : n <= d
    BY <1>3, NextLockLeast, Zenon DEF LockCovenant
  <2>2. Covenants \subseteq Nat /\ \A t \in Txs : CovsOf(t) \subseteq Covenants
    BY CovenantBound, CovsOfBound, Zenon
  <2>3. covLock' = [covLock EXCEPT ![n] = f] /\ pc' = pc /\ tx' = tx /\ dead' = dead
    BY <1>3, Zenon DEF LockCovenant
  <2>4. covLock[n] = NoFlow \/ covLock[n] \in dead
    BY <1>3, Zenon DEF LockCovenant
  <2> HIDE DEF n
  <2> SUFFICES ASSUME NEW g \in Flows \ dead, pc[g] = "covLock",
                      NEW c \in Covenants, covLock'[c] = g,
                      NEW d \in CovsOf(tx[g]), covLock'[d] # g
               PROVE  c < d
    BY <2>3, ZenonT(60)
  <2>5. CASE g # f
    BY <2>1, <2>2, <2>3, <2>4, <2>5, SMTT(30)
  <2>6. CASE g = f
    <3>1. d \in Missing(f) /\ d # n
      BY <2>1, <2>2, <2>3, <2>6, SMTT(30)
    <3>2. CASE c = n
      BY <2>1, <2>2, <3>1, <3>2, SMTT(30)
    <3>3. CASE c # n
      BY <2>2, <2>3, <2>6, <3>1, <3>3, SMTT(30)
    <3> QED
      BY <3>2, <3>3, Zenon
  <2> QED
    BY <2>5, <2>6, Zenon
<1>4. ASSUME NEW f \in Flows, ListRivals(f) PROVE OrderInv'
  BY <1>4 DEF ListRivals
<1>5. ASSUME NEW f \in Flows, Judge(f) PROVE OrderInv'
  BY <1>5, SMTT(30) DEF Judge
<1>6. ASSUME NEW f \in Flows, Preflight(f) PROVE OrderInv'
  BY <1>6 DEF Preflight
<1>7. ASSUME NEW f \in Flows, NotSent(f) PROVE OrderInv'
  BY <1>7 DEF NotSent
<1>8. ASSUME NEW f \in Flows, Submit(f) PROVE OrderInv'
  BY <1>8 DEF Submit
<1>9. ASSUME NEW f \in Flows, Answered(f) PROVE OrderInv'
  BY <1>9, SMTT(30) DEF Answered
<1>10. ASSUME NEW f \in Flows, NoAnswer(f) PROVE OrderInv'
  BY <1>10, SMTT(30) DEF NoAnswer
<1>11. ASSUME NEW f \in Flows, LockStore(f) PROVE OrderInv'
  BY <1>11 DEF LockStore
<1>12. ASSUME NEW f \in Flows, Record(f) PROVE OrderInv'
  BY <1>12, SMTT(30) DEF Record
<1>13. ASSUME NEW f \in Flows, RecordFails(f) PROVE OrderInv'
  BY <1>13, SMTT(30) DEF RecordFails
<1>14. ASSUME NEW f \in Flows, TimesOut(f) PROVE OrderInv'
  BY <1>14 DEF TimesOut
<1>15. ASSUME NEW f \in Flows, Release(f) PROVE OrderInv'
  <2>1. tx' = tx /\ dead' = dead /\ pc' = [pc EXCEPT ![f] = "idle"]
    BY <1>15, Zenon DEF Release
  <2>2. covLock' = [c \in Covenants |-> IF covLock[c] = f THEN NoFlow ELSE covLock[c]]
    BY <1>15, Zenon DEF Release
  <2>3. \A t \in Txs : CovsOf(t) \subseteq Covenants
    BY CovsOfBound, Zenon
  <2> SUFFICES ASSUME NEW g \in Flows \ dead, pc'[g] = "covLock",
                      NEW c \in Covenants, covLock'[c] = g,
                      NEW d \in CovsOf(tx[g]), covLock'[d] # g
               PROVE  c < d
    BY <2>1, ZenonT(60)
  <2>4. g # f /\ pc[g] = "covLock"
    BY <2>1, SMTT(30)
  <2>5. covLock[c] = g /\ covLock[d] # g
    BY <2>2, <2>3, <2>4, SMTT(30)
  <2> QED
    BY <2>4, <2>5, SMTT(30)
<1>16. ASSUME NEW f \in Flows, Crash(f) PROVE OrderInv'
  BY <1>16, SMTT(30) DEF Crash
<1>17. ASSUME NEW f \in Flows, NEW u \in Txs, Examine(f, u) PROVE OrderInv'
  BY <1>17, SMTT(30) DEF Examine
<1>18. ASSUME NEW f \in Flows, NEW t \in Txs, NEW r \in SUBSET Rivals(t), Begin(f, t, r) PROVE OrderInv'
  BY <1>18 DEF Begin, Rivals
<1>19. ASSUME NEW t \in Txs, Arrives(t) PROVE OrderInv'
  BY <1>19, SMTT(30) DEF Arrives, others
<1>20. ASSUME NEW t \in Txs, Accepts(t) PROVE OrderInv'
  BY <1>20, SMTT(30) DEF Accepts, others
<1>21. ASSUME NEW t \in Txs, Drops(t) PROVE OrderInv'
  BY <1>21, SMTT(30) DEF Drops, others
<1>22. ASSUME NEW o \in Outpoints, SpentElsewhere(o) PROVE OrderInv'
  BY <1>22, SMTT(30) DEF SpentElsewhere, others
<1>23. CASE UNCHANGED vars
  BY <1>23 DEF vars
<1> QED
  BY <1>1, <1>2, <1>3, <1>4, <1>5, <1>6, <1>7, <1>8, <1>9, <1>10, <1>11,
     <1>12, <1>13, <1>14, <1>15, <1>16, <1>17, <1>18, <1>19, <1>20, <1>21,
     <1>22, <1>23, ZenonT(60) DEF Next, Step, Node

\* Two transitions of a covenant are rivals of each other.
LEMMA RivalsMutual ==
    ASSUME NEW t \in Txs, NEW u \in Rivals(t)
    PROVE  u \in Txs /\ t \in Rivals(u) /\ \E c \in CovsOf(t) : c \in CovsOf(u)
  BY Zenon DEF Rivals

\* A transition on record that is settled or rejected stays so, and only
\* Record changes what is on record.
LEMMA OpenStep ==
    ASSUME TypeOK, CountInv, [Next]_vars
    PROVE  /\ \A u \in records : Open(u)' => Open(u)
           /\ \/ UNCHANGED storeVars
              \/ \E f \in Flows : Record(f)
<1> USE DEF flowVars, lockVars, storeVars, nodeVars, history, Open
<1>1. ASSUME NEW f \in Flows, Record(f) PROVE \A u \in records : Open(u)' => Open(u)
  BY <1>1, Zenon DEF Record, TypeOK, CountInv, At, PastLookUp, Sent
<1>2. ASSUME NEW f \in Flows,
             \/ LockTx(f) \/ LookUp(f) \/ LockCovenant(f) \/ ListRivals(f) \/ Judge(f)
             \/ (\E u \in Txs : Examine(f, u)) \/ Preflight(f) \/ NotSent(f)
             \/ (\E t \in Txs : \E r \in SUBSET Rivals(t) : Begin(f, t, r))
      PROVE  UNCHANGED <<storeVars, accepted, spent>>
  BY <1>2, Zenon DEF LockTx, LookUp, LockCovenant, ListRivals, Judge, Examine, Preflight, NotSent, Begin
<1>3. ASSUME NEW f \in Flows,
             \/ Submit(f) \/ Answered(f) \/ NoAnswer(f) \/ LockStore(f) \/ RecordFails(f)
             \/ TimesOut(f) \/ Release(f) \/ Crash(f)
      PROVE  UNCHANGED <<storeVars, accepted, spent>>
  BY <1>3, Zenon DEF Submit, Answered, NoAnswer, LockStore, RecordFails, TimesOut, Release, Crash
<1>4. ASSUME Node
      PROVE  UNCHANGED storeVars /\ accepted \subseteq accepted' /\ spent \subseteq spent'
  BY <1>4, Zenon DEF Node, Arrives, Accepts, Drops, SpentElsewhere, others
<1>5. ASSUME UNCHANGED vars PROVE UNCHANGED <<storeVars, accepted, spent>>
  BY <1>5, Zenon DEF vars
<1>6. ASSUME UNCHANGED storeVars, accepted \subseteq accepted', spent \subseteq spent'
      PROVE  \A u \in records : Open(u)' => Open(u)
  BY <1>6, Zenon
<1> HIDE DEF Open
<1> QED
  BY <1>1, <1>2, <1>3, <1>4, <1>5, <1>6, Zenon DEF Next, Step

\* What a flow holds and has found while it is judging its rivals.
Knows(f) ==
    /\ pc[f] \in {"examine"} \cup Examined => \A c \in CovsOf(tx[f]) : covLock[c] = f
    /\ pc[f] = "examine" =>
          \A u \in records \cap Rivals(tx[f]) : Open(u) => u \in todo[f] \cup found[f]
    /\ pc[f] \in Examined =>
          \A u \in records \cap Rivals(tx[f]) : Open(u) => u \in names[f]

\* A step of another actor that touches nothing of f's.
Spares(f) ==
    /\ pc'[f] = pc[f] /\ tx'[f] = tx[f] /\ names'[f] = names[f]
    /\ todo'[f] = todo[f] /\ found'[f] = found[f]
    /\ \A c \in Covenants : covLock[c] = f => covLock'[c] = f

\* Only a flow's own steps change what it holds and has found.
LEMMA OthersSpared ==
    ASSUME TypeOK, NEW f \in Flows, NEW g \in Flows \ dead, g # f,
           \/ Step(f) \/ Crash(f)
           \/ \E t \in Txs : \E r \in SUBSET Rivals(t) : Begin(f, t, r)
    PROVE  Spares(g)
<1> USE SendAssumption DEF TypeOK, Goto, flowVars, lockVars, Spares
<1>1. CASE \/ LockTx(f) \/ LookUp(f) \/ ListRivals(f) \/ Judge(f) \/ Preflight(f)
           \/ NotSent(f) \/ Submit(f) \/ Answered(f)
  BY <1>1, ZenonT(60) DEF LockTx, LookUp, ListRivals, Judge, Preflight, NotSent, Submit, Answered
<1>2. CASE \/ NoAnswer(f) \/ LockStore(f) \/ Record(f) \/ RecordFails(f) \/ TimesOut(f)
           \/ Crash(f) \/ (\E t \in Txs : \E r \in SUBSET Rivals(t) : Begin(f, t, r))
  BY <1>2, ZenonT(60) DEF NoAnswer, LockStore, Record, RecordFails, TimesOut, Crash, Begin
<1>3. CASE Release(f)
  BY <1>3, Zenon DEF Release
<1>4. CASE LockCovenant(f)
  BY <1>4, Zenon DEF LockCovenant, Free
<1>5. ASSUME NEW u \in Txs, Examine(f, u) PROVE Spares(g)
  BY <1>5, Zenon DEF Examine
<1> QED
  BY <1>1, <1>2, <1>3, <1>4, <1>5, Zenon DEF Step

\* Only a live flow takes a step, and it stays alive.
LEMMA FlowStepLives ==
    ASSUME NEW f \in Flows,
           Step(f) \/ (\E t \in Txs : \E r \in SUBSET Rivals(t) : Begin(f, t, r))
    PROVE  dead' = dead /\ f \notin dead
<1> USE DEF At
<1>1. CASE \/ LockTx(f) \/ LookUp(f) \/ ListRivals(f) \/ Judge(f) \/ Preflight(f) \/ NotSent(f)
           \/ Submit(f) \/ Answered(f) \/ LockCovenant(f)
  BY <1>1, Zenon DEF LockTx, LookUp, ListRivals, Judge, Preflight, NotSent, Submit, Answered, LockCovenant
<1>2. CASE \/ NoAnswer(f) \/ LockStore(f) \/ Record(f) \/ RecordFails(f) \/ TimesOut(f) \/ Release(f)
           \/ (\E u \in Txs : Examine(f, u))
           \/ (\E t \in Txs : \E r \in SUBSET Rivals(t) : Begin(f, t, r))
  BY <1>2, Zenon DEF NoAnswer, LockStore, Record, RecordFails, TimesOut, Release, Examine, Begin
<1> QED
  BY <1>1, <1>2, Zenon DEF Step

\* A flow's own step keeps what it knows of the rivals on record.
LEMMA OwnKnows ==
    ASSUME TypeOK, NEW f \in Flows \ dead, Knows(f), UNCHANGED storeVars,
           \A u \in records : Open(u)' => Open(u),
           \/ Step(f)
           \/ \E t \in Txs : \E r \in SUBSET Rivals(t) : Begin(f, t, r)
    PROVE  Knows(f)'
<1> USE SendAssumption DEF TypeOK, Goto, At, Faulty, flowVars, lockVars, storeVars, Knows, Examined, Sent
<1>1. CASE \/ LockTx(f) \/ NotSent(f) \/ RecordFails(f) \/ TimesOut(f) \/ Release(f) \/ LockCovenant(f)
           \/ Record(f)
           \/ \E t \in Txs : \E r \in SUBSET Rivals(t) : Begin(f, t, r)
  <2>1. pc'[f] \notin {"examine"} \cup Examined
    BY <1>1, SMTT(30) DEF LockTx, NotSent, RecordFails, TimesOut, Release, LockCovenant, Begin, Record
  <2> QED
    BY <2>1, ZenonT(60)
<1>2. CASE LookUp(f)
  <2>1. pc'[f] \in {"release", "covLock"} \/ (pc'[f] = "submit" /\ CovsOf(tx[f]) = {} /\ tx' = tx)
    BY <1>2, Zenon DEF LookUp
  <2>2. CovsOf(tx[f]) = {} => Rivals(tx[f]) = {}
    BY ZenonT(60) DEF Rivals
  <2>3. tx' = tx
    BY <1>2, Zenon DEF LookUp
  <2> QED
    BY <2>1, <2>2, <2>3, Zenon
<1>3. CASE Submit(f) \/ Answered(f) \/ NoAnswer(f) \/ LockStore(f)
  <2>1. /\ pc[f] \in Examined /\ pc'[f] \in Examined
        /\ tx' = tx /\ names' = names /\ covLock' = covLock
    BY <1>3, ZenonT(60) DEF Submit, Answered, NoAnswer, LockStore
  <2>2. pc[f] # "examine" /\ pc'[f] # "examine"
    BY <2>1, Zenon
  <2> QED
    BY <2>1, <2>2, Zenon
<1>4. CASE ListRivals(f)
  <2>1. /\ tx' = tx /\ covLock' = covLock /\ pc'[f] = "examine"
        /\ todo'[f] = {u \in records \cap Rivals(tx[f]) : outcome[u] # "rejected"}
    BY <1>4, Zenon DEF ListRivals
  <2>2. \A c \in CovsOf(tx[f]) : covLock[c] = f
    BY <1>4, Zenon DEF ListRivals, Missing
  <2>3. \A u \in records \cap Rivals(tx[f]) : Open(u)' => u \in todo'[f]
    BY <2>1, Zenon DEF Open
  <2> QED
    BY <2>1, <2>2, <2>3, Zenon
<1>5. ASSUME NEW v \in Txs, Examine(f, v) PROVE Knows(f)'
  <2>1. /\ tx' = tx /\ covLock' = covLock /\ pc[f] = "examine" /\ pc'[f] = "examine"
        /\ todo'[f] = todo[f] \ {v} /\ found[f] \subseteq found'[f]
        /\ v \in found'[f] \/ Settled(v)
    <3>1. /\ tx' = tx /\ covLock' = covLock /\ pc[f] = "examine" /\ pc'[f] = "examine"
          /\ todo'[f] = todo[f] \ {v}
      BY <1>5, Zenon DEF Examine
    <3>2. \/ found'[f] = found[f] \cup {v}
          \/ found'[f] = found[f] /\ Settled(v)
      <4>1. \/ found' = [found EXCEPT ![f] = IF Settled(v) THEN @ ELSE @ \cup {v}]
            \/ found' = [found EXCEPT ![f] = @ \cup {v}]
        BY <1>5, Zenon DEF Examine
      <4> HIDE DEF Knows, Examined
      <4> QED
        BY <4>1, ZenonT(60)
    <3> QED
      BY <3>1, <3>2, Zenon
  <2>2. Settled(v) => ~Open(v)
    BY Zenon DEF Settled, Open
  <2> QED
    BY <2>1, <2>2, ZenonT(60)
<1>6. CASE Judge(f)
  <2>1. /\ tx' = tx /\ covLock' = covLock /\ names' = names /\ pc[f] = "examine" /\ todo[f] = {}
        /\ pc'[f] = "release" \/ (pc'[f] = "preflight" /\ found[f] = names[f])
    BY <1>6, Zenon DEF Judge
  <2> QED
    BY <2>1, Zenon
<1>7. CASE Preflight(f)
  <2>1. /\ tx' = tx /\ covLock' = covLock /\ names' = names /\ pc[f] = "preflight"
        /\ pc'[f] = "release" \/ pc'[f] = "submit"
    BY <1>7, Zenon DEF Preflight
  <2> QED
    BY <2>1, Zenon
<1> QED
  BY <1>1, <1>2, <1>3, <1>4, <1>5, <1>6, <1>7, Zenon DEF Step

\* Every step preserves what the flows know of the rivals of their
\* transactions, and that no two rivals are open on record in silence.
LEMMA RivalStep ==
    ASSUME TypeOK, CountInv, RivalInv, [Next]_vars
    PROVE  RivalInv'
<1>1. \A f \in Flows \ dead : Knows(f)
  BY Zenon DEF RivalInv, Knows
<1>2. NoSilentRivals
  BY Zenon DEF RivalInv
<1>3. \A u \in records : Open(u)' => Open(u)
  BY OpenStep, Zenon
<1>4. ASSUME NEW g \in Flows \ dead, Spares(g),
             \A u \in records' \cap Rivals(tx[g]) : Open(u)' => u \in records
      PROVE  Knows(g)'
  BY <1>1, <1>3, <1>4, CovsOfBound, Zenon DEF Knows, Spares, TypeOK
<1>5. SUFFICES (\A g \in Flows \ dead' : Knows(g)') /\ NoSilentRivals'
  BY Zenon DEF RivalInv, Knows
<1>6. CASE UNCHANGED storeVars
  <2>1. NoSilentRivals'
    BY <1>2, <1>3, <1>6, Zenon DEF NoSilentRivals, storeVars
  <2>2. \A g \in Flows \ dead : Spares(g) => Knows(g)'
    BY <1>4, <1>6, Zenon DEF storeVars
  <2>3. ASSUME NEW f \in Flows, Step(f) \/ (\E t \in Txs : \E r \in SUBSET Rivals(t) : Begin(f, t, r))
        PROVE  \A g \in Flows \ dead' : Knows(g)'
    <3>1. dead' = dead /\ f \notin dead
      BY <2>3, FlowStepLives, Zenon
    <3>2. Knows(f)'
      BY <1>1, <1>3, <1>6, <2>3, <3>1, OwnKnows, Zenon
    <3> QED
      BY <2>2, <2>3, <3>1, <3>2, OthersSpared, Zenon
  <2>4. ASSUME NEW f \in Flows, Crash(f) PROVE \A g \in Flows \ dead' : Knows(g)'
    <3>1. dead' = dead \cup {f}
      BY <2>4, Zenon DEF Crash
    <3> QED
      BY <2>2, <2>4, <3>1, OthersSpared, Zenon
  <2>5. ASSUME Node \/ UNCHANGED vars PROVE \A g \in Flows \ dead' : Knows(g)'
    <3>1. UNCHANGED <<flowVars, lockVars, dead>>
      BY <2>5, Zenon DEF Node, Arrives, Accepts, Drops, SpentElsewhere, others, vars
    <3> QED
      BY <2>2, <3>1, Zenon DEF Spares, flowVars, lockVars
  <2> QED
    BY <2>1, <2>3, <2>4, <2>5, Zenon DEF Next
<1>7. ASSUME NEW f \in Flows, Record(f) PROVE (\A g \in Flows \ dead' : Knows(g)') /\ NoSilentRivals'
  <2>1. /\ records' = records \cup {tx[f]} /\ dead' = dead /\ f \in Flows \ dead
        /\ replaced' = [replaced EXCEPT ![tx[f]] = names[f]]
        /\ pc[f] = "record" /\ pc'[f] = "release" /\ tx[f] \in Txs
    BY <1>7, Zenon DEF Record, At, Goto, TypeOK
  <2>2. tx[f] \notin records
    BY <2>1, Zenon DEF CountInv, PastLookUp, Sent
  <2>3. ASSUME NEW g \in Flows \ dead, g # f PROVE Knows(g)'
    <3>1. Spares(g)
      BY <1>7, <2>3, OthersSpared, Zenon DEF Step
    <3>2. ASSUME pc[g] \in {"examine"} \cup Examined, tx[f] \in Rivals(tx[g]) PROVE FALSE
      <4>1. PICK c \in CovsOf(tx[g]) : c \in CovsOf(tx[f])
        BY <3>2, RivalsMutual, Zenon DEF TypeOK
      <4>2. covLock[c] = g /\ covLock[c] = f
        BY <1>1, <2>1, <3>2, <4>1, Zenon DEF Knows, Examined, Sent
      <4> QED
        BY <2>3, <4>2, Zenon
    <3>3. CASE pc[g] \in {"examine"} \cup Examined
      BY <1>4, <2>1, <3>1, <3>2, <3>3, Zenon
    <3>4. CASE pc[g] \notin {"examine"} \cup Examined
      BY <3>1, <3>4, Zenon DEF Knows, Spares
    <3> QED
      BY <3>3, <3>4, Zenon
  <2>4. Knows(f)'
    BY <2>1, Zenon DEF Knows, Examined, Sent
  <2>5. NoSilentRivals'
    <3>1. ASSUME NEW t \in records, NEW u \in records, u \in Rivals(t), Open(t)', Open(u)'
          PROVE  t \in replaced'[u] \/ u \in replaced'[t]
      BY <1>2, <1>3, <2>1, <2>2, <3>1, Zenon DEF NoSilentRivals, TypeOK
    <3>2. ASSUME NEW u \in records, u \in Rivals(tx[f]), Open(u)'
          PROVE  u \in replaced'[tx[f]]
      BY <1>1, <1>3, <2>1, <3>2, Zenon DEF Knows, Examined, Sent, TypeOK
    <3>3. \A t \in Txs : \A u \in Rivals(t) : t \in Rivals(u) /\ u # t
      BY RivalsMutual, Zenon DEF Rivals
    <3> QED
      BY <2>1, <3>1, <3>2, <3>3, SMTT(30) DEF NoSilentRivals, TypeOK
  <2> QED
    BY <2>1, <2>3, <2>4, <2>5, Zenon
<1> QED
  BY <1>6, <1>7, OpenStep, Zenon

-----------------------------------------------------------------------------
\* The inductive invariant holds initially.
LEMMA InitInv == Init => IInv
<1> SUFFICES ASSUME Init PROVE IInv
  BY Zenon
<1> USE SendAssumption DEF Init
<1>1. TypeOK
  BY Zenon DEF TypeOK, Labels, Outcomes
<1>2. LockInv
  BY Zenon DEF LockInv, HoldsTx, PastLookUp, Sent
<1>3. OrderInv
  BY Zenon DEF OrderInv
<1>4. CountInv
  BY DEF CountInv, OncePerTx, PastLookUp, Sent
<1>5. RivalInv
  BY Zenon DEF RivalInv, Examined, Sent, NoSilentRivals
<1> QED
  BY <1>1, <1>2, <1>3, <1>4, <1>5, Zenon DEF IInv

\* The inductive invariant is an invariant.
LEMMA Invariance == Spec => []IInv
<1>1. IInv /\ [Next]_vars => IInv'
  BY TypeStep, LockStep, CountStep, OrderStep, RivalStep, Zenon DEF IInv
<1> QED
  BY InitInv, <1>1, PTL DEF Spec

\* Types are right, and a record says what its submit call established.
THEOREM TypeCorrect == Spec => []TypeOK
<1>1. IInv => TypeOK
  BY Zenon DEF IInv
<1> QED
  BY Invariance, <1>1, PTL

\* send() broadcasts a transaction once, and again only for a broadcast whose
\* record was lost, for any number of sends, crashes and faults.
THEOREM OncePerTxHolds == Spec => []OncePerTx
<1>1. IInv => OncePerTx
  BY Zenon DEF IInv, CountInv
<1> QED
  BY Invariance, <1>1, PTL

\* Of two recorded transitions of a covenant that may both still be accepted,
\* one was sent to replace the other, for any number of sends, transactions,
\* covenants, crashes and faults: the covenants' locks are held from the
\* listing of the pending transitions to the record.
THEOREM NoSilentRivalsHolds == Spec => []NoSilentRivals
<1>1. IInv => NoSilentRivals
  BY Zenon DEF IInv, RivalInv
<1> QED
  BY Invariance, <1>1, PTL

\* What the invariant says of the locks excludes a circle of waiting flows.
LEMMA NoCircle == IInv => NoWaitCycle
<1> SUFFICES ASSUME IInv,
                    NEW S \in SUBSET Flows, S # {},
                    \A f \in S : \E g \in S : WaitsFor(f, g)
             PROVE  FALSE
  BY Zenon DEF NoWaitCycle
<1>0. TypeOK /\ LockInv /\ OrderInv
  BY Zenon DEF IInv
<1>1. \A f \in S : f \in Flows \ dead /\ pc[f] \in {"txLock", "covLock", "storeLock"}
  BY Zenon DEF WaitsFor
\* The holder of the store only writes its record.
<1>2. \A f \in S : pc[f] # "storeLock"
  BY <1>0, <1>1, Zenon DEF WaitsFor, LockInv
\* What a flow waits for next is a covenant.
<1>3. \A f \in S : Missing(f) # {} =>
         /\ NextLock(f) \in Missing(f) /\ NextLock(f) \in Covenants
         /\ NextLock(f) \in 0..LastCovenant
  <2> TAKE f \in S
  <2> HAVE Missing(f) # {}
  <2>1. NextLock(f) \in Missing(f)
    BY <1>0, NextLockLeast, Zenon
  <2>2. Missing(f) \subseteq Covenants
    BY <1>0, CovsOfBound, Zenon DEF Missing, TypeOK
  <2> QED
    BY <2>1, <2>2, CovenantBound, Zenon
\* Whoever is waited for holds a lock, so it waits for a covenant.
<1>4. ASSUME NEW f \in S, NEW g \in S, WaitsFor(f, g)
      PROVE  pc[g] = "covLock"
  <2>1. g \in Flows \ dead /\ pc[g] \in {"txLock", "covLock"}
    BY <1>1, <1>2, Zenon
  <2>2. CASE pc[f] = "txLock"
    <3>1. tx[f] \in Txs /\ txLock[tx[f]] = g
      BY <1>0, <1>4, <2>2, Zenon DEF WaitsFor, TypeOK
    <3>2. pc[g] \in HoldsTx \cup {"release"}
      BY <1>0, <2>1, <3>1, Zenon DEF LockInv
    <3> QED
      BY <2>1, <3>2, Zenon DEF HoldsTx, PastLookUp, Sent
  <2>3. CASE pc[f] = "covLock"
    <3>1. NextLock(f) \in Covenants /\ covLock[NextLock(f)] = g
      BY <1>3, <1>4, <2>3, Zenon DEF WaitsFor
    <3>2. pc[g] \in PastLookUp \cup {"release"}
      BY <1>0, <2>1, <3>1, Zenon DEF LockInv
    <3> QED
      BY <2>1, <3>2, Zenon DEF PastLookUp, Sent
  <2> QED
    BY <1>1, <1>2, <2>2, <2>3, Zenon
\* Of the covenants waited for take the greatest: its holder waits for a
\* greater one.
<1> DEFINE At1 == {f \in S : pc[f] = "covLock"}
           D == {NextLock(f) : f \in At1}
<1>5. \A f \in At1 : /\ Missing(f) # {}
                     /\ \E g \in At1 : covLock[NextLock(f)] = g
  BY <1>4, Zenon DEF WaitsFor
<1>6. At1 # {}
  BY <1>4, ZenonT(60)
<1>7. D \in SUBSET (0..LastCovenant) /\ D # {}
  BY <1>3, <1>5, <1>6, Zenon
<1>8. PICK n \in D : \A m \in D : m <= n
  BY <1>7, GreatestCovenant, Zenon
<1>9. PICK f \in At1 : n = NextLock(f)
  BY <1>8, Zenon
<1>10. PICK g \in At1 : covLock[n] = g
  BY <1>5, <1>9, Zenon
<1>11. n < NextLock(g)
  BY <1>0, <1>1, <1>3, <1>5, <1>9, <1>10, Zenon DEF OrderInv
<1>12. NextLock(g) <= n
  BY <1>8, <1>10, Zenon
<1>13. n \in 0..LastCovenant /\ NextLock(g) \in 0..LastCovenant
  BY <1>3, <1>5, <1>7, <1>8, <1>10, Zenon
<1> HIDE DEF At1, D
<1> QED
  BY <1>11, <1>12, <1>13, SendAssumption

\* No sends of a workspace wait for each other in a circle, for any
\* covenants: the sorted ids make the locks of withLocks an order.
THEOREM NoWaitCycleHolds == Spec => []NoWaitCycle
  BY Invariance, NoCircle, PTL

=============================================================================
